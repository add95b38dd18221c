------------------------------- MODULE Judge -------------------------------
(***************************************************************************)
(* The judge: from a submitted form to a stored verdict and score.         *)
(* add_submission (database/submission.rs) inserts the rows of a           *)
(* submission and spawns test_submission (worker.rs), which compiles the   *)
(* code and hands one job per test to the workers; each worker executes a  *)
(* test, stores its result, counts it, and the worker that finds all tests *)
(* counted reduces them to a verdict (update_submission_result) and        *)
(* refreshes the score of the user (update_user_score_for_problem).        *)
(*                                                                         *)
(* All of them share one database and no lock.  Every SQL statement        *)
(* commits on its own, so a step below is one statement, or a group of     *)
(* statements no other actor can tell from one; the README argues each     *)
(* group.  There is one problem: no statement of the judge relates two.    *)
(*                                                                         *)
(* The worker manager appears as the job pool it implements (WorkerPool).  *)
(*                                                                         *)
(* The judge deletes no rows.  A statement below whose guard asks for a    *)
(* row is refused when administrators have deleted it: the error paths     *)
(* this opens (InsertFails, ReduceFails, UpsertFails) are in JudgeAdmin.   *)
(***************************************************************************)
EXTENDS TestingResults, FiniteSetsExt

CONSTANTS Users, Submissions, Tests, Subtasks, Workers,
          SubtaskScore,  \* subtasks.subtask_score, by subtask_id
          Problems,      \* the contents the problem may start with
          Verdicts,      \* what the tester may return, besides an error
          MaxRestarts,   \* bound on the restarts of the server
          None

ASSUME ScoreAssumption == SubtaskScore \in [Subtasks -> Nat]
ASSUME ProblemsAssumption ==
    \A p \in Problems :
        /\ p.tests \subseteq Tests /\ IsFiniteSet(p.tests)
        /\ p.subtasks \subseteq Subtasks /\ IsFiniteSet(p.subtasks)
        /\ p.subtask_tests \subseteq p.subtasks \X p.tests
        /\ p = [tests |-> p.tests, subtasks |-> p.subtasks,
                subtask_tests |-> p.subtask_tests]
ASSUME VerdictsAssumption ==
    Verdicts \subseteq TestingResult \ (Unfinished \cup {"CompilationError"})
ASSUME WorkersAssumption == IsFiniteSet(Workers)  \* num_workers is a usize
ASSUME RestartsAssumption == MaxRestarts \in Nat
ASSUME NoneAssumption == None \notin Submissions \X Tests

VARIABLES
    \* the database
    users, problem, submissions, test_results, subtask_results,
    user_problem_scores,
    \* the server process
    task,        \* per submission: its handler, then its test_submission
    pool,        \* jobs handed to the worker manager
    worker,      \* local state of each worker
    \* the file system
    executables, \* submissions whose compiled executable exists in temp/
    restarts

database == <<users, problem, submissions, test_results, subtask_results,
              user_problem_scores>>

vars == <<database, task, pool, worker, executables, restarts>>

-----------------------------------------------------------------------------
\* Tables are functions from keys to rows.  An UPDATE of a missing row does
\* nothing.
EmptyTable == [k \in {} |-> None]

Insert(table, key, row) ==
    [k \in DOMAIN table \cup {key} |-> IF k = key THEN row ELSE table[k]]

Update(table, key, row) ==
    [k \in DOMAIN table |-> IF k = key THEN row ELSE table[k]]

set_submission_result(s, r) ==
    submissions' = [k \in DOMAIN submissions |->
        IF k = s THEN [submissions[k] EXCEPT !.result = r] ELSE submissions[k]]

get_tests_for_submission(s) == {t \in Tests : <<s, t>> \in DOMAIN test_results}

\* Mutant: the query selects the wrong column.
BugSelectTests(s) == get_tests_for_submission(s)

get_subtasks_for_submission(s) ==
    {g \in Subtasks : <<s, g>> \in DOMAIN subtask_results}

\* Mutant: only accepted submissions are asked for.
BugOnlyAccepted(u) ==
    {r \in DOMAIN submissions : /\ submissions[r].user_id = u
                               /\ submissions[r].result = "Accepted"}

get_submissions_by_user_for_problem(u) ==
    {r \in DOMAIN submissions : submissions[r].user_id = u}

get_tests_for_subtask(g) == {t \in Tests : <<g, t>> \in problem.subtask_tests}

\* A row that is missing, or whose points are NULL, counts as 0.
get_subtask_points_result(s, g) ==
    IF <<s, g>> \in DOMAIN subtask_results
    THEN subtask_results[<<s, g>>].points ELSE 0

-----------------------------------------------------------------------------
NoTask == [pc |-> "none", todo |-> {}]

\* Local variables of a worker: its job, the verdict of the tester, what it
\* read of the counter, and the variables of the two loops.
IdleWorker ==
    [pc |-> "idle", job |-> None, verdict |-> "InQueue", tests_done |-> 0,
     todo |-> {}, result |-> "Accepted", points |-> 0,
     user |-> None, mine |-> {}, score |-> 0]

\* A worker beyond the num_workers of the configuration, which may be 0.
NoWorker == [IdleWorker EXCEPT !.pc = "off"]

Spawned(W) == [w \in Workers |-> IF w \in W THEN IdleWorker ELSE NoWorker]

RunningWorkers == {w \in Workers : worker[w].pc # "off"}

Busy(w) == worker[w].pc \notin {"idle", "off"}

Init ==
    /\ users = Users
    /\ problem \in Problems
    /\ submissions = EmptyTable
    /\ test_results = EmptyTable
    /\ subtask_results = EmptyTable
    /\ user_problem_scores = EmptyTable
    /\ task = [s \in Submissions |-> NoTask]
    /\ pool = {}
    /\ \E W \in SUBSET Workers : worker = Spawned(W)
    /\ executables = {}
    /\ restarts = 0

-----------------------------------------------------------------------------
(***************************************************************************)
(* add_submission, run by the handler of the request.                      *)
(***************************************************************************)
Goto(s, pc, todo) == task' = [task EXCEPT ![s] = [pc |-> pc, todo |-> todo]]

\* The program is not empty: the handler does nothing with an empty one.
AddSubmission(s) ==
    /\ task[s].pc = "none"
    /\ \E u \in users :
          submissions' = Insert(submissions, s,
              [user_id |-> u, result |-> "InQueue", points |-> 0, tests_done |-> 0])
    /\ Goto(s, "select_subtasks", {})
    /\ UNCHANGED <<users, problem, test_results, subtask_results,
                   user_problem_scores, pool, worker, executables, restarts>>

SelectSubtasks(s) ==
    /\ task[s].pc = "select_subtasks"
    /\ Goto(s, "insert_subtasks", problem.subtasks)
    /\ UNCHANGED <<database, pool, worker, executables, restarts>>

InsertSubtaskResult(s) ==
    /\ task[s].pc = "insert_subtasks"
    /\ s \in DOMAIN submissions
    /\ \E g \in task[s].todo \cap problem.subtasks :
          /\ subtask_results' = Insert(subtask_results, <<s, g>>,
                                       [result |-> "InQueue", points |-> 0])
          /\ Goto(s, "insert_subtasks", task[s].todo \ {g})
    /\ UNCHANGED <<users, problem, submissions, test_results,
                   user_problem_scores, pool, worker, executables, restarts>>

SelectTests(s) ==
    /\ task[s].pc = "insert_subtasks"
    /\ task[s].todo = {}
    /\ Goto(s, "insert_tests", problem.tests)
    /\ UNCHANGED <<database, pool, worker, executables, restarts>>

InsertTestResult(s) ==
    /\ task[s].pc = "insert_tests"
    /\ s \in DOMAIN submissions
    /\ \E t \in task[s].todo \cap problem.tests :
          /\ test_results' = Insert(test_results, <<s, t>>, "InQueue")
          /\ Goto(s, "insert_tests", task[s].todo \ {t})
    /\ UNCHANGED <<users, problem, submissions, subtask_results,
                   user_problem_scores, pool, worker, executables, restarts>>

Spawn(s) ==
    /\ task[s].pc = "insert_tests"
    /\ task[s].todo = {}
    /\ Goto(s, "queued", {})
    /\ UNCHANGED <<database, pool, worker, executables, restarts>>

\* The client disconnects: hyper drops the handler at the await it is in.
HandlerDropped(s) ==
    /\ task[s].pc \in {"select_subtasks", "insert_subtasks", "insert_tests"}
    /\ Goto(s, "stopped", {})
    /\ UNCHANGED <<database, pool, worker, executables, restarts>>

-----------------------------------------------------------------------------
(***************************************************************************)
(* test_submission, in a task of its own.  Its errors are dropped.         *)
(***************************************************************************)
StartCompiling(s) ==
    /\ task[s].pc = "queued"
    /\ set_submission_result(s, "Compiling")
    /\ Goto(s, IF s \in DOMAIN submissions THEN "compile" ELSE "stopped", {})
    /\ UNCHANGED <<users, problem, test_results, subtask_results,
                   user_problem_scores, pool, worker, executables, restarts>>

CompileFails(s) ==
    /\ task[s].pc = "compile"
    /\ set_submission_result(s, "CompilationError")
    /\ Goto(s, "ended", {})
    /\ UNCHANGED <<users, problem, test_results, subtask_results,
                   user_problem_scores, pool, worker, executables, restarts>>

\* The executable gets a random name, so no other submission can touch it.
CompileSucceeds(s) ==
    /\ task[s].pc = "compile"
    /\ executables' = executables \cup {s}
    /\ set_submission_result(s, "Testing")
    /\ subtask_results' = [k \in DOMAIN subtask_results |->
           IF k[1] = s THEN [subtask_results[k] EXCEPT !.result = "Testing"]
                       ELSE subtask_results[k]]
    /\ Goto(s, "select_jobs", {})
    /\ UNCHANGED <<users, problem, test_results, user_problem_scores, pool,
                   worker, restarts>>

SelectJobs(s) ==
    /\ task[s].pc = "select_jobs"
    /\ Goto(s, "dispatch", get_tests_for_submission(s))
    /\ UNCHANGED <<database, pool, worker, executables, restarts>>

\* WorkerManager::execute_test.
HandOver(s) ==
    /\ task[s].pc = "dispatch"
    /\ RunningWorkers # {}
    /\ \E t \in task[s].todo :
          /\ pool' = pool \cup {<<s, t>>}
          /\ Goto(s, "dispatch", task[s].todo \ {t})
    /\ UNCHANGED <<database, worker, executables, restarts>>

\* "No workers": the error ends the task, and nobody removes the executable.
DispatchFails(s) ==
    /\ task[s].pc = "dispatch"
    /\ task[s].todo # {}
    /\ RunningWorkers = {}
    /\ Goto(s, "stopped", {})
    /\ UNCHANGED <<database, pool, worker, executables, restarts>>

-----------------------------------------------------------------------------
(***************************************************************************)
(* A worker executes one test: worker_do_test, and the loop around it.     *)
(***************************************************************************)
SubmissionOf(w) == worker[w].job[1]

TestOf(w) == worker[w].job[2]

\* The worker moves to pc, changing nothing else of its local state.
At(w, pc) == worker' = [worker EXCEPT ![w].pc = pc]

TakeJob(w) ==
    /\ worker[w].pc = "idle"
    /\ \E j \in pool :
          /\ pool' = pool \ {j}
          /\ test_results' = Update(test_results, j, "Testing")
          /\ worker' = [worker EXCEPT ![w] =
                           [IdleWorker EXCEPT !.pc = "execute", !.job = j]]
    /\ UNCHANGED <<users, problem, submissions, subtask_results,
                   user_problem_scores, task, executables, restarts>>

\* An error of any call of worker_do_test becomes InternalError.
ExecuteTest(w) ==
    LET s == SubmissionOf(w)
        runs == /\ TestOf(w) \in problem.tests
                /\ s \in DOMAIN submissions
                /\ s \in executables
    IN  /\ worker[w].pc = "execute"
        /\ \E v \in (IF runs THEN Verdicts ELSE {"InternalError"}) :
              worker' = [worker EXCEPT ![w] =
                            [@ EXCEPT !.pc = "store", !.verdict = v]]
        /\ UNCHANGED <<database, task, pool, executables, restarts>>

StoreResult(w) ==
    /\ worker[w].pc = "store"
    /\ test_results' = Update(test_results, worker[w].job, worker[w].verdict)
    /\ worker' = [worker EXCEPT ![w] =
                     [@ EXCEPT !.pc = "count", !.verdict = "InQueue"]]
    /\ UNCHANGED <<users, problem, submissions, subtask_results,
                   user_problem_scores, task, pool, executables, restarts>>

-----------------------------------------------------------------------------
(***************************************************************************)
(* worker_test_is_done.  Its errors are ignored: the worker is idle again. *)
(***************************************************************************)
Return(w) == worker' = [worker EXCEPT ![w] = IdleWorker]

CountTest(w) ==
    /\ worker[w].pc = "count"
    /\ submissions' = [k \in DOMAIN submissions |->
           IF k = SubmissionOf(w)
           THEN [submissions[k] EXCEPT !.tests_done = @ + 1]
           ELSE submissions[k]]
    /\ At(w, "read_tests_done")
    /\ UNCHANGED <<users, problem, test_results, subtask_results,
                   user_problem_scores, task, pool, executables, restarts>>

ReadTestsDone(w) ==
    LET s == SubmissionOf(w)
    IN  /\ worker[w].pc = "read_tests_done"
        /\ IF s \in DOMAIN submissions
           THEN worker' = [worker EXCEPT ![w] =
                    [@ EXCEPT !.pc = "compare",
                              !.tests_done = submissions[s].tests_done]]
           ELSE Return(w)
        /\ UNCHANGED <<database, task, pool, executables, restarts>>

\* Mutant: the worker forgets to count the test it has just counted.
BugAllTestsDone(s, tests_done) ==
    tests_done + 1 = Cardinality(get_tests_for_submission(s))

AllTestsDone(s, tests_done) ==
    tests_done = Cardinality(get_tests_for_submission(s))

CompareTotal(w) ==
    /\ worker[w].pc = "compare"
    /\ IF AllTestsDone(SubmissionOf(w), worker[w].tests_done)
       THEN worker' = [worker EXCEPT ![w] =
                [@ EXCEPT !.pc = "select_subtasks", !.tests_done = 0]]
       ELSE Return(w)
    /\ UNCHANGED <<database, task, pool, executables, restarts>>

-----------------------------------------------------------------------------
(***************************************************************************)
(* update_submission_result.                                               *)
(***************************************************************************)
SelectSubtaskResults(w) ==
    /\ worker[w].pc = "select_subtasks"
    /\ worker' = [worker EXCEPT ![w] =
           [@ EXCEPT !.pc = "reduce",
                     !.todo = get_subtasks_for_submission(SubmissionOf(w))]]
    /\ UNCHANGED <<database, task, pool, executables, restarts>>

\* Mutant: one accepted test is enough.
BugSubtaskVerdict(s, g) ==
    IF \E t \in get_tests_for_subtask(g) : test_results[<<s, t>>] = "Accepted"
    THEN "Accepted"
    ELSE Worst({test_results[<<s, t>>] : t \in get_tests_for_subtask(g)})

\* The loop of update_subtask_result, as LoopsComputeTheWorst shows.
SubtaskVerdict(s, g) ==
    Worst({test_results[<<s, t>>] : t \in get_tests_for_subtask(g)})

\* update_subtask_result and the two reads after it, for one subtask.
ReduceSubtask(w) ==
    LET s == SubmissionOf(w)
        me == worker[w]
    IN  /\ me.pc = "reduce"
        /\ \E g \in me.todo :
              LET verdict == SubtaskVerdict(s, g)
                  points == IF verdict = "Accepted" THEN SubtaskScore[g] ELSE 0
              IN  /\ \A t \in get_tests_for_subtask(g) : <<s, t>> \in DOMAIN test_results
                  /\ <<s, g>> \in DOMAIN subtask_results
                  /\ subtask_results' = Update(subtask_results, <<s, g>>,
                         [result |-> verdict, points |-> points])
                  /\ worker' = [worker EXCEPT ![w] =
                         [me EXCEPT !.todo = me.todo \ {g},
                                    !.result = merge_two_testing_results(me.result, verdict),
                                    !.points = me.points + points]]
        /\ UNCHANGED <<users, problem, submissions, test_results,
                       user_problem_scores, task, pool, executables, restarts>>

\* Mutant: points are added to those the submission has.
BugAddPoints(s, me) ==
    [submissions[s] EXCEPT !.result = me.result, !.points = @ + me.points]

Published(s, me) ==
    [submissions[s] EXCEPT !.result = me.result, !.points = me.points]

WriteVerdict(w) ==
    LET s == SubmissionOf(w)
    IN  /\ worker[w].pc = "reduce"
        /\ worker[w].todo = {}
        /\ submissions' = [k \in DOMAIN submissions |->
               IF k = s THEN Published(s, worker[w]) ELSE submissions[k]]
        /\ worker' = [worker EXCEPT ![w] =
               [@ EXCEPT !.pc = "select_submissions",
                         !.result = "Accepted", !.points = 0]]
        /\ UNCHANGED <<users, problem, test_results, subtask_results,
                       user_problem_scores, task, pool, executables, restarts>>

-----------------------------------------------------------------------------
(***************************************************************************)
(* update_user_score_for_problem, called at the end of                     *)
(* update_submission_result; then the executable is removed.               *)
(***************************************************************************)
SelectSubmissions(w) ==
    LET s == SubmissionOf(w)
        u == submissions[s].user_id
    IN  /\ worker[w].pc = "select_submissions"
        /\ IF s \in DOMAIN submissions
           THEN worker' = [worker EXCEPT ![w] =
                    [@ EXCEPT !.pc = "select_problem_subtasks",
                              !.user = u,
                              !.mine = get_submissions_by_user_for_problem(u)]]
           ELSE Return(w)
        /\ UNCHANGED <<database, task, pool, executables, restarts>>

SelectProblemSubtasks(w) ==
    /\ worker[w].pc = "select_problem_subtasks"
    /\ worker' = [worker EXCEPT ![w] =
                     [@ EXCEPT !.pc = "score", !.todo = problem.subtasks]]
    /\ UNCHANGED <<database, task, pool, executables, restarts>>

\* Mutant: the points of all submissions are added up.
BugBestPointsAdds(mine, g) ==
    MapThenSumSet(LAMBDA r : get_subtask_points_result(r, g), mine)

BestPoints(mine, g) == Max({0} \cup {get_subtask_points_result(r, g) : r \in mine})

ScoreSubtask(w) ==
    LET me == worker[w]
    IN  /\ me.pc = "score"
        /\ \E g \in me.todo :
              worker' = [worker EXCEPT ![w] =
                  [me EXCEPT !.todo = me.todo \ {g},
                             !.score = me.score + BestPoints(me.mine, g)]]
        /\ UNCHANGED <<database, task, pool, executables, restarts>>

UpsertScore(w) ==
    LET u == worker[w].user
    IN  /\ worker[w].pc = "score"
        /\ worker[w].todo = {}
        /\ u \in users
        /\ user_problem_scores' = Insert(user_problem_scores, u, worker[w].score)
        /\ worker' = [worker EXCEPT ![w] =
               [@ EXCEPT !.pc = "remove", !.user = None, !.mine = {}, !.score = 0]]
        /\ UNCHANGED <<users, problem, submissions, test_results,
                       subtask_results, task, pool, executables, restarts>>

RemoveExecutable(w) ==
    /\ worker[w].pc = "remove"
    /\ executables' = executables \ {SubmissionOf(w)}
    /\ Return(w)
    /\ UNCHANGED <<database, task, pool, restarts>>

-----------------------------------------------------------------------------
(***************************************************************************)
(* The server is restarted: its tasks, channels and workers are gone, the  *)
(* database and temp/ are not.  Nothing at startup looks for submissions   *)
(* that were being judged.                                                 *)
(***************************************************************************)
Restart ==
    /\ restarts < MaxRestarts
    /\ restarts' = restarts + 1
    /\ task' = [s \in Submissions |->
                   IF task[s] = NoTask THEN NoTask
                                       ELSE [pc |-> "stopped", todo |-> {}]]
    /\ pool' = {}
    /\ \E W \in SUBSET Workers : worker' = Spawned(W)
    /\ UNCHANGED <<database, executables>>

HandlerStep(s) ==
    \/ SelectSubtasks(s)
    \/ InsertSubtaskResult(s)
    \/ SelectTests(s)
    \/ InsertTestResult(s)
    \/ Spawn(s)

TaskStep(s) ==
    \/ StartCompiling(s)
    \/ CompileFails(s)
    \/ CompileSucceeds(s)
    \/ SelectJobs(s)
    \/ HandOver(s)
    \/ DispatchFails(s)

WorkerStep(w) ==
    \/ TakeJob(w)
    \/ ExecuteTest(w)
    \/ StoreResult(w)
    \/ CountTest(w)
    \/ ReadTestsDone(w)
    \/ CompareTotal(w)
    \/ SelectSubtaskResults(w)
    \/ ReduceSubtask(w)
    \/ WriteVerdict(w)
    \/ SelectSubmissions(w)
    \/ SelectProblemSubtasks(w)
    \/ ScoreSubtask(w)
    \/ UpsertScore(w)
    \/ RemoveExecutable(w)

\* Every submission of the model was made and nothing is left to do.
AtRest ==
    /\ \A s \in Submissions :
          \/ task[s].pc \in {"ended", "stopped"}
          \/ task[s] = [pc |-> "dispatch", todo |-> {}]
    /\ pool = {}
    /\ \A w \in Workers : ~Busy(w)

JudgeNext ==
    \/ \E s \in Submissions :
          AddSubmission(s) \/ HandlerStep(s) \/ HandlerDropped(s) \/ TaskStep(s)
    \/ \E w \in Workers : WorkerStep(w)

Next == JudgeNext \/ Restart \/ (AtRest /\ UNCHANGED vars)

\* tokio polls every task that is ready.  That "compile" and "execute" are
\* left assumes that g++ and the tested program return.
Fairness ==
    /\ \A s \in Submissions : WF_vars(HandlerStep(s)) /\ WF_vars(TaskStep(s))
    /\ \A w \in Workers : WF_vars(WorkerStep(w))

Safe == Init /\ [][Next]_vars

Spec == Safe /\ Fairness

-----------------------------------------------------------------------------
SubmissionRow ==
    [user_id : Users, result : TestingResult, points : Nat, tests_done : Nat]

SubtaskResultRow == [result : TestingResult, points : Nat]

TaskRecord ==
    [pc : {"none", "select_subtasks", "insert_subtasks", "insert_tests",
           "queued", "compile", "select_jobs", "dispatch", "ended", "stopped"},
     todo : SUBSET (Subtasks \cup Tests)]

WorkerRecord ==
    [pc : {"off", "idle", "execute", "store", "count", "read_tests_done", "compare",
           "select_subtasks", "reduce", "select_submissions",
           "select_problem_subtasks", "score", "remove"},
     job : (Submissions \X Tests) \cup {None},
     verdict : TestingResult, tests_done : Nat,
     todo : SUBSET Subtasks, result : TestingResult, points : Nat,
     user : Users \cup {None}, mine : SUBSET Submissions, score : Nat]

TypeOK ==
    /\ users \subseteq Users
    /\ problem \in [tests : SUBSET Tests, subtasks : SUBSET Subtasks,
                    subtask_tests : SUBSET (Subtasks \X Tests)]
    /\ DOMAIN submissions \subseteq Submissions
    /\ submissions \in [DOMAIN submissions -> SubmissionRow]
    /\ DOMAIN test_results \subseteq Submissions \X Tests
    /\ test_results \in [DOMAIN test_results -> TestingResult]
    /\ DOMAIN subtask_results \subseteq Submissions \X Subtasks
    /\ subtask_results \in [DOMAIN subtask_results -> SubtaskResultRow]
    /\ DOMAIN user_problem_scores \subseteq Users
    /\ user_problem_scores \in [DOMAIN user_problem_scores -> Nat]
    /\ task \in [Submissions -> TaskRecord]
    /\ pool \subseteq Submissions \X Tests
    /\ worker \in [Workers -> WorkerRecord]
    /\ executables \subseteq Submissions
    /\ restarts \in 0..MaxRestarts

-----------------------------------------------------------------------------
\* The workers have written a verdict for s.
Judged(s) ==
    /\ s \in DOMAIN submissions
    /\ submissions[s].result \notin Unfinished \cup {"CompilationError"}

\* The tests that decide the verdict of s, and the subtasks it earns.
DecidingTests(s) ==
    UNION {get_tests_for_subtask(g) : g \in get_subtasks_for_submission(s)}

Solved(s, g) ==
    \A t \in get_tests_for_subtask(g) : test_results[<<s, t>>] = "Accepted"

\* The verdict of s is the most severe result of the tests that decide it, and
\* its points are the scores of the subtasks it solves.
Faithful(s) ==
    /\ DecidingTests(s) \subseteq get_tests_for_submission(s)
    /\ submissions[s].result =
           Worst({test_results[<<s, t>>] : t \in DecidingTests(s)})
    /\ submissions[s].points =
           MapThenSumSet(LAMBDA g : SubtaskScore[g],
                         {g \in get_subtasks_for_submission(s) : Solved(s, g)})

(***************************************************************************)
(* A stored verdict is the most severe result of the submission's tests,   *)
(* none of which is still running, and its points are the scores of the    *)
(* subtasks it solves: no worker publishes a verdict from half the tests.  *)
(***************************************************************************)
VerdictFaithful == \A s \in Submissions : Judged(s) => Faithful(s)

(***************************************************************************)
(* The worker that publishes the verdict removes the executable; it does   *)
(* so only when no test of the submission still needs it.                  *)
(***************************************************************************)
ExecutableOutlivesItsTests ==
    \A s \in Submissions :
        \/ task[s].pc = "dispatch" /\ task[s].todo # {}
        \/ \E t \in Tests : <<s, t>> \in pool
        \/ \E w \in Workers : worker[w].pc = "execute" /\ SubmissionOf(w) = s
        => s \in executables

(***************************************************************************)
(* Two workers that count the last two tests may both, or either alone,    *)
(* see all tests counted; never neither.  Once every test is counted and   *)
(* no worker is busy with the submission, its verdict is published, its    *)
(* user has a score and its executable is gone.                            *)
(***************************************************************************)
SomeoneFinalises ==
    \A s \in DOMAIN submissions :
        /\ task[s].pc = "dispatch"
        /\ get_tests_for_submission(s) # {}
        /\ submissions[s].tests_done = Cardinality(get_tests_for_submission(s))
        /\ \A w \in Workers : Busy(w) => SubmissionOf(w) # s
        => /\ Judged(s)
           /\ submissions[s].user_id \in DOMAIN user_problem_scores
           /\ s \notin executables

\* What the submissions of u earn between them: each subtask counts once.
Earned(u) ==
    MapThenSumSet(LAMBDA g : SubtaskScore[g],
                  {g \in problem.subtasks : \E s \in DOMAIN submissions :
                                               /\ submissions[s].user_id = u
                                               /\ get_subtask_points_result(s, g) # 0})

(***************************************************************************)
(* A score is never more than what the user's submissions earn together,   *)
(* taking each subtask from the best of them, however many workers write   *)
(* the score of that user at the same time.                                *)
(***************************************************************************)
ScoreIsEarned ==
    \A u \in DOMAIN user_problem_scores : user_problem_scores[u] <= Earned(u)

(***************************************************************************)
(* With one worker and no restart, whenever that worker is idle the score  *)
(* of a user with a judged submission is exactly what the submissions      *)
(* earn.  Two workers may write their sums in either order, and the later  *)
(* writer may have read the points first; a restart may come between a     *)
(* verdict and its score.                                                  *)
(***************************************************************************)
ScoreIsExact ==
    /\ Cardinality(RunningWorkers) = 1
    /\ restarts = 0
    /\ \A w \in Workers : ~Busy(w)
    => \A s \in Submissions : Judged(s) =>
          LET u == submissions[s].user_id
          IN  /\ u \in DOMAIN user_problem_scores
              /\ user_problem_scores[u] = Earned(u)

(***************************************************************************)
(* The judge implements JudgeService: however its workers share the tests  *)
(* of a submission and race to finish it, and whether or not the server is *)
(* restarted, a test has one outcome and the submission one answer, made   *)
(* of all outcomes.                                                        *)
(***************************************************************************)
Service == INSTANCE JudgeService WITH
    links <- problem.subtask_tests,
    stage <- [s \in Submissions |->
                 IF s \notin DOMAIN submissions THEN "none"
                 ELSE IF Judged(s) THEN "answered" ELSE submissions[s].result],
    graded <- DOMAIN subtask_results,
    outcome <- [k \in DOMAIN test_results |->
                   IF test_results[k] \in Unfinished THEN "pending"
                                                     ELSE test_results[k]],
    answer <- [s \in {s \in Submissions : Judged(s)} |->
                  [result |-> submissions[s].result,
                   points |-> submissions[s].points]]

ServiceSpec == Service!Spec

(***************************************************************************)
(* When a worker writes the score of a user, that score covers the         *)
(* submission it has just judged.                                          *)
(***************************************************************************)
CoversOwnPoints ==
    \A w \in Workers :
        worker[w].pc = "score" /\ worker'[w].pc = "remove" =>
            user_problem_scores'[worker[w].user]
                >= submissions[SubmissionOf(w)].points

ScoreCoversOwnPoints == [][CoversOwnPoints]_vars

(***************************************************************************)
(* Without restarts, a submission handed to test_submission gets a verdict *)
(* if its problem has tests and the server has workers, and its executable *)
(* does not stay behind.                                                   *)
(***************************************************************************)
CanJudge == problem.tests # {} /\ RunningWorkers # {}

SubmissionGetsVerdict ==
    \A s \in Submissions :
        (task[s].pc = "queued" /\ CanJudge) ~>
            (s \in DOMAIN submissions /\ submissions[s].result \notin Unfinished)

ExecutableIsRemoved ==
    \A s \in Submissions :
        (s \in executables /\ CanJudge) ~> (s \notin executables)
=============================================================================
