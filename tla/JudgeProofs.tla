----------------------------- MODULE JudgeProofs -----------------------------
(***************************************************************************)
(* Theorems about the judge, for every number of users, submissions,       *)
(* tests, subtasks and workers: first that it is type correct, then that   *)
(* its verdicts, and in the end that its scores can be trusted.            *)
(***************************************************************************)
EXTENDS Judge, DataTheorems

-----------------------------------------------------------------------------
(***************************************************************************)
(* Tables.                                                                 *)
(***************************************************************************)
IsTable(f, K, R) ==
    /\ DOMAIN f \subseteq K
    /\ f \in [DOMAIN f -> R]

LEMMA EmptyIsTable ==
    ASSUME NEW K, NEW R PROVE IsTable(EmptyTable, K, R)
BY DEF IsTable, EmptyTable

LEMMA InsertIsTable ==
    ASSUME NEW K, NEW R, NEW f, IsTable(f, K, R), NEW k \in K, NEW r \in R
    PROVE  IsTable(Insert(f, k, r), K, R)
BY DEF IsTable, Insert

LEMMA UpdateIsTable ==
    ASSUME NEW K, NEW R, NEW f, IsTable(f, K, R), NEW k, NEW r \in R
    PROVE  IsTable(Update(f, k, r), K, R)
BY DEF IsTable, Update

\* A table whose rows are each left as they are or replaced by a proper row.
LEMMA MapIsTable ==
    ASSUME NEW K, NEW R, NEW f, NEW g, IsTable(f, K, R),
           DOMAIN g = DOMAIN f, g = [k \in DOMAIN f |-> g[k]],
           \A k \in DOMAIN f : g[k] \in R
    PROVE  IsTable(g, K, R)
BY DEF IsTable

-----------------------------------------------------------------------------
(***************************************************************************)
(* The typing invariant, one part per variable.  Beyond TypeOK it says     *)
(* that a busy worker has a job, that a worker computing a score knows the *)
(* user, and that the points of a subtask row are all or nothing, which    *)
(* bounds what BestPoints can be.                                          *)
(***************************************************************************)
UsersOK == users \subseteq Users

ProblemOK ==
    problem \in [tests : SUBSET Tests, subtasks : SUBSET Subtasks,
                 subtask_tests : SUBSET (Subtasks \X Tests)]

SubmissionsOK == IsTable(submissions, Submissions, SubmissionRow)

TestResultsOK == IsTable(test_results, Submissions \X Tests, TestingResult)

SubtaskResultsOK ==
    /\ IsTable(subtask_results, Submissions \X Subtasks, SubtaskResultRow)
    /\ \A k \in DOMAIN subtask_results :
          subtask_results[k].points \in {0, SubtaskScore[k[2]]}

ScoresOK == IsTable(user_problem_scores, Users, Nat)

DatabaseOK ==
    /\ UsersOK
    /\ ProblemOK
    /\ SubmissionsOK
    /\ TestResultsOK
    /\ SubtaskResultsOK
    /\ ScoresOK

\* The jobs a task hands over are tests.
GoodTask(r) ==
    /\ r \in TaskRecord
    /\ r.pc = "dispatch" => r.todo \subseteq Tests

TaskOK ==
    /\ task \in [Submissions -> TaskRecord]
    /\ \A s \in Submissions : GoodTask(task[s])

PoolOK == pool \subseteq Submissions \X Tests

GoodWorker(r) ==
    /\ r \in WorkerRecord
    /\ r.pc \notin {"idle", "off"} => r.job \in Submissions \X Tests
    /\ r.pc \in {"select_problem_subtasks", "score"} => r.user \in Users

WorkerOK ==
    /\ worker \in [Workers -> WorkerRecord]
    /\ \A w \in Workers : GoodWorker(worker[w])

FilesOK == executables \subseteq Submissions

RestartsOK == restarts \in 0..MaxRestarts

TInv ==
    /\ DatabaseOK
    /\ TaskOK
    /\ PoolOK
    /\ WorkerOK
    /\ FilesOK
    /\ RestartsOK

LEMMA TInvImpliesTypeOK == TInv => TypeOK
BY DEF TInv, DatabaseOK, UsersOK, ProblemOK, SubmissionsOK, TestResultsOK,
       SubtaskResultsOK, ScoresOK, TaskOK, PoolOK, WorkerOK, FilesOK,
       RestartsOK, TypeOK, IsTable

LEMMA IdleIsGood == GoodWorker(IdleWorker)
BY DEF GoodWorker, IdleWorker, WorkerRecord, TestingResult

LEMMA SpawnedAreGood ==
    ASSUME NEW W PROVE \A w \in Workers : GoodWorker(Spawned(W)[w])
<1>1. GoodWorker(NoWorker)
  BY DEF GoodWorker, NoWorker, IdleWorker, WorkerRecord, TestingResult
<1> QED BY <1>1, IdleIsGood DEF Spawned

LEMMA TInvInit == Init => TInv
<1> SUFFICES ASSUME Init PROVE TInv
  OBVIOUS
<1>1. UsersOK /\ ProblemOK
  BY ProblemsAssumption DEF Init, UsersOK, ProblemOK
<1>2. SubmissionsOK /\ TestResultsOK /\ ScoresOK
  BY EmptyIsTable DEF Init, SubmissionsOK, TestResultsOK, ScoresOK
<1>3. SubtaskResultsOK
  BY EmptyIsTable DEF Init, SubtaskResultsOK, EmptyTable
<1>4. TaskOK /\ PoolOK /\ FilesOK
  BY DEF Init, TaskOK, PoolOK, FilesOK, NoTask, TaskRecord, GoodTask
<1>5. WorkerOK
  <2>1. PICK W \in SUBSET Workers : worker = Spawned(W)
    BY DEF Init
  <2> QED BY <2>1, SpawnedAreGood DEF WorkerOK, GoodWorker, Spawned
<1>6. RestartsOK
  BY RestartsAssumption DEF Init, RestartsOK
<1> QED BY <1>1, <1>2, <1>3, <1>4, <1>5, <1>6 DEF TInv, DatabaseOK

-----------------------------------------------------------------------------
(***************************************************************************)
(* Helpers for the steps.                                                  *)
(***************************************************************************)
LEMMA DatabaseUnchanged ==
    ASSUME DatabaseOK, UNCHANGED database PROVE DatabaseOK'
BY DEF DatabaseOK, database, UsersOK, ProblemOK, SubmissionsOK, TestResultsOK,
       SubtaskResultsOK, ScoresOK, IsTable

LEMMA WorkerSet ==
    ASSUME WorkerOK, NEW w \in Workers, NEW r, GoodWorker(r),
           worker' = [worker EXCEPT ![w] = r]
    PROVE  WorkerOK'
BY DEF WorkerOK, GoodWorker

LEMMA TaskSet ==
    ASSUME TaskOK, NEW s \in Submissions, NEW pc, NEW todo, Goto(s, pc, todo),
           GoodTask([pc |-> pc, todo |-> todo])
    PROVE  TaskOK'
BY DEF TaskOK, Goto, GoodTask

LEMMA ResultSet ==
    ASSUME SubmissionsOK, NEW s, NEW r \in TestingResult,
           set_submission_result(s, r)
    PROVE  SubmissionsOK'
<1>1. /\ DOMAIN submissions' = DOMAIN submissions
      /\ submissions' = [k \in DOMAIN submissions |-> submissions'[k]]
      /\ \A k \in DOMAIN submissions : submissions'[k] \in SubmissionRow
  BY DEF set_submission_result, SubmissionsOK, IsTable, SubmissionRow
<1> QED BY <1>1, MapIsTable DEF SubmissionsOK

\* The best points of a subtask are all of them or none.
LEMMA BestPointsAllOrNothing ==
    ASSUME SubtaskResultsOK, NEW g \in Subtasks, NEW mine
    PROVE  BestPoints(mine, g) \in {0, SubtaskScore[g]}
<1> DEFINE P == {0} \cup {get_subtask_points_result(r, g) : r \in mine}
<1>1. SubtaskScore[g] \in Nat
  BY ScoreAssumption
<1>2. P \subseteq {0, SubtaskScore[g]}
  BY DEF SubtaskResultsOK, get_subtask_points_result
<1>3. \E x \in P : \A y \in P : x >= y
  <2>1. CASE SubtaskScore[g] \in P
    BY <1>1, <1>2, <2>1
  <2>2. CASE SubtaskScore[g] \notin P
    BY <1>1, <1>2, <2>2
  <2> QED BY <2>1, <2>2
<1>4. Max(P) \in P
  BY <1>3 DEF Max
<1> QED BY <1>2, <1>4 DEF BestPoints

-----------------------------------------------------------------------------
(***************************************************************************)
(* The steps of add_submission and test_submission.                        *)
(***************************************************************************)
LEMMA HandlerType ==
    ASSUME TInv, NEW s \in Submissions, AddSubmission(s) \/ HandlerStep(s) \/ HandlerDropped(s)
    PROVE  TInv'
<1> USE DEF TInv, DatabaseOK
<1>0. task[s] \in TaskRecord /\ GoodTask(task[s])
  BY DEF TaskOK
<1>1. CASE AddSubmission(s)
  <2>1. PICK u \in users :
           submissions' = Insert(submissions, s,
               [user_id |-> u, result |-> "InQueue", points |-> 0, tests_done |-> 0])
    BY <1>1 DEF AddSubmission
  <2>2. [user_id |-> u, result |-> "InQueue", points |-> 0, tests_done |-> 0]
            \in SubmissionRow
    BY DEF SubmissionRow, UsersOK, TestingResult
  <2>3. SubmissionsOK'
    BY <2>1, <2>2, InsertIsTable DEF SubmissionsOK
  <2>4. TaskOK'
    BY <1>1, TaskSet DEF AddSubmission, TaskRecord, GoodTask
  <2> QED
    BY <1>1, <2>3, <2>4
    DEF AddSubmission, UsersOK, ProblemOK, TestResultsOK, SubtaskResultsOK,
        ScoresOK, PoolOK, WorkerOK, FilesOK, RestartsOK
<1>2. CASE SelectSubtasks(s)
  <2>1. TaskOK'
    BY <1>2, TaskSet DEF SelectSubtasks, TaskRecord, GoodTask, ProblemOK
  <2> QED
    BY <1>2, <2>1, DatabaseUnchanged
    DEF SelectSubtasks, PoolOK, WorkerOK, FilesOK, RestartsOK
<1>3. CASE InsertSubtaskResult(s)
  <2>1. PICK g \in task[s].todo \cap problem.subtasks :
           /\ subtask_results' = Insert(subtask_results, <<s, g>>,
                                        [result |-> "InQueue", points |-> 0])
           /\ Goto(s, "insert_subtasks", task[s].todo \ {g})
    BY <1>3 DEF InsertSubtaskResult
  <2>2. <<s, g>> \in Submissions \X Subtasks
    BY DEF ProblemOK
  <2>3. [result |-> "InQueue", points |-> 0] \in SubtaskResultRow
    BY DEF SubtaskResultRow, TestingResult
  <2>4. IsTable(subtask_results', Submissions \X Subtasks, SubtaskResultRow)
    BY <2>1, <2>2, <2>3, InsertIsTable DEF SubtaskResultsOK
  <2>5. SubtaskResultsOK'
    BY <2>1, <2>4 DEF SubtaskResultsOK, Insert
  <2>6. TaskOK'
    BY <1>0, <2>1, TaskSet DEF TaskRecord, GoodTask
  <2> QED
    BY <1>3, <2>5, <2>6
    DEF InsertSubtaskResult, UsersOK, ProblemOK, TestResultsOK, SubmissionsOK,
        ScoresOK, PoolOK, WorkerOK, FilesOK, RestartsOK
<1>4. CASE SelectTests(s)
  <2>1. TaskOK'
    BY <1>4, TaskSet DEF SelectTests, TaskRecord, GoodTask, ProblemOK
  <2> QED
    BY <1>4, <2>1, DatabaseUnchanged
    DEF SelectTests, PoolOK, WorkerOK, FilesOK, RestartsOK
<1>5. CASE InsertTestResult(s)
  <2>1. PICK t \in task[s].todo \cap problem.tests :
           /\ test_results' = Insert(test_results, <<s, t>>, "InQueue")
           /\ Goto(s, "insert_tests", task[s].todo \ {t})
    BY <1>5 DEF InsertTestResult
  <2>2. <<s, t>> \in Submissions \X Tests /\ "InQueue" \in TestingResult
    BY DEF ProblemOK, TestingResult
  <2>3. TestResultsOK'
    BY <2>1, <2>2, InsertIsTable DEF TestResultsOK
  <2>4. TaskOK'
    BY <1>0, <2>1, TaskSet DEF TaskRecord, GoodTask
  <2> QED
    BY <1>5, <2>3, <2>4
    DEF InsertTestResult, UsersOK, ProblemOK, SubtaskResultsOK, SubmissionsOK,
        ScoresOK, PoolOK, WorkerOK, FilesOK, RestartsOK
<1>6. CASE Spawn(s)
  <2>1. TaskOK'
    BY <1>6, TaskSet DEF Spawn, TaskRecord, GoodTask
  <2> QED
    BY <1>6, <2>1, DatabaseUnchanged DEF Spawn, PoolOK, WorkerOK, FilesOK, RestartsOK
<1>7. CASE HandlerDropped(s)
  <2>1. TaskOK'
    BY <1>7, TaskSet DEF HandlerDropped, TaskRecord, GoodTask
  <2> QED
    BY <1>7, <2>1, DatabaseUnchanged
    DEF HandlerDropped, PoolOK, WorkerOK, FilesOK, RestartsOK
<1> QED
  BY <1>1, <1>2, <1>3, <1>4, <1>5, <1>6, <1>7 DEF HandlerStep

LEMMA TaskType ==
    ASSUME TInv, NEW s \in Submissions, TaskStep(s)
    PROVE  TInv'
<1> USE DEF TInv, DatabaseOK
<1>0. task[s] \in TaskRecord /\ GoodTask(task[s])
  BY DEF TaskOK
<1>1. CASE StartCompiling(s)
  <2>1. SubmissionsOK'
    BY <1>1, ResultSet DEF StartCompiling, TestingResult
  <2>2. TaskOK'
    BY <1>1, TaskSet DEF StartCompiling, TaskRecord, GoodTask
  <2> QED
    BY <1>1, <2>1, <2>2
    DEF StartCompiling, UsersOK, ProblemOK, TestResultsOK, SubtaskResultsOK,
        ScoresOK, PoolOK, WorkerOK, FilesOK, RestartsOK
<1>2. CASE CompileFails(s)
  <2>1. SubmissionsOK'
    BY <1>2, ResultSet DEF CompileFails, TestingResult
  <2>2. TaskOK'
    BY <1>2, TaskSet DEF CompileFails, TaskRecord, GoodTask
  <2> QED
    BY <1>2, <2>1, <2>2
    DEF CompileFails, UsersOK, ProblemOK, TestResultsOK, SubtaskResultsOK,
        ScoresOK, PoolOK, WorkerOK, FilesOK, RestartsOK
<1>3. CASE CompileSucceeds(s)
  <2>1. SubmissionsOK'
    BY <1>3, ResultSet DEF CompileSucceeds, TestingResult
  <2>2. TaskOK'
    BY <1>3, TaskSet DEF CompileSucceeds, TaskRecord, GoodTask
  <2>3. /\ DOMAIN subtask_results' = DOMAIN subtask_results
        /\ subtask_results' = [k \in DOMAIN subtask_results |-> subtask_results'[k]]
        /\ \A k \in DOMAIN subtask_results :
              /\ subtask_results'[k] \in SubtaskResultRow
              /\ subtask_results'[k].points = subtask_results[k].points
    BY <1>3 DEF CompileSucceeds, SubtaskResultsOK, IsTable, SubtaskResultRow, TestingResult
  <2>4. SubtaskResultsOK'
    BY <2>3, MapIsTable DEF SubtaskResultsOK
  <2> QED
    BY <1>3, <2>1, <2>2, <2>4
    DEF CompileSucceeds, UsersOK, ProblemOK, TestResultsOK, ScoresOK, PoolOK,
        WorkerOK, FilesOK, RestartsOK
<1>4. CASE SelectJobs(s)
  <2>1. TaskOK'
    BY <1>4, TaskSet DEF SelectJobs, TaskRecord, GoodTask, get_tests_for_submission
  <2> QED
    BY <1>4, <2>1, DatabaseUnchanged DEF SelectJobs, PoolOK, WorkerOK, FilesOK, RestartsOK
<1>5. CASE HandOver(s)
  <2>1. PICK t \in task[s].todo :
           /\ pool' = pool \cup {<<s, t>>}
           /\ Goto(s, "dispatch", task[s].todo \ {t})
    BY <1>5 DEF HandOver
  <2>2. t \in Tests
    BY <1>0, <1>5, <2>1 DEF HandOver, GoodTask
  <2>3. PoolOK'
    BY <2>1, <2>2 DEF PoolOK
  <2>4. TaskOK'
    BY <1>0, <1>5, <2>1, TaskSet DEF HandOver, TaskRecord, GoodTask
  <2> QED
    BY <1>5, <2>3, <2>4, DatabaseUnchanged DEF HandOver, WorkerOK, FilesOK, RestartsOK
<1>6. CASE DispatchFails(s)
  <2>1. TaskOK'
    BY <1>6, TaskSet DEF DispatchFails, TaskRecord, GoodTask
  <2> QED
    BY <1>6, <2>1, DatabaseUnchanged
    DEF DispatchFails, PoolOK, WorkerOK, FilesOK, RestartsOK
<1> QED BY <1>1, <1>2, <1>3, <1>4, <1>5, <1>6 DEF TaskStep

-----------------------------------------------------------------------------
(***************************************************************************)
(* The steps of the workers.                                               *)
(***************************************************************************)
LEMMA WorkerRecordFacts ==
    ASSUME WorkerOK, NEW w \in Workers
    PROVE  /\ GoodWorker(worker[w])
           /\ worker[w].pc \notin {"idle", "off"} =>
                  SubmissionOf(w) \in Submissions /\ TestOf(w) \in Tests
BY DEF WorkerOK, GoodWorker, SubmissionOf, TestOf

\* A worker step that touches neither the database nor the tasks, the pool or
\* the files.
LEMMA OnlyTheWorker ==
    ASSUME TInv, NEW w \in Workers, NEW r, GoodWorker(r),
           worker' = [worker EXCEPT ![w] = r],
           UNCHANGED <<database, task, pool, executables, restarts>>
    PROVE  TInv'
<1>1. WorkerOK' /\ DatabaseOK'
  BY WorkerSet, DatabaseUnchanged DEF TInv
<1> QED BY <1>1 DEF TInv, TaskOK, PoolOK, FilesOK, RestartsOK

LEMMA JobType ==
    ASSUME TInv, NEW w \in Workers,
           TakeJob(w) \/ ExecuteTest(w) \/ StoreResult(w) \/ CountTest(w)
             \/ ReadTestsDone(w) \/ CompareTotal(w)
    PROVE  TInv'
<1> USE DEF TInv, DatabaseOK
<1>0. GoodWorker(worker[w])
  BY WorkerRecordFacts
<1>1. CASE TakeJob(w)
  <2>1. PICK j \in pool :
           /\ pool' = pool \ {j}
           /\ test_results' = Update(test_results, j, "Testing")
           /\ worker' = [worker EXCEPT ![w] =
                            [IdleWorker EXCEPT !.pc = "execute", !.job = j]]
    BY <1>1 DEF TakeJob
  <2>2. j \in Submissions \X Tests
    BY DEF PoolOK
  <2>3. GoodWorker([IdleWorker EXCEPT !.pc = "execute", !.job = j])
    BY <2>2, IdleIsGood DEF GoodWorker, IdleWorker, WorkerRecord
  <2>4. WorkerOK'
    BY <2>1, <2>3, WorkerSet
  <2>5. TestResultsOK'
    BY <2>1, UpdateIsTable DEF TestResultsOK, TestingResult
  <2>6. PoolOK'
    BY <2>1 DEF PoolOK
  <2> QED
    BY <1>1, <2>4, <2>5, <2>6
    DEF TakeJob, UsersOK, ProblemOK, SubmissionsOK, SubtaskResultsOK, ScoresOK,
        TaskOK, FilesOK, RestartsOK
<1>2. CASE ExecuteTest(w)
  <2>1. PICK v \in Verdicts \cup {"InternalError"} :
           worker' = [worker EXCEPT ![w] = [@ EXCEPT !.pc = "store", !.verdict = v]]
    BY <1>2 DEF ExecuteTest
  <2>2. v \in TestingResult
    BY VerdictsAssumption DEF TestingResult
  <2>3. GoodWorker([worker[w] EXCEPT !.pc = "store", !.verdict = v])
    BY <1>0, <1>2, <2>2 DEF ExecuteTest, GoodWorker, WorkerRecord
  <2> QED BY <1>2, <2>1, <2>3, OnlyTheWorker DEF ExecuteTest
<1>3. CASE StoreResult(w)
  <2>1. /\ worker[w].verdict \in TestingResult
        /\ worker' = [worker EXCEPT ![w] =
                         [@ EXCEPT !.pc = "count", !.verdict = "InQueue"]]
    BY <1>0, <1>3 DEF StoreResult, GoodWorker, WorkerRecord
  <2>2. GoodWorker([worker[w] EXCEPT !.pc = "count", !.verdict = "InQueue"])
    BY <1>0, <1>3 DEF StoreResult, GoodWorker, WorkerRecord, TestingResult
  <2>3. WorkerOK'
    BY <2>1, <2>2, WorkerSet
  <2>4. TestResultsOK'
    BY <1>3, <2>1, UpdateIsTable DEF StoreResult, TestResultsOK
  <2> QED
    BY <1>3, <2>3, <2>4
    DEF StoreResult, UsersOK, ProblemOK, SubmissionsOK, SubtaskResultsOK,
        ScoresOK, TaskOK, PoolOK, FilesOK, RestartsOK
<1>4. CASE CountTest(w)
  <2>1. GoodWorker([worker[w] EXCEPT !.pc = "read_tests_done"])
    BY <1>0, <1>4 DEF CountTest, GoodWorker, WorkerRecord
  <2>2. WorkerOK'
    BY <1>4, <2>1, WorkerSet DEF CountTest, At
  <2>3. /\ DOMAIN submissions' = DOMAIN submissions
        /\ submissions' = [k \in DOMAIN submissions |-> submissions'[k]]
        /\ \A k \in DOMAIN submissions : submissions'[k] \in SubmissionRow
    BY <1>4 DEF CountTest, SubmissionsOK, IsTable, SubmissionRow
  <2>4. SubmissionsOK'
    BY <2>3, MapIsTable DEF SubmissionsOK
  <2> QED
    BY <1>4, <2>2, <2>4
    DEF CountTest, UsersOK, ProblemOK, TestResultsOK, SubtaskResultsOK,
        ScoresOK, TaskOK, PoolOK, FilesOK, RestartsOK
<1>5. CASE ReadTestsDone(w)
  <2>1. CASE SubmissionOf(w) \in DOMAIN submissions
    <3>1. submissions[SubmissionOf(w)].tests_done \in Nat
      BY <2>1 DEF SubmissionsOK, IsTable, SubmissionRow
    <3>2. GoodWorker([worker[w] EXCEPT !.pc = "compare",
                          !.tests_done = submissions[SubmissionOf(w)].tests_done])
      BY <1>0, <1>5, <3>1 DEF ReadTestsDone, GoodWorker, WorkerRecord
    <3> QED BY <1>5, <2>1, <3>2, OnlyTheWorker DEF ReadTestsDone
  <2>2. CASE SubmissionOf(w) \notin DOMAIN submissions
    BY <1>5, <2>2, IdleIsGood, OnlyTheWorker DEF ReadTestsDone, Return
  <2> QED BY <2>1, <2>2
<1>6. CASE CompareTotal(w)
  <2>1. GoodWorker([worker[w] EXCEPT !.pc = "select_subtasks", !.tests_done = 0])
    BY <1>0, <1>6 DEF CompareTotal, GoodWorker, WorkerRecord
  <2> QED BY <1>6, <2>1, IdleIsGood, OnlyTheWorker DEF CompareTotal, Return
<1> QED BY <1>1, <1>2, <1>3, <1>4, <1>5, <1>6

LEMMA FinaliseType ==
    ASSUME TInv, NEW w \in Workers,
           SelectSubtaskResults(w) \/ ReduceSubtask(w) \/ WriteVerdict(w)
    PROVE  TInv'
<1> USE DEF TInv, DatabaseOK
<1>0. /\ GoodWorker(worker[w])
      /\ worker[w].pc \notin {"idle", "off"} => SubmissionOf(w) \in Submissions
  BY WorkerRecordFacts
<1>1. CASE SelectSubtaskResults(w)
  <2>1. GoodWorker([worker[w] EXCEPT !.pc = "reduce",
                        !.todo = get_subtasks_for_submission(SubmissionOf(w))])
    BY <1>0, <1>1
    DEF SelectSubtaskResults, GoodWorker, WorkerRecord, get_subtasks_for_submission
  <2> QED BY <1>1, <2>1, OnlyTheWorker DEF SelectSubtaskResults
<1>2. CASE ReduceSubtask(w)
  <2> DEFINE s == SubmissionOf(w)
             verdict(g) == SubtaskVerdict(s, g)
             points(g) == IF verdict(g) = "Accepted" THEN SubtaskScore[g] ELSE 0
  <2>1. PICK g \in worker[w].todo :
           /\ \A t \in get_tests_for_subtask(g) : <<s, t>> \in DOMAIN test_results
           /\ <<s, g>> \in DOMAIN subtask_results
           /\ subtask_results' = Update(subtask_results, <<s, g>>,
                  [result |-> verdict(g), points |-> points(g)])
           /\ worker' = [worker EXCEPT ![w] =
                  [worker[w] EXCEPT
                      !.todo = worker[w].todo \ {g},
                      !.result = merge_two_testing_results(worker[w].result, verdict(g)),
                      !.points = worker[w].points + points(g)]]
    BY <1>2 DEF ReduceSubtask
  <2>2. s \in Submissions /\ g \in Subtasks
    BY <1>0, <1>2, <2>1 DEF ReduceSubtask, GoodWorker, WorkerRecord
  <2>3. verdict(g) \in TestingResult
    <3>1. {test_results[<<s, t>>] : t \in get_tests_for_subtask(g)}
              \in SUBSET TestingResult
      BY <2>1 DEF TestResultsOK, IsTable
    <3> QED BY <3>1, WorstIsAVerdict DEF SubtaskVerdict
  <2>4. points(g) \in {0, SubtaskScore[g]} /\ points(g) \in Nat
    BY <2>2, ScoreAssumption
  <2> HIDE DEF verdict, points
  <2>5. [result |-> verdict(g), points |-> points(g)] \in SubtaskResultRow
    BY <2>3, <2>4 DEF SubtaskResultRow
  <2>6. IsTable(subtask_results', Submissions \X Subtasks, SubtaskResultRow)
    BY <2>1, <2>5, UpdateIsTable DEF SubtaskResultsOK
  <2>7. SubtaskResultsOK'
    <3> SUFFICES ASSUME NEW k \in DOMAIN subtask_results
                 PROVE  subtask_results'[k].points \in {0, SubtaskScore[k[2]]}
      BY <2>1, <2>6 DEF SubtaskResultsOK, Update
    <3>1. CASE k = <<s, g>>
      BY <2>1, <2>4, <3>1 DEF Update
    <3>2. CASE k # <<s, g>>
      BY <2>1, <3>2 DEF Update, SubtaskResultsOK
    <3> QED BY <3>1, <3>2
  <2>8. merge_two_testing_results(worker[w].result, verdict(g)) \in TestingResult
    BY <1>0, <2>3, MergeIsMoreSevere DEF GoodWorker, WorkerRecord
  <2> DEFINE r == [worker[w] EXCEPT
                      !.todo = worker[w].todo \ {g},
                      !.result = merge_two_testing_results(worker[w].result, verdict(g)),
                      !.points = worker[w].points + points(g)]
  <2>9. GoodWorker(r)
    <3>1. /\ worker[w].todo \ {g} \in SUBSET Subtasks
          /\ worker[w].points + points(g) \in Nat
      BY <1>0, <2>4 DEF GoodWorker, WorkerRecord
    <3>2. r \in WorkerRecord
      BY <1>0, <2>8, <3>1 DEF GoodWorker, WorkerRecord
    <3> QED BY <1>0, <3>2 DEF GoodWorker, WorkerRecord
  <2>10. WorkerOK'
    <3>1. worker' = [worker EXCEPT ![w] = r]
      BY <2>1
    <3> HIDE DEF r
    <3> QED BY <2>9, <3>1, WorkerSet
  <2> QED
    BY <1>2, <2>7, <2>10
    DEF ReduceSubtask, UsersOK, ProblemOK, SubmissionsOK, TestResultsOK,
        ScoresOK, TaskOK, PoolOK, FilesOK, RestartsOK
<1>3. CASE WriteVerdict(w)
  <2>1. worker[w].result \in TestingResult /\ worker[w].points \in Nat
    BY <1>0 DEF GoodWorker, WorkerRecord
  <2>2. GoodWorker([worker[w] EXCEPT !.pc = "select_submissions",
                        !.result = "Accepted", !.points = 0])
    BY <1>0, <1>3 DEF WriteVerdict, GoodWorker, WorkerRecord, TestingResult
  <2>3. WorkerOK'
    BY <1>3, <2>2, WorkerSet DEF WriteVerdict
  <2>4. /\ DOMAIN submissions' = DOMAIN submissions
        /\ submissions' = [k \in DOMAIN submissions |-> submissions'[k]]
        /\ \A k \in DOMAIN submissions : submissions'[k] \in SubmissionRow
    BY <1>3, <2>1 DEF WriteVerdict, Published, SubmissionsOK, IsTable, SubmissionRow
  <2>5. SubmissionsOK'
    BY <2>4, MapIsTable DEF SubmissionsOK
  <2> QED
    BY <1>3, <2>3, <2>5
    DEF WriteVerdict, UsersOK, ProblemOK, TestResultsOK, SubtaskResultsOK,
        ScoresOK, TaskOK, PoolOK, FilesOK, RestartsOK
<1> QED BY <1>1, <1>2, <1>3

LEMMA ScoreType ==
    ASSUME TInv, NEW w \in Workers,
           SelectSubmissions(w) \/ SelectProblemSubtasks(w) \/ ScoreSubtask(w)
             \/ UpsertScore(w) \/ RemoveExecutable(w)
    PROVE  TInv'
<1> USE DEF TInv, DatabaseOK
<1>0. GoodWorker(worker[w])
  BY WorkerRecordFacts
<1>1. CASE SelectSubmissions(w)
  <2> DEFINE s == SubmissionOf(w)
             u == submissions[s].user_id
             mine == get_submissions_by_user_for_problem(u)
  <2>1. CASE s \in DOMAIN submissions
    <3>1. u \in Users /\ mine \subseteq Submissions
      BY <2>1
      DEF SubmissionsOK, IsTable, SubmissionRow, get_submissions_by_user_for_problem
    <3> HIDE DEF u, mine
    <3>2. GoodWorker([worker[w] EXCEPT !.pc = "select_problem_subtasks",
                                       !.user = u, !.mine = mine])
      BY <1>0, <1>1, <3>1 DEF SelectSubmissions, GoodWorker, WorkerRecord
    <3>3. worker' = [worker EXCEPT ![w] =
                        [worker[w] EXCEPT !.pc = "select_problem_subtasks",
                                          !.user = u, !.mine = mine]]
      BY <1>1, <2>1 DEF SelectSubmissions, u, mine
    <3> QED BY <1>1, <3>2, <3>3, OnlyTheWorker DEF SelectSubmissions
  <2>2. CASE s \notin DOMAIN submissions
    BY <1>1, <2>2, IdleIsGood, OnlyTheWorker DEF SelectSubmissions, Return
  <2> QED BY <2>1, <2>2
<1>2. CASE SelectProblemSubtasks(w)
  <2>1. GoodWorker([worker[w] EXCEPT !.pc = "score", !.todo = problem.subtasks])
    BY <1>0, <1>2 DEF SelectProblemSubtasks, GoodWorker, WorkerRecord, ProblemOK
  <2> QED BY <1>2, <2>1, OnlyTheWorker DEF SelectProblemSubtasks
<1>3. CASE ScoreSubtask(w)
  <2>1. PICK g \in worker[w].todo :
           worker' = [worker EXCEPT ![w] =
               [worker[w] EXCEPT
                   !.todo = worker[w].todo \ {g},
                   !.score = worker[w].score + BestPoints(worker[w].mine, g)]]
    BY <1>3 DEF ScoreSubtask
  <2>2. g \in Subtasks
    BY <1>0 DEF GoodWorker, WorkerRecord
  <2>3. BestPoints(worker[w].mine, g) \in Nat
    BY <2>2, BestPointsAllOrNothing, ScoreAssumption
  <2> DEFINE r == [worker[w] EXCEPT
                      !.todo = worker[w].todo \ {g},
                      !.score = worker[w].score + BestPoints(worker[w].mine, g)]
  <2>4. GoodWorker(r)
    <3>1. /\ worker[w].todo \ {g} \in SUBSET Subtasks
          /\ worker[w].score + BestPoints(worker[w].mine, g) \in Nat
      BY <1>0, <2>3 DEF GoodWorker, WorkerRecord
    <3>2. r \in WorkerRecord
      BY <1>0, <3>1 DEF GoodWorker, WorkerRecord
    <3> QED BY <1>0, <3>2 DEF GoodWorker, WorkerRecord
  <2>5. worker' = [worker EXCEPT ![w] = r]
    BY <2>1
  <2> HIDE DEF r
  <2> QED BY <1>3, <2>4, <2>5, OnlyTheWorker DEF ScoreSubtask
<1>4. CASE UpsertScore(w)
  <2>1. worker[w].user \in Users /\ worker[w].score \in Nat
    BY <1>0, <1>4 DEF UpsertScore, GoodWorker, WorkerRecord
  <2>2. ScoresOK'
    BY <1>4, <2>1, InsertIsTable DEF UpsertScore, ScoresOK
  <2>3. GoodWorker([worker[w] EXCEPT !.pc = "remove", !.user = None,
                                     !.mine = {}, !.score = 0])
    BY <1>0, <1>4 DEF UpsertScore, GoodWorker, WorkerRecord
  <2>4. WorkerOK'
    BY <1>4, <2>3, WorkerSet DEF UpsertScore
  <2> QED
    BY <1>4, <2>2, <2>4
    DEF UpsertScore, UsersOK, ProblemOK, SubmissionsOK, TestResultsOK,
        SubtaskResultsOK, TaskOK, PoolOK, FilesOK, RestartsOK
<1>5. CASE RemoveExecutable(w)
  <2>1. WorkerOK' /\ DatabaseOK'
    BY <1>5, IdleIsGood, WorkerSet, DatabaseUnchanged DEF RemoveExecutable, Return
  <2>2. FilesOK'
    BY <1>5 DEF RemoveExecutable, FilesOK
  <2> QED BY <1>5, <2>1, <2>2 DEF RemoveExecutable, TaskOK, PoolOK, RestartsOK
<1> QED BY <1>1, <1>2, <1>3, <1>4, <1>5

LEMMA RestartType ==
    ASSUME TInv, Restart PROVE TInv'
<1> USE DEF TInv, DatabaseOK
<1>1. TaskOK'
  BY DEF Restart, TaskOK, GoodTask, TaskRecord, NoTask
<1>2. WorkerOK'
  <2>1. PICK W \in SUBSET Workers : worker' = Spawned(W)
    BY DEF Restart
  <2> QED BY <2>1, SpawnedAreGood DEF WorkerOK, GoodWorker, Spawned
<1>3. DatabaseOK'
  BY DatabaseUnchanged DEF Restart
<1>4. RestartsOK'
  BY RestartsAssumption DEF Restart, RestartsOK
<1> QED BY <1>1, <1>2, <1>3, <1>4 DEF Restart, PoolOK, FilesOK

LEMMA TInvStep == TInv /\ [Next]_vars => TInv'
<1> SUFFICES ASSUME TInv, [Next]_vars PROVE TInv'
  OBVIOUS
<1>1. CASE Restart
  BY <1>1, RestartType
<1>2. CASE UNCHANGED vars
  <2>1. DatabaseOK'
    BY <1>2, DatabaseUnchanged DEF vars, TInv
  <2> QED BY <1>2, <2>1 DEF vars, TInv, TaskOK, PoolOK, WorkerOK, FilesOK, RestartsOK
<1>3. ASSUME NEW s \in Submissions,
             AddSubmission(s) \/ HandlerStep(s) \/ HandlerDropped(s)
      PROVE  TInv'
  BY <1>3, HandlerType
<1>4. ASSUME NEW s \in Submissions, TaskStep(s) PROVE TInv'
  BY <1>4, TaskType
<1>5. ASSUME NEW w \in Workers, WorkerStep(w) PROVE TInv'
  BY <1>5, JobType, FinaliseType, ScoreType DEF WorkerStep
<1> QED BY <1>1, <1>2, <1>3, <1>4, <1>5 DEF Next, JudgeNext

\* Every table, task and worker of the judge keeps its type, for any number
\* of users, submissions, tests, subtasks, workers and restarts.
THEOREM TypeCorrect == Safe => []TypeOK
<1> QED BY TInvInit, TInvStep, TInvImpliesTypeOK, PTL DEF Safe

-----------------------------------------------------------------------------
(***************************************************************************)
(* Why a verdict of the judge can be trusted: the invariant behind the     *)
(* safety properties of Judge, its proof, and the properties.              *)
(*                                                                         *)
(* All but the scores is said about one submission at a time (LocalInv),   *)
(* so that a step made for one submission leaves the others alone.         *)
(***************************************************************************)
TestsOf(s) == get_tests_for_submission(s)

SubtasksOf(s) == get_subtasks_for_submission(s)

\* Worker w has a job of submission s.
On(w, s) == Busy(w) /\ SubmissionOf(w) = s

(***************************************************************************)
(* Where the tests of s are while it is judged.                            *)
(***************************************************************************)
Handing(s) == IF task[s].pc = "dispatch" THEN task[s].todo ELSE {}

Pooled(s) == {t \in Tests : <<s, t>> \in pool}

With(s, P) ==
    {t \in Tests : \E w \in Workers : worker[w].pc \in P /\ worker[w].job = <<s, t>>}

\* Tests with no result yet, and tests not yet counted in tests_done.
Unstored(s) == Handing(s) \cup Pooled(s) \cup With(s, {"execute", "store"})

Uncounted(s) == Handing(s) \cup Pooled(s) \cup With(s, {"execute", "store", "count"})

Finalising ==
    {"select_subtasks", "reduce", "select_submissions",
     "select_problem_subtasks", "score", "remove"}

AfterVerdict == {"select_submissions", "select_problem_subtasks", "score", "remove"}

-----------------------------------------------------------------------------
(***************************************************************************)
(* The invariant, for a submission s.                                      *)
(***************************************************************************)
\* The handler inserts a row per subtask and per test of the problem.
RowsInv(s) ==
    /\ task[s].pc = "none" => task[s].todo = {} /\ s \notin DOMAIN submissions
    /\ task[s].pc # "none" => s \in DOMAIN submissions
    /\ TestsOf(s) \subseteq problem.tests
    /\ SubtasksOf(s) \subseteq problem.subtasks
    /\ task[s].pc \in {"none", "select_subtasks"} =>
          TestsOf(s) = {} /\ SubtasksOf(s) = {}
    /\ task[s].pc = "insert_subtasks" =>
          /\ TestsOf(s) = {}
          /\ task[s].todo \subseteq problem.subtasks
          /\ SubtasksOf(s) = problem.subtasks \ task[s].todo
    /\ task[s].pc = "insert_tests" =>
          /\ SubtasksOf(s) = problem.subtasks
          /\ task[s].todo \subseteq problem.tests
          /\ TestsOf(s) = problem.tests \ task[s].todo
    /\ task[s].pc \in {"queued", "compile", "select_jobs", "dispatch"} =>
          SubtasksOf(s) = problem.subtasks /\ TestsOf(s) = problem.tests

\* Until its tests are handed over nothing of s is tested or counted.
StageInv(s) ==
    /\ task[s].pc \in {"select_subtasks", "insert_subtasks", "insert_tests", "queued"} =>
          submissions[s].result = "InQueue"
    /\ task[s].pc = "compile" => submissions[s].result = "Compiling"
    /\ task[s].pc = "select_jobs" => submissions[s].result = "Testing"
    /\ task[s].pc = "dispatch" => submissions[s].result = "Testing" \/ Judged(s)
    /\ task[s].pc \in {"select_subtasks", "insert_subtasks", "insert_tests",
                       "queued", "compile", "select_jobs"} =>
          /\ submissions[s].tests_done = 0
          /\ \A t \in TestsOf(s) : test_results[<<s, t>>] \in Unfinished

\* A test is handed over, in the pool or with one worker, never in two of these.
JobsInv(s) ==
    /\ Handing(s) \subseteq TestsOf(s) /\ Pooled(s) \subseteq TestsOf(s)
    /\ Handing(s) \cap Pooled(s) = {}
    /\ task[s].pc # "dispatch" => Pooled(s) = {}
    /\ \A w \in Workers : On(w, s) =>
          /\ task[s].pc = "dispatch"
          /\ TestOf(w) \in TestsOf(s)
          /\ TestOf(w) \notin Handing(s) \cup Pooled(s)
    /\ \A v, w \in Workers :
          On(v, s) /\ On(w, s) /\ TestOf(v) = TestOf(w) => v = w

\* A test has a result once a worker has stored it.
ResultsInv(s) ==
    /\ task[s].pc = "dispatch" =>
          \A t \in TestsOf(s) :
              (test_results[<<s, t>>] \in Unfinished) <=> (t \in Unstored(s))
    /\ \A w \in Workers : On(w, s) /\ worker[w].pc = "store" =>
          worker[w].verdict \notin Unfinished \cup {"CompilationError"}
    /\ \A t \in TestsOf(s) : test_results[<<s, t>>] # "CompilationError"

\* tests_done is the number of tests that are counted, and a worker goes on to
\* the verdict only when all are.
CountInv(s) ==
    /\ task[s].pc = "dispatch" =>
          submissions[s].tests_done + Cardinality(Uncounted(s))
              = Cardinality(TestsOf(s))
    /\ \A w \in Workers : On(w, s) /\ worker[w].pc = "compare" =>
          worker[w].tests_done <= submissions[s].tests_done
    /\ \A w \in Workers : On(w, s) /\ worker[w].pc \in Finalising =>
          Uncounted(s) = {}

FilesInv(s) ==
    task[s].pc = "select_jobs" \/ Uncounted(s) # {} => s \in executables

\* All results of s are there to stay.
Settled(s) ==
    /\ task[s].pc \in {"dispatch", "stopped"}
    /\ TestsOf(s) = problem.tests
    /\ SubtasksOf(s) = problem.subtasks
    /\ Uncounted(s) = {}
    /\ \A t \in TestsOf(s) : test_results[<<s, t>>] \notin Unfinished

SubtaskPoints(s, g) ==
    IF SubtaskVerdict(s, g) = "Accepted" THEN SubtaskScore[g] ELSE 0

Passed(s, S) == {g \in S : SubtaskVerdict(s, g) = "Accepted"}

\* What the reductions of the subtasks in S have written.
Reduced(s, S) ==
    \A g \in S : subtask_results[<<s, g>>].points = SubtaskPoints(s, g)

\* The accumulators of a worker that has reduced the subtasks in S.
Accumulated(s, S, result, points) ==
    /\ result = Worst({SubtaskVerdict(s, g) : g \in S})
    /\ points = SumOf(SubtaskScore, Passed(s, S))

PublishedInv(s) ==
    Judged(s) =>
       /\ Settled(s)
       /\ Accumulated(s, SubtasksOf(s), submissions[s].result, submissions[s].points)
       /\ Reduced(s, SubtasksOf(s))

PointsInv(s) ==
    \A g \in SubtasksOf(s) : subtask_results[<<s, g>>].points # 0 =>
       Settled(s) /\ SubtaskVerdict(s, g) = "Accepted"

WorkingInv(w, s) ==
    /\ worker[w].pc \in {"execute", "store", "count", "read_tests_done",
                         "compare", "select_subtasks"} =>
          worker[w].result = "Accepted" /\ worker[w].points = 0
    /\ worker[w].pc = "reduce" =>
          /\ worker[w].todo \subseteq SubtasksOf(s)
          /\ Accumulated(s, SubtasksOf(s) \ worker[w].todo,
                         worker[w].result, worker[w].points)
          /\ Reduced(s, SubtasksOf(s) \ worker[w].todo)
    /\ worker[w].pc \in AfterVerdict => Judged(s)

VerdictInv(s) ==
    /\ PublishedInv(s)
    /\ PointsInv(s)
    /\ \A w \in Workers : On(w, s) => WorkingInv(w, s)

LocalInv(s) ==
    /\ RowsInv(s)
    /\ StageInv(s)
    /\ JobsInv(s)
    /\ ResultsInv(s)
    /\ CountInv(s)
    /\ FilesInv(s)
    /\ VerdictInv(s)

\* Only a server with workers has jobs in its pool.
PoolInv == pool # {} => RunningWorkers # {}

ProblemInv ==
    /\ IsFiniteSet(problem.tests) /\ IsFiniteSet(problem.subtasks)
    /\ problem.subtask_tests \subseteq problem.subtasks \X problem.tests

\* What the steps made for s need to keep LocalInv(s): nothing about the other
\* submissions.
SubmissionInv(s) == TInv /\ ProblemInv /\ PoolInv /\ LocalInv(s)

JInv ==
    /\ TInv
    /\ problem \in Problems
    /\ PoolInv
    /\ \A s \in Submissions : LocalInv(s)

-----------------------------------------------------------------------------
(***************************************************************************)
(* Steps that leave s alone.                                               *)
(***************************************************************************)
KeptRows(s) ==
    /\ task'[s] = task[s]
    /\ problem' = problem
    /\ s \in DOMAIN submissions' <=> s \in DOMAIN submissions
    /\ s \in DOMAIN submissions => submissions'[s] = submissions[s]
    /\ \A t \in Tests : <<s, t>> \in DOMAIN test_results' <=> <<s, t>> \in DOMAIN test_results
    /\ \A t \in Tests : <<s, t>> \in DOMAIN test_results =>
          test_results'[<<s, t>>] = test_results[<<s, t>>]
    /\ \A g \in Subtasks :
          <<s, g>> \in DOMAIN subtask_results' <=> <<s, g>> \in DOMAIN subtask_results
    /\ \A g \in Subtasks : <<s, g>> \in DOMAIN subtask_results =>
          subtask_results'[<<s, g>>].points = subtask_results[<<s, g>>].points
    /\ \A t \in Tests : <<s, t>> \in pool' <=> <<s, t>> \in pool
    /\ s \in executables => s \in executables'

KeptWorkers(s) ==
    \A w \in Workers : (~On(w, s) /\ ~On(w, s)') \/ worker'[w] = worker[w]

Kept(s) == KeptRows(s) /\ KeptWorkers(s)

LEMMA KeptViews ==
    ASSUME TInv, TInv', NEW s \in Submissions, Kept(s)
    PROVE  /\ TestsOf(s)' = TestsOf(s)
           /\ SubtasksOf(s)' = SubtasksOf(s)
           /\ Handing(s)' = Handing(s)
           /\ Pooled(s)' = Pooled(s)
           /\ Unstored(s)' = Unstored(s)
           /\ Uncounted(s)' = Uncounted(s)
           /\ \A w \in Workers : On(w, s)' <=> On(w, s)
           /\ \A w \in Workers : On(w, s) => worker'[w] = worker[w]
<1> USE DEF Kept, KeptRows, KeptWorkers
<1>1. TestsOf(s)' = TestsOf(s) /\ SubtasksOf(s)' = SubtasksOf(s)
  BY DEF TestsOf, SubtasksOf, get_tests_for_submission, get_subtasks_for_submission
<1>2. Handing(s)' = Handing(s) /\ Pooled(s)' = Pooled(s)
  BY DEF Handing, Pooled
<1>3. \A w \in Workers : (On(w, s)' <=> On(w, s)) /\ (On(w, s) => worker'[w] = worker[w])
  BY DEF On, Busy, SubmissionOf
<1>4. ASSUME NEW P, "idle" \notin P, "off" \notin P
      PROVE  With(s, P)' = With(s, P)
  <2>1. \A w \in Workers, t \in Tests :
           worker'[w].pc \in P /\ worker'[w].job = <<s, t>> <=>
           worker[w].pc \in P /\ worker[w].job = <<s, t>>
    BY <1>4 DEF On, Busy, SubmissionOf
  <2> QED BY <2>1 DEF With
<1>5. Unstored(s)' = Unstored(s) /\ Uncounted(s)' = Uncounted(s)
  BY <1>2, <1>4 DEF Unstored, Uncounted
<1> QED BY <1>1, <1>2, <1>3, <1>5

\* The verdict on a subtask is a matter of the results of s.
LEMMA SameVerdicts ==
    ASSUME ProblemInv, problem' = problem,
           NEW s \in Submissions, TestsOf(s) = problem.tests,
           \A t \in TestsOf(s) : test_results'[<<s, t>>] = test_results[<<s, t>>]
    PROVE  /\ \A g : SubtaskVerdict(s, g)' = SubtaskVerdict(s, g)
           /\ \A g : SubtaskPoints(s, g)' = SubtaskPoints(s, g)
           /\ \A S : Passed(s, S)' = Passed(s, S)
<1>1. ASSUME NEW g PROVE SubtaskVerdict(s, g)' = SubtaskVerdict(s, g)
  <2>1. get_tests_for_subtask(g)' = get_tests_for_subtask(g)
    BY DEF get_tests_for_subtask
  <2>2. get_tests_for_subtask(g) \subseteq TestsOf(s)
    BY DEF ProblemInv, get_tests_for_subtask
  <2>3. {test_results'[<<s, t>>] : t \in get_tests_for_subtask(g)}
            = {test_results[<<s, t>>] : t \in get_tests_for_subtask(g)}
    BY <2>2
  <2> QED BY <2>1, <2>3 DEF SubtaskVerdict
<1> QED BY <1>1 DEF SubtaskPoints, Passed

LEMMA KeptLocal ==
    ASSUME TInv', NEW s \in Submissions, SubmissionInv(s), Kept(s)
    PROVE  LocalInv(s)'
<1> USE DEF Kept
<1>0. LocalInv(s) /\ TInv /\ ProblemInv
  BY DEF SubmissionInv
<1>1. /\ TestsOf(s)' = TestsOf(s)
      /\ SubtasksOf(s)' = SubtasksOf(s)
      /\ Handing(s)' = Handing(s)
      /\ Pooled(s)' = Pooled(s)
      /\ Unstored(s)' = Unstored(s)
      /\ Uncounted(s)' = Uncounted(s)
      /\ \A w \in Workers : On(w, s)' <=> On(w, s)
      /\ \A w \in Workers : On(w, s) => worker'[w] = worker[w]
  BY <1>0, KeptViews
<1>2. \A t \in TestsOf(s) : test_results'[<<s, t>>] = test_results[<<s, t>>]
  BY DEF KeptRows, TestsOf, get_tests_for_submission
<1>3. \A g \in SubtasksOf(s) :
         subtask_results'[<<s, g>>].points = subtask_results[<<s, g>>].points
  BY DEF KeptRows, SubtasksOf, get_subtasks_for_submission
<1>4. Judged(s)' <=> Judged(s)
  BY DEF KeptRows, Judged
<1>5. RowsInv(s)'
  BY <1>0, <1>1 DEF LocalInv, RowsInv, KeptRows
<1>6. StageInv(s)'
  BY <1>0, <1>1, <1>2, <1>4 DEF LocalInv, StageInv, KeptRows, RowsInv
<1>7. JobsInv(s)'
  BY <1>0, <1>1 DEF LocalInv, JobsInv, KeptRows, TestOf
<1>8. ResultsInv(s)'
  BY <1>0, <1>1, <1>2 DEF LocalInv, ResultsInv, KeptRows
<1>9. CountInv(s)'
  BY <1>0, <1>1 DEF LocalInv, CountInv, KeptRows, RowsInv, JobsInv
<1>10. FilesInv(s)'
  BY <1>0, <1>1 DEF LocalInv, FilesInv, KeptRows
<1>11. Settled(s)' <=> Settled(s)
  BY <1>1, <1>2 DEF Settled, KeptRows
<1>12. VerdictInv(s)'
  <2>1. TestsOf(s) = problem.tests =>
           /\ \A g : SubtaskVerdict(s, g)' = SubtaskVerdict(s, g)
           /\ \A g : SubtaskPoints(s, g)' = SubtaskPoints(s, g)
           /\ \A S : Passed(s, S)' = Passed(s, S)
    BY <1>0, <1>2, SameVerdicts DEF KeptRows
  <2>2. ASSUME Judged(s)
        PROVE  /\ Accumulated(s, SubtasksOf(s), submissions[s].result, submissions[s].points)'
               /\ Reduced(s, SubtasksOf(s))'
    <3>1. TestsOf(s) = problem.tests
      BY <1>0, <2>2 DEF LocalInv, VerdictInv, PublishedInv, Settled
    <3>2. submissions'[s] = submissions[s]
      BY <2>2 DEF KeptRows, Judged
    <3> QED BY <1>0, <1>1, <1>3, <2>1, <2>2, <3>1, <3>2
            DEF LocalInv, VerdictInv, PublishedInv, Accumulated, Reduced
  <2>3. ASSUME NEW w \in Workers, On(w, s), worker[w].pc = "reduce"
        PROVE  /\ Accumulated(s, SubtasksOf(s) \ worker[w].todo,
                              worker[w].result, worker[w].points)'
               /\ Reduced(s, SubtasksOf(s) \ worker[w].todo)'
    <3>1. TestsOf(s) = problem.tests
      BY <1>0, <2>3 DEF LocalInv, JobsInv, RowsInv
    <3>2. worker'[w] = worker[w]
      BY <1>1, <2>3
    <3>3. WorkingInv(w, s)
      BY <1>0, <2>3 DEF LocalInv, VerdictInv
    <3>4. Accumulated(s, SubtasksOf(s) \ worker[w].todo,
                      worker[w].result, worker[w].points)'
      BY <1>1, <2>1, <2>3, <3>1, <3>2, <3>3 DEF WorkingInv, Accumulated
    <3>5. Reduced(s, SubtasksOf(s) \ worker[w].todo)'
      BY <1>1, <1>3, <2>1, <2>3, <3>1, <3>2, <3>3 DEF WorkingInv, Reduced
    <3> QED BY <3>4, <3>5
  <2>4. ASSUME NEW g \in SubtasksOf(s), subtask_results'[<<s, g>>].points # 0
        PROVE  Settled(s)' /\ SubtaskVerdict(s, g)' = "Accepted"
    BY <1>0, <1>3, <1>11, <2>1, <2>4 DEF LocalInv, VerdictInv, PointsInv, Settled
  <2>5. PublishedInv(s)'
    BY <1>0, <1>4, <1>11, <2>2 DEF LocalInv, VerdictInv, PublishedInv
  <2>6. PointsInv(s)'
    BY <1>1, <2>4 DEF PointsInv
  <2>7. ASSUME NEW w \in Workers, On(w, s) PROVE WorkingInv(w, s)'
    BY <1>0, <1>1, <1>4, <2>3, <2>7 DEF LocalInv, VerdictInv, WorkingInv
  <2> QED BY <1>1, <2>5, <2>6, <2>7 DEF VerdictInv
<1> QED BY <1>5, <1>6, <1>7, <1>8, <1>9, <1>10, <1>12 DEF LocalInv

-----------------------------------------------------------------------------
(***************************************************************************)
(* A step of a task leaves the other submissions alone.                    *)
(***************************************************************************)
SubmissionStep(s) ==
    AddSubmission(s) \/ HandlerStep(s) \/ HandlerDropped(s) \/ TaskStep(s)

LEMMA GotoKeeps ==
    ASSUME TaskOK, NEW s \in Submissions, NEW pc, NEW todo, Goto(s, pc, todo)
    PROVE  /\ task'[s] = [pc |-> pc, todo |-> todo]
           /\ \A r \in Submissions : r # s => task'[r] = task[r]
BY DEF Goto, TaskOK

LEMMA ResultKeeps ==
    ASSUME NEW s, NEW r, set_submission_result(s, r)
    PROVE  /\ DOMAIN submissions' = DOMAIN submissions
           /\ s \in DOMAIN submissions =>
                 submissions'[s] = [submissions[s] EXCEPT !.result = r]
           /\ \A q \in DOMAIN submissions : q # s => submissions'[q] = submissions[q]
BY DEF set_submission_result

LEMMA UpdateKeeps ==
    ASSUME NEW f, NEW k, NEW row
    PROVE  /\ DOMAIN Update(f, k, row) = DOMAIN f
           /\ k \in DOMAIN f => Update(f, k, row)[k] = row
           /\ \A j \in DOMAIN f : j # k => Update(f, k, row)[j] = f[j]
BY DEF Update

LEMMA TaskKeepsOthers ==
    ASSUME TInv, NEW s \in Submissions, SubmissionStep(s),
           NEW r \in Submissions, r # s
    PROVE  Kept(r)
<1>0. TaskOK
  BY DEF TInv
<1>a. PICK pc, todo : Goto(s, pc, todo)
  BY DEF SubmissionStep, HandlerStep, TaskStep, AddSubmission, SelectSubtasks,
         InsertSubtaskResult, SelectTests, InsertTestResult, Spawn, HandlerDropped,
         StartCompiling, CompileFails, CompileSucceeds, SelectJobs, HandOver,
         DispatchFails
<1>b. task'[r] = task[r]
  BY <1>0, <1>a, GotoKeeps
<1>c. KeptWorkers(r)
  <2>1. worker' = worker
    BY DEF SubmissionStep, HandlerStep, TaskStep, AddSubmission, SelectSubtasks,
         InsertSubtaskResult, SelectTests, InsertTestResult, Spawn, HandlerDropped,
         StartCompiling, CompileFails, CompileSucceeds, SelectJobs, HandOver,
         DispatchFails
  <2> QED BY <2>1 DEF KeptWorkers
<1> USE <1>b, <1>c DEF Kept, KeptRows, database
<1>1. CASE AddSubmission(s)
  <2>1. PICK row : submissions' = Insert(submissions, s, row)
    BY <1>1 DEF AddSubmission
  <2>2. /\ r \in DOMAIN submissions' <=> r \in DOMAIN submissions
        /\ r \in DOMAIN submissions => submissions'[r] = submissions[r]
    BY <2>1 DEF Insert
  <2> QED BY <1>1, <2>2 DEF AddSubmission
<1>2. CASE SelectSubtasks(s)
  BY <1>2 DEF SelectSubtasks
<1>3. CASE InsertSubtaskResult(s)
  <2>1. PICK g, row : subtask_results' = Insert(subtask_results, <<s, g>>, row)
    BY <1>3 DEF InsertSubtaskResult
  <2>2. \A h : /\ <<r, h>> \in DOMAIN subtask_results' <=> <<r, h>> \in DOMAIN subtask_results
               /\ <<r, h>> \in DOMAIN subtask_results =>
                     subtask_results'[<<r, h>>] = subtask_results[<<r, h>>]
    BY <2>1 DEF Insert
  <2> QED BY <1>3, <2>2 DEF InsertSubtaskResult
<1>4. CASE SelectTests(s)
  BY <1>4 DEF SelectTests
<1>5. CASE InsertTestResult(s)
  <2>1. PICK t, row : test_results' = Insert(test_results, <<s, t>>, row)
    BY <1>5 DEF InsertTestResult
  <2>2. \A h : /\ <<r, h>> \in DOMAIN test_results' <=> <<r, h>> \in DOMAIN test_results
               /\ <<r, h>> \in DOMAIN test_results =>
                     test_results'[<<r, h>>] = test_results[<<r, h>>]
    BY <2>1 DEF Insert
  <2> QED BY <1>5, <2>2 DEF InsertTestResult
<1>6. CASE Spawn(s)
  BY <1>6 DEF Spawn
<1>7. CASE HandlerDropped(s)
  BY <1>7 DEF HandlerDropped
<1>8. CASE StartCompiling(s)
  <2>1. PICK q : set_submission_result(s, q)
    BY <1>8 DEF StartCompiling
  <2>2. /\ r \in DOMAIN submissions' <=> r \in DOMAIN submissions
        /\ r \in DOMAIN submissions => submissions'[r] = submissions[r]
    BY <2>1 DEF set_submission_result
  <2> QED BY <1>8, <2>2 DEF StartCompiling
<1>9. CASE CompileFails(s)
  <2>1. PICK q : set_submission_result(s, q)
    BY <1>9 DEF CompileFails
  <2>2. /\ r \in DOMAIN submissions' <=> r \in DOMAIN submissions
        /\ r \in DOMAIN submissions => submissions'[r] = submissions[r]
    BY <2>1 DEF set_submission_result
  <2> QED BY <1>9, <2>2 DEF CompileFails
<1>10. CASE CompileSucceeds(s)
  <2>1. PICK q : set_submission_result(s, q)
    BY <1>10 DEF CompileSucceeds
  <2>2. /\ r \in DOMAIN submissions' <=> r \in DOMAIN submissions
        /\ r \in DOMAIN submissions => submissions'[r] = submissions[r]
    BY <2>1 DEF set_submission_result
  <2> QED BY <1>10, <2>2 DEF CompileSucceeds
<1>11. CASE SelectJobs(s)
  BY <1>11 DEF SelectJobs
<1>12. CASE HandOver(s)
  BY <1>12 DEF HandOver
<1>13. CASE DispatchFails(s)
  BY <1>13 DEF DispatchFails
<1> QED
  BY <1>1, <1>2, <1>3, <1>4, <1>5, <1>6, <1>7, <1>8, <1>9, <1>10, <1>11,
     <1>12, <1>13
  DEF SubmissionStep, HandlerStep, TaskStep

-----------------------------------------------------------------------------
(***************************************************************************)
(* A step of a worker leaves the submissions alone that its job is not of. *)
(***************************************************************************)
LEMMA WorkerMoves ==
    ASSUME WorkerOK, NEW w \in Workers, NEW r,
           worker' = [worker EXCEPT ![w] = r]
    PROVE  /\ worker'[w] = r
           /\ \A v \in Workers : v # w => worker'[v] = worker[v]
BY DEF WorkerOK

\* A step of a worker changes no other worker's record.
LEMMA OthersStay ==
    ASSUME WorkerOK, NEW w \in Workers, WorkerStep(w)
    PROVE  \A v \in Workers : v # w => worker'[v] = worker[v]
<1>r. CASE Return(w)
  BY <1>r, WorkerMoves DEF Return
<1>0. CASE TakeJob(w)
  <2>1. PICK j \in pool :
           worker' = [worker EXCEPT ![w] =
                         [IdleWorker EXCEPT !.pc = "execute", !.job = j]]
    BY <1>0 DEF TakeJob
  <2> QED BY <2>1, WorkerMoves
<1>1. CASE ExecuteTest(w)
  <2>1. PICK v : worker' = [worker EXCEPT ![w] = [worker[w] EXCEPT !.pc = "store", !.verdict = v]]
    BY <1>1 DEF ExecuteTest
  <2> QED BY <2>1, WorkerMoves
<1>2. CASE StoreResult(w)
  BY <1>2, WorkerMoves DEF StoreResult
<1>3. CASE CountTest(w)
  BY <1>3, WorkerMoves DEF CountTest, At
<1>4. CASE ReadTestsDone(w)
  BY <1>r, <1>4, WorkerMoves DEF ReadTestsDone
<1>5. CASE CompareTotal(w)
  BY <1>r, <1>5, WorkerMoves DEF CompareTotal
<1>6. CASE SelectSubtaskResults(w)
  BY <1>6, WorkerMoves DEF SelectSubtaskResults
<1>7. CASE ReduceSubtask(w)
  BY <1>7, WorkerMoves DEF ReduceSubtask
<1>8. CASE WriteVerdict(w)
  BY <1>8, WorkerMoves DEF WriteVerdict
<1>9. CASE SelectSubmissions(w)
  BY <1>r, <1>9, WorkerMoves DEF SelectSubmissions
<1>10. CASE SelectProblemSubtasks(w)
  BY <1>10, WorkerMoves DEF SelectProblemSubtasks
<1>11. CASE ScoreSubtask(w)
  BY <1>11, WorkerMoves DEF ScoreSubtask
<1>12. CASE UpsertScore(w)
  BY <1>12, WorkerMoves DEF UpsertScore
<1>13. CASE RemoveExecutable(w)
  BY <1>r, <1>13, WorkerMoves DEF RemoveExecutable
<1> QED
  BY <1>0, <1>1, <1>2, <1>3, <1>4, <1>5, <1>6, <1>7, <1>8, <1>9, <1>10, <1>11,
     <1>12, <1>13
  DEF WorkerStep

LEMMA WorkerKeepsOthers ==
    ASSUME TInv, TInv', NEW w \in Workers, WorkerStep(w), NEW s \in Submissions,
           ~On(w, s), ~On(w, s)'
    PROVE  Kept(s)
<1>0. WorkerOK /\ WorkerOK'
  BY DEF TInv
<1>a. \A v \in Workers : v # w => worker'[v] = worker[v]
  BY <1>0, OthersStay
<1>b. KeptWorkers(s)
  BY <1>a DEF KeptWorkers
<1>c. /\ worker[w].pc \notin {"idle", "off"} =>
            SubmissionOf(w) # s /\ worker[w].job \in Submissions \X Tests
      /\ worker'[w].pc \notin {"idle", "off"} => worker'[w].job[1] # s
  BY <1>0 DEF On, Busy, SubmissionOf, WorkerOK, GoodWorker
<1> USE DEF Kept, KeptRows, database
<1>1. CASE TakeJob(w)
  <2>1. PICK j \in pool :
           /\ pool' = pool \ {j}
           /\ test_results' = Update(test_results, j, "Testing")
           /\ worker' = [worker EXCEPT ![w] =
                            [IdleWorker EXCEPT !.pc = "execute", !.job = j]]
    BY <1>1 DEF TakeJob
  <2>2. worker'[w].pc = "execute" /\ worker'[w].job = j
    BY <1>0, <2>1 DEF IdleWorker, WorkerOK
  <2>3. j[1] # s
    BY <1>c, <2>2
  <2>4. \A t \in Tests : <<s, t>> # j
    BY <2>3
  <2> QED BY <1>1, <1>b, <2>1, <2>4, UpdateKeeps DEF TakeJob
<1>2. CASE ExecuteTest(w)
  BY <1>2, <1>b DEF ExecuteTest
<1>3. CASE StoreResult(w)
  <2>1. \A t \in Tests : <<s, t>> # worker[w].job
    BY <1>3, <1>c DEF StoreResult, SubmissionOf
  <2> QED BY <1>3, <1>b, <2>1, UpdateKeeps DEF StoreResult
<1>4. CASE CountTest(w)
  BY <1>4, <1>b, <1>c DEF CountTest
<1>5. CASE ReadTestsDone(w)
  BY <1>5, <1>b DEF ReadTestsDone
<1>6. CASE CompareTotal(w)
  BY <1>6, <1>b DEF CompareTotal
<1>7. CASE SelectSubtaskResults(w)
  BY <1>7, <1>b DEF SelectSubtaskResults
<1>8. CASE ReduceSubtask(w)
  <2>1. PICK g, row :
           /\ g \in worker[w].todo
           /\ subtask_results' = Update(subtask_results, <<SubmissionOf(w), g>>, row)
    BY <1>8 DEF ReduceSubtask
  <2>2. \A h \in Subtasks : <<s, h>> # <<SubmissionOf(w), g>>
    BY <1>8, <1>c DEF ReduceSubtask
  <2>3. \A h \in Subtasks :
           /\ <<s, h>> \in DOMAIN subtask_results' <=> <<s, h>> \in DOMAIN subtask_results
           /\ <<s, h>> \in DOMAIN subtask_results =>
                 subtask_results'[<<s, h>>] = subtask_results[<<s, h>>]
    BY <2>1, <2>2 DEF Update
  <2> QED BY <1>8, <1>b, <2>3 DEF ReduceSubtask
<1>9. CASE WriteVerdict(w)
  BY <1>9, <1>b, <1>c DEF WriteVerdict
<1>10. CASE SelectSubmissions(w)
  BY <1>10, <1>b DEF SelectSubmissions
<1>11. CASE SelectProblemSubtasks(w)
  BY <1>11, <1>b DEF SelectProblemSubtasks
<1>12. CASE ScoreSubtask(w)
  BY <1>12, <1>b DEF ScoreSubtask
<1>13. CASE UpsertScore(w)
  BY <1>13, <1>b DEF UpsertScore
<1>14. CASE RemoveExecutable(w)
  BY <1>14, <1>b, <1>c DEF RemoveExecutable
<1> QED
  BY <1>1, <1>2, <1>3, <1>4, <1>5, <1>6, <1>7, <1>8, <1>9, <1>10, <1>11,
     <1>12, <1>13, <1>14
  DEF WorkerStep

-----------------------------------------------------------------------------
(***************************************************************************)
(* Consequences of the invariant.                                          *)
(***************************************************************************)
LEMMA PartsOf ==
    ASSUME NEW s \in Submissions, SubmissionInv(s)
    PROVE  /\ TInv /\ TaskOK /\ WorkerOK /\ ProblemInv /\ PoolInv
           /\ RowsInv(s) /\ StageInv(s) /\ JobsInv(s) /\ ResultsInv(s)
           /\ CountInv(s) /\ FilesInv(s) /\ VerdictInv(s)
           /\ PublishedInv(s) /\ PointsInv(s)
BY DEF SubmissionInv, LocalInv, TInv, VerdictInv

\* Outside "dispatch" no test of s is anywhere.
LEMMA NobodyOn ==
    ASSUME NEW s \in Submissions, SubmissionInv(s), task[s].pc # "dispatch"
    PROVE  /\ \A w \in Workers : ~On(w, s)
           /\ Pooled(s) = {}
           /\ Handing(s) = {}
           /\ Uncounted(s) = {}
<1>1. \A w \in Workers : ~On(w, s)
  BY PartsOf DEF JobsInv
<1>2. Pooled(s) = {} /\ Handing(s) = {}
  BY PartsOf DEF JobsInv, Handing
<1>3. With(s, {"execute", "store", "count"}) = {}
  BY <1>1 DEF With, On, Busy, SubmissionOf
<1> QED BY <1>1, <1>2, <1>3 DEF Uncounted

LEMMA UncountedTests ==
    ASSUME NEW s \in Submissions, SubmissionInv(s)
    PROVE  /\ Unstored(s) \subseteq Uncounted(s)
           /\ Uncounted(s) \subseteq TestsOf(s)
           /\ IsFiniteSet(TestsOf(s)) /\ IsFiniteSet(Uncounted(s))
           /\ Cardinality(TestsOf(s)) \in Nat /\ Cardinality(Uncounted(s)) \in Nat
<1>1. Unstored(s) \subseteq Uncounted(s)
  BY DEF Unstored, Uncounted, With
<1>2. With(s, {"execute", "store", "count"}) \subseteq TestsOf(s)
  BY PartsOf DEF JobsInv, With, On, Busy, SubmissionOf, TestOf
<1>3. Uncounted(s) \subseteq TestsOf(s)
  BY <1>2, PartsOf DEF JobsInv, Uncounted
<1>4. TestsOf(s) \subseteq problem.tests /\ IsFiniteSet(problem.tests)
  BY PartsOf DEF RowsInv, ProblemInv
<1>5. IsFiniteSet(TestsOf(s)) /\ IsFiniteSet(Uncounted(s))
  BY <1>3, <1>4, FS_Subset
<1> QED BY <1>1, <1>3, <1>5, FS_CardinalityType

\* While a test of s is not counted, there is no verdict and no points, and no
\* worker is at the verdict.
LEMMA Unsettled ==
    ASSUME NEW s \in Submissions, SubmissionInv(s), ~Settled(s)
    PROVE  /\ ~Judged(s)
           /\ \A g \in SubtasksOf(s) : subtask_results[<<s, g>>].points = 0
BY PartsOf DEF PublishedInv, PointsInv

\* A worker at the verdict of s has all its results before it.
LEMMA FinalisingSettles ==
    ASSUME NEW s \in Submissions, SubmissionInv(s), NEW w \in Workers, On(w, s),
           worker[w].pc \in Finalising
    PROVE  Settled(s)
<1>1. task[s].pc = "dispatch" /\ Uncounted(s) = {}
  BY PartsOf DEF JobsInv, CountInv
<1>2. TestsOf(s) = problem.tests /\ SubtasksOf(s) = problem.subtasks
  BY <1>1, PartsOf DEF RowsInv
<1>3. \A t \in TestsOf(s) : test_results[<<s, t>>] \notin Unfinished
  BY <1>1, PartsOf, UncountedTests DEF ResultsInv
<1> QED BY <1>1, <1>2, <1>3 DEF Settled

-----------------------------------------------------------------------------
(***************************************************************************)
(* A step of the handler or of test_submission, for its own submission.    *)
(***************************************************************************)
\* Before its tests are handed over nothing is judged: only the rows and the
\* stage matter.
LEMMA QuietStep ==
    ASSUME TInv', NEW s \in Submissions, SubmissionInv(s),
           \A w \in Workers : ~On(w, s),
           Pooled(s) = {},
           \A w \in Workers : ~On(w, s)', Pooled(s)' = {},
           task'[s].pc # "dispatch",
           task'[s].pc = "select_jobs" => s \in executables',
           ~Judged(s)',
           \A g \in SubtasksOf(s)' : subtask_results'[<<s, g>>].points = 0,
           \A t \in TestsOf(s)' : test_results'[<<s, t>>] # "CompilationError",
           RowsInv(s)', StageInv(s)'
    PROVE  LocalInv(s)'
<1>1. Handing(s)' = {}
  BY DEF Handing
<1>2. With(s, {"execute", "store", "count"})' = {}
  BY DEF With, On, Busy, SubmissionOf
<1>3. Uncounted(s)' = {}
  BY <1>1, <1>2 DEF Uncounted
<1>4. JobsInv(s)'
  BY <1>1 DEF JobsInv
<1>5. ResultsInv(s)'
  BY DEF ResultsInv
<1>6. CountInv(s)'
  BY DEF CountInv
<1>7. FilesInv(s)'
  BY <1>3 DEF FilesInv
<1>8. VerdictInv(s)'
  BY DEF VerdictInv, PublishedInv, PointsInv
<1> QED BY <1>4, <1>5, <1>6, <1>7, <1>8 DEF LocalInv

LEMMA OwnHandlerStep ==
    ASSUME TInv', NEW s \in Submissions, SubmissionInv(s),
           AddSubmission(s) \/ HandlerStep(s) \/ HandlerDropped(s)
    PROVE  LocalInv(s)'
<1>0. /\ TInv /\ TaskOK /\ ProblemInv
      /\ RowsInv(s) /\ StageInv(s) /\ ResultsInv(s)
  BY PartsOf
<1>a. /\ worker' = worker /\ pool' = pool /\ problem' = problem
      /\ executables' = executables
      /\ task[s].pc \in {"none", "select_subtasks", "insert_subtasks", "insert_tests"}
  BY DEF HandlerStep, AddSubmission, SelectSubtasks, InsertSubtaskResult,
         SelectTests, InsertTestResult, Spawn, HandlerDropped, database
<1>b. /\ \A w \in Workers : ~On(w, s) /\ ~On(w, s)'
      /\ Pooled(s) = {} /\ Pooled(s)' = {}
  BY <1>a, NobodyOn DEF On, Busy, SubmissionOf, Pooled
<1>c. /\ ~Judged(s)
      /\ \A g \in SubtasksOf(s) : subtask_results[<<s, g>>].points = 0
  BY <1>a, Unsettled DEF Settled
<1>d. PICK pc, todo : /\ Goto(s, pc, todo)
                      /\ pc \in {"select_subtasks", "insert_subtasks",
                                 "insert_tests", "queued", "stopped"}
  BY DEF HandlerStep, AddSubmission, SelectSubtasks, InsertSubtaskResult,
         SelectTests, InsertTestResult, Spawn, HandlerDropped
<1>e. task'[s] = [pc |-> pc, todo |-> todo]
  BY <1>0, <1>d, GotoKeeps
<1>f. SUFFICES /\ RowsInv(s)' /\ StageInv(s)'
               /\ ~Judged(s)'
               /\ \A g \in SubtasksOf(s)' : subtask_results'[<<s, g>>].points = 0
               /\ \A t \in TestsOf(s)' : test_results'[<<s, t>>] # "CompilationError"
  BY <1>b, <1>d, <1>e, QuietStep
<1>1. CASE AddSubmission(s)
  <2>1. PICK u : submissions' = Insert(submissions, s,
               [user_id |-> u, result |-> "InQueue", points |-> 0, tests_done |-> 0])
    BY <1>1 DEF AddSubmission
  <2>2. /\ s \in DOMAIN submissions'
        /\ submissions'[s].result = "InQueue" /\ submissions'[s].tests_done = 0
    BY <2>1 DEF Insert
  <2>3. task[s].pc = "none" /\ task'[s].pc = "select_subtasks"
    BY <1>0, <1>1 DEF AddSubmission, Goto, TaskOK
  <2>4. TestsOf(s)' = {} /\ SubtasksOf(s)' = {}
    BY <1>0, <1>1, <2>3
    DEF AddSubmission, RowsInv, TestsOf, SubtasksOf, get_tests_for_submission,
        get_subtasks_for_submission
  <2> QED BY <2>2, <2>3, <2>4 DEF RowsInv, StageInv, Judged, Unfinished
<1>g. ASSUME UNCHANGED database, task[s].pc # "none"
      PROVE  /\ TestsOf(s)' = TestsOf(s) /\ SubtasksOf(s)' = SubtasksOf(s)
             /\ s \in DOMAIN submissions'
             /\ StageInv(s)'
             /\ ~Judged(s)'
             /\ \A g \in SubtasksOf(s)' : subtask_results'[<<s, g>>].points = 0
             /\ \A t \in TestsOf(s)' : test_results'[<<s, t>>] # "CompilationError"
  <2>1. /\ TestsOf(s)' = TestsOf(s) /\ SubtasksOf(s)' = SubtasksOf(s)
        /\ submissions' = submissions /\ test_results' = test_results
        /\ subtask_results' = subtask_results
    BY <1>g DEF database, TestsOf, SubtasksOf, get_tests_for_submission,
                get_subtasks_for_submission
  <2>2. s \in DOMAIN submissions /\ ~Judged(s)'
    BY <1>0, <1>c, <1>g, <2>1 DEF RowsInv, Judged
  <2>3. StageInv(s)'
    BY <1>0, <1>a, <1>d, <1>e, <1>g, <2>1 DEF StageInv
  <2> QED BY <1>0, <1>c, <2>1, <2>2, <2>3 DEF ResultsInv
<1>2. CASE SelectSubtasks(s)
  <2>1. task'[s] = [pc |-> "insert_subtasks", todo |-> problem.subtasks]
    BY <1>0, <1>2, GotoKeeps DEF SelectSubtasks
  <2> QED BY <1>0, <1>a, <1>g, <1>2, <2>1 DEF RowsInv, SelectSubtasks
<1>3. CASE InsertSubtaskResult(s)
  <2>1. PICK g \in task[s].todo \cap problem.subtasks :
           /\ subtask_results' = Insert(subtask_results, <<s, g>>,
                                        [result |-> "InQueue", points |-> 0])
           /\ Goto(s, "insert_subtasks", task[s].todo \ {g})
    BY <1>3 DEF InsertSubtaskResult
  <2>2. task'[s] = [pc |-> "insert_subtasks", todo |-> task[s].todo \ {g}]
    BY <1>0, <2>1, GotoKeeps
  <2>3. problem.subtasks \subseteq Subtasks
    BY <1>0 DEF TInv, DatabaseOK, ProblemOK
  <2>4. SubtasksOf(s)' = SubtasksOf(s) \cup {g}
    BY <2>1, <2>3 DEF SubtasksOf, get_subtasks_for_submission, Insert
  <2>5. \A h \in SubtasksOf(s)' : subtask_results'[<<s, h>>].points = 0
    BY <1>c, <2>1, <2>4 DEF SubtasksOf, get_subtasks_for_submission, Insert
  <2>6. /\ TestsOf(s)' = TestsOf(s)
        /\ submissions' = submissions /\ test_results' = test_results
    BY <1>3 DEF InsertSubtaskResult, TestsOf, get_tests_for_submission
  <2>7. RowsInv(s)'
    BY <1>0, <1>a, <1>3, <2>1, <2>2, <2>4, <2>6 DEF RowsInv, InsertSubtaskResult
  <2> QED BY <1>0, <1>c, <1>3, <2>2, <2>5, <2>6, <2>7
          DEF StageInv, ResultsInv, Judged, InsertSubtaskResult
<1>4. CASE SelectTests(s)
  <2>1. task'[s] = [pc |-> "insert_tests", todo |-> problem.tests]
    BY <1>0, <1>4, GotoKeeps DEF SelectTests
  <2> QED BY <1>0, <1>a, <1>g, <1>4, <2>1 DEF RowsInv, SelectTests
<1>5. CASE InsertTestResult(s)
  <2>1. PICK t \in task[s].todo \cap problem.tests :
           /\ test_results' = Insert(test_results, <<s, t>>, "InQueue")
           /\ Goto(s, "insert_tests", task[s].todo \ {t})
    BY <1>5 DEF InsertTestResult
  <2>2. task'[s] = [pc |-> "insert_tests", todo |-> task[s].todo \ {t}]
    BY <1>0, <2>1, GotoKeeps
  <2>3. problem.tests \subseteq Tests
    BY <1>0 DEF TInv, DatabaseOK, ProblemOK
  <2>4. TestsOf(s)' = TestsOf(s) \cup {t}
    BY <2>1, <2>3 DEF TestsOf, get_tests_for_submission, Insert
  <2>5. \A h \in TestsOf(s)' : test_results'[<<s, h>>] \in Unfinished
    BY <1>0, <1>5, <2>1, <2>4
    DEF InsertTestResult, StageInv, TestsOf, get_tests_for_submission, Insert, Unfinished
  <2>6. /\ SubtasksOf(s)' = SubtasksOf(s)
        /\ submissions' = submissions /\ subtask_results' = subtask_results
    BY <1>5 DEF InsertTestResult, SubtasksOf, get_subtasks_for_submission
  <2>7. RowsInv(s)'
    BY <1>0, <1>a, <1>5, <2>1, <2>2, <2>4, <2>6 DEF RowsInv, InsertTestResult
  <2> QED BY <1>0, <1>c, <1>5, <2>2, <2>5, <2>6, <2>7
          DEF StageInv, Unfinished, Judged, InsertTestResult
<1>6. CASE Spawn(s)
  <2>1. task'[s] = [pc |-> "queued", todo |-> {}]
    BY <1>0, <1>6, GotoKeeps DEF Spawn
  <2> QED BY <1>0, <1>a, <1>g, <1>6, <2>1 DEF RowsInv, Spawn
<1>7. CASE HandlerDropped(s)
  <2>1. task'[s] = [pc |-> "stopped", todo |-> {}]
    BY <1>0, <1>7, GotoKeeps DEF HandlerDropped
  <2> QED BY <1>0, <1>a, <1>g, <1>7, <2>1 DEF RowsInv, HandlerDropped
<1> QED
  BY <1>1, <1>2, <1>3, <1>4, <1>5, <1>6, <1>7 DEF HandlerStep

LEMMA OwnCompileStep ==
    ASSUME TInv', NEW s \in Submissions, SubmissionInv(s),
           StartCompiling(s) \/ CompileFails(s) \/ CompileSucceeds(s) \/ DispatchFails(s)
    PROVE  LocalInv(s)'
<1>0. /\ TInv /\ TaskOK /\ ProblemInv
      /\ RowsInv(s) /\ StageInv(s) /\ JobsInv(s) /\ ResultsInv(s) /\ PoolInv
  BY PartsOf
<1>a. /\ worker' = worker /\ pool' = pool /\ problem' = problem
      /\ test_results' = test_results
      /\ DOMAIN submissions' = DOMAIN submissions
      /\ DOMAIN subtask_results' = DOMAIN subtask_results
      /\ \A g : <<s, g>> \in DOMAIN subtask_results =>
            subtask_results'[<<s, g>>].points = subtask_results[<<s, g>>].points
  <2>1. CASE StartCompiling(s) \/ CompileFails(s)
    BY <2>1 DEF StartCompiling, CompileFails, set_submission_result
  <2>2. CASE CompileSucceeds(s)
    BY <1>0, <2>2
    DEF CompileSucceeds, set_submission_result, TInv, DatabaseOK, SubtaskResultsOK,
        IsTable, SubtaskResultRow
  <2>3. CASE DispatchFails(s)
    BY <2>3 DEF DispatchFails, database
  <2> QED BY <2>1, <2>2, <2>3
<1>b. /\ \A w \in Workers : ~On(w, s) /\ ~On(w, s)'
      /\ Pooled(s) = {} /\ Pooled(s)' = {}
  <2>1. CASE StartCompiling(s) \/ CompileFails(s) \/ CompileSucceeds(s)
    BY <1>a, <2>1, NobodyOn
    DEF StartCompiling, CompileFails, CompileSucceeds, On, Busy, SubmissionOf, Pooled
  <2>2. CASE DispatchFails(s)
    BY <1>0, <1>a, <2>2
    DEF DispatchFails, RunningWorkers, PoolInv, On, Busy, SubmissionOf, Pooled
  <2> QED BY <2>1, <2>2
<1>c. ~Settled(s)
  <2>1. CASE StartCompiling(s) \/ CompileFails(s) \/ CompileSucceeds(s)
    BY <2>1 DEF StartCompiling, CompileFails, CompileSucceeds, Settled
  <2>2. CASE DispatchFails(s)
    BY <2>2 DEF DispatchFails, Settled, Uncounted, Handing
  <2> QED BY <2>1, <2>2
<1>d. /\ ~Judged(s)
      /\ \A g \in SubtasksOf(s) : subtask_results[<<s, g>>].points = 0
  BY <1>c, Unsettled
<1>e. /\ TestsOf(s)' = TestsOf(s) /\ SubtasksOf(s)' = SubtasksOf(s)
      /\ \A g \in SubtasksOf(s)' : subtask_results'[<<s, g>>].points = 0
      /\ \A t \in TestsOf(s)' : test_results'[<<s, t>>] # "CompilationError"
  BY <1>0, <1>a, <1>d
  DEF TestsOf, SubtasksOf, get_tests_for_submission, get_subtasks_for_submission,
      ResultsInv
<1>f. s \in DOMAIN submissions
  BY <1>0 DEF RowsInv, StartCompiling, CompileFails, CompileSucceeds, DispatchFails
<1>1. CASE StartCompiling(s)
  <2>1. task[s].pc = "queued" /\ task'[s] = [pc |-> "compile", todo |-> {}]
    BY <1>0, <1>1, <1>f DEF StartCompiling, Goto, TaskOK
  <2>2. submissions'[s] = [submissions[s] EXCEPT !.result = "Compiling"]
    BY <1>1, <1>f, ResultKeeps DEF StartCompiling
  <2>3. /\ submissions'[s].result = "Compiling"
        /\ submissions'[s].tests_done = submissions[s].tests_done
    BY <1>0, <1>f, <2>2 DEF TInv, DatabaseOK, SubmissionsOK, IsTable, SubmissionRow
  <2>4. RowsInv(s)' /\ StageInv(s)'
    BY <1>0, <1>a, <1>e, <1>f, <2>1, <2>3 DEF RowsInv, StageInv
  <2> QED BY <1>b, <1>e, <2>1, <2>3, <2>4, QuietStep DEF Judged, Unfinished
<1>2. CASE CompileFails(s)
  <2>1. task[s].pc = "compile" /\ task'[s] = [pc |-> "ended", todo |-> {}]
    BY <1>0, <1>2 DEF CompileFails, Goto, TaskOK
  <2>2. submissions'[s] = [submissions[s] EXCEPT !.result = "CompilationError"]
    BY <1>2, <1>f, ResultKeeps DEF CompileFails
  <2>3. submissions'[s].result = "CompilationError"
    BY <1>0, <1>f, <2>2 DEF TInv, DatabaseOK, SubmissionsOK, IsTable, SubmissionRow
  <2>4. RowsInv(s)' /\ StageInv(s)'
    BY <1>0, <1>a, <1>e, <1>f, <2>1 DEF RowsInv, StageInv
  <2> QED BY <1>b, <1>e, <2>1, <2>3, <2>4, QuietStep DEF Judged, Unfinished
<1>3. CASE CompileSucceeds(s)
  <2>1. task[s].pc = "compile" /\ task'[s] = [pc |-> "select_jobs", todo |-> {}]
    BY <1>0, <1>3 DEF CompileSucceeds, Goto, TaskOK
  <2>2. submissions'[s] = [submissions[s] EXCEPT !.result = "Testing"]
    BY <1>3, <1>f, ResultKeeps DEF CompileSucceeds
  <2>3. /\ submissions'[s].result = "Testing"
        /\ submissions'[s].tests_done = submissions[s].tests_done
    BY <1>0, <1>f, <2>2 DEF TInv, DatabaseOK, SubmissionsOK, IsTable, SubmissionRow
  <2>4. RowsInv(s)' /\ StageInv(s)'
    BY <1>0, <1>a, <1>e, <1>f, <2>1, <2>3 DEF RowsInv, StageInv
  <2>5. s \in executables'
    BY <1>3 DEF CompileSucceeds
  <2> QED BY <1>b, <1>e, <2>1, <2>3, <2>4, <2>5, QuietStep DEF Judged, Unfinished
<1>4. CASE DispatchFails(s)
  <2>1. task[s].pc = "dispatch" /\ task'[s] = [pc |-> "stopped", todo |-> {}]
    BY <1>0, <1>4 DEF DispatchFails, Goto, TaskOK
  <2>2. submissions' = submissions
    BY <1>4 DEF DispatchFails, database
  <2>3. RowsInv(s)' /\ StageInv(s)' /\ ~Judged(s)'
    BY <1>0, <1>a, <1>d, <1>e, <1>f, <2>1, <2>2 DEF RowsInv, StageInv, Judged
  <2> QED BY <1>b, <1>e, <2>1, <2>3, QuietStep
<1> QED BY <1>1, <1>2, <1>3, <1>4

\* As long as a test is uncounted every worker on s is fresh.
LEMMA FreshWorkers ==
    ASSUME NEW s \in Submissions, SubmissionInv(s), Uncounted(s) # {}
    PROVE  \A w \in Workers : On(w, s) =>
               /\ worker[w].pc \notin Finalising
               /\ worker[w].result = "Accepted" /\ worker[w].points = 0
<1> SUFFICES ASSUME NEW w \in Workers, On(w, s)
             PROVE  /\ worker[w].pc \notin Finalising
                    /\ worker[w].result = "Accepted" /\ worker[w].points = 0
  OBVIOUS
<1>1. worker[w].pc \notin Finalising
  BY PartsOf DEF CountInv
<1>2. worker[w] \in WorkerRecord
  BY PartsOf DEF WorkerOK
<1>3. worker[w].pc \in {"execute", "store", "count", "read_tests_done", "compare"}
  BY <1>1, <1>2 DEF WorkerRecord, Finalising, On, Busy
<1> QED BY <1>1, <1>3, PartsOf DEF VerdictInv, WorkingInv

LEMMA OwnJobsStep ==
    ASSUME TInv', NEW s \in Submissions, SubmissionInv(s), SelectJobs(s) \/ HandOver(s)
    PROVE  LocalInv(s)'
<1>0. /\ TInv /\ TaskOK /\ ProblemInv
      /\ RowsInv(s) /\ StageInv(s) /\ JobsInv(s) /\ ResultsInv(s)
      /\ CountInv(s) /\ FilesInv(s) /\ VerdictInv(s)
  BY PartsOf
<1>a. /\ worker' = worker /\ problem' = problem /\ executables' = executables
      /\ test_results' = test_results /\ submissions' = submissions
      /\ subtask_results' = subtask_results
  BY DEF SelectJobs, HandOver, database
<1>b. /\ TestsOf(s)' = TestsOf(s) /\ SubtasksOf(s)' = SubtasksOf(s)
      /\ \A w \in Workers : On(w, s)' <=> On(w, s)
      /\ \A P : With(s, P)' = With(s, P)
      /\ Judged(s)' <=> Judged(s)
  BY <1>a
  DEF TestsOf, SubtasksOf, get_tests_for_submission, get_subtasks_for_submission,
      On, Busy, SubmissionOf, With, Judged
<1>c. ~Settled(s)
  BY DEF Settled, SelectJobs, HandOver, Uncounted, Handing
<1>d. /\ ~Judged(s)
      /\ \A g \in SubtasksOf(s) : subtask_results[<<s, g>>].points = 0
  BY <1>c, Unsettled
<1>e. s \in DOMAIN submissions
  BY <1>0 DEF RowsInv, SelectJobs, HandOver
<1>1. CASE SelectJobs(s)
  <2>1. task[s].pc = "select_jobs" /\ task'[s] = [pc |-> "dispatch", todo |-> TestsOf(s)]
    BY <1>0, <1>1 DEF SelectJobs, Goto, TaskOK, TestsOf
  <2>2. pool' = pool
    BY <1>1 DEF SelectJobs
  <2>3. /\ \A w \in Workers : ~On(w, s)
        /\ Pooled(s) = {}
    BY <2>1, NobodyOn
  <2>4. Handing(s)' = TestsOf(s) /\ Pooled(s)' = {}
    BY <2>1, <2>2, <2>3 DEF Handing, Pooled
  <2>5. Unstored(s)' = TestsOf(s) /\ Uncounted(s)' = TestsOf(s)
    <3>1. With(s, {"execute", "store"}) = {} /\ With(s, {"execute", "store", "count"}) = {}
      BY <2>3 DEF With, On, Busy, SubmissionOf
    <3> QED BY <1>b, <2>4, <3>1 DEF Unstored, Uncounted
  <2>6. RowsInv(s)' /\ StageInv(s)'
    BY <1>0, <1>a, <1>b, <1>e, <2>1 DEF RowsInv, StageInv
  <2>7. JobsInv(s)'
    BY <1>b, <2>1, <2>3, <2>4 DEF JobsInv
  <2>8. ResultsInv(s)'
    BY <1>0, <1>a, <1>b, <2>1, <2>3, <2>5 DEF ResultsInv, StageInv
  <2>9. CountInv(s)'
    BY <1>0, <1>a, <1>b, <2>1, <2>3, <2>5, UncountedTests DEF CountInv, StageInv
  <2>10. FilesInv(s)'
    BY <1>0, <1>a, <2>1 DEF FilesInv
  <2>11. VerdictInv(s)'
    BY <1>a, <1>b, <1>d, <2>3 DEF VerdictInv, PublishedInv, PointsInv
  <2> QED BY <2>6, <2>7, <2>8, <2>9, <2>10, <2>11 DEF LocalInv
<1>2. CASE HandOver(s)
  <2>1. PICK t \in task[s].todo :
           /\ pool' = pool \cup {<<s, t>>}
           /\ Goto(s, "dispatch", task[s].todo \ {t})
    BY <1>2 DEF HandOver
  <2>2. /\ task[s].pc = "dispatch"
        /\ task'[s] = [pc |-> "dispatch", todo |-> task[s].todo \ {t}]
    BY <1>0, <1>2, <2>1 DEF HandOver, Goto, TaskOK
  <2>3. t \in TestsOf(s) /\ t \in Handing(s) /\ t \in Tests
    BY <1>0, <2>2 DEF JobsInv, Handing, TestsOf, get_tests_for_submission
  <2>4. Handing(s)' = Handing(s) \ {t} /\ Pooled(s)' = Pooled(s) \cup {t}
    BY <2>1, <2>2, <2>3 DEF Handing, Pooled
  <2>5. Unstored(s)' = Unstored(s) /\ Uncounted(s)' = Uncounted(s)
    BY <1>b, <2>3, <2>4 DEF Unstored, Uncounted
  <2>6. RowsInv(s)' /\ StageInv(s)'
    BY <1>0, <1>a, <1>b, <1>e, <2>2 DEF RowsInv, StageInv
  <2>7. JobsInv(s)'
    BY <1>0, <1>a, <1>b, <2>2, <2>3, <2>4 DEF JobsInv, TestOf
  <2>8. ResultsInv(s)'
    BY <1>0, <1>a, <1>b, <2>2, <2>5 DEF ResultsInv
  <2>9. CountInv(s)'
    BY <1>0, <1>a, <1>b, <2>2, <2>5 DEF CountInv
  <2>10. FilesInv(s)'
    BY <1>0, <1>a, <2>2, <2>5 DEF FilesInv
  <2>11. Uncounted(s) # {}
    BY <2>3 DEF Uncounted
  <2>12. VerdictInv(s)'
    BY <1>a, <1>b, <1>d, <2>11, FreshWorkers
    DEF VerdictInv, PublishedInv, PointsInv, WorkingInv, Finalising, AfterVerdict
  <2> QED BY <2>6, <2>7, <2>8, <2>9, <2>10, <2>12 DEF LocalInv
<1> QED BY <1>1, <1>2

-----------------------------------------------------------------------------
(***************************************************************************)
(* A step of a worker, for the submission of its job.                      *)
(***************************************************************************)
\* The other workers stay, and this one keeps its job or becomes idle.
Moves(w) ==
    /\ \A v \in Workers : v # w => worker'[v] = worker[v]
    /\ worker'[w].job = worker[w].job \/ worker'[w].pc = "idle"
    /\ worker'[w].pc # "off"

LEMMA WorkerViews ==
    ASSUME NEW s \in Submissions, SubmissionInv(s), NEW w \in Workers, On(w, s), Moves(w)
    PROVE  /\ \A v \in Workers : v # w => (On(v, s)' <=> On(v, s))
           /\ On(w, s)' <=> Busy(w)'
           /\ \A v \in Workers : On(v, s)' => TestOf(v)' = TestOf(v) /\ On(v, s)
           /\ \A P : "idle" \notin P /\ "off" \notin P =>
                 With(s, P)' = IF worker'[w].pc \in P THEN With(s, P) \cup {TestOf(w)}
                                                      ELSE With(s, P) \ {TestOf(w)}
<1>0. /\ worker[w].job = <<s, TestOf(w)>> /\ TestOf(w) \in Tests
      /\ JobsInv(s)
  BY PartsOf, WorkerRecordFacts DEF On, Busy, GoodWorker, SubmissionOf, TestOf
<1>1. \A v \in Workers : v # w => (On(v, s)' <=> On(v, s))
  BY DEF Moves, On, Busy, SubmissionOf
<1>2. On(w, s)' <=> Busy(w)'
  BY DEF Moves, On, Busy, SubmissionOf
<1>3. \A v \in Workers : On(v, s)' => TestOf(v)' = TestOf(v) /\ On(v, s)
  BY DEF Moves, On, Busy, SubmissionOf, TestOf
<1>4. ASSUME NEW P, "idle" \notin P, "off" \notin P
      PROVE  With(s, P)' = IF worker'[w].pc \in P THEN With(s, P) \cup {TestOf(w)}
                                                  ELSE With(s, P) \ {TestOf(w)}
  <2>1. \A v \in Workers, t \in Tests : worker[v].job = <<s, t>> =>
           SubmissionOf(v) = s /\ TestOf(v) = t
    BY DEF SubmissionOf, TestOf
  <2>2. \A v \in Workers : v # w => ~(worker[v].pc \in P /\ worker[v].job = <<s, TestOf(w)>>)
    BY <1>0, <1>4, <2>1 DEF JobsInv, On, Busy
  <2>3. worker'[w].pc \in P => worker'[w].job = <<s, TestOf(w)>>
    BY <1>0, <1>4 DEF Moves
  <2>4. \A t \in Tests : t # TestOf(w) => worker[w].job # <<s, t>> /\ <<s, TestOf(w)>> # <<s, t>>
    BY <1>0
  <2>5. ASSUME NEW t \in Tests
        PROVE  t \in With(s, P)' <=> \/ t # TestOf(w) /\ t \in With(s, P)
                                     \/ t = TestOf(w) /\ worker'[w].pc \in P
    <3>1. CASE t = TestOf(w)
      BY <1>0, <2>2, <2>3, <3>1 DEF With, Moves
    <3>2. CASE t # TestOf(w)
      BY <2>3, <2>4, <3>2 DEF With, Moves
    <3> QED BY <3>1, <3>2
  <2> QED BY <1>0, <2>5 DEF With
<1> QED BY <1>1, <1>2, <1>3, <1>4

\* What a busy worker's step does to its record.
LEMMA KeepsItsJob ==
    ASSUME WorkerOK, NEW w \in Workers, WorkerStep(w), worker[w].pc # "idle"
    PROVE  Moves(w)
<1>0. worker \in [Workers -> WorkerRecord]
  BY DEF WorkerOK
<1>a. CASE Return(w)
  BY <1>0, <1>a DEF Moves, Return, IdleWorker
<1>1. CASE ExecuteTest(w)
  <2>1. PICK v : worker' = [worker EXCEPT ![w] = [worker[w] EXCEPT !.pc = "store", !.verdict = v]]
    BY <1>1 DEF ExecuteTest
  <2>2. [worker[w] EXCEPT !.pc = "store", !.verdict = v].job = worker[w].job
    BY <1>0 DEF WorkerRecord
  <2> QED BY <1>0, <2>1, <2>2 DEF Moves
<1>2. CASE StoreResult(w)
  BY <1>0, <1>2, ZenonT(30) DEF Moves, StoreResult, WorkerRecord
<1>3. CASE CountTest(w)
  BY <1>0, <1>3, ZenonT(30) DEF Moves, CountTest, At, WorkerRecord
<1>4. CASE ReadTestsDone(w)
  <2>1. CASE ~Return(w)
    BY <1>0, <1>4, <2>1, ZenonT(30) DEF Moves, ReadTestsDone, WorkerRecord
  <2> QED BY <1>a, <2>1
<1>5. CASE CompareTotal(w)
  <2>1. CASE ~Return(w)
    BY <1>0, <1>5, <2>1, ZenonT(30) DEF Moves, CompareTotal, WorkerRecord
  <2> QED BY <1>a, <2>1
<1>6. CASE SelectSubtaskResults(w)
  BY <1>0, <1>6, ZenonT(30) DEF Moves, SelectSubtaskResults, WorkerRecord
<1>7. CASE ReduceSubtask(w)
  BY <1>0, <1>7, ZenonT(30) DEF Moves, ReduceSubtask, WorkerRecord
<1>8. CASE WriteVerdict(w)
  BY <1>0, <1>8, ZenonT(30) DEF Moves, WriteVerdict, WorkerRecord
<1>9. CASE SelectSubmissions(w)
  <2>1. CASE ~Return(w)
    BY <1>0, <1>9, <2>1, ZenonT(30) DEF Moves, SelectSubmissions, WorkerRecord
  <2> QED BY <1>a, <2>1
<1>10. CASE SelectProblemSubtasks(w)
  BY <1>0, <1>10, ZenonT(30) DEF Moves, SelectProblemSubtasks, WorkerRecord
<1>11. CASE ScoreSubtask(w)
  <2>1. PICK g, x : worker' = [worker EXCEPT ![w] =
                       [worker[w] EXCEPT !.todo = worker[w].todo \ {g}, !.score = x]]
    BY <1>11 DEF ScoreSubtask
  <2>2. worker[w] \in WorkerRecord
    BY <1>0
  <2>3. /\ worker'[w].job = worker[w].job
        /\ worker'[w].pc = worker[w].pc
        /\ \A v \in Workers : v # w => worker'[v] = worker[v]
    BY <1>0, <2>1, <2>2 DEF WorkerRecord
  <2>4. worker[w].pc = "score"
    BY <1>11 DEF ScoreSubtask
  <2> QED BY <2>3, <2>4 DEF Moves
<1>12. CASE UpsertScore(w)
  BY <1>0, <1>12, ZenonT(30) DEF Moves, UpsertScore, WorkerRecord
<1>13. CASE RemoveExecutable(w)
  BY <1>0, <1>13 DEF Moves, RemoveExecutable, Return, IdleWorker
<1> QED
  BY <1>1, <1>2, <1>3, <1>4, <1>5, <1>6, <1>7, <1>8, <1>9, <1>10, <1>11,
     <1>12, <1>13
  DEF WorkerStep, TakeJob

LEMMA BusyMoves ==
    ASSUME TInv, NEW w \in Workers, WorkerStep(w), worker[w].pc # "idle"
    PROVE  Moves(w)
BY KeepsItsJob DEF TInv

LEMMA OwnTakeJob ==
    ASSUME TInv', NEW w \in Workers, TakeJob(w), NEW s \in Submissions, SubmissionInv(s), On(w, s)'
    PROVE  LocalInv(s)'
<1>0. /\ TInv /\ TaskOK /\ WorkerOK /\ ProblemInv
      /\ RowsInv(s) /\ StageInv(s) /\ JobsInv(s) /\ ResultsInv(s)
      /\ CountInv(s) /\ FilesInv(s) /\ VerdictInv(s)
  BY PartsOf
<1>1. PICK j \in pool :
         /\ pool' = pool \ {j}
         /\ test_results' = Update(test_results, j, "Testing")
         /\ worker' = [worker EXCEPT ![w] = [IdleWorker EXCEPT !.pc = "execute", !.job = j]]
  BY DEF TakeJob
<1>2. /\ worker'[w].pc = "execute" /\ worker'[w].job = j
      /\ worker'[w].result = "Accepted" /\ worker'[w].points = 0
      /\ \A v \in Workers : v # w => worker'[v] = worker[v]
  BY <1>0, <1>1 DEF WorkerOK, IdleWorker
<1>3. PICK t \in Tests : j = <<s, t>>
  BY <1>0, <1>1, <1>2 DEF On, SubmissionOf, TInv, PoolOK
<1>4. t \in Pooled(s)
  BY <1>1, <1>3 DEF Pooled
<1>5. /\ task' = task /\ problem' = problem /\ executables' = executables
      /\ submissions' = submissions /\ subtask_results' = subtask_results
  BY DEF TakeJob
<1>6. /\ \A v \in Workers : v # w => (On(v, s)' <=> On(v, s))
      /\ \A v \in Workers : v # w => TestOf(v)' = TestOf(v)
      /\ ~On(w, s)
      /\ TestOf(w)' = t
  BY <1>2, <1>3 DEF On, Busy, SubmissionOf, TestOf, TakeJob
<1>7. /\ Pooled(s)' = Pooled(s) \ {t}
      /\ Handing(s)' = Handing(s)
  BY <1>1, <1>3, <1>5 DEF Pooled, Handing
<1>8. ASSUME NEW P, "execute" \in P, "idle" \notin P
      PROVE  With(s, P)' = With(s, P) \cup {t}
  <2>1. worker[w].pc \notin P
    BY <1>8 DEF TakeJob
  <2>2. ASSUME NEW q \in Tests PROVE q \in With(s, P)' <=> q \in With(s, P) \/ q = t
    <3>1. worker'[w].job = <<s, q>> <=> q = t
      BY <1>2, <1>3
    <3> QED BY <1>2, <1>8, <2>1, <3>1 DEF With
  <2> QED BY <2>2 DEF With
<1>9. Unstored(s)' = Unstored(s) /\ Uncounted(s)' = Uncounted(s)
  BY <1>4, <1>7, <1>8 DEF Unstored, Uncounted
<1>10. /\ t \in Unstored(s) /\ t \in Uncounted(s)
       /\ t \in TestsOf(s)
  BY <1>0, <1>4 DEF Unstored, Uncounted, JobsInv
<1>11. /\ TestsOf(s)' = TestsOf(s) /\ SubtasksOf(s)' = SubtasksOf(s)
       /\ test_results'[<<s, t>>] = "Testing"
       /\ \A q \in TestsOf(s) : q # t => test_results'[<<s, q>>] = test_results[<<s, q>>]
  BY <1>1, <1>3, <1>5, <1>10
  DEF TestsOf, SubtasksOf, get_tests_for_submission, get_subtasks_for_submission, Update
<1>12. task[s].pc = "dispatch" /\ s \in DOMAIN submissions
  BY <1>0, <1>4 DEF JobsInv, RowsInv
<1>13. RowsInv(s)' /\ StageInv(s)'
  BY <1>0, <1>5, <1>11, <1>12 DEF RowsInv, StageInv, Judged
<1>14. JobsInv(s)'
  <2>1. \A v \in Workers : On(v, s) => TestOf(v) # t
    BY <1>0, <1>4 DEF JobsInv
  <2>2. \A v \in Workers : On(v, s)' =>
           /\ task'[s].pc = "dispatch"
           /\ TestOf(v)' \in TestsOf(s)'
           /\ TestOf(v)' \notin Handing(s)' \cup Pooled(s)'
    BY <1>0, <1>4, <1>5, <1>6, <1>7, <1>10, <1>11, <1>12 DEF JobsInv
  <2>3. \A u, v \in Workers :
           On(u, s)' /\ On(v, s)' /\ TestOf(u)' = TestOf(v)' => u = v
    BY <1>0, <1>6, <2>1 DEF JobsInv
  <2> QED BY <1>0, <1>5, <1>7, <1>11, <1>12, <2>2, <2>3 DEF JobsInv
<1>15. ResultsInv(s)'
  BY <1>0, <1>2, <1>5, <1>6, <1>9, <1>10, <1>11, <1>12 DEF ResultsInv, Unfinished
<1>16. CountInv(s)'
  BY <1>0, <1>2, <1>5, <1>6, <1>9, <1>10, <1>11, <1>12 DEF CountInv, Finalising
<1>17. FilesInv(s)'
  BY <1>0, <1>5, <1>9 DEF FilesInv
<1>18. VerdictInv(s)'
  <2>1. ~Settled(s)
    BY <1>10 DEF Settled
  <2>2. /\ ~Judged(s)'
        /\ \A g \in SubtasksOf(s)' : subtask_results'[<<s, g>>].points = 0
    BY <1>5, <1>11, <2>1, Unsettled DEF Judged
  <2>3. \A v \in Workers : On(v, s)' =>
           /\ worker'[v].pc \notin Finalising
           /\ worker'[v].result = "Accepted" /\ worker'[v].points = 0
    BY <1>2, <1>6, <1>10, FreshWorkers DEF Finalising
  <2> QED BY <2>2, <2>3
          DEF VerdictInv, PublishedInv, PointsInv, WorkingInv, Finalising, AfterVerdict
<1> QED BY <1>13, <1>14, <1>15, <1>16, <1>17, <1>18 DEF LocalInv

\* A busy worker's step that leaves tasks, pool and rows in place keeps where
\* the jobs are.
LEMMA OwnJobsStay ==
    ASSUME NEW s \in Submissions, SubmissionInv(s), NEW w \in Workers, On(w, s), Moves(w),
           task' = task, pool' = pool, problem' = problem,
           DOMAIN submissions' = DOMAIN submissions,
           DOMAIN test_results' = DOMAIN test_results,
           DOMAIN subtask_results' = DOMAIN subtask_results
    PROVE  /\ TestsOf(s)' = TestsOf(s) /\ SubtasksOf(s)' = SubtasksOf(s)
           /\ Handing(s)' = Handing(s) /\ Pooled(s)' = Pooled(s)
           /\ task[s].pc = "dispatch" /\ s \in DOMAIN submissions
           /\ TestsOf(s) = problem.tests /\ SubtasksOf(s) = problem.subtasks
           /\ RowsInv(s)' /\ JobsInv(s)'
           /\ TestOf(w) \in TestsOf(s) /\ TestOf(w) \notin Handing(s) \cup Pooled(s)
<1>0. RowsInv(s) /\ JobsInv(s)
  BY PartsOf
<1>1. /\ TestsOf(s)' = TestsOf(s) /\ SubtasksOf(s)' = SubtasksOf(s)
      /\ Handing(s)' = Handing(s) /\ Pooled(s)' = Pooled(s)
  BY DEF TestsOf, SubtasksOf, get_tests_for_submission, get_subtasks_for_submission,
         Handing, Pooled
<1>2. /\ task[s].pc = "dispatch" /\ s \in DOMAIN submissions
      /\ TestsOf(s) = problem.tests /\ SubtasksOf(s) = problem.subtasks
      /\ TestOf(w) \in TestsOf(s) /\ TestOf(w) \notin Handing(s) \cup Pooled(s)
  BY <1>0 DEF JobsInv, RowsInv
<1>3. RowsInv(s)'
  BY <1>0, <1>1, <1>2 DEF RowsInv
<1>4. JobsInv(s)'
  BY <1>0, <1>1, <1>2, WorkerViews DEF JobsInv
<1> QED BY <1>1, <1>2, <1>3, <1>4

\* Executing, storing and counting a test.
LEMMA OwnTestStep ==
    ASSUME TInv', NEW w \in Workers, NEW s \in Submissions, SubmissionInv(s), On(w, s),
           ExecuteTest(w) \/ StoreResult(w) \/ CountTest(w)
    PROVE  LocalInv(s)'
<1>0. /\ TInv /\ WorkerOK /\ worker[w] \in WorkerRecord
      /\ StageInv(s) /\ ResultsInv(s) /\ CountInv(s) /\ FilesInv(s) /\ VerdictInv(s)
  BY PartsOf DEF WorkerOK
<1>a. Moves(w)
  BY <1>0, BusyMoves DEF WorkerStep, On, Busy
<1>b. /\ task' = task /\ pool' = pool /\ problem' = problem
      /\ executables' = executables /\ subtask_results' = subtask_results
      /\ DOMAIN submissions' = DOMAIN submissions
      /\ DOMAIN test_results' = DOMAIN test_results
      /\ worker[w].pc \in {"execute", "store", "count"}
  BY DEF ExecuteTest, StoreResult, CountTest, database, Update
<1>c. /\ TestsOf(s)' = TestsOf(s) /\ SubtasksOf(s)' = SubtasksOf(s)
      /\ Handing(s)' = Handing(s) /\ Pooled(s)' = Pooled(s)
      /\ task[s].pc = "dispatch" /\ s \in DOMAIN submissions
      /\ RowsInv(s)' /\ JobsInv(s)'
      /\ TestOf(w) \in TestsOf(s) /\ TestOf(w) \notin Handing(s) \cup Pooled(s)
  BY <1>a, <1>b, OwnJobsStay
<1>d. worker[w].job = <<s, TestOf(w)>> /\ TestOf(w) \in Tests
  BY <1>0, WorkerRecordFacts DEF On, Busy, GoodWorker, SubmissionOf, TestOf
<1>e. TestOf(w) \in Uncounted(s)
  BY <1>b, <1>d DEF Uncounted, With
<1>f. /\ worker'[w].pc = CASE worker[w].pc = "execute" -> "store"
                           [] worker[w].pc = "store" -> "count"
                           [] worker[w].pc = "count" -> "read_tests_done"
      /\ worker'[w].result = worker[w].result /\ worker'[w].points = worker[w].points
  <2>1. CASE ExecuteTest(w)
    <3>1. PICK v : worker' = [worker EXCEPT ![w] = [worker[w] EXCEPT !.pc = "store", !.verdict = v]]
      BY <2>1 DEF ExecuteTest
    <3>2. worker'[w] = [worker[w] EXCEPT !.pc = "store", !.verdict = v]
      BY <1>0, <3>1 DEF WorkerOK
    <3> QED BY <1>0, <2>1, <3>2 DEF WorkerRecord, ExecuteTest
  <2>2. CASE StoreResult(w)
    BY <1>0, <2>2 DEF StoreResult, WorkerOK, WorkerRecord
  <2>3. CASE CountTest(w)
    BY <1>0, <2>3 DEF CountTest, At, WorkerOK, WorkerRecord
  <2> QED BY <2>1, <2>2, <2>3
<1>g. /\ submissions'[s].result = submissions[s].result
      /\ submissions'[s].tests_done =
            IF worker[w].pc = "count" THEN submissions[s].tests_done + 1
                                      ELSE submissions[s].tests_done
      /\ submissions[s].tests_done \in Nat
  <2>1. submissions[s] \in SubmissionRow
    BY <1>0, <1>c DEF TInv, DatabaseOK, SubmissionsOK, IsTable
  <2>2. CASE ExecuteTest(w) \/ StoreResult(w)
    BY <2>1, <2>2 DEF ExecuteTest, StoreResult, database, SubmissionRow
  <2>3. CASE CountTest(w)
    BY <1>c, <2>1, <2>3 DEF CountTest, SubmissionRow, On
  <2> QED BY <2>2, <2>3
<1>h. /\ \A t \in TestsOf(s) : t # TestOf(w) \/ worker[w].pc # "store" =>
            test_results'[<<s, t>>] = test_results[<<s, t>>]
      /\ worker[w].pc = "store" =>
            test_results'[<<s, TestOf(w)>>] = worker[w].verdict
  <2>1. CASE ExecuteTest(w) \/ CountTest(w)
    BY <2>1 DEF ExecuteTest, CountTest, database
  <2>2. CASE StoreResult(w)
    <3>1. /\ worker[w].pc = "store"
          /\ test_results' = Update(test_results, <<s, TestOf(w)>>, worker[w].verdict)
      BY <1>d, <2>2 DEF StoreResult
    <3>2. \A t \in TestsOf(s) : <<s, t>> \in DOMAIN test_results
      BY DEF TestsOf, get_tests_for_submission
    <3> QED BY <1>c, <3>1, <3>2 DEF Update
  <2> QED BY <2>1, <2>2
<1>1. Judged(s)' <=> Judged(s)
  BY <1>b, <1>g DEF Judged
<1>2. StageInv(s)'
  BY <1>0, <1>1, <1>b, <1>c, <1>g DEF StageInv
<1>3. /\ Unstored(s)' = IF worker[w].pc = "store" THEN Unstored(s) \ {TestOf(w)}
                                                  ELSE Unstored(s)
      /\ Uncounted(s)' = IF worker[w].pc = "count" THEN Uncounted(s) \ {TestOf(w)}
                                                   ELSE Uncounted(s)
  <2> DEFINE E == {"execute", "store"}
             C == {"execute", "store", "count"}
  <2>1. /\ With(s, E)' = IF worker'[w].pc \in E THEN With(s, E) \cup {TestOf(w)}
                                                ELSE With(s, E) \ {TestOf(w)}
        /\ With(s, C)' = IF worker'[w].pc \in C THEN With(s, C) \cup {TestOf(w)}
                                                ELSE With(s, C) \ {TestOf(w)}
    BY <1>a, WorkerViews
  <2>2. /\ worker[w].pc \in E => TestOf(w) \in With(s, E)
        /\ worker[w].pc \in C => TestOf(w) \in With(s, C)
    BY <1>d DEF With
  <2>3. worker[w].pc = "count" => TestOf(w) \notin With(s, E)
    <3> SUFFICES ASSUME worker[w].pc = "count",
                        NEW v \in Workers, worker[v].pc \in E,
                        worker[v].job = <<s, TestOf(w)>>
                 PROVE  FALSE
      BY DEF With
    <3>1. On(v, s) /\ TestOf(v) = TestOf(w)
      BY DEF On, Busy, SubmissionOf, TestOf
    <3> QED BY <3>1, PartsOf DEF JobsInv
  <2> HIDE DEF E, C
  <2>4. CASE worker[w].pc = "execute"
    BY <1>c, <1>f, <2>1, <2>2, <2>4 DEF Unstored, Uncounted, E, C
  <2>5. CASE worker[w].pc = "store"
    BY <1>c, <1>f, <2>1, <2>2, <2>5 DEF Unstored, Uncounted, E, C
  <2>6. CASE worker[w].pc = "count"
    BY <1>c, <1>f, <2>1, <2>2, <2>3, <2>6 DEF Unstored, Uncounted, E, C
  <2> QED BY <1>b, <2>4, <2>5, <2>6
<1>4. ResultsInv(s)'
  <2>1. \A t \in TestsOf(s) :
           (test_results'[<<s, t>>] \in Unfinished) <=> (t \in Unstored(s)')
    BY <1>0, <1>c, <1>h, <1>3 DEF ResultsInv
  <2>2. \A v \in Workers : On(v, s)' /\ worker'[v].pc = "store" =>
           worker'[v].verdict \notin Unfinished \cup {"CompilationError"}
    <3> SUFFICES ASSUME NEW v \in Workers, On(v, s)', worker'[v].pc = "store"
                 PROVE  worker'[v].verdict \notin Unfinished \cup {"CompilationError"}
      OBVIOUS
    <3>1. CASE v # w
      BY <1>0, <1>a, <3>1, WorkerViews DEF ResultsInv, Moves
    <3>2. CASE v = w
      <4>1. ExecuteTest(w)
        BY <1>b, <1>f, <3>2 DEF ExecuteTest, StoreResult, CountTest
      <4>2. PICK x \in Verdicts \cup {"InternalError"} :
               worker' = [worker EXCEPT ![w] = [worker[w] EXCEPT !.pc = "store", !.verdict = x]]
        BY <4>1 DEF ExecuteTest
      <4>3. worker'[w].verdict = x
        BY <1>0, <4>2 DEF WorkerOK, WorkerRecord
      <4> QED BY <3>2, <4>3, VerdictsAssumption DEF Unfinished
    <3> QED BY <3>1, <3>2
  <2>3. \A t \in TestsOf(s) : test_results'[<<s, t>>] # "CompilationError"
    BY <1>0, <1>h DEF ResultsInv
  <2> QED BY <1>b, <1>c, <2>1, <2>2, <2>3 DEF ResultsInv
<1>5. CountInv(s)'
  <2>1. submissions'[s].tests_done + Cardinality(Uncounted(s)') = Cardinality(TestsOf(s))
    <3>1. submissions[s].tests_done + Cardinality(Uncounted(s)) = Cardinality(TestsOf(s))
      BY <1>0, <1>c DEF CountInv
    <3>2. /\ IsFiniteSet(Uncounted(s)) /\ Cardinality(Uncounted(s)) \in Nat
          /\ Cardinality(Uncounted(s) \ {TestOf(w)}) = Cardinality(Uncounted(s)) - 1
      BY <1>e, UncountedTests, FS_RemoveElement
    <3> QED BY <1>g, <1>3, <3>1, <3>2
  <2>2. \A v \in Workers : On(v, s)' /\ worker'[v].pc = "compare" =>
           worker'[v].tests_done <= submissions'[s].tests_done
    <3> SUFFICES ASSUME NEW v \in Workers, On(v, s)', worker'[v].pc = "compare"
                 PROVE  worker'[v].tests_done <= submissions'[s].tests_done
      OBVIOUS
    <3>1. v # w
      BY <1>b, <1>f
    <3>2. On(v, s) /\ worker'[v] = worker[v] /\ worker[v].tests_done \in Nat
      BY <1>0, <1>a, <3>1, WorkerViews DEF Moves, WorkerOK, WorkerRecord
    <3>3. worker[v].tests_done <= submissions[s].tests_done
      BY <1>0, <3>2 DEF CountInv
    <3> QED BY <1>g, <3>2, <3>3
  <2>3. \A v \in Workers : On(v, s)' => worker'[v].pc \notin Finalising
    BY <1>a, <1>b, <1>e, <1>f, FreshWorkers, WorkerViews DEF Moves, Finalising
  <2> QED BY <1>b, <1>c, <2>1, <2>2, <2>3 DEF CountInv
<1>6. FilesInv(s)'
  BY <1>0, <1>b, <1>c, <1>3 DEF FilesInv
<1>7. VerdictInv(s)'
  <2>1. ~Settled(s)
    BY <1>e DEF Settled
  <2>2. /\ ~Judged(s)'
        /\ \A g \in SubtasksOf(s)' : subtask_results'[<<s, g>>].points = 0
    BY <1>b, <1>c, <1>1, <2>1, Unsettled
  <2>3. \A v \in Workers : On(v, s)' =>
           /\ worker'[v].pc \notin Finalising
           /\ worker'[v].result = "Accepted" /\ worker'[v].points = 0
    BY <1>a, <1>b, <1>e, <1>f, FreshWorkers, WorkerViews DEF Moves, Finalising
  <2> QED BY <2>2, <2>3
          DEF VerdictInv, PublishedInv, PointsInv, WorkingInv, Finalising, AfterVerdict
<1> QED BY <1>c, <1>2, <1>4, <1>5, <1>6, <1>7 DEF LocalInv

\* From "read_tests_done" on a worker stores and counts nothing.
LEMMA LateFrame ==
    ASSUME NEW s \in Submissions, SubmissionInv(s), NEW w \in Workers, On(w, s), Moves(w),
           task' = task, pool' = pool, problem' = problem, test_results' = test_results,
           DOMAIN submissions' = DOMAIN submissions,
           DOMAIN subtask_results' = DOMAIN subtask_results,
           worker[w].pc \notin {"execute", "store", "count"},
           worker'[w].pc \notin {"execute", "store", "count"}
    PROVE  /\ TestsOf(s)' = TestsOf(s) /\ SubtasksOf(s)' = SubtasksOf(s)
           /\ task[s].pc = "dispatch" /\ s \in DOMAIN submissions
           /\ TestsOf(s) = problem.tests /\ SubtasksOf(s) = problem.subtasks
           /\ Unstored(s)' = Unstored(s) /\ Uncounted(s)' = Uncounted(s)
           /\ Settled(s)' <=> Settled(s)
           /\ \A g : SubtaskVerdict(s, g)' = SubtaskVerdict(s, g)
           /\ \A g : SubtaskPoints(s, g)' = SubtaskPoints(s, g)
           /\ \A S : Passed(s, S)' = Passed(s, S)
           /\ RowsInv(s)' /\ JobsInv(s)' /\ ResultsInv(s)'
<1>0. ProblemInv /\ ResultsInv(s)
  BY PartsOf
<1>1. /\ TestsOf(s)' = TestsOf(s) /\ SubtasksOf(s)' = SubtasksOf(s)
      /\ Handing(s)' = Handing(s) /\ Pooled(s)' = Pooled(s)
      /\ task[s].pc = "dispatch" /\ s \in DOMAIN submissions
      /\ TestsOf(s) = problem.tests /\ SubtasksOf(s) = problem.subtasks
      /\ RowsInv(s)' /\ JobsInv(s)'
  BY OwnJobsStay
<1>2. /\ With(s, {"execute", "store"})' = With(s, {"execute", "store"})
      /\ With(s, {"execute", "store", "count"})' = With(s, {"execute", "store", "count"})
  <2>1. ASSUME NEW P, P \subseteq {"execute", "store", "count"}
        PROVE  With(s, P)' = With(s, P)
    <3>1. \A v \in Workers : worker'[v].pc \in P /\ v # w => worker'[v] = worker[v]
      BY DEF Moves
    <3>2. worker[w].pc \notin P /\ worker'[w].pc \notin P
      BY <2>1
    <3>3. \A v \in Workers, t \in Tests :
             worker'[v].pc \in P /\ worker'[v].job = <<s, t>> <=>
             worker[v].pc \in P /\ worker[v].job = <<s, t>>
      BY <3>2 DEF Moves
    <3> QED BY <3>3 DEF With
  <2> QED BY <2>1
<1>3. Unstored(s)' = Unstored(s) /\ Uncounted(s)' = Uncounted(s)
  BY <1>1, <1>2 DEF Unstored, Uncounted
<1>4. Settled(s)' <=> Settled(s)
  BY <1>1, <1>3 DEF Settled
<1>5. /\ \A g : SubtaskVerdict(s, g)' = SubtaskVerdict(s, g)
      /\ \A g : SubtaskPoints(s, g)' = SubtaskPoints(s, g)
      /\ \A S : Passed(s, S)' = Passed(s, S)
  BY <1>0, <1>1, SameVerdicts
<1>6. ResultsInv(s)'
  <2>1. \A v \in Workers : On(v, s)' /\ worker'[v].pc = "store" =>
           On(v, s) /\ worker'[v] = worker[v]
    BY WorkerViews DEF Moves
  <2> QED BY <1>0, <1>1, <1>3, <2>1 DEF ResultsInv
<1> QED BY <1>1, <1>3, <1>4, <1>5, <1>6

\* A step that reads the rows of s and changes only the worker.
LEMMA LateRead ==
    ASSUME TInv', NEW s \in Submissions, SubmissionInv(s), NEW w \in Workers, On(w, s), Moves(w),
           task' = task, pool' = pool, problem' = problem, test_results' = test_results,
           submissions' = submissions, subtask_results' = subtask_results,
           Uncounted(s) # {} => s \in executables',
           worker[w].pc \notin {"execute", "store", "count"},
           worker'[w].pc \notin {"execute", "store", "count"},
           worker'[w].pc = "compare" => worker'[w].tests_done <= submissions[s].tests_done,
           worker'[w].pc \in Finalising => Uncounted(s) = {},
           worker'[w].pc # "idle" => WorkingInv(w, s)'
    PROVE  LocalInv(s)'
<1>0. /\ TInv /\ StageInv(s) /\ CountInv(s) /\ FilesInv(s) /\ VerdictInv(s)
      /\ PublishedInv(s) /\ PointsInv(s)
  BY PartsOf
<1>1. /\ TestsOf(s)' = TestsOf(s) /\ SubtasksOf(s)' = SubtasksOf(s)
      /\ task[s].pc = "dispatch" /\ s \in DOMAIN submissions
      /\ Unstored(s)' = Unstored(s) /\ Uncounted(s)' = Uncounted(s)
      /\ Settled(s)' <=> Settled(s)
      /\ \A g : SubtaskVerdict(s, g)' = SubtaskVerdict(s, g)
      /\ \A g : SubtaskPoints(s, g)' = SubtaskPoints(s, g)
      /\ \A S : Passed(s, S)' = Passed(s, S)
      /\ RowsInv(s)' /\ JobsInv(s)' /\ ResultsInv(s)'
  BY LateFrame
<1>2. \A v \in Workers : On(v, s)' => v = w \/ (On(v, s) /\ worker'[v] = worker[v])
  BY WorkerViews DEF Moves
<1>3. Judged(s)' <=> Judged(s)
  BY DEF Judged
<1>4. StageInv(s)'
  BY <1>0, <1>1, <1>3 DEF StageInv
<1>5. CountInv(s)'
  BY <1>0, <1>1, <1>2 DEF CountInv
<1>6. FilesInv(s)'
  BY <1>1 DEF FilesInv
<1>7. VerdictInv(s)'
  <2>1. PublishedInv(s)'
    BY <1>0, <1>1, <1>3 DEF PublishedInv, Accumulated, Reduced
  <2>2. PointsInv(s)'
    BY <1>0, <1>1 DEF PointsInv
  <2>3. ASSUME NEW v \in Workers, On(v, s)' PROVE WorkingInv(v, s)'
    <3>1. CASE v = w
      BY <2>3, <3>1 DEF On, Busy
    <3>2. CASE v # w
      <4>1. On(v, s) /\ worker'[v] = worker[v] /\ WorkingInv(v, s)
        BY <1>0, <1>2, <2>3, <3>2 DEF VerdictInv
      <4>2. /\ \A S, x, y : Accumulated(s, S, x, y)' <=> Accumulated(s, S, x, y)
            /\ \A S : Reduced(s, S)' <=> Reduced(s, S)
        BY <1>1, <3>2, <4>1 DEF Accumulated, Reduced
      <4> QED BY <1>1, <1>3, <4>1, <4>2, SMTT(30) DEF WorkingInv
    <3> QED BY <3>1, <3>2
  <2> QED BY <2>1, <2>2, <2>3 DEF VerdictInv
<1> QED BY <1>1, <1>4, <1>5, <1>6, <1>7 DEF LocalInv

LEMMA OwnReadStep ==
    ASSUME TInv', NEW w \in Workers, NEW s \in Submissions, SubmissionInv(s), On(w, s),
           \/ ReadTestsDone(w) \/ CompareTotal(w) \/ SelectSubtaskResults(w)
           \/ SelectSubmissions(w) \/ SelectProblemSubtasks(w) \/ ScoreSubtask(w)
           \/ UpsertScore(w) \/ RemoveExecutable(w)
    PROVE  LocalInv(s)'
<1>0. /\ TInv /\ worker \in [Workers -> WorkerRecord] /\ worker[w] \in WorkerRecord
      /\ RowsInv(s) /\ JobsInv(s) /\ CountInv(s) /\ FilesInv(s) /\ VerdictInv(s)
  BY PartsOf DEF WorkerOK
<1>a. Moves(w)
  BY <1>0, BusyMoves DEF WorkerStep, On, Busy
<1>b. /\ task' = task /\ pool' = pool /\ problem' = problem
      /\ test_results' = test_results /\ submissions' = submissions
      /\ subtask_results' = subtask_results
      /\ worker[w].pc \in {"read_tests_done", "compare"} \cup Finalising
      /\ worker[w].pc = "remove" \/ executables' = executables
  BY DEF ReadTestsDone, CompareTotal, SelectSubtaskResults, SelectSubmissions,
         SelectProblemSubtasks, ScoreSubtask, UpsertScore, RemoveExecutable,
         database, Finalising
<1>c. /\ SubmissionOf(w) = s /\ task[s].pc = "dispatch" /\ s \in DOMAIN submissions
      /\ WorkingInv(w, s)
      /\ worker[w].pc = "compare" => worker[w].tests_done <= submissions[s].tests_done
      /\ worker[w].pc \in Finalising => Uncounted(s) = {}
  BY <1>0 DEF On, JobsInv, RowsInv, CountInv, VerdictInv
<1>d. Uncounted(s) # {} => s \in executables'
  BY <1>0, <1>b, <1>c DEF FilesInv, Finalising
<1>e. Judged(s)' <=> Judged(s)
  BY <1>b DEF Judged
<1>f. SUFFICES /\ worker'[w].pc \in {"idle", "compare"} \cup Finalising
               /\ worker'[w].pc = "compare" =>
                     worker'[w].tests_done <= submissions[s].tests_done
               /\ worker'[w].pc \in Finalising => Uncounted(s) = {}
               /\ worker'[w].pc # "idle" => WorkingInv(w, s)'
  BY <1>a, <1>b, <1>d, LateRead DEF Finalising
<1>0a. ASSUME Return(w)
       PROVE  worker'[w].pc = "idle"
  BY <1>0, <1>0a DEF Return, IdleWorker
<1>1. CASE ReadTestsDone(w)
  <2>1. worker[w].pc = "read_tests_done"
    BY <1>1 DEF ReadTestsDone
  <2>2. worker'[w] = [worker[w] EXCEPT !.pc = "compare",
                                       !.tests_done = submissions[s].tests_done]
    BY <1>0, <1>1, <1>c DEF ReadTestsDone
  <2>3. /\ worker'[w].pc = "compare"
        /\ worker'[w].tests_done = submissions[s].tests_done
        /\ worker'[w].result = worker[w].result /\ worker'[w].points = worker[w].points
    BY <1>0, <2>2 DEF WorkerRecord
  <2>4. submissions[s].tests_done \in Nat
    BY <1>0, <1>c DEF TInv, DatabaseOK, SubmissionsOK, IsTable, SubmissionRow
  <2> QED BY <1>c, <2>1, <2>3, <2>4 DEF WorkingInv, AfterVerdict, Finalising
<1>2. CASE CompareTotal(w)
  <2>1. worker[w].pc = "compare"
    BY <1>2 DEF CompareTotal
  <2>2. CASE ~AllTestsDone(SubmissionOf(w), worker[w].tests_done)
    BY <1>0a, <1>2, <2>2 DEF CompareTotal, Finalising
  <2>3. CASE AllTestsDone(SubmissionOf(w), worker[w].tests_done)
    <3>1. worker'[w] = [worker[w] EXCEPT !.pc = "select_subtasks", !.tests_done = 0]
      BY <1>0, <1>2, <2>3 DEF CompareTotal
    <3>2. /\ worker'[w].pc = "select_subtasks"
          /\ worker'[w].result = worker[w].result /\ worker'[w].points = worker[w].points
      BY <1>0, <3>1 DEF WorkerRecord
    <3>3. worker[w].tests_done = Cardinality(TestsOf(s))
      BY <1>c, <2>3 DEF AllTestsDone, TestsOf
    <3>4. /\ submissions[s].tests_done + Cardinality(Uncounted(s)) = Cardinality(TestsOf(s))
          /\ worker[w].tests_done <= submissions[s].tests_done
          /\ submissions[s].tests_done \in Nat
      BY <1>0, <1>c, <2>1
      DEF CountInv, TInv, DatabaseOK, SubmissionsOK, IsTable, SubmissionRow
    <3>5. Cardinality(Uncounted(s)) = 0
      BY <3>3, <3>4, UncountedTests
    <3>6. Uncounted(s) = {}
      BY <3>5, UncountedTests, FS_EmptySet
    <3> QED BY <1>c, <2>1, <3>2, <3>6 DEF WorkingInv, AfterVerdict, Finalising
  <2> QED BY <2>2, <2>3
<1>3. CASE SelectSubtaskResults(w)
  <2>1. worker[w].pc = "select_subtasks"
    BY <1>3 DEF SelectSubtaskResults
  <2>2. worker'[w] = [worker[w] EXCEPT !.pc = "reduce", !.todo = SubtasksOf(s)]
    BY <1>0, <1>3, <1>c DEF SelectSubtaskResults, SubtasksOf
  <2>3. /\ worker'[w].pc = "reduce" /\ worker'[w].todo = SubtasksOf(s)
        /\ worker'[w].result = "Accepted" /\ worker'[w].points = 0
    BY <1>0, <1>c, <2>1, <2>2 DEF WorkerRecord, WorkingInv
  <2>4. SubtasksOf(s)' = SubtasksOf(s)
    BY <1>b DEF SubtasksOf, get_subtasks_for_submission
  <2>5. SubtasksOf(s) \ SubtasksOf(s) = {}
    OBVIOUS
  <2>6. /\ Worst({}) = "Accepted"
        /\ SumOf(SubtaskScore, {}) = 0
    BY WorstExists, SumEmpty
  <2>7. /\ {SubtaskVerdict(s, g)' : g \in {}} = {}
        /\ Passed(s, {})' = {}
    BY DEF Passed
  <2>8. Accumulated(s, {}, worker[w].result, worker[w].points)'
    BY <2>3, <2>6, <2>7 DEF Accumulated
  <2>9. Reduced(s, {})'
    BY DEF Reduced
  <2> QED BY <1>c, <2>1, <2>3, <2>4, <2>5, <2>8, <2>9 DEF WorkingInv, AfterVerdict, Finalising
<1>4. CASE SelectSubmissions(w)
  <2> DEFINE u == submissions[s].user_id
  <2>1. /\ worker[w].pc = "select_submissions"
        /\ worker'[w] = [worker[w] EXCEPT !.pc = "select_problem_subtasks", !.user = u,
                             !.mine = get_submissions_by_user_for_problem(u)]
    BY <1>0, <1>4, <1>c DEF SelectSubmissions
  <2>2. worker'[w].pc = "select_problem_subtasks"
    BY <1>0, <2>1 DEF WorkerRecord
  <2> QED BY <1>c, <1>e, <2>1, <2>2 DEF WorkingInv, AfterVerdict, Finalising
<1>5. CASE SelectProblemSubtasks(w)
  <2>1. worker[w].pc = "select_problem_subtasks" /\ worker'[w].pc = "score"
    BY <1>0, <1>5 DEF SelectProblemSubtasks, WorkerRecord
  <2> QED BY <1>c, <1>e, <2>1 DEF WorkingInv, AfterVerdict, Finalising
<1>6. CASE ScoreSubtask(w)
  <2>1. PICK todo, score :
           worker' = [worker EXCEPT ![w] = [worker[w] EXCEPT !.todo = todo, !.score = score]]
    BY <1>6 DEF ScoreSubtask
  <2>2. worker'[w] = [worker[w] EXCEPT !.todo = todo, !.score = score]
    BY <1>0, <2>1
  <2>3. worker[w].pc = "score" /\ worker'[w].pc = "score"
    BY <1>0, <1>6, <2>2 DEF ScoreSubtask, WorkerRecord
  <2> QED BY <1>c, <1>e, <2>3 DEF WorkingInv, AfterVerdict, Finalising
<1>7. CASE UpsertScore(w)
  <2>1. worker[w].pc = "score" /\ worker'[w].pc = "remove"
    BY <1>0, <1>7 DEF UpsertScore, WorkerRecord
  <2> QED BY <1>c, <1>e, <2>1 DEF WorkingInv, AfterVerdict, Finalising
<1>8. CASE RemoveExecutable(w)
  BY <1>0a, <1>8 DEF RemoveExecutable, Finalising
<1> QED BY <1>1, <1>2, <1>3, <1>4, <1>5, <1>6, <1>7, <1>8

\* Verdicts made of finished results are finished.
Final == TestingResult \ (Unfinished \cup {"CompilationError"})

LEMMA WorstIsFinal ==
    ASSUME NEW S \in SUBSET Final PROVE Worst(S) \in Final
BY WorstExists DEF Final, TestingResult, Unfinished

LEMMA SettledVerdicts ==
    ASSUME NEW s \in Submissions, SubmissionInv(s), Settled(s)
    PROVE  /\ \A t \in TestsOf(s) : test_results[<<s, t>>] \in Final
           /\ \A g : SubtaskVerdict(s, g) \in Final
           /\ \A g : get_tests_for_subtask(g) \subseteq TestsOf(s)
           /\ IsFiniteSet(SubtasksOf(s)) /\ SubtasksOf(s) \subseteq Subtasks
<1>0. TInv /\ ProblemInv /\ ResultsInv(s)
  BY PartsOf
<1>1. \A t \in TestsOf(s) : test_results[<<s, t>>] \in Final
  BY <1>0
  DEF Final, Settled, ResultsInv, TestsOf, get_tests_for_submission, TInv,
      DatabaseOK, TestResultsOK, IsTable
<1>2. \A g : get_tests_for_subtask(g) \subseteq TestsOf(s)
  BY <1>0 DEF ProblemInv, get_tests_for_subtask, Settled
<1>3. ASSUME NEW g PROVE SubtaskVerdict(s, g) \in Final
  <2>1. {test_results[<<s, t>>] : t \in get_tests_for_subtask(g)} \in SUBSET Final
    BY <1>1, <1>2
  <2> QED BY <2>1, WorstIsFinal DEF SubtaskVerdict
<1>4. IsFiniteSet(SubtasksOf(s)) /\ SubtasksOf(s) \subseteq Subtasks
  BY <1>0 DEF ProblemInv, Settled, TInv, DatabaseOK, ProblemOK
<1> QED BY <1>1, <1>2, <1>3, <1>4

\* The accumulators after one more subtask.
LEMMA AccumulateOne ==
    ASSUME NEW s, \A h : SubtaskVerdict(s, h) \in TestingResult,
           NEW S \in SUBSET Subtasks, IsFiniteSet(S), NEW g \in Subtasks, g \notin S,
           NEW result, NEW points, Accumulated(s, S, result, points)
    PROVE  Accumulated(s, S \cup {g},
                       merge_two_testing_results(result, SubtaskVerdict(s, g)),
                       points + SubtaskPoints(s, g))
<1> DEFINE V == {SubtaskVerdict(s, h) : h \in S}
           v == SubtaskVerdict(s, g)
<1>0. V \in SUBSET TestingResult /\ v \in TestingResult
  OBVIOUS
<1>1. merge_two_testing_results(result, v) = Worst({SubtaskVerdict(s, h) : h \in S \cup {g}})
  <2>1. result = Worst(V)
    BY DEF Accumulated
  <2>2. {SubtaskVerdict(s, h) : h \in S \cup {g}} = V \cup {v}
    OBVIOUS
  <2> HIDE DEF V, v
  <2>3. Absorbs(result, V) /\ result \in TestingResult
    BY <1>0, <2>1, WorstExists, WorstIsAVerdict DEF Absorbs
  <2>4. Absorbs(merge_two_testing_results(result, v), V \cup {v})
    BY <1>0, <2>3, AbsorbOne
  <2>5. merge_two_testing_results(result, v) = Worst(V \cup {v})
    BY <1>0, <2>4, AbsorbsIsWorst
  <2> QED BY <2>2, <2>5 DEF v
<1>2. points + SubtaskPoints(s, g) = SumOf(SubtaskScore, Passed(s, S \cup {g}))
  <2>0. points = SumOf(SubtaskScore, Passed(s, S))
    BY DEF Accumulated
  <2>1. /\ IsFiniteSet(Passed(s, S \cup {g})) /\ IsFiniteSet(Passed(s, S))
        /\ Passed(s, S \cup {g}) \subseteq Subtasks /\ Passed(s, S) \subseteq Subtasks
    <3>1. IsFiniteSet(S \cup {g})
      BY FS_AddElement
    <3>2. Passed(s, S \cup {g}) \subseteq S \cup {g} /\ Passed(s, S) \subseteq S
      BY DEF Passed
    <3> QED BY <3>1, <3>2, FS_Subset
  <2>2. \A h \in Subtasks : SubtaskScore[h] \in Nat
    BY ScoreAssumption
  <2>3. CASE v = "Accepted"
    <3>1. g \in Passed(s, S \cup {g}) /\ Passed(s, S \cup {g}) \ {g} = Passed(s, S)
      BY <2>3 DEF Passed
    <3>2. SumOf(SubtaskScore, Passed(s, S \cup {g})) =
              SubtaskScore[g] + SumOf(SubtaskScore, Passed(s, S))
      <4> DEFINE P == Passed(s, S \cup {g})
      <4>1. g \in P /\ IsFiniteSet(P) /\ \A h \in P : SubtaskScore[h] \in Nat
        BY <2>1, <2>2, <3>1
      <4> HIDE DEF P
      <4>2. SumOf(SubtaskScore, P) = SubtaskScore[g] + SumOf(SubtaskScore, P \ {g})
        BY <4>1, SumRemove
      <4> QED BY <3>1, <4>2 DEF P
    <3>3. SumOf(SubtaskScore, Passed(s, S)) \in Nat
      BY <2>1, <2>2, SumRemove
    <3> QED BY <2>0, <2>2, <2>3, <3>2, <3>3 DEF SubtaskPoints
  <2>4. CASE v # "Accepted"
    <3>1. Passed(s, S \cup {g}) = Passed(s, S)
      BY <2>4 DEF Passed
    <3>2. SumOf(SubtaskScore, Passed(s, S)) \in Nat
      BY <2>1, <2>2, SumRemove
    <3> QED BY <2>0, <2>4, <3>1, <3>2 DEF SubtaskPoints
  <2> QED BY <2>3, <2>4
<1> QED BY <1>1, <1>2 DEF Accumulated

LEMMA OwnReduceSubtask ==
    ASSUME TInv', NEW w \in Workers, NEW s \in Submissions, SubmissionInv(s), On(w, s),
           ReduceSubtask(w)
    PROVE  LocalInv(s)'
<1>0. /\ TInv /\ worker \in [Workers -> WorkerRecord] /\ worker[w] \in WorkerRecord
      /\ StageInv(s) /\ CountInv(s) /\ FilesInv(s) /\ VerdictInv(s)
      /\ PublishedInv(s) /\ PointsInv(s)
  BY PartsOf DEF WorkerOK
<1>1. /\ worker[w].pc = "reduce" /\ SubmissionOf(w) = s
      /\ Settled(s) /\ WorkingInv(w, s)
  BY <1>0, FinalisingSettles DEF ReduceSubtask, Finalising, On, VerdictInv
<1> DEFINE v(g) == SubtaskVerdict(s, g)
           row(g) == [result |-> v(g), points |-> SubtaskPoints(s, g)]
<1>2. PICK g \in worker[w].todo :
         /\ subtask_results' = Update(subtask_results, <<s, g>>, row(g))
         /\ worker' = [worker EXCEPT ![w] =
                [worker[w] EXCEPT
                    !.todo = worker[w].todo \ {g},
                    !.result = merge_two_testing_results(worker[w].result, v(g)),
                    !.points = worker[w].points + SubtaskPoints(s, g)]]
  BY <1>1 DEF ReduceSubtask, SubtaskPoints
<1>3. /\ worker'[w].pc = "reduce"
      /\ worker'[w].todo = worker[w].todo \ {g}
      /\ worker'[w].result = merge_two_testing_results(worker[w].result, v(g))
      /\ worker'[w].points = worker[w].points + SubtaskPoints(s, g)
      /\ \A x \in Workers : x # w => worker'[x] = worker[x]
  <2> DEFINE a == merge_two_testing_results(worker[w].result, v(g))
             b == worker[w].points + SubtaskPoints(s, g)
             c == worker[w].todo \ {g}
  <2>1. worker' = [worker EXCEPT ![w] = [worker[w] EXCEPT !.todo = c, !.result = a, !.points = b]]
    BY <1>2
  <2> HIDE DEF a, b, c
  <2>2. worker'[w] = [worker[w] EXCEPT !.todo = c, !.result = a, !.points = b]
    BY <1>0, <2>1
  <2>3. /\ worker'[w].pc = worker[w].pc /\ worker'[w].todo = c
        /\ worker'[w].result = a /\ worker'[w].points = b
    BY <1>0, <2>2 DEF WorkerRecord
  <2> QED BY <1>0, <1>1, <2>1, <2>3 DEF a, b, c
<1>4. /\ task' = task /\ pool' = pool /\ problem' = problem
      /\ test_results' = test_results /\ submissions' = submissions
      /\ executables' = executables
      /\ DOMAIN subtask_results' = DOMAIN subtask_results
      /\ Moves(w)
  BY <1>0, <1>2, BusyMoves DEF ReduceSubtask, WorkerStep, Update, On, Busy
<1>5. /\ TestsOf(s)' = TestsOf(s) /\ SubtasksOf(s)' = SubtasksOf(s)
      /\ task[s].pc = "dispatch" /\ s \in DOMAIN submissions
      /\ Unstored(s)' = Unstored(s) /\ Uncounted(s)' = Uncounted(s)
      /\ Settled(s)' <=> Settled(s)
      /\ \A h : v(h)' = v(h)
      /\ \A h : SubtaskPoints(s, h)' = SubtaskPoints(s, h)
      /\ \A S : Passed(s, S)' = Passed(s, S)
      /\ RowsInv(s)' /\ JobsInv(s)' /\ ResultsInv(s)'
  BY <1>1, <1>3, <1>4, LateFrame
<1>6. /\ g \in SubtasksOf(s) /\ <<s, g>> \in DOMAIN subtask_results
      /\ \A h \in SubtasksOf(s) : <<s, h>> \in DOMAIN subtask_results
  BY <1>1 DEF WorkingInv, SubtasksOf, get_subtasks_for_submission
<1>7. \A h \in SubtasksOf(s) : subtask_results'[<<s, h>>].points =
         IF h = g THEN SubtaskPoints(s, g) ELSE subtask_results[<<s, h>>].points
  BY <1>2, <1>6 DEF Update
<1>8. ASSUME NEW S \in SUBSET SubtasksOf(s), Reduced(s, S \ {g}) PROVE Reduced(s, S)'
  BY <1>5, <1>7, <1>8 DEF Reduced
<1>9. \A x \in Workers : On(x, s)' => On(x, s) /\ (x # w => worker'[x] = worker[x])
  BY <1>4, WorkerViews DEF Moves
<1>10. StageInv(s)'
  BY <1>0, <1>4, <1>5 DEF StageInv, Judged
<1>11. CountInv(s)'
  BY <1>0, <1>1, <1>3, <1>4, <1>5, <1>9 DEF CountInv, Finalising
<1>12. FilesInv(s)'
  BY <1>0, <1>4, <1>5 DEF FilesInv
<1>13. PublishedInv(s)'
  <2> SUFFICES ASSUME Judged(s)'
               PROVE  /\ Accumulated(s, SubtasksOf(s), submissions[s].result, submissions[s].points)'
                      /\ Reduced(s, SubtasksOf(s))'
    BY <1>1, <1>5 DEF PublishedInv
  <2>1. /\ Accumulated(s, SubtasksOf(s), submissions[s].result, submissions[s].points)
        /\ Reduced(s, SubtasksOf(s))
    BY <1>0, <1>4 DEF PublishedInv, Judged
  <2>2. Reduced(s, SubtasksOf(s) \ {g})
    BY <2>1 DEF Reduced
  <2>3. Reduced(s, SubtasksOf(s))'
    BY <1>5, <1>8, <2>2
  <2> QED BY <1>4, <1>5, <2>1, <2>3 DEF Accumulated
<1>14. PointsInv(s)'
  BY <1>0, <1>1, <1>5, <1>7 DEF PointsInv, SubtaskPoints
<1>15. ASSUME NEW x \in Workers, On(x, s)' PROVE WorkingInv(x, s)'
  <2>1. CASE x = w
    <3> DEFINE done == SubtasksOf(s) \ worker[w].todo
    <3>1. /\ worker[w].todo \subseteq SubtasksOf(s)
          /\ Accumulated(s, done, worker[w].result, worker[w].points)
          /\ Reduced(s, done)
      BY <1>1 DEF WorkingInv
    <3>2. SubtasksOf(s) \ worker'[w].todo = done \cup {g} /\ g \notin done
      BY <1>2, <1>3, <1>6
    <3>3. /\ \A h : v(h) \in TestingResult
          /\ done \in SUBSET Subtasks /\ IsFiniteSet(done) /\ g \in Subtasks
      BY <1>1, <1>6, SettledVerdicts, FS_Subset DEF Final
    <3> HIDE DEF done
    <3>4. Accumulated(s, done \cup {g}, worker'[w].result, worker'[w].points)
      BY <1>3, <3>1, <3>2, <3>3, AccumulateOne
    <3>5. {v(h)' : h \in done \cup {g}} = {v(h) : h \in done \cup {g}}
      BY <1>5
    <3>6. Accumulated(s, SubtasksOf(s) \ worker[w].todo, worker[w].result, worker[w].points)'
      BY <1>5, <3>2, <3>4, <3>5 DEF Accumulated
    <3>7. (done \cup {g}) \ {g} = done
      BY <3>2
    <3>8. Reduced(s, SubtasksOf(s) \ worker[w].todo)'
      BY <1>5, <1>6, <1>8, <3>1, <3>2, <3>7 DEF done
    <3>9. (worker[w].todo \subseteq SubtasksOf(s))'
      BY <1>3, <1>5, <3>1
    <3> QED BY <1>3, <2>1, <3>6, <3>8, <3>9 DEF WorkingInv, AfterVerdict
  <2>2. CASE x # w
    <3>1. On(x, s) /\ worker'[x] = worker[x] /\ WorkingInv(x, s)
      BY <1>0, <1>9, <1>15, <2>2 DEF VerdictInv
    <3>2. Judged(s)' <=> Judged(s)
      BY <1>4 DEF Judged
    <3>3. CASE worker[x].pc = "reduce"
      <4> DEFINE done == SubtasksOf(s) \ worker[x].todo
      <4>1. /\ worker[x].todo \subseteq SubtasksOf(s)
            /\ Accumulated(s, done, worker[x].result, worker[x].points)
            /\ Reduced(s, done)
        BY <3>1, <3>3 DEF WorkingInv
      <4>2. Reduced(s, done \ {g})
        BY <4>1 DEF Reduced
      <4>3. Reduced(s, SubtasksOf(s) \ worker[x].todo)'
        BY <1>5, <1>8, <3>1, <4>2
      <4>4. Accumulated(s, SubtasksOf(s) \ worker[x].todo, worker[x].result, worker[x].points)'
        BY <1>5, <3>1, <4>1 DEF Accumulated
      <4> QED BY <1>5, <3>1, <3>3, <4>1, <4>3, <4>4 DEF WorkingInv, AfterVerdict
    <3>4. CASE worker[x].pc # "reduce"
      BY <3>1, <3>2, <3>4 DEF WorkingInv
    <3> QED BY <3>3, <3>4
  <2> QED BY <2>1, <2>2
<1> QED BY <1>5, <1>10, <1>11, <1>12, <1>13, <1>14, <1>15 DEF LocalInv, VerdictInv

LEMMA OwnWriteVerdict ==
    ASSUME TInv', NEW w \in Workers, NEW s \in Submissions, SubmissionInv(s), On(w, s),
           WriteVerdict(w)
    PROVE  LocalInv(s)'
<1>0. /\ TInv /\ worker \in [Workers -> WorkerRecord] /\ worker[w] \in WorkerRecord
      /\ StageInv(s) /\ CountInv(s) /\ FilesInv(s) /\ VerdictInv(s)
      /\ PublishedInv(s) /\ PointsInv(s)
  BY PartsOf DEF WorkerOK
<1>1. /\ worker[w].pc = "reduce" /\ worker[w].todo = {} /\ SubmissionOf(w) = s
      /\ Settled(s) /\ WorkingInv(w, s)
  BY <1>0, FinalisingSettles DEF WriteVerdict, Finalising, On, VerdictInv
<1>2. /\ task' = task /\ pool' = pool /\ problem' = problem
      /\ test_results' = test_results /\ subtask_results' = subtask_results
      /\ executables' = executables
      /\ DOMAIN submissions' = DOMAIN submissions
      /\ Moves(w)
      /\ worker'[w].pc = "select_submissions"
  BY <1>0, BusyMoves DEF WriteVerdict, WorkerStep, On, Busy, WorkerRecord
<1>3. /\ TestsOf(s)' = TestsOf(s) /\ SubtasksOf(s)' = SubtasksOf(s)
      /\ task[s].pc = "dispatch" /\ s \in DOMAIN submissions
      /\ Unstored(s)' = Unstored(s) /\ Uncounted(s)' = Uncounted(s)
      /\ Settled(s)' <=> Settled(s)
      /\ \A g : SubtaskVerdict(s, g)' = SubtaskVerdict(s, g)
      /\ \A g : SubtaskPoints(s, g)' = SubtaskPoints(s, g)
      /\ \A S : Passed(s, S)' = Passed(s, S)
      /\ RowsInv(s)' /\ JobsInv(s)' /\ ResultsInv(s)'
  BY <1>1, <1>2, LateFrame
<1>4. /\ submissions'[s].result = worker[w].result
      /\ submissions'[s].points = worker[w].points
      /\ submissions'[s].tests_done = submissions[s].tests_done
  <2>1. submissions'[s] = [submissions[s] EXCEPT !.result = worker[w].result,
                                                !.points = worker[w].points]
    BY <1>1, <1>3 DEF WriteVerdict, Published
  <2>2. submissions[s] \in SubmissionRow
    BY <1>0, <1>3 DEF TInv, DatabaseOK, SubmissionsOK, IsTable
  <2> QED BY <2>1, <2>2 DEF SubmissionRow
<1>5. /\ Accumulated(s, SubtasksOf(s), worker[w].result, worker[w].points)
      /\ Reduced(s, SubtasksOf(s))
  <2>1. SubtasksOf(s) \ worker[w].todo = SubtasksOf(s)
    BY <1>1
  <2> QED BY <1>1, <2>1 DEF WorkingInv
<1>6. Judged(s)'
  <2>1. {SubtaskVerdict(s, g) : g \in SubtasksOf(s)} \in SUBSET Final
    BY <1>1, SettledVerdicts
  <2>2. worker[w].result \in Final
    BY <1>5, <2>1, WorstIsFinal DEF Accumulated
  <2> QED BY <1>2, <1>3, <1>4, <2>2 DEF Judged, Final
<1>7. \A x \in Workers : On(x, s)' => On(x, s) /\ (x # w => worker'[x] = worker[x])
  BY <1>2, WorkerViews DEF Moves
<1>8. StageInv(s)'
  BY <1>2, <1>3, <1>6 DEF StageInv
<1>9. CountInv(s)'
  BY <1>0, <1>1, <1>2, <1>3, <1>4, <1>7 DEF CountInv, Finalising
<1>10. FilesInv(s)'
  BY <1>0, <1>2, <1>3 DEF FilesInv
<1>11. PublishedInv(s)'
  <2>1. {SubtaskVerdict(s, g)' : g \in SubtasksOf(s)} = {SubtaskVerdict(s, g) : g \in SubtasksOf(s)}
    BY <1>3
  <2>2. Accumulated(s, SubtasksOf(s), submissions[s].result, submissions[s].points)'
    BY <1>3, <1>4, <1>5, <2>1 DEF Accumulated
  <2>3. Reduced(s, SubtasksOf(s))'
    BY <1>2, <1>3, <1>5 DEF Reduced
  <2> QED BY <1>1, <1>3, <2>2, <2>3 DEF PublishedInv
<1>12. PointsInv(s)'
  BY <1>0, <1>2, <1>3 DEF PointsInv
<1>13. ASSUME NEW x \in Workers, On(x, s)' PROVE WorkingInv(x, s)'
  <2>1. CASE x = w
    BY <1>2, <1>6, <2>1 DEF WorkingInv, AfterVerdict
  <2>2. CASE x # w
    <3>1. On(x, s) /\ worker'[x] = worker[x] /\ WorkingInv(x, s)
      BY <1>0, <1>7, <1>13, <2>2 DEF VerdictInv
    <3>2. CASE worker[x].pc = "reduce"
      <4> DEFINE done == SubtasksOf(s) \ worker[x].todo
      <4>1. /\ worker[x].todo \subseteq SubtasksOf(s)
            /\ Accumulated(s, done, worker[x].result, worker[x].points)
            /\ Reduced(s, done)
        BY <3>1, <3>2 DEF WorkingInv
      <4>2. Accumulated(s, SubtasksOf(s) \ worker[x].todo, worker[x].result, worker[x].points)'
        BY <1>3, <3>1, <4>1 DEF Accumulated
      <4>3. Reduced(s, SubtasksOf(s) \ worker[x].todo)'
        BY <1>2, <1>3, <3>1, <4>1 DEF Reduced
      <4> QED BY <1>3, <3>1, <3>2, <4>1, <4>2, <4>3 DEF WorkingInv, AfterVerdict
    <3>3. CASE worker[x].pc # "reduce"
      BY <1>6, <3>1, <3>3 DEF WorkingInv
    <3> QED BY <3>2, <3>3
  <2> QED BY <2>1, <2>2
<1> QED BY <1>3, <1>8, <1>9, <1>10, <1>11, <1>12, <1>13 DEF LocalInv, VerdictInv

-----------------------------------------------------------------------------
(***************************************************************************)
(* A restart, the initial states and the theorem.                          *)
(***************************************************************************)
LEMMA RestartLocal ==
    ASSUME TInv', Restart, NEW s \in Submissions, SubmissionInv(s)
    PROVE  LocalInv(s)'
<1>0. /\ TInv /\ TaskOK /\ ProblemInv
      /\ RowsInv(s) /\ ResultsInv(s) /\ VerdictInv(s)
      /\ PublishedInv(s) /\ PointsInv(s)
  BY PartsOf
<1>1. /\ pool' = {} /\ problem' = problem /\ test_results' = test_results
      /\ submissions' = submissions /\ subtask_results' = subtask_results
      /\ executables' = executables
      /\ task'[s].pc = IF task[s] = NoTask THEN "none" ELSE "stopped"
      /\ task'[s].todo = {}
  BY DEF Restart, database, NoTask
<1>2. \A w \in Workers : ~On(w, s)'
  <2>1. PICK W \in SUBSET Workers : worker' = Spawned(W)
    BY DEF Restart
  <2>2. \A w \in Workers : worker'[w].pc \in {"idle", "off"}
    BY <2>1 DEF Spawned, NoWorker, IdleWorker
  <2> QED BY <2>2 DEF On, Busy
<1>3. /\ TestsOf(s)' = TestsOf(s) /\ SubtasksOf(s)' = SubtasksOf(s)
      /\ Handing(s)' = {} /\ Pooled(s)' = {}
      /\ Judged(s)' <=> Judged(s)
  BY <1>1
  DEF TestsOf, SubtasksOf, get_tests_for_submission, get_subtasks_for_submission,
      Handing, Pooled, Judged
<1>4. Uncounted(s)' = {}
  BY <1>2, <1>3 DEF Uncounted, With, On, Busy, SubmissionOf
<1>5. task[s] = NoTask <=> task[s].pc = "none"
  BY <1>0 DEF RowsInv, NoTask, TaskOK, TaskRecord
<1>6. RowsInv(s)' /\ StageInv(s)'
  BY <1>0, <1>1, <1>3, <1>5 DEF RowsInv, StageInv
<1>7. JobsInv(s)' /\ ResultsInv(s)' /\ CountInv(s)' /\ FilesInv(s)'
  BY <1>0, <1>1, <1>2, <1>3, <1>4 DEF JobsInv, ResultsInv, CountInv, FilesInv
<1>8. Settled(s) =>
         /\ Settled(s)'
         /\ \A g : SubtaskVerdict(s, g)' = SubtaskVerdict(s, g)
         /\ \A g : SubtaskPoints(s, g)' = SubtaskPoints(s, g)
         /\ \A S : Passed(s, S)' = Passed(s, S)
  <2>1. Settled(s) => Settled(s)'
    BY <1>1, <1>3, <1>4, <1>5 DEF Settled
  <2> QED BY <1>0, <1>1, <2>1, SameVerdicts DEF Settled
<1>9. PublishedInv(s)'
  BY <1>0, <1>1, <1>3, <1>8 DEF PublishedInv, Accumulated, Reduced
<1>10. PointsInv(s)'
  BY <1>0, <1>1, <1>3, <1>8 DEF PointsInv
<1> QED BY <1>2, <1>6, <1>7, <1>9, <1>10 DEF LocalInv, VerdictInv

LEMMA JInvInit == Init => JInv
<1> SUFFICES ASSUME Init PROVE JInv
  OBVIOUS
<1>1. TInv
  BY TInvInit
<1>2. PoolInv /\ problem \in Problems
  BY DEF Init, PoolInv
<1>3. ASSUME NEW s \in Submissions PROVE LocalInv(s)
  <2>1. /\ task[s].pc = "none" /\ task[s].todo = {} /\ s \notin DOMAIN submissions
        /\ TestsOf(s) = {} /\ SubtasksOf(s) = {} /\ Handing(s) = {} /\ Pooled(s) = {}
        /\ ~Judged(s)
    BY DEF Init, NoTask, EmptyTable, TestsOf, SubtasksOf, get_tests_for_submission,
           get_subtasks_for_submission, Handing, Pooled, Judged
  <2>2. \A w \in Workers : ~On(w, s)
    BY DEF Init, Spawned, NoWorker, IdleWorker, On, Busy
  <2>3. Uncounted(s) = {}
    BY <2>1, <2>2 DEF Uncounted, With, On, Busy, SubmissionOf
  <2>4. RowsInv(s) /\ StageInv(s) /\ JobsInv(s) /\ ResultsInv(s) /\ CountInv(s) /\ FilesInv(s)
    BY <2>1, <2>2, <2>3 DEF RowsInv, StageInv, JobsInv, ResultsInv, CountInv, FilesInv
  <2>5. VerdictInv(s)
    BY <2>1, <2>2 DEF VerdictInv, PublishedInv, PointsInv
  <2> QED BY <2>4, <2>5 DEF LocalInv
<1> QED BY <1>1, <1>2, <1>3 DEF JInv

LEMMA PoolStep ==
    ASSUME TInv, PoolInv, JudgeNext PROVE PoolInv' /\ problem' = problem
<1>0. WorkerOK
  BY DEF TInv
<1>1. ASSUME NEW s \in Submissions, SubmissionStep(s)
      PROVE  PoolInv' /\ problem' = problem
  BY <1>0, <1>1
  DEF SubmissionStep, HandlerStep, TaskStep, AddSubmission, SelectSubtasks,
      InsertSubtaskResult, SelectTests, InsertTestResult, Spawn, HandlerDropped,
      StartCompiling, CompileFails, CompileSucceeds, SelectJobs, HandOver,
      DispatchFails, database, PoolInv, RunningWorkers
<1>2. ASSUME NEW w \in Workers, WorkerStep(w)
      PROVE  PoolInv' /\ problem' = problem
  <2>1. problem' = problem /\ pool' \subseteq pool
    BY <1>2
    DEF WorkerStep, TakeJob, ExecuteTest, StoreResult, CountTest, ReadTestsDone,
        CompareTotal, SelectSubtaskResults, ReduceSubtask, WriteVerdict,
        SelectSubmissions, SelectProblemSubtasks, ScoreSubtask, UpsertScore,
        RemoveExecutable, database
  <2>2. \A v \in Workers : v # w => worker'[v] = worker[v]
    BY <1>0, <1>2, OthersStay
  <2>3. worker[w].pc # "off"
    BY <1>2
    DEF WorkerStep, TakeJob, ExecuteTest, StoreResult, CountTest, ReadTestsDone,
        CompareTotal, SelectSubtaskResults, ReduceSubtask, WriteVerdict,
        SelectSubmissions, SelectProblemSubtasks, ScoreSubtask, UpsertScore,
        RemoveExecutable
  <2>4. worker'[w].pc # "off"
    <3>1. CASE TakeJob(w)
      BY <1>0, <3>1 DEF TakeJob, WorkerOK, IdleWorker
    <3>2. CASE ~TakeJob(w)
      <4>1. worker[w].pc # "idle"
        BY <1>2, <3>2
        DEF WorkerStep, ExecuteTest, StoreResult, CountTest, ReadTestsDone,
            CompareTotal, SelectSubtaskResults, ReduceSubtask, WriteVerdict,
            SelectSubmissions, SelectProblemSubtasks, ScoreSubtask, UpsertScore,
            RemoveExecutable
      <4> QED BY <1>2, <4>1, BusyMoves DEF Moves
    <3> QED BY <3>1, <3>2
  <2> QED BY <1>0, <2>1, <2>2, <2>3, <2>4 DEF PoolInv, RunningWorkers
<1> QED BY <1>1, <1>2 DEF JudgeNext, SubmissionStep

LEMMA LocalStep ==
    ASSUME TInv', JudgeNext, NEW s \in Submissions, SubmissionInv(s)
    PROVE  LocalInv(s)'
<1>0. TInv
  BY DEF SubmissionInv
<1>1. ASSUME NEW r \in Submissions, SubmissionStep(r) PROVE LocalInv(s)'
  <2>1. CASE r = s
    BY <1>1, <2>1, OwnHandlerStep, OwnCompileStep, OwnJobsStep
    DEF SubmissionStep, TaskStep
  <2>2. CASE r # s
    <3>1. Kept(s)
      BY <1>0, <1>1, <2>2, TaskKeepsOthers
    <3> QED BY <3>1, KeptLocal
  <2> QED BY <2>1, <2>2
<1>2. ASSUME NEW w \in Workers, WorkerStep(w) PROVE LocalInv(s)'
  <2>1. CASE On(w, s)
    <3>1. ~TakeJob(w)
      BY <2>1 DEF TakeJob, On, Busy
    <3> QED
      BY <1>2, <2>1, <3>1, OwnTestStep, OwnReadStep, OwnReduceSubtask,
         OwnWriteVerdict
      DEF WorkerStep
  <2>2. CASE ~On(w, s) /\ On(w, s)'
    <3>1. CASE TakeJob(w)
      BY <2>2, <3>1, OwnTakeJob
    <3>2. CASE ~TakeJob(w)
      <4>1. Busy(w)
        BY <1>2, <3>2
        DEF WorkerStep, ExecuteTest, StoreResult, CountTest, ReadTestsDone,
            CompareTotal, SelectSubtaskResults, ReduceSubtask, WriteVerdict,
            SelectSubmissions, SelectProblemSubtasks, ScoreSubtask, UpsertScore,
            RemoveExecutable, Busy
      <4>2. Moves(w)
        BY <1>0, <1>2, <4>1, BusyMoves DEF Busy
      <4> QED BY <2>2, <4>1, <4>2 DEF Moves, On, Busy, SubmissionOf
    <3> QED BY <3>1, <3>2
  <2>3. CASE ~On(w, s) /\ ~On(w, s)'
    <3>1. Kept(s)
      BY <1>0, <1>2, <2>3, WorkerKeepsOthers
    <3> QED BY <3>1, KeptLocal
  <2> QED BY <2>1, <2>2, <2>3
<1> QED BY <1>1, <1>2 DEF JudgeNext, SubmissionStep

\* The invariant of all submissions gives that of each.
LEMMA Parts ==
    ASSUME JInv, NEW s \in Submissions
    PROVE  /\ SubmissionInv(s)
           /\ TInv /\ TaskOK /\ WorkerOK /\ problem \in Problems
           /\ RowsInv(s) /\ StageInv(s) /\ JobsInv(s) /\ ResultsInv(s)
           /\ CountInv(s) /\ FilesInv(s) /\ VerdictInv(s)
           /\ PublishedInv(s) /\ PointsInv(s)
<1>1. ProblemInv
  BY ProblemsAssumption DEF JInv, ProblemInv
<1> QED BY <1>1 DEF JInv, SubmissionInv, LocalInv, TInv, VerdictInv

LEMMA JInvStep == JInv /\ [Next]_vars => JInv'
<1> SUFFICES ASSUME JInv, [Next]_vars PROVE JInv'
  OBVIOUS
<1>0. TInv /\ WorkerOK /\ PoolInv /\ problem \in Problems
  BY DEF JInv, TInv
<1>1. TInv'
  BY TInvStep DEF JInv
<1>2. CASE JudgeNext
  <2>1. PoolInv' /\ problem' \in Problems
    BY <1>0, <1>2, PoolStep
  <2>2. \A s \in Submissions : LocalInv(s)'
    BY <1>1, <1>2, Parts, LocalStep
  <2> QED BY <1>1, <2>1, <2>2 DEF JInv
<1>3. CASE Restart
  <2>1. PoolInv' /\ problem' \in Problems
    BY <1>0, <1>3 DEF Restart, database, PoolInv
  <2>2. \A s \in Submissions : LocalInv(s)'
    BY <1>1, <1>3, Parts, RestartLocal
  <2> QED BY <1>1, <2>1, <2>2 DEF JInv
<1>4. CASE UNCHANGED vars
  <2>1. PoolInv' /\ problem' \in Problems
    BY <1>0, <1>4 DEF vars, database, PoolInv, RunningWorkers
  <2>2. ASSUME NEW s \in Submissions PROVE LocalInv(s)'
    <3>1. Kept(s)
      BY <1>4 DEF vars, database, Kept, KeptRows, KeptWorkers
    <3> QED BY <1>1, <3>1, Parts, KeptLocal
  <2> QED BY <1>1, <2>1, <2>2 DEF JInv
<1> QED BY <1>2, <1>3, <1>4 DEF Next

LEMMA JInvInvariant == Safe => []JInv
<1> QED BY JInvInit, JInvStep, PTL DEF Safe

-----------------------------------------------------------------------------
(***************************************************************************)
(* The verdict.                                                            *)
(***************************************************************************)
\* The most severe of the verdicts on the subtasks is the most severe of the
\* results that decide them.
LEMMA WorstOfSubtasks ==
    ASSUME NEW s \in Submissions, SubmissionInv(s), Settled(s)
    PROVE  Worst({SubtaskVerdict(s, g) : g \in SubtasksOf(s)})
               = Worst({test_results[<<s, t>>] : t \in DecidingTests(s)})
<1> DEFINE R(g) == {test_results[<<s, t>>] : t \in get_tests_for_subtask(g)}
           V == {SubtaskVerdict(s, g) : g \in SubtasksOf(s)}
           A == {test_results[<<s, t>>] : t \in DecidingTests(s)}
           r == Worst(V)
<1>1. \A g : R(g) \in SUBSET TestingResult
  BY SettledVerdicts DEF Final
<1>2. /\ \A g \in SubtasksOf(s) : R(g) \subseteq A
      /\ \A q \in A : \E g \in SubtasksOf(s) : q \in R(g)
  BY DEF DecidingTests, SubtasksOf
<1>3. V \in SUBSET TestingResult /\ A \in SUBSET TestingResult
  BY <1>1, <1>2, SettledVerdicts DEF Final
<1>4. \A g : /\ SubtaskVerdict(s, g) \in R(g) \cup {"Accepted"}
             /\ \A q \in R(g) : Severity[q] <= Severity[SubtaskVerdict(s, g)]
  BY <1>1, WorstExists DEF SubtaskVerdict
<1>5. r \in V \cup {"Accepted"} /\ \A q \in V : Severity[q] <= Severity[r]
  BY <1>3, WorstExists
<1>6. Absorbs(r, A)
  <2>1. r \in A \cup {"Accepted"}
    BY <1>2, <1>4, <1>5
  <2>2. ASSUME NEW q \in A PROVE Severity[q] <= Severity[r]
    <3>1. PICK g \in SubtasksOf(s) : q \in R(g)
      BY <1>2
    <3>2. Severity[q] <= Severity[SubtaskVerdict(s, g)]
      BY <1>4, <3>1
    <3>3. Severity[SubtaskVerdict(s, g)] <= Severity[r]
      BY <1>5
    <3>4. q \in TestingResult /\ SubtaskVerdict(s, g) \in TestingResult /\ r \in TestingResult
      BY <1>3, <2>1, SeverityOrders
    <3> QED BY <3>2, <3>3, <3>4, SeverityOrders
  <2> QED BY <2>1, <2>2 DEF Absorbs
<1> QED BY <1>3, <1>6, AbsorbsIsWorst

LEMMA PassedIsSolved ==
    ASSUME NEW s \in Submissions, SubmissionInv(s), Settled(s), NEW g
    PROVE  SubtaskVerdict(s, g) = "Accepted" <=> Solved(s, g)
<1> DEFINE R == {test_results[<<s, t>>] : t \in get_tests_for_subtask(g)}
<1>1. R \in SUBSET Final
  BY SettledVerdicts
<1>2. /\ SubtaskVerdict(s, g) \in R \cup {"Accepted"}
      /\ \A q \in R : Severity[q] <= Severity[SubtaskVerdict(s, g)]
  BY <1>1, WorstExists DEF SubtaskVerdict, Final
<1>3. \A q \in Final : Severity[q] <= Severity["Accepted"] => q = "Accepted"
  BY DEF Final, Severity, TestingResult
<1> QED BY <1>1, <1>2, <1>3 DEF Solved

LEMMA JudgedIsFaithful ==
    ASSUME NEW s \in Submissions, SubmissionInv(s), Judged(s)
    PROVE  Faithful(s)
<1>1. /\ Settled(s)
      /\ Accumulated(s, SubtasksOf(s), submissions[s].result, submissions[s].points)
  BY PartsOf DEF PublishedInv
<1>2. DecidingTests(s) \subseteq get_tests_for_submission(s)
  BY <1>1, SettledVerdicts DEF DecidingTests, TestsOf
<1>3. Passed(s, SubtasksOf(s)) = {g \in get_subtasks_for_submission(s) : Solved(s, g)}
  BY <1>1, PassedIsSolved DEF Passed, SubtasksOf
<1>4. submissions[s].points =
         SumOf(SubtaskScore, {g \in get_subtasks_for_submission(s) : Solved(s, g)})
  BY <1>1, <1>3 DEF Accumulated
<1> QED BY <1>1, <1>2, <1>4, WorstOfSubtasks DEF Faithful, Accumulated, SumOf

\* For any number of workers and restarts: a stored verdict is the most severe
\* result of the submission's tests, and its points are what its subtasks earn
\* (worker_test_is_done, update_submission_result).
THEOREM VerdictsAreFaithful == Safe => []VerdictFaithful
<1>1. JInv => VerdictFaithful
  BY Parts, JudgedIsFaithful DEF VerdictFaithful
<1> QED BY <1>1, JInvInvariant, PTL

\* No test of a submission is left to execute when a worker removes its
\* executable, whichever worker that is (worker_test_is_done, worker.rs).
THEOREM ExecutablesOutliveTests == Safe => []ExecutableOutlivesItsTests
<1>1. JInv => ExecutableOutlivesItsTests
  <2> SUFFICES ASSUME JInv, NEW s \in Submissions,
                      \/ task[s].pc = "dispatch" /\ task[s].todo # {}
                      \/ \E t \in Tests : <<s, t>> \in pool
                      \/ \E w \in Workers : worker[w].pc = "execute" /\ SubmissionOf(w) = s
               PROVE  s \in executables
    BY DEF ExecutableOutlivesItsTests
  <2>1. CASE task[s].pc = "dispatch" /\ task[s].todo # {}
    BY <2>1, Parts DEF FilesInv, Uncounted, Handing
  <2>2. CASE \E t \in Tests : <<s, t>> \in pool
    BY <2>2, Parts DEF FilesInv, Uncounted, Pooled
  <2>3. ASSUME NEW w \in Workers, worker[w].pc = "execute", SubmissionOf(w) = s
        PROVE  s \in executables
    <3>1. TestOf(w) \in Tests /\ worker[w].job = <<s, TestOf(w)>>
      BY <2>3, Parts, WorkerRecordFacts DEF GoodWorker, SubmissionOf, TestOf
    <3>2. TestOf(w) \in Uncounted(s)
      BY <2>3, <3>1 DEF Uncounted, With
    <3> QED BY <3>2, Parts DEF FilesInv
  <2> QED BY <2>1, <2>2, <2>3
<1> QED BY <1>1, JInvInvariant, PTL

-----------------------------------------------------------------------------
(***************************************************************************)
(* The judge implements JudgeService.                                      *)
(***************************************************************************)
Stage ==
    [s \in Submissions |->
        IF s \notin DOMAIN submissions THEN "none"
        ELSE IF Judged(s) THEN "answered" ELSE submissions[s].result]

Outcome ==
    [k \in DOMAIN test_results |->
        IF test_results[k] \in Unfinished THEN "pending" ELSE test_results[k]]

Given ==
    [s \in {s \in Submissions : Judged(s)} |->
        [result |-> submissions[s].result, points |-> submissions[s].points]]

LEMMA ServiceInit == Init => Service!Init
<1> SUFFICES ASSUME Init PROVE Service!Init
  OBVIOUS
<1>1. DOMAIN submissions = {} /\ DOMAIN test_results = {} /\ DOMAIN subtask_results = {}
  BY DEF Init, EmptyTable
<1>2. problem.subtask_tests \subseteq Subtasks \X Tests
  BY ProblemsAssumption DEF Init
<1>3. Stage = [s \in Submissions |-> "none"]
  BY <1>1 DEF Stage
<1>4. Outcome = [k \in {} |-> "pending"]
  BY <1>1 DEF Outcome
<1>5. Given = [s \in {} |-> "none"]
  BY <1>1 DEF Given, Judged
<1> QED BY <1>1, <1>2, <1>3, <1>4, <1>5 DEF Service!Init, Stage, Outcome, Given

\* A step that changes no row in a way the service can see.
LEMMA ServiceStutter ==
    ASSUME problem' = problem, Stage' = Stage, Outcome' = Outcome, Given' = Given,
           DOMAIN subtask_results' = DOMAIN subtask_results
    PROVE  UNCHANGED Service!vars
BY DEF Service!vars, Stage, Outcome, Given

LEMMA SameRows ==
    ASSUME DOMAIN submissions' = DOMAIN submissions,
           \A r \in DOMAIN submissions :
              /\ submissions'[r].result = submissions[r].result
              /\ submissions'[r].points = submissions[r].points
    PROVE  Stage' = Stage /\ Given' = Given
<1>1. \A r : Judged(r)' <=> Judged(r)
  BY DEF Judged
<1>2. Stage' = Stage
  BY <1>1 DEF Stage
<1>3. {s \in Submissions : Judged(s)}' = {s \in Submissions : Judged(s)}
  BY <1>1
<1>4. \A r : Judged(r) => r \in DOMAIN submissions
  BY DEF Judged
<1>5. Given' = Given
  BY <1>3, <1>4 DEF Given
<1> QED BY <1>2, <1>5

\* One row is added, or its result changed, and no verdict is.
LEMMA OneRow ==
    ASSUME NEW s \in Submissions, s \in DOMAIN submissions',
           DOMAIN submissions' = DOMAIN submissions \cup {s},
           \A r \in DOMAIN submissions : r # s => submissions'[r] = submissions[r],
           ~Judged(s), ~Judged(s)'
    PROVE  /\ Stage' = [Stage EXCEPT ![s] = submissions'[s].result]
           /\ Given' = Given
<1>1. \A r : Judged(r)' <=> Judged(r)
  BY DEF Judged
<1>2. Stage' = [Stage EXCEPT ![s] = submissions'[s].result]
  BY <1>1 DEF Stage
<1>3. {r \in Submissions : Judged(r)}' = {r \in Submissions : Judged(r)}
  BY <1>1
<1>4. \A r : Judged(r) => r \in DOMAIN submissions /\ r # s
  BY DEF Judged
<1>5. Given' = Given
  BY <1>3, <1>4 DEF Given
<1> QED BY <1>2, <1>5

LEMMA ServiceTaskStep ==
    ASSUME JInv, TInv', NEW s \in Submissions, SubmissionStep(s)
    PROVE  Service!Next \/ UNCHANGED Service!vars
<1>0. /\ TInv /\ TaskOK /\ RowsInv(s) /\ StageInv(s)
      /\ problem' = problem
  BY Parts
  DEF SubmissionStep, HandlerStep, TaskStep, AddSubmission, SelectSubtasks,
      InsertSubtaskResult, SelectTests, InsertTestResult, Spawn, HandlerDropped,
      StartCompiling, CompileFails, CompileSucceeds, SelectJobs, HandOver,
      DispatchFails, database
<1>1. CASE UNCHANGED database
  BY <1>1, ServiceStutter DEF database, Stage, Outcome, Given, Judged
<1>2. CASE AddSubmission(s)
  <2>1. PICK row : /\ submissions' = Insert(submissions, s, row)
                   /\ row.result = "InQueue"
    BY <1>2 DEF AddSubmission
  <2>2. /\ s \notin DOMAIN submissions /\ ~Judged(s)
        /\ test_results' = test_results /\ subtask_results' = subtask_results
    BY <1>0, <1>2 DEF AddSubmission, RowsInv, Judged
  <2>3. /\ s \in DOMAIN submissions' /\ DOMAIN submissions' = DOMAIN submissions \cup {s}
        /\ \A r \in DOMAIN submissions : r # s => submissions'[r] = submissions[r]
        /\ submissions'[s].result = "InQueue" /\ ~Judged(s)'
    BY <2>1 DEF Insert, Judged, Unfinished
  <2>4. Stage' = [Stage EXCEPT ![s] = "InQueue"] /\ Given' = Given
    BY <2>2, <2>3, OneRow
  <2>5. Stage[s] = "none" /\ Outcome' = Outcome
    BY <2>2 DEF Stage, Outcome
  <2>6. Service!Submit(s)
    BY <1>0, <2>2, <2>4, <2>5
    DEF Service!Submit, Service!Enter, Stage, Outcome, Given
  <2> QED BY <2>6 DEF Service!Next
<1>3. CASE InsertSubtaskResult(s)
  <2>1. PICK g, row :
           /\ g \in Subtasks
           /\ subtask_results' = Insert(subtask_results, <<s, g>>, row)
    BY <1>0, <1>3 DEF InsertSubtaskResult, TInv, DatabaseOK, ProblemOK
  <2>2. DOMAIN subtask_results' = DOMAIN subtask_results \cup {<<s, g>>}
    BY <2>1 DEF Insert
  <2>3. /\ submissions' = submissions /\ test_results' = test_results
        /\ s \in DOMAIN submissions /\ submissions[s].result = "InQueue"
    BY <1>0, <1>3 DEF InsertSubtaskResult, StageInv
  <2>4. Stage' = Stage /\ Given' = Given /\ Outcome' = Outcome /\ Stage[s] = "InQueue"
    BY <2>3 DEF Stage, Given, Outcome, Judged, Unfinished
  <2>5. Service!AddSubtask(s, g)
    BY <1>0, <2>2, <2>4 DEF Service!AddSubtask, Stage, Outcome, Given
  <2> QED BY <2>1, <2>5 DEF Service!Next
<1>4. CASE InsertTestResult(s)
  <2>1. PICK t \in Tests : test_results' = Insert(test_results, <<s, t>>, "InQueue")
    BY <1>0, <1>4 DEF InsertTestResult, TInv, DatabaseOK, ProblemOK
  <2>2. Outcome' = [k \in DOMAIN Outcome \cup {<<s, t>>} |->
                       IF k = <<s, t>> THEN "pending" ELSE Outcome[k]]
    BY <2>1 DEF Insert, Outcome, Unfinished
  <2>3. /\ submissions' = submissions /\ subtask_results' = subtask_results
        /\ s \in DOMAIN submissions /\ submissions[s].result = "InQueue"
    BY <1>0, <1>4 DEF InsertTestResult, StageInv
  <2>4. Stage' = Stage /\ Given' = Given /\ Stage[s] = "InQueue"
    BY <2>3 DEF Stage, Given, Judged, Unfinished
  <2>5. Service!AddTest(s, t)
    BY <1>0, <2>2, <2>3, <2>4 DEF Service!AddTest, Stage, Outcome, Given
  <2> QED BY <2>5 DEF Service!Next
<1>5. ASSUME StartCompiling(s) \/ CompileFails(s) \/ CompileSucceeds(s)
      PROVE  Service!Next
  <2>1. /\ s \in DOMAIN submissions /\ ~Judged(s)
        /\ Stage[s] = IF task[s].pc = "queued" THEN "InQueue" ELSE "Compiling"
    BY <1>0, <1>5
    DEF RowsInv, StageInv, StartCompiling, CompileFails, CompileSucceeds, Stage,
        Judged, Unfinished
  <2>2. /\ test_results' = test_results /\ DOMAIN subtask_results' = DOMAIN subtask_results
        /\ DOMAIN submissions' = DOMAIN submissions
        /\ \A r \in DOMAIN submissions : r # s => submissions'[r] = submissions[r]
    BY <1>5 DEF StartCompiling, CompileFails, CompileSucceeds, set_submission_result
  <2>3. PICK to \in {"Compiling", "CompilationError", "Testing"} :
           /\ set_submission_result(s, to)
           /\ task[s].pc = "queued" <=> to = "Compiling"
    BY <1>5 DEF StartCompiling, CompileFails, CompileSucceeds
  <2>4. submissions'[s].result = to
    <3>1. submissions'[s] = [submissions[s] EXCEPT !.result = to]
      BY <2>1, <2>3, ResultKeeps
    <3>2. submissions[s] \in SubmissionRow
      BY <1>0, <2>1 DEF TInv, DatabaseOK, SubmissionsOK, IsTable
    <3> QED BY <3>1, <3>2 DEF SubmissionRow
  <2>5. ~Judged(s)'
    BY <2>4 DEF Judged, Unfinished
  <2>6. Stage' = [Stage EXCEPT ![s] = to] /\ Given' = Given
    BY <2>1, <2>2, <2>4, <2>5, OneRow
  <2>7. Outcome' = Outcome
    BY <2>2 DEF Outcome
  <2>8. Service!Compile(s)
    BY <1>0, <2>1, <2>2, <2>3, <2>6, <2>7
    DEF Service!Compile, Service!Enter, Stage, Outcome, Given
  <2> QED BY <2>8 DEF Service!Next
<1> QED
  BY <1>1, <1>2, <1>3, <1>4, <1>5
  DEF SubmissionStep, HandlerStep, TaskStep, SelectSubtasks, SelectTests, Spawn,
      HandlerDropped, SelectJobs, HandOver, DispatchFails

\* The service's grades are the judge's verdicts on subtasks.
LEMMA ServiceGrades ==
    ASSUME JInv, NEW s \in Submissions, Settled(s)
    PROVE  /\ \A g : Service!Grade(s, g) = SubtaskVerdict(s, g)
           /\ Service!Answer(s) =
                 [result |-> Worst({SubtaskVerdict(s, g) : g \in SubtasksOf(s)}),
                  points |-> SumOf(SubtaskScore, Passed(s, SubtasksOf(s)))]
<1>1. \A S : Service!Worst(S) = Worst(S)
  BY DEF Service!Worst, Worst, Service!Severity, Severity
<1>2. ASSUME NEW g PROVE Service!Grade(s, g) = SubtaskVerdict(s, g)
  <2>1. /\ \A t \in get_tests_for_subtask(g) :
              /\ <<s, t>> \in DOMAIN test_results
              /\ test_results[<<s, t>>] \notin Unfinished
    BY Parts, SettledVerdicts DEF Final, TestsOf, get_tests_for_submission
  <2>2. {Outcome[<<s, t>>] : t \in get_tests_for_subtask(g)}
            = {test_results[<<s, t>>] : t \in get_tests_for_subtask(g)}
    BY <2>1 DEF Outcome
  <2>3. get_tests_for_subtask(g) = {t \in Tests : <<g, t>> \in problem.subtask_tests}
    BY DEF get_tests_for_subtask
  <2>4. Service!Grade(s, g) = Service!Worst({Outcome[<<s, t>>] : t \in get_tests_for_subtask(g)})
    BY <2>3 DEF Service!Grade, Outcome
  <2> QED BY <1>1, <2>2, <2>4 DEF SubtaskVerdict
<1>3. {g \in Subtasks : <<s, g>> \in DOMAIN subtask_results} = SubtasksOf(s)
  BY DEF SubtasksOf, get_subtasks_for_submission
<1>4. {Service!Grade(s, g) : g \in SubtasksOf(s)} = {SubtaskVerdict(s, g) : g \in SubtasksOf(s)}
  BY <1>2
<1>5. {g \in SubtasksOf(s) : Service!Grade(s, g) = "Accepted"} = Passed(s, SubtasksOf(s))
  BY <1>2 DEF Passed
<1>6. Service!Answer(s) =
         [result |-> Service!Worst({Service!Grade(s, g) : g \in SubtasksOf(s)}),
          points |-> SumOf(SubtaskScore,
                           {g \in SubtasksOf(s) : Service!Grade(s, g) = "Accepted"})]
  BY <1>3 DEF Service!Answer, SumOf, Service!MapThenSumSet, MapThenSumSet,
              Service!MapThenFoldSet, MapThenFoldSet
<1> QED BY <1>1, <1>2, <1>4, <1>5, <1>6

LEMMA ServiceStore ==
    ASSUME JInv, TInv', NEW w \in Workers, StoreResult(w)
    PROVE  Service!Next
<1>1. PICK s \in Submissions, t \in Tests, v \in TestingResult :
         /\ worker[w].job = <<s, t>> /\ worker[w].verdict = v
         /\ worker[w].pc = "store" /\ On(w, s) /\ TestOf(w) = t
  BY WorkerRecordFacts
  DEF JInv, TInv, GoodWorker, WorkerRecord, StoreResult, On, Busy, SubmissionOf, TestOf
<1>2. TInv /\ RowsInv(s) /\ StageInv(s) /\ JobsInv(s) /\ ResultsInv(s)
  BY <1>1, Parts
<1>3. /\ t \in TestsOf(s) /\ task[s].pc = "dispatch" /\ s \in DOMAIN submissions
      /\ v \in TestingResult \ Unfinished
  BY <1>1, <1>2 DEF JobsInv, RowsInv, ResultsInv
<1>4. t \in Unstored(s) /\ t \in Uncounted(s)
  BY <1>1 DEF Unstored, Uncounted, With
<1>5. ~Judged(s)
  BY <1>1, <1>4, Parts, Unsettled DEF Settled
<1>6. /\ <<s, t>> \in DOMAIN test_results
      /\ test_results[<<s, t>>] \in Unfinished
  BY <1>2, <1>3, <1>4 DEF ResultsInv, TestsOf, get_tests_for_submission
<1>7. /\ Stage[s] = "Testing" /\ <<s, t>> \in DOMAIN Outcome
      /\ Outcome[<<s, t>>] = "pending"
  BY <1>1, <1>2, <1>3, <1>5, <1>6 DEF StageInv, Stage, Outcome
<1>8. /\ problem' = problem /\ submissions' = submissions
      /\ subtask_results' = subtask_results
      /\ test_results' = Update(test_results, <<s, t>>, v)
  BY <1>1 DEF StoreResult
<1>9. Stage' = Stage /\ Given' = Given
  BY <1>8 DEF Stage, Given, Judged
<1>10. Outcome' = [Outcome EXCEPT ![<<s, t>>] = v]
  BY <1>3, <1>6, <1>8 DEF Outcome, Update
<1>11. v \in Service!TestingResult \ Service!Unfinished
  BY <1>3 DEF Service!TestingResult, Service!Unfinished, TestingResult, Unfinished
<1>12. Service!Execute(s, t)
  BY <1>7, <1>8, <1>9, <1>10, <1>11 DEF Service!Execute, Stage, Outcome, Given
<1> QED BY <1>1, <1>12 DEF Service!Next

LEMMA ServicePublish ==
    ASSUME JInv, JInv', NEW w \in Workers, WriteVerdict(w)
    PROVE  Service!Next \/ UNCHANGED Service!vars
<1>1. PICK s \in Submissions :
         SubmissionOf(w) = s /\ worker[w].pc = "reduce" /\ On(w, s)
  BY WorkerRecordFacts DEF JInv, TInv, WriteVerdict, On, Busy
<1>2. TInv /\ RowsInv(s) /\ StageInv(s) /\ JobsInv(s) /\ VerdictInv(s)
  BY <1>1, Parts
<1>3. /\ Settled(s) /\ WorkingInv(w, s) /\ s \in DOMAIN submissions
      /\ task[s].pc = "dispatch" /\ TestsOf(s) # {}
  BY <1>1, <1>2, Parts, FinalisingSettles DEF VerdictInv, Finalising, JobsInv, RowsInv
<1>4. /\ problem' = problem /\ test_results' = test_results
      /\ subtask_results' = subtask_results
      /\ DOMAIN submissions' = DOMAIN submissions
      /\ \A r \in DOMAIN submissions : r # s => submissions'[r] = submissions[r]
      /\ worker[w].todo = {}
  BY <1>1 DEF WriteVerdict
<1>5. /\ submissions'[s].result = worker[w].result
      /\ submissions'[s].points = worker[w].points
  <2>1. submissions'[s] = [submissions[s] EXCEPT !.result = worker[w].result,
                                                !.points = worker[w].points]
    BY <1>1, <1>3 DEF WriteVerdict, Published
  <2>2. submissions[s] \in SubmissionRow
    BY <1>2, <1>3 DEF TInv, DatabaseOK, SubmissionsOK, IsTable
  <2> QED BY <2>1, <2>2 DEF SubmissionRow
<1>6. Accumulated(s, SubtasksOf(s), worker[w].result, worker[w].points)
  <2>1. SubtasksOf(s) \ worker[w].todo = SubtasksOf(s)
    BY <1>4
  <2> QED BY <1>1, <1>3, <2>1 DEF WorkingInv
<1>7. Outcome' = Outcome
  BY <1>4 DEF Outcome
<1>8. CASE Judged(s)
  <2>1. Accumulated(s, SubtasksOf(s), submissions[s].result, submissions[s].points)
    BY <1>1, <1>8, Parts DEF PublishedInv
  <2>2. /\ submissions'[s].result = submissions[s].result
        /\ submissions'[s].points = submissions[s].points
    BY <1>5, <1>6, <2>1 DEF Accumulated
  <2>3. Stage' = Stage /\ Given' = Given
    BY <1>4, <2>2, SameRows
  <2> QED BY <1>4, <1>7, <2>3, ServiceStutter
<1>9. CASE ~Judged(s)
  <2>1. Stage[s] = "Testing"
    BY <1>1, <1>2, <1>3, <1>9 DEF Stage, StageInv
  <2>2. Judged(s)'
    <3>1. {SubtaskVerdict(s, g) : g \in SubtasksOf(s)} \in SUBSET Final
      BY <1>1, <1>3, Parts, SettledVerdicts
    <3>2. worker[w].result \in Final
      BY <1>6, <3>1, WorstIsFinal DEF Accumulated
    <3> QED BY <1>3, <1>4, <1>5, <3>2 DEF Judged, Final
  <2>3. \A r : Judged(r)' <=> Judged(r) \/ r = s
    BY <1>4, <2>2 DEF Judged
  <2>4. Stage' = [Stage EXCEPT ![s] = "answered"]
    BY <1>1, <1>3, <1>4, <2>3 DEF Stage
  <2>5. /\ Service!Answer(s) = [result |-> worker[w].result, points |-> worker[w].points]
    BY <1>1, <1>3, <1>6, ServiceGrades DEF Accumulated
  <2>6. /\ DOMAIN Given = {r \in Submissions : Judged(r)}
        /\ DOMAIN Given' = DOMAIN Given \cup {s}
        /\ Given'[s] = Service!Answer(s)
        /\ \A r \in DOMAIN Given : r # s => Given'[r] = Given[r]
    <3>1. \A r : Judged(r) => r \in DOMAIN submissions
      BY DEF Judged
    <3>2. DOMAIN Given' = {r \in Submissions : Judged(r)'}
      BY DEF Given
    <3>3. DOMAIN Given = {r \in Submissions : Judged(r)}
      BY DEF Given
    <3>4. Given'[s] = [result |-> submissions'[s].result, points |-> submissions'[s].points]
      BY <1>1, <2>2 DEF Given
    <3>5. ASSUME NEW r \in DOMAIN Given, r # s PROVE Given'[r] = Given[r]
      BY <1>4, <2>3, <3>1, <3>3, <3>5 DEF Given
    <3> QED BY <1>1, <1>5, <2>3, <2>5, <3>2, <3>3, <3>4, <3>5
  <2>7. Given' = [r \in DOMAIN Given \cup {s} |->
                     IF r = s THEN Service!Answer(s) ELSE Given[r]]
    <3>1. Given' = [r \in DOMAIN Given' |-> Given'[r]]
      BY DEF Given
    <3> QED BY <2>6, <3>1
  <2>8. \A t \in TestsOf(s) : <<s, t>> \in DOMAIN Outcome /\ Outcome[<<s, t>>] # "pending"
    BY <1>1, <1>3, Parts, SettledVerdicts
    DEF Outcome, Final, TestingResult, TestsOf, get_tests_for_submission
  <2>9. Service!TestsOf(s) = TestsOf(s)
    BY DEF Service!TestsOf, TestsOf, get_tests_for_submission
  <2>10. Service!Publish(s)
    BY <1>3, <1>4, <1>7, <2>1, <2>4, <2>7, <2>8, <2>9
    DEF Service!Publish, Service!Enter, Stage, Outcome, Given
  <2> QED BY <1>1, <2>10 DEF Service!Next
<1> QED BY <1>8, <1>9

LEMMA ServiceWorkerStep ==
    ASSUME JInv, JInv', NEW w \in Workers, WorkerStep(w)
    PROVE  Service!Next \/ UNCHANGED Service!vars
<1>0. TInv /\ TInv' /\ WorkerOK
  BY DEF JInv, TInv
<1>1. CASE UNCHANGED database
  BY <1>1, ServiceStutter DEF database, Stage, Outcome, Given, Judged
<1>2. CASE TakeJob(w)
  <2>1. PICK j \in pool : test_results' = Update(test_results, j, "Testing")
    BY <1>2 DEF TakeJob
  <2>2. PICK s \in Submissions, t \in Tests : j = <<s, t>>
    BY <1>0 DEF TInv, PoolOK
  <2>3. t \in Pooled(s) /\ JobsInv(s) /\ ResultsInv(s)
    BY <2>2, Parts DEF Pooled
  <2>4. j \in DOMAIN test_results => test_results[j] \in Unfinished
    BY <2>2, <2>3 DEF JobsInv, ResultsInv, Unstored
  <2>5. Outcome' = Outcome
    BY <2>1, <2>4 DEF Outcome, Update, Unfinished
  <2>6. /\ problem' = problem /\ subtask_results' = subtask_results
        /\ Stage' = Stage /\ Given' = Given
    BY <1>2 DEF TakeJob, Stage, Given, Judged
  <2> QED BY <2>5, <2>6, ServiceStutter
<1>3. CASE StoreResult(w)
  BY <1>0, <1>3, ServiceStore
<1>4. CASE CountTest(w)
  <2>1. /\ DOMAIN submissions' = DOMAIN submissions
        /\ \A r \in DOMAIN submissions :
              /\ submissions'[r].result = submissions[r].result
              /\ submissions'[r].points = submissions[r].points
    BY <1>0, <1>4 DEF CountTest, TInv, DatabaseOK, SubmissionsOK, IsTable, SubmissionRow
  <2>2. Stage' = Stage /\ Given' = Given
    BY <2>1, SameRows
  <2> QED BY <1>4, <2>2, ServiceStutter DEF CountTest, Outcome
<1>5. CASE ReduceSubtask(w)
  <2>1. /\ problem' = problem /\ DOMAIN subtask_results' = DOMAIN subtask_results
        /\ Stage' = Stage /\ Given' = Given /\ Outcome' = Outcome
    BY <1>5 DEF ReduceSubtask, Update, Stage, Given, Outcome, Judged
  <2> QED BY <2>1, ServiceStutter
<1>6. CASE WriteVerdict(w)
  BY <1>6, ServicePublish
<1>7. CASE UpsertScore(w)
  <2>1. /\ problem' = problem /\ subtask_results' = subtask_results
        /\ Stage' = Stage /\ Given' = Given /\ Outcome' = Outcome
    BY <1>7 DEF UpsertScore, Stage, Given, Outcome, Judged
  <2> QED BY <2>1, ServiceStutter
<1> QED
  BY <1>1, <1>2, <1>3, <1>4, <1>5, <1>6, <1>7
  DEF WorkerStep, ExecuteTest, ReadTestsDone, CompareTotal, SelectSubtaskResults,
      SelectSubmissions, SelectProblemSubtasks, ScoreSubtask, RemoveExecutable

\* The judge implements its service for any number of workers, submissions and
\* restarts: every test gets one outcome, and every submission one answer, made
\* of all its outcomes and never changed (worker_test_is_done,
\* update_submission_result).
THEOREM JudgeImplementsService == Safe => ServiceSpec
<1>1. JInv /\ JInv' /\ [Next]_vars => [Service!Next]_(Service!vars)
  <2> SUFFICES ASSUME JInv, JInv', [Next]_vars
               PROVE  Service!Next \/ UNCHANGED Service!vars
    OBVIOUS
  <2>1. CASE Restart \/ UNCHANGED vars
    <3>1. UNCHANGED database
      BY <2>1 DEF Restart, vars
    <3> QED BY <3>1, ServiceStutter DEF database, Stage, Outcome, Given, Judged
  <2>2. ASSUME NEW s \in Submissions, SubmissionStep(s)
        PROVE  Service!Next \/ UNCHANGED Service!vars
    BY <2>2, ServiceTaskStep DEF JInv
  <2>3. ASSUME NEW w \in Workers, WorkerStep(w)
        PROVE  Service!Next \/ UNCHANGED Service!vars
    BY <2>3, ServiceWorkerStep
  <2> QED BY <2>1, <2>2, <2>3 DEF Next, JudgeNext, SubmissionStep
<1> QED BY <1>1, ServiceInit, JInvInvariant, PTL DEF Safe, ServiceSpec, Service!Spec

-----------------------------------------------------------------------------
(***************************************************************************)
(* Why a score of the judge can be trusted: what becomes of a submission   *)
(* once all its tests are counted, and what the score of its user is then, *)
(* however many workers finish submissions at the same time.               *)
(***************************************************************************)
Points(r, g) == get_subtask_points_result(r, g)

\* The subtasks of S that some submission of R has points for.
EarnedFrom(R, S) == {g \in S : \E r \in R : Points(r, g) # 0}

Owns(u) == get_submissions_by_user_for_problem(u)

Scored(s) == submissions[s].user_id \in DOMAIN user_problem_scores

-----------------------------------------------------------------------------
(***************************************************************************)
(* The invariant, beyond JInv.                                             *)
(***************************************************************************)
\* A worker computing a score has selected the submission it has judged, and
\* its sum is between what that submission earns and what the selected ones do.
SummingInv(w) ==
    LET s == SubmissionOf(w)
        done == problem.subtasks \ worker[w].todo
    IN  /\ worker[w].pc # "score" => worker[w].score = 0
        /\ worker[w].pc \in {"select_problem_subtasks", "score"} =>
              /\ worker[w].user = submissions[s].user_id
              /\ s \in worker[w].mine
              /\ worker[w].mine \subseteq Owns(worker[w].user)
        /\ worker[w].pc = "score" =>
              /\ worker[w].todo \subseteq problem.subtasks
              /\ worker[w].score <= SumOf(SubtaskScore, EarnedFrom(worker[w].mine, done))
              /\ worker[w].score >= SumOf(SubtaskScore, Passed(s, done))
        /\ worker[w].pc = "remove" => Scored(s)

\* The worker is going to finish s.
Finishing(w, s) ==
    \/ worker[w].pc = "read_tests_done"
    \/ worker[w].pc = "compare" /\ worker[w].tests_done = Cardinality(TestsOf(s))
    \/ worker[w].pc \in Finalising

AllCounted(s) ==
    task[s].pc = "dispatch" /\ TestsOf(s) # {} /\ Uncounted(s) = {}

Finished(s) == Judged(s) /\ Scored(s) /\ s \notin executables

FinishInv(s) ==
    AllCounted(s) =>
        Finished(s) \/ \E w \in Workers : On(w, s) /\ Finishing(w, s)

TotalsInv ==
    \A u \in DOMAIN user_problem_scores :
        user_problem_scores[u] <= SumOf(SubtaskScore, EarnedFrom(Owns(u), problem.subtasks))

SInv ==
    /\ JInv
    /\ \A w \in Workers : SummingInv(w)
    /\ \A s \in Submissions : FinishInv(s)
    /\ TotalsInv

-----------------------------------------------------------------------------
(***************************************************************************)
(* What no step takes back.                                                *)
(***************************************************************************)
\* Rows stay with their users, scores stay, points stay.
Grows ==
    /\ problem' = problem
    /\ \A r \in DOMAIN submissions :
          r \in DOMAIN submissions' /\ submissions'[r].user_id = submissions[r].user_id
    /\ DOMAIN user_problem_scores \subseteq DOMAIN user_problem_scores'
    /\ \A r, g : Points(r, g) # 0 => Points(r, g)' = Points(r, g)

LEMMA TaskGrows ==
    ASSUME JInv, TInv', NEW s \in Submissions, SubmissionStep(s)
    PROVE  Grows
<1>0. TInv /\ RowsInv(s)
  BY Parts
<1>1. CASE UNCHANGED database
  BY <1>1 DEF Grows, database, Points, get_subtask_points_result
<1>2. CASE AddSubmission(s)
  <2>1. PICK row : submissions' = Insert(submissions, s, row)
    BY <1>2 DEF AddSubmission
  <2>2. s \notin DOMAIN submissions
    BY <1>0, <1>2 DEF AddSubmission, RowsInv
  <2>3. \A r \in DOMAIN submissions :
           r \in DOMAIN submissions' /\ submissions'[r] = submissions[r]
    BY <2>1, <2>2 DEF Insert
  <2> QED BY <1>2, <2>3 DEF AddSubmission, Grows, Points, get_subtask_points_result
<1>3. CASE InsertSubtaskResult(s)
  <2>1. PICK g, row :
           /\ g \in task[s].todo \cap problem.subtasks
           /\ subtask_results' = Insert(subtask_results, <<s, g>>, row)
    BY <1>3 DEF InsertSubtaskResult
  <2>2. <<s, g>> \notin DOMAIN subtask_results
    BY <1>0, <1>3, <2>1
    DEF InsertSubtaskResult, RowsInv, SubtasksOf, get_subtasks_for_submission, TInv,
        DatabaseOK, ProblemOK
  <2>3. \A k \in DOMAIN subtask_results :
           k \in DOMAIN subtask_results' /\ subtask_results'[k] = subtask_results[k]
    BY <2>1, <2>2 DEF Insert
  <2>4. \A r, h : Points(r, h) # 0 => Points(r, h)' = Points(r, h)
    BY <2>3 DEF Points, get_subtask_points_result
  <2> QED BY <1>3, <2>4 DEF InsertSubtaskResult, Grows
<1>4. CASE InsertTestResult(s)
  BY <1>4 DEF InsertTestResult, Grows, Points, get_subtask_points_result
<1>5. ASSUME StartCompiling(s) \/ CompileFails(s) \/ CompileSucceeds(s) PROVE Grows
  <2>1. PICK to : set_submission_result(s, to)
    BY <1>5 DEF StartCompiling, CompileFails, CompileSucceeds
  <2>2. \A r \in DOMAIN submissions :
           r \in DOMAIN submissions' /\ submissions'[r].user_id = submissions[r].user_id
    BY <1>0, <2>1
    DEF set_submission_result, TInv, DatabaseOK, SubmissionsOK, IsTable, SubmissionRow
  <2>3. /\ DOMAIN subtask_results' = DOMAIN subtask_results
        /\ \A k \in DOMAIN subtask_results :
              subtask_results'[k].points = subtask_results[k].points
    BY <1>0, <1>5
    DEF StartCompiling, CompileFails, CompileSucceeds, TInv, DatabaseOK,
        SubtaskResultsOK, IsTable, SubtaskResultRow
  <2>4. \A r, h : Points(r, h) # 0 => Points(r, h)' = Points(r, h)
    BY <2>3 DEF Points, get_subtask_points_result
  <2> QED BY <1>5, <2>2, <2>4 DEF Grows, StartCompiling, CompileFails, CompileSucceeds
<1> QED
  BY <1>1, <1>2, <1>3, <1>4, <1>5
  DEF SubmissionStep, HandlerStep, TaskStep, SelectSubtasks, SelectTests, Spawn,
      HandlerDropped, SelectJobs, HandOver, DispatchFails

LEMMA WorkerGrows ==
    ASSUME JInv, NEW w \in Workers, WorkerStep(w)
    PROVE  Grows
<1>0. TInv /\ WorkerOK
  BY DEF JInv, TInv
<1>1. CASE UNCHANGED database
  BY <1>1 DEF Grows, database, Points, get_subtask_points_result
<1>2. CASE TakeJob(w) \/ StoreResult(w)
  BY <1>2 DEF Grows, TakeJob, StoreResult, Points, get_subtask_points_result
<1>3. CASE CountTest(w) \/ WriteVerdict(w)
  <2>1. \A r \in DOMAIN submissions :
           r \in DOMAIN submissions' /\ submissions'[r].user_id = submissions[r].user_id
    <3> SUFFICES ASSUME NEW r \in DOMAIN submissions
                 PROVE  r \in DOMAIN submissions' /\ submissions'[r].user_id = submissions[r].user_id
      OBVIOUS
    <3>1. submissions[r] \in SubmissionRow
      BY <1>0 DEF TInv, DatabaseOK, SubmissionsOK, IsTable
    <3>2. CASE CountTest(w)
      BY <3>1, <3>2 DEF CountTest, SubmissionRow
    <3>3. CASE WriteVerdict(w)
      <4>1. submissions'[r] = submissions[r] \/ submissions'[r] = Published(r, worker[w])
        BY <3>3 DEF WriteVerdict
      <4> QED BY <3>1, <3>3, <4>1 DEF WriteVerdict, Published, SubmissionRow
    <3> QED BY <1>3, <3>2, <3>3
  <2> QED BY <1>3, <2>1
          DEF Grows, CountTest, WriteVerdict, Points, get_subtask_points_result
<1>4. CASE ReduceSubtask(w)
  <2>1. PICK s \in Submissions :
           SubmissionOf(w) = s /\ On(w, s) /\ worker[w].pc = "reduce"
    BY <1>0, <1>4, WorkerRecordFacts DEF ReduceSubtask, On, Busy
  <2>2. PICK g \in worker[w].todo :
           subtask_results' = Update(subtask_results, <<s, g>>,
               [result |-> SubtaskVerdict(s, g), points |-> SubtaskPoints(s, g)])
    BY <1>4, <2>1 DEF ReduceSubtask, SubtaskPoints
  <2>3. PointsInv(s) /\ WorkingInv(w, s)
    BY <2>1, Parts DEF VerdictInv
  <2>4. g \in SubtasksOf(s) /\ <<s, g>> \in DOMAIN subtask_results
    BY <2>1, <2>2, <2>3 DEF WorkingInv, SubtasksOf, get_subtasks_for_submission
  <2>5. subtask_results[<<s, g>>].points \in {0, SubtaskScore[g]}
    BY <1>0, <2>4 DEF TInv, DatabaseOK, SubtaskResultsOK
  <2>6. subtask_results[<<s, g>>].points # 0 =>
           subtask_results[<<s, g>>].points = SubtaskPoints(s, g)
    BY <2>3, <2>4, <2>5 DEF PointsInv, SubtaskPoints
  <2>7. \A r, h : Points(r, h) # 0 => Points(r, h)' = Points(r, h)
    BY <2>2, <2>6 DEF Points, get_subtask_points_result, Update
  <2> QED BY <1>4, <2>7 DEF Grows, ReduceSubtask
<1>5. CASE UpsertScore(w)
  BY <1>5 DEF Grows, UpsertScore, Insert, Points, get_subtask_points_result
<1> QED
  BY <1>1, <1>2, <1>3, <1>4, <1>5
  DEF WorkerStep, ExecuteTest, ReadTestsDone, CompareTotal, SelectSubtaskResults,
      SelectSubmissions, SelectProblemSubtasks, ScoreSubtask, RemoveExecutable

LEMMA StepGrows ==
    ASSUME JInv, TInv', [Next]_vars
    PROVE  Grows
<1>1. CASE Restart \/ UNCHANGED vars
  BY <1>1 DEF Restart, vars, database, Grows, Points, get_subtask_points_result
<1> QED BY <1>1, TaskGrows, WorkerGrows DEF Next, JudgeNext, SubmissionStep

\* The results of a settled submission do not change: no test of it is waiting
\* for a worker or with one, so nobody writes its rows of test_results.
LEMMA SettledStays ==
    ASSUME JInv, [Next]_vars, NEW s \in Submissions, Settled(s)
    PROVE  /\ \A g : SubtaskVerdict(s, g)' = SubtaskVerdict(s, g)
           /\ \A S : Passed(s, S)' = Passed(s, S)
<1>0. TInv /\ TaskOK /\ WorkerOK /\ ProblemInv /\ JobsInv(s)
  BY Parts DEF SubmissionInv
<1>1. problem' = problem
  BY DEF Next, JudgeNext, HandlerStep, TaskStep, WorkerStep, Restart, vars, database,
         AddSubmission, HandlerDropped, SelectSubtasks, InsertSubtaskResult,
         SelectTests, InsertTestResult, Spawn, StartCompiling, CompileFails,
         CompileSucceeds, SelectJobs, HandOver, DispatchFails, TakeJob, ExecuteTest,
         StoreResult, CountTest, ReadTestsDone, CompareTotal, SelectSubtaskResults,
         ReduceSubtask, WriteVerdict, SelectSubmissions, SelectProblemSubtasks,
         ScoreSubtask, UpsertScore, RemoveExecutable
<1>2. \A t \in TestsOf(s) : test_results'[<<s, t>>] = test_results[<<s, t>>]
  <2> SUFFICES ASSUME NEW t \in TestsOf(s)
               PROVE  test_results'[<<s, t>>] = test_results[<<s, t>>]
    OBVIOUS
  <2>1. t \in Tests /\ <<s, t>> \in DOMAIN test_results
    BY DEF TestsOf, get_tests_for_submission
  <2>2. ASSUME NEW r \in Submissions, InsertTestResult(r)
        PROVE  test_results'[<<s, t>>] = test_results[<<s, t>>]
    <3>1. r # s
      BY <2>2 DEF InsertTestResult, Settled
    <3>2. PICK u : test_results' = Insert(test_results, <<r, u>>, "InQueue")
      BY <2>2 DEF InsertTestResult
    <3> QED BY <2>1, <3>1, <3>2 DEF Insert
  <2>3. ASSUME NEW w \in Workers, TakeJob(w)
        PROVE  test_results'[<<s, t>>] = test_results[<<s, t>>]
    <3>1. PICK j \in pool : test_results' = Update(test_results, j, "Testing")
      BY <2>3 DEF TakeJob
    <3>2. <<s, t>> \notin pool
      BY <2>1 DEF Settled, Uncounted, Pooled
    <3> QED BY <2>1, <3>1, <3>2 DEF Update
  <2>4. ASSUME NEW w \in Workers, StoreResult(w)
        PROVE  test_results'[<<s, t>>] = test_results[<<s, t>>]
    <3>1. worker[w].job # <<s, t>>
      BY <2>1, <2>4 DEF StoreResult, Settled, Uncounted, With
    <3> QED BY <2>1, <2>4, <3>1 DEF StoreResult, Update
  <2>5. CASE test_results' = test_results
    BY <2>5
  <2> QED
    BY <2>2, <2>3, <2>4, <2>5
    DEF Next, JudgeNext, HandlerStep, TaskStep, WorkerStep, Restart, vars, database,
        AddSubmission, HandlerDropped, SelectSubtasks, InsertSubtaskResult,
        SelectTests, Spawn, StartCompiling, CompileFails, CompileSucceeds,
        SelectJobs, HandOver, DispatchFails, ExecuteTest, CountTest, ReadTestsDone,
        CompareTotal, SelectSubtaskResults, ReduceSubtask, WriteVerdict,
        SelectSubmissions, SelectProblemSubtasks, ScoreSubtask, UpsertScore,
        RemoveExecutable
<1> QED BY <1>0, <1>1, <1>2, SameVerdicts DEF Settled

-----------------------------------------------------------------------------
(***************************************************************************)
(* Sums of subtask scores.                                                 *)
(***************************************************************************)
LEMMA SubtaskSums ==
    ASSUME TInv, problem \in Problems, NEW S \in SUBSET problem.subtasks
    PROVE  /\ IsFiniteSet(S)
           /\ SumOf(SubtaskScore, S) \in Nat
           /\ \A T \in SUBSET S :
                 SumOf(SubtaskScore, T) \in Nat
                   /\ SumOf(SubtaskScore, T) <= SumOf(SubtaskScore, S)
           /\ \A g \in problem.subtasks : g \notin S =>
                 SumOf(SubtaskScore, S \cup {g}) = SubtaskScore[g] + SumOf(SubtaskScore, S)
<1>1. problem.subtasks \subseteq Subtasks /\ IsFiniteSet(problem.subtasks)
  BY ProblemsAssumption
<1>2. \A g \in problem.subtasks : SubtaskScore[g] \in Nat
  BY <1>1, ScoreAssumption
<1>3. ASSUME NEW T \in SUBSET problem.subtasks
      PROVE  IsFiniteSet(T) /\ SumOf(SubtaskScore, T) \in Nat
               /\ \A x \in T : SumOf(SubtaskScore, T) = SubtaskScore[x] + SumOf(SubtaskScore, T \ {x})
  <2>1. IsFiniteSet(T)
    BY <1>1, FS_Subset
  <2> QED BY <1>2, <2>1, SumRemove
<1>4. \A T \in SUBSET S : SumOf(SubtaskScore, T) <= SumOf(SubtaskScore, S)
  BY <1>2, <1>3, SumMonotone
<1>5. ASSUME NEW g \in problem.subtasks, g \notin S
      PROVE  SumOf(SubtaskScore, S \cup {g}) = SubtaskScore[g] + SumOf(SubtaskScore, S)
  <2>1. (S \cup {g}) \ {g} = S /\ S \cup {g} \in SUBSET problem.subtasks
    BY <1>5
  <2> QED BY <1>3, <2>1
<1> QED BY <1>3, <1>4, <1>5

\* A subtask counts fully if a selected submission has points for it.
LEMMA BestPointsIsEarned ==
    ASSUME TInv, NEW g \in Subtasks, NEW mine
    PROVE  BestPoints(mine, g) =
               IF \E r \in mine : Points(r, g) # 0 THEN SubtaskScore[g] ELSE 0
<1>1. SubtaskResultsOK /\ SubtaskScore[g] \in Nat
  BY ScoreAssumption DEF TInv, DatabaseOK
<1>2. \A r : Points(r, g) \in {0, SubtaskScore[g]}
  BY <1>1 DEF Points, SubtaskResultsOK, get_subtask_points_result
<1> DEFINE P == {get_subtask_points_result(r, g) : r \in mine}
<1>3. P \subseteq {0, SubtaskScore[g]}
  BY <1>2 DEF Points
<1>4. CASE \E r \in mine : Points(r, g) # 0
  <2>1. {0} \cup P = {0, SubtaskScore[g]}
    BY <1>2, <1>3, <1>4 DEF Points
  <2>2. Max({0, SubtaskScore[g]}) = SubtaskScore[g]
    BY <1>1 DEF Max
  <2> QED BY <1>4, <2>1, <2>2 DEF BestPoints
<1>5. CASE ~\E r \in mine : Points(r, g) # 0
  <2>1. {0} \cup P = {0}
    BY <1>5 DEF Points
  <2>2. Max({0}) = 0
    BY DEF Max
  <2> QED BY <1>5, <2>1, <2>2 DEF BestPoints
<1> QED BY <1>4, <1>5

-----------------------------------------------------------------------------
(***************************************************************************)
(* The sum of a worker that computes a score.                              *)
(***************************************************************************)
\* Nothing another actor does invalidates the sum.
LEMMA SummingKept ==
    ASSUME JInv, TInv', [Next]_vars, NEW w \in Workers, SummingInv(w),
           worker'[w] = worker[w]
    PROVE  SummingInv(w)'
<1>0. TInv /\ WorkerOK /\ problem \in Problems /\ Grows
  BY StepGrows DEF JInv, TInv
<1>1. CASE worker[w].pc \notin AfterVerdict
  BY <1>1 DEF SummingInv, AfterVerdict
<1>2. CASE worker[w].pc \in AfterVerdict
  <2>1. Busy(w)
    BY <1>2 DEF AfterVerdict, Busy
  <2>2. PICK s \in Submissions : SubmissionOf(w) = s
    BY <1>0, <2>1, WorkerRecordFacts DEF Busy
  <2>3. Settled(s) /\ Judged(s) /\ s \in DOMAIN submissions
    <3>1. On(w, s) /\ worker[w].pc \in Finalising
      BY <1>2, <2>1, <2>2 DEF On, AfterVerdict, Finalising
    <3> QED BY <1>2, <3>1, FinalisingSettles, Parts DEF VerdictInv, WorkingInv, Judged
  <2>4. SubmissionOf(w)' = s
    BY <2>2 DEF SubmissionOf
  <2>5. submissions'[s].user_id = submissions[s].user_id
    BY <1>0, <2>3 DEF Grows
  <2>6. /\ worker[w].mine \subseteq Owns(worker[w].user) =>
              worker[w].mine \subseteq Owns(worker[w].user)'
        /\ Scored(s) => Scored(s)'
    BY <1>0, <2>3, <2>5 DEF Grows, Owns, get_submissions_by_user_for_problem, Scored
  <2>7. ASSUME worker[w].pc = "score"
        PROVE  LET done == problem.subtasks \ worker[w].todo
               IN  /\ SumOf(SubtaskScore, EarnedFrom(worker[w].mine, done))
                         <= SumOf(SubtaskScore, EarnedFrom(worker[w].mine, done)')
                   /\ SumOf(SubtaskScore, EarnedFrom(worker[w].mine, done)) \in Nat
                   /\ SumOf(SubtaskScore, EarnedFrom(worker[w].mine, done)') \in Nat
                   /\ Passed(s, done)' = Passed(s, done)
    <3> DEFINE done == problem.subtasks \ worker[w].todo
               E == EarnedFrom(worker[w].mine, done)
               F == EarnedFrom(worker[w].mine, done)'
    <3>1. F \subseteq problem.subtasks /\ E \subseteq F
      BY <1>0 DEF EarnedFrom, Grows
    <3>2. Passed(s, done)' = Passed(s, done)
      <4>1. \A g : SubtaskVerdict(s, g)' = SubtaskVerdict(s, g)
        BY <2>3, SettledStays
      <4> QED BY <1>0, <4>1 DEF Passed, Grows
    <3> HIDE DEF E, F
    <3>3. SumOf(SubtaskScore, E) \in Nat /\ SumOf(SubtaskScore, F) \in Nat
            /\ SumOf(SubtaskScore, E) <= SumOf(SubtaskScore, F)
      BY <1>0, <3>1, SubtaskSums
    <3> QED BY <3>2, <3>3 DEF E, F
  <2>8. worker[w].score \in Nat
    BY <1>0 DEF WorkerOK, WorkerRecord
  <2>9. problem' = problem
    BY <1>0 DEF Grows
  <2>10. ASSUME worker[w].pc = "score"
         PROVE  LET done == problem.subtasks \ worker[w].todo
                IN  /\ worker[w].score <= SumOf(SubtaskScore, EarnedFrom(worker[w].mine, done))'
                    /\ worker[w].score >= SumOf(SubtaskScore, Passed(s, done))'
    <3> DEFINE done == problem.subtasks \ worker[w].todo
    <3>1. worker[w].score <= SumOf(SubtaskScore, EarnedFrom(worker[w].mine, done))
            /\ worker[w].score >= SumOf(SubtaskScore, Passed(s, done))
      BY <2>2, <2>10 DEF SummingInv
    <3> QED BY <2>7, <2>8, <2>10, <3>1
  <2> QED BY <2>2, <2>4, <2>5, <2>6, <2>9, <2>10 DEF SummingInv
<1> QED BY <1>1, <1>2

\* One more subtask adds the best points for it to what is earned.
LEMMA EarnedOneMore ==
    ASSUME TInv, problem \in Problems, NEW S \in SUBSET problem.subtasks,
           NEW g \in problem.subtasks, g \notin S, NEW mine
    PROVE  SumOf(SubtaskScore, EarnedFrom(mine, S \cup {g}))
               = BestPoints(mine, g) + SumOf(SubtaskScore, EarnedFrom(mine, S))
<1> DEFINE E == EarnedFrom(mine, S)
<1>0. g \in Subtasks
  BY ProblemsAssumption
<1>1. E \in SUBSET problem.subtasks /\ g \notin E
  BY DEF EarnedFrom
<1>2. CASE \E r \in mine : Points(r, g) # 0
  <2>1. EarnedFrom(mine, S \cup {g}) = E \cup {g}
    BY <1>2 DEF EarnedFrom
  <2>2. BestPoints(mine, g) = SubtaskScore[g]
    BY <1>0, <1>2, BestPointsIsEarned
  <2> HIDE DEF E
  <2> QED BY <1>1, <2>1, <2>2, SubtaskSums DEF E
<1>3. CASE ~\E r \in mine : Points(r, g) # 0
  <2>1. EarnedFrom(mine, S \cup {g}) = E
    BY <1>3 DEF EarnedFrom
  <2>2. BestPoints(mine, g) = 0
    BY <1>0, <1>3, BestPointsIsEarned
  <2>3. SumOf(SubtaskScore, E) \in Nat
    BY <1>1, SubtaskSums
  <2> HIDE DEF E
  <2> QED BY <2>1, <2>2, <2>3 DEF E
<1> QED BY <1>2, <1>3

\* One more subtask: it counts fully if the sum covers it, and the submission
\* just judged is among those selected.
LEMMA SummingStep ==
    ASSUME JInv, TInv', NEW w \in Workers, SummingInv(w), ScoreSubtask(w)
    PROVE  SummingInv(w)'
<1>0. TInv /\ WorkerOK /\ problem \in Problems
  BY DEF JInv, TInv
<1>1. PICK g \in worker[w].todo :
         worker' = [worker EXCEPT ![w] =
             [worker[w] EXCEPT !.todo = worker[w].todo \ {g},
                               !.score = worker[w].score + BestPoints(worker[w].mine, g)]]
  BY DEF ScoreSubtask
<1>2. PICK s \in Submissions : SubmissionOf(w) = s /\ On(w, s) /\ worker[w].pc = "score"
  BY <1>0, WorkerRecordFacts DEF ScoreSubtask, On, Busy
<1>3. /\ worker'[w].pc = "score" /\ worker'[w].job = worker[w].job
      /\ worker'[w].user = worker[w].user /\ worker'[w].mine = worker[w].mine
      /\ worker'[w].todo = worker[w].todo \ {g}
      /\ worker'[w].score = worker[w].score + BestPoints(worker[w].mine, g)
  BY <1>0, <1>1, <1>2 DEF WorkerOK, WorkerRecord
<1>4. UNCHANGED database
  BY DEF ScoreSubtask
<1> DEFINE done == problem.subtasks \ worker[w].todo
           mine == worker[w].mine
<1>5. /\ worker[w].todo \subseteq problem.subtasks /\ s \in mine
      /\ worker[w].score <= SumOf(SubtaskScore, EarnedFrom(mine, done))
      /\ worker[w].score >= SumOf(SubtaskScore, Passed(s, done))
      /\ worker[w].score \in Nat
  BY <1>0, <1>2 DEF SummingInv, WorkerOK, WorkerRecord
<1>6. g \in problem.subtasks /\ g \in Subtasks /\ g \notin done
        /\ problem.subtasks \ (worker[w].todo \ {g}) = done \cup {g}
  BY <1>0, <1>5, ProblemsAssumption
<1>7. SubtaskScore[g] \in Nat
  BY <1>6, ScoreAssumption
<1>8. SumOf(SubtaskScore, EarnedFrom(mine, done \cup {g}))
        = BestPoints(mine, g) + SumOf(SubtaskScore, EarnedFrom(mine, done))
  BY <1>0, <1>6, EarnedOneMore
<1>9. SumOf(SubtaskScore, Passed(s, done \cup {g}))
        <= BestPoints(mine, g) + SumOf(SubtaskScore, Passed(s, done))
  <2> DEFINE Q == Passed(s, done)
  <2>1. Q \in SUBSET problem.subtasks /\ g \notin Q
    BY <1>6 DEF Passed
  <2>2. SumOf(SubtaskScore, Q) \in Nat
    BY <1>0, <2>1, SubtaskSums
  <2>3. BestPoints(mine, g) \in Nat
    BY <1>0, <1>6, <1>7, BestPointsIsEarned
  <2>4. CASE SubtaskVerdict(s, g) = "Accepted"
    <3>1. Passed(s, done \cup {g}) = Q \cup {g}
      BY <2>4 DEF Passed
    <3>2. SumOf(SubtaskScore, Q \cup {g}) = SubtaskScore[g] + SumOf(SubtaskScore, Q)
      <4> HIDE DEF Q
      <4> QED BY <1>0, <1>6, <2>1, SubtaskSums
    <3>3. Points(s, g) = SubtaskScore[g]
      <4>1. Reduced(s, SubtasksOf(s)) /\ SubtasksOf(s) = problem.subtasks
        <5>1. Judged(s)
          BY <1>2, Parts DEF VerdictInv, WorkingInv, AfterVerdict
        <5> QED BY <5>1, Parts DEF PublishedInv, Settled
      <4>2. <<s, g>> \in DOMAIN subtask_results
        BY <1>6, <4>1 DEF SubtasksOf, get_subtasks_for_submission
      <4> QED BY <1>6, <2>4, <4>1, <4>2
              DEF Reduced, SubtaskPoints, Points, get_subtask_points_result
    <3>4. BestPoints(mine, g) = SubtaskScore[g]
      <4>1. CASE SubtaskScore[g] = 0
        BY <1>0, <1>6, <4>1, BestPointsIsEarned
      <4>2. CASE SubtaskScore[g] # 0
        BY <1>0, <1>5, <1>6, <3>3, <4>2, BestPointsIsEarned
      <4> QED BY <4>1, <4>2
    <3>5. SumOf(SubtaskScore, Passed(s, done \cup {g}))
            = BestPoints(mine, g) + SumOf(SubtaskScore, Q)
      BY <3>1, <3>2, <3>4
    <3> HIDE DEF done, mine
    <3> QED BY <1>7, <2>2, <2>3, <3>5 DEF Q
  <2>5. CASE SubtaskVerdict(s, g) # "Accepted"
    <3>1. Passed(s, done \cup {g}) = Q
      BY <2>5 DEF Passed
    <3> HIDE DEF Q
    <3> QED BY <2>2, <2>3, <3>1 DEF Q
  <2> QED BY <2>4, <2>5
<1>10. /\ EarnedFrom(mine, done \cup {g}) \in SUBSET problem.subtasks
       /\ EarnedFrom(mine, done) \in SUBSET problem.subtasks
       /\ Passed(s, done \cup {g}) \in SUBSET problem.subtasks
       /\ Passed(s, done) \in SUBSET problem.subtasks
  BY <1>6 DEF EarnedFrom, Passed
<1>11. /\ worker'[w].score <= SumOf(SubtaskScore, EarnedFrom(mine, done \cup {g}))
       /\ worker'[w].score >= SumOf(SubtaskScore, Passed(s, done \cup {g}))
  <2> HIDE DEF done, mine
  <2>1. BestPoints(mine, g) \in Nat
    BY <1>0, <1>6, <1>7, BestPointsIsEarned
  <2>2. /\ SumOf(SubtaskScore, EarnedFrom(mine, done \cup {g})) \in Nat
        /\ SumOf(SubtaskScore, EarnedFrom(mine, done)) \in Nat
        /\ SumOf(SubtaskScore, Passed(s, done \cup {g})) \in Nat
        /\ SumOf(SubtaskScore, Passed(s, done)) \in Nat
    BY <1>0, <1>10, SubtaskSums
  <2> QED BY <1>3, <1>5, <1>8, <1>9, <2>1, <2>2 DEF mine
<1>12. /\ SubmissionOf(w)' = s /\ problem' = problem
       /\ submissions' = submissions /\ Owns(worker[w].user)' = Owns(worker[w].user)
       /\ \A S : EarnedFrom(mine, S)' = EarnedFrom(mine, S)
       /\ \A S : Passed(s, S)' = Passed(s, S)
  BY <1>2, <1>3, <1>4
  DEF database, SubmissionOf, Owns, get_submissions_by_user_for_problem, EarnedFrom,
      Points, get_subtask_points_result, Passed, SubtaskVerdict, get_tests_for_subtask
<1>13. /\ worker[w].user = submissions[s].user_id
       /\ mine \subseteq Owns(worker[w].user)
  BY <1>2 DEF SummingInv
<1> QED BY <1>3, <1>5, <1>6, <1>11, <1>12, <1>13 DEF SummingInv

LEMMA OtherStays ==
    ASSUME JInv, NEW w \in Workers, WorkerStep(w), NEW v \in Workers, v # w
    PROVE  worker'[v] = worker[v]
BY OthersStay DEF JInv, TInv

\* The worker that selects the submissions of the user finds the one it has
\* judged, and its sum starts at 0 with all subtasks to come.
LEMMA SummingOwn ==
    ASSUME JInv, TInv', NEW w \in Workers, SummingInv(w), WorkerStep(w)
    PROVE  SummingInv(w)'
<1>0. TInv /\ WorkerOK /\ problem \in Problems /\ worker[w] \in WorkerRecord
  BY DEF JInv, TInv, WorkerOK
<1> DEFINE Late == {"select_problem_subtasks", "score", "remove"}
<1>1. ASSUME worker'[w].pc \notin Late, worker'[w].score = 0 PROVE SummingInv(w)'
  BY <1>1 DEF SummingInv
<1>2. CASE TakeJob(w)
  <2>1. PICK j : worker' = [worker EXCEPT ![w] =
                     [IdleWorker EXCEPT !.pc = "execute", !.job = j]]
    BY <1>2 DEF TakeJob
  <2>2. worker'[w].pc = "execute" /\ worker'[w].score = 0
    BY <1>0, <2>1 DEF WorkerOK, IdleWorker
  <2> QED BY <1>1, <2>2
<1>3. CASE ExecuteTest(w) \/ StoreResult(w) \/ CountTest(w)
  <2>1. worker[w].pc # "score" /\ worker'[w].pc \in {"store", "count", "read_tests_done"}
          /\ worker'[w].score = worker[w].score
    <3>1. CASE ExecuteTest(w)
      <4>1. PICK v : worker' = [worker EXCEPT ![w] =
                         [worker[w] EXCEPT !.pc = "store", !.verdict = v]]
        BY <3>1 DEF ExecuteTest
      <4> QED BY <1>0, <3>1, <4>1 DEF ExecuteTest, WorkerOK, WorkerRecord
    <3>2. CASE StoreResult(w)
      BY <1>0, <3>2 DEF StoreResult, WorkerOK, WorkerRecord
    <3>3. CASE CountTest(w)
      BY <1>0, <3>3 DEF CountTest, At, WorkerOK, WorkerRecord
    <3> QED BY <1>3, <3>1, <3>2, <3>3
  <2> QED BY <1>1, <2>1 DEF SummingInv
<1>4. CASE ReadTestsDone(w) \/ CompareTotal(w) \/ SelectSubtaskResults(w)
  <2>1. worker[w].pc # "score"
          /\ worker'[w].pc \in {"compare", "select_subtasks", "reduce", "idle"}
          /\ (worker'[w].score = worker[w].score \/ worker'[w].score = 0)
    <3>1. CASE worker' = [worker EXCEPT ![w] = IdleWorker]
      BY <1>0, <1>4, <3>1
      DEF ReadTestsDone, CompareTotal, SelectSubtaskResults, WorkerOK, IdleWorker
    <3>2. ASSUME NEW n, NEW pc \in {"compare", "select_subtasks"},
                 worker' = [worker EXCEPT ![w] =
                               [worker[w] EXCEPT !.pc = pc, !.tests_done = n]]
          PROVE  /\ worker'[w].pc = pc /\ worker'[w].score = worker[w].score
      BY <1>0, <3>2 DEF WorkerOK, WorkerRecord
    <3>3. CASE ReadTestsDone(w)
      BY <3>1, <3>2, <3>3 DEF ReadTestsDone, Return
    <3>4. CASE CompareTotal(w)
      BY <3>1, <3>2, <3>4 DEF CompareTotal, Return
    <3>5. CASE SelectSubtaskResults(w)
      BY <1>0, <3>5 DEF SelectSubtaskResults, WorkerOK, WorkerRecord
    <3> QED BY <1>4, <3>3, <3>4, <3>5
  <2> QED BY <1>1, <2>1 DEF SummingInv
<1>5. CASE ReduceSubtask(w)
  <2>1. PICK todo, result, points :
           worker' = [worker EXCEPT ![w] = [worker[w] EXCEPT !.todo = todo,
                          !.result = result, !.points = points]]
    BY <1>5 DEF ReduceSubtask
  <2>2. worker[w].pc = "reduce" /\ worker'[w].pc = "reduce"
          /\ worker'[w].score = worker[w].score
    BY <1>0, <1>5, <2>1 DEF ReduceSubtask, WorkerOK, WorkerRecord
  <2> QED BY <1>1, <2>2 DEF SummingInv
<1>6. CASE WriteVerdict(w)
  <2>1. worker[w].pc = "reduce" /\ worker'[w].pc = "select_submissions"
          /\ worker'[w].score = worker[w].score
    BY <1>0, <1>6 DEF WriteVerdict, WorkerOK, WorkerRecord
  <2> QED BY <1>1, <2>1 DEF SummingInv
<1>7. CASE SelectSubmissions(w)
  <2>1. PICK s \in Submissions : SubmissionOf(w) = s
    BY <1>0, <1>7, WorkerRecordFacts DEF SelectSubmissions
  <2>2. CASE s \notin DOMAIN submissions
    <3>1. worker'[w] = IdleWorker
      BY <1>0, <1>7, <2>1, <2>2 DEF SelectSubmissions, Return, WorkerOK
    <3> QED BY <1>1, <3>1 DEF IdleWorker
  <2>3. CASE s \in DOMAIN submissions
    <3> DEFINE u == submissions[s].user_id
    <3>1. worker' = [worker EXCEPT ![w] =
              [worker[w] EXCEPT !.pc = "select_problem_subtasks", !.user = u,
                                !.mine = Owns(u)]]
      BY <1>7, <2>1, <2>3 DEF SelectSubmissions, Owns
    <3>2. /\ worker'[w].pc = "select_problem_subtasks" /\ worker'[w].user = u
          /\ worker'[w].mine = Owns(u) /\ worker'[w].score = worker[w].score
          /\ worker'[w].job = worker[w].job
      <4> HIDE DEF u
      <4> QED BY <1>0, <3>1 DEF WorkerOK, WorkerRecord
    <3>3. worker[w].pc # "score" /\ submissions' = submissions
      BY <1>7 DEF SelectSubmissions, database
    <3>4. s \in Owns(u) /\ \A x : Owns(x)' = Owns(x)
      BY <2>3, <3>3 DEF Owns, get_submissions_by_user_for_problem
    <3>5. SubmissionOf(w)' = s
      BY <2>1, <3>2 DEF SubmissionOf
    <3> QED BY <3>2, <3>3, <3>4, <3>5 DEF SummingInv
  <2> QED BY <2>2, <2>3
<1>8. CASE SelectProblemSubtasks(w)
  <2>1. PICK s \in Submissions : SubmissionOf(w) = s
    BY <1>0, <1>8, WorkerRecordFacts DEF SelectProblemSubtasks
  <2>2. /\ worker[w].pc = "select_problem_subtasks"
        /\ worker'[w].pc = "score" /\ worker'[w].todo = problem.subtasks
        /\ worker'[w].user = worker[w].user /\ worker'[w].mine = worker[w].mine
        /\ worker'[w].score = worker[w].score /\ worker'[w].job = worker[w].job
    BY <1>0, <1>8 DEF SelectProblemSubtasks, WorkerOK, WorkerRecord
  <2>3. submissions' = submissions /\ problem' = problem
    BY <1>8 DEF SelectProblemSubtasks, database
  <2>4. worker'[w].score = 0 /\ worker[w].user = submissions[s].user_id
          /\ s \in worker[w].mine /\ worker[w].mine \subseteq Owns(worker[w].user)
    BY <2>1, <2>2 DEF SummingInv
  <2>5. \A x : Owns(x)' = Owns(x)
    BY <2>3 DEF Owns, get_submissions_by_user_for_problem
  <2>6. SubmissionOf(w)' = s
    BY <2>1, <2>2 DEF SubmissionOf
  <2>7. problem'.subtasks \ worker'[w].todo = {}
    BY <2>2, <2>3
  <2>8. EarnedFrom(worker[w].mine, {})' = {} /\ Passed(s, {})' = {}
    BY DEF EarnedFrom, Passed
  <2>9. SumOf(SubtaskScore, {}) = 0
    BY SumEmpty
  <2> QED BY <2>2, <2>3, <2>4, <2>5, <2>6, <2>7, <2>8, <2>9 DEF SummingInv
<1>9. CASE UpsertScore(w)
  <2>1. PICK s \in Submissions : SubmissionOf(w) = s
    BY <1>0, <1>9, WorkerRecordFacts DEF UpsertScore
  <2>2. /\ worker[w].pc = "score" /\ worker'[w].pc = "remove"
        /\ worker'[w].score = 0 /\ worker'[w].job = worker[w].job
    BY <1>0, <1>9 DEF UpsertScore, WorkerOK, WorkerRecord
  <2>3. worker[w].user = submissions[s].user_id
    BY <2>1, <2>2 DEF SummingInv
  <2>4. Scored(s)'
    BY <1>9, <2>3 DEF UpsertScore, Scored, Insert
  <2>5. SubmissionOf(w)' = s
    BY <2>1, <2>2 DEF SubmissionOf
  <2> QED BY <2>2, <2>4, <2>5 DEF SummingInv
<1>10. CASE RemoveExecutable(w)
  <2>1. worker'[w] = IdleWorker
    BY <1>0, <1>10 DEF RemoveExecutable, Return, WorkerOK
  <2> QED BY <1>1, <2>1 DEF IdleWorker
<1> QED
  BY <1>2, <1>3, <1>4, <1>5, <1>6, <1>7, <1>8, <1>9, <1>10, SummingStep DEF WorkerStep

LEMMA SummingInvStep ==
    ASSUME SInv, TInv', [Next]_vars, NEW v \in Workers
    PROVE  SummingInv(v)'
<1>0. JInv /\ SummingInv(v)
  BY DEF SInv
<1>1. CASE worker' = worker
  BY <1>0, <1>1, SummingKept
<1>2. CASE Restart
  <2>1. PICK W : worker' = Spawned(W)
    BY <1>2 DEF Restart
  <2>2. worker'[v].score = 0 /\ worker'[v].pc \in {"idle", "off"}
    BY <2>1 DEF Spawned, IdleWorker, NoWorker
  <2> QED BY <2>2 DEF SummingInv
<1>3. ASSUME NEW w \in Workers, WorkerStep(w) PROVE SummingInv(v)'
  BY <1>0, <1>3, SummingOwn, SummingKept, OtherStays
<1>4. ASSUME NEW s \in Submissions, SubmissionStep(s) PROVE worker' = worker
  BY <1>4 DEF SubmissionStep, HandlerStep, TaskStep, AddSubmission, HandlerDropped,
     SelectSubtasks, InsertSubtaskResult, SelectTests, InsertTestResult, Spawn,
     StartCompiling, CompileFails, CompileSucceeds, SelectJobs, HandOver, DispatchFails
<1> QED BY <1>1, <1>2, <1>3, <1>4 DEF Next, JudgeNext, SubmissionStep, vars

\* The score a worker writes is what the submissions it has selected earn; they
\* are the user's, and what they earn only grows.
LEMMA TotalsStep ==
    ASSUME SInv, TInv', [Next]_vars PROVE TotalsInv'
<1>0. JInv /\ TInv /\ TotalsInv /\ problem \in Problems /\ Grows
  BY StepGrows DEF SInv, JInv
<1> SUFFICES ASSUME NEW u \in DOMAIN user_problem_scores'
             PROVE  user_problem_scores'[u]
                      <= SumOf(SubtaskScore, EarnedFrom(Owns(u), problem.subtasks)')
  BY DEF TotalsInv
<1> DEFINE E == EarnedFrom(Owns(u), problem.subtasks)'
<1>1. E \in SUBSET problem.subtasks
  BY <1>0 DEF Grows, EarnedFrom
<1>2. ASSUME NEW S \in SUBSET Owns(u)
      PROVE  /\ EarnedFrom(S, problem.subtasks) \in SUBSET E
             /\ SumOf(SubtaskScore, EarnedFrom(S, problem.subtasks)) \in Nat
             /\ SumOf(SubtaskScore, E) \in Nat
             /\ SumOf(SubtaskScore, EarnedFrom(S, problem.subtasks)) <= SumOf(SubtaskScore, E)
  <2>1. Owns(u) \subseteq Owns(u)'
    BY <1>0 DEF Grows, Owns, get_submissions_by_user_for_problem
  <2>2. EarnedFrom(S, problem.subtasks) \in SUBSET E
    BY <1>0, <1>2, <2>1 DEF Grows, EarnedFrom
  <2> HIDE DEF E
  <2> QED BY <1>0, <1>1, <2>2, SubtaskSums
<1>3. CASE u \in DOMAIN user_problem_scores /\ user_problem_scores'[u] = user_problem_scores[u]
  <2>1. user_problem_scores[u] \in Nat
    BY <1>0, <1>3 DEF TInv, DatabaseOK, ScoresOK, IsTable
  <2>2. user_problem_scores[u] <= SumOf(SubtaskScore, EarnedFrom(Owns(u), problem.subtasks))
    BY <1>0, <1>3 DEF TotalsInv
  <2> HIDE DEF E
  <2>3. /\ SumOf(SubtaskScore, EarnedFrom(Owns(u), problem.subtasks)) \in Nat
        /\ SumOf(SubtaskScore, E) \in Nat
        /\ SumOf(SubtaskScore, EarnedFrom(Owns(u), problem.subtasks)) <= SumOf(SubtaskScore, E)
    BY <1>2
  <2>4. user_problem_scores'[u] <= SumOf(SubtaskScore, E)
    BY <1>3, <2>1, <2>2, <2>3
  <2> QED BY <2>4 DEF E
<1>4. ASSUME NEW w \in Workers, UpsertScore(w), worker[w].user = u
      PROVE  user_problem_scores'[u] <= SumOf(SubtaskScore, E)
  <2>1. user_problem_scores'[u] = worker[w].score /\ worker[w].pc = "score"
          /\ worker[w].todo = {}
    BY <1>4 DEF UpsertScore, Insert
  <2>2. /\ worker[w].mine \subseteq Owns(u)
        /\ worker[w].score
             <= SumOf(SubtaskScore, EarnedFrom(worker[w].mine, problem.subtasks \ worker[w].todo))
    BY <1>4, <2>1 DEF SInv, SummingInv
  <2>3. problem.subtasks \ worker[w].todo = problem.subtasks
    BY <2>1
  <2>4. worker[w].score \in Nat
    BY <1>0 DEF TInv, WorkerOK, WorkerRecord
  <2> HIDE DEF E
  <2> QED BY <1>2, <2>1, <2>2, <2>3, <2>4
<1>5. CASE user_problem_scores' = user_problem_scores
  BY <1>3, <1>5
<1>6. ASSUME NEW w \in Workers, UpsertScore(w), worker[w].user # u
      PROVE  u \in DOMAIN user_problem_scores /\ user_problem_scores'[u] = user_problem_scores[u]
  BY <1>6 DEF UpsertScore, Insert
<1>7. user_problem_scores' = user_problem_scores \/ \E w \in Workers : UpsertScore(w)
  BY DEF Next, JudgeNext, HandlerStep, TaskStep, WorkerStep, Restart, vars, database,
        AddSubmission, HandlerDropped, SelectSubtasks, InsertSubtaskResult,
        SelectTests, InsertTestResult, Spawn, StartCompiling, CompileFails,
        CompileSucceeds, SelectJobs, HandOver, DispatchFails, TakeJob, ExecuteTest,
        StoreResult, CountTest, ReadTestsDone, CompareTotal, SelectSubtaskResults,
        ReduceSubtask, WriteVerdict, SelectSubmissions, SelectProblemSubtasks,
        ScoreSubtask, RemoveExecutable
<1> QED BY <1>3, <1>4, <1>5, <1>6, <1>7

-----------------------------------------------------------------------------
(***************************************************************************)
(* Somebody finishes every submission whose tests are all counted.         *)
(***************************************************************************)
LEMMA FinishKept ==
    ASSUME JInv, TInv', NEW s \in Submissions, Kept(s), Grows, FinishInv(s),
           s \notin executables => s \notin executables'
    PROVE  FinishInv(s)'
<1>0. TInv
  BY Parts
<1>1. /\ TestsOf(s)' = TestsOf(s) /\ Uncounted(s)' = Uncounted(s)
      /\ \A w \in Workers : On(w, s)' <=> On(w, s)
      /\ \A w \in Workers : On(w, s) => worker'[w] = worker[w]
  BY <1>0, KeptViews
<1>2. AllCounted(s)' <=> AllCounted(s)
  BY <1>1 DEF AllCounted, Kept, KeptRows
<1>3. Finished(s) => Finished(s)'
  BY DEF Finished, Judged, Scored, Grows, Kept, KeptRows
<1>4. \A w \in Workers : On(w, s) /\ Finishing(w, s) => On(w, s)' /\ Finishing(w, s)'
  BY <1>1 DEF Finishing
<1> QED BY <1>2, <1>3, <1>4 DEF FinishInv

\* Its tests have just been handed over, or not yet.
LEMMA FinishTask ==
    ASSUME JInv, TInv', NEW s \in Submissions, SubmissionStep(s)
    PROVE  FinishInv(s)'
<1>0. TaskOK
  BY Parts
<1>1. CASE SelectJobs(s)
  <2>1. task'[s] = [pc |-> "dispatch", todo |-> TestsOf(s)]
    BY <1>0, <1>1, GotoKeeps DEF SelectJobs, TestsOf
  <2>2. TestsOf(s)' = TestsOf(s)
    BY <1>1 DEF SelectJobs, database, TestsOf, get_tests_for_submission
  <2> QED BY <2>1, <2>2 DEF FinishInv, AllCounted, Uncounted, Handing
<1>2. CASE HandOver(s)
  <2>1. PICK t \in task[s].todo : pool' = pool \cup {<<s, t>>}
    BY <1>2 DEF HandOver
  <2>2. t \in Tests
    BY <1>0, <1>2 DEF HandOver, TaskOK, GoodTask
  <2>3. t \in Pooled(s)'
    BY <2>1, <2>2 DEF Pooled
  <2> QED BY <2>3 DEF FinishInv, AllCounted, Uncounted
<1>3. ASSUME ~SelectJobs(s), ~HandOver(s) PROVE task'[s].pc # "dispatch"
  <2>1. CASE StartCompiling(s) \/ CompileFails(s) \/ CompileSucceeds(s) \/ DispatchFails(s)
    BY <1>0, <2>1 DEF StartCompiling, CompileFails, CompileSucceeds, DispatchFails,
                      Goto, TaskOK
  <2>2. CASE AddSubmission(s) \/ SelectSubtasks(s) \/ SelectTests(s) \/ Spawn(s)
               \/ HandlerDropped(s)
    BY <1>0, <2>2 DEF AddSubmission, SelectSubtasks, SelectTests, Spawn,
                      HandlerDropped, Goto, TaskOK
  <2>3. CASE InsertSubtaskResult(s) \/ InsertTestResult(s)
    <3>1. CASE InsertSubtaskResult(s)
      <4>1. PICK x : Goto(s, "insert_subtasks", task[s].todo \ {x})
        BY <3>1 DEF InsertSubtaskResult
      <4> QED BY <1>0, <4>1 DEF Goto, TaskOK
    <3>2. CASE InsertTestResult(s)
      <4>1. PICK x : Goto(s, "insert_tests", task[s].todo \ {x})
        BY <3>2 DEF InsertTestResult
      <4> QED BY <1>0, <4>1 DEF Goto, TaskOK
    <3> QED BY <2>3, <3>1, <3>2
  <2> QED BY <1>3, <2>1, <2>2, <2>3 DEF SubmissionStep, HandlerStep, TaskStep
<1> QED BY <1>1, <1>2, <1>3 DEF FinishInv, AllCounted

\* A worker with a test of s that is not counted.
LEMMA FinishCounting ==
    ASSUME TInv', NEW s \in Submissions, NEW w \in Workers, On(w, s)',
           worker'[w].pc \in {"execute", "store", "count"}
    PROVE  FinishInv(s)'
<1>1. GoodWorker(worker[w])' /\ worker'[w].job \in Submissions \X Tests
  BY DEF TInv, WorkerOK, GoodWorker, On, Busy
<1>2. TestOf(w)' \in Tests /\ worker'[w].job = <<s, TestOf(w)'>>
  BY <1>1 DEF On, SubmissionOf, TestOf
<1>3. TestOf(w)' \in Uncounted(s)'
  BY <1>2 DEF Uncounted, With
<1> QED BY <1>3 DEF FinishInv, AllCounted

\* The worker that reads the counter of s last reads that all are counted; so
\* does every worker that reads it later.  The one that has not read so leaves,
\* and the submission to another.
LEMMA FinishReading ==
    ASSUME JInv, TInv', NEW s \in Submissions, FinishInv(s), NEW w \in Workers, On(w, s),
           ReadTestsDone(w) \/ CompareTotal(w)
    PROVE  FinishInv(s)'
<1>0. TInv /\ WorkerOK /\ worker[w] \in WorkerRecord
  BY DEF JInv, TInv, WorkerOK
<1>1. Moves(w)
  <2>1. WorkerStep(w) /\ worker[w].pc # "idle"
    BY DEF WorkerStep, ReadTestsDone, CompareTotal
  <2> QED BY <1>0, <2>1, BusyMoves
<1>2. SubmissionOf(w) = s /\ UNCHANGED <<database, task, pool, executables>>
  BY DEF On, ReadTestsDone, CompareTotal
<1>3. ASSUME worker'[w].pc \notin {"execute", "store", "count"}
      PROVE  /\ TestsOf(s)' = TestsOf(s) /\ Uncounted(s)' = Uncounted(s)
             /\ s \in DOMAIN submissions /\ task[s].pc = "dispatch"
  <2>1. worker[w].pc \notin {"execute", "store", "count"}
    BY DEF ReadTestsDone, CompareTotal
  <2> QED BY <1>1, <1>2, <1>3, <2>1, Parts, LateFrame DEF database
<1>4. CASE ReadTestsDone(w)
  <2>1. s \in DOMAIN submissions
    <3>1. task[s].pc = "dispatch"
      BY Parts DEF JobsInv
    <3> QED BY <3>1, Parts DEF RowsInv
  <2>2. worker' = [worker EXCEPT ![w] =
            [worker[w] EXCEPT !.pc = "compare", !.tests_done = submissions[s].tests_done]]
    BY <1>2, <1>4, <2>1 DEF ReadTestsDone
  <2>3. worker'[w].pc = "compare" /\ worker'[w].job = worker[w].job
          /\ worker'[w].tests_done = submissions[s].tests_done
    BY <1>0, <2>2 DEF WorkerOK, WorkerRecord
  <2>4. On(w, s)'
    BY <1>2, <2>3 DEF On, Busy, SubmissionOf
  <2>5. TestsOf(s)' = TestsOf(s) /\ Uncounted(s)' = Uncounted(s) /\ task[s].pc = "dispatch"
    BY <1>3, <2>3
  <2>6. ASSUME Uncounted(s) = {} PROVE submissions[s].tests_done = Cardinality(TestsOf(s))
    <3>1. Cardinality(Uncounted(s)) = 0
      BY <2>6, FS_EmptySet
    <3>2. submissions[s].tests_done \in Nat
      BY <1>0, <2>1 DEF TInv, DatabaseOK, SubmissionsOK, IsTable, SubmissionRow
    <3>3. submissions[s].tests_done + Cardinality(Uncounted(s)) = Cardinality(TestsOf(s))
      BY <2>5, Parts DEF CountInv
    <3> QED BY <3>1, <3>2, <3>3
  <2>7. Uncounted(s) = {} => Finishing(w, s)'
    BY <2>3, <2>5, <2>6 DEF Finishing
  <2> QED BY <2>4, <2>5, <2>7 DEF FinishInv, AllCounted
<1>5. CASE CompareTotal(w)
  <2>1. CASE AllTestsDone(s, worker[w].tests_done)
    <3>1. worker' = [worker EXCEPT ![w] =
              [worker[w] EXCEPT !.pc = "select_subtasks", !.tests_done = 0]]
      BY <1>2, <1>5, <2>1 DEF CompareTotal
    <3>2. worker'[w].pc = "select_subtasks" /\ worker'[w].job = worker[w].job
      BY <1>0, <3>1 DEF WorkerOK, WorkerRecord
    <3>3. On(w, s)' /\ Finishing(w, s)'
      BY <1>2, <3>2 DEF On, Busy, SubmissionOf, Finishing, Finalising
    <3> QED BY <3>3 DEF FinishInv
  <2>2. CASE ~AllTestsDone(s, worker[w].tests_done)
    <3>1. worker'[w] = IdleWorker
      BY <1>0, <1>2, <1>5, <2>2 DEF CompareTotal, Return, WorkerOK
    <3>2. TestsOf(s)' = TestsOf(s) /\ Uncounted(s)' = Uncounted(s)
      BY <1>3, <3>1 DEF IdleWorker
    <3>3. ~Finishing(w, s)
      BY <1>5, <2>2 DEF CompareTotal, Finishing, Finalising, AllTestsDone, TestsOf
    <3>4. AllCounted(s)' <=> AllCounted(s)
      BY <1>2, <3>2 DEF AllCounted
    <3>5. Finished(s)' <=> Finished(s)
      BY <1>2 DEF Finished, Judged, Scored, database
    <3>6. \A v \in Workers : v # w /\ On(v, s) /\ Finishing(v, s)
                               => On(v, s)' /\ Finishing(v, s)'
      BY <1>1, <3>2 DEF Moves, On, Busy, SubmissionOf, Finishing
    <3> QED BY <3>3, <3>4, <3>5, <3>6 DEF FinishInv
  <2> QED BY <2>1, <2>2
<1> QED BY <1>4, <1>5

\* A worker that has counted its test, or computes the verdict and the score,
\* is the one that finishes s.
LEMMA FinishGoesOn ==
    ASSUME JInv, TInv', NEW s \in Submissions, NEW w \in Workers, On(w, s),
           \/ CountTest(w) \/ SelectSubtaskResults(w) \/ ReduceSubtask(w)
           \/ WriteVerdict(w) \/ SelectSubmissions(w) \/ SelectProblemSubtasks(w)
           \/ ScoreSubtask(w) \/ UpsertScore(w)
    PROVE  FinishInv(s)'
<1>0. TInv /\ WorkerOK /\ worker[w] \in WorkerRecord /\ SubmissionOf(w) = s
  BY DEF JInv, TInv, WorkerOK, On
<1> SUFFICES ASSUME TRUE
             PROVE  /\ worker'[w].job = worker[w].job
                    /\ worker'[w].pc \in {"read_tests_done"} \cup Finalising
  BY <1>0 DEF FinishInv, On, Busy, SubmissionOf, Finishing, Finalising
<1>1. CASE CountTest(w)
  BY <1>0, <1>1 DEF CountTest, At, WorkerOK, WorkerRecord
<1>2. CASE SelectSubtaskResults(w)
  BY <1>0, <1>2 DEF SelectSubtaskResults, Finalising, WorkerOK, WorkerRecord
<1>3. CASE ReduceSubtask(w)
  <2>1. PICK todo, result, points :
           worker' = [worker EXCEPT ![w] = [worker[w] EXCEPT !.todo = todo,
                          !.result = result, !.points = points]]
    BY <1>3 DEF ReduceSubtask
  <2> QED BY <1>0, <1>3, <2>1 DEF ReduceSubtask, Finalising, WorkerOK, WorkerRecord
<1>4. CASE WriteVerdict(w)
  BY <1>0, <1>4 DEF WriteVerdict, Finalising, WorkerOK, WorkerRecord
<1>5. CASE SelectSubmissions(w)
  <2>1. s \in DOMAIN submissions
    <3>1. task[s].pc = "dispatch"
      BY Parts DEF JobsInv
    <3> QED BY <3>1, Parts DEF RowsInv
  <2>2. PICK u, mine :
           worker' = [worker EXCEPT ![w] =
               [worker[w] EXCEPT !.pc = "select_problem_subtasks",
                                 !.user = u, !.mine = mine]]
    BY <1>0, <1>5, <2>1 DEF SelectSubmissions
  <2> QED BY <1>0, <2>2 DEF Finalising, WorkerOK, WorkerRecord
<1>6. CASE SelectProblemSubtasks(w)
  BY <1>0, <1>6 DEF SelectProblemSubtasks, Finalising, WorkerOK, WorkerRecord
<1>7. CASE ScoreSubtask(w)
  <2>1. PICK todo, score :
           worker' = [worker EXCEPT ![w] =
               [worker[w] EXCEPT !.todo = todo, !.score = score]]
    BY <1>7 DEF ScoreSubtask
  <2> QED BY <1>0, <1>7, <2>1 DEF ScoreSubtask, Finalising, WorkerOK, WorkerRecord
<1>8. CASE UpsertScore(w)
  BY <1>0, <1>8 DEF UpsertScore, Finalising, WorkerOK, WorkerRecord
<1> QED BY <1>1, <1>2, <1>3, <1>4, <1>5, <1>6, <1>7, <1>8

LEMMA FinishRemoves ==
    ASSUME JInv, NEW s \in Submissions, NEW w \in Workers, On(w, s), SummingInv(w),
           RemoveExecutable(w)
    PROVE  FinishInv(s)'
<1>1. SubmissionOf(w) = s /\ worker[w].pc = "remove"
  BY DEF On, RemoveExecutable
<1>2. Judged(s) /\ Scored(s)
  BY <1>1, Parts DEF VerdictInv, WorkingInv, AfterVerdict, SummingInv
<1>3. s \notin executables' /\ UNCHANGED database
  BY <1>1 DEF RemoveExecutable
<1>4. Finished(s)'
  BY <1>2, <1>3 DEF Finished, Judged, Scored, database
<1> QED BY <1>4 DEF FinishInv

LEMMA FinishStep ==
    ASSUME SInv, TInv', [Next]_vars, NEW s \in Submissions
    PROVE  FinishInv(s)'
<1>0. JInv /\ TInv /\ FinishInv(s) /\ Grows /\ TaskOK
  BY StepGrows, Parts DEF SInv
<1>1. CASE UNCHANGED vars
  <2>1. Kept(s) /\ executables' = executables
    BY <1>1 DEF vars, database, Kept, KeptRows, KeptWorkers
  <2> QED BY <1>0, <2>1, FinishKept
<1>2. CASE Restart
  <2>1. task'[s].pc # "dispatch"
    BY <1>2 DEF Restart, NoTask
  <2> QED BY <2>1 DEF FinishInv, AllCounted
<1>3. ASSUME NEW r \in Submissions, SubmissionStep(r) PROVE FinishInv(s)'
  <2>1. CASE r = s
    BY <1>0, <1>3, <2>1, FinishTask
  <2>2. CASE r # s
    <3>1. s \notin executables => s \notin executables'
      BY <1>3, <2>2
      DEF SubmissionStep, HandlerStep, TaskStep, AddSubmission, HandlerDropped,
          SelectSubtasks, InsertSubtaskResult, SelectTests, InsertTestResult,
          Spawn, StartCompiling, CompileFails, CompileSucceeds, SelectJobs,
          HandOver, DispatchFails
    <3> QED BY <1>0, <1>3, <2>2, <3>1, TaskKeepsOthers, FinishKept
  <2> QED BY <2>1, <2>2
<1>4. ASSUME NEW w \in Workers, WorkerStep(w) PROVE FinishInv(s)'
  <2>1. CASE ~On(w, s) /\ ~On(w, s)'
    <3>1. s \notin executables => s \notin executables'
      BY <1>4
      DEF WorkerStep, TakeJob, ExecuteTest, StoreResult, CountTest, ReadTestsDone,
          CompareTotal, SelectSubtaskResults, ReduceSubtask, WriteVerdict,
          SelectSubmissions, SelectProblemSubtasks, ScoreSubtask, UpsertScore,
          RemoveExecutable
    <3> QED BY <1>0, <1>4, <2>1, <3>1, WorkerKeepsOthers, FinishKept
  <2>2. CASE worker[w].pc = "idle" /\ On(w, s)'
    <3>1. TakeJob(w)
      BY <1>4, <2>2 DEF WorkerStep, ExecuteTest, StoreResult, CountTest, ReadTestsDone,
                CompareTotal, SelectSubtaskResults, ReduceSubtask, WriteVerdict,
                SelectSubmissions, SelectProblemSubtasks, ScoreSubtask, UpsertScore,
                RemoveExecutable
    <3>2. PICK j : worker' = [worker EXCEPT ![w] =
                       [IdleWorker EXCEPT !.pc = "execute", !.job = j]]
      BY <3>1 DEF TakeJob
    <3>3. worker'[w].pc = "execute"
      BY <1>0, <3>2 DEF TInv, WorkerOK, IdleWorker
    <3> QED BY <2>2, <3>3, FinishCounting
  <2>3. CASE worker[w].pc # "idle"
    <3>1. Moves(w) /\ (On(w, s)' => On(w, s))
      <4>1. Moves(w)
        BY <1>0, <1>4, <2>3, BusyMoves
      <4>2. worker[w].pc # "off"
        BY <1>4 DEF WorkerStep, TakeJob, ExecuteTest, StoreResult, CountTest,
                ReadTestsDone, CompareTotal, SelectSubtaskResults, ReduceSubtask,
                WriteVerdict, SelectSubmissions, SelectProblemSubtasks, ScoreSubtask,
                UpsertScore, RemoveExecutable
      <4> QED BY <2>3, <4>1, <4>2 DEF Moves, On, Busy, SubmissionOf
    <3>2. CASE On(w, s)
      <4>1. CASE ExecuteTest(w) \/ StoreResult(w)
        <5>1. worker'[w].pc \in {"store", "count"} /\ worker'[w].job = worker[w].job
          <6>1. CASE ExecuteTest(w)
            <7>1. PICK v : worker' = [worker EXCEPT ![w] =
                               [worker[w] EXCEPT !.pc = "store", !.verdict = v]]
              BY <6>1 DEF ExecuteTest
            <7> QED BY <1>0, <7>1 DEF TInv, WorkerOK, WorkerRecord
          <6>2. CASE StoreResult(w)
            BY <1>0, <6>2 DEF StoreResult, TInv, WorkerOK, WorkerRecord
          <6> QED BY <4>1, <6>1, <6>2
        <5>2. On(w, s)'
          BY <3>2, <5>1 DEF On, Busy, SubmissionOf
        <5> QED BY <5>1, <5>2, FinishCounting
      <4>2. CASE ReadTestsDone(w) \/ CompareTotal(w)
        BY <1>0, <3>2, <4>2, FinishReading
      <4>3. CASE RemoveExecutable(w)
        BY <1>0, <3>2, <4>3, FinishRemoves DEF SInv
      <4>4. CASE TakeJob(w)
        BY <2>3, <4>4 DEF TakeJob
      <4> QED BY <1>0, <1>4, <3>2, <4>1, <4>2, <4>3, <4>4, FinishGoesOn DEF WorkerStep
    <3> QED BY <2>1, <3>1, <3>2
  <2>4. CASE worker[w].pc = "idle" /\ ~On(w, s)'
    BY <2>1, <2>4 DEF On, Busy
  <2> QED BY <2>2, <2>3, <2>4
<1> QED BY <1>1, <1>2, <1>3, <1>4 DEF Next, JudgeNext, SubmissionStep

-----------------------------------------------------------------------------
LEMMA SInvInit == Init => SInv
<1> SUFFICES ASSUME Init PROVE SInv
  OBVIOUS
<1>1. JInv
  BY JInvInit
<1>2. \A w \in Workers : SummingInv(w)
  <2> SUFFICES ASSUME NEW w \in Workers PROVE SummingInv(w)
    OBVIOUS
  <2>1. PICK W : worker = Spawned(W)
    BY DEF Init
  <2>2. worker[w].score = 0 /\ worker[w].pc \in {"idle", "off"}
    BY <2>1 DEF Spawned, IdleWorker, NoWorker
  <2> QED BY <2>2 DEF SummingInv
<1>3. \A s \in Submissions : FinishInv(s)
  BY DEF Init, NoTask, FinishInv, AllCounted
<1>4. TotalsInv
  BY DEF Init, EmptyTable, TotalsInv
<1> QED BY <1>1, <1>2, <1>3, <1>4 DEF SInv

LEMMA SInvStep == SInv /\ [Next]_vars => SInv'
<1> SUFFICES ASSUME SInv, [Next]_vars PROVE SInv'
  OBVIOUS
<1>1. JInv' /\ TInv'
  BY JInvStep DEF SInv, JInv
<1> QED BY <1>1, SummingInvStep, FinishStep, TotalsStep DEF SInv

LEMMA SInvInvariant == Safe => []SInv
BY SInvInit, SInvStep, PTL DEF Safe

-----------------------------------------------------------------------------
(***************************************************************************)
(* Of two workers that count the last two tests of a submission either may *)
(* be the one that finishes it, or both are; somebody is                   *)
(* (worker_test_is_done, worker.rs).                                       *)
(***************************************************************************)
THEOREM SomeoneAlwaysFinalises == Safe => []SomeoneFinalises
<1>1. SInv => SomeoneFinalises
  <2> SUFFICES ASSUME SInv, NEW s \in DOMAIN submissions,
                      task[s].pc = "dispatch",
                      get_tests_for_submission(s) # {},
                      submissions[s].tests_done = Cardinality(get_tests_for_submission(s)),
                      \A w \in Workers : Busy(w) => SubmissionOf(w) # s
               PROVE  Finished(s)
    BY DEF SomeoneFinalises, Finished, Scored
  <2>1. JInv /\ TInv
    BY DEF SInv, JInv
  <2>2. s \in Submissions /\ submissions[s].tests_done \in Nat
    BY <2>1 DEF TInv, DatabaseOK, SubmissionsOK, IsTable, SubmissionRow
  <2>3. submissions[s].tests_done + Cardinality(Uncounted(s)) = Cardinality(TestsOf(s))
    BY <2>1, <2>2, Parts DEF CountInv
  <2>4. IsFiniteSet(Uncounted(s)) /\ Cardinality(Uncounted(s)) \in Nat
    BY <2>1, <2>2, Parts, UncountedTests
  <2>5. Cardinality(Uncounted(s)) = 0
    BY <2>2, <2>3, <2>4 DEF TestsOf
  <2>6. Uncounted(s) = {}
    BY <2>4, <2>5, FS_EmptySet
  <2>7. AllCounted(s)
    BY <2>6 DEF AllCounted, TestsOf
  <2> QED BY <2>2, <2>7 DEF SInv, FinishInv, On
<1> QED BY <1>1, SInvInvariant, PTL

LEMMA EarnedIsSum ==
    ASSUME TInv, NEW u
    PROVE  Earned(u) = SumOf(SubtaskScore, EarnedFrom(Owns(u), problem.subtasks))
BY DEF Earned, SumOf, EarnedFrom, Owns, get_submissions_by_user_for_problem, Points

\* However many workers write the score of a user at the same time, it is never
\* more than the submissions of that user earn together
\* (update_user_score_for_problem, database/user.rs).
THEOREM ScoresAreEarned == Safe => []ScoreIsEarned
<1>1. SInv => ScoreIsEarned
  BY EarnedIsSum DEF ScoreIsEarned, SInv, JInv, TotalsInv
<1> QED BY <1>1, SInvInvariant, PTL

\* A worker writes at least the points of the submission it has just judged:
\* that submission is among those it selected, with its points written.
THEOREM ScoresCoverOwnPoints == Safe => ScoreCoversOwnPoints
<1>1. SInv /\ [Next]_vars => CoversOwnPoints
  <2> SUFFICES ASSUME SInv, [Next]_vars, NEW w \in Workers,
                      worker[w].pc = "score", worker'[w].pc = "remove"
               PROVE  user_problem_scores'[worker[w].user]
                        >= submissions[SubmissionOf(w)].points
    BY DEF CoversOwnPoints
  <2>1. JInv /\ TInv /\ WorkerOK /\ problem \in Problems /\ worker[w] \in WorkerRecord
    BY DEF SInv, JInv, TInv, WorkerOK
  <2>2. PICK s \in Submissions : SubmissionOf(w) = s /\ On(w, s)
    BY <2>1, WorkerRecordFacts DEF On, Busy
  <2>3. UpsertScore(w)
    <3>1. worker'[w] # worker[w]
      OBVIOUS
    <3>2. WorkerStep(w)
      <4>1. ~UNCHANGED vars
        BY <3>1 DEF vars
      <4>2. ~Restart
        <5> SUFFICES ASSUME Restart PROVE FALSE
          OBVIOUS
        <5>1. PICK W : worker' = Spawned(W)
          BY DEF Restart
        <5> QED BY <5>1 DEF Spawned, IdleWorker, NoWorker
      <4>3. ASSUME NEW r \in Submissions, SubmissionStep(r) PROVE FALSE
        BY <3>1, <4>3
        DEF SubmissionStep, HandlerStep, TaskStep, AddSubmission, HandlerDropped,
            SelectSubtasks, InsertSubtaskResult, SelectTests, InsertTestResult,
            Spawn, StartCompiling, CompileFails, CompileSucceeds, SelectJobs,
            HandOver, DispatchFails
      <4>4. PICK v \in Workers : WorkerStep(v)
        BY <4>1, <4>2, <4>3 DEF Next, JudgeNext, SubmissionStep
      <4> QED BY <2>1, <3>1, <4>4, OtherStays
    <3>3. ~ScoreSubtask(w)
      <4> SUFFICES ASSUME ScoreSubtask(w) PROVE FALSE
        OBVIOUS
      <4>1. PICK todo, score :
               worker' = [worker EXCEPT ![w] =
                   [worker[w] EXCEPT !.todo = todo, !.score = score]]
        BY DEF ScoreSubtask
      <4> QED BY <2>1, <4>1 DEF WorkerOK, WorkerRecord
    <3> QED BY <3>2, <3>3
            DEF WorkerStep, TakeJob, ExecuteTest, StoreResult, CountTest, ReadTestsDone,
                CompareTotal, SelectSubtaskResults, ReduceSubtask, WriteVerdict,
                SelectSubmissions, SelectProblemSubtasks, RemoveExecutable
  <2>4. user_problem_scores'[worker[w].user] = worker[w].score /\ worker[w].todo = {}
    BY <2>3 DEF UpsertScore, Insert
  <2>5. worker[w].score >= SumOf(SubtaskScore, Passed(s, problem.subtasks \ worker[w].todo))
    BY <2>2 DEF SInv, SummingInv
  <2>6. submissions[s].points = SumOf(SubtaskScore, Passed(s, problem.subtasks))
    <3>1. Judged(s)
      BY <2>1, <2>2, Parts DEF VerdictInv, WorkingInv, AfterVerdict
    <3> QED BY <2>1, <3>1, Parts DEF PublishedInv, Settled, Accumulated
  <2>7. problem.subtasks \ worker[w].todo = problem.subtasks
    BY <2>4
  <2> QED BY <2>2, <2>4, <2>5, <2>6, <2>7
<1> QED BY <1>1, SInvInvariant, PTL DEF Safe, ScoreCoversOwnPoints

-----------------------------------------------------------------------------
(***************************************************************************)
(* The score is exact while a single worker runs and the server has not    *)
(* been restarted.                                                         *)
(***************************************************************************)
Only(w) == restarts = 0 /\ RunningWorkers = {w}

\* From the first write of points to the write of the score.
Scoring == {"reduce", "select_submissions", "select_problem_subtasks", "score"}

ScoringFor(w, u) ==
    worker[w].pc \in Scoring /\ submissions[SubmissionOf(w)].user_id = u

UpToDate(u) ==
    /\ u \in DOMAIN user_problem_scores
    /\ user_problem_scores[u] = SumOf(SubtaskScore, EarnedFrom(Owns(u), problem.subtasks))

\* Only w has points of a submission that is not judged yet; it selects every
\* judged submission of the user, sums what they earn, and until it has written
\* the score that user is the only one whose score is not up to date.
ExactInv(w) ==
    Only(w) =>
       /\ \A r, g : Points(r, g) # 0 =>
             Judged(r) \/ (worker[w].pc = "reduce" /\ SubmissionOf(w) = r)
       /\ worker[w].pc \in {"select_problem_subtasks", "score"} =>
             {r \in Owns(worker[w].user) : Judged(r)} \subseteq worker[w].mine
       /\ worker[w].pc = "score" =>
             worker[w].score =
                 SumOf(SubtaskScore, EarnedFrom(worker[w].mine, problem.subtasks \ worker[w].todo))
       /\ \A s \in Submissions : Judged(s) =>
             LET u == submissions[s].user_id IN ScoringFor(w, u) \/ UpToDate(u)

EInv == SInv /\ \A w \in Workers : ExactInv(w)

LEMMA RunningStay ==
    ASSUME JInv, [Next]_vars, ~Restart
    PROVE  RunningWorkers' = RunningWorkers /\ restarts' = restarts
<1>0. WorkerOK
  BY DEF JInv, TInv
<1>1. CASE UNCHANGED vars
  BY <1>1 DEF vars, RunningWorkers
<1>2. ASSUME NEW s \in Submissions, SubmissionStep(s)
      PROVE  worker' = worker /\ restarts' = restarts
  BY <1>2
  DEF SubmissionStep, HandlerStep, TaskStep, AddSubmission, HandlerDropped,
      SelectSubtasks, InsertSubtaskResult, SelectTests, InsertTestResult, Spawn,
      StartCompiling, CompileFails, CompileSucceeds, SelectJobs, HandOver, DispatchFails
<1>3. ASSUME NEW w \in Workers, WorkerStep(w)
      PROVE  RunningWorkers' = RunningWorkers /\ restarts' = restarts
  <2>1. worker[w].pc # "off" /\ restarts' = restarts
    BY <1>3 DEF WorkerStep, TakeJob, ExecuteTest, StoreResult, CountTest,
                ReadTestsDone, CompareTotal, SelectSubtaskResults, ReduceSubtask,
                WriteVerdict, SelectSubmissions, SelectProblemSubtasks, ScoreSubtask,
                UpsertScore, RemoveExecutable
  <2>2. worker'[w].pc # "off"
    <3>1. CASE worker[w].pc = "idle"
      <4>1. TakeJob(w)
        BY <1>3, <3>1 DEF WorkerStep, ExecuteTest, StoreResult, CountTest,
                ReadTestsDone, CompareTotal, SelectSubtaskResults, ReduceSubtask,
                WriteVerdict, SelectSubmissions, SelectProblemSubtasks, ScoreSubtask,
                UpsertScore, RemoveExecutable
      <4>2. PICK j : worker' = [worker EXCEPT ![w] =
                         [IdleWorker EXCEPT !.pc = "execute", !.job = j]]
        BY <4>1 DEF TakeJob
      <4> QED BY <1>0, <4>2 DEF WorkerOK, IdleWorker
    <3> QED BY <1>0, <1>3, <3>1, BusyMoves DEF JInv, Moves
  <2>3. \A v \in Workers : v # w => worker'[v] = worker[v]
    BY <1>3, OtherStays
  <2> QED BY <2>1, <2>2, <2>3 DEF RunningWorkers
<1> QED BY <1>1, <1>2, <1>3 DEF Next, JudgeNext, SubmissionStep, RunningWorkers

\* A step that judges nothing, gives no points and writes no score.
Calm ==
    /\ problem' = problem
    /\ user_problem_scores' = user_problem_scores
    /\ \A r, g : Points(r, g)' = Points(r, g)
    /\ \A r : Judged(r)' <=> Judged(r)
    /\ \A r \in DOMAIN submissions :
          r \in DOMAIN submissions' /\ submissions'[r].user_id = submissions[r].user_id
    /\ \A r \in DOMAIN submissions' : \A g : r \notin DOMAIN submissions => Points(r, g) = 0

LEMMA CalmViews ==
    ASSUME Calm
    PROVE  /\ \A R, S : EarnedFrom(R, S)' = EarnedFrom(R, S)
           /\ \A u : {r \in Owns(u) : Judged(r)}' = {r \in Owns(u) : Judged(r)}
           /\ \A u : UpToDate(u)' <=> UpToDate(u)
<1>1. \A R, S : EarnedFrom(R, S)' = EarnedFrom(R, S)
  BY DEF Calm, EarnedFrom
<1>2. \A u : {r \in Owns(u) : Judged(r)}' = {r \in Owns(u) : Judged(r)}
  BY DEF Calm, Owns, get_submissions_by_user_for_problem, Judged
<1>3. \A u : EarnedFrom(Owns(u), problem.subtasks)' = EarnedFrom(Owns(u), problem.subtasks)
  BY DEF Calm, EarnedFrom, Owns, get_submissions_by_user_for_problem
<1> QED BY <1>1, <1>2, <1>3 DEF Calm, UpToDate

LEMMA CalmTask ==
    ASSUME JInv, JInv', NEW s \in Submissions, SubmissionStep(s)
    PROVE  Calm
<1>0. TInv /\ RowsInv(s) /\ Grows
  <2>1. TInv'
    BY DEF JInv
  <2>2. Grows
    BY <2>1, TaskGrows
  <2> QED BY <2>2, Parts
<1>1. user_problem_scores' = user_problem_scores
  BY DEF SubmissionStep, HandlerStep, TaskStep, AddSubmission, HandlerDropped,
     SelectSubtasks, InsertSubtaskResult, SelectTests, InsertTestResult, Spawn,
     StartCompiling, CompileFails, CompileSucceeds, SelectJobs, HandOver,
     DispatchFails, database
<1>2. \A r, g : Points(r, g)' = Points(r, g)
  <2>1. CASE InsertSubtaskResult(s)
    <3>1. PICK g : subtask_results' = Insert(subtask_results, <<s, g>>,
                                             [result |-> "InQueue", points |-> 0])
      BY <2>1 DEF InsertSubtaskResult
    <3>2. \A r, h : Points(r, h) = 0 => Points(r, h)' = 0
      BY <3>1 DEF Points, get_subtask_points_result, Insert
    <3> QED BY <1>0, <3>2 DEF Grows
  <2>2. CASE CompileSucceeds(s)
    <3>1. /\ DOMAIN subtask_results' = DOMAIN subtask_results
          /\ \A k \in DOMAIN subtask_results :
                subtask_results'[k].points = subtask_results[k].points
      BY <1>0, <2>2 DEF CompileSucceeds, TInv, DatabaseOK, SubtaskResultsOK, IsTable,
                        SubtaskResultRow
    <3> QED BY <3>1 DEF Points, get_subtask_points_result
  <2>3. CASE subtask_results' = subtask_results
    BY <2>3 DEF Points, get_subtask_points_result
  <2> QED BY <2>1, <2>2, <2>3
          DEF SubmissionStep, HandlerStep, TaskStep, AddSubmission, HandlerDropped,
              SelectSubtasks, SelectTests, InsertTestResult, Spawn, StartCompiling,
              CompileFails, SelectJobs, HandOver, DispatchFails, database
<1>3. CASE submissions' = submissions
  BY <1>0, <1>1, <1>2, <1>3 DEF Calm, Grows, Judged
<1>4. CASE AddSubmission(s)
  <2>1. PICK u : submissions' = Insert(submissions, s,
            [user_id |-> u, result |-> "InQueue", points |-> 0, tests_done |-> 0])
    BY <1>4 DEF AddSubmission
  <2>2. s \notin DOMAIN submissions /\ \A g : Points(s, g) = 0
    <3>1. SubtasksOf(s) = {} /\ s \notin DOMAIN submissions
      BY <1>0, <1>4 DEF AddSubmission, RowsInv
    <3>2. \A g : <<s, g>> \notin DOMAIN subtask_results
      BY <1>0, <3>1 DEF SubtasksOf, get_subtasks_for_submission, TInv, DatabaseOK,
                        SubtaskResultsOK, IsTable
    <3> QED BY <3>1, <3>2 DEF Points, get_subtask_points_result
  <2>3. /\ \A r : Judged(r)' <=> Judged(r)
        /\ \A r \in DOMAIN submissions' : r \in DOMAIN submissions \/ r = s
    BY <2>1, <2>2 DEF Insert, Judged, Unfinished
  <2> QED BY <1>0, <1>1, <1>2, <2>2, <2>3 DEF Calm, Grows
<1>5. ASSUME StartCompiling(s) \/ CompileFails(s) \/ CompileSucceeds(s) PROVE Calm
  <2>1. PICK to \in {"Compiling", "CompilationError", "Testing"} :
           set_submission_result(s, to)
    BY <1>5 DEF StartCompiling, CompileFails, CompileSucceeds
  <2>2. DOMAIN submissions' = DOMAIN submissions
    BY <2>1 DEF set_submission_result
  <2>3. ~Judged(s)
    <3>1. task[s].pc \in {"queued", "compile"}
      BY <1>5 DEF StartCompiling, CompileFails, CompileSucceeds
    <3> QED BY <3>1, Parts DEF PublishedInv, Settled
  <2>4. ~Judged(s)'
    <3>1. CASE s \in DOMAIN submissions
      <4>1. submissions[s] \in SubmissionRow
        BY <1>0, <3>1 DEF TInv, DatabaseOK, SubmissionsOK, IsTable
      <4>2. submissions'[s].result = to
        BY <2>1, <3>1, <4>1 DEF set_submission_result, SubmissionRow
      <4> QED BY <4>2 DEF Judged, Unfinished
    <3>2. CASE s \notin DOMAIN submissions
      BY <2>2, <3>2 DEF Judged
    <3> QED BY <3>1, <3>2
  <2>5. \A r : r # s => (Judged(r)' <=> Judged(r))
    BY <2>1 DEF set_submission_result, Judged
  <2> QED BY <1>0, <1>1, <1>2, <2>2, <2>3, <2>4, <2>5 DEF Calm, Grows
<1> QED
  BY <1>3, <1>4, <1>5
  DEF SubmissionStep, HandlerStep, TaskStep, HandlerDropped,
      SelectSubtasks, InsertSubtaskResult, SelectTests, InsertTestResult, Spawn,
      SelectJobs, HandOver, DispatchFails, database

LEMMA CalmWorker ==
    ASSUME JInv, NEW w \in Workers, WorkerStep(w),
           ~ReduceSubtask(w), ~WriteVerdict(w), ~UpsertScore(w)
    PROVE  Calm
<1>0. TInv /\ Grows
  BY WorkerGrows DEF JInv
<1>1. CASE UNCHANGED <<submissions, subtask_results, user_problem_scores>>
  BY <1>0, <1>1 DEF Calm, Grows, Points, get_subtask_points_result, Judged
<1>2. CASE CountTest(w)
  <2>1. UNCHANGED <<subtask_results, user_problem_scores>>
    BY <1>2 DEF CountTest
  <2>2. DOMAIN submissions' = DOMAIN submissions
    BY <1>2 DEF CountTest
  <2>3. ASSUME NEW r \in DOMAIN submissions
        PROVE  submissions'[r].result = submissions[r].result
    <3>1. submissions[r] \in SubmissionRow
      BY <1>0 DEF TInv, DatabaseOK, SubmissionsOK, IsTable
    <3> QED BY <1>2, <3>1 DEF CountTest, SubmissionRow
  <2> QED BY <1>0, <2>1, <2>2, <2>3 DEF Calm, Grows, Points, get_subtask_points_result, Judged
<1> QED
  BY <1>1, <1>2
  DEF WorkerStep, TakeJob, ExecuteTest, StoreResult, ReadTestsDone, CompareTotal,
      SelectSubtaskResults, SelectSubmissions, SelectProblemSubtasks, ScoreSubtask,
      RemoveExecutable, database

LEMMA BusyHasRow ==
    ASSUME JInv, NEW w \in Workers, Busy(w)
    PROVE  \E s \in Submissions : On(w, s) /\ s \in DOMAIN submissions
<1>1. SubmissionOf(w) \in Submissions
  BY WorkerRecordFacts DEF JInv, TInv, Busy
<1>2. PICK s \in Submissions : On(w, s)
  BY <1>1 DEF On
<1>3. task[s].pc = "dispatch"
  BY <1>2, Parts DEF JobsInv
<1> QED BY <1>2, <1>3, Parts DEF RowsInv

LEMMA ExactKept ==
    ASSUME JInv, NEW w \in Workers, ExactInv(w), Only(w), Calm, worker'[w] = worker[w]
    PROVE  ExactInv(w)'
<1>1. SubmissionOf(w)' = SubmissionOf(w)
  BY DEF SubmissionOf
<1>2. \A r \in DOMAIN submissions : Judged(r)' => Judged(r)
  BY DEF Calm
<1>3. ASSUME NEW s \in Submissions, Judged(s)'
      PROVE  ScoringFor(w, submissions[s].user_id)' \/ UpToDate(submissions[s].user_id)'
  <2>1. Judged(s) /\ s \in DOMAIN submissions
    BY <1>3 DEF Calm, Judged
  <2>2. submissions'[s].user_id = submissions[s].user_id
    BY <2>1 DEF Calm
  <2>3. CASE UpToDate(submissions[s].user_id)
    BY <2>2, <2>3, CalmViews
  <2>4. CASE ScoringFor(w, submissions[s].user_id)
    <3>1. Busy(w)
      BY <2>4 DEF ScoringFor, Scoring, Busy
    <3>2. SubmissionOf(w) \in DOMAIN submissions
      BY <3>1, BusyHasRow DEF On
    <3> QED BY <1>1, <2>2, <2>4, <3>2 DEF ScoringFor, Calm
  <2> QED BY <2>1, <2>3, <2>4 DEF ExactInv
<1>4. \A r, g : Points(r, g)' # 0 =>
          Judged(r)' \/ (worker'[w].pc = "reduce" /\ SubmissionOf(w)' = r)
  BY <1>1 DEF ExactInv, Calm
<1>5. problem' = problem
  BY DEF Calm
<1>6. /\ worker[w].pc \in {"select_problem_subtasks", "score"} =>
             {r \in Owns(worker[w].user) : Judged(r)} \subseteq worker[w].mine
      /\ worker[w].pc = "score" =>
             worker[w].score =
                 SumOf(SubtaskScore, EarnedFrom(worker[w].mine, problem.subtasks \ worker[w].todo))
  BY DEF ExactInv
<1>7. /\ \A R, S : EarnedFrom(R, S)' = EarnedFrom(R, S)
      /\ \A u : {r \in Owns(u) : Judged(r)}' = {r \in Owns(u) : Judged(r)}
  BY CalmViews
<1> QED BY <1>3, <1>4, <1>5, <1>6, <1>7 DEF ExactInv

\* A worker between jobs, or with a test: every score is up to date.
LEMMA ExactEarly ==
    ASSUME NEW w \in Workers, ExactInv(w), Only(w), Calm,
           worker[w].pc \notin Scoring, worker'[w].pc \notin Scoring \ {"reduce"}
    PROVE  ExactInv(w)'
<1>1. \A r, g : Points(r, g)' # 0 => Judged(r)'
  BY DEF ExactInv, Calm, Scoring
<1>2. ASSUME NEW s \in Submissions, Judged(s)' PROVE UpToDate(submissions[s].user_id)'
  <2>1. Judged(s) /\ s \in DOMAIN submissions
    BY <1>2 DEF Calm, Judged
  <2>2. submissions'[s].user_id = submissions[s].user_id
    BY <2>1 DEF Calm
  <2>3. UpToDate(submissions[s].user_id)
    BY <2>1 DEF ExactInv, ScoringFor
  <2> QED BY <2>2, <2>3, CalmViews
<1>3. worker'[w].pc \notin {"select_problem_subtasks", "score"}
  BY DEF Scoring
<1> QED BY <1>1, <1>2, <1>3 DEF ExactInv

\* A worker that computes the score.
LEMMA ExactLate ==
    ASSUME NEW w \in Workers, ExactInv(w), Only(w), Calm, submissions' = submissions,
           worker[w].pc \in Scoring \ {"reduce"}, worker'[w].pc \in Scoring \ {"reduce"},
           worker'[w].job = worker[w].job,
           worker'[w].pc \in {"select_problem_subtasks", "score"} =>
               {r \in Owns(worker'[w].user) : Judged(r)} \subseteq worker'[w].mine,
           worker'[w].pc = "score" =>
               worker'[w].score =
                   SumOf(SubtaskScore, EarnedFrom(worker'[w].mine, problem.subtasks \ worker'[w].todo))
    PROVE  ExactInv(w)'
<1>1. \A r, g : Points(r, g)' # 0 => Judged(r)'
  BY DEF ExactInv, Calm
<1>2. ASSUME NEW s \in Submissions, Judged(s)'
      PROVE  ScoringFor(w, submissions[s].user_id)' \/ UpToDate(submissions[s].user_id)'
  <2>1. Judged(s)
    BY <1>2 DEF Calm
  <2>2. ScoringFor(w, submissions[s].user_id) \/ UpToDate(submissions[s].user_id)
    BY <2>1 DEF ExactInv
  <2> QED BY <2>2, CalmViews DEF ScoringFor, SubmissionOf
<1>3. problem' = problem
  BY DEF Calm
<1>4. /\ \A R, S : EarnedFrom(R, S)' = EarnedFrom(R, S)
      /\ \A u : {r \in Owns(u) : Judged(r)}' = {r \in Owns(u) : Judged(r)}
  BY CalmViews
<1>5. worker'[w].pc \in {"select_problem_subtasks", "score"} =>
          {r \in Owns(worker[w].user) : Judged(r)}' \subseteq worker'[w].mine
  BY <1>4
<1>6. worker'[w].pc = "score" =>
          worker'[w].score =
              SumOf(SubtaskScore, EarnedFrom(worker[w].mine, problem.subtasks \ worker[w].todo))'
  BY <1>3, <1>4
<1> QED BY <1>1, <1>2, <1>5, <1>6 DEF ExactInv

\* A step of the worker for submission s that changes the points of s or its
\* verdict: the scores of the other users do not depend on s.
LEMMA ExactOthers ==
    ASSUME JInv, NEW w \in Workers, ExactInv(w), Only(w), Grows,
           NEW s \in Submissions, s \in DOMAIN submissions, SubmissionOf(w) = s,
           DOMAIN submissions' = DOMAIN submissions,
           user_problem_scores' = user_problem_scores,
           \A r, g : r # s => Points(r, g)' = Points(r, g),
           \A r : r # s => (Judged(r)' <=> Judged(r)),
           worker'[w].pc \in {"reduce", "select_submissions"}, worker'[w].job = worker[w].job,
           worker'[w].pc = "reduce" \/ Judged(s)'
    PROVE  ExactInv(w)'
<1>1. SubmissionOf(w)' = s
  BY DEF SubmissionOf
<1>2. ASSUME NEW r, NEW g, Points(r, g)' # 0
      PROVE  Judged(r)' \/ (worker'[w].pc = "reduce" /\ SubmissionOf(w)' = r)
  BY <1>1, <1>2 DEF ExactInv
<1>3. ASSUME NEW r \in Submissions, Judged(r)'
      PROVE  ScoringFor(w, submissions[r].user_id)' \/ UpToDate(submissions[r].user_id)'
  <2>1. r \in DOMAIN submissions
    BY <1>3 DEF Judged
  <2>2. /\ submissions'[r].user_id = submissions[r].user_id
        /\ submissions'[s].user_id = submissions[s].user_id
    BY <2>1 DEF Grows
  <2>3. CASE submissions[r].user_id = submissions[s].user_id
    BY <1>1, <2>2, <2>3 DEF ScoringFor, Scoring
  <2>4. CASE submissions[r].user_id # submissions[s].user_id
    <3>1. Judged(r) /\ ~ScoringFor(w, submissions[r].user_id)
      BY <1>3, <2>4 DEF ScoringFor
    <3>2. UpToDate(submissions[r].user_id)
      BY <3>1 DEF ExactInv
    <3>3. Owns(submissions[r].user_id)' = Owns(submissions[r].user_id)
            /\ s \notin Owns(submissions[r].user_id)
      BY <2>2, <2>4 DEF Grows, Owns, get_submissions_by_user_for_problem
    <3>4. EarnedFrom(Owns(submissions[r].user_id), problem.subtasks)'
            = EarnedFrom(Owns(submissions[r].user_id), problem.subtasks)
      BY <3>3 DEF EarnedFrom, Grows
    <3> QED BY <2>2, <3>2, <3>4 DEF UpToDate
  <2> QED BY <2>3, <2>4
<1> QED BY <1>2, <1>3 DEF ExactInv

LEMMA ExactReduce ==
    ASSUME JInv, NEW w \in Workers, ExactInv(w), Only(w), ReduceSubtask(w)
    PROVE  ExactInv(w)'
<1>0. WorkerOK /\ worker[w] \in WorkerRecord /\ Grows
  <2>1. Grows
    BY WorkerGrows DEF WorkerStep
  <2> QED BY <2>1 DEF JInv, TInv, WorkerOK
<1>1. Busy(w) /\ worker[w].pc = "reduce"
  BY DEF ReduceSubtask, Busy
<1>2. PICK s \in Submissions : s \in DOMAIN submissions /\ SubmissionOf(w) = s
  BY <1>1, BusyHasRow DEF On
<1>3. PICK g, row : subtask_results' = Update(subtask_results, <<s, g>>, row)
  BY <1>2 DEF ReduceSubtask
<1>4. PICK todo, result, points :
         worker' = [worker EXCEPT ![w] = [worker[w] EXCEPT !.todo = todo,
                        !.result = result, !.points = points]]
  BY DEF ReduceSubtask
<1>5. worker'[w].pc = "reduce" /\ worker'[w].job = worker[w].job
  BY <1>0, <1>1, <1>4 DEF WorkerOK, WorkerRecord
<1>6. \A r, h : r # s => Points(r, h)' = Points(r, h)
  BY <1>3 DEF Points, get_subtask_points_result, Update
<1>7. submissions' = submissions /\ user_problem_scores' = user_problem_scores
  BY DEF ReduceSubtask
<1>8. \A r : Judged(r)' <=> Judged(r)
  BY <1>7 DEF Judged
<1> QED BY <1>0, <1>2, <1>5, <1>6, <1>7, <1>8, ExactOthers

LEMMA ExactWrite ==
    ASSUME JInv, JInv', NEW w \in Workers, ExactInv(w), Only(w), WriteVerdict(w)
    PROVE  ExactInv(w)'
<1>0. WorkerOK /\ worker[w] \in WorkerRecord /\ Grows
  <2>1. Grows
    BY WorkerGrows DEF WorkerStep
  <2> QED BY <2>1 DEF JInv, TInv, WorkerOK
<1>1. Busy(w) /\ worker[w].pc = "reduce"
  BY DEF WriteVerdict, Busy
<1>2. PICK s \in Submissions : s \in DOMAIN submissions /\ SubmissionOf(w) = s
  BY <1>1, BusyHasRow DEF On
<1>3. worker'[w].pc = "select_submissions" /\ worker'[w].job = worker[w].job
  BY <1>0 DEF WriteVerdict, WorkerOK, WorkerRecord
<1>4. On(w, s)'
  BY <1>2, <1>3 DEF On, Busy, SubmissionOf
<1>5. Judged(s)'
  <2>1. LocalInv(s)'
    BY DEF JInv
  <2> QED BY <1>3, <1>4, <2>1 DEF LocalInv, VerdictInv, WorkingInv, AfterVerdict
<1>6. \A r, h : Points(r, h)' = Points(r, h)
  BY DEF WriteVerdict, Points, get_subtask_points_result
<1>7. /\ user_problem_scores' = user_problem_scores
      /\ DOMAIN submissions' = DOMAIN submissions
      /\ \A r \in DOMAIN submissions : r # s => submissions'[r] = submissions[r]
  BY <1>2 DEF WriteVerdict
<1>8. \A r : r # s => (Judged(r)' <=> Judged(r))
  BY <1>7 DEF Judged
<1> QED BY <1>0, <1>2, <1>3, <1>5, <1>6, <1>7, <1>8, ExactOthers

\* What the selected submissions earn is what all of the user's do: the others
\* have no points, for they are not judged and no worker reduces them.
LEMMA ExactUpsert ==
    ASSUME JInv, NEW w \in Workers, SummingInv(w), ExactInv(w), Only(w), UpsertScore(w)
    PROVE  ExactInv(w)'
<1>0. WorkerOK /\ worker[w] \in WorkerRecord
  BY DEF JInv, TInv, WorkerOK
<1> DEFINE u == worker[w].user
           mine == worker[w].mine
<1>1. /\ worker[w].pc = "score" /\ worker[w].todo = {}
      /\ user_problem_scores' = Insert(user_problem_scores, u, worker[w].score)
      /\ UNCHANGED <<problem, submissions, subtask_results>>
  BY DEF UpsertScore
<1>2. worker'[w].pc = "remove"
  BY <1>0 DEF UpsertScore, WorkerOK, WorkerRecord
<1>3. u = submissions[SubmissionOf(w)].user_id /\ mine \subseteq Owns(u)
  BY <1>1 DEF SummingInv
<1>4. /\ \A r, g : Points(r, g)' = Points(r, g)
      /\ \A r : Judged(r)' <=> Judged(r)
      /\ \A x : Owns(x)' = Owns(x)
      /\ \A R, S : EarnedFrom(R, S)' = EarnedFrom(R, S)
  BY <1>1 DEF Points, get_subtask_points_result, Judged, Owns,
              get_submissions_by_user_for_problem, EarnedFrom
<1>5. \A r, g : Points(r, g)' # 0 => Judged(r)'
  BY <1>1, <1>4 DEF ExactInv
<1>6. EarnedFrom(mine, problem.subtasks) = EarnedFrom(Owns(u), problem.subtasks)
  <2>1. {r \in Owns(u) : Judged(r)} \subseteq mine
    BY <1>1 DEF ExactInv
  <2>2. \A r \in Owns(u) : \A g : Points(r, g) # 0 => r \in mine
    BY <1>1, <2>1 DEF ExactInv
  <2> QED BY <1>3, <2>2 DEF EarnedFrom
<1>7. worker[w].score = SumOf(SubtaskScore, EarnedFrom(Owns(u), problem.subtasks))
  <2>1. worker[w].score = SumOf(SubtaskScore, EarnedFrom(mine, problem.subtasks \ worker[w].todo))
    BY <1>1 DEF ExactInv
  <2>2. problem.subtasks \ worker[w].todo = problem.subtasks
    BY <1>1
  <2> QED BY <1>6, <2>1, <2>2
<1>8. ASSUME NEW s \in Submissions, Judged(s)' PROVE UpToDate(submissions[s].user_id)'
  <2>1. Judged(s) /\ submissions' = submissions /\ problem' = problem
    BY <1>1, <1>4, <1>8
  <2>2. CASE submissions[s].user_id = u
    BY <1>1, <1>4, <1>7, <2>1, <2>2 DEF UpToDate, Insert
  <2>3. CASE submissions[s].user_id # u
    <3>1. UpToDate(submissions[s].user_id)
      BY <1>3, <2>1, <2>3 DEF ExactInv, ScoringFor
    <3> QED BY <1>1, <1>4, <2>1, <2>3, <3>1 DEF UpToDate, Insert
  <2> QED BY <2>2, <2>3
<1> QED BY <1>2, <1>5, <1>8 DEF ExactInv

LEMMA ExactSelect ==
    ASSUME JInv, NEW w \in Workers, SummingInv(w), ExactInv(w), Only(w), WorkerStep(w),
           SelectSubmissions(w) \/ SelectProblemSubtasks(w) \/ ScoreSubtask(w)
    PROVE  ExactInv(w)'
<1>0. /\ TInv /\ WorkerOK /\ worker[w] \in WorkerRecord /\ problem \in Problems
      /\ worker[w].pc \in Scoring \ {"reduce"} /\ Busy(w)
  BY DEF JInv, TInv, WorkerOK, SelectSubmissions, SelectProblemSubtasks, ScoreSubtask,
         Scoring, Busy
<1>1. Calm /\ submissions' = submissions
  <2>1. ~ReduceSubtask(w) /\ ~WriteVerdict(w)
    BY <1>0 DEF ReduceSubtask, WriteVerdict, Scoring
  <2>2. UNCHANGED database
    BY DEF SelectSubmissions, SelectProblemSubtasks, ScoreSubtask
  <2> QED BY <2>2 DEF database, Calm, Points, get_subtask_points_result, Judged
<1>2. CASE SelectSubmissions(w)
  <2>1. PICK s \in Submissions : s \in DOMAIN submissions /\ SubmissionOf(w) = s
    BY <1>0, BusyHasRow DEF On
  <2> DEFINE u == submissions[s].user_id
  <2>2. worker' = [worker EXCEPT ![w] =
            [worker[w] EXCEPT !.pc = "select_problem_subtasks", !.user = u,
                              !.mine = Owns(u)]]
    BY <1>2, <2>1 DEF SelectSubmissions, Owns
  <2>3. /\ worker'[w].pc = "select_problem_subtasks" /\ worker'[w].job = worker[w].job
        /\ worker'[w].user = u /\ worker'[w].mine = Owns(u)
    <3> HIDE DEF u
    <3> QED BY <1>0, <2>2 DEF WorkerOK, WorkerRecord
  <2>4. {r \in Owns(worker'[w].user) : Judged(r)} \subseteq worker'[w].mine
    BY <2>3
  <2> QED BY <1>0, <1>1, <2>3, <2>4, ExactLate DEF Scoring
<1>3. CASE SelectProblemSubtasks(w)
  <2>1. /\ worker[w].pc = "select_problem_subtasks" /\ worker'[w].pc = "score"
        /\ worker'[w].job = worker[w].job /\ worker'[w].user = worker[w].user
        /\ worker'[w].mine = worker[w].mine /\ worker'[w].todo = problem.subtasks
        /\ worker'[w].score = worker[w].score
    BY <1>0, <1>3 DEF SelectProblemSubtasks, WorkerOK, WorkerRecord
  <2>2. worker'[w].score = 0
    BY <2>1 DEF SummingInv
  <2>3. problem.subtasks \ worker'[w].todo = {} /\ EarnedFrom(worker'[w].mine, {}) = {}
    BY <2>1 DEF EarnedFrom
  <2>4. SumOf(SubtaskScore, {}) = 0
    BY SumEmpty
  <2>5. worker'[w].score =
          SumOf(SubtaskScore, EarnedFrom(worker'[w].mine, problem.subtasks \ worker'[w].todo))
    BY <2>2, <2>3, <2>4
  <2>6. {r \in Owns(worker'[w].user) : Judged(r)} \subseteq worker'[w].mine
    BY <2>1 DEF ExactInv
  <2> QED BY <1>0, <1>1, <2>1, <2>5, <2>6, ExactLate DEF Scoring
<1>4. CASE ScoreSubtask(w)
  <2>1. PICK g \in worker[w].todo :
           worker' = [worker EXCEPT ![w] =
               [worker[w] EXCEPT !.todo = worker[w].todo \ {g},
                                 !.score = worker[w].score + BestPoints(worker[w].mine, g)]]
    BY <1>4 DEF ScoreSubtask
  <2>2. /\ worker[w].pc = "score" /\ worker'[w].pc = "score"
        /\ worker'[w].job = worker[w].job /\ worker'[w].user = worker[w].user
        /\ worker'[w].mine = worker[w].mine /\ worker'[w].todo = worker[w].todo \ {g}
        /\ worker'[w].score = worker[w].score + BestPoints(worker[w].mine, g)
    BY <1>0, <1>4, <2>1 DEF ScoreSubtask, WorkerOK, WorkerRecord
  <2>3. worker[w].todo \subseteq problem.subtasks
    BY <2>2 DEF SummingInv
  <2> DEFINE done == problem.subtasks \ worker[w].todo
             mine == worker[w].mine
  <2>4. done \in SUBSET problem.subtasks /\ g \in problem.subtasks /\ g \notin done
          /\ problem.subtasks \ worker'[w].todo = done \cup {g}
    BY <2>2, <2>3
  <2>5. worker[w].score = SumOf(SubtaskScore, EarnedFrom(mine, done))
    BY <2>2 DEF ExactInv
  <2>6. SumOf(SubtaskScore, EarnedFrom(mine, done)) \in Nat
    <3>1. EarnedFrom(mine, done) \in SUBSET problem.subtasks
      BY <2>4 DEF EarnedFrom
    <3> QED BY <1>0, <3>1, SubtaskSums
  <2>7. SumOf(SubtaskScore, EarnedFrom(mine, done \cup {g}))
          = BestPoints(mine, g) + SumOf(SubtaskScore, EarnedFrom(mine, done))
    <3> HIDE DEF done, mine
    <3> QED BY <1>0, <2>4, EarnedOneMore
  <2>8. BestPoints(mine, g) \in Nat
    <3>1. g \in Subtasks /\ SubtaskScore[g] \in Nat
      BY <1>0, <2>4, ProblemsAssumption, ScoreAssumption
    <3> HIDE DEF mine
    <3> QED BY <1>0, <3>1, BestPointsIsEarned
  <2>9. worker'[w].score = SumOf(SubtaskScore, EarnedFrom(mine, done \cup {g}))
    <3>1. worker'[w].score = worker[w].score + BestPoints(mine, g)
      BY <2>2
    <3> HIDE DEF done, mine
    <3> QED BY <2>5, <2>6, <2>7, <2>8, <3>1
  <2>10. worker'[w].score =
           SumOf(SubtaskScore, EarnedFrom(worker'[w].mine, problem.subtasks \ worker'[w].todo))
    BY <2>2, <2>4, <2>9
  <2>11. {r \in Owns(worker'[w].user) : Judged(r)} \subseteq worker'[w].mine
    BY <2>2 DEF ExactInv
  <2> QED BY <1>0, <1>1, <2>2, <2>10, <2>11, ExactLate DEF Scoring
<1> QED BY <1>2, <1>3, <1>4

LEMMA ExactStep ==
    ASSUME EInv, JInv', [Next]_vars, NEW w \in Workers
    PROVE  ExactInv(w)'
<1>0. JInv /\ SummingInv(w) /\ ExactInv(w) /\ WorkerOK /\ TInv
  BY DEF EInv, SInv, JInv, TInv
<1>1. CASE Restart
  <2>1. restarts' # 0
    BY <1>0, <1>1 DEF Restart, TInv, RestartsOK
  <2> QED BY <2>1 DEF ExactInv, Only
<1>2. CASE ~Restart
  <2> SUFFICES ASSUME Only(w)' PROVE ExactInv(w)'
    BY DEF ExactInv
  <2>1. Only(w)
    BY <1>0, <1>2, RunningStay DEF Only
  <2>2. CASE UNCHANGED vars
    <3>1. Calm /\ worker'[w] = worker[w]
      BY <2>2 DEF vars, database, Calm, Points, get_subtask_points_result, Judged
    <3> QED BY <1>0, <2>1, <3>1, ExactKept
  <2>3. ASSUME NEW s \in Submissions, SubmissionStep(s) PROVE ExactInv(w)'
    <3>1. worker' = worker
      BY <2>3
      DEF SubmissionStep, HandlerStep, TaskStep, AddSubmission, HandlerDropped,
          SelectSubtasks, InsertSubtaskResult, SelectTests, InsertTestResult, Spawn,
          StartCompiling, CompileFails, CompileSucceeds, SelectJobs, HandOver,
          DispatchFails
    <3>2. Calm
      BY <1>0, <2>3, CalmTask
    <3> QED BY <1>0, <2>1, <3>1, <3>2, ExactKept
  <2>4. ASSUME NEW v \in Workers, WorkerStep(v) PROVE ExactInv(w)'
    <3>1. v = w
      <4>1. worker[v].pc # "off"
        BY <2>4 DEF WorkerStep, TakeJob, ExecuteTest, StoreResult, CountTest,
                ReadTestsDone, CompareTotal, SelectSubtaskResults, ReduceSubtask,
                WriteVerdict, SelectSubmissions, SelectProblemSubtasks, ScoreSubtask,
                UpsertScore, RemoveExecutable
      <4> QED BY <2>1, <4>1 DEF Only, RunningWorkers
    <3>2. WorkerStep(w)
      BY <2>4, <3>1
    <3>3. CASE ReduceSubtask(w) \/ WriteVerdict(w) \/ UpsertScore(w)
      BY <1>0, <2>1, <3>3, ExactReduce, ExactWrite, ExactUpsert
    <3>4. CASE SelectSubmissions(w) \/ SelectProblemSubtasks(w) \/ ScoreSubtask(w)
      BY <1>0, <2>1, <3>2, <3>4, ExactSelect
    <3>5. CASE TakeJob(w) \/ ExecuteTest(w) \/ StoreResult(w) \/ CountTest(w)
                 \/ ReadTestsDone(w) \/ CompareTotal(w) \/ SelectSubtaskResults(w)
                 \/ RemoveExecutable(w)
      <4>1. worker[w].pc \notin Scoring
        BY <3>5 DEF TakeJob, ExecuteTest, StoreResult, CountTest, ReadTestsDone,
                    CompareTotal, SelectSubtaskResults, RemoveExecutable, Scoring
      <4>2. Calm
        <5>1. ~ReduceSubtask(w) /\ ~WriteVerdict(w) /\ ~UpsertScore(w)
          BY <4>1 DEF ReduceSubtask, WriteVerdict, UpsertScore, Scoring
        <5> QED BY <1>0, <3>2, <5>1, CalmWorker
      <4>3. worker'[w].pc \notin Scoring \ {"reduce"}
        <5>0. worker[w] \in WorkerRecord
          BY <1>0 DEF WorkerOK
        <5>1. CASE TakeJob(w)
          <6>1. PICK j : worker' = [worker EXCEPT ![w] =
                             [IdleWorker EXCEPT !.pc = "execute", !.job = j]]
            BY <5>1 DEF TakeJob
          <6> QED BY <1>0, <6>1 DEF WorkerOK, IdleWorker, Scoring
        <5>2. CASE ExecuteTest(w)
          <6>1. PICK x : worker' = [worker EXCEPT ![w] =
                             [worker[w] EXCEPT !.pc = "store", !.verdict = x]]
            BY <5>2 DEF ExecuteTest
          <6> QED BY <1>0, <5>0, <6>1 DEF WorkerOK, WorkerRecord, Scoring
        <5>3. CASE StoreResult(w)
          BY <1>0, <5>0, <5>3 DEF StoreResult, WorkerOK, WorkerRecord, Scoring
        <5>4. CASE CountTest(w)
          BY <1>0, <5>0, <5>4 DEF CountTest, At, WorkerOK, WorkerRecord, Scoring
        <5>5. CASE worker'[w] = IdleWorker
          BY <5>5 DEF IdleWorker, Scoring
        <5>6. ASSUME NEW n, NEW pc \in {"compare", "select_subtasks"},
                     worker' = [worker EXCEPT ![w] =
                                   [worker[w] EXCEPT !.pc = pc, !.tests_done = n]]
              PROVE  worker'[w].pc \notin Scoring \ {"reduce"}
          BY <1>0, <5>0, <5>6 DEF WorkerOK, WorkerRecord, Scoring
        <5>7. CASE ReadTestsDone(w)
          BY <1>0, <5>5, <5>6, <5>7 DEF ReadTestsDone, Return, WorkerOK
        <5>8. CASE CompareTotal(w)
          BY <1>0, <5>5, <5>6, <5>8 DEF CompareTotal, Return, WorkerOK
        <5>9. CASE SelectSubtaskResults(w)
          BY <1>0, <5>0, <5>9 DEF SelectSubtaskResults, WorkerOK, WorkerRecord, Scoring
        <5>10. CASE RemoveExecutable(w)
          BY <1>0, <5>5, <5>10 DEF RemoveExecutable, Return, WorkerOK
        <5> QED BY <3>5, <5>1, <5>2, <5>3, <5>4, <5>7, <5>8, <5>9, <5>10
      <4> QED BY <1>0, <2>1, <4>1, <4>2, <4>3, ExactEarly
    <3> QED BY <3>2, <3>3, <3>4, <3>5 DEF WorkerStep
  <2> QED BY <1>2, <2>2, <2>3, <2>4 DEF Next, JudgeNext, SubmissionStep
<1> QED BY <1>1, <1>2

LEMMA EInvInvariant == Safe => []EInv
<1>1. Init => EInv
  <2> SUFFICES ASSUME Init PROVE EInv
    OBVIOUS
  <2>1. \A w \in Workers : ExactInv(w)
    <3> SUFFICES ASSUME NEW w \in Workers PROVE ExactInv(w)
      OBVIOUS
    <3>1. PICK W : worker = Spawned(W)
      BY DEF Init
    <3>2. worker[w].pc \in {"idle", "off"}
      BY <3>1 DEF Spawned, IdleWorker, NoWorker
    <3>3. /\ \A r, g : Points(r, g) = 0
          /\ \A r : ~Judged(r)
      BY DEF Init, EmptyTable, Points, get_subtask_points_result, Judged
    <3> QED BY <3>2, <3>3 DEF ExactInv
  <2> QED BY <2>1, SInvInit DEF EInv
<1>2. EInv /\ [Next]_vars => EInv'
  <2> SUFFICES ASSUME EInv, [Next]_vars PROVE EInv'
    OBVIOUS
  <2>1. SInv'
    BY SInvStep DEF EInv
  <2>2. JInv'
    BY <2>1 DEF SInv
  <2> QED BY <2>1, <2>2, ExactStep DEF EInv
<1> QED BY <1>1, <1>2, PTL DEF Safe

\* With one worker and no restart the score of a user is exactly what the
\* judged submissions earn whenever the worker is idle
\* (update_user_score_for_problem, called by update_submission_result).
THEOREM ScoresAreExact == Safe => []ScoreIsExact
<1>1. EInv => ScoreIsExact
  <2> SUFFICES ASSUME EInv, Cardinality(RunningWorkers) = 1, restarts = 0,
                      \A w \in Workers : ~Busy(w),
                      NEW s \in Submissions, Judged(s)
               PROVE  LET u == submissions[s].user_id
                      IN  /\ u \in DOMAIN user_problem_scores
                          /\ user_problem_scores[u] = Earned(u)
    BY DEF ScoreIsExact
  <2>1. IsFiniteSet(RunningWorkers)
    BY WorkersAssumption, FS_Subset DEF RunningWorkers
  <2>2. PICK w : RunningWorkers = {w}
    BY <2>1, FS_Singleton
  <2>3. w \in Workers /\ Only(w)
    BY <2>2 DEF Only, RunningWorkers
  <2>4. ~ScoringFor(w, submissions[s].user_id)
    BY <2>3 DEF ScoringFor, Scoring, Busy
  <2>5. UpToDate(submissions[s].user_id)
    BY <2>3, <2>4 DEF EInv, ExactInv
  <2> QED BY <2>5, EarnedIsSum DEF UpToDate, EInv, SInv, JInv
<1> QED BY <1>1, EInvInvariant, PTL
=============================================================================
