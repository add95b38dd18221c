----------------------------- MODULE JudgeAdmin -----------------------------
(***************************************************************************)
(* The two administrator operations that work on the tables of the judge   *)
(* while it runs: handle_tests_uploading (problem.rs), which replaces the  *)
(* tests of the problem, and delete_user (database/user.rs).  Neither      *)
(* takes a lock or opens a transaction: each is a sequence of DELETE,      *)
(* UPDATE and INSERT statements that interleaves with the judge's own, and *)
(* stops at the first statement a foreign key refuses.                     *)
(*                                                                         *)
(* One upload and one deletion are modelled.  Tokens and participations,   *)
(* which delete_user removes first, play no part in judging.               *)
(***************************************************************************)
EXTENDS Judge

CONSTANT Uploads  \* contents the file may have, under fresh ids

\* None stands for an entry of a subtask that add_test_to_subtask cannot store:
\* the index of a test the file does not have, or a test named a second time,
\* which the primary key of subtask_tests refuses.
ASSUME UploadsAssumption ==
    \A f \in Uploads :
        /\ f.tests \subseteq Tests
        /\ f.subtasks \subseteq Subtasks
        /\ f.subtask_tests \subseteq f.subtasks \X (f.tests \cup {None})
        /\ \A p \in Problems : /\ p.tests \cap f.tests = {}
                               /\ p.subtasks \cap f.subtasks = {}

VARIABLES problem_points, \* problems.points
          upload,         \* the handler of handle_tests_uploading
          deletion,       \* the handler of delete_user
          disturbed       \* history: operations other actors ran during

adminVars == <<problem_points, upload, deletion, disturbed>>

allVars == <<vars, adminVars>>

NoFile == [tests |-> {}, subtasks |-> {}, subtask_tests |-> {}]

NoUpload ==
    [pc |-> "none", file |-> NoFile, todo |-> {}, sub |-> None, subtask |-> None]

NoDeletion == [pc |-> "none", todo |-> {}, user |-> None, sub |-> None]

SumOfScores(G) == MapThenSumSet(LAMBDA g : SubtaskScore[g], G)

AdminInit ==
    /\ Init
    /\ problem_points = SumOfScores(problem.subtasks)
    /\ upload = NoUpload
    /\ deletion = NoDeletion
    /\ disturbed = {}

\* The statements of the two handlers leave the server process alone.
Server == <<task, pool, worker, executables, restarts>>

DeleteRows(table, K) == [k \in DOMAIN table \ K |-> table[k]]

TestRowsOf(s) == {k \in DOMAIN test_results : k[1] = s}

SubtaskRowsOf(s) == {k \in DOMAIN subtask_results : k[1] = s}

SubmissionsOf(u) == {s \in DOMAIN submissions : submissions[s].user_id = u}

InUse(pc) == pc \notin {"none", "done", "failed", "rejected", "dropped"}

Running == {op \in {"upload", "deletion"} :
               InUse(IF op = "upload" THEN upload.pc ELSE deletion.pc)}

JudgeAtRest ==
    /\ pool = {}
    /\ \A w \in Workers : ~Busy(w)
    /\ \A s \in Submissions :
          \/ task[s].pc \in {"none", "ended", "stopped"}
          \/ task[s] = [pc |-> "dispatch", todo |-> {}]

-----------------------------------------------------------------------------
(***************************************************************************)
(* handle_tests_uploading.  UploadGoto also records whose steps disturbed  *)
(* the other operation.                                                    *)
(***************************************************************************)
UploadGoto(next) ==
    /\ upload' = next
    /\ disturbed' = disturbed \cup (Running \ {"upload"})
    /\ UNCHANGED <<deletion, Server>>

\* get_submissions_for_problem
StartUpload ==
    /\ upload.pc = "none"
    /\ \E f \in Uploads :
          upload' = [NoUpload EXCEPT !.pc = "reset", !.file = f,
                                     !.todo = DOMAIN submissions]
    /\ disturbed' = disturbed \cup (Running \ {"upload"})
                        \cup (IF JudgeAtRest /\ Running = {} THEN {} ELSE {"upload"})
    /\ UNCHANGED <<database, problem_points, deletion, Server>>

\* Mutant: the tests are subtracted from the counter instead of resetting it.
BugReset(row) ==
    [row EXCEPT !.result = "InQueue", !.tests_done = @ - Cardinality(problem.tests)]

\* Mutant: the verdict stays.
BugKeepVerdict(row) == [row EXCEPT !.tests_done = 0]

Reset(row) == [row EXCEPT !.result = "InQueue", !.tests_done = 0]

\* remove_submission_testing_data: the row first, then its results.
ResetSubmission ==
    /\ upload.pc = "reset"
    /\ \E s \in upload.todo :
          /\ submissions' = [k \in DOMAIN submissions |->
                 IF k = s THEN Reset(submissions[k]) ELSE submissions[k]]
          /\ UploadGoto([upload EXCEPT !.pc = "delete_test_results",
                                       !.todo = @ \ {s}, !.sub = s])
    /\ UNCHANGED <<users, problem, test_results, subtask_results,
                   user_problem_scores, problem_points>>

DeleteTestResults ==
    /\ upload.pc = "delete_test_results"
    /\ test_results' = DeleteRows(test_results, TestRowsOf(upload.sub))
    /\ UploadGoto([upload EXCEPT !.pc = "delete_subtask_results"])
    /\ UNCHANGED <<users, problem, submissions, subtask_results,
                   user_problem_scores, problem_points>>

DeleteSubtaskResults ==
    /\ upload.pc = "delete_subtask_results"
    /\ subtask_results' = DeleteRows(subtask_results, SubtaskRowsOf(upload.sub))
    /\ UploadGoto([upload EXCEPT !.pc = "reset", !.sub = None])
    /\ UNCHANGED <<users, problem, submissions, test_results,
                   user_problem_scores, problem_points>>

\* remove_all_test_data_for_problem: three DELETEs; a row that a result or a
\* subtask_tests row still refers to makes the whole statement fail.
TestIsReferenced ==
    \/ \E k \in DOMAIN test_results : k[2] \in problem.tests
    \/ \E k \in problem.subtask_tests : k[2] \in problem.tests

SubtaskIsReferenced ==
    \/ \E k \in DOMAIN subtask_results : k[2] \in problem.subtasks
    \/ \E k \in problem.subtask_tests : k[1] \in problem.subtasks

\* Mutant: the tests are deleted before the rows that link them to subtasks.
BugSkipSubtaskTests ==
    /\ upload.pc = "reset"
    /\ upload.todo = {}
    /\ UploadGoto([upload EXCEPT !.pc = "delete_tests"])
    /\ UNCHANGED <<database, problem_points>>

DeleteSubtaskTests ==
    /\ upload.pc = "reset"
    /\ upload.todo = {}
    /\ problem' = [problem EXCEPT !.subtask_tests =
                      {k \in @ : k[2] \notin problem.tests}]
    /\ UploadGoto([upload EXCEPT !.pc = "delete_tests"])
    /\ UNCHANGED <<users, submissions, test_results, subtask_results,
                   user_problem_scores, problem_points>>

DeleteTests ==
    /\ upload.pc = "delete_tests"
    /\ ~TestIsReferenced
    /\ problem' = [problem EXCEPT !.tests = {}]
    /\ UploadGoto([upload EXCEPT !.pc = "delete_subtasks"])
    /\ UNCHANGED <<users, submissions, test_results, subtask_results,
                   user_problem_scores, problem_points>>

DeleteSubtasks ==
    /\ upload.pc = "delete_subtasks"
    /\ ~SubtaskIsReferenced
    /\ problem' = [problem EXCEPT !.subtasks = {}]
    /\ UploadGoto([upload EXCEPT !.pc = "add_tests", !.todo = upload.file.tests])
    /\ UNCHANGED <<users, submissions, test_results, subtask_results,
                   user_problem_scores, problem_points>>

AddTest ==
    /\ upload.pc = "add_tests"
    /\ \E t \in upload.todo :
          /\ problem' = [problem EXCEPT !.tests = @ \cup {t}]
          /\ UploadGoto([upload EXCEPT !.todo = @ \ {t}])
    /\ UNCHANGED <<users, submissions, test_results, subtask_results,
                   user_problem_scores, problem_points>>

TestsAdded ==
    /\ upload.pc = "add_tests"
    /\ upload.todo = {}
    /\ UploadGoto([upload EXCEPT !.pc = "add_points", !.todo = upload.file.subtasks])
    /\ UNCHANGED <<database, problem_points>>

\* Mutant: a new subtask does not add to the points of the problem.
BugAddNoPoints ==
    /\ upload.pc = "add_points"
    /\ \E g \in upload.todo :
          UploadGoto([upload EXCEPT !.pc = "add_subtask", !.todo = @ \ {g},
                                    !.subtask = g])
    /\ UNCHANGED <<database, problem_points>>

\* add_subtask: the points of the problem first, then the row.
AddPoints ==
    /\ upload.pc = "add_points"
    /\ \E g \in upload.todo :
          /\ problem_points' = problem_points + SubtaskScore[g]
          /\ UploadGoto([upload EXCEPT !.pc = "add_subtask", !.todo = @ \ {g},
                                       !.subtask = g])
    /\ UNCHANGED database

AddSubtask ==
    /\ upload.pc = "add_subtask"
    /\ problem' = [problem EXCEPT !.subtasks = @ \cup {upload.subtask}]
    /\ UploadGoto([upload EXCEPT !.pc = "link"])
    /\ UNCHANGED <<users, submissions, test_results, subtask_results,
                   user_problem_scores, problem_points>>

LinksToAdd ==
    {k \in upload.file.subtask_tests : k[1] = upload.subtask} \ problem.subtask_tests

\* add_test_to_subtask
AddTestToSubtask ==
    /\ upload.pc = "link"
    /\ \E k \in LinksToAdd :
          /\ k[2] # None
          /\ problem' = [problem EXCEPT !.subtask_tests = @ \cup {k}]
    /\ UploadGoto(upload)
    /\ UNCHANGED <<users, submissions, test_results, subtask_results,
                   user_problem_scores, problem_points>>

\* The error of that entry: the old tests are gone, the new ones are there in
\* part.
LinkRefused ==
    /\ upload.pc = "link"
    /\ <<upload.subtask, None>> \in LinksToAdd
    /\ UploadGoto([NoUpload EXCEPT !.pc = "rejected"])
    /\ UNCHANGED <<database, problem_points>>

NextSubtask ==
    /\ upload.pc = "link"
    /\ LinksToAdd = {}
    /\ UploadGoto([upload EXCEPT !.pc = "add_points", !.subtask = None])
    /\ UNCHANGED <<database, problem_points>>

UploadDone ==
    /\ upload.pc = "add_points"
    /\ upload.todo = {}
    /\ UploadGoto([NoUpload EXCEPT !.pc = "done"])
    /\ UNCHANGED <<database, problem_points>>

\* A foreign key refuses a DELETE: the handler returns the error, and what it
\* did so far stays.
UploadFails ==
    /\ \/ upload.pc = "delete_tests" /\ TestIsReferenced
       \/ upload.pc = "delete_subtasks" /\ SubtaskIsReferenced
    /\ UploadGoto([NoUpload EXCEPT !.pc = "failed"])
    /\ UNCHANGED <<database, problem_points>>

\* The administrator's client disconnects and hyper drops the handler.
UploadDropped ==
    /\ InUse(upload.pc)
    /\ UploadGoto([NoUpload EXCEPT !.pc = "dropped"])
    /\ UNCHANGED <<database, problem_points>>

-----------------------------------------------------------------------------
(***************************************************************************)
(* delete_user.                                                            *)
(***************************************************************************)
DeletionGoto(next) ==
    /\ deletion' = next
    /\ disturbed' = disturbed \cup (Running \ {"deletion"})
    /\ UNCHANGED <<upload, problem_points, Server>>

\* get_all_submissions_for_user
StartDeletion(u) ==
    /\ deletion.pc = "none"
    /\ deletion' = [NoDeletion EXCEPT !.pc = "delete_results", !.user = u,
                                      !.todo = SubmissionsOf(u)]
    /\ disturbed' = disturbed \cup Running
                        \cup (IF JudgeAtRest /\ Running = {} THEN {} ELSE {"deletion"})
    /\ UNCHANGED <<database, upload, problem_points, Server>>

\* Mutant: the results of subtasks are forgotten.
BugKeepSubtaskResults ==
    /\ deletion.pc = "delete_results"
    /\ \E s \in deletion.todo :
          /\ test_results' = DeleteRows(test_results, TestRowsOf(s))
          /\ DeletionGoto([deletion EXCEPT !.todo = @ \ {s}])
    /\ UNCHANGED <<users, problem, submissions, subtask_results,
                   user_problem_scores>>

\* delete_all_results_for_submission
DeleteUserTestResults ==
    /\ deletion.pc = "delete_results"
    /\ \E s \in deletion.todo :
          /\ test_results' = DeleteRows(test_results, TestRowsOf(s))
          /\ DeletionGoto([deletion EXCEPT !.pc = "delete_subtask_results",
                                           !.todo = @ \ {s}, !.sub = s])
    /\ UNCHANGED <<users, problem, submissions, subtask_results,
                   user_problem_scores>>

DeleteUserSubtaskResults ==
    /\ deletion.pc = "delete_subtask_results"
    /\ subtask_results' = DeleteRows(subtask_results, SubtaskRowsOf(deletion.sub))
    /\ DeletionGoto([deletion EXCEPT !.pc = "delete_results", !.sub = None])
    /\ UNCHANGED <<users, problem, submissions, test_results,
                   user_problem_scores>>

\* A row of results still refers to a submission of the user.
SubmissionIsReferenced ==
    \E s \in SubmissionsOf(deletion.user) :
        TestRowsOf(s) # {} \/ SubtaskRowsOf(s) # {}

DeleteSubmissions ==
    /\ deletion.pc = "delete_results"
    /\ deletion.todo = {}
    /\ ~SubmissionIsReferenced
    /\ submissions' = DeleteRows(submissions, SubmissionsOf(deletion.user))
    /\ DeletionGoto([deletion EXCEPT !.pc = "delete_scores"])
    /\ UNCHANGED <<users, problem, test_results, subtask_results,
                   user_problem_scores>>

DeleteScores ==
    /\ deletion.pc = "delete_scores"
    /\ user_problem_scores' = DeleteRows(user_problem_scores, {deletion.user})
    /\ DeletionGoto([deletion EXCEPT !.pc = "delete_row"])
    /\ UNCHANGED <<users, problem, submissions, test_results, subtask_results>>

\* A submission or a score still refers to the user.
UserIsReferenced ==
    \/ SubmissionsOf(deletion.user) # {}
    \/ deletion.user \in DOMAIN user_problem_scores

DeleteUserRow ==
    /\ deletion.pc = "delete_row"
    /\ ~UserIsReferenced
    /\ users' = users \ {deletion.user}
    /\ DeletionGoto([deletion EXCEPT !.pc = "done"])
    /\ UNCHANGED <<problem, submissions, test_results, subtask_results,
                   user_problem_scores>>

DeletionFails ==
    /\ \/ /\ deletion.pc = "delete_results"
          /\ deletion.todo = {}
          /\ SubmissionIsReferenced
       \/ deletion.pc = "delete_row" /\ UserIsReferenced
    /\ DeletionGoto([deletion EXCEPT !.pc = "failed"])
    /\ UNCHANGED database

DeletionDropped ==
    /\ InUse(deletion.pc)
    /\ DeletionGoto([deletion EXCEPT !.pc = "dropped"])
    /\ UNCHANGED database

-----------------------------------------------------------------------------
UploadStep ==
    \/ ResetSubmission
    \/ DeleteTestResults
    \/ DeleteSubtaskResults
    \/ DeleteSubtaskTests
    \/ DeleteTests
    \/ DeleteSubtasks
    \/ AddTest
    \/ TestsAdded
    \/ AddPoints
    \/ AddSubtask
    \/ AddTestToSubtask
    \/ LinkRefused
    \/ NextSubtask
    \/ UploadDone
    \/ UploadFails

DeletionStep ==
    \/ DeleteUserTestResults
    \/ DeleteUserSubtaskResults
    \/ DeleteSubmissions
    \/ DeleteScores
    \/ DeleteUserRow
    \/ DeletionFails

-----------------------------------------------------------------------------
(***************************************************************************)
(* Steps of the judge, which disturb the operations under way, and the     *)
(* errors it meets only because rows vanish under it.                      *)
(***************************************************************************)
Meanwhile ==
    /\ disturbed' = disturbed \cup Running
    /\ UNCHANGED <<problem_points, upload, deletion>>

JudgeStep == JudgeNext /\ Meanwhile

\* A row to insert refers to a submission, subtask or test that was deleted
\* since it was selected: the handler returns the error.
InsertFails(s) ==
    /\ \/ /\ task[s].pc = "insert_subtasks"
          /\ task[s].todo # {}
          /\ s \notin DOMAIN submissions \/ ~(task[s].todo \subseteq problem.subtasks)
       \/ /\ task[s].pc = "insert_tests"
          /\ task[s].todo # {}
          /\ s \notin DOMAIN submissions \/ ~(task[s].todo \subseteq problem.tests)
    /\ Goto(s, "stopped", {})
    /\ UNCHANGED <<database, pool, worker, executables, restarts>>
    /\ Meanwhile

\* Mutant: the error ends the loop of the worker.
BugIgnore(w) == At(w, "stopped")

\* The error of worker_test_is_done goes nowhere.
Ignore(w) == Return(w)

\* The result of a test, or the row of the subtask, was deleted: the error
\* ends update_submission_result before it reaches the submission.
ReduceFails(w) ==
    LET s == SubmissionOf(w)
    IN  /\ worker[w].pc = "reduce"
        /\ \E g \in worker[w].todo :
              \/ <<s, g>> \notin DOMAIN subtask_results
              \/ \E t \in get_tests_for_subtask(g) : <<s, t>> \notin DOMAIN test_results
        /\ Ignore(w)
        /\ UNCHANGED <<database, task, pool, executables, restarts>>
        /\ Meanwhile

\* The user was deleted: the foreign key of user_problem_scores refuses the row.
UpsertFails(w) ==
    /\ worker[w].pc = "score"
    /\ worker[w].todo = {}
    /\ worker[w].user \notin users
    /\ Ignore(w)
    /\ UNCHANGED <<database, task, pool, executables, restarts>>
    /\ Meanwhile

AdminRestart ==
    /\ Restart
    /\ upload' = IF InUse(upload.pc) THEN [NoUpload EXCEPT !.pc = "dropped"] ELSE upload
    /\ deletion' = IF InUse(deletion.pc) THEN [deletion EXCEPT !.pc = "dropped"]
                                         ELSE deletion
    /\ UNCHANGED <<problem_points, disturbed>>

AllAtRest ==
    /\ JudgeAtRest
    /\ Running = {}
    /\ UNCHANGED allVars

AdminNext ==
    \/ JudgeStep
    \/ \E s \in Submissions : InsertFails(s)
    \/ \E w \in Workers : ReduceFails(w) \/ UpsertFails(w)
    \/ AdminRestart
    \/ StartUpload \/ UploadStep \/ UploadDropped
    \/ (\E u \in users : StartDeletion(u)) \/ DeletionStep \/ DeletionDropped
    \/ AllAtRest

AdminFairness ==
    /\ WF_allVars(UploadStep)
    /\ WF_allVars(DeletionStep)
    /\ \A s \in Submissions :
          /\ WF_allVars((HandlerStep(s) /\ Meanwhile) \/ InsertFails(s))
          /\ WF_allVars(TaskStep(s) /\ Meanwhile)
    /\ \A w \in Workers :
          WF_allVars((WorkerStep(w) /\ Meanwhile) \/ ReduceFails(w) \/ UpsertFails(w))

AdminSafe == AdminInit /\ [][AdminNext]_allVars

AdminSpec == AdminSafe /\ AdminFairness

-----------------------------------------------------------------------------
AdminTypeOK ==
    /\ TypeOK
    /\ problem_points \in Nat
    /\ upload.pc \in {"none", "reset", "delete_test_results",
                      "delete_subtask_results", "delete_tests",
                      "delete_subtasks", "add_tests", "add_points",
                      "add_subtask", "link", "done", "failed", "rejected",
                      "dropped"}
    /\ upload.file \in Uploads \cup {NoFile}
    /\ upload.todo \subseteq Submissions \cup Tests \cup Subtasks
    /\ deletion.pc \in {"none", "delete_results", "delete_subtask_results",
                        "delete_scores", "delete_row", "done", "failed",
                        "dropped"}
    /\ deletion.todo \subseteq Submissions
    /\ disturbed \subseteq {"upload", "deletion"}

(***************************************************************************)
(* An upload or a deletion during which nothing else happens is never      *)
(* refused by a foreign key, whatever earlier operations left behind: the  *)
(* rows are deleted before those they refer to.  Only a race makes them    *)
(* fail half way.                                                          *)
(***************************************************************************)
UndisturbedUploadCompletes == upload.pc = "failed" => "upload" \in disturbed

UndisturbedDeletionCompletes == deletion.pc = "failed" => "deletion" \in disturbed

(***************************************************************************)
(* No user's score exceeds the points the problem is announced with,       *)
(* although tests are replaced while scores are being computed.            *)
(***************************************************************************)
ScoreWithinProblemPoints ==
    \A u \in DOMAIN user_problem_scores : user_problem_scores[u] <= problem_points

(***************************************************************************)
(* Replacing the tests of the problem changes no verdict and leaves none   *)
(* standing on results that are gone: at every moment a stored verdict is  *)
(* the most severe stored result of the tests that decide it now, and its  *)
(* points are the scores of the subtasks it solves.  The exceptions are    *)
(* submissions of the user being deleted, and an upload that raced with    *)
(* the judge or a deletion.  An upload dropped half way is not one: it may *)
(* leave subtasks without tests, which later submissions solve, for no     *)
(* test decides them.                                                      *)
(***************************************************************************)
VerdictsRestOnTests ==
    \A s \in DOMAIN submissions : Judged(s) =>
        \/ Faithful(s)
        \/ "upload" \in disturbed
        \/ deletion.user = submissions[s].user_id

(***************************************************************************)
(* Whatever rows vanish under it, a worker that took a job returns to its  *)
(* channel.                                                                *)
(***************************************************************************)
WorkerReturns ==
    \A w \in Workers : Busy(w) ~> ~Busy(w)

(***************************************************************************)
(* database/submission.rs says of add_submission "add all tests for the    *)
(* problem": once no upload is under way, a submission handed to           *)
(* test_submission with a row for some test has one for every test.        *)
(***************************************************************************)
AllTestsAdded ==
    \A s \in DOMAIN submissions :
        /\ task[s].pc = "queued"
        /\ upload.pc = "done"
        /\ get_tests_for_submission(s) # {}
        => problem.tests \subseteq get_tests_for_submission(s)
=============================================================================
