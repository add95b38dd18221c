-------------------------- MODULE JudgeAdminProofs --------------------------
(***************************************************************************)
(* Theorems about the judge with administrators at work on its tables, for *)
(* every number of users, submissions, tests, subtasks, workers and files  *)
(* of tests: what the foreign keys and the order of the statements of      *)
(* handle_tests_uploading and delete_user guarantee, alone and in a race.  *)
(***************************************************************************)
EXTENDS JudgeAdmin, JudgeProofs

-----------------------------------------------------------------------------
(***************************************************************************)
(* Types.  What an upload has still to do depends on where it is.          *)
(***************************************************************************)
UploadRecord ==
    [pc : {"none", "reset", "delete_test_results", "delete_subtask_results",
           "delete_tests", "delete_subtasks", "add_tests", "add_points",
           "add_subtask", "link", "done", "failed", "rejected", "dropped"},
     file : Uploads \cup {NoFile},
     todo : SUBSET (Submissions \cup Tests \cup Subtasks),
     sub : Submissions \cup {None},
     subtask : Subtasks \cup {None}]

\* The upload is removing what refers to the old tests and subtasks ...
Emptying == {"reset", "delete_test_results", "delete_subtask_results",
             "delete_tests", "delete_subtasks"}

\* ... at the results of one submission ...
Forgetting == {"delete_test_results", "delete_subtask_results"}

\* ... and is adding the new subtasks.
Linking == {"add_points", "add_subtask", "link"}

UploadOK ==
    /\ upload \in UploadRecord
    /\ InUse(upload.pc) => upload.file \in Uploads
    /\ upload.pc \in Emptying => upload.todo \subseteq Submissions
    /\ upload.pc \in {"delete_tests", "delete_subtasks"} => upload.todo = {}
    /\ upload.pc \in Forgetting => upload.sub \in Submissions
    /\ upload.pc = "add_tests" => upload.todo \subseteq upload.file.tests
    /\ upload.pc \in Linking => upload.todo \subseteq upload.file.subtasks
    /\ upload.pc \in {"add_subtask", "link"} => upload.subtask \in upload.file.subtasks

DeletionRecord ==
    [pc : {"none", "delete_results", "delete_subtask_results", "delete_scores",
           "delete_row", "done", "failed", "dropped"},
     todo : SUBSET Submissions,
     user : Users \cup {None},
     sub : Submissions \cup {None}]

DeletionOK ==
    /\ deletion \in DeletionRecord
    /\ deletion.pc # "none" => deletion.user \in Users
    /\ deletion.pc = "delete_subtask_results" => deletion.sub \in Submissions

HistoryOK == disturbed \subseteq {"upload", "deletion"}

ATInv ==
    /\ TInv
    /\ problem_points \in Nat
    /\ UploadOK
    /\ DeletionOK
    /\ HistoryOK

LEMMA ATInvImpliesAdminTypeOK == ATInv => AdminTypeOK
BY TInvImpliesTypeOK
DEF ATInv, AdminTypeOK, UploadOK, UploadRecord, DeletionOK, DeletionRecord, HistoryOK

LEMMA SumOfScoresIsSum ==
    ASSUME NEW G PROVE SumOfScores(G) = SumOf(SubtaskScore, G)
BY DEF SumOfScores, SumOf

LEMMA ScoresAreNat ==
    ASSUME NEW G \in SUBSET Subtasks, IsFiniteSet(G)
    PROVE  /\ \A g \in G : SubtaskScore[g] \in Nat
           /\ SumOf(SubtaskScore, G) \in Nat
<1>1. \A g \in G : SubtaskScore[g] \in Nat
  BY ScoreAssumption
<1> QED BY <1>1, SumRemove

LEMMA ATInvInit == AdminInit => ATInv
<1> SUFFICES ASSUME AdminInit PROVE ATInv
  OBVIOUS
<1>1. TInv
  BY TInvInit DEF AdminInit
<1>2. problem_points \in Nat
  <2>1. problem.subtasks \in SUBSET Subtasks /\ IsFiniteSet(problem.subtasks)
    BY ProblemsAssumption DEF AdminInit, Init
  <2> QED BY <2>1, ScoresAreNat, SumOfScoresIsSum DEF AdminInit
<1>3. UploadOK
  BY DEF AdminInit, UploadOK, UploadRecord, NoUpload, InUse, Emptying, Forgetting, Linking
<1>4. DeletionOK /\ HistoryOK
  BY DEF AdminInit, DeletionOK, DeletionRecord, NoDeletion, HistoryOK
<1> QED BY <1>1, <1>2, <1>3, <1>4 DEF ATInv

-----------------------------------------------------------------------------
(***************************************************************************)
(* What every statement of the two operations leaves alone.                *)
(***************************************************************************)
LEMMA UploadActs ==
    ASSUME UploadStep \/ UploadDropped
    PROVE  /\ InUse(upload.pc)
           /\ UNCHANGED <<deletion, task, pool, worker, executables, restarts,
                          users, user_problem_scores>>
           /\ disturbed' = disturbed \cup (Running \ {"upload"})
BY DEF UploadStep, UploadDropped, ResetSubmission, DeleteTestResults,
       DeleteSubtaskResults, DeleteSubtaskTests, DeleteTests, DeleteSubtasks,
       AddTest, TestsAdded, AddPoints, AddSubtask, AddTestToSubtask,
       LinkRefused, NextSubtask, UploadDone, UploadFails, UploadGoto, Server,
       database, InUse

LEMMA DeletionActs ==
    ASSUME DeletionOK, DeletionStep \/ DeletionDropped
    PROVE  /\ InUse(deletion.pc)
           /\ UNCHANGED <<upload, problem_points, task, pool, worker,
                          executables, restarts, problem>>
           /\ disturbed' = disturbed \cup (Running \ {"deletion"})
           /\ deletion'.user = deletion.user
           /\ deletion'.pc # "none"
<1>1. deletion \in DeletionRecord
  BY DEF DeletionOK
<1>2. CASE DeletionStep
  BY <1>1, <1>2
  DEF DeletionStep, DeletionRecord, DeleteUserTestResults,
      DeleteUserSubtaskResults, DeleteSubmissions, DeleteScores,
      DeleteUserRow, DeletionFails, DeletionGoto, Server, database, InUse
<1>3. CASE DeletionDropped
  BY <1>1, <1>3 DEF DeletionDropped, DeletionRecord, DeletionGoto, Server, database, InUse
<1> QED BY <1>2, <1>3

LEMMA DeleteIsTable ==
    ASSUME NEW K, NEW R, NEW f, IsTable(f, K, R), NEW X
    PROVE  IsTable(DeleteRows(f, X), K, R)
BY DEF IsTable, DeleteRows

LEMMA ServerStays ==
    ASSUME TInv, DatabaseOK',
           UNCHANGED <<task, pool, worker, executables, restarts>>
    PROVE  TInv'
BY DEF TInv, TaskOK, PoolOK, WorkerOK, FilesOK, RestartsOK

\* A step that changes at most the problem keeps the types of the other tables.
LEMMA OnlyTheProblem ==
    ASSUME TInv, ProblemOK',
           UNCHANGED <<users, submissions, test_results, subtask_results,
                       user_problem_scores>>
    PROVE  DatabaseOK'
BY DEF TInv, DatabaseOK, UsersOK, SubmissionsOK, TestResultsOK,
       SubtaskResultsOK, ScoresOK, IsTable

LEMMA DeleteTestRowsType ==
    ASSUME TInv, NEW s, test_results' = DeleteRows(test_results, TestRowsOf(s)),
           UNCHANGED <<users, problem, submissions, subtask_results, user_problem_scores>>
    PROVE  DatabaseOK'
<1>1. TestResultsOK'
  BY DeleteIsTable DEF TInv, DatabaseOK, TestResultsOK
<1> QED BY <1>1 DEF TInv, DatabaseOK, UsersOK, ProblemOK, SubmissionsOK,
                    SubtaskResultsOK, ScoresOK, IsTable

LEMMA DeleteSubtaskRowsType ==
    ASSUME TInv, NEW s,
           subtask_results' = DeleteRows(subtask_results, SubtaskRowsOf(s)),
           UNCHANGED <<users, problem, submissions, test_results, user_problem_scores>>
    PROVE  DatabaseOK'
<1>1. IsTable(subtask_results', Submissions \X Subtasks, SubtaskResultRow)
  BY DeleteIsTable DEF TInv, DatabaseOK, SubtaskResultsOK
<1>2. SubtaskResultsOK'
  BY <1>1 DEF TInv, DatabaseOK, SubtaskResultsOK, DeleteRows
<1> QED BY <1>2 DEF TInv, DatabaseOK, UsersOK, ProblemOK, SubmissionsOK,
                    TestResultsOK, ScoresOK, IsTable

-----------------------------------------------------------------------------
(***************************************************************************)
(* The statements of an upload keep the types.                             *)
(***************************************************************************)
LEMMA UploadDatabaseType ==
    ASSUME ATInv, UploadStep \/ UploadDropped
    PROVE  DatabaseOK' /\ problem_points' \in Nat
<1> USE DEF ATInv
<1>0. /\ ProblemOK
      /\ upload \in UploadRecord
  BY DEF TInv, DatabaseOK, UploadOK
<1>1. CASE ResetSubmission
  <2>1. PICK s \in upload.todo :
           submissions' = [k \in DOMAIN submissions |->
               IF k = s THEN Reset(submissions[k]) ELSE submissions[k]]
    BY <1>1 DEF ResetSubmission
  <2>2. /\ DOMAIN submissions' = DOMAIN submissions
        /\ submissions' = [k \in DOMAIN submissions |-> submissions'[k]]
        /\ \A k \in DOMAIN submissions : submissions'[k] \in SubmissionRow
    BY <2>1 DEF TInv, DatabaseOK, SubmissionsOK, IsTable, SubmissionRow, Reset, TestingResult
  <2>3. SubmissionsOK'
    BY <2>2, MapIsTable DEF TInv, DatabaseOK, SubmissionsOK
  <2> QED
    BY <1>1, <2>3
    DEF ResetSubmission, TInv, DatabaseOK, UsersOK, ProblemOK, TestResultsOK,
        SubtaskResultsOK, ScoresOK, IsTable
<1>2. CASE DeleteTestResults
  BY <1>2, DeleteTestRowsType DEF DeleteTestResults
<1>3. CASE DeleteSubtaskResults
  BY <1>3, DeleteSubtaskRowsType DEF DeleteSubtaskResults
<1>4. CASE DeleteSubtaskTests
  <2>1. ProblemOK'
    BY <1>0, <1>4 DEF DeleteSubtaskTests, ProblemOK
  <2> QED BY <1>4, <2>1, OnlyTheProblem DEF DeleteSubtaskTests
<1>5. CASE DeleteTests
  <2>1. ProblemOK'
    BY <1>0, <1>5 DEF DeleteTests, ProblemOK
  <2> QED BY <1>5, <2>1, OnlyTheProblem DEF DeleteTests
<1>6. CASE DeleteSubtasks
  <2>1. ProblemOK'
    BY <1>0, <1>6 DEF DeleteSubtasks, ProblemOK
  <2> QED BY <1>6, <2>1, OnlyTheProblem DEF DeleteSubtasks
<1>7. CASE AddTest
  <2>1. upload.todo \subseteq Tests
    BY <1>7, UploadsAssumption DEF AddTest, UploadOK, InUse
  <2>2. ProblemOK'
    BY <1>0, <1>7, <2>1 DEF AddTest, ProblemOK
  <2> QED BY <1>7, <2>2, OnlyTheProblem DEF AddTest
<1>8. CASE AddPoints
  <2>1. \A g \in upload.todo : SubtaskScore[g] \in Nat
    BY <1>8, UploadsAssumption, ScoreAssumption DEF AddPoints, UploadOK, InUse, Linking
  <2> QED BY <1>8, <2>1, DatabaseUnchanged DEF AddPoints, TInv
<1>9. CASE AddSubtask
  <2>1. upload.subtask \in Subtasks
    BY <1>9, UploadsAssumption DEF AddSubtask, UploadOK, InUse
  <2>2. ProblemOK'
    BY <1>0, <1>9, <2>1 DEF AddSubtask, ProblemOK
  <2> QED BY <1>9, <2>2, OnlyTheProblem DEF AddSubtask
<1>10. CASE AddTestToSubtask
  <2>1. PICK k \in LinksToAdd :
           k[2] # None /\ problem' = [problem EXCEPT !.subtask_tests = @ \cup {k}]
    BY <1>10 DEF AddTestToSubtask
  <2>2. k \in Subtasks \X Tests
    BY <1>10, <2>1, UploadsAssumption DEF AddTestToSubtask, LinksToAdd, UploadOK, InUse
  <2>3. ProblemOK'
    BY <1>0, <2>1, <2>2 DEF ProblemOK
  <2> QED BY <1>10, <2>3, OnlyTheProblem DEF AddTestToSubtask
<1>11. CASE TestsAdded \/ LinkRefused \/ NextSubtask \/ UploadDone
              \/ UploadFails \/ UploadDropped
  <2>1. UNCHANGED <<database, problem_points>>
    BY <1>11 DEF TestsAdded, LinkRefused, NextSubtask, UploadDone, UploadFails, UploadDropped
  <2> QED BY <2>1, DatabaseUnchanged DEF TInv
<1> QED BY <1>1, <1>2, <1>3, <1>4, <1>5, <1>6, <1>7, <1>8, <1>9, <1>10, <1>11
        DEF UploadStep

LEMMA UploadRecordType ==
    ASSUME ATInv, StartUpload \/ UploadStep \/ UploadDropped
    PROVE  UploadOK'
<1> USE DEF UploadOK, UploadGoto, InUse, Emptying, Forgetting, Linking
<1>0. /\ upload \in UploadRecord
      /\ UploadOK
      /\ DOMAIN submissions \subseteq Submissions
  BY DEF ATInv, TInv, DatabaseOK, SubmissionsOK, IsTable
<1>1. CASE StartUpload
  <2>1. PICK f \in Uploads :
           upload' = [NoUpload EXCEPT !.pc = "reset", !.file = f,
                                      !.todo = DOMAIN submissions]
    BY <1>1 DEF StartUpload
  <2>2. upload' = [pc |-> "reset", file |-> f, todo |-> DOMAIN submissions,
                   sub |-> None, subtask |-> None]
    BY <2>1 DEF NoUpload
  <2>3. upload' \in UploadRecord
    BY <1>0, <2>2 DEF UploadRecord
  <2> QED BY <1>0, <2>2, <2>3
<1>2. CASE ResetSubmission
  <2>1. PICK s \in upload.todo :
           upload' = [upload EXCEPT !.pc = "delete_test_results",
                                    !.todo = @ \ {s}, !.sub = s]
    BY <1>2 DEF ResetSubmission
  <2>2. upload.todo \subseteq Submissions
    BY <1>0, <1>2 DEF ResetSubmission
  <2>3. upload' = [pc |-> "delete_test_results", file |-> upload.file,
                   todo |-> upload.todo \ {s}, sub |-> s, subtask |-> upload.subtask]
    BY <1>0, <2>1 DEF UploadRecord
  <2>4. upload' \in UploadRecord
    BY <1>0, <2>2, <2>3 DEF UploadRecord
  <2> QED BY <1>0, <1>2, <2>2, <2>3, <2>4 DEF ResetSubmission
<1>3. CASE DeleteTestResults
  BY <1>0, <1>3 DEF DeleteTestResults, UploadRecord
<1>4. CASE DeleteSubtaskResults
  BY <1>0, <1>4 DEF DeleteSubtaskResults, UploadRecord
<1>5. CASE DeleteSubtaskTests
  BY <1>0, <1>5 DEF DeleteSubtaskTests, UploadRecord
<1>6. CASE DeleteTests
  BY <1>0, <1>6 DEF DeleteTests, UploadRecord
<1>7. CASE DeleteSubtasks
  BY <1>0, <1>7, UploadsAssumption DEF DeleteSubtasks, UploadRecord
<1>8. CASE AddTest
  BY <1>0, <1>8 DEF AddTest, UploadRecord
<1>9. CASE TestsAdded
  <2>1. upload.file \in Uploads /\ upload.file.subtasks \subseteq Subtasks
    BY <1>0, <1>9, UploadsAssumption DEF TestsAdded
  <2>2. upload' = [upload EXCEPT !.pc = "add_points", !.todo = upload.file.subtasks]
    BY <1>9 DEF TestsAdded
  <2>3. upload' \in UploadRecord
    BY <1>0, <2>1, <2>2 DEF UploadRecord
  <2>4. /\ upload'.pc = "add_points" /\ upload'.todo = upload.file.subtasks
        /\ upload'.file = upload.file
    BY <1>0, <2>2 DEF UploadRecord
  <2> QED BY <2>1, <2>3, <2>4
<1>10. CASE AddPoints
  <2>1. PICK g \in upload.todo :
           upload' = [upload EXCEPT !.pc = "add_subtask", !.todo = @ \ {g},
                                    !.subtask = g]
    BY <1>10 DEF AddPoints
  <2>2. /\ upload.file \in Uploads
        /\ upload.todo \subseteq upload.file.subtasks
        /\ upload.file.subtasks \subseteq Subtasks
    BY <1>0, <1>10, UploadsAssumption DEF AddPoints
  <2>3. upload' = [pc |-> "add_subtask", file |-> upload.file,
                   todo |-> upload.todo \ {g}, sub |-> upload.sub, subtask |-> g]
    BY <1>0, <2>1 DEF UploadRecord
  <2>4. upload' \in UploadRecord
    BY <1>0, <2>2, <2>3 DEF UploadRecord
  <2> QED BY <2>2, <2>3, <2>4
<1>11. CASE AddSubtask
  BY <1>0, <1>11 DEF AddSubtask, UploadRecord
<1>12. CASE AddTestToSubtask
  BY <1>0, <1>12 DEF AddTestToSubtask
<1>13. CASE NextSubtask
  BY <1>0, <1>13 DEF NextSubtask, UploadRecord
<1>14. CASE LinkRefused \/ UploadDone \/ UploadFails \/ UploadDropped
  <2>1. PICK pc \in {"rejected", "done", "failed", "dropped"} :
           upload' = [NoUpload EXCEPT !.pc = pc]
    BY <1>14 DEF LinkRefused, UploadDone, UploadFails, UploadDropped
  <2> QED BY <2>1 DEF NoUpload, UploadRecord
<1> QED BY <1>1, <1>2, <1>3, <1>4, <1>5, <1>6, <1>7, <1>8, <1>9, <1>10, <1>11,
           <1>12, <1>13, <1>14 DEF UploadStep

LEMMA UploadType ==
    ASSUME ATInv, StartUpload \/ UploadStep \/ UploadDropped
    PROVE  ATInv'
<1>1. DatabaseOK' /\ problem_points' \in Nat
  <2>1. CASE StartUpload
    BY <2>1, DatabaseUnchanged DEF StartUpload, ATInv, TInv
  <2> QED BY <2>1, UploadDatabaseType
<1>2. /\ UNCHANGED <<deletion, task, pool, worker, executables, restarts>>
      /\ disturbed' \subseteq disturbed \cup Running \cup {"upload"}
  <2>1. CASE StartUpload
    BY <2>1 DEF StartUpload, Server
  <2> QED BY <2>1, UploadActs
<1>3. TInv'
  BY <1>1, <1>2, ServerStays DEF ATInv
<1>4. DeletionOK' /\ HistoryOK'
  BY <1>2 DEF ATInv, DeletionOK, HistoryOK, Running
<1> QED BY <1>1, <1>3, <1>4, UploadRecordType DEF ATInv

-----------------------------------------------------------------------------
(***************************************************************************)
(* So do those of a deletion ...                                           *)
(***************************************************************************)
LEMMA DeletionDatabaseType ==
    ASSUME ATInv, DeletionStep \/ DeletionDropped
    PROVE  DatabaseOK'
<1> USE DEF ATInv
<1>1. CASE DeleteUserTestResults
  BY <1>1, DeleteTestRowsType DEF DeleteUserTestResults
<1>2. CASE DeleteUserSubtaskResults
  BY <1>2, DeleteSubtaskRowsType DEF DeleteUserSubtaskResults
<1>3. CASE DeleteSubmissions
  <2>1. SubmissionsOK'
    BY <1>3, DeleteIsTable DEF DeleteSubmissions, TInv, DatabaseOK, SubmissionsOK
  <2> QED
    BY <1>3, <2>1
    DEF DeleteSubmissions, TInv, DatabaseOK, UsersOK, ProblemOK, TestResultsOK,
        SubtaskResultsOK, ScoresOK, IsTable
<1>4. CASE DeleteScores
  <2>1. ScoresOK'
    BY <1>4, DeleteIsTable DEF DeleteScores, TInv, DatabaseOK, ScoresOK
  <2> QED
    BY <1>4, <2>1
    DEF DeleteScores, TInv, DatabaseOK, UsersOK, ProblemOK, TestResultsOK,
        SubtaskResultsOK, SubmissionsOK, IsTable
<1>5. CASE DeleteUserRow
  BY <1>5 DEF DeleteUserRow, TInv, DatabaseOK, UsersOK, ProblemOK, TestResultsOK,
              SubtaskResultsOK, SubmissionsOK, ScoresOK, IsTable
<1>6. CASE DeletionFails \/ DeletionDropped
  BY <1>6, DatabaseUnchanged DEF DeletionFails, DeletionDropped, TInv
<1> QED BY <1>1, <1>2, <1>3, <1>4, <1>5, <1>6 DEF DeletionStep

LEMMA DeletionType ==
    ASSUME ATInv, (\E u \in users : StartDeletion(u)) \/ DeletionStep \/ DeletionDropped
    PROVE  ATInv'
<1>0. /\ users \subseteq Users
      /\ DOMAIN submissions \subseteq Submissions
      /\ DeletionOK
  BY DEF ATInv, TInv, DatabaseOK, UsersOK, SubmissionsOK, IsTable
<1>1. DatabaseOK'
  <2>1. CASE \E u \in users : StartDeletion(u)
    BY <2>1, DatabaseUnchanged DEF StartDeletion, ATInv, TInv
  <2> QED BY <2>1, DeletionDatabaseType
<1>2. /\ UNCHANGED <<upload, problem_points, task, pool, worker, executables, restarts>>
      /\ disturbed' \subseteq disturbed \cup Running \cup {"deletion"}
  <2>1. CASE \E u \in users : StartDeletion(u)
    BY <2>1 DEF StartDeletion, Server
  <2> QED BY <1>0, <2>1, DeletionActs
<1>3. TInv'
  BY <1>1, <1>2, ServerStays DEF ATInv
<1>4. UploadOK' /\ HistoryOK' /\ problem_points' \in Nat
  BY <1>2 DEF ATInv, UploadOK, HistoryOK, Running
<1>5. DeletionOK'
  <2>1. ASSUME NEW u \in users, StartDeletion(u) PROVE DeletionOK'
    <3>1. deletion' = [pc |-> "delete_results", todo |-> SubmissionsOf(u),
                       user |-> u, sub |-> None]
      BY <2>1 DEF StartDeletion, NoDeletion
    <3>2. SubmissionsOf(u) \subseteq Submissions /\ u \in Users
      BY <1>0 DEF SubmissionsOf
    <3> QED BY <3>1, <3>2 DEF DeletionOK, DeletionRecord
  <2>2. CASE DeletionStep \/ DeletionDropped
    <3>1. deletion \in DeletionRecord /\ (deletion.pc # "none" => deletion.user \in Users)
      BY <1>0 DEF DeletionOK
    <3>2. CASE DeleteUserTestResults
      <4>1. PICK s \in deletion.todo :
               deletion' = [deletion EXCEPT !.pc = "delete_subtask_results",
                                            !.todo = @ \ {s}, !.sub = s]
        BY <3>2 DEF DeleteUserTestResults, DeletionGoto
      <4>2. deletion' = [pc |-> "delete_subtask_results", todo |-> deletion.todo \ {s},
                         user |-> deletion.user, sub |-> s]
        BY <3>1, <4>1 DEF DeletionRecord
      <4>3. deletion.todo \subseteq Submissions /\ deletion.user \in Users
        BY <3>1, <3>2 DEF DeletionRecord, DeleteUserTestResults
      <4> QED BY <4>2, <4>3 DEF DeletionOK, DeletionRecord
    <3>3. CASE DeleteUserSubtaskResults
      BY <3>1, <3>3
      DEF DeletionOK, DeletionRecord, DeleteUserSubtaskResults, DeletionGoto
    <3>4. CASE DeleteSubmissions \/ DeleteScores \/ DeleteUserRow
                 \/ DeletionFails \/ DeletionDropped
      <4>1. PICK pc \in {"delete_scores", "delete_row", "done", "failed", "dropped"} :
               deletion' = [deletion EXCEPT !.pc = pc]
        BY <3>4 DEF DeleteSubmissions, DeleteScores, DeleteUserRow, DeletionFails,
                    DeletionDropped, DeletionGoto
      <4>2. deletion.pc # "none"
        BY <3>4 DEF DeleteSubmissions, DeleteScores, DeleteUserRow, DeletionFails,
                    DeletionDropped, InUse
      <4> QED BY <3>1, <4>1, <4>2 DEF DeletionOK, DeletionRecord
    <3> QED BY <2>2, <3>2, <3>3, <3>4 DEF DeletionStep
  <2> QED BY <2>1, <2>2
<1> QED BY <1>3, <1>4, <1>5 DEF ATInv

-----------------------------------------------------------------------------
(***************************************************************************)
(* ... and those of the judge, its errors and a restart.                   *)
(***************************************************************************)
\* What the judge does, whether or not a row it needs has vanished.
Judging ==
    \/ JudgeNext
    \/ \E s \in Submissions : InsertFails(s)
    \/ \E w \in Workers : ReduceFails(w) \/ UpsertFails(w)

LEMMA JudgingType ==
    ASSUME TInv, Judging
    PROVE  TInv'
<1>1. ASSUME NEW s \in Submissions,
             AddSubmission(s) \/ HandlerStep(s) \/ HandlerDropped(s)
      PROVE  TInv'
  BY <1>1, HandlerType
<1>2. ASSUME NEW s \in Submissions, TaskStep(s) PROVE TInv'
  BY <1>2, TaskType
<1>3. ASSUME NEW w \in Workers, WorkerStep(w) PROVE TInv'
  BY <1>3, JobType, FinaliseType, ScoreType DEF WorkerStep
<1>4. ASSUME NEW s \in Submissions, InsertFails(s) PROVE TInv'
  <2>1. TaskOK'
    BY <1>4, TaskSet DEF InsertFails, TInv, TaskRecord, GoodTask
  <2> QED
    BY <1>4, <2>1, DatabaseUnchanged
    DEF InsertFails, TInv, PoolOK, WorkerOK, FilesOK, RestartsOK
<1>5. ASSUME NEW w \in Workers, ReduceFails(w) \/ UpsertFails(w) PROVE TInv'
  BY <1>5, OnlyTheWorker, IdleIsGood DEF ReduceFails, UpsertFails, Ignore, Return
<1> QED BY <1>1, <1>2, <1>3, <1>4, <1>5 DEF Judging, JudgeNext

LEMMA JudgingType2 ==
    ASSUME ATInv, Judging, Meanwhile PROVE ATInv'
<1>1. TInv'
  BY JudgingType DEF ATInv
<1> QED BY <1>1 DEF ATInv, Meanwhile, UploadOK, DeletionOK, HistoryOK, Running

-----------------------------------------------------------------------------
(***************************************************************************)
(* What the judge does to the tables, whatever administrators do: it only  *)
(* adds rows, and no submission forgets that it was added.                 *)
(***************************************************************************)
TasksGoOn == \A s \in Submissions : task[s].pc # "none" => task'[s].pc # "none"

RowsGrow ==
    /\ UNCHANGED <<users, problem>>
    /\ DOMAIN submissions \subseteq DOMAIN submissions'
    /\ \A s \in DOMAIN submissions : submissions'[s].user_id = submissions[s].user_id
    /\ \A s \in DOMAIN submissions' \ DOMAIN submissions :
          /\ task[s].pc = "none"
          /\ task'[s].pc # "none"
    /\ DOMAIN test_results \subseteq DOMAIN test_results'
    /\ \A k \in DOMAIN test_results' \ DOMAIN test_results : k[1] \in DOMAIN submissions
    /\ DOMAIN subtask_results \subseteq DOMAIN subtask_results'
    /\ \A k \in DOMAIN subtask_results' \ DOMAIN subtask_results :
          k[1] \in DOMAIN submissions

LEMMA SameResults ==
    ASSUME DOMAIN submissions' = DOMAIN submissions,
           \A s \in DOMAIN submissions :
              submissions'[s].user_id = submissions[s].user_id,
           DOMAIN test_results' = DOMAIN test_results,
           DOMAIN subtask_results' = DOMAIN subtask_results,
           UNCHANGED <<users, problem>>
    PROVE  RowsGrow
BY DEF RowsGrow

LEMMA GotoGoesOn ==
    ASSUME TInv, NEW s \in Submissions, NEW pc, NEW todo, Goto(s, pc, todo), pc # "none"
    PROVE  TasksGoOn /\ task'[s].pc # "none"
<1>1. /\ task'[s] = [pc |-> pc, todo |-> todo]
      /\ \A r \in Submissions : r # s => task'[r] = task[r]
  BY GotoKeeps DEF TInv
<1> QED BY <1>1 DEF TasksGoOn

\* A result keeps the user of the submission.
LEMMA ResultKeepsUsers ==
    ASSUME NEW s, NEW r, TInv, set_submission_result(s, r)
    PROVE  /\ DOMAIN submissions' = DOMAIN submissions
           /\ \A q \in DOMAIN submissions : submissions'[q].user_id = submissions[q].user_id
<1>1. \A q \in DOMAIN submissions : submissions[q] \in SubmissionRow
  BY DEF TInv, DatabaseOK, SubmissionsOK, IsTable
<1>2. /\ DOMAIN submissions' = DOMAIN submissions
      /\ \A q \in DOMAIN submissions : q # s => submissions'[q] = submissions[q]
      /\ s \in DOMAIN submissions => submissions'[s] = [submissions[s] EXCEPT !.result = r]
  BY ResultKeeps
<1>3. s \in DOMAIN submissions => submissions'[s].user_id = submissions[s].user_id
  BY <1>1, <1>2 DEF SubmissionRow
<1> QED BY <1>2, <1>3

\* A submission with a row was once added.
SubmissionsKnown == \A s \in DOMAIN submissions : task[s].pc # "none"

LEMMA TaskFrame ==
    ASSUME TInv, SubmissionsKnown,
           NEW s \in Submissions, SubmissionStep(s) \/ InsertFails(s)
    PROVE  RowsGrow /\ TasksGoOn
<1> USE DEF database
<1>0. task[s] \in TaskRecord
  BY DEF TInv, TaskOK
<1>1. TasksGoOn /\ task'[s].pc # "none"
  <2>1. CASE AddSubmission(s) \/ HandlerStep(s) \/ HandlerDropped(s) \/ InsertFails(s)
    <3>1. \/ Goto(s, "select_subtasks", {})
          \/ \E S : Goto(s, "insert_subtasks", S)
          \/ \E S : Goto(s, "insert_tests", S)
          \/ Goto(s, "queued", {})
          \/ Goto(s, "stopped", {})
      BY <2>1 DEF HandlerStep, AddSubmission, SelectSubtasks, InsertSubtaskResult,
                  SelectTests, InsertTestResult, Spawn, HandlerDropped, InsertFails
    <3> QED BY <3>1, GotoGoesOn
  <2>2. CASE StartCompiling(s)
    <3>1. Goto(s, "compile", {}) \/ Goto(s, "stopped", {})
      BY <2>2 DEF StartCompiling
    <3> QED BY <3>1, GotoGoesOn
  <2>3. CASE TaskStep(s) /\ ~StartCompiling(s)
    <3>1. \/ Goto(s, "ended", {})
          \/ Goto(s, "select_jobs", {})
          \/ \E S : Goto(s, "dispatch", S)
          \/ Goto(s, "stopped", {})
      BY <2>3 DEF TaskStep, CompileFails, CompileSucceeds, SelectJobs, HandOver,
                  DispatchFails
    <3> QED BY <3>1, GotoGoesOn
  <2> QED BY <2>1, <2>2, <2>3 DEF SubmissionStep
<1>2. CASE AddSubmission(s)
  <2>1. PICK u \in users :
           submissions' = Insert(submissions, s,
               [user_id |-> u, result |-> "InQueue", points |-> 0, tests_done |-> 0])
    BY <1>2 DEF AddSubmission
  <2>2. s \notin DOMAIN submissions
    BY <1>2 DEF AddSubmission, SubmissionsKnown
  <2>3. /\ DOMAIN submissions' = DOMAIN submissions \cup {s}
        /\ \A q \in DOMAIN submissions : submissions'[q] = submissions[q]
    BY <2>1, <2>2 DEF Insert
  <2> QED BY <1>1, <1>2, <2>2, <2>3 DEF RowsGrow, AddSubmission
<1>3. CASE InsertSubtaskResult(s)
  <2>1. PICK g, row : subtask_results' = Insert(subtask_results, <<s, g>>, row)
    BY <1>3 DEF InsertSubtaskResult
  <2>2. DOMAIN subtask_results' = DOMAIN subtask_results \cup {<<s, g>>}
    BY <2>1 DEF Insert
  <2> QED BY <1>1, <1>3, <2>2 DEF InsertSubtaskResult, RowsGrow
<1>4. CASE InsertTestResult(s)
  <2>1. PICK t, row : test_results' = Insert(test_results, <<s, t>>, row)
    BY <1>4 DEF InsertTestResult
  <2>2. DOMAIN test_results' = DOMAIN test_results \cup {<<s, t>>}
    BY <2>1 DEF Insert
  <2> QED BY <1>1, <1>4, <2>2 DEF InsertTestResult, RowsGrow
<1>5. CASE StartCompiling(s) \/ CompileFails(s) \/ CompileSucceeds(s)
  <2>1. PICK r : set_submission_result(s, r)
    BY <1>5 DEF StartCompiling, CompileFails, CompileSucceeds
  <2>2. /\ UNCHANGED <<users, problem, test_results>>
        /\ DOMAIN subtask_results' = DOMAIN subtask_results
    BY <1>5 DEF StartCompiling, CompileFails, CompileSucceeds
  <2>3. /\ DOMAIN submissions' = DOMAIN submissions
        /\ \A q \in DOMAIN submissions : submissions'[q].user_id = submissions[q].user_id
    BY <2>1, ResultKeepsUsers
  <2>4. RowsGrow
    BY <2>2, <2>3, SameResults
  <2> QED BY <1>1, <2>4
<1>6. CASE UNCHANGED database
  BY <1>1, <1>6, SameResults
<1> QED
  BY <1>2, <1>3, <1>4, <1>5, <1>6
  DEF SubmissionStep, HandlerStep, TaskStep, SelectSubtasks, SelectTests, Spawn,
      HandlerDropped, SelectJobs, HandOver, DispatchFails, InsertFails

LEMMA WorkerFrame ==
    ASSUME TInv, NEW w \in Workers, WorkerStep(w) \/ ReduceFails(w) \/ UpsertFails(w)
    PROVE  RowsGrow /\ TasksGoOn
<1> USE DEF database
<1>0. \A s \in DOMAIN submissions : submissions[s] \in SubmissionRow
  BY DEF TInv, DatabaseOK, SubmissionsOK, IsTable
<1>1. UNCHANGED <<task, users, problem>>
  BY DEF WorkerStep, TakeJob, ExecuteTest, StoreResult, CountTest, ReadTestsDone,
         CompareTotal, SelectSubtaskResults, ReduceSubtask, WriteVerdict,
         SelectSubmissions, SelectProblemSubtasks, ScoreSubtask, UpsertScore,
         RemoveExecutable, ReduceFails, UpsertFails
<1>2. TasksGoOn
  BY <1>1 DEF TasksGoOn
<1>3. CASE TakeJob(w) \/ StoreResult(w)
  <2>1. PICK k, row : test_results' = Update(test_results, k, row)
    BY <1>3 DEF TakeJob, StoreResult
  <2> QED BY <1>1, <1>2, <1>3, <2>1, UpdateKeeps, SameResults DEF TakeJob, StoreResult
<1>4. CASE ReduceSubtask(w)
  BY <1>1, <1>2, <1>4, UpdateKeeps, SameResults DEF ReduceSubtask
<1>5. CASE CountTest(w) \/ WriteVerdict(w)
  <2>1. /\ DOMAIN submissions' = DOMAIN submissions
        /\ UNCHANGED <<test_results, subtask_results>>
    BY <1>5 DEF CountTest, WriteVerdict
  <2>2. \A s \in DOMAIN submissions : submissions'[s].user_id = submissions[s].user_id
    <3>1. CASE CountTest(w)
      BY <1>0, <3>1 DEF CountTest, SubmissionRow
    <3>2. CASE WriteVerdict(w)
      BY <1>0, <3>2 DEF WriteVerdict, Published, SubmissionRow
    <3> QED BY <1>5, <3>1, <3>2
  <2> QED BY <1>1, <1>2, <2>1, <2>2, SameResults
<1>6. CASE UNCHANGED <<submissions, test_results, subtask_results>>
  BY <1>1, <1>2, <1>6, SameResults
<1> QED
  BY <1>3, <1>4, <1>5, <1>6
  DEF WorkerStep, ExecuteTest, ReadTestsDone, CompareTotal,
      SelectSubtaskResults, SelectSubmissions, SelectProblemSubtasks,
      ScoreSubtask, UpsertScore, RemoveExecutable, ReduceFails, UpsertFails

LEMMA JudgingFrame ==
    ASSUME TInv, SubmissionsKnown, Judging
    PROVE  RowsGrow /\ TasksGoOn
BY TaskFrame, WorkerFrame DEF Judging, JudgeNext, SubmissionStep

-----------------------------------------------------------------------------
(***************************************************************************)
(* What an upload and a deletion do to the rows, and to their own plans.   *)
(***************************************************************************)
UploadKeepsRows ==
    /\ DOMAIN submissions' = DOMAIN submissions
    /\ \A s \in DOMAIN submissions :
          /\ submissions'[s].user_id = submissions[s].user_id
          /\ Judged(s)' => Judged(s)
    /\ DOMAIN test_results' \subseteq DOMAIN test_results
    /\ DOMAIN subtask_results' \subseteq DOMAIN subtask_results

LEMMA UploadRows ==
    ASSUME TInv, UploadStep \/ UploadDropped
    PROVE  UploadKeepsRows
<1> USE DEF UploadKeepsRows
<1>1. CASE ResetSubmission
  <2>1. PICK s \in upload.todo :
           submissions' = [k \in DOMAIN submissions |->
               IF k = s THEN Reset(submissions[k]) ELSE submissions[k]]
    BY <1>1 DEF ResetSubmission
  <2>2. \A k \in DOMAIN submissions : submissions[k] \in SubmissionRow
    BY DEF TInv, DatabaseOK, SubmissionsOK, IsTable
  <2>3. DOMAIN submissions' = DOMAIN submissions
    BY <2>1
  <2>4. \A k \in DOMAIN submissions :
           /\ submissions'[k].user_id = submissions[k].user_id
           /\ submissions'[k].result \in {"InQueue", submissions[k].result}
    BY <2>1, <2>2 DEF Reset, SubmissionRow
  <2>5. \A k \in DOMAIN submissions : Judged(k)' => Judged(k)
    BY <2>3, <2>4 DEF Judged, Unfinished
  <2> QED BY <1>1, <2>3, <2>4, <2>5 DEF ResetSubmission
<1>2. CASE DeleteTestResults
  BY <1>2 DEF DeleteTestResults, DeleteRows, Judged
<1>3. CASE DeleteSubtaskResults
  BY <1>3 DEF DeleteSubtaskResults, DeleteRows, Judged
<1>4. CASE UNCHANGED <<submissions, test_results, subtask_results>>
  BY <1>4 DEF Judged
<1> QED
  BY <1>1, <1>2, <1>3, <1>4
  DEF UploadStep, UploadDropped, DeleteSubtaskTests, DeleteTests, DeleteSubtasks,
      AddTest, TestsAdded, AddPoints, AddSubtask, AddTestToSubtask,
      LinkRefused, NextSubtask, UploadDone, UploadFails, database

\* Submissions of which the deletion has results to delete still.
DeletionPending ==
    deletion.todo \cup
        (IF deletion.pc = "delete_subtask_results" THEN {deletion.sub} ELSE {})

DeletionKeepsRows ==
    /\ DOMAIN submissions' \subseteq DOMAIN submissions
    /\ \A s \in DOMAIN submissions' : submissions'[s] = submissions[s]
    /\ DOMAIN test_results' \subseteq DOMAIN test_results
    /\ \A k \in DOMAIN test_results :
          \/ k[1] \in DeletionPending
          \/ k \in DOMAIN test_results' /\ test_results'[k] = test_results[k]
    /\ DOMAIN subtask_results' \subseteq DOMAIN subtask_results
    /\ \A k \in DOMAIN subtask_results :
          \/ k[1] \in DeletionPending
          \/ k \in DOMAIN subtask_results' /\ subtask_results'[k] = subtask_results[k]
    /\ DOMAIN user_problem_scores' \subseteq DOMAIN user_problem_scores
    /\ \A u \in DOMAIN user_problem_scores' :
          user_problem_scores'[u] = user_problem_scores[u]
    /\ DeletionPending' \subseteq DeletionPending

LEMMA DeletionRows ==
    ASSUME DeletionOK, DeletionStep \/ DeletionDropped
    PROVE  DeletionKeepsRows
<1> USE DEF DeletionKeepsRows, DeletionGoto
<1>0. deletion \in DeletionRecord
  BY DEF DeletionOK
<1>1. CASE DeleteUserTestResults
  <2>1. PICK s \in deletion.todo :
           /\ test_results' = DeleteRows(test_results, TestRowsOf(s))
           /\ deletion' = [deletion EXCEPT !.pc = "delete_subtask_results",
                                           !.todo = @ \ {s}, !.sub = s]
    BY <1>1 DEF DeleteUserTestResults
  <2>2. deletion'.todo = deletion.todo \ {s} /\ deletion'.sub = s
    BY <1>0, <2>1 DEF DeletionRecord
  <2>3. DeletionPending' \subseteq DeletionPending
    BY <2>2 DEF DeletionPending
  <2>4. /\ DOMAIN test_results' \subseteq DOMAIN test_results
        /\ \A k \in DOMAIN test_results :
              \/ k[1] \in DeletionPending
              \/ k \in DOMAIN test_results' /\ test_results'[k] = test_results[k]
    BY <2>1 DEF DeleteRows, TestRowsOf, DeletionPending
  <2> QED BY <1>1, <2>3, <2>4 DEF DeleteUserTestResults
<1>2. CASE DeleteUserSubtaskResults
  <2>1. DeletionPending' \subseteq DeletionPending
    BY <1>0, <1>2 DEF DeleteUserSubtaskResults, DeletionPending, DeletionRecord
  <2>2. \A k \in DOMAIN subtask_results :
           \/ k[1] \in DeletionPending
           \/ k \in DOMAIN subtask_results' /\ subtask_results'[k] = subtask_results[k]
    BY <1>2 DEF DeleteUserSubtaskResults, DeleteRows, SubtaskRowsOf, DeletionPending
  <2> QED BY <1>2, <2>1, <2>2 DEF DeleteUserSubtaskResults, DeleteRows
<1>3. CASE DeleteSubmissions
  <2>1. DeletionPending' \subseteq DeletionPending
    BY <1>0, <1>3 DEF DeleteSubmissions, DeletionPending, DeletionRecord
  <2> QED BY <1>3, <2>1 DEF DeleteSubmissions, DeleteRows
<1>4. CASE DeleteScores
  <2>1. DeletionPending' \subseteq DeletionPending
    BY <1>0, <1>4 DEF DeleteScores, DeletionPending, DeletionRecord
  <2> QED BY <1>4, <2>1 DEF DeleteScores, DeleteRows
<1>5. CASE DeleteUserRow \/ DeletionFails \/ DeletionDropped
  <2>1. DeletionPending' \subseteq DeletionPending
    BY <1>0, <1>5
    DEF DeleteUserRow, DeletionFails, DeletionDropped, DeletionPending, DeletionRecord
  <2> QED BY <1>5, <2>1 DEF DeleteUserRow, DeletionFails, DeletionDropped, database
<1> QED BY <1>1, <1>2, <1>3, <1>4, <1>5 DEF DeletionStep

\* A restart takes the operations under way with it.
LEMMA RestartActs ==
    ASSUME ATInv, AdminRestart
    PROVE  /\ UNCHANGED <<users, problem, submissions, test_results, subtask_results,
                          user_problem_scores, problem_points, disturbed>>
           /\ ~InUse(upload'.pc)
           /\ upload'.pc \in {"dropped", upload.pc}
           /\ deletion'.pc \in {"dropped", deletion.pc}
           /\ deletion.pc = "none" <=> deletion'.pc = "none"
           /\ ~InUse(deletion'.pc)
           /\ deletion'.user = deletion.user
           /\ DeletionPending' \subseteq DeletionPending
           /\ TasksGoOn
           /\ \A w \in Workers : ~Busy(w)' /\ worker'[w].score = 0
<1> USE DEF AdminRestart
<1>1. /\ UNCHANGED <<users, problem, submissions, test_results, subtask_results,
                     user_problem_scores, problem_points, disturbed>>
      /\ pool' = {}
  BY DEF Restart, database
<1>2. ~InUse(upload'.pc) /\ upload'.pc \in {"dropped", upload.pc}
  BY DEF InUse, NoUpload
<1>3. /\ deletion'.pc \in {"dropped", deletion.pc}
      /\ deletion.pc = "none" <=> deletion'.pc = "none"
      /\ ~InUse(deletion'.pc)
      /\ deletion'.user = deletion.user
      /\ deletion'.todo = deletion.todo
  BY DEF InUse, ATInv, DeletionOK, DeletionRecord
<1>4. DeletionPending' \subseteq DeletionPending
  BY <1>3 DEF DeletionPending, InUse
<1>5. ASSUME NEW w \in Workers PROVE ~Busy(w)' /\ worker'[w].score = 0
  <2>1. PICK W \in SUBSET Workers : worker' = Spawned(W)
    BY DEF Restart
  <2>2. worker'[w] = IdleWorker \/ worker'[w] = NoWorker
    BY <2>1 DEF Spawned
  <2> QED BY <2>2 DEF Busy, IdleWorker, NoWorker
<1>6. ASSUME NEW s \in Submissions
      PROVE  task[s].pc # "none" => task'[s].pc # "none"
  <2>1. task'[s] = IF task[s] = NoTask THEN NoTask ELSE [pc |-> "stopped", todo |-> {}]
    BY DEF Restart
  <2> QED BY <2>1 DEF NoTask
<1> QED BY <1>1, <1>2, <1>3, <1>4, <1>5, <1>6 DEF TasksGoOn

-----------------------------------------------------------------------------
(***************************************************************************)
(* The problem: subtask_tests links subtasks to tests that exist, and an   *)
(* upload adds the tests of its file before what refers to them.           *)
(***************************************************************************)
LinksInv ==
    /\ problem.subtask_tests \subseteq problem.subtasks \X problem.tests
    /\ upload.pc = "delete_tests" =>
          \A k \in problem.subtask_tests : k[2] \notin problem.tests
    /\ upload.pc = "delete_subtasks" => problem.subtask_tests = {}
    /\ upload.pc = "add_tests" => upload.file.tests \ upload.todo \subseteq problem.tests
    /\ upload.pc \in Linking => upload.file.tests \subseteq problem.tests
    /\ upload.pc = "link" => upload.subtask \in problem.subtasks

LEMMA LinksUpload ==
    ASSUME ATInv, LinksInv, StartUpload \/ UploadStep \/ UploadDropped
    PROVE  LinksInv'
<1>0. /\ upload \in UploadRecord
      /\ problem \in [tests : SUBSET Tests, subtasks : SUBSET Subtasks,
                      subtask_tests : SUBSET (Subtasks \X Tests)]
      /\ upload.pc = "add_tests" => upload.todo \subseteq upload.file.tests
      /\ upload.pc \in Linking =>
            /\ upload.file \in Uploads
            /\ upload.todo \subseteq upload.file.subtasks
  BY DEF ATInv, TInv, DatabaseOK, ProblemOK, UploadOK, InUse, Linking
<1> USE DEF LinksInv, UploadGoto, Linking
<1>1. CASE StartUpload
  BY <1>1 DEF StartUpload, database, NoUpload
<1>2. CASE ResetSubmission \/ DeleteTestResults \/ DeleteSubtaskResults
  <2>1. problem' = problem /\ upload'.pc \in {"reset", "delete_test_results", "delete_subtask_results"}
    BY <1>0, <1>2
    DEF ResetSubmission, DeleteTestResults, DeleteSubtaskResults, UploadRecord
  <2> QED BY <2>1
<1>3. CASE DeleteSubtaskTests
  <2>1. /\ problem'.tests = problem.tests
        /\ problem'.subtasks = problem.subtasks
        /\ problem'.subtask_tests = {k \in problem.subtask_tests : k[2] \notin problem.tests}
        /\ upload'.pc = "delete_tests"
    BY <1>0, <1>3 DEF DeleteSubtaskTests, UploadRecord
  <2> QED BY <2>1
<1>4. CASE DeleteTests
  <2>1. problem.subtask_tests = {}
    BY <1>4 DEF DeleteTests, TestIsReferenced
  <2>2. /\ problem'.subtask_tests = {}
        /\ upload'.pc = "delete_subtasks"
    BY <1>0, <1>4, <2>1 DEF DeleteTests, UploadRecord
  <2> QED BY <2>2
<1>5. CASE DeleteSubtasks
  <2>1. problem.subtask_tests = {}
    BY <1>5 DEF DeleteSubtasks
  <2>2. /\ problem'.subtask_tests = {}
        /\ upload'.pc = "add_tests"
        /\ upload'.todo = upload.file.tests
        /\ upload'.file = upload.file
    BY <1>0, <1>5, <2>1 DEF DeleteSubtasks, UploadRecord
  <2> QED BY <2>2
<1>6. CASE AddTest
  <2>1. PICK t \in upload.todo :
           /\ problem' = [problem EXCEPT !.tests = @ \cup {t}]
           /\ upload' = [upload EXCEPT !.todo = @ \ {t}]
    BY <1>6 DEF AddTest
  <2>2. /\ problem'.tests = problem.tests \cup {t}
        /\ problem'.subtasks = problem.subtasks
        /\ problem'.subtask_tests = problem.subtask_tests
        /\ upload'.pc = "add_tests"
        /\ upload'.todo = upload.todo \ {t}
        /\ upload'.file = upload.file
    BY <1>0, <1>6, <2>1 DEF AddTest, UploadRecord
  <2> QED BY <1>6, <2>2 DEF AddTest
<1>7. CASE TestsAdded
  <2>1. /\ problem' = problem
        /\ upload'.pc = "add_points"
        /\ upload'.file = upload.file
    BY <1>0, <1>7 DEF TestsAdded, database, UploadRecord
  <2> QED BY <1>7, <2>1 DEF TestsAdded
<1>8. CASE AddPoints
  <2>1. PICK g : upload' = [upload EXCEPT !.pc = "add_subtask", !.todo = @ \ {g}, !.subtask = g]
    BY <1>8 DEF AddPoints
  <2>2. /\ problem' = problem
        /\ upload'.pc = "add_subtask"
        /\ upload'.file = upload.file
    BY <1>0, <1>8, <2>1 DEF AddPoints, database, UploadRecord
  <2> QED BY <1>8, <2>2 DEF AddPoints
<1>9. CASE AddSubtask
  <2>1. /\ problem'.tests = problem.tests
        /\ problem'.subtasks = problem.subtasks \cup {upload.subtask}
        /\ problem'.subtask_tests = problem.subtask_tests
        /\ upload'.pc = "link"
        /\ upload'.subtask = upload.subtask
        /\ upload'.file = upload.file
    BY <1>0, <1>9 DEF AddSubtask, UploadRecord
  <2> QED BY <1>9, <2>1 DEF AddSubtask
<1>10. CASE AddTestToSubtask
  <2>1. PICK k \in LinksToAdd :
           k[2] # None /\ problem' = [problem EXCEPT !.subtask_tests = @ \cup {k}]
    BY <1>10 DEF AddTestToSubtask
  <2>2. /\ problem'.tests = problem.tests
        /\ problem'.subtasks = problem.subtasks
        /\ problem'.subtask_tests = problem.subtask_tests \cup {k}
        /\ upload' = upload
    BY <1>0, <1>10, <2>1 DEF AddTestToSubtask
  <2>3. k \in upload.file.subtasks \X upload.file.tests /\ k[1] = upload.subtask
    BY <1>0, <1>10, <2>1, UploadsAssumption DEF AddTestToSubtask, LinksToAdd
  <2>4. k \in problem.subtasks \X problem.tests
    BY <1>10, <2>3 DEF AddTestToSubtask
  <2> QED BY <1>10, <2>2, <2>4 DEF AddTestToSubtask
<1>11. CASE NextSubtask
  <2>1. /\ problem' = problem
        /\ upload'.pc = "add_points"
        /\ upload'.file = upload.file
    BY <1>0, <1>11 DEF NextSubtask, database, UploadRecord
  <2> QED BY <1>11, <2>1 DEF NextSubtask
<1>12. CASE LinkRefused \/ UploadDone \/ UploadFails \/ UploadDropped
  <2>1. problem' = problem /\ upload'.pc \in {"rejected", "done", "failed", "dropped"}
    BY <1>12 DEF LinkRefused, UploadDone, UploadFails, UploadDropped, database, NoUpload
  <2> QED BY <2>1
<1> QED BY <1>1, <1>2, <1>3, <1>4, <1>5, <1>6, <1>7, <1>8, <1>9, <1>10, <1>11,
           <1>12 DEF UploadStep

LEMMA LinksElsewhere ==
    ASSUME LinksInv, problem' = problem, upload' = upload \/ ~InUse(upload'.pc)
    PROVE  LinksInv'
BY DEF LinksInv, InUse, Linking

-----------------------------------------------------------------------------
(***************************************************************************)
(* No result outlives its submission, whatever operations race: the guard  *)
(* of a foreign key is part of the statement.                              *)
(***************************************************************************)
RowsHaveSubmissions ==
    /\ \A k \in DOMAIN test_results : k[1] \in DOMAIN submissions
    /\ \A k \in DOMAIN subtask_results : k[1] \in DOMAIN submissions

LEMMA ResultsJudging ==
    ASSUME RowsHaveSubmissions, RowsGrow PROVE RowsHaveSubmissions'
BY DEF RowsHaveSubmissions, RowsGrow

LEMMA ResultsUpload ==
    ASSUME RowsHaveSubmissions, UploadKeepsRows PROVE RowsHaveSubmissions'
BY DEF RowsHaveSubmissions, UploadKeepsRows

LEMMA ResultsDeletion ==
    ASSUME RowsHaveSubmissions, DeletionOK, DeletionStep \/ DeletionDropped PROVE RowsHaveSubmissions'
<1>0. /\ DOMAIN test_results' \subseteq DOMAIN test_results
      /\ DOMAIN subtask_results' \subseteq DOMAIN subtask_results
  BY DeletionRows DEF DeletionKeepsRows
<1>1. CASE DeleteSubmissions
  <2>1. DOMAIN submissions' = DOMAIN submissions \ SubmissionsOf(deletion.user)
    BY <1>1 DEF DeleteSubmissions, DeleteRows
  <2>2. \A s \in SubmissionsOf(deletion.user) : TestRowsOf(s) = {} /\ SubtaskRowsOf(s) = {}
    BY <1>1 DEF DeleteSubmissions, SubmissionIsReferenced
  <2>3. /\ \A k \in DOMAIN test_results : k[1] \notin SubmissionsOf(deletion.user)
        /\ \A k \in DOMAIN subtask_results : k[1] \notin SubmissionsOf(deletion.user)
    BY <2>2 DEF TestRowsOf, SubtaskRowsOf
  <2> QED BY <1>0, <2>1, <2>3 DEF RowsHaveSubmissions
<1>2. CASE submissions' = submissions
  BY <1>0, <1>2 DEF RowsHaveSubmissions
<1> QED
  BY <1>1, <1>2
  DEF DeletionStep, DeletionDropped, DeleteUserTestResults,
      DeleteUserSubtaskResults, DeleteScores, DeleteUserRow, DeletionFails, database

-----------------------------------------------------------------------------
(***************************************************************************)
(* Ids are not reused: a submission that has a row or a place in the plan  *)
(* of a deletion was added once, and a row that is back under     *)
(* such an id would still be the deleted user's.                           *)
(***************************************************************************)
Excused(s) == deletion.pc # "none" /\ deletion.user = submissions[s].user_id

PendingKnown ==
    \A s \in DeletionPending :
        /\ task[s].pc # "none"
        /\ s \in DOMAIN submissions => Excused(s)

KnownInv == SubmissionsKnown /\ PendingKnown

LEMMA PendingAreSubmissions ==
    ASSUME DeletionOK PROVE DeletionPending \subseteq Submissions
BY DEF DeletionOK, DeletionRecord, DeletionPending

LEMMA KnownJudging ==
    ASSUME ATInv, KnownInv, Judging, Meanwhile
    PROVE  KnownInv'
<1>0. RowsGrow /\ TasksGoOn
  BY JudgingFrame DEF KnownInv, ATInv
<1>1. /\ DOMAIN submissions \subseteq Submissions
      /\ DeletionPending \subseteq Submissions
  BY PendingAreSubmissions DEF ATInv, TInv, DatabaseOK, SubmissionsOK, IsTable
<1>2. SubmissionsKnown'
  BY <1>0, <1>1 DEF KnownInv, SubmissionsKnown, RowsGrow, TasksGoOn
<1>4. PendingKnown'
  <2>1. deletion' = deletion /\ DeletionPending' = DeletionPending
    BY DEF Meanwhile, DeletionPending
  <2> SUFFICES ASSUME NEW s \in DeletionPending
               PROVE  /\ task'[s].pc # "none"
                      /\ s \in DOMAIN submissions' => Excused(s)'
    BY <2>1 DEF PendingKnown
  <2>2. task[s].pc # "none" /\ s \in Submissions
    BY <1>1 DEF KnownInv, PendingKnown
  <2>3. s \in DOMAIN submissions' => s \in DOMAIN submissions
    BY <1>0, <2>2 DEF RowsGrow
  <2> QED BY <1>0, <2>1, <2>2, <2>3 DEF KnownInv, PendingKnown, Excused, RowsGrow, TasksGoOn
<1> QED BY <1>2, <1>4 DEF KnownInv

LEMMA KnownUpload ==
    ASSUME ATInv, KnownInv, StartUpload \/ UploadStep \/ UploadDropped
    PROVE  KnownInv'
<1>1. UNCHANGED <<deletion, task, pool, worker>>
  BY UploadActs DEF StartUpload, Server
<1>2. /\ DOMAIN submissions' = DOMAIN submissions
      /\ \A s \in DOMAIN submissions : submissions'[s].user_id = submissions[s].user_id
  <2>1. CASE StartUpload
    BY <2>1 DEF StartUpload, database
  <2> QED BY <2>1, UploadRows DEF ATInv, UploadKeepsRows
<1>3. SubmissionsKnown'
  BY <1>1, <1>2 DEF KnownInv, SubmissionsKnown
<1>4. PendingKnown'
  BY <1>1, <1>2 DEF KnownInv, PendingKnown, DeletionPending, Excused
<1> QED BY <1>3, <1>4 DEF KnownInv

LEMMA KnownDeletion ==
    ASSUME ATInv, KnownInv,
           (\E u \in users : StartDeletion(u)) \/ DeletionStep \/ DeletionDropped
    PROVE  KnownInv'
<1>1. UNCHANGED <<task, pool, worker>>
  BY DeletionActs DEF StartDeletion, Server, ATInv
<1>3. ASSUME NEW u \in users, StartDeletion(u)
      PROVE  SubmissionsKnown' /\ PendingKnown'
  <2>1. /\ submissions' = submissions
        /\ deletion' = [pc |-> "delete_results", todo |-> SubmissionsOf(u),
                        user |-> u, sub |-> None]
    BY <1>3 DEF StartDeletion, NoDeletion, database
  <2>2. DeletionPending' = SubmissionsOf(u)
    BY <2>1 DEF DeletionPending
  <2>3. SubmissionsKnown'
    BY <1>1, <2>1 DEF KnownInv, SubmissionsKnown
  <2>4. PendingKnown'
    BY <1>1, <2>1, <2>2
    DEF KnownInv, SubmissionsKnown, PendingKnown, SubmissionsOf, Excused
  <2> QED BY <2>3, <2>4
<1>4. CASE DeletionStep \/ DeletionDropped
  <2>1. DeletionKeepsRows
    BY <1>4, DeletionRows DEF ATInv
  <2>2. deletion'.user = deletion.user /\ deletion'.pc # "none"
    BY <1>4, DeletionActs DEF ATInv
  <2>3. SubmissionsKnown'
    BY <1>1, <2>1 DEF DeletionKeepsRows, KnownInv, SubmissionsKnown
  <2>4. ASSUME NEW s \in DeletionPending'
        PROVE  /\ task'[s].pc # "none"
               /\ s \in DOMAIN submissions' => Excused(s)'
    <3>1. s \in DeletionPending
      BY <2>1 DEF DeletionKeepsRows
    <3>2. task[s].pc # "none" /\ (s \in DOMAIN submissions => Excused(s))
      BY <3>1 DEF KnownInv, PendingKnown
    <3>3. s \in DOMAIN submissions' =>
             s \in DOMAIN submissions /\ submissions'[s] = submissions[s]
      BY <2>1 DEF DeletionKeepsRows
    <3> QED BY <1>1, <2>2, <3>2, <3>3 DEF Excused
  <2> QED BY <2>3, <2>4 DEF KnownInv, PendingKnown
<1> QED BY <1>3, <1>4 DEF KnownInv

LEMMA KnownRestart ==
    ASSUME ATInv, KnownInv, AdminRestart
    PROVE  KnownInv'
<1>0. /\ DOMAIN submissions \subseteq Submissions
      /\ DeletionPending \subseteq Submissions
  BY PendingAreSubmissions DEF ATInv, TInv, DatabaseOK, SubmissionsOK, IsTable
<1>1. SubmissionsKnown'
  BY <1>0, RestartActs DEF KnownInv, SubmissionsKnown, TasksGoOn
<1>2. PendingKnown'
  BY <1>0, RestartActs DEF KnownInv, PendingKnown, Excused, TasksGoOn
<1> QED BY <1>1, <1>2 DEF KnownInv

-----------------------------------------------------------------------------
(***************************************************************************)
(* An upload nobody disturbed leaves no row behind it.                     *)
(***************************************************************************)
NoRows(s) == TestRowsOf(s) = {} /\ SubtaskRowsOf(s) = {}

\* Submissions whose results the upload has still to delete.
UploadPending ==
    upload.todo \cup (IF upload.pc \in Forgetting THEN {upload.sub} ELSE {})

UploadAlone ==
    "upload" \notin disturbed =>
        /\ upload.pc # "failed"
        /\ upload.pc \in Emptying =>
              \A s \in DOMAIN submissions : s \in UploadPending \/ NoRows(s)
        /\ upload.pc = "delete_subtask_results" => TestRowsOf(upload.sub) = {}

\* What is not under way cannot be disturbed any more.
LEMMA UploadOver ==
    ASSUME UploadAlone, disturbed \subseteq disturbed',
           upload'.pc = upload.pc \/ upload'.pc = "dropped",
           ~InUse(upload'.pc) \/ "upload" \in disturbed'
    PROVE  UploadAlone'
BY DEF UploadAlone, InUse, Emptying

LEMMA FewerRows ==
    ASSUME DOMAIN test_results' \subseteq DOMAIN test_results,
           DOMAIN subtask_results' \subseteq DOMAIN subtask_results, NEW s
    PROVE  /\ TestRowsOf(s)' \subseteq TestRowsOf(s)
           /\ NoRows(s) => NoRows(s)'
BY DEF TestRowsOf, SubtaskRowsOf, NoRows

LEMMA UploadAloneUpload ==
    ASSUME ATInv, LinksInv, RowsHaveSubmissions, UploadAlone,
           StartUpload \/ UploadStep \/ UploadDropped
    PROVE  UploadAlone'
<1> SUFFICES ASSUME "upload" \notin disturbed' PROVE UploadAlone'
  BY DEF UploadAlone
<1>0. upload \in UploadRecord
  BY DEF ATInv, UploadOK
<1>1. CASE StartUpload
  BY <1>1 DEF StartUpload, NoUpload, UploadAlone, UploadPending, database
<1>2. CASE UploadStep \/ UploadDropped
  <2>0. /\ "upload" \notin disturbed
        /\ DOMAIN submissions' = DOMAIN submissions
        /\ DOMAIN test_results' \subseteq DOMAIN test_results
        /\ DOMAIN subtask_results' \subseteq DOMAIN subtask_results
    BY <1>2, UploadActs, UploadRows DEF ATInv, UploadKeepsRows
  <2>a. upload.pc \in Emptying =>
           \A s \in DOMAIN submissions : s \in UploadPending \/ NoRows(s)'
    BY <2>0, FewerRows DEF UploadAlone
  <2> USE DEF UploadGoto
  <2>1. CASE ResetSubmission
    <3>1. PICK s \in upload.todo :
             upload' = [upload EXCEPT !.pc = "delete_test_results",
                                      !.todo = @ \ {s}, !.sub = s]
      BY <2>1 DEF ResetSubmission
    <3>2. /\ upload'.pc = "delete_test_results"
          /\ upload'.todo = upload.todo \ {s}
          /\ upload'.sub = s
      BY <1>0, <3>1 DEF UploadRecord
    <3>3. UploadPending \subseteq UploadPending'
      BY <2>1, <3>2 DEF ResetSubmission, UploadPending, Forgetting
    <3> QED BY <2>0, <2>1, <2>a, <3>2, <3>3 DEF UploadAlone, ResetSubmission, Emptying
  <2>2. CASE DeleteTestResults
    <3>1. /\ upload'.pc = "delete_subtask_results"
          /\ upload'.todo = upload.todo
          /\ upload'.sub = upload.sub
      BY <1>0, <2>2 DEF DeleteTestResults, UploadRecord
    <3>2. UploadPending' = UploadPending
      BY <2>2, <3>1 DEF DeleteTestResults, UploadPending, Forgetting
    <3>3. TestRowsOf(upload.sub)' = {}
      BY <1>0, <2>2, <3>1 DEF DeleteTestResults, DeleteRows, TestRowsOf
    <3> QED BY <2>0, <2>2, <2>a, <3>1, <3>2, <3>3 DEF UploadAlone, DeleteTestResults, Emptying
  <2>3. CASE DeleteSubtaskResults
    <3>1. /\ upload'.pc = "reset"
          /\ upload'.todo = upload.todo
      BY <1>0, <2>3 DEF DeleteSubtaskResults, UploadRecord
    <3>2. \A s : s = upload.sub => NoRows(s)'
      <4>1. TestRowsOf(upload.sub) = {}
        BY <2>0, <2>3 DEF UploadAlone, DeleteSubtaskResults
      <4> QED BY <2>3, <4>1
          DEF DeleteSubtaskResults, DeleteRows, TestRowsOf, SubtaskRowsOf, NoRows
    <3>3. \A s \in UploadPending : s \in UploadPending' \/ s = upload.sub
      BY <2>3, <3>1 DEF DeleteSubtaskResults, UploadPending, Forgetting
    <3> QED BY <2>0, <2>3, <2>a, <3>1, <3>2, <3>3 DEF UploadAlone, DeleteSubtaskResults, Emptying
  <2>4. CASE DeleteSubtaskTests
    <3>1. upload'.pc = "delete_tests" /\ upload'.todo = upload.todo
      BY <1>0, <2>4 DEF DeleteSubtaskTests, UploadRecord
    <3>2. UploadPending' = UploadPending
      BY <2>4, <3>1 DEF DeleteSubtaskTests, UploadPending, Forgetting
    <3> QED BY <2>0, <2>4, <2>a, <3>1, <3>2 DEF UploadAlone, DeleteSubtaskTests, Emptying
  <2>5. CASE DeleteTests
    <3>1. upload'.pc = "delete_subtasks" /\ upload'.todo = upload.todo
      BY <1>0, <2>5 DEF DeleteTests, UploadRecord
    <3>2. UploadPending' = UploadPending
      BY <2>5, <3>1 DEF DeleteTests, UploadPending, Forgetting
    <3> QED BY <2>0, <2>5, <2>a, <3>1, <3>2 DEF UploadAlone, DeleteTests, Emptying
  <2>6. CASE UploadFails
    <3>1. upload.pc \in {"delete_tests", "delete_subtasks"}
      BY <2>6 DEF UploadFails
    <3>2. UploadPending = {}
      BY <3>1 DEF ATInv, UploadOK, UploadPending, Forgetting
    <3>3. \A s \in DOMAIN submissions : NoRows(s)
      BY <2>0, <3>1, <3>2 DEF UploadAlone, Emptying
    <3>4. DOMAIN test_results = {} /\ DOMAIN subtask_results = {}
      BY <3>3 DEF RowsHaveSubmissions, NoRows, TestRowsOf, SubtaskRowsOf
    <3>5. /\ upload.pc = "delete_tests" => ~TestIsReferenced
          /\ upload.pc = "delete_subtasks" => ~SubtaskIsReferenced
      BY <3>4 DEF LinksInv, TestIsReferenced, SubtaskIsReferenced
    <3> QED BY <2>6, <3>5 DEF UploadFails
  <2>7. CASE upload'.pc \notin Emptying \cup {"failed"}
    BY <2>7 DEF UploadAlone, Emptying
  <2> QED
    <3>1. ASSUME DeleteSubtasks PROVE upload'.pc = "add_tests"
      BY <1>0, <3>1 DEF DeleteSubtasks, UploadRecord
    <3>2. ASSUME AddTest PROVE upload'.pc = "add_tests"
      BY <1>0, <3>2 DEF AddTest, UploadRecord
    <3>3. ASSUME TestsAdded \/ NextSubtask PROVE upload'.pc = "add_points"
      BY <1>0, <3>3 DEF TestsAdded, NextSubtask, UploadRecord
    <3>4. ASSUME AddPoints PROVE upload'.pc = "add_subtask"
      BY <1>0, <3>4 DEF AddPoints, UploadRecord
    <3>5. ASSUME AddSubtask \/ AddTestToSubtask PROVE upload'.pc = "link"
      BY <1>0, <3>5 DEF AddSubtask, AddTestToSubtask, UploadRecord
    <3>6. ASSUME LinkRefused \/ UploadDone \/ UploadDropped
          PROVE  upload'.pc \in {"rejected", "done", "dropped"}
      BY <3>6 DEF LinkRefused, UploadDone, UploadDropped, NoUpload
    <3> QED
      BY <1>2, <2>1, <2>2, <2>3, <2>4, <2>5, <2>6, <2>7, <3>1, <3>2, <3>3, <3>4,
         <3>5, <3>6
      DEF UploadStep, Emptying
<1> QED BY <1>1, <1>2

-----------------------------------------------------------------------------
(***************************************************************************)
(* A deletion nobody disturbed leaves no row of its user behind.           *)
(***************************************************************************)
DeletionAlone ==
    "deletion" \notin disturbed =>
        /\ deletion.pc # "failed"
        /\ deletion.pc \in {"delete_results", "delete_subtask_results"} =>
              \A s \in SubmissionsOf(deletion.user) : s \in DeletionPending \/ NoRows(s)
        /\ deletion.pc = "delete_subtask_results" => TestRowsOf(deletion.sub) = {}
        /\ deletion.pc \in {"delete_scores", "delete_row"} =>
              SubmissionsOf(deletion.user) = {}
        /\ deletion.pc = "delete_row" => deletion.user \notin DOMAIN user_problem_scores

LEMMA DeletionOver ==
    ASSUME DeletionAlone, disturbed \subseteq disturbed',
           deletion'.pc = deletion.pc \/ deletion'.pc = "dropped",
           ~InUse(deletion'.pc) \/ "deletion" \in disturbed'
    PROVE  DeletionAlone'
BY DEF DeletionAlone, InUse

LEMMA DeletionAloneDeletion ==
    ASSUME ATInv, DeletionAlone,
           (\E u \in users : StartDeletion(u)) \/ DeletionStep \/ DeletionDropped
    PROVE  DeletionAlone'
<1> SUFFICES ASSUME "deletion" \notin disturbed' PROVE DeletionAlone'
  BY DEF DeletionAlone
<1>0. deletion \in DeletionRecord
  BY DEF ATInv, DeletionOK
<1>1. ASSUME NEW u \in users, StartDeletion(u) PROVE DeletionAlone'
  <2>1. /\ submissions' = submissions
        /\ deletion' = [pc |-> "delete_results", todo |-> SubmissionsOf(u),
                        user |-> u, sub |-> None]
    BY <1>1 DEF StartDeletion, NoDeletion, database
  <2>2. SubmissionsOf(deletion.user)' = SubmissionsOf(u)
    BY <2>1 DEF SubmissionsOf
  <2> QED BY <2>1, <2>2 DEF DeletionAlone, DeletionPending
<1>2. CASE DeletionStep \/ DeletionDropped
  <2>0. /\ "deletion" \notin disturbed
        /\ DeletionKeepsRows
        /\ deletion'.user = deletion.user
    BY <1>2, DeletionActs, DeletionRows DEF ATInv
  <2>a. SubmissionsOf(deletion.user)' \subseteq SubmissionsOf(deletion.user)
    BY <2>0 DEF SubmissionsOf, DeletionKeepsRows
  <2>b. \A s : NoRows(s) => NoRows(s)'
    BY <2>0, FewerRows DEF DeletionKeepsRows
  <2>c. deletion.pc \in {"delete_results", "delete_subtask_results"} =>
           \A s \in SubmissionsOf(deletion.user)' : s \in DeletionPending \/ NoRows(s)'
    BY <2>0, <2>a, <2>b DEF DeletionAlone
  <2> USE DEF DeletionGoto
  <2>1. CASE DeleteUserTestResults
    <3>1. PICK s \in deletion.todo :
             /\ test_results' = DeleteRows(test_results, TestRowsOf(s))
             /\ deletion' = [deletion EXCEPT !.pc = "delete_subtask_results",
                                             !.todo = @ \ {s}, !.sub = s]
      BY <2>1 DEF DeleteUserTestResults
    <3>2. /\ deletion'.pc = "delete_subtask_results"
          /\ deletion'.todo = deletion.todo \ {s}
          /\ deletion'.sub = s
      BY <1>0, <3>1 DEF DeletionRecord
    <3>3. DeletionPending \subseteq DeletionPending'
      BY <2>1, <3>2 DEF DeleteUserTestResults, DeletionPending
    <3>4. TestRowsOf(deletion.sub)' = {}
      BY <3>1, <3>2 DEF DeleteRows, TestRowsOf
    <3> QED BY <2>1, <2>c, <3>2, <3>3, <3>4 DEF DeletionAlone, DeleteUserTestResults
  <2>2. CASE DeleteUserSubtaskResults
    <3>1. /\ deletion'.pc = "delete_results"
          /\ deletion'.todo = deletion.todo
      BY <1>0, <2>2 DEF DeleteUserSubtaskResults, DeletionRecord
    <3>2. \A s : s = deletion.sub => NoRows(s)'
      <4>1. TestRowsOf(deletion.sub) = {}
        BY <2>0, <2>2 DEF DeletionAlone, DeleteUserSubtaskResults
      <4> QED BY <2>2, <4>1
          DEF DeleteUserSubtaskResults, DeleteRows, TestRowsOf, SubtaskRowsOf, NoRows
    <3>3. \A s \in DeletionPending : s \in DeletionPending' \/ s = deletion.sub
      BY <2>2, <3>1 DEF DeleteUserSubtaskResults, DeletionPending
    <3> QED BY <2>2, <2>c, <3>1, <3>2, <3>3 DEF DeletionAlone, DeleteUserSubtaskResults
  <2>3. CASE DeleteSubmissions
    <3>1. deletion'.pc = "delete_scores"
      BY <1>0, <2>3 DEF DeleteSubmissions, DeletionRecord
    <3>2. SubmissionsOf(deletion.user)' = {}
      BY <2>0, <2>3 DEF DeleteSubmissions, DeleteRows, SubmissionsOf
    <3> QED BY <3>1, <3>2 DEF DeletionAlone
  <2>4. CASE DeleteScores
    <3>1. deletion'.pc = "delete_row"
      BY <1>0, <2>4 DEF DeleteScores, DeletionRecord
    <3>2. deletion'.user \notin DOMAIN user_problem_scores'
      BY <2>0, <2>4 DEF DeleteScores, DeleteRows
    <3>3. SubmissionsOf(deletion.user)' = {}
      BY <2>0, <2>4, <2>a DEF DeletionAlone, DeleteScores
    <3> QED BY <3>1, <3>2, <3>3 DEF DeletionAlone
  <2>5. CASE DeletionFails
    BY <2>0, <2>5
    DEF DeletionFails, DeletionAlone, SubmissionIsReferenced, UserIsReferenced,
        DeletionPending, NoRows
  <2>6. CASE DeleteUserRow \/ DeletionDropped
    <3>1. deletion'.pc \in {"done", "dropped"}
      BY <1>0, <2>6 DEF DeleteUserRow, DeletionDropped, DeletionRecord
    <3> QED BY <3>1 DEF DeletionAlone
  <2> QED BY <1>2, <2>1, <2>2, <2>3, <2>4, <2>5, <2>6 DEF DeletionStep
<1> QED BY <1>1, <1>2

-----------------------------------------------------------------------------
(***************************************************************************)
(* Scores and the points of the problem.  problem_points never falls, and  *)
(* add_subtask raises it before the row is there, so what a worker has     *)
(* summed up and may still add stays below it, whichever subtasks the      *)
(* worker selected.                                                        *)
(***************************************************************************)
WithinBudget(w) ==
    IF worker[w].pc = "score"
    THEN /\ IsFiniteSet(worker[w].todo)
         /\ worker[w].score + SumOf(SubtaskScore, worker[w].todo) <= problem_points
    ELSE worker[w].score = 0

SubtasksWithinBudget ==
    /\ IsFiniteSet(problem.subtasks)
    /\ SumOf(SubtaskScore, problem.subtasks) <= problem_points
    /\ upload.pc = "add_subtask" =>
          SumOf(SubtaskScore, problem.subtasks \cup {upload.subtask}) <= problem_points

BudgetInv ==
    /\ SubtasksWithinBudget
    /\ \A w \in Workers : WithinBudget(w)
    /\ ScoreWithinProblemPoints

\* A worker that is not adding up a score has none.
LEMMA NoScore ==
    ASSUME WorkerOK, NEW w \in Workers, NEW r, worker' = [worker EXCEPT ![w] = r],
           r.pc # "score", r.score = 0
    PROVE  WithinBudget(w)'
BY WorkerMoves DEF WithinBudget

LEMMA IdleHasNoScore ==
    ASSUME WorkerOK, NEW w \in Workers, Return(w)
    PROVE  WithinBudget(w)'
<1>1. IdleWorker.pc = "idle" /\ IdleWorker.score = 0
  BY DEF IdleWorker
<1> QED BY <1>1, NoScore DEF Return

LEMMA BudgetScoring ==
    ASSUME ATInv, BudgetInv, NEW w \in Workers,
           SelectProblemSubtasks(w) \/ ScoreSubtask(w),
           problem_points' = problem_points
    PROVE  WithinBudget(w)'
<1>0. /\ WorkerOK /\ SubtaskResultsOK
      /\ worker[w] \in WorkerRecord
      /\ WithinBudget(w)
      /\ problem_points \in Nat
  BY WorkerRecordFacts DEF ATInv, TInv, DatabaseOK, WorkerOK, GoodWorker, BudgetInv
<1>1. CASE SelectProblemSubtasks(w)
  <2>1. worker'[w] = [worker[w] EXCEPT !.pc = "score", !.todo = problem.subtasks]
    BY <1>0, <1>1, WorkerMoves DEF SelectProblemSubtasks
  <2>2. /\ worker'[w].pc = "score"
        /\ worker'[w].todo = problem.subtasks
        /\ worker'[w].score = worker[w].score
    BY <1>0, <2>1 DEF WorkerRecord
  <2>3. worker[w].score = 0
    BY <1>0, <1>1 DEF WithinBudget, SelectProblemSubtasks
  <2>4. SumOf(SubtaskScore, problem.subtasks) \in Nat
    BY ScoresAreNat DEF BudgetInv, SubtasksWithinBudget, ATInv, TInv, DatabaseOK, ProblemOK
  <2> QED BY <2>2, <2>3, <2>4 DEF WithinBudget, BudgetInv, SubtasksWithinBudget
<1>2. CASE ScoreSubtask(w)
  <2> DEFINE G == worker[w].todo
             d == worker[w].score
  <2>1. PICK g \in G : worker' = [worker EXCEPT ![w] =
                  [worker[w] EXCEPT !.todo = worker[w].todo \ {g},
                             !.score = worker[w].score + BestPoints(worker[w].mine, g)]]
    BY <1>2 DEF ScoreSubtask
  <2>2. worker[w].pc = "score"
    BY <1>2 DEF ScoreSubtask
  <2>3. worker'[w] = [worker[w] EXCEPT !.todo = G \ {g},
                                       !.score = d + BestPoints(worker[w].mine, g)]
    BY <1>0, <2>1, WorkerMoves
  <2>4. /\ worker'[w].pc = "score"
        /\ worker'[w].todo = G \ {g}
        /\ worker'[w].score = d + BestPoints(worker[w].mine, g)
    BY <1>0, <2>2, <2>3 DEF WorkerRecord
  <2>5. /\ IsFiniteSet(G)
        /\ d + SumOf(SubtaskScore, G) <= problem_points
        /\ d \in Nat
    BY <1>0, <2>2 DEF WithinBudget, WorkerRecord
  <2>6. G \subseteq Subtasks
    BY <1>0, <2>2 DEF GoodWorker, WorkerRecord
  <2>7. BestPoints(worker[w].mine, g) \in {0, SubtaskScore[g]}
    BY <1>0, <2>1, <2>6, BestPointsAllOrNothing
  <2>8. /\ SumOf(SubtaskScore, G) = SubtaskScore[g] + SumOf(SubtaskScore, G \ {g})
        /\ SubtaskScore[g] \in Nat
    BY <2>1, <2>5, <2>6, ScoresAreNat, SumRemove
  <2>9. IsFiniteSet(G \ {g}) /\ SumOf(SubtaskScore, G \ {g}) \in Nat
    BY <2>5, <2>6, FS_Subset, ScoresAreNat
  <2> HIDE DEF G, d
  <2>10. (d + BestPoints(worker[w].mine, g)) + SumOf(SubtaskScore, G \ {g}) <= problem_points
    BY <1>0, <2>5, <2>7, <2>8, <2>9
  <2> QED BY <2>4, <2>9, <2>10 DEF WithinBudget
<1> QED BY <1>1, <1>2

LEMMA BudgetOwn ==
    ASSUME ATInv, BudgetInv, NEW w \in Workers,
           WorkerStep(w) \/ ReduceFails(w) \/ UpsertFails(w),
           problem_points' = problem_points
    PROVE  WithinBudget(w)'
<1>0. /\ WorkerOK
      /\ worker[w] \in WorkerRecord
      /\ worker[w].pc # "score" => worker[w].score = 0
  BY WorkerRecordFacts DEF ATInv, TInv, WorkerOK, BudgetInv, WithinBudget
<1>a. ASSUME Return(w) PROVE WithinBudget(w)'
  BY <1>0, <1>a, IdleHasNoScore
<1>1. CASE TakeJob(w)
  <2>1. PICK j \in pool : worker' = [worker EXCEPT ![w] =
                           [IdleWorker EXCEPT !.pc = "execute", !.job = j]]
    BY <1>1 DEF TakeJob
  <2>2. /\ [IdleWorker EXCEPT !.pc = "execute", !.job = j].pc = "execute"
        /\ [IdleWorker EXCEPT !.pc = "execute", !.job = j].score = 0
    BY DEF IdleWorker
  <2> QED BY <1>0, <2>1, <2>2, NoScore
<1>2. CASE ExecuteTest(w)
  <2>1. PICK v : worker' = [worker EXCEPT ![w] = [worker[w] EXCEPT !.pc = "store", !.verdict = v]]
    BY <1>2 DEF ExecuteTest
  <2>2. worker'[w] = [worker[w] EXCEPT !.pc = "store", !.verdict = v]
    BY <1>0, <2>1, WorkerMoves
  <2>3. worker'[w].pc = "store" /\ worker'[w].score = worker[w].score
    BY <1>0, <2>2 DEF WorkerRecord
  <2> QED BY <1>0, <1>2, <2>3 DEF WithinBudget, ExecuteTest
<1>3. CASE StoreResult(w)
  <2>1. worker'[w] = [worker[w] EXCEPT !.pc = "count", !.verdict = "InQueue"]
    BY <1>0, <1>3, WorkerMoves DEF StoreResult
  <2>2. worker'[w].pc = "count" /\ worker'[w].score = worker[w].score
    BY <1>0, <2>1 DEF WorkerRecord
  <2> QED BY <1>0, <1>3, <2>2 DEF WithinBudget, StoreResult
<1>4. CASE CountTest(w)
  <2>1. worker'[w].pc = "read_tests_done" /\ worker'[w].score = worker[w].score
    BY <1>0, <1>4 DEF CountTest, At, WorkerOK, WorkerRecord
  <2> QED BY <1>0, <1>4, <2>1 DEF WithinBudget, CountTest
<1>5. CASE ReadTestsDone(w)
  <2>1. CASE SubmissionOf(w) \in DOMAIN submissions
    <3>1. worker'[w] = [worker[w] EXCEPT !.pc = "compare",
                           !.tests_done = submissions[SubmissionOf(w)].tests_done]
      BY <1>0, <1>5, <2>1, WorkerMoves DEF ReadTestsDone
    <3>2. worker'[w].pc = "compare" /\ worker'[w].score = worker[w].score
      BY <1>0, <3>1 DEF WorkerRecord
    <3> QED BY <1>0, <1>5, <3>2 DEF WithinBudget, ReadTestsDone
  <2> QED BY <1>5, <1>a, <2>1 DEF ReadTestsDone
<1>6. CASE CompareTotal(w)
  <2>1. CASE AllTestsDone(SubmissionOf(w), worker[w].tests_done)
    <3>1. worker'[w] = [worker[w] EXCEPT !.pc = "select_subtasks", !.tests_done = 0]
      BY <1>0, <1>6, <2>1, WorkerMoves DEF CompareTotal
    <3>2. worker'[w].pc = "select_subtasks" /\ worker'[w].score = worker[w].score
      BY <1>0, <3>1 DEF WorkerRecord
    <3> QED BY <1>0, <1>6, <3>2 DEF WithinBudget, CompareTotal
  <2> QED BY <1>6, <1>a, <2>1 DEF CompareTotal
<1>7. CASE SelectSubtaskResults(w)
  <2>1. worker'[w] = [worker[w] EXCEPT !.pc = "reduce",
                         !.todo = get_subtasks_for_submission(SubmissionOf(w))]
    BY <1>0, <1>7, WorkerMoves DEF SelectSubtaskResults
  <2>2. worker'[w].pc = "reduce" /\ worker'[w].score = worker[w].score
    BY <1>0, <2>1 DEF WorkerRecord
  <2> QED BY <1>0, <1>7, <2>2 DEF WithinBudget, SelectSubtaskResults
<1>8. CASE ReduceSubtask(w)
  <2>1. PICK G, r, p : worker' = [worker EXCEPT ![w] =
                         [worker[w] EXCEPT !.todo = G, !.result = r, !.points = p]]
    BY <1>8 DEF ReduceSubtask
  <2>2. worker'[w] = [worker[w] EXCEPT !.todo = G, !.result = r, !.points = p]
    BY <1>0, <2>1, WorkerMoves
  <2>3. worker'[w].pc = worker[w].pc /\ worker'[w].score = worker[w].score
    BY <1>0, <2>2 DEF WorkerRecord
  <2> QED BY <1>0, <1>8, <2>3 DEF WithinBudget, ReduceSubtask
<1>9. CASE WriteVerdict(w)
  <2>1. worker'[w] = [worker[w] EXCEPT !.pc = "select_submissions",
                         !.result = "Accepted", !.points = 0]
    BY <1>0, <1>9, WorkerMoves DEF WriteVerdict
  <2>2. worker'[w].pc = "select_submissions" /\ worker'[w].score = worker[w].score
    BY <1>0, <2>1 DEF WorkerRecord
  <2> QED BY <1>0, <1>9, <2>2 DEF WithinBudget, WriteVerdict
<1>10. CASE SelectSubmissions(w)
  <2>1. CASE SubmissionOf(w) \in DOMAIN submissions
    <3>1. PICK u, mine : worker' = [worker EXCEPT ![w] =
               [worker[w] EXCEPT !.pc = "select_problem_subtasks", !.user = u, !.mine = mine]]
      BY <1>10, <2>1 DEF SelectSubmissions
    <3>2. worker'[w] = [worker[w] EXCEPT !.pc = "select_problem_subtasks",
                                         !.user = u, !.mine = mine]
      BY <1>0, <3>1, WorkerMoves
    <3>3. worker'[w].pc = "select_problem_subtasks" /\ worker'[w].score = worker[w].score
      BY <1>0, <3>2 DEF WorkerRecord
    <3> QED BY <1>0, <1>10, <3>3 DEF WithinBudget, SelectSubmissions
  <2> QED BY <1>10, <1>a, <2>1 DEF SelectSubmissions
<1>11. CASE SelectProblemSubtasks(w) \/ ScoreSubtask(w)
  BY <1>11, BudgetScoring
<1>12. CASE UpsertScore(w)
  <2>1. worker'[w] = [worker[w] EXCEPT !.pc = "remove", !.user = None, !.mine = {}, !.score = 0]
    BY <1>0, <1>12, WorkerMoves DEF UpsertScore
  <2>2. worker'[w].pc = "remove" /\ worker'[w].score = 0
    BY <1>0, <2>1 DEF WorkerRecord
  <2> QED BY <2>2 DEF WithinBudget
<1>13. CASE RemoveExecutable(w) \/ ReduceFails(w) \/ UpsertFails(w)
  BY <1>a, <1>13 DEF RemoveExecutable, ReduceFails, UpsertFails, Ignore
<1> QED BY <1>1, <1>2, <1>3, <1>4, <1>5, <1>6, <1>7, <1>8, <1>9, <1>10, <1>11,
           <1>12, <1>13 DEF WorkerStep

\* The points a worker stores are those it has summed up.
LEMMA BudgetUpsert ==
    ASSUME ATInv, BudgetInv, NEW w \in Workers, UpsertScore(w),
           problem_points' = problem_points
    PROVE  ScoreWithinProblemPoints'
<1>1. worker[w].score <= problem_points
  <2>1. worker[w].pc = "score" /\ worker[w].todo = {}
    BY DEF UpsertScore
  <2>2. WithinBudget(w) /\ worker[w].score \in Nat
    BY WorkerRecordFacts DEF BudgetInv, ATInv, TInv, WorkerOK, WorkerRecord
  <2> QED BY <2>1, <2>2, SumEmpty DEF WithinBudget
<1>2. user_problem_scores' = Insert(user_problem_scores, worker[w].user, worker[w].score)
  BY DEF UpsertScore
<1> QED BY <1>1, <1>2 DEF Insert, BudgetInv, ScoreWithinProblemPoints

LEMMA BudgetJudging ==
    ASSUME ATInv, BudgetInv, Judging, Meanwhile
    PROVE  BudgetInv'
<1> USE DEF database
<1>0. problem_points' = problem_points /\ upload' = upload
  BY DEF Meanwhile
<1>1. problem' = problem
  BY DEF Judging, JudgeNext, AddSubmission, HandlerStep, HandlerDropped, TaskStep,
         SelectSubtasks, InsertSubtaskResult, SelectTests, InsertTestResult, Spawn,
         StartCompiling, CompileFails, CompileSucceeds, SelectJobs, HandOver,
         DispatchFails, WorkerStep, TakeJob, ExecuteTest, StoreResult, CountTest,
         ReadTestsDone, CompareTotal, SelectSubtaskResults, ReduceSubtask, WriteVerdict,
         SelectSubmissions, SelectProblemSubtasks, ScoreSubtask, UpsertScore,
         RemoveExecutable, InsertFails, ReduceFails, UpsertFails
<1>2. SubtasksWithinBudget'
  BY <1>0, <1>1 DEF BudgetInv, SubtasksWithinBudget
<1>3. CASE UNCHANGED <<worker, user_problem_scores>>
  BY <1>0, <1>2, <1>3 DEF BudgetInv, WithinBudget, ScoreWithinProblemPoints
<1>4. ASSUME NEW w \in Workers, WorkerStep(w) \/ ReduceFails(w) \/ UpsertFails(w)
      PROVE  BudgetInv'
  <2>1. WithinBudget(w)'
    BY <1>0, <1>4, BudgetOwn
  <2>2. \A v \in Workers : v # w => worker'[v] = worker[v]
    BY <1>4, OthersStay, WorkerMoves DEF ATInv, TInv, ReduceFails, UpsertFails, Ignore, Return
  <2>3. \A v \in Workers : WithinBudget(v)'
    BY <1>0, <2>1, <2>2 DEF BudgetInv, WithinBudget
  <2>4. ScoreWithinProblemPoints'
    <3>1. CASE UpsertScore(w)
      BY <1>0, <3>1, BudgetUpsert
    <3>2. CASE user_problem_scores' = user_problem_scores
      BY <1>0, <3>2 DEF BudgetInv, ScoreWithinProblemPoints
    <3> QED
      BY <1>4, <3>1, <3>2
      DEF WorkerStep, TakeJob, ExecuteTest, StoreResult, CountTest, ReadTestsDone,
          CompareTotal, SelectSubtaskResults, ReduceSubtask, WriteVerdict,
          SelectSubmissions, SelectProblemSubtasks, ScoreSubtask, RemoveExecutable,
          ReduceFails, UpsertFails
  <2> QED BY <1>2, <2>3, <2>4 DEF BudgetInv
<1> QED
  BY <1>3, <1>4
  DEF Judging, JudgeNext, AddSubmission, HandlerStep, HandlerDropped, TaskStep,
      SelectSubtasks, InsertSubtaskResult, SelectTests, InsertTestResult, Spawn,
      StartCompiling, CompileFails, CompileSucceeds, SelectJobs, HandOver,
      DispatchFails, InsertFails

LEMMA BudgetRestart ==
    ASSUME BudgetInv, ATInv, AdminRestart
    PROVE  BudgetInv'
<1>1. /\ UNCHANGED <<problem, user_problem_scores, problem_points>>
      /\ ~InUse(upload'.pc)
      /\ \A w \in Workers : ~Busy(w)' /\ worker'[w].score = 0
  BY RestartActs
<1>2. SubtasksWithinBudget'
  BY <1>1 DEF BudgetInv, SubtasksWithinBudget, InUse
<1>3. \A w \in Workers : WithinBudget(w)'
  BY <1>1 DEF WithinBudget, Busy
<1> QED BY <1>1, <1>2, <1>3 DEF BudgetInv, ScoreWithinProblemPoints

LEMMA BudgetUpload ==
    ASSUME ATInv, BudgetInv, StartUpload \/ UploadStep \/ UploadDropped
    PROVE  BudgetInv'
<1> USE DEF database
<1>0. /\ upload \in UploadRecord /\ problem_points \in Nat
      /\ problem \in [tests : SUBSET Tests, subtasks : SUBSET Subtasks,
                      subtask_tests : SUBSET (Subtasks \X Tests)]
      /\ IsFiniteSet(problem.subtasks)
      /\ SumOf(SubtaskScore, problem.subtasks) \in Nat
      /\ SumOf(SubtaskScore, problem.subtasks) <= problem_points
  BY ScoresAreNat
  DEF ATInv, UploadOK, TInv, DatabaseOK, ProblemOK, BudgetInv, SubtasksWithinBudget
<1>1. UNCHANGED <<worker, user_problem_scores>>
  BY UploadActs DEF StartUpload, Server
<1>2. problem_points' \in Nat /\ problem_points <= problem_points' /\ SubtasksWithinBudget'
  <2>1. CASE AddPoints
    <3>1. PICK g \in upload.todo :
             /\ problem_points' = problem_points + SubtaskScore[g]
             /\ upload' = [upload EXCEPT !.pc = "add_subtask", !.todo = @ \ {g},
                                         !.subtask = g]
      BY <2>1 DEF AddPoints, UploadGoto
    <3>2. upload'.subtask = g /\ problem' = problem
      BY <1>0, <2>1, <3>1 DEF UploadRecord, AddPoints
    <3>3. g \in Subtasks /\ SubtaskScore[g] \in Nat
      BY <2>1, <3>1, UploadsAssumption, ScoreAssumption
      DEF AddPoints, ATInv, UploadOK, InUse, Linking
    <3> DEFINE G == problem.subtasks \cup {g}
    <3>4. SumOf(SubtaskScore, G) <= problem_points + SubtaskScore[g]
      <4>1. CASE g \in problem.subtasks
        <5>1. G = problem.subtasks
          BY <4>1
        <5>2. SumOf(SubtaskScore, G) = SumOf(SubtaskScore, problem.subtasks)
          BY <5>1
        <5> HIDE DEF G
        <5> QED BY <1>0, <3>3, <5>2
      <4>2. CASE g \notin problem.subtasks
        <5>1. IsFiniteSet(G) /\ G \subseteq Subtasks /\ G \ {g} = problem.subtasks /\ g \in G
          BY <1>0, <3>3, <4>2, FS_AddElement
        <5>2. SumOf(SubtaskScore, G) = SubtaskScore[g] + SumOf(SubtaskScore, problem.subtasks)
          BY <5>1, ScoresAreNat, SumRemove
        <5> QED BY <1>0, <3>3, <5>2
      <4> QED BY <4>1, <4>2
    <3>5. SumOf(SubtaskScore, problem.subtasks) <= problem_points'
      BY <1>0, <3>1, <3>3
    <3> QED BY <1>0, <3>1, <3>2, <3>3, <3>4, <3>5 DEF SubtasksWithinBudget
  <2>2. CASE AddSubtask
    <3>1. /\ problem'.subtasks = problem.subtasks \cup {upload.subtask}
          /\ problem_points' = problem_points
          /\ upload'.pc = "link"
      BY <1>0, <2>2 DEF AddSubtask, UploadGoto, UploadRecord
    <3>2. SumOf(SubtaskScore, problem.subtasks \cup {upload.subtask}) <= problem_points
      BY <2>2 DEF AddSubtask, BudgetInv, SubtasksWithinBudget
    <3>3. IsFiniteSet(problem.subtasks \cup {upload.subtask})
      BY <1>0, FS_AddElement
    <3> QED BY <1>0, <3>1, <3>2, <3>3 DEF SubtasksWithinBudget
  <2>3. CASE DeleteSubtasks
    <3>1. /\ problem'.subtasks = {}
          /\ problem_points' = problem_points
          /\ upload'.pc = "add_tests"
      BY <1>0, <2>3 DEF DeleteSubtasks, UploadGoto, UploadRecord
    <3> QED BY <1>0, <3>1, SumEmpty, FS_EmptySet DEF SubtasksWithinBudget
  <2>4. CASE ~AddPoints /\ ~AddSubtask /\ ~DeleteSubtasks
    <3>1. problem'.subtasks = problem.subtasks /\ problem_points' = problem_points
      <4>1. CASE DeleteSubtaskTests
        BY <1>0, <4>1 DEF DeleteSubtaskTests
      <4>2. CASE DeleteTests
        BY <1>0, <4>2 DEF DeleteTests
      <4>3. CASE AddTest
        BY <1>0, <4>3 DEF AddTest
      <4>4. CASE AddTestToSubtask
        BY <1>0, <4>4 DEF AddTestToSubtask
      <4> QED
        BY <2>4, <4>1, <4>2, <4>3, <4>4
        DEF UploadStep, UploadDropped, StartUpload, ResetSubmission, DeleteTestResults,
            DeleteSubtaskResults, TestsAdded, LinkRefused, NextSubtask, UploadDone,
            UploadFails
    <3>2. upload'.pc # "add_subtask"
      <4>1. CASE StartUpload \/ LinkRefused \/ UploadDone \/ UploadFails \/ UploadDropped
        BY <4>1 DEF StartUpload, LinkRefused, UploadDone, UploadFails, UploadDropped,
                    UploadGoto, NoUpload
      <4>2. CASE DeleteTestResults \/ DeleteSubtaskResults \/ DeleteSubtaskTests \/ DeleteTests
        BY <1>0, <4>2 DEF DeleteTestResults, DeleteSubtaskResults, DeleteSubtaskTests,
                          DeleteTests, UploadGoto, UploadRecord
      <4>3. CASE TestsAdded \/ AddTestToSubtask \/ NextSubtask
        BY <1>0, <4>3 DEF TestsAdded, AddTestToSubtask, NextSubtask, UploadGoto, UploadRecord
      <4>4. CASE ResetSubmission
        BY <1>0, <4>4 DEF ResetSubmission, UploadGoto, UploadRecord
      <4>5. CASE AddTest
        BY <1>0, <4>5 DEF AddTest, UploadGoto, UploadRecord
      <4> QED BY <2>4, <4>1, <4>2, <4>3, <4>4, <4>5 DEF UploadStep
    <3> QED BY <1>0, <3>1, <3>2 DEF SubtasksWithinBudget
  <2> QED BY <2>1, <2>2, <2>3, <2>4
<1>3. ASSUME NEW w \in Workers PROVE WithinBudget(w)'
  <2>1. WithinBudget(w) /\ worker[w] \in WorkerRecord
    BY WorkerRecordFacts DEF BudgetInv, ATInv, TInv, WorkerOK
  <2>2. CASE worker[w].pc = "score"
    <3>1. /\ IsFiniteSet(worker[w].todo) /\ worker[w].score \in Nat
          /\ worker[w].score + SumOf(SubtaskScore, worker[w].todo) <= problem_points
      BY <2>1, <2>2 DEF WithinBudget, WorkerRecord
    <3>2. worker[w].todo \subseteq Subtasks
      BY <2>1, <2>2 DEF WorkerRecord
    <3>3. SumOf(SubtaskScore, worker[w].todo) \in Nat
      BY <3>1, <3>2, ScoresAreNat
    <3>4. worker[w].score + SumOf(SubtaskScore, worker[w].todo) <= problem_points'
      BY <1>0, <1>2, <3>1, <3>3
    <3> QED BY <1>1, <2>2, <3>1, <3>4 DEF WithinBudget
  <2>3. CASE worker[w].pc # "score"
    BY <1>1, <2>1, <2>3 DEF WithinBudget
  <2> QED BY <2>2, <2>3
<1>4. ScoreWithinProblemPoints'
  <2>1. \A u \in DOMAIN user_problem_scores : user_problem_scores[u] \in Nat
    BY DEF ATInv, TInv, DatabaseOK, ScoresOK, IsTable
  <2> QED BY <1>0, <1>1, <1>2, <2>1 DEF BudgetInv, ScoreWithinProblemPoints
<1> QED BY <1>2, <1>3, <1>4 DEF BudgetInv

LEMMA BudgetDeletion ==
    ASSUME ATInv, BudgetInv,
           (\E u \in users : StartDeletion(u)) \/ DeletionStep \/ DeletionDropped
    PROVE  BudgetInv'
<1>1. /\ UNCHANGED <<problem, worker, upload, problem_points>>
      /\ DOMAIN user_problem_scores' \subseteq DOMAIN user_problem_scores
      /\ \A u \in DOMAIN user_problem_scores' :
            user_problem_scores'[u] = user_problem_scores[u]
  <2>1. CASE \E u \in users : StartDeletion(u)
    BY <2>1 DEF StartDeletion, Server, database
  <2>2. CASE DeletionStep \/ DeletionDropped
    BY <2>2, DeletionActs, DeletionRows DEF ATInv, DeletionKeepsRows
  <2> QED BY <2>1, <2>2
<1> QED BY <1>1 DEF BudgetInv, SubtasksWithinBudget, WithinBudget, ScoreWithinProblemPoints

-----------------------------------------------------------------------------
(***************************************************************************)
(* Verdicts.  As long as nobody disturbed an upload, JudgeProofs' invariant *)
(* of a submission holds with administrators at work, but for two kinds of *)
(* submissions: those of the user being deleted, and those an upload has   *)
(* reset, which nobody judges again.  The tests of the problem only change *)
(* when every submission is of these kinds.                                *)
(***************************************************************************)
Leaving(s) == task[s].pc # "none" /\ (s \in DOMAIN submissions => Excused(s))

Retired(s) ==
    /\ ~Judged(s)
    /\ \/ task[s].pc \in {"ended", "stopped"}
       \/ task[s] = [pc |-> "dispatch", todo |-> {}]
    /\ Pooled(s) = {}
    /\ \A w \in Workers : ~On(w, s)

\* The upload is resetting submissions.
Clearing == {"reset"} \cup Forgetting

StandingInv ==
    "upload" \notin disturbed =>
        /\ \A s \in Submissions : Leaving(s) \/ Retired(s) \/ LocalInv(s)
        /\ InUse(upload.pc) =>
              /\ JudgeAtRest
              /\ \A s \in DOMAIN submissions :
                    Retired(s) \/ (upload.pc \in Clearing /\ s \in upload.todo)
        /\ upload.pc \in Clearing => upload.todo \subseteq DOMAIN submissions
        /\ upload.pc \in Forgetting => Retired(upload.sub)

\* add_test inserts one test after the other.
TestsFinite == IsFiniteSet(problem.tests)

LEMMA ProblemHolds ==
    ASSUME LinksInv, TestsFinite, BudgetInv PROVE ProblemInv
BY DEF LinksInv, TestsFinite, BudgetInv, SubtasksWithinBudget, ProblemInv

LEMMA TestsFiniteUpload ==
    ASSUME TInv, TestsFinite, StartUpload \/ UploadStep \/ UploadDropped
    PROVE  TestsFinite'
<1>0. problem \in [tests : SUBSET Tests, subtasks : SUBSET Subtasks,
                   subtask_tests : SUBSET (Subtasks \X Tests)]
  BY DEF TInv, DatabaseOK, ProblemOK
<1>1. CASE DeleteTests
  <2>1. problem'.tests = {}
    BY <1>0, <1>1 DEF DeleteTests
  <2> QED BY <2>1, FS_EmptySet DEF TestsFinite
<1>2. CASE AddTest
  <2>1. PICK t : problem'.tests = problem.tests \cup {t}
    BY <1>0, <1>2 DEF AddTest
  <2> QED BY <2>1, FS_AddElement DEF TestsFinite
<1>3. CASE DeleteSubtaskTests \/ DeleteSubtasks \/ AddSubtask \/ AddTestToSubtask
  <2>1. problem'.tests = problem.tests
    BY <1>0, <1>3 DEF DeleteSubtaskTests, DeleteSubtasks, AddSubtask, AddTestToSubtask
  <2> QED BY <2>1 DEF TestsFinite
<1>4. CASE problem' = problem
  BY <1>4 DEF TestsFinite
<1> QED
  BY <1>1, <1>2, <1>3, <1>4
  DEF UploadStep, UploadDropped, StartUpload, ResetSubmission, DeleteTestResults,
      DeleteSubtaskResults, TestsAdded, AddPoints, LinkRefused, NextSubtask,
      UploadDone, UploadFails, database

\* A worker that meets an error is idle again.
LEMMA ErrorEndsJob ==
    ASSUME TInv, NEW w \in Workers, ReduceFails(w) \/ UpsertFails(w)
    PROVE  /\ worker'[w] = IdleWorker
           /\ \A v \in Workers : v # w => worker'[v] = worker[v]
           /\ UNCHANGED <<database, task, pool, executables, restarts>>
           /\ Busy(w)
BY WorkerMoves DEF TInv, ReduceFails, UpsertFails, Ignore, Return, Busy

LEMMA PoolJudging ==
    ASSUME TInv, PoolInv, Judging PROVE PoolInv'
<1>1. CASE JudgeNext
  BY <1>1, PoolStep
<1>2. ASSUME NEW s \in Submissions, InsertFails(s) PROVE PoolInv'
  BY <1>2 DEF InsertFails, PoolInv, RunningWorkers
<1>3. ASSUME NEW w \in Workers, ReduceFails(w) \/ UpsertFails(w) PROVE PoolInv'
  <2>1. worker'[w].pc = "idle"
    BY <1>3, ErrorEndsJob DEF IdleWorker
  <2>2. pool' = pool /\ w \in RunningWorkers'
    BY <1>3, <2>1, ErrorEndsJob DEF RunningWorkers
  <2> QED BY <2>2 DEF PoolInv
<1> QED BY <1>1, <1>2, <1>3 DEF Judging

\* The user of a submission, and whom a deletion is about, do not change.
LEMMA LeavingStays ==
    ASSUME NEW s \in Submissions, Leaving(s), TasksGoOn,
           s \in DOMAIN submissions' =>
               /\ s \in DOMAIN submissions
               /\ submissions'[s].user_id = submissions[s].user_id,
           deletion.pc # "none" =>
               deletion'.pc # "none" /\ deletion'.user = deletion.user
    PROVE  Leaving(s)'
BY DEF Leaving, TasksGoOn, Excused

LEMMA KeptRetired ==
    ASSUME TInv, TInv', NEW s \in Submissions, Kept(s), Retired(s)
    PROVE  Retired(s)'
<1>1. Pooled(s)' = Pooled(s) /\ \A w \in Workers : On(w, s)' <=> On(w, s)
  BY KeptViews
<1>2. Judged(s)' <=> Judged(s)
  BY DEF Kept, KeptRows, Judged
<1> QED BY <1>1, <1>2 DEF Kept, KeptRows, Retired

\* A step that leaves s alone leaves what is known of it.
LEMMA KeptStands ==
    ASSUME TInv, TInv', ProblemInv, PoolInv, NEW s \in Submissions, Kept(s),
           Retired(s) \/ LocalInv(s)
    PROVE  Retired(s)' \/ LocalInv(s)'
BY KeptRetired, KeptLocal DEF SubmissionInv

-----------------------------------------------------------------------------
(***************************************************************************)
(* The judge: its own steps, and the errors it meets.                      *)
(***************************************************************************)
LEMMA InsertErrorKeepsOthers ==
    ASSUME TInv, NEW r \in Submissions, InsertFails(r), NEW s \in Submissions, r # s
    PROVE  Kept(s)
<1>1. task'[s] = task[s]
  BY GotoKeeps DEF InsertFails, TInv
<1> QED BY <1>1 DEF InsertFails, Kept, KeptRows, KeptWorkers, database

LEMMA WorkerErrorKeepsOthers ==
    ASSUME TInv, NEW w \in Workers, ReduceFails(w) \/ UpsertFails(w),
           NEW s \in Submissions, ~On(w, s)
    PROVE  Kept(s)
<1>1. ~On(w, s)'
  BY ErrorEndsJob DEF On, Busy, IdleWorker
<1>2. KeptWorkers(s)
  BY <1>1, ErrorEndsJob DEF KeptWorkers
<1> QED BY <1>2, ErrorEndsJob DEF Kept, KeptRows, database

LEMMA RetiredJudging ==
    ASSUME TInv, TInv', NEW s \in Submissions, Retired(s), Judging
    PROVE  Retired(s)'
<1> SUFFICES Kept(s)
  BY KeptRetired
<1>1. ASSUME NEW r \in Submissions, SubmissionStep(r) \/ InsertFails(r) PROVE Kept(s)
  <2>1. r # s
    <3>1. r = s => ~AddSubmission(r) /\ ~HandlerStep(r) /\ ~HandlerDropped(r) /\ ~InsertFails(r)
      BY DEF HandlerStep, AddSubmission, SelectSubtasks, InsertSubtaskResult,
             SelectTests, InsertTestResult, Spawn, HandlerDropped, InsertFails, Retired
    <3>2. r = s => ~TaskStep(r)
      BY DEF TaskStep, StartCompiling, CompileFails, CompileSucceeds, SelectJobs,
             HandOver, DispatchFails, Retired
    <3> QED BY <1>1, <3>1, <3>2 DEF SubmissionStep
  <2> QED BY <1>1, <2>1, TaskKeepsOthers, InsertErrorKeepsOthers
<1>2. ASSUME NEW w \in Workers, WorkerStep(w) PROVE Kept(s)
  <2>1. ~On(w, s)
    BY DEF Retired
  <2>2. ~On(w, s)'
    <3>1. CASE worker[w].pc = "idle"
      <4>1. TakeJob(w)
        BY <1>2, <3>1
        DEF WorkerStep, ExecuteTest, StoreResult, CountTest, ReadTestsDone,
            CompareTotal, SelectSubtaskResults, ReduceSubtask, WriteVerdict,
            SelectSubmissions, SelectProblemSubtasks, ScoreSubtask, UpsertScore,
            RemoveExecutable
      <4>2. PICK j \in pool :
               worker' = [worker EXCEPT ![w] =
                             [IdleWorker EXCEPT !.pc = "execute", !.job = j]]
        BY <4>1 DEF TakeJob
      <4>3. worker'[w].job = j
        <5>1. worker'[w] = [IdleWorker EXCEPT !.pc = "execute", !.job = j]
          BY <4>2, WorkerMoves DEF TInv
        <5> QED BY <5>1 DEF IdleWorker
      <4>4. j \in Submissions \X Tests /\ \A t \in Tests : <<s, t>> \notin pool
        BY DEF TInv, PoolOK, Retired, Pooled
      <4>5. j[1] # s
        BY <4>4
      <4> QED BY <4>3, <4>5 DEF On, SubmissionOf
    <3>2. CASE worker[w].pc # "idle"
      <4>1. Moves(w)
        BY <1>2, <3>2, BusyMoves
      <4>2. worker[w].pc # "off"
        BY <1>2
        DEF WorkerStep, TakeJob, ExecuteTest, StoreResult, CountTest, ReadTestsDone,
            CompareTotal, SelectSubtaskResults, ReduceSubtask, WriteVerdict,
            SelectSubmissions, SelectProblemSubtasks, ScoreSubtask, UpsertScore,
            RemoveExecutable
      <4> QED BY <2>1, <3>2, <4>1, <4>2 DEF Moves, On, Busy, SubmissionOf
    <3> QED BY <3>1, <3>2
  <2> QED BY <1>2, <2>1, <2>2, WorkerKeepsOthers
<1>3. ASSUME NEW w \in Workers, ReduceFails(w) \/ UpsertFails(w) PROVE Kept(s)
  BY <1>3, WorkerErrorKeepsOthers DEF Retired
<1> QED BY <1>1, <1>2, <1>3 DEF Judging, JudgeNext, SubmissionStep

\* A submission whose rows are all there meets no error before its verdict.
LEMMA NoInsertError ==
    ASSUME NEW s \in Submissions, SubmissionInv(s) PROVE ~InsertFails(s)
BY PartsOf DEF RowsInv, InsertFails

LEMMA NoReduceError ==
    ASSUME NEW s \in Submissions, SubmissionInv(s), NEW w \in Workers, On(w, s)
    PROVE  ~ReduceFails(w)
<1> SUFFICES ASSUME ReduceFails(w) PROVE FALSE
  OBVIOUS
<1>1. SubmissionOf(w) = s /\ worker[w].pc = "reduce"
  BY DEF On, ReduceFails
<1>2. worker[w].todo \subseteq SubtasksOf(s)
  BY <1>1, PartsOf DEF VerdictInv, WorkingInv
<1>3. \A g \in worker[w].todo : <<s, g>> \in DOMAIN subtask_results
  BY <1>2 DEF SubtasksOf, get_subtasks_for_submission
<1>4. TestsOf(s) = problem.tests
  BY PartsOf DEF JobsInv, RowsInv
<1>5. \A g : \A t \in get_tests_for_subtask(g) : <<s, t>> \in DOMAIN test_results
  BY <1>4, PartsOf
  DEF ProblemInv, get_tests_for_subtask, TestsOf, get_tests_for_submission
<1> QED BY <1>1, <1>3, <1>5 DEF ReduceFails

LEMMA LocalJudging ==
    ASSUME TInv', NEW s \in Submissions, SubmissionInv(s), Judging
    PROVE  LocalInv(s)'
<1>0. TInv
  BY PartsOf
<1>1. CASE JudgeNext
  BY <1>1, LocalStep
<1>2. ASSUME NEW r \in Submissions, InsertFails(r) PROVE LocalInv(s)'
  <2>1. Kept(s)
    BY <1>0, <1>2, NoInsertError, InsertErrorKeepsOthers
  <2> QED BY <2>1, KeptLocal
<1>3. ASSUME NEW w \in Workers, ReduceFails(w) \/ UpsertFails(w), ~On(w, s)
      PROVE  LocalInv(s)'
  <2>1. Kept(s)
    BY <1>0, <1>3, WorkerErrorKeepsOthers
  <2> QED BY <2>1, KeptLocal
<1>4. ASSUME NEW w \in Workers, UpsertFails(w), On(w, s) PROVE LocalInv(s)'
  <2>1. /\ worker'[w].pc = "idle"
        /\ \A v \in Workers : v # w => worker'[v] = worker[v]
        /\ UNCHANGED <<database, task, pool, executables>>
    BY <1>0, <1>4, ErrorEndsJob DEF IdleWorker
  <2>2. Moves(w) /\ worker[w].pc = "score"
    BY <1>4, <2>1 DEF Moves, UpsertFails
  <2>3. Uncounted(s) # {} => s \in executables'
    BY <2>1, PartsOf DEF FilesInv
  <2>4. worker'[w].pc \notin Finalising
    BY <2>1 DEF Finalising
  <2> QED BY <1>4, <2>1, <2>2, <2>3, <2>4, LateRead DEF database
<1> QED BY <1>1, <1>2, <1>3, <1>4, NoReduceError DEF Judging

LEMMA StandingJudging ==
    ASSUME ATInv, ATInv', ProblemInv, PoolInv, KnownInv, StandingInv, Judging, Meanwhile
    PROVE  StandingInv'
<1> SUFFICES ASSUME "upload" \notin disturbed' PROVE StandingInv'
  BY DEF StandingInv
<1>0. TInv /\ TInv' /\ RowsGrow /\ TasksGoOn
  BY JudgingFrame DEF KnownInv, ATInv
<1>1. /\ "upload" \notin disturbed
      /\ ~InUse(upload.pc)
      /\ upload' = upload /\ deletion' = deletion
  BY DEF Meanwhile, Running
<1>2. ASSUME NEW s \in Submissions
      PROVE  Leaving(s)' \/ Retired(s)' \/ LocalInv(s)'
  <2>1. Leaving(s) \/ Retired(s) \/ LocalInv(s)
    BY <1>1 DEF StandingInv
  <2>2. CASE Leaving(s)
    <3>1. s \in DOMAIN submissions' =>
             s \in DOMAIN submissions /\ submissions'[s].user_id = submissions[s].user_id
      BY <1>0, <2>2 DEF Leaving, RowsGrow
    <3> QED BY <1>0, <1>1, <2>2, <3>1, LeavingStays
  <2>3. CASE Retired(s)
    BY <1>0, <2>3, RetiredJudging
  <2>4. CASE LocalInv(s)
    BY <1>0, <2>4, LocalJudging DEF SubmissionInv
  <2> QED BY <2>1, <2>2, <2>3, <2>4
<1>3. ~InUse(upload'.pc) /\ upload'.pc \notin Clearing /\ upload'.pc \notin Forgetting
  BY <1>1 DEF InUse, Clearing, Forgetting
<1> QED BY <1>2, <1>3 DEF StandingInv

-----------------------------------------------------------------------------
(***************************************************************************)
(* An upload: it finds the judge at rest, resets one submission after the  *)
(* other, and touches the tests when none is left.                         *)
(***************************************************************************)
LEMMA StandingStart ==
    ASSUME ATInv, ATInv', ProblemInv, PoolInv, StandingInv, StartUpload,
           "upload" \notin disturbed'
    PROVE  StandingInv'
<1>0. TInv /\ TInv'
  BY DEF ATInv
<1>1. /\ UNCHANGED <<database, deletion, task, pool, worker, executables>>
      /\ upload'.pc = "reset" /\ upload'.todo = DOMAIN submissions
      /\ "upload" \notin disturbed
      /\ JudgeAtRest
  BY DEF StartUpload, Server, NoUpload
<1>2. JudgeAtRest'
  BY <1>1 DEF JudgeAtRest, Busy
<1>3. ASSUME NEW s \in Submissions
      PROVE  Leaving(s)' \/ Retired(s)' \/ LocalInv(s)'
  <2>1. Leaving(s) \/ Retired(s) \/ LocalInv(s)
    BY <1>1 DEF StandingInv
  <2>2. Kept(s)
    BY <1>1 DEF Kept, KeptRows, KeptWorkers, database
  <2>3. Leaving(s) => Leaving(s)'
    BY <1>1 DEF Leaving, Excused, database
  <2> QED BY <1>0, <2>1, <2>2, <2>3, KeptStands
<1>4. upload'.pc \in Clearing /\ upload'.pc \notin Forgetting
  BY <1>1 DEF Clearing, Forgetting
<1> QED BY <1>1, <1>2, <1>3, <1>4 DEF StandingInv, database

\* What holds of every statement of an undisturbed upload.
LEMMA UploadStands ==
    ASSUME ATInv, StandingInv, UploadStep \/ UploadDropped, "upload" \notin disturbed'
    PROVE  /\ "upload" \notin disturbed
           /\ UNCHANGED <<deletion, task, pool, worker, executables>>
           /\ DOMAIN submissions' = DOMAIN submissions
           /\ JudgeAtRest /\ JudgeAtRest'
           /\ \A s \in DOMAIN submissions :
                 Retired(s) \/ (upload.pc \in Clearing /\ s \in upload.todo)
           /\ \A s \in Submissions : Leaving(s) \/ Retired(s) \/ LocalInv(s)
           /\ \A s \in Submissions : Leaving(s) => Leaving(s)'
           /\ \A s \in Submissions : Retired(s) => Retired(s)'
<1>1. /\ "upload" \notin disturbed
      /\ InUse(upload.pc)
      /\ UNCHANGED <<deletion, task, pool, worker, executables>>
  BY UploadActs
<1>2. UploadKeepsRows
  BY UploadRows DEF ATInv
<1>3. /\ JudgeAtRest
      /\ \A s \in DOMAIN submissions :
            Retired(s) \/ (upload.pc \in Clearing /\ s \in upload.todo)
      /\ \A s \in Submissions : Leaving(s) \/ Retired(s) \/ LocalInv(s)
  BY <1>1 DEF StandingInv
<1>4. JudgeAtRest'
  BY <1>1, <1>3 DEF JudgeAtRest, Busy
<1>5. \A s \in Submissions : Leaving(s) => Leaving(s)'
  BY <1>1, <1>2 DEF Leaving, Excused, UploadKeepsRows
<1>6. ASSUME NEW s \in Submissions, Retired(s) PROVE Retired(s)'
  <2>1. ~Judged(s)'
    BY <1>2, <1>6 DEF Retired, UploadKeepsRows, Judged
  <2> QED BY <1>1, <1>6, <2>1 DEF Retired, Pooled, On, Busy, SubmissionOf
<1> QED BY <1>1, <1>2, <1>3, <1>4, <1>5, <1>6 DEF UploadKeepsRows

\* A statement of remove_submission_testing_data touches one submission, which
\* it leaves without a verdict.
LEMMA StandingClear ==
    ASSUME ATInv, ATInv', ProblemInv, PoolInv, StandingInv, UploadStep,
           "upload" \notin disturbed', upload.pc \in Clearing,
           NEW q \in Submissions, \A s \in Submissions : s # q => Kept(s), Retired(q)',
           upload'.todo \in {upload.todo, upload.todo \ {q}},
           upload'.pc \in Clearing, upload'.pc \in Forgetting => upload'.sub = q
    PROVE  StandingInv'
<1>0. TInv /\ TInv' /\ DOMAIN submissions \subseteq Submissions
  BY DEF ATInv, TInv, DatabaseOK, SubmissionsOK, IsTable
<1>1. /\ "upload" \notin disturbed
      /\ DOMAIN submissions' = DOMAIN submissions
      /\ JudgeAtRest'
      /\ \A s \in DOMAIN submissions : Retired(s) \/ s \in upload.todo
      /\ \A s \in Submissions : Leaving(s) \/ Retired(s) \/ LocalInv(s)
      /\ \A s \in Submissions : Leaving(s) => Leaving(s)'
      /\ \A s \in Submissions : Retired(s) => Retired(s)'
  BY UploadStands
<1>2. \A s \in Submissions : Leaving(s)' \/ Retired(s)' \/ LocalInv(s)'
  BY <1>0, <1>1, KeptStands
<1>3. \A s \in DOMAIN submissions' : Retired(s)' \/ s \in upload'.todo
  BY <1>0, <1>1
<1>4. upload'.todo \subseteq DOMAIN submissions'
  BY <1>1 DEF StandingInv
<1> QED BY <1>1, <1>2, <1>3, <1>4 DEF StandingInv

LEMMA ResetRetires ==
    ASSUME ATInv, KnownInv, StandingInv, UploadStep, "upload" \notin disturbed',
           NEW q \in DOMAIN submissions, submissions'[q].result = "InQueue"
    PROVE  Retired(q)'
<1>0. q \in Submissions /\ task[q].pc # "none"
  BY DEF ATInv, TInv, DatabaseOK, SubmissionsOK, IsTable, KnownInv, SubmissionsKnown
<1>1. UNCHANGED <<task, pool, worker>> /\ JudgeAtRest'
  BY UploadStands
<1>2. ~Judged(q)'
  BY DEF Judged, Unfinished
<1>3. Pooled(q)' = {} /\ \A w \in Workers : ~On(w, q)'
  BY <1>1 DEF JudgeAtRest, Pooled, On
<1>4. task'[q].pc \in {"ended", "stopped"} \/ task'[q] = [pc |-> "dispatch", todo |-> {}]
  BY <1>0, <1>1 DEF JudgeAtRest
<1> QED BY <1>2, <1>3, <1>4 DEF Retired

LEMMA StandingForget ==
    ASSUME ATInv, ATInv', ProblemInv, PoolInv, KnownInv, StandingInv,
           ResetSubmission \/ DeleteTestResults \/ DeleteSubtaskResults,
           "upload" \notin disturbed'
    PROVE  StandingInv'
<1>0. /\ upload \in UploadRecord
      /\ UploadStep
      /\ DOMAIN submissions \subseteq Submissions
      /\ \A s \in DOMAIN submissions : submissions[s] \in SubmissionRow
      /\ upload.pc \in Clearing => upload.todo \subseteq DOMAIN submissions
  BY UploadStands
  DEF ATInv, UploadOK, UploadStep, TInv, DatabaseOK, SubmissionsOK, IsTable, StandingInv
<1>1. UNCHANGED <<task, pool, worker, executables>>
  BY <1>0, UploadStands
<1>2. CASE ResetSubmission
  <2>1. PICK q \in upload.todo :
           /\ submissions' = [k \in DOMAIN submissions |->
                  IF k = q THEN Reset(submissions[k]) ELSE submissions[k]]
           /\ upload' = [upload EXCEPT !.pc = "delete_test_results",
                                       !.todo = @ \ {q}, !.sub = q]
    BY <1>2 DEF ResetSubmission, UploadGoto
  <2>2. /\ upload.pc \in Clearing
        /\ UNCHANGED <<problem, test_results, subtask_results>>
    BY <1>2 DEF ResetSubmission, Clearing
  <2>3. q \in DOMAIN submissions /\ q \in Submissions
    BY <1>0, <2>2
  <2>4. submissions'[q].result = "InQueue"
    BY <1>0, <2>1, <2>3 DEF Reset, SubmissionRow
  <2>5. Retired(q)'
    BY <1>0, <2>3, <2>4, ResetRetires
  <2>6. \A s \in Submissions : s # q => Kept(s)
    BY <1>1, <2>1, <2>2 DEF Kept, KeptRows, KeptWorkers
  <2>7. /\ upload'.pc = "delete_test_results"
        /\ upload'.todo = upload.todo \ {q} /\ upload'.sub = q
    BY <1>0, <2>1 DEF UploadRecord
  <2>8. upload'.pc \in Clearing
    BY <2>7 DEF Clearing, Forgetting
  <2> QED BY <1>0, <2>2, <2>3, <2>5, <2>6, <2>7, <2>8, StandingClear
<1>3. CASE DeleteTestResults \/ DeleteSubtaskResults
  <2>0. PICK q : q = upload.sub
    OBVIOUS
  <2>1. /\ upload.pc \in Forgetting /\ upload.pc \in Clearing
        /\ UNCHANGED <<problem, submissions>>
    BY <1>3 DEF DeleteTestResults, DeleteSubtaskResults, Clearing, Forgetting
  <2>2. q \in Submissions /\ Retired(q)
    BY <1>0, <2>0, <2>1, UploadStands DEF ATInv, UploadOK, StandingInv
  <2>3. Retired(q)'
    BY <1>0, <2>2, UploadStands
  <2>4. ASSUME NEW s \in Submissions, s # q PROVE Kept(s)
    <3>1. CASE DeleteTestResults
      <4>1. \A t \in Tests :
               /\ <<s, t>> \in DOMAIN test_results' <=> <<s, t>> \in DOMAIN test_results
               /\ <<s, t>> \in DOMAIN test_results =>
                     test_results'[<<s, t>>] = test_results[<<s, t>>]
        BY <2>0, <2>4, <3>1 DEF DeleteTestResults, DeleteRows, TestRowsOf
      <4> QED BY <1>1, <2>1, <3>1, <4>1 DEF DeleteTestResults, Kept, KeptRows, KeptWorkers
    <3>2. CASE DeleteSubtaskResults
      <4>1. \A g \in Subtasks :
               /\ <<s, g>> \in DOMAIN subtask_results' <=> <<s, g>> \in DOMAIN subtask_results
               /\ <<s, g>> \in DOMAIN subtask_results =>
                     subtask_results'[<<s, g>>] = subtask_results[<<s, g>>]
        BY <2>0, <2>4, <3>2 DEF DeleteSubtaskResults, DeleteRows, SubtaskRowsOf
      <4> QED BY <1>1, <2>1, <3>2, <4>1 DEF DeleteSubtaskResults, Kept, KeptRows, KeptWorkers
    <3> QED BY <1>3, <3>1, <3>2
  <2>5. /\ upload'.todo = upload.todo
        /\ upload'.pc \in {"delete_subtask_results", "reset"}
        /\ upload'.pc \in Forgetting => upload'.sub = q
    BY <1>0, <1>3, <2>0 DEF DeleteTestResults, DeleteSubtaskResults, UploadGoto,
                            UploadRecord, Forgetting
  <2>6. upload'.pc \in Clearing
    BY <2>5 DEF Clearing, Forgetting
  <2> QED BY <1>0, <2>1, <2>2, <2>3, <2>4, <2>5, <2>6, StandingClear
<1> QED BY <1>2, <1>3

\* Once every submission with a row is retired the tests can change: what is
\* left is submissions not made yet.
LEMMA StandingReplace ==
    ASSUME ATInv, ATInv', ProblemInv, PoolInv, StandingInv,
           UploadStep, "upload" \notin disturbed',
           upload.pc \in Clearing => upload.todo = {},
           UNCHANGED <<submissions, test_results, subtask_results>>,
           upload'.pc \notin Clearing
    PROVE  StandingInv'
<1>0. TInv /\ TInv' /\ DOMAIN submissions \subseteq Submissions
  BY DEF ATInv, TInv, DatabaseOK, SubmissionsOK, IsTable
<1>1. /\ UNCHANGED <<task, pool, worker, executables>>
      /\ JudgeAtRest'
      /\ \A s \in DOMAIN submissions : Retired(s)
      /\ \A s \in Submissions : Leaving(s) \/ Retired(s) \/ LocalInv(s)
      /\ \A s \in Submissions : Leaving(s) => Leaving(s)'
      /\ \A s \in Submissions : Retired(s) => Retired(s)'
  BY UploadStands
<1>2. ASSUME NEW s \in Submissions, s \notin DOMAIN submissions, LocalInv(s)
      PROVE  LocalInv(s)'
  <2>0. SubmissionInv(s)
    BY <1>0, <1>2 DEF SubmissionInv
  <2>1. /\ task[s].pc = "none" /\ task[s].todo = {}
        /\ TestsOf(s) = {} /\ SubtasksOf(s) = {}
    BY <1>2 DEF LocalInv, RowsInv
  <2>2. /\ task'[s].pc = "none" /\ task'[s].todo = {}
        /\ TestsOf(s)' = {} /\ SubtasksOf(s)' = {}
        /\ s \notin DOMAIN submissions'
    BY <1>1, <1>2, <2>1
    DEF TestsOf, SubtasksOf, get_tests_for_submission, get_subtasks_for_submission
  <2>3. /\ \A w \in Workers : ~On(w, s) /\ ~On(w, s)'
        /\ Pooled(s) = {} /\ Pooled(s)' = {}
    BY <1>1, <2>0, <2>1, NobodyOn DEF On, Busy, SubmissionOf, Pooled
  <2>4. RowsInv(s)' /\ StageInv(s)' /\ ~Judged(s)'
    BY <2>2 DEF RowsInv, StageInv, Judged
  <2> QED BY <1>0, <2>0, <2>2, <2>3, <2>4, QuietStep
<1>3. \A s \in Submissions : Leaving(s)' \/ Retired(s)' \/ LocalInv(s)'
  BY <1>1, <1>2
<1>4. \A s \in DOMAIN submissions' : Retired(s)'
  BY <1>0, <1>1
<1>5. upload'.pc \notin Forgetting
  BY DEF Clearing
<1> QED BY <1>1, <1>3, <1>4, <1>5 DEF StandingInv

LEMMA StandingUpload ==
    ASSUME ATInv, ATInv', ProblemInv, PoolInv, KnownInv, StandingInv,
           StartUpload \/ UploadStep \/ UploadDropped
    PROVE  StandingInv'
<1> SUFFICES ASSUME "upload" \notin disturbed' PROVE StandingInv'
  BY DEF StandingInv
<1>0. upload \in UploadRecord /\ UploadOK /\ TInv /\ TInv'
  BY DEF ATInv, UploadOK
<1>1. CASE StartUpload
  BY <1>1, StandingStart
<1>2. CASE ResetSubmission \/ DeleteTestResults \/ DeleteSubtaskResults
  BY <1>2, StandingForget
<1>3. CASE UploadDropped
  <2>1. /\ \A s \in Submissions : Leaving(s) \/ Retired(s) \/ LocalInv(s)
        /\ \A s \in Submissions : Leaving(s) => Leaving(s)'
        /\ UNCHANGED <<task, pool, worker, executables>>
    BY <1>3, UploadStands
  <2>2. upload'.pc = "dropped" /\ UNCHANGED database
    BY <1>3 DEF UploadDropped, UploadGoto, NoUpload
  <2>3. \A s \in Submissions : Kept(s)
    BY <2>1, <2>2 DEF Kept, KeptRows, KeptWorkers, database
  <2>4. \A s \in Submissions : Leaving(s)' \/ Retired(s)' \/ LocalInv(s)'
    BY <1>0, <2>1, <2>3, KeptStands
  <2> QED BY <2>2, <2>4 DEF StandingInv, InUse, Clearing, Forgetting
<1>4. CASE /\ UploadStep
           /\ ~(ResetSubmission \/ DeleteTestResults \/ DeleteSubtaskResults)
  <2> USE DEF UploadGoto
  <2>1. /\ UNCHANGED <<submissions, test_results, subtask_results>>
        /\ upload.pc \in Clearing => upload.todo = {}
    BY <1>4
    DEF UploadStep, DeleteSubtaskTests, DeleteTests, DeleteSubtasks, AddTest,
        TestsAdded, AddPoints, AddSubtask, AddTestToSubtask, LinkRefused,
        NextSubtask, UploadDone, UploadFails, database, Clearing, Forgetting
  <2>2. upload'.pc \notin Clearing
    <3> USE DEF Clearing, Forgetting
    <3>1. CASE DeleteSubtaskTests \/ DeleteTests \/ DeleteSubtasks
      BY <1>0, <3>1 DEF DeleteSubtaskTests, DeleteTests, DeleteSubtasks, UploadRecord
    <3>2. CASE AddTest \/ TestsAdded \/ NextSubtask
      BY <1>0, <3>2 DEF AddTest, TestsAdded, NextSubtask, UploadRecord
    <3>3. CASE AddPoints \/ AddSubtask \/ AddTestToSubtask
      BY <1>0, <3>3 DEF AddPoints, AddSubtask, AddTestToSubtask, UploadRecord
    <3>4. CASE LinkRefused \/ UploadDone \/ UploadFails
      BY <3>4 DEF LinkRefused, UploadDone, UploadFails, NoUpload
    <3> QED BY <1>4, <3>1, <3>2, <3>3, <3>4 DEF UploadStep
  <2> QED BY <1>4, <2>1, <2>2, StandingReplace
<1> QED BY <1>1, <1>2, <1>3, <1>4

-----------------------------------------------------------------------------
(***************************************************************************)
(* A deletion touches only submissions of its user; a restart stops work.  *)
(***************************************************************************)
LEMMA StandingDeletion ==
    ASSUME ATInv, ATInv', ProblemInv, PoolInv, KnownInv, StandingInv,
           (\E u \in users : StartDeletion(u)) \/ DeletionStep \/ DeletionDropped
    PROVE  StandingInv'
<1> SUFFICES ASSUME "upload" \notin disturbed' PROVE StandingInv'
  BY DEF StandingInv
<1>0. /\ TInv /\ TInv' /\ DeletionOK
      /\ DOMAIN submissions \subseteq Submissions
  BY DEF ATInv, TInv, DatabaseOK, SubmissionsOK, IsTable
<1>1. /\ UNCHANGED <<upload, task, pool, worker, executables, problem>>
      /\ "upload" \notin disturbed
      /\ ~InUse(upload.pc)
  <2>1. CASE \E u \in users : StartDeletion(u)
    BY <2>1 DEF StartDeletion, Server, Running, database
  <2>2. CASE DeletionStep \/ DeletionDropped
    BY <1>0, <2>2, DeletionActs DEF Running
  <2> QED BY <2>1, <2>2
<1>2. \A s \in Submissions : Leaving(s) \/ Retired(s) \/ LocalInv(s)
  BY <1>1 DEF StandingInv
<1>3. ASSUME \E u \in users : StartDeletion(u), NEW s \in Submissions
      PROVE  Leaving(s)' \/ Retired(s)' \/ LocalInv(s)'
  <2>1. deletion.pc = "none" /\ UNCHANGED database
    BY <1>3 DEF StartDeletion
  <2>2. Kept(s)
    BY <1>1, <2>1 DEF Kept, KeptRows, KeptWorkers, database
  <2>3. Leaving(s) => Leaving(s)'
    BY <1>1, <2>1 DEF Leaving, Excused, database
  <2> QED BY <1>0, <1>2, <2>2, <2>3, KeptStands
<1>4. ASSUME DeletionStep \/ DeletionDropped, NEW s \in Submissions
      PROVE  Leaving(s)' \/ Retired(s)' \/ LocalInv(s)'
  <2>1. /\ DeletionKeepsRows
        /\ deletion'.user = deletion.user /\ deletion'.pc # "none"
    BY <1>0, <1>4, DeletionActs, DeletionRows
  <2>2. Leaving(s) => Leaving(s)'
    BY <1>1, <2>1 DEF Leaving, Excused, DeletionKeepsRows
  <2>3. CASE Retired(s)
    <3>1. ~Judged(s)'
      BY <2>1, <2>3 DEF Retired, DeletionKeepsRows, Judged
    <3> QED BY <1>1, <2>3, <3>1 DEF Retired, Pooled, On, Busy, SubmissionOf
  <2>4. CASE LocalInv(s) /\ s \in DeletionPending
    BY <2>2, <2>4 DEF KnownInv, PendingKnown, Leaving
  <2>5. CASE s \in DOMAIN submissions /\ s \notin DOMAIN submissions'
    BY <1>1, <2>5 DEF KnownInv, SubmissionsKnown, Leaving
  <2>6. CASE /\ LocalInv(s) /\ s \notin DeletionPending
             /\ s \in DOMAIN submissions => s \in DOMAIN submissions'
    <3>1. /\ s \in DOMAIN submissions' <=> s \in DOMAIN submissions
          /\ s \in DOMAIN submissions => submissions'[s] = submissions[s]
      BY <2>1, <2>6 DEF DeletionKeepsRows
    <3>2. \A k : <<s, k>>[1] = s
      OBVIOUS
    <3>3. \A t \in Tests :
             /\ <<s, t>> \in DOMAIN test_results' <=> <<s, t>> \in DOMAIN test_results
             /\ <<s, t>> \in DOMAIN test_results =>
                   test_results'[<<s, t>>] = test_results[<<s, t>>]
      BY <2>1, <2>6, <3>2 DEF DeletionKeepsRows
    <3>4. \A g \in Subtasks :
             /\ <<s, g>> \in DOMAIN subtask_results' <=> <<s, g>> \in DOMAIN subtask_results
             /\ <<s, g>> \in DOMAIN subtask_results =>
                   subtask_results'[<<s, g>>] = subtask_results[<<s, g>>]
      BY <2>1, <2>6, <3>2 DEF DeletionKeepsRows
    <3>5. Kept(s)
      BY <1>1, <3>1, <3>3, <3>4 DEF Kept, KeptRows, KeptWorkers
    <3> QED BY <1>0, <2>6, <3>5, KeptStands
  <2> QED BY <1>2, <2>2, <2>3, <2>4, <2>5, <2>6
<1>5. upload'.pc \notin Clearing /\ upload'.pc \notin Forgetting /\ ~InUse(upload'.pc)
  BY <1>1 DEF InUse, Clearing, Forgetting
<1> QED BY <1>3, <1>4, <1>5 DEF StandingInv

LEMMA StandingRestart ==
    ASSUME ATInv, ATInv', ProblemInv, PoolInv, StandingInv, AdminRestart
    PROVE  StandingInv'
<1> SUFFICES ASSUME "upload" \notin disturbed' PROVE StandingInv'
  BY DEF StandingInv
<1>0. TInv /\ TInv'
  BY DEF ATInv
<1>1. /\ UNCHANGED <<submissions, disturbed>>
      /\ ~InUse(upload'.pc)
      /\ deletion.pc = "none" <=> deletion'.pc = "none"
      /\ deletion'.user = deletion.user
      /\ TasksGoOn
      /\ \A w \in Workers : ~Busy(w)'
  BY RestartActs
<1>2. Restart /\ pool' = {}
  BY DEF AdminRestart, Restart
<1>3. ASSUME NEW s \in Submissions
      PROVE  Leaving(s)' \/ Retired(s)' \/ LocalInv(s)'
  <2>1. Leaving(s) \/ Retired(s) \/ LocalInv(s)
    BY <1>1 DEF StandingInv
  <2>2. CASE Leaving(s)
    BY <1>1, <2>2, LeavingStays
  <2>3. CASE Retired(s)
    <3>1. task[s] # NoTask
      BY <2>3 DEF Retired, NoTask
    <3>2. task'[s].pc = "stopped"
      BY <1>2, <3>1 DEF Restart
    <3> QED BY <1>1, <1>2, <2>3, <3>2 DEF Retired, Judged, Pooled, On
  <2>4. CASE LocalInv(s)
    BY <1>0, <1>2, <2>4, RestartLocal DEF SubmissionInv
  <2> QED BY <2>1, <2>2, <2>3, <2>4
<1>4. upload'.pc \notin Clearing /\ upload'.pc \notin Forgetting
  BY <1>1 DEF InUse, Clearing, Forgetting
<1> QED BY <1>1, <1>3, <1>4 DEF StandingInv

LEMMA StandingStutter ==
    ASSUME ATInv, ATInv', ProblemInv, PoolInv, StandingInv, UNCHANGED allVars
    PROVE  StandingInv'
<1> USE DEF allVars, adminVars, vars, database
<1>0. TInv /\ TInv' /\ DOMAIN submissions \subseteq Submissions
  BY DEF ATInv, TInv, DatabaseOK, SubmissionsOK, IsTable
<1>1. JudgeAtRest => JudgeAtRest'
  BY DEF JudgeAtRest, Busy
<1>2. \A s : (Leaving(s) => Leaving(s)') /\ (Retired(s) => Retired(s)')
  BY DEF Leaving, Excused, Retired, Judged, Pooled, On, Busy, SubmissionOf
<1>3. \A s \in Submissions : Kept(s)
  BY DEF Kept, KeptRows, KeptWorkers
<1>4. \A s \in Submissions : LocalInv(s) => Retired(s)' \/ LocalInv(s)'
  BY <1>0, <1>3, KeptStands
<1> QED BY <1>0, <1>1, <1>2, <1>4 DEF StandingInv

-----------------------------------------------------------------------------
(***************************************************************************)
(* All of it together is inductive.                                        *)
(***************************************************************************)
AInv ==
    /\ ATInv
    /\ LinksInv
    /\ RowsHaveSubmissions
    /\ KnownInv
    /\ UploadAlone
    /\ DeletionAlone
    /\ BudgetInv
    /\ TestsFinite
    /\ PoolInv
    /\ StandingInv

LEMMA AInvInit == AdminInit => AInv
<1> SUFFICES ASSUME AdminInit PROVE AInv
  OBVIOUS
<1>0. /\ Init
      /\ upload.pc = "none"
      /\ deletion.pc = "none" /\ deletion.todo = {}
      /\ DOMAIN submissions = {}
      /\ DOMAIN test_results = {}
      /\ DOMAIN subtask_results = {}
      /\ DOMAIN user_problem_scores = {}
      /\ pool = {}
      /\ \A s \in Submissions : task[s].pc = "none"
  BY DEF AdminInit, Init, NoUpload, NoDeletion, EmptyTable, NoTask
<1>1. \A w \in Workers : worker[w].pc \in {"idle", "off"} /\ worker[w].score = 0
  BY <1>0 DEF Init, Spawned, IdleWorker, NoWorker
<1>2. ATInv
  BY ATInvInit
<1>3. /\ problem.subtask_tests \subseteq problem.subtasks \X problem.tests
      /\ problem.subtasks \subseteq Subtasks
      /\ IsFiniteSet(problem.subtasks)
  BY <1>0, ProblemsAssumption DEF Init
<1>4. LinksInv
  BY <1>0, <1>3 DEF LinksInv, Linking
<1>5. RowsHaveSubmissions
  BY <1>0 DEF RowsHaveSubmissions
<1>6. KnownInv
  BY <1>0 DEF KnownInv, SubmissionsKnown, PendingKnown, DeletionPending
<1>7. UploadAlone
  BY <1>0 DEF UploadAlone, Emptying
<1>8. DeletionAlone
  BY <1>0 DEF DeletionAlone
<1>9. TestsFinite /\ PoolInv /\ StandingInv
  <2>1. JInv
    BY <1>0, JInvInit
  <2>2. TestsFinite
    BY <2>1, ProblemsAssumption DEF JInv, TestsFinite
  <2>3. StandingInv
    BY <1>0, <2>1 DEF JInv, StandingInv, InUse, Clearing, Forgetting
  <2> QED BY <2>1, <2>2, <2>3 DEF JInv
<1>10. BudgetInv
  <2>1. /\ problem_points = SumOf(SubtaskScore, problem.subtasks)
        /\ SumOf(SubtaskScore, problem.subtasks) \in Nat
    BY <1>3, SumOfScoresIsSum, ScoresAreNat DEF AdminInit
  <2>2. SubtasksWithinBudget
    BY <1>0, <1>3, <2>1 DEF SubtasksWithinBudget
  <2> QED BY <1>0, <1>1, <2>2 DEF BudgetInv, WithinBudget, ScoreWithinProblemPoints
<1> QED BY <1>2, <1>4, <1>5, <1>6, <1>7, <1>8, <1>9, <1>10 DEF AInv

\* What the judge does disturbs whatever is under way.
LEMMA AInvJudging ==
    ASSUME AInv, Judging, Meanwhile PROVE AInv'
<1>1. ATInv'
  BY JudgingType2 DEF AInv
<1>2. RowsGrow
  BY JudgingFrame DEF AInv, ATInv, KnownInv
<1>3. RowsHaveSubmissions'
  BY <1>2, ResultsJudging DEF AInv
<1>4. KnownInv'
  BY KnownJudging DEF AInv
<1>5. /\ UNCHANGED <<upload, deletion>>
      /\ disturbed \subseteq disturbed'
      /\ ~InUse(upload.pc) \/ "upload" \in disturbed'
      /\ ~InUse(deletion.pc) \/ "deletion" \in disturbed'
  BY DEF Meanwhile, Running
<1>6. LinksInv'
  BY <1>2, <1>5, LinksElsewhere DEF AInv, RowsGrow
<1>7. UploadAlone'
  BY <1>5, UploadOver DEF AInv
<1>8. DeletionAlone'
  BY <1>5, DeletionOver DEF AInv
<1>9. TestsFinite' /\ PoolInv'
  BY <1>2, PoolJudging DEF AInv, ATInv, RowsGrow, TestsFinite
<1>10. BudgetInv'
  BY BudgetJudging DEF AInv
<1>11. StandingInv'
  BY <1>1, ProblemHolds, StandingJudging DEF AInv
<1> QED BY <1>1, <1>3, <1>4, <1>6, <1>7, <1>8, <1>9, <1>10, <1>11 DEF AInv

LEMMA AInvUpload ==
    ASSUME AInv, StartUpload \/ UploadStep \/ UploadDropped PROVE AInv'
<1>1. ATInv'
  BY UploadType DEF AInv
<1>2. LinksInv'
  BY LinksUpload DEF AInv
<1>3. RowsHaveSubmissions'
  <2>1. CASE StartUpload
    BY <2>1 DEF StartUpload, database, AInv, RowsHaveSubmissions
  <2> QED BY <2>1, UploadRows, ResultsUpload DEF AInv, ATInv
<1>4. KnownInv'
  BY KnownUpload DEF AInv
<1>5. UploadAlone'
  BY UploadAloneUpload DEF AInv
<1>6. DeletionAlone'
  <2>1. /\ deletion' = deletion
        /\ disturbed \subseteq disturbed'
        /\ ~InUse(deletion.pc) \/ "deletion" \in disturbed'
    BY UploadActs DEF StartUpload, Running
  <2> QED BY <2>1, DeletionOver DEF AInv
<1>7. BudgetInv'
  BY BudgetUpload DEF AInv
<1>8. TestsFinite' /\ PoolInv'
  <2>1. PoolInv'
    BY UploadActs DEF StartUpload, Server, AInv, PoolInv, RunningWorkers
  <2> QED BY <2>1, TestsFiniteUpload DEF AInv, ATInv
<1>9. StandingInv'
  BY <1>1, ProblemHolds, StandingUpload DEF AInv
<1> QED BY <1>1, <1>2, <1>3, <1>4, <1>5, <1>6, <1>7, <1>8, <1>9 DEF AInv

LEMMA AInvDeletion ==
    ASSUME AInv,
           (\E u \in users : StartDeletion(u)) \/ DeletionStep \/ DeletionDropped
    PROVE  AInv'
<1>0. DeletionOK
  BY DEF AInv, ATInv
<1>1. ATInv'
  BY DeletionType DEF AInv
<1>2. /\ UNCHANGED <<problem, upload>>
      /\ disturbed \subseteq disturbed'
      /\ ~InUse(upload.pc) \/ "upload" \in disturbed'
  <2>1. CASE \E u \in users : StartDeletion(u)
    BY <2>1 DEF StartDeletion, database, Running
  <2> QED BY <1>0, <2>1, DeletionActs DEF Running
<1>3. LinksInv'
  BY <1>2, LinksElsewhere DEF AInv
<1>4. RowsHaveSubmissions'
  <2>1. CASE \E u \in users : StartDeletion(u)
    BY <2>1 DEF StartDeletion, database, AInv, RowsHaveSubmissions
  <2> QED BY <1>0, <2>1, ResultsDeletion DEF AInv
<1>5. KnownInv'
  BY KnownDeletion DEF AInv
<1>6. UploadAlone'
  BY <1>2, UploadOver DEF AInv
<1>7. DeletionAlone'
  BY DeletionAloneDeletion DEF AInv
<1>8. BudgetInv'
  BY BudgetDeletion DEF AInv
<1>9. TestsFinite' /\ PoolInv'
  BY <1>0, <1>2, DeletionActs
  DEF StartDeletion, Server, AInv, TestsFinite, PoolInv, RunningWorkers
<1>10. StandingInv'
  BY <1>1, ProblemHolds, StandingDeletion DEF AInv
<1> QED BY <1>1, <1>3, <1>4, <1>5, <1>6, <1>7, <1>8, <1>9, <1>10 DEF AInv

LEMMA AInvRestart ==
    ASSUME AInv, AdminRestart PROVE AInv'
<1>0. /\ UNCHANGED <<problem, submissions, test_results, subtask_results, disturbed>>
      /\ ~InUse(upload'.pc) /\ upload'.pc \in {"dropped", upload.pc}
      /\ ~InUse(deletion'.pc) /\ deletion'.pc \in {"dropped", deletion.pc}
  BY RestartActs DEF AInv
<1>1. ATInv'
  <2>1. TInv'
    BY RestartType DEF AInv, ATInv, AdminRestart
  <2>2. UploadOK'
    <3>1. upload' = upload \/ upload' = [NoUpload EXCEPT !.pc = "dropped"]
      BY DEF AdminRestart
    <3>2. CASE upload' = upload
      BY <3>2 DEF AInv, ATInv, UploadOK
    <3>3. CASE upload' = [NoUpload EXCEPT !.pc = "dropped"]
      BY <3>3 DEF UploadOK, UploadRecord, NoUpload, InUse, Emptying, Forgetting, Linking
    <3> QED BY <3>1, <3>2, <3>3
  <2>3. DeletionOK'
    BY DEF AdminRestart, AInv, ATInv, DeletionOK, DeletionRecord, InUse
  <2> QED BY <2>1, <2>2, <2>3 DEF AdminRestart, AInv, ATInv, HistoryOK
<1>2. LinksInv'
  BY <1>0, LinksElsewhere DEF AInv
<1>3. RowsHaveSubmissions'
  BY <1>0 DEF AInv, RowsHaveSubmissions
<1>4. KnownInv'
  BY KnownRestart DEF AInv
<1>5. UploadAlone'
  BY <1>0, UploadOver DEF AInv
<1>6. DeletionAlone'
  BY <1>0, DeletionOver DEF AInv
<1>7. BudgetInv'
  BY BudgetRestart DEF AInv
<1>8. TestsFinite' /\ PoolInv'
  BY <1>0 DEF AInv, TestsFinite, PoolInv, AdminRestart, Restart
<1>9. StandingInv'
  BY <1>1, ProblemHolds, StandingRestart DEF AInv
<1> QED BY <1>1, <1>2, <1>3, <1>4, <1>5, <1>6, <1>7, <1>8, <1>9 DEF AInv

LEMMA AInvStutter ==
    ASSUME AInv, UNCHANGED allVars PROVE AInv'
<1> USE DEF allVars, adminVars, vars, database
<1>1. ATInv'
  <2>1. DatabaseOK'
    BY DatabaseUnchanged DEF AInv, ATInv, TInv
  <2> QED BY <2>1, ServerStays DEF AInv, ATInv, UploadOK, DeletionOK, HistoryOK
<1>2. LinksInv' /\ RowsHaveSubmissions'
  BY DEF AInv, LinksInv, RowsHaveSubmissions
<1>3. KnownInv'
  BY DEF AInv, KnownInv, SubmissionsKnown, PendingKnown, DeletionPending, Excused
<1>4. UploadAlone'
  BY DEF AInv, UploadAlone, UploadPending, NoRows, TestRowsOf, SubtaskRowsOf
<1>5. DeletionAlone'
  BY DEF AInv, DeletionAlone, DeletionPending, NoRows, TestRowsOf, SubtaskRowsOf,
         SubmissionsOf
<1>6. BudgetInv'
  BY DEF AInv, BudgetInv, SubtasksWithinBudget, WithinBudget, ScoreWithinProblemPoints
<1>7. TestsFinite' /\ PoolInv'
  BY DEF AInv, TestsFinite, PoolInv, RunningWorkers
<1>8. StandingInv'
  BY <1>1, ProblemHolds, StandingStutter DEF AInv
<1> QED BY <1>1, <1>2, <1>3, <1>4, <1>5, <1>6, <1>7, <1>8 DEF AInv

LEMMA AInvStep == AInv /\ [AdminNext]_allVars => AInv'
<1> SUFFICES ASSUME AInv, [AdminNext]_allVars PROVE AInv'
  OBVIOUS
<1>1. CASE JudgeStep \/ (\E s \in Submissions : InsertFails(s))
             \/ (\E w \in Workers : ReduceFails(w) \/ UpsertFails(w))
  <2>1. Judging /\ Meanwhile
    BY <1>1 DEF Judging, JudgeStep, InsertFails, ReduceFails, UpsertFails
  <2> QED BY <2>1, AInvJudging
<1>2. CASE AdminRestart
  BY <1>2, AInvRestart
<1>3. CASE StartUpload \/ UploadStep \/ UploadDropped
  BY <1>3, AInvUpload
<1>4. CASE (\E u \in users : StartDeletion(u)) \/ DeletionStep \/ DeletionDropped
  BY <1>4, AInvDeletion
<1>5. CASE UNCHANGED allVars
  BY <1>5, AInvStutter
<1> QED BY <1>1, <1>2, <1>3, <1>4, <1>5 DEF AdminNext, AllAtRest

LEMMA AInvInvariant == AdminSafe => []AInv
<1> QED BY AInvInit, AInvStep, PTL DEF AdminSafe

-----------------------------------------------------------------------------
(***************************************************************************)
(* What the project relies on.                                             *)
(***************************************************************************)
\* The tables, the judge and the handlers of upload and deletion keep their
\* types, although both administrators delete rows the judge has selected.
THEOREM AdminTypeCorrect == AdminSafe => []AdminTypeOK
<1>1. AInv => AdminTypeOK
  BY ATInvImpliesAdminTypeOK DEF AInv
<1> QED BY <1>1, AInvInvariant, PTL

\* handle_tests_uploading deletes every row before the row it refers to: a
\* foreign key refuses one of its statements only when someone else wrote to
\* the tables meanwhile, whatever an earlier upload left half done.
THEOREM UploadsCompleteAlone == AdminSafe => []UndisturbedUploadCompletes
<1>1. AInv => UndisturbedUploadCompletes
  BY DEF AInv, UploadAlone, UndisturbedUploadCompletes
<1> QED BY <1>1, AInvInvariant, PTL

\* So does delete_user: results, submissions and scores of the user are gone
\* before the row of the user goes, unless someone added one meanwhile.
THEOREM DeletionsCompleteAlone == AdminSafe => []UndisturbedDeletionCompletes
<1>1. AInv => UndisturbedDeletionCompletes
  BY DEF AInv, DeletionAlone, UndisturbedDeletionCompletes
<1> QED BY <1>1, AInvInvariant, PTL

\* However uploads, deletions, restarts and the judge interleave, a stored
\* verdict is the most severe stored result of the tests that decide it, and its
\* points are the scores of the subtasks it solves, unless an upload raced with
\* the judge or a deletion (handle_tests_uploading takes no lock), or the user
\* of the verdict is being deleted (delete_user).
THEOREM VerdictsKeepTheirTests == AdminSafe => []VerdictsRestOnTests
<1>1. AInv => VerdictsRestOnTests
  <2> SUFFICES ASSUME AInv, NEW s \in DOMAIN submissions, Judged(s),
                      "upload" \notin disturbed
               PROVE  Faithful(s) \/ deletion.user = submissions[s].user_id
    BY DEF VerdictsRestOnTests
  <2>1. s \in Submissions
    BY DEF AInv, ATInv, TInv, DatabaseOK, SubmissionsOK, IsTable
  <2>2. Leaving(s) \/ Retired(s) \/ LocalInv(s)
    BY <2>1 DEF AInv, StandingInv
  <2>3. CASE Leaving(s)
    BY <2>3 DEF Leaving, Excused
  <2>4. CASE Retired(s)
    BY <2>4 DEF Retired
  <2>5. CASE LocalInv(s)
    <3>1. SubmissionInv(s)
      BY <2>5, ProblemHolds DEF AInv, ATInv, SubmissionInv
    <3> QED BY <2>1, <3>1, JudgedIsFaithful
  <2> QED BY <2>2, <2>3, <2>4, <2>5
<1> QED BY <1>1, AInvInvariant, PTL

\* No score of a user exceeds the points the problem shows, whichever uploads
\* replace its subtasks while update_user_score_for_problem adds them up.
THEOREM ScoresStayWithinPoints == AdminSafe => []ScoreWithinProblemPoints
<1>1. AInv => ScoreWithinProblemPoints
  BY DEF AInv, BudgetInv
<1> QED BY <1>1, AInvInvariant, PTL
=============================================================================
