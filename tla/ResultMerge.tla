---------------------------- MODULE ResultMerge ----------------------------
(***************************************************************************)
(* The two nested loops that reduce the rows of one submission to its      *)
(* verdict: update_subtask_result folds the results of a subtask's tests,  *)
(* update_submission_result folds the results of the subtasks, each read   *)
(* back from the integer column it was just written to.  The SELECTs have  *)
(* no ORDER BY and a test may belong to several subtasks, so rows come in  *)
(* any order and any number of times.                                      *)
(***************************************************************************)
EXTENDS TestingResults

CONSTANT Columns  \* integers found in test_results.result

ASSUME ColumnsAssumption == Columns \subseteq Int

VARIABLES subtask,     \* `result` of update_subtask_result
          submission,  \* `result` of update_submission_result
          tests,       \* verdicts merged into `subtask` so far
          merged       \* verdicts of the subtasks closed so far

mergeVars == <<subtask, submission, tests, merged>>

MergeInit ==
    /\ subtask = "Accepted"
    /\ submission = "Accepted"
    /\ tests = {}
    /\ merged = {}

\* One turn of the loop over get_tests_for_subtask.
MergeTest ==
    \E i \in Columns :
        LET test_result == i32_to_testing_result(i)
        IN  /\ subtask' = merge_two_testing_results(subtask, test_result)
            /\ tests' = tests \cup {test_result}
            /\ UNCHANGED <<submission, merged>>

\* Mutant: the accumulator is carried over into the next subtask.
BugMergeSubtask ==
    LET stored == testing_result_to_i32[subtask]
    IN  /\ submission' = merge_two_testing_results(
                             submission, i32_to_testing_result(stored))
        /\ merged' = merged \cup tests
        /\ tests' = {}
        /\ UNCHANGED subtask

\* The subtask's verdict is stored, read back and merged; the next subtask
\* starts from Accepted.
MergeSubtask ==
    LET stored == testing_result_to_i32[subtask]
    IN  /\ submission' = merge_two_testing_results(
                             submission, i32_to_testing_result(stored))
        /\ merged' = merged \cup tests
        /\ subtask' = "Accepted"
        /\ tests' = {}

MergeNext == MergeTest \/ MergeSubtask

MergeSpec == MergeInit /\ [][MergeNext]_mergeVars

-----------------------------------------------------------------------------
TypeOK ==
    /\ subtask \in TestingResult
    /\ submission \in TestingResult
    /\ tests \subseteq TestingResult
    /\ merged \subseteq TestingResult

(***************************************************************************)
(* Whatever the order, the repetitions and the grouping into subtasks, the *)
(* accumulators of both loops hold the most severe verdict merged so far:  *)
(* in particular a submission is Accepted only when every row was.         *)
(***************************************************************************)
VerdictIsWorst ==
    /\ subtask = Worst(tests)
    /\ submission = Worst(merged)
=============================================================================
