--------------------------- MODULE TestingResults ---------------------------
(***************************************************************************)
(* The verdicts of the judge (enum TestingResult of database/submission.rs)*)
(* with the two pure functions every stored verdict goes through: its      *)
(* representation as an integer column, and the merge of two verdicts that *)
(* turns the results of tests into the result of a subtask, and the        *)
(* results of subtasks into the result of a submission.                    *)
(***************************************************************************)
EXTENDS Integers, Sequences, FiniteSets

TestingResult ==
    {"InQueue", "Compiling", "Testing", "Accepted", "WrongAnswer",
     "RuntimeError", "TimeLimitExceeded", "MemoryLimitExceeded",
     "CompilationError", "InternalError"}

testing_result_to_i32 ==
    [InQueue          |-> 1, Compiling           |-> 2, Testing      |-> 3,
     Accepted         |-> 4, WrongAnswer         |-> 5, RuntimeError |-> 6,
     TimeLimitExceeded |-> 7, MemoryLimitExceeded |-> 8,
     CompilationError |-> 9, InternalError       |-> 10]

\* "10 or anything else is an internal error"
i32_to_testing_result(i) ==
    IF \E r \in TestingResult : testing_result_to_i32[r] = i
    THEN CHOOSE r \in TestingResult : testing_result_to_i32[r] = i
    ELSE "InternalError"

(***************************************************************************)
(* merge_two_testing_results is a match of nineteen arms on the pair       *)
(* (a, b).  All but one come in twos, "(v, _) => a" then "(_, v) => b", so *)
(* a verdict v claims every pair it occurs in; Accepted alone claims only  *)
(* the pair (Accepted, Accepted).                                          *)
(***************************************************************************)
MatchArms ==
    <<"InQueue", "Compiling", "Testing", "CompilationError", "InternalError",
      "Accepted", "RuntimeError", "WrongAnswer", "TimeLimitExceeded",
      "MemoryLimitExceeded">>

Claims(v, a, b) ==
    IF v = "Accepted" THEN a = v /\ b = v ELSE v \in {a, b}

\* Mutant: Accepted claims its pairs the way the other verdicts do.
BugAcceptedClaims(v, a, b) == v \in {a, b}

\* The first arm that matches.
merge_two_testing_results(a, b) ==
    MatchArms[CHOOSE i \in 1..10 :
                 /\ Claims(MatchArms[i], a, b)
                 /\ \A j \in 1..(i - 1) : ~Claims(MatchArms[j], a, b)]

(***************************************************************************)
(* What the merge is for, said without its arms.                           *)
(***************************************************************************)
Unfinished == {"InQueue", "Compiling", "Testing"}

Severity ==
    [Accepted |-> 0, MemoryLimitExceeded |-> 1, TimeLimitExceeded |-> 2,
     WrongAnswer |-> 3, RuntimeError |-> 4, InternalError |-> 5,
     CompilationError |-> 6, Testing |-> 7, Compiling |-> 8, InQueue |-> 9]

\* The most severe verdict of S, Accepted when S is empty.
Worst(S) ==
    CHOOSE r \in S \cup {"Accepted"} :
        \A q \in S \cup {"Accepted"} : Severity[q] <= Severity[r]
=============================================================================
