---------------------------- MODULE MCJudgeAdmin ----------------------------
EXTENDS JudgeAdmin, TLC

CONSTANTS ann, s1, t1, t2, t3, t4, g1, g2, w1, w2

\* Two tests in one subtask, replaced by two other tests in another.
Old == [tests |-> {t1, t4}, subtasks |-> {g1},
        subtask_tests |-> {<<g1, t1>>, <<g1, t4>>}]
TwoTests == [tests |-> {t2, t3}, subtasks |-> {g2},
             subtask_tests |-> {<<g2, t2>>, <<g2, t3>>}]
MCUploads == {TwoTests}

\* The same with one test each, for the liveness run.
OneTest == [tests |-> {t1}, subtasks |-> {g1}, subtask_tests |-> {<<g1, t1>>}]
NewTest == [tests |-> {t2}, subtasks |-> {g2}, subtask_tests |-> {<<g2, t2>>}]
Malformed == [NewTest EXCEPT !.subtask_tests = @ \cup {<<g2, None>>}]

MCOneTestUploads == {NewTest, Malformed}

MCSubtaskScore == (g1 :> 30) @@ (g2 :> 70)
MCProblems == {Old}
MCOneTestProblems == {OneTest}
MCVerdicts == {"Accepted", "WrongAnswer"}
MCSymmetry == Permutations({w1, w2}) \cup Permutations({t1, t4})
                  \cup Permutations({t2, t3})
=============================================================================
