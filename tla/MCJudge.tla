------------------------------ MODULE MCJudge ------------------------------
EXTENDS Judge, TLC

CONSTANTS ann, bob, s1, s2, t1, t2, g1, g2, w1, w2

\* Two subtasks that share a test, worth different points.
Shared == [tests |-> {t1, t2}, subtasks |-> {g1, g2},
           subtask_tests |-> {<<g1, t1>>, <<g2, t1>>, <<g2, t2>>}]

MCSubtaskScore == (g1 :> 30) @@ (g2 :> 70)
\* A test that no subtask uses, and no test at all.
Unused == [tests |-> {t1}, subtasks |-> {g1}, subtask_tests |-> {}]
NoTests == [tests |-> {}, subtasks |-> {g1}, subtask_tests |-> {}]

MCProblems == {Shared, Unused, NoTests}
MCLiveProblems == {Shared, NoTests}

MCVerdicts == {"Accepted", "WrongAnswer"}
MCLiveVerdicts == {"Accepted"}
MCSymmetry == Permutations({ann, bob}) \cup Permutations({s1, s2}) \cup Permutations({w1, w2})
=============================================================================
