CONSTANTS
    ann = ann
    bob = bob
    s1 = s1
    s2 = s2
    t1 = t1
    t2 = t2
    g1 = g1
    g2 = g2
    w1 = w1
    w2 = w2
    None = None
    Users = {ann}
    Submissions = {s1, s2}
    Tests = {t1, t2}
    Subtasks = {g1, g2}
    Workers = {w1, w2}
    SubtaskScore <- MCSubtaskScore
    Problems <- MCLiveProblems
    Verdicts <- MCLiveVerdicts
    MaxRestarts = 0

SPECIFICATION Spec

PROPERTIES SubmissionGetsVerdict ExecutableIsRemoved
