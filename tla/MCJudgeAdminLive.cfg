CONSTANTS
    ann = ann
    s1 = s1
    t1 = t1
    t2 = t2
    t3 = t3
    t4 = t4
    g1 = g1
    g2 = g2
    w1 = w1
    w2 = w2
    None = None
    Users = {ann}
    Submissions = {s1}
    Tests = {t1, t2, t3, t4}
    Subtasks = {g1, g2}
    Workers = {w1}
    SubtaskScore <- MCSubtaskScore
    Problems <- MCOneTestProblems
    Uploads <- MCOneTestUploads
    Verdicts <- MCVerdicts
    MaxRestarts = 1
SPECIFICATION AdminSpec
PROPERTY WorkerReturns
