---------------------------- MODULE MCWorkerPool ----------------------------
EXTENDS WorkerPool

CONSTANTS a, b

\* Two submissions judged at once, of two tests each.
MCSenders == {a, b}
MCJobsOf == [s \in MCSenders |-> IF s = a THEN 1..2 ELSE 3..4]
MCJobs == 1..4
=============================================================================
