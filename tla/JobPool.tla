------------------------------ MODULE JobPool ------------------------------
(***************************************************************************)
(* What the rest of the judge relies on when it hands a test to the worker *)
(* manager: a job handed over is executed by one worker, once; a worker    *)
(* executes one job at a time (its number is also the number of the        *)
(* sandbox it uses); every job handed over is finished in the end.         *)
(***************************************************************************)
CONSTANTS Jobs, Workers, None

VARIABLES pool,      \* jobs handed over and not yet taken
          executing, \* the job of each worker, None when it has none
          finished   \* jobs executed and reported

vars == <<pool, executing, finished>>

Fresh(j) ==
    /\ j \notin pool
    /\ j \notin finished
    /\ \A w \in Workers : executing[w] # j

Init ==
    /\ pool = {}
    /\ executing = [w \in Workers |-> None]
    /\ finished = {}

HandOver(j) ==
    /\ Fresh(j)
    /\ pool' = pool \cup {j}
    /\ UNCHANGED <<executing, finished>>

Take(w, j) ==
    /\ j \in pool
    /\ executing[w] = None
    /\ pool' = pool \ {j}
    /\ executing' = [executing EXCEPT ![w] = j]
    /\ UNCHANGED finished

Finish(w) ==
    /\ executing[w] # None
    /\ finished' = finished \cup {executing[w]}
    /\ executing' = [executing EXCEPT ![w] = None]
    /\ UNCHANGED pool

Next ==
    \/ \E j \in Jobs : HandOver(j)
    \/ \E w \in Workers, j \in Jobs : Take(w, j)
    \/ \E w \in Workers : Finish(w)

Fairness ==
    /\ \A j \in Jobs : SF_vars(\E w \in Workers : Take(w, j))
    /\ \A w \in Workers : WF_vars(Finish(w))

Safe == Init /\ [][Next]_vars

Spec == Safe /\ Fairness
=============================================================================
