---------------------------- MODULE JudgeService ----------------------------
(***************************************************************************)
(* What the judge promises for a submission, without the machinery: its    *)
(* tests each get one outcome, once; then one answer is published, made    *)
(* from all these outcomes at once; and an answer never changes.  Judge    *)
(* implements it (ServiceSpec there).                                      *)
(***************************************************************************)
EXTENDS TestingResults, FiniteSetsExt

CONSTANTS Submissions, Tests, Subtasks, SubtaskScore

VARIABLES links,   \* which test decides on which subtask
          stage,   \* of each submission, from "none" to its end
          graded,  \* pairs of a submission and a subtask it is graded on
          outcome, \* per submission and test; "pending" until there is one
          answer   \* per answered submission: verdict and points

vars == <<links, stage, graded, outcome, answer>>

Init ==
    /\ links \subseteq Subtasks \X Tests
    /\ stage = [s \in Submissions |-> "none"]
    /\ graded = {}
    /\ outcome = [k \in {} |-> "pending"]
    /\ answer = [s \in {} |-> "none"]

Enter(s, from, to) ==
    /\ stage[s] = from
    /\ stage' = [stage EXCEPT ![s] = to]
    /\ UNCHANGED <<links, graded, outcome>>

Submit(s) == Enter(s, "none", "InQueue") /\ UNCHANGED answer

AddSubtask(s, g) ==
    /\ stage[s] = "InQueue"
    /\ graded' = graded \cup {<<s, g>>}
    /\ UNCHANGED <<links, stage, outcome, answer>>

AddTest(s, t) ==
    /\ stage[s] = "InQueue"
    /\ outcome' = [k \in DOMAIN outcome \cup {<<s, t>>} |->
                      IF k = <<s, t>> THEN "pending" ELSE outcome[k]]
    /\ UNCHANGED <<links, stage, graded, answer>>

Compile(s) ==
    /\ \/ Enter(s, "InQueue", "Compiling")
       \/ Enter(s, "Compiling", "Testing")
       \/ Enter(s, "Compiling", "CompilationError")
    /\ UNCHANGED answer

Execute(s, t) ==
    /\ stage[s] = "Testing"
    /\ <<s, t>> \in DOMAIN outcome
    /\ outcome[<<s, t>>] = "pending"
    /\ \E v \in TestingResult \ Unfinished :
          outcome' = [outcome EXCEPT ![<<s, t>>] = v]
    /\ UNCHANGED <<links, stage, graded, answer>>

TestsOf(s) == {t \in Tests : <<s, t>> \in DOMAIN outcome}

\* The verdict on subtask g, and on all subtasks s is graded on.
Grade(s, g) == Worst({outcome[<<s, t>>] : t \in {t \in Tests : <<g, t>> \in links}})

Answer(s) ==
    LET G == {g \in Subtasks : <<s, g>> \in graded}
    IN  [result |-> Worst({Grade(s, g) : g \in G}),
         points |-> MapThenSumSet(LAMBDA g : SubtaskScore[g],
                                  {g \in G : Grade(s, g) = "Accepted"})]

Publish(s) ==
    /\ TestsOf(s) # {}
    /\ \A t \in TestsOf(s) : outcome[<<s, t>>] # "pending"
    /\ Enter(s, "Testing", "answered")
    /\ answer' = [r \in DOMAIN answer \cup {s} |->
                     IF r = s THEN Answer(s) ELSE answer[r]]

Next ==
    \E s \in Submissions :
        \/ Submit(s) \/ Compile(s) \/ Publish(s)
        \/ \E g \in Subtasks : AddSubtask(s, g)
        \/ \E t \in Tests : AddTest(s, t) \/ Execute(s, t)

Spec == Init /\ [][Next]_vars
=============================================================================
