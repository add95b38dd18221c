----------------------------- MODULE Catalogue -----------------------------
(***************************************************************************)
(* The problems of a contest, and the request that adds one                *)
(* (create_new_problem, problem.rs): it looks for the first free name      *)
(* "Problem n", removes a problem that has this name all the same          *)
(* (add_problem_override), inserts the new problem and links it to the     *)
(* contest.  Several such requests may be under way while administrators   *)
(* rename problems, upload tests and take problems out of the contest, and *)
(* while users submit.  Each SQL statement is a step; nothing groups them. *)
(*                                                                         *)
(* An upload and a submission are one step each here; JudgeAdmin and Judge *)
(* take them apart.  There is one contest.                                 *)
(***************************************************************************)
EXTENDS Integers, FiniteSets

CONSTANTS Creators,    \* the requests to add a problem
          MaxNumber,   \* the highest number tried: 1000 in the code
          GivenNames,  \* names given on the edit page
          MaxProblems, \* bound on the problem ids of the model
          None

\* The edit page puts a line break before the name it was given, so a given
\* name is never "Problem n", here n.
ASSUME CatalogueAssumption ==
    /\ {MaxNumber, MaxProblems} \subseteq Nat \ {0}
    /\ GivenNames \cap Nat = {}
    /\ None \notin 1..MaxProblems

VARIABLES
    problems,   \* name of each problem, by id
    last_id,    \* the sequence of problem_id, which never goes back
    contents,   \* which rows of tests and subtasks each problem has
    results,    \* which of these rows results of submissions refer to
    submitted,  \* problems with submissions
    linked,     \* contest_problems
    creator,    \* local state of create_new_problem, per request
    known,      \* history: `problems` when the request started
    disturbed,  \* history: requests during which another request ran a step
    unlinked    \* history: problems taken out of the contest

tables == <<problems, last_id, contents, results, submitted, linked>>
history == <<known, disturbed, unlinked>>
vars == <<tables, creator, history>>

Ids == 1..MaxProblems
Rows == {"subtask_tests", "subtasks", "tests"}
Names == (1..MaxNumber) \cup GivenNames

NoCreator == [pc |-> "none", number |-> 1, victim |-> None, problem |-> None]

\* Before the requests: problems 1..n named "Problem 1" to "Problem n".
Init ==
    /\ \E n \in 0..MaxNumber :
          /\ n < MaxProblems
          /\ problems = [p \in 1..n |-> p]
          /\ last_id = n
          /\ linked = 1..n
    /\ contents = [p \in Ids |-> {}]
    /\ results = [p \in Ids |-> {}]
    /\ submitted = {}
    /\ creator = [c \in Creators |-> NoCreator]
    /\ known = [c \in Creators |-> <<>>]
    /\ disturbed = {}
    /\ unlinked = {}

-----------------------------------------------------------------------------
NameTaken(n) == \E p \in DOMAIN problems : problems[p] = n

Running == {c \in Creators :
                 creator[c].pc \notin {"none", "done", "failed", "dropped"}}

\* A step of request c moves it to `next`, and disturbs the others.
Move(c, next) ==
    /\ creator' = [creator EXCEPT ![c] = next]
    /\ disturbed' = disturbed \cup (Running \ {c})
    /\ UNCHANGED unlinked

Goto(c, pc) == Move(c, [creator[c] EXCEPT !.pc = pc]) /\ UNCHANGED known

Start(c) ==
    /\ creator[c].pc = "none"
    /\ Move(c, [NoCreator EXCEPT !.pc = "probe"])
    /\ known' = [known EXCEPT ![c] = problems]
    /\ UNCHANGED tables

\* Mutant: the loop tries one number too many.
BugGiveUpLate(n) == n > MaxNumber

\* Mutant: the loop gives up one number early.
BugGiveUpEarly(n) == n + 1 >= MaxNumber

GiveUp(n) == n + 1 > MaxNumber

\* while problem_with_name_exists("Problem n")
Probe(c) ==
    LET n == creator[c].number
    IN  /\ creator[c].pc = "probe"
        /\ IF NameTaken(n)
           THEN IF GiveUp(n) THEN Goto(c, "failed")
                ELSE Move(c, [creator[c] EXCEPT !.number = n + 1]) /\ UNCHANGED known
           ELSE Goto(c, "lookup")
        /\ UNCHANGED tables

\* Mutant: the number is taken for an id.
BugIdsFromName(n) == {p \in DOMAIN problems : p = n}

\* get_problem_id_from_name
IdsFromName(n) == {p \in DOMAIN problems : problems[p] = n}

\* add_problem_override looks the name up once more.
Lookup(c) ==
    LET ids == IdsFromName(creator[c].number)
    IN  /\ creator[c].pc = "lookup"
        /\ IF ids = {} THEN Goto(c, "insert")
           ELSE \E p \in ids :
                   /\ Move(c, [creator[c] EXCEPT !.pc = "delete_subtask_tests",
                                                 !.victim = p])
                   /\ UNCHANGED known
        /\ UNCHANGED tables

\* remove_problem, through delete_all_subtasks_and_tests_for_problem: four
\* DELETEs, each refused as a whole when a row of it is referred to.
DeleteSubtaskTests(c) ==
    /\ creator[c].pc = "delete_subtask_tests"
    /\ contents' = [contents EXCEPT ![creator[c].victim] = @ \ {"subtask_tests"}]
    /\ Goto(c, "delete_subtasks")
    /\ UNCHANGED <<problems, last_id, results, submitted, linked>>

Referenced(p, row) ==
    row \in contents[p] /\ ("subtask_tests" \in contents[p] \/ row \in results[p])

DeleteSubtasks(c) ==
    LET p == creator[c].victim
    IN  /\ creator[c].pc = "delete_subtasks"
        /\ IF Referenced(p, "subtasks")
           THEN Goto(c, "failed") /\ UNCHANGED contents
           ELSE /\ contents' = [contents EXCEPT ![p] = @ \ {"subtasks"}]
                /\ Goto(c, "delete_tests")
        /\ UNCHANGED <<problems, last_id, results, submitted, linked>>

DeleteTests(c) ==
    LET p == creator[c].victim
    IN  /\ creator[c].pc = "delete_tests"
        /\ IF Referenced(p, "tests")
           THEN Goto(c, "failed") /\ UNCHANGED contents
           ELSE /\ contents' = [contents EXCEPT ![p] = @ \ {"tests"}]
                /\ Goto(c, "delete_problem")
        /\ UNCHANGED <<problems, last_id, results, submitted, linked>>

\* Mutant: contest_problems does not refer to the problem.
BugInUse(p) == contents[p] # {} \/ p \in submitted

InUse(p) == contents[p] # {} \/ p \in submitted \/ p \in linked

DeleteProblem(c) ==
    LET p == creator[c].victim
    IN  /\ creator[c].pc = "delete_problem"
        /\ IF InUse(p)
           THEN Goto(c, "failed") /\ UNCHANGED problems
           ELSE /\ problems' = [q \in DOMAIN problems \ {p} |-> problems[q]]
                /\ Goto(c, "insert")
        /\ UNCHANGED <<last_id, contents, results, submitted, linked>>

\* add_problem: problem_name is UNIQUE.
InsertProblem(c) ==
    LET n == creator[c].number
        p == last_id + 1
    IN  /\ creator[c].pc = "insert"
        /\ last_id < MaxProblems
        /\ IF NameTaken(n)
           THEN Goto(c, "failed") /\ UNCHANGED <<problems, last_id>>
           ELSE /\ problems' = [q \in DOMAIN problems \cup {p} |->
                                   IF q = p THEN n ELSE problems[q]]
                /\ last_id' = p
                /\ Move(c, [creator[c] EXCEPT !.pc = "link", !.problem = p])
                /\ UNCHANGED known
        /\ UNCHANGED <<contents, results, submitted, linked>>

\* add_problem_to_contest; another request may have removed the problem.
Link(c) ==
    LET p == creator[c].problem
    IN  /\ creator[c].pc = "link"
        /\ IF p \in DOMAIN problems
           THEN linked' = linked \cup {p} /\ Goto(c, "done")
           ELSE Goto(c, "failed") /\ UNCHANGED linked
        /\ UNCHANGED <<problems, last_id, contents, results, submitted>>

\* The client disconnects and hyper drops the handler.
HandlerDropped(c) ==
    /\ c \in Running
    /\ Goto(c, "dropped")
    /\ UNCHANGED tables

-----------------------------------------------------------------------------
\* A step of another request; everything under way is disturbed by it.
Elsewhere ==
    /\ disturbed' = disturbed \cup Running
    /\ UNCHANGED <<creator, known>>

\* set_problem_name, from the edit page.
Rename(p) ==
    /\ \E name \in GivenNames :
          /\ ~NameTaken(name)
          /\ problems' = [problems EXCEPT ![p] = name]
    /\ Elsewhere
    /\ UNCHANGED <<last_id, contents, results, submitted, linked, unlinked>>

\* handle_tests_uploading, which clears the results first.
UploadTests(p) ==
    /\ contents' = [contents EXCEPT ![p] = Rows]
    /\ results' = [results EXCEPT ![p] = {}]
    /\ Elsewhere
    /\ UNCHANGED <<problems, last_id, submitted, linked, unlinked>>

\* add_submission: a result for every subtask and every test.
Submit(p) ==
    /\ submitted' = submitted \cup {p}
    /\ results' = [results EXCEPT ![p] = @ \cup (contents[p] \ {"subtask_tests"})]
    /\ Elsewhere
    /\ UNCHANGED <<problems, last_id, contents, linked, unlinked>>

\* remove_problem_from_contest: the problem itself stays.
RemoveFromContest(p) ==
    /\ p \in linked
    /\ linked' = linked \ {p}
    /\ unlinked' = unlinked \cup {p}
    /\ Elsewhere
    /\ UNCHANGED <<problems, last_id, contents, results, submitted>>

-----------------------------------------------------------------------------
CreatorStep(c) ==
    \/ Probe(c)
    \/ Lookup(c)
    \/ DeleteSubtaskTests(c)
    \/ DeleteSubtasks(c)
    \/ DeleteTests(c)
    \/ DeleteProblem(c)
    \/ InsertProblem(c)
    \/ Link(c)

AllAnswered ==
    /\ \A c \in Creators : creator[c].pc # "none"
    /\ Running = {}
    /\ UNCHANGED vars

Next ==
    \/ \E c \in Creators : Start(c) \/ CreatorStep(c) \/ HandlerDropped(c)
    \/ \E p \in DOMAIN problems :
          Rename(p) \/ UploadTests(p) \/ Submit(p) \/ RemoveFromContest(p)
    \/ AllAnswered

Spec == Init /\ [][Next]_vars

-----------------------------------------------------------------------------
TypeOK ==
    /\ DOMAIN problems \subseteq 1..last_id
    /\ problems \in [DOMAIN problems -> Names]
    /\ last_id \in 0..MaxProblems
    /\ contents \in [Ids -> SUBSET Rows]
    /\ results \in [Ids -> SUBSET Rows]
    /\ submitted \subseteq Ids
    /\ linked \subseteq Ids
    /\ creator \in [Creators ->
           [pc : {"none", "probe", "lookup", "delete_subtask_tests",
                  "delete_subtasks", "delete_tests", "delete_problem",
                  "insert", "link", "done", "failed", "dropped"},
            number : 1..MaxNumber,
            victim : Ids \cup {None}, problem : Ids \cup {None}]]

(***************************************************************************)
(* A request to add a problem that no other request disturbs removes       *)
(* nothing, and fails only when every number up to the highest is taken.   *)
(***************************************************************************)
UndisturbedCreation ==
    \A c \in Creators \ disturbed :
        /\ creator[c].victim = None
        /\ creator[c].pc = "failed" =>
               \A n \in 1..MaxNumber : \E p \in DOMAIN known[c] : known[c][p] = n

(***************************************************************************)
(* add_problem_override removes a problem of the same name with its tests. *)
(* Whatever the others do meanwhile, that is never a problem that existed  *)
(* when the request started: only a concurrent request can lose its        *)
(* problem this way.                                                       *)
(***************************************************************************)
OldProblemsAreKept ==
    \A c \in Creators : creator[c].victim \notin DOMAIN known[c]

(***************************************************************************)
(* Once a request has answered, its problem is in the contest until an     *)
(* administrator takes it out, although a concurrent request may have      *)
(* tried to remove it; and a contest links to existing problems only.      *)
(***************************************************************************)
CreatedProblemStays ==
    /\ linked \subseteq DOMAIN problems
    /\ \A c \in Creators :
          creator[c].pc = "done" /\ creator[c].problem \notin unlinked =>
              creator[c].problem \in linked
=============================================================================
