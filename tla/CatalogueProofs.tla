--------------------------- MODULE CatalogueProofs ---------------------------
(***************************************************************************)
(* Theorems about the problems of a contest, for every number of requests  *)
(* that add one, of numbers tried, and of names given on the edit page.    *)
(***************************************************************************)
EXTENDS Catalogue, TLAPS

DeletePcs ==
    {"delete_subtask_tests", "delete_subtasks", "delete_tests", "delete_problem"}

CreatorRecord ==
    [pc : {"none", "probe", "lookup", "insert", "link", "done", "failed", "dropped"}
              \cup DeletePcs,
     number : 1..MaxNumber,
     victim : Ids \cup {None}, problem : Ids \cup {None}]

ProblemsOK ==
    /\ DOMAIN problems \subseteq 1..last_id
    /\ problems \in [DOMAIN problems -> Names]
    /\ last_id \in 0..MaxProblems

RowsOK ==
    /\ contents \in [Ids -> SUBSET Rows]
    /\ results \in [Ids -> SUBSET Rows]
    /\ submitted \subseteq Ids

\* A contest links to existing problems, and what is no longer linked was
\* taken out.
Linked(c) ==
    creator[c].pc = "done" => creator[c].problem \in linked \cup unlinked

\* A request knows the problems of its start by their ids, which the sequence
\* has left behind.  Between its search for a free name and the second lookup
\* of this name, the name belongs to none of them.
KeepsOld(c) ==
    /\ DOMAIN known[c] \subseteq 1..last_id
    /\ creator[c].victim \notin DOMAIN known[c]
    /\ creator[c].pc = "lookup" =>
           \A p \in DOMAIN problems :
               problems[p] = creator[c].number => p \notin DOMAIN known[c]

KnownTaken(c, n) == \E p \in DOMAIN known[c] : known[c][p] = n

\* What a request that nobody disturbs can rely on.
Alone(c) ==
    /\ creator[c].victim = None
    /\ creator[c].pc \notin DeletePcs
    /\ creator[c].pc \in {"probe", "lookup", "insert"} => problems = known[c]
    /\ creator[c].pc = "probe" => \A n \in 1..(creator[c].number - 1) : KnownTaken(c, n)
    /\ creator[c].pc \in {"lookup", "insert"} => ~NameTaken(creator[c].number)
    /\ creator[c].pc = "link" => creator[c].problem \in DOMAIN problems
    /\ creator[c].pc = "failed" => \A n \in 1..MaxNumber : KnownTaken(c, n)

Good(c) ==
    /\ creator[c] \in CreatorRecord
    /\ Linked(c)
    /\ KeepsOld(c)
    /\ c \notin disturbed => Alone(c)

CInv ==
    /\ ProblemsOK
    /\ RowsOK
    /\ linked \subseteq DOMAIN problems
    /\ creator = [c \in Creators |-> creator[c]]
    /\ known = [c \in Creators |-> known[c]]
    /\ \A c \in Creators : Good(c)

LEMMA CInvImpliesTypes == CInv => TypeOK
<1> SUFFICES ASSUME CInv PROVE TypeOK
  OBVIOUS
<1>1. linked \subseteq Ids
  BY CatalogueAssumption DEF CInv, ProblemsOK, Ids
<1>2. creator \in [Creators -> CreatorRecord]
  BY DEF CInv, Good
<1> QED BY <1>1, <1>2 DEF CInv, ProblemsOK, RowsOK, TypeOK, CreatorRecord, DeletePcs

LEMMA CInvInit == Init => CInv
<1> SUFFICES ASSUME Init PROVE CInv
  OBVIOUS
<1>1. PICK n \in 0..MaxNumber :
          /\ n < MaxProblems
          /\ problems = [p \in 1..n |-> p]
          /\ last_id = n
          /\ linked = 1..n
  BY DEF Init
<1>2. ProblemsOK
  BY <1>1, CatalogueAssumption DEF ProblemsOK, Names
<1>3. RowsOK
  BY DEF Init, RowsOK
<1>4. NoCreator \in CreatorRecord
  BY CatalogueAssumption DEF NoCreator, CreatorRecord
<1>5. ASSUME NEW c \in Creators PROVE Good(c)
  <2>1. creator[c] = NoCreator /\ known[c] = <<>>
    BY DEF Init
  <2>2. /\ creator[c].pc = "none" /\ creator[c].victim = None
    BY <2>1 DEF NoCreator
  <2>3. DOMAIN known[c] = {}
    BY <2>1
  <2>4. Alone(c) /\ Linked(c) /\ KeepsOld(c)
    BY <2>2, <2>3 DEF Alone, Linked, KeepsOld, DeletePcs
  <2> QED BY <1>4, <2>1, <2>4 DEF Good
<1> QED BY <1>1, <1>2, <1>3, <1>5 DEF CInv, Init

-----------------------------------------------------------------------------
\* What every step does to the problems and the contest: a name given on the
\* edit page is no number, and only an administrator takes a problem out.
TablesEvolve ==
    /\ last_id <= last_id'
    /\ \A p \in DOMAIN problems' :
          \/ p > last_id
          \/ p \in DOMAIN problems /\ problems'[p] \in {problems[p]} \cup GivenNames
    /\ linked \cup unlinked \subseteq linked' \cup unlinked'

\* A step leaves a request that is not under way, or that it disturbs, in
\* order when it changes nothing of its state.
LEMMA OthersStayGood ==
    ASSUME CInv, ProblemsOK', TablesEvolve,
           NEW d \in Creators, creator'[d] = creator[d], known'[d] = known[d],
           disturbed \subseteq disturbed', d \in disturbed' \/ d \notin Running
    PROVE  Good(d)'
<1>1. /\ Good(d) /\ last_id \in Nat /\ last_id' \in Nat
      /\ creator[d].number \in Nat /\ DOMAIN known[d] \subseteq 1..last_id
  BY CatalogueAssumption DEF CInv, Good, ProblemsOK, CreatorRecord, KeepsOld
<1>2. Linked(d)'
  BY <1>1 DEF Good, Linked, TablesEvolve
<1>3. KeepsOld(d)'
  <2>1. DOMAIN known[d] \subseteq 1..last_id'
    BY <1>1 DEF TablesEvolve
  <2>2. ASSUME creator[d].pc = "lookup",
               NEW p \in DOMAIN problems', problems'[p] = creator[d].number,
               p \in DOMAIN known[d]
        PROVE  FALSE
    <3>1. p \in 1..last_id
      BY <1>1, <2>2
    <3>2. ~(p > last_id)
      BY <1>1, <3>1
    <3>3. p \in DOMAIN problems /\ problems'[p] \in {problems[p]} \cup GivenNames
      BY <3>2 DEF TablesEvolve
    <3>4. problems[p] = creator[d].number
      BY <1>1, <2>2, <3>3, CatalogueAssumption
    <3> QED BY <1>1, <2>2, <3>3, <3>4 DEF Good, KeepsOld
  <2> QED BY <1>1, <2>1, <2>2 DEF Good, KeepsOld
<1>4. d \notin disturbed' => Alone(d)'
  <2> SUFFICES ASSUME d \notin disturbed' PROVE Alone(d)'
    OBVIOUS
  <2>1. d \notin disturbed /\ d \notin Running
    OBVIOUS
  <2>2. creator[d].pc \in {"none", "done", "failed", "dropped"}
    BY <2>1 DEF Running
  <2> QED BY <1>1, <2>1, <2>2 DEF Good, Alone, KnownTaken
<1> QED BY <1>1, <1>2, <1>3, <1>4 DEF Good

\* The step of a request: what is left to show is about its own state.
LEMMA MoveKeepsCInv ==
    ASSUME CInv, ProblemsOK', RowsOK', TablesEvolve, (linked \subseteq DOMAIN problems)',
           NEW c \in Creators, NEW next, Move(c, next),
           \/ UNCHANGED known
           \/ known' = [known EXCEPT ![c] = problems],
           Good(c)'
    PROVE  CInv'
<1>1. /\ creator' = [creator EXCEPT ![c] = next]
      /\ disturbed' = disturbed \cup (Running \ {c})
  BY DEF Move
<1>2. ASSUME NEW d \in Creators, d # c PROVE Good(d)'
  <2>1. creator'[d] = creator[d] /\ known'[d] = known[d]
    BY <1>1, <1>2 DEF CInv
  <2>2. disturbed \subseteq disturbed' /\ (d \in disturbed' \/ d \notin Running)
    BY <1>1, <1>2
  <2> QED BY <2>1, <2>2, OthersStayGood
<1>3. (creator = [d \in Creators |-> creator[d]])'
  BY <1>1 DEF CInv
<1>4. (known = [d \in Creators |-> known[d]])'
  BY DEF CInv
<1> QED BY <1>2, <1>3, <1>4 DEF CInv

\* The step of an administrator or a user.
LEMMA ElsewhereKeepsCInv ==
    ASSUME CInv, ProblemsOK', RowsOK', TablesEvolve, (linked \subseteq DOMAIN problems)',
           Elsewhere
    PROVE  CInv'
<1>1. UNCHANGED <<creator, known>> /\ disturbed' = disturbed \cup Running
  BY DEF Elsewhere
<1>2. ASSUME NEW d \in Creators PROVE Good(d)'
  BY <1>1, OthersStayGood
<1> QED BY <1>1, <1>2 DEF CInv

-----------------------------------------------------------------------------
\* A step that changes no table.
LEMMA NoChange ==
    ASSUME CInv, UNCHANGED tables, unlinked \subseteq unlinked'
    PROVE  /\ ProblemsOK' /\ RowsOK' /\ (linked \subseteq DOMAIN problems)'
           /\ TablesEvolve
<1>1. last_id <= last_id
  BY DEF CInv, ProblemsOK
<1> QED BY <1>1 DEF tables, CInv, ProblemsOK, RowsOK, TablesEvolve

\* The request that moves, when only its state changes.
LEMMA MovedIsGood ==
    ASSUME CInv, UNCHANGED tables, NEW c \in Creators, NEW next \in CreatorRecord,
           Move(c, next), UNCHANGED known,
           next.pc # "done",
           next.victim \notin DOMAIN known[c],
           next.pc = "lookup" => ~NameTaken(next.number),
           c \notin disturbed =>
               /\ next.victim = None
               /\ next.pc \in {"probe", "lookup", "insert"} => problems = known[c]
               /\ next.pc = "probe" => \A n \in 1..(next.number - 1) : KnownTaken(c, n)
               /\ next.pc = "insert" => ~NameTaken(next.number)
               /\ next.pc \notin DeletePcs \cup {"link"}
               /\ next.pc = "failed" => \A n \in 1..MaxNumber : KnownTaken(c, n)
    PROVE  CInv'
<1>1. creator'[c] = next /\ UNCHANGED unlinked /\ (c \notin disturbed' <=> c \notin disturbed)
  BY DEF Move, CInv
<1>2. Good(c)'
  <2>1. Linked(c)'
    BY <1>1 DEF Linked
  <2>2. KeepsOld(c)'
    BY <1>1 DEF KeepsOld, CInv, Good, tables, NameTaken
  <2>3. c \notin disturbed' => Alone(c)'
    BY <1>1 DEF Alone, tables, NameTaken, KnownTaken
  <2> QED BY <1>1, <2>1, <2>2, <2>3 DEF Good
<1> QED BY <1>1, <1>2, NoChange, MoveKeepsCInv

LEMMA StartKeepsCInv ==
    ASSUME CInv, NEW c \in Creators, Start(c) PROVE CInv'
<1> DEFINE next == [NoCreator EXCEPT !.pc = "probe"]
<1>1. /\ creator[c].pc = "none" /\ Move(c, next) /\ UNCHANGED tables
      /\ known' = [known EXCEPT ![c] = problems]
  BY DEF Start
<1>2. /\ next \in CreatorRecord
      /\ next.pc = "probe" /\ next.number = 1 /\ next.victim = None
  BY CatalogueAssumption DEF NoCreator, CreatorRecord
<1> HIDE DEF next
<1>3. creator'[c] = next /\ known'[c] = problems /\ UNCHANGED unlinked
  BY <1>1 DEF Move, CInv
<1>4. UNCHANGED <<problems, last_id, linked>>
  BY <1>1 DEF tables
<1>5. DOMAIN problems \subseteq 1..last_id /\ None \notin DOMAIN problems
  BY CatalogueAssumption DEF CInv, ProblemsOK
<1>6. Good(c)'
  <2>1. Linked(c)'
    BY <1>2, <1>3 DEF Linked
  <2>2. KeepsOld(c)'
    BY <1>2, <1>3, <1>4, <1>5 DEF KeepsOld
  <2>3. Alone(c)'
    BY <1>2, <1>3, <1>4 DEF Alone, DeletePcs
  <2> QED BY <1>2, <1>3, <2>1, <2>2, <2>3 DEF Good
<1> QED BY <1>1, <1>3, <1>6, NoChange, MoveKeepsCInv

\* while problem_with_name_exists: every number the loop has passed is taken.
LEMMA ProbeKeepsCInv ==
    ASSUME CInv, NEW c \in Creators, Probe(c) PROVE CInv'
<1> DEFINE me == creator[c]
           n == me.number
<1>1. me.pc = "probe" /\ UNCHANGED tables
  BY DEF Probe
<1>2. /\ me \in CreatorRecord /\ n \in 1..MaxNumber /\ n \in Nat
      /\ me.victim \notin DOMAIN known[c]
      /\ c \notin disturbed =>
             /\ me.victim = None /\ problems = known[c]
             /\ \A m \in 1..(n - 1) : KnownTaken(c, m)
  BY <1>1 DEF CInv, Good, KeepsOld, Alone, CreatorRecord
<1>3. CASE NameTaken(n) /\ GiveUp(n)
  <2> DEFINE next == [me EXCEPT !.pc = "failed"]
  <2>1. Move(c, next) /\ UNCHANGED known
    BY <1>1, <1>3 DEF Probe, Goto
  <2>2. next \in CreatorRecord /\ next.pc = "failed" /\ next.victim = me.victim
    BY <1>2 DEF CreatorRecord
  <2>3. c \notin disturbed => \A m \in 1..MaxNumber : KnownTaken(c, m)
    <3>1. n = MaxNumber
      BY <1>2, <1>3, CatalogueAssumption DEF GiveUp
    <3>2. \A m \in 1..MaxNumber : m = n \/ m \in 1..(n - 1)
      BY <1>2, <3>1
    <3>3. c \notin disturbed => KnownTaken(c, n)
      BY <1>2, <1>3 DEF NameTaken, KnownTaken
    <3> QED BY <1>2, <3>2, <3>3
  <2> HIDE DEF next, me
  <2> QED BY <1>1, <1>2, <2>1, <2>2, <2>3, MovedIsGood DEF DeletePcs
<1>4. CASE NameTaken(n) /\ ~GiveUp(n)
  <2> DEFINE next == [me EXCEPT !.number = n + 1]
  <2>1. Move(c, next) /\ UNCHANGED known
    BY <1>1, <1>4 DEF Probe
  <2>2. n + 1 \in 1..MaxNumber
    BY <1>2, <1>4, CatalogueAssumption DEF GiveUp
  <2>3. /\ next \in CreatorRecord /\ next.pc = "probe" /\ next.victim = me.victim
        /\ next.number = n + 1
    BY <1>1, <1>2, <2>2 DEF CreatorRecord
  <2>4. c \notin disturbed => \A m \in 1..(n + 1 - 1) : KnownTaken(c, m)
    <3>1. \A m \in 1..(n + 1 - 1) : m = n \/ m \in 1..(n - 1)
      BY <1>2
    <3>2. c \notin disturbed => KnownTaken(c, n)
      BY <1>2, <1>4 DEF NameTaken, KnownTaken
    <3> QED BY <1>2, <3>1, <3>2
  <2> HIDE DEF next, me
  <2> QED BY <1>1, <1>2, <2>1, <2>3, <2>4, MovedIsGood DEF DeletePcs
<1>5. CASE ~NameTaken(n)
  <2> DEFINE next == [me EXCEPT !.pc = "lookup"]
  <2>1. Move(c, next) /\ UNCHANGED known
    BY <1>1, <1>5 DEF Probe, Goto
  <2>2. /\ next \in CreatorRecord /\ next.pc = "lookup" /\ next.victim = me.victim
        /\ next.number = n
    BY <1>2 DEF CreatorRecord
  <2> HIDE DEF next, me
  <2> QED BY <1>1, <1>2, <1>5, <2>1, <2>2, MovedIsGood DEF DeletePcs
<1> QED BY <1>3, <1>4, <1>5

\* The second lookup of the name finds only what came after the start of the
\* request, and nothing if nobody else ran.
LEMMA LookupKeepsCInv ==
    ASSUME CInv, NEW c \in Creators, Lookup(c) PROVE CInv'
<1> DEFINE me == creator[c]
<1>1. me.pc = "lookup" /\ UNCHANGED tables
  BY DEF Lookup
<1>2. /\ me \in CreatorRecord
      /\ me.victim \notin DOMAIN known[c]
      /\ \A p \in DOMAIN problems : problems[p] = me.number => p \notin DOMAIN known[c]
      /\ c \notin disturbed =>
             me.victim = None /\ problems = known[c] /\ ~NameTaken(me.number)
  BY <1>1 DEF CInv, Good, KeepsOld, Alone
<1>3. CASE IdsFromName(me.number) = {}
  <2> DEFINE next == [me EXCEPT !.pc = "insert"]
  <2>1. Move(c, next) /\ UNCHANGED known
    BY <1>1, <1>3 DEF Lookup, Goto
  <2>2. /\ next \in CreatorRecord /\ next.pc = "insert" /\ next.victim = me.victim
        /\ next.number = me.number
    BY <1>2 DEF CreatorRecord
  <2> HIDE DEF next, me
  <2> QED BY <1>1, <1>2, <2>1, <2>2, MovedIsGood DEF DeletePcs
<1>4. CASE IdsFromName(me.number) # {}
  <2>1. PICK p \in IdsFromName(me.number) :
            /\ Move(c, [me EXCEPT !.pc = "delete_subtask_tests", !.victim = p])
            /\ UNCHANGED known
    BY <1>1, <1>4 DEF Lookup
  <2> DEFINE next == [me EXCEPT !.pc = "delete_subtask_tests", !.victim = p]
  <2>2. p \in DOMAIN problems /\ p \in Ids /\ problems[p] = me.number
    BY <2>1, CatalogueAssumption DEF IdsFromName, CInv, ProblemsOK, Ids
  <2>3. /\ next \in CreatorRecord /\ next.pc = "delete_subtask_tests"
        /\ next.victim = p
    BY <1>2, <2>2 DEF CreatorRecord, DeletePcs
  <2>4. c \in disturbed
    BY <1>2, <2>2 DEF NameTaken
  <2> HIDE DEF next, me
  <2> QED BY <1>1, <1>2, <2>1, <2>2, <2>3, <2>4, MovedIsGood DEF next
<1> QED BY <1>3, <1>4

-----------------------------------------------------------------------------
\* remove_problem is only ever begun by a request that was disturbed, and its
\* steps change neither its victim nor its number.
LEMMA RemovalKeepsCInv ==
    ASSUME CInv, NEW c \in Creators, creator[c].pc \in DeletePcs,
           NEW pc \in DeletePcs \cup {"insert", "failed"}, Goto(c, pc),
           RowsOK', UNCHANGED <<last_id, linked>>,
           \/ UNCHANGED problems
           \/ \E p : p \notin linked /\ problems' = [q \in DOMAIN problems \ {p} |-> problems[q]]
    PROVE  CInv'
<1> DEFINE next == [creator[c] EXCEPT !.pc = pc]
<1>1. /\ creator[c] \in CreatorRecord /\ creator[c].victim \notin DOMAIN known[c]
      /\ DOMAIN known[c] \subseteq 1..last_id /\ c \in disturbed
  BY DEF CInv, Good, KeepsOld, Alone
<1>2. Move(c, next) /\ UNCHANGED known
  BY DEF Goto
<1>3. next \in CreatorRecord /\ next.pc = pc /\ next.victim = creator[c].victim
  BY <1>1 DEF CreatorRecord
<1> HIDE DEF next
<1>4. creator'[c] = next /\ disturbed \subseteq disturbed' /\ UNCHANGED unlinked
  BY <1>2 DEF Move, CInv
<1>5. /\ DOMAIN problems' \subseteq DOMAIN problems
      /\ \A p \in DOMAIN problems' : problems'[p] = problems[p]
      /\ problems' \in [DOMAIN problems' -> Names]
      /\ (linked \subseteq DOMAIN problems)'
  BY DEF CInv, ProblemsOK
<1>6. ProblemsOK'
  BY <1>5 DEF CInv, ProblemsOK
<1>7. TablesEvolve
  BY <1>4, <1>5 DEF TablesEvolve, CInv, ProblemsOK
<1>8. Good(c)'
  <2>1. Linked(c)'
    BY <1>3, <1>4 DEF Linked, DeletePcs
  <2>2. KeepsOld(c)'
    BY <1>1, <1>2, <1>3, <1>4 DEF KeepsOld, DeletePcs
  <2> QED BY <1>1, <1>3, <1>4, <2>1, <2>2 DEF Good
<1> QED BY <1>2, <1>5, <1>6, <1>7, <1>8, MoveKeepsCInv

LEMMA RemoveRows ==
    ASSUME CInv, NEW p, NEW rows, UNCHANGED <<results, submitted>>,
           contents' = [contents EXCEPT ![p] = @ \ rows]
    PROVE  RowsOK'
BY DEF CInv, RowsOK

LEMMA DeleteSubtaskTestsKeepsCInv ==
    ASSUME CInv, NEW c \in Creators, DeleteSubtaskTests(c) PROVE CInv'
<1>1. RowsOK'
  BY RemoveRows DEF DeleteSubtaskTests
<1> QED BY <1>1, RemovalKeepsCInv DEF DeleteSubtaskTests, DeletePcs

LEMMA DeleteSubtasksKeepsCInv ==
    ASSUME CInv, NEW c \in Creators, DeleteSubtasks(c) PROVE CInv'
<1> DEFINE p == creator[c].victim
<1>1. CASE Referenced(p, "subtasks")
  <2>1. RowsOK'
    BY <1>1 DEF DeleteSubtasks, CInv, RowsOK
  <2> QED BY <1>1, <2>1, RemovalKeepsCInv DEF DeleteSubtasks, DeletePcs
<1>2. CASE ~Referenced(p, "subtasks")
  <2>1. RowsOK'
    BY <1>2, RemoveRows DEF DeleteSubtasks
  <2> QED BY <1>2, <2>1, RemovalKeepsCInv DEF DeleteSubtasks, DeletePcs
<1> QED BY <1>1, <1>2

LEMMA DeleteTestsKeepsCInv ==
    ASSUME CInv, NEW c \in Creators, DeleteTests(c) PROVE CInv'
<1> DEFINE p == creator[c].victim
<1>1. CASE Referenced(p, "tests")
  <2>1. RowsOK'
    BY <1>1 DEF DeleteTests, CInv, RowsOK
  <2> QED BY <1>1, <2>1, RemovalKeepsCInv DEF DeleteTests, DeletePcs
<1>2. CASE ~Referenced(p, "tests")
  <2>1. RowsOK'
    BY <1>2, RemoveRows DEF DeleteTests
  <2> QED BY <1>2, <2>1, RemovalKeepsCInv DEF DeleteTests, DeletePcs
<1> QED BY <1>1, <1>2

\* contest_problems refers to the problem: what is linked is not removed.
LEMMA DeleteProblemKeepsCInv ==
    ASSUME CInv, NEW c \in Creators, DeleteProblem(c) PROVE CInv'
<1> DEFINE p == creator[c].victim
<1>1. RowsOK'
  BY DEF DeleteProblem, CInv, RowsOK
<1>2. CASE InUse(p)
  BY <1>1, <1>2, RemovalKeepsCInv DEF DeleteProblem, DeletePcs
<1>3. CASE ~InUse(p)
  BY <1>1, <1>3, RemovalKeepsCInv DEF DeleteProblem, DeletePcs, InUse
<1> QED BY <1>2, <1>3

-----------------------------------------------------------------------------
\* problem_name is UNIQUE, and an undisturbed request has found a free name.
LEMMA InsertProblemKeepsCInv ==
    ASSUME CInv, NEW c \in Creators, InsertProblem(c) PROVE CInv'
<1> DEFINE me == creator[c]
           n == me.number
           p == last_id + 1
<1>1. /\ me.pc = "insert" /\ last_id < MaxProblems
      /\ UNCHANGED <<contents, results, submitted, linked>>
  BY DEF InsertProblem
<1>2. /\ me \in CreatorRecord /\ n \in 1..MaxNumber
      /\ me.victim \notin DOMAIN known[c] /\ DOMAIN known[c] \subseteq 1..last_id
      /\ c \notin disturbed => me.victim = None /\ ~NameTaken(n)
  BY <1>1 DEF CInv, Good, KeepsOld, Alone, CreatorRecord
<1>3. last_id \in Nat /\ p \in Ids
  BY <1>1, CatalogueAssumption DEF CInv, ProblemsOK, Ids
<1>4. CASE NameTaken(n)
  <2> DEFINE next == [me EXCEPT !.pc = "failed"]
  <2>1. Move(c, next) /\ UNCHANGED <<known, problems, last_id>>
    BY <1>1, <1>4 DEF InsertProblem, Goto
  <2>2. next \in CreatorRecord /\ next.pc = "failed" /\ next.victim = me.victim
    BY <1>2 DEF CreatorRecord
  <2>3. UNCHANGED tables
    BY <1>1, <2>1 DEF tables
  <2>4. c \in disturbed
    BY <1>2, <1>4
  <2> HIDE DEF next, me
  <2> QED BY <1>2, <2>1, <2>2, <2>3, <2>4, MovedIsGood
<1>5. CASE ~NameTaken(n)
  <2> DEFINE next == [me EXCEPT !.pc = "link", !.problem = p]
  <2>1. /\ Move(c, next) /\ UNCHANGED known /\ last_id' = p
        /\ problems' = [q \in DOMAIN problems \cup {p} |->
                           IF q = p THEN n ELSE problems[q]]
    BY <1>1, <1>5 DEF InsertProblem
  <2>2. /\ next \in CreatorRecord /\ next.pc = "link" /\ next.victim = me.victim
        /\ next.problem = p
    BY <1>2, <1>3 DEF CreatorRecord
  <2>3. ProblemsOK'
    <3>1. DOMAIN problems' \subseteq 1..p
      BY <1>3, <2>1 DEF CInv, ProblemsOK
    <3>2. problems' \in [DOMAIN problems' -> Names]
      BY <1>2, <2>1 DEF CInv, ProblemsOK, Names
    <3> QED BY <1>3, <2>1, <3>1, <3>2 DEF ProblemsOK, Ids
  <2>4. RowsOK' /\ (linked \subseteq DOMAIN problems)'
    BY <1>1, <2>1 DEF CInv, RowsOK
  <2> HIDE DEF next
  <2>5. creator'[c] = next /\ disturbed \subseteq disturbed' /\ UNCHANGED unlinked
    BY <2>1 DEF Move, CInv
  <2>6. TablesEvolve
    BY <1>1, <1>3, <2>1, <2>5 DEF TablesEvolve
  <2>7. Good(c)'
    <3>1. Linked(c)'
      BY <2>2, <2>5 DEF Linked
    <3>2. KeepsOld(c)'
      BY <1>2, <1>3, <2>1, <2>2, <2>5 DEF KeepsOld
    <3>3. c \notin disturbed' => Alone(c)'
      BY <1>2, <2>1, <2>2, <2>5 DEF Alone, DeletePcs
    <3> QED BY <2>2, <2>5, <3>1, <3>2, <3>3 DEF Good
  <2> QED BY <2>1, <2>3, <2>4, <2>6, <2>7, MoveKeepsCInv
<1> QED BY <1>4, <1>5

LEMMA LinkKeepsCInv ==
    ASSUME CInv, NEW c \in Creators, Link(c) PROVE CInv'
<1> DEFINE me == creator[c]
           p == me.problem
<1>1. me.pc = "link" /\ UNCHANGED <<problems, last_id, contents, results, submitted>>
  BY DEF Link
<1>2. /\ me \in CreatorRecord
      /\ me.victim \notin DOMAIN known[c] /\ DOMAIN known[c] \subseteq 1..last_id
      /\ c \notin disturbed => me.victim = None /\ p \in DOMAIN problems
  BY <1>1 DEF CInv, Good, KeepsOld, Alone
<1>3. CASE p \in DOMAIN problems
  <2> DEFINE next == [me EXCEPT !.pc = "done"]
  <2>1. Move(c, next) /\ UNCHANGED known /\ linked' = linked \cup {p}
    BY <1>1, <1>3 DEF Link, Goto
  <2>2. /\ next \in CreatorRecord /\ next.pc = "done" /\ next.victim = me.victim
        /\ next.problem = p
    BY <1>2 DEF CreatorRecord
  <2> HIDE DEF next
  <2>3. creator'[c] = next /\ disturbed \subseteq disturbed' /\ UNCHANGED unlinked
    BY <2>1 DEF Move, CInv
  <2>4. ProblemsOK' /\ RowsOK' /\ (linked \subseteq DOMAIN problems)'
    BY <1>1, <1>3, <2>1 DEF CInv, ProblemsOK, RowsOK
  <2>5. TablesEvolve
    BY <1>1, <2>1, <2>3 DEF TablesEvolve, CInv, ProblemsOK
  <2>6. Good(c)'
    <3>1. Linked(c)' /\ KeepsOld(c)'
      BY <1>1, <1>2, <2>1, <2>2, <2>3 DEF Linked, KeepsOld
    <3>2. c \notin disturbed' => Alone(c)'
      BY <1>2, <2>2, <2>3 DEF Alone, DeletePcs
    <3> QED BY <2>2, <2>3, <3>1, <3>2 DEF Good
  <2> QED BY <2>1, <2>4, <2>5, <2>6, MoveKeepsCInv
<1>4. CASE p \notin DOMAIN problems
  <2> DEFINE next == [me EXCEPT !.pc = "failed"]
  <2>1. Move(c, next) /\ UNCHANGED <<known, linked>>
    BY <1>1, <1>4 DEF Link, Goto
  <2>2. next \in CreatorRecord /\ next.pc = "failed" /\ next.victim = me.victim
    BY <1>2 DEF CreatorRecord
  <2>3. UNCHANGED tables
    BY <1>1, <2>1 DEF tables
  <2> HIDE DEF next, me
  <2> QED BY <1>2, <1>4, <2>1, <2>2, <2>3, MovedIsGood
<1> QED BY <1>3, <1>4

LEMMA HandlerDroppedKeepsCInv ==
    ASSUME CInv, NEW c \in Creators, HandlerDropped(c) PROVE CInv'
<1> DEFINE next == [creator[c] EXCEPT !.pc = "dropped"]
<1>1. Move(c, next) /\ UNCHANGED known /\ UNCHANGED tables
  BY DEF HandlerDropped, Goto
<1>2. /\ creator[c] \in CreatorRecord /\ creator[c].victim \notin DOMAIN known[c]
      /\ c \notin disturbed => creator[c].victim = None
  BY DEF CInv, Good, KeepsOld, Alone
<1>3. next \in CreatorRecord /\ next.pc = "dropped" /\ next.victim = creator[c].victim
  BY <1>2 DEF CreatorRecord
<1> HIDE DEF next
<1> QED BY <1>1, <1>2, <1>3, MovedIsGood DEF DeletePcs

-----------------------------------------------------------------------------
\* Renaming gives a name that is no number; nothing else an administrator or a
\* user does touches the problems.
LEMMA AdministratorsKeepCInv ==
    ASSUME CInv, NEW p \in DOMAIN problems,
           Rename(p) \/ UploadTests(p) \/ Submit(p) \/ RemoveFromContest(p)
    PROVE  CInv'
<1>0. p \in Ids /\ last_id \in Nat
  BY CatalogueAssumption DEF CInv, ProblemsOK, Ids
<1>1. CASE Rename(p)
  <2>1. PICK name \in GivenNames : problems' = [problems EXCEPT ![p] = name]
    BY <1>1 DEF Rename
  <2>2. ProblemsOK'
    BY <1>1, <2>1 DEF Rename, CInv, ProblemsOK, Names
  <2>3. RowsOK' /\ (linked \subseteq DOMAIN problems)'
    BY <1>1, <2>1 DEF Rename, CInv, RowsOK
  <2>4. TablesEvolve
    BY <1>0, <1>1, <2>1 DEF Rename, TablesEvolve, CInv, ProblemsOK
  <2> QED BY <1>1, <2>2, <2>3, <2>4, ElsewhereKeepsCInv DEF Rename
<1>2. ASSUME UploadTests(p) \/ Submit(p) \/ RemoveFromContest(p) PROVE CInv'
  <2>1. RowsOK'
    BY <1>0, <1>2 DEF UploadTests, Submit, RemoveFromContest, CInv, RowsOK
  <2>2. ProblemsOK' /\ (linked \subseteq DOMAIN problems)'
    BY <1>2 DEF UploadTests, Submit, RemoveFromContest, CInv, ProblemsOK
  <2>3. TablesEvolve
    BY <1>0, <1>2 DEF UploadTests, Submit, RemoveFromContest, TablesEvolve
  <2>4. Elsewhere
    BY <1>2 DEF UploadTests, Submit, RemoveFromContest
  <2> QED BY <2>1, <2>2, <2>3, <2>4, ElsewhereKeepsCInv
<1> QED BY <1>1, <1>2

LEMMA CInvHolds == Spec => []CInv
<1>1. CInv /\ [Next]_vars => CInv'
  <2> SUFFICES ASSUME CInv, [Next]_vars PROVE CInv'
    OBVIOUS
  <2>1. ASSUME NEW c \in Creators, Start(c) \/ CreatorStep(c) \/ HandlerDropped(c)
        PROVE  CInv'
    BY <2>1, StartKeepsCInv, ProbeKeepsCInv, LookupKeepsCInv,
       DeleteSubtaskTestsKeepsCInv, DeleteSubtasksKeepsCInv, DeleteTestsKeepsCInv,
       DeleteProblemKeepsCInv, InsertProblemKeepsCInv, LinkKeepsCInv,
       HandlerDroppedKeepsCInv
    DEF CreatorStep
  <2>2. ASSUME NEW p \in DOMAIN problems,
               Rename(p) \/ UploadTests(p) \/ Submit(p) \/ RemoveFromContest(p)
        PROVE  CInv'
    BY <2>2, AdministratorsKeepCInv
  <2>3. CASE UNCHANGED vars
    BY <2>3 DEF vars, tables, history, CInv, ProblemsOK, RowsOK, Good, Linked,
                KeepsOld, Alone, KnownTaken, NameTaken
  <2> QED BY <2>1, <2>2, <2>3 DEF Next, AllAnswered
<1> QED BY CInvInit, <1>1, PTL DEF Spec

-----------------------------------------------------------------------------
(***************************************************************************)
(* Types of the tables and of each create_new_problem: ids come from the   *)
(* sequence, names are a number or were given, numbers stay in range.      *)
(***************************************************************************)
THEOREM CatalogueTypesHold == Spec => []TypeOK
BY CInvHolds, CInvImpliesTypes, PTL

(***************************************************************************)
(* add_problem_override never removes a problem that existed when its      *)
(* request started, whatever other requests do in between.                 *)
(***************************************************************************)
THEOREM OldProblemsStay == Spec => []OldProblemsAreKept
<1>1. CInv => OldProblemsAreKept
  BY DEF CInv, Good, KeepsOld, OldProblemsAreKept
<1> QED BY CInvHolds, <1>1, PTL

(***************************************************************************)
(* The problem of an answered request stays in its contest until an        *)
(* administrator takes it out, and a contest links to existing problems.   *)
(***************************************************************************)
THEOREM CreatedProblemsStay == Spec => []CreatedProblemStays
<1>1. CInv => CreatedProblemStays
  BY DEF CInv, Good, Linked, CreatedProblemStays
<1> QED BY CInvHolds, <1>1, PTL

(***************************************************************************)
(* A request that runs alone removes nothing, and fails only when every    *)
(* "Problem n" is taken.                                                   *)
(***************************************************************************)
THEOREM UndisturbedCreationSucceeds == Spec => []UndisturbedCreation
<1>1. CInv => UndisturbedCreation
  BY DEF CInv, Good, Alone, KnownTaken, UndisturbedCreation
<1> QED BY CInvHolds, <1>1, PTL
=============================================================================
