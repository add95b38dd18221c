---------------------------- MODULE AccountsProofs ----------------------------
(***************************************************************************)
(* Theorems about accounts, sessions, participants and the start of the    *)
(* server, for every number of requests, users, tokens, contests and       *)
(* restarts.                                                               *)
(***************************************************************************)
EXTENDS Accounts, TLAPS

LoginPcs == {"get_user_from_username", "select_password", "add_token"}

DeletionPcs ==
    {"delete_all_tokens_for_user", "remove_user_from_all_contests", "delete_row"}

ChangePcs == {"get_all_users", "visit", "insert", "delete"}

Args == Logins \cup NewUsers \cup UserIds \cup Forms \cup {None}

ProcRecord ==
    [op : {"none", "login", "logout", "create_user", "delete_user",
           "modify_participants", Main},
     pc : {"idle", "start", "up", "done", "failed", "is_user_admin",
           "remove_token", "add_user", "check_contest"}
             \cup LoginPcs \cup DeletionPcs \cup ChangePcs,
     arg : Args, token : TokenIds \cup {None}, user : UserIds \cup {None},
     found : UserIds \cup {None}, todo : SUBSET UserIds,
     at : UserIds \cup {None}, clean : BOOLEAN]

-----------------------------------------------------------------------------
(***************************************************************************)
(* The inductive invariant.  Beyond TypeOK and SessionShowedPassword:      *)
(* local variables fit the statement that comes next; a login that is past *)
(* its password holds an id of the past, so that a user added later cannot *)
(* have it; and requests run only while the server is up, which leaves an  *)
(* id for each start of the server.                                        *)
(***************************************************************************)
GoodProc(p, r) ==
    /\ r \in ProcRecord
    /\ p = Main => r.pc \in {"start", "add_user", "up", "failed"} \cup DeletionPcs
    /\ r.pc = "is_user_admin" =>
          /\ r.op = "login" => r.arg \in Logins
          /\ r.op = "create_user" => r.arg \in NewUsers
          /\ r.op = "delete_user" => r.arg \in UserIds
    /\ r.pc \in LoginPcs => r.arg \in Logins
    /\ r.pc = "add_user" /\ p # Main => r.arg \in NewUsers
    /\ r.pc \in DeletionPcs => r.found \in UserIds
    /\ r.pc \in ChangePcs => r.arg.contest \in Contests
    /\ r.pc \in {"insert", "delete"} => r.at \in UserIds

ProcOK ==
    /\ proc \in [Procs -> ProcRecord]
    /\ \A p \in Procs : GoodProc(p, proc[p])

\* What a login knows of its user, when these are the rows and the last id.
Knows(r, rows, last) ==
    /\ r.pc \in {"select_password", "add_token"} => r.found \in 1..last
    /\ r.pc = "add_token" /\ r.found \in DOMAIN rows =>
           rows[r.found].password = r.arg.password

LoginsOK == \A p \in Procs : Knows(proc[p], users, last_user)

UsersOK ==
    /\ DOMAIN users \subseteq 1..last_user
    /\ users \in [DOMAIN users -> UserRow]
    /\ \A u, v \in DOMAIN users : users[u].username = users[v].username => u = v

TokensOK ==
    /\ DOMAIN tokens \subseteq 1..last_token
    /\ tokens \in [DOMAIN tokens -> [user_id : DOMAIN users, given : Passwords]]
    /\ last_token \in 0..MaxTokens

ParticipationsOK == participations \subseteq Contests \X DOMAIN users

\* The starts of the server that may still add a user.
StartsLeft ==
    MaxRestarts - restarts + (IF proc[Main].pc \in {"up", "failed"} THEN 0 ELSE 1)

RoomOK ==
    /\ restarts \in 0..MaxRestarts
    /\ last_user \in Nat
    /\ last_user + StartsLeft <= MaxUsers

MainFirst ==
    proc[Main].pc # "up" => \A r \in Requests : proc[r].pc = "idle"

TablesOK ==
    /\ UsersOK
    /\ TokensOK
    /\ ParticipationsOK
    /\ SessionShowedPassword

Inv ==
    /\ TablesOK
    /\ ProcOK
    /\ LoginsOK
    /\ RoomOK
    /\ MainFirst

LEMMA InvImpliesTypeOK == Inv => TypeOK
<1> SUFFICES ASSUME Inv PROVE TypeOK
  OBVIOUS
<1>1. last_user \in 0..MaxUsers
  BY AccountsAssumption DEF Inv, RoomOK, StartsLeft
<1>2. \A p \in Procs : proc[p] \in ProcRecord
  BY DEF Inv, ProcOK
<1> QED
  BY <1>1, <1>2
  DEF Inv, TablesOK, UsersOK, TokensOK, ParticipationsOK, RoomOK, ProcRecord, TypeOK

-----------------------------------------------------------------------------
LEMMA NoRequestIsGood ==
    ASSUME NEW p \in Requests
    PROVE  GoodProc(p, NoRequest) /\ \A rows, last : Knows(NoRequest, rows, last)
BY MainAssumption
DEF GoodProc, NoRequest, ProcRecord, Args, Knows, LoginPcs, DeletionPcs, ChangePcs

LEMMA StartIsGood ==
    ASSUME NEW pc \in {"start", "add_user"}
    PROVE  /\ GoodProc(Main, StartAgain(pc))
           /\ StartAgain(pc).pc = pc
           /\ \A rows, last : Knows(StartAgain(pc), rows, last)
BY DEF GoodProc, StartAgain, NoRequest, ProcRecord, Args, Knows, LoginPcs,
       DeletionPcs, ChangePcs

LEMMA InvInit == Init => Inv
<1> SUFFICES ASSUME Init PROVE Inv
  OBVIOUS
<1>1. TablesOK /\ last_user \in 0..2
  <2>1. CASE users = EmptyTable /\ last_user = 0 /\ tokens = EmptyTable
                /\ last_token = 0 /\ participations = {}
    BY <2>1, AccountsAssumption
    DEF TablesOK, UsersOK, TokensOK, ParticipationsOK, SessionShowedPassword, EmptyTable
  <2>2. ASSUME NEW name \in Usernames \ {Admin}, NEW p \in Passwords, NEW c \in Contests,
               users = [u \in 1..2 |->
                   [username |-> IF u = 1 THEN name ELSE Admin,
                    password |-> p, is_admin |-> u = 1]],
               last_user = 2,
               tokens = [t \in {1} |-> [user_id |-> 1, given |-> p]],
               last_token = 1, participations = {<<c, 2>>}
        PROVE  TablesOK /\ last_user \in 0..2
    <3>1. DOMAIN users = 1..2 /\ \A u \in 1..2 : users[u] \in UserRow /\ users[u].password = p
      BY <2>2, AccountsAssumption DEF UserRow
    <3>2. users[1].username # users[2].username
      BY <2>2
    <3>3. UsersOK
      BY <2>2, <3>1, <3>2 DEF UsersOK
    <3>4. TokensOK /\ ParticipationsOK
      BY <2>2, <3>1, AccountsAssumption DEF TokensOK, ParticipationsOK
    <3>5. SessionShowedPassword
      BY <2>2, <3>1 DEF SessionShowedPassword
    <3> QED BY <2>2, <3>3, <3>4, <3>5 DEF TablesOK
  <2> QED BY <2>1, <2>2 DEF Init
<1>2. \A p \in Procs : /\ GoodProc(p, proc[p])
                       /\ Knows(proc[p], users, last_user)
                       /\ p # Main => proc[p].pc = "idle"
                       /\ p = Main => proc[p].pc = "start"
  BY NoRequestIsGood, StartIsGood DEF Init, Procs, NoRequest
<1>3. ProcOK /\ LoginsOK /\ MainFirst
  BY <1>2, MainAssumption DEF Init, ProcOK, LoginsOK, MainFirst, GoodProc, Procs
<1>4. RoomOK
  BY <1>1, <1>2, AccountsAssumption DEF Init, RoomOK, StartsLeft, Procs
<1> QED BY <1>1, <1>3, <1>4 DEF Inv

-----------------------------------------------------------------------------
(***************************************************************************)
(* What the steps have in common: process p moves on, others lose at most  *)
(* their mark, and users who were there keep their passwords or go.        *)
(***************************************************************************)
Acts(p) ==
    IF p = Main THEN proc[Main].pc \notin {"up", "failed"}
                ELSE proc[Main].pc = "up"

UsersGrow ==
    /\ last_user' \in Nat
    /\ last_user <= last_user'
    /\ \A u \in 1..last_user : u \in DOMAIN users' =>
           u \in DOMAIN users /\ users'[u].password = users[u].password

LEMMA RequestActs ==
    ASSUME Inv, NEW r \in Requests, proc[r].pc # "idle"
    PROVE  Acts(r) /\ r # Main
BY MainAssumption DEF Inv, MainFirst, Acts

LEMMA MarkChanges ==
    ASSUME NEW q, NEW r, GoodProc(q, r), NEW s, s = [r EXCEPT !.clean = FALSE]
    PROVE  GoodProc(q, s) /\ s.pc = r.pc /\ s.found = r.found /\ s.arg = r.arg
<1>1. r \in ProcRecord
  BY DEF GoodProc
<1>2. /\ s \in ProcRecord
      /\ s.pc = r.pc /\ s.op = r.op /\ s.arg = r.arg
      /\ s.found = r.found /\ s.at = r.at
  BY <1>1 DEF ProcRecord
<1> QED BY <1>2 DEF GoodProc

LEMMA MoveOthers ==
    ASSUME Inv, NEW p \in Procs, NEW next, NEW D, Move(p, next, D),
           GoodProc(p, next)
    PROVE  /\ ProcOK'
           /\ proc'[p] = next
           /\ \A q \in Procs \ {p} :
                 /\ proc'[q].pc = proc[q].pc
                 /\ proc'[q].found = proc[q].found
                 /\ proc'[q].arg = proc[q].arg
<1>1. /\ DOMAIN proc' = Procs
      /\ proc' = [q \in Procs |-> proc'[q]]
      /\ proc'[p] = next
  BY DEF Move
<1>2. ASSUME NEW q \in Procs \ {p}
      PROVE  /\ GoodProc(q, proc'[q])
             /\ proc'[q].pc = proc[q].pc
             /\ proc'[q].found = proc[q].found
             /\ proc'[q].arg = proc[q].arg
  <2>1. proc[q] \in ProcRecord /\ GoodProc(q, proc[q])
    BY DEF Inv, ProcOK
  <2>2. proc'[q] = proc[q] \/ proc'[q] = [proc[q] EXCEPT !.clean = FALSE]
    BY DEF Move
  <2>3. CASE proc'[q] = [proc[q] EXCEPT !.clean = FALSE]
    BY <2>1, <2>3, MarkChanges
  <2> QED BY <2>1, <2>2, <2>3
<1>3. \A q \in Procs : GoodProc(q, proc'[q])
  BY <1>1, <1>2
<1>4. \A q \in Procs : proc'[q] \in ProcRecord
  BY <1>3 DEF GoodProc
<1>5. ProcOK'
  BY <1>1, <1>3, <1>4 DEF ProcOK, GoodProc
<1> QED BY <1>1, <1>2, <1>5

LEMMA StepKeepsInv ==
    ASSUME Inv, NEW p \in Procs, NEW next, NEW D, Move(p, next, D),
           GoodProc(p, next), Knows(next, users', last_user'), Acts(p),
           TablesOK', UsersGrow, restarts' = restarts,
           \/ last_user' = last_user
           \/ p # Main /\ last_user' + MaxRestarts - restarts <= MaxUsers
           \/ p = Main /\ next.pc \in {"up", "failed"} /\ last_user' = last_user + 1
    PROVE  Inv'
<1>1. /\ ProcOK'
      /\ proc'[p] = next
      /\ \A q \in Procs \ {p} : /\ proc'[q].pc = proc[q].pc
                                /\ proc'[q].found = proc[q].found
                                /\ proc'[q].arg = proc[q].arg
  BY MoveOthers
<1>2. LoginsOK'
  <2> SUFFICES ASSUME NEW q \in Procs PROVE Knows(proc'[q], users', last_user')
    BY DEF LoginsOK
  <2>1. CASE q = p
    BY <1>1, <2>1
  <2>2. CASE q # p
    <3>1. Knows(proc[q], users, last_user) /\ last_user \in Nat
      BY DEF Inv, LoginsOK, RoomOK
    <3> QED BY <1>1, <2>2, <3>1 DEF Knows, UsersGrow
  <2> QED BY <2>1, <2>2
<1>3. MainFirst'
  <2>1. CASE p = Main
    BY <1>1, <2>1, MainAssumption DEF Inv, MainFirst, Acts, Procs
  <2>2. CASE p # Main
    BY <1>1, <2>2 DEF MainFirst, Acts, Procs
  <2> QED BY <2>1, <2>2
<1>4. RoomOK'
  <2>1. Main \in Procs
    BY DEF Procs
  <2>2. CASE p = Main
    BY <1>1, <2>1, <2>2, AccountsAssumption
    DEF Inv, RoomOK, StartsLeft, Acts, UsersGrow
  <2>3. CASE p # Main
    BY <1>1, <2>1, <2>3, AccountsAssumption
    DEF Inv, RoomOK, StartsLeft, Acts, UsersGrow
  <2> QED BY <2>2, <2>3
<1> QED BY <1>1, <1>2, <1>3, <1>4 DEF Inv

\* A step that leaves the database alone.
LEMMA ReadStep ==
    ASSUME Inv, NEW p \in Procs, NEW next, NEW D, Move(p, next, D),
           GoodProc(p, next), Knows(next, users, last_user), Acts(p),
           UNCHANGED <<database, restarts>>
    PROVE  Inv'
<1>1. TablesOK'
  BY DEF Inv, TablesOK, UsersOK, TokensOK, ParticipationsOK,
         SessionShowedPassword, database
<1>2. UsersGrow
  BY DEF Inv, RoomOK, UsersGrow, database
<1> QED BY <1>1, <1>2, StepKeepsInv DEF database

\* What GoodProc asks of a request at each kind of statement.
LEMMA GoodRequest ==
    ASSUME NEW p \in Requests, NEW r, r \in ProcRecord,
           \/ r.pc \in {"failed", "done", "remove_token", "check_contest"}
           \/ r.pc \in LoginPcs /\ r.arg \in Logins
           \/ r.pc = "add_user" /\ r.arg \in NewUsers
           \/ r.pc \in DeletionPcs /\ r.found \in UserIds
           \/ /\ r.pc \in ChangePcs
              /\ r.arg.contest \in Contests
              /\ r.pc \in {"insert", "delete"} => r.at \in UserIds
    PROVE  GoodProc(p, r)
<1>1. p # Main
  BY MainAssumption
<1>2. CASE r.pc \in {"failed", "done", "remove_token", "check_contest"}
  BY <1>1, <1>2 DEF GoodProc, LoginPcs, DeletionPcs, ChangePcs
<1>3. CASE r.pc \in LoginPcs /\ r.arg \in Logins
  BY <1>1, <1>3 DEF GoodProc, LoginPcs, DeletionPcs, ChangePcs
<1>4. CASE r.pc = "add_user" /\ r.arg \in NewUsers
  BY <1>1, <1>4 DEF GoodProc, LoginPcs, DeletionPcs, ChangePcs
<1>5. CASE r.pc \in DeletionPcs /\ r.found \in UserIds
  BY <1>1, <1>5 DEF GoodProc, LoginPcs, DeletionPcs, ChangePcs
<1>6. CASE /\ r.pc \in ChangePcs
           /\ r.arg.contest \in Contests
           /\ r.pc \in {"insert", "delete"} => r.at \in UserIds
  BY <1>1, <1>6 DEF GoodProc, LoginPcs, DeletionPcs, ChangePcs
<1> QED BY <1>2, <1>3, <1>4, <1>5, <1>6

\* A statement of p returns an error.
LEMMA FailedIsGood ==
    ASSUME Inv, NEW p \in Procs, NEW next,
           next = [NoRequest EXCEPT !.pc = "failed", !.clean = proc[p].clean]
    PROVE  /\ GoodProc(p, next)
           /\ next.pc = "failed"
           /\ \A rows, last : Knows(next, rows, last)
<1>1. proc[p].clean \in BOOLEAN
  BY DEF Inv, ProcOK, ProcRecord
<1>2. NoRequest \in ProcRecord
  BY DEF NoRequest, ProcRecord, Args
<1>3. next \in ProcRecord
  BY <1>1, <1>2 DEF ProcRecord
<1>4. next.pc = "failed"
  BY <1>2 DEF ProcRecord
<1>5. GoodProc(p, next)
  BY <1>3, <1>4 DEF GoodProc, LoginPcs, DeletionPcs, ChangePcs
<1> QED BY <1>4, <1>5 DEF Knows

LEMMA FailStep ==
    ASSUME Inv, NEW p \in Procs, Acts(p), Fail(p), UNCHANGED <<database, restarts>>
    PROVE  Inv'
BY FailedIsGood, ReadStep DEF Fail

-----------------------------------------------------------------------------
(***************************************************************************)
(* The router.                                                             *)
(***************************************************************************)
LEMMA DispatchIsGood ==
    ASSUME NEW p \in Requests, NEW me, GoodProc(p, me), me.pc = "is_user_admin",
           NEW is_admin
    PROVE  /\ GoodProc(p, Dispatch(me, is_admin))
           /\ \A rows, last : Knows(Dispatch(me, is_admin), rows, last)
<1> DEFINE next == [me EXCEPT !.token = None, !.user = None]
<1>0. p # Main /\ me \in ProcRecord /\ next \in ProcRecord
  BY MainAssumption DEF GoodProc, ProcRecord
<1> DEFINE At(r, pc) == r.pc = pc /\ r \in ProcRecord /\ r.arg = me.arg
<1>1. CASE me.op = "login"
  <2> DEFINE d == [next EXCEPT !.pc = "get_user_from_username"]
  <2>1. At(d, "get_user_from_username") /\ d.arg \in Logins
    BY <1>0, <1>1 DEF GoodProc, ProcRecord, LoginPcs
  <2>2. Dispatch(me, is_admin) = d
    BY <1>1 DEF Dispatch
  <2> HIDE DEF d
  <2> QED BY <2>1, <2>2, GoodRequest DEF Knows, LoginPcs
<1>2. CASE me.op = "logout" /\ me.user # None
  <2> DEFINE d == [next EXCEPT !.pc = "remove_token", !.token = me.token]
  <2>1. At(d, "remove_token")
    BY <1>0 DEF ProcRecord
  <2>2. Dispatch(me, is_admin) = d
    BY <1>2 DEF Dispatch
  <2> HIDE DEF d
  <2> QED BY <2>1, <2>2, GoodRequest DEF Knows
<1>3. CASE me.op = "modify_participants" /\ me.user # None
  <2> DEFINE d == [me EXCEPT !.pc = "check_contest"]
  <2>1. At(d, "check_contest")
    BY <1>0 DEF ProcRecord
  <2>2. Dispatch(me, is_admin) = d
    BY <1>3 DEF Dispatch
  <2> HIDE DEF d
  <2> QED BY <2>1, <2>2, GoodRequest DEF Knows
<1>4. CASE me.op = "create_user" /\ is_admin
  <2> DEFINE d == [next EXCEPT !.pc = "add_user"]
  <2>1. At(d, "add_user") /\ d.arg \in NewUsers
    BY <1>0, <1>4 DEF GoodProc, ProcRecord
  <2>2. Dispatch(me, is_admin) = d
    BY <1>4 DEF Dispatch
  <2> HIDE DEF d
  <2> QED BY <2>1, <2>2, GoodRequest DEF Knows
<1>5. CASE me.op = "delete_user" /\ is_admin
  <2> DEFINE d == [next EXCEPT !.pc = "delete_all_tokens_for_user",
                               !.arg = None, !.found = me.arg]
  <2>1. me.arg \in UserIds
    BY <1>5 DEF GoodProc
  <2>2. /\ d.pc = "delete_all_tokens_for_user" /\ d \in ProcRecord
        /\ d.found \in UserIds
    BY <1>0, <2>1 DEF ProcRecord, Args, DeletionPcs
  <2>3. Dispatch(me, is_admin) = d
    BY <1>5 DEF Dispatch
  <2> HIDE DEF d
  <2> QED BY <2>2, <2>3, GoodRequest DEF Knows, DeletionPcs
<1>6. CASE /\ me.op # "login"
           /\ ~(me.op = "logout" /\ me.user # None)
           /\ ~(me.op = "modify_participants" /\ me.user # None)
           /\ ~(me.op = "create_user" /\ is_admin)
           /\ ~(me.op = "delete_user" /\ is_admin)
  BY <1>6, NoRequestIsGood DEF Dispatch
<1> QED BY <1>1, <1>2, <1>3, <1>4, <1>5, <1>6

LEMMA RouterSteps ==
    ASSUME Inv, NEW r \in Requests,
           Arrive(r) \/ IsUserAdmin(r) \/ Answered(r) \/ HandlerDropped(r)
    PROVE  Inv'
<1>0. r \in Procs /\ r # Main
  BY MainAssumption DEF Procs
<1>1. CASE Arrive(r)
  <2>1. PICK o \in Operations, t \in (1..last_token) \cup {None} :
           LET user == IF t \in DOMAIN tokens THEN tokens[t].user_id ELSE None
               me == [NoRequest EXCEPT !.op = o.op, !.arg = o.arg, !.token = t,
                                       !.user = user, !.pc = "is_user_admin"]
           IN  Move(r, IF user = None THEN Dispatch(me, FALSE) ELSE me, {})
    BY <1>1 DEF Arrive
  <2> DEFINE user == IF t \in DOMAIN tokens THEN tokens[t].user_id ELSE None
             me == [NoRequest EXCEPT !.op = o.op, !.arg = o.arg, !.token = t,
                                     !.user = user, !.pc = "is_user_admin"]
  <2>2. user \in UserIds \cup {None}
    BY AccountsAssumption
    DEF Inv, TablesOK, TokensOK, UsersOK, RoomOK, StartsLeft, UserIds
  <2>3. t \in TokenIds \cup {None}
    BY AccountsAssumption DEF Inv, TablesOK, TokensOK, TokenIds
  <2> HIDE DEF user
  <2>4. /\ o.op \in {"login", "logout", "create_user", "delete_user", "modify_participants"}
        /\ o.op = "login" => o.arg \in Logins
        /\ o.op = "create_user" => o.arg \in NewUsers
        /\ o.op = "delete_user" => o.arg \in UserIds
        /\ o.arg \in Args
    BY DEF Operations, Args
  <2>5. NoRequest \in ProcRecord
    BY DEF NoRequest, ProcRecord, Args
  <2>6. /\ me \in ProcRecord /\ me.pc = "is_user_admin"
        /\ me.op = o.op /\ me.arg = o.arg
    BY <2>2, <2>3, <2>4, <2>5, ZenonT(60) DEF ProcRecord
  <2>7. GoodProc(r, me)
    BY <1>0, <2>4, <2>6, ZenonT(30) DEF GoodProc, LoginPcs, DeletionPcs, ChangePcs
  <2>8. Knows(me, users, last_user) /\ me.pc = "is_user_admin"
    BY <2>6 DEF Knows
  <2>9. Acts(r)
    BY <1>0, <1>1 DEF Arrive, Acts
  <2>10. UNCHANGED <<database, restarts>>
    BY <1>1 DEF Arrive
  <2>11. Move(r, IF user = None THEN Dispatch(me, FALSE) ELSE me, {})
    BY <2>1 DEF user
  <2> HIDE DEF me
  <2>12. CASE user = None
    BY <1>0, <2>7, <2>8, <2>9, <2>10, <2>11, <2>12, DispatchIsGood, ReadStep
  <2>13. CASE user # None
    BY <1>0, <2>7, <2>8, <2>9, <2>10, <2>11, <2>13, ReadStep
  <2> QED BY <2>12, <2>13
<1>2. CASE IsUserAdmin(r)
  <2>1. Acts(r)
    BY <1>2, RequestActs DEF IsUserAdmin
  <2>2. GoodProc(r, proc[r])
    BY <1>0 DEF Inv, ProcOK
  <2>3. CASE proc[r].user \in DOMAIN users
    BY <1>0, <1>2, <2>1, <2>2, <2>3, DispatchIsGood, ReadStep DEF IsUserAdmin
  <2>4. CASE proc[r].user \notin DOMAIN users
    BY <1>0, <1>2, <2>1, <2>4, FailStep DEF IsUserAdmin
  <2> QED BY <2>3, <2>4
<1>3. CASE Answered(r)
  <2>1. Acts(r)
    BY <1>3, RequestActs DEF Answered
  <2> QED BY <1>0, <1>3, <2>1, NoRequestIsGood, ReadStep DEF Answered, Answer
<1>4. CASE HandlerDropped(r)
  <2>1. Acts(r)
    BY <1>4, RequestActs DEF HandlerDropped, Running
  <2> QED BY <1>0, <1>4, <2>1, NoRequestIsGood, ReadStep DEF HandlerDropped, Answer
<1> QED BY <1>1, <1>2, <1>3, <1>4

-----------------------------------------------------------------------------
(***************************************************************************)
(* Login and logout.                                                       *)
(***************************************************************************)
LEMMA ProcIsGood ==
    ASSUME Inv, NEW p \in Procs
    PROVE  /\ GoodProc(p, proc[p]) /\ proc[p] \in ProcRecord
           /\ Knows(proc[p], users, last_user)
           /\ proc[p].pc \in LoginPcs => proc[p].arg \in Logins
           /\ proc[p].pc \in DeletionPcs => proc[p].found \in UserIds
           /\ proc[p].pc \in ChangePcs => proc[p].arg.contest \in Contests
           /\ proc[p].pc \in {"insert", "delete"} => proc[p].at \in UserIds
BY DEF Inv, ProcOK, LoginsOK, GoodProc

LEMMA IdsFit ==
    ASSUME Inv
    PROVE  DOMAIN users \subseteq UserIds /\ last_user \in 0..MaxUsers
BY AccountsAssumption
DEF Inv, TablesOK, UsersOK, RoomOK, StartsLeft, UserIds

LEMMA GoesOn ==
    ASSUME NEW me \in ProcRecord, NEW s,
           NEW pc \in LoginPcs \cup DeletionPcs \cup ChangePcs \cup {"up", "done", "add_user"},
           s = [me EXCEPT !.pc = pc]
    PROVE  /\ s \in ProcRecord /\ s.pc = pc
           /\ s.arg = me.arg /\ s.found = me.found /\ s.at = me.at
BY DEF ProcRecord

LEMMA LoginSteps ==
    ASSUME Inv, NEW r \in Requests,
           GetUserFromUsername(r) \/ VerifyPassword(r) \/ AddToken(r) \/ RemoveToken(r)
    PROVE  Inv'
<1>0. r \in Procs /\ Acts(r)
  BY RequestActs
  DEF Procs, GetUserFromUsername, VerifyPassword, AddToken, RemoveToken
<1> DEFINE me == proc[r]
<1>1. GoodProc(r, me) /\ me \in ProcRecord /\ Knows(me, users, last_user)
  BY <1>0, ProcIsGood
<1>2. me.pc \in LoginPcs => me.arg \in Logins
  BY <1>0, ProcIsGood
<1>3. GoodProc(r, NoRequest) /\ \A rows, last : Knows(NoRequest, rows, last)
  BY NoRequestIsGood
<1>4. CASE GetUserFromUsername(r)
  <2>1. UNCHANGED <<database, restarts>> /\ me.arg \in Logins
    BY <1>2, <1>4 DEF GetUserFromUsername, LoginPcs
  <2>2. CASE Answer(r, {})
    BY <1>0, <1>3, <2>1, <2>2, ReadStep DEF Answer
  <2>3. ASSUME NEW u \in DOMAIN users,
               Move(r, [me EXCEPT !.found = u, !.pc = "select_password"], {})
        PROVE  Inv'
    <3> DEFINE next == [me EXCEPT !.found = u, !.pc = "select_password"]
    <3>1. u \in UserIds /\ u \in 1..last_user
      BY IdsFit DEF Inv, TablesOK, UsersOK
    <3>2. /\ next \in ProcRecord /\ next.pc = "select_password"
          /\ next.found = u /\ next.arg \in Logins
      BY <1>1, <2>1, <3>1 DEF ProcRecord, LoginPcs
    <3>3. Move(r, next, {})
      BY <2>3
    <3> HIDE DEF next
    <3>4. GoodProc(r, next) /\ Knows(next, users, last_user)
      BY <3>1, <3>2, GoodRequest DEF Knows, LoginPcs
    <3> QED BY <1>0, <2>1, <3>3, <3>4, ReadStep
  <2> QED BY <1>4, <2>2, <2>3 DEF GetUserFromUsername, UserNamed
<1>5. CASE VerifyPassword(r)
  <2>1. UNCHANGED <<database, restarts>> /\ me.arg \in Logins /\ me.pc = "select_password"
    BY <1>2, <1>5 DEF VerifyPassword, LoginPcs
  <2>2. CASE Answer(r, {})
    BY <1>0, <1>3, <2>1, <2>2, ReadStep DEF Answer
  <2>3. CASE Fail(r)
    BY <1>0, <2>1, <2>3, FailStep
  <2>4. CASE users[me.found].password = me.arg.password /\ Goto(r, "add_token")
    <3> DEFINE next == [me EXCEPT !.pc = "add_token"]
    <3>1. /\ next \in ProcRecord /\ next.pc = "add_token"
          /\ next.found = me.found /\ next.arg = me.arg
      BY <1>1, GoesOn DEF LoginPcs
    <3>2. Move(r, next, {})
      BY <2>4 DEF Goto
    <3> HIDE DEF next
    <3>3. GoodProc(r, next)
      BY <2>1, <3>1, GoodRequest DEF LoginPcs
    <3>4. Knows(next, users, last_user)
      BY <1>1, <2>1, <2>4, <3>1 DEF Knows
    <3> QED BY <1>0, <2>1, <3>2, <3>3, <3>4, ReadStep
  <2> QED BY <1>5, <2>2, <2>3, <2>4 DEF VerifyPassword
<1>6. CASE AddToken(r)
  <2> DEFINE u == me.found
             t == last_token + 1
  <2>1. /\ UNCHANGED <<users, last_user, participations, restarts>>
        /\ me.arg \in Logins /\ me.pc = "add_token"
    BY <1>2, <1>6 DEF AddToken, LoginPcs
  <2>2. CASE Fail(r) /\ UNCHANGED <<tokens, last_token>>
    BY <1>0, <2>1, <2>2, FailStep DEF database
  <2>3. ASSUME u \in DOMAIN users, t \in TokenIds, last_token' = t, NEW D,
               tokens' = InsertRow(tokens, t, [user_id |-> u, given |-> me.arg.password]),
               Answer(r, D)
        PROVE  Inv'
    <3>1. /\ users[u].password = me.arg.password
          /\ me.arg.password \in Passwords
      BY <1>1, <2>1, <2>3, AccountsAssumption DEF Knows
    <3>2. TokensOK'
      BY <2>1, <2>3, <3>1, AccountsAssumption
      DEF Inv, TablesOK, TokensOK, InsertRow, TokenIds
    <3>3. SessionShowedPassword'
      BY <2>1, <2>3, <3>1 DEF Inv, TablesOK, SessionShowedPassword, InsertRow
    <3>4. TablesOK' /\ UsersGrow
      BY <2>1, <3>2, <3>3
      DEF Inv, TablesOK, UsersOK, ParticipationsOK, RoomOK, UsersGrow
    <3>5. Move(r, NoRequest, D)
      BY <2>3 DEF Answer
    <3> QED BY <1>0, <1>3, <2>1, <3>4, <3>5, StepKeepsInv
  <2> QED BY <1>6, <2>2, <2>3 DEF AddToken, Holder
<1>7. CASE RemoveToken(r)
  <2>1. /\ UNCHANGED <<users, last_user, last_token, participations, restarts>>
        /\ Move(r, NoRequest, {})
        /\ tokens' = DeleteRows(tokens, {me.token})
    BY <1>7 DEF RemoveToken, Answer
  <2>2. TablesOK' /\ UsersGrow
    BY <2>1 DEF Inv, TablesOK, UsersOK, TokensOK, ParticipationsOK, RoomOK,
                SessionShowedPassword, DeleteRows, UsersGrow
  <2> QED BY <1>0, <1>3, <2>1, <2>2, StepKeepsInv
<1> QED BY <1>4, <1>5, <1>6, <1>7

-----------------------------------------------------------------------------
(***************************************************************************)
(* add_user and delete_user, whoever calls them.                           *)
(***************************************************************************)
LEMMA RunServerIsGood ==
    ASSUME NEW r, r \in ProcRecord,
           \/ r.pc \in {"start", "add_user", "up", "failed"}
           \/ r.pc \in DeletionPcs /\ r.found \in UserIds
    PROVE  GoodProc(Main, r)
BY DEF GoodProc, LoginPcs, DeletionPcs, ChangePcs

LEMMA AddUserStep ==
    ASSUME Inv, NEW p \in Procs, AddUser(p)
    PROVE  Inv'
<1> DEFINE me == proc[p]
<1>0. GoodProc(p, me) /\ me \in ProcRecord /\ me.pc = "add_user"
  BY ProcIsGood DEF AddUser
<1>1. Acts(p)
  BY <1>0, RequestActs DEF Acts, Procs
<1>2. /\ UNCHANGED <<tokens, last_token, participations, restarts>>
      /\ last_user' = last_user + 1
      /\ p \in Requests => last_user + MaxRestarts - restarts < MaxUsers
  BY DEF AddUser
<1>3. PICK password \in Passwords :
         LET row == NewUser(p, password)
         IN  IF UserNamed(row.username) = {}
             THEN /\ users' = InsertRow(users, last_user', row)
                  /\ IF p = Main THEN Goto(p, "up") ELSE Answer(p, {})
             ELSE Fail(p) /\ UNCHANGED users
  BY DEF AddUser
<1> DEFINE row == NewUser(p, password)
<1>4. row \in UserRow
  <2>1. CASE p = Main
    BY <2>1, AccountsAssumption DEF NewUser, UserRow
  <2>2. CASE p # Main
    BY <1>0, <2>2, AccountsAssumption DEF NewUser, GoodProc
  <2> QED BY <2>1, <2>2
<1>5. last_user \in Nat
  BY DEF Inv, RoomOK
<1> HIDE DEF row
<1>6. TablesOK' /\ UsersGrow
  <2>1. CASE UNCHANGED users
    BY <1>2, <1>5, <2>1
    DEF Inv, TablesOK, UsersOK, TokensOK, ParticipationsOK,
        SessionShowedPassword, UsersGrow
  <2>2. CASE UserNamed(row.username) = {} /\ users' = InsertRow(users, last_user', row)
    <3>1. /\ last_user' \notin DOMAIN users
          /\ DOMAIN users' = DOMAIN users \cup {last_user'}
          /\ \A u \in DOMAIN users : users'[u] = users[u]
          /\ users'[last_user'] = row
      BY <1>2, <1>5, <2>2 DEF Inv, TablesOK, UsersOK, InsertRow
    <3>2. \A u \in DOMAIN users : users[u].username # row.username
      BY <2>2 DEF UserNamed
    <3>3. \A u, v \in DOMAIN users' : users'[u].username = users'[v].username => u = v
      BY <3>1, <3>2 DEF Inv, TablesOK, UsersOK
    <3>4. users' \in [DOMAIN users' -> UserRow]
      BY <1>4, <2>2, <3>1 DEF Inv, TablesOK, UsersOK, InsertRow
    <3>5. UsersOK'
      BY <1>2, <1>5, <3>1, <3>3, <3>4 DEF Inv, TablesOK, UsersOK
    <3>6. TokensOK' /\ ParticipationsOK' /\ SessionShowedPassword'
      BY <1>2, <3>1
      DEF Inv, TablesOK, TokensOK, ParticipationsOK, SessionShowedPassword
    <3>7. UsersGrow
      BY <1>2, <1>5, <3>1 DEF UsersGrow
    <3> QED BY <3>5, <3>6, <3>7 DEF TablesOK
  <2> QED BY <1>3, <2>1, <2>2 DEF row
<1>7. p \in Requests => last_user' + MaxRestarts - restarts <= MaxUsers
  BY <1>2, <1>5, AccountsAssumption DEF Inv, RoomOK
<1>8. p = Main \/ p \in Requests
  BY DEF Procs
<1>9. CASE p # Main /\ Answer(p, {})
  BY <1>1, <1>2, <1>6, <1>7, <1>8, <1>9, NoRequestIsGood, StepKeepsInv DEF Answer
<1>10. CASE p = Main /\ Goto(p, "up")
  <2> DEFINE next == [me EXCEPT !.pc = "up"]
  <2>1. next \in ProcRecord /\ next.pc = "up"
    BY <1>0, GoesOn
  <2>2. Move(p, next, {})
    BY <1>10 DEF Goto
  <2> HIDE DEF next
  <2>3. GoodProc(p, next) /\ Knows(next, users', last_user')
    BY <1>10, <2>1, RunServerIsGood DEF Knows
  <2> QED BY <1>1, <1>2, <1>6, <1>10, <2>1, <2>2, <2>3, StepKeepsInv
<1>11. CASE Fail(p)
  <2> DEFINE next == [NoRequest EXCEPT !.pc = "failed", !.clean = proc[p].clean]
  <2>1. Move(p, next, {})
    BY <1>11 DEF Fail
  <2>2. /\ GoodProc(p, next) /\ next.pc = "failed"
        /\ Knows(next, users', last_user')
    BY FailedIsGood
  <2> HIDE DEF next
  <2> QED BY <1>1, <1>2, <1>6, <1>7, <1>8, <2>1, <2>2, StepKeepsInv
<1> QED BY <1>3, <1>9, <1>10, <1>11

LEMMA DeletionSteps ==
    ASSUME Inv, NEW p \in Procs, DeletionStep(p)
    PROVE  Inv'
<1> DEFINE me == proc[p]
<1>0. /\ GoodProc(p, me) /\ me \in ProcRecord
      /\ me.pc \in DeletionPcs /\ me.found \in UserIds
  BY ProcIsGood
  DEF DeletionStep, DeleteAllTokensForUser, RemoveUserFromAllContests,
      DeleteUserRow, DeletionPcs
<1>1. Acts(p)
  BY <1>0, RequestActs DEF Acts, Procs, DeletionPcs
<1>2. UNCHANGED <<last_user, restarts>>
  BY DEF DeletionStep, DeleteAllTokensForUser, RemoveUserFromAllContests, DeleteUserRow
<1>3. ASSUME NEW pc \in DeletionPcs, NEW D, Move(p, [me EXCEPT !.pc = pc], D),
             TablesOK', UsersGrow
      PROVE  Inv'
  <2> DEFINE next == [me EXCEPT !.pc = pc]
  <2>1. next \in ProcRecord /\ next.pc = pc /\ next.found = me.found
    BY <1>0, GoesOn
  <2>2. Move(p, next, D)
    BY <1>3
  <2> HIDE DEF next
  <2>3. GoodProc(p, next)
    BY <1>0, <2>1, GoodRequest, RunServerIsGood DEF Procs
  <2>4. Knows(next, users', last_user')
    BY <2>1 DEF Knows, DeletionPcs
  <2> QED BY <1>1, <1>2, <1>3, <2>2, <2>3, <2>4, StepKeepsInv
<1>4. CASE DeleteAllTokensForUser(p)
  <2>1. TablesOK' /\ UsersGrow
    BY <1>4
    DEF DeleteAllTokensForUser, Inv, TablesOK, UsersOK, TokensOK, ParticipationsOK,
        RoomOK, SessionShowedPassword, DeleteRows, UsersGrow
  <2> QED BY <1>3, <1>4, <2>1 DEF DeleteAllTokensForUser, Goto, DeletionPcs
<1>5. CASE RemoveUserFromAllContests(p)
  <2>1. TablesOK' /\ UsersGrow
    BY <1>5
    DEF RemoveUserFromAllContests, Inv, TablesOK, UsersOK, TokensOK,
        ParticipationsOK, RoomOK, SessionShowedPassword, UsersGrow
  <2> QED BY <1>3, <1>5, <2>1 DEF RemoveUserFromAllContests, DeletionPcs
<1>6. CASE DeleteUserRow(p)
  <2> DEFINE u == me.found
  <2>1. UNCHANGED <<last_user, tokens, last_token, participations, restarts>>
    BY <1>6 DEF DeleteUserRow
  <2>2. CASE Fail(p) /\ UNCHANGED users
    BY <1>1, <2>1, <2>2, FailStep DEF database
  <2>3. ASSUME ~Referenced(u), users' = DeleteRows(users, {u}), NEW D,
               Move(p, IF p = Main THEN StartAgain("add_user") ELSE NoRequest, D)
        PROVE  Inv'
    <3>1. /\ DOMAIN users' = DOMAIN users \ {u}
          /\ \A v \in DOMAIN users' : users'[v] = users[v]
      BY <2>3 DEF DeleteRows
    <3>2. UsersOK'
      BY <2>1, <2>3, <3>1 DEF Inv, TablesOK, UsersOK, DeleteRows
    <3>3. /\ \A t \in DOMAIN tokens : tokens[t].user_id \in DOMAIN users'
          /\ \A k \in participations : k[2] # u
      BY <2>3, <3>1
      DEF Inv, TablesOK, TokensOK, Referenced, TokensOf, ContestsOf
    <3>4. TokensOK' /\ SessionShowedPassword'
      BY <2>1, <3>1, <3>3 DEF Inv, TablesOK, TokensOK, SessionShowedPassword
    <3>5. ParticipationsOK'
      BY <2>1, <3>1, <3>3 DEF Inv, TablesOK, ParticipationsOK
    <3>6. TablesOK' /\ UsersGrow
      BY <2>1, <3>1, <3>2, <3>4, <3>5 DEF TablesOK, UsersGrow, Inv, RoomOK
    <3>7. CASE p = Main
      BY <1>1, <2>1, <2>3, <3>6, <3>7, StartIsGood, StepKeepsInv
    <3>8. CASE p # Main
      BY <1>1, <2>1, <2>3, <3>6, <3>8, NoRequestIsGood, StepKeepsInv DEF Procs
    <3> QED BY <3>7, <3>8
  <2> QED BY <1>6, <2>2, <2>3 DEF DeleteUserRow
<1> QED BY <1>4, <1>5, <1>6 DEF DeletionStep

-----------------------------------------------------------------------------
(***************************************************************************)
(* handle_participant_modification.                                        *)
(***************************************************************************)
LEMMA ParticipantSteps ==
    ASSUME Inv, NEW r \in Requests,
           \/ CheckContest(r) \/ GetAllUsers(r) \/ Visit(r)
           \/ InsertParticipation(r) \/ DeleteParticipation(r) \/ AllVisited(r)
    PROVE  Inv'
<1> DEFINE me == proc[r]
<1>0. r \in Procs /\ Acts(r)
  BY RequestActs
  DEF Procs, CheckContest, GetAllUsers, Visit, InsertParticipation,
      DeleteParticipation, AllVisited
<1>1. /\ GoodProc(r, me) /\ me \in ProcRecord
      /\ me.pc \in ChangePcs => me.arg.contest \in Contests
      /\ me.pc \in {"insert", "delete"} => me.at \in UserIds
  BY <1>0, ProcIsGood
<1>2. GoodProc(r, NoRequest) /\ \A rows, last : Knows(NoRequest, rows, last)
  BY NoRequestIsGood
\* The loop goes on with the statement pc.
<1>3. ASSUME NEW next, next \in ProcRecord, next.pc \in ChangePcs,
             next.arg = me.arg, me.arg.contest \in Contests,
             next.pc \in {"insert", "delete"} => next.at \in UserIds
      PROVE  GoodProc(r, next) /\ \A rows, last : Knows(next, rows, last)
  BY <1>3, GoodRequest DEF Knows, ChangePcs
\* After a statement that changed participations.
<1>4. ASSUME NEW D, Move(r, [me EXCEPT !.pc = "visit", !.at = None], D),
             participations' \subseteq Contests \X DOMAIN users, me.pc \in ChangePcs,
             UNCHANGED <<users, last_user, tokens, last_token, restarts>>
      PROVE  Inv'
  <2> DEFINE next == [me EXCEPT !.pc = "visit", !.at = None]
  <2>1. next \in ProcRecord /\ next.pc = "visit" /\ next.arg = me.arg
    BY <1>1 DEF ProcRecord, ChangePcs
  <2>2. Move(r, next, D)
    BY <1>4
  <2> HIDE DEF next
  <2>3. TablesOK' /\ UsersGrow
    BY <1>4 DEF Inv, TablesOK, UsersOK, TokensOK, ParticipationsOK, RoomOK,
                SessionShowedPassword, UsersGrow
  <2>4. GoodProc(r, next) /\ Knows(next, users', last_user')
    BY <1>1, <1>3, <1>4, <2>1 DEF ChangePcs
  <2> QED BY <1>0, <1>4, <2>2, <2>3, <2>4, StepKeepsInv
<1>5. CASE CheckContest(r)
  <2>1. UNCHANGED <<database, restarts>>
    BY <1>5 DEF CheckContest
  <2>2. CASE Answer(r, {})
    BY <1>0, <1>2, <2>1, <2>2, ReadStep DEF Answer
  <2>3. CASE Fail(r)
    BY <1>0, <2>1, <2>3, FailStep
  <2>4. CASE /\ me.arg.contest \in Contests
             /\ Move(r, [me EXCEPT !.token = None, !.user = None,
                                   !.pc = "get_all_users"], {})
    <3> DEFINE next == [me EXCEPT !.token = None, !.user = None, !.pc = "get_all_users"]
    <3>1. next \in ProcRecord /\ next.pc = "get_all_users" /\ next.arg = me.arg
      BY <1>1 DEF ProcRecord, ChangePcs
    <3>2. Move(r, next, {})
      BY <2>4
    <3> HIDE DEF next
    <3>3. GoodProc(r, next) /\ Knows(next, users, last_user)
      BY <1>3, <2>4, <3>1 DEF ChangePcs
    <3> QED BY <1>0, <2>1, <3>2, <3>3, ReadStep
  <2> QED BY <1>5, <2>2, <2>3, <2>4 DEF CheckContest
<1>6. CASE GetAllUsers(r)
  <2> DEFINE todo == DOMAIN users \cap (me.arg.add \cup me.arg.remove)
             next == [me EXCEPT !.pc = "visit", !.todo = todo]
  <2>1. /\ UNCHANGED <<database, restarts>> /\ me.pc = "get_all_users"
        /\ Move(r, next, {})
    BY <1>6 DEF GetAllUsers
  <2>2. todo \subseteq UserIds
    BY IdsFit
  <2> HIDE DEF todo
  <2>3. next \in ProcRecord /\ next.pc = "visit" /\ next.arg = me.arg
    BY <1>1, <2>2 DEF ProcRecord, ChangePcs
  <2> HIDE DEF next
  <2>4. GoodProc(r, next) /\ Knows(next, users, last_user)
    BY <1>1, <1>3, <2>1, <2>3 DEF ChangePcs
  <2> QED BY <1>0, <2>1, <2>4, ReadStep
<1>7. CASE Visit(r)
  <2>1. UNCHANGED <<database, restarts>> /\ me.pc = "visit"
    BY <1>7 DEF Visit
  <2>2. PICK u \in me.todo, pc \in {"visit", "insert", "delete"} :
           Move(r, [me EXCEPT !.pc = pc, !.todo = @ \ {u},
                              !.at = IF pc = "visit" THEN None ELSE u], {})
    BY <1>7 DEF Visit
  <2> DEFINE at == IF pc = "visit" THEN None ELSE u
             todo == me.todo \ {u}
             next == [me EXCEPT !.pc = pc, !.todo = todo, !.at = at]
  <2>3. /\ at \in UserIds \cup {None}
        /\ pc \in {"insert", "delete"} => at \in UserIds
        /\ todo \in SUBSET UserIds
    BY <1>1 DEF ProcRecord
  <2> HIDE DEF at, todo
  <2>4. pc \in ChangePcs
    BY DEF ChangePcs
  <2>5. /\ next \in ProcRecord /\ next.pc = pc /\ next.arg = me.arg
        /\ next.at = at
    BY <1>1, <2>3, <2>4 DEF ProcRecord
  <2>6. Move(r, next, {})
    BY <2>2 DEF at, todo
  <2> HIDE DEF next
  <2>7. GoodProc(r, next) /\ Knows(next, users, last_user)
    BY <1>1, <1>3, <2>1, <2>3, <2>4, <2>5 DEF ChangePcs
  <2> QED BY <1>0, <2>1, <2>6, <2>7, ReadStep
<1>8. CASE InsertParticipation(r)
  <2> DEFINE row == <<me.arg.contest, me.at>>
  <2>1. /\ UNCHANGED <<users, last_user, tokens, last_token, restarts>>
        /\ me.pc = "insert" /\ me.arg.contest \in Contests
    BY <1>1, <1>8 DEF InsertParticipation, ChangePcs
  <2>2. CASE Fail(r) /\ UNCHANGED participations
    BY <1>0, <2>1, <2>2, FailStep DEF database
  <2>3. ASSUME me.at \in DOMAIN users, participations' = participations \cup {row},
               NEW D, Move(r, [me EXCEPT !.pc = "visit", !.at = None], D)
        PROVE  Inv'
    <3>1. participations' \subseteq Contests \X DOMAIN users
      BY <2>1, <2>3 DEF Inv, TablesOK, ParticipationsOK
    <3> QED BY <1>4, <2>1, <2>3, <3>1 DEF ChangePcs
  <2> QED BY <1>8, <2>2, <2>3 DEF InsertParticipation
<1>9. CASE DeleteParticipation(r)
  <2>1. participations' \subseteq Contests \X DOMAIN users
    BY <1>9 DEF DeleteParticipation, Inv, TablesOK, ParticipationsOK
  <2> QED BY <1>4, <1>9, <2>1 DEF DeleteParticipation, ChangePcs
<1>10. CASE AllVisited(r)
  <2> DEFINE next == [me EXCEPT !.pc = "done"]
  <2>1. UNCHANGED <<database, restarts>> /\ Move(r, next, {})
    BY <1>10 DEF AllVisited, Goto
  <2>2. next \in ProcRecord /\ next.pc = "done"
    BY <1>1, GoesOn
  <2> HIDE DEF next
  <2>3. GoodProc(r, next) /\ Knows(next, users, last_user)
    BY <2>2, GoodRequest DEF Knows
  <2> QED BY <1>0, <2>1, <2>3, ReadStep
<1> QED BY <1>5, <1>6, <1>7, <1>8, <1>9, <1>10

-----------------------------------------------------------------------------
(***************************************************************************)
(* The start of the server.                                                *)
(***************************************************************************)
LEMMA SetUpAdminStep ==
    ASSUME Inv, SetUpAdmin
    PROVE  Inv'
<1> DEFINE me == proc[Main]
<1>0. /\ Main \in Procs /\ me.pc = "start"
      /\ UNCHANGED <<database, restarts>>
  BY DEF SetUpAdmin, Procs
<1>1. Acts(Main) /\ me \in ProcRecord
  BY <1>0, ProcIsGood DEF Acts
<1>2. ASSUME NEW pc \in {"up", "add_user"}, Goto(Main, pc)
      PROVE  Inv'
  <2> DEFINE next == [me EXCEPT !.pc = pc]
  <2>1. next \in ProcRecord /\ next.pc = pc
    BY <1>1, GoesOn
  <2>2. Move(Main, next, {})
    BY <1>2 DEF Goto
  <2> HIDE DEF next
  <2>3. GoodProc(Main, next) /\ Knows(next, users, last_user)
    BY <2>1, RunServerIsGood DEF Knows
  <2> QED BY <1>0, <1>1, <2>2, <2>3, ReadStep
<1>3. ASSUME NEW u \in DOMAIN users,
             Move(Main, [me EXCEPT !.found = u,
                                   !.pc = "delete_all_tokens_for_user"], {})
      PROVE  Inv'
  <2> DEFINE next == [me EXCEPT !.found = u, !.pc = "delete_all_tokens_for_user"]
  <2>1. u \in UserIds
    BY IdsFit
  <2>2. /\ next \in ProcRecord /\ next.pc = "delete_all_tokens_for_user"
        /\ next.found = u
    BY <1>1, <2>1 DEF ProcRecord, DeletionPcs
  <2>3. Move(Main, next, {})
    BY <1>3
  <2> HIDE DEF next
  <2>4. GoodProc(Main, next) /\ Knows(next, users, last_user)
    BY <2>1, <2>2, RunServerIsGood DEF Knows, DeletionPcs
  <2> QED BY <1>0, <1>1, <2>3, <2>4, ReadStep
<1> QED BY <1>2, <1>3 DEF SetUpAdmin, UserNamed

LEMMA RestartStep ==
    ASSUME Inv, Restart
    PROVE  Inv'
<1>1. /\ restarts < MaxRestarts /\ restarts' = restarts + 1
      /\ UNCHANGED database
      /\ proc' = [p \in Procs |-> IF p = Main THEN StartAgain("start") ELSE NoRequest]
  BY DEF Restart
<1>2. TablesOK'
  BY <1>1 DEF Inv, TablesOK, UsersOK, TokensOK, ParticipationsOK,
              SessionShowedPassword, database
<1>3. \A p \in Procs : /\ GoodProc(p, proc'[p])
                       /\ Knows(proc'[p], users', last_user')
                       /\ p # Main => proc'[p].pc = "idle"
                       /\ p = Main => proc'[p].pc = "start"
  BY <1>1, NoRequestIsGood, StartIsGood DEF Procs, NoRequest
<1>4. ProcOK' /\ LoginsOK' /\ MainFirst'
  BY <1>1, <1>3, MainAssumption DEF ProcOK, LoginsOK, MainFirst, GoodProc, Procs
<1>5. RoomOK'
  BY <1>1, <1>3, AccountsAssumption DEF Inv, RoomOK, StartsLeft, Procs, database
<1> QED BY <1>2, <1>4, <1>5 DEF Inv

LEMMA InvStep == Inv /\ [Next]_vars => Inv'
<1> SUFFICES ASSUME Inv, [Next]_vars PROVE Inv'
  OBVIOUS
<1>1. ASSUME NEW r \in Requests, Arrive(r) \/ HandlerStep(r) \/ HandlerDropped(r)
      PROVE  Inv'
  <2>1. r \in Procs
    BY DEF Procs
  <2> QED
    BY <1>1, <2>1, RouterSteps, LoginSteps, AddUserStep, DeletionSteps, ParticipantSteps
    DEF HandlerStep
<1>2. CASE StartupStep
  <2>1. Main \in Procs
    BY DEF Procs
  <2> QED BY <1>2, <2>1, SetUpAdminStep, AddUserStep, DeletionSteps DEF StartupStep
<1>3. CASE Restart
  BY <1>3, RestartStep
<1>4. CASE UNCHANGED vars
  BY <1>4
  DEF vars, database, Inv, TablesOK, UsersOK, TokensOK, ParticipationsOK,
      SessionShowedPassword, ProcOK, LoginsOK, RoomOK, StartsLeft, MainFirst
<1> QED BY <1>1, <1>2, <1>3, <1>4 DEF Next

(***************************************************************************)
(* The tables keep their keys and local variables their types, whatever    *)
(* requests, dropped requests and restarts interleave.                     *)
(***************************************************************************)
THEOREM AccountsTypeCorrect == Spec => []TypeOK
<1>1. Inv /\ [Next]_vars => Inv'
  BY InvStep
<1> QED BY InvInit, InvImpliesTypeOK, <1>1, PTL DEF Spec

(***************************************************************************)
(* Whoever holds a token has shown the password of the account it opens.   *)
(***************************************************************************)
THEOREM SessionsAreSound == Spec => []SessionShowedPassword
<1>1. Inv /\ [Next]_vars => Inv'
  BY InvStep
<1>2. Inv => SessionShowedPassword
  BY DEF Inv, TablesOK
<1> QED BY InvInit, <1>1, <1>2, PTL DEF Spec

-----------------------------------------------------------------------------
(***************************************************************************)
(* Errors and participants.  A change of participants goes through the     *)
(* users its form names; a request nobody has disturbed can rely on what   *)
(* it has read; and until run_server is done with the account "admin" no   *)
(* other account has that name.                                            *)
(***************************************************************************)
Named(f) == f.add \cup f.remove

AsForm(f, u, parts) ==
    /\ u \in f.add => <<f.contest, u>> \in parts
    /\ u \in f.remove => <<f.contest, u>> \notin parts

\* What a request has kept of its form, when this is the last id.
KeepsForm(r, last) ==
    /\ r.pc \in {"check_contest", "done"} \cup ChangePcs => r.op = "modify_participants"
    /\ r.op = "modify_participants" => r.arg \in Forms /\ Named(r.arg) \subseteq 1..last
    /\ r.pc = "insert" => r.at \in r.arg.add \ r.todo
    /\ r.pc = "delete" => r.at \in r.arg.remove \ r.todo
    /\ r.pc = "done" => r.todo = {}

\* What an undisturbed request relies on, when these are the tables.
Relies(r, rows, toks, parts) ==
    /\ r.pc \in {"is_user_admin", "check_contest"} => r.user \in DOMAIN rows
    /\ r.pc \in {"select_password", "add_token"} => r.found \in DOMAIN rows
    /\ r.pc \in {"remove_user_from_all_contests", "delete_row"} =>
          \A t \in DOMAIN toks : toks[t].user_id # r.found
    /\ r.pc = "delete_row" => \A k \in parts : k[2] # r.found
    /\ r.pc \in {"visit", "insert", "delete"} => r.todo \subseteq DOMAIN rows
    /\ r.pc \in {"insert", "delete"} => r.at \in DOMAIN rows
    /\ r.pc = "insert" => <<r.arg.contest, r.at>> \notin parts
    /\ r.pc \in {"visit", "insert", "delete", "done"} =>
          \A u \in (DOMAIN rows \cap Named(r.arg)) \ r.todo :
              (u = r.at /\ r.pc \in {"insert", "delete"}) \/ AsForm(r.arg, u, parts)

MainKnows(r, rows) ==
    /\ r.clean
    /\ r.pc = "add_user" => \A u \in DOMAIN rows : rows[u].username # Admin
    /\ r.pc \in DeletionPcs =>
          \A u \in DOMAIN rows : rows[u].username = Admin => u = r.found

CleanInv ==
    /\ \A p \in Procs : KeepsForm(proc[p], last_user)
    /\ \A p \in Procs : proc[p].clean => Relies(proc[p], users, tokens, participations)
    /\ MainKnows(proc[Main], users)

LEMMA NoRequestRelies ==
    /\ NoRequest.clean
    /\ \A last : KeepsForm(NoRequest, last)
    /\ \A rows, toks, parts : Relies(NoRequest, rows, toks, parts)
BY DEF NoRequest, KeepsForm, Relies, ChangePcs

LEMMA StartRelies ==
    ASSUME NEW pc \in {"start", "add_user"}
    PROVE  /\ \A last : KeepsForm(StartAgain(pc), last)
           /\ \A rows, toks, parts : Relies(StartAgain(pc), rows, toks, parts)
           /\ StartAgain(pc).clean /\ StartAgain(pc).pc = pc
BY DEF StartAgain, NoRequest, KeepsForm, Relies, ChangePcs, Main

LEMMA CleanInit == Init => CleanInv
<1> SUFFICES ASSUME Init PROVE CleanInv
  OBVIOUS
<1>1. \A p \in Procs : proc[p] = NoRequest \/ proc[p] = StartAgain("start")
  BY DEF Init
<1>2. proc[Main] = StartAgain("start")
  BY DEF Init, Procs
<1>3. MainKnows(proc[Main], users)
  BY <1>2, StartRelies DEF MainKnows, DeletionPcs
<1> QED BY <1>1, <1>3, NoRequestRelies, StartRelies DEF CleanInv

-----------------------------------------------------------------------------
(***************************************************************************)
(* What the steps have in common.                                          *)
(***************************************************************************)
\* Ids are never given twice.
IdsGoOn == last_user' \in Nat /\ last_user <= last_user'

LEMMA StepKeepsClean ==
    ASSUME Inv, CleanInv, NEW p \in Procs, NEW next, NEW D, Move(p, next, D),
           D \subseteq Requests, Acts(p), IdsGoOn,
           KeepsForm(next, last_user'),
           next.clean => Relies(next, users', tokens', participations'),
           p = Main => MainKnows(next, users'),
           \A q \in Procs \ ({p} \cup D) :
               /\ GoodProc(q, proc[q])
               /\ KeepsForm(proc[q], last_user)
               /\ Relies(proc[q], users, tokens, participations)
               => Relies(proc[q], users', tokens', participations')
    PROVE  CleanInv'
<1>0. last_user \in Nat /\ \A q \in Procs : GoodProc(q, proc[q]) /\ proc[q] \in ProcRecord
  BY DEF Inv, RoomOK, ProcOK
<1>1. proc'[p] = next
  BY DEF Move
<1>2. ASSUME NEW q \in Procs \ {p}
      PROVE  /\ KeepsForm(proc'[q], last_user')
             /\ proc'[q].clean => Relies(proc'[q], users', tokens', participations')
  <2>1. KeepsForm(proc[q], last_user)
    BY DEF CleanInv
  <2>2. CASE q \in D
    <3>1. proc'[q] = [proc[q] EXCEPT !.clean = FALSE]
      BY <2>2 DEF Move
    <3>2. /\ ~proc'[q].clean /\ proc'[q].pc = proc[q].pc /\ proc'[q].op = proc[q].op
          /\ proc'[q].arg = proc[q].arg /\ proc'[q].at = proc[q].at
          /\ proc'[q].todo = proc[q].todo
      BY <1>0, <3>1 DEF ProcRecord
    <3> QED BY <1>0, <2>1, <3>2 DEF KeepsForm, IdsGoOn
  <2>3. CASE q \notin D
    <3>1. proc'[q] = proc[q]
      BY <2>3 DEF Move
    <3>2. KeepsForm(proc'[q], last_user')
      BY <1>0, <2>1, <3>1 DEF KeepsForm, IdsGoOn
    <3>3. proc[q].clean => Relies(proc[q], users', tokens', participations')
      BY <1>0, <2>1, <2>3 DEF CleanInv
    <3> QED BY <3>1, <3>2, <3>3
  <2> QED BY <2>2, <2>3
<1>3. MainKnows(proc[Main], users)'
  <2>1. CASE p = Main
    BY <1>1, <2>1
  <2>2. CASE p # Main
    <3>1. Main \in Procs /\ Main \notin D /\ proc[Main].pc = "up"
      BY <2>2, MainAssumption DEF Acts, Procs
    <3>2. proc'[Main] = proc[Main]
      BY <2>2, <3>1 DEF Move
    <3> QED BY <3>1, <3>2 DEF CleanInv, MainKnows, DeletionPcs
  <2> QED BY <2>1, <2>2
<1> QED BY <1>1, <1>2, <1>3 DEF CleanInv

\* A step that leaves the database alone.
LEMMA ReadKeepsClean ==
    ASSUME Inv, CleanInv, NEW p \in Procs, NEW next, Move(p, next, {}), Acts(p),
           UNCHANGED database, KeepsForm(next, last_user),
           next.clean => Relies(next, users, tokens, participations),
           p = Main => MainKnows(next, users)
    PROVE  CleanInv'
<1>1. UNCHANGED <<users, last_user, tokens, participations>>
  BY DEF database
<1>2. last_user \in Nat /\ {} \subseteq Requests
  BY DEF Inv, RoomOK
<1>3. IdsGoOn
  BY <1>1, <1>2 DEF IdsGoOn
<1>4. \A q \in Procs \ ({p} \cup {}) :
         /\ GoodProc(q, proc[q])
         /\ KeepsForm(proc[q], last_user)
         /\ Relies(proc[q], users, tokens, participations)
         => Relies(proc[q], users', tokens', participations')
  BY <1>1
<1>5. /\ KeepsForm(next, last_user')
      /\ next.clean => Relies(next, users', tokens', participations')
      /\ p = Main => MainKnows(next, users')
  BY <1>1
<1> QED BY <1>2, <1>3, <1>4, <1>5, StepKeepsClean

\* A request that answers and leaves the database alone.
LEMMA AnswerKeepsClean ==
    ASSUME Inv, CleanInv, NEW r \in Requests, Answer(r, {}), UNCHANGED database,
           proc[r].pc # "idle"
    PROVE  CleanInv'
<1>1. r \in Procs /\ r # Main /\ Acts(r)
  BY RequestActs DEF Procs
<1> QED BY <1>1, NoRequestRelies, ReadKeepsClean DEF Answer

LEMMA FailedRelies ==
    ASSUME NEW next, NEW clean, next = [NoRequest EXCEPT !.pc = "failed", !.clean = clean]
    PROVE  /\ \A last : KeepsForm(next, last)
           /\ \A rows, toks, parts : Relies(next, rows, toks, parts)
<1>1. next.pc = "failed" /\ next.op = "none" /\ next.todo = {}
  BY DEF NoRequest
<1> QED BY <1>1 DEF KeepsForm, Relies, ChangePcs

\* A request that ends in an error and leaves the database alone.
LEMMA FailKeepsClean ==
    ASSUME Inv, CleanInv, NEW r \in Requests, Fail(r), UNCHANGED database,
           proc[r].pc # "idle"
    PROVE  CleanInv'
<1> DEFINE next == [NoRequest EXCEPT !.pc = "failed", !.clean = proc[r].clean]
<1>1. r \in Procs /\ r # Main /\ Acts(r)
  BY RequestActs DEF Procs
<1>2. /\ \A last : KeepsForm(next, last)
      /\ \A rows, toks, parts : Relies(next, rows, toks, parts)
  BY FailedRelies
<1>3. Move(r, next, {})
  BY DEF Fail
<1> HIDE DEF next
<1> QED BY <1>1, <1>2, <1>3, ReadKeepsClean

LEMMA ProcIsClean ==
    ASSUME Inv, CleanInv, NEW p \in Procs
    PROVE  /\ proc[p] \in ProcRecord
           /\ KeepsForm(proc[p], last_user)
           /\ proc[p].clean => Relies(proc[p], users, tokens, participations)
BY DEF Inv, ProcOK, CleanInv

-----------------------------------------------------------------------------
(***************************************************************************)
(* The router.                                                             *)
(***************************************************************************)
LEMMA DispatchRelies ==
    ASSUME NEW me, me \in ProcRecord, me.pc = "is_user_admin",
           NEW last, KeepsForm(me, last), NEW rows, NEW toks, NEW parts,
           me.clean /\ me.user # None => me.user \in DOMAIN rows, NEW is_admin
    PROVE  /\ KeepsForm(Dispatch(me, is_admin), last)
           /\ Dispatch(me, is_admin).clean =>
                 Relies(Dispatch(me, is_admin), rows, toks, parts)
<1> DEFINE next == [me EXCEPT !.token = None, !.user = None]
<1>1. CASE me.op = "login"
  <2> DEFINE d == [next EXCEPT !.pc = "get_user_from_username"]
  <2>1. d.pc = "get_user_from_username" /\ d.op = "login"
    BY <1>1 DEF ProcRecord
  <2>2. Dispatch(me, is_admin) = d
    BY <1>1 DEF Dispatch
  <2> HIDE DEF d
  <2> QED BY <2>1, <2>2 DEF KeepsForm, Relies, ChangePcs
<1>2. CASE me.op = "logout" /\ me.user # None
  <2> DEFINE d == [next EXCEPT !.pc = "remove_token", !.token = me.token]
  <2>1. d.pc = "remove_token" /\ d.op = "logout"
    BY <1>2 DEF ProcRecord
  <2>2. Dispatch(me, is_admin) = d
    BY <1>2 DEF Dispatch
  <2> HIDE DEF d
  <2> QED BY <2>1, <2>2 DEF KeepsForm, Relies, ChangePcs
<1>3. CASE me.op = "modify_participants" /\ me.user # None
  <2> DEFINE d == [me EXCEPT !.pc = "check_contest"]
  <2>1. /\ d.pc = "check_contest" /\ d.op = me.op /\ d.arg = me.arg
        /\ d.user = me.user /\ d.clean = me.clean
    BY DEF ProcRecord
  <2>2. Dispatch(me, is_admin) = d
    BY <1>3 DEF Dispatch
  <2> HIDE DEF d
  <2> QED BY <1>3, <2>1, <2>2 DEF KeepsForm, Relies, ChangePcs
<1>4. CASE me.op = "create_user" /\ is_admin
  <2> DEFINE d == [next EXCEPT !.pc = "add_user"]
  <2>1. d.pc = "add_user" /\ d.op = "create_user"
    BY <1>4 DEF ProcRecord
  <2>2. Dispatch(me, is_admin) = d
    BY <1>4 DEF Dispatch
  <2> HIDE DEF d
  <2> QED BY <2>1, <2>2 DEF KeepsForm, Relies, ChangePcs
<1>5. CASE me.op = "delete_user" /\ is_admin
  <2> DEFINE d == [next EXCEPT !.pc = "delete_all_tokens_for_user",
                               !.arg = None, !.found = me.arg]
  <2>1. d.pc = "delete_all_tokens_for_user" /\ d.op = "delete_user"
    BY <1>5 DEF ProcRecord
  <2>2. Dispatch(me, is_admin) = d
    BY <1>5 DEF Dispatch
  <2> HIDE DEF d
  <2> QED BY <2>1, <2>2 DEF KeepsForm, Relies, ChangePcs
<1>6. CASE /\ me.op # "login"
           /\ ~(me.op = "logout" /\ me.user # None)
           /\ ~(me.op = "modify_participants" /\ me.user # None)
           /\ ~(me.op = "create_user" /\ is_admin)
           /\ ~(me.op = "delete_user" /\ is_admin)
  BY <1>6, NoRequestRelies DEF Dispatch
<1> QED BY <1>1, <1>2, <1>3, <1>4, <1>5, <1>6

LEMMA RouterKeepsClean ==
    ASSUME Inv, CleanInv, NEW r \in Requests,
           Arrive(r) \/ IsUserAdmin(r) \/ Answered(r) \/ HandlerDropped(r)
    PROVE  CleanInv'
<1>0. r \in Procs /\ r # Main
  BY MainAssumption DEF Procs
<1>1. CASE Arrive(r)
  <2>1. PICK o \in Operations, t \in (1..last_token) \cup {None} :
           LET user == IF t \in DOMAIN tokens THEN tokens[t].user_id ELSE None
               me == [NoRequest EXCEPT !.op = o.op, !.arg = o.arg, !.token = t,
                                       !.user = user, !.pc = "is_user_admin"]
           IN  /\ o.op = "modify_participants" =>
                      o.arg.add \cup o.arg.remove \subseteq 1..last_user
               /\ Move(r, IF user = None THEN Dispatch(me, FALSE) ELSE me, {})
    BY <1>1 DEF Arrive
  <2> DEFINE user == IF t \in DOMAIN tokens THEN tokens[t].user_id ELSE None
             me == [NoRequest EXCEPT !.op = o.op, !.arg = o.arg, !.token = t,
                                     !.user = user, !.pc = "is_user_admin"]
  <2>2. user # None => user \in DOMAIN users
    BY DEF Inv, TablesOK, TokensOK
  <2>3. user \in UserIds \cup {None} /\ t \in TokenIds \cup {None}
    BY <2>2, IdsFit, AccountsAssumption DEF Inv, TablesOK, TokensOK, TokenIds
  <2> HIDE DEF user
  <2>4. /\ o.op \in {"login", "logout", "create_user", "delete_user", "modify_participants"}
        /\ o.op = "modify_participants" => o.arg \in Forms
        /\ o.arg \in Args
    BY DEF Operations, Args
  <2>5. NoRequest \in ProcRecord
    BY DEF NoRequest, ProcRecord, Args
  <2>6. /\ me \in ProcRecord /\ me.pc = "is_user_admin"
        /\ me.op = o.op /\ me.arg = o.arg /\ me.user = user
    BY <2>3, <2>4, <2>5, ZenonT(60) DEF ProcRecord
  <2>7. o.op = "modify_participants" => Named(o.arg) \subseteq 1..last_user
    BY <2>1 DEF Named
  <2>8. Move(r, IF user = None THEN Dispatch(me, FALSE) ELSE me, {})
    BY <2>1 DEF user
  <2>9. Acts(r) /\ UNCHANGED database
    BY <1>0, <1>1 DEF Arrive, Acts
  <2> HIDE DEF me
  <2>10. KeepsForm(me, last_user)
    BY <2>4, <2>6, <2>7 DEF KeepsForm, ChangePcs
  <2>11. CASE user = None
    BY <1>0, <2>6, <2>8, <2>9, <2>10, <2>11, DispatchRelies, ReadKeepsClean
  <2>12. CASE user # None
    <3>1. Relies(me, users, tokens, participations)
      BY <2>2, <2>6, <2>12 DEF Relies
    <3> QED BY <1>0, <2>8, <2>9, <2>10, <2>12, <3>1, ReadKeepsClean
  <2> QED BY <2>11, <2>12
<1>2. CASE IsUserAdmin(r)
  <2>1. Acts(r) /\ UNCHANGED database /\ proc[r].pc = "is_user_admin"
    BY <1>2, RequestActs DEF IsUserAdmin
  <2>2. CASE proc[r].user \in DOMAIN users
    <3>1. Move(r, Dispatch(proc[r], users[proc[r].user].is_admin), {})
      BY <1>2, <2>2 DEF IsUserAdmin
    <3> QED BY <1>0, <2>1, <2>2, <3>1, ProcIsClean, DispatchRelies, ReadKeepsClean
  <2>3. CASE proc[r].user \notin DOMAIN users
    BY <1>2, <2>1, <2>3, FailKeepsClean DEF IsUserAdmin
  <2> QED BY <2>2, <2>3
<1>3. CASE Answered(r) \/ HandlerDropped(r)
  <2>1. Answer(r, {}) /\ UNCHANGED database /\ proc[r].pc # "idle"
    BY <1>3 DEF Answered, HandlerDropped, Running
  <2> QED BY <2>1, AnswerKeepsClean
<1> QED BY <1>1, <1>2, <1>3

-----------------------------------------------------------------------------
(***************************************************************************)
(* Login and logout.                                                       *)
(***************************************************************************)
LEMMA LoginKeepsClean ==
    ASSUME Inv, CleanInv, NEW r \in Requests,
           GetUserFromUsername(r) \/ VerifyPassword(r) \/ AddToken(r) \/ RemoveToken(r)
    PROVE  CleanInv'
<1> DEFINE me == proc[r]
<1>0. r \in Procs /\ r # Main /\ Acts(r) /\ proc[Main].pc = "up"
  BY RequestActs, MainAssumption
  DEF Procs, GetUserFromUsername, VerifyPassword, AddToken, RemoveToken, Acts
<1>1. /\ me \in ProcRecord /\ KeepsForm(me, last_user)
      /\ me.clean => Relies(me, users, tokens, participations)
  BY <1>0, ProcIsClean
<1>2. CASE GetUserFromUsername(r)
  <2>1. UNCHANGED database /\ me.pc = "get_user_from_username"
    BY <1>2 DEF GetUserFromUsername
  <2>2. CASE Answer(r, {})
    BY <2>1, <2>2, AnswerKeepsClean
  <2>3. ASSUME NEW u \in DOMAIN users,
               Move(r, [me EXCEPT !.found = u, !.pc = "select_password"], {})
        PROVE  CleanInv'
    <3> DEFINE next == [me EXCEPT !.found = u, !.pc = "select_password"]
    <3>1. /\ next.pc = "select_password" /\ next.found = u
          /\ next.op = me.op /\ next.arg = me.arg
      BY <1>1 DEF ProcRecord
    <3>2. Move(r, next, {})
      BY <2>3
    <3> HIDE DEF next
    <3>3. KeepsForm(next, last_user) /\ Relies(next, users, tokens, participations)
      BY <1>1, <2>1, <3>1 DEF KeepsForm, Relies, ChangePcs
    <3> QED BY <1>0, <2>1, <3>2, <3>3, ReadKeepsClean
  <2> QED BY <1>2, <2>2, <2>3 DEF GetUserFromUsername, UserNamed
<1>3. CASE VerifyPassword(r)
  <2>1. UNCHANGED database /\ me.pc = "select_password"
    BY <1>3 DEF VerifyPassword
  <2>2. CASE Answer(r, {})
    BY <2>1, <2>2, AnswerKeepsClean
  <2>3. CASE me.found \notin DOMAIN users /\ Fail(r)
    BY <2>1, <2>3, FailKeepsClean
  <2>4. CASE me.found \in DOMAIN users /\ Goto(r, "add_token")
    <3> DEFINE next == [me EXCEPT !.pc = "add_token"]
    <3>1. /\ next.pc = "add_token" /\ next.found = me.found
          /\ next.op = me.op /\ next.arg = me.arg
      BY <1>1 DEF ProcRecord
    <3>2. Move(r, next, {})
      BY <2>4 DEF Goto
    <3> HIDE DEF next
    <3>3. KeepsForm(next, last_user) /\ Relies(next, users, tokens, participations)
      BY <1>1, <2>1, <2>4, <3>1 DEF KeepsForm, Relies, ChangePcs
    <3> QED BY <1>0, <2>1, <3>2, <3>3, ReadKeepsClean
  <2> QED BY <1>3, <2>2, <2>3, <2>4 DEF VerifyPassword
<1>4. CASE AddToken(r)
  <2> DEFINE u == me.found
             t == last_token + 1
             D == Deleting(u, {"remove_user_from_all_contests", "delete_row"})
  <2>1. UNCHANGED <<users, last_user, participations>> /\ me.pc = "add_token"
    BY <1>4 DEF AddToken
  <2>2. CASE u \notin DOMAIN users /\ Fail(r) /\ UNCHANGED <<tokens, last_token>>
    BY <2>1, <2>2, FailKeepsClean DEF database
  <2>3. CASE /\ tokens' = InsertRow(tokens, t, [user_id |-> u, given |-> me.arg.password])
             /\ Answer(r, D)
    <3>1. \A k \in DOMAIN tokens' :
             tokens'[k].user_id = u \/ (k \in DOMAIN tokens /\ tokens'[k] = tokens[k])
      BY <2>3 DEF InsertRow
    <3>2. ASSUME NEW q \in Procs \ ({r} \cup D), Relies(proc[q], users, tokens, participations)
          PROVE  Relies(proc[q], users', tokens', participations')
      <4>1. proc[q].pc \in {"remove_user_from_all_contests", "delete_row"} => proc[q].found # u
        BY <1>0 DEF Deleting, Procs
      <4> QED BY <2>1, <3>1, <3>2, <4>1 DEF Relies
    <3>3. D \subseteq Requests
      BY DEF Deleting
    <3>4. Move(r, NoRequest, D) /\ IdsGoOn
      BY <2>1, <2>3 DEF Answer, Inv, RoomOK, IdsGoOn
    <3> HIDE DEF D
    <3> QED BY <1>0, <3>2, <3>3, <3>4, NoRequestRelies, StepKeepsClean
  <2> QED BY <1>4, <2>2, <2>3 DEF AddToken, Holder
<1>5. CASE RemoveToken(r)
  <2>1. /\ UNCHANGED <<users, last_user, participations>>
        /\ Move(r, NoRequest, {})
        /\ tokens' = DeleteRows(tokens, {me.token})
        /\ IdsGoOn
    BY <1>5 DEF RemoveToken, Answer, Inv, RoomOK, IdsGoOn
  <2>2. \A k \in DOMAIN tokens' : k \in DOMAIN tokens /\ tokens'[k] = tokens[k]
    BY <2>1 DEF DeleteRows
  <2>3. ASSUME NEW q \in Procs, Relies(proc[q], users, tokens, participations)
        PROVE  Relies(proc[q], users', tokens', participations')
    BY <2>1, <2>2, <2>3 DEF Relies
  <2>4. {} \subseteq Requests
    OBVIOUS
  <2> QED BY <1>0, <2>1, <2>3, <2>4, NoRequestRelies, StepKeepsClean
<1> QED BY <1>2, <1>3, <1>4, <1>5

-----------------------------------------------------------------------------
(***************************************************************************)
(* add_user and delete_user, whoever calls them.                           *)
(***************************************************************************)
LEMMA AddUserKeepsClean ==
    ASSUME Inv, CleanInv, NEW p \in Procs, AddUser(p) PROVE CleanInv'
<1> DEFINE me == proc[p]
<1>0. /\ me \in ProcRecord /\ me.pc = "add_user" /\ KeepsForm(me, last_user)
      /\ last_user \in Nat
  BY ProcIsClean DEF AddUser, Inv, RoomOK
<1>1. Acts(p)
  BY <1>0, RequestActs DEF Acts, Procs
<1>2. UNCHANGED <<tokens, participations>> /\ last_user' = last_user + 1
  BY DEF AddUser
<1>3. PICK password \in Passwords :
         LET row == NewUser(p, password)
         IN  IF UserNamed(row.username) = {}
             THEN /\ users' = InsertRow(users, last_user', row)
                  /\ IF p = Main THEN Goto(p, "up") ELSE Answer(p, {})
             ELSE Fail(p) /\ UNCHANGED users
  BY DEF AddUser
<1>4. /\ DOMAIN users \subseteq DOMAIN users'
      /\ DOMAIN users' \subseteq DOMAIN users \cup {last_user'}
  BY <1>3 DEF InsertRow
<1>5. ASSUME NEW q \in Procs, KeepsForm(proc[q], last_user), GoodProc(q, proc[q]),
             Relies(proc[q], users, tokens, participations)
      PROVE  Relies(proc[q], users', tokens', participations')
  <2>1. proc[q].pc \in {"visit", "insert", "delete", "done"} =>
           last_user' \notin Named(proc[q].arg)
    BY <1>0, <1>2, <1>5 DEF KeepsForm, ChangePcs
  <2> QED BY <1>2, <1>4, <1>5, <2>1 DEF Relies
<1>6. {} \subseteq Requests /\ IdsGoOn
  BY <1>0, <1>2 DEF IdsGoOn
<1>7. CASE p # Main /\ Answer(p, {})
  <2>1. Move(p, NoRequest, {})
    BY <1>7 DEF Answer
  <2> QED BY <1>1, <1>5, <1>6, <1>7, <2>1, NoRequestRelies, StepKeepsClean
<1>8. CASE p = Main
  <2>1. NewUser(p, password).username = Admin
    BY <1>8 DEF NewUser
  <2>2. UserNamed(Admin) = {}
    BY <1>0, <1>8 DEF CleanInv, MainKnows, UserNamed
  <2> DEFINE next == [me EXCEPT !.pc = "up"]
  <2>3. Move(p, next, {})
    BY <1>3, <1>8, <2>1, <2>2 DEF Goto
  <2>4. next.pc = "up" /\ next.op = me.op /\ next.arg = me.arg /\ next.clean = me.clean
    BY <1>0 DEF ProcRecord
  <2> HIDE DEF next
  <2>5. KeepsForm(next, last_user') /\ Relies(next, users', tokens', participations')
    BY <1>0, <1>2, <2>4 DEF KeepsForm, Relies, ChangePcs
  <2>6. MainKnows(next, users')
    BY <1>8, <2>4 DEF CleanInv, MainKnows, DeletionPcs
  <2> QED BY <1>1, <1>5, <1>6, <2>3, <2>5, <2>6, StepKeepsClean
<1>9. CASE p # Main /\ Fail(p)
  <2> DEFINE next == [NoRequest EXCEPT !.pc = "failed", !.clean = proc[p].clean]
  <2>1. /\ \A last : KeepsForm(next, last)
        /\ \A rows, toks, parts : Relies(next, rows, toks, parts)
    BY FailedRelies
  <2>2. Move(p, next, {})
    BY <1>9 DEF Fail
  <2> HIDE DEF next
  <2> QED BY <1>1, <1>5, <1>6, <1>9, <2>1, <2>2, StepKeepsClean
<1> QED BY <1>3, <1>7, <1>8, <1>9

LEMMA DeletionKeepsClean ==
    ASSUME Inv, CleanInv, NEW p \in Procs, DeletionStep(p) PROVE CleanInv'
<1> DEFINE me == proc[p]
           u == me.found
<1>0. /\ me \in ProcRecord /\ KeepsForm(me, last_user) /\ last_user \in Nat
      /\ me.clean => Relies(me, users, tokens, participations)
      /\ me.pc \in DeletionPcs
      /\ p = Main => MainKnows(me, users)
  BY ProcIsClean
  DEF Inv, RoomOK, CleanInv, DeletionStep, DeleteAllTokensForUser,
      RemoveUserFromAllContests, DeleteUserRow, DeletionPcs
<1>1. Acts(p)
  BY <1>0, RequestActs DEF Acts, Procs, DeletionPcs
<1>2. last_user' = last_user /\ IdsGoOn
  BY <1>0 DEF DeletionStep, DeleteAllTokensForUser, RemoveUserFromAllContests,
              DeleteUserRow, IdsGoOn
<1>3. ASSUME NEW pc \in DeletionPcs, NEW D, Move(p, [me EXCEPT !.pc = pc], D),
             D \subseteq Requests, users' = users,
             pc \in {"remove_user_from_all_contests", "delete_row"} /\ me.clean =>
                \A t \in DOMAIN tokens' : tokens'[t].user_id # u,
             pc = "delete_row" => \A k \in participations' : k[2] # u,
             \A q \in Procs \ ({p} \cup D) :
               /\ GoodProc(q, proc[q])
               /\ KeepsForm(proc[q], last_user)
               /\ Relies(proc[q], users, tokens, participations)
               => Relies(proc[q], users', tokens', participations')
      PROVE  CleanInv'
  <2> DEFINE next == [me EXCEPT !.pc = pc]
  <2>1. /\ next.pc = pc /\ next.found = u /\ next.clean = me.clean
        /\ next.op = me.op /\ next.arg = me.arg
    BY <1>0 DEF ProcRecord
  <2>2. Move(p, next, D)
    BY <1>3
  <2> HIDE DEF next
  <2>3. KeepsForm(next, last_user')
    BY <1>0, <1>2, <2>1 DEF KeepsForm, ChangePcs, DeletionPcs
  <2>4. next.clean => Relies(next, users', tokens', participations')
    BY <1>3, <2>1 DEF Relies, DeletionPcs
  <2>5. p = Main => MainKnows(next, users')
    BY <1>0, <1>3, <2>1 DEF MainKnows, DeletionPcs
  <2> QED BY <1>1, <1>2, <1>3, <2>2, <2>3, <2>4, <2>5, StepKeepsClean
<1>4. CASE DeleteAllTokensForUser(p)
  <2>1. /\ UNCHANGED <<users, participations>>
        /\ tokens' = DeleteRows(tokens, TokensOf(u))
        /\ Move(p, [me EXCEPT !.pc = "remove_user_from_all_contests"], {})
    BY <1>4 DEF DeleteAllTokensForUser, Goto
  <2>2. \A k \in DOMAIN tokens' : /\ k \in DOMAIN tokens /\ tokens'[k] = tokens[k]
                                 /\ tokens'[k].user_id # u
    BY <2>1 DEF DeleteRows, TokensOf
  <2>3. ASSUME NEW q \in Procs, Relies(proc[q], users, tokens, participations)
        PROVE  Relies(proc[q], users', tokens', participations')
    BY <2>1, <2>2, <2>3 DEF Relies
  <2>4. {} \subseteq Requests /\ "remove_user_from_all_contests" \in DeletionPcs
    BY DEF DeletionPcs
  <2> QED BY <1>3, <2>1, <2>2, <2>3, <2>4
<1>5. CASE RemoveUserFromAllContests(p)
  <2> DEFINE D == UNION {Setting(k[1], u) : k \in ContestsOf(u)}
  <2>1. /\ UNCHANGED <<users, tokens>> /\ me.pc = "remove_user_from_all_contests"
        /\ participations' = participations \ ContestsOf(u)
        /\ Move(p, [me EXCEPT !.pc = "delete_row"], D)
    BY <1>5 DEF RemoveUserFromAllContests
  <2>2. D \subseteq Requests /\ "delete_row" \in DeletionPcs
    BY DEF Setting, DeletionPcs
  <2>3. \A k \in participations' : k \in participations /\ k[2] # u
    BY <2>1 DEF ContestsOf
  <2>4. ASSUME NEW q \in Procs \ ({p} \cup D), GoodProc(q, proc[q]),
               KeepsForm(proc[q], last_user), Relies(proc[q], users, tokens, participations)
        PROVE  Relies(proc[q], users', tokens', participations')
    <3> DEFINE r == proc[q]
               c == r.arg.contest
    <3>1. ASSUME r.pc \in {"visit", "insert", "delete", "done"},
                 NEW v \in (DOMAIN users \cap Named(r.arg)) \ r.todo,
                 <<c, v>> \in participations
          PROVE  <<c, v>> \in participations'
      <4>1. q \in Requests /\ r.op = "modify_participants"
        BY <2>4, <3>1, MainAssumption DEF GoodProc, DeletionPcs, Procs, KeepsForm, ChangePcs
      <4>2. CASE v = u
        <5>1. <<c, v>> \in ContestsOf(u) /\ <<c, v>>[1] = c
          BY <3>1, <4>2 DEF ContestsOf
        <5>2. q \in Setting(c, u)
          BY <3>1, <4>1, <4>2 DEF Setting, Named
        <5>3. q \in D
          BY <5>1, <5>2
        <5> QED BY <5>3
      <4>3. CASE v # u
        BY <2>1, <3>1, <4>3 DEF ContestsOf
      <4> QED BY <4>2, <4>3
    <3>2. r.pc \in {"visit", "insert", "delete", "done"} =>
             \A v \in (DOMAIN users \cap Named(r.arg)) \ r.todo :
                 AsForm(r.arg, v, participations) => AsForm(r.arg, v, participations')
      BY <2>3, <3>1 DEF AsForm
    <3> QED BY <2>1, <2>3, <2>4, <3>2 DEF Relies
  <2>5. me.clean => \A t \in DOMAIN tokens' : tokens'[t].user_id # u
    BY <1>0, <2>1 DEF Relies
  <2> HIDE DEF D
  <2> QED BY <1>3, <2>1, <2>2, <2>3, <2>4, <2>5
<1>6. CASE DeleteUserRow(p)
  <2>1. UNCHANGED <<tokens, participations, last_token>> /\ me.pc = "delete_row"
    BY <1>6 DEF DeleteUserRow
  <2>2. CASE Referenced(u)
    <3>1. Fail(p) /\ UNCHANGED users
      BY <1>6, <2>2 DEF DeleteUserRow
    <3>2. ~me.clean
      BY <1>0, <2>1, <2>2 DEF Relies, Referenced, TokensOf, ContestsOf
    <3>3. p \in Requests
      BY <1>0, <3>2 DEF MainKnows, Procs
    <3> QED BY <1>2, <2>1, <3>1, <3>2, <3>3, FailKeepsClean DEF database
  <2>3. CASE ~Referenced(u)
    <3> DEFINE D == Relying(u)
               next == IF p = Main THEN StartAgain("add_user") ELSE NoRequest
    <3>1. users' = DeleteRows(users, {u}) /\ Move(p, next, D)
      BY <1>6, <2>3 DEF DeleteUserRow
    <3>2. DOMAIN users' = DOMAIN users \ {u} /\ \A v \in DOMAIN users' : users'[v] = users[v]
      BY <3>1 DEF DeleteRows
    <3>3. D \subseteq Requests
      BY DEF Relying
    <3>4. ASSUME NEW q \in Procs \ ({p} \cup D), GoodProc(q, proc[q]),
                 Relies(proc[q], users, tokens, participations)
          PROVE  Relies(proc[q], users', tokens', participations')
      <4>1. CASE q = Main
        BY <2>1, <3>4, <4>1 DEF GoodProc, DeletionPcs, Relies
      <4>2. CASE q # Main
        <5>1. /\ ~(proc[q].user = u /\ proc[q].pc \in {"is_user_admin", "check_contest"})
              /\ ~(proc[q].found = u /\ proc[q].pc \in {"select_password", "add_token"})
              /\ u \notin proc[q].todo /\ u # proc[q].at
          BY <3>4, <4>2 DEF Relying, Procs
        <5> QED BY <2>1, <3>2, <3>4, <5>1 DEF Relies
      <4> QED BY <4>1, <4>2
    <3>5. /\ KeepsForm(next, last_user')
          /\ Relies(next, users', tokens', participations')
      BY NoRequestRelies, StartRelies
    <3>6. p = Main => MainKnows(next, users')
      BY <1>0, <3>2, StartRelies DEF MainKnows, DeletionPcs
    <3> HIDE DEF D, next
    <3> QED BY <1>1, <1>2, <3>1, <3>3, <3>4, <3>5, <3>6, StepKeepsClean
  <2> QED BY <2>2, <2>3
<1> QED BY <1>4, <1>5, <1>6 DEF DeletionStep

-----------------------------------------------------------------------------
(***************************************************************************)
(* handle_participant_modification.                                        *)
(***************************************************************************)
\* A request may set or remove the participation <<c, u>>: other changes that
\* have not been told keep what they rely on.
LEMMA ChangeKeepsOthers ==
    ASSUME Inv, NEW c, NEW u, NEW q \in Procs, q \notin Setting(c, u),
           GoodProc(q, proc[q]), KeepsForm(proc[q], last_user),
           Relies(proc[q], users, tokens, participations),
           UNCHANGED <<users, tokens>>,
           \A k : k # <<c, u>> => (k \in participations' <=> k \in participations),
           proc[q].pc = "delete_row" =>
              \A k \in participations' : k[2] # proc[q].found
    PROVE  Relies(proc[q], users', tokens', participations')
<1> DEFINE r == proc[q]
<1>1. ASSUME r.pc \in {"visit", "insert", "delete", "done"},
             NEW v \in Named(r.arg) \ r.todo
      PROVE  <<r.arg.contest, v>> \in participations' <=> <<r.arg.contest, v>> \in participations
  <2>1. q \in Requests /\ r.op = "modify_participants"
    BY <1>1, MainAssumption DEF GoodProc, DeletionPcs, Procs, KeepsForm, ChangePcs
  <2>2. ~(r.arg.contest = c /\ v = u)
    BY <1>1, <2>1 DEF Setting, Named
  <2> QED BY <2>2
<1>2. r.pc = "insert" => r.at \in Named(r.arg) \ r.todo
  BY DEF KeepsForm, Named
<1>3. r.pc \in {"visit", "insert", "delete", "done"} =>
         \A v \in (DOMAIN users \cap Named(r.arg)) \ r.todo :
             AsForm(r.arg, v, participations) => AsForm(r.arg, v, participations')
  BY <1>1 DEF AsForm
<1>4. r.pc = "insert" => <<r.arg.contest, r.at>> \notin participations'
  BY <1>1, <1>2 DEF Relies
<1> QED BY <1>3, <1>4 DEF Relies

LEMMA ParticipantsKeepClean ==
    ASSUME Inv, CleanInv, NEW r \in Requests,
           \/ CheckContest(r) \/ GetAllUsers(r) \/ Visit(r)
           \/ InsertParticipation(r) \/ DeleteParticipation(r) \/ AllVisited(r)
    PROVE  CleanInv'
<1> DEFINE me == proc[r]
           c == me.arg.contest
<1>0. r \in Procs /\ r # Main /\ Acts(r) /\ last_user \in Nat
  BY RequestActs
  DEF Procs, CheckContest, GetAllUsers, Visit, InsertParticipation,
      DeleteParticipation, AllVisited, Inv, RoomOK
<1>1. /\ me \in ProcRecord /\ KeepsForm(me, last_user)
      /\ me.clean => Relies(me, users, tokens, participations)
  BY <1>0, ProcIsClean
<1>2. me.pc \in {"check_contest"} \cup ChangePcs =>
         /\ me.op = "modify_participants" /\ me.arg \in Forms
         /\ Named(me.arg) \subseteq 1..last_user
         /\ me.arg.add \cap me.arg.remove = {}
  BY <1>1, AccountsAssumption DEF KeepsForm
\* After a statement that may have changed the participation of `at`.
<1>3. ASSUME NEW D, Move(r, [me EXCEPT !.pc = "visit", !.at = None], D),
             D \subseteq Requests, me.pc \in {"insert", "delete"},
             UNCHANGED <<users, tokens, last_user>>,
             Setting(c, me.at) \subseteq D,
             \A k : k # <<c, me.at>> => (k \in participations' <=> k \in participations),
             AsForm(me.arg, me.at, participations'),
             \A q \in Procs \ D : proc[q].pc = "delete_row" /\ q # r
                 /\ (\A k \in participations : k[2] # proc[q].found) =>
                    \A k \in participations' : k[2] # proc[q].found
      PROVE  CleanInv'
  <2> DEFINE next == [me EXCEPT !.pc = "visit", !.at = None]
  <2>1. /\ next.pc = "visit" /\ next.op = me.op /\ next.arg = me.arg
        /\ next.todo = me.todo /\ next.clean = me.clean
    BY <1>1 DEF ProcRecord
  <2>2. Move(r, next, D) /\ IdsGoOn
    BY <1>0, <1>3 DEF IdsGoOn
  <2> HIDE DEF next
  <2>3. me.pc \in ChangePcs
    BY <1>3 DEF ChangePcs
  <2>4. KeepsForm(next, last_user')
    BY <1>2, <1>3, <2>1, <2>3 DEF KeepsForm
  <2>5. next.clean => Relies(next, users', tokens', participations')
    <3> SUFFICES ASSUME me.clean, Relies(me, users, tokens, participations),
                        NEW v \in (DOMAIN users \cap Named(me.arg)) \ me.todo
                 PROVE  AsForm(me.arg, v, participations')
      BY <1>1, <1>3, <2>1 DEF Relies
    <3>1. CASE v = me.at
      BY <1>3, <3>1
    <3>2. CASE v # me.at
      <4>1. AsForm(me.arg, v, participations)
        BY <1>3, <3>2 DEF Relies
      <4>2. <<c, v>> # <<c, me.at>>
        BY <3>2
      <4> QED BY <1>3, <4>1, <4>2 DEF AsForm
    <3> QED BY <3>1, <3>2
  <2>6. ASSUME NEW q \in Procs \ ({r} \cup D), GoodProc(q, proc[q]),
               KeepsForm(proc[q], last_user), Relies(proc[q], users, tokens, participations)
        PROVE  Relies(proc[q], users', tokens', participations')
    <3>1. proc[q].pc = "delete_row" => \A k \in participations' : k[2] # proc[q].found
      BY <1>3, <2>6 DEF Relies
    <3> QED BY <1>3, <2>6, <3>1, ChangeKeepsOthers
  <2> QED BY <1>0, <1>3, <2>2, <2>4, <2>5, <2>6, StepKeepsClean
<1>4. CASE CheckContest(r)
  <2>1. UNCHANGED database /\ me.pc = "check_contest"
    BY <1>4 DEF CheckContest
  <2>2. CASE Answer(r, {})
    BY <2>1, <2>2, AnswerKeepsClean
  <2>3. CASE me.user \notin DOMAIN users /\ Fail(r)
    BY <2>1, <2>3, FailKeepsClean
  <2>4. CASE Move(r, [me EXCEPT !.token = None, !.user = None, !.pc = "get_all_users"], {})
    <3> DEFINE next == [me EXCEPT !.token = None, !.user = None, !.pc = "get_all_users"]
    <3>1. /\ next.pc = "get_all_users" /\ next.op = me.op /\ next.arg = me.arg
          /\ next.clean = me.clean
      BY <1>1 DEF ProcRecord
    <3>2. Move(r, next, {})
      BY <2>4
    <3> HIDE DEF next
    <3>3. KeepsForm(next, last_user) /\ Relies(next, users, tokens, participations)
      BY <1>2, <2>1, <3>1 DEF KeepsForm, Relies
    <3> QED BY <1>0, <2>1, <3>2, <3>3, ReadKeepsClean
  <2> QED BY <1>4, <2>2, <2>3, <2>4 DEF CheckContest
<1>5. CASE GetAllUsers(r)
  <2> DEFINE todo == DOMAIN users \cap Named(me.arg)
             next == [me EXCEPT !.pc = "visit", !.todo = todo]
  <2>1. UNCHANGED database /\ me.pc = "get_all_users" /\ Move(r, next, {})
    BY <1>5 DEF GetAllUsers, Named
  <2> HIDE DEF todo
  <2>2. /\ next.pc = "visit" /\ next.op = me.op /\ next.arg = me.arg
        /\ next.todo = todo
    BY <1>1 DEF ProcRecord
  <2> HIDE DEF next
  <2>3. todo \subseteq DOMAIN users /\ (DOMAIN users \cap Named(me.arg)) \ todo = {}
    BY DEF todo
  <2>4. KeepsForm(next, last_user)
    BY <1>2, <2>1, <2>2 DEF KeepsForm, ChangePcs
  <2>5. Relies(next, users, tokens, participations)
    BY <2>2, <2>3 DEF Relies
  <2> QED BY <1>0, <2>1, <2>4, <2>5, ReadKeepsClean
<1>6. CASE Visit(r)
  <2>1. UNCHANGED database /\ me.pc = "visit" /\ me.pc \in ChangePcs
    BY <1>6 DEF Visit, ChangePcs
  <2>2. PICK u \in me.todo :
           LET is_in == <<c, u>> \in participations
               pc == IF u \in me.arg.add /\ ~is_in THEN "insert"
                     ELSE IF u \in me.arg.remove /\ is_in THEN "delete"
                     ELSE "visit"
           IN  Move(r, [me EXCEPT !.pc = pc, !.todo = @ \ {u},
                                  !.at = IF pc = "visit" THEN None ELSE u], {})
    BY <1>6 DEF Visit
  <2> DEFINE is_in == <<c, u>> \in participations
             pc == IF u \in me.arg.add /\ ~is_in THEN "insert"
                   ELSE IF u \in me.arg.remove /\ is_in THEN "delete"
                   ELSE "visit"
             at == IF pc = "visit" THEN None ELSE u
             todo == me.todo \ {u}
             next == [me EXCEPT !.pc = pc, !.todo = todo, !.at = at]
  <2>3. Move(r, next, {})
    BY <2>2
  <2>4. /\ pc \in {"insert", "delete", "visit"}
        /\ pc = "insert" => u \in me.arg.add /\ ~is_in
        /\ pc = "delete" => u \in me.arg.remove
        /\ pc = "visit" => AsForm(me.arg, u, participations)
        /\ pc # "visit" => at = u
    BY DEF AsForm
  <2> HIDE DEF pc, at
  <2>5. /\ next.pc = pc /\ next.op = me.op /\ next.arg = me.arg
        /\ next.todo = todo /\ next.at = at /\ next.clean = me.clean
    BY <1>1 DEF ProcRecord
  <2> HIDE DEF next
  <2>6. KeepsForm(next, last_user)
    BY <1>2, <2>1, <2>4, <2>5 DEF KeepsForm, ChangePcs
  <2>7. next.clean => Relies(next, users, tokens, participations)
    <3> SUFFICES ASSUME Relies(me, users, tokens, participations)
                 PROVE  Relies(next, users, tokens, participations)
      BY <1>1, <2>5
    <3>1. ASSUME NEW v \in (DOMAIN users \cap Named(me.arg)) \ todo
          PROVE  (v = at /\ pc \in {"insert", "delete"}) \/ AsForm(me.arg, v, participations)
      <4>1. CASE v = u
        BY <2>4, <4>1
      <4>2. CASE v # u
        BY <2>1, <3>1, <4>2 DEF Relies
      <4> QED BY <4>1, <4>2
    <3>2. me.todo \subseteq DOMAIN users
      BY <2>1 DEF Relies
    <3> QED BY <2>4, <2>5, <3>1, <3>2 DEF Relies
  <2> QED BY <1>0, <2>1, <2>3, <2>6, <2>7, ReadKeepsClean
<1>7. CASE InsertParticipation(r)
  <2> DEFINE D == Deleting(me.at, {"delete_row"}) \cup Setting(c, me.at)
  <2>1. UNCHANGED <<users, last_user, tokens, last_token>> /\ me.pc = "insert"
    BY <1>7 DEF InsertParticipation
  <2>2. CASE /\ ~(<<c, me.at>> \notin participations /\ me.at \in DOMAIN users)
             /\ Fail(r) /\ UNCHANGED participations
    BY <2>1, <2>2, FailKeepsClean DEF database
  <2>3. CASE /\ participations' = participations \cup {<<c, me.at>>}
             /\ Move(r, [me EXCEPT !.pc = "visit", !.at = None], D)
    <3>1. D \subseteq Requests
      BY DEF Deleting, Setting
    <3>2. me.at \in me.arg.add /\ me.at \notin me.arg.remove
      BY <1>1, <1>2, <2>1 DEF KeepsForm, ChangePcs
    <3>3. AsForm(me.arg, me.at, participations')
      BY <2>3, <3>2 DEF AsForm
    <3>4. ASSUME NEW q \in Procs \ D, proc[q].pc = "delete_row"
          PROVE  proc[q].found # me.at
      <4>1. q \in Requests
        BY <1>0, <3>4 DEF Acts, Procs
      <4> QED BY <3>4, <4>1 DEF Deleting
    <3>5. <<c, me.at>>[2] = me.at
      OBVIOUS
    <3> HIDE DEF D
    <3>6. Setting(c, me.at) \subseteq D
      BY DEF D
    <3> QED BY <1>3, <2>1, <2>3, <3>1, <3>3, <3>4, <3>5, <3>6
  <2> QED BY <1>7, <2>2, <2>3 DEF InsertParticipation
<1>8. CASE DeleteParticipation(r)
  <2>1. /\ UNCHANGED <<users, last_user, tokens, last_token>> /\ me.pc = "delete"
        /\ participations' = participations \ {<<c, me.at>>}
        /\ Move(r, [me EXCEPT !.pc = "visit", !.at = None], Setting(c, me.at))
    BY <1>8 DEF DeleteParticipation, RowsToDelete
  <2>2. Setting(c, me.at) \subseteq Requests
    BY DEF Setting
  <2>3. me.at \in me.arg.remove /\ me.at \notin me.arg.add
    BY <1>1, <1>2, <2>1 DEF KeepsForm, ChangePcs
  <2>4. AsForm(me.arg, me.at, participations')
    BY <2>1, <2>3 DEF AsForm
  <2> QED BY <1>3, <2>1, <2>2, <2>4
<1>9. CASE AllVisited(r)
  <2> DEFINE next == [me EXCEPT !.pc = "done"]
  <2>1. /\ UNCHANGED database /\ Move(r, next, {})
        /\ me.pc = "visit" /\ me.todo = {} /\ me.pc \in ChangePcs
    BY <1>9 DEF AllVisited, Goto, ChangePcs
  <2>2. /\ next.pc = "done" /\ next.op = me.op /\ next.arg = me.arg
        /\ next.todo = {} /\ next.clean = me.clean
    BY <1>1, <2>1 DEF ProcRecord
  <2> HIDE DEF next
  <2>3. KeepsForm(next, last_user)
    BY <1>2, <2>1, <2>2 DEF KeepsForm
  <2>4. next.clean => Relies(next, users, tokens, participations)
    BY <1>1, <2>1, <2>2 DEF Relies
  <2> QED BY <1>0, <2>1, <2>3, <2>4, ReadKeepsClean
<1> QED BY <1>4, <1>5, <1>6, <1>7, <1>8, <1>9

-----------------------------------------------------------------------------
(***************************************************************************)
(* The start of the server.                                                *)
(***************************************************************************)
LEMMA SetUpAdminKeepsClean ==
    ASSUME Inv, CleanInv, SetUpAdmin PROVE CleanInv'
<1> DEFINE me == proc[Main]
<1>0. Main \in Procs /\ me.pc = "start" /\ UNCHANGED database
  BY DEF SetUpAdmin, Procs
<1>1. /\ Acts(Main) /\ me \in ProcRecord /\ KeepsForm(me, last_user)
      /\ me.clean
  BY <1>0, ProcIsClean DEF Acts, CleanInv, MainKnows
<1>2. ASSUME NEW next, Move(Main, next, {}), next.clean = me.clean, next.op = me.op,
             next.arg = me.arg, next.pc \in {"up", "add_user", "delete_all_tokens_for_user"},
             MainKnows(next, users)
      PROVE  CleanInv'
  <2>1. KeepsForm(next, last_user) /\ Relies(next, users, tokens, participations)
    BY <1>1, <1>2 DEF KeepsForm, Relies, ChangePcs
  <2> QED BY <1>0, <1>1, <1>2, <2>1, ReadKeepsClean
<1>3. CASE UserNamed(Admin) = {} /\ Goto(Main, "add_user")
  <2> DEFINE next == [me EXCEPT !.pc = "add_user"]
  <2>1. /\ next.pc = "add_user" /\ next.op = me.op /\ next.arg = me.arg
        /\ next.clean = me.clean /\ Move(Main, next, {})
    BY <1>1, <1>3 DEF ProcRecord, Goto
  <2> HIDE DEF next
  <2>2. MainKnows(next, users)
    BY <1>1, <1>3, <2>1 DEF MainKnows, DeletionPcs, UserNamed
  <2> QED BY <1>2, <2>1, <2>2
<1>4. CASE Goto(Main, "up")
  <2> DEFINE next == [me EXCEPT !.pc = "up"]
  <2>1. /\ next.pc = "up" /\ next.op = me.op /\ next.arg = me.arg
        /\ next.clean = me.clean /\ Move(Main, next, {})
    BY <1>1, <1>4 DEF ProcRecord, Goto
  <2> HIDE DEF next
  <2>2. MainKnows(next, users)
    BY <1>1, <2>1 DEF MainKnows, DeletionPcs
  <2> QED BY <1>2, <2>1, <2>2
<1>5. ASSUME NEW u \in UserNamed(Admin),
             Move(Main, [me EXCEPT !.found = u, !.pc = "delete_all_tokens_for_user"], {})
      PROVE  CleanInv'
  <2> DEFINE next == [me EXCEPT !.found = u, !.pc = "delete_all_tokens_for_user"]
  <2>1. /\ next.pc = "delete_all_tokens_for_user" /\ next.op = me.op
        /\ next.arg = me.arg /\ next.found = u
        /\ next.clean = me.clean /\ Move(Main, next, {})
    BY <1>1, <1>5 DEF ProcRecord
  <2> HIDE DEF next
  <2>2. MainKnows(next, users)
    BY <1>1, <1>5, <2>1
    DEF MainKnows, UserNamed, Inv, TablesOK, UsersOK
  <2> QED BY <1>2, <2>1, <2>2
<1> QED BY <1>3, <1>4, <1>5 DEF SetUpAdmin

LEMMA RestartKeepsClean == ASSUME CleanInv, Restart PROVE CleanInv'
<1>1. \A p \in Procs : proc'[p] = NoRequest \/ proc'[p] = StartAgain("start")
  BY DEF Restart
<1>2. proc'[Main] = StartAgain("start")
  BY DEF Restart, Procs
<1>3. MainKnows(proc[Main], users)'
  BY <1>2, StartRelies DEF MainKnows, DeletionPcs
<1> QED BY <1>1, <1>3, NoRequestRelies, StartRelies DEF CleanInv

LEMMA CleanStep == Inv /\ CleanInv /\ [Next]_vars => CleanInv'
<1> SUFFICES ASSUME Inv, CleanInv, [Next]_vars PROVE CleanInv'
  OBVIOUS
<1>1. ASSUME NEW r \in Requests, Arrive(r) \/ HandlerStep(r) \/ HandlerDropped(r)
      PROVE  CleanInv'
  <2>1. r \in Procs
    BY DEF Procs
  <2> QED
    BY <1>1, <2>1, RouterKeepsClean, LoginKeepsClean, AddUserKeepsClean,
       DeletionKeepsClean, ParticipantsKeepClean
    DEF HandlerStep
<1>2. CASE StartupStep
  <2>1. Main \in Procs
    BY DEF Procs
  <2> QED BY <1>2, <2>1, SetUpAdminKeepsClean, AddUserKeepsClean, DeletionKeepsClean
          DEF StartupStep
<1>3. CASE Restart
  BY <1>3, RestartKeepsClean
<1>4. CASE UNCHANGED vars
  BY <1>4 DEF vars, database, CleanInv
<1> QED BY <1>1, <1>2, <1>3, <1>4 DEF Next

-----------------------------------------------------------------------------
(***************************************************************************)
(* Why a request fails.                                                    *)
(***************************************************************************)
\* What was wrong for a request, with the local variables r, that a statement
\* answered with an error.
Reason(r) ==
    \/ r.pc \in {"is_user_admin", "check_contest"} /\ r.user \notin DOMAIN users
    \/ r.pc \in {"select_password", "add_token"} /\ r.found \notin DOMAIN users
    \/ r.pc = "delete_row" /\ Referenced(r.found)
    \/ /\ r.pc = "insert"
       /\ <<r.arg.contest, r.at>> \in participations \/ r.at \notin DOMAIN users

LEMMA OneMoves ==
    ASSUME Inv, NEW p \in Procs, NEW q \in Procs, NEW next, NEW D, Move(q, next, D),
           proc[p].pc # "failed", proc'[p].pc = "failed"
    PROVE  p = q /\ next.pc = "failed" /\ next = proc'[p]
<1>1. proc[p] \in ProcRecord
  BY DEF Inv, ProcOK
<1>2. [proc[p] EXCEPT !.clean = FALSE].pc = proc[p].pc
  BY <1>1 DEF ProcRecord
<1> QED BY <1>2 DEF Move

LEMMA DispatchGoesOn ==
    ASSUME NEW me, "pc" \in DOMAIN me, NEW is_admin
    PROVE  Dispatch(me, is_admin).pc # "failed"
<1> DEFINE next == [me EXCEPT !.token = None, !.user = None]
<1>1. "pc" \in DOMAIN next /\ NoRequest.pc = "idle"
  BY DEF NoRequest
<1>2. /\ [next EXCEPT !.pc = "get_user_from_username"].pc # "failed"
      /\ [next EXCEPT !.pc = "remove_token", !.token = me.token].pc # "failed"
      /\ [me EXCEPT !.pc = "check_contest"].pc # "failed"
      /\ [next EXCEPT !.pc = "add_user"].pc # "failed"
      /\ [next EXCEPT !.pc = "delete_all_tokens_for_user",
                      !.arg = None, !.found = me.arg].pc # "failed"
  BY <1>1
<1> HIDE DEF next
<1> QED BY <1>1, <1>2 DEF Dispatch, next

\* A handler fails for a reason, or because the name is taken.
LEMMA HandlerFails ==
    ASSUME Inv, NEW p \in Procs, NEW r \in Requests,
           Arrive(r) \/ HandlerStep(r) \/ HandlerDropped(r),
           proc[p].pc # "failed", proc'[p].pc = "failed"
    PROVE  /\ p = r /\ proc'[p].clean = proc[p].clean
           /\ \/ Reason(proc[p])
              \/ proc[p].pc = "add_user" /\ UserNamed(proc[p].arg.username) # {}
<1> DEFINE me == proc[r]
<1>0. r \in Procs /\ me \in ProcRecord /\ r # Main
  BY MainAssumption DEF Inv, ProcOK, Procs
<1>1. NoRequest.pc = "idle" /\ me.clean \in BOOLEAN
  BY <1>0 DEF NoRequest, ProcRecord
<1>2. ASSUME NEW next, NEW D, Move(r, next, D), next.pc # "failed" PROVE FALSE
  BY <1>0, <1>2, OneMoves
<1>3. ASSUME Fail(r) PROVE p = r /\ proc'[p].clean = me.clean
  <2> DEFINE next == [NoRequest EXCEPT !.pc = "failed", !.clean = me.clean]
  <2>1. Move(r, next, {})
    BY <1>3 DEF Fail
  <2>2. next.clean = me.clean
    BY DEF NoRequest
  <2> HIDE DEF next
  <2> QED BY <1>0, <2>1, <2>2, OneMoves
<1>4. CASE Arrive(r)
  <2>1. PICK o \in Operations, t \in (1..last_token) \cup {None} :
           LET user == IF t \in DOMAIN tokens THEN tokens[t].user_id ELSE None
               x == [NoRequest EXCEPT !.op = o.op, !.arg = o.arg, !.token = t,
                                      !.user = user, !.pc = "is_user_admin"]
           IN  Move(r, IF user = None THEN Dispatch(x, FALSE) ELSE x, {})
    BY <1>4 DEF Arrive
  <2> DEFINE user == IF t \in DOMAIN tokens THEN tokens[t].user_id ELSE None
             x == [NoRequest EXCEPT !.op = o.op, !.arg = o.arg, !.token = t,
                                    !.user = user, !.pc = "is_user_admin"]
  <2> HIDE DEF user
  <2>2. "pc" \in DOMAIN x /\ x.pc = "is_user_admin"
    BY DEF NoRequest
  <2>3. Move(r, IF user = None THEN Dispatch(x, FALSE) ELSE x, {})
    BY <2>1 DEF user
  <2> HIDE DEF x
  <2> QED BY <1>2, <2>2, <2>3, DispatchGoesOn
<1>5. CASE IsUserAdmin(r)
  <2>1. "pc" \in DOMAIN me
    BY <1>0 DEF ProcRecord
  <2> QED BY <1>2, <1>3, <1>5, <2>1, DispatchGoesOn DEF IsUserAdmin, Reason
<1>6. CASE GetUserFromUsername(r)
  BY <1>0, <1>1, <1>2, <1>6 DEF GetUserFromUsername, Answer, ProcRecord
<1>7. CASE VerifyPassword(r)
  BY <1>0, <1>1, <1>2, <1>3, <1>7 DEF VerifyPassword, Answer, Goto, Reason, ProcRecord
<1>8. CASE AddToken(r)
  BY <1>0, <1>1, <1>2, <1>3, <1>8 DEF AddToken, Answer, Reason, Holder, ProcRecord
<1>9. CASE RemoveToken(r) \/ Answered(r) \/ HandlerDropped(r)
  BY <1>0, <1>1, <1>2, <1>9 DEF RemoveToken, Answered, HandlerDropped, Answer, ProcRecord
<1>10. CASE AddUser(r)
  BY <1>0, <1>1, <1>2, <1>3, <1>10 DEF AddUser, Answer, NewUser, ProcRecord
<1>11. CASE DeletionStep(r)
  BY <1>0, <1>1, <1>2, <1>3, <1>11
  DEF DeletionStep, DeleteAllTokensForUser, RemoveUserFromAllContests, DeleteUserRow,
      Goto, Reason, ProcRecord
<1>12. CASE CheckContest(r)
  BY <1>0, <1>1, <1>2, <1>3, <1>12 DEF CheckContest, Answer, Reason, ProcRecord
<1>13. CASE GetAllUsers(r) \/ Visit(r) \/ AllVisited(r)
  <2>1. CASE Visit(r)
    BY <1>0, <2>1 DEF Visit, Move, ProcRecord
  <2>2. CASE GetAllUsers(r)
    BY <1>0, <2>2 DEF GetAllUsers, Move, ProcRecord
  <2>3. CASE AllVisited(r)
    BY <1>0, <2>3 DEF AllVisited, Goto, Move, ProcRecord
  <2> QED BY <1>13, <2>1, <2>2, <2>3
<1>14. CASE InsertParticipation(r) \/ DeleteParticipation(r)
  <2>1. ASSUME NEW D, Move(r, [me EXCEPT !.pc = "visit", !.at = None], D) PROVE FALSE
    BY <1>0, <1>2, <2>1 DEF ProcRecord
  <2>2. CASE DeleteParticipation(r)
    BY <2>1, <2>2 DEF DeleteParticipation
  <2>3. CASE InsertParticipation(r)
    <3>1. /\ me.pc = "insert" /\ Fail(r)
          /\ ~(<<me.arg.contest, me.at>> \notin participations /\ me.at \in DOMAIN users)
      BY <2>1, <2>3 DEF InsertParticipation
    <3> QED BY <1>3, <3>1 DEF Reason
  <2> QED BY <1>14, <2>2, <2>3
<1> QED BY <1>4, <1>5, <1>6, <1>7, <1>8, <1>9, <1>10, <1>11, <1>12, <1>13, <1>14
        DEF HandlerStep

\* run_server knows that the name is free, or that it may delete the row.
LEMMA StartupSucceeds ==
    ASSUME Inv, CleanInv, NEW p \in Procs, StartupStep,
           proc[p].pc # "failed", proc'[p].pc = "failed"
    PROVE  FALSE
<1> DEFINE me == proc[Main]
<1>0. /\ Main \in Procs /\ me \in ProcRecord
      /\ me.clean /\ Relies(me, users, tokens, participations)
  BY DEF Inv, ProcOK, Procs, CleanInv, MainKnows
<1>1. ASSUME NEW next, NEW D, Move(Main, next, D), next.pc # "failed" PROVE FALSE
  BY <1>0, <1>1, OneMoves
<1>2. ASSUME NEW pc, pc # "failed", NEW D, NEW f,
             \/ Move(Main, [me EXCEPT !.pc = pc], D)
             \/ Move(Main, [me EXCEPT !.found = f, !.pc = pc], D)
      PROVE  FALSE
  BY <1>0, <1>1, <1>2 DEF ProcRecord
<1>3. CASE SetUpAdmin
  BY <1>2, <1>3 DEF SetUpAdmin, Goto
<1>4. CASE AddUser(Main)
  <2>1. UserNamed(Admin) = {}
    BY <1>4 DEF CleanInv, MainKnows, UserNamed, AddUser
  <2> QED BY <1>2, <1>4, <2>1 DEF AddUser, NewUser, Goto
<1>5. CASE DeleteAllTokensForUser(Main) \/ RemoveUserFromAllContests(Main)
  BY <1>2, <1>5 DEF DeleteAllTokensForUser, RemoveUserFromAllContests, Goto
<1>6. CASE DeleteUserRow(Main)
  <2>1. ~Referenced(me.found)
    BY <1>0, <1>6 DEF Relies, Referenced, TokensOf, ContestsOf, DeleteUserRow
  <2>2. StartAgain("add_user").pc # "failed"
    BY StartRelies
  <2> QED BY <1>1, <1>6, <2>1, <2>2 DEF DeleteUserRow
<1> QED BY <1>3, <1>4, <1>5, <1>6 DEF StartupStep, DeletionStep

LEMMA UndisturbedHasNoReason ==
    ASSUME CleanInv, NEW p \in Procs, proc[p].clean
    PROVE  ~Reason(proc[p])
BY DEF CleanInv, Relies, Reason, Referenced, TokensOf, ContestsOf

(***************************************************************************)
(* No request and no start of the server fails unless another request got  *)
(* in between: one that deleted what it needs, gave the account it deletes *)
(* a session or a contest, or set the participation it sets.  The one      *)
(* exception is a request for an account whose name is taken.              *)
(***************************************************************************)
THEOREM OnlyDisturbedRequestsFail == Spec => UndisturbedRequestsSucceed
<1>1. Inv /\ CleanInv /\ [Next]_vars => Inv' /\ CleanInv'
  BY InvStep, CleanStep
<1>2. Inv /\ CleanInv /\ [Next]_vars => [FailsWithReason]_vars
  <2> SUFFICES ASSUME Inv, CleanInv, Next, NEW p \in Procs,
                      proc[p].pc # "failed", proc'[p].pc = "failed"
               PROVE  /\ p \in Requests
                      /\ \/ ~proc'[p].clean
                         \/ /\ proc[p].pc = "add_user"
                            /\ UserNamed(proc[p].arg.username) # {}
    BY DEF FailsWithReason
  <2>1. ASSUME NEW r \in Requests, Arrive(r) \/ HandlerStep(r) \/ HandlerDropped(r)
        PROVE  /\ p \in Requests
               /\ \/ ~proc'[p].clean
                  \/ /\ proc[p].pc = "add_user"
                     /\ UserNamed(proc[p].arg.username) # {}
    BY <2>1, HandlerFails, UndisturbedHasNoReason
  <2>2. ~StartupStep
    BY StartupSucceeds
  <2>3. CASE Restart
    BY <2>3 DEF Restart, StartAgain, NoRequest
  <2> QED BY <2>1, <2>2, <2>3 DEF Next
<1>3. Spec => [][FailsWithReason]_vars
  BY InvInit, CleanInit, <1>1, <1>2, PTL DEF Spec
<1> QED BY <1>3 DEF UndisturbedRequestsSucceed

(***************************************************************************)
(* handle_participant_modification leaves every user its form names as the *)
(* form says, unless another request changed the same participation.       *)
(***************************************************************************)
THEOREM ChangesDoWhatTheyAreAsked == Spec => []ParticipantsAsAsked
<1>1. Inv /\ CleanInv /\ [Next]_vars => Inv' /\ CleanInv'
  BY InvStep, CleanStep
<1>2. Inv /\ CleanInv => ParticipantsAsAsked
  <2> SUFFICES ASSUME Inv, CleanInv, NEW r \in Requests, proc[r].pc = "done",
                      proc[r].clean, NEW u \in DOMAIN users
               PROVE  AsForm(proc[r].arg, u, participations)
    BY DEF ParticipantsAsAsked, AsForm
  <2>1. /\ KeepsForm(proc[r], last_user)
        /\ Relies(proc[r], users, tokens, participations)
    BY DEF CleanInv, Procs
  <2>2. CASE u \in Named(proc[r].arg)
    BY <2>1, <2>2 DEF KeepsForm, Relies
  <2>3. CASE u \notin Named(proc[r].arg)
    BY <2>3 DEF Named, AsForm
  <2> QED BY <2>2, <2>3
<1> QED BY InvInit, CleanInit, <1>1, <1>2, PTL DEF Spec

(***************************************************************************)
(* Whenever run_server begins to take requests there is an administrator   *)
(* named "admin", however often its start was stopped before and whatever  *)
(* had become of that account.                                             *)
(***************************************************************************)
THEOREM AdminIsSetUp == Spec => StartupSetsUpAdmin
<1>1. Inv /\ [Next]_vars => Inv'
  BY InvStep
<1>2. Inv /\ [Next]_vars => [SetsUpAdmin]_vars
  <2> SUFFICES ASSUME Inv, Next, proc[Main].pc # "up", proc'[Main].pc = "up"
               PROVE  \E u \in DOMAIN users' :
                         users'[u].username = Admin /\ users'[u].is_admin
    BY DEF SetsUpAdmin, vars
  <2>0. Main \in Procs /\ proc[Main] \in ProcRecord
    BY ProcIsGood DEF Procs
  <2>1. ASSUME NEW r \in Requests, Arrive(r) \/ HandlerStep(r) \/ HandlerDropped(r)
        PROVE  FALSE
    BY <2>1, RequestActs
    DEF Acts, Arrive, HandlerStep, HandlerDropped, Running, MainFirst, Inv,
        IsUserAdmin, GetUserFromUsername, VerifyPassword, AddToken, RemoveToken,
        AddUser, DeletionStep, DeleteAllTokensForUser, RemoveUserFromAllContests,
        DeleteUserRow, CheckContest, GetAllUsers, Visit, InsertParticipation,
        DeleteParticipation, AllVisited, Answered
  <2>2. CASE SetUpAdmin
    <3>1. UNCHANGED users
      BY <2>2 DEF SetUpAdmin, database
    <3>2. ASSUME UserNamed(Admin) = {}, Goto(Main, "add_user") PROVE FALSE
      BY <2>0, <3>2 DEF Goto, Move, ProcRecord
    <3>3. ASSUME NEW u \in UserNamed(Admin),
                 Move(Main, [proc[Main] EXCEPT
                                !.found = u, !.pc = "delete_all_tokens_for_user"], {})
          PROVE  FALSE
      BY <2>0, <3>3 DEF Move, ProcRecord
    <3>4. PICK u \in UserNamed(Admin) : KeepAdmin(u)
      BY <2>2, <3>2, <3>3 DEF SetUpAdmin
    <3> QED BY <3>1, <3>4 DEF UserNamed, KeepAdmin
  <2>3. CASE AddUser(Main)
    <3>1. PICK password \in Passwords :
             LET row == NewUser(Main, password)
             IN  IF UserNamed(row.username) = {}
                 THEN users' = InsertRow(users, last_user', row)
                 ELSE Fail(Main)
      BY <2>3 DEF AddUser
    <3>2. ~Fail(Main)
      BY <2>0 DEF Fail, Move, NoRequest
    <3> DEFINE row == NewUser(Main, password)
    <3>3. users' = InsertRow(users, last_user', row)
      BY <3>1, <3>2
    <3>4. row.username = Admin /\ row.is_admin
      BY DEF NewUser
    <3> HIDE DEF row
    <3>5. last_user' \in DOMAIN users' /\ users'[last_user'] = row
      BY <3>3 DEF InsertRow
    <3> QED BY <3>4, <3>5
  <2>4. CASE DeletionStep(Main)
    <3>1. ASSUME NEW next, NEW D, Move(Main, next, D), next.pc # "up" PROVE FALSE
      BY <2>0, <3>1 DEF Move
    <3>2. CASE DeleteAllTokensForUser(Main)
      BY <2>0, <3>2 DEF DeleteAllTokensForUser, Goto, Move, ProcRecord
    <3>3. CASE RemoveUserFromAllContests(Main)
      BY <2>0, <3>3 DEF RemoveUserFromAllContests, Move, ProcRecord
    <3>4. CASE DeleteUserRow(Main)
      <4>1. CASE Fail(Main)
        BY <2>0, <4>1 DEF Fail, Move, NoRequest
      <4>2. CASE Move(Main, StartAgain("add_user"), Relying(proc[Main].found))
        BY <3>1, <4>2, StartIsGood
      <4> QED BY <3>4, <4>1, <4>2 DEF DeleteUserRow
    <3> QED BY <2>4, <3>2, <3>3, <3>4 DEF DeletionStep
  <2>5. CASE Restart
    BY <2>0, <2>5, StartIsGood DEF Restart
  <2> QED BY <2>1, <2>2, <2>3, <2>4, <2>5 DEF Next, StartupStep
<1>3. Spec => [][SetsUpAdmin]_vars
  BY InvInit, <1>1, <1>2, PTL DEF Spec
<1> QED BY <1>3 DEF StartupSetsUpAdmin
=============================================================================
