------------------------------ MODULE Accounts ------------------------------
(***************************************************************************)
(* Accounts, sessions and the participants of contests: the tables users,  *)
(* tokens and contest_participations, the requests that work on them       *)
(* (login, logout, create_user, delete_user, modify_participants) and the  *)
(* start of the server, which sets up the account "admin".                 *)
(*                                                                         *)
(* A request is what the router does first (handle_request_inner: whose is *)
(* the token, is that user an administrator) and then the handler it       *)
(* dispatches to.  Each SQL statement is a step, nothing groups them, and  *)
(* a client that disconnects or a restart of the server stops a request    *)
(* between any two.  Steps that only read and decide nothing are left out. *)
(*                                                                         *)
(* Submissions and scores, which delete_user removes between participants  *)
(* and the user's row, are in JudgeAdmin.                                  *)
(***************************************************************************)
EXTENDS Integers, FiniteSets

CONSTANTS Requests,    \* slots for requests under way
          Admin,       \* the username "admin"
          Usernames, Passwords,
          Contests,    \* contests.contest_id: the server itself adds none
          Logins,      \* forms of login: a username and a password
          NewUsers,    \* forms of create_user: rows of users
          Forms,       \* forms of modify_participants, by contest and user id:
                       \* `add` are the fields "on", `remove` those of another
                       \* value (a browser leaves out boxes that are cleared)
          MaxUsers,    \* bound on the values of users.user_id: those of the
                       \* initial database, and one for each start at least
          MaxTokens,   \* bound on the tokens issued
          MaxRestarts, \* bound on the restarts of the server
          None

UserIds == 1..MaxUsers
TokenIds == 1..MaxTokens  \* random strings of 255 characters: never the same

UserRow == [username : Usernames, password : Passwords, is_admin : BOOLEAN]

ASSUME AccountsAssumption ==
    /\ {MaxUsers, MaxRestarts} \subseteq Nat
    /\ MaxUsers >= 2 + 1 + MaxRestarts
    /\ MaxTokens \in Nat \ {0}
    /\ Admin \in Usernames
    /\ Logins \subseteq [username : Usernames, password : Passwords]
    /\ NewUsers \subseteq UserRow
    /\ None \notin UserIds \cup TokenIds
    /\ \A f \in Forms : /\ f.add \cup f.remove \subseteq UserIds
                        /\ f.add \cap f.remove = {}
                        /\ f = [contest |-> f.contest, add |-> f.add,
                                remove |-> f.remove]

VARIABLES
    users,          \* rows by user_id
    last_user,      \* the sequence behind user_id, which never goes back
    tokens,         \* rows by token
    last_token,     \* number of tokens issued
    participations, \* the keys of contest_participations
    proc,           \* local variables of each request, and of run_server
    restarts

database == <<users, last_user, tokens, last_token, participations>>
vars == <<database, proc, restarts>>

Main == "run_server"
Procs == Requests \cup {Main}

ASSUME MainAssumption == Main \notin Requests

-----------------------------------------------------------------------------
\* The database: each of these is one statement.
UserNamed(name) == {u \in DOMAIN users : users[u].username = name}

TokensOf(u) == {t \in DOMAIN tokens : tokens[t].user_id = u}

ContestsOf(u) == {k \in participations : k[2] = u}

\* Mutant: tokens are not declared to refer to users.
BugReferenced(u) == ContestsOf(u) # {}

\* The row of u cannot be deleted: a foreign key still refers to it.
Referenced(u) == TokensOf(u) # {} \/ ContestsOf(u) # {}

DeleteRows(table, K) == [k \in DOMAIN table \ K |-> table[k]]

InsertRow(table, key, row) ==
    [k \in DOMAIN table \cup {key} |-> IF k = key THEN row ELSE table[k]]

-----------------------------------------------------------------------------
(***************************************************************************)
(* Local variables.  op and arg are the request; token its cookie; user    *)
(* who the router found behind it; found the id a lookup or the path gave; *)
(* todo the users still to visit, at the one being visited.  They are      *)
(* forgotten when they are no longer needed.  clean is history: no other   *)
(* actor has changed what the request works on.                            *)
(***************************************************************************)
NoRequest ==
    [op |-> "none", pc |-> "idle", arg |-> None, token |-> None,
     user |-> None, found |-> None, todo |-> {}, at |-> None, clean |-> TRUE]

StartAgain(pc) == [NoRequest EXCEPT !.op = Main, !.pc = pc]

Running(p) == proc[p].pc \notin {"idle", "up", "done", "failed"}

\* p goes on with `next`; the requests in D are no longer undisturbed.
Move(p, next, D) ==
    proc' = [q \in Procs |->
                IF q = p THEN next
                ELSE IF q \in D THEN [proc[q] EXCEPT !.clean = FALSE]
                ELSE proc[q]]

Goto(p, pc) == Move(p, [proc[p] EXCEPT !.pc = pc], {})

\* The handler answers: with a page, or with an error of a statement.
Answer(p, D) == Move(p, NoRequest, D)

Fail(p) == Move(p, [NoRequest EXCEPT !.pc = "failed", !.clean = proc[p].clean], {})

\* Requests that still rely on the row of u.
Relying(u) ==
    {q \in Requests :
        \/ proc[q].user = u /\ proc[q].pc \in {"is_user_admin", "check_contest"}
        \/ proc[q].found = u /\ proc[q].pc \in {"select_password", "add_token"}
        \/ u \in proc[q].todo \cup {proc[q].at}}

\* Requests that have removed the rows of u this far.
Deleting(u, pcs) == {q \in Requests : proc[q].pc \in pcs /\ proc[q].found = u}

\* Requests that have set, or are setting, the participation of u in c.
Setting(c, u) ==
    {q \in Requests :
        /\ proc[q].op = "modify_participants"
        /\ proc[q].pc \in {"visit", "insert", "delete", "done"}
        /\ proc[q].arg.contest = c
        /\ u \in (proc[q].arg.add \cup proc[q].arg.remove) \ proc[q].todo}

EmptyTable == [k \in {} |-> None]

\* An empty database, or one with an administrator who is not "admin" and a user
\* "admin" who is not an administrator.
Init ==
    /\ \/ /\ users = EmptyTable /\ last_user = 0
          /\ tokens = EmptyTable /\ last_token = 0
          /\ participations = {}
       \/ \E name \in Usernames \ {Admin}, p \in Passwords, c \in Contests :
             /\ users = [u \in 1..2 |->
                   [username |-> IF u = 1 THEN name ELSE Admin,
                    password |-> p, is_admin |-> u = 1]]
             /\ last_user = 2
             /\ tokens = [t \in {1} |-> [user_id |-> 1, given |-> p]]
             /\ last_token = 1
             /\ participations = {<<c, 2>>}
    /\ proc = [p \in Procs |->
                  IF p = Main THEN StartAgain("start")
                              ELSE NoRequest]
    /\ restarts = 0

-----------------------------------------------------------------------------
(***************************************************************************)
(* The router.                                                             *)
(***************************************************************************)
Operations ==
    [op : {"login"}, arg : Logins]
        \cup [op : {"logout"}, arg : {None}]
        \cup [op : {"create_user"}, arg : NewUsers]
        \cup [op : {"delete_user"}, arg : UserIds]
        \cup [op : {"modify_participants"}, arg : Forms]

\* The handler a request is dispatched to, before its first statement.
Dispatch(me, is_admin) ==
    LET next == [me EXCEPT !.token = None, !.user = None]
    IN  CASE me.op = "login" -> [next EXCEPT !.pc = "get_user_from_username"]
          [] me.op = "logout" /\ me.user # None ->
                 [next EXCEPT !.pc = "remove_token", !.token = me.token]
          [] me.op = "modify_participants" /\ me.user # None ->
                 [me EXCEPT !.pc = "check_contest"]
          [] me.op = "create_user" /\ is_admin -> [next EXCEPT !.pc = "add_user"]
          [] me.op = "delete_user" /\ is_admin ->
                 [next EXCEPT !.pc = "delete_all_tokens_for_user",
                              !.arg = None, !.found = me.arg]
          [] OTHER -> NoRequest

\* A request arrives, with a token that was issued at some time or with none.  The
\* page behind a form lists users that exist or existed.
Arrive(r) ==
    /\ proc[Main].pc = "up"
    /\ proc[r].pc = "idle"
    /\ \E o \in Operations, t \in (1..last_token) \cup {None} :
          LET user == IF t \in DOMAIN tokens THEN tokens[t].user_id ELSE None
              me == [NoRequest EXCEPT !.op = o.op, !.arg = o.arg, !.token = t,
                                      !.user = user, !.pc = "is_user_admin"]
          IN  /\ o.op = "modify_participants" =>
                     o.arg.add \cup o.arg.remove \subseteq 1..last_user
              /\ Move(r, IF user = None THEN Dispatch(me, FALSE) ELSE me, {})
    /\ UNCHANGED <<database, restarts>>

\* A row that is gone is an error.
IsUserAdmin(r) ==
    LET me == proc[r]
    IN  /\ me.pc = "is_user_admin"
        /\ IF me.user \in DOMAIN users
           THEN Move(r, Dispatch(me, users[me.user].is_admin), {})
           ELSE Fail(r)
        /\ UNCHANGED <<database, restarts>>

\* The request is over; or hyper drops its handler, as the client is gone.
Answered(r) ==
    /\ proc[r].pc \in {"done", "failed"}
    /\ Answer(r, {})
    /\ UNCHANGED <<database, restarts>>

HandlerDropped(r) ==
    /\ Running(r)
    /\ Answer(r, {})
    /\ UNCHANGED <<database, restarts>>

-----------------------------------------------------------------------------
(***************************************************************************)
(* handle_login_form and handle_logout_form.                               *)
(***************************************************************************)
GetUserFromUsername(r) ==
    LET me == proc[r]
        rows == UserNamed(me.arg.username)
    IN  /\ me.pc = "get_user_from_username"
        /\ IF rows = {} THEN Answer(r, {})
           ELSE \E u \in rows :
                   Move(r, [me EXCEPT !.found = u, !.pc = "select_password"], {})
        /\ UNCHANGED <<database, restarts>>

VerifyPassword(r) ==
    LET me == proc[r]
    IN  /\ me.pc = "select_password"
        /\ IF me.found \notin DOMAIN users THEN Fail(r)
           ELSE IF users[me.found].password = me.arg.password THEN Goto(r, "add_token")
           ELSE Answer(r, {})
        /\ UNCHANGED <<database, restarts>>

\* Mutant: the account is looked up by name once more.
BugHolder(me) ==
    CHOOSE u \in UserIds : UserNamed(me.arg.username) \in {{u}, {}}

\* Whose token add_token stores.
Holder(me) == me.found

\* The foreign key refuses a token for a user who is gone.  `given` is history:
\* the password that was shown for it.
AddToken(r) ==
    LET u == Holder(proc[r])
        t == last_token + 1
    IN  /\ proc[r].pc = "add_token"
        /\ IF u \in DOMAIN users
           THEN /\ t \in TokenIds
                /\ last_token' = t
                /\ tokens' = InsertRow(tokens, t, [user_id |-> u,
                                                   given |-> proc[r].arg.password])
                /\ Answer(r, Deleting(u, {"remove_user_from_all_contests", "delete_row"}))
           ELSE Fail(r) /\ UNCHANGED <<tokens, last_token>>
        /\ UNCHANGED <<users, last_user, participations, restarts>>

RemoveToken(r) ==
    /\ proc[r].pc = "remove_token"
    /\ tokens' = DeleteRows(tokens, {proc[r].token})
    /\ Answer(r, {})
    /\ UNCHANGED <<users, last_user, last_token, participations, restarts>>

-----------------------------------------------------------------------------
(***************************************************************************)
(* add_user and delete_user, in a request or in run_server.                *)
(***************************************************************************)
\* What add_user inserts, and how its caller goes on.
NewUser(p, password) ==
    IF p = Main THEN [username |-> Admin, password |-> password, is_admin |-> TRUE]
    ELSE proc[p].arg

\* UNIQUE refuses a name that is taken, which is an error of the caller; the
\* sequence advances all the same.  The bound leaves an id for each start of the
\* server.
AddUser(p) ==
    /\ proc[p].pc = "add_user"
    /\ p \in Requests => last_user + MaxRestarts - restarts < MaxUsers
    /\ last_user' = last_user + 1
    /\ \E password \in Passwords :
          LET row == NewUser(p, password)
          IN  IF UserNamed(row.username) = {}
              THEN /\ users' = InsertRow(users, last_user', row)
                   /\ IF p = Main THEN Goto(p, "up") ELSE Answer(p, {})
              ELSE Fail(p) /\ UNCHANGED users
    /\ UNCHANGED <<tokens, last_token, participations, restarts>>

DeleteAllTokensForUser(p) ==
    /\ proc[p].pc = "delete_all_tokens_for_user"
    /\ tokens' = DeleteRows(tokens, TokensOf(proc[p].found))
    /\ Goto(p, "remove_user_from_all_contests")
    /\ UNCHANGED <<users, last_user, last_token, participations, restarts>>

\* Mutant: participations are forgotten.
BugKeepsParticipations(p) ==
    /\ proc[p].pc = "remove_user_from_all_contests"
    /\ Goto(p, "delete_row")
    /\ UNCHANGED <<database, restarts>>

RemoveUserFromAllContests(p) ==
    LET u == proc[p].found
    IN  /\ proc[p].pc = "remove_user_from_all_contests"
        /\ participations' = participations \ ContestsOf(u)
        /\ Move(p, [proc[p] EXCEPT !.pc = "delete_row"],
                UNION {Setting(k[1], u) : k \in ContestsOf(u)})
        /\ UNCHANGED <<users, last_user, tokens, last_token, restarts>>

DeleteUserRow(p) ==
    LET u == proc[p].found
    IN  /\ proc[p].pc = "delete_row"
        /\ IF Referenced(u) THEN Fail(p) /\ UNCHANGED users
           ELSE /\ users' = DeleteRows(users, {u})
                /\ Move(p, IF p = Main THEN StartAgain("add_user") ELSE NoRequest,
                        Relying(u))
        /\ UNCHANGED <<last_user, tokens, last_token, participations, restarts>>

-----------------------------------------------------------------------------
(***************************************************************************)
(* handle_participant_modification.                                        *)
(***************************************************************************)
\* is_contest_id_valid && is_user_admin
CheckContest(r) ==
    LET me == proc[r]
    IN  /\ me.pc = "check_contest"
        /\ IF me.arg.contest \notin Contests THEN Answer(r, {})
           ELSE IF me.user \notin DOMAIN users THEN Fail(r)
           ELSE IF ~users[me.user].is_admin THEN Answer(r, {})
           ELSE Move(r, [me EXCEPT !.token = None, !.user = None,
                                   !.pc = "get_all_users"], {})
        /\ UNCHANGED <<database, restarts>>

GetAllUsers(r) ==
    LET me == proc[r]
    IN  /\ me.pc = "get_all_users"
        /\ Move(r, [me EXCEPT !.pc = "visit",
                              !.todo = DOMAIN users \cap (me.arg.add \cup me.arg.remove)], {})
        /\ UNCHANGED <<database, restarts>>

\* is_user_in_contest, of a user whom the form names.
Visit(r) ==
    LET me == proc[r]
    IN  /\ me.pc = "visit"
        /\ \E u \in me.todo :
              LET is_in == <<me.arg.contest, u>> \in participations
                  next == IF u \in me.arg.add /\ ~is_in THEN "insert"
                          ELSE IF u \in me.arg.remove /\ is_in THEN "delete"
                          ELSE "visit"
              IN  Move(r, [me EXCEPT !.pc = next, !.todo = @ \ {u},
                                     !.at = IF next = "visit" THEN None ELSE u], {})
        /\ UNCHANGED <<database, restarts>>

\* The primary key refuses a row that is there by now, the foreign key one of a
\* user who is gone; the users still to visit keep what they have.
InsertParticipation(r) ==
    LET me == proc[r]
        row == <<me.arg.contest, me.at>>
    IN  /\ me.pc = "insert"
        /\ IF row \notin participations /\ me.at \in DOMAIN users
           THEN /\ participations' = participations \cup {row}
                /\ Move(r, [me EXCEPT !.pc = "visit", !.at = None],
                        Deleting(me.at, {"delete_row"}) \cup Setting(row[1], row[2]))
           ELSE Fail(r) /\ UNCHANGED participations
        /\ UNCHANGED <<users, last_user, tokens, last_token, restarts>>

\* Mutant: the query does not name the user.
BugRowsToDelete(me) == {k \in participations : k[1] = me.arg.contest}

\* The rows remove_user_from_contest deletes.
RowsToDelete(me) == {<<me.arg.contest, me.at>>}

DeleteParticipation(r) ==
    LET me == proc[r]
    IN  /\ me.pc = "delete"
        /\ participations' = participations \ RowsToDelete(me)
        /\ Move(r, [me EXCEPT !.pc = "visit", !.at = None],
                Setting(me.arg.contest, me.at))
        /\ UNCHANGED <<users, last_user, tokens, last_token, restarts>>

AllVisited(r) ==
    /\ proc[r].pc = "visit"
    /\ proc[r].todo = {}
    /\ Goto(r, "done")
    /\ UNCHANGED <<database, restarts>>

-----------------------------------------------------------------------------
(***************************************************************************)
(* run_server, before it accepts requests.                                 *)
(***************************************************************************)
\* Mutant: any account named "admin" will do.
BugKeepAdmin(u) == u \in DOMAIN users

\* The account named "admin", if there is one, need not be set up.
KeepAdmin(u) == users[u].is_admin

\* The lookups of run_server and of add_user_override: nobody else is there yet.
SetUpAdmin ==
    LET rows == UserNamed(Admin)
    IN  /\ proc[Main].pc = "start"
        /\ IF rows = {} THEN Goto(Main, "add_user")
           ELSE \E u \in rows :
                   IF KeepAdmin(u) THEN Goto(Main, "up")
                   ELSE Move(Main, [proc[Main] EXCEPT
                                       !.found = u,
                                       !.pc = "delete_all_tokens_for_user"], {})
        /\ UNCHANGED <<database, restarts>>

\* The server ends, perhaps while it sets up the account, and is started again.
Restart ==
    /\ restarts < MaxRestarts
    /\ restarts' = restarts + 1
    /\ proc' = [p \in Procs |->
                   IF p = Main THEN StartAgain("start")
                               ELSE NoRequest]
    /\ UNCHANGED database

DeletionStep(p) ==
    \/ DeleteAllTokensForUser(p)
    \/ RemoveUserFromAllContests(p)
    \/ DeleteUserRow(p)

HandlerStep(r) ==
    \/ IsUserAdmin(r)
    \/ GetUserFromUsername(r) \/ VerifyPassword(r) \/ AddToken(r)
    \/ RemoveToken(r)
    \/ AddUser(r) \/ DeletionStep(r)
    \/ CheckContest(r) \/ GetAllUsers(r) \/ Visit(r)
    \/ InsertParticipation(r) \/ DeleteParticipation(r) \/ AllVisited(r)
    \/ Answered(r)

StartupStep == SetUpAdmin \/ AddUser(Main) \/ DeletionStep(Main)

Next ==
    \/ \E r \in Requests : Arrive(r) \/ HandlerStep(r) \/ HandlerDropped(r)
    \/ StartupStep
    \/ Restart

Spec == Init /\ [][Next]_vars

-----------------------------------------------------------------------------
(***************************************************************************)
(* The tables obey their keys: a name belongs to one user, a token or a    *)
(* participation to a user there is; and local variables have their types. *)
(***************************************************************************)
TypeOK ==
    /\ DOMAIN users \subseteq 1..last_user
    /\ users \in [DOMAIN users -> UserRow]
    /\ \A u, v \in DOMAIN users : users[u].username = users[v].username => u = v
    /\ last_user \in 0..MaxUsers
    /\ DOMAIN tokens \subseteq 1..last_token
    /\ tokens \in [DOMAIN tokens -> [user_id : DOMAIN users, given : Passwords]]
    /\ last_token \in 0..MaxTokens
    /\ participations \subseteq Contests \X DOMAIN users
    /\ \A p \in Procs :
          /\ proc[p].token \in TokenIds \cup {None}
          /\ {proc[p].user, proc[p].found, proc[p].at} \subseteq UserIds \cup {None}
          /\ proc[p].todo \subseteq UserIds
          /\ proc[p].clean \in BOOLEAN
    /\ restarts \in 0..MaxRestarts

(***************************************************************************)
(* A session belongs to an account whose password was shown for it, also   *)
(* when accounts are deleted and their names given to others while         *)
(* somebody is logging in.                                                 *)
(***************************************************************************)
SessionShowedPassword ==
    \A t \in DOMAIN tokens : users[tokens[t].user_id].password = tokens[t].given

(***************************************************************************)
(* A request ends in an error only if it asks for a new account under a    *)
(* name that is taken, or if another request got between its statements:   *)
(* one that deleted a user it still needed, that set the very              *)
(* participation it was setting, or that gave the user it was deleting a   *)
(* new session or contest.  Whatever stopped half way before, a restart    *)
(* included, does not make an undisturbed request fail; and the start of   *)
(* the server, which sets up the account "admin", has neither excuse.      *)
(***************************************************************************)
FailsWithReason ==
    \A p \in Procs :
        proc[p].pc # "failed" /\ proc'[p].pc = "failed" =>
            /\ p \in Requests
            /\ \/ ~proc'[p].clean
               \/ /\ proc[p].pc = "add_user"
                  /\ UserNamed(proc[p].arg.username) # {}

UndisturbedRequestsSucceed == [][FailsWithReason]_vars

(***************************************************************************)
(* A change of participants that nobody disturbed has done what its form   *)
(* asked for, for every user there is; changes of other users of the same  *)
(* contest at the same time do not disturb it.                             *)
(***************************************************************************)
ParticipantsAsAsked ==
    \A r \in Requests :
        /\ proc[r].op = "modify_participants"
        /\ proc[r].pc = "done"
        /\ proc[r].clean
        => \A u \in DOMAIN users :
              /\ u \in proc[r].arg.add =>
                     <<proc[r].arg.contest, u>> \in participations
              /\ u \in proc[r].arg.remove =>
                     <<proc[r].arg.contest, u>> \notin participations

(***************************************************************************)
(* However often the server stopped while it set up the account "admin",   *)
(* and whatever administrators made of that account before, once the       *)
(* server takes requests there is an administrator named "admin".          *)
(***************************************************************************)
SetsUpAdmin ==
    proc[Main].pc # "up" /\ proc'[Main].pc = "up" =>
        \E u \in DOMAIN users' : users'[u].username = Admin /\ users'[u].is_admin

StartupSetsUpAdmin == [][SetsUpAdmin]_vars
=============================================================================
