------------------------------ MODULE MCAccounts ------------------------------
EXTENDS Accounts, TLC

CONSTANTS r1, r2, admin, bob, p1, p2, finals

MCLogins == [username : {admin}, password : {p1, p2}]
             \cup [username : {bob}, password : {p1}]

\* Another administrator, and an "admin" who is none.
MCNewUsers == {[username |-> bob, password |-> p2, is_admin |-> TRUE],
               [username |-> admin, password |-> p2, is_admin |-> FALSE]}

\* Tick two users; clear one of them; a contest that does not exist.
MCForms == {[contest |-> finals, add |-> {1, 2}, remove |-> {}],
            [contest |-> finals, add |-> {1}, remove |-> {2}],
            [contest |-> None, add |-> {1}, remove |-> {}]}

MCSymmetry == Permutations({r1, r2})
=============================================================================
