CONSTANTS
    r1 = r1
    r2 = r2
    admin = admin
    bob = bob
    p1 = p1
    p2 = p2
    finals = finals
    None = None
    Requests = {r1, r2}
    Admin = admin
    Usernames = {admin, bob}
    Passwords = {p1, p2}
    Contests = {finals}
    Logins <- MCLogins
    NewUsers <- MCNewUsers
    Forms <- MCForms
    MaxUsers = 4
    MaxTokens = 2
    MaxRestarts = 1
SYMMETRY MCSymmetry
SPECIFICATION Spec
INVARIANTS TypeOK SessionShowedPassword ParticipantsAsAsked
PROPERTIES UndisturbedRequestsSucceed StartupSetsUpAdmin
