SPECIFICATION FairSpec
CONSTANTS
    u1 = u1
    u2 = u2
    u3 = u3
    e1 = e1
    e2 = e2
    e3 = e3
    p1 = p1
    p2 = p2
    Uid = {u1, u2, u3}
    Email = {e1, e2}
    Password = {p1, p2}
    Random = p1
    Req = {r1, r2}
    Anon = Anon
    None = None
    Empty = Empty
    Ops = {"register", "login", "sso", "remove"}
    Edit <- RoleEdits
    RegistrationAllowed = TRUE
    MaxLogins = 2
    Start <- SeededAdmin
INVARIANTS TypeOK EmailsUnique LoginsNeverOvercount
PROPERTIES RequestsEnd
CHECK_DEADLOCK FALSE
