SPECIFICATION Spec
CONSTANTS
    u1 = u1
    u2 = u2
    u3 = u3
    e1 = e1
    e2 = e2
    e3 = e3
    p1 = p1
    p2 = p2
    Uid = {u1, u2, u3}
    Email = {e1, e2, e3}
    Password = {p1, p2}
    Random = p1
    Req = {r1}
    Anon = Anon
    None = None
    Empty = Empty
    Ops = {"update", "remove", "register", "sso", "login"}
    Edit <- AccountEdits
    RegistrationAllowed = FALSE
    MaxLogins = 1
    Start <- SeededAdmin
INVARIANTS AdminRemains
