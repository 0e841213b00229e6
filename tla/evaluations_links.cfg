SPECIFICATION FairSpec
CONSTANTS
    Ann = Ann
    Bob = Bob
    None = None
    User = {Ann}
    Admin = {}
    Group = {g1, g2}
    Evaluation = {e1}
    Tag = {t1}
    Req = {r1, r2}
    Ops = {"create", "share", "remove"}
PROPERTIES LinksArrive ImplementsAccess
CHECK_DEADLOCK FALSE
