SPECIFICATION Spec
CONSTANTS
    Ann = Ann
    Bob = Bob
    None = None
    User = {Ann, Bob}
    Admin = {Bob}
    Group = {g1}
    Evaluation = {e1}
    Tag = {t1, t2}
    Req = {r1, r2}
    Ops = {"create", "tag", "untag", "remove", "crash"}
SYMMETRY Symmetry
PROPERTIES RemovalTakesTags
CHECK_DEADLOCK FALSE
