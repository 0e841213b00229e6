SPECIFICATION Spec
CONSTANTS
    Ann = Ann
    Bob = Bob
    None = None
    User = {Ann, Bob}
    Admin = {Bob}
    Group = {g1}
    Evaluation = {e1}
    Tag = {t1, t2}
    Req = {r1, r2}
    Ops = {"create", "update", "tag", "untag", "share", "unshare", "remove", "crash"}
SYMMETRY Symmetry
INVARIANTS TypeOK NothingDangles
PROPERTIES AbandonedNeedsAdmin
CHECK_DEADLOCK FALSE
