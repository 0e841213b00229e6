SPECIFICATION Spec
CONSTANTS
    Ann = Ann
    Bob = Bob
    None = None
    User = {Ann, Bob}
    Admin = {Bob}
    Group = {g1}
    Req = {r1, r2}
SYMMETRY Symmetry
PROPERTIES RemovalKeepsOwner
CHECK_DEADLOCK FALSE
