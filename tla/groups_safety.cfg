SPECIFICATION Spec
CONSTANTS
    Ann = Ann
    Bob = Bob
    None = None
    User = {Ann, Bob}
    Admin = {Bob}
    Group = {g1}
    Req = {r1, r2}
SYMMETRY Symmetry
INVARIANTS TypeOK NoDanglingRows DuplicatesBounded
PROPERTIES OrphanNeedsAdmin FreshRemovalKeepsOwner ImplementsAuthority
CHECK_DEADLOCK FALSE
