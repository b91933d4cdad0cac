SPECIFICATION Spec
CONSTANTS
    Owners = {o1, o2}
    Resources = {r1, r2, r3}
    Addrs = {a1, a2}
    MaxDepth = 3
    None = None
SYMMETRY MCSymmetry
CHECK_DEADLOCK FALSE
INVARIANTS
    MethodsUseLiveObjects
    OwnerLivesWithItsUsers
    ResourcesAreHeld
    AddressIdentifiesClient
