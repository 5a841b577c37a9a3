SPECIFICATION Spec
CONSTANTS
    Nil = Nil
    Handlers = {h1, h2}
    Files = {f1, f2}
    GuestLimit = 1
    OwnerLimit = 2
SYMMETRY Symmetry
INVARIANTS
    StoresAgree
    OvershootBounded
PROPERTIES
    LeavesByCleanUpOrRace
