SPECIFICATION Spec
CONSTANTS
    Nil = Nil
    Handlers = {h1, h2}
    Users = {ann, bob}
    Emails = {e1, e2}
    Phones = {f1, f2}
    Standings = {client, off}
    Inactive = {off}
    Newcomer = client
INVARIANTS
    ConflictsFoundInTime
    StaleRightsExplained
SYMMETRY Interchangeable
PROPERTIES
    NumbersReplacedRaced
    DeactivatedStayOut
    CacheSpec
