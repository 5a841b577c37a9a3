SPECIFICATION FairSpec
CONSTANTS
    Nil = Nil
    Handlers = {h1, h2}
    Users = {ann}
    Tokens = {t1, t2, t3}
INVARIANTS
    ChainsSound
    OneUsablePerSession
    LogoutEndsSession
    SessionSurvives
PROPERTIES
    RotatedOnce
    DeactivationDrains
