SPECIFICATION JointSpec
CONSTANTS
    Nil = Nil
    Blank = Blank
    UnknownTemplate = noTemplate
    Users = {ann, bob, boss}
    Admins = {boss}
    Handlers = {h1, h2}
    Openers = {o1}
    Templates = {gold}
    RequestIds = {r1, r2}
    Slugs = {s1, s2}
    Phones = {p1}
SYMMETRY Symmetry
INVARIANTS
    ApprovedHasPurchase
    BoughtOnce
    InvitedIfApproved
PROPERTIES
    ResolvedUnlessRaced
