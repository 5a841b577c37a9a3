SPECIFICATION Spec
CONSTANTS
    Nil = Nil
    Blank = Blank
    UnknownTemplate = noTemplate
    Users = {ann, bob, boss}
    Admins = {boss}
    Handlers = {h1, h2}
    Templates = {gold}
    RequestIds = {r1}
    Slugs = {s1}
    Phones = {p1}
PROPERTIES
    ResolvedIsFinal
