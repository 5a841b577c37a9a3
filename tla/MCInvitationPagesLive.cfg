SPECIFICATION FairSpec
CONSTANTS
    Nil = Nil
    NotFound = NotFound
    Handlers = {h1, h2}
    Pages = {p1}
    Slugs = {s1, s2}
    Reserved = {}
    Contents = {c1, c2}
PROPERTIES
    GuestsCatchUp
