SPECIFICATION Spec
CONSTANTS
    Nil = Nil
    NotFound = NotFound
    Handlers = {h1, h2}
    Pages = {p1, p2}
    Slugs = {s1, s2}
    Reserved = {}
    Contents = {c1, c2}
SYMMETRY Symmetry
INVARIANTS
    SlugNamesOnePage
    StaleOnlyIfRaced
PROPERTIES
    PurchaseSlugFollows
    StaysInStep
