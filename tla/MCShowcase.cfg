SPECIFICATION FairSpec
CONSTANTS
    Nil = Nil
    Notice = Notice
    Handlers = {h1, h2}
    t1 = t1
    p1 = p1
    Templates <- MCTemplates
    Titles = {c1, c2}
    Purchases <- MCPurchases
    Comments = {good}
    Bought <- MCBought
    Asked <- MCAsked
INVARIANTS
    StaleOnlyIfRaced
PROPERTIES
    RemovalIsFinal
    VisitorsCatchUp
    CacheSpec
