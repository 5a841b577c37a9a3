SPECIFICATION Spec
CONSTANTS
    Nil = Nil
    Handlers = {h1, h2}
    e1 = e1
    a1 = a1
    v1 = v1
    r1 = r1
    Emails <- MCEmails
    Addresses <- MCAddresses
    Visitors <- MCVisitors
    Rates <- MCRates
    Limit <- MCLimit
    MaxArrivals = 3
    MaxFails = 3
SYMMETRY Symmetry
INVARIANTS
    FailuresCounted
    GuessesBounded
    RateHeld
