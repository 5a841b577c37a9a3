SPECIFICATION RsvpSpec
CONSTANTS
    RsvpHandlers = {h1, h2}
    RsvpRows = {r1, r2}
    TypedNames <- MCTyped
    Trimmed <- MCTrim
    Headers = {k}
    Nothing = Nothing
SYMMETRY Interchangeable
PROPERTIES
    NamesakesRaced
    RepeatsRaced
    LostTogglesRaced
