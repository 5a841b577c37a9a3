SPECIFICATION Spec
CONSTANTS
    Nil = Nil
    Files = {f1}
    Pictures = {p1, p2}
    Videos = {v1}
    Keys = {k1, k2}
    MaxUploads = 0
    MaxOld = 1
SYMMETRY Symmetry
PROPERTIES
    OnlyRemovedCleaned
