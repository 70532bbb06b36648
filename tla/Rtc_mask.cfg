SPECIFICATION Spec
CONSTANTS
    Readers = {r1}
    Writers = {w1, w2}
    Values = {2}
INVARIANT
    MaskRestored
