SPECIFICATION Spec
CONSTANTS
    m1 = m1
    m2 = m2
    m3 = m3
    Members = {m1, m2, m3}
    First = m1
    MaxTerm = 3
    MaxIndex = 3
    MaxCrashes = 2
SYMMETRY Symmetry
INVARIANT SwitchKeepsConfirmed
CHECK_DEADLOCK FALSE
