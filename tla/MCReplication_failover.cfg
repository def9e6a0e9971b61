SPECIFICATION Spec
CONSTANTS
    m1 = m1
    m2 = m2
    m3 = m3
    Members = {m1, m2, m3}
    First = m1
    MaxTerm = 3
    MaxIndex = 2
    MaxCrashes = 1
SYMMETRY Symmetry
INVARIANTS
    TypeOK
    OnePrimaryPerTerm
    ConfirmedOnTwo
    ConfirmedSurvives
    ReplicaHoldsPrefix
    ServesEstablishedTerm
    
CHECK_DEADLOCK FALSE
