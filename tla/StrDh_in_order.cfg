SPECIFICATION Spec
CONSTANTS
    f = f
    s = s
    a = a
    b = b
    c = c
    d = d
    Members = {f, a, b, c, d}
    Services = {s}
    service_of_interest <- MCServiceOfInterest
    founder <- MCFounder
    member_count <- MCOneTooMany
    InOrder = TRUE
    Scripted = FALSE
    MaxDuplicates = 0
SYMMETRY Subscribers
INVARIANTS
    TypeOK
    NoReassignment
    MapsAccurate
    GroupNotOverfull
PROPERTIES
    ImplementsGroupKeyAgreement
CHECK_DEADLOCK FALSE
