SPECIFICATION Spec
CONSTANTS
    f = f
    s = s
    a = a
    b = b
    Members = {f, a, b}
    Services = {s}
    service_of_interest <- MCServiceOfInterest
    founder <- MCFounder
    member_count <- MCMemberCount
    Network = "any"
    Vanish = FALSE
    MaxQueued = 1
SYMMETRY Subscribers
INVARIANTS
    TypeOK
    OneBaton
    ScheduledFlagsRight
PROPERTIES
    ImplementsGroupKeyAgreement
CHECK_DEADLOCK FALSE
