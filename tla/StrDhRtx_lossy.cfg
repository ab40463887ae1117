SPECIFICATION Spec
CONSTANTS
    f = f
    s = s
    a = a
    b = b
    c = c
    Members = {f, a, b, c}
    Services = {s}
    service_of_interest <- MCServiceOfInterest
    founder <- MCFounder
    member_count <- MCMemberCount
    Network = "ordered"
    Vanish = FALSE
    MaxQueued = 0
SYMMETRY Subscribers
INVARIANTS
    KnownCountsRight
    TokenMeansSynched
    FinishMeansKeyed
    SilentOnlyWhenTokenStuck
    RoleGoesOn
PROPERTIES
    FinishShutsDown
CHECK_DEADLOCK FALSE
