SPECIFICATION FairSpec
CONSTANTS
    f = f
    s = s
    a = a
    b = b
    Members = {f, a, b}
    Services = {s}
    service_of_interest <- MCServiceOfInterest
    founder <- MCFounder
    member_count <- MCMemberCount
    Network = "ordered"
    Vanish = TRUE
    MaxQueued = 0
PROPERTIES
    TokenReturns
CHECK_DEADLOCK FALSE
