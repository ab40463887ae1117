SPECIFICATION FairSpec
CONSTANTS
    f = f
    g = g
    s = s
    t = t
    a = a
    b = b
    c = c
    Members = {f, a, b, g, c}
    MembersOfS = {f, a, b}
    Services = {s, t}
    service_of_interest <- MCServiceOfInterest
    founder <- MCFounder
    member_count <- MCMemberCount
    NoSecret = NoSecret
    RETRANSMISSIONS = FALSE
    Unreliable = FALSE
    Scripted = TRUE
PROPERTIES
    AllStop
CHECK_DEADLOCK FALSE
