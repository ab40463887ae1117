SPECIFICATION FairSpec
CONSTANTS
    f = f
    g = g
    s = s
    t = t
    a = a
    b = b
    c = c
    Members = {f, a, b}
    MembersOfS = {f, a, b}
    Services = {s}
    service_of_interest <- MCServiceOfInterest
    founder <- MCFounder
    member_count <- MCMemberCount
    NoSecret = NoSecret
    RETRANSMISSIONS = TRUE
    Unreliable = TRUE
    Scripted = FALSE
PROPERTIES
    AllAgree
    SponsorsStop
CHECK_DEADLOCK FALSE
