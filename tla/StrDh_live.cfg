SPECIFICATION FairSpec
CONSTANTS
    f = f
    s = s
    a = a
    b = b
    c = c
    Members = {f, a, b, c}
    Services = {s}
    service_of_interest <- MCServiceOfInterest
    founder <- MCFounder
    member_count <- MCMemberCount
    InOrder = TRUE
    Scripted = TRUE
    MaxDuplicates = 0
PROPERTIES
    AllContribute
CHECK_DEADLOCK FALSE
