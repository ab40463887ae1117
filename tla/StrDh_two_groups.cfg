SPECIFICATION Spec
CONSTANTS
    f = f
    g = g
    a = a
    b = b
    s = s
    t = t
    Members = {f, a, g, b}
    MembersOfS = {f, a}
    Services = {s, t}
    service_of_interest <- MCServiceOfInterest
    founder <- MCFounder
    member_count <- MCMemberCount
    InOrder = FALSE
    Scripted = FALSE
    MaxDuplicates = 1
INVARIANTS
    NoForeignKeys
CHECK_DEADLOCK FALSE
