SPECIFICATION Spec
CONSTANTS
    f = f
    s = s
    a = a
    b = b
    c = c
    Members = {f, a, b, c}
    Services = {s}
    service_of_interest <- MCServiceOfInterest
    founder <- MCFounder
    member_count <- MCMemberCount
    InOrder = FALSE
    Scripted = TRUE
    MaxDuplicates = 0
SYMMETRY Subscribers
INVARIANTS
    OneBaton
    KeysCompatible
    KeyAgreement
    SponsorKeyBlinded
    TimestampsRecordedOnce
PROPERTIES
    KeysGrow
CHECK_DEADLOCK FALSE
