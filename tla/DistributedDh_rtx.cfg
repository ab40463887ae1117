SPECIFICATION Spec
CONSTANTS
    f = f
    g = g
    s = s
    t = t
    a = a
    b = b
    c = c
    Members = {f, a, b, c}
    MembersOfS = {f, a, b, c}
    Services = {s}
    service_of_interest <- MCServiceOfInterest
    founder <- MCFounder
    member_count <- MCMemberCount
    NoSecret = NoSecret
    RETRANSMISSIONS = TRUE
    Unreliable = TRUE
    Scripted = FALSE
SYMMETRY SubscribersOfS
INVARIANTS
    TypeOK
    AcknowledgedHold
    HoldersKnown
    FinishedMeansAgreed
    TimestampsRecordedOnce
    SponsorStopsAgreed
PROPERTIES
    AgreementFinal
CHECK_DEADLOCK FALSE
