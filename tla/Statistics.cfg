SPECIFICATION FairSpec
CONSTANTS
    f = f
    a = a
    Members = {f, a}
    EndTime <- EachRecords
    Retransmissions = FALSE
    MaxEvaluations = 2
INVARIANTS
    TotalsExact
    NothingOld
PROPERTIES
    StatisticsWritten
CHECK_DEADLOCK FALSE
