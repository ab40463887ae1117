SPECIFICATION StartupSpec
CONSTANTS
    MemberCount = 3
    Processes <- MCProcesses
    Ports = {1, 2}
INVARIANTS
    PortsDistinct
    FounderLast
PROPERTIES
    ImplementsPortChoice
CHECK_DEADLOCK FALSE
