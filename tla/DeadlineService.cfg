SPECIFICATION ServiceSpec
CONSTANTS
    Callers = {"app", "service"}
    Service = "service"
    Configurations <- MCConfigurations
    WithoutEpoch = {1}
    MaxSetup = 1
    MaxFailures = 1
    EpochAdjustment = 1
    MillisPerSecond = 2
    Skews <- MCSkews
    Durations = {0, 1}
    MaxTime = 2
INVARIANTS
    ServiceTypeOK
    CallersAgree
    DeadlineFollowsServer
PROPERTIES
    AnsweredInTheEnd
CHECK_DEADLOCK FALSE
