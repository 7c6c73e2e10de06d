\* An ETST:ARGS line is damaged, and the command after it is not.
SPECIFICATION Spec
CONSTANTS
    N = 3
    NameOf <- MCNameOf
    SuiteOf <- MCSuiteOf
    StaticSkip = {}
    HookExclude = {}
    Keys <- MCKeys
    Values <- MCValues
    Truthy <- MCValues
    Requirements <- MCRequirements
    Names <- MCNames
    Suites <- MCSuites
    Runs <- MCRuns
    WireCap = 2
    MaxFaults = 1
    FaultKinds = {"garbleCommand"}
    Sleepers = {2}
    Relapsers = {}
    Restarters = {}
    Failing = {}
    Slow = {}
    Standalone = FALSE
    MaxNaps = 5
    ArgsLines <- GpsArgs
    InitialCommand <- RunAll
    OnDone = "WAIT"
    MaxSleepRetries = 3
    Resets <- AlwaysReset
    PromptHost = TRUE
INVARIANT ArgsReachTheCycle
\* The host ends and the board then may have nothing to do.
CHECK_DEADLOCK FALSE
