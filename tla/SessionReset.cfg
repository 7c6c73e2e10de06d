\* The board resets without a word.
SPECIFICATION FairSpec
CONSTANTS
    N = 3
    NameOf <- MCNameOf
    SuiteOf <- MCSuiteOf
    StaticSkip = {}
    HookExclude = {}
    Keys <- MCKeys
    Values <- MCValues
    Truthy <- MCValues
    Requirements <- MCNoRequirements
    Names <- MCNames
    Suites <- MCSuites
    Runs <- MCRuns
    WireCap = 2
    MaxFaults = 1
    FaultKinds = {"reset"}
    Sleepers = {2}
    Relapsers = {}
    Restarters = {}
    Failing = {}
    Slow = {}
    Standalone = FALSE
    MaxNaps = 5
    ArgsLines <- NoArgs
    InitialCommand <- RunAll
    OnDone = "WAIT"
    MaxSleepRetries = 3
    Resets <- AlwaysReset
    PromptHost = TRUE
PROPERTY Termination
\* The host ends and the board then may have nothing to do.
CHECK_DEADLOCK FALSE
