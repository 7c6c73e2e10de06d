\* The port goes away at any moment, tests oversleep, host lines arrive damaged.
SPECIFICATION FairSpec
CONSTANTS
    N = 3
    NameOf <- MCNameOf
    SuiteOf <- MCSuiteOf
    StaticSkip = {}
    HookExclude = {}
    Keys <- MCKeys
    Values <- MCValues
    Truthy <- MCValues
    Requirements <- MCNoRequirements
    Names <- MCNames
    Suites <- MCSuites
    Runs <- MCRuns
    WireCap = 3
    MaxFaults = 3
    FaultKinds = {"drop", "oversleep", "garbleCommand"}
    Sleepers = {1, 2}
    Relapsers = {}
    Restarters = {}
    Failing = {}
    Slow = {}
    Standalone = FALSE
    MaxNaps = 5
    ArgsLines <- NoArgs
    InitialCommand <- RunAll
    OnDone = "WAIT"
    MaxSleepRetries = 3
    Resets <- AlwaysReset
    PromptHost = TRUE
INVARIANT RoundsInv
INVARIANT ProgressInv
PROPERTY NoRerun
PROPERTY Termination
\* The host ends and the board then may have nothing to do.
CHECK_DEADLOCK FALSE
