\* Tests hang, crash, oversleep and sleep again and again; host lines arrive
\* damaged and are asked for again.
SPECIFICATION FairSpec
CONSTANTS
    N = 3
    NameOf <- MCNameOf
    SuiteOf <- MCSuiteOf
    StaticSkip = {}
    HookExclude = {}
    Keys <- MCKeys
    Values <- MCValues
    Truthy <- MCValues
    Requirements <- MCNoRequirements
    Names <- MCNames
    Suites <- MCSuites
    Runs <- MCRuns
    WireCap = 3
    MaxFaults = 2
    FaultKinds = {"hang", "crash", "oversleep", "garbleCommand", "init"}
    Sleepers = {2}
    Relapsers = {2}
    Restarters = {}
    Failing = {}
    Slow = {3}
    Standalone = FALSE
    MaxNaps = 5
    ArgsLines <- NoArgs
    InitialCommand <- RunAll
    OnDone = "WAIT"
    MaxSleepRetries = 3
    Resets <- AlwaysReset
    PromptHost = TRUE
INVARIANT RunnerTypeOK
INVARIANT GreenIsEarned
INVARIANT NapsBounded
PROPERTY PlanSpec
PROPERTY Termination
\* The host ends and the board then may have nothing to do.
CHECK_DEADLOCK FALSE
