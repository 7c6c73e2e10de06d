\* At most one sleep too long or failed board_init. Three of five tests sleep or
\* restart, one is excluded, one needs an --env, two announce a long silence, one
\* is in no suite. Two sessions, the first of them without a reset.
SPECIFICATION FairSpec
CONSTANTS
    N = 5
    NameOf <- MCNameOf
    SuiteOf <- MCSuiteOf
    StaticSkip = {}
    HookExclude = {}
    Keys <- MCKeys
    Values <- MCValues
    Truthy <- MCValues
    Requirements <- MCRequirements
    Names <- MCNames
    Suites <- MCSuites
    Runs <- MCRuns
    WireCap = 3
    MaxFaults = 1
    FaultKinds = {"oversleep", "init"}
    Sleepers = {2, 3, 5}
    Relapsers = {}
    Restarters = {3}
    Failing = {}
    Slow = {3, 4}
    Standalone = FALSE
    MaxNaps = 5
    ArgsLines <- GpsArgs
    InitialCommand <- Run
    OnDone = "WAIT"
    MaxSleepRetries = 3
    Resets <- ResetSecond
    PromptHost = TRUE
INVARIANT PlanInv
INVARIANT ReasonInv
INVARIANT WakeIsPhaseTwo
INVARIANT ExpectedIsAsked
INVARIANT ArgsReachTheCycle
INVARIANT RedHasReason
PROPERTY PlanSpec
PROPERTY Termination
\* The host ends and the board then may have nothing to do.
CHECK_DEADLOCK FALSE
