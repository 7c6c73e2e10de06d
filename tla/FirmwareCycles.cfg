\* Every order of configure lines, runs, resumes, LIST and idle commands, with one
\* fault: a crash, a hang, a reset, power loss, an oversleep or a damaged line.
SPECIFICATION Spec
CONSTANTS
    N = 3
    NameOf <- MCNameOf
    SuiteOf <- MCSuiteOf
    StaticSkip = {}
    HookExclude = {}
    Keys <- MCKeys
    Values <- MCValues
    Truthy <- MCTruthy
    Requirements <- MCRequirements
    WireCap = 2
    MaxFaults = 1
    FaultKinds = {"crash", "hang", "reset", "drop", "oversleep", "garbleCommand", "init"}
    Sleepers = {2}
    Relapsers = {}
    Restarters = {2}
    Failing = {1}
    Slow = {2}
    Standalone = TRUE
    MaxNaps = 1
    HostMessages <- MCHostMessages
    RxCap = 1
    MaxArgs = 1
VIEW WithoutHistory
INVARIANT FirmwareTypeOK
INVARIANT WakeIsOfThisCycle
INVARIANT EnvIsOfThisCycle
