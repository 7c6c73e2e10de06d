\* With --unskip and --no-skip a completed test runs again.
SPECIFICATION Spec
CONSTANTS
    N = 4
    NameOf <- MCNameOf
    SuiteOf <- MCSuiteOf
    StaticSkip = {4}
    HookExclude = {}
    Keys <- MCKeys
    Values <- MCValues
    Truthy <- MCTruthy
    Requirements <- MCRequirements
    Dashed <- MCDashed
    Pieces <- MCPieces
    ByName <- MCByName
    BySuite <- MCBySuite
    Joined <- MCJoined
    Assignments <- MCAssignments
    Settings <- MCSettings
    Alphabet <- EveryFlag
    MaxFlags = 2
CHECK_DEADLOCK FALSE
INVARIANT ResumeComposes
