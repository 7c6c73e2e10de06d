\* Every command line of up to three flags. The enumeration of inputs stops.
SPECIFICATION Spec
CONSTANTS
    N = 4
    NameOf <- MCNameOf
    SuiteOf <- MCSuiteOf
    StaticSkip = {4}
    HookExclude = {}
    Keys <- MCKeys
    Values <- MCValues
    Truthy <- MCTruthy
    Requirements <- MCRequirements
    Dashed <- MCDashed
    Pieces <- MCPieces
    ByName <- MCByName
    BySuite <- MCBySuite
    Joined <- MCJoined
    Assignments <- MCAssignments
    Settings <- MCSettings
    Alphabet <- EveryFlag
    MaxFlags = 3
CHECK_DEADLOCK FALSE
INVARIANT ResumePartition
INVARIANT CountsMatch
INVARIANT PhaseTwoRunsSleeper
INVARIANT LaterFlagWins
INVARIANT AsTyped
INVARIANT BuildersAgree
