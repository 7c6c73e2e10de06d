\* Two names, one suite (and none): the protocol for a session of any length,
\* a partition of up to five lines, seven lines of test output, damaged contents
\* of up to five bytes.
SPECIFICATION Spec
CONSTANTS
    Names = {"a", "b"}
    Suites = {"S"}
    Runs = {1, 2}
    MaxArgs = 1
    EntryPoints <- MCEntryPoints
    MaxLines = 5
    Titles = {"p"}
    MaxHeard = 7
    Contents <- MCContents
    Bursts <- MCBursts
CONSTRAINT BoundedArgs
INVARIANT ProtocolTypeOK
INVARIANT SleepIsCounted
PROPERTY SessionScoped
INVARIANT OneVerdict
PROPERTY FailuresReported
INVARIANT EveryPluginHears
INVARIANT CountedIsTimed
INVARIANT WindowsPaired
INVARIANT OneOutcome
INVARIANT FailuresKept
INVARIANT GarbledIsRejected
INVARIANT WholeIsAccepted
CHECK_DEADLOCK FALSE
