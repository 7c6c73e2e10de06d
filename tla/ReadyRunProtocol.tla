-------------------------- MODULE ReadyRunProtocol --------------------------
(***************************************************************************)
(* The host's protocol state machine, class ReadyRunProtocol of             *)
(* src/etst/ready_run_protocol.py.  feed() is one action per branch; the    *)
(* remaining methods that change state are one action each.                 *)
(*                                                                          *)
(* A line is a record of module Link: its tag, the outcome of its CRC check *)
(* and the payload fields a branch reads.  A test's full name               *)
(* ("suite/name") is the pair <<suite, name>>.                              *)
(***************************************************************************)
EXTENDS Naturals, Sequences

CONSTANTS
    Names,   \* test case names
    Suites,  \* test suite names
    Runs     \* values a COUNTS line can report

ASSUME ProtocolAssumption ==
    /\ "" \notin Names
    /\ "" \notin Suites
    /\ Runs \subseteq Nat

VARIABLES
    pstate,       \* _state
    curSuite,     \* _current_test_suite
    curName,      \* _current_test_name
    sleepName,    \* _sleeping_test_name
    completed,    \* _completed_tests, a list without duplicates
    expectedRun,  \* _expected_run
    latched,      \* _expected_run_latched
    busy,         \* is_busy: the clock has not passed _busy_until
    accArgs       \* _accumulated_args

protocolVars == <<pstate, curSuite, curName, sleepName, completed,
                  expectedRun, latched, busy, accArgs>>

(* The fields that reset() leaves alone.                                    *)
sessionVars == <<completed, expectedRun, latched>>

PStates == {"WAITING_FOR_READY", "READY", "RUNNING", "SLEEPING",
            "FINISHED", "ERROR"}
Labels == (Suites \cup {""}) \X Names

Label(suite, name) == <<suite, name>>
NoLabel == <<"", "">>

(* current_test_full: empty unless both parts are known.                    *)
CurrentTestFull ==
    IF curSuite # "" /\ curName # "" THEN Label(curSuite, curName) ELSE NoLabel

ProtocolInit ==
    /\ pstate = "WAITING_FOR_READY"
    /\ curSuite = "" /\ curName = "" /\ sleepName = ""
    /\ completed = {}
    /\ expectedRun = 0 /\ latched = FALSE
    /\ busy = FALSE
    /\ accArgs = <<>>

-----------------------------------------------------------------------------
(* feed(): a line whose CRC is wrong is ignored, one without a CRC counts.  *)

Heard(ln, tag) == ln.tag = tag /\ ln.crc # "bad"

FeedReadyWhileWaiting(ln) ==
    /\ pstate = "WAITING_FOR_READY" /\ Heard(ln, "READY")
    /\ pstate' = "READY"
    /\ accArgs' = <<>>
    /\ UNCHANGED <<curSuite, curName, sleepName, sessionVars, busy>>

FeedArgs(ln) ==
    /\ pstate = "READY" /\ (Heard(ln, "ARGS") \/ Heard(ln, "ARG"))
    /\ accArgs' = Append(accArgs, ln.name)
    /\ UNCHANGED <<pstate, curSuite, curName, sleepName, sessionVars, busy>>

(* An ERROR counts both while READY and while RUNNING.                      *)
FeedError(ln) ==
    /\ pstate \in {"READY", "RUNNING"} /\ Heard(ln, "ERROR")
    /\ pstate' = "ERROR"
    /\ UNCHANGED <<curSuite, curName, sleepName, sessionVars, busy, accArgs>>

MutantFeedReadyWhileRunning(ln) ==
    /\ pstate = "RUNNING" /\ Heard(ln, "READY") /\ curName = ""
    /\ UNCHANGED protocolVars

(* READY while RUNNING with no test started: the command was lost.          *)
FeedReadyWhileRunning(ln) ==
    /\ pstate = "RUNNING" /\ Heard(ln, "READY") /\ curName = ""
    /\ pstate' = "READY"
    /\ UNCHANGED <<curSuite, curName, sleepName, sessionVars, busy, accArgs>>

MutantFeedCaseStartSuite(ln) ==
    /\ pstate = "RUNNING" /\ Heard(ln, "CASE:START")
    /\ curSuite' = ln.suite
    /\ curName' = ln.name
    /\ completed' = completed \cup {Label(ln.suite, curName)}
    /\ UNCHANGED <<pstate, sleepName, expectedRun, latched, busy, accArgs>>

(* A suite or a name that is missing or empty leaves the last one standing. *)
FeedCaseStart(ln) ==
    /\ pstate = "RUNNING" /\ Heard(ln, "CASE:START")
    /\ curSuite' = IF ln.suite # "" THEN ln.suite ELSE curSuite
    /\ curName' = IF ln.name # "" THEN ln.name ELSE curName
    /\ completed' = IF ln.name # ""
                    THEN completed \cup {Label(curSuite', ln.name)}
                    ELSE completed
    /\ UNCHANGED <<pstate, sleepName, expectedRun, latched, busy, accArgs>>

MutantFeedCountsLast(ln) ==
    /\ pstate = "RUNNING" /\ Heard(ln, "COUNTS")
    /\ expectedRun' = ln.run
    /\ latched' = TRUE
    /\ UNCHANGED <<pstate, curSuite, curName, sleepName, completed, busy,
                   accArgs>>

(* The first COUNTS of the session is kept as the expected total.           *)
FeedCounts(ln) ==
    /\ pstate = "RUNNING" /\ Heard(ln, "COUNTS")
    /\ expectedRun' = IF latched THEN expectedRun ELSE ln.run
    /\ latched' = TRUE
    /\ UNCHANGED <<pstate, curSuite, curName, sleepName, completed, busy,
                   accArgs>>

MutantFeedSleepLine(ln) ==
    /\ pstate = "RUNNING" /\ (Heard(ln, "SLEEP") \/ Heard(ln, "RESTART"))
    /\ sleepName' = ln.name
    /\ pstate' = "SLEEPING"
    /\ UNCHANGED <<curSuite, curName, sessionVars, busy, accArgs>>

(* SLEEP and RESTART share the flow: the running test is remembered.        *)
FeedSleep(ln) ==
    /\ pstate = "RUNNING" /\ (Heard(ln, "SLEEP") \/ Heard(ln, "RESTART"))
    /\ sleepName' = curName
    /\ pstate' = "SLEEPING"
    /\ UNCHANGED <<curSuite, curName, sessionVars, busy, accArgs>>

MutantFeedBusy(ln) ==
    /\ pstate = "RUNNING" /\ Heard(ln, "BUSY")
    /\ busy' = FALSE
    /\ UNCHANGED <<pstate, curSuite, curName, sleepName, sessionVars, accArgs>>

FeedBusy(ln) ==
    /\ pstate = "RUNNING" /\ Heard(ln, "BUSY")
    /\ busy' = TRUE
    /\ UNCHANGED <<pstate, curSuite, curName, sleepName, sessionVars, accArgs>>

FeedDone(ln) ==
    /\ pstate = "RUNNING" /\ Heard(ln, "DONE")
    /\ pstate' = "FINISHED"
    /\ UNCHANGED <<curSuite, curName, sleepName, sessionVars, busy, accArgs>>

(* Which tags the current state acts on; every other line changes nothing.  *)
ActsOn(ln) ==
    /\ ln.crc # "bad"
    /\ \/ pstate = "WAITING_FOR_READY" /\ ln.tag = "READY"
       \/ pstate = "READY" /\ ln.tag \in {"ARGS", "ARG", "ERROR"}
       \/ pstate = "RUNNING" /\ ln.tag \in {"CASE:START", "COUNTS", "SLEEP",
                                            "RESTART", "BUSY", "DONE", "ERROR"}
       \/ pstate = "RUNNING" /\ ln.tag = "READY" /\ curName = ""

FeedIgnored(ln) == ~ActsOn(ln) /\ UNCHANGED protocolVars

Feed(ln) ==
    \/ FeedReadyWhileWaiting(ln)
    \/ FeedArgs(ln)
    \/ FeedError(ln)
    \/ FeedReadyWhileRunning(ln)
    \/ FeedCaseStart(ln)
    \/ FeedCounts(ln)
    \/ FeedSleep(ln)
    \/ FeedBusy(ln)
    \/ FeedDone(ln)
    \/ FeedIgnored(ln)

-----------------------------------------------------------------------------
(* The other methods that change state.  The runner calls them.             *)

CommandSent ==
    /\ pstate = "READY"
    /\ pstate' = "RUNNING"
    /\ UNCHANGED <<curSuite, curName, sleepName, sessionVars, busy, accArgs>>

ResetForWake ==
    /\ pstate' = IF pstate = "SLEEPING" THEN "WAITING_FOR_READY" ELSE pstate
    /\ UNCHANGED <<curSuite, curName, sleepName, sessionVars, busy, accArgs>>

(* reset(): a new cycle of the same session.                                *)
Reset ==
    /\ pstate' = "WAITING_FOR_READY"
    /\ curSuite' = "" /\ curName' = "" /\ sleepName' = ""
    /\ accArgs' = <<>>
    /\ UNCHANGED <<sessionVars, busy>>

(* reset_all(): a new session.                                              *)
ResetAll ==
    /\ pstate' = "WAITING_FOR_READY"
    /\ curSuite' = "" /\ curName' = "" /\ sleepName' = ""
    /\ accArgs' = <<>>
    /\ completed' = {} /\ expectedRun' = 0 /\ latched' = FALSE
    /\ UNCHANGED busy

(* __init__(): a new object, its clock included.                            *)
ProtocolNew ==
    /\ pstate' = "WAITING_FOR_READY"
    /\ curSuite' = "" /\ curName' = "" /\ sleepName' = ""
    /\ accArgs' = <<>>
    /\ completed' = {} /\ expectedRun' = 0 /\ latched' = FALSE
    /\ busy' = FALSE

(* The monotonic clock passes _busy_until.                                  *)
BusyExpires ==
    /\ busy
    /\ busy' = FALSE
    /\ UNCHANGED <<pstate, curSuite, curName, sleepName, sessionVars, accArgs>>

-----------------------------------------------------------------------------
(* The state machine on its own: any line and any call, in any order.       *)

Tags == {"READY", "ARGS", "ARG", "ERROR", "CASE:START", "COUNTS", "SLEEP",
         "RESTART", "BUSY", "DONE", "WARN"}
DeviceLines == [tag : Tags, crc : {"ok", "bad", "absent"},
                suite : Suites \cup {""}, name : Names \cup {""}, run : Runs]

ProtocolNext ==
    \/ \E ln \in DeviceLines : Feed(ln)
    \/ CommandSent \/ ResetForWake \/ Reset \/ ResetAll \/ BusyExpires

ProtocolSpec == ProtocolInit /\ [][ProtocolNext]_protocolVars

-----------------------------------------------------------------------------
(* Properties.                                                              *)

(* Every field keeps its type.                                              *)
ProtocolTypeOK ==
    /\ pstate \in PStates
    /\ curSuite \in Suites \cup {""}
    /\ curName \in Names \cup {""}
    /\ sleepName \in Names \cup {""}
    /\ completed \subseteq Labels
    /\ expectedRun \in Runs \cup {0}
    /\ latched \in BOOLEAN
    /\ busy \in BOOLEAN
    /\ accArgs \in Seq(Names \cup {""})

(* The runner resumes after _sleeping_test_name and counts a run by         *)
(* _completed_tests: whatever test it will resume must be counted, and a    *)
(* running test is always counted, in whatever order lines arrive or are    *)
(* lost.                                                                    *)
SleepIsCounted ==
    \A n \in {curName, sleepName} :
        n # "" => \E s \in Suites \cup {""} : Label(s, n) \in completed

(* Within a session the expected total, once reported, never moves, and no  *)
(* test is forgotten; only reset_all() starts over, and then everything     *)
(* session-scoped starts over together.                                     *)
SessionScoped ==
    [][ \/ /\ completed \subseteq completed'
           /\ latched => latched' /\ expectedRun' = expectedRun
        \/ completed' = {} /\ ~latched' /\ expectedRun' = 0 ]_sessionVars
=============================================================================
