------------------------------- MODULE Runner -------------------------------
(***************************************************************************)
(* The host: EmbeddedTestRunner in orchestrated mode, stage_testing() of    *)
(* src/etst/runner.py and what it calls.  One thread: hpc says where it is. *)
(*                                                                          *)
(*   open -> read <-> feed -> drain <-> drainFeed -> post -> linger -> loop *)
(*   loop -> wakeWait -> open   (a test sleeps: phase two)                  *)
(*   loop -> open               (resume after it)                           *)
(*   loop -> finish -> over                                                 *)
(*                                                                          *)
(* PlatformIO's own parser also adds cases to the suite, and which of them  *)
(* depends on its version; the model has only those the runner adds.        *)
(***************************************************************************)
EXTENDS ReadyRunProtocol, Registry, Link

CONSTANTS
    ArgsLines,       \* _args_lines: the flags of each ETST:ARGS line
    InitialCommand,  \* the first cycle's command
    OnDone,          \* ETST_ON_DONE in capitals, "NONE" for none
    MaxSleepRetries  \* MAX_SLEEP_RETRIES

ASSUME RunnerAssumption == MaxSleepRetries \in Nat

VARIABLES
    hpc,        \* where stage_testing() is
    cycle,      \* which cycle: "first", "phase2", "phase2Retry", "resume"
    target,     \* sleep_test: the test of this sleep/resume round
    retries,    \* sleep_retry_counts
    chunk,      \* lines of the data just read and not yet fed
    failures,   \* keys of _test_failures
    cases,      \* test_suite.cases: [name, status]
    crashed,    \* crash_detector.triggered
    finishedByRunner  \* _finished_by_runner

reportVars == <<failures, cases, crashed, finishedByRunner>>
roundVars == <<cycle, target, retries>>
runnerVars == <<hpc, roundVars, chunk, reportVars>>

HostPlaces == {"open", "read", "feed", "drain", "drainFeed", "post",
               "linger", "loop", "wakeWait", "finish", "over"}
Cycles == {"first", "phase2", "phase2Retry", "resume"}
Statuses == {"PASSED", "FAILED", "ERRORED"}

Case(name, status) == [name |-> name, status |-> status]
Special(name) == Label("", name)   \* ready_timeout, serial_error, ...
Named(label, otherwise) == IF label = NoLabel THEN Special(otherwise) ELSE label

RunnerInit ==
    /\ hpc = "open" /\ cycle = "first" /\ target = ""
    /\ retries = [n \in Names \cup {""} |-> 0]
    /\ chunk = <<>> /\ failures = {} /\ cases = {}
    /\ crashed = FALSE /\ finishedByRunner = FALSE

(* The next invocation: a new runner with a new protocol, as at first.      *)
Invoke ==
    /\ hpc' = "open" /\ cycle' = "first" /\ target' = ""
    /\ retries' = [n \in DOMAIN retries |-> 0]
    /\ chunk' = <<>> /\ failures' = {} /\ cases' = {}
    /\ crashed' = FALSE /\ finishedByRunner' = FALSE
    /\ ProtocolNew

-----------------------------------------------------------------------------
(* Commands.                                                                *)

(* _handle_sleep_resume(): RUN: --wake --tc "<name>".  An empty name is an  *)
(* empty token, which the device's tokenizer drops.                         *)
PhaseTwoCommand(name) ==
    Message("RUN:", "",
            IF name = "" THEN <<WakeFlag>>
            ELSE <<WakeFlag, FlagOn("--tc", {t \in Tests : NameOf[t] = name})>>)

MutantResumeCommand(name) == Message("RUN_ALL", "", <<>>)

ResumeCommand(name) == Message("RESUME_AFTER", name, <<>>)

CommandOf(c) ==
    CASE c = "first"  -> InitialCommand
      [] c = "resume" -> ResumeCommand(target)
      [] OTHER        -> PhaseTwoCommand(target)

(* The ETST:ARGS lines, then the command.                                   *)
Script(c) ==
    [i \in 1..Len(ArgsLines) |-> Message("ARGS", "", ArgsLines[i])]
        \o <<CommandOf(c)>>

-----------------------------------------------------------------------------
MutantRaise(kind) ==
    \/ /\ kind = "serial_error" /\ cycle \in {"phase2", "phase2Retry"}
       /\ cycle' = "phase2Retry" /\ hpc' = "open"
       /\ UNCHANGED <<target, retries, failures, cases, crashed>>
    \/ /\ ~(kind = "serial_error" /\ cycle \in {"phase2", "phase2Retry"})
       /\ cases' = cases \cup {Case(Special(kind), "ERRORED")}
       /\ hpc' = "finish"
       /\ UNCHANGED <<roundVars, failures, crashed>>

(* An exception that leaves _run_test_cycle().  In phase two a serial       *)
(* exception is answered by one more try five seconds later, on the handle  *)
(* as it is; any other ends the session with an error case.                 *)
Raise(kind) ==
    \/ /\ kind = "serial_error" /\ cycle = "phase2"
       /\ cycle' = "phase2Retry" /\ hpc' = "open"
       /\ UNCHANGED <<target, retries, failures, cases, crashed>>
    \/ /\ ~(kind = "serial_error" /\ cycle = "phase2")
       /\ cases' = cases \cup {Case(Special(kind), "ERRORED")}
       /\ hpc' = "finish"
       /\ UNCHANGED <<roundVars, failures, crashed>>

(* _run_test_cycle() starts: reset() and _open_serial(), which returns at   *)
(* once when a handle is still there.                                       *)
OpenPort ==
    /\ hpc = "open"
    /\ Reset
    /\ finishedByRunner' = FALSE
    /\ IF handle = "closed" THEN Opens ELSE UNCHANGED <<handle, wire>>
    /\ hpc' = "read"
    /\ UNCHANGED <<roundVars, chunk, failures, cases, crashed, port, faults>>

(* The port is not there: open_serial() gives up after its retries, or the  *)
(* port finder does.                                                        *)
OpenFails ==
    /\ hpc = "open" /\ handle = "closed" /\ ~port
    /\ Reset
    /\ finishedByRunner' = FALSE
    /\ Raise("serial_error") \/ Raise("runner_error")
    /\ UNCHANGED <<chunk, linkVars>>

-----------------------------------------------------------------------------
(* Reading: a chunk of whole lines, fed one by one.                         *)

ReadInto(place) ==
    /\ handle = "live" /\ wire # <<>>
    /\ \E k \in 1..Len(wire) :
          /\ chunk' = SubSeq(wire, 1, k)
          /\ wire' = SubSeq(wire, k + 1, Len(wire))
    /\ hpc' = place
    /\ UNCHANGED <<protocolVars, roundVars, reportVars,
                   port, handle, toDev, faults>>

ReadChunk == hpc = "read" /\ ReadInto("feed")

(* _on_serial_data(): the protocol sees the line first, then the crash and  *)
(* the failure check.  After a crash the rest of the chunk is dropped.      *)
FeedLine ==
    /\ hpc \in {"feed", "drainFeed"} /\ chunk # <<>>
    /\ LET ln == Head(chunk)
           crash == crashed \/ Heard(ln, "CRASH")
           report == crash /\ ~finishedByRunner
       IN  /\ Feed(ln)
           /\ crashed' = crash
           /\ finishedByRunner' = (finishedByRunner \/ report)
           /\ cases' = IF report
                       THEN cases \cup {Case(Named(CurrentTestFull', "crash"),
                                             "ERRORED")}
                       ELSE cases
           /\ failures' = IF Heard(ln, "FAIL")
                          THEN failures \cup {Named(CurrentTestFull', "unknown")}
                          ELSE failures
           /\ chunk' = IF finishedByRunner' THEN <<>> ELSE Tail(chunk)
    /\ UNCHANGED <<hpc, roundVars, linkVars>>

MutantWithFailures == cases

(* _report_test_failures().                                                 *)
WithFailures == cases \cup {Case(f, "FAILED") : f \in failures}

-----------------------------------------------------------------------------
(* The main loop after a chunk.  READY is answered at once.                 *)

Checking == hpc = "feed" /\ chunk = <<>>
LeaveIfCrashed == hpc' = IF crashed THEN "drain" ELSE "read"

SendCommand ==
    /\ Checking /\ pstate = "READY" /\ handle = "live"
    /\ toDev' = toDev \o Script(cycle)
    /\ CommandSent
    /\ LeaveIfCrashed
    /\ UNCHANGED <<roundVars, chunk, reportVars, port, handle, wire, faults>>

SendRaises ==
    /\ Checking /\ pstate = "READY" /\ handle = "stale"
    /\ Raise("serial_error")
    /\ UNCHANGED <<protocolVars, chunk, finishedByRunner, linkVars>>

SeesDone ==
    /\ Checking /\ pstate = "FINISHED"
    /\ cases' = WithFailures
    /\ hpc' = "post"
    /\ UNCHANGED <<protocolVars, roundVars, chunk, failures, crashed,
                   finishedByRunner, linkVars>>

SeesError ==
    /\ Checking /\ pstate = "ERROR"
    /\ cases' = cases \cup {Case(Special("device_error"), "ERRORED")}
    /\ hpc' = "drain"
    /\ UNCHANGED <<protocolVars, roundVars, chunk, failures, crashed,
                   finishedByRunner, linkVars>>

SeesSleep ==
    /\ Checking /\ pstate = "SLEEPING"
    /\ hpc' = "drain"
    /\ UNCHANGED <<protocolVars, roundVars, chunk, reportVars, linkVars>>

SeesNothing ==
    /\ Checking /\ pstate \in {"WAITING_FOR_READY", "RUNNING"}
    /\ LeaveIfCrashed
    /\ UNCHANGED <<protocolVars, roundVars, chunk, reportVars, linkVars>>

-----------------------------------------------------------------------------
(* The main loop when nothing arrives.                                      *)

EmptyRead == hpc = "read" /\ handle = "live" /\ wire = <<>>

(* A crash of an earlier cycle is still triggered.                          *)
LeavesForOldCrash ==
    /\ EmptyRead /\ crashed
    /\ hpc' = "drain"
    /\ UNCHANGED <<protocolVars, roundVars, chunk, reportVars, linkVars>>

ReadyTimeout ==
    /\ EmptyRead /\ pstate = "WAITING_FOR_READY"
    /\ cases' = cases \cup {Case(Special("ready_timeout"), "ERRORED")}
    /\ hpc' = "drain"
    /\ UNCHANGED <<protocolVars, roundVars, chunk, failures, crashed,
                   finishedByRunner, linkVars>>

MutantHangTimeout ==
    /\ EmptyRead /\ pstate = "RUNNING" /\ ~busy
    /\ hpc' = "drain"
    /\ UNCHANGED <<protocolVars, roundVars, chunk, reportVars, linkVars>>

HangTimeout ==
    /\ EmptyRead /\ pstate = "RUNNING" /\ ~busy
    /\ cases' = cases \cup {Case(Named(CurrentTestFull, "unknown"), "ERRORED")}
    /\ hpc' = "drain"
    /\ UNCHANGED <<protocolVars, roundVars, chunk, failures, crashed,
                   finishedByRunner, linkVars>>

(* A read on a stale handle raises: while RUNNING that is the end of the    *)
(* cycle (the drain's first read raises too), otherwise it is passed on.    *)
PortGoneWhileRunning ==
    /\ hpc = "read" /\ handle = "stale" /\ pstate = "RUNNING"
    /\ hpc' = "post"
    /\ UNCHANGED <<protocolVars, roundVars, chunk, reportVars, linkVars>>

ReadRaises ==
    /\ hpc = "read" /\ handle = "stale" /\ pstate # "RUNNING"
    /\ Raise("serial_error")
    /\ UNCHANGED <<protocolVars, chunk, finishedByRunner, linkVars>>

-----------------------------------------------------------------------------
(* Up to ten more seconds for DONE; nothing is sent and no state but        *)
(* FINISHED ends it.                                                        *)

DrainChunk == hpc = "drain" /\ ReadInto("drainFeed")

DrainCheck ==
    /\ hpc = "drainFeed" /\ chunk = <<>>
    /\ IF pstate = "FINISHED"
       THEN cases' = WithFailures /\ hpc' = "post"
       ELSE hpc' = "drain" /\ UNCHANGED cases
    /\ UNCHANGED <<protocolVars, roundVars, chunk, failures, crashed,
                   finishedByRunner, linkVars>>

(* The deadline, or a read that raises.                                     *)
DrainEnds ==
    /\ hpc = "drain"
    /\ hpc' = "post"
    /\ UNCHANGED <<protocolVars, roundVars, chunk, reportVars, linkVars>>

(* The post-test command is written without a CRC, after every cycle but    *)
(* phase two; on a stale handle the write's exception is swallowed.         *)
PostTestMessages ==
    IF cycle # "phase2" /\ OnDone # "NONE" /\ handle = "live"
    THEN <<[Message(OnDone, "", <<>>) EXCEPT !.crc = "absent"]>>
    ELSE <<>>

PostTest ==
    /\ hpc = "post"
    /\ toDev' = toDev \o PostTestMessages
    /\ IF PostTestMessages # <<>>
       THEN hpc' = "linger" /\ UNCHANGED handle
       ELSE hpc' = "loop" /\ Closes
    /\ UNCHANGED <<protocolVars, roundVars, chunk, reportVars, port, wire,
                   faults>>

(* One second later the handle is closed, with all the driver has received. *)
LingerOver ==
    /\ hpc = "linger"
    /\ Closes
    /\ wire' = <<>>
    /\ hpc' = "loop"
    /\ UNCHANGED <<protocolVars, roundVars, chunk, reportVars, port, toDev,
                   faults>>

-----------------------------------------------------------------------------
(* stage_testing()'s loop over sleeps.                                      *)

MutantRetryLeft == TRUE

RetryLeft == retries[sleepName] < MaxSleepRetries

(* _handle_sleep_resume() up to waiting for the port to drop and return.    *)
AwaitWake ==
    /\ hpc = "loop" /\ pstate = "SLEEPING" /\ RetryLeft
    /\ retries' = [retries EXCEPT ![sleepName] = @ + 1]
    /\ target' = sleepName
    /\ Closes
    /\ hpc' = "wakeWait"
    /\ UNCHANGED <<protocolVars, cycle, chunk, reportVars, port, wire, toDev,
                   faults>>

GiveUp ==
    /\ hpc = "loop" /\ pstate = "SLEEPING" /\ ~RetryLeft
    /\ cases' = cases \cup {Case(Special(sleepName), "ERRORED")}
    /\ Closes
    /\ hpc' = "finish"
    /\ UNCHANGED <<protocolVars, roundVars, chunk, failures, crashed,
                   finishedByRunner, port, wire, toDev, faults>>

(* The port is back, or did not come back in time: phase two either way.    *)
StartPhaseTwo ==
    /\ hpc = "wakeWait"
    /\ ResetForWake
    /\ cycle' = "phase2"
    /\ hpc' = "open"
    /\ UNCHANGED <<target, retries, chunk, reportVars, linkVars>>

MutantAfterPhaseTwo == target # ""

AfterPhaseTwo == cycle \in {"phase2", "phase2Retry"} /\ target # ""

(* However phase two ended, unless in another sleep, the rest is run next.  *)
StartResume ==
    /\ hpc = "loop" /\ pstate # "SLEEPING" /\ AfterPhaseTwo
    /\ cycle' = "resume"
    /\ hpc' = "open"
    /\ UNCHANGED <<protocolVars, target, retries, chunk, reportVars, linkVars>>

NoMoreCycles ==
    /\ hpc = "loop" /\ pstate # "SLEEPING" /\ ~AfterPhaseTwo
    /\ hpc' = "finish"
    /\ UNCHANGED <<protocolVars, roundVars, chunk, reportVars, linkVars>>

-----------------------------------------------------------------------------
(* The finally block.  _ensure_test_results(): a case without a name is     *)
(* dropped, and every test that was started and has no case counts as       *)
(* passed; _check_for_under_run() compares their number with the first      *)
(* COUNTS.                                                                  *)
KeptCases == {c \in cases : c.name # NoLabel}

PassedCases ==
    {Case(l, "PASSED") : l \in (completed \ {c.name : c \in KeptCases}) \ failures}

UnderRunCases ==
    IF Cardinality(completed) < expectedRun
    THEN {Case(Special("under_run"), "ERRORED")} ELSE {}

Finish ==
    /\ hpc = "finish"
    /\ Closes
    /\ cases' = KeptCases \cup PassedCases \cup UnderRunCases
    /\ hpc' = "over"
    /\ UNCHANGED <<protocolVars, roundVars, chunk, failures, crashed,
                   finishedByRunner, port, wire, toDev, faults>>

Green == hpc = "over" /\ \A c \in cases : c.status = "PASSED"

-----------------------------------------------------------------------------
(* Every variable keeps its type.                                           *)
RunnerTypeOK ==
    /\ hpc \in HostPlaces
    /\ cycle \in Cycles
    /\ target \in Names \cup {""}
    /\ retries \in [Names \cup {""} -> 0..MaxSleepRetries]
    /\ \A c \in cases : c.status \in Statuses
    /\ crashed \in BOOLEAN /\ finishedByRunner \in BOOLEAN
    /\ chunk # <<>> => hpc \in {"feed", "drainFeed"}

-----------------------------------------------------------------------------
(* Steps the host takes by itself; the rest wait for a clock.               *)
HostSteps ==
    \/ ReadChunk \/ FeedLine
    \/ SendCommand \/ SendRaises \/ SeesDone \/ SeesError \/ SeesSleep
    \/ SeesNothing \/ LeavesForOldCrash \/ PortGoneWhileRunning \/ ReadRaises
    \/ DrainChunk \/ DrainCheck \/ DrainEnds \/ PostTest
    \/ AwaitWake \/ GiveUp \/ StartResume \/ NoMoreCycles \/ Finish
=============================================================================
