------------------------------ MODULE LineMode ------------------------------
(***************************************************************************)
(* A test partition in line-callback mode: PlatformIO owns the serial port  *)
(* and calls setup(), on_testing_line_output() for every line, teardown()   *)
(* (src/etst/runner.py).  The runner sends no command in this mode: whoever *)
(* sends it calls command_sent().                                           *)
(***************************************************************************)
EXTENDS Receivers

CONSTANT MaxLines  \* bound: lines of a partition

ASSUME LineModeAssumption == MaxLines \in Nat

VARIABLES
    stage,     \* "setup", "lines", "complete", "over"
    lines,     \* lines so far
    started,   \* _line_mode_test_started
    crashed,   \* crash_detector.triggered
    finished,  \* _finished_by_runner
    failures,  \* keys of _test_failures
    cases,     \* test_suite.cases: [name, status]
    finishes   \* calls of test_suite.on_finish()

caseVars == <<crashed, finished, failures, cases, finishes>>
lineVars == <<stage, lines, started, caseVars>>
lineModeVars == <<protocolVars, windowVars, timingVars, pluginVars, lineVars>>

Case(name, status) == [name |-> name, status |-> status]
Named(label, otherwise) ==
    IF label = NoLabel THEN Label("", otherwise) ELSE label

LineModeInit ==
    /\ ProtocolInit /\ ReceiversInit
    /\ stage = "setup" /\ lines = 0 /\ started = FALSE
    /\ crashed = FALSE /\ finished = FALSE
    /\ failures = {} /\ cases = {} /\ finishes = 0

LineTags == Tags \cup {"DISCONNECT", "RECONNECT", "CRASH", "FAIL"}
HostLines == [tag : LineTags, crc : {"ok", "bad"}, suite : Suites \cup {""},
              name : Names, run : Runs]

-----------------------------------------------------------------------------
(* on_partition_start() and on_partition_complete(), plugin by plugin.      *)
Notify ==
    /\ \/ stage = "setup" /\ NotifyNext("start")
       \/ stage = "complete" /\ NotifyNext("complete")
    /\ UNCHANGED <<protocolVars, windowVars, timingVars, lineVars>>

SetupEnds ==
    /\ stage = "setup" /\ AllNotified
    /\ stage' = "lines"
    /\ UNCHANGED <<protocolVars, windowVars, timingVars, pluginVars, lines,
                   started, caseVars>>

-----------------------------------------------------------------------------
(* on_testing_line_output().  Once a verdict is in, lines are ignored.      *)
LineComes ==
    /\ stage = "lines" /\ lines < MaxLines
    /\ lines' = lines + 1

IgnoreLine ==
    /\ LineComes /\ finished
    /\ UNCHANGED <<protocolVars, windowVars, timingVars, pluginVars, stage,
                   started, caseVars>>

(* A line after a gap longer than the timeout: the hang is the verdict, and *)
(* the line is dropped.                                                     *)
HangSeen ==
    /\ LineComes /\ ~finished
    /\ started /\ ~busy
    /\ cases' = cases \cup {Case(Named(CurrentTestFull, "unknown"), "ERRORED")}
    /\ finished' = TRUE /\ finishes' = finishes + 1
    /\ UNCHANGED <<protocolVars, windowVars, timingVars, pluginVars, stage,
                   started, crashed, failures>>

FailuresNow(ln) ==
    IF Heard(ln, "FAIL")
    THEN failures \cup {Named(CurrentTestFull', "unknown")} ELSE failures

(* The state compared with is read after the router has been fed.           *)
MutantReported(ln) ==
    IF pstate' = "FINISHED" /\ pstate' # pstate' THEN FailuresNow(ln) ELSE {}

(* _report_test_failures(), when DONE has come.                             *)
Reported(ln) ==
    IF pstate' = "FINISHED" /\ pstate # "FINISHED" THEN FailuresNow(ln) ELSE {}

(* The router's receivers, then _check_crash(), the failure check and the   *)
(* report.                                                                  *)
TakeLine(ln) ==
    /\ LineComes /\ ~finished
    /\ Feed(ln) /\ FeedWindow(ln) /\ FeedTiming(ln)
    /\ crashed' = (crashed \/ Heard(ln, "CRASH"))
    /\ finished' = crashed'
    /\ finishes' = finishes + IF crashed' THEN 1 ELSE 0
    /\ failures' = FailuresNow(ln)
    /\ cases' = cases
         \cup (IF crashed' THEN {Case(Named(CurrentTestFull', "crash"), "ERRORED")}
                           ELSE {})
         \cup {Case(f, "FAILED") : f \in Reported(ln)}
    /\ started' = (started \/ pstate' = "RUNNING")
    /\ UNCHANGED <<pluginVars, stage>>

(* Outside the runner: the command is sent, BUSY's time passes.             *)
Elsewhere ==
    /\ stage = "lines" /\ (CommandSent \/ BusyExpires)
    /\ UNCHANGED <<windowVars, timingVars, pluginVars, lineVars>>

-----------------------------------------------------------------------------
(* teardown(): the plugins, then the detector's own timeout.                *)
TeardownStarts ==
    /\ stage = "lines"
    /\ stage' = "complete" /\ notified' = 0
    /\ UNCHANGED <<protocolVars, windowVars, timingVars, told, lines, started,
                   caseVars>>

MutantTeardownEnds ==
    /\ stage = "complete" /\ AllNotified
    /\ stage' = "over"
    /\ crashed' \in {crashed, TRUE}
    /\ cases' = IF crashed'
                THEN cases \cup {Case(Label("", "hang"), "ERRORED")} ELSE cases
    /\ UNCHANGED <<protocolVars, windowVars, timingVars, pluginVars, lines,
                   started, finished, failures, finishes>>

TeardownEnds ==
    /\ stage = "complete" /\ AllNotified
    /\ stage' = "over"
    /\ IF finished THEN UNCHANGED <<crashed, cases>>
       ELSE /\ crashed' \in {crashed, TRUE}
            /\ cases' = IF crashed'
                        THEN cases \cup {Case(Label("", "hang"), "ERRORED")}
                        ELSE cases
    /\ UNCHANGED <<protocolVars, windowVars, timingVars, pluginVars, lines,
                   started, finished, failures, finishes>>

LineModeNext ==
    \/ Notify \/ SetupEnds
    \/ IgnoreLine \/ HangSeen
    \/ \E ln \in HostLines : TakeLine(ln)
    \/ Elsewhere
    \/ TeardownStarts \/ TeardownEnds

LineModeSpec == LineModeInit /\ [][LineModeNext]_lineModeVars

-----------------------------------------------------------------------------
(* Properties.                                                              *)

(* A partition gets one verdict: whatever hangs, crashes and times out, and *)
(* in whatever order, at most one error case, and the suite is finished at  *)
(* most once.                                                               *)
OneVerdict ==
    /\ \A c, d \in cases : c.status = "ERRORED" /\ d.status = "ERRORED" => c = d
    /\ finishes <= 1

(* on_testing_line_output() "checks for silent hangs": a test whose start   *)
(* has been heard since READY is watched for silence.  It is not, for want  *)
(* of command_sent(): see README, known limits.                             *)
TestsAreWatched ==
    stage = "lines" /\ pstate = "READY" /\ timing # NoLabel => started

(* Every failure heard by the time DONE comes has a FAILED case then, under *)
(* the test that was running.                                               *)
FailuresReported ==
    [][pstate # "FINISHED" /\ pstate' = "FINISHED" =>
           \A f \in failures' : Case(f, "FAILED") \in cases']_lineModeVars

(* A broken plugin is no other one's loss: every plugin that loads and has  *)
(* hooks hears of the start and of the end of the partition, once each.     *)
EveryPluginHears ==
    stage = "over" => \A i \in DOMAIN Attached :
        Attached[i] # "hookless" => told[i] = <<"start", "complete">>

(* The protocol and the timing tracker read the same lines by rules of      *)
(* their own: a test the protocol counts has a duration, or is being timed, *)
(* unless its line named no suite.                                          *)
CountedIsTimed ==
    stage # "setup" =>
        \A l \in completed : l \in timed \cup {timing} \/ l[2] \in bare

(* A window is counted when it closes: no RECONNECT closes one that was not *)
(* asked for, or the same one twice.                                        *)
WindowsPaired == cycles + (IF active THEN 1 ELSE 0) <= requests
=============================================================================
