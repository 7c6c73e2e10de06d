----------------------------- MODULE LineProofs -----------------------------
(***************************************************************************)
(* Theorems of what makes sense of the board's output line by line:         *)
(* ReadyRunProtocol, whatever lines arrive and whatever methods are called, *)
(* LineMode, which drives it, ResultReceiver, which reads the output of     *)
(* doctest or Unity itself, and WireFormat, the CRC of a line.  For every   *)
(* set of names, suites and counts, any plugins and contents, and all       *)
(* bounds.                                                                  *)
(***************************************************************************)
EXTENDS LineMode, ResultReceiver, WireFormat, SequenceTheorems,
        WellFoundedInduction, TLAPS

-----------------------------------------------------------------------------
(* The protocol.                                                            *)

ProtocolInv == ProtocolTypeOK /\ SleepIsCounted

(* A step of the protocol's state machine keeps the types of its fields.    *)
LEMMA ProtocolTypeStep ==
    ASSUME ProtocolTypeOK, [ProtocolNext]_protocolVars
    PROVE  ProtocolTypeOK'
<1> USE ProtocolAssumption DEF ProtocolTypeOK, PStates, Labels, Label,
        protocolVars, sessionVars
<1>0. <<>> \in Seq(Names \cup {""})
  BY EmptySeq
<1>1. ASSUME NEW ln \in DeviceLines, Feed(ln) PROVE ProtocolTypeOK'
  <2>0. ln.name \in Names \cup {""} /\ ln.suite \in Suites \cup {""}
        /\ ln.run \in Runs
    BY <1>1 DEF DeviceLines
  <2>1. CASE FeedReadyWhileWaiting(ln)
    BY <1>0, <2>1 DEF FeedReadyWhileWaiting
  <2>2. CASE FeedArgs(ln)
    <3>1. Append(accArgs, ln.name) \in Seq(Names \cup {""})
      BY <2>0, AppendProperties
    <3> QED BY <2>2, <3>1 DEF FeedArgs
  <2>3. CASE FeedError(ln)
    BY <2>3 DEF FeedError
  <2>4. CASE FeedReadyWhileRunning(ln)
    BY <2>4 DEF FeedReadyWhileRunning
  <2>5. CASE FeedCaseStart(ln)
    <3>1. curSuite' \in Suites \cup {""} /\ curName' \in Names \cup {""}
      BY <2>0, <2>5 DEF FeedCaseStart
    <3>2. completed' \subseteq Labels
      <4>1. CASE ln.name = ""
        BY <2>5, <4>1 DEF FeedCaseStart
      <4>2. CASE ln.name # ""
        <5>1. <<curSuite', ln.name>> \in Labels
          BY <2>0, <3>1, <4>2
        <5> QED BY <2>5, <4>2, <5>1 DEF FeedCaseStart
      <4> QED BY <4>1, <4>2
    <3> QED BY <2>5, <3>1, <3>2 DEF FeedCaseStart
  <2>6. CASE FeedCounts(ln)
    BY <2>0, <2>6 DEF FeedCounts
  <2>7. CASE FeedSleep(ln)
    BY <2>7 DEF FeedSleep
  <2>8. CASE FeedBusy(ln)
    BY <2>8 DEF FeedBusy
  <2>9. CASE FeedDone(ln)
    BY <2>9 DEF FeedDone
  <2>10. CASE FeedIgnored(ln)
    BY <2>10 DEF FeedIgnored
  <2> QED BY <1>1, <2>1, <2>2, <2>3, <2>4, <2>5, <2>6, <2>7, <2>8, <2>9,
             <2>10 DEF Feed
<1>2. CASE CommandSent
  BY <1>2 DEF CommandSent
<1>3. CASE ResetForWake
  BY <1>3 DEF ResetForWake
<1>4. CASE Reset
  BY <1>0, <1>4 DEF Reset
<1>5. CASE ResetAll
  BY <1>0, <1>5 DEF ResetAll
<1>6. CASE BusyExpires
  BY <1>6 DEF BusyExpires
<1>7. CASE UNCHANGED protocolVars
  BY <1>7
<1> QED BY <1>1, <1>2, <1>3, <1>4, <1>5, <1>6, <1>7 DEF ProtocolNext

(* A step keeps every running and every sleeping test counted.              *)
LEMMA SleepIsCountedStep ==
    ASSUME ProtocolTypeOK, SleepIsCounted, [ProtocolNext]_protocolVars
    PROVE  SleepIsCounted'
<1> USE DEF SleepIsCounted, protocolVars, sessionVars
<1>1. ASSUME NEW ln \in DeviceLines, Feed(ln) PROVE SleepIsCounted'
  <2>1. CASE FeedCaseStart(ln)
    <3>1. curSuite' \in Suites \cup {""}
      BY <1>1, <2>1 DEF FeedCaseStart, DeviceLines, ProtocolTypeOK
    <3>2. completed \subseteq completed' /\ sleepName' = sleepName
      BY <2>1 DEF FeedCaseStart
    <3>3. CASE ln.name = ""
      BY <2>1, <3>2, <3>3 DEF FeedCaseStart
    <3>4. CASE ln.name # ""
      <4>1. curName' = ln.name /\ Label(curSuite', ln.name) \in completed'
        BY <2>1, <3>4 DEF FeedCaseStart
      <4> QED BY <3>1, <3>2, <4>1
    <3> QED BY <3>3, <3>4
  <2>2. CASE FeedSleep(ln)
    BY <2>2 DEF FeedSleep
  <2>3. CASE UNCHANGED <<curName, sleepName, completed>>
    BY <2>3
  <2> QED BY <1>1, <2>1, <2>2, <2>3 DEF Feed, FeedReadyWhileWaiting, FeedArgs,
             FeedError, FeedReadyWhileRunning, FeedCounts, FeedBusy, FeedDone,
             FeedIgnored
<1>2. CASE UNCHANGED <<curName, sleepName, completed>>
  BY <1>2
<1>3. CASE Reset \/ ResetAll
  <2>1. curName' = "" /\ sleepName' = ""
    BY <1>3 DEF Reset, ResetAll
  <2> QED BY <2>1
<1> QED BY <1>1, <1>2, <1>3 DEF ProtocolNext, CommandSent, ResetForWake,
           BusyExpires

(* Every field keeps its type, and the test the runner will resume is       *)
(* always one it has counted, in whatever order lines arrive or are lost    *)
(* (feed(), reset(), reset_for_wake(), command_sent()).                     *)
THEOREM ProtocolIsSafe == ProtocolSpec => [](ProtocolTypeOK /\ SleepIsCounted)
<1>1. ProtocolInit => ProtocolInv
  <2>1. <<>> \in Seq(Names \cup {""})
    BY EmptySeq
  <2> QED BY <2>1, ProtocolAssumption DEF ProtocolInit, ProtocolInv, ProtocolTypeOK, PStates,
     SleepIsCounted, Labels
<1>2. ProtocolInv /\ [ProtocolNext]_protocolVars => ProtocolInv'
  BY ProtocolTypeStep, SleepIsCountedStep DEF ProtocolInv
<1> QED BY <1>1, <1>2, PTL DEF ProtocolSpec, ProtocolInv

(* The expected total and the list of tests seen only grow within a         *)
(* session: reset() between cycles never loses them.                        *)
THEOREM SessionKept == ProtocolSpec => SessionScoped
<1>1. ASSUME [ProtocolNext]_protocolVars
      PROVE  [ \/ /\ completed \subseteq completed'
                  /\ latched => latched' /\ expectedRun' = expectedRun
               \/ completed' = {} /\ ~latched' /\ expectedRun' = 0 ]_sessionVars
  <2> USE DEF sessionVars, protocolVars
  <2>1. ASSUME NEW ln \in DeviceLines, Feed(ln)
        PROVE  /\ completed \subseteq completed'
               /\ latched => latched' /\ expectedRun' = expectedRun
    <3>1. CASE FeedCaseStart(ln)
      BY <3>1 DEF FeedCaseStart
    <3>2. CASE FeedCounts(ln)
      BY <3>2 DEF FeedCounts
    <3>3. CASE UNCHANGED sessionVars
      BY <3>3
    <3> QED BY <2>1, <3>1, <3>2, <3>3 DEF Feed, FeedReadyWhileWaiting,
               FeedArgs, FeedError, FeedReadyWhileRunning, FeedSleep, FeedBusy,
               FeedDone, FeedIgnored
  <2>2. CASE ResetAll
    BY <2>2 DEF ResetAll
  <2>3. CASE UNCHANGED sessionVars
    BY <2>3
  <2> QED BY <1>1, <2>1, <2>2, <2>3 DEF ProtocolNext, CommandSent,
             ResetForWake, Reset, BusyExpires
<1> QED BY <1>1, PTL DEF ProtocolSpec, SessionScoped

-----------------------------------------------------------------------------
(* Partitions in line-callback mode.                                        *)

(* What a verdict leaves behind: before one there is no error case and no   *)
(* crash, and on_finish() has been called as often as a verdict was given.  *)
VerdictInv ==
    /\ finished \in BOOLEAN /\ crashed \in BOOLEAN
    /\ finishes = IF finished THEN 1 ELSE 0
    /\ ~finished /\ stage # "over" =>
           ~crashed /\ \A c \in cases : c.status # "ERRORED"
    /\ \A c, d \in cases : c.status = "ERRORED" /\ d.status = "ERRORED" => c = d

(* An error case added to none is the only one.                             *)
LEMMA OneMore ==
    ASSUME NEW S, NEW T, NEW name,
           \A c \in S : c.status # "ERRORED",
           \A c \in T : c \in S \/ c = Case(name, "ERRORED")
                            \/ c.status = "FAILED"
    PROVE  \A c, d \in T : c.status = "ERRORED" /\ d.status = "ERRORED" => c = d
  OBVIOUS

(* A step of a partition keeps its verdict single.                          *)
LEMMA VerdictStep ==
    ASSUME VerdictInv, [LineModeNext]_lineModeVars
    PROVE  VerdictInv'
<1> USE DEF VerdictInv
<1>1. CASE Notify
  BY <1>1 DEF Notify, lineVars, caseVars
<1>2. CASE SetupEnds
  BY <1>2 DEF SetupEnds, caseVars
<1>3. CASE IgnoreLine
  BY <1>3 DEF IgnoreLine, LineComes, caseVars
<1>4. CASE HangSeen
  <2> DEFINE name == Named(CurrentTestFull, "unknown")
  <2>1. /\ ~finished /\ stage = "lines"
        /\ cases' = cases \cup {Case(name, "ERRORED")}
        /\ finished' = TRUE /\ finishes' = finishes + 1
        /\ crashed' = crashed
    BY <1>4 DEF HangSeen, LineComes
  <2> HIDE DEF name
  <2>2. \A c, d \in cases' :
           c.status = "ERRORED" /\ d.status = "ERRORED" => c = d
    BY <2>1, OneMore
  <2> QED BY <2>1, <2>2
<1>5. ASSUME NEW ln \in HostLines, TakeLine(ln) PROVE VerdictInv'
  <2> DEFINE name == Named(CurrentTestFull', "crash")
             Failed == {Case(f, "FAILED") : f \in Reported(ln)}
  <2>1. /\ ~finished /\ stage = "lines" /\ stage' = "lines"
        /\ crashed' = (crashed \/ Heard(ln, "CRASH"))
        /\ finished' = crashed'
        /\ finishes' = finishes + IF crashed' THEN 1 ELSE 0
        /\ cases' = cases \cup (IF crashed' THEN {Case(name, "ERRORED")} ELSE {})
                          \cup Failed
    BY <1>5 DEF TakeLine, LineComes
  <2>2. \A c \in Failed : c.status = "FAILED"
    BY DEF Case
  <2> HIDE DEF name, Failed
  <2>3. \A c, d \in cases' :
           c.status = "ERRORED" /\ d.status = "ERRORED" => c = d
    <3>1. \A c \in cases' : c \in cases \/ c = Case(name, "ERRORED")
                                \/ c.status = "FAILED"
      BY <2>1, <2>2
    <3> QED BY <2>1, <3>1, OneMore
  <2>4. ~crashed' => \A c \in cases' : c.status # "ERRORED"
    BY <2>1, <2>2
  <2>5. crashed' \in BOOLEAN
    BY <2>1 DEF Heard
  <2> QED BY <2>1, <2>3, <2>4, <2>5
<1>6. CASE Elsewhere
  BY <1>6 DEF Elsewhere, lineVars, caseVars
<1>7. CASE TeardownStarts
  BY <1>7 DEF TeardownStarts, caseVars
<1>8. CASE TeardownEnds
  <2>1. /\ stage = "complete" /\ stage' = "over"
        /\ finished' = finished /\ finishes' = finishes
    BY <1>8 DEF TeardownEnds
  <2>2. CASE finished
    BY <1>8, <2>1, <2>2 DEF TeardownEnds
  <2>3. CASE ~finished
    <3>1. crashed' \in {crashed, TRUE}
          /\ cases' = IF crashed'
                      THEN cases \cup {Case(Label("", "hang"), "ERRORED")}
                      ELSE cases
      BY <1>8, <2>3 DEF TeardownEnds
    <3>2. \A c, d \in cases' :
             c.status = "ERRORED" /\ d.status = "ERRORED" => c = d
      BY <2>1, <2>3, <3>1, OneMore
    <3> QED BY <2>1, <2>3, <3>1, <3>2
  <2> QED BY <2>2, <2>3
<1>9. CASE UNCHANGED lineModeVars
  BY <1>9 DEF lineModeVars, lineVars, caseVars
<1> QED BY <1>1, <1>2, <1>3, <1>4, <1>5, <1>6, <1>7, <1>8, <1>9
        DEF LineModeNext

(* OneVerdict, in every behaviour: a partition that hangs, crashes and      *)
(* times out is given one error case and finished once.                     *)
THEOREM VerdictIsSingle == LineModeSpec => []OneVerdict
<1>1. LineModeInit => VerdictInv
  BY DEF LineModeInit, VerdictInv
<1>2. VerdictInv /\ [LineModeNext]_lineModeVars => VerdictInv'
  BY VerdictStep
<1>3. VerdictInv => OneVerdict
  BY DEF VerdictInv, OneVerdict
<1> QED BY <1>1, <1>2, <1>3, PTL DEF LineModeSpec

-----------------------------------------------------------------------------
(* The receivers beside the protocol.                                       *)

WindowInv ==
    /\ active \in BOOLEAN /\ cycles \in Nat /\ requests \in Nat
    /\ WindowsPaired

(* One line keeps the windows paired, whichever tag it has.                 *)
LEMMA WindowLine ==
    ASSUME WindowInv, NEW ln, FeedWindow(ln)
    PROVE  WindowInv'
<1> USE DEF WindowInv, WindowsPaired
<1>1. CASE Heard(ln, "DISCONNECT")
  <2>1. ~Heard(ln, "RECONNECT")
    BY <1>1 DEF Heard
  <2> QED BY <1>1, <2>1 DEF FeedWindow
<1>2. CASE ~Heard(ln, "DISCONNECT") /\ Heard(ln, "RECONNECT")
  BY <1>2 DEF FeedWindow
<1>3. CASE ~Heard(ln, "DISCONNECT") /\ ~Heard(ln, "RECONNECT")
  BY <1>3 DEF FeedWindow
<1> QED BY <1>1, <1>2, <1>3

(* A test the protocol counts has a duration or is being timed, unless a    *)
(* line without a suite named it.                                           *)
TimedInv ==
    \A l \in completed : /\ l[2] # ""
                         /\ l \in timed \cup {timing} \/ l[2] \in bare

(* A line that is heard as CASE:START counts its own test, and only it; no  *)
(* other line counts any.                                                   *)
LEMMA CountedByFeed ==
    ASSUME NEW ln \in HostLines, Feed(ln)
    PROVE  \/ completed' = completed
           \/ /\ Heard(ln, "CASE:START")
              /\ ln.suite # "" => completed' \subseteq
                                      completed \cup {Label(ln.suite, ln.name)}
              /\ \A l \in completed' : l \in completed \/ l[2] = ln.name
<1>1. CASE FeedCaseStart(ln)
  <2>1. /\ Heard(ln, "CASE:START")
        /\ curSuite' = IF ln.suite # "" THEN ln.suite ELSE curSuite
        /\ completed' = IF ln.name # ""
                        THEN completed \cup {Label(curSuite', ln.name)}
                        ELSE completed
    BY <1>1 DEF FeedCaseStart
  <2>2. Label(curSuite', ln.name)[2] = ln.name
    BY DEF Label
  <2> QED BY <2>1, <2>2
<1>2. CASE ~FeedCaseStart(ln)
  BY <1>2 DEF Feed, FeedReadyWhileWaiting, FeedArgs, FeedError,
     FeedReadyWhileRunning, FeedCounts, FeedSleep, FeedBusy, FeedDone,
     FeedIgnored, protocolVars, sessionVars
<1> QED BY <1>1, <1>2

(* A line that the protocol counts reaches the timing tracker too.          *)
LEMMA TimedLine ==
    ASSUME TimedInv, NEW ln \in HostLines, Feed(ln), FeedTiming(ln)
    PROVE  TimedInv'
<1> USE DEF TimedInv
<1>0. ln.name # ""
  BY ProtocolAssumption DEF HostLines
<1>1. CASE Heard(ln, "CASE:START") /\ ln.suite # ""
  <2>1. /\ timed' = Ended /\ timing' = Label(ln.suite, ln.name)
        /\ bare' = bare
    BY <1>0, <1>1 DEF FeedTiming
  <2>2. completed' \subseteq completed \cup {timing'}
    BY <1>1, <2>1, CountedByFeed
  <2>3. timed \cup {timing} \subseteq timed' \cup {NoLabel}
    BY <2>1 DEF Ended
  <2>4. NoLabel \notin completed
    BY DEF NoLabel
  <2>5. \A l \in completed' : l[2] # ""
    BY <1>0, CountedByFeed
  <2> QED BY <2>1, <2>2, <2>3, <2>4, <2>5
<1>2. CASE Heard(ln, "CASE:START") /\ ln.suite = ""
  BY <1>0, <1>2, CountedByFeed DEF FeedTiming
<1>3. CASE ~Heard(ln, "CASE:START")
  BY <1>3, CountedByFeed DEF FeedTiming
<1> QED BY <1>1, <1>2, <1>3

ReceiversInv == WindowInv /\ TimedInv

(* Only lines reach the receivers: every other step leaves them and what is *)
(* counted alone.                                                           *)
LEMMA ReceiversStep ==
    ASSUME ReceiversInv, [LineModeNext]_lineModeVars
    PROVE  ReceiversInv'
<1> USE DEF ReceiversInv
<1>1. ASSUME NEW ln \in HostLines, TakeLine(ln) PROVE ReceiversInv'
  BY <1>1, WindowLine, TimedLine DEF TakeLine
<1>2. CASE UNCHANGED <<windowVars, timingVars, completed>>
  BY <1>2 DEF WindowInv, WindowsPaired, TimedInv, windowVars, timingVars
<1>3. CASE \/ Notify \/ SetupEnds \/ IgnoreLine \/ HangSeen
           \/ TeardownStarts \/ TeardownEnds \/ UNCHANGED lineModeVars
  <2>1. UNCHANGED <<windowVars, timingVars, protocolVars>>
    BY <1>3 DEF Notify, SetupEnds, IgnoreLine, HangSeen, TeardownStarts,
       TeardownEnds, lineModeVars
  <2> QED BY <1>2, <2>1 DEF protocolVars
<1>4. CASE Elsewhere
  <2>1. UNCHANGED <<windowVars, timingVars, completed>>
    BY <1>4 DEF Elsewhere, CommandSent, BusyExpires, sessionVars
  <2> QED BY <1>2, <2>1
<1> QED BY <1>1, <1>3, <1>4 DEF LineModeNext

(* WindowsPaired and CountedIsTimed, in every behaviour: no window is       *)
(* counted that was not asked for, and no test that the protocol counts     *)
(* goes without a duration, unless it was started outside a suite.          *)
THEOREM ReceiversAgree == LineModeSpec => [](WindowsPaired /\ CountedIsTimed)
<1>1. LineModeInit => ReceiversInv
  <2> SUFFICES ASSUME LineModeInit PROVE WindowInv /\ TimedInv
    BY DEF ReceiversInv
  <2>1. active = FALSE /\ cycles = 0 /\ requests = 0 /\ completed = {}
    BY DEF LineModeInit, ProtocolInit, ReceiversInit
  <2>2. WindowInv
    <3>1. ~active /\ active \in BOOLEAN /\ cycles = 0 /\ requests = 0
      BY <2>1
    <3>2. cycles + (IF active THEN 1 ELSE 0) <= requests
      BY <3>1
    <3> QED BY <3>1, <3>2 DEF WindowInv, WindowsPaired
  <2> QED BY <2>1, <2>2 DEF TimedInv
<1>2. ReceiversInv /\ [LineModeNext]_lineModeVars => ReceiversInv'
  BY ReceiversStep
<1>3. ReceiversInv => WindowsPaired /\ CountedIsTimed
  BY DEF ReceiversInv, WindowInv, TimedInv, CountedIsTimed
<1> QED BY <1>1, <1>2, <1>3, PTL DEF LineModeSpec

-----------------------------------------------------------------------------
(* The report.                                                              *)

(* FailuresReported, in every behaviour: only a line ends the session, and  *)
(* the report made with it holds all the failures known by then.            *)
THEOREM ReportIsComplete == LineModeSpec => FailuresReported
<1> DEFINE Complete == pstate # "FINISHED" /\ pstate' = "FINISHED" =>
                           \A f \in failures' : Case(f, "FAILED") \in cases'
<1>1. ASSUME LineModeNext, pstate # "FINISHED", pstate' = "FINISHED"
      PROVE  \A f \in failures' : Case(f, "FAILED") \in cases'
  <2>1. ASSUME NEW ln \in HostLines, TakeLine(ln)
        PROVE  \A f \in failures' : Case(f, "FAILED") \in cases'
    <3>1. failures' = FailuresNow(ln)
      BY <2>1 DEF TakeLine
    <3>2. Reported(ln) = FailuresNow(ln)
      BY <1>1 DEF Reported
    <3>3. {Case(f, "FAILED") : f \in Reported(ln)} \subseteq cases'
      BY <2>1 DEF TakeLine
    <3> QED BY <3>1, <3>2, <3>3
  <2>2. ~(Notify \/ SetupEnds \/ IgnoreLine \/ HangSeen \/ TeardownStarts
             \/ TeardownEnds)
    BY <1>1 DEF Notify, SetupEnds, IgnoreLine, HangSeen, TeardownStarts,
       TeardownEnds, protocolVars
  <2>3. ~Elsewhere
    BY <1>1 DEF Elsewhere, CommandSent, BusyExpires
  <2> QED BY <1>1, <2>1, <2>2, <2>3 DEF LineModeNext
<1>2. [LineModeNext]_lineModeVars => [Complete]_lineModeVars
  BY <1>1
<1> QED BY <1>2, PTL DEF LineModeSpec, FailuresReported

-----------------------------------------------------------------------------
(* Results.  What belongs together goes by the line of its header, a        *)
(* failure by its own line: numbers of lines that have been read.           *)

ResultNames == Titles \cup {"unknown", "all tests"}
Results == [name : ResultNames, header : Nat, line : Nat, passed : BOOLEAN]

ParserTypeOK ==
    /\ framework \in {"auto", "doctest", "unity"}
    /\ complete \in BOOLEAN /\ passing \in BOOLEAN
    /\ test \in Titles \cup {NoName}
    /\ heard \in Nat /\ header \in 0..heard /\ failing \in 0..heard
    /\ results \subseteq Results /\ drained \subseteq Results
    /\ failLines \subseteq Nat

(* Every result names lines that were read.                                 *)
OfTheOutput(known) ==
    \A r \in known : r.header <= heard /\ r.line \in 1..heard

(* A test that has a name has a header.  The output under an open header    *)
(* can only have given failures, and one more is pending then; the lines of *)
(* the header and of the pending failure are no result yet.                 *)
Open(known) ==
    /\ test # NoName => header # 0
    /\ header # 0 => \A r \in known : /\ r.header = header => ~r.passed /\ failing # 0
                                      /\ r.line # header
    /\ failing # 0 => failing # header /\ \A r \in known : r.line # failing

Consistent(known) ==
    /\ \A r, s \in known : r.header = s.header /\ r.header # 0
                               => r.passed = s.passed
    /\ \A r, s \in known : r.line = s.line => r = s

(* Until Unity is detected, the failures printed are those reported and the *)
(* one pending; before any detection there is neither.                      *)
Reports(known) ==
    /\ framework = "auto" => known = {} /\ failing = 0
    /\ framework = "unity" => failing = 0
    /\ framework # "unity" =>
          failLines = {r.line : r \in {s \in known : ~s.passed}}
                          \cup (IF failing = 0 THEN {} ELSE {failing})
    /\ complete => failing = 0

ResultInv ==
    /\ ParserTypeOK
    /\ OfTheOutput(Known) /\ Open(Known) /\ Consistent(Known) /\ Reports(Known)

-----------------------------------------------------------------------------
(* Its plugins.                                                             *)

(* What the entry points before one have attached, and what that one adds.  *)
LEMMA AttachedUnfold ==
    /\ AttachedUpTo[0] = <<>>
    /\ \A k \in 1..Len(EntryPoints) :
          AttachedUpTo[k] = AttachedUpTo[k - 1]
              \o IF EntryPoints[k] \in Loads THEN <<EntryPoints[k]>> ELSE <<>>
<1> DEFINE n == Len(EntryPoints)
           Added(k) == IF EntryPoints[k] \in Loads THEN <<EntryPoints[k]>> ELSE <<>>
           Fits(f, k) == f = [i \in 0..k |-> IF i = 0 THEN <<>> ELSE f[i - 1] \o Added(i)]
           None == {k \in 0..n : ~ \E f : Fits(f, k)}
           R == OpToRel(<, Nat)
<1>1. n \in Nat
  BY ReceiversAssumption
<1>s. AttachedUpTo = CHOOSE f : f = [i \in 0..n |-> IF i = 0 THEN <<>> ELSE f[i - 1] \o Added(i)]
  BY DEF AttachedUpTo
<1> HIDE DEF n, Added
<1>2. None = {}
  <2> SUFFICES ASSUME None # {} PROVE FALSE
    OBVIOUS
  <2>1. PICK m \in None : \A j \in None : ~(<<j, m>> \in R)
    <3>1. IsWellFoundedOn(R, Nat)
      BY NatLessThanWellFounded DEF R
    <3>2. None \subseteq Nat
      <4>1. None \subseteq 0..n
        OBVIOUS
      <4> HIDE DEF None
      <4> QED BY <1>1, <4>1
    <3> HIDE DEF None, R
    <3> QED BY <3>1, <3>2, WFMin, Zenon
  <2>2. m \in 0..n /\ ~ \E f : Fits(f, m)
    OBVIOUS
  <2>3. m # 0
    <3> SUFFICES ASSUME m = 0 PROVE FALSE
      OBVIOUS
    <3> DEFINE f == [i \in 0..0 |-> <<>>]
    <3>1. f = [i \in 0..0 |-> IF i = 0 THEN <<>> ELSE f[i - 1] \o Added(i)]
      OBVIOUS
    <3> HIDE DEF f
    <3> QED BY <2>2, <3>1
  <2>4. m - 1 \in 0..n /\ m - 1 < m
    BY <1>1, <2>2, <2>3
  <2>5. m - 1 \notin None
    <3> SUFFICES ASSUME m - 1 \in None PROVE FALSE
      OBVIOUS
    <3>1. <<m - 1, m>> \in R
      BY <1>1, <2>2, <2>4 DEF OpToRel
    <3> QED BY <2>1, <3>1
  <2>6. PICK f : Fits(f, m - 1)
    BY <2>4, <2>5
  <2> DEFINE g == [i \in 0..m |-> IF i = m THEN f[m - 1] \o Added(m) ELSE f[i]]
  <2>7. \A i \in 0..m : g[i] = IF i = 0 THEN <<>> ELSE g[i - 1] \o Added(i)
    <3>0. m \in Nat /\ m # 0
      BY <1>1, <2>2, <2>3
    <3>1. \A i \in 0..(m - 1) : f[i] = IF i = 0 THEN <<>> ELSE f[i - 1] \o Added(i)
      BY <2>6
    <3>2. ASSUME NEW i \in 0..m
          PROVE  g[i] = IF i = 0 THEN <<>> ELSE g[i - 1] \o Added(i)
      <4>1. CASE i = m
        <5>1. i # 0 /\ i - 1 \in 0..m /\ i - 1 # m /\ i - 1 = m - 1
          BY <3>0, <4>1
        <5> QED BY <4>1, <5>1
      <4>2. CASE i # m
        <5>1. i \in 0..(m - 1) /\ (i # 0 => i - 1 \in 0..m /\ i - 1 # m)
          BY <3>0, <4>2
        <5>2. g[i] = f[i] /\ (i # 0 => g[i - 1] = f[i - 1])
          BY <4>2, <5>1
        <5> HIDE DEF g
        <5> QED BY <3>1, <5>1, <5>2
      <4> QED BY <4>1, <4>2
    <3> QED BY <3>2
  <2>8. Fits(g, m)
    <3>1. g = [i \in 0..m |-> g[i]]
      OBVIOUS
    <3> HIDE DEF g
    <3> QED BY <2>7, <3>1
  <2> QED BY <2>2, <2>8
<1>3. \E f : Fits(f, n)
  <2>1. n \in 0..n
    BY <1>1
  <2> QED BY <1>2, <2>1
<1>4. Fits(AttachedUpTo, n)
  BY <1>3, <1>s
<1>5. \A k \in 0..n : AttachedUpTo[k] = IF k = 0 THEN <<>> ELSE AttachedUpTo[k - 1] \o Added(k)
  BY <1>4
<1>6. 0 \in 0..n /\ \A k \in 1..n : k \in 0..n /\ k # 0
  BY <1>1
<1> QED BY <1>5, <1>6 DEF n, Added

(* The plugins are a sequence.                                              *)
LEMMA AttachedType == Attached \in Seq(Loads)
<1> DEFINE n == Len(EntryPoints)
           Bad == {k \in 0..n : AttachedUpTo[k] \notin Seq(Loads)}
           R == OpToRel(<, Nat)
<1>1. n \in Nat
  BY ReceiversAssumption
<1>2. \A k \in 1..n : AttachedUpTo[k - 1] \in Seq(Loads) => AttachedUpTo[k] \in Seq(Loads)
  <2> SUFFICES ASSUME NEW k \in 1..n, AttachedUpTo[k - 1] \in Seq(Loads)
               PROVE  AttachedUpTo[k] \in Seq(Loads)
    OBVIOUS
  <2> DEFINE add == IF EntryPoints[k] \in Loads THEN <<EntryPoints[k]>> ELSE <<>>
  <2>1. add \in Seq(Loads)
    OBVIOUS
  <2>2. AttachedUpTo[k] = AttachedUpTo[k - 1] \o add
    BY AttachedUnfold
  <2> HIDE DEF add
  <2> QED BY <2>1, <2>2, ConcatProperties
<1>3. AttachedUpTo[0] \in Seq(Loads)
  BY AttachedUnfold, EmptySeq
<1> HIDE DEF n
<1>4. Bad = {}
  <2> SUFFICES ASSUME Bad # {} PROVE FALSE
    OBVIOUS
  <2>1. PICK m \in Bad : \A j \in Bad : ~(<<j, m>> \in R)
    <3>1. IsWellFoundedOn(R, Nat)
      BY NatLessThanWellFounded DEF R
    <3>2. Bad \subseteq Nat
      <4>1. Bad \subseteq 0..n
        OBVIOUS
      <4> HIDE DEF Bad
      <4> QED BY <1>1, <4>1
    <3> HIDE DEF Bad, R
    <3> QED BY <3>1, <3>2, WFMin, Zenon
  <2>2. m \in 1..n /\ AttachedUpTo[m] \notin Seq(Loads)
    <3>1. m \in 0..n /\ AttachedUpTo[m] \notin Seq(Loads)
      OBVIOUS
    <3>2. m # 0
      BY <1>3, <3>1
    <3> QED BY <1>1, <3>1, <3>2
  <2>3. m - 1 \notin Bad
    <3> SUFFICES ASSUME m - 1 \in Bad PROVE FALSE
      OBVIOUS
    <3>1. <<m - 1, m>> \in R
      BY <1>1, <2>2 DEF OpToRel
    <3> QED BY <2>1, <3>1
  <2>4. m - 1 \in 0..n
    BY <1>1, <2>2
  <2> QED BY <1>2, <2>2, <2>3, <2>4
<1>5. n \in 0..n
  BY <1>1
<1> QED BY <1>4, <1>5 DEF Attached, n

(* Where each plugin is: the hook of the stage has reached the first ones,  *)
(* and the stage is not left before it has reached all.                     *)
HeardBy(i) ==
    CASE stage = "setup"    -> IF i <= notified THEN <<"start">> ELSE <<>>
      [] stage = "lines"    -> <<"start">>
      [] stage = "complete" -> IF i <= notified THEN <<"start", "complete">>
                                                ELSE <<"start">>
      [] stage = "over"     -> <<"start", "complete">>

HearInv ==
    /\ stage \in {"setup", "lines", "complete", "over"}
    /\ notified \in 0..Len(Attached)
    /\ DOMAIN told = 1..Len(Attached)
    /\ \A i \in 1..Len(Attached) :
          Attached[i] # "hookless" => told[i] = HeardBy(i)

LEMMA HearStep ==
    ASSUME HearInv, [LineModeNext]_lineModeVars
    PROVE  HearInv'
<1> DEFINE n == Len(Attached)
<1>1. n \in Nat /\ DOMAIN Attached = 1..n
  BY AttachedType
<1> HIDE DEF n
<1>a. /\ stage \in {"setup", "lines", "complete", "over"}
      /\ notified \in 0..n /\ DOMAIN told = 1..n
      /\ \A i \in 1..n : Attached[i] # "hookless" => told[i] = HeardBy(i)
  BY DEF HearInv, n
<1>2. ASSUME UNCHANGED <<stage, pluginVars>> PROVE HearInv'
  BY <1>a, <1>2 DEF HearInv, HeardBy, pluginVars, n
<1>3. CASE Notify
  <2>1. PICK hook \in {"start", "complete"} :
            /\ NotifyNext(hook)
            /\ stage = IF hook = "start" THEN "setup" ELSE "complete"
    BY <1>3 DEF Notify
  <2>2. stage' = stage
    BY <1>3 DEF Notify, lineVars
  <2>3. /\ notified < n /\ notified' = notified + 1
        /\ told' = [told EXCEPT ![notified + 1] = Told(notified + 1, hook)]
    BY <2>1 DEF NotifyNext, n
  <2>4. notified + 1 \in 1..n /\ notified' \in 0..n
    BY <1>1, <1>a, <2>3
  <2>5. /\ DOMAIN told' = 1..n
        /\ told'[notified + 1] = Told(notified + 1, hook)
        /\ \A i \in 1..n : i # notified + 1 => told'[i] = told[i]
    BY <1>a, <2>3, <2>4
  <2>6. ASSUME NEW i \in 1..n, Attached[i] # "hookless" PROVE told'[i] = HeardBy(i)'
    <3>1. CASE i = notified + 1
      <4>1. told'[i] = Append(told[i], hook)
        BY <2>5, <2>6, <3>1 DEF Told
      <4>2. ~(i <= notified) /\ i <= notified'
        BY <1>1, <1>a, <2>3, <3>1
      <4>3. told[i] = HeardBy(i)
        BY <1>a, <2>6
      <4> QED BY <2>1, <2>2, <4>1, <4>2, <4>3 DEF HeardBy
    <3>2. CASE i # notified + 1
      <4>1. (i <= notified) <=> (i <= notified')
        BY <1>1, <1>a, <2>3, <3>2
      <4>2. told'[i] = HeardBy(i)
        BY <1>a, <2>5, <2>6, <3>2
      <4> QED BY <2>2, <4>1, <4>2 DEF HeardBy
    <3> QED BY <3>1, <3>2
  <2> QED BY <1>a, <2>2, <2>4, <2>5, <2>6 DEF HearInv, n
<1>4. CASE SetupEnds
  <2>1. /\ stage = "setup" /\ stage' = "lines" /\ notified = n
        /\ UNCHANGED <<notified, told>>
    BY <1>4 DEF SetupEnds, AllNotified, pluginVars, n
  <2>2. \A i \in 1..n : i <= notified
    BY <1>1, <2>1
  <2> QED BY <1>a, <2>1, <2>2 DEF HearInv, HeardBy, n
<1>5. CASE TeardownStarts
  <2>1. /\ stage = "lines" /\ stage' = "complete" /\ notified' = 0
        /\ UNCHANGED told
    BY <1>5 DEF TeardownStarts
  <2>2. 0 \in 0..n /\ \A i \in 1..n : ~(i <= 0)
    BY <1>1
  <2> QED BY <1>a, <2>1, <2>2 DEF HearInv, HeardBy, n
<1>6. CASE TeardownEnds
  <2>1. /\ stage = "complete" /\ stage' = "over" /\ notified = n
        /\ UNCHANGED <<notified, told>>
    BY <1>6 DEF TeardownEnds, AllNotified, pluginVars, n
  <2>2. \A i \in 1..n : i <= notified
    BY <1>1, <2>1
  <2> QED BY <1>a, <2>1, <2>2 DEF HearInv, HeardBy, n
<1>7. CASE IgnoreLine \/ HangSeen \/ Elsewhere \/ \E ln \in HostLines : TakeLine(ln)
  BY <1>2, <1>7 DEF IgnoreLine, HangSeen, Elsewhere, TakeLine, lineVars
<1>8. CASE UNCHANGED lineModeVars
  BY <1>2, <1>8 DEF lineModeVars, lineVars
<1> QED BY <1>3, <1>4, <1>5, <1>6, <1>7, <1>8 DEF LineModeNext

(* EveryPluginHears, in every behaviour, for any list of entry points.      *)
THEOREM PluginsHear == LineModeSpec => []EveryPluginHears
<1>1. LineModeInit => HearInv
  <2> SUFFICES ASSUME LineModeInit PROVE HearInv
    OBVIOUS
  <2>1. Len(Attached) \in Nat /\ DOMAIN Attached = 1..Len(Attached)
    BY AttachedType
  <2>2. stage = "setup" /\ notified = 0 /\ told = [i \in DOMAIN Attached |-> <<>>]
    BY DEF LineModeInit, ReceiversInit
  <2>3. 0 \in 0..Len(Attached) /\ \A i \in 1..Len(Attached) : ~(i <= 0)
    BY <2>1
  <2> QED BY <2>1, <2>2, <2>3 DEF HearInv, HeardBy
<1>2. HearInv => EveryPluginHears
  <2>1. DOMAIN Attached = 1..Len(Attached)
    BY AttachedType
  <2> QED BY <2>1 DEF HearInv, HeardBy, EveryPluginHears
<1> QED BY <1>1, <1>2, HearStep, PTL DEF LineModeSpec

-----------------------------------------------------------------------------
FailedLines(known) == {r.line : r \in {s \in known : ~s.passed}}

LEMMA ResultType ==
    ASSUME NEW name \in ResultNames, NEW under \in Nat, NEW at \in Nat,
           NEW passed \in BOOLEAN
    PROVE  LET r == Result(name, under, at, passed)
           IN  /\ r \in Results
               /\ r.header = under /\ r.line = at /\ r.passed = passed
BY DEF Result, Results

(* Recording a pending failure keeps the results consistent, and the open   *)
(* test without a pass.                                                     *)
LEMMA AfterFailure ==
    ASSUME ResultInv, NEW K, K = WithFailure \cup drained
    PROVE  /\ K \subseteq Results /\ OfTheOutput(K) /\ Consistent(K)
           /\ header # 0 => \A r \in K : (r.header = header => ~r.passed) /\ r.line # header
           /\ FailedLines(K) = FailedLines(Known)
                                  \cup (IF failing = 0 THEN {} ELSE {failing})
           /\ failing = 0 => K = Known
<1> USE DEF ResultInv, ParserTypeOK
<1>1. CASE failing = 0
  <2>1. K = Known
    BY <1>1 DEF WithFailure, Known
  <2> QED BY <1>1, <2>1 DEF Open, Known
<1>2. CASE failing # 0
  <2> DEFINE name == IF test = NoName THEN "unknown" ELSE test
             new == Result(name, header, failing, FALSE)
  <2>1. K = Known \cup {new}
    BY <1>2 DEF WithFailure, Known
  <2>2. new.header = header /\ new.line = failing /\ new.passed = FALSE
        /\ new \in Results
    <3>1. name \in ResultNames
      BY DEF ResultNames
    <3>2. header \in Nat /\ failing \in Nat
      OBVIOUS
    <3> HIDE DEF name
    <3>3. Result(name, header, failing, FALSE) \in Results
      BY <3>1, <3>2 DEF Result, Results
    <3> QED BY <3>3 DEF Result
  <2> HIDE DEF new
  <2>3. K \subseteq Results /\ OfTheOutput(K)
    BY <1>2, <2>1, <2>2 DEF OfTheOutput, Known
  <2>4. \A r \in Known : r.line # failing /\ (r.header = header /\ header # 0 => ~r.passed)
    BY <1>2 DEF Open
  <2>5. \A r \in Known : r.passed \in BOOLEAN
    BY DEF Known, Results
  <2>6. \A r, s \in K : r.header = s.header /\ r.header # 0
                            => r.passed = s.passed
    BY <2>1, <2>2, <2>4, <2>5 DEF Consistent
  <2>7. \A r, s \in K : r.line = s.line => r = s
    BY <2>1, <2>2, <2>4 DEF Consistent
  <2>8. header # 0 => \A r \in K : (r.header = header => ~r.passed) /\ r.line # header
    BY <1>2, <2>1, <2>2 DEF Open
  <2>9. FailedLines(K) = FailedLines(Known) \cup {failing}
    BY <2>1, <2>2 DEF FailedLines
  <2> QED BY <1>2, <2>3, <2>6, <2>7, <2>8, <2>9 DEF Consistent
<1> QED BY <1>1, <1>2

(* So does closing the open test, which then has a result of one kind only. *)
LEMMA AfterCase ==
    ASSUME ResultInv, NEW K, K = WithCase \cup drained
    PROVE  /\ K \subseteq Results /\ OfTheOutput(K) /\ Consistent(K)
           /\ FailedLines(K) = FailedLines(Known)
                                  \cup (IF failing = 0 THEN {} ELSE {failing})
<1> USE DEF ResultInv, ParserTypeOK
<1> DEFINE F == WithFailure \cup drained
<1>0. /\ F \subseteq Results /\ OfTheOutput(F) /\ Consistent(F)
      /\ header # 0 => \A r \in F : r.line # header
      /\ FailedLines(F) = FailedLines(Known)
                             \cup (IF failing = 0 THEN {} ELSE {failing})
      /\ failing = 0 => F = Known
  BY AfterFailure
<1>1. CASE ~(test # NoName /\ passing /\ failing = 0)
  <2>1. K = F
    BY <1>1 DEF WithCase
  <2> QED BY <1>0, <2>1
<1>2. CASE test # NoName /\ passing /\ failing = 0
  <2> DEFINE new == Passed
  <2>1. K = F \cup {new}
    BY <1>2 DEF WithCase
  <2>2. new.header = header /\ new.line = header /\ new.passed = TRUE
        /\ new \in Results
    <3>1. test \in ResultNames
      BY <1>2 DEF ResultNames
    <3>2. header \in Nat
      OBVIOUS
    <3>3. new = Result(test, header, header, TRUE)
      BY DEF Passed
    <3> HIDE DEF new, F, ResultInv, ParserTypeOK
    <3>4. /\ Result(test, header, header, TRUE) \in Results
          /\ Result(test, header, header, TRUE).header = header
          /\ Result(test, header, header, TRUE).line = header
          /\ Result(test, header, header, TRUE).passed = TRUE
      BY <3>1, <3>2 DEF Result, Results
    <3> QED BY <3>3, <3>4
  <2>3. header # 0 /\ \A r \in F : r.header # header /\ r.line # header
    BY <1>0, <1>2 DEF Open
  <2> HIDE DEF new, F
  <2>4. K \subseteq Results /\ OfTheOutput(K)
    BY <1>0, <1>2, <2>1, <2>2, <2>3 DEF OfTheOutput
  <2>5. Consistent(K)
    <3>1. \A r, s \in K : r.header = s.header /\ r.header # 0
                              => r.passed = s.passed
      BY <1>0, <2>1, <2>2, <2>3 DEF Consistent
    <3>2. \A r, s \in K : r.line = s.line => r = s
      BY <1>0, <2>1, <2>2, <2>3 DEF Consistent
    <3> QED BY <3>1, <3>2 DEF Consistent
  <2>6. FailedLines(K) = FailedLines(F)
    BY <2>1, <2>2 DEF FailedLines
  <2> QED BY <1>0, <1>2, <2>4, <2>5, <2>6
<1> QED BY <1>1, <1>2

(* What the detection of the framework can change.                          *)
LEMMA Detected ==
    ASSUME framework \in {"auto", "doctest", "unity"}, NEW kind \in Kinds,
           framework' = Parses(kind)
    PROVE  /\ framework' \in {"auto", "doctest", "unity"}
           /\ framework' = "auto" => framework = "auto"
           /\ framework' # "unity" => framework # "unity"
           /\ framework' = "unity" => framework # "doctest"
  BY DEF Parses

(* A line that changes no result: at most it is a success, or the end of    *)
(* Unity's output.                                                          *)
LEMMA QuietStep ==
    ASSUME ResultInv, heard' = heard + 1,
           UNCHANGED <<results, drained, test, header, failing, failLines>>,
           passing' \in BOOLEAN,
           framework' \in {"auto", "doctest", "unity"},
           framework' = "auto" => framework = "auto",
           framework' # "unity" => framework # "unity",
           framework' = "unity" => framework # "doctest",
           complete' \in BOOLEAN, complete' => complete \/ framework' = "unity"
    PROVE  ResultInv'
<1> USE DEF ResultInv
<1>1. Known' = Known
  BY DEF Known
<1>2. ParserTypeOK'
  BY DEF ParserTypeOK
<1>3. \A r \in Known' : r.header <= heard' /\ r.line \in 1..heard'
  BY <1>1 DEF OfTheOutput, ParserTypeOK, Known, Results
<1>4. Open(Known)' /\ Consistent(Known)'
  BY <1>1 DEF Open, Consistent
<1>5. framework' = "unity" => failing' = 0
  BY DEF Reports, ParserTypeOK
<1>6. Reports(Known)'
  BY <1>1, <1>5 DEF Reports
<1> QED BY <1>2, <1>3, <1>4, <1>6 DEF OfTheOutput

(* A line that closes the open test, and begins the next or ends the        *)
(* output.                                                                  *)
LEMMA CaseStep ==
    ASSUME ResultInv, heard' = heard + 1, framework' = "doctest",
           framework # "unity", NEW K, K = WithCase \cup drained,
           \/ Known' = K
           \/ /\ Known' = K \cup {AllPassed(heard + 1)}
              /\ header' = 0,
           results' \subseteq Known', drained' = drained,
           header' \in {0, heard + 1}, test' \in Titles \cup {NoName},
           test' # NoName => header' # 0, passing' = FALSE, failing' = 0,
           complete' \in BOOLEAN, failLines' = failLines
    PROVE  ResultInv'
<1> USE DEF ResultInv
<1>1. /\ K \subseteq Results /\ OfTheOutput(K) /\ Consistent(K)
      /\ FailedLines(K) = FailedLines(Known)
                             \cup (IF failing = 0 THEN {} ELSE {failing})
  BY AfterCase
<1>2. \A r \in K : r.header \in Nat /\ r.line \in Nat /\ r.header # heard + 1
                       /\ r.line # heard + 1 /\ r.passed \in BOOLEAN
  BY <1>1 DEF OfTheOutput, ParserTypeOK, Results
<1>3. failLines' = FailedLines(K)
  BY <1>1 DEF Reports, FailedLines
<1>4. CASE Known' = K
  <2>1. ParserTypeOK'
    <3>1. results' \subseteq Results
      BY <1>1, <1>4
    <3>2. passing' \in BOOLEAN
      OBVIOUS
    <3>3. heard' \in Nat /\ header' \in 0..heard' /\ failing' \in 0..heard'
      BY DEF ParserTypeOK
    <3> QED BY <3>1, <3>2, <3>3 DEF ParserTypeOK
  <2>2. \A r \in Known' : r.header <= heard' /\ r.line \in 1..heard'
    BY <1>1, <1>2, <1>4 DEF OfTheOutput, ParserTypeOK
  <2>3. Open(Known)' /\ Consistent(Known)'
    BY <1>1, <1>2, <1>4 DEF Open, Consistent
  <2>4. Reports(Known)'
    BY <1>3, <1>4 DEF Reports, FailedLines
  <2> QED BY <2>1, <2>2, <2>3, <2>4 DEF OfTheOutput
<1>5. CASE /\ Known' = K \cup {AllPassed(heard + 1)}
           /\ header' = 0
  <2> DEFINE new == AllPassed(heard + 1)
  <2>0. Known' = K \cup {new}
    BY <1>5
  <2>1. new.header = 0 /\ new.line = heard + 1 /\ new.passed = TRUE
        /\ new \in Results
    <3>1. "all tests" \in ResultNames /\ 0 \in Nat /\ heard + 1 \in Nat
      BY DEF ResultNames, ParserTypeOK
    <3> QED BY <3>1, ResultType DEF AllPassed
  <2> HIDE DEF new
  <2>2. ParserTypeOK'
    <3>1. results' \subseteq Results
      BY <1>1, <2>0, <2>1
    <3>2. passing' \in BOOLEAN
      OBVIOUS
    <3>3. heard' \in Nat /\ header' \in 0..heard' /\ failing' \in 0..heard'
      BY DEF ParserTypeOK
    <3> QED BY <3>1, <3>2, <3>3 DEF ParserTypeOK
  <2>3. \A r \in Known' : r.header <= heard' /\ r.line \in 1..heard'
    BY <1>1, <1>2, <2>0, <2>1 DEF OfTheOutput, ParserTypeOK
  <2>4. Open(Known)'
    BY <1>5 DEF Open
  <2>5. \A r, s \in Known' : r.header = s.header /\ r.header # 0
                                 => r.passed = s.passed
    BY <1>1, <2>0, <2>1 DEF Consistent
  <2>6. \A r, s \in Known' : r.line = s.line => r = s
    BY <1>1, <1>2, <2>0, <2>1 DEF Consistent
  <2>7. FailedLines(Known)' = FailedLines(K)
    BY <2>0, <2>1 DEF FailedLines
  <2>8. Reports(Known)'
    BY <1>3, <2>7 DEF Reports, FailedLines
  <2> QED BY <2>2, <2>3, <2>4, <2>5, <2>6, <2>8 DEF OfTheOutput, Consistent
<1> QED BY <1>4, <1>5

(* A failure: the one before is recorded, and this one is pending.          *)
LEMMA FailStep ==
    ASSUME ResultInv, ~complete, heard' = heard + 1, framework' = "doctest",
           framework # "unity", FeedFail, drained' = drained
    PROVE  ResultInv'
<1> USE DEF ResultInv
<1> DEFINE K == WithFailure \cup drained
<1>0. /\ Known' = K /\ results' \subseteq K /\ drained' = drained
      /\ failing' = heard + 1 /\ passing' = (passing /\ failing = 0)
      /\ test' = test /\ header' = header /\ complete' = complete
      /\ failLines' = failLines \cup {heard + 1}
  BY DEF FeedFail, Known
<1>1. /\ K \subseteq Results /\ OfTheOutput(K) /\ Consistent(K)
      /\ header # 0 => \A r \in K : (r.header = header => ~r.passed) /\ r.line # header
      /\ FailedLines(K) = FailedLines(Known)
                             \cup (IF failing = 0 THEN {} ELSE {failing})
  BY AfterFailure
<1> HIDE DEF K
<1>2. ParserTypeOK'
  <2>1. results' \subseteq Results /\ drained' \subseteq Results
    BY <1>0, <1>1 DEF ParserTypeOK
  <2>2. passing' \in BOOLEAN
    BY <1>0
  <2>3. heard' \in Nat /\ header' \in 0..heard' /\ failing' \in 0..heard'
        /\ failLines' \subseteq Nat
    BY <1>0 DEF ParserTypeOK
  <2> QED BY <1>0, <2>1, <2>2, <2>3 DEF ParserTypeOK
<1>3. \A r \in Known' : r.header <= heard' /\ r.line \in 1..heard'
                            /\ r.line # heard + 1
  BY <1>0, <1>1 DEF OfTheOutput, ParserTypeOK, Results
<1>4. Open(Known)' /\ Consistent(Known)'
  BY <1>0, <1>1, <1>3 DEF Open, Consistent, ParserTypeOK
<1>5. failLines' = FailedLines(K) \cup {failing'}
  BY <1>0, <1>1 DEF Reports, FailedLines
<1>6. Reports(Known)'
  BY <1>0, <1>5 DEF Reports, FailedLines, ParserTypeOK
<1> QED BY <1>2, <1>3, <1>4, <1>6 DEF OfTheOutput

(* A Unity result is of a test of its own.                                  *)
LEMMA UnityStep ==
    ASSUME ResultInv, heard' = heard + 1, framework' = "unity",
           framework # "doctest", NEW verdict \in BOOLEAN,
           NEW name \in Titles,
           results' = results \cup {Result(name, heard + 1, heard + 1, verdict)},
           UNCHANGED <<complete, parserVars, failLines, drained>>
    PROVE  ResultInv'
<1> USE DEF ResultInv
<1> DEFINE new == Result(name, heard + 1, heard + 1, verdict)
<1>0. Known' = Known \cup {new}
  BY DEF Known
<1>1. new.header = heard + 1 /\ new.line = heard + 1 /\ new.passed = verdict
      /\ new \in Results
  <2>1. name \in ResultNames
    BY DEF ResultNames
  <2>2. heard + 1 \in Nat
    BY DEF ParserTypeOK
  <2> QED BY <2>1, <2>2, ResultType
<1>2. results' = results \cup {new} /\ drained' = drained
  OBVIOUS
<1> HIDE DEF new
<1>3. ParserTypeOK'
  <2>1. results' \subseteq Results /\ drained' \subseteq Results
    BY <1>1, <1>2 DEF ParserTypeOK
  <2>2. heard' \in Nat /\ header' \in 0..heard' /\ failing' \in 0..heard'
    BY DEF ParserTypeOK, parserVars
  <2> QED BY <2>1, <2>2 DEF ParserTypeOK, parserVars
<1>4. \A r \in Known : r.header \in Nat /\ r.header <= heard /\ r.line \in 1..heard
  BY DEF OfTheOutput, ParserTypeOK, Known, Results
<1>5. \A r \in Known' : r.header <= heard' /\ r.line \in 1..heard'
  BY <1>0, <1>1, <1>4 DEF ParserTypeOK
<1>6. \A r \in Known : r.header # new.header /\ r.line # new.line
  BY <1>1, <1>4 DEF ParserTypeOK
<1>7. Consistent(Known)'
  BY <1>0, <1>6 DEF Consistent
<1>8. failing' = 0 /\ failing = 0 /\ test' = test /\ header' = header
      /\ header \in 0..heard
  BY DEF Reports, ParserTypeOK, parserVars
<1>9. Open(Known)'
  BY <1>0, <1>1, <1>8 DEF Open, ParserTypeOK
<1>10. Reports(Known)'
  BY <1>8 DEF Reports
<1> QED BY <1>3, <1>5, <1>7, <1>9, <1>10 DEF OfTheOutput

(* A line of output keeps the invariant, whatever it matches.               *)
LEMMA FeedStep ==
    ASSUME ResultInv, NEW ln \in ResultLines, FeedResult(ln)
    PROVE  ResultInv'
<1>0. heard' = heard + 1 /\ drained' = drained
  BY DEF FeedResult
<1>a. ParserTypeOK
  BY DEF ResultInv
<1>k. /\ ln.kind \in Kinds /\ ln.name \in Titles \cup {NoName}
      /\ ln.kind \in {"unity pass", "unity fail"} => ln.name \in Titles
  BY DEF ResultLines, Kinds, DoctestMarks, UnityMarks, UnityResults
<1>1. CASE complete
  <2>1. Nothing /\ framework' = framework
    BY <1>1 DEF FeedResult
  <2>2. framework = "unity" => framework # "doctest"
    OBVIOUS
  <2> QED BY <1>0, <1>a, <1>1, <2>1, QuietStep
          DEF Nothing, parserVars, ParserTypeOK
<1>2. CASE ~complete
  <2>0. framework' = Parses(ln.kind)
    BY <1>2 DEF FeedResult
  <2>1. /\ framework' \in {"auto", "doctest", "unity"}
        /\ framework' = "auto" => framework = "auto"
        /\ framework' # "unity" => framework # "unity"
        /\ framework' = "unity" => framework # "doctest"
    BY <1>a, <1>k, <2>0, Detected DEF ParserTypeOK
  <2>2. ASSUME Nothing PROVE ResultInv'
    BY <1>0, <1>a, <2>1, <2>2, QuietStep DEF Nothing, parserVars, ParserTypeOK
  <2>3. CASE framework' = "auto"
    BY <1>2, <2>2, <2>3 DEF FeedResult
  <2>4. CASE framework' = "unity"
    <3>0. FeedUnity(ln)
      BY <1>2, <2>4 DEF FeedResult
    <3>1. CASE ln.kind \in {"unity pass", "unity fail"}
      <4>1. /\ results' = results \cup {Result(ln.name, heard + 1, heard + 1,
                                               ln.kind = "unity pass")}
            /\ UNCHANGED <<complete, parserVars, failLines>>
        BY <3>0, <3>1 DEF FeedUnity, UnityResults
      <4>2. (ln.kind = "unity pass") \in BOOLEAN
        OBVIOUS
      <4>3. ln.name \in Titles
        BY <1>k, <3>1
      <4> QED BY <1>0, <2>1, <2>4, <4>1, <4>2, <4>3, UnityStep
    <3>2. CASE ln.kind = "unity summary"
      <4>1. complete' = TRUE /\ UNCHANGED <<results, parserVars, failLines>>
        BY <3>0, <3>2 DEF FeedUnity, UnityResults
      <4> QED BY <1>0, <1>a, <2>1, <2>4, <4>1, QuietStep
              DEF parserVars, ParserTypeOK
    <3>3. CASE ln.kind \notin {"unity pass", "unity fail", "unity summary"}
      BY <2>2, <3>0, <3>3 DEF FeedUnity, UnityResults
    <3> QED BY <3>1, <3>2, <3>3
  <2>5. CASE framework' = "doctest"
    <3>0. FeedDoctest(ln)
      BY <1>2, <2>5 DEF FeedResult
    <3>1. CASE ln.kind = "header"
      <4>1. FeedHeader(ln.name)
        BY <3>0, <3>1 DEF FeedDoctest
      <4>2. heard + 1 # 0
        BY <1>a DEF ParserTypeOK
      <4> QED BY <1>0, <1>a, <1>k, <2>1, <2>5, <4>1, <4>2, CaseStep
              DEF FeedHeader, Known, ParserTypeOK
    <3>2. CASE ln.kind = "success"
      <4>1. FeedSuccess
        BY <3>0, <3>2 DEF FeedDoctest
      <4> QED BY <1>0, <1>a, <2>1, <2>5, <4>1, QuietStep
              DEF FeedSuccess, ParserTypeOK
    <3>3. CASE ln.kind = "fail"
      <4>1. FeedFail
        BY <3>0, <3>3 DEF FeedDoctest
      <4> QED BY <1>0, <1>2, <2>1, <2>5, <4>1, FailStep
    <3>4. ASSUME NEW all \in BOOLEAN, FeedSummary(all) PROVE ResultInv'
      <4>1. /\ test' = NoName /\ header' = 0 /\ passing' = FALSE /\ failing' = 0
            /\ complete' = TRUE /\ failLines' = failLines
            /\ \/ results' = WithCase
               \/ WithCase = {} /\ results' = {AllPassed(heard + 1)}
        BY <3>4 DEF FeedSummary
      <4>2. \/ Known' = WithCase \cup drained
            \/ Known' = (WithCase \cup drained)
                            \cup {AllPassed(heard + 1)}
        BY <1>0, <4>1 DEF Known
      <4>3. results' \subseteq Known'
        BY DEF Known
      <4> QED BY <1>0, <2>1, <2>5, <4>1, <4>2, <4>3, CaseStep
    <3>5. CASE ln.kind \in {"summary passed", "summary failed"}
      <4>1. FeedSummary(TRUE) \/ FeedSummary(FALSE)
        BY <3>0, <3>5 DEF FeedDoctest
      <4> QED BY <3>4, <4>1
    <3>6. CASE ln.kind \notin DoctestMarks \cup {"success"}
      <4>1. Nothing
        BY <3>0, <3>6 DEF FeedDoctest, DoctestMarks
      <4> QED BY <2>2, <4>1
    <3> QED BY <3>1, <3>2, <3>3, <3>5, <3>6 DEF DoctestMarks
  <2> QED BY <2>1, <2>3, <2>4, <2>5
<1> QED BY <1>1, <1>2

(* Draining moves results and changes nothing of what is known.             *)
LEMMA DrainStep ==
    ASSUME ResultInv, DrainResults
    PROVE  ResultInv'
<1> USE DEF ResultInv
<1>1. Known' = Known
  BY DEF DrainResults, Known
<1>2. UNCHANGED <<framework, complete, test, header, passing, failing, heard, failLines>>
  BY DEF DrainResults, parserVars
<1>3. ParserTypeOK'
  BY <1>2 DEF DrainResults, ParserTypeOK
<1> QED BY <1>1, <1>2, <1>3 DEF OfTheOutput, Open, Consistent, Reports

(* OneOutcome and FailuresKept, in every behaviour: whatever is printed and *)
(* whenever it is drained, the output under one header has failures or one  *)
(* pass, and every failure of doctest is one result.                        *)
THEOREM ResultsAreTrue == ResultSpec => [](OneOutcome /\ FailuresKept)
<1>1. ResultInit => ResultInv
  <2> SUFFICES ASSUME ResultInit PROVE ResultInv
    OBVIOUS
  <2>1. ParserTypeOK
    <3>1. complete \in BOOLEAN /\ passing \in BOOLEAN
      BY DEF ResultInit
    <3>2. /\ heard \in Nat /\ header \in 0..heard /\ failing \in 0..heard
          /\ test \in Titles \cup {NoName}
      BY DEF ResultInit
    <3> QED BY <3>1, <3>2 DEF ResultInit, ParserTypeOK
  <2>2. Known = {} /\ failing = 0 /\ test = NoName /\ header = 0 /\ failLines = {}
    BY DEF ResultInit, Known
  <2> QED BY <2>1, <2>2
          DEF ResultInv, OfTheOutput, Open, Consistent, Reports
<1>2. ResultInv /\ [ResultNext]_resultVars => ResultInv'
  <2> SUFFICES ASSUME ResultInv, [ResultNext]_resultVars PROVE ResultInv'
    OBVIOUS
  <2>1. CASE UNCHANGED resultVars
    BY <2>1 DEF resultVars, parserVars, ResultInv, ParserTypeOK, OfTheOutput,
       Open, Consistent, Reports, Known
  <2> QED BY <2>1, FeedStep, DrainStep DEF ResultNext
<1>3. ResultInv => OneOutcome /\ FailuresKept
  BY DEF ResultInv, Consistent, Reports, OneOutcome, FailuresKept
<1> QED BY <1>1, <1>2, <1>3, PTL DEF ResultSpec

-----------------------------------------------------------------------------
(* The wire format.                                                         *)

(* What becomes of each bit when the byte moves up.                         *)
LEMMA ShiftBit ==
    ASSUME NEW c, NEW i
    PROVE  i \in Shift(c) <=>
             ((i \in 1..7 /\ i - 1 \in c) # (7 \in c /\ i \in Poly))
<1>1. CASE 7 \in c
  BY <1>1 DEF Shift, Xor
<1>2. CASE 7 \notin c
  BY <1>2 DEF Shift, Xor
<1> QED BY <1>1, <1>2

LEMMA ShiftType ==
    ASSUME NEW c
    PROVE  Shift(c) \in Bytes
<1>1. Poly \subseteq Bits /\ 1..7 \subseteq Bits
  BY DEF Poly, Bits
<1> QED BY <1>1 DEF Bytes, Shift, Xor

(* Shifting is linear.                                                      *)
LEMMA ShiftLinear ==
    ASSUME NEW c, NEW d
    PROVE  Shift(Xor(c, d)) = Xor(Shift(c), Shift(d))
<1>1. ASSUME NEW i PROVE i \in Shift(Xor(c, d)) <=> i \in Xor(Shift(c), Shift(d))
  <2>1. \A x : x \in Xor(c, d) <=> (x \in c) # (x \in d)
    BY DEF Xor
  <2>2. i \in Xor(Shift(c), Shift(d)) <=> (i \in Shift(c)) # (i \in Shift(d))
    BY DEF Xor
  <2>3. /\ i \in Shift(c) <=>
             ((i \in 1..7 /\ i - 1 \in c) # (7 \in c /\ i \in Poly))
        /\ i \in Shift(d) <=>
             ((i \in 1..7 /\ i - 1 \in d) # (7 \in d /\ i \in Poly))
        /\ i \in Shift(Xor(c, d)) <=>
             ((i \in 1..7 /\ i - 1 \in Xor(c, d)) # (7 \in Xor(c, d) /\ i \in Poly))
    BY ShiftBit
  <2> QED BY <2>1, <2>2, <2>3
<1> QED BY <1>1

(* A bit that falls off the end shows in bit 0: what has moved to m..h was  *)
(* one lower before, and nothing was lost.                                  *)
LEMMA ShiftBack ==
    ASSUME NEW c \in Bytes, NEW m \in Nat, NEW h \in Nat, m >= 1, h <= 7,
           Shift(c) \subseteq m..h
    PROVE  c \subseteq (m - 1)..(h - 1)
<1>1. 0 \notin m..h /\ 0 \notin 1..7 /\ 0 \in Poly
  BY DEF Poly
<1>2. 7 \notin c
  BY <1>1, ShiftBit
<1> SUFFICES ASSUME NEW i \in c PROVE i \in (m - 1)..(h - 1)
  OBVIOUS
<1>3. i \in 0..7 /\ i # 7
  BY <1>2 DEF Bytes, Bits
<1>4. i + 1 \in 1..7 /\ (i + 1) - 1 = i
  BY <1>3
<1>5. i + 1 \in Shift(c)
  BY <1>2, <1>4, ShiftBit
<1>6. i + 1 \in m..h
  BY <1>5
<1> QED BY <1>3, <1>6

LEMMA ShiftInjective ==
    ASSUME NEW c \in Bytes
    PROVE  Shift(c) = {} <=> c = {}
<1>1. ASSUME Shift(c) = {} PROVE c = {}
  <2>1. Shift(c) \subseteq 1..0
    BY <1>1
  <2>2. c \subseteq (1 - 1)..(0 - 1)
    BY <2>1, ShiftBack
  <2> QED BY <2>2
<1>2. ASSUME c = {} PROVE Shift(c) = {}
  BY <1>2, ShiftBit
<1> QED BY <1>1, <1>2

(* Below bit 7 nothing but the move happens.                                *)
LEMMA ShiftOn ==
    ASSUME NEW c, NEW m \in Nat, NEW h \in Nat, h <= 6, c \subseteq m..h
    PROVE  Shift(c) \subseteq (m + 1)..(h + 1)
<1>1. 7 \notin c
  OBVIOUS
<1> SUFFICES ASSUME NEW i \in Shift(c) PROVE i \in (m + 1)..(h + 1)
  OBVIOUS
<1>2. i \in 1..7 /\ i - 1 \in c
  BY <1>1, ShiftBit
<1>3. i - 1 \in m..h
  BY <1>2
<1> QED BY <1>2, <1>3

Eight(c) == FourShifts(FourShifts(c))

LEMMA EightType == \A c : Eight(c) \in Bytes
BY ShiftType DEF Eight, FourShifts

LEMMA EightLinear ==
    ASSUME NEW c, NEW d
    PROVE  Eight(Xor(c, d)) = Xor(Eight(c), Eight(d))
<1>1. \A a, b : FourShifts(Xor(a, b)) = Xor(FourShifts(a), FourShifts(b))
  BY ShiftLinear DEF FourShifts
<1> QED BY <1>1 DEF Eight

LEMMA EightInjective ==
    ASSUME NEW c \in Bytes
    PROVE  Eight(c) = {} <=> c = {}
<1>1. \A a \in Bytes : FourShifts(a) = {} <=> a = {}
  BY ShiftType, ShiftInjective DEF FourShifts
<1>2. FourShifts(c) \in Bytes
  BY ShiftType DEF FourShifts
<1> QED BY <1>1, <1>2 DEF Eight

(* Eight bits in a row are caught: shifted out of the first byte they do    *)
(* not make what is left of them in the second.  Until the first of them    *)
(* falls off, they move up; what stands in the second byte's place at the   *)
(* end has moved up only; in between they would be in both places.          *)
LEMMA BurstIsCaught ==
    ASSUME NEW b \in Bytes \X Bytes, NEW k \in 0..8, Spans(b, k),
           Eight(b[1]) = b[2]
    PROVE  b = <<{}, {}>>
<1> DEFINE s1 == Shift(b[1])
           s2 == Shift(s1)
           s3 == Shift(s2)
           s4 == Shift(s3)
           s5 == Shift(s4)
           s6 == Shift(s5)
           s7 == Shift(s6)
           s8 == Shift(s7)
<1>1. b[1] \in Bytes /\ b = <<b[1], b[2]>>
  OBVIOUS
<1>2. s8 = b[2]
  BY DEF Eight, FourShifts
<1>3. /\ s1 \in Bytes /\ s2 \in Bytes /\ s3 \in Bytes /\ s4 \in Bytes
      /\ s5 \in Bytes /\ s6 \in Bytes /\ s7 \in Bytes /\ s8 \in Bytes
  BY ShiftType
<1>4. b[1] \subseteq 0..(k - 1) /\ s8 \subseteq (k - 0)..(7 - 0)
  BY <1>2 DEF Spans
<1>on. ASSUME NEW c, NEW j \in 0..7, j < 8 - k, c \subseteq j..(k - 1 + j)
       PROVE  Shift(c) \subseteq (j + 1)..(k + j)
  <2>1. CASE k = 0
    <3>1. c = {}
      BY <1>on, <2>1
    <3>2. c \in Bytes
      BY <3>1 DEF Bytes
    <3> QED BY <3>1, <3>2, ShiftInjective
  <2>2. CASE k # 0
    <3>1. k - 1 + j \in Nat /\ k - 1 + j <= 6 /\ (k - 1 + j) + 1 = k + j
      BY <1>on, <2>2
    <3> DEFINE h == k - 1 + j
    <3> HIDE DEF h
    <3>2. h \in Nat /\ h <= 6 /\ h + 1 = k + j /\ c \subseteq j..h /\ j \in Nat
      BY <1>on, <3>1 DEF h
    <3>3. Shift(c) \subseteq (j + 1)..(h + 1)
      BY <3>2, ShiftOn
    <3> QED BY <3>2, <3>3
  <2> QED BY <2>1, <2>2
<1>back. ASSUME NEW c \in Bytes, NEW j \in 0..7, k >= j + 1,
                Shift(c) \subseteq (k - j)..(7 - j)
         PROVE  c \subseteq (k - (j + 1))..(7 - (j + 1))
  <2> DEFINE m == k - j
             h == 7 - j
  <2>1. m \in Nat /\ h \in Nat /\ m >= 1 /\ h <= 7 /\ m - 1 = k - (j + 1)
        /\ h - 1 = 7 - (j + 1)
    BY <1>back
  <2>2. Shift(c) \subseteq m..h
    BY <1>back
  <2> HIDE DEF m, h
  <2>3. c \subseteq (m - 1)..(h - 1)
    BY <2>1, <2>2, ShiftBack
  <2> QED BY <2>1, <2>3
<1> HIDE DEF s1, s2, s3, s4, s5, s6, s7, s8
<1>s. /\ s1 = Shift(b[1])
      /\ s2 = Shift(s1)
      /\ s3 = Shift(s2)
      /\ s4 = Shift(s3)
      /\ s5 = Shift(s4)
      /\ s6 = Shift(s5)
      /\ s7 = Shift(s6)
      /\ s8 = Shift(s7)
  BY DEF s1, s2, s3, s4, s5, s6, s7, s8
<1>f1. k <= 7 => s1 \subseteq 1..(k + 0)
  BY <1>s, <1>4, <1>on
<1>f2. k <= 6 => s2 \subseteq 2..(k + 1)
  BY <1>s, <1>f1, <1>on
<1>f3. k <= 5 => s3 \subseteq 3..(k + 2)
  BY <1>s, <1>f2, <1>on
<1>f4. k <= 4 => s4 \subseteq 4..(k + 3)
  BY <1>s, <1>f3, <1>on
<1>f5. k <= 3 => s5 \subseteq 5..(k + 4)
  BY <1>s, <1>f4, <1>on
<1>f6. k <= 2 => s6 \subseteq 6..(k + 5)
  BY <1>s, <1>f5, <1>on
<1>f7. k <= 1 => s7 \subseteq 7..(k + 6)
  BY <1>s, <1>f6, <1>on
<1>f8. k <= 0 => s8 \subseteq 8..(k + 7)
  BY <1>s, <1>f7, <1>on
<1>b1. k >= 1 => s7 \subseteq (k - 1)..(7 - 1)
  BY <1>1, <1>3, <1>s, <1>4, <1>back
<1>b2. k >= 2 => s6 \subseteq (k - 2)..(7 - 2)
  BY <1>1, <1>3, <1>s, <1>b1, <1>back
<1>b3. k >= 3 => s5 \subseteq (k - 3)..(7 - 3)
  BY <1>1, <1>3, <1>s, <1>b2, <1>back
<1>b4. k >= 4 => s4 \subseteq (k - 4)..(7 - 4)
  BY <1>1, <1>3, <1>s, <1>b3, <1>back
<1>b5. k >= 5 => s3 \subseteq (k - 5)..(7 - 5)
  BY <1>1, <1>3, <1>s, <1>b4, <1>back
<1>b6. k >= 6 => s2 \subseteq (k - 6)..(7 - 6)
  BY <1>1, <1>3, <1>s, <1>b5, <1>back
<1>b7. k >= 7 => s1 \subseteq (k - 7)..(7 - 7)
  BY <1>1, <1>3, <1>s, <1>b6, <1>back
<1>b8. k >= 8 => b[1] \subseteq (k - 8)..(7 - 8)
  BY <1>1, <1>3, <1>s, <1>b7, <1>back
<1>e. (s1 = {} <=> b[1] = {}) /\ (s2 = {} <=> s1 = {}) /\ (s3 = {} <=> s2 = {}) /\ (s4 = {} <=> s3 = {})
      /\ (s5 = {} <=> s4 = {}) /\ (s6 = {} <=> s5 = {}) /\ (s7 = {} <=> s6 = {}) /\ (s8 = {} <=> s7 = {})
  BY <1>1, <1>3, <1>s, ShiftInjective
<1>k0. ASSUME k = 0 PROVE s8 = {}
  BY <1>k0, <1>f8, <1>4
<1>k1. ASSUME k = 1 PROVE s7 = {}
  BY <1>k1, <1>f7, <1>b1
<1>k2. ASSUME k = 2 PROVE s6 = {}
  BY <1>k2, <1>f6, <1>b2
<1>k3. ASSUME k = 3 PROVE s5 = {}
  BY <1>k3, <1>f5, <1>b3
<1>k4. ASSUME k = 4 PROVE s4 = {}
  BY <1>k4, <1>f4, <1>b4
<1>k5. ASSUME k = 5 PROVE s3 = {}
  BY <1>k5, <1>f3, <1>b5
<1>k6. ASSUME k = 6 PROVE s2 = {}
  BY <1>k6, <1>f2, <1>b6
<1>k7. ASSUME k = 7 PROVE s1 = {}
  BY <1>k7, <1>f1, <1>b7
<1>k8. ASSUME k = 8 PROVE b[1] = {}
  BY <1>k8, <1>4, <1>b8
<1>5. b[1] = {} /\ s8 = {}
  <2>1. k \in {0, 1, 2, 3, 4, 5, 6, 7, 8}
    OBVIOUS
  <2> QED BY <1>e, <1>k0, <1>k1, <1>k2, <1>k3, <1>k4, <1>k5, <1>k6, <1>k7, <1>k8, <2>1
<1> QED BY <1>1, <1>2, <1>5

(* The CRC, byte by byte.                                                   *)
LEMMA CrcUnfold ==
    ASSUME NEW content \in Seq(Bytes)
    PROVE  /\ CrcUpTo(content)[0] = {}
           /\ \A k \in 1..Len(content) :
                 CrcUpTo(content)[k] = AddByte(CrcUpTo(content)[k - 1], content[k])
<1> DEFINE n == Len(content)
           First == {}
           Loop(f, k) == f = [i \in 0..k |-> IF i = 0 THEN First
                                             ELSE AddByte(f[i - 1], content[i])]
           None == {k \in 0..n : ~ \E f : Loop(f, k)}
           R == OpToRel(<, Nat)
           up == CrcUpTo(content)
<1>1. n \in Nat
  OBVIOUS
<1>s. up = CHOOSE s : s = [i \in 0..n |-> IF i = 0 THEN First ELSE AddByte(s[i - 1], content[i])]
  BY DEF CrcUpTo
<1> HIDE DEF n, First, up
<1>2. None = {}
  <2> SUFFICES ASSUME None # {} PROVE FALSE
    OBVIOUS
  <2>1. PICK m \in None : \A j \in None : ~(<<j, m>> \in R)
    <3>1. IsWellFoundedOn(R, Nat)
      BY NatLessThanWellFounded DEF R
    <3>2. None \subseteq Nat
      <4>1. None \subseteq 0..n
        OBVIOUS
      <4> HIDE DEF None
      <4> QED BY <1>1, <4>1
    <3> HIDE DEF None, R
    <3> QED BY <3>1, <3>2, WFMin, Zenon
  <2>2. m \in 0..n /\ ~ \E f : Loop(f, m)
    OBVIOUS
  <2>3. m # 0
    <3> SUFFICES ASSUME m = 0 PROVE FALSE
      OBVIOUS
    <3> DEFINE f == [i \in 0..0 |-> First]
    <3>1. f = [i \in 0..0 |-> IF i = 0 THEN First ELSE AddByte(f[i - 1], content[i])]
      OBVIOUS
    <3> HIDE DEF f
    <3> QED BY <2>2, <3>1
  <2>4. m - 1 \in 0..n /\ m - 1 < m
    BY <1>1, <2>2, <2>3
  <2>5. m - 1 \notin None
    <3> SUFFICES ASSUME m - 1 \in None PROVE FALSE
      OBVIOUS
    <3>1. <<m - 1, m>> \in R
      BY <1>1, <2>2, <2>4 DEF OpToRel
    <3> QED BY <2>1, <3>1
  <2>6. PICK f : Loop(f, m - 1)
    BY <2>4, <2>5
  <2> DEFINE g == [i \in 0..m |-> IF i = m THEN AddByte(f[m - 1], content[m]) ELSE f[i]]
  <2>7. \A i \in 0..m : g[i] = IF i = 0 THEN First ELSE AddByte(g[i - 1], content[i])
    <3>0. m \in Nat /\ m # 0
      BY <1>1, <2>2, <2>3
    <3>1. \A i \in 0..(m - 1) : f[i] = IF i = 0 THEN First ELSE AddByte(f[i - 1], content[i])
      BY <2>6
    <3>2. ASSUME NEW i \in 0..m
          PROVE  g[i] = IF i = 0 THEN First ELSE AddByte(g[i - 1], content[i])
      <4>1. CASE i = m
        <5>1. i # 0 /\ i - 1 \in 0..m /\ i - 1 # m /\ i - 1 = m - 1
          BY <3>0, <4>1
        <5> QED BY <4>1, <5>1
      <4>2. CASE i # m
        <5>1. i \in 0..(m - 1) /\ (i # 0 => i - 1 \in 0..m /\ i - 1 # m)
          BY <3>0, <4>2
        <5>2. g[i] = f[i] /\ (i # 0 => g[i - 1] = f[i - 1])
          BY <4>2, <5>1
        <5> HIDE DEF g
        <5> QED BY <3>1, <5>1, <5>2
      <4> QED BY <4>1, <4>2
    <3> QED BY <3>2
  <2>8. Loop(g, m)
    <3>1. g = [i \in 0..m |-> g[i]]
      OBVIOUS
    <3> HIDE DEF g
    <3> QED BY <2>7, <3>1
  <2> QED BY <2>2, <2>8
<1>3. \E f : Loop(f, n)
  <2>1. n \in 0..n
    BY <1>1
  <2> QED BY <1>2, <2>1
<1>4. Loop(up, n)
  BY <1>3, <1>s
<1>5. \A k \in 0..n : up[k] = IF k = 0 THEN First ELSE AddByte(up[k - 1], content[k])
  BY <1>4
<1>6. 0 \in 0..n /\ \A k \in 1..n : k \in 0..n /\ k # 0
  BY <1>1
<1>7. up[0] = First /\ \A k \in 1..n : up[k] = AddByte(up[k - 1], content[k])
  <2> HIDE DEF Loop
  <2> QED BY <1>5, <1>6
<1> QED BY <1>7 DEF First, n, up


(* The CRCs of two contents that part at i and meet again two bytes on: the *)
(* same before i, apart by what the burst has become at i, different after. *)
Parted(content, i, burst, k) ==
    LET c == CrcUpTo(content)[k]
        d == CrcUpTo(Garbled(content, i, burst))[k]
    IN  /\ c \in Bytes /\ d \in Bytes
        /\ k < i => c = d
        /\ k = i => Xor(c, d) = Eight(burst[1])
        /\ k > i => c # d

LEMMA PartedStep ==
    ASSUME NEW content \in Seq(Bytes), NEW i \in 1..Len(content),
           NEW b \in Bursts, b # <<{}, {}>>, NEW k \in 1..Len(content),
           Parted(content, i, b, k - 1)
    PROVE  Parted(content, i, b, k)
<1> DEFINE w == Garbled(content, i, b)
           c == CrcUpTo(content)[k - 1]
           d == CrcUpTo(w)[k - 1]
           x == Xor(c, content[k])
           y == Xor(d, w[k])
<1>1. /\ w \in Seq(Bytes) /\ Len(w) = Len(content)
      /\ w[k] = CASE k = i     -> Xor(content[k], b[1])
                  [] k = i + 1 -> Xor(content[k], b[2])
                  [] OTHER     -> content[k]
      /\ b[1] \in Bytes /\ b[2] \in Bytes /\ content[k] \in Bytes
  <2>1. b[1] \in Bytes /\ b[2] \in Bytes
    BY WireAssumption
  <2>2. \A j \in DOMAIN content : content[j] \in Bytes
    OBVIOUS
  <2>3. \A p, q : p \in Bytes /\ q \in Bytes => Xor(p, q) \in Bytes
    BY DEF Bytes, Xor
  <2>4. DOMAIN content = 1..Len(content)
    OBVIOUS
  <2>5. w \in [1..Len(content) -> Bytes]
    BY <2>1, <2>2, <2>3, <2>4 DEF Garbled
  <2>6. w \in Seq(Bytes) /\ Len(w) = Len(content)
    <3>1. Len(content) \in Nat
      OBVIOUS
    <3> HIDE DEF w
    <3> QED BY <2>5, <3>1
  <2> QED BY <2>1, <2>2, <2>4, <2>6 DEF Garbled
<1>2. /\ CrcUpTo(content)[k] = Eight(x)
      /\ CrcUpTo(w)[k] = Eight(y)
  <2>1. CrcUpTo(content)[k] = AddByte(c, content[k])
    BY CrcUnfold
  <2>2. CrcUpTo(w)[k] = AddByte(d, w[k])
    <3>1. k \in 1..Len(w)
      BY <1>1
    <3> HIDE DEF w
    <3> QED BY <1>1, <3>1, CrcUnfold
  <2> QED BY <2>1, <2>2 DEF AddByte, Eight
<1>3. /\ c \in Bytes /\ d \in Bytes
      /\ k - 1 < i => c = d
      /\ k - 1 = i => Xor(c, d) = Eight(b[1])
      /\ k - 1 > i => c # d
  BY DEF Parted
<1> HIDE DEF w, c, d
<1>4. Xor(Eight(x), Eight(y)) = Eight(Xor(x, y))
  BY EightLinear
<1>5. Eight(x) \in Bytes /\ Eight(y) \in Bytes
  BY EightType
<1>6. \A p, q, r : Xor(Xor(p, q), Xor(p, Xor(q, r))) = r
  BY DEF Xor
<1>e. \A p, q : (Xor(p, q) = {}) <=> (p = q)
  BY DEF Xor
<1>7. x \in Bytes /\ y \in Bytes /\ Xor(x, y) \in Bytes
  <2>1. \A p, q : p \in Bytes /\ q \in Bytes => Xor(p, q) \in Bytes
    BY DEF Bytes, Xor
  <2>2. w[k] \in Bytes
    BY <1>1, <2>1
  <2> QED BY <1>1, <1>3, <2>1, <2>2
<1>8. (Eight(x) = Eight(y)) <=> (x = y)
  BY <1>4, <1>7, <1>e, EightInjective
<1>i. i \in Nat /\ k \in Nat
  OBVIOUS
<1>9. CASE k < i
  <2>1. c = d /\ w[k] = content[k]
    BY <1>1, <1>3, <1>9, <1>i
  <2> QED BY <1>2, <1>5, <1>9, <1>i, <2>1 DEF Parted, w
<1>10. CASE k = i
  <2>1. c = d /\ w[k] = Xor(content[k], b[1])
    BY <1>1, <1>3, <1>10, <1>i
  <2>2. Xor(x, y) = b[1]
    BY <1>6, <2>1
  <2> QED BY <1>2, <1>4, <1>5, <1>10, <1>i, <2>2 DEF Parted, w
<1>11. CASE k = i + 1
  <2>1. Xor(c, d) = Eight(b[1]) /\ w[k] = Xor(content[k], b[2])
    BY <1>1, <1>3, <1>11, <1>i
  <2>2. x # y
    <3> SUFFICES ASSUME x = y PROVE FALSE
      OBVIOUS
    <3>1. \A p, q, r, s : Xor(p, q) = Xor(r, Xor(q, s)) => Xor(p, r) = s
      BY DEF Xor
    <3>2. Xor(c, d) = b[2]
      BY <2>1, <3>1
    <3>3. PICK m \in 0..8 : Spans(b, m)
      BY WireAssumption
    <3>4. b \in Bytes \X Bytes
      BY WireAssumption
    <3> QED BY <2>1, <3>2, <3>3, <3>4, BurstIsCaught
  <2> QED BY <1>2, <1>5, <1>8, <1>11, <1>i, <2>2 DEF Parted, w
<1>12. CASE k > i + 1
  <2>1. c # d /\ w[k] = content[k]
    BY <1>1, <1>3, <1>12, <1>i
  <2>2. x # y
    <3>1. \A p, q, r : Xor(p, q) = Xor(r, q) => p = r
      BY DEF Xor
    <3> QED BY <2>1, <3>1
  <2> QED BY <1>2, <1>5, <1>8, <1>12, <1>i, <2>2 DEF Parted, w
<1> QED BY <1>9, <1>10, <1>11, <1>12, <1>i

LEMMA PartedAll ==
    ASSUME NEW content \in Seq(Bytes), NEW i \in 1..Len(content),
           NEW b \in Bursts, b # <<{}, {}>>
    PROVE  Parted(content, i, b, Len(content))
<1> DEFINE n == Len(content)
           Bad == {k \in 0..n : ~Parted(content, i, b, k)}
           R == OpToRel(<, Nat)
<1>1. n \in Nat /\ i \in Nat /\ i # 0
  OBVIOUS
<1>2. Parted(content, i, b, 0)
  <2> DEFINE w == Garbled(content, i, b)
  <2>1. w \in Seq(Bytes)
    <3>1. b[1] \in Bytes /\ b[2] \in Bytes
      BY WireAssumption
    <3>2. \A j \in DOMAIN content : content[j] \in Bytes
      OBVIOUS
    <3>3. \A p, q : p \in Bytes /\ q \in Bytes => Xor(p, q) \in Bytes
      BY DEF Bytes, Xor
    <3>4. w \in [1..Len(content) -> Bytes]
      BY <3>1, <3>2, <3>3 DEF Garbled
    <3> HIDE DEF w
    <3> QED BY <3>4
  <2> HIDE DEF w
  <2>2. CrcUpTo(content)[0] = {} /\ CrcUpTo(w)[0] = {}
    BY <2>1, CrcUnfold
  <2>3. {} \in Bytes
    BY DEF Bytes
  <2> QED BY <1>1, <2>2, <2>3 DEF Parted, w
<1>3. \A k \in 1..n : Parted(content, i, b, k - 1) => Parted(content, i, b, k)
  BY PartedStep
<1> HIDE DEF n
<1>4. Bad = {}
  <2> SUFFICES ASSUME Bad # {} PROVE FALSE
    OBVIOUS
  <2>1. PICK m \in Bad : \A j \in Bad : ~(<<j, m>> \in R)
    <3>1. IsWellFoundedOn(R, Nat)
      BY NatLessThanWellFounded DEF R
    <3>2. Bad \subseteq Nat
      <4>1. Bad \subseteq 0..n
        OBVIOUS
      <4> HIDE DEF Bad
      <4> QED BY <1>1, <4>1
    <3> HIDE DEF Bad, R
    <3> QED BY <3>1, <3>2, WFMin, Zenon
  <2>2. m \in 1..n /\ ~Parted(content, i, b, m)
    <3>1. m \in 0..n /\ ~Parted(content, i, b, m)
      OBVIOUS
    <3>2. m # 0
      BY <1>2, <3>1
    <3> QED BY <1>1, <3>1, <3>2
  <2>3. m - 1 \notin Bad
    <3> SUFFICES ASSUME m - 1 \in Bad PROVE FALSE
      OBVIOUS
    <3>1. <<m - 1, m>> \in R
      BY <1>1, <2>2 DEF OpToRel
    <3> QED BY <2>1, <3>1
  <2>4. m - 1 \in 0..n
    BY <1>1, <2>2
  <2>5. Parted(content, i, b, m - 1)
    BY <2>3, <2>4
  <2> QED BY <1>3, <2>2, <2>5
<1>5. n \in 0..n
  BY <1>1
<1> QED BY <1>4, <1>5 DEF n

(* A burst in the content changes the CRC.                                  *)
LEMMA GarbledDiffers ==
    ASSUME NEW content \in Seq(Bytes), NEW i \in DOMAIN content, NEW b \in Bursts,
           Crc8(Garbled(content, i, b)) = Crc8(content)
    PROVE  Garbled(content, i, b) = content
<1> DEFINE n == Len(content)
           w == Garbled(content, i, b)
<1>1. n \in Nat /\ i \in 1..n /\ Len(w) = n
  BY DEF Garbled
<1>2. CASE b = <<{}, {}>>
  <2>1. \A p : Xor(p, {}) = p
    BY DEF Xor
  <2>2. w = [j \in DOMAIN content |-> content[j]]
    BY <1>2, <2>1 DEF Garbled
  <2> QED BY <2>2
<1>3. CASE b # <<{}, {}>>
  <2>1. Parted(content, i, b, n)
    BY <1>1, <1>3, PartedAll
  <2>2. CrcUpTo(w)[n] = CrcUpTo(content)[n]
    BY <1>1 DEF Crc8
  <2>3. i = n /\ Eight(b[1]) = {}
    <3>1. \A p : Xor(p, p) = {}
      BY DEF Xor
    <3>2. ~(n > i)
      BY <2>1, <2>2 DEF Parted
    <3>3. i = n
      BY <1>1, <3>2
    <3> QED BY <2>1, <2>2, <3>1, <3>3 DEF Parted
  <2>4. b[1] = {}
    BY <2>3, EightInjective, WireAssumption
  <2>5. \A j \in DOMAIN content : j # i + 1
    <3>1. DOMAIN content = 1..n
      OBVIOUS
    <3> QED BY <1>1, <2>3, <3>1
  <2>6. \A p : Xor(p, {}) = p
    BY DEF Xor
  <2>7. w = [j \in DOMAIN content |-> content[j]]
    BY <2>4, <2>5, <2>6 DEF Garbled
  <2> QED BY <2>7
<1> QED BY <1>2, <1>3

(* What a line can be while its end is still " *" and two digits.           *)
Read(content, crc) == [content |-> content, marked |-> TRUE, crc |-> crc]

WireInv ==
    /\ sent \in Seq(Bytes)
    /\ line.marked =>
          \/ \E i \in DOMAIN sent, b \in Bursts :
                line = Read(Garbled(sent, i, b), Crc8(sent))
          \/ \E c : line = Read(sent, c)

(* GarbledIsRejected, for contents of any length: whichever burst of up to  *)
(* eight bits, or other digits, a line whose CRC fits its bytes is the line *)
(* sent.  The host's CRC is that of the bytes when they are text, the       *)
(* board's always.                                                          *)
THEOREM GarbledIsCaught == WireSpec => []GarbledIsRejected
<1>1. WireInit => WireInv
  <2> SUFFICES ASSUME WireInit PROVE WireInv
    OBVIOUS
  <2>1. sent \in Seq(Bytes) /\ line = Format(sent)
    BY WireAssumption DEF WireInit
  <2>2. line = Read(sent, Crc8(sent))
    BY <2>1 DEF Format, Read
  <2> QED BY <2>1, <2>2 DEF WireInv
<1>2. WireInv /\ [WireNext]_wireVars => WireInv'
  <2> SUFFICES ASSUME WireInv, [WireNext]_wireVars PROVE WireInv'
    OBVIOUS
  <2>1. sent' = sent
    BY DEF WireNext, DamageContent, DamageDigits, DamageMark, wireVars
  <2>2. CASE DamageContent
    <3>1. PICK i \in DOMAIN sent, b \in Bursts :
              line' = [Format(sent) EXCEPT !.content = Garbled(sent, i, b)]
      BY <2>2 DEF DamageContent
    <3>2. line' = Read(Garbled(sent, i, b), Crc8(sent))
      BY <3>1 DEF Format, Read
    <3> QED BY <2>1, <3>2 DEF WireInv
  <2>3. CASE DamageDigits
    <3>1. PICK c \in Bytes : line' = [Format(sent) EXCEPT !.crc = c]
      BY <2>3 DEF DamageDigits
    <3>2. line' = Read(sent, c)
      BY <3>1 DEF Format, Read
    <3> QED BY <2>1, <3>2 DEF WireInv
  <2>4. CASE DamageMark
    <3>1. PICK content, crc : line = Read(content, crc)
      BY <2>4 DEF WireInv, DamageMark
    <3>2. PICK n \in 0..Len(sent) :
             line' = [line EXCEPT !.marked = FALSE, !.content = SubSeq(@, 1, n)]
      BY <2>4 DEF DamageMark
    <3>3. ~line'.marked
      BY <3>1, <3>2 DEF Read
    <3> QED BY <2>1, <3>3 DEF WireInv
  <2>5. CASE UNCHANGED wireVars
    BY <2>5 DEF wireVars, WireInv
  <2> QED BY <2>2, <2>3, <2>4, <2>5 DEF WireNext
<1>3. ASSUME WireInv, line.marked, Crc8(line.content) = line.crc
      PROVE  line = Format(sent)
  <2>1. line.marked /\ Crc8(line.content) = line.crc
    BY <1>3
  <2>2. ASSUME NEW i \in DOMAIN sent, NEW b \in Bursts,
               line = Read(Garbled(sent, i, b), Crc8(sent))
        PROVE  line = Format(sent)
    <3>1. line.content = Garbled(sent, i, b) /\ line.crc = Crc8(sent)
      BY <2>2 DEF Read
    <3>2. Garbled(sent, i, b) = sent
      BY <2>1, <3>1, GarbledDiffers, <1>3 DEF WireInv
    <3> QED BY <2>2, <3>2 DEF Format, Read
  <2>3. ASSUME NEW c, line = Read(sent, c)
        PROVE  line = Format(sent)
    <3>1. line.content = sent /\ line.crc = c
      BY <2>3 DEF Read
    <3> QED BY <2>1, <2>3, <3>1 DEF Format, Read
  <2> QED BY <1>3, <2>1, <2>2, <2>3 DEF WireInv
<1>4. WireInv => GarbledIsRejected
  <2>1. ASSUME WireInv, NEW cut \in Cuts(line), CrcOf(line, cut) = "ok",
               HostContent(line, cut) = line.content
        PROVE  line = Format(sent)
    <3>1. line.marked /\ Crc8(HostContent(line, cut)) = line.crc
      BY <2>1 DEF CrcOf
    <3> QED BY <1>3, <2>1, <3>1
  <2>2. WireInv /\ BoardAccepts(line) => line = Format(sent)
    BY <1>3 DEF BoardAccepts
  <2> QED BY <2>1, <2>2 DEF GarbledIsRejected
<1> QED BY <1>1, <1>2, <1>4, PTL DEF WireSpec
=============================================================================
