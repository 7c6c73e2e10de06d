--------------------------- MODULE SessionProofs ---------------------------
(***************************************************************************)
(* Theorems of host and board together, for every registry, every command   *)
(* line and every pattern of faults: noise both ways, lost ports, resets,   *)
(* crashes, hangs, oversleeping.                                            *)
(***************************************************************************)
EXTENDS Rounds, FiniteSetTheorems, SequenceTheorems, TLAPS

(* What the theorems ask of an instance: every session after the first      *)
(* resets the board, and every test is in a suite.                          *)
LaterSessionsReset == \A i \in DOMAIN Resets : i # 1 => Resets[i]
TestsInSuites == \A t \in Tests : NameOf[t] \in Names /\ SuiteOf[t] \in Suites

DeviceTags == Tags \cup {"CRASH", "FAIL"}
AnyLine == [tag : DeviceTags, crc : Crc, suite : Suites \cup {""},
            name : Names \cup {""}, run : Nat]

(* The lines that announce no test but those of B.                          *)
LinesOf(B) ==
    {ln \in AnyLine : ln.tag = "CASE:START" =>
        \E t \in B : ln.suite = SuiteOf[t] /\ ln.name = NameOf[t]}

WireInv ==
    /\ todo \subseteq Tests /\ begun \subseteq Tests
    /\ wire \in Seq(AnyLine)
    /\ ~Between => wire \in Seq(LinesOf(begun))

CountedInv ==
    /\ chunk \in Seq(LinesOf(begun))
    /\ completed \subseteq {LabelOf(t) : t \in begun}

HostInv ==
    /\ session \in DOMAIN Resets
    /\ curName \in Names \cup {""} /\ sleepName \in Names \cup {""}
    /\ RunnerTypeOK

SessionInv == WireInv /\ CountedInv /\ HostInv

-----------------------------------------------------------------------------
(* Lines.                                                                   *)

LEMMA LinesGrow ==
    ASSUME NEW B, NEW D, B \subseteq D, NEW s \in Seq(LinesOf(B))
    PROVE  s \in Seq(LinesOf(D))
<1>1. LinesOf(B) \subseteq LinesOf(D)
  BY DEF LinesOf
<1> HIDE DEF LinesOf
<1> QED BY <1>1

LEMMA LinesAreLines ==
    ASSUME NEW B PROVE Seq(LinesOf(B)) \subseteq Seq(AnyLine)
<1>1. LinesOf(B) \subseteq AnyLine
  BY DEF LinesOf
<1> QED BY <1>1

LEMMA OtherLines ==
    ASSUME NEW B, NEW tag \in DeviceTags, tag # "CASE:START", NEW n \in Nat
    PROVE  /\ Line(tag, NoName, NoName, n) \in LinesOf(B)
           /\ Tagged(tag) \in LinesOf(B)
           /\ Console(tag) \in LinesOf(B)
BY DEF Line, Tagged, Console, LinesOf, AnyLine, NoName, Crc

(* What is emitted is on the wire, or lost.                                 *)
LEMMA EmitKeeps ==
    ASSUME wire \in Seq(AnyLine), NEW B, NEW lines \in Seq(LinesOf(B)), Emit(lines)
    PROVE  /\ wire' \in Seq(AnyLine)
           /\ wire \in Seq(LinesOf(B)) => wire' \in Seq(LinesOf(B))
<1>1. lines \in Seq(AnyLine)
  BY LinesAreLines
<1>2. wire' = wire \/ wire' = wire \o lines
  BY DEF Emit
<1>3. CASE wire' = wire \o lines
  <2>1. wire' \in Seq(AnyLine)
    BY <1>1, <1>3
  <2>2. ASSUME wire \in Seq(LinesOf(B)) PROVE wire' \in Seq(LinesOf(B))
    BY <1>3, <2>2
  <2> QED BY <2>1, <2>2
<1> QED BY <1>2, <1>3

(* A damaged line announces what it did.                                    *)
LEMMA GarbleKeeps ==
    ASSUME NEW B, GarbleLine
    PROVE  /\ wire \in Seq(AnyLine) => wire' \in Seq(AnyLine)
           /\ wire \in Seq(LinesOf(B)) => wire' \in Seq(LinesOf(B))
<1>1. PICK i \in DOMAIN wire : wire' = [wire EXCEPT ![i].crc = "bad"]
  BY DEF GarbleLine
<1>2. wire' = [wire EXCEPT ![i] = [wire[i] EXCEPT !.crc = "bad"]]
  BY <1>1
<1>3. ASSUME NEW ln \in AnyLine PROVE [ln EXCEPT !.crc = "bad"] \in AnyLine
  BY DEF AnyLine, Crc
<1>4. ASSUME NEW ln \in LinesOf(B) PROVE [ln EXCEPT !.crc = "bad"] \in LinesOf(B)
  <2>1. ln \in AnyLine
    BY DEF LinesOf
  <2>2. /\ [ln EXCEPT !.crc = "bad"].tag = ln.tag
        /\ [ln EXCEPT !.crc = "bad"].suite = ln.suite
        /\ [ln EXCEPT !.crc = "bad"].name = ln.name
    BY <2>1 DEF AnyLine
  <2> QED BY <1>3, <2>1, <2>2 DEF LinesOf
<1>5. ASSUME wire \in Seq(AnyLine) PROVE wire' \in Seq(AnyLine)
  BY <1>2, <1>3, <1>5
<1>6. ASSUME wire \in Seq(LinesOf(B)) PROVE wire' \in Seq(LinesOf(B))
  BY <1>2, <1>4, <1>6
<1> QED BY <1>5, <1>6

LEMMA SuffixKeeps ==
    ASSUME NEW S, NEW s \in Seq(S), NEW k \in 0..Len(s)
    PROVE  /\ SubSeq(s, k + 1, Len(s)) \in Seq(S)
           /\ SubSeq(s, 1, k) \in Seq(S)
BY SubSeqProperties

-----------------------------------------------------------------------------
(* The board.  Its steps only add to begun, and announce what they add.     *)

LEMMA CountsAreNatural ==
    ASSUME NEW msg, NEW fl PROVE CountBy(skip, env, msg, fl) \in Nat
<1> DEFINE C == CountSelects(SkipForCycle(skip, env, msg, fl), DoctestArgs(fl))
<1>1. C \subseteq Tests
  BY DEF CountSelects
<1>2. IsFiniteSet(Tests)
  <2>1. N \in Nat
    BY RegistryAssumption
  <2> QED BY <2>1, FS_Interval DEF Tests
<1> HIDE DEF C
<1>3. Cardinality(C) \in Nat
  BY <1>1, <1>2, FS_Subset, FS_CardinalityType
<1> QED BY <1>3 DEF CountBy, C

LEMMA PrologueAnnounces ==
    ASSUME wire \in Seq(AnyLine), NEW B, NEW msg, Prologue(msg)
    PROVE  /\ todo' \subseteq Tests
           /\ wire' \in Seq(AnyLine)
           /\ wire \in Seq(LinesOf(B)) => wire' \in Seq(LinesOf(B))
<1> DEFINE fl == CommandFlags(msg, args)
           errors == IF Malformed(fl) THEN <<Tagged("ERROR")>> ELSE <<>>
           counts == IF msg.kind = "LIST" THEN <<>>
                     ELSE <<Line("COUNTS", NoName, NoName,
                                 CountBy(skip, env, msg, fl))>>
<1>1. Emit(errors \o counts)
      /\ todo' = IF msg.kind = "LIST" THEN {} ELSE RunBy(skip, env, msg, fl)
  BY DEF Prologue
<1> HIDE DEF fl
<1>2. todo' \subseteq Tests
  BY <1>1 DEF RunBy, DoctestSelects
<1>3. <<>> \in Seq(LinesOf(B))
  BY EmptySeq
<1>4. Tagged("ERROR") \in LinesOf(B)
      /\ Line("COUNTS", NoName, NoName, CountBy(skip, env, msg, fl)) \in LinesOf(B)
  BY CountsAreNatural, OtherLines DEF DeviceTags, Tags
<1>5. errors \in Seq(LinesOf(B)) /\ counts \in Seq(LinesOf(B))
  BY <1>3, <1>4
<1> HIDE DEF errors, counts
<1>6. errors \o counts \in Seq(LinesOf(B))
  BY <1>5
<1> QED BY <1>1, <1>2, <1>6, EmitKeeps

(* A step of the board or a mishap of its own.                              *)
LEMMA BoardStep ==
    ASSUME TestsInSuites, todo \subseteq Tests, begun \subseteq Tests,
           wire \in Seq(AnyLine), DeviceRuns \/ IntervalElapses \/ Faulty
    PROVE  /\ begun \subseteq begun' /\ todo' \subseteq Tests
           /\ begun' \subseteq Tests
           /\ wire' \in Seq(AnyLine)
           /\ wire \in Seq(LinesOf(begun)) => wire' \in Seq(LinesOf(begun'))
<1> DEFINE Kept == /\ begun' = begun /\ todo' \subseteq Tests
                   /\ wire' \in Seq(AnyLine)
                   /\ wire \in Seq(LinesOf(begun)) => wire' \in Seq(LinesOf(begun))
<1>0. <<>> \in Seq(AnyLine) /\ \A B : <<>> \in Seq(LinesOf(B))
  BY EmptySeq
<1>1. ASSUME Kept
      PROVE  /\ begun \subseteq begun' /\ todo' \subseteq Tests
             /\ begun' \subseteq Tests
             /\ wire' \in Seq(AnyLine)
             /\ wire \in Seq(LinesOf(begun)) => wire' \in Seq(LinesOf(begun'))
  BY <1>1
<1>2. ASSUME NEW lines \in Seq(LinesOf(begun)), Emit(lines), UNCHANGED <<begun, todo>>
      PROVE  Kept
  BY <1>2, EmitKeeps
<1>3. ASSUME UNCHANGED <<begun, todo>>, UNCHANGED wire \/ wire' = <<>> PROVE Kept
  BY <1>0, <1>3
<1>4. ASSUME NEW ln \in LinesOf(begun) PROVE <<ln>> \in Seq(LinesOf(begun))
  OBVIOUS
<1> USE DEF cycleVars, historyVars, linkVars
<1>5. CASE EmitReady \/ SignalBusy \/ SignalSleep \/ FinishCycle \/ BoardInitFails
           \/ FailAssertion \/ Crash
  <2>1. /\ Tagged("READY") \in LinesOf(begun) /\ Tagged("BUSY") \in LinesOf(begun)
        /\ Tagged("SLEEP") \in LinesOf(begun) /\ Tagged("RESTART") \in LinesOf(begun)
        /\ Tagged("DONE") \in LinesOf(begun) /\ Tagged("ERROR") \in LinesOf(begun)
        /\ Console("FAIL") \in LinesOf(begun) /\ Console("CRASH") \in LinesOf(begun)
    BY OtherLines DEF DeviceTags, Tags
  <2>2. \E ln \in LinesOf(begun) : Emit(<<ln>>) /\ UNCHANGED <<begun, todo>>
    BY <1>5, <2>1 DEF EmitReady, SignalBusy, SignalSleep, FinishCycle,
       BoardInitFails, FailAssertion, Crash
  <2> QED BY <1>1, <1>2, <1>4, <2>2
<1>6. CASE IntervalElapses \/ BoardInit \/ ReceiveArgs \/ ReceiveBad
           \/ ReceivePowerCommand \/ ReceiveIdleCommand \/ EndTest \/ GoDown
           \/ Hang \/ Unhang \/ PowerLoss \/ Oversleep
  <2>1. UNCHANGED <<begun, todo>> /\ (UNCHANGED wire \/ wire' = <<>>)
    BY <1>6 DEF IntervalElapses, BoardInit, ReceiveArgs, ReceiveBad, PortDrops,
       ReceivePowerCommand, ReceiveIdleCommand, EndTest, GoDown, Hang, Unhang,
       PowerLoss, Oversleep
  <2> QED BY <1>1, <1>3, <2>1
<1>7. CASE PowerUp \/ Reboot \/ SilentReset
  <2>1. UNCHANGED <<begun, wire>> /\ todo' = {}
    BY <1>7 DEF PowerUp, Reboot, SilentReset, Boot
  <2> QED BY <2>1
<1>8. CASE ReceiveCommand \/ RunStandalone
  <2>1. \E msg : Prologue(msg) /\ UNCHANGED begun
    BY <1>8 DEF ReceiveCommand, RunStandalone
  <2> QED BY <2>1, PrologueAnnounces
<1>9. CASE StartTest
  <2>1. PICK t \in todo : /\ Emit(<<Line("CASE:START", SuiteOf[t], NameOf[t], 0)>>)
                          /\ todo' = todo \ {t} /\ begun' = begun \cup {t}
    BY <1>9 DEF StartTest
  <2>2. Line("CASE:START", SuiteOf[t], NameOf[t], 0) \in LinesOf(begun')
    BY <2>1 DEF Line, LinesOf, AnyLine, DeviceTags, Tags, Crc, TestsInSuites
  <2>3. <<Line("CASE:START", SuiteOf[t], NameOf[t], 0)>> \in Seq(LinesOf(begun'))
    BY <2>2
  <2>4. /\ wire' \in Seq(AnyLine)
        /\ wire \in Seq(LinesOf(begun')) => wire' \in Seq(LinesOf(begun'))
    BY <2>1, <2>3, EmitKeeps
  <2>5. wire \in Seq(LinesOf(begun)) => wire \in Seq(LinesOf(begun'))
    BY <2>1, LinesGrow
  <2> QED BY <2>1, <2>4, <2>5
<1> QED BY <1>5, <1>6, <1>7, <1>8, <1>9 DEF DeviceRuns, Faulty

-----------------------------------------------------------------------------
(* The host.                                                                *)

(* feed() counts a test only when a line announces it.                      *)
LEMMA FeedCounted ==
    ASSUME TestsInSuites, ProtocolAssumption, NEW B \in SUBSET Tests,
           NEW ln \in LinesOf(B), Feed(ln),
           curName \in Names \cup {""}, sleepName \in Names \cup {""},
           completed \subseteq {LabelOf(t) : t \in B}
    PROVE  /\ curName' \in Names \cup {""} /\ sleepName' \in Names \cup {""}
           /\ completed' \subseteq {LabelOf(t) : t \in B}
<1>1. ln.name \in Names \cup {""}
  BY DEF LinesOf, AnyLine
<1>2. CASE FeedCaseStart(ln)
  <2>1. PICK t \in B : ln.suite = SuiteOf[t] /\ ln.name = NameOf[t]
    BY <1>2 DEF FeedCaseStart, Heard, LinesOf
  <2>2. ln.suite # "" /\ ln.name # ""
    BY <2>1 DEF TestsInSuites, ProtocolAssumption
  <2>3. curSuite' = ln.suite /\ curName' = ln.name /\ sleepName' = sleepName
        /\ completed' = completed \cup {Label(ln.suite, ln.name)}
    BY <1>2, <2>2 DEF FeedCaseStart
  <2>4. Label(ln.suite, ln.name) = LabelOf(t)
    BY <2>1 DEF LabelOf
  <2> QED BY <1>1, <2>3, <2>4
<1>3. CASE FeedSleep(ln)
  BY <1>3 DEF FeedSleep, sessionVars
<1>4. CASE UNCHANGED <<curName, sleepName, completed>>
  BY <1>4
<1> QED BY <1>2, <1>3, <1>4 DEF Feed, FeedReadyWhileWaiting, FeedArgs, FeedError,
       FeedReadyWhileRunning, FeedCounts, FeedBusy, FeedDone, FeedIgnored,
       protocolVars, sessionVars

countedVars == <<session, todo, begun>>

(* Reading moves lines from the wire to the chunk.                          *)
LEMMA ReadKeeps ==
    ASSUME SessionInv, NEW place \in {"feed", "drainFeed"}, ReadInto(place),
           hpc \in {"read", "drain"}, UNCHANGED countedVars
    PROVE  SessionInv'
<1>1. PICK k \in 1..Len(wire) : chunk' = SubSeq(wire, 1, k)
                                /\ wire' = SubSeq(wire, k + 1, Len(wire))
  BY DEF ReadInto
<1>2. wire \in Seq(AnyLine) /\ wire \in Seq(LinesOf(begun)) /\ k \in 0..Len(wire)
  BY <1>1 DEF SessionInv, WireInv, Between
<1>3. /\ wire' \in Seq(AnyLine) /\ wire' \in Seq(LinesOf(begun))
      /\ chunk' \in Seq(LinesOf(begun))
  BY <1>1, <1>2, SuffixKeeps
<1>4. hpc' \in {"feed", "drainFeed"}
      /\ UNCHANGED <<protocolVars, roundVars, reportVars, countedVars>>
  BY DEF ReadInto
<1>5. HostInv'
  BY <1>4 DEF SessionInv, HostInv, RunnerTypeOK, HostPlaces, protocolVars,
     roundVars, reportVars, countedVars
<1> QED BY <1>3, <1>4, <1>5 DEF SessionInv, WireInv, CountedInv, countedVars,
       protocolVars, LabelOf

(* _on_serial_data(), one line.                                             *)
LEMMA FeedLineKeeps ==
    ASSUME TestsInSuites, SessionInv, FeedLine, UNCHANGED countedVars
    PROVE  SessionInv'
<1> DEFINE ln == Head(chunk)
<1>1. /\ chunk \in Seq(LinesOf(begun)) /\ chunk # <<>>
      /\ hpc \in {"feed", "drainFeed"} /\ UNCHANGED <<hpc, roundVars, linkVars>>
  BY DEF FeedLine, SessionInv, CountedInv
<1>2. ln \in LinesOf(begun) /\ Tail(chunk) \in Seq(LinesOf(begun))
  BY <1>1, HeadTailProperties
<1>3. Feed(ln) /\ (chunk' = <<>> \/ chunk' = Tail(chunk))
  BY DEF FeedLine
<1>4. /\ curName' \in Names \cup {""} /\ sleepName' \in Names \cup {""}
      /\ completed' \subseteq {LabelOf(t) : t \in begun}
  BY <1>2, <1>3, FeedCounted, ProtocolAssumption
     DEF SessionInv, WireInv, CountedInv, HostInv
<1>5. chunk' \in Seq(LinesOf(begun))
  BY <1>2, <1>3, EmptySeq
<1>6. crashed' \in BOOLEAN /\ finishedByRunner' \in BOOLEAN
  <2>1. crashed' = (crashed \/ Heard(ln, "CRASH"))
        /\ finishedByRunner' = (finishedByRunner \/ (crashed' /\ ~finishedByRunner))
    BY DEF FeedLine
  <2>2. Heard(ln, "CRASH") \in BOOLEAN
    BY DEF Heard
  <2>3. crashed \in BOOLEAN /\ finishedByRunner \in BOOLEAN
    BY DEF SessionInv, HostInv, RunnerTypeOK
  <2> HIDE DEF ln
  <2> QED BY <2>1, <2>2, <2>3
<1>7. \A c \in cases' : c.status \in Statuses
  <2>1. cases' = cases
        \/ cases' = cases \cup {Case(Named(CurrentTestFull', "crash"), "ERRORED")}
    BY DEF FeedLine
  <2>2. Case(Named(CurrentTestFull', "crash"), "ERRORED").status = "ERRORED"
    BY DEF Case
  <2> QED BY <2>1, <2>2 DEF SessionInv, HostInv, RunnerTypeOK, Statuses
<1>8. HostInv'
  BY <1>1, <1>4, <1>6, <1>7
     DEF SessionInv, HostInv, RunnerTypeOK, countedVars, roundVars
<1> QED BY <1>1, <1>4, <1>5, <1>8
       DEF SessionInv, WireInv, CountedInv, countedVars, linkVars, roundVars,
           Between, LabelOf

LEMMA CaseStatus == \A n, s : Case(n, s).status = s
BY DEF Case

LEMMA OneMore ==
    ASSUME NEW S, NEW M \in Nat, NEW f \in [S -> 0..M], NEW x \in S, f[x] < M
    PROVE  [f EXCEPT ![x] = @ + 1] \in [S -> 0..M]
<1>1. f[x] \in 0..M /\ f[x] + 1 \in 0..M
  <2>1. f[x] \in 0..M
    OBVIOUS
  <2> QED BY <2>1
<1> QED BY <1>1

(* What an exception leaves.                                                *)
LEMMA RaiseKeeps ==
    ASSUME HostInv, NEW kind, Raise(kind), chunk' = <<>>,
           UNCHANGED session, finishedByRunner' \in BOOLEAN,
           curName' \in Names \cup {""}, sleepName' \in Names \cup {""}
    PROVE  HostInv'
<1>1. CASE kind = "serial_error" /\ cycle = "phase2"
  BY <1>1 DEF Raise, HostInv, RunnerTypeOK, HostPlaces, Cycles, roundVars
<1>2. CASE ~(kind = "serial_error" /\ cycle = "phase2")
  <2>1. cases' = cases \cup {Case(Special(kind), "ERRORED")} /\ hpc' = "finish"
        /\ UNCHANGED <<roundVars, failures, crashed>>
    BY <1>2 DEF Raise
  <2>2. \A c \in cases' : c.status \in Statuses
    <3>1. \A c \in cases : c.status \in Statuses
      BY DEF HostInv, RunnerTypeOK
    <3>2. Case(Special(kind), "ERRORED").status \in Statuses
      BY CaseStatus DEF Statuses
    <3> QED BY <2>1, <3>1, <3>2
  <2> QED BY <2>1, <2>2
          DEF HostInv, RunnerTypeOK, HostPlaces, roundVars, Between
<1> QED BY <1>1, <1>2

(* Steps that read nothing, count nothing and only move on.                 *)
MovesOn ==
    \/ SendCommand \/ SendRaises \/ SeesDone \/ SeesError \/ SeesSleep
    \/ SeesNothing \/ LeavesForOldCrash \/ PortGoneWhileRunning \/ ReadRaises
    \/ DrainCheck \/ DrainEnds \/ PostTest \/ AwaitWake \/ GiveUp \/ StartResume
    \/ NoMoreCycles \/ Finish \/ ReadyTimeout \/ HangTimeout \/ BusyIsOver
    \/ StartPhaseTwo \/ LingerOver \/ OpenFails

LEMMA MovesOnKeepsHost ==
    ASSUME HostInv, MovesOn, UNCHANGED session
    PROVE  HostInv'
<1> USE DEF HostInv, RunnerTypeOK, HostPlaces, Cycles, Statuses, protocolVars,
            roundVars, reportVars, sessionVars, runnerVars
<1>1. CASE SendCommand
  BY <1>1 DEF SendCommand, Checking, CommandSent, LeaveIfCrashed
<1>2. CASE SendRaises \/ ReadRaises
  <2>1. chunk' = <<>>
    BY <1>2 DEF SendRaises, ReadRaises, Checking
  <2> HIDE DEF HostInv
  <2>2. HostInv /\ finishedByRunner' \in BOOLEAN
        /\ curName' \in Names \cup {""} /\ sleepName' \in Names \cup {""}
    BY <1>2 DEF SendRaises, ReadRaises, HostInv
  <2>3. Raise("serial_error")
    BY <1>2 DEF SendRaises, ReadRaises
  <2> QED BY <2>1, <2>2, <2>3, RaiseKeeps
<1>3. CASE OpenFails
  <2>1. chunk' = <<>>
    BY <1>3 DEF OpenFails
  <2>2. HostInv /\ finishedByRunner' \in BOOLEAN
        /\ curName' \in Names \cup {""} /\ sleepName' \in Names \cup {""}
    BY <1>3 DEF OpenFails, Reset
  <2>3. Raise("serial_error") \/ Raise("runner_error")
    BY <1>3 DEF OpenFails
  <2> HIDE DEF HostInv
  <2> QED BY <2>1, <2>2, <2>3, RaiseKeeps
<1>4. CASE SeesDone \/ DrainCheck
  <2>1. \A f : Case(f, "FAILED").status = "FAILED"
    BY DEF Case
  <2>2. \A c \in WithFailures : c.status \in Statuses
    BY <2>1 DEF WithFailures
  <2> QED BY <1>4, <2>2 DEF SeesDone, DrainCheck, Checking
<1>5. CASE SeesError \/ ReadyTimeout \/ HangTimeout \/ GiveUp
  <2>1. \A l : Case(l, "ERRORED").status = "ERRORED"
    BY DEF Case
  <2>2. \A c \in cases' : c.status \in Statuses
    BY <1>5, <2>1 DEF SeesError, ReadyTimeout, HangTimeout, GiveUp
  <2> QED BY <1>5, <2>2 DEF SeesError, ReadyTimeout, HangTimeout, GiveUp,
             Checking, EmptyRead
<1>6. CASE SeesSleep \/ SeesNothing \/ LeavesForOldCrash \/ PortGoneWhileRunning
           \/ DrainEnds \/ PostTest \/ StartResume \/ NoMoreCycles \/ LingerOver
  BY <1>6 DEF SeesSleep, SeesNothing, LeavesForOldCrash, PortGoneWhileRunning,
     DrainEnds, PostTest, StartResume, NoMoreCycles, LingerOver, Checking,
     EmptyRead, LeaveIfCrashed
<1>7. CASE AwaitWake
  <2>1. /\ retries' = [retries EXCEPT ![sleepName] = @ + 1]
        /\ retries[sleepName] < MaxSleepRetries
    BY <1>7 DEF AwaitWake, RetryLeft
  <2>2. retries' \in [Names \cup {""} -> 0..MaxSleepRetries]
    <3>1. /\ retries \in [Names \cup {""} -> 0..MaxSleepRetries]
          /\ sleepName \in Names \cup {""} /\ MaxSleepRetries \in Nat
      BY RunnerAssumption
    <3> HIDE DEF HostInv, RunnerTypeOK
    <3> QED BY <2>1, <3>1, OneMore
  <2> QED BY <1>7, <2>2 DEF AwaitWake
<1>8. CASE Finish
  <2>1. \A c \in cases' : c.status \in Statuses
    <3>1. cases' = KeptCases \cup PassedCases \cup UnderRunCases
      BY <1>8 DEF Finish
    <3>2. \A c \in KeptCases : c.status \in Statuses
      BY DEF KeptCases
    <3>3. \A c \in PassedCases \cup UnderRunCases : c.status \in Statuses
      <4> HIDE DEF HostInv, RunnerTypeOK
      <4> QED BY CaseStatus DEF PassedCases, UnderRunCases, Statuses
    <3> QED BY <3>1, <3>2, <3>3
  <2> QED BY <1>8, <2>1 DEF Finish
<1>9. CASE BusyIsOver
  BY <1>9 DEF BusyIsOver, BusyExpires
<1>10. CASE StartPhaseTwo
  BY <1>10 DEF StartPhaseTwo, ResetForWake
<1> QED BY <1>1, <1>2, <1>3, <1>4, <1>5, <1>6, <1>7, <1>8, <1>9, <1>10 DEF MovesOn

(* They neither write nor count, and none of them leaves the gap between    *)
(* two sessions.                                                            *)
LEMMA MovesOnKeepsRest ==
    ASSUME SessionInv, MovesOn, UNCHANGED countedVars
    PROVE  WireInv' /\ CountedInv'
<1>1. UNCHANGED <<completed, chunk>> /\ (UNCHANGED wire \/ wire' = <<>>)
  <2> USE DEF protocolVars, roundVars, reportVars, sessionVars, runnerVars, linkVars
  <2>1. CASE SendCommand \/ SendRaises \/ SeesDone \/ SeesError \/ SeesSleep
             \/ SeesNothing \/ LeavesForOldCrash \/ PortGoneWhileRunning
             \/ ReadRaises \/ DrainCheck \/ DrainEnds
    BY <2>1 DEF SendCommand, SendRaises, SeesDone, SeesError, SeesSleep, SeesNothing,
       LeavesForOldCrash, PortGoneWhileRunning, ReadRaises, DrainCheck, DrainEnds,
       CommandSent
  <2>2. CASE PostTest \/ AwaitWake \/ GiveUp \/ StartResume \/ NoMoreCycles
             \/ Finish \/ ReadyTimeout \/ HangTimeout \/ BusyIsOver
             \/ StartPhaseTwo \/ LingerOver \/ OpenFails
    BY <2>2 DEF PostTest, AwaitWake, GiveUp, StartResume, NoMoreCycles, Finish,
       ReadyTimeout, HangTimeout, BusyIsOver, BusyExpires, StartPhaseTwo,
       ResetForWake, LingerOver, OpenFails, Reset
  <2> QED BY <2>1, <2>2 DEF MovesOn
<1>2. Between => Between'
  <2> SUFFICES ASSUME Between PROVE Between'
    OBVIOUS
  <2>1. /\ cycle = "first" /\ hpc \in {"open", "finish", "over"}
        /\ session # 1 /\ session' = session
    BY DEF Between, countedVars
  <2>2. CASE OpenFails
    BY <2>1, <2>2 DEF Between, OpenFails, Raise, roundVars
  <2>3. CASE Finish
    BY <2>1, <2>3 DEF Between, Finish, roundVars
  <2>4. CASE BusyIsOver
    BY <2>1, <2>4 DEF Between, BusyIsOver, runnerVars, roundVars
  <2>5. ~SendCommand /\ ~SendRaises /\ ~SeesDone /\ ~SeesError /\ ~SeesSleep
        /\ ~SeesNothing
    BY <2>1 DEF SendCommand, SendRaises, SeesDone, SeesError, SeesSleep,
       SeesNothing, Checking
  <2>6. ~LeavesForOldCrash /\ ~ReadyTimeout /\ ~HangTimeout
        /\ ~PortGoneWhileRunning /\ ~ReadRaises
    BY <2>1 DEF LeavesForOldCrash, ReadyTimeout, HangTimeout, EmptyRead,
       PortGoneWhileRunning, ReadRaises
  <2>7. ~DrainCheck /\ ~DrainEnds /\ ~PostTest /\ ~AwaitWake /\ ~GiveUp
        /\ ~StartResume /\ ~NoMoreCycles /\ ~StartPhaseTwo /\ ~LingerOver
    BY <2>1 DEF DrainCheck, DrainEnds, PostTest, AwaitWake, GiveUp, StartResume,
       NoMoreCycles, StartPhaseTwo, LingerOver
  <2> QED BY <2>2, <2>3, <2>4, <2>5, <2>6, <2>7 DEF MovesOn
<1>3. wire' \in Seq(AnyLine)
  BY <1>1, EmptySeq DEF SessionInv, WireInv
<1>4. ASSUME ~Between' PROVE wire' \in Seq(LinesOf(begun))
  BY <1>1, <1>2, <1>4, EmptySeq DEF SessionInv, WireInv
<1>5. WireInv'
  BY <1>3, <1>4 DEF SessionInv, WireInv, countedVars
<1> QED BY <1>1, <1>5 DEF SessionInv, CountedInv, countedVars, LabelOf

-----------------------------------------------------------------------------
(* Opening the port.                                                        *)

(* A handle opened or kept delivers the end of what was on the wire.        *)
LEMMA OpenPortKeeps ==
    ASSUME SessionInv, OpenPort, UNCHANGED session
    PROVE  /\ HostInv' /\ UNCHANGED <<completed, chunk>>
           /\ \A S : wire \in Seq(S) => wire' \in Seq(S)
<1>1. /\ UNCHANGED <<completed, chunk, roundVars, cases, crashed>>
      /\ hpc = "open" /\ hpc' = "read" /\ finishedByRunner' = FALSE
      /\ curName' = "" /\ sleepName' = ""
  BY DEF OpenPort, Reset, sessionVars
<1>2. chunk = <<>>
  BY <1>1 DEF SessionInv, HostInv, RunnerTypeOK
<1>3. HostInv'
  BY <1>1, <1>2 DEF SessionInv, HostInv, RunnerTypeOK, HostPlaces, roundVars
<1>4. wire' = wire \/ \E k \in 0..Len(wire) : wire' = SubSeq(wire, k + 1, Len(wire))
  BY DEF OpenPort, Opens
<1>5. ASSUME NEW S, wire \in Seq(S) PROVE wire' \in Seq(S)
  BY <1>4, <1>5, SuffixKeeps
<1> QED BY <1>1, <1>3, <1>5

LEMMA OpenKeeps ==
    ASSUME LaterSessionsReset, SessionInv, FirstOpen \/ LaterOpen, UNCHANGED session
    PROVE  SessionInv'
<1>1. OpenPort
  BY DEF FirstOpen, LaterOpen
<1>2. /\ HostInv' /\ UNCHANGED <<completed, chunk>>
      /\ \A S : wire \in Seq(S) => wire' \in Seq(S)
  BY <1>1, OpenPortKeeps
<1>3. begun' = begun /\ todo' \subseteq Tests
  BY DEF FirstOpen, LaterOpen, Boot, historyVars, deviceVars, cycleVars,
     SessionInv, WireInv
<1>4. CASE FirstOpen /\ session # 1
  <2>1. Resets[session]
    BY <1>4 DEF SessionInv, HostInv, LaterSessionsReset
  <2>2. wire' = <<>>
    BY <1>4, <2>1 DEF FirstOpen
  <2>3. wire' \in Seq(AnyLine) /\ wire' \in Seq(LinesOf(begun))
    BY <2>2, EmptySeq
  <2> QED BY <1>2, <1>3, <2>3 DEF SessionInv, WireInv, CountedInv, LabelOf
<1>5. CASE LaterOpen \/ session = 1
  <2>1. ~Between
    BY <1>5 DEF LaterOpen, Between
  <2>2. wire \in Seq(AnyLine) /\ wire \in Seq(LinesOf(begun))
    BY <2>1 DEF SessionInv, WireInv
  <2>3. wire' \in Seq(AnyLine) /\ wire' \in Seq(LinesOf(begun))
    BY <1>2, <2>2
  <2> QED BY <1>2, <1>3, <2>3 DEF SessionInv, WireInv, CountedInv, LabelOf
<1> QED BY <1>4, <1>5

-----------------------------------------------------------------------------
(* The session.                                                             *)

LEMMA HostMovesKeep ==
    ASSUME LaterSessionsReset, TestsInSuites, SessionInv, HostMoves,
           UNCHANGED session
    PROVE  SessionInv'
<1>1. CASE FirstOpen \/ LaterOpen
  BY <1>1, OpenKeeps
<1>2. CASE ~(FirstOpen \/ LaterOpen)
  <2>1. UNCHANGED countedVars
    BY <1>2 DEF HostMoves, deviceVars, cycleVars, historyVars, countedVars
  <2>2. ReadChunk \/ DrainChunk \/ FeedLine \/ MovesOn
    BY <1>2 DEF HostMoves, HostSteps, TimesOut, BusyIsOver, WakeWaitOver,
       LingerEnds, OpenGivesUp, MovesOn
  <2>3. CASE ReadChunk \/ DrainChunk
    BY <2>1, <2>3, ReadKeeps DEF ReadChunk, DrainChunk
  <2>4. CASE FeedLine
    BY <2>1, <2>4, FeedLineKeeps
  <2>5. CASE MovesOn
    BY <2>1, <2>5, MovesOnKeepsHost, MovesOnKeepsRest DEF SessionInv, countedVars
  <2> QED BY <2>2, <2>3, <2>4, <2>5
<1> QED BY <1>1, <1>2

(* Where the host stands is untouched.                                      *)
LEMMA HostStands ==
    ASSUME HostInv, UNCHANGED <<session, hostVars>>
    PROVE  HostInv' /\ UNCHANGED <<chunk, completed>> /\ Between' = Between
<1>1. UNCHANGED <<session, hpc, cycle, target, retries, chunk, cases, crashed,
                  finishedByRunner, curName, sleepName, completed>>
  BY DEF hostVars, runnerVars, roundVars, reportVars, protocolVars
<1> QED BY <1>1 DEF HostInv, RunnerTypeOK, Between

LEMMA BoardMovesKeep ==
    ASSUME TestsInSuites, SessionInv, DeviceRuns \/ IntervalElapses \/ Faulty,
           UNCHANGED <<session, hostVars>>
    PROVE  SessionInv'
<1>1. /\ begun \subseteq begun' /\ todo' \subseteq Tests /\ begun' \subseteq Tests
      /\ wire' \in Seq(AnyLine)
      /\ wire \in Seq(LinesOf(begun)) => wire' \in Seq(LinesOf(begun'))
  BY BoardStep DEF SessionInv, WireInv
<1>2. HostInv' /\ UNCHANGED <<chunk, completed>> /\ Between' = Between
  BY HostStands DEF SessionInv
<1>3. WireInv'
  BY <1>1, <1>2 DEF SessionInv, WireInv
<1>4. chunk' \in Seq(LinesOf(begun'))
  BY <1>1, <1>2, LinesGrow DEF SessionInv, CountedInv
<1>5. completed' \subseteq {LabelOf(t) : t \in begun'}
  BY <1>1, <1>2 DEF SessionInv, CountedInv
<1>6. CountedInv'
  BY <1>4, <1>5 DEF CountedInv, LabelOf
<1> QED BY <1>2, <1>3, <1>6 DEF SessionInv

LEMMA NoiseKeeps ==
    ASSUME SessionInv, GarbleLine \/ GarbleMessage,
           UNCHANGED <<session, hostVars, deviceVars>>
    PROVE  SessionInv'
<1>1. UNCHANGED <<todo, begun>>
  BY DEF deviceVars, cycleVars, historyVars
<1>2. HostInv' /\ UNCHANGED <<chunk, completed>> /\ Between' = Between
  BY HostStands DEF SessionInv
<1>3. /\ wire \in Seq(AnyLine) => wire' \in Seq(AnyLine)
      /\ wire \in Seq(LinesOf(begun)) => wire' \in Seq(LinesOf(begun))
  BY GarbleKeeps DEF GarbleMessage
<1> QED BY <1>1, <1>2, <1>3 DEF SessionInv, WireInv, CountedInv, LabelOf

LEMMA NewSessionKeeps ==
    ASSUME SessionInv, NewSession PROVE SessionInv'
<1>1. /\ hpc' = "open" /\ cycle' = "first" /\ target' = ""
      /\ retries' = [n \in DOMAIN retries |-> 0]
      /\ chunk' = <<>> /\ cases' = {} /\ crashed' = FALSE
      /\ finishedByRunner' = FALSE /\ curName' = "" /\ sleepName' = ""
      /\ completed' = {} /\ begun' = {} /\ UNCHANGED <<todo, wire>>
  BY DEF NewSession, Invoke, ProtocolNew, cycleVars, linkVars
<1>2. session' \in DOMAIN Resets
  <2>1. session \in 1..Len(Resets) /\ session < Len(Resets) /\ session' = session + 1
        /\ Len(Resets) \in Nat
    <3>1. session \in DOMAIN Resets /\ session < Len(Resets) /\ session' = session + 1
      BY DEF SessionInv, HostInv, NewSession
    <3>2. Resets \in Seq(BOOLEAN)
      BY SessionAssumption
    <3> QED BY <3>1, <3>2
  <2>2. session' \in 1..Len(Resets)
    BY <2>1
  <2> QED BY <2>2, SessionAssumption
<1>3. retries' \in [Names \cup {""} -> 0..MaxSleepRetries]
  <2>1. DOMAIN retries = Names \cup {""}
    BY DEF SessionInv, HostInv, RunnerTypeOK
  <2>2. 0 \in 0..MaxSleepRetries
    BY RunnerAssumption
  <2> QED BY <1>1, <2>1, <2>2
<1>4. HostInv'
  BY <1>1, <1>2, <1>3 DEF HostInv, RunnerTypeOK, HostPlaces, Cycles
<1>5. session' # 1
  <2>1. session \in 1..Len(Resets) /\ session' = session + 1
    <3>1. session \in DOMAIN Resets /\ session' = session + 1
      BY DEF SessionInv, HostInv, NewSession
    <3> QED BY <3>1, SessionAssumption
  <2> QED BY <2>1
<1>6. Between'
  BY <1>1, <1>5 DEF Between
<1> QED BY <1>1, <1>4, <1>6, EmptySeq DEF SessionInv, WireInv, CountedInv, LabelOf

LEMMA SessionInitially == Init => SessionInv
<1> SUFFICES ASSUME Init PROVE SessionInv
  OBVIOUS
<1>1. /\ session = 1 /\ hpc = "open" /\ cycle = "first" /\ target = ""
      /\ retries = [n \in Names \cup {""} |-> 0]
      /\ chunk = <<>> /\ cases = {} /\ crashed = FALSE /\ finishedByRunner = FALSE
      /\ curName = "" /\ sleepName = "" /\ completed = {}
      /\ todo = {} /\ begun = {} /\ wire = <<>>
  BY DEF Init, RunnerInit, ProtocolInit, DeviceInit, LinkInit
<1>2. 1 \in DOMAIN Resets
  BY SessionAssumption
<1>3. retries \in [Names \cup {""} -> 0..MaxSleepRetries]
  <2>1. 0 \in 0..MaxSleepRetries
    BY RunnerAssumption
  <2> QED BY <1>1, <2>1
<1>4. HostInv
  BY <1>1, <1>2, <1>3 DEF HostInv, RunnerTypeOK, HostPlaces, Cycles
<1> QED BY <1>1, <1>4, EmptySeq DEF SessionInv, WireInv, CountedInv

LEMMA SessionStep ==
    ASSUME LaterSessionsReset, TestsInSuites, SessionInv, [Next]_vars
    PROVE  SessionInv'
<1>1. CASE HostMoves /\ UNCHANGED session
  BY <1>1, HostMovesKeep
<1>2. CASE DeviceMoves /\ UNCHANGED session
  BY <1>2, BoardMovesKeep DEF DeviceMoves, ReadyTimer
<1>3. CASE Mishap /\ UNCHANGED session
  BY <1>3, BoardMovesKeep, NoiseKeeps DEF Mishap
<1>4. CASE NewSession
  BY <1>4, NewSessionKeeps
<1>5. CASE UNCHANGED vars
  <2>1. UNCHANGED <<session, hostVars, todo, begun, wire>>
    BY <1>5 DEF vars, deviceVars, cycleVars, historyVars, linkVars
  <2>2. HostInv' /\ UNCHANGED <<chunk, completed>> /\ Between' = Between
    BY <2>1, HostStands DEF SessionInv
  <2> QED BY <2>1, <2>2 DEF SessionInv, WireInv, CountedInv, LabelOf
<1> QED BY <1>1, <1>2, <1>3, <1>4, <1>5 DEF Next

(* Whatever is lost, damaged or repeated, feed() counts no test that the    *)
(* board has not started: the wire and the chunk hold only lines of tests   *)
(* that have begun.                                                         *)
THEOREM CountedIsReal ==
    ASSUME LaterSessionsReset, TestsInSuites
    PROVE  Spec => []CountedHasBegun
<1>1. SessionInv => CountedHasBegun
  BY DEF SessionInv, CountedInv, CountedHasBegun
<1>2. LaterSessionsReset /\ TestsInSuites
  OBVIOUS
<1>3. SessionInv /\ [Next]_vars => SessionInv'
  BY <1>2, SessionStep
<1> QED BY <1>1, <1>3, SessionInitially, PTL DEF Spec

(* stage_testing() stays in its places, counts no retry beyond              *)
(* MAX_SLEEP_RETRIES and leaves no line behind unfed when it moves on.      *)
THEOREM RunnerTypes ==
    ASSUME LaterSessionsReset, TestsInSuites
    PROVE  Spec => []RunnerTypeOK
<1>1. SessionInv => RunnerTypeOK
  BY DEF SessionInv, HostInv
<1>2. LaterSessionsReset /\ TestsInSuites
  OBVIOUS
<1>3. SessionInv /\ [Next]_vars => SessionInv'
  BY <1>2, SessionStep
<1> QED BY <1>1, <1>3, SessionInitially, PTL DEF Spec

=============================================================================
