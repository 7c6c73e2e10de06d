--------------------------- MODULE ProgressProofs ---------------------------
(***************************************************************************)
(* That ProgressInv is inductive, for every registry and number of tests,   *)
(* and what follows: the arguments of the host reach every cycle, and the   *)
(* total it expects is that of the tests it asked for.                      *)
(*                                                                          *)
(* A step is looked at from three sides: what the board finds when it takes *)
(* a command (ReadyInv), what it skips then (SkipInv), and what it counts   *)
(* (CountsInv).  The last needs the other two, since what a cycle counts is *)
(* what its arguments and its skip marks let run.                           *)
(***************************************************************************)
EXTENDS RoundProofs, Progress

(* The session asks for tests with RUN or RUN_ALL, or for those after one   *)
(* of them; its filters come in ETST:ARGS lines.                            *)
ProgressAssumed ==
    /\ RoundsAssumed
    /\ \/ InitialCommand.kind \in {"RUN", "RUN_ALL"}
       \/ /\ InitialCommand.kind = "RESUME_AFTER" /\ InitialCommand.name # ""
          /\ InitialCommand.flags = <<>>

-----------------------------------------------------------------------------
(* The arguments, line by line.                                             *)

LEMMA ArgsUnfold ==
    ASSUME NEW S, ArgsLines \in Seq(S)
    PROVE  /\ ArgsUpTo[0] = <<>>
           /\ \A k \in 1..Len(ArgsLines) :
                 k - 1 \in 0..Len(ArgsLines) /\ ArgsUpTo[k] = ArgsUpTo[k - 1] \o ArgsLines[k]
<1> DEFINE n == Len(ArgsLines)
           Fits(f, k) == f = [i \in 0..k |-> IF i = 0 THEN <<>> ELSE f[i - 1] \o ArgsLines[i]]
           None == {k \in 0..n : ~ \E f : Fits(f, k)}
           R == OpToRel(<, Nat)
<1>1. n \in Nat
  OBVIOUS
<1> HIDE DEF n
<1>2. None = {}
  <2> SUFFICES ASSUME None # {} PROVE FALSE
    OBVIOUS
  <2>1. PICK m \in None : \A j \in None : ~(<<j, m>> \in R)
    <3>1. IsWellFoundedOn(R, Nat)
      BY NatLessThanWellFounded DEF R
    <3>2. None \subseteq Nat
      <4>1. None \subseteq 0..n
        OBVIOUS
      <4> HIDE DEF None
      <4> QED BY <1>1, <4>1
    <3> HIDE DEF None, R
    <3> QED BY <3>1, <3>2, WFMin, Zenon
  <2>2. m \in 0..n /\ ~ \E f : Fits(f, m)
    OBVIOUS
  <2>3. m # 0
    <3> SUFFICES ASSUME m = 0 PROVE FALSE
      OBVIOUS
    <3> DEFINE f == [i \in 0..0 |-> <<>>]
    <3>1. f = [i \in 0..0 |-> IF i = 0 THEN <<>> ELSE f[i - 1] \o ArgsLines[i]]
      OBVIOUS
    <3> HIDE DEF f
    <3> QED BY <2>2, <3>1
  <2>4. m - 1 \in 0..n /\ m - 1 < m
    BY <1>1, <2>2, <2>3
  <2>5. m - 1 \notin None
    <3> SUFFICES ASSUME m - 1 \in None PROVE FALSE
      OBVIOUS
    <3>1. <<m - 1, m>> \in R
      BY <1>1, <2>2, <2>4 DEF OpToRel
    <3> QED BY <2>1, <3>1
  <2>6. PICK f : Fits(f, m - 1)
    BY <2>4, <2>5
  <2> DEFINE g == [i \in 0..m |-> IF i = m THEN f[m - 1] \o ArgsLines[m] ELSE f[i]]
  <2>7. \A i \in 0..m : g[i] = IF i = 0 THEN <<>> ELSE g[i - 1] \o ArgsLines[i]
    <3>0. m \in Nat /\ m # 0
      BY <1>1, <2>2, <2>3
    <3>1. \A i \in 0..(m - 1) : f[i] = IF i = 0 THEN <<>> ELSE f[i - 1] \o ArgsLines[i]
      BY <2>6
    <3>2. ASSUME NEW i \in 0..m
          PROVE  g[i] = IF i = 0 THEN <<>> ELSE g[i - 1] \o ArgsLines[i]
      <4>1. CASE i = m
        <5>1. i # 0 /\ i - 1 \in 0..m /\ i - 1 # m /\ i - 1 = m - 1
          BY <3>0, <4>1
        <5> QED BY <4>1, <5>1
      <4>2. CASE i # m
        <5>1. i \in 0..(m - 1) /\ (i # 0 => i - 1 \in 0..m /\ i - 1 # m)
          BY <3>0, <4>2
        <5>2. g[i] = f[i] /\ (i # 0 => g[i - 1] = f[i - 1])
          BY <4>2, <5>1
        <5> HIDE DEF g
        <5> QED BY <3>1, <5>1, <5>2
      <4> QED BY <4>1, <4>2
    <3> QED BY <3>2
  <2>8. Fits(g, m)
    <3>1. g = [i \in 0..m |-> g[i]]
      OBVIOUS
    <3> HIDE DEF g
    <3> QED BY <2>7, <3>1
  <2> QED BY <2>2, <2>8
<1>3. \E f : Fits(f, n)
  <2>1. n \in 0..n
    BY <1>1
  <2> QED BY <1>2, <2>1
<1>4. ArgsUpTo = [k \in 0..n |-> IF k = 0 THEN <<>> ELSE ArgsUpTo[k - 1] \o ArgsLines[k]]
  BY <1>3 DEF ArgsUpTo, n
<1>5. \A k \in 0..n : ArgsUpTo[k] = IF k = 0 THEN <<>> ELSE ArgsUpTo[k - 1] \o ArgsLines[k]
  BY <1>4
<1>6. 0 \in 0..n /\ \A k \in 1..n : k \in 0..n /\ k # 0 /\ k - 1 \in 0..n
  BY <1>1
<1> QED BY <1>5, <1>6 DEF n

LEMMA ArgsTypes ==
    ASSUME NEW S, ArgsLines \in Seq(Seq(S))
    PROVE  AllArgs \in Seq(S)
<1> DEFINE n == Len(ArgsLines)
           Bad == {k \in 0..n : ArgsUpTo[k] \notin Seq(S)}
           R == OpToRel(<, Nat)
<1>1. n \in Nat /\ \A k \in 1..n : ArgsLines[k] \in Seq(S)
  BY ItemOf
<1>2. /\ ArgsUpTo[0] = <<>>
      /\ \A k \in 1..n : k - 1 \in 0..n /\ ArgsUpTo[k] = ArgsUpTo[k - 1] \o ArgsLines[k]
  BY ArgsUnfold
<1> HIDE DEF n
<1>3. Bad = {}
  <2> SUFFICES ASSUME Bad # {} PROVE FALSE
    OBVIOUS
  <2>1. PICK m \in Bad : \A j \in Bad : ~(<<j, m>> \in R)
    <3>1. IsWellFoundedOn(R, Nat)
      BY NatLessThanWellFounded DEF R
    <3>2. Bad \subseteq Nat
      <4>1. Bad \subseteq 0..n
        OBVIOUS
      <4> HIDE DEF Bad
      <4> QED BY <1>1, <4>1
    <3> HIDE DEF Bad, R
    <3> QED BY <3>1, <3>2, WFMin, Zenon
  <2>2. m \in 1..n /\ ArgsUpTo[m] \notin Seq(S)
    <3>1. m \in 0..n /\ ArgsUpTo[m] \notin Seq(S)
      OBVIOUS
    <3>2. m # 0
      BY <1>2, <3>1, EmptySeq
    <3> QED BY <1>1, <3>1, <3>2
  <2>3. m - 1 \notin Bad
    <3> SUFFICES ASSUME m - 1 \in Bad PROVE FALSE
      OBVIOUS
    <3>1. <<m - 1, m>> \in R
      BY <1>1, <2>2 DEF OpToRel
    <3> QED BY <2>1, <3>1
  <2>4. ArgsUpTo[m - 1] \in Seq(S) /\ ArgsLines[m] \in Seq(S)
    BY <1>1, <1>2, <2>2, <2>3
  <2>5. ArgsUpTo[m - 1] \o ArgsLines[m] \in Seq(S)
    BY <2>4
  <2> QED BY <1>2, <2>2, <2>5
<1>4. n \in 0..n /\ AllArgs = ArgsUpTo[n]
  BY <1>1 DEF AllArgs, n
<1> QED BY <1>3, <1>4

-----------------------------------------------------------------------------
(* Who moves what.                                                          *)

LEMMA HostLeavesBoard ==
    ASSUME HostMoves
    PROVE  \/ UNCHANGED deviceVars
           \/ FirstOpen /\ Boot
BY DEF HostMoves, FirstOpen, LaterOpen

(* Only a host that has just sent its command takes the board to be running *)
(* one.                                                                     *)
LEMMA ConnectedBySending ==
    ASSUME RoundsIndInv, Steady, HostMoves, UNCHANGED session, Connected'
    PROVE  \/ Connected /\ (SendCommand \/ UNCHANGED <<toDev, cycle, target>>)
           \/ SendCommand
<1> USE DEF RoundsIndInv, RoundsInv
<1>1. CASE FirstOpen \/ LaterOpen
  BY <1>1 DEF FirstOpen, LaterOpen, OpenPort, Reset, Connected
<1> SUFFICES ASSUME ~FirstOpen, ~LaterOpen, ~SendCommand PROVE Connected /\ UNCHANGED <<toDev, cycle, target>>
  BY <1>1
<1>2. /\ UNCHANGED <<session, deviceVars>>
      /\ HostSteps \/ TimesOut \/ BusyIsOver \/ WakeWaitOver \/ LingerEnds \/ OpenGivesUp
  BY DEF HostMoves
<1>3. CASE \/ SeesSleep \/ SeesDone \/ SeesNothing \/ DrainCheck \/ DrainEnds
           \/ PortGoneWhileRunning \/ NoMoreCycles
           \/ SeesError \/ LeavesForOldCrash \/ TimesOut \/ BusyIsOver
  <2>1. Turns
    BY <1>2, <1>3, HostTurns DEF Steady
  <2> QED BY <2>1 DEF Turns, Connected, Talks, linkSeen, protocolSeen, roundSeen
<1>4. CASE SendRaises \/ ReadRaises \/ OpenGivesUp
  <2>1. hpc' \in {"open", "finish"}
    BY <1>4 DEF SendRaises, ReadRaises, OpenGivesUp, OpenFails, Raise
  <2> QED BY <2>1 DEF Connected, Talks
<1>5. CASE AwaitWake \/ GiveUp \/ WakeWaitOver \/ StartResume \/ Finish
  BY <1>5 DEF AwaitWake, GiveUp, WakeWaitOver, StartPhaseTwo, StartResume, Finish,
     Connected, Talks
<1>6. CASE ReadChunk \/ DrainChunk
  BY <1>6 DEF ReadChunk, DrainChunk, ReadInto, Connected, Talks, protocolVars, roundVars
<1>7. CASE FeedLine
  <2>1. UNCHANGED <<hpc, handle, toDev, cycle, target>> /\ Feed(Head(chunk))
    BY <1>7 DEF FeedLine, roundVars, linkVars
  <2>2. pstate' = "RUNNING" => pstate = "RUNNING"
    BY <2>1 DEF Feed, FeedReadyWhileWaiting, FeedArgs, FeedError, FeedReadyWhileRunning,
       FeedCaseStart, FeedCounts, FeedSleep, FeedBusy, FeedDone, FeedIgnored, protocolVars
  <2> QED BY <2>1, <2>2 DEF Connected, Talks
<1>8. CASE PostTest \/ LingerEnds
  BY <1>8 DEF PostTest, LingerEnds, LingerOver, Connected, Talks
<1> QED BY <1>2, <1>3, <1>4, <1>5, <1>6, <1>7, <1>8 DEF HostSteps

-----------------------------------------------------------------------------
(* What a command finds on the board.                                       *)

(* While the board waits for a line its env store is clear.                 *)
ClearInv ==
    /\ dpc = "wait" /\ ~due => env = EmptyEnv
    /\ dpc = "init" => due /\ env = EmptyEnv

LEMMA BoardClears ==
    ASSUME ClearInv, DeviceRuns \/ ReadyTimer \/ Faulty
    PROVE  ClearInv'
<1>1. CASE BoardInit \/ EmitReady \/ ReceiveArgs \/ ReceiveBad
  BY <1>1 DEF ClearInv, BoardInit, EmitReady, ReceiveArgs, ReceiveBad, Receives,
     registryVars
<1>2. CASE ReceiveCommand \/ ReceivePowerCommand \/ ReceiveIdleCommand \/ RunStandalone
  BY <1>2 DEF ClearInv, ReceiveCommand, ReceivePowerCommand, ReceiveIdleCommand,
     RunStandalone, Prologue, Receives, registryVars
<1>3. CASE StartTest \/ FailAssertion \/ SignalBusy \/ EndTest \/ SignalSleep \/ GoDown
           \/ FinishCycle
  BY <1>3 DEF ClearInv, StartTest, FailAssertion, SignalBusy, EndTest, SignalSleep,
     GoDown, FinishCycle
<1>4. CASE PowerUp \/ Reboot \/ SilentReset
  BY <1>4 DEF ClearInv, PowerUp, Reboot, SilentReset, Boot
<1>5. CASE ReadyTimer \/ BoardInitFails \/ Hang \/ Unhang \/ Crash \/ PowerLoss \/ Oversleep
  BY <1>5 DEF ClearInv, ReadyTimer, IntervalElapses, BoardInitFails, Hang, Unhang, Crash,
     PowerLoss, Oversleep
<1> QED BY <1>1, <1>2, <1>3, <1>4, <1>5 DEF DeviceRuns, Faulty

LEMMA ClearStep ==
    ASSUME ClearInv, [Next]_vars
    PROVE  ClearInv'
<1>1. CASE HostMoves
  <2>1. CASE UNCHANGED deviceVars
    BY <2>1 DEF ClearInv, deviceVars, registryVars
  <2>2. CASE Boot
    BY <2>2 DEF ClearInv, Boot
  <2> QED BY <1>1, <2>1, <2>2, HostLeavesBoard
<1>2. CASE DeviceRuns \/ ReadyTimer \/ Faulty
  BY <1>2, BoardClears
<1>3. CASE NewSession
  BY <1>3 DEF ClearInv, NewSession, registryVars
<1>4. CASE UNCHANGED deviceVars \/ UNCHANGED vars
  BY <1>4 DEF ClearInv, vars, deviceVars, registryVars
<1> QED BY <1>1, <1>2, <1>3, <1>4 DEF Next, DeviceMoves, Mishap

(* The arguments read so far, of those in the script.                       *)
ReadSoFar ==
    Connected /\ toDev # <<>> =>
        args = ArgsUpTo[(Len(ArgsLines) + 1) - Len(toDev)]

LEMMA CountDown ==
    ASSUME NEW n \in Nat, NEW k \in 0..n
    PROVE  /\ (n + 1) - ((n + 1) - k) = k
           /\ k < n => k + 1 \in 0..n /\ (k + 1) - 1 = k /\ k + 1 \in 1..n
           /\ (n + 1) - (n + 1) = 0
OBVIOUS

LEMMA ScriptLength ==
    ASSUME RoundsAssumed, NEW c, NEW k \in 0..Len(ArgsLines),
           toDev = SubSeq(Script(c), k + 1, Len(ArgsLines) + 1)
    PROVE  (Len(ArgsLines) + 1) - Len(toDev) = k
<1> DEFINE n == Len(ArgsLines)
<1>1. n \in Nat /\ Len(Script(c)) = n + 1 /\ k \in 0..n
  BY ScriptIs
<1>2. PICK S : Script(c) \in Seq(S)
  BY ScriptIs
<1> HIDE DEF n
<1>3. Len(SubSeq(Script(c), k + 1, n + 1)) = (n + 1) - k
  BY <1>1, <1>2, LeftOver
<1>4. Len(toDev) = (n + 1) - k
  BY <1>3 DEF n
<1>5. (n + 1) - ((n + 1) - k) = k
  BY <1>1, CountDown
<1> QED BY <1>4, <1>5 DEF n

LEMMA ArgsAdd ==
    ASSUME RoundsAssumed, RoundsIndInv, RoundsIndInv', HostStays, ReadSoFar, ReceiveArgs,
           toDev' # <<>>
    PROVE  args' = ArgsUpTo[(Len(ArgsLines) + 1) - Len(toDev')]
<1>1. /\ toDev # <<>> /\ Head(toDev).crc = "ok" /\ Head(toDev).kind = "ARGS"
      /\ toDev' = Tail(toDev) /\ args' = args \o Head(toDev).flags
  BY DEF ReceiveArgs, Receives
<1>2. PICK k \in 0..Len(ArgsLines) :
         /\ toDev = SubSeq(Script(cycle), k + 1, Len(ArgsLines) + 1)
         /\ k < Len(ArgsLines)
  BY <1>1, HeadIsRun
<1>3. /\ k + 1 \in 1..Len(ArgsLines) /\ k + 1 \in 0..Len(ArgsLines)
      /\ Head(toDev) = Message("ARGS", "", ArgsLines[k + 1])
      /\ toDev' = SubSeq(Script(cycle), k + 2, Len(ArgsLines) + 1)
  BY <1>1, <1>2, ScriptGoesOn
<1>4. (k + 1) + 1 = k + 2 /\ (k + 1) - 1 = k
  <2>1. Len(ArgsLines) \in Nat /\ k \in 0..Len(ArgsLines)
    BY <1>2, ScriptIs
  <2> QED BY <1>2, <2>1, OneAndOne, CountDown
<1>5. Head(toDev).flags = ArgsLines[k + 1]
  <2>1. Message("ARGS", "", ArgsLines[k + 1]).flags = ArgsLines[k + 1]
    BY DEF Message
  <2> QED BY <1>3, <2>1, Zenon
<1>6. toDev' = SubSeq(Script(cycle)', (k + 1) + 1, Len(ArgsLines) + 1)
  BY <1>3, <1>4 DEF Script, CommandOf, HostStays
<1>7. args = ArgsUpTo[k]
  <2>1. (Len(ArgsLines) + 1) - Len(toDev) = k
    BY <1>2, ScriptLength
  <2>2. Connected
    BY <1>1, HeadOfCommand
  <2> QED BY <1>1, <2>1, <2>2 DEF ReadSoFar
<1>8. ArgsUpTo[k + 1] = ArgsUpTo[k] \o ArgsLines[k + 1]
  BY <1>3, <1>4, ArgsUnfold DEF RoundsAssumed
<1>9. (Len(ArgsLines) + 1) - Len(toDev') = k + 1
  <2>1. Len(SubSeq(Script(cycle), (k + 1) + 1, Len(ArgsLines) + 1)) = Len(toDev')
    BY <1>3, <1>4
  <2>2. Len(SubSeq(Script(cycle), (k + 1) + 1, Len(ArgsLines) + 1))
          = (Len(ArgsLines) + 1) - (k + 1)
    <3>1. PICK S : Script(cycle) \in Seq(S)
      BY ScriptIs
    <3>2. Len(ArgsLines) \in Nat /\ Len(Script(cycle)) = Len(ArgsLines) + 1
      BY ScriptIs
    <3> QED BY <1>3, <3>1, <3>2, LeftOver
  <2>3. (Len(ArgsLines) + 1) - ((Len(ArgsLines) + 1) - (k + 1)) = k + 1
    BY <1>3, ScriptIs, CountDown
  <2> QED BY <2>1, <2>2, <2>3
<1> QED BY <1>1, <1>5, <1>7, <1>8, <1>9

LEMMA ReadByBoard ==
    ASSUME RoundsAssumed, RoundsIndInv, Steady, RoundsIndInv', HostStays, ReadSoFar,
           DeviceRuns \/ ReadyTimer \/ Faulty
    PROVE  ReadSoFar'
<1> USE DEF RoundsIndInv, RoundsInv
<1> SUFFICES ASSUME Connected', toDev' # <<>>
             PROVE  args' = ArgsUpTo[(Len(ArgsLines) + 1) - Len(toDev')]
  BY DEF ReadSoFar
<1>1. dpc' = "wait" /\ ~due'
  BY DEF TakenInv
<1>2. ~ReadyTimer /\ ~ReceiveBad /\ ~FinishCycle
  BY <1>1 DEF ReadyTimer, IntervalElapses, ReceiveBad, FinishCycle
<1>3. ~StartTest /\ ~SignalBusy /\ ~EndTest /\ ~SignalSleep
  BY <1>1 DEF StartTest, SignalBusy, EndTest, SignalSleep
<1>4. ~GoDown /\ ~PowerUp /\ ~Faulty /\ ~Reboot
  BY <1>1, NoSuchFaults DEF GoDown, PowerUp, Boot, Faulty, PowerLoss, Oversleep,
     BoardInitFails, Hang, Unhang
<1>5. ~ReceivePowerCommand /\ ~ReceiveIdleCommand /\ ~RunStandalone
  BY NoControls
<1>6. ~ReceiveCommand
  BY CommandArrives
<1>7. CASE BoardInit \/ EmitReady \/ FailAssertion
  <2>1. UNCHANGED <<handle, toDev>>
    BY <1>7 DEF BoardInit, EmitReady, FailAssertion, linkVars
  <2>2. Connected /\ toDev # <<>>
    BY <2>1 DEF Connected, Talks, HostStays
  <2>3. dpc = "wait" /\ ~due
    BY <2>2 DEF TakenInv
  <2> QED BY <1>7, <2>3 DEF BoardInit, EmitReady, FailAssertion
<1>8. CASE ReceiveArgs
  BY <1>8, ArgsAdd
<1> QED BY <1>2, <1>3, <1>4, <1>5, <1>6, <1>7, <1>8 DEF DeviceRuns

LEMMA ReadByHost ==
    ASSUME RoundsAssumed, RoundsIndInv, Steady, HostMoves, UNCHANGED session, ReadSoFar
    PROVE  ReadSoFar'
<1> USE DEF RoundsIndInv, RoundsInv
<1> SUFFICES ASSUME Connected', toDev' # <<>>
             PROVE  args' = ArgsUpTo[(Len(ArgsLines) + 1) - Len(toDev')]
  BY DEF ReadSoFar
<1>1. args' = args
  <2>1. ~FirstOpen
    BY DEF FirstOpen, OpenPort, Reset, Connected
  <2> QED BY <2>1, HostLeavesBoard DEF deviceVars
<1>2. CASE Connected /\ UNCHANGED toDev
  BY <1>1, <1>2 DEF ReadSoFar
<1>3. CASE SendCommand
  <2>1. /\ hpc = "feed" /\ pstate = "READY" /\ handle = "live"
        /\ toDev' = toDev \o Script(cycle)
    BY <1>3 DEF SendCommand, Checking
  <2>2. toDev = <<>>
    BY <2>1 DEF AskedInv, Talks
  <2>3. args = <<>>
    BY <2>1 DEF PlaceInv, Connected
  <2>4. /\ Len(Script(cycle)) = Len(ArgsLines) + 1 /\ Len(ArgsLines) \in Nat
        /\ \E S : Script(cycle) \in Seq(S)
    BY ScriptIs
  <2>5. toDev' = Script(cycle)
    <3>1. toDev' = <<>> \o Script(cycle)
      BY <2>1, <2>2
    <3> QED BY <2>4, <3>1, ConcatEmptySeq
  <2>6. (Len(ArgsLines) + 1) - Len(toDev') = 0
    BY <2>4, <2>5, CountDown
  <2>7. ArgsUpTo[0] = <<>>
    BY ArgsUnfold DEF RoundsAssumed
  <2> QED BY <1>1, <2>3, <2>6, <2>7
<1> QED BY <1>2, <1>3, ConnectedBySending

LEMMA ReadyStep ==
    ASSUME RoundsAssumed, RoundsIndInv, Steady, RoundsIndInv', ReadyInv, [Next]_vars
    PROVE  ReadyInv'
<1>0. ReadyInv <=> ClearInv /\ ReadSoFar
  BY DEF ReadyInv, ClearInv, ReadSoFar
<1>1. ClearInv'
  BY <1>0, ClearStep
<1>2. ReadSoFar'
  <2>1. CASE HostMoves /\ UNCHANGED session
    BY <1>0, <2>1, ReadByHost
  <2>2. CASE UNCHANGED <<session, hostVars>> /\ (DeviceRuns \/ ReadyTimer \/ Faulty)
    BY <1>0, <2>2, BoardMoves, ReadByBoard
  <2>3. CASE (GarbleLine \/ GarbleMessage) /\ UNCHANGED <<session, hostVars, deviceVars>>
    <3>1. GarbleMessage
      BY <2>3, NoSuchFaults
    <3>2. HostStays /\ UNCHANGED <<args, handle>>
      BY <2>3, <3>1, BoardMoves DEF GarbleMessage, deviceVars
    <3>3. PICK i \in DOMAIN toDev : toDev' = [toDev EXCEPT ![i].crc = "bad"]
      BY <3>1 DEF GarbleMessage
    <3>4. Connected' = Connected
      BY <3>2 DEF Connected, Talks, HostStays
    <3> SUFFICES ASSUME Connected', toDev' # <<>>
                 PROVE  args' = ArgsUpTo[(Len(ArgsLines) + 1) - Len(toDev')]
      BY DEF ReadSoFar
    <3>5. PICK S : toDev \in Seq(S)
      <4>1. CASE toDev = <<>>
        BY <4>1
      <4>2. CASE toDev # <<>>
        <5>1. ScriptLeft
          BY <3>4, <4>2 DEF RoundsIndInv, RoundsInv, TakenInv
        <5>2. CASE toDev = <<[CommandOf(cycle) EXCEPT !.crc = "bad"]>>
          <6> DEFINE bad == [CommandOf(cycle) EXCEPT !.crc = "bad"]
          <6> HIDE DEF bad
          <6>1. <<bad>> \in Seq({bad})
            OBVIOUS
          <6> QED BY <5>2, <6>1 DEF bad
        <5>3. CASE \E k \in 0..Len(ArgsLines) :
                      toDev = SubSeq(Script(cycle), k + 1, Len(ArgsLines) + 1)
          BY <5>3, ScriptGoesOn
        <5> QED BY <5>1, <5>2, <5>3 DEF ScriptLeft
      <4> QED BY <4>1, <4>2
    <3>6. toDev # <<>> /\ Len(toDev') = Len(toDev)
      BY <3>3, <3>5
    <3> QED BY <1>0, <3>2, <3>4, <3>6 DEF ReadSoFar
  <2>4. CASE NewSession
    BY <2>4 DEF NewSession, Invoke, ReadSoFar, Connected, Talks
  <2>5. CASE UNCHANGED vars
    BY <1>0, <2>5 DEF vars, hostVars, runnerVars, protocolVars, deviceVars, linkVars,
       ReadSoFar, Connected, Talks
  <2> QED BY <2>1, <2>2, <2>3, <2>4, <2>5 DEF Next, DeviceMoves, Mishap
<1>3. ReadyInv' <=> ClearInv' /\ ReadSoFar'
  BY DEF ReadyInv, ClearInv, ReadSoFar
<1> QED BY <1>1, <1>2, <1>3

LEMMA AllIn ==
    ASSUME NEW S, NEW s \in Seq(S), NEW T, NEW r \in Seq(T)
    PROVE  /\ \A i \in DOMAIN s : \E j \in DOMAIN (s \o r) : (s \o r)[j] = s[i]
           /\ \A i \in DOMAIN s : \E j \in DOMAIN (r \o s) : (r \o s)[j] = s[i]
<1>1. ASSUME NEW i \in DOMAIN s PROVE i \in DOMAIN (s \o r) /\ (s \o r)[i] = s[i]
  OBVIOUS
<1>2. ASSUME NEW i \in DOMAIN s
      PROVE  Len(r) + i \in DOMAIN (r \o s) /\ (r \o s)[Len(r) + i] = s[i]
  OBVIOUS
<1> QED BY <1>1, <1>2, Zenon

(* A command finds all the arguments and a clear env store.                 *)
LEMMA CommandFinds ==
    ASSUME RoundsAssumed, RoundsIndInv, ReadyInv, ReceiveCommand
    PROVE  /\ Connected /\ Fresh /\ ~wake /\ dpc = "wait" /\ inbound = <<>>
           /\ args = AllArgs /\ env = EmptyEnv
           /\ Prologue(CommandOf(cycle))
<1>1. /\ Connected /\ inbound = <<>> /\ dpc = "wait" /\ ~wake /\ Fresh
      /\ Prologue(CommandOf(cycle))
  BY CommandArrives
<1>2. /\ toDev # <<>> /\ Head(toDev).crc = "ok" /\ Head(toDev).kind # "ARGS" /\ ~due
  BY DEF ReceiveCommand, Receives
<1>3. PICK k \in 0..Len(ArgsLines) :
         /\ toDev = SubSeq(Script(cycle), k + 1, Len(ArgsLines) + 1)
         /\ k = Len(ArgsLines)
  BY <1>2, HeadIsRun
<1>4. (Len(ArgsLines) + 1) - Len(toDev) = Len(ArgsLines)
  BY <1>3, ScriptLength
<1> QED BY <1>1, <1>2, <1>4 DEF ReadyInv, AllArgs

LEMMA NameIsNotEmpty == \A t \in Tests : NameOf[t] # ""
BY RegistryAssumption

LEMMA ArgsAreIn ==
    ASSUME ProgressAssumed, Fresh, RoundsIndInv
    PROVE  \A i \in DOMAIN AllArgs :
              \E j \in DOMAIN CommandFlags(CommandOf(cycle), AllArgs) :
                 CommandFlags(CommandOf(cycle), AllArgs)[j] = AllArgs[i]
<1> DEFINE msg == CommandOf(cycle)
<1>1. AllArgs \in Seq(PlainFlag)
  BY ArgsTypes DEF ProgressAssumed, RoundsAssumed
<1>2. /\ msg.kind \in {"RUN", "RUN_ALL", "RUN:", "RESUME_AFTER"}
      /\ \E S : msg.flags \in Seq(S)
      /\ msg.kind = "RESUME_AFTER" => msg.name # ""
  <2>1. CASE cycle = "first"
    <3>1. msg = InitialCommand
      BY <2>1 DEF CommandOf
    <3>2. PICK kind \in {"RUN", "RUN_ALL", "RUN:", "RESUME_AFTER"}, name \in STRING,
               given \in Seq(PlainFlag) : InitialCommand = Message(kind, name, given)
      BY DEF ProgressAssumed, RoundsAssumed
    <3>3. InitialCommand.kind = kind /\ InitialCommand.flags = given
      BY <3>2 DEF Message
    <3> HIDE DEF msg
    <3>4. \E S : msg.flags \in Seq(S)
      BY <3>1, <3>3
    <3>5. msg.kind = "RESUME_AFTER" => msg.name # ""
      BY <3>1 DEF ProgressAssumed
    <3> QED BY <3>1, <3>3, <3>4, <3>5
  <2>2. CASE cycle = "resume"
    <3>1. target # ""
      BY <2>2, NameIsNotEmpty DEF Fresh
    <3>2. msg.kind = "RESUME_AFTER" /\ msg.name = target /\ msg.flags = <<>>
      BY <2>2 DEF CommandOf, ResumeCommand, Message
    <3>3. <<>> \in Seq({})
      OBVIOUS
    <3> QED BY <3>1, <3>2, <3>3
  <2>3. CASE cycle # "first" /\ cycle # "resume"
    <3> DEFINE own == FlagOn("--tc", {t \in Tests : NameOf[t] = target})
    <3>1. msg = Message("RUN:", "", IF target = "" THEN <<WakeFlag>> ELSE <<WakeFlag, own>>)
      BY <2>3 DEF CommandOf, PhaseTwoCommand
    <3> HIDE DEF own, msg
    <3>2. msg.kind = "RUN:" /\ msg.flags = IF target = "" THEN <<WakeFlag>> ELSE <<WakeFlag, own>>
      BY <3>1 DEF Message
    <3>3. <<WakeFlag>> \in Seq({WakeFlag, own}) /\ <<WakeFlag, own>> \in Seq({WakeFlag, own})
      OBVIOUS
    <3> QED BY <3>2, <3>3
  <2> QED BY <2>1, <2>2, <2>3
<1> HIDE DEF msg
<1> DEFINE given == msg.flags
<1>3. PICK S : given \in Seq(S)
  BY <1>2
<1> HIDE DEF given
<1>4. /\ \A i \in DOMAIN AllArgs : \E j \in DOMAIN (AllArgs \o given) :
                                    (AllArgs \o given)[j] = AllArgs[i]
      /\ \A i \in DOMAIN AllArgs : \E j \in DOMAIN (given \o AllArgs) :
                                    (given \o AllArgs)[j] = AllArgs[i]
  <2> DEFINE all == AllArgs
  <2>1. all \in Seq(PlainFlag)
    BY <1>1
  <2> HIDE DEF all
  <2>2. /\ \A i \in DOMAIN all : \E j \in DOMAIN (all \o given) : (all \o given)[j] = all[i]
        /\ \A i \in DOMAIN all : \E j \in DOMAIN (given \o all) : (given \o all)[j] = all[i]
    BY <1>3, <2>1, AllIn
  <2> QED BY <2>2 DEF all
<1> QED BY <1>2, <1>4 DEF CommandFlags, msg, given

-----------------------------------------------------------------------------
(* Every argument in every cycle.                                           *)

ArgsInv == RoundsIndInv /\ ReadyInv /\ ArgsReachTheCycle

LEMMA FlagsStand ==
    ASSUME ArgsReachTheCycle, InCycle' => InCycle /\ UNCHANGED flags
    PROVE  ArgsReachTheCycle'
BY DEF ArgsReachTheCycle

LEMMA ArgsByBoard ==
    ASSUME ProgressAssumed, RoundsIndInv, Steady, ReadyInv, ArgsReachTheCycle,
           DeviceRuns \/ ReadyTimer \/ Faulty
    PROVE  ArgsReachTheCycle'
<1> USE DEF InCycle, InTest
<1>1. RoundsAssumed
  BY DEF ProgressAssumed
<1>2. /\ ~Crash /\ ~SilentReset /\ ~Reboot
      /\ ~ReceivePowerCommand /\ ~ReceiveIdleCommand /\ ~RunStandalone
  BY <1>1, NoSuchFaults, NoControls
<1>3. CASE BoardInit \/ EmitReady \/ ReadyTimer \/ ReceiveArgs \/ ReceiveBad \/ FinishCycle
           \/ GoDown \/ PowerLoss \/ Oversleep \/ BoardInitFails \/ PowerUp
  <2>1. ~InCycle'
    BY <1>3 DEF BoardInit, EmitReady, ReadyTimer, IntervalElapses, ReceiveArgs, ReceiveBad,
       Receives, FinishCycle, GoDown, PowerLoss, Oversleep, BoardInitFails, PowerUp, Boot
  <2> QED BY <2>1, FlagsStand
<1>4. CASE StartTest \/ FailAssertion \/ SignalBusy \/ EndTest \/ SignalSleep
           \/ Hang \/ Unhang
  <2>1. InCycle /\ UNCHANGED flags
    BY <1>4 DEF StartTest, FailAssertion, SignalBusy, EndTest, SignalSleep, Hang, Unhang,
       BodyDone, cycleVars
  <2> QED BY <2>1, FlagsStand
<1>5. CASE ReceiveCommand
  <2>1. Fresh /\ args = AllArgs /\ Prologue(CommandOf(cycle))
    BY <1>1, <1>5, CommandFinds
  <2>2. flags' = CommandFlags(CommandOf(cycle), AllArgs)
    BY <2>1 DEF Prologue
  <2>3. \A i \in DOMAIN AllArgs :
           \E j \in DOMAIN CommandFlags(CommandOf(cycle), AllArgs) :
              CommandFlags(CommandOf(cycle), AllArgs)[j] = AllArgs[i]
    BY <2>1, ArgsAreIn
  <2> QED BY <2>2, <2>3 DEF ArgsReachTheCycle
<1> QED BY <1>2, <1>3, <1>4, <1>5 DEF DeviceRuns, Faulty

LEMMA ArgsStep ==
    ASSUME ProgressAssumed, Steady, ArgsInv, [Next]_vars
    PROVE  ArgsInv'
<1>1. RoundsAssumed /\ RoundsIndInv /\ ReadyInv /\ ArgsReachTheCycle
  BY DEF ProgressAssumed, ArgsInv
<1>2. RoundsIndInv'
  BY <1>1, RoundsStep
<1>3. ReadyInv'
  BY <1>1, <1>2, ReadyStep
<1> SUFFICES ArgsReachTheCycle'
  BY <1>2, <1>3 DEF ArgsInv
<1>4. CASE HostMoves
  <2>1. CASE UNCHANGED deviceVars
    BY <1>1, <2>1, FlagsStand DEF deviceVars, cycleVars, InCycle, InTest
  <2>2. CASE Boot
    BY <1>1, <2>2, FlagsStand DEF Boot, InCycle, InTest
  <2> QED BY <1>4, <2>1, <2>2, HostLeavesBoard
<1>5. CASE DeviceRuns \/ ReadyTimer \/ Faulty
  BY <1>1, <1>5, ArgsByBoard
<1>6. CASE NewSession
  BY <1>1, <1>6, FlagsStand DEF NewSession, cycleVars, InCycle, InTest
<1>7. CASE UNCHANGED deviceVars \/ UNCHANGED vars
  BY <1>1, <1>7, FlagsStand DEF vars, deviceVars, cycleVars, InCycle, InTest
<1> QED BY <1>4, <1>5, <1>6, <1>7 DEF Next, DeviceMoves, Mishap

LEMMA ArgsInitially == RoundsAssumed /\ Init => ArgsInv
<1> SUFFICES ASSUME RoundsAssumed, Init PROVE ArgsInv
  OBVIOUS
<1>1. dpc = "init" /\ due /\ env = EmptyEnv /\ hpc = "open"
  BY DEF Init, DeviceInit, RunnerInit
<1>2. ReadyInv
  BY <1>1 DEF ReadyInv, Connected, Talks
<1>3. ArgsReachTheCycle
  BY <1>1 DEF ArgsReachTheCycle, InCycle, InTest
<1> QED BY <1>2, <1>3, RoundsInitially DEF ArgsInv

(* Every --env and filter the host was started with is in force in every    *)
(* cycle: the first, phase two and the resumed one, after any READY that    *)
(* made the host send its command once more.                                *)
THEOREM ArgsReachEveryCycle ==
    ASSUME ProgressAssumed, MildFaults
    PROVE  Spec => []ArgsReachTheCycle
<1> DEFINE Safe == ArgsInv /\ dpc # "hung"
<1>1. ProgressAssumed /\ RoundsAssumed /\ MildFaults
  BY DEF ProgressAssumed
<1>2. Init => Safe
  BY <1>1, ArgsInitially DEF Init, DeviceInit
<1>3. Safe /\ [Next]_vars => Safe'
  BY <1>1, ArgsStep, MildIsSteady
<1>4. Safe => ArgsReachTheCycle
  BY DEF ArgsInv
<1> HIDE DEF Safe
<1> QED BY <1>2, <1>3, <1>4, PTL DEF Spec

-----------------------------------------------------------------------------
(* What the cycles skip and run.                                            *)

LEMMA SkipsAreTests ==
    ASSUME NEW s, NEW e, NEW msg, NEW fl
    PROVE  SkipForCycle(s, e, msg, fl) \subseteq Tests
BY DEF SkipForCycle, SkipAfterEnv, SkipAfterFlags

(* Without --unskip a cycle skips what was skipped before, and more.        *)
LEMMA MoreIsSkipped ==
    ASSUME NEW s, NEW more \in SUBSET Tests, NEW e, NEW msg, NEW fl, NothingUnskips(fl)
    PROVE  SkipForCycle(s \cup more, e, msg, fl) = SkipForCycle(s, e, msg, fl) \cup more
<1>1. CASE msg.kind = "RESUME_AFTER"
  <2> DEFINE base == SkipAfterResume(s, msg.name)
  <2>1. SkipAfterResume(s \cup more, msg.name) = base \cup more
    BY DEF SkipAfterResume
  <2>2. SkipForCycle(s, e, msg, fl) = SkipAfterEnv(SkipAfterFlags(base, fl), EnvAfter(e, fl))
    BY <1>1 DEF SkipForCycle
  <2>3. SkipForCycle(s \cup more, e, msg, fl)
          = SkipAfterEnv(SkipAfterFlags(base \cup more, fl), EnvAfter(e, fl))
    BY <1>1, <2>1 DEF SkipForCycle
  <2> HIDE DEF base
  <2>4. SkipAfterFlags(base \cup more, fl) = SkipAfterFlags(base, fl) \cup more
    BY SkipFlagsAreMonotone
  <2> QED BY <2>2, <2>3, <2>4, EnvSkipsAreMonotone
<1>2. CASE msg.kind # "RESUME_AFTER"
  <2>1. /\ SkipForCycle(s, e, msg, fl)
             = SkipAfterEnv(SkipAfterFlags(s, fl), EnvAfter(e, fl))
        /\ SkipForCycle(s \cup more, e, msg, fl)
             = SkipAfterEnv(SkipAfterFlags(s \cup more, fl), EnvAfter(e, fl))
    BY <1>2 DEF SkipForCycle
  <2>2. SkipAfterFlags(s \cup more, fl) = SkipAfterFlags(s, fl) \cup more
    BY SkipFlagsAreMonotone
  <2>3. SkipAfterEnv(SkipAfterFlags(s, fl) \cup more, EnvAfter(e, fl))
          = SkipAfterEnv(SkipAfterFlags(s, fl), EnvAfter(e, fl)) \cup more
    BY EnvSkipsAreMonotone
  <2> QED BY <2>1, <2>2, <2>3
<1> QED BY <1>1, <1>2

(* A cycle without a resume point, one after another.                       *)
SkipAfter(s, msg) == SkipForCycle(s, EmptyEnv, msg, AllArgs)

LEMMA ArgsArePlain ==
    ASSUME RoundsAssumed
    PROVE  /\ AllArgs \in Seq(PlainFlag) /\ ~Malformed(AllArgs)
           /\ NothingUnskips(AllArgs) /\ ~Has(AllArgs, "--test-case")
<1>1. AllArgs \in Seq(PlainFlag)
  BY ArgsTypes DEF RoundsAssumed
<1> DEFINE all == AllArgs
<1>2. all \in Seq(PlainFlag)
  BY <1>1
<1> HIDE DEF all
<1>3. ~Malformed(all) /\ NothingUnskips(all) /\ ~Has(all, "--test-case")
  BY <1>2, PlainFlags
<1> QED BY <1>1, <1>3 DEF all

LEMMA SkippedAgain ==
    ASSUME RoundsAssumed, NEW s \in {StaticSkip, SkipOnce}, NEW msg
    PROVE  /\ msg.kind # "RESUME_AFTER" => SkipAfter(s, msg) = SkipOnce
           /\ SkipAfter(SkipOnce, msg) = SkipAfter(StaticSkip, msg)
<1>1. RunCommand.kind # "RESUME_AFTER"
  BY DEF RunCommand, Message
<1>2. NothingUnskips(AllArgs)
  BY ArgsArePlain
<1>3. StaticSkip \in SUBSET Tests /\ SkipOnce \in SUBSET Tests
  BY RegistryAssumption, SkipsAreTests DEF SkipOnce
<1> DEFINE Base(m) == SkipAfter({}, m)
<1>4. ASSUME NEW more \in SUBSET Tests, NEW m PROVE SkipAfter(more, m) = Base(m) \cup more
  <2>1. SkipForCycle({} \cup more, EmptyEnv, m, AllArgs)
          = SkipForCycle({}, EmptyEnv, m, AllArgs) \cup more
    BY <1>2, MoreIsSkipped
  <2>2. {} \cup more = more
    OBVIOUS
  <2> QED BY <2>1, <2>2 DEF SkipAfter
<1>5. SkipOnce = Base(RunCommand) \cup StaticSkip
  BY <1>3, <1>4 DEF SkipOnce, SkipAfter
<1>6. msg.kind # "RESUME_AFTER" => Base(msg) = Base(RunCommand)
  BY <1>1 DEF SkipAfter, SkipForCycle
<1>7. Base(RunCommand) \subseteq Base(msg)
  <2>1. CASE msg.kind = "RESUME_AFTER"
    <3> DEFINE before == {t \in Tests : \E p \in FirstNamed(msg.name) : t <= p}
    <3>1. /\ Base(msg) = SkipAfterEnv(SkipAfterFlags({} \cup before, AllArgs),
                                      EnvAfter(EmptyEnv, AllArgs))
          /\ Base(RunCommand) = SkipAfterEnv(SkipAfterFlags({}, AllArgs),
                                             EnvAfter(EmptyEnv, AllArgs))
      BY <1>1, <2>1 DEF SkipAfter, SkipForCycle, SkipAfterResume
    <3>2. before \in SUBSET Tests
      OBVIOUS
    <3> HIDE DEF before, Base
    <3>3. SkipAfterFlags({} \cup before, AllArgs) = SkipAfterFlags({}, AllArgs) \cup before
      BY <1>2, <3>2, SkipFlagsAreMonotone
    <3> QED BY <3>1, <3>3, EnvSkipsAreMonotone
  <2>2. CASE msg.kind # "RESUME_AFTER"
    BY <1>6, <2>2
  <2> QED BY <2>1, <2>2
<1> HIDE DEF Base
<1>8. s \in SUBSET Tests
  BY <1>3
<1>9. ASSUME msg.kind # "RESUME_AFTER" PROVE SkipAfter(s, msg) = SkipOnce
  <2>1. SkipAfter(s, msg) = Base(RunCommand) \cup s
    BY <1>4, <1>6, <1>8, <1>9
  <2> QED BY <1>5, <2>1
<1>10. SkipAfter(SkipOnce, msg) = SkipAfter(StaticSkip, msg)
  BY <1>3, <1>4, <1>5, <1>7
<1> QED BY <1>9, <1>10

(* All that the arguments let run.                                          *)
Whole == RunBy(StaticSkip, EmptyEnv, RunCommand, AllArgs)

LEMMA InitialIs ==
    ASSUME ProgressAssumed
    PROVE  /\ InitialCommand.kind \in {"RUN", "RUN_ALL", "RESUME_AFTER"}
           /\ CommandFlags(InitialCommand, AllArgs) = AllArgs
<1> DEFINE all == AllArgs
<1>1. all \in Seq(PlainFlag)
  BY ArgsArePlain DEF ProgressAssumed
<1> HIDE DEF all
<1>2. <<>> \o all = all
  BY <1>1, ConcatEmptySeq
<1> QED BY <1>2 DEF ProgressAssumed, CommandFlags, all

(* Whatever the board skipped before, the command runs and counts what it   *)
(* would on a freshly booted board.                                         *)
LEMMA RunsAsBooted ==
    ASSUME RoundsAssumed, NEW s \in {StaticSkip, SkipOnce}, NEW msg
    PROVE  /\ RunBy(s, EmptyEnv, msg, AllArgs) = RunBy(StaticSkip, EmptyEnv, msg, AllArgs)
           /\ CountBy(s, EmptyEnv, msg, AllArgs) = CountBy(StaticSkip, EmptyEnv, msg, AllArgs)
<1>1. SkipForCycle(s, EmptyEnv, msg, AllArgs) = SkipForCycle(StaticSkip, EmptyEnv, msg, AllArgs)
  BY SkippedAgain DEF SkipAfter
<1> QED BY <1>1 DEF RunBy, CountBy

(* What the commands of later cycles run.                                   *)
LEMMA ResumeRuns ==
    ASSUME RoundsAssumed, NEW s \in {StaticSkip, SkipOnce}, cycle = "resume", target # ""
    PROVE  LET msg == CommandOf(cycle)
           IN  RunBy(s, EmptyEnv, msg, CommandFlags(msg, AllArgs))
                   = {t \in Whole : \A p \in FirstNamed(target) : t > p}
<1> DEFINE msg == CommandOf(cycle)
<1>1. msg.kind = "RESUME_AFTER" /\ msg.name = target /\ msg.flags = <<>>
  BY DEF CommandOf, ResumeCommand, Message
<1> HIDE DEF msg
<1>2. CommandFlags(msg, AllArgs) = AllArgs
  <2> DEFINE all == AllArgs
  <2>1. all \in Seq(PlainFlag)
    BY ArgsArePlain
  <2> HIDE DEF all
  <2>2. <<>> \o all = all
    BY <2>1, ConcatEmptySeq
  <2> QED BY <1>1, <2>2 DEF CommandFlags, all
<1>3. RunBy(s, EmptyEnv, msg, AllArgs) = RunBy(StaticSkip, EmptyEnv, msg, AllArgs)
  BY RunsAsBooted
<1>4. RunCommand.kind # "RESUME_AFTER" /\ NothingUnskips(AllArgs)
  BY ArgsArePlain DEF RunCommand, Message
<1>5. RunBy(StaticSkip, EmptyEnv, msg, AllArgs)
        = {t \in RunBy(StaticSkip, EmptyEnv, RunCommand, AllArgs) :
              \A p \in FirstNamed(msg.name) : t > p}
  <2> DEFINE all == AllArgs
             run == RunCommand
             none == EmptyEnv
  <2>1. run.kind # "RESUME_AFTER" /\ NothingUnskips(all)
    BY <1>4
  <2> HIDE DEF all, run, none
  <2>2. RunBy(StaticSkip, none, msg, all)
          = {t \in RunBy(StaticSkip, none, run, all) : \A p \in FirstNamed(msg.name) : t > p}
    <3>1. \A t : t \in RunBy(StaticSkip, none, msg, all)
                   <=> /\ t \in RunBy(StaticSkip, none, run, all)
                       /\ \A p \in FirstNamed(msg.name) : t > p
      BY <1>1, <2>1, RunsAfterResume
    <3> QED BY <3>1
  <2> QED BY <2>2 DEF all, run, none
<1> QED BY <1>1, <1>2, <1>3, <1>5 DEF Whole, msg

LEMMA PhaseTwoRuns ==
    ASSUME RoundsAssumed, NEW s \in {StaticSkip, SkipOnce}, PhaseTwo, target # ""
    PROVE  LET msg == CommandOf(cycle)
               fl == CommandFlags(msg, AllArgs)
           IN  /\ SkipForCycle(s, EmptyEnv, msg, fl) = SkipOnce
               /\ \A t \in Whole : NameOf[t] = target => t \in RunBy(s, EmptyEnv, msg, fl)
               /\ \A t \in RunBy(s, EmptyEnv, msg, fl) : NameOf[t] = target
<1> DEFINE msg == CommandOf(cycle)
           own == FlagOn("--tc", {u \in Tests : NameOf[u] = target})
           all == AllArgs
<1>1. msg.kind = "RUN:" /\ msg.flags = <<WakeFlag, own>>
  BY DEF CommandOf, PhaseTwoCommand, Message, PhaseTwo
<1>2. WakeFlag.flag = "--wake" /\ own.flag = "--tc"
      /\ own.tests = {u \in Tests : NameOf[u] = target}
  BY DEF WakeFlag, FlagOn
<1>3. RunCommand.kind # "RESUME_AFTER"
  BY DEF RunCommand, Message
<1>4. all \in Seq(PlainFlag) /\ ~Malformed(all) /\ ~Has(all, "--test-case")
  BY ArgsArePlain
<1>5. SkipAfter(s, RunCommand) = SkipOnce
  BY <1>3, SkippedAgain
<1>6. RunBy(s, EmptyEnv, RunCommand, all) = Whole
  BY RunsAsBooted DEF Whole
<1> HIDE DEF msg, own, all
<1>7. CommandFlags(msg, all) = all \o <<WakeFlag, own>>
  BY <1>1 DEF CommandFlags
<1>8. msg.kind # "RESUME_AFTER"
  BY <1>1
<1>10. /\ own.tests \cap RunBy(s, EmptyEnv, RunCommand, all)
             \subseteq RunBy(s, EmptyEnv, msg, all \o <<WakeFlag, own>>)
       /\ RunBy(s, EmptyEnv, msg, all \o <<WakeFlag, own>>) \subseteq own.tests
       /\ SkipForCycle(s, EmptyEnv, msg, all \o <<WakeFlag, own>>)
             = SkipForCycle(s, EmptyEnv, RunCommand, all)
  <2> DEFINE wakes == WakeFlag
             run == RunCommand
             none == EmptyEnv
             plain == PlainFlag
  <2>1. wakes.flag = "--wake" /\ run.kind # "RESUME_AFTER" /\ all \in Seq(plain)
    BY <1>2, <1>3, <1>4
  <2> HIDE DEF wakes, run, none, plain
  <2> DEFINE more == all \o <<wakes, own>>
  <2>2. own.tests \cap RunBy(s, none, run, all) \subseteq RunBy(s, none, msg, more)
    BY <1>2, <1>4, <1>8, <2>1, LastPatternRuns
  <2>3. RunBy(s, none, msg, more) \subseteq own.tests
    BY <1>2, <1>4, <1>8, <2>1, LastPatternRuns
  <2>4. SkipForCycle(s, none, msg, more) = SkipForCycle(s, none, run, all)
    <3>1. \A t : t \in SkipForCycle(s, none, msg, more)
                 <=> t \in SkipForCycle(s, none, run, all)
      BY <1>2, <1>4, <1>8, <2>1, LastPatternRuns
    <3> QED BY <3>1
  <2> QED BY <2>2, <2>3, <2>4 DEF wakes, run, none, more
<1>11. Whole \subseteq Tests
  BY DEF Whole, RunBy, DoctestSelects
<1>12. SkipForCycle(s, EmptyEnv, RunCommand, all) = SkipOnce
  BY <1>5 DEF SkipAfter, all
<1> QED BY <1>2, <1>6, <1>7, <1>10, <1>11, <1>12 DEF msg, all

-----------------------------------------------------------------------------
(* What is skipped, from one command to the next.                           *)

LEMMA NotTakenYet ==
    ASSUME RoundsIndInv, SkipInv, Connected, dpc = "wait", inbound = <<>>
    PROVE  skip \in {StaticSkip, SkipOnce}
<1>1. ~Taken
  BY NothingSaid DEF Taken, Running
<1>2. pstate = "RUNNING" /\ ~Between
  BY DEF Connected, Talks, Between
<1> QED BY <1>1, <1>2 DEF SkipInv

LEMMA WhatRuns ==
    ASSUME ProgressAssumed, RoundsIndInv, ReadyInv, SkipInv, ReceiveCommand
    PROVE  LET msg == CommandOf(cycle)
               fl == CommandFlags(msg, AllArgs)
           IN  /\ skip \in {StaticSkip, SkipOnce}
               /\ skip' = SkipForCycle(skip, EmptyEnv, msg, fl)
               /\ todo' = RunBy(skip, EmptyEnv, msg, fl)
               /\ Emit(<<Line("COUNTS", NoName, NoName, CountBy(skip, EmptyEnv, msg, fl))>>)
<1>0. RoundsAssumed
  BY DEF ProgressAssumed
<1>1. /\ Connected /\ Fresh /\ dpc = "wait" /\ inbound = <<>>
      /\ args = AllArgs /\ env = EmptyEnv /\ Prologue(CommandOf(cycle))
  BY <1>0, CommandFinds
<1> DEFINE msg == CommandOf(cycle)
           fl == CommandFlags(msg, AllArgs)
           ln == Line("COUNTS", NoName, NoName, CountBy(skip, EmptyEnv, msg, fl))
<1>2. /\ Emit((IF Malformed(fl) THEN <<Tagged("ERROR")>> ELSE <<>>)
              \o (IF msg.kind = "LIST" THEN <<>> ELSE <<ln>>))
      /\ todo' = IF msg.kind = "LIST" THEN {} ELSE RunBy(skip, EmptyEnv, msg, fl)
      /\ skip' = SkipForCycle(skip, EmptyEnv, msg, fl)
  BY <1>1 DEF Prologue
<1>3. msg.kind # "LIST" /\ ~Malformed(fl)
  <2>1. args \in Seq(PlainFlag)
    BY DEF RoundsIndInv, TypesInv
  <2>2. cycle \in {"first", "resume"} \/ PhaseTwo
    BY DEF RoundsIndInv, SessionInv, HostInv, RunnerTypeOK, Cycles, PhaseTwo
  <2>3. cycle # "first" => \E t \in Tests : NameOf[t] = target
    BY <1>1, <2>2 DEF Fresh
  <2> QED BY <1>0, <1>1, <2>1, <2>2, <2>3, FirstSelects, ResumeSelects, PhaseTwoSelects
<1>4. skip \in {StaticSkip, SkipOnce}
  BY <1>1, NotTakenYet
<1> HIDE DEF msg, fl, ln
<1>5. Emit(<<ln>>) /\ todo' = RunBy(skip, EmptyEnv, msg, fl)
  <2>1. <<>> \o <<ln>> = <<ln>>
    OBVIOUS
  <2> QED BY <1>2, <1>3, <2>1
<1> QED BY <1>2, <1>4, <1>5 DEF msg, fl, ln

LEMMA ReadyArrives ==
    ASSUME SessionInv, EmitReady, UNCHANGED chunk, handle = "live"
    PROVE  /\ inbound \in Seq(AnyLine)
           /\ \E ln \in AnyLine : ln.tag = "READY" /\ inbound' = inbound \o <<ln>>
<1> DEFINE ln == Tagged("READY")
<1>1. ln \in AnyLine /\ ln.tag = "READY"
  BY DEF Line, Tagged, NoName, AnyLine, DeviceTags, Tags, Crc
<1>2. Emit(<<ln>>) /\ UNCHANGED handle
  BY DEF EmitReady
<1> HIDE DEF ln
<1>3. wire \in Seq(AnyLine) /\ chunk \in Seq(AnyLine) /\ inbound \in Seq(AnyLine)
  BY LinesArrive
<1>4. <<ln>> \in Seq(AnyLine)
  BY <1>1
<1>5. wire' = wire \o <<ln>>
  BY <1>2 DEF Emit
<1>6. inbound' = chunk \o (wire \o <<ln>>) /\ inbound = chunk \o wire
  BY <1>2, <1>5 DEF inbound
<1> HIDE DEF inbound
<1>7. chunk \o (wire \o <<ln>>) = (chunk \o wire) \o <<ln>>
  BY <1>3, <1>4, ConcatAssociative
<1> QED BY <1>1, <1>3, <1>6, <1>7

(* A command that was taken stays taken while the host listens.             *)
LEMMA TakenByBoard ==
    ASSUME RoundsAssumed, RoundsIndInv, Steady, RoundsIndInv', HostStays, Taken, dpc # "doze",
           DeviceRuns \/ ReadyTimer \/ Faulty,
           dpc' \notin {"doze", "off"}
    PROVE  Taken' /\ UNCHANGED skip
<1> USE DEF RoundsIndInv, RoundsInv
<1>1. /\ ~Crash /\ ~SilentReset /\ ~Reboot
      /\ ~ReceivePowerCommand /\ ~ReceiveIdleCommand /\ ~RunStandalone
  BY NoSuchFaults, NoControls
<1>2. Connected /\ (Running \/ Says(inbound, "DONE"))
  BY DEF Taken
<1>3. dpc = "wait" \/ Running
  BY <1>2 DEF TakenInv
<1>4. dpc = "wait" => Says(inbound, "DONE") /\ toDev = <<>>
  BY <1>2 DEF TakenInv, Running
<1>5. ~ReceiveArgs /\ ~ReceiveBad /\ ~ReceiveCommand
  BY <1>4 DEF ReceiveArgs, ReceiveBad, ReceiveCommand, Receives
<1>6. ~BoardInit /\ ~BoardInitFails /\ ~PowerUp /\ ~GoDown /\ ~PowerLoss /\ ~Oversleep
      /\ ~SignalSleep
  BY <1>3 DEF BoardInit, BoardInitFails, PowerUp, GoDown, PowerLoss, Oversleep, Running,
     SignalSleep
<1>7. CASE StartTest \/ FailAssertion \/ SignalBusy \/ EndTest \/ Hang \/ Unhang
  <2>1. Running' /\ UNCHANGED skip
    BY <1>7 DEF StartTest, FailAssertion, SignalBusy, EndTest, Hang, Unhang, BodyDone,
       Running, registryVars
  <2>2. Connected'
    BY <2>1 DEF PlaceInv
  <2> QED BY <2>1, <2>2 DEF Taken
<1>8. CASE FinishCycle
  <2> DEFINE ln == Tagged("DONE")
  <2>1. /\ dpc = "cycle" /\ dpc' = "wait" /\ wake' = FALSE /\ Emit(<<ln>>)
        /\ UNCHANGED <<args, port, handle, toDev, skip>>
    BY <1>8 DEF FinishCycle
  <2>2. ln \in AnyLine /\ ln.tag = "DONE" /\ ln.crc = "ok"
    BY RunLines
  <2> HIDE DEF ln
  <2>3. Running /\ GoesOn
    BY <2>1, RunIsHeard DEF Running, GoesOn
  <2>4. Connected' /\ Says(inbound', "DONE")
    BY <2>1, <2>2, <2>3, RunSays
  <2> QED BY <2>1, <2>4 DEF Taken
<1>9. CASE EmitReady
  <2>1. dpc = "wait" /\ UNCHANGED <<handle, dpc, skip, chunk, hpc, pstate>>
    BY <1>9 DEF EmitReady, HostStays
  <2>2. Connected' /\ handle = "live"
    BY <1>2, <2>1 DEF Connected, Talks
  <2>3. PICK ln \in AnyLine : ln.tag = "READY" /\ inbound' = inbound \o <<ln>>
    BY <1>9, <2>1, <2>2, ReadyArrives
  <2>4. inbound \in Seq(AnyLine)
    BY LinesArrive
  <2>5. Says(inbound', "DONE")
    BY <1>4, <2>1, <2>3, <2>4, Adds
  <2> QED BY <2>1, <2>2, <2>5 DEF Taken
<1>10. CASE ReadyTimer
  <2>1. UNCHANGED <<handle, dpc, skip, chunk, hpc, pstate, wire>>
    BY <1>10 DEF ReadyTimer, IntervalElapses, linkVars, registryVars, HostStays
  <2> QED BY <2>1 DEF Taken, Connected, Talks, Running, inbound
<1> QED BY <1>1, <1>5, <1>6, <1>7, <1>8, <1>9, <1>10 DEF DeviceRuns, Faulty

LEMMA SkipByBoard ==
    ASSUME ProgressAssumed, RoundsIndInv, Steady, RoundsIndInv', ReadyInv, SkipInv, HostStays,
           DeviceRuns \/ ReadyTimer \/ Faulty
    PROVE  SkipInv'
<1> USE DEF RoundsIndInv, RoundsInv
<1>0. RoundsAssumed
  BY DEF ProgressAssumed
<1>1. /\ ~Crash /\ ~SilentReset /\ ~Reboot
      /\ ~ReceivePowerCommand /\ ~ReceiveIdleCommand /\ ~RunStandalone
  BY <1>0, NoSuchFaults, NoControls
<1>2. CASE ReceiveCommand
  <2> DEFINE msg == CommandOf(cycle)
             fl == CommandFlags(msg, AllArgs)
  <2>1. skip \in {StaticSkip, SkipOnce} /\ skip' = SkipForCycle(skip, EmptyEnv, msg, fl)
    BY <1>2, WhatRuns
  <2>2. Running' /\ Connected'
    <3>1. dpc' = "cycle"
      BY <1>2 DEF ReceiveCommand, Prologue
    <3> QED BY <3>1 DEF Running, PlaceInv
  <2>3. CASE PhaseTwo
    <3>1. target # ""
      BY <1>0, <1>2, <2>3, CommandArrives, NameIsNotEmpty DEF Fresh
    <3>2. skip' = SkipOnce
      BY <1>0, <2>1, <2>3, <3>1, PhaseTwoRuns
    <3>3. SkipOnce' = SkipOnce
      BY DEF SkipOnce
    <3> QED BY <3>2, <3>3 DEF SkipInv
  <2>4. CASE ~PhaseTwo
    <3>1. cycle' \in {"first", "resume"}
      BY <2>4 DEF HostStays, PhaseTwo, SessionInv, HostInv, RunnerTypeOK, Cycles
    <3> QED BY <2>2, <3>1 DEF SkipInv, Taken
  <2> QED BY <2>3, <2>4
<1>3. CASE PowerUp
  BY <1>3 DEF SkipInv, PowerUp, Boot
<1>4. CASE dpc' \in {"doze", "off"}
  BY <1>4 DEF SkipInv
<1> SUFFICES ASSUME ~ReceiveCommand, ~PowerUp, dpc' \notin {"doze", "off"} PROVE SkipInv'
  BY <1>2, <1>3, <1>4
<1>5. UNCHANGED skip
  BY <1>1 DEF DeviceRuns, Faulty, BoardInit, EmitReady, ReceiveArgs, ReceiveBad, StartTest,
     FailAssertion, SignalBusy, EndTest, SignalSleep, GoDown, FinishCycle, BoardInitFails,
     Hang, Unhang, PowerLoss, Oversleep, ReadyTimer, IntervalElapses, registryVars
<1>6. CASE skip \in {StaticSkip, SkipOnce}
  BY <1>5, <1>6 DEF SkipInv
<1>7. CASE dpc \in {"doze", "off", "late"}
  <2>1. dpc' = "late"
    BY <1>1, <1>7 DEF DeviceRuns, Faulty, BoardInit, EmitReady, ReceiveArgs, ReceiveBad,
       Receives, StartTest, FailAssertion, SignalBusy, EndTest, BodyDone, SignalSleep, GoDown,
       FinishCycle, BoardInitFails, Hang, Unhang, PowerLoss, Away, Oversleep, ReadyTimer,
       IntervalElapses
  <2> QED BY <2>1 DEF SkipInv
<1>8. CASE Between
  BY <1>8 DEF SkipInv, Between, HostStays
<1>9. CASE /\ dpc # "doze" /\ cycle \in {"first", "resume"}
           /\ Taken \/ (pstate = "FINISHED" /\ hpc \notin {"open", "wakeWait"})
  <2>1. CASE Taken
    BY <1>0, <1>9, <2>1, TakenByBoard DEF SkipInv, HostStays
  <2>2. CASE pstate = "FINISHED" /\ hpc \notin {"open", "wakeWait"}
    BY <1>9, <2>2 DEF SkipInv, HostStays
  <2> QED BY <1>9, <2>1, <2>2
<1> QED BY <1>6, <1>7, <1>8, <1>9 DEF SkipInv

(* The host hears the rest, and at last DONE.                               *)
LEMMA TakenIsHeard ==
    ASSUME RoundsAssumed, RoundsIndInv, FeedLine, Taken, dpc # "doze", UNCHANGED dpc
    PROVE  Taken' \/ (pstate' = "FINISHED" /\ hpc' = "feed")
<1> USE DEF RoundsIndInv, RoundsInv
<1> DEFINE ln == Head(inbound)
<1>1. /\ UNCHANGED <<hpc, handle, dpc>> /\ hpc \in {"feed", "drainFeed"}
      /\ inbound \in Seq(AnyLine) /\ inbound # <<>> /\ inbound' = Tail(inbound)
      /\ Feed(ln) /\ ln.crc # "bad" /\ (ln.tag = "CASE:START" => ln.name # "")
  BY FeedsOne
<1>2. Connected /\ hpc = "feed" /\ pstate = "RUNNING" /\ handle = "live"
      /\ (Running \/ Says(inbound, "DONE"))
  BY <1>1 DEF Taken, Connected, Talks
<1>3. InOrder(inbound)
  BY <1>2 DEF HeardInv, Connected
<1>4. /\ ln.tag \in RunTags \cup SleepTags \cup {"DONE", "READY"}
      /\ ln.tag \in SleepTags \cup {"READY"} => Tail(inbound) = <<>>
  BY <1>1, <1>3, TakesInOrder
<1>5. /\ \A tag : Says(inbound, tag) <=> ln.tag = tag \/ Says(inbound', tag)
      /\ AllOfRun(inbound) => ln.tag \in RunTags
      /\ ln.tag \in SleepTags => SaysSleep(inbound)
  BY <1>1, Takes
<1> HIDE DEF ln
<1>6. ln.tag # "READY"
  <2>1. CASE Running
    BY <1>2, <1>5, <2>1 DEF TakenInv, RunTags
  <2>2. CASE Says(inbound, "DONE")
    BY <1>1, <1>4, <1>5, <2>2, NothingSaid
  <2> QED BY <1>2, <2>1, <2>2
<1>7. ln.tag \notin SleepTags
  BY <1>2, <1>5 DEF TakenInv
<1>8. HearsRunning(ln)
  BY <1>1, <1>2, FeedHears DEF HearsWaiting
<1>9. CASE ln.tag \in RunTags
  <2>1. pstate' = "RUNNING"
    BY <1>2, <1>8, <1>9 DEF HearsRunning, RunTags, SleepTags
  <2>2. Connected'
    BY <1>1, <1>2, <2>1 DEF Connected, Talks
  <2>3. Running' \/ Says(inbound', "DONE")
    BY <1>1, <1>2, <1>5, <1>9 DEF Running, RunTags
  <2> QED BY <2>2, <2>3 DEF Taken
<1>10. CASE ln.tag = "DONE"
  BY <1>1, <1>2, <1>8, <1>10 DEF HearsRunning, RunTags, SleepTags
<1> QED BY <1>4, <1>6, <1>7, <1>9, <1>10

LEMMA ReadKeepsOrder ==
    ASSUME SessionInv, ReadChunk \/ DrainChunk
    PROVE  inbound' = inbound /\ UNCHANGED handle /\ handle = "live"
<1>1. /\ handle = "live" /\ UNCHANGED handle /\ hpc \notin {"feed", "drainFeed"}
      /\ \E k \in 1..Len(wire) : /\ chunk' = SubSeq(wire, 1, k)
                                 /\ wire' = SubSeq(wire, k + 1, Len(wire))
  BY DEF ReadChunk, DrainChunk, ReadInto
<1>2. wire \in Seq(AnyLine) /\ chunk = <<>>
  BY <1>1, LinesArrive, Quiet
<1>3. chunk' \o wire' = wire
  BY <1>1, <1>2, Split
<1>4. <<>> \o wire = wire
  BY <1>2, ConcatEmptySeq
<1> QED BY <1>1, <1>2, <1>3, <1>4 DEF inbound

(* What the host does, one thing at a time.                                 *)
LEMMA HostActs ==
    ASSUME RoundsIndInv, Steady, HostMoves, UNCHANGED session
    PROVE  \/ FirstOpen \/ LaterOpen
           \/ /\ UNCHANGED deviceVars
              /\ \/ Turns
                 \/ SendRaises \/ ReadRaises \/ OpenFails
                 \/ AwaitWake \/ GiveUp \/ StartPhaseTwo \/ StartResume \/ Finish
                 \/ ReadChunk \/ DrainChunk \/ FeedLine \/ SendCommand
                 \/ PostTest \/ LingerEnds
<1> SUFFICES ASSUME ~FirstOpen, ~LaterOpen
             PROVE  /\ UNCHANGED deviceVars
                    /\ \/ Turns
                       \/ SendRaises \/ ReadRaises \/ OpenFails
                       \/ AwaitWake \/ GiveUp \/ StartPhaseTwo \/ StartResume \/ Finish
                       \/ ReadChunk \/ DrainChunk \/ FeedLine \/ SendCommand
                       \/ PostTest \/ LingerEnds
  OBVIOUS
<1>1. /\ UNCHANGED <<session, deviceVars>>
      /\ HostSteps \/ TimesOut \/ BusyIsOver \/ WakeWaitOver \/ LingerEnds \/ OpenGivesUp
  BY DEF HostMoves
<1>2. ASSUME \/ SeesSleep \/ SeesDone \/ SeesNothing \/ DrainCheck \/ DrainEnds
             \/ PortGoneWhileRunning \/ NoMoreCycles
             \/ SeesError \/ LeavesForOldCrash \/ TimesOut \/ BusyIsOver
      PROVE  Turns
  BY <1>1, <1>2, HostTurns DEF Steady
<1>3. UNCHANGED deviceVars
  BY <1>1
<1>4. \/ Turns
      \/ SendRaises \/ ReadRaises \/ OpenFails
      \/ AwaitWake \/ GiveUp \/ StartPhaseTwo \/ StartResume \/ Finish
      \/ ReadChunk \/ DrainChunk \/ FeedLine \/ SendCommand
      \/ PostTest \/ LingerEnds
  <2>1. WakeWaitOver => StartPhaseTwo
    BY DEF WakeWaitOver
  <2>2. OpenGivesUp => OpenFails
    BY DEF OpenGivesUp
  <2> QED BY <1>1, <1>2, <2>1, <2>2, Zenon DEF HostSteps
<1> QED BY <1>3, <1>4

LEMMA SkipByHost ==
    ASSUME ProgressAssumed, RoundsIndInv, Steady, SkipInv, HostMoves, UNCHANGED session
    PROVE  SkipInv'
<1> USE DEF RoundsIndInv, RoundsInv
<1>0. RoundsAssumed
  BY DEF ProgressAssumed
<1>1. CASE Boot
  BY <1>1 DEF SkipInv, Boot
<1> SUFFICES ASSUME ~Boot PROVE SkipInv'
  BY <1>1
<1>2. UNCHANGED <<deviceVars, skip, dpc>>
  BY HostLeavesBoard DEF deviceVars, registryVars
<1>3. CASE skip \in {StaticSkip, SkipOnce} \/ dpc \in {"doze", "off", "late"}
  BY <1>2, <1>3 DEF SkipInv
<1>4. CASE Between
  <2>1. ~FirstOpen
    <3>1. session \in DOMAIN Resets /\ session # 1
      BY <1>4 DEF SessionInv, HostInv, Between
    <3>2. Resets[session]
      BY <1>0, <3>1 DEF RoundsAssumed, LaterSessionsReset
    <3> QED BY <3>2 DEF FirstOpen
  <2>2. ~LaterOpen
    BY <1>4 DEF LaterOpen, Between
  <2>3. CASE Turns
    BY <1>4, <2>3 DEF Turns, Between, roundSeen, SkipInv
  <2>4. CASE OpenFails
    BY <1>4, <2>4 DEF OpenFails, Raise, Between, SkipInv, roundVars
  <2>5. CASE Finish
    BY <1>4, <2>5 DEF Finish, Between, SkipInv, roundVars
  <2>6. ~(SendRaises \/ ReadRaises \/ AwaitWake \/ GiveUp \/ StartPhaseTwo \/ StartResume
          \/ ReadChunk \/ DrainChunk \/ FeedLine \/ SendCommand \/ PostTest \/ LingerEnds)
    BY <1>4 DEF Between, SendRaises, ReadRaises, AwaitWake, GiveUp, StartPhaseTwo,
       StartResume, ReadChunk, DrainChunk, FeedLine, SendCommand, Checking, PostTest,
       LingerEnds, LingerOver
  <2> QED BY <2>1, <2>2, <2>3, <2>4, <2>5, <2>6, HostActs
<1>5. CASE /\ dpc # "doze" /\ cycle \in {"first", "resume"}
           /\ Taken \/ (pstate = "FINISHED" /\ hpc \notin {"open", "wakeWait"})
  <2>1. /\ pstate \in {"RUNNING", "FINISHED"} /\ hpc \notin {"open", "wakeWait"}
        /\ pstate = "RUNNING" => Taken /\ Talks /\ handle = "live"
        /\ ~PhaseTwo
        /\ hpc = "read" => pstate = "RUNNING"
    BY <1>5 DEF Taken, Connected, Talks, PhaseTwo, PlaceInv
  <2>2. ~FirstOpen /\ ~LaterOpen /\ ~OpenFails /\ ~StartPhaseTwo
    BY <2>1 DEF FirstOpen, LaterOpen, OpenPort, OpenFails, StartPhaseTwo
  <2>3. ~SendRaises /\ ~ReadRaises /\ ~SendCommand /\ ~AwaitWake /\ ~GiveUp /\ ~StartResume
    BY <2>1 DEF SendRaises, ReadRaises, SendCommand, Checking, AwaitWake, GiveUp,
       StartResume, AfterPhaseTwo, PhaseTwo
  <2>4. CASE Turns
    <3>1. UNCHANGED <<pstate, handle, chunk, wire, cycle>>
      BY <2>4 DEF Turns, protocolSeen, linkSeen, roundSeen
    <3>2. hpc' \notin {"open", "wakeWait"}
      BY <2>1, <2>4 DEF Turns
    <3>3. CASE pstate = "RUNNING"
      <4>1. Talks'
        BY <2>1, <2>4, <3>3 DEF Turns, Talks
      <4> QED BY <1>2, <1>5, <2>1, <3>1, <3>3, <4>1 DEF SkipInv, Taken, Connected, inbound, Running
    <3> QED BY <1>5, <2>1, <3>1, <3>2, <3>3 DEF SkipInv
  <2>5. CASE FeedLine
    <3>1. UNCHANGED <<cycle, hpc>> /\ Feed(Head(inbound))
      BY <1>0, <2>5, FeedsOne
    <3>2. CASE pstate = "RUNNING"
      BY <1>0, <1>2, <1>5, <2>1, <2>5, <3>1, <3>2, TakenIsHeard DEF SkipInv
    <3>3. CASE pstate = "FINISHED"
      <4>1. pstate' = "FINISHED"
        BY <3>1, <3>3 DEF Feed, FeedReadyWhileWaiting, FeedArgs, FeedError,
           FeedReadyWhileRunning, FeedCaseStart, FeedCounts, FeedSleep, FeedBusy, FeedDone,
           FeedIgnored, protocolVars
      <4> QED BY <1>5, <2>1, <3>1, <4>1 DEF SkipInv
    <3> QED BY <2>1, <3>2, <3>3
  <2>6. CASE ReadChunk \/ DrainChunk
    <3>1. UNCHANGED <<pstate, handle, cycle>> /\ inbound' = inbound
          /\ (Talks => Talks') /\ hpc' \notin {"open", "wakeWait"}
      BY <2>6, ReadKeepsOrder DEF ReadChunk, DrainChunk, ReadInto, protocolVars, roundVars,
         Talks
    <3> QED BY <1>2, <1>5, <2>1, <3>1 DEF SkipInv, Taken, Connected, Running
  <2>7. CASE Finish \/ PostTest \/ LingerEnds
    <3>1. UNCHANGED <<pstate, cycle>> /\ ~Talks /\ hpc' \notin {"open", "wakeWait"}
      BY <2>7 DEF Finish, PostTest, LingerEnds, LingerOver, protocolVars, roundVars, Talks
    <3> QED BY <1>5, <2>1, <3>1 DEF SkipInv
  <2> QED BY <2>2, <2>3, <2>4, <2>5, <2>6, <2>7, HostActs
<1> QED BY <1>3, <1>4, <1>5 DEF SkipInv

LEMMA SkipStep ==
    ASSUME ProgressAssumed, RoundsIndInv, Steady, RoundsIndInv', ReadyInv, SkipInv, [Next]_vars
    PROVE  SkipInv'
<1>1. CASE HostMoves /\ UNCHANGED session
  BY <1>1, SkipByHost
<1>2. CASE UNCHANGED <<session, hostVars>> /\ (DeviceRuns \/ ReadyTimer \/ Faulty)
  BY <1>2, BoardMoves, SkipByBoard
<1>3. CASE (GarbleLine \/ GarbleMessage) /\ UNCHANGED <<session, hostVars, deviceVars>>
  <2>1. GarbleMessage /\ HostStays /\ UNCHANGED <<wire, handle, dpc, skip>>
    BY <1>3, NoSuchFaults, BoardMoves DEF GarbleMessage, deviceVars, registryVars,
       ProgressAssumed
  <2> QED BY <2>1 DEF SkipInv, Taken, Connected, Talks, Running, Between, inbound, HostStays
<1>4. CASE NewSession
  <2>1. session \in 1..Len(Resets) /\ session' = session + 1
    <3>1. session \in DOMAIN Resets /\ session' = session + 1
      BY <1>4 DEF RoundsIndInv, SessionInv, HostInv, NewSession
    <3> QED BY <3>1, SessionAssumption
  <2>2. session' # 1
    BY <2>1
  <2> QED BY <1>4, <2>2 DEF SkipInv, Between, NewSession, Invoke
<1>5. CASE UNCHANGED vars
  BY <1>5 DEF SkipInv, Taken, Connected, Talks, Running, Between, inbound, vars, hostVars,
     runnerVars, protocolVars, roundVars, deviceVars, registryVars, linkVars
<1> QED BY <1>1, <1>2, <1>3, <1>4, <1>5 DEF Next, DeviceMoves, Mishap

(* No filter is given twice by one name with different patterns, and no     *)
(* hook excludes tests: then count_passing_filters() counts what doctest    *)
(* runs.                                                                    *)
CountsAssumed ==
    /\ ProgressAssumed
    /\ HookExclude = {}
    /\ \A name \in FilterNames : AgreesOn(AllArgs, name)

LEMMA AskedIs ==
    ASSUME CountsAssumed, NEW s \in {StaticSkip, SkipOnce}
    PROVE  CountBy(s, EmptyEnv, InitialCommand, CommandFlags(InitialCommand, AllArgs))
               = Cardinality(Asked)
<1>0. ProgressAssumed /\ RoundsAssumed
  BY DEF CountsAssumed, ProgressAssumed
<1> DEFINE all == AllArgs
           first == InitialCommand
           none == EmptyEnv
<1>1. CommandFlags(first, all) = all
  BY <1>0, InitialIs
<1>2. CountBy(s, none, first, all) = CountBy(StaticSkip, none, first, all)
  BY <1>0, RunsAsBooted
<1>3. CountBy(StaticSkip, none, first, all) = Cardinality(RunBy(StaticSkip, none, first, all))
  <2>1. all \in Seq(PlainFlag) /\ HookExclude = {} /\ \A name \in FilterNames : AgreesOn(all, name)
    BY <1>0, ArgsArePlain DEF CountsAssumed
  <2> HIDE DEF all, first, none
  <2> QED BY <2>1, CountIsExact
<1>4. Asked = RunBy(StaticSkip, none, first, all)
  BY <1>1 DEF Asked
<1> QED BY <1>1, <1>2, <1>3, <1>4

-----------------------------------------------------------------------------
(* COUNTS lines on their way.                                               *)

LEMMA AddsCounts ==
    ASSUME NEW S, NEW s \in Seq(S), NEW ln \in S
    PROVE  LET more == s \o <<ln>>
           IN  /\ RightCounts(s) /\ (ln.tag = "COUNTS" => ln.run = Cardinality(Asked))
                      => RightCounts(more)
               /\ CountsFirst(s) /\ (ln.tag \in SleepTags => Says(s, "COUNTS"))
                      => CountsFirst(more)
<1> DEFINE more == s \o <<ln>>
<1>1. /\ DOMAIN more = 1..(Len(s) + 1) /\ DOMAIN s = 1..Len(s) /\ Len(s) \in Nat
      /\ \A i \in 1..Len(s) : more[i] = s[i]
      /\ more[Len(s) + 1] = ln
  BY OneMoreLine
<1>2. \A i \in 1..(Len(s) + 1) : i \in 1..Len(s) \/ i = Len(s) + 1
  BY <1>1
<1>3. \A i \in 1..Len(s) : i \in 1..(Len(s) + 1) /\ i < Len(s) + 1
  BY <1>1
<1> HIDE DEF more
<1>4. RightCounts(s) /\ (ln.tag = "COUNTS" => ln.run = Cardinality(Asked)) => RightCounts(more)
  BY <1>1, <1>2 DEF RightCounts
<1>5. CountsFirst(s) /\ (ln.tag \in SleepTags => Says(s, "COUNTS")) => CountsFirst(more)
  BY <1>1, <1>2, <1>3 DEF CountsFirst, Says
<1> QED BY <1>4, <1>5 DEF more

LEMMA TakesCounts ==
    ASSUME NEW S, NEW s \in Seq(S), s # <<>>
    PROVE  LET ln == Head(s)
               rest == Tail(s)
           IN  /\ RightCounts(s) => RightCounts(rest)
                                    /\ (ln.tag = "COUNTS" => ln.run = Cardinality(Asked))
               /\ CountsFirst(s) => ln.tag \notin SleepTags
               /\ CountsFirst(s) /\ ln.tag # "COUNTS" => CountsFirst(rest)
<1> DEFINE rest == Tail(s)
           ln == Head(s)
<1>1. /\ ln = s[1]
      /\ Len(s) \in Nat \ {0} /\ DOMAIN s = 1..Len(s)
      /\ DOMAIN rest = 1..(Len(s) - 1)
      /\ \A i \in 1..(Len(s) - 1) : rest[i] = s[i + 1]
  BY OneLineLess
<1>2. /\ 1 \in 1..Len(s) /\ \A j \in 1..Len(s) : ~(j < 1)
      /\ \A i \in 1..(Len(s) - 1) : i + 1 \in 1..Len(s)
  BY <1>1
<1>3. \A i \in 1..(Len(s) - 1) : \A j \in 1..Len(s) :
         j < i + 1 => j = 1 \/ (j - 1 \in 1..(Len(s) - 1) /\ j - 1 < i /\ (j - 1) + 1 = j)
  BY <1>1
<1> HIDE DEF rest, ln
<1>4. RightCounts(s) => RightCounts(rest) /\ (ln.tag = "COUNTS" => ln.run = Cardinality(Asked))
  BY <1>1, <1>2 DEF RightCounts
<1>5. CountsFirst(s) => ln.tag \notin SleepTags
  BY <1>1, <1>2 DEF CountsFirst
<1>6. ASSUME CountsFirst(s), ln.tag # "COUNTS" PROVE CountsFirst(rest)
  <2> SUFFICES ASSUME NEW i \in DOMAIN rest, rest[i].tag \in SleepTags
               PROVE  \E j \in DOMAIN rest : j < i /\ rest[j].tag = "COUNTS"
    BY DEF CountsFirst
  <2>1. i + 1 \in DOMAIN s /\ s[i + 1].tag \in SleepTags
    BY <1>1, <1>2
  <2>2. PICK j \in DOMAIN s : j < i + 1 /\ s[j].tag = "COUNTS"
    BY <1>6, <2>1 DEF CountsFirst
  <2>3. j # 1
    BY <1>1, <1>6, <2>2
  <2>4. j - 1 \in DOMAIN rest /\ j - 1 < i /\ (j - 1) + 1 = j
    BY <1>1, <1>3, <2>2, <2>3
  <2>5. rest[j - 1] = s[j]
    BY <1>1, <2>4
  <2> QED BY <2>2, <2>4, <2>5
<1> QED BY <1>4, <1>5, <1>6 DEF rest, ln

LEMMA PrefixCounts ==
    ASSUME NEW S, NEW s \in Seq(S), NEW w \in Seq(S)
    PROVE  /\ RightCounts(s \o w) => RightCounts(s)
           /\ CountsFirst(s \o w) => CountsFirst(s)
<1> DEFINE all == s \o w
<1>1. /\ DOMAIN s = 1..Len(s) /\ DOMAIN all = 1..(Len(s) + Len(w))
      /\ Len(s) \in Nat /\ Len(w) \in Nat
      /\ \A i \in 1..Len(s) : all[i] = s[i]
  OBVIOUS
<1>2. \A i \in 1..Len(s) : i \in 1..(Len(s) + Len(w))
  BY <1>1
<1>3. \A i \in 1..Len(s) : \A j \in 1..(Len(s) + Len(w)) : j < i => j \in 1..Len(s)
  BY <1>1
<1> HIDE DEF all
<1>4. RightCounts(all) => RightCounts(s)
  BY <1>1, <1>2 DEF RightCounts
<1>5. CountsFirst(all) => CountsFirst(s)
  BY <1>1, <1>2, <1>3 DEF CountsFirst
<1> QED BY <1>4, <1>5 DEF all

LEMMA NoCounts == RightCounts(<<>>) /\ CountsFirst(<<>>)
BY DEF RightCounts, CountsFirst

(* What the board says arrives behind the rest.                             *)
LEMMA LineArrives ==
    ASSUME SessionInv, NEW ln \in AnyLine, Emit(<<ln>>), UNCHANGED <<chunk, handle>>
    PROVE  /\ inbound \in Seq(AnyLine)
           /\ IF handle = "live" THEN inbound' = inbound \o <<ln>> ELSE inbound' = inbound
<1>1. wire \in Seq(AnyLine) /\ chunk \in Seq(AnyLine) /\ inbound \in Seq(AnyLine)
  BY LinesArrive
<1>2. <<ln>> \in Seq(AnyLine)
  OBVIOUS
<1>3. CASE handle = "live"
  <2>1. wire' = wire \o <<ln>>
    BY <1>3 DEF Emit
  <2>2. inbound' = chunk \o (wire \o <<ln>>) /\ inbound = chunk \o wire
    BY <1>3, <2>1 DEF inbound
  <2> HIDE DEF inbound
  <2>3. chunk \o (wire \o <<ln>>) = (chunk \o wire) \o <<ln>>
    BY <1>1, <1>2, ConcatAssociative
  <2> QED BY <1>1, <1>3, <2>2, <2>3
<1>4. CASE handle # "live"
  BY <1>1, <1>4 DEF inbound
<1> QED BY <1>3, <1>4

-----------------------------------------------------------------------------
(* The board.                                                               *)

(* It is running or dozing.                                                 *)
AtWork == Running \/ dpc = "doze"

LEMMA CountsStand ==
    ASSUME CountsInv, UNCHANGED hostVars, AtWork' /\ Connected' => AtWork /\ Connected,
           inbound' = inbound
    PROVE  CountsInv'
<1>1. UNCHANGED <<latched, expectedRun, hpc, cycle, pstate>> /\ Talks' = Talks
  BY DEF hostVars, runnerVars, protocolVars, sessionVars, roundVars, Talks
<1>2. Asked' = Asked
  BY DEF Asked
<1> QED BY <1>1, <1>2 DEF CountsInv, AtWork, RightCounts

LEMMA CountsGrow ==
    ASSUME CountsInv, UNCHANGED hostVars,
           NEW ln \in AnyLine, Emit(<<ln>>), UNCHANGED handle, SessionInv,
           /\ ln.tag = "COUNTS" /\ cycle = "first" => ln.run = Cardinality(Asked)
           /\ ln.tag \in SleepTags => AtWork /\ Connected
           /\ AtWork' /\ Connected' => (AtWork /\ Connected) \/ ln.tag = "COUNTS"
    PROVE  CountsInv'
<1>1. UNCHANGED <<latched, expectedRun, hpc, cycle, pstate, chunk, handle>>
      /\ Talks' = Talks /\ (Connected' <=> Connected)
  BY DEF hostVars, runnerVars, protocolVars, sessionVars, roundVars, Talks, Connected
<1>2. Asked' = Asked
  BY DEF Asked
<1>3. /\ inbound \in Seq(AnyLine)
      /\ IF handle = "live" THEN inbound' = inbound \o <<ln>> ELSE inbound' = inbound
  BY <1>1, LineArrives
<1>4. ASSUME cycle = "first", RightCounts(inbound) PROVE RightCounts(inbound)'
  <2>1. RightCounts(inbound')
    BY <1>3, <1>4, AddsCounts
  <2> QED BY <1>2, <2>1 DEF RightCounts
<1>5. ASSUME CountsFirst(inbound), ~latched PROVE CountsFirst(inbound')
  <2>1. ln.tag \in SleepTags => Says(inbound, "COUNTS")
    BY <1>5 DEF CountsInv, AtWork
  <2> QED BY <1>3, <1>5, <2>1, AddsCounts
<1>6. ASSUME Connected', AtWork' PROVE latched \/ Says(inbound', "COUNTS")
  <2>1. handle = "live"
    BY <1>1, <1>6 DEF Connected
  <2>2. \A tag : Says(inbound', tag) <=> Says(inbound, tag) \/ ln.tag = tag
    BY <1>3, <2>1, Adds
  <2> QED BY <1>1, <1>6, <2>2 DEF CountsInv, AtWork
<1> QED BY <1>1, <1>2, <1>4, <1>5, <1>6 DEF CountsInv, AtWork

LEMMA BoardLines ==
    \A tag \in {"READY", "ERROR", "FAIL", "BUSY", "SLEEP", "RESTART", "DONE"} :
        /\ Tagged(tag) \in AnyLine /\ Console(tag) \in AnyLine
        /\ Tagged(tag).tag = tag /\ Console(tag).tag = tag
BY DEF Tagged, Console, Line, NoName, AnyLine, DeviceTags, Tags, Crc

LEMMA CountsByBoard ==
    ASSUME CountsAssumed, RoundsIndInv, Steady, RoundsIndInv', ReadyInv, SkipInv, CountsInv,
           UNCHANGED <<session, hostVars>>, DeviceRuns \/ ReadyTimer \/ Faulty
    PROVE  CountsInv'
<1> USE DEF RoundsIndInv, RoundsInv
<1>0. ProgressAssumed /\ RoundsAssumed /\ SessionInv
  BY DEF CountsAssumed, ProgressAssumed
<1>1. /\ ~Crash /\ ~SilentReset /\ ~Reboot
      /\ ~ReceivePowerCommand /\ ~ReceiveIdleCommand /\ ~RunStandalone
  BY <1>0, NoSuchFaults, NoControls
<1>2. /\ UNCHANGED chunk /\ HostStays
      /\ UNCHANGED handle => (Connected' <=> Connected)
  BY BoardMoves DEF hostVars, runnerVars, HostStays, Connected, Talks
<1>3. Running => AtWork /\ Connected
  BY RunIsHeard DEF AtWork
<1>4. CASE BoardInit \/ ReadyTimer \/ ReceiveArgs \/ ReceiveBad \/ EndTest \/ Oversleep
           \/ PowerUp \/ Hang \/ Unhang
  <2>1. UNCHANGED <<handle, wire>>
    BY <1>4 DEF BoardInit, ReadyTimer, IntervalElapses, ReceiveArgs, ReceiveBad, EndTest,
       Oversleep, PowerUp, Hang, Unhang, linkVars
  <2>2. AtWork' => AtWork
    BY <1>4 DEF BoardInit, ReadyTimer, IntervalElapses, ReceiveArgs, ReceiveBad, Receives,
       EndTest, BodyDone, Oversleep, PowerUp, Boot, Hang, Unhang, AtWork, Running
  <2>3. inbound' = inbound
    BY <1>2, <2>1 DEF inbound
  <2> QED BY <1>2, <2>1, <2>2, <2>3, CountsStand
<1>5. CASE EmitReady \/ BoardInitFails \/ StartTest \/ FailAssertion \/ SignalBusy
           \/ FinishCycle \/ SignalSleep
  <2>1. PICK ln \in AnyLine :
           /\ Emit(<<ln>>) /\ ln.tag # "COUNTS"
           /\ ln.tag \in SleepTags => Running
    <3>1. CASE StartTest
      <4>1. PICK t \in Tests : Emit(<<Line("CASE:START", SuiteOf[t], NameOf[t], 0)>>)
        <5>1. todo \subseteq Tests
          BY DEF SessionInv, WireInv, FirmwareTypeOK
        <5> QED BY <3>1, <5>1 DEF StartTest
      <4> DEFINE ln == Line("CASE:START", SuiteOf[t], NameOf[t], 0)
      <4>2. ln \in AnyLine /\ ln.tag = "CASE:START"
        BY <1>0, RunLines DEF RoundsAssumed
      <4> HIDE DEF ln
      <4> QED BY <4>1, <4>2 DEF SleepTags, ln
    <3>2. CASE EmitReady \/ BoardInitFails \/ FailAssertion \/ SignalBusy \/ FinishCycle
      <4>1. \E tag \in {"READY", "ERROR", "FAIL", "BUSY", "DONE"} :
               Emit(<<Tagged(tag)>>) \/ Emit(<<Console(tag)>>)
        BY <3>2 DEF EmitReady, BoardInitFails, FailAssertion, SignalBusy, FinishCycle
      <4> QED BY <4>1, BoardLines DEF SleepTags
    <3>3. CASE SignalSleep
      <4>1. Running /\ \E tag \in {"SLEEP", "RESTART"} : Emit(<<Tagged(tag)>>)
        BY <3>3 DEF SignalSleep, BodyDone, Running
      <4> QED BY <4>1, BoardLines
    <3> QED BY <1>5, <3>1, <3>2, <3>3
  <2>2. UNCHANGED handle
    BY <1>5 DEF EmitReady, BoardInitFails, StartTest, FailAssertion, SignalBusy, FinishCycle,
       SignalSleep
  <2>3. AtWork' => AtWork
    BY <1>5 DEF EmitReady, BoardInitFails, StartTest, FailAssertion, SignalBusy, FinishCycle,
       SignalSleep, BodyDone, AtWork, Running
  <2> QED BY <1>0, <1>2, <1>3, <2>1, <2>2, <2>3, CountsGrow
<1>6. CASE ReceiveCommand
  <2> DEFINE msg == CommandOf(cycle)
             fl == CommandFlags(msg, AllArgs)
             n == CountBy(skip, EmptyEnv, msg, fl)
             ln == Line("COUNTS", NoName, NoName, n)
  <2>1. skip \in {StaticSkip, SkipOnce} /\ Emit(<<ln>>)
    BY <1>0, <1>6, WhatRuns
  <2>2. n \in Nat
    <3>1. env = EmptyEnv
      BY <1>0, <1>6, CommandFinds
    <3>2. CountBy(skip, env, msg, fl) \in Nat
      BY CountsAreNatural
    <3> QED BY <3>1, <3>2
  <2>3. cycle = "first" => n = Cardinality(Asked)
    <3> SUFFICES ASSUME cycle = "first" PROVE n = Cardinality(Asked)
      OBVIOUS
    <3>1. msg = InitialCommand
      BY DEF CommandOf
    <3> QED BY <2>1, <3>1, AskedIs
  <2> HIDE DEF n
  <2>4. ln \in AnyLine /\ ln.tag = "COUNTS" /\ ln.run = n
    BY <2>2 DEF Line, NoName, AnyLine, DeviceTags, Tags, Crc
  <2>5. UNCHANGED handle
    BY <1>6 DEF ReceiveCommand
  <2>6. ln.tag \notin SleepTags
    BY <2>4 DEF SleepTags
  <2> HIDE DEF ln
  <2> QED BY <1>0, <2>1, <2>3, <2>4, <2>5, <2>6, CountsGrow
<1>7. CASE GoDown \/ PowerLoss
  <2>1. PortDrops /\ dpc' = "off"
    BY <1>7 DEF GoDown, PowerLoss
  <2>2. ~AtWork' /\ inbound' = chunk
    BY <1>2, <2>1 DEF PortDrops, AtWork, Running, inbound
  <2>3. Asked' = Asked
    BY DEF Asked
  <2>4. /\ UNCHANGED <<latched, expectedRun, hpc, cycle, pstate>> /\ Talks' = Talks
    BY DEF hostVars, runnerVars, protocolVars, sessionVars, roundVars, Talks
  <2>5. /\ RightCounts(inbound) => RightCounts(chunk)
        /\ CountsFirst(inbound) => CountsFirst(chunk)
    BY LinesArrive, PrefixCounts DEF inbound
  <2>6. RightCounts(chunk) => RightCounts(inbound)'
    BY <2>2, <2>3 DEF RightCounts
  <2> QED BY <2>2, <2>3, <2>4, <2>5, <2>6 DEF CountsInv, AtWork
<1> QED BY <1>1, <1>4, <1>5, <1>6, <1>7 DEF DeviceRuns, Faulty

-----------------------------------------------------------------------------
(* The host.                                                                *)

LEMMA FeedLatches ==
    ASSUME NEW ln, Feed(ln), ln.crc # "bad"
    PROVE  /\ latched => latched' /\ expectedRun' = expectedRun
           /\ ~latched /\ latched' =>
                 pstate = "RUNNING" /\ ln.tag = "COUNTS" /\ expectedRun' = ln.run
           /\ pstate = "RUNNING" /\ ln.tag = "COUNTS" => latched'
           /\ pstate' = "RUNNING" => pstate = "RUNNING"
           /\ pstate' = "SLEEPING" =>
                 pstate = "SLEEPING" \/ (pstate = "RUNNING" /\ ln.tag \in SleepTags)
<1>1. CASE FeedCounts(ln)
  <2>1. /\ pstate = "RUNNING" /\ pstate' = pstate /\ ln.tag = "COUNTS"
        /\ expectedRun' = IF latched THEN expectedRun ELSE ln.run
        /\ latched' = TRUE
    BY <1>1 DEF FeedCounts, Heard
  <2> QED BY <2>1
<1>2. CASE ~FeedCounts(ln)
  <2>1. UNCHANGED <<latched, expectedRun>>
    BY <1>2 DEF Feed, FeedReadyWhileWaiting, FeedArgs, FeedError, FeedReadyWhileRunning,
       FeedCaseStart, FeedSleep, FeedBusy, FeedDone, FeedIgnored, protocolVars, sessionVars
  <2>2. ~(pstate = "RUNNING" /\ ln.tag = "COUNTS")
    BY <1>2 DEF Feed, FeedReadyWhileWaiting, FeedArgs, FeedError, FeedReadyWhileRunning,
       FeedCaseStart, FeedSleep, FeedBusy, FeedDone, FeedIgnored, ActsOn, Heard
  <2>3. /\ pstate' = "RUNNING" => pstate = "RUNNING"
        /\ pstate' = "SLEEPING" =>
              pstate = "SLEEPING" \/ (pstate = "RUNNING" /\ ln.tag \in SleepTags)
    BY <1>2 DEF Feed, FeedReadyWhileWaiting, FeedArgs, FeedError, FeedReadyWhileRunning,
       FeedCaseStart, FeedSleep, FeedBusy, FeedDone, FeedIgnored, protocolVars, Heard, SleepTags
  <2>4. latched' <=> latched
    BY <2>1, Zenon
  <2> QED BY <2>1, <2>2, <2>3, <2>4
<1> QED BY <1>1, <1>2

LEMMA CountsByFeed ==
    ASSUME RoundsAssumed, RoundsIndInv, CountsInv, FeedLine, UNCHANGED deviceVars
    PROVE  CountsInv'
<1> USE DEF RoundsIndInv, RoundsInv
<1> DEFINE ln == Head(inbound)
           rest == Tail(inbound)
<1>1. /\ UNCHANGED <<hpc, cycle, handle>> /\ hpc \in {"feed", "drainFeed"}
      /\ inbound \in Seq(AnyLine) /\ inbound # <<>> /\ inbound' = rest
      /\ Feed(ln) /\ ln.crc # "bad"
  BY FeedsOne
<1>2. UNCHANGED dpc /\ Talks' = Talks /\ Asked' = Asked
  BY <1>1 DEF deviceVars, Talks, Asked
<1>3. /\ RightCounts(inbound) => RightCounts(rest)
                                 /\ (ln.tag = "COUNTS" => ln.run = Cardinality(Asked))
      /\ CountsFirst(inbound) => ln.tag \notin SleepTags
      /\ CountsFirst(inbound) /\ ln.tag # "COUNTS" => CountsFirst(rest)
      /\ \A tag : Says(inbound, tag) <=> ln.tag = tag \/ Says(rest, tag)
  BY <1>1, TakesCounts, Takes
<1>4. pstate = "RUNNING" => Talks
  BY <1>1 DEF PlaceInv, Talks
<1>5. /\ latched => latched' /\ expectedRun' = expectedRun
      /\ ~latched /\ latched' =>
            pstate = "RUNNING" /\ ln.tag = "COUNTS" /\ expectedRun' = ln.run
      /\ pstate = "RUNNING" /\ ln.tag = "COUNTS" => latched'
      /\ pstate' = "RUNNING" => pstate = "RUNNING"
      /\ pstate' = "SLEEPING" =>
            pstate = "SLEEPING" \/ (pstate = "RUNNING" /\ ln.tag \in SleepTags)
  BY <1>1, FeedLatches
<1>6. RightCounts(rest) => RightCounts(inbound)'
  BY <1>1, <1>2 DEF RightCounts
<1> HIDE DEF ln, rest
<1>7. latched' => expectedRun' = Cardinality(Asked)'
  <2>1. ~latched => cycle = "first"
    BY DEF CountsInv
  <2> QED BY <1>2, <1>3, <1>4, <1>5, <2>1 DEF CountsInv
<1>8. cycle' # "first" \/ hpc' = "wakeWait" \/ pstate' = "SLEEPING" => latched'
  <2>1. pstate = "RUNNING" /\ ln.tag \in SleepTags => latched
    BY <1>3, <1>4 DEF CountsInv
  <2> QED BY <1>1, <1>5, <2>1 DEF CountsInv
<1>9. ASSUME Talks', pstate' = "RUNNING"
      PROVE  /\ cycle' = "first" => RightCounts(inbound)'
             /\ latched' \/ CountsFirst(inbound')
  BY <1>1, <1>3, <1>4, <1>5, <1>6, <1>9 DEF CountsInv
<1>10. ASSUME Connected', Running' \/ dpc' = "doze"
       PROVE  latched' \/ Says(inbound', "COUNTS")
  <2>1. Connected /\ (Running \/ dpc = "doze")
    BY <1>1, <1>2, <1>5, <1>10 DEF Connected, Talks, Running
  <2> QED BY <1>1, <1>3, <1>5, <2>1 DEF CountsInv, Connected
<1> QED BY <1>7, <1>8, <1>9, <1>10 DEF CountsInv

LEMMA LatchStands ==
    ASSUME HostMoves, ~FeedLine
    PROVE  UNCHANGED <<latched, expectedRun>>
<1> USE DEF protocolVars, sessionVars
<1>1. CASE FirstOpen \/ LaterOpen \/ TimesOut \/ BusyIsOver \/ WakeWaitOver \/ LingerEnds
           \/ OpenGivesUp
  BY <1>1 DEF FirstOpen, LaterOpen, OpenPort, Reset, TimesOut, ReadyTimeout, HangTimeout,
     BusyIsOver, BusyExpires, WakeWaitOver, StartPhaseTwo, ResetForWake, LingerEnds,
     LingerOver, OpenGivesUp, OpenFails
<1>2. CASE HostSteps
  BY <1>2 DEF HostSteps, ReadChunk, ReadInto, SendCommand, CommandSent, SendRaises, SeesDone,
     SeesError, SeesSleep, SeesNothing, LeavesForOldCrash, PortGoneWhileRunning, ReadRaises,
     DrainChunk, DrainCheck, DrainEnds, PostTest, AwaitWake, GiveUp, StartResume,
     NoMoreCycles, Finish
<1> QED BY <1>1, <1>2 DEF HostMoves

(* The other steps of the host leave the count alone.                       *)
LEMMA CountsByHost ==
    ASSUME RoundsAssumed, RoundsIndInv, Steady, CountsInv, HostMoves, UNCHANGED session
    PROVE  CountsInv'
<1> USE DEF RoundsIndInv, RoundsInv
<1>0. Asked' = Asked
  BY DEF Asked
<1>1. CASE FirstOpen \/ LaterOpen
  <2>1. /\ UNCHANGED <<latched, expectedRun, cycle>> /\ hpc' = "read"
        /\ pstate' = "WAITING_FOR_READY"
    BY <1>1 DEF FirstOpen, LaterOpen, OpenPort, Reset, sessionVars, roundVars
  <2> QED BY <1>0, <2>1 DEF CountsInv, Connected
<1> SUFFICES ASSUME ~FirstOpen, ~LaterOpen PROVE CountsInv'
  BY <1>1
<1>2. UNCHANGED <<deviceVars, dpc>>
  BY HostLeavesBoard DEF deviceVars
<1>3. CASE FeedLine
  BY <1>2, <1>3, CountsByFeed
<1> SUFFICES ASSUME ~FeedLine PROVE CountsInv'
  BY <1>3
<1>6. UNCHANGED <<latched, expectedRun>> /\ (latched' <=> latched)
  <2>1. UNCHANGED <<latched, expectedRun>>
    BY LatchStands
  <2>2. latched' <=> latched
    BY <2>1, Zenon
  <2> QED BY <2>1, <2>2
<1>7. CASE Turns \/ ReadChunk \/ DrainChunk
  <2>1. /\ UNCHANGED <<cycle, pstate, handle>> /\ inbound' = inbound
        /\ hpc' = "wakeWait" => hpc = "wakeWait"
        /\ Talks' /\ pstate = "RUNNING" => Talks
    <3>1. CASE Turns
      <4>1. UNCHANGED <<cycle, pstate, handle, chunk, wire>>
        BY <3>1 DEF Turns, linkSeen, protocolSeen, roundSeen
      <4> QED BY <3>1, <4>1 DEF Turns, inbound, Talks
    <3>2. CASE ReadChunk \/ DrainChunk
      BY <3>2, ReadKeepsOrder DEF ReadChunk, DrainChunk, ReadInto, protocolVars, roundVars,
         Talks
    <3> QED BY <1>7, <3>1, <3>2
  <2> QED BY <1>0, <1>2, <1>6, <2>1 DEF CountsInv, Connected, Running, RightCounts
<1>4. CASE SendCommand
  <2>1. /\ UNCHANGED <<cycle, handle, chunk, wire>>
        /\ hpc = "feed" /\ hpc' # "wakeWait" /\ pstate = "READY" /\ pstate' = "RUNNING"
        /\ handle = "live"
    BY <1>4 DEF SendCommand, Checking, CommandSent, LeaveIfCrashed, roundVars
  <2>2. inbound' = <<>> /\ dpc = "wait"
    BY <2>1 DEF AskedInv, Talks, inbound
  <2>3. RightCounts(inbound)' /\ CountsFirst(inbound')
    BY <2>2 DEF RightCounts, CountsFirst
  <2> QED BY <1>0, <1>2, <1>6, <2>1, <2>2, <2>3 DEF CountsInv, Running
<1>5. CASE SendRaises \/ ReadRaises \/ OpenFails
           \/ AwaitWake \/ GiveUp \/ StartPhaseTwo \/ StartResume \/ Finish
           \/ PostTest \/ LingerEnds
  <2>1. hpc' \in {"open", "wakeWait", "finish", "over", "linger", "loop"}
    BY <1>5 DEF SendRaises, ReadRaises, OpenFails, Raise, AwaitWake, GiveUp, StartPhaseTwo,
       StartResume, Finish, PostTest, LingerEnds, LingerOver
  <2>2. /\ hpc' = "wakeWait" => pstate = "SLEEPING"
        /\ pstate' = "SLEEPING" => pstate = "SLEEPING"
        /\ cycle' # "first" => cycle # "first" \/ hpc = "wakeWait"
    BY <1>5 DEF SendRaises, ReadRaises, OpenFails, Reset, Raise, AwaitWake, GiveUp,
       StartPhaseTwo, ResetForWake, StartResume, AfterPhaseTwo, Finish, PostTest, LingerEnds,
       LingerOver, protocolVars, roundVars
  <2> QED BY <1>0, <1>6, <2>1, <2>2 DEF CountsInv, Talks, Connected
<1> QED BY <1>4, <1>5, <1>7, HostActs
-----------------------------------------------------------------------------
LEMMA CountsStep ==
    ASSUME CountsAssumed, RoundsIndInv, Steady, RoundsIndInv', ReadyInv, SkipInv, CountsInv,
           [Next]_vars
    PROVE  CountsInv'
<1>0. RoundsAssumed
  BY DEF CountsAssumed, ProgressAssumed
<1>1. CASE HostMoves /\ UNCHANGED session
  BY <1>0, <1>1, CountsByHost
<1>2. CASE UNCHANGED <<session, hostVars>> /\ (DeviceRuns \/ ReadyTimer \/ Faulty)
  BY <1>2, CountsByBoard
<1>3. CASE (GarbleLine \/ GarbleMessage) /\ UNCHANGED <<session, hostVars, deviceVars>>
  <2>1. GarbleMessage
    BY <1>0, <1>3, NoSuchFaults
  <2>2. UNCHANGED <<chunk, handle, wire, dpc, hpc, pstate>>
    BY <1>3, <2>1 DEF GarbleMessage, deviceVars, hostVars, runnerVars, protocolVars
  <2>3. inbound' = inbound /\ AtWork' = AtWork /\ Connected' = Connected
    BY <2>2 DEF inbound, AtWork, Running, Connected, Talks
  <2> QED BY <1>3, <2>3, CountsStand
<1>4. CASE NewSession
  <2>1. /\ latched' = FALSE /\ cycle' = "first" /\ hpc' = "open"
        /\ pstate' = "WAITING_FOR_READY"
    BY <1>4 DEF NewSession, Invoke, ProtocolNew
  <2>2. ~Talks' /\ ~Connected'
    BY <2>1 DEF Talks, Connected
  <2> QED BY <2>1, <2>2 DEF CountsInv
<1>5. CASE UNCHANGED vars
  <2>1. UNCHANGED <<hostVars, chunk, handle, wire, dpc, hpc, pstate>>
    BY <1>5 DEF vars, deviceVars, hostVars, runnerVars, protocolVars, linkVars
  <2>2. inbound' = inbound /\ AtWork' = AtWork /\ Connected' = Connected
    BY <2>1 DEF inbound, AtWork, Running, Connected, Talks
  <2> QED BY <2>1, <2>2, CountsStand
<1> QED BY <1>1, <1>2, <1>3, <1>4, <1>5 DEF Next, DeviceMoves, Mishap

ProgressIndInv == RoundsIndInv /\ ProgressInv

LEMMA ProgressInitially == RoundsAssumed /\ Init => ProgressIndInv
<1> SUFFICES ASSUME RoundsAssumed, Init PROVE ProgressIndInv
  OBVIOUS
<1>1. /\ dpc = "init" /\ due /\ env = EmptyEnv /\ hpc = "open" /\ cycle = "first"
      /\ skip = StaticSkip /\ pstate = "WAITING_FOR_READY" /\ ~latched
  BY DEF Init, DeviceInit, RunnerInit, ProtocolInit
<1>2. ReadyInv /\ SkipInv /\ CountsInv
  BY <1>1 DEF ReadyInv, SkipInv, CountsInv, Connected, Talks
<1> QED BY <1>2, RoundsInitially DEF ProgressInv, ProgressIndInv

LEMMA ProgressStep ==
    ASSUME CountsAssumed, Steady, ProgressIndInv, [Next]_vars
    PROVE  ProgressIndInv'
<1>1. /\ ProgressAssumed /\ RoundsAssumed /\ RoundsIndInv /\ ReadyInv /\ SkipInv
      /\ CountsInv
  BY DEF CountsAssumed, ProgressAssumed, ProgressIndInv, ProgressInv
<1>2. RoundsIndInv'
  BY <1>1, RoundsStep
<1>3. ReadyInv' /\ SkipInv' /\ CountsInv'
  BY <1>1, <1>2, ReadyStep, SkipStep, CountsStep
<1> QED BY <1>2, <1>3 DEF ProgressIndInv, ProgressInv

(* What the board finds, skips and counts in every cycle is what the host   *)
(* meant: ProgressInv is an invariant of every session whose filters the    *)
(* counter of the board understands.                                        *)
THEOREM ProgressInductive ==
    ASSUME CountsAssumed, MildFaults
    PROVE  Spec => []ProgressInv
<1> DEFINE Safe == ProgressIndInv /\ dpc # "hung"
<1>1. CountsAssumed /\ RoundsAssumed /\ MildFaults
  BY DEF CountsAssumed, ProgressAssumed
<1>2. Init => Safe
  BY <1>1, ProgressInitially DEF Init, DeviceInit
<1>3. Safe /\ [Next]_vars => Safe'
  BY <1>1, ProgressStep, MildIsSteady
<1>4. Safe => ProgressInv
  BY DEF ProgressIndInv
<1> HIDE DEF Safe
<1> QED BY <1>2, <1>3, <1>4, PTL DEF Spec

(* The total latched by _check_for_under_run() is that of all the tests the *)
(* session asked for, whichever COUNTS was read first and however often the *)
(* command had to be sent.                                                  *)
THEOREM ExpectedIsTheWhole ==
    ASSUME CountsAssumed, MildFaults
    PROVE  Spec => []ExpectedIsAsked
<1>1. ProgressInv => ExpectedIsAsked
  BY DEF ProgressInv, CountsInv, ExpectedIsAsked
<1> QED BY <1>1, ProgressInductive, PTL
=============================================================================
