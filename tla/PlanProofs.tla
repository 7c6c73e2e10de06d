----------------------------- MODULE PlanProofs -----------------------------
(***************************************************************************)
(* That PlanInv and ReasonInv are inductive, for every registry and number  *)
(* of tests, and what follows: a session implements TestPlan, a green run   *)
(* is earned, a failed assertion reaches the verdict, and a red run has a   *)
(* reason.                                                                  *)
(*                                                                          *)
(* Each part of PlanInv has its own argument: the tests are taken up in     *)
(* order (OrderStep), the handle goes stale only under a host that knows    *)
(* why (SleepStep), a cycle is left for one of three reasons (CycleStep),   *)
(* and so is a session (EndStep), and no failure is left unread             *)
(* (FailedStep).  The board's side of OrderInv needs what the host made of  *)
(* the cycle before, and the host's side of CycleInv what the board ran.    *)
(*                                                                          *)
(* ReasonInv counts: what has begun was seen or is about to be (SeenStep),  *)
(* a retry was used up for a sleep that happened (RetriedStep), and an      *)
(* error case is of something that happened (BlamedStep).  All of it holds  *)
(* until the first fault, whatever the faults are (BlamelessStep).          *)
(*                                                                          *)
(* A test that hangs or crashes takes the session out of PlanInv, but then  *)
(* the verdict is going to be red (StoryStep).                              *)
(***************************************************************************)
EXTENDS ProgressProofs, Verdict

-----------------------------------------------------------------------------
(* What the commands run of what was asked for.                             *)

LEMMA WhatIsAsked ==
    ASSUME ProgressAssumed
    PROVE  /\ Asked = RunBy(StaticSkip, EmptyEnv, InitialCommand, AllArgs)
           /\ Asked \subseteq Whole /\ Whole \subseteq Tests
           /\ \A t \in Asked : \A u \in Whole : t < u => u \in Asked
<1>0. RoundsAssumed
  BY DEF ProgressAssumed
<1>1. /\ Asked = RunBy(StaticSkip, EmptyEnv, InitialCommand, AllArgs)
      /\ InitialCommand.kind \in {"RUN", "RUN_ALL", "RESUME_AFTER"}
  BY InitialIs DEF Asked
<1>2. RunCommand.kind # "RESUME_AFTER" /\ NothingUnskips(AllArgs)
  BY <1>0, ArgsArePlain DEF RunCommand, Message
<1>3. Whole \subseteq Tests /\ Asked \subseteq Tests
  BY DEF Whole, Asked, RunBy, DoctestSelects
<1> DEFINE all == AllArgs
           run == RunCommand
           msg == InitialCommand
           none == EmptyEnv
<1>4. CASE msg.kind # "RESUME_AFTER"
  <2>1. SkipForCycle(StaticSkip, none, msg, all) = SkipForCycle(StaticSkip, none, run, all)
    BY <1>2, <1>4 DEF SkipForCycle
  <2>2. Asked = Whole
    BY <1>1, <2>1 DEF Whole, RunBy
  <2> QED BY <1>1, <1>3, <2>2
<1>5. CASE msg.kind = "RESUME_AFTER"
  <2>1. run.kind # "RESUME_AFTER" /\ NothingUnskips(all)
    BY <1>2
  <2>2. Asked = RunBy(StaticSkip, none, msg, all) /\ Whole = RunBy(StaticSkip, none, run, all)
    BY <1>1 DEF Whole
  <2> HIDE DEF all, run, none, msg
  <2>3. \A t : t \in RunBy(StaticSkip, none, msg, all)
                 <=> /\ t \in RunBy(StaticSkip, none, run, all)
                     /\ \A p \in FirstNamed(msg.name) : t > p
    BY <1>5, <2>1, RunsAfterResume
  <2>4. \A t : t \in Asked <=> t \in Whole /\ \A p \in FirstNamed(msg.name) : t > p
    BY <2>2, <2>3
  <2>5. FirstNamed(msg.name) \subseteq Nat /\ Whole \subseteq Nat
    BY <1>3, TestsAreNumbers DEF FirstNamed
  <2>6. ASSUME NEW t \in Asked, NEW u \in Whole, t < u PROVE u \in Asked
    <3>1. t \in Nat /\ u \in Nat /\ \A p \in FirstNamed(msg.name) : p \in Nat /\ t > p
      BY <2>4, <2>5
    <3>2. \A p \in FirstNamed(msg.name) : u > p
      BY <2>6, <3>1
    <3> QED BY <2>4, <3>2
  <2>7. Asked \subseteq Whole
    BY <2>4
  <2> QED BY <1>1, <1>3, <2>6, <2>7 DEF all, none, msg
<1> QED BY <1>1, <1>4, <1>5

LEMMA OneOfName ==
    ASSUME RoundsAssumed, NEW t \in Tests
    PROVE  /\ FirstNamed(NameOf[t]) = {t}
           /\ \A u \in Tests : NameOf[u] = NameOf[t] => u = t
<1>1. \A u \in Tests : NameOf[u] = NameOf[t] => u = t
  BY DEF RoundsAssumed
<1>2. t \in Nat /\ Tests = 1..N /\ N \in Nat
  BY TestsAreNumbers, RegistryAssumption DEF Tests
<1>3. \A q \in 1..(t - 1) : q \in Tests /\ q # t
  BY <1>2
<1> QED BY <1>1, <1>3 DEF FirstNamed

LEMMA AskedAreNumbers ==
    ASSUME ProgressAssumed
    PROVE  Asked \subseteq Tests /\ Asked \subseteq Nat /\ Tests \subseteq Nat
BY WhatIsAsked, TestsAreNumbers

(* A command leaves out nothing that has not ended, but what comes after    *)
(* the test that sleeps.                                                    *)
LEMMA CommandRuns ==
    ASSUME ProgressAssumed, RoundsIndInv, ReadyInv, SkipInv, OrderInv, ReceiveCommand,
           cycle = "resume" => Through(target)
    PROVE  /\ todo' \subseteq Asked
           /\ \A w \in Asked :
                 \/ w \in ended \/ w \in todo'
                 \/ PhaseTwo /\ \E t \in Tests : NameOf[t] = target /\ t < w
<1> USE DEF RoundsIndInv, RoundsInv
<1>0. RoundsAssumed
  BY DEF ProgressAssumed
<1> DEFINE msg == CommandOf(cycle)
           fl == CommandFlags(msg, AllArgs)
<1>1. skip \in {StaticSkip, SkipOnce} /\ todo' = RunBy(skip, EmptyEnv, msg, fl)
  BY WhatRuns
<1>2. Fresh /\ (cycle \in {"first", "resume"} \/ PhaseTwo)
  BY <1>0, CommandArrives DEF SessionInv, HostInv, RunnerTypeOK, Cycles, PhaseTwo
<1>3. /\ Asked = RunBy(StaticSkip, EmptyEnv, InitialCommand, AllArgs)
      /\ Asked \subseteq Whole /\ Whole \subseteq Tests
      /\ \A t \in Asked : \A u \in Whole : t < u => u \in Asked
      /\ Asked \subseteq Nat /\ Tests \subseteq Nat
  BY WhatIsAsked, AskedAreNumbers
<1>4. CASE cycle = "first"
  <2>1. fl = AllArgs /\ msg = InitialCommand
    BY <1>4, InitialIs DEF CommandOf
  <2>2. RunBy(skip, EmptyEnv, InitialCommand, AllArgs)
          = RunBy(StaticSkip, EmptyEnv, InitialCommand, AllArgs)
    BY <1>0, <1>1, RunsAsBooted
  <2>3. todo' = Asked
    BY <1>1, <1>3, <2>1, <2>2
  <2> QED BY <2>3
<1>5. ASSUME cycle # "first"
      PROVE  \E t \in begun : t \in Tests /\ t \in Asked /\ NameOf[t] = target /\ target # ""
  <2>1. PICK t \in begun : NameOf[t] = target
    BY <1>5 DEF OrderInv
  <2>2. t \in Asked /\ t \in Tests
    BY <1>3, <2>1 DEF OrderInv
  <2>3. target # ""
    BY <1>0, <2>1, <2>2, NameIsNotEmpty
  <2> QED BY <2>1, <2>2, <2>3
<1>6. CASE cycle = "resume"
  <2>1. PICK t \in begun : t \in Tests /\ t \in Asked /\ NameOf[t] = target /\ target # ""
    BY <1>5, <1>6
  <2>2. FirstNamed(target) = {t}
    BY <1>0, <2>1, OneOfName
  <2>3. todo' = {u \in Whole : \A p \in FirstNamed(target) : u > p}
    BY <1>0, <1>1, <1>6, <2>1, ResumeRuns
  <2>4. todo' = {u \in Whole : u > t}
    BY <2>2, <2>3
  <2> HIDE DEF msg, fl
  <2>5. Whole \subseteq Nat /\ t \in Nat
    BY <1>3, <2>1
  <2>6. todo' \subseteq Asked
    BY <1>3, <2>1, <2>4, <2>5
  <2>7. \A w \in Asked : w <= t => w \in ended
    BY <1>6, <2>1 DEF Through
  <2>8. \A w \in Asked : w \in ended \/ w \in todo'
    BY <1>3, <2>4, <2>5, <2>7
  <2> QED BY <2>6, <2>8
<1>7. CASE PhaseTwo
  <2>0. cycle # "first"
    BY <1>7 DEF PhaseTwo
  <2>1. PICK t \in begun : t \in Tests /\ t \in Asked /\ NameOf[t] = target /\ target # ""
    BY <1>5, <2>0
  <2>2. \A u \in Tests : NameOf[u] = target => u = t
    BY <1>0, <2>1, OneOfName
  <2>3. /\ \A u \in Whole : NameOf[u] = target => u \in todo'
        /\ \A u \in todo' : NameOf[u] = target
    BY <1>0, <1>1, <1>7, <2>1, PhaseTwoRuns
  <2>4. todo' \subseteq Tests
    BY <1>1 DEF RunBy, DoctestSelects
  <2> HIDE DEF msg, fl
  <2>5. todo' = {t}
    BY <1>3, <2>1, <2>2, <2>3, <2>4
  <2>6. \A w \in Asked : w < t => w \in ended
    BY <2>1 DEF OrderInv
  <2>7. ASSUME NEW w \in Asked PROVE w < t \/ w = t \/ t < w
    <3>1. w \in Nat /\ t \in Nat
      BY <1>3, <2>1
    <3> QED BY <3>1
  <2> QED BY <1>7, <2>1, <2>5, <2>6, <2>7
<1> QED BY <1>2, <1>4, <1>6, <1>7

-----------------------------------------------------------------------------
(* What has been run: the tests are taken up in order.                      *)

LEMMA OrderStands ==
    ASSUME ProgressAssumed, OrderInv, UNCHANGED <<begun, ended, todo, cur>>,
           Running' => Running /\ (dpc' # "cycle" <=> dpc # "cycle")
                       /\ UNCHANGED <<cycle, target>>,
           cycle' # "first" \/ hpc' = "wakeWait" =>
              \E t \in begun : NameOf[t] = target'
    PROVE  OrderInv'
<1>1. Asked' = Asked
  BY DEF Asked
<1>2. Running' => PhaseTwo' = PhaseTwo
  BY DEF PhaseTwo
<1> QED BY <1>1, <1>2 DEF OrderInv

LEMMA OrderByCommand ==
    ASSUME ProgressAssumed, RoundsIndInv, ReadyInv, SkipInv, OrderInv, ReceiveCommand,
           HostStays, cycle = "resume" => Through(target)
    PROVE  OrderInv'
<1>1. /\ todo' \subseteq Asked
      /\ \A w \in Asked :
            \/ w \in ended \/ w \in todo'
            \/ PhaseTwo /\ \E t \in Tests : NameOf[t] = target /\ t < w
  BY CommandRuns
<1>2. /\ UNCHANGED <<begun, ended, cycle, target, hpc>> /\ Asked' = Asked
      /\ PhaseTwo' = PhaseTwo
  BY DEF ReceiveCommand, historyVars, Asked, HostStays, PhaseTwo
<1> QED BY <1>1, <1>2 DEF OrderInv

LEMMA OrderByStart ==
    ASSUME ProgressAssumed, RoundsIndInv, OrderInv, StartTest, HostStays
    PROVE  OrderInv'
<1> USE DEF RoundsIndInv, RoundsInv
<1>0. RoundsAssumed
  BY DEF ProgressAssumed
<1>1. PICK t \in todo : /\ \A u \in todo : t <= u
                        /\ todo' = todo \ {t} /\ cur' = t /\ begun' = begun \cup {t}
  BY DEF StartTest
<1>2. /\ dpc = "cycle" /\ dpc' = "test" /\ UNCHANGED <<ended, cycle, target, hpc>>
      /\ Asked' = Asked /\ PhaseTwo' = PhaseTwo
  BY DEF StartTest, Asked, HostStays, PhaseTwo
<1>3. Running /\ t \in Asked /\ todo \subseteq Asked
  BY <1>1, <1>2 DEF Running, OrderInv
<1>4. Asked \subseteq Tests /\ Asked \subseteq Nat /\ Tests \subseteq Nat
  BY AskedAreNumbers
<1>5. PhaseTwo => NameOf[t] = target
  BY <1>1, <1>3 DEF RunInv, MayRun
<1>6. ASSUME NEW w \in Asked, w < t PROVE w \in ended
  <2>1. w \in Nat /\ t \in Nat /\ t \in Tests
    BY <1>3, <1>4, <1>6
  <2>2. w \notin todo
    BY <1>1, <1>6, <2>1
  <2>3. \/ w \in ended
        \/ PhaseTwo /\ \E s \in Tests : NameOf[s] = target /\ s < w
    BY <1>2, <1>3, <2>2 DEF OrderInv
  <2>4. ASSUME PhaseTwo, NEW s \in Tests, NameOf[s] = target, s < w PROVE FALSE
    <3>1. s = t
      BY <1>0, <1>5, <2>1, <2>4, OneOfName
    <3> QED BY <1>6, <2>1, <2>4, <3>1
  <2> QED BY <2>3, <2>4
<1>7. \A s \in begun' : \A w \in Asked : w < s => w \in ended
  BY <1>1, <1>6 DEF OrderInv
<1>8. \A w \in Asked :
          \/ w \in ended \/ w \in todo' \/ w = cur'
          \/ PhaseTwo /\ \E s \in Tests : NameOf[s] = target /\ s < w
  BY <1>1, <1>2, <1>3 DEF OrderInv
<1>9. begun' \subseteq Asked /\ todo' \subseteq Asked
  BY <1>1, <1>3 DEF OrderInv
<1>10. cycle' # "first" \/ hpc' = "wakeWait" => \E s \in begun' : NameOf[s] = target'
  BY <1>1, <1>2 DEF OrderInv
<1> QED BY <1>2, <1>7, <1>8, <1>9, <1>10 DEF OrderInv

LEMMA OrderByEnd ==
    ASSUME ProgressAssumed, OrderInv, EndTest, HostStays
    PROVE  OrderInv'
<1>1. /\ UNCHANGED <<begun, todo, cycle, target, hpc>> /\ Asked' = Asked
      /\ PhaseTwo' = PhaseTwo
      /\ Running /\ dpc' = "cycle" /\ ended' = ended \cup {cur}
  BY DEF EndTest, BodyDone, Asked, HostStays, PhaseTwo, Running
<1> QED BY <1>1 DEF OrderInv

LEMMA OrderByBoard ==
    ASSUME ProgressAssumed, RoundsIndInv, Steady, ReadyInv, SkipInv, OrderInv,
           HostStays,
           dpc = "wait" /\ Connected /\ cycle = "resume" => Through(target),
           DeviceRuns \/ ReadyTimer \/ Faulty
    PROVE  OrderInv'
<1>0. RoundsAssumed
  BY DEF ProgressAssumed
<1>1. /\ ~Crash /\ ~SilentReset /\ ~Reboot
      /\ ~ReceivePowerCommand /\ ~ReceiveIdleCommand /\ ~RunStandalone
  BY <1>0, NoSuchFaults, NoControls
<1>2. CASE ReceiveCommand
  <2>1. Connected /\ dpc = "wait"
    BY <1>0, <1>2, CommandArrives
  <2> QED BY <1>2, <2>1, OrderByCommand
<1>3. CASE StartTest \/ EndTest
  BY <1>3, OrderByStart, OrderByEnd
<1> SUFFICES ASSUME ~ReceiveCommand, ~StartTest, ~EndTest PROVE OrderInv'
  BY <1>2, <1>3
<1>4. UNCHANGED <<begun, ended>>
  BY <1>1 DEF DeviceRuns, Faulty, BoardInit, EmitReady, ReceiveArgs, ReceiveBad,
     FailAssertion, SignalBusy, SignalSleep, GoDown, FinishCycle, BoardInitFails, Hang,
     Unhang, PowerLoss, Oversleep, PowerUp, Boot, ReadyTimer, IntervalElapses, historyVars
<1>5. Running' => Running /\ (dpc' # "cycle" <=> dpc # "cycle")
  BY <1>1 DEF DeviceRuns, Faulty, BoardInit, EmitReady, ReceiveArgs, ReceiveBad, Receives,
     FailAssertion, SignalBusy, SignalSleep, GoDown, FinishCycle, BoardInitFails, Hang,
     Unhang, PowerLoss, Oversleep, PowerUp, Boot, ReadyTimer, IntervalElapses, Running
<1>6. PowerUp \/ UNCHANGED <<todo, cur>>
  BY <1>1 DEF DeviceRuns, Faulty, BoardInit, EmitReady, ReceiveArgs, ReceiveBad,
     FailAssertion, SignalBusy, SignalSleep, GoDown, FinishCycle, BoardInitFails, Hang,
     Unhang, PowerLoss, Oversleep, ReadyTimer, IntervalElapses, cycleVars
<1>7. UNCHANGED <<cycle, target, hpc>>
  BY DEF HostStays
<1>8. CASE PowerUp
  <2>1. ~Running' /\ Asked' = Asked
    BY <1>8 DEF PowerUp, Boot, Running, Asked
  <2> QED BY <1>4, <1>7, <2>1 DEF OrderInv
<1>9. CASE UNCHANGED <<todo, cur>>
  BY <1>4, <1>5, <1>7, <1>9, OrderStands DEF OrderInv
<1> QED BY <1>6, <1>8, <1>9

LEMMA OrderByHost ==
    ASSUME ProgressAssumed, RoundsIndInv, Steady, RoundsIndInv', OrderInv, HostMoves,
           UNCHANGED session
    PROVE  OrderInv'
<1> USE DEF RoundsIndInv, RoundsInv
<1>0. Asked' = Asked
  BY DEF Asked
<1>1. CASE FirstOpen \/ LaterOpen
  <2>1. /\ hpc' = "read" /\ pstate' = "WAITING_FOR_READY" /\ UNCHANGED <<cycle, target>>
        /\ UNCHANGED <<begun, ended>>
    BY <1>1 DEF FirstOpen, LaterOpen, OpenPort, Reset, roundVars, Boot, deviceVars, historyVars
  <2>2. ~Running'
    BY <2>1 DEF PlaceInv, Connected
  <2> QED BY <1>0, <2>1, <2>2 DEF OrderInv
<1> SUFFICES ASSUME ~FirstOpen, ~LaterOpen PROVE OrderInv'
  BY <1>1
<1>2. UNCHANGED <<begun, ended, todo, cur, dpc>> /\ Running' = Running
  BY HostLeavesBoard DEF deviceVars, historyVars, cycleVars, Running
<1>3. CASE \/ Turns \/ Finish \/ GiveUp
           \/ ReadChunk \/ DrainChunk \/ FeedLine \/ SendCommand
           \/ PostTest \/ LingerEnds
  <2>1. UNCHANGED <<cycle, target>> /\ (hpc' = "wakeWait" => hpc = "wakeWait")
    BY <1>3 DEF Turns, roundSeen, Finish, GiveUp, ReadChunk, DrainChunk, ReadInto, FeedLine,
       SendCommand, Checking, LeaveIfCrashed, PostTest, LingerEnds, LingerOver, roundVars
  <2> QED BY <1>2, <2>1, OrderStands DEF OrderInv
<1>4. CASE SendRaises \/ ReadRaises \/ OpenFails \/ StartPhaseTwo \/ StartResume
  <2>1. /\ UNCHANGED target /\ hpc' # "wakeWait"
        /\ cycle' # "first" => cycle # "first" \/ hpc = "wakeWait"
        /\ hpc \in {"loop", "open", "wakeWait"} \/ handle = "stale"
    BY <1>4 DEF SendRaises, ReadRaises, OpenFails, Raise, StartPhaseTwo, StartResume,
       AfterPhaseTwo, roundVars
  <2>2. ~Running'
    BY <1>2, <2>1 DEF PlaceInv, Connected, Talks
  <2> QED BY <1>0, <1>2, <2>1, <2>2 DEF OrderInv
<1>5. CASE AwaitWake
  <2>1. pstate = "SLEEPING" /\ target' = sleepName /\ hpc = "loop"
    BY <1>5 DEF AwaitWake
  <2>2. \E t \in begun : NameOf[t] = target'
    BY <2>1 DEF HistoryInv, Slept
  <2>3. ~Running'
    BY <1>2, <2>1 DEF PlaceInv, Connected, Talks
  <2> QED BY <1>0, <1>2, <2>2, <2>3 DEF OrderInv
<1> QED BY <1>3, <1>4, <1>5, HostActs

LEMMA OrderStep ==
    ASSUME ProgressAssumed, RoundsIndInv, Steady, RoundsIndInv', ReadyInv, SkipInv,
           OrderInv,
           dpc = "wait" /\ Connected /\ cycle = "resume" => Through(target),
           [Next]_vars
    PROVE  OrderInv'
<1>1. CASE HostMoves /\ UNCHANGED session
  BY <1>1, OrderByHost
<1>2. CASE UNCHANGED <<session, hostVars>> /\ (DeviceRuns \/ ReadyTimer \/ Faulty)
  BY <1>2, BoardMoves, OrderByBoard
<1>3. CASE \/ (GarbleLine \/ GarbleMessage) /\ UNCHANGED <<session, hostVars, deviceVars>>
           \/ UNCHANGED vars
  <2>1. UNCHANGED <<begun, ended, todo, cur, dpc, cycle, target, hpc>>
    BY <1>3 DEF vars, hostVars, deviceVars, historyVars, cycleVars, runnerVars, roundVars
  <2> QED BY <2>1, OrderStands DEF Running, OrderInv
<1>4. CASE NewSession
  <2>1. begun' = {} /\ cycle' = "first" /\ hpc' = "open"
    BY <1>4 DEF NewSession, Invoke
  <2>2. ~Running'
    BY <2>1 DEF RoundsIndInv, RoundsInv, PlaceInv, Connected, Talks
  <2> QED BY <2>1, <2>2 DEF OrderInv
<1> QED BY <1>1, <1>2, <1>3, <1>4 DEF Next, DeviceMoves, Mishap

-----------------------------------------------------------------------------
(* Where the board sleeps.                                                  *)

(* A host that is going to hear of a sleep hears of it before anything else *)
(* ends the cycle.                                                          *)
LEMMA SleepIsHeard ==
    ASSUME RoundsAssumed, RoundsIndInv, FeedLine, hpc = "feed", pstate = "RUNNING",
           SaysSleep(inbound)
    PROVE  pstate' = "SLEEPING" \/ (pstate' = "RUNNING" /\ SaysSleep(inbound'))
<1> USE DEF RoundsIndInv, RoundsInv
<1> DEFINE ln == Head(inbound)
<1>1. /\ inbound \in Seq(AnyLine) /\ inbound # <<>> /\ inbound' = Tail(inbound)
      /\ Feed(ln) /\ ln.crc # "bad" /\ (ln.tag = "CASE:START" => ln.name # "")
  BY FeedsOne
<1>2. InOrder(inbound)
  BY DEF HeardInv, Talks
<1>3. /\ ln.tag \in RunTags \cup SleepTags \cup {"DONE", "READY"}
      /\ ln.tag \in SleepTags \cup {"READY"} => Tail(inbound) = <<>>
      /\ ln.tag = "DONE" => AllReady(Tail(inbound))
  BY <1>1, <1>2, TakesInOrder
<1>4. ln.tag \in SleepTags \/ SaysSleep(inbound')
  BY <1>1, Takes
<1> HIDE DEF ln
<1>5. ln.tag \in SleepTags \/ ln.tag \in RunTags
  <2>1. CASE ln.tag = "DONE"
    BY <1>1, <1>3, <1>4, <2>1 DEF AllReady, SaysSleep, SleepTags
  <2>2. CASE ln.tag = "READY"
    BY <1>1, <1>3, <1>4, <2>2, NothingSaid DEF SleepTags
  <2> QED BY <1>3, <2>1, <2>2
<1>6. HearsRunning(ln)
  BY <1>1, FeedHears DEF HearsWaiting
<1>7. CASE ln.tag \in SleepTags
  BY <1>6, <1>7 DEF HearsRunning, RunTags, SleepTags
<1>8. CASE ln.tag \in RunTags
  <2>1. ln.tag \notin SleepTags /\ pstate' = "RUNNING"
    BY <1>6, <1>8 DEF HearsRunning, RunTags, SleepTags
  <2> QED BY <1>4, <2>1
<1> QED BY <1>5, <1>7, <1>8

LEMMA OverIsGreeted ==
    ASSUME HostMoves, StartPhaseTwo
    PROVE  dpc # "doze"
<1>1. hpc = "wakeWait" /\ hpc' = "open"
  BY DEF StartPhaseTwo
<1>2. ~FirstOpen /\ ~LaterOpen /\ ~TimesOut /\ ~LingerEnds /\ ~OpenGivesUp /\ ~BusyIsOver
  BY <1>1 DEF FirstOpen, LaterOpen, OpenPort, TimesOut, ReadyTimeout, HangTimeout, EmptyRead,
     LingerEnds, LingerOver, OpenGivesUp, OpenFails, BusyIsOver, runnerVars
<1>3. ~HostSteps
  BY <1>1 DEF HostSteps, ReadChunk, FeedLine, SendCommand, SendRaises, SeesDone, SeesError,
     SeesSleep, SeesNothing, Checking, LeavesForOldCrash, EmptyRead, PortGoneWhileRunning,
     ReadRaises, DrainChunk, DrainCheck, DrainEnds, PostTest, AwaitWake, GiveUp, StartResume,
     NoMoreCycles, Finish
<1>4. WakeWaitOver
  BY <1>2, <1>3 DEF HostMoves
<1> QED BY <1>4 DEF WakeWaitOver

(* It announces it to a host that listens, and that host does not forget    *)
(* it.                                                                      *)
Noticed == dpc = "doze" /\ ~Between => pstate = "SLEEPING" \/ Connected

LEMMA NoticedByHost ==
    ASSUME RoundsAssumed, RoundsIndInv, Steady, RoundsIndInv', Noticed,
           hpc = "open" => pstate # "SLEEPING", HostMoves, UNCHANGED session
    PROVE  Noticed'
<1> USE DEF RoundsIndInv, RoundsInv
<1> SUFFICES ASSUME dpc' = "doze", ~Between' PROVE pstate' = "SLEEPING" \/ Connected'
  BY DEF Noticed
<1>1. CASE FirstOpen
  <2>1. ~Boot /\ hpc = "open" /\ cycle = "first"
    BY <1>1 DEF FirstOpen, OpenPort, Boot
  <2>2. UNCHANGED dpc /\ ~Resets[session]
    BY <1>1, <2>1 DEF FirstOpen, deviceVars
  <2>3. session = 1
    BY <2>2 DEF RoundsAssumed, LaterSessionsReset, SessionInv, HostInv
  <2>4. ~Between /\ ~Connected
    BY <2>1, <2>3 DEF Between, Connected, Talks
  <2> QED BY <2>1, <2>2, <2>4 DEF Noticed
<1>2. CASE LaterOpen
  <2>1. ~Between /\ ~Connected /\ UNCHANGED dpc /\ hpc = "open"
    BY <1>2 DEF LaterOpen, OpenPort, Between, Connected, Talks, deviceVars
  <2> QED BY <2>1 DEF Noticed
<1> SUFFICES ASSUME ~FirstOpen, ~LaterOpen PROVE pstate' = "SLEEPING" \/ Connected'
  BY <1>1, <1>2
<1>3. dpc = "doze"
  BY HostLeavesBoard DEF deviceVars
<1>4. ~Between
  <2> SUFFICES ASSUME Between PROVE FALSE
    OBVIOUS
  <2>1. CASE Turns
    BY <2>1 DEF Turns, Between, roundSeen
  <2>2. CASE OpenFails
    BY <2>2 DEF OpenFails, Raise, Between, roundVars
  <2>3. CASE Finish
    BY <2>3 DEF Finish, Between, roundVars
  <2>4. ~(SendRaises \/ ReadRaises \/ AwaitWake \/ GiveUp \/ StartPhaseTwo \/ StartResume
          \/ ReadChunk \/ DrainChunk \/ FeedLine \/ SendCommand \/ PostTest \/ LingerEnds)
    BY DEF Between, SendRaises, ReadRaises, AwaitWake, GiveUp, StartPhaseTwo,
       StartResume, ReadChunk, DrainChunk, FeedLine, SendCommand, Checking, PostTest,
       LingerEnds, LingerOver
  <2> QED BY <2>1, <2>2, <2>3, <2>4, HostActs
<1>5. CASE pstate = "SLEEPING"
  <2>1. ~StartPhaseTwo /\ ~OpenFails /\ ~SendCommand
    BY <1>3, <1>5, OverIsGreeted DEF OpenFails, SendCommand
  <2>2. CASE FeedLine
    <3>1. Feed(Head(inbound)) /\ Head(inbound).crc # "bad"
          /\ (Head(inbound).tag = "CASE:START" => Head(inbound).name # "")
      BY <2>2, FeedsOne
    <3> QED BY <1>5, <3>1, FeedHears DEF HearsWaiting, HearsRunning
  <2>3. CASE \/ Turns \/ SendRaises \/ ReadRaises
             \/ AwaitWake \/ GiveUp \/ StartResume \/ Finish
             \/ ReadChunk \/ DrainChunk \/ PostTest \/ LingerEnds
    <3>1. UNCHANGED pstate
      BY <2>3 DEF Turns, protocolSeen, SendRaises, ReadRaises, AwaitWake, GiveUp, StartResume,
         Finish, ReadChunk, DrainChunk, ReadInto, PostTest, LingerEnds, LingerOver, protocolVars
    <3> QED BY <1>5, <3>1
  <2> QED BY <2>1, <2>2, <2>3, HostActs
<1>6. CASE Connected
  <2>1. Talks /\ handle = "live" /\ pstate = "RUNNING" /\ SaysSleep(inbound)
    BY <1>3, <1>6 DEF TakenInv, Connected
  <2>2. CASE FeedLine
    <3>1. UNCHANGED <<hpc, handle>> /\ hpc = "feed"
      BY <2>1, <2>2, FeedsOne DEF Talks
    <3>2. pstate' = "SLEEPING" \/ pstate' = "RUNNING"
      BY <2>1, <2>2, <3>1, SleepIsHeard
    <3> QED BY <2>1, <3>1, <3>2 DEF Connected, Talks
  <2>3. CASE Turns
    BY <2>1, <2>3 DEF Turns, Connected, Talks, linkSeen, protocolSeen
  <2>4. CASE ReadChunk \/ DrainChunk
    BY <2>1, <2>4, ReadKeepsOrder DEF ReadChunk, DrainChunk, ReadInto, Connected, Talks,
       protocolVars
  <2>5. ~(\/ SendRaises \/ ReadRaises \/ OpenFails \/ AwaitWake \/ GiveUp \/ StartPhaseTwo
          \/ StartResume \/ Finish \/ SendCommand \/ PostTest \/ LingerEnds)
    BY <2>1 DEF SendRaises, ReadRaises, OpenFails, AwaitWake, GiveUp, StartPhaseTwo,
       StartResume, Finish, SendCommand, Checking, PostTest, LingerEnds, LingerOver, Talks
  <2> QED BY <2>2, <2>3, <2>4, <2>5, HostActs
<1> QED BY <1>3, <1>4, <1>5, <1>6 DEF Noticed

LEMMA DozeIsLeft ==
    ASSUME RoundsAssumed, RoundsIndInv, Steady, DeviceRuns \/ ReadyTimer \/ Faulty,
           dpc' = "doze"
    PROVE  SignalSleep
<1>1. /\ ~Crash /\ ~SilentReset /\ ~Reboot
      /\ ~ReceivePowerCommand /\ ~ReceiveIdleCommand /\ ~RunStandalone
  BY NoSuchFaults, NoControls
<1> QED BY <1>1 DEF DeviceRuns, Faulty, BoardInit, EmitReady, ReceiveArgs, ReceiveBad, Receives,
     ReceiveCommand, Prologue, StartTest, FailAssertion, SignalBusy, EndTest, GoDown,
     FinishCycle, BoardInitFails, Hang, Unhang, PowerLoss, Oversleep, PowerUp, Boot,
     ReadyTimer, IntervalElapses

(* A handle goes stale under a host that has heard of the sleep, or is      *)
(* reading of it.                                                           *)
Stale ==
    handle = "stale" =>
        \/ hpc \in {"drain", "drainFeed", "post", "linger"}
        \/ /\ hpc = "feed"
           /\ pstate = "SLEEPING" \/ (pstate = "RUNNING" /\ SaysSleep(chunk))

LEMMA StaleByBoard ==
    ASSUME ProgressAssumed, RoundsIndInv, Steady, ~PowerLoss, Noticed, Stale, HostStays,
           DeviceRuns \/ ReadyTimer \/ Faulty
    PROVE  Stale'
<1> USE DEF RoundsIndInv, RoundsInv
<1>0. RoundsAssumed
  BY DEF ProgressAssumed
<1>1. /\ ~Crash /\ ~SilentReset /\ ~Reboot
      /\ ~ReceivePowerCommand /\ ~ReceiveIdleCommand /\ ~RunStandalone
  BY <1>0, NoSuchFaults, NoControls
<1>2. GoDown \/ UNCHANGED handle
  BY <1>1 DEF DeviceRuns, Faulty, BoardInit, EmitReady, ReceiveArgs, ReceiveBad,
     ReceiveCommand, StartTest, FailAssertion, SignalBusy, EndTest, SignalSleep,
     FinishCycle, BoardInitFails, Hang, Unhang, Oversleep, PowerUp, ReadyTimer,
     IntervalElapses, linkVars
<1>3. UNCHANGED <<hpc, pstate, chunk>>
  BY DEF HostStays
<1>4. CASE UNCHANGED handle
  BY <1>3, <1>4 DEF Stale
<1>5. CASE GoDown /\ handle # "stale" /\ handle' = "stale"
  <2>1. dpc = "doze" /\ handle = "live" /\ wire = <<>>
    BY <1>5 DEF GoDown, PortDrops
  <2>2. inbound = chunk
    BY <2>1, LinesArrive DEF inbound
  <2>3. Talks \/ hpc \in {"drain", "drainFeed", "post", "linger"}
    BY <2>1 DEF PlaceInv
  <2>4. CASE Talks
    <3>1. ~Between
      BY <2>4 DEF Between, Talks
    <3>2. CASE pstate = "SLEEPING"
      BY <1>3, <2>4, <3>2 DEF PlaceInv, Talks, Stale
    <3>3. CASE Connected
      <4>1. SaysSleep(chunk) /\ pstate = "RUNNING"
        BY <2>1, <2>2, <3>3 DEF TakenInv, Connected
      <4>2. hpc = "feed"
        BY <2>4, <4>1, NothingSaid, Quiet DEF Talks
      <4> QED BY <1>3, <4>1, <4>2 DEF Stale
    <3> QED BY <2>1, <3>1, <3>2, <3>3 DEF Noticed
  <2> QED BY <1>3, <2>3, <2>4 DEF Stale
<1> QED BY <1>2, <1>3, <1>4, <1>5 DEF Stale

LEMMA StaleByHost ==
    ASSUME RoundsAssumed, RoundsIndInv, Steady, Stale, HostMoves, UNCHANGED session
    PROVE  Stale'
<1> USE DEF RoundsIndInv, RoundsInv
<1> SUFFICES ASSUME handle' = "stale" PROVE Stale'
  BY DEF Stale
<1>1. ~FirstOpen /\ ~LaterOpen
  <2>1. hpc = "open" => handle # "stale"
    BY DEF Stale
  <2> QED BY <2>1 DEF FirstOpen, LaterOpen, OpenPort, Opens
<1>2. ~(AwaitWake \/ GiveUp \/ Finish \/ LingerEnds \/ ReadChunk \/ DrainChunk)
  BY DEF AwaitWake, GiveUp, Finish, LingerEnds, LingerOver, Closes, ReadChunk, DrainChunk,
     ReadInto
<1>3. handle = "stale" /\ ~PostTest
  <2>1. CASE PostTest
    <3>1. handle' = handle \/ handle' = "closed"
      BY <2>1 DEF PostTest, Closes
    <3>2. handle = "stale" => PostTestMessages = <<>>
      BY DEF PostTestMessages
    <3> QED BY <2>1, <3>1, <3>2 DEF PostTest, Closes
  <2>2. CASE Turns \/ SendRaises \/ ReadRaises \/ OpenFails \/ StartPhaseTwo \/ StartResume
             \/ FeedLine \/ SendCommand
    <3>1. UNCHANGED handle
      BY <2>2 DEF Turns, linkSeen, SendRaises, ReadRaises, OpenFails, StartPhaseTwo,
         StartResume, FeedLine, SendCommand, linkVars
    <3>2. ~PostTest
      BY <2>1, <3>1 DEF PostTest, Closes, PostTestMessages
    <3> QED BY <3>1, <3>2
  <2> QED BY <1>1, <1>2, <2>1, <2>2, HostActs
<1>4. CASE hpc \in {"drain", "drainFeed", "post", "linger"}
  <2>1. CASE Turns
    BY <1>4, <2>1 DEF Turns, Stale
  <2>2. CASE FeedLine
    BY <1>4, <2>2 DEF FeedLine, Stale
  <2>3. ~(SendRaises \/ ReadRaises \/ OpenFails \/ StartPhaseTwo \/ StartResume \/ SendCommand)
    BY <1>4 DEF SendRaises, ReadRaises, OpenFails, StartPhaseTwo, StartResume, SendCommand,
       Checking
  <2> QED BY <1>1, <1>2, <1>3, <2>1, <2>2, <2>3, HostActs
<1>5. CASE /\ hpc = "feed"
           /\ pstate = "SLEEPING" \/ (pstate = "RUNNING" /\ SaysSleep(chunk))
  <2>0. inbound = chunk
    BY <1>3 DEF inbound
  <2>1. CASE Turns
    <3>1. UNCHANGED <<chunk, pstate>>
      BY <2>1 DEF Turns, protocolSeen
    <3>2. pstate = "RUNNING" => hpc' = hpc
      BY <1>5, <2>1, NothingSaid DEF Turns
    <3>3. pstate = "SLEEPING" => hpc' \in {"feed", "drain"}
      BY <1>5, <2>1 DEF Turns
    <3> QED BY <1>5, <3>1, <3>2, <3>3 DEF Stale
  <2>2. CASE FeedLine
    <3>1. UNCHANGED <<hpc, handle>> /\ inbound # <<>>
      BY <2>2, FeedsOne
    <3>2. pstate = "RUNNING" /\ SaysSleep(inbound)
      BY <1>5, <2>0, <3>1 DEF EndedInv, Talks
    <3>3. pstate' = "SLEEPING" \/ (pstate' = "RUNNING" /\ SaysSleep(inbound'))
      BY <1>5, <2>2, <3>2, SleepIsHeard
    <3>4. inbound' = chunk'
      BY <1>3, <3>1 DEF inbound
    <3> QED BY <1>5, <3>1, <3>3, <3>4 DEF Stale
  <2>3. ~(SendRaises \/ ReadRaises \/ OpenFails \/ StartPhaseTwo \/ StartResume \/ SendCommand)
    BY <1>5 DEF SendRaises, ReadRaises, OpenFails, StartPhaseTwo, StartResume, SendCommand,
       Checking
  <2> QED BY <1>1, <1>2, <1>3, <2>1, <2>2, <2>3, HostActs
<1> QED BY <1>3, <1>4, <1>5 DEF Stale

LEMMA AwakeToOpen ==
    ASSUME RoundsAssumed, RoundsIndInv, Steady,
           hpc = "open" => pstate # "SLEEPING", HostMoves,
           UNCHANGED session, hpc' = "open"
    PROVE  pstate' # "SLEEPING"
<1> USE DEF RoundsIndInv, RoundsInv
<1>1. ~FirstOpen /\ ~LaterOpen
  BY DEF FirstOpen, LaterOpen, OpenPort
<1>2. CASE OpenFails \/ StartPhaseTwo
  BY <1>2 DEF OpenFails, Reset, StartPhaseTwo, ResetForWake
<1>3. CASE SendRaises \/ ReadRaises \/ StartResume
  BY <1>3 DEF SendRaises, ReadRaises, StartResume, protocolVars, PlaceInv
<1>4. CASE Turns
  BY <1>4 DEF Turns, protocolSeen
<1>5. ~(\/ AwaitWake \/ GiveUp \/ Finish \/ ReadChunk \/ DrainChunk \/ FeedLine \/ SendCommand
        \/ PostTest \/ LingerEnds)
  BY DEF AwaitWake, GiveUp, Finish, ReadChunk, DrainChunk, ReadInto, FeedLine, SendCommand,
     Checking, LeaveIfCrashed, PostTest, LingerEnds, LingerOver
<1> QED BY <1>1, <1>2, <1>3, <1>4, <1>5, HostActs

LEMMA SleepStep ==
    ASSUME ProgressAssumed, RoundsIndInv, Steady, ~PowerLoss, RoundsIndInv', SleepInv,
           [Next]_vars
    PROVE  SleepInv'
<1> USE DEF RoundsIndInv, RoundsInv
<1>0. RoundsAssumed /\ Noticed /\ Stale /\ (hpc = "open" => pstate # "SLEEPING")
  BY DEF ProgressAssumed, SleepInv, Noticed, Stale
<1> SUFFICES Noticed' /\ Stale' /\ (hpc' = "open" => pstate' # "SLEEPING")
  BY DEF SleepInv, Noticed, Stale
<1>1. CASE HostMoves /\ UNCHANGED session
  BY <1>0, <1>1, NoticedByHost, StaleByHost, AwakeToOpen
<1>2. CASE UNCHANGED <<session, hostVars>> /\ (DeviceRuns \/ ReadyTimer \/ Faulty)
  <2>1. HostStays
    BY <1>2, BoardMoves
  <2>2. Stale'
    BY <1>0, <1>2, <2>1, StaleByBoard
  <2>3. ASSUME dpc' = "doze" PROVE Connected'
    <3>1. SignalSleep
      BY <1>0, <1>2, <2>3, DozeIsLeft
    <3>2. Running /\ UNCHANGED handle
      BY <3>1 DEF SignalSleep, BodyDone, Running
    <3> QED BY <2>1, <3>2, RunIsHeard DEF HostStays, Connected, Talks
  <2> QED BY <1>0, <2>1, <2>2, <2>3 DEF HostStays, Noticed
<1>3. CASE \/ (GarbleLine \/ GarbleMessage) /\ UNCHANGED <<session, hostVars, deviceVars>>
           \/ UNCHANGED vars
  <2>1. UNCHANGED <<dpc, session, cycle, hpc, pstate, handle, chunk>>
    BY <1>3 DEF vars, hostVars, deviceVars, runnerVars, roundVars, protocolVars, linkVars,
       GarbleLine, GarbleMessage
  <2> QED BY <1>0, <2>1 DEF Noticed, Stale, Between, Connected, Talks
<1>4. CASE NewSession
  <2>1. /\ hpc' = "open" /\ cycle' = "first" /\ pstate' = "WAITING_FOR_READY"
        /\ session' = session + 1
    BY <1>4 DEF NewSession, Invoke, ProtocolNew
  <2>2. handle' # "stale"
    BY <2>1 DEF PlaceInv
  <2>3. session' # 1
    <3>1. session \in DOMAIN Resets
      BY DEF SessionInv, HostInv
    <3>2. session \in 1..Len(Resets)
      BY <3>1, SessionAssumption
    <3> QED BY <2>1, <3>2
  <2> QED BY <2>1, <2>2, <2>3 DEF Noticed, Stale, Between
<1> QED BY <1>1, <1>2, <1>3, <1>4 DEF Next, DeviceMoves, Mishap

-----------------------------------------------------------------------------
(* What the board says of a cycle, and what the host does with it.          *)

LEMMA FinishedCycle ==
    ASSUME ProgressAssumed, OrderInv, FinishCycle
    PROVE  CycleRun
<1>0. RoundsAssumed
  BY DEF ProgressAssumed
<1>1. dpc = "cycle" /\ todo = {} /\ Running
  BY DEF FinishCycle, Running
<1>2. \A w \in Asked : \/ w \in ended
                       \/ PhaseTwo /\ \E t \in Tests : NameOf[t] = target /\ t < w
  BY <1>1 DEF OrderInv
<1>3. ASSUME PhaseTwo, NEW t \in Tests, NameOf[t] = target, NEW w \in Asked, w <= t
      PROVE  w \in ended
  <2>1. \A s \in Tests : NameOf[s] = target => s = t
    BY <1>0, <1>3, OneOfName
  <2>2. w \in Nat /\ t \in Nat
    BY <1>3, AskedAreNumbers
  <2>3. ~(t < w)
    BY <1>3, <2>2
  <2> QED BY <1>2, <2>1, <2>3
<1> QED BY <1>2, <1>3 DEF CycleRun, Through

(* What the board has to say, and who says it: nothing is lost before the   *)
(* host hears it.                                                           *)
LEMMA BoardSays ==
    ASSUME ProgressAssumed, RoundsIndInv, Steady, ~PowerLoss, ReadyInv, SkipInv,
           HostStays,
           DeviceRuns \/ ReadyTimer \/ Faulty
    PROVE  \/ /\ inbound' = inbound /\ wire' \in {wire, <<>>}
              /\ ~FailAssertion /\ ~StartTest /\ ~SignalSleep /\ ~FinishCycle
           \/ \E ln \in AnyLine :
                 /\ Emit(<<ln>>)
                 /\ inbound' = IF handle = "live" THEN inbound \o <<ln>> ELSE inbound
                 /\ ln.tag = "DONE" => FinishCycle
                 /\ ln.tag = "FAIL" <=> FailAssertion
                 /\ ln.tag \in SleepTags => SignalSleep
                 /\ StartTest => /\ ln.tag = "CASE:START"
                                 /\ \E t \in Tests : /\ begun' = begun \cup {t}
                                                     /\ ln.name = NameOf[t]
<1> USE DEF RoundsIndInv, RoundsInv
<1>0. ProgressAssumed /\ RoundsAssumed /\ SessionInv
  BY DEF ProgressAssumed
<1>1. /\ ~Crash /\ ~SilentReset /\ ~Reboot
      /\ ~ReceivePowerCommand /\ ~ReceiveIdleCommand /\ ~RunStandalone
  BY <1>0, NoSuchFaults, NoControls
<1>2. UNCHANGED chunk
  BY DEF HostStays
<1>3. CASE BoardInit \/ ReadyTimer \/ ReceiveArgs \/ ReceiveBad \/ EndTest \/ Oversleep
           \/ PowerUp \/ Hang \/ Unhang
  <2>1. UNCHANGED <<handle, wire>>
    BY <1>3 DEF BoardInit, ReadyTimer, IntervalElapses, ReceiveArgs, ReceiveBad, EndTest,
       Oversleep, PowerUp, Hang, Unhang, linkVars
  <2>2. inbound' = inbound
    BY <1>2, <2>1 DEF inbound
  <2>3. ~FailAssertion /\ ~SignalSleep
    BY <1>3 DEF FailAssertion, SignalSleep, BoardInit, ReadyTimer, IntervalElapses, ReceiveArgs,
       ReceiveBad, Receives, BodyDone, EndTest, Oversleep, PowerUp, Boot, Hang, Unhang,
       cycleVars
  <2>4. ~StartTest /\ ~FinishCycle
    BY <1>3 DEF StartTest, FinishCycle, BoardInit, ReadyTimer, IntervalElapses, ReceiveArgs,
       ReceiveBad, Receives, BodyDone, EndTest, Oversleep, PowerUp, Boot, Hang, Unhang,
       cycleVars
  <2> QED BY <2>1, <2>2, <2>3, <2>4
<1>4. CASE GoDown
  <2>1. inbound' = chunk /\ wire' = <<>>
    BY <1>2, <1>4 DEF GoDown, PortDrops, inbound
  <2>2. inbound = chunk
    BY <1>4, LinesArrive DEF GoDown, inbound
  <2>3. ~FailAssertion /\ ~SignalSleep /\ ~StartTest /\ ~FinishCycle
    BY <1>4 DEF GoDown, FailAssertion, SignalSleep, BodyDone, StartTest, FinishCycle
  <2> QED BY <2>1, <2>2, <2>3
<1>5. CASE EmitReady \/ BoardInitFails \/ StartTest \/ FailAssertion \/ SignalBusy
           \/ FinishCycle \/ SignalSleep \/ ReceiveCommand
  <2>1. PICK ln \in AnyLine :
           /\ Emit(<<ln>>)
           /\ ln.tag = "DONE" => FinishCycle
           /\ ln.tag = "FAIL" <=> FailAssertion
           /\ ln.tag \in SleepTags => SignalSleep
           /\ StartTest => /\ ln.tag = "CASE:START"
                           /\ \E t \in Tests : /\ begun' = begun \cup {t}
                                               /\ ln.name = NameOf[t]
    <3>1. CASE StartTest
      <4>1. PICK t \in Tests : /\ Emit(<<Line("CASE:START", SuiteOf[t], NameOf[t], 0)>>)
                               /\ begun' = begun \cup {t}
        <5>1. todo \subseteq Tests
          BY DEF SessionInv, WireInv, FirmwareTypeOK
        <5> QED BY <3>1, <5>1 DEF StartTest
      <4> DEFINE ln == Line("CASE:START", SuiteOf[t], NameOf[t], 0)
      <4>2. ln \in AnyLine /\ ln.tag = "CASE:START" /\ ln.name = NameOf[t]
        BY <1>0, RunLines DEF RoundsAssumed
      <4>3. ~FailAssertion
        BY <3>1 DEF StartTest, FailAssertion
      <4>4. ln.tag \notin SleepTags /\ ln.tag # "FAIL" /\ ln.tag # "DONE"
        BY <4>2 DEF SleepTags
      <4>5. Emit(<<ln>>)
        BY <4>1
      <4> HIDE DEF ln
      <4> QED BY <4>1, <4>2, <4>3, <4>4, <4>5
    <3>2. CASE ReceiveCommand
      <4> DEFINE n == CountBy(skip, EmptyEnv, CommandOf(cycle),
                              CommandFlags(CommandOf(cycle), AllArgs))
                 ln == Line("COUNTS", NoName, NoName, n)
      <4>1. Emit(<<ln>>)
        BY <1>0, <3>2, WhatRuns
      <4>2. n \in Nat
        <5>1. env = EmptyEnv
          BY <1>0, <3>2, CommandFinds
        <5>2. CountBy(skip, env, CommandOf(cycle), CommandFlags(CommandOf(cycle), AllArgs)) \in Nat
          BY CountsAreNatural
        <5> QED BY <5>1, <5>2
      <4> HIDE DEF n
      <4>3. ln \in AnyLine /\ ln.tag = "COUNTS"
        BY <4>2 DEF Line, NoName, AnyLine, DeviceTags, Tags, Crc
      <4>4. ~FailAssertion /\ ~StartTest
        BY <3>2 DEF ReceiveCommand, Receives, FailAssertion, StartTest
      <4>5. ln.tag \notin SleepTags
        BY <4>3 DEF SleepTags
      <4> HIDE DEF ln
      <4> QED BY <4>1, <4>3, <4>4, <4>5
    <3>3. CASE FailAssertion
      <4>1. ~StartTest /\ "FAIL" \notin SleepTags
        BY <3>3 DEF FailAssertion, StartTest, SleepTags
      <4> QED BY <3>3, <4>1, BoardLines DEF FailAssertion
    <3>4. CASE FinishCycle
      <4>1. ~FailAssertion /\ ~StartTest /\ Emit(<<Tagged("DONE")>>) /\ "DONE" \notin SleepTags
        BY <3>4 DEF FinishCycle, FailAssertion, StartTest, SleepTags
      <4> QED BY <3>4, <4>1, BoardLines
    <3>5. CASE SignalSleep
      <4>1. ~FailAssertion /\ ~StartTest
        BY <3>5 DEF SignalSleep, BodyDone, FailAssertion, StartTest
      <4>2. \E tag \in {"SLEEP", "RESTART"} : Emit(<<Tagged(tag)>>)
        BY <3>5 DEF SignalSleep
      <4> QED BY <3>5, <4>1, <4>2, BoardLines
    <3>6. CASE EmitReady \/ BoardInitFails \/ SignalBusy
      <4>1. ~FailAssertion /\ ~StartTest
        BY <3>6 DEF FailAssertion, StartTest, EmitReady, BoardInitFails, SignalBusy
      <4>2. \E tag \in {"READY", "ERROR", "BUSY"} :
               Emit(<<Tagged(tag)>>) /\ tag \notin SleepTags
        BY <3>6 DEF EmitReady, BoardInitFails, SignalBusy, SleepTags
      <4> QED BY <4>1, <4>2, BoardLines
    <3> QED BY <1>5, <3>1, <3>2, <3>3, <3>4, <3>5, <3>6
  <2>2. UNCHANGED handle
    BY <1>5 DEF EmitReady, BoardInitFails, StartTest, FailAssertion, SignalBusy, FinishCycle,
       SignalSleep, ReceiveCommand
  <2>3. IF handle = "live" THEN inbound' = inbound \o <<ln>> ELSE inbound' = inbound
    BY <1>0, <1>2, <2>1, <2>2, LineArrives
  <2>4. inbound' = IF handle = "live" THEN inbound \o <<ln>> ELSE inbound
    BY <2>3
  <2> QED BY <2>1, <2>4
<1> QED BY <1>1, <1>3, <1>4, <1>5 DEF DeviceRuns, Faulty

(* DONE is said at the end of a cycle, FAIL when an assertion fails, and    *)
(* neither is lost before the host hears it.                                *)
LEMMA WhatIsSaid ==
    ASSUME ProgressAssumed, RoundsIndInv, Steady, ~PowerLoss, ReadyInv, SkipInv,
           HostStays,
           DeviceRuns \/ ReadyTimer \/ Faulty
    PROVE  /\ Says(inbound', "DONE") => Says(inbound, "DONE") \/ FinishCycle
           /\ Says(inbound, "FAIL") => Says(inbound', "FAIL")
           /\ FailAssertion => Says(inbound', "FAIL")
<1>1. CASE inbound' = inbound /\ ~FailAssertion
  BY <1>1
<1>2. CASE ~(inbound' = inbound /\ ~FailAssertion)
  <2>1. PICK ln \in AnyLine :
           /\ inbound' = IF handle = "live" THEN inbound \o <<ln>> ELSE inbound
           /\ ln.tag = "DONE" => FinishCycle
           /\ ln.tag = "FAIL" <=> FailAssertion
    BY <1>2, BoardSays
  <2>2. handle = "live"
    <3>1. FailAssertion => Running
      BY DEF FailAssertion, Running
    <3> QED BY <1>2, <2>1, <3>1, RunIsHeard
  <2>3. inbound \in Seq(AnyLine) /\ inbound' = inbound \o <<ln>>
    BY <2>1, <2>2, LinesArrive DEF RoundsIndInv
  <2>4. \A tag : Says(inbound', tag) <=> Says(inbound, tag) \/ ln.tag = tag
    BY <2>3, Adds
  <2> QED BY <2>1, <2>4
<1> QED BY <1>1, <1>2

(* What the host never does here, and what is left.                         *)
LEMMA HostDoes ==
    ASSUME RoundsAssumed, RoundsIndInv, Steady, SleepInv, HostMoves, UNCHANGED session
    PROVE  \/ FirstOpen \/ LaterOpen
           \/ /\ UNCHANGED deviceVars
              /\ \/ ReadChunk \/ FeedLine \/ SendCommand \/ SeesDone \/ SeesSleep
                 \/ SeesNothing \/ DrainChunk \/ DrainCheck \/ DrainEnds \/ PostTest
                 \/ AwaitWake \/ GiveUp \/ StartPhaseTwo \/ StartResume \/ NoMoreCycles
                 \/ Finish \/ LingerEnds \/ OpenFails \/ BusyIsOver
                 \/ dpc = "dead" /\ ReadyTimeout
<1> USE DEF RoundsIndInv, RoundsInv
<1> SUFFICES ASSUME ~FirstOpen, ~LaterOpen
             PROVE  /\ UNCHANGED deviceVars
                    /\ \/ ReadChunk \/ FeedLine \/ SendCommand \/ SeesDone \/ SeesSleep
                       \/ SeesNothing \/ DrainChunk \/ DrainCheck \/ DrainEnds \/ PostTest
                       \/ AwaitWake \/ GiveUp \/ StartPhaseTwo \/ StartResume \/ NoMoreCycles
                       \/ Finish \/ LingerEnds \/ OpenFails \/ BusyIsOver
                       \/ dpc = "dead" /\ ReadyTimeout
  OBVIOUS
<1>1. /\ UNCHANGED deviceVars
      /\ HostSteps \/ TimesOut \/ BusyIsOver \/ WakeWaitOver \/ LingerEnds \/ OpenGivesUp
  BY DEF HostMoves
<1>2. ~SendRaises /\ ~ReadRaises /\ ~PortGoneWhileRunning
  BY DEF SendRaises, Checking, ReadRaises, PortGoneWhileRunning, SleepInv
<1>3. ~SeesError /\ ~LeavesForOldCrash
  BY DEF SeesError, Checking, LeavesForOldCrash, PlaceInv
<1>4. TimesOut => dpc = "dead" /\ ReadyTimeout
  <2>1. CASE Silent /\ ReadyTimeout
    <3>1. ~Running /\ dpc # "hung"
      BY <2>1 DEF ReadyTimeout, EmptyRead, PlaceInv, Connected, Running
    <3> QED BY <2>1, <3>1 DEF Silent, Running
  <2>2. ~(Silent /\ HangTimeout)
    <3> SUFFICES ASSUME Silent, HangTimeout PROVE FALSE
      OBVIOUS
    <3>1. /\ Connected /\ hpc = "read" /\ wire = <<>> /\ handle = "live" /\ ~busy
      BY DEF HangTimeout, EmptyRead, Connected, Talks
    <3>2. inbound = <<>>
      BY <3>1, Quiet, LinesArrive DEF inbound
    <3>3. dpc # "hung"
      BY DEF Steady, TimesOut
    <3>4. dpc = "quiet"
      BY <3>1, <3>3 DEF TakenInv, Running, Silent
    <3> QED BY <3>1, <3>2, <3>4, NothingSaid DEF TakenInv
  <2> QED BY <2>1, <2>2 DEF TimesOut
<1>5. WakeWaitOver => StartPhaseTwo
  BY DEF WakeWaitOver
<1>6. OpenGivesUp => OpenFails
  BY DEF OpenGivesUp
<1>7. \/ ReadChunk \/ FeedLine \/ SendCommand \/ SeesDone \/ SeesSleep
      \/ SeesNothing \/ DrainChunk \/ DrainCheck \/ DrainEnds \/ PostTest
      \/ AwaitWake \/ GiveUp \/ StartPhaseTwo \/ StartResume \/ NoMoreCycles
      \/ Finish \/ LingerEnds \/ OpenFails \/ BusyIsOver
      \/ dpc = "dead" /\ ReadyTimeout
  BY <1>1, <1>2, <1>3, <1>4, <1>5, <1>6, Zenon DEF HostSteps
<1> QED BY <1>1, <1>7

-----------------------------------------------------------------------------
(* The verdict.                                                             *)

LEMMA ErrorsAreRed ==
    /\ \A n : Special(n) = NoLabel <=> n = ""
    /\ \A n, l, s : /\ Case(n, s).status = s /\ Case(n, s).name = n
                    /\ n # "" => Case(Special(n), s).name # NoLabel
BY DEF Special, Label, NoLabel, Case

LEMMA AddsRed ==
    ASSUME NEW n, n # NoLabel, NEW s, s # "PASSED", Case(n, s) \in cases'
    PROVE  Red'
BY DEF Case, Red

(* Only the next session starts green again.                                *)
LEMMA RedStays ==
    ASSUME RoundsAssumed, RoundsIndInv, Steady, SleepInv, HostMoves,
           UNCHANGED session, Red
    PROVE  Red'
<1>1. ASSUME cases \subseteq cases' PROVE Red'
  BY <1>1 DEF Red
<1>2. CASE FirstOpen \/ LaterOpen \/ ReadChunk \/ SendCommand \/ SeesSleep
           \/ SeesNothing \/ DrainChunk \/ DrainEnds \/ PostTest
           \/ AwaitWake \/ StartPhaseTwo \/ StartResume \/ NoMoreCycles
           \/ LingerEnds \/ BusyIsOver
  <2>1. UNCHANGED cases
    BY <1>2 DEF FirstOpen, LaterOpen, OpenPort, ReadChunk, ReadInto, SendCommand, SeesSleep,
       SeesNothing, DrainChunk, DrainEnds, PostTest, AwaitWake, StartPhaseTwo, StartResume,
       NoMoreCycles, LingerEnds, LingerOver, BusyIsOver, runnerVars, reportVars
  <2> QED BY <1>1, <2>1
<1>3. CASE FeedLine \/ SeesDone \/ DrainCheck \/ GiveUp \/ ReadyTimeout \/ OpenFails
  <2>1. cases \subseteq cases'
    BY <1>3 DEF FeedLine, SeesDone, DrainCheck, WithFailures, GiveUp, ReadyTimeout, OpenFails,
       Raise
  <2> QED BY <1>1, <2>1
<1>4. CASE Finish
  <2>1. KeptCases \subseteq cases'
    BY <1>4 DEF Finish
  <2> QED BY <2>1 DEF Red, KeptCases
<1> QED BY <1>2, <1>3, <1>4, HostDoes

(* A board that failed to start stays where it is until the next session.   *)
LEMMA DeadStays ==
    ASSUME ProgressAssumed, RoundsIndInv, Steady, ~PowerLoss,
           DeviceRuns \/ ReadyTimer \/ Faulty, dpc = "dead"
    PROVE  dpc' = "dead"
<1>0. RoundsAssumed
  BY DEF ProgressAssumed
<1>1. /\ ~Crash /\ ~SilentReset /\ ~Reboot
      /\ ~ReceivePowerCommand /\ ~ReceiveIdleCommand /\ ~RunStandalone
  BY <1>0, NoSuchFaults, NoControls
<1> QED BY <1>1 DEF DeviceRuns, Faulty, BoardInit, EmitReady, ReceiveArgs, ReceiveBad, Receives,
     ReceiveCommand, StartTest, FailAssertion, SignalBusy, EndTest, BodyDone, SignalSleep,
     GoDown, FinishCycle, BoardInitFails, Hang, Unhang, Oversleep, PowerUp, ReadyTimer,
     IntervalElapses

LEMMA EndedGrows ==
    ASSUME RoundsAssumed, RoundsIndInv, Steady, DeviceRuns \/ ReadyTimer \/ Faulty
    PROVE  /\ ended \subseteq ended' /\ failed \subseteq failed'
           /\ EndTest \/ UNCHANGED ended
           /\ FailAssertion \/ UNCHANGED failed
<1>1. /\ ~Crash /\ ~SilentReset /\ ~Reboot
      /\ ~ReceivePowerCommand /\ ~ReceiveIdleCommand /\ ~RunStandalone
  BY NoSuchFaults, NoControls
<1>2. CASE EndTest \/ FailAssertion
  BY <1>2 DEF EndTest, FailAssertion
<1>3. CASE ~EndTest /\ ~FailAssertion
  <2>1. UNCHANGED <<ended, failed>>
    BY <1>1, <1>3 DEF DeviceRuns, Faulty, BoardInit, EmitReady, ReceiveArgs, ReceiveBad,
       ReceiveCommand, StartTest, SignalBusy, SignalSleep, GoDown, FinishCycle,
       BoardInitFails, Hang, Unhang, PowerLoss, Oversleep, PowerUp, Boot, ReadyTimer,
       IntervalElapses, historyVars
  <2> QED BY <2>1
<1> QED BY <1>2, <1>3

LEMMA ThroughStays ==
    ASSUME ended \subseteq ended'
    PROVE  /\ Asked' = Asked
           /\ \A name : Through(name) => Through(name)'
           /\ UNCHANGED <<cycle, target>> /\ CycleRun => CycleRun'
<1>1. Asked' = Asked
  BY DEF Asked
<1>2. \A name : Through(name) => Through(name)'
  BY <1>1 DEF Through
<1> QED BY <1>1, <1>2 DEF CycleRun, PhaseTwo, Through

-----------------------------------------------------------------------------
(* How a cycle is left.                                                     *)

LEMMA CycleByBoard ==
    ASSUME ProgressAssumed, RoundsIndInv, Steady, ~PowerLoss, ReadyInv, SkipInv,
           OrderInv, CycleInv,
           HostStays, UNCHANGED cases, DeviceRuns \/ ReadyTimer \/ Faulty
    PROVE  CycleInv'
<1>0. ProgressAssumed /\ RoundsAssumed
  BY DEF ProgressAssumed
<1>1. UNCHANGED <<hpc, pstate, cycle, target, chunk>>
  BY DEF HostStays
<1>2. /\ \A name : Through(name) => Through(name)'
      /\ CycleRun => CycleRun'
  BY <1>0, <1>1, EndedGrows, ThroughStays
<1>3. Red' = Red /\ (dpc = "dead" => dpc' = "dead")
  BY DeadStays DEF Red
<1>4. Talks' = Talks /\ Leaving' = Leaving
  BY <1>1 DEF Talks, Leaving
<1>5. Says(inbound', "DONE") => Says(inbound, "DONE") \/ CycleRun
  BY <1>0, WhatIsSaid, FinishedCycle
<1>6. Talks' /\ pstate' = "RUNNING" /\ Says(inbound', "DONE") => CycleRun'
  BY <1>1, <1>2, <1>4, <1>5 DEF CycleInv
<1>7. cycle' = "resume" /\ hpc' # "wakeWait" => Through(target)' \/ (Red' /\ dpc' = "dead")
  <2>1. Through(target) => Through(target)'
    BY <1>0, <1>1, EndedGrows, ThroughStays DEF Through
  <2> QED BY <1>1, <1>3, <2>1 DEF CycleInv
<1> QED BY <1>1, <1>2, <1>3, <1>4, <1>6, <1>7 DEF CycleInv

(* DONE ends the cycle, and nothing else does.                              *)
LEMMA FeedEnds ==
    ASSUME RoundsAssumed, RoundsIndInv, FeedLine
    PROVE  /\ UNCHANGED <<hpc, cycle, target, handle>>
           /\ pstate' = "FINISHED" =>
                 pstate = "FINISHED" \/ (pstate = "RUNNING" /\ Says(inbound, "DONE"))
           /\ pstate' = "RUNNING" => pstate = "RUNNING"
           /\ pstate' = "SLEEPING" => pstate \in {"RUNNING", "SLEEPING"}
           /\ \A tag : Says(inbound, tag) <=> Head(inbound).tag = tag \/ Says(inbound', tag)
<1> DEFINE ln == Head(inbound)
<1>1. /\ UNCHANGED <<hpc, cycle, target, handle>>
      /\ inbound \in Seq(AnyLine) /\ inbound # <<>> /\ inbound' = Tail(inbound)
      /\ Feed(ln) /\ ln.crc # "bad" /\ (ln.tag = "CASE:START" => ln.name # "")
  BY FeedsOne
<1>2. \A tag : Says(inbound, tag) <=> ln.tag = tag \/ Says(inbound', tag)
  BY <1>1, Takes
<1> HIDE DEF ln
<1>3. /\ pstate' = "FINISHED" => pstate = "FINISHED" \/ (pstate = "RUNNING" /\ ln.tag = "DONE")
      /\ pstate' = "RUNNING" => pstate = "RUNNING"
      /\ pstate' = "SLEEPING" => pstate \in {"RUNNING", "SLEEPING"}
  BY <1>1 DEF Feed, FeedReadyWhileWaiting, FeedArgs, FeedError, FeedReadyWhileRunning,
     FeedCaseStart, FeedCounts, FeedSleep, FeedBusy, FeedDone, FeedIgnored, protocolVars, Heard
<1> QED BY <1>1, <1>2, <1>3 DEF ln

LEMMA ResumeStands ==
    ASSUME RoundsAssumed, RoundsIndInv, Steady, SleepInv, CycleInv, HostMoves,
           UNCHANGED session,
           ~FirstOpen, ~StartPhaseTwo, ~StartResume, ~AwaitWake
    PROVE  cycle' = "resume" /\ hpc' # "wakeWait" =>
              Through(target)' \/ (Red' /\ dpc' = "dead")
<1> SUFFICES ASSUME cycle' = "resume", hpc' # "wakeWait"
             PROVE  Through(target)' \/ (Red' /\ dpc' = "dead")
  OBVIOUS
<1>1. UNCHANGED <<dpc, ended>>
  BY HostLeavesBoard DEF deviceVars, historyVars
<1>2. cycle = "resume" /\ hpc # "wakeWait" /\ UNCHANGED target
  <2>1. CASE FeedLine \/ OpenFails \/ BusyIsOver
    BY <2>1 DEF FeedLine, OpenFails, Raise, BusyIsOver, runnerVars, roundVars
  <2>2. CASE LaterOpen \/ ReadChunk \/ SendCommand \/ SeesDone \/ SeesSleep
           \/ SeesNothing \/ DrainChunk \/ DrainCheck \/ DrainEnds \/ PostTest
           \/ GiveUp \/ NoMoreCycles \/ Finish \/ LingerEnds \/ ReadyTimeout
    BY <2>2 DEF LaterOpen, OpenPort, ReadChunk, ReadInto, SendCommand, SeesDone, SeesSleep,
       SeesNothing, Checking, DrainChunk, DrainCheck, DrainEnds, PostTest, GiveUp,
       NoMoreCycles, Finish, LingerEnds, LingerOver, ReadyTimeout, EmptyRead, roundVars
  <2> QED BY <2>1, <2>2, HostDoes
<1>3. Through(target) => Through(target)'
  BY <1>1, <1>2 DEF Through, Asked
<1>4. Red => Red'
  BY RedStays
<1> QED BY <1>1, <1>2, <1>3, <1>4 DEF CycleInv

LEMMA CycleByHost ==
    ASSUME RoundsAssumed, RoundsIndInv, Steady, SleepInv, OrderInv, CycleInv, HostMoves,
           UNCHANGED session
    PROVE  CycleInv'
<1> USE DEF RoundsIndInv, RoundsInv
<1>0. Red => Red'
  BY RedStays
<1>1. CASE FirstOpen
  <2>1. hpc' = "read" /\ pstate' = "WAITING_FOR_READY" /\ cycle' = "first"
    BY <1>1 DEF FirstOpen, OpenPort, Reset, roundVars
  <2> QED BY <2>1 DEF CycleInv, Talks, Leaving
<1> SUFFICES ASSUME ~FirstOpen PROVE CycleInv'
  BY <1>1
<1>2. UNCHANGED <<dpc, ended>>
  BY HostLeavesBoard DEF deviceVars, historyVars
<1>3. UNCHANGED <<cycle, target>> /\ CycleRun => CycleRun'
  BY <1>2, ThroughStays
<1>4. CASE StartPhaseTwo \/ AwaitWake
  <2>1. /\ hpc' \in {"open", "wakeWait"}
        /\ cycle' = "resume" => hpc' = "wakeWait"
    BY <1>4 DEF StartPhaseTwo, AwaitWake
  <2> QED BY <2>1 DEF CycleInv, Talks, Leaving
<1>5. CASE StartResume
  <2>1. /\ hpc' = "open" /\ hpc = "loop" /\ pstate # "SLEEPING" /\ PhaseTwo
        /\ UNCHANGED <<target, cases>>
    BY <1>5 DEF StartResume, AfterPhaseTwo, PhaseTwo, reportVars
  <2>2. Through(target) \/ (Red /\ dpc = "dead")
    BY <2>1 DEF CycleInv, Leaving, CycleRun
  <2>3. Through(target) => Through(target)'
    BY <1>2, <2>1 DEF Through, Asked
  <2> QED BY <1>0, <1>2, <2>1, <2>2, <2>3 DEF CycleInv, Talks, Leaving
<1> SUFFICES ASSUME ~StartPhaseTwo, ~AwaitWake, ~StartResume
             PROVE  /\ (Talks' \/ Leaving') /\ pstate' = "FINISHED" => CycleRun'
                    /\ Talks' /\ pstate' = "RUNNING" /\ Says(inbound', "DONE") => CycleRun'
                    /\ Leaving' /\ pstate' \notin {"FINISHED", "SLEEPING"}
                          => Red' /\ dpc' = "dead"
                    /\ hpc' \in {"drain", "drainFeed"} => pstate' # "FINISHED"
  BY <1>4, <1>5, ResumeStands DEF CycleInv
<1>6. CASE LaterOpen
  <2>1. hpc' = "read" /\ pstate' = "WAITING_FOR_READY"
    BY <1>6 DEF LaterOpen, OpenPort, Reset
  <2> QED BY <2>1 DEF Leaving
<1>7. CASE GiveUp \/ NoMoreCycles \/ Finish \/ OpenFails
  <2>1. hpc' \in {"open", "finish", "over"}
    BY <1>7 DEF GiveUp, NoMoreCycles, Finish, OpenFails, Raise
  <2> QED BY <2>1 DEF Talks, Leaving
<1>8. CASE FeedLine
  <2>1. /\ UNCHANGED <<hpc, cycle, target, handle>>
        /\ pstate' = "FINISHED" =>
              pstate = "FINISHED" \/ (pstate = "RUNNING" /\ Says(inbound, "DONE"))
        /\ pstate' = "RUNNING" => pstate = "RUNNING"
        /\ pstate' = "SLEEPING" => pstate \in {"RUNNING", "SLEEPING"}
        /\ \A tag : Says(inbound, tag) <=> Head(inbound).tag = tag \/ Says(inbound', tag)
    BY <1>8, FeedEnds
  <2>2. hpc \in {"feed", "drainFeed"}
    BY <1>8 DEF FeedLine
  <2>3. CASE hpc = "feed"
    BY <1>3, <2>1, <2>3 DEF CycleInv, Talks, Leaving
  <2>4. CASE hpc = "drainFeed"
    <3>1. pstate # "RUNNING" /\ pstate # "FINISHED"
      BY <2>4 DEF PlaceInv, CycleInv
    <3>2. pstate = "SLEEPING" => pstate' = "SLEEPING"
      <4>1. Feed(Head(chunk))
        BY <1>8 DEF FeedLine
      <4> QED BY <4>1 DEF Feed, FeedReadyWhileWaiting, FeedArgs, FeedError,
         FeedReadyWhileRunning, FeedCaseStart, FeedCounts, FeedSleep, FeedBusy, FeedDone,
         FeedIgnored, protocolVars
    <3> QED BY <1>0, <1>2, <2>1, <2>4, <3>1, <3>2 DEF CycleInv, Talks, Leaving
  <2> QED BY <2>2, <2>3, <2>4
<1>9. CASE SendCommand
  <2>1. /\ hpc = "feed" /\ hpc' \in {"read", "drain"} /\ pstate = "READY" /\ pstate' = "RUNNING"
        /\ UNCHANGED <<chunk, handle, wire>> /\ ~crashed
    BY <1>9 DEF SendCommand, Checking, CommandSent, LeaveIfCrashed, PlaceInv
  <2>2. hpc' = "read" /\ inbound' = <<>>
    BY <1>9, <2>1 DEF SendCommand, LeaveIfCrashed, AskedInv, Talks, inbound
  <2> QED BY <2>1, <2>2, NothingSaid DEF Leaving
<1>10. CASE ReadChunk \/ SeesDone \/ SeesSleep \/ SeesNothing
  <2>1. UNCHANGED <<pstate, cycle, target>> /\ Talks
    BY <1>10 DEF ReadChunk, ReadInto, SeesDone, SeesSleep, SeesNothing, Checking,
       protocolVars, roundVars, Talks
  <2>2. \/ Talks' /\ inbound' = inbound /\ hpc' \in {"read", "feed"}
        \/ hpc' = "post" /\ pstate = "FINISHED"
        \/ hpc' = "drain" /\ pstate = "SLEEPING"
    <3>1. CASE ReadChunk
      BY <3>1, ReadKeepsOrder DEF ReadChunk, ReadInto, Talks
    <3>2. CASE SeesNothing
      BY <3>2 DEF SeesNothing, Checking, LeaveIfCrashed, PlaceInv, linkVars, inbound, Talks
    <3>3. CASE SeesDone \/ SeesSleep
      BY <3>3 DEF SeesDone, SeesSleep, Checking
    <3> QED BY <1>10, <3>1, <3>2, <3>3
  <2> QED BY <1>3, <2>1, <2>2 DEF CycleInv, Talks, Leaving
<1>11. CASE DrainChunk \/ DrainCheck \/ DrainEnds \/ PostTest \/ LingerEnds
  <2>1. UNCHANGED <<pstate, cycle, target>> /\ Leaving /\ Leaving'
    BY <1>11 DEF DrainChunk, ReadInto, DrainCheck, DrainEnds, PostTest, LingerEnds, LingerOver,
       protocolVars, roundVars, Leaving
  <2>2. hpc' \in {"drain", "drainFeed"} => hpc \in {"drain", "drainFeed"}
    BY <1>11 DEF DrainChunk, ReadInto, DrainCheck, DrainEnds, PostTest, LingerEnds, LingerOver
  <2> QED BY <1>0, <1>2, <1>3, <2>1, <2>2 DEF CycleInv, Talks, Leaving
<1>12. CASE BusyIsOver
  <2>1. UNCHANGED <<pstate, cycle, target, hpc, handle, chunk, wire>>
    BY <1>12 DEF BusyIsOver, BusyExpires, runnerVars, roundVars, linkVars
  <2>2. Talks' = Talks /\ Leaving' = Leaving /\ inbound' = inbound
    BY <2>1 DEF Talks, Leaving, inbound
  <2> QED BY <1>0, <1>2, <1>3, <2>1, <2>2 DEF CycleInv
<1>13. CASE dpc = "dead" /\ ReadyTimeout
  <2>1. /\ hpc' = "drain" /\ pstate' = "WAITING_FOR_READY"
        /\ Case(Special("ready_timeout"), "ERRORED") \in cases'
    BY <1>13 DEF ReadyTimeout, EmptyRead, protocolVars
  <2>2. Red'
    BY <2>1, ErrorsAreRed, AddsRed
  <2> QED BY <1>2, <1>13, <2>1, <2>2 DEF Talks, Leaving
<1> QED BY <1>6, <1>7, <1>8, <1>9, <1>10, <1>11, <1>12, <1>13, HostDoes

LEMMA CycleStep ==
    ASSUME ProgressAssumed, RoundsIndInv, Steady, ~PowerLoss, ReadyInv, SkipInv,
           SleepInv, OrderInv, CycleInv,
           [Next]_vars
    PROVE  CycleInv'
<1>0. RoundsAssumed
  BY DEF ProgressAssumed
<1>1. CASE HostMoves /\ UNCHANGED session
  BY <1>0, <1>1, CycleByHost
<1>2. CASE UNCHANGED <<session, hostVars>> /\ (DeviceRuns \/ ReadyTimer \/ Faulty)
  <2>1. HostStays /\ UNCHANGED cases
    BY <1>2, BoardMoves DEF hostVars, runnerVars, reportVars
  <2> QED BY <1>2, <2>1, CycleByBoard
<1>3. CASE \/ (GarbleLine \/ GarbleMessage) /\ UNCHANGED <<session, hostVars, deviceVars>>
           \/ UNCHANGED vars
  <2>1. UNCHANGED <<ended, dpc, cycle, target, hpc, pstate, cases, chunk>>
    BY <1>3 DEF vars, hostVars, deviceVars, historyVars, runnerVars, roundVars, reportVars,
       protocolVars
  <2>2. UNCHANGED <<handle, wire>>
    BY <1>0, <1>3, NoSuchFaults DEF GarbleMessage, vars, linkVars
  <2>3. inbound' = inbound /\ Talks' = Talks /\ Leaving' = Leaving /\ Red' = Red
    BY <2>1, <2>2 DEF inbound, Talks, Leaving, Red
  <2>4. CycleRun' = CycleRun /\ Through(target)' = Through(target)
    BY <2>1 DEF CycleRun, PhaseTwo, Through, Asked
  <2> QED BY <2>1, <2>3, <2>4 DEF CycleInv
<1>4. CASE NewSession
  <2>1. cycle' = "first" /\ hpc' = "open"
    BY <1>4 DEF NewSession, Invoke
  <2> QED BY <2>1 DEF CycleInv, Talks, Leaving
<1> QED BY <1>1, <1>2, <1>3, <1>4 DEF Next, DeviceMoves, Mishap

-----------------------------------------------------------------------------
(* How a session ends.                                                      *)

(* When no cycle is left, every test has ended, or the board was dead.      *)
LEMMA NothingLeftToRun ==
    ASSUME RoundsAssumed, RoundsIndInv, CycleInv, NoMoreCycles
    PROVE  Red \/ (pstate = "FINISHED" /\ Asked \subseteq ended)
<1> USE DEF RoundsIndInv, RoundsInv
<1>1. hpc = "loop" /\ pstate # "SLEEPING" /\ ~AfterPhaseTwo /\ Leaving
  BY DEF NoMoreCycles, Leaving
<1>2. ~PhaseTwo
  <2> SUFFICES ASSUME PhaseTwo PROVE FALSE
    OBVIOUS
  <2>1. PICK t \in Tests : NameOf[t] = target
    BY DEF HistoryInv
  <2>2. target # ""
    BY <2>1, NameIsNotEmpty
  <2> QED BY <1>1, <2>2 DEF AfterPhaseTwo, PhaseTwo
<1> QED BY <1>1, <1>2 DEF CycleInv, CycleRun

(* A session is given up with an error case.                                *)
LEMMA GivenUpIsRed ==
    ASSUME RoundsAssumed, RoundsIndInv, GiveUp \/ OpenFails, hpc' = "finish"
    PROVE  Red'
<1> USE DEF RoundsIndInv, RoundsInv
<1>1. CASE GiveUp
  <2>1. pstate = "SLEEPING" /\ Case(Special(sleepName), "ERRORED") \in cases'
    BY <1>1 DEF GiveUp
  <2>2. PICK t \in Tests : NameOf[t] = sleepName
    BY <2>1 DEF HistoryInv
  <2>3. Special(sleepName) # NoLabel
    BY <2>2, NameIsNotEmpty, ErrorsAreRed
  <2> QED BY <2>1, <2>3, AddsRed
<1>2. CASE OpenFails
  <2>1. PICK kind \in {"serial_error", "runner_error"} : Raise(kind)
    BY <1>2 DEF OpenFails
  <2>2. Case(Special(kind), "ERRORED") \in cases'
    BY <2>1 DEF Raise
  <2>3. Special(kind) # NoLabel
    BY ErrorsAreRed
  <2> QED BY <2>2, <2>3, AddsRed
<1> QED BY <1>1, <1>2

(* Who brings the host to its last two places.                              *)
LEMMA ComesToEnd ==
    ASSUME RoundsAssumed, RoundsIndInv, Steady, SleepInv, HostMoves, UNCHANGED session
    PROVE  /\ hpc' = "finish" => \/ NoMoreCycles \/ GiveUp \/ OpenFails
                                 \/ hpc = "finish" /\ BusyIsOver
           /\ hpc' = "over" => Finish \/ (hpc = "over" /\ BusyIsOver)
<1>1. CASE \/ FirstOpen \/ LaterOpen \/ ReadChunk \/ FeedLine \/ SendCommand \/ SeesDone
           \/ SeesSleep \/ SeesNothing \/ DrainChunk \/ DrainCheck \/ DrainEnds \/ PostTest
           \/ AwaitWake \/ StartPhaseTwo \/ StartResume \/ LingerEnds \/ ReadyTimeout
  BY <1>1 DEF FirstOpen, LaterOpen, OpenPort, ReadChunk, ReadInto, FeedLine, SendCommand,
     SeesDone, SeesSleep, SeesNothing, Checking, LeaveIfCrashed, DrainChunk, DrainCheck,
     DrainEnds, PostTest, AwaitWake, StartPhaseTwo, StartResume, LingerEnds, LingerOver,
     ReadyTimeout
<1>2. CASE NoMoreCycles \/ GiveUp \/ OpenFails \/ Finish
  BY <1>2 DEF NoMoreCycles, GiveUp, OpenFails, Raise, Finish
<1>3. CASE BusyIsOver
  BY <1>3 DEF BusyIsOver, runnerVars
<1> QED BY <1>1, <1>2, <1>3, HostDoes

(* The next session aside, it is then over.                                 *)
LEMMA OverStays ==
    ASSUME RoundsAssumed, RoundsIndInv, Steady, SleepInv, HostMoves,
           UNCHANGED session, hpc = "over"
    PROVE  hpc' = "over" /\ Green' = Green
<1>1. ~(\/ FirstOpen \/ LaterOpen \/ ReadChunk \/ FeedLine \/ SendCommand \/ SeesDone
        \/ SeesSleep \/ SeesNothing \/ DrainChunk \/ DrainCheck \/ DrainEnds \/ PostTest
        \/ AwaitWake \/ GiveUp \/ StartPhaseTwo \/ StartResume \/ NoMoreCycles
        \/ Finish \/ LingerEnds \/ OpenFails \/ ReadyTimeout)
  BY DEF FirstOpen, LaterOpen, OpenPort, ReadChunk, FeedLine, SendCommand, SeesDone,
     SeesSleep, SeesNothing, Checking, DrainChunk, DrainCheck, DrainEnds, PostTest,
     AwaitWake, GiveUp, StartPhaseTwo, StartResume, NoMoreCycles, Finish, LingerEnds,
     LingerOver, OpenFails, ReadyTimeout, EmptyRead
<1>2. BusyIsOver
  BY <1>1, HostDoes
<1> QED BY <1>2 DEF BusyIsOver, runnerVars, reportVars, Green

LEMMA EndByHost ==
    ASSUME RoundsAssumed, RoundsIndInv, Steady, SleepInv, CycleInv, EndInv, HostMoves,
           UNCHANGED session
    PROVE  EndInv'
<1>1. Asked' = Asked /\ UNCHANGED ended
  BY HostLeavesBoard DEF Asked, deviceVars, historyVars, Boot
<1>2. Red => Red'
  BY RedStays
<1>3. ASSUME hpc' = "finish" PROVE Red' \/ (Asked \subseteq ended)'
  <2>1. CASE NoMoreCycles
    BY <1>1, <1>2, <2>1, NothingLeftToRun
  <2>2. CASE GiveUp \/ OpenFails
    BY <1>3, <2>2, GivenUpIsRed
  <2>3. CASE hpc = "finish"
    BY <1>1, <1>2, <2>3 DEF EndInv
  <2> QED BY <1>3, <2>1, <2>2, <2>3, ComesToEnd
<1>4. ASSUME hpc' = "over" PROVE ~Green' \/ (Asked \subseteq ended)'
  <2>1. CASE Finish
    <3>1. hpc = "finish"
      BY <2>1 DEF Finish
    <3>2. Red' => ~Green'
      BY <1>4 DEF Red, Green
    <3> QED BY <1>1, <1>2, <3>1, <3>2 DEF EndInv
  <2>2. CASE hpc = "over" /\ BusyIsOver
    <3>1. Green' = Green
      BY <2>2 DEF BusyIsOver, runnerVars, reportVars, Green
    <3> QED BY <1>1, <2>2, <3>1 DEF EndInv
  <2> QED BY <1>4, <2>1, <2>2, ComesToEnd
<1> QED BY <1>3, <1>4 DEF EndInv

LEMMA EndStep ==
    ASSUME ProgressAssumed, RoundsIndInv, Steady, SleepInv, CycleInv, EndInv,
           [Next]_vars
    PROVE  EndInv'
<1>0. RoundsAssumed
  BY DEF ProgressAssumed
<1>1. CASE HostMoves /\ UNCHANGED session
  BY <1>0, <1>1, EndByHost
<1>2. CASE UNCHANGED <<session, hostVars>> /\ (DeviceRuns \/ ReadyTimer \/ Faulty)
  <2>1. UNCHANGED <<hpc, cases>> /\ Asked' = Asked /\ ended \subseteq ended'
    BY <1>0, <1>2, EndedGrows DEF hostVars, runnerVars, reportVars, Asked
  <2>2. Red' = Red /\ Green' = Green
    BY <2>1 DEF Red, Green
  <2> QED BY <2>1, <2>2 DEF EndInv
<1>3. CASE \/ (GarbleLine \/ GarbleMessage) /\ UNCHANGED <<session, hostVars, deviceVars>>
           \/ UNCHANGED vars
  <2>1. UNCHANGED <<ended, hpc, cases>> /\ Asked' = Asked
    BY <1>3 DEF vars, hostVars, deviceVars, historyVars, runnerVars, reportVars, Asked
  <2>2. Red' = Red /\ Green' = Green
    BY <2>1 DEF Red, Green
  <2> QED BY <2>1, <2>2 DEF EndInv
<1>4. CASE NewSession
  <2>1. hpc' = "open"
    BY <1>4 DEF NewSession, Invoke
  <2> QED BY <2>1 DEF EndInv
<1> QED BY <1>1, <1>2, <1>3, <1>4 DEF Next, DeviceMoves, Mishap

-----------------------------------------------------------------------------
(* What becomes of a failure.                                               *)

(* The failures of this cycle that the host has not read yet.               *)
FailUnread == Talks /\ Says(inbound, "FAIL")
Reported ==
    failures # {} =>
        /\ hpc \in {"post", "linger", "loop"} /\ pstate = "FINISHED" => Red
        /\ hpc = "finish" => Red

LEMMA FailedIs ==
    FailedInv <=>
        /\ NoLabel \notin failures
        /\ ended \cap Failing \subseteq failed
        /\ failed # {} => failures # {} \/ FailUnread \/ hpc = "over"
        /\ Reported
        /\ hpc = "over" => ~Green \/ failed = {}
BY DEF FailedInv, FailUnread, Reported

(* A test ends only after what it has to print.                             *)
LEMMA FailedByBoard ==
    ASSUME ProgressAssumed, RoundsIndInv, Steady, ~PowerLoss, ReadyInv, SkipInv,
           FailedInv, HostStays,
           UNCHANGED <<cases, failures>>, DeviceRuns \/ ReadyTimer \/ Faulty
    PROVE  FailedInv'
<1>0. RoundsAssumed
  BY DEF ProgressAssumed
<1>1. UNCHANGED <<hpc, pstate>> /\ Talks' = Talks
  BY DEF HostStays, Talks
<1>2. Red' = Red /\ Green' = Green
  BY <1>1 DEF Red, Green
<1>3. (ended \cap Failing \subseteq failed)'
  <2>1. CASE EndTest
    <3>1. UNCHANGED failed /\ ended' = ended \cup {cur} /\ HasFailed(cur)
      BY <2>1 DEF EndTest, BodyDone
    <3> QED BY <3>1 DEF FailedInv, HasFailed
  <2>2. CASE UNCHANGED ended
    BY <1>0, <2>2, EndedGrows DEF FailedInv
  <2> QED BY <1>0, <2>1, <2>2, EndedGrows
<1>4. FailUnread => FailUnread'
  BY <1>1, WhatIsSaid DEF FailUnread
<1>5. CASE FailAssertion
  <2>1. Talks /\ hpc # "over"
    <3>1. Running
      BY <1>5 DEF FailAssertion, Running
    <3> QED BY <3>1, RunIsHeard DEF Talks
  <2>2. FailUnread'
    BY <1>1, <1>5, <2>1, WhatIsSaid DEF FailUnread
  <2>3. Reported' /\ NoLabel \notin failures'
    BY <1>1, <1>2, FailedIs DEF Reported
  <2> QED BY <1>1, <1>3, <2>1, <2>2, <2>3, FailedIs DEF FailedInv, FailUnread, Reported
<1>6. CASE UNCHANGED failed
  BY <1>1, <1>2, <1>3, <1>4, <1>6 DEF FailedInv, FailUnread
<1> QED BY <1>0, <1>5, <1>6, EndedGrows

-----------------------------------------------------------------------------
(* The host hears every failure.                                            *)

LEMMA FailuresNamed ==
    ASSUME HostMoves, NoLabel \notin failures
    PROVE  NoLabel \notin failures' /\ (FeedLine \/ UNCHANGED failures)
<1>1. CASE FeedLine
  <2>1. /\ "unknown" # "" /\ Named(CurrentTestFull', "unknown") # NoLabel
    BY ErrorsAreRed DEF Named
  <2>2. failures' = failures \/ failures' = failures \cup {Named(CurrentTestFull', "unknown")}
    BY <1>1 DEF FeedLine
  <2> QED BY <1>1, <2>1, <2>2
<1>2. CASE ~FeedLine
  <2>1. UNCHANGED failures
    BY <1>2 DEF HostMoves, FirstOpen, LaterOpen, OpenPort, HostSteps, TimesOut, ReadyTimeout,
       HangTimeout, BusyIsOver, runnerVars, reportVars, WakeWaitOver, StartPhaseTwo, LingerEnds,
       LingerOver, OpenGivesUp, OpenFails, Raise, ReadChunk, ReadInto, SendCommand, SendRaises,
       SeesDone, SeesError, SeesSleep, SeesNothing, LeavesForOldCrash, PortGoneWhileRunning,
       ReadRaises, DrainChunk, DrainCheck, DrainEnds, PostTest, AwaitWake, GiveUp, StartResume,
       NoMoreCycles, Finish
  <2> QED BY <2>1
<1> QED BY <1>1, <1>2

(* A host that turns away has read them all.                                *)
LEMMA AllIsRead ==
    ASSUME RoundsAssumed, RoundsIndInv, Steady, SleepInv, HostMoves,
           UNCHANGED session, FailUnread
    PROVE  FailUnread' \/ failures' # {}
<1> USE DEF RoundsIndInv, RoundsInv
<1>1. CASE FeedLine
  <2>1. /\ UNCHANGED hpc
        /\ Says(inbound, "FAIL") <=> Head(inbound).tag = "FAIL" \/ Says(inbound', "FAIL")
    BY <1>1, FeedEnds
  <2>2. CASE Head(inbound).tag = "FAIL"
    <3>1. Head(chunk) = Head(inbound) /\ Head(inbound).crc # "bad"
      <4>1. chunk \in Seq(AnyLine) /\ wire \in Seq(AnyLine) /\ chunk # <<>>
        BY <1>1, LinesArrive DEF FeedLine
      <4> QED BY <1>1, <4>1, HeadAndTail, FeedsOne DEF inbound
    <3>2. Heard(Head(chunk), "FAIL")
      BY <2>2, <3>1 DEF Heard
    <3>3. Named(CurrentTestFull', "unknown") \in failures'
      BY <1>1, <3>2 DEF FeedLine
    <3> QED BY <3>3
  <2> QED BY <2>1, <2>2 DEF FailUnread, Talks
<1>2. CASE ReadChunk
  BY <1>2, ReadKeepsOrder DEF FailUnread, Talks, ReadChunk, ReadInto
<1>3. CASE SendCommand \/ SeesNothing
  <2>1. hpc' = "read" /\ UNCHANGED <<handle, chunk, wire>>
    BY <1>3 DEF SendCommand, SeesNothing, Checking, LeaveIfCrashed, PlaceInv, linkVars
  <2>2. inbound' = inbound
    BY <2>1 DEF inbound
  <2> QED BY <2>1, <2>2 DEF FailUnread, Talks
<1>4. ~SeesDone /\ ~SeesSleep /\ ~ReadyTimeout
  <2>1. CASE SeesDone
    <3>1. chunk = <<>> /\ pstate = "FINISHED" /\ Talks
      BY <2>1 DEF SeesDone, Checking, FailUnread
    <3>2. handle = "live" => AllReady(inbound)
      BY <3>1 DEF EndedInv
    <3>3. handle # "live" => inbound = <<>>
      BY <3>1 DEF inbound
    <3> QED BY <3>2, <3>3, NothingSaid DEF FailUnread, AllReady, Says
  <2>2. CASE SeesSleep
    <3>1. inbound = <<>>
      BY <2>2 DEF SeesSleep, Checking, EndedInv, FailUnread
    <3> QED BY <3>1, NothingSaid DEF FailUnread
  <2>3. CASE ReadyTimeout
    <3>1. chunk = <<>> /\ wire = <<>>
      BY <2>3, Quiet DEF ReadyTimeout, EmptyRead
    <3>2. inbound = <<>>
      BY <3>1 DEF inbound
    <3> QED BY <3>2, NothingSaid DEF FailUnread
  <2> QED BY <2>1, <2>2, <2>3
<1>5. CASE BusyIsOver
  <2>1. UNCHANGED <<hpc, handle, chunk, wire>>
    BY <1>5 DEF BusyIsOver, runnerVars, linkVars
  <2> QED BY <2>1 DEF FailUnread, Talks, inbound
<1>6. hpc \in {"read", "feed"}
  BY DEF FailUnread, Talks
<1>7. ~(FirstOpen \/ LaterOpen \/ DrainChunk \/ DrainCheck \/ DrainEnds \/ PostTest
          \/ AwaitWake \/ GiveUp \/ StartPhaseTwo \/ StartResume \/ NoMoreCycles
          \/ Finish \/ LingerEnds \/ OpenFails)
  BY <1>6 DEF FirstOpen, LaterOpen, OpenPort, DrainChunk, DrainCheck, DrainEnds, PostTest,
     AwaitWake, GiveUp, StartPhaseTwo, StartResume, NoMoreCycles, Finish, LingerEnds,
     LingerOver, OpenFails
<1> QED BY <1>1, <1>2, <1>3, <1>4, <1>5, <1>7, HostDoes

(* ... and reports them before it goes on.                                  *)
LEMMA ReportedByHost ==
    ASSUME RoundsAssumed, RoundsIndInv, Steady, SleepInv, CycleInv,
           NoLabel \notin failures, Reported,
           HostMoves, UNCHANGED session
    PROVE  Reported'
<1> USE DEF RoundsIndInv, RoundsInv
<1> SUFFICES ASSUME failures' # {}
             PROVE  /\ hpc' \in {"post", "linger", "loop"} /\ pstate' = "FINISHED" => Red'
                    /\ hpc' = "finish" => Red'
  BY DEF Reported
<1>1. FeedLine \/ UNCHANGED failures
  BY FailuresNamed
<1>2. Red => Red'
  BY RedStays
<1>3. ASSUME hpc' = "finish" PROVE Red'
  <2>1. CASE NoMoreCycles
    <3>1. hpc = "loop" /\ UNCHANGED failures
      BY <2>1 DEF NoMoreCycles, reportVars
    <3> QED BY <1>2, <2>1, <3>1, NothingLeftToRun DEF Reported
  <2>2. CASE GiveUp \/ OpenFails
    BY <1>3, <2>2, GivenUpIsRed
  <2>3. CASE hpc = "finish" /\ BusyIsOver
    BY <1>2, <2>3 DEF Reported, BusyIsOver, runnerVars, reportVars
  <2> QED BY <1>3, <2>1, <2>2, <2>3, ComesToEnd
<1>4. ASSUME hpc' \in {"post", "linger", "loop"}, pstate' = "FINISHED" PROVE Red'
  <2>1. CASE SeesDone
    <3>1. PICK f \in failures : f # NoLabel
      BY <2>1 DEF SeesDone
    <3>2. Case(f, "FAILED") \in cases'
      BY <2>1, <3>1 DEF SeesDone, WithFailures
    <3> QED BY <3>1, <3>2, AddsRed
  <2>2. CASE DrainCheck \/ DrainEnds
    <3>1. hpc \in {"drain", "drainFeed"} /\ UNCHANGED pstate
      BY <2>2 DEF DrainCheck, DrainEnds, protocolVars
    <3> QED BY <1>4, <3>1 DEF CycleInv
  <2>3. CASE PostTest \/ LingerEnds \/ BusyIsOver
    <3>1. /\ hpc \in {"post", "linger", "loop"} /\ UNCHANGED <<pstate, failures>>
      BY <1>4, <2>3 DEF PostTest, LingerEnds, LingerOver, BusyIsOver, BusyExpires, runnerVars,
         reportVars, protocolVars
    <3> QED BY <1>2, <1>4, <3>1 DEF Reported
  <2>4. ~(\/ FirstOpen \/ LaterOpen \/ ReadChunk \/ FeedLine \/ SendCommand \/ SeesSleep
          \/ SeesNothing \/ DrainChunk \/ AwaitWake \/ StartPhaseTwo \/ StartResume
          \/ NoMoreCycles \/ GiveUp \/ Finish \/ OpenFails \/ ReadyTimeout)
    BY <1>4 DEF FirstOpen, LaterOpen, OpenPort, ReadChunk, ReadInto, FeedLine, SendCommand,
       SeesSleep, SeesNothing, Checking, LeaveIfCrashed, DrainChunk, AwaitWake, StartPhaseTwo,
       StartResume, NoMoreCycles, GiveUp, Finish, OpenFails, Raise, ReadyTimeout
  <2> QED BY <2>1, <2>2, <2>3, <2>4, HostDoes
<1> QED BY <1>3, <1>4

LEMMA FailedByHost ==
    ASSUME RoundsAssumed, RoundsIndInv, Steady, SleepInv, CycleInv, FailedInv,
           HostMoves,
           UNCHANGED session
    PROVE  FailedInv'
<1>1. UNCHANGED <<ended, failed>>
  BY HostLeavesBoard DEF deviceVars, historyVars, Boot
<1>2. NoLabel \notin failures /\ Reported
  BY FailedIs
<1>3. NoLabel \notin failures' /\ Reported'
  BY <1>2, FailuresNamed, ReportedByHost
<1>4. failures # {} => failures' # {}
  <2>1. CASE FeedLine
    BY <2>1 DEF FeedLine
  <2> QED BY <1>2, <2>1, FailuresNamed
<1>5. hpc = "over" => hpc' = "over" /\ Green' = Green
  BY OverStays
<1>6. failed' # {} => failures' # {} \/ FailUnread' \/ hpc' = "over"
  BY <1>1, <1>4, <1>5, AllIsRead, FailedIs
<1>7. ASSUME hpc' = "over" PROVE ~Green' \/ failed' = {}
  <2>1. CASE Finish
    <3>1. hpc = "finish" /\ ~FailUnread
      BY <2>1 DEF Finish, FailUnread, Talks
    <3>2. failed # {} => Red
      BY <3>1, FailedIs DEF Reported
    <3>3. Red' => ~Green'
      BY <1>7 DEF Red, Green
    <3> QED BY <1>1, <3>2, <3>3, RedStays
  <2>2. CASE hpc = "over"
    BY <1>1, <1>5, <2>2 DEF FailedInv
  <2> QED BY <1>7, <2>1, <2>2, ComesToEnd
<1>8. (ended \cap Failing \subseteq failed)'
  BY <1>1 DEF FailedInv
<1> QED BY <1>3, <1>6, <1>7, <1>8 DEF FailedInv, FailUnread, Reported

LEMMA FailedStep ==
    ASSUME ProgressAssumed, RoundsIndInv, Steady, ~PowerLoss, ReadyInv, SkipInv,
           SleepInv, CycleInv, FailedInv,
           [Next]_vars
    PROVE  FailedInv'
<1>0. RoundsAssumed
  BY DEF ProgressAssumed
<1>1. CASE HostMoves /\ UNCHANGED session
  BY <1>0, <1>1, FailedByHost
<1>2. CASE UNCHANGED <<session, hostVars>> /\ (DeviceRuns \/ ReadyTimer \/ Faulty)
  <2>1. HostStays /\ UNCHANGED <<cases, failures>>
    BY <1>2, BoardMoves DEF hostVars, runnerVars, reportVars
  <2> QED BY <1>2, <2>1, FailedByBoard
<1>3. CASE \/ (GarbleLine \/ GarbleMessage) /\ UNCHANGED <<session, hostVars, deviceVars>>
           \/ UNCHANGED vars
  <2>1. UNCHANGED <<ended, failed, hpc, pstate, cases, failures, chunk>>
    BY <1>3 DEF vars, hostVars, deviceVars, historyVars, runnerVars, reportVars, protocolVars
  <2>2. UNCHANGED <<handle, wire>>
    BY <1>0, <1>3, NoSuchFaults DEF GarbleMessage, vars, linkVars
  <2>3. inbound' = inbound /\ Talks' = Talks /\ Red' = Red /\ Green' = Green
    BY <2>1, <2>2 DEF inbound, Talks, Red, Green
  <2> QED BY <2>1, <2>3 DEF FailedInv
<1>4. CASE NewSession
  <2>1. hpc' = "open" /\ failures' = {} /\ failed' = {} /\ ended' = {}
    BY <1>4 DEF NewSession, Invoke
  <2> QED BY <2>1 DEF FailedInv
<1> QED BY <1>1, <1>2, <1>3, <1>4 DEF Next, DeviceMoves, Mishap

-----------------------------------------------------------------------------
(* The invariant.                                                           *)

PlanIndInv == RoundsIndInv /\ ReadyInv /\ SkipInv /\ PlanInv

LEMMA PlanInitially == RoundsAssumed /\ Init => PlanIndInv
<1> SUFFICES ASSUME RoundsAssumed, Init PROVE PlanIndInv
  OBVIOUS
<1>1. RoundsIndInv /\ ReadyInv /\ SkipInv
  BY ProgressInitially DEF ProgressIndInv, ProgressInv
<1>2. /\ dpc = "init" /\ begun = {} /\ ended = {} /\ failed = {}
      /\ hpc = "open" /\ cycle = "first" /\ failures = {}
      /\ pstate = "WAITING_FOR_READY" /\ handle = "closed"
  BY DEF Init, DeviceInit, RunnerInit, ProtocolInit, LinkInit
<1>3. OrderInv /\ SleepInv
  BY <1>2 DEF OrderInv, SleepInv, Running
<1>4. CycleInv /\ EndInv /\ FailedInv
  BY <1>2 DEF CycleInv, EndInv, FailedInv, Talks, Leaving
<1> QED BY <1>1, <1>3, <1>4 DEF PlanIndInv, PlanInv

LEMMA PlanIndStep ==
    ASSUME ProgressAssumed, Steady, ~PowerLoss, PlanIndInv, [Next]_vars
    PROVE  PlanIndInv'
<1>1. /\ ProgressAssumed /\ RoundsAssumed /\ RoundsIndInv /\ ReadyInv /\ SkipInv
      /\ OrderInv /\ SleepInv /\ CycleInv /\ EndInv /\ FailedInv
  BY DEF ProgressAssumed, PlanIndInv, PlanInv
<1>2. RoundsIndInv'
  BY <1>1, RoundsStep
<1>3. ReadyInv' /\ SkipInv'
  BY <1>1, <1>2, ReadyStep, SkipStep
<1>4. dpc = "wait" /\ Connected /\ cycle = "resume" => Through(target)
  BY <1>1 DEF CycleInv, Connected, Talks
<1>5. OrderInv' /\ SleepInv' /\ CycleInv' /\ EndInv' /\ FailedInv'
  BY <1>1, <1>2, <1>4, OrderStep, SleepStep, CycleStep, EndStep, FailedStep
<1> QED BY <1>2, <1>3, <1>5 DEF PlanIndInv, PlanInv

-----------------------------------------------------------------------------
(* The session as a TestPlan.                                               *)

LastOfAll(B) == IF B = {} THEN 0 ELSE CHOOSE t \in B : \A u \in B : u <= t
Reached == LastOfAll(begun)
Outcome == IF hpc # "over" THEN "none" ELSE IF Green THEN "green" ELSE "red"

LEMMA PlanIs ==
    /\ Plan!planVars = <<Reached, ended, Outcome>>
    /\ Plan!Init <=> Reached = 0 /\ ended = {} /\ Outcome = "none"
    /\ \A t : Plan!Take(t) <=>
          /\ Outcome # "green"
          /\ t > Reached /\ \A u \in Asked : u < t => u <= Reached
          /\ Reached' = t /\ UNCHANGED <<ended, Outcome>>
    /\ Plan!End <=>
          /\ Outcome # "green" /\ Reached # 0 /\ Reached \notin ended
          /\ ended' = ended \cup {Reached} /\ UNCHANGED <<Reached, Outcome>>
    /\ Plan!Pass <=>
          /\ Outcome = "none" /\ ended = Asked /\ Asked \cap Failing = {}
          /\ Outcome' = "green" /\ UNCHANGED <<Reached, ended>>
    /\ Plan!Fail <=>
          Outcome = "none" /\ Outcome' = "red" /\ UNCHANGED <<Reached, ended>>
    /\ Plan!Again <=>
          /\ Outcome # "none"
          /\ Reached' = 0 /\ ended' = {} /\ Outcome' = "none"
    /\ Plan!Next <=> \/ \E t \in Asked : Plan!Take(t)
                     \/ Plan!End \/ Plan!Pass \/ Plan!Fail \/ Plan!Again
BY DEF Plan!planVars, Plan!Init, Plan!Take, Plan!End, Plan!Pass, Plan!Fail, Plan!Again,
   Plan!Next, Reached, LastOfAll, Outcome

LEMMA LastIs ==
    ASSUME NEW B, B \subseteq Nat, NEW t \in B, \A u \in B : u <= t
    PROVE  LastOfAll(B) = t
<1>1. \A s \in B : (\A u \in B : u <= s) => s = t
  <2> SUFFICES ASSUME NEW s \in B, \A u \in B : u <= s PROVE s = t
    OBVIOUS
  <2>1. s <= t /\ t <= s /\ s \in Nat /\ t \in Nat
    OBVIOUS
  <2> QED BY <2>1
<1> QED BY <1>1 DEF LastOfAll

LEMMA LastIsLast ==
    ASSUME NEW B, B \subseteq Tests, B # {}
    PROVE  LastOfAll(B) \in B /\ \A u \in B : u <= LastOfAll(B)
<1>1. N \in Nat /\ B \in SUBSET (1..N)
  BY RegistryAssumption DEF Tests
<1>2. \E t \in B : \A u \in B : u <= t
  BY <1>1, LastExists
<1> QED BY <1>2 DEF LastOfAll

LEMMA TakesUp ==
    ASSUME ProgressAssumed, PlanIndInv, OrderInv', StartTest, UNCHANGED <<hpc, cases>>
    PROVE  UNCHANGED <<Reached, ended, Outcome>> \/ \E t \in Asked : Plan!Take(t)
<1> USE DEF PlanIndInv, PlanInv, RoundsIndInv, RoundsInv
<1>0. RoundsAssumed /\ ProgressAssumed
  BY DEF ProgressAssumed
<1>1. PICK t \in todo : begun' = begun \cup {t}
  BY DEF StartTest
<1>2. Running /\ UNCHANGED ended
  BY DEF StartTest, Running
<1>3. Outcome' = Outcome /\ Outcome # "green"
  <2>1. hpc # "over"
    BY <1>2, RunIsHeard
  <2> QED BY <2>1 DEF Outcome
<1>4. t \in Asked /\ begun \subseteq Asked /\ Asked \subseteq Tests /\ Asked \subseteq Nat
      /\ 0 \notin Tests
  BY <1>0, <1>1, <1>2, AskedAreNumbers, TestsAreNumbers DEF OrderInv
<1>5. CASE t \in begun
  <2>1. begun' = begun
    BY <1>1, <1>5
  <2> QED BY <1>2, <1>3, <2>1 DEF Reached
<1>6. CASE t \notin begun
  <2>1. ~wake
    <3>1. MayRun(t)
      BY <1>1, <1>2 DEF RunInv
    <3>2. ~(naps[t] > 0)
      BY <1>4, <1>6 DEF HistoryInv
    <3> QED BY <3>1, <3>2 DEF MayRun
  <2>2. \A b \in begun : b < t
    BY <1>1, <1>2, <2>1 DEF RunInv
  <2>3. Reached' = t
    <3>1. begun' \subseteq Nat /\ t \in begun'
      BY <1>1, <1>4
    <3>2. \A u \in begun' : u <= t
      <4>1. ASSUME NEW u \in begun' PROVE u <= t
        <5>1. u \in Nat /\ t \in Nat /\ (u < t \/ u = t)
          BY <1>1, <1>4, <2>2, <3>1
        <5> QED BY <5>1
      <4> QED BY <4>1
    <3>3. LastOfAll(begun') = t
      BY <3>1, <3>2, LastIs
    <3> QED BY <3>3 DEF Reached, LastOfAll
  <2>4. t > Reached
    <3>1. CASE begun = {}
      <4>1. t \in Nat /\ t # 0 /\ Reached = 0
        BY <1>4, <3>1 DEF Reached, LastOfAll
      <4> QED BY <4>1
    <3>2. CASE begun # {}
      <4>1. begun \subseteq Tests
        BY <1>4
      <4>2. Reached \in begun
        BY <3>2, <4>1, LastIsLast DEF Reached
      <4>3. Reached \in Nat /\ t \in Nat /\ Reached < t
        BY <1>4, <2>2, <4>2
      <4> QED BY <4>3
    <3> QED BY <3>1, <3>2
  <2>5. ASSUME NEW u \in Asked, u < t PROVE u <= Reached
    <3>1. u \in ended
      <4>1. Asked' = Asked
        BY DEF Asked
      <4> QED BY <1>1, <1>2, <2>5, <4>1 DEF OrderInv
    <3>2. u \in begun /\ begun \subseteq Tests
      BY <1>4, <3>1 DEF HistoryInv
    <3> QED BY <3>2, LastIsLast DEF Reached
  <2> QED BY <1>2, <1>3, <1>4, <2>3, <2>4, <2>5, PlanIs
<1> QED BY <1>5, <1>6

LEMMA PlanEnds ==
    ASSUME ProgressAssumed, PlanIndInv, EndTest, UNCHANGED <<hpc, cases>>
    PROVE  Plan!End
<1> USE DEF PlanIndInv, PlanInv, RoundsIndInv, RoundsInv
<1>0. RoundsAssumed /\ ProgressAssumed
  BY DEF ProgressAssumed
<1>1. Running /\ dpc \in {"test", "quiet"} /\ ended' = ended \cup {cur} /\ UNCHANGED begun
  BY DEF EndTest, BodyDone, Running
<1>2. Outcome' = Outcome /\ Outcome # "green"
  <2>1. hpc # "over"
    BY <1>1, RunIsHeard
  <2> QED BY <2>1 DEF Outcome
<1>3. cur \in begun /\ UpTo(cur) /\ cur \notin ended
  BY <1>1 DEF RunInv, MayRun
<1>4. begun \subseteq Nat /\ 0 \notin begun
  <2>1. begun \subseteq Tests
    BY <1>0, AskedAreNumbers DEF OrderInv
  <2> QED BY <2>1, TestsAreNumbers
<1>5. Reached = cur
  BY <1>3, <1>4, LastIs DEF Reached, UpTo
<1>6. Reached' = Reached
  BY <1>1 DEF Reached
<1> QED BY <1>1, <1>2, <1>3, <1>4, <1>5, <1>6, PlanIs

(* Only these two steps of the board can be seen in the plan.               *)
LEMMA OthersAreQuiet ==
    ASSUME RoundsAssumed, RoundsIndInv, Steady, DeviceRuns \/ ReadyTimer \/ Faulty,
           ~StartTest, ~EndTest
    PROVE  UNCHANGED <<begun, ended>>
<1>1. /\ ~Crash /\ ~SilentReset /\ ~Reboot
      /\ ~ReceivePowerCommand /\ ~ReceiveIdleCommand /\ ~RunStandalone
  BY NoSuchFaults, NoControls
<1> QED BY <1>1 DEF DeviceRuns, Faulty, BoardInit, EmitReady, ReceiveArgs, ReceiveBad,
     ReceiveCommand, FailAssertion, SignalBusy, SignalSleep, GoDown, FinishCycle,
     BoardInitFails, Hang, Unhang, PowerLoss, Oversleep, PowerUp, Boot, ReadyTimer,
     IntervalElapses, historyVars

(* A verdict is given once, and a green one is earned.                      *)
LEMMA VerdictByHost ==
    ASSUME ProgressAssumed, Steady, PlanIndInv, PlanIndInv', HostMoves,
           UNCHANGED session
    PROVE  UNCHANGED <<Reached, ended, Outcome>> \/ Plan!Pass \/ Plan!Fail
<1> USE DEF PlanIndInv, PlanInv, RoundsIndInv, RoundsInv
<1>0. RoundsAssumed /\ ProgressAssumed
  BY DEF ProgressAssumed
<1>1. UNCHANGED <<begun, ended, failed>>
  BY HostLeavesBoard DEF deviceVars, historyVars, Boot
<1>2. Reached' = Reached
  BY <1>1 DEF Reached
<1>3. CASE hpc = "over"
  <2>1. hpc' = "over" /\ Green' = Green
    BY <1>0, <1>3, OverStays
  <2> QED BY <1>1, <1>2, <1>3, <2>1 DEF Outcome
<1>4. CASE hpc # "over" /\ hpc' # "over"
  BY <1>1, <1>2, <1>4 DEF Outcome
<1>5. CASE hpc # "over" /\ hpc' = "over"
  <2>1. Outcome = "none"
    BY <1>5 DEF Outcome
  <2>2. CASE Green'
    <3>1. Outcome' = "green"
      BY <1>5, <2>2 DEF Outcome
    <3>2. Asked' = Asked /\ begun \subseteq Asked /\ ended \subseteq begun
      BY DEF Asked, OrderInv, HistoryInv
    <3>3. Asked \subseteq ended /\ failed = {}
      BY <1>1, <1>5, <2>2, <3>2 DEF EndInv, FailedInv
    <3>4. ended = Asked /\ Asked \cap Failing = {}
      BY <3>2, <3>3 DEF FailedInv
    <3> QED BY <1>1, <1>2, <2>1, <3>1, <3>4, PlanIs
  <2>3. CASE ~Green'
    <3>1. Outcome' = "red"
      BY <1>5, <2>3 DEF Outcome
    <3> QED BY <1>1, <1>2, <2>1, <3>1, PlanIs
  <2> QED BY <2>2, <2>3
<1> QED BY <1>3, <1>4, <1>5

LEMMA PlanStep ==
    ASSUME ProgressAssumed, Steady, PlanIndInv, PlanIndInv', [Next]_vars
    PROVE  [Plan!Next]_(Plan!planVars)
<1>0. RoundsAssumed /\ RoundsIndInv /\ OrderInv'
  BY DEF ProgressAssumed, PlanIndInv, PlanInv
<1>1. SUFFICES UNCHANGED <<Reached, ended, Outcome>> \/ Plan!Next
  BY DEF Plan!planVars, Reached, LastOfAll, Outcome
<1>2. CASE HostMoves /\ UNCHANGED session
  BY <1>2, VerdictByHost, PlanIs
<1>3. CASE UNCHANGED <<session, hostVars>> /\ (DeviceRuns \/ ReadyTimer \/ Faulty)
  <2>1. UNCHANGED <<hpc, cases>>
    BY <1>3 DEF hostVars, runnerVars, reportVars
  <2>2. CASE StartTest
    BY <1>0, <2>1, <2>2, TakesUp, PlanIs
  <2>3. CASE EndTest
    BY <2>1, <2>3, PlanEnds, PlanIs
  <2>4. CASE ~StartTest /\ ~EndTest
    <3>1. UNCHANGED <<begun, ended>>
      BY <1>0, <1>3, <2>4, OthersAreQuiet
    <3> QED BY <2>1, <3>1 DEF Reached, Outcome, Green
  <2> QED BY <2>2, <2>3, <2>4
<1>4. CASE \/ (GarbleLine \/ GarbleMessage) /\ UNCHANGED <<session, hostVars, deviceVars>>
           \/ UNCHANGED vars
  <2>1. UNCHANGED <<begun, ended, hpc, cases>>
    BY <1>4 DEF vars, hostVars, deviceVars, historyVars, runnerVars, reportVars
  <2> QED BY <2>1 DEF Reached, Outcome, Green
<1>5. CASE NewSession
  <2>1. hpc = "over" /\ hpc' = "open" /\ begun' = {} /\ ended' = {}
    BY <1>5 DEF NewSession, Invoke
  <2>2. Outcome # "none" /\ Outcome' = "none" /\ Reached' = 0
    BY <2>1 DEF Outcome, Reached, LastOfAll
  <2> QED BY <2>1, <2>2, PlanIs
<1> QED BY <1>2, <1>3, <1>4, <1>5 DEF Next, DeviceMoves, Mishap

-----------------------------------------------------------------------------
(* The board without faults that break a cycle off.                         *)

(* The faults are mild, and the link does not lose the port by itself.      *)
PlanAssumed == ProgressAssumed /\ MildFaults /\ "drop" \notin FaultKinds

PlanSafe == PlanIndInv /\ dpc # "hung"

LEMMA MildKeepsPort ==
    ASSUME PlanAssumed, dpc # "hung", [Next]_vars
    PROVE  Steady /\ ~PowerLoss /\ dpc' # "hung"
<1>1. ~PowerLoss
  BY DEF PlanAssumed, PowerLoss, Fault
<1> QED BY <1>1, MildIsSteady DEF PlanAssumed

LEMMA PlanHolds ==
    ASSUME PlanAssumed
    PROVE  Spec => []PlanSafe
<1>1. PlanAssumed /\ ProgressAssumed /\ RoundsAssumed
  BY DEF PlanAssumed, ProgressAssumed
<1>2. Init => PlanSafe
  BY <1>1, PlanInitially DEF PlanSafe, Init, DeviceInit
<1>3. PlanSafe /\ [Next]_vars => PlanSafe'
  BY <1>1, PlanIndStep, MildKeepsPort DEF PlanSafe
<1> QED BY <1>2, <1>3, PTL DEF Spec

-----------------------------------------------------------------------------
(* The board with faults that break a cycle off: a test hangs or crashes.   *)

(* The board may also hang or crash, if no other session comes after: the   *)
(* history of the next would start with what the board still runs of this.  *)
BreakAssumed ==
    /\ ProgressAssumed /\ Len(Resets) = 1
    /\ FaultKinds \subseteq {"hang", "crash", "oversleep", "garbleCommand", "init"}
    /\ "garbleCommand" \in FaultKinds => ArgsLines = <<>>

(* All is well, or the verdict is going to be red, or it is already.        *)
Story == PlanIndInv \/ CrashComing \/ Red
StoryInv == SessionInv /\ Story

LEMMA CrashAdds ==
    ASSUME NEW S, NEW s \in Seq(S), NEW ln \in S,
           \/ CrashIn(s)
           \/ AllOfRun(s) /\ ln.tag = "CRASH" /\ ln.crc # "bad"
    PROVE  CrashIn(s \o <<ln>>)
<1> DEFINE more == s \o <<ln>>
<1>1. /\ DOMAIN more = 1..(Len(s) + 1) /\ DOMAIN s = 1..Len(s) /\ Len(s) \in Nat
      /\ \A i \in 1..Len(s) : more[i] = s[i]
      /\ more[Len(s) + 1] = ln
  BY OneMoreLine
<1> HIDE DEF more
<1>2. /\ \A i \in 1..Len(s) : i \in 1..(Len(s) + 1)
      /\ \A i \in 1..Len(s), j \in 1..(Len(s) + 1) : j < i => j \in 1..Len(s)
      /\ \A j \in 1..(Len(s) + 1) : j < Len(s) + 1 => j \in 1..Len(s)
      /\ Len(s) + 1 \in 1..(Len(s) + 1)
  BY <1>1
<1>3. CASE CrashIn(s)
  <2>1. PICK i \in 1..Len(s) : /\ s[i].tag = "CRASH" /\ s[i].crc # "bad"
                               /\ \A j \in 1..Len(s) : j < i => s[j].tag \in RunTags
    BY <1>1, <1>3 DEF CrashIn
  <2>2. /\ i \in DOMAIN more /\ more[i].tag = "CRASH" /\ more[i].crc # "bad"
        /\ \A j \in DOMAIN more : j < i => more[j].tag \in RunTags
    BY <1>1, <1>2, <2>1
  <2> QED BY <2>2 DEF CrashIn, more
<1>4. CASE AllOfRun(s) /\ ln.tag = "CRASH" /\ ln.crc # "bad"
  <2>1. \A j \in DOMAIN more : j < Len(s) + 1 => more[j].tag \in RunTags
    BY <1>1, <1>2, <1>4 DEF AllOfRun
  <2> QED BY <1>1, <1>2, <1>4, <2>1 DEF CrashIn, more
<1> QED BY <1>3, <1>4

LEMMA CrashTakes ==
    ASSUME NEW S, NEW s \in Seq(S), CrashIn(s)
    PROVE  /\ s # <<>>
           /\ \/ Heard(Head(s), "CRASH")
              \/ Head(s).tag \in RunTags /\ CrashIn(Tail(s))
<1>1. PICK i \in DOMAIN s : /\ s[i].tag = "CRASH" /\ s[i].crc # "bad"
                            /\ \A j \in DOMAIN s : j < i => s[j].tag \in RunTags
  BY DEF CrashIn
<1>2. s # <<>>
  BY <1>1
<1>3. /\ Head(s) = s[1] /\ Len(s) \in Nat \ {0} /\ DOMAIN s = 1..Len(s)
      /\ DOMAIN Tail(s) = 1..(Len(s) - 1)
      /\ \A j \in 1..(Len(s) - 1) : Tail(s)[j] = s[j + 1]
  BY <1>2, OneLineLess
<1>4. CASE i = 1
  BY <1>1, <1>2, <1>3, <1>4 DEF Heard
<1>5. CASE i # 1
  <2> DEFINE rest == Tail(s)
             n == i - 1
  <2>1. n \in DOMAIN rest /\ rest[n] = s[i] /\ 1 \in DOMAIN s /\ 1 < i
    BY <1>3, <1>5
  <2>2. ASSUME NEW j \in DOMAIN rest, j < n PROVE rest[j].tag \in RunTags
    <3>1. j + 1 \in DOMAIN s /\ j + 1 < i /\ rest[j] = s[j + 1]
      BY <1>3, <2>2
    <3> QED BY <1>1, <3>1
  <2> HIDE DEF rest, n
  <2>3. CrashIn(rest) /\ s[1].tag \in RunTags
    BY <1>1, <2>1, <2>2 DEF CrashIn
  <2> QED BY <1>2, <1>3, <2>3 DEF rest
<1> QED BY <1>4, <1>5

(* A crash is on its way as soon as it happens.                             *)
LEMMA CrashIsSaid ==
    ASSUME PlanIndInv, Crash, UNCHANGED hostVars
    PROVE  CrashComing'
<1> USE DEF PlanIndInv, RoundsIndInv, RoundsInv
<1> DEFINE dump == Console("CRASH")
<1>1. /\ Running /\ Emit(<<dump>>) /\ dpc' = "crashed"
      /\ UNCHANGED <<port, handle, toDev>>
  BY DEF Crash, Running
<1>2. /\ Connected /\ handle = "live" /\ toDev = <<>> /\ AllOfRun(inbound)
      /\ ~crashed /\ ~finishedByRunner
  BY <1>1, RunIsHeard DEF PlaceInv
<1>3. inbound \in Seq(AnyLine) /\ wire \in Seq(AnyLine) /\ chunk \in Seq(AnyLine)
  BY LinesArrive
<1>4. dump \in AnyLine
  BY OtherLines DEF DeviceTags, LinesOf
<1>5. dump.tag = "CRASH" /\ dump.crc # "bad"
  BY DEF Console, Tagged, Line
<1>6. UNCHANGED <<hpc, chunk, pstate, crashed, finishedByRunner>>
  BY DEF hostVars, runnerVars, reportVars, protocolVars
<1> HIDE DEF dump
<1>7. wire' = wire \o <<dump>>
  BY <1>1, <1>2 DEF Emit
<1>8. inbound' = inbound \o <<dump>>
  BY <1>1, <1>2, <1>3, <1>4, <1>6, <1>7 DEF inbound
<1>9. CrashIn(inbound \o <<dump>>)
  BY <1>2, <1>3, <1>4, <1>5, CrashAdds
<1>10. CrashIn(inbound')
  BY <1>8, <1>9
<1>11. Connected'
  BY <1>1, <1>2, <1>6 DEF Connected, Talks
<1> QED BY <1>1, <1>2, <1>6, <1>10, <1>11 DEF CrashComing

(* The host reads on until it has heard of the crash.                       *)
LEMMA CrashByHost ==
    ASSUME SessionInv, CrashComing, HostMoves
    PROVE  CrashComing' \/ Red'
<1>1. /\ hpc \in {"read", "feed"} /\ handle = "live" /\ pstate = "RUNNING"
      /\ toDev = <<>> /\ ~crashed /\ ~finishedByRunner /\ CrashIn(inbound)
      /\ inbound = chunk \o wire
  BY DEF CrashComing, Connected, Talks, inbound
<1>2. inbound \in Seq(AnyLine) /\ wire \in Seq(AnyLine) /\ chunk \in Seq(AnyLine)
  BY LinesArrive
<1>3. inbound # <<>> /\ (hpc = "read" => chunk = <<>>)
  BY <1>1, <1>2, CrashTakes DEF SessionInv, HostInv, RunnerTypeOK
<1>4. ~EmptyRead
  BY <1>1, <1>2, <1>3 DEF EmptyRead
<1>5. /\ UNCHANGED deviceVars
      /\ ReadChunk \/ FeedLine \/ SeesNothing \/ BusyIsOver
  <2>1. UNCHANGED deviceVars
    BY <1>1 DEF HostMoves, FirstOpen, LaterOpen, OpenPort
  <2>2. HostSteps \/ TimesOut \/ BusyIsOver \/ WakeWaitOver \/ LingerEnds \/ OpenGivesUp
    BY <1>1 DEF HostMoves, FirstOpen, LaterOpen, OpenPort
  <2>3. ~TimesOut
    BY <1>4 DEF TimesOut, ReadyTimeout, HangTimeout
  <2>4. ~WakeWaitOver /\ ~LingerEnds /\ ~OpenGivesUp
    BY <1>1 DEF WakeWaitOver, StartPhaseTwo, LingerEnds, LingerOver, OpenGivesUp, OpenFails
  <2>5. ~(SendCommand \/ SendRaises \/ SeesDone \/ SeesError \/ SeesSleep
             \/ LeavesForOldCrash \/ PortGoneWhileRunning \/ ReadRaises)
    BY <1>1 DEF SendCommand, SendRaises, SeesDone, SeesError, SeesSleep, LeavesForOldCrash,
       PortGoneWhileRunning, ReadRaises
  <2>6. ~(DrainChunk \/ DrainCheck \/ DrainEnds \/ PostTest \/ AwaitWake \/ GiveUp
             \/ StartResume \/ NoMoreCycles \/ Finish)
    BY <1>1 DEF DrainChunk, DrainCheck, DrainEnds, PostTest, AwaitWake, GiveUp, StartResume,
       NoMoreCycles, Finish
  <2> QED BY <2>1, <2>2, <2>3, <2>4, <2>5, <2>6 DEF HostSteps
<1>6. UNCHANGED dpc
  BY <1>5 DEF deviceVars
<1>7. CASE ReadChunk
  <2>1. /\ hpc' = "feed"
        /\ UNCHANGED <<pstate, crashed, finishedByRunner, handle, toDev>>
        /\ chunk = <<>>
        /\ \E k \in 1..Len(wire) : /\ chunk' = SubSeq(wire, 1, k)
                                   /\ wire' = SubSeq(wire, k + 1, Len(wire))
    BY <1>3, <1>7 DEF ReadChunk, ReadInto, protocolVars, reportVars
  <2>2. inbound' = inbound
    <3>1. PICK k \in 1..Len(wire) : /\ chunk' = SubSeq(wire, 1, k)
                                    /\ wire' = SubSeq(wire, k + 1, Len(wire))
      BY <2>1
    <3>2. chunk' \o wire' = wire
      BY <1>2, <3>1
    <3> QED BY <1>1, <1>2, <2>1, <3>2 DEF inbound
  <2>3. CrashIn(inbound')
    BY <1>1, <2>2
  <2> QED BY <1>1, <1>6, <2>1, <2>3 DEF CrashComing, Connected, Talks
<1>8. CASE FeedLine
  <2> DEFINE ln == Head(chunk)
  <2>1. /\ UNCHANGED <<hpc, handle, wire, toDev>> /\ chunk # <<>> /\ Feed(ln)
    BY <1>8 DEF FeedLine, linkVars
  <2>2. Head(inbound) = ln /\ Tail(inbound) = Tail(chunk) \o wire
    BY <1>1, <1>2, <2>1, HeadAndTail
  <2>3. CASE Heard(ln, "CRASH")
    <3>1. Case(Named(CurrentTestFull', "crash"), "ERRORED") \in cases'
      BY <1>1, <1>8, <2>3 DEF FeedLine
    <3>2. Named(CurrentTestFull', "crash") # NoLabel
      BY DEF Named, Special, Label, NoLabel
    <3> QED BY <3>1, <3>2, AddsRed
  <2>4. CASE ~Heard(ln, "CRASH")
    <3>1. ln.tag \in RunTags /\ CrashIn(Tail(inbound))
      BY <1>1, <1>2, <2>2, <2>4, CrashTakes
    <3>2. ~crashed' /\ ~finishedByRunner' /\ chunk' = Tail(chunk)
      BY <1>1, <1>8, <2>4 DEF FeedLine
    <3>3. inbound' = Tail(inbound)
      BY <1>1, <2>1, <2>2, <3>2 DEF inbound
    <3>4. CrashIn(inbound')
      BY <3>1, <3>3
    <3>5. pstate' = "RUNNING"
      BY <1>1, <2>1, <3>1 DEF Feed, FeedReadyWhileWaiting, FeedArgs, FeedError,
         FeedReadyWhileRunning, FeedCaseStart, FeedCounts, FeedSleep, FeedBusy, FeedDone,
         FeedIgnored, Heard, RunTags, protocolVars
    <3> QED BY <1>1, <1>6, <2>1, <3>2, <3>4, <3>5 DEF CrashComing, Connected, Talks
  <2> QED BY <2>3, <2>4
<1>9. CASE SeesNothing \/ BusyIsOver
  <2>1. /\ hpc' \in {"read", "feed"}
        /\ UNCHANGED <<chunk, pstate, crashed, finishedByRunner, handle, wire, toDev>>
    BY <1>1, <1>9 DEF SeesNothing, LeaveIfCrashed, BusyIsOver, BusyExpires, protocolVars,
       runnerVars, reportVars, linkVars
  <2>2. inbound' = inbound
    BY <2>1 DEF inbound
  <2>3. CrashIn(inbound')
    BY <1>1, <2>2
  <2> QED BY <1>1, <1>6, <2>1, <2>3 DEF CrashComing, Connected, Talks
<1> QED BY <1>5, <1>7, <1>8, <1>9

(* The board reboots and asks for a command, which the host does not send:  *)
(* what it writes comes after the dump.                                     *)
LEMMA CrashByBoard ==
    ASSUME BreakAssumed, SessionInv, CrashComing, UNCHANGED hostVars,
           DeviceRuns \/ ReadyTimer \/ Faulty
    PROVE  CrashComing'
<1>1. /\ handle = "live" /\ toDev = <<>> /\ CrashIn(inbound)
      /\ dpc \in {"crashed", "init", "wait", "dead"}
  BY DEF CrashComing, Connected
<1>2. inbound \in Seq(AnyLine) /\ wire \in Seq(AnyLine) /\ chunk \in Seq(AnyLine)
  BY LinesArrive
<1>3. UNCHANGED <<hpc, chunk, pstate, crashed, finishedByRunner>>
  BY DEF hostVars, runnerVars, reportVars, protocolVars
<1>4. BoardInit \/ EmitReady \/ Reboot \/ ReadyTimer \/ BoardInitFails
  <2>1. ~SilentReset /\ ~PowerLoss
    BY DEF BreakAssumed, SilentReset, PowerLoss, Fault
  <2>2. ~(ReceiveArgs \/ ReceiveBad \/ ReceiveCommand \/ ReceivePowerCommand
             \/ ReceiveIdleCommand \/ RunStandalone)
    BY <1>1 DEF ReceiveArgs, ReceiveBad, ReceiveCommand, Receives, ReceivePowerCommand,
       ReceiveIdleCommand, RunStandalone, BreakAssumed, ProgressAssumed, RoundsAssumed
  <2>3. ~(StartTest \/ FailAssertion \/ SignalBusy \/ EndTest \/ SignalSleep \/ GoDown
             \/ PowerUp \/ FinishCycle \/ Hang \/ Unhang \/ Crash \/ Oversleep)
    BY <1>1 DEF StartTest, FailAssertion, SignalBusy, EndTest, BodyDone, SignalSleep, GoDown,
       PowerUp, FinishCycle, Hang, Unhang, Crash, Oversleep
  <2> QED BY <2>1, <2>2, <2>3 DEF DeviceRuns, Faulty
<1>5. /\ UNCHANGED handle /\ toDev' = <<>>
      /\ dpc' \in {"crashed", "init", "wait", "dead"}
  BY <1>1, <1>4 DEF BoardInit, EmitReady, Reboot, Boot, ReadyTimer, IntervalElapses,
     BoardInitFails, linkVars
<1>6. UNCHANGED wire \/ \E ln \in AnyLine : wire' = wire \o <<ln>>
  <2>1. Tagged("READY") \in AnyLine /\ Tagged("ERROR") \in AnyLine
    BY OtherLines DEF DeviceTags, Tags, LinesOf
  <2>2. \/ UNCHANGED wire \/ Emit(<<Tagged("READY")>>) \/ Emit(<<Tagged("ERROR")>>)
    BY <1>4 DEF BoardInit, EmitReady, Reboot, ReadyTimer, IntervalElapses, BoardInitFails,
       linkVars
  <2> QED BY <1>1, <2>1, <2>2 DEF Emit
<1>7. CrashIn(inbound')
  <2>1. CASE UNCHANGED wire
    <3>1. inbound' = inbound
      BY <1>3, <1>5, <2>1 DEF inbound
    <3> QED BY <1>1, <3>1
  <2>2. CASE \E ln \in AnyLine : wire' = wire \o <<ln>>
    <3>1. PICK ln \in AnyLine : wire' = wire \o <<ln>>
      BY <2>2
    <3>2. inbound' = inbound \o <<ln>>
      BY <1>1, <1>2, <1>3, <1>5, <3>1 DEF inbound
    <3>3. CrashIn(inbound \o <<ln>>)
      BY <1>1, <1>2, CrashAdds
    <3> QED BY <3>2, <3>3
  <2> QED BY <1>6, <2>1, <2>2
<1> QED BY <1>3, <1>5, <1>7 DEF CrashComing, Connected, Talks

(* What is red stays red, whatever happens, until the session is over.      *)
LEMMA RedKeeps ==
    ASSUME [Next]_vars, ~NewSession, Red
    PROVE  Red'
<1>1. ASSUME cases \subseteq cases' PROVE Red'
  BY <1>1 DEF Red
<1>2. CASE FirstOpen \/ LaterOpen \/ ReadChunk \/ FeedLine \/ SendCommand \/ SendRaises
           \/ SeesDone \/ SeesError \/ SeesSleep \/ SeesNothing \/ LeavesForOldCrash
           \/ PortGoneWhileRunning \/ ReadRaises
  <2>1. cases \subseteq cases'
    BY <1>2 DEF FirstOpen, LaterOpen, OpenPort, ReadChunk, ReadInto, FeedLine, SendCommand,
       SendRaises, SeesDone, WithFailures, SeesError, SeesSleep, SeesNothing,
       LeavesForOldCrash, PortGoneWhileRunning, ReadRaises, Raise, reportVars
  <2> QED BY <1>1, <2>1
<1>3. CASE DrainChunk \/ DrainCheck \/ DrainEnds \/ PostTest \/ AwaitWake \/ GiveUp
           \/ StartResume \/ NoMoreCycles \/ TimesOut \/ BusyIsOver \/ WakeWaitOver
           \/ LingerEnds \/ OpenGivesUp
  <2>1. cases \subseteq cases'
    BY <1>3 DEF DrainChunk, ReadInto, DrainCheck, WithFailures, DrainEnds, PostTest,
       AwaitWake, GiveUp, StartResume, NoMoreCycles, TimesOut, ReadyTimeout, HangTimeout,
       BusyIsOver, WakeWaitOver, StartPhaseTwo, LingerEnds, LingerOver, OpenGivesUp,
       OpenFails, Raise, runnerVars, reportVars
  <2> QED BY <1>1, <2>1
<1>4. CASE Finish
  <2>1. KeptCases \subseteq cases'
    BY <1>4 DEF Finish
  <2> QED BY <2>1 DEF Red, KeptCases
<1>5. CASE DeviceMoves \/ Mishap \/ UNCHANGED vars
  <2>1. UNCHANGED cases
    BY <1>5 DEF DeviceMoves, Mishap, vars, hostVars, runnerVars, reportVars
  <2> QED BY <1>1, <2>1
<1> QED BY <1>2, <1>3, <1>4, <1>5 DEF Next, HostMoves, HostSteps

(* A host that gives a silent board up reports it.                          *)
LEMMA TimeoutIsRed ==
    ASSUME TimesOut
    PROVE  Red'
<1>1. \/ Case(Special("ready_timeout"), "ERRORED") \in cases'
      \/ Case(Named(CurrentTestFull, "unknown"), "ERRORED") \in cases'
  BY DEF TimesOut, ReadyTimeout, HangTimeout
<1>2. Special("ready_timeout") # NoLabel /\ Named(CurrentTestFull, "unknown") # NoLabel
  BY DEF Named, Special, Label, NoLabel
<1> QED BY <1>1, <1>2, AddsRed

LEMMA StoryStep ==
    ASSUME BreakAssumed, StoryInv, [Next]_vars
    PROVE  StoryInv'
<1>1. ProgressAssumed /\ RoundsAssumed /\ LaterSessionsReset /\ TestsInSuites
  BY DEF BreakAssumed, ProgressAssumed, RoundsAssumed
<1>2. SessionInv /\ SessionInv'
  BY <1>1, SessionStep DEF StoryInv
<1>3. ~NewSession
  <2>1. session \in DOMAIN Resets
    BY <1>2 DEF SessionInv, HostInv
  <2>2. session \in 1..1
    BY <2>1, SessionAssumption DEF BreakAssumed
  <2> QED BY <2>2 DEF NewSession, BreakAssumed
<1>4. CASE PlanIndInv
  <2>1. CASE Crash
    <3>1. UNCHANGED hostVars
      <4>1. ~HostMoves /\ ~UNCHANGED vars
        BY <2>1 DEF Crash, HostMoves, FirstOpen, LaterOpen, OpenPort, Boot, vars, deviceVars
      <4> QED BY <1>3, <4>1 DEF Next, DeviceMoves, Mishap
    <3> QED BY <1>2, <1>4, <2>1, <3>1, CrashIsSaid DEF Story, StoryInv
  <2>2. CASE dpc = "hung" /\ TimesOut
    BY <1>2, <2>2, TimeoutIsRed DEF Story, StoryInv
  <2>3. CASE ~Crash /\ ~(dpc = "hung" /\ TimesOut)
    <3>1. Steady /\ ~PowerLoss
      BY <2>3 DEF BreakAssumed, Steady, SilentReset, GarbleLine, GarbleMessage, PowerLoss,
         Fault
    <3> QED BY <1>1, <1>2, <1>4, <3>1, PlanIndStep DEF Story, StoryInv
  <2> QED BY <2>1, <2>2, <2>3
<1>5. CASE CrashComing
  <2>1. CASE HostMoves
    BY <1>2, <1>5, <2>1, CrashByHost DEF Story, StoryInv
  <2>2. CASE UNCHANGED hostVars /\ (DeviceRuns \/ ReadyTimer \/ Faulty)
    BY <1>2, <1>5, <2>2, CrashByBoard DEF Story, StoryInv
  <2>3. ~GarbleLine /\ ~GarbleMessage
    BY <1>5 DEF BreakAssumed, GarbleLine, GarbleMessage, Fault, CrashComing
  <2>4. CASE UNCHANGED vars
    <3>1. /\ UNCHANGED <<hpc, chunk, pstate, crashed, finishedByRunner>>
          /\ UNCHANGED <<dpc, handle, wire, toDev>>
      BY <2>4 DEF vars, hostVars, deviceVars, linkVars, runnerVars, reportVars, protocolVars
    <3>2. inbound' = inbound
      BY <3>1 DEF inbound
    <3>3. CrashIn(inbound')
      BY <1>5, <3>2 DEF CrashComing
    <3>4. CrashComing'
      BY <1>5, <3>1, <3>3 DEF CrashComing, Connected, Talks
    <3> QED BY <1>2, <3>4 DEF Story, StoryInv
  <2> QED BY <1>3, <2>1, <2>2, <2>3, <2>4 DEF Next, DeviceMoves, Mishap
<1>6. CASE Red
  BY <1>2, <1>3, <1>6, RedKeeps DEF Story, StoryInv
<1> QED BY <1>4, <1>5, <1>6 DEF Story, StoryInv

LEMMA RedIsNotGreen ==
    ASSUME CrashComing \/ Red
    PROVE  ~Green
<1>1. CASE CrashComing
  BY <1>1 DEF CrashComing, Connected, Talks, Green
<1>2. CASE Red
  BY <1>2 DEF Red, Green
<1> QED BY <1>1, <1>2

LEMMA StoryHolds ==
    ASSUME BreakAssumed
    PROVE  Spec => []StoryInv
<1>1. BreakAssumed /\ RoundsAssumed
  BY DEF BreakAssumed, ProgressAssumed
<1>2. Init => StoryInv
  BY <1>1, PlanInitially DEF StoryInv, Story, PlanIndInv, RoundsIndInv
<1>3. StoryInv /\ [Next]_vars => StoryInv'
  BY <1>1, StoryStep
<1> QED BY <1>2, <1>3, PTL DEF Spec

-----------------------------------------------------------------------------
(* Theorems.                                                                *)

(* What has been run so far, where the board may sleep, and when the        *)
(* verdict is red: PlanInv is an invariant of every session on a board that *)
(* neither crashes nor hangs nor resets and a link that does not lose the   *)
(* port by itself.                                                          *)
THEOREM PlanInductive ==
    ASSUME PlanAssumed
    PROVE  Spec => []PlanInv
<1>1. PlanSafe => PlanInv
  BY DEF PlanSafe, PlanIndInv
<1> QED BY <1>1, PlanHolds, PTL

(* A green run is earned: _ensure_test_results() and                        *)
(* _check_for_under_run() give no green verdict while a test that was asked *)
(* for has not ended, whatever slept, woke late, was damaged or was sent    *)
(* again on the way, and in a session without a next one, whatever hung or  *)
(* crashed.                                                                 *)
THEOREM GreenIsEarnedAlways ==
    ASSUME PlanAssumed \/ BreakAssumed
    PROVE  Spec => []GreenIsEarned
<1>1. CASE PlanAssumed
  <2>1. PlanSafe => GreenIsEarned
    BY DEF PlanSafe, PlanIndInv, PlanInv, EndInv, GreenIsEarned, Green
  <2> QED BY <1>1, <2>1, PlanHolds, PTL
<1>2. CASE BreakAssumed
  <2>1. StoryInv => GreenIsEarned
    BY RedIsNotGreen DEF StoryInv, Story, PlanIndInv, PlanInv, EndInv, GreenIsEarned, Green
  <2> QED BY <1>2, <2>1, StoryHolds, PTL
<1> QED BY <1>1, <1>2

(* A failed assertion reaches the verdict: _check_test_failure() hears      *)
(* every one of them, and _report_test_failures() is called before the      *)
(* session ends, or another error case is there.                            *)
THEOREM FailuresAreRed ==
    ASSUME PlanAssumed \/ BreakAssumed
    PROVE  Spec => []FailureIsRed
<1>1. CASE PlanAssumed
  <2>1. PlanSafe => FailureIsRed
    BY DEF PlanSafe, PlanIndInv, PlanInv, FailedInv, FailureIsRed
  <2> QED BY <1>1, <2>1, PlanHolds, PTL
<1>2. CASE BreakAssumed
  <2>1. StoryInv => FailureIsRed
    BY RedIsNotGreen DEF StoryInv, Story, PlanIndInv, PlanInv, FailedInv, FailureIsRed, Green
  <2> QED BY <1>2, <2>1, StoryHolds, PTL
<1> QED BY <1>1, <1>2

(* The session implements its plan: the wanted tests are taken up in order, *)
(* none left out, each ends at most once and before the next, and a verdict *)
(* is given once, green only when all of them have ended and none failed.   *)
THEOREM SessionImplementsPlan ==
    ASSUME PlanAssumed
    PROVE  Spec => PlanSpec
<1>1. PlanAssumed /\ ProgressAssumed
  BY DEF PlanAssumed
<1>2. Init => Plan!Init
  <2>1. Init => Reached = 0 /\ ended = {} /\ Outcome = "none"
    BY DEF Init, DeviceInit, RunnerInit, Reached, LastOfAll, Outcome
  <2> QED BY <2>1, PlanIs
<1>3. PlanSafe /\ PlanSafe' /\ [Next]_vars => [Plan!Next]_(Plan!planVars)
  BY <1>1, PlanStep, MildKeepsPort DEF PlanSafe
<1> QED BY <1>2, <1>3, PlanHolds, PTL DEF Spec, PlanSpec, Plan!Spec

-----------------------------------------------------------------------------
(* What the host has seen.                                                  *)

(* A line behind the others, or the first of them.                          *)
LEMMA AnnouncesOneMore ==
    ASSUME NEW S, NEW s \in Seq(S), NEW ln \in S, NEW t
    PROVE  /\ Announces(s, t) => Announces(s \o <<ln>>, t)
           /\ ln.tag = "CASE:START" /\ ln.name = NameOf[t] => Announces(s \o <<ln>>, t)
<1> DEFINE more == s \o <<ln>>
<1>1. /\ DOMAIN more = 1..(Len(s) + 1) /\ DOMAIN s = 1..Len(s) /\ Len(s) \in Nat
      /\ \A i \in 1..Len(s) : more[i] = s[i]
      /\ more[Len(s) + 1] = ln
  BY OneMoreLine
<1>2. Len(s) + 1 \in 1..(Len(s) + 1) /\ \A i \in 1..Len(s) : i \in 1..(Len(s) + 1)
  BY <1>1
<1> HIDE DEF more
<1> QED BY <1>1, <1>2 DEF Announces, more

LEMMA AnnouncesOneLess ==
    ASSUME NEW S, NEW s \in Seq(S), s # <<>>, NEW t
    PROVE  Announces(s, t) => \/ Head(s).tag = "CASE:START" /\ Head(s).name = NameOf[t]
                              \/ Announces(Tail(s), t)
<1> DEFINE rest == Tail(s)
<1>1. /\ Head(s) = s[1] /\ Len(s) \in Nat \ {0} /\ DOMAIN s = 1..Len(s)
      /\ DOMAIN rest = 1..(Len(s) - 1)
      /\ \A i \in 1..(Len(s) - 1) : rest[i] = s[i + 1]
  BY OneLineLess
<1>2. \A i \in 1..Len(s) : i = 1 \/ i - 1 \in 1..(Len(s) - 1)
  BY <1>1, Shifted
<1>3. \A i \in 1..Len(s) : (i - 1) + 1 = i
  BY <1>1, Shifted
<1> HIDE DEF rest
<1>4. \A i \in 1..Len(s) : i = 1 \/ (i - 1 \in DOMAIN rest /\ rest[i - 1] = s[i])
  BY <1>1, <1>2, <1>3
<1> QED BY <1>1, <1>4 DEF Announces, rest

(* Only what runs announces tests.                                          *)
LEMMA NothingAnnounced ==
    ASSUME NEW t
    PROVE  ~Announces(<<>>, t) /\ \A s : AllReady(s) => ~Announces(s, t)
BY DEF Announces, AllReady

LEMMA SeenByBoard ==
    ASSUME ProgressAssumed, RoundsIndInv, Steady, ~PowerLoss, ReadyInv, SkipInv,
           SeenInv, HostStays,
           UNCHANGED <<completed, latched, expectedRun>>, DeviceRuns \/ ReadyTimer \/ Faulty
    PROVE  SeenInv'
<1> USE DEF RoundsIndInv, RoundsInv
<1>0. RoundsAssumed
  BY DEF ProgressAssumed
<1>1. UNCHANGED <<hpc, pstate>> /\ Talks' = Talks /\ \A t : Counted(t)' = Counted(t)
  BY DEF HostStays, Talks, Counted
<1>2. CASE StartTest
  <2>1. Talks /\ pstate = "RUNNING" /\ handle = "live"
    BY <1>2, RunIsHeard DEF StartTest, Running
  <2>2. PICK ln \in AnyLine, t \in Tests :
           /\ inbound' = inbound \o <<ln>>
           /\ ln.tag = "CASE:START" /\ begun' = begun \cup {t} /\ ln.name = NameOf[t]
    BY <1>2, <2>1, BoardSays
  <2>3. inbound \in Seq(AnyLine)
    BY LinesArrive
  <2>4. \A u : /\ Announces(inbound, u) => Announces(inbound', u)
               /\ ln.name = NameOf[u] => Announces(inbound', u)
    BY <2>2, <2>3, AnnouncesOneMore
  <2>5. \A u \in begun' : Counted(u) \/ Announces(inbound', u)
    BY <2>2, <2>4 DEF SeenInv
  <2> QED BY <1>1, <2>1, <2>5 DEF SeenInv
<1>3. CASE ~StartTest
  <2>1. begun' = begun
    <3>1. CASE EndTest
      BY <3>1 DEF EndTest
    <3>2. CASE ~EndTest
      BY <1>0, <1>3, <3>2, OthersAreQuiet
    <3> QED BY <3>1, <3>2
  <2>2. \A u : Announces(inbound, u) => Announces(inbound', u)
    <3>1. inbound \in Seq(AnyLine)
      BY LinesArrive
    <3>2. \/ inbound' = inbound
          \/ \E ln \in AnyLine : inbound' = inbound \o <<ln>>
      BY BoardSays
    <3> QED BY <3>1, <3>2, AnnouncesOneMore
  <2>3. \A u \in begun' : Counted(u) \/ (Talks /\ pstate = "RUNNING" /\ Announces(inbound', u))
    BY <2>1, <2>2 DEF SeenInv
  <2> QED BY <1>1, <2>3 DEF SeenInv
<1> QED BY <1>2, <1>3

(* The total is there once it is latched.                                   *)
LEMMA UnlatchedIsNone ==
    ASSUME NEW ln, Feed(ln), ~latched => expectedRun = 0
    PROVE  ~latched' => expectedRun' = 0
<1>1. CASE FeedCounts(ln)
  BY <1>1 DEF FeedCounts
<1>2. CASE ~FeedCounts(ln)
  <2>1. latched' = latched /\ expectedRun' = expectedRun
    BY <1>2 DEF Feed, FeedReadyWhileWaiting, FeedArgs, FeedError, FeedReadyWhileRunning,
       FeedCaseStart, FeedSleep, FeedBusy, FeedDone, FeedIgnored, sessionVars, protocolVars
  <2> QED BY <2>1, Zenon
<1> QED BY <1>1, <1>2

(* A line that announces a test is counted, and one that ends a cycle comes *)
(* after them all.                                                          *)
LEMMA SeenByFeed ==
    ASSUME RoundsAssumed, RoundsIndInv, RoundsIndInv', SeenInv, FeedLine,
           UNCHANGED begun
    PROVE  SeenInv'
<1> USE DEF RoundsIndInv, RoundsInv
<1> DEFINE ln == Head(inbound)
<1>1. /\ UNCHANGED hpc /\ hpc \in {"feed", "drainFeed"}
      /\ inbound \in Seq(AnyLine) /\ inbound # <<>> /\ inbound' = Tail(inbound)
      /\ Feed(ln) /\ ln.crc # "bad" /\ (ln.tag = "CASE:START" => ln.name # "")
  BY FeedsOne
<1> HIDE DEF ln
<1>2. completed \subseteq completed'
  BY <1>1 DEF Feed, FeedReadyWhileWaiting, FeedArgs, FeedError, FeedReadyWhileRunning,
     FeedCaseStart, FeedCounts, FeedSleep, FeedBusy, FeedDone, FeedIgnored, sessionVars,
     protocolVars
<1>3. ASSUME NEW t \in begun PROVE Counted(t)' \/ (Talks /\ pstate = "RUNNING" /\ Announces(inbound, t))'
  <2>1. CASE Counted(t)
    BY <1>2, <2>1 DEF Counted
  <2>2. CASE Talks /\ pstate = "RUNNING" /\ Announces(inbound, t)
    <3>1. \/ ln.tag = "CASE:START" /\ ln.name = NameOf[t]
          \/ Announces(inbound', t)
      BY <1>1, <2>2, AnnouncesOneLess DEF ln
    <3>2. CASE ln.tag = "CASE:START" /\ ln.name = NameOf[t]
      <4>1. FeedCaseStart(ln)
        BY <1>1, <2>2, <3>2 DEF Feed, FeedReadyWhileWaiting, FeedArgs, FeedError,
           FeedReadyWhileRunning, FeedCounts, FeedSleep, FeedBusy, FeedDone, FeedIgnored,
           ActsOn, Heard
      <4>2. Label(curSuite', ln.name) \in completed'
        BY <1>1, <3>2, <4>1 DEF FeedCaseStart
      <4>3. Label(curSuite', ln.name)[2] = NameOf[t]
        BY <3>2 DEF Label
      <4> QED BY <4>2, <4>3 DEF Counted
    <3>3. CASE Announces(inbound', t)
      <4>1. /\ ln.tag \in SleepTags \cup {"READY"} => inbound' = <<>>
            /\ ln.tag = "DONE" => AllReady(inbound')
            /\ ln.tag \in RunTags \cup SleepTags \cup {"DONE", "READY"}
        BY <1>1, <2>2, TakesInOrder DEF HeardInv, ln
      <4>2. ln.tag \in RunTags
        BY <3>3, <4>1, NothingAnnounced
      <4>3. pstate' = "RUNNING"
        BY <1>1, <2>2, <4>2 DEF RunTags, Feed, FeedReadyWhileWaiting, FeedArgs, FeedError,
           FeedReadyWhileRunning, FeedCaseStart, FeedCounts, FeedSleep, FeedBusy, FeedDone,
           FeedIgnored, Heard, protocolVars
      <4> QED BY <1>1, <2>2, <3>3, <4>3 DEF Talks
    <3> QED BY <3>1, <3>2, <3>3
  <2> QED BY <2>1, <2>2 DEF SeenInv
<1>4. ~latched' => expectedRun' = 0
  BY <1>1, UnlatchedIsNone DEF SeenInv
<1> QED BY <1>3, <1>4 DEF SeenInv

(* The host turns away from a cycle only when it has heard the end of it.   *)
LEMMA SeenByHost ==
    ASSUME RoundsAssumed, RoundsIndInv, Steady, RoundsIndInv', SleepInv, SeenInv,
           HostMoves,
           UNCHANGED session
    PROVE  SeenInv'
<1> USE DEF RoundsIndInv, RoundsInv
<1>1. UNCHANGED begun
  BY HostLeavesBoard DEF deviceVars, historyVars, Boot
<1>2. CASE FeedLine
  BY <1>1, <1>2, SeenByFeed
<1>3. CASE ~FeedLine
  <2>1. UNCHANGED <<latched, expectedRun>>
    BY <1>3, LatchStands
  <2>2. UNCHANGED completed
    BY <1>3 DEF HostMoves, FirstOpen, LaterOpen, OpenPort, HostSteps, TimesOut, ReadyTimeout,
       HangTimeout, BusyIsOver, BusyExpires, WakeWaitOver, StartPhaseTwo, LingerEnds, LingerOver,
       OpenGivesUp, OpenFails, ReadChunk, DrainChunk, ReadInto, SendCommand, SendRaises,
       SeesDone, SeesError, SeesSleep, SeesNothing, LeavesForOldCrash, PortGoneWhileRunning,
       ReadRaises, DrainCheck, DrainEnds, PostTest, AwaitWake, GiveUp, StartResume,
       NoMoreCycles, Finish, protocolVars, sessionVars, Reset, ResetForWake, CommandSent
  <2>3. ASSUME Talks, pstate = "RUNNING"
        PROVE  Talks' /\ pstate' = "RUNNING" /\ inbound' = inbound
    <3>1. ReadChunk \/ SeesNothing \/ BusyIsOver
      <4>1. ~(\/ FirstOpen \/ LaterOpen \/ SendCommand \/ SeesDone \/ SeesSleep
              \/ DrainChunk \/ DrainCheck \/ DrainEnds \/ PostTest
              \/ AwaitWake \/ GiveUp \/ StartPhaseTwo \/ StartResume \/ NoMoreCycles
              \/ Finish \/ LingerEnds \/ OpenFails \/ ReadyTimeout)
        BY <2>3 DEF Talks, FirstOpen, LaterOpen, OpenPort, SendCommand, Checking, SeesDone,
           SeesSleep, DrainChunk, DrainCheck, DrainEnds, PostTest, AwaitWake, GiveUp,
           StartPhaseTwo, StartResume, NoMoreCycles, Finish, LingerEnds, LingerOver,
           OpenFails, ReadyTimeout, EmptyRead
      <4> QED BY <1>3, <4>1, HostDoes
    <3>2. CASE ReadChunk
      <4>1. inbound' = inbound
        BY <3>2, ReadKeepsOrder
      <4> QED BY <2>3, <3>2, <4>1 DEF ReadChunk, ReadInto, Talks, protocolVars
    <3>3. CASE SeesNothing
      <4>1. ~crashed
        BY DEF PlaceInv
      <4> QED BY <2>3, <3>3, <4>1 DEF SeesNothing, LeaveIfCrashed, Talks, inbound, linkVars,
                 protocolVars
    <3>4. CASE BusyIsOver
      BY <2>3, <3>4 DEF BusyIsOver, BusyExpires, runnerVars, linkVars, Talks, inbound
    <3> QED BY <3>1, <3>2, <3>3, <3>4
  <2>4. \A t : Counted(t)' = Counted(t)
    BY <2>2 DEF Counted
  <2>5. \A t \in begun : Counted(t) \/ (Talks' /\ pstate' = "RUNNING" /\ Announces(inbound', t))
    BY <2>3 DEF SeenInv
  <2> QED BY <1>1, <2>1, <2>4, <2>5 DEF SeenInv
<1> QED BY <1>2, <1>3

LEMMA SeenStep ==
    ASSUME ProgressAssumed, RoundsIndInv, Steady, ~PowerLoss, RoundsIndInv', ReadyInv,
           SkipInv, SleepInv, SeenInv,
           [Next]_vars
    PROVE  SeenInv'
<1>0. RoundsAssumed
  BY DEF ProgressAssumed
<1>1. CASE HostMoves /\ UNCHANGED session
  BY <1>0, <1>1, SeenByHost
<1>2. CASE UNCHANGED <<session, hostVars>> /\ (DeviceRuns \/ ReadyTimer \/ Faulty)
  <2>1. HostStays /\ UNCHANGED <<completed, latched, expectedRun>>
    BY <1>2, BoardMoves DEF hostVars, protocolVars
  <2> QED BY <1>2, <2>1, SeenByBoard
<1>3. CASE \/ (GarbleLine \/ GarbleMessage) /\ UNCHANGED <<session, hostVars, deviceVars>>
           \/ UNCHANGED vars
  <2>1. UNCHANGED <<hpc, pstate, chunk, handle, wire, begun, completed, latched, expectedRun>>
    BY <1>0, <1>3, NoSuchFaults DEF GarbleMessage, vars, hostVars, deviceVars, historyVars,
       linkVars, runnerVars, protocolVars
  <2>2. inbound' = inbound /\ Talks' = Talks /\ \A t : Counted(t)' = Counted(t)
    BY <2>1 DEF inbound, Talks, Counted
  <2> QED BY <2>1, <2>2 DEF SeenInv
<1>4. CASE NewSession
  BY <1>4 DEF NewSession, Invoke, ProtocolNew, SeenInv
<1> QED BY <1>1, <1>2, <1>3, <1>4 DEF Next, DeviceMoves, Mishap

-----------------------------------------------------------------------------
(* What was retried.                                                        *)

(* The numbers are not cut where they matter: a history that counts fewer   *)
(* sleeps than the host allows would say less than it should.               *)
ReasonAssumed == CountsAssumed /\ MaxNaps > MaxSleepRetries

(* Only a sleep that the host hears of is announced to it.                  *)
LEMMA AnnouncedByHost ==
    ASSUME RoundsAssumed, RoundsIndInv, Steady, RoundsIndInv', SleepInv, HostMoves,
           UNCHANGED session,
           Announced', ~AwaitWake
    PROVE  Announced
<1> USE DEF RoundsIndInv, RoundsInv
<1>1. ~FirstOpen /\ ~LaterOpen /\ ~OpenFails /\ ~StartPhaseTwo /\ ~StartResume
  BY DEF FirstOpen, LaterOpen, OpenPort, OpenFails, Reset, StartPhaseTwo, ResetForWake,
     StartResume, protocolVars, Announced, Talks
<1>2. ~SendCommand
  <2>1. SendCommand => inbound' = <<>> /\ pstate' = "RUNNING"
    BY DEF SendCommand, Checking, CommandSent, AskedInv, Talks, inbound
  <2> QED BY <2>1, NothingSaid DEF Announced
<1>3. CASE FeedLine
  <2> DEFINE ln == Head(inbound)
  <2>1. /\ UNCHANGED hpc /\ hpc \in {"feed", "drainFeed"}
        /\ inbound \in Seq(AnyLine) /\ inbound # <<>> /\ inbound' = Tail(inbound)
        /\ Feed(ln) /\ ln.crc # "bad" /\ (ln.tag = "CASE:START" => ln.name # "")
    BY <1>3, FeedsOne
  <2>2. SaysSleep(inbound) <=> ln.tag \in SleepTags \/ SaysSleep(inbound')
    BY <2>1, Takes
  <2> HIDE DEF ln
  <2>3. /\ pstate' = "RUNNING" => pstate = "RUNNING"
        /\ pstate' = "SLEEPING" =>
              pstate = "SLEEPING" \/ (pstate = "RUNNING" /\ ln.tag \in SleepTags)
    BY <2>1 DEF Feed, FeedReadyWhileWaiting, FeedArgs, FeedError, FeedReadyWhileRunning,
       FeedCaseStart, FeedCounts, FeedSleep, FeedBusy, FeedDone, FeedIgnored, protocolVars,
       Heard, SleepTags
  <2>4. pstate = "RUNNING" => Talks
    BY <2>1 DEF PlaceInv, Talks
  <2> QED BY <2>1, <2>2, <2>3, <2>4 DEF Announced, Talks
<1>4. CASE ReadChunk \/ SeesNothing
  <2>1. UNCHANGED pstate /\ Talks
    BY <1>4 DEF ReadChunk, ReadInto, SeesNothing, Checking, protocolVars, Talks
  <2>2. inbound' = inbound /\ hpc # "wakeWait"
    BY <1>4, ReadKeepsOrder DEF ReadChunk, SeesNothing, Checking, linkVars, inbound
  <2> QED BY <2>1, <2>2 DEF Announced
<1>5. CASE \/ SeesDone \/ SeesSleep \/ DrainChunk \/ DrainCheck \/ DrainEnds \/ PostTest
           \/ GiveUp \/ NoMoreCycles \/ Finish \/ LingerEnds \/ ReadyTimeout
  <2>1. UNCHANGED pstate /\ hpc # "wakeWait" /\ ~Talks'
    BY <1>5 DEF SeesDone, SeesSleep, Checking, DrainChunk, ReadInto, DrainCheck, DrainEnds,
       PostTest, GiveUp, NoMoreCycles, Finish, LingerEnds, LingerOver, ReadyTimeout, EmptyRead,
       protocolVars, Talks
  <2> QED BY <2>1 DEF Announced
<1>6. CASE BusyIsOver
  <2>1. UNCHANGED <<pstate, hpc, handle, chunk, wire>>
    BY <1>6 DEF BusyIsOver, BusyExpires, runnerVars, linkVars
  <2>2. Talks' = Talks /\ inbound' = inbound
    BY <2>1 DEF Talks, inbound
  <2> QED BY <2>1, <2>2 DEF Announced
<1> QED BY <1>1, <1>2, <1>3, <1>4, <1>5, <1>6, HostDoes

LEMMA RetriedByWake ==
    ASSUME RoundsAssumed, RoundsIndInv, RetriedInv, AwaitWake, UNCHANGED <<begun,
           ended, naps>>
    PROVE  RetriedInv'
<1> USE DEF RoundsIndInv, RoundsInv
<1>1. /\ hpc = "loop" /\ hpc' = "wakeWait" /\ pstate = "SLEEPING"
      /\ retries' = [retries EXCEPT ![sleepName] = @ + 1]
  BY DEF AwaitWake
<1>2. Announced /\ ~Announced'
  BY <1>1 DEF Announced, Talks
<1>3. PICK t \in Tests : NameOf[t] = sleepName /\ Slept(t)
  BY <1>1 DEF HistoryInv
<1>4. retries[NameOf[t]] < naps[t]
  BY <1>2, <1>3 DEF RetriedInv
<1>5. /\ DOMAIN retries = Names \cup {""} /\ \A u \in Tests : NameOf[u] \in Names
      /\ naps \in [Tests -> Nat]
  BY DEF RoundsAssumed, TestsInSuites, SessionInv, HostInv, RunnerTypeOK, TypesInv
<1>6. ASSUME NEW u \in Tests PROVE retries'[NameOf[u]] <= naps'[u]
  <2>1. CASE u = t
    <3>1. retries'[NameOf[u]] = retries[NameOf[t]] + 1
      BY <1>1, <1>3, <1>5, <2>1
    <3>2. retries[NameOf[t]] \in Nat /\ naps[t] \in Nat /\ naps' = naps
      BY <1>5, RetriesAreNumbers
    <3> QED BY <1>4, <2>1, <3>1, <3>2
  <2>2. CASE u # t
    <3>1. NameOf[u] # sleepName
      BY <1>3, <2>2 DEF RoundsAssumed
    <3>2. retries'[NameOf[u]] = retries[NameOf[u]] /\ naps' = naps
      BY <1>1, <1>5, <3>1
    <3> QED BY <3>2 DEF RetriedInv
  <2> QED BY <2>1, <2>2
<1> QED BY <1>2, <1>6 DEF RetriedInv

LEMMA RetriedByHost ==
    ASSUME RoundsAssumed, RoundsIndInv, Steady, RoundsIndInv', SleepInv, RetriedInv,
           HostMoves,
           UNCHANGED session
    PROVE  RetriedInv'
<1>1. UNCHANGED <<begun, ended, naps>>
  BY HostLeavesBoard DEF deviceVars, historyVars, Boot
<1>2. CASE AwaitWake
  BY <1>1, <1>2, RetriedByWake
<1>3. CASE ~AwaitWake
  <2>1. UNCHANGED retries
    <3>1. CASE FeedLine \/ OpenFails \/ BusyIsOver
      BY <3>1 DEF FeedLine, OpenFails, Raise, BusyIsOver, runnerVars, roundVars
    <3>2. CASE FirstOpen \/ LaterOpen \/ ReadChunk \/ SendCommand \/ SeesDone \/ SeesSleep
             \/ SeesNothing \/ DrainChunk \/ DrainCheck \/ DrainEnds \/ PostTest
             \/ GiveUp \/ StartPhaseTwo \/ StartResume \/ NoMoreCycles \/ Finish
             \/ LingerEnds \/ ReadyTimeout
      BY <3>2 DEF FirstOpen, LaterOpen, OpenPort, ReadChunk, ReadInto, SendCommand, SeesDone,
         SeesSleep, SeesNothing, DrainChunk, DrainCheck, DrainEnds, PostTest, GiveUp,
         StartPhaseTwo, StartResume, NoMoreCycles, Finish, LingerEnds, LingerOver,
         ReadyTimeout, roundVars
    <3> QED BY <1>3, <3>1, <3>2, HostDoes
  <2>2. Announced' => Announced
    BY <1>3, AnnouncedByHost
  <2>3. \A t : Slept(t)' <=> Slept(t)
    BY <1>1, HistoryStands
  <2> QED BY <1>1, <2>1, <2>2, <2>3 DEF RetriedInv
<1> QED BY <1>2, <1>3

(* A sleep is one more than the host has retried.                           *)
LEMMA RetriedBySleep ==
    ASSUME RoundsAssumed, RoundsIndInv, MaxNaps > MaxSleepRetries, RetriedInv,
           SignalSleep,
           UNCHANGED retries
    PROVE  RetriedInv'
<1> USE DEF RoundsIndInv, RoundsInv
<1>1. /\ dpc \in {"test", "quiet"} /\ UNCHANGED <<begun, ended>>
      /\ naps' = [naps EXCEPT ![cur] = IF @ < MaxNaps THEN @ + 1 ELSE @]
  BY DEF SignalSleep, BodyDone
<1>2. cur \in begun /\ cur \in Tests /\ naps[cur] <= retries[NameOf[cur]] /\ UpTo(cur)
  <2>1. Running
    BY <1>1 DEF Running
  <2>2. cur \in begun /\ MayRun(cur) /\ UpTo(cur)
    BY <1>1, <2>1 DEF RunInv
  <2> QED BY <2>2 DEF SessionInv, WireInv, MayRun
<1>3. naps \in [Tests -> Nat] /\ MaxNaps \in Nat /\ MaxSleepRetries \in Nat
      /\ Tests \subseteq Nat
  BY FirmwareAssumption, RunnerAssumption, TestsAreNumbers DEF TypesInv
<1>4. \A t \in Tests : retries[NameOf[t]] \in Nat /\ retries[NameOf[t]] <= MaxSleepRetries
  BY RetriesAreNumbers
<1>5. naps'[cur] = naps[cur] + 1 /\ \A t \in Tests : t # cur => naps'[t] = naps[t]
  <2>1. naps[cur] \in Nat /\ naps[cur] < MaxNaps
    BY <1>2, <1>3, <1>4
  <2> QED BY <1>1, <1>2, <1>3, <2>1
<1>6. retries[NameOf[cur]] < naps'[cur]
  BY <1>2, <1>3, <1>4, <1>5 DEF RetriedInv
<1>7. ASSUME NEW t \in Tests, Slept(t)' PROVE t = cur
  <2>1. t \in begun /\ cur <= t /\ t <= cur
    BY <1>1, <1>2, <1>7 DEF Slept, UpTo
  <2>2. t \in Nat /\ cur \in Nat
    BY <1>2, <1>3
  <2> QED BY <2>1, <2>2
<1>8. ASSUME NEW t \in Tests
      PROVE  /\ retries'[NameOf[t]] <= naps'[t]
             /\ Slept(t)' => retries'[NameOf[t]] < naps'[t]
  <2>1. CASE t = cur
    <3>1. retries[NameOf[cur]] \in Nat /\ naps'[cur] \in Nat
      BY <1>2, <1>3, <1>4, <1>5
    <3> QED BY <1>6, <2>1, <3>1
  <2>2. CASE t # cur
    BY <1>5, <1>7, <2>2 DEF RetriedInv
  <2> QED BY <2>1, <2>2
<1> QED BY <1>8 DEF RetriedInv

LEMMA RetriedByBoard ==
    ASSUME ReasonAssumed, RoundsIndInv, Steady, ~PowerLoss, ReadyInv, SkipInv,
           RetriedInv, HostStays,
           DeviceRuns \/ ReadyTimer \/ Faulty
    PROVE  RetriedInv'
<1> USE DEF RoundsIndInv, RoundsInv
<1>0. RoundsAssumed /\ ProgressAssumed /\ MaxNaps > MaxSleepRetries
  BY DEF ReasonAssumed, CountsAssumed, ProgressAssumed
<1>1. UNCHANGED <<hpc, pstate, retries>> /\ Talks' = Talks
  BY DEF HostStays, Talks
<1>2. CASE SignalSleep
  BY <1>0, <1>1, <1>2, RetriedBySleep
<1>3. CASE ~SignalSleep
  <2>1. /\ ~Crash /\ ~SilentReset /\ ~Reboot
        /\ ~ReceivePowerCommand /\ ~ReceiveIdleCommand /\ ~RunStandalone
    BY <1>0, NoSuchFaults, NoControls
  <2>2. UNCHANGED naps /\ begun \subseteq begun' /\ ended \subseteq ended'
    BY <1>3, <2>1 DEF DeviceRuns, Faulty, BoardInit, EmitReady, ReceiveArgs, ReceiveBad,
       ReceiveCommand, StartTest, EndTest, FailAssertion, SignalBusy, GoDown, FinishCycle,
       BoardInitFails, Hang, Unhang, PowerLoss, Oversleep, PowerUp, Boot, ReadyTimer,
       IntervalElapses, historyVars
  <2>3. SaysSleep(inbound') => SaysSleep(inbound)
    <3>1. \/ inbound' = inbound
          \/ \E ln \in AnyLine : inbound' = inbound \o <<ln>> /\ ln.tag \notin SleepTags
      BY <1>0, <1>3, BoardSays
    <3>2. inbound \in Seq(AnyLine)
      BY LinesArrive
    <3> QED BY <3>1, <3>2, Adds
  <2>4. \A t \in Tests : Slept(t)' => Slept(t)
    BY <2>2 DEF Slept, UpTo, HistoryInv
  <2>5. Announced' => Announced
    BY <1>1, <2>3 DEF Announced
  <2> QED BY <1>1, <2>2, <2>4, <2>5 DEF RetriedInv
<1> QED BY <1>2, <1>3

LEMMA RetriedStep ==
    ASSUME ReasonAssumed, RoundsIndInv, Steady, ~PowerLoss, RoundsIndInv',
           ReadyInv, SkipInv, SleepInv, RetriedInv,
           [Next]_vars
    PROVE  RetriedInv'
<1>0. RoundsAssumed
  BY DEF ReasonAssumed, CountsAssumed, ProgressAssumed
<1>1. CASE HostMoves /\ UNCHANGED session
  BY <1>0, <1>1, RetriedByHost
<1>2. CASE UNCHANGED <<session, hostVars>> /\ (DeviceRuns \/ ReadyTimer \/ Faulty)
  BY <1>2, BoardMoves, RetriedByBoard
<1>3. CASE \/ (GarbleLine \/ GarbleMessage) /\ UNCHANGED <<session, hostVars, deviceVars>>
           \/ UNCHANGED vars
  <2>1. UNCHANGED <<hpc, pstate, chunk, handle, wire, begun, ended, naps, retries>>
    BY <1>0, <1>3, NoSuchFaults DEF GarbleMessage, vars, hostVars, deviceVars, historyVars,
       linkVars, runnerVars, roundVars, protocolVars
  <2>2. Announced' = Announced /\ \A t : Slept(t)' <=> Slept(t)
    BY <2>1, HistoryStands DEF inbound, Talks, Announced
  <2> QED BY <2>1, <2>2 DEF RetriedInv
<1>4. CASE NewSession
  <2>1. /\ hpc' = "open" /\ pstate' = "WAITING_FOR_READY"
        /\ retries' = [n \in DOMAIN retries |-> 0] /\ naps' = [t \in Tests |-> 0]
    BY <1>4 DEF NewSession, Invoke, ProtocolNew
  <2>2. ~Announced'
    BY <2>1 DEF Announced, Talks
  <2>3. \A t \in Tests : NameOf[t] \in DOMAIN retries
    BY <1>0 DEF RoundsAssumed, TestsInSuites, RoundsIndInv, SessionInv, HostInv, RunnerTypeOK
  <2>4. \A t \in Tests : retries'[NameOf[t]] = 0 /\ naps'[t] = 0
    BY <2>1, <2>3
  <2> QED BY <2>2, <2>4 DEF RetriedInv
<1> QED BY <1>1, <1>2, <1>3, <1>4 DEF Next, DeviceMoves, Mishap

-----------------------------------------------------------------------------
(* What is blamed.                                                          *)

(* A host that gives the port up has met a fault.                           *)
LEMMA GivesUpForFault ==
    ASSUME HostMoves, OpenFails
    PROVE  faults > 0
<1>1. hpc = "open" /\ ~port /\ hpc' \in {"open", "finish"} /\ handle = "closed"
      /\ (hpc' = "open" => cycle' # cycle)
  BY DEF OpenFails, Raise
<1>2. ~FirstOpen /\ ~LaterOpen /\ ~TimesOut /\ ~LingerEnds /\ ~WakeWaitOver /\ ~BusyIsOver
  BY <1>1 DEF FirstOpen, LaterOpen, OpenPort, TimesOut, ReadyTimeout, HangTimeout, EmptyRead,
     LingerEnds, LingerOver, WakeWaitOver, StartPhaseTwo, BusyIsOver, runnerVars, roundVars
<1>3. ~HostSteps
  BY <1>1 DEF HostSteps, ReadChunk, FeedLine, SendCommand, SendRaises, SeesDone, SeesError,
     SeesSleep, SeesNothing, Checking, LeavesForOldCrash, EmptyRead, PortGoneWhileRunning,
     ReadRaises, DrainChunk, DrainCheck, DrainEnds, PostTest, AwaitWake, GiveUp, StartResume,
     NoMoreCycles, Finish
<1> QED BY <1>2, <1>3 DEF HostMoves, OpenGivesUp

(* A failure that the host hears was on the wire of this session.           *)
LEMMA BlameByHost ==
    ASSUME RoundsAssumed, RoundsIndInv, Steady, SleepInv, HostMoves, UNCHANGED session
    PROVE  /\ ~Between' /\ Says(wire', "FAIL") => ~Between /\ Says(wire, "FAIL")
           /\ Says(chunk', "FAIL") =>
                 Says(chunk, "FAIL") \/ (~Between /\ Says(wire, "FAIL"))
           /\ failures' # {} => failures # {} \/ Says(chunk, "FAIL")
<1> USE DEF RoundsIndInv, RoundsInv
<1>0. wire \in Seq(AnyLine) /\ chunk \in Seq(AnyLine)
  BY LinesArrive
<1>1. CASE FirstOpen \/ LaterOpen
  <2>1. /\ OpenPort /\ UNCHANGED <<chunk, failures>> /\ hpc = "open"
        /\ wire' = wire \/ \E k \in 0..Len(wire) : wire' = SubSeq(wire, k + 1, Len(wire))
    BY <1>1 DEF FirstOpen, LaterOpen, OpenPort, Opens
  <2>2. Says(wire', "FAIL") => Says(wire, "FAIL")
    BY <1>0, <2>1, Suffix
  <2>3. wire' = <<>> \/ ~Between
    <3>1. CASE LaterOpen
      BY <3>1 DEF LaterOpen, Between
    <3>2. CASE FirstOpen /\ Resets[session]
      BY <3>2 DEF FirstOpen
    <3>3. CASE FirstOpen /\ ~Resets[session]
      <4>1. session = 1
        BY <3>3 DEF RoundsAssumed, LaterSessionsReset, SessionInv, HostInv
      <4> QED BY <4>1 DEF Between
    <3> QED BY <1>1, <3>1, <3>2, <3>3
  <2> QED BY <2>1, <2>2, <2>3, NothingSaid
<1>2. CASE ReadChunk \/ DrainChunk
  <2>1. ~Between /\ UNCHANGED failures
    BY <1>2 DEF ReadChunk, DrainChunk, ReadInto, Between, reportVars
  <2>2. PICK k \in 1..Len(wire) : /\ chunk' = SubSeq(wire, 1, k)
                                 /\ wire' = SubSeq(wire, k + 1, Len(wire))
    BY <1>2 DEF ReadChunk, DrainChunk, ReadInto
  <2>3. k \in 0..Len(wire)
    BY <1>0, <2>2
  <2>4. Says(wire', "FAIL") => Says(wire, "FAIL")
    BY <1>0, <2>2, <2>3, Suffix
  <2>5. Says(chunk', "FAIL") => Says(wire, "FAIL")
    <3>1. chunk' \o wire' = wire
      BY <1>0, <2>2, Split
    <3>2. chunk' \in Seq(AnyLine) /\ wire' \in Seq(AnyLine)
      BY <1>0, <2>2, <2>3
    <3> QED BY <3>1, <3>2, Prefix
  <2> QED BY <2>1, <2>4, <2>5
<1>3. CASE FeedLine
  <2>1. ~Between /\ UNCHANGED wire /\ chunk # <<>> /\ chunk' \in {<<>>, Tail(chunk)}
    BY <1>3 DEF FeedLine, linkVars, Between
  <2>2. Says(chunk, "FAIL") <=> Head(chunk).tag = "FAIL" \/ Says(Tail(chunk), "FAIL")
    BY <1>0, <2>1, Takes
  <2>3. failures' = failures \/ Head(chunk).tag = "FAIL"
    BY <1>3 DEF FeedLine, Heard
  <2> QED BY <2>1, <2>2, <2>3, NothingSaid
<1>4. CASE \/ SendCommand \/ SeesDone \/ SeesSleep
           \/ SeesNothing \/ DrainCheck \/ DrainEnds \/ PostTest
           \/ AwaitWake \/ GiveUp \/ StartPhaseTwo \/ StartResume \/ NoMoreCycles
           \/ LingerEnds \/ ReadyTimeout
  <2>1. UNCHANGED <<chunk, failures>> /\ wire' \in {wire, <<>>} /\ ~Between
    BY <1>4 DEF SendCommand, SeesDone, SeesSleep, SeesNothing, Checking, DrainCheck, DrainEnds,
       PostTest, AwaitWake, GiveUp, StartPhaseTwo, StartResume, NoMoreCycles, LingerEnds,
       LingerOver, ReadyTimeout, EmptyRead, linkVars, reportVars, Between
  <2> QED BY <2>1, NothingSaid
<1>5. CASE Finish \/ OpenFails \/ BusyIsOver
  <2>1. UNCHANGED <<chunk, failures, wire>>
    BY <1>5 DEF Finish, OpenFails, Raise, BusyIsOver, runnerVars, reportVars, linkVars
  <2>2. Between => Between'
    BY <1>5 DEF Finish, OpenFails, Raise, BusyIsOver, runnerVars, roundVars, Between
  <2> QED BY <2>1, <2>2
<1> QED BY <1>1, <1>2, <1>3, <1>4, <1>5, HostDoes

-----------------------------------------------------------------------------
(* What is counted in the end.                                              *)

LEMMA AllAreCounted ==
    ASSUME CountsAssumed, RoundsIndInv, Asked \subseteq begun,
           \A t \in begun : Counted(t)
    PROVE  /\ Cardinality(completed) \in Nat /\ Cardinality(Asked) \in Nat
           /\ Cardinality(Asked) <= Cardinality(completed)
<1> USE DEF RoundsIndInv
<1>0. RoundsAssumed
  BY DEF CountsAssumed, ProgressAssumed
<1>1. IsFiniteSet(Tests)
  <2>1. N \in Nat
    BY RegistryAssumption
  <2> QED BY <2>1, FS_Interval DEF Tests
<1>2. begun \subseteq Tests /\ completed \subseteq {LabelOf(t) : t \in begun}
  BY DEF SessionInv, WireInv, CountedInv
<1>3. IsFiniteSet(begun)
  BY <1>1, <1>2, FS_Subset
<1>4. IsFiniteSet(completed)
  <2> DEFINE labels == {LabelOf(t) : t \in begun}
             labelOf == [t \in begun |-> LabelOf(t)]
  <2>1. labelOf \in Surjection(begun, labels)
    BY DEF Surjection
  <2>2. IsFiniteSet(labels)
    <3> HIDE DEF labels, labelOf
    <3> QED BY <1>3, <2>1, FS_Surjection
  <2> QED BY <1>2, <2>2, FS_Subset
<1> DEFINE label == [t \in Asked |-> CHOOSE l \in completed : l[2] = NameOf[t]]
<1>5. \A t \in Asked : label[t] \in completed /\ label[t][2] = NameOf[t]
  BY DEF Counted
<1>6. \A t, u \in Asked : label[t] = label[u] => t = u
  <2>1. \A t, u \in Asked : NameOf[t] = NameOf[u] => t = u
    BY <1>0, <1>2 DEF RoundsAssumed
  <2> HIDE DEF label
  <2> QED BY <1>5, <2>1
<1>7. label \in [Asked -> completed]
  BY <1>5
<1> HIDE DEF label
<1>8. label \in Injection(Asked, completed)
  BY <1>6, <1>7 DEF Injection, IsInjective
<1> QED BY <1>4, <1>8, FS_Injection, FS_CardinalityType

LEMMA NoUnderRun ==
    ASSUME CountsAssumed, RoundsIndInv, CountsInv, SeenInv, EndInv, hpc = "finish", ~Red
    PROVE  UnderRunCases = {}
<1>1. \A t \in begun : Counted(t)
  BY DEF SeenInv, Talks
<1>2. Asked \subseteq begun
  BY DEF EndInv, RoundsIndInv, RoundsInv, HistoryInv
<1>3. /\ Cardinality(completed) \in Nat /\ Cardinality(Asked) \in Nat
      /\ Cardinality(Asked) <= Cardinality(completed)
  BY <1>1, <1>2, AllAreCounted
<1>4. expectedRun = 0 \/ expectedRun = Cardinality(Asked)
  BY DEF SeenInv, CountsInv
<1>5. ~(Cardinality(completed) < expectedRun)
  BY <1>3, <1>4
<1> QED BY <1>5 DEF UnderRunCases

(* Nothing is reported of a session in which nothing happened.              *)
AllPassed == \A c \in cases : c.status = "PASSED"

LEMMA PassedByHost ==
    ASSUME ReasonAssumed, RoundsIndInv, Steady, SleepInv, EndInv, CountsInv, SeenInv,
           RetriedInv,
           BlamedInv, HostMoves, UNCHANGED session, Uneventful
    PROVE  AllPassed'
<1> USE DEF RoundsIndInv, RoundsInv
<1>0. RoundsAssumed /\ CountsAssumed
  BY DEF ReasonAssumed, CountsAssumed, ProgressAssumed
<1>1. AllPassed /\ failures = {} /\ dpc # "dead" /\ ~(faults > 0)
  BY DEF BlamedInv, Uneventful, AllPassed
<1>2. WithFailures = cases
  BY <1>1 DEF WithFailures
<1>3. CASE FirstOpen \/ LaterOpen \/ ReadChunk \/ SendCommand \/ SeesSleep
           \/ SeesNothing \/ DrainChunk \/ DrainEnds \/ PostTest
           \/ AwaitWake \/ StartPhaseTwo \/ StartResume \/ NoMoreCycles
           \/ LingerEnds \/ BusyIsOver
  <2>1. UNCHANGED cases
    BY <1>3 DEF FirstOpen, LaterOpen, OpenPort, ReadChunk, ReadInto, SendCommand, SeesSleep,
       SeesNothing, DrainChunk, DrainEnds, PostTest, AwaitWake, StartPhaseTwo, StartResume,
       NoMoreCycles, LingerEnds, LingerOver, BusyIsOver, runnerVars, reportVars
  <2> QED BY <1>1, <2>1 DEF AllPassed
<1>4. CASE FeedLine
  <2>1. ~crashed'
    BY <1>0, <1>4, FeedsOne
  <2>2. UNCHANGED cases
    BY <1>4, <2>1 DEF FeedLine
  <2> QED BY <1>1, <2>2 DEF AllPassed
<1>5. CASE SeesDone \/ DrainCheck
  <2>1. UNCHANGED cases
    BY <1>2, <1>5 DEF SeesDone, DrainCheck
  <2> QED BY <1>1, <2>1 DEF AllPassed
<1>6. ~GiveUp
  <2> SUFFICES ASSUME GiveUp PROVE FALSE
    OBVIOUS
  <2>1. hpc = "loop" /\ pstate = "SLEEPING" /\ ~(retries[sleepName] < MaxSleepRetries)
    BY DEF GiveUp, RetryLeft
  <2>2. PICK t \in Tests : NameOf[t] = sleepName /\ Slept(t)
    BY <2>1 DEF HistoryInv
  <2>3. retries[NameOf[t]] < naps[t] /\ naps[t] <= MaxSleepRetries
    BY <2>1, <2>2 DEF RetriedInv, Announced, Uneventful
  <2>4. retries[NameOf[t]] \in Nat /\ naps[t] \in Nat /\ MaxSleepRetries \in Nat
    BY <1>0, RetriesAreNumbers, RunnerAssumption DEF TypesInv
  <2> QED BY <2>1, <2>2, <2>3, <2>4
<1>7. ~OpenFails
  BY <1>1, GivesUpForFault
<1>8. CASE Finish
  <2>1. hpc = "finish" /\ cases' = KeptCases \cup PassedCases \cup UnderRunCases
    BY <1>8 DEF Finish
  <2>2. UnderRunCases = {}
    BY <1>0, <1>1, <2>1, NoUnderRun DEF AllPassed, Red
  <2>3. \A c \in KeptCases \cup PassedCases : c.status = "PASSED"
    BY <1>1 DEF KeptCases, PassedCases, Case, AllPassed
  <2> QED BY <2>1, <2>2, <2>3 DEF AllPassed
<1> QED BY <1>0, <1>1, <1>3, <1>4, <1>5, <1>6, <1>7, <1>8, HostDoes

-----------------------------------------------------------------------------
(* What has happened is not undone.                                         *)

LEMMA BoardRemembers ==
    ASSUME ProgressAssumed, RoundsIndInv, Steady, ~PowerLoss, faults \in Nat,
           DeviceRuns \/ ReadyTimer \/ Faulty
    PROVE  /\ faults' \in Nat /\ faults <= faults'
           /\ dpc' = "dead" => dpc = "dead" \/ faults' > 0
           /\ \A t \in Tests : naps'[t] <= MaxSleepRetries => naps[t] <= MaxSleepRetries
<1> USE DEF RoundsIndInv, RoundsInv
<1>0. RoundsAssumed
  BY DEF ProgressAssumed
<1>1. /\ ~Crash /\ ~SilentReset /\ ~Reboot
      /\ ~ReceivePowerCommand /\ ~ReceiveIdleCommand /\ ~RunStandalone
  BY <1>0, NoSuchFaults, NoControls
<1>2. CASE BoardInitFails \/ Oversleep \/ Hang
  <2>1. faults' = faults + 1 /\ UNCHANGED naps
    BY <1>2 DEF BoardInitFails, Oversleep, Hang, Fault, historyVars
  <2>2. faults + 1 \in Nat /\ faults <= faults + 1 /\ faults + 1 > 0
    OBVIOUS
  <2> QED BY <2>1, <2>2
<1>3. CASE SignalSleep
  <2>1. /\ UNCHANGED faults /\ dpc' = "doze" /\ dpc \in {"test", "quiet"}
        /\ naps' = [naps EXCEPT ![cur] = IF @ < MaxNaps THEN @ + 1 ELSE @]
    BY <1>3 DEF SignalSleep, BodyDone
  <2>2. cur \in Tests
    <3>1. Running
      BY <2>1 DEF Running
    <3>2. cur \in begun
      BY <2>1, <3>1 DEF RunInv
    <3> QED BY <3>2 DEF SessionInv, WireInv
  <2>3. naps \in [Tests -> Nat] /\ MaxSleepRetries \in Nat /\ MaxNaps \in Nat
    BY RunnerAssumption, FirmwareAssumption DEF TypesInv
  <2>4. \A t \in Tests : naps[t] \in Nat /\ naps'[t] \in {naps[t], naps[t] + 1}
    BY <2>1, <2>2, <2>3
  <2>5. \A t \in Tests : naps'[t] <= MaxSleepRetries => naps[t] <= MaxSleepRetries
    <3>1. \A n, m \in Nat : n + 1 <= m => n <= m
      OBVIOUS
    <3> QED BY <2>3, <2>4, <3>1
  <2> QED BY <2>1, <2>5
<1>4. CASE ~BoardInitFails /\ ~Oversleep /\ ~Hang /\ ~SignalSleep
  <2>1. UNCHANGED <<faults, naps>>
    BY <1>1, <1>4 DEF DeviceRuns, Faulty, BoardInit, EmitReady, ReceiveArgs, ReceiveBad,
       ReceiveCommand, StartTest, EndTest, FailAssertion, SignalBusy, GoDown, FinishCycle,
       PowerUp, Boot, Unhang, ReadyTimer, IntervalElapses, historyVars, linkVars
  <2>2. dpc' = "dead" => dpc = "dead"
    BY <1>1, <1>4 DEF DeviceRuns, Faulty, BoardInit, EmitReady, ReceiveArgs, ReceiveBad,
       Receives, ReceiveCommand, Prologue, StartTest, EndTest, FailAssertion, SignalBusy,
       GoDown, FinishCycle, PowerUp, Boot, Unhang, ReadyTimer, IntervalElapses
  <2> QED BY <2>1, <2>2
<1> QED BY <1>2, <1>3, <1>4

LEMMA BlamedByBoard ==
    ASSUME ProgressAssumed, RoundsIndInv, Steady, ~PowerLoss, ReadyInv, SkipInv,
           faults \in Nat, BlamedInv, HostStays,
           UNCHANGED <<session, cases, failures>>, DeviceRuns \/ ReadyTimer \/ Faulty
    PROVE  BlamedInv' /\ faults' \in Nat
<1> USE DEF RoundsIndInv, RoundsInv
<1>0. RoundsAssumed
  BY DEF ProgressAssumed
<1>1. UNCHANGED chunk /\ Between' = Between
  BY DEF HostStays, Between
<1>2. /\ faults' \in Nat /\ faults <= faults'
      /\ dpc' = "dead" => dpc = "dead" \/ faults' > 0
      /\ \A t \in Tests : naps'[t] <= MaxSleepRetries => naps[t] <= MaxSleepRetries
  BY BoardRemembers
<1>3. faults' = 0 => faults = 0
  BY <1>2
<1>4. faults > 0 => faults' > 0
  BY <1>2
<1>5. failed \subseteq failed' /\ (FailAssertion => failed' # {})
  BY <1>0, EndedGrows DEF FailAssertion
<1>6. Uneventful' => Uneventful
  BY <1>2, <1>3, <1>5 DEF Uneventful
<1>7. Says(wire', "FAIL") => Says(wire, "FAIL") \/ FailAssertion
  <2>1. wire \in Seq(AnyLine)
    BY LinesArrive
  <2>2. \/ wire' \in {wire, <<>>}
        \/ \E ln \in AnyLine : Emit(<<ln>>) /\ (ln.tag = "FAIL" => FailAssertion)
    BY BoardSays
  <2>3. \/ wire' \in {wire, <<>>}
        \/ \E ln \in AnyLine : wire' = wire \o <<ln>> /\ (ln.tag = "FAIL" => FailAssertion)
    BY <2>2 DEF Emit
  <2>4. \A ln \in AnyLine : Says(wire \o <<ln>>, "FAIL") <=> Says(wire, "FAIL") \/ ln.tag = "FAIL"
    BY <2>1, Adds
  <2>5. CASE wire' \in {wire, <<>>}
    BY <2>5, NothingSaid
  <2>6. CASE \E ln \in AnyLine : wire' = wire \o <<ln>> /\ (ln.tag = "FAIL" => FailAssertion)
    <3>1. PICK ln \in AnyLine : wire' = wire \o <<ln>> /\ (ln.tag = "FAIL" => FailAssertion)
      BY <2>6
    <3>2. Says(wire', "FAIL") <=> Says(wire, "FAIL") \/ ln.tag = "FAIL"
      BY <2>4, <3>1
    <3> QED BY <3>1, <3>2
  <2> QED BY <2>3, <2>5, <2>6
<1> QED BY <1>1, <1>2, <1>4, <1>5, <1>6, <1>7 DEF BlamedInv

LEMMA BlamedByHost ==
    ASSUME ReasonAssumed, RoundsIndInv, Steady, SleepInv, EndInv, CountsInv, SeenInv,
           RetriedInv,
           BlamedInv, HostMoves, UNCHANGED session
    PROVE  BlamedInv' /\ faults' = faults
<1> USE DEF RoundsIndInv, RoundsInv
<1>0. RoundsAssumed
  BY DEF ReasonAssumed, CountsAssumed, ProgressAssumed
<1>1. UNCHANGED <<failed, naps>> /\ (dpc' = "dead" => dpc = "dead")
  <2>1. FirstOpen \/ UNCHANGED deviceVars
    BY DEF HostMoves, LaterOpen
  <2> QED BY <2>1 DEF FirstOpen, deviceVars, historyVars, Boot
<1>2. UNCHANGED faults
  <2>1. CASE FirstOpen \/ LaterOpen \/ ReadChunk \/ DrainChunk \/ FeedLine
    BY <2>1 DEF FirstOpen, LaterOpen, OpenPort, ReadChunk, DrainChunk, ReadInto, FeedLine,
       linkVars
  <2>2. CASE \/ SendCommand \/ SeesDone \/ SeesSleep
             \/ SeesNothing \/ DrainCheck \/ DrainEnds \/ PostTest
             \/ AwaitWake \/ GiveUp \/ StartPhaseTwo \/ StartResume \/ NoMoreCycles
             \/ LingerEnds \/ ReadyTimeout
    BY <2>2 DEF SendCommand, SeesDone, SeesSleep, SeesNothing, DrainCheck, DrainEnds,
       PostTest, AwaitWake, GiveUp, StartPhaseTwo, StartResume, NoMoreCycles, LingerEnds,
       LingerOver, ReadyTimeout, linkVars
  <2>3. CASE Finish \/ OpenFails \/ BusyIsOver
    BY <2>3 DEF Finish, OpenFails, BusyIsOver, linkVars
  <2> QED BY <1>0, <2>1, <2>2, <2>3, HostDoes
<1>3. Uneventful' => Uneventful
  BY <1>1, <1>2 DEF Uneventful
<1>4. Uneventful' => AllPassed'
  BY <1>3, PassedByHost
<1>5. /\ ~Between' /\ Says(wire', "FAIL") => ~Between /\ Says(wire, "FAIL")
      /\ Says(chunk', "FAIL") =>
            Says(chunk, "FAIL") \/ (~Between /\ Says(wire, "FAIL"))
      /\ failures' # {} => failures # {} \/ Says(chunk, "FAIL")
  BY <1>0, BlameByHost
<1> QED BY <1>1, <1>2, <1>4, <1>5 DEF BlamedInv, AllPassed

LEMMA BlamedStep ==
    ASSUME ReasonAssumed, RoundsIndInv, Steady, ~PowerLoss, RoundsIndInv',
           ReadyInv, SkipInv, SleepInv, EndInv,
           CountsInv, SeenInv, RetriedInv, faults \in Nat, BlamedInv, [Next]_vars
    PROVE  BlamedInv' /\ faults' \in Nat
<1>0. RoundsAssumed /\ ProgressAssumed
  BY DEF ReasonAssumed, CountsAssumed, ProgressAssumed
<1>1. CASE HostMoves /\ UNCHANGED session
  BY <1>1, BlamedByHost
<1>2. CASE UNCHANGED <<session, hostVars>> /\ (DeviceRuns \/ ReadyTimer \/ Faulty)
  <2>1. HostStays /\ UNCHANGED <<session, cases, failures>>
    BY <1>2, BoardMoves DEF hostVars, runnerVars, reportVars
  <2> QED BY <1>0, <1>2, <2>1, BlamedByBoard
<1>3. CASE \/ (GarbleLine \/ GarbleMessage) /\ UNCHANGED <<session, hostVars, deviceVars>>
           \/ UNCHANGED vars
  <2>1. UNCHANGED <<session, cycle, hpc, chunk, wire, dpc, failures, cases, failed, naps>>
    BY <1>0, <1>3, NoSuchFaults DEF GarbleMessage, vars, hostVars, deviceVars, historyVars,
       linkVars, runnerVars, roundVars, reportVars
  <2>2. faults' \in {faults, faults + 1}
    BY <1>0, <1>3, NoSuchFaults DEF GarbleMessage, Fault, vars, linkVars
  <2>3. faults' \in Nat /\ (faults' = 0 => faults = 0) /\ (faults > 0 => faults' > 0)
    BY <2>2
  <2>4. Between' = Between /\ (Uneventful' => Uneventful)
    BY <2>1, <2>3 DEF Between, Uneventful
  <2> QED BY <2>1, <2>3, <2>4 DEF BlamedInv
<1>4. CASE NewSession
  <2>1. /\ chunk' = <<>> /\ failures' = {} /\ cases' = {} /\ UNCHANGED <<dpc, faults>>
        /\ hpc' = "open" /\ cycle' = "first" /\ session' = session + 1
    BY <1>4 DEF NewSession, Invoke, linkVars
  <2>2. Between'
    <3>1. session \in DOMAIN Resets
      BY DEF RoundsIndInv, SessionInv, HostInv
    <3>2. session \in 1..Len(Resets)
      BY <3>1, SessionAssumption
    <3> QED BY <2>1, <3>2 DEF Between
  <2> QED BY <2>1, <2>2, NothingSaid DEF BlamedInv
<1> QED BY <1>1, <1>2, <1>3, <1>4 DEF Next, DeviceMoves, Mishap

-----------------------------------------------------------------------------
(* The invariant of reasons.                                                *)

ReasonIndInv == PlanIndInv /\ CountsInv /\ faults \in Nat /\ ReasonInv

LEMMA ReasonInitially == RoundsAssumed /\ Init => ReasonIndInv
<1> SUFFICES ASSUME RoundsAssumed, Init PROVE ReasonIndInv
  OBVIOUS
<1>1. PlanIndInv /\ CountsInv
  BY PlanInitially, ProgressInitially DEF ProgressIndInv, ProgressInv
<1>2. /\ dpc = "init" /\ begun = {} /\ failed = {} /\ naps = [t \in Tests |-> 0]
      /\ hpc = "open" /\ cycle = "first" /\ failures = {} /\ cases = {} /\ chunk = <<>>
      /\ retries = [n \in Names \cup {""} |-> 0] /\ ~latched /\ expectedRun = 0
      /\ pstate = "WAITING_FOR_READY" /\ wire = <<>> /\ faults = 0
  BY DEF Init, DeviceInit, RunnerInit, ProtocolInit, LinkInit
<1>3. SeenInv /\ BlamedInv
  BY <1>2, NothingSaid DEF SeenInv, BlamedInv
<1>4. RetriedInv
  <2>1. \A t \in Tests : retries[NameOf[t]] = 0 /\ naps[t] = 0
    BY <1>2 DEF RoundsAssumed, TestsInSuites
  <2>2. ~Announced
    BY <1>2 DEF Announced, Talks
  <2> QED BY <2>1, <2>2 DEF RetriedInv
<1> QED BY <1>1, <1>2, <1>3, <1>4 DEF ReasonIndInv, ReasonInv

LEMMA ReasonIndStep ==
    ASSUME ReasonAssumed, Steady, ~PowerLoss, ReasonIndInv, [Next]_vars
    PROVE  ReasonIndInv'
<1>1. /\ CountsAssumed /\ ProgressAssumed /\ PlanIndInv /\ CountsInv /\ faults \in Nat
      /\ RoundsIndInv /\ ReadyInv /\ SkipInv /\ SleepInv /\ EndInv
      /\ SeenInv /\ RetriedInv /\ BlamedInv
  BY DEF ReasonAssumed, CountsAssumed, ReasonIndInv, ReasonInv, PlanIndInv, PlanInv
<1>2. PlanIndInv' /\ RoundsIndInv'
  BY <1>1, PlanIndStep DEF PlanIndInv
<1>3. CountsInv'
  BY <1>1, <1>2, CountsStep
<1>4. SeenInv' /\ RetriedInv'
  BY <1>1, <1>2, SeenStep, RetriedStep
<1>5. BlamedInv' /\ faults' \in Nat
  BY <1>1, <1>2, BlamedStep
<1> QED BY <1>2, <1>3, <1>4, <1>5 DEF ReasonIndInv, ReasonInv

-----------------------------------------------------------------------------
(* Nothing has gone wrong so far.                                           *)

(* Faults are counted, each once.                                           *)
LEMMA FaultsAreCounted ==
    ASSUME [Next]_vars
    PROVE  /\ faults' \in {faults, faults + 1}
           /\ (Crash \/ SilentReset \/ PowerLoss \/ Hang \/ GarbleLine \/ GarbleMessage)
                 => faults' = faults + 1
<1>1. (Crash \/ SilentReset \/ PowerLoss \/ Hang \/ GarbleLine \/ GarbleMessage
          \/ Oversleep \/ BoardInitFails)
         => faults' = faults + 1
  BY DEF Crash, SilentReset, PowerLoss, Hang, GarbleLine, GarbleMessage, Oversleep,
     BoardInitFails, Fault
<1>2. DeviceRuns \/ ReadyTimer \/ Unhang => UNCHANGED faults
  BY DEF DeviceRuns, BoardInit, EmitReady, ReceiveArgs, ReceiveBad, ReceiveCommand,
     ReceivePowerCommand, ReceiveIdleCommand, RunStandalone, StartTest, FailAssertion,
     SignalBusy, EndTest, SignalSleep, GoDown, PowerUp, FinishCycle, Reboot, ReadyTimer,
     IntervalElapses, Unhang, linkVars
<1>3. HostMoves => UNCHANGED faults
  <2>1. FirstOpen \/ LaterOpen => UNCHANGED faults
    BY DEF FirstOpen, LaterOpen, OpenPort
  <2>2. ReadChunk \/ FeedLine \/ SendCommand \/ SendRaises \/ SeesDone \/ SeesError
           \/ SeesSleep \/ SeesNothing \/ LeavesForOldCrash \/ PortGoneWhileRunning
           \/ ReadRaises \/ DrainChunk => UNCHANGED faults
    BY DEF ReadChunk, ReadInto, FeedLine, SendCommand, SendRaises, SeesDone, SeesError,
       SeesSleep, SeesNothing, LeavesForOldCrash, PortGoneWhileRunning, ReadRaises,
       DrainChunk, linkVars
  <2>3. DrainCheck \/ DrainEnds \/ PostTest \/ AwaitWake \/ GiveUp \/ StartResume
           \/ NoMoreCycles \/ Finish => UNCHANGED faults
    BY DEF DrainCheck, DrainEnds, PostTest, AwaitWake, GiveUp, StartResume, NoMoreCycles,
       Finish, linkVars
  <2>4. TimesOut \/ BusyIsOver \/ WakeWaitOver \/ LingerEnds \/ OpenGivesUp
           => UNCHANGED faults
    BY DEF TimesOut, ReadyTimeout, HangTimeout, BusyIsOver, WakeWaitOver, StartPhaseTwo,
       LingerEnds, LingerOver, OpenGivesUp, OpenFails, linkVars
  <2> QED BY <2>1, <2>2, <2>3, <2>4 DEF HostMoves, HostSteps
<1>4. NewSession \/ UNCHANGED vars => UNCHANGED faults
  BY DEF NewSession, vars, linkVars
<1> QED BY <1>1, <1>2, <1>3, <1>4 DEF Next, DeviceMoves, Mishap, Faulty

(* As long as nothing has gone wrong, the board and the host are where      *)
(* ReasonInv has them.                                                      *)
Blameless == faults \in Nat /\ (faults = 0 => ReasonIndInv /\ dpc # "hung")

LEMMA BlamelessStep ==
    ASSUME ReasonAssumed, Blameless, [Next]_vars
    PROVE  Blameless'
<1>1. faults' \in {faults, faults + 1}
  BY FaultsAreCounted
<1>2. faults \in Nat /\ faults' \in Nat
  BY <1>1 DEF Blameless
<1>3. ASSUME faults' = 0 PROVE ReasonIndInv' /\ dpc' # "hung"
  <2>1. faults = 0 /\ faults' # faults + 1
    BY <1>1, <1>2, <1>3
  <2>2. ~(Crash \/ SilentReset \/ PowerLoss \/ Hang \/ GarbleLine \/ GarbleMessage)
    BY <2>1, FaultsAreCounted
  <2>3. ReasonIndInv /\ dpc # "hung"
    BY <2>1 DEF Blameless
  <2>4. Steady
    BY <2>2, <2>3 DEF Steady
  <2>5. ReasonIndInv'
    BY <2>2, <2>3, <2>4, ReasonIndStep
  <2> QED BY <2>2, <2>3, <2>5, OnlyFaultsHang
<1> QED BY <1>2, <1>3 DEF Blameless

LEMMA BlamelessHolds ==
    ASSUME ReasonAssumed
    PROVE  Spec => []Blameless
<1>1. ReasonAssumed /\ RoundsAssumed
  BY DEF ReasonAssumed, CountsAssumed, ProgressAssumed
<1>2. Init => Blameless
  BY <1>1, ReasonInitially DEF Blameless, ReasonIndInv, Init, DeviceInit
<1>3. Blameless /\ [Next]_vars => Blameless'
  BY <1>1, BlamelessStep
<1> QED BY <1>2, <1>3, PTL DEF Spec

(* What the host has counted, retried and blamed has happened: ReasonInv is *)
(* an invariant of every session whose filters the counter of the board     *)
(* understands, on a board that neither crashes nor hangs nor resets and a  *)
(* link that does not lose the port by itself.                              *)
THEOREM ReasonInductive ==
    ASSUME ReasonAssumed, PlanAssumed
    PROVE  Spec => []ReasonInv
<1> DEFINE ReasonSafe == ReasonIndInv /\ dpc # "hung"
<1>1. ReasonAssumed /\ PlanAssumed /\ RoundsAssumed
  BY DEF ReasonAssumed, CountsAssumed, ProgressAssumed
<1>2. Init => ReasonSafe
  BY <1>1, ReasonInitially DEF Init, DeviceInit
<1>3. ReasonSafe /\ [Next]_vars => ReasonSafe'
  BY <1>1, ReasonIndStep, MildKeepsPort
<1>4. ReasonSafe => ReasonInv
  BY DEF ReasonIndInv
<1> HIDE DEF ReasonSafe
<1> QED BY <1>2, <1>3, <1>4, PTL DEF Spec

(* A red run has a reason: when nothing was damaged, no assertion failed    *)
(* and no test slept more often than MAX_SLEEP_RETRIES allows, none of the  *)
(* reports of runner.py -- crash, hang, missing or unfinished tests, an     *)
(* under-run -- is made, whatever the timing was and whatever might have    *)
(* gone wrong.                                                              *)
THEOREM RedsHaveReason ==
    ASSUME ReasonAssumed
    PROVE  Spec => []RedHasReason
<1>1. Blameless => RedHasReason
  BY DEF Blameless, ReasonIndInv, ReasonInv, BlamedInv, Uneventful, RedHasReason, Green
<1> QED BY <1>1, BlamelessHolds, PTL
=============================================================================
