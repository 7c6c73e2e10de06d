------------------------------ MODULE Session ------------------------------
(***************************************************************************)
(* Test sessions: the host (Runner) and the board (Firmware) over one       *)
(* serial link.  Each step is a step of one of them or a fault.  A session  *)
(* is one invocation of the host; the next one finds the board as the last  *)
(* one left it.                                                             *)
(*                                                                          *)
(* Clocks are in the guards: a timeout of the host needs the silence it     *)
(* waits for, and READY's timer needs an idle link when the host is prompt. *)
(***************************************************************************)
EXTENDS Runner, Firmware

CONSTANTS
    Resets,     \* per session: its first open toggles DTR/RTS (not --no-reset)
    PromptHost  \* the host answers a READY within READY_INTERVAL_MS

ASSUME SessionAssumption ==
    /\ Resets \in Seq(BOOLEAN) /\ Resets # <<>>
    /\ PromptHost \in BOOLEAN

VARIABLE session  \* the sessions so far, the present one included

hostVars == <<runnerVars, protocolVars>>
vars == <<session, hostVars, deviceVars, linkVars>>

Init == session = 1 /\ RunnerInit /\ ProtocolInit /\ DeviceInit /\ LinkInit

-----------------------------------------------------------------------------
(* open_serial(reset=True) resets the board and discards what it wrote      *)
(* before; every later open leaves the board alone.                         *)
FirstOpen ==
    /\ OpenPort
    /\ cycle = "first"
    /\ IF Resets[session] THEN Boot /\ wire' = <<>>
                      ELSE UNCHANGED <<deviceVars, toDev>>

LaterOpen ==
    /\ OpenPort
    /\ cycle # "first"
    /\ UNCHANGED <<deviceVars, toDev>>

(* No READY for 30 s, no output for the hang timeout: the board is silent   *)
(* that long only in a test that hangs or announced it, and when its        *)
(* board_init failed.                                                       *)
Silent == dpc \in {"hung", "quiet", "dead"}
TimesOut == Silent /\ (ReadyTimeout \/ HangTimeout)

(* The time a test announces with BUSY is enough for what it does in it.    *)
BusyIsOver == dpc # "quiet" /\ BusyExpires /\ UNCHANGED <<runnerVars, linkVars>>

(* The wait is sleep time plus padding, so it outlasts the sleep unless the *)
(* board oversleeps; then the deadline passes first.                        *)
WakeWaitOver == dpc \notin {"doze", "off"} /\ StartPhaseTwo

(* A board that waits for a command reads what it gets within the second    *)
(* the host lingers, unless it cannot write.                                *)
BoardHasRead == dpc = "wait" => toDev = <<>> \/ Len(wire) = WireCap
LingerEnds == BoardHasRead /\ LingerOver

(* open_serial() retries for five seconds: it fails only on a board that    *)
(* stays away longer, because of a fault.                                   *)
OpenGivesUp == OpenFails /\ faults > 0

HostMoves ==
    \/ FirstOpen
    \/ LaterOpen
    \/ (HostSteps \/ TimesOut \/ BusyIsOver \/ WakeWaitOver \/ LingerEnds
           \/ OpenGivesUp)
       /\ UNCHANGED deviceVars

(* The next READY is due.                                                   *)
LinkIdle == wire = <<>> /\ toDev = <<>> /\ hpc # "feed"
ReadyTimer == IntervalElapses /\ (PromptHost => LinkIdle)

DeviceMoves == (DeviceRuns \/ ReadyTimer) /\ UNCHANGED hostVars

Mishap ==
    \/ Faulty /\ UNCHANGED hostVars
    \/ (GarbleLine \/ GarbleMessage) /\ UNCHANGED <<hostVars, deviceVars>>

(* The next invocation of the host: everything of the host is new, and the  *)
(* history starts over.                                                     *)
NewSession ==
    /\ hpc = "over" /\ session < Len(Resets)
    /\ session' = session + 1
    /\ Invoke
    /\ begun' = {} /\ ended' = {} /\ failed' = {}
    /\ naps' = [t \in Tests |-> 0]
    /\ UNCHANGED <<dpc, idle, due, args, registryVars, cycleVars, linkVars>>

Next ==
    \/ (HostMoves \/ DeviceMoves \/ Mishap) /\ UNCHANGED session
    \/ NewSession

Spec == Init /\ [][Next]_vars

(* The host's thread and the board's loop keep running, timers expire, a    *)
(* read loop with a deadline ends.  A hung test need not come back.         *)
Fairness ==
    /\ WF_vars(HostMoves /\ UNCHANGED session)
    /\ SF_vars(DrainEnds /\ UNCHANGED <<session, deviceVars>>)
    /\ WF_vars(DeviceRuns /\ UNCHANGED <<session, hostVars>>)
    /\ WF_vars(ReadyTimer /\ UNCHANGED <<session, hostVars>>)

FairSpec == Spec /\ Fairness

-----------------------------------------------------------------------------
(* What the session is asked to run: what the initial command selects on a  *)
(* freshly booted board.                                                    *)
ArgsUpTo[i \in 0..Len(ArgsLines)] ==
    IF i = 0 THEN <<>> ELSE ArgsUpTo[i - 1] \o ArgsLines[i]
AllArgs == ArgsUpTo[Len(ArgsLines)]

Asked == RunBy(StaticSkip, EmptyEnv, InitialCommand,
               CommandFlags(InitialCommand, AllArgs))

LabelOf(t) == Label(SuiteOf[t], NameOf[t])

-----------------------------------------------------------------------------
(* Properties.                                                              *)

(* A green run is earned: every test the session was asked to run has       *)
(* ended.                                                                   *)
GreenIsEarned == Green => Asked \subseteq ended

(* Whatever is lost, damaged or repeated, the host counts no test that the  *)
(* board has not started.                                                   *)
CountedHasBegun == completed \subseteq {LabelOf(t) : t \in begun}

(* A red run has a reason: when nothing went wrong on the link or the board,*)
(* no assertion failed and no test slept too often, the verdict is green,   *)
(* with filters, restarts, tests that announce a long silence or are in no  *)
(* suite, and after any session before.                                     *)
RedHasReason ==
    hpc = "over" /\ faults = 0 /\ failed = {}
        /\ (\A t \in Tests : naps[t] <= MaxSleepRetries) => Green

(* A recorded assertion failure reaches the verdict.                        *)
FailureIsRed == hpc = "over" /\ failed # {} => ~Green

(* No test that has ended is started again, whatever sleeps and resumes     *)
(* come between.                                                            *)
NoRerun == [][cur' # cur /\ cur' # 0 => cur' \notin ended]_vars

(* A test sees is_test_wake() exactly when it has slept before: phase two   *)
(* is never taken for phase one, nor a fresh test for a resumed one.        *)
WakeIsPhaseTwo == dpc = "test" => (wake <=> naps[cur] > 0)

(* The expected total is what the first cycle was going to run.             *)
ExpectedIsAsked == latched => expectedRun = Cardinality(Asked)

(* Every --env and filter the host was started with is in force in every    *)
(* cycle, the resumed ones included.                                        *)
ArgsReachTheCycle ==
    InCycle => \A i \in DOMAIN AllArgs :
                  \E j \in DOMAIN flags : flags[j] = AllArgs[i]

(* A test that sleeps every time is given MAX_SLEEP_RETRIES more chances.   *)
NapsBounded == \A t \in Tests : naps[t] <= MaxSleepRetries + 1

(* A board told to sleep when the tests are done goes to sleep.  It does    *)
(* not, for want of a CRC: see README, known limits.                        *)
SleepsWhenDone == OnDone = "SLEEP" => <>(dpc = "off")

(* Every session ends.                                                      *)
Termination == hpc = "open" ~> hpc = "over"

(* The session keeps the promise of TestPlan.  A test is taken up by its    *)
(* first CASE:START; its second phase is still the same take.               *)
Plan == INSTANCE TestPlan WITH
    Wanted <- Asked,
    Broken <- Asked \cap Failing,
    reached <- IF begun = {} THEN 0
               ELSE CHOOSE t \in begun : \A u \in begun : u <= t,
    done <- ended,
    verdict <- IF hpc # "over" THEN "none"
               ELSE IF Green THEN "green" ELSE "red"

PlanSpec == Plan!Spec
=============================================================================
