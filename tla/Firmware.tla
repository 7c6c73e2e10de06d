------------------------------ MODULE Firmware ------------------------------
(***************************************************************************)
(* The board: wait_for_command(), run_cycle(), run_tests() and idle_loop()  *)
(* of include/etst/doctest/runner.h, the ETST API a test calls              *)
(* (test_runner.h), and what the hardware does to them: deep sleep, restart,*)
(* crash, hang, power loss.                                                 *)
(*                                                                          *)
(* Everything here is in RAM: Boot sets it all.  Between two boots m_skip   *)
(* is never restored, and tests_complete stays set.                         *)
(***************************************************************************)
EXTENDS Registry, Link

CONSTANTS
    Sleepers,    \* tests that signal_sleep() in phase one
    Relapsers,   \* sleepers that may sleep again although is_test_wake()
    Restarters,  \* sleepers that use signal_restart() instead
    Failing,     \* tests with a failing assertion
    Slow,        \* tests that signal_busy() and then work in silence
    Standalone,  \* config.ready_timeout_ms > 0
    MaxNaps      \* bound: a test's sleeps are counted up to this

ASSUME FirmwareAssumption ==
    /\ Sleepers \subseteq Tests /\ Failing \subseteq Tests
    /\ Slow \subseteq Tests
    /\ Relapsers \subseteq Sleepers /\ Restarters \subseteq Sleepers
    /\ Standalone \in BOOLEAN
    /\ MaxNaps \in Nat \ {0}

VARIABLES
    dpc,     \* where the program is, see Places
    idle,    \* tests_complete: in idle_loop()
    due,     \* millis() has reached next_ready
    args,    \* cmd_result.args, concatenated
    env,     \* the env store
    skip,    \* tests whose m_skip is set
    wake,    \* _etst_is_wake_cycle
    todo,    \* tests context.run() has yet to reach
    cur,     \* the running test, 0 for none
    flags    \* history: the flags of the cycle that runs or ran last

(* What happened to the tests, over all boots: history.  A test of Failing  *)
(* fails in its first phase only, which is what reads failed.               *)
VARIABLES
    begun,   \* tests that were started
    ended,   \* tests whose body returned
    failed,  \* tests that printed a failed assertion
    naps     \* times each test went to sleep

cycleVars == <<todo, cur, flags>>
registryVars == <<skip, env, wake>>
historyVars == <<begun, ended, failed, naps>>
deviceVars == <<dpc, idle, due, args, registryVars, cycleVars, historyVars>>

Places == {"init",     \* run_tests() up to the board_init hook
           "dead",     \* board_init failed: delay() for ever
           "wait",     \* wait_for_command()
           "cycle",    \* in context.run(), between tests
           "test",     \* in a test body
           "quiet",    \* in a test body, silent as announced by BUSY
           "hung",     \* in a test body, silent
           "doze",     \* signalled sleep or restart, not yet gone
           "crashed",  \* printed its dump, not yet rebooted
           "off",      \* asleep or without power: not on the bus
           "late"}     \* still off when it should have been back

-----------------------------------------------------------------------------
(* Boot: static storage as the image has it, an empty receive buffer.       *)

MutantBoot ==
    /\ dpc' = "init" /\ idle' = FALSE /\ due' = TRUE
    /\ args' = <<>> /\ env' = EmptyEnv
    /\ skip' = skip /\ wake' = FALSE
    /\ todo' = {} /\ cur' = 0 /\ flags' = <<>>
    /\ toDev' = <<>>
    /\ UNCHANGED historyVars

Boot ==
    /\ dpc' = "init" /\ idle' = FALSE /\ due' = TRUE
    /\ args' = <<>> /\ env' = EmptyEnv
    /\ skip' = StaticSkip /\ wake' = FALSE
    /\ todo' = {} /\ cur' = 0 /\ flags' = <<>>
    /\ toDev' = <<>>
    /\ UNCHANGED historyVars

DeviceInit ==
    /\ dpc = "init" /\ idle = FALSE /\ due = TRUE
    /\ args = <<>> /\ env = EmptyEnv
    /\ skip = StaticSkip /\ wake = FALSE
    /\ todo = {} /\ cur = 0 /\ flags = <<>>
    /\ begun = {} /\ ended = {} /\ failed = {}
    /\ naps = [t \in Tests |-> 0]

(* The board_init hook succeeds, or there is none.                          *)
BoardInit ==
    /\ dpc = "init"
    /\ dpc' = "wait"
    /\ UNCHANGED <<idle, due, args, registryVars, cycleVars, historyVars,
                   linkVars>>

-----------------------------------------------------------------------------
(* wait_for_command().  A due READY goes out before the next line is read.  *)

MutantEmitReady ==
    /\ dpc = "wait" /\ due
    /\ Emit(<<Tagged("READY")>>)
    /\ due' = FALSE
    /\ UNCHANGED <<dpc, idle, args, env, skip, wake, cycleVars, historyVars,
                   port, handle, toDev, faults>>

(* READY opens a new configure phase: earlier ARGS and env are dropped.     *)
EmitReady ==
    /\ dpc = "wait" /\ due
    /\ Emit(<<Tagged("READY")>>)
    /\ due' = FALSE
    /\ args' = <<>> /\ env' = EmptyEnv
    /\ UNCHANGED <<dpc, idle, skip, wake, cycleVars, historyVars,
                   port, handle, toDev, faults>>

(* READY_INTERVAL_MS passes.                                                *)
IntervalElapses ==
    /\ dpc = "wait" /\ ~due
    /\ due' = TRUE
    /\ UNCHANGED <<dpc, idle, args, registryVars, cycleVars, historyVars,
                   linkVars>>

Receives(msg) ==
    /\ dpc = "wait" /\ ~due
    /\ toDev # <<>> /\ msg = Head(toDev)
    /\ toDev' = Tail(toDev)

ReceiveArgs ==
    \E msg \in {toDev[i] : i \in DOMAIN toDev} :
        /\ Receives(msg) /\ msg.crc = "ok" /\ msg.kind = "ARGS"
        /\ args' = args \o msg.flags
        /\ UNCHANGED <<dpc, idle, due, registryVars, cycleVars, historyVars,
                       port, handle, wire, faults>>

(* A line without a valid CRC drops what was accumulated and asks again.    *)
ReceiveBad ==
    \E msg \in {toDev[i] : i \in DOMAIN toDev} :
        /\ Receives(msg) /\ msg.crc # "ok"
        /\ due' = TRUE
        /\ args' = <<>> /\ env' = EmptyEnv
        /\ UNCHANGED <<dpc, idle, skip, wake, cycleVars, historyVars,
                       port, handle, wire, faults>>

-----------------------------------------------------------------------------
(* run_cycle() up to context.run(): m_skip, the env store and the wake flag *)
(* are set from the command, a malformed --env reports an error, COUNTS     *)
(* tells the host what will run.  LIST runs nothing.                        *)

Prologue(msg) ==
    LET fl == CommandFlags(msg, args)
        runs == IF msg.kind = "LIST" THEN {} ELSE RunBy(skip, env, msg, fl)
        wakes == \E i \in DOMAIN fl : fl[i] = WakeFlag /\ ReachedBy(fl, i)
    IN  /\ Emit((IF Malformed(fl) THEN <<Tagged("ERROR")>> ELSE <<>>)
                \o (IF msg.kind = "LIST" THEN <<>>
                    ELSE <<Line("COUNTS", NoName, NoName,
                                CountBy(skip, env, msg, fl))>>))
        /\ todo' = runs
        /\ skip' = SkipForCycle(skip, env, msg, fl)
        /\ env' = EnvAfter(env, fl)
        /\ wake' = (wake \/ wakes)
        /\ flags' = fl
        /\ dpc' = "cycle" /\ args' = <<>>

(* The commands idle_loop() handles itself; before the first cycle has      *)
(* completed they are unknown commands, which run every test.               *)
ControlKinds == {"RESTART", "SLEEP", "LIGHTSLEEP", "WAIT"}

ReceiveCommand ==
    \E msg \in {toDev[i] : i \in DOMAIN toDev} :
        /\ Receives(msg) /\ msg.crc = "ok" /\ msg.kind # "ARGS"
        /\ ~(idle /\ msg.kind \in ControlKinds)
        /\ Prologue(msg)
        /\ UNCHANGED <<idle, due, cur, historyVars, port, handle, faults>>

(* RESTART reboots, SLEEP powers down; either way the port goes.            *)
ReceivePowerCommand ==
    /\ idle
    /\ dpc = "wait" /\ ~due /\ toDev # <<>>
    /\ Head(toDev).crc = "ok" /\ Head(toDev).kind \in {"RESTART", "SLEEP"}
    /\ dpc' = "off"
    /\ PortDrops
    /\ UNCHANGED <<idle, due, args, registryVars, cycleVars, historyVars,
                   faults>>

(* WAIT and LIGHTSLEEP end in a fresh wait_for_command().                   *)
ReceiveIdleCommand ==
    \E msg \in {toDev[i] : i \in DOMAIN toDev} :
        /\ idle /\ Receives(msg) /\ msg.crc = "ok"
        /\ msg.kind \in {"WAIT", "LIGHTSLEEP"}
        /\ due' = TRUE /\ args' = <<>>
        /\ UNCHANGED <<dpc, idle, registryVars, cycleVars, historyVars,
                       port, handle, wire, faults>>

(* ready_timeout_ms passes without a host: an empty command, without the    *)
(* accumulated args (combine_command_args passes it through).               *)
RunStandalone ==
    /\ Standalone /\ ~idle /\ dpc = "wait" /\ ~due
    /\ Prologue(Message("", "", <<>>))
    /\ UNCHANGED <<idle, due, cur, historyVars, port, handle, toDev, faults>>

-----------------------------------------------------------------------------
(* context.run(): the selected tests in order, each announced by the        *)
(* listener's CASE:START.                                                   *)

StartTest ==
    /\ dpc = "cycle" /\ todo # {}
    /\ \E t \in todo :
          /\ \A u \in todo : t <= u
          /\ Emit(<<Line("CASE:START", SuiteOf[t], NameOf[t], 0)>>)
          /\ todo' = todo \ {t}
          /\ cur' = t
          /\ begun' = begun \cup {t}
    /\ dpc' = "test"
    /\ UNCHANGED <<idle, due, args, registryVars, flags, ended, failed, naps,
                   port, handle, toDev, faults>>

(* A test reads is_test_wake() to know which phase it is in.                *)
MaySleep(t) == t \in Sleepers /\ (~wake \/ t \in Relapsers)
MayEnd(t) == t \in Sleepers => wake
HasFailed(t) == t \in Failing => t \in failed

FailAssertion ==
    /\ dpc = "test" /\ ~HasFailed(cur)
    /\ Emit(<<Console("FAIL")>>)
    /\ failed' = failed \cup {cur}
    /\ UNCHANGED <<dpc, idle, due, args, registryVars, cycleVars, begun, ended,
                   naps, port, handle, toDev, faults>>

(* signal_busy(): the body then works without output for at most as long.   *)
SignalBusy ==
    /\ dpc = "test" /\ cur \in Slow /\ HasFailed(cur)
    /\ Emit(<<Tagged("BUSY")>>)
    /\ dpc' = "quiet"
    /\ UNCHANGED <<idle, due, args, registryVars, cycleVars, historyVars,
                   port, handle, toDev, faults>>

(* Where the body of the running test can return or go to sleep.            *)
BodyDone ==
    /\ dpc \in {"test", "quiet"}
    /\ HasFailed(cur)
    /\ cur \in Slow => dpc = "quiet"

MutantEndTest ==
    /\ BodyDone /\ MayEnd(cur)
    /\ ended' = ended \cup {cur}
    /\ cur' = 0
    /\ UNCHANGED <<dpc, idle, due, args, registryVars, todo, flags, begun,
                   failed, naps, linkVars>>

EndTest ==
    /\ BodyDone /\ MayEnd(cur)
    /\ dpc' = "cycle"
    /\ ended' = ended \cup {cur}
    /\ cur' = 0
    /\ UNCHANGED <<idle, due, args, registryVars, todo, flags, begun, failed,
                   naps, linkVars>>

(* signal_sleep() or signal_restart().                                      *)
SignalSleep ==
    /\ BodyDone /\ MaySleep(cur)
    /\ Emit(<<Tagged(IF cur \in Restarters THEN "RESTART" ELSE "SLEEP")>>)
    /\ dpc' = "doze"
    /\ naps' = [naps EXCEPT ![cur] = IF @ < MaxNaps THEN @ + 1 ELSE @]
    /\ UNCHANGED <<idle, due, args, registryVars, cycleVars, begun, ended,
                   failed, port, handle, toDev, faults>>

(* The test flushes Serial and delays before it goes down, so a host that   *)
(* listens has read the announcement by then.                               *)
GoDown ==
    /\ dpc = "doze"
    /\ handle = "live" => wire = <<>>
    /\ dpc' = "off"
    /\ PortDrops
    /\ UNCHANGED <<idle, due, args, registryVars, cycleVars, historyVars,
                   faults>>

(* Wake-up, restart or power return: the USB device enumerates again.       *)
PowerUp ==
    /\ dpc \in {"off", "late"}
    /\ Boot
    /\ port' = TRUE
    /\ UNCHANGED <<handle, wire, faults>>

MutantFinishCycle ==
    /\ dpc = "cycle" /\ todo = {}
    /\ Emit(<<Tagged("DONE")>>)
    /\ dpc' = "wait" /\ idle' = TRUE /\ due' = TRUE
    /\ UNCHANGED <<args, registryVars, cycleVars, historyVars,
                   port, handle, toDev, faults>>

(* The end of run_cycle(): the wake flag is cleared, DONE goes out, and the *)
(* next wait_for_command() starts with a READY due.                         *)
FinishCycle ==
    /\ dpc = "cycle" /\ todo = {}
    /\ Emit(<<Tagged("DONE")>>)
    /\ wake' = FALSE
    /\ dpc' = "wait" /\ idle' = TRUE /\ due' = TRUE
    /\ UNCHANGED <<args, skip, env, cycleVars, historyVars,
                   port, handle, toDev, faults>>

-----------------------------------------------------------------------------
(* What goes wrong with the board.                                          *)

Away == dpc \in {"off", "late"}

(* board_init fails: an error is reported, and then nothing ever again.     *)
BoardInitFails ==
    /\ dpc = "init" /\ Fault("init")
    /\ Emit(<<Tagged("ERROR")>>)
    /\ dpc' = "dead"
    /\ UNCHANGED <<idle, due, args, registryVars, cycleVars, historyVars,
                   port, handle, toDev>>

Hang ==
    /\ dpc \in {"test", "quiet"} /\ Fault("hang")
    /\ dpc' = "hung"
    /\ UNCHANGED <<idle, due, args, registryVars, cycleVars, historyVars,
                   port, handle, wire, toDev>>

(* It was only slow.                                                        *)
Unhang ==
    /\ dpc = "hung"
    /\ dpc' = "test"
    /\ UNCHANGED <<idle, due, args, registryVars, cycleVars, historyVars,
                   linkVars>>

Crash ==
    /\ dpc = "test" /\ Fault("crash")
    /\ Emit(<<Console("CRASH")>>)
    /\ dpc' = "crashed"
    /\ UNCHANGED <<idle, due, args, registryVars, cycleVars, historyVars,
                   port, handle, toDev>>

Reboot ==
    /\ dpc = "crashed"
    /\ Boot
    /\ UNCHANGED <<port, handle, wire, faults>>

(* A reset that prints nothing and leaves the port up.                      *)
SilentReset ==
    /\ ~Away /\ Fault("reset")
    /\ Boot
    /\ UNCHANGED <<port, handle, wire>>

(* Cable or power: the port goes, and with it the run.                      *)
PowerLoss ==
    /\ ~Away /\ Fault("drop")
    /\ dpc' = "off"
    /\ PortDrops
    /\ UNCHANGED <<idle, due, args, registryVars, cycleVars, historyVars>>

(* It stays away longer than it said.                                       *)
Oversleep ==
    /\ dpc = "off" /\ Fault("oversleep")
    /\ dpc' = "late"
    /\ UNCHANGED <<idle, due, args, registryVars, cycleVars, historyVars,
                   port, handle, wire, toDev>>

Faulty ==
    \/ BoardInitFails \/ Hang \/ Unhang \/ Crash
    \/ SilentReset \/ PowerLoss \/ Oversleep

-----------------------------------------------------------------------------
(* The steps the board takes by itself, READY's timer apart.                *)
DeviceRuns ==
    \/ BoardInit \/ EmitReady \/ ReceiveArgs \/ ReceiveBad \/ ReceiveCommand
    \/ ReceivePowerCommand \/ ReceiveIdleCommand \/ RunStandalone
    \/ StartTest \/ FailAssertion \/ SignalBusy \/ EndTest \/ SignalSleep \/ GoDown
    \/ PowerUp \/ FinishCycle \/ Reboot

-----------------------------------------------------------------------------
(* Properties.                                                              *)

InTest == dpc \in {"test", "quiet", "hung", "doze", "crashed"}
InCycle == InTest \/ dpc = "cycle"

(* Every variable keeps its type.                                           *)
FirmwareTypeOK ==
    /\ dpc \in Places /\ idle \in BOOLEAN /\ due \in BOOLEAN
    /\ env \in Envs /\ skip \subseteq Tests /\ wake \in BOOLEAN
    /\ todo \subseteq Tests /\ cur \in Tests \cup {0}
    /\ begun \subseteq Tests /\ ended \subseteq Tests
    /\ failed \subseteq Tests /\ naps \in [Tests -> 0..MaxNaps]
    /\ InTest => cur \in Tests

(* A test sees is_test_wake() exactly when the command of its own cycle     *)
(* said --wake: the flag of a phase two never leaks into the resume cycle   *)
(* or survives a reboot.                                                    *)
WakeIsOfThisCycle ==
    /\ wake => InCycle \/ Away
    /\ InCycle => (wake <=> \E i \in DOMAIN flags :
                               flags[i] = WakeFlag /\ ReachedBy(flags, i))

(* The environment a cycle's tests see is what its own configure phase and  *)
(* command set, nothing left over from a cycle before (design.md: "a        *)
(* per-cycle env store cleared at each READY").                             *)
EnvIsOfThisCycle == InCycle => env = EnvAfter(EmptyEnv, flags)
=============================================================================
