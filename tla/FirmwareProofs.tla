--------------------------- MODULE FirmwareProofs ---------------------------
(***************************************************************************)
(* Theorems of the board against any host, for every registry, every set of *)
(* messages and every bound, with crashes, hangs, resets and power loss.    *)
(***************************************************************************)
EXTENDS Board, SequenceTheorems, TLAPS

(* The wake flag and the environment are those of the cycle that runs; what *)
(* makes this inductive is that both are clear while a command is awaited.  *)
ConfigureInv ==
    /\ wake \in BOOLEAN
    /\ WakeIsOfThisCycle
    /\ EnvIsOfThisCycle
    /\ dpc \in {"init", "wait"} /\ ~due => env = EmptyEnv

configVars == <<dpc, due, env, wake, flags>>

(* A reboot clears everything.                                              *)
LEMMA BootKeepsConfigure ==
    ASSUME Boot PROVE ConfigureInv'
BY DEF Boot, ConfigureInv, WakeIsOfThisCycle, EnvIsOfThisCycle, InCycle, InTest, Away

(* A cycle starts with what its own command sets.                           *)
LEMMA PrologueKeepsConfigure ==
    ASSUME ConfigureInv, dpc = "wait", ~due, NEW msg, Prologue(msg)
    PROVE  ConfigureInv'
<1> DEFINE fl == CommandFlags(msg, args)
           wakes == \E i \in DOMAIN fl : fl[i] = WakeFlag /\ ReachedBy(fl, i)
<1>1. wake = FALSE /\ env = EmptyEnv
  BY DEF ConfigureInv, WakeIsOfThisCycle, InCycle, InTest, Away
<1>2. dpc' = "cycle" /\ flags' = fl /\ env' = EnvAfter(env, fl)
      /\ wake' = (wake \/ wakes)
  BY DEF Prologue
<1>3. InCycle' /\ ~Away' /\ dpc' \notin {"init", "wait"}
  BY <1>2 DEF InCycle, InTest, Away
<1>4. EnvIsOfThisCycle'
  BY <1>1, <1>2 DEF EnvIsOfThisCycle
<1>5. wake' = wakes
  BY <1>1, <1>2
<1>6. wakes = \E i \in DOMAIN flags' : flags'[i] = WakeFlag /\ ReachedBy(flags', i)
  BY <1>2
<1>7. wake' \in BOOLEAN /\ WakeIsOfThisCycle'
  <2> HIDE DEF fl, wakes
  <2>1. wakes \in BOOLEAN
    BY DEF wakes
  <2> QED BY <1>3, <1>5, <1>6, <2>1 DEF WakeIsOfThisCycle
<1> QED BY <1>3, <1>4, <1>7 DEF ConfigureInv

(* A step of the board or of its host keeps the configuration's invariant.  *)
LEMMA ConfigureStep ==
    ASSUME ConfigureInv, [Next]_vars
    PROVE  ConfigureInv'
<1> USE DEF ConfigureInv, WakeIsOfThisCycle, EnvIsOfThisCycle, InCycle, InTest,
            Away, BodyDone, cycleVars, registryVars
<1>1. CASE UNCHANGED configVars
  BY <1>1 DEF configVars
<1>2. CASE EmitReady
  BY <1>2 DEF EmitReady
<1>3. CASE IntervalElapses
  BY <1>3 DEF IntervalElapses
<1>4. CASE ReceiveArgs
  BY <1>1, <1>4 DEF ReceiveArgs, Receives, configVars
<1>5. CASE ReceiveBad
  BY <1>5 DEF ReceiveBad, Receives
<1>6. CASE ReceiveCommand
  <2>1. PICK msg : Receives(msg) /\ Prologue(msg) /\ UNCHANGED due
    BY <1>6 DEF ReceiveCommand
  <2> QED BY <2>1, PrologueKeepsConfigure DEF Receives
<1>7. CASE ReceivePowerCommand
  BY <1>7 DEF ReceivePowerCommand
<1>8. CASE ReceiveIdleCommand
  BY <1>8 DEF ReceiveIdleCommand, Receives
<1>9. CASE RunStandalone
  BY <1>9, PrologueKeepsConfigure DEF RunStandalone
<1>10. CASE StartTest
  BY <1>10 DEF StartTest
<1>11. CASE FailAssertion
  BY <1>1, <1>11 DEF FailAssertion, configVars
<1>12. CASE EndTest
  BY <1>12 DEF EndTest
<1>13. CASE SignalSleep
  BY <1>13 DEF SignalSleep
<1>14. CASE GoDown
  BY <1>14 DEF GoDown
<1>15. CASE PowerUp \/ Reboot \/ SilentReset
  BY <1>15, BootKeepsConfigure DEF PowerUp, Reboot, SilentReset
<1>16. CASE FinishCycle
  BY <1>16 DEF FinishCycle
<1>17. CASE Hang \/ Unhang \/ Crash \/ BoardInitFails
  BY <1>17 DEF Hang, Unhang, Crash, BoardInitFails
<1>18. CASE PowerLoss \/ Oversleep
  BY <1>18 DEF PowerLoss, Oversleep
<1>19. CASE Host \/ Noise \/ UNCHANGED vars
  <2>1. UNCHANGED configVars
    BY <1>19 DEF Host, HostSends, HostReads, HostOpens, HostCloses, Noise,
       deviceVars, vars, configVars
  <2> QED BY <1>1, <2>1
<1>20. CASE BoardInit \/ SignalBusy
  BY <1>20 DEF BoardInit, SignalBusy
<1> QED BY <1>2, <1>3, <1>4, <1>5, <1>6, <1>7, <1>8, <1>9, <1>10, <1>11, <1>12,
           <1>13, <1>14, <1>15, <1>16, <1>17, <1>18, <1>19, <1>20
        DEF Next, DeviceRuns, Faulty

(* A test sees is_test_wake() exactly when the command of its own cycle     *)
(* said --wake, and sees the environment its own configure phase set,       *)
(* through any order of commands, sleeps, crashes and reboots (run_cycle(), *)
(* wait_for_command(), clear_test_wake(), env_clear()).                     *)
THEOREM ConfigureIsOfThisCycle ==
    Spec => [](WakeIsOfThisCycle /\ EnvIsOfThisCycle)
<1>1. Init => ConfigureInv
  BY DEF Init, DeviceInit, ConfigureInv, WakeIsOfThisCycle, EnvIsOfThisCycle,
     InCycle, InTest, Away
<1>2. ConfigureInv /\ [Next]_vars => ConfigureInv'
  BY ConfigureStep
<1>3. ConfigureInv => WakeIsOfThisCycle /\ EnvIsOfThisCycle
  BY DEF ConfigureInv
<1> QED BY <1>1, <1>2, <1>3, PTL DEF Spec

-----------------------------------------------------------------------------
(* Types.  What the board holds has a type because what it is sent has one. *)
TypeInv ==
    /\ FirmwareTypeOK
    /\ args \in Seq(AnyFlag)
    /\ toDev \in Seq(AnyMessage)

(* The flags a command applies, and what they leave of the environment.     *)
LEMMA CommandTypes ==
    ASSUME args \in Seq(AnyFlag), NEW msg, msg.flags \in Seq(AnyFlag)
    PROVE  CommandFlags(msg, args) \in Seq(AnyFlag)
<1>1. <<>> \in Seq(AnyFlag)
  BY EmptySeq
<1>2. args \o msg.flags \in Seq(AnyFlag) /\ msg.flags \o args \in Seq(AnyFlag)
  OBVIOUS
<1> QED BY <1>1, <1>2 DEF CommandFlags

LEMMA EnvTypes ==
    ASSUME NEW fl \in Seq(AnyFlag), NEW e \in Envs
    PROVE  EnvAfter(e, fl) \in Envs
<1> DEFINE Sets(i, k) == /\ ReachedBy(fl, i)
                         /\ fl[i].flag = "--env" /\ fl[i].key = k
           Last(k) == {i \in DOMAIN fl :
                          Sets(i, k) /\ \A j \in DOMAIN fl : j > i => ~Sets(j, k)}
<1>1. EnvAfter(e, fl) = [k \in Keys |->
          IF Last(k) = {} THEN e[k] ELSE fl[CHOOSE i \in Last(k) : TRUE].val]
  BY DEF EnvAfter
<1> HIDE DEF Sets
<1>2. ASSUME NEW i \in DOMAIN fl PROVE fl[i].val \in Values \cup {Unset}
  <2>1. fl[i] \in AnyFlag
    OBVIOUS
  <2> QED BY <2>1 DEF AnyFlag
<1>3. ASSUME NEW k, Last(k) # {} PROVE (CHOOSE i \in Last(k) : TRUE) \in DOMAIN fl
  BY <1>3
<1> HIDE DEF Last
<1>4. ASSUME NEW k \in Keys PROVE e[k] \in Values \cup {Unset}
  BY DEF Envs
<1> QED BY <1>1, <1>2, <1>3, <1>4 DEF Envs

(* run_cycle() up to context.run() keeps the types.                         *)
LEMMA PrologueKeepsTypes ==
    ASSUME TypeInv, NEW msg, msg.flags \in Seq(AnyFlag), Prologue(msg)
    PROVE  /\ env' \in Envs /\ skip' \subseteq Tests /\ todo' \subseteq Tests
           /\ wake' \in BOOLEAN /\ dpc' = "cycle" /\ args' = <<>>
<1> DEFINE fl == CommandFlags(msg, args)
<1>1. fl \in Seq(AnyFlag)
  BY CommandTypes DEF TypeInv
<1>2. env' \in Envs
  <2>1. env' = EnvAfter(env, fl)
    BY DEF Prologue
  <2> HIDE DEF fl
  <2> QED BY <1>1, <2>1, EnvTypes DEF TypeInv, FirmwareTypeOK
<1> HIDE DEF fl
<1>3. skip' \subseteq Tests
  <2>1. skip' = SkipForCycle(skip, env, msg, fl)
    BY DEF Prologue, fl
  <2> QED BY <2>1 DEF SkipForCycle, SkipAfterEnv, SkipAfterFlags
<1>4. todo' \subseteq Tests
  <2>1. todo' = IF msg.kind = "LIST" THEN {} ELSE RunBy(skip, env, msg, fl)
    BY DEF Prologue, fl
  <2> QED BY <2>1 DEF RunBy, DoctestSelects
<1>5. wake' \in BOOLEAN
  <2>1. wake' = (wake \/ \E i \in DOMAIN fl : fl[i] = WakeFlag /\ ReachedBy(fl, i))
    BY DEF Prologue, fl
  <2>2. (\E i \in DOMAIN fl : fl[i] = WakeFlag /\ ReachedBy(fl, i)) \in BOOLEAN
    OBVIOUS
  <2> QED BY <2>1, <2>2 DEF TypeInv, FirmwareTypeOK
<1> QED BY <1>2, <1>3, <1>4, <1>5 DEF Prologue

LEMMA BootKeepsTypes ==
    ASSUME TypeInv, Boot PROVE TypeInv'
<1>1. EmptyEnv \in Envs
  BY DEF EmptyEnv, Envs
<1>2. args' \in Seq(AnyFlag) /\ toDev' \in Seq(AnyMessage)
  BY EmptySeq DEF Boot
<1> QED BY <1>1, <1>2, RegistryAssumption
        DEF Boot, TypeInv, FirmwareTypeOK, InTest, Places, historyVars

(* The message at the head of the buffer, and the buffer without it.        *)
LEMMA ReceivedTypes ==
    ASSUME TypeInv, NEW msg, Receives(msg)
    PROVE  msg \in AnyMessage /\ toDev' \in Seq(AnyMessage)
BY HeadTailProperties DEF TypeInv, Receives

(* A damaged message is still a message.                                    *)
LEMMA GarbledTypes ==
    ASSUME TypeInv, GarbleMessage
    PROVE  toDev' \in Seq(AnyMessage)
<1>1. PICK i \in DOMAIN toDev : toDev' = [toDev EXCEPT ![i].crc = "bad"]
  BY DEF GarbleMessage
<1>2. toDev[i] \in AnyMessage
  BY <1>1 DEF TypeInv
<1>3. [toDev[i] EXCEPT !.crc = "bad"] \in AnyMessage
  BY <1>2 DEF AnyMessage, Crc
<1>4. toDev' = [toDev EXCEPT ![i] = [toDev[i] EXCEPT !.crc = "bad"]]
  BY <1>1
<1> QED BY <1>1, <1>3, <1>4 DEF TypeInv

(* A step of the board or of its host keeps every type.                     *)
LEMMA TypeStep ==
    ASSUME TypeInv, [Next]_vars
    PROVE  TypeInv'
<1>0. /\ EmptyEnv \in Envs
      /\ <<>> \in Seq(AnyFlag) /\ <<>> \in Seq(AnyMessage)
      /\ Message("", "", <<>>).flags \in Seq(AnyFlag)
  <2>1. <<>> \in Seq(AnyFlag) /\ <<>> \in Seq(AnyMessage)
    BY EmptySeq
  <2>2. Message("", "", <<>>).flags \in Seq(AnyFlag)
    BY <2>1 DEF Message
  <2>3. EmptyEnv \in Envs
    BY DEF EmptyEnv, Envs
  <2> QED BY <2>1, <2>2, <2>3
<1> USE DEF FirmwareTypeOK, InTest, Places, cycleVars, registryVars, historyVars
<1>1. CASE UNCHANGED <<deviceVars, toDev>>
  BY <1>1 DEF TypeInv, deviceVars
<1>2. CASE EmitReady \/ IntervalElapses \/ BoardInit \/ FinishCycle
  BY <1>0, <1>2 DEF TypeInv, EmitReady, IntervalElapses, BoardInit, FinishCycle, linkVars
<1>3. CASE ReceiveArgs
  <2>1. PICK msg : Receives(msg) /\ args' = args \o msg.flags
    BY <1>3 DEF ReceiveArgs
  <2>2. msg \in AnyMessage /\ toDev' \in Seq(AnyMessage)
    BY <2>1, ReceivedTypes
  <2>3. args' \in Seq(AnyFlag)
    BY <2>1, <2>2 DEF AnyMessage, TypeInv
  <2> QED BY <1>3, <2>2, <2>3 DEF ReceiveArgs, TypeInv
<1>4. CASE ReceiveBad \/ ReceiveIdleCommand
  <2>1. \E msg : Receives(msg)
    BY <1>4 DEF ReceiveBad, ReceiveIdleCommand
  <2>2. toDev' \in Seq(AnyMessage)
    BY <2>1, ReceivedTypes
  <2> QED BY <1>0, <1>4, <2>2 DEF ReceiveBad, ReceiveIdleCommand, TypeInv
<1>5. CASE ReceiveCommand
  <2>1. PICK msg : Receives(msg) /\ Prologue(msg)
    BY <1>5 DEF ReceiveCommand
  <2>2. msg.flags \in Seq(AnyFlag) /\ toDev' \in Seq(AnyMessage)
    BY <2>1, ReceivedTypes DEF AnyMessage
  <2>3. /\ env' \in Envs /\ skip' \subseteq Tests /\ todo' \subseteq Tests
        /\ wake' \in BOOLEAN /\ dpc' = "cycle" /\ args' = <<>>
    BY <2>1, <2>2, PrologueKeepsTypes
  <2> QED BY <1>0, <1>5, <2>2, <2>3 DEF ReceiveCommand, TypeInv
<1>6. CASE RunStandalone
  <2>1. /\ env' \in Envs /\ skip' \subseteq Tests /\ todo' \subseteq Tests
        /\ wake' \in BOOLEAN /\ dpc' = "cycle" /\ args' = <<>>
    BY <1>0, <1>6, PrologueKeepsTypes DEF RunStandalone
  <2> QED BY <1>0, <1>6, <2>1 DEF RunStandalone, TypeInv
<1>7. CASE ReceivePowerCommand \/ GoDown \/ PowerLoss
  BY <1>0, <1>7 DEF ReceivePowerCommand, GoDown, PowerLoss, PortDrops, TypeInv
<1>8. CASE StartTest
  <2>1. PICK t \in todo : todo' = todo \ {t} /\ cur' = t /\ begun' = begun \cup {t}
    BY <1>8 DEF StartTest
  <2> QED BY <1>8, <2>1 DEF StartTest, TypeInv
<1>9. CASE FailAssertion
  BY <1>9 DEF FailAssertion, TypeInv
<1>10. CASE EndTest
  BY <1>10 DEF EndTest, BodyDone, TypeInv, linkVars
<1>11. CASE SignalSleep
  <2>1. naps' \in [Tests -> 0..MaxNaps]
    <3>1. naps' = [naps EXCEPT ![cur] = IF @ < MaxNaps THEN @ + 1 ELSE @]
      BY <1>11 DEF SignalSleep
    <3>2. naps \in [Tests -> 0..MaxNaps] /\ MaxNaps \in Nat
      BY FirmwareAssumption DEF TypeInv
    <3>3. ASSUME NEW t \in Tests
          PROVE (IF naps[t] < MaxNaps THEN naps[t] + 1 ELSE naps[t]) \in 0..MaxNaps
      BY <3>2
    <3> QED BY <3>1, <3>2, <3>3
  <2> QED BY <1>11, <2>1 DEF SignalSleep, BodyDone, TypeInv
<1>12. CASE SignalBusy \/ Hang \/ Unhang \/ Crash \/ BoardInitFails \/ Oversleep
  BY <1>12 DEF SignalBusy, Hang, Unhang, Crash, BoardInitFails, Oversleep,
     TypeInv, linkVars
<1>13. CASE PowerUp \/ Reboot \/ SilentReset
  BY <1>13, BootKeepsTypes DEF PowerUp, Reboot, SilentReset
<1>14. CASE HostSends
  <2>1. PICK msg \in HostMessages : toDev' = Append(toDev, msg)
    BY <1>14 DEF HostSends
  <2>2. toDev' \in Seq(AnyMessage)
    BY <2>1, BoardAssumption, AppendProperties DEF TypeInv
  <2> QED BY <1>14, <2>2 DEF HostSends, deviceVars, TypeInv
<1>15. CASE HostReads \/ HostOpens \/ HostCloses
  BY <1>1, <1>15 DEF HostReads, HostOpens, HostCloses
<1>16. CASE Noise
  <2>1. toDev' \in Seq(AnyMessage)
    BY <1>16, GarbledTypes DEF Noise
  <2> QED BY <1>16, <2>1 DEF Noise, deviceVars, TypeInv
<1>17. CASE UNCHANGED vars
  BY <1>1, <1>17 DEF vars, linkVars
<1> QED BY <1>2, <1>3, <1>4, <1>5, <1>6, <1>7, <1>8, <1>9, <1>10, <1>11, <1>12,
           <1>13, <1>14, <1>15, <1>16, <1>17
        DEF Next, DeviceRuns, Faulty, Host

(* FirmwareTypeOK for every registry, host and fault pattern: every field   *)
(* keeps its type, and there is a running test whenever the program is in   *)
(* one.                                                                     *)
THEOREM FirmwareTypes == Spec => []FirmwareTypeOK
<1>1. Init => TypeInv
  <2>1. <<>> \in Seq(AnyFlag) /\ <<>> \in Seq(AnyMessage)
    BY EmptySeq
  <2>2. [t \in Tests |-> 0] \in [Tests -> 0..MaxNaps]
    BY FirmwareAssumption
  <2>3. EmptyEnv \in Envs
    BY DEF EmptyEnv, Envs
  <2> QED BY <2>1, <2>2, <2>3, RegistryAssumption
          DEF Init, DeviceInit, LinkInit, TypeInv, FirmwareTypeOK, InTest, Places
<1>2. TypeInv /\ [Next]_vars => TypeInv'
  BY TypeStep
<1>3. TypeInv => FirmwareTypeOK
  BY DEF TypeInv
<1> QED BY <1>1, <1>2, <1>3, PTL DEF Spec
=============================================================================
