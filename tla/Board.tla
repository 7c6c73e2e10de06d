------------------------------- MODULE Board -------------------------------
(***************************************************************************)
(* The board against any host: one that sends any of its messages at any    *)
(* time, listens or does not, opens and closes the port as it likes.        *)
(***************************************************************************)
EXTENDS Firmware

CONSTANTS
    HostMessages,  \* what the host may send
    RxCap,         \* bound: messages in the receive buffer
    MaxArgs        \* bound: flags accumulated from ETST:ARGS

AnyMessage == [kind : STRING, crc : Crc, name : STRING, flags : Seq(AnyFlag)]
ASSUME BoardAssumption == HostMessages \subseteq AnyMessage

vars == <<deviceVars, linkVars>>

Init == DeviceInit /\ LinkInit

HostSends ==
    /\ port /\ Len(toDev) < RxCap
    /\ \E msg \in HostMessages :
          /\ msg.kind = "ARGS" => Len(args) < MaxArgs
          /\ toDev' = Append(toDev, msg)
    /\ UNCHANGED <<deviceVars, port, handle, wire, faults>>

HostReads ==
    /\ handle = "live" /\ wire # <<>>
    /\ wire' = Tail(wire)
    /\ UNCHANGED <<deviceVars, port, handle, toDev, faults>>

HostOpens == Opens /\ UNCHANGED <<deviceVars, port, toDev, faults>>

HostCloses ==
    /\ handle # "closed" /\ Closes
    /\ UNCHANGED <<deviceVars, port, wire, toDev, faults>>

Host == HostSends \/ HostReads \/ HostOpens \/ HostCloses

Noise == GarbleMessage /\ UNCHANGED deviceVars

Next == DeviceRuns \/ IntervalElapses \/ Faulty \/ Noise \/ Host

Spec == Init /\ [][Next]_vars

(* States that differ only in history no guard reads are one state.         *)
WithoutHistory == <<dpc, idle, due, args, registryVars, cycleVars, failed,
                    linkVars>>
=============================================================================
