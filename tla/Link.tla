-------------------------------- MODULE Link --------------------------------
(***************************************************************************)
(* The USB serial link between the host runner and the board, shared by     *)
(* the modules Firmware and Runner.                                         *)
(*                                                                          *)
(* The device writes ETST: lines (include/etst/protocol.h, emit), the host  *)
(* writes ETST:ARGS lines and one command (runner.py, _send_command).  The  *)
(* link keeps the order of each direction.  It may lose the device's end    *)
(* of it at any time: deep sleep and a restart take the USB device away,    *)
(* and the host's handle is then stale until it is closed.                  *)
(***************************************************************************)
EXTENDS Naturals, Sequences

CONSTANTS
    WireCap,    \* bound: lines the device can have in flight
    MaxFaults,  \* bound: environment faults in one behaviour
    FaultKinds  \* the kinds of fault a configuration allows

ASSUME LinkAssumption ==
    /\ WireCap \in Nat \ {0}
    /\ MaxFaults \in Nat

VARIABLES
    port,    \* is the board enumerated on USB (does the port path exist)
    handle,  \* the host's serial.Serial: "closed", "live" or "stale"
    wire,    \* device -> host: lines written and not yet read
    toDev,   \* host -> device: messages in the device's receive buffer
    faults   \* faults that have happened

linkVars == <<port, handle, wire, toDev, faults>>

-----------------------------------------------------------------------------
(* Lines and messages.  A line carries the outcome of its CRC check and the *)
(* payload fields some handler reads; a console line (a crash dump, a       *)
(* failed assertion) carries no CRC.                                        *)

NoName == ""
Crc == {"ok", "bad", "absent"}

Line(tag, suite, name, run) ==
    [tag |-> tag, crc |-> "ok", suite |-> suite, name |-> name, run |-> run]
Tagged(tag) == Line(tag, NoName, NoName, 0)
Console(tag) == [Tagged(tag) EXCEPT !.crc = "absent"]

(* A host message: an ETST:ARGS line or a command, with its flags.          *)
Message(kind, name, flags) ==
    [kind |-> kind, crc |-> "ok", name |-> name, flags |-> flags]

-----------------------------------------------------------------------------
(* emit(): one write appends the whole lines.  With no host on the port     *)
(* they are buffered by the driver or lost.                                 *)
Emit(lines) ==
    \/ Len(wire) + Len(lines) <= WireCap /\ wire' = wire \o lines
    \/ handle # "live" /\ wire' = wire

(* The device leaves the bus: what was in flight is gone in both directions *)
(* and an open handle raises on its next use.                               *)
PortDrops ==
    /\ port' = FALSE
    /\ handle' = IF handle = "live" THEN "stale" ELSE handle
    /\ wire' = <<>>
    /\ toDev' = <<>>

(* open_serial(): needs the port; reset_input_buffer() discards what the    *)
(* driver had collected, a suffix may still arrive after it.                *)
Opens ==
    /\ port
    /\ handle' = "live"
    /\ \E k \in 0..Len(wire) : wire' = SubSeq(wire, k + 1, Len(wire))

Closes == handle' = "closed"

-----------------------------------------------------------------------------
(* Faults.                                                                  *)

Fault(kind) ==
    /\ kind \in FaultKinds
    /\ faults < MaxFaults
    /\ faults' = faults + 1

(* A line from the device arrives damaged: its CRC no longer matches, and a *)
(* console line no longer reads as what it was.                             *)
GarbleLine ==
    /\ Fault("garble")
    /\ \E i \in DOMAIN wire :
          /\ wire[i].crc # "bad"
          /\ wire' = [wire EXCEPT ![i].crc = "bad"]
    /\ UNCHANGED <<port, handle, toDev>>

(* A host line arrives damaged (stray bytes at serial open, noise).         *)
GarbleMessage ==
    /\ Fault("garbleCommand")
    /\ \E i \in DOMAIN toDev :
          /\ toDev[i].crc = "ok"
          /\ toDev' = [toDev EXCEPT ![i].crc = "bad"]
    /\ UNCHANGED <<port, handle, wire>>

LinkInit ==
    /\ port = TRUE
    /\ handle = "closed"
    /\ wire = <<>>
    /\ toDev = <<>>
    /\ faults = 0
=============================================================================
