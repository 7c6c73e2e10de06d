------------------------ MODULE MCReadyRunProtocol ------------------------
(* What the host makes of lines, in four parts that share nothing: the     *)
(* protocol fed with every line and call, a partition in line-callback      *)
(* mode, the result receiver, and the CRC of a damaged line.  A behaviour   *)
(* is one of one part.                                                      *)
EXTENDS LineMode, ResultReceiver, WireFormat

CONSTANT MaxArgs  \* bound: ARGS lines accumulated

VARIABLE part
vars == <<part, lineModeVars, resultVars, wireVars>>

Init ==
    /\ part \in {"protocol", "partition", "results", "wire"}
    /\ LineModeInit
    /\ ResultInit /\ (part # "results" => framework = "auto")
    /\ WireInit /\ (part # "wire" => sent = <<>>)

Next ==
    \/ part = "protocol" /\ ProtocolNext
           /\ UNCHANGED <<part, windowVars, timingVars, pluginVars, lineVars,
                          resultVars, wireVars>>
    \/ part = "partition" /\ LineModeNext /\ UNCHANGED <<part, resultVars, wireVars>>
    \/ part = "results" /\ ResultNext /\ UNCHANGED <<part, lineModeVars, wireVars>>
    \/ part = "wire" /\ WireNext /\ UNCHANGED <<part, lineModeVars, resultVars>>

Spec == Init /\ [][Next]_vars

BoundedArgs == Len(accArgs) <= MaxArgs

MCEntryPoints == <<"import", "raises", "feedless", "good", "hookless",
                   "construct", "good">>

(* Every burst of up to eight bits, at each offset.                         *)
MCBursts ==
    {b \in (Bytes \X Bytes) \ {<<{}, {}>>} : \E k \in 0..8 : Spans(b, k)}

(* "E", "=", e with an acute accent, the euro sign, "a" and a face: one to   *)
(* four bytes each.                                                         *)
MCContents ==
    {<<>>, <<Byte(69)>>, <<Byte(61), Byte(195), Byte(169)>>,
     <<Byte(226), Byte(130), Byte(172), Byte(97)>>,
     <<Byte(240), Byte(159), Byte(152), Byte(128), Byte(69)>>}

(* ETST:BUSY ms=205                                                         *)
BusyLine == <<69, 84, 83, 84, 58, 66, 85, 83, 89, 32, 109, 115, 61, 50, 48, 53>>
MCBusy == {<<>>, [i \in DOMAIN BusyLine |-> Byte(BusyLine[i])]}

(* One bit.                                                                 *)
MCFlips == {<<{i}, {}>> : i \in Bits}
=============================================================================
