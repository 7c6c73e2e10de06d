----------------------------- MODULE Receivers -----------------------------
(***************************************************************************)
(* The receivers the router feeds beside the protocol: DisconnectHandler    *)
(* (src/etst/disconnect.py), TestTimingTracker (src/etst/timing_tracker.py) *)
(* and the plugins of src/etst/runner.py.  Each reads every line by itself. *)
(***************************************************************************)
EXTENDS ReadyRunProtocol

CONSTANT EntryPoints  \* the plugin entry points, in order: what each turns out to be

PluginKinds == {"import", "construct", "feedless", "hookless", "raises", "good"}
ASSUME ReceiversAssumption == EntryPoints \in Seq(PluginKinds)

VARIABLES
    active,    \* DisconnectHandler._active
    cycles,    \* _disconnect_count
    requests,  \* history: DISCONNECT lines heard
    timing,    \* TestTimingTracker._current_test, its clock running
    timed,     \* the keys of _durations
    bare,      \* history: names started by a line without a suite
    notified,  \* how many plugins the hook has reached
    told       \* per plugin: the hooks it has been called with

windowVars == <<active, cycles, requests>>
timingVars == <<timing, timed, bare>>
pluginVars == <<notified, told>>

-----------------------------------------------------------------------------
(* DisconnectHandler.feed().                                                *)

MutantFeedWindow(ln) ==
    /\ active' = Heard(ln, "DISCONNECT")
    /\ cycles' = cycles + IF Heard(ln, "RECONNECT") THEN 1 ELSE 0
    /\ requests' = requests + IF Heard(ln, "DISCONNECT") THEN 1 ELSE 0

FeedWindow(ln) ==
    /\ active' = CASE Heard(ln, "DISCONNECT") -> TRUE
                   [] Heard(ln, "RECONNECT")  -> FALSE
                   [] OTHER                   -> active
    /\ cycles' = cycles + IF Heard(ln, "RECONNECT") /\ active THEN 1 ELSE 0
    /\ requests' = requests + IF Heard(ln, "DISCONNECT") THEN 1 ELSE 0

(* TestTimingTracker: a start ends the test before it.                      *)

MutantEnded == timed

Ended == IF timing = NoLabel THEN timed ELSE timed \cup {timing}

FeedTiming(ln) ==
    IF Heard(ln, "CASE:START") /\ ln.suite # "" /\ ln.name # ""
    THEN timed' = Ended /\ timing' = Label(ln.suite, ln.name) /\ UNCHANGED bare
    ELSE /\ bare' = IF Heard(ln, "CASE:START") THEN bare \cup {ln.name} ELSE bare
         /\ UNCHANGED <<timing, timed>>

-----------------------------------------------------------------------------
(* _load_receiver_plugins(), entry point by entry point: what fails to      *)
(* load, to construct or to have a feed() is left out.                      *)
Loads == {"hookless", "raises", "good"}

AttachedUpTo[i \in 0..Len(EntryPoints)] ==
    IF i = 0 THEN <<>>
    ELSE AttachedUpTo[i - 1]
             \o IF EntryPoints[i] \in Loads THEN <<EntryPoints[i]>> ELSE <<>>

Attached == AttachedUpTo[Len(EntryPoints)]

(* _notify_plugins(): each plugin in turn; an exception is logged.          *)
Told(i, hook) == IF Attached[i] = "hookless" THEN told[i]
                                             ELSE Append(told[i], hook)

MutantNotifyNext(hook) ==
    /\ notified < Len(Attached)
    /\ notified' = IF Attached[notified + 1] = "raises" THEN Len(Attached)
                                                       ELSE notified + 1
    /\ told' = [told EXCEPT ![notified + 1] = Told(notified + 1, hook)]

NotifyNext(hook) ==
    /\ notified < Len(Attached)
    /\ notified' = notified + 1
    /\ told' = [told EXCEPT ![notified + 1] = Told(notified + 1, hook)]

AllNotified == notified = Len(Attached)

-----------------------------------------------------------------------------
ReceiversInit ==
    /\ active = FALSE /\ cycles = 0 /\ requests = 0
    /\ timing = NoLabel /\ timed = {} /\ bare = {}
    /\ notified = 0 /\ told = [i \in DOMAIN Attached |-> <<>>]
=============================================================================
