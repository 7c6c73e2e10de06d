------------------------------- MODULE Rounds -------------------------------
(***************************************************************************)
(* Why sleep and resume rounds run the right tests: the inductive invariant *)
(* of Session.  At any time there is one of these, and only one: a READY    *)
(* due, a READY on its way to the host, a command on its way to the board,  *)
(* or a run under way; and from a command on, the history of the tests is   *)
(* one the command was meant for.                                           *)
(*                                                                          *)
(* It holds for boards that neither crash nor reset by themselves and links *)
(* that damage no line of theirs, as long as the host does not give up a    *)
(* test that hangs: a hung test counts as running, for it may come back.    *)
(* The module RoundProofs says under which assumptions exactly, and proves  *)
(* it.                                                                      *)
(***************************************************************************)
EXTENDS Session

(* What the host is going to hear, in order.                                *)
inbound == IF handle = "live" THEN chunk \o wire ELSE chunk

Talks == hpc \in {"read", "feed"}
Connected == Talks /\ handle = "live" /\ pstate = "RUNNING"
Running == dpc \in {"cycle", "test", "quiet", "hung"}
PhaseTwo == cycle \in {"phase2", "phase2Retry"}

(* Between two sessions the wire still holds the lines of the one before,   *)
(* until the next opens the port.                                           *)
Between == session # 1 /\ cycle = "first" /\ hpc \in {"open", "finish", "over"}

-----------------------------------------------------------------------------
(* Lines.                                                                   *)

Says(s, tag) == \E i \in DOMAIN s : s[i].tag = tag
AllReady(s) == \A i \in DOMAIN s : s[i].tag = "READY"
ReadyLast(s) == \A i \in DOMAIN s : s[i].tag = "READY" => i = Len(s)
Clean(s) == \A i \in DOMAIN s : s[i].crc # "bad" /\ s[i].tag # "CRASH"

RunTags == {"COUNTS", "CASE:START", "FAIL", "BUSY"}
SleepTags == {"SLEEP", "RESTART"}
AllOfRun(s) == \A i \in DOMAIN s : s[i].tag \in RunTags
SaysSleep(s) == \E i \in DOMAIN s : s[i].tag \in SleepTags

(* What a cycle says is what its tests say, and at last that one of them    *)
(* sleeps, or DONE and perhaps the next READY.                              *)
InOrder(s) ==
    \A i \in DOMAIN s :
        \/ s[i].tag \in RunTags
        \/ s[i].tag \in SleepTags /\ i = Len(s)
        \/ /\ s[i].tag = "DONE"
           /\ \A j \in DOMAIN s : j > i => s[j].tag = "READY"
        \/ /\ s[i].tag = "READY" /\ i = Len(s)
           /\ i = 1 \/ Says(s, "DONE")

(* A host that knows the name n knows that of t once it has heard s.        *)
NamedBy(n, s, t) ==
    \/ n = NameOf[t] /\ ~Says(s, "CASE:START")
    \/ \E i \in DOMAIN s :
          /\ s[i].tag = "CASE:START" /\ s[i].name = NameOf[t]
          /\ \A j \in DOMAIN s : j > i => s[j].tag # "CASE:START"

-----------------------------------------------------------------------------
(* Messages.                                                                *)

PostMessage == [Message(OnDone, "", <<>>) EXCEPT !.crc = "absent"]
Posted == toDev \in Seq({PostMessage})

(* The command and the ETST:ARGS lines that are still to be read, or the    *)
(* command, damaged.                                                        *)
ScriptLeft ==
    \/ \E k \in 0..Len(ArgsLines) :
          toDev = SubSeq(Script(cycle), k + 1, Len(ArgsLines) + 1)
    \/ /\ ArgsLines = <<>>
       /\ toDev = <<[CommandOf(cycle) EXCEPT !.crc = "bad"]>>

-----------------------------------------------------------------------------
(* The tests.                                                               *)

UpTo(t) == \A u \in begun : u <= t
Slept(t) == t \in begun /\ t \notin ended /\ naps[t] > 0 /\ UpTo(t)

(* What the command of this cycle is meant for.                             *)
Fresh ==
    /\ cycle = "first" => begun = {}
    /\ PhaseTwo => \E t \in Tests : /\ NameOf[t] = target /\ Slept(t)
                                    /\ naps[t] <= retries[target]
    /\ cycle = "resume" => \E t \in Tests : NameOf[t] = target /\ UpTo(t)

(* The command of this cycle has not been taken up, or the host will send   *)
(* it once more.                                                            *)
Untaken ==
    \/ hpc = "open"
    \/ Talks /\ pstate \in {"WAITING_FOR_READY", "READY"}
    \/ Connected /\ dpc = "wait" /\ ~Says(inbound, "DONE")
    \/ /\ Talks /\ pstate = "RUNNING" /\ inbound # <<>>
       /\ Head(inbound).tag = "READY"

HistoryInv ==
    /\ ended \subseteq begun
    /\ \A t \in Tests : /\ naps[t] > 0 => t \in begun
                        /\ naps[t] <= retries[NameOf[t]] + 1
    /\ PhaseTwo => \E t \in Tests : NameOf[t] = target /\ UpTo(t)
    /\ Untaken => Fresh
    /\ pstate = "SLEEPING" => \E t \in Tests : NameOf[t] = sleepName /\ Slept(t)
    /\ hpc = "wakeWait" => \E t \in Tests : /\ NameOf[t] = target /\ Slept(t)
                                            /\ naps[t] <= retries[target]

(* A test that is going to run has not run before, or it has slept and this *)
(* is the cycle to wake it.                                                 *)
MayRun(u) ==
    /\ u \notin ended
    /\ naps[u] <= retries[NameOf[u]]
    /\ wake <=> naps[u] > 0
    /\ wake => NameOf[u] = target

RunInv ==
    Running =>
        /\ wake = PhaseTwo
        /\ \A u \in todo : MayRun(u) /\ (~wake => \A b \in begun : b < u)
        /\ dpc # "cycle" => /\ cur \in begun /\ cur \notin todo
                            /\ MayRun(cur) /\ UpTo(cur)

-----------------------------------------------------------------------------
(* Where things stand.                                                      *)

PlaceInv ==
    /\ ~crashed /\ ~finishedByRunner
    /\ Clean(chunk) /\ Clean(wire)
    /\ dpc # "crashed"
    /\ port <=> dpc \notin {"off", "late"}
    /\ handle \in {"live", "stale", "closed"}
    /\ handle = "live" => port /\ (Talks \/ hpc \in {"drain", "drainFeed", "post", "linger"})
    /\ hpc = "over" \/ (hpc = "open" /\ cycle = "first") => handle = "closed"
    /\ hpc = "read" => pstate \in {"WAITING_FOR_READY", "RUNNING"}
    /\ hpc = "feed" => pstate # "ERROR"
    /\ hpc \in {"drain", "drainFeed"} => pstate # "RUNNING"
    /\ dpc \in {"init", "wait"} => ~wake
    /\ Posted /\ port => args = <<>>
    /\ ~Connected => ~Running /\ Posted

(* One READY or command at a time.                                          *)
OnceInv ==
    ~(hpc \in {"linger", "finish", "over"} \/ Between) =>
        /\ dpc = "wait" /\ due => toDev = <<>> /\ ~Says(wire, "READY")
        /\ ReadyLast(wire)
        /\ Says(wire, "READY") => dpc = "wait" /\ ~due /\ toDev = <<>>
        /\ dpc = "wait" /\ Posted => Len(toDev) <= 1
        /\ dpc = "init" => toDev = <<>>

-----------------------------------------------------------------------------
(* The conversation of a cycle.                                             *)

AskedInv ==
    Talks =>
        /\ ReadyLast(inbound)
        /\ handle = "live" /\ Says(inbound, "READY") =>
               dpc = "wait" /\ ~due /\ toDev = <<>>
        /\ pstate \in {"WAITING_FOR_READY", "READY"} => curName = ""
        /\ pstate = "READY" =>
               /\ inbound = <<>>
               /\ handle = "live" => dpc = "wait" /\ ~due /\ toDev = <<>>

EndedInv ==
    /\ Talks /\ pstate = "FINISHED" /\ handle = "live" =>
           /\ dpc = "wait" /\ toDev = <<>>
           /\ AllReady(inbound)
           /\ due => inbound = <<>>
    /\ Talks /\ pstate = "SLEEPING" =>
           inbound = <<>> /\ (handle = "live" => dpc = "doze")
    /\ hpc \in {"drain", "drainFeed", "post"} /\ handle = "live" =>
           \/ dpc \in {"doze", "dead"}
           \/ dpc = "wait" /\ toDev = <<>> /\ (due => wire = <<>>)
    /\ hpc = "linger" =>
           /\ dpc = "init" => toDev = <<>>
           /\ dpc = "wait" => /\ Len(toDev) <= 1
                              /\ toDev # <<>> /\ due => wire = <<>>

HeardInv ==
    Talks /\ pstate = "RUNNING" =>
        /\ InOrder(inbound)
        /\ SaysSleep(inbound) =>
               \E t \in Tests : NamedBy(curName, inbound, t) /\ Slept(t)

TakenInv ==
    Connected =>
        /\ dpc \in {"wait", "doze"} \/ Running
        /\ toDev # <<>> =>
               ScriptLeft /\ inbound = <<>> /\ dpc = "wait" /\ ~due
        /\ dpc = "wait" /\ ~Says(inbound, "DONE") =>
               curName = "" /\ AllReady(inbound)
        /\ Says(inbound, "DONE") => dpc = "wait" /\ toDev = <<>>
        /\ Running => AllOfRun(inbound)
        /\ dpc \in {"test", "quiet", "hung"} => NamedBy(curName, inbound, cur)
        /\ dpc = "quiet" => busy \/ Says(inbound, "BUSY")
        /\ dpc = "doze" <=> SaysSleep(inbound)

RoundsInv ==
    /\ HistoryInv /\ RunInv
    /\ PlaceInv /\ OnceInv
    /\ AskedInv /\ EndedInv /\ HeardInv /\ TakenInv
=============================================================================
