------------------------------ MODULE Verdict ------------------------------
(***************************************************************************)
(* Why a session keeps the promise of TestPlan: what has been run so far,   *)
(* where the board may go to sleep, and when the verdict is red.  With      *)
(* RoundsInv, ReadyInv and SkipInv this is an inductive invariant of        *)
(* Session on links that do not lose the port by themselves: when one does  *)
(* while a test runs, the run may end green without that test.  PlanInv is  *)
(* why a green verdict is earned; with it and CountsInv, ReasonInv is why a *)
(* red one is.  A test that crashes leaves PlanInv for CrashComing, and that*)
(* for Red.  PlanProofs proves all of it.                                   *)
(***************************************************************************)
EXTENDS Progress

-----------------------------------------------------------------------------
(* What has been run.                                                       *)

(* All that was asked for has ended, up to the test of this name.           *)
Through(name) ==
    \A t \in Tests : NameOf[t] = name => \A w \in Asked : w <= t => w \in ended

(* What this cycle was to run has ended.                                    *)
CycleRun == IF PhaseTwo THEN Through(target) ELSE Asked \subseteq ended

(* The tests are taken up in order, and each has ended before the next is   *)
(* taken up; a running board has the rest before it.                        *)
OrderInv ==
    /\ begun \subseteq Asked
    /\ \A t \in begun : \A w \in Asked : w < t => w \in ended
    /\ cycle # "first" \/ hpc = "wakeWait" => \E t \in begun : NameOf[t] = target
    /\ Running =>
          /\ todo \subseteq Asked
          /\ \A w \in Asked :
                \/ w \in ended \/ w \in todo
                \/ dpc # "cycle" /\ w = cur
                \/ PhaseTwo /\ \E t \in Tests : NameOf[t] = target /\ t < w

-----------------------------------------------------------------------------
(* Where the board may sleep, and where the handle goes stale: the host has *)
(* been told of it, or is just reading of it.                               *)

SleepInv ==
    /\ dpc = "doze" /\ ~Between => pstate = "SLEEPING" \/ Connected
    /\ hpc = "open" => pstate # "SLEEPING"
    /\ handle = "stale" =>
          \/ hpc \in {"drain", "drainFeed", "post", "linger"}
          \/ /\ hpc = "feed"
             /\ pstate = "SLEEPING" \/ (pstate = "RUNNING" /\ SaysSleep(chunk))

-----------------------------------------------------------------------------
(* What the host makes of it.                                               *)

Red == \E c \in cases : c.status # "PASSED" /\ c.name # NoLabel
Leaving == hpc \in {"drain", "drainFeed", "post", "linger", "loop"}

(* A cycle is left when what it was to run has ended, when a test sleeps,   *)
(* or because the board is dead, with an error case.                        *)
CycleInv ==
    /\ (Talks \/ Leaving) /\ pstate = "FINISHED" => CycleRun
    /\ Talks /\ pstate = "RUNNING" /\ Says(inbound, "DONE") => CycleRun
    /\ Leaving /\ pstate \notin {"FINISHED", "SLEEPING"} => Red /\ dpc = "dead"
    /\ hpc \in {"drain", "drainFeed"} => pstate # "FINISHED"
    /\ cycle = "resume" /\ hpc # "wakeWait" => Through(target) \/ (Red /\ dpc = "dead")

(* A session ends when all that was asked for has ended, or red.            *)
EndInv ==
    /\ hpc = "finish" => Red \/ Asked \subseteq ended
    /\ hpc = "over" => ~Green \/ Asked \subseteq ended

(* Every failure that was printed is heard, and reported at the next DONE.  *)
FailedInv ==
    /\ NoLabel \notin failures
    /\ ended \cap Failing \subseteq failed
    /\ failed # {} => failures # {} \/ (Talks /\ Says(inbound, "FAIL")) \/ hpc = "over"
    /\ failures # {} =>
          /\ hpc \in {"post", "linger", "loop"} /\ pstate = "FINISHED" => Red
          /\ hpc = "finish" => Red
    /\ hpc = "over" => ~Green \/ failed = {}

PlanInv == OrderInv /\ SleepInv /\ CycleInv /\ EndInv /\ FailedInv

-----------------------------------------------------------------------------
(* Why a verdict is not red without a reason.                               *)

(* A test that has begun is counted, or the host is about to read of it.    *)
Announces(s, t) ==
    \E i \in DOMAIN s : s[i].tag = "CASE:START" /\ s[i].name = NameOf[t]

Counted(t) == \E l \in completed : l[2] = NameOf[t]

SeenInv ==
    /\ \A t \in begun : \/ Counted(t)
                        \/ Talks /\ pstate = "RUNNING" /\ Announces(inbound, t)
    /\ ~latched => expectedRun = 0

(* A retry was used up for a sleep that happened, and one that was announced*)
(* has not been answered by a retry yet.                                    *)
Announced ==
    \/ pstate = "SLEEPING" /\ hpc # "wakeWait"
    \/ Talks /\ pstate = "RUNNING" /\ SaysSleep(inbound)

RetriedInv ==
    \A t \in Tests : /\ retries[NameOf[t]] <= naps[t]
                     /\ Announced /\ Slept(t) => retries[NameOf[t]] < naps[t]

(* What is heard, recorded and blamed on a test has happened.               *)
Uneventful == faults = 0 /\ failed = {} /\ \A t \in Tests : naps[t] <= MaxSleepRetries

BlamedInv ==
    /\ dpc = "dead" => faults > 0
    /\ failures # {} \/ Says(chunk, "FAIL") => failed # {}
    /\ ~Between /\ Says(wire, "FAIL") => failed # {}
    /\ Uneventful => \A c \in cases : c.status = "PASSED"

ReasonInv == SeenInv /\ RetriedInv /\ BlamedInv

-----------------------------------------------------------------------------
(* A test that crashes.                                                     *)

(* The dump is in s, and nothing before it but what the tests said.         *)
CrashIn(s) ==
    \E i \in DOMAIN s :
        /\ s[i].tag = "CRASH" /\ s[i].crc # "bad"
        /\ \A j \in DOMAIN s : j < i => s[j].tag \in RunTags

(* The dump of a crash is on its way to a host that listens to the run,     *)
(* whatever the board has come to by then.                                  *)
CrashComing ==
    /\ Connected /\ toDev = <<>> /\ ~crashed /\ ~finishedByRunner
    /\ dpc \in {"crashed", "init", "wait", "dead"}
    /\ CrashIn(inbound)
=============================================================================
