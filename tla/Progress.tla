------------------------------ MODULE Progress ------------------------------
(***************************************************************************)
(* What a command finds on the board, and what the host expects of it: the  *)
(* inductive invariant that stands on that of Rounds.  It says that the     *)
(* arguments accumulated so far are those of the lines that have arrived,   *)
(* which tests an earlier cycle may have left skipped, and that a count is  *)
(* known before any test can sleep.  ProgressProofs proves it.              *)
(***************************************************************************)
EXTENDS Rounds

-----------------------------------------------------------------------------
(* What a command finds on the board.                                       *)

(* m_skip after a cycle without a resume point: a second such cycle adds    *)
(* nothing to it.                                                           *)
RunCommand == Message("RUN", "", <<>>)
SkipOnce == SkipForCycle(StaticSkip, EmptyEnv, RunCommand, AllArgs)

ReadyInv ==
    /\ dpc = "wait" /\ ~due => env = EmptyEnv
    /\ dpc = "init" => due /\ env = EmptyEnv
    /\ Connected /\ toDev # <<>> =>
           args = ArgsUpTo[(Len(ArgsLines) + 1) - Len(toDev)]

(* The command of this cycle has been taken up by the board that the host   *)
(* is still listening to.                                                   *)
Taken == Connected /\ (Running \/ dpc = "doze" \/ Says(inbound, "DONE"))

(* A first or a resume cycle skips more.  What it skipped is forgotten when *)
(* a test sleeps; otherwise this was the last command of the session, and   *)
(* the next session boots the board.                                        *)
SkipInv ==
    \/ skip \in {StaticSkip, SkipOnce}
    \/ dpc \in {"doze", "off", "late"}
    \/ Between
    \/ /\ cycle \in {"first", "resume"}
       /\ Taken \/ (pstate = "FINISHED" /\ hpc \notin {"open", "wakeWait"})

-----------------------------------------------------------------------------
(* What the host expects.                                                   *)

(* The count is that of all the session was asked to run, and it comes      *)
(* before a test can sleep.                                                 *)
RightCounts(s) ==
    \A i \in DOMAIN s : s[i].tag = "COUNTS" => s[i].run = Cardinality(Asked)

CountsFirst(s) ==
    \A i \in DOMAIN s :
        s[i].tag \in SleepTags => \E j \in DOMAIN s : j < i /\ s[j].tag = "COUNTS"

CountsInv ==
    /\ latched => expectedRun = Cardinality(Asked)
    /\ cycle # "first" \/ hpc = "wakeWait" \/ pstate = "SLEEPING" => latched
    /\ Talks /\ pstate = "RUNNING" =>
           /\ cycle = "first" => RightCounts(inbound)
           /\ latched \/ CountsFirst(inbound)
    /\ Connected /\ (Running \/ dpc = "doze") =>
           latched \/ Says(inbound, "COUNTS")

(* Host and board agree on what every cycle is to run, and on how much.     *)
ProgressInv == ReadyInv /\ SkipInv /\ CountsInv
=============================================================================
