------------------------------ MODULE TestPlan ------------------------------
(***************************************************************************)
(* What a test session promises its user, without serial links, cycles,     *)
(* sleeps or retries: the wanted tests are taken up one after the other,    *)
(* none left out, each ends at most once and before the next is taken up    *)
(* or never, and the run is green only when all of them have ended and none *)
(* has failed.  A run may be given up at any time; it is then red, and what *)
(* the board still does does not change that.  After the verdict the same   *)
(* plan can be asked for again, and nothing is left of the run before.      *)
(***************************************************************************)
EXTENDS Naturals

CONSTANTS
    Wanted,  \* the tests the session is asked to run
    Broken   \* the wanted tests that fail

VARIABLES
    reached,  \* the last test taken up, 0 before the first
    done,     \* tests that have ended
    verdict   \* "none", "green" or "red"

planVars == <<reached, done, verdict>>

Init == reached = 0 /\ done = {} /\ verdict = "none"

Take(t) ==
    /\ verdict # "green"
    /\ t > reached /\ \A u \in Wanted : u < t => u <= reached
    /\ reached' = t
    /\ UNCHANGED <<done, verdict>>

End ==
    /\ verdict # "green"
    /\ reached # 0 /\ reached \notin done
    /\ done' = done \cup {reached}
    /\ UNCHANGED <<reached, verdict>>

Pass ==
    /\ verdict = "none" /\ done = Wanted /\ Broken = {}
    /\ verdict' = "green"
    /\ UNCHANGED <<reached, done>>

Fail ==
    /\ verdict = "none"
    /\ verdict' = "red"
    /\ UNCHANGED <<reached, done>>

Again ==
    /\ verdict # "none"
    /\ reached' = 0 /\ done' = {} /\ verdict' = "none"

Next == (\E t \in Wanted : Take(t)) \/ End \/ Pass \/ Fail \/ Again

Spec == Init /\ [][Next]_planVars
=============================================================================
