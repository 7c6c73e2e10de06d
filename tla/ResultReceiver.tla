--------------------------- MODULE ResultReceiver ---------------------------
(***************************************************************************)
(* TestResultReceiver of src/etst/result_receiver.py: results out of the    *)
(* output of doctest or Unity.  A line is what its patterns make of it, and *)
(* the lines come in any order: output is lost, tests print what they like. *)
(***************************************************************************)
EXTENDS Naturals, FiniteSets

CONSTANTS
    Titles,   \* the names that tests print; several tests may have one name
    MaxHeard  \* bound: lines fed

NoName == ""

ASSUME ResultAssumption ==
    /\ MaxHeard \in Nat
    /\ NoName \notin Titles

VARIABLES
    framework,   \* _detected_framework, "auto" for None
    results,     \* _results: [name, passed], and [header, line] as history
    complete,    \* _is_complete
    test,        \* _current_test_name; NoName for None, and for a blank name
    passing,     \* _current_test_passed
    failing,     \* _in_doctest_failure, as the line of the failure; 0 for False
    heard,       \* history: lines fed
    header,      \* history: the line of the last header; 0 before and after all
    failLines,   \* history: the doctest failures among them
    drained      \* history: what drain_results() has handed out

parserVars == <<test, passing, failing, header>>
resultVars == <<framework, results, complete, parserVars, heard, failLines,
                drained>>

(* A result of the output that came after the line under, up to the next    *)
(* header.                                                                  *)
Result(name, under, line, passed) ==
    [name |-> name, header |-> under, line |-> line, passed |-> passed]

(* The result synthesised from a summary.                                   *)
AllPassed(line) == Result("all tests", 0, line, TRUE)

ResultInit ==
    /\ framework \in {"auto", "doctest", "unity"}
    /\ results = {} /\ complete = FALSE
    /\ test = NoName /\ passing = FALSE /\ failing = 0
    /\ heard = 0 /\ header = 0 /\ failLines = {} /\ drained = {}

-----------------------------------------------------------------------------
DoctestMarks == {"header", "fail", "summary passed", "summary failed"}
UnityMarks == {"unity pass", "unity fail", "unity summary"}
Kinds == DoctestMarks \cup UnityMarks \cup {"success", "other"}

(* What a line is to the patterns; three of the kinds carry a name.         *)
UnityResults == {"unity pass", "unity fail"}
ResultLines ==
    [kind : {"header"}, name : Titles \cup {NoName}]
        \cup [kind : UnityResults, name : Titles]
        \cup [kind : Kinds \ ({"header"} \cup UnityResults), name : {NoName}]

(* feed() and _try_detect(): the first mark decides.                        *)
Parses(kind) ==
    IF framework # "auto" THEN framework
    ELSE IF kind \in DoctestMarks THEN "doctest"
    ELSE IF kind \in UnityMarks THEN "unity" ELSE "auto"

(* _finalize_doctest_failure() and _finalize_doctest_case().                *)
WithFailure ==
    IF failing = 0 THEN results
    ELSE results \cup {Result(IF test = NoName THEN "unknown" ELSE test,
                              header, failing, FALSE)}

Passed == Result(test, header, header, TRUE)

MutantWithCase ==
    WithFailure \cup IF test # NoName /\ passing THEN {Passed} ELSE {}

WithCase ==
    WithFailure \cup IF test # NoName /\ passing /\ failing = 0
                     THEN {Passed} ELSE {}

(* _feed_doctest().  The header of a test comes once more with each of its  *)
(* subcases.                                                                *)
FeedHeader(name) ==
    /\ results' = WithCase
    /\ test' = name /\ header' = heard + 1
    /\ passing' = FALSE /\ failing' = 0
    /\ UNCHANGED <<complete, failLines>>

FeedSuccess ==
    /\ passing' = TRUE
    /\ UNCHANGED <<results, complete, test, header, failing, failLines>>

MutantFeedFail ==
    /\ results' = results
    /\ failing' = heard + 1
    /\ passing' = (passing /\ failing = 0)
    /\ failLines' = failLines \cup {heard + 1}
    /\ UNCHANGED <<complete, test, header>>

FeedFail ==
    /\ results' = WithFailure
    /\ failing' = heard + 1
    /\ passing' = (passing /\ failing = 0)
    /\ failLines' = failLines \cup {heard + 1}
    /\ UNCHANGED <<complete, test, header>>

FeedSummary(allPassed) ==
    /\ results' = IF WithCase = {} /\ allPassed
                  THEN {AllPassed(heard + 1)} ELSE WithCase
    /\ test' = NoName /\ header' = 0
    /\ passing' = FALSE /\ failing' = 0
    /\ complete' = TRUE
    /\ UNCHANGED failLines

Nothing == UNCHANGED <<results, complete, parserVars, failLines>>

FeedDoctest(ln) ==
    CASE ln.kind = "header"         -> FeedHeader(ln.name)
      [] ln.kind = "success"        -> FeedSuccess
      [] ln.kind = "fail"           -> FeedFail
      [] ln.kind = "summary passed" -> FeedSummary(TRUE)
      [] ln.kind = "summary failed" -> FeedSummary(FALSE)
      [] OTHER                      -> Nothing

(* _feed_unity().                                                           *)
FeedUnity(ln) ==
    CASE ln.kind \in UnityResults ->
             /\ results' = results \cup {Result(ln.name, heard + 1, heard + 1,
                                                ln.kind = "unity pass")}
             /\ UNCHANGED <<complete, parserVars, failLines>>
      [] ln.kind = "unity summary" ->
             complete' = TRUE /\ UNCHANGED <<results, parserVars, failLines>>
      [] OTHER -> Nothing

FeedResult(ln) ==
    /\ heard < MaxHeard /\ heard' = heard + 1
    /\ IF complete THEN Nothing /\ UNCHANGED framework
       ELSE /\ framework' = Parses(ln.kind)
            /\ CASE framework' = "doctest" -> FeedDoctest(ln)
                 [] framework' = "unity"   -> FeedUnity(ln)
                 [] framework' = "auto"    -> Nothing
    /\ UNCHANGED drained

DrainResults ==
    /\ results # {}
    /\ results' = {} /\ drained' = drained \cup results
    /\ UNCHANGED <<framework, complete, parserVars, heard, failLines>>

ResultNext == (\E ln \in ResultLines : FeedResult(ln)) \/ DrainResults

ResultSpec == ResultInit /\ [][ResultNext]_resultVars

-----------------------------------------------------------------------------
(* Properties.                                                              *)

Known == results \cup drained

(* What follows one header, up to the next, gives failures or one pass and  *)
(* never both, whenever the results are drained and wherever the successes  *)
(* stand among the failures.                                                *)
OneOutcome ==
    \A r, s \in Known :
        r.header = s.header /\ r.header # 0 => r.passed = s.passed

(* result_receiver.py, where a failure is recorded: "don't also record      *)
(* pass".  No name that doctest prints is reported passed and failed; one   *)
(* whose header comes again is: see README, known limits.                   *)
NeverBoth ==
    framework = "doctest" =>
        \A r, s \in Known : r.name = s.name => r.passed = s.passed

(* No failure is lost and none is reported twice: each that doctest has     *)
(* printed is a result by now, but for the one whose details still come in. *)
(* After the summary there is no such one.                                  *)
FailuresKept ==
    /\ framework # "unity" =>
          failLines = {r.line : r \in {s \in Known : ~s.passed}}
                          \cup (IF failing = 0 THEN {} ELSE {failing})
    /\ complete => failing = 0
    /\ \A r, s \in Known : r.line = s.line => r = s
=============================================================================
