----------------------------- MODULE MCSession -----------------------------
(* Sessions on three to five tests in two suites; the fourth is in none.    *)
EXTENDS Verdict

MCNameOf == [t \in Tests |-> <<"a", "b", "c", "d", "e">>[t]]
MCSuiteOf == [t \in Tests |-> <<"S", "S", "T", "", "T">>[t]]
MCNames == {"a", "b", "c", "d", "e"}
MCSuites == {"S", "T"}
MCRuns == 0..5
MCKeys == {"GPS"}
MCValues == {"1"}
MCNoRequirements == {}
MCRequirements == {[name |-> "c", key |-> "GPS", val |-> AnyTruthy]}

NoArgs == <<>>
GpsArgs == << <<EnvFlag("GPS", "1")>>, <<FlagOn("--tce", {1})>> >>
RunAll == Message("RUN_ALL", "", <<>>)
AlwaysReset == <<TRUE>>
ResetSecond == <<FALSE, TRUE>>
Run == Message("RUN", "", <<>>)
=============================================================================
