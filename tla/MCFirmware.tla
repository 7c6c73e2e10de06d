----------------------------- MODULE MCFirmware -----------------------------
(* Three tests in one suite; the last needs GPS in the environment.         *)
EXTENDS Board

MCNameOf == <<"a", "b", "c">>
MCSuiteOf == <<"S", "S", "S">>
MCKeys == {"GPS"}
MCValues == {"1", "0"}
MCTruthy == {"1"}
MCRequirements == {[name |-> "c", key |-> "GPS", val |-> AnyTruthy]}

Only(t) == FlagOn("--tc", {t})
MCHostMessages ==
    {Message("ARGS", "", <<EnvFlag("GPS", "1")>>),
     Message("ARGS", "", <<MalformedEnv, WakeFlag>>),
     Message("RUN", "", <<>>),
     Message("RUN:", "", <<WakeFlag, Only(2)>>),
     Message("RESUME_AFTER", "b", <<>>),
     Message("LIST", "", <<>>), Message("WAIT", "", <<>>),
     Message("SLEEP", "", <<>>)}
=============================================================================
