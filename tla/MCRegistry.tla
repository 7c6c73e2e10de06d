----------------------------- MODULE MCRegistry -----------------------------
(* The selection of one cycle, over every short flag list.  The state is a  *)
(* cycle's input: the flags of its ETST:ARGS lines and the test it resumes  *)
(* after; m_skip and the env store start as they are after boot.            *)
EXTENDS CommandLine

CONSTANTS
    Alphabet,  \* the options a configuration can type: [words, flag]
    MaxFlags,  \* bound: options in one command line
    Settings   \* the ETST_, PTR_ and ETST_ENV_ variables: [new, old, env]

VARIABLES options, setting, after

vars == <<options, setting, after>>

Names == {NameOf[t] : t \in Tests}
Msg(kind, name, flags) == [kind |-> kind, name |-> name, flags |-> flags]

Init == options = <<>> /\ setting \in Settings /\ after \in Names

Next ==
    /\ Len(options) < MaxFlags
    /\ \E o \in Alphabet : options' = Append(options, o)
    /\ UNCHANGED <<setting, after>>

Spec == Init /\ [][Next]_vars

(* Reference: the flags as they were meant.  The environment comes first,   *)
(* program arguments above ETST_ENV_, then the options as typed, then the   *)
(* variables; an option typed as --env KEY=VALUE in two words belongs to    *)
(* the environment.                                                         *)
IsEnvPair(o) == o.words[1] = "--env"
Flags(opts) == [i \in DOMAIN opts |-> opts[i].flag]

EnvMeant ==
    LET host == {k \in Keys : setting.env[k] # Unset}
    IN  SetToSeq({EnvFlag(k, setting.env[k]) : k \in host})
            \o Flags(SelectSeq(options, IsEnvPair))

(* What a flag with a value means.                                          *)
VariableFlag(flag, value) ==
    CASE flag \in {"--tc", "--tce", "--test-case", "--test-case-exclude"}
                                          -> FlagOn(flag, ByName[value])
      [] flag \in {"--ts", "--tse", "--test-suite", "--test-suite-exclude"}
                                          -> FlagOn(flag, BySuite[value])
      [] flag = "--skip-tc"                 -> FlagOn("--skip", ByName[value])
      [] flag = "--skip-ts"                 -> FlagOn("--skip", BySuite[value])
      [] flag = "--unskip-tc"               -> FlagOn("--unskip", ByName[value])
      [] flag = "--unskip-ts"               -> FlagOn("--unskip", BySuite[value])
      [] flag = "--no-skip"                 -> NoSkipFlag

VariablesMeant ==
    FlattenSeq([i \in DOMAIN EnvMap |->
        LET v == Etst(setting.new, setting.old, EnvMap[i])
        IN  IF v = "" THEN <<>> ELSE <<VariableFlag(EnvMap[i], v)>>])

args == EnvMeant \o Flags(SelectSeq(options, LAMBDA o : ~IsEnvPair(o)))
            \o VariablesMeant

(* What a command runs and counts on a freshly booted device.               *)
Runs(msg) ==
    RunBy(StaticSkip, EmptyEnv, msg, CommandFlags(msg, args))
Counts(msg) ==
    CountBy(StaticSkip, EmptyEnv, msg, CommandFlags(msg, args))

FirstCycle == Msg("RUN", "", <<>>)
PhaseTwo(name) ==
    Msg("RUN:", "",
        <<WakeFlag,
          FlagOn("--tc", {t \in Tests : NameOf[t] = name})>>)
ResumeAfter(name) == Msg("RESUME_AFTER", name, <<>>)

(* ETST_RESUME_AFTER: the filters are sent twice.                           *)
StartAfter(name) ==
    Msg("RESUME_AFTER", name,
        Flags(SelectSeq(options, LAMBDA o : ~IsEnvPair(o))) \o VariablesMeant)

(* What the host makes of the same input, as texts.                         *)
typed == FlattenSeq([i \in DOMAIN options |-> options[i].words])
Lines == ArgsTexts(typed, setting.new, setting.old, setting.env)
Typed(resumeAfter) ==
    RunCommand(typed, setting.new, setting.old, setting.env, resumeAfter)

-----------------------------------------------------------------------------
(* A resume cycle runs exactly the tests the same arguments would run,      *)
(* after the resume point: none of the completed prefix again, none of the  *)
(* rest dropped (runner.h: "it also composes correctly with filters and env *)
(* requirements applied after this call").                                  *)
ResumeComposes ==
    Runs(ResumeAfter(after)) =
        {t \in Runs(FirstCycle) : \A p \in Tests :
            NameOf[p] = after /\ (\A q \in 1..(p - 1) : NameOf[q] # after)
                => t > p}

(* It does so whatever filters, skips and env requirements apply, as long   *)
(* as no flag un-skips: m_skip carries the resume point, and an un-skip     *)
(* clears it.                                                               *)
ResumePartition ==
    ~Has(args, "--unskip") /\ ~Has(args, "--no-skip") => ResumeComposes

(* The host compares the number of tests it saw with COUNTS: what a cycle   *)
(* reports is what doctest runs in it, unless a filter is given twice by    *)
(* one name: doctest then takes the last, the count takes them all.         *)
OneOfEach ==
    \A i, j \in DOMAIN args :
        args[i].flag \in FilterNames /\ args[j].flag = args[i].flag
            => args[i].tests = args[j].tests

CountsMatch ==
    OneOfEach => \A msg \in {FirstCycle, ResumeAfter(after)} :
        Counts(msg) = Cardinality(Runs(msg))

(* Phase two runs the test that slept alone: "RUN: --wake --tc              *)
(* <sleeping_test> - runs Phase 2 only" (docs/design.md).  Without a        *)
(* --test-case: see README, known limits.                                   *)
PhaseTwoRunsAlone ==
    ~Malformed(args) =>
        \A t \in Runs(FirstCycle) : \A u \in Runs(PhaseTwo(NameOf[t])) :
            NameOf[u] = NameOf[t]

(* A test the first cycle runs, and that goes to sleep, is run by the phase *)
(* two command whatever filters the user gave, and nothing of another name  *)
(* is, unless the user gave --test-case, which doctest adds to the --tc of  *)
(* the command (a malformed --env ends the session with an error before).   *)
PhaseTwoRunsSleeper ==
    ~Malformed(args) =>
        /\ \A t \in Runs(FirstCycle) : t \in Runs(PhaseTwo(NameOf[t]))
        /\ ~Has(args, "--test-case") => PhaseTwoRunsAlone

(* What the user asked for arrives: the texts the host builds, folded       *)
(* together and taken apart again by the board, run and report what the     *)
(* flags as they were meant do, in every kind of cycle.                     *)
SameEffect(msg, flags, meant) ==
    LET want == CommandFlags(meant, args)
    IN  /\ RunBy(StaticSkip, EmptyEnv, msg, flags)
               = RunBy(StaticSkip, EmptyEnv, meant, want)
        /\ CountBy(StaticSkip, EmptyEnv, msg, flags)
               = CountBy(StaticSkip, EmptyEnv, meant, want)
        /\ EnvAfter(EmptyEnv, flags) = EnvAfter(EmptyEnv, want)

Arrives(cmd, meant) ==
    LET got == Received(Combine(cmd, Lines))
    IN  SameEffect(got, got.flags, meant)

AsTyped ==
    /\ Arrives(Typed(""), FirstCycle)
    /\ Arrives(Typed(after), StartAfter(after))
    /\ Arrives(PhaseTwoText(after), PhaseTwo(after))
    /\ Arrives(ResumeText(after), ResumeAfter(after))

(* The older builder, which the tests still use, asks for the same, where   *)
(* there is no ETST_ENV_ and all --env are typed in one form and well.      *)
EnvInOneForm ==
    /\ \A i \in DOMAIN options : options[i].flag # MalformedEnv
    /\ \A i, j \in DOMAIN options :
          options[i].flag.flag = "--env" /\ options[j].flag.flag = "--env"
              => (IsEnvPair(options[i]) <=> IsEnvPair(options[j]))

BuildersAgree ==
    setting.env = EmptyEnv /\ EnvInOneForm =>
        LET got(resumeAfter) ==
                Received(InitialCommandText(typed, setting.new, setting.old,
                                            resumeAfter))
        IN  /\ SameEffect(got(""), got("").flags, FirstCycle)
            /\ SameEffect(got(after), got(after).flags, StartAfter(after))

(* Reference: the flag loop of extract_etst_flags() as the loop it is, from *)
(* the first flag to the last; a malformed --env stops it.                  *)
Scan(s, f) ==
    IF ~s.on \/ f = MalformedEnv
    THEN [skip |-> s.skip, on |-> FALSE]
    ELSE [skip |-> CASE f.flag = "--skip"   -> s.skip \cup f.tests
                     [] f.flag = "--unskip" -> s.skip \ f.tests
                     [] OTHER               -> s.skip,
          on |-> TRUE]

ScanUpTo(skip, flags) ==
    LET s[i \in 0..Len(flags)] ==
            IF i = 0 THEN [skip |-> skip, on |-> TRUE]
                     ELSE Scan(s[i - 1], flags[i])
    IN  s

SequentialSkip(skip, flags) == ScanUpTo(skip, flags)[Len(flags)].skip

(* The later of two flags that match a test decides, before the malformed   *)
(* one that stops the loop.                                                 *)
LaterFlagWins ==
    SkipAfterFlags(StaticSkip, args) = SequentialSkip(StaticSkip, args)

-----------------------------------------------------------------------------
(* Instances: four tests, two suites, one skipped statically.               *)

MCNameOf == <<"a", "b b", "c", "d">>
MCSuiteOf == <<"S", "S", "T T", "T T">>
MCKeys == {"GPS"}
MCValues == {"1", "0"}
MCTruthy == {"1"}
MCRequirements == {[name |-> "c", key |-> "GPS", val |-> AnyTruthy]}

MCJoined ==
    ("--tc=[bd]*" :> [flag |-> "--tc", value |-> "[bd]*"]) @@
    ("--test-suite-exclude=S*" :> [flag |-> "--test-suite-exclude", value |-> "S*"]) @@
    ("--tc=b" :> [flag |-> "--tc", value |-> "b"])
MCDashed == {"--env", "--env GPS=1", "--env GPS", "--tc", "--ts", "--tce",
             "--tse", "--unskip-tc", "--unskip-ts", "--skip-tc", "--skip-ts",
             "--no-skip", "--wake", "--ts S*", "--test-case", "--test-suite",
             "--test-case-exclude", "--test-suite-exclude", "--tc=b b"}
                \cup DOMAIN MCJoined
MCWords == MCDashed \cup Names \cup
           {"GPS=1", "GPS=0", "GPS", "S*", "T T", "T", "*b *", "*b", "*",
            "[bcd]*", "[bd]*", "[ab]*", "[d]", "b", "1"}
MCPieces ==
    [w \in MCWords |->
        CASE w = "--env GPS=1" -> <<"--env", "GPS=1">>
          [] w = "--env GPS"   -> <<"--env", "GPS">>
          [] w = "--ts S*"     -> <<"--ts", "S*">>
          [] w = "b b"         -> <<"b", "b">>
          [] w = "--tc=b b"    -> <<"--tc=b", "b">>
          [] w = "T T"         -> <<"T", "T">>
          [] w = "*b *"        -> <<"*b", "*">>
          [] OTHER             -> <<w>>]
MCByName ==
    [w \in MCWords |->
        CASE w = "[bcd]*"           -> {2, 3, 4}
          [] w = "[bd]*"            -> {2, 4}
          [] w = "[ab]*"            -> {1, 2}
          [] w = "[d]"              -> {4}
          [] w = "*"                -> {1, 2, 3, 4}
          [] w \in {"*b *", "b b"}  -> {2}
          [] OTHER                  -> {t \in 1..4 : MCNameOf[t] = w}]
MCBySuite ==
    [w \in MCWords |->
        CASE w = "S*" -> {1, 2} [] w = "T T" -> {3, 4} [] w = "*" -> {1, 2, 3, 4}
          [] OTHER -> {}]
MCAssignments == [w \in {"GPS=1", "GPS=0"} |->
                     [key |-> "GPS", val |-> IF w = "GPS=1" THEN "1" ELSE "0"]]

Option(flag, value) ==
    [words |-> <<flag, value>>, flag |-> VariableFlag(flag, value)]
OneWord(word, flag) == [words |-> <<word>>, flag |-> flag]

Environment ==
    {[words |-> <<"--env", "GPS=0">>, flag |-> EnvFlag("GPS", "0")],
     OneWord("--env GPS=1", EnvFlag("GPS", "1")),
     OneWord("--env GPS", MalformedEnv)}
Filters == {Option("--tc", "[bcd]*"), Option("--tce", "*b *"),
            OneWord("--ts S*", FlagOn("--ts", {1, 2}))}
LongAndJoined == {Option("--test-case", "[ab]*"),
                  OneWord("--tc=[bd]*", FlagOn("--tc", {2, 4})),
                  OneWord("--test-suite-exclude=S*",
                          FlagOn("--test-suite-exclude", {1, 2}))}
JoinedWithSpace == {OneWord("--tc=b b", FlagOn("--tc", {2}))}
Skips == {Option("--skip-tc", "[bd]*"), Option("--skip-ts", "T T")}
Unskips == {Option("--unskip-tc", "*b *"), Option("--unskip-ts", "T T"),
            OneWord("--no-skip", NoSkipFlag)}
EveryFlag == Environment \cup Filters \cup LongAndJoined \cup Skips \cup Unskips

(* The variables: none; some under both names; others under the old one.    *)
NoVariable == [f \in Range(EnvMap) |-> ""]
MCSettings ==
    {[new |-> NoVariable, old |-> NoVariable, env |-> EmptyEnv],
     [new |-> [NoVariable EXCEPT !["--tc"] = "b b", !["--skip-ts"] = "T T"],
      old |-> [NoVariable EXCEPT !["--tc"] = "[d]"],
      env |-> [EmptyEnv EXCEPT !["GPS"] = "1"]],
     [new |-> NoVariable,
      old |-> [NoVariable EXCEPT !["--no-skip"] = "1", !["--tse"] = "T T"],
      env |-> EmptyEnv]}
=============================================================================
