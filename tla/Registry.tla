------------------------------ MODULE Registry ------------------------------
(***************************************************************************)
(* What one firmware cycle makes of a command: which tests it skips, which  *)
(* it runs and how many it reports.  Pure definitions over doctest's        *)
(* registry, from include/etst/doctest/runner.h, resume.h, command_args.h   *)
(* and include/etst/env.h.                                                  *)
(*                                                                          *)
(* Tests are numbered in execution order (file, then line).  A glob pattern *)
(* stands for the set of tests it matches, so --skip-tc and --skip-ts are   *)
(* one flag "--skip" here; a filter keeps its name, short or long, because  *)
(* doctest takes the last of each name.                                     *)
(***************************************************************************)
EXTENDS Integers, Sequences, FiniteSets

CONSTANTS
    N,             \* number of registered tests
    NameOf,        \* m_name of each test
    SuiteOf,       \* m_test_suite of each test, "" for none
    StaticSkip,    \* tests declared with doctest::skip()
    HookExclude,   \* tests excluded by the configure hook or at compile time
    Keys, Values,  \* environment keys and values
    Truthy,        \* the values env_is() accepts
    Requirements   \* require_env decorators: [name, key, val]

Tests == 1..N
AnyTruthy == "*"
Unset == "unset"
Envs == [Keys -> Values \cup {Unset}]
EmptyEnv == [k \in Keys |-> Unset]

ASSUME RegistryAssumption ==
    /\ N \in Nat \ {0}
    /\ NameOf \in [Tests -> STRING]
    /\ SuiteOf \in [Tests -> STRING]
    /\ \A t \in Tests : NameOf[t] # ""
    /\ StaticSkip \subseteq Tests
    /\ HookExclude \subseteq Tests
    /\ Truthy \subseteq Values
    /\ Unset \notin Values /\ AnyTruthy \notin Values
    /\ Requirements \subseteq
          [name : STRING, key : Keys, val : Values \cup {AnyTruthy}]

-----------------------------------------------------------------------------
(* Flags of a command line, one record each.                                *)

FilterFlags == {"--tc", "--ts", "--tce", "--tse"}
LongName == [f \in FilterFlags |->
    CASE f = "--tc"  -> "--test-case"
      [] f = "--ts"  -> "--test-suite"
      [] f = "--tce" -> "--test-case-exclude"
      [] f = "--tse" -> "--test-suite-exclude"]
FilterNames == FilterFlags \cup {LongName[f] : f \in FilterFlags}
SkipFlags == {"--skip", "--unskip"}
NoKey == ""

AnyFlag == [flag : STRING, tests : SUBSET Tests, key : Keys \cup {NoKey},
            val : Values \cup {Unset}]

FlagOn(flag, tests) ==
    [flag |-> flag, tests |-> tests, key |-> NoKey, val |-> Unset]
EnvFlag(key, val) ==
    [flag |-> "--env", tests |-> {}, key |-> key, val |-> val]
MalformedEnv == FlagOn("--env", {})
WakeFlag == FlagOn("--wake", {})
NoSkipFlag == FlagOn("--no-skip", {})

Has(flags, f) == \E i \in DOMAIN flags : flags[i].flag = f

(* A filter, by its short or its long name.                                 *)
Given(flags, f) == Has(flags, f) \/ Has(flags, LongName[f])

-----------------------------------------------------------------------------
(* extract_etst_flags(): left to right, up to a malformed --env, which also *)
(* clears what doctest would have been given.                               *)

Malformed(flags) == \E i \in DOMAIN flags : flags[i] = MalformedEnv

ReachedBy(flags, i) == \A j \in 1..i : flags[j] # MalformedEnv

DoctestArgs(flags) == IF Malformed(flags) THEN <<>> ELSE flags

Touches(fl, t) == fl.flag \in SkipFlags /\ t \in fl.tests

MutantSkipAfterFlags(skip, flags) ==
    {t \in Tests : t \in skip \/ \E i \in DOMAIN flags :
        ReachedBy(flags, i) /\ flags[i].flag = "--skip" /\ t \in flags[i].tests}

(* m_skip after the flags: the last flag that matches a test decides.       *)
SkipAfterFlags(skip, flags) ==
    LET Decides(i, t) ==
            /\ ReachedBy(flags, i) /\ Touches(flags[i], t)
            /\ \A j \in DOMAIN flags :
                   j > i /\ ReachedBy(flags, j) => ~Touches(flags[j], t)
    IN  {t \in Tests :
            \/ \E i \in DOMAIN flags :
                   Decides(i, t) /\ flags[i].flag = "--skip"
            \/ t \in skip /\ ~ \E i \in DOMAIN flags : Decides(i, t)}

(* env_set() for each --env: the last one for a key wins.                   *)
EnvAfter(env, flags) ==
    LET Sets(i, k) == /\ ReachedBy(flags, i)
                      /\ flags[i].flag = "--env" /\ flags[i].key = k
        Last(k) == {i \in DOMAIN flags :
                       Sets(i, k) /\ \A j \in DOMAIN flags :
                                         j > i => ~Sets(j, k)}
    IN  [k \in Keys |-> IF Last(k) = {} THEN env[k]
                        ELSE flags[CHOOSE i \in Last(k) : TRUE].val]

(* apply_env_requirements(): an unmet requirement skips by test name.       *)
Met(env, r) ==
    IF r.val = AnyTruthy THEN env[r.key] \in Truthy ELSE env[r.key] = r.val

SkipAfterEnv(skip, env) ==
    skip \cup {t \in Tests : \E r \in Requirements :
                                 r.name = NameOf[t] /\ ~Met(env, r)}

(* select_resume_after(): the first test of that name and all before it.    *)
FirstNamed(name) ==
    {p \in Tests : NameOf[p] = name /\ \A q \in 1..(p - 1) : NameOf[q] # name}

MutantSkipAfterResume(skip, name) ==
    skip \cup {t \in Tests : \E p \in FirstNamed(name) : t < p}

SkipAfterResume(skip, name) ==
    skip \cup {t \in Tests : \E p \in FirstNamed(name) : t <= p}

-----------------------------------------------------------------------------
(* What doctest runs.  Its own parser takes the last flag of each name, the *)
(* short and the long ones into one list of patterns; the hook's excludes   *)
(* come on top.                                                             *)

LastOf(flags, name) ==
    LET I == {i \in DOMAIN flags : flags[i].flag = name}
    IN  IF I = {} THEN {}
        ELSE flags[CHOOSE i \in I : \A j \in I : j <= i].tests

Patterns(flags, f) == LastOf(flags, f) \cup LastOf(flags, LongName[f])

DoctestSelects(skip, flags) ==
    {t \in Tests \ HookExclude :
        /\ t \notin skip \/ Has(flags, "--no-skip")
        /\ Given(flags, "--tc") => t \in Patterns(flags, "--tc")
        /\ Given(flags, "--ts") => t \in Patterns(flags, "--ts")
        /\ t \notin Patterns(flags, "--tce")
        /\ t \notin Patterns(flags, "--tse")}

(* What count_passing_filters() counts: every captured flag, no hook.       *)
AllOf(flags, name) ==
    UNION {flags[i].tests : i \in {j \in DOMAIN flags : flags[j].flag = name}}

AnyOf(flags, f) == AllOf(flags, f) \cup AllOf(flags, LongName[f])

MutantCountSelects(skip, flags) ==
    {t \in Tests :
        /\ t \notin StaticSkip \/ Has(flags, "--no-skip")
        /\ Given(flags, "--tc") => t \in AnyOf(flags, "--tc")
        /\ Given(flags, "--ts") => t \in AnyOf(flags, "--ts")
        /\ t \notin AnyOf(flags, "--tce")
        /\ t \notin AnyOf(flags, "--tse")}

CountSelects(skip, flags) ==
    {t \in Tests :
        /\ t \notin skip \/ Has(flags, "--no-skip")
        /\ Given(flags, "--tc") => t \in AnyOf(flags, "--tc")
        /\ Given(flags, "--ts") => t \in AnyOf(flags, "--ts")
        /\ t \notin AnyOf(flags, "--tce")
        /\ t \notin AnyOf(flags, "--tse")}

-----------------------------------------------------------------------------
(* combine_command_args() and apply_runner_command(): the flags a command   *)
(* applies once the accumulated ETST:ARGS are folded in.  args is their     *)
(* concatenation.  A bare "RUN" without args is an unknown command, which   *)
(* runs everything, as RUN_ALL does.                                        *)

MutantCommandFlags(msg, args) ==
    CASE msg.kind = "RUN:"             -> args \o msg.flags
      [] msg.kind \in {"RUN", "RUN_ALL"} -> args
      [] OTHER                         -> msg.flags

MutantCommandFlagsOrder(msg, args) ==
    CASE msg.kind = "RUN:"             -> msg.flags \o args
      [] msg.kind \in {"RUN", "RUN_ALL"} -> args
      [] msg.kind = "RESUME_AFTER" /\ msg.name # "" -> msg.flags \o args
      [] OTHER                         -> <<>>

CommandFlags(msg, args) ==
    CASE msg.kind = "RUN:"             -> args \o msg.flags
      [] msg.kind \in {"RUN", "RUN_ALL"} -> args
      [] msg.kind = "RESUME_AFTER" /\ msg.name # "" -> msg.flags \o args
      [] OTHER                         -> <<>>

(* run_cycle() up to context.run(): m_skip, the env store, what doctest     *)
(* will run and what COUNTS reports.                                        *)
SkipForCycle(skip, env, msg, flags) ==
    LET resumed == IF msg.kind = "RESUME_AFTER"
                   THEN SkipAfterResume(skip, msg.name) ELSE skip
    IN  SkipAfterEnv(SkipAfterFlags(resumed, flags), EnvAfter(env, flags))

RunBy(skip, env, msg, flags) ==
    DoctestSelects(SkipForCycle(skip, env, msg, flags), DoctestArgs(flags))

CountBy(skip, env, msg, flags) ==
    Cardinality(CountSelects(SkipForCycle(skip, env, msg, flags),
                             DoctestArgs(flags)))
=============================================================================
