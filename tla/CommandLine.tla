---------------------------- MODULE CommandLine ----------------------------
(***************************************************************************)
(* From what the user types to the flags the board applies: the builders of *)
(* src/etst/runner.py, the folding of ETST:ARGS into the command and the    *)
(* parser of include/etst/doctest/runner.h.                                 *)
(*                                                                          *)
(* A word is one element of program_args, or a value; a text is a sequence  *)
(* of words, each written plainly or in quotes.  Pieces says into what the  *)
(* tokenizer takes a plain word apart.                                      *)
(***************************************************************************)
EXTENDS Registry, SequencesExt

CONSTANTS
    Dashed,       \* the words that start with "--"
    Pieces,       \* word -> its tokens when it is not quoted
    ByName,       \* word -> the tests whose name it matches as a pattern
    BySuite,      \* word -> the tests whose suite it matches
    Joined,       \* words "--flag=value" of a filter -> [flag, value]
    Assignments   \* well-formed KEY=VALUE words -> [key, val]

ASSUME CommandLineAssumption ==
    /\ \A w \in DOMAIN Pieces : Pieces[w] \in Seq(STRING)
    /\ ByName \in [DOMAIN Pieces -> SUBSET Tests]
    /\ BySuite \in [DOMAIN Pieces -> SUBSET Tests]
    /\ DOMAIN Assignments \subseteq DOMAIN Pieces
    /\ \A w \in DOMAIN Assignments :
           Assignments[w] \in [key : Keys, val : Values]
    /\ DOMAIN Joined \subseteq Dashed
    /\ \A w \in DOMAIN Joined :
           Joined[w] \in [flag : FilterNames, value : DOMAIN Pieces]

HasSpace(w) == Pieces[w] # <<w>>

Plain(w) == [word |-> w, quoted |-> FALSE]
Quoted(w) == [word |-> w, quoted |-> TRUE]

MutantValue(w) == Plain(w)

(* A value is quoted if it has a space.                                     *)
Value(w) == IF HasSpace(w) THEN Quoted(w) ELSE Plain(w)

(* At i a flag with a value of its own.                                     *)
PairAt(words, i) ==
    /\ i < Len(words)
    /\ words[i] \in Dashed /\ words[i + 1] \notin Dashed

-----------------------------------------------------------------------------
(* The host.  typed is program_args; new and old give the ETST_ and the     *)
(* PTR_ variable of each flag ("" for none), hostEnv the ETST_ENV_ ones.    *)

EnvAt(words, i) == i < Len(words) /\ words[i] = "--env"

(* The filters of program_args, without the pairs at the positions in taken.*)
FilterWords(words, taken) ==
    LET from[i \in 1..(Len(words) + 2)] ==
            IF i > Len(words) THEN <<>>
            ELSE IF i \in taken THEN from[i + 2]
            ELSE IF PairAt(words, i)
                 THEN <<Plain(words[i]), Value(words[i + 1])>> \o from[i + 2]
                 ELSE <<Plain(words[i])>> \o from[i + 1]
    IN  from[1]

(* _env(): the new name first, then the deprecated one.                     *)
Etst(new, old, flag) == IF new[flag] # "" THEN new[flag] ELSE old[flag]

EnvMap == <<"--tc", "--ts", "--tce", "--tse", "--unskip-tc", "--unskip-ts",
            "--skip-tc", "--skip-ts", "--no-skip">>

EtstWords(new, old) ==
    FlattenSeq([i \in DOMAIN EnvMap |->
        LET flag == EnvMap[i]
            value == Etst(new, old, flag)
        IN  IF value = "" THEN <<>>
            ELSE IF flag = "--no-skip" THEN <<Plain(flag)>>
            ELSE <<Plain(flag), Value(value)>>])

MutantCollectEnv(words, hostEnv) ==
    LET Program == {w \in DOMAIN Assignments :
                       \E i \in DOMAIN words : EnvAt(words, i) /\ words[i + 1] = w}
    IN  [k \in Keys |->
            IF hostEnv[k] # Unset THEN hostEnv[k]
            ELSE IF \E w \in Program : Assignments[w].key = k
            THEN Assignments[CHOOSE w \in Program : Assignments[w].key = k].val
            ELSE Unset]

(* _collect_env_vars(): the last --env of a key, else its ETST_ENV_; an     *)
(* --env without "=" is dropped.                                            *)
CollectEnv(words, hostEnv) ==
    LET Sets(i, k) == /\ EnvAt(words, i)
                      /\ words[i + 1] \in DOMAIN Assignments
                      /\ Assignments[words[i + 1]].key = k
        Final(k) == {i \in DOMAIN words :
                       Sets(i, k) /\ \A j \in DOMAIN words :
                                         Sets(j, k) => j <= i}
    IN  [k \in Keys |->
            IF Final(k) = {} THEN hostEnv[k]
            ELSE Assignments[words[1 + CHOOSE i \in Final(k) : TRUE]].val]

(* _build_args_and_run() leaves out what _collect_env_vars() takes.         *)
Parts(typed, new, old) ==
    FilterWords(typed, {i \in DOMAIN typed : EnvAt(typed, i)})
        \o EtstWords(new, old)

(* The ETST:ARGS lines of _build_args_and_run(): one per environment        *)
(* variable, unquoted, and one for the filters.                             *)
ArgsTexts(typed, new, old, hostEnv) ==
    LET env == CollectEnv(typed, hostEnv)
        words == {w \in DOMAIN Assignments :
                     env[Assignments[w].key] = Assignments[w].val}
        lines == SetToSeq({<<Plain("--env"), Plain(w)>> : w \in words})
        parts == Parts(typed, new, old)
    IN  lines \o (IF parts = <<>> THEN <<>> ELSE <<parts>>)

Command(kind, name, text) == [kind |-> kind, name |-> name, text |-> text]

(* Its command; resumeAfter is ETST_RESUME_AFTER.                           *)
RunCommand(typed, new, old, hostEnv, resumeAfter) ==
    IF resumeAfter # ""
    THEN Command("RESUME_AFTER", resumeAfter, Parts(typed, new, old))
    ELSE IF ArgsTexts(typed, new, old, hostEnv) = <<>>
    THEN Command("RUN_ALL", "", <<>>)
    ELSE Command("RUN", "", <<>>)

(* _build_initial_command(), the older builder: everything in one command,  *)
(* --env pairs included, ETST_ENV_ not.                                     *)
InitialCommandText(typed, new, old, resumeAfter) ==
    LET parts == FilterWords(typed, {}) \o EtstWords(new, old)
    IN  IF resumeAfter # "" THEN Command("RESUME_AFTER", resumeAfter, parts)
        ELSE IF parts = <<>> THEN Command("RUN_ALL", "", <<>>)
        ELSE Command("RUN:", "", parts)

(* _handle_sleep_resume().                                                  *)
PhaseTwoText(name) ==
    Command("RUN:", "", <<Plain("--wake"), Plain("--tc"), Quoted(name)>>)
ResumeText(name) == Command("RESUME_AFTER", name, <<>>)

-----------------------------------------------------------------------------
(* The board.                                                               *)

MutantCombine(cmd, lines) ==
    LET body == FlattenSeq(lines)
    IN  CASE lines = <<>> -> cmd
          [] lines # <<>> /\ cmd.kind = "RUN:" ->
                 Command("RUN:", "", cmd.text \o body)
          [] lines # <<>> /\ cmd.kind \in {"RUN", "RUN_ALL"} ->
                 Command("RUN:", "", body)
          [] OTHER -> cmd

(* combine_command_args().                                                  *)
Combine(cmd, lines) ==
    LET body == FlattenSeq(lines)
    IN  CASE lines = <<>> -> cmd
          [] lines # <<>> /\ cmd.kind = "RUN:" ->
                 Command("RUN:", "", body \o cmd.text)
          [] lines # <<>> /\ cmd.kind \in {"RUN", "RUN_ALL"} ->
                 Command("RUN:", "", body)
          [] lines # <<>> /\ cmd.kind = "RESUME_AFTER" ->
                 Command("RESUME_AFTER", cmd.name, cmd.text \o body)

(* tokenize_args().                                                         *)
Tokens(text) ==
    FlattenSeq([i \in DOMAIN text |->
        IF text[i].quoted THEN <<text[i].word>> ELSE Pieces[text[i].word]])

SkipFlagNames == {"--unskip-tc", "--unskip-ts", "--skip-tc", "--skip-ts"}

(* modify_skip() by name or by suite.                                       *)
SkipFlagOf(flag, pattern) ==
    FlagOn(IF flag \in {"--skip-tc", "--skip-ts"} THEN "--skip" ELSE "--unskip",
           IF flag \in {"--skip-tc", "--unskip-tc"} THEN ByName[pattern]
                                                    ELSE BySuite[pattern])

(* extract_etst_flags(): what it applies, and what it leaves to doctest,    *)
(* which a malformed --env clears.                                          *)
Extract(tokens) ==
    LET none == [flags |-> <<>>, rest |-> <<>>]
        With(flag, r) == [r EXCEPT !.flags = <<flag>> \o @]
        from[i \in 1..(Len(tokens) + 2)] ==
            IF i > Len(tokens) THEN none
            ELSE IF EnvAt(tokens, i)
            THEN IF tokens[i + 1] \in DOMAIN Assignments
                 THEN With(EnvFlag(Assignments[tokens[i + 1]].key,
                                   Assignments[tokens[i + 1]].val), from[i + 2])
                 ELSE With(MalformedEnv, none)
            ELSE IF tokens[i] = "--wake" THEN With(WakeFlag, from[i + 1])
            ELSE IF tokens[i] \in SkipFlagNames /\ i < Len(tokens)
            THEN With(SkipFlagOf(tokens[i], tokens[i + 1]), from[i + 2])
            ELSE [from[i + 1] EXCEPT !.rest = <<tokens[i]>> \o @]
    IN  IF Malformed(from[1].flags) THEN [from[1] EXCEPT !.rest = <<>>]
                                    ELSE from[1]

(* A filter flag, of either name, with its pattern.                         *)
Filter(flag, pattern) ==
    FlagOn(flag, IF flag \in {"--tc", "--tce", "--test-case", "--test-case-exclude"}
                 THEN ByName[pattern] ELSE BySuite[pattern])

(* A flag and the word after it, which build_doctest_argv() joins with "=". *)
(* If the flag is joined already, its pattern becomes value=word, and no    *)
(* test or suite has a name with a "=".                                     *)
JoinedWithNext(word, next) ==
    CASE word \in FilterNames   -> <<Filter(word, next)>>
      [] word \in DOMAIN Joined -> <<FlagOn(Joined[word].flag, {})>>
      [] OTHER                  -> <<>>

MutantOnItsOwn(word) == IF word = "--no-skip" THEN <<NoSkipFlag>> ELSE <<>>

OnItsOwn(word) ==
    CASE word = "--no-skip"     -> <<NoSkipFlag>>
      [] word \in DOMAIN Joined -> <<Filter(Joined[word].flag, Joined[word].value)>>
      [] OTHER                  -> <<>>

(* build_doctest_argv() and what doctest and count_passing_filters() take   *)
(* from it.                                                                 *)
ForDoctest(tokens) ==
    LET from[i \in 1..(Len(tokens) + 2)] ==
            IF i > Len(tokens) THEN <<>>
            ELSE IF PairAt(tokens, i)
            THEN JoinedWithNext(tokens[i], tokens[i + 1]) \o from[i + 2]
            ELSE OnItsOwn(tokens[i]) \o from[i + 1]
    IN  from[1]

(* apply_run_filters(): a single word that is no flag is a test-case        *)
(* pattern.                                                                 *)
ParsedFlags(text) ==
    LET tokens == Tokens(text)
        taken == Extract(tokens)
    IN  IF Len(tokens) = 1 /\ tokens[1] \notin Dashed
        THEN <<FlagOn("--tc", ByName[tokens[1]])>>
        ELSE taken.flags \o ForDoctest(taken.rest)

(* apply_runner_command(): the name of RESUME_AFTER ends at the first " --";*)
(* a word before that becomes part of a name no test has.                   *)
NoTest == ""
Received(cmd) ==
    LET named == cmd.text = <<>> \/ cmd.text[1].word \in Dashed
    IN  [kind |-> cmd.kind,
         name |-> IF named THEN cmd.name ELSE NoTest,
         flags |-> ParsedFlags(cmd.text)]
=============================================================================
