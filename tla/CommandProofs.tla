--------------------------- MODULE CommandProofs ---------------------------
(***************************************************************************)
(* The properties of a cycle's selection, for every registry and whatever   *)
(* the user typed: what RegistryProofs says of any list of flags, applied   *)
(* to the flags of a session's first, phase-two and resume commands; and    *)
(* that the loop over the flags leaves behind what Registry says it does.   *)
(***************************************************************************)
EXTENDS MCRegistry, RegistryProofs

(* Each command applies the flags of the ETST:ARGS lines, and its own where *)
(* combine_command_args() puts them.                                        *)
LEMMA FlagsOfCommands ==
    ASSUME args \in Seq(AnyFlag)
    PROVE  /\ CommandFlags(FirstCycle, args) = args
           /\ after # "" => CommandFlags(ResumeAfter(after), args) = args
           /\ \A name : CommandFlags(PhaseTwo(name), args) =
                 args \o <<WakeFlag,
                           FlagOn("--tc", {t \in Tests : NameOf[t] = name})>>
<1>1. <<>> \o args = args
  OBVIOUS
<1> HIDE DEF args
<1> QED BY <1>1 DEF CommandFlags, FirstCycle, ResumeAfter, PhaseTwo, Msg

(* ResumePartition for every registry and every command line: a resume      *)
(* cycle runs exactly the rest, unless a flag un-skips.                     *)
THEOREM ResumeIsExact ==
    ASSUME args \in Seq(AnyFlag), after # ""
    PROVE  ResumePartition
<1> DEFINE rest == RunBy(StaticSkip, EmptyEnv, ResumeAfter(after), args)
           all == RunBy(StaticSkip, EmptyEnv, FirstCycle, args)
<1> HIDE DEF args
<1> SUFFICES ASSUME ~Has(args, "--unskip"), ~Has(args, "--no-skip")
             PROVE  ResumeComposes
  BY DEF ResumePartition
<1>1. Runs(ResumeAfter(after)) = rest /\ Runs(FirstCycle) = all
  BY FlagsOfCommands DEF Runs
<1>2. /\ ResumeAfter(after).kind = "RESUME_AFTER"
      /\ ResumeAfter(after).name = after
      /\ FirstCycle.kind # "RESUME_AFTER"
  BY DEF ResumeAfter, FirstCycle, Msg
<1>3. \A t : t \in rest <=> t \in all /\ \A p \in FirstNamed(after) : t > p
  <2>1. NothingUnskips(args)
    BY DEF NothingUnskips, Has
  <2> QED BY <1>2, <2>1, RunsAfterResume
<1> HIDE DEF rest, all
<1>4. FirstNamed(after) =
        {p \in Tests : NameOf[p] = after /\ (\A q \in 1..(p - 1) : NameOf[q] # after)}
  BY DEF FirstNamed
<1>5. all \subseteq Tests
  BY DEF all, RunBy, DoctestSelects
<1> QED BY <1>1, <1>3, <1>4, <1>5 DEF ResumeComposes

(* CountsMatch for every registry without a configure hook's filter: what   *)
(* a first or a resume cycle reports in COUNTS is what it runs.             *)
THEOREM CountsAreExact ==
    ASSUME args \in Seq(AnyFlag), after # "", HookExclude = {}
    PROVE  CountsMatch
<1> HIDE DEF args
<1> SUFFICES ASSUME OneOfEach, NEW msg \in {FirstCycle, ResumeAfter(after)}
             PROVE  Counts(msg) = Cardinality(Runs(msg))
  BY DEF CountsMatch
<1>1. CommandFlags(msg, args) = args
  BY FlagsOfCommands
<1>2. \A name \in FilterNames : AgreesOn(args, name)
  BY DEF OneOfEach, AgreesOn
<1> QED BY <1>1, <1>2, CountIsExact DEF Counts, Runs

(* PhaseTwoRunsSleeper for every registry and every command line: the phase *)
(* two command runs the test that slept, and nothing of another name unless *)
(* the user gave --test-case.                                               *)
THEOREM PhaseTwoIsExact ==
    ASSUME args \in Seq(AnyFlag)
    PROVE  PhaseTwoRunsSleeper
<1> HIDE DEF args
<1> SUFFICES ASSUME ~Malformed(args), NEW t \in Runs(FirstCycle)
             PROVE  /\ t \in Runs(PhaseTwo(NameOf[t]))
                    /\ ~Has(args, "--test-case") =>
                          \A u \in Runs(PhaseTwo(NameOf[t])) : NameOf[u] = NameOf[t]
  BY DEF PhaseTwoRunsSleeper, PhaseTwoRunsAlone
<1> DEFINE pattern == FlagOn("--tc", {u \in Tests : NameOf[u] = NameOf[t]})
           msg == PhaseTwo(NameOf[t])
<1>1. /\ WakeFlag.flag = "--wake" /\ pattern.flag = "--tc"
      /\ pattern.tests = {u \in Tests : NameOf[u] = NameOf[t]}
      /\ msg.kind # "RESUME_AFTER" /\ FirstCycle.kind # "RESUME_AFTER"
  BY DEF WakeFlag, FlagOn, PhaseTwo, FirstCycle, Msg
<1>2. CommandFlags(msg, args) = args \o <<WakeFlag, pattern>>
      /\ CommandFlags(FirstCycle, args) = args
  BY FlagsOfCommands
<1>3. t \in RunBy(StaticSkip, EmptyEnv, FirstCycle, args)
  BY <1>2 DEF Runs
<1> HIDE DEF pattern, msg
<1>4. Runs(msg) = RunBy(StaticSkip, EmptyEnv, msg, args \o <<WakeFlag, pattern>>)
  BY <1>2 DEF Runs
<1>5. /\ pattern.tests \cap RunBy(StaticSkip, EmptyEnv, FirstCycle, args)
             \subseteq Runs(msg)
      /\ ~Has(args, "--test-case") => Runs(msg) \subseteq pattern.tests
  BY <1>1, <1>4, LastPatternRuns
<1>6. t \in Tests
  BY <1>3 DEF RunBy, DoctestSelects
<1> QED BY <1>1, <1>3, <1>5, <1>6 DEF msg

-----------------------------------------------------------------------------
(* The loop, flag by flag.                                                  *)
LEMMA ScanUnfold ==
    ASSUME NEW skip, NEW flags \in Seq(AnyFlag)
    PROVE  /\ ScanUpTo(skip, flags)[0] = [skip |-> skip, on |-> TRUE]
           /\ \A k \in 1..Len(flags) :
                 ScanUpTo(skip, flags)[k] = Scan(ScanUpTo(skip, flags)[k - 1], flags[k])
<1> DEFINE n == Len(flags)
           First == [skip |-> skip, on |-> TRUE]
           Loop(f, k) == f = [i \in 0..k |-> IF i = 0 THEN First
                                             ELSE Scan(f[i - 1], flags[i])]
           None == {k \in 0..n : ~ \E f : Loop(f, k)}
           R == OpToRel(<, Nat)
           up == ScanUpTo(skip, flags)
<1>1. n \in Nat
  OBVIOUS
<1>s. up = CHOOSE s : s = [i \in 0..n |-> IF i = 0 THEN First ELSE Scan(s[i - 1], flags[i])]
  BY DEF ScanUpTo
<1> HIDE DEF n, First, up
<1>2. None = {}
  <2> SUFFICES ASSUME None # {} PROVE FALSE
    OBVIOUS
  <2>1. PICK m \in None : \A j \in None : ~(<<j, m>> \in R)
    <3>1. IsWellFoundedOn(R, Nat)
      BY NatLessThanWellFounded DEF R
    <3>2. None \subseteq Nat
      <4>1. None \subseteq 0..n
        OBVIOUS
      <4> HIDE DEF None
      <4> QED BY <1>1, <4>1
    <3> HIDE DEF None, R
    <3> QED BY <3>1, <3>2, WFMin, Zenon
  <2>2. m \in 0..n /\ ~ \E f : Loop(f, m)
    OBVIOUS
  <2>3. m # 0
    <3> SUFFICES ASSUME m = 0 PROVE FALSE
      OBVIOUS
    <3> DEFINE f == [i \in 0..0 |-> First]
    <3>1. f = [i \in 0..0 |-> IF i = 0 THEN First ELSE Scan(f[i - 1], flags[i])]
      OBVIOUS
    <3> HIDE DEF f
    <3> QED BY <2>2, <3>1
  <2>4. m - 1 \in 0..n /\ m - 1 < m
    BY <1>1, <2>2, <2>3
  <2>5. m - 1 \notin None
    <3> SUFFICES ASSUME m - 1 \in None PROVE FALSE
      OBVIOUS
    <3>1. <<m - 1, m>> \in R
      BY <1>1, <2>2, <2>4 DEF OpToRel
    <3> QED BY <2>1, <3>1
  <2>6. PICK f : Loop(f, m - 1)
    BY <2>4, <2>5
  <2> DEFINE g == [i \in 0..m |-> IF i = m THEN Scan(f[m - 1], flags[m]) ELSE f[i]]
  <2>7. \A i \in 0..m : g[i] = IF i = 0 THEN First ELSE Scan(g[i - 1], flags[i])
    <3>0. m \in Nat /\ m # 0
      BY <1>1, <2>2, <2>3
    <3>1. \A i \in 0..(m - 1) : f[i] = IF i = 0 THEN First ELSE Scan(f[i - 1], flags[i])
      BY <2>6
    <3>2. ASSUME NEW i \in 0..m
          PROVE  g[i] = IF i = 0 THEN First ELSE Scan(g[i - 1], flags[i])
      <4>1. CASE i = m
        <5>1. i # 0 /\ i - 1 \in 0..m /\ i - 1 # m /\ i - 1 = m - 1
          BY <3>0, <4>1
        <5> QED BY <4>1, <5>1
      <4>2. CASE i # m
        <5>1. i \in 0..(m - 1) /\ (i # 0 => i - 1 \in 0..m /\ i - 1 # m)
          BY <3>0, <4>2
        <5>2. g[i] = f[i] /\ (i # 0 => g[i - 1] = f[i - 1])
          BY <4>2, <5>1
        <5> HIDE DEF g
        <5> QED BY <3>1, <5>1, <5>2
      <4> QED BY <4>1, <4>2
    <3> QED BY <3>2
  <2>8. Loop(g, m)
    <3>1. g = [i \in 0..m |-> g[i]]
      OBVIOUS
    <3> HIDE DEF g
    <3> QED BY <2>7, <3>1
  <2> QED BY <2>2, <2>8
<1>3. \E f : Loop(f, n)
  <2>1. n \in 0..n
    BY <1>1
  <2> QED BY <1>2, <2>1
<1>4. Loop(up, n)
  BY <1>3, <1>s
<1>5. \A k \in 0..n : up[k] = IF k = 0 THEN First ELSE Scan(up[k - 1], flags[k])
  BY <1>4
<1>6. 0 \in 0..n /\ \A k \in 1..n : k \in 0..n /\ k # 0
  BY <1>1
<1>7. up[0] = First /\ \A k \in 1..n : up[k] = Scan(up[k - 1], flags[k])
  <2> HIDE DEF Loop
  <2> QED BY <1>5, <1>6
<1> QED BY <1>7 DEF First, n, up

(* After k flags: the loop goes on unless one was malformed, and the last   *)
(* flag that matches a test has decided.                                    *)
Settles(flags, k, i, t) ==
    /\ i \in 1..k /\ ReachedBy(flags, i) /\ Touches(flags[i], t)
    /\ \A j \in 1..k : j > i /\ ReachedBy(flags, j) => ~Touches(flags[j], t)

Scanned(skip, flags, k) ==
    LET s == ScanUpTo(skip, flags)[k]
    IN  /\ s.on \in BOOLEAN /\ (s.on <=> ReachedBy(flags, k))
        /\ s.skip =
             {t \in Tests :
                 \/ \E i \in 1..k : Settles(flags, k, i, t)
                                        /\ flags[i].flag = "--skip"
                 \/ t \in skip /\ ~ \E i \in 1..k : Settles(flags, k, i, t)}

(* One more flag.                                                           *)
LEMMA ScanStep ==
    ASSUME NEW skip \in SUBSET Tests, NEW flags \in Seq(AnyFlag),
           NEW k \in 1..Len(flags), Scanned(skip, flags, k - 1)
    PROVE  Scanned(skip, flags, k)
<1> DEFINE s == ScanUpTo(skip, flags)[k - 1]
           r == ScanUpTo(skip, flags)[k]
           f == flags[k]
<1>0. k \in Nat /\ k # 0 /\ k - 1 \in Nat
  OBVIOUS
<1>1. /\ s.on \in BOOLEAN /\ (s.on <=> ReachedBy(flags, k - 1))
      /\ s.skip =
             {t \in Tests :
                 \/ \E i \in 1..(k - 1) : Settles(flags, k - 1, i, t)
                                              /\ flags[i].flag = "--skip"
                 \/ t \in skip /\ ~ \E i \in 1..(k - 1) : Settles(flags, k - 1, i, t)}
  BY DEF Scanned
<1>2. r = Scan(s, f)
  BY ScanUnfold
<1>3. f \in AnyFlag /\ f.tests \subseteq Tests
  <2>1. f \in AnyFlag
    OBVIOUS
  <2> HIDE DEF f
  <2> QED BY <2>1 DEF AnyFlag
<1> HIDE DEF s, r
<1>4. 1..k = 1..(k - 1) \cup {k} /\ k \notin 1..(k - 1)
  BY <1>0
<1>5. ReachedBy(flags, k) <=> ReachedBy(flags, k - 1) /\ f # MalformedEnv
  BY <1>4 DEF ReachedBy
<1>6. \A i \in 1..(k - 1) : k > i /\ ~(i > k)
  BY <1>0
<1>7. CASE ~ReachedBy(flags, k)
  <2>1. r.on = FALSE /\ r.skip = s.skip
    BY <1>1, <1>2, <1>5, <1>7 DEF Scan
  <2>2. \A t : \A i \in 1..(k - 1) : Settles(flags, k, i, t) <=> Settles(flags, k - 1, i, t)
    BY <1>4, <1>7 DEF Settles
  <2>3. \A t : ~Settles(flags, k, k, t)
    BY <1>7 DEF Settles
  <2> QED BY <1>1, <1>4, <1>7, <2>1, <2>2, <2>3 DEF Scanned, r
<1>8. CASE ReachedBy(flags, k)
  <2>1. /\ r.on = TRUE
        /\ r.skip = CASE f.flag = "--skip"   -> s.skip \cup f.tests
                      [] f.flag = "--unskip" -> s.skip \ f.tests
                      [] OTHER               -> s.skip
    BY <1>1, <1>2, <1>5, <1>8 DEF Scan
  <2>2. \A t : Touches(f, t) <=> f.flag \in {"--skip", "--unskip"} /\ t \in f.tests
    BY DEF Touches, SkipFlags
  <2>3. \A t : Settles(flags, k, k, t) <=> Touches(f, t)
    BY <1>4, <1>6, <1>8 DEF Settles
  <2>4. \A t : \A i \in 1..(k - 1) :
            Settles(flags, k, i, t) <=> Settles(flags, k - 1, i, t) /\ ~Touches(f, t)
    BY <1>4, <1>6, <1>8 DEF Settles
  <2>5. ASSUME NEW t \in Tests
        PROVE  t \in r.skip <=>
                 \/ \E i \in 1..k : Settles(flags, k, i, t)
                                        /\ flags[i].flag = "--skip"
                 \/ t \in skip /\ ~ \E i \in 1..k : Settles(flags, k, i, t)
    <3>1. CASE Touches(f, t)
      <4>1. t \in r.skip <=> f.flag = "--skip"
        BY <2>1, <2>2, <3>1
      <4>2. \A i \in 1..(k - 1) : ~Settles(flags, k, i, t)
        BY <2>4, <3>1
      <4>3. Settles(flags, k, k, t)
        BY <2>3, <3>1
      <4> QED BY <1>4, <4>1, <4>2, <4>3
    <3>2. CASE ~Touches(f, t)
      <4>1. t \in r.skip <=> t \in s.skip
        BY <2>1, <2>2, <3>2
      <4>2. ~Settles(flags, k, k, t)
        BY <2>3, <3>2
      <4>3. \A i \in 1..(k - 1) : Settles(flags, k, i, t) <=> Settles(flags, k - 1, i, t)
        BY <2>4, <3>2
      <4> QED BY <1>1, <1>4, <4>1, <4>2, <4>3
    <3> QED BY <3>1, <3>2
  <2>6. r.skip \subseteq Tests
    BY <1>1, <1>3, <2>1
  <2> QED BY <1>8, <2>1, <2>5, <2>6 DEF Scanned, r
<1> QED BY <1>7, <1>8

LEMMA ScanAll ==
    ASSUME NEW skip \in SUBSET Tests, NEW flags \in Seq(AnyFlag)
    PROVE  Scanned(skip, flags, Len(flags))
<1> DEFINE n == Len(flags)
           Bad == {k \in 0..n : ~Scanned(skip, flags, k)}
           R == OpToRel(<, Nat)
<1>1. n \in Nat
  OBVIOUS
<1>2. Scanned(skip, flags, 0)
  <2>1. ScanUpTo(skip, flags)[0] = [skip |-> skip, on |-> TRUE]
    BY ScanUnfold
  <2>2. 1..0 = {}
    OBVIOUS
  <2> QED BY <2>1, <2>2 DEF Scanned, ReachedBy
<1>3. \A k \in 1..n : Scanned(skip, flags, k - 1) => Scanned(skip, flags, k)
  BY ScanStep
<1> HIDE DEF n
<1>4. Bad = {}
  <2> SUFFICES ASSUME Bad # {} PROVE FALSE
    OBVIOUS
  <2>1. PICK m \in Bad : \A j \in Bad : ~(<<j, m>> \in R)
    <3>1. IsWellFoundedOn(R, Nat)
      BY NatLessThanWellFounded DEF R
    <3>2. Bad \subseteq Nat
      <4>1. Bad \subseteq 0..n
        OBVIOUS
      <4> HIDE DEF Bad
      <4> QED BY <1>1, <4>1
    <3> HIDE DEF Bad, R
    <3> QED BY <3>1, <3>2, WFMin, Zenon
  <2>2. m \in 1..n /\ ~Scanned(skip, flags, m)
    <3>1. m \in 0..n /\ ~Scanned(skip, flags, m)
      OBVIOUS
    <3>2. m # 0
      BY <1>2, <3>1
    <3> QED BY <1>1, <3>1, <3>2
  <2>3. m - 1 \notin Bad
    <3> SUFFICES ASSUME m - 1 \in Bad PROVE FALSE
      OBVIOUS
    <3>1. <<m - 1, m>> \in R
      BY <1>1, <2>2 DEF OpToRel
    <3> QED BY <2>1, <3>1
  <2>4. m - 1 \in 0..n
    BY <1>1, <2>2
  <2>5. Scanned(skip, flags, m - 1)
    BY <2>3, <2>4
  <2> QED BY <1>3, <2>2, <2>5
<1>5. n \in 0..n
  BY <1>1
<1> QED BY <1>4, <1>5 DEF n

(* LaterFlagWins for every registry and every command line: what the        *)
(* selection says of the flags as a whole is what the loop leaves behind.   *)
THEOREM LoopIsTheLastFlag ==
    ASSUME args \in Seq(AnyFlag)
    PROVE  LaterFlagWins
<1> DEFINE n == Len(args)
<1>1. StaticSkip \in SUBSET Tests
  BY RegistryAssumption
<1>2. Scanned(StaticSkip, args, n)
  BY <1>1, ScanAll
<1>3. DOMAIN args = 1..n
  OBVIOUS
<1> HIDE DEF args, n
<1> DEFINE Decides(i, t) ==
              /\ ReachedBy(args, i) /\ Touches(args[i], t)
              /\ \A j \in 1..n : j > i /\ ReachedBy(args, j) => ~Touches(args[j], t)
<1>4. \A i \in 1..n : \A t : Settles(args, n, i, t) <=> Decides(i, t)
  BY DEF Settles
<1>5. SkipAfterFlags(StaticSkip, args) =
        {t \in Tests :
            \/ \E i \in 1..n : Decides(i, t) /\ args[i].flag = "--skip"
            \/ t \in StaticSkip /\ ~ \E i \in 1..n : Decides(i, t)}
  BY <1>3 DEF SkipAfterFlags
<1>6. SequentialSkip(StaticSkip, args) =
        {t \in Tests :
            \/ \E i \in 1..n : Settles(args, n, i, t) /\ args[i].flag = "--skip"
            \/ t \in StaticSkip /\ ~ \E i \in 1..n : Settles(args, n, i, t)}
  BY <1>2 DEF Scanned, SequentialSkip, n
<1> HIDE DEF Decides
<1> QED BY <1>4, <1>5, <1>6 DEF LaterFlagWins
=============================================================================
