--------------------------- MODULE RegistryProofs ---------------------------
(***************************************************************************)
(* What a cycle runs and counts, for every registry and list of flags.      *)
(***************************************************************************)
EXTENDS Registry, FiniteSetTheorems, WellFoundedInduction, TLAPS

(* No flag un-skips what resume skipped.                                    *)
NothingUnskips(fl) ==
    /\ \A i \in DOMAIN fl : fl[i].flag # "--unskip"
    /\ ~Has(fl, "--no-skip")

(* Without --unskip the flags only add to m_skip, whatever it held.         *)
LEMMA SkipFlagsAreMonotone ==
    ASSUME NEW skip, NEW more \in SUBSET Tests, NEW fl, NothingUnskips(fl)
    PROVE  SkipAfterFlags(skip \cup more, fl) = SkipAfterFlags(skip, fl) \cup more
<1> DEFINE Decides(i, t) ==
              /\ ReachedBy(fl, i) /\ Touches(fl[i], t)
              /\ \A j \in DOMAIN fl :
                     j > i /\ ReachedBy(fl, j) => ~Touches(fl[j], t)
<1>1. ASSUME NEW i \in DOMAIN fl, NEW t, Decides(i, t)
      PROVE  fl[i].flag = "--skip"
  BY <1>1 DEF Touches, SkipFlags, NothingUnskips
<1>2. ASSUME NEW s
      PROVE  SkipAfterFlags(s, fl) =
                {t \in Tests : t \in s \/ \E i \in DOMAIN fl : Decides(i, t)}
  <2>1. SkipAfterFlags(s, fl) =
          {t \in Tests :
              \/ \E i \in DOMAIN fl : Decides(i, t) /\ fl[i].flag = "--skip"
              \/ t \in s /\ ~ \E i \in DOMAIN fl : Decides(i, t)}
    BY DEF SkipAfterFlags
  <2> HIDE DEF Decides
  <2> QED BY <1>1, <2>1
<1> HIDE DEF Decides
<1> QED BY <1>2

(* The environment's skips come on top of whatever was skipped.             *)
LEMMA EnvSkipsAreMonotone ==
    ASSUME NEW skip, NEW more, NEW e
    PROVE  SkipAfterEnv(skip \cup more, e) = SkipAfterEnv(skip, e) \cup more
BY DEF SkipAfterEnv

(* A test runs in a resume cycle if it runs with the same flags in a whole  *)
(* one and comes after the resume point.                                    *)
LEMMA RunsAfterResume ==
    ASSUME NEW skip, NEW e, NEW fl, NEW resume, NEW run,
           NothingUnskips(fl),
           resume.kind = "RESUME_AFTER", run.kind # "RESUME_AFTER"
    PROVE  \A t : t \in RunBy(skip, e, resume, fl)
                   <=> /\ t \in RunBy(skip, e, run, fl)
                       /\ \A p \in FirstNamed(resume.name) : t > p
<1> DEFINE before == {t \in Tests : \E p \in FirstNamed(resume.name) : t <= p}
           skipped == SkipForCycle(skip, e, run, fl)
<1>1. SkipForCycle(skip, e, resume, fl) = skipped \cup before
  <2>1. SkipForCycle(skip, e, resume, fl) =
          SkipAfterEnv(SkipAfterFlags(skip \cup before, fl), EnvAfter(e, fl))
    BY DEF SkipForCycle, SkipAfterResume
  <2>2. skipped = SkipAfterEnv(SkipAfterFlags(skip, fl), EnvAfter(e, fl))
    BY DEF SkipForCycle
  <2>3. before \in SUBSET Tests
    OBVIOUS
  <2> HIDE DEF before, skipped
  <2>4. SkipAfterFlags(skip \cup before, fl) = SkipAfterFlags(skip, fl) \cup before
    BY <2>3, SkipFlagsAreMonotone
  <2> QED BY <2>1, <2>2, <2>4, EnvSkipsAreMonotone
<1>2. ~Has(DoctestArgs(fl), "--no-skip")
  BY DEF NothingUnskips, DoctestArgs, Has
<1>3. ASSUME NEW s
      PROVE  DoctestSelects(s \cup before, DoctestArgs(fl)) =
                DoctestSelects(s, DoctestArgs(fl)) \ before
  BY <1>2 DEF DoctestSelects
<1>4. RunBy(skip, e, resume, fl) = RunBy(skip, e, run, fl) \ before
  BY <1>1, <1>3 DEF RunBy
<1>5. RunBy(skip, e, run, fl) \subseteq Tests
  BY DEF RunBy, DoctestSelects
<1>6. ASSUME NEW t \in Tests
      PROVE  t \notin before <=> \A p \in FirstNamed(resume.name) : t > p
  <2>1. Tests \subseteq Int /\ FirstNamed(resume.name) \subseteq Int
    <3>1. N \in Nat
      BY RegistryAssumption
    <3> QED BY <3>1 DEF Tests, FirstNamed
  <2>2. ASSUME NEW p \in FirstNamed(resume.name) PROVE t <= p <=> ~(t > p)
    <3>1. t \in Int /\ p \in Int
      BY <2>1
    <3> QED BY <3>1
  <2> QED BY <2>2
<1> QED BY <1>4, <1>5, <1>6, Zenon

(* A resume cycle runs exactly what a run with the same flags would run,    *)
(* less the resume point and all before it: nothing completed runs again    *)
(* and nothing of the rest is dropped (apply_resume_after() composed with   *)
(* extract_etst_flags(), apply_env_requirements() and doctest's filters).   *)
THEOREM ResumeRunsTheRest ==
    ASSUME NEW skip, NEW e, NEW fl, NEW resume, NEW run,
           NothingUnskips(fl),
           resume.kind = "RESUME_AFTER", run.kind # "RESUME_AFTER"
    PROVE  RunBy(skip, e, resume, fl) =
              {t \in RunBy(skip, e, run, fl) :
                  \A p \in FirstNamed(resume.name) : t > p}
<1>1. \A t : t \in RunBy(skip, e, resume, fl)
                <=> /\ t \in RunBy(skip, e, run, fl)
                    /\ \A p \in FirstNamed(resume.name) : t > p
  BY RunsAfterResume
<1> QED BY <1>1

-----------------------------------------------------------------------------
(* What COUNTS reports.                                                     *)

(* A non-empty set of positions has a last one: by well-foundedness of the  *)
(* distance to the end.                                                     *)
LEMMA LastExists ==
    ASSUME NEW n \in Nat, NEW I \in SUBSET (1..n), I # {}
    PROVE  \E i \in I : \A j \in I : j <= i
<1> DEFINE T == {n - i : i \in I}
           R == OpToRel(<, Nat)
<1>1. T \subseteq Nat /\ T # {}
  <2>1. ASSUME NEW i \in I PROVE n - i \in Nat
    <3>1. i \in 1..n
      OBVIOUS
    <3> QED BY <3>1
  <2>2. PICK k \in I : TRUE
    OBVIOUS
  <2>3. n - k \in T
    OBVIOUS
  <2> QED BY <2>1, <2>3
<1>2. \E x \in T : \A y \in T : ~ (<<y, x>> \in R)
  <2> HIDE DEF T, R
  <2>1. IsWellFoundedOn(R, Nat)
    BY NatLessThanWellFounded DEF R
  <2> QED BY <1>1, <2>1, WFMin, Zenon
<1>3. PICK x \in T : \A y \in T : ~ (<<y, x>> \in R)
  BY <1>2
<1>4. \A y \in T : ~(y < x)
  <2> SUFFICES ASSUME NEW y \in T, y < x PROVE FALSE
    OBVIOUS
  <2>1. <<y, x>> \in R
    BY <1>1 DEF OpToRel
  <2> QED BY <2>1, <1>3
<1>5. PICK i \in I : x = n - i
  OBVIOUS
<1>6. ASSUME NEW j \in I PROVE j <= i
  <2>1. n - j \in T
    OBVIOUS
  <2>2. ~(n - j < n - i)
    BY <2>1, <1>4, <1>5
  <2>3. j \in Int /\ i \in Int
    OBVIOUS
  <2> QED BY <2>2, <2>3
<1> QED BY <1>6

(* Filters of one name name one set of tests.                               *)
AgreesOn(fl, name) ==
    \A i, j \in DOMAIN fl :
        fl[i].flag = name /\ fl[j].flag = name => fl[i].tests = fl[j].tests

(* Then the last of them, which doctest takes, is all of them, which the    *)
(* count takes.                                                             *)
LEMMA LastIsAll ==
    ASSUME NEW S, NEW fl \in Seq(S), NEW name, AgreesOn(fl, name)
    PROVE  LastOf(fl, name) = AllOf(fl, name)
<1> DEFINE I == {i \in DOMAIN fl : fl[i].flag = name}
<1>1. AllOf(fl, name) = UNION {fl[j].tests : j \in I}
  BY DEF AllOf
<1>2. CASE I = {}
  <2>1. LastOf(fl, name) = {}
    BY <1>2 DEF LastOf
  <2> HIDE DEF I
  <2> QED BY <1>1, <1>2, <2>1
<1>3. CASE I # {}
  <2> DEFINE last == CHOOSE i \in I : \A j \in I : j <= i
  <2>1. Len(fl) \in Nat /\ I \subseteq 1..Len(fl)
    OBVIOUS
  <2>2. last \in I
    <3> HIDE DEF I
    <3> QED BY <1>3, <2>1, LastExists
  <2>3. LastOf(fl, name) = fl[last].tests
    BY <1>3 DEF LastOf
  <2>4. ASSUME NEW j \in I PROVE fl[j].tests = fl[last].tests
    BY <2>2 DEF AgreesOn
  <2> HIDE DEF I, last
  <2>5. UNION {fl[j].tests : j \in I} = fl[last].tests
    BY <2>2, <2>4
  <2> QED BY <1>1, <2>3, <2>5
<1> QED BY <1>2, <1>3

(* count_passing_filters() counts exactly what doctest runs, whatever is    *)
(* skipped: when no filter is given twice by one name with different        *)
(* patterns, and nothing but flags excludes tests.                          *)
THEOREM CountIsExact ==
    ASSUME NEW S, NEW fl \in Seq(S), NEW skip, NEW e, NEW msg,
           \A name \in FilterNames : AgreesOn(fl, name), HookExclude = {}
    PROVE  CountBy(skip, e, msg, fl) = Cardinality(RunBy(skip, e, msg, fl))
<1> DEFINE given == DoctestArgs(fl)
           skipped == SkipForCycle(skip, e, msg, fl)
<1>1. \E Q : given \in Seq(Q)
  BY DEF DoctestArgs
<1>2. ASSUME NEW name \in FilterNames PROVE AgreesOn(given, name)
  BY DEF DoctestArgs, AgreesOn
<1> HIDE DEF given
<1>3. ASSUME NEW f \in FilterFlags PROVE Patterns(given, f) = AnyOf(given, f)
  <2>1. f \in FilterNames /\ LongName[f] \in FilterNames
    BY DEF FilterNames
  <2> QED BY <1>1, <1>2, <2>1, LastIsAll DEF Patterns, AnyOf
<1>4. CountSelects(skipped, given) = DoctestSelects(skipped, given)
  <2>1. {"--tc", "--ts", "--tce", "--tse"} = FilterFlags
    BY DEF FilterFlags
  <2> QED BY <1>3, <2>1 DEF CountSelects, DoctestSelects
<1> QED BY <1>4 DEF CountBy, RunBy, given

-----------------------------------------------------------------------------
(* Flags at the end of the list.                                            *)

(* What two flags that neither skip nor set the environment do to it.       *)
LEMMA TwoMoreFlags ==
    ASSUME NEW S, NEW fl \in Seq(S), ~Malformed(fl), NEW x, NEW y,
           x.flag \notin SkipFlags \cup {"--env"},
           y.flag \notin SkipFlags \cup {"--env"},
           NEW skip, NEW e, NEW msg, msg.kind # "RESUME_AFTER",
           NEW msg2, msg2.kind # "RESUME_AFTER"
    PROVE  /\ ~Malformed(fl \o <<x, y>>)
           /\ SkipForCycle(skip, e, msg, fl \o <<x, y>>)
                 = SkipForCycle(skip, e, msg2, fl)
<1> DEFINE more == fl \o <<x, y>>
<1>1. /\ Len(fl) \in Nat /\ DOMAIN fl = 1..Len(fl)
      /\ DOMAIN more = 1..(Len(fl) + 2)
      /\ \A i \in 1..Len(fl) : more[i] = fl[i]
      /\ more[Len(fl) + 1] = x /\ more[Len(fl) + 2] = y
  OBVIOUS
<1>2. MalformedEnv.flag = "--env"
  BY DEF MalformedEnv, FlagOn
<1> HIDE DEF more
<1>3. \A i \in DOMAIN more : i \in DOMAIN fl \/ more[i] = x \/ more[i] = y
  BY <1>1
<1>4. DOMAIN fl \subseteq DOMAIN more
  BY <1>1
<1>5. ~Malformed(more)
  BY <1>1, <1>2, <1>3 DEF Malformed
<1>6. (\A i \in DOMAIN fl : ReachedBy(fl, i))
      /\ (\A i \in DOMAIN more : ReachedBy(more, i))
  BY <1>1, <1>5 DEF ReachedBy, Malformed
<1>7. SkipAfterFlags(skip, more) = SkipAfterFlags(skip, fl)
  <2>1. ASSUME NEW i \in DOMAIN more, NEW t, Touches(more[i], t)
        PROVE  i \in DOMAIN fl /\ Touches(fl[i], t)
    BY <1>1, <1>3, <2>1 DEF Touches
  <2>2. ASSUME NEW i \in DOMAIN fl, NEW t
        PROVE  Touches(more[i], t) <=> Touches(fl[i], t)
    BY <1>1 DEF Touches
  <2> DEFINE DecidesFl(i, t) ==
                 /\ ReachedBy(fl, i) /\ Touches(fl[i], t)
                 /\ \A j \in DOMAIN fl :
                        j > i /\ ReachedBy(fl, j) => ~Touches(fl[j], t)
             DecidesMore(i, t) ==
                 /\ ReachedBy(more, i) /\ Touches(more[i], t)
                 /\ \A j \in DOMAIN more :
                        j > i /\ ReachedBy(more, j) => ~Touches(more[j], t)
  <2>3. ASSUME NEW t, NEW i \in DOMAIN fl
        PROVE  DecidesFl(i, t) <=> DecidesMore(i, t)
    BY <1>4, <1>6, <2>1, <2>2
  <2>4. ASSUME NEW t, NEW i \in DOMAIN more, DecidesMore(i, t)
        PROVE  i \in DOMAIN fl
    BY <2>1, <2>4
  <2>5. /\ SkipAfterFlags(skip, fl) =
             {t \in Tests :
                 \/ \E i \in DOMAIN fl : DecidesFl(i, t) /\ fl[i].flag = "--skip"
                 \/ t \in skip /\ ~ \E i \in DOMAIN fl : DecidesFl(i, t)}
        /\ SkipAfterFlags(skip, more) =
             {t \in Tests :
                 \/ \E i \in DOMAIN more :
                        DecidesMore(i, t) /\ more[i].flag = "--skip"
                 \/ t \in skip /\ ~ \E i \in DOMAIN more : DecidesMore(i, t)}
    BY DEF SkipAfterFlags
  <2> HIDE DEF DecidesFl, DecidesMore
  <2> QED BY <1>1, <1>4, <2>3, <2>4, <2>5
<1>8. EnvAfter(e, more) = EnvAfter(e, fl)
  <2> DEFINE SetsFl(i, k) == /\ ReachedBy(fl, i)
                             /\ fl[i].flag = "--env" /\ fl[i].key = k
             SetsMore(i, k) == /\ ReachedBy(more, i)
                               /\ more[i].flag = "--env" /\ more[i].key = k
             LastFl(k) == {i \in DOMAIN fl :
                              SetsFl(i, k) /\ \A j \in DOMAIN fl :
                                                  j > i => ~SetsFl(j, k)}
             LastMore(k) == {i \in DOMAIN more :
                              SetsMore(i, k) /\ \A j \in DOMAIN more :
                                                  j > i => ~SetsMore(j, k)}
  <2>1. ASSUME NEW k, NEW i \in DOMAIN fl PROVE SetsFl(i, k) <=> SetsMore(i, k)
    BY <1>1, <1>4, <1>6
  <2>2. ASSUME NEW k, NEW i \in DOMAIN more, SetsMore(i, k) PROVE i \in DOMAIN fl
    BY <1>3, <2>2
  <2>3. /\ EnvAfter(e, fl) = [k \in Keys |->
               IF LastFl(k) = {} THEN e[k] ELSE fl[CHOOSE i \in LastFl(k) : TRUE].val]
        /\ EnvAfter(e, more) = [k \in Keys |->
               IF LastMore(k) = {} THEN e[k]
               ELSE more[CHOOSE i \in LastMore(k) : TRUE].val]
    BY DEF EnvAfter
  <2> HIDE DEF SetsFl, SetsMore
  <2>4. ASSUME NEW k PROVE LastMore(k) = LastFl(k)
    BY <1>4, <2>1, <2>2
  <2>5. ASSUME NEW k, LastFl(k) # {}
        PROVE  more[CHOOSE i \in LastFl(k) : TRUE] = fl[CHOOSE i \in LastFl(k) : TRUE]
    BY <1>1, <2>5
  <2> HIDE DEF LastFl, LastMore
  <2> QED BY <2>3, <2>4, <2>5
<1> QED BY <1>5, <1>7, <1>8 DEF SkipForCycle, more

(* A --tc at the end of the list replaces those before it and leaves the    *)
(* flags of other names as they are.                                        *)
LEMMA LastPatternWins ==
    ASSUME NEW S, NEW fl \in Seq(S), NEW x, NEW y, x.flag = "--wake",
           y.flag = "--tc"
    PROVE  /\ LastOf(fl \o <<x, y>>, "--tc") = y.tests
           /\ Has(fl \o <<x, y>>, "--tc")
           /\ \A name : name \notin {"--wake", "--tc"} =>
                  /\ LastOf(fl \o <<x, y>>, name) = LastOf(fl, name)
                  /\ Has(fl \o <<x, y>>, name) <=> Has(fl, name)
<1> DEFINE more == fl \o <<x, y>>
           n == Len(fl) + 2
<1>1. /\ Len(fl) \in Nat /\ DOMAIN fl = 1..Len(fl) /\ DOMAIN more = 1..n
      /\ \A i \in 1..Len(fl) : more[i] = fl[i]
      /\ more[Len(fl) + 1] = x /\ more[n] = y
  OBVIOUS
<1>2. n \in DOMAIN more /\ (\A i \in DOMAIN more : i <= n)
      /\ DOMAIN more \subseteq Int
  BY <1>1
<1>3. DOMAIN fl \subseteq DOMAIN more
      /\ (\A i \in DOMAIN more : i \in DOMAIN fl \/ more[i] = x \/ more[i] = y)
  BY <1>1
<1> HIDE DEF more, n
<1>4. LastOf(more, "--tc") = y.tests /\ Has(more, "--tc")
  <2> DEFINE I == {i \in DOMAIN more : more[i].flag = "--tc"}
             last == CHOOSE i \in I : \A j \in I : j <= i
  <2>1. n \in I /\ (\A j \in I : j <= n) /\ I \subseteq Int
    BY <1>1, <1>2
  <2>2. LastOf(more, "--tc") = more[last].tests
    BY <2>1 DEF LastOf
  <2>3. Has(more, "--tc")
    BY <2>1 DEF Has
  <2> HIDE DEF I
  <2>4. last \in I /\ \A j \in I : j <= last
    BY <2>1
  <2> HIDE DEF last
  <2>5. last = n
    BY <2>1, <2>4
  <2> QED BY <1>1, <2>2, <2>3, <2>5
<1>5. ASSUME NEW name, name \notin {"--wake", "--tc"}
      PROVE  LastOf(more, name) = LastOf(fl, name)
  <2> DEFINE I == {i \in DOMAIN fl : fl[i].flag = name}
             J == {i \in DOMAIN more : more[i].flag = name}
  <2>1. J = I
    BY <1>1, <1>3, <1>5
  <2>2. LastOf(more, name) =
          (IF I = {} THEN {}
           ELSE more[CHOOSE i \in I : \A j \in I : j <= i].tests)
    <3>1. LastOf(more, name) =
            (IF J = {} THEN {}
             ELSE more[CHOOSE i \in J : \A j \in J : j <= i].tests)
      BY DEF LastOf
    <3> HIDE DEF I, J
    <3> QED BY <2>1, <3>1
  <2>3. LastOf(fl, name) =
          (IF I = {} THEN {}
           ELSE fl[CHOOSE i \in I : \A j \in I : j <= i].tests)
    BY DEF LastOf
  <2>4. CASE I # {}
    <3>1. (CHOOSE i \in I : \A j \in I : j <= i) \in I
      <4>1. Len(fl) \in Nat /\ I \subseteq 1..Len(fl)
        BY <1>1
      <4> HIDE DEF I
      <4> QED BY <2>4, <4>1, LastExists
    <3> QED BY <1>1, <2>2, <2>3, <3>1
  <2> QED BY <2>2, <2>3, <2>4
<1>6. ASSUME NEW name, name \notin {"--wake", "--tc"}
      PROVE  Has(more, name) <=> Has(fl, name)
  BY <1>1, <1>3, <1>6 DEF Has
<1> QED BY <1>4, <1>5, <1>6 DEF more

(* A test that the arguments let run is run by them with --wake and its own *)
(* pattern behind; nothing outside that pattern is, unless the arguments    *)
(* have the long form, which doctest adds; and nothing more is skipped.     *)
THEOREM LastPatternRuns ==
    ASSUME NEW S, NEW fl \in Seq(S), ~Malformed(fl), NEW x, NEW y,
           x.flag = "--wake", y.flag = "--tc", NEW skip, NEW e,
           NEW msg, msg.kind # "RESUME_AFTER",
           NEW msg2, msg2.kind # "RESUME_AFTER"
    PROVE  /\ y.tests \cap RunBy(skip, e, msg2, fl)
                  \subseteq RunBy(skip, e, msg, fl \o <<x, y>>)
           /\ ~Has(fl, "--test-case") =>
                  RunBy(skip, e, msg, fl \o <<x, y>>) \subseteq y.tests
           /\ \A t : t \in SkipForCycle(skip, e, msg, fl \o <<x, y>>)
                       <=> t \in SkipForCycle(skip, e, msg2, fl)
<1> DEFINE more == fl \o <<x, y>>
           skipped == SkipForCycle(skip, e, msg2, fl)
<1>1. ~Malformed(more) /\ SkipForCycle(skip, e, msg, more) = skipped
  <2>1. x.flag \notin SkipFlags \cup {"--env"}
        /\ y.flag \notin SkipFlags \cup {"--env"}
    BY DEF SkipFlags
  <2> HIDE DEF more, skipped
  <2> QED BY <2>1, TwoMoreFlags DEF more, skipped
<1>2. /\ LastOf(more, "--tc") = y.tests /\ Has(more, "--tc")
      /\ LastOf(more, "--test-case") = LastOf(fl, "--test-case")
  BY LastPatternWins
<1>3. ASSUME NEW name, name \notin {"--wake", "--tc"}
      PROVE  LastOf(more, name) = LastOf(fl, name)
             /\ (Has(more, name) <=> Has(fl, name))
  BY <1>3, LastPatternWins
<1> HIDE DEF more, skipped
<1>4. /\ LongName["--tc"] = "--test-case" /\ LongName["--ts"] = "--test-suite"
      /\ LongName["--tce"] = "--test-case-exclude"
      /\ LongName["--tse"] = "--test-suite-exclude"
  BY DEF LongName, FilterFlags
<1>5. /\ Given(more, "--tc")
      /\ Patterns(more, "--tc") = y.tests \cup LastOf(fl, "--test-case")
  BY <1>2, <1>4 DEF Given, Patterns
<1>6. ASSUME NEW f \in {"--ts", "--tce", "--tse"}
      PROVE  (Given(more, f) <=> Given(fl, f)) /\ Patterns(more, f) = Patterns(fl, f)
  BY <1>3, <1>4 DEF Given, Patterns
<1>7. Has(more, "--no-skip") <=> Has(fl, "--no-skip")
  BY <1>3
<1>8. /\ RunBy(skip, e, msg, more) = DoctestSelects(skipped, more)
      /\ RunBy(skip, e, msg2, fl) = DoctestSelects(skipped, fl)
  BY <1>1 DEF RunBy, DoctestArgs, skipped
<1>9. y.tests \cap DoctestSelects(skipped, fl) \subseteq DoctestSelects(skipped, more)
  BY <1>5, <1>6, <1>7 DEF DoctestSelects
<1>10. ~Has(fl, "--test-case") => DoctestSelects(skipped, more) \subseteq y.tests
  <2>1. ~Has(fl, "--test-case") => LastOf(fl, "--test-case") = {}
    BY DEF Has, LastOf
  <2> QED BY <1>5, <2>1 DEF DoctestSelects
<1> QED BY <1>1, <1>8, <1>9, <1>10 DEF more, skipped
=============================================================================
