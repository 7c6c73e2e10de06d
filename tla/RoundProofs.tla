---------------------------- MODULE RoundProofs ----------------------------
(***************************************************************************)
(* That RoundsInv is inductive, for every registry, every number of tests   *)
(* and sessions, a port lost at any moment, tests that oversleep and host   *)
(* lines that arrive damaged; and what follows from it: phases are not      *)
(* confused, naps are bounded, and no ended test is started again.          *)
(*                                                                          *)
(* RoundsAssumed and MildFaults name what the code needs for that; a single *)
(* step needs only to be Steady.  The module first collects facts about     *)
(* lists of lines and about the commands the host builds, then takes the    *)
(* steps of the board, of the host and of the faults one by one, each       *)
(* against the parts of RoundsInv it can disturb.                           *)
(***************************************************************************)
EXTENDS SessionProofs, RegistryProofs

-----------------------------------------------------------------------------
(* What a list of lines says when a line is added or taken.                 *)

LEMMA LastIndex ==
    \A n \in Nat : \A i \in 1..n : n \in 1..n /\ (i = n \/ i < n)
OBVIOUS

LEMMA UpToNat == \A m \in Nat : 0..m \subseteq Nat
OBVIOUS

LEMMA NothingSaid ==
    /\ \A tag : ~Says(<<>>, tag)
    /\ AllReady(<<>>) /\ ReadyLast(<<>>) /\ Clean(<<>>) /\ AllOfRun(<<>>)
    /\ ~SaysSleep(<<>>) /\ InOrder(<<>>)
    /\ \A n, t : NamedBy(n, <<>>, t) <=> n = NameOf[t]
BY DEF Says, AllReady, ReadyLast, Clean, AllOfRun, SaysSleep, InOrder, NamedBy

LEMMA OneMoreLine ==
    ASSUME NEW S, NEW s \in Seq(S), NEW ln \in S
    PROVE  LET more == s \o <<ln>>
           IN  /\ Len(more) = Len(s) + 1 /\ more \in Seq(S) /\ more # <<>>
               /\ DOMAIN more = 1..(Len(s) + 1) /\ DOMAIN s = 1..Len(s)
               /\ Len(s) \in Nat
               /\ \A i \in 1..Len(s) : more[i] = s[i]
               /\ more[Len(s) + 1] = ln
               /\ Head(more) = IF s = <<>> THEN ln ELSE Head(s)
OBVIOUS

LEMMA Adds ==
    ASSUME NEW S, NEW s \in Seq(S), NEW ln \in S
    PROVE  LET more == s \o <<ln>>
           IN  /\ \A tag : Says(more, tag) <=> Says(s, tag) \/ ln.tag = tag
               /\ AllReady(more) <=> AllReady(s) /\ ln.tag = "READY"
               /\ ~Says(s, "READY") => ReadyLast(more)
               /\ Clean(s) /\ ln.crc # "bad" /\ ln.tag # "CRASH" => Clean(more)
               /\ AllOfRun(more) <=> AllOfRun(s) /\ ln.tag \in RunTags
               /\ SaysSleep(more) <=> SaysSleep(s) \/ ln.tag \in SleepTags
<1> DEFINE more == s \o <<ln>>
<1>1. /\ DOMAIN more = 1..(Len(s) + 1) /\ DOMAIN s = 1..Len(s) /\ Len(s) \in Nat
      /\ Len(more) = Len(s) + 1
      /\ \A i \in 1..Len(s) : more[i] = s[i]
      /\ more[Len(s) + 1] = ln
  BY OneMoreLine
<1> HIDE DEF more
<1>2. \A tag : Says(more, tag) <=> Says(s, tag) \/ ln.tag = tag
  BY <1>1 DEF Says
<1>3. AllReady(more) <=> AllReady(s) /\ ln.tag = "READY"
  BY <1>1 DEF AllReady
<1>4. ~Says(s, "READY") => ReadyLast(more)
  BY <1>1 DEF Says, ReadyLast
<1>5. Clean(s) /\ ln.crc # "bad" /\ ln.tag # "CRASH" => Clean(more)
  BY <1>1 DEF Clean
<1>6. AllOfRun(more) <=> AllOfRun(s) /\ ln.tag \in RunTags
  BY <1>1 DEF AllOfRun
<1>7. SaysSleep(more) <=> SaysSleep(s) \/ ln.tag \in SleepTags
  BY <1>1 DEF SaysSleep
<1> QED BY <1>2, <1>3, <1>4, <1>5, <1>6, <1>7 DEF more

(* A run says more of itself, ends with a sleep or with DONE, and only DONE *)
(* or silence comes before a READY.                                         *)
LEMMA AddsInOrder ==
    ASSUME NEW S, NEW s \in Seq(S), NEW ln \in S, InOrder(s),
           \/ AllOfRun(s) /\ ln.tag \in RunTags \cup SleepTags \cup {"DONE"}
           \/ /\ ln.tag = "READY" /\ ~Says(s, "READY")
              /\ s = <<>> \/ Says(s, "DONE")
    PROVE  InOrder(s \o <<ln>>)
<1> DEFINE more == s \o <<ln>>
<1>1. /\ DOMAIN more = 1..(Len(s) + 1) /\ DOMAIN s = 1..Len(s) /\ Len(s) \in Nat
      /\ Len(more) = Len(s) + 1
      /\ \A i \in 1..Len(s) : more[i] = s[i]
      /\ more[Len(s) + 1] = ln
  BY OneMoreLine
<1> HIDE DEF more
<1>2. CASE AllOfRun(s) /\ ln.tag \in RunTags \cup SleepTags \cup {"DONE"}
  <2>1. \A i \in DOMAIN more : more[i].tag \in RunTags \/ i = Len(more)
    BY <1>1, <1>2 DEF AllOfRun
  <2> QED BY <1>1, <1>2, <2>1 DEF InOrder
<1>3. CASE s = <<>> /\ ln.tag = "READY"
  <2>1. DOMAIN more = {1} /\ more[1] = ln /\ Len(more) = 1
    <3>1. Len(s) = 0
      BY <1>3
    <3> QED BY <1>1, <3>1
  <2> QED BY <1>3, <2>1 DEF InOrder
<1>4. CASE ln.tag = "READY" /\ ~Says(s, "READY") /\ Says(s, "DONE")
  <2>1. PICK k \in 1..Len(s) : s[k].tag = "DONE"
    BY <1>1, <1>4 DEF Says
  <2>2. \A i \in 1..Len(s) : s[i].tag # "READY"
    BY <1>1, <1>4 DEF Says
  <2>3. k = Len(s) /\ Len(s) \in 1..Len(s)
    <3>1. \A j \in 1..Len(s) : j > k => s[j].tag = "READY"
      BY <1>1, <2>1 DEF InOrder, RunTags, SleepTags
    <3>2. Len(s) \in 1..Len(s) /\ (k = Len(s) \/ k < Len(s))
      BY <1>1, LastIndex
    <3> QED BY <2>2, <3>1, <3>2
  <2>4. ASSUME NEW i \in 1..Len(s) PROVE s[i].tag \in RunTags \/ i = Len(s)
    <3>1. \/ s[i].tag \in RunTags
          \/ i = Len(s)
          \/ \A j \in 1..Len(s) : j > i => s[j].tag = "READY"
      BY <1>1, <2>2 DEF InOrder
    <3>2. i = Len(s) \/ i < Len(s)
      BY <1>1, LastIndex
    <3> QED BY <2>2, <2>3, <3>1, <3>2
  <2>5. more[Len(s)].tag = "DONE" /\ Len(s) \in DOMAIN more
        /\ Len(s) < Len(more) /\ Len(more) \in Nat
    BY <1>1, <2>1, <2>3
  <2>6. Says(more, "DONE")
    BY <2>5 DEF Says
  <2>7. ASSUME NEW i \in DOMAIN more
        PROVE  \/ more[i].tag \in RunTags
               \/ i = Len(s) /\ more[i].tag = "DONE"
               \/ i = Len(more) /\ more[i].tag = "READY"
    <3>1. i \in 1..Len(s) \/ i = Len(s) + 1
      BY <1>1, <2>7
    <3> QED BY <1>1, <1>4, <2>4, <2>5, <3>1
  <2>8. ASSUME NEW j \in DOMAIN more, j > Len(s) PROVE more[j].tag = "READY"
    BY <1>1, <1>4, <2>8
  <2>9. ASSUME NEW i \in DOMAIN more
        PROVE  \/ more[i].tag \in RunTags
               \/ /\ more[i].tag = "DONE"
                  /\ \A j \in DOMAIN more : j > i => more[j].tag = "READY"
               \/ more[i].tag = "READY" /\ i = Len(more) /\ Says(more, "DONE")
    BY <2>6, <2>7, <2>8
  <2>10. InOrder(more)
    BY <2>9 DEF InOrder
  <2> QED BY <2>10 DEF more
<1> QED BY <1>2, <1>3, <1>4 DEF more

LEMMA AddsName ==
    ASSUME NEW S, NEW s \in Seq(S), NEW ln \in S, NEW n, NEW t
    PROVE  LET more == s \o <<ln>>
           IN  /\ ln.tag # "CASE:START" /\ NamedBy(n, s, t) => NamedBy(n, more, t)
               /\ ln.tag = "CASE:START" /\ ln.name = NameOf[t] => NamedBy(n, more, t)
<1> DEFINE more == s \o <<ln>>
<1>1. /\ DOMAIN more = 1..(Len(s) + 1) /\ DOMAIN s = 1..Len(s) /\ Len(s) \in Nat
      /\ Len(more) = Len(s) + 1
      /\ \A i \in 1..Len(s) : more[i] = s[i]
      /\ more[Len(s) + 1] = ln
  BY OneMoreLine
<1> HIDE DEF more
<1> QED BY <1>1 DEF NamedBy, Says, more

(* Taking the first line.                                                   *)
LEMMA OneLineLess ==
    ASSUME NEW S, NEW s \in Seq(S), s # <<>>
    PROVE  /\ Tail(s) \in Seq(S) /\ Head(s) \in S /\ Head(s) = s[1]
           /\ Len(s) \in Nat \ {0} /\ DOMAIN s = 1..Len(s)
           /\ Len(Tail(s)) = Len(s) - 1 /\ DOMAIN Tail(s) = 1..(Len(s) - 1)
           /\ \A i \in 1..(Len(s) - 1) : Tail(s)[i] = s[i + 1]
           /\ Tail(s) # <<>> => Head(Tail(s)) = s[2] /\ 2 \in 1..Len(s)
OBVIOUS

LEMMA Shifted ==
    ASSUME NEW n \in Nat
    PROVE  /\ \A i \in 1..n : i = 1 \/ i - 1 \in 1..(n - 1)
           /\ \A i \in 1..(n - 1) : i + 1 \in 1..n /\ i + 1 # 1 /\ (i + 1) - 1 = i
           /\ \A i \in 1..n : (i - 1) + 1 = i
           /\ n # 0 => 1 \in 1..n
OBVIOUS

LEMMA Takes ==
    ASSUME NEW S, NEW s \in Seq(S), s # <<>>
    PROVE  LET ln == Head(s)
               rest == Tail(s)
           IN  /\ \A tag : Says(s, tag) <=> ln.tag = tag \/ Says(rest, tag)
               /\ AllReady(s) => ln.tag = "READY" /\ AllReady(rest)
               /\ ReadyLast(s) => ReadyLast(rest)
               /\ ReadyLast(s) /\ ln.tag = "READY" => rest = <<>>
               /\ Clean(s) => ln.crc # "bad" /\ ln.tag # "CRASH" /\ Clean(rest)
               /\ AllOfRun(s) <=> ln.tag \in RunTags /\ AllOfRun(rest)
               /\ SaysSleep(s) <=> ln.tag \in SleepTags \/ SaysSleep(rest)
<1> DEFINE ln == Head(s)
           rest == Tail(s)
           n == Len(s)
<1>1. /\ ln = s[1] /\ n \in Nat /\ n # 0 /\ DOMAIN s = 1..n
      /\ DOMAIN rest = 1..(n - 1)
      /\ \A i \in 1..(n - 1) : rest[i] = s[i + 1]
      /\ Len(rest) = n - 1 /\ rest \in Seq(S)
  BY OneLineLess
<1>2. /\ \A i \in 1..n : i = 1 \/ i - 1 \in 1..(n - 1)
      /\ \A i \in 1..(n - 1) : i + 1 \in 1..n /\ i + 1 # 1
      /\ \A i \in 1..n : (i - 1) + 1 = i
      /\ 1 \in 1..n
  BY <1>1, Shifted
<1> HIDE DEF ln, rest, n
(* A property of the lines of s is one of ln and one of the lines of rest.  *)
<1>3. ASSUME NEW i \in DOMAIN s PROVE s[i] = ln \/ \E j \in DOMAIN rest : s[i] = rest[j]
  <2>1. CASE i = 1
    BY <1>1, <2>1
  <2>2. CASE i - 1 \in 1..(n - 1)
    <3>1. rest[i - 1] = s[(i - 1) + 1] /\ (i - 1) + 1 = i
      BY <1>1, <1>2, <2>2
    <3> QED BY <1>1, <2>2, <3>1
  <2> QED BY <1>1, <1>2, <2>1, <2>2
<1>4. ASSUME NEW j \in DOMAIN rest PROVE \E i \in DOMAIN s : rest[j] = s[i]
  BY <1>1, <1>2
<1>5. 1 \in DOMAIN s /\ s[1] = ln
  BY <1>1, <1>2
<1>6. \A tag : Says(s, tag) <=> ln.tag = tag \/ Says(rest, tag)
  BY <1>3, <1>4, <1>5 DEF Says
<1>7. AllReady(s) => ln.tag = "READY" /\ AllReady(rest)
  BY <1>4, <1>5 DEF AllReady
<1>8. ASSUME ReadyLast(s) PROVE ReadyLast(rest)
  <2>1. ASSUME NEW i \in 1..(n - 1), rest[i].tag = "READY" PROVE i = n - 1
    <3>1. i + 1 \in DOMAIN s /\ s[i + 1].tag = "READY"
      BY <1>1, <1>2, <2>1
    <3>2. i + 1 = n
      BY <1>8, <3>1 DEF ReadyLast, n
    <3> QED BY <1>1, <3>2
  <2> QED BY <1>1, <2>1 DEF ReadyLast
<1>9. ReadyLast(s) /\ ln.tag = "READY" => rest = <<>>
  <2>1. ASSUME ReadyLast(s), ln.tag = "READY" PROVE rest = <<>>
    <3>1. n = 1
      BY <1>1, <1>5, <2>1 DEF ReadyLast, n
    <3> QED BY <1>1, <3>1, EmptySeq
  <2> QED BY <2>1
<1>10. Clean(s) => ln.crc # "bad" /\ ln.tag # "CRASH" /\ Clean(rest)
  BY <1>4, <1>5 DEF Clean
<1>11. AllOfRun(s) <=> ln.tag \in RunTags /\ AllOfRun(rest)
  BY <1>3, <1>4, <1>5 DEF AllOfRun
<1>12. SaysSleep(s) <=> ln.tag \in SleepTags \/ SaysSleep(rest)
  BY <1>3, <1>4, <1>5 DEF SaysSleep
<1> QED BY <1>6, <1>7, <1>8, <1>9, <1>10, <1>11, <1>12 DEF ln, rest

LEMMA TakesInOrder ==
    ASSUME NEW S, NEW s \in Seq(S), s # <<>>, InOrder(s)
    PROVE  LET ln == Head(s)
               rest == Tail(s)
           IN  /\ InOrder(rest)
               /\ ln.tag \in RunTags \cup SleepTags \cup {"DONE", "READY"}
               /\ ln.tag \in SleepTags \cup {"READY"} => rest = <<>>
               /\ ln.tag = "DONE" => AllReady(rest)
               /\ ln.tag # "DONE" /\ rest # <<>> => Head(rest).tag # "READY"
<1> DEFINE ln == Head(s)
           rest == Tail(s)
           n == Len(s)
<1>1. /\ ln = s[1] /\ n \in Nat /\ n # 0 /\ DOMAIN s = 1..n
      /\ DOMAIN rest = 1..(n - 1)
      /\ \A i \in 1..(n - 1) : rest[i] = s[i + 1]
      /\ Len(rest) = n - 1 /\ rest \in Seq(S)
      /\ rest # <<>> => Head(rest) = s[2] /\ 2 \in 1..n
  BY OneLineLess
<1>2. /\ \A i \in 1..n : i = 1 \/ i - 1 \in 1..(n - 1)
      /\ \A i \in 1..(n - 1) : i + 1 \in 1..n /\ i + 1 # 1
      /\ \A i \in 1..n : (i - 1) + 1 = i
      /\ 1 \in 1..n
  BY <1>1, Shifted
<1> HIDE DEF ln, rest
<1>3. ln.tag \in RunTags \cup SleepTags \cup {"DONE", "READY"}
  BY <1>1, <1>2 DEF InOrder
<1>4. ln.tag \in SleepTags \cup {"READY"} => rest = <<>>
  <2>1. ASSUME ln.tag \in SleepTags \cup {"READY"} PROVE n = 1
    BY <1>1, <1>2, <2>1 DEF InOrder, RunTags, SleepTags
  <2> QED BY <1>1, <2>1, EmptySeq
<1>5. ASSUME ln.tag = "DONE" PROVE AllReady(rest)
  <2>1. \A j \in 1..n : j > 1 => s[j].tag = "READY"
    BY <1>1, <1>2, <1>5 DEF InOrder, RunTags, SleepTags
  <2> QED BY <1>1, <1>2, <2>1 DEF AllReady
<1>6. \A i, j \in 1..(n - 1) : (j > i) <=> (j + 1 > i + 1)
  BY <1>1
<1>7. Says(s, "DONE") => ln.tag = "DONE" \/ Says(rest, "DONE")
  BY Takes DEF ln, rest
<1>8. ASSUME NEW i \in DOMAIN rest, rest[i].tag = "READY"
      PROVE  i = Len(rest) /\ (ln.tag = "DONE" \/ Says(rest, "DONE"))
  <2>1. s[i + 1].tag = "READY" /\ i + 1 \in DOMAIN s /\ i + 1 # 1 /\ i \in 1..(n-1)
    BY <1>1, <1>2, <1>8
  <2>2. i + 1 = n /\ Says(s, "DONE")
    BY <2>1 DEF InOrder, RunTags, SleepTags
  <2>3. i = n - 1
    BY <1>1, <2>1, <2>2
  <2> QED BY <1>1, <1>7, <2>2, <2>3
<1>9. ASSUME ln.tag = "DONE", rest # <<>> PROVE Len(rest) = 1
  <2>1. AllReady(rest) /\ Len(rest) \in DOMAIN rest /\ 1 \in DOMAIN rest
    BY <1>1, <1>5, <1>9, EmptySeq
  <2> QED BY <1>8, <2>1 DEF AllReady
<1>10. InOrder(rest)
  <2> SUFFICES ASSUME NEW i \in DOMAIN rest
               PROVE  \/ rest[i].tag \in RunTags
                      \/ rest[i].tag \in SleepTags /\ i = Len(rest)
                      \/ /\ rest[i].tag = "DONE"
                         /\ \A j \in DOMAIN rest : j > i => rest[j].tag = "READY"
                      \/ /\ rest[i].tag = "READY" /\ i = Len(rest)
                         /\ i = 1 \/ Says(rest, "DONE")
    BY DEF InOrder
  <2>1. rest[i] = s[i + 1] /\ i + 1 \in DOMAIN s /\ i \in 1..(n - 1)
    BY <1>1, <1>2
  <2>2. CASE rest[i].tag \in SleepTags
    <3>1. i + 1 = n
      BY <2>1, <2>2 DEF InOrder, RunTags, SleepTags
    <3>2. i = n - 1
      BY <1>1, <2>1, <3>1
    <3> QED BY <1>1, <2>2, <3>2
  <2>3. CASE rest[i].tag = "DONE"
    <3>1. \A j \in DOMAIN s : j > i + 1 => s[j].tag = "READY"
      BY <2>1, <2>3 DEF InOrder, RunTags, SleepTags
    <3> QED BY <1>1, <1>2, <1>6, <2>1, <2>3, <3>1
  <2>4. CASE rest[i].tag = "READY"
    <3>1. i = Len(rest) /\ (ln.tag = "DONE" \/ Says(rest, "DONE"))
      BY <1>8, <2>4
    <3>2. rest # <<>>
      BY EmptySeq
    <3> QED BY <1>9, <2>4, <3>1, <3>2
  <2> QED BY <2>1, <2>2, <2>3, <2>4 DEF InOrder
<1>11. ASSUME ln.tag # "DONE", rest # <<>> PROVE Head(rest).tag # "READY"
  <2>1. SUFFICES ASSUME s[2].tag = "READY", 2 \in DOMAIN s PROVE FALSE
    BY <1>1, <1>11
  <2>2. n = 2 /\ Says(s, "DONE")
    BY <1>1, <2>1 DEF InOrder, RunTags, SleepTags
  <2>3. PICK k \in 1..2 : s[k].tag = "DONE"
    BY <1>1, <2>2 DEF Says
  <2>4. k = 1 \/ k = 2
    BY <2>3
  <2> QED BY <1>1, <1>11, <2>1, <2>3, <2>4
<1> QED BY <1>3, <1>4, <1>5, <1>10, <1>11 DEF ln, rest

LEMMA TakesName ==
    ASSUME NEW S, NEW s \in Seq(S), s # <<>>, NEW n, NEW t, NamedBy(n, s, t)
    PROVE  LET ln == Head(s)
           IN  /\ ln.tag # "CASE:START" => NamedBy(n, Tail(s), t)
               /\ ln.tag = "CASE:START" => NamedBy(ln.name, Tail(s), t)
<1> DEFINE ln == Head(s)
           rest == Tail(s)
           m == Len(s)
<1>1. /\ ln = s[1] /\ m \in Nat /\ m # 0 /\ DOMAIN s = 1..m
      /\ DOMAIN rest = 1..(m - 1)
      /\ \A i \in 1..(m - 1) : rest[i] = s[i + 1]
  BY OneLineLess
<1>2. /\ \A i \in 1..m : i = 1 \/ i - 1 \in 1..(m - 1)
      /\ \A i \in 1..(m - 1) : i + 1 \in 1..m /\ i + 1 # 1
      /\ \A i \in 1..m : (i - 1) + 1 = i
      /\ 1 \in 1..m
  BY <1>1, Shifted
<1>3. Says(s, "CASE:START") <=> ln.tag = "CASE:START" \/ Says(rest, "CASE:START")
  BY Takes
<1>4. \A i \in 2..m, j \in 1..(m - 1) : j > i - 1 => j + 1 > i
  BY <1>1
<1>5. \A i \in 1..(m - 1) : i + 1 > 1
  BY <1>1
<1>6. \A i \in 1..m : i # 1 => i \in 2..m
  BY <1>1
<1> HIDE DEF ln, rest, m
<1>7. CASE n = NameOf[t] /\ ~Says(s, "CASE:START")
  BY <1>3, <1>7 DEF NamedBy, rest, ln
<1>8. CASE \E i \in DOMAIN s :
              /\ s[i].tag = "CASE:START" /\ s[i].name = NameOf[t]
              /\ \A j \in DOMAIN s : j > i => s[j].tag # "CASE:START"
  <2>1. PICK i \in 1..m :
              /\ s[i].tag = "CASE:START" /\ s[i].name = NameOf[t]
              /\ \A j \in 1..m : j > i => s[j].tag # "CASE:START"
    BY <1>1, <1>8
  <2>2. CASE i = 1
    <3>1. \A j \in DOMAIN rest : rest[j].tag # "CASE:START"
      BY <1>1, <1>2, <1>5, <2>1, <2>2
    <3>2. ~Says(rest, "CASE:START")
      BY <3>1 DEF Says
    <3> QED BY <1>1, <2>1, <2>2, <3>2 DEF NamedBy, rest, ln
  <2>3. CASE i # 1
    <3>1. i - 1 \in DOMAIN rest /\ rest[i - 1] = s[i]
      BY <1>1, <1>2, <2>3
    <3>2. \A j \in DOMAIN rest : j > i - 1 => rest[j].tag # "CASE:START"
      BY <1>1, <1>2, <1>4, <1>6, <2>1, <2>3
    <3> QED BY <2>1, <3>1, <3>2 DEF NamedBy, rest, ln
  <2> QED BY <2>2, <2>3
<1> QED BY <1>7, <1>8 DEF NamedBy

(* Reading and losing lines.                                                *)
LEMMA Skipped ==
    ASSUME NEW n \in Nat, NEW k \in 0..n
    PROVE  \A i \in 1..(n - k) : k + i \in 1..n /\ (k + i = n => i = n - k)
OBVIOUS

LEMMA Longer ==
    ASSUME NEW n \in Nat, NEW l \in Nat
    PROVE  /\ n <= n + l /\ \A i \in 1..n : i \in 1..(n + l)
           /\ \A i \in 1..n : i = n + l => i = n
OBVIOUS

LEMMA Suffix ==
    ASSUME NEW S, NEW s \in Seq(S), NEW k \in 0..Len(s)
    PROVE  LET rest == SubSeq(s, k + 1, Len(s))
           IN  /\ \A tag : Says(rest, tag) => Says(s, tag)
               /\ ReadyLast(s) => ReadyLast(rest)
               /\ Clean(s) => Clean(rest)
<1> DEFINE rest == SubSeq(s, k + 1, Len(s))
           n == Len(s)
<1>1. /\ n \in Nat /\ DOMAIN s = 1..n /\ Len(rest) = n - k
      /\ DOMAIN rest = 1..(n - k)
      /\ \A i \in 1..(n - k) : rest[i] = s[k + i]
  OBVIOUS
<1>2. /\ \A i \in 1..(n - k) : k + i \in 1..n
      /\ \A i \in 1..(n - k) : k + i = n => i = n - k
  BY <1>1, Skipped
<1> HIDE DEF rest, n
<1>3. \A tag : Says(rest, tag) => Says(s, tag)
  BY <1>1, <1>2 DEF Says
<1>4. ASSUME ReadyLast(s) PROVE ReadyLast(rest)
  <2>1. ASSUME NEW i \in 1..(n - k), rest[i].tag = "READY" PROVE i = n - k
    <3>1. k + i \in DOMAIN s /\ s[k + i].tag = "READY"
      BY <1>1, <1>2, <2>1
    <3>2. k + i = n
      BY <1>4, <3>1 DEF ReadyLast, n
    <3> QED BY <1>2, <3>2
  <2> QED BY <1>1, <2>1 DEF ReadyLast
<1>5. Clean(s) => Clean(rest)
  BY <1>1, <1>2 DEF Clean
<1> QED BY <1>3, <1>4, <1>5 DEF rest

LEMMA Split ==
    ASSUME NEW S, NEW s \in Seq(S), NEW k \in 1..Len(s)
    PROVE  LET read == SubSeq(s, 1, k)
               rest == SubSeq(s, k + 1, Len(s))
           IN  /\ read \o rest = s /\ read # <<>>
               /\ Clean(s) => Clean(read)
<1> DEFINE read == SubSeq(s, 1, k)
<1>1. Len(read) = k /\ DOMAIN read = 1..k /\ DOMAIN s = 1..Len(s)
      /\ \A i \in 1..k : read[i] = s[i] /\ i \in 1..Len(s)
  OBVIOUS
<1>2. read \o SubSeq(s, k + 1, Len(s)) = SubSeq(s, 1, Len(s))
  <2>1. 1 \in 1..(Len(s) + 1) /\ k \in (1 - 1)..Len(s) /\ Len(s) \in k..Len(s)
    OBVIOUS
  <2> QED BY <2>1, ConcatAdjacentSubSeq
<1>3. SubSeq(s, 1, Len(s)) = s
  BY SubSeqFull
<1>4. read # <<>>
  BY <1>1
<1> HIDE DEF read
<1>5. Clean(s) => Clean(read)
  BY <1>1 DEF Clean
<1> QED BY <1>2, <1>3, <1>4, <1>5 DEF read

(* What was heard of a longer list.                                         *)
LEMMA Prefix ==
    ASSUME NEW S, NEW s \in Seq(S), NEW w \in Seq(S)
    PROVE  LET all == s \o w
           IN  /\ \A tag : Says(s, tag) => Says(all, tag)
               /\ AllReady(all) => AllReady(s)
               /\ ReadyLast(all) => ReadyLast(s)
               /\ InOrder(all) => InOrder(s)
               /\ InOrder(all) /\ SaysSleep(s) => all = s
               /\ all = <<>> => s = <<>> /\ w = <<>>
               /\ s # <<>> => Head(all) = Head(s)
<1> DEFINE all == s \o w
           n == Len(s)
           m == Len(all)
<1>1. /\ n \in Nat /\ m \in Nat /\ DOMAIN s = 1..n /\ DOMAIN all = 1..m
      /\ m = n + Len(w) /\ Len(w) \in Nat
      /\ \A i \in 1..n : all[i] = s[i]
  OBVIOUS
<1>2. n <= m /\ \A i \in 1..n : i \in 1..m
  BY <1>1, Longer
<1>3. \A i \in 1..n : i = m => i = n
  BY <1>1, Longer
<1>4. (all = <<>> => s = <<>> /\ w = <<>>) /\ (s # <<>> => Head(all) = Head(s))
  OBVIOUS
<1>5. n = m => all = s
  <2>1. n = m => w = <<>>
    BY <1>1, EmptySeq
  <2> QED BY <2>1
<1> HIDE DEF all, n, m
<1>6. \A tag : Says(s, tag) => Says(all, tag)
  BY <1>1, <1>2 DEF Says
<1>7. AllReady(all) => AllReady(s)
  BY <1>1, <1>2 DEF AllReady
<1>8. ReadyLast(all) => ReadyLast(s)
  BY <1>1, <1>2, <1>3 DEF ReadyLast, n, m
<1>9. ASSUME InOrder(all) PROVE InOrder(s)
  <2> SUFFICES ASSUME NEW i \in 1..n
               PROVE  \/ s[i].tag \in RunTags
                      \/ s[i].tag \in SleepTags /\ i = n
                      \/ /\ s[i].tag = "DONE"
                         /\ \A j \in 1..n : j > i => s[j].tag = "READY"
                      \/ /\ s[i].tag = "READY" /\ i = n
                         /\ i = 1 \/ Says(s, "DONE")
    BY <1>1 DEF InOrder, n
  <2>1. CASE s[i].tag = "READY"
    <3>1. i = m /\ (i = 1 \/ Says(all, "DONE"))
      BY <1>1, <1>2, <1>9, <2>1 DEF InOrder, RunTags, SleepTags, m
    <3>2. i = n
      BY <1>3, <3>1
    <3>3. Says(all, "DONE") => Says(s, "DONE")
      <4>1. m = n
        BY <3>1, <3>2
      <4> QED BY <1>1, <4>1 DEF Says
    <3> QED BY <2>1, <3>1, <3>2, <3>3
  <2>2. CASE s[i].tag # "READY"
    <3>1. \/ s[i].tag \in RunTags
          \/ s[i].tag \in SleepTags /\ i = m
          \/ /\ s[i].tag = "DONE"
             /\ \A j \in 1..m : j > i => all[j].tag = "READY"
      BY <1>1, <1>2, <1>9, <2>2 DEF InOrder, m
    <3> QED BY <1>1, <1>2, <1>3, <3>1
  <2> QED BY <2>1, <2>2
<1>10. ASSUME InOrder(all), SaysSleep(s) PROVE all = s
  <2>1. PICK i \in 1..n : s[i].tag \in SleepTags
    BY <1>1, <1>10 DEF SaysSleep
  <2>2. i = m
    BY <1>1, <1>2, <1>10, <2>1 DEF InOrder, RunTags, SleepTags, m
  <2> QED BY <1>1, <1>3, <1>5, <2>2
<1> QED BY <1>4, <1>6, <1>7, <1>8, <1>9, <1>10 DEF all

-----------------------------------------------------------------------------
(* The assumptions.                                                         *)

(* A flag that neither un-skips a test, nor wakes one, nor ends the         *)
(* configure phase with an error, nor adds tests to phase two.              *)
PlainFlag ==
    {f \in AnyFlag : /\ f # MalformedEnv
                     /\ f.flag \notin {"--unskip", "--no-skip", "--wake",
                                        "--test-case"}}

RoundsAssumed ==
    /\ LaterSessionsReset /\ TestsInSuites
    /\ \A t, u \in Tests : NameOf[t] = NameOf[u] => t = u
    /\ PromptHost /\ ~Standalone
    /\ ArgsLines \in Seq(Seq(PlainFlag))
    /\ \E kind \in {"RUN", "RUN_ALL", "RUN:", "RESUME_AFTER"}, name \in STRING,
          given \in Seq(PlainFlag) : InitialCommand = Message(kind, name, given)

(* A step that leaves the host and the board in one and the same cycle: no  *)
(* crash, no reset, no line lost to damage, and a host that does not give   *)
(* up a test that hangs.                                                    *)
Steady ==
    /\ ~Crash /\ ~SilentReset /\ ~GarbleLine
    /\ GarbleMessage => ArgsLines = <<>>
    /\ dpc = "hung" => ~TimesOut

(* The faults after which every step is steady.                             *)
MildFaults ==
    /\ FaultKinds \subseteq {"drop", "oversleep", "garbleCommand", "init"}
    /\ "garbleCommand" \in FaultKinds => ArgsLines = <<>>

TypesInv == args \in Seq(PlainFlag) /\ naps \in [Tests -> Nat]

RoundsIndInv == SessionInv /\ TypesInv /\ RoundsInv

-----------------------------------------------------------------------------
(* What stands when nothing touches it.                                     *)

LEMMA LinesArrive ==
    ASSUME SessionInv
    PROVE  wire \in Seq(AnyLine) /\ chunk \in Seq(AnyLine) /\ inbound \in Seq(AnyLine)
<1>1. wire \in Seq(AnyLine) /\ chunk \in Seq(AnyLine)
  BY LinesAreLines DEF SessionInv, WireInv, CountedInv
<1> QED BY <1>1 DEF inbound

LEMMA HistoryStands ==
    ASSUME UNCHANGED <<begun, ended, naps>>
    PROVE  \A t : (UpTo(t)' <=> UpTo(t)) /\ (Slept(t)' <=> Slept(t))
BY DEF UpTo, Slept

LEMMA FreshStands ==
    ASSUME UNCHANGED <<begun, ended, naps, cycle, target, retries>>
    PROVE  Fresh' <=> Fresh
BY DEF Fresh, UpTo, Slept, PhaseTwo

LEMMA HistoryKeeps ==
    ASSUME HistoryInv, UNCHANGED <<begun, ended, naps, cycle, target, retries>>,
           Untaken' => Untaken \/ Fresh,
           pstate' = "SLEEPING" => pstate = "SLEEPING" /\ sleepName' = sleepName,
           hpc' = "wakeWait" => hpc = "wakeWait"
    PROVE  HistoryInv'
<1>1. \A t : (UpTo(t)' <=> UpTo(t)) /\ (Slept(t)' <=> Slept(t))
  BY HistoryStands
<1>2. (Fresh' <=> Fresh) /\ (PhaseTwo' <=> PhaseTwo)
  BY FreshStands DEF PhaseTwo
<1> QED BY <1>1, <1>2 DEF HistoryInv

LEMMA RunKeeps ==
    ASSUME RunInv,
           UNCHANGED <<begun, ended, naps, cycle, target, retries, wake, todo, cur>>,
           Running' => Running /\ (dpc' # "cycle" => dpc # "cycle")
    PROVE  RunInv'
BY DEF RunInv, MayRun, UpTo, PhaseTwo

(* What RoundsInv reads of the board, of the link and of the host.          *)
boardSeen == <<dpc, due, args, wake, todo, cur, begun, ended, naps>>
linkSeen == <<port, handle, wire, toDev>>
protocolSeen == <<pstate, curName, sleepName>>
roundSeen == <<cycle, target, retries>>
crashSeen == <<crashed, finishedByRunner>>

LEMMA Seen ==
    /\ UNCHANGED deviceVars => UNCHANGED boardSeen
    /\ UNCHANGED linkVars => UNCHANGED linkSeen
    /\ UNCHANGED protocolVars => UNCHANGED <<protocolSeen, busy>>
    /\ UNCHANGED roundVars => UNCHANGED roundSeen
    /\ UNCHANGED reportVars => UNCHANGED crashSeen
    /\ UNCHANGED runnerVars => UNCHANGED <<hpc, chunk, roundSeen, crashSeen>>
BY DEF boardSeen, linkSeen, protocolSeen, roundSeen, crashSeen, deviceVars,
   registryVars, cycleVars, historyVars, linkVars, protocolVars, sessionVars,
   roundVars, reportVars, runnerVars

-----------------------------------------------------------------------------
(* The host, between chunks.                                                *)

(* It moves on and touches nothing else.                                    *)
Turns ==
    /\ UNCHANGED <<session, chunk, boardSeen, linkSeen, protocolSeen, roundSeen,
                   crashSeen>>
    /\ UNCHANGED busy \/ dpc # "quiet"
    /\ chunk = <<>> \/ hpc' = hpc
    /\ \/ hpc' = hpc
       \/ hpc = "feed" /\ pstate = "SLEEPING" /\ hpc' = "drain"
       \/ hpc = "feed" /\ pstate = "FINISHED" /\ hpc' = "post"
       \/ /\ hpc = "feed" /\ pstate \in {"WAITING_FOR_READY", "RUNNING"}
          /\ hpc' = "read"
       \/ /\ hpc = "read" /\ pstate = "WAITING_FOR_READY" /\ dpc = "dead"
          /\ hpc' = "drain"
       \/ hpc = "read" /\ handle = "stale" /\ hpc' = "post"
       \/ hpc = "drainFeed" /\ hpc' \in {"drain", "post"}
       \/ hpc = "drain" /\ hpc' = "post"
       \/ hpc = "loop" /\ hpc' = "finish"

LEMMA TurnsKeep ==
    ASSUME RoundsIndInv, Turns
    PROVE  RoundsInv' /\ TypesInv'
<1> USE DEF RoundsIndInv, RoundsInv
<1>1. UNCHANGED <<session, pstate, curName, sleepName, cycle, target, retries,
                  chunk, crashed, finishedByRunner, port, handle, wire, toDev,
                  dpc, due, args, wake, todo, cur, begun, ended, naps>>
  BY DEF Turns, boardSeen, linkSeen, protocolSeen, roundSeen, crashSeen
<1>2. inbound' = inbound
  BY <1>1 DEF inbound
<1>3. Turns
  OBVIOUS
<1>4. HistoryInv'
  BY <1>1, <1>2, HistoryKeeps DEF Turns, Untaken, Talks, Connected
<1>5. RunInv'
  BY <1>1, RunKeeps DEF Running
<1>6. PlaceInv'
  BY <1>1, <1>2 DEF Turns, PlaceInv, Connected, Running, Posted, Talks
<1>7. OnceInv'
  BY <1>1, <1>2 DEF Turns, OnceInv, Posted, Between
<1>8. AskedInv'
  BY <1>1, <1>2 DEF Turns, AskedInv, Talks
<1>9. EndedInv'
  BY <1>1, <1>2 DEF Turns, EndedInv, Talks, PlaceInv, inbound
<1>10. HeardInv'
  <2>1. \A t : Slept(t)' <=> Slept(t)
    BY <1>1, HistoryStands
  <2> QED BY <1>1, <1>2, <2>1 DEF Turns, HeardInv, Talks
<1>11. TakenInv'
  <2>1. Connected' => Connected /\ (UNCHANGED busy \/ dpc # "quiet")
    BY <1>1 DEF Turns, Connected, Talks
  <2> QED BY <1>1, <1>2, <2>1 DEF TakenInv, Running, ScriptLeft, Script, CommandOf
<1>12. TypesInv'
  BY <1>1 DEF TypesInv
<1> QED BY <1>4, <1>5, <1>6, <1>7, <1>8, <1>9, <1>10, <1>11, <1>12

LEMMA ScriptStands ==
    ASSUME UNCHANGED <<toDev, cycle, target>>
    PROVE  ScriptLeft' <=> ScriptLeft
BY DEF ScriptLeft, Script, CommandOf

(* Nothing is silent that long but a failed board_init: a quiet test is     *)
(* busy, and READY comes for the rest.                                      *)
LEMMA HostTurns ==
    ASSUME RoundsIndInv, dpc = "hung" => ~TimesOut, UNCHANGED <<session, deviceVars>>,
           \/ SeesSleep \/ SeesDone \/ SeesNothing \/ DrainCheck \/ DrainEnds
           \/ PortGoneWhileRunning \/ NoMoreCycles
           \/ SeesError \/ LeavesForOldCrash \/ TimesOut \/ BusyIsOver
    PROVE  Turns
<1> USE DEF RoundsIndInv, RoundsInv
<1>1. UNCHANGED boardSeen
  BY Seen
<1>2. ~SeesError /\ ~LeavesForOldCrash
  BY DEF SeesError, Checking, LeavesForOldCrash, PlaceInv
<1>3. CASE TimesOut
  <2>1. /\ hpc = "read" /\ handle = "live" /\ wire = <<>> /\ hpc' = "drain"
        /\ Silent /\ chunk = <<>> /\ inbound = <<>>
    <3>1. /\ hpc = "read" /\ handle = "live" /\ wire = <<>> /\ hpc' = "drain" /\ Silent
      BY <1>3 DEF TimesOut, ReadyTimeout, HangTimeout, EmptyRead
    <3>2. chunk = <<>>
      BY <3>1 DEF SessionInv, HostInv, RunnerTypeOK
    <3> QED BY <3>1, <3>2 DEF inbound
  <2>2. ~HangTimeout
    <3> SUFFICES ASSUME HangTimeout PROVE FALSE
      OBVIOUS
    <3>0. dpc # "hung"
      BY <1>3
    <3>1. Connected /\ ~busy
      BY <2>1 DEF HangTimeout, Connected, Talks
    <3>2. dpc = "quiet"
      BY <2>1, <3>0, <3>1 DEF Silent, TakenInv, Running
    <3>3. Says(inbound, "BUSY")
      BY <3>1, <3>2 DEF TakenInv
    <3> QED BY <2>1, <3>3, NothingSaid
  <2>3. ReadyTimeout /\ pstate = "WAITING_FOR_READY"
    BY <1>3, <2>2 DEF TimesOut, ReadyTimeout
  <2>4. dpc = "dead"
    BY <2>1, <2>3 DEF Silent, PlaceInv, Running, Connected
  <2>5. UNCHANGED <<linkSeen, protocolSeen, busy, roundSeen, crashSeen, chunk>>
    BY <2>3, Seen DEF ReadyTimeout, crashSeen
  <2> QED BY <1>1, <2>1, <2>3, <2>4, <2>5 DEF Turns
<1>4. CASE BusyIsOver
  <2>1. UNCHANGED <<linkSeen, protocolSeen, roundSeen, crashSeen, chunk, hpc>>
        /\ dpc # "quiet"
    BY <1>4, Seen DEF BusyIsOver, BusyExpires, protocolSeen
  <2> QED BY <1>1, <2>1 DEF Turns
<1>5. CASE SeesSleep \/ SeesDone \/ SeesNothing
  <2>1. UNCHANGED <<linkSeen, protocolSeen, busy, roundSeen, crashSeen, chunk>>
    BY <1>5, Seen DEF SeesSleep, SeesDone, SeesNothing, crashSeen
  <2>2. hpc = "feed" /\ chunk = <<>> /\ ~crashed
    BY <1>5 DEF SeesSleep, SeesDone, SeesNothing, Checking, PlaceInv
  <2> QED BY <1>1, <1>5, <2>1, <2>2 DEF Turns, SeesSleep, SeesDone, SeesNothing,
             LeaveIfCrashed
<1>6. CASE DrainCheck \/ DrainEnds \/ PortGoneWhileRunning \/ NoMoreCycles
  <2>1. UNCHANGED <<linkSeen, protocolSeen, busy, roundSeen, crashSeen, chunk>>
    BY <1>6, Seen DEF DrainCheck, DrainEnds, PortGoneWhileRunning, NoMoreCycles,
       crashSeen
  <2>2. chunk = <<>>
    BY <1>6 DEF DrainCheck, DrainEnds, PortGoneWhileRunning, NoMoreCycles,
       SessionInv, HostInv, RunnerTypeOK
  <2> QED BY <1>1, <1>6, <2>1, <2>2 DEF Turns, DrainCheck, DrainEnds,
             PortGoneWhileRunning, NoMoreCycles
<1> QED BY <1>2, <1>3, <1>4, <1>5, <1>6

-----------------------------------------------------------------------------
(* The host, from one cycle to the next.                                    *)

(* Off the port it hears nothing, and what it is going to hear is all read. *)
LEMMA Quiet ==
    ASSUME SessionInv, hpc \notin {"feed", "drainFeed"}
    PROVE  chunk = <<>> /\ (handle # "live" => inbound = <<>>)
BY DEF SessionInv, HostInv, RunnerTypeOK, inbound

(* A new cycle starts, or the session ends, without the port.               *)
Leaves ==
    /\ UNCHANGED <<session, boardSeen, port, wire, toDev, crashSeen>>
    /\ hpc' \in {"open", "wakeWait", "finish", "over"}
    /\ hpc \in {"open", "read", "feed", "loop", "wakeWait", "finish"}
    /\ hpc' = "over" => hpc = "finish"
    /\ handle # "live" /\ handle' \in {handle, "closed"}
    /\ hpc' = "over" => handle' = "closed"
    /\ hpc' = "open" => cycle' # "first"
    /\ hpc = "finish" => hpc' = "over"
    /\ hpc = "open" /\ cycle = "first" => hpc' = "finish"

LEMMA LeavesKeep ==
    ASSUME RoundsIndInv, Leaves, chunk' = <<>>, HistoryInv'
    PROVE  RoundsInv' /\ TypesInv'
<1> USE DEF RoundsIndInv, RoundsInv
<1>1. UNCHANGED <<session, crashed, finishedByRunner, port, wire, toDev,
                  dpc, due, args, wake, todo, cur, begun, ended, naps>>
  BY DEF Leaves, boardSeen, crashSeen
<1>2. ~Talks' /\ ~Connected' /\ ~Connected
  BY DEF Leaves, Talks, Connected
<1>3. ~Running /\ Posted
  BY <1>2 DEF PlaceInv
<1>4. RunInv' /\ HeardInv' /\ AskedInv' /\ TakenInv'
  BY <1>1, <1>2, <1>3 DEF RunInv, Running, HeardInv, AskedInv, TakenInv
<1>5. PlaceInv'
  BY <1>1, <1>2, <1>3, NothingSaid DEF Leaves, PlaceInv, Running, Posted
<1>6. OnceInv'
  <2>1. CASE hpc \in {"linger", "finish", "over"} \/ Between
    BY <1>1, <2>1 DEF Leaves, OnceInv, Between
  <2>2. CASE ~(hpc \in {"linger", "finish", "over"} \/ Between)
    BY <1>1, <2>2 DEF OnceInv, Posted
  <2> QED BY <2>1, <2>2
<1>7. EndedInv'
  BY <1>2 DEF Leaves, EndedInv, Talks
<1>8. TypesInv'
  BY <1>1 DEF TypesInv
<1> QED BY <1>4, <1>5, <1>6, <1>7, <1>8

(* What a command of this cycle is for, a retry of phase two is for.        *)
LEMMA RaiseLeaves ==
    ASSUME RoundsIndInv, UNCHANGED <<session, deviceVars>>,
           SendRaises \/ ReadRaises \/ OpenFails
    PROVE  Leaves /\ chunk' = <<>> /\ HistoryInv'
<1> USE DEF RoundsIndInv, RoundsInv
<1>1. /\ UNCHANGED <<boardSeen, linkSeen, crashSeen, target, retries>>
      /\ \/ hpc' = "open" /\ cycle = "phase2" /\ cycle' = "phase2Retry"
         \/ hpc' = "finish" /\ UNCHANGED cycle
  <2>1. UNCHANGED <<boardSeen, linkSeen>>
    BY Seen DEF SendRaises, ReadRaises, OpenFails
  <2>2. finishedByRunner = FALSE
    BY DEF PlaceInv, SessionInv, HostInv, RunnerTypeOK
  <2>3. UNCHANGED finishedByRunner
    BY <2>2 DEF SendRaises, ReadRaises, OpenFails
  <2>4. Raise("serial_error") \/ Raise("runner_error")
    BY DEF SendRaises, ReadRaises, OpenFails
  <2> QED BY <2>1, <2>3, <2>4 DEF Raise, roundVars, crashSeen
<1>2. /\ hpc \in {"open", "read", "feed"} /\ handle \in {"stale", "closed"}
      /\ chunk = <<>> /\ chunk' = <<>> /\ Untaken
      /\ pstate' # "SLEEPING"
  <2>1. CASE SendRaises
    BY <2>1, Seen DEF SendRaises, Checking, Untaken, Talks, protocolSeen
  <2>2. CASE ReadRaises
    <3>1. chunk = <<>>
      BY <2>2, Quiet DEF ReadRaises
    <3> QED BY <2>2, <3>1, Seen DEF ReadRaises, PlaceInv, Untaken, Talks, protocolSeen
  <2>3. CASE OpenFails
    <3>1. chunk = <<>>
      BY <2>3, Quiet DEF OpenFails
    <3> QED BY <2>3, <3>1 DEF OpenFails, Reset, Untaken
  <2> QED BY <2>1, <2>2, <2>3
<1>3. Leaves
  BY <1>1, <1>2 DEF Leaves, linkSeen
<1>4. HistoryInv'
  <2>1. UNCHANGED <<begun, ended, naps, retries, target>>
    BY <1>1 DEF boardSeen
  <2>2. \A t : (UpTo(t)' <=> UpTo(t)) /\ (Slept(t)' <=> Slept(t))
    BY <2>1, HistoryStands
  <2>3. PhaseTwo' <=> PhaseTwo
    BY <1>1 DEF PhaseTwo
  <2>4. Fresh'
    <3>1. Fresh
      BY <1>2 DEF HistoryInv
    <3> QED BY <1>1, <2>1, <2>2, <2>3, <3>1 DEF Fresh, PhaseTwo
  <2> QED BY <1>1, <1>2, <2>1, <2>2, <2>3, <2>4 DEF HistoryInv
<1> QED BY <1>2, <1>3, <1>4

(* The test that sleeps is the one to wake, and no other has slept since.   *)
LEMMA AwaitLeaves ==
    ASSUME RoundsAssumed, RoundsIndInv, UNCHANGED <<session, deviceVars>>, AwaitWake
    PROVE  Leaves /\ chunk' = <<>> /\ HistoryInv'
<1> USE DEF RoundsIndInv, RoundsInv
<1>1. /\ hpc = "loop" /\ hpc' = "wakeWait" /\ handle' = "closed"
      /\ pstate = "SLEEPING" /\ target' = sleepName
      /\ retries' = [retries EXCEPT ![sleepName] = @ + 1]
      /\ UNCHANGED <<boardSeen, port, wire, toDev, crashSeen, cycle, chunk, pstate,
                     sleepName>>
  BY Seen DEF AwaitWake, Closes, protocolSeen
<1>2. chunk = <<>> /\ handle # "live"
  BY <1>1, Quiet DEF PlaceInv, Talks
<1>3. Leaves
  BY <1>1, <1>2 DEF Leaves, PlaceInv
<1>4. PICK t \in Tests : NameOf[t] = sleepName /\ Slept(t)
  BY <1>1 DEF HistoryInv
<1>5. /\ retries \in [Names \cup {""} -> 0..MaxSleepRetries]
      /\ sleepName \in Names \cup {""} /\ MaxSleepRetries \in Nat
      /\ naps \in [Tests -> Nat] /\ \A u \in Tests : NameOf[u] \in Names
  BY RunnerAssumption DEF RoundsAssumed, TestsInSuites, SessionInv, HostInv,
     RunnerTypeOK, TypesInv
<1>6. /\ \A u \in Tests : naps[u] <= retries'[NameOf[u]] + 1
      /\ naps[t] <= retries'[sleepName]
  <2>1. \A u \in Tests : naps[u] <= retries[NameOf[u]] + 1
    BY DEF HistoryInv
  <2>2. ASSUME NEW u \in Tests
        PROVE  retries[NameOf[u]] \in Nat /\ naps[u] \in Nat
               /\ retries'[NameOf[u]] \in {retries[NameOf[u]], retries[NameOf[u]] + 1}
    <3>1. /\ NameOf[u] \in Names \cup {""} /\ naps[u] \in Nat
          /\ retries[NameOf[u]] \in 0..MaxSleepRetries
      BY <1>5
    <3>2. retries[NameOf[u]] \in Nat
      BY <1>5, <3>1, UpToNat
    <3>3. retries'[NameOf[u]] = IF NameOf[u] = sleepName THEN retries[sleepName] + 1
                                ELSE retries[NameOf[u]]
      BY <1>1, <1>5, <3>1
    <3> QED BY <3>1, <3>2, <3>3
  <2>3. ASSUME NEW u \in Tests PROVE naps[u] <= retries'[NameOf[u]] + 1
    BY <2>1, <2>2
  <2>4. retries'[sleepName] = retries[sleepName] + 1
    BY <1>1, <1>5
  <2> QED BY <1>4, <2>1, <2>3, <2>4
<1>7. HistoryInv'
  <2>1. UNCHANGED <<begun, ended, naps>>
    BY <1>1 DEF boardSeen
  <2>2. \A u : (UpTo(u)' <=> UpTo(u)) /\ (Slept(u)' <=> Slept(u))
    BY <2>1, HistoryStands
  <2>3. ~Untaken'
    BY <1>1, <1>2, <1>3 DEF Untaken, Talks, Connected, Leaves
  <2>4. NameOf[t] = target' /\ Slept(t)' /\ UpTo(t)' /\ naps'[t] <= retries'[target']
    BY <1>1, <1>4, <1>6, <2>1, <2>2 DEF Slept
  <2>5. ended' \subseteq begun' /\ \A u \in Tests : naps'[u] > 0 => u \in begun'
    BY <2>1 DEF HistoryInv
  <2> QED BY <1>1, <1>4, <1>6, <2>1, <2>2, <2>3, <2>4, <2>5 DEF HistoryInv
<1> QED BY <1>1, <1>2, <1>3, <1>7

LEMMA OthersLeave ==
    ASSUME RoundsAssumed, RoundsIndInv, UNCHANGED <<session, deviceVars>>,
           GiveUp \/ StartPhaseTwo \/ StartResume \/ Finish
    PROVE  Leaves /\ chunk' = <<>> /\ HistoryInv'
<1> USE DEF RoundsIndInv, RoundsInv
<1>1. /\ UNCHANGED <<boardSeen, port, wire, toDev, crashSeen, chunk, target, retries>>
      /\ \/ hpc = "loop" /\ hpc' = "finish" /\ handle' = "closed" /\ UNCHANGED cycle
            /\ UNCHANGED <<pstate, sleepName>>
         \/ hpc = "wakeWait" /\ hpc' = "open" /\ UNCHANGED handle /\ cycle' = "phase2"
            /\ pstate' # "SLEEPING"
         \/ /\ hpc = "loop" /\ hpc' = "open" /\ UNCHANGED <<handle, pstate>>
            /\ cycle' = "resume" /\ PhaseTwo /\ pstate # "SLEEPING"
         \/ hpc = "finish" /\ hpc' = "over" /\ handle' = "closed" /\ UNCHANGED cycle
            /\ UNCHANGED <<pstate, sleepName>>
  <2>1. CASE GiveUp \/ Finish
    BY <2>1, Seen DEF GiveUp, Finish, Closes, crashSeen, protocolSeen, roundSeen
  <2>2. CASE StartPhaseTwo
    BY <2>2, Seen DEF StartPhaseTwo, ResetForWake, linkSeen
  <2>3. CASE StartResume
    BY <2>3, Seen DEF StartResume, linkSeen, protocolSeen, AfterPhaseTwo, PhaseTwo
  <2> QED BY <2>1, <2>2, <2>3
<1>2. chunk = <<>> /\ handle # "live"
  BY <1>1, Quiet DEF PlaceInv, Talks
<1>3. Leaves
  BY <1>1, <1>2 DEF Leaves, PlaceInv, PhaseTwo
<1>4. HistoryInv'
  <2>1. UNCHANGED <<begun, ended, naps, retries, target>>
    BY <1>1 DEF boardSeen
  <2>2. \A u : (UpTo(u)' <=> UpTo(u)) /\ (Slept(u)' <=> Slept(u))
    BY <2>1, HistoryStands
  <2>3. PhaseTwo' => PhaseTwo \/ hpc = "wakeWait"
    BY <1>1 DEF PhaseTwo
  <2>4. Untaken' => hpc' = "open"
    BY <1>1, <1>3 DEF Untaken, Talks, Connected, Leaves
  <2>5. hpc' = "open" => Fresh'
    BY <1>1, <2>1, <2>2 DEF HistoryInv, Fresh, PhaseTwo
  <2>6. PhaseTwo' => \E t \in Tests : NameOf[t] = target' /\ UpTo(t)'
    BY <1>1, <2>1, <2>2, <2>3 DEF HistoryInv, Slept
  <2> QED BY <1>1, <2>1, <2>2, <2>4, <2>5, <2>6 DEF HistoryInv
<1> QED BY <1>1, <1>2, <1>3, <1>4

-----------------------------------------------------------------------------
(* The host, at the port.                                                   *)

LEMMA PostsOne ==
    ASSUME Posted
    PROVE  /\ toDev \o <<PostMessage>> \in Seq({PostMessage})
           /\ toDev = <<>> => Len(toDev \o <<PostMessage>>) <= 1
BY DEF Posted

LEMMA PostTestKeeps ==
    ASSUME RoundsIndInv, PostTest, UNCHANGED <<session, deviceVars>>
    PROVE  RoundsInv' /\ TypesInv'
<1> USE DEF RoundsIndInv, RoundsInv
<1>1. /\ hpc = "post" /\ UNCHANGED <<session, protocolSeen, busy, roundSeen, chunk,
                                    crashSeen, port, wire, boardSeen>>
      /\ \/ hpc' = "linger" /\ handle = "live" /\ UNCHANGED handle
            /\ toDev' = toDev \o <<PostMessage>>
         \/ hpc' = "loop" /\ handle' = "closed" /\ toDev' = toDev \o <<>>
  <2>1. \/ PostTestMessages = <<>>
        \/ PostTestMessages = <<PostMessage>> /\ handle = "live"
    BY DEF PostTestMessages, PostMessage
  <2> QED BY <2>1, Seen DEF PostTest, Closes
<1>2. /\ UNCHANGED <<session, pstate, curName, sleepName, busy, cycle, target, retries,
                    chunk, crashed, finishedByRunner, port, wire,
                    dpc, due, args, wake, todo, cur, begun, ended, naps>>
      /\ hpc = "post" /\ hpc' \in {"linger", "loop"}
      /\ handle' = "closed" \/ (handle' = handle /\ handle = "live")
      /\ hpc' = "loop" => handle' = "closed"
      /\ hpc' = "linger" => handle = "live"
  BY <1>1 DEF boardSeen, protocolSeen, roundSeen, crashSeen
<1>3. ~Connected /\ ~Connected' /\ ~Talks' /\ chunk = <<>> /\ Posted /\ ~Running
  BY <1>2, Quiet DEF Connected, Talks, PlaceInv
<1>4. toDev \in Seq({PostMessage})
  BY <1>3 DEF Posted
<1>5. /\ Posted'
      /\ hpc' = "loop" => toDev' = toDev
      /\ hpc' = "linger" /\ toDev = <<>> => Len(toDev') <= 1
  BY <1>1, <1>3, <1>4, PostsOne DEF Posted
<1>6. HistoryInv'
  BY <1>2, <1>3, HistoryKeeps DEF Untaken, Talks, Connected
<1>7. RunInv'
  BY <1>2, RunKeeps DEF Running
<1>8. PlaceInv'
  BY <1>2, <1>3, <1>5 DEF PlaceInv, Running
<1>9. OnceInv'
  BY <1>2, <1>3, <1>5 DEF OnceInv, Posted, Between
<1>10. EndedInv'
  BY <1>2, <1>3, <1>5 DEF EndedInv
<1>11. AskedInv' /\ HeardInv' /\ TakenInv'
  BY <1>3 DEF AskedInv, HeardInv, TakenInv, Talks
<1>12. TypesInv'
  BY <1>2 DEF TypesInv
<1> QED BY <1>6, <1>7, <1>8, <1>9, <1>10, <1>11, <1>12

(* A board that has not read the message by now has no READY due: it still  *)
(* has lines to get rid of.                                                 *)
LEMMA LingerKeeps ==
    ASSUME RoundsIndInv, LingerEnds, UNCHANGED <<session, deviceVars>>
    PROVE  RoundsInv' /\ TypesInv'
<1> USE DEF RoundsIndInv, RoundsInv
<1>1. /\ UNCHANGED <<session, pstate, curName, sleepName, busy, cycle, target, retries,
                    chunk, crashed, finishedByRunner, port, toDev,
                    dpc, due, args, wake, todo, cur, begun, ended, naps>>
      /\ hpc = "linger" /\ hpc' = "loop" /\ handle' = "closed" /\ wire' = <<>>
      /\ dpc = "wait" => toDev = <<>> \/ Len(wire) = WireCap
  <2>1. LingerOver /\ BoardHasRead
    BY DEF LingerEnds
  <2>2. UNCHANGED <<protocolSeen, busy, roundSeen, crashSeen, boardSeen>>
    BY <2>1, Seen DEF LingerOver
  <2> QED BY <2>1, <2>2 DEF LingerOver, BoardHasRead, Closes, boardSeen, protocolSeen,
             roundSeen, crashSeen
<1>2. ~Connected /\ ~Connected' /\ ~Talks' /\ chunk = <<>> /\ Posted /\ ~Running
  BY <1>1, Quiet DEF Connected, Talks, PlaceInv
<1>3. dpc = "wait" /\ toDev # <<>> => wire # <<>>
  BY <1>1, LinkAssumption, EmptySeq
<1>4. HistoryInv'
  BY <1>1, <1>2, HistoryKeeps DEF Untaken, Talks, Connected
<1>5. RunInv'
  BY <1>1, RunKeeps DEF Running
<1>6. PlaceInv'
  BY <1>1, <1>2, NothingSaid DEF PlaceInv, Running, Posted
<1>7. OnceInv'
  BY <1>1, <1>2, <1>3, NothingSaid DEF OnceInv, EndedInv, Posted
<1>8. EndedInv'
  BY <1>1, <1>2 DEF EndedInv
<1>9. AskedInv' /\ HeardInv' /\ TakenInv'
  BY <1>2 DEF AskedInv, HeardInv, TakenInv, Talks
<1>10. TypesInv'
  BY <1>1 DEF TypesInv
<1> QED BY <1>4, <1>5, <1>6, <1>7, <1>8, <1>9, <1>10

(* The script is the ETST:ARGS lines and the command.                       *)
LEMMA ScriptIs ==
    ASSUME RoundsAssumed, NEW c
    PROVE  /\ Len(ArgsLines) \in Nat
           /\ Len(Script(c)) = Len(ArgsLines) + 1
           /\ \E S : Script(c) \in Seq(S)
           /\ \A i \in 1..Len(ArgsLines) :
                 Script(c)[i] = Message("ARGS", "", ArgsLines[i])
           /\ Script(c)[Len(ArgsLines) + 1] = CommandOf(c)
<1> DEFINE n == Len(ArgsLines)
           lines == [i \in 1..n |-> Message("ARGS", "", ArgsLines[i])]
           S == {Message("ARGS", "", ArgsLines[i]) : i \in 1..n} \cup {CommandOf(c)}
<1>1. n \in Nat
  BY DEF RoundsAssumed
<1> HIDE DEF n
<1>2. lines \in Seq(S) /\ Len(lines) = n
  <2>1. lines \in [1..n -> S]
    OBVIOUS
  <2> HIDE DEF lines, S
  <2> QED BY <1>1, <2>1
<1>3. \A i \in 1..n : lines[i] = Message("ARGS", "", ArgsLines[i])
  OBVIOUS
<1>4. <<CommandOf(c)>> \in Seq(S) /\ Len(<<CommandOf(c)>>) = 1
      /\ <<CommandOf(c)>>[1] = CommandOf(c)
  OBVIOUS
<1>5. Script(c) = lines \o <<CommandOf(c)>>
  BY DEF Script, n
<1> HIDE DEF lines, S
<1>6. /\ Script(c) \in Seq(S) /\ Len(Script(c)) = n + 1
      /\ \A i \in 1..n : Script(c)[i] = lines[i]
      /\ Script(c)[n + 1] = CommandOf(c)
  BY <1>1, <1>2, <1>4, <1>5
<1> QED BY <1>1, <1>3, <1>6 DEF n

(* Commands are whole when they are sent.                                   *)
LEMMA CommandsAreSound ==
    ASSUME RoundsAssumed, NEW c
    PROVE  CommandOf(c).crc = "ok" /\ CommandOf(c).kind # "ARGS"
BY DEF CommandOf, RoundsAssumed, ResumeCommand, PhaseTwoCommand, Message

LEMMA SendKeeps ==
    ASSUME RoundsAssumed, RoundsIndInv, SendCommand, UNCHANGED <<session, deviceVars>>
    PROVE  RoundsInv' /\ TypesInv'
<1> USE DEF RoundsIndInv, RoundsInv
<1>1. /\ UNCHANGED <<session, curName, sleepName, busy, cycle, target, retries, handle,
                    chunk, crashed, finishedByRunner, port, wire,
                    dpc, due, args, wake, todo, cur, begun, ended, naps>>
      /\ hpc = "feed" /\ hpc' = "read" /\ pstate = "READY" /\ pstate' = "RUNNING"
      /\ handle = "live" /\ toDev' = toDev \o Script(cycle) /\ chunk = <<>>
  <2>1. UNCHANGED <<boardSeen, roundSeen, crashSeen>>
    BY Seen DEF SendCommand
  <2> QED BY <2>1 DEF SendCommand, Checking, LeaveIfCrashed, CommandSent, boardSeen,
             roundSeen, crashSeen, PlaceInv
<1>2. inbound' = inbound
  BY <1>1 DEF inbound
<1>3. /\ Talks /\ Talks' /\ ~Connected /\ Connected' /\ ~Running /\ Posted
      /\ inbound = <<>> /\ dpc = "wait" /\ ~due /\ toDev = <<>> /\ curName = ""
      /\ wire = <<>> /\ port
  <2>1. Talks /\ Talks' /\ ~Connected /\ Connected' /\ ~Running /\ Posted /\ port
    BY <1>1 DEF Talks, Connected, PlaceInv
  <2>2. inbound = <<>> /\ dpc = "wait" /\ ~due /\ toDev = <<>> /\ curName = ""
    BY <1>1, <2>1 DEF AskedInv
  <2>3. wire = <<>>
    <3>1. wire \in Seq(AnyLine) /\ inbound = <<>> \o wire
      BY <1>1, LinesArrive DEF inbound
    <3> QED BY <2>2, <3>1, ConcatEmptySeq
  <2> QED BY <2>1, <2>2, <2>3
<1>4. /\ ScriptLeft' /\ \E S : toDev' \in Seq(S)
      /\ toDev' \notin Seq({PostMessage}) /\ toDev' # <<>>
  <2>1. (\E S : Script(cycle) \in Seq(S))
        /\ Len(Script(cycle)) = Len(ArgsLines) + 1 /\ Len(ArgsLines) \in Nat
    BY ScriptIs
  <2>0. toDev' = Script(cycle)
    <3>1. toDev' = <<>> \o Script(cycle)
      BY <1>1, <1>3
    <3> QED BY <2>1, <3>1, ConcatEmptySeq
  <2>2. 0 \in 0..Len(ArgsLines) /\ SubSeq(Script(cycle), 1, Len(ArgsLines) + 1) = Script(cycle)
    BY <2>1, SubSeqFull
  <2>3. ScriptLeft'
    <3>1. Script(cycle)' = Script(cycle)
      BY <1>1 DEF Script, CommandOf
    <3>2. toDev' = SubSeq(Script(cycle)', 0 + 1, Len(ArgsLines) + 1)
      BY <2>0, <2>2, <3>1
    <3> QED BY <2>2, <3>2 DEF ScriptLeft
  <2>4. toDev' # <<>> /\ \E S : toDev' \in Seq(S)
    BY <2>0, <2>1, EmptySeq
  <2>5. toDev'[1].crc = "ok" /\ 1 \in 1..Len(toDev')
    <3>1. CASE Len(ArgsLines) = 0
      <4>1. toDev'[1] = CommandOf(cycle)
        BY <2>0, <3>1, ScriptIs
      <4>2. Len(toDev') = 1
        BY <2>0, <2>1, <3>1
      <4>3. CommandOf(cycle).crc = "ok"
        BY CommandsAreSound
      <4>4. 1 \in 1..Len(toDev')
        BY <4>2
      <4> QED BY <4>1, <4>3, <4>4, Zenon
    <3>2. CASE Len(ArgsLines) # 0
      <4>1. 1 \in 1..Len(ArgsLines)
        BY <2>1, <3>2
      <4>2. toDev'[1] = Message("ARGS", "", ArgsLines[1])
        BY <2>0, <4>1, ScriptIs
      <4>3. 1 \in 1..Len(toDev')
        BY <2>0, <2>1
      <4>4. Message("ARGS", "", ArgsLines[1]).crc = "ok"
        BY DEF Message
      <4> QED BY <4>2, <4>3, <4>4, Zenon
    <3> QED BY <3>1, <3>2
  <2>6. toDev' \notin Seq({PostMessage})
    <3> SUFFICES ASSUME toDev' \in Seq({PostMessage}) PROVE FALSE
      OBVIOUS
    <3>1. toDev'[1] = PostMessage
      BY <2>5
    <3> QED BY <2>5, <3>1 DEF PostMessage, Message
  <2> QED BY <2>3, <2>4, <2>6
<1>5. HistoryInv'
  BY <1>1, <1>2, <1>3, HistoryKeeps DEF Untaken, Talks, Connected
<1>6. RunInv'
  BY <1>1, RunKeeps DEF Running
<1>7. PlaceInv'
  BY <1>1, <1>3, <1>4 DEF PlaceInv, Posted, Talks
<1>8. OnceInv'
  BY <1>1, <1>3, <1>4, NothingSaid DEF OnceInv, Posted
<1>9. AskedInv'
  BY <1>1, <1>2, <1>3, NothingSaid DEF AskedInv
<1>10. EndedInv'
  BY <1>1 DEF EndedInv
<1>11. HeardInv'
  BY <1>2, <1>3, NothingSaid DEF HeardInv
<1>12. TakenInv'
  BY <1>1, <1>2, <1>3, <1>4, NothingSaid DEF TakenInv, Running
<1>13. TypesInv'
  BY <1>1 DEF TypesInv
<1> QED BY <1>5, <1>6, <1>7, <1>8, <1>9, <1>10, <1>11, <1>12, <1>13

(* A cycle starts listening: what is left of the wire may still arrive.     *)
LEMMA OpenRoundKeeps ==
    ASSUME RoundsAssumed, RoundsIndInv, FirstOpen \/ LaterOpen, UNCHANGED session
    PROVE  RoundsInv' /\ TypesInv'
<1> USE DEF RoundsIndInv, RoundsInv
<1>1. /\ hpc = "open" /\ hpc' = "read" /\ pstate' = "WAITING_FOR_READY"
      /\ curName' = "" /\ sleepName' = "" /\ ~crashed' /\ ~finishedByRunner'
      /\ UNCHANGED <<session, cycle, target, retries, chunk, port, begun, ended, naps>>
      /\ chunk' = <<>> /\ handle # "live"
  <2>1. OpenPort /\ UNCHANGED <<begun, ended, naps>>
    BY DEF FirstOpen, LaterOpen, Boot, historyVars, deviceVars
  <2>2. chunk = <<>> /\ handle # "live" /\ ~crashed
    BY <2>1, Quiet DEF OpenPort, PlaceInv, Talks
  <2> QED BY <2>1, <2>2 DEF OpenPort, Reset, roundVars
<1>2. /\ handle \in {"closed", "stale"} /\ (cycle = "first" => handle = "closed")
      /\ handle' \in {"live", handle} /\ handle' \in {"live", "stale"}
      /\ handle' = "live" => port
      /\ handle' = "stale" => UNCHANGED wire
      /\ wire' = wire \/ \E k \in 0..Len(wire) : wire' = SubSeq(wire, k + 1, Len(wire))
  <2>1. OpenPort
    BY DEF FirstOpen, LaterOpen
  <2>2. handle \in {"closed", "stale"} /\ (cycle = "first" => handle = "closed")
    BY <1>1 DEF PlaceInv
  <2> QED BY <2>1, <2>2 DEF OpenPort, Opens
<1>3. ~Connected /\ ~Running /\ Posted /\ ~Connected' /\ Talks' /\ Fresh
  BY <1>1 DEF Connected, Talks, PlaceInv, HistoryInv, Untaken
<1>4. /\ (\A tag : Says(wire', tag) => Says(wire, tag)) \/ wire' = <<>>
      /\ Clean(wire')
      /\ ReadyLast(wire) => ReadyLast(wire')
  <2>1. Clean(wire) /\ wire \in Seq(AnyLine)
    BY LinesArrive DEF PlaceInv
  <2> QED BY <1>2, <2>1, Suffix
(* A reset board boots; another goes on as it is, and then this is no later *)
(* session's first cycle.                                                   *)
<1>5. \/ /\ UNCHANGED boardSeen /\ UNCHANGED toDev /\ ~Between
      \/ /\ dpc' = "init" /\ due' = TRUE /\ args' = <<>> /\ wake' = FALSE
         /\ toDev' = <<>> /\ wire' = <<>> /\ handle' = "live"
  <2>1. CASE LaterOpen
    BY <2>1, Seen DEF LaterOpen, Between
  <2>2. CASE FirstOpen /\ Resets[session]
    <3>1. handle' = "live"
      BY <1>2, <2>2 DEF FirstOpen, OpenPort, Opens
    <3> QED BY <2>2, <3>1 DEF FirstOpen, Boot
  <2>3. CASE FirstOpen /\ ~Resets[session]
    <3>1. session = 1
      BY <2>3 DEF RoundsAssumed, LaterSessionsReset, SessionInv, HostInv
    <3> QED BY <2>3, <3>1, Seen DEF FirstOpen, Between
  <2> QED BY <2>1, <2>2, <2>3
<1>6. ~Running'
  BY <1>3, <1>5 DEF Running, boardSeen
<1>7. inbound' = IF handle' = "live" THEN wire' ELSE <<>>
  <2>1. wire' \in Seq(AnyLine)
    BY <1>2, LinesArrive, SuffixKeeps
  <2> QED BY <1>1, <2>1, ConcatEmptySeq DEF inbound
<1>8. HistoryInv'
  BY <1>1, <1>3, HistoryKeeps
<1>9. RunInv' /\ HeardInv' /\ EndedInv' /\ TakenInv'
  BY <1>1, <1>3, <1>6 DEF RunInv, HeardInv, EndedInv, TakenInv
<1>10. PlaceInv'
  <2>1. ~crashed' /\ ~finishedByRunner' /\ Clean(chunk') /\ Clean(wire')
    BY <1>1, <1>4, NothingSaid
  <2>2. /\ dpc' # "crashed" /\ (port' <=> dpc' \notin {"off", "late"})
        /\ (dpc' \in {"init", "wait"} => ~wake')
    <3>1. CASE UNCHANGED boardSeen
      BY <1>1, <3>1 DEF PlaceInv, boardSeen
    <3>2. CASE dpc' = "init" /\ wake' = FALSE /\ handle' = "live"
      BY <1>1, <1>2, <3>2
    <3> QED BY <1>5, <3>1, <3>2
  <2>3. Posted' /\ (Posted' /\ port' => args' = <<>>)
    BY <1>1, <1>3, <1>5, EmptySeq DEF PlaceInv, Posted, boardSeen
  <2> QED BY <1>1, <1>2, <1>3, <1>6, <2>1, <2>2, <2>3 DEF PlaceInv
<1>11. ASSUME UNCHANGED boardSeen, UNCHANGED toDev, ~Between
       PROVE  OnceInv' /\ AskedInv'
  <2>1. /\ dpc = "wait" /\ due => toDev = <<>> /\ ~Says(wire, "READY")
        /\ ReadyLast(wire)
        /\ Says(wire, "READY") => dpc = "wait" /\ ~due /\ toDev = <<>>
        /\ dpc = "wait" /\ Posted => Len(toDev) <= 1
        /\ dpc = "init" => toDev = <<>>
    BY <1>1, <1>11 DEF OnceInv
  <2>2. /\ ReadyLast(wire')
        /\ Says(wire', "READY") => Says(wire, "READY")
    BY <1>4, <2>1, NothingSaid
  <2>3. OnceInv'
    BY <1>3, <1>11, <2>1, <2>2 DEF OnceInv, boardSeen
  <2>4. AskedInv'
    BY <1>1, <1>7, <1>11, <2>1, <2>2, NothingSaid DEF AskedInv, boardSeen
  <2> QED BY <2>3, <2>4
<1>12. ASSUME dpc' = "init", due' = TRUE, toDev' = <<>>, wire' = <<>>, handle' = "live"
       PROVE  OnceInv' /\ AskedInv'
  <2>1. OnceInv'
    BY <1>12, NothingSaid DEF OnceInv
  <2>2. AskedInv'
    BY <1>1, <1>7, <1>12, NothingSaid DEF AskedInv
  <2> QED BY <2>1, <2>2
<1>13. TypesInv'
  BY <1>1, <1>5, EmptySeq DEF TypesInv, boardSeen
<1> QED BY <1>5, <1>8, <1>9, <1>10, <1>11, <1>12, <1>13

(* Reading a chunk takes nothing from what the host is going to hear.       *)
LEMMA ReadRoundKeeps ==
    ASSUME RoundsIndInv, ReadChunk \/ DrainChunk, UNCHANGED <<session, deviceVars>>
    PROVE  RoundsInv' /\ TypesInv'
<1> USE DEF RoundsIndInv, RoundsInv
<1>1. /\ UNCHANGED <<session, pstate, curName, sleepName, busy, cycle, target, retries,
                    crashed, finishedByRunner, port, handle, toDev,
                    dpc, due, args, wake, todo, cur, begun, ended, naps>>
      /\ \/ hpc = "read" /\ hpc' = "feed"
         \/ hpc = "drain" /\ hpc' = "drainFeed"
      /\ handle = "live"
      /\ \E k \in 1..Len(wire) : /\ chunk' = SubSeq(wire, 1, k)
                                 /\ wire' = SubSeq(wire, k + 1, Len(wire))
  <2>1. UNCHANGED <<boardSeen, protocolSeen, busy, roundSeen, crashSeen>>
    BY Seen DEF ReadChunk, DrainChunk, ReadInto
  <2> QED BY <2>1 DEF ReadChunk, DrainChunk, ReadInto, boardSeen, protocolSeen,
             roundSeen, crashSeen
<1>2. wire \in Seq(AnyLine) /\ chunk = <<>>
  BY <1>1, LinesArrive, Quiet
<1>3. PICK k \in 1..Len(wire) : /\ chunk' = SubSeq(wire, 1, k)
                               /\ wire' = SubSeq(wire, k + 1, Len(wire))
  BY <1>1
<1>4. /\ chunk' \o wire' = wire /\ Clean(chunk') /\ Clean(wire')
      /\ \A tag : Says(wire', tag) => Says(wire, tag)
      /\ ReadyLast(wire) => ReadyLast(wire')
      /\ wire = <<>> => wire' = <<>>
  <2>1. k \in 0..Len(wire)
    BY <1>2, <1>3
  <2>2. Clean(wire)
    BY DEF PlaceInv
  <2>3. wire = <<>> => wire' = <<>>
    BY <1>3
  <2> QED BY <1>2, <1>3, <2>1, <2>2, <2>3, Suffix, Split
<1>5. inbound' = inbound /\ inbound = wire
  BY <1>1, <1>2, <1>4, ConcatEmptySeq DEF inbound
<1>6. HistoryInv'
  BY <1>1, <1>5, HistoryKeeps DEF Untaken, Talks, Connected
<1>7. RunInv'
  BY <1>1, RunKeeps DEF Running
<1>8. Talks' = Talks /\ (Connected' <=> Connected) /\ (Running' <=> Running)
      /\ (Posted' <=> Posted)
  BY <1>1 DEF Talks, Connected, Running, Posted
<1>9. PlaceInv'
  BY <1>1, <1>4, <1>8 DEF PlaceInv
<1>10. OnceInv'
  BY <1>1, <1>4, <1>8 DEF OnceInv, Between
<1>11. AskedInv'
  BY <1>1, <1>5, <1>8 DEF AskedInv
<1>12. EndedInv'
  BY <1>1, <1>4, <1>5, <1>8 DEF EndedInv
<1>13. HeardInv'
  <2>1. \A t : Slept(t)' <=> Slept(t)
    BY <1>1, HistoryStands
  <2> QED BY <1>1, <1>5, <1>8, <2>1 DEF HeardInv
<1>14. TakenInv'
  BY <1>1, <1>5, <1>8, ScriptStands DEF TakenInv
<1>15. TypesInv'
  BY <1>1 DEF TypesInv
<1> QED BY <1>6, <1>7, <1>9, <1>10, <1>11, <1>12, <1>13, <1>14, <1>15

(* What a line does to a protocol that waits, and to one that runs.         *)
HearsWaiting(ln) ==
    /\ pstate = "WAITING_FOR_READY"
    /\ pstate' = IF ln.tag = "READY" THEN "READY" ELSE pstate
    /\ UNCHANGED <<curName, sleepName, busy>>

HearsRunning(ln) ==
    /\ pstate = "RUNNING"
    /\ \/ /\ ln.tag = "READY"
          /\ pstate' = IF curName = "" THEN "READY" ELSE pstate
          /\ UNCHANGED <<curName, sleepName, busy>>
       \/ /\ ln.tag \in RunTags
          /\ curName' = IF ln.tag = "CASE:START" THEN ln.name ELSE curName
          /\ busy' = IF ln.tag = "BUSY" THEN TRUE ELSE busy
          /\ UNCHANGED <<pstate, sleepName>>
       \/ /\ ln.tag \in SleepTags
          /\ pstate' = "SLEEPING" /\ sleepName' = curName
          /\ UNCHANGED <<curName, busy>>
       \/ /\ ln.tag = "DONE"
          /\ pstate' = "FINISHED"
          /\ UNCHANGED <<curName, sleepName, busy>>
       \/ ln.tag \notin RunTags \cup SleepTags \cup {"DONE", "READY"}

LEMMA FeedHears ==
    ASSUME NEW ln, Feed(ln), ln.crc # "bad",
           ln.tag = "CASE:START" => ln.name # ""
    PROVE  \/ HearsWaiting(ln)
           \/ HearsRunning(ln)
           \/ /\ pstate = "READY" /\ pstate' \in {"READY", "ERROR"}
              /\ UNCHANGED <<curName, sleepName, busy>>
           \/ /\ pstate \notin {"WAITING_FOR_READY", "READY", "RUNNING"}
              /\ UNCHANGED <<pstate, curName, sleepName, busy>>
<1> USE DEF Heard, sessionVars, RunTags, SleepTags
<1>1. CASE FeedReadyWhileWaiting(ln) \/ FeedArgs(ln) \/ FeedError(ln)
  BY <1>1 DEF FeedReadyWhileWaiting, FeedArgs, FeedError, HearsWaiting, HearsRunning
<1>2. CASE FeedReadyWhileRunning(ln) \/ FeedCounts(ln) \/ FeedSleep(ln)
             \/ FeedDone(ln)
  BY <1>2 DEF FeedReadyWhileRunning, FeedCounts, FeedSleep, FeedDone, HearsRunning
<1>3. CASE FeedCaseStart(ln) \/ FeedBusy(ln)
  BY <1>3 DEF FeedCaseStart, FeedBusy, HearsRunning
<1>4. CASE FeedIgnored(ln)
  BY <1>4 DEF FeedIgnored, ActsOn, HearsWaiting, HearsRunning, protocolVars
<1> QED BY <1>1, <1>2, <1>3, <1>4 DEF Feed

LEMMA NothingLeft ==
    ASSUME NEW S, NEW s \in Seq(S), AllReady(s), ~Says(s, "READY")
    PROVE  s = <<>>
BY EmptySeq DEF AllReady, Says

LEMMA HeadAndTail ==
    ASSUME NEW S, NEW s \in Seq(S), NEW w \in Seq(S), s # <<>>
    PROVE  /\ Head(s \o w) = Head(s) /\ Tail(s \o w) = Tail(s) \o w
           /\ s \o w # <<>>
OBVIOUS

(* One line of what the host is going to hear.                              *)
LEMMA FeedsOne ==
    ASSUME RoundsAssumed, RoundsIndInv, FeedLine
    PROVE  LET ln == Head(inbound)
           IN  /\ UNCHANGED <<hpc, cycle, target, retries, port, handle, wire, toDev>>
               /\ hpc \in {"feed", "drainFeed"}
               /\ inbound \in Seq(AnyLine) /\ inbound # <<>>
               /\ inbound' = Tail(inbound)
               /\ Clean(chunk') /\ ~crashed' /\ ~finishedByRunner'
               /\ Feed(ln) /\ ln.crc # "bad"
               /\ ln.tag = "CASE:START" => ln.name # ""
<1> USE DEF RoundsIndInv, RoundsInv
<1> DEFINE ln == Head(chunk)
<1>1. /\ UNCHANGED <<hpc, cycle, target, retries, port, handle, wire, toDev>>
      /\ hpc \in {"feed", "drainFeed"} /\ chunk # <<>> /\ Feed(ln)
  BY DEF FeedLine, roundVars, linkVars
<1>2. chunk \in Seq(AnyLine) /\ wire \in Seq(AnyLine) /\ inbound \in Seq(AnyLine)
  BY LinesArrive
<1>3. ln.crc # "bad" /\ ln.tag # "CRASH" /\ Clean(Tail(chunk))
  BY <1>1, <1>2, Takes DEF PlaceInv
<1>4. ~crashed' /\ ~finishedByRunner' /\ chunk' = Tail(chunk)
  <2>1. ~crashed /\ ~finishedByRunner
    BY DEF PlaceInv
  <2>2. ~Heard(ln, "CRASH")
    BY <1>3 DEF Heard
  <2> QED BY <2>1, <2>2 DEF FeedLine
<1>5. Head(inbound) = ln /\ inbound # <<>> /\ inbound' = Tail(inbound)
  BY <1>1, <1>2, <1>4, HeadAndTail DEF inbound
<1>6. ln.tag = "CASE:START" => ln.name # ""
  <2>1. ln \in LinesOf(begun) /\ begun \subseteq Tests
    <3>1. chunk \in Seq(LinesOf(begun)) /\ begun \subseteq Tests
      BY DEF SessionInv, CountedInv, WireInv
    <3> QED BY <1>1, <3>1, OneLineLess
  <2> QED BY <2>1, ProtocolAssumption DEF LinesOf, RoundsAssumed, TestsInSuites
<1> QED BY <1>1, <1>2, <1>3, <1>4, <1>5, <1>6
(* The host hears one line.  A READY while it runs means that the command   *)
(* was lost; nothing else is heard out of order.                            *)
LEMMA FeedRoundKeeps ==
    ASSUME RoundsAssumed, RoundsIndInv, FeedLine, UNCHANGED <<session, deviceVars>>
    PROVE  RoundsInv' /\ TypesInv'
<1> USE DEF RoundsIndInv, RoundsInv
<1> DEFINE ln == Head(inbound)
           rest == Tail(inbound)
<1>1. /\ UNCHANGED <<session, hpc, cycle, target, retries, port, handle, wire, toDev,
                     dpc, due, args, wake, todo, cur, begun, ended, naps>>
      /\ hpc \in {"feed", "drainFeed"}
      /\ inbound \in Seq(AnyLine) /\ inbound # <<>>
      /\ inbound' = rest
      /\ Clean(chunk') /\ ~crashed' /\ ~finishedByRunner'
      /\ Feed(ln) /\ ln.crc # "bad"
      /\ ln.tag = "CASE:START" => ln.name # ""
  <2>1. UNCHANGED boardSeen
    BY Seen
  <2> QED BY <2>1, FeedsOne DEF boardSeen
<1>2. \/ HearsWaiting(ln)
      \/ HearsRunning(ln)
      \/ /\ pstate = "READY" /\ pstate' \in {"READY", "ERROR"}
         /\ UNCHANGED <<curName, sleepName, busy>>
      \/ /\ pstate \notin {"WAITING_FOR_READY", "READY", "RUNNING"}
         /\ UNCHANGED <<pstate, curName, sleepName, busy>>
  BY <1>1, FeedHears
<1>3. /\ \A tag : Says(inbound, tag) <=> ln.tag = tag \/ Says(rest, tag)
      /\ AllReady(inbound) => ln.tag = "READY" /\ AllReady(rest)
      /\ ReadyLast(inbound) => ReadyLast(rest)
      /\ ReadyLast(inbound) /\ ln.tag = "READY" => rest = <<>>
      /\ AllOfRun(inbound) <=> ln.tag \in RunTags /\ AllOfRun(rest)
      /\ SaysSleep(inbound) <=> ln.tag \in SleepTags \/ SaysSleep(rest)
      /\ rest \in Seq(AnyLine)
  BY <1>1, Takes, OneLineLess
<1>4. InOrder(inbound) =>
        /\ InOrder(rest)
        /\ ln.tag \in RunTags \cup SleepTags \cup {"DONE", "READY"}
        /\ ln.tag \in SleepTags \cup {"READY"} => rest = <<>>
        /\ ln.tag = "DONE" => AllReady(rest)
        /\ ln.tag # "DONE" /\ rest # <<>> => Head(rest).tag # "READY"
  BY <1>1, TakesInOrder
<1>5. \A n, t : NamedBy(n, inbound, t) =>
        /\ ln.tag # "CASE:START" => NamedBy(n, rest, t)
        /\ ln.tag = "CASE:START" => NamedBy(ln.name, rest, t)
  BY <1>1, TakesName
<1> HIDE DEF ln, rest
<1>6. \A t : (UpTo(t)' <=> UpTo(t)) /\ (Slept(t)' <=> Slept(t))
  BY <1>1, HistoryStands
<1>7. RunInv'
  BY <1>1, RunKeeps DEF Running
<1>8. OnceInv'
  BY <1>1 DEF OnceInv, Posted, Between
<1>9. TypesInv'
  BY <1>1 DEF TypesInv
<1>10. (hpc = "feed" => pstate' # "ERROR") /\ (hpc = "drainFeed" => pstate' # "RUNNING")
         /\ (~Connected' => ~Running /\ Posted)
       => PlaceInv'
  BY <1>1 DEF PlaceInv, Running, Posted, Talks
<1>11. CASE hpc = "drainFeed"
  <2>1. ~Talks /\ ~Talks' /\ ~Connected /\ ~Connected' /\ pstate # "RUNNING"
        /\ ~Running /\ Posted
    BY <1>1, <1>11 DEF Talks, Connected, PlaceInv
  <2>2. pstate' # "RUNNING" /\ sleepName' = sleepName
        /\ (pstate' = "SLEEPING" => pstate = "SLEEPING")
    BY <1>2, <2>1 DEF HearsWaiting, HearsRunning
  <2>3. HistoryInv'
    BY <1>1, <1>11, <2>1, <2>2, HistoryKeeps DEF Untaken
  <2>4. PlaceInv'
    BY <1>10, <1>11, <2>1, <2>2
  <2>5. EndedInv'
    BY <1>1, <1>11, <2>1 DEF EndedInv
  <2>6. AskedInv' /\ HeardInv' /\ TakenInv'
    BY <2>1 DEF AskedInv, HeardInv, TakenInv
  <2> QED BY <1>7, <1>8, <1>9, <2>3, <2>4, <2>5, <2>6
<1>12. CASE hpc = "feed" /\ HearsWaiting(ln)
  <2>1. /\ Talks /\ Talks' /\ ~Connected /\ ~Connected' /\ ~Running /\ Posted
        /\ pstate = "WAITING_FOR_READY" /\ UNCHANGED <<curName, sleepName, busy>>
        /\ pstate' = IF ln.tag = "READY" THEN "READY" ELSE pstate
    BY <1>1, <1>12 DEF Talks, Connected, PlaceInv, HearsWaiting
  <2>2. HistoryInv'
    BY <1>1, <1>12, <2>1, HistoryKeeps DEF Untaken
  <2>3. PlaceInv'
    BY <1>10, <1>12, <2>1
  <2>4. AskedInv'
    BY <1>1, <1>3, <2>1 DEF AskedInv
  <2>5. EndedInv' /\ HeardInv' /\ TakenInv'
    BY <1>1, <1>12, <2>1 DEF EndedInv, HeardInv, TakenInv
  <2> QED BY <1>7, <1>8, <1>9, <2>2, <2>3, <2>4, <2>5
<1>13. CASE /\ hpc = "feed" /\ pstate \notin {"WAITING_FOR_READY", "READY", "RUNNING"}
            /\ UNCHANGED <<pstate, curName, sleepName, busy>>
  <2>1. Talks /\ Talks' /\ ~Connected /\ ~Connected' /\ ~Running /\ Posted
    BY <1>1, <1>13 DEF Talks, Connected, PlaceInv
  <2>2. HistoryInv'
    BY <1>1, <1>13, <2>1, HistoryKeeps DEF Untaken
  <2>3. PlaceInv'
    BY <1>1, <1>10, <1>13, <2>1 DEF PlaceInv
  <2>4. AskedInv'
    BY <1>1, <1>3, <1>13, <2>1 DEF AskedInv
  <2>5. EndedInv'
    BY <1>1, <1>3, <1>13, <2>1 DEF EndedInv
  <2>6. HeardInv' /\ TakenInv'
    BY <1>13, <2>1 DEF HeardInv, TakenInv
  <2> QED BY <1>7, <1>8, <1>9, <2>2, <2>3, <2>4, <2>5, <2>6
<1>14. CASE hpc = "feed" /\ pstate = "READY"
  BY <1>1, <1>14 DEF AskedInv, Talks
<1>15. ASSUME hpc = "feed", pstate = "RUNNING"
       PROVE  /\ Talks /\ Talks' /\ (Connected <=> handle = "live")
              /\ (Connected' <=> handle = "live" /\ pstate' = "RUNNING")
              /\ Connected => toDev = <<>>
              /\ Posted
              /\ ~Connected => ~Running
              /\ InOrder(inbound) /\ ReadyLast(inbound) /\ ReadyLast(rest)
              /\ handle = "live" /\ Says(inbound, "READY") => dpc = "wait" /\ ~due
  <2>1. Talks /\ Talks' /\ (Connected <=> handle = "live")
        /\ (Connected' <=> handle = "live" /\ pstate' = "RUNNING")
    BY <1>1, <1>15 DEF Talks, Connected
  <2>2. InOrder(inbound) /\ ReadyLast(inbound)
        /\ (handle = "live" /\ Says(inbound, "READY") => dpc = "wait" /\ ~due)
    BY <1>15, <2>1 DEF HeardInv, AskedInv
  <2>3. Connected => toDev = <<>>
    BY <1>1 DEF TakenInv
  <2>4. Posted
    BY <2>3, EmptySeq DEF PlaceInv, Posted
  <2>5. ~Connected => ~Running
    BY DEF PlaceInv
  <2> QED BY <1>3, <2>1, <2>2, <2>3, <2>4, <2>5
<1>16. CASE hpc = "feed" /\ pstate = "RUNNING" /\ ln.tag = "READY"
  <2>1. /\ pstate' = IF curName = "" THEN "READY" ELSE "RUNNING"
        /\ UNCHANGED <<curName, sleepName, busy>>
    BY <1>2, <1>16 DEF HearsWaiting, HearsRunning, RunTags, SleepTags
  <2>2. rest = <<>> /\ Says(inbound, "READY") /\ ~Says(inbound, "DONE")
    BY <1>3, <1>15, <1>16, NothingSaid
  <2>3. Connected => /\ toDev = <<>> /\ dpc = "wait" /\ ~due /\ curName = ""
                     /\ ~Connected' /\ ~Running
    BY <1>15, <1>16, <2>1, <2>2 DEF TakenInv, Running
  <2>4. ~Connected' /\ ~Running
    BY <1>15, <1>16, <2>3
  <2>5. HistoryInv'
    <3>1. Untaken
      <4>1. Head(inbound).tag = "READY"
        BY <1>16 DEF ln
      <4> QED BY <1>1, <1>15, <1>16, <4>1 DEF Untaken
    <3>2. pstate' # "SLEEPING" /\ hpc' # "wakeWait"
      BY <1>1, <1>16, <2>1
    <3> QED BY <1>1, <2>1, <3>1, <3>2, HistoryKeeps
  <2>6. PlaceInv'
    BY <1>10, <1>15, <1>16, <2>1, <2>4
  <2>7. AskedInv'
    BY <1>1, <1>15, <1>16, <2>1, <2>2, <2>3, NothingSaid DEF AskedInv
  <2>8. EndedInv'
    BY <1>1, <1>16, <2>1 DEF EndedInv
  <2>9. HeardInv'
    BY <1>1, <2>2, NothingSaid DEF HeardInv
  <2>10. TakenInv'
    BY <2>4 DEF TakenInv
  <2> QED BY <1>7, <1>8, <1>9, <2>5, <2>6, <2>7, <2>8, <2>9, <2>10
<1>17. CASE hpc = "feed" /\ pstate = "RUNNING" /\ ln.tag \in RunTags
  <2>1. /\ curName' = IF ln.tag = "CASE:START" THEN ln.name ELSE curName
        /\ busy' = IF ln.tag = "BUSY" THEN TRUE ELSE busy
        /\ UNCHANGED <<pstate, sleepName>>
    BY <1>2, <1>17 DEF HearsWaiting, HearsRunning, RunTags, SleepTags
  <2>2. \A t : NamedBy(curName, inbound, t) => NamedBy(curName', rest, t)
    BY <1>5, <2>1
  <2>3. InOrder(rest) /\ (rest # <<>> => Head(rest).tag # "READY")
        /\ ln.tag \notin SleepTags \cup {"DONE", "READY"}
    BY <1>4, <1>15, <1>17 DEF RunTags, SleepTags
  <2>4. Connected /\ Connected' => (dpc = "wait" => Says(rest, "DONE"))
    BY <1>3, <2>3 DEF TakenInv
  <2>5. Connected' <=> Connected
    BY <1>15, <1>17, <2>1
  <2>6. HistoryInv'
    <3>1. ~Untaken'
      BY <1>1, <1>17, <2>1, <2>3, <2>4, <2>5 DEF Untaken
    <3> QED BY <1>1, <1>17, <2>1, <3>1, HistoryKeeps
  <2>7. PlaceInv'
    BY <1>10, <1>15, <1>17, <2>1, <2>5
  <2>8. AskedInv'
    BY <1>1, <1>3, <1>15, <1>17, <2>1, <2>5 DEF AskedInv
  <2>9. EndedInv'
    BY <1>1, <1>17, <2>1 DEF EndedInv
  <2>10. HeardInv'
    <3>1. SaysSleep(rest) => \E t \in Tests : NamedBy(curName', rest, t) /\ Slept(t)'
      BY <1>3, <1>6, <1>15, <1>17, <2>2 DEF HeardInv
    <3> QED BY <1>1, <2>3, <3>1 DEF HeardInv
  <2>11. TakenInv'
    <3> SUFFICES ASSUME Connected PROVE TakenInv'
      BY <2>5 DEF TakenInv
    <3>1. /\ dpc' \in {"wait", "doze"} \/ Running'
          /\ toDev' = <<>>
          /\ dpc' = "wait" => Says(rest, "DONE")
      BY <1>1, <1>15, <2>4, <2>5 DEF TakenInv, Running
    <3>2. Says(rest, "DONE") => dpc' = "wait"
      BY <1>1, <1>3 DEF TakenInv
    <3>3. /\ Running' => AllOfRun(rest)
          /\ dpc' \in {"test", "quiet", "hung"} => NamedBy(curName', rest, cur')
          /\ dpc' = "quiet" => busy' \/ Says(rest, "BUSY")
          /\ dpc' = "doze" <=> SaysSleep(rest)
      BY <1>1, <1>3, <2>1, <2>2, <2>3 DEF TakenInv, Running
    <3> QED BY <1>1, <3>1, <3>2, <3>3 DEF TakenInv
  <2> QED BY <1>7, <1>8, <1>9, <2>6, <2>7, <2>8, <2>9, <2>10, <2>11
<1>18. CASE hpc = "feed" /\ pstate = "RUNNING" /\ ln.tag \in SleepTags
  <2>1. /\ pstate' = "SLEEPING" /\ sleepName' = curName
        /\ UNCHANGED <<curName, busy>>
    BY <1>2, <1>18 DEF HearsWaiting, HearsRunning, RunTags, SleepTags
  <2>2. rest = <<>> /\ ln.tag # "CASE:START" /\ SaysSleep(inbound)
    BY <1>3, <1>4, <1>15, <1>18 DEF SleepTags
  <2>3. PICK t \in Tests : NamedBy(curName, inbound, t) /\ Slept(t)
    BY <1>15, <1>18, <2>2 DEF HeardInv
  <2>4. curName = NameOf[t]
    BY <1>5, <2>2, <2>3, NothingSaid
  <2>5. Connected => dpc = "doze"
    BY <2>2 DEF TakenInv
  <2>6. ~Connected' /\ ~Running
    BY <1>15, <1>18, <2>1, <2>5 DEF Running
  <2>7. HistoryInv'
    <3>1. ~Untaken'
      BY <1>1, <1>18, <2>1, <2>6 DEF Untaken
    <3>2. PhaseTwo' <=> PhaseTwo
      BY <1>1 DEF PhaseTwo
    <3> QED BY <1>1, <1>6, <1>18, <2>1, <2>3, <2>4, <3>1, <3>2 DEF HistoryInv
  <2>8. PlaceInv'
    BY <1>10, <1>15, <1>18, <2>1, <2>6
  <2>9. AskedInv'
    BY <1>1, <2>1, <2>2, NothingSaid DEF AskedInv
  <2>10. EndedInv'
    BY <1>1, <1>15, <1>18, <2>1, <2>2, <2>5 DEF EndedInv
  <2>11. HeardInv' /\ TakenInv'
    BY <2>1, <2>6 DEF HeardInv, TakenInv
  <2> QED BY <1>7, <1>8, <1>9, <2>7, <2>8, <2>9, <2>10, <2>11
<1>19. CASE hpc = "feed" /\ pstate = "RUNNING" /\ ln.tag = "DONE"
  <2>1. /\ pstate' = "FINISHED"
        /\ UNCHANGED <<curName, sleepName, busy>>
    BY <1>2, <1>19 DEF HearsWaiting, HearsRunning, RunTags, SleepTags
  <2>2. AllReady(rest) /\ Says(inbound, "DONE")
    BY <1>3, <1>4, <1>15, <1>19
  <2>3. Connected => dpc = "wait" /\ toDev = <<>>
    BY <2>2 DEF TakenInv
  <2>4. Connected /\ due => rest = <<>>
    <3>1. Connected /\ due => ~Says(rest, "READY")
      BY <1>3, <1>15, <1>19
    <3> QED BY <1>3, <2>2, <3>1, NothingLeft
  <2>5. ~Connected' /\ ~Running
    BY <1>15, <1>19, <2>1, <2>3 DEF Running
  <2>6. HistoryInv'
    <3>1. ~Untaken'
      BY <1>1, <1>19, <2>1, <2>5 DEF Untaken
    <3> QED BY <1>1, <1>19, <2>1, <3>1, HistoryKeeps
  <2>7. PlaceInv'
    BY <1>10, <1>15, <1>19, <2>1, <2>5
  <2>8. AskedInv'
    <3>1. handle = "live" /\ Says(rest, "READY") => dpc = "wait" /\ ~due /\ toDev = <<>>
      BY <1>3, <1>15, <1>19
    <3> QED BY <1>1, <1>15, <1>19, <2>1, <3>1 DEF AskedInv
  <2>9. EndedInv'
    BY <1>1, <1>15, <1>19, <2>1, <2>2, <2>3, <2>4 DEF EndedInv
  <2>10. HeardInv' /\ TakenInv'
    BY <2>1, <2>5 DEF HeardInv, TakenInv
  <2> QED BY <1>7, <1>8, <1>9, <2>6, <2>7, <2>8, <2>9, <2>10
<1>20. hpc = "feed" /\ pstate = "RUNNING" =>
           ln.tag \in RunTags \cup SleepTags \cup {"DONE", "READY"}
  BY <1>4, <1>15
<1> QED BY <1>1, <1>2, <1>11, <1>12, <1>13, <1>14, <1>16, <1>17, <1>18, <1>19, <1>20
        DEF HearsRunning

-----------------------------------------------------------------------------
(* The board, in a cycle.                                                   *)

(* What RoundsInv reads of the host stands while the board moves.           *)
HostStays ==
    UNCHANGED <<session, hpc, pstate, curName, sleepName, busy, cycle, target,
                retries, chunk, crashed, finishedByRunner>>

LEMMA BoardMoves ==
    ASSUME UNCHANGED hostVars, UNCHANGED session
    PROVE  HostStays
BY DEF HostStays, hostVars, runnerVars, protocolVars, roundVars, reportVars, sessionVars

(* A cycle runs only while the host listens for it.                         *)
LEMMA RunIsHeard ==
    ASSUME RoundsIndInv, Running
    PROVE  /\ Connected /\ Talks /\ handle = "live" /\ pstate = "RUNNING"
           /\ hpc \in {"read", "feed"}
           /\ toDev = <<>> /\ Posted /\ port /\ args = <<>>
           /\ AllOfRun(inbound) /\ InOrder(inbound)
           /\ ~Says(inbound, "READY") /\ ~Says(inbound, "DONE") /\ ~SaysSleep(inbound)
           /\ ~Says(wire, "READY")
           /\ inbound = chunk \o wire
<1> USE DEF RoundsIndInv, RoundsInv
<1>1. Connected /\ Talks /\ handle = "live" /\ pstate = "RUNNING" /\ port
      /\ hpc \in {"read", "feed"} /\ inbound = chunk \o wire
  BY DEF PlaceInv, Connected, Talks, inbound
<1>2. dpc \notin {"wait", "init", "doze"}
  BY DEF Running
<1>3. toDev = <<>> /\ AllOfRun(inbound)
  BY <1>1, <1>2 DEF TakenInv
<1>4. Posted /\ args = <<>>
  BY <1>1, <1>3, EmptySeq DEF PlaceInv, Posted
<1>5. InOrder(inbound)
  BY <1>1 DEF HeardInv
<1>6. ~Says(inbound, "READY") /\ ~Says(inbound, "DONE") /\ ~SaysSleep(inbound)
  BY <1>3 DEF AllOfRun, Says, SaysSleep, RunTags, SleepTags
<1>7. ~Says(wire, "READY")
  BY <1>1, <1>2 DEF OnceInv, Between
<1> QED BY <1>1, <1>3, <1>4, <1>5, <1>6, <1>7

(* Where a command and the cycle it started go on to.                       *)
GoesOn ==
    /\ Connected /\ HostStays
    /\ dpc' \in {"cycle", "test", "quiet", "hung", "doze", "wait"}
    /\ dpc' = "wait" => ~wake'
    /\ UNCHANGED <<port, handle>>
    /\ toDev' = <<>> /\ args' = <<>>

LEMMA CycleGoesOn ==
    ASSUME RoundsIndInv, GoesOn,
           wire' \in Seq(AnyLine), Clean(wire'), ~Says(wire', "READY"),
           InOrder(inbound'), ~Says(inbound', "READY"),
           dpc' = "wait" => Says(inbound', "DONE")
    PROVE  /\ PlaceInv' /\ OnceInv' /\ AskedInv' /\ EndedInv'
           /\ ~Untaken' /\ Connected'
<1> USE DEF RoundsIndInv, RoundsInv, GoesOn, HostStays
<1>1. /\ Connected /\ Talks /\ handle = "live" /\ pstate = "RUNNING"
      /\ hpc \in {"read", "feed"} /\ port
  BY DEF Connected, Talks, PlaceInv
<1>2. Connected' /\ Talks' /\ Posted' /\ toDev' = <<>>
  BY <1>1, EmptySeq DEF Connected, Talks, Posted
<1>3. ReadyLast(wire') /\ ReadyLast(inbound')
  BY DEF Says, ReadyLast
<1>4. PlaceInv'
  BY <1>1, <1>2 DEF PlaceInv
<1>5. OnceInv'
  BY <1>2, <1>3 DEF OnceInv
<1>6. AskedInv'
  BY <1>1, <1>2, <1>3 DEF AskedInv
<1>7. EndedInv'
  BY <1>1 DEF EndedInv
<1>8. ~Untaken'
  <2>1. inbound' # <<>> => Head(inbound').tag # "READY"
    <3>1. inbound' \in Seq(AnyLine)
      BY <1>1, <1>2, LinesArrive DEF inbound
    <3>2. inbound' # <<>> => 1 \in DOMAIN inbound' /\ Head(inbound') = inbound'[1]
      BY <3>1
    <3> QED BY <3>2 DEF Says
  <2> QED BY <1>1, <2>1 DEF Untaken
<1> QED BY <1>2, <1>4, <1>5, <1>6, <1>7, <1>8

(* A line of a cycle.                                                       *)
LEMMA RunSays ==
    ASSUME RoundsIndInv, Running, GoesOn, NEW ln \in AnyLine, Emit(<<ln>>),
           ln.crc # "bad", ln.tag \in RunTags \cup SleepTags \cup {"DONE"},
           dpc' = "wait" => ln.tag = "DONE"
    PROVE  /\ PlaceInv' /\ OnceInv' /\ AskedInv' /\ EndedInv'
           /\ ~Untaken' /\ Connected'
           /\ inbound \in Seq(AnyLine) /\ inbound' = inbound \o <<ln>>
           /\ InOrder(inbound')
           /\ Says(inbound', "DONE") <=> ln.tag = "DONE"
           /\ AllOfRun(inbound') <=> ln.tag \in RunTags
           /\ SaysSleep(inbound') <=> ln.tag \in SleepTags
           /\ Says(inbound', "BUSY") <=> Says(inbound, "BUSY") \/ ln.tag = "BUSY"
           /\ \A n, t : /\ ln.tag # "CASE:START" /\ NamedBy(n, inbound, t)
                               => NamedBy(n, inbound', t)
                        /\ ln.tag = "CASE:START" /\ ln.name = NameOf[t]
                               => NamedBy(n, inbound', t)
<1> USE DEF RoundsIndInv, RoundsInv
<1>1. /\ handle = "live" /\ inbound = chunk \o wire /\ AllOfRun(inbound)
      /\ InOrder(inbound) /\ ~Says(inbound, "READY") /\ ~Says(inbound, "DONE")
      /\ ~SaysSleep(inbound) /\ ~Says(wire, "READY") /\ Clean(wire)
  BY RunIsHeard DEF PlaceInv
<1>2. wire \in Seq(AnyLine) /\ chunk \in Seq(AnyLine) /\ inbound \in Seq(AnyLine)
  BY LinesArrive
<1>3. wire' = wire \o <<ln>> /\ handle' = "live" /\ chunk' = chunk
  BY <1>1 DEF Emit, GoesOn, HostStays
<1>4. inbound' = inbound \o <<ln>>
  <2>1. <<ln>> \in Seq(AnyLine)
    OBVIOUS
  <2>2. inbound' = chunk \o (wire \o <<ln>>)
    BY <1>3 DEF inbound
  <2> HIDE DEF inbound
  <2> QED BY <1>1, <1>2, <2>1, <2>2, ConcatAssociative
<1>5. ln.tag # "READY" /\ ln.tag # "CRASH"
  BY DEF RunTags, SleepTags
<1>6. wire' \in Seq(AnyLine) /\ Clean(wire') /\ ~Says(wire', "READY")
  <2>1. wire' \in Seq(AnyLine)
    BY <1>2, <1>3
  <2> QED BY <1>1, <1>2, <1>3, <1>5, <2>1, Adds
<1>7. /\ \A tag : Says(inbound', tag) <=> Says(inbound, tag) \/ ln.tag = tag
      /\ AllOfRun(inbound') <=> AllOfRun(inbound) /\ ln.tag \in RunTags
      /\ SaysSleep(inbound') <=> SaysSleep(inbound) \/ ln.tag \in SleepTags
  BY <1>2, <1>4, Adds
<1>8. InOrder(inbound')
  BY <1>1, <1>2, <1>4, AddsInOrder
<1>9. \A n, t : /\ ln.tag # "CASE:START" /\ NamedBy(n, inbound, t)
                       => NamedBy(n, inbound', t)
                /\ ln.tag = "CASE:START" /\ ln.name = NameOf[t]
                       => NamedBy(n, inbound', t)
  BY <1>2, <1>4, AddsName
<1>10. ~Says(inbound', "READY") /\ (dpc' = "wait" => Says(inbound', "DONE"))
  BY <1>1, <1>5, <1>7
<1>11. /\ PlaceInv' /\ OnceInv' /\ AskedInv' /\ EndedInv'
       /\ ~Untaken' /\ Connected'
  BY <1>6, <1>8, <1>10, CycleGoesOn
<1> QED BY <1>1, <1>2, <1>4, <1>7, <1>8, <1>9, <1>11

(* The lines of a cycle are lines.                                          *)
LEMMA RunLines ==
    /\ \A tag \in {"FAIL", "BUSY", "SLEEP", "RESTART", "DONE"} :
          /\ Tagged(tag) \in AnyLine /\ Console(tag) \in AnyLine
          /\ Tagged(tag).tag = tag /\ Console(tag).tag = tag
          /\ Tagged(tag).crc = "ok" /\ Console(tag).crc = "absent"
    /\ TestsInSuites => \A t \in Tests :
          LET ln == Line("CASE:START", SuiteOf[t], NameOf[t], 0)
          IN  /\ ln \in AnyLine /\ ln.tag = "CASE:START" /\ ln.crc = "ok"
              /\ ln.name = NameOf[t]
BY DEF Line, Tagged, Console, NoName, AnyLine, DeviceTags, Tags, Crc, TestsInSuites

(* The order of the tests.                                                  *)
LEMMA TestsAreNumbers == Tests \subseteq Nat /\ 0 \notin Tests
<1>1. N \in Nat
  BY RegistryAssumption
<1> QED BY <1>1 DEF Tests

(* A running test fails, or announces that it is going to be silent.        *)
LEMMA SpeaksKeeps ==
    ASSUME RoundsIndInv, HostStays, FailAssertion \/ SignalBusy
    PROVE  RoundsInv' /\ TypesInv'
<1> USE DEF RoundsIndInv, RoundsInv
<1>1. /\ dpc = "test" /\ dpc' \in {"test", "quiet"}
      /\ UNCHANGED <<due, args, wake, todo, cur, begun, ended, naps, port, handle, toDev>>
  BY DEF FailAssertion, SignalBusy, registryVars, cycleVars, historyVars
<1>2. PICK ln \in AnyLine : /\ Emit(<<ln>>) /\ ln.tag \in {"FAIL", "BUSY"}
                            /\ ln.crc # "bad"
                            /\ dpc' = "quiet" => ln.tag = "BUSY"
  BY RunLines DEF FailAssertion, SignalBusy
<1>3. Running /\ GoesOn
  BY <1>1, RunIsHeard DEF Running, GoesOn
<1>4. /\ PlaceInv' /\ OnceInv' /\ AskedInv' /\ EndedInv' /\ ~Untaken' /\ Connected'
      /\ InOrder(inbound') /\ ~Says(inbound', "DONE") /\ AllOfRun(inbound')
      /\ ~SaysSleep(inbound') /\ (dpc' = "quiet" => Says(inbound', "BUSY"))
      /\ \A n, t : NamedBy(n, inbound, t) => NamedBy(n, inbound', t)
  BY <1>1, <1>2, <1>3, RunSays DEF RunTags, SleepTags
<1>5. Connected /\ toDev = <<>> /\ hpc \in {"read", "feed"}
  BY <1>3, RunIsHeard
<1>6. HistoryInv'
  BY <1>1, <1>4, <1>5, HistoryKeeps DEF HostStays, Connected
<1>7. RunInv'
  BY <1>1, <1>3, RunKeeps DEF HostStays, Running
<1>8. HeardInv'
  BY <1>4 DEF HeardInv
<1>9. TakenInv'
  <2>1. NamedBy(curName', inbound', cur')
    <3>1. NamedBy(curName, inbound, cur)
      BY <1>1, <1>5 DEF TakenInv
    <3> QED BY <1>1, <1>4, <3>1 DEF HostStays
  <2> QED BY <1>1, <1>4, <1>5, <2>1 DEF TakenInv, Running
<1>10. TypesInv'
  BY <1>1 DEF TypesInv
<1> QED BY <1>4, <1>6, <1>7, <1>8, <1>9, <1>10

(* The next test: after all that were, or the one this cycle wakes.         *)
LEMMA StartKeeps ==
    ASSUME RoundsAssumed, RoundsIndInv, HostStays, StartTest
    PROVE  RoundsInv' /\ TypesInv'
<1> USE DEF RoundsIndInv, RoundsInv
<1>1. /\ dpc = "cycle" /\ dpc' = "test"
      /\ UNCHANGED <<due, args, wake, ended, naps, port, handle, toDev>>
  BY DEF StartTest, registryVars
<1>2. PICK t \in todo : /\ \A u \in todo : t <= u
                        /\ Emit(<<Line("CASE:START", SuiteOf[t], NameOf[t], 0)>>)
                        /\ todo' = todo \ {t} /\ cur' = t /\ begun' = begun \cup {t}
  BY DEF StartTest
<1> DEFINE ln == Line("CASE:START", SuiteOf[t], NameOf[t], 0)
<1>3. /\ t \in Tests /\ todo \subseteq Tests /\ begun \subseteq Tests
      /\ ln \in AnyLine /\ ln.tag = "CASE:START" /\ ln.crc = "ok" /\ ln.name = NameOf[t]
  <2>1. t \in Tests /\ todo \subseteq Tests /\ begun \subseteq Tests
    BY <1>2 DEF SessionInv, WireInv
  <2> QED BY <2>1, RunLines DEF RoundsAssumed
<1>4. Emit(<<ln>>)
  BY <1>2
<1> HIDE DEF ln
<1>5. Running /\ GoesOn
  BY <1>1, RunIsHeard DEF Running, GoesOn
<1>6. /\ PlaceInv' /\ OnceInv' /\ AskedInv' /\ EndedInv' /\ ~Untaken' /\ Connected'
      /\ InOrder(inbound') /\ ~Says(inbound', "DONE") /\ AllOfRun(inbound')
      /\ ~SaysSleep(inbound')
      /\ \A n : NamedBy(n, inbound', t)
  BY <1>1, <1>3, <1>4, <1>5, RunSays DEF RunTags, SleepTags
<1>7. Connected /\ toDev = <<>> /\ pstate = "RUNNING" /\ hpc \in {"read", "feed"}
  BY <1>5, RunIsHeard
<1>8. /\ wake = PhaseTwo /\ \A u \in todo : MayRun(u) /\ (~wake => \A b \in begun : b < u)
  BY <1>5 DEF RunInv
<1>9. wake => UpTo(t)
  <2>1. ASSUME wake PROVE UpTo(t)
    <3>1. PICK v \in Tests : NameOf[v] = target /\ UpTo(v)
      BY <1>8, <2>1 DEF HistoryInv
    <3>2. NameOf[t] = target
      BY <1>2, <1>8, <2>1 DEF MayRun
    <3>3. t = v
      BY <1>3, <3>1, <3>2 DEF RoundsAssumed
    <3> QED BY <3>1, <3>3
  <2> QED BY <2>1
<1>10. UpTo(t)' /\ \A u \in todo' : ~wake => \A b \in begun' : b < u
  <2>1. \A b \in begun : b <= t
    <3>1. \A b \in begun : b \in Nat /\ t \in Nat
      BY <1>3, TestsAreNumbers
    <3>2. CASE wake
      BY <1>9, <3>2 DEF UpTo
    <3>3. CASE ~wake
      BY <1>2, <1>8, <3>1, <3>3
    <3> QED BY <3>2, <3>3
  <2>2. \A u \in todo' : u \in Nat /\ t \in Nat /\ t <= u /\ u # t
    BY <1>2, <1>3, TestsAreNumbers
  <2>3. \A u \in todo' : t < u
    BY <2>2
  <2>4. t <= t
    BY <1>3, TestsAreNumbers
  <2> QED BY <1>2, <1>8, <2>1, <2>3, <2>4 DEF UpTo
<1>11. \A u : MayRun(u)' <=> MayRun(u)
  BY <1>1 DEF MayRun, HostStays
<1>12. RunInv'
  <2>1. wake' = PhaseTwo'
    BY <1>1, <1>8 DEF HostStays, PhaseTwo
  <2> QED BY <1>1, <1>2, <1>8, <1>10, <1>11, <2>1 DEF RunInv
<1>13. HistoryInv'
  <2>1. PhaseTwo' => \E v \in Tests : NameOf[v] = target' /\ UpTo(v)'
    <3>1. PhaseTwo' => NameOf[t] = target'
      BY <1>2, <1>8 DEF MayRun, HostStays, PhaseTwo
    <3> QED BY <1>3, <1>10, <3>1
  <2> QED BY <1>1, <1>2, <1>6, <1>7, <2>1 DEF HistoryInv, HostStays
<1>14. HeardInv'
  BY <1>6 DEF HeardInv
<1>15. TakenInv'
  BY <1>1, <1>2, <1>6, <1>7 DEF TakenInv, Running
<1>16. TypesInv'
  BY <1>1 DEF TypesInv
<1> QED BY <1>6, <1>12, <1>13, <1>14, <1>15, <1>16

LEMMA EndKeeps ==
    ASSUME RoundsIndInv, HostStays, EndTest
    PROVE  RoundsInv' /\ TypesInv'
<1> USE DEF RoundsIndInv, RoundsInv
<1>1. /\ dpc \in {"test", "quiet"} /\ dpc' = "cycle"
      /\ ended' = ended \cup {cur} /\ cur' = 0
      /\ UNCHANGED <<due, args, wake, todo, begun, naps, port, handle, wire, toDev>>
  BY DEF EndTest, BodyDone, registryVars, linkVars
<1>2. Running /\ GoesOn /\ Running'
  BY <1>1, RunIsHeard DEF Running, GoesOn
<1>3. /\ Connected /\ toDev = <<>> /\ hpc \in {"read", "feed"} /\ pstate = "RUNNING"
      /\ AllOfRun(inbound) /\ InOrder(inbound)
      /\ ~Says(inbound, "READY") /\ ~Says(inbound, "DONE") /\ ~SaysSleep(inbound)
      /\ ~Says(wire, "READY")
  BY <1>2, RunIsHeard
<1>4. inbound' = inbound
  BY <1>1 DEF inbound, HostStays
<1>5. /\ PlaceInv' /\ OnceInv' /\ AskedInv' /\ EndedInv' /\ ~Untaken' /\ Connected'
  <2>1. wire' \in Seq(AnyLine) /\ Clean(wire')
    BY <1>1, LinesArrive DEF PlaceInv
  <2> QED BY <1>1, <1>2, <1>3, <1>4, <2>1, CycleGoesOn
<1>6. /\ wake = PhaseTwo /\ cur \in begun /\ cur \notin todo
      /\ \A u \in todo : MayRun(u) /\ (~wake => \A b \in begun : b < u)
  BY <1>1, <1>2 DEF RunInv
<1>7. RunInv'
  <2>1. \A u \in todo : MayRun(u)'
    BY <1>1, <1>6 DEF MayRun, HostStays
  <2>2. wake' = PhaseTwo'
    BY <1>1, <1>6 DEF HostStays, PhaseTwo
  <2> QED BY <1>1, <1>6, <2>1, <2>2 DEF RunInv
<1>8. HistoryInv'
  <2>1. PhaseTwo' => \E v \in Tests : NameOf[v] = target' /\ UpTo(v)'
    BY <1>1 DEF HistoryInv, HostStays, PhaseTwo, UpTo
  <2> QED BY <1>1, <1>3, <1>5, <1>6, <2>1 DEF HistoryInv, HostStays
<1>9. HeardInv'
  BY <1>3, <1>4 DEF HeardInv
<1>10. TakenInv'
  BY <1>1, <1>3, <1>4 DEF TakenInv, Running
<1>11. TypesInv'
  BY <1>1 DEF TypesInv
<1> QED BY <1>5, <1>7, <1>8, <1>9, <1>10, <1>11

(* A test hangs, or was only slow: it is still running.                     *)
LEMMA HangKeeps ==
    ASSUME RoundsIndInv, HostStays, Hang \/ Unhang
    PROVE  RoundsInv' /\ TypesInv'
<1> USE DEF RoundsIndInv, RoundsInv
<1>1. /\ dpc \in {"test", "quiet", "hung"} /\ dpc' \in {"test", "hung"}
      /\ UNCHANGED <<due, args, wake, todo, cur, begun, ended, naps, port, handle, wire, toDev>>
  BY DEF Hang, Unhang, registryVars, cycleVars, historyVars, linkVars
<1>2. Running /\ GoesOn /\ Running'
  BY <1>1, RunIsHeard DEF Running, GoesOn
<1>3. /\ Connected /\ toDev = <<>> /\ hpc \in {"read", "feed"} /\ pstate = "RUNNING"
      /\ AllOfRun(inbound) /\ InOrder(inbound)
      /\ ~Says(inbound, "READY") /\ ~Says(inbound, "DONE") /\ ~SaysSleep(inbound)
      /\ ~Says(wire, "READY")
  BY <1>2, RunIsHeard
<1>4. inbound' = inbound
  BY <1>1 DEF inbound, HostStays
<1>5. /\ PlaceInv' /\ OnceInv' /\ AskedInv' /\ EndedInv' /\ ~Untaken' /\ Connected'
  <2>1. wire' \in Seq(AnyLine) /\ Clean(wire')
    BY <1>1, LinesArrive DEF PlaceInv
  <2> QED BY <1>1, <1>2, <1>3, <1>4, <2>1, CycleGoesOn
<1>6. HistoryInv'
  BY <1>1, <1>3, <1>5, HistoryKeeps DEF HostStays
<1>7. RunInv'
  BY <1>1, <1>2, RunKeeps DEF HostStays
<1>8. HeardInv'
  BY <1>3, <1>4 DEF HeardInv
<1>9. TakenInv'
  <2>1. NamedBy(curName', inbound', cur')
    BY <1>1, <1>3, <1>4 DEF TakenInv, HostStays
  <2> QED BY <1>1, <1>3, <1>4, <2>1 DEF TakenInv, Running
<1>10. TypesInv'
  BY <1>1 DEF TypesInv
<1> QED BY <1>5, <1>6, <1>7, <1>8, <1>9, <1>10

LEMMA RetriesAreNumbers ==
    ASSUME RoundsAssumed, SessionInv
    PROVE  \A t \in Tests : /\ retries[NameOf[t]] \in Nat
                            /\ retries[NameOf[t]] <= MaxSleepRetries
<1>1. retries \in [Names \cup {""} -> 0..MaxSleepRetries] /\ MaxSleepRetries \in Nat
  BY RunnerAssumption DEF SessionInv, HostInv, RunnerTypeOK
<1>2. \A t \in Tests : NameOf[t] \in Names \cup {""}
  BY DEF RoundsAssumed, TestsInSuites
<1>3. \A t \in Tests : retries[NameOf[t]] \in 0..MaxSleepRetries
  BY <1>1, <1>2
<1>4. \A m \in Nat : \A r \in 0..m : r \in Nat /\ r <= m
  OBVIOUS
<1> QED BY <1>1, <1>3, <1>4

LEMMA SleepKeeps ==
    ASSUME RoundsAssumed, RoundsIndInv, HostStays, SignalSleep
    PROVE  RoundsInv' /\ TypesInv'
<1> USE DEF RoundsIndInv, RoundsInv
<1>1. /\ dpc \in {"test", "quiet"} /\ dpc' = "doze"
      /\ naps' = [naps EXCEPT ![cur] = IF @ < MaxNaps THEN @ + 1 ELSE @]
      /\ UNCHANGED <<due, args, wake, todo, cur, begun, ended, port, handle, toDev>>
  BY DEF SignalSleep, BodyDone, registryVars, cycleVars
<1>2. PICK ln \in AnyLine : /\ Emit(<<ln>>) /\ ln.tag \in SleepTags /\ ln.crc # "bad"
  BY RunLines DEF SignalSleep, SleepTags
<1>3. Running /\ GoesOn /\ ~Running'
  BY <1>1, RunIsHeard DEF Running, GoesOn
<1>4. /\ PlaceInv' /\ OnceInv' /\ AskedInv' /\ EndedInv' /\ ~Untaken' /\ Connected'
      /\ InOrder(inbound') /\ ~Says(inbound', "DONE") /\ SaysSleep(inbound')
      /\ \A n, t : NamedBy(n, inbound, t) => NamedBy(n, inbound', t)
  BY <1>1, <1>2, <1>3, RunSays DEF RunTags, SleepTags
<1>5. /\ Connected /\ toDev = <<>> /\ hpc \in {"read", "feed"} /\ pstate = "RUNNING"
  BY <1>3, RunIsHeard
<1>6. /\ cur \in begun /\ cur \in Tests /\ MayRun(cur) /\ UpTo(cur)
      /\ NamedBy(curName, inbound, cur)
  <2>1. cur \in begun /\ MayRun(cur) /\ UpTo(cur) /\ NamedBy(curName, inbound, cur)
    BY <1>1, <1>3, <1>5 DEF RunInv, TakenInv
  <2> QED BY <2>1 DEF SessionInv, WireInv
<1>7. /\ naps \in [Tests -> Nat] /\ naps' \in [Tests -> Nat] /\ naps'[cur] > 0
      /\ naps'[cur] <= naps[cur] + 1
      /\ \A t \in Tests : t # cur => naps'[t] = naps[t]
  <2>1. naps \in [Tests -> Nat] /\ MaxNaps \in Nat \ {0} /\ naps[cur] \in Nat
    BY <1>6, FirmwareAssumption DEF TypesInv
  <2> QED BY <1>1, <1>6, <2>1
<1>8. \E t \in Tests : t = cur /\ Slept(t)'
  BY <1>1, <1>6, <1>7 DEF Slept, UpTo, MayRun
<1>9. RunInv'
  BY <1>3 DEF RunInv
<1>10. HistoryInv'
  <2>1. ASSUME NEW t \in Tests
        PROVE  /\ naps'[t] > 0 => t \in begun'
               /\ naps'[t] <= retries'[NameOf[t]] + 1
    <3>1. CASE t # cur
      BY <1>1, <1>7, <3>1 DEF HistoryInv, HostStays
    <3>2. CASE t = cur
      <4>1. naps[cur] <= retries[NameOf[cur]]
        BY <1>6 DEF MayRun
      <4>2. retries[NameOf[cur]] \in Nat /\ naps[cur] \in Nat /\ naps'[cur] \in Nat
        BY <1>6, <1>7, RetriesAreNumbers
      <4> QED BY <1>1, <1>6, <1>7, <3>2, <4>1, <4>2 DEF HostStays
    <3> QED BY <3>1, <3>2
  <2>2. PhaseTwo' => \E v \in Tests : NameOf[v] = target' /\ UpTo(v)'
    BY <1>1 DEF HistoryInv, HostStays, PhaseTwo, UpTo
  <2> QED BY <1>1, <1>4, <1>5, <2>1, <2>2 DEF HistoryInv, HostStays
<1>11. HeardInv'
  <2>1. NamedBy(curName', inbound', cur)
    BY <1>4, <1>6 DEF HostStays
  <2>2. \E t \in Tests : NamedBy(curName', inbound', t) /\ Slept(t)'
    BY <1>8, <2>1
  <2> QED BY <1>4, <2>2 DEF HeardInv
<1>12. TakenInv'
  BY <1>1, <1>3, <1>4, <1>5 DEF TakenInv
<1>13. TypesInv'
  BY <1>1, <1>7 DEF TypesInv
<1> QED BY <1>4, <1>9, <1>10, <1>11, <1>12, <1>13

LEMMA FinishKeeps ==
    ASSUME RoundsIndInv, HostStays, FinishCycle
    PROVE  RoundsInv' /\ TypesInv'
<1> USE DEF RoundsIndInv, RoundsInv
<1> DEFINE ln == Tagged("DONE")
<1>1. /\ dpc = "cycle" /\ dpc' = "wait" /\ wake' = FALSE /\ due' /\ Emit(<<ln>>)
      /\ UNCHANGED <<args, todo, cur, begun, ended, naps, port, handle, toDev>>
  BY DEF FinishCycle, cycleVars, historyVars
<1>2. ln \in AnyLine /\ ln.tag = "DONE" /\ ln.crc = "ok"
  BY RunLines
<1> HIDE DEF ln
<1>3. Running /\ GoesOn /\ ~Running'
  BY <1>1, RunIsHeard DEF Running, GoesOn
<1>4. /\ PlaceInv' /\ OnceInv' /\ AskedInv' /\ EndedInv' /\ ~Untaken' /\ Connected'
      /\ InOrder(inbound') /\ Says(inbound', "DONE") /\ ~SaysSleep(inbound')
  BY <1>1, <1>2, <1>3, RunSays DEF RunTags, SleepTags
<1>5. Connected /\ toDev = <<>> /\ hpc \in {"read", "feed"} /\ pstate = "RUNNING"
  BY <1>3, RunIsHeard
<1>6. HistoryInv'
  BY <1>1, <1>4, <1>5, HistoryKeeps DEF HostStays
<1>7. RunInv'
  BY <1>3 DEF RunInv
<1>8. HeardInv'
  BY <1>4 DEF HeardInv
<1>9. TakenInv'
  BY <1>1, <1>3, <1>4, <1>5 DEF TakenInv
<1>10. TypesInv'
  BY <1>1 DEF TypesInv
<1> QED BY <1>4, <1>6, <1>7, <1>8, <1>9, <1>10

-----------------------------------------------------------------------------
(* A command arrives.                                                       *)

LEMMA Ends ==
    ASSUME NEW n \in Nat, NEW k \in 0..n
    PROVE  /\ k < n => k + 1 \in 1..n /\ k + 1 \in 0..n
           /\ ~(k < n) => k = n
           /\ k = n => (n + 1) - k = 1
OBVIOUS

LEMMA LeftOver ==
    ASSUME NEW S, NEW s \in Seq(S), NEW n \in Nat, Len(s) = n + 1, NEW k \in 0..n
    PROVE  LET left == SubSeq(s, k + 1, n + 1)
           IN  /\ left \in Seq(S) /\ Len(left) = (n + 1) - k /\ left # <<>>
               /\ Head(left) = s[k + 1]
               /\ Tail(left) = SubSeq(s, k + 2, n + 1)
               /\ k = n => Tail(left) = <<>>
<1> DEFINE left == SubSeq(s, k + 1, n + 1)
<1>1. left \in Seq(S) /\ Len(left) = (n + 1) - k /\ left # <<>> /\ Head(left) = s[k + 1]
  OBVIOUS
<1>2. Tail(left) = SubSeq(s, k + 2, n + 1)
  OBVIOUS
<1>3. k = n => Tail(left) = <<>>
  <2>1. k = n => Len(left) = 1
    BY <1>1
  <2> HIDE DEF left
  <2>2. k = n => Len(Tail(left)) = 0 /\ Tail(left) \in Seq(S)
    BY <1>1, <2>1, OneLineLess
  <2> QED BY <2>2, EmptySeq
<1> QED BY <1>1, <1>2, <1>3

(* What is left of a script starts with its next line.                      *)
LEMMA ScriptGoesOn ==
    ASSUME RoundsAssumed, NEW c, NEW k \in 0..Len(ArgsLines)
    PROVE  LET left == SubSeq(Script(c), k + 1, Len(ArgsLines) + 1)
           IN  /\ left # <<>> /\ \E S : left \in Seq(S)
               /\ k = Len(ArgsLines) => Head(left) = CommandOf(c) /\ Tail(left) = <<>>
               /\ k < Len(ArgsLines) =>
                     /\ k + 1 \in 1..Len(ArgsLines) /\ k + 1 \in 0..Len(ArgsLines)
                     /\ Head(left) = Message("ARGS", "", ArgsLines[k + 1])
                     /\ Tail(left) = SubSeq(Script(c), k + 2, Len(ArgsLines) + 1)
<1> DEFINE n == Len(ArgsLines)
           s == Script(c)
<1>1. /\ n \in Nat /\ Len(s) = n + 1 /\ s[n + 1] = CommandOf(c)
      /\ \A i \in 1..n : s[i] = Message("ARGS", "", ArgsLines[i])
      /\ k \in 0..n
  BY ScriptIs
<1>2. PICK S : s \in Seq(S)
  BY ScriptIs
<1> HIDE DEF n, s
<1>3. k < n => k + 1 \in 1..n /\ k + 1 \in 0..n
  BY <1>1, Ends
<1> DEFINE left == SubSeq(s, k + 1, n + 1)
<1>4. /\ left \in Seq(S) /\ left # <<>> /\ Head(left) = s[k + 1]
      /\ Tail(left) = SubSeq(s, k + 2, n + 1)
      /\ k = n => Tail(left) = <<>>
  BY <1>1, <1>2, LeftOver
<1> HIDE DEF left
<1> QED BY <1>1, <1>3, <1>4 DEF n, s, left

(* A command comes whole, after all its ETST:ARGS lines, to a board that    *)
(* listens for it.                                                          *)
LEMMA CommandArrives ==
    ASSUME RoundsAssumed, RoundsIndInv, ReceiveCommand
    PROVE  /\ Connected /\ inbound = <<>> /\ dpc = "wait" /\ ~wake /\ Fresh
           /\ toDev' = <<>> /\ Prologue(CommandOf(cycle))
<1> USE DEF RoundsIndInv, RoundsInv
<1>1. /\ dpc = "wait" /\ toDev # <<>>
      /\ Head(toDev).crc = "ok" /\ Head(toDev).kind # "ARGS"
      /\ toDev' = Tail(toDev) /\ Prologue(Head(toDev))
  BY DEF ReceiveCommand, Receives
<1>2. Connected
  <2> SUFFICES ASSUME toDev \in Seq({PostMessage}) PROVE FALSE
    BY DEF PlaceInv, Posted
  <2>1. Head(toDev) = PostMessage
    BY <1>1
  <2>2. PostMessage.crc = "absent"
    BY DEF PostMessage, Message
  <2> QED BY <1>1, <2>1, <2>2
<1>3. ScriptLeft /\ inbound = <<>>
  BY <1>1, <1>2 DEF TakenInv
<1> DEFINE damaged == [CommandOf(cycle) EXCEPT !.crc = "bad"]
<1>4. toDev # <<damaged>>
  <2>1. damaged.crc = "bad"
    BY DEF CommandOf, RoundsAssumed, ResumeCommand, PhaseTwoCommand, Message
  <2> HIDE DEF damaged
  <2>2. Head(<<damaged>>) = damaged
    OBVIOUS
  <2> QED BY <1>1, <2>1, <2>2
<1>5. PICK k \in 0..Len(ArgsLines) :
              toDev = SubSeq(Script(cycle), k + 1, Len(ArgsLines) + 1)
  BY <1>3, <1>4 DEF ScriptLeft
<1>6. ~(k < Len(ArgsLines))
  <2> SUFFICES ASSUME k < Len(ArgsLines) PROVE FALSE
    OBVIOUS
  <2>1. Head(toDev) = Message("ARGS", "", ArgsLines[k + 1])
    BY <1>5, ScriptGoesOn
  <2>2. Message("ARGS", "", ArgsLines[k + 1]).kind = "ARGS"
    BY DEF Message
  <2> QED BY <1>1, <2>1, <2>2, Zenon
<1>7. k = Len(ArgsLines)
  BY <1>5, <1>6, ScriptIs, Ends
<1>8. Head(toDev) = CommandOf(cycle) /\ toDev' = <<>>
  BY <1>1, <1>5, <1>7, ScriptGoesOn
<1>9. Untaken /\ ~wake
  <2>1. ~Says(inbound, "DONE")
    BY <1>3, NothingSaid
  <2> QED BY <1>1, <1>2, <2>1 DEF Untaken, PlaceInv
<1> QED BY <1>1, <1>2, <1>3, <1>8, <1>9 DEF HistoryInv

(* Plain flags neither wake nor un-skip, nor end the configure phase; none  *)
(* is a --test-case.                                                        *)
LEMMA PlainFlags ==
    ASSUME NEW fl \in Seq(PlainFlag)
    PROVE  /\ ~Malformed(fl) /\ NothingUnskips(fl)
           /\ \A i \in DOMAIN fl : fl[i] # WakeFlag
           /\ ~Has(fl, "--test-case")
<1>1. \A i \in DOMAIN fl : fl[i] \in PlainFlag
  OBVIOUS
<1>2. WakeFlag \notin PlainFlag
  BY DEF PlainFlag, WakeFlag, FlagOn
<1> QED BY <1>1, <1>2 DEF PlainFlag, Malformed, NothingUnskips, Has

LEMMA PlainCommand ==
    ASSUME NEW msg, msg.flags \in Seq(PlainFlag), args \in Seq(PlainFlag)
    PROVE  CommandFlags(msg, args) \in Seq(PlainFlag)
<1>1. /\ args \o msg.flags \in Seq(PlainFlag) /\ msg.flags \o args \in Seq(PlainFlag)
      /\ <<>> \in Seq(PlainFlag)
  OBVIOUS
<1> QED BY <1>1 DEF CommandFlags

(* What the command of each cycle makes the board run.                      *)
LEMMA FirstSelects ==
    ASSUME RoundsAssumed, args \in Seq(PlainFlag), cycle = "first"
    PROVE  LET msg == CommandOf(cycle)
               fl == CommandFlags(msg, args)
           IN  /\ msg.kind # "LIST" /\ ~Malformed(fl)
               /\ \A i \in DOMAIN fl : fl[i] # WakeFlag
<1> DEFINE msg == CommandOf(cycle)
           fl == CommandFlags(msg, args)
<1>1. msg.kind \in {"RUN", "RUN_ALL", "RUN:", "RESUME_AFTER"}
      /\ msg.flags \in Seq(PlainFlag)
  BY DEF CommandOf, RoundsAssumed, Message
<1> HIDE DEF msg
<1>2. fl \in Seq(PlainFlag)
  BY <1>1, PlainCommand
<1> HIDE DEF fl
<1>3. ~Malformed(fl) /\ \A i \in DOMAIN fl : fl[i] # WakeFlag
  BY <1>2, PlainFlags
<1> QED BY <1>1, <1>3 DEF msg, fl

LEMMA ResumeSelects ==
    ASSUME RoundsAssumed, args \in Seq(PlainFlag), cycle = "resume",
           NEW t \in Tests, NameOf[t] = target
    PROVE  LET msg == CommandOf(cycle)
               fl == CommandFlags(msg, args)
           IN  /\ msg.kind # "LIST" /\ ~Malformed(fl)
               /\ \A i \in DOMAIN fl : fl[i] # WakeFlag
               /\ \A u \in RunBy(skip, env, msg, fl) : t < u
<1> DEFINE msg == CommandOf(cycle)
           fl == CommandFlags(msg, args)
           run == Message("RUN_ALL", "", <<>>)
<1>1. msg.kind = "RESUME_AFTER" /\ msg.name = target /\ msg.flags = <<>>
  BY DEF CommandOf, ResumeCommand, Message
<1>2. run.kind # "RESUME_AFTER"
  BY DEF Message
<1> HIDE DEF msg, run
<1>3. fl \in Seq(PlainFlag)
  BY <1>1, EmptySeq, PlainCommand
<1>4. t \in FirstNamed(target)
  <2>1. \A q \in 1..(t - 1) : q \in Tests /\ q # t
    <3>1. N \in Nat
      BY RegistryAssumption
    <3> QED BY <3>1 DEF Tests
  <2> QED BY <2>1 DEF FirstNamed, RoundsAssumed
<1> HIDE DEF fl
<1>5. NothingUnskips(fl) /\ ~Malformed(fl) /\ \A i \in DOMAIN fl : fl[i] # WakeFlag
  BY <1>3, PlainFlags
<1>6. \A u : u \in RunBy(skip, env, msg, fl) => \A p \in FirstNamed(msg.name) : u > p
  BY <1>1, <1>2, <1>5, RunsAfterResume
<1>7. \A u \in RunBy(skip, env, msg, fl) : u \in Tests
  BY DEF RunBy, DoctestSelects
<1>8. ASSUME NEW u \in RunBy(skip, env, msg, fl) PROVE t < u
  <2>1. u > t /\ u \in Nat /\ t \in Nat
    BY <1>1, <1>4, <1>6, <1>7, TestsAreNumbers
  <2> QED BY <2>1
<1> QED BY <1>1, <1>5, <1>8 DEF msg, fl

LEMMA PhaseTwoSelects ==
    ASSUME RoundsAssumed, args \in Seq(PlainFlag), PhaseTwo,
           NEW t \in Tests, NameOf[t] = target
    PROVE  LET msg == CommandOf(cycle)
               fl == CommandFlags(msg, args)
           IN  /\ msg.kind # "LIST" /\ ~Malformed(fl)
               /\ \E i \in DOMAIN fl : fl[i] = WakeFlag /\ ReachedBy(fl, i)
               /\ RunBy(skip, env, msg, fl) \subseteq {t}
<1> DEFINE msg == CommandOf(cycle)
           fl == CommandFlags(msg, args)
           run == Message("RUN_ALL", "", <<>>)
           own == FlagOn("--tc", {u \in Tests : NameOf[u] = target})
<1>1. target # ""
  BY ProtocolAssumption DEF RoundsAssumed, TestsInSuites
<1>2. msg.kind = "RUN:" /\ msg.flags = <<WakeFlag, own>>
  BY <1>1 DEF CommandOf, PhaseTwoCommand, Message, PhaseTwo
<1>3. run.kind # "RESUME_AFTER"
  BY DEF Message
<1>4. WakeFlag.flag = "--wake" /\ own.flag = "--tc" /\ own.tests = {t}
      /\ WakeFlag # MalformedEnv
  BY DEF WakeFlag, FlagOn, MalformedEnv, RoundsAssumed
<1>5. WakeFlag # MalformedEnv /\ own # MalformedEnv
  BY DEF WakeFlag, FlagOn, MalformedEnv
<1> HIDE DEF msg, run, own
<1>6. fl = args \o <<WakeFlag, own>>
  BY <1>2 DEF CommandFlags
<1>7. ~Malformed(args) /\ ~Has(args, "--test-case")
  BY PlainFlags
<1>8. /\ Len(args) \in Nat /\ DOMAIN args = 1..Len(args)
      /\ DOMAIN fl = 1..(Len(args) + 2)
      /\ \A i \in 1..Len(args) : fl[i] = args[i]
      /\ fl[Len(args) + 1] = WakeFlag /\ fl[Len(args) + 2] = own
  BY <1>6
<1>9. \A i \in 1..(Len(args) + 2) :
          i \in 1..Len(args) \/ i = Len(args) + 1 \/ i = Len(args) + 2
  BY <1>8
<1>10. Len(args) + 1 \in DOMAIN fl /\ 1..(Len(args) + 1) \subseteq DOMAIN fl
  BY <1>8
<1> HIDE DEF fl
<1>11. ~Malformed(fl)
  BY <1>5, <1>7, <1>8, <1>9 DEF Malformed
<1>12. RunBy(skip, env, msg, args \o <<WakeFlag, own>>) \subseteq own.tests
  BY <1>2, <1>3, <1>4, <1>7, LastPatternRuns
<1>13. ReachedBy(fl, Len(args) + 1)
  BY <1>10, <1>11 DEF ReachedBy, Malformed
<1> QED BY <1>2, <1>4, <1>6, <1>8, <1>10, <1>11, <1>12, <1>13 DEF msg, fl

(* A test that was not started has not ended and not slept.                 *)
LEMMA Unstarted ==
    ASSUME RoundsAssumed, RoundsIndInv, NEW u \in Tests, u \notin begun
    PROVE  u \notin ended /\ naps[u] <= retries[NameOf[u]] /\ ~(naps[u] > 0)
<1>1. u \notin ended /\ ~(naps[u] > 0)
  BY DEF RoundsIndInv, RoundsInv, HistoryInv
<1>2. naps[u] \in Nat /\ retries[NameOf[u]] \in Nat
  BY RetriesAreNumbers DEF RoundsIndInv, TypesInv
<1> QED BY <1>1, <1>2

(* The command selects what it is meant for.                                *)
LEMMA CommandSelects ==
    ASSUME RoundsAssumed, RoundsIndInv, ReceiveCommand
    PROVE  /\ wake' = PhaseTwo
           /\ \A u \in todo' :
                 /\ u \notin ended /\ naps[u] <= retries[NameOf[u]]
                 /\ wake' <=> naps[u] > 0
                 /\ wake' => NameOf[u] = target
                 /\ ~wake' => \A b \in begun : b < u
           /\ \E ln \in AnyLine : Emit(<<ln>>) /\ ln.tag = "COUNTS" /\ ln.crc = "ok"
<1> USE DEF RoundsIndInv
<1> DEFINE msg == CommandOf(cycle)
           fl == CommandFlags(msg, args)
           wakes == \E i \in DOMAIN fl : fl[i] = WakeFlag /\ ReachedBy(fl, i)
           ln == Line("COUNTS", NoName, NoName, CountBy(skip, env, msg, fl))
<1>1. ~wake /\ Fresh /\ args \in Seq(PlainFlag) /\ Prologue(msg)
  BY CommandArrives DEF TypesInv
<1>2. /\ Emit((IF Malformed(fl) THEN <<Tagged("ERROR")>> ELSE <<>>)
              \o (IF msg.kind = "LIST" THEN <<>> ELSE <<ln>>))
      /\ todo' = IF msg.kind = "LIST" THEN {} ELSE RunBy(skip, env, msg, fl)
      /\ wake' = (wake \/ wakes)
  BY <1>1 DEF Prologue
<1>3. cycle \in {"first", "resume"} \/ PhaseTwo
  BY DEF SessionInv, HostInv, RunnerTypeOK, Cycles, PhaseTwo
<1>4. RunBy(skip, env, msg, fl) \subseteq Tests /\ begun \subseteq Tests
  BY DEF RunBy, DoctestSelects, SessionInv, WireInv
<1>5. ln \in AnyLine /\ ln.tag = "COUNTS" /\ ln.crc = "ok"
  <2>1. CountBy(skip, env, msg, fl) \in Nat
    BY CountsAreNatural
  <2> HIDE DEF msg, fl
  <2> QED BY <2>1 DEF Line, NoName, AnyLine, DeviceTags, Tags, Crc
<1> HIDE DEF ln
<1>12. PhaseTwo \in BOOLEAN /\ wake' \in BOOLEAN
  BY <1>2 DEF PhaseTwo
<1>6. CASE cycle = "first"
  <2>1. msg.kind # "LIST" /\ ~Malformed(fl) /\ ~wakes
    BY <1>1, <1>6, FirstSelects
  <2>2. begun = {} /\ ~PhaseTwo
    BY <1>1, <1>6 DEF Fresh, PhaseTwo
  <2> HIDE DEF msg, fl, wakes
  <2>3. /\ Emit(<<>> \o <<ln>>) /\ todo' = RunBy(skip, env, msg, fl)
    BY <1>2, <2>1
  <2>4. Emit(<<ln>>)
    <3>1. <<>> \o <<ln>> = <<ln>>
      OBVIOUS
    <3> QED BY <2>3, <3>1
  <2>5. \A u \in todo' : u \in Tests /\ u \notin begun
    BY <1>4, <2>2, <2>3
  <2>6. ~wake' /\ wake' = PhaseTwo
    BY <1>1, <1>2, <2>1, <2>2, <1>12, Zenon
  <2> QED BY <1>5, <2>2, <2>4, <2>5, <2>6, Unstarted
<1>7. CASE cycle = "resume"
  <2>1. PICK t \in Tests : NameOf[t] = target /\ UpTo(t)
    BY <1>1, <1>7 DEF Fresh
  <2>2. msg.kind # "LIST" /\ ~Malformed(fl) /\ ~wakes
        /\ \A u \in RunBy(skip, env, msg, fl) : t < u
    BY <1>1, <1>7, <2>1, ResumeSelects
  <2> HIDE DEF msg, fl, wakes
  <2>3. Emit(<<>> \o <<ln>>) /\ todo' = RunBy(skip, env, msg, fl)
    BY <1>2, <2>2
  <2>4. Emit(<<ln>>)
    <3>1. <<>> \o <<ln>> = <<ln>>
      OBVIOUS
    <3> QED BY <2>3, <3>1
  <2>5. ASSUME NEW u \in todo' PROVE u \in Tests /\ \A b \in begun : b < u
    <3>1. u \in Tests /\ t < u
      BY <1>4, <2>2, <2>3, <2>5
    <3>2. ASSUME NEW b \in begun PROVE b < u
      <4>1. b <= t /\ b \in Tests
        BY <1>4, <2>1, <3>2 DEF UpTo
      <4>2. b \in Nat /\ t \in Nat /\ u \in Nat
        BY <2>1, <3>1, <4>1, TestsAreNumbers
      <4> QED BY <3>1, <4>1, <4>2
    <3> QED BY <3>1, <3>2
  <2>6. \A u \in todo' : u \in Tests /\ u \notin begun
    <3>1. \A u \in Tests : u \in Nat
      BY TestsAreNumbers
    <3> QED BY <2>5, <3>1
  <2>7. ~PhaseTwo
    BY <1>7 DEF PhaseTwo
  <2>8. ~wake' /\ wake' = PhaseTwo
    BY <1>1, <1>2, <2>2, <2>7, <1>12, Zenon
  <2> QED BY <1>5, <2>4, <2>5, <2>6, <2>8, Unstarted
<1>8. CASE PhaseTwo
  <2>1. PICK t \in Tests : NameOf[t] = target /\ Slept(t) /\ naps[t] <= retries[target]
    BY <1>1, <1>8 DEF Fresh
  <2>2. msg.kind # "LIST" /\ ~Malformed(fl) /\ wakes
        /\ RunBy(skip, env, msg, fl) \subseteq {t}
    BY <1>1, <1>8, <2>1, PhaseTwoSelects
  <2> HIDE DEF msg, fl, wakes
  <2>3. /\ Emit(<<>> \o <<ln>>) /\ todo' = RunBy(skip, env, msg, fl)
        /\ wake' = TRUE /\ PhaseTwo = TRUE
    BY <1>1, <1>2, <1>8, <2>2 DEF PhaseTwo
  <2>4. Emit(<<ln>>)
    <3>1. <<>> \o <<ln>> = <<ln>>
      OBVIOUS
    <3> QED BY <2>3, <3>1
  <2>5. \A u \in todo' : u = t
    BY <2>2, <2>3
  <2> QED BY <1>5, <2>1, <2>3, <2>4, <2>5 DEF Slept
<1> QED BY <1>3, <1>6, <1>7, <1>8

LEMMA CommandKeeps ==
    ASSUME RoundsAssumed, RoundsIndInv, HostStays, ReceiveCommand
    PROVE  RoundsInv' /\ TypesInv'
<1> USE DEF RoundsIndInv, RoundsInv
<1>1. /\ Connected /\ inbound = <<>> /\ toDev' = <<>> /\ dpc = "wait"
      /\ dpc' = "cycle" /\ args' = <<>>
      /\ UNCHANGED <<due, cur, begun, ended, naps, port, handle>>
  <2>1. Connected /\ inbound = <<>> /\ toDev' = <<>> /\ dpc = "wait"
        /\ Prologue(CommandOf(cycle))
    BY CommandArrives
  <2> QED BY <2>1 DEF Prologue, ReceiveCommand, historyVars
<1>2. PICK ln \in AnyLine : Emit(<<ln>>) /\ ln.tag = "COUNTS" /\ ln.crc = "ok"
  BY CommandSelects
<1>3. /\ wire = <<>> /\ chunk = <<>> /\ wire' = <<ln>> /\ inbound' = <<ln>>
  <2>1. inbound = chunk \o wire /\ handle = "live"
    BY <1>1 DEF Connected, inbound
  <2>2. wire = <<>> /\ chunk = <<>>
    BY <1>1, <2>1, LinesArrive, Prefix
  <2>3. wire' = <<>> \o <<ln>>
    BY <1>2, <2>1, <2>2 DEF Emit
  <2>4. <<>> \o <<ln>> = <<ln>>
    OBVIOUS
  <2>5. inbound' = chunk' \o wire' /\ chunk' = <<>>
    BY <1>1, <2>1, <2>2 DEF inbound, HostStays
  <2> QED BY <2>2, <2>3, <2>4, <2>5
<1>4. /\ <<ln>> \in Seq(AnyLine) /\ DOMAIN <<ln>> = {1} /\ <<ln>>[1] = ln /\ <<ln>> # <<>>
  OBVIOUS
<1> DEFINE one == <<ln>>
<1> HIDE DEF one
<1>5. /\ one \in Seq(AnyLine) /\ Clean(one) /\ ~Says(one, "READY") /\ InOrder(one)
      /\ AllOfRun(one) /\ ~Says(one, "DONE") /\ ~SaysSleep(one)
  <2>1. one \in Seq(AnyLine) /\ DOMAIN one = {1} /\ one[1] = ln
    BY <1>4 DEF one
  <2> QED BY <1>2, <2>1 DEF Clean, Says, InOrder, AllOfRun, SaysSleep, RunTags, SleepTags
<1>6. wire' = one /\ inbound' = one
  BY <1>3 DEF one
<1>7. GoesOn
  BY <1>1 DEF GoesOn
<1>8. PlaceInv' /\ OnceInv' /\ AskedInv' /\ EndedInv' /\ ~Untaken' /\ Connected'
  BY <1>1, <1>5, <1>6, <1>7, CycleGoesOn
<1>9. hpc \in {"read", "feed"} /\ pstate = "RUNNING"
  BY <1>1 DEF Connected, Talks
<1>10. HistoryInv'
  BY <1>1, <1>8, <1>9, HistoryKeeps DEF HostStays
<1>11. RunInv'
  BY <1>1, CommandSelects DEF RunInv, MayRun, HostStays, PhaseTwo
<1>12. HeardInv'
  BY <1>5, <1>6 DEF HeardInv
<1>13. TakenInv'
  BY <1>1, <1>5, <1>6 DEF TakenInv, Running
<1>14. TypesInv'
  BY <1>1, EmptySeq DEF TypesInv
<1> QED BY <1>8, <1>10, <1>11, <1>12, <1>13, <1>14

-----------------------------------------------------------------------------
(* The board, between cycles.                                               *)

(* A board that is not in a cycle goes on without one.                      *)
LEMMA IdleKeeps ==
    ASSUME HistoryInv, RunInv, HostStays, UNCHANGED <<begun, ended, naps>>,
           ~Running', Untaken' => Untaken \/ Fresh
    PROVE  HistoryInv' /\ RunInv'
<1>1. HistoryInv'
  BY HistoryKeeps DEF HostStays
<1>2. RunInv'
  BY DEF RunInv
<1> QED BY <1>1, <1>2

LEMMA BoardInitKeeps ==
    ASSUME RoundsIndInv, HostStays, BoardInit
    PROVE  RoundsInv' /\ TypesInv'
<1> USE DEF RoundsIndInv, RoundsInv, HostStays
<1>1. /\ dpc = "init" /\ dpc' = "wait"
      /\ UNCHANGED <<due, args, wake, todo, cur, begun, ended, naps, port, handle, wire, toDev>>
  BY DEF BoardInit, registryVars, cycleVars, historyVars, linkVars
<1>2. ~Connected /\ ~Connected' /\ ~Running' /\ Posted /\ Posted' /\ inbound' = inbound
  BY <1>1 DEF TakenInv, PlaceInv, Running, Connected, Talks, inbound, Posted
<1>3. HistoryInv' /\ RunInv'
  BY <1>1, <1>2, IdleKeeps DEF Untaken, Talks
<1>4. PlaceInv'
  BY <1>1, <1>2 DEF PlaceInv, Talks
<1>5. OnceInv'
  <2>1. toDev = <<>> => Len(toDev) <= 1
    OBVIOUS
  <2> QED BY <1>1, <1>2, <2>1 DEF OnceInv, Between
<1>6. AskedInv'
  BY <1>1, <1>2 DEF AskedInv, Talks
<1>7. EndedInv'
  <2>1. toDev = <<>> => Len(toDev) <= 1
    OBVIOUS
  <2> QED BY <1>1, <1>2, <2>1 DEF EndedInv, Talks
<1>8. HeardInv'
  BY <1>1, <1>2, HistoryStands DEF HeardInv, Talks
<1>9. TakenInv'
  BY <1>2 DEF TakenInv
<1>10. TypesInv'
  BY <1>1 DEF TypesInv
<1> QED BY <1>3, <1>4, <1>5, <1>6, <1>7, <1>8, <1>9, <1>10

(* READY_INTERVAL_MS passes only after the host had time to answer.         *)
LEMMA IntervalKeeps ==
    ASSUME RoundsAssumed, RoundsIndInv, HostStays, ReadyTimer
    PROVE  RoundsInv' /\ TypesInv'
<1> USE DEF RoundsIndInv, RoundsInv, HostStays
<1>1. /\ dpc = "wait" /\ dpc' = dpc /\ ~due /\ wire = <<>> /\ toDev = <<>> /\ hpc # "feed"
      /\ UNCHANGED <<args, wake, todo, cur, begun, ended, naps, port, handle, wire, toDev>>
  BY DEF ReadyTimer, LinkIdle, IntervalElapses, RoundsAssumed,
     registryVars, cycleVars, historyVars, linkVars
<1>2. /\ inbound' = inbound /\ Posted' = Posted /\ Connected' = Connected
      /\ ~Running' /\ (Talks => hpc = "read" /\ inbound = <<>>)
  <2>1. Talks => hpc = "read" /\ chunk = <<>>
    BY <1>1, Quiet DEF Talks
  <2> QED BY <1>1, <2>1 DEF inbound, Posted, Connected, Talks, Running
<1>3. HistoryInv' /\ RunInv'
  BY <1>1, <1>2, IdleKeeps DEF Untaken, Talks
<1>4. PlaceInv'
  BY <1>1, <1>2 DEF PlaceInv, Talks, Running
<1>5. OnceInv'
  <2>1. Len(<<>>) <= 1
    OBVIOUS
  <2> QED BY <1>1, <1>2, <2>1, NothingSaid DEF OnceInv, Between
<1>6. AskedInv'
  BY <1>1, <1>2, NothingSaid DEF AskedInv, Talks, PlaceInv
<1>7. EndedInv'
  <2>1. Len(<<>>) <= 1
    OBVIOUS
  <2> QED BY <1>1, <1>2, <2>1, NothingSaid DEF EndedInv, Talks, PlaceInv
<1>8. HeardInv'
  BY <1>1, <1>2, HistoryStands DEF HeardInv, Talks
<1>9. TakenInv'
  BY <1>1, <1>2 DEF TakenInv, Running
<1>10. TypesInv'
  BY <1>1 DEF TypesInv
<1> QED BY <1>3, <1>4, <1>5, <1>6, <1>7, <1>8, <1>9, <1>10

LEMMA UnsaidIsLast == \A s : ~Says(s, "READY") => ReadyLast(s)
BY DEF Says, ReadyLast

(* Only READY says nothing else.                                            *)
LEMMA OnlyReady ==
    ASSUME NEW S, NEW s \in Seq(S), AllReady(s), ~Says(s, "READY")
    PROVE  s = <<>>
<1>1. \A i \in DOMAIN s : FALSE
  BY DEF AllReady, Says
<1>2. s # <<>> => 1 \in DOMAIN s
  OBVIOUS
<1> QED BY <1>1, <1>2

LEMMA EmitReadyKeeps ==
    ASSUME RoundsAssumed, RoundsIndInv, HostStays, EmitReady
    PROVE  RoundsInv' /\ TypesInv'
<1> USE DEF RoundsIndInv, RoundsInv, HostStays
<1> DEFINE ln == Tagged("READY")
<1>1. /\ dpc = "wait" /\ dpc' = "wait" /\ due /\ ~due' /\ args' = <<>> /\ Emit(<<ln>>)
      /\ UNCHANGED <<wake, todo, cur, begun, ended, naps, port, handle, toDev>>
  BY DEF EmitReady, cycleVars, historyVars
<1>2. ln \in AnyLine /\ ln.tag = "READY" /\ ln.crc = "ok"
  BY DEF Line, Tagged, NoName, AnyLine, DeviceTags, Tags, Crc
<1> HIDE DEF ln
<1>3. wire' = wire \o <<ln>> \/ (handle # "live" /\ wire' = wire)
  BY <1>1 DEF Emit
<1>4. wire \in Seq(AnyLine) /\ chunk \in Seq(AnyLine) /\ inbound \in Seq(AnyLine)
  BY LinesArrive
<1>5. IF handle = "live" THEN inbound' = inbound \o <<ln>> ELSE inbound' = inbound
  <2>1. CASE handle = "live"
    <3>1. <<ln>> \in Seq(AnyLine)
      BY <1>2
    <3>2. inbound' = chunk \o (wire \o <<ln>>) /\ inbound = chunk \o wire
      BY <1>1, <1>3, <2>1 DEF inbound
    <3> HIDE DEF inbound
    <3>3. chunk \o (wire \o <<ln>>) = (chunk \o wire) \o <<ln>>
      BY <1>4, <3>1, ConcatAssociative
    <3> QED BY <2>1, <3>2, <3>3
  <2>2. CASE handle # "live"
    BY <1>1, <2>2 DEF inbound
  <2> QED BY <2>1, <2>2
<1>6. /\ Clean(wire) => Clean(wire')
      /\ ~Says(wire, "READY") => ReadyLast(wire')
  <2>1. CASE wire' = wire \o <<ln>>
    BY <1>2, <1>4, <2>1, Adds
  <2>2. CASE wire' = wire
    BY <2>2, UnsaidIsLast
  <2> QED BY <1>3, <2>1, <2>2
<1>7. /\ \A tag : Says(inbound', tag) =>
                     Says(inbound, tag) \/ (handle = "live" /\ tag = "READY")
      /\ \A tag : Says(inbound, tag) => Says(inbound', tag)
      /\ AllReady(inbound) => AllReady(inbound')
      /\ AllOfRun(inbound') => AllOfRun(inbound)
      /\ SaysSleep(inbound') <=> SaysSleep(inbound)
      /\ ~Says(inbound, "READY") => ReadyLast(inbound')
      /\ ReadyLast(inbound) /\ handle # "live" => ReadyLast(inbound')
  <2>1. ln.tag \notin SleepTags
    BY <1>2 DEF SleepTags
  <2>2. CASE handle = "live"
    <3>1. inbound' = inbound \o <<ln>>
      BY <1>5, <2>2
    <3>2. /\ \A tag : Says(inbound', tag) <=> Says(inbound, tag) \/ ln.tag = tag
          /\ AllReady(inbound') <=> AllReady(inbound) /\ ln.tag = "READY"
          /\ ~Says(inbound, "READY") => ReadyLast(inbound')
          /\ AllOfRun(inbound') <=> AllOfRun(inbound) /\ ln.tag \in RunTags
          /\ SaysSleep(inbound') <=> SaysSleep(inbound) \/ ln.tag \in SleepTags
      BY <1>2, <1>4, <3>1, Adds
    <3> QED BY <1>2, <2>1, <2>2, <3>2
  <2>3. CASE handle # "live"
    BY <1>5, <2>3, UnsaidIsLast
  <2> QED BY <2>2, <2>3
<1>8. /\ Connected' = Connected /\ Talks' = Talks /\ Posted' = Posted
      /\ ~Running' /\ ~Running
  BY <1>1 DEF Connected, Talks, Posted, Running
<1>9. Talks => ReadyLast(inbound) /\ (handle = "live" => ~Says(inbound, "READY") /\ toDev = <<>>)
  BY <1>1 DEF AskedInv, OnceInv, Between, Talks
<1>10. Connected /\ ~Says(inbound, "DONE") => inbound = <<>> /\ curName = ""
  <2>1. Connected /\ ~Says(inbound, "DONE") => AllReady(inbound) /\ curName = ""
    BY <1>1 DEF TakenInv
  <2> QED BY <1>4, <1>9, <2>1, OnlyReady DEF Connected
<1>11. HistoryInv' /\ RunInv'
  <2>1. ASSUME Untaken' PROVE Untaken
    <3>1. CASE Talks /\ pstate = "RUNNING" /\ handle = "live"
      <4>1. Connected
        BY <3>1 DEF Connected
      <4>2. CASE ~Says(inbound, "DONE")
        BY <1>1, <4>1, <4>2 DEF Untaken
      <4>3. CASE Says(inbound, "DONE")
        <5>1. inbound # <<>>
          BY <4>3, NothingSaid
        <5>2. Head(inbound').tag = "READY" => Head(inbound).tag = "READY"
          BY <1>2, <1>4, <1>5, <3>1, <5>1, OneMoreLine
        <5>3. Says(inbound', "DONE")
          BY <1>7, <4>3
        <5> QED BY <1>1, <2>1, <3>1, <5>1, <5>2, <5>3 DEF Untaken
      <4> QED BY <4>2, <4>3
    <3>2. CASE ~(Talks /\ pstate = "RUNNING" /\ handle = "live")
      BY <1>1, <1>5, <1>8, <2>1, <3>2 DEF Untaken, Connected
    <3> QED BY <3>1, <3>2
  <2> QED BY <1>1, <1>8, <2>1, IdleKeeps
<1>12. PlaceInv'
  BY <1>1, <1>6, <1>8 DEF PlaceInv
<1>13. OnceInv'
  BY <1>1, <1>6, <1>8 DEF OnceInv, Between
<1>14. AskedInv'
  BY <1>1, <1>5, <1>7, <1>8, <1>9 DEF AskedInv
<1>15. EndedInv'
  BY <1>1, <1>5, <1>7, <1>8, <1>9 DEF EndedInv
<1>16. HeardInv'
  <2>1. CASE handle = "live"
    <3>1. Talks /\ pstate = "RUNNING" => ~SaysSleep(inbound')
      BY <1>1, <1>7, <2>1 DEF TakenInv, Connected
    <3>2. Talks /\ pstate = "RUNNING" => InOrder(inbound')
      <4>1. Talks /\ pstate = "RUNNING" => /\ InOrder(inbound) /\ ~Says(inbound, "READY")
                                           /\ inbound = <<>> \/ Says(inbound, "DONE")
        BY <1>9, <1>10, <2>1 DEF HeardInv, Connected
      <4> QED BY <1>2, <1>4, <1>5, <2>1, <4>1, AddsInOrder
    <3> QED BY <1>8, <3>1, <3>2 DEF HeardInv
  <2>2. CASE handle # "live"
    BY <1>1, <1>5, <1>8, <2>2, HistoryStands DEF HeardInv
  <2> QED BY <2>1, <2>2
<1>17. TakenInv'
  BY <1>1, <1>7, <1>8, <1>9 DEF TakenInv, Connected
<1>18. TypesInv'
  BY <1>1, EmptySeq DEF TypesInv
<1> QED BY <1>11, <1>12, <1>13, <1>14, <1>15, <1>16, <1>17, <1>18

(* What is in the board's receive buffer: what is left of a command, or     *)
(* post-test messages.                                                      *)
LEMMA HeadOfCommand ==
    ASSUME RoundsAssumed, RoundsIndInv, toDev # <<>>, Head(toDev).crc # "absent"
    PROVE  /\ Connected /\ ScriptLeft /\ inbound = <<>> /\ dpc = "wait" /\ ~due
           /\ handle = "live" /\ hpc \in {"read", "feed"} /\ pstate = "RUNNING"
           /\ wire = <<>> /\ chunk = <<>>
<1> USE DEF RoundsIndInv, RoundsInv
<1>1. Connected
  <2> SUFFICES ASSUME toDev \in Seq({PostMessage}) PROVE FALSE
    BY DEF PlaceInv, Posted
  <2>1. Head(toDev) = PostMessage
    OBVIOUS
  <2>2. PostMessage.crc = "absent"
    BY DEF PostMessage, Message
  <2> QED BY <2>1, <2>2
<1>2. ScriptLeft /\ inbound = <<>> /\ dpc = "wait" /\ ~due
  BY <1>1 DEF TakenInv
<1>3. wire = <<>> /\ chunk = <<>>
  <2>1. chunk \o wire = <<>>
    BY <1>1, <1>2 DEF inbound, Connected
  <2> QED BY <2>1, LinesArrive, Prefix
<1> QED BY <1>1, <1>2, <1>3 DEF Connected, Talks

LEMMA HeadIsRun ==
    ASSUME RoundsAssumed, RoundsIndInv, toDev # <<>>, Head(toDev).crc = "ok"
    PROVE  \E k \in 0..Len(ArgsLines) :
              /\ toDev = SubSeq(Script(cycle), k + 1, Len(ArgsLines) + 1)
              /\ \/ k < Len(ArgsLines) /\ Head(toDev).kind = "ARGS"
                 \/ /\ k = Len(ArgsLines)
                    /\ Head(toDev).kind \in {"RUN", "RUN_ALL", "RUN:", "RESUME_AFTER"}
<1> DEFINE damaged == [CommandOf(cycle) EXCEPT !.crc = "bad"]
<1>1. ScriptLeft
  BY HeadOfCommand
<1>2. toDev # <<damaged>>
  <2>1. damaged.crc = "bad"
    BY DEF CommandOf, RoundsAssumed, ResumeCommand, PhaseTwoCommand, Message
  <2> HIDE DEF damaged
  <2>2. Head(<<damaged>>) = damaged
    OBVIOUS
  <2> QED BY <2>1, <2>2
<1>3. PICK k \in 0..Len(ArgsLines) :
              toDev = SubSeq(Script(cycle), k + 1, Len(ArgsLines) + 1)
  BY <1>1, <1>2 DEF ScriptLeft
<1>4. CASE k < Len(ArgsLines)
  <2>1. Head(toDev) = Message("ARGS", "", ArgsLines[k + 1])
    BY <1>3, <1>4, ScriptGoesOn
  <2>2. Message("ARGS", "", ArgsLines[k + 1]).kind = "ARGS"
    BY DEF Message
  <2>3. Head(toDev).kind = "ARGS"
    BY <2>1, <2>2, Zenon
  <2> QED BY <1>3, <1>4, <2>3
<1>5. CASE ~(k < Len(ArgsLines))
  <2>1. k = Len(ArgsLines)
    BY <1>3, <1>5, ScriptIs, Ends
  <2>2. Head(toDev) = CommandOf(cycle)
    BY <1>3, <2>1, ScriptGoesOn
  <2>3. CommandOf(cycle).kind \in {"RUN", "RUN_ALL", "RUN:", "RESUME_AFTER"}
    BY DEF CommandOf, RoundsAssumed, ResumeCommand, PhaseTwoCommand, Message
  <2>4. Head(toDev).kind \in {"RUN", "RUN_ALL", "RUN:", "RESUME_AFTER"}
    BY <2>2, <2>3, Zenon
  <2> QED BY <1>3, <2>1, <2>4
<1> QED BY <1>4, <1>5

LEMMA NoControls ==
    ASSUME RoundsAssumed, RoundsIndInv
    PROVE  ~ReceivePowerCommand /\ ~ReceiveIdleCommand /\ ~RunStandalone
<1>1. ~ReceivePowerCommand
  BY HeadIsRun DEF ReceivePowerCommand
<1>2. ~ReceiveIdleCommand
  BY HeadIsRun DEF ReceiveIdleCommand, Receives
<1> QED BY <1>1, <1>2 DEF RunStandalone, RoundsAssumed

(* A command on its way moves on.                                           *)
LEMMA ScriptMoves ==
    ASSUME RoundsAssumed, RoundsIndInv, HostStays,
           toDev # <<>>, Head(toDev).crc # "absent",
           toDev' = <<>> \/ (ScriptLeft' /\ Head(toDev').crc # "absent"),
           Posted' => args' = <<>>, args' \in Seq(PlainFlag),
           due' => toDev' = <<>>,
           UNCHANGED <<dpc, wake, todo, cur, begun, ended, naps, port, handle, wire>>
    PROVE  RoundsInv' /\ TypesInv'
<1> USE DEF RoundsIndInv, RoundsInv, HostStays
<1>1. /\ Connected /\ ScriptLeft /\ inbound = <<>> /\ dpc = "wait" /\ ~due
      /\ handle = "live" /\ hpc \in {"read", "feed"} /\ pstate = "RUNNING"
      /\ wire = <<>> /\ chunk = <<>>
  BY HeadOfCommand
<1>2. /\ Connected' = Connected /\ Talks' = Talks
      /\ ~Running' /\ ~Running /\ inbound' = inbound
  BY <1>1 DEF Connected, Talks, Running, inbound
<1>3. HistoryInv' /\ RunInv'
  BY <1>1, <1>2, IdleKeeps DEF Untaken
<1>4. PlaceInv'
  BY <1>1, <1>2 DEF PlaceInv, Talks
<1>5. OnceInv'
  <2>1. ~(Posted' /\ toDev' # <<>>)
    <3> SUFFICES ASSUME Posted', toDev' # <<>>, Head(toDev').crc # "absent" PROVE FALSE
      OBVIOUS
    <3>1. PostMessage.crc = "absent"
      BY DEF PostMessage, Message
    <3>2. Head(toDev').crc = "absent"
      <4>1. Head(toDev') = PostMessage
        BY DEF Posted
      <4> QED BY <3>1, <4>1, Zenon
    <3> QED BY <3>2
  <2>2. Len(<<>>) <= 1
    OBVIOUS
  <2> QED BY <1>1, <1>2, <2>1, <2>2, NothingSaid DEF OnceInv
<1>6. AskedInv'
  BY <1>1, <1>2, NothingSaid DEF AskedInv
<1>7. EndedInv'
  BY <1>1 DEF EndedInv
<1>8. HeardInv'
  BY <1>1, <1>2, NothingSaid DEF HeardInv
<1>9. TakenInv'
  BY <1>1, <1>2, NothingSaid DEF TakenInv
<1>10. TypesInv'
  BY DEF TypesInv
<1> QED BY <1>3, <1>4, <1>5, <1>6, <1>7, <1>8, <1>9, <1>10

LEMMA OnlyOne ==
    ASSUME NEW S, NEW s \in Seq(S), s # <<>>, Tail(s) = <<>>
    PROVE  s = <<Head(s)>>
<1>1. Len(s) - 1 = 0 /\ Len(s) \in Nat
  BY OneLineLess
<1>2. Len(s) = 1
  BY <1>1
<1> QED BY <1>2

LEMMA ItemOf ==
    ASSUME NEW S, NEW s \in Seq(S), NEW i \in 1..Len(s)
    PROVE  s[i] \in S
OBVIOUS

LEMMA OneAndOne == \A n \in Nat : \A k \in 0..n : (k + 1) + 1 = k + 2
OBVIOUS

LEMMA ArgsKeep ==
    ASSUME RoundsAssumed, RoundsIndInv, HostStays, ReceiveArgs
    PROVE  RoundsInv' /\ TypesInv'
<1> USE DEF RoundsIndInv
<1>1. /\ toDev # <<>> /\ Head(toDev).crc = "ok" /\ Head(toDev).kind = "ARGS"
      /\ toDev' = Tail(toDev) /\ args' = args \o Head(toDev).flags /\ ~due'
      /\ UNCHANGED <<dpc, wake, todo, cur, begun, ended, naps, port, handle, wire>>
  BY DEF ReceiveArgs, Receives, registryVars, cycleVars, historyVars
<1>2. PICK k \in 0..Len(ArgsLines) :
         /\ toDev = SubSeq(Script(cycle), k + 1, Len(ArgsLines) + 1)
         /\ k < Len(ArgsLines)
  BY <1>1, HeadIsRun
<1>3. /\ k + 1 \in 1..Len(ArgsLines) /\ k + 1 \in 0..Len(ArgsLines)
      /\ Head(toDev) = Message("ARGS", "", ArgsLines[k + 1])
      /\ toDev' = SubSeq(Script(cycle), k + 2, Len(ArgsLines) + 1)
  BY <1>1, <1>2, ScriptGoesOn
<1>4. args' \in Seq(PlainFlag)
  <2>1. ArgsLines[k + 1] \in Seq(PlainFlag)
    <3>1. ArgsLines \in Seq(Seq(PlainFlag)) /\ k + 1 \in 1..Len(ArgsLines)
      BY <1>3 DEF RoundsAssumed
    <3> QED BY <3>1, ItemOf
  <2>2. Head(toDev).flags = ArgsLines[k + 1]
    <3>1. Message("ARGS", "", ArgsLines[k + 1]).flags = ArgsLines[k + 1]
      BY DEF Message
    <3> QED BY <1>3, <3>1, Zenon
  <2> QED BY <1>1, <2>1, <2>2 DEF TypesInv
<1>5. (k + 1) + 1 = k + 2
  <2>1. Len(ArgsLines) \in Nat /\ k \in 0..Len(ArgsLines)
    BY <1>2, ScriptIs
  <2> QED BY <2>1, OneAndOne
<1>6. toDev' = SubSeq(Script(cycle), (k + 1) + 1, Len(ArgsLines) + 1)
  BY <1>3, <1>5
<1>7. Head(toDev').crc # "absent"
  <2>1. CASE k + 1 < Len(ArgsLines)
    <3>1. Head(toDev') = Message("ARGS", "", ArgsLines[(k + 1) + 1])
      BY <1>3, <1>6, <2>1, ScriptGoesOn
    <3>2. Message("ARGS", "", ArgsLines[(k + 1) + 1]).crc = "ok"
      BY DEF Message
    <3> QED BY <3>1, <3>2
  <2>2. CASE ~(k + 1 < Len(ArgsLines))
    <3>1. k + 1 = Len(ArgsLines)
      BY <1>3, <2>2, ScriptIs, Ends
    <3>2. Head(toDev') = CommandOf(cycle)
      BY <1>3, <1>6, <3>1, ScriptGoesOn
    <3> QED BY <3>2, CommandsAreSound
  <2> QED BY <2>1, <2>2
<1>8. ScriptLeft'
  <2>1. Script(cycle)' = Script(cycle)
    BY DEF HostStays, Script, CommandOf
  <2> QED BY <1>3, <1>6, <2>1 DEF ScriptLeft
<1>9. ~Posted'
  <2> SUFFICES ASSUME Posted' PROVE FALSE
    OBVIOUS
  <2>1. toDev' # <<>>
    BY <1>3, <1>6, ScriptGoesOn
  <2>2. Head(toDev') = PostMessage
    BY <2>1 DEF Posted
  <2>3. PostMessage.crc = "absent"
    BY DEF PostMessage, Message
  <2> QED BY <1>7, <2>2, <2>3
<1>10. Head(toDev).crc # "absent"
  BY <1>1
<1> QED BY <1>1, <1>4, <1>7, <1>8, <1>9, <1>10, ScriptMoves

LEMMA GarbleMessageKeeps ==
    ASSUME RoundsAssumed, RoundsIndInv, GarbleMessage, ArgsLines = <<>>,
           UNCHANGED <<session, hostVars, deviceVars>>
    PROVE  RoundsInv' /\ TypesInv'
<1> USE DEF RoundsIndInv
<1> DEFINE damaged == [CommandOf(cycle) EXCEPT !.crc = "bad"]
<1>1. PICK i \in DOMAIN toDev : /\ toDev[i].crc = "ok"
                                /\ toDev' = [toDev EXCEPT ![i].crc = "bad"]
  BY DEF GarbleMessage
<1>2. /\ UNCHANGED <<dpc, due, args, wake, todo, cur, begun, ended, naps>>
      /\ UNCHANGED <<port, handle, wire>> /\ HostStays
      /\ ArgsLines = <<>>
  BY BoardMoves, Seen DEF GarbleMessage, boardSeen
<1>3. Connected
  <2> SUFFICES ASSUME toDev \in Seq({PostMessage}) PROVE FALSE
    BY DEF RoundsInv, PlaceInv, Posted
  <2>1. toDev[i] = PostMessage
    BY <1>1
  <2>2. PostMessage.crc = "absent"
    BY DEF PostMessage, Message
  <2> QED BY <1>1, <2>1, <2>2
<1>4. ScriptLeft
  <2>1. toDev # <<>>
    BY <1>1
  <2> QED BY <1>3, <2>1 DEF RoundsInv, TakenInv
<1>5. damaged.crc = "bad"
  BY DEF CommandOf, RoundsAssumed, ResumeCommand, PhaseTwoCommand, Message
<1>6. toDev = <<CommandOf(cycle)>>
  <2>1. toDev # <<damaged>>
    <3> HIDE DEF damaged
    <3>1. toDev = <<damaged>> => toDev[i] = damaged
      BY <1>1
    <3> QED BY <1>1, <1>5, <3>1
  <2>2. PICK k \in 0..Len(ArgsLines) :
              toDev = SubSeq(Script(cycle), k + 1, Len(ArgsLines) + 1)
    BY <1>4, <2>1 DEF ScriptLeft
  <2>3. k = Len(ArgsLines)
    BY <1>2, <2>2
  <2>4. Head(toDev) = CommandOf(cycle) /\ Tail(toDev) = <<>> /\ toDev # <<>>
        /\ \E S : toDev \in Seq(S)
    BY <2>2, <2>3, ScriptGoesOn
  <2>5. PICK S : toDev \in Seq(S)
    BY <2>4
  <2>6. toDev = <<Head(toDev)>>
    BY <2>4, <2>5, OnlyOne
  <2> QED BY <2>4, <2>6
<1>7. toDev' = <<damaged>> /\ toDev[1] = CommandOf(cycle)
  <2>1. i = 1
    BY <1>1, <1>6
  <2>2. [<<CommandOf(cycle)>> EXCEPT ![1].crc = "bad"] = <<damaged>>
    <3> HIDE DEF CommandOf
    <3> QED OBVIOUS
  <2> QED BY <1>1, <1>6, <2>1, <2>2
<1>8. ScriptLeft'
  <2>1. CommandOf(cycle)' = CommandOf(cycle)
    BY <1>2 DEF HostStays, CommandOf
  <2> QED BY <1>2, <1>7, <2>1 DEF ScriptLeft
<1>9. Head(toDev').crc # "absent" /\ toDev' # <<>>
  <2> HIDE DEF damaged
  <2> QED BY <1>5, <1>7
<1>10. ~Posted'
  <2> SUFFICES ASSUME Posted' PROVE FALSE
    OBVIOUS
  <2>2. Head(toDev') = PostMessage
    BY <1>9 DEF Posted
  <2>3. PostMessage.crc = "absent"
    BY DEF PostMessage, Message
  <2> QED BY <1>9, <2>2, <2>3
<1>11. toDev # <<>> /\ Head(toDev).crc # "absent" /\ ~due'
  <2>1. toDev # <<>> /\ Head(toDev) = CommandOf(cycle)
    BY <1>6
  <2>2. ~due
    BY <2>1, HeadOfCommand, CommandsAreSound
  <2> QED BY <1>2, <2>1, <2>2, CommandsAreSound
<1>12. args' \in Seq(PlainFlag)
  BY <1>2 DEF TypesInv
<1> QED BY <1>2, <1>8, <1>9, <1>10, <1>11, <1>12, ScriptMoves

LEMMA OneOrNone ==
    ASSUME NEW S, NEW s \in Seq(S), s # <<>>
    PROVE  Tail(s) \in Seq(S) /\ (Len(s) <= 1 => Tail(s) = <<>>)
<1>1. Len(s) \in Nat \ {0} /\ Tail(s) \in Seq(S) /\ Len(Tail(s)) = Len(s) - 1
  BY OneLineLess
<1>2. Len(s) <= 1 => Len(Tail(s)) = 0
  BY <1>1
<1> QED BY <1>1, <1>2, EmptySeq

(* A line the board could not read asks the host again, and what it asked   *)
(* for before is dropped.                                                   *)
LEMMA BadLineKeeps ==
    ASSUME RoundsAssumed, RoundsIndInv, HostStays, ReceiveBad
    PROVE  RoundsInv' /\ TypesInv'
<1> USE DEF RoundsIndInv
<1>1. /\ toDev # <<>> /\ Head(toDev).crc # "ok" /\ toDev' = Tail(toDev)
      /\ dpc = "wait" /\ ~due /\ due' = TRUE /\ args' = <<>>
      /\ UNCHANGED <<dpc, wake, todo, cur, begun, ended, naps, port, handle, wire>>
  BY DEF ReceiveBad, Receives, registryVars, cycleVars, historyVars
<1>2. args' \in Seq(PlainFlag)
  BY <1>1, EmptySeq
<1>3. CASE Head(toDev).crc # "absent"
  <2>1. ScriptLeft
    BY <1>1, <1>3, HeadOfCommand
  <2>2. toDev = <<[CommandOf(cycle) EXCEPT !.crc = "bad"]>>
    <3>1. ~\E k \in 0..Len(ArgsLines) :
               toDev = SubSeq(Script(cycle), k + 1, Len(ArgsLines) + 1)
      <4> SUFFICES ASSUME NEW k \in 0..Len(ArgsLines),
                          toDev = SubSeq(Script(cycle), k + 1, Len(ArgsLines) + 1)
                   PROVE  FALSE
        OBVIOUS
      <4>1. CASE k < Len(ArgsLines)
        <5>1. Head(toDev) = Message("ARGS", "", ArgsLines[k + 1])
          BY <4>1, ScriptGoesOn
        <5>2. Message("ARGS", "", ArgsLines[k + 1]).crc = "ok"
          BY DEF Message
        <5> QED BY <1>1, <5>1, <5>2, Zenon
      <4>2. CASE ~(k < Len(ArgsLines))
        <5>1. k = Len(ArgsLines)
          BY <4>2, ScriptIs, Ends
        <5>2. Head(toDev) = CommandOf(cycle)
          BY <5>1, ScriptGoesOn
        <5> QED BY <1>1, <5>2, CommandsAreSound
      <4> QED BY <4>1, <4>2
    <3> QED BY <2>1, <3>1 DEF ScriptLeft
  <2>3. toDev' = <<>>
    BY <1>1, <2>2
  <2> QED BY <1>1, <1>2, <1>3, <2>3, ScriptMoves
<1>4. CASE Head(toDev).crc = "absent"
  <2> USE DEF RoundsInv, HostStays
  <2>1. ~Connected
    <3> SUFFICES ASSUME Connected PROVE FALSE
      OBVIOUS
    <3>1. ScriptLeft
      BY <1>1 DEF TakenInv
    <3>2. CASE toDev = <<[CommandOf(cycle) EXCEPT !.crc = "bad"]>>
      <4>1. [CommandOf(cycle) EXCEPT !.crc = "bad"].crc = "bad"
        BY DEF CommandOf, RoundsAssumed, ResumeCommand, PhaseTwoCommand, Message
      <4>2. Head(toDev) = [CommandOf(cycle) EXCEPT !.crc = "bad"]
        BY <3>2
      <4> QED BY <1>4, <4>1, <4>2, Zenon
    <3>3. ASSUME NEW k \in 0..Len(ArgsLines),
                 toDev = SubSeq(Script(cycle), k + 1, Len(ArgsLines) + 1)
          PROVE  FALSE
      <4>1. CASE k < Len(ArgsLines)
        <5>1. Head(toDev) = Message("ARGS", "", ArgsLines[k + 1])
          BY <3>3, <4>1, ScriptGoesOn
        <5>2. Message("ARGS", "", ArgsLines[k + 1]).crc = "ok"
          BY DEF Message
        <5> QED BY <1>4, <5>1, <5>2
      <4>2. CASE ~(k < Len(ArgsLines))
        <5>1. k = Len(ArgsLines)
          BY <4>2, ScriptIs, Ends
        <5>2. Head(toDev) = CommandOf(cycle)
          BY <3>3, <5>1, ScriptGoesOn
        <5> QED BY <1>4, <5>2, CommandsAreSound
      <4> QED BY <4>1, <4>2
    <3> QED BY <3>1, <3>2, <3>3 DEF ScriptLeft
  <2>2. /\ inbound' = inbound /\ Connected' = Connected /\ Talks' = Talks
        /\ Posted /\ ~Running /\ ~Running'
    BY <1>1, <2>1 DEF PlaceInv, inbound, Connected, Talks, Running
  <2>3. Posted' /\ (Len(toDev) <= 1 => toDev' = <<>>)
    <3>1. Tail(toDev) \in Seq({PostMessage}) /\ (Len(toDev) <= 1 => Tail(toDev) = <<>>)
      <4>1. toDev \in Seq({PostMessage})
        BY <2>2 DEF Posted
      <4> QED BY <1>1, <4>1, OneOrNone
    <3> QED BY <1>1, <3>1 DEF Posted
  <2>4. HistoryInv' /\ RunInv'
    BY <1>1, <2>1, <2>2, IdleKeeps DEF Untaken
  <2>5. PlaceInv'
    BY <1>1, <2>1, <2>2, <2>3 DEF PlaceInv
  <2>6. OnceInv'
    <3>1. Len(<<>>) <= 1
      OBVIOUS
    <3> QED BY <1>1, <2>2, <2>3, <3>1 DEF OnceInv, Between
  <2>7. AskedInv'
    BY <1>1, <2>2 DEF AskedInv
  <2>8. EndedInv'
    <3>1. Len(<<>>) <= 1
      OBVIOUS
    <3> QED BY <1>1, <2>2, <2>3, <3>1 DEF EndedInv
  <2>9. HeardInv'
    BY <1>1, <2>2, HistoryStands DEF HeardInv
  <2>10. TakenInv'
    BY <2>1, <2>2 DEF TakenInv
  <2> QED BY <1>2, <1>1, <2>4, <2>5, <2>6, <2>7, <2>8, <2>9, <2>10 DEF TypesInv
<1> QED BY <1>3, <1>4

(* The board leaves the bus: what was in flight is gone, and what the host  *)
(* had read of it is all it is going to hear.                               *)
LEMMA DropKeeps ==
    ASSUME RoundsIndInv, HostStays, PortDrops, dpc' = "off",
           UNCHANGED <<args, wake, todo, cur, begun, ended, naps>>
    PROVE  RoundsInv' /\ TypesInv'
<1> USE DEF RoundsIndInv, RoundsInv, HostStays
<1>1. /\ ~port' /\ wire' = <<>> /\ toDev' = <<>> /\ handle' \in {"stale", "closed"}
      /\ handle = "closed" => handle' = "closed"
  BY DEF PortDrops, PlaceInv
<1>2. inbound' = chunk /\ Talks' = Talks /\ ~Connected' /\ ~Running' /\ Posted'
  BY <1>1, EmptySeq DEF inbound, Talks, Connected, Running, Posted
<1>3. /\ ReadyLast(inbound) => ReadyLast(chunk)
      /\ InOrder(inbound) => InOrder(chunk)
      /\ InOrder(inbound) /\ SaysSleep(chunk) => inbound = chunk
      /\ inbound = <<>> => chunk = <<>>
      /\ chunk # <<>> => inbound # <<>> /\ Head(inbound) = Head(chunk)
  <2>1. CASE handle = "live"
    <3>1. inbound = chunk \o wire
      BY <2>1 DEF inbound
    <3>2. chunk \in Seq(AnyLine) /\ wire \in Seq(AnyLine)
      BY LinesArrive
    <3> HIDE DEF inbound
    <3> QED BY <3>1, <3>2, Prefix
  <2>2. CASE handle # "live"
    BY <2>2 DEF inbound
  <2> QED BY <2>1, <2>2
<1>4. HistoryInv' /\ RunInv'
  BY <1>1, <1>2, <1>3, IdleKeeps DEF Untaken
<1>5. PlaceInv'
  BY <1>1, <1>2, NothingSaid DEF PlaceInv
<1>6. OnceInv'
  BY <1>1, NothingSaid DEF OnceInv
<1>7. AskedInv'
  BY <1>1, <1>2, <1>3 DEF AskedInv
<1>8. EndedInv'
  BY <1>1, <1>2, <1>3 DEF EndedInv
<1>9. HeardInv'
  BY <1>2, <1>3, HistoryStands DEF HeardInv
<1>10. TakenInv'
  BY <1>2 DEF TakenInv
<1>11. TypesInv'
  BY DEF TypesInv
<1> QED BY <1>4, <1>5, <1>6, <1>7, <1>8, <1>9, <1>10, <1>11

LEMMA PowerUpKeeps ==
    ASSUME RoundsIndInv, HostStays, PowerUp
    PROVE  RoundsInv' /\ TypesInv'
<1> USE DEF RoundsIndInv, RoundsInv, HostStays
<1>1. /\ dpc \in {"off", "late"} /\ dpc' = "init" /\ args' = <<>> /\ ~wake' /\ toDev' = <<>>
      /\ port' /\ UNCHANGED <<begun, ended, naps, handle, wire>>
  BY DEF PowerUp, Boot, historyVars
<1>2. handle # "live"
  BY <1>1 DEF PlaceInv
<1>3. /\ inbound' = inbound /\ Talks' = Talks /\ ~Connected' /\ ~Running' /\ Posted'
  BY <1>1, <1>2, EmptySeq DEF inbound, Talks, Connected, Running, Posted
<1>4. HistoryInv' /\ RunInv'
  BY <1>1, <1>3, IdleKeeps DEF Untaken
<1>5. PlaceInv'
  BY <1>1, <1>2, <1>3 DEF PlaceInv
<1>6. OnceInv'
  BY <1>1 DEF OnceInv, Between
<1>7. AskedInv'
  BY <1>1, <1>2, <1>3 DEF AskedInv
<1>8. EndedInv'
  BY <1>1, <1>2, <1>3 DEF EndedInv
<1>9. HeardInv'
  BY <1>1, <1>3, HistoryStands DEF HeardInv
<1>10. TakenInv'
  BY <1>3 DEF TakenInv
<1>11. TypesInv'
  BY <1>1, EmptySeq DEF TypesInv
<1> QED BY <1>4, <1>5, <1>6, <1>7, <1>8, <1>9, <1>10, <1>11

LEMMA OversleepKeeps ==
    ASSUME RoundsIndInv, HostStays, Oversleep
    PROVE  RoundsInv' /\ TypesInv'
<1> USE DEF RoundsIndInv, RoundsInv, HostStays
<1>1. /\ dpc = "off" /\ dpc' = "late"
      /\ UNCHANGED <<due, args, wake, todo, cur, begun, ended, naps, port, handle, wire, toDev>>
  BY DEF Oversleep, registryVars, cycleVars, historyVars
<1>2. handle # "live"
  BY <1>1 DEF PlaceInv
<1>3. /\ inbound' = inbound /\ Talks' = Talks /\ ~Connected' /\ ~Connected
      /\ ~Running' /\ Posted' = Posted
  BY <1>1, <1>2 DEF inbound, Talks, Connected, Running, Posted
<1>4. HistoryInv' /\ RunInv'
  BY <1>1, <1>3, IdleKeeps DEF Untaken
<1>5. PlaceInv'
  BY <1>1, <1>2, <1>3 DEF PlaceInv
<1>6. OnceInv'
  BY <1>1 DEF OnceInv, Between
<1>7. AskedInv'
  BY <1>1, <1>2, <1>3 DEF AskedInv
<1>8. EndedInv'
  BY <1>1, <1>2, <1>3 DEF EndedInv
<1>9. HeardInv'
  BY <1>1, <1>3, HistoryStands DEF HeardInv
<1>10. TakenInv'
  BY <1>3 DEF TakenInv
<1>11. TypesInv'
  BY <1>1 DEF TypesInv
<1> QED BY <1>4, <1>5, <1>6, <1>7, <1>8, <1>9, <1>10, <1>11

LEMMA BoardInitFailsKeeps ==
    ASSUME RoundsIndInv, HostStays, BoardInitFails
    PROVE  RoundsInv' /\ TypesInv'
<1> USE DEF RoundsIndInv, RoundsInv, HostStays
<1> DEFINE ln == Tagged("ERROR")
<1>1. /\ dpc = "init" /\ dpc' = "dead" /\ Emit(<<ln>>)
      /\ UNCHANGED <<due, args, wake, todo, cur, begun, ended, naps, port, handle, toDev>>
  BY DEF BoardInitFails, registryVars, cycleVars, historyVars
<1>2. ln \in AnyLine /\ ln.tag = "ERROR" /\ ln.crc = "ok"
  BY DEF Line, Tagged, NoName, AnyLine, DeviceTags, Tags, Crc
<1> HIDE DEF ln
<1>3. wire' = wire \o <<ln>> \/ (handle # "live" /\ wire' = wire)
  BY <1>1 DEF Emit
<1>4. /\ ~Connected /\ ~Connected' /\ ~Running' /\ Posted /\ Posted' /\ Talks' = Talks
  BY <1>1 DEF TakenInv, PlaceInv, Running, Connected, Talks, Posted
<1>5. /\ Clean(wire) => Clean(wire')
      /\ ~Says(wire, "READY") => ReadyLast(wire') /\ ~Says(wire', "READY")
  <2>1. wire \in Seq(AnyLine)
    BY LinesArrive
  <2>2. CASE wire' = wire \o <<ln>>
    BY <1>2, <2>1, <2>2, Adds
  <2>3. CASE wire' = wire
    BY <2>3, UnsaidIsLast
  <2> QED BY <1>3, <2>2, <2>3
<1>6. /\ Talks /\ handle = "live" => ~Says(inbound, "READY")
      /\ handle # "live" => inbound' = inbound
  BY <1>1 DEF AskedInv, inbound
<1>7. Talks /\ handle = "live" => ReadyLast(inbound') /\ ~Says(inbound', "READY")
  <2> SUFFICES ASSUME Talks, handle = "live"
               PROVE  ReadyLast(inbound') /\ ~Says(inbound', "READY")
    OBVIOUS
  <2>1. wire \in Seq(AnyLine) /\ chunk \in Seq(AnyLine) /\ <<ln>> \in Seq(AnyLine)
        /\ inbound \in Seq(AnyLine)
    BY <1>2, LinesArrive
  <2>2. inbound' = chunk \o (wire \o <<ln>>) /\ inbound = chunk \o wire
    BY <1>1, <1>3 DEF inbound
  <2> HIDE DEF inbound
  <2>3. inbound' = inbound \o <<ln>>
    BY <2>1, <2>2, ConcatAssociative
  <2>4. ~Says(inbound, "READY")
    BY <1>6
  <2> QED BY <1>2, <2>1, <2>3, <2>4, Adds
<1>8. HistoryInv' /\ RunInv'
  BY <1>1, <1>4, <1>6, IdleKeeps DEF Untaken, Connected
<1>9. PlaceInv'
  BY <1>1, <1>4, <1>5 DEF PlaceInv
<1>10. OnceInv'
  BY <1>1, <1>5 DEF OnceInv, Between
<1>11. AskedInv'
  BY <1>1, <1>4, <1>6, <1>7 DEF AskedInv
<1>12. EndedInv'
  BY <1>1, <1>4, <1>6 DEF EndedInv
<1>13. HeardInv'
  BY <1>1, <1>4, <1>6, HistoryStands DEF HeardInv, Connected
<1>14. TakenInv'
  BY <1>4 DEF TakenInv
<1>15. TypesInv'
  BY <1>1 DEF TypesInv
<1> QED BY <1>8, <1>9, <1>10, <1>11, <1>12, <1>13, <1>14, <1>15

-----------------------------------------------------------------------------
(* The next session.                                                        *)

LEMMA NoneIsFew == ~(0 > 0) /\ 0 <= 0 + 1
OBVIOUS

LEMMA NewRoundKeeps ==
    ASSUME RoundsAssumed, RoundsIndInv, NewSession
    PROVE  RoundsInv' /\ TypesInv'
<1> USE DEF RoundsIndInv, RoundsInv
<1>1. /\ hpc = "over" /\ hpc' = "open" /\ cycle' = "first"
      /\ pstate' = "WAITING_FOR_READY" /\ curName' = ""
      /\ retries' = [n \in DOMAIN retries |-> 0]
      /\ chunk' = <<>> /\ ~crashed' /\ ~finishedByRunner'
      /\ begun' = {} /\ ended' = {} /\ naps' = [t \in Tests |-> 0]
      /\ UNCHANGED <<dpc, due, args, wake, todo, cur, port, handle, wire, toDev>>
  BY DEF NewSession, Invoke, ProtocolNew, registryVars, cycleVars, linkVars
<1>2. /\ ~Talks /\ ~Talks' /\ ~Connected /\ ~Connected' /\ ~Running /\ ~Running'
      /\ Posted /\ Posted' /\ ~PhaseTwo' /\ handle = "closed"
  BY <1>1 DEF PlaceInv, Talks, Connected, Running, Posted, PhaseTwo
<1>3. \A t \in Tests : retries'[NameOf[t]] = 0
  <2>1. retries \in [Names \cup {""} -> 0..MaxSleepRetries]
    BY DEF SessionInv, HostInv, RunnerTypeOK
  <2>2. \A t \in Tests : NameOf[t] \in DOMAIN retries
    BY <2>1 DEF RoundsAssumed, TestsInSuites
  <2> QED BY <1>1, <2>2
<1>4. HistoryInv'
  <2>1. Fresh'
    BY <1>1, <1>2 DEF Fresh
  <2>2. \A t \in Tests : ~(naps'[t] > 0) /\ naps'[t] <= retries'[NameOf[t]] + 1
    <3>1. \A t \in Tests : naps'[t] = 0
      BY <1>1
    <3> QED BY <1>3, <3>1, NoneIsFew
  <2> QED BY <1>1, <1>2, <2>1, <2>2 DEF HistoryInv
<1>5. PlaceInv'
  BY <1>1, <1>2, NothingSaid DEF PlaceInv
<1>6. Between'
  <2>1. session \in 1..Len(Resets) /\ session' = session + 1
    <3>1. session \in DOMAIN Resets /\ session' = session + 1
      BY DEF SessionInv, HostInv, NewSession
    <3> QED BY <3>1, SessionAssumption
  <2>2. session' # 1
    BY <2>1
  <2> QED BY <1>1, <2>2 DEF Between
<1>7. RunInv' /\ OnceInv' /\ AskedInv' /\ EndedInv' /\ HeardInv' /\ TakenInv'
  BY <1>1, <1>2, <1>6 DEF RunInv, OnceInv, AskedInv, EndedInv, HeardInv, TakenInv
<1>8. TypesInv'
  BY <1>1 DEF TypesInv
<1> QED BY <1>4, <1>5, <1>7, <1>8

-----------------------------------------------------------------------------
(* Every step.                                                              *)

LEMMA RoundsInitially == RoundsAssumed /\ Init => RoundsIndInv
<1> SUFFICES ASSUME RoundsAssumed, Init PROVE RoundsIndInv
  OBVIOUS
<1>1. /\ session = 1 /\ hpc = "open" /\ cycle = "first" /\ target = ""
      /\ retries = [n \in Names \cup {""} |-> 0]
      /\ chunk = <<>> /\ ~crashed /\ ~finishedByRunner
      /\ pstate = "WAITING_FOR_READY" /\ curName = "" /\ sleepName = ""
      /\ dpc = "init" /\ args = <<>> /\ ~wake /\ todo = {} /\ cur = 0
      /\ begun = {} /\ ended = {} /\ naps = [t \in Tests |-> 0]
      /\ port /\ handle = "closed" /\ wire = <<>> /\ toDev = <<>>
  BY DEF Init, RunnerInit, ProtocolInit, DeviceInit, LinkInit
<1>2. SessionInv
  BY SessionInitially
<1>3. TypesInv
  BY <1>1, EmptySeq DEF TypesInv
<1>4. /\ ~Talks /\ ~Connected /\ ~Running /\ Posted /\ ~PhaseTwo
  BY <1>1, EmptySeq DEF Talks, Connected, Running, Posted, PhaseTwo
<1>5. HistoryInv
  <2>1. Fresh
    BY <1>1, <1>4 DEF Fresh
  <2>2. \A t \in Tests : ~(naps[t] > 0) /\ naps[t] <= retries[NameOf[t]] + 1
    <3>1. \A t \in Tests : retries[NameOf[t]] = 0
      BY <1>1 DEF RoundsAssumed, TestsInSuites
    <3>2. \A t \in Tests : naps[t] = 0
      BY <1>1
    <3> QED BY <3>1, <3>2, NoneIsFew
  <2> QED BY <1>1, <1>4, <2>1, <2>2 DEF HistoryInv
<1>6. PlaceInv
  BY <1>1, <1>4, NothingSaid DEF PlaceInv
<1>7. OnceInv
  BY <1>1, NothingSaid DEF OnceInv
<1>8. RunInv /\ AskedInv /\ EndedInv /\ HeardInv /\ TakenInv
  BY <1>1, <1>4 DEF RunInv, AskedInv, EndedInv, HeardInv, TakenInv
<1> QED BY <1>2, <1>3, <1>5, <1>6, <1>7, <1>8 DEF RoundsIndInv, RoundsInv

LEMMA HostRoundKeeps ==
    ASSUME RoundsAssumed, RoundsIndInv, Steady, HostMoves, UNCHANGED session
    PROVE  RoundsInv' /\ TypesInv'
<1>1. CASE FirstOpen \/ LaterOpen
  BY <1>1, OpenRoundKeeps
<1> SUFFICES ASSUME ~FirstOpen, ~LaterOpen PROVE RoundsInv' /\ TypesInv'
  BY <1>1
<1>2. /\ UNCHANGED <<session, deviceVars>>
      /\ HostSteps \/ TimesOut \/ BusyIsOver \/ WakeWaitOver \/ LingerEnds \/ OpenGivesUp
  BY DEF HostMoves
<1>3. CASE \/ SeesSleep \/ SeesDone \/ SeesNothing \/ DrainCheck \/ DrainEnds
           \/ PortGoneWhileRunning \/ NoMoreCycles
           \/ SeesError \/ LeavesForOldCrash \/ TimesOut \/ BusyIsOver
  BY <1>2, <1>3, HostTurns, TurnsKeep DEF Steady
<1>4. CASE SendRaises \/ ReadRaises \/ OpenGivesUp
  BY <1>2, <1>4, RaiseLeaves, LeavesKeep DEF OpenGivesUp
<1>5. CASE AwaitWake
  BY <1>2, <1>5, AwaitLeaves, LeavesKeep
<1>6. CASE GiveUp \/ WakeWaitOver \/ StartResume \/ Finish
  BY <1>2, <1>6, OthersLeave, LeavesKeep DEF WakeWaitOver
<1>7. CASE ReadChunk \/ DrainChunk
  BY <1>2, <1>7, ReadRoundKeeps
<1>8. CASE FeedLine
  BY <1>2, <1>8, FeedRoundKeeps
<1>9. CASE SendCommand
  BY <1>2, <1>9, SendKeeps
<1>10. CASE PostTest
  BY <1>2, <1>10, PostTestKeeps
<1>11. CASE LingerEnds
  BY <1>2, <1>11, LingerKeeps
<1> QED BY <1>2, <1>3, <1>4, <1>5, <1>6, <1>7, <1>8, <1>9, <1>10, <1>11 DEF HostSteps

(* Nothing of this kind goes wrong in a steady step.                        *)
LEMMA NoSuchFaults ==
    ASSUME Steady, RoundsIndInv
    PROVE  ~Crash /\ ~SilentReset /\ ~Reboot /\ ~GarbleLine
BY DEF Steady, RoundsIndInv, RoundsInv, PlaceInv, Reboot

LEMMA BoardRoundKeeps ==
    ASSUME RoundsAssumed, RoundsIndInv, Steady, HostStays,
           DeviceRuns \/ ReadyTimer \/ Faulty
    PROVE  RoundsInv' /\ TypesInv'
<1>1. /\ ~Crash /\ ~SilentReset /\ ~Reboot
      /\ ~ReceivePowerCommand /\ ~ReceiveIdleCommand /\ ~RunStandalone
  BY NoSuchFaults, NoControls
<1>2. CASE BoardInit \/ EmitReady \/ ReadyTimer
  BY <1>2, BoardInitKeeps, EmitReadyKeeps, IntervalKeeps
<1>3. CASE ReceiveArgs \/ ReceiveBad \/ ReceiveCommand
  BY <1>3, ArgsKeep, BadLineKeeps, CommandKeeps
<1>4. CASE StartTest \/ FailAssertion \/ SignalBusy \/ EndTest \/ SignalSleep
           \/ FinishCycle
  BY <1>4, StartKeeps, SpeaksKeeps, EndKeeps, SleepKeeps, FinishKeeps
<1>5. CASE GoDown \/ PowerLoss
  <2>1. /\ PortDrops /\ dpc' = "off"
        /\ UNCHANGED <<args, wake, todo, cur, begun, ended, naps>>
    BY <1>5 DEF GoDown, PowerLoss, registryVars, cycleVars, historyVars
  <2> QED BY <2>1, DropKeeps
<1>6. CASE PowerUp \/ Oversleep \/ BoardInitFails
  BY <1>6, PowerUpKeeps, OversleepKeeps, BoardInitFailsKeeps
<1>7. CASE Hang \/ Unhang
  BY <1>7, HangKeeps
<1> QED BY <1>1, <1>2, <1>3, <1>4, <1>5, <1>6, <1>7 DEF DeviceRuns, Faulty

LEMMA RoundsStep ==
    ASSUME RoundsAssumed, RoundsIndInv, Steady, [Next]_vars
    PROVE  RoundsIndInv'
<1>1. SessionInv'
  BY SessionStep DEF RoundsIndInv, RoundsAssumed
<1>2. CASE HostMoves /\ UNCHANGED session
  BY <1>1, <1>2, HostRoundKeeps DEF RoundsIndInv
<1>3. CASE UNCHANGED <<session, hostVars>> /\ (DeviceRuns \/ ReadyTimer \/ Faulty)
  <2>1. HostStays
    BY <1>3, BoardMoves
  <2> QED BY <1>1, <1>3, <2>1, BoardRoundKeeps DEF RoundsIndInv
<1>4. CASE (GarbleLine \/ GarbleMessage) /\ UNCHANGED <<session, hostVars, deviceVars>>
  BY <1>1, <1>4, NoSuchFaults, GarbleMessageKeeps DEF RoundsIndInv, Steady
<1>5. CASE NewSession
  BY <1>1, <1>5, NewRoundKeeps DEF RoundsIndInv
<1>6. CASE UNCHANGED vars
  <2>1. /\ UNCHANGED <<session, hpc, pstate, curName, sleepName, busy, cycle, target,
                      retries, chunk, crashed, finishedByRunner, port, handle, wire,
                      toDev, dpc, due, args, wake, todo, cur, begun, ended, naps>>
    BY <1>6 DEF vars, hostVars, deviceVars, linkVars, runnerVars, protocolVars,
       roundVars, reportVars, sessionVars, registryVars, cycleVars, historyVars
  <2>2. Turns
    BY <2>1 DEF Turns, boardSeen, linkSeen, protocolSeen, roundSeen, crashSeen
  <2> QED BY <1>1, <2>2, TurnsKeep DEF RoundsIndInv
<1> QED BY <1>2, <1>3, <1>4, <1>5, <1>6 DEF Next, DeviceMoves, Mishap

-----------------------------------------------------------------------------
(* Theorems.                                                                *)

(* Where no test hangs, every step is steady.                               *)
LEMMA OnlyFaultsHang ==
    ASSUME dpc # "hung", ~Hang, [Next]_vars
    PROVE  dpc' # "hung"
<1>1. HostMoves \/ UNCHANGED vars \/ NewSession => UNCHANGED dpc \/ dpc' = "init"
  BY DEF HostMoves, FirstOpen, LaterOpen, Boot, NewSession, vars, deviceVars
<1>2. DeviceMoves \/ Mishap => dpc' # "hung"
  BY DEF DeviceMoves, Mishap, DeviceRuns, Faulty, BoardInit, EmitReady, ReceiveArgs,
     ReceiveBad, Receives, ReceiveCommand, Prologue, ReceivePowerCommand,
     ReceiveIdleCommand, RunStandalone, StartTest, FailAssertion, SignalBusy, EndTest,
     SignalSleep, GoDown, PowerUp, FinishCycle, Reboot, BoardInitFails, Unhang, Crash,
     SilentReset, PowerLoss, Oversleep, Boot, ReadyTimer, IntervalElapses, deviceVars
<1> QED BY <1>1, <1>2 DEF Next

LEMMA MildIsSteady ==
    ASSUME MildFaults, dpc # "hung", [Next]_vars
    PROVE  Steady /\ dpc' # "hung"
<1>1. Steady
  BY DEF MildFaults, Steady, Crash, SilentReset, GarbleLine, GarbleMessage, Fault
<1>2. ~Hang
  BY DEF MildFaults, Hang, Fault
<1> QED BY <1>1, <1>2, OnlyFaultsHang

RoundsSafe == RoundsIndInv /\ dpc # "hung"

LEMMA RoundsHold ==
    ASSUME RoundsAssumed, MildFaults
    PROVE  Spec => []RoundsSafe
<1>1. RoundsAssumed /\ MildFaults
  OBVIOUS
<1>2. Init => RoundsSafe
  BY <1>1, RoundsInitially DEF RoundsSafe, Init, DeviceInit
<1>3. RoundsSafe /\ [Next]_vars => RoundsSafe'
  BY <1>1, RoundsStep, MildIsSteady DEF RoundsSafe
<1> QED BY <1>2, <1>3, PTL DEF Spec

(* At any time there is at most one READY or command under way, a cycle     *)
(* runs only while the host listens for it, and what the board runs is what *)
(* the command of this cycle was meant for.                                 *)
THEOREM RoundsInductive ==
    ASSUME RoundsAssumed, MildFaults
    PROVE  Spec => []RoundsInv
<1>1. RoundsSafe => RoundsInv
  BY DEF RoundsSafe, RoundsIndInv
<1> QED BY <1>1, RoundsHold, PTL

(* is_test_wake() tells phase two from phase one: the flag is set exactly   *)
(* for the test the host woke the board for, and that test has slept.       *)
THEOREM WakeIsPhaseTwoAlways ==
    ASSUME RoundsAssumed, MildFaults
    PROVE  Spec => []WakeIsPhaseTwo
<1>1. RoundsInv => WakeIsPhaseTwo
  BY DEF RoundsInv, RunInv, Running, MayRun, WakeIsPhaseTwo
<1> QED BY <1>1, RoundsInductive, PTL

(* A test sleeps once for every retry the host counts for its name, and     *)
(* once more: _handle_sleep_resume() counts the same test.                  *)
THEOREM NapsAreBounded ==
    ASSUME RoundsAssumed, MildFaults
    PROVE  Spec => []NapsBounded
<1>1. RoundsAssumed
  OBVIOUS
<1>2. RoundsSafe => NapsBounded
  <2> SUFFICES ASSUME RoundsSafe, NEW t \in Tests
               PROVE  naps[t] <= MaxSleepRetries + 1
    BY DEF NapsBounded
  <2>1. naps[t] \in Nat /\ naps[t] <= retries[NameOf[t]] + 1
    BY DEF RoundsSafe, RoundsIndInv, RoundsInv, HistoryInv, TypesInv
  <2>2. retries[NameOf[t]] \in Nat /\ retries[NameOf[t]] <= MaxSleepRetries
    BY <1>1, RetriesAreNumbers DEF RoundsSafe, RoundsIndInv
  <2> QED BY <2>1, <2>2, RunnerAssumption
<1> QED BY <1>1, <1>2, RoundsHold, PTL

(* No test that has ended is started again: the resume command selects only *)
(* what comes after the test that slept, and phase two only that test.      *)
THEOREM NoTestTwice ==
    ASSUME RoundsAssumed, MildFaults
    PROVE  Spec => NoRerun
<1>1. RoundsInv /\ [Next]_vars => [cur' # cur /\ cur' # 0 => cur' \notin ended]_vars
  <2> SUFFICES ASSUME RoundsInv, Next, cur' # cur, cur' # 0
               PROVE  cur' \notin ended
    OBVIOUS
  <2>1. StartTest
    <3>1. ~(HostMoves \/ NewSession)
      BY DEF HostMoves, FirstOpen, LaterOpen, Boot, NewSession, deviceVars, cycleVars
    <3>2. DeviceRuns \/ ReadyTimer \/ Faulty
      <4>1. ~((GarbleLine \/ GarbleMessage) /\ UNCHANGED <<hostVars, deviceVars>>)
        BY DEF deviceVars, cycleVars
      <4> QED BY <3>1, <4>1 DEF Next, DeviceMoves, Mishap
    <3>3. ~Faulty /\ ~ReadyTimer
      BY DEF Faulty, BoardInitFails, Hang, Unhang, Crash, SilentReset, PowerLoss,
         Oversleep, ReadyTimer, IntervalElapses, Boot, cycleVars
    <3> QED BY <3>2, <3>3 DEF DeviceRuns, BoardInit, EmitReady, ReceiveArgs, ReceiveBad,
               ReceiveCommand, ReceivePowerCommand, ReceiveIdleCommand, RunStandalone,
               FailAssertion, SignalBusy, EndTest, SignalSleep, GoDown, PowerUp,
               FinishCycle, Reboot, Boot, cycleVars
  <2>2. dpc = "cycle" /\ cur' \in todo
    BY <2>1 DEF StartTest
  <2> QED BY <2>2 DEF RoundsInv, RunInv, Running, MayRun
<1> QED BY <1>1, RoundsInductive, PTL DEF Spec, NoRerun
=============================================================================
