--------------------------- MODULE RequestsProofs ---------------------------
(***************************************************************************)
(* Proofs about Requests, for any requests and configurations of an API.   *)
(***************************************************************************)
EXTENDS Requests, SequenceTheorems, FiniteSetTheorems, WellFoundedInduction, TLAPS

-----------------------------------------------------------------------------
(* The chain of an API: what its handlers are, and in which order.         *)

Doings == {"parse", "allow", "deny", "filter", "limit", "cors", "breaker", "auth", "none", "cache",
           "router", "discovery", "intercept", "proxy"}

HandlerType == [does : Doings, on : SUBSET STRING]

\* Where the pipeline puts what a handler does.
Rank(does) ==
    CASE does = "parse" -> 1 [] does = "allow" -> 2 [] does = "deny" -> 3 [] does = "filter" -> 4
      [] does = "limit" -> 5 [] does = "cors" -> 6 [] does = "breaker" -> 7
      [] does \in {"auth", "none"} -> 8 [] does = "cache" -> 9 [] does = "router" -> 10
      [] does = "discovery" -> 11 [] does = "intercept" -> 12 [] OTHER -> 13

\* Handlers in the order of their ranks, which are between two.
Ranked(s, low, high) ==
    /\ s \in Seq(HandlerType)
    /\ \A i \in 1..Len(s) : Rank(s[i].does) \in low..high
    /\ \A i, k \in 1..Len(s) : i < k => Rank(s[i].does) <= Rank(s[k].does)

LEMMA RankIsNatural == \A does : Rank(does) \in 1..13
BY DEF Rank

LEMMA HandlerTyped ==
    ASSUME NEW does \in Doings, NEW on \in SUBSET STRING
    PROVE  Handler(does, on) \in HandlerType
BY DEF Handler, HandlerType

LEMMA RankedConcat ==
    ASSUME NEW s, NEW t, NEW a \in 1..13, NEW b \in 1..13, NEW c \in 1..13, NEW d \in 1..13,
           Ranked(s, a, b), Ranked(t, c, d), b <= c, a <= b, c <= d
    PROVE  Ranked(s \o t, a, d)
<1> DEFINE u == s \o t
<1>0. s \in Seq(HandlerType) /\ t \in Seq(HandlerType) /\ Len(s) \in Nat /\ Len(t) \in Nat
  BY DEF Ranked
<1>1. /\ u \in Seq(HandlerType) /\ Len(u) = Len(s) + Len(t)
      /\ \A i \in 1..Len(u) : u[i] = IF i <= Len(s) THEN s[i] ELSE t[i - Len(s)]
  BY <1>0, ConcatProperties
<1>2. ASSUME NEW i \in 1..Len(u), i <= Len(s)
      PROVE  i \in 1..Len(s) /\ u[i] = s[i] /\ Rank(u[i].does) \in a..b
  <2>1. i \in 1..Len(s) /\ u[i] = s[i]
    BY <1>0, <1>1, <1>2
  <2> QED
    BY <2>1 DEF Ranked
<1>3. ASSUME NEW i \in 1..Len(u), ~(i <= Len(s))
      PROVE  i - Len(s) \in 1..Len(t) /\ u[i] = t[i - Len(s)] /\ Rank(u[i].does) \in c..d
  <2>1. i - Len(s) \in 1..Len(t) /\ u[i] = t[i - Len(s)]
    BY <1>0, <1>1, <1>3
  <2> QED
    BY <2>1 DEF Ranked
<1> HIDE DEF u
<1>4. ASSUME NEW i \in 1..Len(u) PROVE Rank(u[i].does) \in a..d
  <2>1. CASE i <= Len(s)
    <3>1. Rank(u[i].does) \in a..b
      BY <1>2, <2>1
    <3> QED
      BY <3>1
  <2>2. CASE ~(i <= Len(s))
    <3>1. Rank(u[i].does) \in c..d
      BY <1>3, <2>2
    <3> QED
      BY <3>1
  <2> QED
    BY <2>1, <2>2
<1>5. ASSUME NEW i \in 1..Len(u), NEW k \in 1..Len(u), i < k
      PROVE  Rank(u[i].does) <= Rank(u[k].does)
  <2>0. i \in Int /\ k \in Int
    OBVIOUS
  <2>1. CASE i <= Len(s) /\ k <= Len(s)
    <3>1. i \in 1..Len(s) /\ k \in 1..Len(s) /\ u[i] = s[i] /\ u[k] = s[k]
      BY <1>2, <2>1
    <3> QED
      BY <3>1, <1>5 DEF Ranked
  <2>2. CASE i <= Len(s) /\ ~(k <= Len(s))
    <3>1. Rank(u[i].does) \in a..b
      BY <1>2, <2>2
    <3>2. Rank(u[k].does) \in c..d
      BY <1>3, <2>2
    <3> QED
      BY <3>1, <3>2
  <2>3. CASE ~(i <= Len(s)) /\ ~(k <= Len(s))
    <3>1. /\ i - Len(s) \in 1..Len(t) /\ u[i] = t[i - Len(s)]
          /\ k - Len(s) \in 1..Len(t) /\ u[k] = t[k - Len(s)]
      BY <1>3, <2>3
    <3>2. i - Len(s) < k - Len(s)
      BY <1>0, <1>5, <2>0
    <3> QED
      BY <3>1, <3>2 DEF Ranked
  <2> QED
    BY <1>0, <1>5, <2>0, <2>1, <2>2, <2>3
<1>6. u = s \o t
  BY DEF u
<1> QED
  BY <1>1, <1>4, <1>5, <1>6 DEF Ranked

NoLimit(s) == \A i \in 1..Len(s) : s[i].does # "limit"
OneLimit(s) == \A i, k \in 1..Len(s) : s[i].does = "limit" /\ s[k].does = "limit" => i = k

LEMMA LimitRanked ==
    ASSUME NEW s, NEW low \in 1..13, NEW high \in 1..13, Ranked(s, low, high), high < 5 \/ 5 < low
    PROVE  NoLimit(s)
<1>1. ASSUME NEW i \in 1..Len(s), s[i].does = "limit" PROVE FALSE
  <2>1. Rank(s[i].does) = 5
    BY <1>1 DEF Rank
  <2>2. Rank(s[i].does) \in low..high
    BY DEF Ranked
  <2> QED
    BY <2>1, <2>2
<1> QED
  BY <1>1 DEF NoLimit

LEMMA LimitConcat ==
    ASSUME NEW s \in Seq(HandlerType), NEW t \in Seq(HandlerType),
           (OneLimit(s) /\ NoLimit(t)) \/ (NoLimit(s) /\ OneLimit(t))
    PROVE  OneLimit(s \o t)
<1> DEFINE u == s \o t
<1>1. /\ Len(s) \in Nat /\ Len(t) \in Nat /\ Len(u) = Len(s) + Len(t)
      /\ \A i \in 1..Len(u) : u[i] = IF i <= Len(s) THEN s[i] ELSE t[i - Len(s)]
  BY ConcatProperties
<1> HIDE DEF u
<1>2. ASSUME NEW i \in 1..Len(u)
      PROVE  \/ i \in 1..Len(s) /\ u[i] = s[i]
             \/ i - Len(s) \in 1..Len(t) /\ u[i] = t[i - Len(s)]
  BY <1>1
<1>3. ASSUME NEW i \in 1..Len(u), NEW k \in 1..Len(u), u[i].does = "limit", u[k].does = "limit"
      PROVE  i = k
  <2>1. CASE OneLimit(s) /\ NoLimit(t)
    BY <1>2, <1>3, <2>1 DEF OneLimit, NoLimit
  <2>2. CASE NoLimit(s) /\ OneLimit(t)
    <3>1. i - Len(s) = k - Len(s)
      BY <1>2, <1>3, <2>2 DEF OneLimit, NoLimit
    <3> QED
      BY <1>1, <3>1
  <2> QED
    BY <2>1, <2>2
<1> QED
  BY <1>3 DEF OneLimit, u

\* What is in a sequence is in its longer ones.
LEMMA ToSetConcat ==
    ASSUME NEW S, NEW s \in Seq(S), NEW t \in Seq(S)
    PROVE  ToSet(s) \subseteq ToSet(s \o t) /\ ToSet(t) \subseteq ToSet(s \o t)
<1>1. /\ s \o t \in Seq(S) /\ Len(s \o t) = Len(s) + Len(t)
      /\ \A i \in 1..Len(s) + Len(t) : (s \o t)[i] = IF i <= Len(s) THEN s[i] ELSE t[i - Len(s)]
  BY ConcatProperties
<1>2. /\ DOMAIN s = 1..Len(s) /\ DOMAIN t = 1..Len(t) /\ DOMAIN (s \o t) = 1..Len(s \o t)
      /\ Len(s) \in Nat /\ Len(t) \in Nat
  BY <1>1, LenProperties
<1>3. ASSUME NEW x \in ToSet(s) PROVE x \in ToSet(s \o t)
  <2>1. PICK i \in 1..Len(s) : x = s[i]
    BY <1>2 DEF ToSet
  <2>2. i \in 1..Len(s \o t) /\ (s \o t)[i] = x
    BY <1>1, <1>2, <2>1
  <2> QED
    BY <1>2, <2>2 DEF ToSet
<1>4. ASSUME NEW x \in ToSet(t) PROVE x \in ToSet(s \o t)
  <2>1. PICK i \in 1..Len(t) : x = t[i]
    BY <1>2 DEF ToSet
  <2>2. Len(s) + i \in 1..Len(s \o t) /\ (s \o t)[Len(s) + i] = x
    BY <1>1, <1>2, <2>1
  <2> QED
    BY <1>2, <2>2 DEF ToSet
<1> QED
  BY <1>3, <1>4

\* OneLast() moves one element, and loses none unless it gives up.
LEMMA OneLastKeeps ==
    ASSUME NEW S, NEW list \in Seq(S), NEW found \in SUBSET (1..Len(list))
    PROVE  /\ OneLast(list, found) \in Seq(S)
           /\ Len(OneLast(list, found)) <= Len(list)
           /\ Cardinality(found) <= 1 => ToSet(list) \subseteq ToSet(OneLast(list, found))
<1> DEFINE n == Len(list)
<1>0. n \in Nat /\ DOMAIN list = 1..n /\ \A i \in 1..n : list[i] \in S
  BY LenProperties, ElementOfSeq
<1>1. CASE Cardinality(found) > 1
  <2>1. Cardinality(found) \in Nat
    <3>1. IsFiniteSet(1..n)
      BY <1>0, FS_Interval
    <3> QED
      BY <3>1, FS_Subset, FS_CardinalityType
  <2>2. OneLast(list, found) = <<>> /\ ~(Cardinality(found) <= 1)
    BY <1>1, <2>1 DEF OneLast
  <2> QED
    BY <1>0, <2>2
<1>2. CASE ~(Cardinality(found) > 1) /\ found = {}
  <2>1. OneLast(list, found) = list
    BY <1>2 DEF OneLast
  <2> QED
    BY <1>0, <2>1
<1>3. CASE ~(Cardinality(found) > 1) /\ found # {}
  <2>1. PICK i \in 1..n : OneLast(list, found) = Append(RemoveAt(list, i), list[i])
    BY <1>3 DEF OneLast
  <2> DEFINE s == SubSeq(list, 1, i - 1)
             t == SubSeq(list, i + 1, n)
  <2>2. i - 1 \in Int /\ i + 1 \in Int /\ 1 \in Int /\ n \in Int /\ i \in 1..n
    BY <1>0
  <2>3. /\ s \in Seq(S) /\ Len(s) = IF 1 <= i - 1 THEN (i - 1) - 1 + 1 ELSE 0
        /\ \A k \in 1..(i - 1) - 1 + 1 : s[k] = list[1 + k - 1]
    <3>1. \A k \in 1..i - 1 : list[k] \in S
      BY <1>0, <2>2
    <3> QED
      BY <2>2, <3>1, SubSeqProperties
  <2>4. /\ t \in Seq(S) /\ Len(t) = IF i + 1 <= n THEN n - (i + 1) + 1 ELSE 0
        /\ \A k \in 1..n - (i + 1) + 1 : t[k] = list[(i + 1) + k - 1]
    <3>1. \A k \in (i + 1)..n : list[k] \in S
      BY <1>0, <2>2
    <3> QED
      BY <2>2, <3>1, SubSeqProperties
  <2> HIDE DEF s, t, n
  <2>5. Len(s) = i - 1 /\ \A k \in 1..i - 1 : k \in 1..Len(s) /\ s[k] = list[k]
    BY <1>0, <2>2, <2>3
  <2>6. Len(t) = n - i /\ \A k \in i + 1..n : k - i \in 1..Len(t) /\ t[k - i] = list[k]
    <3>1. Len(t) = n - i
      <4>1. (IF i + 1 <= n THEN n - (i + 1) + 1 ELSE 0) = n - i
        BY <1>0, <2>2
      <4> QED
        BY <2>4, <4>1
    <3>2. ASSUME NEW k \in i + 1..n PROVE k - i \in 1..Len(t) /\ t[k - i] = list[k]
      <4> DEFINE m == k - i
      <4>1. m \in 1..n - (i + 1) + 1 /\ m \in 1..n - i /\ (i + 1) + m - 1 = k
        BY <1>0, <2>2
      <4> HIDE DEF m
      <4>2. m \in 1..Len(t) /\ t[m] = list[k]
        BY <2>4, <3>1, <4>1
      <4> QED
        BY <4>2 DEF m
    <3> QED
      BY <3>1, <3>2
  <2>7. /\ s \o t \in Seq(S) /\ Len(s \o t) = n - 1
        /\ ToSet(s) \subseteq ToSet(s \o t) /\ ToSet(t) \subseteq ToSet(s \o t)
    <3>1. Len(s \o t) = Len(s) + Len(t)
      BY <2>3, <2>4, ConcatProperties
    <3>2. (i - 1) + (n - i) = n - 1
      BY <1>0, <2>2
    <3> QED
      BY <2>3, <2>4, <2>5, <2>6, <3>1, <3>2, ConcatProperties, ToSetConcat
  <2>8. OneLast(list, found) = (s \o t) \o <<list[i]>>
    <3>1. RemoveAt(list, i) = s \o t
      BY DEF RemoveAt, s, t, n
    <3> QED
      BY <1>0, <2>1, <2>7, <3>1, AppendIsConcat
  <2>9. <<list[i]>> \in Seq(S) /\ Len(<<list[i]>>) = 1 /\ list[i] \in ToSet(<<list[i]>>)
    BY <1>0 DEF ToSet
  <2>10. ASSUME NEW x \in ToSet(list) PROVE x \in ToSet((s \o t) \o <<list[i]>>)
    <3>1. /\ ToSet(s \o t) \subseteq ToSet((s \o t) \o <<list[i]>>)
          /\ ToSet(<<list[i]>>) \subseteq ToSet((s \o t) \o <<list[i]>>)
      BY <2>7, <2>9, ToSetConcat
    <3>2. PICK k \in 1..n : x = list[k]
      BY <1>0 DEF ToSet
    <3>3. CASE k < i
      <4>1. k \in 1..i - 1
        BY <2>2, <3>3
      <4>2. k \in 1..Len(s) /\ s[k] = x
        BY <2>5, <3>2, <4>1
      <4>3. x \in ToSet(s)
        BY <2>3, <4>2, LenProperties DEF ToSet
      <4> QED
        BY <2>7, <3>1, <4>3
    <3>4. CASE k = i
      BY <2>9, <3>1, <3>2, <3>4
    <3>5. CASE k > i
      <4>1. k \in i + 1..n
        BY <2>2, <3>5
      <4>2. k - i \in 1..Len(t) /\ t[k - i] = x
        BY <2>6, <3>2, <4>1
      <4>3. x \in ToSet(t)
        BY <2>4, <4>2, LenProperties DEF ToSet
      <4> QED
        BY <2>7, <3>1, <4>3
    <3> QED
      BY <2>2, <3>3, <3>4, <3>5
  <2>11. (s \o t) \o <<list[i]>> \in Seq(S) /\ Len((s \o t) \o <<list[i]>>) = (n - 1) + 1
    BY <2>7, <2>9, ConcatProperties
  <2>12. (n - 1) + 1 <= n
    BY <1>0
  <2>13. n = Len(list)
    BY DEF n
  <2> QED
    BY <2>8, <2>10, <2>11, <2>12, <2>13
<1> QED
  BY <1>1, <1>2, <1>3

LEMMA Listed ==
    ASSUME NEW S, NEW n \in Nat, NEW f \in [1..n -> S]
    PROVE  f \in Seq(S) /\ Len(f) = n
OBVIOUS

LEMMA EachRanked ==
    ASSUME NEW does \in Doings, NEW list \in Seq(SUBSET STRING)
    PROVE  /\ Ranked(Each(does, list), Rank(does), Rank(does))
           /\ Len(Each(does, list)) = Len(list)
           /\ \A on \in ToSet(list) : Handler(does, on) \in ToSet(Each(does, list))
<1> DEFINE s == Each(does, list)
<1>0. PICK n \in 1..13 : n = Rank(does)
  BY RankIsNatural
<1>1. Len(list) \in Nat /\ DOMAIN list = 1..Len(list) /\ \A i \in 1..Len(list) : list[i] \in SUBSET STRING
  BY LenProperties, ElementOfSeq
<1>2. s = [i \in 1..Len(list) |-> Handler(does, list[i])]
  BY DEF Each
<1>3. \A i \in 1..Len(list) : Handler(does, list[i]) \in HandlerType
  BY <1>1, HandlerTyped
<1>4. s \in Seq(HandlerType) /\ Len(s) = Len(list)
  <2>1. s \in [1..Len(list) -> HandlerType]
    BY <1>2, <1>3
  <2> HIDE DEF s
  <2> QED
    BY <1>1, <2>1, Listed
<1>5. \A i \in 1..Len(list) : s[i].does = does
  BY <1>2 DEF Handler
<1>6. Ranked(s, n, n)
  BY <1>0, <1>4, <1>5 DEF Ranked
<1>7. ASSUME NEW on \in ToSet(list) PROVE Handler(does, on) \in ToSet(s)
  BY <1>1, <1>2, <1>7 DEF ToSet
<1> QED
  BY <1>0, <1>4, <1>6, <1>7

LEMMA WhenRanked ==
    ASSUME NEW given, NEW does \in Doings, NEW on \in SUBSET STRING
    PROVE  /\ Ranked(When(given, <<Handler(does, on)>>), Rank(does), Rank(does))
           /\ given => Handler(does, on) \in ToSet(When(given, <<Handler(does, on)>>))
<1> DEFINE h == Handler(does, on)
<1>0. PICK n \in 1..13 : n = Rank(does)
  BY RankIsNatural
<1>1. h \in HandlerType /\ h.does = does
  BY HandlerTyped DEF Handler
<1> HIDE DEF h
<1>2. CASE given
  <2>1. When(given, <<h>>) = <<h>>
    BY <1>2 DEF When
  <2>2. <<h>> \in Seq(HandlerType) /\ Len(<<h>>) = 1 /\ <<h>>[1] = h
    BY <1>1
  <2>3. h \in ToSet(<<h>>)
    BY DEF ToSet
  <2>4. Ranked(<<h>>, n, n)
    <3>1. \A i \in 1..Len(<<h>>) : Rank(<<h>>[i].does) = n
      BY <1>0, <1>1, <2>2
    <3> QED
      BY <2>2, <3>1 DEF Ranked
  <2> QED
    BY <1>0, <2>1, <2>3, <2>4 DEF h
<1>3. CASE ~given
  <2>1. When(given, <<h>>) = <<>>
    BY <1>3 DEF When
  <2>2. Ranked(<<>>, n, n)
    BY DEF Ranked
  <2> QED
    BY <1>0, <1>3, <2>1, <2>2 DEF h
<1> QED
  BY <1>2, <1>3

\* The authenticators of an API, all of them unless several are for everything.
LEMMA AuthRanked ==
    ASSUME NEW list \in Seq([on : SUBSET STRING, loads : BOOLEAN])
    PROVE  /\ Ranked(Authenticators(list), 8, 8)
           /\ Cardinality({i \in 1..Len(list) : list[i].on = {}}) <= 1 =>
                \A a \in ToSet(list) :
                    a.loads => Handler("auth", a.on) \in ToSet(Authenticators(list))
<1> DEFINE sorted == SortAuth(list)
           s == Authenticators(list)
<1>1. /\ sorted \in Seq([on : SUBSET STRING, loads : BOOLEAN])
      /\ Cardinality({i \in 1..Len(list) : list[i].on = {}}) <= 1 => ToSet(list) \subseteq ToSet(sorted)
  BY OneLastKeeps DEF SortAuth
<1> HIDE DEF sorted
<1>2. /\ Len(sorted) \in Nat /\ DOMAIN sorted = 1..Len(sorted)
      /\ \A i \in 1..Len(sorted) : sorted[i] \in [on : SUBSET STRING, loads : BOOLEAN]
  BY <1>1, LenProperties, ElementOfSeq
<1>3. s = [i \in 1..Len(sorted) |-> Handler(IF sorted[i].loads THEN "auth" ELSE "none", sorted[i].on)]
  BY DEF Authenticators, sorted
<1> HIDE DEF s
<1>4. \A i \in 1..Len(sorted) :
        Handler(IF sorted[i].loads THEN "auth" ELSE "none", sorted[i].on) \in HandlerType
  <2>1. ASSUME NEW i \in 1..Len(sorted)
        PROVE  /\ (IF sorted[i].loads THEN "auth" ELSE "none") \in Doings
               /\ sorted[i].on \in SUBSET STRING
    <3>1. PICK a \in [on : SUBSET STRING, loads : BOOLEAN] : a = sorted[i]
      BY <1>2
    <3>2. a.on \in SUBSET STRING
      OBVIOUS
    <3>3. (IF a.loads THEN "auth" ELSE "none") \in Doings
      BY DEF Doings
    <3> QED
      BY <3>1, <3>2, <3>3
  <2> QED
    BY <2>1, HandlerTyped
<1>5. s \in Seq(HandlerType) /\ Len(s) = Len(sorted)
  BY <1>2, <1>3, <1>4
<1>6. \A i \in 1..Len(sorted) : s[i].does \in {"auth", "none"}
  BY <1>3 DEF Handler
<1>7. \A i \in 1..Len(sorted) : Rank(s[i].does) = 8
  BY <1>6 DEF Rank
<1>8. Ranked(s, 8, 8)
  BY <1>5, <1>7 DEF Ranked
<1>9. ASSUME NEW a \in ToSet(sorted), a.loads PROVE Handler("auth", a.on) \in ToSet(s)
  <2>1. PICK i \in 1..Len(sorted) : a = sorted[i]
    BY <1>2, <1>9 DEF ToSet
  <2>2. s[i] = Handler("auth", a.on) /\ i \in DOMAIN s
    BY <1>3, <1>9, <2>1
  <2> QED
    BY <2>2 DEF ToSet
<1> QED
  BY <1>1, <1>8, <1>9 DEF s

\* The parts of a chain, and what they are for an API's configuration.
LEMMA GroupedRanked ==
    ASSUME NEW does \in Doings, NEW list \in Seq(SUBSET STRING)
    PROVE  /\ Ranked(Each(does, SortGrouped(list)), Rank(does), Rank(does))
           /\ Len(Each(does, SortGrouped(list))) <= Len(list)
<1>1. SortGrouped(list) \in Seq(SUBSET STRING) /\ Len(SortGrouped(list)) <= Len(list)
  BY OneLastKeeps DEF SortGrouped
<1> QED
  BY <1>1, EachRanked

LEMMA RankedContains ==
    ASSUME NEW s, NEW t, NEW a, NEW b, NEW c, NEW d, Ranked(s, a, b), Ranked(t, c, d)
    PROVE  ToSet(s) \subseteq ToSet(s \o t) /\ ToSet(t) \subseteq ToSet(s \o t)
BY ToSetConcat DEF Ranked

LEMMA FiltersRanked ==
    ASSUME NEW x, WellFormed(x)
    PROVE  /\ Ranked(Filters(x), 2, 4)
           /\ x.allow # {} => Handler("allow", x.allow) \in ToSet(Filters(x))
           /\ x.deny # {} => Handler("deny", x.deny) \in ToSet(Filters(x))
           /\ \A on \in ToSet(x.filter) : Handler("filter", on) \in ToSet(Filters(x))
<1> DEFINE p == When(x.allow # {}, <<Handler("allow", x.allow)>>)
           q == When(x.deny # {}, <<Handler("deny", x.deny)>>)
           s == Each("filter", x.filter)
<1>1. /\ x.allow \in SUBSET STRING /\ x.deny \in SUBSET STRING /\ x.filter \in Seq(SUBSET STRING)
  BY DEF WellFormed
<1>2. Rank("allow") = 2 /\ Rank("deny") = 3 /\ Rank("filter") = 4
  BY DEF Rank
<1>3. Ranked(p, 2, 2) /\ (x.allow # {} => Handler("allow", x.allow) \in ToSet(p))
  BY <1>1, <1>2, WhenRanked DEF Doings
<1>4. Ranked(q, 3, 3) /\ (x.deny # {} => Handler("deny", x.deny) \in ToSet(q))
  BY <1>1, <1>2, WhenRanked DEF Doings
<1>5. Ranked(s, 4, 4) /\ \A on \in ToSet(x.filter) : Handler("filter", on) \in ToSet(s)
  BY <1>1, <1>2, EachRanked DEF Doings
<1>6. Filters(x) = (p \o q) \o s
  BY DEF Filters
<1> HIDE DEF p, q, s
<1>7. Ranked(p \o q, 2, 3)
  BY <1>3, <1>4, RankedConcat
<1>8. Ranked((p \o q) \o s, 2, 4)
  BY <1>5, <1>7, RankedConcat
<1>9. ToSet(p) \subseteq ToSet(p \o q) /\ ToSet(q) \subseteq ToSet(p \o q)
  BY <1>3, <1>4, RankedContains
<1>10. ToSet(p \o q) \subseteq ToSet((p \o q) \o s) /\ ToSet(s) \subseteq ToSet((p \o q) \o s)
  BY <1>5, <1>7, RankedContains
<1> QED
  BY <1>3, <1>4, <1>5, <1>6, <1>8, <1>9, <1>10

LEMMA CorsRanked ==
    ASSUME NEW x, WellFormed(x)
    PROVE  Ranked(Cors(x), 6, 6)
<1>1. x.cors \in Seq(SUBSET STRING) /\ Rank("cors") = 6
  BY DEF WellFormed, Rank
<1>2. Ranked(Each("cors", SortGrouped(x.cors)), 6, 6)
  BY <1>1, GroupedRanked DEF Doings
<1>3. Ranked(When(x.gatewayCors, <<Handler("cors", {})>>), 6, 6)
  BY <1>1, WhenRanked DEF Doings
<1> QED
  BY <1>2, <1>3 DEF Cors

LEMMA ToBackendRanked ==
    ASSUME NEW x, WellFormed(x)
    PROVE  /\ Ranked(ToBackend(x), 10, 13)
           /\ Len(ToBackend(x)) \in Nat \ {0}
           /\ ToBackend(x)[Len(ToBackend(x))] = Handler("proxy", {})
<1> DEFINE p == When(x.router, <<Handler("router", {})>>)
           q == When(x.discovery, <<Handler("discovery", {})>>)
           s == Each("intercept", x.request)
           t == <<Handler("proxy", {})>>
           u == (p \o q) \o s
<1>1. x.request \in Seq(SUBSET STRING)
  BY DEF WellFormed
<1>2. Rank("router") = 10 /\ Rank("discovery") = 11 /\ Rank("intercept") = 12 /\ Rank("proxy") = 13
  BY DEF Rank
<1>3. Ranked(p, 10, 10) /\ Ranked(q, 11, 11)
  BY <1>2, WhenRanked DEF Doings
<1>4. Ranked(s, 12, 12)
  BY <1>1, <1>2, EachRanked DEF Doings
<1>5. Ranked(t, 13, 13)
  <2>1. Ranked(When(TRUE, t), 13, 13)
    BY <1>2, WhenRanked DEF Doings
  <2> QED
    BY <2>1 DEF When
<1>6. ToBackend(x) = u \o t
  BY DEF ToBackend
<1>7. Len(t) = 1 /\ t[1] = Handler("proxy", {})
  OBVIOUS
<1> HIDE DEF p, q, s, t
<1>8. Ranked(p \o q, 10, 11)
  BY <1>3, RankedConcat
<1>9. Ranked(u, 10, 12)
  BY <1>4, <1>8, RankedConcat
<1> HIDE DEF u
<1>10. Ranked(u \o t, 10, 13)
  BY <1>5, <1>9, RankedConcat
<1>11. /\ Len(u) \in Nat /\ Len(u \o t) = Len(u) + Len(t)
       /\ \A i \in 1..Len(u) + Len(t) : (u \o t)[i] = IF i <= Len(u) THEN u[i] ELSE t[i - Len(u)]
  BY <1>5, <1>9, ConcatProperties DEF Ranked
<1>12. (u \o t)[Len(u) + 1] = t[1]
  <2>1. Len(u) + 1 \in 1..Len(u) + Len(t) /\ ~(Len(u) + 1 <= Len(u)) /\ Len(u) + 1 - Len(u) = 1
    BY <1>7, <1>11
  <2> QED
    BY <1>11, <2>1
<1> QED
  BY <1>6, <1>7, <1>10, <1>11, <1>12

\* Whatever an API is configured with, its chain is in order and ends with the
\* backend, and what names groups has its handler in it.
LEMMA ChainRanked ==
    ASSUME NEW x, WellFormed(x)
    PROVE  /\ Ranked(Chain(x), 1, 13)
           /\ Len(Chain(x)) \in Nat \ {0} /\ Chain(x)[Len(Chain(x))] = Handler("proxy", {})
           /\ x.allow # {} => Handler("allow", x.allow) \in ToSet(Chain(x))
           /\ x.deny # {} => Handler("deny", x.deny) \in ToSet(Chain(x))
           /\ \A on \in ToSet(x.filter) : Handler("filter", on) \in ToSet(Chain(x))
           /\ Cardinality({i \in 1..Len(x.authentication) : x.authentication[i].on = {}}) <= 1 =>
                \A a \in ToSet(x.authentication) :
                    a.loads => Handler("auth", a.on) \in ToSet(Chain(x))
           /\ Len(x.throttling) <= 1 => OneLimit(Chain(x))
<1> DEFINE s1 == When(x.parse, <<Handler("parse", {})>>)
           s2 == Filters(x)
           s3 == Each("limit", SortGrouped(x.throttling))
           s4 == Cors(x)
           s5 == When(x.breaker, <<Handler("breaker", {})>>)
           s6 == Authenticators(x.authentication)
           s7 == Each("cache", SortGrouped(x.cache))
           s8 == ToBackend(x)
           t2 == s1 \o s2
           t3 == t2 \o s3
           t4 == t3 \o s4
           t5 == t4 \o s5
           t6 == t5 \o s6
           t7 == t6 \o s7
           t8 == t7 \o s8
<1>1. /\ x.throttling \in Seq(SUBSET STRING) /\ x.cache \in Seq(SUBSET STRING)
      /\ x.authentication \in Seq([on : SUBSET STRING, loads : BOOLEAN])
  BY DEF WellFormed
<1>2. Rank("parse") = 1 /\ Rank("limit") = 5 /\ Rank("breaker") = 7 /\ Rank("cache") = 9
  BY DEF Rank
<1>3. Ranked(s1, 1, 1) /\ Ranked(s5, 7, 7)
  BY <1>2, WhenRanked DEF Doings
<1>4. Ranked(s2, 2, 4)
  BY FiltersRanked
<1>5. Ranked(s3, 5, 5) /\ Len(s3) <= Len(x.throttling) /\ Ranked(s7, 9, 9)
  BY <1>1, <1>2, GroupedRanked DEF Doings
<1>6. Ranked(s4, 6, 6) /\ Ranked(s8, 10, 13)
  BY CorsRanked, ToBackendRanked
<1>7. Ranked(s6, 8, 8)
  BY <1>1, AuthRanked
<1>8. Chain(x) = t8
  BY DEF Chain
<1>9. /\ x.allow # {} => Handler("allow", x.allow) \in ToSet(s2)
      /\ x.deny # {} => Handler("deny", x.deny) \in ToSet(s2)
      /\ \A on \in ToSet(x.filter) : Handler("filter", on) \in ToSet(s2)
  BY FiltersRanked
<1>10. Cardinality({i \in 1..Len(x.authentication) : x.authentication[i].on = {}}) <= 1 =>
         \A a \in ToSet(x.authentication) : a.loads => Handler("auth", a.on) \in ToSet(s6)
  BY <1>1, AuthRanked
<1>11. Len(s8) \in Nat \ {0} /\ s8[Len(s8)] = Handler("proxy", {})
  BY ToBackendRanked
<1> HIDE DEF s1, s2, s3, s4, s5, s6, s7, s8
<1>12. Ranked(t2, 1, 4)
  <2>1. Ranked(s1, 1, 1)
    BY <1>3
  <2> QED
    BY <1>4, <2>1, RankedConcat
<1>13. Ranked(t3, 1, 5)
  <2> HIDE DEF t2
  <2> QED
    BY <1>5, <1>12, RankedConcat
<1>14. Ranked(t4, 1, 6)
  <2> HIDE DEF t3
  <2> QED
    BY <1>6, <1>13, RankedConcat
<1>15. Ranked(t5, 1, 7)
  <2> HIDE DEF t4
  <2> QED
    BY <1>3, <1>14, RankedConcat
<1>16. Ranked(t6, 1, 8)
  <2> HIDE DEF t5
  <2> QED
    BY <1>7, <1>15, RankedConcat
<1>17. Ranked(t7, 1, 9)
  <2> HIDE DEF t6
  <2> QED
    BY <1>5, <1>16, RankedConcat
<1>18. Ranked(t8, 1, 13)
  <2> HIDE DEF t7
  <2> QED
    BY <1>6, <1>17, RankedConcat
<1>19. ToSet(s2) \subseteq ToSet(t5)
  <2>1. ToSet(s2) \subseteq ToSet(t2)
    BY <1>3, <1>4, RankedContains
  <2> HIDE DEF t2
  <2>2. ToSet(t2) \subseteq ToSet(t3)
    BY <1>5, <1>12, RankedContains
  <2> HIDE DEF t3
  <2>3. ToSet(t3) \subseteq ToSet(t4)
    BY <1>6, <1>13, RankedContains
  <2> HIDE DEF t4
  <2>4. ToSet(t4) \subseteq ToSet(t5)
    BY <1>3, <1>14, RankedContains
  <2> QED
    BY <2>1, <2>2, <2>3, <2>4
<1>20. ToSet(s2) \subseteq ToSet(t8) /\ ToSet(s6) \subseteq ToSet(t8)
  <2> HIDE DEF t5
  <2>1. ToSet(t5) \subseteq ToSet(t6) /\ ToSet(s6) \subseteq ToSet(t6)
    BY <1>7, <1>15, RankedContains
  <2> HIDE DEF t6
  <2>2. ToSet(t6) \subseteq ToSet(t7)
    BY <1>5, <1>16, RankedContains
  <2> HIDE DEF t7
  <2>3. ToSet(t7) \subseteq ToSet(t8)
    BY <1>6, <1>17, RankedContains
  <2> QED
    BY <1>19, <2>1, <2>2, <2>3
<1>21. Len(t8) \in Nat \ {0} /\ t8[Len(t8)] = Handler("proxy", {})
  <2> HIDE DEF t7
  <2>1. /\ Len(t7) \in Nat /\ Len(t8) = Len(t7) + Len(s8)
        /\ \A i \in 1..Len(t7) + Len(s8) : t8[i] = IF i <= Len(t7) THEN t7[i] ELSE s8[i - Len(t7)]
    BY <1>6, <1>17, ConcatProperties DEF Ranked
  <2>2. /\ Len(t7) + Len(s8) \in 1..Len(t7) + Len(s8)
        /\ ~(Len(t7) + Len(s8) <= Len(t7)) /\ Len(t7) + Len(s8) - Len(t7) = Len(s8)
    BY <1>11, <2>1
  <2>3. t8[Len(t7) + Len(s8)] = s8[Len(s8)]
    BY <2>1, <2>2
  <2> HIDE DEF t8
  <2> QED
    BY <1>11, <2>1, <2>3
<1>22. ASSUME Len(x.throttling) <= 1 PROVE OneLimit(t8)
  <2>0. /\ NoLimit(s4) /\ NoLimit(s5) /\ NoLimit(s6) /\ NoLimit(s7) /\ NoLimit(s8) /\ NoLimit(t2)
        /\ {s3, s4, s5, s6, s7, s8, t2} \subseteq Seq(HandlerType)
    <3> HIDE DEF t2
    <3>1. NoLimit(t2) /\ NoLimit(s4)
      BY <1>6, <1>12, LimitRanked
    <3>2. NoLimit(s5) /\ NoLimit(s6)
      BY <1>3, <1>7, LimitRanked
    <3>3. NoLimit(s7) /\ NoLimit(s8)
      BY <1>5, <1>6, LimitRanked
    <3>4. {s3, s4, s5, s6, s7, s8, t2} \subseteq Seq(HandlerType)
      BY <1>3, <1>5, <1>6, <1>7, <1>12 DEF Ranked
    <3> QED
      BY <3>1, <3>2, <3>3, <3>4
  <2>1. OneLimit(s3)
    <3>1. Len(s3) \in Nat /\ Len(x.throttling) \in Nat
      BY <1>1, <1>5, LenProperties DEF Ranked
    <3>2. Len(s3) <= 1
      BY <1>5, <1>22, <3>1
    <3> QED
      BY <3>1, <3>2 DEF OneLimit
  <2> HIDE DEF t2
  <2>2. OneLimit(t3) /\ t3 \in Seq(HandlerType)
    BY <2>0, <2>1, LimitConcat, ConcatProperties
  <2> HIDE DEF t3
  <2>3. OneLimit(t4) /\ t4 \in Seq(HandlerType)
    BY <2>0, <2>2, LimitConcat, ConcatProperties
  <2> HIDE DEF t4
  <2>4. OneLimit(t5) /\ t5 \in Seq(HandlerType)
    BY <2>0, <2>3, LimitConcat, ConcatProperties
  <2> HIDE DEF t5
  <2>5. OneLimit(t6) /\ t6 \in Seq(HandlerType)
    BY <2>0, <2>4, LimitConcat, ConcatProperties
  <2> HIDE DEF t6
  <2>6. OneLimit(t7) /\ t7 \in Seq(HandlerType)
    BY <2>0, <2>5, LimitConcat, ConcatProperties
  <2> HIDE DEF t7
  <2> QED
    BY <2>0, <2>6, LimitConcat
<1> HIDE DEF t8
<1> QED
  BY <1>8, <1>9, <1>10, <1>18, <1>20, <1>21, <1>22

-----------------------------------------------------------------------------
(* The counters of the limiters.                                           *)

CounterTypes ==
    /\ count \in [Clients -> Nat]
    /\ expires \in [Clients -> BOOLEAN] /\ expiring \in [Clients -> BOOLEAN]
    /\ orphan \in [Clients -> BOOLEAN]
    /\ kind \in [Requests -> Kinds]
    /\ DOMAIN stage = Requests /\ DOMAIN pos = Requests /\ DOMAIN reply = Requests

\* The request that will set the expiry of a client's counter.
Owes(r, c) ==
    /\ Replied(r, {"limit"}) /\ kind[r].client = c
    /\ reply[r].n = 1 \/ ~reply[r].expires

Repaired(c) ==
    count[c] > 0 /\ ~expires[c] =>
        orphan[c] \/ expiring[c] \/ \E r \in Requests : Owes(r, c)

CounterInv == CounterTypes /\ \A c \in Clients : Repaired(c)

\* What a request does elsewhere than in a limiter leaves the counters alone.
LEMMA Elsewhere ==
    ASSUME CounterInv, NEW r \in Requests, ~Replied(r, {"limit"}),
           UNCHANGED <<chain, kind, count, expires, expiring, orphan>>,
           DOMAIN stage' = Requests, DOMAIN pos' = Requests, DOMAIN reply' = Requests,
           \A q \in Requests \ {r} :
               stage'[q] = stage[q] /\ pos'[q] = pos[q] /\ reply'[q] = reply[q]
    PROVE  CounterInv'
<1>1. CounterTypes'
  BY DEF CounterInv, CounterTypes
<1>2. ASSUME NEW c \in Clients, NEW q \in Requests, Owes(q, c) PROVE Owes(q, c)'
  BY <1>2 DEF Owes, Replied, At
<1> QED
  BY <1>1, <1>2 DEF CounterInv, Repaired

\* The steps of a request that waits, or has an answer of the cache.
LEMMA Moves ==
    ASSUME CounterInv, NEW r \in Requests,
           \/ Arrive(r) \/ Resolves(r) \/ Rejects(r) \/ CountFails(r) \/ LookUp(r)
           \/ Hit(r) \/ Miss(r) \/ CacheFails(r) \/ BackendAnswers(r)
           \/ BackendStreams(r) \/ StreamEnds(r) \/ BackendFails(r)
    PROVE  CounterInv'
<1> USE DEF CounterInv, CounterTypes, store, Waiting, Replied, Walk, Leaves, Pass, Fail, Over
<1>1. CASE Arrive(r)
  BY <1>1, Elsewhere DEF Arrive
<1>2. CASE Resolves(r)
  BY <1>2, Elsewhere DEF Resolves
<1>3. CASE Rejects(r)
  BY <1>3, Elsewhere DEF Rejects
<1>4. CASE CountFails(r)
  BY <1>4, Elsewhere DEF CountFails
<1>5. CASE LookUp(r)
  BY <1>5, Elsewhere DEF LookUp
<1>6. CASE Hit(r)
  BY <1>6, Elsewhere DEF Hit
<1>7. CASE Miss(r)
  BY <1>7, Elsewhere DEF Miss
<1>8. CASE CacheFails(r)
  BY <1>8, Elsewhere DEF CacheFails, CacheFailed
<1>9. CASE BackendAnswers(r)
  BY <1>9, Elsewhere DEF BackendAnswers
<1>10. CASE BackendStreams(r)
  BY <1>10, Elsewhere DEF BackendStreams
<1>11. CASE StreamEnds(r)
  BY <1>11, Elsewhere DEF StreamEnds
<1>12. CASE BackendFails(r)
  BY <1>12, Elsewhere DEF BackendFails
<1> QED
  BY <1>1, <1>2, <1>3, <1>4, <1>5, <1>6, <1>7, <1>8, <1>9, <1>10, <1>11, <1>12

LEMMA CounterInit == Init => CounterInv
BY DEF Init, CounterInv, CounterTypes, Repaired

LEMMA CounterStep == CounterInv /\ [Next]_vars => CounterInv'
<1> SUFFICES ASSUME CounterInv, [Next]_vars PROVE CounterInv'
  OBVIOUS
<1> USE DEF CounterInv, CounterTypes
<1>1. CASE UNCHANGED vars
  BY <1>1 DEF vars, Repaired, Owes, Replied, At
<1>2. ASSUME NEW r \in Requests, Arrive(r) \/ Handle(r), ~Increment(r), ~Limited(r)
      PROVE  CounterInv'
  BY <1>2, Moves DEF Handle
<1>3. ASSUME NEW r \in Requests, TimesOut(r) PROVE CounterInv'
  BY <1>3 DEF TimesOut, store, Repaired, Owes, Replied, At
<1>4. ASSUME NEW r \in Requests, Increment(r) PROVE CounterInv'
  <2>0. PICK c \in Clients : c = kind[r].client
    BY DEF Clients
  <2>1. /\ stage[r] = "waiting" /\ At(r).does = "limit"
        /\ stage' = [stage EXCEPT ![r] = "replied"]
        /\ count' = [count EXCEPT ![c] = count[c] + 1]
        /\ reply' = [reply EXCEPT ![r] = [n |-> count[c] + 1, expires |-> expires[c]]]
        /\ orphan' = [orphan EXCEPT ![c] = FALSE]
        /\ UNCHANGED <<chain, kind, pos, expires, expiring>>
    BY <1>4, <2>0 DEF Increment, Waiting, Key
  <2>3. CounterTypes'
    BY <2>1
  <2>4. Repaired(c)'
    <3>1. stage'[r] = "replied" /\ At(r)' = At(r) /\ reply'[r].expires = expires[c]
      BY <2>1 DEF At
    <3>2. ~expires'[c] => Owes(r, c)'
      BY <2>0, <2>1, <3>1 DEF Owes, Replied
    <3> QED
      BY <3>2 DEF Repaired
  <2>5. ASSUME NEW d \in Clients, d # c PROVE Repaired(d)'
    <3>1. count'[d] = count[d] /\ orphan'[d] = orphan[d]
      BY <2>1, <2>5
    <3>2. ASSUME NEW q \in Requests, Owes(q, d) PROVE Owes(q, d)'
      BY <2>0, <2>1, <2>5, <3>2 DEF Owes, Replied, At
    <3> QED
      BY <2>1, <3>1, <3>2 DEF Repaired
  <2> QED
    BY <2>3, <2>4, <2>5
<1>5. ASSUME NEW r \in Requests, Limited(r) PROVE CounterInv'
  <2> DEFINE c == kind[r].client
  <2>1. /\ expiring' = [expiring EXCEPT ![c] = expiring[c] \/ SetsExpiry(reply[r])]
        /\ UNCHANGED <<chain, kind, reply, count, expires, orphan>>
    BY <1>5 DEF Limited, Key
  <2>2. /\ DOMAIN stage' = Requests /\ DOMAIN pos' = Requests
        /\ \A q \in Requests \ {r} : stage'[q] = stage[q] /\ pos'[q] = pos[q]
    BY <1>5 DEF Limited, Pass, Leaves, Walk, Fail
  <2>3. CounterTypes'
    BY <2>1, <2>2 DEF SetsExpiry
  <2>4. c \in Clients
    BY DEF Clients
  <2>5. ASSUME NEW d \in Clients PROVE Repaired(d)'
    <3>1. expiring[d] => expiring'[d]
      BY <2>1
    <3>2. Owes(r, d) => expiring'[d]
      BY <2>1, <2>4 DEF Owes, SetsExpiry
    <3>3. ASSUME NEW q \in Requests \ {r}, Owes(q, d) PROVE Owes(q, d)'
      BY <2>1, <2>2, <3>3 DEF Owes, Replied, At
    <3> QED
      BY <2>1, <3>1, <3>2, <3>3 DEF Repaired
  <2> QED
    BY <2>3, <2>5
<1>6. ASSUME NEW c \in Clients, SetExpiry(c) PROVE CounterInv'
  <2>1. /\ expiring' = [expiring EXCEPT ![c] = FALSE]
        /\ expires' = [expires EXCEPT ![c] = count[c] > 0]
        /\ UNCHANGED <<chain, kind, stage, pos, reply, count, orphan>>
    BY <1>6 DEF SetExpiry
  <2>2. CounterTypes'
    BY <2>1
  <2>3. ASSUME NEW d \in Clients PROVE Repaired(d)'
    <3>1. \A q \in Requests : Owes(q, d) => Owes(q, d)'
      BY <2>1 DEF Owes, Replied, At
    <3> QED
      BY <2>1, <3>1 DEF Repaired
  <2> QED
    BY <2>2, <2>3
<1>7. ASSUME NEW c \in Clients, WindowEnds(c) PROVE CounterInv'
  <2>1. /\ count' = [count EXCEPT ![c] = 0]
        /\ expires' = [expires EXCEPT ![c] = FALSE]
        /\ UNCHANGED <<chain, kind, stage, pos, reply, expiring, orphan>>
    BY <1>7 DEF WindowEnds
  <2>2. CounterTypes'
    BY <2>1
  <2>3. ASSUME NEW d \in Clients PROVE Repaired(d)'
    <3>1. \A q \in Requests : Owes(q, d) => Owes(q, d)'
      BY <2>1 DEF Owes, Replied, At
    <3> QED
      BY <2>1, <3>1 DEF Repaired
  <2> QED
    BY <2>2, <2>3
<1>8. ASSUME NEW x \in UrlPaths, EntryExpires(x) PROVE CounterInv'
  BY <1>8 DEF EntryExpires, store, Repaired, Owes, Replied, At
<1>9. ASSUME Crash PROVE CounterInv'
  <2>1. /\ stage' = [r \in Requests |-> IF stage[r] = "new" THEN "new" ELSE "gone"]
        /\ expiring' = [c \in Clients |-> FALSE]
        /\ orphan' = [c \in Clients |-> count[c] > 0 /\ ~expires[c]]
        /\ UNCHANGED <<kind, pos, reply, count, expires>>
    BY <1>9 DEF Crash
  <2>2. CounterTypes'
    BY <2>1
  <2>3. ASSUME NEW c \in Clients PROVE Repaired(c)'
    BY <2>1 DEF Repaired
  <2> QED
    BY <2>2, <2>3
<1> QED
  BY <1>1, <1>2, <1>3, <1>4, <1>5, <1>6, <1>7, <1>8, <1>9 DEF Next, Handle

\* A counter always gets its expiry, or was left by a process that is lost, and
\* then the next request of its client sets it (RedisStore.incr()).
THEOREM CountersAreRepaired == Spec => []CounterIsRepaired
<1>1. CounterInv => CounterIsRepaired
  BY DEF CounterInv, Repaired, Owes, CounterIsRepaired
<1> QED
  BY <1>1, CounterInit, CounterStep, PTL DEF Spec

-----------------------------------------------------------------------------
(* The answers.                                                            *)

Stages == {"new", "waiting", "replied", "streaming", "over", "gone"}
OnItsWay(r) == stage[r] \in {"waiting", "replied"}

AnswerTypes ==
    /\ api \in Apis /\ chain = Chain(api)
    /\ stage \in [Requests -> Stages] /\ pos \in [Requests -> 1..Len(chain)]
    /\ timer \in [Requests -> {"off", "on", "fired"}] /\ logs \in [Requests -> 0..1]
    /\ DOMAIN answers = Requests

PastBreaker(r) == \E i \in 1..pos[r] : chain[i].does = "breaker"

\* A request that is still on its way has an answer only from the breaker's
\* timer, and then no handler that refuses is ahead of it.
Single(r) ==
    /\ answers[r] = <<>> \/ \E x : answers[r] = <<x>>
    /\ answers[r] = <<>> => logs[r] = 0 /\ stage[r] \notin {"over", "streaming"}
    /\ stage[r] = "streaming" => logs[r] = 0
    /\ answers[r] # <<>> /\ stage[r] \notin {"streaming", "gone"} /\ api.log => logs[r] = 1
    /\ stage[r] = "new" => answers[r] = <<>>
    /\ timer[r] = "on" => stage[r] \notin {"new", "gone"}
    /\ timer[r] = "fired" => answers[r] # <<>>
    /\ OnItsWay(r) /\ (answers[r] # <<>> \/ timer[r] = "on") => PastBreaker(r)

AnswerInv == AnswerTypes /\ \A r \in Requests : Single(r)

LEMMA ChainFacts ==
    ASSUME AnswerTypes
    PROVE  /\ Len(chain) \in Nat \ {0} /\ chain[Len(chain)] = Handler("proxy", {})
           /\ \A i, k \in 1..Len(chain) :
                i < k /\ chain[i].does = "breaker" => chain[k].does \notin {"allow", "deny", "cors"}
<1>1. Ranked(chain, 1, 13) /\ Len(chain) \in Nat \ {0} /\ chain[Len(chain)] = Handler("proxy", {})
  BY ApisAssumption, ChainRanked DEF AnswerTypes
<1>2. ASSUME NEW i \in 1..Len(chain), NEW k \in 1..Len(chain), i < k, chain[i].does = "breaker"
      PROVE  chain[k].does \notin {"allow", "deny", "cors"}
  <2>1. Rank(chain[i].does) <= Rank(chain[k].does)
    BY <1>1, <1>2 DEF Ranked
  <2> QED
    BY <1>2, <2>1 DEF Rank
<1> QED
  BY <1>1, <1>2

\* What one request does leaves the others alone.
LEMMA OthersKept ==
    ASSUME AnswerInv, AnswerTypes', NEW r \in Requests, UNCHANGED <<api, chain>>, Single(r)',
           \A q \in Requests \ {r} :
               /\ stage'[q] = stage[q] /\ pos'[q] = pos[q] /\ answers'[q] = answers[q]
               /\ logs'[q] = logs[q] /\ timer'[q] = timer[q]
    PROVE  AnswerInv'
<1>1. ASSUME NEW q \in Requests \ {r} PROVE Single(q)'
  BY <1>1 DEF AnswerInv, Single, OnItsWay, PastBreaker
<1> QED
  BY <1>1 DEF AnswerInv

\* The first answer, logged when it ends.
LEMMA FirstAnswer ==
    ASSUME AnswerInv, NEW r \in Requests, answers[r] = <<>>, NEW status, NEW body,
           Begin(r, status, body), Finish(r, status, body),
           UNCHANGED <<api, chain>>,
           stage' \in [Requests -> Stages], pos' \in [Requests -> 1..Len(chain)],
           timer' \in [Requests -> {"off", "on", "fired"}],
           \A q \in Requests \ {r} :
               stage'[q] = stage[q] /\ pos'[q] = pos[q] /\ timer'[q] = timer[q],
           \/ stage'[r] = "over"
           \/ OnItsWay(r) /\ stage'[r] = stage[r] /\ PastBreaker(r) /\ pos'[r] = pos[r]
    PROVE  AnswerInv'
<1>1. logs[r] = 0
  BY DEF AnswerInv, Single
<1>2. logs' = [logs EXCEPT ![r] = IF api.log THEN 1 ELSE 0]
  BY <1>1 DEF Finish
<1>3. answers' = [answers EXCEPT ![r] = <<[status |-> status, body |-> body]>>]
  BY DEF Begin
<1>4. AnswerTypes'
  BY <1>2, <1>3 DEF AnswerInv, AnswerTypes
<1>5. \E x : answers'[r] = <<x>>
  BY <1>3 DEF AnswerInv, AnswerTypes
<1>6. answers'[r] # <<>> /\ logs'[r] = IF api.log THEN 1 ELSE 0
  BY <1>2, <1>5 DEF AnswerInv, AnswerTypes
<1>7. Single(r)'
  BY <1>5, <1>6 DEF Single, OnItsWay, PastBreaker, AnswerInv
<1>8. \A q \in Requests \ {r} : answers'[q] = answers[q] /\ logs'[q] = logs[q]
  BY <1>2, <1>3 DEF AnswerInv, AnswerTypes
<1> QED
  BY <1>4, <1>7, <1>8, OthersKept

LEMMA Stopped ==
    ASSUME AnswerTypes, NEW r \in Requests, Stop(r)
    PROVE  /\ timer' \in [Requests -> {"off", "on", "fired"}] /\ timer'[r] # "on"
           /\ \A q \in Requests \ {r} : timer'[q] = timer[q]
BY DEF AnswerTypes, Stop

\* The end of a request on its way, with an answer unless it has one.
LEMMA EndKeeps ==
    ASSUME AnswerInv, NEW r \in Requests, OnItsWay(r), NEW status, NEW body,
           SendCollected(r, status, body), Over(r), UNCHANGED <<api, chain, pos>>
    PROVE  AnswerInv'
<1> USE DEF AnswerInv
<1>1. stage' = [stage EXCEPT ![r] = "over"]
  BY DEF Over
<1>2. /\ stage' \in [Requests -> Stages] /\ stage'[r] = "over"
      /\ \A q \in Requests \ {r} : stage'[q] = stage[q]
  BY <1>1 DEF AnswerTypes, Stages
<1>3. CASE answers[r] = <<>>
  <2>1. Begin(r, status, body) /\ Finish(r, status, body) /\ Stop(r)
    BY <1>3 DEF SendCollected, Answer
  <2> QED
    BY <1>2, <1>3, <2>1, FirstAnswer, Stopped DEF AnswerTypes
<1>4. CASE answers[r] # <<>>
  <2>1. UNCHANGED <<answers, logs, timer>>
    BY <1>4 DEF SendCollected, Silent
  <2>2. AnswerTypes'
    BY <1>2, <2>1 DEF AnswerTypes
  <2>3. Single(r)'
    BY <1>2, <1>4, <2>1 DEF Single, OnItsWay
  <2> QED
    BY <1>2, <2>1, <2>2, <2>3, OthersKept
<1> QED
  BY <1>3, <1>4

\* next(err), from anywhere on the way.
LEMMA FailKeeps ==
    ASSUME AnswerInv, NEW r \in Requests, OnItsWay(r), NEW status, Fail(r, status),
           UNCHANGED <<api, chain>>
    PROVE  AnswerInv'
BY EndKeeps DEF Fail, Over, SendCollected

\* A step that only changes whether a request waits or has a reply.
LEMMA StaysOnItsWay ==
    ASSUME AnswerInv, NEW r \in Requests, OnItsWay(r), NEW s \in {"waiting", "replied"},
           stage' = [stage EXCEPT ![r] = s], UNCHANGED <<api, chain, pos, answers, logs, timer>>
    PROVE  AnswerInv'
<1>1. /\ stage'[r] = s /\ stage' \in [Requests -> Stages]
      /\ \A q \in Requests \ {r} : stage'[q] = stage[q]
  BY DEF AnswerInv, AnswerTypes, Stages
<1>2. AnswerTypes'
  BY <1>1 DEF AnswerInv, AnswerTypes
<1>3. Single(r)'
  BY <1>1 DEF AnswerInv, Single, OnItsWay, PastBreaker
<1> QED
  BY <1>1, <1>2, <1>3, OthersKept

LEMMA NatMin ==
    ASSUME NEW S \in SUBSET Nat, S # {}
    PROVE  Min(S) \in S /\ \A m \in S : Min(S) <= m
<1> DEFINE Less == {p \in Nat \X Nat : p[1] < p[2]}
<1>3. IsWellFoundedOn(Less, Nat)
  BY NatLessThanWellFounded DEF OpToRel
<1>1. PICK n \in S : \A m \in S : <<m, n>> \notin Less
  <2> HIDE DEF Less
  <2> QED
    BY <1>3, WFMin
<1>2. ASSUME NEW m \in S PROVE n <= m
  <2>1. m \in Nat /\ n \in Nat /\ ~(m < n)
    BY <1>1
  <2> QED
    BY <2>1
<1>4. \E k \in S : \A m \in S : k <= m
  BY <1>2
<1> QED
  BY <1>4 DEF Min

\* The handlers from i on that wait or answer.
Ahead(r, i) ==
    {k \in i..Len(chain) : Waits(api, chain[k], kind[r]) \/ Refuses(api, chain[k], kind[r])}

\* Walk() finds a handler: the last one waits for the backend.
LEMMA WalkFinds ==
    ASSUME AnswerTypes, NEW r \in Requests, NEW i \in 1..Len(chain)
    PROVE  /\ Min(Ahead(r, i)) \in i..Len(chain) /\ Min(Ahead(r, i)) \in Ahead(r, i)
           /\ \A m \in Ahead(r, i) : Min(Ahead(r, i)) <= m
<1>1. Len(chain) \in Ahead(r, i)
  <2>1. chain[Len(chain)] = Handler("proxy", {}) /\ Len(chain) \in Nat \ {0}
    BY ChainFacts
  <2>2. Waits(api, Handler("proxy", {}), kind[r])
    BY DEF Waits, IsFor, Handler
  <2> QED
    BY <2>1, <2>2 DEF Ahead
<1>2. Ahead(r, i) \in SUBSET Nat
  BY ChainFacts DEF Ahead
<1>3. Min(Ahead(r, i)) \in Ahead(r, i) /\ \A m \in Ahead(r, i) : Min(Ahead(r, i)) <= m
  BY <1>1, <1>2, NatMin
<1> QED
  BY <1>3 DEF Ahead

\* next(), from the handler after the one that waited, or from the first.
LEMMA WalkKeeps ==
    ASSUME AnswerInv, NEW r \in Requests, NEW i \in 1..Len(chain), Walk(r, i),
           \/ stage[r] = "new" /\ i = 1
           \/ OnItsWay(r) /\ i = pos[r] + 1,
           UNCHANGED <<api, chain>>
    PROVE  AnswerInv'
<1> USE DEF AnswerInv
<1> DEFINE timed(j) == \E k \in i..j : chain[k].does = "breaker"
<1>1. PICK j \in i..Len(chain) : j = Min(Ahead(r, i)) /\ j \in 1..Len(chain)
  <2>1. Min(Ahead(r, i)) \in i..Len(chain) /\ Len(chain) \in Nat
    BY WalkFinds, ChainFacts
  <2> QED
    BY <2>1
<1>2. /\ pos' = [pos EXCEPT ![r] = j]
      /\ IF Refuses(api, chain[j], kind[r])
         THEN /\ stage' = [stage EXCEPT ![r] = "over"]
              /\ \E status, body : Answer(r, status, body)
         ELSE /\ stage' = [stage EXCEPT ![r] = "waiting"]
              /\ timer' = IF timed(j) THEN [timer EXCEPT ![r] = "on"] ELSE timer
              /\ UNCHANGED <<answers, entries, logs>>
  BY <1>1 DEF Walk, Ahead
<1>3. pos' \in [Requests -> 1..Len(chain)] /\ pos'[r] = j
      /\ \A q \in Requests \ {r} : pos'[q] = pos[q]
  BY <1>1, <1>2 DEF AnswerTypes
<1>4. Len(chain) \in Nat /\ pos[r] \in 1..Len(chain)
  BY ChainFacts DEF AnswerTypes
<1>5. stage' \in [Requests -> Stages] /\ \A q \in Requests \ {r} : stage'[q] = stage[q]
  BY <1>2 DEF AnswerTypes, Stages
<1>6. CASE Refuses(api, chain[j], kind[r])
  <2>1. PICK status, body : Answer(r, status, body)
    BY <1>2, <1>6
  <2>2. Begin(r, status, body) /\ Finish(r, status, body) /\ Stop(r)
    BY <2>1 DEF Answer
  <2>3. chain[j].does \in {"allow", "deny", "cors"}
    BY <1>6 DEF Refuses
  <2>4. answers[r] = <<>>
    <3>1. CASE stage[r] = "new"
      BY <3>1 DEF Single
    <3>2. CASE OnItsWay(r) /\ i = pos[r] + 1
      <4>1. ~PastBreaker(r)
        BY <1>1, <1>4, <2>3, <3>2, ChainFacts DEF PastBreaker
      <4> QED
        BY <3>2, <4>1 DEF Single
    <3> QED
      BY <3>1, <3>2
  <2>5. stage'[r] = "over"
    BY <1>2, <1>6 DEF AnswerTypes
  <2> QED
    BY <1>3, <1>5, <2>2, <2>4, <2>5, FirstAnswer, Stopped
<1>7. CASE ~Refuses(api, chain[j], kind[r])
  <2>1. /\ stage'[r] = "waiting"
        /\ timer' = IF timed(j) THEN [timer EXCEPT ![r] = "on"] ELSE timer
        /\ UNCHANGED <<answers, logs>>
    BY <1>2, <1>7 DEF AnswerTypes
  <2>2. /\ timer' \in [Requests -> {"off", "on", "fired"}]
        /\ timer'[r] = "on" => timer[r] = "on" \/ timed(j)
        /\ \A q \in Requests \ {r} : timer'[q] = timer[q]
    BY <2>1 DEF AnswerTypes
  <2>3. AnswerTypes'
    BY <1>3, <1>5, <2>1, <2>2 DEF AnswerTypes
  <2>4. ASSUME timed(j) PROVE PastBreaker(r)'
    <3>1. PICK k \in i..j : chain[k].does = "breaker"
      BY <2>4
    <3>2. k \in 1..pos'[r]
      BY <1>1, <1>3, <3>1
    <3> QED
      BY <3>1, <3>2 DEF PastBreaker
  <2>5. ASSUME OnItsWay(r), PastBreaker(r) PROVE PastBreaker(r)'
    <3>1. PICK k \in 1..pos[r] : chain[k].does = "breaker"
      BY <2>5 DEF PastBreaker
    <3>2. i = pos[r] + 1
      BY <2>5 DEF OnItsWay
    <3>3. k \in 1..pos'[r]
      BY <1>1, <1>3, <1>4, <3>1, <3>2
    <3> QED
      BY <3>1, <3>3 DEF PastBreaker
  <2>6. Single(r)'
    BY <2>1, <2>2, <2>4, <2>5 DEF Single, OnItsWay
  <2> QED
    BY <1>3, <1>5, <2>1, <2>2, <2>3, <2>6, OthersKept
<1> QED
  BY <1>6, <1>7

\* A handler that waits for anything but the backend has another one after it.
LEMMA PassKeeps ==
    ASSUME AnswerInv, NEW r \in Requests, OnItsWay(r), At(r).does # "proxy", Pass(r),
           UNCHANGED <<api, chain>>
    PROVE  AnswerInv'
<1>1. pos[r] \in 1..Len(chain) /\ Len(chain) \in Nat /\ pos[r] # Len(chain)
  BY ChainFacts DEF AnswerInv, AnswerTypes, At, Handler
<1>2. pos[r] + 1 \in 1..Len(chain)
  BY <1>1
<1>3. CASE timer[r] = "fired"
  <2>1. SendCollected(r, "timedOut", "error") /\ Over(r) /\ UNCHANGED pos
    BY <1>3 DEF Pass, Leaves, Over, SendCollected, AnswerInv, Single
  <2> QED
    BY <2>1, EndKeeps
<1>4. CASE timer[r] # "fired"
  BY <1>2, <1>4, WalkKeeps DEF Pass
<1> QED
  BY <1>3, <1>4

LEMMA AnswersInit == Init => AnswerInv
<1> SUFFICES ASSUME Init PROVE AnswerInv
  OBVIOUS
<1>1. 1 \in 1..Len(chain)
  <2>1. Len(chain) \in Nat \ {0}
    BY ApisAssumption, ChainRanked DEF Init
  <2> QED
    BY <2>1
<1>2. AnswerTypes
  BY <1>1 DEF Init, AnswerTypes, Stages
<1>3. ASSUME NEW r \in Requests PROVE Single(r)
  BY DEF Init, Single, OnItsWay
<1> QED
  BY <1>2, <1>3 DEF AnswerInv

\* The handlers before the backend.
LEMMA HandlersKeep ==
    ASSUME AnswerInv, NEW r \in Requests,
           \/ Arrive(r) \/ Resolves(r) \/ Rejects(r) \/ Increment(r) \/ Limited(r)
           \/ CountFails(r) \/ LookUp(r) \/ Hit(r) \/ Miss(r) \/ CacheFails(r)
    PROVE  AnswerInv'
<1> USE DEF Waiting, Replied, OnItsWay
<1>1. CASE Arrive(r)
  <2>1. 1 \in 1..Len(chain)
    BY ChainFacts DEF AnswerInv
  <2> QED
    BY <1>1, <2>1, WalkKeeps DEF Arrive
<1>2. CASE Resolves(r)
  BY <1>2, PassKeeps DEF Resolves, Middleware
<1>3. CASE Rejects(r)
  BY <1>3, FailKeeps DEF Rejects
<1>4. CASE Increment(r)
  BY <1>4, StaysOnItsWay DEF Increment, Silent
<1>5. CASE Limited(r)
  BY <1>5, FailKeeps, PassKeeps DEF Limited
<1>6. CASE CountFails(r)
  BY <1>6, FailKeeps DEF CountFails
<1>7. CASE LookUp(r)
  BY <1>7, StaysOnItsWay DEF LookUp, Silent
<1>8. CASE Hit(r)
  BY <1>8, EndKeeps, PassKeeps DEF Hit, SendCollected, Over
<1>9. CASE Miss(r)
  BY <1>9, PassKeeps DEF Miss
<1>10. CASE CacheFails(r)
  BY <1>10, PassKeeps DEF CacheFails, CacheFailed
<1> QED
  BY <1>1, <1>2, <1>3, <1>4, <1>5, <1>6, <1>7, <1>8, <1>9, <1>10

\* The response of the backend, as it begins to come.
LEMMA StreamBegins ==
    ASSUME AnswerInv, NEW r \in Requests, BackendStreams(r)
    PROVE  AnswerInv'
<1> USE DEF AnswerInv
<1>1. OnItsWay(r) /\ UNCHANGED <<api, chain, pos, timer, logs>>
  BY DEF BackendStreams, Waiting, OnItsWay
<1>2. CASE answers[r] = <<>>
  <2>1. /\ stage' = [stage EXCEPT ![r] = "streaming"]
        /\ \E x : answers' = [answers EXCEPT ![r] = <<x>>]
    BY <1>2 DEF BackendStreams, Begin
  <2>2. /\ stage' \in [Requests -> Stages] /\ stage'[r] = "streaming"
        /\ \A q \in Requests \ {r} : stage'[q] = stage[q]
    BY <2>1 DEF AnswerTypes, Stages
  <2>3. PICK x : answers' = [answers EXCEPT ![r] = <<x>>]
    BY <2>1
  <2>4. answers'[r] = <<x>> /\ answers'[r] # <<>>
    BY <2>3 DEF AnswerTypes
  <2>5. AnswerTypes'
    BY <1>1, <2>2, <2>3 DEF AnswerTypes
  <2>6. Single(r)'
    BY <1>1, <1>2, <2>2, <2>4 DEF Single, OnItsWay
  <2> QED
    BY <1>1, <2>2, <2>3, <2>5, <2>6, OthersKept
<1>3. CASE answers[r] # <<>>
  BY <1>1, <1>3, EndKeeps DEF BackendStreams, SendCollected, Silent
<1> QED
  BY <1>2, <1>3

\* It ends, and is logged.
LEMMA StreamIsLogged ==
    ASSUME AnswerInv, NEW r \in Requests, StreamEnds(r)
    PROVE  AnswerInv'
<1> USE DEF AnswerInv
<1>0. logs[r] = 0 /\ answers[r] # <<>>
  BY DEF StreamEnds, Single
<1>1. /\ stage' = [stage EXCEPT ![r] = "over"] /\ Stop(r)
      /\ logs' = [logs EXCEPT ![r] = IF api.log THEN 1 ELSE 0]
      /\ UNCHANGED <<api, chain, pos, answers>>
  BY <1>0 DEF StreamEnds, Over, Finish
<1>2. /\ stage' \in [Requests -> Stages] /\ stage'[r] = "over"
      /\ \A q \in Requests \ {r} : stage'[q] = stage[q]
  BY <1>1 DEF AnswerTypes, Stages
<1>3. /\ logs' \in [Requests -> 0..1] /\ logs'[r] = IF api.log THEN 1 ELSE 0
      /\ \A q \in Requests \ {r} : logs'[q] = logs[q]
  BY <1>1 DEF AnswerTypes
<1>4. AnswerTypes'
  BY <1>1, <1>2, <1>3, Stopped DEF AnswerTypes
<1>5. Single(r)'
  BY <1>0, <1>1, <1>2, <1>3, Stopped DEF Single, OnItsWay
<1> QED
  BY <1>1, <1>2, <1>3, <1>4, <1>5, Stopped, OthersKept

\* The timer answers only a request that the breaker let through.
LEMMA TimerKeeps ==
    ASSUME AnswerInv, NEW r \in Requests, TimesOut(r)
    PROVE  AnswerInv'
<1> USE DEF AnswerInv
<1>1. timer[r] = "on" /\ timer' = [timer EXCEPT ![r] = "fired"]
      /\ UNCHANGED <<api, chain, stage, pos>>
  BY DEF TimesOut
<1>2. /\ timer' \in [Requests -> {"off", "on", "fired"}] /\ timer'[r] = "fired"
      /\ \A q \in Requests \ {r} : timer'[q] = timer[q]
  BY <1>1 DEF AnswerTypes
<1>3. CASE answers[r] = <<>>
  <2>1. OnItsWay(r) /\ PastBreaker(r)
    BY <1>1, <1>3 DEF Single, OnItsWay, AnswerTypes, Stages
  <2>2. Begin(r, "timedOut", "error") /\ Finish(r, "timedOut", "error")
    BY <1>3 DEF TimesOut
  <2> QED
    BY <1>1, <1>2, <1>3, <2>1, <2>2, FirstAnswer DEF AnswerTypes
<1>4. CASE answers[r] # <<>>
  <2>1. UNCHANGED <<answers, logs>>
    BY <1>4 DEF TimesOut
  <2>2. AnswerTypes' /\ Single(r)'
    BY <1>1, <1>2, <1>4, <2>1 DEF AnswerTypes, Single, OnItsWay, PastBreaker
  <2> QED
    BY <1>1, <1>2, <2>1, <2>2, OthersKept
<1> QED
  BY <1>3, <1>4

LEMMA AnswersStep == AnswerInv /\ [Next]_vars => AnswerInv'
<1> SUFFICES ASSUME AnswerInv, [Next]_vars PROVE AnswerInv'
  OBVIOUS
<1>1. ASSUME UNCHANGED <<api, chain, stage, pos, timer, answers, logs>> PROVE AnswerInv'
  BY <1>1 DEF AnswerInv, AnswerTypes, Single, OnItsWay, PastBreaker
<1>2. CASE UNCHANGED vars
  BY <1>1, <1>2 DEF vars
<1>3. ASSUME NEW r \in Requests, Arrive(r) \/ Handle(r) PROVE AnswerInv'
  <2>1. CASE BackendAnswers(r)
    <3>1. \E status, body : SendCollected(r, status, body)
      BY <2>1 DEF BackendAnswers
    <3> QED
      BY <2>1, <3>1, EndKeeps DEF BackendAnswers, Waiting, OnItsWay
  <2>2. CASE BackendFails(r)
    BY <2>2, FailKeeps DEF BackendFails, Waiting, OnItsWay
  <2> QED
    BY <1>3, <2>1, <2>2, HandlersKeep, StreamBegins, StreamIsLogged DEF Handle
<1>4. ASSUME NEW r \in Requests, TimesOut(r) PROVE AnswerInv'
  BY <1>4, TimerKeeps
<1>5. ASSUME NEW c \in Clients, SetExpiry(c) \/ WindowEnds(c) PROVE AnswerInv'
  BY <1>1, <1>5 DEF SetExpiry, WindowEnds
<1>6. ASSUME NEW x \in UrlPaths, EntryExpires(x) PROVE AnswerInv'
  BY <1>1, <1>6 DEF EntryExpires
<1>7. CASE Crash
  <2>1. /\ stage' = [r \in Requests |-> IF stage[r] = "new" THEN "new" ELSE "gone"]
        /\ timer' = [r \in Requests |-> "off"]
        /\ UNCHANGED <<api, chain, pos, answers, logs>>
    BY <1>7 DEF Crash
  <2>2. AnswerTypes'
    BY <2>1 DEF AnswerInv, AnswerTypes, Stages
  <2>3. ASSUME NEW r \in Requests PROVE Single(r)'
    BY <2>1 DEF AnswerInv, Single, OnItsWay
  <2> QED
    BY <2>2, <2>3 DEF AnswerInv
<1> QED
  BY <1>2, <1>3, <1>4, <1>5, <1>6, <1>7 DEF Next

\* Nobody is answered twice, whatever races with the breaker's timer, and each
\* answer that ends is logged once, for any configuration the validators accept
\* (ApiPipeline.configureLogMiddleware(), CircuitBreaker.handleTimeout()).
THEOREM OneAnswerEach == Spec => []OneAnswerOneLog
<1>1. AnswerInv => OneAnswerOneLog
  <2> SUFFICES ASSUME AnswerInv, NEW r \in Requests
               PROVE  /\ Len(answers[r]) <= 1
                      /\ logs[r] <= Len(answers[r])
                      /\ api.log /\ stage[r] = "over" => logs[r] = 1
    BY DEF OneAnswerOneLog
  <2>1. logs[r] \in 0..1
    BY DEF AnswerInv, AnswerTypes
  <2>2. CASE answers[r] = <<>>
    BY <2>1, <2>2 DEF AnswerInv, Single
  <2>3. CASE \E x : answers[r] = <<x>>
    <3>1. Len(answers[r]) = 1
      BY <2>3
    <3>2. answers[r] # <<>>
      BY <2>3
    <3>3. api.log /\ stage[r] = "over" => logs[r] = 1
      BY <3>2 DEF AnswerInv, Single
    <3> QED
      BY <2>1, <3>1, <3>3
  <2> QED
    BY <2>2, <2>3 DEF AnswerInv, Single
<1> QED
  BY <1>1, AnswersInit, AnswersStep, PTL DEF Spec

-----------------------------------------------------------------------------
(* What a request passed before it is served.                              *)

\* Each handler before the k-th that refuses or waits has let the request go on.
Cleared(r, k) ==
    \A i \in 1..(k - 1) :
        /\ ~Refuses(api, chain[i], kind[r])
        /\ Waits(api, chain[i], kind[r]) => chain[i] \in passed[r]

FromCache(r) == \E x : answers[r] = <<x>> /\ x.status = "hit"

Path(r) ==
    /\ stage[r] # "new" => Cleared(r, pos[r])
    /\ OnItsWay(r) => Waits(api, chain[pos[r]], kind[r])
    /\ sent[r] \/ FromCache(r) =>
        \E k \in 1..Len(chain) : chain[k].does \in {"cache", "proxy"} /\ Cleared(r, k)

PathTypes == DOMAIN passed = Requests /\ DOMAIN sent = Requests

PathInv == AnswerInv /\ PathTypes /\ \A r \in Requests : Path(r)

LEMMA PathOthers ==
    ASSUME PathInv, AnswerInv', PathTypes', NEW r \in Requests, Path(r)',
           UNCHANGED <<api, chain, kind>>,
           \A q \in Requests \ {r} :
               /\ stage'[q] = stage[q] /\ pos'[q] = pos[q] /\ passed'[q] = passed[q]
               /\ sent'[q] = sent[q] /\ answers'[q] = answers[q]
    PROVE  PathInv'
<1>1. ASSUME NEW q \in Requests \ {r} PROVE Path(q)'
  <2>1. \A k : Cleared(q, k)' <=> Cleared(q, k)
    BY <1>1 DEF Cleared
  <2> QED
    BY <1>1, <2>1 DEF PathInv, Path, OnItsWay, FromCache
<1> QED
  BY <1>1 DEF PathInv

\* An answer that begins is the first.
LEMMA BeginsFirst ==
    ASSUME AnswerInv, AnswerInv', NEW r \in Requests, NEW status, NEW body, Begin(r, status, body)
    PROVE  /\ answers[r] = <<>> /\ answers'[r] = <<[status |-> status, body |-> body]>>
           /\ \A q \in Requests \ {r} : answers'[q] = answers[q]
<1> DEFINE z == [status |-> status, body |-> body]
<1>1. answers'[r] = Append(answers[r], z) /\ \A q \in Requests \ {r} : answers'[q] = answers[q]
  BY DEF Begin, AnswerInv, AnswerTypes
<1> HIDE DEF z
<1>2. answers[r] = <<>>
  <2>1. ASSUME NEW x, answers[r] = <<x>> PROVE FALSE
    <3>1. Len(answers'[r]) = 2
      <4>1. <<x>> \in Seq({x, z}) /\ z \in {x, z} /\ Len(<<x>>) = 1
        OBVIOUS
      <4>2. Len(Append(<<x>>, z)) = Len(<<x>>) + 1
        BY <4>1, AppendProperties
      <4> QED
        BY <1>1, <2>1, <4>1, <4>2
    <3>2. answers'[r] = <<>> \/ \E y : answers'[r] = <<y>>
      BY DEF AnswerInv, Single
    <3> QED
      BY <3>1, <3>2
  <2> QED
    BY <2>1 DEF AnswerInv, Single
<1> QED
  BY <1>1, <1>2 DEF z

\* A step that leaves a request where it is in the chain.
LEMMA PathStays ==
    ASSUME PathInv, AnswerInv', NEW r \in Requests, stage[r] # "new", OnItsWay(r)' => OnItsWay(r),
           UNCHANGED <<api, chain, kind, pos, passed, sent>>,
           \A q \in Requests \ {r} : stage'[q] = stage[q],
           \/ UNCHANGED answers
           \/ \E status, body : Begin(r, status, body) /\ (status = "hit" => At(r).does = "cache")
    PROVE  PathInv'
<1>1. \A k : Cleared(r, k)' <=> Cleared(r, k)
  BY DEF Cleared
<1>2. Cleared(r, pos[r]) /\ pos[r] \in 1..Len(chain)
  BY DEF PathInv, Path, AnswerInv, AnswerTypes
<1>3. FromCache(r)' => FromCache(r) \/ At(r).does = "cache"
  <2>1. CASE UNCHANGED answers
    BY <2>1 DEF FromCache
  <2>2. ASSUME NEW status, NEW body, Begin(r, status, body), status = "hit" => At(r).does = "cache"
        PROVE  FromCache(r)' => At(r).does = "cache"
    <3>1. answers'[r] = <<[status |-> status, body |-> body]>>
      BY <2>2, BeginsFirst DEF PathInv
    <3> QED
      BY <2>2, <3>1 DEF FromCache
  <2> QED
    BY <2>1, <2>2
<1>4. \A q \in Requests \ {r} : answers'[q] = answers[q]
  BY BeginsFirst DEF PathInv
<1>5. Path(r)'
  <2>1. PICK p \in 1..Len(chain) : p = pos[r] /\ Cleared(r, p)
    BY <1>2
  <2>2. OnItsWay(r)' => Waits(api, chain[pos[r]], kind[r])'
    BY DEF PathInv, Path
  <2>3. sent'[r] \/ FromCache(r)' =>
            \E k \in 1..Len(chain) : chain[k].does \in {"cache", "proxy"} /\ Cleared(r, k)
    BY <1>3, <2>1 DEF PathInv, Path, At
  <2>4. Cleared(r, pos[r])'
    <3>1. Cleared(r, p)' /\ pos' = pos
      BY <1>1, <2>1
    <3> QED
      BY <2>1, <3>1 DEF Cleared
  <2> QED
    BY <1>1, <2>2, <2>3, <2>4 DEF Path
<1> QED
  BY <1>4, <1>5, PathOthers DEF PathInv, PathTypes

\* next(): what is skipped neither refuses nor waits, and what waits will have
\* to let the request go on.
LEMMA PathWalks ==
    ASSUME PathInv, AnswerInv', NEW r \in Requests, NEW i \in 1..Len(chain), Walk(r, i),
           \/ stage[r] = "new" /\ i = 1 /\ passed' = passed
           \/ OnItsWay(r) /\ i = pos[r] + 1 /\ passed' = [passed EXCEPT ![r] = @ \cup {At(r)}],
           UNCHANGED <<api, chain, kind>>
    PROVE  PathInv'
<1> USE DEF PathInv, AnswerInv
<1>0. Len(chain) \in Nat /\ pos[r] \in 1..Len(chain)
  BY ChainFacts DEF AnswerTypes
<1>1. PICK j \in 1..Len(chain) : /\ j = Min(Ahead(r, i)) /\ j \in Ahead(r, i)
                                 /\ \A m \in Ahead(r, i) : j <= m
  <2>1. /\ Min(Ahead(r, i)) \in i..Len(chain) /\ Min(Ahead(r, i)) \in Ahead(r, i)
        /\ \A m \in Ahead(r, i) : Min(Ahead(r, i)) <= m
    BY WalkFinds
  <2> QED
    BY <1>0, <2>1
<1>2. /\ pos' = [pos EXCEPT ![r] = j]
      /\ sent' = [sent EXCEPT ![r] = sent[r] \/ chain[j].does = "proxy"]
      /\ IF Refuses(api, chain[j], kind[r])
         THEN /\ stage' = [stage EXCEPT ![r] = "over"]
              /\ \E status, body : Begin(r, status, body) /\ status # "hit"
         ELSE /\ stage' = [stage EXCEPT ![r] = "waiting"]
              /\ UNCHANGED answers
  BY <1>1 DEF Walk, Ahead, Answer
<1>3. /\ pos'[r] = j /\ sent'[r] = (sent[r] \/ chain[j].does = "proxy") /\ stage'[r] # "new"
      /\ OnItsWay(r)' => ~Refuses(api, chain[j], kind[r])
      /\ \A q \in Requests \ {r} : /\ stage'[q] = stage[q] /\ pos'[q] = pos[q]
                                   /\ sent'[q] = sent[q] /\ passed'[q] = passed[q]
  BY <1>2 DEF AnswerTypes, PathTypes, OnItsWay
<1>4. passed[r] \subseteq passed'[r] /\ (i # 1 => At(r) \in passed'[r])
  BY <1>0 DEF PathTypes
<1>5. \A k : Cleared(r, k) => Cleared(r, k)'
  BY <1>4 DEF Cleared
<1>6. Cleared(r, j)'
  <2>1. ASSUME NEW m \in 1..j - 1
        PROVE  /\ ~Refuses(api, chain[m], kind[r])
               /\ Waits(api, chain[m], kind[r]) => chain[m] \in passed'[r]
    <3>0. m \in Int /\ i \in Int /\ j \in Int /\ m \in 1..Len(chain)
      BY <1>0
    <3>1. CASE m >= i
      <4>1. m \in i..Len(chain) /\ ~(j <= m)
        BY <1>0, <3>0, <3>1
      <4>2. m \notin Ahead(r, i)
        BY <1>1, <4>1
      <4> QED
        BY <4>1, <4>2 DEF Ahead
    <3>2. CASE m < i
      <4>1. stage[r] # "new" /\ i = pos[r] + 1 /\ OnItsWay(r)
        <5>1. i # 1
          BY <3>0, <3>2
        <5> QED
          BY <5>1 DEF OnItsWay
      <4>2. Cleared(r, pos[r]) /\ Waits(api, chain[pos[r]], kind[r])
        BY <4>1 DEF Path
      <4>3. CASE m < pos[r]
        <5>1. m \in 1..pos[r] - 1
          BY <1>0, <3>0, <4>3
        <5> QED
          BY <1>4, <4>2, <5>1 DEF Cleared
      <4>4. CASE m = pos[r]
        <5>1. i # 1 /\ chain[m] = At(r)
          BY <1>0, <4>1, <4>4 DEF At
        <5>2. ~Refuses(api, chain[m], kind[r])
          BY <4>2, <4>4 DEF Refuses, Waits
        <5> QED
          BY <1>4, <5>1, <5>2
      <4> QED
        BY <1>0, <3>0, <3>2, <4>1, <4>3, <4>4
    <3> QED
      BY <3>0, <3>1, <3>2
  <2> QED
    BY <2>1 DEF Cleared
<1>7. FromCache(r)' => FromCache(r)
  <2>1. CASE UNCHANGED answers
    BY <2>1 DEF FromCache
  <2>2. ASSUME NEW status, NEW body, Begin(r, status, body), status # "hit" PROVE ~FromCache(r)'
    <3>1. answers'[r] = <<[status |-> status, body |-> body]>>
      BY <2>2, BeginsFirst
    <3> QED
      BY <2>2, <3>1 DEF FromCache
  <2> QED
    BY <1>2, <2>1, <2>2
<1>8. \A q \in Requests \ {r} : answers'[q] = answers[q]
  BY <1>2, BeginsFirst
<1>9. Path(r)'
  <2>1. Cleared(r, pos[r])'
    BY <1>3, <1>6 DEF Cleared
  <2>2. OnItsWay(r)' => Waits(api, chain[pos[r]], kind[r])'
    BY <1>1, <1>3 DEF Ahead
  <2>3. ASSUME sent'[r] \/ FromCache(r)'
        PROVE  \E k \in 1..Len(chain) : chain[k].does \in {"cache", "proxy"} /\ Cleared(r, k)'
    <3>1. CASE sent[r] \/ FromCache(r)
      <4>1. PICK k \in 1..Len(chain) : chain[k].does \in {"cache", "proxy"} /\ Cleared(r, k)
        BY <3>1 DEF Path
      <4> QED
        BY <1>5, <4>1
    <3>2. CASE chain[j].does = "proxy"
      BY <1>6, <3>2
    <3> QED
      BY <1>3, <1>7, <2>3, <3>1, <3>2
  <2> QED
    BY <2>1, <2>2, <2>3 DEF Path
<1>10. PathTypes'
  BY <1>2 DEF PathTypes
<1> QED
  BY <1>3, <1>8, <1>9, <1>10, PathOthers

LEMMA PathPasses ==
    ASSUME PathInv, AnswerInv', NEW r \in Requests, OnItsWay(r), At(r).does # "proxy", Pass(r),
           UNCHANGED <<api, chain, kind>>
    PROVE  PathInv'
<1>1. pos[r] \in 1..Len(chain) /\ Len(chain) \in Nat /\ pos[r] # Len(chain)
  BY ChainFacts DEF PathInv, AnswerInv, AnswerTypes, At, Handler
<1>2. pos[r] + 1 \in 1..Len(chain)
  BY <1>1
<1>3. CASE timer[r] = "fired"
  <2>1. /\ stage' = [stage EXCEPT ![r] = "over"]
        /\ passed' = [passed EXCEPT ![r] = @ \cup {At(r)}]
        /\ UNCHANGED <<pos, sent, answers>>
    BY <1>3 DEF Pass, Leaves, Silent
  <2>2. /\ stage[r] # "new" /\ ~OnItsWay(r)' /\ passed[r] \subseteq passed'[r]
        /\ \A q \in Requests \ {r} : stage'[q] = stage[q] /\ passed'[q] = passed[q]
    BY <2>1 DEF PathInv, PathTypes, AnswerInv, AnswerTypes, OnItsWay
  <2>3. \A k : Cleared(r, k) => Cleared(r, k)'
    BY <2>2 DEF Cleared
  <2>4. FromCache(r)' <=> FromCache(r)
    BY <2>1 DEF FromCache
  <2>5. Path(r)'
    <3>1. PICK p \in 1..Len(chain) : p = pos[r] /\ Cleared(r, p)
      BY <1>1, <2>2 DEF PathInv, Path
    <3>2. Cleared(r, pos[r])'
      BY <2>1, <2>3, <3>1 DEF Cleared
    <3>3. sent'[r] \/ FromCache(r)' =>
            \E k \in 1..Len(chain) : chain[k].does \in {"cache", "proxy"} /\ Cleared(r, k)'
      BY <2>1, <2>3, <2>4 DEF PathInv, Path
    <3> QED
      BY <2>2, <3>2, <3>3 DEF Path
  <2> QED
    BY <2>1, <2>2, <2>5, PathOthers DEF PathInv, PathTypes
<1>4. CASE timer[r] # "fired"
  BY <1>2, <1>4, PathWalks DEF Pass
<1> QED
  BY <1>3, <1>4

LEMMA PathFails ==
    ASSUME PathInv, AnswerInv', NEW r \in Requests, OnItsWay(r), NEW status, status # "hit",
           Fail(r, status), UNCHANGED <<api, chain, kind, passed>>
    PROVE  PathInv'
<1>1. stage' = [stage EXCEPT ![r] = "over"] /\ UNCHANGED <<pos, sent>>
  BY DEF Fail
<1>2. stage[r] # "new" /\ stage'[r] = "over" /\ \A q \in Requests \ {r} : stage'[q] = stage[q]
  BY <1>1 DEF OnItsWay, PathInv, AnswerInv, AnswerTypes
<1>3. UNCHANGED answers \/ Begin(r, status, "error")
  BY DEF Fail, Silent, Answer
<1> QED
  BY <1>1, <1>2, <1>3, PathStays DEF OnItsWay

LEMMA PathInit == Init => PathInv
<1>1. Init => PathTypes
  BY DEF Init, PathTypes
<1>2. ASSUME Init, NEW r \in Requests PROVE Path(r)
  BY <1>2 DEF Init, Path, OnItsWay, FromCache
<1> QED
  BY <1>1, <1>2, AnswersInit DEF PathInv

LEMMA PathStep == PathInv /\ [Next]_vars => PathInv'
<1> SUFFICES ASSUME PathInv, [Next]_vars PROVE PathInv'
  OBVIOUS
<1>0. AnswerInv'
  BY AnswersStep DEF PathInv
<1>1. ASSUME UNCHANGED <<api, chain, kind, stage, pos, passed, sent, answers>> PROVE PathInv'
  <2>1. ASSUME NEW q \in Requests PROVE Path(q)'
    <3>1. \A k : Cleared(q, k)' <=> Cleared(q, k)
      BY <1>1 DEF Cleared
    <3> QED
      BY <1>1, <3>1 DEF PathInv, Path, OnItsWay, FromCache
  <2> QED
    BY <1>0, <1>1, <2>1 DEF PathInv, PathTypes
<1>2. CASE UNCHANGED vars
  BY <1>1, <1>2 DEF vars
<1>3. ASSUME NEW r \in Requests, Arrive(r) PROVE PathInv'
  <2>1. 1 \in 1..Len(chain)
    BY ChainFacts DEF PathInv, AnswerInv
  <2> QED
    BY <1>0, <1>3, <2>1, PathWalks DEF Arrive
<1>4. ASSUME NEW r \in Requests, Resolves(r) PROVE PathInv'
  BY <1>0, <1>4, PathPasses DEF Resolves, Waiting, OnItsWay, Middleware
<1>5. ASSUME NEW r \in Requests, Rejects(r) \/ CountFails(r) \/ BackendFails(r) PROVE PathInv'
  BY <1>0, <1>5, PathFails DEF Rejects, CountFails, BackendFails, Waiting, OnItsWay
<1>6. ASSUME NEW r \in Requests, Increment(r) \/ LookUp(r) PROVE PathInv'
  <2>1. /\ stage[r] = "waiting" /\ stage' = [stage EXCEPT ![r] = "replied"]
        /\ UNCHANGED <<api, chain, kind, pos, passed, sent, answers>>
    BY <1>6 DEF Increment, LookUp, Waiting, Silent
  <2>2. OnItsWay(r) /\ stage[r] # "new" /\ \A q \in Requests \ {r} : stage'[q] = stage[q]
    BY <2>1 DEF OnItsWay, PathInv, AnswerInv, AnswerTypes
  <2> QED
    BY <1>0, <2>1, <2>2, PathStays
<1>7. ASSUME NEW r \in Requests, Limited(r) PROVE PathInv'
  BY <1>0, <1>7, PathPasses, PathFails DEF Limited, Replied, OnItsWay
<1>8. ASSUME NEW r \in Requests, Hit(r) PROVE PathInv'
  <2>1. /\ stage[r] = "replied" /\ OnItsWay(r) /\ At(r).does = "cache"
        /\ UNCHANGED <<api, chain, kind>>
    BY <1>8 DEF Hit, Replied, OnItsWay
  <2>2. CASE answers[r] = <<>>
    <3>1. /\ stage' = [stage EXCEPT ![r] = "over"] /\ Begin(r, "hit", reply[r])
          /\ UNCHANGED <<pos, passed, sent>>
      BY <1>8, <2>2 DEF Hit, Answer
    <3>2. stage[r] # "new" /\ ~OnItsWay(r)' /\ \A q \in Requests \ {r} : stage'[q] = stage[q]
      BY <2>1, <3>1 DEF OnItsWay, PathInv, AnswerInv, AnswerTypes
    <3> QED
      BY <1>0, <2>1, <3>1, <3>2, PathStays
  <2>3. CASE answers[r] # <<>>
    BY <1>0, <1>8, <2>1, <2>3, PathPasses DEF Hit
  <2> QED
    BY <2>2, <2>3
<1>9. ASSUME NEW r \in Requests, Miss(r) \/ CacheFails(r) PROVE PathInv'
  BY <1>0, <1>9, PathPasses DEF Miss, CacheFails, CacheFailed, Replied, Waiting, OnItsWay
<1>10. ASSUME NEW r \in Requests, BackendAnswers(r) \/ BackendStreams(r) \/ StreamEnds(r) \/ TimesOut(r)
       PROVE  PathInv'
  <2>1. UNCHANGED <<api, chain, kind, pos, passed, sent>>
    BY <1>10 DEF BackendAnswers, BackendStreams, StreamEnds, TimesOut
  <2>2. /\ stage[r] # "new" /\ (OnItsWay(r)' => OnItsWay(r))
        /\ \A q \in Requests \ {r} : stage'[q] = stage[q]
    <3>1. CASE TimesOut(r)
      BY <3>1 DEF TimesOut, OnItsWay, PathInv, AnswerInv, Single
    <3>2. CASE BackendAnswers(r) \/ StreamEnds(r)
      BY <3>2 DEF BackendAnswers, StreamEnds, Over, Waiting, OnItsWay, PathInv, AnswerInv, AnswerTypes
    <3>3. CASE BackendStreams(r)
      BY <3>3 DEF BackendStreams, Over, Waiting, OnItsWay, PathInv, AnswerInv, AnswerTypes
    <3> QED
      BY <1>10, <3>1, <3>2, <3>3
  <2>3. UNCHANGED answers \/ \E status, body : Begin(r, status, body) /\ status # "hit"
    <3>1. CASE BackendAnswers(r)
      BY <3>1 DEF BackendAnswers, SendCollected, Answer, Silent
    <3>2. CASE BackendStreams(r)
      BY <3>2 DEF BackendStreams
    <3>3. CASE StreamEnds(r)
      BY <3>3 DEF StreamEnds
    <3>4. CASE TimesOut(r)
      BY <3>4 DEF TimesOut
    <3> QED
      BY <1>10, <3>1, <3>2, <3>3, <3>4
  <2> QED
    BY <1>0, <2>1, <2>2, <2>3, PathStays
<1>11. ASSUME NEW c \in Clients, SetExpiry(c) \/ WindowEnds(c) PROVE PathInv'
  BY <1>1, <1>11 DEF SetExpiry, WindowEnds
<1>12. ASSUME NEW x \in UrlPaths, EntryExpires(x) PROVE PathInv'
  BY <1>1, <1>12 DEF EntryExpires
<1>13. CASE Crash
  <2>1. /\ stage' = [r \in Requests |-> IF stage[r] = "new" THEN "new" ELSE "gone"]
        /\ UNCHANGED <<api, chain, kind, pos, passed, sent, answers>>
    BY <1>13 DEF Crash
  <2>2. ASSUME NEW q \in Requests PROVE Path(q)'
    <3>1. \A k : Cleared(q, k)' <=> Cleared(q, k)
      BY <2>1 DEF Cleared
    <3>2. (stage'[q] = "new" <=> stage[q] = "new") /\ ~OnItsWay(q)'
      BY <2>1 DEF OnItsWay
    <3>3. Cleared(q, pos[q])' <=> Cleared(q, pos[q])
      BY <2>1 DEF Cleared
    <3> QED
      BY <2>1, <3>1, <3>2, <3>3 DEF PathInv, Path, FromCache
  <2> QED
    BY <1>0, <2>1, <2>2 DEF PathInv, PathTypes
<1> QED
  BY <1>2, <1>3, <1>4, <1>5, <1>6, <1>7, <1>8, <1>9, <1>10, <1>11, <1>12, <1>13 DEF Next, Handle

\* A filter or an authentication comes before the cache and the backend.
LEMMA Precedes ==
    ASSUME AnswerTypes, NEW h \in ToSet(chain), h.does \in {"allow", "deny", "filter", "auth"},
           NEW k \in 1..Len(chain), chain[k].does \in {"cache", "proxy"}
    PROVE  \E i \in 1..(k - 1) : chain[i] = h
<1>1. Ranked(chain, 1, 13)
  BY ApisAssumption, ChainRanked DEF AnswerTypes
<1>2. PICK i \in 1..Len(chain) : chain[i] = h
  BY <1>1, LenProperties DEF Ranked, ToSet
<1>3. ~(Rank(chain[k].does) <= Rank(chain[i].does))
  <2>1. Rank(chain[k].does) \in {9, 13}
    BY DEF Rank
  <2>2. Rank(chain[i].does) \in {2, 3, 4, 8}
    BY <1>2 DEF Rank
  <2> QED
    BY <2>1, <2>2
<1>4. i # k /\ ~(k < i)
  BY <1>1, <1>3, <1>2 DEF Ranked
<1>5. i \in 1..(k - 1)
  BY <1>4, ChainFacts
<1> QED
  BY <1>2, <1>5

LEMMA ClearedHandler ==
    ASSUME NEW r \in Requests, NEW k \in 1..Len(chain), Cleared(r, k), NEW h,
           \E i \in 1..(k - 1) : chain[i] = h
    PROVE  ~Refuses(api, h, kind[r]) /\ (Waits(api, h, kind[r]) => h \in passed[r])
BY DEF Cleared

\* Nothing is served that is outside the allowed groups or inside the denied
\* ones, or that a filter or an authentication for it has not let through, for
\* any configuration the validators accept (ApiPipeline.loadValidApi()).
THEOREM ServedRequestsAreGuarded == Spec => []Guarded
<1>1. ASSUME PathInv PROVE Guarded
  <2> SUFFICES ASSUME NEW r \in Requests, Served(r)
      PROVE  /\ For(api.allow, r)
             /\ api.deny # {} => ~For(api.deny, r)
             /\ \A on \in ToSet(api.filter) : For(on, r) => Handler("filter", on) \in passed[r]
             /\ Cardinality({i \in 1..Len(api.authentication) : api.authentication[i].on = {}}) <= 1 =>
                    \A a \in ToSet(api.authentication) :
                        a.loads /\ For(a.on, r) => Handler("auth", a.on) \in passed[r]
    BY DEF Guarded
  <2>0. AnswerTypes /\ WellFormed(api) /\ chain = Chain(api)
    BY <1>1, ApisAssumption DEF PathInv, AnswerInv, AnswerTypes
  <2>1. sent[r] \/ FromCache(r)
    <3>1. answers[r] = <<>> \/ \E x : answers[r] = <<x>>
      BY <1>1 DEF PathInv, AnswerInv, Single
    <3>2. CASE answers[r] = <<>>
      BY <3>2 DEF Served
    <3>3. ASSUME NEW x, answers[r] = <<x>> PROVE sent[r] \/ x.status = "hit"
      BY <3>3 DEF Served
    <3> QED
      BY <3>1, <3>2, <3>3 DEF FromCache
  <2>2. PICK k \in 1..Len(chain) : chain[k].does \in {"cache", "proxy"} /\ Cleared(r, k)
    BY <1>1, <2>1 DEF PathInv, Path
  <2>3. ASSUME NEW h \in ToSet(chain), h.does \in {"allow", "deny", "filter", "auth"}
        PROVE  ~Refuses(api, h, kind[r]) /\ (Waits(api, h, kind[r]) => h \in passed[r])
    BY <2>0, <2>2, <2>3, Precedes, ClearedHandler
  <2>4. For(api.allow, r)
    <3>1. CASE api.allow # {}
      <4>1. Handler("allow", api.allow) \in ToSet(chain)
        BY <2>0, <3>1, ChainRanked
      <4>2. ~Refuses(api, Handler("allow", api.allow), kind[r])
        BY <2>3, <4>1 DEF Handler
      <4> QED
        BY <4>2 DEF Refuses, Handler, For
    <3> QED
      BY <3>1 DEF For
  <2>5. ASSUME api.deny # {} PROVE ~For(api.deny, r)
    <3>1. Handler("deny", api.deny) \in ToSet(chain)
      BY <2>0, <2>5, ChainRanked
    <3>2. ~Refuses(api, Handler("deny", api.deny), kind[r])
      BY <2>3, <3>1 DEF Handler
    <3>3. Deny(Named(api.groups, api.deny), kind[r])
      BY <3>2 DEF Refuses, Handler
    <3>4. ASSUME NEW g \in Named(api.groups, api.deny), NEW m \in g PROVE ~InMember(m, kind[r])
      <4>1. OutOfMember(m, kind[r])
        BY <3>3 DEF Deny
      <4>2. m.method # {} \/ m.protocol # {} \/ m.path # {}
        BY <2>0 DEF WellFormed, Named
      <4> QED
        BY <4>1, <4>2 DEF OutOfMember, InMember
    <3> QED
      BY <2>5, <3>4 DEF For, Member, Allow
  <2>6. ASSUME NEW on \in ToSet(api.filter), For(on, r) PROVE Handler("filter", on) \in passed[r]
    <3>1. Handler("filter", on) \in ToSet(chain)
      BY <2>0, ChainRanked
    <3>2. Waits(api, Handler("filter", on), kind[r])
      BY <2>6 DEF Waits, IsFor, For, Handler
    <3> QED
      BY <2>3, <3>1, <3>2 DEF Handler
  <2>7. ASSUME Cardinality({i \in 1..Len(api.authentication) : api.authentication[i].on = {}}) <= 1,
               NEW a \in ToSet(api.authentication), a.loads, For(a.on, r)
        PROVE  Handler("auth", a.on) \in passed[r]
    <3>1. Handler("auth", a.on) \in ToSet(chain)
      BY <2>0, <2>7, ChainRanked
    <3>2. Waits(api, Handler("auth", a.on), kind[r])
      BY <2>7 DEF Waits, IsFor, For, Handler
    <3> QED
      BY <2>3, <3>1, <3>2 DEF Handler
  <2> QED
    BY <2>4, <2>5, <2>6, <2>7
<1> QED
  BY <1>1, PathInit, PathStep, PTL DEF Spec

-----------------------------------------------------------------------------
(* What a step of a request does to its place and to its answer.           *)

Goes(r) ==
    /\ UNCHANGED <<api, chain, kind>>
    /\ stage'[r] # "new" /\ (stage[r] \in {"over", "gone"} => stage'[r] = stage[r])
    /\ stage[r] # "new" =>
        \/ pos'[r] > pos[r]
        \/ pos'[r] = pos[r] /\ (stage'[r] = "waiting" => stage[r] = "waiting")
    /\ stage'[r] = "replied" =>
        \/ stage[r] = "replied" /\ UNCHANGED <<pos, reply>>
        \/ Increment(r) \/ LookUp(r)
    /\ reply' = reply \/ Increment(r) \/ LookUp(r)
    /\ \A q \in Requests \ {r} : stage'[q] = stage[q] /\ pos'[q] = pos[q]

Answering(r, status, body) ==
    /\ Begin(r, status, body)
    /\ UNCHANGED entries \/ Finish(r, status, body)
    /\ status = "hit" => Replied(r, {"cache"}) /\ reply[r] # None /\ body = reply[r]
    /\ status = "tooMany" => Replied(r, {"limit"}) /\ reply[r].n > MaxRequests /\ stage'[r] = "over"

Answers(r) ==
    \/ UNCHANGED <<answers, entries>>
    \/ \E status, body : Answering(r, status, body)
    \/ /\ stage[r] = "streaming" /\ UNCHANGED answers
       /\ Finish(r, answers[r][1].status, answers[r][1].body)

LEMMA WalkGoes ==
    ASSUME AnswerInv, NEW r \in Requests, NEW i \in 1..Len(chain), Walk(r, i),
           (stage[r] = "new" /\ i = 1) \/ (OnItsWay(r) /\ i = pos[r] + 1),
           UNCHANGED <<api, chain, kind, reply>>
    PROVE  Goes(r) /\ Answers(r)
<1> USE DEF AnswerInv
<1>0. Len(chain) \in Nat /\ pos[r] \in 1..Len(chain)
  BY ChainFacts DEF AnswerTypes
<1>1. PICK j \in 1..Len(chain) : j = Min(Ahead(r, i)) /\ i <= j
  <2>1. Min(Ahead(r, i)) \in i..Len(chain)
    BY WalkFinds
  <2> QED
    BY <1>0, <2>1
<1>2. /\ pos' = [pos EXCEPT ![r] = j]
      /\ \/ stage' = [stage EXCEPT ![r] = "waiting"] /\ UNCHANGED <<answers, entries>>
         \/ /\ stage' = [stage EXCEPT ![r] = "over"]
            /\ \E status, body : /\ Begin(r, status, body) /\ Finish(r, status, body)
                                 /\ status \notin {"hit", "tooMany"}
  BY <1>1 DEF Walk, Ahead, Answer
<1>3. /\ pos'[r] = j /\ stage'[r] \in {"waiting", "over"}
      /\ \A q \in Requests \ {r} : stage'[q] = stage[q] /\ pos'[q] = pos[q]
  BY <1>2 DEF AnswerTypes
<1>4. stage[r] # "new" => pos'[r] > pos[r]
  BY <1>0, <1>1, <1>3
<1>5. Goes(r)
  BY <1>3, <1>4 DEF Goes, OnItsWay
<1>6. Answers(r)
  BY <1>2 DEF Answers, Answering
<1> QED
  BY <1>5, <1>6

\* A request that is over, with the answers it may then have.
LEMMA OverGoes ==
    ASSUME AnswerInv, NEW r \in Requests, stage[r] \notin {"new", "over", "gone"},
           stage' = [stage EXCEPT ![r] = "over"], UNCHANGED <<api, chain, kind, reply, pos>>
    PROVE  Goes(r) /\ stage'[r] = "over"
<1>1. stage'[r] = "over" /\ \A q \in Requests \ {r} : stage'[q] = stage[q]
  BY DEF AnswerInv, AnswerTypes
<1> QED
  BY <1>1 DEF Goes, AnswerInv, AnswerTypes

LEMMA PassGoes ==
    ASSUME AnswerInv, NEW r \in Requests, OnItsWay(r), At(r).does # "proxy", Pass(r),
           UNCHANGED <<api, chain, kind, reply>>
    PROVE  Goes(r) /\ Answers(r)
<1>1. pos[r] \in 1..Len(chain) /\ Len(chain) \in Nat /\ pos[r] # Len(chain)
  BY ChainFacts DEF AnswerInv, AnswerTypes, At, Handler
<1>2. pos[r] + 1 \in 1..Len(chain)
  BY <1>1
<1>3. CASE timer[r] = "fired"
  <2>1. stage' = [stage EXCEPT ![r] = "over"] /\ UNCHANGED <<pos, answers, entries>>
    BY <1>3 DEF Pass, Leaves, Silent
  <2>2. Goes(r)
    BY <2>1, OverGoes DEF OnItsWay
  <2> QED
    BY <2>1, <2>2 DEF Answers
<1>4. CASE timer[r] # "fired"
  BY <1>2, <1>4, WalkGoes DEF Pass
<1> QED
  BY <1>3, <1>4

LEMMA FailGoes ==
    ASSUME AnswerInv, NEW r \in Requests, OnItsWay(r), NEW status, Fail(r, status),
           status # "hit",
           status = "tooMany" => Replied(r, {"limit"}) /\ reply[r].n > MaxRequests,
           UNCHANGED <<api, chain, kind, reply>>
    PROVE  Goes(r) /\ Answers(r)
<1>1. Goes(r) /\ stage'[r] = "over"
  BY OverGoes DEF Fail, OnItsWay
<1>2. UNCHANGED <<answers, entries>> \/ (Begin(r, status, "error") /\ Finish(r, status, "error"))
  BY DEF Fail, Silent, Answer
<1>3. Answers(r)
  BY <1>1, <1>2 DEF Answers, Answering
<1> QED
  BY <1>1, <1>3

LEMMA ReplyGoes ==
    ASSUME AnswerInv, NEW r \in Requests, Increment(r) \/ LookUp(r)
    PROVE  Goes(r) /\ Answers(r)
<1>1. /\ stage[r] = "waiting" /\ stage' = [stage EXCEPT ![r] = "replied"]
      /\ UNCHANGED <<api, chain, kind, pos, answers, entries>>
  BY DEF Increment, LookUp, Waiting, Silent
<1>2. stage'[r] = "replied" /\ \A q \in Requests \ {r} : stage'[q] = stage[q]
  BY <1>1 DEF AnswerInv, AnswerTypes
<1> QED
  BY <1>1, <1>2 DEF Goes, Answers, AnswerInv, AnswerTypes

LEMMA HitGoes ==
    ASSUME AnswerInv, NEW r \in Requests, Hit(r)
    PROVE  Goes(r) /\ Answers(r)
<1>1. /\ stage[r] = "replied" /\ OnItsWay(r) /\ At(r).does = "cache" /\ reply[r] # None
      /\ Replied(r, {"cache"}) /\ UNCHANGED <<api, chain, kind, reply>>
  BY DEF Hit, Replied, OnItsWay
<1>2. CASE answers[r] = <<>>
  <2>1. /\ stage' = [stage EXCEPT ![r] = "over"] /\ UNCHANGED pos
        /\ Begin(r, "hit", reply[r]) /\ Finish(r, "hit", reply[r])
    BY <1>2 DEF Hit, Answer
  <2>2. Goes(r)
    BY <1>1, <2>1, OverGoes
  <2>3. Answering(r, "hit", reply[r])
    BY <1>1, <2>1 DEF Answering
  <2> QED
    BY <2>2, <2>3 DEF Answers
<1>3. CASE answers[r] # <<>>
  BY <1>1, <1>3, PassGoes DEF Hit
<1> QED
  BY <1>2, <1>3

LEMMA BackendGoes ==
    ASSUME AnswerInv, NEW r \in Requests, BackendAnswers(r) \/ BackendStreams(r) \/ StreamEnds(r)
    PROVE  Goes(r) /\ Answers(r)
<1> USE DEF AnswerInv
<1>1. CASE BackendAnswers(r)
  <2>1. /\ stage[r] = "waiting" /\ stage' = [stage EXCEPT ![r] = "over"]
        /\ UNCHANGED <<api, chain, kind, reply, pos>>
    BY <1>1 DEF BackendAnswers, Waiting, Over
  <2>2. \E status, body : SendCollected(r, status, body) /\ status \notin {"hit", "tooMany"}
    BY <1>1 DEF BackendAnswers
  <2>3. Answers(r)
    BY <2>2 DEF SendCollected, Answer, Silent, Answers, Answering
  <2> QED
    BY <2>1, <2>3, OverGoes
<1>2. CASE BackendStreams(r)
  <2>1. stage[r] = "waiting" /\ UNCHANGED <<api, chain, kind, reply, pos, entries>>
    BY <1>2 DEF BackendStreams, Waiting
  <2>2. CASE answers[r] = <<>>
    <3>1. /\ stage' = [stage EXCEPT ![r] = "streaming"]
          /\ \E status, body : Begin(r, status, body) /\ status \notin {"hit", "tooMany"}
      BY <1>2, <2>2 DEF BackendStreams
    <3>2. stage'[r] = "streaming" /\ \A q \in Requests \ {r} : stage'[q] = stage[q]
      BY <3>1 DEF AnswerTypes
    <3>3. Goes(r)
      BY <2>1, <3>2 DEF Goes, AnswerTypes
    <3> QED
      BY <2>1, <3>1, <3>3 DEF Answers, Answering
  <2>3. CASE answers[r] # <<>>
    BY <1>2, <2>1, <2>3, OverGoes DEF BackendStreams, Over, Answers
  <2> QED
    BY <2>2, <2>3
<1>3. CASE StreamEnds(r)
  <2>1. /\ stage[r] = "streaming" /\ stage' = [stage EXCEPT ![r] = "over"]
        /\ UNCHANGED <<api, chain, kind, reply, pos, answers>>
        /\ Finish(r, answers[r][1].status, answers[r][1].body)
    BY <1>3 DEF StreamEnds, Over
  <2>2. Goes(r)
    BY <2>1, OverGoes
  <2> QED
    BY <2>1, <2>2 DEF Answers
<1> QED
  BY <1>1, <1>2, <1>3

LEMMA TimerGoes ==
    ASSUME AnswerInv, NEW r \in Requests, TimesOut(r)
    PROVE  Goes(r) /\ Answers(r)
<1>1. stage[r] # "new" /\ UNCHANGED <<api, chain, kind, stage, reply, pos>>
  BY DEF TimesOut, AnswerInv, Single
<1>2. \/ UNCHANGED <<answers, entries>>
      \/ Begin(r, "timedOut", "error") /\ Finish(r, "timedOut", "error")
  BY DEF TimesOut
<1>3. Goes(r)
  BY <1>1 DEF Goes, AnswerInv, AnswerTypes
<1> QED
  BY <1>2, <1>3 DEF Answers, Answering

LEMMA RequestGoes ==
    ASSUME AnswerInv, NEW r \in Requests, Arrive(r) \/ Handle(r) \/ TimesOut(r)
    PROVE  Goes(r) /\ Answers(r)
<1> USE DEF Waiting, Replied, OnItsWay
<1>1. CASE Arrive(r)
  <2>1. 1 \in 1..Len(chain)
    BY ChainFacts DEF AnswerInv
  <2> QED
    BY <1>1, <2>1, WalkGoes DEF Arrive
<1>2. CASE Resolves(r)
  BY <1>2, PassGoes DEF Resolves, Middleware
<1>3. CASE Rejects(r) \/ CountFails(r) \/ BackendFails(r)
  BY <1>3, FailGoes DEF Rejects, CountFails, BackendFails
<1>4. CASE Limited(r)
  BY <1>4, FailGoes, PassGoes DEF Limited
<1>5. CASE Miss(r) \/ CacheFails(r)
  BY <1>5, PassGoes DEF Miss, CacheFails, CacheFailed
<1> QED
  BY <1>1, <1>2, <1>3, <1>4, <1>5, ReplyGoes, HitGoes, BackendGoes, TimerGoes DEF Handle

-----------------------------------------------------------------------------
(* What the cache answers with.                                            *)

\* A client of a path was answered with a body, and not with an error.
Stored(x, body) ==
    \E q \in Requests : \E a :
        /\ kind[q].path = x /\ answers[q] = <<a>>
        /\ a.status \in {"ok", "notModified"} /\ a.body = body

Remembers(r) ==
    /\ Replied(r, {"cache"}) /\ reply[r] # None => Stored(kind[r].path, reply[r])
    /\ \A a : answers[r] = <<a>> /\ a.status = "hit" => Stored(kind[r].path, a.body)

CacheInv ==
    /\ AnswerInv
    /\ DOMAIN entries = UrlPaths /\ DOMAIN reply = Requests /\ kind \in [Requests -> Kinds]
    /\ \A x \in UrlPaths : entries[x] # None => Stored(x, entries[x])
    /\ \A r \in Requests : Remembers(r)

\* Answers stay.
LEMMA StoredStays ==
    ASSUME AnswerInv, AnswerInv', UNCHANGED kind, NEW r \in Requests,
           UNCHANGED answers \/ \E status, body : Begin(r, status, body),
           NEW x, NEW body, Stored(x, body)
    PROVE  Stored(x, body)'
<1>0. PICK q \in Requests : \E a : /\ kind[q].path = x /\ answers[q] = <<a>>
                                   /\ a.status \in {"ok", "notModified"} /\ a.body = body
  BY DEF Stored
<1>1. PICK a : /\ kind[q].path = x /\ answers[q] = <<a>>
               /\ a.status \in {"ok", "notModified"} /\ a.body = body
  BY <1>0
<1>2. answers'[q] = <<a>>
  <2>1. CASE UNCHANGED answers
    BY <1>1, <2>1
  <2>2. ASSUME NEW s, NEW b, Begin(r, s, b) PROVE answers'[q] = answers[q]
    <3>1. answers[r] = <<>> /\ \A p \in Requests \ {r} : answers'[p] = answers[p]
      BY <2>2, BeginsFirst
    <3>2. q # r
      <4>1. <<a>> # <<>>
        OBVIOUS
      <4> QED
        BY <1>1, <3>1, <4>1
    <3> QED
      BY <3>1, <3>2
  <2> QED
    BY <1>1, <2>1, <2>2
<1> QED
  BY <1>1, <1>2 DEF Stored

\* What a step of a request stores is what it is answered with.
LEMMA StoresAnAnswer ==
    ASSUME CacheInv, AnswerInv', NEW r \in Requests, Answers(r), UNCHANGED kind
    PROVE  \/ UNCHANGED entries
           \/ \E body : /\ entries' = [entries EXCEPT ![kind[r].path] = body]
                        /\ Stored(kind[r].path, body)'
<1> USE DEF CacheInv
<1>1. ASSUME NEW a, answers'[r] = <<a>>, Finish(r, a.status, a.body)
      PROVE  \/ UNCHANGED entries
             \/ \E body : /\ entries' = [entries EXCEPT ![kind[r].path] = body]
                          /\ Stored(kind[r].path, body)'
  <2>1. CASE Stores(a.status)
    <3>1. Stored(kind[r].path, a.body)'
      <4>1. \E q \in Requests : \E b :
                /\ kind'[q].path = kind'[r].path /\ answers'[q] = <<b>>
                /\ b.status \in {"ok", "notModified"} /\ b.body = a.body
        BY <1>1, <2>1 DEF Stores
      <4> QED
        BY <4>1 DEF Stored
    <3> QED
      BY <1>1, <3>1 DEF Finish
  <2>2. CASE ~Stores(a.status)
    BY <1>1, <2>2 DEF Finish
  <2> QED
    BY <2>1, <2>2
<1>2. ASSUME NEW status, NEW body, Begin(r, status, body), Finish(r, status, body)
      PROVE  \E a : answers'[r] = <<a>> /\ Finish(r, a.status, a.body)
  <2>1. answers'[r] = <<[status |-> status, body |-> body]>>
    BY <1>2, BeginsFirst
  <2> QED
    BY <1>2, <2>1
<1>3. ASSUME stage[r] = "streaming", UNCHANGED answers,
             Finish(r, answers[r][1].status, answers[r][1].body)
      PROVE  \E a : answers'[r] = <<a>> /\ Finish(r, a.status, a.body)
  <2>1. PICK a : answers[r] = <<a>>
    BY <1>3 DEF AnswerInv, Single
  <2> QED
    BY <1>3, <2>1
<1> QED
  BY <1>1, <1>2, <1>3 DEF Answers, Answering

LEMMA CacheRequest ==
    ASSUME CacheInv, AnswerInv', NEW r \in Requests, Goes(r), Answers(r),
           ~LookUp(r) => \A q \in Requests : Replied(q, {"cache"})' =>
                             Replied(q, {"cache"}) /\ reply'[q] = reply[q],
           DOMAIN reply' = Requests
    PROVE  CacheInv'
<1> USE DEF CacheInv
<1>0. UNCHANGED <<api, chain, kind>>
  BY DEF Goes
<1>1. UNCHANGED answers \/ \E status, body : Begin(r, status, body)
  BY DEF Answers, Answering
<1>2. ASSUME NEW x, NEW body, Stored(x, body) PROVE Stored(x, body)'
  BY <1>0, <1>1, <1>2, StoredStays
<1>3. ASSUME NEW x \in UrlPaths, entries'[x] # None PROVE Stored(x, entries[x])'
  <2>1. CASE UNCHANGED entries
    <3>1. PICK b : b = entries[x] /\ b = entries'[x]
      BY <2>1
    <3>2. Stored(x, b)
      BY <1>3, <3>1
    <3>3. Stored(x, b)'
      BY <1>2, <3>2
    <3> QED
      BY <3>1, <3>3 DEF Stored
  <2>2. ASSUME NEW body, entries' = [entries EXCEPT ![kind[r].path] = body],
               Stored(kind[r].path, body)'
        PROVE  Stored(x, entries[x])'
    <3>1. CASE x = kind[r].path
      <4>1. entries'[x] = body
        BY <2>2, <3>1
      <4> QED
        BY <1>0, <2>2, <3>1, <4>1 DEF Stored
    <3>2. CASE x # kind[r].path
      <4>1. PICK b : b = entries[x] /\ b = entries'[x]
        BY <2>2, <3>2
      <4>2. Stored(x, b)
        BY <1>3, <4>1
      <4>3. Stored(x, b)'
        BY <1>2, <4>2
      <4> QED
        BY <4>1, <4>3 DEF Stored
    <3> QED
      BY <3>1, <3>2
  <2> QED
    BY <1>0, <2>1, <2>2, StoresAnAnswer
<1>4. DOMAIN entries' = UrlPaths
  BY <1>0, StoresAnAnswer
<1>5. ASSUME NEW q \in Requests PROVE Remembers(q)'
  <2>0. PICK x \in UrlPaths : x = kind[q].path
    BY DEF UrlPaths
  <2>1. ASSUME Replied(q, {"cache"})', reply'[q] # None PROVE Stored(kind[q].path, reply[q])'
    <3>0. PICK b : b = reply'[q]
      OBVIOUS
    <3>1. Stored(x, b)
      <4>1. CASE Replied(q, {"cache"}) /\ reply'[q] = reply[q]
        BY <2>0, <2>1, <3>0, <4>1 DEF Remembers
      <4>2. CASE LookUp(r)
        <5>1. reply' = [reply EXCEPT ![r] = entries[kind[r].path]]
          BY <4>2 DEF LookUp
        <5>2. CASE q = r
          <6>1. b = entries[x]
            BY <2>0, <3>0, <5>1, <5>2
          <6> QED
            BY <2>1, <3>0, <6>1
        <5>3. CASE q # r
          <6>1. Replied(q, {"cache"}) /\ reply'[q] = reply[q]
            BY <1>0, <2>1, <5>1, <5>3 DEF Goes, Replied, At
          <6> QED
            BY <2>0, <2>1, <3>0, <6>1 DEF Remembers
        <5> QED
          BY <5>2, <5>3
      <4> QED
        BY <2>1, <4>1, <4>2
    <3>2. Stored(x, b)'
      BY <1>2, <3>1
    <3> QED
      BY <1>0, <2>0, <3>0, <3>2 DEF Stored
  <2>2. ASSUME NEW a, answers'[q] = <<a>>, a.status = "hit" PROVE Stored(kind[q].path, a.body)'
    <3>1. Stored(x, a.body)
      <4>1. CASE answers[q] = <<a>>
        BY <2>0, <2>2, <4>1 DEF Remembers
      <4>2. CASE answers[q] # <<a>>
        <5>1. PICK status, body : Answering(r, status, body)
          BY <2>2, <4>2 DEF Answers
        <5>2. /\ answers'[r] = <<[status |-> status, body |-> body]>>
              /\ \A p \in Requests \ {r} : answers'[p] = answers[p]
          BY <5>1, BeginsFirst DEF Answering
        <5>3. q = r
          BY <2>2, <4>2, <5>2
        <5>4. a = [status |-> status, body |-> body]
          BY <2>2, <5>2, <5>3
        <5>5. Replied(q, {"cache"}) /\ reply[q] # None /\ a.body = reply[q]
          BY <2>2, <5>1, <5>3, <5>4 DEF Answering
        <5> QED
          BY <2>0, <5>5 DEF Remembers
      <4> QED
        BY <4>1, <4>2
    <3>2. PICK b : b = a.body
      OBVIOUS
    <3>3. Stored(x, b)'
      BY <1>2, <3>1, <3>2
    <3> QED
      BY <1>0, <2>0, <3>2, <3>3 DEF Stored
  <2> QED
    BY <2>1, <2>2 DEF Remembers
<1> QED
  BY <1>0, <1>3, <1>4, <1>5

LEMMA CacheKept ==
    ASSUME CacheInv, AnswerInv', UNCHANGED <<kind, reply, answers>>, DOMAIN entries' = UrlPaths,
           \A x \in UrlPaths : entries'[x] # None => entries'[x] = entries[x],
           \A q \in Requests : Replied(q, {"cache"})' => Replied(q, {"cache"})
    PROVE  CacheInv'
<1>1. \A x, body : Stored(x, body)' <=> Stored(x, body)
  BY DEF Stored
<1>2. ASSUME NEW x \in UrlPaths, entries'[x] # None PROVE Stored(x, entries[x])'
  <2>1. PICK b : b = entries[x] /\ b = entries'[x]
    BY <1>2
  <2>2. Stored(x, b)'
    BY <1>1, <1>2, <2>1 DEF CacheInv
  <2> QED
    BY <2>1, <2>2 DEF Stored
<1>3. ASSUME NEW q \in Requests PROVE Remembers(q)'
  <2>1. ASSUME NEW b, Stored(kind[q].path, b) PROVE Stored(kind[q].path, b)'
    BY <2>1 DEF Stored
  <2>2. PICK b : b = reply[q] /\ b = reply'[q]
    OBVIOUS
  <2>3. Replied(q, {"cache"})' /\ b # None => Stored(kind[q].path, b)
    BY <2>2 DEF CacheInv, Remembers
  <2>4. Stored(kind[q].path, b)' => Stored(kind[q].path, reply[q])'
    BY <2>2 DEF Stored
  <2>5. ASSUME NEW a, answers'[q] = <<a>>, a.status = "hit" PROVE Stored(kind[q].path, a.body)'
    <3>1. Stored(kind[q].path, a.body)
      BY <2>5 DEF CacheInv, Remembers
    <3> QED
      BY <3>1 DEF Stored
  <2> QED
    BY <2>1, <2>2, <2>3, <2>4, <2>5 DEF Remembers
<1> QED
  BY <1>2, <1>3 DEF CacheInv

LEMMA CacheInit == Init => CacheInv
<1>1. ASSUME Init PROVE \A r \in Requests : Remembers(r)
  BY <1>1 DEF Init, Remembers, Replied
<1>2. Init => /\ DOMAIN entries = UrlPaths /\ DOMAIN reply = Requests /\ kind \in [Requests -> Kinds]
              /\ \A x \in UrlPaths : entries[x] = None
  BY DEF Init
<1> QED
  BY <1>1, <1>2, AnswersInit DEF CacheInv

LEMMA CacheStep == CacheInv /\ [Next]_vars => CacheInv'
<1> SUFFICES ASSUME CacheInv, [Next]_vars PROVE CacheInv'
  OBVIOUS
<1> USE DEF CacheInv
<1>0. AnswerInv'
  BY AnswersStep
<1>1. CASE UNCHANGED vars
  BY <1>0, <1>1, CacheKept DEF vars, Replied, At
<1>2. ASSUME NEW r \in Requests, Arrive(r) \/ Handle(r) \/ TimesOut(r) PROVE CacheInv'
  <2>1. Goes(r) /\ Answers(r)
    BY <1>2, RequestGoes
  <2>2. DOMAIN reply' = Requests
    BY <2>1 DEF Goes, Increment, LookUp
  <2>3. ASSUME ~LookUp(r), NEW q \in Requests, Replied(q, {"cache"})'
        PROVE  Replied(q, {"cache"}) /\ reply'[q] = reply[q]
    <3>1. CASE Increment(r)
      <4>1. /\ stage[r] = "waiting" /\ At(r).does = "limit" /\ UNCHANGED <<chain, pos>>
            /\ stage' = [stage EXCEPT ![r] = "replied"]
            /\ \A p \in Requests \ {r} : reply'[p] = reply[p]
        BY <3>1 DEF Increment, Waiting
      <4>2. q # r
        BY <2>3, <4>1 DEF Replied, At
      <4> QED
        BY <2>3, <4>1, <4>2 DEF Replied, At
    <3>2. CASE ~Increment(r)
      <4>1. CASE q = r
        BY <2>1, <2>3, <3>2, <4>1 DEF Goes, Replied, At
      <4>2. CASE q # r
        BY <2>1, <2>3, <3>2, <4>2 DEF Goes, Replied, At
      <4> QED
        BY <4>1, <4>2
    <3> QED
      BY <3>1, <3>2
  <2> QED
    BY <1>0, <2>1, <2>2, <2>3, CacheRequest
<1>3. ASSUME NEW c \in Clients, SetExpiry(c) \/ WindowEnds(c) PROVE CacheInv'
  BY <1>0, <1>3, CacheKept DEF SetExpiry, WindowEnds, Replied, At
<1>4. ASSUME NEW x \in UrlPaths, EntryExpires(x) PROVE CacheInv'
  <2>1. /\ entries' = [entries EXCEPT ![x] = None]
        /\ UNCHANGED <<chain, kind, stage, pos, reply, answers>>
    BY <1>4 DEF EntryExpires
  <2>2. /\ DOMAIN entries' = UrlPaths
        /\ \A y \in UrlPaths : entries'[y] # None => entries'[y] = entries[y]
    BY <2>1
  <2> QED
    BY <1>0, <2>1, <2>2, CacheKept DEF Replied, At
<1>5. CASE Crash
  <2>1. /\ stage' = [r \in Requests |-> IF stage[r] = "new" THEN "new" ELSE "gone"]
        /\ UNCHANGED <<kind, reply, answers, entries>>
    BY <1>5 DEF Crash
  <2>2. \A q \in Requests : ~Replied(q, {"cache"})'
    BY <2>1 DEF Replied
  <2> QED
    BY <1>0, <2>1, <2>2, CacheKept
<1> QED
  BY <1>1, <1>2, <1>3, <1>4, <1>5 DEF Next

\* Whatever the cache answers with, a client of the same URL was answered with
\* it, and not with an error, whichever requests race for the entry
\* (ServerCache.buildCacheMiddleware()).
THEOREM HitsAreAnswers == Spec => []HitsRepeatAnAnswer
<1>1. ASSUME CacheInv PROVE HitsRepeatAnAnswer
  <2> SUFFICES ASSUME NEW r \in Requests, 1 <= Len(answers[r]), answers[r][1].status = "hit"
               PROVE  \E q \in Requests : /\ kind[q].path = kind[r].path /\ answers[q] # <<>>
                                          /\ answers[q][1].status \in {"ok", "notModified"}
                                          /\ answers[q][1].body = answers[r][1].body
    BY DEF HitsRepeatAnAnswer
  <2>1. PICK a : answers[r] = <<a>> /\ a.status = "hit"
    <3>1. CASE answers[r] = <<>>
      BY <3>1
    <3>2. CASE \E x : answers[r] = <<x>>
      BY <3>2
    <3> QED
      BY <1>1, <3>1, <3>2 DEF CacheInv, AnswerInv, Single
  <2>2. Stored(kind[r].path, a.body)
    BY <1>1, <2>1 DEF CacheInv, Remembers
  <2>3. PICK q \in Requests : \E b : /\ kind[q].path = kind[r].path /\ answers[q] = <<b>>
                                     /\ b.status \in {"ok", "notModified"} /\ b.body = a.body
    BY <2>2 DEF Stored
  <2> QED
    BY <2>1, <2>3
<1> QED
  BY <1>1, CacheInit, CacheStep, PTL DEF Spec

-----------------------------------------------------------------------------
(* What a client is told when it makes too many requests.                  *)

\* The request was counted, if the API has one limiter.
PastLimit(r) ==
    /\ stage[r] # "new"
    /\ \A i \in 1..Len(chain) : chain[i].does = "limit" =>
            i < pos[r] \/ (i = pos[r] /\ stage[r] # "waiting")

\* A limiter counts no more than the requests of the client in the window.
Window(c) ==
    /\ count[c] <= Cardinality(counted[c])
    /\ \A r \in counted[c] : kind[r].client = c /\ PastLimit(r)

Earned(r) ==
    /\ Replied(r, {"limit"}) => reply[r].n \in Nat /\ reply[r].n <= came[r]
    /\ \A a : answers[r] = <<a>> /\ a.status = "tooMany" =>
            stage[r] \in {"over", "gone"} /\ came[r] > MaxRequests

WindowTypes ==
    /\ counted \in [Clients -> SUBSET Requests] /\ came \in [Requests -> Nat]
    /\ \A c \in Clients : IsFiniteSet(counted[c])

LimitInv ==
    /\ AnswerInv /\ CounterInv /\ WindowTypes
    /\ Len(api.throttling) <= 1 =>
        (\A c \in Clients : Window(c)) /\ (\A r \in Requests : Earned(r))

\* A step of a request that counts nothing.
LEMMA LimitGoes ==
    ASSUME LimitInv, AnswerInv', CounterInv', NEW r \in Requests, Goes(r), Answers(r), ~Increment(r),
           UNCHANGED <<count, counted, came>>
    PROVE  LimitInv'
<1> USE DEF LimitInv
<1>0. UNCHANGED <<api, chain, kind>> /\ WindowTypes'
  BY DEF Goes, WindowTypes
<1> SUFFICES ASSUME Len(api.throttling) <= 1
             PROVE  (\A c \in Clients : Window(c)') /\ (\A q \in Requests : Earned(q)')
  BY <1>0
<1>1. ASSUME NEW q \in Requests, PastLimit(q) PROVE PastLimit(q)'
  <2>1. CASE q = r
    <3>1. /\ stage'[q] # "new"
          /\ \/ pos'[q] > pos[q]
             \/ pos'[q] = pos[q] /\ (stage'[q] = "waiting" => stage[q] = "waiting")
      BY <1>1, <2>1 DEF Goes, PastLimit
    <3>2. pos[q] \in Nat /\ pos'[q] \in Nat /\ Len(chain) \in Nat
      BY <1>0, ChainFacts DEF AnswerInv, AnswerTypes
    <3>3. ASSUME NEW i \in 1..Len(chain), chain[i].does = "limit"
          PROVE  i < pos'[q] \/ (i = pos'[q] /\ stage'[q] # "waiting")
      <4>1. i < pos[q] \/ (i = pos[q] /\ stage[q] # "waiting")
        BY <1>1, <3>3 DEF PastLimit
      <4> QED
        BY <3>1, <3>2, <4>1
    <3> QED
      BY <1>0, <3>1, <3>3 DEF PastLimit
  <2>2. CASE q # r
    BY <1>0, <1>1, <2>2 DEF Goes, PastLimit
  <2> QED
    BY <2>1, <2>2
<1>2. ASSUME NEW c \in Clients PROVE Window(c)'
  <2>1. Window(c)
    OBVIOUS
  <2>2. ASSUME NEW q \in counted[c] PROVE kind'[q].client = c /\ PastLimit(q)'
    <3>1. q \in Requests
      BY DEF WindowTypes
    <3> QED
      BY <1>0, <1>1, <2>1, <3>1 DEF Window
  <2> QED
    BY <2>1, <2>2 DEF Window
<1>3. ASSUME NEW q \in Requests PROVE Earned(q)'
  <2>0. Earned(q)
    OBVIOUS
  <2>1. ASSUME Replied(q, {"limit"})' PROVE Replied(q, {"limit"}) /\ reply'[q] = reply[q]
    <3>1. CASE LookUp(r)
      <4>1. /\ stage[r] = "waiting" /\ At(r).does = "cache" /\ UNCHANGED <<chain, pos>>
            /\ stage' = [stage EXCEPT ![r] = "replied"]
            /\ \A p \in Requests \ {r} : reply'[p] = reply[p]
        BY <3>1 DEF LookUp, Waiting
      <4>2. q # r
        BY <2>1, <4>1 DEF Replied, At
      <4> QED
        BY <2>1, <4>1, <4>2 DEF Replied, At
    <3>2. CASE ~LookUp(r)
      <4>1. CASE q = r
        BY <2>1, <3>2, <4>1 DEF Goes, Replied, At
      <4>2. CASE q # r
        BY <2>1, <3>2, <4>2 DEF Goes, Replied, At
      <4> QED
        BY <4>1, <4>2
    <3> QED
      BY <3>1, <3>2
  <2>2. ASSUME NEW a, answers'[q] = <<a>>, a.status = "tooMany"
        PROVE  stage'[q] \in {"over", "gone"} /\ came'[q] > MaxRequests
    <3>1. CASE answers[q] = <<a>>
      <4>1. stage[q] \in {"over", "gone"} /\ came[q] > MaxRequests
        BY <2>0, <2>2, <3>1 DEF Earned
      <4>2. stage'[q] = stage[q]
        BY <4>1 DEF Goes
      <4> QED
        BY <4>1, <4>2
    <3>2. CASE answers[q] # <<a>>
      <4>1. PICK status, body : Answering(r, status, body)
        BY <2>2, <3>2 DEF Answers
      <4>2. /\ answers'[r] = <<[status |-> status, body |-> body]>>
            /\ \A p \in Requests \ {r} : answers'[p] = answers[p]
        BY <4>1, BeginsFirst DEF Answering
      <4>3. q = r
        BY <2>2, <3>2, <4>2
      <4>4. status = "tooMany"
        BY <2>2, <4>2, <4>3
      <4>5. Replied(q, {"limit"}) /\ reply[q].n > MaxRequests /\ stage'[q] = "over"
        BY <4>1, <4>3, <4>4 DEF Answering
      <4>6. reply[q].n \in Nat /\ reply[q].n <= came[q] /\ came[q] \in Nat /\ MaxRequests \in Nat
        BY <2>0, <4>5, RequestsAssumption DEF Earned, WindowTypes
      <4>7. came[q] > MaxRequests
        BY <4>5, <4>6
      <4> QED
        BY <4>5, <4>7
    <3> QED
      BY <3>1, <3>2
  <2> QED
    BY <2>0, <2>1, <2>2 DEF Earned
<1> QED
  BY <1>2, <1>3

\* The request that is counted was not in the window.
LEMMA LimitCounts ==
    ASSUME LimitInv, AnswerInv', CounterInv', NEW r \in Requests, Increment(r)
    PROVE  LimitInv'
<1> USE DEF LimitInv
<1>0. PICK c \in Clients : c = kind[r].client
  BY DEF Clients, CounterInv, CounterTypes
<1>1. /\ stage[r] = "waiting" /\ At(r).does = "limit"
      /\ stage' = [stage EXCEPT ![r] = "replied"]
      /\ count' = [count EXCEPT ![c] = count[c] + 1]
      /\ reply' = [reply EXCEPT ![r] = [n |-> count[c] + 1, expires |-> expires[c]]]
      /\ counted' = [counted EXCEPT ![c] = counted[c] \cup {r}]
      /\ came' = [came EXCEPT ![r] = Cardinality(counted[c] \cup {r})]
      /\ UNCHANGED <<api, chain, kind, pos, answers>>
  BY <1>0 DEF Increment, Waiting, Key, Silent
<1>2. /\ IsFiniteSet(counted[c]) /\ Cardinality(counted[c]) \in Nat
      /\ IsFiniteSet(counted[c] \cup {r}) /\ Cardinality(counted[c] \cup {r}) \in Nat
      /\ r \notin counted[c] => Cardinality(counted[c] \cup {r}) = Cardinality(counted[c]) + 1
  <2>1. IsFiniteSet(counted[c])
    BY DEF WindowTypes
  <2>2. /\ IsFiniteSet(counted[c] \cup {r})
        /\ r \notin counted[c] => Cardinality(counted[c] \cup {r}) = Cardinality(counted[c]) + 1
    BY <2>1, FS_AddElement
  <2> QED
    BY <2>1, <2>2, FS_CardinalityType
<1>3. /\ counted'[c] = counted[c] \cup {r} /\ came'[r] = Cardinality(counted[c] \cup {r})
      /\ \A d \in Clients \ {c} : counted'[d] = counted[d]
      /\ \A q \in Requests \ {r} : came'[q] = came[q]
  BY <1>1 DEF WindowTypes
<1>4. WindowTypes'
  <2>1. counted' \in [Clients -> SUBSET Requests]
    BY <1>1 DEF WindowTypes
  <2>2. came' \in [Requests -> Nat]
    BY <1>1, <1>2 DEF WindowTypes
  <2>3. ASSUME NEW d \in Clients PROVE IsFiniteSet(counted'[d])
    BY <1>2, <1>3 DEF WindowTypes
  <2> QED
    BY <2>1, <2>2, <2>3 DEF WindowTypes
<1> SUFFICES ASSUME Len(api.throttling) <= 1
             PROVE  (\A d \in Clients : Window(d)') /\ (\A q \in Requests : Earned(q)')
  BY <1>1, <1>4
<1>5. /\ stage'[r] = "replied" /\ \A q \in Requests \ {r} : stage'[q] = stage[q]
      /\ pos[r] \in 1..Len(chain) /\ Len(chain) \in Nat
  BY <1>1, ChainFacts DEF AnswerInv, AnswerTypes
<1>6. \A i \in 1..Len(chain) : chain[i].does = "limit" => i = pos[r]
  <2>1. OneLimit(chain)
    BY ApisAssumption, ChainRanked DEF AnswerInv, AnswerTypes
  <2> QED
    BY <1>1, <1>5, <2>1 DEF OneLimit, At
<1>7. PastLimit(r)'
  BY <1>1, <1>5, <1>6 DEF PastLimit
<1>8. r \notin counted[c]
  <2>1. ~PastLimit(r)
    BY <1>1, <1>5 DEF PastLimit, At
  <2> QED
    BY <2>1 DEF Window
<1>9. \A q \in Requests \ {r} : PastLimit(q) => PastLimit(q)'
  BY <1>1, <1>5 DEF PastLimit
<1>10. /\ count[c] \in Nat /\ count'[c] = count[c] + 1
       /\ \A d \in Clients \ {c} : count'[d] = count[d]
  BY <1>1 DEF CounterInv, CounterTypes
<1>11. count[c] + 1 <= Cardinality(counted[c] \cup {r})
  <2>1. count[c] <= Cardinality(counted[c])
    BY DEF Window
  <2> QED
    BY <1>2, <1>8, <1>10, <2>1
<1>12. ASSUME NEW d \in Clients PROVE Window(d)'
  <2>1. ASSUME NEW q \in counted'[d] PROVE kind'[q].client = d /\ PastLimit(q)'
    <3>1. CASE q = r /\ d = c
      BY <1>0, <1>1, <1>7, <3>1
    <3>2. CASE q \in counted[d]
      <4>1. kind[q].client = d /\ PastLimit(q) /\ q \in Requests
        BY <3>2 DEF Window, WindowTypes
      <4> QED
        BY <1>1, <1>7, <1>9, <4>1
    <3> QED
      BY <1>3, <3>1, <3>2
  <2>2. count'[d] <= Cardinality(counted'[d])
    <3>1. CASE d = c
      BY <1>3, <1>10, <1>11, <3>1
    <3>2. CASE d # c
      BY <1>3, <1>10, <3>2 DEF Window
    <3> QED
      BY <3>1, <3>2
  <2>3. PICK s : s = counted'[d]
    OBVIOUS
  <2> QED
    BY <2>1, <2>2 DEF Window
<1>13. ASSUME NEW q \in Requests PROVE Earned(q)'
  <2>1. CASE q = r
    <3>1. reply'[q].n = count[c] + 1 /\ reply'[q].n \in Nat /\ reply'[q].n <= came'[q]
      <4>1. reply'[r].n = count[c] + 1
        BY <1>1 DEF CounterInv, CounterTypes
      <4> QED
        BY <1>3, <1>10, <1>11, <2>1, <4>1
    <3>2. ASSUME NEW a, answers'[q] = <<a>>, a.status = "tooMany" PROVE FALSE
      BY <1>1, <2>1, <3>2 DEF Earned
    <3> QED
      BY <3>1, <3>2 DEF Earned
  <2>2. CASE q # r
    <3>1. /\ reply'[q] = reply[q] /\ came'[q] = came[q] /\ stage'[q] = stage[q] /\ Earned(q)
          /\ (Replied(q, {"limit"})' <=> Replied(q, {"limit"}))
      BY <1>1, <1>3, <1>5, <2>2 DEF Replied, At
    <3> QED
      BY <1>1, <3>1 DEF Earned
  <2> QED
    BY <2>1, <2>2
<1> QED
  BY <1>12, <1>13

\* A step of Redis or the loss of the process.
LEMMA LimitKept ==
    ASSUME LimitInv, AnswerInv', CounterInv', UNCHANGED <<api, chain, kind, pos, reply, came, answers>>,
           \A q \in Requests : stage'[q] = stage[q] \/ (stage[q] # "new" /\ stage'[q] = "gone"),
           \A c \in Clients : \/ count'[c] = count[c] /\ counted'[c] = counted[c]
                              \/ count'[c] = 0 /\ counted'[c] = {},
           counted' \in [Clients -> SUBSET Requests]
    PROVE  LimitInv'
<1> USE DEF LimitInv
<1>1. WindowTypes'
  BY FS_EmptySet DEF WindowTypes
<1>2. \A q \in Requests : PastLimit(q) => PastLimit(q)'
  BY DEF PastLimit
<1>3. ASSUME Len(api.throttling) <= 1, NEW c \in Clients PROVE Window(c)'
  <2>1. Window(c)
    BY <1>3
  <2>2. CASE count'[c] = count[c] /\ counted'[c] = counted[c]
    <3>1. ASSUME NEW q \in counted'[c] PROVE kind'[q].client = c /\ PastLimit(q)'
      <4>1. q \in Requests /\ q \in counted[c]
        BY <2>2 DEF WindowTypes
      <4> QED
        BY <1>2, <2>1, <4>1 DEF Window
    <3> QED
      BY <2>1, <2>2, <3>1 DEF Window
  <2>3. CASE count'[c] = 0 /\ counted'[c] = {}
    BY <2>3, FS_EmptySet DEF Window
  <2> QED
    BY <2>2, <2>3
<1>4. ASSUME Len(api.throttling) <= 1, NEW q \in Requests PROVE Earned(q)'
  <2>1. Earned(q) /\ (Replied(q, {"limit"})' => Replied(q, {"limit"}))
    BY <1>4 DEF Replied, At
  <2> QED
    BY <2>1 DEF Earned
<1> QED
  BY <1>1, <1>3, <1>4

LEMMA LimitInit == Init => LimitInv
<1> SUFFICES ASSUME Init PROVE LimitInv
  OBVIOUS
<1>1. WindowTypes
  BY FS_EmptySet DEF Init, WindowTypes
<1>2. \A c \in Clients : Window(c)
  BY FS_EmptySet DEF Init, Window
<1>3. \A r \in Requests : Earned(r)
  BY DEF Init, Earned, Replied
<1> QED
  BY <1>1, <1>2, <1>3, AnswersInit, CounterInit DEF LimitInv

LEMMA LimitStep == LimitInv /\ [Next]_vars => LimitInv'
<1> SUFFICES ASSUME LimitInv, [Next]_vars PROVE LimitInv'
  OBVIOUS
<1>0. AnswerInv' /\ CounterInv'
  BY AnswersStep, CounterStep DEF LimitInv
<1>1. CASE UNCHANGED vars
  BY <1>0, <1>1, LimitKept DEF vars, LimitInv, WindowTypes
<1>2. ASSUME NEW r \in Requests, Arrive(r) \/ Handle(r) \/ TimesOut(r), ~Increment(r)
      PROVE  LimitInv'
  <2>1. Goes(r) /\ Answers(r)
    BY <1>2, RequestGoes DEF LimitInv
  <2>2. UNCHANGED <<count, counted, came>>
    BY <1>2 DEF Handle, Arrive, TimesOut, Resolves, Rejects, Limited, CountFails, LookUp, Hit, Miss,
                CacheFails, BackendAnswers, BackendStreams, StreamEnds, BackendFails, store
  <2> QED
    BY <1>0, <1>2, <2>1, <2>2, LimitGoes
<1>3. ASSUME NEW r \in Requests, Increment(r) PROVE LimitInv'
  BY <1>0, <1>3, LimitCounts
<1>4. ASSUME NEW c \in Clients, SetExpiry(c) PROVE LimitInv'
  BY <1>0, <1>4, LimitKept DEF SetExpiry, LimitInv, WindowTypes
<1>5. ASSUME NEW c \in Clients, WindowEnds(c) PROVE LimitInv'
  <2>1. /\ count' = [count EXCEPT ![c] = 0] /\ counted' = [counted EXCEPT ![c] = {}]
        /\ UNCHANGED <<api, chain, kind, pos, reply, came, answers, stage>>
    BY <1>5 DEF WindowEnds
  <2>2. \A d \in Clients : \/ count'[d] = count[d] /\ counted'[d] = counted[d]
                           \/ count'[d] = 0 /\ counted'[d] = {}
    BY <2>1 DEF LimitInv, WindowTypes, CounterInv, CounterTypes
  <2>3. counted' \in [Clients -> SUBSET Requests]
    BY <2>1 DEF LimitInv, WindowTypes
  <2> QED
    BY <1>0, <2>1, <2>2, <2>3, LimitKept
<1>6. ASSUME NEW x \in UrlPaths, EntryExpires(x) PROVE LimitInv'
  BY <1>0, <1>6, LimitKept DEF EntryExpires, store, LimitInv, WindowTypes
<1>7. CASE Crash
  BY <1>0, <1>7, LimitKept DEF Crash, LimitInv, WindowTypes
<1> QED
  BY <1>1, <1>2, <1>3, <1>4, <1>5, <1>6, <1>7 DEF Next, Handle

\* Nobody is told it made too many requests that did not, however requests and
\* the ends of windows interleave, when the API has one limiter
\* (RedisStore.incr(), RedisStore.getRedisKey()).
THEOREM OnlyTheGreedyAreRefused == Spec => []RefusalsAreEarned
<1>1. ASSUME LimitInv PROVE RefusalsAreEarned
  <2> SUFFICES ASSUME NEW r \in Requests, NEW i \in 1..Len(answers[r]),
                      answers[r][i].status = "tooMany", ~(Len(api.throttling) > 1)
               PROVE  came[r] > MaxRequests
    BY DEF RefusalsAreEarned
  <2>1. Len(api.throttling) <= 1
    <3>1. Len(api.throttling) \in Nat
      BY <1>1, ApisAssumption, LenProperties DEF LimitInv, AnswerInv, AnswerTypes, WellFormed
    <3> QED
      BY <3>1
  <2>2. PICK a : answers[r] = <<a>> /\ a.status = "tooMany"
    <3>1. CASE answers[r] = <<>>
      BY <3>1
    <3>2. ASSUME NEW a, answers[r] = <<a>> PROVE a.status = "tooMany"
      BY <3>2
    <3> QED
      BY <1>1, <3>1, <3>2 DEF LimitInv, AnswerInv, Single
  <2> QED
    BY <1>1, <2>1, <2>2 DEF LimitInv, Earned
<1> QED
  BY <1>1, LimitInit, LimitStep, PTL DEF Spec
=============================================================================
