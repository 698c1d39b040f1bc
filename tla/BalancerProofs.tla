--------------------------- MODULE BalancerProofs ---------------------------
(***************************************************************************)
(* What it takes for a destination to be down, and how evenly a balancer   *)
(* chooses its destinations, for any lists and any failCount.              *)
(***************************************************************************)
EXTENDS Balancer, FiniteSetTheorems, TLAPS

USE CheckAssumption DEF CheckAssumption

Targets == DOMAIN checks

\* A destination whose request was aborted, or answered with an error and not
\* yet timed out, may be counted once more for the same failure.
Owed(s) == (IF s \in aborted THEN 1 ELSE 0) + (IF s \in failing THEN 1 ELSE 0)

\* Every failure is counted twice at most, until there are enough of them.
CountedTwice(s) ==
    \/ 2 * failed[s] >= FailCount
    \/ ~checks[s].down /\ checks[s].count + Owed(s) <= 2 * failed[s]

HealthTypes ==
    /\ checks \in [Targets -> [count : Nat, down : BOOLEAN]]
    /\ failed \in [Targets -> Nat]
    /\ asked \subseteq Targets /\ failing \subseteq asked /\ aborted \subseteq Targets
    /\ asked \cap aborted = {}

HealthInv == HealthTypes /\ \A s \in Targets : CountedTwice(s)

LEMMA CapIsEnough == CountCap \in Nat /\ CountCap >= FailCount /\ FailCount \in Nat \ {0}
BY DEF CountCap

LEMMA SlotTypes ==
    ASSUME HealthTypes, NEW s \in Targets
    PROVE  /\ checks[s].count \in Nat /\ checks[s].down \in BOOLEAN
           /\ checks[s] = [count |-> checks[s].count, down |-> checks[s].down]
           /\ failed[s] \in Nat /\ Owed(s) \in 0..2
BY DEF HealthTypes, Owed

\* What a check does to its destination leaves the others alone.
LEMMA OthersKept ==
    ASSUME HealthTypes, HealthTypes', \A s \in Targets : CountedTwice(s),
           NEW s \in Targets, Targets' = Targets,
           \A t \in Targets \ {s} :
               /\ checks'[t] = checks[t] /\ failed'[t] = failed[t]
               /\ t \in aborted' <=> t \in aborted
               /\ t \in failing' <=> t \in failing,
           CountedTwice(s)'
    PROVE  HealthInv'
BY DEF HealthInv, CountedTwice, Owed

\* One more is counted: what was owed before, or a failure that is new.
LEMMA Counted ==
    ASSUME HealthTypes, NEW s \in Targets, Counts(s)
    PROVE  /\ checks' \in [Targets -> [count : Nat, down : BOOLEAN]]
           /\ Targets' = Targets
           /\ checks'[s].count <= checks[s].count + 1
           /\ checks'[s].down => checks[s].down \/ checks[s].count + 1 >= FailCount
           /\ \A t \in Targets \ {s} : checks'[t] = checks[t]
<1> DEFINE n == checks[s].count + 1
           c == [count |-> IF n > CountCap THEN CountCap ELSE n,
                 down  |-> checks[s].down \/ n >= FailCount]
<1>1. checks' = [checks EXCEPT ![s] = c]
  BY DEF Counts
<1>2. checks[s].count \in Nat /\ checks[s].down \in BOOLEAN /\ CountCap \in Nat
  BY SlotTypes, CapIsEnough
<1>3. c \in [count : Nat, down : BOOLEAN]
  BY <1>2
<1>4. c.count <= n /\ (c.down => checks[s].down \/ n >= FailCount)
  BY <1>2
<1> HIDE DEF c
<1>5. checks \in [Targets -> [count : Nat, down : BOOLEAN]]
  BY DEF HealthTypes
<1>6. /\ checks' \in [Targets -> [count : Nat, down : BOOLEAN]]
      /\ checks'[s] = c /\ \A t \in Targets \ {s} : checks'[t] = checks[t]
  BY <1>1, <1>3, <1>5
<1>7. Targets' = Targets
  BY <1>5, <1>6 DEF Targets
<1> QED
  BY <1>4, <1>6, <1>7

LEMMA FailedOnce ==
    ASSUME HealthTypes, NEW s \in Targets, FailsOnce(s)
    PROVE  /\ failed' \in [Targets -> Nat]
           /\ failed'[s] = failed[s] + 1 \/ (2 * failed'[s] >= FailCount)
           /\ failed'[s] >= failed[s]
           /\ \A t \in Targets \ {s} : failed'[t] = failed[t]
<1>1. CountCap \in Nat /\ CountCap >= FailCount /\ failed[s] \in Nat
  BY SlotTypes, CapIsEnough
<1>2. failed' = [failed EXCEPT ![s] = IF failed[s] = CountCap THEN failed[s] ELSE failed[s] + 1]
  BY DEF FailsOnce
<1> QED
  BY <1>1, <1>2 DEF HealthTypes

\* What was owed is counted.
LEMMA OwedIsCounted ==
    ASSUME HealthTypes, HealthTypes', NEW s \in Targets, CountedTwice(s),
           Counts(s), UNCHANGED failed, Owed(s)' = Owed(s) - 1
    PROVE  CountedTwice(s)'
<1>1. /\ checks[s].count \in Nat /\ checks[s].down \in BOOLEAN
      /\ failed[s] \in Nat /\ Owed(s) \in 0..2
  BY SlotTypes
<1>2. /\ checks'[s].count <= checks[s].count + 1 /\ s \in Targets'
      /\ checks'[s].down => checks[s].down \/ checks[s].count + 1 >= FailCount
  BY Counted
<1>3. checks'[s].count \in Nat /\ checks'[s].down \in BOOLEAN
  BY <1>2 DEF HealthTypes
<1>4. CASE 2 * failed[s] >= FailCount
  BY <1>4 DEF CountedTwice
<1>5. CASE ~checks[s].down /\ checks[s].count + Owed(s) <= 2 * failed[s]
           /\ checks[s].count + 1 < FailCount
  <2>1. ~checks'[s].down
    BY <1>1, <1>2, <1>5, CapIsEnough
  <2>2. checks'[s].count + Owed(s)' <= 2 * failed[s]
    BY <1>1, <1>2, <1>3, <1>5
  <2> QED
    BY <2>1, <2>2 DEF CountedTwice
<1>6. CASE checks[s].count + Owed(s) <= 2 * failed[s] /\ checks[s].count + 1 >= FailCount
  <2>1. Owed(s) >= 1
    BY <1>1 DEF Owed
  <2> QED
    BY <1>1, <1>6, <2>1, CapIsEnough DEF CountedTwice
<1> QED
  BY <1>1, <1>4, <1>5, <1>6, CapIsEnough DEF CountedTwice

-----------------------------------------------------------------------------
\* A checker that is new has counted nothing.
LEMMA NewSheet ==
    ASSUME HealthInv, NEW items, NewChecker(items)
    PROVE  HealthInv'
<1> DEFINE D == items \cap monitored
<1>1. CASE D = {}
  BY <1>1 DEF NewChecker, health, HealthInv, HealthTypes, CountedTwice, Owed, Targets
<1>2. CASE D # {}
  <2>1. /\ checks' = [s \in D |-> [count |-> 0, down |-> FALSE]]
        /\ asked' = D /\ failing' = {} /\ aborted' = {} /\ failed' = [s \in D |-> 0]
    BY <1>2 DEF NewChecker
  <2>2. Targets' = D
    BY <2>1 DEF Targets
  <2>3. HealthTypes'
    BY <2>1, <2>2 DEF HealthTypes
  <2>4. ASSUME NEW s \in D PROVE CountedTwice(s)'
    BY <2>1 DEF CountedTwice, Owed
  <2> QED
    BY <2>2, <2>3, <2>4 DEF HealthInv
<1> QED
  BY <1>1, <1>2

LEMMA HealthInit == Init => HealthInv
<1> SUFFICES ASSUME Init PROVE HealthInv
  OBVIOUS
<1> DEFINE D == FixedItems[Lb] \cap monitored
<1>1. /\ checks = [s \in D |-> [count |-> 0, down |-> FALSE]]
      /\ asked = D /\ failing = {} /\ aborted = {} /\ failed = [s \in D |-> 0]
  BY DEF Init
<1>2. Targets = D
  BY <1>1 DEF Targets
<1>3. HealthTypes
  BY <1>1, <1>2 DEF HealthTypes
<1>4. ASSUME NEW s \in D PROVE CountedTwice(s)
  BY <1>1 DEF CountedTwice, Owed
<1> QED
  BY <1>2, <1>3, <1>4 DEF HealthInv

LEMMA HealthStep == HealthInv /\ [Next]_vars => HealthInv'
<1> SUFFICES ASSUME HealthInv, [Next]_vars PROVE HealthInv'
  OBVIOUS
<1> USE DEF HealthInv
<1>1. ASSUME UNCHANGED health PROVE HealthInv'
  BY <1>1 DEF health, HealthTypes, CountedTwice, Owed, Targets
<1>2. ASSUME NEW items, Taken(items) PROVE HealthInv'
  BY <1>1, <1>2, NewSheet DEF Taken
<1>3. ASSUME Deliver PROVE HealthInv'
  BY <1>2, <1>3 DEF Deliver
<1>4. ASSUME Reload PROVE HealthInv'
  <2>1. UNCHANGED <<checks, failed>> /\ asked' = {} /\ failing' = {} /\ aborted' = {}
    BY <1>4 DEF Reload
  <2>2. Targets' = Targets
    BY <2>1 DEF Targets
  <2>3. HealthTypes'
    BY <2>1, <2>2 DEF HealthTypes
  <2>4. ASSUME NEW s \in Targets PROVE CountedTwice(s)'
    <3>1. Owed(s) \in 0..2 /\ checks[s].count \in Nat /\ failed[s] \in Nat
      BY <2>4, SlotTypes
    <3>3. Owed(s)' = 0
      BY <2>1 DEF Owed
    <3>2. CountedTwice(s)
      BY <2>4
    <3> QED
      BY <2>1, <3>1, <3>2, <3>3 DEF CountedTwice
  <2> QED
    BY <2>2, <2>3, <2>4
<1>5. ASSUME Built PROVE HealthInv'
  BY <1>5, NewSheet DEF Built
<1>6. ASSUME StartRound PROVE HealthInv'
  <2>1. UNCHANGED <<checks, failed, failing, aborted>> /\ asked' = Targets /\ aborted = {}
    BY <1>6 DEF StartRound, Targets
  <2>2. Targets' = Targets
    BY <2>1 DEF Targets
  <2>3. HealthTypes'
    BY <2>1, <2>2 DEF HealthTypes
  <2> QED
    BY <2>1, <2>2, <2>3 DEF CountedTwice, Owed
<1>7. ASSUME NEW s \in Targets, Checked(s) PROVE HealthInv'
  <2> DEFINE clean == [count |-> 0, down |-> FALSE]
  <2>1. /\ checks' = [checks EXCEPT ![s] = clean] /\ failed' = [failed EXCEPT ![s] = 0]
        /\ asked' = asked \ {s} /\ s \in asked \ failing /\ UNCHANGED <<failing, aborted>>
    BY <1>7 DEF Checked, Waits, Resolves
  <2>2. Targets' = Targets
    BY <2>1 DEF Targets, HealthTypes
  <2>3. checks' \in [Targets -> [count : Nat, down : BOOLEAN]] /\ checks'[s] = clean
    BY <2>1 DEF HealthTypes
  <2>4. HealthTypes'
    BY <2>1, <2>2, <2>3 DEF HealthTypes
  <2>5. CountedTwice(s)'
    BY <2>1, <2>3 DEF CountedTwice, Owed, HealthTypes
  <2>6. \A t \in Targets \ {s} : checks'[t] = checks[t] /\ failed'[t] = failed[t]
    BY <2>1 DEF HealthTypes
  <2> QED
    BY <2>1, <2>2, <2>4, <2>5, <2>6, OthersKept
<1>8. ASSUME NEW s \in Targets, CheckedWithError(s) PROVE HealthInv'
  <2>1. Counts(s) /\ FailsOnce(s) /\ s \in asked \ failing /\ UNCHANGED aborted
        /\ \/ asked' = asked \ {s} /\ failing' = failing
           \/ asked' = asked /\ failing' = failing \cup {s}
    BY <1>8 DEF CheckedWithError, Waits, Resolves, Unresolved
  <2>2. Targets' = Targets
    BY <2>1, Counted
  <2>3. HealthTypes'
    BY <2>1, <2>2, Counted, FailedOnce DEF HealthTypes
  <2>4. CountedTwice(s)'
    <3>1. Owed(s)' <= Owed(s) + 1 /\ Owed(s) \in 0..2 /\ Owed(s)' \in 0..2
      BY <2>1 DEF Owed
    <3> QED
      BY <2>1, <2>2, <2>3, <3>1, SlotTypes, Counted, FailedOnce DEF CountedTwice, HealthTypes
  <2> QED
    BY <2>1, <2>2, <2>3, <2>4, Counted, FailedOnce, OthersKept
<1>9. ASSUME NEW s \in Targets, TimesOut(s) PROVE HealthInv'
  <2>1. Counts(s) /\ s \in asked /\ asked' = asked \ {s} /\ failing' = failing \ {s}
    BY <1>9 DEF TimesOut, Resolves
  <2>2. Targets' = Targets
    BY <2>1, Counted
  <2>3. CASE s \in failing
    <3>1. UNCHANGED <<failed, aborted>>
      BY <1>9, <2>3 DEF TimesOut
    <3>2. HealthTypes'
      BY <2>1, <2>2, <3>1, Counted DEF HealthTypes
    <3>3. CountedTwice(s)'
      <4>1. Owed(s)' = Owed(s) - 1 /\ Owed(s) \in 0..2
        BY <2>1, <2>3, <3>1 DEF Owed
      <4> QED
        BY <2>1, <2>2, <3>1, <3>2, <4>1, OwedIsCounted
    <3> QED
      BY <2>1, <2>2, <3>1, <3>2, <3>3, Counted, OthersKept
  <2>4. CASE s \notin failing
    <3>1. FailsOnce(s) /\ aborted' \in {aborted, aborted \cup {s}}
      BY <1>9, <2>4 DEF TimesOut
    <3>2. HealthTypes'
      BY <2>1, <2>2, <3>1, Counted, FailedOnce DEF HealthTypes
    <3>3. CountedTwice(s)'
      <4>1. Owed(s)' <= Owed(s) + 1 /\ Owed(s) \in 0..2 /\ Owed(s)' \in 0..2
        BY <2>1, <2>4, <3>1 DEF Owed
      <4> QED
        BY <2>1, <2>2, <3>1, <3>2, <4>1, SlotTypes, Counted, FailedOnce DEF CountedTwice, HealthTypes
    <3> QED
      BY <2>1, <2>2, <2>4, <3>1, <3>2, <3>3, Counted, FailedOnce, OthersKept
  <2> QED
    BY <2>3, <2>4
<1>10. ASSUME NEW s \in Targets, AbortCounts(s) PROVE HealthInv'
  <2>1. Counts(s) /\ s \in aborted /\ aborted' = aborted \ {s} /\ UNCHANGED <<asked, failing, failed>>
    BY <1>10 DEF AbortCounts
  <2>2. Targets' = Targets
    BY <2>1, Counted
  <2>3. HealthTypes'
    BY <2>1, <2>2, Counted DEF HealthTypes
  <2>4. CountedTwice(s)'
    <3>1. Owed(s)' = Owed(s) - 1 /\ Owed(s) \in 0..2
      BY <2>1 DEF Owed
    <3> QED
      BY <2>1, <2>2, <2>3, <3>1, OwedIsCounted
  <2> QED
    BY <2>1, <2>2, <2>3, <2>4, Counted, OthersKept
<1>11. ASSUME NEW s \in Targets, CheckFails(s) PROVE HealthInv'
  <2>1. Counts(s) /\ FailsOnce(s) /\ s \in asked \ failing /\ asked' = asked \ {s}
        /\ UNCHANGED <<failing, aborted>>
    BY <1>11 DEF CheckFails, Waits, Resolves
  <2>2. Targets' = Targets
    BY <2>1, Counted
  <2>3. HealthTypes'
    BY <2>1, <2>2, Counted, FailedOnce DEF HealthTypes
  <2>4. CountedTwice(s)'
    <3>1. Owed(s)' = Owed(s) /\ Owed(s) \in 0..2
      BY <2>1 DEF Owed
    <3> QED
      BY <2>1, <2>2, <2>3, <3>1, SlotTypes, Counted, FailedOnce DEF CountedTwice, HealthTypes
  <2> QED
    BY <2>1, <2>2, <2>3, <2>4, Counted, FailedOnce, OthersKept
<1>12. UNCHANGED vars \/ Balance \/ PollFails \/ BuildFails \/ (\E k \in Keys : Change(k))
         \/ (\E c \in Watchers : Poll(c)) => UNCHANGED health
  BY DEF vars, health, Balance, PollFails, BuildFails, Change, Poll
<1> QED
  BY <1>1, <1>3, <1>4, <1>5, <1>6, <1>7, <1>8, <1>9, <1>10, <1>11, <1>12 DEF Next, Targets

\* A destination is down only if half of failCount of its checks failed since
\* one was fine: a failure is counted twice at most (HealthCheck.checkServer()).
THEOREM DownIsEarned == Spec => []DownNeedsFailures
<1>1. HealthInv => DownNeedsFailures
  BY DEF HealthInv, CountedTwice, DownNeedsFailures, Targets
<1> QED
  BY <1>1, HealthInit, HealthStep, PTL DEF Spec

-----------------------------------------------------------------------------
(***************************************************************************)
(* The choices of the balancer.  The counter of an array is kept modulo    *)
(* its length, so the destinations before the counter have been chosen     *)
(* once more than those behind it; what else they differ by comes from     *)
(* the arrays before, one for each of them at most.                        *)
(***************************************************************************)

\* The places of the round-robin in a list.
Turns(S) == IF S = {} THEN {0} ELSE 0..(Cardinality(S) - 1)

\* Of two places of the array, the first has had its turn in this round.
Between(j, k) == IF j <= turn /\ turn < k THEN 1 ELSE 0

\* What the first of two places is ahead of the second, this round aside.
Ahead(j, k) == chosen[Instances[j]] - chosen[Instances[k]] - Between(j, k)

ChoiceTypes ==
    /\ IsFiniteSet(data[Lb]) /\ Lb \in present
    /\ chosen \in [data[Lb] -> Nat] /\ arrays \in Nat \ {0}
    /\ turn \in Turns(data[Lb]) /\ kept \in Turns(FixedItems[Lb])
    /\ configured => data[Lb] = FixedItems[Lb]

Lead ==
    \A j, k \in 1..Cardinality(data[Lb]) :
        j < k => -arrays <= Ahead(j, k) /\ Ahead(j, k) <= arrays - 1

RoundInv == ChoiceTypes /\ Lead

LEMMA SetToSeqOfFinite ==
    ASSUME NEW S, IsFiniteSet(S)
    PROVE  /\ SetToSeq(S) \in [1..Cardinality(S) -> S] /\ IsInjective(SetToSeq(S))
           /\ Cardinality(S) \in Nat /\ Len(SetToSeq(S)) = Cardinality(S)
           /\ \A x \in S : \E i \in 1..Cardinality(S) : SetToSeq(S)[i] = x
<1> DEFINE n == Cardinality(S)
           D == 1..n
           f == SetToSeq(S)
<1>1. n \in Nat /\ ExistsBijection(D, S)
  BY FS_CardinalityType
<1>2. IsFiniteSet(D) /\ Cardinality(D) = n
  BY <1>1, FS_Interval
<1>3. \E g \in [D -> S] : IsInjective(g)
  BY <1>1 DEF ExistsBijection, Bijection, Injection
<1>4. f \in [D -> S] /\ IsInjective(f)
  BY <1>3 DEF SetToSeq
<1>5. Len(f) = n
  BY <1>1, <1>4
<1> HIDE DEF f
<1>6. f \in Injection(D, S)
  BY <1>4 DEF Injection
<1> HIDE DEF D, n
<1>7. f \in Surjection(D, S)
  BY <1>2, <1>6, FS_Injection DEF n
<1>8. \A x \in S : \E i \in D : f[i] = x
  BY <1>7 DEF Surjection
<1> QED
  BY <1>1, <1>4, <1>5, <1>8 DEF f, D, n

LEMMA NextTurn ==
    ASSUME NEW n \in Nat, NEW t \in 0..(n - 1)
    PROVE  (t + 1) % n = IF t + 1 = n THEN 0 ELSE t + 1
OBVIOUS

LEMMA ZeroIsTurn == \A S : IsFiniteSet(S) => 0 \in Turns(S)
<1> SUFFICES ASSUME NEW S, IsFiniteSet(S) PROVE 0 \in Turns(S)
  OBVIOUS
<1>1. S # {} => Cardinality(S) \in Nat /\ Cardinality(S) # 0
  BY FS_CardinalityType, FS_EmptySet
<1> QED
  BY <1>1 DEF Turns

LEMMA LbWatches == Lb \in Watchers /\ Lb \in OfApis
BY DEF Watchers, OfApis

\* Places, and what was chosen there, are numbers.
LEMMA PlaceTypes ==
    ASSUME ChoiceTypes, NEW j \in 1..Cardinality(data[Lb])
    PROVE  /\ Instances[j] \in data[Lb] /\ chosen[Instances[j]] \in Nat
           /\ j \in Nat /\ turn \in Nat /\ kept \in Nat
           /\ \A i \in 1..Cardinality(data[Lb]) : Instances[i] = Instances[j] => i = j
<1> DEFINE S == data[Lb]
           n == Cardinality(S)
           f == SetToSeq(S)
<1>1. f \in [1..n -> S] /\ IsInjective(f) /\ n \in Nat
  BY SetToSeqOfFinite DEF ChoiceTypes
<1>2. \A T : IsFiniteSet(T) => Turns(T) \subseteq Nat
  BY FS_CardinalityType DEF Turns
<1>3. turn \in Nat /\ kept \in Nat
  BY <1>2, ListsAssumption DEF ChoiceTypes, ListsAssumption
<1> QED
  BY <1>1, <1>3 DEF ChoiceTypes, Instances, IsInjective

LEMMA LeadIsFair == RoundInv => RoundsAreFair
<1> SUFFICES ASSUME RoundInv, NEW s \in DOMAIN chosen, NEW d \in DOMAIN chosen
             PROVE  chosen[s] - chosen[d] <= arrays
  BY DEF RoundsAreFair
<1> DEFINE n == Cardinality(data[Lb])
<1>1. s \in data[Lb] /\ d \in data[Lb] /\ arrays \in Nat \ {0} /\ ChoiceTypes
  BY DEF RoundInv, ChoiceTypes
<1>2. PICK j \in 1..n, k \in 1..n : Instances[j] = s /\ Instances[k] = d
  BY <1>1, SetToSeqOfFinite DEF ChoiceTypes, Instances
<1>3. /\ chosen[s] \in Nat /\ chosen[d] \in Nat /\ j \in Nat /\ k \in Nat
      /\ Between(j, k) \in {0, 1} /\ Between(k, j) \in {0, 1}
  BY <1>1, <1>2, PlaceTypes DEF Between
<1>4. CASE j < k
  <2>1. Ahead(j, k) <= arrays - 1 /\ Ahead(j, k) = chosen[s] - chosen[d] - Between(j, k)
    BY <1>2, <1>4 DEF RoundInv, Lead, Ahead
  <2> QED
    BY <1>1, <1>3, <2>1
<1>5. CASE k < j
  <2>1. -arrays <= Ahead(k, j) /\ Ahead(k, j) = chosen[d] - chosen[s] - Between(k, j)
    BY <1>2, <1>5 DEF RoundInv, Lead, Ahead
  <2> QED
    BY <1>1, <1>3, <2>1
<1>6. CASE j = k
  BY <1>1, <1>2, <1>3, <1>6
<1> QED
  BY <1>3, <1>4, <1>5, <1>6

\* The counter goes round, and nobody's lead changes.
LEMMA BalanceKeepsLead ==
    ASSUME RoundInv, Balance
    PROVE  RoundInv'
<1> DEFINE S == data[Lb]
           n == Cardinality(S)
           f == SetToSeq(S)
           now == [chosen EXCEPT ![f[turn + 1]] = @ + 1]
<1>1. ChoiceTypes /\ Lead /\ IsFiniteSet(S)
  BY DEF RoundInv, ChoiceTypes
<1>2. f \in [1..n -> S] /\ IsInjective(f) /\ n \in Nat /\ Len(f) = n
  BY <1>1, SetToSeqOfFinite
<1>3. /\ turn' = (turn + 1) % n /\ f # <<>>
      /\ chosen' = IF \A d \in DOMAIN now : now[d] > 0
                   THEN [d \in DOMAIN now |-> now[d] - 1] ELSE now
      /\ UNCHANGED <<present, data, kept, configured, arrays>>
  BY <1>2 DEF Balance, Chooses, Instances, given
<1>4. S # {}
  <2>1. ASSUME S = {} PROVE FALSE
    <3>1. n = 0
      BY <2>1, FS_EmptySet
    <3> QED
      BY <1>2, <1>3, <3>1
  <2> QED
    BY <2>1
<1>5. turn \in 0..(n - 1)
  BY <1>1, <1>4 DEF ChoiceTypes, Turns
<1>6. turn' = IF turn + 1 = n THEN 0 ELSE turn + 1
  BY <1>2, <1>3, <1>5, NextTurn
<1>7. f[turn + 1] \in S /\ chosen \in [S -> Nat]
  BY <1>1, <1>2, <1>5 DEF ChoiceTypes
<1>8. /\ now \in [S -> Nat]
      /\ \A s \in S : now[s] = chosen[s] + (IF s = f[turn + 1] THEN 1 ELSE 0)
  BY <1>7
<1> HIDE DEF now
\* Either none of them loses what all have, or each does.
<1>9. /\ chosen' \in [S -> Nat]
      /\ \A s, d \in S : chosen'[s] - chosen'[d] = now[s] - now[d]
  <2>1. CASE \A d \in DOMAIN now : now[d] > 0
    <3>1. chosen' = [d \in S |-> now[d] - 1] /\ \A d \in S : now[d] > 0 /\ now[d] \in Nat
      BY <1>3, <1>8, <2>1
    <3> QED
      BY <3>1
  <2>2. CASE ~ \A d \in DOMAIN now : now[d] > 0
    BY <1>3, <1>8, <2>2
  <2> QED
    BY <2>1, <2>2
<1>10. ChoiceTypes'
  <2>1. turn' \in 0..(n - 1)
    BY <1>2, <1>5, <1>6
  <2> QED
    BY <1>1, <1>3, <1>4, <1>9, <2>1 DEF ChoiceTypes, Turns
<1>11. ASSUME NEW j \in 1..n, NEW k \in 1..n, j < k
       PROVE  Ahead(j, k)' = Ahead(j, k)
  <2>1. /\ f[j] \in S /\ f[k] \in S /\ chosen[f[j]] \in Nat /\ chosen[f[k]] \in Nat
        /\ f[j] = f[turn + 1] <=> j = turn + 1
        /\ f[k] = f[turn + 1] <=> k = turn + 1
    BY <1>2, <1>5, <1>7 DEF IsInjective
  <2>2. chosen'[f[j]] - chosen'[f[k]] = now[f[j]] - now[f[k]]
    BY <1>9, <2>1
  <2>3. /\ now[f[j]] = chosen[f[j]] + (IF j = turn + 1 THEN 1 ELSE 0)
        /\ now[f[k]] = chosen[f[k]] + (IF k = turn + 1 THEN 1 ELSE 0)
    BY <1>8, <2>1
  <2>4. /\ Ahead(j, k) = chosen[f[j]] - chosen[f[k]] - Between(j, k)
        /\ Ahead(j, k)' = chosen'[f[j]] - chosen'[f[k]] - Between(j, k)'
    BY <1>3 DEF Ahead, Instances
  <2>5. /\ Between(j, k) = IF j <= turn /\ turn < k THEN 1 ELSE 0
        /\ Between(j, k)' = IF j <= turn' /\ turn' < k THEN 1 ELSE 0
    BY DEF Between
  <2>6. Between(j, k)' - Between(j, k) =
          (IF j = turn + 1 THEN 1 ELSE 0) - (IF k = turn + 1 THEN 1 ELSE 0)
    BY <1>2, <1>5, <1>6, <1>11, <2>5
  <2>7. Between(j, k) \in {0, 1} /\ Between(j, k)' \in {0, 1}
    BY <2>5
  <2>8. chosen'[f[j]] \in Nat /\ chosen'[f[k]] \in Nat
    BY <1>9, <2>1
  <2> DEFINE x == chosen[f[j]]  y == chosen[f[k]]  b == Between(j, k)
             X == chosen'[f[j]] Y == chosen'[f[k]] B == Between(j, k)'
             p == IF j = turn + 1 THEN 1 ELSE 0
             q == IF k = turn + 1 THEN 1 ELSE 0
  <2>9. /\ X - Y = (x + p) - (y + q) /\ B - b = p - q
        /\ Ahead(j, k) = x - y - b /\ Ahead(j, k)' = X - Y - B
    BY <2>2, <2>3, <2>4, <2>6
  <2>10. {x, y, X, Y, b, B, p, q} \subseteq Int
    BY <2>1, <2>7, <2>8
  <2> HIDE DEF x, y, X, Y, b, B, p, q
  <2> QED
    BY <2>9, <2>10
<1>12. Lead'
  <2>1. n' = n
    BY <1>3
  <2> QED
    BY <1>1, <1>3, <1>11, <2>1 DEF Lead
<1> QED
  BY <1>10, <1>12 DEF RoundInv

LEMMA SameChoices ==
    ASSUME RoundInv, UNCHANGED <<present, configured, turn, chosen, arrays>>,
           kept' \in Turns(FixedItems[Lb]), data'[Lb] = data[Lb]
    PROVE  RoundInv'
<1>1. ASSUME NEW j, NEW k PROVE Ahead(j, k)' = Ahead(j, k)
  BY DEF Ahead, Between, Instances
<1> QED
  BY <1>1 DEF RoundInv, ChoiceTypes, Lead, Turns

\* Nobody is ahead when counting begins, wherever the counter is.
LEMMA NewLead ==
    ASSUME ChoiceTypes', NewCount(data'[Lb])
    PROVE  RoundInv'
<1> SUFFICES ASSUME NEW j \in 1..Cardinality(data'[Lb]), NEW k \in 1..Cardinality(data'[Lb]), j < k
             PROVE  -(arrays') <= Ahead(j, k)' /\ Ahead(j, k)' <= arrays' - 1
  BY DEF RoundInv, Lead
<1>1. arrays' = 1 /\ chosen' = [s \in data'[Lb] |-> 0]
  BY DEF NewCount
<1>2. Instances'[j] \in data'[Lb] /\ Instances'[k] \in data'[Lb]
  <2>1. SetToSeq(data'[Lb]) \in [1..Cardinality(data'[Lb]) -> data'[Lb]]
    BY SetToSeqOfFinite DEF ChoiceTypes
  <2> QED
    BY <2>1 DEF Instances
<1>3. Between(j, k)' \in {0, 1}
  BY DEF Between
<1>4. Ahead(j, k)' = 0 - 0 - Between(j, k)'
  BY <1>1, <1>2 DEF Ahead
<1> QED
  BY <1>1, <1>3, <1>4

\* Another array of the same destinations: the round that is broken off leaves
\* its lead, and that of the array's own counter is taken from it.
LEMMA OneMoreLead ==
    ASSUME RoundInv, ChoiceTypes', data'[Lb] = data[Lb], chosen' = chosen, arrays' = arrays + 1
    PROVE  RoundInv'
<1> DEFINE n == Cardinality(data[Lb])
<1> SUFFICES ASSUME NEW j \in 1..n, NEW k \in 1..n, j < k
             PROVE  -(arrays') <= Ahead(j, k)' /\ Ahead(j, k)' <= arrays' - 1
  BY DEF RoundInv, Lead
<1>1. -arrays <= Ahead(j, k) /\ Ahead(j, k) <= arrays - 1 /\ arrays \in Nat
  BY DEF RoundInv, Lead, ChoiceTypes
<1>2. /\ Ahead(j, k) = chosen[Instances[j]] - chosen[Instances[k]] - Between(j, k)
      /\ Ahead(j, k)' = chosen[Instances[j]] - chosen[Instances[k]] - Between(j, k)'
  BY DEF Ahead, Instances
<1>3. chosen[Instances[j]] \in Nat /\ chosen[Instances[k]] \in Nat
  BY PlaceTypes DEF RoundInv
<1>4. Between(j, k) \in {0, 1} /\ Between(j, k)' \in {0, 1}
  BY DEF Between
<1> QED
  BY <1>1, <1>2, <1>3, <1>4

LEMMA DeliverKeepsLead ==
    ASSUME RoundInv, Deliver
    PROVE  RoundInv'
<1>1. PICK items :
         /\ data'[Lb] = IF Takes(items) THEN FixedItems[Lb] \cup items ELSE data[Lb]
         /\ Taken(items) /\ UNCHANGED present
  BY LbWatches DEF Deliver, Gets, given
<1>2. CASE ~Takes(items)
  BY <1>1, <1>2, SameChoices DEF Taken, choice, RoundInv, ChoiceTypes
<1>3. CASE Takes(items)
  <2> DEFINE D == FixedItems[Lb] \cup items
  <2>1. data'[Lb] = D /\ Merged(items) /\ ChoiceTypes
    BY <1>1, <1>3 DEF Taken, RoundInv
  <2>2. IsFiniteSet(D)
    <3>1. items \subseteq Destinations
      BY <1>3 DEF Takes, Parses
    <3> QED
      BY <3>1, ListsAssumption, FS_Subset, FS_Union DEF ListsAssumption
  <2>3. configured' => D = FixedItems[Lb]
    BY <2>1 DEF Merged, IsConfigured
  <2>4. kept' \in Turns(FixedItems[Lb])
    BY <2>1 DEF Merged, ChoiceTypes
  <2>5. turn' \in Turns(D)
    <3>1. 0 \in Turns(D)
      BY <2>2, ZeroIsTurn
    <3> QED
      BY <2>1, <2>3, <2>4, <3>1 DEF Merged
  <2>6. CASE configured /\ configured'
    <3>1. data'[Lb] = data[Lb] /\ UNCHANGED <<configured, turn, chosen, arrays>>
      BY <2>1, <2>3, <2>6 DEF Merged, Recounted, ChoiceTypes
    <3> QED
      BY <1>1, <2>4, <3>1, SameChoices
  <2>7. CASE ~(configured /\ configured') /\ DOMAIN chosen = D /\ arrays < MaxArrays
    <3>1. chosen' = chosen /\ arrays' = arrays + 1
      BY <2>1, <2>7 DEF Merged, Recounted
    <3>2. data'[Lb] = data[Lb]
      BY <2>1, <2>7 DEF ChoiceTypes
    <3>3. chosen' \in [D -> Nat] /\ arrays' \in Nat \ {0}
      BY <2>1, <2>7, <3>1 DEF ChoiceTypes
    <3>4. ChoiceTypes'
      BY <1>1, <2>1, <2>2, <2>3, <2>4, <2>5, <3>3 DEF ChoiceTypes, Turns
    <3> QED
      BY <3>1, <3>2, <3>4, OneMoreLead
  <2>8. CASE ~(configured /\ configured') /\ ~(DOMAIN chosen = D /\ arrays < MaxArrays)
    <3>1. NewCount(D)
      BY <2>1, <2>8 DEF Merged, Recounted
    <3>2. chosen' \in [D -> Nat] /\ arrays' \in Nat \ {0}
      BY <3>1 DEF NewCount
    <3>3. ChoiceTypes'
      BY <1>1, <2>1, <2>2, <2>3, <2>4, <2>5, <3>2 DEF ChoiceTypes, Turns
    <3>4. NewCount(data'[Lb])
      BY <2>1, <3>1
    <3> QED
      BY <3>3, <3>4, NewLead
  <2> QED
    BY <2>6, <2>7, <2>8
<1> QED
  BY <1>2, <1>3

\* A balancer that is new begins with the configured destinations.
LEMMA BuiltLead ==
    ASSUME RoundInv, Built
    PROVE  RoundInv'
<1>1. /\ data'[Lb] = FixedItems[Lb] /\ turn' = 0 /\ kept' = 0
      /\ NewCount(data'[Lb]) /\ Lb \in present'
  <2>1. Lb \in Rebuilt /\ UNCHANGED present
    BY LbWatches DEF Built, Rebuilt, RoundInv, ChoiceTypes, given
  <2>2. data'[Lb] = FixedItems[Lb]
    BY <2>1, LbWatches DEF Built
  <2> QED
    BY <2>1, <2>2 DEF Built, NewInstances, RoundInv, ChoiceTypes
<1>2. chosen' \in [data'[Lb] -> Nat] /\ arrays' \in Nat \ {0}
  BY <1>1 DEF NewCount
<1>3. IsFiniteSet(FixedItems[Lb]) /\ 0 \in Turns(FixedItems[Lb])
  BY ListsAssumption, ZeroIsTurn DEF ListsAssumption
<1>4. ChoiceTypes'
  BY <1>1, <1>2, <1>3 DEF ChoiceTypes, Turns
<1> QED
  BY <1>1, <1>4, NewLead

LEMMA RoundInit == Init => RoundInv
<1> SUFFICES ASSUME Init PROVE RoundInv
  OBVIOUS
<1>1. /\ data = FixedItems /\ turn = 0 /\ kept = 0 /\ arrays = 1
      /\ chosen = [s \in FixedItems[Lb] |-> 0] /\ Lb \in present
  BY LbWatches DEF Init
<1>2. IsFiniteSet(FixedItems[Lb]) /\ 0 \in Turns(FixedItems[Lb])
  BY ListsAssumption, ZeroIsTurn DEF ListsAssumption
<1>3. ChoiceTypes
  BY <1>1, <1>2 DEF ChoiceTypes
<1>4. ASSUME NEW j \in 1..Cardinality(data[Lb]), NEW k \in 1..Cardinality(data[Lb]), j < k
      PROVE  Ahead(j, k) = 0
  <2>1. Instances[j] \in FixedItems[Lb] /\ Instances[k] \in FixedItems[Lb]
    BY <1>1, <1>3, PlaceTypes
  <2>2. Between(j, k) = 0
    BY <1>1 DEF Between
  <2> QED
    BY <1>1, <2>1, <2>2 DEF Ahead
<1>5. Lead
  BY <1>1, <1>4 DEF Lead
<1> QED
  BY <1>3, <1>5 DEF RoundInv

LEMMA RoundStep == RoundInv /\ [Next]_vars => RoundInv'
<1> SUFFICES ASSUME RoundInv, [Next]_vars PROVE RoundInv'
  OBVIOUS
<1>1. CASE Deliver
  BY <1>1, DeliverKeepsLead
<1>2. CASE Built
  BY <1>2, BuiltLead
<1>3. CASE Balance
  BY <1>3, BalanceKeepsLead
<1>4. ASSUME \/ \E k \in Keys : Change(k)
             \/ \E c \in Watchers : Poll(c)
             \/ PollFails \/ Reload \/ BuildFails \/ StartRound \/ UNCHANGED vars
             \/ \E s \in DOMAIN checks : \/ Checked(s) \/ CheckedWithError(s) \/ TimesOut(s)
                                         \/ AbortCounts(s) \/ CheckFails(s)
      PROVE  RoundInv'
  <2>1. UNCHANGED <<present, configured, turn, kept, chosen, arrays, data>>
    BY <1>4 DEF Change, Poll, PollFails, Reload, BuildFails, StartRound, vars, Checked,
                CheckedWithError, TimesOut, AbortCounts, CheckFails, choice, given
  <2> QED
    BY <2>1, SameChoices DEF RoundInv, ChoiceTypes
<1> QED
  BY <1>1, <1>2, <1>3, <1>4 DEF Next

\* For any number of destinations, a balancer that starts over among the same ones,
\* because lists of other keys pass through it, chooses none more often than another
\* by more than the number of arrays it has had them in, however many lists come and
\* whenever (RoundRobinBalancer.balance(), Balancer.mergeInstances()).
THEOREM RoundsGoRound == Spec => []RoundsAreFair
<1>1. RoundInv => RoundsAreFair
  BY LeadIsFair
<1> QED
  BY <1>1, RoundInit, RoundStep, PTL DEF Spec
=============================================================================
