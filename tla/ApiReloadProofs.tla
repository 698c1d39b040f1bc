-------------------------- MODULE ApiReloadProofs --------------------------
(***************************************************************************)
(* Proofs about ApiReload for every number of processes, APIs, paths,      *)
(* changes and jobs: the types, the order in which the versions of an API  *)
(* reach a process, and what a process routes when it is done.             *)
(***************************************************************************)
EXTENDS ApiReload, SequenceTheorems, FiniteSetTheorems, WellFoundedInduction, TLAPS

(***************************************************************************)
(* The first and the last of some answers.                                 *)
(***************************************************************************)

LEMMA LessIsWellFounded == IsWellFoundedOn({ss \in Nat \X Nat : ss[1] < ss[2]}, Nat)
BY NatLessThanWellFounded DEF OpToRel

LEMMA FirstOfSome ==
    ASSUME NEW S \in SUBSET Nat, S # {}
    PROVE  \E i \in S : \A j \in S : i <= j
<1> DEFINE R == {ss \in Nat \X Nat : ss[1] < ss[2]}
<1>1. IsWellFoundedOn(R, Nat)
  BY LessIsWellFounded
<1> HIDE DEF R
<1>2. PICK i \in S : \A j \in S : ~(<<j, i>> \in R)
  BY <1>1, WFMin
<1>3. ASSUME NEW j \in S PROVE i <= j
  <2>1. i \in Nat /\ j \in Nat
    OBVIOUS
  <2>2. ~(<<j, i>> \in R)
    BY <1>2
  <2> QED
    BY <2>1, <2>2 DEF R
<1> QED
  BY <1>3

LEMMA LastOfSome ==
    ASSUME NEW n \in Nat, NEW S \in SUBSET (1..n), S # {}
    PROVE  \E i \in S : \A j \in S : j <= i
<1> DEFINE T == {n - i : i \in S}
<1>1. \A i \in S : i \in 1..n /\ n - i \in Nat
  OBVIOUS
<1>2. T \in SUBSET Nat /\ T # {}
  BY <1>1
<1>3. PICK x \in T : \A y \in T : x <= y
  BY <1>2, FirstOfSome
<1>4. PICK i \in S : x = n - i
  OBVIOUS
<1>5. ASSUME NEW j \in S PROVE j <= i
  <2>1. n - j \in T
    OBVIOUS
  <2> QED
    <3>1. x <= n - j
      BY <1>3, <2>1
    <3> HIDE DEF T
    <3> QED
      BY <1>1, <1>4, <3>1
<1> QED
  BY <1>5

(***************************************************************************)
(* What a batch of lists makes of the routes.                              *)
(***************************************************************************)

\* A route that is set is set to what one of the lists says.
LEMMA LoadChooses ==
    ASSUME NEW n \in Nat, NEW lists, DOMAIN lists \in SUBSET (1..n),
           NEW fails, NEW old, NEW a \in Apis, Loaded(lists, fails, a) # {}
    PROVE  \E i \in Loaded(lists, fails, a) : Load(old, lists, fails)[a] = lists[i][a]
<1> DEFINE by == Loaded(lists, fails, a)
<1>1. by \in SUBSET (1..n) /\ by # {}
  BY DEF Loaded
<1>2. \E i \in by : \A j \in by : j <= i
  BY <1>1, LastOfSome
<1> DEFINE last == CHOOSE i \in by : \A j \in by : j <= i
<1>3. last \in by
  BY <1>2
<1>4. Load(old, lists, fails)[a] = lists[last][a]
  BY <1>1 DEF Load
<1> QED
  BY <1>3, <1>4

LEMMA LoadKeeps ==
    ASSUME NEW lists, NEW fails, NEW old, NEW a \in Apis, Loaded(lists, fails, a) = {}
    PROVE  Load(old, lists, fails)[a] =
              IF Removed(lists, fails, a) THEN 0 ELSE Start(old, lists)[a]
BY DEF Load

\* Without an answer that lists the APIs, the routes stay as they are.
LEMMA LoadNothing ==
    ASSUME NEW lists, DOMAIN lists = {}, NEW fails, NEW old \in Config
    PROVE  Load(old, lists, fails) = old
<1>1. \A a \in Apis : Loaded(lists, fails, a) = {} /\ ~Removed(lists, fails, a)
  BY DEF Loaded, Removed
<1>2. Start(old, lists) = old
  BY DEF Start
<1>3. \A a \in Apis : Load(old, lists, fails)[a] = old[a]
  BY <1>1, <1>2, LoadKeeps
<1>4. Load(old, lists, fails) = [a \in Apis |-> Load(old, lists, fails)[a]]
  BY DEF Load
<1> QED
  BY <1>3, <1>4 DEF Config

\* Lists that all say the same, and load, become the routes.
LEMMA LoadAgreed ==
    ASSUME NEW n \in Nat, NEW lists, DOMAIN lists \in SUBSET (1..n), DOMAIN lists # {},
           NEW c \in Config, NEW fails,
           \A i \in DOMAIN lists : lists[i] = c /\ fails[i] = {}, NEW old \in Config
    PROVE  Load(old, lists, fails) = c
<1>1. ASSUME NEW a \in Apis PROVE Load(old, lists, fails)[a] = c[a]
  <2>1. CASE Loaded(lists, fails, a) # {}
    <3>1. PICK i \in Loaded(lists, fails, a) : Load(old, lists, fails)[a] = lists[i][a]
      BY <2>1, LoadChooses
    <3>2. i \in DOMAIN lists
      BY DEF Loaded
    <3> QED
      BY <3>1, <3>2
  <2>2. CASE Loaded(lists, fails, a) = {}
    <3>1. c[a] = 0
      BY <2>2 DEF Loaded
    <3>2. Removed(lists, fails, a)
      BY <3>1 DEF Removed
    <3> QED
      BY <2>2, <3>1, <3>2, LoadKeeps
  <2> QED
    BY <2>1, <2>2
<1>2. Load(old, lists, fails) = [a \in Apis |-> Load(old, lists, fails)[a]]
  BY DEF Load
<1> QED
  BY <1>1, <1>2 DEF Config

LEMMA LoadType ==
    ASSUME NEW n \in Nat, NEW read \in SUBSET (1..n), NEW lists \in [read -> Config],
           NEW fails, NEW old \in Config
    PROVE  Load(old, lists, fails) \in Config
<1>0. DOMAIN lists \in SUBSET (1..n)
  OBVIOUS
<1>1. 0 \in Version
  BY ReloadAssumption DEF Version
<1>2. Start(old, lists) \in Config
  BY <1>1 DEF Start, NoApis, Config
<1>3. ASSUME NEW a \in Apis PROVE Load(old, lists, fails)[a] \in Version
  <2>1. CASE Loaded(lists, fails, a) # {}
    <3>1. PICK i \in Loaded(lists, fails, a) : Load(old, lists, fails)[a] = lists[i][a]
      BY <2>1, <1>0, LoadChooses
    <3> QED
      BY <3>1 DEF Loaded, Config
  <2>2. CASE Loaded(lists, fails, a) = {}
    BY <1>1, <1>2, <2>2, LoadKeeps DEF Config
  <2> QED
    BY <2>1, <2>2
<1>4. Load(old, lists, fails) = [a \in Apis |-> Load(old, lists, fails)[a]]
  BY DEF Load
<1> QED
  BY <1>3, <1>4 DEF Config

-----------------------------------------------------------------------------
(***************************************************************************)
(* The invariants.                                                         *)
(***************************************************************************)

\* The i-th answer that waits for process p lists the APIs.
Lists(p, i) == replies[p][i].op = "list"

\* Nobody has heard of a version that was not saved, and a routed API has a
\* handler in the server.
Known ==
    /\ \A a \in Apis : registry[a] <= clock
    /\ \A p \in Procs : events[p] <= clock /\ Jobs(p) <= MaxJobs
    /\ \A p \in Procs : \A a \in Apis : routes[p][a] <= clock
    /\ \A p \in Procs : \A i \in 1..Len(replies[p]) :
         Lists(p, i) => \A a \in Apis : replies[p][i].apis[a] <= clock

RoutedIsMounted ==
    \A p \in Procs, a \in Apis :
        routes[p][a] # 0 => \E x \in Paths : <<a, x>> \in mounted[p]

TypeInv == TypeOK /\ Known /\ RoutedIsMounted

\* The registered version of an API never precedes another one.
Ordered(p) ==
    \A a \in Apis : \A i, j \in 1..Len(replies[p]) :
        /\ i < j /\ Lists(p, i) /\ Lists(p, j)
        /\ registry[a] # 0 /\ replies[p][i].apis[a] = registry[a]
        => replies[p][j].apis[a] = registry[a]

Latest(p) ==
    \A a \in Apis :
        registry[a] # 0 /\ routes[p][a] = registry[a]
            => \A i \in 1..Len(replies[p]) : Lists(p, i) => replies[p][i].apis[a] = registry[a]

ServedInv == TypeInv /\ \A p \in Procs : Ordered(p) /\ Latest(p)

\* All the lists that wait from the k-th answer on are the registered APIs.
FreshFrom(p, k) ==
    \A i \in k..Len(replies[p]) : Lists(p, i) => replies[p][i].apis = registry

\* What will route the registered APIs: an event, a job, or it is done.
CaughtUp(p) ==
    \/ events[p] > 0
    \/ \E k \in 1..Len(cmds[p]) : cmds[p][k] = "lock"
    \/ \E k \in 1..Len(replies[p]) : replies[p][k].op = "lock" /\ FreshFrom(p, k)
    \/ /\ FreshFrom(p, 1)
       /\ \/ installing[p] > 0
          \/ \E k \in 1..Len(cmds[p]) : cmds[p][k] = "list"
          \/ \E k \in 1..Len(replies[p]) : Lists(p, k)
          \/ routes[p] = registry

SettledInv == TypeInv /\ (calm => \A p \in Procs : subscribed[p] /\ CaughtUp(p))

-----------------------------------------------------------------------------
(***************************************************************************)
(* The steps on the queues.                                                *)
(***************************************************************************)

Commands == {"lock", "list"}

LEMMA VersionType == \A v \in Version : v \in Nat
BY ReloadAssumption DEF Version

LEMMA ListType ==
    ASSUME TypeOK, NEW p \in Procs, NEW i \in 1..Len(replies[p])
    PROVE  /\ replies[p][i] \in Reply
           /\ Lists(p, i) \/ replies[p][i].op = "lock"
           /\ ~(Lists(p, i) /\ replies[p][i].op = "lock")
           /\ Lists(p, i) => replies[p][i].apis \in Config
<1>1. replies[p] \in Seq(Reply)
  BY DEF TypeOK
<1>2. replies[p][i] \in Reply
  BY <1>1, ElementOfSeq
<1> QED
  BY <1>2 DEF Reply, Lists

\* A process sends one command.
LEMMA Sent ==
    ASSUME TypeOK, NEW p \in Procs, NEW c \in Commands,
           cmds' = [cmds EXCEPT ![p] = Append(@, c)]
    PROVE  /\ cmds' \in [Procs -> Seq(Commands)]
           /\ Len(cmds[p]) \in Nat /\ Len(cmds'[p]) = Len(cmds[p]) + 1
           /\ \A i \in 1..Len(cmds[p]) : i \in 1..Len(cmds'[p]) /\ cmds'[p][i] = cmds[p][i]
           /\ Len(cmds'[p]) \in 1..Len(cmds'[p]) /\ cmds'[p][Len(cmds'[p])] = c
           /\ \A q \in Procs \ {p} : cmds'[q] = cmds[q]
<1>1. cmds \in [Procs -> Seq(Commands)] /\ cmds[p] \in Seq(Commands)
  BY DEF TypeOK, Commands
<1>2. /\ Append(cmds[p], c) \in Seq(Commands)
      /\ Len(Append(cmds[p], c)) = Len(cmds[p]) + 1
      /\ \A i \in 1..Len(cmds[p]) : Append(cmds[p], c)[i] = cmds[p][i]
      /\ Append(cmds[p], c)[Len(cmds[p]) + 1] = c
  BY <1>1, AppendProperties
<1>3. Len(cmds[p]) \in Nat
  BY <1>1, LenProperties
<1>4. cmds'[p] = Append(cmds[p], c) /\ \A q \in Procs \ {p} : cmds'[q] = cmds[q]
  BY <1>1
<1>5. cmds' \in [Procs -> Seq(Commands)]
  BY <1>1, <1>2
<1> QED
  BY <1>2, <1>3, <1>4, <1>5

\* Redis executes the next command of process p.
LEMMA Executed ==
    ASSUME TypeOK, NEW p \in Procs, RedisExec(p)
    PROVE  /\ cmds' \in [Procs -> Seq(Commands)] /\ replies' \in [Procs -> Seq(Reply)]
           /\ Len(cmds[p]) \in Nat \ {0} /\ Len(replies[p]) \in Nat
           /\ Len(cmds'[p]) = Len(cmds[p]) - 1 /\ Len(replies'[p]) = Len(replies[p]) + 1
           /\ \A i \in 1..Len(cmds'[p]) : cmds'[p][i] = cmds[p][i + 1]
           /\ \A i \in 1..Len(replies[p]) : replies'[p][i] = replies[p][i]
           /\ \/ /\ cmds[p][1] = "lock"
                 /\ replies'[p][Len(replies[p]) + 1] = [op |-> "lock"]
              \/ /\ cmds[p][1] = "list"
                 /\ replies'[p][Len(replies[p]) + 1] = [op |-> "list", apis |-> registry]
           /\ \A q \in Procs \ {p} : cmds'[q] = cmds[q] /\ replies'[q] = replies[q]
<1> DEFINE answer == IF Head(cmds[p]) = "lock" THEN [op |-> "lock"]
                                               ELSE [op |-> "list", apis |-> registry]
<1>1. /\ cmds \in [Procs -> Seq(Commands)] /\ cmds[p] \in Seq(Commands)
      /\ replies \in [Procs -> Seq(Reply)] /\ replies[p] \in Seq(Reply)
      /\ registry \in Config /\ cmds[p] # <<>>
  BY DEF TypeOK, Commands, RedisExec
<1>2. /\ Head(cmds[p]) \in Commands /\ Tail(cmds[p]) \in Seq(Commands)
      /\ Len(Tail(cmds[p])) = Len(cmds[p]) - 1
      /\ \A i \in 1..Len(Tail(cmds[p])) : Tail(cmds[p])[i] = cmds[p][i + 1]
  BY <1>1, HeadTailProperties
<1>3. Len(cmds[p]) \in Nat \ {0} /\ Len(replies[p]) \in Nat
  BY <1>1, EmptySeq, LenProperties
<1>4. answer \in Reply
  BY <1>1 DEF Reply
<1> HIDE DEF answer
<1>5. /\ Append(replies[p], answer) \in Seq(Reply)
      /\ Len(Append(replies[p], answer)) = Len(replies[p]) + 1
      /\ \A i \in 1..Len(replies[p]) : Append(replies[p], answer)[i] = replies[p][i]
      /\ Append(replies[p], answer)[Len(replies[p]) + 1] = answer
  BY <1>1, <1>4, AppendProperties
<1>6. /\ cmds' = [cmds EXCEPT ![p] = Tail(@)]
      /\ replies' = [replies EXCEPT ![p] = Append(@, answer)]
  BY DEF RedisExec, answer
<1>7. /\ cmds'[p] = Tail(cmds[p]) /\ replies'[p] = Append(replies[p], answer)
      /\ \A q \in Procs \ {p} : cmds'[q] = cmds[q] /\ replies'[q] = replies[q]
  BY <1>1, <1>6
<1>8. cmds' \in [Procs -> Seq(Commands)] /\ replies' \in [Procs -> Seq(Reply)]
  BY <1>1, <1>2, <1>5, <1>6
<1>9. \/ cmds[p][1] = "lock" /\ answer = [op |-> "lock"]
      \/ cmds[p][1] = "list" /\ answer = [op |-> "list", apis |-> registry]
  <2>1. Head(cmds[p]) = cmds[p][1]
    BY <1>1
  <2>2. cmds[p][1] \in {"lock", "list"}
    BY <1>2, <2>1 DEF Commands
  <2> QED
    BY <2>1, <2>2 DEF answer
<1> QED
  BY <1>2, <1>3, <1>5, <1>7, <1>8, <1>9

\* A batch: which of the answers are lists, what they list, which loads fail.
Batch(p, n, read, lists, fails) ==
    /\ n \in 1..Len(replies[p]) /\ Len(replies[p]) \in Nat
    /\ \A i \in 1..n : i \in read <=> Lists(p, i)
    /\ \A i \in read : lists[i] = replies[p][i].apis
    /\ calm => \A i \in read : fails[i] = {}
    /\ Cardinality(read) \in 0..n
    /\ Cardinality(read) = n => read = 1..n
    /\ installing' = [installing EXCEPT ![p] = @ + (n - Cardinality(read))]
    /\ routes' = [routes EXCEPT ![p] = Load(@, lists, fails)]
    /\ mounted' = [mounted EXCEPT ![p] = @ \cup Mounts(routes[p], lists, fails)]

LEMMA Handled ==
    ASSUME TypeOK, NEW p \in Procs, NEW n \in 1..MaxJobs, HandleReplies(p, n)
    PROVE  /\ replies' \in [Procs -> Seq(Reply)]
           /\ Len(replies'[p]) = Len(replies[p]) - n
           /\ \A i \in 1..Len(replies'[p]) : replies'[p][i] = replies[p][n + i]
           /\ \A q \in Procs \ {p} : replies'[q] = replies[q]
           /\ \E read \in SUBSET (1..n) : \E lists \in [read -> Config] :
              \E fails \in [read -> SUBSET Apis] : Batch(p, n, read, lists, fails)
<1> DEFINE read == {i \in 1..n : replies[p][i].op = "list"}
           lists == [i \in read |-> replies[p][i].apis]
<1>1. /\ replies \in [Procs -> Seq(Reply)] /\ replies[p] \in Seq(Reply)
      /\ n <= Len(replies[p])
  BY DEF TypeOK, HandleReplies
<1>2. Len(replies[p]) \in Nat /\ n \in Nat \ {0}
  BY <1>1, LenProperties, ReloadAssumption
<1>3. \A i \in n + 1..Len(replies[p]) : replies[p][i] \in Reply
  BY <1>1, <1>2, ElementOfSeq
<1>4. /\ SubSeq(replies[p], n + 1, Len(replies[p])) \in Seq(Reply)
      /\ Len(SubSeq(replies[p], n + 1, Len(replies[p])))
            = IF n + 1 <= Len(replies[p]) THEN Len(replies[p]) - (n + 1) + 1 ELSE 0
      /\ \A i \in 1..Len(replies[p]) - (n + 1) + 1 :
            SubSeq(replies[p], n + 1, Len(replies[p]))[i] = replies[p][n + 1 + i - 1]
  BY <1>2, <1>3, SubSeqProperties
<1>5. replies' = [replies EXCEPT ![p] = SubSeq(@, n + 1, Len(@))]
  BY DEF HandleReplies
<1>6. /\ replies'[p] = SubSeq(replies[p], n + 1, Len(replies[p]))
      /\ \A q \in Procs \ {p} : replies'[q] = replies[q]
      /\ replies' \in [Procs -> Seq(Reply)]
  BY <1>1, <1>4, <1>5
<1>7. Len(replies'[p]) = Len(replies[p]) - n
  BY <1>1, <1>2, <1>4, <1>6
<1>8. \A i \in 1..Len(replies'[p]) : replies'[p][i] = replies[p][n + i]
  BY <1>2, <1>4, <1>6, <1>7
<1>9. read \in SUBSET (1..n) /\ lists \in [read -> Config]
  <2>1. \A i \in read : replies[p][i].apis \in Config
    BY <1>1, <1>2, ListType DEF Lists
  <2> QED
    BY <2>1
<1>10. Cardinality(read) \in 0..n /\ (Cardinality(read) = n => read = 1..n)
  <2>1. IsFiniteSet(1..n) /\ Cardinality(1..n) = n
    BY <1>2, FS_Interval
  <2>4. read \in SUBSET (1..n)
    BY <1>9
  <2> HIDE DEF read
  <2>2. /\ IsFiniteSet(read) /\ Cardinality(read) <= Cardinality(1..n)
        /\ Cardinality(1..n) = Cardinality(read) => 1..n = read
    BY <2>1, <2>4, FS_Subset
  <2>3. Cardinality(read) \in Nat
    BY <2>2, FS_CardinalityType
  <2> QED
    BY <1>2, <2>1, <2>2, <2>3
<1>11. \E fails \in Failures(p, lists) :
          /\ routes' = [routes EXCEPT ![p] = Load(@, lists, fails)]
          /\ mounted' = [mounted EXCEPT ![p] = @ \cup Mounts(routes[p], lists, fails)]
  BY DEF HandleReplies
<1>12. PICK fails \in Failures(p, lists) :
          /\ routes' = [routes EXCEPT ![p] = Load(@, lists, fails)]
          /\ mounted' = [mounted EXCEPT ![p] = @ \cup Mounts(routes[p], lists, fails)]
  BY <1>11
<1>13. fails \in [read -> SUBSET Apis] /\ (calm => \A i \in read : fails[i] = {})
  BY DEF Failures, MayFail
<1>14. installing' = [installing EXCEPT ![p] = @ + (n - Cardinality(read))]
  BY DEF HandleReplies
<1>15. \A i \in read : lists[i] = replies[p][i].apis
  OBVIOUS
<1>16. \A i \in 1..n : i \in read <=> Lists(p, i)
  BY DEF Lists
<1> HIDE DEF read, lists
<1>17. Batch(p, n, read, lists, fails)
  BY <1>1, <1>2, <1>10, <1>12, <1>13, <1>14, <1>15, <1>16 DEF Batch
<1> QED
  BY <1>6, <1>7, <1>8, <1>9, <1>13, <1>17

-----------------------------------------------------------------------------
(***************************************************************************)
(* Types.                                                                  *)
(***************************************************************************)

\* A handler is mounted at a path, and where a first route is set.
LEMMA MountsType ==
    ASSUME TypeOK, NEW n \in Nat, NEW lists, DOMAIN lists \in SUBSET (1..n),
           \A i \in DOMAIN lists : \A a \in Apis : lists[i][a] \in 0..clock,
           NEW fails, NEW old
    PROVE  /\ Mounts(old, lists, fails) \in SUBSET (Apis \X Paths)
           /\ \A a \in Apis : Start(old, lists)[a] = 0 /\ Loaded(lists, fails, a) # {}
                 => \E x \in Paths : <<a, x>> \in Mounts(old, lists, fails)
<1> DEFINE first(a) == CHOOSE i \in Loaded(lists, fails, a) :
                           \A j \in Loaded(lists, fails, a) : i <= j
           new == {b \in Apis : Start(old, lists)[b] = 0 /\ Loaded(lists, fails, b) # {}}
<1>1. ASSUME NEW a \in new PROVE pathOf[lists[first(a)][a]] \in Paths
  <2>1. Loaded(lists, fails, a) \in SUBSET Nat /\ Loaded(lists, fails, a) # {}
    BY DEF Loaded
  <2>2. \E i \in Loaded(lists, fails, a) : \A j \in Loaded(lists, fails, a) : i <= j
    BY <2>1, FirstOfSome
  <2>3. first(a) \in Loaded(lists, fails, a)
    BY <2>2
  <2> HIDE DEF first
  <2>4. lists[first(a)][a] \in 0..clock /\ lists[first(a)][a] # 0
    BY <2>3 DEF Loaded
  <2>5. pathOf \in Seq(Paths) /\ Len(pathOf) = clock /\ clock \in Nat
    BY VersionType DEF TypeOK
  <2>6. lists[first(a)][a] \in 1..Len(pathOf)
    BY <2>4, <2>5
  <2> QED
    BY <2>5, <2>6, ElementOfSeq
<1>2. Mounts(old, lists, fails) = {<<a, pathOf[lists[first(a)][a]]>> : a \in new}
  BY DEF Mounts
<1> HIDE DEF first
<1>3. Mounts(old, lists, fails) \in SUBSET (Apis \X Paths)
  BY <1>1, <1>2
<1>4. \A a \in new : <<a, pathOf[lists[first(a)][a]]>> \in Mounts(old, lists, fails)
  BY <1>2
<1> QED
  BY <1>1, <1>3, <1>4

LEMMA TypeInit == Init => TypeInv
<1> SUFFICES ASSUME Init PROVE TypeInv
  OBVIOUS
<1>1. MaxUpdates \in Nat /\ MaxJobs \in Nat \ {0} /\ 0 \in Version /\ NoApis \in Config
  BY ReloadAssumption DEF Version, Config, NoApis
<1>2. Len(<<>>) = 0 /\ <<>> \in Seq(Reply) /\ <<>> \in Seq({"lock", "list"}) /\ <<>> \in Seq(Paths)
  BY EmptySeq
<1>3. TypeOK
  BY <1>1, <1>2 DEF Init, TypeOK, Version
<1>4. \A p \in Procs : Jobs(p) = 0 /\ replies[p] = <<>>
  BY <1>2 DEF Init, Jobs
<1>5. Known
  <2>1. \A a \in Apis : registry[a] <= clock
    BY DEF Init, NoApis
  <2>2. \A p \in Procs : events[p] <= clock /\ Jobs(p) <= MaxJobs
    BY <1>1, <1>4 DEF Init
  <2>3. \A p \in Procs : \A a \in Apis : routes[p][a] <= clock
    BY DEF Init, NoApis
  <2> QED
    BY <1>2, <1>4, <2>1, <2>2, <2>3 DEF Known
<1>6. RoutedIsMounted
  BY DEF Init, NoApis, RoutedIsMounted
<1> QED
  BY <1>3, <1>5, <1>6 DEF TypeInv

LEMMA JobsType ==
    ASSUME TypeOK, NEW p \in Procs
    PROVE  /\ installing[p] \in Nat /\ Len(cmds[p]) \in Nat /\ Len(replies[p]) \in Nat
           /\ Jobs(p) \in Nat /\ Jobs(p) = installing[p] + Len(cmds[p]) + Len(replies[p])
<1>1. cmds[p] \in Seq({"lock", "list"}) /\ replies[p] \in Seq(Reply)
  BY DEF TypeOK
<1>2. Len(cmds[p]) \in Nat /\ Len(replies[p]) \in Nat
  BY <1>1, LenProperties
<1>3. installing[p] \in Nat
  BY ReloadAssumption DEF TypeOK
<1> QED
  BY <1>2, <1>3 DEF Jobs

\* A change is a version nobody has heard of, or a removal.
LEMMA TypeChange ==
    ASSUME TypeInv, NEW a \in Apis, NEW v \in {0, clock + 1}, NEW x \in Paths, Change(a, v, x)
    PROVE  TypeInv'
<1> USE DEF TypeInv
<1>1. clock \in Nat /\ clock < MaxUpdates /\ clock' = clock + 1 /\ MaxUpdates \in Nat
  BY ReloadAssumption DEF TypeOK, Version, Change
<1>2. clock' \in Version /\ v \in Version
  BY <1>1 DEF Version
<1>3. registry' \in Config /\ \A b \in Apis : registry'[b] <= clock'
  <2>1. registry' = [registry EXCEPT ![a] = v] /\ registry \in [Apis -> Version]
    BY DEF Change, TypeOK, Config
  <2>2. \A b \in Apis : registry'[b] = IF b = a THEN v ELSE registry[b]
    BY <2>1
  <2>3. \A b \in Apis : registry[b] \in Nat /\ registry[b] <= clock
    BY <2>1, VersionType DEF Known
  <2>4. registry' \in [Apis -> Version]
    BY <1>2, <2>1
  <2> QED
    BY <1>1, <2>2, <2>3, <2>4 DEF Config
<1>4. events' \in [Procs -> 0..MaxUpdates] /\ \A p \in Procs : events'[p] <= clock'
  <2>1. \A p \in Procs : events[p] \in Nat /\ events[p] <= clock
    BY <1>1 DEF TypeOK, Known
  <2>2. events' = [p \in Procs |-> IF subscribed[p] THEN events[p] + 1 ELSE events[p]]
    BY DEF Change, Publish
  <2>3. \A p \in Procs : events'[p] \in 0..MaxUpdates /\ events'[p] <= clock'
    BY <1>1, <2>1, <2>2
  <2> QED
    BY <2>2, <2>3
<1>5. pathOf' \in Seq(Paths) /\ Len(pathOf') = clock'
  <2>1. pathOf \in Seq(Paths) /\ pathOf' = Append(pathOf, x) /\ Len(pathOf) = clock
    BY DEF TypeOK, Change
  <2> QED
    BY <1>1, <2>1, AppendProperties
<1>6. UNCHANGED <<subscribed, installing, cmds, replies, routes, mounted, calm>>
  BY DEF Change
<1>7. TypeOK'
  BY <1>2, <1>3, <1>4, <1>5, <1>6 DEF TypeOK
<1>8. \A p \in Procs : Jobs(p)' <= MaxJobs
  BY <1>6 DEF Known, Jobs
<1>9. \A p \in Procs, b \in Apis : routes'[p][b] <= clock'
  <2>1. \A p \in Procs, b \in Apis : routes[p][b] \in Nat /\ routes[p][b] <= clock
    BY VersionType DEF TypeOK, Config, Known
  <2> QED
    BY <1>1, <1>6, <2>1
<1>10. ASSUME NEW p \in Procs, NEW i \in 1..Len(replies'[p]), Lists(p, i)', NEW b \in Apis
       PROVE  replies'[p][i].apis[b] <= clock'
  <2>1. Lists(p, i)
    BY <1>6, <1>10 DEF Lists
  <2>2. replies[p][i].apis[b] \in Nat /\ replies[p][i].apis[b] <= clock
    BY <1>6, <2>1, ListType, VersionType DEF Config, Known
  <2> QED
    BY <1>1, <1>6, <2>2
<1>11. Known'
  BY <1>3, <1>4, <1>8, <1>9, <1>10 DEF Known
<1> QED
  BY <1>6, <1>7, <1>11 DEF RoutedIsMounted

\* A step of the jobs that leaves the registry and the routes alone.
LEMMA TypeQueues ==
    ASSUME TypeInv, NEW p \in Procs,
           UNCHANGED <<registry, clock, pathOf, calm, routes, mounted, subscribed>>,
           events' \in [Procs -> 0..MaxUpdates], \A q \in Procs : events'[q] <= events[q],
           installing' \in [Procs -> Nat],
           cmds' \in [Procs -> Seq(Commands)], replies' \in [Procs -> Seq(Reply)],
           \A q \in Procs \ {p} : Jobs(q)' = Jobs(q), Jobs(p)' <= MaxJobs,
           \A q \in Procs : \A i \in 1..Len(replies'[q]) : Lists(q, i)' =>
                \A a \in Apis : replies'[q][i].apis[a] <= clock
    PROVE  TypeInv'
<1> USE DEF TypeInv
<1>1. \A q \in Procs : Jobs(q)' <= MaxJobs
  BY DEF Known
<1>2. installing' \in [Procs -> 0..MaxJobs]
  <2>1. ASSUME NEW q \in Procs PROVE installing'[q] \in 0..MaxJobs
    <3>1. Len(cmds'[q]) \in Nat /\ Len(replies'[q]) \in Nat
      BY LenProperties
    <3>2. installing'[q] + Len(cmds'[q]) + Len(replies'[q]) <= MaxJobs
      BY <1>1 DEF Jobs
    <3> QED
      BY <3>1, <3>2, ReloadAssumption
  <2> QED
    BY <2>1
<1>3. TypeOK'
  BY <1>2 DEF TypeOK, Commands
<1>4. \A q \in Procs : events'[q] <= clock'
  <2>1. clock \in Nat /\ \A q \in Procs : events[q] \in Nat /\ events'[q] \in Nat
    BY VersionType, ReloadAssumption DEF TypeOK
  <2>2. \A q \in Procs : events[q] <= clock
    BY DEF Known
  <2>3. ASSUME NEW q \in Procs PROVE events'[q] <= clock'
    <3>1. events'[q] <= events[q] /\ events[q] <= clock /\ clock' = clock
      BY <2>2
    <3> QED
      BY <2>1, <3>1
  <2> QED
    BY <2>3
<1>5. Known'
  BY <1>1, <1>4 DEF Known
<1> QED
  BY <1>3, <1>5 DEF RoutedIsMounted

LEMMA TypeStartJob ==
    ASSUME TypeInv, NEW p \in Procs, StartJob(p)
    PROVE  TypeInv'
<1>1. TypeOK /\ Known
  BY DEF TypeInv
<1>2. cmds' = [cmds EXCEPT ![p] = Append(@, "lock")] /\ "lock" \in Commands
  BY DEF StartJob, Begin, Commands
<1>3. /\ cmds' \in [Procs -> Seq(Commands)] /\ Len(cmds'[p]) = Len(cmds[p]) + 1
      /\ \A q \in Procs \ {p} : cmds'[q] = cmds[q]
  BY <1>1, <1>2, Sent
<1>4. UNCHANGED <<registry, clock, pathOf, subscribed, installing, replies, routes, mounted, calm>>
  BY DEF StartJob, Begin
<1>5. Jobs(p)' <= MaxJobs
  <2>1. Jobs(p)' = Jobs(p) + 1
    <3>1. Jobs(p)' = installing[p] + (Len(cmds[p]) + 1) + Len(replies[p])
      BY <1>3, <1>4 DEF Jobs
    <3>2. /\ installing[p] \in Nat /\ Len(cmds[p]) \in Nat /\ Len(replies[p]) \in Nat
          /\ Jobs(p) = installing[p] + Len(cmds[p]) + Len(replies[p])
      BY <1>1, JobsType
    <3> QED
      BY <3>1, <3>2
  <2>2. Jobs(p) < MaxJobs
    BY DEF StartJob
  <2> QED
    BY <1>1, <2>1, <2>2, JobsType, ReloadAssumption
<1>6. \A q \in Procs \ {p} : Jobs(q)' = Jobs(q)
  BY <1>3, <1>4 DEF Jobs
<1>7. events' \in [Procs -> 0..MaxUpdates] /\ \A q \in Procs : events'[q] <= events[q]
  <2>1. events \in [Procs -> 0..MaxUpdates] /\ events' = [events EXCEPT ![p] = @ - 1] /\ events[p] > 0
    BY <1>1 DEF TypeOK, StartJob
  <2>2. MaxUpdates \in Nat
    BY ReloadAssumption
  <2> QED
    BY <2>1, <2>2
<1>8. replies' \in [Procs -> Seq(Reply)] /\ installing' \in [Procs -> Nat]
  BY <1>1, <1>4, ReloadAssumption DEF TypeOK
<1>9. \A q \in Procs : \A i \in 1..Len(replies'[q]) : Lists(q, i)' =>
         \A a \in Apis : replies'[q][i].apis[a] <= clock
  BY <1>1, <1>4 DEF Known, Lists
<1> QED
  BY <1>3, <1>4, <1>5, <1>6, <1>7, <1>8, <1>9, TypeQueues

LEMMA TypeInstalled ==
    ASSUME TypeInv, NEW p \in Procs, Installed(p)
    PROVE  TypeInv'
<1>1. TypeOK /\ Known
  BY DEF TypeInv
<1>2. cmds' = [cmds EXCEPT ![p] = Append(@, "list")] /\ "list" \in Commands
  BY DEF Installed, Commands
<1>3. /\ cmds' \in [Procs -> Seq(Commands)] /\ Len(cmds'[p]) = Len(cmds[p]) + 1
      /\ \A q \in Procs \ {p} : cmds'[q] = cmds[q]
  BY <1>1, <1>2, Sent
<1>4. UNCHANGED <<registry, clock, pathOf, events, subscribed, replies, routes, mounted, calm>>
  BY DEF Installed
<1>5. /\ installing' \in [Procs -> Nat] /\ installing'[p] = installing[p] - 1
      /\ \A q \in Procs \ {p} : installing'[q] = installing[q]
  <2>1. /\ installing' = [installing EXCEPT ![p] = @ - 1] /\ installing[p] > 0
        /\ installing \in [Procs -> Nat]
    BY <1>1, ReloadAssumption DEF TypeOK, Installed
  <2> QED
    BY <2>1
<1>6. Jobs(p)' <= MaxJobs
  <2>0. /\ installing[p] \in Nat /\ Len(cmds[p]) \in Nat /\ Len(replies[p]) \in Nat
        /\ Jobs(p) = installing[p] + Len(cmds[p]) + Len(replies[p])
    BY <1>1, JobsType
  <2>1. Jobs(p)' = (installing[p] - 1) + (Len(cmds[p]) + 1) + Len(replies[p])
    BY <1>3, <1>4, <1>5 DEF Jobs
  <2>2. Jobs(p)' = Jobs(p)
    <3> DEFINE a == installing[p]
               b == Len(cmds[p])
               c == Len(replies[p])
    <3>1. a \in Nat /\ b \in Nat /\ c \in Nat /\ Jobs(p) = a + b + c /\ Jobs(p)' = (a - 1) + (b + 1) + c
      BY <2>0, <2>1
    <3> HIDE DEF a, b, c
    <3> QED
      BY <3>1
  <2> QED
    BY <1>1, <2>2 DEF Known
<1>7. \A q \in Procs \ {p} : Jobs(q)' = Jobs(q)
  BY <1>3, <1>4, <1>5 DEF Jobs
<1>8. /\ replies' \in [Procs -> Seq(Reply)] /\ events' \in [Procs -> 0..MaxUpdates]
      /\ \A q \in Procs : events'[q] <= events[q]
  BY <1>1, <1>4 DEF TypeOK
<1>9. \A q \in Procs : \A i \in 1..Len(replies'[q]) : Lists(q, i)' =>
         \A a \in Apis : replies'[q][i].apis[a] <= clock
  BY <1>1, <1>4 DEF Known, Lists
<1> QED
  BY <1>3, <1>4, <1>5, <1>6, <1>7, <1>8, <1>9, TypeQueues

LEMMA TypeInstallFails ==
    ASSUME TypeInv, NEW p \in Procs, InstallFails(p)
    PROVE  TypeInv'
<1>1. TypeOK /\ Known
  BY DEF TypeInv
<1>2. UNCHANGED <<registry, clock, pathOf, events, subscribed, cmds, replies, routes, mounted, calm>>
  BY DEF InstallFails
<1>3. /\ installing' \in [Procs -> Nat] /\ installing'[p] = installing[p] - 1
      /\ \A q \in Procs \ {p} : installing'[q] = installing[q]
  <2>1. /\ installing' = [installing EXCEPT ![p] = @ - 1] /\ installing[p] > 0
        /\ installing \in [Procs -> Nat]
    BY <1>1, ReloadAssumption DEF TypeOK, InstallFails
  <2> QED
    BY <2>1
<1>4. Jobs(p)' <= MaxJobs
  <2>0. /\ installing[p] \in Nat /\ Len(cmds[p]) \in Nat /\ Len(replies[p]) \in Nat
        /\ Jobs(p) = installing[p] + Len(cmds[p]) + Len(replies[p])
    BY <1>1, JobsType
  <2>1. Jobs(p)' = (installing[p] - 1) + Len(cmds[p]) + Len(replies[p])
    BY <1>2, <1>3 DEF Jobs
  <2>2. Jobs(p)' = Jobs(p) - 1
    <3> DEFINE a == installing[p]
               b == Len(cmds[p])
               c == Len(replies[p])
    <3>1. a \in Nat /\ b \in Nat /\ c \in Nat /\ Jobs(p) = a + b + c /\ Jobs(p)' = (a - 1) + b + c
      BY <2>0, <2>1
    <3> HIDE DEF a, b, c
    <3> QED
      BY <3>1
  <2>3. Jobs(p) <= MaxJobs
    BY <1>1 DEF Known
  <2> QED
    BY <1>1, <2>2, <2>3, JobsType, ReloadAssumption
<1>5. \A q \in Procs \ {p} : Jobs(q)' = Jobs(q)
  BY <1>2, <1>3 DEF Jobs
<1>6. /\ replies' \in [Procs -> Seq(Reply)] /\ events' \in [Procs -> 0..MaxUpdates]
      /\ cmds' \in [Procs -> Seq(Commands)] /\ \A q \in Procs : events'[q] <= events[q]
  BY <1>1, <1>2 DEF TypeOK, Commands
<1>7. \A q \in Procs : \A i \in 1..Len(replies'[q]) : Lists(q, i)' =>
         \A a \in Apis : replies'[q][i].apis[a] <= clock
  BY <1>1, <1>2 DEF Known, Lists
<1> QED
  BY <1>2, <1>3, <1>4, <1>5, <1>6, <1>7, TypeQueues

LEMMA TypeExec ==
    ASSUME TypeInv, NEW p \in Procs, RedisExec(p)
    PROVE  TypeInv'
<1>1. TypeOK /\ Known
  BY DEF TypeInv
<1>2. UNCHANGED <<registry, clock, pathOf, events, subscribed, installing, routes, mounted, calm>>
  BY DEF RedisExec
<1>3. /\ cmds' \in [Procs -> Seq(Commands)] /\ replies' \in [Procs -> Seq(Reply)]
      /\ Len(cmds'[p]) = Len(cmds[p]) - 1 /\ Len(replies'[p]) = Len(replies[p]) + 1
      /\ \A i \in 1..Len(replies[p]) : replies'[p][i] = replies[p][i]
      /\ \A q \in Procs \ {p} : cmds'[q] = cmds[q] /\ replies'[q] = replies[q]
  BY <1>1, Executed
<1>4. \/ replies'[p][Len(replies[p]) + 1] = [op |-> "lock"]
      \/ replies'[p][Len(replies[p]) + 1] = [op |-> "list", apis |-> registry]
  BY <1>1, Executed
<1>5. Jobs(p)' <= MaxJobs
  <2>0. /\ installing[p] \in Nat /\ Len(cmds[p]) \in Nat /\ Len(replies[p]) \in Nat
        /\ Jobs(p) = installing[p] + Len(cmds[p]) + Len(replies[p])
    BY <1>1, JobsType
  <2>1. Jobs(p)' = installing[p] + (Len(cmds[p]) - 1) + (Len(replies[p]) + 1)
    BY <1>2, <1>3 DEF Jobs
  <2>2. Jobs(p)' = Jobs(p)
    BY <2>0, <2>1
  <2> QED
    BY <1>1, <2>2 DEF Known
<1>6. \A q \in Procs \ {p} : Jobs(q)' = Jobs(q)
  BY <1>2, <1>3 DEF Jobs
<1>7. /\ installing' \in [Procs -> Nat] /\ events' \in [Procs -> 0..MaxUpdates]
      /\ \A q \in Procs : events'[q] <= events[q]
  BY <1>1, <1>2, ReloadAssumption DEF TypeOK
<1>8. ASSUME NEW q \in Procs, NEW i \in 1..Len(replies'[q]), Lists(q, i)', NEW a \in Apis
      PROVE  replies'[q][i].apis[a] <= clock
  <2>1. CASE q # p
    <3>1. replies'[q] = replies[q]
      BY <1>3, <2>1
    <3> QED
      BY <1>1, <1>8, <3>1 DEF Known, Lists
  <2>2. CASE q = p /\ i \in 1..Len(replies[p])
    <3>1. replies'[q][i] = replies[q][i]
      BY <1>3, <2>2
    <3> QED
      BY <1>1, <1>8, <2>2, <3>1 DEF Known, Lists
  <2>3. CASE q = p /\ i = Len(replies[p]) + 1
    <3>1. replies'[q][i] = [op |-> "list", apis |-> registry]
      BY <1>4, <1>8, <2>3 DEF Lists
    <3> QED
      BY <1>1, <3>1 DEF Known
  <2>4. Len(replies[p]) \in Nat
    BY <1>1, JobsType
  <2> QED
    BY <1>3, <2>1, <2>2, <2>3, <2>4
<1> QED
  BY <1>2, <1>3, <1>5, <1>6, <1>7, <1>8, TypeQueues

LEMMA TypeHandle ==
    ASSUME TypeInv, NEW p \in Procs, NEW n \in 1..MaxJobs, HandleReplies(p, n)
    PROVE  TypeInv'
<1>1. TypeOK /\ Known /\ RoutedIsMounted /\ n \in Nat
  BY ReloadAssumption DEF TypeInv
<1>2. /\ replies' \in [Procs -> Seq(Reply)]
      /\ Len(replies'[p]) = Len(replies[p]) - n
      /\ \A i \in 1..Len(replies'[p]) : replies'[p][i] = replies[p][n + i]
      /\ \A q \in Procs \ {p} : replies'[q] = replies[q]
  BY <1>1, Handled
<1>3. PICK read \in SUBSET (1..n) : \E lists \in [read -> Config] :
           \E fails \in [read -> SUBSET Apis] : Batch(p, n, read, lists, fails)
  BY <1>1, Handled
<1>4. PICK lists \in [read -> Config], fails \in [read -> SUBSET Apis] :
           Batch(p, n, read, lists, fails)
  BY <1>3
<1>5. UNCHANGED <<registry, clock, pathOf, events, subscribed, cmds, calm>>
  BY DEF HandleReplies
<1>6. /\ n <= Len(replies[p]) /\ Len(replies[p]) \in Nat /\ Cardinality(read) \in 0..n
      /\ \A i \in read : Lists(p, i) /\ lists[i] = replies[p][i].apis
  BY <1>4 DEF Batch
<1>7. installing \in [Procs -> Nat] /\ routes \in [Procs -> Config]
      /\ mounted \in [Procs -> SUBSET (Apis \X Paths)] /\ clock \in Nat
  BY <1>1, ReloadAssumption, VersionType DEF TypeOK
<1>8. /\ installing'[p] = installing[p] + (n - Cardinality(read))
      /\ routes'[p] = Load(routes[p], lists, fails)
      /\ mounted'[p] = mounted[p] \cup Mounts(routes[p], lists, fails)
      /\ \A q \in Procs \ {p} : /\ installing'[q] = installing[q] /\ routes'[q] = routes[q]
                                /\ mounted'[q] = mounted[q]
  BY <1>4, <1>7 DEF Batch
<1>9. DOMAIN lists \in SUBSET (1..n)
  OBVIOUS
<1>10. ASSUME NEW i \in read, NEW a \in Apis PROVE lists[i][a] \in 0..clock
  <2>1. i \in 1..Len(replies[p]) /\ Lists(p, i) /\ lists[i] = replies[p][i].apis
    <3>1. i \in 1..n
      OBVIOUS
    <3>2. i \in 1..Len(replies[p])
      BY <1>1, <1>6, <3>1
    <3> QED
      BY <1>6, <3>2
  <2>2. lists[i][a] \in Nat
    BY VersionType DEF Config
  <2>3. replies[p][i].apis[a] <= clock
    BY <1>1, <2>1 DEF Known
  <2> QED
    BY <1>7, <2>1, <2>2, <2>3
<1>11. /\ Mounts(routes[p], lists, fails) \in SUBSET (Apis \X Paths)
       /\ \A a \in Apis : Start(routes[p], lists)[a] = 0 /\ Loaded(lists, fails, a) # {}
             => \E x \in Paths : <<a, x>> \in Mounts(routes[p], lists, fails)
  BY <1>1, <1>9, <1>10, MountsType
<1>12. Load(routes[p], lists, fails) \in Config
  BY <1>1, <1>7, LoadType
<1>13. /\ routes' \in [Procs -> Config] /\ mounted' \in [Procs -> SUBSET (Apis \X Paths)]
       /\ DOMAIN installing' = Procs /\ installing' = [q \in Procs |-> installing'[q]]
  <2>1. /\ installing' = [installing EXCEPT ![p] = @ + (n - Cardinality(read))]
        /\ routes' = [routes EXCEPT ![p] = Load(@, lists, fails)]
        /\ mounted' = [mounted EXCEPT ![p] = @ \cup Mounts(routes[p], lists, fails)]
    BY <1>4 DEF Batch
  <2>2. routes' \in [Procs -> Config]
    BY <1>7, <1>12, <2>1
  <2>3. mounted[p] \cup Mounts(routes[p], lists, fails) \in SUBSET (Apis \X Paths)
    BY <1>7, <1>11
  <2>4. mounted' \in [Procs -> SUBSET (Apis \X Paths)]
    BY <1>7, <2>1, <2>3
  <2> QED
    BY <1>7, <2>1, <2>2, <2>4
<1>14. Jobs(p)' <= MaxJobs
  <2>0. /\ installing[p] \in Nat /\ Len(cmds[p]) \in Nat /\ Len(replies[p]) \in Nat
        /\ Jobs(p) = installing[p] + Len(cmds[p]) + Len(replies[p])
    BY <1>1, JobsType
  <2>1. Jobs(p)' = (installing[p] + (n - Cardinality(read))) + Len(cmds[p]) + (Len(replies[p]) - n)
    BY <1>2, <1>5, <1>8 DEF Jobs
  <2>2. Jobs(p)' = Jobs(p) - Cardinality(read)
    BY <1>1, <1>6, <2>0, <2>1
  <2>3. Jobs(p) <= MaxJobs
    BY <1>1 DEF Known
  <2> QED
    BY <1>1, <1>6, <2>2, <2>3, JobsType, ReloadAssumption
<1>15. \A q \in Procs : Jobs(q)' <= MaxJobs
  <2>1. \A q \in Procs \ {p} : Jobs(q)' = Jobs(q)
    BY <1>2, <1>5, <1>8 DEF Jobs
  <2> QED
    BY <1>1, <1>14, <2>1 DEF Known
<1>16. installing' \in [Procs -> 0..MaxJobs]
  <2>1. ASSUME NEW q \in Procs PROVE installing'[q] \in 0..MaxJobs
    <3>1. Len(cmds'[q]) \in Nat /\ Len(replies'[q]) \in Nat
      BY <1>1, <1>2, <1>5, JobsType, LenProperties
    <3>2. installing'[q] + Len(cmds'[q]) + Len(replies'[q]) <= MaxJobs
      BY <1>15 DEF Jobs
    <3>3. installing'[q] \in Nat
      BY <1>6, <1>7, <1>8
    <3> QED
      BY <3>1, <3>2, <3>3, ReloadAssumption
  <2> QED
    BY <1>13, <2>1
<1>17. TypeOK'
  BY <1>1, <1>2, <1>5, <1>13, <1>16 DEF TypeOK
<1>18. ASSUME NEW q \in Procs, NEW a \in Apis PROVE routes'[q][a] <= clock'
  <2>1. CASE q # p
    BY <1>1, <1>5, <1>8, <2>1 DEF Known
  <2>2. CASE q = p /\ Loaded(lists, fails, a) # {}
    <3>1. PICK i \in Loaded(lists, fails, a) : Load(routes[p], lists, fails)[a] = lists[i][a]
      BY <1>1, <1>9, <2>2, LoadChooses
    <3>2. i \in read
      BY DEF Loaded
    <3> QED
      BY <1>5, <1>7, <1>8, <1>10, <2>2, <3>1, <3>2
  <2>3. CASE q = p /\ Loaded(lists, fails, a) = {}
    <3>1. routes'[p][a] = 0 \/ routes'[p][a] = Start(routes[p], lists)[a]
      BY <1>8, <2>3, LoadKeeps
    <3>2. Start(routes[p], lists)[a] = 0 \/ Start(routes[p], lists)[a] = routes[p][a]
      BY DEF Start, NoApis
    <3> QED
      BY <1>1, <1>5, <1>7, <2>3, <3>1, <3>2 DEF Known
  <2> QED
    BY <2>1, <2>2, <2>3
<1>19. ASSUME NEW q \in Procs, NEW i \in 1..Len(replies'[q]), Lists(q, i)', NEW a \in Apis
       PROVE  replies'[q][i].apis[a] <= clock'
  <2>1. CASE q # p
    <3>1. replies'[q] = replies[q]
      BY <1>2, <2>1
    <3> QED
      BY <1>1, <1>5, <1>19, <3>1 DEF Known, Lists
  <2>2. CASE q = p
    <3>1. n + i \in 1..Len(replies[p]) /\ replies'[p][i] = replies[p][n + i]
      BY <1>1, <1>2, <1>6, <2>2
    <3>2. Lists(p, n + i)
      BY <1>19, <2>2, <3>1 DEF Lists
    <3> QED
      BY <1>1, <1>5, <2>2, <3>1, <3>2 DEF Known
  <2> QED
    BY <2>1, <2>2
<1>20. Known'
  BY <1>1, <1>5, <1>15, <1>18, <1>19 DEF Known
<1>21. ASSUME NEW q \in Procs, NEW a \in Apis, routes'[q][a] # 0
       PROVE  \E x \in Paths : <<a, x>> \in mounted'[q]
  <2>1. CASE q # p
    BY <1>1, <1>8, <1>21, <2>1 DEF RoutedIsMounted
  <2>2. CASE q = p /\ Start(routes[p], lists)[a] # 0
    <3>1. routes[p][a] # 0
      BY <2>2 DEF Start, NoApis
    <3> QED
      BY <1>1, <1>8, <2>2, <3>1 DEF RoutedIsMounted
  <2>3. CASE q = p /\ Start(routes[p], lists)[a] = 0
    <3>1. Loaded(lists, fails, a) # {}
      BY <1>8, <1>21, <2>3, LoadKeeps
    <3> QED
      BY <1>8, <1>11, <2>3, <3>1
  <2> QED
    BY <2>1, <2>2, <2>3
<1> QED
  BY <1>17, <1>20, <1>21 DEF TypeInv, RoutedIsMounted

LEMMA TypeCrash ==
    ASSUME TypeInv, NEW p \in Procs, Crash(p)
    PROVE  TypeInv'
<1>1. TypeOK /\ Known /\ RoutedIsMounted
  BY DEF TypeInv
<1>2. UNCHANGED <<registry, clock, pathOf, calm>>
  BY DEF Crash
<1>3. /\ <<"lock">> \in Seq({"lock", "list"}) /\ Len(<<"lock">>) = 1
      /\ <<>> \in Seq(Reply) /\ Len(<<>>) = 0 /\ 0 \in 0..MaxUpdates /\ 0 \in 0..MaxJobs
      /\ NoApis \in Config /\ MaxJobs >= 1 /\ clock \in Nat
  BY <1>1, ReloadAssumption, VersionType DEF NoApis, Config, Version, TypeOK
<1>4. /\ subscribed' \in [Procs -> BOOLEAN] /\ events' \in [Procs -> 0..MaxUpdates]
      /\ installing' \in [Procs -> 0..MaxJobs] /\ cmds' \in [Procs -> Seq({"lock", "list"})]
      /\ replies' \in [Procs -> Seq(Reply)] /\ routes' \in [Procs -> Config]
      /\ mounted' \in [Procs -> SUBSET (Apis \X Paths)]
  BY <1>1, <1>3 DEF Crash, TypeOK
<1>5. TypeOK'
  BY <1>1, <1>2, <1>4 DEF TypeOK
<1>6. /\ events'[p] = 0 /\ installing'[p] = 0 /\ cmds'[p] = <<"lock">> /\ replies'[p] = <<>>
      /\ routes'[p] = NoApis
      /\ \A q \in Procs \ {p} :
            /\ events'[q] = events[q] /\ installing'[q] = installing[q] /\ cmds'[q] = cmds[q]
            /\ replies'[q] = replies[q] /\ routes'[q] = routes[q] /\ mounted'[q] = mounted[q]
  BY <1>1 DEF Crash, TypeOK
<1>7. \A q \in Procs : Jobs(q)' <= MaxJobs
  <2>1. Jobs(p)' = 0 + 1 + 0
    BY <1>3, <1>6 DEF Jobs
  <2>2. Jobs(p)' <= MaxJobs
    BY <1>3, <2>1, ReloadAssumption
  <2>3. \A q \in Procs \ {p} : Jobs(q)' = Jobs(q)
    BY <1>6 DEF Jobs
  <2> QED
    BY <1>1, <2>2, <2>3 DEF Known
<1>8. \A q \in Procs : events'[q] <= clock'
  <2>1. \A q \in Procs \ {p} : events'[q] <= clock'
    BY <1>1, <1>2, <1>6 DEF Known
  <2>2. events'[p] <= clock'
    BY <1>2, <1>3, <1>6
  <2> QED
    BY <2>1, <2>2
<1>9. \A q \in Procs, a \in Apis : routes'[q][a] <= clock'
  <2>1. \A q \in Procs \ {p}, a \in Apis : routes'[q][a] <= clock'
    BY <1>1, <1>2, <1>6 DEF Known
  <2>2. \A a \in Apis : routes'[p][a] = 0
    BY <1>6 DEF NoApis
  <2> QED
    BY <1>2, <1>3, <2>1, <2>2
<1>10. ASSUME NEW q \in Procs, NEW i \in 1..Len(replies'[q]), Lists(q, i)', NEW a \in Apis
       PROVE  replies'[q][i].apis[a] <= clock'
  <2>1. q # p
    BY <1>3, <1>6, <1>10
  <2>2. replies'[q] = replies[q]
    BY <1>6, <2>1
  <2> QED
    BY <1>1, <1>2, <1>10, <2>2 DEF Known, Lists
<1>11. Known'
  BY <1>1, <1>2, <1>7, <1>8, <1>9, <1>10 DEF Known
<1>12. RoutedIsMounted'
  BY <1>1, <1>6 DEF RoutedIsMounted, NoApis
<1> QED
  BY <1>5, <1>11, <1>12 DEF TypeInv

LEMMA TypeSubscribe ==
    ASSUME TypeInv, NEW p \in Procs, Subscribe(p)
    PROVE  TypeInv'
<1>1. TypeOK'
  BY DEF TypeInv, TypeOK, Subscribe
<1>2. Known'
  BY DEF TypeInv, Known, Subscribe, Jobs, Lists
<1> QED
  BY <1>1, <1>2 DEF TypeInv, RoutedIsMounted, Subscribe

LEMMA TypeStep == TypeInv /\ [Next]_vars => TypeInv'
<1> SUFFICES ASSUME TypeInv, [Next]_vars PROVE TypeInv'
  OBVIOUS
<1>1. ASSUME NEW a \in Apis, Delete(a) PROVE TypeInv'
  <2>1. (CHOOSE x \in Paths : TRUE) \in Paths
    BY ReloadAssumption
  <2> QED
    BY <1>1, <2>1, TypeChange DEF Delete
<1>2. ASSUME NEW a \in Apis, NEW x \in Paths, Save(a, x) PROVE TypeInv'
  BY <1>2, TypeChange DEF Save
<1>3. CASE UNCHANGED vars
  <2>1. TypeOK'
    BY <1>3 DEF TypeInv, TypeOK, vars
  <2>2. Known'
    BY <1>3 DEF TypeInv, Known, Jobs, Lists, vars
  <2> QED
    BY <1>3, <2>1, <2>2 DEF TypeInv, RoutedIsMounted, vars
<1> QED
  BY <1>1, <1>2, <1>3, TypeStartJob, TypeInstalled, TypeInstallFails, TypeExec, TypeHandle,
     TypeCrash, TypeSubscribe DEF Next

\* TypeOK holds however many processes, APIs, changes and jobs there are.
THEOREM ReloadTypes == Spec => []TypeOK
<1>1. TypeInv => TypeOK
  BY DEF TypeInv
<1> QED
  BY <1>1, TypeInit, TypeStep, PTL DEF Spec

\* A routed API always has a handler in the server of its process, although
\* only the first job to route it mounts one (ApiPipeline.loadValidApi()).
THEOREM RoutedApisAnswer == Spec => []RoutedIsMounted
<1>1. TypeInv => RoutedIsMounted
  BY DEF TypeInv
<1> QED
  BY <1>1, TypeInit, TypeStep, PTL DEF Spec

-----------------------------------------------------------------------------
(***************************************************************************)
(* What is served stays served: no job knows less of an API than the       *)
(* routes do, once these have its registered version.                      *)
(***************************************************************************)

LEMMA Unmoved ==
    ASSUME NEW q \in Procs, Ordered(q), Latest(q), registry' = registry,
           replies'[q] = replies[q], routes'[q] = routes[q]
    PROVE  Ordered(q)' /\ Latest(q)'
<1>1. \A i : Lists(q, i)' <=> Lists(q, i)
  BY DEF Lists
<1>2. Ordered(q)'
  BY <1>1 DEF Ordered
<1>3. Latest(q)'
  BY <1>1 DEF Latest
<1> QED
  BY <1>2, <1>3

LEMMA ServedInit == Init => ServedInv
<1> SUFFICES ASSUME Init PROVE ServedInv
  OBVIOUS
<1>1. \A p \in Procs : Ordered(p) /\ Latest(p)
  BY DEF Init, NoApis, Ordered, Latest
<1> QED
  BY <1>1, TypeInit DEF ServedInv

LEMMA ServedChange ==
    ASSUME ServedInv, NEW a \in Apis, NEW v \in {0, clock + 1}, NEW x \in Paths, Change(a, v, x)
    PROVE  ServedInv'
<1>1. TypeInv /\ TypeOK /\ Known /\ clock \in Nat
  BY ReloadAssumption, VersionType DEF ServedInv, TypeInv, TypeOK
<1>2. UNCHANGED <<replies, routes>> /\ registry' = [registry EXCEPT ![a] = v]
  BY DEF Change
<1>3. registry'[a] = v /\ \A b \in Apis \ {a} : registry'[b] = registry[b]
  BY <1>1, <1>2 DEF TypeOK, Config
<1>4. ASSUME NEW p \in Procs PROVE routes[p][a] # v \/ v = 0
  <2>1. routes[p][a] \in Nat /\ routes[p][a] <= clock
    BY <1>1, VersionType DEF TypeOK, Config, Known
  <2> QED
    BY <1>1, <2>1
<1>5. ASSUME NEW p \in Procs, NEW i \in 1..Len(replies[p]), Lists(p, i)
      PROVE  replies[p][i].apis[a] # v \/ v = 0
  <2>1. replies[p][i].apis[a] \in Nat /\ replies[p][i].apis[a] <= clock
    BY <1>1, <1>5, ListType, VersionType DEF Config, Known
  <2> QED
    BY <1>1, <2>1
<1>6. ASSUME NEW p \in Procs PROVE Ordered(p)'
  <2>1. Ordered(p)
    BY DEF ServedInv
  <2> SUFFICES ASSUME NEW b \in Apis, NEW i \in 1..Len(replies[p]), NEW j \in 1..Len(replies[p]),
                      i < j, Lists(p, i), Lists(p, j), registry'[b] # 0,
                      replies[p][i].apis[b] = registry'[b]
               PROVE  replies[p][j].apis[b] = registry'[b]
    BY <1>2 DEF Ordered, Lists
  <2>2. b # a
    BY <1>3, <1>5
  <2> QED
    BY <1>3, <2>1, <2>2 DEF Ordered
<1>7. ASSUME NEW p \in Procs PROVE Latest(p)'
  <2>1. Latest(p)
    BY DEF ServedInv
  <2> SUFFICES ASSUME NEW b \in Apis, registry'[b] # 0, routes[p][b] = registry'[b],
                      NEW i \in 1..Len(replies[p]), Lists(p, i)
               PROVE  replies[p][i].apis[b] = registry'[b]
    BY <1>2 DEF Latest, Lists
  <2>2. b # a
    BY <1>3, <1>4
  <2> QED
    BY <1>3, <2>1, <2>2 DEF Latest
<1> QED
  BY <1>1, <1>6, <1>7, TypeChange DEF ServedInv

LEMMA ServedExec ==
    ASSUME ServedInv, NEW p \in Procs, RedisExec(p)
    PROVE  ServedInv'
<1>1. TypeInv /\ TypeOK /\ Len(replies[p]) \in Nat
  BY JobsType DEF ServedInv, TypeInv
<1>2. UNCHANGED <<registry, routes>>
  BY DEF RedisExec
<1>3. /\ Len(replies'[p]) = Len(replies[p]) + 1
      /\ \A i \in 1..Len(replies[p]) : replies'[p][i] = replies[p][i]
      /\ \A q \in Procs \ {p} : replies'[q] = replies[q]
  BY <1>1, Executed
<1>4. \/ replies'[p][Len(replies[p]) + 1] = [op |-> "lock"]
      \/ replies'[p][Len(replies[p]) + 1] = [op |-> "list", apis |-> registry]
  BY <1>1, Executed
<1>5. \A i \in 1..Len(replies'[p]) :
         \/ i \in 1..Len(replies[p]) /\ replies'[p][i] = replies[p][i]
         \/ i = Len(replies[p]) + 1 /\ (Lists(p, i)' => replies'[p][i].apis = registry)
  BY <1>1, <1>3, <1>4 DEF Lists
<1>6. ASSUME NEW q \in Procs PROVE Ordered(q)' /\ Latest(q)'
  <2>1. Ordered(q) /\ Latest(q)
    BY DEF ServedInv
  <2>2. CASE q # p
    BY <1>2, <1>3, <2>1, <2>2, Unmoved
  <2>3. CASE q = p
    <3>1. Ordered(p)'
      <4> SUFFICES ASSUME NEW b \in Apis, NEW i \in 1..Len(replies'[p]), NEW j \in 1..Len(replies'[p]),
                          i < j, Lists(p, i)', Lists(p, j)', registry[b] # 0,
                          replies'[p][i].apis[b] = registry[b]
                   PROVE  replies'[p][j].apis[b] = registry[b]
        BY <1>2 DEF Ordered
      <4>1. CASE j = Len(replies[p]) + 1
        BY <1>1, <1>5, <4>1
      <4>2. CASE j \in 1..Len(replies[p])
        <5>1. i \in 1..Len(replies[p])
          BY <1>1, <4>2
        <5> QED
          <6>1. /\ replies'[p][i] = replies[p][i] /\ replies'[p][j] = replies[p][j]
                /\ Lists(p, i) /\ Lists(p, j) /\ Ordered(p)
            BY <1>3, <2>1, <2>3, <4>2, <5>1 DEF Lists
          <6> QED
            BY <4>2, <5>1, <6>1 DEF Ordered
      <4> QED
        BY <1>5, <4>1, <4>2
    <3>2. Latest(p)'
      BY <1>2, <1>5, <2>1, <2>3 DEF Latest, Lists
    <3> QED
      BY <2>3, <3>1, <3>2
  <2> QED
    BY <2>2, <2>3
<1> QED
  BY <1>1, <1>6, TypeExec DEF ServedInv

\* The batch that makes the route the registered version of an API leaves no
\* list that has another one.
LEMMA ServedHandle ==
    ASSUME ServedInv, NEW p \in Procs, NEW n \in 1..MaxJobs, HandleReplies(p, n)
    PROVE  ServedInv'
<1>1. TypeInv /\ TypeOK /\ n \in Nat /\ Ordered(p) /\ Latest(p)
  BY ReloadAssumption DEF ServedInv, TypeInv
<1>2. /\ Len(replies'[p]) = Len(replies[p]) - n
      /\ \A i \in 1..Len(replies'[p]) : replies'[p][i] = replies[p][n + i]
      /\ \A q \in Procs \ {p} : replies'[q] = replies[q]
  BY <1>1, Handled
<1>3. PICK read \in SUBSET (1..n) : \E lists \in [read -> Config] :
           \E fails \in [read -> SUBSET Apis] : Batch(p, n, read, lists, fails)
  BY <1>1, Handled
<1>4. PICK lists \in [read -> Config], fails \in [read -> SUBSET Apis] :
           Batch(p, n, read, lists, fails)
  BY <1>3
<1>5. UNCHANGED registry
  BY DEF HandleReplies
<1>6. /\ n <= Len(replies[p]) /\ Len(replies[p]) \in Nat
      /\ \A i \in read : Lists(p, i) /\ lists[i] = replies[p][i].apis
  BY <1>4 DEF Batch
<1>7. /\ routes'[p] = Load(routes[p], lists, fails)
      /\ \A q \in Procs \ {p} : routes'[q] = routes[q]
  BY <1>1, <1>4 DEF Batch, TypeOK
<1>8. ASSUME NEW i \in 1..Len(replies'[p])
      PROVE  n + i \in 1..Len(replies[p]) /\ (Lists(p, i)' <=> Lists(p, n + i))
  <2>1. n + i \in 1..Len(replies[p])
    BY <1>1, <1>2, <1>6
  <2> QED
    BY <1>2, <2>1 DEF Lists
<1>9. DOMAIN lists \in SUBSET (1..n)
  OBVIOUS
<1>10. Ordered(p)'
  <2> SUFFICES ASSUME NEW b \in Apis, NEW i \in 1..Len(replies'[p]), NEW j \in 1..Len(replies'[p]),
                      i < j, Lists(p, i)', Lists(p, j)', registry[b] # 0,
                      replies'[p][i].apis[b] = registry[b]
               PROVE  replies'[p][j].apis[b] = registry[b]
    BY <1>5 DEF Ordered
  <2>1. n + i < n + j
    BY <1>1
  <2>2. /\ replies'[p][i] = replies[p][n + i] /\ replies'[p][j] = replies[p][n + j]
        /\ n + i \in 1..Len(replies[p]) /\ n + j \in 1..Len(replies[p])
        /\ Lists(p, n + i) /\ Lists(p, n + j)
    BY <1>2, <1>8
  <2> QED
    BY <1>1, <2>1, <2>2 DEF Ordered
<1>11. Latest(p)'
  <2> SUFFICES ASSUME NEW b \in Apis, registry[b] # 0, routes'[p][b] = registry[b],
                      NEW j \in 1..Len(replies'[p]), Lists(p, j)'
               PROVE  replies'[p][j].apis[b] = registry[b]
    BY <1>5 DEF Latest
  <2>1. n + j \in 1..Len(replies[p]) /\ Lists(p, n + j) /\ replies'[p][j] = replies[p][n + j]
    BY <1>2, <1>8
  <2>2. CASE Loaded(lists, fails, b) # {}
    <3>1. PICK i \in Loaded(lists, fails, b) : Load(routes[p], lists, fails)[b] = lists[i][b]
      BY <1>1, <1>9, <2>2, LoadChooses
    <3>2. i \in read /\ i \in 1..n
      BY DEF Loaded
    <3>3. i \in 1..Len(replies[p]) /\ i < n + j
      BY <1>1, <1>6, <3>2
    <3>4. Lists(p, i) /\ replies[p][i].apis[b] = registry[b]
      BY <1>6, <1>7, <3>1, <3>2
    <3> QED
      BY <1>1, <2>1, <3>3, <3>4 DEF Ordered
  <2>3. CASE Loaded(lists, fails, b) = {}
    <3>1. routes'[p][b] = 0 \/ routes'[p][b] = Start(routes[p], lists)[b]
      BY <1>7, <2>3, LoadKeeps
    <3>2. Start(routes[p], lists)[b] = 0 \/ Start(routes[p], lists)[b] = routes[p][b]
      BY DEF Start, NoApis
    <3>3. routes[p][b] = registry[b]
      BY <3>1, <3>2
    <3> QED
      BY <1>1, <2>1, <3>3 DEF Latest
  <2> QED
    BY <2>2, <2>3
<1>12. \A q \in Procs \ {p} : Ordered(q)' /\ Latest(q)'
  BY <1>2, <1>5, <1>7, Unmoved DEF ServedInv
<1> QED
  BY <1>1, <1>10, <1>11, <1>12, TypeHandle DEF ServedInv

LEMMA ServedCrash ==
    ASSUME ServedInv, NEW p \in Procs, Crash(p)
    PROVE  ServedInv'
<1>1. TypeInv /\ TypeOK
  BY DEF ServedInv, TypeInv
<1>2. /\ UNCHANGED registry /\ replies'[p] = <<>> /\ routes'[p] = NoApis
      /\ \A q \in Procs \ {p} : replies'[q] = replies[q] /\ routes'[q] = routes[q]
  BY <1>1 DEF Crash, TypeOK
<1>3. Ordered(p)' /\ Latest(p)'
  BY <1>2 DEF Ordered, Latest, NoApis
<1>4. \A q \in Procs \ {p} : Ordered(q)' /\ Latest(q)'
  BY <1>2, Unmoved DEF ServedInv
<1> QED
  BY <1>1, <1>3, <1>4, TypeCrash DEF ServedInv

LEMMA ServedStep == ServedInv /\ [Next]_vars => ServedInv'
<1> SUFFICES ASSUME ServedInv, [Next]_vars PROVE ServedInv'
  OBVIOUS
<1>1. TypeInv /\ TypeInv'
  BY TypeStep DEF ServedInv
<1>2. ASSUME UNCHANGED <<registry, replies, routes>> PROVE ServedInv'
  BY <1>1, <1>2, Unmoved DEF ServedInv
<1>3. ASSUME NEW a \in Apis, Delete(a) PROVE ServedInv'
  <2>1. (CHOOSE x \in Paths : TRUE) \in Paths
    BY ReloadAssumption
  <2> QED
    BY <1>3, <2>1, ServedChange DEF Delete
<1>4. ASSUME NEW a \in Apis, NEW x \in Paths, Save(a, x) PROVE ServedInv'
  BY <1>4, ServedChange DEF Save
<1>5. ASSUME NEW p \in Procs, StartJob(p) \/ Installed(p) \/ InstallFails(p) \/ Subscribe(p)
      PROVE  ServedInv'
  BY <1>2, <1>5 DEF StartJob, Begin, Installed, InstallFails, Subscribe
<1>6. CASE UNCHANGED vars
  BY <1>2, <1>6 DEF vars
<1> QED
  BY <1>3, <1>4, <1>5, <1>6, ServedExec, ServedHandle, ServedCrash DEF Next

\* While the registered version is routed every list says so, and no batch of
\* them takes the API away or puts another version in its place.
LEMMA ServedKept ==
    ASSUME ServedInv, NEW p \in Procs, NEW n \in 1..MaxJobs, HandleReplies(p, n),
           NEW q \in Procs, NEW a \in Apis, routes[q][a] # 0, routes[q][a] = registry[a]
    PROVE  routes'[q][a] = routes[q][a]
<1>1. TypeOK /\ n \in Nat /\ Latest(p)
  BY ReloadAssumption DEF ServedInv, TypeInv
<1>2. PICK read \in SUBSET (1..n) : \E lists \in [read -> Config] :
           \E fails \in [read -> SUBSET Apis] : Batch(p, n, read, lists, fails)
  BY <1>1, Handled
<1>3. PICK lists \in [read -> Config], fails \in [read -> SUBSET Apis] :
           Batch(p, n, read, lists, fails)
  BY <1>2
<1>4. /\ routes'[p] = Load(routes[p], lists, fails)
      /\ \A r \in Procs \ {p} : routes'[r] = routes[r]
  BY <1>1, <1>3 DEF Batch, TypeOK
<1>5. CASE q # p
  BY <1>4, <1>5
<1>6. CASE q = p
  <2>1. ASSUME NEW i \in read PROVE lists[i][a] = registry[a]
    <3>1. n <= Len(replies[p]) /\ Len(replies[p]) \in Nat /\ i \in 1..n
      BY <1>3 DEF Batch
    <3>2. i \in 1..Len(replies[p])
      BY <1>1, <3>1
    <3>3. Lists(p, i) /\ lists[i] = replies[p][i].apis
      BY <1>3 DEF Batch
    <3> QED
      BY <1>1, <1>6, <3>2, <3>3 DEF Latest
  <2>2. CASE Loaded(lists, fails, a) # {}
    <3>1. DOMAIN lists \in SUBSET (1..n)
      OBVIOUS
    <3>2. PICK i \in Loaded(lists, fails, a) : Load(routes[p], lists, fails)[a] = lists[i][a]
      BY <1>1, <2>2, <3>1, LoadChooses
    <3>3. i \in read
      BY DEF Loaded
    <3> QED
      BY <1>4, <1>6, <2>1, <3>2, <3>3
  <2>3. CASE Loaded(lists, fails, a) = {}
    <3>1. ~Removed(lists, fails, a)
      BY <2>1 DEF Removed
    <3>2. Start(routes[p], lists) = routes[p]
      BY <2>1 DEF Start, NoApis
    <3> QED
      BY <1>4, <1>6, <2>3, <3>1, <3>2, LoadKeeps
  <2> QED
    BY <2>2, <2>3
<1> QED
  BY <1>5, <1>6

LEMMA ServedAction ==
    ServedInv /\ [Next]_vars =>
        \A p \in Procs, a \in Apis :
            routes[p][a] # 0 /\ routes[p][a] = registry[a] /\ subscribed'[p] => routes'[p][a] # 0
<1> SUFFICES ASSUME ServedInv, [Next]_vars, NEW p \in Procs, NEW a \in Apis,
                    routes[p][a] # 0, routes[p][a] = registry[a], subscribed'[p]
             PROVE  routes'[p][a] # 0
  OBVIOUS
<1>1. TypeOK
  BY DEF ServedInv, TypeInv
<1>2. ASSUME NEW q \in Procs, Crash(q) PROVE routes'[p][a] # 0
  <2>1. ~subscribed'[q] /\ \A r \in Procs \ {q} : routes'[r] = routes[r]
    BY <1>1, <1>2 DEF TypeOK, Crash
  <2> QED
    BY <2>1
<1>3. ASSUME NEW q \in Procs, NEW n \in 1..MaxJobs, HandleReplies(q, n)
      PROVE  routes'[p][a] # 0
  BY <1>3, ServedKept
<1>4. CASE UNCHANGED routes
  BY <1>4
<1> QED
  BY <1>2, <1>3, <1>4
     DEF Next, vars, Save, Delete, Change, StartJob, Begin, Installed, InstallFails, RedisExec, Subscribe

\* ServedStaysServed, whatever fails (ApiPipeline.removeOldAPIs()).
THEOREM ServedApisStay == Spec => ServedStaysServed
<1>1. ServedInv /\ [Next]_vars =>
        [\A p \in Procs, a \in Apis :
            routes[p][a] # 0 /\ routes[p][a] = registry[a] /\ subscribed'[p] => routes'[p][a] # 0]_vars
  BY ServedAction
<1> QED
  BY <1>1, ServedInit, ServedStep, PTL DEF Spec, ServedStaysServed

-----------------------------------------------------------------------------
(***************************************************************************)
(* What a process routes when it is done: until then an event, a job or a  *)
(* list of the registered APIs is left that will route them.               *)
(***************************************************************************)

LEMMA SettledInit == Init => SettledInv
<1> SUFFICES ASSUME Init PROVE SettledInv
  OBVIOUS
<1>1. ASSUME NEW p \in Procs PROVE subscribed[p] /\ CaughtUp(p)
  <2>1. FreshFrom(p, 1) /\ routes[p] = registry
    BY DEF Init, FreshFrom
  <2> QED
    BY <2>1 DEF Init, CaughtUp
<1> QED
  BY <1>1, TypeInit DEF SettledInv

\* What CaughtUp is about does not change.
LEMMA StillCaughtUp ==
    ASSUME NEW q \in Procs, CaughtUp(q), registry' = registry, events'[q] = events[q],
           cmds'[q] = cmds[q], replies'[q] = replies[q], installing'[q] = installing[q],
           routes'[q] = routes[q]
    PROVE  CaughtUp(q)'
<1>1. \A i : Lists(q, i)' <=> Lists(q, i)
  BY DEF Lists
<1>2. \A k : FreshFrom(q, k)' <=> FreshFrom(q, k)
  BY <1>1 DEF FreshFrom
<1> QED
  BY <1>1, <1>2 DEF CaughtUp

LEMMA SettledExec ==
    ASSUME TypeOK, NEW p \in Procs, CaughtUp(p), RedisExec(p)
    PROVE  CaughtUp(p)'
<1>1. /\ Len(cmds[p]) \in Nat \ {0} /\ Len(replies[p]) \in Nat
      /\ Len(cmds'[p]) = Len(cmds[p]) - 1 /\ Len(replies'[p]) = Len(replies[p]) + 1
      /\ \A i \in 1..Len(cmds'[p]) : cmds'[p][i] = cmds[p][i + 1]
      /\ \A i \in 1..Len(replies[p]) : replies'[p][i] = replies[p][i]
  BY Executed
<1>2. \/ cmds[p][1] = "lock" /\ replies'[p][Len(replies[p]) + 1] = [op |-> "lock"]
      \/ /\ cmds[p][1] = "list"
         /\ replies'[p][Len(replies[p]) + 1] = [op |-> "list", apis |-> registry]
  BY Executed
<1>3. UNCHANGED <<registry, events, installing, routes>>
  BY DEF RedisExec
<1>0. PICK last \in Nat : last = Len(replies[p]) + 1
  BY <1>1
<1>4. /\ last \in 1..Len(replies'[p])
      /\ Lists(p, last)' => replies'[p][last].apis = registry
  BY <1>0, <1>1, <1>2 DEF Lists
<1>5. ASSUME NEW k \in 1..last, \A i \in k..Len(replies[p]) : Lists(p, i) => replies[p][i].apis = registry
      PROVE  FreshFrom(p, k)'
  <2> SUFFICES ASSUME NEW i \in k..Len(replies'[p]), Lists(p, i)' PROVE replies'[p][i].apis = registry
    BY <1>3 DEF FreshFrom
  <2>1. CASE i = last
    BY <1>4, <2>1
  <2>2. CASE i # last
    <3>1. i \in 1..Len(replies[p]) /\ i \in k..Len(replies[p])
      BY <1>0, <1>1, <2>2
    <3>2. replies'[p][i] = replies[p][i]
      BY <1>1, <3>1
    <3> QED
      BY <1>5, <3>1, <3>2 DEF Lists
  <2> QED
    BY <2>1, <2>2
<1>6. CASE events[p] > 0
  BY <1>3, <1>6 DEF CaughtUp
<1>7. CASE cmds[p][1] = "lock"
  <2>1. replies'[p][last].op = "lock"
    BY <1>0, <1>2, <1>7
  <2>2. last \in 1..last /\ last..Len(replies[p]) = {}
    BY <1>0, <1>1
  <2>3. FreshFrom(p, last)'
    BY <1>5, <2>2
  <2> QED
    BY <1>4, <2>1, <2>3 DEF CaughtUp
<1>8. ASSUME NEW k \in 2..Len(cmds[p])
      PROVE  k - 1 \in 1..Len(cmds'[p]) /\ cmds'[p][k - 1] = cmds[p][k]
  <2>1. k - 1 \in 1..Len(cmds'[p]) /\ (k - 1) + 1 = k
    BY <1>1
  <2> QED
    BY <1>1, <2>1
<1>9. ASSUME NEW k \in 1..Len(cmds[p]), cmds[p][k] = "lock", cmds[p][1] # "lock"
      PROVE  CaughtUp(p)'
  <2>1. k \in 2..Len(cmds[p])
    BY <1>1, <1>9
  <2> QED
    BY <1>8, <1>9, <2>1 DEF CaughtUp
<1>10. ASSUME NEW k \in 1..Len(replies[p]), replies[p][k].op = "lock", FreshFrom(p, k)
       PROVE  CaughtUp(p)'
  <2>1. k \in 1..last /\ k \in 1..Len(replies'[p]) /\ replies'[p][k].op = "lock"
    BY <1>0, <1>1, <1>10
  <2>2. FreshFrom(p, k)'
    BY <1>5, <1>10, <2>1 DEF FreshFrom
  <2> QED
    BY <2>1, <2>2 DEF CaughtUp
<1>11. ASSUME FreshFrom(p, 1), cmds[p][1] = "list"
       PROVE  CaughtUp(p)'
  <2>1. 1 \in 1..last
    BY <1>0, <1>1
  <2>2. FreshFrom(p, 1)'
    BY <1>5, <1>11, <2>1 DEF FreshFrom
  <2>3. Lists(p, last)'
    BY <1>0, <1>2, <1>11 DEF Lists
  <2> QED
    BY <1>4, <2>2, <2>3 DEF CaughtUp
<1>12. cmds[p][1] = "lock" \/ cmds[p][1] = "list"
  BY <1>2
<1>13. 1 \in 1..Len(cmds[p])
  BY <1>1
<1> QED
  BY <1>6, <1>7, <1>9, <1>10, <1>11, <1>12, <1>13 DEF CaughtUp

LEMMA SettledHandle ==
    ASSUME TypeOK, calm, NEW p \in Procs, CaughtUp(p), NEW n \in 1..MaxJobs, HandleReplies(p, n)
    PROVE  CaughtUp(p)'
<1>1. n \in Nat \ {0}
  BY ReloadAssumption
<1>2. /\ Len(replies'[p]) = Len(replies[p]) - n
      /\ \A i \in 1..Len(replies'[p]) : replies'[p][i] = replies[p][n + i]
  BY Handled
<1>3. PICK read \in SUBSET (1..n) : \E lists \in [read -> Config] :
           \E fails \in [read -> SUBSET Apis] : Batch(p, n, read, lists, fails)
  BY Handled
<1>4. PICK lists \in [read -> Config], fails \in [read -> SUBSET Apis] :
           Batch(p, n, read, lists, fails)
  BY <1>3
<1>5. UNCHANGED <<registry, events, cmds>>
  BY DEF HandleReplies
<1>6. /\ n <= Len(replies[p]) /\ Len(replies[p]) \in Nat
      /\ \A i \in 1..n : i \in read <=> Lists(p, i)
      /\ \A i \in read : lists[i] = replies[p][i].apis /\ fails[i] = {}
      /\ Cardinality(read) \in 0..n /\ (Cardinality(read) = n => read = 1..n)
  BY <1>4 DEF Batch
<1>7. /\ installing[p] \in Nat /\ routes[p] \in Config
      /\ installing'[p] = installing[p] + (n - Cardinality(read))
      /\ routes'[p] = Load(routes[p], lists, fails)
  BY <1>4, ReloadAssumption DEF Batch, TypeOK
<1>8. ASSUME NEW k \in 1..n + 1, FreshFrom(p, k) PROVE FreshFrom(p, 1)'
  <2> SUFFICES ASSUME NEW i \in 1..Len(replies'[p]), Lists(p, i)' PROVE replies'[p][i].apis = registry
    BY <1>5 DEF FreshFrom
  <2>1. n + i \in k..Len(replies[p])
    BY <1>1, <1>2, <1>6
  <2>2. replies'[p][i] = replies[p][n + i]
    BY <1>2
  <2> QED
    BY <1>8, <2>1, <2>2 DEF FreshFrom, Lists
<1>9. ASSUME NEW k \in n + 1..Len(replies[p])
      PROVE  /\ k - n \in 1..Len(replies'[p]) /\ replies'[p][k - n] = replies[p][k]
             /\ FreshFrom(p, k) => FreshFrom(p, k - n)'
  <2>1. k - n \in 1..Len(replies'[p]) /\ n + (k - n) = k
    BY <1>1, <1>2, <1>6
  <2>2. ASSUME FreshFrom(p, k), NEW i \in k - n..Len(replies'[p]), Lists(p, i)'
        PROVE  replies'[p][i].apis = registry
    <3>1. n + i \in k..Len(replies[p]) /\ i \in 1..Len(replies'[p])
      BY <1>1, <1>2, <1>6
    <3> QED
      BY <1>2, <2>2, <3>1 DEF FreshFrom, Lists
  <2> QED
    BY <1>2, <1>5, <2>1, <2>2 DEF FreshFrom
<1>10. CASE events[p] > 0
  BY <1>5, <1>10 DEF CaughtUp
<1>11. CASE \E k \in 1..Len(cmds[p]) : cmds[p][k] = "lock"
  BY <1>5, <1>11 DEF CaughtUp
<1>12. ASSUME NEW k \in 1..Len(replies[p]), replies[p][k].op = "lock", FreshFrom(p, k)
       PROVE  CaughtUp(p)'
  <2>1. CASE k > n
    <3>1. k \in n + 1..Len(replies[p])
      BY <1>1, <2>1
    <3> QED
      BY <1>9, <1>12, <3>1 DEF CaughtUp
  <2>2. CASE k <= n
    <3>1. k \in 1..n /\ k \in 1..n + 1
      BY <1>1, <2>2
    <3>2. k \notin read
      BY <1>6, <1>12, <3>1 DEF Lists
    <3>3. Cardinality(read) < n
      BY <1>1, <1>6, <3>1, <3>2
    <3>4. installing'[p] > 0
      BY <1>1, <1>6, <1>7, <3>3
    <3> QED
      BY <1>8, <1>12, <3>1, <3>4 DEF CaughtUp
  <2> QED
    BY <1>1, <2>1, <2>2
<1>13. ASSUME FreshFrom(p, 1) PROVE FreshFrom(p, 1)'
  <2>1. 1 \in 1..n + 1
    BY <1>1
  <2> QED
    BY <1>8, <1>13, <2>1
<1>14. CASE FreshFrom(p, 1) /\ installing[p] > 0
  <2>1. installing'[p] > 0
    BY <1>1, <1>6, <1>7, <1>14
  <2> QED
    BY <1>13, <1>14, <2>1 DEF CaughtUp
<1>15. CASE FreshFrom(p, 1) /\ \E k \in 1..Len(cmds[p]) : cmds[p][k] = "list"
  BY <1>5, <1>13, <1>15 DEF CaughtUp
<1>16. ASSUME FreshFrom(p, 1), read # {} PROVE routes'[p] = registry
  <2>1. ASSUME NEW i \in read PROVE lists[i] = registry
    <3>1. i \in 1..n /\ i \in 1..Len(replies[p])
      BY <1>1, <1>6
    <3> QED
      BY <1>6, <1>16, <3>1 DEF FreshFrom
  <2>2. registry \in Config
    BY DEF TypeOK
  <2> QED
    <3>1. DOMAIN lists \in SUBSET (1..n) /\ DOMAIN lists # {}
      BY <1>16
    <3>2. \A i \in DOMAIN lists : lists[i] = registry /\ fails[i] = {}
      BY <1>6, <2>1
    <3> QED
      BY <1>1, <1>7, <2>2, <3>1, <3>2, LoadAgreed
<1>17. CASE FreshFrom(p, 1) /\ routes[p] = registry
  <2>1. ASSUME read = {} PROVE routes'[p] = registry
    <3>1. DOMAIN lists = {}
      BY <2>1
    <3> QED
      BY <1>7, <1>17, <3>1, LoadNothing
  <2> QED
    BY <1>5, <1>13, <1>16, <1>17, <2>1 DEF CaughtUp
<1>18. ASSUME FreshFrom(p, 1), NEW k \in 1..Len(replies[p]), Lists(p, k)
       PROVE  CaughtUp(p)'
  <2>1. CASE k > n
    <3>1. k \in n + 1..Len(replies[p])
      BY <1>1, <2>1
    <3>2. k - n \in 1..Len(replies'[p]) /\ replies'[p][k - n].op = "list"
      BY <1>9, <1>18, <3>1 DEF Lists
    <3> QED
      BY <1>13, <1>18, <3>2 DEF CaughtUp, Lists
  <2>2. CASE k <= n
    <3>1. k \in 1..n
      BY <1>1, <2>2
    <3>2. k \in read
      BY <1>6, <1>18, <3>1
    <3> QED
      BY <1>5, <1>13, <1>16, <1>18, <3>2 DEF CaughtUp
  <2> QED
    BY <1>1, <2>1, <2>2
<1> QED
  BY <1>10, <1>11, <1>12, <1>14, <1>15, <1>17, <1>18 DEF CaughtUp

\* A new job.
LEMMA SettledStart ==
    ASSUME TypeOK, NEW p \in Procs, StartJob(p)
    PROVE  CaughtUp(p)' /\ \A q \in Procs \ {p} : CaughtUp(q) => CaughtUp(q)'
<1>1. cmds' = [cmds EXCEPT ![p] = Append(@, "lock")] /\ "lock" \in Commands
  BY DEF StartJob, Begin, Commands
<1>2. /\ Len(cmds'[p]) \in 1..Len(cmds'[p]) /\ cmds'[p][Len(cmds'[p])] = "lock"
      /\ \A q \in Procs \ {p} : cmds'[q] = cmds[q]
  BY <1>1, Sent
<1>3. UNCHANGED <<registry, installing, replies, routes>>
  BY DEF StartJob, Begin
<1>4. \A q \in Procs \ {p} : events'[q] = events[q]
  BY DEF StartJob, TypeOK
<1>5. CaughtUp(p)'
  BY <1>2 DEF CaughtUp
<1>6. \A q \in Procs \ {p} : CaughtUp(q) => CaughtUp(q)'
  BY <1>2, <1>3, <1>4, StillCaughtUp
<1> QED
  BY <1>5, <1>6

\* The middlewares are there: the job reads the APIs.
LEMMA SettledInstalled ==
    ASSUME TypeOK, NEW p \in Procs, CaughtUp(p), Installed(p)
    PROVE  CaughtUp(p)' /\ \A q \in Procs \ {p} : CaughtUp(q) => CaughtUp(q)'
<1>1. cmds' = [cmds EXCEPT ![p] = Append(@, "list")] /\ "list" \in Commands
  BY DEF Installed, Commands
<1>2. /\ Len(cmds'[p]) \in 1..Len(cmds'[p]) /\ cmds'[p][Len(cmds'[p])] = "list"
      /\ \A i \in 1..Len(cmds[p]) : i \in 1..Len(cmds'[p]) /\ cmds'[p][i] = cmds[p][i]
      /\ \A q \in Procs \ {p} : cmds'[q] = cmds[q]
  BY <1>1, Sent
<1>3. UNCHANGED <<registry, events, replies, routes>>
  BY DEF Installed
<1>4. \A q \in Procs \ {p} : installing'[q] = installing[q]
  BY DEF Installed, TypeOK
<1>5. \A k : FreshFrom(p, k)' <=> FreshFrom(p, k)
  BY <1>3 DEF FreshFrom, Lists
<1>6. CaughtUp(p)'
  <2>1. CASE events[p] > 0
    BY <1>3, <2>1 DEF CaughtUp
  <2>2. CASE \E k \in 1..Len(cmds[p]) : cmds[p][k] = "lock"
    BY <1>2, <2>2 DEF CaughtUp
  <2>3. CASE \E k \in 1..Len(replies[p]) : replies[p][k].op = "lock" /\ FreshFrom(p, k)
    BY <1>3, <1>5, <2>3 DEF CaughtUp
  <2>4. CASE FreshFrom(p, 1)
    BY <1>2, <1>5, <2>4 DEF CaughtUp
  <2> QED
    BY <2>1, <2>2, <2>3, <2>4 DEF CaughtUp
<1>7. \A q \in Procs \ {p} : CaughtUp(q) => CaughtUp(q)'
  BY <1>2, <1>3, <1>4, StillCaughtUp
<1> QED
  BY <1>6, <1>7

\* A change leaves every process that is subscribed an event to handle.
LEMMA SettledChange ==
    ASSUME SettledInv, NEW a \in Apis, NEW v, NEW x, Change(a, v, x)
    PROVE  calm' => \A p \in Procs : subscribed'[p] /\ CaughtUp(p)'
<1> SUFFICES ASSUME calm, NEW p \in Procs PROVE subscribed'[p] /\ CaughtUp(p)'
  BY DEF Change
<1>1. subscribed[p] /\ events[p] \in Nat
  BY ReloadAssumption DEF SettledInv, TypeInv, TypeOK
<1>2. events'[p] = events[p] + 1 /\ subscribed' = subscribed
  BY <1>1 DEF Change, Publish
<1>3. events'[p] > 0
  BY <1>1, <1>2
<1> QED
  BY <1>1, <1>2, <1>3 DEF CaughtUp

LEMMA SettledStep == SettledInv /\ [Next]_vars => SettledInv'
<1> SUFFICES ASSUME SettledInv, [Next]_vars PROVE SettledInv'
  OBVIOUS
<1>1. TypeInv' /\ TypeOK
  BY TypeStep DEF SettledInv, TypeInv
<1>2. SUFFICES calm' => \A p \in Procs : subscribed'[p] /\ CaughtUp(p)'
  BY <1>1 DEF SettledInv
<1>3. ASSUME NEW a \in Apis, Delete(a) PROVE calm' => \A p \in Procs : subscribed'[p] /\ CaughtUp(p)'
  BY <1>3, SettledChange DEF Delete
<1>4. ASSUME NEW a \in Apis, NEW x \in Paths, Save(a, x)
      PROVE  calm' => \A p \in Procs : subscribed'[p] /\ CaughtUp(p)'
  BY <1>4, SettledChange DEF Save
<1>5. CASE UNCHANGED vars
  BY <1>5, StillCaughtUp DEF vars, SettledInv
<1>6. ASSUME NEW p \in Procs, calm',
             \/ StartJob(p) \/ Installed(p) \/ InstallFails(p) \/ RedisExec(p)
             \/ \E n \in 1..MaxJobs : HandleReplies(p, n)
             \/ Crash(p) \/ Subscribe(p)
      PROVE  \A q \in Procs : subscribed'[q] /\ CaughtUp(q)'
  <2>1. calm
    BY <1>6 DEF StartJob, Installed, InstallFails, RedisExec, HandleReplies, Crash, Subscribe
  <2>2. \A q \in Procs : subscribed[q] /\ CaughtUp(q)
    BY <2>1 DEF SettledInv
  <2>3. ~InstallFails(p) /\ ~Crash(p) /\ ~Subscribe(p)
    BY <2>1, <2>2 DEF InstallFails, Crash, Subscribe, MayFail
  <2>4. subscribed' = subscribed
    BY <1>6, <2>3 DEF StartJob, Installed, RedisExec, HandleReplies
  <2>5. CASE StartJob(p)
    BY <1>1, <2>2, <2>4, <2>5, SettledStart
  <2>6. CASE Installed(p)
    BY <1>1, <2>2, <2>4, <2>6, SettledInstalled
  <2>7. CASE RedisExec(p)
    <3>1. \A q \in Procs \ {p} : cmds'[q] = cmds[q] /\ replies'[q] = replies[q]
      BY <1>1, <2>7, Executed
    <3>2. UNCHANGED <<registry, events, installing, routes>>
      BY <2>7 DEF RedisExec
    <3>3. \A q \in Procs \ {p} : CaughtUp(q)'
      BY <2>2, <3>1, <3>2, StillCaughtUp
    <3> QED
      BY <1>1, <2>2, <2>4, <2>7, <3>3, SettledExec
  <2>8. ASSUME NEW n \in 1..MaxJobs, HandleReplies(p, n)
        PROVE  \A q \in Procs : subscribed'[q] /\ CaughtUp(q)'
    <3>1. \A q \in Procs \ {p} : replies'[q] = replies[q]
      BY <1>1, <2>8, Handled
    <3>2. UNCHANGED <<registry, events, cmds>>
      BY <2>8 DEF HandleReplies
    <3>3. \A q \in Procs \ {p} : installing'[q] = installing[q] /\ routes'[q] = routes[q]
      BY <1>1, <2>8 DEF HandleReplies, TypeOK
    <3>4. \A q \in Procs \ {p} : CaughtUp(q)'
      BY <2>2, <3>1, <3>2, <3>3, StillCaughtUp
    <3>5. CaughtUp(p)'
      BY <1>1, <2>1, <2>2, <2>8, SettledHandle
    <3> QED
      BY <2>2, <2>4, <3>4, <3>5
  <2> QED
    BY <1>6, <2>3, <2>5, <2>6, <2>7, <2>8
<1> QED
  BY <1>3, <1>4, <1>5, <1>6 DEF Next

LEMMA SettledMatch == SettledInv => SettledRoutesMatch
<1> SUFFICES ASSUME SettledInv, calm, NEW p \in Procs, Settled(p) PROVE routes[p] = registry
  BY DEF SettledRoutesMatch
<1>1. TypeOK /\ CaughtUp(p)
  BY DEF SettledInv, TypeInv
<1>2. events[p] = 0 /\ Jobs(p) = 0
  BY DEF Settled
<1>3. /\ installing[p] \in Nat /\ Len(cmds[p]) \in Nat /\ Len(replies[p]) \in Nat
      /\ installing[p] + Len(cmds[p]) + Len(replies[p]) = 0
  BY <1>1, <1>2, JobsType
<1>4. installing[p] = 0 /\ Len(cmds[p]) = 0 /\ Len(replies[p]) = 0
  BY <1>3
<1> QED
  BY <1>1, <1>2, <1>4 DEF CaughtUp

\* SettledRoutesMatch: however many jobs of a process overlap and share
\* installedApis, the last of them leaves the registered APIs
\* (Gateway.updateConfig(), ApiPipeline.loadApis()).
THEOREM SettledProcessesRouteTheRegistry == Spec => []SettledRoutesMatch
BY SettledInit, SettledStep, SettledMatch, PTL DEF Spec
=============================================================================
