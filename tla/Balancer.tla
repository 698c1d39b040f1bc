------------------------------ MODULE Balancer ------------------------------
(***************************************************************************)
(* What follows the lists of the plugins' data in one process: the load    *)
(* balancers of its APIs (loadBalancer.ts) and the IP filters of its APIs  *)
(* and of the gateway itself (ipFilter.ts).  Each one watches a key of     *)
(* Redis and listens to the one service they share, whose event says that  *)
(* some key was read (service/redis/plugin-data.ts): all get the lists of  *)
(* all keys, in the order in which they listen, until one throws an error, *)
(* as the balancer does for a list of addresses.  A balancer also checks   *)
(* the health of its destinations (utils/health-check.ts) and chooses one  *)
(* of them for each request.                                               *)
(***************************************************************************)
EXTENDS Integers, Sequences, FiniteSets, SequencesExt

CONSTANTS
    Filters,        \* the IP filters of APIs
    GatewayFilters, \* the IP filters of the gateway
    Lb,             \* a load balancer of an API
    KeyOf,          \* the key that each of them watches
    Items,          \* destinations, or addresses
    Destinations,   \* those that are destinations
    ItemsOf,        \* what the list of each key may hold
    FixedItems,     \* those of each one's own configuration
    Checkable,      \* the destinations that may have a health check
    None,           \* no list read yet
    FailCount,      \* healthCheckOptions.failCount
    MaxChanges,     \* bound on the changes of the lists; there are none while
                    \* the health of destinations is checked
    MaxReloads,     \* bound on the reloads of the APIs and of the gateway
    MaxArrays,      \* bound on the arrays over which choices are counted
    ChoosesWhileChecking \* bound: whether destinations are chosen in a behaviour in
                    \* which they are checked, although neither depends on the other

ASSUME CheckAssumption == FailCount \in Nat \ {0}

OfApis == Filters \cup {Lb}
Watchers == OfApis \cup GatewayFilters
Keys == {KeyOf[c] : c \in Watchers}

ASSUME ListsAssumption ==
    /\ IsFiniteSet(Destinations) /\ IsFiniteSet(FixedItems[Lb])
    /\ \A k \in Keys : ItemsOf[k] \subseteq Items

ASSUME ArraysAssumption == MaxArrays \in Nat \ {0}

\* The count of a check after which nothing changes.
CountCap == FailCount

VARIABLES
    calm,       \* whether nothing fails in this behaviour
    monitored,  \* the destinations that have a health check
    present,    \* the watchers that are configured
    db,         \* the lists in Redis
    data,       \* the list each watcher goes by
    previous,   \* the balancer's last list from Redis, whatever its key
    watching,   \* whether the watcher's interval runs
    listeners,  \* those that listen to the service, in order
    answers,    \* lists read and not handled, in order
    building,   \* what is loaded again: "none", "apis" or "gateway"
    changes,    \* changes of the lists, and
    reloads,    \*   reloads, so far
    checks,     \* the balancer's checker: failures and state of each destination
    asked,      \* the destinations whose check is not resolved,
    failing,    \*   those that answered with an error and wait,
    aborted,    \*   and those whose aborted request has not ended
    round,      \* "off", "on" or "idle": the checker's round
    configured, \* whether the balancer's array is the configured one
    turn,       \* the next destination of the round-robin, and
    kept,       \*   that of the configured array, when it left it
    failed,     \* history: checks of each destination that failed since one was fine
    chosen,     \* history: how often each destination was chosen since they are these,
                \*   more than the one chosen least, and
    arrays      \* history: the arrays that they were in

lists == <<db, changes>>
watch == <<previous, watching, listeners>>
health == <<checks, asked, failing, aborted, round, failed>>
choice == <<configured, turn, kept, chosen, arrays>>
given == <<calm, monitored, present>>
vars == <<calm, monitored, present, db, data, previous, watching, listeners, answers, building, changes,
          reloads, checks, asked, failing, aborted, round, configured, turn, kept, failed, chosen,
          arrays>>

-----------------------------------------------------------------------------
(* The lists, and who watches them.                                        *)

\* Somebody changes a list.
Change(k) ==
    /\ changes < MaxChanges
    /\ \E new \in SUBSET ItemsOf[k] : new # db[k] /\ db' = [db EXCEPT ![k] = new]
    /\ changes' = changes + 1
    /\ UNCHANGED <<given, data, watch, answers, building, reloads, health, choice>>

\* The list is read at each interval.  The intervals are long: a watcher does
\* not read again before its last answer is handled.
Poll(c) ==
    /\ watching[c]
    /\ \A i \in DOMAIN answers : answers[i].by # c
    /\ answers' = Append(answers, [by |-> c, items |-> db[KeyOf[c]]])
    /\ UNCHANGED <<given, lists, data, watch, building, reloads, health, choice>>

\* The error is logged.
PollFails ==
    /\ ~calm /\ answers # <<>>
    /\ answers' = Tail(answers)
    /\ UNCHANGED <<given, lists, data, watch, building, reloads, health, choice>>

\* A new checker starts with a clean sheet and checks at once; the one before is
\* stopped, with what it waits for.  Without destinations to check there is none,
\* and the one before goes on, unheard.
NewChecker(items) ==
    IF items \cap monitored = {} THEN UNCHANGED health
    ELSE /\ checks' = [s \in items \cap monitored |-> [count |-> 0, down |-> FALSE]]
         /\ asked' = items \cap monitored
         /\ failing' = {} /\ aborted' = {}
         /\ round' = "on"
         /\ failed' = [s \in items \cap monitored |-> 0]

\* The counter of the round-robin is a property of the array of destinations:
\* a new one has none.  The configured destinations are always the same array,
\* unless those that are up are picked from it.
IsConfigured(items) == items = {} /\ FixedItems[Lb] \cap monitored = {}

NewCount(destinations) == chosen' = [s \in destinations |-> 0] /\ arrays' = 1

NewInstances ==
    /\ configured' = IsConfigured({})
    /\ turn' = 0 /\ kept' = 0
    /\ NewCount(FixedItems[Lb])

\* History: choices are counted while the destinations are the same ones.
Recounted(destinations) ==
    IF configured /\ configured' THEN UNCHANGED <<chosen, arrays>>
    ELSE IF DOMAIN chosen = destinations /\ arrays < MaxArrays
         THEN chosen' = chosen /\ arrays' = arrays + 1
         ELSE NewCount(destinations)

Merged(items) ==
    /\ configured' = IsConfigured(items)
    /\ kept' = IF configured THEN turn ELSE kept
    /\ turn' = IF configured' THEN kept' ELSE 0
    /\ Recounted(FixedItems[Lb] \cup items)

Listens(c) == c \in ToSet(listeners)

\* JSON.parse() of every item of the list.
Parses(items) == items \subseteq Destinations

\* The balancer takes a list, whatever its key, that is not the last one it
\* was given.
Takes(items) == Listens(Lb) /\ previous # items /\ Parses(items)

Throws(items) == Listens(Lb) /\ previous # items /\ ~Parses(items)

\* A list that does not parse is remembered all the same.
Taken(items) ==
    /\ previous' = IF Listens(Lb) THEN items ELSE previous
    /\ IF Takes(items) THEN NewChecker(FixedItems[Lb] \cup items) /\ Merged(items)
       ELSE UNCHANGED <<health, choice>>

Behind(c) ==
    \E i, j \in DOMAIN listeners : i < j /\ listeners[i] = Lb /\ listeners[j] = c

\* Mutant: the lists are parsed before anybody gets them.
GetsParsed(c, items) ==
    IF c = Lb THEN Takes(items) ELSE Listens(c) /\ ~Throws(items)

\* The error that the balancer throws ends the event: who listens behind it
\* does not get the list.
Gets(c, items) ==
    IF c = Lb THEN Takes(items) ELSE Listens(c) /\ ~(Throws(items) /\ Behind(c))

\* The event goes to all who listen, whatever the key that was read.
Deliver ==
    /\ answers # <<>> /\ answers' = Tail(answers)
    /\ LET items == Head(answers).items IN
        /\ data' = [c \in Watchers |-> IF Gets(c, items) THEN FixedItems[c] \cup items ELSE data[c]]
        /\ Taken(items)
    /\ UNCHANGED <<given, lists, watching, listeners, building, reloads>>

-----------------------------------------------------------------------------
(* Reloads.                                                                *)

\* On "api-reload", and on "stop", every watcher stops, those of the gateway
\* too, and removes the listeners of all.  The old routers still answer.
Reload ==
    /\ building = "none" /\ reloads < MaxReloads
    /\ reloads' = reloads + 1
    /\ building' \in {"apis", "gateway"}
    /\ watching' = [c \in Watchers |-> FALSE]
    /\ listeners' = <<>>
    /\ round' = "off" /\ asked' = {} /\ failing' = {} /\ aborted' = {}
    /\ UNCHANGED <<given, lists, data, previous, answers, checks, failed, choice>>

Rebuilt == IF building = "apis" THEN OfApis ELSE present

\* The APIs are loaded in any order, and their watchers listen in that order.  The
\* gateway's filter listens before them, the one of the admin's application after.
Orders(those) ==
    {order \in SetToSeqs(those) : \A i, j, k \in DOMAIN order :
        i < j /\ j < k /\ order[i] \in OfApis /\ order[k] \in OfApis => order[j] \in OfApis}

\* The routers of the APIs are built again; the filters of the gateway are so
\* only when it starts.
Built ==
    /\ building # "none" /\ building' = "none"
    /\ watching' = [c \in Watchers |-> watching[c] \/ c \in Rebuilt]
    /\ \E order \in Orders(Rebuilt) : listeners' = listeners \o order
    /\ data' = [c \in Watchers |-> IF c \in Rebuilt THEN FixedItems[c] ELSE data[c]]
    /\ previous' = None
    /\ NewChecker(FixedItems[Lb]) /\ NewInstances
    /\ UNCHANGED <<given, lists, answers, reloads>>

\* The APIs are not loaded: the old routers stay, and watch nothing.
BuildFails ==
    /\ ~calm /\ building = "apis" /\ building' = "none"
    /\ UNCHANGED <<given, lists, data, watch, answers, reloads, health, choice>>

-----------------------------------------------------------------------------
(* The checks of the balancer's destinations.                              *)

Counts(s) ==
    LET n == checks[s].count + 1 IN
    checks' = [checks EXCEPT ![s] =
        [count |-> IF n > CountCap THEN CountCap ELSE n,
         down  |-> checks[s].down \/ n >= FailCount]]

FailsOnce(s) == failed' = [failed EXCEPT ![s] = IF @ = CountCap THEN @ ELSE @ + 1]

\* At each interval, unless the last round goes on.  A request that was aborted
\* ends at once, long before the next interval.
StartRound ==
    /\ round = "idle" /\ round' = "on" /\ aborted = {}
    /\ asked' = DOMAIN checks
    /\ UNCHANGED <<given, lists, data, watch, answers, building, reloads, checks, failing,
                   aborted, failed, choice>>

\* Mutant: the checker stays in its round.
ResolvesOnly(s) == asked' = asked \ {s} /\ UNCHANGED round

\* The last check that is resolved ends the round.  What was noted before the
\* round is the same objects as what is noted after it, so no change is ever
\* reported, and the destinations that are down stay among the verified ones.
Resolves(s) ==
    /\ asked' = asked \ {s}
    /\ round' = IF asked' = {} THEN "idle" ELSE round

Unresolved == UNCHANGED <<asked, round>>

Waits(s) == s \in asked \ failing

\* Mutant: a check that is fine does not forget the failures before.
CheckedKeeping(s) ==
    /\ Waits(s) /\ Resolves(s)
    /\ checks' = [checks EXCEPT ![s].down = FALSE]
    /\ failed' = [failed EXCEPT ![s] = 0]
    /\ UNCHANGED <<given, lists, data, watch, answers, building, reloads, failing, aborted,
                   choice>>

\* The status is 200 and the answer ends.
Checked(s) ==
    /\ Waits(s) /\ Resolves(s)
    /\ checks' = [checks EXCEPT ![s] = [count |-> 0, down |-> FALSE]]
    /\ failed' = [failed EXCEPT ![s] = 0]
    /\ UNCHANGED <<given, lists, data, watch, answers, building, reloads, failing, aborted,
                   choice>>

\* Another status: the check is resolved only when the destination is down by it.
CheckedWithError(s) ==
    /\ Waits(s)
    /\ Counts(s) /\ FailsOnce(s)
    /\ IF checks[s].count + 1 >= FailCount THEN Resolves(s) /\ UNCHANGED failing
       ELSE failing' = failing \cup {s} /\ Unresolved
    /\ UNCHANGED <<given, lists, data, watch, answers, building, reloads, aborted, choice>>

\* No byte for waitTimeout: the request is aborted, which is an error of the
\* request only if no answer had begun.  It may be one whose status has been
\* counted.
TimesOut(s) ==
    /\ s \in asked /\ Resolves(s)
    /\ Counts(s)
    /\ IF s \in failing THEN UNCHANGED <<failed, aborted>>
       ELSE FailsOnce(s) /\ aborted' \in {aborted, aborted \cup {s}}
    /\ failing' = failing \ {s}
    /\ UNCHANGED <<given, lists, data, watch, answers, building, reloads, choice>>

\* The error of an aborted request is counted as well.
AbortCounts(s) ==
    /\ s \in aborted /\ aborted' = aborted \ {s}
    /\ Counts(s)
    /\ UNCHANGED <<given, lists, data, watch, answers, building, reloads, asked, failing, round,
                   failed, choice>>

\* The request cannot be sent.
CheckFails(s) ==
    /\ Waits(s) /\ Resolves(s)
    /\ Counts(s) /\ FailsOnce(s)
    /\ UNCHANGED <<given, lists, data, watch, answers, building, reloads, failing, aborted,
                   choice>>

-----------------------------------------------------------------------------
(* The choice of a destination.                                            *)

Instances == SetToSeq(data[Lb])

\* History: what all of them have been chosen does not count.
Chooses(s) ==
    LET now == [chosen EXCEPT ![s] = @ + 1] IN
    chosen' = IF \A d \in DOMAIN now : now[d] > 0 THEN [d \in DOMAIN now |-> now[d] - 1] ELSE now

\* Mutant: the counter is not kept.
BalanceFirst ==
    /\ Instances # <<>> /\ (monitored = {} \/ ChoosesWhileChecking)
    /\ Chooses(Instances[1])
    /\ UNCHANGED <<given, lists, data, watch, answers, building, reloads, health, configured,
                   turn, kept, arrays>>

\* Round-robin; the counter is only used modulo the number of destinations.
Balance ==
    /\ Instances # <<>> /\ (monitored = {} \/ ChoosesWhileChecking)
    /\ turn' = (turn + 1) % Len(Instances)
    /\ Chooses(Instances[turn + 1])
    /\ UNCHANGED <<given, lists, data, watch, answers, building, reloads, health, configured,
                   kept, arrays>>

-----------------------------------------------------------------------------
Init ==
    /\ calm \in BOOLEAN
    /\ monitored \in {{}, Checkable}
    /\ present = (IF monitored = {} THEN Watchers ELSE OfApis)
    /\ db \in {those \in [Keys -> SUBSET Items] : \A k \in Keys : those[k] \in {{}, ItemsOf[k]}}
    /\ data = FixedItems
    /\ previous = None
    /\ watching = [c \in Watchers |-> c \in present]
    /\ listeners \in Orders(present)
    /\ answers = <<>>
    /\ building = "none"
    /\ changes = (IF monitored = {} THEN 0 ELSE MaxChanges) /\ reloads = 0
    /\ LET s == FixedItems[Lb] \cap monitored IN
        /\ checks = [i \in s |-> [count |-> 0, down |-> FALSE]]
        /\ asked = s
        /\ round = IF s = {} THEN "off" ELSE "on"
        /\ failed = [i \in s |-> 0]
    /\ failing = {} /\ aborted = {}
    /\ configured = IsConfigured({})
    /\ turn = 0 /\ kept = 0
    /\ chosen = [s \in FixedItems[Lb] |-> 0] /\ arrays = 1

Ends(s) == Checked(s) \/ CheckedWithError(s) \/ TimesOut(s) \/ CheckFails(s)

Next ==
    \/ \E k \in Keys : Change(k)
    \/ \E c \in Watchers : Poll(c)
    \/ PollFails \/ Deliver
    \/ Reload \/ Built \/ BuildFails
    \/ StartRound
    \/ \E s \in DOMAIN checks :
        Checked(s) \/ CheckedWithError(s) \/ TimesOut(s) \/ AbortCounts(s) \/ CheckFails(s)
    \/ Balance

Spec == Init /\ [][Next]_vars

\* Intervals go on, Redis answers, loads end, a request that is sent ends in one
\* way or another, and one that is aborted ends.  One that was answered with an
\* error may never time out: its connection may be closed first.
Fairness ==
    /\ \A c \in Watchers : WF_vars(Poll(c))
    /\ WF_vars(Deliver) /\ WF_vars(Built \/ BuildFails)
    /\ WF_vars(StartRound \/ \E s \in DOMAIN checks : AbortCounts(s))
    /\ WF_vars(\E s \in DOMAIN checks : Waits(s) /\ Ends(s))

FairSpec == Spec /\ Fairness

-----------------------------------------------------------------------------
\* Behind the balancer, with a list that the balancer throws an error for.
Shadowed(c) == Behind(c) /\ ~Parses(db[KeyOf[c]])

\* As long as nothing fails, each watcher goes by the list of its key again and
\* again, although the lists of the others pass through it and some of them make
\* the balancer throw.  There are two that may not: one that for ever listens
\* behind the balancer and has a list that does not parse (it is skipped when the
\* lists alternate), and a filter of the gateway after a reload of the APIs
\* (observeDatabase(), getBlacklistFilter()).
KeepsUp ==
    calm => \A c \in Watchers : c \in present =>
        \/ []<>(data[c] = FixedItems[c] \cup db[KeyOf[c]])
        \/ <>[]Shadowed(c)
        \/ c \in GatewayFilters /\ <>[](building = "none" /\ ~watching[c])

\* The balancer takes another list, and has a new checker.
StartsOver == building' = building /\ previous' # previous /\ Parses(previous')

\* The rounds of checks end and begin again for ever, unless one destination that
\* answered with an error is waited for until the end, or the balancer starts over
\* again and again before a round has ended (HealthCheck.check(), checkServer()).
ChecksGoOn ==
    \/ []<>(round # "on")
    \/ \E s \in Checkable : <>[](s \in failing)
    \/ []<><<round = "on" /\ StartsOver>>_vars

\* A destination is down only if enough of its checks failed in a row; one that
\* is aborted counts twice, so half of failCount is enough.
DownNeedsFailures ==
    \A s \in DOMAIN checks : checks[s].down => 2 * failed[s] >= FailCount

\* While the destinations are the same, none is ever chosen more often than
\* another by more than the number of arrays that they were in: the balancer
\* starts over with each list of its own that follows one of another key, and
\* that favours a destination once, no matter in which of its turns it happens
\* or how the configured array takes up its counter (RoundRobinBalancer.balance()).
RoundsAreFair ==
    \A s, d \in DOMAIN chosen : chosen[s] - chosen[d] <= arrays
=============================================================================
