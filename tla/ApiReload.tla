----------------------------- MODULE ApiReload -----------------------------
(***************************************************************************)
(* How a change of the APIs reaches the routes of every gateway process.   *)
(* The admin API writes the registry in Redis and publishes CONFIG_UPDATED *)
(* with it; every process that receives the event starts a job: it takes   *)
(* part in the installation of the middlewares, reads all the APIs and     *)
(* builds their routers (Gateway.updateConfig).  Jobs are not serialized.  *)
(***************************************************************************)
EXTENDS Integers, Sequences, FiniteSets

CONSTANTS
    Procs,          \* gateway processes
    Apis,           \* API ids
    Paths,          \* the paths an API may be configured with
    Disruptions,    \* what else may happen: {"loadError", "crash"} or less
    MaxUpdates,     \* bound on the changes of the registry
    MaxJobs         \* bound on the jobs of a process under way at once

ASSUME ReloadAssumption ==
    /\ Disruptions \subseteq {"loadError", "crash"}
    /\ MaxUpdates \in Nat /\ MaxJobs \in Nat \ {0}
    /\ Paths # {}

VARIABLES
    registry,   \* the hash of the APIs: the version of each, 0 when absent
    clock,      \* changes of the registry so far
    pathOf,     \* the path each saved version has, in the order of the changes
    events,     \* CONFIG_UPDATED events each process has not handled
    subscribed, \* whether the process has subscribed to them
    installing, \* jobs installing middlewares or waiting for them
    cmds,       \* commands each process sent that Redis has not executed
    replies,    \* answers the process has not handled
    routes,     \* apiRoutes: the version of each API that is routed
    mounted,    \* the server's handlers: the API each stands for, and its path
    calm        \* nothing goes wrong in this behaviour: it never changes

vars == <<registry, clock, pathOf, events, subscribed, installing, cmds, replies,
          routes, mounted, calm>>

MayFail(kind) == ~calm /\ kind \in Disruptions

\* An API's version is the time of the change that saved it.
Version == 0..MaxUpdates

Config == [Apis -> Version]

NoApis == [a \in Apis |-> 0]

Reply == [op : {"lock"}] \cup [op : {"list"}, apis : Config]

TypeOK ==
    /\ registry \in Config
    /\ clock \in Version
    /\ calm \in BOOLEAN
    /\ events \in [Procs -> 0..MaxUpdates]
    /\ subscribed \in [Procs -> BOOLEAN]
    /\ installing \in [Procs -> 0..MaxJobs]
    /\ cmds \in [Procs -> Seq({"lock", "list"})]
    /\ replies \in [Procs -> Seq(Reply)]
    /\ routes \in [Procs -> Config]
    /\ pathOf \in Seq(Paths) /\ Len(pathOf) = clock
    /\ mounted \in [Procs -> SUBSET (Apis \X Paths)]

Jobs(p) == installing[p] + Len(cmds[p]) + Len(replies[p])

-----------------------------------------------------------------------------
(* The registry and its events.                                            *)

Publish == events' = [p \in Procs |-> IF subscribed[p] THEN events[p] + 1 ELSE events[p]]

Change(a, v, x) ==
    /\ clock < MaxUpdates
    /\ clock' = clock + 1
    /\ pathOf' = Append(pathOf, x)
    /\ registry' = [registry EXCEPT ![a] = v]
    /\ Publish
    /\ UNCHANGED <<subscribed, installing, cmds, replies, routes, mounted, calm>>

\* RedisApiService.create() and update(): HMSET and PUBLISH in one MULTI.
Save(a, x) == Change(a, clock + 1, x)

\* RedisApiService.remove().
Delete(a) == registry[a] # 0 /\ Change(a, 0, CHOOSE x \in Paths : TRUE)

-----------------------------------------------------------------------------
(* The jobs of a process.                                                  *)

\* Mutant: the APIs are read at once, without installing the middlewares.
BeginReading(p) ==
    /\ cmds' = [cmds EXCEPT ![p] = Append(@, "list")]
    /\ UNCHANGED installing

\* A job begins with the SETNX of installAllMiddlewares().
Begin(p) ==
    /\ cmds' = [cmds EXCEPT ![p] = Append(@, "lock")]
    /\ UNCHANGED installing

\* Mutant: an event that finds a job under way is taken for served.
StartJobOnce(p) ==
    /\ events[p] > 0
    /\ Jobs(p) < MaxJobs
    /\ events' = [events EXCEPT ![p] = @ - 1]
    /\ IF Jobs(p) = 0 THEN Begin(p) ELSE UNCHANGED <<cmds, installing>>
    /\ UNCHANGED <<registry, clock, pathOf, subscribed, replies, routes, mounted, calm>>

\* CONFIG_UPDATED without needsReload: updateConfig().
StartJob(p) ==
    /\ events[p] > 0
    /\ Jobs(p) < MaxJobs
    /\ events' = [events EXCEPT ![p] = @ - 1]
    /\ Begin(p)
    /\ UNCHANGED <<registry, clock, pathOf, subscribed, replies, routes, mounted, calm>>

\* The middlewares are installed, by this process or another: reloadApis()
\* reads the APIs (HGETALL).
Installed(p) ==
    /\ installing[p] > 0
    /\ installing' = [installing EXCEPT ![p] = @ - 1]
    /\ cmds' = [cmds EXCEPT ![p] = Append(@, "list")]
    /\ UNCHANGED <<registry, clock, pathOf, events, subscribed, replies, routes, mounted, calm>>

\* installAllMiddlewares() rejects: the change is not applied.
InstallFails(p) ==
    /\ MayFail("loadError")
    /\ installing[p] > 0 /\ subscribed[p]
    /\ installing' = [installing EXCEPT ![p] = @ - 1]
    /\ UNCHANGED <<registry, clock, pathOf, events, subscribed, cmds, replies, routes, mounted, calm>>

RedisExec(p) ==
    /\ cmds[p] # <<>>
    /\ cmds' = [cmds EXCEPT ![p] = Tail(@)]
    /\ replies' = [replies EXCEPT ![p] = Append(@,
           IF Head(cmds[p]) = "lock" THEN [op |-> "lock"]
                                     ELSE [op |-> "list", apis |-> registry])]
    /\ UNCHANGED <<registry, clock, pathOf, events, subscribed, installing, routes, mounted, calm>>

\* The jobs whose answers are handled together load their APIs in lock-step,
\* and share installedApis, which the last of them to start reset; lists[i] is
\* what the i-th answer lists, for those that are lists.  A job that has no API
\* to load removes all the routes before the others set any.
Start(old, lists) == IF \E i \in DOMAIN lists : lists[i] = NoApis THEN NoApis ELSE old

\* The jobs that set the route of an API: fails[i] are the APIs job i cannot load.
Loaded(lists, fails, a) ==
    {i \in DOMAIN lists : lists[i][a] # 0 /\ a \notin fails[i]}

\* Mutant: an API is put in installedApis only once its router is built.
RemovedUnbuilt(lists, fails, a) == Loaded(lists, fails, a) = {}

\* removeOldAPIs() of a job all of whose APIs loaded, if it does not find the
\* API in installedApis, where a failed load has put it too.
Removed(lists, fails, a) ==
    /\ \E i \in DOMAIN lists : fails[i] = {}
    /\ \A i \in DOMAIN lists : lists[i][a] = 0

\* The job whose HGETALL was executed last sets its routes last.
Load(old, lists, fails) ==
    [a \in Apis |->
        LET by == Loaded(lists, fails, a)
        IN  IF by # {} THEN lists[CHOOSE i \in by : \A j \in by : j <= i][a]
            ELSE IF Removed(lists, fails, a) THEN 0
            ELSE Start(old, lists)[a]]

\* The first job to set the route of an API that has none mounts a handler at
\* the path it read; the handlers stay when routes change and go.
Mounts(old, lists, fails) ==
    {<<a, pathOf[lists[CHOOSE i \in Loaded(lists, fails, a) :
                          \A j \in Loaded(lists, fails, a) : i <= j][a]]>> :
        a \in {b \in Apis : Start(old, lists)[b] = 0 /\ Loaded(lists, fails, b) # {}}}

\* Which APIs each list may fail to load: none unless that is modelled, and
\* not while the process boots, which then exits (Crash).
Failures(p, lists) ==
    {f \in [DOMAIN lists -> SUBSET Apis] :
        /\ \A i \in DOMAIN lists : \A a \in f[i] : lists[i][a] # 0
        /\ ~MayFail("loadError") \/ ~subscribed[p] => \A i \in DOMAIN lists : f[i] = {}}

\* The first n answers arrive in one turn of the event loop.
HandleReplies(p, n) ==
    LET read  == {i \in 1..n : replies[p][i].op = "list"}
        lists == [i \in read |-> replies[p][i].apis]
    IN
    /\ n <= Len(replies[p])
    /\ replies' = [replies EXCEPT ![p] = SubSeq(@, n + 1, Len(@))]
    /\ installing' = [installing EXCEPT ![p] = @ + (n - Cardinality(read))]
    /\ \E fails \in Failures(p, lists) :
        /\ routes' = [routes EXCEPT ![p] = Load(@, lists, fails)]
        /\ mounted' = [mounted EXCEPT ![p] = @ \cup Mounts(routes[p], lists, fails)]
    /\ UNCHANGED <<registry, clock, pathOf, events, subscribed, cmds, calm>>

-----------------------------------------------------------------------------
(* Restarts.                                                               *)

\* The process exits and another one starts: Gateway.initialize() installs
\* the middlewares and loads the APIs before it subscribes.
Crash(p) ==
    /\ MayFail("crash")
    /\ subscribed' = [subscribed EXCEPT ![p] = FALSE]
    /\ events' = [events EXCEPT ![p] = 0]
    /\ installing' = [installing EXCEPT ![p] = 0]
    /\ cmds' = [cmds EXCEPT ![p] = <<"lock">>]
    /\ replies' = [replies EXCEPT ![p] = <<>>]
    /\ routes' = [routes EXCEPT ![p] = NoApis]
    /\ mounted' = [mounted EXCEPT ![p] = {}]
    /\ UNCHANGED <<registry, clock, pathOf, calm>>

\* ConfigService.subscribeEvents(): PSUBSCRIBE after the first load.
Subscribe(p) ==
    /\ ~subscribed[p] /\ Jobs(p) = 0
    /\ subscribed' = [subscribed EXCEPT ![p] = TRUE]
    /\ UNCHANGED <<registry, clock, pathOf, events, installing, cmds, replies, routes, mounted, calm>>

-----------------------------------------------------------------------------
Init ==
    /\ registry = NoApis
    /\ clock = 0
    /\ calm \in BOOLEAN
    /\ events = [p \in Procs |-> 0]
    /\ subscribed = [p \in Procs |-> TRUE]
    /\ installing = [p \in Procs |-> 0]
    /\ cmds = [p \in Procs |-> <<>>]
    /\ replies = [p \in Procs |-> <<>>]
    /\ routes = [p \in Procs |-> NoApis]
    /\ pathOf = <<>>
    /\ mounted = [p \in Procs |-> {}]

Next ==
    \/ \E a \in Apis : Delete(a) \/ \E x \in Paths : Save(a, x)
    \/ \E p \in Procs :
        \/ StartJob(p) \/ Installed(p) \/ InstallFails(p) \/ RedisExec(p)
        \/ \E n \in 1..MaxJobs : HandleReplies(p, n)
        \/ Crash(p) \/ Subscribe(p)

Spec == Init /\ [][Next]_vars

\* Redis answers, an installation ends (its lock expires), and
\* the event loop runs every callback; nobody need change the registry.
Fairness ==
    \A p \in Procs :
        /\ WF_vars(StartJob(p)) /\ WF_vars(Installed(p)) /\ WF_vars(RedisExec(p))
        /\ WF_vars(\E n \in 1..MaxJobs : HandleReplies(p, n)) /\ WF_vars(Subscribe(p))

FairSpec == Spec /\ Fairness

-----------------------------------------------------------------------------
Settled(p) == subscribed[p] /\ events[p] = 0 /\ Jobs(p) = 0

\* When nothing fails, a process that handled every event routes exactly the
\* registered APIs, although its jobs overlap, share installedApis and may
\* each read something else (ApiPipeline.loadApis()).
SettledRoutesMatch ==
    calm => \A p \in Procs : Settled(p) => routes[p] = registry

\* "Any API configuration can be hot changed": such a process answers for each
\* API at the path it is registered with (ApiPipeline.loadValidApi()).
AnsweredAtItsPath ==
    calm => \A p \in Procs : Settled(p) =>
        \A a \in Apis : registry[a] # 0 => <<a, pathOf[registry[a]]>> \in mounted[p]

\* An API routed in its registered version is not taken away, not even for
\* the time of another job or when its own load fails, unless its process
\* restarts (ApiPipeline.removeOldAPIs()).
ServedStaysServed ==
    [][\A p \in Procs, a \in Apis :
         routes[p][a] # 0 /\ routes[p][a] = registry[a] /\ subscribed'[p]
            => routes'[p][a] # 0]_vars

\* "All configurations are propagated to other cluster nodes": once nobody
\* changes the registry, every process comes to route it and stays there
\* (Gateway.updateConfig()).
Propagates == calm ~> [](\A p \in Procs : routes[p] = registry)
=============================================================================
