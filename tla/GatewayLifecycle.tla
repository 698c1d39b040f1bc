-------------------------- MODULE GatewayLifecycle --------------------------
(***************************************************************************)
(* How a gateway process applies a change of its own configuration         *)
(* (Gateway.updateConfig with needsReload): it drops the configuration it  *)
(* has, reads the new one, stops its admin and API servers, builds a new   *)
(* express application and listens again, while changes of the APIs load   *)
(* routers into whatever application is current.  Nothing serializes these *)
(* jobs.  One process that runs alone (Application.standalone).            *)
(***************************************************************************)
EXTENDS Integers, Sequences, FiniteSets

CONSTANTS
    MaxConfigs,     \* bound on the changes of the gateway's configuration
    MaxApiChanges,  \* bound on the changes of the APIs
    MaxFailures,    \* bound on the commands Redis answers with an error
    MaxJobs         \* bound on the jobs under way at once

ASSUME LifecycleAssumption ==
    MaxConfigs \in Nat /\ MaxApiChanges \in Nat /\ MaxFailures \in Nat /\ MaxJobs \in Nat \ {0}

VARIABLES
    scope,      \* "serial", "overlapping" or "failing": it never changes
    saved,      \* {config}:gateway in Redis: its version, 0 when it was removed
    changes,    \* changes of the gateway's configuration so far
    apis,       \* the version of the registered APIs
    failures,   \* commands that failed so far
    events,     \* CONFIG_UPDATED messages: whether each needs a reload
    step,       \* where each job stands
    cmds,       \* jobs that wait for Redis to execute their command
    replies,    \* answers the process has not handled
    config,     \* config.gateway: the versions merged in it, {} when undefined
    app,        \* this.app: the number of the application
    mounted,    \* the applications that have the APIs' handlers
    routes,     \* apiRoutes: the version of the routers, 0 when there are none
    listening,  \* the application the API port is bound to, 0 when it is free
    admin,      \* whether the admin port is bound
    dead,       \* an 'error' event nobody listens to has ended the process
    overlapped, \* a restart began while another was under way
    stale       \* something failed since the last restart began

vars == <<scope, saved, changes, apis, failures, events, step, cmds, replies, config,
          app, mounted, routes, listening, admin, dead, overlapped, stale>>

stores == <<saved, changes, apis>>
servers == <<app, mounted, routes, listening, admin, dead>>

Jobs == 1..MaxJobs
Idle == "idle"
Asking == {"reading", "saving", "listing", "listingApis"}
Restarting == {"reading", "saving", "closingAdmin", "closing", "installing", "listing"}
Reloading == {"installingApis", "listingApis"}

\* The configuration the gateway saves when it finds none, and the initial one.
Default == MaxConfigs + 1
Versions == 0..Default

\* The answer to a command that failed.
Error == -1

Busy == {j \in Jobs : step[j] # Idle}
Settled == Busy = {} /\ events = <<>>

TypeOK ==
    /\ scope \in {"serial", "overlapping", "failing"}
    /\ saved \in Versions /\ changes \in 0..MaxConfigs
    /\ apis \in 1..(MaxApiChanges + 1) /\ failures \in 0..MaxFailures
    /\ events \in Seq(BOOLEAN)
    /\ step \in [Jobs -> {Idle} \cup Restarting \cup Reloading]
    /\ cmds \in Seq(Jobs)
    /\ replies \in Seq([job : Jobs, value : {Error} \cup Nat])
    /\ config \subseteq Versions /\ app \in Nat \ {0} /\ mounted \subseteq 1..app
    /\ routes \in 0..apis /\ listening \in 0..app
    /\ admin \in BOOLEAN /\ dead \in BOOLEAN /\ overlapped \in BOOLEAN /\ stale \in BOOLEAN

-----------------------------------------------------------------------------
(* The admin API.                                                          *)

\* A configuration is saved or removed: SET or DEL, and PUBLISH, in one MULTI.
ChangeConfig(v) ==
    /\ changes < MaxConfigs /\ (scope = "serial" => Settled)
    /\ v = 0 => saved # 0
    /\ changes' = changes + 1 /\ saved' = v
    /\ events' = Append(events, TRUE)
    /\ UNCHANGED <<scope, apis, failures, step, cmds, replies, config, servers, overlapped, stale>>

\* An API is created, updated or removed.
ChangeApis ==
    /\ apis <= MaxApiChanges
    /\ apis' = apis + 1
    /\ events' = Append(events, FALSE)
    /\ UNCHANGED <<scope, saved, changes, failures, step, cmds, replies, config, servers,
                   overlapped, stale>>

-----------------------------------------------------------------------------
(* Servers.  Each operator says what one turn of the event loop leaves.    *)

\* Mutant: the routes are left for the next application.
KeepRoutes == UNCHANGED routes

\* ApiPipeline.clearRoutes().
ClearRoutes == routes' = 0

Send(j) == cmds' = Append(cmds, j)
Goes(j, s) == step' = [step EXCEPT ![j] = s]

\* initialize(): a new application, for which the configuration is needed.
\* When another job is reading it, config.gateway is undefined: a TypeError,
\* and the restart ends with no server.
Initialize(j) ==
    /\ ClearRoutes
    /\ app' = app + 1
    /\ Goes(j, IF config' = {} THEN Idle ELSE "installing")
    /\ UNCHANGED <<mounted, dead>>

\* Mutant: there must be a server to stop.
StopRejecting(j) ==
    \/ /\ listening # 0 /\ Goes(j, "closing")
       /\ listening' = 0
       /\ UNCHANGED <<app, mounted, routes, dead>>
    \/ /\ listening = 0 /\ Goes(j, Idle)
       /\ UNCHANGED <<app, mounted, routes, listening, dead>>

\* stop(): the port is free at once, the rest follows the last connection.
Stop(j) ==
    \/ /\ listening # 0 /\ Goes(j, "closing")
       /\ listening' = 0
       /\ UNCHANGED <<app, mounted, routes, dead>>
    \/ listening = 0 /\ Initialize(j) /\ UNCHANGED listening

\* Mutant: the admin server is left as it is.
StopAdminNot(j) == Stop(j) /\ UNCHANGED admin

\* Mutant: the restart begins by taking the routes away.
StopAdminClearing(j) ==
    \/ /\ admin /\ Goes(j, "closingAdmin")
       /\ admin' = FALSE /\ ClearRoutes
       /\ UNCHANGED <<app, mounted, listening, dead>>
    \/ ~admin /\ Stop(j) /\ UNCHANGED admin

\* restart(): stopAdmin() first.
StopAdmin(j) ==
    \/ /\ admin /\ Goes(j, "closingAdmin")
       /\ admin' = FALSE
       /\ UNCHANGED <<app, mounted, routes, listening, dead>>
    \/ ~admin /\ Stop(j) /\ UNCHANGED admin

\* start() and startAdmin(): two servers on one port are EADDRINUSE, an
\* 'error' event without a listener.
Start ==
    IF listening # 0 \/ admin
    THEN dead' = TRUE /\ UNCHANGED <<listening, admin>>
    ELSE listening' = app /\ admin' = TRUE /\ UNCHANGED dead

\* The handlers are mounted in the application that is current when no router
\* of the API exists.
Load(version) ==
    /\ mounted' = IF routes = 0 THEN mounted \cup {app} ELSE mounted
    /\ routes' = version
    /\ UNCHANGED app

-----------------------------------------------------------------------------
(* Jobs.                                                                   *)

Free == CHOOSE j \in Jobs : step[j] = Idle
Live == ~dead /\ UNCHANGED <<scope, apis, changes>>

\* Mutant: the configuration is dropped once the new one is there.
DropLate == UNCHANGED config

\* Configuration.reload(): config is null, then the server's file, which says
\* nothing of the gateway; the database is read a timer later.
Drop == config' = {}

StartReload ==
    /\ Live /\ events # <<>> /\ Head(events) /\ Busy # Jobs
    /\ events' = Tail(events)
    /\ Drop
    /\ Goes(Free, "reading") /\ Send(Free)
    /\ overlapped' = (overlapped \/ \E j \in Jobs : step[j] \in Restarting)
    /\ stale' = FALSE
    /\ UNCHANGED <<saved, failures, replies, servers>>

\* updateConfig() without needsReload: the middlewares are installed first.
StartApiJob ==
    /\ Live /\ events # <<>> /\ ~Head(events) /\ Busy # Jobs
    /\ events' = Tail(events)
    /\ Goes(Free, "installingApis")
    /\ UNCHANGED <<saved, failures, cmds, replies, config, servers, overlapped, stale>>

\* installAllMiddlewares() resolves: the APIs are read.  A restart first builds the
\* filters of the gateway, which are in config.gateway.
Installed(j) ==
    /\ Live /\ step[j] \in {"installing", "installingApis"}
    /\ step[j] = "installing" => config # {}
    /\ Goes(j, IF step[j] = "installing" THEN "listing" ELSE "listingApis")
    /\ Send(j)
    /\ UNCHANGED <<saved, failures, events, replies, config, servers, overlapped, stale>>

\* Another job has dropped it: a TypeError, and the restart ends with no server.
FiltersFail(j) ==
    /\ Live /\ step[j] = "installing" /\ config = {}
    /\ Goes(j, Idle)
    /\ UNCHANGED <<saved, failures, events, cmds, replies, config, servers, overlapped, stale>>

Answer(value) ==
    /\ cmds' = Tail(cmds)
    /\ replies' = Append(replies, [job |-> Head(cmds), value |-> value])

RedisExec ==
    /\ Live /\ cmds # <<>>
    /\ CASE step[Head(cmds)] = "reading" -> Answer(saved) /\ UNCHANGED <<saved, events>>
         [] step[Head(cmds)] = "saving" -> /\ Answer(Default)
                                           /\ saved' = Default
                                           /\ events' = Append(events, TRUE)
         [] OTHER -> Answer(apis) /\ UNCHANGED <<saved, events>>
    /\ UNCHANGED <<failures, step, config, servers, overlapped, stale>>

\* Redis answers with an error.
RedisFails ==
    /\ Live /\ cmds # <<>> /\ scope = "failing" /\ failures < MaxFailures
    /\ failures' = failures + 1
    /\ Answer(Error)
    /\ UNCHANGED <<saved, events, step, config, servers, overlapped, stale>>

Reply == Head(replies)
Replied(j, s) ==
    /\ Live /\ replies # <<>> /\ Reply.job = j /\ step[j] \in s
    /\ replies' = Tail(replies)
    /\ UNCHANGED <<saved, failures, events, overlapped>>

\* getConfigFromDB(): what was read goes over what config.gateway holds, and
\* the restart begins.
ConfigRead(j) ==
    /\ Replied(j, {"reading"}) /\ Reply.value \notin {Error, 0}
    /\ config' = config \cup {Reply.value}
    /\ StopAdmin(j)
    /\ UNCHANGED <<cmds, stale>>

\* There is none and no other job has set it: the default one is saved, which
\* publishes an event.
ConfigMissing(j) ==
    /\ Replied(j, {"reading"}) /\ Reply.value = 0
    /\ \/ /\ config = {} /\ config' = {Default}
          /\ Goes(j, "saving") /\ Send(j)
          /\ UNCHANGED servers
       \/ config # {} /\ UNCHANGED <<config, cmds>> /\ StopAdmin(j)
    /\ UNCHANGED stale

DefaultSaved(j) ==
    /\ Replied(j, {"saving"}) /\ Reply.value # Error
    /\ UNCHANGED <<cmds, config, stale>>
    /\ StopAdmin(j)

\* The last connection of the admin server ends.
AdminClosed(j) ==
    /\ Live /\ step[j] = "closingAdmin"
    /\ UNCHANGED config /\ Stop(j)
    /\ UNCHANGED <<saved, failures, events, cmds, replies, admin, overlapped, stale>>

\* The last connection of the API server ends.
Closed(j) ==
    /\ Live /\ step[j] = "closing"
    /\ UNCHANGED config /\ Initialize(j)
    /\ UNCHANGED <<saved, failures, events, cmds, replies, listening, admin, overlapped, stale>>

\* loadApis() needs config.gateway too.
ApisRead(j) ==
    /\ Replied(j, {"listing", "listingApis"}) /\ Reply.value # Error
    /\ Goes(j, Idle)
    /\ IF config = {} THEN UNCHANGED servers
       ELSE /\ Load(Reply.value)
            /\ IF step[j] = "listing" THEN Start ELSE UNCHANGED <<listening, admin, dead>>
    /\ UNCHANGED <<cmds, config, stale>>

\* The job is given up, and the error logged.
JobFails(j) ==
    /\ Replied(j, Restarting \cup Reloading) /\ Reply.value = Error
    /\ Goes(j, Idle)
    /\ stale' = TRUE
    /\ UNCHANGED <<cmds, config, servers>>

-----------------------------------------------------------------------------
Init ==
    /\ scope \in {"serial", "overlapping", "failing"}
    /\ saved = Default /\ changes = 0 /\ apis = 1 /\ failures = 0
    /\ events = <<>> /\ step = [j \in Jobs |-> Idle] /\ cmds = <<>> /\ replies = <<>>
    /\ config = {Default} /\ app = 1 /\ mounted = {1} /\ routes = 1
    /\ listening = 1 /\ admin = TRUE
    /\ dead = FALSE /\ overlapped = FALSE /\ stale = FALSE

Job(j) ==
    \/ Installed(j) \/ FiltersFail(j) \/ ConfigRead(j) \/ ConfigMissing(j) \/ DefaultSaved(j)
    \/ AdminClosed(j) \/ Closed(j) \/ ApisRead(j) \/ JobFails(j)

Next ==
    \/ ChangeConfig(changes + 1) \/ ChangeConfig(0) \/ ChangeApis
    \/ StartReload \/ StartApiJob \/ RedisExec \/ RedisFails
    \/ \E j \in Jobs : Job(j)

Spec == Init /\ [][Next]_vars

\* Redis executes what it is sent, every callback runs, connections end and
\* an installation ends; nobody need change anything.
Fairness ==
    /\ WF_vars(StartReload) /\ WF_vars(StartApiJob) /\ WF_vars(RedisExec)
    /\ \A j \in Jobs : WF_vars(Job(j))

FairSpec == Spec /\ Fairness

-----------------------------------------------------------------------------
Routed == routes # 0 /\ listening \in mounted

Serves == Routed /\ admin /\ routes = apis /\ saved \in config

\* Whoever connects to the gateway finds the APIs: a restart that no other one
\* overlaps frees the port before it takes the routes away and binds it after
\* they are loaded, whatever API changes come in between (Gateway.restart()).
RoutedWhileListening == ~overlapped /\ listening # 0 => Routed

\* A configuration is read whole: only reloads that overlap leave settings of
\* an older one beside it (Configuration.getConfigFromDB()).
MixedOnlyOverlapping == Cardinality(config) > 1 => overlapped

\* A change of the configuration ends the process only when another one comes
\* before its restart is over (Gateway.restart()).
DiesOnlyOverlapping == dead => overlapped

\* When nothing fails, a process that survives comes to serve the last APIs
\* under the last configuration, even though restarts overlap and find the
\* configuration gone that another one is reading (Gateway.updateConfig()).
Applies == scope # "failing" ~> [](dead \/ Serves)

\* A process whose restart failed, which may have neither a server nor a
\* configuration, is repaired by the next change of it (Gateway.stop()).
Repairs == <>[](dead \/ stale \/ Serves)

\* "The gateway can be configured remotelly. And no restart is needed": a
\* change of the configuration does not end the process (Gateway.start()).
SurvivesChanges == ~dead
=============================================================================
