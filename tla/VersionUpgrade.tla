--------------------------- MODULE VersionUpgrade ---------------------------
(***************************************************************************)
(* The start of the gateway processes that share a Redis: each compares    *)
(* the version registered there with its own, and one of them rewrites an  *)
(* older configuration while the others wait (utils/upgrade.ts, with its   *)
(* callers in application.ts).  The lock is the version key itself: GETSET *)
(* puts "0.0.0", Database.UPDATING, in it.                                 *)
(***************************************************************************)
CONSTANTS
    Procs,          \* processes (cluster workers, or hosts)
    Disruptions     \* what may go wrong (see DisruptionKinds)

DisruptionKinds == {"configError", "updateError", "startError", "redisError", "crash"}

ASSUME DisruptionsAssumption == Disruptions \subseteq DisruptionKinds

VARIABLES
    pc,         \* how far each process is in Application.startGateway()
    mode,       \* whether it got its configuration at first ("run"), failed
                \* to ("recover"), or got it with reload() ("rerun")
    version,    \* the registered version, relative to the running one
    stored,     \* the format of the configuration in Redis
    calm        \* nothing goes wrong in this behaviour: it never changes

vars == <<pc, mode, version, stored, calm>>

MayFail(kind) == ~calm /\ kind \in Disruptions

\* Before 3.0.0 ("none", "old") the configuration has the old format.
Versions == {"none", "old", "recent", "current", "updating"}

Before3 == {"none", "old"}

Upgrading == {"migrating", "writing", "written"}
Serving == {"started", "running"}
Checked == {"reloading", "starting"} \cup Serving

TypeOK ==
    /\ pc \in [Procs -> {"down", "loading", "check", "getset", "waiting", "hung"}
                            \cup Upgrading \cup Checked]
    /\ mode \in [Procs -> {"run", "recover", "rerun"}]
    /\ version \in Versions
    /\ stored \in {"old", "mixed", "new"}
    /\ calm \in BOOLEAN

Goto(p, l) == pc' = [pc EXCEPT ![p] = l]

\* The promise of checkGatewayVersion() resolves.
Passed(p) == IF mode[p] = "recover" THEN "reloading" ELSE "starting"

-----------------------------------------------------------------------------
\* Configuration.load() emits 'load', or 'error'.
Load(p) ==
    /\ pc[p] = "loading"
    /\ \/ mode' = [mode EXCEPT ![p] = "run"]
       \/ MayFail("configError") /\ mode' = [mode EXCEPT ![p] = "recover"]
    /\ Goto(p, "check")
    /\ UNCHANGED <<version, stored, calm>>

\* checkGatewayVersion(): the running version, or an older one to upgrade.
Check(p) ==
    /\ pc[p] = "check"
    /\ Goto(p, IF version = "current" THEN Passed(p) ELSE "getset")
    /\ UNCHANGED <<mode, version, stored, calm>>

\* Mutant: the version is read, and replaced only by a later command.
GetThenSet(p) ==
    /\ pc[p] = "getset"
    /\ version' = version
    /\ Goto(p, CASE version = "updating" -> "waiting"
                 [] version \in Before3  -> "migrating"
                 [] OTHER                -> Passed(p))
    /\ UNCHANGED <<mode, stored, calm>>

\* updateGatewayConfiguration(): GETSET elects who updates.  update() has
\* nothing to do, and registers nothing, from 3.0.0 on.
GetSet(p) ==
    /\ pc[p] = "getset"
    /\ version' = "updating"
    /\ Goto(p, CASE version = "updating" -> "waiting"
                 [] version \in Before3  -> "migrating"
                 [] OTHER                -> Passed(p))
    /\ UNCHANGED <<mode, stored, calm>>

\* Mutant: the version is registered before the configuration is written.
BeginWriteRegistered(p) ==
    /\ pc[p] = "migrating"
    /\ Goto(p, "writing")
    /\ stored' = "mixed"
    /\ version' = "current"
    /\ UNCHANGED <<mode, calm>>

\* update(): service.get() has been read; service.set() writes the APIs and
\* the gateway's configuration one by one.
BeginWrite(p) ==
    /\ pc[p] = "migrating"
    /\ Goto(p, "writing")
    /\ stored' = "mixed"
    /\ UNCHANGED <<mode, version, calm>>

EndWrite(p) ==
    /\ pc[p] = "writing"
    /\ Goto(p, "written")
    /\ stored' = "new"
    /\ UNCHANGED <<mode, version, calm>>

\* registerGatewayVersion() at the end of update().
RegisterUpdate(p) ==
    /\ pc[p] = "written"
    /\ Goto(p, Passed(p))
    /\ version' = "current"
    /\ UNCHANGED <<mode, stored, calm>>

\* Reading or writing the configuration fails: startGateway() rejects and
\* the process exits.
UpdateFails(p) ==
    /\ MayFail("updateError")
    /\ pc[p] \in Upgrading
    /\ Goto(p, "down")
    /\ UNCHANGED <<mode, version, stored, calm>>

\* wait(): the version is read every 100 ms until it is no longer "0.0.0".
\* The count of the attempts never grows (wait(count++)).
Poll(p) ==
    /\ pc[p] = "waiting"
    /\ version # "updating"
    /\ Goto(p, Passed(p))
    /\ UNCHANGED <<mode, version, stored, calm>>

\* A command of checkGatewayVersion() or of the last registration rejects:
\* the process exits.  In wait() nothing settles the promise.
RedisFails(p) ==
    /\ MayFail("redisError")
    /\ \/ pc[p] \in {"check", "getset", "started"} /\ Goto(p, "down")
       \/ pc[p] = "waiting" /\ Goto(p, "hung")
    /\ UNCHANGED <<mode, version, stored, calm>>

\* config.reload() after an 'error': runGateway() checks the version again.
Reload(p) ==
    /\ pc[p] = "reloading"
    /\ \/ Goto(p, "check") /\ mode' = [mode EXCEPT ![p] = "rerun"]
       \/ MayFail("configError") /\ Goto(p, "down") /\ UNCHANGED mode
    /\ UNCHANGED <<version, stored, calm>>

\* gateway.start() and startAdmin().  reload() does not set isLoaded, so
\* the gateway cannot read its configuration after it, and does not start.
Start(p) ==
    /\ pc[p] = "starting"
    /\ \/ mode[p] # "rerun" /\ Goto(p, "started")
       \/ mode[p] = "rerun" /\ Goto(p, "down")
       \/ MayFail("startError") /\ Goto(p, "down")
    /\ UNCHANGED <<mode, version, stored, calm>>

\* Mutant: runGateway() registers no version.
RegisterNothing(p) ==
    /\ pc[p] = "started"
    /\ Goto(p, "running")
    /\ UNCHANGED <<mode, version, stored, calm>>

\* registerGatewayVersion() at the end of runGateway().
Register(p) ==
    /\ pc[p] = "started"
    /\ Goto(p, "running")
    /\ version' = "current"
    /\ UNCHANGED <<mode, stored, calm>>

\* The master forks a worker that exited again.
Refork(p) ==
    /\ pc[p] = "down"
    /\ Goto(p, "loading")
    /\ UNCHANGED <<mode, version, stored, calm>>

Crash(p) ==
    /\ MayFail("crash")
    /\ pc[p] # "down"
    /\ Goto(p, "down")
    /\ UNCHANGED <<mode, version, stored, calm>>

-----------------------------------------------------------------------------
\* A configuration was stored by some earlier version, or by this one.
Init ==
    /\ pc = [p \in Procs |-> "loading"]
    /\ mode = [p \in Procs |-> "run"]
    /\ version \in Versions \ {"updating"}
    /\ calm \in BOOLEAN
    /\ stored = IF version \in Before3 THEN "old" ELSE "new"

Step(p) ==
    \/ Load(p) \/ Check(p) \/ GetSet(p) \/ BeginWrite(p) \/ EndWrite(p) \/ RegisterUpdate(p)
    \/ Poll(p) \/ Reload(p) \/ Start(p) \/ Register(p) \/ Refork(p)

Next == \E p \in Procs : Step(p) \/ UpdateFails(p) \/ RedisFails(p) \/ Crash(p)

Spec == Init /\ [][Next]_vars

\* Nothing stops a process from going on.
FairSpec == Spec /\ \A p \in Procs : WF_vars(Step(p))

-----------------------------------------------------------------------------
\* The configuration is migrated by one process at a time, and never again
\* once it has the newer format, which a second migration would spoil.
MigratesOnce ==
    /\ \A p, q \in Procs : pc[p] \in Upgrading /\ pc[q] \in Upgrading => p = q
    /\ \A p \in Procs : pc[p] = "migrating" => stored = "old"

\* The upgrade as a whole: whoever serves, serves the newer format.
M == INSTANCE Migration WITH serving <- {p \in Procs : pc[p] \in Serving}

ImplementsMigration == M!Spec

\* Whatever is registered, and in whatever order the processes ask, all of
\* them start: the lock is always released when nothing fails.
AllStart == \A p \in Procs : calm /\ pc[p] = "loading" ~> pc[p] = "running"
=============================================================================
