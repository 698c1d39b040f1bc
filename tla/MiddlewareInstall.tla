------------------------- MODULE MiddlewareInstall -------------------------
(***************************************************************************)
(* The middlewares of the processes of one host.  Their code is kept in    *)
(* Redis; a process writes it to files that all of them share, under a     *)
(* lock in Redis, and each keeps the modules it has required in memory.    *)
(* Hosts have locks and files of their own, so one host is modelled.       *)
(* Every middleware exists from the start and is only updated.             *)
(***************************************************************************)
EXTENDS Integers, FiniteSets

CONSTANTS
    Procs,          \* the gateway processes of the host
    Names,          \* middlewares, which the APIs use
    Disruptions,    \* what may go wrong: {"crash", "slowInstall"} or less
    MaxUpdates,     \* bound on the updates of each middleware
    MaxJobs,        \* bound on the jobs of a process under way at once
    MaxCrashes      \* bound on the crashes

ASSUME InstallAssumption ==
    /\ Disruptions \subseteq {"crash", "slowInstall"}
    /\ MaxUpdates \in Nat /\ MaxJobs \in Nat \ {0} /\ MaxCrashes \in Nat

VARIABLES
    registry,   \* the version of each middleware in Redis
    locked,     \* whether the two {middleware_installation} keys exist
    disk,       \* the version each file has, 0 when there is no file
    cache,      \* the version in the module cache of each process, or 0
    used,       \* the version the routes of each process were built with, or 0
    events,     \* CONFIG_UPDATED events each process has not handled
    job,        \* how far each job of a process is
    file,       \* the next step of each job with each file
    read,       \* what each job has read from Redis for each file
    crashes,    \* crashes so far
    mayFail     \* what may go wrong in this behaviour: it never changes

vars == <<registry, locked, disk, cache, used, events, job, file, read, crashes, mayFail>>

Version == 0..(MaxUpdates + 1)

Jobs == Procs \X (1..MaxJobs)

FileStep == {"decache", "remove", "read", "write", "done"}

TypeOK ==
    /\ registry \in [Names -> Version \ {0}]
    /\ locked \in BOOLEAN
    /\ disk \in [Names -> Version]
    /\ cache \in [Procs -> [Names -> Version]]
    /\ used \in [Procs -> [Names -> Version]]
    /\ events \in [Procs -> Nat]
    /\ job \in [Jobs -> {"idle", "asking", "installing", "waiting", "loading"}]
    /\ file \in [Jobs -> [Names -> FileStep]]
    /\ read \in [Jobs -> [Names -> Version]]
    /\ crashes \in 0..MaxCrashes
    /\ mayFail \subseteq Disruptions

NoVersions == [n \in Names |-> 0]

Goto(j, l) == job' = [job EXCEPT ![j] = l]

\* A process subscribes to the events once it has loaded its APIs.
Booting(p) == used[p] = NoVersions

Busy(p) == {j \in Jobs : j[1] = p /\ job[j] # "idle"}

-----------------------------------------------------------------------------
\* RedisMiddlewareService.update(): the content and the event in one MULTI.
Save(n) ==
    /\ registry[n] <= MaxUpdates
    /\ registry' = [registry EXCEPT ![n] = @ + 1]
    /\ events' = [p \in Procs |-> IF Booting(p) THEN events[p] ELSE events[p] + 1]
    /\ UNCHANGED <<locked, disk, cache, used, job, file, read, crashes, mayFail>>

\* CONFIG_UPDATED: Gateway.updateConfig() starts a job, called by the first
\* number that no other job has.
StartJob(j) ==
    LET p == j[1] IN
    /\ events[p] > 0 /\ job[j] = "idle"
    /\ \A i \in 1..(j[2] - 1) : job[<<p, i>>] # "idle"
    /\ events' = [events EXCEPT ![p] = @ - 1]
    /\ Goto(j, "asking")
    /\ UNCHANGED <<registry, locked, disk, cache, used, file, read, crashes, mayFail>>

\* Mutant: SET in place of SETNX, which always succeeds.
AskSet(j) ==
    /\ job[j] = "asking"
    /\ locked' = TRUE
    /\ Goto(j, "installing")
    /\ file' = [file EXCEPT ![j] = [n \in Names |-> "decache"]]
    /\ UNCHANGED <<registry, disk, cache, used, events, read, crashes, mayFail>>

\* installAllMiddlewares(): two SETNX and two EXPIRE in one MULTI.  The job
\* that created both keys installs, the others wait.
Ask(j) ==
    /\ job[j] = "asking"
    /\ locked' = TRUE
    /\ IF locked
       THEN Goto(j, "waiting") /\ UNCHANGED file
       ELSE Goto(j, "installing") /\ file' = [file EXCEPT ![j] = [n \in Names |-> "decache"]]
    /\ UNCHANGED <<registry, disk, cache, used, events, read, crashes, mayFail>>

\* uninstall(): an existing file leaves the module cache of this process, and
\* then, later, the disk.
Decache(j, n) ==
    /\ job[j] = "installing" /\ file[j][n] = "decache"
    /\ IF disk[n] = 0
       THEN file' = [file EXCEPT ![j][n] = "read"] /\ UNCHANGED cache
       ELSE file' = [file EXCEPT ![j][n] = "remove"] /\ cache' = [cache EXCEPT ![j[1]][n] = 0]
    /\ UNCHANGED <<registry, locked, disk, used, events, job, read, crashes, mayFail>>

RemoveFile(j, n) ==
    /\ job[j] = "installing" /\ file[j][n] = "remove"
    /\ file' = [file EXCEPT ![j][n] = "read"]
    /\ disk' = [disk EXCEPT ![n] = 0]
    /\ UNCHANGED <<registry, locked, cache, used, events, job, read, crashes, mayFail>>

\* install(): the content is read from Redis and written to the file.
ReadContent(j, n) ==
    /\ job[j] = "installing" /\ file[j][n] = "read"
    /\ file' = [file EXCEPT ![j][n] = "write"]
    /\ read' = [read EXCEPT ![j][n] = registry[n]]
    /\ UNCHANGED <<registry, locked, disk, cache, used, events, job, crashes, mayFail>>

SaveFile(j, n) ==
    /\ job[j] = "installing" /\ file[j][n] = "write"
    /\ file' = [file EXCEPT ![j][n] = "done"]
    /\ disk' = [disk EXCEPT ![n] = read[j][n]]
    /\ read' = [read EXCEPT ![j][n] = 0]
    /\ UNCHANGED <<registry, locked, cache, used, events, job, crashes, mayFail>>

\* Every middleware is installed: the keys are deleted, whoever made them.
Finish(j) ==
    /\ job[j] = "installing" /\ \A n \in Names : file[j][n] = "done"
    /\ locked' = FALSE
    /\ Goto(j, "loading")
    /\ UNCHANGED <<registry, disk, cache, used, events, file, read, crashes, mayFail>>

\* runAfterMiddlewareInstallations(): the keys are gone.
Poll(j) ==
    /\ job[j] = "waiting"
    /\ ~locked
    /\ Goto(j, "loading")
    /\ UNCHANGED <<registry, locked, disk, cache, used, events, file, read, crashes, mayFail>>

\* What the process starts with when the master forks it again: the job of
\* Gateway.configureServer().
Reboot(p) ==
    /\ cache' = [cache EXCEPT ![p] = NoVersions]
    /\ used' = [used EXCEPT ![p] = NoVersions]
    /\ events' = [events EXCEPT ![p] = 0]
    /\ job' = [j \in Jobs |-> IF j[1] # p THEN job[j]
                              ELSE IF j[2] = 1 THEN "asking" ELSE "idle"]
    /\ file' = [j \in Jobs |-> IF j[1] = p THEN [n \in Names |-> "done"] ELSE file[j]]
    /\ read' = [j \in Jobs |-> IF j[1] = p THEN NoVersions ELSE read[j]]

\* loadMiddleware(): require() takes the module from the cache, or the file.
Required(p) == [n \in Names |-> IF cache[p][n] # 0 THEN cache[p][n] ELSE disk[n]]

\* The routers are built in one turn of the event loop.
Load(j) ==
    LET p == j[1] IN
    /\ job[j] = "loading"
    /\ \A n \in Names : Required(p)[n] # 0
    /\ cache' = [cache EXCEPT ![p] = Required(p)]
    /\ used' = [used EXCEPT ![p] = Required(p)]
    /\ Goto(j, "idle")
    /\ UNCHANGED <<registry, locked, disk, events, file, read, crashes, mayFail>>

\* Mutant: a process that cannot load its APIs when it boots stays up.
LoadFailsAlways(j) ==
    LET p == j[1] IN
    /\ job[j] = "loading"
    /\ \E n \in Names : Required(p)[n] = 0
    /\ cache' = [cache EXCEPT ![p] = Required(p)]
    /\ Goto(j, "idle")
    /\ UNCHANGED <<registry, locked, disk, used, events, file, read, crashes, mayFail>>

\* A file is missing: the routes stay, or the process that boots exits.  The
\* modules that were found are in the cache.
LoadFails(j) ==
    LET p == j[1] IN
    /\ job[j] = "loading"
    /\ \E n \in Names : Required(p)[n] = 0
    /\ IF Booting(p) THEN Reboot(p)
       ELSE /\ cache' = [cache EXCEPT ![p] = Required(p)]
            /\ Goto(j, "idle")
            /\ UNCHANGED <<used, events, file, read>>
    /\ UNCHANGED <<registry, locked, disk, crashes, mayFail>>

\* The lock, set and extended together, expire: 15 s after the installation
\* began, or 60 s after the last job asked.  An installation takes less,
\* unless it is slow.
KeysExpire ==
    /\ locked
    /\ "slowInstall" \in mayFail \/ \A j \in Jobs : job[j] # "installing"
    /\ locked' = FALSE
    /\ UNCHANGED <<registry, disk, cache, used, events, job, file, read, crashes, mayFail>>

Crash(p) ==
    /\ "crash" \in mayFail
    /\ crashes < MaxCrashes
    /\ crashes' = crashes + 1
    /\ Reboot(p)
    /\ UNCHANGED <<registry, locked, disk, mayFail>>

-----------------------------------------------------------------------------
\* Processes that run, with the first version of every middleware.
Init ==
    /\ registry = [n \in Names |-> 1]
    /\ locked = FALSE
    /\ disk = registry
    /\ cache = [p \in Procs |-> registry]
    /\ used = cache
    /\ events = [p \in Procs |-> 0]
    /\ job = [j \in Jobs |-> "idle"]
    /\ file = [j \in Jobs |-> [n \in Names |-> "done"]]
    /\ read = [j \in Jobs |-> NoVersions]
    /\ crashes = 0
    /\ mayFail \in SUBSET Disruptions

Step(j) ==
    \/ StartJob(j) \/ Ask(j) \/ Finish(j) \/ Poll(j) \/ Load(j) \/ LoadFails(j)
    \/ \E n \in Names : Decache(j, n) \/ RemoveFile(j, n) \/ ReadContent(j, n) \/ SaveFile(j, n)

Next ==
    \/ \E n \in Names : Save(n)
    \/ \E j \in Jobs : Step(j)
    \/ KeysExpire
    \/ \E p \in Procs : Crash(p)

Spec == Init /\ [][Next]_vars

\* The event loops run every callback, and keys expire.
FairSpec ==
    /\ Spec
    /\ \A j \in Jobs : WF_vars(Step(j))
    /\ WF_vars(KeysExpire)

-----------------------------------------------------------------------------
\* Unless an installation outlives its lock, at most one job of the host
\* writes the files, although anyone extends, deletes and waits for the keys
\* (installAllMiddlewares()).
OneInstaller ==
    "slowInstall" \notin mayFail =>
        \A i, j \in Jobs : job[i] = "installing" /\ job[j] = "installing" => i = j

\* Nor does a process ever go back to an older version of a middleware,
\* although it may load while another job replaces the files.
NeverOlder ==
    []["slowInstall" \notin mayFail =>
         \A p \in Procs, n \in Names : used'[p][n] # 0 => used'[p][n] >= used[p][n]]_vars

\* A file that is missing (because an installation died, or was overtaken)
\* is written again in the end, with nobody's help.
FilesComeBack == <>[](\A n \in Names : disk[n] # 0)
=============================================================================
