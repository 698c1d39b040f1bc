---------------------- MODULE MiddlewareInstallProofs ----------------------
(***************************************************************************)
(* Type correctness of the installations of a host; while none outlives    *)
(* its lock, their mutual exclusion, and the versions that processes use.  *)
(***************************************************************************)
EXTENDS MiddlewareInstall, TLAPS

USE InstallAssumption DEF InstallAssumption

LEMMA UpdateType ==
    ASSUME NEW A, NEW C, NEW f \in [A -> C], NEW a, NEW c \in C
    PROVE  [f EXCEPT ![a] = c] \in [A -> C]
OBVIOUS

LEMMA NestedUpdateType ==
    ASSUME NEW A, NEW B, NEW C, NEW f \in [A -> [B -> C]], NEW a \in A, NEW b, NEW c \in C
    PROVE  [f EXCEPT ![a][b] = c] \in [A -> [B -> C]]
OBVIOUS

\* Every variable keeps its type: no file, module cache or route ever has a
\* version beyond the updates made, and a job is only where its code can be.
THEOREM TypeCorrect == Spec => []TypeOK
<1>1. Init => TypeOK
  <2>1. 0 \in Version /\ 1 \in Version \ {0}
    BY DEF Version
  <2> SUFFICES ASSUME Init PROVE TypeOK
    OBVIOUS
  <2>2. registry \in [Names -> Version \ {0}] /\ disk \in [Names -> Version]
    BY <2>1 DEF Init
  <2>3. cache \in [Procs -> [Names -> Version]] /\ used = cache
    BY <2>1 DEF Init
  <2>4. read \in [Jobs -> [Names -> Version]]
    BY <2>1 DEF Init, NoVersions
  <2>5. file \in [Jobs -> [Names -> FileStep]]
    BY DEF Init, FileStep
  <2>6. job \in [Jobs -> {"idle", "asking", "installing", "waiting", "loading"}]
    BY DEF Init
  <2>7. crashes \in 0..MaxCrashes
    BY DEF Init
  <2>9. locked \in BOOLEAN /\ mayFail \subseteq Disruptions
    BY Zenon DEF Init
  <2>8. events \in [Procs -> Nat]
    BY DEF Init
  <2> QED
    BY <2>2, <2>3, <2>4, <2>5, <2>6, <2>7, <2>8, <2>9 DEF TypeOK
<1>2. TypeOK /\ [Next]_vars => TypeOK'
  <2> SUFFICES ASSUME TypeOK, [Next]_vars PROVE TypeOK'
    OBVIOUS
  <2> USE DEF TypeOK
  <2>z. 0 \in Version
    BY DEF Version
  <2>f. \A s \in {"decache", "remove", "read", "write", "done"} : s \in FileStep
    BY DEF FileStep
  <2>a. \A p \in Procs : Required(p) \in [Names -> Version]
    BY DEF Required
  <2>b. \A j \in Jobs : j[1] \in Procs /\ j \in Jobs
    BY DEF Jobs
  <2>c. NoVersions \in [Names -> Version]
    BY <2>z DEF NoVersions
  <2>g. \A j \in Jobs, n \in Names, s \in FileStep :
            [file EXCEPT ![j][n] = s] \in [Jobs -> [Names -> FileStep]]
    BY NestedUpdateType
  <2>h. \A j \in Jobs, n \in Names, v \in Version :
            [read EXCEPT ![j][n] = v] \in [Jobs -> [Names -> Version]]
    BY NestedUpdateType
  <2>i. \A p \in Procs, n \in Names, v \in Version :
            [cache EXCEPT ![p][n] = v] \in [Procs -> [Names -> Version]]
    BY NestedUpdateType
  <2>d. ASSUME NEW p \in Procs, Reboot(p)
        PROVE  /\ cache' \in [Procs -> [Names -> Version]]
               /\ used' \in [Procs -> [Names -> Version]]
               /\ events' \in [Procs -> Nat]
               /\ job' \in [Jobs -> {"idle", "asking", "installing", "waiting", "loading"}]
               /\ file' \in [Jobs -> [Names -> FileStep]]
               /\ read' \in [Jobs -> [Names -> Version]]
    <3>1. cache' \in [Procs -> [Names -> Version]] /\ used' \in [Procs -> [Names -> Version]]
      BY <2>c, <2>d, UpdateType DEF Reboot
    <3>2. events' \in [Procs -> Nat]
      BY <2>d, UpdateType DEF Reboot
    <3>3. job' \in [Jobs -> {"idle", "asking", "installing", "waiting", "loading"}]
      BY <2>d DEF Reboot
    <3>4. file' \in [Jobs -> [Names -> FileStep]]
      BY <2>d DEF Reboot, FileStep
    <3>5. read' \in [Jobs -> [Names -> Version]]
      BY <2>c, <2>d DEF Reboot
    <3> QED
      BY <3>1, <3>2, <3>3, <3>4, <3>5
  <2>1. ASSUME NEW n \in Names, Save(n) PROVE TypeOK'
    <3>1. registry' \in [Names -> Version \ {0}]
      BY <2>1 DEF Save, Version
    <3>2. events' \in [Procs -> Nat]
      BY <2>1 DEF Save
    <3> QED
      BY <2>1, <3>1, <3>2 DEF Save
  <2>2. ASSUME NEW j \in Jobs, Step(j) PROVE TypeOK'
    <3>1. CASE StartJob(j)
      <4>1. events[j[1]] - 1 \in Nat
        BY <2>b, <3>1 DEF StartJob
      <4>2. events' \in [Procs -> Nat]
        BY <3>1, <4>1, UpdateType DEF StartJob
      <4> QED
        BY <3>1, <4>2 DEF StartJob, Goto
    <3>2. CASE Ask(j)
      <4>1. file' \in [Jobs -> [Names -> FileStep]]
        <5>1. [n \in Names |-> "decache"] \in [Names -> FileStep]
          BY DEF FileStep
        <5>2. [file EXCEPT ![j] = [n \in Names |-> "decache"]] \in [Jobs -> [Names -> FileStep]]
          BY <5>1, UpdateType
        <5>3. file' = file \/ file' = [file EXCEPT ![j] = [n \in Names |-> "decache"]]
          BY <3>2 DEF Ask
        <5> QED
          BY <5>2, <5>3
      <4> QED
        BY <3>2, <4>1 DEF Ask, Goto
    <3>3. CASE Finish(j) \/ Poll(j)
      BY <3>3 DEF Finish, Poll, Goto
    <3>4. CASE Load(j)
      <4>1. cache' \in [Procs -> [Names -> Version]] /\ used' \in [Procs -> [Names -> Version]]
        <5>1. Required(j[1]) \in [Names -> Version]
          BY <2>a, <2>b
        <5> QED
          BY <3>4, <5>1, UpdateType DEF Load
      <4> QED
        BY <3>4, <4>1 DEF Load, Goto
    <3>5. CASE LoadFails(j)
      <4>1. CASE Booting(j[1])
        BY <2>b, <2>d, <3>5, <4>1 DEF LoadFails
      <4>2. CASE ~Booting(j[1])
        <5>1. cache' \in [Procs -> [Names -> Version]]
          <6>1. Required(j[1]) \in [Names -> Version]
            BY <2>a, <2>b
          <6>2. cache' = [cache EXCEPT ![j[1]] = Required(j[1])]
            BY <3>5, <4>2 DEF LoadFails
          <6> QED
            BY <6>1, <6>2, UpdateType
        <5> QED
          BY <3>5, <4>2, <5>1 DEF LoadFails, Goto
      <4> QED
        BY <4>1, <4>2
    <3>6. ASSUME NEW n \in Names,
                 Decache(j, n) \/ RemoveFile(j, n) \/ ReadContent(j, n) \/ SaveFile(j, n)
          PROVE TypeOK'
      <4>1. file' \in [Jobs -> [Names -> FileStep]]
        <5>1. \E s \in FileStep : file' = [file EXCEPT ![j][n] = s]
          BY <2>f, <3>6 DEF Decache, RemoveFile, ReadContent, SaveFile
        <5> QED
          BY <2>g, <5>1
      <4>2. CASE Decache(j, n)
        <5>1. cache' \in [Procs -> [Names -> Version]]
          <6>1. [cache EXCEPT ![j[1]][n] = 0] \in [Procs -> [Names -> Version]]
            BY <2>b, <2>i, <2>z
          <6>2. cache' = cache \/ cache' = [cache EXCEPT ![j[1]][n] = 0]
            BY <4>2 DEF Decache
          <6> QED
            BY <6>1, <6>2
        <5> QED
          BY <4>1, <4>2, <5>1 DEF Decache
      <4>3. CASE RemoveFile(j, n)
        BY <2>z, <4>1, <4>3 DEF RemoveFile
      <4>4. CASE ReadContent(j, n)
        <5>1. read' \in [Jobs -> [Names -> Version]]
          BY <2>h, <4>4 DEF ReadContent
        <5> QED
          BY <4>1, <4>4, <5>1 DEF ReadContent
      <4>5. CASE SaveFile(j, n)
        <5>1. read[j][n] \in Version
          OBVIOUS
        <5>2. disk' \in [Names -> Version] /\ read' \in [Jobs -> [Names -> Version]]
          BY <2>h, <2>z, <4>5, <5>1, UpdateType DEF SaveFile
        <5> QED
          BY <4>1, <4>5, <5>2 DEF SaveFile
      <4> QED
        BY <3>6, <4>2, <4>3, <4>4, <4>5
    <3> QED
      BY <2>2, <3>1, <3>2, <3>3, <3>4, <3>5, <3>6 DEF Step
  <2>3. CASE KeysExpire
    BY <2>3 DEF KeysExpire
  <2>4. ASSUME NEW p \in Procs, Crash(p) PROVE TypeOK'
    BY <2>d, <2>4 DEF Crash
  <2>5. CASE UNCHANGED vars
    BY <2>5 DEF vars
  <2> QED
    BY <2>1, <2>2, <2>3, <2>4, <2>5 DEF Next
<1> QED
  BY <1>1, <1>2, PTL DEF Spec

-----------------------------------------------------------------------------
\* While no installation is slow, the keys stand for the one job that installs:
\* this is why deleting them without looking whose they are does no harm.
Exclusive ==
    "slowInstall" \notin mayFail =>
        \A j \in Jobs : job[j] = "installing" =>
            /\ locked
            /\ \A i \in Jobs : job[i] = "installing" => i = j

\* A step that starts no installation and leaves the keys alone.
LEMMA OthersKeepExclusive ==
    ASSUME Exclusive, locked => locked', mayFail' = mayFail,
           \A j \in Jobs : job'[j] = "installing" => job[j] = "installing"
    PROVE  Exclusive'
BY DEF Exclusive

LEMMA ExclusiveInit == Init => Exclusive
BY DEF Init, Exclusive

LEMMA ExclusiveStep == TypeOK /\ Exclusive /\ [Next]_vars => Exclusive'
<1> SUFFICES ASSUME TypeOK, Exclusive, [Next]_vars PROVE Exclusive'
  OBVIOUS
<1>t. job \in [Jobs -> {"idle", "asking", "installing", "waiting", "loading"}]
  BY DEF TypeOK
<1>1. ASSUME NEW n \in Names, Save(n) PROVE Exclusive'
  BY <1>1 DEF Save, Exclusive
<1>2. ASSUME NEW j \in Jobs, Step(j) PROVE Exclusive'
  <2>1. CASE Ask(j)
    BY <1>t, <2>1 DEF Ask, Goto, Exclusive
  <2>2. CASE Finish(j)
    BY <1>t, <2>2 DEF Finish, Goto, Exclusive
  <2>3. CASE StartJob(j) \/ Poll(j) \/ Load(j)
    <3>1. \A i \in Jobs : job'[i] = "installing" => job[i] = "installing"
      BY <1>t, <2>3 DEF StartJob, Poll, Load, Goto
    <3> QED
      BY <2>3, <3>1, OthersKeepExclusive DEF StartJob, Poll, Load
  <2>4. CASE LoadFails(j)
    <3>1. \A i \in Jobs : job'[i] = "installing" => job[i] = "installing"
      BY <1>t, <2>4 DEF LoadFails, Reboot, Goto
    <3> QED
      BY <2>4, <3>1, OthersKeepExclusive DEF LoadFails
  <2>5. ASSUME NEW n \in Names,
               Decache(j, n) \/ RemoveFile(j, n) \/ ReadContent(j, n) \/ SaveFile(j, n)
        PROVE Exclusive'
    BY <2>5 DEF Decache, RemoveFile, ReadContent, SaveFile, Exclusive
  <2> QED
    BY <1>2, <2>1, <2>2, <2>3, <2>4, <2>5 DEF Step
<1>3. CASE KeysExpire
  BY <1>3 DEF KeysExpire, Exclusive
<1>4. ASSUME NEW p \in Procs, Crash(p) PROVE Exclusive'
  <2>1. \A i \in Jobs : job'[i] = "installing" => job[i] = "installing"
    BY <1>t, <1>4 DEF Crash, Reboot
  <2> QED
    BY <1>4, <2>1, OthersKeepExclusive DEF Crash
<1>5. CASE UNCHANGED vars
  BY <1>5 DEF vars, Exclusive
<1> QED
  BY <1>1, <1>2, <1>3, <1>4, <1>5 DEF Next

\* For any number of processes, jobs, middlewares and crashes: unless an
\* installation outlives its lock, the jobs of a host install one at a time.
THEOREM InstallationIsExclusive == Spec => []OneInstaller
<1>1. Exclusive => OneInstaller
  BY DEF Exclusive, OneInstaller
<1> QED
  BY <1>1, ExclusiveInit, ExclusiveStep, TypeCorrect, PTL DEF Spec

-----------------------------------------------------------------------------
(* The versions a process goes through.                                    *)

AtLeastUsed(v, n) == \A p \in Procs : used[p][n] <= v /\ cache[p][n] <= v

\* The content that a job will write to the file of a middleware.
Writing(j, n) == job[j] = "installing" /\ file[j][n] = "write"

NewestOf(n) ==
    /\ AtLeastUsed(registry[n], n) /\ disk[n] <= registry[n]
    /\ disk[n] # 0 => AtLeastUsed(disk[n], n)
    /\ \A p \in Procs : cache[p][n] # 0 => used[p][n] <= cache[p][n]
    /\ \A j \in Jobs : Writing(j, n) =>
            AtLeastUsed(read[j][n], n) /\ disk[n] <= read[j][n] /\ read[j][n] <= registry[n]

\* A process has required nothing newer than the file, when there is one, or
\* than what will be written to it, and runs nothing newer than its cache.
Newest == "slowInstall" \notin mayFail => \A n \in Names : NewestOf(n)

InstallInv == TypeOK /\ Exclusive /\ Newest

LEMMA Naturals == Version \subseteq Nat
BY DEF Version

LEMMA VersionsAreNumbers ==
    ASSUME TypeOK, NEW n \in Names
    PROVE  /\ registry[n] \in Nat /\ disk[n] \in Nat
           /\ \A p \in Procs : cache[p][n] \in Nat /\ used[p][n] \in Nat
           /\ \A j \in Jobs : read[j][n] \in Nat
<1>1. /\ registry \in [Names -> Version] /\ disk \in [Names -> Version]
      /\ cache \in [Procs -> [Names -> Version]] /\ used \in [Procs -> [Names -> Version]]
      /\ read \in [Jobs -> [Names -> Version]]
  BY DEF TypeOK
<1>2. registry[n] \in Nat /\ disk[n] \in Nat
  BY <1>1, Naturals
<1>3. ASSUME NEW p \in Procs PROVE cache[p][n] \in Nat /\ used[p][n] \in Nat
  <2>1. cache[p] \in [Names -> Version] /\ used[p] \in [Names -> Version]
    BY <1>1
  <2> QED
    BY <2>1, Naturals
<1>4. ASSUME NEW j \in Jobs PROVE read[j][n] \in Nat
  <2>1. read[j] \in [Names -> Version]
    BY <1>1
  <2> QED
    BY <2>1, Naturals
<1> QED
  BY <1>2, <1>3, <1>4

\* A step that writes no version, and gives no job a content to write.
LEMMA VersionsKept ==
    ASSUME InstallInv, UNCHANGED <<registry, disk, cache, used, read, mayFail>>,
           \A j \in Jobs, n \in Names : Writing(j, n)' => Writing(j, n)
    PROVE  Newest'
<1>1. ASSUME NEW n \in Names, NewestOf(n) PROVE NewestOf(n)'
  <2>1. \A v : AtLeastUsed(v, n)' <=> AtLeastUsed(v, n)
    BY DEF AtLeastUsed
  <2>2. AtLeastUsed(registry[n], n)' /\ (disk[n] # 0 => AtLeastUsed(disk[n], n)')
    BY <1>1 DEF NewestOf, AtLeastUsed
  <2>3. ASSUME NEW j \in Jobs, Writing(j, n)'
        PROVE  /\ AtLeastUsed(read[j][n], n)'
               /\ disk[n] <= read[j][n] /\ read[j][n] <= registry[n]
    <3>1. /\ AtLeastUsed(read[j][n], n)
          /\ disk[n] <= read[j][n] /\ read[j][n] <= registry[n]
      BY <1>1, <2>3 DEF NewestOf
    <3> QED
      BY <3>1 DEF AtLeastUsed
  <2> QED
    BY <1>1, <2>2, <2>3 DEF NewestOf
<1> QED
  BY <1>1 DEF InstallInv, Newest

LEMMA NewerRegistry ==
    ASSUME InstallInv, NEW m \in Names, Save(m)
    PROVE  Newest'
<1>t. /\ TypeOK /\ registry \in [Names -> Version]
  BY DEF InstallInv, TypeOK
<1>1. /\ registry' = [registry EXCEPT ![m] = registry[m] + 1]
      /\ UNCHANGED <<disk, cache, used, job, file, read, mayFail>>
  BY DEF Save
<1>2. ASSUME NEW n \in Names, NewestOf(n) PROVE NewestOf(n)'
  <2>1. /\ registry[n] \in Nat /\ registry'[n] \in Nat /\ registry[n] <= registry'[n]
        /\ disk[n] \in Nat
    <3>1. registry[n] \in Nat /\ disk[n] \in Nat
      BY <1>t, VersionsAreNumbers
    <3>2. registry'[n] = IF n = m THEN registry[n] + 1 ELSE registry[n]
      BY <1>1, <1>t
    <3> QED
      BY <3>1, <3>2
  <2>2. ASSUME NEW p \in Procs PROVE used[p][n] <= registry'[n] /\ cache[p][n] <= registry'[n]
    <3>1. used[p][n] <= registry[n] /\ cache[p][n] <= registry[n]
      BY <1>2 DEF NewestOf, AtLeastUsed
    <3>2. used[p][n] \in Nat /\ cache[p][n] \in Nat
      BY <1>t, VersionsAreNumbers
    <3> QED
      BY <2>1, <3>1, <3>2
  <2>3. disk[n] <= registry'[n]
    BY <1>2, <2>1 DEF NewestOf
  <2>4. ASSUME NEW j \in Jobs, Writing(j, n)
        PROVE  /\ AtLeastUsed(read[j][n], n) /\ disk[n] <= read[j][n] /\ read[j][n] <= registry'[n]
    <3>1. AtLeastUsed(read[j][n], n) /\ disk[n] <= read[j][n] /\ read[j][n] <= registry[n]
      BY <1>2, <2>4 DEF NewestOf
    <3>2. read[j][n] \in Nat
      BY <1>t, VersionsAreNumbers
    <3> QED
      BY <2>1, <3>1, <3>2
  <2>5. disk[n] # 0 => AtLeastUsed(disk[n], n)
    BY <1>2 DEF NewestOf
  <2>6. \A p \in Procs : cache[p][n] # 0 => used[p][n] <= cache[p][n]
    BY <1>2 DEF NewestOf
  <2> QED
    BY <1>1, <2>2, <2>3, <2>4, <2>5, <2>6 DEF NewestOf, AtLeastUsed, Writing
<1> QED
  BY <1>1, <1>2 DEF InstallInv, Newest

\* What a process requires is what was used, or newer, and not newer than what
\* is written to the files.
LEMMA RequiredIsNewest ==
    ASSUME InstallInv, NEW p \in Procs, NEW n \in Names, NewestOf(n)
    PROVE  /\ Required(p)[n] \in Nat
           /\ Required(p)[n] <= registry[n]
           /\ Required(p)[n] # 0 => used[p][n] <= Required(p)[n]
           /\ disk[n] # 0 => Required(p)[n] <= disk[n]
           /\ \A j \in Jobs : Writing(j, n) => Required(p)[n] <= read[j][n]
<1>1. cache[p][n] \in Nat /\ disk[n] \in Nat /\ used[p][n] \in Nat /\ registry[n] \in Nat
  BY VersionsAreNumbers DEF InstallInv
<1>2. Required(p)[n] = IF cache[p][n] # 0 THEN cache[p][n] ELSE disk[n]
  BY DEF Required
<1>3. CASE cache[p][n] # 0
  BY <1>1, <1>2, <1>3 DEF NewestOf, AtLeastUsed
<1>4. CASE cache[p][n] = 0
  BY <1>1, <1>2, <1>4 DEF NewestOf, AtLeastUsed
<1> QED
  BY <1>3, <1>4

\* A process takes what it requires, into its cache and perhaps its routes.
LEMMA NewerRoutes ==
    ASSUME InstallInv, NEW p \in Procs, UNCHANGED <<registry, disk, read, file, mayFail>>,
           cache' = [cache EXCEPT ![p] = Required(p)],
           \/ UNCHANGED used
           \/ used' = [used EXCEPT ![p] = Required(p)],
           \A j \in Jobs : job'[j] = "installing" => job[j] = "installing"
    PROVE  Newest'
<1> USE DEF InstallInv
<1>t. cache \in [Procs -> [Names -> Version]] /\ used \in [Procs -> [Names -> Version]]
  BY DEF TypeOK
<1>1. ASSUME NEW n \in Names, NewestOf(n) PROVE NewestOf(n)'
  <2>0. PICK v \in Nat : v = Required(p)[n]
    BY <1>1, RequiredIsNewest
  <2>1. /\ v <= registry[n] /\ (v # 0 => used[p][n] <= v) /\ (disk[n] # 0 => v <= disk[n])
        /\ \A j \in Jobs : Writing(j, n) => v <= read[j][n]
    BY <1>1, <2>0, RequiredIsNewest
  <2>2. /\ cache'[p][n] = v /\ used'[p][n] \in {used[p][n], v}
        /\ \A q \in Procs \ {p} : cache'[q] = cache[q] /\ used'[q] = used[q]
    BY <1>t, <2>0
  <2>3. ASSUME NEW u, AtLeastUsed(u, n), v <= u PROVE AtLeastUsed(u, n)'
    BY <2>2, <2>3 DEF AtLeastUsed
  <2>4. \A j \in Jobs : Writing(j, n)' => Writing(j, n)
    BY DEF Writing
  <2>5. AtLeastUsed(registry[n], n)'
    <3>1. PICK u : u = registry[n] /\ u = registry'[n]
      OBVIOUS
    <3>2. AtLeastUsed(u, n)'
      BY <1>1, <2>1, <2>3, <3>1 DEF NewestOf
    <3> QED
      BY <3>1, <3>2 DEF AtLeastUsed
  <2>6. ASSUME disk'[n] # 0 PROVE AtLeastUsed(disk[n], n)'
    <3>1. PICK u : u = disk[n] /\ u = disk'[n]
      OBVIOUS
    <3>2. AtLeastUsed(u, n)'
      BY <1>1, <2>1, <2>3, <2>6, <3>1 DEF NewestOf
    <3> QED
      BY <3>1, <3>2 DEF AtLeastUsed
  <2>7. ASSUME NEW j \in Jobs, Writing(j, n)' PROVE AtLeastUsed(read[j][n], n)'
    <3>1. PICK u : u = read[j][n] /\ u = read'[j][n]
      OBVIOUS
    <3>2. AtLeastUsed(u, n)'
      BY <1>1, <2>1, <2>3, <2>4, <2>7, <3>1 DEF NewestOf
    <3> QED
      BY <3>1, <3>2 DEF AtLeastUsed
  <2>8. ASSUME NEW q \in Procs, cache'[q][n] # 0 PROVE used'[q][n] <= cache'[q][n]
    <3>1. CASE q = p
      BY <2>1, <2>2, <2>8, <3>1
    <3>2. CASE q # p
      BY <1>1, <2>2, <2>8, <3>2 DEF NewestOf
    <3> QED
      BY <3>1, <3>2
  <2>9. /\ disk'[n] <= registry'[n]
        /\ \A j \in Jobs : Writing(j, n)' => disk'[n] <= read'[j][n] /\ read'[j][n] <= registry'[n]
    BY <1>1, <2>4 DEF NewestOf
  <2> QED
    BY <2>5, <2>6, <2>7, <2>8, <2>9 DEF NewestOf
<1> QED
  BY <1>1 DEF Newest

\* A process that starts again has required nothing.
LEMMA NewProcess ==
    ASSUME InstallInv, NEW p \in Procs, Reboot(p), UNCHANGED <<registry, disk, mayFail>>
    PROVE  Newest'
<1> USE DEF InstallInv
<1>t. /\ cache \in [Procs -> [Names -> Version]] /\ used \in [Procs -> [Names -> Version]]
      /\ registry \in [Names -> Version] /\ disk \in [Names -> Version]
      /\ read \in [Jobs -> [Names -> Version]]
  BY DEF TypeOK
<1>1. /\ cache'[p] = NoVersions /\ used'[p] = NoVersions
      /\ \A q \in Procs \ {p} : cache'[q] = cache[q] /\ used'[q] = used[q]
  BY <1>t DEF Reboot
<1>2. ASSUME NEW j \in Jobs, NEW n \in Names, Writing(j, n)'
      PROVE  Writing(j, n) /\ read'[j] = read[j]
  <2>1. j[1] # p
    BY <1>2 DEF Reboot, Writing
  <2> QED
    BY <1>2, <2>1 DEF Reboot, Writing
<1>3. ASSUME NEW n \in Names, NewestOf(n) PROVE NewestOf(n)'
  <2>1. ASSUME NEW u \in Nat, AtLeastUsed(u, n) PROVE AtLeastUsed(u, n)'
    <3>1. cache'[p][n] = 0 /\ used'[p][n] = 0 /\ 0 <= u
      BY <1>1 DEF NoVersions
    <3> QED
      BY <1>1, <2>1, <3>1 DEF AtLeastUsed
  <2>2. AtLeastUsed(registry[n], n)'
    <3>1. PICK u \in Nat : u = registry[n] /\ u = registry'[n]
      BY <1>t, Naturals
    <3>2. AtLeastUsed(u, n)'
      BY <1>3, <2>1, <3>1 DEF NewestOf
    <3> QED
      BY <3>1, <3>2 DEF AtLeastUsed
  <2>3. ASSUME disk'[n] # 0 PROVE AtLeastUsed(disk[n], n)'
    <3>1. PICK u \in Nat : u = disk[n] /\ u = disk'[n]
      BY <1>t, Naturals
    <3>2. AtLeastUsed(u, n)'
      BY <1>3, <2>1, <2>3, <3>1 DEF NewestOf
    <3> QED
      BY <3>1, <3>2 DEF AtLeastUsed
  <2>4. ASSUME NEW j \in Jobs, Writing(j, n)' PROVE AtLeastUsed(read[j][n], n)'
    <3>1. PICK u \in Nat : u = read[j][n] /\ u = read'[j][n]
      BY <1>2, <1>t, <2>4, Naturals
    <3>2. AtLeastUsed(u, n)'
      BY <1>2, <1>3, <2>1, <2>4, <3>1 DEF NewestOf
    <3> QED
      BY <3>1, <3>2 DEF AtLeastUsed
  <2>5. ASSUME NEW q \in Procs, cache'[q][n] # 0 PROVE used'[q][n] <= cache'[q][n]
    <3>1. CASE q = p
      BY <1>1, <2>5, <3>1 DEF NoVersions
    <3>2. CASE q # p
      BY <1>1, <1>3, <2>5, <3>2 DEF NewestOf
    <3> QED
      BY <3>1, <3>2
  <2>6. /\ disk'[n] <= registry'[n]
        /\ \A j \in Jobs : Writing(j, n)' => disk'[n] <= read'[j][n] /\ read'[j][n] <= registry'[n]
    BY <1>2, <1>3 DEF NewestOf
  <2> QED
    BY <2>2, <2>3, <2>4, <2>5, <2>6 DEF NewestOf
<1> QED
  BY <1>3 DEF Newest

\* The steps of an installation with one file.
LEMMA NewerFile ==
    ASSUME InstallInv, NEW j \in Jobs, NEW m \in Names,
           Decache(j, m) \/ RemoveFile(j, m) \/ ReadContent(j, m) \/ SaveFile(j, m)
    PROVE  Newest'
<1> USE DEF InstallInv
<1>t. /\ cache \in [Procs -> [Names -> Version]] /\ used \in [Procs -> [Names -> Version]]
      /\ registry \in [Names -> Version] /\ disk \in [Names -> Version]
      /\ read \in [Jobs -> [Names -> Version]] /\ file \in [Jobs -> [Names -> FileStep]]
  BY DEF TypeOK
<1>0. job[j] = "installing" /\ UNCHANGED <<registry, used, job, mayFail>>
  BY DEF Decache, RemoveFile, ReadContent, SaveFile
<1> SUFFICES ASSUME "slowInstall" \notin mayFail, NEW n \in Names, NewestOf(n) PROVE NewestOf(n)'
  BY <1>0 DEF Newest
<1>1. \A u \in Nat : u >= 0
  OBVIOUS
<1>2. /\ registry[n] \in Nat /\ disk[n] \in Nat
      /\ \A p \in Procs : used[p][n] \in Nat /\ cache[p][n] \in Nat
      /\ \A i \in Jobs : read[i][n] \in Nat
  BY VersionsAreNumbers DEF InstallInv
<1>3. \A i \in Jobs : Writing(i, n) => i = j
  BY <1>0 DEF Exclusive, Writing
<1>4. CASE Decache(j, m)
  <2>1. \A p \in Procs : cache'[p][n] \in {cache[p][n], 0}
    BY <1>4, <1>t DEF Decache
  <2>2. ASSUME NEW u, AtLeastUsed(u, n), u \in Nat PROVE AtLeastUsed(u, n)'
    BY <1>0, <1>2, <2>1, <2>2 DEF AtLeastUsed
  <2>3. UNCHANGED <<disk, read>> /\ \A i \in Jobs : Writing(i, n)' => Writing(i, n)
    <3>1. UNCHANGED <<disk, read>>
      BY <1>4 DEF Decache
    <3>2. file' = [file EXCEPT ![j][m] = "read"] \/ file' = [file EXCEPT ![j][m] = "remove"]
      BY <1>4 DEF Decache
    <3>3. \A i \in Jobs : file'[i][n] = "write" => file[i][n] = "write"
      BY <1>t, <3>2
    <3> QED
      BY <1>0, <3>1, <3>3 DEF Writing
  <2>4. AtLeastUsed(registry[n], n)' /\ (disk[n] # 0 => AtLeastUsed(disk[n], n)')
    <3>1. PICK u \in Nat, w \in Nat : u = registry[n] /\ u = registry'[n] /\ w = disk[n] /\ w = disk'[n]
      BY <1>0, <1>2, <2>3
    <3>2. AtLeastUsed(u, n)' /\ (w # 0 => AtLeastUsed(w, n)')
      BY <2>2, <3>1 DEF NewestOf
    <3> QED
      BY <3>1, <3>2 DEF AtLeastUsed
  <2>5. ASSUME NEW i \in Jobs, Writing(i, n)' PROVE AtLeastUsed(read[i][n], n)'
    <3>1. PICK u \in Nat : u = read[i][n] /\ u = read'[i][n]
      BY <1>2, <2>3
    <3>2. AtLeastUsed(u, n)'
      BY <2>2, <2>3, <2>5, <3>1 DEF NewestOf
    <3> QED
      BY <3>1, <3>2 DEF AtLeastUsed
  <2>6. \A p \in Procs : cache'[p][n] # 0 => used'[p][n] <= cache'[p][n]
    BY <1>0, <2>1 DEF NewestOf
  <2>7. /\ disk'[n] <= registry'[n]
        /\ \A i \in Jobs : Writing(i, n)' => disk'[n] <= read'[i][n] /\ read'[i][n] <= registry'[n]
    BY <1>0, <2>3 DEF NewestOf
  <2> QED
    BY <2>3, <2>4, <2>5, <2>6, <2>7 DEF NewestOf
<1>5. CASE RemoveFile(j, m)
  <2>1. /\ UNCHANGED <<cache, read>> /\ disk' = [disk EXCEPT ![m] = 0]
        /\ file' = [file EXCEPT ![j][m] = "read"]
    BY <1>5 DEF RemoveFile
  <2>2. disk'[n] \in {disk[n], 0} /\ \A i \in Jobs : Writing(i, n)' => Writing(i, n)
    BY <1>0, <1>t, <2>1 DEF Writing
  <2>3. \A u : AtLeastUsed(u, n)' <=> AtLeastUsed(u, n)
    BY <1>0, <2>1 DEF AtLeastUsed
  <2>4. AtLeastUsed(registry[n], n)' /\ (disk'[n] # 0 => AtLeastUsed(disk[n], n)')
    BY <1>0, <2>1, <2>2 DEF NewestOf, AtLeastUsed
  <2>5. ASSUME NEW i \in Jobs, Writing(i, n)' PROVE AtLeastUsed(read[i][n], n)'
    BY <1>0, <2>1, <2>2, <2>5 DEF NewestOf, AtLeastUsed
  <2>6. /\ disk'[n] <= registry'[n]
        /\ \A i \in Jobs : Writing(i, n)' => disk'[n] <= read'[i][n] /\ read'[i][n] <= registry'[n]
    BY <1>0, <1>1, <1>2, <2>1, <2>2 DEF NewestOf
  <2> QED
    BY <1>0, <2>1, <2>4, <2>5, <2>6 DEF NewestOf
<1>6. CASE ReadContent(j, m)
  <2>1. /\ UNCHANGED <<cache, disk>> /\ read' = [read EXCEPT ![j][m] = registry[m]]
        /\ file' = [file EXCEPT ![j][m] = "write"]
    BY <1>6 DEF ReadContent
  <2>2. ASSUME NEW i \in Jobs, Writing(i, n)'
        PROVE  \/ Writing(i, n) /\ read'[i][n] = read[i][n]
               \/ read'[i][n] = registry[n]
    BY <1>0, <1>t, <2>1, <2>2 DEF Writing
  <2>3. AtLeastUsed(registry[n], n)' /\ (disk'[n] # 0 => AtLeastUsed(disk[n], n)')
    BY <1>0, <2>1 DEF NewestOf, AtLeastUsed
  <2>4. ASSUME NEW i \in Jobs, Writing(i, n)'
        PROVE  /\ AtLeastUsed(read[i][n], n)'
               /\ disk'[n] <= read'[i][n] /\ read'[i][n] <= registry'[n]
    <3>1. PICK u \in Nat : /\ u = read'[i][n] /\ AtLeastUsed(u, n)
                           /\ disk[n] <= u /\ u <= registry[n]
      BY <1>2, <2>2, <2>4 DEF NewestOf
    <3>2. AtLeastUsed(u, n)'
      BY <1>0, <2>1, <3>1 DEF AtLeastUsed
    <3> QED
      BY <1>0, <2>1, <3>1, <3>2 DEF AtLeastUsed
  <2> QED
    BY <1>0, <2>1, <2>3, <2>4 DEF NewestOf
<1>7. CASE SaveFile(j, m)
  <2>1. /\ UNCHANGED cache /\ disk' = [disk EXCEPT ![m] = read[j][m]]
        /\ file[j][m] = "write" /\ file' = [file EXCEPT ![j][m] = "done"]
        /\ read' = [read EXCEPT ![j][m] = 0]
    BY <1>7 DEF SaveFile
  <2>2. AtLeastUsed(registry[n], n)'
    BY <1>0, <2>1 DEF NewestOf, AtLeastUsed
  <2>3. \A p \in Procs : cache'[p][n] # 0 => used'[p][n] <= cache'[p][n]
    BY <1>0, <2>1 DEF NewestOf
  <2>4. CASE n = m
    <3>1. Writing(j, n) /\ disk'[n] = read[j][n]
      BY <1>0, <1>t, <2>1, <2>4 DEF Writing
    <3>2. AtLeastUsed(disk'[n], n) /\ disk'[n] <= registry[n]
      BY <3>1 DEF NewestOf
    <3>3. AtLeastUsed(disk[n], n)'
      BY <1>0, <2>1, <3>2 DEF AtLeastUsed
    <3>4. \A i \in Jobs : ~Writing(i, n)'
      <4>1. \A i \in Jobs : Writing(i, n)' => Writing(i, n)
        BY <1>0, <1>t, <2>1 DEF Writing
      <4>2. ~Writing(j, n)'
        BY <1>t, <2>1, <2>4 DEF Writing
      <4> QED
        BY <1>3, <4>1, <4>2
    <3> QED
      BY <1>0, <2>2, <2>3, <3>2, <3>3, <3>4 DEF NewestOf
  <2>5. CASE n # m
    <3>1. disk'[n] = disk[n] /\ \A i \in Jobs : read'[i][n] = read[i][n] /\ (Writing(i, n)' => Writing(i, n))
      BY <1>0, <1>t, <2>1, <2>5 DEF Writing
    <3>2. disk'[n] # 0 => AtLeastUsed(disk[n], n)'
      BY <1>0, <2>1, <3>1 DEF NewestOf, AtLeastUsed
    <3>3. ASSUME NEW i \in Jobs, Writing(i, n)'
          PROVE  /\ AtLeastUsed(read[i][n], n)'
                 /\ disk'[n] <= read'[i][n] /\ read'[i][n] <= registry'[n]
      <4>1. PICK u \in Nat : /\ u = read[i][n] /\ u = read'[i][n] /\ AtLeastUsed(u, n)
                             /\ disk[n] <= u /\ u <= registry[n]
        BY <1>2, <3>1, <3>3 DEF NewestOf
      <4>2. AtLeastUsed(u, n)'
        BY <1>0, <2>1, <4>1 DEF AtLeastUsed
      <4> QED
        BY <1>0, <3>1, <4>1, <4>2 DEF AtLeastUsed
    <3>4. disk'[n] <= registry'[n]
      BY <1>0, <3>1 DEF NewestOf
    <3> QED
      BY <2>2, <2>3, <3>2, <3>3, <3>4 DEF NewestOf
  <2> QED
    BY <2>4, <2>5
<1> QED
  BY <1>4, <1>5, <1>6, <1>7

LEMMA NewestInit == Init => Newest
<1> SUFFICES ASSUME Init, NEW n \in Names PROVE NewestOf(n)
  BY DEF Newest
<1> QED
  BY DEF Init, NewestOf, AtLeastUsed, Writing

LEMMA NewestStep == InstallInv /\ [Next]_vars => Newest'
<1> SUFFICES ASSUME InstallInv, [Next]_vars PROVE Newest'
  OBVIOUS
<1>t. /\ job \in [Jobs -> {"idle", "asking", "installing", "waiting", "loading"}]
      /\ file \in [Jobs -> [Names -> FileStep]]
      /\ \A j \in Jobs : j[1] \in Procs
  BY DEF InstallInv, TypeOK, Jobs
<1>1. ASSUME NEW n \in Names, Save(n) PROVE Newest'
  BY <1>1, NewerRegistry
<1>2. ASSUME NEW j \in Jobs, Step(j) PROVE Newest'
  <2>1. CASE StartJob(j) \/ Ask(j) \/ Finish(j) \/ Poll(j)
    <3>1. UNCHANGED <<registry, disk, cache, used, read, mayFail>>
      BY <2>1 DEF StartJob, Ask, Finish, Poll
    <3>2. ASSUME NEW i \in Jobs, NEW n \in Names, Writing(i, n)' PROVE Writing(i, n)
      BY <1>t, <2>1, <3>2 DEF StartJob, Ask, Finish, Poll, Goto, Writing
    <3> QED
      BY <3>1, <3>2, VersionsKept
  <2>2. CASE Load(j)
    <3>1. \A i \in Jobs : job'[i] = "installing" => job[i] = "installing"
      BY <1>t, <2>2 DEF Load, Goto
    <3> QED
      BY <1>t, <2>2, <3>1, NewerRoutes DEF Load
  <2>3. CASE LoadFails(j)
    <3>1. CASE Booting(j[1])
      BY <1>t, <2>3, <3>1, NewProcess DEF LoadFails
    <3>2. CASE ~Booting(j[1])
      <4>1. \A i \in Jobs : job'[i] = "installing" => job[i] = "installing"
        BY <1>t, <2>3, <3>2 DEF LoadFails, Goto
      <4> QED
        BY <1>t, <2>3, <3>2, <4>1, NewerRoutes DEF LoadFails
    <3> QED
      BY <3>1, <3>2
  <2> QED
    BY <1>2, <2>1, <2>2, <2>3, NewerFile DEF Step
<1>3. CASE KeysExpire
  BY <1>3, VersionsKept DEF KeysExpire, Writing
<1>4. ASSUME NEW p \in Procs, Crash(p) PROVE Newest'
  BY <1>4, NewProcess DEF Crash
<1>5. CASE UNCHANGED vars
  BY <1>5, VersionsKept DEF vars, Writing
<1> QED
  BY <1>1, <1>2, <1>3, <1>4, <1>5 DEF Next

\* Unless an installation outlives its lock, no process goes back to an older
\* version of a middleware, for any number of processes, jobs and crashes
\* (MiddlewareInstaller, loadMiddleware()).
THEOREM VersionsNeverGoBack == Spec => NeverOlder
<1> DEFINE Kept == "slowInstall" \notin mayFail =>
                       \A p \in Procs, n \in Names : used'[p][n] # 0 => used'[p][n] >= used[p][n]
<1>1. InstallInv /\ [Next]_vars => [Kept]_vars
  <2> SUFFICES ASSUME InstallInv, [Next]_vars, "slowInstall" \notin mayFail, ~UNCHANGED vars,
                      NEW p \in Procs, NEW n \in Names, used'[p][n] # 0
               PROVE  used'[p][n] >= used[p][n]
    OBVIOUS
  <2>1. /\ used \in [Procs -> [Names -> Version]] /\ used[p][n] \in Nat /\ NewestOf(n)
        /\ \A j \in Jobs : j[1] \in Procs
    <3>1. used \in [Procs -> [Names -> Version]] /\ TypeOK
      BY DEF InstallInv, TypeOK
    <3>2. used[p][n] \in Nat
      BY <3>1, VersionsAreNumbers
    <3>3. NewestOf(n)
      BY DEF InstallInv, Newest
    <3> QED
      BY <3>1, <3>2, <3>3 DEF Jobs
  <2>2. CASE UNCHANGED used
    BY <2>1, <2>2
  <2>3. ASSUME NEW j \in Jobs, Load(j) PROVE used'[p][n] >= used[p][n]
    <3>1. used' = [used EXCEPT ![j[1]] = Required(j[1])]
      BY <2>3 DEF Load
    <3>2. CASE p = j[1]
      <4>1. used'[p][n] = Required(p)[n]
        BY <2>1, <3>1, <3>2
      <4>2. Required(p)[n] \in Nat /\ (Required(p)[n] # 0 => used[p][n] <= Required(p)[n])
        BY <2>1, RequiredIsNewest
      <4> QED
        BY <2>1, <4>1, <4>2
    <3>3. CASE p # j[1]
      BY <2>1, <3>1, <3>3
    <3> QED
      BY <3>2, <3>3
  <2>4. ASSUME NEW q \in Procs, Reboot(q) PROVE used'[p][n] >= used[p][n]
    <3>1. used' = [used EXCEPT ![q] = NoVersions]
      BY <2>4 DEF Reboot
    <3>2. p # q
      BY <2>1, <3>1 DEF NoVersions
    <3> QED
      BY <2>1, <3>1, <3>2
  <2>5. \/ UNCHANGED used
        \/ \E j \in Jobs : Load(j)
        \/ \E q \in Procs : Reboot(q)
    <3>1. ASSUME NEW j \in Jobs, Step(j) PROVE UNCHANGED used \/ Load(j) \/ Reboot(j[1])
      BY <3>1 DEF Step, StartJob, Ask, Finish, Poll, LoadFails, Decache, RemoveFile, ReadContent,
                  SaveFile
    <3> QED
      BY <2>1, <3>1 DEF Next, Save, KeysExpire, Crash
  <2> QED
    BY <2>2, <2>3, <2>4, <2>5
<1>2. Init => Newest
  BY NewestInit
<1>3. InstallInv /\ [Next]_vars => Newest'
  BY NewestStep
<1>4. Spec => []Exclusive
  BY ExclusiveInit, ExclusiveStep, TypeCorrect, PTL DEF Spec
<1>5. InstallInv <=> TypeOK /\ Exclusive /\ Newest
  BY DEF InstallInv
<1> QED
  BY <1>1, <1>2, <1>3, <1>4, <1>5, TypeCorrect, PTL DEF Spec, NeverOlder
=============================================================================
