------------------------ MODULE VersionUpgradeProofs ------------------------
(***************************************************************************)
(* Proofs about VersionUpgrade, for any number of processes and whatever   *)
(* fails.                                                                  *)
(***************************************************************************)
EXTENDS VersionUpgrade, TLAPS

\* The format of the configuration tells how far the upgrade is, and the
\* version tells whether it may still begin.
UpgradeInv ==
    /\ TypeOK
    /\ stored # "new" => version \in Before3 \cup {"updating"}
    /\ version \in Before3 =>
         /\ stored = "old"
         /\ \A p \in Procs : pc[p] \notin Upgrading \cup Checked \cup {"waiting"}
    /\ \A p, q \in Procs : pc[p] \in Upgrading /\ pc[q] \in Upgrading => p = q
    /\ \A p \in Procs :
         /\ pc[p] = "migrating" => stored = "old"
         /\ pc[p] = "writing" => stored = "mixed"
         /\ pc[p] \in Checked \cup {"written"} => stored = "new"

LEMMA UpgradeInit == Init => UpgradeInv
BY DEF Init, UpgradeInv, TypeOK, Versions, Before3, Upgrading, Checked, Serving

LEMMA UpgradeStep == UpgradeInv /\ [Next]_vars => UpgradeInv'
<1> SUFFICES ASSUME UpgradeInv, [Next]_vars PROVE UpgradeInv'
  OBVIOUS
<1> USE DEF UpgradeInv, TypeOK, Versions, Before3, Upgrading, Checked, Serving, Goto, Passed
<1>1. CASE UNCHANGED vars
  BY <1>1 DEF vars
<1>2. ASSUME NEW p \in Procs, Load(p) PROVE UpgradeInv'
  BY <1>2 DEF Load
<1>3. ASSUME NEW p \in Procs, Check(p) PROVE UpgradeInv'
  BY <1>3 DEF Check
<1>4. ASSUME NEW p \in Procs, GetSet(p) PROVE UpgradeInv'
  <2>1. CASE version = "updating"
    BY <1>4, <2>1 DEF GetSet
  <2>2. CASE version \in Before3
    BY <1>4, <2>2 DEF GetSet
  <2>3. CASE version \notin Before3 \cup {"updating"}
    BY <1>4, <2>3 DEF GetSet
  <2> QED
    BY <2>1, <2>2, <2>3
<1>5. ASSUME NEW p \in Procs, BeginWrite(p) PROVE UpgradeInv'
  BY <1>5 DEF BeginWrite
<1>6. ASSUME NEW p \in Procs, EndWrite(p) PROVE UpgradeInv'
  BY <1>6 DEF EndWrite
<1>7. ASSUME NEW p \in Procs, RegisterUpdate(p) PROVE UpgradeInv'
  BY <1>7 DEF RegisterUpdate
<1>8. ASSUME NEW p \in Procs, Poll(p) PROVE UpgradeInv'
  BY <1>8 DEF Poll
<1>9. ASSUME NEW p \in Procs, Reload(p) PROVE UpgradeInv'
  BY <1>9 DEF Reload
<1>10. ASSUME NEW p \in Procs, Start(p) PROVE UpgradeInv'
  BY <1>10 DEF Start
<1>11. ASSUME NEW p \in Procs, Register(p) PROVE UpgradeInv'
  BY <1>11 DEF Register
<1>12. ASSUME NEW p \in Procs, Refork(p) PROVE UpgradeInv'
  BY <1>12 DEF Refork
<1>13. ASSUME NEW p \in Procs, UpdateFails(p) PROVE UpgradeInv'
  BY <1>13 DEF UpdateFails
<1>14. ASSUME NEW p \in Procs, RedisFails(p) PROVE UpgradeInv'
  BY <1>14 DEF RedisFails
<1>15. ASSUME NEW p \in Procs, Crash(p) PROVE UpgradeInv'
  BY <1>15 DEF Crash
<1> QED
  BY <1>1, <1>2, <1>3, <1>4, <1>5, <1>6, <1>7, <1>8, <1>9, <1>10, <1>11, <1>12, <1>13,
     <1>14, <1>15 DEF Next, Step

LEMMA UpgradeInvariant == Spec => []UpgradeInv
BY UpgradeInit, UpgradeStep, PTL DEF Spec

\* At most one process migrates the stored configuration, and none migrates
\* it twice, although reading the version and claiming the update are two
\* commands (checkGatewayVersion and updateGatewayConfiguration).
THEOREM MigrationIsExclusive == Spec => []MigratesOnce
<1>1. UpgradeInv => MigratesOnce
  BY DEF UpgradeInv, MigratesOnce
<1> QED
  BY <1>1, UpgradeInvariant, PTL

LEMMA RefinesInit == Init => M!Init
BY DEF Init, M!Init, Serving

LEMMA RefinesStep == UpgradeInv /\ [Next]_vars => [M!Next]_<<stored, {p \in Procs : pc[p] \in Serving}>>
<1> DEFINE serving == {p \in Procs : pc[p] \in Serving}
<1> SUFFICES ASSUME UpgradeInv, [Next]_vars
             PROVE  M!Next \/ (stored' = stored /\ serving' = serving)
  OBVIOUS
<1> USE DEF UpgradeInv, TypeOK, Serving, Upgrading, Checked, Goto, Passed
<1>1. CASE UNCHANGED vars
  BY <1>1 DEF vars
<1>2. ASSUME NEW p \in Procs, BeginWrite(p) PROVE M!Begin
  BY <1>2 DEF BeginWrite, M!Begin
<1>3. ASSUME NEW p \in Procs, EndWrite(p) PROVE M!End
  BY <1>3 DEF EndWrite, M!End
<1>4. ASSUME NEW p \in Procs, Start(p), pc'[p] = "started" PROVE M!Serve(p)
  BY <1>4 DEF Start, M!Serve
<1>5. ASSUME NEW p \in Procs, pc' = [pc EXCEPT ![p] = "down"], stored' = stored
      PROVE  M!Stop(p)
  BY <1>5 DEF M!Stop
\* The other steps neither begin nor end to serve.
<1>6. ASSUME NEW p \in Procs, NEW l \in {"loading", "check", "getset", "waiting", "hung",
                                         "migrating", "writing", "written", "reloading", "starting"},
             pc[p] \notin Serving, pc' = [pc EXCEPT ![p] = l]
      PROVE  serving' = serving
  BY <1>6
<1>7. ASSUME NEW p \in Procs, Register(p) PROVE stored' = stored /\ serving' = serving
  BY <1>7 DEF Register
<1>8. ASSUME NEW p \in Procs,
             Load(p) \/ Check(p) \/ GetSet(p) \/ RegisterUpdate(p) \/ Poll(p) \/ Refork(p)
      PROVE  stored' = stored /\ serving' = serving
  BY <1>6, <1>8 DEF Load, Check, GetSet, RegisterUpdate, Poll, Refork
<1>9. ASSUME NEW p \in Procs, Reload(p) \/ RedisFails(p)
      PROVE  M!Stop(p) \/ (stored' = stored /\ serving' = serving)
  BY <1>5, <1>6, <1>9 DEF Reload, RedisFails
<1>10. ASSUME NEW p \in Procs, UpdateFails(p) \/ Crash(p) PROVE M!Stop(p)
  BY <1>5, <1>10 DEF UpdateFails, Crash
<1>11. ASSUME NEW p \in Procs, Start(p) PROVE M!Serve(p) \/ M!Stop(p)
  BY <1>4, <1>5, <1>11 DEF Start
<1> QED
  BY <1>1, <1>2, <1>3, <1>7, <1>8, <1>9, <1>10, <1>11 DEF Next, Step, M!Next

\* The start of the gateways implements the abstract migration: no gateway
\* serves before the configuration has the newer format.
THEOREM UpgradeImplementsMigration == Spec => ImplementsMigration
BY UpgradeInvariant, RefinesInit, RefinesStep, PTL DEF Spec, ImplementsMigration, M!Spec
=============================================================================
