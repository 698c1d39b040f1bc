----------------------- MODULE GatewayLifecycleProofs -----------------------
(***************************************************************************)
(* What restarts that do not overlap never leave behind, for any number of *)
(* changes, failures and jobs of GatewayLifecycle.                         *)
(***************************************************************************)
EXTENDS GatewayLifecycle, FiniteSetTheorems, TLAPS

\* A reply to a job that lists the APIs is a version they have had, and one to a
\* job that reads the configuration a version of it.
ValueOK(r) ==
    /\ step[r.job] \in {"listing", "listingApis"} => r.value \in {Error} \cup (1..apis)
    /\ step[r.job] = "reading" => r.value \in {Error} \cup Versions

\* A job that asks waits for one command, or for one reply, and no other does.
PendingOK ==
    /\ \A i \in 1..Len(cmds) : step[cmds[i]] \in Asking
    /\ \A i, k \in 1..Len(cmds) : cmds[i] = cmds[k] => i = k
    /\ \A i \in 1..Len(replies), k \in 1..Len(cmds) : cmds[k] # replies[i].job
    /\ \A i, k \in 1..Len(replies) : replies[i].job = replies[k].job => i = k
    /\ \A i \in 1..Len(replies) : step[replies[i].job] \in Asking /\ ValueOK(replies[i])

TypeInv == TypeOK /\ PendingOK

LEMMA Elements ==
    ASSUME NEW S, NEW q \in Seq(S)
    PROVE  Len(q) \in Nat /\ \A i \in 1..Len(q) : q[i] \in S
OBVIOUS

LEMMA Appended ==
    ASSUME NEW S, NEW q \in Seq(S), NEW x \in S
    PROVE  /\ Append(q, x) \in Seq(S) /\ Len(Append(q, x)) = Len(q) + 1 /\ Len(q) \in Nat
           /\ \A i \in 1..Len(q) : Append(q, x)[i] = q[i] /\ q[i] \in S
           /\ Append(q, x)[Len(q) + 1] = x
OBVIOUS

LEMMA Taken ==
    ASSUME NEW S, NEW q \in Seq(S), q # <<>>
    PROVE  /\ Tail(q) \in Seq(S) /\ Len(Tail(q)) = Len(q) - 1 /\ Len(q) \in Nat \ {0}
           /\ Head(q) = q[1]
           /\ \A i \in 1..Len(q) : q[i] \in S
           /\ \A i \in 1..(Len(q) - 1) : Tail(q)[i] = q[i + 1]
OBVIOUS

LEMMA PendingTypes ==
    ASSUME TypeOK
    PROVE  /\ Len(cmds) \in Nat /\ Len(replies) \in Nat
           /\ \A i \in 1..Len(cmds) : cmds[i] \in Jobs
           /\ \A i \in 1..Len(replies) :
                replies[i].job \in Jobs /\ replies[i].value \in {Error} \cup Nat
<1>1. \A r \in [job : Jobs, value : {Error} \cup Nat] :
        r.job \in Jobs /\ r.value \in {Error} \cup Nat
  OBVIOUS
<1>2. cmds \in Seq(Jobs) /\ replies \in Seq([job : Jobs, value : {Error} \cup Nat])
  BY DEF TypeOK
<1>3. \A i \in 1..Len(replies) : replies[i] \in [job : Jobs, value : {Error} \cup Nat]
  BY <1>2, Elements
<1>4. Len(cmds) \in Nat /\ Len(replies) \in Nat /\ \A i \in 1..Len(cmds) : cmds[i] \in Jobs
  BY <1>2, Elements
<1> QED
  BY <1>1, <1>3, <1>4

LEMMA ReplyTaken ==
    ASSUME TypeOK, replies # <<>>, replies' = Tail(replies)
    PROVE  /\ Len(replies') = Len(replies) - 1 /\ Len(replies) \in Nat \ {0}
           /\ replies' \in Seq([job : Jobs, value : {Error} \cup Nat])
           /\ Head(replies) = replies[1] /\ replies[1].job \in Jobs
           /\ \A i \in 1..Len(replies') :
                replies'[i] = replies[i + 1] /\ i + 1 \in 1..Len(replies)
<1>1. replies \in Seq([job : Jobs, value : {Error} \cup Nat])
  BY DEF TypeOK
<1>2. /\ Tail(replies) \in Seq([job : Jobs, value : {Error} \cup Nat])
      /\ Len(Tail(replies)) = Len(replies) - 1 /\ Len(replies) \in Nat \ {0}
      /\ Head(replies) = replies[1]
      /\ \A i \in 1..(Len(replies) - 1) : Tail(replies)[i] = replies[i + 1]
  BY <1>1, Taken
<1>3. replies[1].job \in Jobs
  BY <1>2, PendingTypes
<1> QED
  BY <1>2, <1>3

\* A job that goes from one step to another without asking.
LEMMA GoesOn ==
    ASSUME TypeInv, NEW j \in Jobs, NEW s,
           s \notin Asking, step[j] \notin Asking,
           Goes(j, s), UNCHANGED <<cmds, replies, apis>>
    PROVE  PendingOK'
<1>1. \A i \in 1..Len(cmds) : cmds[i] \in Jobs
  BY PendingTypes DEF TypeInv
<1>2. \A i \in 1..Len(replies) : replies[i].job \in Jobs
  BY PendingTypes DEF TypeInv
<1>3. \A k \in Jobs : k # j => step'[k] = step[k]
  BY DEF TypeInv, TypeOK, Goes
<1> QED
  BY <1>1, <1>2, <1>3 DEF TypeInv, PendingOK, ValueOK

\* A job that had not asked asks.
LEMMA Asks ==
    ASSUME TypeInv, NEW j \in Jobs, NEW s \in Asking, step[j] \notin Asking,
           Goes(j, s), Send(j), UNCHANGED <<replies, apis>>
    PROVE  PendingOK'
<1>1. \A i \in 1..Len(cmds) : cmds[i] \in Jobs /\ cmds[i] # j
  BY DEF TypeInv, TypeOK, PendingOK
<1>2. \A i \in 1..Len(replies) : replies[i].job \in Jobs /\ replies[i].job # j
  BY PendingTypes DEF TypeInv, PendingOK
<1>3. step'[j] = s /\ \A k \in Jobs : k # j => step'[k] = step[k]
  BY DEF TypeInv, TypeOK, Goes
<1>4. /\ Len(cmds') = Len(cmds) + 1 /\ Len(cmds) \in Nat
      /\ \A i \in 1..Len(cmds) : cmds'[i] = cmds[i]
      /\ cmds'[Len(cmds) + 1] = j
  BY Appended DEF TypeInv, TypeOK, Send
<1>5. \A i \in 1..Len(cmds') : i \in 1..Len(cmds) \/ i = Len(cmds) + 1
  BY <1>4
<1> QED
  BY SMTT(40), <1>1, <1>2, <1>3, <1>4, <1>5 DEF TypeInv, PendingOK, ValueOK

\* A reply is handled: its job waits for nothing any more, before it goes on.
LEMMA Handled ==
    ASSUME TypeInv, NEW j \in Jobs, NEW s, s \notin Asking,
           replies # <<>>, Head(replies).job = j, replies' = Tail(replies),
           Goes(j, s), UNCHANGED <<cmds, apis>>
    PROVE  PendingOK'
<1>1. \A i \in 1..Len(cmds) : cmds[i] \in Jobs
  BY PendingTypes DEF TypeInv
<1>2. /\ Len(replies') = Len(replies) - 1 /\ Len(replies) \in Nat \ {0}
      /\ replies[1].job = j
      /\ \A i \in 1..Len(replies) : replies[i].job \in Jobs
      /\ \A i \in 1..Len(replies') : replies'[i] = replies[i + 1] /\ i + 1 \in 1..Len(replies)
  BY ReplyTaken, PendingTypes DEF TypeInv
<1>3. \A k \in Jobs : k # j => step'[k] = step[k]
  BY DEF TypeInv, TypeOK, Goes
<1>4. \A i \in 1..Len(replies') : replies'[i].job # j
  BY <1>2 DEF TypeInv, PendingOK
<1>5. \A i \in 1..Len(cmds) : cmds[i] # j
  BY <1>2 DEF TypeInv, PendingOK
<1> QED
  BY <1>1, <1>2, <1>3, <1>4, <1>5 DEF TypeInv, PendingOK, ValueOK

\* A reply is handled, and its job asks again.
LEMMA AsksAgain ==
    ASSUME TypeInv, NEW j \in Jobs,
           replies # <<>>, Head(replies).job = j, replies' = Tail(replies),
           Goes(j, "saving"), Send(j), UNCHANGED apis
    PROVE  PendingOK'
<1>1. \A i \in 1..Len(cmds) : cmds[i] \in Jobs
  BY PendingTypes DEF TypeInv
<1>2. /\ Len(replies') = Len(replies) - 1 /\ Len(replies) \in Nat \ {0}
      /\ replies[1].job = j
      /\ \A i \in 1..Len(replies) : replies[i].job \in Jobs
      /\ \A i \in 1..Len(replies') : replies'[i] = replies[i + 1] /\ i + 1 \in 1..Len(replies)
  BY ReplyTaken, PendingTypes DEF TypeInv
<1>3. step'[j] = "saving" /\ \A k \in Jobs : k # j => step'[k] = step[k]
  BY DEF TypeInv, TypeOK, Goes
<1>4. \A i \in 1..Len(replies') : replies'[i].job # j
  BY <1>2 DEF TypeInv, PendingOK
<1>5. \A i \in 1..Len(cmds) : cmds[i] # j
  BY <1>2 DEF TypeInv, PendingOK
<1>6. /\ Len(cmds') = Len(cmds) + 1 /\ Len(cmds) \in Nat
      /\ \A i \in 1..Len(cmds) : cmds'[i] = cmds[i]
      /\ cmds'[Len(cmds) + 1] = j
  BY Appended DEF TypeInv, TypeOK, Send
<1>7. \A i \in 1..Len(cmds') : i \in 1..Len(cmds) \/ i = Len(cmds) + 1
  BY <1>6
<1>8. "saving" \in Asking
  BY DEF Asking
<1>9. \A i \in 1..Len(cmds') : step'[cmds'[i]] \in Asking
  BY <1>1, <1>3, <1>6, <1>7, <1>8 DEF TypeInv, PendingOK
<1>10. \A i, k \in 1..Len(cmds') : cmds'[i] = cmds'[k] => i = k
  BY <1>5, <1>6, <1>7 DEF TypeInv, PendingOK
<1>11. \A i \in 1..Len(replies'), k \in 1..Len(cmds') : cmds'[k] # replies'[i].job
  BY <1>2, <1>4, <1>6, <1>7 DEF TypeInv, PendingOK
<1>12. \A i, k \in 1..Len(replies') : replies'[i].job = replies'[k].job => i = k
  BY <1>2 DEF TypeInv, PendingOK
<1>13. \A i \in 1..Len(replies') : (step[replies[i].job] \in Asking /\ ValueOK(replies[i]))'
  BY <1>2, <1>3, <1>4 DEF TypeInv, PendingOK, ValueOK
<1> QED
  BY <1>9, <1>10, <1>11, <1>12, <1>13 DEF PendingOK

\* A command is executed: its job waits for the reply instead.
LEMMA Answered ==
    ASSUME TypeInv, cmds # <<>>, NEW v \in {Error} \cup Nat,
           ValueOK([job |-> Head(cmds), value |-> v]),
           Answer(v), UNCHANGED <<step, apis>>
    PROVE  PendingOK'
<1> DEFINE new == [job |-> Head(cmds), value |-> v]
<1>1. /\ Len(cmds') = Len(cmds) - 1 /\ Len(cmds) \in Nat \ {0}
      /\ Head(cmds) = cmds[1] /\ Head(cmds) \in Jobs
      /\ \A i \in 1..Len(cmds') : cmds'[i] = cmds[i + 1] /\ i + 1 \in 1..Len(cmds)
  BY Taken DEF TypeInv, TypeOK, Answer
<1>2. /\ Len(replies') = Len(replies) + 1 /\ Len(replies) \in Nat
      /\ \A i \in 1..Len(replies) : replies'[i] = replies[i]
      /\ replies'[Len(replies) + 1] = new
  BY <1>1, Appended DEF TypeInv, TypeOK, Answer
<1>3. \A i \in 1..Len(replies') : i \in 1..Len(replies) \/ i = Len(replies) + 1
  BY <1>2
<1>4. new.job = cmds[1] /\ 1 \in 1..Len(cmds) /\ ValueOK(new)
  BY <1>1
<1>5. \A r : ValueOK(r) => ValueOK(r)'
  BY DEF ValueOK
<1>7. \A i \in 1..Len(cmds') : cmds'[i] # cmds[1]
  BY <1>1, <1>4 DEF TypeInv, PendingOK
<1> HIDE DEF new
<1>8. \A i \in 1..Len(cmds') : step'[cmds'[i]] \in Asking
  BY <1>1 DEF TypeInv, PendingOK
<1>9. \A i, k \in 1..Len(cmds') : cmds'[i] = cmds'[k] => i = k
  BY <1>1 DEF TypeInv, PendingOK
<1>10. \A i \in 1..Len(replies'), k \in 1..Len(cmds') : cmds'[k] # replies'[i].job
  BY <1>1, <1>2, <1>3, <1>4, <1>7 DEF TypeInv, PendingOK
<1>11. \A i, k \in 1..Len(replies') : replies'[i].job = replies'[k].job => i = k
  BY <1>2, <1>3, <1>4 DEF TypeInv, PendingOK
<1>12. \A i \in 1..Len(replies') : (step[replies[i].job] \in Asking /\ ValueOK(replies[i]))'
  <2>1. \A i \in 1..Len(replies) : ValueOK(replies[i])
    BY DEF TypeInv, PendingOK
  <2>2. ASSUME NEW i \in 1..Len(replies') PROVE step'[replies'[i].job] \in Asking
    BY <1>2, <1>3, <1>4 DEF TypeInv, PendingOK
  <2>3. \A i \in 1..Len(replies') : ValueOK(replies'[i])
    BY <1>2, <1>3, <1>4, <2>1
  <2>4. ASSUME NEW i \in 1..Len(replies') PROVE ValueOK(replies[i])'
    BY <2>3 DEF ValueOK
  <2> QED
    BY <2>2, <2>4
<1> QED
  BY <1>8, <1>9, <1>10, <1>11, <1>12 DEF PendingOK, ValueOK

-----------------------------------------------------------------------------
Stopped == {"closingAdmin", "closing", "installing", "listing"}
Down == {"closing", "installing", "listing"}

\* What holds while no two restarts have overlapped: one job at most restarts,
\* it has freed the ports before it builds an application, and what listens is
\* the application that is current, with its routes.
AloneInv ==
    /\ ~dead
    /\ \A i, j \in Jobs : step[i] \in Restarting /\ step[j] \in Restarting => i = j
    /\ \A j \in Jobs : step[j] \in Stopped => ~admin
    /\ \A j \in Jobs : step[j] \in Down => listening = 0
    /\ \A j \in Jobs : step[j] = "reading" => config = {}
    /\ listening # 0 => listening = app /\ routes # 0
    /\ config = {} \/ \E v \in Versions : config = {v}

LifeInv ==
    /\ TypeInv
    /\ routes # 0 => app \in mounted
    /\ ~overlapped => AloneInv

LEMMA FreeIsIdle ==
    ASSUME Busy # Jobs PROVE Free \in Jobs /\ step[Free] = Idle
BY DEF Busy, Free

LEMMA ReplyFacts ==
    ASSUME TypeInv, NEW j \in Jobs, NEW s, Replied(j, s)
    PROVE  /\ replies # <<>> /\ Head(replies).job = j /\ replies' = Tail(replies)
           /\ step[j] \in s \cap Asking /\ ValueOK(Reply)
           /\ Reply.value \in {Error} \cup Nat
           /\ replies' \in Seq([job : Jobs, value : {Error} \cup Nat])
<1>1. replies # <<>> /\ Reply.job = j /\ step[j] \in s /\ replies' = Tail(replies)
  BY DEF Replied
<1>2. Len(replies) \in Nat \ {0} /\ Reply = replies[1]
      /\ replies' \in Seq([job : Jobs, value : {Error} \cup Nat])
  BY <1>1, ReplyTaken DEF TypeInv, Reply
<1>3. 1 \in 1..Len(replies)
  BY <1>2
<1>4. Reply.value \in {Error} \cup Nat
  BY <1>2, <1>3, PendingTypes DEF TypeInv
<1>5. step[Reply.job] \in Asking /\ ValueOK(Reply)
  BY <1>2, <1>3 DEF TypeInv, PendingOK
<1> QED
  BY <1>1, <1>2, <1>4, <1>5 DEF Reply

\* Where a restart goes when its servers stop, and what it leaves of them.
LEMMA Stops ==
    ASSUME TypeInv, NEW j \in Jobs, StopAdmin(j) \/ (Stop(j) /\ UNCHANGED admin)
    PROVE  /\ \E s \in {"closingAdmin", "closing", "installing", Idle} : Goes(j, s)
           /\ app' \in Nat \ {0} /\ mounted' = mounted /\ app' >= app
           /\ routes' \in {0, routes} /\ listening' \in 0..app /\ listening' \in {0, listening}
           /\ admin' \in BOOLEAN /\ dead' = dead
           /\ app' # app => routes' = 0 /\ listening' = 0
           /\ routes' # routes => listening' = 0
<1>1. app \in Nat \ {0} /\ listening \in 0..app /\ admin \in BOOLEAN
  BY DEF TypeInv, TypeOK
<1>2. CASE admin /\ Goes(j, "closingAdmin") /\ admin' = FALSE
           /\ UNCHANGED <<app, mounted, routes, listening, dead>>
  <2>1. /\ app' \in Nat \ {0} /\ mounted' = mounted /\ app' >= app
        /\ routes' \in {0, routes} /\ listening' \in 0..app /\ listening' \in {0, listening}
        /\ app' = app /\ routes' = routes
    BY <1>1, <1>2
  <2>2. admin' \in BOOLEAN /\ dead' = dead
    BY <1>2
  <2> QED
    BY <1>2, <2>1, <2>2
<1>3. CASE listening # 0 /\ Goes(j, "closing") /\ listening' = 0
           /\ UNCHANGED <<app, mounted, routes, dead>> /\ UNCHANGED admin
  BY <1>1, <1>3
<1>4. CASE listening = 0 /\ Initialize(j) /\ UNCHANGED listening /\ UNCHANGED admin
  <2>1. app' = app + 1 /\ routes' = 0 /\ mounted' = mounted /\ dead' = dead
    BY <1>4 DEF Initialize, ClearRoutes
  <2>2. Goes(j, Idle) \/ Goes(j, "installing")
    BY <1>4 DEF Initialize
  <2> QED
    BY <1>1, <1>4, <2>1, <2>2
<1> QED
  BY <1>2, <1>3, <1>4 DEF StopAdmin, Stop

LEMMA StopsAlone ==
    ASSUME TypeInv, AloneInv, NEW j \in Jobs,
           \/ StopAdmin(j)
           \/ Stop(j) /\ UNCHANGED admin /\ step[j] = "closingAdmin"
    PROVE  /\ step'[j] \in Stopped => ~admin'
           /\ step'[j] \in Down => listening' = 0
           /\ listening' # 0 => listening' = app' /\ routes' # 0
           /\ admin' => admin
<1>1. step \in [Jobs -> {Idle} \cup Restarting \cup Reloading] /\ admin \in BOOLEAN
  BY DEF TypeInv, TypeOK
<1>2. \A s : Goes(j, s) => step'[j] = s
  BY <1>1 DEF Goes
<1>3. listening # 0 => listening = app /\ routes # 0
  BY DEF AloneInv
<1>4. step[j] = "closingAdmin" => ~admin
  BY DEF AloneInv, Stopped
<1>5. CASE admin /\ Goes(j, "closingAdmin") /\ admin' = FALSE
           /\ UNCHANGED <<app, mounted, routes, listening, dead>>
  BY <1>5, <1>2, <1>3 DEF Down
<1>6. CASE ~admin /\ Stop(j) /\ UNCHANGED admin
  <2>1. CASE listening # 0 /\ Goes(j, "closing") /\ listening' = 0
             /\ UNCHANGED <<app, mounted, routes, dead>>
    BY <1>6, <2>1
  <2>2. CASE listening = 0 /\ Initialize(j) /\ UNCHANGED listening
    BY <1>6, <2>2
  <2> QED
    BY <1>6, <2>1, <2>2 DEF Stop
<1> QED
  BY <1>4, <1>5, <1>6 DEF StopAdmin

\* A restart that stops its servers keeps the invariant, if what it leaves
\* pending and the configuration do.
LEMMA StopKeeps ==
    ASSUME LifeInv, NEW j \in Jobs, step[j] \in Restarting,
           \/ StopAdmin(j)
           \/ Stop(j) /\ UNCHANGED admin /\ step[j] = "closingAdmin",
           UNCHANGED <<stores, scope, failures, events, cmds, overlapped, stale>>,
           replies' \in Seq([job : Jobs, value : {Error} \cup Nat]), PendingOK',
           config' \subseteq Versions,
           ~overlapped => config' = {} \/ \E v \in Versions : config' = {v}
    PROVE  LifeInv'
<1> USE DEF LifeInv, TypeInv
<1>t. TypeOK
  OBVIOUS
<1>1. step \in [Jobs -> {Idle} \cup Restarting \cup Reloading]
  BY <1>t DEF TypeOK
<1>2. PICK s \in {"closingAdmin", "closing", "installing", Idle} : Goes(j, s)
  BY Stops
<1>3. step'[j] = s /\ \A k \in Jobs : k # j => step'[k] = step[k]
  BY <1>1, <1>2 DEF Goes
<1>4. /\ app' \in Nat \ {0} /\ mounted' = mounted /\ app' >= app
      /\ routes' \in {0, routes} /\ listening' \in 0..app /\ listening' \in {0, listening}
      /\ app' # app => routes' = 0 /\ listening' = 0
      /\ routes' # routes => listening' = 0
  BY Stops
<1>5. admin' \in BOOLEAN /\ dead' = dead
  BY Stops
<1>6. TypeOK'
  <2>1. step' \in [Jobs -> {Idle} \cup Restarting \cup Reloading]
    BY <1>1, <1>2 DEF Goes, Restarting
  <2>2. mounted' \subseteq 1..app' /\ routes' \in 0..apis' /\ listening' \in 0..app'
    BY <1>4 DEF TypeOK, stores
  <2> QED
    BY <1>4, <1>5, <2>1, <2>2 DEF TypeOK, stores
<1>7. routes' # 0 => app' \in mounted'
  BY <1>4 DEF TypeOK
<1>8. ASSUME ~overlapped' PROVE AloneInv'
  <2>1. AloneInv
    BY <1>8
  <2>2. /\ step'[j] \in Stopped => ~admin'
        /\ step'[j] \in Down => listening' = 0
        /\ listening' # 0 => listening' = app' /\ routes' # 0
        /\ admin' => admin
    BY <2>1, StopsAlone
  <2>3. \A k \in Jobs : k # j => step'[k] \notin Restarting
    BY <1>3, <2>1 DEF AloneInv
  <2>4. \A k \in Jobs : step'[k] = "reading" => config' = {}
    BY <1>3, <2>3 DEF Restarting, Idle
  <2>5. Stopped \subseteq Restarting /\ Down \subseteq Restarting
    BY DEF Stopped, Down, Restarting
  <2>6. ~dead'
    BY <1>5, <2>1 DEF AloneInv
  <2>7. config' = {} \/ \E v \in Versions : config' = {v}
    BY <1>8
  <2> QED
    BY <2>2, <2>3, <2>4, <2>5, <2>6, <2>7 DEF AloneInv
<1> QED
  BY <1>6, <1>7, <1>8

-----------------------------------------------------------------------------
LEMMA LifeInit == Init => LifeInv
<1> SUFFICES ASSUME Init PROVE LifeInv
  OBVIOUS
<1>1. TypeOK
  <2>1. events \in Seq(BOOLEAN) /\ cmds \in Seq(Jobs)
        /\ replies \in Seq([job : Jobs, value : {Error} \cup Nat])
    BY DEF Init
  <2>2. saved \in Versions /\ config \subseteq Versions /\ changes \in 0..MaxConfigs
        /\ apis \in 1..(MaxApiChanges + 1) /\ failures \in 0..MaxFailures
    BY LifecycleAssumption DEF Init, Versions, Default
  <2>3. app \in Nat \ {0} /\ mounted \subseteq 1..app /\ routes \in 0..apis /\ listening \in 0..app
    BY DEF Init
  <2>5. admin \in BOOLEAN /\ dead \in BOOLEAN /\ overlapped \in BOOLEAN /\ stale \in BOOLEAN
    BY DEF Init
  <2>4. scope \in {"serial", "overlapping", "failing"}
        /\ step \in [Jobs -> {Idle} \cup Restarting \cup Reloading]
    BY DEF Init
  <2> QED
    BY <2>1, <2>2, <2>3, <2>4, <2>5 DEF TypeOK
<1>2. PendingOK
  BY DEF Init, PendingOK
<1>3. AloneInv
  BY LifecycleAssumption DEF Init, AloneInv, Restarting, Stopped, Down, Idle, Versions, Default
<1> QED
  BY <1>1, <1>2, <1>3 DEF LifeInv, TypeInv, Init

\* Every step keeps the invariant.
LEMMA LifeStep == LifeInv /\ [Next]_vars => LifeInv'
<1> SUFFICES ASSUME LifeInv, [Next]_vars PROVE LifeInv'
  OBVIOUS
<1> USE DEF LifeInv, TypeInv
<1>t. TypeOK
  OBVIOUS
<1>u. step \in [Jobs -> {Idle} \cup Restarting \cup Reloading]
  BY <1>t DEF TypeOK
<1>g. \A j \in Jobs : \A s : Goes(j, s) => step'[j] = s /\ \A k \in Jobs : k # j => step'[k] = step[k]
  BY <1>u DEF Goes
<1>1. CASE UNCHANGED vars
  BY <1>1 DEF vars, TypeOK, PendingOK, ValueOK, AloneInv
<1>2. ASSUME NEW v \in Versions, ChangeConfig(v) PROVE LifeInv'
  <2>1. TypeOK'
    <3>1. events' \in Seq(BOOLEAN)
      BY <1>2 DEF ChangeConfig, TypeOK
    <3>2. changes' \in 0..MaxConfigs
      BY <1>2, LifecycleAssumption DEF ChangeConfig, TypeOK
    <3> QED
      BY <1>2, <3>1, <3>2 DEF ChangeConfig, TypeOK, servers
  <2>2. PendingOK'
    BY <1>2 DEF ChangeConfig, PendingOK, ValueOK
  <2>3. (~overlapped => AloneInv)'
    BY <1>2 DEF ChangeConfig, AloneInv, servers
  <2> QED
    BY <1>2, <2>1, <2>2, <2>3 DEF ChangeConfig, servers
<1>3. ASSUME ChangeApis PROVE LifeInv'
  <2>0. apis \in 1..(MaxApiChanges + 1) /\ apis' = apis + 1 /\ apis' \in 1..(MaxApiChanges + 1)
    BY <1>3, <1>t, LifecycleAssumption DEF ChangeApis, TypeOK
  <2>1. TypeOK'
    BY <1>3, <2>0 DEF ChangeApis, TypeOK, servers
  <2>2. PendingOK'
    BY <1>3, <2>0 DEF ChangeApis, PendingOK, ValueOK
  <2>3. (~overlapped => AloneInv)'
    BY <1>3 DEF ChangeApis, AloneInv, servers
  <2> QED
    BY <1>3, <2>1, <2>2, <2>3 DEF ChangeApis, servers
<1>4. ASSUME StartReload PROVE LifeInv'
  <2>1. Free \in Jobs /\ step[Free] = Idle
    BY <1>4, FreeIsIdle DEF StartReload
  <2>2. TypeOK'
    <3>1. events' \in Seq(BOOLEAN)
      BY <1>4, <1>t, Taken DEF StartReload, TypeOK
    <3>2. cmds' \in Seq(Jobs)
      BY <1>4, <2>1, Appended DEF StartReload, TypeOK, Send
    <3>3. step' \in [Jobs -> {Idle} \cup Restarting \cup Reloading]
      BY <1>4, <1>u, <2>1 DEF StartReload, Goes, Restarting
    <3>4. overlapped' \in BOOLEAN /\ stale' \in BOOLEAN
      BY <1>4 DEF StartReload, TypeOK
    <3> QED
      BY <1>4, <3>1, <3>2, <3>3, <3>4 DEF StartReload, TypeOK, Live, Drop, servers
  <2>3. PendingOK'
    BY <1>4, <2>1, Asks DEF StartReload, Live, Asking, Idle
  <2>4. ASSUME ~overlapped' PROVE AloneInv'
    <3>1. ~overlapped /\ \A j \in Jobs : step[j] \notin Restarting
      BY <1>4, <2>4 DEF StartReload, TypeOK
    <3>2. \A j \in Jobs : step'[j] \in Restarting => j = Free /\ step'[j] = "reading"
      BY <1>4, <1>g, <2>1, <3>1 DEF StartReload
    <3>3. config' = {} /\ UNCHANGED servers
      BY <1>4 DEF StartReload, Drop
    <3> QED
      BY <3>1, <3>2, <3>3 DEF AloneInv, servers, Restarting, Stopped, Down
  <2> QED
    BY <1>4, <2>2, <2>3, <2>4 DEF StartReload, servers
<1>5. ASSUME StartApiJob PROVE LifeInv'
  <2>1. Free \in Jobs /\ step[Free] = Idle
    BY <1>5, FreeIsIdle DEF StartApiJob
  <2>2. TypeOK'
    <3>1. events' \in Seq(BOOLEAN)
      BY <1>5, <1>t, Taken DEF StartApiJob, TypeOK
    <3>2. step' \in [Jobs -> {Idle} \cup Restarting \cup Reloading]
      BY <1>5, <1>u, <2>1 DEF StartApiJob, Goes, Reloading
    <3> QED
      BY <1>5, <3>1, <3>2 DEF StartApiJob, TypeOK, Live, servers
  <2>3. PendingOK'
    BY <1>5, <2>1, GoesOn DEF StartApiJob, Live, Asking, Idle
  <2>4. (~overlapped => AloneInv)'
    BY ZenonT(40), <1>5, <1>g, <2>1 DEF StartApiJob, AloneInv, servers, Restarting, Stopped, Down
  <2> QED
    BY <1>5, <2>2, <2>3, <2>4 DEF StartApiJob, servers
<1>6. ASSUME RedisExec PROVE LifeInv'
  <2> DEFINE j == Head(cmds)
  <2>1. j \in Jobs /\ step[j] \in Asking /\ cmds' = Tail(cmds) /\ cmds' \in Seq(Jobs)
    <3>1. cmds # <<>> /\ cmds' = Tail(cmds) /\ cmds \in Seq(Jobs)
      BY <1>6, <1>t DEF RedisExec, Answer, TypeOK
    <3>2. Len(cmds) \in Nat \ {0} /\ Head(cmds) = cmds[1] /\ Tail(cmds) \in Seq(Jobs)
      BY <3>1, Taken
    <3>3. 1 \in 1..Len(cmds)
      BY <3>2
    <3> QED
      BY <3>1, <3>2, <3>3, PendingTypes DEF PendingOK
  <2>2. PICK v \in Nat : /\ Answer(v)
                         /\ step[j] \in {"listing", "listingApis"} => v = apis
                         /\ step[j] = "reading" => v \in Versions
    <3>1. apis \in Nat /\ saved \in Nat /\ saved \in Versions /\ Default \in Nat
      BY <1>t, LifecycleAssumption DEF TypeOK, Versions, Default
    <3>2. CASE step[j] = "reading"
      BY <1>6, <3>1, <3>2 DEF RedisExec
    <3>3. CASE step[j] = "saving"
      BY <1>6, <3>1, <3>3 DEF RedisExec
    <3>4. CASE step[j] \in {"listing", "listingApis"}
      BY <1>6, <3>1, <3>4 DEF RedisExec
    <3> QED
      BY <2>1, <3>2, <3>3, <3>4 DEF Asking
  <2>3. PendingOK'
    <3>1. apis \in 1..apis
      BY <1>t DEF TypeOK
    <3>2. ValueOK([job |-> j, value |-> v])
      BY <2>2, <3>1 DEF ValueOK
    <3> QED
      BY <1>6, <2>2, <3>2, Answered DEF RedisExec, Live
  <2>4. /\ saved' \in Versions /\ events' \in Seq(BOOLEAN)
        /\ UNCHANGED <<scope, apis, changes, failures, step, config, servers, overlapped, stale>>
    <3>1. saved \in Versions /\ Default \in Versions /\ events \in Seq(BOOLEAN)
          /\ Append(events, TRUE) \in Seq(BOOLEAN)
      BY <1>t, LifecycleAssumption DEF TypeOK, Versions, Default
    <3> QED
      BY <1>6, <3>1 DEF RedisExec, Live
  <2>5. replies' \in Seq([job : Jobs, value : {Error} \cup Nat])
    <3>1. [job |-> j, value |-> v] \in [job : Jobs, value : {Error} \cup Nat]
      BY <2>1
    <3> QED
      BY <2>2, <3>1, <1>t, Appended DEF Answer, TypeOK
  <2>6. TypeOK'
    BY <2>1, <2>4, <2>5 DEF TypeOK, servers
  <2>7. (~overlapped => AloneInv)'
    BY <2>4 DEF AloneInv, servers
  <2> QED
    BY <2>3, <2>4, <2>6, <2>7 DEF servers
<1>7. ASSUME RedisFails PROVE LifeInv'
  <2>1. Head(cmds) \in Jobs /\ cmds' \in Seq(Jobs) /\ cmds # <<>>
    <3>1. cmds # <<>> /\ cmds' = Tail(cmds) /\ cmds \in Seq(Jobs)
      BY <1>7, <1>t DEF RedisFails, Answer, TypeOK
    <3>2. Len(cmds) \in Nat \ {0} /\ Head(cmds) = cmds[1] /\ Tail(cmds) \in Seq(Jobs)
      BY <3>1, Taken
    <3> QED
      BY <3>1, <3>2, PendingTypes
  <2>2. PendingOK'
    <3>1. ValueOK([job |-> Head(cmds), value |-> Error])
      BY DEF ValueOK
    <3> QED
      BY <1>7, <2>1, <3>1, Answered DEF RedisFails, Live
  <2>3. replies' \in Seq([job : Jobs, value : {Error} \cup Nat])
    <3>1. [job |-> Head(cmds), value |-> Error] \in [job : Jobs, value : {Error} \cup Nat]
      BY <2>1
    <3> QED
      BY <1>7, <3>1, <1>t, Appended DEF RedisFails, Answer, TypeOK
  <2>4. failures' \in 0..MaxFailures
    BY <1>7, <1>t, LifecycleAssumption DEF RedisFails, TypeOK
  <2>5. TypeOK'
    BY <1>7, <2>1, <2>3, <2>4 DEF RedisFails, Live, TypeOK, servers
  <2>6. (~overlapped => AloneInv)'
    BY <1>7 DEF RedisFails, AloneInv, servers
  <2> QED
    BY <1>7, <2>2, <2>5, <2>6 DEF RedisFails, servers
<1>8. ASSUME NEW j \in Jobs, Installed(j) PROVE LifeInv'
  <2>1. PICK s \in {"listing", "listingApis"} :
            /\ Goes(j, s) /\ Send(j)
            /\ step[j] = IF s = "listing" THEN "installing" ELSE "installingApis"
    BY <1>8 DEF Installed
  <2>2. PendingOK'
    BY <1>8, <2>1, Asks DEF Installed, Live, Asking
  <2>3. TypeOK'
    <3>1. cmds' \in Seq(Jobs)
      BY <2>1, Appended DEF TypeOK, Send
    <3>2. step' \in [Jobs -> {Idle} \cup Restarting \cup Reloading]
      BY <1>u, <2>1 DEF Goes, Restarting, Reloading
    <3> QED
      BY <1>8, <3>1, <3>2 DEF Installed, TypeOK, Live, servers
  <2>4. (~overlapped => AloneInv)'
    BY <1>8, <1>g, <2>1 DEF Installed, AloneInv, servers, Restarting, Stopped, Down
  <2> QED
    BY <1>8, <2>2, <2>3, <2>4 DEF Installed, servers
<1>9. ASSUME NEW j \in Jobs, ConfigRead(j) PROVE LifeInv'
  <2>1. Replied(j, {"reading"}) /\ StopAdmin(j)
    BY <1>9 DEF ConfigRead
  <2>2. PICK s \in {"closingAdmin", "closing", "installing", Idle} : Goes(j, s)
    BY <2>1, Stops
  <2>3. step[j] = "reading" /\ Reply.value \in Versions
    BY <1>9, <2>1, ReplyFacts DEF ValueOK, ConfigRead, Replied
  <2>4. config' = config \cup {Reply.value}
    BY <1>9 DEF ConfigRead
  <2>5. ~overlapped => config' = {Reply.value}
    BY <2>3, <2>4 DEF AloneInv
  <2>6. PendingOK'
    BY <1>9, <2>1, <2>2, ReplyFacts, Handled DEF ConfigRead, Replied, Live, Asking, Idle
  <2>7. config' \subseteq Versions
    BY <2>3, <2>4 DEF TypeOK
  <2> QED
    BY <1>9, <2>1, <2>3, <2>5, <2>6, <2>7, ReplyFacts, StopKeeps
    DEF ConfigRead, Replied, Live, stores, Restarting
<1>10. ASSUME NEW j \in Jobs, ConfigMissing(j) PROVE LifeInv'
  <2>1. Replied(j, {"reading"})
    BY <1>10 DEF ConfigMissing
  <2>2. /\ replies # <<>> /\ Head(replies).job = j /\ replies' = Tail(replies)
        /\ replies' \in Seq([job : Jobs, value : {Error} \cup Nat])
        /\ step[j] \in {"reading"} \cap Asking
    BY <2>1, ReplyFacts
  <2>3. UNCHANGED <<stores, scope, failures, events, overlapped, stale>>
    BY <1>10, <2>1 DEF ConfigMissing, Replied, Live, stores
  <2>4. CASE config' = {Default} /\ Goes(j, "saving") /\ Send(j) /\ UNCHANGED servers
    <3>1. PendingOK'
      BY <2>2, <2>3, <2>4, AsksAgain DEF stores
    <3>2. TypeOK'
      <4>1. cmds' \in Seq(Jobs)
        BY <2>4, Appended DEF TypeOK, Send
      <4>2. step' \in [Jobs -> {Idle} \cup Restarting \cup Reloading]
        BY <1>u, <2>4 DEF Goes, Restarting
      <4>3. Default \in Versions
        BY LifecycleAssumption DEF Default, Versions
      <4> QED
        BY <2>2, <2>3, <2>4, <4>1, <4>2, <4>3 DEF TypeOK, servers, stores
    <3>3. ASSUME ~overlapped' PROVE AloneInv'
      <4>1. AloneInv
        BY <2>3, <3>3
      <4>2. step'[j] = "saving" /\ \A k \in Jobs : k # j => step'[k] \notin Restarting
        BY <1>g, <2>2, <2>4, <4>1 DEF AloneInv, Restarting
      <4>3. Default \in Versions
        BY LifecycleAssumption DEF Default, Versions
      <4> QED
        BY <2>4, <4>1, <4>2, <4>3 DEF AloneInv, servers, Restarting, Stopped, Down
    <3> QED
      BY <2>4, <3>1, <3>2, <3>3 DEF servers
  <2>5. CASE config # {} /\ UNCHANGED <<config, cmds>> /\ StopAdmin(j)
    <3>1. PICK s \in {"closingAdmin", "closing", "installing", Idle} : Goes(j, s)
      BY <2>5, Stops
    <3>2. PendingOK'
      BY <2>2, <2>3, <2>5, <3>1, Handled DEF stores, Asking, Idle
    <3> QED
      BY <2>2, <2>3, <2>5, <3>2, StopKeeps DEF Restarting, TypeOK, AloneInv
  <2> QED
    BY <1>10, <2>4, <2>5 DEF ConfigMissing
<1>11. ASSUME NEW j \in Jobs, DefaultSaved(j) PROVE LifeInv'
  <2>1. Replied(j, {"saving"}) /\ StopAdmin(j) /\ UNCHANGED <<cmds, config, stale>>
    BY <1>11 DEF DefaultSaved
  <2>2. /\ replies # <<>> /\ Head(replies).job = j /\ replies' = Tail(replies)
        /\ replies' \in Seq([job : Jobs, value : {Error} \cup Nat])
        /\ step[j] \in {"saving"} \cap Asking
    BY <2>1, ReplyFacts
  <2>3. UNCHANGED <<stores, scope, failures, events, overlapped, stale>>
    BY <2>1 DEF Replied, Live, stores
  <2>4. PICK s \in {"closingAdmin", "closing", "installing", Idle} : Goes(j, s)
    BY <2>1, Stops
  <2>5. PendingOK'
    BY <2>1, <2>2, <2>3, <2>4, Handled DEF stores, Asking, Idle
  <2> QED
    BY <2>1, <2>2, <2>3, <2>5, StopKeeps DEF Restarting, TypeOK, AloneInv
<1>12. ASSUME NEW j \in Jobs, AdminClosed(j) PROVE LifeInv'
  <2>1. /\ step[j] = "closingAdmin" /\ Stop(j) /\ UNCHANGED <<admin, config, cmds, replies>>
        /\ UNCHANGED <<stores, scope, failures, events, overlapped, stale>>
    BY <1>12 DEF AdminClosed, Live, stores
  <2>2. PICK s \in {"closingAdmin", "closing", "installing", Idle} : Goes(j, s)
    BY <2>1, Stops
  <2>3. PendingOK'
    BY <2>1, <2>2, GoesOn DEF stores, Asking, Idle
  <2> QED
    BY <2>1, <2>3, StopKeeps DEF Restarting, TypeOK, AloneInv
<1>13. ASSUME NEW j \in Jobs, Closed(j) PROVE LifeInv'
  <2>1. /\ step[j] = "closing" /\ UNCHANGED <<listening, admin, config, cmds, replies>>
        /\ UNCHANGED <<stores, scope, failures, events, overlapped, stale>>
    BY <1>13 DEF Closed, Live, stores
  <2>2. routes' = 0 /\ app' = app + 1 /\ UNCHANGED <<mounted, dead>>
    BY <1>13 DEF Closed, Initialize, ClearRoutes
  <2>3. PICK s \in {"installing", Idle} : Goes(j, s)
    BY <1>13 DEF Closed, Initialize
  <2>4. PendingOK'
    BY <2>1, <2>3, GoesOn DEF stores, Asking, Idle
  <2>5. TypeOK'
    <3>1. step' \in [Jobs -> {Idle} \cup Restarting \cup Reloading]
      BY <1>u, <2>3 DEF Goes, Restarting
    <3>2. app' \in Nat \ {0} /\ mounted' \subseteq 1..app' /\ routes' \in 0..apis' /\ listening' \in 0..app'
      BY <2>1, <2>2 DEF TypeOK, stores
    <3> QED
      BY <2>1, <2>2, <3>1, <3>2 DEF TypeOK, stores
  <2>6. ASSUME ~overlapped' PROVE AloneInv'
    <3>1. AloneInv
      BY <2>1, <2>6
    <3>2. listening' = 0 /\ ~admin'
      BY <2>1, <3>1 DEF AloneInv, Down, Stopped
    <3>3. step'[j] = s /\ \A k \in Jobs : k # j => step'[k] \notin Restarting
      BY <1>g, <2>1, <2>3, <3>1 DEF AloneInv, Restarting
    <3> QED
      BY <2>1, <2>2, <3>1, <3>2, <3>3 DEF AloneInv, Restarting, Idle
  <2> QED
    BY <2>2, <2>4, <2>5, <2>6
<1>14. ASSUME NEW j \in Jobs, ApisRead(j) PROVE LifeInv'
  <2>1. Replied(j, {"listing", "listingApis"}) /\ Reply.value # Error /\ Goes(j, Idle)
        /\ UNCHANGED <<cmds, config, stale>>
    BY <1>14 DEF ApisRead
  <2>2. /\ replies # <<>> /\ Head(replies).job = j /\ replies' = Tail(replies)
        /\ replies' \in Seq([job : Jobs, value : {Error} \cup Nat])
        /\ step[j] \in {"listing", "listingApis"} /\ Reply.value \in 1..apis
    BY <2>1, ReplyFacts DEF ValueOK, Reply, Replied
  <2>3. UNCHANGED <<stores, scope, failures, events, overlapped, stale>>
    BY <2>1 DEF Replied, Live, stores
  <2>4. PendingOK'
    BY <2>1, <2>2, <2>3, Handled DEF stores, Asking, Idle
  <2>5. step'[j] = Idle /\ \A k \in Jobs : k # j => step'[k] = step[k]
    BY <1>g, <2>1
  <2>6. step' \in [Jobs -> {Idle} \cup Restarting \cup Reloading]
    BY <1>u, <2>1 DEF Goes
  <2>7. CASE config = {}
    <3>1. UNCHANGED servers
      BY <1>14, <2>7 DEF ApisRead
    <3>2. TypeOK'
      BY <2>1, <2>2, <2>3, <2>6, <3>1 DEF TypeOK, servers, stores
    <3>3. (~overlapped => AloneInv)'
      BY <2>1, <2>3, <2>5, <3>1 DEF AloneInv, servers, Restarting, Stopped, Down, Idle
    <3> QED
      BY <2>4, <3>1, <3>2, <3>3 DEF servers
  <2>8. CASE config # {} /\ step[j] = "listingApis"
    <3>1. Load(Reply.value) /\ UNCHANGED <<listening, admin, dead>>
      BY <1>14, <2>8 DEF ApisRead
    <3>2. routes' = Reply.value /\ routes' # 0 /\ app' = app /\ app' \in mounted'
          /\ mounted' \subseteq mounted \cup {app}
      BY <2>2, <3>1 DEF Load
    <3>3. app # 0
      BY DEF TypeOK
    <3>4. TypeOK'
      BY <2>1, <2>2, <2>3, <2>6, <3>1, <3>2, <3>3 DEF TypeOK, stores
    <3>5. (~overlapped => AloneInv)'
      BY <2>1, <2>3, <2>5, <3>1, <3>2 DEF AloneInv, Restarting, Stopped, Down, Idle
    <3> QED
      BY <2>4, <3>2, <3>4, <3>5
  <2>9. CASE config # {} /\ step[j] = "listing"
    <3>1. Load(Reply.value) /\ Start
      BY <1>14, <2>9 DEF ApisRead
    <3>2. routes' = Reply.value /\ routes' # 0 /\ app' = app /\ app' \in mounted'
          /\ mounted' \subseteq mounted \cup {app}
      BY <2>2, <3>1 DEF Load
    <3>3. listening' \in {listening, app} /\ admin' \in BOOLEAN /\ dead' \in BOOLEAN
      BY <3>1 DEF Start, TypeOK
    <3>4. TypeOK'
      <4>1. listening' \in 0..app' /\ mounted' \subseteq 1..app' /\ app' \in Nat \ {0}
        BY <3>2, <3>3 DEF TypeOK
      <4> QED
        BY <2>1, <2>2, <2>3, <2>6, <3>2, <3>3, <4>1 DEF TypeOK, stores
    <3>5. ASSUME ~overlapped' PROVE AloneInv'
      <4>1. AloneInv
        BY <2>3, <3>5
      <4>2. listening = 0 /\ ~admin
        BY <2>9, <4>1 DEF AloneInv, Stopped, Down
      <4>3. listening' = app' /\ ~dead'
        BY <3>1, <3>2, <4>1, <4>2 DEF Start, AloneInv
      <4>4. \A k \in Jobs : step'[k] \notin Restarting
        BY <2>5, <2>9, <4>1 DEF AloneInv, Restarting, Idle
      <4> QED
        BY <2>1, <3>2, <4>1, <4>3, <4>4 DEF AloneInv, Restarting, Stopped, Down
    <3> QED
      BY <2>4, <3>2, <3>4, <3>5
  <2> QED
    BY <2>2, <2>7, <2>8, <2>9
<1>15. ASSUME NEW j \in Jobs, JobFails(j) PROVE LifeInv'
  <2>1. Replied(j, Restarting \cup Reloading) /\ Goes(j, Idle) /\ stale' = TRUE
        /\ UNCHANGED <<cmds, config, servers>>
    BY <1>15 DEF JobFails
  <2>2. /\ replies # <<>> /\ Head(replies).job = j /\ replies' = Tail(replies)
        /\ replies' \in Seq([job : Jobs, value : {Error} \cup Nat])
    BY <2>1, ReplyFacts
  <2>3. UNCHANGED <<stores, scope, failures, events, overlapped>>
    BY <2>1 DEF Replied, Live, stores
  <2>4. PendingOK'
    BY <2>1, <2>2, <2>3, Handled DEF stores, Asking, Idle
  <2>5. step'[j] = Idle /\ \A k \in Jobs : k # j => step'[k] = step[k]
    BY <1>g, <2>1
  <2>6. TypeOK'
    <3>1. step' \in [Jobs -> {Idle} \cup Restarting \cup Reloading]
      BY <1>u, <2>1 DEF Goes
    <3> QED
      BY <2>1, <2>2, <2>3, <3>1 DEF TypeOK, servers, stores
  <2>7. (~overlapped => AloneInv)'
    BY <2>1, <2>3, <2>5 DEF AloneInv, servers, Restarting, Stopped, Down, Idle
  <2> QED
    BY <2>1, <2>4, <2>6, <2>7 DEF servers
<1>16. ASSUME NEW j \in Jobs, FiltersFail(j) PROVE LifeInv'
  <2>1. step[j] = "installing" /\ Goes(j, Idle) /\ UNCHANGED <<cmds, replies, config, servers>>
        /\ UNCHANGED <<stores, scope, failures, events, overlapped, stale>>
    BY <1>16 DEF FiltersFail, Live, stores
  <2>2. PendingOK'
    BY <2>1, GoesOn DEF stores, Asking, Idle
  <2>3. step'[j] = Idle /\ \A k \in Jobs : k # j => step'[k] = step[k]
    BY <1>g, <2>1
  <2>4. TypeOK'
    <3>1. step' \in [Jobs -> {Idle} \cup Restarting \cup Reloading]
      BY <1>u, <2>1 DEF Goes
    <3> QED
      BY <2>1, <3>1 DEF TypeOK, servers, stores
  <2>5. (~overlapped => AloneInv)'
    BY <2>1, <2>3 DEF AloneInv, servers, Restarting, Stopped, Down, Idle
  <2> QED
    BY <2>1, <2>2, <2>4, <2>5 DEF servers
<1>17. (changes < MaxConfigs => changes + 1 \in Versions) /\ 0 \in Versions
  BY <1>t, LifecycleAssumption DEF TypeOK, Versions, Default
<1> QED
  BY <1>1, <1>2, <1>3, <1>4, <1>5, <1>6, <1>7, <1>8, <1>9, <1>10, <1>11, <1>12, <1>13, <1>14,
     <1>15, <1>16, <1>17 DEF Next, Job, ChangeConfig

\* A configuration is read whole unless two restarts have overlapped
\* (Configuration.getConfigFromDB()).
THEOREM ConfigurationsAreWhole == Spec => []MixedOnlyOverlapping
<1>1. LifeInv => MixedOnlyOverlapping
  <2>1. ~(Cardinality({}) > 1) /\ \A v : ~(Cardinality({v}) > 1)
    BY FS_EmptySet, FS_Singleton
  <2> QED
    BY <2>1, Zenon DEF LifeInv, AloneInv, MixedOnlyOverlapping
<1> QED
  BY <1>1, LifeInit, LifeStep, PTL DEF Spec

\* A process ends only when two restarts have overlapped (Gateway.restart()).
THEOREM RestartsInSeriesSurvive == Spec => []DiesOnlyOverlapping
<1>1. LifeInv => DiesOnlyOverlapping
  BY DEF LifeInv, TypeInv, TypeOK, AloneInv, DiesOnlyOverlapping
<1> QED
  BY <1>1, LifeInit, LifeStep, PTL DEF Spec

\* While no two restarts have overlapped, a port that is bound is bound to an
\* application with the APIs' routers (Gateway.restart(), Gateway.start()).
THEOREM ListenersAreRouted == Spec => []RoutedWhileListening
<1>1. LifeInv => RoutedWhileListening
  BY DEF LifeInv, TypeInv, TypeOK, AloneInv, RoutedWhileListening, Routed
<1> QED
  BY <1>1, LifeInit, LifeStep, PTL DEF Spec

\* Every variable keeps its type: a reply has a value that its job can take,
\* and no router is of APIs that have not been registered (ApiPipeline.loadApis()).
THEOREM TypeCorrect == Spec => []TypeOK
<1>1. LifeInv => TypeOK
  BY DEF LifeInv, TypeInv
<1> QED
  BY <1>1, LifeInit, LifeStep, PTL DEF Spec
=============================================================================
