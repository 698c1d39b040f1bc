------------------------ MODULE CircuitBreakerProofs ------------------------
(***************************************************************************)
(* Proofs about CircuitBreaker for every cluster, every number of requests *)
(* and every bound.                                                        *)
(***************************************************************************)
EXTENDS CircuitBreaker, SequenceTheorems, FiniteSetTheorems, TLAPS

(***************************************************************************)
(* The methods of the state handler keep a breaker a breaker.              *)
(***************************************************************************)

\* A timer handle stands for a timer that has not fired.
HandleOK(k) == k.handle => k.timers > 0

LEMMA FreshType == Fresh \in Breaker /\ HandleOK(Fresh)
BY ConstantsAssumption DEF Fresh, Breaker, HandleOK

LEMMA OpenStateType ==
    ASSUME NEW k \in Breaker, MayOpen(k), HandleOK(k)
    PROVE  /\ OpenState(k) \in Breaker /\ HandleOK(OpenState(k))
           /\ OpenState(k).circuit = "open"
           /\ k.circuit # "open" => OpenState(k).timers > 0
<1>1. CASE k.circuit = "open"
  BY <1>1 DEF OpenState
<1>2. CASE k.circuit # "open"
  <2>1. k.timers + 1 \in 0..MaxTimers /\ k.timers + 1 > 0
    BY <1>2, ConstantsAssumption DEF MayOpen, Breaker
  <2>2. OpenState(k) = [circuit |-> "open", probing |-> k.probing,
                        timers |-> k.timers + 1, handle |-> TRUE]
    BY <1>2 DEF OpenState, Breaker
  <2> QED
    BY <2>1, <2>2 DEF Breaker, HandleOK
<1> QED
  BY <1>1, <1>2

LEMMA CloseStateType ==
    ASSUME NEW k \in Breaker, HandleOK(k)
    PROVE  /\ CloseState(k) \in Breaker /\ HandleOK(CloseState(k))
           /\ CloseState(k).circuit = "closed"
BY DEF CloseState, Breaker, HandleOK

\* One timer less, and no handle.
LEMMA LessOneTimer ==
    ASSUME NEW k \in Breaker, NEW n \in 0..MaxTimers
    PROVE  LET j == [k EXCEPT !.timers = n, !.handle = FALSE] IN
           /\ j \in Breaker /\ HandleOK(j)
           /\ j.circuit = k.circuit /\ j.probing = k.probing
BY DEF Breaker, HandleOK

LEMMA ForceHalfOpenType ==
    ASSUME NEW k \in Breaker
    PROVE  /\ ForceHalfOpen(k) \in Breaker
           /\ ForceHalfOpen(k).circuit = "halfOpen"
           /\ ForceHalfOpen(k).timers = k.timers
           /\ ForceHalfOpen(k).probing => k.circuit = "halfOpen" /\ k.probing
BY DEF ForceHalfOpen, Breaker

LEMMA FiredType ==
    ASSUME NEW k \in Breaker, k.timers > 0
    PROVE  /\ Fired(k) \in Breaker /\ HandleOK(Fired(k))
           /\ Fired(k).circuit = "halfOpen"
           /\ Fired(k).probing => k.circuit = "halfOpen" /\ k.probing
<1> DEFINE h == ForceHalfOpen(k)
<1>1. /\ h \in Breaker /\ h.circuit = "halfOpen" /\ h.timers = k.timers
      /\ h.probing => k.circuit = "halfOpen" /\ k.probing
  BY ForceHalfOpenType
<1>2. k.timers - 1 \in 0..MaxTimers
  BY ConstantsAssumption DEF Breaker
<1> HIDE DEF h
<1> DEFINE j == [h EXCEPT !.timers = h.timers - 1, !.handle = FALSE]
<1>3. /\ j \in Breaker /\ HandleOK(j)
      /\ j.circuit = h.circuit /\ j.probing = h.probing
  BY <1>1, <1>2, LessOneTimer
<1>4. Fired(k) = j
  BY DEF h, Fired
<1> QED
  BY <1>1, <1>3, <1>4

LEMMA DestroyType ==
    ASSUME NEW k \in Breaker, HandleOK(k)
    PROVE  /\ Destroy(k) \in Breaker /\ HandleOK(Destroy(k))
           /\ Destroy(k).circuit = k.circuit /\ Destroy(k).probing = k.probing
<1>1. CASE ~k.handle
  BY <1>1 DEF Destroy
<1>2. CASE k.handle
  <2>1. k.timers - 1 \in 0..MaxTimers
    BY <1>2, ConstantsAssumption DEF Breaker, HandleOK
  <2>2. Destroy(k) = [k EXCEPT !.timers = k.timers - 1, !.handle = FALSE]
    BY <1>2 DEF Destroy
  <2> QED
    BY ZenonT(40), <2>1, <2>2, LessOneTimer
<1> QED
  BY <1>1, <1>2

-----------------------------------------------------------------------------
(***************************************************************************)
(* Commands and the sequences they travel in.                              *)
(***************************************************************************)

LEMMA CmdType ==
    ASSUME NEW op \in {"get", "incr", "expire", "open", "close"},
           NEW b \in Breakers, NEW r \in Requests \cup {None}
    PROVE  Cmd(op, b, r) \in Command /\ Cmd(op, b, r).brk = b /\ Cmd(op, b, r).op = op
BY DEF Cmd, Command

LEMMA TailType ==
    ASSUME NEW S, NEW s \in Seq(S), s # <<>>
    PROVE  /\ Head(s) \in S /\ Tail(s) \in Seq(S) /\ Len(s) \in Nat /\ Len(s) > 0
           /\ Head(s) = s[1] /\ Len(Tail(s)) = Len(s) - 1
           /\ \A i \in 1..Len(Tail(s)) : Tail(s)[i] = s[i + 1]
BY HeadTailProperties, EmptySeq, LenProperties

LEMMA ConcatType ==
    ASSUME NEW S, NEW s \in Seq(S), NEW t \in Seq(S)
    PROVE  /\ s \o t \in Seq(S) /\ Len(s \o t) = Len(s) + Len(t)
           /\ \A i \in 1..Len(s) : (s \o t)[i] = s[i]
           /\ \A i \in 1..Len(s \o t) : i > Len(s) => (s \o t)[i] = t[i - Len(s)]
BY ConcatProperties, LenProperties

LEMMA SendType ==
    ASSUME cmds \in [Procs -> Seq(Command)], NEW p \in Procs, NEW cs \in Seq(Command),
           Send(p, cs)
    PROVE  /\ cmds' \in [Procs -> Seq(Command)]
           /\ cmds'[p] = cmds[p] \o cs
           /\ \A q \in Procs : q # p => cmds'[q] = cmds[q]
<1>1. cmds[p] \o cs \in Seq(Command)
  BY ConcatType
<1> QED
  BY <1>1 DEF Send

LEMMA OneCmdType ==
    ASSUME NEW c \in Command
    PROVE  /\ <<c>> \in Seq(Command) /\ Len(<<c>>) = 1 /\ <<c>>[1] = c
           /\ <<>> \in Seq(Command) /\ Len(<<>>) = 0
OBVIOUS

LEMMA CmdSeqType ==
    ASSUME NEW op \in {"get", "incr", "expire", "open", "close"},
           NEW b \in Breakers, NEW r \in Requests \cup {None}
    PROVE  <<Cmd(op, b, r)>> \in Seq(Command)
BY CmdType, OneCmdType

LEMMA NotifyType ==
    ASSUME NEW b \in Breakers
    PROVE  NotifyOpen(b) \in Seq(Command) /\ NotifyClose(b) \in Seq(Command)
<1>1. Cmd("open", b, None) \in Command /\ Cmd("close", b, None) \in Command
  BY CmdType
<1> QED
  BY <1>1, OneCmdType DEF NotifyOpen, NotifyClose

LEMMA ExpiryType ==
    ASSUME NEW a, a.cmd \in Command
    PROVE  Expiry(a) \in Seq(Command)
<1>1. a.cmd.brk \in Breakers
  BY DEF Command
<1>2. Cmd("expire", a.cmd.brk, None) \in Command
  BY <1>1, CmdType
<1> QED
  BY <1>2, OneCmdType DEF Expiry

-----------------------------------------------------------------------------
(***************************************************************************)
(* Type correctness.  Destroying a breaker takes one timer away from it:   *)
(* that it had one is part of the inductive invariant.                     *)
(***************************************************************************)

HandlesOK == \A b \in Breakers : HandleOK(cb[b])

TypeInv == TypeOK /\ HandlesOK

LEMMA TypeInit == Init => TypeInv
<1> SUFFICES ASSUME Init PROVE TypeInv
  OBVIOUS
<1> USE ConstantsAssumption DEF Init
<1>1. \A b \in Breakers : cb[b] \in Breaker /\ HandleOK(cb[b])
  <2>1. [Fresh EXCEPT !.circuit = "closed"] \in Breaker
    BY FreshType DEF Fresh, Breaker
  <2>2. HandleOK([Fresh EXCEPT !.circuit = "closed"])
    BY DEF Fresh, HandleOK
  <2> QED
    BY <2>1, <2>2, FreshType
<1>2. \A p \in Procs : <<p, 1>> \in Breakers
  BY DEF Breakers
<1>3. cb \in [Breakers -> Breaker] /\ HandlesOK
  BY <1>1 DEF HandlesOK
<1>4. /\ active \in [Procs -> Breakers \cup {None}]
      /\ route \in [Procs -> Breakers \cup {None}]
  BY <1>2
<1>5. reloads \in [Procs -> 0..MaxReloads] /\ subscribed \in [Procs -> BOOLEAN]
  OBVIOUS
<1>6. request \in [Requests -> Request]
  BY DEF Request
<1>7. /\ cmds \in [Procs -> Seq(Command)] /\ replies \in [Procs -> Seq(Reply)]
      /\ chan \in [Procs -> Seq({"open", "close"})]
  OBVIOUS
<1>8. redis \in Redis
  BY DEF Redis, FailureCap
<1> QED
  BY <1>3, <1>4, <1>5, <1>6, <1>7, <1>8 DEF TypeInv, TypeOK

LEMMA TypeRequests ==
    ASSUME TypeInv,
           \/ \E p \in Procs, r \in Requests : Admit(p, r)
           \/ \E r \in Requests : FinishOk(r) \/ FinishError(r) \/ TimeoutCall(r) \/ EndLate(r)
    PROVE  TypeInv'
<1> USE DEF TypeInv, TypeOK, HandlesOK
<1>1. ASSUME NEW p \in Procs, NEW r \in Requests, Admit(p, r) PROVE TypeInv'
  <2> DEFINE b == route[p]
             k == [cb[b] EXCEPT !.probing = @ \/ cb[b].circuit = "halfOpen"]
  <2>1. b \in Breakers
    BY <1>1 DEF Admit
  <2>2. k \in Breaker /\ HandleOK(k)
    BY ZenonT(40), <2>1 DEF Breaker, HandleOK
  <2>3. cb' = [cb EXCEPT ![b] = k]
    BY <1>1, <2>1 DEF Admit
  <2>4. request' \in [Requests -> Request]
    BY <1>1, <2>1 DEF Admit, Request
  <2> QED
    BY <1>1, <2>1, <2>2, <2>3, <2>4 DEF Admit
<1>2. ASSUME NEW r \in Requests, FinishOk(r) PROVE TypeInv'
  <2> DEFINE b == request[r].via
  <2>1. b \in Breakers /\ b[1] \in Procs
    BY <1>2 DEF FinishOk, Request, Breakers
  <2>2. cmds' \in [Procs -> Seq(Command)]
    BY <1>2, <2>1, NotifyType, SendType DEF FinishOk
  <2>3. CloseState(cb[b]) \in Breaker /\ HandleOK(CloseState(cb[b]))
    BY <2>1, CloseStateType
  <2>4. request' \in [Requests -> Request]
    BY <1>2 DEF FinishOk, Leave, Request
  <2> QED
    BY <1>2, <2>1, <2>2, <2>3, <2>4 DEF FinishOk
<1>3. ASSUME NEW r \in Requests, FinishError(r) PROVE TypeInv'
  <2> DEFINE b == request[r].via
             k == [cb[b] EXCEPT !.probing = FALSE]
  <2>1. b \in Breakers /\ b[1] \in Procs
    BY <1>3 DEF FinishError, Request, Breakers
  <2>2. cmds' \in [Procs -> Seq(Command)]
    <3>1. <<Cmd("incr", b, r)>> \in Seq(Command)
      BY <2>1, CmdSeqType
    <3>2. Send(b[1], <<Cmd("incr", b, r)>>)
      BY <1>3 DEF FinishError
    <3> QED
      BY <2>1, <3>1, <3>2, SendType
  <2>3. k \in Breaker /\ HandleOK(k)
    BY ZenonT(40), <2>1 DEF Breaker, HandleOK
  <2>4. request' \in [Requests -> Request]
    BY <1>3 DEF FinishError, Leave, Request
  <2> QED
    BY <1>3, <2>1, <2>2, <2>3, <2>4 DEF FinishError
<1>4. ASSUME NEW r \in Requests, TimeoutCall(r) PROVE TypeInv'
  <2> DEFINE b == request[r].via
  <2>1. b \in Breakers /\ b[1] \in Procs
    BY <1>4 DEF TimeoutCall, Request, Breakers
  <2>2. cmds' \in [Procs -> Seq(Command)]
    <3>1. <<Cmd("incr", b, r)>> \in Seq(Command)
      BY <2>1, CmdSeqType
    <3>2. Send(b[1], <<Cmd("incr", b, r)>>)
      BY <1>4 DEF TimeoutCall
    <3> QED
      BY <2>1, <3>1, <3>2, SendType
  <2>3. request' \in [Requests -> Request]
    BY <1>4 DEF TimeoutCall, Request
  <2> QED
    BY <1>4, <2>2, <2>3 DEF TimeoutCall
<1>5. ASSUME NEW r \in Requests, EndLate(r) PROVE TypeInv'
  <2>1. request' \in [Requests -> Request]
    BY <1>5 DEF EndLate, Leave, Request
  <2> QED
    BY <1>5, <2>1 DEF EndLate
<1> QED
  BY <1>1, <1>2, <1>3, <1>4, <1>5

LEMMA EffectType ==
    ASSUME redis \in Redis, NEW c \in Command
    PROVE  Effect(c) \in Redis /\ (c.op = "incr" => Effect(c).failures \in 0..FailureCap)
<1>1. FailureCap \in Nat /\ FailureCap > 0
  BY ConstantsAssumption DEF FailureCap
<1>2. CASE c.op = "incr"
  <2>1. (IF redis.failures < FailureCap THEN redis.failures + 1 ELSE redis.failures)
          \in 0..FailureCap
    BY <1>1 DEF Redis
  <2> QED
    BY <1>2, <2>1 DEF Effect, Redis
<1>3. CASE c.op = "expire"
  <2> DEFINE v == redis.failures > 0
  <2>1. v \in BOOLEAN /\ Effect(c) = [redis EXCEPT !.ttl = v]
    BY <1>3 DEF Effect
  <2> HIDE DEF v
  <2> QED
    BY <1>3, <2>1 DEF Redis
<1>4. CASE c.op \in {"get", "open"}
  BY <1>4 DEF Effect, Redis
<1>5. CASE c.op = "close"
  BY <1>1, <1>5 DEF Effect, Redis
<1> QED
  BY <1>2, <1>3, <1>4, <1>5 DEF Command

LEMMA AnswerType ==
    ASSUME TypeOK, NEW p \in Procs, NEW c \in Command, NEW ok \in BOOLEAN, Answer(p, c, ok)
    PROVE  replies' \in [Procs -> Seq(Reply)]
<1> USE DEF TypeOK
<1>1. CASE c.op = "get"
  <2> DEFINE a == [cmd |-> c, ok |-> ok, state |-> redis.state]
  <2>1. a \in Reply
    BY DEF Reply, Redis
  <2>2. replies' = [replies EXCEPT ![p] = Append(@, a)]
    BY <1>1 DEF Answer
  <2> HIDE DEF a
  <2>3. Append(replies[p], a) \in Seq(Reply)
    BY <2>1
  <2> QED
    BY <2>2, <2>3
<1>2. CASE c.op = "incr"
  <2> DEFINE a == [cmd |-> c, ok |-> ok, failures |-> Effect(c).failures, ttl |-> redis.ttl]
  <2>1. a \in Reply
    BY <1>2, EffectType DEF Reply, Redis
  <2>2. replies' = [replies EXCEPT ![p] = Append(@, a)]
    BY <1>2 DEF Answer
  <2> HIDE DEF a
  <2>3. Append(replies[p], a) \in Seq(Reply)
    BY <2>1
  <2> QED
    BY <2>2, <2>3
<1>3. CASE c.op \notin {"get", "incr"}
  BY <1>3 DEF Answer
<1> QED
  BY <1>1, <1>2, <1>3

LEMMA TypeRedis ==
    ASSUME TypeInv, WindowExpires \/ \E p \in Procs : RedisExec(p) \/ RedisError(p)
    PROVE  TypeInv'
<1> USE DEF TypeInv, TypeOK, HandlesOK
<1>1. CASE WindowExpires
  <2>1. redis' \in Redis
    <3>1. 0 \in 0..FailureCap
      BY ConstantsAssumption DEF FailureCap
    <3> QED
      BY <1>1, <3>1 DEF WindowExpires, Redis
  <2> QED
    BY <1>1, <2>1 DEF WindowExpires
<1>2. ASSUME NEW p \in Procs, cmds[p] # <<>>
      PROVE  Head(cmds[p]) \in Command /\ [cmds EXCEPT ![p] = Tail(@)] \in [Procs -> Seq(Command)]
  BY <1>2, TailType
<1>3. ASSUME NEW p \in Procs, RedisExec(p) PROVE TypeInv'
  <2> DEFINE c == Head(cmds[p])
  <2>1. c \in Command /\ cmds' \in [Procs -> Seq(Command)]
    BY <1>2, <1>3 DEF RedisExec
  <2>2. redis' \in Redis
    BY <1>3, <2>1, EffectType DEF RedisExec
  <2>3. replies' \in [Procs -> Seq(Reply)]
    BY <1>3, <2>1, AnswerType DEF RedisExec
  <2>4. chan' \in [Procs -> Seq({"open", "close"})]
    <3>1. CASE Publishes(c.op)
      <4>1. \A q \in Procs : Append(chan[q], c.op) \in Seq({"open", "close"})
        BY <3>1 DEF Publishes
      <4>2. chan' = [q \in Procs |-> IF subscribed[q] THEN Append(chan[q], c.op) ELSE chan[q]]
        BY <1>3, <3>1 DEF RedisExec, Publish
      <4> QED
        BY <4>1, <4>2
    <3>2. CASE ~Publishes(c.op)
      BY <1>3, <3>2 DEF RedisExec
    <3> QED
      BY <3>1, <3>2
  <2> QED
    BY <1>3, <2>1, <2>2, <2>3, <2>4 DEF RedisExec
<1>4. ASSUME NEW p \in Procs, RedisError(p) PROVE TypeInv'
  <2>1. Head(cmds[p]) \in Command /\ cmds' \in [Procs -> Seq(Command)]
    BY <1>2, <1>4 DEF RedisError
  <2>2. replies' \in [Procs -> Seq(Reply)]
    BY <1>4, <2>1, AnswerType DEF RedisError
  <2> QED
    BY <1>4, <2>1, <2>2 DEF RedisError
<1> QED
  BY <1>1, <1>3, <1>4

LEMMA TypeReplies ==
    ASSUME TypeInv, NEW p \in Procs, HandleReply(p)
    PROVE  TypeInv'
<1> USE DEF TypeInv, TypeOK, HandlesOK
<1> DEFINE a == Head(replies[p])
           b == a.cmd.brk
<1>1. /\ a \in Reply /\ a.cmd \in Command /\ b \in Breakers
      /\ replies' \in [Procs -> Seq(Reply)]
  <2>1. replies[p] # <<>> /\ replies' = [replies EXCEPT ![p] = Tail(@)]
    BY DEF HandleReply, StateLoaded, StateNotLoaded, FailureCounted, FailureNotCounted, NextReply
  <2>2. a \in Reply /\ Tail(replies[p]) \in Seq(Reply)
    BY <2>1, TailType
  <2>3. a.cmd \in Command
    BY <2>2 DEF Reply
  <2> QED
    BY <2>1, <2>2, <2>3 DEF Command
<1>2. MayOpen(cb[b]) => OpenState(cb[b]) \in Breaker /\ HandleOK(OpenState(cb[b]))
  BY <1>1, OpenStateType
<1>3. CloseState(cb[b]) \in Breaker /\ HandleOK(CloseState(cb[b]))
  BY <1>1, CloseStateType
<1> HIDE DEF a
<1>4. CASE StateLoaded(p)
  BY <1>1, <1>2, <1>3, <1>4 DEF StateLoaded, a
<1>5. CASE StateNotLoaded(p)
  <2>1. cmds' \in [Procs -> Seq(Command)]
    <3>1. Send(p, NotifyClose(b)) /\ NotifyClose(b) \in Seq(Command)
      BY <1>1, <1>5, NotifyType DEF StateNotLoaded, a
    <3> QED
      BY <3>1, SendType
  <2> QED
    BY <1>1, <1>3, <1>5, <2>1 DEF StateNotLoaded, a
<1>6. CASE FailureCounted(p)
  <2>1. Expiry(a) \in Seq(Command) /\ NotifyOpen(b) \in Seq(Command)
    BY <1>1, ExpiryType, NotifyType
  <2>2. Expiry(a) \o NotifyOpen(b) \in Seq(Command)
    BY <2>1, ConcatType
  <2>3. CASE Trips(a)
    <3>1. /\ Send(p, Expiry(a) \o NotifyOpen(b))
          /\ MayOpen(cb[b]) /\ cb' = [cb EXCEPT ![b] = OpenState(@)]
      BY <1>6, <2>3 DEF FailureCounted, a
    <3>2. cmds' \in [Procs -> Seq(Command)]
      BY <2>2, <3>1, SendType
    <3> QED
      BY <1>1, <1>2, <1>6, <3>1, <3>2 DEF FailureCounted
  <2>4. CASE ~Trips(a)
    <3>1. Send(p, Expiry(a)) /\ cb' = cb
      BY <1>6, <2>4 DEF FailureCounted, a
    <3>2. cmds' \in [Procs -> Seq(Command)]
      BY <2>1, <3>1, SendType
    <3> QED
      BY <1>1, <1>6, <3>1, <3>2 DEF FailureCounted
  <2> QED
    BY <2>3, <2>4
<1>7. CASE FailureNotCounted(p)
  BY <1>1, <1>7 DEF FailureNotCounted
<1> QED
  BY <1>4, <1>5, <1>6, <1>7 DEF HandleReply

LEMMA TypeEvents ==
    ASSUME TypeInv,
           \/ \E p \in Procs : Deliver(p) \/ DropEvents(p)
           \/ \E b \in Breakers : FireTimer(b)
    PROVE  TypeInv'
<1> USE DEF TypeInv, TypeOK, HandlesOK
<1>1. ASSUME NEW p \in Procs, Deliver(p) PROVE TypeInv'
  <2> DEFINE b == active[p]
  <2>1. chan' \in [Procs -> Seq({"open", "close"})]
    <3>1. chan[p] # <<>> /\ chan' = [chan EXCEPT ![p] = Tail(@)]
      BY <1>1 DEF Deliver
    <3>2. Tail(chan[p]) \in Seq({"open", "close"})
      BY <3>1, TailType
    <3> QED
      BY <3>1, <3>2
  <2>2. CASE b = None
    BY <1>1, <2>1, <2>2 DEF Deliver
  <2>3. CASE b # None
    <3>1. b \in Breakers
      BY <2>3
    <3>2. MayOpen(cb[b]) => OpenState(cb[b]) \in Breaker /\ HandleOK(OpenState(cb[b]))
      BY <3>1, OpenStateType
    <3>3. CloseState(cb[b]) \in Breaker /\ HandleOK(CloseState(cb[b]))
      BY <3>1, CloseStateType
    <3> QED
      BY <1>1, <2>1, <2>3, <3>1, <3>2, <3>3 DEF Deliver
  <2> QED
    BY <2>2, <2>3
<1>2. ASSUME NEW p \in Procs, DropEvents(p) PROVE TypeInv'
  <2>1. chan' \in [Procs -> Seq({"open", "close"})]
    BY <1>2 DEF DropEvents
  <2> QED
    BY <1>2, <2>1 DEF DropEvents
<1>3. ASSUME NEW b \in Breakers, FireTimer(b) PROVE TypeInv'
  <2>1. Fired(cb[b]) \in Breaker /\ HandleOK(Fired(cb[b]))
    BY <1>3, FiredType DEF FireTimer
  <2>2. cb' = [cb EXCEPT ![b] = Fired(@)]
    BY <1>3 DEF FireTimer
  <2> QED
    BY <1>3, <2>1, <2>2 DEF FireTimer
<1> QED
  BY <1>1, <1>2, <1>3

LEMMA TypeReloads ==
    ASSUME TypeInv,
           \/ \E p \in Procs : StartReload(p) \/ ReloadFails(p) \/ Crash(p) \/ Subscribe(p)
           \/ \E b \in Breakers : Install(b)
    PROVE  TypeInv'
<1> USE DEF TypeInv, TypeOK, HandlesOK
<1>1. ASSUME NEW p \in Procs, StartReload(p) PROVE TypeInv'
  <2>1. reloads' \in [Procs -> 0..MaxReloads]
    BY <1>1, ConstantsAssumption DEF StartReload
  <2>2. active' \in [Procs -> Breakers \cup {None}]
    BY <1>1 DEF StartReload
  <2>3. CASE active[p] = None
    BY <1>1, <2>1, <2>2, <2>3 DEF StartReload
  <2>4. CASE active[p] # None
    <3>1. /\ active[p] \in Breakers
          /\ Destroy(cb[active[p]]) \in Breaker /\ HandleOK(Destroy(cb[active[p]]))
      BY <2>4, DestroyType
    <3> QED
      BY <1>1, <2>1, <2>2, <2>4, <3>1 DEF StartReload
  <2> QED
    BY <2>3, <2>4
<1>2. ASSUME NEW p \in Procs, ReloadFails(p) PROVE TypeInv'
  <2>1. reloads' \in [Procs -> 0..MaxReloads]
    BY <1>2, ConstantsAssumption DEF ReloadFails
  <2> QED
    BY <1>2, <2>1 DEF ReloadFails
<1>3. ASSUME NEW p \in Procs, Crash(p) PROVE TypeInv'
  <2>1. cb' \in [Breakers -> Breaker] /\ \A b \in Breakers : HandleOK(cb'[b])
    BY <1>3, FreshType DEF Crash
  <2>2. reloads' \in [Procs -> 0..MaxReloads]
    BY <1>3, ConstantsAssumption DEF Crash
  <2>3. request' \in [Requests -> Request]
    BY <1>3 DEF Crash, Request
  <2>4. /\ active' \in [Procs -> Breakers \cup {None}]
        /\ route' \in [Procs -> Breakers \cup {None}]
        /\ subscribed' \in [Procs -> BOOLEAN]
    BY <1>3 DEF Crash
  <2>5. /\ cmds' \in [Procs -> Seq(Command)] /\ replies' \in [Procs -> Seq(Reply)]
        /\ chan' \in [Procs -> Seq({"open", "close"})]
    <3>1. <<>> \in Seq(Command) /\ <<>> \in Seq(Reply) /\ <<>> \in Seq({"open", "close"})
      OBVIOUS
    <3> QED
      BY <1>3, <3>1 DEF Crash
  <2> QED
    BY <1>3, <2>1, <2>2, <2>3, <2>4, <2>5 DEF Crash
<1>4. ASSUME NEW p \in Procs, Subscribe(p) PROVE TypeInv'
  BY <1>4 DEF Subscribe
<1>5. ASSUME NEW b \in Breakers, Install(b) PROVE TypeInv'
  <2>1. b[1] \in Procs
    BY DEF Breakers
  <2>2. reloads' \in [Procs -> 0..MaxReloads]
    <3> DEFINE n == reloads[b[1]]
    <3>0. n \in 0..MaxReloads /\ n > 0
      BY <1>5, <2>1 DEF Install
    <3> HIDE DEF n
    <3>1. n - 1 \in 0..MaxReloads
      BY <3>0, ConstantsAssumption
    <3> QED
      BY <1>5, <2>1, <3>1 DEF Install, n
  <2>3. cmds' \in [Procs -> Seq(Command)]
    <3>1. <<Cmd("get", b, None)>> \in Seq(Command)
      BY CmdSeqType
    <3>2. Send(b[1], <<Cmd("get", b, None)>>)
      BY <1>5 DEF Install
    <3> QED
      BY <2>1, <3>1, <3>2, SendType
  <2> QED
    BY <1>5, <2>1, <2>2, <2>3, FreshType DEF Install
<1> QED
  BY <1>1, <1>2, <1>3, <1>4, <1>5

LEMMA TypeStep == TypeInv /\ [Next]_vars => TypeInv'
<1> SUFFICES ASSUME TypeInv, [Next]_vars PROVE TypeInv'
  OBVIOUS
<1>1. CASE Next
  BY <1>1, TypeRequests, TypeRedis, TypeReplies, TypeEvents, TypeReloads DEF Next
<1>2. CASE UNCHANGED vars
  BY <1>2 DEF vars, TypeInv, TypeOK, HandlesOK
<1> QED
  BY <1>1, <1>2

\* Every variable keeps its type; in particular no breaker clears a timer it
\* does not have (destroy() in redis-state-handler.ts).
THEOREM TypeCorrect == Spec => []TypeOK
<1>1. Spec => []TypeInv
  BY TypeInit, TypeStep, PTL DEF Spec
<1>2. TypeInv => TypeOK
  BY DEF TypeInv
<1> QED
  BY <1>1, <1>2, PTL

-----------------------------------------------------------------------------
(***************************************************************************)
(* An open circuit has its reset timer.  A reload takes the timer from the *)
(* breaker it destroys, and takes the breaker from its own process only.   *)
(***************************************************************************)

HasTimer(k) == k.circuit = "open" => k.timers > 0

ActiveHome == \A p \in Procs : active[p] # None => active[p][1] = p

TimerInv == TypeInv /\ ActiveHome /\ OpenHasTimer

LEMMA TimerInit == Init => TimerInv
<1> SUFFICES ASSUME Init PROVE TimerInv
  OBVIOUS
<1>1. \A p \in Procs : active[p] = <<p, 1>> /\ <<p, 1>>[1] = p
  BY DEF Init
<1>2. ActiveHome
  BY <1>1 DEF ActiveHome
<1>3. \A b \in Breakers : cb[b].circuit # "open"
  BY DEF Init, Fresh
<1> QED
  BY <1>1, <1>2, <1>3, TypeInit DEF TimerInv, TypeInv, TypeOK, OpenHasTimer

LEMMA HandlerTimers ==
    ASSUME NEW k \in Breaker, HasTimer(k)
    PROVE  HasTimer(OpenState(k)) /\ HasTimer(CloseState(k))
BY ConstantsAssumption DEF HasTimer, OpenState, CloseState, Breaker

LEMMA TimerKept ==
    ASSUME TimerInv, active' = active,
           \A b \in Breakers : HasTimer(cb[b]) => HasTimer(cb'[b])
    PROVE  OpenHasTimer'
BY DEF TimerInv, TypeInv, TypeOK, OpenHasTimer, HasTimer

\* A step that leaves the active breakers alone keeps their timers.
LEMMA TimerSteady ==
    ASSUME TimerInv,
           \/ \E p \in Procs : \/ RedisExec(p) \/ RedisError(p) \/ HandleReply(p) \/ Deliver(p)
                               \/ DropEvents(p) \/ ReloadFails(p) \/ Subscribe(p)
           \/ \E p \in Procs, r \in Requests : Admit(p, r)
           \/ \E r \in Requests : FinishOk(r) \/ FinishError(r) \/ TimeoutCall(r) \/ EndLate(r)
           \/ \E b \in Breakers : FireTimer(b)
           \/ WindowExpires
    PROVE  active' = active /\ OpenHasTimer'
<1> USE DEF TimerInv, TypeInv, TypeOK
<1>1. ASSUME NEW p \in Procs, HandleReply(p) PROVE active' = active /\ OpenHasTimer'
  <2> DEFINE b == Head(replies[p]).cmd.brk
  <2>1. b \in Breakers
    <3>1. replies[p] # <<>>
      BY <1>1 DEF HandleReply, StateLoaded, StateNotLoaded, FailureCounted, FailureNotCounted
    <3>2. Head(replies[p]) \in Reply
      BY <3>1, TailType
    <3> QED
      BY <3>2 DEF Reply, Command
  <2>2. HasTimer(cb[b]) => HasTimer(OpenState(cb[b])) /\ HasTimer(CloseState(cb[b]))
    BY <2>1, HandlerTimers
  <2>3. \/ cb' = cb
        \/ cb' = [cb EXCEPT ![b] = OpenState(@)]
        \/ cb' = [cb EXCEPT ![b] = CloseState(@)]
    BY <1>1 DEF HandleReply, StateLoaded, StateNotLoaded, FailureCounted, FailureNotCounted
  <2>4. active' = active
    BY <1>1 DEF HandleReply, StateLoaded, StateNotLoaded, FailureCounted, FailureNotCounted
  <2> HIDE DEF b
  <2> QED
    BY <2>1, <2>2, <2>3, <2>4, TimerKept
<1>2. ASSUME NEW p \in Procs, Deliver(p) PROVE active' = active /\ OpenHasTimer'
  <2> DEFINE b == active[p]
  <2>1. CASE b = None
    BY <1>2, <2>1, TimerKept DEF Deliver
  <2>2. CASE b # None
    <3>1. b \in Breakers
      BY <2>2
    <3>2. HasTimer(cb[b]) => HasTimer(OpenState(cb[b])) /\ HasTimer(CloseState(cb[b]))
      BY <3>1, HandlerTimers
    <3> QED
      BY <1>2, <2>2, <3>1, <3>2, TimerKept DEF Deliver
  <2> QED
    BY <2>1, <2>2
<1>3. ASSUME NEW b \in Breakers, FireTimer(b) PROVE active' = active /\ OpenHasTimer'
  <2>1. Fired(cb[b]).circuit = "halfOpen" /\ cb' = [cb EXCEPT ![b] = Fired(@)]
    BY <1>3, FiredType DEF FireTimer
  <2> QED
    BY <1>3, <2>1, TimerKept DEF FireTimer, HasTimer
<1>4. ASSUME NEW p \in Procs, NEW r \in Requests, Admit(p, r)
      PROVE  active' = active /\ OpenHasTimer'
  <2>1. \A b \in Breakers : cb'[b].circuit = cb[b].circuit /\ cb'[b].timers = cb[b].timers
    BY <1>4 DEF Admit, Breaker
  <2> QED
    BY <1>4, <2>1, TimerKept DEF Admit, HasTimer
<1>5. ASSUME NEW r \in Requests, FinishOk(r) PROVE active' = active /\ OpenHasTimer'
  <2>1. request[r].via \in Breakers
    BY <1>5 DEF FinishOk, Request
  <2>2. HasTimer(cb[request[r].via]) => HasTimer(CloseState(cb[request[r].via]))
    BY <2>1, HandlerTimers
  <2> QED
    BY <1>5, <2>1, <2>2, TimerKept DEF FinishOk
<1>6. ASSUME NEW r \in Requests, FinishError(r) PROVE active' = active /\ OpenHasTimer'
  <2>1. \A b \in Breakers : cb'[b].circuit = cb[b].circuit /\ cb'[b].timers = cb[b].timers
    BY <1>6 DEF FinishError, Breaker
  <2> QED
    BY <1>6, <2>1, TimerKept DEF FinishError, HasTimer
<1>7. ASSUME \/ \E p \in Procs : \/ RedisExec(p) \/ RedisError(p) \/ DropEvents(p)
                                 \/ ReloadFails(p) \/ Subscribe(p)
             \/ \E r \in Requests : TimeoutCall(r) \/ EndLate(r)
             \/ WindowExpires
      PROVE  active' = active /\ OpenHasTimer'
  <2>1. active' = active /\ cb' = cb
    BY <1>7 DEF RedisExec, RedisError, DropEvents, ReloadFails, Subscribe, TimeoutCall,
                EndLate, WindowExpires
  <2> QED
    BY <2>1, TimerKept
<1> QED
  BY <1>1, <1>2, <1>3, <1>4, <1>5, <1>6, <1>7

LEMMA TimerStep == TimerInv /\ [Next]_vars => TimerInv'
<1> SUFFICES ASSUME TimerInv, [Next]_vars PROVE TimerInv'
  OBVIOUS
<1>0. TypeInv'
  BY TypeStep DEF TimerInv
<1> USE DEF TimerInv
<1>1. ASSUME active' = active /\ OpenHasTimer' PROVE TimerInv'
  BY <1>0, <1>1 DEF ActiveHome
<1>2. ASSUME NEW p \in Procs, StartReload(p) PROVE TimerInv'
  <2>1. /\ active'[p] = None
        /\ \A q \in Procs : q # p => active'[q] = active[q]
    BY <1>2 DEF StartReload, TypeInv, TypeOK
  <2>2. ActiveHome'
    BY <2>1 DEF ActiveHome
  <2>3. ASSUME NEW q \in Procs, active'[q] # None PROVE HasTimer(cb'[active'[q]])
    <3>1. q # p /\ active'[q] = active[q]
      BY <2>1, <2>3
    <3>2. active[q] # active[p] /\ active[q] \in Breakers
      BY <2>3, <3>1 DEF ActiveHome, TypeInv, TypeOK
    <3>3. cb'[active[q]] = cb[active[q]]
      BY <1>2, <3>2 DEF StartReload, TypeInv, TypeOK
    <3> QED
      BY <2>3, <3>1, <3>3 DEF OpenHasTimer, HasTimer
  <2> QED
    BY <1>0, <2>2, <2>3 DEF OpenHasTimer, HasTimer
<1>3. ASSUME NEW p \in Procs, Crash(p) PROVE TimerInv'
  <2>1. /\ active'[p] = None
        /\ \A q \in Procs : q # p => active'[q] = active[q]
    BY <1>3 DEF Crash, TypeInv, TypeOK
  <2>2. ActiveHome'
    BY <2>1 DEF ActiveHome
  <2>3. \A b \in Breakers : HasTimer(cb[b]) => HasTimer(cb'[b])
    BY <1>3 DEF Crash, Fresh, HasTimer
  <2>4. ASSUME NEW q \in Procs, active'[q] # None PROVE HasTimer(cb'[active'[q]])
    <3>1. active'[q] = active[q] /\ active[q] \in Breakers
      BY <2>1, <2>4 DEF TypeInv, TypeOK
    <3>2. HasTimer(cb[active[q]])
      BY <2>4, <3>1 DEF OpenHasTimer, HasTimer
    <3> QED
      BY <2>3, <3>1, <3>2
  <2> QED
    BY <1>0, <2>2, <2>4 DEF OpenHasTimer, HasTimer
<1>4. ASSUME NEW b \in Breakers, Install(b) PROVE TimerInv'
  <2>1. b[1] \in Procs
    BY DEF Breakers
  <2>2. /\ active'[b[1]] = b
        /\ \A q \in Procs : q # b[1] => active'[q] = active[q]
    BY <1>4, <2>1 DEF Install, TypeInv, TypeOK
  <2>3. ActiveHome'
    BY <2>2 DEF ActiveHome
  <2>4. \A d \in Breakers : HasTimer(cb[d]) => HasTimer(cb'[d])
    BY <1>4 DEF Install, Fresh, HasTimer, TypeInv, TypeOK
  <2>5. HasTimer(cb'[b])
    BY <1>4 DEF Install, Fresh, HasTimer, TypeInv, TypeOK
  <2>6. ASSUME NEW q \in Procs, active'[q] # None PROVE HasTimer(cb'[active'[q]])
    <3>1. CASE q = b[1]
      BY <2>2, <2>5, <3>1
    <3>2. CASE q # b[1]
      <4>1. active'[q] = active[q] /\ active[q] \in Breakers
        BY <2>2, <2>6, <3>2 DEF TypeInv, TypeOK
      <4>2. HasTimer(cb[active[q]])
        BY <2>6, <4>1 DEF OpenHasTimer, HasTimer
      <4> QED
        BY <2>4, <4>1, <4>2
    <3> QED
      BY <3>1, <3>2
  <2> QED
    BY <1>0, <2>3, <2>6 DEF OpenHasTimer, HasTimer
<1>5. CASE UNCHANGED vars
  BY <1>1, <1>5 DEF vars, OpenHasTimer
<1> QED
  BY <1>1, <1>2, <1>3, <1>4, <1>5, TimerSteady DEF Next

\* An open circuit that receives events always has a reset timer pending,
\* whatever reloads, crashes and lost events do to the process.
THEOREM OpenCircuitsReset == Spec => []OpenHasTimer
<1>1. Spec => []TimerInv
  BY TimerInit, TimerStep, PTL DEF Spec
<1>2. TimerInv => OpenHasTimer
  BY DEF TimerInv
<1> QED
  BY <1>1, <1>2, PTL

-----------------------------------------------------------------------------
(***************************************************************************)
(* A half-open circuit that rejects calls waits for a verdict.  The count  *)
(* of a failed probe travels from cmds to replies to the circuit, and no   *)
(* step but its own verdict may take it away while the circuit waits.      *)
(***************************************************************************)

Waiting(k) == k.circuit = "halfOpen" /\ k.probing

Running(b) == \E r \in Requests : request[r].stage = "running" /\ request[r].via = b

\* Without command errors Redis answers every count.
AnswersOK == \A p \in Procs : \A i \in 1..Len(replies[p]) : replies[p][i].ok

ProbeInv == TypeInv /\ AnswersOK /\ ProbeOutstanding

LEMMA PendingSent ==
    ASSUME TypeOK, NEW b \in Breakers, NEW cs \in Seq(Command), FailurePending(b),
           cmds'[b[1]] = cmds[b[1]] \o cs, replies'[b[1]] = replies[b[1]]
    PROVE  FailurePending(b)'
<1>1. b[1] \in Procs
  BY DEF Breakers
<1>2. /\ Len(cmds[b[1]] \o cs) = Len(cmds[b[1]]) + Len(cs)
      /\ Len(cmds[b[1]]) \in Nat /\ Len(cs) \in Nat
      /\ \A i \in 1..Len(cmds[b[1]]) : (cmds[b[1]] \o cs)[i] = cmds[b[1]][i]
  BY <1>1, ConcatType, LenProperties DEF TypeOK
<1>3. CASE \E i \in 1..Len(cmds[b[1]]) : cmds[b[1]][i].op = "incr" /\ cmds[b[1]][i].brk = b
  <2>1. PICK i \in 1..Len(cmds[b[1]]) : cmds[b[1]][i].op = "incr" /\ cmds[b[1]][i].brk = b
    BY <1>3
  <2>2. i \in 1..Len(cmds'[b[1]]) /\ cmds'[b[1]][i] = cmds[b[1]][i]
    BY <1>2, <2>1
  <2> QED
    BY <2>1, <2>2 DEF FailurePending
<1>4. CASE \E i \in 1..Len(replies[b[1]]) :
             replies[b[1]][i].cmd.op = "incr" /\ replies[b[1]][i].cmd.brk = b
  BY <1>4 DEF FailurePending
<1> QED
  BY <1>3, <1>4 DEF FailurePending

LEMMA PendingAdded ==
    ASSUME TypeOK, NEW b \in Breakers, NEW r \in Requests,
           Send(b[1], <<Cmd("incr", b, r)>>)
    PROVE  FailurePending(b)'
<1> DEFINE c == Cmd("incr", b, r)
           s == cmds[b[1]]
<1>1. b[1] \in Procs
  BY DEF Breakers
<1>2. c \in Command /\ c.op = "incr" /\ c.brk = b
  BY CmdType
<1> HIDE DEF c
<1>3. cmds'[b[1]] = s \o <<c>>
  BY <1>1, <1>2, OneCmdType, SendType DEF TypeOK, c
<1>4. /\ Len(s) \in Nat /\ Len(s \o <<c>>) = Len(s) + 1
      /\ (s \o <<c>>)[Len(s) + 1] = c
  <2>1. s \in Seq(Command) /\ <<c>> \in Seq(Command) /\ Len(<<c>>) = 1 /\ <<c>>[1] = c
    BY <1>1, <1>2 DEF TypeOK
  <2> HIDE DEF s
  <2> QED
    BY <2>1, ConcatProperties, LenProperties
<1>5. Len(s) + 1 \in 1..Len(cmds'[b[1]]) /\ cmds'[b[1]][Len(s) + 1] = c
  BY <1>3, <1>4
<1> QED
  BY <1>2, <1>5 DEF FailurePending

\* Redis counts the first command of a process: what was sent is now handed.
LEMMA PendingExecuted ==
    ASSUME TypeOK, NEW b \in Breakers, NEW p \in Procs, RedisExec(p), FailurePending(b)
    PROVE  FailurePending(b)'
<1> DEFINE c == Head(cmds[p])
<1>1. CASE b[1] # p
  <2>1. cmds'[b[1]] = cmds[b[1]] /\ replies'[b[1]] = replies[b[1]]
    BY <1>1 DEF RedisExec, Answer, TypeOK, Breakers
  <2> QED
    BY <2>1 DEF FailurePending
<1>2. CASE b[1] = p
  <2>1. /\ c \in Command /\ c = cmds[p][1] /\ Len(cmds[p]) \in Nat
        /\ cmds'[p] = Tail(cmds[p]) /\ Len(Tail(cmds[p])) = Len(cmds[p]) - 1
        /\ \A i \in 1..Len(Tail(cmds[p])) : Tail(cmds[p])[i] = cmds[p][i + 1]
    BY TailType DEF RedisExec, TypeOK
  <2>2. \/ c.op # "incr" /\ replies'[p] = replies[p]
        \/ \E a : a.cmd = c /\ replies'[p] = Append(replies[p], a)
    BY <2>1 DEF RedisExec, Answer, TypeOK
  <2>3. /\ Len(replies[p]) \in Nat
        /\ \A a : /\ Len(Append(replies[p], a)) = Len(replies[p]) + 1
                  /\ Append(replies[p], a)[Len(replies[p]) + 1] = a
                  /\ \A i \in 1..Len(replies[p]) : Append(replies[p], a)[i] = replies[p][i]
    BY DEF TypeOK
  <2>4. CASE \E i \in 1..Len(replies[p]) : replies[p][i].cmd.op = "incr" /\ replies[p][i].cmd.brk = b
    BY SMTT(40), <1>2, <2>2, <2>3, <2>4 DEF FailurePending
  <2>5. CASE \E i \in 1..Len(cmds[p]) : cmds[p][i].op = "incr" /\ cmds[p][i].brk = b
    <3>1. PICK i \in 1..Len(cmds[p]) : cmds[p][i].op = "incr" /\ cmds[p][i].brk = b
      BY <2>5
    <3>2. CASE i = 1
      <4>1. PICK a : a.cmd = c /\ replies'[p] = Append(replies[p], a)
        BY <2>1, <2>2, <3>1, <3>2
      <4>2. Len(replies[p]) + 1 \in 1..Len(replies'[p]) /\ replies'[p][Len(replies[p]) + 1] = a
        BY <2>3, <4>1
      <4> QED
        BY <1>2, <2>1, <3>1, <3>2, <4>1, <4>2 DEF FailurePending
    <3>3. CASE i # 1
      <4>1. i - 1 \in 1..Len(cmds'[p]) /\ cmds'[p][i - 1] = cmds[p][i]
        BY <2>1, <3>1, <3>3
      <4> QED
        BY <1>2, <3>1, <4>1 DEF FailurePending
    <3> QED
      BY <3>2, <3>3
  <2> QED
    BY <1>2, <2>4, <2>5 DEF FailurePending
<1> QED
  BY <1>1, <1>2

\* A process handles its first answer: those of other breakers stay.
LEMMA PendingHandled ==
    ASSUME TypeOK, NEW b \in Breakers, NEW p \in Procs, replies[p] # <<>>, NextReply(p),
           NEW cs \in Seq(Command), cmds' = cmds \/ Send(p, cs), FailurePending(b),
           Head(replies[p]).cmd.brk # b \/ Head(replies[p]).cmd.op # "incr"
    PROVE  FailurePending(b)'
<1>1. b[1] \in Procs
  BY DEF Breakers
<1>2. /\ Head(replies[p]) = replies[p][1] /\ Len(replies[p]) \in Nat
      /\ replies'[p] = Tail(replies[p]) /\ Len(Tail(replies[p])) = Len(replies[p]) - 1
      /\ \A i \in 1..Len(Tail(replies[p])) : Tail(replies[p])[i] = replies[p][i + 1]
      /\ \A q \in Procs : q # p => replies'[q] = replies[q]
  BY TailType DEF NextReply, TypeOK
<1>3. CASE \E i \in 1..Len(replies[b[1]]) :
             replies[b[1]][i].cmd.op = "incr" /\ replies[b[1]][i].cmd.brk = b
  <2>1. PICK i \in 1..Len(replies[b[1]]) :
               replies[b[1]][i].cmd.op = "incr" /\ replies[b[1]][i].cmd.brk = b
    BY <1>3
  <2>2. CASE b[1] # p
    BY <1>1, <1>2, <2>1, <2>2 DEF FailurePending
  <2>3. CASE b[1] = p
    <3>1. i - 1 \in 1..Len(replies'[p]) /\ replies'[p][i - 1] = replies[p][i]
      BY <1>2, <2>1, <2>3
    <3> QED
      BY <2>1, <2>3, <3>1 DEF FailurePending
  <2> QED
    BY <2>2, <2>3
<1>4. CASE \E i \in 1..Len(cmds[b[1]]) : cmds[b[1]][i].op = "incr" /\ cmds[b[1]][i].brk = b
  <2>1. \/ cmds'[b[1]] = cmds[b[1]]
        \/ cmds'[b[1]] = cmds[b[1]] \o cs
    BY <1>1, SendType DEF TypeOK
  <2>2. /\ Len(cmds[b[1]] \o cs) = Len(cmds[b[1]]) + Len(cs)
        /\ Len(cmds[b[1]]) \in Nat /\ Len(cs) \in Nat
        /\ \A i \in 1..Len(cmds[b[1]]) : (cmds[b[1]] \o cs)[i] = cmds[b[1]][i]
    BY <1>1, ConcatType, LenProperties DEF TypeOK
  <2>3. PICK i \in 1..Len(cmds[b[1]]) : cmds[b[1]][i].op = "incr" /\ cmds[b[1]][i].brk = b
    BY <1>4
  <2>4. i \in 1..Len(cmds'[b[1]]) /\ cmds'[b[1]][i] = cmds[b[1]][i]
    BY <2>1, <2>2, <2>3
  <2> QED
    BY <2>3, <2>4 DEF FailurePending
<1> QED
  BY <1>3, <1>4 DEF FailurePending

Verdict(b) == Waiting(cb[b]) => Running(b) \/ FailurePending(b)

LEMMA ProbeVerdict == ProbeOutstanding <=> \A b \in Breakers : Verdict(b)
BY DEF ProbeOutstanding, Verdict, Waiting, Running

LEMMA ProbeInit == Init => ProbeInv
<1> SUFFICES ASSUME Init PROVE ProbeInv
  OBVIOUS
<1>1. \A b \in Breakers : cb[b].circuit # "halfOpen"
  BY DEF Init, Fresh
<1>2. AnswersOK
  BY DEF Init, AnswersOK
<1> QED
  BY <1>1, <1>2, TypeInit DEF ProbeInv, ProbeOutstanding

LEMMA ProbeRequests ==
    ASSUME TypeInv, NEW b \in Breakers, Verdict(b),
           \/ \E p \in Procs, r \in Requests : Admit(p, r)
           \/ \E r \in Requests : FinishOk(r) \/ FinishError(r) \/ TimeoutCall(r) \/ EndLate(r)
    PROVE  Verdict(b)'
<1> USE DEF TypeInv, TypeOK
<1>1. ASSUME NEW p \in Procs, NEW r \in Requests, Admit(p, r) PROVE Verdict(b)'
  <2>1. CASE route[p] = b
    BY <1>1, <2>1 DEF Admit, Verdict, Running
  <2>2. CASE route[p] # b
    <3>1. cb'[b] = cb[b] /\ (Running(b) => Running(b)') /\ (FailurePending(b) => FailurePending(b)')
      BY <1>1, <2>2 DEF Admit, Running, FailurePending
    <3> QED
      BY <3>1 DEF Verdict
  <2> QED
    BY <2>1, <2>2
<1>2. ASSUME NEW r \in Requests, request[r].stage = "running", request[r].via # b, Leave(r)
      PROVE  Running(b) => Running(b)'
  BY <1>2 DEF Leave, Running
<1>3. ASSUME NEW d \in Breakers, NEW cs \in Seq(Command), Send(d[1], cs), replies' = replies
      PROVE  FailurePending(b) => FailurePending(b)'
  <2>1. d[1] \in Procs /\ b[1] \in Procs
    BY DEF Breakers
  <2>2. cmds'[b[1]] = cmds[b[1]] \o cs \/ cmds'[b[1]] = cmds[b[1]]
    BY <1>3, <2>1, SendType
  <2>3. CASE cmds'[b[1]] = cmds[b[1]] \o cs
    BY <1>3, <2>3, PendingSent
  <2>4. CASE cmds'[b[1]] = cmds[b[1]]
    BY <1>3, <2>4 DEF FailurePending
  <2> QED
    BY <2>2, <2>3, <2>4
<1>4. ASSUME NEW r \in Requests, FinishOk(r) PROVE Verdict(b)'
  <2>1. request[r].via \in Breakers
    BY <1>4 DEF FinishOk, Request
  <2>2. CASE request[r].via = b
    <3>1. cb'[b].circuit = "closed"
      BY <1>4, <2>1, <2>2, CloseStateType DEF FinishOk, HandlesOK
    <3> QED
      BY <3>1 DEF Verdict, Waiting
  <2>3. CASE request[r].via # b
    <3>1. cb'[b] = cb[b]
      BY <1>4, <2>3 DEF FinishOk
    <3>2. Running(b) => Running(b)'
      BY <1>2, <1>4, <2>3 DEF FinishOk
    <3>3. FailurePending(b) => FailurePending(b)'
      BY <1>3, <1>4, <2>1, NotifyType DEF FinishOk
    <3> QED
      BY <3>1, <3>2, <3>3 DEF Verdict
  <2> QED
    BY <2>2, <2>3
<1>5. ASSUME NEW r \in Requests, FinishError(r) PROVE Verdict(b)'
  <2>1. request[r].via \in Breakers
    BY <1>5 DEF FinishError, Request
  <2>2. CASE request[r].via = b
    BY <1>5, <2>2 DEF FinishError, Verdict, Waiting, Breaker
  <2>3. CASE request[r].via # b
    <3>1. cb'[b] = cb[b]
      BY <1>5, <2>3 DEF FinishError
    <3>2. Running(b) => Running(b)'
      BY <1>2, <1>5, <2>3 DEF FinishError
    <3>3. <<Cmd("incr", request[r].via, r)>> \in Seq(Command)
      BY <2>1, CmdSeqType
    <3>4. FailurePending(b) => FailurePending(b)'
      BY <1>3, <1>5, <2>1, <3>3 DEF FinishError
    <3> QED
      BY <3>1, <3>2, <3>4 DEF Verdict
  <2> QED
    BY <2>2, <2>3
<1>6. ASSUME NEW r \in Requests, TimeoutCall(r) PROVE Verdict(b)'
  <2>1. request[r].via \in Breakers
    BY <1>6 DEF TimeoutCall, Request
  <2>2. CASE request[r].via = b
    <3>1. FailurePending(b)'
      BY <1>6, <2>2, PendingAdded DEF TimeoutCall
    <3> QED
      BY <3>1 DEF Verdict
  <2>3. CASE request[r].via # b
    <3>1. Running(b) => Running(b)'
      BY <1>6, <2>3 DEF TimeoutCall, Running
    <3>2. <<Cmd("incr", request[r].via, r)>> \in Seq(Command)
      BY <2>1, CmdSeqType
    <3>3. FailurePending(b) => FailurePending(b)'
      BY <1>3, <1>6, <2>1, <3>2 DEF TimeoutCall
    <3> QED
      BY <1>6, <3>1, <3>3 DEF Verdict, TimeoutCall
  <2> QED
    BY <2>2, <2>3
<1>7. ASSUME NEW r \in Requests, EndLate(r) PROVE Verdict(b)'
  <2>1. Running(b) => Running(b)'
    BY <1>7 DEF EndLate, Leave, Running
  <2> QED
    BY <1>7, <2>1 DEF EndLate, Verdict, FailurePending
<1> QED
  BY <1>1, <1>4, <1>5, <1>6, <1>7

LEMMA ProbeReplies ==
    ASSUME TypeInv, AnswersOK, NEW b \in Breakers, Verdict(b), NEW p \in Procs, HandleReply(p)
    PROVE  Verdict(b)'
<1> DEFINE a == Head(replies[p])
           d == a.cmd.brk
<1> USE DEF TypeInv, TypeOK
<1>1. replies[p] # <<>> /\ NextReply(p) /\ request' = request
  BY DEF HandleReply, StateLoaded, StateNotLoaded, FailureCounted, FailureNotCounted
<1>2. a \in Reply /\ a.ok /\ d \in Breakers /\ a.cmd \in Command
  <2>1. a \in Reply /\ a = replies[p][1] /\ Len(replies[p]) > 0 /\ Len(replies[p]) \in Nat
    BY <1>1, TailType
  <2> QED
    BY <2>1 DEF AnswersOK, Reply, Command
<1>3. Running(b)' <=> Running(b)
  BY <1>1 DEF Running
<1>4. StateLoaded(p) \/ FailureCounted(p)
  BY <1>2 DEF HandleReply, StateNotLoaded, FailureNotCounted
<1>5. ASSUME MayOpen(cb[d]), cb' = [cb EXCEPT ![d] = OpenState(@)] PROVE ~Waiting(cb'[d])
  BY <1>2, <1>5, OpenStateType DEF Waiting, HandlesOK
<1> HIDE DEF a
<1>6. CASE StateLoaded(p)
  <2>1. CASE b = d
    <3>1. CASE a.state = "open"
      BY <1>5, <1>6, <2>1, <3>1 DEF StateLoaded, Verdict, a
    <3>2. CASE a.state # "open"
      BY <1>2, <1>6, <2>1, <3>2, CloseStateType DEF StateLoaded, Verdict, Waiting, HandlesOK, a
    <3> QED
      BY <3>1, <3>2
  <2>2. CASE b # d
    <3>1. cmds' = cmds /\ cb'[b] = cb[b]
      BY <1>2, <1>6, <2>2 DEF StateLoaded, a
    <3>2. FailurePending(b) => FailurePending(b)'
      BY <1>1, <2>2, <3>1, OneCmdType, PendingHandled DEF a
    <3> QED
      BY <1>3, <3>1, <3>2 DEF Verdict
  <2> QED
    BY <2>1, <2>2
<1>7. CASE FailureCounted(p)
  <2>1. Expiry(a) \in Seq(Command) /\ Expiry(a) \o NotifyOpen(d) \in Seq(Command)
    BY <1>2, ExpiryType, NotifyType, ConcatType
  <2>2. Send(p, Expiry(a)) \/ Send(p, Expiry(a) \o NotifyOpen(d))
    BY <1>7 DEF FailureCounted, a
  <2>3. CASE b = d
    <3>1. CASE Trips(a)
      <4>1. MayOpen(cb[d]) /\ cb' = [cb EXCEPT ![d] = OpenState(@)]
        BY <1>7, <3>1 DEF FailureCounted, a
      <4> QED
        BY <1>5, <2>3, <4>1 DEF Verdict
    <3>2. CASE ~Trips(a)
      BY <1>7, <2>3, <3>2 DEF FailureCounted, Trips, Verdict, Waiting, a
    <3> QED
      BY <3>1, <3>2
  <2>4. CASE b # d
    <3>1. cb'[b] = cb[b]
      BY <1>2, <1>7, <2>4 DEF FailureCounted, a
    <3>2. FailurePending(b) => FailurePending(b)'
      BY <1>1, <2>1, <2>2, <2>4, PendingHandled DEF a
    <3> QED
      BY <1>3, <3>1, <3>2 DEF Verdict
  <2> QED
    BY <2>3, <2>4
<1> QED
  BY <1>4, <1>6, <1>7

LEMMA ProbeOthers ==
    ASSUME TypeInv, "cmdError" \notin Disruptions, NEW b \in Breakers, Verdict(b),
           \/ \E p \in Procs : \/ RedisExec(p) \/ RedisError(p) \/ Deliver(p) \/ DropEvents(p)
                               \/ StartReload(p) \/ ReloadFails(p) \/ Crash(p) \/ Subscribe(p)
           \/ \E d \in Breakers : FireTimer(d) \/ Install(d)
           \/ WindowExpires
    PROVE  Verdict(b)'
<1> USE DEF TypeInv, TypeOK
<1>0. b[1] \in Procs
  BY DEF Breakers
<1>1. ASSUME NEW p \in Procs, RedisExec(p) PROVE Verdict(b)'
  <2>1. FailurePending(b) => FailurePending(b)'
    BY <1>1, PendingExecuted
  <2>2. cb' = cb /\ request' = request
    BY <1>1 DEF RedisExec
  <2> QED
    BY <2>1, <2>2 DEF Verdict, Running
\* What the other steps leave of the requests and of the pending counts.
<1>2. ASSUME request' = request, cmds' = cmds, replies' = replies,
             Waiting(cb'[b]) => Waiting(cb[b])
      PROVE  Verdict(b)'
  BY <1>2 DEF Verdict, Running, FailurePending
<1>3. ASSUME NEW p \in Procs, Deliver(p) PROVE Verdict(b)'
  <2> DEFINE d == active[p]
  <2>1. CASE d # b
    BY <1>2, <1>3, <2>1 DEF Deliver
  <2>2. CASE d = b
    <3>1. d \in Breakers /\ d # None
      BY <2>2, ConstantsAssumption
    <3>2. ~Waiting(cb'[b])
      BY <1>3, <2>2, <3>1, OpenStateType, CloseStateType DEF Deliver, Waiting, HandlesOK
    <3> QED
      BY <3>2 DEF Verdict
  <2> QED
    BY <2>1, <2>2
<1>4. ASSUME NEW p \in Procs, StartReload(p) PROVE Verdict(b)'
  <2>1. Waiting(cb'[b]) => Waiting(cb[b])
    BY <1>4, DestroyType DEF StartReload, Waiting, HandlesOK
  <2> QED
    BY <1>2, <1>4, <2>1 DEF StartReload
<1>5. ASSUME NEW p \in Procs, Crash(p) PROVE Verdict(b)'
  <2>1. CASE b[1] = p
    BY <1>5, <2>1 DEF Crash, Fresh, Verdict, Waiting
  <2>2. CASE b[1] # p
    <3>1. /\ cb'[b] = cb[b] /\ cmds'[b[1]] = cmds[b[1]] /\ replies'[b[1]] = replies[b[1]]
          /\ \A r \in Requests : request[r].via = b => request'[r] = request[r]
      BY <1>0, <1>5, <2>2, ConstantsAssumption DEF Crash
    <3> QED
      BY <3>1 DEF Verdict, Running, FailurePending
  <2> QED
    BY <2>1, <2>2
<1>6. ASSUME NEW d \in Breakers, FireTimer(d) PROVE Verdict(b)'
  <2>1. Waiting(cb'[b]) => Waiting(cb[b])
    BY <1>6, FiredType DEF FireTimer, Waiting
  <2> QED
    BY <1>2, <1>6, <2>1 DEF FireTimer
<1>7. ASSUME NEW d \in Breakers, Install(d) PROVE Verdict(b)'
  <2>1. CASE d = b
    BY <1>7, <2>1 DEF Install, Fresh, Verdict, Waiting
  <2>2. CASE d # b
    <3>1. cb'[b] = cb[b] /\ request' = request /\ replies' = replies
      BY <1>7, <2>2 DEF Install
    <3>2. /\ d[1] \in Procs /\ Send(d[1], <<Cmd("get", d, None)>>)
          /\ <<Cmd("get", d, None)>> \in Seq(Command)
      BY <1>7, CmdSeqType DEF Install, Breakers
    <3>3. cmds'[b[1]] = cmds[b[1]] \o <<Cmd("get", d, None)>> \/ cmds'[b[1]] = cmds[b[1]]
      BY <1>0, <3>2, SendType
    <3>4. CASE cmds'[b[1]] = cmds[b[1]] \o <<Cmd("get", d, None)>>
      BY <3>1, <3>2, <3>4, PendingSent DEF Verdict, Running
    <3>5. CASE cmds'[b[1]] = cmds[b[1]]
      BY <3>1, <3>5 DEF Verdict, Running, FailurePending
    <3> QED
      BY <3>3, <3>4, <3>5
  <2> QED
    BY <2>1, <2>2
<1>8. ASSUME \/ WindowExpires
             \/ \E p \in Procs : DropEvents(p) \/ ReloadFails(p) \/ Subscribe(p)
      PROVE  Verdict(b)'
  BY <1>2, <1>8 DEF WindowExpires, DropEvents, ReloadFails, Subscribe
<1> QED
  BY <1>1, <1>3, <1>4, <1>5, <1>6, <1>7, <1>8 DEF RedisError

LEMMA AnswersStep ==
    ASSUME TypeInv, "cmdError" \notin Disruptions, AnswersOK, [Next]_vars
    PROVE  AnswersOK'
<1> USE DEF TypeInv, TypeOK
<1>1. CASE replies' = replies
  BY <1>1 DEF AnswersOK
<1>2. ASSUME NEW p \in Procs, HandleReply(p) PROVE AnswersOK'
  <2>1. replies[p] # <<>> /\ replies' = [replies EXCEPT ![p] = Tail(@)]
    BY <1>2 DEF HandleReply, StateLoaded, StateNotLoaded, FailureCounted, FailureNotCounted, NextReply
  <2>2. /\ Len(replies[p]) \in Nat /\ Len(Tail(replies[p])) = Len(replies[p]) - 1
        /\ \A i \in 1..Len(Tail(replies[p])) : Tail(replies[p])[i] = replies[p][i + 1]
    BY <2>1, TailType
  <2> QED
    BY <2>1, <2>2 DEF AnswersOK
<1>3. ASSUME NEW p \in Procs, RedisExec(p) PROVE AnswersOK'
  <2> DEFINE c == Head(cmds[p])
  <2>1. \/ replies' = replies
        \/ \E a \in Reply : a.ok /\ replies' = [replies EXCEPT ![p] = Append(@, a)]
    <3>1. c \in Command
      BY <1>3, TailType DEF RedisExec
    <3>2. CASE c.op = "get"
      BY <1>3, <3>1, <3>2 DEF RedisExec, Answer, Reply, Redis
    <3>3. CASE c.op = "incr"
      BY <1>3, <3>1, <3>3, EffectType DEF RedisExec, Answer, Reply, Redis
    <3>4. CASE c.op \notin {"get", "incr"}
      BY <1>3, <3>4 DEF RedisExec, Answer
    <3> QED
      BY <3>2, <3>3, <3>4
  <2>2. ASSUME NEW a \in Reply, a.ok, replies' = [replies EXCEPT ![p] = Append(@, a)]
        PROVE  AnswersOK'
    <3>1. /\ Len(replies[p]) \in Nat /\ Len(Append(replies[p], a)) = Len(replies[p]) + 1
          /\ Append(replies[p], a)[Len(replies[p]) + 1] = a
          /\ \A i \in 1..Len(replies[p]) : Append(replies[p], a)[i] = replies[p][i]
      OBVIOUS
    <3>2. \A i \in 1..Len(replies'[p]) : i = Len(replies[p]) + 1 \/ i \in 1..Len(replies[p])
      BY <2>2, <3>1
    <3> QED
      BY <2>2, <3>1, <3>2 DEF AnswersOK
  <2> QED
    BY <1>1, <2>1, <2>2
<1>4. ASSUME NEW p \in Procs, Crash(p) PROVE AnswersOK'
  BY <1>4 DEF Crash, AnswersOK
<1>5. CASE UNCHANGED vars
  BY <1>1, <1>5 DEF vars
<1> QED
  BY <1>1, <1>2, <1>3, <1>4, <1>5
     DEF Next, RedisError, Deliver, DropEvents, StartReload, ReloadFails, Subscribe, Admit,
         FinishOk, FinishError, TimeoutCall, EndLate, FireTimer, Install, WindowExpires

LEMMA ProbeStep ==
    ASSUME "cmdError" \notin Disruptions
    PROVE  ProbeInv /\ [Next]_vars => ProbeInv'
<1> SUFFICES ASSUME ProbeInv, [Next]_vars PROVE ProbeInv'
  OBVIOUS
<1>1. TypeInv /\ AnswersOK /\ TypeInv' /\ AnswersOK'
  BY TypeStep, AnswersStep DEF ProbeInv
<1>2. ASSUME NEW b \in Breakers PROVE Verdict(b)'
  <2>1. Verdict(b)
    BY ProbeVerdict DEF ProbeInv
  <2>2. CASE UNCHANGED vars
    BY <2>1, <2>2 DEF vars, Verdict, Running, FailurePending
  <2>3. CASE Next
    BY <1>1, <2>1, <2>3, ProbeRequests, ProbeReplies, ProbeOthers DEF Next
  <2> QED
    BY <2>2, <2>3
<1> QED
  BY <1>1, <1>2 DEF ProbeInv, ProbeOutstanding, Verdict, Waiting, Running

\* Unless a Redis command fails, a half-open circuit that rejects calls waits
\* for a call it let through or for that call's count: handleFailure() of
\* express-circuit-breaker.ts has no other way out of the state.
THEOREM HalfOpenWaits ==
    ASSUME "cmdError" \notin Disruptions
    PROVE  Spec => []ProbeOutstanding
<1>1. Init => ProbeInv
  BY ProbeInit
<1>2. ProbeInv /\ [Next]_vars => ProbeInv'
  BY ProbeStep
<1>3. ProbeInv => ProbeOutstanding
  BY DEF ProbeInv
<1> QED
  BY <1>1, <1>2, <1>3, PTL DEF Spec

-----------------------------------------------------------------------------
(***************************************************************************)
(* While processes stay up and keep their configuration, every circuit     *)
(* that is quiet agrees with the state in Redis.  The proof rests on one   *)
(* fact about the two connections: the last event on its way to a process  *)
(* is the state Redis holds.                                               *)
(***************************************************************************)

First(p) == <<p, 1>>

\* Nothing replaces the first breaker of a process, or speaks for another.
Steady ==
    /\ \A p \in Procs : active[p] = First(p) /\ reloads[p] = 0 /\ subscribed[p]
    /\ \A p \in Procs : route[p] = First(p)
    /\ \A r \in Requests : request[r].stage # "idle" =>
         \E p \in Procs : request[r].via = First(p)
    /\ \A p \in Procs : \A i \in 1..Len(cmds[p]) :
         cmds[p][i].brk = First(p) /\ cmds[p][i].op # "get"
    /\ \A p \in Procs : \A i \in 1..Len(replies[p]) :
         replies[p][i].cmd.brk = First(p) /\ replies[p][i].cmd.op # "get"

LastEvent(p) == chan[p] # <<>> => chan[p][Len(chan[p])] = redis.state

Silent(p) == chan[p] = <<>> /\ \A i \in 1..Len(cmds[p]) : ~Publishes(cmds[p][i].op)

Settled(p) == Silent(p) => Agrees(cb[First(p)])

AgreementInv == TypeInv /\ Steady /\ \A p \in Procs : LastEvent(p) /\ Settled(p)

LEMMA FirstType == \A p \in Procs : First(p) \in Breakers /\ First(p) # None /\ First(p)[1] = p
BY ConstantsAssumption DEF First, Breakers

LEMMA FirstInjective == \A p, q \in Procs : First(p) = First(q) => p = q
BY DEF First

LEMMA AgreementInit == Init => AgreementInv
<1> SUFFICES ASSUME Init PROVE AgreementInv
  OBVIOUS
<1>1. Steady
  BY DEF Init, Steady, First
<1>2. \A p \in Procs : LastEvent(p)
  BY DEF Init, LastEvent
<1>3. \A p \in Procs : cb[First(p)].circuit = "closed" /\ redis.state = "close"
  <2>1. \A p \in Procs : First(p)[2] = 1
    BY DEF First
  <2>2. [Fresh EXCEPT !.circuit = "closed"].circuit = "closed"
    BY DEF Fresh
  <2> QED
    BY <2>1, <2>2, FirstType DEF Init
<1> QED
  BY <1>1, <1>2, <1>3, TypeInit DEF AgreementInv, Settled, Agrees

\* What a process appends to its commands.
Own(p, cs) == \A i \in 1..Len(cs) : cs[i].brk = First(p) /\ cs[i].op # "get"

LEMMA OwnSent ==
    ASSUME TypeOK, Steady, NEW p \in Procs, NEW cs \in Seq(Command), Own(p, cs), Send(p, cs)
    PROVE  /\ \A q \in Procs : \A i \in 1..Len(cmds'[q]) :
                cmds'[q][i].brk = First(q) /\ cmds'[q][i].op # "get"
           /\ \A q \in Procs : (\E i \in 1..Len(cmds[q]) : Publishes(cmds[q][i].op))
                                => \E i \in 1..Len(cmds'[q]) : Publishes(cmds'[q][i].op)
<1>1. /\ cmds'[p] = cmds[p] \o cs
      /\ \A q \in Procs : q # p => cmds'[q] = cmds[q]
  BY SendType DEF TypeOK
<1>2. /\ Len(cmds[p] \o cs) = Len(cmds[p]) + Len(cs)
      /\ Len(cmds[p]) \in Nat /\ Len(cs) \in Nat
      /\ \A i \in 1..Len(cmds[p]) : (cmds[p] \o cs)[i] = cmds[p][i]
      /\ \A i \in 1..Len(cmds[p] \o cs) : i > Len(cmds[p]) =>
            (cmds[p] \o cs)[i] = cs[i - Len(cmds[p])]
  BY ConcatType, LenProperties DEF TypeOK
<1>3. ASSUME NEW i \in 1..Len(cmds'[p])
      PROVE  cmds'[p][i].brk = First(p) /\ cmds'[p][i].op # "get"
  <2>1. CASE i <= Len(cmds[p])
    BY <1>1, <1>2, <2>1 DEF Steady
  <2>2. CASE i > Len(cmds[p])
    <3>1. i - Len(cmds[p]) \in 1..Len(cs)
      BY <1>1, <1>2, <2>2
    <3> QED
      BY <1>1, <1>2, <2>2, <3>1 DEF Own
  <2> QED
    BY <1>2, <2>1, <2>2
<1>4. ASSUME NEW q \in Procs, NEW i \in 1..Len(cmds'[q])
      PROVE  cmds'[q][i].brk = First(q) /\ cmds'[q][i].op # "get"
  <2>1. CASE q = p
    BY <1>3, <1>4, <2>1
  <2>2. CASE q # p
    <3>1. cmds'[q] = cmds[q]
      BY <1>1, <2>2
    <3> QED
      BY <1>4, <3>1 DEF Steady
  <2> QED
    BY <2>1, <2>2
<1>5. ASSUME NEW q \in Procs, NEW i \in 1..Len(cmds[q])
      PROVE  i \in 1..Len(cmds'[q]) /\ cmds'[q][i] = cmds[q][i]
  BY <1>1, <1>2
<1> QED
  BY <1>4, <1>5

LEMMA SentPublication ==
    ASSUME TypeOK, NEW p \in Procs, NEW cs \in Seq(Command), Send(p, cs),
           NEW j \in 1..Len(cs), Publishes(cs[j].op)
    PROVE  \E i \in 1..Len(cmds'[p]) : Publishes(cmds'[p][i].op)
<1>1. cmds'[p] = cmds[p] \o cs
  BY SendType DEF TypeOK
<1>2. /\ Len(cmds[p] \o cs) = Len(cmds[p]) + Len(cs) /\ Len(cmds[p]) \in Nat /\ Len(cs) \in Nat
      /\ (cmds[p] \o cs)[Len(cmds[p]) + j] = cs[j]
  <2>1. cmds[p] \in Seq(Command)
    BY DEF TypeOK
  <2>2. Len(cmds[p]) \in Nat /\ Len(cs) \in Nat
    BY <2>1, LenProperties
  <2>3. Len(cmds[p] \o cs) = Len(cmds[p]) + Len(cs)
    BY <2>1, ConcatType
  <2>4. Len(cmds[p]) + j \in 1..Len(cmds[p] \o cs) /\ Len(cmds[p]) + j > Len(cmds[p])
        /\ Len(cmds[p]) + j - Len(cmds[p]) = j
    BY <2>2, <2>3
  <2> QED
    BY <2>1, <2>2, <2>3, <2>4, ConcatType
<1>3. Len(cmds[p]) + j \in 1..Len(cmds'[p])
  BY <1>1, <1>2
<1> QED
  BY <1>1, <1>2, <1>3

\* A local step of process p: it changes one circuit, and it publishes what
\* Redis would contradict.
LEMMA LocalStep ==
    ASSUME AgreementInv, NEW p \in Procs, NEW cs \in Seq(Command), Own(p, cs), Send(p, cs),
           chan' = chan, redis' = redis,
           \A q \in Procs : q # p => cb'[First(q)] = cb[First(q)],
           \/ cb'[First(p)].circuit = cb[First(p)].circuit
           \/ \E j \in 1..Len(cs) : Publishes(cs[j].op)
    PROVE  \A q \in Procs : LastEvent(q)' /\ Settled(q)'
<1>1. \A q \in Procs : (\E i \in 1..Len(cmds[q]) : Publishes(cmds[q][i].op))
                           => \E i \in 1..Len(cmds'[q]) : Publishes(cmds'[q][i].op)
  BY OwnSent DEF AgreementInv, TypeInv
<1>2. CASE cb'[First(p)].circuit = cb[First(p)].circuit
  BY <1>1, <1>2 DEF AgreementInv, LastEvent, Settled, Silent, Agrees
<1>3. CASE \E j \in 1..Len(cs) : Publishes(cs[j].op)
  <2>1. \E i \in 1..Len(cmds'[p]) : Publishes(cmds'[p][i].op)
    BY <1>3, SentPublication DEF AgreementInv, TypeInv
  <2> QED
    BY <1>1, <2>1 DEF AgreementInv, LastEvent, Settled, Silent, Agrees
<1> QED
  BY <1>2, <1>3

-----------------------------------------------------------------------------
(***************************************************************************)
(* The steps.  Without disruptions these are all there are.                *)
(***************************************************************************)

LEMMA OwnCommand ==
    ASSUME NEW p \in Procs, NEW op \in {"incr", "expire", "open", "close"},
           NEW r \in Requests \cup {None}
    PROVE  <<Cmd(op, First(p), r)>> \in Seq(Command) /\ Own(p, <<Cmd(op, First(p), r)>>)
BY FirstType, CmdType, OneCmdType DEF Own

\* A circuit that changes tells the others.
LEMMA Notifies ==
    ASSUME NEW p \in Procs
    PROVE  LET b == First(p) IN
           /\ NotifyOpen(b) \in Seq(Command) /\ Own(p, NotifyOpen(b))
           /\ \/ OpenState(cb[b]).circuit = cb[b].circuit
              \/ \E j \in 1..Len(NotifyOpen(b)) : Publishes(NotifyOpen(b)[j].op)
           /\ NotifyClose(b) \in Seq(Command) /\ Own(p, NotifyClose(b))
           /\ \/ CloseState(cb[b]).circuit = cb[b].circuit
              \/ \E j \in 1..Len(NotifyClose(b)) : Publishes(NotifyClose(b)[j].op)
<1> DEFINE b == First(p)
<1>1. ASSUME NEW op \in {"open", "close"}
      PROVE  LET cs == <<Cmd(op, b, None)>> IN
             /\ cs \in Seq(Command) /\ Own(p, cs)
             /\ Len(cs) = 1 /\ Publishes(cs[1].op)
  BY FirstType, CmdType, OneCmdType, OwnCommand DEF Publishes
<1>2. <<>> \in Seq(Command) /\ Own(p, <<>>)
  BY DEF Own
<1>3. CASE cb[b].circuit = "open"
  BY <1>1, <1>2, <1>3 DEF NotifyOpen, NotifyClose, OpenState
<1>4. CASE cb[b].circuit = "closed"
  BY <1>1, <1>2, <1>4 DEF NotifyOpen, NotifyClose, CloseState
<1>5. CASE cb[b].circuit \notin {"open", "closed"}
  BY <1>1, <1>2, <1>5 DEF NotifyOpen, NotifyClose
<1> QED
  BY <1>3, <1>4, <1>5

LEMMA AgreementRequests ==
    ASSUME AgreementInv,
           \/ \E p \in Procs, r \in Requests : Admit(p, r)
           \/ \E r \in Requests : FinishOk(r) \/ FinishError(r) \/ TimeoutCall(r) \/ EndLate(r)
    PROVE  Steady' /\ \A q \in Procs : LastEvent(q)' /\ Settled(q)'
<1> USE DEF AgreementInv, TypeInv, TypeOK
<1>1. ASSUME NEW p \in Procs, NEW r \in Requests, Admit(p, r)
      PROVE  Steady' /\ \A q \in Procs : LastEvent(q)' /\ Settled(q)'
  <2>1. \A b \in Breakers : cb'[b].circuit = cb[b].circuit
    BY <1>1 DEF Admit, Breaker
  <2>2. \A q \in Procs : LastEvent(q)' /\ Settled(q)'
    BY <1>1, <2>1, FirstType DEF Admit, LastEvent, Settled, Silent, Agrees
  <2>3. \A q \in Requests : request'[q].stage # "idle" =>
          \E d \in Procs : request'[q].via = First(d)
    BY <1>1 DEF Admit, Steady
  <2> QED
    BY <1>1, <2>2, <2>3 DEF Admit, Steady
<1>2. ASSUME NEW r \in Requests, FinishOk(r)
      PROVE  Steady' /\ \A q \in Procs : LastEvent(q)' /\ Settled(q)'
  <2>1. PICK p \in Procs : request[r].via = First(p)
    BY <1>2 DEF FinishOk, Steady
  <2> DEFINE b == First(p)
  <2>2. /\ Send(p, NotifyClose(b)) /\ cb' = [cb EXCEPT ![b] = CloseState(@)]
        /\ chan' = chan /\ redis' = redis /\ Leave(r)
        /\ UNCHANGED <<active, route, reloads, subscribed, replies>>
    BY <1>2, <2>1, FirstType DEF FinishOk
  <2>3. \A q \in Procs : q # p => cb'[First(q)] = cb[First(q)]
    BY <2>2, FirstType, FirstInjective
  <2>4. \A q \in Procs : LastEvent(q)' /\ Settled(q)'
    BY <2>2, <2>3, FirstType, Notifies, LocalStep
  <2>5. \A q \in Procs : \A i \in 1..Len(cmds'[q]) :
          cmds'[q][i].brk = First(q) /\ cmds'[q][i].op # "get"
    BY <2>2, Notifies, OwnSent
  <2> QED
    BY <2>2, <2>4, <2>5 DEF Steady, Leave
<1>3. ASSUME NEW r \in Requests, FinishError(r) \/ TimeoutCall(r)
      PROVE  Steady' /\ \A q \in Procs : LastEvent(q)' /\ Settled(q)'
  <2>1. PICK p \in Procs : request[r].via = First(p)
    BY <1>3 DEF FinishError, TimeoutCall, Steady
  <2> DEFINE b == First(p)
             cs == <<Cmd("incr", b, r)>>
  <2>2. /\ Send(p, cs) /\ chan' = chan /\ redis' = redis
        /\ UNCHANGED <<active, route, reloads, subscribed, replies>>
        /\ cb' = [cb EXCEPT ![b].probing = FALSE] \/ cb' = cb
    BY <1>3, <2>1, FirstType DEF FinishError, TimeoutCall
  <2>3. \A q \in Procs : cb'[First(q)].circuit = cb[First(q)].circuit
    <3>1. cb[b] \in Breaker /\ b \in Breakers
      BY FirstType
    <3>2. [cb[b] EXCEPT !.probing = FALSE].circuit = cb[b].circuit
      BY <3>1 DEF Breaker
    <3> HIDE DEF b
    <3> QED
      BY <2>2, <3>1, <3>2, FirstType
  <2>4. \A q \in Procs : q # p => cb'[First(q)] = cb[First(q)]
    BY <2>2, FirstType, FirstInjective
  <2>5. cs \in Seq(Command) /\ Own(p, cs)
    BY OwnCommand
  <2>6. \A q \in Procs : \A i \in 1..Len(cmds'[q]) :
          cmds'[q][i].brk = First(q) /\ cmds'[q][i].op # "get"
    BY <2>2, <2>5, OwnSent
  <2>7. \A q \in Requests : request'[q].stage # "idle" =>
          \E d \in Procs : request'[q].via = First(d)
    <3>1. CASE FinishError(r)
      BY <3>1 DEF FinishError, Leave, Steady
    <3>2. CASE TimeoutCall(r)
      <4>1. \A q \in Requests : request'[q].via = request[q].via
        BY <3>2 DEF TimeoutCall, Request
      <4>2. \A q \in Requests : request'[q].stage # "idle" => request[q].stage # "idle"
        BY <3>2 DEF TimeoutCall
      <4>3. \A q \in Requests : request[q].stage # "idle" =>
              \E d \in Procs : request[q].via = First(d)
        BY DEF Steady
      <4> QED
        BY <4>1, <4>2, <4>3
    <3> QED
      BY <1>3, <3>1, <3>2
  <2> HIDE DEF cs
  <2>8. \A q \in Procs : LastEvent(q)' /\ Settled(q)'
    BY <2>2, <2>3, <2>4, <2>5, LocalStep
  <2> QED
    BY SMTT(40), <2>2, <2>6, <2>7, <2>8 DEF Steady
<1>4. ASSUME NEW r \in Requests, EndLate(r)
      PROVE  Steady' /\ \A q \in Procs : LastEvent(q)' /\ Settled(q)'
  BY <1>4 DEF EndLate, Leave, Steady, LastEvent, Settled, Silent, Agrees
<1> QED
  BY <1>1, <1>2, <1>3, <1>4

LEMMA AgreementReplies ==
    ASSUME AgreementInv, NEW p \in Procs, HandleReply(p)
    PROVE  Steady' /\ \A q \in Procs : LastEvent(q)' /\ Settled(q)'
<1> USE DEF AgreementInv, TypeInv, TypeOK
<1> DEFINE a == Head(replies[p])
           b == First(p)
<1>1. /\ replies[p] # <<>> /\ NextReply(p) /\ chan' = chan /\ redis' = redis
      /\ UNCHANGED <<active, route, reloads, subscribed, request>>
  BY DEF HandleReply, StateLoaded, StateNotLoaded, FailureCounted, FailureNotCounted
<1>2. /\ a \in Reply /\ a = replies[p][1] /\ 1 \in 1..Len(replies[p]) /\ Len(replies[p]) \in Nat
      /\ replies'[p] = Tail(replies[p]) /\ Len(Tail(replies[p])) = Len(replies[p]) - 1
      /\ \A i \in 1..Len(Tail(replies[p])) : Tail(replies[p])[i] = replies[p][i + 1]
      /\ \A q \in Procs : q # p => replies'[q] = replies[q]
  BY <1>1, TailType DEF NextReply
<1>0. \A q \in Procs : \A i \in 1..Len(replies[q]) :
        replies[q][i].cmd.brk = First(q) /\ replies[q][i].cmd.op # "get"
  BY DEF Steady
<1>3. a.cmd.brk = b /\ a.cmd.op # "get" /\ a.cmd \in Command
  <2>1. a.cmd \in Command
    BY <1>2 DEF Reply
  <2> HIDE DEF a
  <2> QED
    BY <1>0, <1>2, <2>1
<1>4. \A q \in Procs : \A i \in 1..Len(replies'[q]) :
        replies'[q][i].cmd.brk = First(q) /\ replies'[q][i].cmd.op # "get"
  <2>1. ASSUME NEW i \in 1..Len(replies'[p])
        PROVE  replies'[p][i].cmd.brk = First(p) /\ replies'[p][i].cmd.op # "get"
    <3>1. i + 1 \in 1..Len(replies[p]) /\ replies'[p][i] = replies[p][i + 1]
      BY <1>2
    <3> QED
      BY <1>0, <3>1
  <2>2. ASSUME NEW q \in Procs, q # p, NEW i \in 1..Len(replies'[q])
        PROVE  replies'[q][i].cmd.brk = First(q) /\ replies'[q][i].cmd.op # "get"
    <3>1. replies'[q] = replies[q]
      BY <1>2, <2>2
    <3> QED
      BY <1>0, <2>2, <3>1
  <2> QED
    BY <2>1, <2>2
<1> HIDE DEF a
<1>5. CASE FailureNotCounted(p)
  <2>1. cb' = cb /\ cmds' = cmds
    BY <1>5 DEF FailureNotCounted
  <2>2. Steady'
    BY <1>1, <1>4, <2>1 DEF Steady
  <2>3. \A q \in Procs : LastEvent(q)' /\ Settled(q)'
    BY <1>1, <2>1 DEF LastEvent, Settled, Silent, Agrees
  <2> QED
    BY <2>2, <2>3
<1>6. CASE FailureCounted(p)
  <2>1. Expiry(a) \in Seq(Command) /\ Own(p, Expiry(a))
    <3>1. CASE Expiry(a) = <<>>
      BY <3>1 DEF Own
    <3>2. CASE Expiry(a) = <<Cmd("expire", b, None)>>
      BY <3>2, OwnCommand
    <3> QED
      BY <1>3, <3>1, <3>2 DEF Expiry
  <2> DEFINE all == Expiry(a) \o NotifyOpen(b)
  <2>2. /\ all \in Seq(Command) /\ Own(p, all)
        /\ \/ OpenState(cb[b]).circuit = cb[b].circuit
           \/ \E j \in 1..Len(all) : Publishes(all[j].op)
    <3>1. /\ NotifyOpen(b) \in Seq(Command) /\ Own(p, NotifyOpen(b))
          /\ \/ OpenState(cb[b]).circuit = cb[b].circuit
             \/ \E j \in 1..Len(NotifyOpen(b)) : Publishes(NotifyOpen(b)[j].op)
      BY Notifies
    <3> DEFINE x == Expiry(a)
               n == NotifyOpen(b)
    <3>2. x \in Seq(Command) /\ n \in Seq(Command)
      BY <2>1, <3>1
    <3> HIDE DEF x, n
    <3>3. /\ x \o n \in Seq(Command) /\ Len(x \o n) = Len(x) + Len(n)
          /\ Len(x) \in Nat /\ Len(n) \in Nat
          /\ \A i \in 1..Len(x) : (x \o n)[i] = x[i]
          /\ \A i \in 1..Len(x \o n) : i > Len(x) => (x \o n)[i] = n[i - Len(x)]
      BY <3>2, ConcatType, LenProperties
    <3>4. \A i \in 1..Len(x \o n) : i > Len(x) => i - Len(x) \in 1..Len(n)
      BY <3>3
    <3>5. Own(p, x \o n)
      <4>1. Own(p, x) /\ Own(p, n)
        BY <2>1, <3>1 DEF x, n
      <4> QED
        BY <3>3, <3>4, <4>1 DEF Own
    <3>6. ASSUME NEW j \in 1..Len(n), Publishes(n[j].op)
          PROVE  \E i \in 1..Len(x \o n) : Publishes((x \o n)[i].op)
      <4>1. Len(x) + j \in 1..Len(x \o n) /\ Len(x) + j > Len(x) /\ Len(x) + j - Len(x) = j
        BY <3>3
      <4>2. (x \o n)[Len(x) + j] = n[j]
        BY <3>3, <4>1
      <4> QED
        BY <3>6, <4>1, <4>2
    <3> QED
      BY <3>1, <3>3, <3>5, <3>6 DEF x, n
  <2>3. CASE Trips(a)
    <3>1. Send(p, all) /\ cb' = [cb EXCEPT ![b] = OpenState(@)]
      BY <1>3, <1>6, <2>3 DEF FailureCounted, a
    <3> HIDE DEF all
    <3>2. \A q \in Procs : q # p => cb'[First(q)] = cb[First(q)]
      BY <3>1, FirstType, FirstInjective
    <3>3. cb'[b].circuit = OpenState(cb[b]).circuit
      BY <3>1, FirstType
    <3>4. \A q \in Procs : LastEvent(q)' /\ Settled(q)'
      BY <1>1, <2>2, <3>1, <3>2, <3>3, LocalStep
    <3>5. \A q \in Procs : \A i \in 1..Len(cmds'[q]) :
            cmds'[q][i].brk = First(q) /\ cmds'[q][i].op # "get"
      BY <2>2, <3>1, OwnSent
    <3> QED
      BY <1>1, <1>4, <3>4, <3>5 DEF Steady
  <2>4. CASE ~Trips(a)
    <3>1. Send(p, Expiry(a)) /\ cb' = cb
      BY <1>6, <2>4 DEF FailureCounted, a
    <3>2. \A q \in Procs : LastEvent(q)' /\ Settled(q)'
      BY <1>1, <2>1, <3>1, LocalStep
    <3>3. \A q \in Procs : \A i \in 1..Len(cmds'[q]) :
            cmds'[q][i].brk = First(q) /\ cmds'[q][i].op # "get"
      BY <2>1, <3>1, OwnSent
    <3> QED
      BY <1>1, <1>4, <3>2, <3>3 DEF Steady
  <2> QED
    BY <2>3, <2>4
<1> QED
  BY <1>3, <1>5, <1>6 DEF HandleReply, StateLoaded, StateNotLoaded, a

LEMMA AppendLast ==
    ASSUME NEW S, NEW s \in Seq(S), NEW e \in S
    PROVE  Append(s, e) # <<>> /\ Append(s, e)[Len(Append(s, e))] = e
BY AppendProperties

\* Redis speaks: what it holds is the last thing it says to everyone.
LEMMA AgreementExec ==
    ASSUME AgreementInv, NEW p \in Procs, RedisExec(p)
    PROVE  Steady' /\ \A q \in Procs : LastEvent(q)' /\ Settled(q)'
<1> USE DEF AgreementInv, TypeInv, TypeOK
<1> DEFINE c == Head(cmds[p])
<1>1. /\ c \in Command /\ c = cmds[p][1] /\ Len(cmds[p]) \in Nat /\ 1 \in 1..Len(cmds[p])
      /\ cmds'[p] = Tail(cmds[p]) /\ Len(Tail(cmds[p])) = Len(cmds[p]) - 1
      /\ \A i \in 1..Len(Tail(cmds[p])) : Tail(cmds[p])[i] = cmds[p][i + 1]
      /\ \A q \in Procs : q # p => cmds'[q] = cmds[q]
  BY TailType DEF RedisExec
<1>2. /\ redis' = Effect(c) /\ Answer(p, c, TRUE)
      /\ UNCHANGED <<cb, active, route, reloads, subscribed, request>>
      /\ IF Publishes(c.op) THEN Publish(c.op) ELSE UNCHANGED chan
  BY DEF RedisExec
<1>3. \A q \in Procs : \A i \in 1..Len(cmds[q]) :
        cmds[q][i].brk = First(q) /\ cmds[q][i].op # "get"
  BY DEF Steady
<1>4. \A q \in Procs : \A i \in 1..Len(replies[q]) :
        replies[q][i].cmd.brk = First(q) /\ replies[q][i].cmd.op # "get"
  BY DEF Steady
<1>5. c.brk = First(p) /\ c.op # "get"
  <2> HIDE DEF c
  <2> QED
    BY <1>1, <1>3
<1>6. ASSUME NEW i \in 1..Len(cmds'[p])
      PROVE  i + 1 \in 1..Len(cmds[p]) /\ cmds'[p][i] = cmds[p][i + 1]
  BY <1>1
<1> HIDE DEF c
<1>7. \A q \in Procs : \A i \in 1..Len(cmds'[q]) :
        cmds'[q][i].brk = First(q) /\ cmds'[q][i].op # "get"
  <2> SUFFICES ASSUME NEW q \in Procs, NEW i \in 1..Len(cmds'[q])
               PROVE  cmds'[q][i].brk = First(q) /\ cmds'[q][i].op # "get"
    OBVIOUS
  <2>1. CASE q = p
    <3>1. i + 1 \in 1..Len(cmds[p]) /\ cmds'[p][i] = cmds[p][i + 1]
      BY <1>6, <2>1
    <3>2. cmds[p][i + 1].brk = First(p) /\ cmds[p][i + 1].op # "get"
      BY <1>3, <3>1
    <3> QED
      BY <2>1, <3>1, <3>2
  <2>2. CASE q # p
    <3>1. cmds'[q] = cmds[q]
      BY <1>1, <2>2
    <3> QED
      BY <1>3, <3>1
  <2> QED
    BY <2>1, <2>2
<1>8. \A q \in Procs : \A i \in 1..Len(replies'[q]) :
        replies'[q][i].cmd.brk = First(q) /\ replies'[q][i].cmd.op # "get"
  <2>1. CASE c.op = "incr"
    <3> DEFINE a == [cmd |-> c, ok |-> TRUE, failures |-> Effect(c).failures, ttl |-> redis.ttl]
    <3>1. a \in Reply /\ a.cmd = c
      BY <1>1, <2>1, EffectType DEF Reply, Redis
    <3>2. replies' = [replies EXCEPT ![p] = Append(@, a)]
      BY <1>2, <2>1 DEF Answer
    <3> HIDE DEF a
    <3>3. /\ replies'[p] = Append(replies[p], a)
          /\ \A q \in Procs : q # p => replies'[q] = replies[q]
      BY <3>2
    <3>4. ASSUME NEW i \in 1..Len(replies'[p])
          PROVE  replies'[p][i].cmd.brk = First(p) /\ replies'[p][i].cmd.op # "get"
      <4>1. replies[p] \in Seq(Reply)
        OBVIOUS
      <4>2. CASE i = Len(replies[p]) + 1
        <5>1. replies'[p][i] = a
          BY <3>1, <3>3, <4>1, <4>2
        <5> QED
          BY <1>5, <3>1, <5>1
      <4>3. CASE i # Len(replies[p]) + 1
        <5>1. i \in 1..Len(replies[p]) /\ replies'[p][i] = replies[p][i]
          BY <3>1, <3>3, <4>1, <4>3
        <5> QED
          BY <1>4, <5>1
      <4> QED
        BY <4>2, <4>3
    <3>5. ASSUME NEW q \in Procs, q # p, NEW i \in 1..Len(replies'[q])
          PROVE  replies'[q][i].cmd.brk = First(q) /\ replies'[q][i].cmd.op # "get"
      BY <1>4, <3>3, <3>5
    <3> QED
      BY <3>4, <3>5
  <2>2. CASE c.op # "incr"
    BY <1>2, <1>4, <1>5, <2>2 DEF Answer
  <2> QED
    BY <2>1, <2>2
<1>9. Steady'
  BY <1>2, <1>7, <1>8 DEF Steady
<1>10. CASE Publishes(c.op)
  <2>1. redis'.state = c.op
    BY <1>2, <1>10 DEF Publishes, Effect, Redis
  <2>2. \A q \in Procs : chan'[q] = Append(chan[q], c.op)
    BY <1>2, <1>10 DEF Publish, Steady
  <2>3. ASSUME NEW q \in Procs PROVE LastEvent(q)' /\ Settled(q)'
    <3>1. chan[q] \in Seq({"open", "close"}) /\ c.op \in {"open", "close"}
      BY <1>10 DEF Publishes
    <3>2. /\ Append(chan[q], c.op) # <<>>
          /\ Append(chan[q], c.op)[Len(Append(chan[q], c.op))] = c.op
      BY ZenonT(40), <3>1, AppendLast
    <3> QED
      BY <2>1, <2>2, <3>2 DEF LastEvent, Settled, Silent
  <2> QED
    BY <1>9, <2>3
<1>11. CASE ~Publishes(c.op)
  <2>1. redis'.state = redis.state /\ chan' = chan /\ cb' = cb
    BY <1>1, <1>2, <1>5, <1>11 DEF Publishes, Effect, Redis, Command
  <2>2. ASSUME NEW q \in Procs, NEW i \in 1..Len(cmds[q]), Publishes(cmds[q][i].op)
        PROVE  \E j \in 1..Len(cmds'[q]) : Publishes(cmds'[q][j].op)
    <3>1. CASE q = p
      <4>1. i # 1
        BY <1>1, <1>11, <2>2, <3>1
      <4>2. i - 1 \in 1..Len(cmds'[p]) /\ i - 1 + 1 = i
        BY <1>1, <3>1, <4>1
      <4>3. cmds'[p][i - 1] = cmds[p][i]
        BY <1>6, <4>2
      <4> QED
        BY <2>2, <3>1, <4>2, <4>3
    <3>2. CASE q # p
      BY <1>1, <2>2, <3>2
    <3> QED
      BY <3>1, <3>2
  <2>3. ASSUME NEW q \in Procs PROVE LastEvent(q)' /\ Settled(q)'
    BY <2>1, <2>2 DEF LastEvent, Settled, Silent, Agrees
  <2> QED
    BY <1>9, <2>3
<1> QED
  BY <1>10, <1>11

\* The last event brings a circuit to the state Redis holds.
LEMMA AgreementDeliver ==
    ASSUME AgreementInv, NEW p \in Procs, Deliver(p)
    PROVE  Steady' /\ \A q \in Procs : LastEvent(q)' /\ Settled(q)'
<1> USE DEF AgreementInv, TypeInv, TypeOK
<1> DEFINE b == First(p)
<1>1. /\ chan[p] # <<>> /\ chan' = [chan EXCEPT ![p] = Tail(@)]
      /\ IF Head(chan[p]) = "open"
         THEN MayOpen(cb[b]) /\ cb' = [cb EXCEPT ![b] = OpenState(@)]
         ELSE cb' = [cb EXCEPT ![b] = CloseState(@)]
      /\ UNCHANGED <<active, route, reloads, subscribed, request, cmds, replies, redis>>
  BY FirstType DEF Deliver, Steady
<1>2. Steady'
  BY <1>1 DEF Steady
<1>3. \A q \in Procs : q # p => chan'[q] = chan[q] /\ cb'[First(q)] = cb[First(q)]
  BY <1>1, FirstType, FirstInjective
<1>4. /\ Len(chan[p]) \in Nat /\ Len(chan[p]) > 0 /\ Head(chan[p]) = chan[p][1]
      /\ chan'[p] = Tail(chan[p]) /\ Len(Tail(chan[p])) = Len(chan[p]) - 1
      /\ Tail(chan[p]) \in Seq({"open", "close"}) /\ Head(chan[p]) \in {"open", "close"}
      /\ \A i \in 1..Len(Tail(chan[p])) : Tail(chan[p])[i] = chan[p][i + 1]
  BY <1>1, TailType
<1>5. LastEvent(p)'
  <2>1. CASE Tail(chan[p]) = <<>>
    BY <1>4, <2>1 DEF LastEvent
  <2>2. CASE Tail(chan[p]) # <<>>
    <3>1. Len(Tail(chan[p])) > 0
      BY <1>4, <2>2, EmptySeq
    <3>2. Len(Tail(chan[p])) \in 1..Len(Tail(chan[p])) /\ Len(Tail(chan[p])) + 1 = Len(chan[p])
      BY <1>4, <3>1
    <3> QED
      BY <1>1, <1>4, <3>2 DEF LastEvent
  <2> QED
    BY <2>1, <2>2
<1>6. Settled(p)'
  <2>1. CASE Tail(chan[p]) = <<>>
    <3>1. Len(chan[p]) = 1
      <4> DEFINE m == Len(chan[p])
                 n == Len(Tail(chan[p]))
      <4>1. m \in Nat /\ n = m - 1 /\ n = 0
        BY <1>4, <2>1, EmptySeq
      <4> HIDE DEF m, n
      <4>2. m = 1
        BY <4>1
      <4> QED
        BY <4>2 DEF m
    <3>2. redis.state = Head(chan[p])
      BY <1>1, <1>4, <3>1 DEF LastEvent
    <3>3. cb'[b].circuit = IF Head(chan[p]) = "open" THEN "open" ELSE "closed"
      BY <1>1, FirstType, OpenStateType, CloseStateType DEF HandlesOK
    <3> QED
      BY <1>1, <1>4, <3>2, <3>3 DEF Settled, Agrees
  <2>2. CASE Tail(chan[p]) # <<>>
    BY <1>4, <2>2 DEF Settled, Silent
  <2> QED
    BY <2>1, <2>2
<1>7. ASSUME NEW q \in Procs, q # p PROVE LastEvent(q)' /\ Settled(q)'
  BY <1>1, <1>3, <1>7 DEF LastEvent, Settled, Silent, Agrees
<1> QED
  BY <1>2, <1>5, <1>6, <1>7

LEMMA AgreementOthers ==
    ASSUME AgreementInv, Disruptions = {},
           \/ \E p \in Procs : \/ RedisError(p) \/ DropEvents(p) \/ StartReload(p)
                               \/ ReloadFails(p) \/ Crash(p) \/ Subscribe(p)
           \/ \E d \in Breakers : FireTimer(d) \/ Install(d)
           \/ WindowExpires
    PROVE  Steady' /\ \A q \in Procs : LastEvent(q)' /\ Settled(q)'
<1> USE DEF AgreementInv, TypeInv, TypeOK
<1>1. ASSUME NEW p \in Procs
      PROVE  ~RedisError(p) /\ ~DropEvents(p) /\ ~StartReload(p) /\ ~ReloadFails(p)
             /\ ~Crash(p) /\ ~Subscribe(p)
  BY DEF RedisError, DropEvents, StartReload, ReloadFails, Crash, Subscribe, Steady
<1>2. ASSUME NEW d \in Breakers PROVE ~Install(d)
  <2>1. d[1] \in Procs
    BY DEF Breakers
  <2>2. reloads[d[1]] = 0
    BY <2>1 DEF Steady
  <2> QED
    BY <2>2 DEF Install
<1>3. ASSUME NEW d \in Breakers, FireTimer(d)
      PROVE  Steady' /\ \A q \in Procs : LastEvent(q)' /\ Settled(q)'
  <2>1. Steady'
    BY <1>3 DEF FireTimer, Steady
  <2>2. ASSUME NEW q \in Procs
        PROVE  cb'[First(q)] = cb[First(q)] \/ cb'[First(q)].circuit = "halfOpen"
    BY <1>3, FirstType, FiredType DEF FireTimer
  <2> QED
    BY <1>3, <2>1, <2>2 DEF FireTimer, LastEvent, Settled, Silent, Agrees
<1>4. CASE WindowExpires
  <2>1. redis'.state = redis.state
    BY <1>4 DEF WindowExpires, Redis
  <2>2. UNCHANGED <<cb, active, route, reloads, subscribed, request, cmds, replies, chan>>
    BY <1>4 DEF WindowExpires
  <2> QED
    BY <2>1, <2>2 DEF Steady, LastEvent, Settled, Silent, Agrees
<1> QED
  BY <1>1, <1>2, <1>3, <1>4

LEMMA AgreementStep ==
    ASSUME Disruptions = {}
    PROVE  AgreementInv /\ [Next]_vars => AgreementInv'
<1> SUFFICES ASSUME AgreementInv, [Next]_vars PROVE AgreementInv'
  OBVIOUS
<1>1. TypeInv'
  BY TypeStep DEF AgreementInv
<1>2. CASE UNCHANGED vars
  BY <1>1, <1>2 DEF vars, AgreementInv, Steady, LastEvent, Settled, Silent, Agrees
<1>3. CASE Next
  <2>1. Steady' /\ \A q \in Procs : LastEvent(q)' /\ Settled(q)'
    BY <1>3, AgreementRequests, AgreementReplies, AgreementExec, AgreementDeliver,
       AgreementOthers DEF Next
  <2> QED
    BY <1>1, <2>1 DEF AgreementInv
<1> QED
  BY <1>2, <1>3

\* As long as the processes stay up, keep their connections and are not
\* reloaded, a process that handled every CIRCUIT_CHANGED event and has none
\* to publish has not the opposite circuit of the state in Redis: the
\* notify/onStateChanged protocol of redis-state-handler.ts, whatever the
\* interleaving.
THEOREM QuietCircuitsAgree ==
    ASSUME Disruptions = {}
    PROVE  Spec => []AgreementWhenQuiet
<1>1. Init => AgreementInv
  BY AgreementInit
<1>2. AgreementInv /\ [Next]_vars => AgreementInv'
  BY AgreementStep
<1>3. AgreementInv => AgreementWhenQuiet
  BY DEF AgreementInv, Steady, Settled, Silent, Quiet, AgreementWhenQuiet
<1> QED
  BY <1>1, <1>2, <1>3, PTL DEF Spec

-----------------------------------------------------------------------------
(***************************************************************************)
(* A counter without expiry is about to get one.  The invariant is its     *)
(* own: every count is answered with whether the counter expires, so the   *)
(* answer to the last count asks for what is missing.                      *)
(***************************************************************************)

\* The expiry of the counter is with process p.
SendsExpiry(p) == \E i \in 1..Len(cmds[p]) : cmds[p][i].op = "expire"

GetsExpiry(p) ==
    \E i \in 1..Len(replies[p]) :
        replies[p][i].cmd.op = "incr" /\ replies[p][i].ok /\ Expiry(replies[p][i]) # <<>>

ExpiryInv == TypeInv /\ CounterWillExpire

LEMMA ExpiryWith ==
    CounterWillExpire <=> (UseWindow /\ redis.failures > 0 /\ ~redis.ttl =>
                              \E p \in Procs : SendsExpiry(p) \/ GetsExpiry(p))
BY DEF CounterWillExpire, SendsExpiry, GetsExpiry

\* What is appended to the commands leaves the expiry among them.
LEMMA ExpirySent ==
    ASSUME TypeOK, NEW p \in Procs, NEW cs \in Seq(Command), Send(p, cs)
    PROVE  /\ \A q \in Procs : SendsExpiry(q) => SendsExpiry(q)'
           /\ (\E i \in 1..Len(cs) : cs[i].op = "expire") => SendsExpiry(p)'
<1>1. /\ cmds'[p] = cmds[p] \o cs
      /\ \A q \in Procs : q # p => cmds'[q] = cmds[q]
  BY SendType DEF TypeOK
<1>2. /\ Len(cmds[p] \o cs) = Len(cmds[p]) + Len(cs)
      /\ Len(cmds[p]) \in Nat /\ Len(cs) \in Nat
      /\ \A i \in 1..Len(cmds[p]) : (cmds[p] \o cs)[i] = cmds[p][i]
      /\ \A i \in 1..Len(cmds[p] \o cs) : i > Len(cmds[p]) =>
            (cmds[p] \o cs)[i] = cs[i - Len(cmds[p])]
  BY ConcatType, LenProperties DEF TypeOK
<1>3. ASSUME NEW q \in Procs, SendsExpiry(q) PROVE SendsExpiry(q)'
  <2>1. CASE q # p
    BY <1>1, <1>3, <2>1 DEF SendsExpiry
  <2>2. CASE q = p
    <3>1. PICK i \in 1..Len(cmds[p]) : cmds[p][i].op = "expire"
      BY <1>3, <2>2 DEF SendsExpiry
    <3>2. i \in 1..Len(cmds'[p]) /\ cmds'[p][i] = cmds[p][i]
      BY <1>1, <1>2
    <3> QED
      BY <2>2, <3>1, <3>2 DEF SendsExpiry
  <2> QED
    BY <2>1, <2>2
<1>4. ASSUME NEW i \in 1..Len(cs), cs[i].op = "expire" PROVE SendsExpiry(p)'
  <2>1. /\ Len(cmds[p]) + i \in 1..Len(cmds'[p])
        /\ cmds'[p][Len(cmds[p]) + i] = cs[i]
    <3>1. Len(cmds[p]) + i \in 1..Len(cmds[p] \o cs) /\ Len(cmds[p]) + i > Len(cmds[p])
      BY <1>2
    <3>2. Len(cmds[p]) + i - Len(cmds[p]) = i
      BY <1>2
    <3> QED
      BY <1>1, <1>2, <3>1, <3>2
  <2> QED
    BY <1>4, <2>1 DEF SendsExpiry
<1> QED
  BY <1>3, <1>4

\* An answer that is handled may be the one that asks for the expiry.
LEMMA ExpiryAnswered ==
    ASSUME TypeOK, NEW p \in Procs, replies[p] # <<>>, NextReply(p), NEW q \in Procs, GetsExpiry(q)
    PROVE  \/ GetsExpiry(q)'
           \/ /\ q = p /\ Head(replies[p]).cmd.op = "incr" /\ Head(replies[p]).ok
              /\ Expiry(Head(replies[p])) # <<>>
<1>1. /\ Head(replies[p]) = replies[p][1] /\ Len(replies[p]) \in Nat
      /\ replies'[p] = Tail(replies[p]) /\ Len(Tail(replies[p])) = Len(replies[p]) - 1
      /\ \A i \in 1..Len(Tail(replies[p])) : Tail(replies[p])[i] = replies[p][i + 1]
      /\ \A o \in Procs : o # p => replies'[o] = replies[o]
  BY TailType DEF NextReply, TypeOK
<1>2. CASE q # p
  BY <1>1, <1>2 DEF GetsExpiry, Expiry
<1>3. CASE q = p
  <2>1. PICK i \in 1..Len(replies[p]) : /\ replies[p][i].cmd.op = "incr" /\ replies[p][i].ok
                                        /\ Expiry(replies[p][i]) # <<>>
    BY <1>3 DEF GetsExpiry
  <2>2. CASE i = 1
    BY <1>1, <1>3, <2>1, <2>2
  <2>3. CASE i # 1
    <3>1. i - 1 \in 1..Len(replies'[p]) /\ replies'[p][i - 1] = replies[p][i]
      BY <1>1, <2>1, <2>3
    <3> QED
      BY <1>3, <2>1, <3>1 DEF GetsExpiry, Expiry
  <2> QED
    BY <2>2, <2>3
<1> QED
  BY <1>2, <1>3

LEMMA ExpiryHandled ==
    ASSUME TypeInv, NEW p \in Procs, HandleReply(p), NEW q \in Procs, SendsExpiry(q) \/ GetsExpiry(q)
    PROVE  SendsExpiry(q)' \/ GetsExpiry(q)'
<1> USE DEF TypeInv, TypeOK
<1> DEFINE a == Head(replies[p])
           b == a.cmd.brk
<1>1. replies[p] # <<>> /\ NextReply(p)
  BY DEF HandleReply, StateLoaded, StateNotLoaded, FailureCounted, FailureNotCounted
<1>2. a \in Reply /\ a.cmd \in Command /\ b \in Breakers
  BY <1>1, TailType DEF Reply, Command
<1>3. /\ Expiry(a) \in Seq(Command) /\ NotifyOpen(b) \in Seq(Command) /\ NotifyClose(b) \in Seq(Command)
      /\ Expiry(a) \o NotifyOpen(b) \in Seq(Command)
  BY <1>2, ExpiryType, NotifyType, ConcatType
<1>4. \/ cmds' = cmds
      \/ Send(p, NotifyClose(b))
      \/ Send(p, Expiry(a)) \/ Send(p, Expiry(a) \o NotifyOpen(b))
  BY DEF HandleReply, StateLoaded, StateNotLoaded, FailureCounted, FailureNotCounted
<1>5. CASE SendsExpiry(q)
  <2>1. CASE cmds' = cmds
    BY <1>5, <2>1 DEF SendsExpiry
  <2>2. CASE cmds' # cmds
    BY <1>3, <1>4, <1>5, <2>2, ExpirySent
  <2> QED
    BY <2>1, <2>2
<1>6. CASE GetsExpiry(q) /\ ~GetsExpiry(q)'
  <2>1. q = p /\ a.cmd.op = "incr" /\ a.ok /\ Expiry(a) # <<>>
    BY <1>1, <1>6, ExpiryAnswered
  <2>2. FailureCounted(p)
    BY <2>1 DEF HandleReply, StateLoaded, StateNotLoaded, FailureNotCounted
  <2>3. Send(p, Expiry(a)) \/ Send(p, Expiry(a) \o NotifyOpen(b))
    BY <2>2 DEF FailureCounted
  <2>4. /\ Expiry(a) = <<Cmd("expire", b, None)>>
        /\ Len(Expiry(a)) = 1 /\ Expiry(a)[1].op = "expire"
    BY <2>1 DEF Expiry, Cmd
  <2>5. /\ \E i \in 1..Len(Expiry(a)) : Expiry(a)[i].op = "expire"
    BY <2>4
  <2>6. \E i \in 1..Len(Expiry(a) \o NotifyOpen(b)) : (Expiry(a) \o NotifyOpen(b))[i].op = "expire"
    <3>1. /\ Len(Expiry(a) \o NotifyOpen(b)) = Len(Expiry(a)) + Len(NotifyOpen(b))
          /\ Len(NotifyOpen(b)) \in Nat
          /\ \A i \in 1..Len(Expiry(a)) : (Expiry(a) \o NotifyOpen(b))[i] = Expiry(a)[i]
      BY <1>3, ConcatType, LenProperties
    <3>2. 1 \in 1..Len(Expiry(a)) /\ 1 \in 1..Len(Expiry(a) \o NotifyOpen(b))
      BY <2>4, <3>1
    <3> QED
      BY <2>4, <3>1, <3>2
  <2> QED
    BY <1>3, <2>1, <2>3, <2>5, <2>6, ExpirySent
<1> QED
  BY <1>5, <1>6

\* Redis counts a failure without expiry: its answer asks for one.
LEMMA ExpiryExecuted ==
    ASSUME ExpiryInv, NEW p \in Procs, RedisExec(p)
    PROVE  CounterWillExpire'
<1> USE DEF ExpiryInv, TypeInv, TypeOK
<1> DEFINE c == Head(cmds[p])
<1>1. /\ c \in Command /\ c = cmds[p][1] /\ Len(cmds[p]) \in Nat
      /\ cmds'[p] = Tail(cmds[p]) /\ Len(Tail(cmds[p])) = Len(cmds[p]) - 1
      /\ \A i \in 1..Len(Tail(cmds[p])) : Tail(cmds[p])[i] = cmds[p][i + 1]
      /\ \A q \in Procs : q # p => cmds'[q] = cmds[q]
  BY TailType DEF RedisExec
<1>2. redis' = Effect(c) /\ Answer(p, c, TRUE)
  BY DEF RedisExec
<1> HIDE DEF c
<1>3. CASE c.op = "incr"
  <2> DEFINE a == [cmd |-> c, ok |-> TRUE, failures |-> Effect(c).failures, ttl |-> redis.ttl]
  <2>1. replies' = [replies EXCEPT ![p] = Append(@, a)] /\ redis'.ttl = redis.ttl
    BY <1>2, <1>3 DEF Answer, Effect, Redis
  <2>2. a.cmd.op = "incr" /\ a.ok /\ (UseWindow /\ ~redis.ttl => Expiry(a) # <<>>)
    BY <1>3 DEF Expiry
  <2> HIDE DEF a
  <2>3. /\ Len(replies[p]) + 1 \in 1..Len(replies'[p]) /\ replies'[p][Len(replies[p]) + 1] = a
    <3>1. /\ Len(replies[p]) \in Nat /\ Len(Append(replies[p], a)) = Len(replies[p]) + 1
          /\ Append(replies[p], a)[Len(replies[p]) + 1] = a
      OBVIOUS
    <3> QED
      BY <2>1, <3>1
  <2>4. UseWindow /\ ~redis'.ttl => GetsExpiry(p)'
    BY <2>1, <2>2, <2>3 DEF GetsExpiry, Expiry
  <2> QED
    BY <2>4, ExpiryWith DEF CounterWillExpire, GetsExpiry
<1>4. CASE c.op = "expire"
  <2>1. redis'.failures = redis.failures /\ redis'.ttl = (redis.failures > 0)
    BY <1>2, <1>4 DEF Effect, Redis
  <2> QED
    BY <2>1 DEF CounterWillExpire
<1>5. CASE c.op = "close"
  <2>1. redis'.failures = 0
    BY <1>2, <1>5 DEF Effect
  <2> QED
    BY <2>1 DEF CounterWillExpire
<1>6. CASE c.op \in {"get", "open"}
  <2>1. redis'.failures = redis.failures /\ redis'.ttl = redis.ttl
    BY <1>2, <1>6 DEF Effect, Redis
  <2>2. ASSUME NEW q \in Procs, SendsExpiry(q) PROVE SendsExpiry(q)'
    <3>1. PICK i \in 1..Len(cmds[q]) : cmds[q][i].op = "expire"
      BY <2>2 DEF SendsExpiry
    <3>2. CASE q # p
      BY <1>1, <2>2, <3>2 DEF SendsExpiry
    <3>3. CASE q = p
      <4>1. i # 1
        BY <1>1, <1>6, <3>1, <3>3
      <4>2. i - 1 \in 1..Len(cmds'[p]) /\ cmds'[p][i - 1] = cmds[p][i]
        BY <1>1, <3>1, <3>3, <4>1
      <4> QED
        BY <3>1, <3>3, <4>2 DEF SendsExpiry
    <3> QED
      BY <3>2, <3>3
  <2>3. ASSUME NEW q \in Procs, GetsExpiry(q) PROVE GetsExpiry(q)'
    <3>1. \/ replies'[q] = replies[q]
          \/ \E a : replies'[q] = Append(replies[q], a)
      <4>1. CASE c.op = "get"
        <5> DEFINE a == [cmd |-> c, ok |-> TRUE, state |-> redis.state]
        <5>1. replies' = [replies EXCEPT ![p] = Append(@, a)]
          BY <1>2, <4>1 DEF Answer
        <5> HIDE DEF a
        <5> QED
          BY <5>1
      <4>2. CASE c.op = "open"
        BY <1>2, <4>2 DEF Answer
      <4> QED
        BY <1>6, <4>1, <4>2
    <3>2. /\ Len(replies[q]) \in Nat
          /\ \A a : /\ Len(Append(replies[q], a)) = Len(replies[q]) + 1
                    /\ \A i \in 1..Len(replies[q]) : Append(replies[q], a)[i] = replies[q][i]
      OBVIOUS
    <3>3. \A i \in 1..Len(replies[q]) :
             i \in 1..Len(replies'[q]) /\ replies'[q][i] = replies[q][i]
      <4>1. CASE replies'[q] = replies[q]
        BY <4>1
      <4>2. ASSUME NEW a, replies'[q] = Append(replies[q], a)
            PROVE  \A i \in 1..Len(replies[q]) :
                      i \in 1..Len(replies'[q]) /\ replies'[q][i] = replies[q][i]
        BY <3>2, <4>2
      <4> QED
        BY <3>1, <4>1, <4>2
    <3> QED
      BY <2>3, <3>3 DEF GetsExpiry, Expiry
  <2> QED
    BY <2>1, <2>2, <2>3, ExpiryWith DEF CounterWillExpire, SendsExpiry, GetsExpiry
<1> QED
  BY <1>1, <1>3, <1>4, <1>5, <1>6 DEF Command

LEMMA ExpiryStep ==
    ASSUME {"cmdError", "crash"} \cap Disruptions = {}
    PROVE  ExpiryInv /\ [Next]_vars => ExpiryInv'
<1> SUFFICES ASSUME ExpiryInv, [Next]_vars PROVE CounterWillExpire'
  BY TypeStep DEF ExpiryInv
<1> USE DEF ExpiryInv
<1>k. ASSUME redis' = redis,
             \A q \in Procs : SendsExpiry(q) \/ GetsExpiry(q) => SendsExpiry(q)' \/ GetsExpiry(q)'
      PROVE  CounterWillExpire'
  BY <1>k, ExpiryWith DEF CounterWillExpire, SendsExpiry, GetsExpiry
<1>0. CASE UNCHANGED <<redis, cmds, replies>>
  BY <1>0 DEF CounterWillExpire, Expiry
<1>1. ASSUME NEW p \in Procs, RedisExec(p) PROVE CounterWillExpire'
  BY <1>1, ExpiryExecuted
<1>2. ASSUME NEW p \in Procs, HandleReply(p) PROVE CounterWillExpire'
  <2>1. redis' = redis
    BY <1>2 DEF HandleReply, StateLoaded, StateNotLoaded, FailureCounted, FailureNotCounted
  <2> QED
    BY <1>k, <1>2, <2>1, ExpiryHandled
<1>3. ASSUME NEW p \in Procs, NEW cs \in Seq(Command), Send(p, cs), UNCHANGED <<redis, replies>>
      PROVE  CounterWillExpire'
  <2>1. \A q \in Procs : (SendsExpiry(q) => SendsExpiry(q)') /\ (GetsExpiry(q) => GetsExpiry(q)')
    BY <1>3, ExpirySent DEF TypeInv, GetsExpiry, Expiry
  <2> QED
    BY <1>k, <1>3, <2>1
<1>4. ASSUME NEW r \in Requests, FinishOk(r) \/ FinishError(r) \/ TimeoutCall(r)
      PROVE  CounterWillExpire'
  <2> DEFINE b == request[r].via
  <2>1. b \in Breakers /\ b[1] \in Procs
    BY <1>4 DEF FinishOk, FinishError, TimeoutCall, TypeInv, TypeOK, Request, Breakers
  <2>2. NotifyClose(b) \in Seq(Command) /\ <<Cmd("incr", b, r)>> \in Seq(Command)
    BY <2>1, NotifyType, CmdSeqType
  <2>3. Send(b[1], NotifyClose(b)) \/ Send(b[1], <<Cmd("incr", b, r)>>)
    BY <1>4 DEF FinishOk, FinishError, TimeoutCall
  <2>4. UNCHANGED <<redis, replies>>
    BY <1>4 DEF FinishOk, FinishError, TimeoutCall
  <2> HIDE DEF b
  <2> QED
    BY <1>3, <2>1, <2>2, <2>3, <2>4
<1>5. ASSUME NEW b \in Breakers, Install(b) PROVE CounterWillExpire'
  <2>1. /\ b[1] \in Procs /\ <<Cmd("get", b, None)>> \in Seq(Command)
        /\ Send(b[1], <<Cmd("get", b, None)>>) /\ UNCHANGED <<redis, replies>>
    BY <1>5, CmdSeqType DEF Install, Breakers
  <2> QED
    BY <1>3, <2>1
<1>6. CASE WindowExpires
  <2>1. redis'.failures = 0
    BY <1>6 DEF WindowExpires, TypeInv, TypeOK, Redis
  <2> QED
    BY <2>1 DEF CounterWillExpire
<1>7. ASSUME \/ \E p \in Procs : Deliver(p) \/ DropEvents(p) \/ StartReload(p) \/ ReloadFails(p)
                                 \/ Subscribe(p)
             \/ \E p \in Procs, r \in Requests : Admit(p, r)
             \/ \E r \in Requests : EndLate(r)
             \/ \E b \in Breakers : FireTimer(b)
             \/ UNCHANGED vars
      PROVE  CounterWillExpire'
  BY <1>0, <1>7 DEF Deliver, DropEvents, StartReload, ReloadFails, Subscribe, Admit, EndLate,
                    FireTimer, vars
<1> QED
  BY <1>1, <1>2, <1>4, <1>5, <1>6, <1>7 DEF Next, RedisError, Crash

\* As long as no Redis command fails and no worker exits, a failure counter
\* without expiry is about to get one (incrementFailures() in
\* redis-state-handler.ts): the commands of every process, in any order, never
\* leave one that counts for ever.
THEOREM CountersExpire ==
    ASSUME {"cmdError", "crash"} \cap Disruptions = {}
    PROVE  Spec => []CounterWillExpire
<1>1. Init => ExpiryInv
  BY TypeInit DEF Init, ExpiryInv, CounterWillExpire
<1>2. ExpiryInv /\ [Next]_vars => ExpiryInv'
  BY ExpiryStep
<1>3. ExpiryInv => CounterWillExpire
  BY DEF ExpiryInv
<1> QED
  BY <1>1, <1>2, <1>3, PTL DEF Spec

-----------------------------------------------------------------------------
(***************************************************************************)
(* A request counts one failure.  It is in one place at a time: among the  *)
(* commands of a process, or among the answers.                            *)
(***************************************************************************)

\* Where the failures of request r are: commands and answers of processes.
CountAt(p, k, i, r) ==
    \/ k = "uncounted" /\ i \in Uncounted(p, r)
    \/ k = "counted" /\ i \in Counted(p, r)

Kinds == {"uncounted", "counted"}

OneCount(r) ==
    \A p, q \in Procs : \A k, l \in Kinds : \A i, j \in Nat :
        CountAt(p, k, i, r) /\ CountAt(q, l, j, r) => p = q /\ k = l /\ i = j

NoCount(r) == \A q \in Procs : Uncounted(q, r) = {} /\ Counted(q, r) = {}

CountInv ==
    /\ TypeInv
    /\ \A r \in Requests : OneCount(r) /\ (request[r].stage = "running" => NoCount(r))

LEMMA CountsOnce == CountInv => OneFailurePerRequest
<1> SUFFICES ASSUME CountInv, NEW r \in Requests
             PROVE  LET counts == UNION {    {<<p, "uncounted", i>> : i \in Uncounted(p, r)}
                                        \cup {<<p, "counted", i>> : i \in Counted(p, r)} : p \in Procs}
                    IN Cardinality(counts) <= IF request[r].stage = "running" THEN 0 ELSE 1
  BY DEF OneFailurePerRequest
<1> DEFINE counts == UNION {    {<<p, "uncounted", i>> : i \in Uncounted(p, r)}
                           \cup {<<p, "counted", i>> : i \in Counted(p, r)} : p \in Procs}
<1>1. ASSUME NEW x \in counts
      PROVE  \E p \in Procs, k \in Kinds, i \in Nat : x = <<p, k, i>> /\ CountAt(p, k, i, r)
  <2>1. PICK p \in Procs : x \in {<<p, "uncounted", i>> : i \in Uncounted(p, r)}
                                    \cup {<<p, "counted", i>> : i \in Counted(p, r)}
    OBVIOUS
  <2>2. CASE \E i \in Uncounted(p, r) : x = <<p, "uncounted", i>>
    BY <2>2 DEF CountAt, Kinds, Uncounted
  <2>3. CASE \E i \in Counted(p, r) : x = <<p, "counted", i>>
    BY <2>3 DEF CountAt, Kinds, Counted
  <2> QED
    BY <2>1, <2>2, <2>3
<1> HIDE DEF counts
<1>2. ASSUME NEW x \in counts, NEW y \in counts PROVE x = y
  <2>1. PICK p \in Procs, k \in Kinds, i \in Nat : x = <<p, k, i>> /\ CountAt(p, k, i, r)
    BY <1>1
  <2>2. PICK q \in Procs, l \in Kinds, j \in Nat : y = <<q, l, j>> /\ CountAt(q, l, j, r)
    BY <1>1
  <2> QED
    BY <2>1, <2>2 DEF CountInv, OneCount
<1>3. CASE counts = {}
  <2>1. Cardinality(counts) = 0
    BY <1>3, FS_EmptySet
  <2> QED
    BY <2>1 DEF counts
<1>4. CASE counts # {}
  <2>1. PICK x : x \in counts
    BY <1>4
  <2>2. counts = {x}
    BY <1>2, <2>1
  <2>3. Cardinality(counts) = 1
    BY <2>2, FS_Singleton
  <2>4. request[r].stage # "running"
    <3>1. PICK p \in Procs, k \in Kinds, i \in Nat : CountAt(p, k, i, r)
      BY <1>1, <2>1
    <3> QED
      BY <3>1 DEF CountInv, NoCount, CountAt
  <2> QED
    BY <2>3, <2>4 DEF counts
<1> QED
  BY <1>3, <1>4

\* The failures of r stay where they are, or move up as others leave.
LEMMA CountsKept ==
    ASSUME TypeOK, NEW r,
           \A p \in Procs : \E d, e \in {0, 1} :
               /\ \A i \in Uncounted(p, r)' : i + d \in Uncounted(p, r)
               /\ \A i \in Counted(p, r)' : i + e \in Counted(p, r)
    PROVE  (OneCount(r) => OneCount(r)') /\ (NoCount(r) => NoCount(r)')
<1>1. ASSUME NEW p \in Procs, NEW k \in Kinds
      PROVE  \E d \in {0, 1} : \A i \in Nat : CountAt(p, k, i, r)' => CountAt(p, k, i + d, r)
  <2>1. PICK d \in {0, 1}, e \in {0, 1} :
               /\ \A i \in Uncounted(p, r)' : i + d \in Uncounted(p, r)
               /\ \A i \in Counted(p, r)' : i + e \in Counted(p, r)
    OBVIOUS
  <2>2. CASE k = "uncounted"
    BY <2>1, <2>2 DEF CountAt
  <2>3. CASE k = "counted"
    BY <2>1, <2>3 DEF CountAt
  <2> QED
    BY <2>2, <2>3 DEF Kinds
<1>2. ASSUME OneCount(r), NEW p \in Procs, NEW q \in Procs, NEW k \in Kinds, NEW l \in Kinds,
             NEW i \in Nat, NEW j \in Nat, CountAt(p, k, i, r)', CountAt(q, l, j, r)'
      PROVE  p = q /\ k = l /\ i = j
  <2>1. PICK d \in {0, 1} : \A n \in Nat : CountAt(p, k, n, r)' => CountAt(p, k, n + d, r)
    BY <1>1
  <2>2. PICK e \in {0, 1} : \A n \in Nat : CountAt(q, l, n, r)' => CountAt(q, l, n + e, r)
    BY <1>1
  <2>3. i + d \in Nat /\ j + e \in Nat /\ CountAt(p, k, i + d, r) /\ CountAt(q, l, j + e, r)
    BY <1>2, <2>1, <2>2
  <2>4. p = q /\ k = l
    BY <1>2, <2>3 DEF OneCount
  \* The same failure cannot come from two places either.
  <2>5. CountAt(p, k, j, r)' /\ CountAt(p, k, j + d, r) /\ j + d \in Nat
    BY <1>2, <2>1, <2>4
  <2>6. i + d = j + d
    BY <1>2, <2>3, <2>5 DEF OneCount
  <2> QED
    BY <2>4, <2>6
<1>3. OneCount(r) => OneCount(r)'
  <2> SUFFICES ASSUME OneCount(r) PROVE OneCount(r)'
    OBVIOUS
  <2> QED
    BY <1>2 DEF OneCount
<1>4. NoCount(r) => NoCount(r)'
  BY DEF NoCount
<1> QED
  BY <1>3, <1>4

\* The commands a process sends for no failure of r.
Without(r, cs) == \A i \in 1..Len(cs) : cs[i].op # "incr" \/ cs[i].req # r

LEMMA UncountedSent ==
    ASSUME TypeOK, NEW r, NEW p \in Procs, NEW cs \in Seq(Command), Send(p, cs)
    PROVE  \A q \in Procs : \A i \in Uncounted(q, r)' :
               \/ i \in Uncounted(q, r)
               \/ /\ q = p /\ i - Len(cmds[p]) \in 1..Len(cs)
                  /\ cs[i - Len(cmds[p])].op = "incr" /\ cs[i - Len(cmds[p])].req = r
<1> SUFFICES ASSUME NEW q \in Procs, NEW i \in Uncounted(q, r)', i \notin Uncounted(q, r)
             PROVE  /\ q = p /\ i - Len(cmds[p]) \in 1..Len(cs)
                    /\ cs[i - Len(cmds[p])].op = "incr" /\ cs[i - Len(cmds[p])].req = r
  OBVIOUS
<1>1. cmds'[p] = cmds[p] \o cs /\ \A o \in Procs : o # p => cmds'[o] = cmds[o]
  BY SendType DEF TypeOK
<1>2. q = p
  BY <1>1 DEF Uncounted
<1>3. /\ Len(cmds[p] \o cs) = Len(cmds[p]) + Len(cs)
      /\ Len(cmds[p]) \in Nat /\ Len(cs) \in Nat
      /\ \A n \in 1..Len(cmds[p]) : (cmds[p] \o cs)[n] = cmds[p][n]
      /\ \A n \in 1..Len(cmds[p] \o cs) : n > Len(cmds[p]) =>
            (cmds[p] \o cs)[n] = cs[n - Len(cmds[p])]
  BY ConcatType, LenProperties DEF TypeOK
<1>4. i \in 1..Len(cmds'[p]) /\ cmds'[p][i].op = "incr" /\ cmds'[p][i].req = r
  BY <1>2 DEF Uncounted
<1>5. i > Len(cmds[p])
  <2> SUFFICES ASSUME i <= Len(cmds[p]) PROVE FALSE
    BY <1>3, <1>4
  <2>1. i \in 1..Len(cmds[p]) /\ cmds'[p][i] = cmds[p][i]
    BY <1>1, <1>3, <1>4
  <2> QED
    BY <1>2, <1>4, <2>1 DEF Uncounted
<1>6. i - Len(cmds[p]) \in 1..Len(cs) /\ cmds'[p][i] = cs[i - Len(cmds[p])]
  BY <1>1, <1>3, <1>4, <1>5
<1> QED
  BY <1>2, <1>4, <1>6

LEMMA CountsSent ==
    ASSUME TypeOK, NEW r, NEW p \in Procs, NEW cs \in Seq(Command), Send(p, cs), Without(r, cs),
           \A q \in Procs : \E e \in {0, 1} : \A i \in Counted(q, r)' : i + e \in Counted(q, r)
    PROVE  (OneCount(r) => OneCount(r)') /\ (NoCount(r) => NoCount(r)')
<1>0. \A q \in Procs : \A i \in Uncounted(q, r)' :
         \/ i \in Uncounted(q, r)
         \/ /\ q = p /\ i - Len(cmds[p]) \in 1..Len(cs)
            /\ cs[i - Len(cmds[p])].op = "incr" /\ cs[i - Len(cmds[p])].req = r
  BY UncountedSent
<1>1. ASSUME NEW q \in Procs, NEW i \in Uncounted(q, r)' PROVE i \in Uncounted(q, r)
  <2>1. \/ i \in Uncounted(q, r)
        \/ /\ i - Len(cmds[p]) \in 1..Len(cs)
           /\ cs[i - Len(cmds[p])].op = "incr" /\ cs[i - Len(cmds[p])].req = r
    BY <1>0
  <2> QED
    BY <2>1 DEF Without
<1>2. \A q \in Procs : \A i \in Uncounted(q, r)' : i + 0 = i
  BY DEF Uncounted
<1>3. ASSUME NEW q \in Procs
      PROVE  \E d, e \in {0, 1} : /\ \A i \in Uncounted(q, r)' : i + d \in Uncounted(q, r)
                                  /\ \A i \in Counted(q, r)' : i + e \in Counted(q, r)
  <2>1. PICK e \in {0, 1} : \A i \in Counted(q, r)' : i + e \in Counted(q, r)
    OBVIOUS
  <2>2. \A i \in Uncounted(q, r)' : i + 0 \in Uncounted(q, r)
    BY <1>1, <1>2
  <2> QED
    BY <2>1, <2>2
<1> QED
  BY <1>3, CountsKept

\* A failure is counted once: when its request has no other.
LEMMA CountsAdded ==
    ASSUME TypeOK, NEW r \in Requests, NEW b \in Breakers, NoCount(r), replies' = replies,
           Send(b[1], <<Cmd("incr", b, r)>>)
    PROVE  OneCount(r)'
<1> DEFINE p == b[1]
           cs == <<Cmd("incr", b, r)>>
<1>1. p \in Procs /\ cs \in Seq(Command) /\ Len(cs) = 1
  BY CmdSeqType DEF Breakers
<1> HIDE DEF p, cs
<1>2. Send(p, cs)
  BY DEF p, cs
<1>3. ASSUME NEW q \in Procs PROVE Counted(q, r)' = {}
  BY DEF NoCount, Counted
<1>4. ASSUME NEW q \in Procs, NEW i \in Uncounted(q, r)' PROVE q = p /\ i = Len(cmds[p]) + 1
  <2>1. i \notin Uncounted(q, r)
    BY DEF NoCount
  <2>2. q = p /\ i - Len(cmds[p]) \in 1..Len(cs)
    BY <1>1, <1>2, <2>1, UncountedSent
  <2>3. Len(cmds[p]) \in Nat /\ i \in Nat
    BY <1>1, LenProperties DEF TypeOK, Uncounted
  <2> QED
    BY <1>1, <2>2, <2>3
<1> QED
  BY <1>3, <1>4 DEF OneCount, CountAt

\* Redis takes the first command of a process; only a count, or a state, is
\* answered.
LEMMA CountsAnswered ==
    ASSUME TypeOK, NEW r, NEW p \in Procs, NEW ok \in BOOLEAN, cmds[p] # <<>>,
           Answer(p, Head(cmds[p]), ok), cmds' = [cmds EXCEPT ![p] = Tail(@)]
    PROVE  (OneCount(r) => OneCount(r)') /\ (NoCount(r) => NoCount(r)')
<1> USE DEF TypeOK
<1> DEFINE c == Head(cmds[p])
<1>1. /\ c \in Command /\ c = cmds[p][1] /\ Len(cmds[p]) \in Nat /\ Len(cmds[p]) > 0
      /\ cmds'[p] = Tail(cmds[p]) /\ Len(Tail(cmds[p])) = Len(cmds[p]) - 1
      /\ \A i \in 1..Len(Tail(cmds[p])) : Tail(cmds[p])[i] = cmds[p][i + 1]
      /\ \A q \in Procs : q # p => cmds'[q] = cmds[q]
  BY TailType
<1>2. \/ c.op # "incr" /\ replies' = replies
      \/ \E a : a.cmd = c /\ replies' = [replies EXCEPT ![p] = Append(@, a)]
  BY <1>1 DEF Answer, Command
<1> HIDE DEF c
<1>3. \A i \in Uncounted(p, r)' : i + 1 \in Uncounted(p, r)
  BY <1>1 DEF Uncounted
<1>4. \A q \in Procs : q # p => Uncounted(q, r)' = Uncounted(q, r)
  BY <1>1 DEF Uncounted
<1>5. \A q \in Procs : \A i \in Uncounted(q, r) : i + 0 = i
  BY DEF Uncounted
<1>6. \A q \in Procs : \A i \in Counted(q, r) : i + 0 = i
  BY DEF Counted
<1>7. /\ Len(replies[p]) \in Nat
      /\ \A a : /\ Len(Append(replies[p], a)) = Len(replies[p]) + 1
                /\ Append(replies[p], a)[Len(replies[p]) + 1] = a
                /\ \A i \in 1..Len(replies[p]) : Append(replies[p], a)[i] = replies[p][i]
  OBVIOUS
<1>8. ASSUME NEW q \in Procs, NEW i \in Counted(q, r)'
      PROVE  \/ i \in Counted(q, r)
             \/ q = p /\ i = Len(replies[p]) + 1 /\ c.op = "incr" /\ c.req = r
  <2>1. CASE replies'[q] = replies[q]
    BY <1>8, <2>1 DEF Counted
  <2>2. CASE replies'[q] # replies[q]
    <3>1. PICK a : a.cmd = c /\ q = p /\ replies'[p] = Append(replies[p], a)
      BY <1>2, <2>2
    <3>2. i \in 1..Len(Append(replies[p], a)) /\ Append(replies[p], a)[i].cmd.op = "incr"
          /\ Append(replies[p], a)[i].cmd.req = r
      BY <1>8, <3>1 DEF Counted
    <3>3. i \in 1..Len(replies[p]) \/ i = Len(replies[p]) + 1
      BY <1>7, <3>2
    <3> QED
      BY <1>7, <3>1, <3>2, <3>3 DEF Counted
  <2> QED
    BY <2>1, <2>2
<1>9. CASE c.op # "incr" \/ c.req # r
  <2>1. ASSUME NEW q \in Procs
        PROVE  \E d, e \in {0, 1} : /\ \A i \in Uncounted(q, r)' : i + d \in Uncounted(q, r)
                                    /\ \A i \in Counted(q, r)' : i + e \in Counted(q, r)
    <3>1. \A i \in Counted(q, r)' : i + 0 \in Counted(q, r)
      BY <1>6, <1>8, <1>9
    <3>2. CASE q = p
      BY <1>3, <3>1, <3>2
    <3>3. CASE q # p
      <4>1. \A i \in Uncounted(q, r)' : i + 0 \in Uncounted(q, r)
        BY <1>4, <1>5, <3>3
      <4> QED
        BY <3>1, <4>1
    <3> QED
      BY <3>2, <3>3
  <2> QED
    BY <2>1, CountsKept
\* The failure that Redis counts was the only one, and still is.
<1>10. CASE c.op = "incr" /\ c.req = r
  <2>1. 1 \in Uncounted(p, r)
    BY <1>1, <1>10 DEF Uncounted
  <2>2. ~NoCount(r)
    BY <2>1 DEF NoCount
  <2>3. ASSUME OneCount(r), NEW q \in Procs
        PROVE  /\ \A i \in Uncounted(q, r) : q = p /\ i = 1
               /\ Counted(q, r) = {}
    <3>1. CountAt(p, "uncounted", 1, r)
      BY <2>1 DEF CountAt
    <3>2. ASSUME NEW i \in Uncounted(q, r) PROVE q = p /\ i = 1
      <4>1. i \in Nat /\ CountAt(q, "uncounted", i, r)
        BY DEF CountAt, Uncounted
      <4> QED
        BY <2>3, <3>1, <4>1 DEF OneCount, Kinds
    <3>3. ASSUME NEW i \in Counted(q, r) PROVE FALSE
      <4>1. i \in Nat /\ CountAt(q, "counted", i, r)
        BY DEF CountAt, Counted
      <4> QED
        BY <2>3, <3>1, <4>1 DEF OneCount, Kinds
    <3> QED
      BY <3>2, <3>3
  <2>4. ASSUME OneCount(r), NEW q \in Procs
        PROVE  /\ Uncounted(q, r)' = {}
               /\ \A i \in Counted(q, r)' : q = p /\ i = Len(replies[p]) + 1
    <3>1. ASSUME NEW i \in Uncounted(q, r)' PROVE FALSE
      <4>1. CASE q = p
        <5>1. i + 1 \in Uncounted(p, r) /\ i \in Nat /\ i > 0
          BY <1>3, <3>1, <4>1 DEF Uncounted
        <5>2. i + 1 = 1
          BY <2>3, <2>4, <5>1
        <5> QED
          BY <5>1, <5>2
      <4>2. CASE q # p
        BY <1>4, <2>3, <2>4, <3>1, <4>2
      <4> QED
        BY <4>1, <4>2
    <3> QED
      BY <1>8, <2>3, <2>4, <3>1
  <2>5. OneCount(r) => OneCount(r)'
    <3> SUFFICES ASSUME OneCount(r) PROVE OneCount(r)'
      OBVIOUS
    <3> QED
      BY <2>4 DEF OneCount, CountAt
  <2> QED
    BY <2>2, <2>5
<1> QED
  BY <1>9, <1>10

\* An answer that is handled leaves, and no other failure of r is sent.
LEMMA CountsHandled ==
    ASSUME TypeInv, NEW r, NEW p \in Procs, HandleReply(p)
    PROVE  (OneCount(r) => OneCount(r)') /\ (NoCount(r) => NoCount(r)')
<1> USE DEF TypeInv, TypeOK
<1> DEFINE a == Head(replies[p])
           b == a.cmd.brk
<1>1. replies[p] # <<>> /\ NextReply(p)
  BY DEF HandleReply, StateLoaded, StateNotLoaded, FailureCounted, FailureNotCounted
<1>2. a \in Reply /\ a.cmd \in Command /\ b \in Breakers
  BY <1>1, TailType DEF Reply, Command
<1>3. ASSUME NEW q \in Procs
      PROVE  \E e \in {0, 1} : \A i \in Counted(q, r)' : i + e \in Counted(q, r)
  <2>1. /\ Len(replies[p]) \in Nat
        /\ replies'[p] = Tail(replies[p]) /\ Len(Tail(replies[p])) = Len(replies[p]) - 1
        /\ \A i \in 1..Len(Tail(replies[p])) : Tail(replies[p])[i] = replies[p][i + 1]
        /\ \A o \in Procs : o # p => replies'[o] = replies[o]
    BY <1>1, TailType DEF NextReply
  <2>2. CASE q = p
    <3>1. ASSUME NEW i \in Counted(q, r)' PROVE i + 1 \in Counted(q, r)
      <4>1. i \in 1..Len(replies'[p]) /\ replies'[p][i].cmd.op = "incr" /\ replies'[p][i].cmd.req = r
        BY <2>2, <3>1 DEF Counted
      <4>2. i + 1 \in 1..Len(replies[p]) /\ replies[p][i + 1] = replies'[p][i]
        BY <2>1, <4>1
      <4> QED
        BY <2>2, <4>1, <4>2 DEF Counted
    <3> QED
      BY <3>1
  <2>3. CASE q # p
    <3>1. \A i \in Counted(q, r)' : i + 0 \in Counted(q, r)
      BY <2>1, <2>3 DEF Counted
    <3> QED
      BY <3>1
  <2> QED
    BY <2>2, <2>3
<1> HIDE DEF a
<1>4. \/ cmds' = cmds
      \/ Send(p, NotifyClose(b))
      \/ Send(p, Expiry(a)) \/ Send(p, Expiry(a) \o NotifyOpen(b))
  BY DEF HandleReply, StateLoaded, StateNotLoaded, FailureCounted, FailureNotCounted, a
<1>5. CASE cmds' = cmds
  <2>1. ASSUME NEW q \in Procs
        PROVE  \E d, e \in {0, 1} : /\ \A i \in Uncounted(q, r)' : i + d \in Uncounted(q, r)
                                    /\ \A i \in Counted(q, r)' : i + e \in Counted(q, r)
    <3>1. \A i \in Uncounted(q, r)' : i + 0 \in Uncounted(q, r)
      BY <1>5 DEF Uncounted
    <3> QED
      BY <1>3, <3>1
  <2> QED
    BY <2>1, CountsKept
<1>6. ASSUME NEW op \in {"get", "expire", "open", "close"}
      PROVE  <<Cmd(op, b, None)>> \in Seq(Command) /\ Without(r, <<Cmd(op, b, None)>>)
  BY <1>2, CmdSeqType DEF Without, Cmd
<1>7. <<>> \in Seq(Command) /\ Without(r, <<>>)
  BY DEF Without
<1>8. /\ NotifyClose(b) \in Seq(Command) /\ Without(r, NotifyClose(b))
      /\ NotifyOpen(b) \in Seq(Command) /\ Without(r, NotifyOpen(b))
      /\ Expiry(a) \in Seq(Command) /\ Without(r, Expiry(a))
  BY <1>6, <1>7 DEF NotifyClose, NotifyOpen, Expiry
<1>9. Expiry(a) \o NotifyOpen(b) \in Seq(Command) /\ Without(r, Expiry(a) \o NotifyOpen(b))
  <2> DEFINE x == Expiry(a)
             n == NotifyOpen(b)
  <2>1. x \in Seq(Command) /\ n \in Seq(Command) /\ Without(r, x) /\ Without(r, n)
    BY <1>8
  <2> HIDE DEF x, n
  <2>2. /\ x \o n \in Seq(Command) /\ Len(x \o n) = Len(x) + Len(n)
        /\ Len(x) \in Nat /\ Len(n) \in Nat
        /\ \A i \in 1..Len(x) : (x \o n)[i] = x[i]
        /\ \A i \in 1..Len(x \o n) : i > Len(x) => (x \o n)[i] = n[i - Len(x)]
    BY <2>1, ConcatType, LenProperties
  <2>3. \A i \in 1..Len(x \o n) : i > Len(x) => i - Len(x) \in 1..Len(n)
    BY <2>2
  <2>4. Without(r, x \o n)
    BY <2>1, <2>2, <2>3 DEF Without
  <2> QED
    BY <2>2, <2>4 DEF x, n
<1> QED
  BY <1>3, <1>4, <1>5, <1>8, <1>9, CountsSent

LEMMA CountStep == CountInv /\ [Next]_vars => CountInv'
<1> SUFFICES ASSUME CountInv, [Next]_vars, NEW r \in Requests
             PROVE  OneCount(r)' /\ (request'[r].stage = "running" => NoCount(r)')
  BY TypeStep DEF CountInv
<1> USE DEF CountInv, TypeInv, TypeOK
<1>0. OneCount(r) /\ (request[r].stage = "running" => NoCount(r))
  OBVIOUS
<1>k. ASSUME (OneCount(r) => OneCount(r)') /\ (NoCount(r) => NoCount(r)'),
             request'[r].stage = "running" => request[r].stage = "running"
      PROVE  OneCount(r)' /\ (request'[r].stage = "running" => NoCount(r)')
  BY <1>0, <1>k
<1>s. ASSUME UNCHANGED <<cmds, replies>>
      PROVE  (OneCount(r) => OneCount(r)') /\ (NoCount(r) => NoCount(r)')
  BY <1>s DEF OneCount, NoCount, CountAt, Uncounted, Counted
<1>1. ASSUME NEW p \in Procs, RedisExec(p) \/ RedisError(p)
      PROVE  OneCount(r)' /\ (request'[r].stage = "running" => NoCount(r)')
  <2>1. /\ cmds[p] # <<>> /\ cmds' = [cmds EXCEPT ![p] = Tail(@)] /\ request' = request
        /\ Answer(p, Head(cmds[p]), TRUE) \/ Answer(p, Head(cmds[p]), FALSE)
    BY <1>1 DEF RedisExec, RedisError
  <2> QED
    BY <1>k, <2>1, CountsAnswered
<1>2. ASSUME NEW p \in Procs, HandleReply(p)
      PROVE  OneCount(r)' /\ (request'[r].stage = "running" => NoCount(r)')
  <2>1. request' = request
    BY <1>2 DEF HandleReply, StateLoaded, StateNotLoaded, FailureCounted, FailureNotCounted
  <2> QED
    BY <1>k, <1>2, <2>1, CountsHandled
<1>3. ASSUME NEW p \in Procs, NEW cs \in Seq(Command), Send(p, cs), Without(r, cs), replies' = replies
      PROVE  (OneCount(r) => OneCount(r)') /\ (NoCount(r) => NoCount(r)')
  <2>1. \A q \in Procs : \A i \in Counted(q, r)' : i + 0 \in Counted(q, r)
    BY <1>3 DEF Counted
  <2> QED
    BY <1>3, <2>1, CountsSent
<1>4. ASSUME NEW p \in Procs, NEW s \in Requests, Admit(p, s)
      PROVE  OneCount(r)' /\ (request'[r].stage = "running" => NoCount(r)')
  <2>1. UNCHANGED <<cmds, replies>>
    BY <1>4 DEF Admit
  <2>2. CASE r = s
    <3>1. NoCount(r)
      BY <1>4, <2>2 DEF Admit, NoCount
    <3> QED
      BY <1>0, <1>s, <2>1, <3>1
  <2>3. CASE r # s
    BY <1>4, <1>k, <1>s, <2>1, <2>3 DEF Admit
  <2> QED
    BY <2>2, <2>3
<1>5. ASSUME NEW s \in Requests, FinishOk(s)
      PROVE  OneCount(r)' /\ (request'[r].stage = "running" => NoCount(r)')
  <2> DEFINE b == request[s].via
  <2>1. b \in Breakers /\ b[1] \in Procs
    BY <1>5 DEF FinishOk, Request, Breakers
  <2>2. NotifyClose(b) \in Seq(Command) /\ Without(r, NotifyClose(b))
    BY <2>1, NotifyType DEF Without, NotifyClose, Cmd
  <2>3. Send(b[1], NotifyClose(b)) /\ replies' = replies
    BY <1>5 DEF FinishOk
  <2>4. request'[r].stage = "running" => request[r].stage = "running"
    BY <1>5 DEF FinishOk, Leave
  <2> HIDE DEF b
  <2> QED
    BY <1>3, <1>k, <2>1, <2>2, <2>3, <2>4
<1>6. ASSUME NEW s \in Requests, FinishError(s) \/ TimeoutCall(s)
      PROVE  OneCount(r)' /\ (request'[r].stage = "running" => NoCount(r)')
  <2> DEFINE b == request[s].via
             cs == <<Cmd("incr", b, s)>>
  <2>1. b \in Breakers /\ b[1] \in Procs
    BY <1>6 DEF FinishError, TimeoutCall, Request, Breakers
  <2>2. cs \in Seq(Command) /\ Send(b[1], cs) /\ replies' = replies
    BY <1>6, <2>1, CmdSeqType DEF FinishError, TimeoutCall
  <2>3. /\ request[s].stage = "running" /\ request'[s].stage # "running"
        /\ r # s => request'[r] = request[r]
    BY <1>6 DEF FinishError, TimeoutCall, Leave, Request
  <2>4. CASE r = s
    <3>1. NoCount(s)
      BY <2>3
    <3> QED
      BY <2>1, <2>2, <2>3, <2>4, <3>1, CountsAdded
  <2>5. CASE r # s
    <3>1. Without(r, cs)
      BY <2>5 DEF Without, Cmd
    <3> HIDE DEF cs, b
    <3> QED
      BY <1>3, <1>k, <2>1, <2>2, <2>3, <2>5, <3>1
  <2> QED
    BY <2>4, <2>5
<1>7. ASSUME NEW b \in Breakers, Install(b)
      PROVE  OneCount(r)' /\ (request'[r].stage = "running" => NoCount(r)')
  <2>1. /\ b[1] \in Procs /\ <<Cmd("get", b, None)>> \in Seq(Command)
        /\ Send(b[1], <<Cmd("get", b, None)>>) /\ replies' = replies /\ request' = request
    BY <1>7, CmdSeqType DEF Install, Breakers
  <2>2. Without(r, <<Cmd("get", b, None)>>)
    BY DEF Without, Cmd
  <2> QED
    BY <1>3, <1>k, <2>1, <2>2
<1>8. ASSUME NEW p \in Procs, Crash(p)
      PROVE  OneCount(r)' /\ (request'[r].stage = "running" => NoCount(r)')
  <2>1. request'[r].stage = "running" => request[r].stage = "running"
    BY <1>8 DEF Crash
  <2>2. ASSUME NEW q \in Procs
        PROVE  /\ \A i \in Uncounted(q, r)' : i + 0 \in Uncounted(q, r)
               /\ \A i \in Counted(q, r)' : i + 0 \in Counted(q, r)
    BY <1>8 DEF Crash, Uncounted, Counted
  <2> QED
    BY <1>k, <2>1, <2>2, CountsKept
<1>9. ASSUME NEW s \in Requests, EndLate(s)
      PROVE  OneCount(r)' /\ (request'[r].stage = "running" => NoCount(r)')
  <2>1. UNCHANGED <<cmds, replies>> /\ (request'[r].stage = "running" => request[r].stage = "running")
    BY <1>9 DEF EndLate, Leave
  <2> QED
    BY <1>k, <1>s, <2>1
<1>10. ASSUME \/ \E p \in Procs : Deliver(p) \/ DropEvents(p) \/ StartReload(p) \/ ReloadFails(p)
                                  \/ Subscribe(p)
              \/ \E b \in Breakers : FireTimer(b)
              \/ WindowExpires
              \/ UNCHANGED vars
       PROVE  OneCount(r)' /\ (request'[r].stage = "running" => NoCount(r)')
  <2>1. UNCHANGED <<cmds, replies, request>>
    BY <1>10 DEF Deliver, DropEvents, StartReload, ReloadFails, Subscribe, FireTimer,
                 WindowExpires, vars
  <2> QED
    BY <1>k, <1>s, <2>1
<1> QED
  BY <1>1, <1>2, <1>4, <1>5, <1>6, <1>7, <1>8, <1>9, <1>10 DEF Next

\* Whatever fails, crashes or is reloaded, one request counts at most one
\* failure, and none while it runs: the timeout and the answer that comes after
\* it never both count (invokeApi() in express-circuit-breaker.ts).
THEOREM RequestsCountOnce == Spec => []OneFailurePerRequest
<1>1. Init => CountInv
  <2> SUFFICES ASSUME Init PROVE CountInv
    OBVIOUS
  <2>1. ASSUME NEW r \in Requests PROVE NoCount(r)
    BY DEF Init, NoCount, Uncounted, Counted
  <2> QED
    BY <2>1, TypeInit DEF CountInv, OneCount, NoCount, CountAt
<1>2. CountInv /\ [Next]_vars => CountInv'
  BY CountStep
<1>3. CountInv => OneFailurePerRequest
  BY CountsOnce
<1> QED
  BY <1>1, <1>2, <1>3, PTL DEF Spec
=============================================================================
