--------------------------- MODULE CircuitBreaker ---------------------------
(***************************************************************************)
(* The circuit breaker of one API, shared by a cluster of gateway          *)
(* processes.  Every process keeps its own circuit (RedisStateHandler) in  *)
(* memory, counts failures in one Redis key, and publishes the circuit's   *)
(* openings and closings on the CIRCUIT_CHANGED channel.                   *)
(*                                                                         *)
(* A process talks to Redis over two connections: commands are pipelined   *)
(* on one (cmds, answered on replies), events arrive on the other (chan).  *)
(* Each connection is first-in first-out; nothing orders one against the   *)
(* other.                                                                  *)
(***************************************************************************)
EXTENDS Integers, Sequences, FiniteSets

CONSTANTS
    Procs,          \* gateway processes (cluster workers, or hosts)
    Gens,           \* breaker objects a process may have alive at once
    Requests,       \* requests to the API that may be in flight at once
    None,           \* no breaker, no request
    MaxFailures,    \* options.maxFailures
    UseWindow,      \* whether timeWindow is configured
    Disruptions,    \* what happens besides requests (see DisruptionKinds)
    MaxTimers,      \* bound on the pending timers of one breaker
    MaxQueue,       \* bound on the unexecuted commands, and on the
                    \* undelivered events, of one process
    MaxReloads      \* bound on the reloads of one process under way at once

DisruptionKinds == {"reload", "reloadError", "cmdError", "eventLoss", "crash"}

Breakers == Procs \X (1..Gens)

ASSUME ConstantsAssumption ==
    /\ Gens \in Nat \ {0}
    /\ MaxFailures \in Nat \ {0}
    /\ UseWindow \in BOOLEAN
    /\ Disruptions \subseteq DisruptionKinds
    /\ MaxTimers \in Nat \ {0}
    /\ MaxQueue \in Nat \ {0}
    /\ MaxReloads \in Nat \ {0}
    /\ None \notin Breakers \cup Requests

VARIABLES
    cb,         \* [Breakers -> Breaker]: the circuit each breaker object keeps
    active,     \* the breaker of each process that events are applied to
    route,      \* the breaker of each process that requests go through
    reloads,    \* loadApis() calls under way in each process
    subscribed, \* whether the process has subscribed to the events
    request,    \* what each request is doing, and through which breaker
    cmds,       \* commands each process sent that Redis has not executed
    replies,    \* answers of Redis each process has not handled
    chan,       \* CIRCUIT_CHANGED events each process has not handled
    redis       \* the keys {circuitbreaker}:state and {circuitbreaker}:failures

vars == <<cb, active, route, reloads, subscribed, request, cmds, replies, chan, redis>>

\* INCR's result only matters up to the next failure after maxFailures.
FailureCap == MaxFailures + 1

Breaker == [circuit : {"undefined", "closed", "open", "halfOpen"},
            probing : BOOLEAN,          \* halfOpenCallPending
            timers  : 0..MaxTimers,     \* openState() timers not fired or cleared
            handle  : BOOLEAN]          \* timerHalfOpen is not null

Request ==      [stage : {"idle"}, via : {None}]
           \cup [stage : {"running", "late"}, via : Breakers]

Command == [op : {"get", "incr", "expire", "open", "close"},
            brk : Breakers, req : Requests \cup {None}]

Redis == [state : {"open", "close"}, failures : 0..FailureCap, ttl : BOOLEAN]

\* GET returns the state; INCR with TTL, the count and whether it expires.
Reply ==      [cmd : Command, ok : BOOLEAN, state : {"open", "close"}]
         \cup [cmd : Command, ok : BOOLEAN, failures : 0..FailureCap, ttl : BOOLEAN]

TypeOK ==
    /\ cb \in [Breakers -> Breaker]
    /\ active \in [Procs -> Breakers \cup {None}]
    /\ route \in [Procs -> Breakers \cup {None}]
    /\ reloads \in [Procs -> 0..MaxReloads]
    /\ subscribed \in [Procs -> BOOLEAN]
    /\ request \in [Requests -> Request]
    /\ cmds \in [Procs -> Seq(Command)]
    /\ replies \in [Procs -> Seq(Reply)]
    /\ chan \in [Procs -> Seq({"open", "close"})]
    /\ redis \in Redis

-----------------------------------------------------------------------------
(* The state handler: what its methods do to one breaker.                  *)

Fresh == [circuit |-> "undefined", probing |-> FALSE, timers |-> 0, handle |-> FALSE]

\* The timer of an earlier opening is not cleared: its handle is overwritten.
OpenState(k) ==
    IF k.circuit = "open" THEN k
    ELSE [k EXCEPT !.circuit = "open", !.timers = @ + 1, !.handle = TRUE]

CloseState(k) ==
    IF k.circuit = "closed" THEN k
    ELSE [k EXCEPT !.circuit = "closed", !.probing = FALSE]

\* Mutant: the pending probe of an earlier half-open state is not forgotten.
ForceHalfOpenProbing(k) ==
    IF k.circuit = "halfOpen" THEN k ELSE [k EXCEPT !.circuit = "halfOpen"]

ForceHalfOpen(k) ==
    IF k.circuit = "halfOpen" THEN k
    ELSE [k EXCEPT !.circuit = "halfOpen", !.probing = FALSE]

\* Mutant: the callback keeps the handle of the timer that fired.
FiredKeepingHandle(k) == [ForceHalfOpen(k) EXCEPT !.timers = @ - 1]

\* The callback of a reset timer.
Fired(k) == [ForceHalfOpen(k) EXCEPT !.timers = @ - 1, !.handle = FALSE]

\* destroy() clears the newest timer only.
Destroy(k) ==
    IF k.handle THEN [k EXCEPT !.timers = @ - 1, !.handle = FALSE] ELSE k

\* Opening arms a timer, so the bound MaxTimers is a guard of it.
MayOpen(k) == k.circuit = "open" \/ k.timers < MaxTimers

Cmd(op, b, r) == [op |-> op, brk |-> b, req |-> r]

Publishes(op) == op \in {"open", "close"}

\* forceOpen() and forceClose() publish only a change of the local circuit.
NotifyOpen(b)  == IF cb[b].circuit = "open" THEN <<>> ELSE <<Cmd("open", b, None)>>

\* Mutant: only a half-open circuit tells the cluster that it closes.
NotifyCloseHalfOpen(b) ==
    IF cb[b].circuit = "halfOpen" THEN <<Cmd("close", b, None)>> ELSE <<>>

NotifyClose(b) == IF cb[b].circuit = "closed" THEN <<>> ELSE <<Cmd("close", b, None)>>

Send(p, cs) ==
    /\ Len(cmds[p]) + Len(cs) <= MaxQueue
    /\ cmds' = [cmds EXCEPT ![p] = @ \o cs]

\* The failures of request r that Redis has not counted, and those whose
\* count the process has not looked at.
Uncounted(p, r) ==
    {i \in 1..Len(cmds[p]) : cmds[p][i].op = "incr" /\ cmds[p][i].req = r}
Counted(p, r) ==
    {i \in 1..Len(replies[p]) : replies[p][i].cmd.op = "incr" /\ replies[p][i].cmd.req = r}

\* A failure of a call through breaker b whose count is still to come.
FailurePending(b) ==
    \/ \E i \in 1..Len(cmds[b[1]]) : cmds[b[1]][i].op = "incr" /\ cmds[b[1]][i].brk = b
    \/ \E i \in 1..Len(replies[b[1]]) :
         replies[b[1]][i].cmd.op = "incr" /\ replies[b[1]][i].cmd.brk = b

-----------------------------------------------------------------------------
(* Requests: CircuitBreaker.middleware() and invokeApi().                  *)

\* An open circuit, or a half-open one with a call pending, fails a request
\* fast: that changes nothing here, so it needs no action.
Rejects(k) == k.circuit = "open" \/ (k.circuit = "halfOpen" /\ k.probing)

\* A request is a slot: it is used again once nothing is left of its last use.
Admit(p, r) ==
    LET b == route[p] IN
    /\ subscribed[p] /\ b # None
    /\ request[r].stage = "idle"
    /\ \A q \in Procs : Uncounted(q, r) = {} /\ Counted(q, r) = {}
    /\ ~Rejects(cb[b])
    /\ cb' = [cb EXCEPT ![b].probing = @ \/ cb[b].circuit = "halfOpen"]
    /\ request' = [request EXCEPT ![r] = [stage |-> "running", via |-> b]]
    /\ UNCHANGED <<active, route, reloads, subscribed, cmds, replies, chan, redis>>

Leave(r) == request' = [request EXCEPT ![r] = [stage |-> "idle", via |-> None]]

\* res.end() with a status below 500: handleSuccess, forceClosed.
FinishOk(r) ==
    LET b == request[r].via IN
    /\ request[r].stage = "running"
    /\ Leave(r)
    /\ Send(b[1], NotifyClose(b))
    /\ cb' = [cb EXCEPT ![b] = CloseState(@)]
    /\ UNCHANGED <<active, route, reloads, subscribed, replies, chan, redis>>

\* res.end() with a status of 500 or above: handleFailure.
FinishError(r) ==
    LET b == request[r].via IN
    /\ request[r].stage = "running"
    /\ Leave(r)
    /\ cb' = [cb EXCEPT ![b].probing = FALSE]
    /\ Send(b[1], <<Cmd("incr", b, r)>>)
    /\ UNCHANGED <<active, route, reloads, subscribed, replies, chan, redis>>

\* The call's timer fires: handleTimeout counts a failure and answers 504.
TimeoutCall(r) ==
    LET b == request[r].via IN
    /\ request[r].stage = "running"
    /\ request' = [request EXCEPT ![r].stage = "late"]
    /\ Send(b[1], <<Cmd("incr", b, r)>>)
    /\ UNCHANGED <<cb, active, route, reloads, subscribed, replies, chan, redis>>

\* Mutant: the patched res.end() forgets operationTimeout.
EndLateCounted(r) ==
    LET b == request[r].via IN
    /\ request[r].stage = "late"
    /\ Leave(r)
    /\ Send(b[1], <<Cmd("incr", b, r)>>)
    /\ UNCHANGED <<cb, active, route, reloads, subscribed, replies, chan, redis>>

\* res.end() after the timeout, called by the error handler the timeout
\* calls: operationTimeout keeps it from counting.
EndLate(r) ==
    /\ request[r].stage = "late"
    /\ Leave(r)
    /\ UNCHANGED <<cb, active, route, reloads, subscribed, cmds, replies, chan, redis>>

-----------------------------------------------------------------------------
(* Redis: one command of one connection at a time, a MULTI as one.         *)

Effect(c) ==
    CASE c.op = "get"    -> redis
      [] c.op = "incr"   -> [redis EXCEPT !.failures = IF @ < FailureCap THEN @ + 1 ELSE @]
      [] c.op = "expire" -> [redis EXCEPT !.ttl = redis.failures > 0]
      [] c.op = "open"   -> [redis EXCEPT !.state = "open"]
      [] c.op = "close"  -> [state |-> "close", failures |-> 0, ttl |-> FALSE]

Answer(p, c, ok) ==
    LET Return(a) == replies' = [replies EXCEPT ![p] = Append(@, a)] IN
    CASE c.op = "get"  -> Return([cmd |-> c, ok |-> ok, state |-> redis.state])
      [] c.op = "incr" -> Return([cmd |-> c, ok |-> ok, failures |-> Effect(c).failures,
                                   ttl |-> redis.ttl])
      [] OTHER         -> UNCHANGED replies

Publish(e) ==
    /\ \A q \in Procs : subscribed[q] => Len(chan[q]) < MaxQueue
    /\ chan' = [q \in Procs |-> IF subscribed[q] THEN Append(chan[q], e) ELSE chan[q]]

RedisExec(p) ==
    /\ cmds[p] # <<>>
    /\ LET c == Head(cmds[p]) IN
        /\ redis' = Effect(c)
        /\ Answer(p, c, TRUE)
        /\ IF Publishes(c.op) THEN Publish(c.op) ELSE UNCHANGED chan
    /\ cmds' = [cmds EXCEPT ![p] = Tail(@)]
    /\ UNCHANGED <<cb, active, route, reloads, subscribed, request>>

\* The command is lost or refused; nobody awaits a lost expire or publication.
RedisError(p) ==
    /\ "cmdError" \in Disruptions
    /\ cmds[p] # <<>>
    /\ Answer(p, Head(cmds[p]), FALSE)
    /\ cmds' = [cmds EXCEPT ![p] = Tail(@)]
    /\ UNCHANGED <<cb, active, route, reloads, subscribed, request, chan, redis>>

\* The failures key expires at the end of the time window.
WindowExpires ==
    /\ redis.ttl
    /\ redis' = [redis EXCEPT !.failures = 0, !.ttl = FALSE]
    /\ UNCHANGED <<cb, active, route, reloads, subscribed, request, cmds, replies, chan>>

-----------------------------------------------------------------------------
(* Answers, events and timers.                                             *)

NextReply(p) == replies' = [replies EXCEPT ![p] = Tail(@)]

\* initialState(): the circuit takes the state Redis keeps.
StateLoaded(p) ==
    /\ replies[p] # <<>>
    /\ LET a == Head(replies[p])  b == a.cmd.brk IN
        /\ a.cmd.op = "get" /\ a.ok
        /\ IF a.state = "open"
           THEN MayOpen(cb[b]) /\ cb' = [cb EXCEPT ![b] = OpenState(@)]
           ELSE cb' = [cb EXCEPT ![b] = CloseState(@)]
    /\ NextReply(p)
    /\ UNCHANGED <<active, route, reloads, subscribed, request, cmds, chan, redis>>

\* initialState()'s catch closes the circuit, of the whole cluster.
StateNotLoaded(p) ==
    /\ replies[p] # <<>>
    /\ LET a == Head(replies[p])  b == a.cmd.brk IN
        /\ a.cmd.op = "get" /\ ~a.ok
        /\ Send(p, NotifyClose(b))
        /\ cb' = [cb EXCEPT ![b] = CloseState(@)]
    /\ NextReply(p)
    /\ UNCHANGED <<active, route, reloads, subscribed, request, chan, redis>>

\* Mutant: the expiry is tested with the count before INCR.
ExpiryOfZero(a) ==
    IF UseWindow /\ a.failures = 0 THEN <<Cmd("expire", a.cmd.brk, None)>> ELSE <<>>

\* incrementFailures() sets the expiry of a new counter, or of one without.
Expiry(a) ==
    IF UseWindow /\ (a.failures = 1 \/ ~a.ttl)
    THEN <<Cmd("expire", a.cmd.brk, None)>> ELSE <<>>

\* handleFailure(): the count of the cluster, the circuit of this process.
Trips(a) == cb[a.cmd.brk].circuit = "halfOpen" \/ a.failures >= MaxFailures

FailureCounted(p) ==
    /\ replies[p] # <<>>
    /\ LET a == Head(replies[p])  b == a.cmd.brk IN
        /\ a.cmd.op = "incr" /\ a.ok
        /\ IF Trips(a)
           THEN /\ MayOpen(cb[b])
                /\ cb' = [cb EXCEPT ![b] = OpenState(@)]
                /\ Send(p, Expiry(a) \o NotifyOpen(b))
           ELSE Send(p, Expiry(a)) /\ UNCHANGED cb
    /\ NextReply(p)
    /\ UNCHANGED <<active, route, reloads, subscribed, request, chan, redis>>

\* The promise of incrementFailures() rejects: nothing handles it.
FailureNotCounted(p) ==
    /\ replies[p] # <<>>
    /\ Head(replies[p]).cmd.op = "incr" /\ ~Head(replies[p]).ok
    /\ NextReply(p)
    /\ UNCHANGED <<cb, active, route, reloads, subscribed, request, cmds, chan, redis>>

HandleReply(p) ==
    StateLoaded(p) \/ StateNotLoaded(p) \/ FailureCounted(p) \/ FailureNotCounted(p)

\* CIRCUIT_CHANGED: onStateChanged() of the active breaker, if there is one.
Deliver(p) ==
    /\ chan[p] # <<>>
    /\ LET b == active[p] IN
        IF b = None THEN UNCHANGED cb
        ELSE IF Head(chan[p]) = "open"
        THEN MayOpen(cb[b]) /\ cb' = [cb EXCEPT ![b] = OpenState(@)]
        ELSE cb' = [cb EXCEPT ![b] = CloseState(@)]
    /\ chan' = [chan EXCEPT ![p] = Tail(@)]
    /\ UNCHANGED <<active, route, reloads, subscribed, request, cmds, replies, redis>>

\* The oldest reset timer of b fires, whatever became of the circuit since.
FireTimer(b) ==
    /\ cb[b].timers > 0
    /\ cb' = [cb EXCEPT ![b] = Fired(@)]
    /\ UNCHANGED <<active, route, reloads, subscribed, request, cmds, replies, chan, redis>>

-----------------------------------------------------------------------------
(* Reloads, crashes and the subscription.                                  *)

\* Mutant: removeAllBreakers() without activeBreakers.clear().
StartReloadKeepingActive(p) ==
    /\ "reload" \in Disruptions
    /\ subscribed[p] /\ reloads[p] < MaxReloads
    /\ reloads' = [reloads EXCEPT ![p] = @ + 1]
    /\ cb' = [cb EXCEPT ![active[p]] = Destroy(@)]
    /\ UNCHANGED <<active, route, subscribed, request, cmds, replies, chan, redis>>

\* Gateway.reloadApis() emits 'api-reload', whose listener destroys the
\* active breaker; the router keeps it until the API is installed again.
StartReload(p) ==
    /\ "reload" \in Disruptions
    /\ subscribed[p] /\ reloads[p] < MaxReloads
    /\ reloads' = [reloads EXCEPT ![p] = @ + 1]
    /\ active' = [active EXCEPT ![p] = None]
    /\ cb' = IF active[p] = None THEN cb ELSE [cb EXCEPT ![active[p]] = Destroy(@)]
    /\ UNCHANGED <<route, subscribed, request, cmds, replies, chan, redis>>

\* Nothing of the process holds the breaker object b any more.
Free(b) ==
    /\ active[b[1]] # b /\ route[b[1]] # b /\ cb[b].timers = 0
    /\ \A r \in Requests : request[r].via # b
    /\ \A i \in 1..Len(cmds[b[1]]) : cmds[b[1]][i].brk # b
    /\ \A i \in 1..Len(replies[b[1]]) : replies[b[1]][i].cmd.brk # b

\* ApiCircuitBreaker.circuitBreaker(), called by loadValidApi().
Install(b) ==
    LET p == b[1] IN
    /\ reloads[p] > 0 /\ Free(b)
    /\ reloads' = [reloads EXCEPT ![p] = @ - 1]
    /\ active' = [active EXCEPT ![p] = b]
    /\ route' = [route EXCEPT ![p] = b]
    /\ cb' = [cb EXCEPT ![b] = Fresh]
    /\ Send(p, <<Cmd("get", b, None)>>)
    /\ UNCHANGED <<subscribed, request, replies, chan, redis>>

\* Loading the API fails after 'api-reload': the old router stays.
ReloadFails(p) ==
    /\ "reloadError" \in Disruptions
    /\ reloads[p] > 0 /\ subscribed[p]
    /\ reloads' = [reloads EXCEPT ![p] = @ - 1]
    /\ UNCHANGED <<cb, active, route, subscribed, request, cmds, replies, chan, redis>>

\* The worker exits and is forked again: its memory and connections are gone.
Crash(p) ==
    /\ "crash" \in Disruptions
    /\ cb' = [b \in Breakers |-> IF b[1] = p THEN Fresh ELSE cb[b]]
    /\ active' = [active EXCEPT ![p] = None]
    /\ route' = [route EXCEPT ![p] = None]
    /\ reloads' = [reloads EXCEPT ![p] = 1]
    /\ subscribed' = [subscribed EXCEPT ![p] = FALSE]
    /\ request' = [r \in Requests |-> IF request[r].via # None /\ request[r].via[1] = p
                                      THEN [stage |-> "idle", via |-> None] ELSE request[r]]
    /\ cmds' = [cmds EXCEPT ![p] = <<>>]
    /\ replies' = [replies EXCEPT ![p] = <<>>]
    /\ chan' = [chan EXCEPT ![p] = <<>>]
    /\ UNCHANGED redis

\* ConfigService.subscribeEvents(), after the first loadApis().
Subscribe(p) ==
    /\ ~subscribed[p] /\ reloads[p] = 0
    /\ subscribed' = [subscribed EXCEPT ![p] = TRUE]
    /\ UNCHANGED <<cb, active, route, reloads, request, cmds, replies, chan, redis>>

\* The events connection drops and resubscribes: what was under way is lost.
DropEvents(p) ==
    /\ "eventLoss" \in Disruptions
    /\ chan[p] # <<>>
    /\ chan' = [chan EXCEPT ![p] = <<>>]
    /\ UNCHANGED <<cb, active, route, reloads, subscribed, request, cmds, replies, redis>>

-----------------------------------------------------------------------------
\* A running cluster in which no request has failed yet.
Init ==
    /\ cb = [b \in Breakers |-> IF b[2] = 1 THEN [Fresh EXCEPT !.circuit = "closed"] ELSE Fresh]
    /\ active = [p \in Procs |-> <<p, 1>>]
    /\ route = active
    /\ reloads = [p \in Procs |-> 0]
    /\ subscribed = [p \in Procs |-> TRUE]
    /\ request = [r \in Requests |-> [stage |-> "idle", via |-> None]]
    /\ cmds = [p \in Procs |-> <<>>]
    /\ replies = [p \in Procs |-> <<>>]
    /\ chan = [p \in Procs |-> <<>>]
    /\ redis = [state |-> "close", failures |-> 0, ttl |-> FALSE]

Next ==
    \/ \E p \in Procs :
        \/ RedisExec(p) \/ RedisError(p) \/ HandleReply(p) \/ Deliver(p) \/ DropEvents(p)
        \/ StartReload(p) \/ ReloadFails(p) \/ Crash(p) \/ Subscribe(p)
        \/ \E r \in Requests : Admit(p, r)
    \/ \E r \in Requests : FinishOk(r) \/ FinishError(r) \/ TimeoutCall(r) \/ EndLate(r)
    \/ \E b \in Breakers : FireTimer(b) \/ Install(b)
    \/ WindowExpires

Spec == Init /\ [][Next]_vars

\* Redis answers, the event loop runs every callback and every timer fires,
\* and a timed-out call is answered by the gateway; no request need ever
\* come, and no call need ever be answered in time.
Fairness ==
    /\ \A p \in Procs : WF_vars(RedisExec(p)) /\ WF_vars(HandleReply(p))
    /\ \A p \in Procs : WF_vars(Deliver(p)) /\ WF_vars(Subscribe(p))
    /\ \A p \in Procs : WF_vars(\E b \in Breakers : b[1] = p /\ Install(b))
    /\ \A b \in Breakers : WF_vars(FireTimer(b))
    /\ \A r \in Requests : WF_vars(TimeoutCall(r)) /\ WF_vars(EndLate(r))

FairSpec == Spec /\ Fairness

-----------------------------------------------------------------------------
(* Properties.                                                             *)

\* An open circuit that still receives events has a reset timer pending, so
\* it is on its way to half-open.
OpenHasTimer ==
    \A p \in Procs : active[p] # None /\ cb[active[p]].circuit = "open"
                        => cb[active[p]].timers > 0

\* A half-open circuit that rejects calls waits for a call it admitted, or
\* for the count of a failed one: its verdict will close or open it.
ProbeOutstanding ==
    \A b \in Breakers : cb[b].circuit = "halfOpen" /\ cb[b].probing =>
        \/ \E r \in Requests : request[r].stage = "running" /\ request[r].via = b
        \/ FailurePending(b)

\* The circuit is not the opposite of the state the cluster shares.
Agrees(k) ==
    /\ redis.state = "open"  => k.circuit # "closed"
    /\ redis.state = "close" => k.circuit # "open"

\* Nothing that decides the circuit is on its way to or from the process.
Quiet(p) ==
    /\ subscribed[p] /\ chan[p] = <<>>
    /\ \A i \in 1..Len(cmds[p]) : ~Publishes(cmds[p][i].op) /\ cmds[p][i].op # "get"
    /\ \A i \in 1..Len(replies[p]) : replies[p][i].cmd.op # "get"

\* A process that handled every event and has nothing to publish agrees with
\* Redis: no interleaving of openings and closings splits the cluster.
AgreementWhenQuiet ==
    \A p \in Procs : Quiet(p) /\ active[p] # None => Agrees(cb[active[p]])

\* One request counts at most one failure, and none before it ends: the
\* timeout and the late answer never both count.
OneFailurePerRequest ==
    \A r \in Requests :
        LET counts == UNION {    {<<p, "uncounted", i>> : i \in Uncounted(p, r)}
                            \cup {<<p, "counted", i>> : i \in Counted(p, r)} : p \in Procs}
        IN Cardinality(counts) <= IF request[r].stage = "running" THEN 0 ELSE 1

\* With a time window, a failure counter without expiry is about to get one:
\* failures of different windows never add up.
CounterWillExpire ==
    UseWindow /\ redis.failures > 0 /\ ~redis.ttl =>
        \E p \in Procs :
            \/ \E i \in 1..Len(cmds[p]) : cmds[p][i].op = "expire"
            \/ \E i \in 1..Len(replies[p]) :
                 /\ replies[p][i].cmd.op = "incr" /\ replies[p][i].ok
                 /\ Expiry(replies[p][i]) # <<>>

\* A route that rejects calls does not reject them for ever, unless the loads
\* of its API fail for ever and leave it without an installed breaker, or a
\* failed command loses the verdict of the call its half-open circuit let pass.
RejectingEnds ==
    \A p \in Procs : []<>(active[p] # None) /\ <>[]ProbeOutstanding =>
        ((route[p] # None /\ Rejects(cb[route[p]])) ~> ~(route[p] # None /\ Rejects(cb[route[p]])))
=============================================================================
