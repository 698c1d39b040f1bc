------------------------------ MODULE Requests ------------------------------
(***************************************************************************)
(* Requests of one API in a gateway process: each goes through the         *)
(* handlers of the API's router (Pipeline), which count it in Redis, look  *)
(* for its answer there, send it to the backend and answer it.  A circuit  *)
(* breaker's timer may answer it at any time, and the rest of the chain    *)
(* goes on.  The circuit itself is CircuitBreaker.                         *)
(***************************************************************************)
EXTENDS Pipeline

CONSTANTS
    Requests,
    Apis,       \* configurations the API may have
    Kinds,      \* [method, protocol, path, client]: what a request may be
    MaxRequests,    \* requests a limiter lets a client make per window
    None

ASSUME RequestsAssumption == MaxRequests \in Nat /\ \A k \in Kinds : None \notin {k.path, k.client}

ASSUME ApisAssumption == \A x \in Apis : WellFormed(x)

VARIABLES
    api,        \* the API's configuration: it never changes
    chain,      \* the handlers of its router: they never change
    kind,       \* what each request is: it never changes
    stage,      \* "new", "waiting", "replied", "streaming", "over" or "gone"
    pos,        \* the handler of the chain each request waits in
    reply,      \* what Redis replied to it
    passed,     \* the handlers that let it go on
    sent,       \* whether it was sent to the backend
    missed,     \* res.send is wrapped, to store what it sends in the cache
    timer,      \* "off", "on" or "fired": the circuit breaker's timer
    answers,    \* the answers begun
    logs,       \* entries of the request's log
    count,      \* rl:<path>:<client>, 0 when there is no such key
    expires,    \* whether the counter has a time to live
    expiring,   \* an EXPIRE of the counter is on its way
    orphan,     \* the process was lost before it set the counter's expiry
    counted,    \* requests of the client in the window
    came,       \* how many they were when each was counted
    entries     \* ca:<url>: the body stored for a path

vars == <<api, chain, kind, stage, pos, reply, passed, sent, missed, timer, answers, logs,
          count, expires, expiring, orphan, counted, came, entries>>

store == <<count, expires, expiring, orphan, counted, came>>

Clients == {k.client : k \in Kinds}
UrlPaths == {k.path : k \in Kinds}

At(r) == chain[pos[r]]
Waiting(r, s) == stage[r] = "waiting" /\ At(r).does \in s
Replied(r, s) == stage[r] = "replied" /\ At(r).does \in s

-----------------------------------------------------------------------------
(* Answers.                                                                *)

\* Mutant: what is sent is stored whatever its status.
StoresAll(status) == TRUE

\* ServerCache.buildCacheMiddleware(): 2xx and 304.
Stores(status) == status \in {"ok", "notModified"}

\* res.send and res.end as the cache, the breaker and the request log wrapped
\* them (each restores the one before).
Finish(r, status, body) ==
    /\ entries' = IF missed[r] /\ Stores(status) THEN [entries EXCEPT ![kind[r].path] = body]
                  ELSE entries
    /\ logs' = [logs EXCEPT ![r] = IF api.log THEN @ + 1 ELSE @]

Begin(r, status, body) ==
    answers' = [answers EXCEPT ![r] = Append(@, [status |-> status, body |-> body])]

Stop(r) == timer' = [timer EXCEPT ![r] = IF @ = "on" THEN "off" ELSE @]

Answer(r, status, body) == Begin(r, status, body) /\ Finish(r, status, body) /\ Stop(r)

Silent == UNCHANGED <<answers, entries, logs, timer>>

\* next(err): the error handler answers unless something has (express then
\* only closes the connection).
Fail(r, status) ==
    /\ stage' = [stage EXCEPT ![r] = "over"]
    /\ IF answers[r] = <<>> THEN Answer(r, status, "error") ELSE Silent
    /\ UNCHANGED <<pos, sent>>

\* next(): the handlers from i on, up to one that waits or answers.
Walk(r, i) ==
    LET j == Min({k \in i..Len(chain) : Waits(api, chain[k], kind[r])
                                          \/ Refuses(api, chain[k], kind[r])})
        timed == \E k \in i..j : chain[k].does = "breaker"
    IN
    /\ pos' = [pos EXCEPT ![r] = j]
    /\ sent' = [sent EXCEPT ![r] = @ \/ chain[j].does = "proxy"]
    /\ IF Refuses(api, chain[j], kind[r])
       THEN /\ stage' = [stage EXCEPT ![r] = "over"]
            /\ Answer(r, IF chain[j].does = "cors" THEN "preflight" ELSE "refused", "none")
       ELSE /\ stage' = [stage EXCEPT ![r] = "waiting"]
            /\ timer' = IF timed THEN [timer EXCEPT ![r] = "on"] ELSE timer
            /\ UNCHANGED <<answers, entries, logs>>

\* The breaker's timer took the router to the error handler, its last one: when
\* a handler that was waiting calls next(), no other follows.
Leaves(r) ==
    /\ stage' = [stage EXCEPT ![r] = "over"]
    /\ Silent
    /\ UNCHANGED <<pos, sent>>

\* The handler calls next().
Pass(r) ==
    /\ passed' = [passed EXCEPT ![r] = @ \cup {At(r)}]
    /\ IF timer[r] = "fired" THEN Leaves(r) ELSE Walk(r, pos[r] + 1)

-----------------------------------------------------------------------------
(* Handlers.                                                               *)

Arrive(r) ==
    /\ stage[r] = "new"
    /\ Walk(r, 1)
    /\ UNCHANGED <<api, chain, kind, reply, passed, missed, store>>

\* Handlers that ask nobody but a middleware: body parsers, filters,
\* authenticators, routers, service discovery and request interceptors.
Middleware == {"parse", "filter", "auth", "router", "discovery", "intercept"}

Resolves(r) ==
    /\ Waiting(r, Middleware)
    /\ Pass(r)
    /\ UNCHANGED <<api, chain, kind, reply, missed, store>>

\* It rejects, or the filter is not passed, or has answered by itself.
Rejects(r) ==
    /\ Waiting(r, Middleware)
    /\ Fail(r, "refused")
    /\ UNCHANGED <<api, chain, kind, reply, passed, missed, store>>

\* Mutant: the counters of all clients are one.
SharedKey(k) == CHOOSE c \in Clients : TRUE

\* RedisStore.getRedisKey(): the prefix, the API's path and what keyGenerator
\* returns, by default the client; the limiters of an API share it.
Key(k) == k.client

\* RedisStore.incr(): INCR and TTL in one MULTI.
Increment(r) ==
    LET c == Key(kind[r])
        window == counted[kind[r].client] \cup {r}
    IN
    /\ Waiting(r, {"limit"})
    /\ stage' = [stage EXCEPT ![r] = "replied"]
    /\ count' = [count EXCEPT ![c] = @ + 1]
    /\ reply' = [reply EXCEPT ![r] = [n |-> count[c] + 1, expires |-> expires[c]]]
    /\ orphan' = [orphan EXCEPT ![c] = FALSE]
    /\ counted' = [counted EXCEPT ![kind[r].client] = window]
    /\ came' = [came EXCEPT ![r] = Cardinality(window)]
    /\ Silent
    /\ UNCHANGED <<api, chain, kind, pos, passed, sent, missed, expires, expiring>>

\* Mutant: the expiry is set for a new counter only.
SetsExpiryOfNew(x) == x.n = 1

SetsExpiry(x) == x.n = 1 \/ ~x.expires

\* The limiter answers "too many" or calls the next handler.
Limited(r) ==
    LET c == Key(kind[r])
    IN
    /\ Replied(r, {"limit"})
    /\ expiring' = [expiring EXCEPT ![c] = @ \/ SetsExpiry(reply[r])]
    /\ IF reply[r].n > MaxRequests THEN Fail(r, "tooMany") /\ UNCHANGED passed ELSE Pass(r)
    /\ UNCHANGED <<api, chain, kind, reply, missed, count, expires, orphan, counted, came>>

\* The Redis store of the limiter fails: next(err).
CountFails(r) ==
    /\ Waiting(r, {"limit"})
    /\ Fail(r, "error")
    /\ UNCHANGED <<api, chain, kind, reply, passed, missed, store>>

LookUp(r) ==
    /\ Waiting(r, {"cache"})
    /\ stage' = [stage EXCEPT ![r] = "replied"]
    /\ reply' = [reply EXCEPT ![r] = entries[kind[r].path]]
    /\ Silent
    /\ UNCHANGED <<api, chain, kind, pos, passed, sent, missed, store>>

\* The entry answers the request.  When the timer has, setting a header throws
\* in the store's callback, which takes it for an error of Redis.
Hit(r) ==
    /\ Replied(r, {"cache"}) /\ reply[r] # None
    /\ IF answers[r] = <<>>
       THEN /\ stage' = [stage EXCEPT ![r] = "over"]
            /\ Answer(r, "hit", reply[r])
            /\ UNCHANGED <<pos, passed, sent>>
       ELSE Pass(r)
    /\ UNCHANGED <<api, chain, kind, reply, missed, store>>

\* The answer will be stored.
Miss(r) ==
    /\ Replied(r, {"cache"}) /\ reply[r] = None
    /\ missed' = [missed EXCEPT ![r] = TRUE]
    /\ Pass(r)
    /\ UNCHANGED <<api, chain, kind, reply, store>>

\* Mutant: the request is given up when the cache cannot be asked.
CacheFailsFor(r) == Silent /\ UNCHANGED <<pos, passed, sent>>
                    /\ stage' = [stage EXCEPT ![r] = "over"]

CacheFailed(r) == Pass(r)

\* The request goes on without the cache.
CacheFails(r) ==
    /\ Waiting(r, {"cache"})
    /\ CacheFailed(r)
    /\ UNCHANGED <<api, chain, kind, reply, missed, store>>

-----------------------------------------------------------------------------
(* The backend.                                                            *)

Over(r) == stage' = [stage EXCEPT ![r] = "over"]
Wrapped(r) == missed[r] \/ Intercepted(api, kind[r])

\* Mutant: what was collected is sent although the timer has answered.
SendAlways(r, status, body) == Answer(r, status, body)

\* res.send, unless the response is finished.
SendCollected(r, status, body) ==
    IF answers[r] = <<>> THEN Answer(r, status, body) ELSE Silent

\* The response is collected, goes through the interceptors, and is sent.  An
\* interceptor that rejects leaves an empty body under the backend's status.  A
\* 304 is the backend's own, which has no body, or what res.send makes of a 200
\* for a client that has the body already.
BackendAnswers(r) ==
    /\ Waiting(r, {"proxy"}) /\ Wrapped(r)
    /\ \/ SendCollected(r, "ok", "whole")
       \/ Intercepted(api, kind[r]) /\ SendCollected(r, "ok", "empty")
       \/ \E body \in {"empty", "whole"} : SendCollected(r, "notModified", body)
       \/ SendCollected(r, "serverError", "error")
    /\ Over(r)
    /\ UNCHANGED <<api, chain, kind, pos, reply, passed, sent, missed, store>>

\* The response is piped into the client's as it comes.
BackendStreams(r) ==
    /\ Waiting(r, {"proxy"}) /\ ~Wrapped(r)
    /\ IF answers[r] = <<>>
       THEN /\ stage' = [stage EXCEPT ![r] = "streaming"]
            /\ \/ Begin(r, "ok", "whole") \/ Begin(r, "serverError", "error")
       ELSE Over(r) /\ UNCHANGED answers
    /\ UNCHANGED <<api, chain, kind, pos, reply, passed, sent, missed, timer, logs, entries, store>>

StreamEnds(r) ==
    /\ stage[r] = "streaming"
    /\ Over(r) /\ Stop(r) /\ Finish(r, answers[r][1].status, answers[r][1].body)
    /\ UNCHANGED <<api, chain, kind, pos, reply, passed, sent, missed, answers, store>>

\* The backend does not answer, or not in time: 502.
BackendFails(r) ==
    /\ Waiting(r, {"proxy"})
    /\ Fail(r, "badGateway")
    /\ UNCHANGED <<api, chain, kind, reply, passed, missed, store>>

\* CircuitBreaker.handleTimeout(): the error handler answers now.  What a handler,
\* or the backend, is doing for the request goes on.
TimesOut(r) ==
    /\ timer[r] = "on"
    /\ timer' = [timer EXCEPT ![r] = "fired"]
    /\ IF answers[r] = <<>>
       THEN Begin(r, "timedOut", "error") /\ Finish(r, "timedOut", "error")
       ELSE UNCHANGED <<answers, logs, entries>>
    /\ UNCHANGED <<api, chain, kind, stage, pos, reply, passed, sent, missed, store>>

-----------------------------------------------------------------------------
(* Redis, and the end of the process.                                      *)

SetExpiry(c) ==
    /\ expiring[c]
    /\ expiring' = [expiring EXCEPT ![c] = FALSE]
    /\ expires' = [expires EXCEPT ![c] = count[c] > 0]
    /\ UNCHANGED <<api, chain, kind, stage, pos, reply, passed, sent, missed, timer, answers, logs,
                   count, orphan, counted, came, entries>>

WindowEnds(c) ==
    /\ expires[c]
    /\ count' = [count EXCEPT ![c] = 0]
    /\ expires' = [expires EXCEPT ![c] = FALSE]
    /\ counted' = [counted EXCEPT ![c] = {}]
    /\ UNCHANGED <<api, chain, kind, stage, pos, reply, passed, sent, missed, timer, answers, logs,
                   expiring, orphan, came, entries>>

EntryExpires(x) ==
    /\ entries[x] # None
    /\ entries' = [entries EXCEPT ![x] = None]
    /\ UNCHANGED <<api, chain, kind, stage, pos, reply, passed, sent, missed, timer, answers, logs, store>>

\* The process is lost with its requests; another one takes its place.
Crash ==
    /\ \E r \in Requests : stage[r] \notin {"new", "gone"}
    /\ stage' = [r \in Requests |-> IF stage[r] = "new" THEN "new" ELSE "gone"]
    /\ timer' = [r \in Requests |-> "off"]
    /\ expiring' = [c \in Clients |-> FALSE]
    /\ orphan' = [c \in Clients |-> count[c] > 0 /\ ~expires[c]]
    /\ UNCHANGED <<api, chain, kind, pos, reply, passed, sent, missed, answers, logs, count, expires,
                   counted, came, entries>>

-----------------------------------------------------------------------------
Init ==
    /\ api \in Apis /\ chain = Chain(api) /\ kind \in [Requests -> Kinds]
    /\ stage = [r \in Requests |-> "new"] /\ pos = [r \in Requests |-> 1]
    /\ reply = [r \in Requests |-> None] /\ passed = [r \in Requests |-> {}]
    /\ sent = [r \in Requests |-> FALSE] /\ missed = [r \in Requests |-> FALSE]
    /\ timer = [r \in Requests |-> "off"] /\ answers = [r \in Requests |-> <<>>]
    /\ logs = [r \in Requests |-> 0] /\ came = [r \in Requests |-> 0]
    /\ count = [c \in Clients |-> 0] /\ expires = [c \in Clients |-> FALSE]
    /\ expiring = [c \in Clients |-> FALSE] /\ orphan = [c \in Clients |-> FALSE]
    /\ counted = [c \in Clients |-> {}] /\ entries = [x \in UrlPaths |-> None]

Handle(r) ==
    \/ Resolves(r) \/ Rejects(r) \/ Increment(r) \/ Limited(r) \/ CountFails(r)
    \/ LookUp(r) \/ Hit(r) \/ Miss(r) \/ CacheFails(r)
    \/ BackendAnswers(r) \/ BackendStreams(r) \/ StreamEnds(r) \/ BackendFails(r)

Next ==
    \/ \E r \in Requests : Arrive(r) \/ Handle(r) \/ TimesOut(r)
    \/ \E c \in Clients : SetExpiry(c) \/ WindowEnds(c)
    \/ \E x \in UrlPaths : EntryExpires(x)
    \/ Crash

Spec == Init /\ [][Next]_vars

\* Redis replies, middlewares end, and the backend answers or its connection
\* fails; nobody need make a request, and timers may fire late.
Fairness == \A r \in Requests : WF_vars(Handle(r))

FairSpec == Spec /\ Fairness

-----------------------------------------------------------------------------
\* The API's own reading of its configuration: what names groups is for their
\* members.
For(ids, r) == ids = {} \/ Member(api, ids, kind[r])

Served(r) == sent[r] \/ \E i \in 1..Len(answers[r]) : answers[r][i].status = "hit"

\* What reaches the backend, or is answered from the cache, is in an allowed
\* group and in no denied one, and was let through by each filter and each
\* authentication that is for it, in whatever order and number the API gives
\* them, as long as only one authentication is for everything
\* (ApiPipeline.loadValidApi(), ApiAuth.sortMiddlewares()).
Guarded ==
    \A r \in Requests : Served(r) =>
        /\ For(api.allow, r)
        /\ api.deny # {} => ~For(api.deny, r)
        /\ \A on \in ToSet(api.filter) : For(on, r) => Handler("filter", on) \in passed[r]
        /\ Cardinality({i \in 1..Len(api.authentication) : api.authentication[i].on = {}}) <= 1 =>
            \A a \in ToSet(api.authentication) :
                a.loads /\ For(a.on, r) => Handler("auth", a.on) \in passed[r]

\* Nobody is answered twice, however the timer and the backend race, and each
\* answer that ends is logged once (ApiPipeline.configureLogMiddleware(),
\* CircuitBreaker.handleTimeout()).
OneAnswerOneLog ==
    \A r \in Requests :
        /\ Len(answers[r]) <= 1
        /\ logs[r] <= Len(answers[r])
        /\ api.log /\ stage[r] = "over" => logs[r] = 1

\* A hit repeats what a client of the same URL was answered with a status
\* that is not an error; it is empty only when that answer was, a 304 of the backend
\* or one an interceptor failed on (ServerCache.buildCacheMiddleware()).
HitsRepeatAnAnswer ==
    \A r \in Requests, i \in 1..1 :
        i <= Len(answers[r]) /\ answers[r][i].status = "hit" =>
            \E q \in Requests : /\ kind[q].path = kind[r].path /\ answers[q] # <<>>
                                /\ answers[q][1].status \in {"ok", "notModified"}
                                /\ answers[q][1].body = answers[r][i].body

\* A counter always gets its expiry: when a process is lost before it sets it,
\* the next request does (RedisStore.incr()).
CounterIsRepaired ==
    \A c \in Clients : count[c] > 0 /\ ~expires[c] =>
        \/ orphan[c] \/ expiring[c]
        \/ \E r \in Requests : /\ Replied(r, {"limit"}) /\ kind[r].client = c
                               /\ reply[r].n = 1 \/ ~reply[r].expires

\* A client is told it made too many requests only when it did, unless several
\* limiters are for its requests, which count in the same key
\* (RedisStore.getRedisKey()).
RefusalsAreEarned ==
    \A r \in Requests : \A i \in 1..Len(answers[r]) :
        answers[r][i].status = "tooMany" => came[r] > MaxRequests \/ Len(api.throttling) > 1

\* Every request is answered, unless its process is lost, whatever fails: a
\* middleware, Redis, an interceptor or the backend (ApiPipeline).
AllAnswered ==
    \A r \in Requests :
        stage[r] = "waiting" ~> stage[r] = "gone" \/ (stage[r] = "over" /\ answers[r] # <<>>)
=============================================================================
