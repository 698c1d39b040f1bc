------------------------------ MODULE Pipeline ------------------------------
(***************************************************************************)
(* The chain of middlewares of an API: ApiPipeline.loadValidApi() and what *)
(* it calls, which turn the API's configuration into the handlers of its   *)
(* router.  A handler is what it does and the groups it is for ({} when    *)
(* none is given).  What handlers do to a request is Requests.             *)
(***************************************************************************)
EXTENDS Groups, Naturals, SequencesExt

\* What the validators let an API be.  A member of a group has some criterion:
\* one whose lists are all empty makes a test that does not compile.
WellFormed(api) ==
    /\ {api.allow, api.deny} \subseteq SUBSET STRING
    /\ {api.filter, api.throttling, api.cors, api.cache, api.request} \subseteq Seq(SUBSET STRING)
    /\ api.authentication \in Seq([on : SUBSET STRING, loads : BOOLEAN])
    /\ \A id \in DOMAIN api.groups : \A m \in api.groups[id] :
            m.method # {} \/ m.protocol # {} \/ m.path # {}

Handler(does, on) == [does |-> does, on |-> on]
Each(does, list) == [i \in 1..Len(list) |-> Handler(does, list[i])]
When(given, handlers) == IF given THEN handlers ELSE <<>>

\* At most one configuration of the kind looked for, and it goes last.
OneLast(list, found) ==
    IF Cardinality(found) > 1 THEN <<>>
    ELSE IF found = {} THEN list
    ELSE LET i == CHOOSE k \in found : TRUE
         IN  Append(RemoveAt(list, i), list[i])

\* ApiRateLimit.sortLimiters(), ApiCache.sortCaches() and ApiCors.sortMiddlewares()
\* look for the configurations that have groups where they mean those that
\* have none.
SortGrouped(list) == OneLast(list, {i \in 1..Len(list) : list[i] # {}})

\* Mutant: so does ApiAuth.
SortAuthGrouped(list) == OneLast(list, {i \in 1..Len(list) : list[i].on # {}})

\* ApiAuth.sortMiddlewares().
SortAuth(list) == OneLast(list, {i \in 1..Len(list) : list[i].on = {}})

\* ApiAuth.authentication(): a strategy that cannot be configured is skipped,
\* as if its handler did nothing.
Authenticators(list) ==
    LET sorted == SortAuth(list)
    IN  [i \in 1..Len(sorted) |-> Handler(IF sorted[i].loads THEN "auth" ELSE "none", sorted[i].on)]

\* ApiFilter.buildApiFilters().
Filters(api) ==
    When(api.allow # {}, <<Handler("allow", api.allow)>>)
    \o When(api.deny # {}, <<Handler("deny", api.deny)>>)
    \o Each("filter", api.filter)

\* The API's own CORS configurations, or the gateway's.
Cors(api) ==
    IF api.cors # <<>> THEN Each("cors", SortGrouped(api.cors))
    ELSE When(api.gatewayCors, <<Handler("cors", {})>>)

\* ApiProxy.proxy().
ToBackend(api) ==
    When(api.router, <<Handler("router", {})>>)
    \o When(api.discovery, <<Handler("discovery", {})>>)
    \o Each("intercept", api.request)
    \o <<Handler("proxy", {})>>

Chain(api) ==
    When(api.parse, <<Handler("parse", {})>>)
    \o Filters(api)
    \o Each("limit", SortGrouped(api.throttling))
    \o Cors(api)
    \o When(api.breaker, <<Handler("breaker", {})>>)
    \o Authenticators(api.authentication)
    \o Each("cache", SortGrouped(api.cache))
    \o ToBackend(api)

-----------------------------------------------------------------------------
Member(api, ids, r) == Allow(Named(api.groups, ids), r)

\* Whether a handler is for a request: one without groups is for all, a cache
\* for GET (ApiCache.buildCacheMiddleware()).
IsFor(api, h, r) ==
    IF h.on = {} THEN h.does = "cache" => r.method = "GET" ELSE Member(api, h.on, r)

\* Handlers that call the next one in a later turn, or never.
Waits(api, h, r) ==
    /\ h.does \notin {"none", "allow", "deny", "cors", "breaker"}
    /\ IsFor(api, h, r)

\* Handlers that answer at once: a filter by groups that is not passed, and the
\* CORS library when it gets a preflight request.
Refuses(api, h, r) ==
    \/ h.does = "allow" /\ ~Member(api, h.on, r)
    \/ h.does = "deny" /\ ~Deny(Named(api.groups, h.on), r)
    \/ h.does = "cors" /\ IsFor(api, h, r) /\ r.method = "OPTIONS"

\* ProxyInterceptor.createResponseInterceptors(): those a response goes through.
Intercepted(api, r) ==
    \E i \in 1..Len(api.response) :
        api.response[i] # {} => ~NotAllow(Named(api.groups, api.response[i]), r)
=============================================================================
