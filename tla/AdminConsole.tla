---------------------------- MODULE AdminConsole ----------------------------
(***************************************************************************)
(* What a command of the administration console becomes on its way to the  *)
(* pipeline.  Five tables have to agree about the fifteen kinds of         *)
(* middleware: the subcommands of the parser (cli-args.ts), the handlers   *)
(* that call the SDK (cli-tool.ts), the requests of the SDK                *)
(* (sdk-middleware.ts), the routes of the REST API, with the types its     *)
(* service stores (admin/api/middleware.ts), and the types that the        *)
(* pipeline loads (the calls of loadMiddleware) or a package exports       *)
(* (config-package.ts).  Nothing but their agreement joins them.           *)
(***************************************************************************)
EXTENDS Integers, Sequences, FiniteSets

CONSTANT None   \* no name, no content, no user

-----------------------------------------------------------------------------
(* The subcommands of "middleware", which take the same five options.      *)

FilteringParsers      == {"filter", "requestInterceptor", "responseInterceptor"}
AuthenticationParsers == {"authStrategy", "authVerify"}
ThrottlingParsers     == {"throttlingKeyGenerator", "throttlingHandler", "throttlingSkip"}
RoutingParsers        == {"circuitbreaker", "cors", "proxyRouter"}
DiscoveryParsers      == {"serviceDiscovery", "serviceDiscoveryProvider"}
ReportingParsers      == {"errorHandler", "requestLogger"}

Areas == {FilteringParsers, AuthenticationParsers, ThrottlingParsers,
          RoutingParsers, DiscoveryParsers, ReportingParsers}

Kinds == UNION Areas

\* A handler looks at the options in this order and serves the first one given.
Precedence == [middleware |-> <<"list", "remove", "update", "add", "get">>,
               gateway    |-> <<"update", "remove", "get">>,
               config     |-> <<"update", "get">>]

Chosen(command, given) ==
    LET order == Precedence[command]
        first == {i \in DOMAIN order : order[i] \in given}
    IN  IF first = {} THEN "invalid"
        ELSE order[CHOOSE i \in first : \A j \in first : i <= j]

\* The calls of the SDK that each handler makes.
FilteringCalls == [filter |-> "Filter", requestInterceptor |-> "RequestInterceptor",
                   responseInterceptor |-> "ResponseInterceptor"]
AuthenticationCalls == [authStrategy |-> "AuthStrategy", authVerify |-> "AuthVerify"]
ThrottlingCalls == [throttlingKeyGenerator |-> "ThrottlingKeyGenerator",
                    throttlingHandler |-> "ThrottlingHandler", throttlingSkip |-> "ThrottlingSkip"]
RoutingCalls == [circuitbreaker |-> "CircuitBreaker", cors |-> "Cors", proxyRouter |-> "ProxyRouter"]
DiscoveryCalls == [serviceDiscovery |-> "ServiceDiscovery",
                   serviceDiscoveryProvider |-> "ServiceDiscoveryProvider"]
ReportingCalls == [errorHandler |-> "ErrorHandler", requestLogger |-> "RequestLogger"]

CallOf(kind) ==
    CASE kind \in FilteringParsers      -> FilteringCalls[kind]
      [] kind \in AuthenticationParsers -> AuthenticationCalls[kind]
      [] kind \in ThrottlingParsers     -> ThrottlingCalls[kind]
      [] kind \in RoutingParsers        -> RoutingCalls[kind]
      [] kind \in DiscoveryParsers      -> DiscoveryCalls[kind]
      [] kind \in ReportingParsers      -> ReportingCalls[kind]

-----------------------------------------------------------------------------
(* The requests that the calls of the SDK send, and the answer they take   *)
(* for success.                                                            *)

Paths == [Filter                   |-> "filters",
          RequestInterceptor       |-> "interceptors/request",
          ResponseInterceptor      |-> "interceptors/response",
          AuthStrategy             |-> "authentication/strategies",
          AuthVerify               |-> "authentication/verify",
          ThrottlingKeyGenerator   |-> "throttling/keyGenerators",
          ThrottlingHandler        |-> "throttling/handlers",
          ThrottlingSkip           |-> "throttling/skip",
          CircuitBreaker           |-> "circuitbreaker",
          Cors                     |-> "cors/origin",
          ProxyRouter              |-> "proxy/router",
          ServiceDiscovery         |-> "servicediscovery",
          ServiceDiscoveryProvider |-> "servicediscovery/provider",
          ErrorHandler             |-> "errorhandler",
          RequestLogger            |-> "request/logger"]

ToSend(verb, c, name, expects) ==
    [verb |-> verb, path |-> Paths[c], name |-> name, expects |-> expects]

SdkList(c)      == ToSend("GET", c, None, 200)
SdkRemove(c, n) == ToSend("DELETE", c, n, 204)

\* Mutant: the update expects the answer of an add.
SdkUpdateAsAdd(c, n) == ToSend("PUT", c, n, 201)

SdkUpdate(c, n) == ToSend("PUT", c, n, 204)
SdkAdd(c, n)    == ToSend("POST", c, n, 201)
SdkGet(c, n)    == ToSend("GET", c, n, 200)

\* What a command with these options sends.
MiddlewareRequest(kind, given, n) ==
    LET c == CallOf(kind) IN
    CASE Chosen("middleware", given) = "list"   -> SdkList(c)
      [] Chosen("middleware", given) = "remove" -> SdkRemove(c, n)
      [] Chosen("middleware", given) = "update" -> SdkUpdate(c, n)
      [] Chosen("middleware", given) = "add"    -> SdkAdd(c, n)
      [] Chosen("middleware", given) = "get"    -> SdkGet(c, n)

-----------------------------------------------------------------------------
(* The routes of the REST API, and the type each one passes to the service.*)

TypeAt(path) ==
    CASE path = "filters"                   -> "filter"
      [] path = "interceptors/request"      -> "interceptor/request"
      [] path = "interceptors/response"     -> "interceptor/response"
      [] path = "authentication/strategies" -> "authentication/strategy"
      [] path = "authentication/verify"     -> "authentication/verify"
      [] path = "throttling/keyGenerators"  -> "throttling/keyGenerator"
      [] path = "throttling/handlers"       -> "throttling/handler"
      [] path = "throttling/skip"           -> "throttling/skip"
      [] path = "circuitbreaker"            -> "circuitbreaker"
      [] path = "cors/origin"               -> "cors/origin"
      [] path = "proxy/router"              -> "proxy/router"
      [] path = "servicediscovery"          -> "servicediscovery"
      [] path = "servicediscovery/provider" -> "servicediscovery/provider"
      [] path = "errorhandler"              -> "errorhandler"
      [] path = "request/logger"            -> "request/logger"

ToServe(op, q, status) == [op |-> op, type |-> TypeAt(q.path), name |-> q.name, status |-> status]

\* Mutant: the request interceptors are listed as the response ones.
RestListMixed(q) ==
    ToServe("list", IF q.path = "interceptors/request" THEN [q EXCEPT !.path = "interceptors/response"] ELSE q, 200)

RestList(q)   == ToServe("list", q, 200)
RestRemove(q) == ToServe("remove", q, 204)

\* Mutant: the update of the handlers is passed to the type of the skips.
RestUpdateMixed(q) ==
    ToServe("update", IF q.path = "throttling/handlers" THEN [q EXCEPT !.path = "throttling/skip"] ELSE q, 204)

RestUpdate(q) == ToServe("update", q, 204)
RestGet(q)    == ToServe("get", q, 200)
RestAdd(q)    == ToServe("add", q, 201)

\* The lists are declared before the gets, so GET servicediscovery/provider
\* lists the providers whatever is named "provider".
IsList(q) == q.verb = "GET" /\ (q.name = None \/ (q.path = "servicediscovery" /\ q.name = "provider"))

Listed(q) == IF q.name = None THEN q
             ELSE [q EXCEPT !.path = "servicediscovery/provider", !.name = None]

Served(q) ==
    CASE IsList(q)         -> RestList(Listed(q))
      [] q.verb = "DELETE" -> RestRemove(q)
      [] q.verb = "PUT"    -> RestUpdate(q)
      [] q.verb = "POST"   -> RestAdd(q)
      [] OTHER             -> RestGet(q)

-----------------------------------------------------------------------------
(* The types that the pipeline loads, and those that a package holds.      *)

\* Where the pipeline looks for a middleware of each kind.
LoadedAs == [filter                   |-> "filter",
             requestInterceptor       |-> "interceptor/request",
             responseInterceptor      |-> "interceptor/response",
             authStrategy             |-> "authentication/strategy",
             authVerify               |-> "authentication/verify",
             throttlingKeyGenerator   |-> "throttling/keyGenerator",
             throttlingHandler        |-> "throttling/handler",
             throttlingSkip           |-> "throttling/skip",
             circuitbreaker           |-> "circuitbreaker",
             cors                     |-> "cors/origin",
             proxyRouter              |-> "proxy/router",
             serviceDiscovery         |-> "servicediscovery",
             serviceDiscoveryProvider |-> "servicediscovery/provider",
             errorHandler             |-> "errorhandler",
             requestLogger            |-> "request/logger"]

\* The middlewares of the gateway itself, which come before any installed one.
Provided(type) ==
    CASE type = "authentication/strategy"   -> {"basic", "jwt", "local"}
      [] type = "errorhandler"              -> {"json", "mustache"}
      [] type = "filter"                    -> {"ipFilter"}
      [] type = "interceptor/request"       ->
            {"requestBodyTransformer", "requestHeaders", "requestMustache", "requestXml"}
      [] type = "interceptor/response"      ->
            {"responseBodyTransformer", "responseHeaders", "responseMustache", "responseXml", "webSecurity"}
      [] type = "proxy/router"              -> {"header", "loadBalancer", "query", "trafficSplit"}
      [] type = "request/logger"            -> {"redis"}
      [] type = "servicediscovery"          -> {"consul"}
      [] type = "servicediscovery/provider" -> {"consul"}
      [] OTHER                              -> {}

IsProvided(type, n) == n \in Provided(type)

\* Mutant: a type that a package forgets.
ExportedButVerify ==
    {"filter", "interceptor/request", "interceptor/response", "authentication/strategy",
     "throttling/keyGenerator", "throttling/handler", "throttling/skip",
     "circuitbreaker", "cors/origin", "proxy/router", "servicediscovery",
     "servicediscovery/provider", "errorhandler", "request/logger"}

\* The types that a package holds.
Exported ==
    {"filter", "interceptor/request", "interceptor/response", "authentication/strategy",
     "authentication/verify", "throttling/keyGenerator", "throttling/handler", "throttling/skip",
     "circuitbreaker", "cors/origin", "proxy/router", "servicediscovery",
     "servicediscovery/provider", "errorhandler", "request/logger"}
=============================================================================
