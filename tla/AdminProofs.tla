---------------------------- MODULE AdminProofs ----------------------------
(***************************************************************************)
(* Proofs about what administrators do at the same time, for any number of *)
(* requests and names: AdminServices, and AdminRegistry for the APIs.      *)
(***************************************************************************)
EXTENDS AdminServices, AdminRegistry, TLAPS

USE NoneAssumption, EarlierAssumption

-----------------------------------------------------------------------------
(* The tables of the console.                                              *)

Options == {"list", "remove", "update", "add", "get"}

LEMMA ParsersAreKinds ==
    Kinds = FilteringParsers \cup AuthenticationParsers \cup ThrottlingParsers
            \cup RoutingParsers \cup DiscoveryParsers \cup ReportingParsers
BY DEF Kinds, Areas

\* What the console stores under a kind is what the pipeline loads for it.
LEMMA TablesAgree ==
    \A kind \in Kinds :
        /\ TypeAt(Paths[CallOf(kind)]) = LoadedAs[kind]
        /\ Paths[CallOf(kind)] = "servicediscovery" <=> kind = "serviceDiscovery"
<1> DEFINE Agree(kind) ==
        /\ TypeAt(Paths[CallOf(kind)]) = LoadedAs[kind]
        /\ Paths[CallOf(kind)] = "servicediscovery" <=> kind = "serviceDiscovery"
<1> USE DEF FilteringParsers, AuthenticationParsers, ThrottlingParsers, RoutingParsers,
            DiscoveryParsers, ReportingParsers
<1>1. Agree("filter") /\ Agree("requestInterceptor") /\ Agree("responseInterceptor")
  <2>1. Agree("filter")
    BY DEF TypeAt, Paths, CallOf, LoadedAs, FilteringCalls
  <2>2. Agree("requestInterceptor")
    BY DEF TypeAt, Paths, CallOf, LoadedAs, FilteringCalls
  <2>3. Agree("responseInterceptor")
    BY DEF TypeAt, Paths, CallOf, LoadedAs, FilteringCalls
  <2> QED
    BY <2>1, <2>2, <2>3
<1>2. Agree("authStrategy") /\ Agree("authVerify")
  <2>1. Agree("authStrategy")
    BY DEF TypeAt, Paths, CallOf, LoadedAs, AuthenticationCalls
  <2>2. Agree("authVerify")
    BY DEF TypeAt, Paths, CallOf, LoadedAs, AuthenticationCalls
  <2> QED
    BY <2>1, <2>2
<1>3. Agree("throttlingKeyGenerator") /\ Agree("throttlingHandler") /\ Agree("throttlingSkip")
  <2>1. Agree("throttlingKeyGenerator")
    BY DEF TypeAt, Paths, CallOf, LoadedAs, ThrottlingCalls
  <2>2. Agree("throttlingHandler")
    BY DEF TypeAt, Paths, CallOf, LoadedAs, ThrottlingCalls
  <2>3. Agree("throttlingSkip")
    BY DEF TypeAt, Paths, CallOf, LoadedAs, ThrottlingCalls
  <2> QED
    BY <2>1, <2>2, <2>3
<1>4. Agree("circuitbreaker") /\ Agree("cors") /\ Agree("proxyRouter")
  <2>1. Agree("circuitbreaker")
    BY DEF TypeAt, Paths, CallOf, LoadedAs, RoutingCalls
  <2>2. Agree("cors")
    BY DEF TypeAt, Paths, CallOf, LoadedAs, RoutingCalls
  <2>3. Agree("proxyRouter")
    BY DEF TypeAt, Paths, CallOf, LoadedAs, RoutingCalls
  <2> QED
    BY <2>1, <2>2, <2>3
<1>5. Agree("serviceDiscovery") /\ Agree("serviceDiscoveryProvider")
  <2>1. Agree("serviceDiscovery")
    BY DEF TypeAt, Paths, CallOf, LoadedAs, DiscoveryCalls
  <2>2. Agree("serviceDiscoveryProvider")
    BY DEF TypeAt, Paths, CallOf, LoadedAs, DiscoveryCalls
  <2> QED
    BY <2>1, <2>2
<1>6. Agree("errorHandler") /\ Agree("requestLogger")
  <2>1. Agree("errorHandler")
    BY DEF TypeAt, Paths, CallOf, LoadedAs, ReportingCalls
  <2>2. Agree("requestLogger")
    BY DEF TypeAt, Paths, CallOf, LoadedAs, ReportingCalls
  <2> QED
    BY <2>1, <2>2
<1> HIDE DEF Agree
<1>7. \A kind \in Kinds : Agree(kind)
  BY <1>1, <1>2, <1>3, <1>4, <1>5, <1>6, ParsersAreKinds
<1> QED
  BY <1>7 DEF Agree

\* No two kinds are loaded as the same type, and a package holds every type.
LEMMA TypesDiffer ==
    /\ \A j, k \in Kinds : LoadedAs[j] = LoadedAs[k] => j = k
    /\ \A k \in Kinds : LoadedAs[k] \in Exported
<1> SUFFICES /\ \A j, k \in DOMAIN LoadedAs : LoadedAs[j] = LoadedAs[k] => j = k
             /\ \A k \in DOMAIN LoadedAs : LoadedAs[k] \in Exported
  BY ParsersAreKinds
     DEF LoadedAs, FilteringParsers, AuthenticationParsers, ThrottlingParsers, RoutingParsers,
         DiscoveryParsers, ReportingParsers
<1> QED
  BY DEF LoadedAs, Exported

\* A handler serves an option that is given.
LEMMA ChosenIsGiven ==
    ASSUME NEW given \in SUBSET Options, given # {}
    PROVE  Chosen("middleware", given) \in given
<1> DEFINE order == <<"list", "remove", "update", "add", "get">>
           first == {i \in 1..5 : order[i] \in given}
<1>1. Precedence["middleware"] = order /\ DOMAIN order = 1..5
  BY DEF Precedence
<1>2. \A x \in Options : \E i \in 1..5 : order[i] = x
  BY DEF Options
<1>3. \E i \in first : \A j \in first : i <= j
  <2> HIDE DEF order
  <2>1. \E i \in first : TRUE
    BY <1>2
  <2>2. CASE 1 \in first
    BY <2>2
  <2>3. CASE 1 \notin first /\ 2 \in first
    BY <2>3
  <2>4. CASE 1 \notin first /\ 2 \notin first /\ 3 \in first
    BY <2>4
  <2>5. CASE 1 \notin first /\ 2 \notin first /\ 3 \notin first /\ 4 \in first
    BY <2>5
  <2>6. CASE 1 \notin first /\ 2 \notin first /\ 3 \notin first /\ 4 \notin first
    BY <2>1, <2>6
  <2> QED
    BY <2>2, <2>3, <2>4, <2>5, <2>6
<1> DEFINE i == CHOOSE i \in first : \A j \in first : i <= j
<1>4. i \in first
  BY <1>3
<1>5. first # {}
  BY <1>3
<1>6. Chosen("middleware", given) = order[i]
  BY <1>1, <1>5 DEF Chosen
<1> QED
  BY <1>4, <1>6

\* The routes serve what a handler chose, under the type that the pipeline
\* loads, except the get that the route of another list takes.
LEMMA RoutesServe ==
    ASSUME NEW kind \in Kinds, NEW n \in Names, NEW given \in SUBSET Options, given # {}
    PROVE  LET q == MiddlewareRequest(kind, given, n)
               s == Served(q)
               option == Chosen("middleware", given)
           IN  /\ s.status = q.expects /\ s.op \in Options
               /\ s.op # "list" => s.op = option /\ s.type = LoadedAs[kind] /\ s.name = n
               /\ option = "list" => s.op = "list" /\ s.type = LoadedAs[kind]
               /\ s.op = "list" => option \in {"list", "get"}
               /\ option = "get" /\ <<kind, n>> # <<"serviceDiscovery", "provider">> => s.op = "get"
<1> DEFINE option == Chosen("middleware", given)
           c == CallOf(kind)
           q == MiddlewareRequest(kind, given, n)
<1>1. TypeAt(Paths[c]) = LoadedAs[kind] /\ (Paths[c] = "servicediscovery" <=> kind = "serviceDiscovery")
  BY TablesAgree
<1>2. option \in Options
  BY ChosenIsGiven DEF Options
<1>3. n # None
  OBVIOUS
<1> HIDE DEF option, c
<1>4. CASE option = "list"
  <2>1. q = ToSend("GET", c, None, 200)
    BY <1>4 DEF MiddlewareRequest, SdkList, option, c
  <2> QED
    BY <1>1, <1>4, <2>1 DEF ToSend, Served, IsList, Listed, RestList, ToServe, Options, option
<1>5. CASE option = "remove"
  <2>1. q = ToSend("DELETE", c, n, 204)
    BY <1>5 DEF MiddlewareRequest, SdkRemove, option, c
  <2> QED
    BY <1>1, <1>5, <2>1 DEF ToSend, Served, IsList, RestRemove, ToServe, Options, option
<1>6. CASE option = "update"
  <2>1. q = ToSend("PUT", c, n, 204)
    BY <1>6 DEF MiddlewareRequest, SdkUpdate, option, c
  <2> QED
    BY <1>1, <1>6, <2>1 DEF ToSend, Served, IsList, RestUpdate, ToServe, Options, option
<1>7. CASE option = "add"
  <2>1. q = ToSend("POST", c, n, 201)
    BY <1>7 DEF MiddlewareRequest, SdkAdd, option, c
  <2> QED
    BY <1>1, <1>7, <2>1 DEF ToSend, Served, IsList, RestAdd, ToServe, Options, option
<1>8. CASE option = "get"
  <2>1. q = ToSend("GET", c, n, 200)
    BY <1>8 DEF MiddlewareRequest, SdkGet, option, c
  <2>2. CASE IsList(q)
    <3>1. kind = "serviceDiscovery" /\ n = "provider" /\ Served(q) = RestList(Listed(q))
      BY <1>1, <1>3, <2>1, <2>2 DEF IsList, ToSend, Served
    <3> QED
      BY <1>8, <2>1, <3>1 DEF RestList, ToServe, ToSend, Options, option
  <2>3. CASE ~IsList(q)
    BY <1>1, <1>8, <2>1, <2>3 DEF ToSend, Served, RestGet, ToServe, Options, option
  <2> QED
    BY <2>2, <2>3
<1> QED
  BY <1>2, <1>4, <1>5, <1>6, <1>7, <1>8 DEF Options

-----------------------------------------------------------------------------
(* What every state is made of, and what a step may change.                *)

Stages == {"start", "look", "again", "reading", "write", "done", "refused", "failed", "invalid"}

\* The keys of the middlewares that the requests are about.
StoreKeys == {<<TypeOf(k), n>> : k \in scope, n \in Names}

AdminTypes ==
    /\ scope \in Areas \cup {{}} /\ asked \in [Requests -> Commands(scope)]
    /\ stage \in [Requests -> Stages]
    /\ DOMAIN left = Requests /\ DOMAIN held = Requests /\ DOMAIN answer = Requests
    /\ DOMAIN store \subseteq StoreKeys
    /\ user \in Users \cup {None} /\ gateway \in Writers \cup {None}
    /\ clock \in Nat /\ looked \in [Requests -> Nat] /\ reread \in [Requests -> Nat]
    /\ \A key \in DOMAIN changed : changed[key] \in 1..clock
    /\ \A r \in Requests : looked[r] <= clock /\ reread[r] <= clock
    /\ \A r \in Requests : left[r] \subseteq ToVisit(scope, asked[r])
    /\ \A r \in Requests : asked[r].what = "middleware" /\ stage[r] = "write" =>
            Service(r).op \in {"add", "update"}
    /\ \A r \in Requests : Runs(r, {"update"}) /\ stage[r] \in {"look", "again", "write"} =>
            held[r] \in Users
    /\ \A r \in Requests : Runs(r, {"password"}) /\ stage[r] = "write" => held[r] \in Users

\* What is stored is what was meant to be there.
StoreMeant ==
    \A k \in Kinds, n \in Names :
        /\ <<k, n>> \in DOMAIN meant <=> <<LoadedAs[k], n>> \in DOMAIN store
        /\ <<k, n>> \in DOMAIN meant => store[<<LoadedAs[k], n>>] = meant[<<k, n>>]

\* What a request found when it looked still holds, or was changed since.
Found(r) ==
    IF asked[r].what = "users"
    THEN stage[r] \in {"look", "again", "write"} =>
            ((user # None <=> Runs(r, {"add"})) => ChangedAt(UserKey) > looked[r])
    ELSE stage[r] = "write" =>
            ((Key(r) \in DOMAIN store <=> Service(r).op = "add") => ChangedAt(Key(r)) > looked[r])

\* So does what an update of the user has read.
Read(r) ==
    /\ Runs(r, {"update"}) /\ stage[r] \in {"look", "again", "write"} /\ user # None =>
        \/ ChangedAt(UserKey) > looked[r]
        \/ /\ "name" \notin asked[r].sets => held[r].name = user.name
           /\ "email" \notin asked[r].sets => held[r].email = user.email
    /\ Runs(r, {"update"}) /\ stage[r] = "write" /\ user # None =>
        \/ ChangedAt(UserKey) > reread[r]
        \/ held[r].password = user.password /\ held[r].hashes = user.hashes

\* An import has visited each middleware of its package, or is going to.
Visited(r) ==
    Imports(r) /\ stage[r] = "start" =>
        \A k \in scope : LET i == <<TypeOf(k), asked[r].name>> IN i \in left[r] \/ ChangedAt(i) > 0

\* An export has read, or will, each middleware that nobody has changed, and
\* what it is going to read is there, or was changed.
Collected(r) ==
    Exports(r) =>
        /\ \A i \in DOMAIN store : ChangedAt(i) = 0 =>
            /\ stage[r] = "start" => i[1] \in left[r] \/ i \in held[r]
            /\ stage[r] = "reading" => i \in held[r] \/ i \in DOMAIN answer[r]
        /\ stage[r] \in {"start", "reading"} =>
            /\ held[r] \subseteq StoreKeys
            /\ \A i \in held[r] : i \in DOMAIN store \/ ChangedAt(i) > 0

LEMMA AskedShape ==
    ASSUME AdminTypes, NEW r \in Requests
    PROVE  /\ scope \subseteq Kinds
           /\ asked[r].what \in {"middleware", "config", "gateway", "users", "login"}
           /\ asked[r].what = "middleware" =>
                /\ asked[r].kind \in scope /\ asked[r].kind \in Kinds /\ asked[r].name \in Names
                /\ asked[r].given \in SUBSET Options /\ asked[r].given # {}
           /\ asked[r].what = "config" => asked[r].name \in Names
           /\ asked[r].what = "users" => scope = {}
<1>1. scope \subseteq Kinds
  BY DEF AdminTypes, Kinds
<1>2. asked[r] \in Commands(scope)
  BY DEF AdminTypes
<1>3. CASE asked[r] \in UserCommands /\ scope = {}
  BY <1>1, <1>3 DEF UserCommands
<1>4. CASE asked[r] \in MiddlewareCommands(scope)
  <2>1. /\ asked[r].what = "middleware" /\ asked[r].kind \in scope /\ asked[r].name \in Names
        /\ asked[r].given \in (SUBSET Options) \ {{}}
    BY <1>4 DEF MiddlewareCommands, Options
  <2>2. asked[r].given \in SUBSET Options /\ asked[r].given # {}
    BY <2>1
  <2>3. asked[r].kind \in Kinds
    BY <1>1, <2>1
  <2> QED
    BY <1>1, <2>1, <2>2, <2>3
<1>5. CASE asked[r] \in PackageCommands
  BY <1>1, <1>5 DEF PackageCommands
<1> QED
  BY <1>2, <1>3, <1>4, <1>5 DEF Commands

\* What the service of a middleware is asked to do.
LEMMA ServiceShape ==
    ASSUME AdminTypes, NEW r \in Requests, asked[r].what = "middleware"
    PROVE  LET option == Chosen("middleware", asked[r].given) IN
           /\ Service(r).status = Request(r).expects
           /\ Service(r).op # "list" =>
                Service(r).op = option /\ Key(r) = <<LoadedAs[asked[r].kind], asked[r].name>>
           /\ option = "list" => Service(r).op = "list" /\ Service(r).type = LoadedAs[asked[r].kind]
           /\ Service(r).op = "list" => option \in {"list", "get"}
           /\ option = "get" /\ <<asked[r].kind, asked[r].name>> # <<"serviceDiscovery", "provider">> =>
                Service(r).op = "get"
BY AskedShape, RoutesServe DEF Service, Request, Key

LEMMA KeyIsKnown ==
    ASSUME AdminTypes, NEW r \in Requests, asked[r].what = "middleware", Service(r).op # "list"
    PROVE  Key(r) \in StoreKeys
BY AskedShape, ServiceShape DEF StoreKeys, TypeOf

LEMMA ChangedType ==
    ASSUME AdminTypes, NEW key
    PROVE  ChangedAt(key) \in Nat /\ ChangedAt(key) <= clock
BY DEF AdminTypes, ChangedAt

LEMMA ChangesKey ==
    ASSUME AdminTypes, NEW key, Changes(key)
    PROVE  /\ clock' = clock + 1 /\ ChangedAt(key)' = clock + 1
           /\ \A k : k # key => ChangedAt(k)' = ChangedAt(k)
           /\ \A k \in DOMAIN changed' : changed'[k] \in 1..clock'
<1>1. DOMAIN changed' = DOMAIN changed \cup {key}
  BY DEF Changes, With
<1>2. \A k \in DOMAIN changed' : changed'[k] = IF k = key THEN clock + 1 ELSE changed[k]
  BY DEF Changes, With
<1>3. clock' = clock + 1 /\ clock \in Nat /\ \A k \in DOMAIN changed : changed[k] \in 1..clock
  BY DEF Changes, AdminTypes
<1> QED
  BY <1>1, <1>2, <1>3 DEF ChangedAt

\* The keys that an operation of a service touches.
LEMMA WithKey ==
    ASSUME NEW f, NEW S, NEW v
    PROVE  /\ DOMAIN With(f, S, v) = DOMAIN f \cup S
           /\ \A k \in S : With(f, S, v)[k] = v
           /\ \A k \in DOMAIN f \ S : With(f, S, v)[k] = f[k]
BY DEF With

LEMMA WithoutKey ==
    ASSUME NEW f, NEW key
    PROVE  /\ DOMAIN Without(f, key) = DOMAIN f \ {key}
           /\ \A k \in DOMAIN f \ {key} : Without(f, key)[k] = f[k]
BY DEF Without

\* A step of one request leaves the others where they are.
LEMMA Others ==
    ASSUME AdminTypes, NEW r \in Requests, Step(r), NEW q \in Requests \ {r}
    PROVE  /\ stage'[q] = stage[q] /\ left'[q] = left[q] /\ held'[q] = held[q]
           /\ answer'[q] = answer[q] /\ looked'[q] = looked[q] /\ reread'[q] = reread[q]
<1> USE DEF AdminTypes, Goes, Looks
<1>1. CASE Invalid(r) \/ ListMiddlewares(r) \/ GetMiddleware(r)
  BY <1>1 DEF Invalid, ListMiddlewares, GetMiddleware, Reports
<1>2. CASE RemoveMiddleware(r) \/ Exists(r) \/ SaveMiddleware(r)
  BY <1>2 DEF RemoveMiddleware, Exists, SaveMiddleware, Reports
<1>3. CASE SaveGateway(r) \/ RemoveGateway(r) \/ GetGateway(r)
  BY <1>3 DEF SaveGateway, RemoveGateway, GetGateway
<1>4. CASE ImportMiddleware(r) \/ ImportFails(r) \/ ImportGateway(r)
  BY <1>4 DEF ImportMiddleware, ImportFails, ImportGateway
<1>5. CASE ExportList(r)
  BY <1>5 DEF ExportList
<1>6. CASE ExportRead(r)
  BY <1>6 DEF ExportRead
<1>7. CASE ReadUser(r) \/ LookForUser(r)
  BY <1>7 DEF ReadUser, LookForUser
<1>8. CASE ReadAgain(r) \/ WriteUser(r) \/ RemoveUser(r)
  BY <1>8 DEF ReadAgain, WriteUser, RemoveUser
<1>9. CASE GetUser(r) \/ Login(r)
  BY <1>9 DEF GetUser, Login
<1> QED
  BY <1>1, <1>2, <1>3, <1>4, <1>5, <1>6, <1>7, <1>8, <1>9 DEF Step

\* Whatever a step changes in Redis has its time.
LEMMA Frame ==
    ASSUME AdminTypes, NEW r \in Requests, Step(r)
    PROVE  /\ UNCHANGED <<scope, asked>>
           /\ clock' \in Nat /\ clock <= clock'
           /\ \A key \in DOMAIN changed' : changed'[key] \in 1..clock'
           /\ \A key : ChangedAt(key)' = ChangedAt(key) \/ ChangedAt(key)' = clock + 1
           /\ \A key : ~(key \in DOMAIN store' <=> key \in DOMAIN store) => ChangedAt(key)' = clock + 1
           /\ user' # user => ChangedAt(UserKey)' = clock + 1
<1> USE DEF Goes, Looks
<1>0. clock \in Nat /\ \A key \in DOMAIN changed : changed[key] \in 1..clock
  BY DEF AdminTypes
<1>1. CASE UNCHANGED <<scope, asked, clock, changed, store, user>>
  BY <1>0, <1>1 DEF ChangedAt
<1>2. CASE RemoveMiddleware(r)
  <2>1. UNCHANGED <<scope, asked, user>> /\ Changes(Key(r))
    BY <1>2 DEF RemoveMiddleware
  <2>2. \A key : key # Key(r) => (key \in DOMAIN store' <=> key \in DOMAIN store)
    BY <1>2, WithoutKey DEF RemoveMiddleware
  <2> QED
    BY <1>0, <2>1, <2>2, ChangesKey
<1>3. CASE SaveMiddleware(r)
  <2>1. UNCHANGED <<scope, asked, user>> /\ Changes(Key(r))
    BY <1>3 DEF SaveMiddleware
  <2>2. \A key : key # Key(r) => (key \in DOMAIN store' <=> key \in DOMAIN store)
    <3>1. store' = With(store, {Key(r)}, r)
      BY <1>3 DEF SaveMiddleware
    <3>2. DOMAIN store' = DOMAIN store \cup {Key(r)}
      BY <3>1, WithKey
    <3> QED
      BY <3>2
  <2> QED
    BY <1>0, <2>1, <2>2, ChangesKey
<1>4. CASE SaveGateway(r) \/ RemoveGateway(r) \/ ImportGateway(r)
  <2>1. UNCHANGED <<scope, asked, user, store>> /\ Changes(GatewayKey)
    BY <1>4 DEF SaveGateway, RemoveGateway, ImportGateway
  <2> QED
    BY <1>0, <2>1, ChangesKey
<1>5. CASE ImportMiddleware(r)
  <2>1. UNCHANGED <<scope, asked, user>>
    BY <1>5 DEF ImportMiddleware
  <2>2. PICK i \in left[r] : store' = With(store, {i}, r) /\ Changes(i)
    BY <1>5 DEF ImportMiddleware
  <2>3. \A key : key # i => (key \in DOMAIN store' <=> key \in DOMAIN store)
    <3>1. DOMAIN store' = DOMAIN store \cup {i}
      BY <2>2, WithKey
    <3> QED
      BY <3>1
  <2> QED
    BY <1>0, <2>1, <2>2, <2>3, ChangesKey
<1>6. CASE WriteUser(r) \/ (RemoveUser(r) /\ user # None)
  <2>1. UNCHANGED <<scope, asked, store>> /\ Changes(UserKey)
    BY <1>6 DEF WriteUser, RemoveUser
  <2> QED
    BY <1>0, <2>1, ChangesKey
<1>7. CASE RemoveUser(r) /\ user = None
  <2>1. UNCHANGED <<scope, asked, clock, changed, store, user>>
    BY <1>7 DEF RemoveUser
  <2> QED
    BY <1>1, <2>1
<1>8. CASE \/ Invalid(r) \/ ListMiddlewares(r) \/ GetMiddleware(r) \/ Exists(r) \/ GetGateway(r)
           \/ ImportFails(r) \/ ExportList(r) \/ ExportRead(r)
           \/ ReadUser(r) \/ LookForUser(r) \/ ReadAgain(r) \/ GetUser(r) \/ Login(r)
  <2>1. UNCHANGED <<scope, asked, clock, changed, store, user>>
    BY <1>8 DEF Invalid, ListMiddlewares, GetMiddleware, Exists, GetGateway, ImportFails,
                ExportList, ExportRead, ReadUser, LookForUser, ReadAgain, GetUser, Login
  <2> QED
    BY <1>1, <2>1
<1> QED
  BY <1>2, <1>3, <1>4, <1>5, <1>6, <1>7, <1>8 DEF Step

LEMMA TypesInit == Init => AdminTypes
<1> SUFFICES ASSUME Init PROVE AdminTypes
  OBVIOUS
<1>1. /\ scope \in Areas \cup {{}} /\ asked \in [Requests -> Commands(scope)]
      /\ stage \in [Requests -> Stages] /\ \A r \in Requests : stage[r] = "start"
  BY DEF Init, Stages
<1>2. /\ DOMAIN left = Requests /\ DOMAIN held = Requests /\ DOMAIN answer = Requests
      /\ \A r \in Requests : left[r] \subseteq ToVisit(scope, asked[r])
  BY DEF Init
<1>3. /\ clock = 0 /\ looked = [r \in Requests |-> 0] /\ reread = looked /\ changed = <<>>
      /\ DOMAIN changed = {}
  BY DEF Init
<1>4. PICK there \in BOOLEAN :
        /\ store = [i \in IF there THEN {TypeOf(k) : k \in scope} \X Names ELSE {} |-> Earlier]
        /\ user = IF there /\ scope = {} THEN NewUser(Earlier) ELSE None
        /\ gateway = IF there THEN Earlier ELSE None
  BY DEF Init
<1>5. DOMAIN store \subseteq StoreKeys
  BY <1>4 DEF StoreKeys
<1>6. user \in Users \cup {None}
  BY <1>4 DEF NewUser, Users, Writers
<1>7. gateway \in Writers \cup {None}
  BY <1>4 DEF Writers
<1> QED
  BY <1>1, <1>2, <1>3, <1>5, <1>6, <1>7 DEF AdminTypes, Runs

\* What requests and the store are made of, of a step.
LEMMA StageType ==
    ASSUME AdminTypes, NEW r \in Requests, Step(r)
    PROVE  /\ stage' \in [Requests -> Stages]
           /\ DOMAIN left' = Requests /\ DOMAIN held' = Requests /\ DOMAIN answer' = Requests
           /\ left'[r] \subseteq left[r]
           /\ looked' \in [Requests -> Nat] /\ looked'[r] \in {looked[r], clock}
           /\ reread' \in [Requests -> Nat] /\ reread'[r] \in {reread[r], clock}
<1> USE DEF AdminTypes, Goes, Looks, Stages
<1>1. CASE Invalid(r) \/ ListMiddlewares(r) \/ GetMiddleware(r)
  BY <1>1 DEF Invalid, ListMiddlewares, GetMiddleware, Reports
<1>2. CASE RemoveMiddleware(r) \/ Exists(r) \/ SaveMiddleware(r)
  BY <1>2 DEF RemoveMiddleware, Exists, SaveMiddleware, Reports
<1>3. CASE SaveGateway(r) \/ RemoveGateway(r) \/ GetGateway(r) \/ ImportGateway(r)
  BY <1>3 DEF SaveGateway, RemoveGateway, GetGateway, ImportGateway
<1>4. CASE ImportMiddleware(r) \/ ImportFails(r)
  <2>1. PICK i \in left[r] : left' = [left EXCEPT ![r] = @ \ {i}]
    BY <1>4 DEF ImportMiddleware, ImportFails
  <2>2. stage' = stage \/ stage' = [stage EXCEPT ![r] = "failed"]
    BY <1>4 DEF ImportMiddleware, ImportFails
  <2> QED
    BY <1>4, <2>1, <2>2 DEF ImportMiddleware, ImportFails
<1>5. CASE ExportList(r)
  BY <1>5 DEF ExportList
<1>6. CASE ExportRead(r)
  BY <1>6 DEF ExportRead
<1>7. CASE ReadUser(r) \/ LookForUser(r)
  BY <1>7 DEF ReadUser, LookForUser
<1>8. CASE ReadAgain(r) \/ WriteUser(r) \/ RemoveUser(r)
  BY <1>8 DEF ReadAgain, WriteUser, RemoveUser
<1>9. CASE GetUser(r) \/ Login(r)
  BY <1>9 DEF GetUser, Login
<1> QED
  BY <1>1, <1>2, <1>3, <1>4, <1>5, <1>6, <1>7, <1>8, <1>9 DEF Step

LEMMA StoreType ==
    ASSUME AdminTypes, NEW r \in Requests, Step(r)
    PROVE  DOMAIN store' \subseteq StoreKeys /\ gateway' \in Writers \cup {None}
<1>0. DOMAIN store \subseteq StoreKeys /\ gateway \in Writers \cup {None} /\ r \in Writers
  BY DEF AdminTypes, Writers
<1>1. CASE RemoveMiddleware(r)
  BY <1>0, <1>1, WithoutKey DEF RemoveMiddleware
<1>2. CASE SaveMiddleware(r)
  <2>1. store' = With(store, {Key(r)}, r) /\ gateway' = gateway
    BY <1>2 DEF SaveMiddleware
  <2>2. DOMAIN store' = DOMAIN store \cup {Key(r)}
    BY <2>1, WithKey
  <2>3. Key(r) \in StoreKeys
    BY <1>2, KeyIsKnown DEF SaveMiddleware, AdminTypes
  <2> QED
    BY <1>0, <2>1, <2>2, <2>3
<1>3. CASE ImportMiddleware(r)
  <2>1. PICK i \in left[r] : store' = With(store, {i}, r)
    BY <1>3 DEF ImportMiddleware
  <2>2. DOMAIN store' = DOMAIN store \cup {i}
    BY <2>1, WithKey
  <2>3. left[r] \subseteq ToVisit(scope, asked[r])
    BY DEF AdminTypes
  <2>4. i \in {<<TypeOf(k), asked[r].name>> : k \in scope} /\ asked[r].name \in Names
    BY <1>3, <2>1, <2>3, AskedShape DEF ImportMiddleware, Imports, ToVisit
  <2> QED
    BY <1>0, <1>3, <2>2, <2>4 DEF StoreKeys, ImportMiddleware
<1>4. CASE SaveGateway(r) \/ RemoveGateway(r) \/ ImportGateway(r)
  BY <1>0, <1>4 DEF SaveGateway, RemoveGateway, ImportGateway
<1>5. CASE \/ Invalid(r) \/ ListMiddlewares(r) \/ GetMiddleware(r) \/ Exists(r) \/ GetGateway(r)
           \/ ImportFails(r) \/ ExportList(r) \/ ExportRead(r)
           \/ ReadUser(r) \/ LookForUser(r) \/ ReadAgain(r) \/ WriteUser(r)
           \/ RemoveUser(r) \/ GetUser(r) \/ Login(r)
  BY <1>0, <1>5 DEF Invalid, ListMiddlewares, GetMiddleware, Exists, GetGateway, ImportFails,
                    ExportList, ExportRead, ReadUser, LookForUser, ReadAgain, WriteUser,
                    RemoveUser, GetUser, Login
<1> QED
  BY <1>1, <1>2, <1>3, <1>4, <1>5 DEF Step

\* Only the steps of a user's command change the user.
LEMMA UserSteps ==
    ASSUME AdminTypes, NEW r \in Requests, Step(r)
    PROVE  /\ asked[r].what = "users" =>
                \/ ReadUser(r) \/ LookForUser(r) \/ ReadAgain(r) \/ WriteUser(r)
                \/ RemoveUser(r) \/ GetUser(r)
           /\ asked[r].what # "users" => user' = user
<1>1. CASE \/ Invalid(r) \/ ListMiddlewares(r) \/ GetMiddleware(r) \/ RemoveMiddleware(r)
           \/ Exists(r) \/ SaveMiddleware(r)
  BY <1>1 DEF Invalid, ListMiddlewares, GetMiddleware, RemoveMiddleware, Exists, SaveMiddleware,
              Serves, Chooses, Starts
<1>2. CASE SaveGateway(r) \/ RemoveGateway(r) \/ GetGateway(r)
  BY <1>2 DEF SaveGateway, RemoveGateway, GetGateway, Chooses, Starts
<1>3. CASE \/ ImportMiddleware(r) \/ ImportFails(r) \/ ImportGateway(r)
           \/ ExportList(r) \/ ExportRead(r)
  BY <1>3 DEF ImportMiddleware, ImportFails, ImportGateway, ExportList, ExportRead, Imports, Exports
<1>4. CASE Login(r)
  BY <1>4 DEF Login
<1>5. CASE \/ ReadUser(r) \/ LookForUser(r) \/ ReadAgain(r) \/ WriteUser(r)
           \/ RemoveUser(r) \/ GetUser(r)
  BY <1>5 DEF ReadUser, LookForUser, ReadAgain, WriteUser, RemoveUser, GetUser, Runs
<1> QED
  BY <1>1, <1>2, <1>3, <1>4, <1>5 DEF Step

LEMMA UserType ==
    ASSUME AdminTypes, NEW r \in Requests, Step(r)
    PROVE  /\ user' \in Users \cup {None}
           /\ Runs(r, {"update"}) /\ stage'[r] \in {"look", "again", "write"} => held'[r] \in Users
           /\ Runs(r, {"password"}) /\ stage'[r] = "write" => held'[r] \in Users
<1>0. /\ user \in Users \cup {None} /\ r \in Writers /\ stage \in [Requests -> Stages]
      /\ DOMAIN held = Requests
      /\ Runs(r, {"update"}) /\ stage[r] \in {"look", "again", "write"} => held[r] \in Users
      /\ Runs(r, {"password"}) /\ stage[r] = "write" => held[r] \in Users
  BY DEF AdminTypes, Writers
<1>1. CASE ReadUser(r)
  <2>1. /\ user' = user /\ Runs(r, {"update"}) /\ ~Runs(r, {"password"})
        /\ stage'[r] = IF user = None THEN "refused" ELSE "look"
    BY <1>0, <1>1 DEF ReadUser, Runs, Goes
  <2>2. CASE user = None
    BY <1>0, <2>1, <2>2
  <2>3. CASE user # None
    <3>1. user \in Users
      BY <1>0, <2>3
    <3>2. held'[r] = [user EXCEPT !.name  = IF "name" \in asked[r].sets THEN r ELSE @,
                                  !.email = IF "email" \in asked[r].sets THEN r ELSE @]
      BY <1>0, <1>1, <2>3 DEF ReadUser
    <3>3. held'[r] \in Users
      BY <1>0, <3>1, <3>2 DEF Users
    <3> QED
      BY <1>0, <2>1, <3>3
  <2> QED
    BY <2>2, <2>3
<1>2. CASE LookForUser(r)
  <2>1. user' = user /\ held' = held
    BY <1>2 DEF LookForUser
  <2>2. Runs(r, {"update"}) => stage[r] = "look"
    BY <1>2 DEF LookForUser, Runs
  <2>3. Runs(r, {"password"}) => stage'[r] # "write"
    BY <1>0, <1>2 DEF LookForUser, Runs, Goes
  <2> QED
    BY <1>0, <2>1, <2>2, <2>3
<1>3. CASE ReadAgain(r)
  <2>1. /\ user' = user /\ stage[r] = "again"
        /\ stage'[r] = IF user = None THEN "failed" ELSE "write"
    BY <1>0, <1>3 DEF ReadAgain, Goes
  <2>2. CASE user = None
    BY <1>0, <2>1, <2>2
  <2>3. CASE user # None /\ Runs(r, {"update"})
    <3>1. held'[r] = [held[r] EXCEPT !.password = user.password, !.hashes = user.hashes]
      BY <1>0, <1>3, <2>3 DEF ReadAgain
    <3>2. held'[r] \in Users
      BY <1>0, <2>1, <2>3, <3>1 DEF Users
    <3> QED
      BY <1>0, <2>1, <3>2
  <2>4. CASE user # None /\ ~Runs(r, {"update"})
    <3>1. held'[r] = [user EXCEPT !.hashes = @ + 1]
      BY <1>0, <1>3, <2>4 DEF ReadAgain
    <3>2. held'[r] \in Users
      BY <1>0, <2>4, <3>1 DEF Users
    <3> QED
      BY <1>0, <2>1, <3>2
  <2> QED
    BY <2>2, <2>3, <2>4
<1>4. CASE WriteUser(r)
  <2>1. stage[r] = "write" /\ stage'[r] = "done" /\ Runs(r, {"add", "update", "password"})
    BY <1>0, <1>4 DEF WriteUser, Goes
  <2>2. user' = IF Runs(r, {"add"}) THEN NewUser(r) ELSE held[r]
    BY <1>4 DEF WriteUser
  <2>3. NewUser(r) \in Users
    BY <1>0 DEF NewUser, Users
  <2>4. ~Runs(r, {"add"}) => Runs(r, {"update"}) \/ Runs(r, {"password"})
    BY <2>1 DEF Runs
  <2> QED
    BY <1>0, <2>1, <2>2, <2>3, <2>4
<1>5. CASE RemoveUser(r) \/ GetUser(r)
  <2>1. user' \in {user, None} /\ stage'[r] \in {"refused", "done"}
    BY <1>0, <1>5 DEF RemoveUser, GetUser, Goes
  <2> QED
    BY <1>0, <2>1
<1>6. CASE asked[r].what # "users"
  BY <1>0, <1>6, UserSteps DEF Runs
<1> QED
  BY <1>1, <1>2, <1>3, <1>4, <1>5, <1>6, UserSteps

\* A middleware is written only by an add or an update, when it has looked.
LEMMA WriteType ==
    ASSUME AdminTypes, NEW r \in Requests, Step(r), asked[r].what # "users", stage'[r] = "write"
    PROVE  Exists(r) /\ asked[r].what = "middleware" /\ Service(r).op \in {"add", "update"}
<1> USE DEF AdminTypes, Goes, Stages
<1>1. CASE ListMiddlewares(r) \/ GetMiddleware(r) \/ RemoveMiddleware(r) \/ SaveMiddleware(r)
  BY <1>1 DEF ListMiddlewares, GetMiddleware, RemoveMiddleware, SaveMiddleware, Reports
<1>2. CASE Exists(r)
  BY <1>2 DEF Exists, Serves
<1>3. CASE Invalid(r) \/ SaveGateway(r) \/ RemoveGateway(r) \/ GetGateway(r)
  BY <1>3 DEF Invalid, SaveGateway, RemoveGateway, GetGateway
<1>4. CASE \/ ImportMiddleware(r) \/ ImportFails(r) \/ ImportGateway(r)
           \/ ExportList(r) \/ ExportRead(r)
  <2>1. CASE ImportMiddleware(r)
    BY <2>1 DEF ImportMiddleware
  <2>2. CASE ImportFails(r) \/ ImportGateway(r)
    BY <2>2 DEF ImportFails, ImportGateway
  <2>3. CASE ExportList(r)
    BY <2>3 DEF ExportList
  <2>4. CASE ExportRead(r)
    BY <2>4 DEF ExportRead
  <2> QED
    BY <1>4, <2>1, <2>2, <2>3, <2>4
<1>5. CASE \/ ReadUser(r) \/ LookForUser(r) \/ ReadAgain(r) \/ WriteUser(r)
           \/ RemoveUser(r) \/ GetUser(r) \/ Login(r)
  BY <1>5 DEF ReadUser, LookForUser, ReadAgain, WriteUser, RemoveUser, GetUser, Login, Runs
<1> QED
  BY <1>1, <1>2, <1>3, <1>4, <1>5 DEF Step

LEMMA TypesStep == AdminTypes /\ [Next]_vars => AdminTypes'
<1> SUFFICES ASSUME AdminTypes, [Next]_vars PROVE AdminTypes'
  OBVIOUS
<1>1. ASSUME NEW r \in Requests, Step(r) PROVE AdminTypes'
  <2>0. UNCHANGED <<scope, asked>>
    BY <1>1, Frame
  <2>1. scope' \in Areas \cup {{}} /\ asked' \in [Requests -> Commands(scope')]
    BY <2>0 DEF AdminTypes
  <2>2. /\ stage' \in [Requests -> Stages]
        /\ DOMAIN left' = Requests /\ DOMAIN held' = Requests /\ DOMAIN answer' = Requests
    BY <1>1, StageType
  <2>3. StoreKeys' = StoreKeys
    BY <2>0 DEF StoreKeys
  <2>4. DOMAIN store' \subseteq StoreKeys' /\ gateway' \in Writers \cup {None}
    BY <1>1, <2>3, StoreType
  <2>5. /\ clock' \in Nat /\ looked' \in [Requests -> Nat] /\ reread' \in [Requests -> Nat]
        /\ \A key \in DOMAIN changed' : changed'[key] \in 1..clock'
    BY <1>1, Frame, StageType
  <2>6. \A q \in Requests : looked'[q] <= clock' /\ reread'[q] <= clock'
    <3>1. clock \in Nat /\ clock' \in Nat /\ clock <= clock'
      BY <1>1, Frame DEF AdminTypes
    <3>2. \A q \in Requests : looked'[q] \in {looked[q], clock} /\ reread'[q] \in {reread[q], clock}
      BY <1>1, Others, StageType
    <3> QED
      BY <3>1, <3>2 DEF AdminTypes
  <2>7. \A q \in Requests : left'[q] \subseteq ToVisit(scope', asked'[q])
    <3>1. \A q \in Requests : left'[q] \subseteq left[q]
      BY <1>1, Others, StageType
    <3> QED
      BY <2>0, <3>1 DEF AdminTypes
  <2>8. \A q \in Requests : \A commands : Runs(q, commands)' <=> Runs(q, commands)
    BY <2>0 DEF Runs
  <2>9. \A q \in Requests : Service(q)' = Service(q)
    BY <2>0 DEF Service, Request
  <2>10. user' \in Users \cup {None}
    BY <1>1, UserType
  <2>11. \A q \in Requests : asked'[q].what = "middleware" /\ stage'[q] = "write" =>
             Service(q)'.op \in {"add", "update"}
    <3>1. \A q \in Requests \ {r} : stage'[q] = stage[q]
      BY <1>1, Others
    <3>2. asked[r].what = "middleware" /\ stage'[r] = "write" => Service(r).op \in {"add", "update"}
      BY <1>1, WriteType
    <3> QED
      BY <2>0, <2>9, <3>1, <3>2 DEF AdminTypes
  <2>12. \A q \in Requests :
            /\ Runs(q, {"update"}) /\ stage'[q] \in {"look", "again", "write"} => held'[q] \in Users
            /\ Runs(q, {"password"}) /\ stage'[q] = "write" => held'[q] \in Users
    <3>1. \A q \in Requests \ {r} : stage'[q] = stage[q] /\ held'[q] = held[q]
      BY <1>1, Others
    <3> QED
      BY <1>1, <3>1, UserType DEF AdminTypes
  <2> QED
    BY <2>1, <2>2, <2>4, <2>5, <2>6, <2>7, <2>8, <2>10, <2>11, <2>12 DEF AdminTypes
<1>2. CASE UNCHANGED vars
  BY <1>2 DEF vars, AdminTypes, StoreKeys, Runs, Service, Request
<1> QED
  BY <1>1, <1>2 DEF Next

-----------------------------------------------------------------------------
(* What the pipeline loads is what was meant.                              *)

LEMMA KeysMatch ==
    \A j, k \in Kinds : \A m, n : <<LoadedAs[j], m>> = <<LoadedAs[k], n>> <=> <<j, m>> = <<k, n>>
BY TypesDiffer

LEMMA WrittenAsMeant ==
    ASSUME StoreMeant, NEW j \in Kinds, NEW m \in Names, NEW v,
           store' = With(store, {<<LoadedAs[j], m>>}, v), meant' = With(meant, {<<j, m>>}, v)
    PROVE  StoreMeant'
<1> SUFFICES ASSUME NEW k \in Kinds, NEW n \in Names
             PROVE  /\ <<k, n>> \in DOMAIN meant' <=> <<LoadedAs[k], n>> \in DOMAIN store'
                    /\ <<k, n>> \in DOMAIN meant' => store'[<<LoadedAs[k], n>>] = meant'[<<k, n>>]
  BY DEF StoreMeant
<1>1. /\ DOMAIN store' = DOMAIN store \cup {<<LoadedAs[j], m>>}
      /\ store'[<<LoadedAs[j], m>>] = v
      /\ \A i \in DOMAIN store \ {<<LoadedAs[j], m>>} : store'[i] = store[i]
  BY DEF With
<1>2. /\ DOMAIN meant' = DOMAIN meant \cup {<<j, m>>}
      /\ meant'[<<j, m>>] = v
      /\ \A i \in DOMAIN meant \ {<<j, m>>} : meant'[i] = meant[i]
  BY DEF With
<1>3. CASE <<k, n>> = <<j, m>>
  BY <1>1, <1>2, <1>3
<1>4. CASE <<k, n>> # <<j, m>>
  <2>1. <<LoadedAs[k], n>> # <<LoadedAs[j], m>>
    BY <1>4, KeysMatch
  <2> QED
    BY <1>1, <1>2, <1>4, <2>1 DEF StoreMeant
<1> QED
  BY <1>3, <1>4

LEMMA RemovedAsMeant ==
    ASSUME StoreMeant, NEW j \in Kinds, NEW m \in Names,
           store' = Without(store, <<LoadedAs[j], m>>), meant' = Without(meant, <<j, m>>)
    PROVE  StoreMeant'
<1> SUFFICES ASSUME NEW k \in Kinds, NEW n \in Names
             PROVE  /\ <<k, n>> \in DOMAIN meant' <=> <<LoadedAs[k], n>> \in DOMAIN store'
                    /\ <<k, n>> \in DOMAIN meant' => store'[<<LoadedAs[k], n>>] = meant'[<<k, n>>]
  BY DEF StoreMeant
<1>1. /\ DOMAIN store' = DOMAIN store \ {<<LoadedAs[j], m>>}
      /\ \A i \in DOMAIN store \ {<<LoadedAs[j], m>>} : store'[i] = store[i]
  BY WithoutKey
<1>2. /\ DOMAIN meant' = DOMAIN meant \ {<<j, m>>}
      /\ \A i \in DOMAIN meant \ {<<j, m>>} : meant'[i] = meant[i]
  BY WithoutKey
<1>3. <<LoadedAs[k], n>> = <<LoadedAs[j], m>> <=> <<k, n>> = <<j, m>>
  BY KeysMatch
<1> QED
  BY <1>1, <1>2, <1>3 DEF StoreMeant

LEMMA MeantInit == Init => StoreMeant
<1> SUFFICES ASSUME Init, NEW k \in Kinds, NEW n \in Names
             PROVE  /\ <<k, n>> \in DOMAIN meant <=> <<LoadedAs[k], n>> \in DOMAIN store
                    /\ <<k, n>> \in DOMAIN meant => store[<<LoadedAs[k], n>>] = meant[<<k, n>>]
  BY DEF StoreMeant
<1>1. PICK there \in BOOLEAN :
        /\ store = [i \in IF there THEN {TypeOf(j) : j \in scope} \X Names ELSE {} |-> Earlier]
        /\ meant = [i \in IF there THEN scope \X Names ELSE {} |-> Earlier]
  BY DEF Init
<1>2. scope \subseteq Kinds
  BY DEF Init, Kinds
<1>3. LoadedAs[k] \in {TypeOf(j) : j \in scope} <=> k \in scope
  BY <1>2, TypesDiffer DEF TypeOf
<1>4. CASE there
  <2>1. /\ DOMAIN store = {TypeOf(j) : j \in scope} \X Names /\ DOMAIN meant = scope \X Names
        /\ \A i \in DOMAIN store : store[i] = Earlier
        /\ \A i \in DOMAIN meant : meant[i] = Earlier
    BY <1>1, <1>4
  <2> QED
    BY <1>3, <2>1
<1>5. CASE ~there
  BY <1>1, <1>5
<1> QED
  BY <1>4, <1>5

LEMMA MeantStep == AdminTypes /\ StoreMeant /\ [Next]_vars => StoreMeant'
<1> SUFFICES ASSUME AdminTypes, StoreMeant, [Next]_vars PROVE StoreMeant'
  OBVIOUS
<1>0. CASE UNCHANGED <<store, meant>>
  BY <1>0 DEF StoreMeant
<1>1. ASSUME NEW r \in Requests, RemoveMiddleware(r) PROVE StoreMeant'
  <2>1. asked[r].what = "middleware" /\ Service(r).op = "remove"
    BY <1>1 DEF RemoveMiddleware, Serves
  <2>2. Key(r) = <<LoadedAs[asked[r].kind], asked[r].name>>
    BY <2>1, ServiceShape
  <2>3. asked[r].kind \in Kinds /\ asked[r].name \in Names
    BY <2>1, AskedShape
  <2> QED
    BY <1>1, <2>2, <2>3, RemovedAsMeant DEF RemoveMiddleware
<1>2. ASSUME NEW r \in Requests, SaveMiddleware(r) PROVE StoreMeant'
  <2>1. asked[r].what = "middleware" /\ Service(r).op \in {"add", "update"}
    BY <1>2 DEF SaveMiddleware, AdminTypes
  <2>2. Key(r) = <<LoadedAs[asked[r].kind], asked[r].name>>
    BY <2>1, ServiceShape
  <2>3. asked[r].kind \in Kinds /\ asked[r].name \in Names
    BY <2>1, AskedShape
  <2> QED
    BY <1>2, <2>2, <2>3, WrittenAsMeant DEF SaveMiddleware
<1>3. ASSUME NEW r \in Requests, ImportMiddleware(r) PROVE StoreMeant'
  <2>1. PICK i \in left[r] :
            /\ store' = With(store, {i}, r)
            /\ meant' = With(meant, {<<k, i[2]>> : k \in {k \in scope : TypeOf(k) = i[1]}}, r)
    BY <1>3 DEF ImportMiddleware
  <2>2. asked[r].what = "config" /\ asked[r].name \in Names /\ scope \subseteq Kinds
    BY <1>3, AskedShape DEF ImportMiddleware, Imports
  <2>3. PICK j \in scope : i = <<TypeOf(j), asked[r].name>>
    BY <1>3, <2>1, <2>2 DEF ImportMiddleware, Imports, ToVisit, AdminTypes
  <2>4. {k \in scope : TypeOf(k) = i[1]} = {j}
    BY <2>2, <2>3, TypesDiffer DEF TypeOf
  <2>5. {<<k, i[2]>> : k \in {k \in scope : TypeOf(k) = i[1]}} = {<<j, asked[r].name>>}
    BY <2>3, <2>4
  <2> QED
    BY <2>1, <2>2, <2>3, <2>5, WrittenAsMeant DEF TypeOf
<1>4. ASSUME NEW r \in Requests, Step(r),
             ~RemoveMiddleware(r), ~SaveMiddleware(r), ~ImportMiddleware(r)
      PROVE  UNCHANGED <<store, meant>>
  BY <1>4 DEF Step, Invalid, ListMiddlewares, GetMiddleware, Exists, SaveGateway, RemoveGateway,
              GetGateway, ImportFails, ImportGateway, ExportList, ExportRead, ReadUser, LookForUser,
              ReadAgain, WriteUser, RemoveUser, GetUser, Login
<1>5. CASE UNCHANGED vars
  BY <1>0, <1>5 DEF vars
<1> QED
  BY <1>0, <1>1, <1>2, <1>3, <1>4, <1>5 DEF Next

\* The five tables agree: whatever administrators add, update, remove or import
\* at the same time, the pipeline finds under the types it loads what the last
\* command that was carried out meant to be there (cli-tool.ts, sdk-middleware.ts,
\* admin/api/middleware.ts).
THEOREM CommandsReachThePipeline == Spec => []PipelineLoadsWhatWasMeant
<1>1. StoreMeant => PipelineLoadsWhatWasMeant
  BY DEF StoreMeant, PipelineLoadsWhatWasMeant
<1> QED
  BY <1>1, TypesInit, TypesStep, MeantInit, MeantStep, PTL DEF Spec

-----------------------------------------------------------------------------
(* What the console answers.                                               *)

\* The steps of a command about middlewares.
LEMMA MiddlewareSteps ==
    ASSUME NEW r \in Requests, Step(r), asked[r].what = "middleware"
    PROVE  \/ ListMiddlewares(r) \/ GetMiddleware(r) \/ RemoveMiddleware(r)
           \/ Exists(r) \/ SaveMiddleware(r)
<1>1. ~(Invalid(r) \/ SaveGateway(r) \/ RemoveGateway(r) \/ GetGateway(r))
  BY DEF Invalid, SaveGateway, RemoveGateway, GetGateway, Chooses, Starts
<1>2. ~(\/ ImportMiddleware(r) \/ ImportFails(r) \/ ImportGateway(r)
        \/ ExportList(r) \/ ExportRead(r))
  BY DEF ImportMiddleware, ImportFails, ImportGateway, ExportList, ExportRead, Imports, Exports
<1>3. ~(\/ ReadUser(r) \/ LookForUser(r) \/ ReadAgain(r) \/ WriteUser(r)
        \/ RemoveUser(r) \/ GetUser(r) \/ Login(r))
  BY DEF ReadUser, LookForUser, ReadAgain, WriteUser, RemoveUser, GetUser, Login, Runs
<1> QED
  BY <1>1, <1>2, <1>3 DEF Step

\* What the SDK takes for success is what the route of each command answers
\* with, so that no command about middlewares that was carried out is reported
\* as failed (config/utils.ts, admin/api/middleware.ts).
THEOREM CommandsAreReported == Spec => []DoneIsReported
<1>1. Init => DoneIsReported
  BY DEF Init, DoneIsReported
<1>2. AdminTypes /\ DoneIsReported /\ [Next]_vars => DoneIsReported'
  <2> SUFFICES ASSUME AdminTypes, DoneIsReported, [Next]_vars PROVE DoneIsReported'
    OBVIOUS
  <2>1. ASSUME NEW r \in Requests, Step(r), NEW q \in Requests, asked[q].what = "middleware"
        PROVE  stage'[q] # "failed"
    <3>1. CASE q # r
      BY <2>1, <3>1, Others DEF DoneIsReported
    <3>2. CASE q = r
      <4>1. Service(r).status = Request(r).expects
        BY <2>1, <3>2, ServiceShape
      <4>2. CASE ListMiddlewares(r) \/ GetMiddleware(r) \/ RemoveMiddleware(r) \/ SaveMiddleware(r)
        <5>1. stage' = [stage EXCEPT ![r] = "done"]
          BY <4>1, <4>2 DEF ListMiddlewares, GetMiddleware, RemoveMiddleware, SaveMiddleware,
                            Reports, Goes
        <5> QED
          BY <3>2, <5>1 DEF AdminTypes
      <4>3. CASE Exists(r)
        BY <3>2, <4>3 DEF Exists, Goes, AdminTypes
      <4> QED
        BY <2>1, <3>2, <4>2, <4>3, MiddlewareSteps
    <3> QED
      BY <3>1, <3>2
  <2>2. \A r \in Requests : Step(r) => asked' = asked
    BY Frame
  <2>3. CASE UNCHANGED vars
    BY <2>3 DEF vars, DoneIsReported
  <2> QED
    BY <2>1, <2>2, <2>3 DEF Next, DoneIsReported
<1> QED
  BY <1>1, <1>2, TypesInit, TypesStep, PTL DEF Spec

\* A list or a get of any kind is answered with what was meant to be there
\* then, except the get that the route of another list takes.
THEOREM AnswersTellWhatWasMeant == Spec => AnswersAreCurrent
<1> DEFINE Current(r) ==
        LET k == asked[r].kind
            n == asked[r].name
            option == Chosen("middleware", asked[r].given)
        IN  asked[r].what = "middleware" /\ stage[r] = "start" /\ stage'[r] = "done" =>
            /\ option = "list" => answer'[r] = {m \in Names : <<k, m>> \in DOMAIN meant}
            /\ option = "get" /\ <<k, n>> # <<"serviceDiscovery", "provider">> =>
                   answer'[r] = IF <<k, n>> \in DOMAIN meant THEN meant[<<k, n>>] ELSE None
<1>1. AdminTypes /\ StoreMeant /\ [Next]_vars => [\A r \in Requests : Current(r)]_vars
  <2> SUFFICES ASSUME AdminTypes, StoreMeant, NEW p \in Requests, Step(p), NEW r \in Requests,
                      asked[r].what = "middleware", stage[r] = "start", stage'[r] = "done"
               PROVE  Current(r)
    BY DEF Next
  <2> DEFINE k == asked[r].kind
             n == asked[r].name
             option == Chosen("middleware", asked[r].given)
  <2>1. p = r
    BY Others
  <2>2. k \in Kinds /\ n \in Names
    BY AskedShape
  <2>3. CASE option = "list"
    <3>1. Service(r).op = "list" /\ Service(r).type = LoadedAs[k]
      BY <2>3, ServiceShape
    <3>2. ListMiddlewares(r)
      BY <2>1, <3>1, MiddlewareSteps
         DEF GetMiddleware, RemoveMiddleware, Exists, SaveMiddleware, Serves
    <3>3. answer'[r] = {m \in Names : <<LoadedAs[k], m>> \in DOMAIN store}
      BY <3>1, <3>2 DEF ListMiddlewares, AdminTypes
    <3>4. answer'[r] = {m \in Names : <<k, m>> \in DOMAIN meant}
      BY <2>2, <3>3 DEF StoreMeant
    <3> QED
      BY <2>3, <3>4
  <2>4. CASE option = "get" /\ <<k, n>> # <<"serviceDiscovery", "provider">>
    <3>1. Service(r).op = "get" /\ Key(r) = <<LoadedAs[k], n>>
      BY <2>4, ServiceShape
    <3>2. GetMiddleware(r)
      BY <2>1, <3>1, MiddlewareSteps
         DEF ListMiddlewares, RemoveMiddleware, Exists, SaveMiddleware, Serves
    <3>3. answer'[r] = IF <<LoadedAs[k], n>> \in DOMAIN store THEN store[<<LoadedAs[k], n>>] ELSE None
      BY <3>1, <3>2 DEF GetMiddleware, AdminTypes
    <3>4. answer'[r] = IF <<k, n>> \in DOMAIN meant THEN meant[<<k, n>>] ELSE None
      BY <2>2, <3>3 DEF StoreMeant
    <3> QED
      BY <2>4, <3>4
  <2> QED
    BY <2>3, <2>4
<1> QED
  BY <1>1, TypesInit, TypesStep, MeantInit, MeantStep, PTL DEF Spec, AnswersAreCurrent

-----------------------------------------------------------------------------
(* What a command found when it looked.                                    *)

LEMMA FoundInit == Init => \A r \in Requests : Found(r) /\ Read(r)
BY DEF Init, Found, Read

\* What other requests do to what a request has found is later than its look.
LEMMA FoundByOthers ==
    ASSUME AdminTypes, NEW r \in Requests, Step(r), NEW q \in Requests, Found(q),
           stage'[q] = stage[q], looked'[q] = looked[q]
    PROVE  Found(q)'
<1>1. /\ Runs(q, {"add"})' <=> Runs(q, {"add"})
      /\ Service(q)' = Service(q) /\ Key(q)' = Key(q) /\ asked'[q] = asked[q]
  BY Frame DEF Runs, Service, Request, Key
<1>2. /\ clock \in Nat /\ looked[q] \in Nat /\ looked[q] <= clock
      /\ \A key : ChangedAt(key) \in Nat /\ ChangedAt(key) <= clock
  BY ChangedType DEF AdminTypes
<1>3. /\ \A key : ChangedAt(key)' = ChangedAt(key) \/ ChangedAt(key)' = clock + 1
      /\ \A key : ~(key \in DOMAIN store' <=> key \in DOMAIN store) => ChangedAt(key)' = clock + 1
      /\ user' # user => ChangedAt(UserKey)' = clock + 1
  BY Frame
<1>4. \A key : ChangedAt(key) > looked[q] => ChangedAt(key)' > looked'[q]
  BY <1>2, <1>3
<1>5. \A key : ChangedAt(key)' = clock + 1 => ChangedAt(key)' > looked'[q]
  BY <1>2
<1>6. CASE asked[q].what = "users"
  <2>1. SUFFICES ASSUME stage[q] \in {"look", "again", "write"}, user' # None <=> Runs(q, {"add"})
                 PROVE  ChangedAt(UserKey)' > looked'[q]
    BY <1>1, <1>6 DEF Found
  <2>2. CASE user' = user
    BY <1>4, <1>6, <2>1, <2>2 DEF Found
  <2>3. CASE user' # user
    BY <1>3, <1>5, <2>3
  <2> QED
    BY <2>2, <2>3
<1>7. CASE asked[q].what # "users"
  <2>1. PICK key : key = Key(q)
    OBVIOUS
  <2>2. \/ stage[q] # "write" \/ ~(key \in DOMAIN store <=> Service(q).op = "add")
        \/ ChangedAt(key) > looked[q]
    BY <1>7, <2>1 DEF Found
  <2>3. \/ stage[q] # "write" \/ ~(key \in DOMAIN store' <=> Service(q).op = "add")
        \/ ChangedAt(key)' > looked'[q]
    BY <1>3, <1>4, <1>5, <2>2
  <2>4. ChangedAt(Key(q))' = ChangedAt(key)'
    BY <1>1, <2>1 DEF ChangedAt
  <2> QED
    BY <1>1, <1>7, <2>1, <2>3, <2>4 DEF Found
<1> QED
  BY <1>6, <1>7

LEMMA FoundStep ==
    ASSUME AdminTypes, NEW r \in Requests, Step(r), NEW q \in Requests, Found(q)
    PROVE  Found(q)'
<1>1. CASE q # r
  BY <1>1, Others, FoundByOthers
<1>2. CASE q = r /\ asked[r].what # "users"
  <2>1. CASE stage'[r] = "write"
    <3>1. Exists(r)
      BY <1>2, <2>1, WriteType
    <3>2. store' = store /\ asked' = asked
      BY <3>1 DEF Exists
    <3>3. ~(Key(r) \in DOMAIN store <=> Service(r).op = "add")
      BY <2>1, <3>1 DEF Exists, Goes, AdminTypes
    <3>4. Service(r)' = Service(r) /\ Key(r)' = Key(r)
      BY <3>2 DEF Service, Request, Key
    <3> QED
      BY <1>2, <3>2, <3>3, <3>4 DEF Found
  <2>2. CASE stage'[r] # "write"
    BY <1>2, <2>2, Frame DEF Found
  <2> QED
    BY <2>1, <2>2
<1>3. CASE q = r /\ asked[r].what = "users"
  <2>0. asked' = asked /\ (Runs(r, {"add"})' <=> Runs(r, {"add"})) /\ DOMAIN stage = Requests
    BY Frame DEF Runs, AdminTypes
  <2>1. CASE ReadUser(r)
    <3>1. user' = user /\ ~Runs(r, {"add"})
      BY <2>1 DEF ReadUser, Runs
    <3>2. user = None => stage'[r] = "refused"
      BY <2>0, <2>1 DEF ReadUser, Goes
    <3> QED
      BY <1>3, <2>0, <3>1, <3>2 DEF Found
  <2>2. CASE LookForUser(r)
    <3>1. user' = user /\ ((user # None <=> Runs(r, {"add"})) => stage'[r] = "refused")
      BY <2>0, <2>2 DEF LookForUser, Goes
    <3> QED
      BY <1>3, <2>0, <3>1 DEF Found
  <2>3. CASE ReadAgain(r)
    <3>1. user' = user /\ looked' = looked /\ changed' = changed /\ stage[r] = "again"
      BY <2>3 DEF ReadAgain
    <3> QED
      BY <1>3, <2>0, <3>1 DEF Found, ChangedAt
  <2>4. CASE WriteUser(r) \/ RemoveUser(r) \/ GetUser(r)
    <3>1. stage'[r] \in {"refused", "done"}
      BY <2>0, <2>4 DEF WriteUser, RemoveUser, GetUser, Goes
    <3> QED
      BY <1>3, <2>0, <3>1 DEF Found
  <2> QED
    BY <1>3, <2>1, <2>2, <2>3, <2>4, UserSteps
<1> QED
  BY <1>1, <1>2, <1>3

\* An add replaces something, and an update brings something back, only if it
\* was changed after the command had looked for it, for middlewares
\* (RedisMiddlewareService) as for users (RedisUserService).
THEOREM CommandsSurpriseOnlyOverlapping == Spec => SurprisesOverlap
<1> DEFINE AllFound == \A r \in Requests : Found(r)
           Expected(r) ==
               stage[r] = "write" /\ stage'[r] = "done" =>
                   IF asked[r].what = "users"
                   THEN (user # None <=> Runs(r, {"add"})) => ChangedAt(UserKey) > looked[r]
                   ELSE (Key(r) \in DOMAIN store <=> Service(r).op = "add") =>
                            ChangedAt(Key(r)) > looked[r]
<1>1. Init => AllFound
  BY FoundInit
<1>2. AdminTypes /\ AllFound /\ [Next]_vars => AllFound'
  <2>1. CASE UNCHANGED vars
    BY <2>1 DEF vars, Found, Runs, ChangedAt, Key, Service, Request
  <2> QED
    BY <2>1, FoundStep DEF Next
<1>3. AllFound /\ [Next]_vars => [\A r \in Requests : Expected(r)]_vars
  BY DEF Found
<1> HIDE DEF AllFound
<1> QED
  BY <1>1, <1>2, <1>3, TypesInit, TypesStep, PTL DEF Spec, SurprisesOverlap

-----------------------------------------------------------------------------
(* What an update of a user has read.                                      *)

LEMMA ReadByOthers ==
    ASSUME AdminTypes, NEW r \in Requests, Step(r), NEW q \in Requests \ {r}, Read(q)
    PROVE  Read(q)'
<1>1. /\ Runs(q, {"update"})' <=> Runs(q, {"update"})
      /\ asked'[q] = asked[q] /\ stage'[q] = stage[q] /\ held'[q] = held[q]
      /\ looked'[q] = looked[q] /\ reread'[q] = reread[q]
  BY Frame, Others DEF Runs
<1>2. /\ clock \in Nat /\ looked[q] \in Nat /\ looked[q] <= clock
      /\ reread[q] \in Nat /\ reread[q] <= clock
  BY DEF AdminTypes
<1>3. CASE user' = user /\ ChangedAt(UserKey)' = ChangedAt(UserKey)
  BY <1>1, <1>3 DEF Read
<1>4. CASE ChangedAt(UserKey)' = clock + 1
  BY <1>1, <1>2, <1>4 DEF Read
<1> QED
  BY <1>3, <1>4, Frame

LEMMA ReadStep ==
    ASSUME AdminTypes, NEW r \in Requests, Step(r), NEW q \in Requests, Read(q)
    PROVE  Read(q)'
<1>1. CASE q # r
  BY <1>1, ReadByOthers
<1>2. CASE q = r /\ ~Runs(r, {"update"})
  <2>1. ~Runs(r, {"update"})'
    BY <1>2, Frame DEF Runs
  <2> QED
    BY <1>2, <2>1 DEF Read
<1>3. CASE q = r /\ Runs(r, {"update"})
  <2>0. /\ asked' = asked /\ DOMAIN stage = Requests /\ DOMAIN held = Requests
        /\ asked[r].what = "users" /\ ~Runs(r, {"add"}) /\ ~Runs(r, {"password"})
        /\ user \in Users \cup {None}
    BY <1>3, Frame DEF Runs, AdminTypes
  <2>1. CASE ReadUser(r)
    <3>1. user' = user /\ stage'[r] = IF user = None THEN "refused" ELSE "look"
      BY <2>0, <2>1 DEF ReadUser, Goes
    <3>2. ASSUME user # None
          PROVE  /\ "name" \notin asked[r].sets => held'[r].name = user.name
                 /\ "email" \notin asked[r].sets => held'[r].email = user.email
      <4>1. held'[r] = [user EXCEPT !.name  = IF "name" \in asked[r].sets THEN r ELSE @,
                                    !.email = IF "email" \in asked[r].sets THEN r ELSE @]
        BY <2>0, <2>1, <3>2 DEF ReadUser
      <4>2. user \in Users
        BY <2>0, <3>2
      <4> QED
        BY <4>1, <4>2 DEF Users
    <3> QED
      BY <1>3, <2>0, <3>1, <3>2 DEF Read
  <2>2. CASE LookForUser(r)
    <3>1. /\ user' = user /\ changed' = changed /\ held' = held /\ looked' = looked
          /\ stage[r] = "look" /\ stage'[r] \in {"refused", "again"}
      BY <1>3, <2>0, <2>2 DEF LookForUser, Goes, Runs
    <3> QED
      BY <1>3, <2>0, <3>1 DEF Read, ChangedAt
  <2>3. CASE ReadAgain(r)
    <3>1. /\ user' = user /\ changed' = changed /\ looked' = looked
          /\ stage[r] = "again" /\ stage'[r] = IF user = None THEN "failed" ELSE "write"
      BY <2>0, <2>3 DEF ReadAgain, Goes
    <3>2. ASSUME user # None
          PROVE  /\ held'[r].name = held[r].name /\ held'[r].email = held[r].email
                 /\ held'[r].password = user.password /\ held'[r].hashes = user.hashes
      <4>1. held'[r] = [held[r] EXCEPT !.password = user.password, !.hashes = user.hashes]
        BY <1>3, <2>0, <2>3, <3>2 DEF ReadAgain
      <4>2. held[r] \in Users
        BY <1>3, <3>1 DEF AdminTypes
      <4> QED
        BY <4>1, <4>2 DEF Users
    <3>3. ChangedAt(UserKey)' = ChangedAt(UserKey)
      BY <3>1 DEF ChangedAt
    <3>4. user # None => \/ ChangedAt(UserKey) > looked[r]
                         \/ /\ "name" \notin asked[r].sets => held[r].name = user.name
                            /\ "email" \notin asked[r].sets => held[r].email = user.email
      BY <1>3, <3>1 DEF Read
    <3> QED
      BY <1>3, <2>0, <3>1, <3>2, <3>3, <3>4 DEF Read
  <2>4. CASE WriteUser(r)
    <3>1. stage'[r] = "done"
      BY <2>0, <2>4 DEF WriteUser, Goes
    <3> QED
      BY <1>3, <3>1 DEF Read
  <2>5. ~RemoveUser(r) /\ ~GetUser(r)
    BY <1>3 DEF RemoveUser, GetUser, Runs
  <2> QED
    BY <2>0, <2>1, <2>2, <2>3, <2>4, <2>5, UserSteps
<1> QED
  BY <1>1, <1>2, <1>3

\* An update of a user undoes what another request wrote only if that was
\* written between its reads and its write (UsersRest.updateUser and
\* RedisUserService.update).
THEOREM UpdatesUndoOnlyOverlapping == Spec => LostUpdatesOverlap
<1> DEFINE AllRead == \A r \in Requests : Read(r)
           Kept(r) ==
               Runs(r, {"update"}) /\ stage[r] = "write" /\ stage'[r] = "done" /\ user # None =>
                   /\ <<user.password, user.hashes>> # <<user'.password, user'.hashes>> =>
                          ChangedAt(UserKey) > reread[r]
                   /\ \/ "name" \notin asked[r].sets /\ user.name # user'.name
                      \/ "email" \notin asked[r].sets /\ user.email # user'.email
                      => ChangedAt(UserKey) > looked[r]
<1>1. Init => AllRead
  BY FoundInit
<1>2. AdminTypes /\ AllRead /\ [Next]_vars => AllRead'
  <2>1. CASE UNCHANGED vars
    BY <2>1 DEF vars, Read, Runs, ChangedAt
  <2> QED
    BY <2>1, ReadStep DEF Next
<1>3. AdminTypes /\ AllRead /\ [Next]_vars => [\A r \in Requests : Kept(r)]_vars
  <2> SUFFICES ASSUME AdminTypes, AllRead, NEW p \in Requests, Step(p), NEW r \in Requests,
                      Runs(r, {"update"}), stage[r] = "write", stage'[r] = "done", user # None
               PROVE  Kept(r)
    BY DEF Next
  <2>1. p = r
    BY Others
  <2>2. asked[r].what = "users"
    BY DEF Runs
  <2>3. WriteUser(r)
    BY <2>1, <2>2, UserSteps
       DEF ReadUser, LookForUser, ReadAgain, RemoveUser, GetUser, Runs
  <2>4. user' = held[r]
    BY <2>3 DEF WriteUser, Runs
  <2>5. Read(r)
    OBVIOUS
  <2> QED
    BY <2>4, <2>5 DEF Read
<1> HIDE DEF AllRead
<1> QED
  BY <1>1, <1>2, <1>3, TypesInit, TypesStep, PTL DEF Spec, LostUpdatesOverlap

-----------------------------------------------------------------------------
(* Packages.                                                               *)

\* The steps of an import, and of an export.
LEMMA PackageSteps ==
    ASSUME NEW r \in Requests, Step(r), asked[r].what = "config"
    PROVE  /\ Imports(r) => ImportMiddleware(r) \/ ImportFails(r) \/ ImportGateway(r)
           /\ Exports(r) => ExportList(r) \/ ExportRead(r)
<1>1. ~(\/ Invalid(r) \/ SaveGateway(r) \/ RemoveGateway(r) \/ GetGateway(r)
        \/ ListMiddlewares(r) \/ GetMiddleware(r) \/ RemoveMiddleware(r)
        \/ Exists(r) \/ SaveMiddleware(r))
  BY DEF Invalid, SaveGateway, RemoveGateway, GetGateway, Chooses, Starts, ListMiddlewares,
         GetMiddleware, RemoveMiddleware, Exists, SaveMiddleware, Serves
<1>2. ~(\/ ReadUser(r) \/ LookForUser(r) \/ ReadAgain(r) \/ WriteUser(r)
        \/ RemoveUser(r) \/ GetUser(r) \/ Login(r))
  BY DEF ReadUser, LookForUser, ReadAgain, WriteUser, RemoveUser, GetUser, Login, Runs
<1>3. Imports(r) => ~(ExportList(r) \/ ExportRead(r))
  BY DEF ExportList, ExportRead, Imports, Exports
<1>4. Exports(r) => ~(ImportMiddleware(r) \/ ImportFails(r) \/ ImportGateway(r))
  BY DEF ImportMiddleware, ImportFails, ImportGateway, Imports, Exports
<1> QED
  BY <1>1, <1>2, <1>3, <1>4 DEF Step

\* A key that was changed stays so.
LEMMA ChangedStays ==
    ASSUME AdminTypes, NEW r \in Requests, Step(r), NEW key, ChangedAt(key) > 0
    PROVE  ChangedAt(key)' > 0
BY Frame DEF AdminTypes

LEMMA VisitedInit == Init => \A r \in Requests : Visited(r)
<1> SUFFICES ASSUME Init, NEW r \in Requests, Imports(r), NEW k \in scope
             PROVE  <<TypeOf(k), asked[r].name>> \in left[r]
  BY DEF Visited
<1>1. left[r] = ToVisit(scope, asked[r])
  BY DEF Init
<1> QED
  BY <1>1 DEF ToVisit, Imports

LEMMA VisitedStep ==
    ASSUME AdminTypes, NEW r \in Requests, Step(r), NEW q \in Requests, Visited(q)
    PROVE  Visited(q)'
<1>0. /\ scope' = scope /\ asked' = asked /\ (Imports(q)' <=> Imports(q))
      /\ DOMAIN stage = Requests /\ DOMAIN left = Requests
  BY Frame DEF Imports, AdminTypes
<1>1. CASE q # r
  <2>1. stage'[q] = stage[q] /\ left'[q] = left[q]
    BY <1>1, Others
  <2> QED
    BY <1>0, <2>1, ChangedStays DEF Visited
<1>2. CASE q = r /\ ~Imports(r)
  BY <1>0, <1>2 DEF Visited
<1>3. CASE q = r /\ ImportMiddleware(r)
  <2>1. PICK i \in left[r] : Changes(i) /\ left' = [left EXCEPT ![r] = @ \ {i}]
    BY <1>3 DEF ImportMiddleware
  <2>2. stage' = stage /\ left'[r] = left[r] \ {i}
    BY <1>0, <1>3, <2>1 DEF ImportMiddleware
  <2>3. ChangedAt(i)' > 0
    BY <2>1, ChangesKey DEF AdminTypes
  <2> QED
    BY <1>0, <1>3, <2>2, <2>3, ChangedStays DEF Visited
<1>4. CASE q = r /\ (ImportFails(r) \/ ImportGateway(r))
  <2>1. stage'[r] \in {"failed", "done"}
    BY <1>0, <1>4 DEF ImportFails, ImportGateway, Goes
  <2> QED
    BY <1>4, <2>1 DEF Visited
<1> QED
  BY <1>1, <1>2, <1>3, <1>4, PackageSteps DEF Imports

\* Who writes the gateway's configuration.
LEMMA GatewaySteps ==
    ASSUME AdminTypes, NEW r \in Requests, Step(r), gateway' # gateway
    PROVE  \/ gateway' = None
           \/ gateway' = r /\ (Imports(r) => ImportGateway(r))
<1>1. CASE RemoveGateway(r)
  BY <1>1 DEF RemoveGateway
<1>2. CASE SaveGateway(r)
  BY <1>2 DEF SaveGateway, Chooses, Starts, Imports
<1>3. CASE ImportGateway(r)
  BY <1>3 DEF ImportGateway
<1>4. RemoveGateway(r) \/ SaveGateway(r) \/ ImportGateway(r)
  BY DEF Step, Invalid, ListMiddlewares, GetMiddleware, RemoveMiddleware, Exists, SaveMiddleware,
         GetGateway, ImportMiddleware, ImportFails, ExportList, ExportRead, ReadUser, LookForUser,
         ReadAgain, WriteUser, RemoveUser, GetUser, Login
<1> QED
  BY <1>1, <1>2, <1>3, <1>4

\* The configuration of the gateway that a package brings is not there before
\* all its middlewares have been written, whoever changes them meanwhile
\* (ConfigPackageServiceImpl.set).
THEOREM PackagesComeWhole == Spec => []PackageComesWhole
<1> DEFINE AllVisited == \A r \in Requests : Visited(r)
<1>1. Init => AllVisited /\ PackageComesWhole
  <2>1. Init => PackageComesWhole
    BY DEF Init, PackageComesWhole, Writers
  <2> QED
    BY <2>1, VisitedInit
<1>2. AdminTypes /\ AllVisited /\ [Next]_vars => AllVisited'
  <2>1. CASE UNCHANGED vars
    BY <2>1 DEF vars, Visited, Imports, ChangedAt
  <2> QED
    BY <2>1, VisitedStep DEF Next
<1>3. AdminTypes /\ AllVisited /\ PackageComesWhole /\ [Next]_vars => PackageComesWhole'
  <2> SUFFICES ASSUME AdminTypes, AllVisited, PackageComesWhole, [Next]_vars
               PROVE  PackageComesWhole'
    OBVIOUS
  <2>1. ASSUME NEW r \in Requests, Step(r), NEW q \in Requests, Imports(q), gateway' = q,
             NEW k \in scope
        PROVE  ChangedAt(<<TypeOf(k), asked[q].name>>)' > 0
    <3>1. CASE gateway' = gateway
      BY <2>1, <3>1, Frame, ChangedStays DEF PackageComesWhole
    <3>2. CASE gateway' # gateway
      <4>1. q = r /\ ImportGateway(r)
        BY <2>1, <3>2, GatewaySteps DEF Writers
      <4>2. stage[r] = "start" /\ left[r] = {}
        BY <4>1 DEF ImportGateway
      <4>3. ChangedAt(<<TypeOf(k), asked[r].name>>) > 0
        BY <2>1, <4>1, <4>2 DEF Visited
      <4> QED
        BY <2>1, <4>1, <4>3, Frame, ChangedStays
    <3> QED
      BY <3>1, <3>2
  <2>2. ASSUME NEW r \in Requests, Step(r) PROVE PackageComesWhole'
    <3>1. scope' = scope /\ asked' = asked
      BY <2>2, Frame
    <3>2. \A q \in Requests : Imports(q)' <=> Imports(q)
      BY <3>1 DEF Imports
    <3> QED
      BY <2>1, <2>2, <3>1, <3>2 DEF PackageComesWhole
  <2>3. CASE UNCHANGED vars
    BY <2>3 DEF vars, PackageComesWhole, Imports, ChangedAt
  <2> QED
    BY <2>2, <2>3 DEF Next
<1> HIDE DEF AllVisited
<1> QED
  BY <1>1, <1>2, <1>3, TypesInit, TypesStep, PTL DEF Spec

LEMMA CollectedInit == Init => \A r \in Requests : Collected(r)
<1> SUFFICES ASSUME Init, NEW r \in Requests, Exports(r) PROVE Collected(r)
  BY DEF Collected
<1>1. stage[r] = "start" /\ held[r] = {} /\ left[r] = ToVisit(scope, asked[r])
  BY DEF Init
<1>2. PICK there \in BOOLEAN :
        store = [i \in IF there THEN {TypeOf(k) : k \in scope} \X Names ELSE {} |-> Earlier]
  BY DEF Init
<1>3. scope \subseteq Kinds
  BY DEF Init, Kinds
<1>4. \A k \in scope : TypeOf(k) \in Exported
  BY <1>3, TypesDiffer DEF TypeOf
<1>5. left[r] = {TypeOf(k) : k \in scope} \cap Exported
  BY <1>1 DEF ToVisit, Exports
<1>6. \A i \in DOMAIN store : i[1] \in left[r]
  BY <1>2, <1>4, <1>5
<1> QED
  BY <1>1, <1>6 DEF Collected

\* The steps of an export, as its invariant sees them.
LEMMA ExportLists ==
    ASSUME AdminTypes, NEW r \in Requests, ExportList(r)
    PROVE  /\ stage[r] = "start" /\ UNCHANGED <<scope, asked, store, changed, answer>>
           /\ left'[r] \subseteq left[r] /\ held[r] \subseteq held'[r]
           /\ held'[r] \subseteq held[r] \cup DOMAIN store
           /\ \A i \in DOMAIN store : i[1] \in left[r] => i[1] \in left'[r] \/ i \in held'[r]
           /\ \/ stage'[r] = "start"
              \/ stage'[r] = "reading" /\ left'[r] = {}
              \/ stage'[r] = "done" /\ left'[r] = {} /\ held'[r] = {}
<1>0. DOMAIN stage = Requests /\ DOMAIN left = Requests /\ DOMAIN held = Requests
  BY DEF AdminTypes
<1>1. PICK t \in left[r] :
        /\ left' = [left EXCEPT ![r] = @ \ {t}]
        /\ held' = [held EXCEPT ![r] = @ \cup {i \in DOMAIN store : i[1] = t}]
  BY DEF ExportList
<1>2. left'[r] = left[r] \ {t} /\ held'[r] = held[r] \cup {i \in DOMAIN store : i[1] = t}
  BY <1>0, <1>1
<1>3. stage'[r] = IF left'[r] # {} THEN "start" ELSE IF held'[r] # {} THEN "reading" ELSE "done"
  BY <1>0 DEF ExportList, Goes
<1>4. stage[r] = "start" /\ UNCHANGED <<scope, asked, store, changed, answer>>
  BY DEF ExportList
<1> QED
  BY <1>2, <1>3, <1>4

LEMMA ExportReads ==
    ASSUME AdminTypes, NEW r \in Requests, ExportRead(r)
    PROVE  /\ stage[r] = "reading" /\ UNCHANGED <<scope, asked, store, changed, left>>
           /\ \E i \in held[r] :
                /\ held'[r] = held[r] \ {i}
                /\ IF i \in DOMAIN store
                   THEN /\ DOMAIN answer'[r] = DOMAIN answer[r] \cup {i}
                        /\ stage'[r] = IF held'[r] = {} THEN "done" ELSE "reading"
                   ELSE stage'[r] = "failed"
<1>0. DOMAIN stage = Requests /\ DOMAIN held = Requests /\ DOMAIN answer = Requests
  BY DEF AdminTypes
<1>1. PICK i \in held[r] :
        /\ held' = [held EXCEPT ![r] = @ \ {i}]
        /\ IF i \in DOMAIN store
           THEN /\ answer' = [answer EXCEPT ![r] = With(@, {i}, store[i])]
                /\ Goes(r, IF held'[r] = {} THEN "done" ELSE "reading")
           ELSE Goes(r, "failed") /\ UNCHANGED answer
  BY DEF ExportRead
<1>2. held'[r] = held[r] \ {i}
  BY <1>0, <1>1
<1>3. CASE i \in DOMAIN store
  <2>1. answer'[r] = With(answer[r], {i}, store[i])
    BY <1>0, <1>1, <1>3
  <2>2. DOMAIN answer'[r] = DOMAIN answer[r] \cup {i}
    BY <2>1 DEF With
  <2>3. stage'[r] = IF held'[r] = {} THEN "done" ELSE "reading"
    BY <1>0, <1>1, <1>3 DEF Goes
  <2> QED
    BY <1>2, <1>3, <2>2, <2>3 DEF ExportRead
<1>4. CASE i \notin DOMAIN store
  <2>1. stage'[r] = "failed"
    BY <1>0, <1>1, <1>4 DEF Goes
  <2> QED
    BY <1>2, <1>4, <2>1 DEF ExportRead
<1> QED
  BY <1>3, <1>4

LEMMA CollectedStep ==
    ASSUME AdminTypes, NEW r \in Requests, Step(r), NEW q \in Requests, Collected(q)
    PROVE  Collected(q)'
<1>0. scope' = scope /\ asked' = asked /\ (Exports(q)' <=> Exports(q)) /\ StoreKeys' = StoreKeys
  BY Frame DEF Exports, StoreKeys
<1> SUFFICES ASSUME Exports(q) PROVE Collected(q)'
  BY <1>0 DEF Collected
<1>1. CASE q # r
  <2>1. /\ stage'[q] = stage[q] /\ left'[q] = left[q] /\ held'[q] = held[q]
        /\ answer'[q] = answer[q]
    BY <1>1, Others
  <2>2. \A i : /\ i \in DOMAIN store' /\ ChangedAt(i)' = 0 => i \in DOMAIN store /\ ChangedAt(i) = 0
               /\ i \in DOMAIN store \/ ChangedAt(i) > 0 => i \in DOMAIN store' \/ ChangedAt(i)' > 0
    <3>1. clock \in Nat /\ \A i : ChangedAt(i) \in Nat
      BY ChangedType DEF AdminTypes
    <3> QED
      BY <3>1, Frame
  <2> QED
    BY <1>0, <2>1, <2>2 DEF Collected
<1>2. CASE q = r /\ ExportList(r)
  <2>1. \A i : ChangedAt(i)' = ChangedAt(i)
    BY <1>2, ExportLists DEF ChangedAt
  <2>2. DOMAIN store \subseteq StoreKeys
    BY DEF AdminTypes
  <2> QED
    BY <1>0, <1>2, <2>1, <2>2, ExportLists DEF Collected
<1>3. CASE q = r /\ ExportRead(r)
  <2>1. \A i : ChangedAt(i)' = ChangedAt(i)
    BY <1>3, ExportReads DEF ChangedAt
  <2> QED
    BY <1>0, <1>3, <2>1, ExportReads DEF Collected
<1> QED
  BY <1>1, <1>2, <1>3, PackageSteps DEF Exports

\* An export holds whatever nobody changed while it ran, and fails only if
\* somebody changed something (ConfigPackageServiceImpl.get).
THEOREM ExportsHoldWhatStayed == Spec => ExportsAreComplete
<1> DEFINE AllCollected == \A r \in Requests : Collected(r)
           Complete(r) ==
               Exports(r) =>
                 /\ stage'[r] = "done" /\ stage[r] # "done" =>
                        \A k \in scope, n \in Names :
                            LET i == <<TypeOf(k), n>> IN
                            i \in DOMAIN store /\ ChangedAt(i) = 0 => i \in DOMAIN answer'[r]
                 /\ stage'[r] = "failed" /\ stage[r] = "reading" =>
                        \E k \in scope, n \in Names : ChangedAt(<<TypeOf(k), n>>) > 0
<1>1. Init => AllCollected
  BY CollectedInit
<1>2. AdminTypes /\ AllCollected /\ [Next]_vars => AllCollected'
  <2>1. CASE UNCHANGED vars
    BY <2>1 DEF vars, Collected, Exports, ChangedAt, StoreKeys
  <2> QED
    BY <2>1, CollectedStep DEF Next
<1>3. AdminTypes /\ AllCollected /\ [Next]_vars => [\A r \in Requests : Complete(r)]_vars
  <2> SUFFICES ASSUME AdminTypes, AllCollected, NEW p \in Requests, Step(p), NEW r \in Requests,
                      Exports(r), stage'[r] # stage[r]
               PROVE  Complete(r)
    BY DEF Next
  <2>1. p = r
    BY Others
  <2>2. Collected(r)
    OBVIOUS
  <2>3. CASE ExportList(r)
    BY <2>2, <2>3, ExportLists DEF Collected
  <2>4. CASE ExportRead(r)
    <3>1. stage[r] = "reading"
      BY <2>4, ExportReads
    <3>2. PICK i \in held[r] :
            /\ held'[r] = held[r] \ {i}
            /\ IF i \in DOMAIN store
               THEN /\ DOMAIN answer'[r] = DOMAIN answer[r] \cup {i}
                    /\ stage'[r] = IF held'[r] = {} THEN "done" ELSE "reading"
               ELSE stage'[r] = "failed"
      BY <2>4, ExportReads
    <3>3. i \in StoreKeys /\ (i \in DOMAIN store \/ ChangedAt(i) > 0)
      BY <2>2, <3>1 DEF Collected
    <3>4. CASE i \in DOMAIN store
      BY <2>2, <3>1, <3>2, <3>4 DEF Collected
    <3>5. CASE i \notin DOMAIN store
      BY <3>2, <3>3, <3>5 DEF StoreKeys
    <3> QED
      BY <3>4, <3>5
  <2> QED
    BY <2>1, <2>3, <2>4, PackageSteps DEF Exports
<1> HIDE DEF AllCollected
<1> QED
  BY <1>1, <1>2, <1>3, TypesInit, TypesStep, PTL DEF Spec, ExportsAreComplete

-----------------------------------------------------------------------------
(* The registry of the APIs: what its constraints exclude happens only     *)
(* between requests that overlap.                                          *)

USE NoApiAssumption

LEMMA RegistryTypes == TypeOK /\ [RegistryNext]_registryVars => TypeOK'
<1> SUFFICES ASSUME TypeOK, [RegistryNext]_registryVars PROVE TypeOK'
  OBVIOUS
<1> USE DEF TypeOK
<1>1. ASSUME NEW r \in ApiRequests, LookForApi(r) PROVE TypeOK'
  BY <1>1 DEF LookForApi
<1>2. ASSUME NEW r \in ApiRequests, ListApis(r) PROVE TypeOK'
  BY <1>2 DEF ListApis
<1>3. ASSUME NEW r \in ApiRequests, WriteApi(r) PROVE TypeOK'
  BY <1>3 DEF WriteApi, Ask
<1>4. ASSUME NEW r \in ApiRequests, RemoveApi(r) PROVE TypeOK'
  BY <1>4 DEF RemoveApi, Ask
<1>5. CASE UNCHANGED registryVars
  BY <1>5 DEF registryVars
<1> QED
  BY <1>1, <1>2, <1>3, <1>4, <1>5 DEF RegistryNext

\* The hash holds what was written to it, and nothing happens in the future.
HashOK ==
    \A i \in Ids : Registered(i) =>
        /\ apiAsked[apis[i]].id = i
        /\ apiStage[apis[i]] = "done"
        /\ written[apis[i]] <= apiClock

TimesOK ==
    /\ \A r \in ApiRequests : apiLooked[r] <= apiClock /\ listed[r] <= apiClock
    /\ \A i \in Ids : removed[i] <= apiClock

\* A request about to write clashes with nothing that it has seen in the hash.
\* What is there now and is older than its reading was there then.
ChecksHold ==
    \A r \in ApiRequests : apiStage[r] = "write" /\ apiAsked[r].op # "remove" =>
        \A i \in Ids :
            /\ Registered(i) /\ i # apiAsked[r].id
            /\ written[apis[i]] <= listed[r]
            => ~Clash(apis[i], r)

RegistryInv == TypeOK /\ HashOK /\ TimesOK /\ ChecksHold /\ ConflictsOverlap

LEMMA RegistryInvariant == RegistrySpec => []RegistryInv
<1>1. RegistryInit => RegistryInv
  <2> SUFFICES ASSUME RegistryInit PROVE RegistryInv
    OBVIOUS
  <2>1. TypeOK
    BY DEF RegistryInit, TypeOK, Ask
  <2>2. \A i \in Ids : ~Registered(i)
    BY DEF RegistryInit, Registered
  <2>3. TimesOK
    BY DEF RegistryInit, TimesOK
  <2> QED
    BY <2>1, <2>2, <2>3 DEF RegistryInv, HashOK, ChecksHold, ConflictsOverlap
<1>2. RegistryInv /\ [RegistryNext]_registryVars => RegistryInv'
  <2> SUFFICES ASSUME RegistryInv, [RegistryNext]_registryVars PROVE RegistryInv'
    OBVIOUS
  <2> USE DEF RegistryInv
  <2>t. TypeOK'
    BY RegistryTypes
  <2>1. ASSUME NEW r \in ApiRequests, LookForApi(r) PROVE RegistryInv'
    <3>1. apiStage' = [apiStage EXCEPT ![r] = "refused"] \/ apiStage' = [apiStage EXCEPT ![r] = "list"]
      BY <2>1 DEF LookForApi
    <3>2. \A q \in ApiRequests : apiStage'[q] = "write" => apiStage[q] = "write"
      BY <3>1 DEF TypeOK
    <3>3. \A q \in ApiRequests : apiStage[q] = "done" => apiStage'[q] = "done"
      BY <2>1, <3>1 DEF TypeOK, LookForApi
    <3>4. HashOK'
      BY <2>1, <3>3 DEF LookForApi, HashOK, Registered, TypeOK
    <3>5. TimesOK'
      BY <2>1 DEF LookForApi, TimesOK, TypeOK
    <3>6. ChecksHold' /\ ConflictsOverlap'
      BY <2>1, <3>2
         DEF LookForApi, ChecksHold, ConflictsOverlap, Registered,
             Clash
    <3> QED
      BY <2>t, <3>4, <3>5, <3>6
  <2>2. ASSUME NEW r \in ApiRequests, ListApis(r) PROVE RegistryInv'
    <3>1. \A q \in ApiRequests : apiStage[q] = "done" => apiStage'[q] = "done" /\ q # r
      BY <2>2 DEF ListApis, TypeOK
    <3>2. HashOK'
      BY <2>2, <3>1 DEF ListApis, HashOK, Registered, TypeOK
    <3>3. TimesOK'
      BY <2>2 DEF ListApis, TimesOK, TypeOK
    <3>4. ConflictsOverlap'
      <4>1. \A i \in Ids : Registered(i) => apis[i] \in ApiRequests /\ apis[i] # r
        BY <3>1 DEF HashOK, Registered, TypeOK
      <4> QED
        BY <2>2, <4>1
           DEF ListApis, ConflictsOverlap, Registered, Clash,
               TypeOK
    <3>5. ChecksHold'
      <4> SUFFICES ASSUME NEW q \in ApiRequests, apiStage'[q] = "write", apiAsked[q].op # "remove",
                          NEW i \in Ids, Registered(i), i # apiAsked[q].id,
                          written[apis[i]] <= listed'[q]
                   PROVE  ~Clash(apis[i], q)
        BY <2>2 DEF ListApis, ChecksHold, Registered, Clash
      <4>1. CASE q = r
        BY <2>2, <4>1 DEF ListApis, Conflicting, TypeOK
      <4>2. CASE q # r
        BY <2>2, <4>2 DEF ListApis, ChecksHold, TypeOK
      <4> QED
        BY <4>1, <4>2
    <3> QED
      BY <2>t, <3>2, <3>3, <3>4, <3>5
  <2>3. ASSUME NEW r \in ApiRequests, WriteApi(r) PROVE RegistryInv'
    <3> DEFINE k == apiAsked[r].id
    <3>1. k \in Ids /\ r # NoApi
      BY DEF TypeOK, Ask
    <3>2. \A i \in Ids : apis'[i] = IF i = k THEN r ELSE apis[i]
      BY <2>3 DEF WriteApi, TypeOK
    <3>3. \A q \in ApiRequests : written'[q] = IF q = r THEN apiClock + 1 ELSE written[q]
      BY <2>3 DEF WriteApi, TypeOK
    <3>4. \A i \in Ids : Registered(i) => apis[i] \in ApiRequests /\ apis[i] # r
      BY <2>3 DEF WriteApi, HashOK, Registered, TypeOK
    <3>5. \A q \in ApiRequests : apiStage'[q] = IF q = r THEN "done" ELSE apiStage[q]
      BY <2>3 DEF WriteApi, TypeOK
    <3>6. apiAsked' = apiAsked /\ listed' = listed /\ apiLooked' = apiLooked /\ removed' = removed
          /\ apiClock' = apiClock + 1
      BY <2>3 DEF WriteApi
    <3>7. HashOK'
      BY <3>1, <3>2, <3>3, <3>4, <3>5, <3>6 DEF HashOK, Registered, TypeOK
    <3>8. TimesOK'
      BY <3>6 DEF TimesOK, TypeOK
    <3>9. ChecksHold'
      <4> SUFFICES ASSUME NEW q \in ApiRequests, q # r, apiStage[q] = "write", apiAsked[q].op # "remove",
                          NEW i \in Ids, Registered(i)', i # apiAsked[q].id,
                          written'[apis'[i]] <= listed[q]
                   PROVE  ~Clash(apis'[i], q)
        BY <3>5, <3>6 DEF ChecksHold, Clash
      <4>1. i # k
        BY <3>2, <3>3, <3>6 DEF TimesOK, TypeOK
      <4> QED
        BY <3>2, <3>3, <3>4, <4>1 DEF ChecksHold, Registered
    <3>10. ConflictsOverlap'
      <4> SUFFICES ASSUME NEW i \in Ids, NEW j \in Ids, i # j,
                          Registered(i)', Registered(j)',
                          Clash(apis'[i], apis'[j]), written'[apis'[i]] < written'[apis'[j]]
                   PROVE  listed[apis'[j]] < written'[apis'[i]]
        BY <3>6 DEF ConflictsOverlap, Clash
      <4>1. CASE j = k
        <5>1. i # k /\ apis'[i] = apis[i] /\ Registered(i)
          BY <3>2, <4>1 DEF Registered
        <5>2. ~(written[apis[i]] <= listed[r])
          BY <2>3, <3>2, <4>1, <5>1 DEF WriteApi, ChecksHold
        <5> QED
          BY <3>1, <3>2, <3>3, <3>4, <4>1, <5>1, <5>2 DEF TypeOK
      <4>2. CASE i = k
        <5>1. Registered(j) /\ apis'[j] = apis[j]
          BY <3>2, <4>2 DEF Registered
        <5> QED
          BY <3>2, <3>3, <3>4, <4>2, <5>1 DEF HashOK, TypeOK
      <4>3. CASE i # k /\ j # k
        BY <3>2, <3>3, <3>4, <4>3 DEF ConflictsOverlap, Registered
      <4> QED
        BY <4>1, <4>2, <4>3
    <3> QED
      BY <2>t, <3>7, <3>8, <3>9, <3>10
  <2>4. ASSUME NEW r \in ApiRequests, RemoveApi(r) PROVE RegistryInv'
    <3>1. \A i \in Ids : Registered(i)' => Registered(i) /\ apis'[i] = apis[i]
      BY <2>4 DEF RemoveApi, Registered, TypeOK
    <3>2. \A q \in ApiRequests : /\ apiStage[q] = "done" => apiStage'[q] = "done"
                              /\ apiStage'[q] = "write" => apiStage[q] = "write"
      BY <2>4 DEF RemoveApi, TypeOK
    <3>3. HashOK'
      BY <2>4, <3>1, <3>2 DEF RemoveApi, HashOK, Registered, TypeOK
    <3>4. TimesOK'
      BY <2>4 DEF RemoveApi, TimesOK, TypeOK
    <3>5. ChecksHold' /\ ConflictsOverlap'
      BY <2>4, <3>1, <3>2 DEF RemoveApi, ChecksHold, ConflictsOverlap, Clash
    <3> QED
      BY <2>t, <3>3, <3>4, <3>5
  <2>5. CASE UNCHANGED registryVars
    BY <2>t, <2>5
       DEF registryVars, HashOK, TimesOK, ChecksHold, ConflictsOverlap,
           Registered, Clash
  <2> QED
    BY <2>1, <2>2, <2>3, <2>4, <2>5 DEF RegistryNext
<1> QED
  BY <1>1, <1>2, PTL DEF RegistrySpec

\* APIs that clash were written by requests that overlapped.
THEOREM ConflictsComeFromOverlaps == RegistrySpec => []ConflictsOverlap
<1>1. RegistryInv => ConflictsOverlap
  BY DEF RegistryInv
<1> QED
  BY <1>1, RegistryInvariant, PTL

\* What a request found when it looked for its id holds, or changed since.
FoundOrChanged(r) ==
    LET i == apiAsked[r].id IN
    /\ apiAsked[r].op = "create" /\ Registered(i) => written[apis[i]] > apiLooked[r]
    /\ apiAsked[r].op = "update" /\ ~Registered(i) => removed[i] > apiLooked[r]

LooksHold == \A r \in ApiRequests : apiStage[r] \in {"list", "write"} => FoundOrChanged(r)

\* A create replaces an API, and an update brings one back, only when another
\* request wrote or removed it in between.
THEOREM SurprisesComeFromOverlaps == RegistrySpec => ApiSurprisesOverlap
<1>1. RegistryInit => LooksHold
  <2> SUFFICES ASSUME RegistryInit, NEW r \in ApiRequests, apiStage[r] \in {"list", "write"}
               PROVE  FoundOrChanged(r)
    BY DEF LooksHold
  <2>1. apiAsked[r].op = "remove"
    BY DEF RegistryInit
  <2> QED
    BY <2>1 DEF FoundOrChanged
<1>2. RegistryInv /\ LooksHold /\ [RegistryNext]_registryVars => LooksHold'
  <2> SUFFICES ASSUME RegistryInv, LooksHold, [RegistryNext]_registryVars,
                      NEW q \in ApiRequests, apiStage'[q] \in {"list", "write"}
               PROVE  FoundOrChanged(q)'
    BY DEF LooksHold
  <2> DEFINE i == apiAsked[q].id
  <2> USE DEF RegistryInv
  <2>t. i \in Ids /\ apiLooked[q] \in Nat /\ apiLooked[q] <= apiClock /\ apiClock \in Nat
    BY DEF TypeOK, Ask, TimesOK
  <2>1. ASSUME NEW r \in ApiRequests, LookForApi(r) PROVE FoundOrChanged(q)'
    <3>1. CASE q = r
      BY <2>1, <3>1 DEF LookForApi, FoundOrChanged, Registered, TypeOK
    <3>2. CASE q # r
      <4>1. apiStage'[q] = apiStage[q] /\ apiLooked'[q] = apiLooked[q]
        BY <2>1, <3>2 DEF LookForApi, TypeOK
      <4> QED
        BY <2>1, <4>1 DEF LookForApi, LooksHold, FoundOrChanged, Registered
    <3> QED
      BY <3>1, <3>2
  <2>2. ASSUME NEW r \in ApiRequests, ListApis(r) PROVE FoundOrChanged(q)'
    <3>1. apiStage[q] \in {"list", "write"}
      BY <2>2 DEF ListApis, TypeOK
    <3> QED
      BY <2>2, <3>1 DEF ListApis, LooksHold, FoundOrChanged, Registered
  <2>3. ASSUME NEW r \in ApiRequests, WriteApi(r) PROVE FoundOrChanged(q)'
    <3>1. apiStage[q] \in {"list", "write"} /\ FoundOrChanged(q)
      BY <2>3 DEF WriteApi, TypeOK, LooksHold
    <3>2. apiAsked' = apiAsked /\ apiLooked' = apiLooked /\ removed' = removed
      BY <2>3 DEF WriteApi
    <3>3. CASE i = apiAsked[r].id
      <4>1. apis'[i] = r /\ written'[r] = apiClock + 1 /\ r # NoApi
        BY <2>3, <2>t, <3>3 DEF WriteApi, TypeOK
      <4> QED
        BY <2>t, <3>2, <4>1 DEF FoundOrChanged, Registered
    <3>4. CASE i # apiAsked[r].id
      <4>1. apis'[i] = apis[i]
        BY <2>3, <2>t, <3>4 DEF WriteApi, TypeOK
      <4>2. Registered(i) => apis[i] \in ApiRequests /\ apis[i] # r
        BY <2>3, <2>t DEF WriteApi, HashOK, Registered, TypeOK
      <4>3. Registered(i) => written'[apis[i]] = written[apis[i]]
        BY <2>3, <4>2 DEF WriteApi, TypeOK
      <4> QED
        BY <3>1, <3>2, <4>1, <4>3 DEF FoundOrChanged, Registered
    <3> QED
      BY <3>3, <3>4
  <2>4. ASSUME NEW r \in ApiRequests, RemoveApi(r) PROVE FoundOrChanged(q)'
    <3>1. apiStage[q] \in {"list", "write"} /\ FoundOrChanged(q)
      BY <2>4 DEF RemoveApi, TypeOK, LooksHold
    <3>2. apiAsked' = apiAsked /\ apiLooked' = apiLooked /\ written' = written
      BY <2>4 DEF RemoveApi
    <3>3. CASE i = apiAsked[r].id
      <4>1. apis'[i] = NoApi /\ removed'[i] = apiClock + 1
        BY <2>4, <2>t, <3>3 DEF RemoveApi, TypeOK
      <4> QED
        BY <2>t, <3>2, <4>1 DEF FoundOrChanged, Registered
    <3>4. CASE i # apiAsked[r].id
      <4>1. apis'[i] = apis[i] /\ removed'[i] = removed[i]
        BY <2>4, <2>t, <3>4 DEF RemoveApi, TypeOK
      <4> QED
        BY <3>1, <3>2, <4>1 DEF FoundOrChanged, Registered
    <3> QED
      BY <3>3, <3>4
  <2>5. CASE UNCHANGED registryVars
    BY <2>5 DEF registryVars, LooksHold, FoundOrChanged, Registered
  <2> QED
    BY <2>1, <2>2, <2>3, <2>4, <2>5 DEF RegistryNext
<1>3. LooksHold /\ [RegistryNext]_registryVars =>
        [\A r \in ApiRequests :
            LET i == apiAsked[r].id IN
            apiStage[r] = "write" /\ apiStage'[r] = "done" =>
                /\ apiAsked[r].op = "create" /\ Registered(i) => written[apis[i]] > apiLooked[r]
                /\ apiAsked[r].op = "update" /\ ~Registered(i) => removed[i] > apiLooked[r]
        ]_registryVars
  BY DEF LooksHold, FoundOrChanged
<1> QED
  BY <1>1, <1>2, <1>3, RegistryInvariant, PTL DEF RegistrySpec, ApiSurprisesOverlap
=============================================================================
