---------------------------- MODULE AdminServices ----------------------------
(***************************************************************************)
(* Administrators whose commands meet: the services behind the REST API    *)
(* keep middlewares, users and the gateway's configuration in Redis, with  *)
(* one command, or one MULTI, for each thing they look at or change, and   *)
(* the commands of other requests in between.                              *)
(*                                                                         *)
(* A content, a user's field or a configuration is the request that wrote  *)
(* it.  Middlewares of different kinds and users of different logins have  *)
(* different keys, and their commands commute: the requests of a behaviour *)
(* are about the kinds of one area (scope), or about one user.             *)
(***************************************************************************)
EXTENDS AdminConsole, FiniteSetsExt

CONSTANTS
    Requests,   \* commands of the console, one each
    Earlier,    \* the request that wrote what is there already
    Names,      \* names of middlewares
    MaxGiven    \* bound on the options given to all the commands

Writers == Requests \cup {Earlier}

\* A user: who wrote each field, and how often the password was hashed.
Users == [password : Writers, hashes : Nat, name : Writers, email : Writers]

ASSUME NoneAssumption == None \notin Names \cup Writers /\ None \notin Users

ASSUME EarlierAssumption == Earlier \notin Requests

VARIABLES
    scope,      \* the kinds the requests are about; {} when they are about users
    asked,      \* the command of each request: it never changes
    stage,      \* where each request is, or its outcome
    left,       \* the keys that an import or an export has still to visit
    held,       \* the user that a request has read, or what an export has read
    answer,     \* the answer of a get, a list, an export or a login
    store,      \* the middlewares, by <<type, name>>
    user,       \* the user, or None
    gateway,    \* the gateway's configuration, or None
    meant,      \* history: what the requests meant to be there, by <<kind, name>>
    clock,      \* changes so far
    looked,     \* when each request looked for what it changes,
    reread,     \*   when it read the user again,
    changed     \*   and when each key was last changed

vars == <<scope, asked, stage, left, held, answer, store, user, gateway, meant,
          clock, looked, reread, changed>>

TypeOf(kind) == LoadedAs[kind]

\* A password is hashed once when the user is created.
NewUser(r) == [password |-> r, hashes |-> 1, name |-> r, email |-> r]

\* Keys of one value, next to those of the middlewares.
GatewayKey == <<"gateway", "config">>
UserKey    == <<"users", "login">>

ChangedAt(key) == IF key \in DOMAIN changed THEN changed[key] ELSE 0

\* Commands without an option do nothing, whatever they are about: one of
\* them stands for all.
MiddlewareCommands(area) ==
    [what : {"middleware"}, kind : area, name : Names,
     given : (SUBSET {"list", "remove", "update", "add", "get"}) \ {{}}]

PackageCommands ==      [what : {"config"}, name : Names, given : (SUBSET {"update", "get"}) \ {{}}]
                   \cup [what : {"gateway"}, given : SUBSET {"update", "remove", "get"}]

UserCommands ==      [what : {"users"}, command : {"add", "remove", "get", "password"}]
                \cup [what : {"users"}, command : {"update"}, sets : SUBSET {"name", "email"}]
                \cup [what : {"login"}, password : Requests \cup {Earlier}]

Commands(area) == IF area = {} THEN UserCommands
                  ELSE MiddlewareCommands(area) \cup PackageCommands

OptionsOf(c) == IF c.what \in {"users", "login"} THEN 0 ELSE Cardinality(c.given)

-----------------------------------------------------------------------------
(* Steps that the requests have in common.                                 *)

Starts(r, what) == stage[r] = "start" /\ asked[r].what = what

Chooses(r, what, option) == Starts(r, what) /\ Chosen(what, asked[r].given) = option

Goes(r, next) == stage' = [stage EXCEPT ![r] = next]

Looks(r) == looked' = [looked EXCEPT ![r] = clock]

With(f, keys, v) == [k \in DOMAIN f \cup keys |-> IF k \in keys THEN v ELSE f[k]]

Without(f, key) == [k \in DOMAIN f \ {key} |-> f[k]]

Changes(key) == clock' = clock + 1 /\ changed' = With(changed, {key}, clock + 1)

\* What is asked of the console is not always served.
Invalid(r) ==
    /\ Chooses(r, "gateway", "invalid")
    /\ Goes(r, "invalid")
    /\ UNCHANGED <<scope, asked, left, held, answer, store, user, gateway, meant,
                   clock, looked, reread, changed>>

-----------------------------------------------------------------------------
(* The middlewares.                                                        *)

Request(r) == MiddlewareRequest(asked[r].kind, asked[r].given, asked[r].name)

Service(r) == Served(Request(r))

Key(r) == <<Service(r).type, Service(r).name>>

Serves(r, ops) ==
    /\ stage[r] = "start" /\ asked[r].what = "middleware"
    /\ Service(r).op \in ops

\* The console takes one status for success.
Reports(r) == Goes(r, IF Service(r).status = Request(r).expects THEN "done" ELSE "failed")

\* SMEMBERS.
ListMiddlewares(r) ==
    /\ Serves(r, {"list"})
    /\ answer' = [answer EXCEPT ![r] = {n \in Names : <<Service(r).type, n>> \in DOMAIN store}]
    /\ Reports(r)
    /\ UNCHANGED <<scope, asked, left, held, store, user, gateway, meant, clock, looked, reread, changed>>

\* GET.  When there is none the REST library gets null to send, of which it makes
\* an answer of its own; what counts here is what the service read.
GetMiddleware(r) ==
    /\ Serves(r, {"get"})
    /\ answer' = [answer EXCEPT ![r] = IF Key(r) \in DOMAIN store THEN store[Key(r)] ELSE None]
    /\ Reports(r)
    /\ UNCHANGED <<scope, asked, left, held, store, user, gateway, meant, clock, looked, reread, changed>>

\* SREM and DEL in a MULTI with the event: a remove looks at nothing first.
RemoveMiddleware(r) ==
    /\ Serves(r, {"remove"})
    /\ store' = Without(store, Key(r))
    /\ meant' = Without(meant, <<asked[r].kind, asked[r].name>>)
    /\ Changes(Key(r))
    /\ Reports(r)
    /\ UNCHANGED <<scope, asked, left, held, answer, user, gateway, looked, reread>>

\* Mutant: an add replaces what is there.
ExistsForUpdate(r) ==
    /\ Serves(r, {"add", "update"})
    /\ Looks(r)
    /\ Goes(r, IF Service(r).op = "update" /\ Key(r) \notin DOMAIN store THEN "refused" ELSE "write")
    /\ UNCHANGED <<scope, asked, left, held, answer, store, user, gateway, meant, clock, reread, changed>>

\* EXISTS: what is added must be new, and what is updated must be there.
Exists(r) ==
    /\ Serves(r, {"add", "update"})
    /\ Looks(r)
    /\ Goes(r, IF Service(r).op = "add" <=> Key(r) \in DOMAIN store THEN "refused" ELSE "write")
    /\ UNCHANGED <<scope, asked, left, held, answer, store, user, gateway, meant, clock, reread, changed>>

\* SADD and SET in a MULTI with the event.
SaveMiddleware(r) ==
    /\ stage[r] = "write" /\ asked[r].what = "middleware"
    /\ store' = With(store, {Key(r)}, r)
    /\ meant' = With(meant, {<<asked[r].kind, asked[r].name>>}, r)
    /\ Changes(Key(r))
    /\ Reports(r)
    /\ UNCHANGED <<scope, asked, left, held, answer, user, gateway, looked, reread>>

-----------------------------------------------------------------------------
(* The gateway's configuration and the packages of all configurations.     *)

SaveGateway(r) ==
    /\ Chooses(r, "gateway", "update")
    /\ gateway' = r
    /\ Changes(GatewayKey)
    /\ Goes(r, "done")
    /\ UNCHANGED <<scope, asked, left, held, answer, store, user, meant, looked, reread>>

RemoveGateway(r) ==
    /\ Chooses(r, "gateway", "remove")
    /\ gateway' = None
    /\ Changes(GatewayKey)
    /\ Goes(r, "done")
    /\ UNCHANGED <<scope, asked, left, held, answer, store, user, meant, looked, reread>>

GetGateway(r) ==
    /\ Chooses(r, "gateway", "get")
    /\ answer' = [answer EXCEPT ![r] = gateway]
    /\ Goes(r, IF gateway = None THEN "refused" ELSE "done")
    /\ UNCHANGED <<scope, asked, left, held, store, user, gateway, meant,
                   clock, looked, reread, changed>>

Imports(r) == asked[r].what = "config" /\ Chosen("config", asked[r].given) = "update"

Exports(r) == asked[r].what = "config" /\ Chosen("config", asked[r].given) = "get"

\* The middlewares of a package are written all at once, each whether it is
\* there or not, and those behind one that fails are written too.
ImportMiddleware(r) ==
    /\ Imports(r) /\ stage[r] \in {"start", "failed"}
    /\ \E i \in left[r] :
        /\ store' = With(store, {i}, r)
        /\ meant' = With(meant, {<<k, i[2]>> : k \in {k \in scope : TypeOf(k) = i[1]}}, r)
        /\ Changes(i)
        /\ left' = [left EXCEPT ![r] = @ \ {i}]
    /\ UNCHANGED <<scope, asked, stage, held, answer, user, gateway, looked, reread>>

\* Mutant: one middleware that fails does not fail the package.
ImportFailsQuietly(r) ==
    /\ Imports(r) /\ stage[r] \in {"start", "failed"}
    /\ \E i \in left[r] : left' = [left EXCEPT ![r] = @ \ {i}]
    /\ UNCHANGED <<scope, asked, stage, held, answer, store, user, gateway, meant,
                   clock, looked, reread, changed>>

\* Redis does not take one of them.
ImportFails(r) ==
    /\ Imports(r) /\ stage[r] \in {"start", "failed"}
    /\ \E i \in left[r] : left' = [left EXCEPT ![r] = @ \ {i}]
    /\ Goes(r, "failed")
    /\ UNCHANGED <<scope, asked, held, answer, store, user, gateway, meant,
                   clock, looked, reread, changed>>

\* Then come the gateway's configuration and the APIs (see AdminRegistry).
ImportGateway(r) ==
    /\ Imports(r) /\ stage[r] = "start" /\ left[r] = {}
    /\ gateway' = r
    /\ Changes(GatewayKey)
    /\ Goes(r, "done")
    /\ UNCHANGED <<scope, asked, left, held, answer, store, user, meant, looked, reread>>

\* The names of every type are asked for at once,
ExportList(r) ==
    /\ Exports(r) /\ stage[r] = "start"
    /\ \E t \in left[r] :
        /\ left' = [left EXCEPT ![r] = @ \ {t}]
        /\ held' = [held EXCEPT ![r] = @ \cup {i \in DOMAIN store : i[1] = t}]
    /\ Goes(r, IF left'[r] # {} THEN "start" ELSE IF held'[r] # {} THEN "reading" ELSE "done")
    /\ UNCHANGED <<scope, asked, answer, store, user, gateway, meant, clock, looked, reread, changed>>

\* and when all the names are there, the contents: nothing has no toString().
ExportRead(r) ==
    /\ Exports(r) /\ stage[r] = "reading"
    /\ \E i \in held[r] :
        /\ held' = [held EXCEPT ![r] = @ \ {i}]
        /\ IF i \in DOMAIN store
           THEN /\ answer' = [answer EXCEPT ![r] = With(@, {i}, store[i])]
                /\ Goes(r, IF held'[r] = {} THEN "done" ELSE "reading")
           ELSE Goes(r, "failed") /\ UNCHANGED answer
    /\ UNCHANGED <<scope, asked, left, store, user, gateway, meant, clock, looked, reread, changed>>

-----------------------------------------------------------------------------
(* The users.                                                              *)

Runs(r, commands) == asked[r].what = "users" /\ asked[r].command \in commands

\* HGET, the first step of an update: what it does not set is what it reads.
ReadUser(r) ==
    /\ Runs(r, {"update"}) /\ stage[r] = "start"
    /\ Looks(r)
    /\ held' = [held EXCEPT ![r] =
            IF user = None THEN None
            ELSE [user EXCEPT !.name  = IF "name" \in asked[r].sets THEN r ELSE @,
                              !.email = IF "email" \in asked[r].sets THEN r ELSE @]]
    /\ Goes(r, IF user = None THEN "refused" ELSE "look")
    /\ UNCHANGED <<scope, asked, left, answer, store, user, gateway, meant, clock, reread, changed>>

\* HEXISTS: who is added must be new, and who is changed must be there.
LookForUser(r) ==
    /\ \/ Runs(r, {"update"}) /\ stage[r] = "look" /\ UNCHANGED looked
       \/ Runs(r, {"add", "password"}) /\ stage[r] = "start" /\ Looks(r)
    /\ Goes(r, IF Runs(r, {"add"}) <=> user # None THEN "refused"
               ELSE IF Runs(r, {"add"}) THEN "write" ELSE "again")
    /\ UNCHANGED <<scope, asked, left, held, answer, store, user, gateway, meant,
                   clock, reread, changed>>

\* Mutant: the update writes back the password it read first.
ReadAgainForPassword(r) ==
    /\ Runs(r, {"update", "password"}) /\ stage[r] = "again"
    /\ reread' = [reread EXCEPT ![r] = clock]
    /\ held' = [held EXCEPT ![r] =
            IF user = None \/ Runs(r, {"update"}) THEN @ ELSE [user EXCEPT !.hashes = @ + 1]]
    /\ Goes(r, IF user = None THEN "failed" ELSE "write")
    /\ UNCHANGED <<scope, asked, left, answer, store, user, gateway, meant, clock, looked, changed>>

\* HGET: an update keeps the password, and a change of password hashes what it
\* reads, the hash of the old password, instead of the password it is given.
ReadAgain(r) ==
    /\ Runs(r, {"update", "password"}) /\ stage[r] = "again"
    /\ reread' = [reread EXCEPT ![r] = clock]
    /\ held' = [held EXCEPT ![r] =
            IF user = None THEN @
            ELSE IF Runs(r, {"update"})
                 THEN [@ EXCEPT !.password = user.password, !.hashes = user.hashes]
                 ELSE [user EXCEPT !.hashes = @ + 1]]
    /\ Goes(r, IF user = None THEN "failed" ELSE "write")
    /\ UNCHANGED <<scope, asked, left, answer, store, user, gateway, meant, clock, looked, changed>>

\* HMSET.
WriteUser(r) ==
    /\ Runs(r, {"add", "update", "password"}) /\ stage[r] = "write"
    /\ user' = IF Runs(r, {"add"}) THEN NewUser(r) ELSE held[r]
    /\ Changes(UserKey)
    /\ Goes(r, "done")
    /\ UNCHANGED <<scope, asked, left, held, answer, store, gateway, meant, looked, reread>>

\* HDEL, and its count.
RemoveUser(r) ==
    /\ Runs(r, {"remove"}) /\ stage[r] = "start"
    /\ user' = None
    /\ IF user = None THEN UNCHANGED <<clock, changed>> ELSE Changes(UserKey)
    /\ Goes(r, IF user = None THEN "refused" ELSE "done")
    /\ UNCHANGED <<scope, asked, left, held, answer, store, gateway, meant, looked, reread>>

GetUser(r) ==
    /\ Runs(r, {"get"}) /\ stage[r] = "start"
    /\ answer' = [answer EXCEPT ![r] =
            IF user = None THEN None ELSE [name |-> user.name, email |-> user.email]]
    /\ Goes(r, IF user = None THEN "refused" ELSE "done")
    /\ UNCHANGED <<scope, asked, left, held, store, user, gateway, meant,
                   clock, looked, reread, changed>>

\* A token for who gives the password whose hash is stored.
Login(r) ==
    /\ asked[r].what = "login" /\ stage[r] = "start"
    /\ Goes(r, IF user # None /\ user.password = asked[r].password /\ user.hashes = 1
               THEN "done" ELSE "refused")
    /\ UNCHANGED <<scope, asked, left, held, answer, store, user, gateway, meant,
                   clock, looked, reread, changed>>

-----------------------------------------------------------------------------
ToVisit(area, c) ==
    IF c.what # "config" THEN {}
    ELSE IF Chosen("config", c.given) = "update" THEN {<<TypeOf(k), c.name>> : k \in area}
    ELSE {TypeOf(k) : k \in area} \cap Exported

FewOptions == MapThenSumSet(LAMBDA r : OptionsOf(asked[r]), Requests) <= MaxGiven

\* Nothing is there, or something of every kind and name.
Init ==
    /\ scope \in Areas \cup {{}}
    /\ asked \in [Requests -> {c \in Commands(scope) : OptionsOf(c) <= MaxGiven}]
    /\ FewOptions
    /\ stage = [r \in Requests |-> "start"]
    /\ left = [r \in Requests |-> ToVisit(scope, asked[r])]
    /\ held = [r \in Requests |-> {}]
    /\ answer = [r \in Requests |-> <<>>]
    /\ \E there \in BOOLEAN :
        /\ store = [i \in IF there THEN {TypeOf(k) : k \in scope} \X Names ELSE {} |-> Earlier]
        /\ meant = [i \in IF there THEN scope \X Names ELSE {} |-> Earlier]
        /\ user = IF there /\ scope = {} THEN NewUser(Earlier) ELSE None
        /\ gateway = IF there THEN Earlier ELSE None
    /\ clock = 0
    /\ looked = [r \in Requests |-> 0]
    /\ reread = looked
    /\ changed = <<>>

Step(r) ==
    \/ Invalid(r)
    \/ ListMiddlewares(r) \/ GetMiddleware(r) \/ RemoveMiddleware(r)
    \/ Exists(r) \/ SaveMiddleware(r)
    \/ SaveGateway(r) \/ RemoveGateway(r) \/ GetGateway(r)
    \/ ImportMiddleware(r) \/ ImportFails(r) \/ ImportGateway(r)
    \/ ExportList(r) \/ ExportRead(r)
    \/ ReadUser(r) \/ LookForUser(r) \/ ReadAgain(r) \/ WriteUser(r)
    \/ RemoveUser(r) \/ GetUser(r) \/ Login(r)

Next == \E r \in Requests : Step(r)

Spec == Init /\ [][Next]_vars

-----------------------------------------------------------------------------
\* The pipeline loads for every kind and name what the last command about
\* them meant to be there (cli-tool.ts, sdk-middleware.ts, admin/api and
\* loadMiddleware name each kind in their own way), unless the gateway
\* provides a middleware of that name itself.
PipelineLoadsWhatWasMeant ==
    \A k \in Kinds, n \in Names :
        LET i == <<LoadedAs[k], n>> IN
        ~IsProvided(LoadedAs[k], n) =>
            IF <<k, n>> \in DOMAIN meant THEN i \in DOMAIN store /\ store[i] = meant[<<k, n>>]
            ELSE i \notin DOMAIN store

\* The console says that a command failed only if it changed nothing: each
\* call of the SDK takes for success the status its route answers with.
DoneIsReported == \A r \in Requests : asked[r].what = "middleware" => stage[r] # "failed"

\* A list or a get is answered with what was meant to be there.  The one
\* exception is the service discovery named "provider", whose get is taken by
\* the route of another list.
AnswersAreCurrent ==
    [][\A r \in Requests :
         LET k == asked[r].kind
             n == asked[r].name
             option == Chosen("middleware", asked[r].given)
         IN  asked[r].what = "middleware" /\ stage[r] = "start" /\ stage'[r] = "done" =>
             /\ option = "list" => answer'[r] = {m \in Names : <<k, m>> \in DOMAIN meant}
             /\ option = "get" /\ <<k, n>> # <<"serviceDiscovery", "provider">> =>
                    answer'[r] = IF <<k, n>> \in DOMAIN meant THEN meant[<<k, n>>] ELSE None]_vars

\* What is added replaces something, and what is updated comes back, only if it
\* was changed after the request had looked for it; and so for the users.
SurprisesOverlap ==
    [][\A r \in Requests :
         stage[r] = "write" /\ stage'[r] = "done" =>
             IF asked[r].what = "users"
             THEN (user # None <=> Runs(r, {"add"})) => ChangedAt(UserKey) > looked[r]
             ELSE (Key(r) \in DOMAIN store <=> Service(r).op = "add") => ChangedAt(Key(r)) > looked[r]]_vars

\* An update of a user undoes what another request wrote only if that was
\* written after the update had read it: the password after its last read, the
\* rest of the user after its first.
LostUpdatesOverlap ==
    [][\A r \in Requests :
         Runs(r, {"update"}) /\ stage[r] = "write" /\ stage'[r] = "done" /\ user # None =>
             /\ <<user.password, user.hashes>> # <<user'.password, user'.hashes>> =>
                    ChangedAt(UserKey) > reread[r]
             /\ \/ "name" \notin asked[r].sets /\ user.name # user'.name
                \/ "email" \notin asked[r].sets /\ user.email # user'.email
                => ChangedAt(UserKey) > looked[r]]_vars

\* The gateway's configuration of a package, which restarts the gateways, is
\* written when all the middlewares of the package have been.
PackageComesWhole ==
    \A r \in Requests :
        Imports(r) /\ gateway = r => \A k \in scope : ChangedAt(<<TypeOf(k), asked[r].name>>) > 0

\* An export holds everything that nobody changed since it began, and fails
\* only if something it had seen was removed.
ExportsAreComplete ==
    [][\A r \in Requests : Exports(r) =>
         /\ stage'[r] = "done" /\ stage[r] # "done" =>
                \A k \in scope, n \in Names :
                    LET i == <<TypeOf(k), n>> IN
                    i \in DOMAIN store /\ ChangedAt(i) = 0 => i \in DOMAIN answer'[r]
         /\ stage'[r] = "failed" /\ stage[r] = "reading" =>
                \E k \in scope, n \in Names : ChangedAt(<<TypeOf(k), n>>) > 0]_vars
=============================================================================
