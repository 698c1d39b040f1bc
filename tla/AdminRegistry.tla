--------------------------- MODULE AdminRegistry ---------------------------
(***************************************************************************)
(* Administrators who create, update and remove APIs at the same time,     *)
(* each alone or as part of a configuration package.  RedisApiService      *)
(* looks whether the id is registered, reads the whole hash to see whether *)
(* the name or the path belongs to another API, and only then writes:      *)
(* three commands, with the commands of other requests in between.         *)
(*                                                                         *)
(* No name here is one of AdminServices, so that AdminProofs can extend    *)
(* both.                                                                   *)
(***************************************************************************)
EXTENDS Integers

CONSTANTS
    ApiRequests,   \* one create, update or remove of an API each
    Ids,           \* ids of APIs
    ApiNames,      \* names of APIs, each with its version
    ApiPaths,      \* paths of APIs
    NoApi          \* no API

ASSUME NoApiAssumption == NoApi \notin ApiRequests

VARIABLES
    apis,        \* the hash: the request that wrote each API, or NoApi
    apiAsked,    \* what each request asks for: it never changes
    apiStage,    \* the next command of each request, or its outcome
    apiClock,    \* changes of the hash so far: the time of what follows
    apiLooked,   \* when each request looked for its id,
    listed,      \*   when it read the hash,
    written,     \*   and when it wrote to it
    removed      \* when each id was last removed

registryVars == <<apis, apiAsked, apiStage, apiClock, apiLooked, listed, written, removed>>

Ask == [op : {"create", "update", "upsert", "remove"}, id : Ids, name : ApiNames, path : ApiPaths]

TypeOK ==
    /\ apis \in [Ids -> ApiRequests \cup {NoApi}]
    /\ apiAsked \in [ApiRequests -> Ask]
    /\ apiStage \in [ApiRequests -> {"exists", "list", "write", "done", "refused"}]
    /\ apiClock \in Nat
    /\ apiLooked \in [ApiRequests -> Nat]
    /\ listed \in [ApiRequests -> Nat]
    /\ written \in [ApiRequests -> Nat]
    /\ removed \in [Ids -> Nat]

Registered(i) == apis[i] # NoApi

\* Two configurations that must not both be registered.
Clash(q, r) == apiAsked[q].name = apiAsked[r].name \/ apiAsked[q].path = apiAsked[r].path

-----------------------------------------------------------------------------
\* Mutant: an update of an API that does not exist creates it.
LookForNewApi(r) ==
    /\ apiStage[r] = "exists"
    /\ apiLooked' = [apiLooked EXCEPT ![r] = apiClock]
    /\ apiStage' = [apiStage EXCEPT ![r] =
            IF apiAsked[r].op = "create" /\ Registered(apiAsked[r].id) THEN "refused" ELSE "list"]
    /\ UNCHANGED <<apis, apiAsked, apiClock, listed, written, removed>>

\* HEXISTS: what is created must be new and what is updated must be there; the
\* APIs of a package are updated or else created.
LookForApi(r) ==
    /\ apiStage[r] = "exists"
    /\ apiLooked' = [apiLooked EXCEPT ![r] = apiClock]
    /\ apiStage' = [apiStage EXCEPT ![r] =
            IF \/ apiAsked[r].op = "create" /\ Registered(apiAsked[r].id)
               \/ apiAsked[r].op = "update" /\ ~Registered(apiAsked[r].id)
            THEN "refused" ELSE "list"]
    /\ UNCHANGED <<apis, apiAsked, apiClock, listed, written, removed>>

\* Mutant: an update compares its name only.
ConflictingName(r) ==
    \E i \in Ids :
        /\ Registered(i)
        /\ IF apiAsked[r].op = "create" THEN Clash(apis[i], r)
           ELSE i # apiAsked[r].id /\ apiAsked[apis[i]].name = apiAsked[r].name

\* Another API has the name or the path.
Conflicting(r) ==
    \E i \in Ids :
        /\ Registered(i) /\ Clash(apis[i], r)
        /\ apiAsked[r].op = "create" \/ i # apiAsked[r].id

\* HGETALL, and the constraints of the answer.
ListApis(r) ==
    /\ apiStage[r] = "list"
    /\ listed' = [listed EXCEPT ![r] = apiClock]
    /\ apiStage' = [apiStage EXCEPT ![r] = IF Conflicting(r) THEN "refused" ELSE "write"]
    /\ UNCHANGED <<apis, apiAsked, apiClock, apiLooked, written, removed>>

\* HMSET, in a MULTI with the event.
WriteApi(r) ==
    /\ apiStage[r] = "write" /\ apiAsked[r].op # "remove"
    /\ apiClock' = apiClock + 1
    /\ apis' = [apis EXCEPT ![apiAsked[r].id] = r]
    /\ written' = [written EXCEPT ![r] = apiClock + 1]
    /\ apiStage' = [apiStage EXCEPT ![r] = "done"]
    /\ UNCHANGED <<apiAsked, apiLooked, listed, removed>>

\* HDEL, in a MULTI with the event: a remove looks at nothing first.
RemoveApi(r) ==
    /\ apiStage[r] = "write" /\ apiAsked[r].op = "remove"
    /\ apiClock' = apiClock + 1
    /\ apis' = [apis EXCEPT ![apiAsked[r].id] = NoApi]
    /\ removed' = [removed EXCEPT ![apiAsked[r].id] = apiClock + 1]
    /\ apiStage' = [apiStage EXCEPT ![r] = "done"]
    /\ UNCHANGED <<apiAsked, apiLooked, listed, written>>

-----------------------------------------------------------------------------
\* Any requests, those that a package makes all at once (its APIs are upserts)
\* among them, and an empty registry.
RegistryInit ==
    /\ apis = [i \in Ids |-> NoApi]
    /\ apiAsked \in [ApiRequests -> Ask]
    /\ apiStage = [r \in ApiRequests |-> IF apiAsked[r].op = "remove" THEN "write" ELSE "exists"]
    /\ apiClock = 0
    /\ apiLooked = [r \in ApiRequests |-> 0]
    /\ listed = apiLooked
    /\ written = apiLooked
    /\ removed = [i \in Ids |-> 0]

RegistryNext == \E r \in ApiRequests : LookForApi(r) \/ ListApis(r) \/ WriteApi(r) \/ RemoveApi(r)

RegistrySpec == RegistryInit /\ [][RegistryNext]_registryVars

-----------------------------------------------------------------------------
\* Two registered APIs have the same name or path only if their requests
\* overlapped: the later one read the hash before the earlier one wrote to it
\* (ensureAPICreateConstraints, ensureAPIUpdateConstraints).  Administrators
\* who wait for each other never register such APIs.
ConflictsOverlap ==
    \A i, j \in Ids :
        /\ i # j /\ Registered(i) /\ Registered(j)
        /\ Clash(apis[i], apis[j]) /\ written[apis[i]] < written[apis[j]]
        => listed[apis[j]] < written[apis[i]]

\* A create replaces an API, or an update brings one back, only if the API was
\* written, or removed, after the request had looked for it.
ApiSurprisesOverlap ==
    [][\A r \in ApiRequests :
         LET i == apiAsked[r].id IN
         apiStage[r] = "write" /\ apiStage'[r] = "done" =>
            /\ apiAsked[r].op = "create" /\ Registered(i) => written[apis[i]] > apiLooked[r]
            /\ apiAsked[r].op = "update" /\ ~Registered(i) => removed[i] > apiLooked[r]]_registryVars
=============================================================================
