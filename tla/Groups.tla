------------------------------- MODULE Groups -------------------------------
(***************************************************************************)
(* The tests that pipeline/group.ts generates: whether a request belongs   *)
(* to the groups a filter, a limiter, an authentication, a cache or an     *)
(* interceptor names.  A request is [method, protocol, path, ...]; a group *)
(* is a set of members; a criterion of a member is a set, {} when it is    *)
(* not given.  A path pattern is the set of paths it matches, and whether  *)
(* it is a conjunction ('a & b').                                          *)
(***************************************************************************)

\* filter(): the groups the API declares among those named.
Named(groups, ids) == {groups[i] : i \in ids \cap DOMAIN groups}

Matches(patterns, path) == \E p \in patterns : path \in p.matches

InMember(m, r) ==
    /\ m.method # {} => r.method \in m.method
    /\ m.protocol # {} => r.protocol \in m.protocol
    /\ m.path # {} => Matches(m.path, r.path)

\* buildGroupAllowTest(): some member of some group has the request.  Without
\* any group the generated function returns undefined.
Allow(gs, r) == \E g \in gs : \E m \in g : InMember(m, r)

\* buildGroupDenyTest() joins the negated criteria with &&: a request that
\* meets one of them is already denied.
OutOfMember(m, r) ==
    /\ m.method # {} => r.method \notin m.method
    /\ m.protocol # {} => r.protocol \notin m.protocol
    /\ m.path # {} => ~Matches(m.path, r.path)

Deny(gs, r) == gs # {} /\ \A g \in gs : \A m \in g : OutOfMember(m, r)

\* buildGroupNotAllowTest(): out of every member of some group.  It takes a
\* conjunction for an ordinary pattern, which matches nothing.
Plain(patterns) == {p \in patterns : ~p.conjunction}

NotAllow(gs, r) ==
    \E g \in gs : \A m \in g :
        \/ m.method # {} /\ r.method \notin m.method
        \/ m.protocol # {} /\ r.protocol \notin m.protocol
        \/ m.path # {} /\ ~Matches(Plain(m.path), r.path)
=============================================================================
