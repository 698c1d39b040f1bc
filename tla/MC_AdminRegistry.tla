--------------------------- MODULE MC_AdminRegistry ---------------------------
(***************************************************************************)
(* AdminRegistry for TLC: requests, ids, names and paths are symmetric.    *)
(***************************************************************************)
EXTENDS AdminRegistry, TLC

Symmetry ==
    Permutations(ApiRequests) \cup Permutations(Ids)
    \cup Permutations(ApiNames) \cup Permutations(ApiPaths)
=============================================================================
