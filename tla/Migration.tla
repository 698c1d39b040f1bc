----------------------------- MODULE Migration -----------------------------
(***************************************************************************)
(* What upgrading the stored configuration promises: it is rewritten to    *)
(* the newer format once, and a gateway serves only when that is done.     *)
(***************************************************************************)
CONSTANT Procs

VARIABLES
    stored,     \* the format of the configuration in Redis
    serving     \* the gateways that serve requests

Init == stored \in {"old", "new"} /\ serving = {}

Begin == stored = "old" /\ stored' = "mixed" /\ UNCHANGED serving

End == stored = "mixed" /\ stored' = "new" /\ UNCHANGED serving

Serve(p) == stored = "new" /\ serving' = serving \cup {p} /\ UNCHANGED stored

Stop(p) == serving' = serving \ {p} /\ UNCHANGED stored

Next == Begin \/ End \/ \E p \in Procs : Serve(p) \/ Stop(p)

Spec == Init /\ [][Next]_<<stored, serving>>
=============================================================================
