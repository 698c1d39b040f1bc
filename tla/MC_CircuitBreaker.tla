------------------------- MODULE MC_CircuitBreaker -------------------------
(* CircuitBreaker for TLC.                                                 *)
EXTENDS CircuitBreaker, TLC

\* Processes and requests are interchangeable (safety runs only).
Symmetry == Permutations(Procs) \cup Permutations(Requests)
=============================================================================
