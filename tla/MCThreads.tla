----------------------------- MODULE MCThreads -----------------------------
(* Small instances of ThreadServer for TLC. *)
EXTENDS ThreadServer, TLC

\* Clients are interchangeable.  Safety runs only.
Symmetry == Permutations(Conns)
=============================================================================
