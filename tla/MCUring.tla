------------------------------ MODULE MCUring ------------------------------
(* Small instances of UringServer for TLC. *)
EXTENDS UringServer, TLC

\* Clients are interchangeable.  Safety runs only.
Symmetry == Permutations(Conns)
=============================================================================
