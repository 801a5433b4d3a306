------------------------------ MODULE MCEpoll ------------------------------
(* Small instances of EpollServer for TLC. *)
EXTENDS EpollServer, TLC

\* Clients and descriptors are interchangeable.  Safety runs only.
Symmetry == Permutations(Conns) \union Permutations(Fds)
=============================================================================
