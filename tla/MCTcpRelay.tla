----------------------------- MODULE MCTcpRelay -----------------------------
(* TcpRelay for TLC: slots are interchangeable. *)
EXTENDS TcpRelay, TLC

Symmetry == Permutations(Clients)
=============================================================================
