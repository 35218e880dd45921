----------------------------- MODULE MCSettings -----------------------------
(* Settings for TLC: apps are interchangeable, and so are rows. *)
EXTENDS Settings, TLC

Symmetry == Permutations(Apps) \cup Permutations(Rows)
=============================================================================
