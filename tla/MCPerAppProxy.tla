--------------------------- MODULE MCPerAppProxy ---------------------------
(* PerAppProxy for TLC. *)
EXTENDS PerAppProxy, TLC

\* Bound: what goes wrong in a behaviour is of two kinds, any number of times.
TwoKindsOfMishap == Cardinality(mishaps) <= 2
=============================================================================
