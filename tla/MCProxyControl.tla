--------------------------- MODULE MCProxyControl ---------------------------
(* ProxyControl for TLC. *)
EXTENDS ProxyControl, TLC

\* Bound: what goes wrong in a behaviour is of two kinds, any number of times.
TwoKindsOfMishap == Cardinality(mishaps) <= 2
=============================================================================
