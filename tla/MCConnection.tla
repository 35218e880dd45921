---------------------------- MODULE MCConnection ----------------------------
(* Connection for TLC, with the limits of BConnection_unix.h. *)
EXTENDS Connection
=============================================================================
