--------------------------- MODULE MCSocksClient ----------------------------
(* SocksClient for TLC. *)
EXTENDS SocksClient
=============================================================================
