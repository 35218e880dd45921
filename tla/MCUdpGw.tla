------------------------------ MODULE MCUdpGw ------------------------------
(* UdpGw for TLC. *)
EXTENDS UdpGw
============================================================================
