------------------------------ MODULE MCChaos ------------------------------
(* Chaos with one packet size from the daemon, a transmit buffer of three     *)
(* words, and a throttle of two polls and one second.                         *)
EXTENDS Chaos

MCPacketSizes == {3}
=============================================================================
