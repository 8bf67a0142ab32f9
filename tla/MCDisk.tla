------------------------------- MODULE MCDisk -------------------------------
(* A pack of one cylinder with 2 heads and 2 blocks per track, two pages   *)
(* of memory, every CCW list of two words, and two transfers, which may    *)
(* run past the list, the pack and memory.                                 *)
EXTENDS Disk

CONSTANTS p1, p2, none
MCRamPages == {p1, p2}
MCClps == 0 .. 1
=============================================================================
