-------------------------- MODULE MCVirtualMemory --------------------------
(* Two L1 entries that may share an L2 block, two pages of RAM, one page   *)
(* without memory and one device, which is also the frame buffer.          *)
(*                                                                         *)
(* And the saving of memory, two pages and three processes: one that       *)
(* saves, one whose save fails or is interrupted, and one that restores.   *)
EXTENDS Memory, TLC

CONSTANTS r0, r1, absent, device, v1, v2

MCL1Index == {0, 1, 2}
MCL2Offset == {0}
MCBlocks == {0, 1}
Symmetry == Permutations({r0, r1}) \cup Permutations({v1, v2})
MCRam == {r0, r1}
MCAbsent == {absent}
MCDevices == {device}
MCUnused == {}
MCFrameBuffer == {<<2, 0>>}
MCEntries ==
  [pn : {r0, r1}, access : {TRUE}, write : {TRUE}] \cup
  {[pn |-> absent, access |-> TRUE, write |-> FALSE]}
MCValues == {v1, v2}
=============================================================================
