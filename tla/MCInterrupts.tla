---------------------------- MODULE MCInterrupts ----------------------------
(* Interrupts with the vectors of the keyboard and of the mouse (0260 and  *)
(* 0264 octal) and with no vector.                                         *)
EXTENDS Interrupts

MCVectors == {0, 176, 180}
=============================================================================
