------------------------------- MODULE IntReg -------------------------------
(***************************************************************************)
(* The Unibus interrupt status register of ucode.c as a value, and the     *)
(* updates the emulator makes to it.  The register is a C int; the fields  *)
(* any code tests are                                                      *)
(*                                                                         *)
(*   ub   0100000  a Unibus interrupt is pending                           *)
(*   xb    040000  an Xbus interrupt (disk or TV) is pending               *)
(*   en     02000  Unibus interrupts are enabled                           *)
(*   vec    01774  the vector of the pending Unibus interrupt              *)
(*                                                                         *)
(* Operators only: the modules that use them say when they are applied.    *)
(***************************************************************************)
EXTENDS Integers

CONSTANT Vectors        \* the vectors in use, with 0 (no vector) among them

ASSUME VectorsAssumption == 0 \in Vectors

Registers == [ub : BOOLEAN, xb : BOOLEAN, en : BOOLEAN, vec : Vectors]

\* interrupt_status_reg is a zero-initialised global.
PowerUp == [ub |-> FALSE, xb |-> FALSE, en |-> FALSE, vec |-> 0]

\* The value of interrupt_pending_flag for a register: reg & 0140000.
Pending(r) == r.ub \/ r.xb

\* Without the enable bit the request is dropped.
AssertUnibus(r, v) ==
  IF r.en THEN [r EXCEPT !.ub = TRUE, !.vec = v] ELSE r

AssertXbus(r) == [r EXCEPT !.xb = TRUE]
DeassertXbus(r) == [r EXCEPT !.xb = FALSE]

\* Unibus writes at 040 (mask 0036001) and at 042 (mask 0101774).
WriteStatus(r, e) == [r EXCEPT !.en = e]

\* Mutated form of WriteStim.
WriteStimDropsXbus(r, u, v) == [r EXCEPT !.ub = u, !.vec = v, !.xb = FALSE]

WriteStim(r, u, v) == [r EXCEPT !.ub = u, !.vec = v]
=============================================================================
