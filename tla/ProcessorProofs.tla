-------------------------- MODULE ProcessorProofs --------------------------
(***************************************************************************)
(* Proofs about the parts of ucode.c that stand beside the pipeline:       *)
(* Interrupts, for every set of vectors, and what single instructions and  *)
(* two or three in a row do to words and scratchpads (MicroPrograms), for  *)
(* words of every length.                                                  *)
(***************************************************************************)
EXTENDS Interrupts, MicroPrograms, TLAPS

-----------------------------------------------------------------------------
(***************************************************************************)
(* The interrupt status register and its flag.                             *)
(*                                                                         *)
(* The invariants speak of an idle main thread; IInv adds what is true in  *)
(* the middle of an update.  Between the two stores the register may       *)
(* differ from the value just stored, but only in xb, only upwards, and    *)
(* then because of the TV.                                                 *)
(***************************************************************************)
\* The flag against the register while no store is outstanding.
FlagInv ==
  main_pc \in {"run", "deassert"} =>
    /\ interrupt_pending_flag => Pending(interrupt_status_reg)
    /\ interrupt_status_reg.ub => interrupt_pending_flag

IdleInv ==
  main_pc = "run" => OnlyTvMasked /\ XbusHasSource /\ OnlyTvWriteHidesDisk

DeassertInv == main_pc = "deassert" => ~disk_irq \/ tv_wrote

\* The value that is about to be, or has just been, stored.
NewInv ==
  main_pc \in {"store", "flag"} =>
    /\ new.xb => tv_irq \/ disk_irq
    /\ disk_irq /\ ~tv_wrote => new.xb

\* The register against the value just stored.
StoredInv ==
  main_pc = "flag" =>
    /\ interrupt_status_reg.ub = new.ub
    /\ new.xb => interrupt_status_reg.xb
    /\ interrupt_status_reg.xb /\ ~new.xb => tv_irq

IInv == TypeOK /\ FlagInv /\ IdleInv /\ DeassertInv /\ NewInv /\ StoredInv

\* What the updates of the register do to its fields.
LEMMA XbusUpdates ==
  ASSUME NEW r \in Registers
  PROVE  /\ AssertXbus(r) \in Registers
         /\ AssertXbus(r).xb = TRUE
         /\ AssertXbus(r).ub = r.ub
         /\ DeassertXbus(r) \in Registers
         /\ DeassertXbus(r).xb = FALSE
BY DEF Registers, AssertXbus, DeassertXbus

LEMMA UnibusUpdate ==
  ASSUME NEW r \in Registers, NEW v \in Vectors
  PROVE  AssertUnibus(r, v) \in Registers /\ AssertUnibus(r, v).xb = r.xb
BY DEF Registers, AssertUnibus

LEMMA StatusUpdate ==
  ASSUME NEW r \in Registers, NEW e \in BOOLEAN
  PROVE  WriteStatus(r, e) \in Registers /\ WriteStatus(r, e).xb = r.xb
BY DEF Registers, WriteStatus

LEMMA StimUpdate ==
  ASSUME NEW r \in Registers, NEW u \in BOOLEAN, NEW v \in Vectors
  PROVE  WriteStim(r, u, v) \in Registers /\ WriteStim(r, u, v).xb = r.xb
BY DEF Registers, WriteStim

LEMMA InitIInv == Init => IInv
<1>1. PowerUp \in Registers /\ PowerUp.xb = FALSE /\ PowerUp.ub = FALSE
  BY VectorsAssumption DEF PowerUp, Registers
<1>2. QED
  BY <1>1 DEF Init, IInv, TypeOK, FlagInv, IdleInv, DeassertInv, NewInv, StoredInv,
     OnlyTvMasked, XbusHasSource, OnlyTvWriteHidesDisk, Idle, Pending

\* Types come first: every action keeps the register and the value to be
\* stored inside Registers.
LEMMA TypeInductive == TypeOK /\ [Next]_vars => TypeOK'
<1> SUFFICES ASSUME TypeOK, [Next]_vars PROVE TypeOK'
  OBVIOUS
<1> USE DEF TypeOK, UnibusVectors
<1>1. ASSUME NEW v \in UnibusVectors, UnibusDevice(v) PROVE TypeOK'
  BY <1>1, UnibusUpdate DEF UnibusDevice, CallSet
<1>2. ASSUME NEW e \in BOOLEAN, WriteStatusReg(e) PROVE TypeOK'
  BY <1>2, StatusUpdate DEF WriteStatusReg, CallSet
<1>3. ASSUME NEW u \in BOOLEAN, NEW v \in Vectors, WriteStimReg(u, v) PROVE TypeOK'
  BY <1>3, StimUpdate DEF WriteStimReg, CallSet
<1>4. CASE DiskThrow
  BY <1>4, XbusUpdates DEF DiskThrow, CallSet
<1>5. CASE TvWrite
  BY <1>5 DEF TvWrite
<1>6. CASE DiskCommandWithoutInterrupts
  BY <1>6 DEF DiskCommandWithoutInterrupts
<1>7. CASE Deassert
  BY <1>7, XbusUpdates DEF Deassert, CallSet
<1>8. CASE StoreReg
  BY <1>8 DEF StoreReg
<1>9. CASE StoreFlag
  BY <1>9 DEF StoreFlag, Pending, Registers
<1>10. CASE Sigalrm
  <2>1. interrupt_status_reg' \in Registers
    BY <1>10, XbusUpdates DEF Sigalrm
  <2>2. QED
    BY <1>10, <2>1 DEF Sigalrm, Pending, Registers
<1>11. CASE UNCHANGED vars
  BY <1>11 DEF vars
<1>12. QED
  BY <1>1, <1>2, <1>3, <1>4, <1>5, <1>6, <1>7, <1>8, <1>9, <1>10, <1>11
     DEF Next, Begin, Continue

(***************************************************************************)
(* An update that only copies xb, or that raises it for the disk, starts   *)
(* from an idle state and so inherits IdleInv in the value to be stored.   *)
(***************************************************************************)
LEMMA BeginKeepsInv ==
  ASSUME IInv, Begin
  PROVE  (FlagInv /\ IdleInv /\ DeassertInv /\ NewInv /\ StoredInv)'
<1> USE DEF IInv, TypeOK, FlagInv, IdleInv, DeassertInv, NewInv, StoredInv,
        OnlyTvMasked, XbusHasSource, OnlyTvWriteHidesDisk, Idle, Pending
<1>1. ASSUME NEW v \in UnibusVectors, UnibusDevice(v)
      PROVE  (FlagInv /\ IdleInv /\ DeassertInv /\ NewInv /\ StoredInv)'
  BY <1>1, UnibusUpdate DEF UnibusDevice, CallSet, UnibusVectors
<1>2. ASSUME NEW e \in BOOLEAN, WriteStatusReg(e)
      PROVE  (FlagInv /\ IdleInv /\ DeassertInv /\ NewInv /\ StoredInv)'
  BY <1>2, StatusUpdate DEF WriteStatusReg, CallSet
<1>3. ASSUME NEW u \in BOOLEAN, NEW v \in Vectors, WriteStimReg(u, v)
      PROVE  (FlagInv /\ IdleInv /\ DeassertInv /\ NewInv /\ StoredInv)'
  BY <1>3, StimUpdate DEF WriteStimReg, CallSet
<1>4. CASE DiskThrow
  BY <1>4, XbusUpdates DEF DiskThrow, CallSet
<1>5. CASE TvWrite
  BY <1>5 DEF TvWrite
<1>6. CASE DiskCommandWithoutInterrupts
  BY <1>6 DEF DiskCommandWithoutInterrupts
<1>7. QED
  BY <1>1, <1>2, <1>3, <1>4, <1>5, <1>6 DEF Begin

\* The rest of an update, and the signal, wherever it falls.
LEMMA ContinueKeepsInv ==
  ASSUME IInv, Continue
  PROVE  (FlagInv /\ IdleInv /\ DeassertInv /\ NewInv /\ StoredInv)'
<1> USE DEF IInv, TypeOK, FlagInv, IdleInv, DeassertInv, NewInv, StoredInv,
        OnlyTvMasked, XbusHasSource, OnlyTvWriteHidesDisk, Idle, Pending
<1>1. CASE Deassert
  <2>1. CASE interrupt_status_reg.xb
    <3>1. /\ new' = DeassertXbus(interrupt_status_reg)
          /\ main_pc = "deassert" /\ main_pc' = "store"
          /\ UNCHANGED <<tv_irq, disk_irq, tv_wrote>>
      BY <1>1, <2>1 DEF Deassert, CallSet
    <3>2. new'.xb = FALSE
      BY <3>1, XbusUpdates
    <3>3. QED
      BY <3>1, <3>2
  <2>2. CASE ~interrupt_status_reg.xb
    <3>1. /\ main_pc = "deassert" /\ main_pc' = "run"
          /\ UNCHANGED <<interrupt_status_reg, interrupt_pending_flag, tv_irq,
                         disk_irq, tv_wrote>>
      BY <1>1, <2>2 DEF Deassert
    <3>2. QED
      BY <2>2, <3>1
  <2>3. QED
    BY <2>1, <2>2
<1>2. CASE StoreReg
  BY <1>2 DEF StoreReg
<1>3. CASE StoreFlag
  <2>1. /\ main_pc = "flag" /\ main_pc' = "run"
        /\ UNCHANGED <<interrupt_status_reg, tv_irq, disk_irq, tv_wrote>>
    BY <1>3 DEF StoreFlag
  <2>2. PICK r \in {new, interrupt_status_reg} : interrupt_pending_flag' = (r.ub \/ r.xb)
    BY <1>3 DEF StoreFlag
  <2>3. r.ub = interrupt_status_reg.ub /\ (r.xb => interrupt_status_reg.xb)
    BY <2>1, <2>2
  <2>4. new.xb => r.xb
    BY <2>1, <2>2
  <2>5. interrupt_pending_flag' <=> r.ub \/ r.xb
    BY <2>2
  <2>6. FlagInv' /\ NewInv' /\ DeassertInv' /\ StoredInv'
    BY <2>1, <2>3, <2>5
  <2>7. IdleInv'
    BY <2>1, <2>3, <2>4, <2>5
  <2>8. QED
    BY <2>6, <2>7
<1>4. QED
  BY <1>1, <1>2, <1>3 DEF Continue

LEMMA SigalrmKeepsInv ==
  ASSUME IInv, Sigalrm
  PROVE  (FlagInv /\ IdleInv /\ DeassertInv /\ NewInv /\ StoredInv)'
<1>1. /\ interrupt_status_reg'.xb = TRUE
      /\ interrupt_status_reg'.ub = interrupt_status_reg.ub
  BY XbusUpdates DEF Sigalrm, IInv, TypeOK
<1>2. tv_irq' = TRUE /\ interrupt_pending_flag' = TRUE
  BY <1>1 DEF Sigalrm, Pending
<1>3. QED
  BY <1>1, <1>2 DEF Sigalrm, IInv, TypeOK, FlagInv, IdleInv, DeassertInv, NewInv,
     StoredInv, OnlyTvMasked, XbusHasSource, OnlyTvWriteHidesDisk, Idle, Pending

LEMMA NextIInv == IInv /\ [Next]_vars => IInv'
<1> SUFFICES ASSUME IInv, [Next]_vars PROVE IInv'
  OBVIOUS
<1>1. TypeOK'
  BY TypeInductive DEF IInv
<1>2. CASE Begin
  BY <1>1, <1>2, BeginKeepsInv DEF IInv
<1>3. CASE Continue
  BY <1>1, <1>3, ContinueKeepsInv DEF IInv
<1>4. CASE Sigalrm
  BY <1>1, <1>4, SigalrmKeepsInv DEF IInv
<1>5. CASE UNCHANGED vars
  BY <1>5 DEF vars, IInv, TypeOK, FlagInv, IdleInv, DeassertInv, NewInv, StoredInv,
     OnlyTvMasked, XbusHasSource, OnlyTvWriteHidesDisk, Idle, Pending
<1>6. QED
  BY <1>2, <1>3, <1>4, <1>5 DEF Next

LEMMA SpecIInv == Spec => []IInv
<1>1. QED
  BY InitIInv, NextIInv, PTL DEF Spec

(***************************************************************************)
(* The register, the flag and the value being stored have their types.     *)
(***************************************************************************)
THEOREM TypeCorrect == Spec => []TypeOK
<1>1. IInv => TypeOK
  BY DEF IInv
<1>2. QED
  BY <1>1, SpecIInv, PTL

(***************************************************************************)
(* The microcode never sees a pending flag without a pending request, and  *)
(* never misses a Unibus request that the register holds.                  *)
(***************************************************************************)
THEOREM FlagFollowsRegister == Spec => []FlagMatchesRequests
<1>1. IInv => FlagMatchesRequests
  BY DEF IInv, FlagInv, FlagMatchesRequests, NoSpuriousInterrupt, UnibusNeverMasked, Idle
<1>2. QED
  BY <1>1, SpecIInv, PTL

(***************************************************************************)
(* A hidden Xbus request is the TV's, and a set Xbus bit has a device      *)
(* behind it.                                                              *)
(***************************************************************************)
THEOREM XbusBitAccounted == Spec => []XbusAccounted
<1>1. IInv => XbusAccounted
  BY DEF IInv, IdleInv, XbusAccounted, OnlyTvMasked, XbusHasSource, Idle
<1>2. QED
  BY <1>1, SpecIInv, PTL

(***************************************************************************)
(* A disk completion is visible to the microcode until the driver          *)
(* withdraws it or writes tv_csr.                                          *)
(***************************************************************************)
THEOREM DiskCompletionVisible == Spec => []OnlyTvWriteHidesDisk
<1>1. IInv => OnlyTvWriteHidesDisk
  BY DEF IInv, IdleInv, OnlyTvWriteHidesDisk, Idle
<1>2. QED
  BY <1>1, SpecIInv, PTL

-----------------------------------------------------------------------------
(***************************************************************************)
(* Words: rotations and masks.                                             *)
(***************************************************************************)
LEMMA WrapOnce ==
  ASSUME NEW x \in 0 .. 2 * W - 1
  PROVE  x % W = IF x < W THEN x ELSE x - W
<1>1. W \in Nat \ {0}
  BY WidthAssumption
<1>2. CASE x < W
  <2>1. x \in 0 .. W - 1
    BY <1>1, <1>2
  <2> QED BY <1>1, <1>2, <2>1
<1>3. CASE ~(x < W)
  <2>1. x \in W .. 2 * W - 1
    BY <1>1, <1>3
  <2> QED BY <1>1, <1>3, <2>1
<1> QED BY <1>2, <1>3

\* Bit k of a word rotated by n places was bit k - n.
Before(n, k) == IF k >= n THEN k - n ELSE k - n + W

LEMMA Rotated ==
  ASSUME NEW w \in AllWords, NEW n \in Bits, NEW k \in Bits
  PROVE  k \in rotate_left(w, n) <=> Before(n, k) \in w
<1>1. W \in Nat \ {0} /\ n \in 0 .. W - 1 /\ k \in 0 .. W - 1
  BY WidthAssumption DEF Bits
<1>2. PICK c \in 0 .. W - 1 : c = Before(n, k)
  BY <1>1 DEF Before
<1>3. (c + n) % W = k
  <2>1. PICK x \in 0 .. 2 * W - 1 : x = c + n
    BY <1>1
  <2>2. x % W = IF x < W THEN x ELSE x - W
    BY WrapOnce
  <2>3. k = IF x < W THEN x ELSE x - W
    BY <1>1, <1>2, <2>1 DEF Before
  <2> QED BY <2>1, <2>2, <2>3
<1>4. ASSUME NEW b \in w, (b + n) % W = k PROVE b = c
  <2>1. b \in 0 .. W - 1
    BY DEF AllWords, Bits
  <2>2. PICK x \in 0 .. 2 * W - 1 : x = b + n
    BY <1>1, <2>1
  <2>3. x % W = IF x < W THEN x ELSE x - W
    BY WrapOnce
  <2>4. k = IF x < W THEN x ELSE x - W
    BY <1>4, <2>2, <2>3
  <2> QED BY <1>1, <1>2, <2>1, <2>2, <2>4 DEF Before
<1>5. k \in rotate_left(w, n) <=> \E b \in w : (b + n) % W = k
  BY Zenon DEF rotate_left
<1> QED BY <1>2, <1>3, <1>4, <1>5

LEMMA RotatedWord ==
  ASSUME NEW w \in AllWords, NEW n \in Bits
  PROVE  rotate_left(w, n) \in AllWords
<1>1. \A b \in w : (b + n) % W \in Bits
  <2>1. W \in Nat \ {0} /\ n \in Nat /\ \A b \in w : b \in Nat
    BY WidthAssumption DEF AllWords, Bits
  <2> QED BY <2>1 DEF Bits
<1> QED BY <1>1 DEF rotate_left, AllWords

\* A mask has the bits of the byte, and none when the byte runs off the word.
LEMMA MaskBits ==
  ASSUME NEW f \in Fields
  PROVE  Mask(f.low, f.width - 1) = IF Fits(f) THEN BitsOf(f) ELSE {}
<1>1. W \in Nat \ {0}
  BY WidthAssumption
<1>2. PICK p \in 0 .. W - 1 : p = f.low
  BY DEF Fields, Bits
<1>3. PICK v \in 0 .. W - 1 : v = f.width - 1
  BY <1>1 DEF Fields
<1>w. f.width = v + 1
  BY <1>1, <1>3 DEF Fields
<1>4. PICK x \in 0 .. 2 * W - 1 : x = p + v
  BY <1>1
<1>5. x % W = IF x < W THEN x ELSE x - W
  BY WrapOnce
<1>6. Mask(f.low, f.width - 1) = (0 .. x % W) \cap (p .. W - 1)
  BY <1>2, <1>3, <1>4 DEF Mask
<1>7. Fits(f) <=> x < W
  BY <1>1, <1>2, <1>w, <1>4 DEF Fits
<1>8. CASE x < W
  <2>1. (0 .. x) \cap (p .. W - 1) = p .. x
    BY <1>1, <1>4, <1>8
  <2>2. BitsOf(f) = p .. x
    BY <1>2, <1>w, <1>4 DEF BitsOf
  <2> QED BY <1>5, <1>6, <1>7, <1>8, <2>1, <2>2
<1>9. CASE ~(x < W)
  <2>1. x - W < p
    BY <1>1, <1>4
  <2>2. (0 .. x - W) \cap (p .. W - 1) = {}
    BY <1>1, <1>9, <2>1
  <2> QED BY <1>5, <1>6, <1>7, <1>9, <2>2
<1> QED BY <1>8, <1>9

LEMMA MaskLow ==
  ASSUME NEW f \in Fields
  PROVE  Mask(0, f.width - 1) = 0 .. f.width - 1
<1>1. PICK g : g = [low |-> 0, width |-> f.width]
  OBVIOUS
<1>2. g \in Fields /\ g.low = 0 /\ g.width = f.width /\ Fits(g)
  BY <1>1, WidthAssumption DEF Fields, Fits, Bits
<1>3. Mask(g.low, g.width - 1) = BitsOf(g)
  BY <1>2, MaskBits
<1> QED BY <1>2, <1>3 DEF BitsOf, Fields

-----------------------------------------------------------------------------
(***************************************************************************)
(* Types.                                                                  *)
(***************************************************************************)
LEMMA ShiftedWords ==
  ASSUME NEW w \in AllWords, NEW top \in BOOLEAN
  PROVE  /\ ShiftLeft(w) \cup (IF top THEN {} ELSE {0}) \in AllWords
         /\ ShiftLeft(w) \cup (IF top THEN {0} ELSE {}) \in AllWords
         /\ ShiftRight(w) \cup (IF top THEN {Sign} ELSE {}) \in AllWords
<1>1. W \in Nat \ {0} /\ 0 \in Bits /\ Sign \in Bits
  BY WidthAssumption DEF Bits, Sign
<1>2. ASSUME NEW b \in w \ {Sign} PROVE b + 1 \in Bits
  BY <1>1 DEF AllWords, Bits, Sign
<1>3. ASSUME NEW b \in w \ {0} PROVE b - 1 \in Bits
  BY <1>1 DEF AllWords, Bits
<1>4. ShiftLeft(w) \subseteq Bits
  BY <1>2 DEF ShiftLeft
<1>5. ShiftRight(w) \subseteq Bits
  BY <1>3 DEF ShiftRight
<1> QED BY <1>1, <1>4, <1>5 DEF AllWords

LEMMA ArithmeticGivesWord == \A n : ToWord(n) \in AllWords
BY DEF ToWord, AllWords

LEMMA BooleanGivesWord ==
  ASSUME NEW op \in BooleanOps, NEW x \in AllWords, NEW y \in AllWords
  PROVE  BooleanFunction(op, x, y) \in AllWords
<1>1. x \subseteq Bits /\ y \subseteq Bits /\ 0 \in Bits
  BY WidthAssumption DEF AllWords, Bits
<1> QED BY <1>1 DEF BooleanFunction, BooleanOps, Complement, Ones, Xor, AllWords

LEMMA FunctionGivesWord ==
  ASSUME NEW op \in BooleanOps \cup ArithmeticOps
                      \cup {MULTIPLY_STEP, DIVIDE_STEP, REMAINDER_CORRECTION,
                            INITIAL_DIVIDE_STEP},
         NEW x \in AllWords, NEW y \in AllWords, NEW ci, NEW qreg, NEW old \in AllWords
  PROVE  Function(op, x, y, ci, qreg, old).out \in AllWords
<1>1. CASE op \in BooleanOps
  BY <1>1, BooleanGivesWord DEF Function, Result
<1>2. CASE op \in ArithmeticOps
  <2>1. ArithmeticFunction(op, x, y, ci).out \in AllWords
    <3>1. {} \in AllWords /\ Ones \in AllWords
      BY DEF AllWords, Ones
    <3> QED BY <1>2, <3>1, ArithmeticGivesWord
            DEF ArithmeticFunction, ArithmeticOps, Exact, Result, add32, sub32
  <2>2. op \notin BooleanOps
    BY <1>2 DEF BooleanOps, ArithmeticOps
  <2> QED BY <1>2, <2>1, <2>2 DEF Function
<1>3. CASE op \in {MULTIPLY_STEP, DIVIDE_STEP, REMAINDER_CORRECTION, INITIAL_DIVIDE_STEP}
  <2>1. op \notin BooleanOps /\ op \notin ArithmeticOps
    BY <1>3 DEF BooleanOps, ArithmeticOps, MULTIPLY_STEP, DIVIDE_STEP,
                REMAINDER_CORRECTION, INITIAL_DIVIDE_STEP
  <2>2. ConditionalFunction(op, x, y, ci, qreg, old).out \in AllWords
    BY <1>3, ArithmeticGivesWord
       DEF ConditionalFunction, Correct, Exact, Result, add32, sub32, MULTIPLY_STEP,
           DIVIDE_STEP, REMAINDER_CORRECTION, INITIAL_DIVIDE_STEP
  <2> QED BY <2>1, <2>2 DEF Function
<1> QED BY <1>1, <1>2, <1>3

LEMMA QControlGivesWord ==
  ASSUME NEW control \in {NoQ, ShiftQLeft, ShiftQRight, LoadQ},
         NEW w \in AllWords, NEW out \in AllWords
  PROVE  QControl(control, w, out) \in AllWords
BY ShiftedWords DEF QControl, NoQ, ShiftQLeft, ShiftQRight, LoadQ

LEMMA OutputBusGivesWord ==
  ASSUME NEW bus \in {Straight, RightOne, LeftOne}, NEW r, r.out \in AllWords, NEW w
  PROVE  OutputBus(bus, r, w) \in AllWords
<1>1. CASE bus = Straight
  BY <1>1 DEF OutputBus, Straight, RightOne, LeftOne
<1>2. CASE bus = RightOne
  <2>1. PICK top \in BOOLEAN : top <=> r.carry
    OBVIOUS
  <2> QED BY <1>2, <2>1, ShiftedWords DEF OutputBus, Straight, RightOne, LeftOne
<1>3. CASE bus = LeftOne
  <2>1. PICK top \in BOOLEAN : top <=> Sign \in w
    OBVIOUS
  <2> QED BY <1>3, <2>1, ShiftedWords DEF OutputBus, Straight, RightOne, LeftOne
<1> QED BY <1>1, <1>2, <1>3

LEMMA ExecuteKeepsWords ==
  ASSUME RegistersHoldWords,
         NEW op \in BooleanOps \cup ArithmeticOps
                      \cup {MULTIPLY_STEP, DIVIDE_STEP, REMAINDER_CORRECTION,
                            INITIAL_DIVIDE_STEP},
         NEW ci, NEW control \in {NoQ, ShiftQLeft, ShiftQRight, LoadQ},
         NEW bus \in {Straight, RightOne, LeftOne},
         Execute(op, ci, control, bus)
  PROVE  RegistersHoldWords'
<1>1. PICK r : r = Function(op, m, a, ci, q, alu_out)
  OBVIOUS
<1>2. m \in AllWords /\ a \in AllWords /\ q \in AllWords /\ alu_out \in AllWords
  BY DEF RegistersHoldWords
<1>3. r.out \in AllWords
  BY <1>1, <1>2, FunctionGivesWord
<1>4. /\ alu_out' = r.out /\ q' = QControl(control, q, r.out)
      /\ m' = OutputBus(bus, r, q) /\ a' = a
  BY <1>1 DEF Execute
<1>5. q' \in AllWords
  BY <1>2, <1>3, <1>4, QControlGivesWord
<1>6. m' \in AllWords
  BY <1>3, <1>4, OutputBusGivesWord
<1> QED BY <1>2, <1>3, <1>4, <1>5, <1>6 DEF RegistersHoldWords

LEMMA MergeGivesWord ==
  ASSUME NEW mask, NEW x \in AllWords, NEW y \in AllWords
  PROVE  Merge(mask, x, y) \in AllWords
BY DEF Merge, AllWords

\* The bytes of a program are bytes.
LEMMA ProgramKinds ==
  ASSUME NEW p \in Programs
  PROVE  /\ p.kind = "copy" =>
              /\ p.from \in Fields /\ p.to \in Fields
              /\ Fits(p.from) /\ Fits(p.to) /\ p.from.width = p.to.width
         /\ p.kind = "select" => p.to \in Fields
BY DEF Programs

LEMMA InitProgramTypes == ProgramsInit => ProgramsTypeOK
<1> SUFFICES ASSUME ProgramsInit PROVE ProgramsTypeOK
  OBVIOUS
<1>1. {} \in AllWords
  BY DEF AllWords
<1>2. /\ program \in Programs /\ step \in Nat /\ alu_out = {}
      /\ dispatch_memory = [i \in Addresses |-> NoEntry]
  BY DEF ProgramsInit
<1>3. m \in AllWords
  <2>1. SUBSET (DestinationBits(program)) \subseteq AllWords
    BY WidthAssumption, TwoBitsAssumption DEF DestinationBits, AllWords, Bits
  <2> QED BY <1>1, <2>1 DEF ProgramsInit
<1>4. a \in AllWords
  BY <1>1 DEF ProgramsInit
<1>5. q \in AllWords
  BY <1>1 DEF ProgramsInit
<1>6. TableHoldsEntries
  BY <1>2 DEF TableHoldsEntries
<1> QED BY <1>1, <1>2, <1>3, <1>4, <1>5, <1>6 DEF ProgramsTypeOK, RegistersHoldWords

\* Each instruction in turn.
LEMMA AluKeepsTypes ==
  ASSUME ProgramsTypeOK,
         \/ Single \/ Multiply
         \/ DivideFirst \/ Divide \/ DivideLast \/ CorrectRemainder
  PROVE  ProgramsTypeOK'
<1>1. RegistersHoldWords
  BY DEF ProgramsTypeOK
<1>2. RegistersHoldWords' /\ dispatch_memory' = dispatch_memory
  <2>1. CASE Single
    <3>1. PICK op \in BooleanOps \cup ArithmeticOps, ci \in BOOLEAN,
               bus \in {Straight, RightOne, LeftOne}, control \in {NoQ, LoadQ} :
            Execute(op, ci, control, bus)
      BY <2>1 DEF Single
    <3>2. dispatch_memory' = dispatch_memory
      BY <3>1 DEF Execute, tables
    <3> QED BY <1>1, <3>1, <3>2, ExecuteKeepsWords
  <2>2. CASE Multiply
    <3>1. Execute(MULTIPLY_STEP, FALSE, ShiftQRight, RightOne)
      BY <2>2 DEF Multiply
    <3>2. dispatch_memory' = dispatch_memory
      BY <3>1 DEF Execute, tables
    <3> QED BY <1>1, <3>1, <3>2, ExecuteKeepsWords
  <2>3. CASE DivideFirst
    <3>1. Execute(INITIAL_DIVIDE_STEP, FALSE, ShiftQLeft, LeftOne)
      BY <2>3 DEF DivideFirst
    <3>2. dispatch_memory' = dispatch_memory
      BY <3>1 DEF Execute, tables
    <3> QED BY <1>1, <3>1, <3>2, ExecuteKeepsWords
  <2>4. CASE Divide
    <3>1. Execute(DIVIDE_STEP, FALSE, ShiftQLeft, LeftOne)
      BY <2>4 DEF Divide
    <3>2. dispatch_memory' = dispatch_memory
      BY <3>1 DEF Execute, tables
    <3> QED BY <1>1, <3>1, <3>2, ExecuteKeepsWords
  <2>5. CASE DivideLast
    <3>1. Execute(DIVIDE_STEP, FALSE, ShiftQLeft, Straight)
      BY <2>5 DEF DivideLast
    <3>2. dispatch_memory' = dispatch_memory
      BY <3>1 DEF Execute, tables
    <3> QED BY <1>1, <3>1, <3>2, ExecuteKeepsWords
  <2>6. CASE CorrectRemainder
    <3>1. Execute(REMAINDER_CORRECTION, FALSE, NoQ, Straight)
      BY <2>6 DEF CorrectRemainder
    <3>2. dispatch_memory' = dispatch_memory
      BY <3>1 DEF Execute, tables
    <3> QED BY <1>1, <3>1, <3>2, ExecuteKeepsWords
  <2> QED BY <2>1, <2>2, <2>3, <2>4, <2>5, <2>6
<1>3. program' = program /\ step' = step + 1
  BY DEF Single, Multiply, DivideFirst, Divide, DivideLast, CorrectRemainder, At
<1> QED BY <1>2, <1>3 DEF ProgramsTypeOK, TableHoldsEntries

LEMMA BytesKeepTypes ==
  ASSUME ProgramsTypeOK, LoadByte \/ DepositByte \/ SelectByte
  PROVE  ProgramsTypeOK'
<1>1. /\ program' = program /\ step' = step + 1
      /\ dispatch_memory' = dispatch_memory /\ q' = q /\ alu_out' = alu_out
  BY DEF LoadByte, DepositByte, SelectByte, At, tables
<1>2. /\ m \in AllWords /\ a \in AllWords /\ q \in AllWords /\ alu_out \in AllWords
      /\ {} \in AllWords
  BY DEF ProgramsTypeOK, RegistersHoldWords, AllWords
<1>3. /\ program.kind = "copy" =>
           program.from \in Fields /\ program.to \in Fields
      /\ program.kind = "select" => program.to \in Fields
  BY ProgramKinds DEF ProgramsTypeOK
<1>4. m' \in AllWords /\ a' \in AllWords
  <2>1. CASE LoadByte
    <3>1. (W - program.from.low) % W \in Bits
      <4>1. program.from.low \in 0 .. W - 1
        BY <1>3, <2>1 DEF LoadByte, At, Fields, Bits
      <4>2. W \in Nat \ {0} /\ W - program.from.low \in Nat
        BY <4>1, WidthAssumption
      <4> QED BY <4>2 DEF Bits
    <3> QED BY <1>2, <2>1, <3>1, RotatedWord, MergeGivesWord DEF LoadByte, LDB
  <2>2. CASE DepositByte
    <3>1. program.to.low \in Bits
      BY <1>3, <2>2 DEF DepositByte, At, Fields
    <3> QED BY <1>2, <2>2, <3>1, RotatedWord, MergeGivesWord DEF DepositByte, DPB
  <2>3. CASE SelectByte
    BY <1>2, <2>3, MergeGivesWord DEF SelectByte, SelectiveDeposit
  <2> QED BY <2>1, <2>2, <2>3
<1> QED BY <1>1, <1>2, <1>4 DEF ProgramsTypeOK, RegistersHoldWords, TableHoldsEntries

LEMMA TablesKeepTypes ==
  ASSUME ProgramsTypeOK, WriteDispatchMemory \/ DispatchOnBits \/ SetModifier \/ Store
  PROVE  ProgramsTypeOK'
<1>1. program' = program /\ step' = step + 1 /\ UNCHANGED registers
  BY DEF WriteDispatchMemory, DispatchOnBits, SetModifier, Store, At
<1>2. RegistersHoldWords'
  BY <1>1 DEF ProgramsTypeOK, RegistersHoldWords, registers
<1>3. TableHoldsEntries'
  <2>1. CASE WriteDispatchMemory
    <3>1. /\ program.kind = "dispatch" /\ step \in 0 .. Entries(program.table) - 1
          /\ dispatch_memory'
             = [dispatch_memory EXCEPT ![program.table.base + step] = step]
      BY <2>1 DEF WriteDispatchMemory, At
    <3> QED BY <1>1, <3>1 DEF ProgramsTypeOK, TableHoldsEntries
  <2>2. CASE DispatchOnBits \/ SetModifier \/ Store
    <3>1. dispatch_memory' = dispatch_memory
      BY <2>2 DEF DispatchOnBits, SetModifier, Store, tables
    <3> QED BY <1>1, <3>1 DEF ProgramsTypeOK, TableHoldsEntries
  <2> QED BY <2>1, <2>2
<1> QED BY <1>1, <1>2, <1>3 DEF ProgramsTypeOK

LEMMA NextProgramTypes == ProgramsTypeOK /\ [ProgramsNext]_programVars => ProgramsTypeOK'
<1> SUFFICES ASSUME ProgramsTypeOK, [ProgramsNext]_programVars PROVE ProgramsTypeOK'
  OBVIOUS
<1>1. CASE \/ Single \/ Multiply
           \/ DivideFirst \/ Divide \/ DivideLast \/ CorrectRemainder
  BY <1>1, AluKeepsTypes
<1>2. CASE LoadByte \/ DepositByte \/ SelectByte
  BY <1>2, BytesKeepTypes
<1>3. CASE WriteDispatchMemory \/ DispatchOnBits \/ SetModifier \/ Store
  BY <1>3, TablesKeepTypes
<1>4. CASE UNCHANGED programVars
  BY <1>4 DEF ProgramsTypeOK, RegistersHoldWords, TableHoldsEntries, programVars, registers, tables
<1> QED BY <1>1, <1>2, <1>3, <1>4, Zenon DEF ProgramsNext

(***************************************************************************)
(* No function, shift, rotation or merge takes a register out of the word  *)
(* (ucode.c:915-1160, 1394-1422), and the dispatch memory gets nothing but *)
(* the entries of the table.                                               *)
(***************************************************************************)
THEOREM WordsStayWords == ProgramsSpec => []ProgramsTypeOK
BY InitProgramTypes, NextProgramTypes, PTL DEF ProgramsSpec

-----------------------------------------------------------------------------
(***************************************************************************)
(* Stores through a modifier.                                              *)
(***************************************************************************)
\* What a place holds after k instructions, of which the stores to one of
\* the memories in have an effect on it.
Landed(k, in, place) ==
  LET one == program.stores[1]
      two == program.stores[2]
  IN IF k >= 3 /\ two.at = place /\ two.to \in in THEN 2
     ELSE IF k >= 2 /\ one.at \cup m = place /\ one.to \in in THEN 1
     ELSE IF k >= 1 /\ place = {} THEN TheModifier ELSE 0

\* The modifier is there for the instruction after the one that set it, and
\* each store so far is where it should be.
IndexedInv ==
  program.kind = "indexed" =>
    /\ step \in 0 .. 3
    /\ oa_reg_lo = IF step = 1 THEN m ELSE {}
    /\ a_memory = [place \in AddressesA |-> Landed(step, {"a", "m"}, place)]
    /\ m_memory = [place \in AddressesM |-> Landed(step, {"m"}, place)]

LEMMA InitIndexedInv == ProgramsInit => IndexedInv
<1> SUFFICES ASSUME ProgramsInit PROVE IndexedInv
  OBVIOUS
<1>1. \A in, place : Landed(0, in, place) = 0
  BY DEF Landed
<1>2. /\ step = 0 /\ oa_reg_lo = {}
      /\ m_memory = [at \in AddressesM |-> 0]
      /\ a_memory = [at \in AddressesA |-> 0]
  BY DEF ProgramsInit
<1> QED BY <1>1, <1>2 DEF IndexedInv

LEMMA SetModifierIndexedInv ==
  ASSUME IndexedInv, SetModifier
  PROVE  IndexedInv'
<1>1. /\ program.kind = "indexed" /\ step = 0 /\ step' = 1
      /\ program' = program /\ m' = m /\ oa_reg_lo' = m
  BY DEF SetModifier, At, registers
<1>2. /\ a_memory' = [a_memory EXCEPT ![{}] = TheModifier]
      /\ m_memory' = [m_memory EXCEPT ![{}] = TheModifier]
  BY DEF SetModifier, write_m_mem
<1>3. ASSUME NEW in, NEW place
      PROVE  /\ Landed(0, in, place) = 0
             /\ Landed(1, in, place)' = IF place = {} THEN TheModifier ELSE 0
  BY <1>1 DEF Landed
<1>4. /\ a_memory = [place \in AddressesA |-> 0]
      /\ m_memory = [place \in AddressesM |-> 0]
  BY <1>1, <1>3 DEF IndexedInv
<1>5. /\ a_memory' = [place \in AddressesA |-> IF place = {} THEN TheModifier ELSE 0]
      /\ m_memory' = [place \in AddressesM |-> IF place = {} THEN TheModifier ELSE 0]
  BY <1>2, <1>4
<1> QED BY <1>1, <1>3, <1>5 DEF IndexedInv

LEMMA StoreIndexedInv ==
  ASSUME IndexedInv, Store
  PROVE  IndexedInv'
<1> DEFINE s == program.stores[step]
           at == s.at \cup oa_reg_lo
<1>1. /\ program.kind = "indexed" /\ step \in {1, 2} /\ step' = step + 1
      /\ program' = program /\ m' = m /\ oa_reg_lo' = {}
  BY DEF Store, At, registers
<1>k. PICK k \in {1, 2} : step = k /\ step' = k + 1
  BY <1>1
<1>2. WriteDest(s, at)
  BY DEF Store
<1>3. at = IF step = 1 THEN program.stores[1].at \cup m ELSE program.stores[2].at
  BY <1>1, <1>k DEF IndexedInv
<1>4. ASSUME NEW in, NEW place
      PROVE  Landed(k + 1, in, place)'
             = IF at = place /\ s.to \in in THEN k ELSE Landed(k, in, place)
  <2>1. CASE k = 1
    BY <1>1, <1>k, <1>3, <2>1 DEF Landed
  <2>2. CASE k = 2
    <3>1. Landed(3, in, place)'
          = IF program.stores[2].at = place /\ program.stores[2].to \in in THEN 2
            ELSE Landed(2, in, place)
      <4>1. program' = program /\ m' = m
        BY <1>1
      <4> QED BY <4>1 DEF Landed
    <3>2. at = program.stores[2].at /\ s = program.stores[2]
      BY <1>k, <1>3, <2>2
    <3> HIDE DEF at, s
    <3> QED BY <2>2, <3>1, <3>2
  <2> QED BY <2>1, <2>2
<1>5. /\ a_memory = [place \in AddressesA |-> Landed(k, {"a", "m"}, place)]
      /\ m_memory = [place \in AddressesM |-> Landed(k, {"m"}, place)]
  BY <1>1, <1>k DEF IndexedInv
<1> HIDE DEF at, s
<1>6. /\ a_memory' = [place \in AddressesA |-> Landed(k + 1, {"a", "m"}, place)']
      /\ m_memory' = [place \in AddressesM |-> Landed(k + 1, {"m"}, place)']
  <2>1. CASE s.to = "m"
    <3>1. /\ a_memory' = [a_memory EXCEPT ![at] = k]
          /\ m_memory' = [m_memory EXCEPT ![at] = k]
      BY <1>2, <1>k, <2>1 DEF WriteDest, write_m_mem
    <3> QED BY <1>4, <1>5, <2>1, <3>1
  <2>2. CASE s.to = "a"
    <3>1. /\ a_memory' = [a_memory EXCEPT ![at] = k]
          /\ m_memory' = m_memory
      BY <1>2, <1>k, <2>2 DEF WriteDest, write_m_mem
    <3> QED BY <1>4, <1>5, <2>2, <3>1
  <2> QED BY <1>2, <2>1, <2>2 DEF WriteDest
<1> QED BY <1>1, <1>k, <1>6 DEF IndexedInv

\* The other instructions belong to other programs.
OtherPrograms ==
  \/ Single \/ Multiply
  \/ DivideFirst \/ Divide \/ DivideLast \/ CorrectRemainder
  \/ LoadByte \/ DepositByte \/ SelectByte
  \/ WriteDispatchMemory \/ DispatchOnBits

LEMMA NextIndexedInv == IndexedInv /\ [ProgramsNext]_programVars => IndexedInv'
<1> SUFFICES ASSUME IndexedInv, [ProgramsNext]_programVars PROVE IndexedInv'
  OBVIOUS
<1>1. CASE SetModifier
  BY <1>1, SetModifierIndexedInv
<1>2. CASE Store
  BY <1>2, StoreIndexedInv
<1>3. CASE OtherPrograms
  <2>1. program' = program /\ program.kind # "indexed"
    BY <1>3 DEF OtherPrograms, Single, Multiply, DivideFirst, Divide, DivideLast,
                CorrectRemainder, LoadByte, DepositByte, SelectByte,
                WriteDispatchMemory, DispatchOnBits, At
  <2> QED BY <2>1 DEF IndexedInv
<1>4. CASE UNCHANGED programVars
  BY <1>4 DEF IndexedInv, Landed, programVars, registers, scratchpads
<1>5. SetModifier \/ Store \/ OtherPrograms \/ UNCHANGED programVars
  BY Zenon DEF ProgramsNext, OtherPrograms
<1> QED BY <1>1, <1>2, <1>3, <1>4, <1>5, Zenon

(***************************************************************************)
(* Whatever the two stores and the modifier are, the modifier moves the    *)
(* first store and not the second, the last store to a place is what it    *)
(* holds, and M memory and its shadow in A memory differ only where an A   *)
(* destination has written (ucode.c:406, 431, 544, 620, 818-828).          *)
(***************************************************************************)
THEOREM ModifierReachesNext == ProgramsSpec => []IndexedStoresLand
<1>1. IndexedInv => IndexedStoresLand
  BY DEF IndexedInv, IndexedStoresLand, Finished, Landed
<1> QED BY <1>1, InitIndexedInv, NextIndexedInv, PTL DEF ProgramsSpec

-----------------------------------------------------------------------------
(***************************************************************************)
(* Bytes.                                                                  *)
(***************************************************************************)
\* The bits of byte f of word w, at the bottom of a word.
Low(f, w) == {k \in 0 .. f.width - 1 : f.low + k \in w}

\* The rotation that LDB is given brings a byte to the bottom of the word.
LEMMA ByteLoaded ==
  ASSUME NEW f \in Fields, Fits(f), NEW w \in AllWords
  PROVE  LDB((W - f.low) % W, f.width - 1, w, {}) = Low(f, w)
<1>1. W \in Nat \ {0}
  BY WidthAssumption
<1>2. PICK p \in 0 .. W - 1 : p = f.low
  BY DEF Fields, Bits
<1>3. PICK v \in 0 .. W - 1 : f.width = v + 1
  BY <1>1 DEF Fields
<1>4. PICK n \in 0 .. W - 1 : n = (W - p) % W /\ n = IF p = 0 THEN 0 ELSE W - p
  <2>1. PICK x \in 0 .. 2 * W - 1 : x = W - p
    BY <1>1
  <2>2. x % W = IF x < W THEN x ELSE x - W
    BY WrapOnce
  <2> QED BY <1>1, <2>1, <2>2
<1>5. ASSUME NEW k \in 0 .. f.width - 1
      PROVE  k \in rotate_left(w, n) <=> f.low + k \in w
  <2>1. k \in 0 .. W - 1 /\ p + k < W
    BY <1>1, <1>2, <1>3 DEF Fits
  <2>2. k \in rotate_left(w, n) <=> Before(n, k) \in w
    BY <2>1, Rotated DEF Bits
  <2>3. Before(n, k) = p + k
    BY <1>1, <1>4, <2>1 DEF Before
  <2> QED BY <1>2, <2>2, <2>3
<1>6. LDB(n, f.width - 1, w, {}) = rotate_left(w, n) \cap (0 .. f.width - 1)
  BY MaskLow DEF LDB, Merge
<1> QED BY <1>2, <1>4, <1>5, <1>6 DEF Low

LEMMA LowIsWord ==
  ASSUME NEW f \in Fields, NEW w \in AllWords
  PROVE  Low(f, w) \in AllWords
<1>1. f.width \in 1 .. W /\ W \in Nat
  BY WidthAssumption DEF Fields
<1>2. 0 .. f.width - 1 \subseteq Bits
  BY <1>1 DEF Bits
<1> QED BY <1>2 DEF Low, AllWords

\* The rotation of DPB brings the bottom of the word to the byte's place, and
\* its mask keeps the rest of A.
LEMMA ByteDeposited ==
  ASSUME NEW f \in Fields, Fits(f), NEW x \in AllWords, NEW y \in AllWords
  PROVE  /\ \A k \in 0 .. f.width - 1 :
                f.low + k \in DPB(f.low, f.width - 1, x, y) <=> k \in x
         /\ DPB(f.low, f.width - 1, x, y) \ BitsOf(f) = y \ BitsOf(f)
<1>1. W \in Nat \ {0}
  BY WidthAssumption
<1>2. PICK p \in 0 .. W - 1 : p = f.low
  BY DEF Fields, Bits
<1>3. PICK v \in 0 .. W - 1 : f.width = v + 1
  BY <1>1 DEF Fields
<1>4. DPB(f.low, f.width - 1, x, y)
      = (rotate_left(x, p) \cap BitsOf(f)) \cup (y \ BitsOf(f))
  BY <1>2, MaskBits DEF DPB, Merge
<1>5. ASSUME NEW k \in 0 .. f.width - 1
      PROVE  f.low + k \in BitsOf(f) /\ (f.low + k \in rotate_left(x, p) <=> k \in x)
  <2>1. PICK b \in 0 .. W - 1 : b = p + k
    BY <1>1, <1>2, <1>3 DEF Fits
  <2>2. b \in rotate_left(x, p) <=> Before(p, b) \in x
    BY Rotated DEF Bits
  <2>3. Before(p, b) = k
    BY <1>1, <2>1 DEF Before
  <2>4. f.low + k \in BitsOf(f)
    BY <1>2, <1>3 DEF BitsOf
  <2> QED BY <1>2, <2>1, <2>2, <2>3, <2>4
<1>6. DPB(f.low, f.width - 1, x, y) \ BitsOf(f) = y \ BitsOf(f)
  BY <1>4
<1>7. ASSUME NEW k \in 0 .. f.width - 1
      PROVE  f.low + k \in DPB(f.low, f.width - 1, x, y) <=> k \in x
  BY <1>4, <1>5
<1> QED BY <1>6, <1>7

\* A selective deposit.
LEMMA ByteSelected ==
  ASSUME NEW f \in Fields, NEW x, NEW y
  PROVE  SelectiveDeposit(f.low, f.width - 1, x, y)
         = LET chosen == IF Fits(f) THEN BitsOf(f) ELSE {}
           IN (x \cap chosen) \cup (y \ chosen)
BY MaskBits DEF SelectiveDeposit, Merge

\* What a copy has done after so many instructions.
CopyInv ==
  program.kind = "copy" =>
    LET f == program.from  t == program.to IN
      /\ f \in Fields /\ t \in Fields /\ Fits(f) /\ Fits(t) /\ f.width = t.width
      /\ first.m \in AllWords /\ first.a \in AllWords
      /\ step \in 0 .. 2
      /\ step = 0 => m = first.m
      /\ step = 1 => m = Low(f, first.m)
      /\ step \in {0, 1} => a = first.a
      /\ step = 2 =>
           /\ \A k \in 0 .. f.width - 1 : (t.low + k \in a) <=> (f.low + k \in first.m)
           /\ a \ BitsOf(t) = first.a \ BitsOf(t)

SelectInv ==
  program.kind = "select" =>
    /\ program.to \in Fields
    /\ step \in {0, 1}
    /\ step = 0 => m = first.m /\ a = first.a
    /\ step = 1 =>
         LET chosen == IF Fits(program.to) THEN BitsOf(program.to) ELSE {}
         IN a = (first.m \cap chosen) \cup (first.a \ chosen)

ByteInv == CopyInv /\ SelectInv

LEMMA InitByteInv == ProgramsInit => ByteInv
<1> SUFFICES ASSUME ProgramsInit PROVE ByteInv
  OBVIOUS
<1>1. program \in Programs /\ step = 0 /\ first.m = m /\ first.a = a
  BY DEF ProgramsInit
<1>2. program.kind = "copy" => m \in AllWords /\ a \in AllWords
  BY DEF ProgramsInit, InM, InA
<1>3. CopyInv
  BY <1>1, <1>2, ProgramKinds DEF CopyInv
<1>4. SelectInv
  BY <1>1, ProgramKinds DEF SelectInv
<1> QED BY <1>3, <1>4 DEF ByteInv

LEMMA LoadByteByteInv ==
  ASSUME ByteInv, LoadByte
  PROVE  ByteInv'
<1>1. /\ program.kind = "copy" /\ step = 0 /\ step' = 1
      /\ program' = program /\ first' = first /\ a' = a
  BY DEF LoadByte, At
<1>2. /\ program.from \in Fields /\ Fits(program.from)
      /\ first.m \in AllWords /\ m = first.m
  BY <1>1 DEF ByteInv, CopyInv
<1>3. m' = Low(program.from, first.m)
  BY <1>2, ByteLoaded DEF LoadByte
<1>4. CopyInv'
  BY <1>1, <1>3 DEF ByteInv, CopyInv
<1>5. SelectInv'
  BY <1>1 DEF SelectInv
<1> QED BY <1>4, <1>5 DEF ByteInv

LEMMA DepositByteByteInv ==
  ASSUME ByteInv, DepositByte
  PROVE  ByteInv'
<1>1. /\ program.kind = "copy" /\ step = 1 /\ step' = 2
      /\ program' = program /\ first' = first
  BY DEF DepositByte, At
<1>2. PICK f, t : f = program.from /\ t = program.to
  OBVIOUS
<1>3. /\ f \in Fields /\ t \in Fields /\ Fits(t) /\ f.width = t.width
      /\ first.m \in AllWords /\ first.a \in AllWords
      /\ m = Low(f, first.m) /\ a = first.a
  BY <1>1, <1>2 DEF ByteInv, CopyInv
<1>4. m \in AllWords /\ a \in AllWords
  BY <1>3, LowIsWord
<1>5. a' = DPB(t.low, t.width - 1, m, a)
  BY <1>2 DEF DepositByte
<1>6. /\ \A k \in 0 .. t.width - 1 : t.low + k \in a' <=> k \in m
      /\ a' \ BitsOf(t) = a \ BitsOf(t)
  BY <1>3, <1>4, <1>5, ByteDeposited
<1>7. \A k \in 0 .. f.width - 1 : (t.low + k \in a') <=> (f.low + k \in first.m)
  BY <1>3, <1>6 DEF Low
<1>8. CopyInv'
  BY <1>1, <1>2, <1>3, <1>6, <1>7 DEF ByteInv, CopyInv
<1>9. SelectInv'
  BY <1>1 DEF SelectInv
<1> QED BY <1>8, <1>9 DEF ByteInv

LEMMA SelectByteByteInv ==
  ASSUME ByteInv, SelectByte
  PROVE  ByteInv'
<1>1. /\ program.kind = "select" /\ step = 0 /\ step' = 1
      /\ program' = program /\ first' = first
  BY DEF SelectByte, At
<1>2. program.to \in Fields /\ m = first.m /\ a = first.a
  BY <1>1 DEF ByteInv, SelectInv
<1>3. a' = LET chosen == IF Fits(program.to) THEN BitsOf(program.to) ELSE {}
           IN (first.m \cap chosen) \cup (first.a \ chosen)
  BY <1>2, ByteSelected DEF SelectByte
<1>4. SelectInv'
  BY <1>1, <1>2, <1>3 DEF SelectInv
<1>5. CopyInv'
  BY <1>1 DEF CopyInv
<1> QED BY <1>4, <1>5 DEF ByteInv

\* The other instructions belong to programs that move no bytes.
NoByteInstruction ==
  \/ Single \/ Multiply
  \/ DivideFirst \/ Divide \/ DivideLast \/ CorrectRemainder
  \/ WriteDispatchMemory \/ DispatchOnBits \/ SetModifier \/ Store

LEMMA NextByteInv == ByteInv /\ [ProgramsNext]_programVars => ByteInv'
<1> SUFFICES ASSUME ByteInv, [ProgramsNext]_programVars PROVE ByteInv'
  OBVIOUS
<1>1. CASE LoadByte
  BY <1>1, LoadByteByteInv
<1>2. CASE DepositByte
  BY <1>2, DepositByteByteInv
<1>3. CASE SelectByte
  BY <1>3, SelectByteByteInv
<1>4. CASE NoByteInstruction
  <2>1. program' = program /\ program.kind \notin {"copy", "select"}
    BY <1>4 DEF NoByteInstruction, Single, Multiply, DivideFirst, Divide, DivideLast,
                CorrectRemainder, WriteDispatchMemory, DispatchOnBits, SetModifier, Store, At
  <2> QED BY <2>1 DEF ByteInv, CopyInv, SelectInv
<1>5. CASE UNCHANGED programVars
  BY <1>5 DEF ByteInv, CopyInv, SelectInv, programVars, registers
<1>6. LoadByte \/ DepositByte \/ SelectByte \/ NoByteInstruction \/ UNCHANGED programVars
  BY Zenon DEF ProgramsNext, NoByteInstruction
<1> QED BY <1>1, <1>2, <1>3, <1>4, <1>5, <1>6, Zenon

(***************************************************************************)
(* In words of every length, a byte loaded from anywhere and deposited     *)
(* anywhere arrives whole and changes no bit beside it, and a selective    *)
(* deposit takes exactly the byte from M (ucode.c:1380-1422).              *)
(***************************************************************************)
THEOREM BytesMove == ProgramsSpec => []BytesArrive
<1>1. ByteInv => BytesArrive
  BY DEF ByteInv, CopyInv, SelectInv, BytesArrive, Finished
<1> QED BY <1>1, InitByteInv, NextByteInv, PTL DEF ProgramsSpec

-----------------------------------------------------------------------------
(***************************************************************************)
(* Boolean functions.                                                      *)
(***************************************************************************)
\* The functions of the two operands, as the code writes them, bit by bit.
LEMMA BooleanIsTable ==
  ASSUME NEW op \in BooleanOps \ {EQV}, NEW x \in AllWords, NEW y \in AllWords
  PROVE  BooleanFunction(op, x, y) = TruthTable(op, x, y)
<1>1. x \subseteq Bits /\ y \subseteq Bits
  BY DEF AllWords
<1>2. ASSUME NEW b \in Bits
      PROVE  b \in BooleanFunction(op, x, y) <=> b \in TruthTable(op, x, y)
  <2>1. b \in TruthTable(op, x, y) <=>
          \/ (op \div 1) % 2 = 1 /\ b \in x /\ b \in y
          \/ (op \div 2) % 2 = 1 /\ b \in x /\ b \notin y
          \/ (op \div 4) % 2 = 1 /\ b \in y /\ b \notin x
          \/ (op \div 8) % 2 = 1 /\ b \notin x /\ b \notin y
    BY DEF TruthTable
  <2>2. CASE op = 0
    BY <2>1, <2>2 DEF BooleanFunction, Complement, Ones, Xor
  <2>3. CASE op = 1
    BY <2>1, <2>3 DEF BooleanFunction, Complement, Ones, Xor
  <2>4. CASE op = 2
    BY <2>1, <2>4 DEF BooleanFunction, Complement, Ones, Xor
  <2>5. CASE op = 3
    BY <2>1, <2>5 DEF BooleanFunction, Complement, Ones, Xor
  <2>6. CASE op = 4
    BY <2>1, <2>6 DEF BooleanFunction, Complement, Ones, Xor
  <2>7. CASE op = 5
    BY <2>1, <2>7 DEF BooleanFunction, Complement, Ones, Xor
  <2>8. CASE op = 6
    BY <2>1, <2>8 DEF BooleanFunction, Complement, Ones, Xor
  <2>9. CASE op = 7
    BY <2>1, <2>9 DEF BooleanFunction, Complement, Ones, Xor
  <2>10. CASE op = 8
    BY <2>1, <2>10 DEF BooleanFunction, Complement, Ones, Xor
  <2>11. CASE op = 10
    BY <2>1, <2>11 DEF BooleanFunction, Complement, Ones, Xor
  <2>12. CASE op = 11
    BY <2>1, <2>12 DEF BooleanFunction, Complement, Ones, Xor
  <2>13. CASE op = 12
    BY <2>1, <2>13 DEF BooleanFunction, Complement, Ones, Xor
  <2>14. CASE op = 13
    BY <2>1, <2>14 DEF BooleanFunction, Complement, Ones, Xor
  <2>15. CASE op = 14
    BY <2>1, <2>15 DEF BooleanFunction, Complement, Ones, Xor
  <2>16. CASE op = 15
    BY <2>1, <2>16 DEF BooleanFunction, Complement, Ones, Xor
  <2> QED
    BY <2>2, <2>3, <2>4, <2>5, <2>6, <2>7, <2>8, <2>9, <2>10,
       <2>11, <2>12, <2>13, <2>14, <2>15, <2>16 DEF BooleanOps, EQV
<1>3. BooleanFunction(op, x, y) \subseteq Bits /\ TruthTable(op, x, y) \subseteq Bits
  BY <1>1 DEF TruthTable, BooleanFunction, BooleanOps, EQV, Complement, Ones, Xor
<1> QED BY <1>2, <1>3

SingleInv ==
  program.kind = "single" =>
    /\ step \in {0, 1}
    /\ step = 0 => /\ m = first.m /\ m \in AllWords
                   /\ a = first.a /\ a \in AllWords
    /\ step = 1 => BooleansDeliver

LEMMA InitSingleInv == ProgramsInit => SingleInv
<1> SUFFICES ASSUME ProgramsInit PROVE SingleInv
  OBVIOUS
<1>1. step = 0 /\ first.m = m /\ first.a = a
  BY DEF ProgramsInit
<1>2. program.kind = "single" => m \in AllWords /\ a \in AllWords
  BY DEF ProgramsInit, InM, InA
<1> QED BY <1>1, <1>2 DEF SingleInv

LEMMA SingleSingleInv ==
  ASSUME SingleInv, Single
  PROVE  SingleInv'
<1>1. /\ program.kind = "single" /\ step = 0 /\ step' = 1
      /\ program' = program /\ first' = first
  BY DEF Single, At
<1>2. /\ m = first.m /\ m \in AllWords
      /\ a = first.a /\ a \in AllWords
  BY <1>1 DEF SingleInv
<1>3. PICK op \in BooleanOps \cup ArithmeticOps, ci \in BOOLEAN,
           bus \in {Straight, RightOne, LeftOne}, control \in {NoQ, LoadQ} :
        Execute(op, ci, control, bus)
  BY DEF Single
<1>4. last'.op = op /\ alu_out' = Function(op, m, a, ci, q, alu_out).out
  BY <1>3 DEF Execute
<1>5. BooleansDeliver'
  <2>1. SUFFICES ASSUME op \in BooleanOps \ {EQV}
                 PROVE  alu_out' = TruthTable(op, first.m, first.a)
    BY <1>1, <1>4 DEF BooleansDeliver
  <2>2. alu_out' = BooleanFunction(op, m, a)
    BY <1>4, <2>1 DEF Function, Result
  <2> QED BY <1>2, <2>1, <2>2, BooleanIsTable
<1> QED BY <1>1, <1>5 DEF SingleInv

LEMMA NextSingleInv == SingleInv /\ [ProgramsNext]_programVars => SingleInv'
<1> SUFFICES ASSUME SingleInv, [ProgramsNext]_programVars PROVE SingleInv'
  OBVIOUS
<1> DEFINE Others ==
      \/ Multiply \/ DivideFirst \/ Divide \/ DivideLast \/ CorrectRemainder
      \/ LoadByte \/ DepositByte \/ SelectByte
      \/ WriteDispatchMemory \/ DispatchOnBits \/ SetModifier \/ Store
<1>1. CASE Single
  BY <1>1, SingleSingleInv
<1>2. CASE Others
  <2>1. program' = program /\ program.kind # "single"
    BY <1>2 DEF Multiply, DivideFirst, Divide, DivideLast, CorrectRemainder, LoadByte,
                DepositByte, SelectByte, WriteDispatchMemory, DispatchOnBits, SetModifier,
                Store, At
  <2> QED BY <2>1 DEF SingleInv
<1>3. CASE UNCHANGED programVars
  BY <1>3 DEF SingleInv, BooleansDeliver, Finished, programVars, registers
<1>4. Single \/ Others \/ UNCHANGED programVars
  BY Zenon DEF ProgramsNext
<1> QED BY <1>1, <1>2, <1>3, <1>4, Zenon

(***************************************************************************)
(* Fifteen of the sixteen Boolean functions are their truth tables, in     *)
(* words of every length (ucode.c:1002-1050); what the code does for [EQV]  *)
(* is not.                                                                 *)
(***************************************************************************)
THEOREM FunctionsAreTables == ProgramsSpec => []BooleansDeliver
<1>1. SingleInv => BooleansDeliver
  BY DEF SingleInv, BooleansDeliver, Finished
<1> QED BY <1>1, InitSingleInv, NextSingleInv, PTL DEF ProgramsSpec
=============================================================================
