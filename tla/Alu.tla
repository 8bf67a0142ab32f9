-------------------------------- MODULE Alu --------------------------------
(***************************************************************************)
(* The ALU of run() in ucode.c, as functions of words: the functions of    *)
(* the ALU, the control of the Q register and the output bus.              *)
(*                                                                         *)
(* x and y are the M and the A operand, ci is the carry in.  alu_out is a  *)
(* global of the emulator: the remainder correction of a division that     *)
(* needs none leaves it as the previous instruction set it (old).          *)
(***************************************************************************)
EXTENDS Words

\* The result of a function: the word, and the carry, which stands in for
\* the sign of the result.
Result(out, carry) == [out |-> out, carry |-> carry]
Bit(b) == IF b THEN 1 ELSE 0

\* 64-bit arithmetic, and a carry when it leaves the upper half non-zero.
Exact(n) == Result(ToWord(n), n < 0)

\* Its operands are ints, so the comparison that finds the carry is signed:
\* the carry is the sign of the exact sum.
add32(x, y, ci) == Exact(Signed(x) + Signed(y) + Bit(ci))

sub32(x, y, ci) ==
  LET out == ToWord(Signed(x) - Signed(y) - Bit(~ci))
  IN Result(out, Unsigned(out) < Unsigned(x))

BooleanOps == 0 .. 15
ArithmeticOps == 16 .. 31
MULTIPLY_STEP == 32
DIVIDE_STEP == 33
REMAINDER_CORRECTION == 37
INITIAL_DIVIDE_STEP == 41

\* 000-017.  [EQV] compares the operands as numbers.
\* BooleanWithoutComplement is a mutated form.
BooleanWithoutComplement(op, x, y) ==
  CASE op = 1 -> x \cap y
    [] op = 3 -> x
    [] op = 5 -> y
    [] op = 6 -> Xor(x, y)
    [] op = 7 -> x \cup y
    [] op \in {11, 13} -> x \cup Complement(y)
    [] OTHER -> {}

BooleanFunction(op, x, y) ==
  CASE op = 0 -> {}
    [] op = 1 -> x \cap y
    [] op = 2 -> x \ y
    [] op = 3 -> x
    [] op = 4 -> y \ x
    [] op = 5 -> y
    [] op = 6 -> Xor(x, y)
    [] op = 7 -> x \cup y
    [] op = 8 -> Complement(x \cup y)
    [] op = 9 -> IF x = y THEN {0} ELSE {}
    [] op = 10 -> Complement(y)
    [] op = 11 -> x \cup Complement(y)
    [] op = 12 -> Complement(x)
    [] op = 13 -> Complement(x) \cup y
    [] op = 14 -> Complement(x \cap y)
    [] op = 15 -> Ones

\* 020-037: sums and differences of M and of Boolean functions of M and A.
ArithmeticFunction(op, x, y, ci) ==
  LET orca == Signed(x \cup Complement(y))
      ior == Signed(x \cup y)
      and == Signed(x \cap y)
      andca == Signed(x \ y)
      sx == Signed(x)
      c == Bit(ci)
  IN CASE op = 16 -> Result(IF ci THEN {} ELSE Ones, FALSE)
       [] op = 17 -> Exact(and - Bit(~ci))
       [] op = 18 -> Exact(andca - Bit(~ci))
       [] op = 19 -> Exact(sx - Bit(~ci))
       [] op = 20 -> Exact(orca + c)
       [] op = 21 -> Exact(orca + and + c)
       [] op = 22 -> sub32(x, y, ci)
       [] op = 23 -> Exact(orca + sx + c)
       [] op = 24 -> Exact(ior + c)
       [] op = 25 -> add32(x, y, ci)
       [] op = 26 -> Exact(ior + andca + c)
       [] op = 27 -> Exact(ior + sx + c)
       [] op = 28 -> Result(ToWord(sx + c), x = Ones /\ ci)
       [] op = 29 -> Exact(sx + and + c)
       [] op = 30 -> Exact(sx + orca + c)
       [] op = 31 -> add32(x, x, ci)

\* alu_out is unsigned, and so is the comparison here, which the macro makes
\* with the sum already in alu_out.
Correct(y, ci, old) ==
  LET out == ToWord(Unsigned(old) + Unsigned(y) + Bit(ci))
      rest == Unsigned(Complement(out))
  IN Result(out, IF ci THEN Unsigned(y) < rest ELSE Unsigned(y) <= rest)

\* The conditional functions look at the low bit of Q.  MultiplyPassesNoSign
\* is a mutated form.
MultiplyPassesNoSign(op, x, y, ci, q, old) ==
  LET low == 0 \in q
  IN CASE op = MULTIPLY_STEP ->
            IF low THEN add32(y, x, ci) ELSE Result(x, FALSE)
       [] op = DIVIDE_STEP ->
            IF low THEN sub32(x, y, ~ci) ELSE add32(x, y, ci)
       [] op = REMAINDER_CORRECTION ->
            IF low THEN Result(old, FALSE) ELSE Correct(y, ci, old)
       [] op = INITIAL_DIVIDE_STEP -> sub32(x, y, ~ci)

ConditionalFunction(op, x, y, ci, q, old) ==
  LET low == 0 \in q
  IN CASE op = MULTIPLY_STEP ->
            IF low THEN add32(y, x, ci) ELSE Result(x, Sign \in x)
       [] op = DIVIDE_STEP ->
            IF low THEN sub32(x, y, ~ci) ELSE add32(x, y, ci)
       [] op = REMAINDER_CORRECTION ->
            IF low THEN Result(old, FALSE) ELSE Correct(y, ci, old)
       [] op = INITIAL_DIVIDE_STEP -> sub32(x, y, ~ci)

Function(op, x, y, ci, q, old) ==
  IF op \in BooleanOps THEN Result(BooleanFunction(op, x, y), FALSE)
  ELSE IF op \in ArithmeticOps THEN ArithmeticFunction(op, x, y, ci)
  ELSE ConditionalFunction(op, x, y, ci, q, old)

NoQ == 0  ShiftQLeft == 1  ShiftQRight == 2  LoadQ == 3

QControl(control, q, out) ==
  CASE control = NoQ -> q
    [] control = ShiftQLeft ->
         ShiftLeft(q) \cup (IF Sign \in out THEN {} ELSE {0})
    [] control = ShiftQRight ->
         ShiftRight(q) \cup (IF 0 \in out THEN {Sign} ELSE {})
    [] control = LoadQ -> out

Straight == 1  RightOne == 2  LeftOne == 3

\* The bit shifted in on the right is that of Q before Q control.  Bus 0,
\* which the emulator reports as a mistake, is left out.
OutputBus(bus, r, q) ==
  CASE bus = Straight -> r.out
    [] bus = RightOne -> ShiftRight(r.out) \cup (IF r.carry THEN {Sign} ELSE {})
    [] bus = LeftOne -> ShiftLeft(r.out) \cup (IF Sign \in q THEN {0} ELSE {})
=============================================================================
