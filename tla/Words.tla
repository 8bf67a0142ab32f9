------------------------------- MODULE Words -------------------------------
(***************************************************************************)
(* Machine words as sets of bit numbers: bit b is set in word w iff b \in w.*)
(* The machine's words have 32 bits; the width is a parameter.             *)
(***************************************************************************)
EXTENDS Integers, FiniteSets, FiniteSetsExt

CONSTANT W            \* bits in a word (32)

ASSUME WidthAssumption == W \in Nat \ {0}

Bits == 0 .. W - 1
AllWords == SUBSET Bits
Ones == Bits
Sign == W - 1

Complement(w) == Bits \ w
Xor(v, w) == (v \ w) \cup (w \ v)

Unsigned(w) == MapThenSumSet(LAMBDA b : 2 ^ b, w)
Signed(w) == IF Sign \in w THEN Unsigned(w) - 2 ^ W ELSE Unsigned(w)

\* Two's complement arithmetic keeps the low W bits.
ToWord(n) == {b \in Bits : (n \div (2 ^ b)) % 2 = 1}

ShiftLeft(w) == {b + 1 : b \in w \ {Sign}}
ShiftRight(w) == {b - 1 : b \in w \ {0}}

rotate_left(w, n) == {(b + n) % W : b \in w}
=============================================================================
