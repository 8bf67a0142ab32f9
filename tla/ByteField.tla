----------------------------- MODULE ByteField -----------------------------
(***************************************************************************)
(* The BYTE and DISPATCH instructions of run() in ucode.c, as functions of *)
(* words: rotation, masks and the merge of M into A, and the address of a  *)
(* dispatch.  The width of words must be a power of 2, because the code    *)
(* computes masks with & 037.                                              *)
(***************************************************************************)
EXTENDS Words

CONSTANT AddressBits   \* bits of an address of the dispatch memory (11)

\* left_mask and right_mask: bits 0 .. left, and bits right .. W - 1.
Mask(pos, widthm1) == (0 .. (pos + widthm1) % W) \cap (pos .. W - 1)

Merge(mask, x, y) == (x \cap mask) \cup (y \ mask)

\* LDB rotates M and masks on the right; the selective deposit masks where
\* the byte is; DPB does both.  LDBMaskInPlace is a mutated form.
LDBMaskInPlace(pos, widthm1, x, y) == Merge(Mask(pos, widthm1), rotate_left(x, pos), y)
LDB(pos, widthm1, x, y) == Merge(Mask(0, widthm1), rotate_left(x, pos), y)
SelectiveDeposit(pos, widthm1, x, y) == Merge(Mask(pos, widthm1), x, y)
DPB(pos, widthm1, x, y) == Merge(Mask(pos, widthm1), rotate_left(x, pos), y)

\* The mask of a dispatch has len bits, and none when len is 0.
DispatchMask(len) == IF len = 0 THEN {} ELSE 0 .. len - 1

MapBit(map, bit18, bit19) ==
  CASE map = 0 -> {}
    [] map = 1 -> IF bit18 THEN {0} ELSE {}
    [] map = 2 -> IF bit19 THEN {0} ELSE {}
    [] map = 3 -> IF bit18 \/ bit19 THEN {0} ELSE {}

\* The base is a word of AddressBits bits, and the index is ORed into it.
DispatchAddress(base, index) ==
  LET baseBits == {b \in 0 .. AddressBits - 1 : (base \div (2 ^ b)) % 2 = 1}
  IN Unsigned((baseBits \cup index) \cap (0 .. AddressBits - 1))
=============================================================================
