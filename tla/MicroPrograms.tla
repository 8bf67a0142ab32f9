--------------------------- MODULE MicroPrograms ---------------------------
(***************************************************************************)
(* Short sequences of microinstructions that mean something only together: *)
(* a multiplication or a division by its steps, a byte moved by a load and *)
(* a deposit, a table written to the dispatch memory and a dispatch on it, *)
(* a store whose address the instruction before it has modified; and, for  *)
(* comparison, one ALU function or one selective deposit.  The functions   *)
(* of the ALU and of bytes are those of run() (Alu, ByteField).            *)
(***************************************************************************)
EXTENDS Alu, ByteField

\* Addresses and map bits take up two bits of a word here.
ASSUME TwoBitsAssumption == W > 1

VARIABLES
  m, a,             \* the registers the instructions work on
  q, alu_out,
  dispatch_memory,  \* address -> the value whose entry is there
  taken,            \* the entry dispatched to, or NoEntry
  m_memory, a_memory,
                    \* address, a set of bits -> the step that stored there
  oa_reg_lo,        \* the bits the next instruction is modified by
  program,          \* what the microcode is doing: see Programs
  step,             \* instructions executed
  last,             \* history: the ALU function computed last
  first             \* history: the registers as they were in the beginning

registers == <<m, a, q, alu_out>>
tables == <<dispatch_memory, taken>>
scratchpads == <<m_memory, a_memory, oa_reg_lo>>
programVars == <<registers, tables, scratchpads, program, step, last, first>>

NoEntry == 0 - 1
Addresses == 0 .. 2 ^ AddressBits - 1

\* A byte of width bits whose lowest is bit number low.
Fields == [low : Bits, width : 1 .. W]
Fits(f) == f.low + f.width <= W
BitsOf(f) == f.low .. f.low + f.width - 1

\* A table of 2^len entries, and what it is indexed by: a byte of len bits,
\* or, when map is not 0, one of the map bits of MD.
Tables == [base : Addresses, len : 0 .. AddressBits, low : Bits, map : 0 .. 3]
Entries(t) == 2 ^ (IF t.map = 0 THEN t.len ELSE 1)
Aligned(t) == t.base % Entries(t) = 0

\* Addresses in A memory, of which those without bit 1 are in M memory too.
AddressesA == SUBSET {0, 1}
AddressesM == SUBSET {0}

\* Two stores, to A or to M memory, behind a modifier.
Stores == [to : {"a"}, at : AddressesA] \cup [to : {"m"}, at : AddressesM]

Programs ==
  [kind : {"single", "multiply", "divide"}]
    \cup {p \in [kind : {"copy"}, from : Fields, to : Fields] :
            Fits(p.from) /\ Fits(p.to) /\ p.from.width = p.to.width}
    \cup [kind : {"select"}, to : Fields]
    \cup {p \in [kind : {"dispatch"}, table : Tables] :
            /\ Aligned(p.table)
            /\ p.table.map # 0 => p.table.len = 0 /\ p.table.low = 0}
    \cup [kind : {"indexed"}, stores : Stores \X Stores]

InM == {"copy", "select", "dispatch"}
InA == {"single", "multiply", "copy", "select"}
InQ == {"multiply", "divide"}

TheModifier == 3    \* what the first instruction stores

\* The bits of the address that the first of the two stores takes.
DestinationBits(p) == IF p.stores[1].to = "a" THEN {0, 1} ELSE {0}

ProgramsInit ==
  /\ program \in Programs
  /\ m \in (IF program.kind \in InM \cup {"single"} THEN AllWords
            ELSE IF program.kind = "indexed" THEN SUBSET (DestinationBits(program))
            ELSE {{}})
  /\ a \in (IF program.kind \in InA THEN AllWords
            ELSE IF program.kind = "divide" THEN {w \in AllWords : Signed(w) > 0}
            ELSE {{}})
  /\ q \in (IF program.kind \in InQ THEN AllWords ELSE {{}})
  /\ alu_out = {}
  /\ dispatch_memory = [i \in Addresses |-> NoEntry]
  /\ taken = NoEntry
  /\ m_memory = [at \in AddressesM |-> 0]
  /\ a_memory = [at \in AddressesA |-> 0]
  /\ oa_reg_lo = {}
  /\ step = 0
  /\ last = [op |-> 0, ci |-> FALSE, bus |-> Straight]
  /\ first = [m |-> m, a |-> a, q |-> q]

\* The next instruction of a program of this kind.
At(kind, steps) ==
  /\ program.kind = kind /\ step \in steps
  /\ step' = step + 1
  /\ UNCHANGED <<program, first>>

-----------------------------------------------------------------------------
\* An ALU instruction with destination M.
Execute(op, ci, control, bus) ==
  LET r == Function(op, m, a, ci, q, alu_out) IN
    /\ alu_out' = r.out
    /\ q' = QControl(control, q, r.out)
    /\ m' = OutputBus(bus, r, q)
    /\ last' = [op |-> op, ci |-> ci, bus |-> bus]
    /\ UNCHANGED <<a, tables, scratchpads>>

Single ==
  /\ At("single", {0})
  /\ \E op \in BooleanOps \cup ArithmeticOps, ci \in BOOLEAN,
        bus \in {Straight, RightOne, LeftOne}, control \in {NoQ, LoadQ} :
       Execute(op, ci, control, bus)

\* A multiplication takes W steps.
Multiply ==
  /\ At("multiply", 0 .. W - 1)
  /\ Execute(MULTIPLY_STEP, FALSE, ShiftQRight, RightOne)

\* A division takes a first step, W - 1 steps, a last step that leaves the
\* remainder unshifted, and the correction of the remainder.
DivideFirst ==
  /\ At("divide", {0})
  /\ Execute(INITIAL_DIVIDE_STEP, FALSE, ShiftQLeft, LeftOne)

Divide ==
  /\ At("divide", 1 .. W - 1)
  /\ Execute(DIVIDE_STEP, FALSE, ShiftQLeft, LeftOne)

DivideLast ==
  /\ At("divide", {W})
  /\ Execute(DIVIDE_STEP, FALSE, ShiftQLeft, Straight)

CorrectRemainder ==
  /\ At("divide", {W + 1})
  /\ Execute(REMAINDER_CORRECTION, FALSE, NoQ, Straight)

\* A BYTE instruction leaves the ALU alone.  The assembler gives LDB the
\* rotation that brings the byte to bit 0.
LoadByte ==
  /\ At("copy", {0})
  /\ m' = LDB((W - program.from.low) % W, program.from.width - 1, m, {})
  /\ UNCHANGED <<a, q, alu_out, tables, scratchpads, last>>

DepositByte ==
  /\ At("copy", {1})
  /\ a' = DPB(program.to.low, program.to.width - 1, m, a)
  /\ UNCHANGED <<m, q, alu_out, tables, scratchpads, last>>

SelectByte ==
  /\ At("select", {0})
  /\ a' = SelectiveDeposit(program.to.low, program.to.width - 1, m, a)
  /\ UNCHANGED <<m, q, alu_out, tables, scratchpads, last>>

\* Miscellaneous function 2: the dispatch memory is written and not used.
WriteDispatchMemory ==
  /\ program.kind = "dispatch" /\ At("dispatch", 0 .. Entries(program.table) - 1)
  /\ dispatch_memory' = [dispatch_memory EXCEPT ![program.table.base + step] = step]
  /\ UNCHANGED <<registers, taken, scratchpads, last>>

\* Bits 18 and 19 of the source stand for those of the map entry of MD: the
\* two lowest bits of the word here.
DispatchOnBits ==
  /\ program.kind = "dispatch" /\ At("dispatch", {Entries(program.table)})
  /\ LET t == program.table
         byte == rotate_left(m, (W - t.low) % W) \cap DispatchMask(t.len)
         index == byte \cup MapBit(t.map, 0 \in m, 1 \in m)
     IN taken' = dispatch_memory[DispatchAddress(t.base, index)]
  /\ UNCHANGED <<registers, dispatch_memory, scratchpads, last>>

\* M memory is written together with the part of A memory that shadows it.
write_m_mem(at, word) ==
  /\ m_memory' = [m_memory EXCEPT ![at] = word]
  /\ a_memory' = [a_memory EXCEPT ![at] = word]

\* Destination 016, like every functional destination, names a word of M
\* memory as well, which it writes.
SetModifier ==
  /\ At("indexed", {0})
  /\ oa_reg_lo' = m
  /\ write_m_mem({}, TheModifier)
  /\ UNCHANGED <<registers, tables, last>>

\* The second and third instruction store to A or M memory, at the address
\* merged with the modifier.
WriteDest(s, at) ==
  \/ s.to = "m" /\ write_m_mem(at, step)
  \/ /\ s.to = "a"
     /\ a_memory' = [a_memory EXCEPT ![at] = step]
     /\ UNCHANGED m_memory

\* Mutated form of Store.
StoreKeepsModifier ==
  /\ At("indexed", {1, 2})
  /\ LET s == program.stores[step] IN WriteDest(s, s.at \cup oa_reg_lo)
  /\ UNCHANGED <<registers, tables, oa_reg_lo, last>>

Store ==
  /\ At("indexed", {1, 2})
  /\ LET s == program.stores[step] IN WriteDest(s, s.at \cup oa_reg_lo)
  /\ oa_reg_lo' = {}
  /\ UNCHANGED <<registers, tables, last>>

ProgramsNext ==
  \/ Single
  \/ Multiply
  \/ DivideFirst \/ Divide \/ DivideLast \/ CorrectRemainder
  \/ LoadByte \/ DepositByte
  \/ SelectByte
  \/ WriteDispatchMemory \/ DispatchOnBits
  \/ SetModifier \/ Store

ProgramsSpec == ProgramsInit /\ [][ProgramsNext]_programVars

-----------------------------------------------------------------------------
RegistersHoldWords == {m, a, q, alu_out} \subseteq AllWords

\* The dispatch memory holds entries of the table that is being written.
TableHoldsEntries ==
  LET entries == IF program.kind = "dispatch" THEN 0 .. Entries(program.table) - 1
                                                ELSE {}
  IN dispatch_memory \in [Addresses -> entries \cup {NoEntry}]

\* The entry dispatched to is the subject of DispatchReachesEntry.
ProgramsTypeOK ==
  /\ program \in Programs
  /\ step \in Nat
  /\ RegistersHoldWords
  /\ TableHoldsEntries

Finished(kind, steps) == program.kind = kind /\ step = steps

\* W multiply steps leave the product of the signed A operand and the
\* unsigned multiplier in M (high half) and Q.
MultiplyDelivers ==
  Finished("multiply", W) =>
    Signed(m) * 2 ^ W + Unsigned(q) = Signed(a) * Unsigned(first.q)

\* The division sequence leaves the quotient of the unsigned dividend by a
\* positive divisor in Q and the remainder in M.
DivideDelivers ==
  Finished("divide", W + 2) =>
    /\ Unsigned(q) = Unsigned(first.q) \div Unsigned(a)
    /\ Unsigned(m) = Unsigned(first.q) % Unsigned(a)

\* The function code of a Boolean function is its truth table: bit 0 says
\* what becomes of bits set in M and A, bit 1 of those in M only, bit 2 of
\* those in A only, and bit 3 of the rest.
TruthTable(op, x, y) ==
  LET has(power) == (op \div power) % 2 = 1
  IN {b \in Bits : \/ has(1) /\ b \in x \cap y
                   \/ has(2) /\ b \in x \ y
                   \/ has(4) /\ b \in y \ x
                   \/ has(8) /\ b \notin x \cup y}

EQV == 9

\* The exact result of the sums M-1, M+A and M+M.
ExactSum ==
  LET c == Bit(last.ci) IN
    CASE last.op = 19 -> Signed(first.m) - 1 + c
      [] last.op = 25 -> Signed(first.m) + Signed(first.a) + c
      [] last.op = 31 -> 2 * Signed(first.m) + c

\* Every Boolean function but [EQV], which the code computes with ==, follows
\* its truth table (ucode.c:1002-1050).
BooleansDeliver ==
  Finished("single", 1) /\ last.op \in BooleanOps \ {EQV} =>
    alu_out = TruthTable(last.op, first.m, first.a)

\* A sum is shifted "with the correct sign shifted in, regardless of overflow"
\* (ucode.c:1120): it is half of the exact sum, which is not so of the
\* difference M-A.
SumsDeliver ==
  Finished("single", 1) /\ last.op \in {19, 25, 31} /\ last.bus = RightOne =>
    Signed(m) = ExactSum \div 2

\* A byte loaded from any place of one word and deposited at any place of
\* another arrives whole, and no bit beside it changes; a selective deposit
\* takes the byte from M and the rest from A, and a byte that runs off the
\* word is no byte: rotations and masks agree, at the edges of a word too
\* (ucode.c:1380-1422).
BytesArrive ==
  /\ Finished("copy", 2) =>
       LET f == program.from  t == program.to IN
         /\ \A k \in 0 .. f.width - 1 : (t.low + k \in a) <=> (f.low + k \in first.m)
         /\ a \ BitsOf(t) = first.a \ BitsOf(t)
  /\ Finished("select", 1) =>
       LET chosen == IF Fits(program.to) THEN BitsOf(program.to) ELSE {}
       IN a = (first.m \cap chosen) \cup (first.a \ chosen)

\* A dispatch on a byte, or on map bits, reaches the entry written for the
\* value of that byte or bit and no entry of another table, wherever in the
\* word the byte is, wrapping around included.
DispatchReachesEntry ==
  program.kind = "dispatch" /\ step = Entries(program.table) + 1 =>
    LET t == program.table
        value == IF t.map = 0
                 THEN Unsigned({k \in 0 .. t.len - 1 : (t.low + k) % W \in m})
                 ELSE IF \/ t.map \in {1, 3} /\ 0 \in m
                         \/ t.map \in {2, 3} /\ 1 \in m
                      THEN 1 ELSE 0
    IN taken = value

\* Words read as numbers: the steps pass one another the sign, the carry and
\* the low bit of Q so that a whole multiplication or division is right,
\* remainder and all, for all operands (ucode.c:1050-1118); sums are halved
\* rightly; and the number in a byte selects its entry of a dispatch table
\* (ucode.c:1267-1306).
NumbersDeliver ==
  MultiplyDelivers /\ DivideDelivers /\ SumsDeliver /\ DispatchReachesEntry

\* A modifier is merged into the next instruction and into no other
\* (ucode.c:818-828, 620); and M memory differs from its shadow in A memory
\* only where an A destination has written since (ucode.c:406, 431, 544).
IndexedStoresLand ==
  Finished("indexed", 3) =>
    LET one == program.stores[1]
        two == program.stores[2]
        Word(in, place) ==
          IF two.at = place /\ two.to \in in THEN 2
          ELSE IF one.at \cup m = place /\ one.to \in in THEN 1
          ELSE IF place = {} THEN TheModifier ELSE 0
    IN /\ a_memory = [place \in AddressesA |-> Word({"a", "m"}, place)]
       /\ m_memory = [place \in AddressesM |-> Word({"m"}, place)]
=============================================================================
