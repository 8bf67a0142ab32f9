----------------------------- MODULE MacroFetch -----------------------------
(***************************************************************************)
(* The instruction stream of the Lisp machine: the location counter, which *)
(* points to halfwords (or bytes) of macroinstructions and fetches a word  *)
(* when it has moved past the last one, the delay with which a word read   *)
(* from memory reaches MD, and the conditions that microcode tests between *)
(* macroinstructions.                                                      *)
(*                                                                         *)
(* One step is one microinstruction.  What it computes is left open; a     *)
(* memory word is named by its address, and a read may fault.              *)
(***************************************************************************)
EXTENDS Integers

CONSTANTS
  Limit,            \* 2^26: LC counts bytes modulo Limit
  LcValues,         \* what microcode writes to LC
  ReadWords,        \* addresses microcode reads from, other than by LC
  Controls          \* values of bits 26-29 written to interrupt control

ASSUME FetchAssumption ==
  /\ Limit \in Nat /\ Limit > 4 /\ Limit % 4 = 0
  /\ LcValues \subseteq 0 .. Limit - 1
  /\ Controls \subseteq 0 .. 15

None == -1          \* no word; also the zeros that a faulting read yields

VARIABLES
  lc,               \* [count |-> bits 0-25, high |-> bits 26-30]
  need_fetch,       \* bit 31 of lc
  lc_byte_mode_flag, interrupt_enable_flag, sequence_break_flag,
  interrupt_pending_flag, page_fault_flag,
  vma, md, new_md, new_md_delay,
  take_jump,        \* the outcome of the condition just tested
  held,             \* history: the word last fetched by advance_lc
  written,          \* history: no word has been fetched since LC was written
  undisturbed       \* history: nor has MD been used since held was fetched

flags == <<lc_byte_mode_flag, interrupt_enable_flag, sequence_break_flag>>
memory == <<vma, new_md, page_fault_flag>>
stream == <<lc, need_fetch, held, written>>
fetchVars == <<stream, undisturbed, flags, interrupt_pending_flag, memory, md, new_md_delay, take_jump>>

Counts == 0 .. Limit - 1
Fetchable == (0 .. Limit \div 4 - 1) \cup {None}

FetchTypeOK ==
  /\ lc \in [count : Counts, high : 0 .. 31]
  /\ need_fetch \in BOOLEAN
  /\ lc_byte_mode_flag \in BOOLEAN /\ interrupt_enable_flag \in BOOLEAN
  /\ sequence_break_flag \in BOOLEAN
  /\ interrupt_pending_flag \in BOOLEAN /\ page_fault_flag \in BOOLEAN
  /\ new_md_delay \in 0 .. 2
  /\ take_jump \in BOOLEAN
  /\ held \in Fetchable
  /\ written \in BOOLEAN /\ undisturbed \in BOOLEAN

FetchInit ==
  /\ lc = [count |-> 0, high |-> 0] /\ need_fetch = FALSE
  /\ lc_byte_mode_flag = FALSE /\ interrupt_enable_flag = FALSE
  /\ sequence_break_flag = FALSE
  /\ interrupt_pending_flag = FALSE /\ page_fault_flag = FALSE
  /\ vma = 0 /\ md = None /\ new_md = None /\ new_md_delay = 0
  /\ take_jump = FALSE
  /\ held = None /\ written = TRUE /\ undisturbed = FALSE

-----------------------------------------------------------------------------

\* Every turn of the loop counts the delay down before it executes.
Delay == IF new_md_delay > 0 THEN new_md_delay - 1 ELSE 0

\* Mutated form of Md.
MdChecksBeforeCounting == IF new_md_delay = 0 THEN new_md ELSE md

Md == IF new_md_delay = 1 THEN new_md ELSE md
Tick == new_md_delay' = Delay /\ md' = Md

\* read_mem into new_md.
Read(word, fault) ==
  /\ vma' = word
  /\ new_md' = IF fault THEN None ELSE word
  /\ page_fault_flag' = fault
  /\ new_md_delay' = 2

LastByteInWord(count, bytes) == (count \div 2) % 2 = 0 /\ (bytes => count % 2 = 0)

\* lc++ or lc += 2 on the whole word: the count carries into the flags.
Increment(bytes) == IF bytes THEN 1 ELSE 2

Advanced(bytes) ==
  IF lc.count + Increment(bytes) < Limit
  THEN [count |-> lc.count + Increment(bytes), high |-> lc.high]
  ELSE [count |-> lc.count + Increment(bytes) - Limit, high |-> lc.high + 1]

\* The carry stops short of need_fetch: this bounds the model.
Carries(bytes) == lc.count + Increment(bytes) >= Limit
NoCarryOut == ~(Carries(lc_byte_mode_flag) /\ lc.high = 31)

advance_lc(fault) ==
  /\ NoCarryOut
  /\ lc' = Advanced(lc_byte_mode_flag)
  /\ need_fetch' = LastByteInWord(lc'.count, lc_byte_mode_flag)
  /\ IF need_fetch
     THEN /\ Read(lc.count \div 4, fault) /\ md' = Md
          /\ held' = lc.count \div 4 /\ written' = FALSE /\ undisturbed' = ~fault
     ELSE Tick /\ UNCHANGED <<memory, held, written, undisturbed>>
  /\ UNCHANGED <<flags, interrupt_pending_flag, take_jump>>

\* Mutated form of WriteLc.
WriteLcKeepsFetch(v) ==
  /\ lc' = [lc EXCEPT !.count = IF lc_byte_mode_flag THEN v ELSE 2 * (v \div 2)]
  /\ need_fetch' = need_fetch
  /\ written' = TRUE
  /\ Tick
  /\ UNCHANGED <<held, undisturbed, flags, interrupt_pending_flag, memory, take_jump>>

\* In halfword mode the low bit is ignored.
WriteLc(v) ==
  /\ lc' = [lc EXCEPT !.count = IF lc_byte_mode_flag THEN v ELSE 2 * (v \div 2)]
  /\ need_fetch' = TRUE
  /\ written' = TRUE
  /\ Tick
  /\ UNCHANGED <<held, undisturbed, flags, interrupt_pending_flag, memory, take_jump>>

\* Bits 26-29 of v: sequence break, interrupt enable, bus reset, byte mode.
WriteInterruptControl(v) ==
  /\ lc' = [lc EXCEPT !.high = 16 * (lc.high \div 16) + v]
  /\ sequence_break_flag' = (v % 2 = 1)
  /\ interrupt_enable_flag' = ((v \div 2) % 2 = 1)
  /\ lc_byte_mode_flag' = (v >= 8)
  /\ Tick
  /\ UNCHANGED <<need_fetch, held, written, undisturbed, interrupt_pending_flag,
                 memory, take_jump>>

\* VMA destinations 020 and 021.
WriteVma(word) ==
  /\ vma' = word /\ Tick
  /\ UNCHANGED <<stream, flags, interrupt_pending_flag, undisturbed,
                 new_md, page_fault_flag, take_jump>>

VmaStartRead(word, fault) ==
  /\ undisturbed' = FALSE
  /\ Read(word, fault) /\ md' = Md
  /\ UNCHANGED <<stream, flags, interrupt_pending_flag, take_jump>>

\* MD destinations 030 and 031; 031 reads from where vma points.
WriteMd(word) ==
  /\ undisturbed' = FALSE
  /\ md' = word /\ new_md_delay' = Delay
  /\ UNCHANGED <<stream, flags, interrupt_pending_flag, memory, take_jump>>

MdStartRead(word, fault) ==
  /\ undisturbed' = FALSE
  /\ Read(vma, fault) /\ md' = word
  /\ UNCHANGED <<stream, flags, interrupt_pending_flag, take_jump>>

\* Conditions 4, 5 and 6.  The outcome is stored in a char: the sequence break
\* flag is bit 26 and does not fit.
InterruptTaken == interrupt_enable_flag /\ interrupt_pending_flag

Condition(cond) ==
  CASE cond = 4 -> page_fault_flag
    [] cond = 5 -> page_fault_flag \/ InterruptTaken
    [] cond = 6 -> page_fault_flag \/ InterruptTaken

JumpOn(cond, invert_sense) ==
  /\ take_jump' = (Condition(cond) # invert_sense)
  /\ Tick
  /\ UNCHANGED <<stream, undisturbed, flags, interrupt_pending_flag, memory>>

OtherTurn ==
  /\ Tick
  /\ UNCHANGED <<stream, undisturbed, flags, interrupt_pending_flag, memory, take_jump>>

\* A device raises or drops the interrupt line; see Interrupts.
Device ==
  /\ interrupt_pending_flag' = ~interrupt_pending_flag
  /\ UNCHANGED <<stream, undisturbed, flags, memory, md, new_md_delay, take_jump>>

FetchNext ==
  \/ \E fault \in BOOLEAN :
       \/ advance_lc(fault)
       \/ \E word \in ReadWords : VmaStartRead(word, fault) \/ MdStartRead(word, fault)
  \/ \E v \in LcValues : WriteLc(v)
  \/ \E v \in Controls : WriteInterruptControl(v)
  \/ \E word \in ReadWords : WriteVma(word) \/ WriteMd(word)
  \/ \E cond \in 4 .. 6, invert_sense \in BOOLEAN : JumpOn(cond, invert_sense)
  \/ OtherTurn
  \/ Device

FetchSpec == FetchInit /\ [][FetchNext]_fetchVars

-----------------------------------------------------------------------------
\* Between fetches the word fetched last is the one LC points into, so no
\* fetch is missed at a word boundary, whatever the starting address; and no
\* word is fetched again while LC is still in it.  Switching between halfwords
\* and bytes in the middle of a word does no harm (advance_lc,
\* ucode.c:510-539).
HeldIsCurrent == ~need_fetch /\ held # None => held = lc.count \div 4
FetchIsNeeded == need_fetch /\ ~written => held # lc.count \div 4
FetchOnTime == HeldIsCurrent /\ FetchIsNeeded

\* Mutated form of HalfPosition.
HalfPositionUninverted(count) == (count \div 2) % 2

\* A dispatch or byte instruction with miscellaneous function 3 in halfword
\* mode rotates by 0 or 16 (here 0 or 1), depending on LC<1>.
HalfPosition(count) == IF (count \div 2) % 2 = 1 THEN 0 ELSE 1

\* Miscellaneous function 3 goes by LC after it has advanced, and yet selects
\* the halfword at the count before, of the word that is held
\* (ucode.c:1246-1257, 1366-1377).
SelectsHalfword ==
  [][\A fault \in BOOLEAN :
       ~lc_byte_mode_flag /\ advance_lc(fault) /\ held' # None =>
         2 * held' + HalfPosition(lc'.count) = lc.count \div 2]_fetchVars

\* The fetched word is in MD two instructions later, if nothing else used MD
\* (ucode.c:514-516, 799-803).
HeldReachesMd == FetchTypeOK /\ (undisturbed /\ new_md_delay = 0 => md = held)
=============================================================================
