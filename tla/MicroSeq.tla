------------------------------ MODULE MicroSeq ------------------------------
(***************************************************************************)
(* The instruction sequencing that CADR microcode is written for.  The     *)
(* instruction at cur is executed while the one at next has already been   *)
(* fetched.  A transfer of control takes effect after next has been        *)
(* executed or, with the N bit, instead of it.  stack holds the return     *)
(* addresses, newest last; an entry may ask for the instruction-stream     *)
(* hardware (ish), which moves the return past two instructions when the   *)
(* next macroinstruction needs no fetch.                                   *)
(*                                                                         *)
(* What the instruction is, and whether its condition holds, is left open. *)
(***************************************************************************)
EXTENDS Integers, Sequences

CONSTANTS
  Targets,          \* addresses named by jumps and dispatch entries
  Depth             \* return addresses the stack holds (32)

VARIABLES cur, next, stack

svars == <<cur, next, stack>>

\* Microcode pushes return addresses by calls and as data.
Entry(pc, ish) == [pc |-> pc, ish |-> ish]

\* Setting bit 1 of an address.
SkipTwo(pc) == IF (pc \div 2) % 2 = 1 THEN pc ELSE pc + 2

\* A full stack forgets its oldest entry; an empty one has nothing to forget.
Push(s, e) == IF Len(s) < Depth THEN Append(s, e) ELSE Append(Tail(s), e)
Pop(s) == IF s = <<>> THEN s ELSE SubSeq(s, 1, Len(s) - 1)

\* Where a return may lead; an empty stack yields whatever was left in it.
MayReturnTo(s, t) ==
  s # <<>> =>
    LET e == s[Len(s)] IN t = e.pc \/ (e.ish /\ t = SkipTwo(e.pc))

-----------------------------------------------------------------------------
\* Continue elsewhere: at once (n) or after the instruction at next.  Landing
\* is where.
Transfer(n) == IF n THEN next' = cur' + 1 ELSE cur' = next
Landing(n) == IF n THEN cur' ELSE next'

Advance == cur' = next /\ next' = next + 1

\* The end of an instruction that may carry the POPJ bit.
EndWithPopj(s, popj) ==
  IF popj
  THEN Transfer(FALSE) /\ MayReturnTo(s, next') /\ stack' = Pop(s)
  ELSE Advance /\ stack' = s

\* s is the stack after the instruction's M source has been read: source 014
\* pops it.
Source(pops) == IF pops THEN Pop(stack) ELSE stack

Plain(pops, pushes, e, popj) ==
  LET s == Source(pops) IN
    EndWithPopj(IF pushes THEN Push(s, e) ELSE s, popj)

NotTaken(pops, popj) == EndWithPopj(Source(pops), popj)

\* A taken jump or dispatch with its R, P and N bits.  A call returns behind
\* next, or to next if that is not executed, or to resume.
Taken(pops, t, r, p, n, resume) ==
  LET s == Source(pops)
      s1 == IF p THEN Push(s, Entry(resume, FALSE)) ELSE s
  IN /\ Transfer(n)
     /\ IF r THEN MayReturnTo(s1, Landing(n)) /\ stack' = Pop(s1)
             ELSE Landing(n) = t /\ stack' = s1

ReturnAddress(n) == IF n THEN next ELSE next + 1

\* A dispatch entry with R and P does not transfer control; with N it skips
\* next, unless the instruction has the N-plus-1 bit.
FallThrough(pops, n, plus1, popj) ==
  LET s == Source(pops) IN
    IF popj
    THEN Transfer(n) /\ MayReturnTo(s, Landing(n)) /\ stack' = Pop(s)
    ELSE /\ stack' = s
         /\ IF n /\ ~plus1 THEN cur' = next + 1 /\ next' = next + 2 ELSE Advance

Step ==
  \/ \E pops, pushes, popj, ish \in BOOLEAN, v \in Targets :
       Plain(pops, pushes, Entry(v, ish), popj)
  \/ \E pops, popj \in BOOLEAN : NotTaken(pops, popj)
  \/ \E pops, r, p, n, plus1 \in BOOLEAN, t \in Targets :
       Taken(pops, t, r, p, n, IF n /\ plus1 THEN next - 1 ELSE ReturnAddress(n))
  \/ \E pops, n, plus1, popj \in BOOLEAN : FallThrough(pops, n, plus1, popj)

Init == cur = 0 /\ next = 1 /\ stack = <<>>
Spec == Init /\ [][Step]_svars
=============================================================================
