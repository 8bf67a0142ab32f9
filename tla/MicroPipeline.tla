--------------------------- MODULE MicroPipeline ---------------------------
(***************************************************************************)
(* Instruction sequencing in run() of ucode.c: the two-stage pipeline p0,  *)
(* p1, the stall after an instruction with the N bit, and the SPC stack, a *)
(* ring of 32 words.  One step is one turn of the loop: fetch, then        *)
(* execute the instruction at p0_pc, which may be any instruction.         *)
(*                                                                         *)
(* Instruction words are left out: ControlStore adds them.                 *)
(***************************************************************************)
EXTENDS Integers, Sequences

CONSTANTS
  Targets, Depth,
  MaxPc             \* bound: the highest u_pc explored

ASSUME PipelineAssumption ==
  /\ Targets \subseteq Nat /\ Targets # {}
  /\ Depth \in Nat \ {0}
  /\ MaxPc \in Nat

VARIABLES
  u_pc, p1_pc, no_exec_next,
  spc_stack, spc_stack_ptr,
  run_ucode_flag,
  used              \* history: how many words of the ring hold entries

pcs == <<u_pc, p1_pc, no_exec_next>>
vars == <<pcs, spc_stack, spc_stack_ptr, run_ucode_flag, used>>

Words == [pc : Nat, ish : BOOLEAN]          \* bit 14 of an SPC word is ish
Ring == 0 .. Depth - 1

TypeOK ==
  /\ u_pc \in Nat
  /\ p1_pc \in Nat
  /\ no_exec_next \in BOOLEAN
  /\ spc_stack \in [Ring -> Words]
  /\ spc_stack_ptr \in Ring
  /\ run_ucode_flag \in BOOLEAN
  /\ used \in 0 .. Depth

\* After the first cycle, which executes a word of zeros (a no-op) and
\* fetches the instruction at 0.
Init ==
  /\ u_pc = 1 /\ p1_pc = 0 /\ no_exec_next = FALSE
  /\ spc_stack = [i \in Ring |-> [pc |-> 0, ish |-> FALSE]]
  /\ spc_stack_ptr = 0
  /\ run_ucode_flag = TRUE
  /\ used = 0

-----------------------------------------------------------------------------
\* The fetch.  A stall shifts the pipeline once more, without executing what
\* was in p1.  Afterwards p0_pc is executed, p1_pc comes next, and u_pc is the
\* address after it.
Fetched ==
  IF no_exec_next
  THEN [p0_pc |-> u_pc, p1_pc |-> u_pc + 1, u_pc |-> u_pc + 2]
  ELSE [p0_pc |-> p1_pc, p1_pc |-> u_pc, u_pc |-> u_pc + 1]

\* The SPC ring, as a value.
Spc == [stack |-> spc_stack, ptr |-> spc_stack_ptr, used |-> used]

push_spc(s, w) ==
  LET ptr == (s.ptr + 1) % Depth IN
    [stack |-> [s.stack EXCEPT ![ptr] = w], ptr |-> ptr,
     used |-> IF s.used < Depth THEN s.used + 1 ELSE Depth]

pop_spc(s) ==
  [s EXCEPT !.ptr = (s.ptr + Depth - 1) % Depth,
            !.used = IF s.used > 0 THEN s.used - 1 ELSE 0]

\* advance_lc, as far as it concerns the return address: with no fetch needed
\* it sets bit 1.
AdvanceLc(w) ==
  IF w.ish
  THEN {w.pc, IF (w.pc \div 2) % 2 = 1 THEN w.pc ELSE w.pc + 2}
  ELSE {w.pc}

SetSpc(s) == spc_stack' = s.stack /\ spc_stack_ptr' = s.ptr /\ used' = s.used

\* Reading M source 014 pops the ring.
AfterSource(pops) == IF pops THEN pop_spc(Spc) ELSE Spc

\* The end of an instruction: POPJ overrides u_pc.
Finish(s, popj, pc) ==
  /\ p1_pc' = Fetched.p1_pc
  /\ IF popj
     THEN SetSpc(pop_spc(s)) /\ u_pc' \in AdvanceLc(s.stack[s.ptr])
     ELSE SetSpc(s) /\ u_pc' = pc

-----------------------------------------------------------------------------
\* The bound.  Below 2 the delay slot is address 0, after a return from the
\* ring as it was at power up; that run is not followed further.
Running == run_ucode_flag /\ Fetched.u_pc \in 2 .. MaxPc

\* ALU and BYTE instructions and a dispatch that writes dispatch memory;
\* destination 015 pushes an SPC word.
Operate(pops, pushes, w, popj) ==
  /\ Running
  /\ LET s == AfterSource(pops) IN
       Finish(IF pushes THEN push_spc(s, w) ELSE s, popj, Fetched.u_pc)
  /\ no_exec_next' = FALSE
  /\ UNCHANGED run_ucode_flag

\* A jump that halts the machine: the loop ends after this turn.
Halt(pops, popj) ==
  /\ Running
  /\ Finish(AfterSource(pops), popj, Fetched.u_pc)
  /\ no_exec_next' = FALSE
  /\ run_ucode_flag' = FALSE

JumpNotTaken(pops, popj) ==
  /\ Running
  /\ Finish(AfterSource(pops), popj, Fetched.u_pc)
  /\ no_exec_next' = FALSE
  /\ UNCHANGED run_ucode_flag

\* Mutated form of ProcessJump.
ProcessJumpPushesUpc(s, t, r, p, n, pc) ==
  LET s1 == IF p THEN push_spc(s, [pc |-> pc, ish |-> FALSE]) ELSE s
  IN /\ IF r THEN u_pc' \in AdvanceLc(s1.stack[s1.ptr]) /\ SetSpc(pop_spc(s1))
             ELSE u_pc' = t /\ SetSpc(s1)
     /\ no_exec_next' = n
     /\ p1_pc' = Fetched.p1_pc

\* process_jump with take_jump: from u_pc as it is at that point.
ProcessJump(s, t, r, p, n, pc) ==
  LET s1 == IF p THEN push_spc(s, [pc |-> IF n THEN pc - 1 ELSE pc, ish |-> FALSE])
            ELSE s
  IN /\ IF r THEN u_pc' \in AdvanceLc(s1.stack[s1.ptr]) /\ SetSpc(pop_spc(s1))
             ELSE u_pc' = t /\ SetSpc(s1)
     /\ no_exec_next' = n
     /\ p1_pc' = Fetched.p1_pc

JumpTaken(pops, t, r, p, n) ==
  /\ Running
  /\ ProcessJump(AfterSource(pops), t, r, p, n, Fetched.u_pc)
  /\ UNCHANGED run_ucode_flag

\* A dispatch decrements u_pc when N-plus-1 and N are set.
DispatchPc(n, plus1) == IF n /\ plus1 THEN Fetched.u_pc - 1 ELSE Fetched.u_pc

Dispatch(pops, t, r, p, n, plus1) ==
  /\ Running
  /\ ~(p /\ r)
  /\ ProcessJump(AfterSource(pops), t, r, p, n, DispatchPc(n, plus1))
  /\ UNCHANGED run_ucode_flag

DispatchFallsThrough(pops, n, plus1, popj) ==
  /\ Running
  /\ Finish(AfterSource(pops), popj, DispatchPc(n, plus1))
  /\ no_exec_next' = n
  /\ UNCHANGED run_ucode_flag

\* A jump with P and R, taken or not, also writes control memory: it returns
\* to the address it has just pushed.
StoreJump ==
  \E pops, n, popj \in BOOLEAN :
    JumpTaken(pops, 0, TRUE, TRUE, n) \/ JumpNotTaken(pops, popj)

Other ==
  \/ \E pops, popj \in BOOLEAN :
       \/ \E v \in Targets, ish \in BOOLEAN :
            Operate(pops, TRUE, [pc |-> v, ish |-> ish], popj)
       \/ Halt(pops, popj)
       \/ JumpNotTaken(pops, popj)
  \/ \E pops, r, p, n \in BOOLEAN, t \in Targets :
       ~(p /\ r) /\ JumpTaken(pops, t, r, p, n)
  \/ \E pops, r, p, n, plus1 \in BOOLEAN, t \in Targets :
       Dispatch(pops, t, r, p, n, plus1)
  \/ \E pops, n, plus1, popj \in BOOLEAN : DispatchFallsThrough(pops, n, plus1, popj)

Plain == \E pops, popj \in BOOLEAN :
           Operate(pops, FALSE, [pc |-> 0, ish |-> FALSE], popj)

Next == StoreJump \/ Other \/ Plain

Spec == Init /\ [][Next]_vars

-----------------------------------------------------------------------------
\* What the next turn of the loop executes, and what it will have fetched.
Cur == IF no_exec_next THEN u_pc ELSE p1_pc
NextUp == IF no_exec_next THEN u_pc + 1 ELSE u_pc

\* The entries of the ring, oldest first.
Stack == [i \in 1 .. used |-> spc_stack[(spc_stack_ptr + Depth - used + i) % Depth]]

(***************************************************************************)
(* The pipeline implements the delayed branches of MicroSeq: the stall     *)
(* skips exactly the instruction behind an N transfer, a call returns      *)
(* behind its delay slot (or to it, when it was skipped) also when the     *)
(* call itself sits in a delay slot, and the ring returns to the last      *)
(* Depth callers in order.                                                 *)
(***************************************************************************)
Sequencing == INSTANCE MicroSeq WITH cur <- Cur, next <- NextUp, stack <- Stack
ImplementsMicroSeq == Sequencing!Spec
=============================================================================
