--------------------------- MODULE MicrocodeProofs ---------------------------
(***************************************************************************)
(* Proofs about MicroPipeline, ControlStore, PdlBuffer and MacroFetch, for *)
(* every ring, control memory, address width and number of writes: which   *)
(* word is executed, that the pipeline sequences instructions as MicroSeq  *)
(* says, that the PDL buffer keeps its entries, and that the word held for *)
(* the macroinstruction stream is the one LC points into.                  *)
(***************************************************************************)
EXTENDS ControlStore, PdlBuffer, MacroFetch, SequenceTheorems, TLAPS

StoreTypeOK ==
  /\ TypeOK
  /\ ucode \in [Pcs -> Nat]
  /\ prom_enabled_flag \in BOOLEAN

\* Why the property holds: what was fetched ahead is what is stored, or has
\* just been changed.
Inv ==
  /\ StoreTypeOK
  /\ p1 # FETCH(p1_pc) => p1_pc \in changed

Rings == [stack : [Ring -> Words], ptr : Ring, used : 0 .. Depth]

\* The two ring operations keep the ring a ring.
LEMMA PushKept ==
  ASSUME NEW s \in Rings, NEW w \in Words
  PROVE  push_spc(s, w) \in Rings
  <1> DEFINE ptr == (s.ptr + 1) % Depth
             count == IF s.used < Depth THEN s.used + 1 ELSE Depth
  <1>1. s.stack \in [Ring -> Words] /\ s.ptr \in Ring /\ s.used \in 0 .. Depth
    BY DEF Rings
  <1>2. ptr \in Ring
    BY <1>1, PipelineAssumption DEF Ring
  <1>3. count \in 0 .. Depth
    BY <1>1, PipelineAssumption
  <1>4. [s.stack EXCEPT ![ptr] = w] \in [Ring -> Words]
    BY <1>1
  <1> QED
    BY <1>2, <1>3, <1>4 DEF push_spc, Rings

LEMMA PopKept ==
  ASSUME NEW s \in Rings
  PROVE  pop_spc(s) \in Rings
  <1> DEFINE ptr == (s.ptr + Depth - 1) % Depth
             count == IF s.used > 0 THEN s.used - 1 ELSE 0
  <1>1. s.stack \in [Ring -> Words] /\ s.ptr \in Ring /\ s.used \in 0 .. Depth
    BY DEF Rings
  <1>2. ptr \in Ring
    BY <1>1, PipelineAssumption DEF Ring
  <1>3. count \in 0 .. Depth
    BY <1>1, PipelineAssumption
  <1> HIDE DEF ptr, count
  <1>4. [s EXCEPT !.ptr = ptr, !.used = count] \in Rings
    BY <1>2, <1>3 DEF Rings
  <1> QED
    BY <1>4 DEF pop_spc, ptr, count

LEMMA AdvanceLcKept ==
  ASSUME NEW w \in Words
  PROVE  AdvanceLc(w) \subseteq Nat
  BY DEF AdvanceLc, Words

LEMMA SourceKept ==
  ASSUME TypeOK, NEW pops \in BOOLEAN
  PROVE  AfterSource(pops) \in Rings
  <1>1. Spc \in Rings
    BY DEF TypeOK, Spc, Rings
  <1> QED
    BY <1>1, PopKept DEF AfterSource

\* What every instruction does to the program counters and the ring.
Moved == /\ p1_pc' = Fetched.p1_pc
         /\ u_pc' \in Nat
         /\ spc_stack' \in [Ring -> Words]
         /\ spc_stack_ptr' \in Ring
         /\ used' \in 0 .. Depth

LEMMA SetSpcKept ==
  ASSUME NEW s \in Rings, SetSpc(s)
  PROVE  /\ spc_stack' \in [Ring -> Words]
         /\ spc_stack_ptr' \in Ring
         /\ used' \in 0 .. Depth
  BY DEF SetSpc, Rings

\* The word on top of a ring.
LEMMA TopIsWord ==
  ASSUME NEW s \in Rings
  PROVE  s.stack[s.ptr] \in Words
  BY DEF Rings

LEMMA FinishMoves ==
  ASSUME NEW s \in Rings, NEW popj \in BOOLEAN, NEW pc \in Nat, Finish(s, popj, pc)
  PROVE  Moved
  <1>1. p1_pc' = Fetched.p1_pc
    BY DEF Finish
  <1>2. CASE popj
    <2>1. SetSpc(pop_spc(s)) /\ u_pc' \in AdvanceLc(s.stack[s.ptr])
      BY <1>2 DEF Finish
    <2>2. u_pc' \in Nat
      BY <2>1, TopIsWord, AdvanceLcKept
    <2> QED
      BY <1>1, <2>1, <2>2, PopKept, SetSpcKept DEF Moved
  <1>3. CASE ~popj
    <2>1. SetSpc(s) /\ u_pc' = pc
      BY <1>3 DEF Finish
    <2> QED
      BY <1>1, <2>1, SetSpcKept DEF Moved
  <1> QED
    BY <1>2, <1>3

LEMMA ProcessJumpMoves ==
  ASSUME NEW s \in Rings, NEW t \in Nat, NEW r \in BOOLEAN, NEW p \in BOOLEAN,
         NEW n \in BOOLEAN, NEW pc \in Nat \ {0}, ProcessJump(s, t, r, p, n, pc)
  PROVE  Moved /\ no_exec_next' = n
  <1> DEFINE w == [pc |-> IF n THEN pc - 1 ELSE pc, ish |-> FALSE]
             s1 == IF p THEN push_spc(s, w) ELSE s
  <1>1. s1 \in Rings
    <2>1. w \in Words
      BY DEF Words
    <2> QED
      BY <2>1, PushKept
  <1>2. /\ IF r THEN u_pc' \in AdvanceLc(s1.stack[s1.ptr]) /\ SetSpc(pop_spc(s1))
                ELSE u_pc' = t /\ SetSpc(s1)
        /\ no_exec_next' = n
        /\ p1_pc' = Fetched.p1_pc
    BY DEF ProcessJump
  <1> HIDE DEF s1
  <1>3. CASE r
    <2>1. u_pc' \in AdvanceLc(s1.stack[s1.ptr]) /\ SetSpc(pop_spc(s1))
      BY <1>2, <1>3
    <2>2. u_pc' \in Nat
      BY <1>1, <2>1, TopIsWord, AdvanceLcKept
    <2> QED
      BY <1>1, <1>2, <2>1, <2>2, PopKept, SetSpcKept DEF Moved
  <1>4. CASE ~r
    BY <1>1, <1>2, <1>4, SetSpcKept DEF Moved
  <1> QED
    BY <1>3, <1>4

\* Every instruction keeps the types and executes within control memory.
LEMMA TurnMoves ==
  ASSUME TypeOK, Next
  PROVE  TypeOK' /\ p1_pc' = Fetched.p1_pc /\ Fetched.u_pc \in 2 .. MaxPc
  <1> DEFINE Goal == /\ Moved
                     /\ no_exec_next' \in BOOLEAN
                     /\ run_ucode_flag' \in BOOLEAN
                     /\ Fetched.u_pc \in 2 .. MaxPc
  <1>0. \A v \in Targets \cup {0} : v \in Nat
    BY PipelineAssumption
  <1>1. ASSUME NEW pops \in BOOLEAN, NEW pushes \in BOOLEAN, NEW popj \in BOOLEAN,
               NEW w \in Words, Operate(pops, pushes, w, popj)
        PROVE  Goal
    <2> DEFINE s == IF pushes THEN push_spc(AfterSource(pops), w) ELSE AfterSource(pops)
    <2>1. s \in Rings
      BY SourceKept, PushKept
    <2>2. Finish(s, popj, Fetched.u_pc) /\ Running
      BY <1>1 DEF Operate
    <2>3. Moved
      BY <2>1, <2>2, FinishMoves DEF Running
    <2> QED
      BY <1>1, <2>3 DEF Operate, Running, TypeOK
  <1>2. ASSUME NEW pops \in BOOLEAN, NEW popj \in BOOLEAN,
               Halt(pops, popj) \/ JumpNotTaken(pops, popj)
        PROVE  Goal
    <2>1. Finish(AfterSource(pops), popj, Fetched.u_pc) /\ Running
      BY <1>2 DEF Halt, JumpNotTaken
    <2>2. Moved
      BY <2>1, SourceKept, FinishMoves DEF Running
    <2> QED
      BY <1>2, <2>1, <2>2 DEF Halt, JumpNotTaken, Running, TypeOK
  <1>3. ASSUME NEW pops \in BOOLEAN, NEW t \in Targets \cup {0}, NEW r \in BOOLEAN,
               NEW p \in BOOLEAN, NEW n \in BOOLEAN, JumpTaken(pops, t, r, p, n)
        PROVE  Goal
    <2>1. ProcessJump(AfterSource(pops), t, r, p, n, Fetched.u_pc) /\ Running
      BY <1>3 DEF JumpTaken
    <2>2. Moved /\ no_exec_next' = n
      BY <1>0, <2>1, SourceKept, ProcessJumpMoves DEF Running
    <2> QED
      BY <1>3, <2>1, <2>2 DEF JumpTaken, Running, TypeOK
  <1>4. ASSUME Running, NEW n \in BOOLEAN, NEW plus1 \in BOOLEAN
        PROVE  DispatchPc(n, plus1) \in Nat \ {0}
    BY <1>4 DEF DispatchPc, Running
  <1>5. ASSUME NEW pops \in BOOLEAN, NEW t \in Targets, NEW r \in BOOLEAN,
               NEW p \in BOOLEAN, NEW n \in BOOLEAN, NEW plus1 \in BOOLEAN,
               Dispatch(pops, t, r, p, n, plus1)
        PROVE  Goal
    <2>1. /\ ProcessJump(AfterSource(pops), t, r, p, n, DispatchPc(n, plus1))
          /\ Running
      BY <1>5 DEF Dispatch
    <2>2. DispatchPc(n, plus1) \in Nat \ {0} /\ t \in Nat
      BY <1>0, <1>4, <2>1
    <2>3. Moved /\ no_exec_next' = n
      BY <2>1, <2>2, SourceKept, ProcessJumpMoves
    <2> QED
      BY <1>5, <2>1, <2>3 DEF Dispatch, Running, TypeOK
  <1>6. ASSUME NEW pops \in BOOLEAN, NEW n \in BOOLEAN, NEW plus1 \in BOOLEAN,
               NEW popj \in BOOLEAN, DispatchFallsThrough(pops, n, plus1, popj)
        PROVE  Goal
    <2>1. Finish(AfterSource(pops), popj, DispatchPc(n, plus1)) /\ Running
      BY <1>6 DEF DispatchFallsThrough
    <2>2. Moved
      BY <1>4, <2>1, SourceKept, FinishMoves
    <2> QED
      BY <1>6, <2>1, <2>2 DEF DispatchFallsThrough, Running, TypeOK
  <1>7. \A v \in Targets \cup {0}, ish \in BOOLEAN : [pc |-> v, ish |-> ish] \in Words
    BY <1>0 DEF Words
  <1> HIDE DEF Goal
  <1>8. ASSUME StoreJump PROVE Goal
    BY <1>2, <1>3, <1>8 DEF StoreJump
  <1>9. ASSUME Other PROVE Goal
    <2>1. CASE \E pops, popj \in BOOLEAN :
                 \/ \E v \in Targets, ish \in BOOLEAN :
                      Operate(pops, TRUE, [pc |-> v, ish |-> ish], popj)
                 \/ Halt(pops, popj) \/ JumpNotTaken(pops, popj)
      BY <1>1, <1>2, <1>7, <2>1
    <2>2. CASE \E pops, r, p, n \in BOOLEAN, t \in Targets :
                 ~(p /\ r) /\ JumpTaken(pops, t, r, p, n)
      BY <1>3, <2>2
    <2>3. CASE \E pops, r, p, n, plus1 \in BOOLEAN, t \in Targets :
                 Dispatch(pops, t, r, p, n, plus1)
      BY <1>5, <2>3
    <2>4. CASE \E pops, n, plus1, popj \in BOOLEAN :
                 DispatchFallsThrough(pops, n, plus1, popj)
      BY <1>6, <2>4
    <2>5. \/ \E pops, popj \in BOOLEAN :
                \/ \E v \in Targets, ish \in BOOLEAN :
                     Operate(pops, TRUE, [pc |-> v, ish |-> ish], popj)
                \/ Halt(pops, popj) \/ JumpNotTaken(pops, popj)
          \/ \E pops, r, p, n \in BOOLEAN, t \in Targets :
                ~(p /\ r) /\ JumpTaken(pops, t, r, p, n)
          \/ \E pops, r, p, n, plus1 \in BOOLEAN, t \in Targets :
                Dispatch(pops, t, r, p, n, plus1)
          \/ \E pops, n, plus1, popj \in BOOLEAN :
                DispatchFallsThrough(pops, n, plus1, popj)
      BY <1>9, Zenon DEF Other
    <2> QED
      BY <2>1, <2>2, <2>3, <2>4, <2>5, Zenon
  <1>10. ASSUME Plain PROVE Goal
    BY <1>1, <1>7, <1>10 DEF Plain
  <1>11. Goal
    BY <1>8, <1>9, <1>10 DEF Next
  <1>12. p1_pc' \in Nat
    BY <1>11, PipelineAssumption DEF Goal, Moved, Fetched, TypeOK
  <1> QED
    BY <1>11, <1>12 DEF Goal, Moved, TypeOK

\* The initial state has fetched the word at 0.
LEMMA InvStarts == StoreInit => Inv
  <1> SUFFICES ASSUME StoreInit PROVE Inv
    OBVIOUS
  <1>1. TypeOK
    <2>1. [pc |-> 0, ish |-> FALSE] \in Words
      BY DEF Words
    <2>2. spc_stack \in [Ring -> Words]
      BY <2>1 DEF StoreInit, Init
    <2>3. 0 \in Ring
      BY PipelineAssumption DEF Ring
    <2>4. u_pc = 1 /\ p1_pc = 0 /\ no_exec_next = FALSE /\ spc_stack_ptr = 0
          /\ run_ucode_flag = TRUE /\ used = 0
      BY DEF StoreInit, Init
    <2>5. 0 \in 0 .. Depth
      BY PipelineAssumption
    <2> QED
      BY <2>2, <2>3, <2>4, <2>5 DEF TypeOK
  <1>2. ucode \in [Pcs -> Nat] /\ prom_enabled_flag \in BOOLEAN
    BY DEF StoreInit
  <1>3. p1 = FETCH(p1_pc)
    BY DEF StoreInit, Init
  <1> QED
    BY <1>1, <1>2, <1>3 DEF Inv, StoreTypeOK

\* A turn fetches ahead before it writes.
LEMMA InvKept == Inv /\ [StoreNext]_storeVars => Inv'
  <1> SUFFICES ASSUME Inv, [StoreNext]_storeVars PROVE Inv'
    OBVIOUS
  <1>1. ASSUME Next, Prefetch
        PROVE  /\ TypeOK'
               /\ p1_pc' \in Pcs
               /\ p1' = FETCH(p1_pc')
    <2>1. TypeOK' /\ p1_pc' = Fetched.p1_pc /\ Fetched.u_pc \in 2 .. MaxPc
      BY <1>1, TurnMoves DEF Inv, StoreTypeOK
    <2>2. p1_pc' \in Pcs
      BY <2>1, PipelineAssumption DEF Fetched, Pcs, Inv, StoreTypeOK, TypeOK
    <2> QED
      BY <1>1, <2>1, <2>2 DEF Prefetch
  <1>2. CASE (Other \/ Plain) /\ KeepStore
    <2>1. TypeOK' /\ p1' = FETCH(p1_pc')
      BY <1>1, <1>2 DEF KeepStore, Next
    <2> QED
      BY <1>2, <2>1 DEF KeepStore, store, FETCH, Inv, StoreTypeOK
  <1>3. ASSUME NEW t \in Writable, WriteStore(t)
        PROVE  Inv'
    <2>1. TypeOK' /\ p1_pc' \in Pcs /\ p1' = FETCH(p1_pc')
      BY <1>1, <1>3 DEF WriteStore, Next
    <2>2. /\ ucode' = [ucode EXCEPT ![t] = @ + 1]
          /\ changed' = {t}
          /\ prom_enabled_flag' = prom_enabled_flag
      BY <1>3 DEF WriteStore
    <2>3. ucode' \in [Pcs -> Nat]
      <3>1. ucode \in [Pcs -> Nat]
        BY DEF Inv, StoreTypeOK
      <3>2. \A i \in Pcs : ucode[i] + 1 \in Nat
        BY <3>1
      <3> QED
        BY <2>2, <3>1, <3>2
    <2>4. p1_pc' # t => ucode'[p1_pc'] = ucode[p1_pc']
      BY <2>1, <2>2 DEF Inv, StoreTypeOK
    <2> QED
      BY <2>1, <2>2, <2>3, <2>4 DEF FETCH, Inv, StoreTypeOK
  <1>4. CASE DisableProm
    <2>1. TypeOK' /\ p1_pc' \in Pcs
      BY <1>1, <1>4 DEF DisableProm, Next
    <2> QED
      BY <1>4, <2>1 DEF DisableProm, Inv, StoreTypeOK
  <1>5. CASE UNCHANGED storeVars
    BY <1>5 DEF storeVars, vars, pcs, store, Inv, StoreTypeOK, TypeOK, FETCH
  <1> QED
    BY <1>2, <1>3, <1>4, <1>5 DEF StoreNext

\* What is executed is what control memory holds, except right behind the
\* instruction that changed it (ucode.c:789-816).
THEOREM StoredWordIsExecuted == StoreSpec => []ExecutesStoredWord
  <1>1. Inv => ExecutesStoredWord
    BY DEF Inv, ExecutesStoredWord, p0, Cur
  <1> QED
    BY <1>1, InvStarts, InvKept, PTL DEF StoreSpec

-----------------------------------------------------------------------------
(***************************************************************************)
(* The refinement.  The ring of SPC words is a sequence, its entries from  *)
(* the oldest to the newest.                                               *)
(***************************************************************************)
Place(p, a) == (p + a) % Depth

Entries(s) == [i \in 1 .. s.used |-> s.stack[(s.ptr + Depth - s.used + i) % Depth]]

LEMMA PlaceFacts ==
  ASSUME NEW p \in Ring, NEW a \in 0 .. Depth
  PROVE  /\ Place(p, a) \in Ring
         /\ Place(p, a) = IF p + a < Depth THEN p + a ELSE p + a - Depth
  <1>1. Depth \in Nat \ {0} /\ p \in 0 .. Depth - 1
    BY PipelineAssumption DEF Ring
  <1>2. CASE p + a < Depth
    <2>1. PICK x \in 0 .. Depth - 1 : x = p + a
      BY <1>1, <1>2
    <2>2. x % Depth = x
      BY <1>1
    <2>3. Place(p, a) = x % Depth
      BY <2>1 DEF Place
    <2> QED
      BY <1>1, <1>2, <2>1, <2>2, <2>3 DEF Ring
  <1>3. CASE ~(p + a < Depth)
    <2>1. PICK x \in Depth .. 2 * Depth - 1 : x = p + a
      BY <1>1, <1>3
    <2>2. x % Depth = x - Depth
      BY <1>1
    <2>3. Place(p, a) = x % Depth
      BY <2>1 DEF Place
    <2>4. x - Depth \in Ring
      BY <1>1 DEF Ring
    <2> QED
      BY <1>1, <1>3, <2>1, <2>2, <2>3, <2>4
  <1> QED
    BY <1>2, <1>3

\* The entries of a ring are words, one at each place.
LEMMA EntriesFacts ==
  ASSUME NEW s \in Rings
  PROVE  /\ s.stack \in [Ring -> Words] /\ s.ptr \in Ring /\ s.used \in Nat
         /\ s.used <= Depth
         /\ \A i \in 1 .. s.used : /\ Depth - s.used + i \in 0 .. Depth
                                   /\ Entries(s)[i] = s.stack[Place(s.ptr, Depth - s.used + i)]
         /\ Entries(s) \in [1 .. s.used -> Words]
  <1>1. s.stack \in [Ring -> Words] /\ s.ptr \in Ring /\ s.used \in Nat /\ s.used <= Depth
    BY PipelineAssumption DEF Rings
  <1>2. ASSUME NEW i \in 1 .. s.used
        PROVE  /\ Depth - s.used + i \in 0 .. Depth
               /\ s.stack[(s.ptr + Depth - s.used + i) % Depth]
                    = s.stack[Place(s.ptr, Depth - s.used + i)]
               /\ s.stack[(s.ptr + Depth - s.used + i) % Depth] \in Words
    <2>1. Depth - s.used + i \in 0 .. Depth
      BY <1>1, PipelineAssumption
    <2>2. s.ptr + Depth - s.used + i = s.ptr + (Depth - s.used + i)
      BY <1>1, PipelineAssumption DEF Ring
    <2>3. (s.ptr + Depth - s.used + i) % Depth = Place(s.ptr, Depth - s.used + i)
      BY <2>2 DEF Place
    <2>4. Place(s.ptr, Depth - s.used + i) \in Ring
      BY <1>1, <2>1, PlaceFacts
    <2> QED
      BY <1>1, <2>1, <2>3, <2>4
  <1>3. \A i \in 1 .. s.used : Entries(s)[i] = s.stack[Place(s.ptr, Depth - s.used + i)]
    BY <1>2 DEF Entries
  <1>4. Entries(s) \in [1 .. s.used -> Words]
    BY <1>2 DEF Entries
  <1> QED
    BY <1>1, <1>2, <1>3, <1>4

LEMMA EntriesSequence ==
  ASSUME NEW s \in Rings
  PROVE  Entries(s) \in Seq(Words) /\ Len(Entries(s)) = s.used
  <1>1. s.used \in Nat /\ Entries(s) \in [1 .. s.used -> Words]
    BY EntriesFacts
  <1>2. Entries(s) \in Seq(Words)
    BY <1>1, SeqDef
  <1>3. Len(Entries(s)) \in Nat /\ DOMAIN Entries(s) = 1 .. Len(Entries(s))
        /\ DOMAIN Entries(s) = 1 .. s.used
    BY <1>1, <1>2, LenProperties
  <1> QED
    BY <1>1, <1>2, <1>3

\* The pointer is at the newest entry.
LEMMA EntriesTop ==
  ASSUME NEW s \in Rings, Entries(s) # <<>>
  PROVE  Entries(s)[Len(Entries(s))] = s.stack[s.ptr]
  <1>1. Entries(s) \in Seq(Words) /\ Len(Entries(s)) = s.used
    BY EntriesSequence
  <1>2. s.used \in Nat /\ s.used # 0 /\ s.used <= Depth /\ s.ptr \in 0 .. Depth - 1
    BY <1>1, EntriesFacts, EmptySeq DEF Ring
  <1>3. Entries(s)[s.used] = s.stack[Place(s.ptr, Depth - s.used + s.used)]
    BY <1>2, EntriesFacts
  <1>4. Depth - s.used + s.used = Depth /\ Depth \in 0 .. Depth
    BY <1>2, PipelineAssumption
  <1>5. Place(s.ptr, Depth) = s.ptr
    <2>1. s.ptr \in Ring /\ Depth \in Nat
      BY <1>2, PipelineAssumption DEF Ring
    <2>2. Place(s.ptr, Depth) = IF s.ptr + Depth < Depth THEN s.ptr + Depth
                                ELSE s.ptr + Depth - Depth
      BY <1>4, <2>1, PlaceFacts
    <2> QED
      BY <1>2, <2>1, <2>2
  <1> QED
    BY <1>1, <1>3, <1>4, <1>5

\* Pushing appends, and forgets the oldest entry of a full ring.
LEMMA EntriesOfPush ==
  ASSUME NEW s \in Rings, NEW w \in Words
  PROVE  Entries(push_spc(s, w)) = Sequencing!Push(Entries(s), w)
  <1> DEFINE e == Entries(s)
             p == push_spc(s, w)
             f == Entries(p)
             top == Place(s.ptr, 1)
  <1>1. p \in Rings
    BY PushKept
  <1>2. /\ e \in Seq(Words) /\ Len(e) = s.used
        /\ f \in Seq(Words) /\ Len(f) = p.used
    BY <1>1, EntriesSequence
  <1>3. /\ s.stack \in [Ring -> Words] /\ s.used \in 0 .. Depth
        /\ s.ptr \in Ring /\ s.ptr \in 0 .. Depth - 1
        /\ Depth \in Nat \ {0}
    BY EntriesFacts, PipelineAssumption DEF Ring
  <1>4. /\ p.stack = [s.stack EXCEPT ![top] = w]
        /\ p.ptr = top
        /\ p.used = IF s.used < Depth THEN s.used + 1 ELSE Depth
    BY DEF push_spc, Place
  <1>5. /\ top \in 0 .. Depth - 1 /\ top \in Ring
        /\ top = IF s.ptr + 1 < Depth THEN s.ptr + 1 ELSE s.ptr + 1 - Depth
    <2>1. 1 \in 0 .. Depth
      BY <1>3
    <2>2. PICK pp \in Ring : pp = s.ptr
      BY <1>3
    <2>3. Place(pp, 1) \in Ring
          /\ Place(pp, 1) = IF pp + 1 < Depth THEN pp + 1 ELSE pp + 1 - Depth
      BY <2>1, PlaceFacts
    <2>4. top \in Ring /\ top = IF s.ptr + 1 < Depth THEN s.ptr + 1 ELSE s.ptr + 1 - Depth
      BY <2>2, <2>3
    <2> QED BY <2>4 DEF Ring
  <1>6. \A i \in 1 .. s.used : e[i] = s.stack[Place(s.ptr, Depth - s.used + i)]
    BY EntriesFacts
  <1>7. \A i \in 1 .. p.used : f[i] = p.stack[Place(p.ptr, Depth - p.used + i)]
    BY <1>1, EntriesFacts
  \* The newest entry is at the pointer, the others are where they were.
  <1>8. f[p.used] = w
    <2>1. f # <<>> /\ p.used \in Nat
      BY <1>2, <1>3, <1>4, EmptySeq
    <2>2. f[p.used] = p.stack[p.ptr]
      BY <1>1, <1>2, <2>1, EntriesTop
    <2> QED
      BY <1>3, <1>4, <1>5, <2>2
  <1> HIDE DEF e, p, f, top
  <1>9. CASE s.used < Depth
    <2>1. p.used = s.used + 1
      BY <1>4, <1>9
    <2>2. ASSUME NEW i \in 1 .. s.used PROVE f[i] = e[i]
      <3> DEFINE old == Place(s.ptr, Depth - s.used + i)
                 new == Place(p.ptr, Depth - p.used + i)
      <3>1. f[i] = p.stack[new] /\ e[i] = s.stack[old]
        BY <1>3, <1>6, <1>7, <2>1
      <3>2. /\ Depth - s.used + i \in 0 .. Depth
            /\ Depth - p.used + i \in 0 .. Depth
            /\ Depth - p.used + i = Depth - s.used + i - 1
        BY <1>3, <1>9, <2>1
      <3>3. /\ old \in Ring
            /\ old = IF s.ptr + (Depth - s.used + i) < Depth
                     THEN s.ptr + (Depth - s.used + i)
                     ELSE s.ptr + (Depth - s.used + i) - Depth
        BY <1>3, <3>2, PlaceFacts
      <3>4. new = IF p.ptr + (Depth - p.used + i) < Depth
                  THEN p.ptr + (Depth - p.used + i)
                  ELSE p.ptr + (Depth - p.used + i) - Depth
        BY <1>4, <1>5, <3>2, PlaceFacts
      <3> HIDE DEF old, new
      <3>5. new = old /\ old # top
        BY <1>3, <1>4, <1>5, <1>9, <2>1, <3>3, <3>4
      <3> QED
        BY <1>3, <1>4, <3>1, <3>3, <3>5
    <2>3. /\ Append(e, w) \in Seq(Words) /\ Len(Append(e, w)) = s.used + 1
          /\ \A i \in 1 .. s.used : Append(e, w)[i] = e[i]
          /\ Append(e, w)[s.used + 1] = w
      BY <1>2, AppendProperties
    <2>4. \A i \in 1 .. s.used + 1 : i \in 1 .. s.used \/ i = s.used + 1
      BY <1>3
    <2>5. \A i \in 1 .. Len(f) : f[i] = Append(e, w)[i]
      BY <1>2, <1>8, <2>1, <2>2, <2>3, <2>4
    <2>6. f = Append(e, w)
      BY <1>2, <2>1, <2>3, <2>5, SeqEqual
    <2> QED
      BY <1>2, <1>9, <2>6 DEF Sequencing!Push, e, f, p
  <1>10. CASE ~(s.used < Depth)
    <2>1. p.used = Depth /\ s.used = Depth
      BY <1>3, <1>4, <1>10
    <2>2. ASSUME NEW i \in 1 .. Depth - 1 PROVE f[i] = e[i + 1]
      <3> DEFINE old == Place(s.ptr, Depth - s.used + (i + 1))
                 new == Place(p.ptr, Depth - p.used + i)
      <3>1. f[i] = p.stack[new] /\ e[i + 1] = s.stack[old]
        BY <1>3, <1>6, <1>7, <2>1
      <3>2. /\ Depth - s.used + (i + 1) \in 0 .. Depth
            /\ Depth - p.used + i \in 0 .. Depth
            /\ Depth - s.used + (i + 1) = i + 1
            /\ Depth - p.used + i = i
        BY <1>3, <2>1
      <3>3. /\ old \in Ring
            /\ old = IF s.ptr + (i + 1) < Depth THEN s.ptr + (i + 1)
                     ELSE s.ptr + (i + 1) - Depth
        BY <1>3, <3>2, PlaceFacts
      <3>4. new = IF p.ptr + i < Depth THEN p.ptr + i ELSE p.ptr + i - Depth
        BY <1>4, <1>5, <3>2, PlaceFacts
      <3> HIDE DEF old, new
      <3>5. new = old /\ old # top
        BY <1>3, <1>4, <1>5, <3>3, <3>4
      <3> QED
        BY <1>3, <1>4, <3>1, <3>3, <3>5
    <2>3. e # <<>>
      BY <1>2, <1>3, <2>1, EmptySeq
    <2>4. /\ Tail(e) \in Seq(Words) /\ Len(Tail(e)) = Depth - 1
          /\ \A i \in 1 .. Depth - 1 : Tail(e)[i] = e[i + 1]
      BY <1>2, <2>1, <2>3, HeadTailProperties
    <2>5. /\ Append(Tail(e), w) \in Seq(Words) /\ Len(Append(Tail(e), w)) = Depth - 1 + 1
          /\ \A i \in 1 .. Depth - 1 : Append(Tail(e), w)[i] = Tail(e)[i]
          /\ Append(Tail(e), w)[Depth - 1 + 1] = w
      BY <2>4, AppendProperties
    <2>6. Depth - 1 + 1 = Depth /\ \A i \in 1 .. Depth : i \in 1 .. Depth - 1 \/ i = Depth
      BY <1>3
    <2>7. \A i \in 1 .. Len(f) : f[i] = Append(Tail(e), w)[i]
      BY <1>2, <1>8, <2>1, <2>2, <2>4, <2>5, <2>6
    <2>8. f = Append(Tail(e), w)
      BY <1>2, <2>1, <2>5, <2>6, <2>7, SeqEqual
    <2> QED
      BY <1>2, <1>10, <2>8 DEF Sequencing!Push, e, f, p
  <1> QED
    BY <1>9, <1>10

\* Popping forgets the newest entry, and nothing of an empty ring.
LEMMA EntriesOfPop ==
  ASSUME NEW s \in Rings
  PROVE  Entries(pop_spc(s)) = Sequencing!Pop(Entries(s))
  <1> DEFINE e == Entries(s)
             p == pop_spc(s)
             f == Entries(p)
             below == Place(s.ptr, Depth - 1)
  <1>1. p \in Rings
    BY PopKept
  <1>2. /\ e \in Seq(Words) /\ Len(e) = s.used
        /\ f \in Seq(Words) /\ Len(f) = p.used
    BY <1>1, EntriesSequence
  <1>3. /\ s.stack \in [Ring -> Words] /\ s.used \in 0 .. Depth
        /\ s.ptr \in Ring /\ s.ptr \in 0 .. Depth - 1
        /\ Depth \in Nat \ {0}
    BY EntriesFacts, PipelineAssumption DEF Ring
  <1>4. /\ p.stack = s.stack
        /\ p.ptr = below
        /\ p.used = IF s.used > 0 THEN s.used - 1 ELSE 0
    <2>1. s.ptr + Depth - 1 = s.ptr + (Depth - 1)
      BY <1>3
    <2>2. (s.ptr + Depth - 1) % Depth = below
      BY <2>1 DEF Place
    <2> QED
      BY <2>2 DEF pop_spc, Rings
  <1>5. /\ below \in Ring /\ below \in 0 .. Depth - 1
        /\ below = IF s.ptr + (Depth - 1) < Depth THEN s.ptr + (Depth - 1)
                   ELSE s.ptr + (Depth - 1) - Depth
    <2>1. Depth - 1 \in 0 .. Depth
      BY <1>3
    <2>2. /\ below \in Ring
          /\ below = IF s.ptr + (Depth - 1) < Depth THEN s.ptr + (Depth - 1)
                     ELSE s.ptr + (Depth - 1) - Depth
      BY <1>3, <2>1, PlaceFacts
    <2> QED
      BY <2>2 DEF Ring
  <1>6. \A i \in 1 .. s.used : e[i] = s.stack[Place(s.ptr, Depth - s.used + i)]
    BY EntriesFacts
  <1>7. \A i \in 1 .. p.used : f[i] = p.stack[Place(p.ptr, Depth - p.used + i)]
    BY <1>1, EntriesFacts
  <1> HIDE DEF e, p, f, below
  <1>8. CASE s.used = 0
    <2>1. e = <<>> /\ f = <<>>
      BY <1>2, <1>4, <1>8, EmptySeq
    <2> QED
      BY <2>1 DEF Sequencing!Pop, e, f, p
  <1>9. CASE s.used # 0
    <2>1. p.used = s.used - 1 /\ s.used \in 1 .. Depth
      BY <1>3, <1>4, <1>9
    <2>2. ASSUME NEW i \in 1 .. s.used - 1 PROVE f[i] = e[i]
      <3> DEFINE old == Place(s.ptr, Depth - s.used + i)
                 new == Place(p.ptr, Depth - p.used + i)
      <3>1. f[i] = p.stack[new] /\ e[i] = s.stack[old]
        BY <1>3, <1>6, <1>7, <2>1
      <3>2. /\ Depth - s.used + i \in 0 .. Depth
            /\ Depth - p.used + i \in 0 .. Depth
            /\ Depth - p.used + i = Depth - s.used + i + 1
        BY <1>3, <2>1
      <3>3. old = IF s.ptr + (Depth - s.used + i) < Depth
                  THEN s.ptr + (Depth - s.used + i)
                  ELSE s.ptr + (Depth - s.used + i) - Depth
        BY <1>3, <3>2, PlaceFacts
      <3>4. new = IF p.ptr + (Depth - p.used + i) < Depth
                  THEN p.ptr + (Depth - p.used + i)
                  ELSE p.ptr + (Depth - p.used + i) - Depth
        BY <1>4, <1>5, <3>2, PlaceFacts
      <3> HIDE DEF old, new
      <3>5. new = old
        BY <1>3, <1>4, <1>5, <2>1, <3>3, <3>4
      <3> QED
        BY <1>4, <3>1, <3>5
    <2>3. e # <<>>
      BY <1>2, <1>9, EmptySeq
    <2>4. /\ SubSeq(e, 1, s.used - 1) \in Seq(Words)
          /\ Len(SubSeq(e, 1, s.used - 1)) = s.used - 1
          /\ \A i \in 1 .. s.used - 1 : SubSeq(e, 1, s.used - 1)[i] = e[i]
      <3>1. s.used - 1 \in Nat /\ s.used - 1 <= Len(e)
        BY <1>2, <2>1
      <3> QED
        BY <1>2, <2>1, <3>1
    <2>5. f = SubSeq(e, 1, s.used - 1)
      BY <1>2, <2>1, <2>2, <2>4, SeqEqual
    <2> QED
      BY <1>2, <2>3, <2>5 DEF Sequencing!Pop, e, f, p
  <1> QED
    BY <1>8, <1>9

-----------------------------------------------------------------------------
\* The registers as MicroSeq sees them, before the turn ...
LEMMA Fetching ==
  ASSUME TypeOK
  PROVE  /\ Fetched.p1_pc = NextUp
         /\ Fetched.u_pc = NextUp + 1
         /\ NextUp \in Nat
         /\ Spc \in Rings
         /\ Stack = Entries(Spc)
  <1>1. u_pc \in Nat /\ p1_pc \in Nat /\ no_exec_next \in BOOLEAN
    BY DEF TypeOK
  <1>2. Fetched.p1_pc = NextUp /\ Fetched.u_pc = NextUp + 1 /\ NextUp \in Nat
    BY <1>1 DEF Fetched, NextUp
  <1>3. Spc \in Rings
    BY DEF TypeOK, Spc, Rings
  <1>4. Stack = Entries(Spc)
    BY DEF Stack, Entries, Spc
  <1> QED
    BY <1>2, <1>3, <1>4

\* ... and after it: the delay slot comes next, unless the stall skips it.
LEMMA Delayed ==
  ASSUME TypeOK, p1_pc' = Fetched.p1_pc
  PROVE  /\ no_exec_next' = FALSE => Cur' = NextUp /\ NextUp' = u_pc'
         /\ no_exec_next' = TRUE => Cur' = u_pc' /\ NextUp' = Cur' + 1
  BY Fetching DEF Cur, NextUp

LEMMA SetSpcSets ==
  ASSUME NEW s \in Rings, SetSpc(s)
  PROVE  Stack' = Entries(s)
  BY DEF SetSpc, Stack, Entries

\* A source that pops, on both sides.
LEMMA SourceMaps ==
  ASSUME TypeOK, NEW pops \in BOOLEAN
  PROVE  /\ AfterSource(pops) \in Rings
         /\ Entries(AfterSource(pops)) = Sequencing!Source(pops)
  <1>1. AfterSource(pops) \in Rings
    BY SourceKept
  <1>2. Entries(AfterSource(pops)) = IF pops THEN Sequencing!Pop(Stack) ELSE Stack
    BY Fetching, EntriesOfPop DEF AfterSource
  <1> QED
    BY <1>1, <1>2 DEF Sequencing!Source

\* The instruction-stream hardware moves the return as MicroSeq allows.
LEMMA ReturnMaps ==
  ASSUME NEW s \in Rings, NEW t \in AdvanceLc(s.stack[s.ptr])
  PROVE  Sequencing!MayReturnTo(Entries(s), t)
  <1> DEFINE w == s.stack[s.ptr]
  <1>1. t = w.pc \/ (w.ish /\ t = Sequencing!SkipTwo(w.pc))
    BY DEF AdvanceLc, Sequencing!SkipTwo
  <1> QED
    BY <1>1, EntriesTop DEF Sequencing!MayReturnTo

\* The end of an instruction that transfers nowhere by itself.
LEMMA FinishMaps ==
  ASSUME TypeOK, NEW s \in Rings, NEW popj \in BOOLEAN,
         Finish(s, popj, Fetched.u_pc), no_exec_next' = FALSE
  PROVE  Sequencing!EndWithPopj(Entries(s), popj)
  <1>1. p1_pc' = Fetched.p1_pc
    BY DEF Finish
  <1>2. Cur' = NextUp /\ NextUp' = u_pc'
    BY <1>1, Delayed
  <1>3. CASE popj
    <2>1. SetSpc(pop_spc(s)) /\ u_pc' \in AdvanceLc(s.stack[s.ptr])
      BY <1>3 DEF Finish
    <2>2. Stack' = Sequencing!Pop(Entries(s))
      BY <2>1, PopKept, SetSpcSets, EntriesOfPop
    <2>3. Sequencing!MayReturnTo(Entries(s), NextUp')
      BY <1>2, <2>1, ReturnMaps
    <2> QED
      BY <1>2, <1>3, <2>2, <2>3 DEF Sequencing!EndWithPopj, Sequencing!Transfer
  <1>4. CASE ~popj
    <2>1. SetSpc(s) /\ u_pc' = NextUp + 1
      BY <1>4, Fetching DEF Finish
    <2>2. Stack' = Entries(s)
      BY <2>1, SetSpcSets
    <2> QED
      BY <1>2, <1>4, <2>1, <2>2 DEF Sequencing!EndWithPopj, Sequencing!Advance
  <1> QED
    BY <1>3, <1>4

\* A dispatch that falls through, which may skip the delay slot.
LEMMA FallThroughMaps ==
  ASSUME TypeOK, NEW pops \in BOOLEAN, NEW n \in BOOLEAN, NEW plus1 \in BOOLEAN,
         NEW popj \in BOOLEAN, DispatchFallsThrough(pops, n, plus1, popj)
  PROVE  Sequencing!FallThrough(pops, n, plus1, popj)
  <1> DEFINE s == AfterSource(pops)
             e == Sequencing!Source(pops)
  <1>1. s \in Rings /\ Entries(s) = e
    BY SourceMaps
  <1>2. /\ Finish(s, popj, DispatchPc(n, plus1))
        /\ no_exec_next' = n
    BY DEF DispatchFallsThrough
  <1>3. p1_pc' = Fetched.p1_pc
    BY <1>2 DEF Finish
  <1>4. /\ n = FALSE => Cur' = NextUp /\ NextUp' = u_pc'
        /\ n = TRUE => Cur' = u_pc' /\ NextUp' = Cur' + 1
    BY <1>2, <1>3, Delayed
  <1> HIDE DEF s, e
  <1>5. CASE popj
    <2>1. SetSpc(pop_spc(s)) /\ u_pc' \in AdvanceLc(s.stack[s.ptr])
      BY <1>2, <1>5 DEF Finish
    <2>2. Stack' = Sequencing!Pop(e)
      BY <1>1, <2>1, PopKept, SetSpcSets, EntriesOfPop
    <2>3. Sequencing!MayReturnTo(e, u_pc')
      BY <1>1, <2>1, ReturnMaps
    <2>4. Sequencing!Landing(n) = u_pc' /\ Sequencing!Transfer(n)
      BY <1>4 DEF Sequencing!Landing, Sequencing!Transfer
    <2> QED
      BY <1>5, <2>2, <2>3, <2>4 DEF Sequencing!FallThrough, e
  <1>6. CASE ~popj
    <2>1. SetSpc(s) /\ u_pc' = DispatchPc(n, plus1)
      BY <1>2, <1>6 DEF Finish
    <2>2. Stack' = e
      BY <1>1, <2>1, SetSpcSets
    <2>3. u_pc' = IF n /\ plus1 THEN NextUp ELSE NextUp + 1
      <3>1. NextUp \in Nat /\ Fetched.u_pc = NextUp + 1
        BY Fetching
      <3> QED
        BY <2>1, <3>1 DEF DispatchPc
    <2>4. IF n /\ ~plus1 THEN Cur' = NextUp + 1 /\ NextUp' = NextUp + 2
                         ELSE Sequencing!Advance
      <3>1. NextUp \in Nat
        BY Fetching
      <3>2. CASE n /\ ~plus1
        BY <1>4, <2>3, <3>1, <3>2
      <3>3. CASE n /\ plus1
        BY <1>4, <2>3, <3>1, <3>3 DEF Sequencing!Advance
      <3>4. CASE ~n
        BY <1>4, <2>3, <3>1, <3>4 DEF Sequencing!Advance
      <3> QED
        BY <3>2, <3>3, <3>4
    <2> QED
      BY <1>6, <2>2, <2>4 DEF Sequencing!FallThrough, e
  <1> QED
    BY <1>5, <1>6

\* A taken transfer returns to pc, or to the word before if that was not
\* executed.
LEMMA ProcessJumpMaps ==
  ASSUME TypeOK, NEW pops \in BOOLEAN, NEW t \in Nat, NEW r \in BOOLEAN,
         NEW p \in BOOLEAN, NEW n \in BOOLEAN, NEW pc \in Nat \ {0},
         NEW s, s = AfterSource(pops), ProcessJump(s, t, r, p, n, pc),
         NEW resume, resume = IF n THEN pc - 1 ELSE pc
  PROVE  Sequencing!Taken(pops, t, r, p, n, resume)
  <1> DEFINE w == [pc |-> IF n THEN pc - 1 ELSE pc, ish |-> FALSE]
             s1 == IF p THEN push_spc(s, w) ELSE s
             e == Sequencing!Source(pops)
             e1 == IF p THEN Sequencing!Push(e, w) ELSE e
  <1>1. s \in Rings /\ Entries(s) = e
    BY SourceMaps
  <1>2. w \in Words
    BY DEF Words
  <1>3. /\ IF r THEN u_pc' \in AdvanceLc(s1.stack[s1.ptr]) /\ SetSpc(pop_spc(s1))
                ELSE u_pc' = t /\ SetSpc(s1)
        /\ no_exec_next' = n
        /\ p1_pc' = Fetched.p1_pc
    BY DEF ProcessJump
  <1>4. w = Sequencing!Entry(resume, FALSE)
    BY DEF Sequencing!Entry
  <1> HIDE DEF w, e
  <1>5. s1 \in Rings /\ Entries(s1) = e1
    BY <1>1, <1>2, PushKept, EntriesOfPush
  <1> HIDE DEF s1
  <1>6. /\ n = FALSE => Cur' = NextUp /\ NextUp' = u_pc'
        /\ n = TRUE => Cur' = u_pc' /\ NextUp' = Cur' + 1
    BY <1>3, Delayed
  <1>7. Sequencing!Landing(n) = u_pc' /\ Sequencing!Transfer(n)
    BY <1>6 DEF Sequencing!Landing, Sequencing!Transfer
  <1>8. ASSUME r PROVE Sequencing!MayReturnTo(e1, u_pc') /\ Stack' = Sequencing!Pop(e1)
    BY <1>3, <1>5, <1>8, PopKept, SetSpcSets, EntriesOfPop, ReturnMaps
  <1>9. ASSUME ~r PROVE u_pc' = t /\ Stack' = e1
    BY <1>3, <1>5, <1>9, SetSpcSets
  <1> QED
    BY <1>4, <1>7, <1>8, <1>9 DEF Sequencing!Taken, e

LEMMA RunningFacts ==
  ASSUME TypeOK, Running, NEW n \in BOOLEAN, NEW plus1 \in BOOLEAN
  PROVE  /\ Fetched.u_pc \in Nat \ {0}
         /\ DispatchPc(n, plus1) \in Nat \ {0}
         /\ (IF n THEN Fetched.u_pc - 1 ELSE Fetched.u_pc)
              = (IF n /\ FALSE THEN NextUp - 1 ELSE Sequencing!ReturnAddress(n))
         /\ (IF n THEN DispatchPc(n, plus1) - 1 ELSE DispatchPc(n, plus1))
              = (IF n /\ plus1 THEN NextUp - 1 ELSE Sequencing!ReturnAddress(n))
  <1>1. NextUp \in Nat /\ Fetched.u_pc = NextUp + 1 /\ Fetched.u_pc >= 2
    BY Fetching DEF Running
  <1> QED
    BY <1>1 DEF DispatchPc, Sequencing!ReturnAddress

\* Every instruction of the pipeline is one of MicroSeq.
LEMMA TurnMaps ==
  ASSUME TypeOK, Next
  PROVE  Sequencing!Step
  <1>1. \A v \in Targets \cup {0} : v \in Nat
    BY PipelineAssumption
  <1>2. ASSUME NEW pops \in BOOLEAN, NEW popj \in BOOLEAN,
               \/ Halt(pops, popj) \/ JumpNotTaken(pops, popj)
               \/ Operate(pops, FALSE, [pc |-> 0, ish |-> FALSE], popj)
        PROVE  Sequencing!Step
    <2>1. Finish(AfterSource(pops), popj, Fetched.u_pc) /\ no_exec_next' = FALSE
      BY <1>2 DEF Halt, JumpNotTaken, Operate
    <2>2. Sequencing!NotTaken(pops, popj)
      BY <2>1, SourceMaps, FinishMaps DEF Sequencing!NotTaken
    <2> QED
      BY <2>2 DEF Sequencing!Step
  <1>3. ASSUME NEW pops \in BOOLEAN, NEW popj \in BOOLEAN, NEW ish \in BOOLEAN,
               NEW v \in Targets, Operate(pops, TRUE, [pc |-> v, ish |-> ish], popj)
        PROVE  Sequencing!Step
    <2> DEFINE w == [pc |-> v, ish |-> ish]
               s == AfterSource(pops)
    <2>1. w \in Words /\ w = Sequencing!Entry(v, ish)
      BY <1>1 DEF Words, Sequencing!Entry
    <2>2. s \in Rings /\ Entries(s) = Sequencing!Source(pops)
      BY SourceMaps
    <2>3. Finish(push_spc(s, w), popj, Fetched.u_pc) /\ no_exec_next' = FALSE
      BY <1>3 DEF Operate
    <2> HIDE DEF w, s
    <2>4. /\ push_spc(s, w) \in Rings
          /\ Entries(push_spc(s, w)) = Sequencing!Push(Sequencing!Source(pops), w)
      BY <2>1, <2>2, PushKept, EntriesOfPush
    <2>5. Sequencing!EndWithPopj(Sequencing!Push(Sequencing!Source(pops), w), popj)
      BY <2>3, <2>4, FinishMaps
    <2>6. Sequencing!Plain(pops, TRUE, Sequencing!Entry(v, ish), popj)
      BY <2>1, <2>5 DEF Sequencing!Plain
    <2> QED
      BY <2>6 DEF Sequencing!Step
  <1>4. ASSUME NEW pops \in BOOLEAN, NEW t \in Targets \cup {0}, NEW r \in BOOLEAN,
               NEW p \in BOOLEAN, NEW n \in BOOLEAN, JumpTaken(pops, t, r, p, n),
               r \/ t \in Targets
        PROVE  Sequencing!Step
    <2> DEFINE back == IF n /\ FALSE THEN NextUp - 1 ELSE Sequencing!ReturnAddress(n)
    <2>1. Running /\ ProcessJump(AfterSource(pops), t, r, p, n, Fetched.u_pc)
      BY <1>4 DEF JumpTaken
    <2>2. PICK u \in Targets : r \/ u = t
      BY <1>4, PipelineAssumption
    <2>3. Fetched.u_pc \in Nat \ {0}
          /\ (IF n THEN Fetched.u_pc - 1 ELSE Fetched.u_pc) = back
      BY <2>1, RunningFacts
    <2> HIDE DEF back
    <2>4. Sequencing!Taken(pops, u, r, p, n, back)
      <3>1. u \in Nat
        BY <1>1
      <3>2. PICK pc \in Nat \ {0} : pc = Fetched.u_pc
        BY <2>3
      <3>3. PICK s : s = AfterSource(pops) /\ ProcessJump(s, u, r, p, n, pc)
        BY <2>1, <2>2, <3>2 DEF ProcessJump
      <3>4. PICK resume : resume = IF n THEN pc - 1 ELSE pc
        OBVIOUS
      <3>5. Sequencing!Taken(pops, u, r, p, n, resume)
        BY <3>1, <3>3, <3>4, ProcessJumpMaps
      <3>6. resume = back
        BY <2>3, <3>2, <3>4
      <3> QED
        BY <3>5, <3>6 DEF Sequencing!Taken
    <2>5. Sequencing!Taken(pops, u, r, p, n,
                           IF n /\ FALSE THEN NextUp - 1 ELSE Sequencing!ReturnAddress(n))
      BY <2>4 DEF back
    <2> QED
      <3>1. \E pops2, r2, p2, n2, plus2 \in BOOLEAN, t2 \in Targets :
              Sequencing!Taken(pops2, t2, r2, p2, n2,
                               IF n2 /\ plus2 THEN NextUp - 1
                               ELSE Sequencing!ReturnAddress(n2))
        <4> WITNESS pops \in BOOLEAN, r \in BOOLEAN, p \in BOOLEAN, n \in BOOLEAN,
                    FALSE \in BOOLEAN, u \in Targets
        <4> QED
          BY <2>5
      <3> QED
        BY <3>1 DEF Sequencing!Step
  <1>5. ASSUME NEW pops \in BOOLEAN, NEW t \in Targets, NEW r \in BOOLEAN,
               NEW p \in BOOLEAN, NEW n \in BOOLEAN, NEW plus1 \in BOOLEAN,
               Dispatch(pops, t, r, p, n, plus1)
        PROVE  Sequencing!Step
    <2> DEFINE back == IF n /\ plus1 THEN NextUp - 1 ELSE Sequencing!ReturnAddress(n)
    <2>1. Running /\ ProcessJump(AfterSource(pops), t, r, p, n, DispatchPc(n, plus1))
      BY <1>5 DEF Dispatch
    <2>2. /\ DispatchPc(n, plus1) \in Nat \ {0}
          /\ (IF n THEN DispatchPc(n, plus1) - 1 ELSE DispatchPc(n, plus1)) = back
      BY <2>1, RunningFacts
    <2> HIDE DEF back
    <2>3. Sequencing!Taken(pops, t, r, p, n, back)
      <3>1. t \in Nat
        BY <1>1
      <3>2. PICK pc \in Nat \ {0} : pc = DispatchPc(n, plus1)
        BY <2>2
      <3>3. PICK s : s = AfterSource(pops) /\ ProcessJump(s, t, r, p, n, pc)
        BY <2>1, <3>2 DEF ProcessJump
      <3>4. PICK resume : resume = IF n THEN pc - 1 ELSE pc
        OBVIOUS
      <3>5. Sequencing!Taken(pops, t, r, p, n, resume)
        BY <3>1, <3>3, <3>4, ProcessJumpMaps
      <3>6. resume = back
        BY <2>2, <3>2, <3>4
      <3> QED
        BY <3>5, <3>6 DEF Sequencing!Taken
    <2>4. Sequencing!Taken(pops, t, r, p, n,
                           IF n /\ plus1 THEN NextUp - 1 ELSE Sequencing!ReturnAddress(n))
      BY <2>3 DEF back
    <2> QED
      <3>1. \E pops2, r2, p2, n2, plus2 \in BOOLEAN, t2 \in Targets :
              Sequencing!Taken(pops2, t2, r2, p2, n2,
                               IF n2 /\ plus2 THEN NextUp - 1
                               ELSE Sequencing!ReturnAddress(n2))
        <4> WITNESS pops \in BOOLEAN, r \in BOOLEAN, p \in BOOLEAN, n \in BOOLEAN,
                    plus1 \in BOOLEAN, t \in Targets
        <4> QED
          BY <2>4
      <3> QED
        BY <3>1 DEF Sequencing!Step
  <1>6. ASSUME NEW pops \in BOOLEAN, NEW n \in BOOLEAN, NEW plus1 \in BOOLEAN,
               NEW popj \in BOOLEAN, DispatchFallsThrough(pops, n, plus1, popj)
        PROVE  Sequencing!Step
    BY <1>6, FallThroughMaps DEF Sequencing!Step
  <1>7. ASSUME StoreJump PROVE Sequencing!Step
    BY <1>2, <1>4, <1>7 DEF StoreJump
  <1>8. ASSUME Other PROVE Sequencing!Step
    <2>1. CASE \E pops, popj \in BOOLEAN :
                 \/ \E v \in Targets, ish \in BOOLEAN :
                      Operate(pops, TRUE, [pc |-> v, ish |-> ish], popj)
                 \/ Halt(pops, popj) \/ JumpNotTaken(pops, popj)
      BY <1>2, <1>3, <2>1
    <2>2. CASE \E pops, r, p, n \in BOOLEAN, t \in Targets :
                 ~(p /\ r) /\ JumpTaken(pops, t, r, p, n)
      BY <1>4, <2>2
    <2>3. CASE \E pops, r, p, n, plus1 \in BOOLEAN, t \in Targets :
                 Dispatch(pops, t, r, p, n, plus1)
      BY <1>5, <2>3
    <2>4. CASE \E pops, n, plus1, popj \in BOOLEAN :
                 DispatchFallsThrough(pops, n, plus1, popj)
      BY <1>6, <2>4
    <2>5. \/ \E pops, popj \in BOOLEAN :
                \/ \E v \in Targets, ish \in BOOLEAN :
                     Operate(pops, TRUE, [pc |-> v, ish |-> ish], popj)
                \/ Halt(pops, popj) \/ JumpNotTaken(pops, popj)
          \/ \E pops, r, p, n \in BOOLEAN, t \in Targets :
                ~(p /\ r) /\ JumpTaken(pops, t, r, p, n)
          \/ \E pops, r, p, n, plus1 \in BOOLEAN, t \in Targets :
                Dispatch(pops, t, r, p, n, plus1)
          \/ \E pops, n, plus1, popj \in BOOLEAN :
                DispatchFallsThrough(pops, n, plus1, popj)
      BY <1>8, Zenon DEF Other
    <2> QED
      BY <2>1, <2>2, <2>3, <2>4, <2>5, Zenon
  <1>9. ASSUME Plain PROVE Sequencing!Step
    BY <1>2, <1>9 DEF Plain
  <1> QED
    BY <1>7, <1>8, <1>9 DEF Next

\* The machine at power up.
LEMMA SequencingStarts == Init => TypeOK /\ Sequencing!Init
  <1> SUFFICES ASSUME Init PROVE TypeOK /\ Sequencing!Init
    OBVIOUS
  <1>1. TypeOK
    <2>1. [pc |-> 0, ish |-> FALSE] \in Words
      BY DEF Words
    <2>2. spc_stack \in [Ring -> Words]
      BY <2>1 DEF Init
    <2>3. 0 \in Ring /\ 0 \in 0 .. Depth
      BY PipelineAssumption DEF Ring
    <2>4. u_pc = 1 /\ p1_pc = 0 /\ no_exec_next = FALSE /\ spc_stack_ptr = 0
          /\ run_ucode_flag = TRUE /\ used = 0
      BY DEF Init
    <2> QED
      BY <2>2, <2>3, <2>4 DEF TypeOK
  <1>2. Cur = 0 /\ NextUp = 1
    BY DEF Init, Cur, NextUp
  <1>3. Stack = <<>>
    <2>1. Spc \in Rings /\ Stack = Entries(Spc) /\ Spc.used = 0
      BY <1>1, Fetching DEF Init, Spc
    <2>2. Stack \in Seq(Words) /\ Len(Stack) = 0
      BY <2>1, EntriesSequence
    <2> QED
      BY <2>2, EmptySeq
  <1> QED
    BY <1>1, <1>2, <1>3 DEF Sequencing!Init

LEMMA SequencingSteps == TypeOK /\ [Next]_vars => TypeOK' /\ [Sequencing!Step]_(Sequencing!svars)
  <1>1. CASE UNCHANGED vars
    BY <1>1 DEF vars, pcs, TypeOK, Cur, NextUp, Stack, Sequencing!svars
  <1> QED
    BY <1>1, TurnMoves, TurnMaps

\* The pipeline with its stall and its ring executes instructions in the
\* order that microcode is written for (run() of ucode.c): for every program,
\* every size of the ring, and calls and returns in delay slots.
THEOREM PipelineImplementsSequencing == Spec => ImplementsMicroSeq
  BY SequencingStarts, SequencingSteps, PTL DEF Spec, ImplementsMicroSeq, Sequencing!Spec

\* So does the machine whose control memory changes under the pipeline.
THEOREM StoreImplementsSequencing == StoreSpec => ImplementsMicroSeq
  <1>1. StoreInit => Init
    BY DEF StoreInit
  <1>2. [StoreNext]_storeVars => [Next]_vars
    BY DEF StoreNext, storeVars, WriteStore, DisableProm, Next
  <1>3. StoreSpec => Spec
    BY <1>1, <1>2, PTL DEF StoreSpec, Spec
  <1> QED
    BY <1>3, PipelineImplementsSequencing

-----------------------------------------------------------------------------
(***************************************************************************)
(* The PDL buffer.  Its entries lie one behind another in the ring, with   *)
(* the newest at the pointer, and the index lies where the marked entry    *)
(* is, or would be, if the stack has shrunk below it since.                *)
(***************************************************************************)
Stacked(words, ptr, index, es, known) ==
  /\ words \in [Places -> Int]
  /\ ptr \in Places /\ index \in Places
  /\ es \in Seq(Int) /\ Len(es) <= PdlSize
  /\ known \in Nat
  /\ \A i \in 1 .. Len(es) : words[Masked(ptr - Len(es) + i)] = es[i]
  /\ known # 0 => index = Masked(ptr - Len(es) + known)

PdlInv == m_memory_word \in Int /\ Stacked(pdl_memory, pdl_ptr, pdl_index, entries, mark)

LEMMA PdlDivision ==
  ASSUME NEW d \in Nat \ {0}, NEW x \in Int
  PROVE  \E k \in Int, r \in 0 .. d - 1 : x % d = r /\ x = k * d + r
<1>1. x \div d \in Int
  OBVIOUS
<1>2. x % d \in 0 .. d - 1
  OBVIOUS
<1>3. ASSUME NEW k \in Int, k = x \div d
      PROVE  x - k * d = x % d /\ k * d \in Int
  BY <1>3
<1>4. PICK k \in Int : k = x \div d /\ x - k * d = x % d /\ k * d \in Int
  BY <1>1, <1>3
<1>5. PICK r \in 0 .. d - 1 : r = x % d
  BY <1>2
<1>6. x = k * d + r
  BY <1>4, <1>5
<1> QED BY <1>4, <1>5, <1>6

\* Rests are equal only of numbers a multiple apart.
LEMMA RestIsUnique ==
  ASSUME NEW d \in Nat \ {0}, NEW j \in Int, NEW k \in Int,
         NEW r \in 0 .. d - 1, NEW t \in 0 .. d - 1, k * d + r = j * d + t
  PROVE  r = t /\ k = j
<1>1. PICK kd \in Int, jd \in Int : kd = k * d /\ jd = j * d
  OBVIOUS
<1>2. ASSUME NEW a \in Int, NEW b \in Int, a < b
      PROVE  a * d + d <= b * d
  <2>1. PICK n \in Nat : b = a + 1 + n
    BY <1>2
  <2>2. (a + 1 + n) * d = a * d + d + n * d
    OBVIOUS
  <2>3. n * d \in Nat /\ a * d \in Int
    OBVIOUS
  <2> QED BY <2>1, <2>2, <2>3
<1>3. ASSUME k < j PROVE FALSE
  <2>1. kd + d <= jd
    BY <1>1, <1>2, <1>3
  <2> QED BY <1>1, <2>1
<1>4. ASSUME j < k PROVE FALSE
  <2>1. jd + d <= kd
    BY <1>1, <1>2, <1>4
  <2> QED BY <1>1, <2>1
<1>5. k = j
  BY <1>3, <1>4
<1> QED BY <1>1, <1>5

\* To mask before adding is to mask after it.
LEMMA MaskedTwice ==
  ASSUME NEW x \in Int, NEW y \in Int
  PROVE  Masked(x) \in Places /\ Masked(Masked(x) + y) = Masked(x + y)
<1>1. PICK d \in Nat \ {0} : d = PdlSize
  BY PdlAssumption
<1>2. PICK k \in Int, r \in 0 .. d - 1 : x % d = r /\ x = k * d + r
  BY PdlDivision
<1>3. PICK z \in Int : z = r + y
  OBVIOUS
<1>4. PICK w \in Int : w = x + y
  OBVIOUS
<1>5. PICK l \in Int, s \in 0 .. d - 1 : z % d = s /\ z = l * d + s
  BY PdlDivision
<1>6. PICK m \in Int, t \in 0 .. d - 1 : w % d = t /\ w = m * d + t
  BY PdlDivision
<1>7. PICK n \in Int : n = k + l
  OBVIOUS
<1>8. n * d + s = m * d + t
  <2>1. n * d = k * d + l * d
    BY <1>7
  <2>2. PICK kd \in Int, ld \in Int : kd = k * d /\ ld = l * d
    OBVIOUS
  <2> QED BY <1>2, <1>3, <1>4, <1>5, <1>6, <2>1, <2>2
<1>9. s = t
  BY <1>8, RestIsUnique
<1>10. Masked(x) = r
  BY <1>1, <1>2 DEF Masked
<1>11. Masked(r + y) = s /\ Masked(x + y) = t
  BY <1>1, <1>3, <1>4, <1>5, <1>6 DEF Masked
<1>12. r \in Places
  BY <1>1 DEF Places
<1> QED BY <1>9, <1>10, <1>11, <1>12

\* Numbers less than the ring's size apart have different places.
LEMMA MaskedDiffer ==
  ASSUME NEW x \in Int, NEW y \in Int, x < y, y - x < PdlSize
  PROVE  Masked(x) # Masked(y)
<1>1. PICK d \in Nat \ {0} : d = PdlSize
  BY PdlAssumption
<1>2. PICK k \in Int, r \in 0 .. d - 1 : x % d = r /\ x = k * d + r
  BY PdlDivision
<1>3. PICK j \in Int, t \in 0 .. d - 1 : y % d = t /\ y = j * d + t
  BY PdlDivision
<1>4. ASSUME r = t PROVE FALSE
  <2>1. PICK kd \in Int, jd \in Int : kd = k * d /\ jd = j * d
    OBVIOUS
  <2>2. PICK n \in 1 .. d - 1 : n = y - x /\ n = jd - kd
    BY <1>1, <1>2, <1>3, <1>4, <2>1
  <2>3. k * d + n = j * d + 0
    BY <2>1, <2>2
  <2>4. 0 \in 0 .. d - 1 /\ n \in 0 .. d - 1
    OBVIOUS
  <2>5. n = 0
    BY <2>3, <2>4, RestIsUnique
  <2> QED BY <2>2, <2>5
<1>5. Masked(x) = r /\ Masked(y) = t
  BY <1>1, <1>2, <1>3 DEF Masked
<1> QED BY <1>4, <1>5

LEMMA PlacesAreMasked ==
  ASSUME NEW p \in Places
  PROVE  Masked(p) = p /\ p \in Int
<1>1. PICK d \in Nat \ {0} : d = PdlSize
  BY PdlAssumption
<1>2. p \in 0 .. d - 1
  BY <1>1 DEF Places
<1> QED BY <1>1, <1>2 DEF Masked

\* A stack without entries says nothing of the ring.
LEMMA EmptyStack ==
  ASSUME NEW words \in [Places -> Int], NEW ptr \in Places, NEW index \in Places
  PROVE  Stacked(words, ptr, index, <<>>, 0)
<1>1. <<>> \in Seq(Int) /\ Len(<<>>) = 0 /\ 0 <= PdlSize
  BY PdlAssumption, EmptySeq
<1> QED BY <1>1 DEF Stacked

LEMMA PoppedStack ==
  ASSUME NEW words, NEW ptr, NEW index, NEW es, NEW known,
         Stacked(words, ptr, index, es, known), es # <<>>
  PROVE  Stacked(words, Masked(ptr - 1), index, Front(es), known)
<1>1. /\ words \in [Places -> Int] /\ ptr \in Places /\ index \in Places
      /\ es \in Seq(Int) /\ known \in Nat
  BY DEF Stacked
<1>2. PICK L \in Nat : L = Len(es) /\ L > 0
  BY <1>1
<1>3. /\ L <= PdlSize
      /\ \A i \in 1 .. L : words[Masked(ptr - L + i)] = es[i]
      /\ known # 0 => index = Masked(ptr - L + known)
  BY <1>2 DEF Stacked
<1>4. PICK p \in Int : p = ptr
  BY <1>1, PlacesAreMasked
<1>5. PICK top \in Places : top = Masked(p - 1)
  <2>1. p - 1 \in Int /\ 0 \in Int
    OBVIOUS
  <2> QED BY <2>1, MaskedTwice
<1>6. PICK fs : fs = Front(es)
  OBVIOUS
<1>7. fs \in Seq(Int) /\ Len(fs) = L - 1 /\ \A i \in 1 .. L - 1 : fs[i] = es[i]
  <2>1. fs = SubSeq(es, 1, L - 1)
    BY <1>2, <1>6 DEF Front
  <2> QED BY <1>1, <1>2, <2>1, SubSeqProperties
<1>8. ASSUME NEW i \in Nat
      PROVE  Masked(top - (L - 1) + i) = Masked(p - L + i)
  <2>1. PICK x \in Int, y \in Int : x = p - 1 /\ y = i - (L - 1)
    OBVIOUS
  <2>2. Masked(Masked(x) + y) = Masked(x + y)
    BY MaskedTwice
  <2>3. top - (L - 1) + i = top + y /\ p - L + i = x + y
    BY <2>1, PlacesAreMasked
  <2> QED BY <1>5, <2>1, <2>2, <2>3
<1>9. PICK m \in Nat : m = L - 1 /\ m <= PdlSize
  BY <1>2, <1>3, PdlAssumption
<1>10. ASSUME NEW i \in 1 .. m PROVE words[Masked(top - m + i)] = fs[i]
  <2>1. i \in Nat /\ i \in 1 .. L /\ i \in 1 .. L - 1
    BY <1>2, <1>9
  <2>2. Masked(top - (L - 1) + i) = Masked(p - L + i)
    BY <1>8, <2>1
  <2>3. words[Masked(p - L + i)] = es[i] /\ fs[i] = es[i]
    BY <1>3, <1>4, <1>7, <2>1
  <2> QED BY <1>9, <2>2, <2>3
<1>11. known # 0 => index = Masked(top - m + known)
  BY <1>1, <1>3, <1>4, <1>8, <1>9
<1>12. Stacked(words, top, index, fs, known)
  BY <1>1, <1>7, <1>9, <1>10, <1>11 DEF Stacked
<1> QED BY <1>4, <1>5, <1>6, <1>12

LEMMA PushedStack ==
  ASSUME NEW words, NEW ptr, NEW index, NEW es, NEW known, NEW word \in Int,
         Stacked(words, ptr, index, es, known), Len(es) < PdlSize
  PROVE  Stacked([words EXCEPT ![Masked(ptr + 1)] = word], Masked(ptr + 1), index,
                 Append(es, word), known)
<1>1. /\ words \in [Places -> Int] /\ ptr \in Places /\ index \in Places
      /\ es \in Seq(Int) /\ known \in Nat
  BY DEF Stacked
<1>2. PICK L \in Nat, m \in Nat, d \in Nat \ {0} :
        L = Len(es) /\ m = L + 1 /\ d = PdlSize /\ m <= d
  BY <1>1, PdlAssumption
<1>3. /\ \A i \in 1 .. L : words[Masked(ptr - L + i)] = es[i]
      /\ known # 0 => index = Masked(ptr - L + known)
  BY <1>2 DEF Stacked
<1>4. PICK p \in Int : p = ptr
  BY <1>1, PlacesAreMasked
<1>5. PICK top \in Places : top = Masked(p + 1)
  <2>1. p + 1 \in Int /\ 0 \in Int
    OBVIOUS
  <2> QED BY <2>1, MaskedTwice
<1>6. PICK fs : fs = Append(es, word)
  OBVIOUS
<1>7. /\ fs \in Seq(Int) /\ Len(fs) = m /\ fs[m] = word
      /\ \A i \in 1 .. L : fs[i] = es[i]
  BY <1>1, <1>2, <1>6, AppendProperties
<1>8. ASSUME NEW i \in Nat
      PROVE  Masked(top - m + i) = Masked(p - L + i)
  <2>1. PICK x \in Int, y \in Int : x = p + 1 /\ y = i - m
    OBVIOUS
  <2>2. Masked(Masked(x) + y) = Masked(x + y)
    BY MaskedTwice
  <2>3. PICK t \in Int : t = top
    BY PlacesAreMasked
  <2>4. t - m + i = t + y /\ p - L + i = x + y
    BY <1>2, <2>1
  <2> QED BY <1>5, <2>1, <2>2, <2>3, <2>4
<1>9. PICK new : new = [words EXCEPT ![top] = word]
  OBVIOUS
<1>10. new \in [Places -> Int] /\ new[top] = word
       /\ \A x \in Places : x # top => new[x] = words[x]
  BY <1>1, <1>9
<1>11. ASSUME NEW i \in 1 .. m PROVE new[Masked(top - m + i)] = fs[i]
  <2>1. CASE i = m
    <3>1. top - m + i = top
      BY <2>1, PlacesAreMasked
    <3> QED BY <1>7, <1>10, <2>1, <3>1, PlacesAreMasked
  <2>2. CASE i # m
    <3>1. PICK j \in 1 .. L : j = i
      BY <1>2, <2>2
    <3>2. PICK x \in Int, z \in Int : x = p - L + j /\ z = p + 1
      OBVIOUS
    <3>3. x < z /\ z - x < PdlSize
      BY <1>2, <3>1, <3>2
    <3>4. Masked(x) # top /\ Masked(x) \in Places
      BY <1>5, <3>2, <3>3, MaskedDiffer, MaskedTwice
    <3>5. Masked(top - m + i) = Masked(x)
      BY <1>8, <3>1, <3>2
    <3>6. words[Masked(x)] = es[j]
      BY <1>3, <1>4, <3>2
    <3> QED BY <1>7, <1>10, <3>1, <3>4, <3>5, <3>6
  <2> QED BY <2>1, <2>2
<1>12. known # 0 => index = Masked(top - m + known)
  BY <1>1, <1>3, <1>4, <1>8
<1>13. Stacked(new, top, index, fs, known)
  BY <1>1, <1>2, <1>7, <1>10, <1>11, <1>12 DEF Stacked
<1> QED BY <1>4, <1>5, <1>6, <1>9, <1>13

\* A full stack without its oldest entry.
LEMMA ForgottenEntry ==
  ASSUME NEW words, NEW ptr, NEW index, NEW es, NEW known,
         Stacked(words, ptr, index, es, known), Len(es) # 0
  PROVE  Stacked(words, ptr, index, Tail(es), IF known = 0 THEN 0 ELSE known - 1)
<1>1. /\ words \in [Places -> Int] /\ ptr \in Places /\ index \in Places
      /\ es \in Seq(Int) /\ known \in Nat
  BY DEF Stacked
<1>2. PICK L \in Nat, m \in Nat : L = Len(es) /\ L = m + 1 /\ m <= PdlSize
  <2>1. PICK L \in Nat, d \in Nat : L = Len(es) /\ L # 0 /\ d = PdlSize /\ L <= d
    BY <1>1, PdlAssumption DEF Stacked
  <2>2. L - 1 \in Nat /\ L - 1 <= d
    BY <2>1
  <2> QED BY <2>1, <2>2
<1>3. /\ \A i \in 1 .. L : words[Masked(ptr - L + i)] = es[i]
      /\ known # 0 => index = Masked(ptr - L + known)
  BY <1>2 DEF Stacked
<1>4. PICK p \in Int : p = ptr
  BY <1>1, PlacesAreMasked
<1>5. PICK fs : fs = Tail(es)
  OBVIOUS
<1>6. fs \in Seq(Int) /\ Len(fs) = m /\ \A i \in 1 .. m : fs[i] = es[i + 1]
  <2>1. es # <<>>
    BY <1>1, <1>2, EmptySeq
  <2>2. /\ fs \in Seq(Int) /\ Len(fs) = Len(es) - 1
        /\ \A i \in 1 .. Len(fs) : fs[i] = es[i + 1]
    BY <1>1, <1>5, <2>1, HeadTailProperties
  <2>3. L - 1 = m
    BY <1>2
  <2>4. Len(fs) = m
    BY <1>2, <2>2, <2>3
  <2> QED BY <2>2, <2>4
<1>7. PICK k \in Nat : k = IF known = 0 THEN 0 ELSE known - 1
  BY <1>1
<1>8. ASSUME NEW i \in 1 .. m PROVE words[Masked(p - m + i)] = fs[i]
  <2>1. PICK j \in 1 .. L : j = i + 1
    BY <1>2
  <2>2. p - m + i = p - L + j
    BY <1>2, <2>1
  <2> QED BY <1>3, <1>4, <1>6, <2>1, <2>2
<1>9. k # 0 => index = Masked(p - m + k)
  <2>1. k # 0 => known # 0 /\ p - m + k = p - L + known
    BY <1>1, <1>2, <1>7
  <2> QED BY <1>3, <1>4, <2>1
<1>10. Stacked(words, ptr, index, fs, k)
  BY <1>1, <1>2, <1>4, <1>6, <1>8, <1>9 DEF Stacked
<1> QED BY <1>5, <1>7, <1>10

\* An entry is written where it lies.
LEMMA EntryWritten ==
  ASSUME NEW words, NEW ptr, NEW index, NEW es, NEW known, NEW word \in Int,
         Stacked(words, ptr, index, es, known), NEW e \in 1 .. Len(es)
  PROVE  Stacked([words EXCEPT ![Masked(ptr - Len(es) + e)] = word], ptr, index,
                 [es EXCEPT ![e] = word], known)
<1>1. /\ words \in [Places -> Int] /\ ptr \in Places /\ index \in Places
      /\ es \in Seq(Int) /\ known \in Nat
  BY DEF Stacked
<1>2. PICK L \in Nat, d \in Nat \ {0} : L = Len(es) /\ d = PdlSize /\ L <= d /\ e \in 1 .. L
  BY <1>1, PdlAssumption DEF Stacked
<1>3. /\ \A i \in 1 .. L : words[Masked(ptr - L + i)] = es[i]
      /\ known # 0 => index = Masked(ptr - L + known)
  BY <1>2 DEF Stacked
<1>4. PICK p \in Int : p = ptr
  BY <1>1, PlacesAreMasked
<1>5. PICK x \in Int : x = p - L + e
  BY <1>2
<1>6. PICK at \in Places : at = Masked(x)
  <2>1. 0 \in Int
    OBVIOUS
  <2> QED BY <2>1, MaskedTwice
<1>7. PICK fs : fs = [es EXCEPT ![e] = word]
  OBVIOUS
<1>8. /\ fs \in Seq(Int) /\ Len(fs) = L /\ fs[e] = word
      /\ \A i \in 1 .. L : i # e => fs[i] = es[i]
  BY <1>1, <1>2, <1>7
<1>9. PICK new : new = [words EXCEPT ![at] = word]
  OBVIOUS
<1>10. new \in [Places -> Int] /\ new[at] = word
       /\ \A y \in Places : y # at => new[y] = words[y]
  BY <1>1, <1>9
<1>11. ASSUME NEW i \in 1 .. L PROVE new[Masked(p - L + i)] = fs[i]
  <2>1. CASE i = e
    BY <1>5, <1>6, <1>8, <1>10, <2>1
  <2>2. CASE i # e
    <3>1. PICK y \in Int : y = p - L + i
      OBVIOUS
    <3>2. \/ x < y /\ y - x < d
          \/ y < x /\ x - y < d
      BY <1>2, <1>5, <2>2, <3>1
    <3>3. Masked(y) # at
      BY <1>2, <1>6, <3>2, MaskedDiffer
    <3>4. Masked(y) \in Places
      <4>1. 0 \in Int
        OBVIOUS
      <4> QED BY <4>1, MaskedTwice
    <3> QED BY <1>3, <1>4, <1>8, <1>10, <2>2, <3>1, <3>3, <3>4
  <2> QED BY <2>1, <2>2
<1>12. Stacked(new, ptr, index, fs, known)
  BY <1>1, <1>2, <1>3, <1>4, <1>8, <1>10, <1>11 DEF Stacked
<1> QED BY <1>2, <1>4, <1>5, <1>6, <1>7, <1>9, <1>12

\* The newest entry is replaced.
LEMMA TopWritten ==
  ASSUME NEW words, NEW ptr, NEW index, NEW es, NEW known, NEW word \in Int,
         Stacked(words, ptr, index, es, known), Len(es) > 0
  PROVE  Stacked([words EXCEPT ![ptr] = word], ptr, index, Append(Front(es), word), known)
<1>1. es \in Seq(Int) /\ ptr \in Places
  BY DEF Stacked
<1>2. PICK L \in Nat : L = Len(es) /\ L > 0 /\ L \in 1 .. Len(es)
  BY <1>1
<1>3. Stacked([words EXCEPT ![Masked(ptr - L + L)] = word], ptr, index,
              [es EXCEPT ![L] = word], known)
  BY <1>2, EntryWritten
<1>4. Masked(ptr - L + L) = ptr
  <2>1. ptr - L + L = ptr
    BY <1>1, <1>2, PlacesAreMasked
  <2> QED BY <1>1, <2>1, PlacesAreMasked
<1>5. Append(Front(es), word) = [es EXCEPT ![L] = word]
  <2>1. PICK fs : fs = Front(es)
    OBVIOUS
  <2>2. PICK m \in Nat : m = L - 1 /\ L = m + 1
    BY <1>2
  <2>3. fs \in Seq(Int) /\ Len(fs) = m /\ \A i \in 1 .. m : fs[i] = es[i]
    <3>1. fs = SubSeq(es, 1, m)
      BY <1>2, <2>1, <2>2 DEF Front
    <3> QED BY <1>1, <1>2, <2>2, <3>1, SubSeqProperties
  <2>4. PICK gs : gs = Append(fs, word)
    OBVIOUS
  <2>5. gs \in Seq(Int) /\ Len(gs) = L /\ gs[L] = word /\ \A i \in 1 .. m : gs[i] = es[i]
    BY <2>2, <2>3, <2>4, AppendProperties
  <2>6. PICK hs : hs = [es EXCEPT ![L] = word]
    OBVIOUS
  <2>7. hs \in Seq(Int) /\ Len(hs) = L /\ hs[L] = word /\ \A i \in 1 .. m : hs[i] = es[i]
    BY <1>1, <1>2, <2>2, <2>6
  <2>8. \A i \in 1 .. L : i = L \/ i \in 1 .. m
    BY <2>2
  <2>9. \A i \in 1 .. L : gs[i] = hs[i]
    BY <2>5, <2>7, <2>8
  <2>10. gs = hs
    BY <2>5, <2>7, <2>9
  <2> QED BY <2>1, <2>4, <2>6, <2>10
<1> QED BY <1>3, <1>4, <1>5

\* The index is set to an entry, counted from the pointer.
LEMMA IndexSet ==
  ASSUME NEW words, NEW ptr, NEW index, NEW es, NEW known,
         Stacked(words, ptr, index, es, known),
         NEW add \in Int, Len(es) + add \in Nat
  PROVE  Stacked(words, ptr, Masked(ptr + add), es, Len(es) + add)
<1>1. /\ words \in [Places -> Int] /\ ptr \in Places /\ index \in Places
      /\ es \in Seq(Int) /\ Len(es) <= PdlSize
      /\ \A i \in 1 .. Len(es) : words[Masked(ptr - Len(es) + i)] = es[i]
  BY DEF Stacked
<1>2. PICK p \in Int, L \in Nat : p = ptr /\ L = Len(es)
  BY <1>1, PlacesAreMasked
<1>3. p + add = p - L + (L + add)
  BY <1>2
<1>4. Masked(p + add) \in Places
  <2>1. p + add \in Int /\ 0 \in Int
    BY <1>2
  <2> QED BY <2>1, MaskedTwice
<1> QED BY <1>1, <1>2, <1>3, <1>4 DEF Stacked

LEMMA IndexForgotten ==
  ASSUME NEW words, NEW ptr, NEW index, NEW es, NEW known,
         Stacked(words, ptr, index, es, known), NEW to \in Places
  PROVE  Stacked(words, ptr, to, es, 0)
BY DEF Stacked

\* The pointer is moved down to an entry.
LEMMA PointerSet ==
  ASSUME NEW words, NEW ptr, NEW index, NEW es, NEW known,
         Stacked(words, ptr, index, es, known),
         NEW add \in Int, add <= 0, Len(es) + add > 0
  PROVE  Stacked(words, Masked(ptr + add), index, SubSeq(es, 1, Len(es) + add), known)
<1>1. /\ words \in [Places -> Int] /\ ptr \in Places /\ index \in Places
      /\ es \in Seq(Int) /\ known \in Nat
  BY DEF Stacked
<1>2. PICK L \in Nat, m \in Nat, d \in Nat \ {0} :
        L = Len(es) /\ m = L + add /\ d = PdlSize /\ m <= L /\ L <= d /\ m > 0
  BY <1>1, PdlAssumption DEF Stacked
<1>3. /\ \A i \in 1 .. L : words[Masked(ptr - L + i)] = es[i]
      /\ known # 0 => index = Masked(ptr - L + known)
  BY <1>2 DEF Stacked
<1>4. PICK p \in Int : p = ptr
  BY <1>1, PlacesAreMasked
<1>5. PICK top \in Places : top = Masked(p + add)
  <2>1. p + add \in Int /\ 0 \in Int
    OBVIOUS
  <2> QED BY <2>1, MaskedTwice
<1>6. PICK fs : fs = SubSeq(es, 1, m)
  OBVIOUS
<1>7. fs \in Seq(Int) /\ Len(fs) = m /\ \A i \in 1 .. m : fs[i] = es[i]
  BY <1>1, <1>2, <1>6, SubSeqProperties
<1>8. ASSUME NEW i \in Nat
      PROVE  Masked(top - m + i) = Masked(p - L + i)
  <2>1. PICK x \in Int, y \in Int : x = p + add /\ y = i - m
    OBVIOUS
  <2>2. Masked(Masked(x) + y) = Masked(x + y)
    BY MaskedTwice
  <2>3. top - m + i = top + y /\ p - L + i = x + y
    BY <1>2, <2>1, PlacesAreMasked
  <2> QED BY <1>5, <2>1, <2>2, <2>3
<1>9. ASSUME NEW i \in 1 .. m PROVE words[Masked(top - m + i)] = fs[i]
  <2>1. i \in Nat /\ i \in 1 .. L
    BY <1>2
  <2>2. Masked(top - m + i) = Masked(p - L + i)
    BY <1>8, <2>1
  <2>3. words[Masked(p - L + i)] = es[i] /\ fs[i] = es[i]
    BY <1>3, <1>4, <1>7, <2>1
  <2> QED BY <2>2, <2>3
<1>10. known # 0 => index = Masked(top - m + known)
  BY <1>1, <1>3, <1>4, <1>8
<1>11. m <= PdlSize
  BY <1>2
<1>12. Stacked(words, top, index, fs, known)
  BY <1>1, <1>7, <1>9, <1>10, <1>11 DEF Stacked
<1> QED BY <1>2, <1>4, <1>5, <1>6, <1>12

\* What the destination finds.
Popped(source) == IF source = "pop" /\ entries # <<>> THEN Front(entries) ELSE entries
Known(source) == IF source = "pop" /\ entries = <<>> THEN 0 ELSE mark

LEMMA SourceRead ==
  ASSUME PdlInv, NEW source \in Sources
  PROVE  /\ SourceValue(source) \in Int
         /\ Stacked(pdl_memory, PointerAfter(source), pdl_index, Popped(source), Known(source))
<1>1. Stacked(pdl_memory, pdl_ptr, pdl_index, entries, mark) /\ m_memory_word \in Int
  BY DEF PdlInv
<1>2. pdl_memory \in [Places -> Int] /\ pdl_ptr \in Places /\ pdl_index \in Places
  BY <1>1 DEF Stacked
<1>3. pdl_ptr \in Int /\ pdl_index \in Int /\ pdl_memory[pdl_ptr] \in Int
      /\ pdl_memory[pdl_index] \in Int
  BY <1>2, PlacesAreMasked
<1>4. SourceValue(source) \in Int
  BY <1>1, <1>3 DEF SourceValue, Sources
<1>5. CASE source # "pop"
  BY <1>1, <1>4, <1>5 DEF PointerAfter, Popped, Known
<1>6. CASE source = "pop" /\ entries # <<>>
  <2>1. Stacked(pdl_memory, Masked(pdl_ptr - 1), pdl_index, Front(entries), mark)
    BY <1>1, <1>6, PoppedStack
  <2> QED BY <1>4, <1>6, <2>1 DEF PointerAfter, Popped, Known
<1>7. CASE source = "pop" /\ entries = <<>>
  <2>1. Masked(pdl_ptr - 1) \in Places
    <3>1. pdl_ptr - 1 \in Int /\ 0 \in Int
      BY <1>3
    <3> QED BY <3>1, MaskedTwice
  <2>2. Stacked(pdl_memory, Masked(pdl_ptr - 1), pdl_index, <<>>, 0)
    BY <1>2, <2>1, EmptyStack
  <2> QED BY <1>4, <1>7, <2>2 DEF PointerAfter, Popped, Known
<1> QED BY <1>4, <1>5, <1>6, <1>7

LEMMA MoveKeeps ==
  ASSUME PdlInv, NEW source \in Sources, NEW addend \in Int, NEW dest \in Destinations,
         Move(source, addend, dest)
  PROVE  PdlInv'
<1>1. PICK word : word = SourceValue(source) + addend
  OBVIOUS
<1>2. word \in Int
  BY <1>1, SourceRead
<1>3. PICK ptr, es, known : /\ ptr = PointerAfter(source)
                            /\ es = Popped(source) /\ known = Known(source)
  OBVIOUS
<1>4. Stacked(pdl_memory, ptr, pdl_index, es, known)
  BY <1>3, SourceRead
<1>5. /\ pdl_memory \in [Places -> Int] /\ ptr \in Places /\ pdl_index \in Places
      /\ es \in Seq(Int) /\ Len(es) <= PdlSize /\ known \in Nat
      /\ known # 0 => pdl_index = Masked(ptr - Len(es) + known)
  BY <1>4 DEF Stacked
<1>6. PICK size \in Nat : size = Len(es)
  BY <1>5
<1>7. WritePdl(dest, ptr, word) /\ m_memory_word' = word /\ Meaning(source, addend, dest, word)
  BY <1>1, <1>3, Zenon DEF Move
<1>8. PICK target : target = IF source = "pointer" /\ addend <= 0 /\ size + addend >= 0
                             THEN size + addend ELSE 0
  OBVIOUS
<1>9. CASE dest = "m"
  <2>1. pdl_memory' = pdl_memory /\ pdl_ptr' = ptr /\ pdl_index' = pdl_index
    BY <1>7, <1>9 DEF WritePdl
  <2>2. entries' = es /\ mark' = known
    BY <1>3, <1>7, <1>9 DEF Meaning, Popped, Known
  <2> QED BY <1>2, <1>4, <1>7, <2>1, <2>2 DEF PdlInv
<1>10. CASE dest = "push"
  <2>1. /\ pdl_ptr' = Masked(ptr + 1) /\ pdl_index' = pdl_index
        /\ pdl_memory' = [pdl_memory EXCEPT ![Masked(ptr + 1)] = word]
    BY <1>7, <1>10 DEF WritePdl
  <2>2. CASE size < PdlSize
    <3>1. entries' = Append(es, word) /\ mark' = known
      BY <1>3, <1>6, <1>7, <1>10, <2>2 DEF Meaning, Popped, Known
    <3>2. Stacked(pdl_memory', pdl_ptr', pdl_index', entries', mark')
      BY <1>2, <1>4, <1>6, <2>1, <2>2, <3>1, PushedStack
    <3> QED BY <1>2, <1>7, <3>2 DEF PdlInv
  <2>3. CASE size = PdlSize
    <3>1. entries' = Append(Tail(es), word) /\ mark' = IF known = 0 THEN 0 ELSE known - 1
      BY <1>3, <1>6, <1>7, <1>10, <2>3 DEF Meaning, Popped, Known
    <3>2. PICK fs, k : fs = Tail(es) /\ k = IF known = 0 THEN 0 ELSE known - 1
      OBVIOUS
    <3>3. Len(es) # 0
      BY <1>6, <2>3, PdlAssumption
    <3>4. Stacked(pdl_memory, ptr, pdl_index, fs, k)
      BY <1>4, <3>2, <3>3, ForgottenEntry
    <3>5. Len(fs) < PdlSize
      <4>1. es # <<>>
        BY <3>3, EmptySeq
      <4>2. Len(fs) = Len(es) - 1
        BY <1>5, <3>2, <4>1, HeadTailProperties
      <4>3. PICK d \in Nat : d = PdlSize /\ Len(es) = d
        BY <1>6, <2>3
      <4>4. d - 1 < d
        OBVIOUS
      <4> QED BY <4>2, <4>3, <4>4
    <3>6. Stacked(pdl_memory', pdl_ptr', pdl_index', entries', mark')
      BY <1>2, <2>1, <3>1, <3>2, <3>4, <3>5, PushedStack
    <3> QED BY <1>2, <1>7, <3>6 DEF PdlInv
  <2>4. size < PdlSize \/ size = PdlSize
    BY <1>5, <1>6, PdlAssumption
  <2> QED BY <2>2, <2>3, <2>4
<1>11. CASE dest = "top"
  <2>1. /\ pdl_ptr' = ptr /\ pdl_index' = pdl_index
        /\ pdl_memory' = [pdl_memory EXCEPT ![ptr] = word]
    BY <1>7, <1>11 DEF WritePdl
  <2>2. CASE size > 0
    <3>1. entries' = Append(Front(es), word) /\ mark' = known
      BY <1>3, <1>6, <1>7, <1>11, <2>2 DEF Meaning, Popped, Known
    <3>2. Stacked(pdl_memory', pdl_ptr', pdl_index', entries', mark')
      BY <1>2, <1>4, <1>6, <2>1, <2>2, <3>1, TopWritten
    <3> QED BY <1>2, <1>7, <3>2 DEF PdlInv
  <2>3. CASE size = 0
    <3>1. entries' = <<>> /\ mark' = known
      BY <1>3, <1>6, <1>7, <1>11, <2>3 DEF Meaning, Popped, Known
    <3>2. es = <<>>
      BY <1>5, <1>6, <2>3, EmptySeq
    <3>3. PICK new : new = [pdl_memory EXCEPT ![ptr] = word]
      OBVIOUS
    <3>4. new \in [Places -> Int]
      BY <1>2, <1>5, <3>3
    <3>5. \A i \in 1 .. Len(es) : new[Masked(ptr - Len(es) + i)] = es[i]
      BY <1>6, <2>3
    <3>6. Stacked(new, ptr, pdl_index, es, known)
      BY <1>5, <3>4, <3>5 DEF Stacked
    <3> QED BY <1>2, <1>7, <2>1, <3>1, <3>2, <3>3, <3>6 DEF PdlInv
  <2> QED BY <2>2, <2>3
<1>12. CASE dest = "indexed"
  <2>1. /\ pdl_ptr' = ptr /\ pdl_index' = pdl_index
        /\ pdl_memory' = [pdl_memory EXCEPT ![pdl_index] = word]
    BY <1>7, <1>12 DEF WritePdl
  <2>2. CASE known \in 1 .. size
    <3>1. entries' = [es EXCEPT ![known] = word] /\ mark' = known
      BY <1>3, <1>6, <1>7, <1>12, <2>2 DEF Meaning, Popped, Known
    <3>2. pdl_index = Masked(ptr - Len(es) + known) /\ known \in 1 .. Len(es)
      BY <1>5, <1>6, <2>2
    <3>3. Stacked(pdl_memory', pdl_ptr', pdl_index', entries', mark')
      BY <1>2, <1>4, <2>1, <3>1, <3>2, EntryWritten
    <3> QED BY <1>2, <1>7, <3>3 DEF PdlInv
  <2>3. CASE known \notin 1 .. size
    <3>1. entries' = <<>> /\ mark' = 0
      BY <1>3, <1>6, <1>7, <1>12, <2>3 DEF Meaning, Popped, Known
    <3>2. pdl_memory' \in [Places -> Int]
      BY <1>2, <1>5, <2>1
    <3>3. Stacked(pdl_memory', pdl_ptr', pdl_index', entries', mark')
      BY <1>5, <2>1, <3>1, <3>2, EmptyStack
    <3> QED BY <1>2, <1>7, <3>3 DEF PdlInv
  <2> QED BY <2>2, <2>3
<1>13. Masked(word) \in Places
  <2>1. 0 \in Int
    OBVIOUS
  <2> QED BY <1>2, <2>1, MaskedTwice
<1>14. source = "pointer" => word = ptr + addend
  BY <1>1, <1>3 DEF SourceValue, PointerAfter
<1>15. CASE dest = "index"
  <2>1. /\ pdl_ptr' = ptr /\ pdl_index' = Masked(word) /\ pdl_memory' = pdl_memory
    BY <1>7, <1>15 DEF WritePdl
  <2>2. entries' = es /\ mark' = target
    BY <1>3, <1>6, <1>7, <1>8, <1>15 DEF Meaning, Popped, Known
  <2>3. CASE target = 0
    BY <1>2, <1>4, <1>7, <1>13, <2>1, <2>2, <2>3, IndexForgotten DEF PdlInv
  <2>4. CASE target # 0
    <3>1. source = "pointer" /\ target = Len(es) + addend /\ target \in Nat
      BY <1>6, <1>8, <2>4
    <3>2. Stacked(pdl_memory, ptr, Masked(ptr + addend), es, target)
      BY <1>4, <3>1, IndexSet
    <3> QED BY <1>2, <1>7, <1>14, <2>1, <2>2, <3>1, <3>2 DEF PdlInv
  <2> QED BY <2>3, <2>4
<1>16. CASE dest = "pointer"
  <2>1. /\ pdl_ptr' = Masked(word) /\ pdl_index' = pdl_index /\ pdl_memory' = pdl_memory
    BY <1>7, <1>16 DEF WritePdl
  <2>2. target \in Nat
    BY <1>8
  <2>3. CASE target > 0
    <3>1. entries' = SubSeq(es, 1, target) /\ mark' = known
      BY <1>3, <1>6, <1>7, <1>8, <1>16, <2>3 DEF Meaning, Popped, Known
    <3>2. source = "pointer" /\ target = Len(es) + addend /\ addend <= 0
      BY <1>6, <1>8, <2>3
    <3>3. Stacked(pdl_memory, Masked(ptr + addend), pdl_index, SubSeq(es, 1, target), known)
      BY <1>4, <2>3, <3>2, PointerSet
    <3> QED BY <1>2, <1>7, <1>14, <2>1, <3>1, <3>2, <3>3 DEF PdlInv
  <2>4. CASE target = 0
    <3>1. entries' = <<>> /\ mark' = 0
      BY <1>3, <1>6, <1>7, <1>8, <1>16, <2>4 DEF Meaning, Popped, Known
    <3>2. Stacked(pdl_memory', pdl_ptr', pdl_index', entries', mark')
      BY <1>5, <1>13, <2>1, <3>1, EmptyStack
    <3> QED BY <1>2, <1>7, <3>2 DEF PdlInv
  <2> QED BY <2>2, <2>3, <2>4
<1> QED BY <1>9, <1>10, <1>11, <1>12, <1>15, <1>16 DEF Destinations

LEMMA PdlStarts == PdlInit => PdlInv
<1> SUFFICES ASSUME PdlInit PROVE PdlInv
  OBVIOUS
<1>1. 0 \in Places
  BY PdlAssumption DEF Places
<1>2. pdl_memory \in [Places -> Int] /\ pdl_ptr = 0 /\ pdl_index = 0 /\ m_memory_word = 0
      /\ entries = <<>> /\ mark = 0
  BY DEF PdlInit
<1>3. Stacked(pdl_memory, pdl_ptr, pdl_index, entries, mark)
  BY <1>1, <1>2, EmptyStack
<1> QED BY <1>2, <1>3 DEF PdlInv

LEMMA PdlKept == PdlInv /\ [PdlNext]_pdlVars => PdlInv'
<1> SUFFICES ASSUME PdlInv, [PdlNext]_pdlVars PROVE PdlInv'
  OBVIOUS
<1>1. CASE UNCHANGED pdlVars
  BY <1>1 DEF pdlVars, PdlInv
<1>2. CASE PdlNext
  BY <1>2, MoveKeeps, PdlAssumption DEF PdlNext
<1> QED BY <1>1, <1>2

\* The entry that the index marks, and every entry below the pointer, is where
\* the microcode looks for it, for a buffer of any size, however often
\* pointer and index wrap and whatever is pushed, popped or forgotten.
THEOREM EntriesStay == PdlSpec => []PdlHoldsEntries
<1>1. PdlSpec => []PdlInv
  BY PdlStarts, PdlKept, PTL DEF PdlSpec
<1>2. PdlInv => PdlHoldsEntries
  <2> SUFFICES ASSUME PdlInv PROVE PdlHoldsEntries
    OBVIOUS
  <2>1. /\ pdl_ptr \in Places /\ entries \in Seq(Int)
        /\ \A i \in 1 .. Len(entries) : pdl_memory[Masked(pdl_ptr - Len(entries) + i)] = entries[i]
        /\ mark # 0 => pdl_index = Masked(pdl_ptr - Len(entries) + mark)
    BY DEF PdlInv, Stacked
  <2>2. PICK p \in Int, L \in Nat : p = pdl_ptr /\ L = Len(entries)
    BY <2>1, PlacesAreMasked
  <2>3. \A i \in 1 .. L : p - (L - i) = p - L + i
    OBVIOUS
  <2>4. \A i \in 1 .. L : pdl_memory[Masked(p - (L - i))] = entries[i]
    BY <2>1, <2>2, <2>3
  <2>5. mark \in 1 .. L => pdl_memory[pdl_index] = entries[mark]
    BY <2>1, <2>2
  <2> QED BY <2>2, <2>4, <2>5 DEF PdlHoldsEntries
<1> QED BY <1>1, <1>2, PTL

-----------------------------------------------------------------------------
(***************************************************************************)
(* The macroinstruction stream.  The word held is the one LC points into,  *)
(* whatever is written to LC and to interrupt control, and what was read   *)
(* reaches MD.                                                             *)
(***************************************************************************)
\* What the two facts about the held word rest on: a count is a count.
StreamOK ==
  /\ lc \in [count : Counts, high : Int]
  /\ need_fetch \in BOOLEAN /\ lc_byte_mode_flag \in BOOLEAN
  /\ held \in Fetchable
  /\ written \in BOOLEAN

StreamInv == StreamOK /\ HeldIsCurrent /\ FetchIsNeeded

\* The count i further on, and whether it ends a word.
After(c, i) == IF c + i < Limit THEN c + i ELSE c + i - Limit
Ends(c, i) == (c \div 2) % 2 = 0 /\ (i = 1 => c % 2 = 0)

\* Counts advance within the words of the address space.
LEMMA AdvanceCount ==
  ASSUME NEW c \in Counts, NEW i \in {1, 2}
  PROVE  /\ After(c, i) \in Counts
         /\ c \div 4 \in 0 .. Limit \div 4 - 1
         /\ Ends(After(c, i), i) => After(c, i) \div 4 # c \div 4
         /\ ~Ends(After(c, i), i) => After(c, i) \div 4 = c \div 4
         /\ i = 2 => 2 * (c \div 4) + HalfPosition(After(c, i)) = c \div 2
  BY FetchAssumption DEF Counts, HalfPosition, After, Ends

\* advance_lc preserves the invariant: it is the only way to clear need_fetch.
LEMMA AdvancePreserves ==
  ASSUME StreamInv, NEW fault \in BOOLEAN, advance_lc(fault)
  PROVE  /\ StreamInv'
         /\ held' # None /\ ~lc_byte_mode_flag =>
              2 * held' + HalfPosition(lc'.count) = lc.count \div 2
<1> DEFINE i == Increment(lc_byte_mode_flag)
           next == After(lc.count, i)
           last == Ends(next, i)
<1>1. /\ lc \in [count : Counts, high : Int]
      /\ lc.count \in Counts
      /\ i \in {1, 2}
      /\ i = 1 <=> lc_byte_mode_flag
      /\ i = 2 <=> ~lc_byte_mode_flag
  BY DEF StreamInv, StreamOK, Increment
<1>2. /\ next \in Counts
      /\ lc.count \div 4 \in 0 .. Limit \div 4 - 1
      /\ last => next \div 4 # lc.count \div 4
      /\ ~last => next \div 4 = lc.count \div 4
      /\ i = 2 => 2 * (lc.count \div 4) + HalfPosition(next) = lc.count \div 2
  BY <1>1, AdvanceCount
<1>3. lc' = Advanced(lc_byte_mode_flag)
      /\ need_fetch' = LastByteInWord(lc'.count, lc_byte_mode_flag)
      /\ lc_byte_mode_flag' = lc_byte_mode_flag
  BY DEF advance_lc, flags
<1>4. lc' \in [count : Counts, high : Int] /\ lc'.count = next
  <2>1. lc.high + 1 \in Int
    BY <1>1
  <2> HIDE DEF i
  <2>2. CASE lc.count + i < Limit
    <3>1. lc' = [count |-> lc.count + i, high |-> lc.high] /\ next = lc.count + i
      BY <1>3, <2>2 DEF After, Advanced, i
    <3> QED BY <1>1, <1>2, <3>1
  <2>3. CASE ~(lc.count + i < Limit)
    <3>1. /\ lc' = [count |-> lc.count + i - Limit, high |-> lc.high + 1]
          /\ next = lc.count + i - Limit
      BY <1>3, <2>3 DEF After, Advanced, i
    <3> QED BY <1>2, <2>1, <3>1
  <2> QED BY <2>2, <2>3
<1>5. need_fetch' = last
  BY <1>1, <1>3, <1>4 DEF LastByteInWord, Ends
<1> HIDE DEF next, i, last
<1>6. need_fetch' \in BOOLEAN /\ lc_byte_mode_flag' \in BOOLEAN
  BY <1>1, <1>3, <1>5 DEF last, Ends, StreamInv, StreamOK
<1>7. CASE need_fetch
  <2>1. held' = lc.count \div 4 /\ written' = FALSE
    BY <1>7 DEF advance_lc
  <2>2. StreamOK'
    BY <1>2, <1>4, <1>6, <2>1 DEF StreamOK, Fetchable
  <2>3. HeldIsCurrent' /\ FetchIsNeeded'
    BY <1>2, <1>4, <1>5, <1>6, <2>1 DEF HeldIsCurrent, FetchIsNeeded
  <2> QED BY <1>1, <1>2, <1>4, <2>1, <2>2, <2>3 DEF StreamInv
<1>8. CASE ~need_fetch
  <2>1. held' = held /\ written' = written
    BY <1>8 DEF advance_lc
  <2>2. held # None => held = lc.count \div 4
    BY <1>8 DEF StreamInv, HeldIsCurrent
  <2>3. StreamOK'
    BY <1>4, <1>6, <2>1 DEF StreamInv, StreamOK
  <2>4. held = None => held # next \div 4
    BY <1>2, FetchAssumption DEF None, Counts
  <2>5. HeldIsCurrent' /\ FetchIsNeeded'
    BY <1>2, <1>4, <1>5, <1>6, <2>1, <2>2, <2>4 DEF HeldIsCurrent, FetchIsNeeded
  <2> QED BY <1>1, <1>2, <1>4, <2>1, <2>2, <2>3, <2>5 DEF StreamInv
<1> QED BY <1>7, <1>8 DEF StreamInv, StreamOK

LEMMA StreamStarts == FetchInit => StreamInv
<1> SUFFICES ASSUME FetchInit PROVE StreamInv
  OBVIOUS
<1>1. lc = [count |-> 0, high |-> 0] /\ 0 \in Counts /\ 0 \in Int
  BY FetchAssumption DEF FetchInit, Counts
<1>2. StreamOK
  <2>1. lc \in [count : Counts, high : Int]
    BY <1>1
  <2>2. held \in Fetchable
    BY DEF FetchInit, Fetchable
  <2>3. /\ need_fetch \in BOOLEAN /\ lc_byte_mode_flag \in BOOLEAN
        /\ written \in BOOLEAN
    BY DEF FetchInit
  <2> QED BY <2>1, <2>2, <2>3 DEF StreamOK
<1>3. HeldIsCurrent /\ FetchIsNeeded
  BY DEF FetchInit, HeldIsCurrent, FetchIsNeeded
<1> QED BY <1>2, <1>3 DEF StreamInv

LEMMA StreamInductive ==
  ASSUME StreamInv, [FetchNext]_fetchVars
  PROVE  StreamInv'
<1>1. ASSUME NEW fault \in BOOLEAN, advance_lc(fault) PROVE StreamInv'
  BY <1>1, AdvancePreserves
<1>2. ASSUME NEW v \in LcValues, WriteLc(v) PROVE StreamInv'
  <2>1. v \in Counts /\ 2 * (v \div 2) \in Counts
    BY FetchAssumption DEF Counts
  <2> QED BY <1>2, <2>1
    DEF WriteLc, flags, StreamInv, StreamOK, HeldIsCurrent, FetchIsNeeded
<1>3. ASSUME NEW v \in Controls, WriteInterruptControl(v) PROVE StreamInv'
  <2>1. 16 * (lc.high \div 16) + v \in Int /\ (v >= 8) \in BOOLEAN
    BY FetchAssumption DEF StreamInv, StreamOK
  <2> QED BY <1>3, <2>1
    DEF WriteInterruptControl, StreamInv, StreamOK, HeldIsCurrent, FetchIsNeeded
<1>4. ASSUME UNCHANGED <<stream, flags>> PROVE StreamInv'
  BY <1>4 DEF stream, flags, StreamInv, StreamOK, HeldIsCurrent, FetchIsNeeded
<1>5. ASSUME NEW word \in ReadWords, NEW fault \in BOOLEAN,
             WriteVma(word) \/ VmaStartRead(word, fault) \/ WriteMd(word)
               \/ MdStartRead(word, fault)
      PROVE  UNCHANGED <<stream, flags>>
  BY <1>5 DEF WriteVma, VmaStartRead, WriteMd, MdStartRead
<1>6. ASSUME NEW cond \in 4 .. 6, NEW invert_sense \in BOOLEAN,
             JumpOn(cond, invert_sense)
      PROVE  UNCHANGED <<stream, flags>>
  BY <1>6 DEF JumpOn
<1>7. ASSUME OtherTurn \/ Device \/ UNCHANGED fetchVars PROVE UNCHANGED <<stream, flags>>
  BY <1>7 DEF OtherTurn, Device, fetchVars
<1> QED BY <1>1, <1>2, <1>3, <1>4, <1>5, <1>6, <1>7 DEF FetchNext

\* Between fetches the word held is the one LC points into, and no word is
\* fetched twice in a row: for every address space of whole words.
THEOREM StreamIsCurrent == FetchSpec => []FetchOnTime
<1>1. FetchInit => StreamInv
  BY StreamStarts
<1>2. StreamInv /\ [FetchNext]_fetchVars => StreamInv'
  BY StreamInductive
<1>3. StreamInv => FetchOnTime
  BY DEF StreamInv, FetchOnTime
<1> QED BY <1>1, <1>2, <1>3, PTL DEF FetchSpec

\* The halfword that miscellaneous function 3 selects after advance_lc is the
\* one LC pointed to before.
THEOREM HalfwordIsSelected == FetchSpec => SelectsHalfword
<1>1. StreamInv /\ [FetchNext]_fetchVars =>
        [\A fault \in BOOLEAN :
           ~lc_byte_mode_flag /\ advance_lc(fault) /\ held' # None =>
             2 * held' + HalfPosition(lc'.count) = lc.count \div 2]_fetchVars
  <2> SUFFICES ASSUME StreamInv, NEW fault \in BOOLEAN,
                      ~lc_byte_mode_flag, advance_lc(fault), held' # None
               PROVE  2 * held' + HalfPosition(lc'.count) = lc.count \div 2
    OBVIOUS
  <2> QED BY AdvancePreserves
<1>2. FetchInit => StreamInv
  BY StreamStarts
<1>3. StreamInv /\ [FetchNext]_fetchVars => StreamInv'
  BY StreamInductive
<1> QED BY <1>1, <1>2, <1>3, PTL DEF FetchSpec, SelectsHalfword

-----------------------------------------------------------------------------
\* A word on its way to MD is the one that was fetched, until something else
\* uses MD; when the delay is over it has arrived.
DelayInv ==
  /\ FetchTypeOK
  /\ undisturbed /\ new_md_delay > 0 => new_md = held
  /\ undisturbed /\ new_md_delay = 0 => md = held

\* One turn of the loop, when nothing is read or written: the word arrives
\* when the count reaches zero, and nothing else changes.
LEMMA TickDelivers ==
  ASSUME DelayInv, Tick,
         UNCHANGED <<held, undisturbed, new_md>>
  PROVE  /\ new_md_delay' \in 0 .. 2
         /\ undisturbed' /\ new_md_delay' > 0 => new_md' = held'
         /\ undisturbed' /\ new_md_delay' = 0 => md' = held'
<1>1. new_md_delay \in {0, 1, 2}
  BY DEF DelayInv, FetchTypeOK
<1>2. /\ new_md_delay' = Delay
      /\ md' = Md
  BY DEF Tick
<1> QED BY <1>1, <1>2 DEF DelayInv, Delay, Md

\* advance_lc fetches, which starts the delay anew, or lets it run on.
LEMMA AdvanceDelivers ==
  ASSUME DelayInv, NEW fault \in BOOLEAN, advance_lc(fault)
  PROVE  DelayInv'
<1> DEFINE i == Increment(lc_byte_mode_flag)
           next == After(lc.count, i)
<1>1. /\ lc \in [count : Counts, high : 0 .. 31]
      /\ lc.count \in Counts
      /\ lc.high \in 0 .. 31
      /\ i \in {1, 2}
  BY DEF DelayInv, FetchTypeOK, Increment
<1>2. next \in Counts /\ lc.count \div 4 \in 0 .. Limit \div 4 - 1
  BY <1>1, AdvanceCount
<1>3. lc' = Advanced(lc_byte_mode_flag)
  BY DEF advance_lc
<1>4. lc' \in [count : Counts, high : 0 .. 31]
  <2> HIDE DEF i
  <2>1. CASE lc.count + i < Limit
    <3>1. lc' = [count |-> lc.count + i, high |-> lc.high] /\ next = lc.count + i
      BY <1>3, <2>1 DEF After, Advanced, i
    <3> QED BY <1>1, <1>2, <3>1
  <2>2. CASE ~(lc.count + i < Limit)
    <3>1. /\ lc' = [count |-> lc.count + i - Limit, high |-> lc.high + 1]
          /\ next = lc.count + i - Limit
      BY <1>3, <2>2 DEF After, Advanced, i
    <3>2. lc.count + i >= Limit
      BY <1>1, <2>2, FetchAssumption DEF Counts
    <3>3. lc.high # 31
      BY <3>2 DEF advance_lc, NoCarryOut, Carries, i
    <3>4. lc.high + 1 \in 0 .. 31
      BY <1>1, <3>3
    <3> QED BY <1>2, <3>1, <3>4
  <2> QED BY <2>1, <2>2
<1>5. need_fetch' \in BOOLEAN
  BY DEF advance_lc, LastByteInWord
<1>6. UNCHANGED <<flags, interrupt_pending_flag, take_jump>>
  BY DEF advance_lc
<1>7. CASE need_fetch
  <2>1. /\ held' = lc.count \div 4
        /\ written' = FALSE
        /\ undisturbed' = ~fault
        /\ new_md' = IF fault THEN None ELSE lc.count \div 4
        /\ page_fault_flag' = fault
        /\ new_md_delay' = 2
    BY <1>7 DEF advance_lc, Read
  <2>2. held' \in Fetchable
    BY <1>2, <2>1 DEF Fetchable
  <2>3. FetchTypeOK'
    <3>1. undisturbed' \in BOOLEAN /\ 2 \in 0 .. 2
      BY <2>1
    <3> QED BY <1>4, <1>5, <1>6, <2>1, <2>2, <3>1 DEF FetchTypeOK, DelayInv, flags
  <2>4. CASE fault
    BY <2>1, <2>3, <2>4 DEF DelayInv
  <2>5. CASE ~fault
    <3>1. new_md' = held' /\ new_md_delay' # 0
      BY <2>1, <2>5
    <3> QED BY <2>3, <3>1 DEF DelayInv
  <2> QED BY <2>4, <2>5
<1>8. CASE ~need_fetch
  <2>1. Tick /\ UNCHANGED <<memory, held, written, undisturbed>>
    BY <1>8 DEF advance_lc
  <2>2. /\ new_md_delay' \in 0 .. 2
        /\ undisturbed' /\ new_md_delay' > 0 => new_md' = held'
        /\ undisturbed' /\ new_md_delay' = 0 => md' = held'
    BY <2>1, TickDelivers DEF memory
  <2>3. FetchTypeOK'
    BY <1>4, <1>5, <1>6, <2>1, <2>2 DEF FetchTypeOK, DelayInv, flags, memory
  <2> QED BY <2>2, <2>3 DEF DelayInv
<1> QED BY <1>7, <1>8 DEF DelayInv, FetchTypeOK

LEMMA DelayStarts == FetchInit => DelayInv
<1> SUFFICES ASSUME FetchInit PROVE DelayInv
  OBVIOUS
<1>1. lc \in [count : Counts, high : 0 .. 31]
  <2>1. lc = [count |-> 0, high |-> 0] /\ 0 \in Counts /\ 0 \in 0 .. 31
    BY FetchAssumption DEF FetchInit, Counts
  <2> QED BY <2>1
<1>2. held \in Fetchable
  BY DEF FetchInit, Fetchable
<1>3. FetchTypeOK
  <2>1. new_md_delay = 0 /\ written = TRUE /\ undisturbed = FALSE /\ take_jump = FALSE
    BY DEF FetchInit
  <2>2. /\ need_fetch = FALSE /\ lc_byte_mode_flag = FALSE
        /\ interrupt_enable_flag = FALSE /\ sequence_break_flag = FALSE
        /\ interrupt_pending_flag = FALSE /\ page_fault_flag = FALSE
    BY DEF FetchInit
  <2>3. 0 \in 0 .. 2
    OBVIOUS
  <2> QED BY <1>1, <1>2, <2>1, <2>2, <2>3 DEF FetchTypeOK
<1> QED BY <1>3 DEF FetchInit, DelayInv

LEMMA DelayInductive ==
  ASSUME DelayInv, [FetchNext]_fetchVars
  PROVE  DelayInv'
<1>1. ASSUME NEW fault \in BOOLEAN, advance_lc(fault) PROVE DelayInv'
  BY <1>1, AdvanceDelivers
\* What only lets the delay run on.
<1>2. ASSUME Tick, UNCHANGED <<held, undisturbed, new_md>>, FetchTypeOK'
      PROVE  DelayInv'
  BY <1>2, TickDelivers DEF DelayInv
<1>3. ASSUME Tick PROVE new_md_delay' \in 0 .. 2
  <2>1. new_md_delay \in {0, 1, 2}
    BY DEF DelayInv, FetchTypeOK
  <2> QED BY <1>3, <2>1 DEF Tick, Delay
<1>4. ASSUME NEW v \in LcValues, WriteLc(v) PROVE DelayInv'
  <2>1. v \in Counts /\ 2 * (v \div 2) \in Counts
    BY FetchAssumption DEF Counts
  <2>2. lc \in [count : Counts, high : 0 .. 31]
    BY DEF DelayInv, FetchTypeOK
  <2>3. lc' \in [count : Counts, high : 0 .. 31]
    BY <1>4, <2>1, <2>2 DEF WriteLc
  <2>4. Tick /\ need_fetch' = TRUE /\ written' = TRUE
        /\ UNCHANGED <<held, undisturbed, flags, interrupt_pending_flag, memory, take_jump>>
    BY <1>4 DEF WriteLc
  <2>5. FetchTypeOK'
    BY <1>3, <2>3, <2>4 DEF DelayInv, FetchTypeOK, flags, memory
  <2> QED BY <1>2, <2>4, <2>5 DEF memory
<1>5. ASSUME NEW v \in Controls, WriteInterruptControl(v) PROVE DelayInv'
  <2>1. lc \in [count : Counts, high : 0 .. 31] /\ v \in 0 .. 15
    BY FetchAssumption DEF DelayInv, FetchTypeOK
  <2>2. 16 * (lc.high \div 16) + v \in 0 .. 31
    <3>1. lc.high \in 0 .. 31
      BY <2>1
    <3> QED BY <2>1, <3>1
  <2>3. lc' \in [count : Counts, high : 0 .. 31]
    BY <1>5, <2>1, <2>2 DEF WriteInterruptControl
  <2>4. /\ sequence_break_flag' \in BOOLEAN
        /\ interrupt_enable_flag' \in BOOLEAN
        /\ lc_byte_mode_flag' \in BOOLEAN
    <3>1. /\ (v % 2 = 1) \in BOOLEAN
          /\ ((v \div 2) % 2 = 1) \in BOOLEAN
          /\ (v >= 8) \in BOOLEAN
      BY <2>1
    <3> QED BY <1>5, <3>1 DEF WriteInterruptControl
  <2>5. Tick /\ UNCHANGED <<need_fetch, held, written, undisturbed, interrupt_pending_flag,
                            memory, take_jump>>
    BY <1>5 DEF WriteInterruptControl
  <2>6. FetchTypeOK'
    BY <1>3, <2>3, <2>4, <2>5 DEF DelayInv, FetchTypeOK, memory
  <2> QED BY <1>2, <2>5, <2>6 DEF memory
<1>6. ASSUME NEW word \in ReadWords, WriteVma(word) PROVE DelayInv'
  <2>1. Tick /\ UNCHANGED <<stream, flags, interrupt_pending_flag, undisturbed,
                            new_md, page_fault_flag, take_jump>>
    BY <1>6 DEF WriteVma
  <2>2. FetchTypeOK'
    BY <1>3, <2>1 DEF DelayInv, FetchTypeOK, stream, flags
  <2> QED BY <1>2, <2>1, <2>2 DEF stream
<1>7. ASSUME NEW word \in ReadWords, NEW fault \in BOOLEAN,
             VmaStartRead(word, fault) \/ MdStartRead(word, fault)
      PROVE  DelayInv'
  <2>1. /\ undisturbed' = FALSE
        /\ new_md_delay' = 2
        /\ page_fault_flag' = fault
    BY <1>7 DEF VmaStartRead, MdStartRead, Read
  <2>2. UNCHANGED <<stream, flags, interrupt_pending_flag, take_jump>>
    BY <1>7 DEF VmaStartRead, MdStartRead
  <2>3. 2 \in 0 .. 2
    OBVIOUS
  <2> QED BY <2>1, <2>2, <2>3 DEF DelayInv, FetchTypeOK, stream, flags
<1>8. ASSUME NEW word \in ReadWords, WriteMd(word) PROVE DelayInv'
  <2>1. Delay \in 0 .. 2
    <3>1. new_md_delay \in {0, 1, 2}
      BY DEF DelayInv, FetchTypeOK
    <3> QED BY <3>1 DEF Delay
  <2> QED BY <1>8, <2>1 DEF WriteMd, DelayInv, FetchTypeOK, stream, flags, memory
<1>9. ASSUME NEW cond \in 4 .. 6, NEW invert_sense \in BOOLEAN,
             JumpOn(cond, invert_sense)
      PROVE  DelayInv'
  <2>1. take_jump' \in BOOLEAN
    <3>1. (Condition(cond) # invert_sense) \in BOOLEAN
      OBVIOUS
    <3> QED BY <1>9, <3>1 DEF JumpOn
  <2>2. Tick /\ UNCHANGED <<stream, undisturbed, flags, interrupt_pending_flag, memory>>
    BY <1>9 DEF JumpOn
  <2>3. FetchTypeOK'
    BY <1>3, <2>1, <2>2 DEF DelayInv, FetchTypeOK, stream, flags, memory
  <2> QED BY <1>2, <2>2, <2>3 DEF stream, memory
<1>10. CASE OtherTurn
  <2>1. Tick /\ UNCHANGED <<stream, undisturbed, flags, interrupt_pending_flag, memory,
                            take_jump>>
    BY <1>10 DEF OtherTurn
  <2>2. FetchTypeOK'
    BY <1>3, <2>1 DEF DelayInv, FetchTypeOK, stream, flags, memory
  <2> QED BY <1>2, <2>1, <2>2 DEF stream, memory
<1>11. CASE Device
  BY <1>11 DEF Device, DelayInv, FetchTypeOK, stream, flags, memory
<1>12. CASE UNCHANGED fetchVars
  BY <1>12 DEF fetchVars, DelayInv, FetchTypeOK, stream, flags, memory
<1> QED BY <1>1, <1>4, <1>5, <1>6, <1>7, <1>8, <1>9, <1>10, <1>11, <1>12 DEF FetchNext

\* The word that advance_lc fetched is in MD once the delay has run out, if
\* nothing else used MD in between (ucode.c:514-516, 799-803).
THEOREM FetchedWordArrives == FetchSpec => []HeldReachesMd
<1>1. DelayInv => HeldReachesMd
  BY DEF DelayInv, HeldReachesMd
<1>2. DelayInv /\ [FetchNext]_fetchVars => DelayInv'
  BY DelayInductive
<1> QED BY <1>1, <1>2, DelayStarts, PTL DEF FetchSpec

=============================================================================
