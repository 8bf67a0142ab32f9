---------------------------- MODULE ControlStore ----------------------------
(***************************************************************************)
(* Which instruction word the pipeline of run() executes.  Words are       *)
(* fetched from the boot PROM or from control memory one turn ahead; in    *)
(* between, the instruction that runs may write control memory (a jump     *)
(* with P and R) or leave the PROM (a write to Unibus address 766012).  A  *)
(* word is told by its place and the number of the write that put it there.*)
(***************************************************************************)
EXTENDS MicroPipeline

CONSTANTS
  Writable,         \* bound: the addresses of control memory written
  MaxWrites         \* bound: how often each of them is

ASSUME StoreAssumption == Writable \subseteq Targets /\ MaxWrites \in Nat

VARIABLES
  ucode,            \* address -> how often it has been written
  prom_enabled_flag,
  p1,               \* the word fetched ahead
  changed           \* history: the words the last turn changed under the fetch

store == <<ucode, prom_enabled_flag>>
storeVars == <<vars, store, p1, changed>>

Pcs == 0 .. MaxPc + 2

\* FETCH() of the word at pc.
FETCH(pc) ==
  IF prom_enabled_flag THEN [in |-> "prom", at |-> pc, version |-> 0]
  ELSE [in |-> "ucode", at |-> pc, version |-> ucode[pc]]

\* The word this turn executes.
p0 == IF no_exec_next THEN FETCH(u_pc) ELSE p1

StoreInit ==
  /\ Init
  /\ ucode = [pc \in Pcs |-> 0]
  /\ prom_enabled_flag = TRUE
  /\ p1 = FETCH(0)
  /\ changed = {}

\* Mutated form of Prefetch.
PrefetchOnce == p1' = FETCH(u_pc)

\* What p0 is replaced by for the turn after this one.
Prefetch == p1' = FETCH(Fetched.p1_pc)

KeepStore ==
  /\ Prefetch
  /\ UNCHANGED store
  /\ changed' = {}

\* The write is made whether or not the jump is taken.
WriteStore(t) ==
  /\ ucode[t] < MaxWrites
  /\ StoreJump
  /\ Prefetch
  /\ ucode' = [ucode EXCEPT ![t] = @ + 1]
  /\ changed' = {t}
  /\ UNCHANGED prom_enabled_flag

DisableProm ==
  /\ prom_enabled_flag
  /\ Plain
  /\ Prefetch
  /\ prom_enabled_flag' = FALSE
  /\ changed' = Pcs
  /\ UNCHANGED ucode

StoreNext ==
  \/ (Other \/ Plain) /\ KeepStore
  \/ \E t \in Writable : WriteStore(t)
  \/ DisableProm

StoreSpec == StoreInit /\ [][StoreNext]_storeVars

-----------------------------------------------------------------------------
\* The word executed is the one stored at its address now, except right
\* behind the instruction that wrote it or left the PROM: there the word
\* fetched before is executed (ucode.c:789-795).  Even there a write with the
\* N bit takes effect at once, because the stall fetches again (ucode.c:806).
ExecutesStoredWord ==
  p0 # FETCH(Cur) => Cur \in changed /\ ~no_exec_next
=============================================================================
