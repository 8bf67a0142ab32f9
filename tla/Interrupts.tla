----------------------------- MODULE Interrupts -----------------------------
(***************************************************************************)
(* The interrupt status register and interrupt_pending_flag, updated by    *)
(* the emulator's only thread and, at any point of that thread, by the     *)
(* SIGVTALRM handler of tv.c (the 60 Hz TV interrupt).                     *)
(*                                                                         *)
(* Every update in the main thread is three machine steps, with no signal  *)
(* blocked between them: load the register and compute the new value       *)
(* (main_pc = "run"), store the register ("store"), store the flag         *)
(* ("flag").  The variables are not volatile, so the flag may be computed  *)
(* from the value that was stored or from the register read back: the      *)
(* program has a data race and StoreFlag allows both.  The handler runs on *)
(* top of the main thread, to completion, so it is one action.  A guard    *)
(* such as "if (interrupt_status_reg & 02000)" and the load after it are   *)
(* one step: the handler changes neither ub nor en, and it never clears    *)
(* xb, so a signal between the two is a signal before both.                *)
(***************************************************************************)
EXTENDS IntReg

VARIABLES
  interrupt_status_reg,
  interrupt_pending_flag,
  tv_irq,       \* bit 4 of tv_csr: the TV wants service
  disk_irq,     \* the disk asserted the Xbus interrupt and no later command
                \* without interrupt enables (cmd & 06000) has withdrawn it
  tv_wrote,     \* history: tv_csr was written since the disk last asserted
  main_pc,      \* where the main thread is in an update
  new           \* the value the main thread is about to store

vars == <<interrupt_status_reg, interrupt_pending_flag, tv_irq, disk_irq,
          tv_wrote, main_pc, new>>

UnibusVectors == Vectors \ {0}

TypeOK ==
  /\ interrupt_status_reg \in Registers
  /\ interrupt_pending_flag \in BOOLEAN
  /\ tv_irq \in BOOLEAN
  /\ disk_irq \in BOOLEAN
  /\ tv_wrote \in BOOLEAN
  /\ main_pc \in {"run", "deassert", "store", "flag"}
  /\ new \in Registers

Init ==
  /\ interrupt_status_reg = PowerUp
  /\ interrupt_pending_flag = FALSE
  /\ tv_irq = FALSE
  /\ disk_irq = FALSE
  /\ tv_wrote = FALSE
  /\ main_pc = "run"
  /\ new = PowerUp

-----------------------------------------------------------------------------
\* Entry to set_interrupt_status_reg(r): the argument has been computed.
CallSet(r) ==
  /\ new' = r
  /\ main_pc' = "store"
  /\ UNCHANGED <<interrupt_status_reg, interrupt_pending_flag>>

\* A keyboard, mouse or Chaosnet event: assert_unibus_interrupt(v).
UnibusDevice(v) ==
  /\ main_pc = "run"
  /\ interrupt_status_reg.en
  /\ CallSet(AssertUnibus(interrupt_status_reg, v))
  /\ UNCHANGED <<tv_irq, disk_irq, tv_wrote>>

\* The microcode writes the status register, Unibus 040 and 042.
WriteStatusReg(e) ==
  /\ main_pc = "run"
  /\ CallSet(WriteStatus(interrupt_status_reg, e))
  /\ UNCHANGED <<tv_irq, disk_irq, tv_wrote>>

WriteStimReg(u, v) ==
  /\ main_pc = "run"
  /\ CallSet(WriteStim(interrupt_status_reg, u, v))
  /\ UNCHANGED <<tv_irq, disk_irq, tv_wrote>>

\* disk_poll's timer expires: disk_throw_interrupt.
DiskThrow ==
  /\ main_pc = "run"
  /\ disk_irq' = TRUE
  /\ tv_wrote' = FALSE
  /\ CallSet(AssertXbus(interrupt_status_reg))
  /\ UNCHANGED tv_irq

\* Mutated form of TvWrite.
TvWriteKeepsDeassert ==
  /\ main_pc = "run"
  /\ tv_irq' = FALSE
  /\ tv_wrote' = TRUE
  /\ UNCHANGED <<interrupt_status_reg, interrupt_pending_flag, disk_irq,
                 main_pc, new>>

\* tv_xbus_write clears bit 4 of tv_csr, then calls deassert_xbus_interrupt.
TvWrite ==
  /\ main_pc = "run"
  /\ tv_irq' = FALSE
  /\ tv_wrote' = TRUE
  /\ main_pc' = "deassert"
  /\ UNCHANGED <<interrupt_status_reg, interrupt_pending_flag, disk_irq, new>>

\* disk_xbus_write(0374) of a command with no interrupt-enable bit.
DiskCommandWithoutInterrupts ==
  /\ main_pc = "run"
  /\ disk_irq' = FALSE
  /\ main_pc' = "deassert"
  /\ UNCHANGED <<interrupt_status_reg, interrupt_pending_flag, tv_irq, tv_wrote,
                 new>>

\* deassert_xbus_interrupt: nothing to store when the bit is already clear.
Deassert ==
  /\ main_pc = "deassert"
  /\ UNCHANGED <<tv_irq, disk_irq, tv_wrote>>
  /\ \/ /\ interrupt_status_reg.xb
        /\ CallSet(DeassertXbus(interrupt_status_reg))
     \/ /\ ~interrupt_status_reg.xb
        /\ main_pc' = "run"
        /\ UNCHANGED <<interrupt_status_reg, interrupt_pending_flag, new>>

\* set_interrupt_status_reg: first the register ...
StoreReg ==
  /\ main_pc = "store"
  /\ interrupt_status_reg' = new
  /\ main_pc' = "flag"
  /\ UNCHANGED <<interrupt_pending_flag, tv_irq, disk_irq, tv_wrote, new>>

\* Mutated form of StoreFlag.
StoreFlagSetOnly ==
  /\ main_pc = "flag"
  /\ interrupt_pending_flag' =
       (interrupt_pending_flag \/ Pending(new))
  /\ main_pc' = "run"
  /\ UNCHANGED <<interrupt_status_reg, tv_irq, disk_irq, tv_wrote, new>>

\* ... then the flag, from the argument or from the register.
StoreFlag ==
  /\ main_pc = "flag"
  /\ \E r \in {new, interrupt_status_reg} : interrupt_pending_flag' = Pending(r)
  /\ main_pc' = "run"
  /\ UNCHANGED <<interrupt_status_reg, tv_irq, disk_irq, tv_wrote, new>>

\* Mutated form of Sigalrm.
SigalrmNoFlag ==
  /\ tv_irq' = TRUE
  /\ interrupt_status_reg' = AssertXbus(interrupt_status_reg)
  /\ UNCHANGED <<interrupt_pending_flag, disk_irq, tv_wrote, main_pc, new>>

\* sigalrm_handler -> tv_post_60hz_interrupt -> assert_xbus_interrupt.
Sigalrm ==
  /\ tv_irq' = TRUE
  /\ interrupt_status_reg' = AssertXbus(interrupt_status_reg)
  /\ interrupt_pending_flag' = Pending(interrupt_status_reg')
  /\ UNCHANGED <<disk_irq, tv_wrote, main_pc, new>>

Begin ==
  \/ \E v \in UnibusVectors : UnibusDevice(v)
  \/ \E e \in BOOLEAN : WriteStatusReg(e)
  \/ \E u \in BOOLEAN, v \in Vectors : WriteStimReg(u, v)
  \/ DiskThrow
  \/ TvWrite
  \/ DiskCommandWithoutInterrupts

Continue == Deassert \/ StoreReg \/ StoreFlag

Next == Begin \/ Continue \/ Sigalrm

Spec == Init /\ [][Next]_vars

\* The main thread finishes an update it began, and the virtual interval
\* timer, which counts the CPU time the emulator always consumes, keeps firing.
FairSpec == Spec /\ WF_vars(Continue) /\ WF_vars(Sigalrm)

-----------------------------------------------------------------------------
Idle == main_pc = "run"

(***************************************************************************)
(* When the microcode can test interrupt_pending_flag (jump conditions 5   *)
(* and 6 of run()), a set flag is backed by a request in the register, so  *)
(* the microcode never takes an interrupt that nobody raised; and a Unibus *)
(* request in the register is never hidden from the flag, because its two  *)
(* sources, assert_unibus_interrupt and the write at 042, run in the main  *)
(* thread only.  Both however the signal falls into an update.             *)
(***************************************************************************)
NoSpuriousInterrupt ==
  Idle /\ interrupt_pending_flag => Pending(interrupt_status_reg)

UnibusNeverMasked ==
  Idle /\ interrupt_status_reg.ub => interrupt_pending_flag

FlagMatchesRequests == NoSpuriousInterrupt /\ UnibusNeverMasked

(***************************************************************************)
(* An Xbus request can be hidden: a signal between the two stores of       *)
(* set_interrupt_status_reg leaves the register bit set and the flag       *)
(* clear.  Only the TV can be hidden in that way: then bit 4 of tv_csr is  *)
(* still up, and the next 60 Hz signal repairs the flag.                   *)
(* Bit 040000 is shared by the disk and the TV, and both                   *)
(* tv_xbus_write and disk_xbus_write clear it.  A set bit nevertheless has *)
(* one of the two behind it: an update that loaded the register before a   *)
(* signal never resurrects a request that its device has withdrawn.        *)
(***************************************************************************)
OnlyTvMasked ==
  Idle /\ interrupt_status_reg.xb /\ ~interrupt_pending_flag => tv_irq

XbusHasSource == Idle /\ interrupt_status_reg.xb => tv_irq \/ disk_irq

XbusAccounted == OnlyTvMasked /\ XbusHasSource

(***************************************************************************)
(* A disk completion stays visible to the microcode, in the register and   *)
(* in the flag, until the driver withdraws it or writes tv_csr (which      *)
(* clears the shared bit for both).  No keyboard, mouse or Chaosnet        *)
(* interrupt, no write of the status register and no signal, wherever it   *)
(* falls, makes the microcode miss a disk completion.                      *)
(***************************************************************************)
OnlyTvWriteHidesDisk ==
  Idle /\ disk_irq /\ ~tv_wrote =>
    interrupt_status_reg.xb /\ interrupt_pending_flag

(***************************************************************************)
(* A TV request that an update wiped from the register, or hid from the    *)
(* flag, is not lost for good: as long as bit 4 of tv_csr stays up, the    *)
(* next tick of the interval timer raises the flag again.                  *)
(***************************************************************************)
MaskedTvIsRepaired == tv_irq ~> interrupt_pending_flag \/ ~tv_irq
=============================================================================
