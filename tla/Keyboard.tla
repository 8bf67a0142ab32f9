------------------------------ MODULE Keyboard ------------------------------
(***************************************************************************)
(* The I/O board's keyboard and mouse: the scan register, the CSR and the  *)
(* ring of waiting keys (kbd.c), the button latches (mouse.c), their       *)
(* Unibus registers (iob.c) and the X event loop that feeds them (x11.c).  *)
(*                                                                         *)
(* tv_poll runs between two microinstructions, so while it handles events  *)
(* ("events") the microcode ("cpu") does not run.  Within one poll         *)
(* dequeue_key_event comes first and every pending X event after it.       *)
(*                                                                         *)
(* Keys are numbered in the order they are typed; a number stands for the  *)
(* 32-bit scan code of that key, up or down.  The scan code is wider than  *)
(* the Unibus, so the driver reads the register in two halves, low first:  *)
(* drv_low is the key whose low half it holds, and a poll may fall between *)
(* the two reads.                                                          *)
(***************************************************************************)
EXTENDS Integers, Sequences

CONSTANTS
  KEY_QUEUE_LEN,
  MaxKeys       \* bound: keys typed in a behaviour

ASSUME LenAssumption == KEY_QUEUE_LEN \in Nat \ {0}
ASSUME MaxKeysAssumption == MaxKeys \in Nat

Keys == 1 .. MaxKeys
NoKey == 0              \* kbd_key_scan is a zero-initialised global
Slots == 0 .. KEY_QUEUE_LEN - 1

VARIABLES
  key_queue, key_queue_optr, key_queue_iptr, key_queue_free,
  kbd_key_scan,
  csr2,         \* iob_csr<2>: keyboard interrupts enabled
  csr4,         \* iob_csr<4>: the mouse has something to report
  csr5,         \* iob_csr<5>: a key is announced
  buttons,      \* mouse_tail, mouse_middle, mouse_head
  pc,           \* who runs: the microcode or the X event loop
  typed,        \* keys typed so far
  drv_low,      \* driver: key whose low half was read, the high half not yet
  polled,       \* history: a poll since the driver read the low half
  announced     \* history: the key that was announced last

ring == <<key_queue, key_queue_optr, key_queue_iptr, key_queue_free>>
driver == <<drv_low, polled>>
mouse == <<csr4, buttons>>
vars == <<ring, kbd_key_scan, csr2, mouse, csr5, pc, typed, driver, announced>>

TypeOK ==
  /\ key_queue \in [Slots -> 0 .. MaxKeys]
  /\ key_queue_optr \in Slots
  /\ key_queue_iptr \in Slots
  /\ key_queue_free \in 0 .. KEY_QUEUE_LEN
  /\ kbd_key_scan \in 0 .. MaxKeys
  /\ csr2 \in BOOLEAN /\ csr4 \in BOOLEAN /\ csr5 \in BOOLEAN
  /\ buttons \in SUBSET {"tail", "middle", "head"}
  /\ pc \in {"cpu", "events"}
  /\ typed \in 0 .. MaxKeys
  /\ drv_low \in 0 .. MaxKeys
  /\ polled \in BOOLEAN
  /\ announced \in 0 .. MaxKeys

\* tv_poll and kbd_warm_boot_key come before the first instruction, with the
\* CSR still zero: the X loop runs first.
Init ==
  /\ key_queue = [i \in Slots |-> NoKey]
  /\ key_queue_optr = 0 /\ key_queue_iptr = 0
  /\ key_queue_free = KEY_QUEUE_LEN
  /\ kbd_key_scan = NoKey
  /\ csr2 = FALSE /\ csr4 = FALSE /\ csr5 = FALSE
  /\ buttons = {}
  /\ pc = "events"
  /\ typed = 0
  /\ drv_low = NoKey /\ polled = FALSE
  /\ announced = NoKey

Used == KEY_QUEUE_LEN - key_queue_free

-----------------------------------------------------------------------------
\* The tail of kbd_key_event and dequeue_key_event: the key is in the
\* register, and it is announced only if keyboard interrupts are enabled.
Show(k) ==
  /\ kbd_key_scan' = k
  /\ csr5' = (csr5 \/ csr2)
  /\ announced' = IF csr2 THEN k ELSE announced

\* A full queue drops the key.
QueueKeyEvent(k) ==
  \/ /\ key_queue_free > 0
     /\ key_queue_free' = key_queue_free - 1
     /\ key_queue' = [key_queue EXCEPT ![key_queue_optr] = k]
     /\ key_queue_optr' = (key_queue_optr + 1) % KEY_QUEUE_LEN
     /\ UNCHANGED key_queue_iptr
  \/ /\ key_queue_free = 0
     /\ UNCHANGED ring

\* kbd_key_event: behind an announced key, queue; otherwise show at once.
KbdKeyEvent(k) ==
  \/ csr5 /\ QueueKeyEvent(k) /\ UNCHANGED <<kbd_key_scan, csr5, announced>>
  \/ ~csr5 /\ Show(k) /\ UNCHANGED ring

\* Mutated form of DequeueKeyEvent.
DequeueDropsWhenDisabled ==
  /\ IF ~csr5 /\ key_queue_free < KEY_QUEUE_LEN
     THEN /\ key_queue_iptr' = (key_queue_iptr + 1) % KEY_QUEUE_LEN
          /\ key_queue_free' = key_queue_free + 1
          /\ UNCHANGED <<key_queue, key_queue_optr>>
     ELSE UNCHANGED ring
  /\ IF ~csr5 /\ key_queue_free < KEY_QUEUE_LEN /\ csr2
     THEN Show(key_queue[key_queue_iptr])
     ELSE UNCHANGED <<kbd_key_scan, csr5, announced>>

\* Mutated form of DequeueKeyEvent.
DequeueOnlyWhenFull ==
  \/ /\ ~csr5
     /\ key_queue_free = 0
     /\ key_queue_iptr' = (key_queue_iptr + 1) % KEY_QUEUE_LEN
     /\ key_queue_free' = key_queue_free + 1
     /\ Show(key_queue[key_queue_iptr])
     /\ UNCHANGED <<key_queue, key_queue_optr>>
  \/ /\ csr5 \/ key_queue_free > 0
     /\ UNCHANGED <<ring, kbd_key_scan, csr5, announced>>

\* Mutated form of DequeueKeyEvent.
DequeueOnlyWhenEnabled ==
  \/ /\ ~csr5 /\ csr2
     /\ key_queue_free < KEY_QUEUE_LEN
     /\ key_queue_iptr' = (key_queue_iptr + 1) % KEY_QUEUE_LEN
     /\ key_queue_free' = key_queue_free + 1
     /\ Show(key_queue[key_queue_iptr])
     /\ UNCHANGED <<key_queue, key_queue_optr>>
  \/ /\ csr5 \/ ~csr2 \/ key_queue_free = KEY_QUEUE_LEN
     /\ UNCHANGED <<ring, kbd_key_scan, csr5, announced>>

\* dequeue_key_event
DequeueKeyEvent ==
  \/ /\ ~csr5
     /\ key_queue_free < KEY_QUEUE_LEN
     /\ key_queue_iptr' = (key_queue_iptr + 1) % KEY_QUEUE_LEN
     /\ key_queue_free' = key_queue_free + 1
     /\ Show(key_queue[key_queue_iptr])
     /\ UNCHANGED <<key_queue, key_queue_optr>>
  \/ /\ csr5 \/ key_queue_free = KEY_QUEUE_LEN
     /\ UNCHANGED <<ring, kbd_key_scan, csr5, announced>>

\* iob_mouse_event tests the X button number (0 for motion, 1 to 5) as if it
\* were a mask, so button 3 latches two buttons and the wheel latches the head.
ButtonLatches(n) ==
  {b \in {"tail", "middle", "head"} :
     \/ b = "tail" /\ n % 2 = 1
     \/ b = "middle" /\ (n \div 2) % 2 = 1
     \/ b = "head" /\ (n \div 4) % 2 = 1}

-----------------------------------------------------------------------------
\* tv_poll -> x11_event, and the X events it finds.
Poll ==
  /\ pc = "cpu"
  /\ DequeueKeyEvent
  /\ polled' = TRUE
  /\ pc' = "events"
  /\ UNCHANGED <<csr2, mouse, typed, drv_low>>

KeyPress ==
  /\ pc = "events"
  /\ typed < MaxKeys
  /\ typed' = typed + 1
  /\ KbdKeyEvent(typed + 1)
  /\ UNCHANGED <<csr2, mouse, pc, driver>>

MouseEvent ==
  /\ pc = "events"
  /\ csr4' = TRUE
  /\ \E n \in 0 .. 5 : buttons' = buttons \cup ButtonLatches(n)
  /\ UNCHANGED <<ring, kbd_key_scan, csr2, csr5, pc, typed, driver, announced>>

EndOfEvents ==
  /\ pc = "events"
  /\ pc' = "cpu"
  /\ UNCHANGED <<ring, kbd_key_scan, csr2, mouse, csr5, typed, driver, announced>>

-----------------------------------------------------------------------------
\* The driver, external to the emulator: on an announced key it reads the low
\* half of the register (0100) and then the high half (0102).  Either read
\* clears CSR<5>.
ReadKbdLow ==
  /\ pc = "cpu"
  /\ csr5
  /\ drv_low = NoKey
  /\ csr5' = FALSE
  /\ drv_low' = kbd_key_scan
  /\ polled' = FALSE
  /\ UNCHANGED <<ring, kbd_key_scan, csr2, mouse, pc, typed, announced>>

ReadKbdHigh ==
  /\ pc = "cpu"
  /\ drv_low # NoKey
  /\ csr5' = FALSE
  /\ drv_low' = NoKey
  /\ UNCHANGED <<ring, kbd_key_scan, csr2, mouse, pc, typed, polled, announced>>

\* Mutated form of ReadMouseY.
ReadMouseYKeepsButtons ==
  /\ pc = "cpu"
  /\ csr4' = FALSE
  /\ UNCHANGED <<ring, kbd_key_scan, csr2, csr5, buttons, pc, typed, driver, announced>>

\* Read of 0104: buttons and mouse y.
ReadMouseY ==
  /\ pc = "cpu"
  /\ buttons' = {}
  /\ csr4' = FALSE
  /\ UNCHANGED <<ring, kbd_key_scan, csr2, csr5, pc, typed, driver, announced>>

\* Write of the CSR, 0112: only the low four bits are writable.
WriteCsr ==
  /\ pc = "cpu"
  /\ csr2' \in BOOLEAN
  /\ UNCHANGED <<ring, kbd_key_scan, mouse, csr5, pc, typed, driver, announced>>

Next ==
  \/ Poll \/ KeyPress \/ MouseEvent \/ EndOfEvents
  \/ ReadKbdLow \/ ReadKbdHigh \/ ReadMouseY \/ WriteCsr

Spec == Init /\ [][Next]_vars

-----------------------------------------------------------------------------
\* The waiting keys, oldest first.
Waiting ==
  [i \in 1 .. Used |-> key_queue[(key_queue_iptr + i - 1) % KEY_QUEUE_LEN]]

(***************************************************************************)
(* Keys wait in the order they were typed, and none of them is older than  *)
(* a key the software was told about: kbd_key_event bypasses the queue     *)
(* when CSR<5> is clear, yet no announced key ever overtakes a waiting one.*)
(***************************************************************************)
NoOvertaking ==
  /\ \A i, j \in DOMAIN Waiting : i < j => Waiting[i] < Waiting[j]
  /\ \A i \in DOMAIN Waiting : announced < Waiting[i]

(***************************************************************************)
(* What CSR<5> and CSR<4> announce is really there: an announced key stays *)
(* in the register through any number of polls and key strokes until the   *)
(* software has read it, and a latched mouse button is always announced,   *)
(* whatever the order of mouse events, reads and CSR writes.               *)
(***************************************************************************)
AnnouncedKeyStays == csr5 => kbd_key_scan = announced

LatchedButtonAnnounced == buttons # {} => csr4

AnnouncementsHold == TypeOK /\ AnnouncedKeyStays /\ LatchedButtonAnnounced

(***************************************************************************)
(* Keys are taken out of the queue as long as somebody reads announced     *)
(* keys: no key waits forever.                                             *)
(***************************************************************************)
WaitingKeyAdvances ==
  \A k \in Keys :
    (\E i \in DOMAIN Waiting : Waiting[i] = k) ~>
      ~(\E i \in DOMAIN Waiting : Waiting[i] = k)

(***************************************************************************)
(* The ring buffer implements the first-in first-out queue of KeyQueue.    *)
(***************************************************************************)
KQ == INSTANCE KeyQueue WITH Capacity <- KEY_QUEUE_LEN, queue <- Waiting,
                             register <- kbd_key_scan
ImplementsKeyQueue == KQ!Spec
=============================================================================
