---------------------------- MODULE IoBoardProofs ----------------------------
(***************************************************************************)
(* Proofs about the parts of the I/O board: the keyboard and its ring, the *)
(* window, the clock and the mouse, and about the board that runs them.    *)
(* They hold for a ring, a screen, a counter of any size and any readers.  *)
(***************************************************************************)
EXTENDS IoBoard, SequenceTheorems, TLAPS

(***************************************************************************)
(* Arithmetic.                                                             *)
(***************************************************************************)
LEMMA ModFacts ==
  ASSUME NEW n \in Nat \ {0}, NEW x \in Int
  PROVE  /\ x \in 0 .. n - 1 => x % n = x
         /\ x \in n .. 2 * n - 1 => x % n = x - n
         /\ x \in -n .. -1 => x % n = x + n
  OBVIOUS

LEMMA DivFacts ==
  ASSUME NEW n \in Nat \ {0}, NEW x \in Nat
  PROVE  \E q \in Nat, r \in 0 .. n - 1 : x \div n = q /\ x % n = r /\ x = q * n + r
  <1>1. x \div n \in Nat
    OBVIOUS
  <1>2. x % n \in 0 .. n - 1
    OBVIOUS
  <1>3. ASSUME NEW q \in Nat, q = x \div n
        PROVE  x - q * n = x % n /\ q * n \in Nat
    BY <1>3
  <1>4. PICK q \in Nat : q = x \div n /\ x - q * n = x % n /\ q * n \in Nat
    BY <1>1, <1>3
  <1>5. PICK r \in 0 .. n - 1 : r = x % n
    BY <1>2
  <1>6. x = q * n + r
    BY <1>4, <1>5
  <1> QED
    BY <1>4, <1>5, <1>6

LEMMA ProductMonotone ==
  ASSUME NEW n \in Nat, NEW x \in Nat, NEW y \in Nat, x <= y
  PROVE  x * n <= y * n
  OBVIOUS

LEMMA DifferenceTimes ==
  ASSUME NEW n \in Nat, NEW x \in Int, NEW y \in Int
  PROVE  (x - y) * n = x * n - y * n /\ x * n \in Int /\ (x - 1) * n = x * n - n
         /\ (x + 1) * n = x * n + n
  OBVIOUS

LEMMA DivMonotone ==
  ASSUME NEW n \in Nat \ {0}, NEW x \in Nat, NEW y \in Nat, x <= y
  PROVE  x \div n <= y \div n
  <1>1. PICK p \in Nat, b \in 0 .. n - 1 : x \div n = p /\ x = p * n + b
    BY DivFacts
  <1>2. PICK q \in Nat, c \in 0 .. n - 1 : y \div n = q /\ y = q * n + c
    BY DivFacts
  <1>3. ASSUME q < p PROVE FALSE
    <2>1. (q + 1) * n <= p * n
      BY <1>3, ProductMonotone
    <2>2. (q + 1) * n = q * n + n
      OBVIOUS
    <2>3. p * n \in Nat /\ q * n \in Nat
      OBVIOUS
    <2> QED
      BY <1>1, <1>2, <2>1, <2>2, <2>3
  <1> QED
    BY <1>1, <1>2, <1>3

-----------------------------------------------------------------------------
(***************************************************************************)
(* The keyboard.                                                           *)
(***************************************************************************)
\* The slot a places behind p.
Slot(p, a) == (p + a) % KEY_QUEUE_LEN

LEMMA SlotFacts ==
  ASSUME NEW p \in Slots, NEW a \in 0 .. KEY_QUEUE_LEN
  PROVE  /\ Slot(p, a) \in Slots
         /\ Slot(p, a) = IF p + a < KEY_QUEUE_LEN THEN p + a ELSE p + a - KEY_QUEUE_LEN
  <1>1. KEY_QUEUE_LEN \in Nat \ {0} /\ p \in 0 .. KEY_QUEUE_LEN - 1
    BY LenAssumption DEF Slots
  <1>2. CASE p + a < KEY_QUEUE_LEN
    <2>1. p + a \in 0 .. KEY_QUEUE_LEN - 1
      BY <1>1, <1>2
    <2>2. Slot(p, a) = p + a
      <3>1. PICK x \in 0 .. KEY_QUEUE_LEN - 1 : x = p + a
        BY <2>1
      <3>2. x % KEY_QUEUE_LEN = x
        BY <1>1
      <3>3. Slot(p, a) = x % KEY_QUEUE_LEN
        BY <3>1 DEF Slot
      <3> QED
        BY <1>1, <3>1, <3>2, <3>3
    <2> QED
      BY <1>2, <2>1, <2>2 DEF Slots
  <1>3. CASE ~(p + a < KEY_QUEUE_LEN)
    <2>1. p + a \in KEY_QUEUE_LEN .. 2 * KEY_QUEUE_LEN - 1
      BY <1>1, <1>3
    <2>2. Slot(p, a) = p + a - KEY_QUEUE_LEN
      <3>1. PICK x \in KEY_QUEUE_LEN .. 2 * KEY_QUEUE_LEN - 1 : x = p + a
        BY <2>1
      <3>2. x % KEY_QUEUE_LEN = x - KEY_QUEUE_LEN
        BY <1>1
      <3>3. Slot(p, a) = x % KEY_QUEUE_LEN
        BY <3>1 DEF Slot
      <3> QED
        BY <1>1, <3>1, <3>2, <3>3
    <2>3. p + a - KEY_QUEUE_LEN \in 0 .. KEY_QUEUE_LEN - 1
      BY <1>1, <2>1
    <2> QED
      BY <1>3, <2>2, <2>3 DEF Slots
  <1> QED
    BY <1>2, <1>3

\* Different places are different slots, until the ring closes.
LEMMA SlotsDiffer ==
  ASSUME NEW p \in Slots, NEW a \in 0 .. KEY_QUEUE_LEN - 1,
         NEW b \in 0 .. KEY_QUEUE_LEN - 1, a # b
  PROVE  Slot(p, a) # Slot(p, b)
  <1>1. KEY_QUEUE_LEN \in Nat \ {0} /\ p \in Nat /\ p < KEY_QUEUE_LEN
    BY LenAssumption DEF Slots
  <1>2. a \in 0 .. KEY_QUEUE_LEN /\ b \in 0 .. KEY_QUEUE_LEN
    BY <1>1
  <1>3. /\ Slot(p, a) = IF p + a < KEY_QUEUE_LEN THEN p + a ELSE p + a - KEY_QUEUE_LEN
        /\ Slot(p, b) = IF p + b < KEY_QUEUE_LEN THEN p + b ELSE p + b - KEY_QUEUE_LEN
    BY <1>2, SlotFacts
  <1> QED
    BY <1>1, <1>3

\* One place further is the next slot, counted from either end.
LEMMA SlotOfNext ==
  ASSUME NEW p \in Slots, NEW a \in 0 .. KEY_QUEUE_LEN - 1
  PROVE  /\ Slot(Slot(p, 1), a) = Slot(p, a + 1)
         /\ Slot(Slot(p, a), 1) = Slot(p, a + 1)
  <1>1. /\ KEY_QUEUE_LEN \in Nat \ {0} /\ p \in Nat /\ p < KEY_QUEUE_LEN
        /\ 1 \in 0 .. KEY_QUEUE_LEN /\ a \in 0 .. KEY_QUEUE_LEN
        /\ a + 1 \in 0 .. KEY_QUEUE_LEN
    BY LenAssumption DEF Slots
  <1>2. /\ Slot(p, 1) \in Slots /\ Slot(p, a) \in Slots
        /\ Slot(p, 1) = IF p + 1 < KEY_QUEUE_LEN THEN p + 1 ELSE p + 1 - KEY_QUEUE_LEN
        /\ Slot(p, a) = IF p + a < KEY_QUEUE_LEN THEN p + a ELSE p + a - KEY_QUEUE_LEN
    BY <1>1, SlotFacts
  <1>3. Slot(p, a + 1) = IF p + (a + 1) < KEY_QUEUE_LEN THEN p + (a + 1)
                         ELSE p + (a + 1) - KEY_QUEUE_LEN
    BY <1>1, SlotFacts
  <1>4. /\ Slot(Slot(p, 1), a) = IF Slot(p, 1) + a < KEY_QUEUE_LEN THEN Slot(p, 1) + a
                                 ELSE Slot(p, 1) + a - KEY_QUEUE_LEN
        /\ Slot(Slot(p, a), 1) = IF Slot(p, a) + 1 < KEY_QUEUE_LEN THEN Slot(p, a) + 1
                                 ELSE Slot(p, a) + 1 - KEY_QUEUE_LEN
    BY <1>1, <1>2, SlotFacts
  <1> QED
    BY <1>1, <1>2, <1>3, <1>4

\* Waiting keys are in order, younger than the announced one and already
\* typed; the input pointer is as many slots ahead as keys wait; and while X
\* events are handled, no key waits that could have been announced.
KeyboardInv ==
  /\ TypeOK
  /\ key_queue_optr = Slot(key_queue_iptr, Used)
  /\ NoOvertaking
  /\ \A i \in 1 .. Used : Waiting[i] <= typed
  /\ announced <= typed
  /\ pc = "events" /\ csr2 /\ ~csr5 => Used = 0
  /\ AnnouncedKeyStays /\ LatchedButtonAnnounced

WaitingShape ==
  /\ KEY_QUEUE_LEN \in Nat \ {0} /\ MaxKeys \in Nat
  /\ Used \in 0 .. KEY_QUEUE_LEN
  /\ key_queue_free = KEY_QUEUE_LEN - Used
  /\ Waiting \in [1 .. Used -> 0 .. MaxKeys]
  /\ \A i \in 1 .. Used : Waiting[i] = key_queue[Slot(key_queue_iptr, i - 1)]

LEMMA WaitingFacts == TypeOK => WaitingShape
  <1> SUFFICES ASSUME TypeOK PROVE WaitingShape
    OBVIOUS
  <1>1. /\ KEY_QUEUE_LEN \in Nat \ {0} /\ MaxKeys \in Nat
        /\ key_queue_free \in 0 .. KEY_QUEUE_LEN
    BY LenAssumption, MaxKeysAssumption DEF TypeOK
  <1>2. Used \in 0 .. KEY_QUEUE_LEN /\ key_queue_free = KEY_QUEUE_LEN - Used
    BY <1>1 DEF Used
  <1>3. ASSUME NEW i \in 1 .. Used
        PROVE  /\ (key_queue_iptr + i - 1) % KEY_QUEUE_LEN = Slot(key_queue_iptr, i - 1)
               /\ Slot(key_queue_iptr, i - 1) \in Slots
    <2>1. i - 1 \in 0 .. KEY_QUEUE_LEN /\ key_queue_iptr \in Slots
      BY <1>1, <1>2 DEF TypeOK
    <2>2. key_queue_iptr + i - 1 = key_queue_iptr + (i - 1)
      BY <1>1, <1>2, <2>1 DEF Slots
    <2> QED
      BY <2>1, <2>2, SlotFacts DEF Slot
  <1> QED
    BY <1>1, <1>2, <1>3 DEF WaitingShape, Waiting, TypeOK

LEMMA KeyboardStarts == Init => KeyboardInv
  <1> SUFFICES ASSUME Init PROVE KeyboardInv
    OBVIOUS
  <1>1. 0 \in Slots /\ KEY_QUEUE_LEN \in Nat \ {0} /\ 0 \in 0 .. MaxKeys
    BY LenAssumption, MaxKeysAssumption DEF Slots
  <1>2. Slot(0, 0) = 0
    BY <1>1, SlotFacts
  <1>3. TypeOK
    <2>1. key_queue \in [Slots -> 0 .. MaxKeys]
      BY <1>1 DEF Init, NoKey
    <2>2. key_queue_free \in 0 .. KEY_QUEUE_LEN
      BY <1>1 DEF Init
    <2> QED
      BY <1>1, <2>1, <2>2 DEF Init, TypeOK, NoKey
  <1>4. Used = 0
    BY <1>1 DEF Init, Used
  <1>5. DOMAIN Waiting = {}
    BY <1>3, <1>4, WaitingFacts DEF WaitingShape
  <1>6. NoOvertaking
    BY <1>5 DEF NoOvertaking
  <1> QED
    BY <1>1, <1>2, <1>3, <1>4, <1>6
    DEF Init, KeyboardInv, AnnouncedKeyStays, LatchedButtonAnnounced, NoKey

\* The register and the ring hold keys, and the pointers stay in the ring.
RegisterTyped ==
  kbd_key_scan \in 0 .. MaxKeys /\ csr5 \in BOOLEAN /\ announced \in 0 .. MaxKeys

RingTyped ==
  /\ key_queue \in [Slots -> 0 .. MaxKeys]
  /\ key_queue_optr \in Slots /\ key_queue_iptr \in Slots
  /\ key_queue_free \in 0 .. KEY_QUEUE_LEN

LEMMA NextSlotIsSlot == \A p \in Slots : (p + 1) % KEY_QUEUE_LEN \in Slots
  <1>1. 1 \in 0 .. KEY_QUEUE_LEN
    BY LenAssumption
  <1> QED
    BY <1>1, SlotFacts DEF Slot

LEMMA ShowTyped ==
  ASSUME TypeOK, NEW k \in 0 .. MaxKeys, Show(k) PROVE RegisterTyped'
  BY DEF TypeOK, Show, RegisterTyped

LEMMA QueueTyped ==
  ASSUME TypeOK, NEW k \in 0 .. MaxKeys, QueueKeyEvent(k) PROVE RingTyped'
  <1>1. CASE UNCHANGED ring
    BY <1>1 DEF TypeOK, RingTyped, ring
  <1>2. CASE key_queue_free > 0
    <2>1. key_queue_free - 1 \in 0 .. KEY_QUEUE_LEN
      BY <1>2, LenAssumption DEF TypeOK
    <2>2. [key_queue EXCEPT ![key_queue_optr] = k] \in [Slots -> 0 .. MaxKeys]
      BY DEF TypeOK
    <2> QED
      BY <1>2, <2>1, <2>2, NextSlotIsSlot DEF QueueKeyEvent, TypeOK, RingTyped
  <1> QED
    BY <1>1, <1>2 DEF QueueKeyEvent

LEMMA DequeueTyped ==
  ASSUME TypeOK, DequeueKeyEvent PROVE RingTyped' /\ RegisterTyped'
  <1>1. CASE UNCHANGED <<ring, kbd_key_scan, csr5, announced>>
    BY <1>1 DEF TypeOK, RingTyped, RegisterTyped, ring
  <1>2. CASE ~csr5 /\ key_queue_free < KEY_QUEUE_LEN
    <2>1. key_queue_free + 1 \in 0 .. KEY_QUEUE_LEN
      BY <1>2, LenAssumption DEF TypeOK
    <2>2. key_queue[key_queue_iptr] \in 0 .. MaxKeys
      BY DEF TypeOK
    <2>3. key_queue_free # KEY_QUEUE_LEN
      BY <1>2, LenAssumption DEF TypeOK
    <2> QED
      BY <1>2, <2>1, <2>2, <2>3, NextSlotIsSlot, ShowTyped
      DEF DequeueKeyEvent, TypeOK, RingTyped
  <1> QED
    BY <1>1, <1>2 DEF DequeueKeyEvent

LEMMA TypeKept == TypeOK /\ [Next]_vars => TypeOK'
  <1> SUFFICES ASSUME TypeOK, [Next]_vars PROVE TypeOK'
    OBVIOUS
  <1>1. CASE Poll
    BY <1>1, DequeueTyped DEF Poll, TypeOK, RingTyped, RegisterTyped, mouse
  <1>2. CASE KeyPress
    <2>1. typed + 1 \in 0 .. MaxKeys
      BY <1>2, MaxKeysAssumption DEF KeyPress, TypeOK
    <2>2. RingTyped' /\ RegisterTyped'
      <3>1. CASE csr5
        BY <1>2, <2>1, <3>1, QueueTyped
        DEF KeyPress, KbdKeyEvent, TypeOK, RegisterTyped
      <3>2. CASE ~csr5
        BY <1>2, <2>1, <3>2, ShowTyped
        DEF KeyPress, KbdKeyEvent, TypeOK, RingTyped, ring
      <3> QED
        BY <3>1, <3>2
    <2> QED
      BY <1>2, <2>1, <2>2
      DEF KeyPress, TypeOK, RingTyped, RegisterTyped, mouse, driver
  <1>3. CASE MouseEvent
    <2>1. buttons' \in SUBSET {"tail", "middle", "head"}
      BY <1>3 DEF MouseEvent, ButtonLatches, TypeOK
    <2> QED
      BY <1>3, <2>1 DEF MouseEvent, TypeOK, ring, driver
  <1>4. CASE EndOfEvents
    BY <1>4 DEF EndOfEvents, TypeOK, ring, driver, mouse
  <1>5. CASE ReadKbdLow
    BY <1>5 DEF ReadKbdLow, TypeOK, ring, mouse
  <1>6. CASE ReadKbdHigh
    <2>1. 0 \in 0 .. MaxKeys
      BY MaxKeysAssumption
    <2> QED
      BY <1>6, <2>1 DEF ReadKbdHigh, TypeOK, ring, mouse, NoKey
  <1>7. CASE ReadMouseY
    BY <1>7 DEF ReadMouseY, TypeOK, ring, driver
  <1>8. CASE WriteCsr
    BY <1>8 DEF WriteCsr, TypeOK, ring, driver, mouse
  <1>9. CASE UNCHANGED vars
    BY <1>9 DEF vars, TypeOK, ring, driver, mouse
  <1> QED
    BY <1>1, <1>2, <1>3, <1>4, <1>5, <1>6, <1>7, <1>8, <1>9 DEF Next

\* What a key that is queued, and one that is taken out, do to the ring.
LEMMA RingGrows ==
  ASSUME TypeOK, key_queue_optr = Slot(key_queue_iptr, Used), TypeOK',
         NEW k \in 0 .. MaxKeys, key_queue_free > 0, QueueKeyEvent(k)
  PROVE  /\ Used' = Used + 1
         /\ key_queue_optr' = Slot(key_queue_iptr', Used')
         /\ \A i \in 1 .. Used : Waiting'[i] = Waiting[i]
         /\ Waiting'[Used + 1] = k
  <1>0. WaitingShape /\ WaitingShape'
    BY WaitingFacts, PTL
  <1>1. /\ key_queue_free' = key_queue_free - 1
        /\ key_queue' = [key_queue EXCEPT ![key_queue_optr] = k]
        /\ key_queue_optr' = Slot(key_queue_optr, 1)
        /\ key_queue_iptr' = key_queue_iptr
    BY DEF QueueKeyEvent, TypeOK, Slot
  <1>2. key_queue_optr \in Slots /\ key_queue_iptr \in Slots
        /\ key_queue \in [Slots -> 0 .. MaxKeys]
    BY DEF TypeOK
  <1>3. /\ Used' = Used + 1
        /\ Used \in 0 .. KEY_QUEUE_LEN - 1 /\ KEY_QUEUE_LEN \in Nat \ {0}
    BY <1>1, <1>0 DEF WaitingShape, Used, TypeOK
  <1>4. key_queue_optr' = Slot(key_queue_iptr', Used')
    BY <1>1, <1>2, <1>3, SlotOfNext
  <1>5. ASSUME NEW i \in 1 .. Used'
        PROVE  Waiting'[i] = IF i = Used' THEN k ELSE Waiting[i]
    <2>1. /\ i - 1 \in 0 .. KEY_QUEUE_LEN - 1
          /\ i # Used' => i - 1 # Used /\ i \in 1 .. Used
          /\ i = Used' => i - 1 = Used
      BY <1>3
    <2>2. Waiting'[i] = key_queue'[Slot(key_queue_iptr, i - 1)]
      <3>1. \A n \in 1 .. Used' : Waiting'[n] = key_queue'[Slot(key_queue_iptr', n - 1)]
        BY <1>0 DEF WaitingShape
      <3> QED
        BY <1>1, <3>1
    <2>3. CASE i = Used'
      BY <1>1, <1>2, <2>1, <2>2, <2>3
    <2>4. CASE i # Used'
      <3>1. Slot(key_queue_iptr, i - 1) # Slot(key_queue_iptr, Used)
        BY <1>2, <1>3, <2>1, <2>4, SlotsDiffer
      <3>2. Slot(key_queue_iptr, i - 1) \in Slots
        BY <1>2, <1>3, <2>1, SlotFacts
      <3>3. Waiting[i] = key_queue[Slot(key_queue_iptr, i - 1)]
        BY <2>1, <2>4, <1>0 DEF WaitingShape
      <3> QED
        BY <1>1, <1>2, <2>2, <2>4, <3>1, <3>2, <3>3
    <2> QED
      BY <2>3, <2>4
  <1> QED
    BY <1>3, <1>4, <1>5

LEMMA RingShrinks ==
  ASSUME TypeOK, key_queue_optr = Slot(key_queue_iptr, Used), TypeOK',
         key_queue_free < KEY_QUEUE_LEN, ~csr5, DequeueKeyEvent
  PROVE  /\ Used > 0 /\ Used' = Used - 1
         /\ key_queue_optr' = Slot(key_queue_iptr', Used')
         /\ \A i \in 1 .. Used' : Waiting'[i] = Waiting[i + 1]
         /\ Show(Waiting[1])
  <1>0. WaitingShape /\ WaitingShape'
    BY WaitingFacts, PTL
  <1>1. /\ key_queue_iptr' = Slot(key_queue_iptr, 1)
        /\ key_queue_free' = key_queue_free + 1
        /\ Show(key_queue[key_queue_iptr])
        /\ key_queue' = key_queue /\ key_queue_optr' = key_queue_optr
    BY DEF DequeueKeyEvent, TypeOK, Slot
  <1>2. key_queue_iptr \in Slots
    BY DEF TypeOK
  <1>3. /\ Used' = Used - 1 /\ Used \in 1 .. KEY_QUEUE_LEN
        /\ KEY_QUEUE_LEN \in Nat \ {0}
    BY <1>1, <1>0 DEF WaitingShape, Used, TypeOK
  <1>4. Waiting[1] = key_queue[key_queue_iptr]
    <2>1. 1 \in 1 .. Used /\ 1 - 1 = 0 /\ 0 \in 0 .. KEY_QUEUE_LEN
      BY <1>3
    <2>2. Slot(key_queue_iptr, 0) = key_queue_iptr
      BY <1>2, <1>3, <2>1, SlotFacts DEF Slots
    <2> QED
      BY <2>1, <2>2, <1>0 DEF WaitingShape
  <1>5. key_queue_optr' = Slot(key_queue_iptr', Used')
    <2>1. Used - 1 \in 0 .. KEY_QUEUE_LEN - 1 /\ (Used - 1) + 1 = Used
      BY <1>3
    <2> QED
      BY <1>1, <1>2, <1>3, <2>1, SlotOfNext
  <1>6. ASSUME NEW i \in 1 .. Used' PROVE Waiting'[i] = Waiting[i + 1]
    <2>1. /\ i - 1 \in 0 .. KEY_QUEUE_LEN - 1 /\ (i - 1) + 1 = (i + 1) - 1
          /\ i + 1 \in 1 .. Used
      BY <1>3
    <2>2. Slot(Slot(key_queue_iptr, 1), i - 1) = Slot(key_queue_iptr, (i + 1) - 1)
      BY <1>2, <2>1, SlotOfNext
    <2>3. \A n \in 1 .. Used' : Waiting'[n] = key_queue'[Slot(key_queue_iptr', n - 1)]
      BY <1>0 DEF WaitingShape
    <2> QED
      BY <1>1, <2>1, <2>2, <2>3, <1>0 DEF WaitingShape
  <1> QED
    BY <1>1, <1>3, <1>4, <1>5, <1>6

LEMMA RingRests == UNCHANGED ring => Used' = Used /\ Waiting' = Waiting
  BY DEF ring, Used, Waiting

\* NoOvertaking, with the number of waiting keys for the domain.
InOrder ==
  /\ \A i, j \in 1 .. Used : i < j => Waiting[i] < Waiting[j]
  /\ \A i \in 1 .. Used : announced < Waiting[i] /\ Waiting[i] <= typed

LEMMA OrderIsNoOvertaking ==
  WaitingShape => (InOrder <=> /\ NoOvertaking
                               /\ \A i \in 1 .. Used : Waiting[i] <= typed)
  BY DEF WaitingShape, InOrder, NoOvertaking

\* A key is typed behind an announced one, or it is shown.
LEMMA KeyPressKeeps == KeyboardInv /\ TypeOK' /\ KeyPress => KeyboardInv'
  <1> SUFFICES ASSUME KeyboardInv, TypeOK', KeyPress PROVE KeyboardInv'
    OBVIOUS
  <1>1. WaitingShape /\ WaitingShape'
    BY WaitingFacts, PTL DEF KeyboardInv
  <1>2. InOrder
    BY <1>1, OrderIsNoOvertaking DEF KeyboardInv
  <1>3. /\ typed \in Nat /\ announced \in Nat /\ typed' = typed + 1
        /\ typed' \in 0 .. MaxKeys /\ announced <= typed /\ Used \in Nat
        /\ \A i \in 1 .. Used : Waiting[i] \in Nat
    <2>1. /\ typed \in Nat /\ announced \in Nat /\ typed' = typed + 1
          /\ typed' \in 0 .. MaxKeys /\ announced <= typed
      BY <1>1 DEF KeyPress, KeyboardInv, TypeOK
    <2>2. Used \in Nat /\ \A i \in 1 .. Used : Waiting[i] \in Nat
      BY <1>1 DEF WaitingShape
    <2> QED
      BY <2>1, <2>2
  <1>4. /\ csr2' = csr2 /\ pc = "events" /\ pc' = pc
        /\ buttons' = buttons /\ csr4' = csr4
        /\ LatchedButtonAnnounced /\ AnnouncedKeyStays
    BY DEF KeyPress, mouse, KeyboardInv
  <1>5. /\ InOrder' /\ key_queue_optr' = Slot(key_queue_iptr', Used')
        /\ announced' <= typed' /\ (csr2' /\ ~csr5' => Used' = 0)
        /\ AnnouncedKeyStays'
    <2>1. CASE csr5 /\ key_queue_free > 0
      <3>1. /\ QueueKeyEvent(typed + 1)
            /\ kbd_key_scan' = kbd_key_scan /\ csr5' = csr5 /\ announced' = announced
        BY <2>1 DEF KeyPress, KbdKeyEvent
      <3>2. /\ Used' = Used + 1
            /\ key_queue_optr' = Slot(key_queue_iptr', Used')
            /\ \A i \in 1 .. Used : Waiting'[i] = Waiting[i]
            /\ Waiting'[Used + 1] = typed + 1
        BY <1>3, <2>1, <3>1, RingGrows DEF KeyboardInv
      <3>3. ASSUME NEW i \in 1 .. Used'
            PROVE  /\ announced' < Waiting'[i] /\ Waiting'[i] <= typed'
                   /\ \A j \in 1 .. Used' : i < j => Waiting'[i] < Waiting'[j]
        <4>1. CASE i = Used + 1
          BY <1>3, <3>1, <3>2, <4>1
        <4>2. CASE i # Used + 1
          <5>1. /\ i \in 1 .. Used /\ Waiting'[i] = Waiting[i]
                /\ announced < Waiting[i] /\ Waiting[i] <= typed
            BY <1>2, <1>3, <3>2, <4>2 DEF InOrder
          <5>2. ASSUME NEW j \in 1 .. Used', i < j PROVE Waiting'[i] < Waiting'[j]
            <6>1. CASE j = Used + 1
              BY <1>3, <3>2, <5>1, <6>1
            <6>2. CASE j # Used + 1
              <7>1. j \in 1 .. Used
                BY <1>3, <3>2, <6>2
              <7> QED
                BY <1>2, <3>2, <5>1, <5>2, <7>1 DEF InOrder
            <6> QED
              BY <6>1, <6>2
          <5> QED
            BY <1>3, <3>1, <5>1, <5>2
        <4> QED
          BY <4>1, <4>2
      <3>4. InOrder'
        BY <3>3 DEF InOrder
      <3> QED
        BY <1>3, <1>4, <2>1, <3>1, <3>2, <3>4 DEF AnnouncedKeyStays
    <2>2. CASE csr5 /\ ~(key_queue_free > 0)
      <3>1. /\ UNCHANGED ring
            /\ kbd_key_scan' = kbd_key_scan /\ csr5' = csr5 /\ announced' = announced
        BY <2>2 DEF KeyPress, KbdKeyEvent, QueueKeyEvent
      <3>2. InOrder'
        BY <1>2, <1>3, <3>1, RingRests DEF InOrder
      <3> QED
        BY <1>3, <1>4, <2>2, <3>1, <3>2, RingRests
        DEF ring, KeyboardInv, AnnouncedKeyStays
    <2>3. CASE ~csr5
      <3>1. UNCHANGED ring /\ Show(typed + 1)
        BY <2>3 DEF KeyPress, KbdKeyEvent
      <3>2. CASE csr2
        <4>1. Used = 0 /\ Used' = 0
          BY <1>4, <2>3, <3>1, <3>2, RingRests DEF KeyboardInv
        <4>2. /\ announced' = typed' /\ kbd_key_scan' = announced'
          BY <1>3, <3>1, <3>2 DEF Show
        <4>3. InOrder'
          BY <4>1 DEF InOrder
        <4> QED
          BY <1>3, <3>1, <4>1, <4>2, <4>3 DEF ring, KeyboardInv, AnnouncedKeyStays
      <3>3. CASE ~csr2
        <4>1. announced' = announced /\ csr5' = FALSE
          BY <2>3, <3>1, <3>3 DEF Show, KeyboardInv, TypeOK
        <4>2. InOrder'
          BY <1>2, <1>3, <3>1, <4>1, RingRests DEF InOrder
        <4> QED
          BY <1>3, <1>4, <3>1, <3>3, <4>1, <4>2, RingRests
          DEF ring, KeyboardInv, AnnouncedKeyStays
      <3> QED
        BY <3>2, <3>3
    <2> QED
      BY <2>1, <2>2, <2>3
  <1>6. NoOvertaking' /\ (\A i \in 1 .. Used : Waiting[i] <= typed)'
    BY <1>1, <1>5, OrderIsNoOvertaking, PTL
  <1> QED
    BY <1>4, <1>5, <1>6 DEF KeyboardInv, LatchedButtonAnnounced

\* A poll takes the oldest key out, and announces it or drops it.
LEMMA PollKeeps == KeyboardInv /\ TypeOK' /\ Poll => KeyboardInv'
  <1> SUFFICES ASSUME KeyboardInv, TypeOK', Poll PROVE KeyboardInv'
    OBVIOUS
  <1>1. WaitingShape /\ WaitingShape'
    BY WaitingFacts, PTL DEF KeyboardInv
  <1>2. InOrder
    BY <1>1, OrderIsNoOvertaking DEF KeyboardInv
  <1>3. /\ typed \in Nat /\ announced \in Nat /\ typed' = typed
        /\ announced <= typed /\ Used \in Nat
        /\ \A i \in 1 .. Used : Waiting[i] \in Nat
    BY <1>1 DEF Poll, KeyboardInv, TypeOK, WaitingShape
  <1>4. /\ csr2' = csr2 /\ buttons' = buttons /\ csr4' = csr4
        /\ LatchedButtonAnnounced /\ AnnouncedKeyStays
    BY DEF Poll, mouse, KeyboardInv
  <1>5. /\ InOrder' /\ key_queue_optr' = Slot(key_queue_iptr', Used')
        /\ announced' <= typed' /\ (csr2' /\ ~csr5' => Used' = 0)
        /\ AnnouncedKeyStays'
    <2>1. CASE csr5 \/ key_queue_free = KEY_QUEUE_LEN
      <3>0. csr5 \/ ~(key_queue_free < KEY_QUEUE_LEN)
        BY <1>1, <2>1 DEF WaitingShape
      <3>1. /\ UNCHANGED ring
            /\ kbd_key_scan' = kbd_key_scan /\ csr5' = csr5 /\ announced' = announced
        BY <2>1, <3>0 DEF Poll, DequeueKeyEvent
      <3>2. InOrder'
        BY <1>2, <1>3, <3>1, RingRests DEF InOrder
      <3>3. ~csr5 => Used = 0
        BY <1>1, <2>1 DEF WaitingShape, Used
      <3> QED
        BY <1>3, <1>4, <2>1, <3>1, <3>2, <3>3, RingRests
        DEF ring, KeyboardInv, AnnouncedKeyStays
    <2>2. CASE ~csr5 /\ key_queue_free # KEY_QUEUE_LEN
      <3>1. key_queue_free < KEY_QUEUE_LEN
        BY <1>1, <2>2 DEF WaitingShape
      <3>2. /\ Used > 0 /\ Used' = Used - 1
            /\ key_queue_optr' = Slot(key_queue_iptr', Used')
            /\ \A i \in 1 .. Used' : Waiting'[i] = Waiting[i + 1]
            /\ Show(Waiting[1])
        BY <2>2, <3>1, RingShrinks DEF Poll, KeyboardInv
      <3>3. 1 \in 1 .. Used /\ \A i \in 1 .. Used' : i + 1 \in 1 .. Used /\ 1 < i + 1
        BY <1>3, <3>2
      <3>4. announced' \in {announced, Waiting[1]} /\ announced' <= typed'
        BY <1>2, <1>3, <3>2, <3>3 DEF Show, InOrder
      <3>5. ASSUME NEW i \in 1 .. Used'
            PROVE  /\ announced' < Waiting'[i] /\ Waiting'[i] <= typed'
                   /\ \A j \in 1 .. Used' : i < j => Waiting'[i] < Waiting'[j]
        <4>1. ASSUME NEW j \in 1 .. Used', i < j PROVE Waiting'[i] < Waiting'[j]
          <5>1. i + 1 < j + 1 /\ i + 1 \in 1 .. Used /\ j + 1 \in 1 .. Used
            BY <1>3, <3>2, <3>3, <4>1
          <5> QED
            BY <1>2, <3>2, <5>1 DEF InOrder
        <4>2. /\ i + 1 \in 1 .. Used /\ 1 \in 1 .. Used /\ 1 < i + 1
              /\ Waiting'[i] = Waiting[i + 1]
          BY <3>2, <3>3
        <4>3. /\ announced < Waiting[i + 1] /\ Waiting[i + 1] <= typed
              /\ Waiting[1] < Waiting[i + 1]
          BY <1>2, <4>2 DEF InOrder
        <4> QED
          BY <1>3, <3>4, <4>1, <4>2, <4>3
      <3>6. InOrder'
        BY <3>5 DEF InOrder
      <3>7. (csr2' /\ ~csr5' => Used' = 0) /\ AnnouncedKeyStays'
        BY <1>4, <2>2, <3>2 DEF Show, AnnouncedKeyStays, KeyboardInv, TypeOK
      <3> QED
        BY <3>2, <3>4, <3>6, <3>7
    <2> QED
      BY <2>1, <2>2
  <1>6. NoOvertaking' /\ (\A i \in 1 .. Used : Waiting[i] <= typed)'
    BY <1>1, <1>5, OrderIsNoOvertaking, PTL
  <1> QED
    BY <1>4, <1>5, <1>6 DEF KeyboardInv, LatchedButtonAnnounced

LEMMA KeyboardKept == KeyboardInv /\ [Next]_vars => KeyboardInv'
  <1> SUFFICES ASSUME KeyboardInv, [Next]_vars PROVE KeyboardInv'
    OBVIOUS
  <1>1. TypeOK'
    BY TypeKept DEF KeyboardInv
  <1>2. CASE KeyPress
    BY <1>1, <1>2, KeyPressKeeps
  <1>3. CASE Poll
    BY <1>1, <1>3, PollKeeps
  <1>4. ASSUME UNCHANGED <<ring, typed, announced>>
        PROVE  /\ NoOvertaking' /\ key_queue_optr' = Slot(key_queue_iptr', Used')
               /\ (\A i \in 1 .. Used : Waiting[i] <= typed)'
               /\ announced' <= typed' /\ Used' = Used
    BY <1>4, RingRests DEF ring, KeyboardInv, NoOvertaking
  <1>5. CASE MouseEvent
    BY <1>1, <1>4, <1>5
    DEF MouseEvent, KeyboardInv, AnnouncedKeyStays, LatchedButtonAnnounced
  <1>6. CASE EndOfEvents
    BY <1>1, <1>4, <1>6
    DEF EndOfEvents, KeyboardInv, AnnouncedKeyStays, LatchedButtonAnnounced, mouse
  <1>7. CASE ReadKbdLow \/ ReadKbdHigh
    BY <1>1, <1>4, <1>7
    DEF ReadKbdLow, ReadKbdHigh, KeyboardInv, AnnouncedKeyStays,
        LatchedButtonAnnounced, mouse
  <1>8. CASE ReadMouseY
    BY <1>1, <1>4, <1>8
    DEF ReadMouseY, KeyboardInv, AnnouncedKeyStays, LatchedButtonAnnounced
  <1>9. CASE WriteCsr
    BY <1>1, <1>4, <1>9
    DEF WriteCsr, KeyboardInv, AnnouncedKeyStays, LatchedButtonAnnounced, mouse
  <1>10. CASE UNCHANGED vars
    BY <1>1, <1>4, <1>10
    DEF vars, KeyboardInv, AnnouncedKeyStays, LatchedButtonAnnounced, mouse
  <1> QED
    BY <1>2, <1>3, <1>5, <1>6, <1>7, <1>8, <1>9, <1>10 DEF Next

LEMMA KeyboardHolds == Spec => []KeyboardInv
  BY KeyboardStarts, KeyboardKept, PTL DEF Spec

\* No key that is told to the software overtakes one that waits, though
\* kbd_key_event bypasses the queue when CSR<5> is clear (kbd.c:228-299).
THEOREM KeysKeepTheirOrder == Spec => []NoOvertaking
  <1>1. KeyboardInv => NoOvertaking
    BY DEF KeyboardInv
  <1> QED
    BY <1>1, KeyboardHolds, PTL

\* An announced key stays in the register until it is read, and a latched
\* button is announced (kbd.c, mouse.c, iob.c).
THEOREM AnnouncedIsThere == Spec => []AnnouncementsHold
  <1>1. KeyboardInv => AnnouncementsHold
    BY DEF KeyboardInv, AnnouncementsHold
  <1> QED
    BY <1>1, KeyboardHolds, PTL

\* Functions on 1 .. n as sequences.
LEMMA FunctionIsSequence ==
  ASSUME NEW S, NEW n \in Nat, NEW f \in [1 .. n -> S]
  PROVE  f \in Seq(S) /\ Len(f) = n
  <1>1. f \in Seq(S)
    BY SeqDef
  <1>2. Len(f) \in Nat /\ DOMAIN f = 1 .. Len(f) /\ DOMAIN f = 1 .. n
    BY <1>1, LenProperties
  <1> QED
    BY <1>1, <1>2

LEMMA LongerIsAppend ==
  ASSUME NEW S, NEW n \in Nat, NEW f \in [1 .. n -> S], NEW g \in [1 .. n + 1 -> S],
         NEW k \in S, \A i \in 1 .. n : g[i] = f[i], g[n + 1] = k
  PROVE  g = Append(f, k) /\ Len(f) = n
  <1>1. f \in Seq(S) /\ Len(f) = n
    BY FunctionIsSequence
  <1>2. n + 1 \in Nat
    OBVIOUS
  <1>3. g \in Seq(S) /\ Len(g) = n + 1
    BY <1>2, FunctionIsSequence
  <1>4. /\ Append(f, k) \in Seq(S) /\ Len(Append(f, k)) = n + 1
        /\ \A i \in 1 .. n : Append(f, k)[i] = f[i]
        /\ Append(f, k)[n + 1] = k
    BY <1>1, AppendProperties
  <1>5. \A i \in 1 .. n + 1 : i \in 1 .. n \/ i = n + 1
    OBVIOUS
  <1>6. \A i \in 1 .. Len(g) : g[i] = Append(f, k)[i]
    BY <1>3, <1>4, <1>5
  <1>7. Len(g) = Len(Append(f, k))
    BY <1>3, <1>4
  <1> QED
    BY <1>1, <1>3, <1>4, <1>6, <1>7, SeqEqual

LEMMA ShorterIsTail ==
  ASSUME NEW S, NEW n \in Nat \ {0}, NEW f \in [1 .. n -> S],
         NEW g \in [1 .. n - 1 -> S], \A i \in 1 .. n - 1 : g[i] = f[i + 1]
  PROVE  f # <<>> /\ Head(f) = f[1] /\ g = Tail(f)
  <1>1. f \in Seq(S) /\ Len(f) = n
    BY FunctionIsSequence
  <1>2. n - 1 \in Nat
    OBVIOUS
  <1>3. g \in Seq(S) /\ Len(g) = n - 1
    BY <1>2, FunctionIsSequence
  <1>4. f # <<>>
    BY <1>1, EmptySeq
  <1>5. /\ Tail(f) \in Seq(S) /\ Len(Tail(f)) = n - 1
        /\ \A i \in 1 .. n - 1 : Tail(f)[i] = f[i + 1]
    BY <1>1, <1>4, HeadTailProperties
  <1>6. g = Tail(f)
    BY <1>3, <1>5, SeqEqual
  <1>7. Head(f) = f[1]
    BY <1>1, <1>4
  <1> QED
    BY <1>4, <1>6, <1>7

\* The ring is the queue: initially, ...
LEMMA QueueStarts == Init => KQ!Init
  <1> SUFFICES ASSUME Init PROVE KQ!Init
    OBVIOUS
  <1>1. KeyboardInv
    BY KeyboardStarts
  <1>2. WaitingShape
    BY <1>1, WaitingFacts DEF KeyboardInv
  <1>3. Used = 0
    BY LenAssumption DEF Init, Used
  <1>4. Waiting \in Seq(0 .. MaxKeys) /\ Len(Waiting) = 0
    BY <1>2, <1>3, FunctionIsSequence DEF WaitingShape
  <1>5. Waiting = <<>>
    BY <1>4, EmptySeq
  <1> QED
    BY <1>5 DEF KQ!Init, Init

\* ... and in each step: a queued key is appended, ...
LEMMA QueuedIsPut ==
  ASSUME KeyboardInv, TypeOK', NEW k \in Keys, key_queue_free > 0, QueueKeyEvent(k),
         kbd_key_scan' = kbd_key_scan
  PROVE  KQ!Put(k)
  <1>1. WaitingShape /\ WaitingShape'
    BY WaitingFacts, PTL DEF KeyboardInv
  <1>2. k \in 0 .. MaxKeys
    BY <1>1 DEF Keys, WaitingShape
  <1>3. /\ Used' = Used + 1
        /\ \A i \in 1 .. Used : Waiting'[i] = Waiting[i]
        /\ Waiting'[Used + 1] = k
    BY <1>2, RingGrows DEF KeyboardInv
  <1>4. /\ Used \in Nat /\ Used < KEY_QUEUE_LEN
        /\ Waiting \in [1 .. Used -> 0 .. MaxKeys]
        /\ Waiting' \in [1 .. Used + 1 -> 0 .. MaxKeys]
    BY <1>1, <1>3 DEF WaitingShape
  <1>5. Waiting' = Append(Waiting, k) /\ Len(Waiting) = Used
    BY <1>2, <1>3, <1>4, LongerIsAppend
  <1> QED
    BY <1>4, <1>5 DEF KQ!Put

\* ... and a key taken out is its head.
LEMMA DequeuedIsAdvance ==
  ASSUME KeyboardInv, TypeOK', key_queue_free < KEY_QUEUE_LEN, ~csr5, DequeueKeyEvent
  PROVE  KQ!Advance
  <1>1. WaitingShape /\ WaitingShape'
    BY WaitingFacts, PTL DEF KeyboardInv
  <1>2. /\ Used > 0 /\ Used' = Used - 1
        /\ \A i \in 1 .. Used' : Waiting'[i] = Waiting[i + 1]
        /\ Show(Waiting[1])
    BY RingShrinks DEF KeyboardInv
  <1>3. /\ Used \in Nat \ {0}
        /\ Waiting \in [1 .. Used -> 0 .. MaxKeys]
        /\ Waiting' \in [1 .. Used - 1 -> 0 .. MaxKeys]
    BY <1>1, <1>2 DEF WaitingShape
  <1>4. Waiting # <<>> /\ Head(Waiting) = Waiting[1] /\ Waiting' = Tail(Waiting)
    BY <1>2, <1>3, ShorterIsTail
  <1> QED
    BY <1>2, <1>4 DEF KQ!Advance, Show

LEMMA QueueStep == KeyboardInv /\ [Next]_vars => [KQ!Next]_(KQ!qvars)
  <1> SUFFICES ASSUME KeyboardInv, [Next]_vars PROVE [KQ!Next]_(KQ!qvars)
    OBVIOUS
  <1>1. TypeOK'
    BY TypeKept DEF KeyboardInv
  <1>2. ASSUME UNCHANGED <<ring, kbd_key_scan>> PROVE UNCHANGED KQ!qvars
    BY <1>2, RingRests DEF KQ!qvars
  <1>3. CASE KeyPress
    <2>1. typed + 1 \in Keys
      BY <1>3, MaxKeysAssumption DEF KeyPress, KeyboardInv, TypeOK, Keys
    <2>2. CASE csr5 /\ key_queue_free > 0
      <3>1. QueueKeyEvent(typed + 1) /\ kbd_key_scan' = kbd_key_scan
        BY <1>3, <2>2 DEF KeyPress, KbdKeyEvent
      <3> QED
        BY <1>1, <2>1, <2>2, <3>1, QueuedIsPut DEF KQ!Next
    <2>3. CASE csr5 /\ ~(key_queue_free > 0)
      BY <1>2, <1>3, <2>3 DEF KeyPress, KbdKeyEvent, QueueKeyEvent
    <2>4. CASE ~csr5
      <3>1. UNCHANGED ring /\ kbd_key_scan' = typed + 1
        BY <1>3, <2>4 DEF KeyPress, KbdKeyEvent, Show
      <3>2. KQ!Show(typed + 1)
        BY <3>1, RingRests DEF KQ!Show
      <3> QED
        BY <2>1, <3>2 DEF KQ!Next
    <2> QED
      BY <2>2, <2>3, <2>4
  <1>4. CASE Poll
    <2>1. CASE ~csr5 /\ key_queue_free < KEY_QUEUE_LEN
      BY <1>1, <1>4, <2>1, DequeuedIsAdvance DEF Poll, KQ!Next
    <2>2. CASE ~(~csr5 /\ key_queue_free < KEY_QUEUE_LEN)
      BY <1>2, <1>4, <2>2 DEF Poll, DequeueKeyEvent
    <2> QED
      BY <2>1, <2>2
  <1>5. CASE MouseEvent \/ EndOfEvents \/ ReadKbdLow \/ ReadKbdHigh
             \/ ReadMouseY \/ WriteCsr \/ UNCHANGED vars
    BY <1>2, <1>5
    DEF MouseEvent, EndOfEvents, ReadKbdLow, ReadKbdHigh, ReadMouseY, WriteCsr, vars
  <1> QED
    BY <1>3, <1>4, <1>5 DEF Next

\* The ring buffer and its pointers (kbd.c:223-299) are a first-in first-out
\* queue in front of the scan register.
THEOREM RingImplementsQueue == Spec => ImplementsKeyQueue
  <1> QED
    BY QueueStarts, QueueStep, KeyboardHolds, PTL
    DEF Spec, ImplementsKeyQueue, KQ!Spec

-----------------------------------------------------------------------------
(***************************************************************************)
(* The window.                                                             *)
(***************************************************************************)
\* Whatever is stale is in the rectangle or about to be exposed; the rectangle
\* has natural bounds.
ConsoleInv ==
  /\ u \in [minh : Nat, maxh : Nat, minv : Nat, maxv : Nat]
  /\ stale \subseteq Cells
  /\ StaleCovered

LEMMA ScreenFacts ==
  /\ Infinity \in Nat /\ Columns < Infinity /\ Lines < Infinity
  /\ \A c \in Cells : c[1] \in 0 .. Columns - 1 /\ c[2] \in 0 .. Lines - 1
  BY ScreenAssumption DEF Infinity, Cells

LEMMA WindowStarts == ConsoleInit => ConsoleInv
  BY ScreenFacts DEF ConsoleInit, ConsoleInv, StaleCovered, Nothing

\* Drawing adds the cell to the rectangle and keeps what is in it.
LEMMA RectangleGrows ==
  ASSUME ConsoleInv, NEW c \in Cells, AccumulateUpdate(c[1], c[2])
  PROVE  /\ u' \in [minh : Nat, maxh : Nat, minv : Nat, maxv : Nat]
         /\ Pending \cup {c} \subseteq Pending'
  <1>1. /\ u.minh \in Nat /\ u.maxh \in Nat /\ u.minv \in Nat /\ u.maxv \in Nat
        /\ c[1] \in Nat /\ c[2] \in Nat
    BY ScreenFacts, ScreenAssumption DEF ConsoleInv
  <1>2. /\ u'.minh = Smaller(c[1], u.minh) /\ u'.maxh = Larger(c[1] + 1, u.maxh)
        /\ u'.minv = Smaller(c[2], u.minv) /\ u'.maxv = Larger(c[2] + 1, u.maxv)
    BY DEF AccumulateUpdate
  <1>3. u' \in [minh : Nat, maxh : Nat, minv : Nat, maxv : Nat]
    BY <1>1 DEF AccumulateUpdate, Smaller, Larger
  <1>4. ASSUME NEW d \in Cells,
               d = c \/ (d[1] \in u.minh .. u.maxh - 1 /\ d[2] \in u.minv .. u.maxv - 1)
        PROVE  d[1] \in u'.minh .. u'.maxh - 1 /\ d[2] \in u'.minv .. u'.maxv - 1
    <2>1. d[1] \in Nat /\ d[2] \in Nat
      BY ScreenFacts, ScreenAssumption
    <2>2. /\ u'.minh <= d[1] /\ d[1] < u'.maxh
          /\ u'.minv <= d[2] /\ d[2] < u'.maxv
      BY <1>1, <1>2, <1>4, <2>1 DEF Smaller, Larger
    <2>3. u'.minh \in Nat /\ u'.maxh \in Nat /\ u'.minv \in Nat /\ u'.maxv \in Nat
      BY <1>3
    <2> QED
      BY <2>1, <2>2, <2>3
  <1> QED
    BY <1>3, <1>4 DEF Pending

\* A rectangle with a cell in it is not taken for an empty one.
LEMMA RectangleIsPut ==
  ASSUME ConsoleInv, NEW c \in Pending
  PROVE  u.minh # Infinity /\ u.minv # Infinity /\ u.maxh # 0 /\ u.maxv # 0
  <1>1. /\ c \in Cells
        /\ c[1] \in u.minh .. u.maxh - 1 /\ c[2] \in u.minv .. u.maxv - 1
    BY DEF Pending
  <1>2. u.minh \in Nat /\ u.maxh \in Nat /\ u.minv \in Nat /\ u.maxv \in Nat
    BY DEF ConsoleInv
  <1>3. c[1] < Columns /\ c[2] < Lines /\ c[1] \in Nat /\ c[2] \in Nat
    BY <1>1, ScreenFacts, ScreenAssumption
  <1> QED
    BY <1>1, <1>2, <1>3, ScreenFacts, ScreenAssumption

LEMMA WindowKept == ConsoleInv /\ [ConsoleNext]_consoleVars => ConsoleInv'
  <1> SUFFICES ASSUME ConsoleInv, [ConsoleNext]_consoleVars PROVE ConsoleInv'
    OBVIOUS
  <1>1. ASSUME NEW c \in Cells, TvWrite(c)
        PROVE  ConsoleInv'
    <2>1. /\ stale' \subseteq stale \cup {c}
          /\ exposed' = exposed
          /\ AccumulateUpdate(c[1], c[2])
      BY <1>1 DEF TvWrite
    <2>2. /\ u' \in [minh : Nat, maxh : Nat, minv : Nat, maxv : Nat]
          /\ Pending \cup {c} \subseteq Pending'
      BY <2>1, RectangleGrows
    <2> QED
      BY <2>1, <2>2 DEF ConsoleInv, StaleCovered
  <1>2. CASE PollConsole
    <2>1. /\ u' = Nothing /\ exposed' = exposed /\ stale' \subseteq stale
      BY <1>2 DEF PollConsole, SendAccumulatedUpdates
    <2>2. u' \in [minh : Nat, maxh : Nat, minv : Nat, maxv : Nat]
      BY <2>1, ScreenFacts DEF Nothing
    <2>3. ~exposed => stale' = {}
      <3>1. CASE stale = {}
        BY <2>1, <3>1
      <3>2. CASE ~exposed /\ stale # {}
        <4>1. PICK c \in stale : TRUE
          BY <3>2
        <4>2. stale \subseteq Pending /\ c \in Pending
          BY <3>2, <4>1 DEF ConsoleInv, StaleCovered
        <4>3. stale' = stale \ Pending
          BY <1>2, <4>2, RectangleIsPut DEF PollConsole, SendAccumulatedUpdates
        <4> QED
          BY <4>2, <4>3
      <3> QED
        BY <3>1, <3>2
    <2> QED
      BY <2>1, <2>2, <2>3 DEF ConsoleInv, StaleCovered
  <1>3. CASE Damage
    BY <1>3 DEF Damage, ConsoleInv, StaleCovered
  <1>4. CASE Expose
    BY <1>4 DEF Expose, ConsoleInv, StaleCovered
  <1>5. CASE UNCHANGED window
    BY <1>5 DEF window, ConsoleInv, StaleCovered, Pending
  <1> QED
    BY <1>1, <1>2, <1>3, <1>4, <1>5
    DEF ConsoleNext, EndOfConsoleEvents, KeyboardOnly, consoleVars

\* Every cell the window does not show as it is lies in the rectangle that the
\* next poll puts, or an Expose event is on its way (x11.c:219-251).
THEOREM NothingStaleForgotten ==
  ConsoleInit /\ [][ConsoleNext]_consoleVars => []StaleCovered
  <1>1. ConsoleInv => StaleCovered
    BY DEF ConsoleInv
  <1> QED
    BY <1>1, WindowStarts, WindowKept, PTL

-----------------------------------------------------------------------------
(***************************************************************************)
(* The clock.                                                              *)
(***************************************************************************)
Times == [s : Nat, us : 0 .. Second - 1]
LowHalf == [half : Nat, at : Nat, alone : BOOLEAN]

\* The latch holds the time of the latest read of the low half, and a reader
\* holds the low half of a time that is not later, and the same if nobody read
\* in between.
ClockInv ==
  /\ clock \in Times /\ clock.s > 0
  /\ tv \in Times
  /\ tv.s > 0 => Ticks(tv) <= Ticks(clock)
  /\ cv \in Nat /\ cv <= Elapsed
  /\ result \in [count : Nat, from : Nat, latched : Nat, alone : BOOLEAN]
  /\ result.latched = cv
  /\ low \in [Readers -> LowHalf \cup {None}]
  /\ \A r \in Readers :
       low[r] # None => /\ low[r] \in LowHalf
                        /\ low[r].half = low[r].at % Half /\ low[r].at <= cv
                        /\ low[r].alone => low[r].at = cv
  /\ ClockReadsTime

LEMMA TicksFacts ==
  ASSUME NEW t \in Times
  PROVE  /\ t.s \in Nat /\ t.us \in Nat /\ t.us < Second /\ Second \in Nat \ {0}
         /\ Ticks(t) = t.s * Second + t.us /\ t.s * Second \in Nat
         /\ Ticks(t) \in Nat
  <1>1. t.s \in Nat /\ t.us \in Nat /\ t.us < Second /\ Second \in Nat \ {0}
    BY ClockAssumption DEF Times
  <1>2. t.s * Second \in Nat
    BY <1>1
  <1> QED
    BY <1>1, <1>2 DEF Ticks

\* The borrow of get_us_clock is right.
LEMMA ClockSubtracts ==
  ASSUME clock \in Times, tv \in Times PROVE GetUsClock = Elapsed
  <1> DEFINE s == clock.s
             t == tv.s
             a == clock.us
             b == tv.us
  <1>1. /\ s \in Nat /\ t \in Nat /\ a \in Nat /\ b \in Nat /\ Second \in Nat
        /\ Ticks(clock) = s * Second + a /\ Ticks(tv) = t * Second + b
    BY TicksFacts
  <1>2. GetUsClock = IF t = 0 THEN 0
                     ELSE IF a < b THEN ((s - 1) - t) * Second + ((a + Second) - b)
                     ELSE (s - t) * Second + (a - b)
    BY DEF GetUsClock
  <1>3. Elapsed = IF t = 0 THEN 0 ELSE (s * Second + a) - (t * Second + b)
    BY <1>1 DEF Elapsed
  <1> HIDE DEF s, t, a, b
  <1>4. /\ (s - t) * Second = s * Second - t * Second
        /\ ((s - 1) - t) * Second = s * Second - Second - t * Second
        /\ s * Second \in Int /\ t * Second \in Int
    <2>1. s - 1 \in Int
      BY <1>1
    <2>2. /\ (s - t) * Second = s * Second - t * Second
          /\ s * Second \in Int /\ t * Second \in Int
          /\ (s - 1) * Second = s * Second - Second
      BY <1>1, DifferenceTimes
    <2>3. ((s - 1) - t) * Second = (s - 1) * Second - t * Second
      BY <1>1, <2>1, DifferenceTimes
    <2> QED
      BY <1>1, <2>2, <2>3
  <1> QED
    BY <1>1, <1>2, <1>3, <1>4

LEMMA ClockStarts == ClockInit => ClockInv
  <1> SUFFICES ASSUME ClockInit PROVE ClockInv
    OBVIOUS
  <1>1. 0 \in 0 .. Second - 1 /\ Half \in Nat \ {0}
    BY ClockAssumption
  <1>2. clock \in Times /\ clock.s > 0 /\ tv \in Times /\ tv.s = 0
    BY <1>1 DEF ClockInit, Times
  <1>3. Elapsed = 0
    BY <1>2 DEF Elapsed
  <1>4. \A r \in Readers : low[r] = None
    BY DEF ClockInit
  <1>5. /\ result \in [count : Nat, from : Nat, latched : Nat, alone : BOOLEAN]
        /\ ClockReadsTime /\ cv = 0 /\ result.latched = 0
    BY <1>1 DEF ClockInit, ClockReadsTime
  <1> QED
    BY <1>2, <1>3, <1>4, <1>5 DEF ClockInv, ClockInit

LEMMA PassKeeps == ClockInv /\ Pass => ClockInv'
  <1> SUFFICES ASSUME ClockInv, Pass PROVE ClockInv'
    OBVIOUS
  <1>1. /\ tv' = tv /\ cv' = cv /\ low' = low /\ result' = result
    BY DEF Pass
  <1>2. clock' \in Times /\ clock'.s > 0 /\ Ticks(clock') = Ticks(clock) + 1
    <2>1. /\ clock \in Times /\ clock.s \in Nat /\ clock.us \in 0 .. Second - 1
          /\ Second \in Nat \ {0} /\ clock.s > 0
      BY ClockAssumption DEF ClockInv, Times
    <2>2. CASE clock.us = Second - 1
      <3>1. clock' = [s |-> clock.s + 1, us |-> 0]
        BY <2>2 DEF Pass
      <3>2. clock' \in Times /\ clock'.s = clock.s + 1 /\ clock'.us = 0
        BY <2>1, <3>1 DEF Times
      <3>3. (clock.s + 1) * Second = clock.s * Second + Second /\ clock.s * Second \in Int
        BY <2>1, DifferenceTimes
      <3> QED
        BY <2>1, <2>2, <3>2, <3>3 DEF Ticks
    <2>3. CASE clock.us # Second - 1
      <3>1. clock' = [clock EXCEPT !.us = clock.us + 1] /\ clock.us + 1 \in 0 .. Second - 1
        BY <2>1, <2>3 DEF Pass
      <3>2. clock' \in Times /\ clock'.s = clock.s /\ clock'.us = clock.us + 1
        BY <2>1, <3>1 DEF Times
      <3>3. clock.s * Second \in Int
        BY <2>1
      <3> QED
        BY <2>1, <3>2, <3>3 DEF Ticks
    <2> QED
      BY <2>2, <2>3
  <1>3. Ticks(clock) \in Nat /\ Ticks(tv) \in Nat
    BY TicksFacts DEF ClockInv
  <1>4. cv <= Elapsed'
    BY <1>1, <1>2, <1>3 DEF ClockInv, Elapsed
  <1>5. tv'.s > 0 => Ticks(tv') <= Ticks(clock')
    BY <1>1, <1>2, <1>3 DEF ClockInv
  <1> QED
    BY <1>1, <1>2, <1>4, <1>5 DEF ClockInv, ClockReadsTime

\* A read of the low half makes the latch current, and others no longer alone.
LEMMA LowReadKeeps ==
  ASSUME ClockInv, NEW r \in Readers, ReadClockLow(r) PROVE ClockInv'
  <1> DEFINE now == Elapsed
  <1>1. /\ clock' = clock /\ cv' = now /\ tv' = IF tv.s = 0 THEN clock ELSE tv
        /\ result' = [result EXCEPT !.latched = now]
    BY ClockSubtracts DEF ReadClockLow, ClockInv
  <1>2. /\ now \in Nat /\ cv \in Nat /\ cv <= now
        /\ Ticks(clock) \in Nat /\ Half \in Nat \ {0}
    BY TicksFacts, ClockAssumption DEF ClockInv, Elapsed
  <1>3. /\ clock' \in Times /\ clock'.s > 0 /\ tv' \in Times
        /\ tv'.s > 0 => Ticks(tv') <= Ticks(clock')
    BY <1>1, <1>2 DEF ClockInv
  <1>4. cv' <= Elapsed'
    <2>1. CASE tv.s = 0
      <3>1. now = 0 /\ tv' = clock
        BY <1>1, <2>1 DEF Elapsed
      <3>2. Elapsed' = Ticks(clock') - Ticks(tv')
        BY <1>1, <1>3, <3>1 DEF Elapsed, ClockInv
      <3> QED
        BY <1>1, <1>2, <3>1, <3>2
    <2>2. CASE tv.s # 0
      BY <1>1, <1>2, <2>2 DEF Elapsed
    <2> QED
      BY <2>1, <2>2
  <1>5. ASSUME NEW q \in Readers
        PROVE  /\ low'[q] \in LowHalf \cup {None}
               /\ low'[q] # None => /\ low'[q] \in LowHalf
                                    /\ low'[q].half = low'[q].at % Half /\ low'[q].at <= cv'
                                    /\ low'[q].alone => low'[q].at = cv'
    <2>1. CASE q = r
      <3>1. low'[q] = [half |-> now % Half, at |-> now, alone |-> TRUE]
        BY <1>1, <2>1 DEF ReadClockLow
      <3>2. now % Half \in Nat
        BY <1>2, DivFacts
      <3> QED
        BY <1>1, <1>2, <3>1, <3>2 DEF LowHalf
    <2>2. CASE q # r /\ low[q] = None
      BY <2>2 DEF ReadClockLow
    <2>3. CASE q # r /\ low[q] # None
      <3>1. low'[q] = [low[q] EXCEPT !.alone = FALSE]
        BY <2>3 DEF ReadClockLow
      <3>2. low[q] \in LowHalf /\ low[q].half = low[q].at % Half /\ low[q].at <= cv
        BY <2>3 DEF ClockInv
      <3>3. /\ low'[q] \in LowHalf /\ low'[q].half = low[q].half /\ low'[q].at = low[q].at
            /\ low'[q].alone = FALSE /\ low[q].at \in Nat
        BY <3>1, <3>2 DEF LowHalf
      <3>4. low'[q].at <= cv'
        BY <1>1, <1>2, <3>2, <3>3
      <3> QED
        BY <3>2, <3>3, <3>4
    <2> QED
      BY <2>1, <2>2, <2>3
  <1>6. low' \in [Readers -> LowHalf \cup {None}]
    BY <1>5 DEF ReadClockLow
  <1>7. /\ result' \in [count : Nat, from : Nat, latched : Nat, alone : BOOLEAN]
        /\ result'.latched = now /\ result'.count = result.count
        /\ result'.from = result.from /\ result'.alone = result.alone
    BY <1>1, <1>2 DEF ClockInv
  <1>8. ClockReadsTime'
    <2>1. /\ result.count \in Nat /\ result.latched = cv /\ ClockReadsTime
      BY DEF ClockInv
    <2> QED
      BY <1>2, <1>7, <2>1 DEF ClockReadsTime
  <1> QED
    BY <1>1, <1>2, <1>3, <1>4, <1>5, <1>6, <1>7, <1>8 DEF ClockInv

\* A later latch has a high half that is not smaller.
LEMMA HighReadKeeps ==
  ASSUME ClockInv, NEW r \in Readers, ReadClockHigh(r) PROVE ClockInv'
  <1> DEFINE at == low[r].at
             count == ((cv \div Half) * Half) + (at % Half)
  <1>1. /\ clock' = clock /\ cv' = cv /\ tv' = tv
        /\ low' = [low EXCEPT ![r] = None]
        /\ low[r] \in LowHalf /\ low[r].half = at % Half /\ at <= cv
        /\ low[r].alone => at = cv
    BY DEF ReadClockHigh, ClockInv
  <1>2. /\ at \in Nat /\ cv \in Nat /\ Half \in Nat \ {0}
        /\ low[r].alone \in BOOLEAN
    BY <1>1, ClockAssumption DEF ClockInv, LowHalf
  <1>3. result' = [count |-> count, from |-> at, latched |-> cv, alone |-> low[r].alone]
    BY <1>1 DEF ReadClockHigh, ClockInv
  <1> HIDE DEF at
  <1>4. PICK p \in Nat, b \in 0 .. Half - 1 : cv \div Half = p /\ cv = p * Half + b
                                               /\ cv % Half = b
    BY <1>2, DivFacts
  <1>5. PICK q \in Nat, c \in 0 .. Half - 1 : at \div Half = q /\ at = q * Half + c
                                               /\ at % Half = c
    BY <1>2, DivFacts
  <1>6. q <= p
    BY <1>1, <1>2, <1>4, <1>5, DivMonotone
  <1>7. q * Half <= p * Half /\ q * Half \in Nat /\ p * Half \in Nat
    BY <1>2, <1>6, ProductMonotone
  <1>8. /\ count = p * Half + c /\ count \in Nat
        /\ count >= at /\ count < cv + Half
        /\ at = cv => count = at
    <2>1. count = p * Half + c
      BY <1>4, <1>5
    <2>2. at = cv => c = b
      BY <1>4, <1>5
    <2> HIDE DEF count
    <2> QED
      BY <1>2, <1>4, <1>5, <1>7, <2>1, <2>2
  <1> HIDE DEF count
  <1>9. /\ result' \in [count : Nat, from : Nat, latched : Nat, alone : BOOLEAN]
        /\ ClockReadsTime' /\ result'.latched = cv'
    BY <1>1, <1>2, <1>3, <1>8 DEF ClockReadsTime
  <1>10. /\ low' \in [Readers -> LowHalf \cup {None}]
         /\ \A q1 \in Readers : low'[q1] = IF q1 = r THEN None ELSE low[q1]
    BY <1>1 DEF ClockInv
  <1>11. Elapsed' = Elapsed
    BY <1>1 DEF Elapsed
  <1> QED
    BY <1>1, <1>9, <1>10, <1>11 DEF ClockInv

\* A count put together from the halves of the latch is never behind, and right
\* if nobody else read the clock (iob.c:27-70).
THEOREM ClockIsRight == ClockInit /\ [][ClockNext]_clockVars => []ClockReadsTime
  <1>1. ClockInv /\ [ClockNext]_clockVars => ClockInv'
    <2>1. CASE UNCHANGED clockVars
      BY <2>1 DEF clockVars, ClockInv, ClockReadsTime, Elapsed
    <2> QED
      BY <2>1, PassKeeps, LowReadKeeps, HighReadKeeps DEF ClockNext
  <1>2. ClockInv => ClockReadsTime
    BY DEF ClockInv
  <1> QED
    BY <1>1, <1>2, ClockStarts, PTL

-----------------------------------------------------------------------------
(***************************************************************************)
(* The mouse.                                                              *)
(***************************************************************************)
\* After one event the counter is ahead by the distance from cursor to pointer.
MouseInv ==
  /\ mouse_x \in 0 .. Modulus - 1 /\ looked \in 0 .. Modulus - 1
  /\ pointer \in Positions /\ cursor \in Positions
  /\ untracked \in Nat
  /\ untracked = 0 => mouse_x = looked
  /\ untracked = 1 => mouse_x = (looked + pointer - cursor) % Modulus

LEMMA ModRange ==
  ASSUME NEW n \in Nat \ {0}, NEW x \in Int PROVE x % n \in 0 .. n - 1
  OBVIOUS

\* The counter wraps at most once, and so does the difference taken back.
LEMMA DifferenceSurvives ==
  ASSUME NEW n \in Nat \ {0}, NEW a \in 0 .. n - 1, NEW d \in 1 - n .. n - 1,
         NEW x \in Int, x = a + d, NEW m, m = x % n, NEW y, y = m - a
  PROVE  y % n = IF d >= 0 THEN d ELSE d + n
  <1>1. m = IF x < 0 THEN x + n ELSE IF x >= n THEN x - n ELSE x
    <2>1. x \in 0 .. n - 1 \/ x \in n .. 2 * n - 1 \/ x \in -n .. -1
      OBVIOUS
    <2>2. /\ x \in 0 .. n - 1 => x % n = x
          /\ x \in n .. 2 * n - 1 => x % n = x - n
          /\ x \in -n .. -1 => x % n = x + n
      BY ModFacts
    <2> QED
      BY <2>1, <2>2
  <1>2. y \in Int /\ (y = d \/ y = d + n \/ y = d - n) /\ y \in 1 - n .. n - 1
    BY <1>1
  <1>3. y % n = IF y >= 0 THEN y ELSE y + n
    <2>1. y \in 0 .. n - 1 \/ y \in -n .. -1
      BY <1>2
    <2>2. /\ y \in 0 .. n - 1 => y % n = y
          /\ y \in -n .. -1 => y % n = y + n
      BY <1>2, ModFacts
    <2> QED
      BY <2>1, <2>2
  <1> QED
    BY <1>2, <1>3

LEMMA MouseStarts == MouseInit => MouseInv
  BY MouseAssumption DEF MouseInit, MouseInv, Positions

LEMMA MoveKeeps == MouseInv /\ MouseMoves => MouseInv'
  <1> SUFFICES ASSUME MouseInv, MouseMoves PROVE MouseInv'
    OBVIOUS
  <1>1. /\ pointer' \in Positions /\ cursor' = cursor /\ looked' = looked
        /\ untracked' = untracked + 1 /\ untracked \in Nat
        /\ mouse_x' = (mouse_x + pointer' - cursor) % Modulus
    BY DEF MouseMoves, Moved, MouseInv
  <1>2. mouse_x + pointer' - cursor \in Int /\ Modulus \in Nat \ {0}
    BY <1>1, MouseAssumption DEF MouseInv, Positions
  <1>3. mouse_x' \in 0 .. Modulus - 1
    BY <1>1, <1>2, ModRange
  <1>4. untracked' \in Nat /\ untracked' # 0 /\ (untracked' = 1 => untracked = 0)
    BY <1>1
  <1>5. untracked' = 1 => mouse_x' = (looked' + pointer' - cursor') % Modulus
    BY <1>1, <1>4 DEF MouseInv
  <1> QED
    BY <1>1, <1>3, <1>4, <1>5 DEF MouseInv

LEMMA TrackKeeps == MouseInv /\ Track => MouseInv'
  <1> SUFFICES ASSUME MouseInv, Track PROVE MouseInv'
    OBVIOUS
  <1>1. (mouse_x - looked) % Modulus \in 0 .. Modulus - 1
    BY MouseAssumption, ModRange DEF MouseInv
  <1>2. PICK n \in 0 .. Modulus - 1 : n = (mouse_x - looked) % Modulus
    BY <1>1
  <1>3. Signed(n) \in Int
    BY MouseAssumption DEF Signed
  <1>4. cursor + Signed(n) \in Int
    BY <1>3, MouseAssumption DEF MouseInv, Positions
  <1>5. cursor' \in Positions
    BY <1>2, <1>4, MouseAssumption DEF Track, OnScreen, Positions
  <1> QED
    BY <1>5 DEF Track, MouseInv

LEMMA TrackFinds == MouseInv /\ Track /\ untracked = 1 => cursor' = pointer'
  <1> SUFFICES ASSUME MouseInv, Track, untracked = 1 PROVE cursor' = pointer
    BY DEF Track
  <1> DEFINE d == pointer - cursor
             x == looked + d
             y == mouse_x - looked
  <1>1. /\ Width \in Nat \ {0} /\ Modulus \in Nat \ {0} /\ Modulus >= 2 * Width
        /\ pointer \in 0 .. Width - 1 /\ cursor \in 0 .. Width - 1
        /\ looked \in 0 .. Modulus - 1
    BY MouseAssumption DEF MouseInv, Positions
  <1>2. /\ d \in 1 - Modulus .. Modulus - 1 /\ d \in 1 - Width .. Width - 1 /\ x \in Int
    BY <1>1
  <1>3. mouse_x = x % Modulus
    <2>1. looked + pointer - cursor = x
      BY <1>1
    <2> QED
      BY <2>1 DEF MouseInv
  <1> HIDE DEF d
  <1>4. y % Modulus = IF d >= 0 THEN d ELSE d + Modulus
    BY <1>1, <1>2, <1>3, DifferenceSurvives
  <1>5. PICK h \in Nat : h = Modulus \div 2 /\ Width <= h /\ 2 * h <= Modulus
    BY <1>1
  <1>6. Signed(y % Modulus) = d
    <2>1. PICK n \in Int : n = y % Modulus /\ n = IF d >= 0 THEN d ELSE d + Modulus
      BY <1>1, <1>2, <1>4
    <2> QED
      BY <1>1, <1>2, <1>5, <2>1 DEF Signed
  <1>7. cursor + d = pointer
    BY <1>1 DEF d
  <1>8. cursor' = OnScreen(cursor + Signed(y % Modulus))
    BY DEF Track
  <1> QED
    BY <1>1, <1>6, <1>7, <1>8 DEF OnScreen

\* One event is tracked exactly, through every wrap of the counter, and leaves
\* the cursor under the pointer (mouse.c:19-49).
THEOREM CursorComesToPointer == MouseInit /\ [][MouseNext]_mouseVars => CursorFollows
  <1>1. MouseInv /\ [MouseNext]_mouseVars => MouseInv'
    <2>1. CASE UNCHANGED mouseVars
      BY <2>1 DEF mouseVars, MouseInv
    <2> QED
      BY <2>1, MoveKeeps, TrackKeeps DEF MouseNext
  <1>2. MouseInv /\ [MouseNext]_mouseVars
          => [untracked = 1 /\ untracked' = 0 => cursor' = pointer']_mouseVars
    <2>1. CASE MouseMoves
      BY <2>1 DEF MouseMoves
    <2>2. CASE Track
      BY <2>2, TrackFinds
    <2> QED
      BY <2>1, <2>2 DEF MouseNext
  <1> QED
    BY <1>1, <1>2, MouseStarts, PTL DEF CursorFollows

-----------------------------------------------------------------------------
(***************************************************************************)
(* The board.                                                              *)
(***************************************************************************)
LEMMA BoardRunsConsole == BoardSpec => ConsoleInit /\ [][ConsoleNext]_consoleVars
  <1>1. BoardInit => ConsoleInit
    BY DEF BoardInit
  <1>2. [BoardNext]_boardVars => [ConsoleNext]_consoleVars
    BY DEF BoardNext, boardVars
  <1> QED
    BY <1>1, <1>2, PTL DEF BoardSpec

LEMMA ConsoleRunsKeyboard ==
  ConsoleInit /\ [][ConsoleNext]_consoleVars => Spec
  <1>1. ConsoleInit => Init
    BY DEF ConsoleInit
  <1>2. [ConsoleNext]_consoleVars => [Next]_vars
    BY DEF ConsoleNext, consoleVars, TvWrite, PollConsole, Damage, Expose,
           EndOfConsoleEvents, KeyboardOnly, Next
  <1> QED
    BY <1>1, <1>2, PTL DEF Spec

LEMMA BoardRunsClock == BoardSpec => ClockInit /\ [][ClockNext]_clockVars
  <1>1. BoardInit => ClockInit
    BY DEF BoardInit
  <1>2. [BoardNext]_boardVars => [ClockNext]_clockVars
    BY DEF BoardNext, boardVars
  <1> QED
    BY <1>1, <1>2, PTL DEF BoardSpec

LEMMA BoardRunsMouse == BoardSpec => MouseInit /\ [][MouseNext]_mouseVars
  <1>1. BoardInit => MouseInit
    BY DEF BoardInit
  <1>2. [BoardNext]_boardVars => [MouseNext]_mouseVars
    BY DEF BoardNext, boardVars
  <1> QED
    BY <1>1, <1>2, PTL DEF BoardSpec

\* The composition (iob.c) keeps what its parts promise.
THEOREM BoardKeepsPromises ==
  BoardSpec => /\ [](NoOvertaking /\ AnnouncementsHold /\ StaleCovered /\ ClockReadsTime)
               /\ ImplementsKeyQueue /\ CursorFollows
  BY BoardRunsConsole, ConsoleRunsKeyboard, BoardRunsClock, BoardRunsMouse,
     KeysKeepTheirOrder, AnnouncedIsThere, RingImplementsQueue, NothingStaleForgotten,
     ClockIsRight, CursorComesToPointer, PTL
=============================================================================
