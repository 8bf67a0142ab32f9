----------------------------- MODULE ChaosProofs -----------------------------
(***************************************************************************)
(* Proofs about the receiver of Chaos, for all packet sizes, buffers and   *)
(* throttles.                                                              *)
(***************************************************************************)
EXTENDS Chaos, TLAPS

\* What ReceiverConsistent says of a nic, but for the interrupt ...
Sound(n) ==
  /\ n \in Nic
  /\ n.size > 0 => n.rdn /\ n.bits = Bits(n.size) /\ n.ptr \in 0 .. n.size

\* ... and with it.
Consistent(n) == Sound(n) /\ (n.ren /\ n.size > 0 => n.irq)

LEMMA SizesAreNatural == Sizes \subseteq Nat
  BY ChaosAssumption DEF Sizes

LEMMA ZeroInRange == 0 \in Sizes /\ 0 \in Nat /\ 0 \in Int /\ 0 \in 0 .. XmitWords
  BY ChaosAssumption DEF Sizes

LEMMA BitsAreIntegers == \A n \in Nat : Bits(n) \in Int
  BY DEF Bits

-----------------------------------------------------------------------------
\* Whatever the buffer held before, RxPkt leaves it consistent.
LEMMA RxPktConsistent ==
  ASSUME NEW n \in Nic PROVE Consistent(RxPkt(n)) /\ RxPkt(n).ren = n.ren
  <1> USE DEF Nic
  <1>1. n.size \in Nat /\ Bits(n.size) \in Int /\ Bits(0) \in Int
    BY SizesAreNatural, BitsAreIntegers
  <1>2. (n.irq \/ n.ren) \in BOOLEAN
    OBVIOUS
  <1>3. CASE n.size > 0
    <2> DEFINE m == [n EXCEPT !.ptr = 0, !.bits = Bits(n.size), !.rdn = TRUE,
                              !.irq = n.irq \/ n.ren]
    <2>1. m \in Nic
      BY <1>1, <1>2
    <2>2. /\ m.rdn = TRUE /\ m.ptr = 0 /\ m.size = n.size /\ m.ren = n.ren
          /\ m.bits = Bits(n.size) /\ m.irq = (n.irq \/ n.ren)
      OBVIOUS
    <2>3. Consistent(m)
      BY <1>1, <2>1, <2>2 DEF Consistent, Sound
    <2> QED
      BY <1>3, <2>2, <2>3 DEF RxPkt
  <1>4. CASE ~(n.size > 0)
    <2> DEFINE m == [n EXCEPT !.ptr = 0, !.bits = Bits(0)]
    <2>1. m \in Nic
      BY <1>1
    <2>2. m.size = n.size /\ m.ren = n.ren
      OBVIOUS
    <2>3. Consistent(m)
      BY <1>4, <2>1, <2>2 DEF Consistent, Sound
    <2> QED
      BY <1>4, <2>2, <2>3 DEF RxPkt
  <1> QED
    BY <1>3, <1>4

LEMMA ReceiveConsistent ==
  ASSUME NEW n \in Nic, NEW s \in Sizes PROVE Consistent(Receive(n, s))
  <1> DEFINE m == [n EXCEPT !.size = s, !.empty = FALSE, !.irq = FALSE]
  <1>1. m \in Nic
    BY DEF Nic
  <1> QED
    BY <1>1, RxPktConsistent DEF Receive

\* The steps of chaos_set_csr keep the buffer sound, whatever is written.
LEMMA EmptySound ==
  ASSUME NEW n \in Nic, n.size = 0 PROVE Consistent(n)
  BY DEF Consistent, Sound

\* Consistency is a matter of these fields only.
LEMMA SameReceiver ==
  ASSUME NEW n, NEW m \in Nic, m.size = n.size, m.rdn = n.rdn,
         m.bits = n.bits, m.ptr = n.ptr
  PROVE  /\ Sound(n) => Sound(m)
         /\ Consistent(n) /\ m.ren = n.ren /\ m.irq = n.irq => Consistent(m)
  BY DEF Consistent, Sound

LEMMA ClearStepsSound ==
  ASSUME NEW n, Sound(n), NEW w \in CsrWrites
  PROVE  Sound(ResetStep(n, w)) /\ Sound(ReceiverClearStep(n, w))
         /\ Sound(TransmitterClearStep(n, w))
  <1>1. n \in Nic
    BY DEF Sound
  <1>2. Sound(ResetStep(n, w))
    <2> DEFINE m == [n EXCEPT !.size = 0, !.ptr = 0, !.bits = 0, !.xptr = 0,
                              !.rdn = FALSE, !.tdn = TRUE]
    <2>1. m \in Nic /\ m.size = 0
      BY <1>1, ZeroInRange DEF Nic
    <2>2. Consistent(m)
      BY <2>1, EmptySound
    <2> QED
      BY <2>2 DEF ResetStep, Consistent
  <1>3. Sound(ReceiverClearStep(n, w))
    <2> DEFINE m == [n EXCEPT !.rdn = FALSE, !.ptr = 0, !.size = 0, !.bits = 0]
    <2>1. m \in Nic /\ m.size = 0
      BY <1>1, ZeroInRange DEF Nic
    <2>2. Consistent(m)
      BY <2>1, EmptySound
    <2> QED
      BY <2>2 DEF ReceiverClearStep, Consistent
  <1>4. Sound(TransmitterClearStep(n, w))
    <2> DEFINE m == [n EXCEPT !.tdn = TRUE, !.xptr = 0]
    <2>1. /\ m \in Nic /\ m.size = n.size /\ m.rdn = n.rdn
          /\ m.bits = n.bits /\ m.ptr = n.ptr
      BY <1>1, ZeroInRange DEF Nic
    <2>2. Sound(m)
      BY <2>1, SameReceiver
    <2> QED
      BY <2>2 DEF TransmitterClearStep
  <1> QED
    BY <1>2, <1>3, <1>4

\* The last but one makes it consistent, and the last keeps it so.
LEMMA ReceiveEnableConsistent ==
  ASSUME NEW n, Sound(n) PROVE Consistent(ReceiveEnableStep(n))
  <1> DEFINE m == IF n.empty THEN [n EXCEPT !.ptr = 0, !.size = 0] ELSE n
  <1>1. n \in Nic
    BY DEF Sound
  <1>2. m \in Nic
    BY <1>1, ChaosAssumption DEF Nic, Sizes
  <1>3. CASE ~n.ren
    BY <1>3 DEF ReceiveEnableStep, Consistent
  <1>4. CASE n.ren /\ m.size > 0
    BY <1>2, <1>4, RxPktConsistent DEF ReceiveEnableStep
  <1>5. CASE n.ren /\ ~(m.size > 0)
    BY <1>2, <1>5 DEF ReceiveEnableStep, Consistent, Sound
  <1> QED
    BY <1>3, <1>4, <1>5, <1>1 DEF Nic

LEMMA TransmitEnableConsistent ==
  ASSUME NEW n, Consistent(n) PROVE Consistent(TransmitEnableStep(n))
  <1> DEFINE m == [n EXCEPT !.tdn = TRUE]
  <1>1. n \in Nic
    BY DEF Consistent, Sound
  <1>2. /\ m \in Nic /\ m.size = n.size /\ m.rdn = n.rdn /\ m.bits = n.bits
        /\ m.ptr = n.ptr /\ m.ren = n.ren /\ m.irq = n.irq
    BY <1>1 DEF Nic
  <1>3. Consistent(m)
    BY <1>2, SameReceiver
  <1> QED
    BY <1>3 DEF TransmitEnableStep

LEMMA SetCsrConsistent ==
  ASSUME NEW n, Sound(n), NEW w \in CsrWrites PROVE Consistent(SetCsr(n, w))
  <1> DEFINE written == [n EXCEPT !.ren = w.ren, !.ten = w.ten, !.lup = w.lup]
             reset == ResetStep(written, w)
             cleared == TransmitterClearStep(ReceiverClearStep(reset, w), w)
  <1>1. Sound(written)
    BY DEF Sound, Nic, CsrWrites
  <1>2. Sound(cleared)
    BY <1>1, ClearStepsSound
  <1> QED
    BY <1>2, ReceiveEnableConsistent, TransmitEnableConsistent DEF SetCsr

LEMMA GetWordConsistent ==
  ASSUME NEW n, Consistent(n) PROVE Consistent(GetWord(n))
  <1>1. n \in Nic
    BY DEF Consistent, Sound
  <1>2. n.size \in Nat /\ n.ptr \in Nat
    BY <1>1, SizesAreNatural DEF Nic
  <1>3. CASE Unread(n)
    <2> DEFINE m == [n EXCEPT !.ptr = n.ptr + 1,
                              !.empty = n.empty \/ n.ptr + 1 = n.size]
    <2>1. (n.empty \/ n.ptr + 1 = n.size) \in BOOLEAN
      BY <1>1 DEF Nic
    <2>2. n.ptr + 1 \in Nat
      BY <1>2
    <2> DEFINE p == n.ptr + 1
               e == n.empty \/ n.ptr + 1 = n.size
    <2>3. [n EXCEPT !.ptr = p, !.empty = e] \in Nic
      <3> HIDE DEF p, e
      <3> SUFFICES ASSUME p \in Nat, e \in BOOLEAN
                   PROVE  [n EXCEPT !.ptr = p, !.empty = e] \in Nic
        BY <2>1, <2>2 DEF p, e
      <3> QED
        BY <1>1 DEF Nic
    <2>4. /\ m.size = n.size /\ m.rdn = n.rdn /\ m.bits = n.bits
          /\ m.ptr = n.ptr + 1 /\ m.ren = n.ren /\ m.irq = n.irq
      BY <1>1 DEF Nic
    <2>5. n.size > 0 /\ n.ptr + 1 \in 0 .. n.size
      BY <1>2, <1>3 DEF Unread
    <2>6. Sound(m)
      BY <2>3, <2>4, <2>5 DEF Consistent, Sound
    <2>7. Consistent(m)
      BY <2>4, <2>6 DEF Consistent
    <2> QED
      BY <1>3, <2>7 DEF GetWord
  <1>4. CASE ~Unread(n)
    <2> DEFINE m == [n EXCEPT !.rdn = FALSE, !.size = 0]
    <2>1. m \in Nic /\ m.size = 0
      BY <1>1, ZeroInRange DEF Nic
    <2>2. Consistent(m)
      BY <2>1, EmptySound
    <2> QED
      BY <1>4, <2>2 DEF GetWord
  <1> QED
    BY <1>3, <1>4

LEMMA PutWordConsistent ==
  ASSUME NEW n, Consistent(n), NEW self \in BOOLEAN
  PROVE  Consistent(PutWord(n, self))
  <1>1. n \in Nic
    BY DEF Consistent, Sound
  <1>2. CASE n.xptr < XmitWords
    <2> DEFINE m == [n EXCEPT !.xptr = n.xptr + 1, !.xself = self, !.tdn = FALSE]
    <2>1. n.xptr + 1 \in 0 .. XmitWords
      BY <1>1, <1>2, ChaosAssumption DEF Nic
    <2>2. /\ m \in Nic /\ m.size = n.size /\ m.rdn = n.rdn /\ m.bits = n.bits
          /\ m.ptr = n.ptr /\ m.ren = n.ren /\ m.irq = n.irq
      BY <1>1, <2>1 DEF Nic
    <2>3. Consistent(m)
      BY <2>2, SameReceiver
    <2> QED
      BY <1>2, <2>3 DEF PutWord
  <1>3. CASE ~(n.xptr < XmitWords)
    <2> DEFINE m == [n EXCEPT !.tdn = FALSE]
    <2>1. /\ m \in Nic /\ m.size = n.size /\ m.rdn = n.rdn /\ m.bits = n.bits
          /\ m.ptr = n.ptr /\ m.ren = n.ren /\ m.irq = n.irq
      BY <1>1 DEF Nic
    <2>2. Consistent(m)
      BY <2>1, SameReceiver
    <2> QED
      BY <1>3, <2>2 DEF PutWord
  <1> QED
    BY <1>2, <1>3

LEMMA XmitPktConsistent ==
  ASSUME NEW n, Consistent(n), HasRoom(n), NEW self \in BOOLEAN
  PROVE  Consistent(XmitPkt(n, self))
  <1> DEFINE size == n.xptr + 2
             copied == IF n.lup \/ self THEN Receive(n, size) ELSE n
             m == [copied EXCEPT !.xptr = 0, !.tdn = TRUE]
  <1>1. n \in Nic
    BY DEF Consistent, Sound
  <1>2. size \in Sizes
    BY <1>1, ChaosAssumption DEF Nic, Sizes, HasRoom
  <1>3. Consistent(copied)
    BY <1>1, <1>2, ReceiveConsistent
  <1>4. copied \in Nic
    BY <1>3 DEF Consistent, Sound
  <1> HIDE DEF copied
  <1>5. /\ m \in Nic /\ m.size = copied.size /\ m.rdn = copied.rdn
        /\ m.bits = copied.bits /\ m.ptr = copied.ptr
        /\ m.ren = copied.ren /\ m.irq = copied.irq
    BY <1>4, ZeroInRange DEF Nic
  <1>6. Consistent(m)
    BY <1>3, <1>5, SameReceiver
  <1> QED
    BY <1>6 DEF XmitPkt, copied

-----------------------------------------------------------------------------
LEMMA CloseKept ==
  ASSUME NEW l \in Link PROVE Close(l) \in Link
  BY DEF Close, Link

LEMMA ForceReconnectKept ==
  ASSUME NEW l \in Link PROVE ForceReconnect(l) \in Link
  BY CloseKept DEF ForceReconnect, Link

LEMMA ConnectKept ==
  ASSUME NEW l \in Link, server \in BOOLEAN PROVE Connect(l) \in Link
  <1> DEFINE new == IF l.zero = "free" THEN 0 ELSE 1
             made == [l EXCEPT !.fd = new,
                        !.conn = IF server THEN "live" ELSE "none",
                        !.zero = IF new = 0 THEN "socket" ELSE l.zero]
  <1>1. made \in Link
    BY DEF Link
  <1> QED
    BY <1>1, CloseKept DEF Connect

LEMMA ReconnectKept ==
  ASSUME NEW l \in Link, server \in BOOLEAN PROVE Reconnect(l) \in Link
  <1> DEFINE due == [l EXCEPT !.delay = 0, !.tried = TRUE, !.age = 0]
             d == IF l.delay + 1 < RetryPolls THEN l.delay + 1 ELSE 0
  <1>1. 0 \in 0 .. RetrySeconds /\ 0 \in Nat
    BY ChaosAssumption
  <1>2. due \in Link
    BY <1>1 DEF Link
  <1>3. Connect(due) \in Link
    BY <1>2, ConnectKept
  <1>4. (~server) \in BOOLEAN
    OBVIOUS
  <1>5. [Connect(due) EXCEPT !.need = ~server, !.reported = server] \in Link
    BY <1>3, <1>4 DEF Link
  <1>6. d \in Nat
    BY ChaosAssumption DEF Link
  <1>7. [l EXCEPT !.delay = d] \in Link
    BY <1>6 DEF Link
  <1> QED
    BY <1>5, <1>7 DEF Reconnect

-----------------------------------------------------------------------------
IInv == Consistent(nic) /\ link \in Link /\ server \in BOOLEAN

LEMMA InvIsProperty == IInv => ReceiverConsistent
  BY DEF IInv, Consistent, Sound, ReceiverConsistent, TypeOK, DataAnnounced,
         ReceiveInterruptRaised, CountMatchesPacket

LEMMA InvStarts == Init => IInv
  BY ChaosAssumption DEF Init, IInv, Consistent, Sound, Nic, Link, Sizes

LEMMA SoftwareKeeps == IInv /\ Software => IInv'
  <1> SUFFICES ASSUME IInv, Software PROVE IInv'
    OBVIOUS
  <1>1. ASSUME NEW w \in CsrWrites, WriteCsr(w) PROVE IInv'
    <2>1. link' \in Link
      BY <1>1, ForceReconnectKept, ChaosAssumption DEF WriteCsr, IInv, Link
    <2> QED
      BY <1>1, <2>1, SetCsrConsistent DEF WriteCsr, IInv, Consistent
  <1>2. CASE ReadRcvBuffer
    BY <1>2, GetWordConsistent DEF ReadRcvBuffer, IInv
  <1>3. ASSUME NEW self \in BOOLEAN, WriteXmitBuffer(self) PROVE IInv'
    BY <1>3, PutWordConsistent DEF WriteXmitBuffer, IInv
  <1>4. CASE StartXmit
    <2>1. PICK self \in BOOLEAN : nic' = XmitPkt(nic, self)
      BY <1>4 DEF StartXmit, IInv, Consistent, Sound, Nic
    <2>2. link' \in Link
      BY <1>4 DEF StartXmit, SendFatal, IInv, Link
    <2> QED
      BY <1>4, <2>1, <2>2, XmitPktConsistent DEF StartXmit, IInv
  <1> QED
    BY <1>1, <1>2, <1>3, <1>4 DEF Software

LEMMA PollKeeps == IInv /\ Poll => IInv'
  <1> SUFFICES ASSUME IInv, Poll PROVE IInv'
    OBVIOUS
  <1>1. Polled \in Link
    BY ReconnectKept DEF Polled, IInv
  <1>2. Consistent(NicPolled) /\ NicPolled \in Nic
    BY DEF NicPolled, IInv, Consistent, Sound, Nic
  <1>3. CASE PollUnconnected \/ PollFails \/ PollNothing
    <2>1. link' \in Link
      BY <1>1, <1>3 DEF PollUnconnected, PollFails, PollNothing, Link
    <2> QED
      BY <1>2, <1>3, <2>1
      DEF PollUnconnected, PollFails, PollNothing, Poll, IInv
  <1>4. CASE PollBreaks
    BY <1>1, <1>2, <1>4, ForceReconnectKept DEF PollBreaks, Poll, IInv
  <1>5. CASE PollForeignPacket
    <2> DEFINE m == [NicPolled EXCEPT !.size = 0, !.empty = TRUE]
    <2>1. m \in Nic /\ m.size = 0
      BY <1>2, ZeroInRange DEF Nic
    <2>2. Consistent(m)
      BY <2>1, EmptySound
    <2> QED
      BY <1>1, <1>5, <2>2 DEF PollForeignPacket, Poll, IInv
  <1>6. ASSUME NEW s \in PacketSizes, PollPacket(s) PROVE IInv'
    BY <1>1, <1>2, <1>6, ReceiveConsistent DEF PollPacket, Poll, IInv, Sizes
  <1> QED
    BY <1>3, <1>4, <1>5, <1>6 DEF Poll

LEMMA InvKept == IInv /\ [Next]_vars => IInv'
  <1> SUFFICES ASSUME IInv, [Next]_vars PROVE IInv'
    OBVIOUS
  <1>1. CASE Second
    BY <1>1, ChaosAssumption DEF Second, IInv, Link
  <1>2. CASE ServerStarts
    BY <1>2 DEF ServerStarts, IInv
  <1>3. CASE ServerStops
    BY <1>3 DEF ServerStops, IInv, Link
  <1>4. CASE UNCHANGED vars
    BY <1>4 DEF vars, IInv
  <1> QED
    BY <1>1, <1>2, <1>3, <1>4, SoftwareKeeps, PollKeeps DEF Next

\* The receiver's variables agree on one packet in every state (chaos.c:89-102,
\* 238-257, 267-389, 408-533): what polls, reads, clears, enables, resets and
\* loopback leave in the buffer is announced, counted and interrupted for.
THEOREM ReceiverStaysConsistent == Spec => []ReceiverConsistent
  BY InvIsProperty, InvStarts, InvKept, PTL DEF Spec
=============================================================================
