------------------------------- MODULE Chaos -------------------------------
(***************************************************************************)
(* The Chaosnet interface (chaos.c): the CSR, the receive and transmit     *)
(* buffers, and the Unix socket to the chaosd daemon with its reconnection *)
(* logic.                                                                  *)
(*                                                                         *)
(*   nic   what the software on the machine sees: CSR bits and buffers     *)
(*   link  the emulator's side of the connection: chaos_fd, the reconnect  *)
(*         flag and throttle, and descriptor 0                             *)
(*                                                                         *)
(* chaos_poll and the register accesses of the microcode run in one        *)
(* thread, one after the other, so each is one action.  The environment is *)
(* the daemon, which starts, stops and sends packets, and the clock.       *)
(* Packet contents are left out: a packet is its length in words and       *)
(* whether it is addressed to this machine.                                *)
(***************************************************************************)
EXTENDS Integers

CONSTANTS
  PacketSizes,      \* lengths, in words, of the packets the daemon sends
  XmitWords,        \* capacity of the transmit buffer (4096)
  RetryPolls,       \* polls between reconnection attempts (200)
  RetrySeconds      \* seconds between reconnection attempts (5)

ASSUME ChaosAssumption ==
  /\ PacketSizes \subseteq Nat \ {0}
  /\ XmitWords \in Nat \ {0, 1}
  /\ RetryPolls \in Nat \ {0}
  /\ RetrySeconds \in Nat

VARIABLES nic, link, server

vars == <<nic, link, server>>

Sizes == PacketSizes \cup {0} \cup 2 .. XmitWords

\* chaos_bit_count of a buffer of n words; chaos_rx_pkt.
Bits(n) == n * 16 - 1

Nic ==
  [rdn : BOOLEAN, tdn : BOOLEAN, ren : BOOLEAN, ten : BOOLEAN, lup : BOOLEAN,
   size : Sizes, ptr : Nat, empty : BOOLEAN, bits : Int,
   xptr : 0 .. XmitWords, xself : BOOLEAN,
   irq : BOOLEAN]       \* history: 0270 asserted for the buffered packet

Link ==
  [fd : {0, 1},         \* chaos_fd: 0 is taken to mean "no connection"
   need : BOOLEAN,      \* chaos_need_reconnect
   delay : Nat,         \* reconnect_delay
   tried : BOOLEAN,     \* reconnect_time # 0
   age : 0 .. RetrySeconds,     \* seconds since reconnect_time, capped
   zero : {"stdin", "free", "socket"},  \* what descriptor 0 is
   conn : {"none", "live", "broken"},   \* the connection behind the socket
   reported : BOOLEAN,  \* history: the last attempt reported success
   alive : BOOLEAN]     \* the emulator has not been killed

TypeOK == nic \in Nic /\ link \in Link /\ server \in BOOLEAN

Unread(n) == n.ptr < n.size

-----------------------------------------------------------------------------
(* The connection.                                                         *)

\* close(chaos_fd); with chaos_fd = 0 that is a close of descriptor 0.
Close(l) ==
  [l EXCEPT !.fd = 0, !.conn = "none",
            !.zero = IF l.fd = 0 THEN "free" ELSE l.zero]

ForceReconnect(l) == [Close(l) EXCEPT !.need = TRUE, !.reported = FALSE]

\* chaos_connect_to_server: socket() takes the lowest free descriptor.  The
\* caller closes it when connect() fails.
Connect(l) ==
  LET new == IF l.zero = "free" THEN 0 ELSE 1
      made == [l EXCEPT !.fd = new, !.conn = IF server THEN "live" ELSE "none",
                        !.zero = IF new = 0 THEN "socket" ELSE l.zero]
  IN IF server THEN made ELSE Close(made)

\* Mutated form of Due.
DueNeverAgain(l) == l.delay + 1 >= RetryPolls /\ ~l.tried

\* chaos_reconnect counts polls, then limits attempts to one in RetrySeconds.
Due(l) == l.delay + 1 >= RetryPolls /\ (~l.tried \/ l.age = RetrySeconds)

Reconnect(l) ==
  IF Due(l)
  THEN [Connect([l EXCEPT !.delay = 0, !.tried = TRUE, !.age = 0])
        EXCEPT !.need = ~server, !.reported = server]
  ELSE [l EXCEPT !.delay = IF l.delay + 1 < RetryPolls THEN l.delay + 1 ELSE 0]

-----------------------------------------------------------------------------
(* The buffers.                                                            *)

\* Mutated form of RxPkt.
RxPktNoInterrupt(n) ==
  IF n.size > 0
  THEN [n EXCEPT !.ptr = 0, !.bits = Bits(n.size), !.rdn = TRUE]
  ELSE [n EXCEPT !.ptr = 0, !.bits = Bits(0)]

\* chaos_rx_pkt
RxPkt(n) ==
  IF n.size > 0
  THEN [n EXCEPT !.ptr = 0, !.bits = Bits(n.size), !.rdn = TRUE,
                 !.irq = n.irq \/ n.ren]
  ELSE [n EXCEPT !.ptr = 0, !.bits = Bits(0)]

\* A packet of s words is copied into the receive buffer.
Receive(n, s) == RxPkt([n EXCEPT !.size = s, !.empty = FALSE, !.irq = FALSE])

\* chaos_set_csr, step by step.  w is what the driver writes.
ResetStep(n, w) ==
  IF w.reset
  THEN [n EXCEPT !.size = 0, !.ptr = 0, !.bits = 0, !.xptr = 0,
                 !.rdn = FALSE, !.tdn = TRUE]
  ELSE n

ReceiverClearStep(n, w) ==
  IF w.rcl THEN [n EXCEPT !.rdn = FALSE, !.ptr = 0, !.size = 0, !.bits = 0] ELSE n

TransmitterClearStep(n, w) ==
  IF w.tcl THEN [n EXCEPT !.tdn = TRUE, !.xptr = 0] ELSE n

ReceiveEnableStep(n) ==
  LET m == IF n.empty THEN [n EXCEPT !.ptr = 0, !.size = 0] ELSE n
  IN IF ~n.ren THEN n ELSE IF m.size > 0 THEN RxPkt(m) ELSE m

TransmitEnableStep(n) == IF n.ten THEN [n EXCEPT !.tdn = TRUE] ELSE n

SetCsr(n, w) ==
  LET written == [n EXCEPT !.ren = w.ren, !.ten = w.ten, !.lup = w.lup]
  IN TransmitEnableStep(ReceiveEnableStep(
       TransmitterClearStep(ReceiverClearStep(ResetStep(written, w), w), w)))

\* What a driver may write; tcl stands for TRANSMITTER_CLEAR or TRANSMIT_DONE.
CsrWrites ==
  [ren : BOOLEAN, ten : BOOLEAN, lup : BOOLEAN,
   reset : BOOLEAN, rcl : BOOLEAN, tcl : BOOLEAN]

\* chaos_get_rcv_buffer: a read past the last word ends the packet.
GetWord(n) ==
  IF Unread(n)
  THEN [n EXCEPT !.ptr = n.ptr + 1,
                 !.empty = n.empty \/ n.ptr + 1 = n.size]
  ELSE [n EXCEPT !.rdn = FALSE, !.size = 0]

\* chaos_put_xmit_buffer: a full buffer ignores the word.
PutWord(n, self) ==
  IF n.xptr < XmitWords
  THEN [n EXCEPT !.xptr = n.xptr + 1, !.xself = self, !.tdn = FALSE]
  ELSE [n EXCEPT !.tdn = FALSE]

\* chaos_xmit_pkt and the local half of chaos_send_to_chaosd.  The last word
\* put is the destination; two words are added behind it, for which there must
\* be room.  With nothing put, the destination is read from before the buffer:
\* any value.
HasRoom(n) == n.xptr + 2 <= XmitWords

XmitPkt(n, self) ==
  LET size == n.xptr + 2
      copied == IF n.lup \/ self THEN Receive(n, size) ELSE n
  IN [copied EXCEPT !.xptr = 0, !.tdn = TRUE]

-----------------------------------------------------------------------------
\* chaos_init at startup: connected, or not, and then nobody asks for a
\* reconnection until the software resets the interface.
Init ==
  /\ server \in BOOLEAN
  /\ nic = [rdn |-> FALSE, tdn |-> FALSE, ren |-> FALSE, ten |-> FALSE,
            lup |-> FALSE, size |-> 0, ptr |-> 0, empty |-> server, bits |-> 0,
            xptr |-> 0, xself |-> FALSE, irq |-> FALSE]
  /\ link = [fd |-> IF server THEN 1 ELSE 0, need |-> FALSE, delay |-> 0,
             tried |-> FALSE, age |-> 0, zero |-> "stdin",
             conn |-> IF server THEN "live" ELSE "none",
             reported |-> server, alive |-> TRUE]

\* The microcode's register accesses.
WriteCsr(w) ==
  /\ nic' = SetCsr(nic, w)
  /\ link' = IF w.reset
             THEN [ForceReconnect(link) EXCEPT !.delay = RetryPolls]
             ELSE link
  /\ UNCHANGED server

ReadRcvBuffer == nic' = GetWord(nic) /\ UNCHANGED <<link, server>>

WriteXmitBuffer(self) == nic' = PutWord(nic, self) /\ UNCHANGED <<link, server>>

\* The chaosd half of chaos_send_to_chaosd: a writev to a peer that is gone
\* raises SIGPIPE, which no code of the emulator handles or ignores.
SendFatal == ~nic.lup /\ link.fd # 0 /\ link.conn = "broken"

\* Without room the code writes behind its buffer, into whatever is there; what
\* happens from then on is outside of this model.
StartXmit ==
  /\ HasRoom(nic)
  /\ \E self \in (IF nic.xptr = 0 THEN BOOLEAN ELSE {nic.xself}) :
       nic' = XmitPkt(nic, self)
  /\ link' = [link EXCEPT !.alive = ~SendFatal]
  /\ UNCHANGED server

\* chaos_poll.  Reconnect first; a successful chaos_init marks the receive
\* buffer as empty.
Polled == IF link.need THEN Reconnect(link) ELSE link
NicPolled == IF link.need /\ ~Polled.need THEN [nic EXCEPT !.empty = TRUE] ELSE nic
BufferFull == ~NicPolled.empty /\ NicPolled.rdn

PollUnconnected ==
  Polled.fd = 0 /\ link' = Polled /\ nic' = NicPolled

PollFails ==
  /\ Polled.fd # 0
  /\ link' = [Polled EXCEPT !.need = TRUE]
  /\ nic' = NicPolled

\* Nothing to read, a full buffer, or a header without its packet.
PollNothing ==
  /\ Polled.fd # 0
  /\ link' = Polled
  /\ nic' = NicPolled

\* End of file, a read error, or a packet that does not fit.
PollBreaks ==
  /\ Polled.fd # 0
  /\ ~BufferFull
  /\ link' = ForceReconnect(Polled)
  /\ nic' = NicPolled

\* What the daemon sent before it stopped can still be read.
PollForeignPacket ==
  /\ Polled.fd # 0
  /\ ~BufferFull
  /\ link' = Polled
  /\ nic' = [NicPolled EXCEPT !.size = 0, !.empty = TRUE]

PollPacket(s) ==
  /\ Polled.fd # 0
  /\ ~BufferFull
  /\ link' = Polled
  /\ nic' = Receive(NicPolled, s)

Poll ==
  /\ \/ PollUnconnected \/ PollFails \/ PollNothing \/ PollBreaks
     \/ PollForeignPacket
     \/ \E s \in PacketSizes : PollPacket(s)
  /\ UNCHANGED server

\* The environment.
Second ==
  /\ link.tried /\ link.age < RetrySeconds
  /\ link' = [link EXCEPT !.age = link.age + 1]
  /\ UNCHANGED <<nic, server>>

ServerStarts == ~server /\ server' = TRUE /\ UNCHANGED <<nic, link>>

ServerStops ==
  /\ server
  /\ server' = FALSE
  /\ link' = [link EXCEPT !.conn = IF link.conn = "live" THEN "broken" ELSE link.conn]
  /\ UNCHANGED nic

Software ==
  \/ \E w \in CsrWrites : WriteCsr(w)
  \/ ReadRcvBuffer
  \/ \E self \in BOOLEAN : WriteXmitBuffer(self)
  \/ StartXmit

Next ==
  \/ link.alive /\ (Software \/ Poll)
  \/ Second \/ ServerStarts \/ ServerStops

Spec == Init /\ [][Next]_vars

\* The main loop polls as long as the emulator runs, and time passes.
FairSpec == Spec /\ WF_vars(link.alive /\ Poll) /\ WF_vars(Second)

-----------------------------------------------------------------------------
(***************************************************************************)
(* Words in the receive buffer are announced: no order of polls, resets,   *)
(* clears, enables, loopback transmissions and reads leaves a packet in    *)
(* the buffer with RECEIVE_DONE clear, where the software would never look *)
(* for it.                                                                 *)
(***************************************************************************)
DataAnnounced == nic.size > 0 => nic.rdn

(***************************************************************************)
(* The interrupt for a received packet is not lost when the receiver is    *)
(* enabled only after the packet came: whenever the receiver is enabled    *)
(* and the buffer holds a packet, 0270 has been asserted for that packet.  *)
(***************************************************************************)
ReceiveInterruptRaised == nic.ren /\ nic.size > 0 => nic.irq

(***************************************************************************)
(* The bit count the software reads belongs to the packet in the buffer,   *)
(* and the read pointer lies inside that packet, across partial reads,     *)
(* rewinds by RECEIVE_ENABLE, clears and new packets.                      *)
(***************************************************************************)
CountMatchesPacket ==
  nic.size > 0 => nic.bits = Bits(nic.size) /\ nic.ptr \in 0 .. nic.size

(***************************************************************************)
(* The five variables of the receiver, which polls, reads, clears, enables,*)
(* resets and loopback update apart, agree on one packet: it is announced, *)
(* its interrupt was raised and its count is its own.                      *)
(***************************************************************************)
ReceiverConsistent ==
  TypeOK /\ DataAnnounced /\ ReceiveInterruptRaised /\ CountMatchesPacket

(***************************************************************************)
(* A request for a reconnection (a broken connection, a reset) that finds  *)
(* the five seconds over is followed by an attempt, although two counters  *)
(* throttle attempts and every reset restarts the first one.  Only the     *)
(* end of the emulator, which a transmission to a chaosd that has stopped  *)
(* causes, prevents it.                                                    *)
(***************************************************************************)
Throttled == link.tried /\ link.age < RetrySeconds
ReconnectAttempted ==
  (link.need /\ ~Throttled) ~> (Throttled \/ ~link.need \/ ~link.alive)

(***************************************************************************)
(* As the code reports it ("chaos: reconnected"), an attempt that          *)
(* succeeded gives a connection that polls and transmissions use.  It does *)
(* not when descriptor 0 was closed by a reset without a connection:       *)
(* socket() then returns 0, which the rest of chaos.c reads as "none".     *)
(***************************************************************************)
ReportedIsUsable == link.reported => link.fd # 0
=============================================================================
