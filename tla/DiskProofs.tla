----------------------------- MODULE DiskProofs -----------------------------
(***************************************************************************)
(* The disk moves consecutive blocks, for every geometry and every CCW     *)
(* list.  The multiplications are confined to the first two lemmas; the    *)
(* rest of the argument knows IncrBlock only through IncrBlockIsNext.      *)
(***************************************************************************)
EXTENDS Disk, TLAPS

\* One more block of a track, or one more track, is one more multiple.
LEMMA OneMore ==
  ASSUME NEW a \in Nat, NEW b \in Nat
  PROVE  (a + 1) * b = a * b + b
OBVIOUS

LEMMA Associate ==
  ASSUME NEW a \in Nat, NEW b \in Nat, NEW c \in Nat
  PROVE  a * b * c = a * (b * c)
OBVIOUS

\* disk_incr_block leads from a block of a formatted pack to the next one.
LEMMA IncrBlockIsNext ==
  ASSUME NEW a \in Addresses
  PROVE  IncrBlock(a) \in Addresses /\ BlockNo(IncrBlock(a)) = BlockNo(a) + 1
<1> DEFINE b == IncrBlock(a)
<1> USE GeometryAssumption
<1>0. /\ a.cyl \in Nat /\ a.head \in 0 .. heads - 1 /\ a.block \in 0 .. blocks_per_track - 1
      /\ heads \in Nat /\ blocks_per_track \in Nat
  BY DEF Addresses
<1>1. CASE a.block + 1 < blocks_per_track
  <2>0. b = [a EXCEPT !.block = a.block + 1]
    BY <1>1 DEF IncrBlock
  <2>1. b \in Addresses /\ b.cyl = a.cyl /\ b.head = a.head /\ b.block = a.block + 1
    BY <1>0, <1>1, <2>0 DEF Addresses
  <2>2. /\ a.cyl * blocks_per_track * heads \in Int
        /\ a.head * blocks_per_track \in Int
    BY <1>0
  <2>3. QED
    BY <1>0, <2>1, <2>2 DEF BlockNo
<1>2. CASE a.block + 1 = blocks_per_track /\ a.head + 1 < heads
  <2>0. b = [a EXCEPT !.block = 0, !.head = a.head + 1]
    BY <1>0, <1>2 DEF IncrBlock
  <2>1. b \in Addresses /\ b.cyl = a.cyl /\ b.head = a.head + 1 /\ b.block = 0
    <3>1. a.head + 1 \in 0 .. heads - 1 /\ 0 \in 0 .. blocks_per_track - 1
      BY <1>0, <1>2
    <3>2. QED
      BY <1>0, <2>0, <3>1 DEF Addresses
  <2>2. (a.head + 1) * blocks_per_track = a.head * blocks_per_track + blocks_per_track
    BY <1>0, OneMore
  <2>3. /\ a.cyl * blocks_per_track * heads \in Int
        /\ a.head * blocks_per_track \in Int
    BY <1>0
  <2>4. QED
    BY <1>0, <1>2, <2>1, <2>2, <2>3 DEF BlockNo
<1>3. CASE a.block + 1 = blocks_per_track /\ a.head + 1 = heads
  <2>0. b = [cyl |-> a.cyl + 1, head |-> 0, block |-> 0]
    BY <1>0, <1>3 DEF IncrBlock
  <2>1. b \in Addresses /\ b.cyl = a.cyl + 1 /\ b.head = 0 /\ b.block = 0
    BY <1>0, <2>0 DEF Addresses
  <2>2. PICK track \in Nat : track = blocks_per_track * heads
    BY <1>0
  <2>3. /\ a.cyl * blocks_per_track * heads = a.cyl * track
        /\ (a.cyl + 1) * blocks_per_track * heads = (a.cyl + 1) * track
    BY <1>0, <2>2, Associate
  <2>4. (a.cyl + 1) * track = a.cyl * track + track
    BY <1>0, <2>2, OneMore
  <2>5. a.head * blocks_per_track + blocks_per_track = track
    <3>1. (a.head + 1) * blocks_per_track = a.head * blocks_per_track + blocks_per_track
      BY <1>0, OneMore
    <3>2. heads * blocks_per_track = blocks_per_track * heads
      BY <1>0
    <3>3. QED
      BY <1>3, <2>2, <3>1, <3>2
  <2>6. /\ a.cyl * track \in Int
        /\ a.head * blocks_per_track \in Int
    BY <1>0, <2>2
  <2>7. BlockNo(a) = a.cyl * track + a.head * blocks_per_track + a.block
    BY <2>3 DEF BlockNo
  <2>8. BlockNo(b) = a.cyl * track + track
    <3>1. 0 * blocks_per_track = 0
      BY <1>0
    <3>2. QED
      BY <1>0, <2>1, <2>2, <2>3, <2>4, <2>6, <3>1 DEF BlockNo
  <2>9. QED
    BY <1>0, <1>3, <2>1, <2>2, <2>5, <2>6, <2>7, <2>8
<1>4. QED
  BY <1>0, <1>1, <1>2, <1>3

LEMMA BlockNoType ==
  ASSUME NEW a \in Addresses
  PROVE  BlockNo(a) \in Nat
<1>1. /\ a.cyl \in Nat /\ a.head \in Nat /\ a.block \in Nat
      /\ heads \in Nat /\ blocks_per_track \in Nat
  BY GeometryAssumption DEF Addresses
<1>2. /\ a.cyl * blocks_per_track \in Nat
      /\ a.head * blocks_per_track \in Nat
  BY <1>1
<1>3. a.cyl * blocks_per_track * heads \in Nat
  BY <1>1, <1>2
<1>4. QED
  BY <1>1, <1>2, <1>3 DEF BlockNo

-----------------------------------------------------------------------------
\* The part of the type invariant the argument needs.
AddrType ==
  /\ disk_da \in Addresses
  /\ cur \in Addresses
  /\ start \in Addresses
  /\ moved \in Seq(Pages)
  /\ ccws \in [Clps -> CCWs]

IInv == AddrType /\ BlocksConsecutive

LEMMA InitIInv == Init => IInv
<1> SUFFICES ASSUME Init PROVE IInv
  OBVIOUS
<1>1. [cyl |-> 0, head |-> 0, block |-> 0] \in Addresses
  BY GeometryAssumption DEF Addresses
<1>2. QED
  BY <1>1 DEF Init, IInv, AddrType, BlocksConsecutive

\* One CCW: the address and the number of pages moved advance together.
LEMMA CcwKeepsIInv == ASSUME IInv, Ccw PROVE IInv'
<1>1. /\ disk_clp \in Clps
      /\ pc = "transfer"
      /\ UNCHANGED start
      /\ moved' = Append(moved, ccws[disk_clp].page)
      /\ Advance(ccws[disk_clp])
      /\ ReadBlock(ccws[disk_clp].page) \/ WriteBlock(ccws[disk_clp].page)
  BY DEF Ccw
<1>2. ccws[disk_clp].page \in Pages
  BY <1>1 DEF IInv, AddrType, CCWs
<1>3. moved' \in Seq(Pages) /\ Len(moved') = Len(moved) + 1 /\ Len(moved) \in Nat
  BY <1>1, <1>2 DEF IInv, AddrType
<1>4. ccws' \in [Clps -> CCWs]
  BY <1>1 DEF IInv, AddrType, ReadBlock, WriteBlock
<1>5. IncrBlock(cur) \in Addresses /\ BlockNo(IncrBlock(cur)) = BlockNo(cur) + 1
  BY IncrBlockIsNext DEF IInv, AddrType
<1>6. cur' \in Addresses /\ disk_da' \in Addresses
  BY <1>1, <1>5 DEF Advance, Finish, IInv, AddrType
<1>7. pc' = "transfer" => cur' = IncrBlock(cur)
  BY <1>1 DEF Advance, Finish
<1>8. BlockNo(cur) = BlockNo(start) + (Len(moved) + 1) - 1
  BY <1>1 DEF IInv, BlocksConsecutive, BlockOf
<1>9. BlockNo(start) \in Nat /\ BlockNo(cur) \in Nat
  BY BlockNoType DEF IInv, AddrType
<1>10. pc' = "transfer" => BlockNo(cur') = BlockNo(start) + (Len(moved') + 1) - 1
  BY <1>3, <1>5, <1>7, <1>8, <1>9
<1>11. BlocksConsecutive'
  BY <1>1, <1>10 DEF BlocksConsecutive, BlockOf, BlockNo
<1>12. QED
  BY <1>1, <1>3, <1>4, <1>6, <1>11 DEF IInv, AddrType

LEMMA StartKeepsIInv == ASSUME IInv, Start PROVE IInv'
<1>1. /\ cur' = disk_da /\ start' = disk_da /\ moved' = <<>>
      /\ UNCHANGED <<ccws, disk_da>>
  BY DEF Start, regs
<1>2. AddrType'
  BY <1>1 DEF IInv, AddrType
<1>3. BlockNo(disk_da) \in Nat
  BY BlockNoType DEF IInv, AddrType
<1>4. BlockNo(disk_da) = BlockNo(disk_da) + (Len(<<>>) + 1) - 1
  BY <1>3
<1>5. BlocksConsecutive'
  BY <1>1, <1>4 DEF BlocksConsecutive, BlockOf, BlockNo
<1>6. QED
  BY <1>2, <1>5 DEF IInv

LEMMA NextIInv == IInv /\ [Next]_vars => IInv'
<1> SUFFICES ASSUME IInv, [Next]_vars PROVE IInv'
  OBVIOUS
<1> USE DEF IInv, AddrType, BlocksConsecutive, BlockOf, BlockNo, regs
<1>1. ASSUME NEW c \in Commands, LoadCommand(c) PROVE IInv'
  BY <1>1 DEF LoadCommand
<1>2. ASSUME NEW clp \in Clps, NEW a \in PackAddresses, LoadAddress(clp, a) PROVE IInv'
  <2>1. a \in Addresses
    BY DiskAssumption DEF PackAddresses, Addresses
  <2>2. QED
    BY <1>2, <2>1 DEF LoadAddress
<1>3. CASE Start
  BY <1>3, StartKeepsIInv
<1>4. CASE CcwFault
  BY <1>4 DEF CcwFault
<1>5. CASE BeyondImage
  BY <1>5 DEF BeyondImage
<1>6. CASE Ccw
  BY <1>6, CcwKeepsIInv
<1>7. CASE DiskPoll
  BY <1>7 DEF DiskPoll
<1>8. CASE StartWithoutTransfer
  BY <1>8 DEF StartWithoutTransfer
<1>9. CASE UNCHANGED vars
  BY <1>9 DEF vars
<1>10. QED
  BY <1>1, <1>2, <1>3, <1>4, <1>5, <1>6, <1>7, <1>8, <1>9 DEF Next, Controller

(***************************************************************************)
(* Every transfer moves consecutive blocks, for every pack geometry, every *)
(* CCW list, and lists that change while they are walked.                  *)
(***************************************************************************)
THEOREM TransferIsConsecutive == Spec => []BlocksConsecutive
<1>1. IInv => BlocksConsecutive
  BY DEF IInv
<1>2. QED
  BY InitIInv, NextIInv, <1>1, PTL DEF Spec

-----------------------------------------------------------------------------
\* While the list is walked, the direction is that of the command and nothing
\* is announced yet.
Walking == pc = "transfer" => cmd.op = op /\ outcome = "none"

TransferInv ==
  /\ TypeOK
  /\ BlocksConsecutive
  /\ Walking
  /\ ReadDelivers
  /\ WriteStores
  /\ AddressNamesLastBlock

LEMMA TransferInvIsStronger == TransferInv => IInv
BY DEF TransferInv, TypeOK, IInv, AddrType

LEMMA NBlocksType == NBlocks \in Nat
<1>1. cyls \in Nat /\ heads \in Nat /\ blocks_per_track \in Nat
  BY DiskAssumption, GeometryAssumption
<1>2. cyls * heads \in Nat
  BY <1>1
<1>3. QED
  BY <1>1, <1>2 DEF NBlocks

LEMMA TransferStarts == Init => TransferInv
<1> SUFFICES ASSUME Init PROVE TransferInv
  OBVIOUS
<1>1. [cyl |-> 0, head |-> 0, block |-> 0] \in Addresses
  BY GeometryAssumption DEF Addresses
<1>2. [op |-> "read", ie |-> FALSE, any |-> FALSE] \in Commands
  BY DEF Commands
<1>3. /\ mem \in [RamPages -> Data]
      /\ image \in [0 .. NBlocks - 1 -> Data]
  BY DEF Init, Data
<1>4. 0 \in 0 .. Delay /\ 0 \in 0 .. MaxStarts
  BY DiskAssumption
<1>5. TypeOK
  <2>1. disk_da \in Addresses /\ cur \in Addresses /\ start \in Addresses
    BY <1>1 DEF Init
  <2>2. disk_interrupt_delay \in 0 .. Delay /\ starts \in 0 .. MaxStarts
    BY <1>4 DEF Init
  <2>3. cmd \in Commands /\ ccws \in [Clps -> CCWs]
    BY <1>2 DEF Init
  <2>4. disk_clp \in Nat /\ xbus \in BOOLEAN /\ moved \in Seq(Pages)
    <3>1. disk_clp = 0 /\ xbus = FALSE /\ moved = <<>>
      BY DEF Init
    <3>2. \A S : <<>> \in Seq(S)
      OBVIOUS
    <3>3. xbus \in BOOLEAN
      BY <3>1
    <3>4. QED
      BY <3>1, <3>2, <3>3
  <2>5. /\ pc \in {"idle", "transfer", "crashed"}
        /\ op \in {"read", "write"}
        /\ outcome \in {"none", "done", "long", "fault"}
    BY DEF Init
  <2>6. QED
    BY <1>3, <2>1, <2>2, <2>3, <2>4, <2>5 DEF TypeOK
<1>6. QED
  BY <1>5, InitIInv
     DEF Init, IInv, TransferInv, Walking, ReadDelivers, WriteStores, AddressNamesLastBlock

\* What one CCW leaves behind, whatever its direction.
LEMMA CcwMoves ==
  ASSUME TransferInv, Ccw
  PROVE  /\ disk_clp \in Clps
         /\ ccws[disk_clp].page \in Pages
         /\ moved' = Append(moved, ccws[disk_clp].page)
         /\ Len(moved) \in Nat
         /\ Len(moved') = Len(moved) + 1
         /\ DOMAIN moved' = 1 .. Len(moved) + 1
         /\ \A k \in DOMAIN moved : k \in 1 .. Len(moved) /\ moved'[k] = moved[k]
         /\ \A k \in 1 .. Len(moved) : k \in DOMAIN moved
         /\ moved'[Len(moved) + 1] = ccws[disk_clp].page
         /\ BlockOf(Len(moved) + 1) = BlockNo(cur)
         /\ \A k \in DOMAIN moved : BlockOf(k) # BlockNo(cur) /\ BlockOf(k) \in DOMAIN image
         /\ BlockNo(cur) \in DOMAIN image
         /\ UNCHANGED <<op, start>>
<1>1. /\ disk_clp \in Clps
      /\ moved' = Append(moved, ccws[disk_clp].page)
      /\ BlockNo(cur) \in DOMAIN image
      /\ pc = "transfer"
      /\ UNCHANGED <<op, start>>
  BY DEF Ccw
<1>2. moved \in Seq(Pages) /\ ccws \in [Clps -> CCWs] /\ image \in [0 .. NBlocks - 1 -> Data]
  BY DEF TransferInv, TypeOK
<1>3. ccws[disk_clp].page \in Pages
  BY <1>1, <1>2 DEF CCWs
<1>4. /\ Len(moved) \in Nat
      /\ Len(moved') = Len(moved) + 1
      /\ DOMAIN moved' = 1 .. Len(moved) + 1
      /\ DOMAIN moved = 1 .. Len(moved)
      /\ \A k \in DOMAIN moved : moved'[k] = moved[k]
      /\ moved'[Len(moved) + 1] = ccws[disk_clp].page
  BY <1>1, <1>2, <1>3
<1>5. BlockNo(cur) = BlockOf(Len(moved) + 1)
  BY <1>1 DEF TransferInv, BlocksConsecutive
<1>6. BlockNo(start) \in Nat /\ BlockNo(cur) \in Nat
  BY BlockNoType DEF TransferInv, TypeOK
<1>7. BlockNo(cur) = BlockNo(start) + Len(moved)
  BY <1>4, <1>5, <1>6 DEF BlockOf
<1>8. ASSUME NEW k \in DOMAIN moved
      PROVE  BlockOf(k) # BlockNo(cur) /\ BlockOf(k) \in DOMAIN image
  <2>1. DOMAIN image = 0 .. NBlocks - 1 /\ NBlocks \in Nat
    BY <1>2, NBlocksType
  <2>2. k \in Nat /\ 1 <= k /\ k <= Len(moved)
    BY <1>4
  <2>3. BlockNo(cur) <= NBlocks - 1
    BY <1>1, <2>1
  <2>4. BlockOf(k) = BlockNo(start) + k - 1
    BY DEF BlockOf
  <2>5. QED
    BY <1>4, <1>6, <1>7, <2>1, <2>2, <2>3, <2>4
<1>9. QED
  BY <1>1, <1>3, <1>4, <1>5, <1>8

\* One CCW of a read: its page gets its block, and a page named before keeps
\* what it has unless this CCW names it again.
LEMMA ReadKeepsDelivery ==
  ASSUME TransferInv, Ccw, op = "read"
  PROVE  ReadDelivers'
<1> DEFINE p == ccws[disk_clp].page
<1>1. ReadBlock(p)
  BY DEF Ccw, TransferInv, Walking
<1>2. /\ mem' = IF p \in RamPages THEN [mem EXCEPT ![p] = image[BlockNo(cur)]] ELSE mem
      /\ image' = image
  BY <1>1 DEF ReadBlock
<1>3. mem \in [RamPages -> Data]
  BY DEF TransferInv, TypeOK
<1>4. ASSUME NEW k \in DOMAIN moved', moved'[k] \in RamPages,
             \A j \in DOMAIN moved' : j > k => moved'[j] # moved'[k]
      PROVE  mem'[moved'[k]] = image[BlockOf(k)]
  <2>1. CASE k = Len(moved) + 1
    <3>1. moved'[k] = p /\ BlockOf(k) = BlockNo(cur)
      BY <2>1, CcwMoves
    <3>2. QED
      BY <1>2, <1>3, <1>4, <3>1
  <2>2. CASE k # Len(moved) + 1
    <3>1. k \in DOMAIN moved /\ k < Len(moved) + 1
      BY <1>4, <2>2, CcwMoves
    <3>2. moved'[k] = moved[k] /\ moved'[Len(moved) + 1] = p
      BY <3>1, CcwMoves
    <3>3. p # moved[k]
      BY <1>4, <3>1, <3>2, CcwMoves
    <3>4. \A j \in DOMAIN moved : j > k => moved[j] # moved[k]
      BY <1>4, <3>1, CcwMoves
    <3>5. mem[moved[k]] = image[BlockOf(k)]
      BY <1>4, <3>1, <3>2, <3>4 DEF TransferInv, ReadDelivers
    <3>6. QED
      BY <1>2, <1>3, <1>4, <3>2, <3>3, <3>5
  <2>3. QED
    BY <2>1, <2>2
<1>5. \A k : BlockOf(k)' = BlockOf(k)
  BY CcwMoves DEF BlockOf, BlockNo
<1>6. QED
  BY <1>2, <1>4, <1>5 DEF ReadDelivers, BlockOf, BlockNo

\* One CCW of a write: its block gets its page, and no block written before
\* is touched.
LEMMA WriteKeepsStores ==
  ASSUME TransferInv, Ccw, op = "write"
  PROVE  WriteStores'
<1> DEFINE p == ccws[disk_clp].page
           data == IF p \in RamPages THEN mem[p] ELSE Junk
<1>1. WriteBlock(p)
  BY DEF Ccw, TransferInv, Walking
<1>2. image' = [image EXCEPT ![BlockNo(cur)] = data] /\ mem' = mem
  BY <1>1 DEF WriteBlock
<1>3. ASSUME NEW k \in DOMAIN moved'
      PROVE  image'[BlockOf(k)] = IF moved'[k] \in RamPages THEN mem[moved'[k]] ELSE Junk
  <2>1. CASE k = Len(moved) + 1
    <3>1. moved'[k] = p /\ BlockOf(k) = BlockNo(cur) /\ BlockNo(cur) \in DOMAIN image
      BY <2>1, CcwMoves
    <3>2. QED
      BY <1>2, <3>1
  <2>2. CASE k # Len(moved) + 1
    <3>1. k \in DOMAIN moved
      BY <1>3, <2>2, CcwMoves
    <3>2. /\ moved'[k] = moved[k]
          /\ BlockOf(k) # BlockNo(cur)
          /\ BlockOf(k) \in DOMAIN image
      BY <3>1, CcwMoves
    <3>3. image[BlockOf(k)] = IF moved[k] \in RamPages THEN mem[moved[k]] ELSE Junk
      BY <3>1 DEF TransferInv, WriteStores
    <3>4. QED
      BY <1>2, <3>2, <3>3
  <2>3. QED
    BY <2>1, <2>2
<1>4. QED
  BY <1>2, <1>3, CcwMoves DEF WriteStores, BlockOf, BlockNo

\* One CCW keeps the types, also when the buffer was never filled.
LEMMA CcwKeepsTypes ==
  ASSUME TransferInv, Ccw
  PROVE  TypeOK'
<1> DEFINE p == ccws[disk_clp].page
<1>1. /\ mem \in [RamPages -> Data] /\ image \in [0 .. NBlocks - 1 -> Data]
      /\ BlockNo(cur) \in 0 .. NBlocks - 1
  BY CcwMoves DEF TransferInv, TypeOK
<1>2. Junk \in Data
  BY DEF Data
<1>3. ReadBlock(p) \/ WriteBlock(p)
  BY DEF Ccw
<1>4. mem' \in [RamPages -> Data] /\ image' \in [0 .. NBlocks - 1 -> Data]
  BY <1>1, <1>2, <1>3 DEF ReadBlock, WriteBlock
<1>5. AddrType'
  BY TransferInvIsStronger, CcwKeepsIInv DEF IInv
<1>6. Advance(ccws[disk_clp])
  BY DEF Ccw
<1>7. disk_clp' \in Nat
  <2>1. disk_clp \in Nat /\ disk_clp + 1 \in Nat
    BY DEF TransferInv, TypeOK
  <2>2. QED
    BY <1>6, <2>1 DEF Advance
<1>8. /\ disk_interrupt_delay' \in 0 .. Delay
      /\ pc' \in {"idle", "transfer", "crashed"}
      /\ outcome' \in {"none", "done", "long", "fault"}
  <2>1. Delay \in 0 .. Delay
    BY DiskAssumption
  <2>2. QED
    BY <1>6, <2>1 DEF Advance, Finish, TransferInv, TypeOK
<1>9. UNCHANGED <<cmd, xbus, starts, op, start>>
  BY DEF Ccw
<1>10. QED
  BY <1>4, <1>5, <1>7, <1>8, <1>9 DEF TransferInv, TypeOK, AddrType

LEMMA CcwKeepsTransferInv ==
  ASSUME TransferInv, Ccw
  PROVE  TransferInv'
<1>1. Advance(ccws[disk_clp]) /\ UNCHANGED cmd
  BY DEF Ccw
<1>2. op' = op /\ op \in {"read", "write"} /\ outcome = "none" /\ cmd.op = op
  BY CcwMoves DEF Ccw, TransferInv, TypeOK, Walking
<1>3. Walking'
  BY <1>1, <1>2 DEF Walking, Advance, Finish
<1>4. ReadDelivers' /\ WriteStores'
  <2>1. CASE op = "read"
    BY <1>2, <2>1, ReadKeepsDelivery DEF WriteStores
  <2>2. CASE op = "write"
    BY <1>2, <2>2, WriteKeepsStores DEF ReadDelivers
  <2>3. QED
    BY <1>2, <2>1, <2>2
<1>5. AddressNamesLastBlock'
  <2>1. outcome' = "done" => disk_da' = cur
    BY <1>1, <1>2 DEF Advance, Finish
  <2>2. BlockNo(cur) = BlockNo(start) + (Len(moved) + 1) - 1
    BY CcwMoves DEF BlockOf
  <2>3. outcome' = "done" => BlockNo(disk_da') = BlockNo(start') + Len(moved') - 1
    BY <2>1, <2>2, CcwMoves
  <2>4. QED
    BY <2>3 DEF AddressNamesLastBlock, BlockOf, BlockNo
<1>6. BlocksConsecutive'
  BY TransferInvIsStronger, CcwKeepsIInv DEF IInv
<1>7. QED
  BY <1>3, <1>4, <1>5, <1>6, CcwKeepsTypes DEF TransferInv

\* The driver and the timer leave what was moved alone; the next start
\* forgets it.
LEMMA TransferInvKept == TransferInv /\ [Next]_vars => TransferInv'
<1> SUFFICES ASSUME TransferInv, [Next]_vars PROVE TransferInv'
  OBVIOUS
<1>0. BlocksConsecutive' /\ AddrType'
  BY TransferInvIsStronger, NextIInv DEF IInv
<1>1. ASSUME UNCHANGED <<mem, image, op, start, moved>>
      PROVE  ReadDelivers' /\ WriteStores'
  BY <1>1 DEF TransferInv, ReadDelivers, WriteStores, BlockOf, BlockNo
<1>2. ASSUME UNCHANGED <<outcome, disk_da, start, moved>> \/ outcome' # "done"
      PROVE  AddressNamesLastBlock'
  BY <1>2 DEF TransferInv, AddressNamesLastBlock, BlockOf, BlockNo
<1>3. ASSUME NEW c \in Commands, LoadCommand(c) PROVE TransferInv'
  <2>1. xbus' \in BOOLEAN
    <3>1. (xbus /\ c.any) \in BOOLEAN
      OBVIOUS
    <3>2. QED
      BY <1>3, <3>1 DEF LoadCommand
  <2>2. TypeOK'
    BY <1>3, <2>1 DEF LoadCommand, TransferInv, TypeOK
  <2>3. Walking'
    BY <1>3 DEF LoadCommand, Walking
  <2>4. QED
    BY <1>0, <1>1, <1>2, <1>3, <2>2, <2>3 DEF LoadCommand, TransferInv
<1>4. ASSUME NEW clp \in Clps, NEW a \in PackAddresses, LoadAddress(clp, a)
      PROVE  TransferInv'
  <2>1. disk_clp' \in Nat
    BY <1>4, DiskAssumption DEF LoadAddress
  <2>2. TypeOK'
    BY <1>0, <1>4, <2>1 DEF LoadAddress, TransferInv, TypeOK, AddrType
  <2>3. Walking'
    BY <1>4 DEF LoadAddress, Walking
  <2>4. QED
    BY <1>0, <1>1, <1>2, <1>4, <2>2, <2>3 DEF LoadAddress, TransferInv
<1>5. CASE StartWithoutTransfer
  <2>1. starts' \in 0 .. MaxStarts
    BY <1>5, DiskAssumption DEF StartWithoutTransfer, TransferInv, TypeOK
  <2>2. TypeOK'
    BY <1>0, <1>5, <2>1 DEF StartWithoutTransfer, TransferInv, TypeOK, AddrType, regs
  <2>3. Walking'
    BY <1>5 DEF StartWithoutTransfer, Walking
  <2>4. QED
    BY <1>0, <1>1, <1>2, <1>5, <2>2, <2>3 DEF StartWithoutTransfer, TransferInv, regs
<1>6. CASE Start
  <2>1. starts' \in 0 .. MaxStarts
    BY <1>6, DiskAssumption DEF Start, TransferInv, TypeOK
  <2>2. moved' = <<>> /\ op' = cmd.op /\ op' \in {"read", "write"} /\ outcome' = "none"
    BY <1>6 DEF Start
  <2>3. TypeOK'
    BY <1>0, <1>6, <2>1, <2>2 DEF Start, TransferInv, TypeOK, AddrType, regs
  <2>4. Walking'
    BY <1>6 DEF Start, Walking, regs
  <2>5. ReadDelivers' /\ WriteStores'
    BY <2>2 DEF ReadDelivers, WriteStores
  <2>6. QED
    BY <1>0, <1>2, <2>2, <2>3, <2>4, <2>5 DEF TransferInv
<1>7. CASE CcwFault
  BY <1>0, <1>1, <1>2, <1>7 DEF CcwFault, TransferInv, TypeOK, Walking, regs
<1>8. CASE BeyondImage
  BY <1>0, <1>1, <1>2, <1>8 DEF BeyondImage, TransferInv, TypeOK, Walking, regs
<1>9. CASE Ccw
  BY <1>9, CcwKeepsTransferInv
<1>10. CASE DiskPoll
  <2>1. disk_interrupt_delay' \in 0 .. Delay
    BY <1>10, DiskAssumption DEF DiskPoll, TransferInv, TypeOK
  <2>2. xbus' \in BOOLEAN
    <3>1. (xbus \/ disk_interrupt_delay = 1) \in BOOLEAN
      OBVIOUS
    <3>2. QED
      BY <1>10, <3>1 DEF DiskPoll
  <2>3. TypeOK'
    BY <1>10, <2>1, <2>2 DEF DiskPoll, TransferInv, TypeOK, regs
  <2>4. Walking'
    BY <1>10 DEF DiskPoll, Walking
  <2>5. QED
    BY <1>0, <1>1, <1>2, <1>10, <2>3, <2>4 DEF DiskPoll, TransferInv, regs
<1>11. CASE UNCHANGED vars
  BY <1>0, <1>1, <1>2, <1>11 DEF vars, TransferInv, TypeOK, Walking, regs
<1>12. QED
  BY <1>3, <1>4, <1>5, <1>6, <1>7, <1>8, <1>9, <1>10, <1>11 DEF Next, Controller

(***************************************************************************)
(* What a transfer leaves in memory and on the pack is what its list asked *)
(* for, and the address register names the last block moved: for every     *)
(* geometry, every list, and a list that is read over itself               *)
(* (disk_start_read, disk_start_write).                                    *)
(***************************************************************************)
THEOREM TransfersDeliver == Spec => []TransferDelivers
<1>1. TransferInv => TransferDelivers
  BY DEF TransferInv, TransferDelivers
<1>2. QED
  BY TransferStarts, TransferInvKept, <1>1, PTL DEF Spec
=============================================================================
