-------------------------------- MODULE Disk --------------------------------
(***************************************************************************)
(* The disk controller (disk.c).  The driver loads the command, the        *)
(* command list pointer and the disk address, and writes "start"; the      *)
(* controller then walks a list of channel command words (CCWs) in main    *)
(* memory, moving one block per CCW, before the microcode runs again.  An  *)
(* interrupt follows some cycles after a transfer, if the command asked    *)
(* for it.                                                                 *)
(*                                                                         *)
(* The walk is modelled one CCW at a time ("transfer"); the microcode and  *)
(* disk_poll run only between walks ("idle").  A block and a page of       *)
(* memory hold one value each.  The CCW list lives in memory too: reading  *)
(* a block over the page it is in changes the CCWs not yet fetched.        *)
(***************************************************************************)
EXTENDS Integers, Sequences

CONSTANTS
  heads, blocks_per_track,
                    \* geometry, from the pack label
  cyls,             \* cylinders of the pack
  RamPages,         \* pages of physical memory that exist
  NoPage,           \* a page number beyond phys_ram_pages
  ListPage,         \* the page that holds the CCW list
  Clps,             \* word addresses of that list: 0 .. some bound
  MaxChain,         \* CCWs one command may process (65535)
  Delay,            \* cycles between transfer and interrupt (2500)
  DriverWaits,      \* whether drivers start nothing while one is due
  MaxStarts         \* bound: transfers, after which the driver stops

ASSUME GeometryAssumption == heads \in Nat \ {0} /\ blocks_per_track \in Nat \ {0}

ASSUME DiskAssumption ==
  /\ cyls \in Nat \ {0}
  /\ NoPage \notin RamPages
  /\ ListPage \in RamPages
  /\ Clps \subseteq Nat
  /\ MaxChain \in Nat \ {0}
  /\ Delay \in Nat \ {0}
  /\ DriverWaits \in BOOLEAN
  /\ MaxStarts \in Nat

VARIABLES
  mem,              \* contents of the pages that exist
  image,            \* contents of the blocks of the disk image
  ccws,             \* the CCW list
  cmd,              \* disk_cmd: operation, 04000 (ie), 06000 (any enable)
  disk_clp, disk_da,
  cur,              \* cur_cyl, cur_head, cur_block
  disk_interrupt_delay,
  xbus,             \* the disk's Xbus interrupt request
  pc,
  starts,           \* transfers started
  op, start,        \* history: the transfer's direction and first block ...
  moved,            \* ... and the pages moved so far
  outcome           \* history: how it ended, at a CCW without the chain
                    \* bit, at MaxChain or at a fault; "none" once disk_da is
                    \* reloaded

regs == <<cmd, disk_clp, disk_da>>
vars == <<mem, image, ccws, regs, cur, disk_interrupt_delay, xbus, pc,
          starts, op, start, moved, outcome>>

-----------------------------------------------------------------------------
\* Addresses as disk_decode_addr yields them for a formatted pack.  A cylinder
\* number past the end of the pack is not detected anywhere.
Addresses ==
  [cyl : Nat, head : 0 .. heads - 1, block : 0 .. blocks_per_track - 1]

\* block_no of disk_read_block and disk_write_block.
BlockNo(a) ==
  a.cyl * blocks_per_track * heads + a.head * blocks_per_track + a.block

\* Mutated form of IncrBlock.
IncrBlockHeadFirst(a) ==
  IF a.head + 1 < heads
  THEN [a EXCEPT !.head = a.head + 1]
  ELSE IF a.block + 1 < blocks_per_track
       THEN [a EXCEPT !.head = 0, !.block = a.block + 1]
       ELSE [cyl |-> a.cyl + 1, head |-> 0, block |-> 0]

\* disk_incr_block
IncrBlock(a) ==
  IF a.block + 1 < blocks_per_track
  THEN [a EXCEPT !.block = a.block + 1]
  ELSE IF a.head + 1 < heads
       THEN [a EXCEPT !.block = 0, !.head = a.head + 1]
       ELSE [cyl |-> a.cyl + 1, head |-> 0, block |-> 0]

-----------------------------------------------------------------------------
Pages == RamPages \cup {NoPage}
NBlocks == cyls * heads * blocks_per_track
Junk == <<"junk", 0>>    \* an uninitialised buffer
Data == {Junk} \cup {<<"mem", p>> : p \in RamPages}
               \cup {<<"disk", b>> : b \in 0 .. NBlocks - 1}
CCWs == [page : Pages, more : BOOLEAN]
Commands == [op : {"read", "write", "compare", "other"}, ie : BOOLEAN, any : BOOLEAN]
PackAddresses == [cyl : 0 .. cyls - 1, head : 0 .. heads - 1,
                  block : 0 .. blocks_per_track - 1]

TypeOK ==
  /\ mem \in [RamPages -> Data]
  /\ image \in [0 .. NBlocks - 1 -> Data]
  /\ ccws \in [Clps -> CCWs]
  /\ cmd \in Commands
  /\ disk_clp \in Nat
  /\ disk_da \in Addresses
  /\ cur \in Addresses
  /\ disk_interrupt_delay \in 0 .. Delay
  /\ xbus \in BOOLEAN
  /\ pc \in {"idle", "transfer", "crashed"}
  /\ starts \in 0 .. MaxStarts
  /\ op \in {"read", "write"}
  /\ start \in Addresses
  /\ moved \in Seq(Pages)
  /\ outcome \in {"none", "done", "long", "fault"}

Init ==
  /\ mem = [p \in RamPages |-> <<"mem", p>>]
  /\ image = [b \in 0 .. NBlocks - 1 |-> <<"disk", b>>]
  /\ ccws \in [Clps -> CCWs]
  /\ cmd = [op |-> "read", ie |-> FALSE, any |-> FALSE]
  /\ disk_clp = 0
  /\ disk_da = [cyl |-> 0, head |-> 0, block |-> 0]
  /\ cur = [cyl |-> 0, head |-> 0, block |-> 0]
  /\ disk_interrupt_delay = 0
  /\ xbus = FALSE
  /\ pc = "idle"
  /\ starts = 0
  /\ op = "read"
  /\ start = [cyl |-> 0, head |-> 0, block |-> 0]
  /\ moved = <<>>
  /\ outcome = "none"

-----------------------------------------------------------------------------
\* Register writes by the driver (disk_xbus_write 0374, 0375, 0376).
LoadCommand(c) ==
  /\ pc = "idle" /\ starts < MaxStarts
  /\ cmd' = c
  /\ xbus' = (xbus /\ c.any)
  /\ UNCHANGED <<mem, image, ccws, disk_clp, disk_da, cur, disk_interrupt_delay,
                 pc, starts, op, start, moved, outcome>>

LoadAddress(clp, a) ==
  /\ pc = "idle" /\ starts < MaxStarts
  /\ disk_clp' = clp
  /\ disk_da' = a
  /\ outcome' = "none"
  /\ UNCHANGED <<mem, image, ccws, cmd, cur, disk_interrupt_delay, xbus, pc,
                 starts, op, start, moved>>

\* disk_start of a command other than read and write moves nothing, and no
\* interrupt follows; a read-compare decodes the address.
StartWithoutTransfer ==
  /\ pc = "idle"
  /\ cmd.op \notin {"read", "write"}
  /\ starts < MaxStarts /\ starts' = starts + 1
  /\ cur' = IF cmd.op = "compare" THEN disk_da ELSE cur
  /\ UNCHANGED <<mem, image, ccws, regs, disk_interrupt_delay, xbus, pc, op,
                 start, moved, outcome>>

Start ==
  /\ pc = "idle"
  /\ cmd.op \in {"read", "write"}
  /\ DriverWaits => disk_interrupt_delay = 0
  /\ starts < MaxStarts /\ starts' = starts + 1
  /\ cur' = disk_da
  /\ start' = disk_da /\ op' = cmd.op
  /\ moved' = <<>>
  /\ outcome' = "none"
  /\ pc' = "transfer"
  /\ UNCHANGED <<mem, image, ccws, regs, disk_interrupt_delay, xbus>>

\* The CCW cannot be read: the transfer is abandoned as it stands.
CcwFault ==
  /\ pc = "transfer"
  /\ disk_clp \notin Clps
  /\ pc' = "idle"
  /\ outcome' = "fault"
  /\ UNCHANGED <<mem, image, ccws, regs, cur, disk_interrupt_delay, xbus,
                 starts, op, start, moved>>

\* A block beyond the mapped image file: the access kills the emulator.
BeyondImage ==
  /\ pc = "transfer"
  /\ disk_clp \in Clps
  /\ BlockNo(cur) \notin DOMAIN image
  /\ pc' = "crashed"
  /\ UNCHANGED <<mem, image, ccws, regs, cur, disk_interrupt_delay, xbus,
                 starts, op, start, moved, outcome>>

\* Mutated form of ReadBlock.
ReadBlockAtRegister(p) ==
  /\ mem' = IF p \in RamPages THEN [mem EXCEPT ![p] = image[BlockNo(disk_da)]] ELSE mem
  /\ UNCHANGED image
  /\ \/ p # ListPage /\ UNCHANGED ccws
     \/ p = ListPage /\ ccws' \in [Clps -> CCWs]

\* One CCW of disk_start_read: disk_read_block.  write_phy_mem drops words
\* for memory that does not exist.
ReadBlock(p) ==
  /\ mem' = IF p \in RamPages THEN [mem EXCEPT ![p] = image[BlockNo(cur)]] ELSE mem
  /\ UNCHANGED image
  /\ \/ p # ListPage /\ UNCHANGED ccws
     \/ p = ListPage /\ ccws' \in [Clps -> CCWs]

\* One CCW of disk_start_write: disk_write_block.  read_phy_mem leaves the
\* buffer as it was for memory that does not exist.
WriteBlock(p) ==
  /\ image' = [image EXCEPT ![BlockNo(cur)] = IF p \in RamPages THEN mem[p] ELSE Junk]
  /\ UNCHANGED <<mem, ccws>>

\* Mutated form of Finish.
FinishWithoutTimer(a, how) ==
  /\ disk_da' = a
  /\ UNCHANGED disk_interrupt_delay
  /\ outcome' = how
  /\ pc' = "idle"

\* The end of the walk: the disk address register gets the address of the
\* block moved last, and the timer is armed if the command asked for it.
Finish(a, how) ==
  /\ disk_da' = a
  /\ disk_interrupt_delay' = IF cmd.ie THEN Delay ELSE disk_interrupt_delay
  /\ outcome' = how
  /\ pc' = "idle"

\* Mutated form of Advance.
AdvanceBeforeLast(ccw) ==
  \/ /\ ~ccw.more
     /\ cur' = IncrBlock(cur)
     /\ Finish(cur', "done")
     /\ UNCHANGED disk_clp
  \/ /\ ccw.more
     /\ cur' = IncrBlock(cur)
     /\ disk_clp' = disk_clp + 1
     /\ \/ /\ Len(moved) + 1 < MaxChain
           /\ UNCHANGED <<disk_da, disk_interrupt_delay, outcome, pc>>
        \/ /\ Len(moved) + 1 = MaxChain
           /\ Finish(cur', "long")

Advance(ccw) ==
  \/ /\ ~ccw.more
     /\ Finish(cur, "done")
     /\ UNCHANGED <<cur, disk_clp>>
  \/ /\ ccw.more
     /\ cur' = IncrBlock(cur)
     /\ disk_clp' = disk_clp + 1
     /\ \/ /\ Len(moved) + 1 < MaxChain
           /\ UNCHANGED <<disk_da, disk_interrupt_delay, outcome, pc>>
        \/ /\ Len(moved) + 1 = MaxChain
           /\ Finish(cur', "long")

Ccw ==
  /\ pc = "transfer"
  /\ disk_clp \in Clps
  /\ BlockNo(cur) \in DOMAIN image
  /\ \/ cmd.op = "read" /\ ReadBlock(ccws[disk_clp].page)
     \/ cmd.op = "write" /\ WriteBlock(ccws[disk_clp].page)
  /\ Advance(ccws[disk_clp])
  /\ moved' = Append(moved, ccws[disk_clp].page)
  /\ UNCHANGED <<cmd, xbus, starts, op, start>>

\* disk_poll, once per cycle: disk_throw_interrupt when the timer runs out.
DiskPoll ==
  /\ pc = "idle"
  /\ disk_interrupt_delay > 0
  /\ disk_interrupt_delay' = disk_interrupt_delay - 1
  /\ xbus' = (xbus \/ disk_interrupt_delay = 1)
  /\ UNCHANGED <<mem, image, ccws, regs, cur, pc, starts, op, start, moved,
                 outcome>>

Controller == CcwFault \/ BeyondImage \/ Ccw

Next ==
  \/ \E c \in Commands : LoadCommand(c)
  \/ \E clp \in Clps, a \in PackAddresses : LoadAddress(clp, a)
  \/ StartWithoutTransfer \/ Start
  \/ Controller
  \/ DiskPoll

Spec == Init /\ [][Next]_vars

\* The walk is a loop of one C function, and disk_poll runs every cycle.
FairSpec == Spec /\ WF_vars(Controller) /\ WF_vars(DiskPoll)

-----------------------------------------------------------------------------
\* The block the k-th CCW of a transfer moves.
BlockOf(k) == BlockNo(start) + k - 1

(***************************************************************************)
(* The walk moves consecutive blocks of the image, across the ends of      *)
(* tracks and cylinders: cur_cyl, cur_head and cur_block always address    *)
(* the block as many places behind the first as CCWs were processed.       *)
(***************************************************************************)
BlocksConsecutive == pc = "transfer" => BlockNo(cur) = BlockOf(Len(moved) + 1)

(***************************************************************************)
(* The outcome of a read is that of the whole list: each page holds the    *)
(* block of the last CCW that named it, however often the list names it    *)
(* and even when the list is read over itself.                             *)
(***************************************************************************)
ReadDelivers ==
  op = "read" =>
    \A k \in DOMAIN moved :
      moved[k] \in RamPages /\ (\A j \in DOMAIN moved : j > k => moved[j] # moved[k])
        => mem[moved[k]] = image[BlockOf(k)]

(***************************************************************************)
(* A write puts the page of every CCW into its own block, and a page that  *)
(* does not exist puts garbage there.                                      *)
(***************************************************************************)
WriteStores ==
  op = "write" =>
    \A k \in DOMAIN moved :
      image[BlockOf(k)] = IF moved[k] \in RamPages THEN mem[moved[k]] ELSE Junk

(***************************************************************************)
(* After a list that ends with a CCW without the chain bit, the disk       *)
(* address register names the last block moved, not the one after it, so   *)
(* that a driver finds the place of an error.                              *)
(***************************************************************************)
AddressNamesLastBlock ==
  outcome = "done" => BlockNo(disk_da) = BlockOf(Len(moved))

(***************************************************************************)
(* Whatever the direction, a transfer moves the right blocks: what it      *)
(* overwrites, the command list included, is what its list asked for, and  *)
(* it ends where the driver looks for the end.                             *)
(***************************************************************************)
TransferDelivers == TypeOK /\ ReadDelivers /\ WriteStores /\ AddressNamesLastBlock

(***************************************************************************)
(* A transfer whose command asks for an interrupt raises it, if its list   *)
(* can be read to the end, its blocks are on the pack, and the driver      *)
(* starts no other transfer in the meantime (a second start re-arms the    *)
(* one timer).                                                             *)
(***************************************************************************)
InterruptComes ==
  (pc = "transfer" /\ cmd.ie) ~> (xbus \/ outcome = "fault" \/ pc = "crashed")
=============================================================================
