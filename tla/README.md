# Verification of usim

usim emulates the CADR, a Lisp machine: one C process with one thread, which
runs microinstructions, polls its devices between them, and is interrupted by
one signal.  Beside the emulator the repository holds `diskmaker`, which makes
its disk image, and programs that print files (`lod`, `lmfs`, `readmcr`) or
debug a real CADR over a serial line (`cc`).

This directory holds TLA+ models of the emulator's components and of
`diskmaker`, `lmfs`, `lod` and `cc`, model-checked with TLC and partly proved
with TLAPS.
`PROJECT.json` lists the runs, maps every definition to its source lines,
and lists the hazards, the findings and the theorems.

## The system

| Component | Source | State | Operations | What makes it correct |
| --- | --- | --- | --- | --- |
| Interrupt status register | ucode.c:75-118, tv.c, disk.c | `interrupt_status_reg`, `interrupt_pending_flag`, bit 4 of `tv_csr` | assert and deassert Unibus and Xbus requests; writes at Unibus 040, 042; 60 Hz signal | the flag follows the register although the signal falls into updates; no device loses a request but the TV, and that one comes again |
| Keyboard, mouse, I/O board | kbd.c:217-296, mouse.c, iob.c, x11.c:174-212 | scan register, CSR, key ring, button latches, mouse counters, clock latch | X events, polls, register reads and writes | keys arrive in order, an announced key stays until read, no key waits forever; the cursor follows the pointer; a clock read in two halves is a time |
| Keyboard translation | kbd.c:12-215, 298-393, x11.c:55-172 | tables | X key and modifiers to scan code | a US keyboard types what is printed on it |
| TV and X11 window | tv.c, x11.c:214-346 | bitmap, rectangle to refresh | TV write, poll, Expose | the window shows the bitmap |
| Chaosnet | chaos.c | CSR, two buffers, socket, reconnection counters | register accesses, poll, connect, send | a packet in the buffer is announced, with an interrupt and its own length; lost links come back |
| Disk controller | disk.c | command, list pointer, address, timer | start, one step per CCW, poll | the right blocks in the right pages; the interrupt comes |
| Microcode sequencing | ucode.c:728-870, 1085-1443 | `u_pc`, `p1`, stall flag, SPC ring, control memory, PROM flag | one microinstruction | delayed branches, returns in order, and the word executed is the word stored |
| ALU, bytes, dispatch | ucode.c:900-1430 | M, A, Q, dispatch memory | one microinstruction | functions, and the multiply and divide sequences, compute what they are named for |
| Scratchpad, PDL | ucode.c:410-460, 543-698, 818-907 | A and M memory, PDL buffer, pointer, index, modifier | one microinstruction | the buffer is a stack; a modified instruction hits the word meant, and only it is modified |
| Macroinstruction stream | ucode.c:495-600, 795-803 | LC, `need_fetch`, VMA, MD, flags | `advance_lc`, LC and memory destinations, conditions | the word held is the one LC is in |
| Memory | mem.c, ucode.c:130-460, 640-676 | L1 and L2 maps, pages, fault bits | map, processor and disk accesses | coherent; a mapped page exists |
| Warm state | mem.c:187-263, ucode.c, usim.c | `usim.state`, flags | save, restore, halt, C-c | what is restored is what was saved |
| Disk pack | diskmaker.c | label, partitions, image | create, modify, relabel, mark, extract | partitions hold their files, others are left alone; what is extracted is what is there, however far it gets |
| File system reader | lmfs.c | window over a record | advance, read the next record, copy, list | files come out byte for byte, directories entry for entry |
| Band reader | lod.c | one block, displacement | read a word, search for a header | the word shown is the word asked for, from the file asked for |
| Serial debugger | cc.c | a register's value in flight, retries | send, ask, compare, clock | an instruction is executed once, as asked, whatever the line loses |

The components interact by calls within the one thread.  The microcode calls
devices through `write_mem`/`read_mem` (registers); the loop of `run()` calls
`disk_poll`, `tv_poll` (which runs the X events) and `chaos_poll`; devices call
`assert_unibus_interrupt` and `assert_xbus_interrupt`; the disk moves words
with `read_phy_mem` and `write_phy_mem`.  The only true concurrency is
SIGVTALRM, whose handler updates the interrupt register.  Outside are the X
server, the chaosd daemon, the user who stops the process, the files of
one process that a later one reads, and, for cc, the serial line and the CADR
behind it.

Hard to test, therefore: the signal within an update; a poll between two
register accesses that belong together; CSR bits, buffer sizes and pointers
that are updated apart; an instruction fetched before the one that changes it;
a serial line that loses, repeats and delays; a daemon that stops; a process that stops in the
middle of a file; sequences of microinstructions that are meaningful only
together; and everything at the edge of a word or a ring.  `PROJECT.json`
lists these hazards by line, with the properties that cover each.

## Modules

Definitions keep the names of the source (`kbd_key_scan`, `advance_lc`), or
are named for the step they model where one C function makes several.
Definitions marked as a mutated form (`WriteLcKeepsFetch`) are variants with a
plausible defect: no specification uses them; they serve to show that a property
notices the defect.

* `IntReg`, `Interrupts` - the register as a value, and its updates in three
  machine steps (load, store, flag).  The C variables are not volatile and
  shared with a handler, so the flag may be computed from the value stored or
  from the register read back: `StoreFlag` allows both.  `Sigalrm` is enabled
  in every state.
* `KeyQueue`, `Keyboard` - the ring with its pointers and free count, the bypass
  and the drop of `kbd_key_event`, the button latches, and a driver that reads
  the scan register in two halves.  Keys are numbered in the order typed.
  `KeyQueue` is the FIFO that the ring implements (`ImplementsKeyQueue`, with
  `queue <- Waiting`).
* `Console` - `Keyboard` and the window: TV writes, the rectangle they grow,
  the poll that puts it before it takes a key and the X events, and Expose
  events.  Of a word of the bitmap only whether the window shows it is kept.
* `MouseTracking`, `UsClock`, `KeyTranslation` - an axis of the mouse, with the
  microcode's tracking (external); the clock and any number of programs that
  read its halves; the translation as operators, checked for each key with
  each set of modifiers: keys that print, keys with a code of their own, and keys
  that are listed but unknown to the code.  `IoBoard` puts them beside `Console`: they share the
  board but no state, so each behaviour is one part's, and the others stand still.
* `SpyBus` - what cc does is a script, a sequence of register writes, reads and
  comparisons, made by the operators named for its procedures (`ExecuteR`,
  `WriteMd`, `TestIr`); a comparison that fails puts the steps to repeat in front
  of the script again.  Below it, characters travel one by one and may be lost
  (also by cc itself: `tcflush` follows each `write`, cc.c:73-76), repeated,
  divided between reads or late.  The CADR is external: registers, and a clock
  that executes what is in IR on a rising edge without the no-operation bit.
* `Chaos` - `nic` is the software's view (CSR, buffers), `link` the socket's.
  Each register access and each poll is one action, composed of the steps that
  the C function takes.  Descriptors are tracked as far as descriptor 0
  matters.  A transmission adds two words to the buffer, its source and its
  checksum; one without room for them writes behind the buffer
  (chaos.c:217-219), which is undefined, so the model has only those with room
  (`HasRoom`).
* `Disk` - block arithmetic, and the controller with one step
  per CCW.  Pages and blocks hold one value each.  The CCW list is in memory
  and is replaced by any other when the transfer reads over it.
* `MicroSeq`, `MicroPipeline` - what microcode relies on (an instruction, the
  one fetched behind it, a stack of return addresses) and `run()`'s
  `p0`/`p1`/`u_pc`, stall and ring, with the mapping `Cur`, `NextUp`, `Stack`.
  Instruction words are left open: any instruction may come next.
  `ControlStore` extends it by what words are: each is told by its place and
  the number of the write that put it there.  A write is made by the jump that
  carries P and R, whether or not it is taken; leaving the PROM is an ordinary
  instruction's memory write.
* `Words`, `Alu`, `ByteField`, `MicroPrograms` - a word is the set of its bits.
  Arithmetic is modulo `2^W`; the carry out is computed as `add32` and `sub32`
  compute it.  `Alu` and `ByteField` are the functions of the instructions,
  `MicroPrograms` the sequences that give them a purpose: multiplication,
  division, a byte moved between words, a dispatch table written and used, and
  stores whose destination the instruction before modifies.
* `PdlBuffer` - every pair of a source and a destination of the buffer, with a
  constant added between them; beside it, as history, the stack that its users
  mean.
* `MacroFetch` - one step per microinstruction; words are named by their
  address, with the MD delay counted down as in the loop.
* `VirtualMemory` - maps and pages; a page stands for each of its words.
  (`last_virt`, `last_l1` and `last_l2` of mem.c are written and never read.)
* `WarmState` - save and restore page by page, with `Interrupt` anywhere and
  several processes.  `Memory` puts it beside `VirtualMemory`: a save takes
  memory as it stands, so the two share constants but no state.
* `DiskPack` - the image across commands of diskmaker; a partition is one
  step, of which a failing read or write or a kill leaves a part, whether it is
  made or extracted.  A failing copy may be followed by zeros, as in
  `make_one_partition`; an extraction may get any number of blocks into its
  file, which is not truncated, so what an earlier one left may lie behind.
  As history, `made` says which partitions a create has written without an error.
* `FileSystem` - lmfs's window over one record, for a file or a directory of any
  length that begins anywhere in its first record; a block is named by record
  and number, so a byte or an entry tells where it came from.  That the writes to
  the extracted file succeed (lmfs.c:433 does not look) is assumed.
* `BandReader` - lod's buffer of one block, for a band, a disk or both.  Any read
  of a block may fail, which leaves the old block under the new number.
  What was read is kept as history: whether the block of the word shown failed
  (`spoiled`) or one of the search's did (`misled`), which block the band
  was last asked for (`bandBlock`), and whether the disk has been asked for another
  since (`turned`).
* `DiskTools` composes the three programs that read or write disks by files:
  each behaviour is a run of one of them.

`ProcessorProofs`, `IoBoardProofs`, `ChaosProofs`, `DiskProofs`,
`MicrocodeProofs`, `MemoryProofs`, `DiskToolsProofs` and `SpyBusProofs` hold
the theorems.  `MC*` modules give the constants values for TLC; `MCProcessor`
puts four parts of `run()` side by side that share no state: a behaviour is of
one of them.

## Runs

Runs that pass:

| Run | Shows | Bounds, and why they are enough |
| --- | --- | --- |
| `interrupts` | what the signal can and cannot do to the register and the flag; that a hidden TV request is repaired | two vectors and none; nothing else is bounded |
| `io_board` | order, announcements, latches; the ring is a FIFO; no key waits forever; stale cells are in the rectangle and get to the window; cursor, clock and translation | ring of 2 and 4 keys: it fills, overflows and wraps; a bitmap of 2 words by 1 line, in which the rectangle has an edge of each kind (the theorem has every size); a screen of 3 and a counter of 8, which wraps, with 3 events between two looks; seconds of 2 microseconds, 3 of them, and halves of 3, so that borrows and carries fall anywhere, with 2 programs; all keys and modifiers |
| `spy_bus` | answers are of the register asked; instructions executed once and as asked; verdicts; retries end | registers of 2 digits, instructions of 2 registers, one with a register of zeros; 1 empty read before a request is repeated; 3 faults in a sequence of calls, as two are needed to deceive a register test |
| `chaos` | packets announced, interrupted, counted; requests for a reconnection attempted | one packet length; a second adds no case as lengths are only compared with 0; transmit buffer of three words, of which two are for source and checksum, so that one may be put and sent and a second leaves no room; throttle of 2 polls and 1 second |
| `disk` | consecutive blocks, the right data, the address register, the interrupt | a cylinder of 2 x 2 blocks (the theorem below has every geometry); all lists of 2 CCWs over two pages and a missing one; lists may run off memory and off the pack; two transfers, so that one meets what another left in registers, memory and timer |
| `processor` | refinement of `MicroSeq`, and what is executed is what is stored; fetches, halfword selection, MD; multiply, divide, Boolean table, sign of sums, bytes, dispatches, modified stores; the PDL buffer | ring of 2: full and empty are both reached; addresses to 5, targets with and without bit 1, one of which is written once; a stream of 3 words of 4 bytes, LC written in the middle and near the end; words of 4 bits, all operands, positions and lengths; dispatch memory, A and M memory of 8; a PDL buffer of 3, which wraps and forgets, words -1 to 2 and addends -1 to 1, so that words serve as pointers too |
| `virtual_memory` | mapped pages exist, coherence; a complete save is restored exactly | two L1 entries that may share a block, two RAM pages, one absent page, one device; three processes: one saves, one fails to, one restores |
| `disk_tools` | partitions, other partitions, extractions, all of them broken off anywhere; files and directories read by lmfs; words read by lod | two templates of three partitions with files too long, just right and missing; images of five blocks; files and directories of up to three records of 2 blocks, whose 5 bytes hold two entries and a rest, and 2 blocks that cannot be read; a band of 3 blocks of 2 words, a disk or both, 3 words asked for besides those of a search, and one block that fails to be read |

`CHECK_DEADLOCK FALSE` is given where a behaviour ends: `disk` (the driver stops
after `MaxStarts` transfers, or the emulator has crashed), `processor` (halt, the bound on `u_pc`, or
a program ends),
`virtual_memory` and `warm_torn` (no process may be started any more) and
`disk_tools` (a program has done what it was asked).  In `chaos` the clock and
the daemon go on after the emulator has died.

Runs that find a disagreement between the code and what it says of itself, one
property each:

| Run | Disagreement |
| --- | --- |
| `keys_meta` | x11.c:161 says "if Control or Meta, add in Shift", but `17 << 10` is decimal and covers Control and not Meta, so Meta alone adds nothing |
| `keys_listed` | Escape, F7, Page Up, Home and End are not the keys that README:35-51 lists: process_key makes Terminal of Escape and Call of F7, and does not know the others |
| `chaos_stdin` | a reset without a connection closes descriptor 0; the next socket is 0, "reconnected", and never used (chaos.c:403, 419, 707) |
| `warm_torn` | usim.state may be a mixture of two saves, and is "restored" (mem.c:223, 235) |

### Other disagreements met while modelling

No run is spent on these.  The models contain most of them and take the code's
side; those marked (not modelled) are outside every model.

* chaos.c:350 "Do it right away." is still subject to the five-second throttle
  (chaos.c:697).
* chaos.c:683: a reconnection marks a receive buffer with unread words as empty,
  and the next packet overwrites it.
* chaos.c:217-219: nothing compares the words put in the transmit buffer with
  its size when source and checksum are added; with less than two words left
  they are written behind it (not modelled).
* chaos.c:601: sending to a daemon that is gone raises SIGPIPE, which nothing
  handles, so the error path behind `writev` is not reached.
* ucode.c:1031: [EQV] is computed with `==`, unlike the other Boolean functions.
* ucode.c:711, 1120: the "correct sign" of a shifted difference is an unsigned
  comparison (`sub32`).
* ucode.c:502-508: "LC is 26 bits", but it carries into the flags above.
* ucode.c:1173: the sequence break flag, bit 26, is assigned to a char, so
  condition 6 ("i|pf|sb") never sees it.
* mem.c:253: a save stops at the first page that was never used, although
  README:102-107 promises that the state is saved; ucode.c:1436: C-c
  (README:106) ends the process without saving.
* diskmaker.c:786-797: extract does not truncate the file it writes, and ends
  without an error when a block cannot be read or written.
* x11.c:77: Caps Lock shifts digits too, and together with Shift it types Break,
  since X delivers the shifted character, whose unshifted entry is empty
  (except [@], [^] and [:]); with Control, shifted [@], [^] and [:] turn into the
  characters above them on the old keyboard.
* kbd.c:295: the warm boot key, "a Return", is sent with `keydown` 0, which sets
  the bits of the top column, End; kbd.c:389, 392: the codes entered for 9 and
  033 are characters, not rows; kbd.c:308: rows named LM_K_* are entered under
  negative indices where char is signed (not modelled).
* iob.c:70: the high half of the clock exceeds 16 bits after 71 minutes.
* iob.c:149-153: a read of any unlisted register transmits a Chaosnet packet (not
  modelled).
* mouse.c:40: two mouse events between two looks of the microcode count the
  distance twice, so the cursor overshoots until the next event.
* tv.c:47-65: tv_write lacks the bound check that tv_read has (tv.c:81; not
  modelled).
* ucode.c:789-795: a write of control memory is not seen by the instruction
  behind it, which was fetched before, unless the jump that wrote it has the N
  bit: the stall fetches again.
* lmfs.c:60: ensure_access shows what does not fit at the beginning of the next
  block but goes on from where it would have been; lmfs.c:631: the walk over the
  root directory does not look for the end of its record, and lmfs.c:433: no write
  to the extracted file is checked (both not modelled); lmfs.c:353: blocks
  that cannot be read leave the ones before them in the window; lmfs.c:437: a
  file that ends with a record is followed by one more, useless, read.
* lod.c:214: with a disk given, words of the band are displaced by the disk's
  SWAP partition too, and the first word of the disk may come from the band's
  block; lod.c:116: a block that cannot be read leaves the one before it in the
  buffer, under the new number; lod.c:471: the limit of the search counts down,
  and so never ends it.
* cc.c:136: when an answer comes in two parts, only as many characters as the
  last part has are looked at, and the register counts as 0, which a caller
  that expects 0 takes for success; cc.c:547, 556: a character lost from a clock
  write is never noticed, and what is in IR may be executed unverified.
* usim.c:60: -h is offered (usim.c:48) but not accepted (not modelled).

## Fairness

Liveness is checked under assumptions that the loop of `run()` justifies.

* `Interrupts`: the main thread finishes an update it began, and the virtual
  interval timer, which counts CPU time that the emulator always consumes,
  keeps firing (weak fairness of both).
* `IoBoard`: polls recur (weak), and a burst of X events is handled and comes to
  an end; the end is assumed strongly fair, for while events come faster than
  they are handled the C loop does not return (x11.c:187).  The driver reads an
  announced key (strong: a poll may disable and enable these actions in turn).
  Nothing is assumed of mouse, clock and keys.
* `SpyBus`: cc goes on with a call it began (weak fairness of `Proceed`).  That
  the line is as it should be most of the time is not fairness but a bound:
  there are `MaxFaults` faults in all.
* `Chaos`: polls recur as long as the emulator lives, and seconds pass.  The
  software is not assumed to do anything, and a reset may come at any time.
* `Disk`: the walk is a C loop, and `disk_poll` is called every cycle.  The
  interrupt is promised only if drivers start nothing while one is due
  (`DriverWaits`): a second start re-arms the one timer.

## Proofs

TLC checks the instances above; the theorems hold for every value of the
constants that satisfies the modules' assumptions.  No property below is
inductive, unless that is said; what had to be added to it follows.

* `ProcessorProofs`.
  - *Interrupts.*  `TypeCorrect`, then `FlagFollowsRegister`, `XbusBitAccounted`
    and `DiskCompletionVisible`.  They speak of the times between
    updates.  Their inductive forms say what is known of `new`, the value about to
    be stored, at each `main_pc`, e.g. that an Xbus bit missing from it is missing
    because a device withdrew it or because a signal came later, which then shows
    as `tv_irq`.
  - *Bytes.*  `BytesMove`, for words of every length: a bit of a rotated word was
    `n` bits lower, or wrapped once (`Rotated`), and a mask is the bits of the byte,
    or nothing when the byte runs off the word (`MaskBits`).  So LDB, with the
    rotation the assembler gives it, brings the byte to the bottom (`ByteLoaded`),
    DPB brings it to its place and keeps the rest (`ByteDeposited`); the invariant
    says what M and A hold after each of the two.
  - *Boolean functions.*  `FunctionsAreTables`: bit by bit, each of the fifteen
    expressions of the code is the truth table that its function code spells
    (`BooleanIsTable`).  [EQV], which the code computes with `==`, is excepted.
  - *Modifier.*  `ModifierReachesNext`: the invariant says for each place of A and M
    memory what is there after each of the three instructions (`Landed`), and that
    the modifier is set between the first and the second of them and not after.
  - `WordsStayWords` is the type invariant: no function, shift, rotation or merge
    leaves the word.  It needs words of two bits or more, as the model's
    addresses and map bits have two.

  Assumptions: `VectorsAssumption`, `WidthAssumption`, `TwoBitsAssumption`.
* `IoBoardProofs`, one part of the board after the other.
  - *Keyboard.*  The invariant says where the indices are: `optr`, where the next
    key is put, is as many slots ahead of `iptr`, where the next is taken, as are
    used; that keys in the ring, in the registers
    and in the driver's hand are in the order typed; and that while X events are
    handled and the latches announce nothing, nothing waits in the ring: the poll
    has taken it out before, which is why the bypass of `kbd_key_event` cannot
    overtake.  `KeysKeepTheirOrder` and `AnnouncedIsThere` follow.  For
    `RingImplementsQueue`, the ring is read as the sequence `Waiting`, and an
    enqueue appends to it, a dequeue takes its head, for a ring of any length.
  - *Window.*  `NothingStaleForgotten` adds to `StaleCovered` that the sides of the
    rectangle are natural numbers and stale cells lie in the bitmap.  Then a
    rectangle with a cell in it is never taken for an empty one by the test before
    XPutImage (`RectangleIsPut`), and what is drawn next does not take cells out
    of it (`RectangleGrows`).
  - *Clock.*  `ClockIsRight`: the latch is the count at the latest read of a low
    half and never ahead of the time of day, so that a reader whose low half is
    the latest finds its own high half; the arithmetic is that of borrows
    between seconds and microseconds, and of a quotient and a rest of any width.
  - *Mouse.*  `CursorComesToPointer`: after one event, the counter is ahead of
    where the microcode looked by exactly what the pointer is ahead of the
    cursor, and since the counter has room for twice the screen, a difference
    that wrapped is told from one that did not.
  - `BoardKeepsPromises`: a behaviour of the composed `IoBoard` is one of each
    part, so all of this holds in it.

  Assumptions: `LenAssumption`, `MaxKeysAssumption`, `ScreenAssumption`,
  `ClockAssumption`, `MouseAssumption`.
* `ChaosProofs`.  `ReceiverStaysConsistent`: the property says nothing of an
  empty buffer, so its invariant is inductive once it stops asking for the
  interrupt inside `chaos_set_csr`, whose first steps keep only `Sound`; the
  enabling of the receiver then restores the rest (`ReceiveEnableConsistent`).
  It holds for buffers of any size, as long as no transmission overruns the
  transmit buffer (`HasRoom`).
  Assumption: `ChaosAssumption`.
* `DiskProofs`.  `TransferIsConsecutive` rests on `IncrBlockIsNext`: the
  successor of a block within a track and cylinder is the next block number,
  for any geometry.  The invariant adds that `cur` keeps head and block within
  the geometry.  `TransfersDeliver` adds that while a list is walked the
  direction is that of the command and nothing is announced yet.  What a transfer
  has moved so far is in the property; the list still to be read is not, so it
  may be any, also one that the transfer itself reads over its own.  Assumptions: `GeometryAssumption`,
  `DiskAssumption`.
* `MicrocodeProofs`.
  - `StoredWordIsExecuted` needs to know where the word fetched ahead came from:
    it is what is stored at `p1_pc`, unless the last turn changed that.  It rests
    on the type correctness of the whole pipeline (`TurnMoves`), with one lemma for
    each of the stack operations.
  - `PipelineImplementsSequencing` and `StoreImplementsSequencing`: every turn of
    `run()` is one step of `MicroSeq`, for each kind of instruction; behind a stall
    the current instruction is the one at `u_pc`.  The ring
    with its count is read as a sequence, newest last; a push on a full ring is
    an append that forgets the oldest, a pop of an empty one a pop of nothing.
  - `EntriesStay`: entry `i` of `Len` entries lies at `ptr - Len + i`, modulo the
    size of the buffer, and the index where its marked entry is.  No two entries
    lie in one place (`MaskedDiffer`, from the uniqueness of a rest), so a
    write reaches the entry meant and no other; a move may change the pointer in
    its source, its destination and its word at once (`MoveKeeps`).
  - `StreamIsCurrent` adds to the two properties what LC's low bits say when no
    fetch is needed; `HalfwordIsSelected` follows from it.  `FetchedWordArrives`
    adds that while the delay runs, `new_md` is the word held, unless something
    else was read or written.

  Assumptions: `PipelineAssumption`, `StoreAssumption`, `PdlAssumption`,
  `FetchAssumption` (the limit is a multiple of four).
* `MemoryProofs`.  `MappedPagesExist` adds that every entry of the L2 map,
  reachable or not, that gives access names an existing page; `MemoryIsCoherent`
  adds that an existing page holds what was last written to it.
  `CompleteSavesRestore`: a complete file is the memory it was written from;
  during a save, and during a restore, the pages before the next one are the
  same in memory and in the file; and a process restores once.
  `MemoryKeepsPromises` is the composition.  Assumptions: `MemoryAssumption`,
  `WarmAssumption`.
* `DiskToolsProofs`.
  - `WordsComeAsAsked`: whether one file is given or both, the buffer holds the
    block whose number is noted, displaced as `set_swap` has it, unless the read of
    that block failed (`spoiled`).  It is the disk's once the disk was asked for
    another block than the band's last (`turned`), and the band's until then: that
    is all that the number does not tell.  A search sees words so displaced, and
    among those between where it began and where it is no header, unless
    the read of one of their blocks failed (`misled`).
  - `FilesRead` and `DirectoriesRead`: each place of the window holds the block of the
    record that was last read into it, so that byte `i` of a file, or entry `i` of a
    directory, is where the offset points; entries that do not fit at the end of a
    block need the count of those in all blocks behind (`EntryPlace`).
  - `PacksHoldTheirFiles`: while a pack is made, the partitions in `made` hold
    their files and lie before the one that is made next (`MadeRight`), and those
    still to be made are a rest of the template (`Creating`); so whatever becomes of
    that one, the ones before it stay.  What lies behind the end of the image is
    zero, so a file's last blocks that nobody wrote are too; a modification has
    changed nothing until it makes its one partition.  Partitions that do not
    overlap are a hypothesis of the property, as diskmaker does not check the
    template.
  - `ExtractionsReturn`: the label by which an extraction goes is that of the
    template while there is something in `made`; so the blocks it
    copies, however many, are those of the partition asked for, and `MadeRight`
    says what they hold.  Behind them the file is what it was.
  - `DiskToolsDeliver` is the composition.

  Assumptions: `BandAssumption`, `FileSystemAssumption`, `PackAssumption`
  (partitions begin behind the label and are not empty) and
  `BoundAssumption`, which says that the model's last block is behind everything
  that is written: the code has no such limit.
* `SpyBusProofs`.
  - `AnswersAreOfTheRegister`: of the answer that `reg_get` waits for there is
    never more than was sent.  What it has already and what is on the line are
    together that answer, or too few characters to be taken for one; and when
    it has a part only, the line has divided the answer (`LineRight`).
  - `InstructionExecutedOnce`: what is left of the script is the whole script from
    its k-th step on (`StepsRight`), since a comparison that fails puts in front of
    it just the steps that come before.  What holds at a step depends on k
    alone: which words were read, which comparisons succeeded since the
    register was last written, that the clock is low before the step that
    executes, and that nothing was executed before it.  A command to the
    clock finds the digit that was sent (`ClockRight`), unless that was lost.
  - `TestsTellTheTruth`: a test is three attempts, of which the second only reads
    again (`TestItems`).  A step is clean if no fault came before it in the
    first attempt, and at most one before it in the third; at a clean step the
    register holds what was written and what was read is what it holds
    (`Exact`), so that an attempt that finds something else has used up a fault:
    `BAD` takes two.  The clock is part of it: IR is loaded by its rising edge,
    so it must be low when an attempt begins, and every other procedure must
    leave it low (`Quiet`).  The pulse of the first attempt may lose its last
    digit or command; then IR is loaded, the clock stays high, and that fault
    must not count twice (`PulseEnds`, the second case of `Clean`).  And a test
    that passes has compared answers, each of which was the register's.
  - `SpyBusTypes`.

  Assumptions: `SizeAssumption`, `WordAssumption`.

Only model-checked:

* `NumbersDeliver`: products, quotients, sums and table indices relate a word to
  the number it stands for, a sum over its bits, which needs induction over
  data, and powers of two, of which the provers know nothing.  It is checked for
  all words of 4 bits;
* `TypesWhatIsPrinted`, of `KeyTranslation`: a finite table, all of which TLC
  enumerates;
* the attempt to reconnect of `Chaos`, and all liveness, which is
  beyond the prover: `MaskedTvIsRepaired`, `WaitingKeyAdvances`, `WindowCatchesUp`,
  `CallEnds`, `ReconnectAttempted`, `InterruptComes`.

## Not modelled

* Of `ucode.c`: the dispatch constant and old-PC register as sources; the high
  modifier, whose merge is that of the low one; `u_pc` past the end of control
  memory; `chaos.c`'s reads before a buffer and writes behind one.
* Of `cc.c`: commands that leave the machine running or print status and buses,
  the mmc registers, and the end of `reg_get`'s 64-character buffer.
* Of `lmfs.c` and `lod.c`: what is printed, label and headers, more than 64
  records in a map, and writes to an extracted file that fail.
* Option parsing, symbol tables, traces and the disassembler, readmcr.c: they
  read or print front to back, and change no state that lasts.
* ether.c, whose `enabled` is never set; uart.c and lashup.c, which are stubs.
* 18 partitions fit in the label that diskmaker writes; more are not modelled,
  nor are files that are not whole blocks.

## Plan

Done, in this order: interrupts, keyboard, Chaosnet and disk (where there
is concurrency or failure), the micro engine, memory, warm state and disk pack;
then the window, clock, mouse and key translation beside the keyboard, control
memory, modifiers and the PDL buffer, the serial debugger, and the file readers.

Next, to extend the model:

1. An abstract disk (a transfer as one atomic step) that `Disk` implements, and
   an abstract network interface (a packet arrives, is announced, is read) that
   `Chaos` implements.
2. The emulator's loop as a composition of interrupts, disk and keyboard, with
   a driver that uses the vector to tell them apart (overwritten vectors,
   requests dropped while disabled).

What there is to prove about either is that the detailed module implements the
abstract one; of the properties checked today, those left without a theorem are
listed under *Only model-checked*.
