----------------------------- MODULE FileSystem -----------------------------
(***************************************************************************)
(* The reader of file system partitions (lmfs.c).  Files and directories   *)
(* are made of records of a few blocks, each with a little overhead around *)
(* its payload; a window (baccess) shows the payload of one record at a    *)
(* time.  A file's bytes run on from block to block and record to record;  *)
(* an entry of a directory is never divided between two blocks.            *)
(*                                                                         *)
(* A block is named by record and number, and what the window holds by     *)
(* whence it was read, since a block that cannot be read leaves in the     *)
(* window what was there before.  The layout on the disk is external: it   *)
(* is that which the reader expects.  The file that is written takes all   *)
(* it is given (lmfs.c:433 does not look).                                 *)
(***************************************************************************)
EXTENDS Integers, Sequences, FiniteSets

CONSTANTS
  Payload,      \* bytes in a block, 1008 in the code
  Blocks,       \* blocks in a record, 4 in the code
  EntrySize,    \* of a directory entry, and room for a directory's header
  MaxRecords,   \* bound: records of a file or directory
  MaxFailures   \* bound: blocks that cannot be read

ASSUME FileSystemAssumption ==
  /\ Payload \in Nat \ {0} /\ Blocks \in Nat \ {0}
  /\ EntrySize \in 1 .. Payload
  /\ MaxRecords \in Nat \ {0} /\ MaxFailures \in Nat

VARIABLES
  item,     \* what is read: a file or a directory, and where it begins
  offset,   \* the window's offset
  held,     \* the window's buffer: place -> the block it was read from
  n,        \* how many records of the file map have been used
  left,     \* bytes, or entries, still to come
  out,      \* the bytes written to the file, or the entries shown
  failed,   \* history: the blocks that could not be read
  reading   \* FALSE when it is done, or the program has died

fsVars == <<item, offset, held, n, left, out, failed, reading>>

Places == 0 .. Blocks - 1
RecordSize == Payload * Blocks

\* Records of the item are counted from 0: file maps (external) list those
\* from 1 on.

\* What the disk has at a place: the number of the byte of the file ...
FileByte(b, at) == (b[1] * RecordSize) + (b[2] * Payload) + at - item.start

\* ... and the number of the entry of the directory.  The first entry is as far
\* from the header as entries are from one another, and every block holds as
\* many as find room.
PerBlock == Payload \div EntrySize
HeaderBlock == item.start \div Payload
InHeaderBlock == ((Payload - (item.start % Payload)) \div EntrySize) - 1
EntryAt(b, at) ==
  LET whole == (b[1] * Blocks) + b[2] - HeaderBlock
      since == at - (item.start % Payload)
  IN  IF whole = 0 /\ since >= 0 /\ since % EntrySize = 0
      THEN since \div EntrySize
      ELSE IF whole > 0 /\ at % EntrySize = 0 /\ at + EntrySize <= Payload
      THEN InHeaderBlock + ((whole - 1) * PerBlock) + (at \div EntrySize) + 1
      ELSE 0

-----------------------------------------------------------------------------
\* Mutated form of ReadRecord.
ReadRecordKeepsOffset(r, o) ==
  /\ \E bad \in {x \in SUBSET Places : Cardinality(failed) + Cardinality(x) <= MaxFailures} :
       /\ held' = [p \in Places |-> IF p \in bad THEN held[p] ELSE <<r, p>>]
       /\ failed' = failed \cup {<<r, p>> : p \in bad}
  /\ offset' = offset + o

\* read_record, and ensure_access of what is at offset o: read_block's result
\* is ignored.
ReadRecord(r, o) ==
  /\ \E bad \in {x \in SUBSET Places : Cardinality(failed) + Cardinality(x) <= MaxFailures} :
       /\ held' = [p \in Places |-> IF p \in bad THEN held[p] ELSE <<r, p>>]
       /\ failed' = failed \cup {<<r, p>> : p \in bad}
  /\ offset' = o

\* The room in the block at an offset; remaining_access.
Room(o) == Payload - (o % Payload)

\* Mutated form of Advanced.
AdvancedAnywhere(o, size) == o + size

\* advance_access: what does not fit is at the beginning of the next block.
Advanced(o, size) ==
  IF (o + size) \div Payload < Blocks /\ Room(o + size) < size
  THEN ((o + size) \div Payload + 1) * Payload
  ELSE o + size

Beyond(o) == o >= RecordSize

-----------------------------------------------------------------------------
\* The header of the item, in its first record, has been read, and what is
\* shown is at item.start: for a directory its own header.
FsInit ==
  /\ item \in [kind : {"file", "directory", "root"}, start : 0 .. RecordSize - 1]
  /\ offset = item.start
  /\ held = [p \in Places |-> <<0, p>>]
  /\ n = 0
  /\ left \in 0 .. (MaxRecords * RecordSize) - item.start
  /\ item.kind # "file" =>
       left <= InHeaderBlock + (((MaxRecords * Blocks) - HeaderBlock - 1) * PerBlock)
  /\ out = <<>> /\ failed = {} /\ reading = TRUE

\* One turn of show_file's loop: the rest of a block, or of the file.
CopyBytes ==
  /\ reading /\ item.kind = "file"
  /\ LET use == IF left < Room(offset) THEN left ELSE Room(offset)
         place == held[offset \div Payload]
         next == Advanced(offset, use)
     IN  /\ out' = out \o [i \in 1 .. use |-> FileByte(place, (offset % Payload) + i - 1)]
         /\ left' = left - use
         /\ IF next = RecordSize
            THEN ReadRecord(n + 1, 0) /\ n' = n + 1
            ELSE offset' = next /\ UNCHANGED <<held, failed, n>>
  /\ reading' = (left' > 0)
  /\ UNCHANGED item

\* The entry at an offset is shown, from what the buffer holds.
ShowEntry(buffer, o) ==
  out' = Append(out, EntryAt(buffer[o \div Payload], o % Payload))

\* One turn of show_de's loop, in which each entry's file is extracted as well,
\* with a window of its own.
NextEntry ==
  /\ reading /\ item.kind = "directory" /\ left > 0
  /\ LET next == Advanced(offset, EntrySize)
     IN  IF Beyond(next)
         THEN ReadRecord(n + 1, 0) /\ n' = n + 1 /\ ShowEntry(held', 0)
         ELSE /\ offset' = next /\ UNCHANGED <<held, failed, n>>
              /\ ShowEntry(held, next)
  /\ left' = left - 1
  /\ reading' = (left' > 0)
  /\ UNCHANGED item

\* One turn of lmfs_open's loop over the root directory: it has but one record,
\* the end of which is not looked for.
NextRootEntry ==
  /\ reading /\ item.kind = "root" /\ left > 0
  /\ LET next == Advanced(offset, EntrySize)
     IN  IF Beyond(next)
         THEN reading' = FALSE /\ UNCHANGED <<left, out>>
         ELSE ShowEntry(held, next) /\ left' = left - 1 /\ reading' = (left' > 0)
  /\ offset' = Advanced(offset, EntrySize)
  /\ UNCHANGED <<item, held, failed, n>>

FsNext == CopyBytes \/ NextEntry \/ NextRootEntry

-----------------------------------------------------------------------------
(***************************************************************************)
(* The file that is written is the file in the file system, byte for byte, *)
(* wherever in its first record it begins and whether or not it ends with  *)
(* a block or a record.  Bytes of a block that could not be read are those *)
(* of an earlier record, and nothing says so.                              *)
(***************************************************************************)
Unreadable(i) == <<(item.start + i) \div RecordSize,
                   ((item.start + i) % RecordSize) \div Payload>> \in failed

FileExtracted ==
  item.kind = "file" =>
    /\ \A i \in DOMAIN out : out[i] = i - 1 \/ Unreadable(i - 1)
    /\ \A i \in DOMAIN out : out[i] < i
    /\ ~reading => left = 0

(***************************************************************************)
(* The walks over a directory and over the root directory show its entries *)
(* in order and leave none out, also where a block has no room for another *)
(* entry and where a record ends, if there is room for an entry where its  *)
(* header begins (ensure_access shows a header that does not fit at the    *)
(* beginning of the next block, but goes on from where it began) and its   *)
(* blocks can be read.  In the root directory the walk ends with the first *)
(* record.                                                                 *)
(***************************************************************************)
HeaderFits == Room(item.start) >= EntrySize

EntriesInOrder ==
  item.kind # "file" /\ HeaderFits /\ failed = {} =>
    /\ \A i \in DOMAIN out : out[i] = i
    /\ ~reading /\ item.kind = "directory" => left = 0
=============================================================================
