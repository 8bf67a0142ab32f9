------------------------------ MODULE DiskPack ------------------------------
(***************************************************************************)
(* The disk image as diskmaker.c makes it and changes it: a label in block *)
(* 0 that names the partitions, and the partitions, each filled from a     *)
(* file and with zeros.  The emulator is run on the image between two      *)
(* invocations of diskmaker.                                               *)
(*                                                                         *)
(* A partition is one step, of which a kill or a failing read or write     *)
(* leaves a part undone, whether it is made or extracted.  A block is what *)
(* it was copied from; files are whole blocks, and the label's texts are   *)
(* left out.                                                               *)
(***************************************************************************)
EXTENDS Integers, Sequences, SequencesExt

CONSTANTS
  Templates,        \* parts, and the names of the current mcr and lod
  FileLength,       \* file -> its length in blocks
  NoFile,           \* in a template: fill with zeros
  Exports,          \* the partitions that are extracted
  McrNames,         \* partitions that hold microcode, which is swapped
  LastBlock         \* bound: the highest block number

\* Templates lists no more partitions than the label has room for (18).
ASSUME PackAssumption ==
  /\ NoFile \notin DOMAIN FileLength
  /\ FileLength \in [DOMAIN FileLength -> Nat]
  /\ LastBlock \in Nat
  /\ \A t \in Templates :
       /\ t.parts \in Seq(ToSet(t.parts))
       /\ \A p \in ToSet(t.parts) : p.start \in Nat \ {0} /\ p.size \in Nat \ {0}

VARIABLES
  pc,               \* "idle", "label" or "make": what diskmaker does next
  template,         \* the template it has read
  todo,             \* the partitions it has yet to make
  label,            \* block 0: a sequence of at most one label
  blocks, length,   \* the other blocks of the image, and its length: 0 before
                    \* it exists, at least 1 from then on
  extracted,        \* partition name -> the file extracted from it
  command,          \* history: the last command
  made,             \* history: which partitions of its template a create has
                    \* written without an error; none once the pack is changed
  before            \* history: the blocks before a modify command

pack == <<label, blocks, length>>
vars == <<pc, template, todo, pack, extracted, command, made, before>>

Numbers == 1 .. LastBlock
Content(f, k, s) == [file |-> f, block |-> k, swapped |-> s]
Command(op, name) == [op |-> op, name |-> name]
\* How many blocks were extracted, whether that were all, and what was in the
\* file before.
Extraction(name, n, all, old) ==
  [op |-> "extract", name |-> name, copied |-> n, all |-> all, old |-> old]
Zero == Content("zero", 0, FALSE)
Blank == [b \in Numbers |-> Zero]
Saved == Content("machine", 0, FALSE)   \* written by the running machine
Names(parts) == {p.name : p \in ToSet(parts)}
\* The first partition of that name, if there is one.
Place(parts, name) ==
  CHOOSE i \in DOMAIN parts :
    parts[i].name = name /\ \A j \in 1 .. i - 1 : parts[j].name # name
Named(parts, name) == parts[Place(parts, name)]
AllNames == UNION {Names(t.parts) : t \in Templates}
Extent(p) == p.start .. p.start + p.size - 1
Layout(parts) == [i \in DOMAIN parts |->
  [name |-> parts[i].name, start |-> parts[i].start, size |-> parts[i].size]]

Disjoint(parts) ==
  \A i, j \in DOMAIN parts : i < j => parts[i].start + parts[i].size <= parts[j].start

TypeOK ==
  /\ pc \in {"idle", "label", "make"}
  /\ Len(label) <= 1
  /\ DOMAIN blocks = Numbers
  /\ length \in 0 .. LastBlock + 1
  /\ \A b \in Numbers : b >= length => blocks[b] = Zero
  /\ made \subseteq DOMAIN template.parts

Init ==
  /\ pc = "idle" /\ template \in Templates /\ todo = <<>>
  /\ label = <<>> /\ blocks = Blank /\ length = 0
  /\ extracted = [n \in Exports |-> <<>>]
  /\ command = Command("none", "") /\ made = {} /\ before = Blank

-----------------------------------------------------------------------------
\* make_one_partition: what it writes, from p.start on.  A file is copied to
\* its end, be it longer than the partition; one that cannot be opened leaves
\* the partition as it is.
\* WithoutFill is a mutated form.
WithoutFill(p) ==
  IF p.file \notin DOMAIN FileLength THEN <<>>
  ELSE [k \in 1 .. FileLength[p.file] |-> Content(p.file, k, p.name \in McrNames)]

Writes(p) ==
  LET copied == IF p.file \in DOMAIN FileLength THEN FileLength[p.file] ELSE 0
      all == IF copied > p.size THEN copied ELSE p.size
  IN IF p.file \notin DOMAIN FileLength \cup {NoFile} THEN <<>>
     ELSE [k \in 1 .. all |->
             IF k <= copied THEN Content(p.file, k, p.name \in McrNames) ELSE Zero]

\* The bound is behind everything that a template makes diskmaker write.
ASSUME BoundAssumption ==
  \A t \in Templates : \A p \in ToSet(t.parts) :
    p.start + p.size <= LastBlock + 1 /\ p.start + Len(Writes(p)) <= LastBlock + 1

\* How far a partition is written: the first n of these writes, and, after a
\* write of the copy has failed, zeros from there on, up to the m-th block.
Progress(p) ==
  {w \in [n : 0 .. Len(Writes(p)), m : 0 .. Len(Writes(p))] :
     w.m = w.n \/ (w.n < w.m /\ w.m <= p.size)}

Put(p, w) ==
  /\ blocks' = [b \in Numbers |->
       LET k == b - p.start + 1
       IN IF k \in 1 .. w.n THEN Writes(p)[k]
          ELSE IF k \in 1 .. w.m THEN Zero ELSE blocks[b]]
  /\ length' = IF p.start + w.m > length /\ w.m > 0 THEN p.start + w.m ELSE length

\* A command starts: it has read its template.
Begin(op, name, t, parts) ==
  /\ pc = "idle" /\ pc' = "label"
  /\ command' = Command(op, name) /\ template' = t /\ todo' = parts
  /\ before' = IF op = "modify" THEN blocks ELSE Blank
  /\ UNCHANGED extracted

\* create_disk refuses to overwrite an image.
Create(t) ==
  /\ length = 0
  /\ Begin("create", "", t, t.parts)
  /\ length' = 1 /\ made' = {}
  /\ UNCHANGED <<label, blocks>>

\* modify_disk: the label and one partition.
Modify(t, name) ==
  /\ length > 0 /\ name \in Names(t.parts)
  /\ Begin("modify", name, t, <<Named(t.parts, name)>>)
  /\ made' = {}
  /\ UNCHANGED pack

\* modify_labl
ModifyLabel(t) ==
  /\ length > 0
  /\ Begin("label", "", t, <<>>)
  /\ made' = {}
  /\ UNCHANGED pack

\* make_labl, from the template.  The commands go on if the write fails.
MakeLabel ==
  /\ pc = "label"
  /\ \/ label' = <<[parts |-> Layout(template.parts), mcr |-> template.mcr,
                     lod |-> template.lod]>>
     \/ UNCHANGED label
  /\ pc' = IF todo = <<>> THEN "idle" ELSE "make"
  /\ UNCHANGED <<template, todo, blocks, length, extracted, command, made, before>>

\* A write that fails does not fail the command.
MakePartition ==
  /\ pc = "make"
  /\ \E w \in Progress(Head(todo)) :
       /\ Put(Head(todo), w)
       /\ made' = IF command.op = "create" /\ w.n = Len(Writes(Head(todo)))
                  THEN made \cup {Len(template.parts) - Len(todo) + 1} ELSE made
  /\ todo' = Tail(todo)
  /\ pc' = IF Len(todo) = 1 THEN "idle" ELSE "make"
  /\ UNCHANGED <<template, label, extracted, command, before>>

\* The process is killed, with part of a partition written.
Kill ==
  /\ pc \in {"label", "make"}
  /\ \/ pc = "label" /\ UNCHANGED pack
     \/ /\ pc = "make" /\ UNCHANGED label
        /\ \E w \in Progress(Head(todo)) : Put(Head(todo), w)
  /\ pc' = "idle" /\ todo' = <<>>
  /\ UNCHANGED <<template, extracted, command, made, before>>

\* set_current_band and set_current_mcr read the label, and write it again
\* with another name, that of one of its partitions.
Mark(field, name) ==
  /\ pc = "idle" /\ label # <<>> /\ name \in Names(label[1].parts)
  /\ label' = <<[label[1] EXCEPT ![field] = name]>>
  /\ command' = Command("mark", name) /\ before' = Blank
  /\ UNCHANGED <<pc, template, todo, blocks, length, extracted, made>>

\* How much of a partition the image has.
Available(p) ==
  IF p.start + p.size <= length THEN p.size
  ELSE IF p.start < length THEN length - p.start ELSE 0

\* Mutated form of Extract.
ExtractFromNext(name) ==
  /\ pc = "idle" /\ label # <<>> /\ name \in Names(label[1].parts)
  /\ LET p == Named(label[1].parts, name)
         block(b) == IF b \in Numbers THEN blocks[b] ELSE Zero
     IN \E n \in 0 .. Available(p) :
          /\ extracted' = [extracted EXCEPT ![name] =
               [k \in 1 .. n |-> block(p.start + k)] \o SubSeq(@, n + 1, Len(@))]
          /\ command' = Extraction(name, n, n = Available(p), extracted[name])
  /\ before' = Blank
  /\ UNCHANGED <<pc, template, todo, pack, made>>

\* extract_partition goes by the label and does not truncate the file it
\* writes to.  It ends at the end of the image, or sooner, when the file
\* cannot be opened, a block cannot be read or written, or it is killed.
Extract(name) ==
  /\ pc = "idle" /\ label # <<>> /\ name \in Names(label[1].parts)
  /\ LET p == Named(label[1].parts, name)
     IN \E n \in 0 .. Available(p) :
          /\ extracted' = [extracted EXCEPT ![name] =
               [k \in 1 .. n |-> blocks[p.start + k - 1]] \o SubSeq(@, n + 1, Len(@))]
          /\ command' = Extraction(name, n, n = Available(p), extracted[name])
  /\ before' = Blank
  /\ UNCHANGED <<pc, template, todo, pack, made>>

\* The emulator runs and writes a block of a partition.
Machine ==
  /\ pc = "idle" /\ label # <<>>
  /\ \E p \in ToSet(label[1].parts) : \E b \in Extent(p) :
       b < length /\ blocks' = [blocks EXCEPT ![b] = Saved]
  /\ command' = Command("none", "") /\ before' = Blank /\ made' = {}
  /\ UNCHANGED <<pc, template, todo, label, length, extracted>>

\* The user deletes the image.
RemoveImage ==
  /\ pc = "idle" /\ length > 0
  /\ label' = <<>> /\ blocks' = Blank /\ length' = 0
  /\ command' = Command("none", "") /\ before' = Blank /\ made' = {}
  /\ UNCHANGED <<pc, template, todo, extracted>>

Next ==
  \/ \E t \in Templates : Create(t) \/ ModifyLabel(t)
  \/ \E t \in Templates, n \in AllNames : Modify(t, n)
  \/ MakeLabel \/ MakePartition \/ Kill
  \/ \E f \in {"mcr", "lod"}, n \in AllNames : Mark(f, n)
  \/ \E n \in Exports : Extract(n)
  \/ Machine \/ RemoveImage

Spec == Init /\ [][Next]_vars

-----------------------------------------------------------------------------
Fits(p) == p.file \in DOMAIN FileLength => FileLength[p.file] <= p.size

\* What a partition should hold: its file, as far as there is room, and zeros.
Holds(p, k) ==
  LET copied == IF p.file \in DOMAIN FileLength THEN FileLength[p.file] ELSE 0
  IN IF k <= copied THEN Content(p.file, k, p.name \in McrNames) ELSE Zero

(***************************************************************************)
(* What a create has written of a pack without an error stays: every such  *)
(* partition holds the beginning of its file, and zeros behind it, however *)
(* the create goes on, be it killed (diskmaker.c:426-455), although a file *)
(* that is too long is copied into the partition behind it: that is made   *)
(* later, if the template lists partitions by their place                  *)
(* (make_partitions).  And when a partition is modified the others stay as *)
(* the machine has left them, whatever write fails and wherever the        *)
(* command is killed, if the file fits in the partition or the partition   *)
(* is the last ("generally will only work if you modify the last           *)
(* partition", diskmaker.c:469-471).                                       *)
(***************************************************************************)
PartitionsHoldFiles ==
  \A i \in made :
    LET p == template.parts[i] IN
      p.file \in DOMAIN FileLength \cup {NoFile} =>
        \A k \in 1 .. p.size : blocks[p.start + k - 1] = Holds(p, k)

OthersKept ==
  command.op = "modify" =>
    LET p == Named(template.parts, command.name) IN
      p = Last(template.parts) \/ Fits(p) =>
        \A q \in ToSet(template.parts) \ {p} :
          \A b \in Extent(q) : blocks[b] = before[b]

PackHoldsFiles ==
  /\ TypeOK
  /\ Disjoint(template.parts) => PartitionsHoldFiles /\ OthersKept

(***************************************************************************)
(* An extraction that is not broken off returns the whole of a partition   *)
(* that a create has written, and one that is broken off its first blocks; *)
(* only microcode comes back with its halfwords swapped                    *)
(* (make_one_partition swaps, extract_partition does not).  Behind what    *)
(* was extracted there is what was in the file before, and nothing else:   *)
(* a new file is the partition, an old one that was longer is not          *)
(* (diskmaker.c:786-797).                                                  *)
(***************************************************************************)
PartitionExtracted(i, file) ==
  LET p == template.parts[i] IN
    p.name \notin McrNames /\ p.file \in DOMAIN FileLength =>
      /\ command.copied <= p.size
      /\ command.all => command.copied = p.size
      /\ \A k \in 1 .. command.copied : file[k] = Holds(p, k)

OldFileBehind(file) ==
  /\ Len(file) = IF command.copied > Len(command.old) THEN command.copied
                                                     ELSE Len(command.old)
  /\ \A k \in 1 .. Len(file) : k > command.copied => file[k] = command.old[k]

ExtractReturnsFile ==
  command.op = "extract" =>
    LET file == extracted[command.name] IN
      /\ OldFileBehind(file)
      /\ made # {} /\ Disjoint(template.parts) =>
           LET i == Place(template.parts, command.name)
           IN i \in made => PartitionExtracted(i, file)
=============================================================================
