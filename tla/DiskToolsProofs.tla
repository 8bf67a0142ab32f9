-------------------------- MODULE DiskToolsProofs --------------------------
(***************************************************************************)
(* What the programs that work on disks and partitions deliver, for packs, *)
(* files, directories and bands of every size: the words lod shows, the    *)
(* files and entries lmfs finds, and the partitions diskmaker makes,       *)
(* modifies and extracts.                                                  *)
(***************************************************************************)
EXTENDS DiskTools, SequenceTheorems, WellFoundedInduction, TLAPS

(***************************************************************************)
(* Arithmetic.                                                             *)
(***************************************************************************)
LEMMA DivFacts ==
  ASSUME NEW d \in Nat \ {0}, NEW x \in Nat
  PROVE  \E k \in Nat, r \in 0 .. d - 1 : x \div d = k /\ x % d = r /\ x = k * d + r
<1>1. x \div d \in Nat
  OBVIOUS
<1>2. x % d \in 0 .. d - 1
  OBVIOUS
<1>3. ASSUME NEW k \in Nat, k = x \div d
      PROVE  x - k * d = x % d /\ k * d \in Nat
  BY <1>3
<1>4. PICK k \in Nat : k = x \div d /\ x - k * d = x % d /\ k * d \in Nat
  BY <1>1, <1>3
<1>5. PICK r \in 0 .. d - 1 : r = x % d
  BY <1>2
<1>6. x = k * d + r
  BY <1>4, <1>5
<1> QED BY <1>4, <1>5, <1>6

LEMMA ProductMonotone ==
  ASSUME NEW d \in Nat, NEW x \in Nat, NEW y \in Nat, x <= y
  PROVE  x * d <= y * d
OBVIOUS

\* A number below a product lies in one of its blocks.
LEMMA DivBelow ==
  ASSUME NEW d \in Nat \ {0}, NEW m \in Nat, NEW x \in 0 .. m * d - 1
  PROVE  x \div d \in 0 .. m - 1
<1>1. m * d \in Nat /\ x \in Nat /\ x < m * d
  OBVIOUS
<1>2. PICK k \in Nat, r \in 0 .. d - 1 : x \div d = k /\ x = k * d + r
  BY <1>1, DivFacts
<1>3. ASSUME m <= k PROVE FALSE
  <2>1. m * d <= k * d
    BY <1>3, ProductMonotone
  <2>2. PICK y \in Nat : y = k * d
    OBVIOUS
  <2> QED BY <1>1, <1>2, <2>1, <2>2
<1> QED BY <1>2, <1>3

\* Quotient and rest are what they look like.
LEMMA DivUnique ==
  ASSUME NEW d \in Nat \ {0}, NEW k \in Nat, NEW r \in 0 .. d - 1
  PROVE  (k * d + r) \div d = k /\ (k * d + r) % d = r
<1>1. PICK x \in Nat : x = k * d + r
  OBVIOUS
<1>2. PICK j \in Nat, t \in 0 .. d - 1 : x \div d = j /\ x % d = t /\ x = j * d + t
  BY <1>1, DivFacts
<1>3. PICK kd \in Nat, jd \in Nat : kd = k * d /\ jd = j * d
  OBVIOUS
<1>4. ASSUME k < j PROVE FALSE
  <2>1. (k + 1) * d <= jd /\ (k + 1) * d = kd + d
    BY <1>3, <1>4, ProductMonotone
  <2> QED BY <1>1, <1>2, <1>3, <2>1
<1>5. ASSUME j < k PROVE FALSE
  <2>1. (j + 1) * d <= kd /\ (j + 1) * d = jd + d
    BY <1>3, <1>5, ProductMonotone
  <2> QED BY <1>1, <1>2, <1>3, <2>1
<1>6. j = k
  BY <1>4, <1>5
<1>7. t = r
  BY <1>1, <1>2, <1>3, <1>6
<1> QED BY <1>1, <1>2, <1>6, <1>7

(***************************************************************************)
(* lod: the words read (BandReader).                                       *)
(***************************************************************************)
\* Which file the buffer was read from.
Source == IF turned THEN "disk" ELSE "band"

\* The buffer holds the block whose number is noted, if it could be read.
BufferRight ==
  bnum # NoBlock /\ ~spoiled => bnum \in Nat /\ buf = <<Source, bnum + Partoff>>

\* Until another block has been asked of the disk, the block that is noted is
\* the one asked of the band last; from then on the band is not asked any more.
HistoryRight ==
  /\ turned \in BOOLEAN /\ spoiled \in BOOLEAN /\ misled \in BOOLEAN
  /\ ~turned => bandBlock = bnum
  /\ turned => result.file = "disk"
  /\ result.file = "disk" => search.state # "going"

\* What the search has passed is not a header.
SearchRight ==
  search.state # "no" /\ ~misled =>
    /\ search.state # "wraps" => \A a \in Around(search.pc) : a <= search.addr
    /\ search.state = "found" => Displaced(search.addr) \in headers
    /\ search.state = "wraps" => Around(search.pc) = {}

Searches ==
  [pc : BandAddresses, addr : BandAddresses, state : {"no", "going", "found", "wraps"}]

WordRight ==
  reads > 0 /\ ~result.spoiled => result.word = <<Source, Displaced(result.asked)>>

BandInv ==
  /\ files \in SUBSET {"band", "disk"} \ {{}}
  /\ reads \in Nat
  /\ search \in Searches
  /\ search.state # "no" => "band" \in files /\ search.addr <= search.pc
  /\ BufferRight /\ HistoryRight /\ SearchRight /\ WordRight

LEMMA BandAddressFacts ==
  /\ 0 \in BandAddresses
  /\ \A a \in BandAddresses : /\ a \in Nat /\ 0 .. a \subseteq BandAddresses
                              /\ a \div BlockWords \in 0 .. BandBlocks - 1
<1>1. BandBlocks * BlockWords \in Nat /\ 1 * BlockWords <= BandBlocks * BlockWords
  BY BandAssumption, ProductMonotone
<1>2. PICK size \in Nat : size = BandBlocks * BlockWords /\ size > 0
  BY <1>1, BandAssumption
<1>3. BandAddresses = 0 .. size - 1
  BY <1>2 DEF BandAddresses
<1>4. ASSUME NEW a \in BandAddresses
      PROVE  a \div BlockWords \in 0 .. BandBlocks - 1
  BY BandAssumption, DivBelow DEF BandAddresses
<1> QED BY <1>2, <1>3, <1>4

LEMMA BandStarts == BandInit => BandInv
<1> SUFFICES ASSUME BandInit PROVE BandInv
  OBVIOUS
<1>1. search = [pc |-> 0, addr |-> 0, state |-> "no"] /\ reads = 0 /\ bnum = NoBlock
      /\ result.file = "band" /\ bandBlock = bnum
      /\ turned = FALSE /\ spoiled = FALSE /\ misled = FALSE
      /\ files \in SUBSET {"band", "disk"} \ {{}}
  BY DEF BandInit, NoSearch
<1>2. search \in Searches /\ search.state = "no"
  BY <1>1, BandAddressFacts DEF Searches
<1>3. BufferRight
  BY <1>1 DEF BufferRight
<1>4. HistoryRight
  BY <1>1, <1>2 DEF HistoryRight
<1>5. SearchRight
  BY <1>2 DEF SearchRight
<1>6. WordRight
  BY <1>1 DEF WordRight
<1> QED BY <1>1, <1>2, <1>3, <1>4, <1>5, <1>6 DEF BandInv

\* The displacement stays.
LEMMA PartoffFacts ==
  ASSUME files' = files
  PROVE  /\ Partoff \in Nat /\ Partoff' = Partoff
         /\ \A addr : Displaced(addr)' = Displaced(addr)
         /\ \A pc0 : headers' = headers => Around(pc0)' = Around(pc0)
<1>1. Partoff \in Nat /\ Partoff' = Partoff
  BY BandAssumption DEF Partoff
<1>2. \A addr : Displaced(addr)' = Displaced(addr)
  BY <1>1 DEF Displaced
<1>3. \A pc0 : headers' = headers => Around(pc0)' = Around(pc0)
  BY <1>2 DEF Around
<1> QED BY <1>1, <1>2, <1>3

\* A word that could be read comes from where it should, and its block is noted.
LEMMA ReadVirtRight ==
  ASSUME BandInv, NEW file \in files, NEW addr \in BandAddresses,
         files' = files, ReadVirt(file, addr), file = "band" => ~turned
  PROVE  /\ BufferRight'
         /\ turned' \in BOOLEAN /\ spoiled' \in BOOLEAN
         /\ ~turned' => bandBlock' = bnum'
         /\ file = "band" => ~turned'
         /\ ~spoiled' => Word(addr) = <<Source', Displaced(addr)>>
<1>1. PICK b \in 0 .. BandBlocks - 1, r \in 0 .. BlockWords - 1 :
        b = addr \div BlockWords /\ r = addr % BlockWords /\ addr = b * BlockWords + r
  BY BandAddressFacts, BandAssumption, DivFacts
<1>2. PICK off \in Nat : off = Partoff /\ off = Partoff'
  BY PartoffFacts
<1>3. /\ bnum' = b
      /\ \/ b # bnum /\ ReadBlock(file, b + off)
         \/ b = bnum /\ UNCHANGED <<buf, bad, spoiled>>
      /\ bandBlock' = IF file = "band" THEN b ELSE bandBlock
      /\ turned' = (turned \/ (file = "disk" /\ b # bandBlock))
  BY <1>1, <1>2 DEF ReadVirt, Asked
<1>4. file \in {"band", "disk"}
  BY DEF BandInv
<1>5. /\ turned \in BOOLEAN /\ spoiled \in BOOLEAN /\ (~turned => bandBlock = bnum)
      /\ bnum # NoBlock /\ ~spoiled => bnum \in Nat /\ buf = <<Source, bnum + off>>
  BY <1>2 DEF BandInv, BufferRight, HistoryRight
<1>6. b \in Nat /\ b # NoBlock
  BY <1>1, BandAssumption DEF NoBlock
<1>word. ASSUME NEW src, buf' = <<src, b + off>>
         PROVE  Word(addr) = <<src, Displaced(addr)>>
  <2>1. Word(addr) = <<src, ((b + off) * BlockWords) + r>>
    BY <1>1, <1>word DEF Word
  <2>2. ((b + off) * BlockWords) + r = (off * BlockWords) + addr
    BY <1>1, BandAssumption
  <2> QED BY <1>2, <2>1, <2>2 DEF Displaced
<1>7. CASE b # bnum /\ ReadBlock(file, b + off)
  <2>1. \/ buf' = <<file, b + off>> /\ spoiled' = FALSE
        \/ spoiled' = TRUE
    BY <1>7 DEF ReadBlock
  <2>2. Source' = file /\ turned' \in BOOLEAN
        /\ (~turned' => bandBlock' = b) /\ (file = "band" => ~turned')
    BY <1>3, <1>4, <1>5, <1>7 DEF Source
  <2>3. ~spoiled' => buf' = <<Source', b + off>>
    BY <2>1, <2>2
  <2> QED BY <1>2, <1>3, <1>6, <1>word, <2>1, <2>2, <2>3 DEF BufferRight
<1>8. CASE b = bnum /\ UNCHANGED <<buf, bad, spoiled>>
  <2>1. Source' = Source /\ turned' \in BOOLEAN
        /\ (~turned' => bandBlock' = b) /\ (file = "band" => ~turned')
    BY <1>3, <1>4, <1>5, <1>8 DEF Source
  <2>2. ~spoiled' => buf' = <<Source', b + off>>
    BY <1>5, <1>6, <1>8, <2>1
  <2> QED BY <1>2, <1>3, <1>5, <1>6, <1>8, <1>word, <2>1, <2>2 DEF BufferRight
<1> QED BY <1>3, <1>7, <1>8

LEMMA BandInductive ==
  ASSUME BandInv, [BandNext]_bandVars
  PROVE  BandInv'
<1>1. ASSUME NEW file \in files, NEW addr \in BandAddresses, ReadWord(file, addr)
      PROVE  BandInv'
  <2>1. /\ files' = files /\ headers' = headers /\ search' = search /\ misled' = misled
        /\ reads' = reads + 1 /\ search.state # "going"
        /\ result' = [file |-> file, asked |-> addr, word |-> Word(addr),
                      spoiled |-> spoiled']
        /\ ReadVirt(file, addr)
        /\ result.file = "disk" => file = "disk"
    BY <1>1 DEF ReadWord
  <2>2. file \in {"band", "disk"} /\ (file = "band" => ~turned)
    BY <2>1 DEF BandInv, HistoryRight
  <2>3. /\ BufferRight'
        /\ turned' \in BOOLEAN /\ spoiled' \in BOOLEAN
        /\ ~turned' => bandBlock' = bnum'
        /\ file = "band" => ~turned'
        /\ ~spoiled' => Word(addr) = <<Source', Displaced(addr)>>
    BY <2>1, <2>2, ReadVirtRight
  <2>4. Displaced(addr)' = Displaced(addr) /\ Displaced(search.addr)' = Displaced(search.addr)
        /\ Around(search.pc)' = Around(search.pc)
    BY <2>1, PartoffFacts
  <2>5. HistoryRight'
    BY <2>1, <2>2, <2>3 DEF BandInv, HistoryRight
  <2>6. WordRight'
    BY <2>1, <2>3, <2>4 DEF WordRight
  <2>7. SearchRight'
    BY <2>1, <2>4 DEF BandInv, SearchRight
  <2> QED BY <2>1, <2>3, <2>5, <2>6, <2>7 DEF BandInv
<1>2. ASSUME NEW pc0 \in BandAddresses, FindFef(pc0)
      PROVE  BandInv'
  <2>1. /\ search' = [pc |-> pc0, addr |-> pc0, state |-> "going"] /\ "band" \in files
        /\ result.file = "band"
        /\ UNCHANGED <<files, bnum, buf, headers, result, reads, bad, spoiled, misled,
                      bandBlock, turned>>
    BY <1>2 DEF FindFef, history
  <2>2. search' \in Searches /\ search'.addr <= search'.pc
    BY <2>1, BandAddressFacts DEF Searches
  <2>3. SearchRight'
    BY <2>1, BandAddressFacts DEF SearchRight, Around
  <2>4. BufferRight' /\ WordRight'
    BY <2>1, PartoffFacts DEF BandInv, BufferRight, WordRight, Source
  <2>5. HistoryRight'
    BY <2>1 DEF BandInv, HistoryRight
  <2> QED BY <2>1, <2>2, <2>3, <2>4, <2>5 DEF BandInv
<1>3. CASE GoBack
  <2> DEFINE at == search.addr
  <2>1. /\ UNCHANGED <<files, headers, result, reads>>
        /\ search.state = "going" /\ ReadVirt("band", at)
        /\ misled' = (misled \/ spoiled')
    BY <1>3 DEF GoBack
  <2>2. at \in BandAddresses /\ "band" \in files /\ search.pc \in BandAddresses
        /\ at <= search.pc /\ ~turned /\ result.file # "disk"
    BY <2>1 DEF BandInv, HistoryRight, Searches
  <2>3. /\ BufferRight'
        /\ turned' \in BOOLEAN /\ spoiled' \in BOOLEAN
        /\ ~turned' => bandBlock' = bnum'
        /\ ~turned'
        /\ ~spoiled' => Word(at) = <<Source', Displaced(at)>>
    BY <2>1, <2>2, ReadVirtRight
  <2>4. /\ \A addr : Displaced(addr)' = Displaced(addr)
        /\ \A pc0 : Around(pc0)' = Around(pc0)
        /\ Source' = "band" /\ Source = "band"
    BY <2>1, <2>2, <2>3, PartoffFacts DEF Source
  <2>w. WordRight'
    BY <2>1, <2>4 DEF BandInv, WordRight
  <2>5. ~misled' =>
          /\ IsHeader(Word(at)) <=> Displaced(at) \in headers
          /\ \A a \in Around(search.pc) : a <= at
    <3> SUFFICES ASSUME ~misled'
                 PROVE  /\ IsHeader(Word(at)) <=> Displaced(at) \in headers
                        /\ \A a \in Around(search.pc) : a <= at
      OBVIOUS
    <3>1. ~misled /\ Word(at) = <<"band", Displaced(at)>>
      BY <2>1, <2>3, <2>4
    <3>2. IsHeader(Word(at)) <=> Displaced(at) \in headers
      BY <3>1 DEF IsHeader
    <3> QED BY <2>1, <3>1, <3>2 DEF BandInv, SearchRight
  <2>6. \A a \in Around(search.pc) : a \in Nat /\ Displaced(a) \in headers
    BY <2>2, BandAddressFacts DEF Around
  <2>7. at \in Nat /\ (at # 0 => at - 1 \in BandAddresses)
    BY <2>2, BandAddressFacts
  <2>8. search.pc \in Nat
    BY <2>2, BandAddressFacts
  <2>9. ASSUME NEW addr \in BandAddresses, NEW state \in {"going", "found", "wraps"},
               search' = [search EXCEPT !.addr = addr, !.state = state],
               addr <= search.pc,
               ~misled' =>
                 /\ state # "wraps" => \A a \in Around(search.pc) : a <= addr
                 /\ state = "found" => Displaced(addr) \in headers
                 /\ state = "wraps" => Around(search.pc) = {}
        PROVE  BandInv'
    <3>1. search' \in Searches /\ search'.state = state
          /\ search'.addr = addr /\ search'.pc = search.pc
      BY <2>9 DEF BandInv, Searches
    <3>2. SearchRight'
      BY <2>1, <2>4, <2>9, <3>1 DEF SearchRight
    <3>3. HistoryRight'
      BY <2>1, <2>2, <2>3 DEF BandInv, HistoryRight
    <3> QED BY <2>1, <2>2, <2>3, <2>w, <2>9, <3>1, <3>2, <3>3 DEF BandInv
  <2>10. CASE IsHeader(Word(at))
    <3>1. search' = [search EXCEPT !.state = "found"]
      BY <1>3, <2>10 DEF GoBack
    <3>2. search' = [search EXCEPT !.addr = at, !.state = "found"]
      BY <3>1 DEF BandInv, Searches
    <3> QED BY <2>2, <2>5, <2>9, <2>10, <3>2
  <2>11. CASE ~IsHeader(Word(at)) /\ at = 0
    <3>1. search' = [search EXCEPT !.state = "wraps"]
      BY <1>3, <2>11 DEF GoBack
    <3>2. search' = [search EXCEPT !.addr = at, !.state = "wraps"]
      BY <3>1 DEF BandInv, Searches
    <3>3. ~misled' => Around(search.pc) = {}
      BY <2>5, <2>6, <2>11
    <3> QED BY <2>2, <2>9, <3>2, <3>3
  <2>12. CASE ~IsHeader(Word(at)) /\ at # 0
    <3>1. search' = [search EXCEPT !.addr = at - 1]
      BY <1>3, <2>12 DEF GoBack
    <3>2. search' = [search EXCEPT !.addr = at - 1, !.state = "going"]
      BY <2>1, <3>1 DEF BandInv, Searches
    <3>3. ~misled' => \A a \in Around(search.pc) : a <= at - 1
      BY <2>5, <2>6, <2>7, <2>12
    <3>4. at - 1 <= search.pc
      BY <2>2, <2>7, <2>8
    <3> QED BY <2>7, <2>9, <2>12, <3>2, <3>3, <3>4
  <2> QED BY <2>10, <2>11, <2>12
<1>4. CASE UNCHANGED bandVars
  BY <1>4 DEF bandVars, history, BandInv, BufferRight, HistoryRight, SearchRight, WordRight,
              Source, Displaced, Partoff, Around, BandAddresses, Searches
<1> QED BY <1>1, <1>2, <1>3, <1>4 DEF BandNext

\* The words lod shows come from where they were asked for, displaced as set_swap
\* has it, but for words of the disk in the block read from the band last; and it
\* finds the function around an address.  This holds with one file or with both,
\* in whatever order words are read, and again after a block that could not be
\* read (read_virt, set_swap and find_and_dump_fef of lod.c).
THEOREM WordsComeAsAsked == BandInit /\ [][BandNext]_bandVars => []WordsAsAsked
<1>1. BandInv /\ [BandNext]_bandVars => BandInv'
  BY BandInductive
<1>2. BandInv => WordsAsAsked
  <2> SUFFICES ASSUME BandInv PROVE WordsAsAsked
    OBVIOUS
  <2>1. search.pc \in Nat /\ search.addr \in Nat
    BY BandAddressFacts DEF BandInv, Searches
  <2>2. search.state = "found" /\ ~misled =>
          /\ search.addr \in Around(search.pc)
          /\ \A a \in Around(search.pc) : a <= search.addr
    BY <2>1 DEF BandInv, SearchRight, Around
  <2> QED BY <2>2 DEF BandInv, SearchRight, HistoryRight, WordRight, Source, WordsAsAsked
<1> QED BY BandStarts, <1>1, <1>2, PTL

(***************************************************************************)
(* lmfs: the window over the payload of a record (FileSystem).             *)
(***************************************************************************)

\* The bytes of a record; where one is in it.
LEMMA RecordFacts ==
  /\ RecordSize \in Nat /\ RecordSize > 0
  /\ \A p \in Places : /\ p \in Nat /\ p < Blocks
                       /\ p * Payload \in Nat /\ p * Payload + Payload <= RecordSize
<1>1. RecordSize = Blocks * Payload /\ 1 * Payload <= Blocks * Payload
  BY FileSystemAssumption, ProductMonotone DEF RecordSize
<1>2. ASSUME NEW p \in Places
      PROVE  /\ p \in Nat /\ p < Blocks
             /\ p * Payload \in Nat /\ p * Payload + Payload <= RecordSize
  <2>1. p \in Nat /\ p < Blocks /\ p + 1 \in Nat /\ p + 1 <= Blocks
    BY FileSystemAssumption DEF Places
  <2>2. (p + 1) * Payload <= Blocks * Payload /\ (p + 1) * Payload = p * Payload + Payload
        /\ p * Payload \in Nat
    BY <2>1, FileSystemAssumption, ProductMonotone
  <2> QED BY <1>1, <2>1, <2>2
<1> QED BY <1>1, <1>2, FileSystemAssumption

LEMMA AtOffset ==
  ASSUME NEW o \in 0 .. RecordSize - 1
  PROVE  \E p \in Places, r \in 0 .. Payload - 1 :
           /\ o \div Payload = p /\ o % Payload = r /\ o = p * Payload + r
           /\ Room(o) = Payload - r
<1>1. o \in Nat /\ o \in 0 .. (Blocks * Payload) - 1
  BY RecordFacts, FileSystemAssumption DEF RecordSize
<1>2. PICK p \in Nat, r \in 0 .. Payload - 1 :
        o \div Payload = p /\ o % Payload = r /\ o = p * Payload + r
  BY <1>1, FileSystemAssumption, DivFacts
<1>3. p \in Places
  BY <1>1, <1>2, FileSystemAssumption, DivBelow DEF Places
<1> QED BY <1>2, <1>3 DEF Room

\* A byte of a record, seen from the beginning of the item's first record.
LEMMA InRecord ==
  ASSUME NEW k \in Nat, NEW p \in Places, NEW r \in 0 .. Payload - 1
  PROVE  /\ (k * RecordSize + (p * Payload + r)) \div RecordSize = k
         /\ ((k * RecordSize + (p * Payload + r)) % RecordSize) \div Payload = p
<1>1. PICK o \in 0 .. RecordSize - 1 : o = p * Payload + r
  BY RecordFacts, FileSystemAssumption
<1>2. (k * RecordSize + o) \div RecordSize = k /\ (k * RecordSize + o) % RecordSize = o
  <2>1. PICK size \in Nat \ {0} : size = RecordSize
    BY RecordFacts
  <2>2. (k * size + o) \div size = k /\ (k * size + o) % size = o
    BY <2>1, DivUnique
  <2> QED BY <2>1, <2>2
<1>3. o \div Payload = p
  BY <1>1, RecordFacts, FileSystemAssumption, DivUnique
<1> QED BY <1>1, <1>2, <1>3

\* The window holds, at each place, the block of its record or, where that
\* could not be read, the one of an earlier record.
HeldAt(p, k) ==
  \/ held[p] = <<k, p>>
  \/ <<k, p>> \in failed /\ \E j \in 0 .. k - 1 : held[p] = <<j, p>>
HeldRight == DOMAIN held = Places /\ \A p \in Places : HeldAt(p, n)

LEMMA ReadRecordRight ==
  ASSUME HeldRight, n \in Nat, NEW o, ReadRecord(n + 1, o), n' = n + 1
  PROVE  /\ HeldRight' /\ offset' = o /\ failed \subseteq failed'
         /\ failed' = {} => \A p \in Places : held'[p] = <<n', p>>
<1>1. PICK lost \in SUBSET Places :
        /\ held' = [p \in Places |-> IF p \in lost THEN held[p] ELSE <<n + 1, p>>]
        /\ failed' = failed \cup {<<n + 1, p>> : p \in lost}
        /\ offset' = o
  BY DEF ReadRecord
<1>2. ASSUME NEW p \in Places PROVE HeldAt(p, n)'
  <2>1. CASE p \in lost
    <3>1. PICK j \in 0 .. n : held[p] = <<j, p>>
      <4>1. n \in 0 .. n /\ \A i \in 0 .. n - 1 : i \in 0 .. n
        OBVIOUS
      <4> QED BY <4>1 DEF HeldRight, HeldAt
    <3>2. held'[p] = <<j, p>> /\ <<n', p>> \in failed' /\ j \in 0 .. n' - 1
      BY <1>1, <2>1, <3>1
    <3> QED BY <3>2 DEF HeldAt
  <2>2. CASE p \notin lost
    BY <1>1, <2>2 DEF HeldAt
  <2> QED BY <2>1, <2>2
<1>3. failed' = {} => lost = {}
  BY <1>1
<1> QED BY <1>1, <1>2, <1>3 DEF HeldRight

FsTypes ==
  /\ item \in [kind : {"file", "directory", "root"}, start : 0 .. RecordSize - 1]
  /\ n \in Nat /\ left \in Nat /\ reading \in BOOLEAN
  /\ out \in Seq(Int)
  /\ HeldRight
  /\ reading => offset \in 0 .. RecordSize - 1
  /\ ~reading /\ item.kind # "root" => left = 0

\* The window goes through the file as the bytes come out.
FileRight ==
  item.kind = "file" =>
    /\ reading => n * RecordSize + offset = item.start + Len(out)
    /\ \A i \in 1 .. Len(out) : (out[i] = i - 1 \/ Unreadable(i - 1)) /\ out[i] < i

\* With a block used up, the window is at the next one, or at the record's end.
LEMMA BlockUsedUp ==
  ASSUME NEW p \in Places, NEW r \in 0 .. Payload - 1
  PROVE  /\ Advanced(p * Payload + r, Payload - r) = p * Payload + Payload
         /\ p * Payload + Payload \in 1 .. RecordSize
<1>1. /\ p \in Nat /\ p + 1 \in Nat /\ 0 \in 0 .. Payload - 1
      /\ (p + 1) * Payload + 0 = p * Payload + Payload
  BY RecordFacts, FileSystemAssumption
<1>2. PICK o \in Nat : o = p * Payload + Payload /\ o \in 1 .. RecordSize
  BY RecordFacts, FileSystemAssumption
<1>3. o \div Payload = p + 1 /\ o % Payload = 0
  <2>1. ((p + 1) * Payload + 0) \div Payload = p + 1 /\ ((p + 1) * Payload + 0) % Payload = 0
    BY <1>1, FileSystemAssumption, DivUnique
  <2> QED BY <1>1, <1>2, <2>1
<1>4. ~(Room(o) < Payload - r)
  BY <1>3, FileSystemAssumption DEF Room
<1>5. (p * Payload + r) + (Payload - r) = o
  BY <1>2, RecordFacts, FileSystemAssumption
<1> QED BY <1>2, <1>4, <1>5 DEF Advanced

LEMMA CopyBytesRight ==
  ASSUME FsTypes, FileRight, CopyBytes
  PROVE  FsTypes' /\ FileRight'
<1>1. /\ item' = item /\ item.kind = "file"
      /\ out \in Seq(Int)
      /\ \A i \in 1 .. Len(out) : (out[i] = i - 1 \/ Unreadable(i - 1)) /\ out[i] < i
  BY DEF CopyBytes, FsTypes, FileRight
\* The numbers the step starts from.
<1>2. PICK start \in Nat, at \in 0 .. RecordSize - 1, m \in Nat, todo0 \in Nat, len \in Nat :
        start = item.start /\ at = offset /\ m = n /\ todo0 = left /\ len = Len(out)
  <2>1. /\ item.start \in Nat /\ offset \in 0 .. RecordSize - 1
        /\ n \in Nat /\ left \in Nat
    BY RecordFacts DEF CopyBytes, FsTypes
  <2>2. Len(out) \in Nat
    BY <1>1, LenProperties
  <2> QED BY <2>1, <2>2
<1>3. PICK size \in Nat, payload \in Nat \ {0} : size = RecordSize /\ payload = Payload
  BY RecordFacts, FileSystemAssumption
<1>4. PICK mr \in Nat : mr = m * size /\ mr = n * RecordSize /\ mr + at = start + len
  BY <1>2, <1>3 DEF CopyBytes, FileRight
<1>5. PICK p \in Places, r \in 0 .. payload - 1 :
        /\ at \div Payload = p /\ at % Payload = r /\ at = p * Payload + r
        /\ Room(at) = payload - r
  BY <1>2, <1>3, AtOffset
<1>6. PICK pp \in Nat :
        pp = p * Payload /\ pp = p * payload /\ at = pp + r /\ pp + payload <= size
  BY <1>3, <1>5, RecordFacts
<1>7. PICK use \in Nat :
        /\ use = IF left < Room(offset) THEN left ELSE Room(offset)
        /\ use <= payload - r
        /\ todo0 - use \in Nat /\ (todo0 - use > 0 => use = payload - r)
  <2>1. PICK room \in Nat : room = Room(at) /\ room = payload - r
    BY <1>5
  <2>2. PICK use \in Nat : use = IF todo0 < room THEN todo0 ELSE room
    OBVIOUS
  <2>3. use <= room /\ todo0 - use \in Nat /\ (todo0 - use > 0 => use = room)
    BY <2>2
  <2> QED BY <1>2, <2>1, <2>2, <2>3
<1>8. PICK k \in Nat : held[p] = <<k, p>> /\ (k = m \/ (k < m /\ <<m, p>> \in failed))
  <2>1. \A i \in 0 .. m - 1 : i \in Nat /\ i < m
    OBVIOUS
  <2> QED BY <1>2, <2>1 DEF FsTypes, HeldRight, HeldAt
<1>9. PICK kr \in Nat :
        /\ kr = k * size /\ kr = k * RecordSize
        /\ k = m => kr = mr
        /\ k < m => kr + size <= mr
  <2>1. k < m => (k + 1) * size <= m * size
    BY ProductMonotone
  <2>2. (k + 1) * size = k * size + size /\ k * size \in Nat
    OBVIOUS
  <2> QED BY <1>3, <1>4, <2>1, <2>2
<1> DEFINE Byte(i) == FileByte(held[p], r + i - 1)
<1> DEFINE copied == [i \in 1 .. use |-> Byte(i)]
<1>10. /\ out' = out \o copied
       /\ left' = left - use /\ reading' = (left' > 0)
       /\ IF Advanced(offset, use) = RecordSize
          THEN ReadRecord(n + 1, 0) /\ n' = n + 1
          ELSE offset' = Advanced(offset, use) /\ UNCHANGED <<held, failed, n>>
  BY <1>2, <1>5, <1>7 DEF CopyBytes
<1>11. ASSUME NEW i \in 1 .. use
       PROVE  Byte(i) = kr + at + (i - 1) - start /\ Byte(i) \in Int
  <2>1. Byte(i) = (k * RecordSize) + (p * Payload) + (r + i - 1) - item.start
    BY <1>8 DEF FileByte
  <2>2. Byte(i) = kr + pp + (r + i - 1) - start
    BY <1>2, <1>6, <1>9, <2>1
  <2> QED BY <1>6, <2>2
<1> HIDE DEF Byte
<1>12. copied \in Seq(Int) /\ Len(copied) = use /\ \A i \in 1 .. use : copied[i] = Byte(i)
  <2>1. copied \in [1 .. use -> Int]
    BY <1>11
  <2>2. copied \in Seq(Int)
    BY <2>1, SeqDef
  <2> QED BY <2>1, <2>2, LenProperties
<1> HIDE DEF copied
<1>13. /\ out' \in Seq(Int) /\ Len(out') = len + use
       /\ \A j \in 1 .. len : out'[j] = out[j]
       /\ \A i \in 1 .. use : out'[len + i] = Byte(i)
  <2>1. /\ out \o copied \in Seq(Int) /\ Len(out \o copied) = len + use
        /\ \A j \in 1 .. len + use :
             (out \o copied)[j] = IF j <= len THEN out[j] ELSE copied[j - len]
    BY <1>1, <1>2, <1>12, ConcatProperties
  <2>2. \A j \in 1 .. len : j \in 1 .. len + use /\ j <= len
    OBVIOUS
  <2>3. \A i \in 1 .. use : /\ len + i \in 1 .. len + use
                            /\ ~(len + i <= len)
                            /\ (len + i) - len = i
    OBVIOUS
  <2> QED BY <1>10, <1>12, <2>1, <2>2, <2>3
\* The window, into which the next record may have come.
<1>14. /\ n' \in Nat /\ HeldRight' /\ failed \subseteq failed'
       /\ reading' => /\ offset' \in 0 .. size - 1
                      /\ n' * RecordSize + offset' = mr + at + use
  <2>1. ASSUME reading'
        PROVE  /\ Advanced(offset, use) = at + use
               /\ at + use = pp + payload /\ at + use \in 1 .. size
    <3>1. use = payload - r
      BY <1>2, <1>7, <1>10, <2>1
    <3>2. Advanced(p * Payload + r, Payload - r) = p * Payload + Payload
      BY <1>3, BlockUsedUp
    <3>3. Advanced(offset, use) = pp + payload
      BY <1>2, <1>3, <1>5, <1>6, <3>1, <3>2
    <3> QED BY <1>6, <3>1, <3>3
  <2>2. CASE Advanced(offset, use) = RecordSize
    <3>1. n' = n + 1 /\ HeldRight' /\ offset' = 0 /\ failed \subseteq failed'
      BY <1>2, <1>10, <2>2, ReadRecordRight DEF FsTypes
    <3>2. (m + 1) * size + 0 = mr + size /\ 0 \in 0 .. size - 1
      BY <1>4, RecordFacts, <1>3
    <3> QED BY <1>2, <1>3, <2>1, <2>2, <3>1, <3>2
  <2>3. CASE Advanced(offset, use) # RecordSize
    <3>1. offset' = Advanced(offset, use) /\ UNCHANGED <<held, failed, n>>
      BY <1>10, <2>3
    <3>2. HeldRight'
      BY <3>1 DEF FsTypes, HeldRight, HeldAt
    <3>3. reading' => at + use \in 0 .. size - 1
      BY <1>3, <2>1, <2>3
    <3>4. reading' => n' * RecordSize + offset' = mr + (at + use)
      BY <1>4, <2>1, <3>1
    <3> QED BY <1>2, <2>1, <3>1, <3>2, <3>3, <3>4
  <2> QED BY <2>2, <2>3
<1>15. ASSUME NEW j \in 1 .. len + use
       PROVE  (out'[j] = j - 1 \/ Unreadable(j - 1)') /\ out'[j] < j
  <2>1. CASE j <= len
    <3>1. j \in 1 .. len /\ out'[j] = out[j]
      BY <1>13, <2>1
    <3> QED BY <1>1, <1>2, <1>14, <3>1 DEF Unreadable
  <2>2. CASE ~(j <= len)
    <3>1. PICK i \in 1 .. use : j = len + i
      <4>1. j - len \in 1 .. use /\ j = len + (j - len)
        BY <2>2
      <4> QED BY <4>1
    <3>2. PICK out0 \in Int : out0 = out'[j] /\ out0 = kr + at + (i - 1) - start
      BY <1>11, <1>13, <3>1
    <3>3. CASE k = m
      <4>1. out0 = mr + at + (i - 1) - start
        BY <1>9, <3>2, <3>3
      <4>2. out0 = j - 1
        BY <1>4, <3>1, <4>1
      <4> QED BY <3>2, <4>2
    <3>4. CASE k < m
      <4>1. out0 < j
        BY <1>4, <1>9, <3>1, <3>2, <3>4
      <4>2. PICK t \in 0 .. payload - 1 : t = r + i - 1
        BY <1>7
      <4>3. PICK x \in Nat : x = start + (j - 1) /\ x = mr + (pp + t)
        <5>1. start + (j - 1) = mr + (pp + t)
          BY <1>4, <1>6, <3>1, <4>2
        <5> QED BY <5>1
      <4>4. x = m * RecordSize + (p * Payload + t)
        BY <1>3, <1>4, <1>6, <4>3
      <4>5. x \div RecordSize = m /\ (x % RecordSize) \div Payload = p
        BY <1>3, <4>4, InRecord
      <4>6. <<m, p>> \in failed'
        BY <1>8, <1>14, <3>4
      <4>7. Unreadable(j - 1)'
        BY <1>1, <1>2, <4>3, <4>5, <4>6 DEF Unreadable
      <4> QED BY <3>2, <4>1, <4>7
    <3> QED BY <1>8, <3>3, <3>4
  <2> QED BY <2>1, <2>2
<1>16. FileRight'
  <2>1. reading' => n' * RecordSize + offset' = start + (len + use)
    BY <1>4, <1>14
  <2> QED BY <1>1, <1>2, <1>13, <1>15, <2>1 DEF FileRight
<1>17. FsTypes'
  <2>1. left' \in Nat /\ reading' \in BOOLEAN /\ (~reading' => left' = 0)
    <3>1. PICK rest \in Nat : rest = todo0 - use /\ (~(rest > 0) => rest = 0)
      BY <1>7
    <3>2. left' = rest
      BY <1>2, <1>10, <3>1
    <3>3. reading' = (rest > 0) /\ (rest > 0) \in BOOLEAN
      BY <1>10, <3>2
    <3>4. ~reading' => rest = 0
      BY <3>1, <3>3
    <3> QED BY <3>2, <3>3, <3>4
  <2>2. item' \in [kind : {"file", "directory", "root"}, start : 0 .. RecordSize - 1]
    BY <1>1 DEF FsTypes
  <2> QED BY <1>3, <1>13, <1>14, <2>1, <2>2 DEF FsTypes
<1> QED BY <1>16, <1>17

\* Entry c lies at place `at' of the block that is `whole' blocks behind that
\* of the header, which counts as entry 0; and it is not divided.
EntryPlace(whole, at, c) ==
  /\ at + EntrySize <= Payload
  /\ \/ whole = 0 /\ at = (item.start % Payload) + c * EntrySize
     \/ /\ whole > 0
        /\ \E j \in Nat : at = j * EntrySize /\ c = InHeaderBlock + (whole - 1) * PerBlock + j + 1

BlocksBehind(k, p) == k * Blocks + p - HeaderBlock

LEMMA HeaderFacts ==
  ASSUME item.start \in 0 .. RecordSize - 1
  PROVE  /\ item.start % Payload \in Nat /\ item.start % Payload < Payload
         /\ HeaderBlock \in Places /\ InHeaderBlock \in Int /\ PerBlock \in Nat
<1>1. PICK p \in Places, r \in 0 .. Payload - 1 :
        item.start \div Payload = p /\ item.start % Payload = r
  BY AtOffset
<1>2. PICK rest \in Nat : rest = Payload - (item.start % Payload)
  BY <1>1, FileSystemAssumption
<1>3. PICK size \in Nat \ {0} : size = EntrySize
  BY FileSystemAssumption
<1>4. rest \div size \in Nat
  OBVIOUS
<1>5. Payload \div size \in Nat
  BY FileSystemAssumption
<1> QED BY <1>1, <1>2, <1>3, <1>4, <1>5, FileSystemAssumption
        DEF HeaderBlock, InHeaderBlock, PerBlock

\* What the disk has where an entry lies is that entry.
LEMMA EntryShown ==
  ASSUME item.start \in 0 .. RecordSize - 1, NEW k \in Nat, NEW p \in Places,
         NEW at \in Nat, NEW c \in Nat, EntryPlace(BlocksBehind(k, p), at, c)
  PROVE  EntryAt(<<k, p>>, at) = c
<1>1. PICK size \in Nat \ {0} : size = EntrySize /\ 0 \in 0 .. size - 1
  BY FileSystemAssumption
<1>2. PICK s \in Nat : s = item.start % Payload
  BY HeaderFacts
<1>3. PICK behind \in Int : behind = BlocksBehind(k, p) /\ behind = (k * Blocks) + p - HeaderBlock
  <2>1. k * Blocks \in Int /\ p \in Int /\ HeaderBlock \in Int
    BY FileSystemAssumption, HeaderFacts DEF Places
  <2> QED BY <2>1 DEF BlocksBehind
<1>4. CASE behind = 0
  <2>1. at = s + c * size
    BY <1>1, <1>2, <1>3, <1>4 DEF EntryPlace
  <2>2. PICK since \in Nat : since = at - s /\ since = c * size
    BY <2>1
  <2>3. since \div size = c /\ since % size = 0
    <3>1. (c * size + 0) \div size = c /\ (c * size + 0) % size = 0
      BY <1>1, DivUnique
    <3>2. c * size + 0 = since
      BY <2>2
    <3> QED BY <3>1, <3>2
  <2> QED BY <1>1, <1>2, <1>3, <1>4, <2>2, <2>3 DEF EntryAt
<1>5. CASE behind # 0
  <2>1. PICK j \in Nat : /\ at = j * size /\ behind > 0 /\ at + size <= Payload
                         /\ c = InHeaderBlock + (behind - 1) * PerBlock + j + 1
    BY <1>1, <1>3, <1>5 DEF EntryPlace
  <2>2. at \div size = j /\ at % size = 0
    <3>1. (j * size + 0) \div size = j /\ (j * size + 0) % size = 0
      BY <1>1, DivUnique
    <3>2. j * size + 0 = at
      BY <2>1
    <3> QED BY <3>1, <3>2
  <2>3. PICK pb \in Int, inh \in Int :
          /\ inh = InHeaderBlock /\ pb = (behind - 1) * PerBlock
          /\ c = inh + pb + j + 1
    BY <2>1, HeaderFacts
  <2>4. EntryAt(<<k, p>>, at) = inh + pb + j + 1
    BY <1>1, <1>3, <1>5, <2>1, <2>2, <2>3 DEF EntryAt
  <2> QED BY <2>3, <2>4
<1> QED BY <1>4, <1>5

\* The next entry lies behind it, if the block has room, or else at the
\* beginning of the next block.
LEMMA NextInBlock ==
  ASSUME item.start \in 0 .. RecordSize - 1, NEW whole \in Nat, NEW at \in Nat, NEW c \in Nat,
         EntryPlace(whole, at, c), at + EntrySize + EntrySize <= Payload
  PROVE  EntryPlace(whole, at + EntrySize, c + 1)
<1>1. PICK size \in Nat \ {0}, s \in Nat : size = EntrySize /\ s = item.start % Payload
  BY FileSystemAssumption, HeaderFacts
<1>2. CASE whole = 0
  <2>1. (c + 1) * size = c * size + size
    OBVIOUS
  <2>2. at + size = s + (c + 1) * size
    BY <1>1, <1>2, <2>1 DEF EntryPlace
  <2> QED BY <1>1, <1>2, <2>2 DEF EntryPlace
<1>3. CASE whole # 0
  <2>1. PICK j \in Nat : at = j * size /\ c = InHeaderBlock + (whole - 1) * PerBlock + j + 1
    BY <1>1, <1>3 DEF EntryPlace
  <2>2. PICK before0 \in Int : before0 = InHeaderBlock + (whole - 1) * PerBlock
    BY HeaderFacts
  <2>3. at + size = (j + 1) * size /\ c + 1 = before0 + (j + 1) + 1
    BY <2>1, <2>2
  <2>4. whole > 0 /\ j + 1 \in Nat
    BY <1>3
  <2> QED BY <1>1, <2>2, <2>3, <2>4 DEF EntryPlace
<1> QED BY <1>2, <1>3

LEMMA NextInNextBlock ==
  ASSUME item.start \in 0 .. RecordSize - 1, NEW whole \in Nat, NEW at \in Nat, NEW c \in Nat,
         EntryPlace(whole, at, c), ~(at + EntrySize + EntrySize <= Payload)
  PROVE  EntryPlace(whole + 1, 0, c + 1)
<1>1. PICK size \in Nat \ {0}, s \in Nat, payload \in Nat :
        size = EntrySize /\ s = item.start % Payload /\ payload = Payload
  BY FileSystemAssumption, HeaderFacts
<1>2. PICK rest \in 0 .. size - 1 : payload = at + size + rest
  <2>1. payload - (at + size) \in 0 .. size - 1
    BY <1>1 DEF EntryPlace
  <2> QED BY <2>1
\* The next block holds as many entries as come before the next one.
<1>3. ASSUME c + 1 = InHeaderBlock + (whole + 1 - 1) * PerBlock + 0 + 1
      PROVE  EntryPlace(whole + 1, 0, c + 1)
  <2>1. 0 = 0 * EntrySize /\ 0 + EntrySize <= Payload
    BY FileSystemAssumption
  <2> QED BY <1>3, <2>1 DEF EntryPlace
<1>4. CASE whole = 0
  <2>1. at = s + c * size
    BY <1>1, <1>4 DEF EntryPlace
  <2>2. PICK m \in Nat : m = payload - s /\ m = (c + 1) * size + rest
    <3>1. (c + 1) * size = c * size + size
      OBVIOUS
    <3>2. payload - s = (c + 1) * size + rest
      BY <1>2, <2>1, <3>1
    <3> QED BY <3>2
  <2>3. ((c + 1) * size + rest) \div size = c + 1
    <3>1. PICK x \in Nat : x = c + 1
      OBVIOUS
    <3>2. (x * size + rest) \div size = x
      BY DivUnique
    <3> QED BY <3>1, <3>2
  <2>4. m \div size = c + 1
    BY <2>2, <2>3
  <2>5. InHeaderBlock = c
    BY <1>1, <2>2, <2>4 DEF InHeaderBlock
  <2>6. (0 + 1 - 1) * PerBlock = 0
    BY HeaderFacts
  <2> QED BY <1>3, <1>4, <2>5, <2>6
<1>5. CASE whole # 0
  <2>1. PICK j \in Nat : at = j * size /\ c = InHeaderBlock + (whole - 1) * PerBlock + j + 1
    BY <1>1, <1>5 DEF EntryPlace
  <2>2. payload = (j + 1) * size + rest
    <3>1. (j + 1) * size = j * size + size
      OBVIOUS
    <3> QED BY <1>2, <2>1, <3>1
  <2>3. ((j + 1) * size + rest) \div size = j + 1
    <3>1. PICK x \in Nat : x = j + 1
      OBVIOUS
    <3>2. (x * size + rest) \div size = x
      BY DivUnique
    <3> QED BY <3>1, <3>2
  <2>4. PICK pb \in Nat : pb = PerBlock /\ pb = j + 1
    BY <1>1, <2>2, <2>3 DEF PerBlock
  <2>5. (whole + 1 - 1) * pb = (whole - 1) * pb + pb
    OBVIOUS
  <2>6. PICK inh \in Int, wp \in Int : inh = InHeaderBlock /\ wp = (whole - 1) * pb
    BY HeaderFacts
  <2>7. c + 1 = inh + (whole + 1 - 1) * pb + 0 + 1
    BY <2>1, <2>4, <2>5, <2>6
  <2> QED BY <1>3, <2>4, <2>6, <2>7
<1> QED BY <1>4, <1>5

\* advance_access goes from an entry to the next one.
LEMMA EntryAdvanced ==
  ASSUME NEW p \in Places, NEW r \in 0 .. Payload - 1, r + EntrySize <= Payload
  PROVE  Advanced(p * Payload + r, EntrySize) =
           p * Payload + (IF r + EntrySize + EntrySize <= Payload THEN r + EntrySize ELSE Payload)
<1>1. PICK payload \in Nat \ {0}, size \in Nat \ {0}, blocks0 \in Nat, pp \in Nat :
        /\ payload = Payload /\ size = EntrySize /\ blocks0 = Blocks /\ size <= payload
        /\ pp = p * payload /\ pp = p * Payload /\ p \in Nat /\ p < blocks0
  <2>1. p \in Nat /\ p < Blocks /\ p * Payload \in Nat
    BY RecordFacts
  <2>2. /\ Payload \in Nat \ {0} /\ EntrySize \in Nat \ {0} /\ EntrySize <= Payload
        /\ Blocks \in Nat
    BY FileSystemAssumption
  <2> QED BY <2>1, <2>2
<1>2. PICK x \in Nat : x = pp + r + size /\ x = (pp + r) + size
  BY <1>1
<1>3. CASE r + size = payload
  <2>1. PICK q \in Nat : q = p + 1 /\ x = q * payload + 0
    <3>1. (p + 1) * payload = p * payload + payload
      BY <1>1
    <3> QED BY <1>1, <1>2, <1>3, <3>1
  <2>2. x % payload = 0
    <3>1. 0 \in 0 .. payload - 1
      OBVIOUS
    <3> QED BY <2>1, <3>1, DivUnique
  <2>3. Room(x) = payload
    BY <1>1, <2>2 DEF Room
  <2>4. Advanced(pp + r, size) = x
    BY <1>1, <1>2, <2>3 DEF Advanced
  <2> QED BY <1>1, <1>2, <1>3, <2>4
<1>4. CASE r + size # payload
  <2>1. PICK t \in 0 .. payload - 1 : t = r + size /\ x = p * payload + t
    BY <1>1, <1>2, <1>4
  <2>2. x \div payload = p /\ x % payload = t
    BY <1>1, <2>1, DivUnique
  <2>3. Room(x) = payload - t
    BY <1>1, <2>2 DEF Room
  <2>4. (p + 1) * payload = pp + payload
    BY <1>1
  <2>5. CASE payload - t < size
    <3>1. Advanced(pp + r, size) = (p + 1) * payload
      BY <1>1, <1>2, <2>2, <2>3, <2>5 DEF Advanced
    <3> QED BY <1>1, <2>1, <2>4, <2>5, <3>1
  <2>6. CASE ~(payload - t < size)
    <3>1. Advanced(pp + r, size) = x
      BY <1>1, <1>2, <2>3, <2>6 DEF Advanced
    <3> QED BY <1>1, <1>2, <2>1, <2>6, <3>1
  <2> QED BY <2>5, <2>6
<1> QED BY <1>3, <1>4

\* Wherever it goes, it does not go back.
LEMMA AdvancedIsNat ==
  ASSUME NEW o \in Nat PROVE Advanced(o, EntrySize) \in Nat
<1>1. PICK payload \in Nat \ {0}, size \in Nat : payload = Payload /\ size = EntrySize
  BY FileSystemAssumption
<1>2. PICK q \in Nat : q = (o + size) \div payload
  <2>1. (o + size) \div payload \in Nat
    OBVIOUS
  <2> QED BY <2>1
<1>3. (q + 1) * payload \in Nat
  OBVIOUS
<1> QED BY <1>1, <1>2, <1>3 DEF Advanced

LEMMA EntryIsInt ==
  ASSUME item.start \in 0 .. RecordSize - 1, NEW k \in Nat, NEW p \in Places, NEW at \in Nat
  PROVE  EntryAt(<<k, p>>, at) \in Int
<1>1. PICK size \in Nat \ {0}, s \in Nat, inh \in Int, pb \in Nat :
        /\ size = EntrySize /\ s = item.start % Payload
        /\ inh = InHeaderBlock /\ pb = PerBlock
  BY HeaderFacts, FileSystemAssumption
<1>2. PICK whole \in Int : whole = (k * Blocks) + p - HeaderBlock
  <2>1. k * Blocks \in Int /\ p \in Int /\ HeaderBlock \in Int
    BY FileSystemAssumption, HeaderFacts DEF Places
  <2> QED BY <2>1
<1>3. at - s >= 0 => (at - s) \div size \in Int
  OBVIOUS
<1>4. inh + ((whole - 1) * pb) + (at \div size) + 1 \in Int
  <2>1. (whole - 1) * pb \in Int /\ at \div size \in Int
    OBVIOUS
  <2> QED BY <2>1
<1> QED BY <1>1, <1>2, <1>3, <1>4 DEF EntryAt

\* So the window goes from entry to entry: in the record, or into the next.
LEMMA EntryStep ==
  ASSUME item.start \in 0 .. RecordSize - 1,
         NEW k \in Nat, NEW o \in 0 .. RecordSize - 1, NEW c \in Nat,
         EntryPlace(BlocksBehind(k, o \div Payload), o % Payload, c),
         NEW next, next = Advanced(o, EntrySize)
  PROVE  /\ Beyond(next) => EntryPlace(BlocksBehind(k + 1, 0), 0, c + 1)
         /\ ~Beyond(next) =>
              /\ next \in 0 .. RecordSize - 1
              /\ EntryPlace(BlocksBehind(k, next \div Payload), next % Payload, c + 1)
<1>1. PICK p \in Places, r \in 0 .. Payload - 1 :
        o \div Payload = p /\ o % Payload = r /\ o = p * Payload + r
  BY AtOffset
<1>2. PICK payload \in Nat \ {0}, size \in Nat \ {0}, rs \in Nat, pp \in Nat :
        /\ payload = Payload /\ size = EntrySize /\ rs = RecordSize
        /\ pp = p * payload /\ pp = p * Payload /\ p \in Nat /\ p < Blocks
        /\ pp + payload <= rs /\ rs = Blocks * payload
  <2>1. /\ p \in Nat /\ p < Blocks /\ p * Payload \in Nat
        /\ p * Payload + Payload <= RecordSize /\ RecordSize \in Nat
    BY RecordFacts
  <2>2. Payload \in Nat \ {0} /\ EntrySize \in Nat \ {0} /\ Blocks \in Nat
    BY FileSystemAssumption
  <2>3. RecordSize = Blocks * Payload
    BY <2>2 DEF RecordSize
  <2> QED BY <2>1, <2>2, <2>3
<1>3. PICK whole \in Nat :
        /\ whole = BlocksBehind(k, p)
        /\ p + 1 = Blocks => BlocksBehind(k + 1, 0) = whole + 1
        /\ BlocksBehind(k, p + 1) = whole + 1
  <2>1. PICK hb \in Nat, b0 \in Nat : hb = HeaderBlock /\ b0 = Blocks
    BY HeaderFacts, FileSystemAssumption DEF Places
  <2>2. BlocksBehind(k, p) = k * b0 + p - hb /\ BlocksBehind(k, p) \in Int
    BY <1>2, <2>1 DEF BlocksBehind
  <2>3. BlocksBehind(k, p) \in Nat
    BY <1>1, <2>2 DEF EntryPlace
  <2>4. (k + 1) * b0 = k * b0 + b0
    BY <2>1
  <2> QED BY <1>2, <2>1, <2>2, <2>3, <2>4 DEF BlocksBehind
<1>4. EntryPlace(whole, r, c) /\ r \in Nat /\ r + size <= payload
  BY <1>1, <1>2, <1>3 DEF EntryPlace
<1>5. CASE r + size + size <= payload
  <2>1. EntryPlace(whole, r + size, c + 1)
    BY <1>2, <1>4, <1>5, NextInBlock
  <2>2. PICK t \in 0 .. payload - 1 : t = r + size
    BY <1>2, <1>5
  <2>3. Advanced(p * Payload + r, EntrySize) = p * Payload + (r + EntrySize)
    BY <1>2, <1>4, <1>5, EntryAdvanced
  <2>4. next = p * payload + t /\ next = pp + t
    BY <1>1, <1>2, <2>2, <2>3
  <2>5. (p * payload + t) \div payload = p /\ (p * payload + t) % payload = t
    BY <1>2, DivUnique
  <2>6. next \div Payload = p /\ next % Payload = t
    BY <1>2, <2>4, <2>5
  <2>7. next \in 0 .. rs - 1
    BY <1>2, <2>4
  <2>8. ~Beyond(next)
    BY <1>2, <2>7 DEF Beyond
  <2> QED BY <1>2, <1>3, <2>1, <2>2, <2>6, <2>7, <2>8
<1>6. CASE ~(r + size + size <= payload)
  <2>1. EntryPlace(whole + 1, 0, c + 1)
    BY <1>2, <1>4, <1>6, NextInNextBlock
  <2>2. Advanced(p * Payload + r, EntrySize) = p * Payload + Payload
    BY <1>2, <1>4, <1>6, EntryAdvanced
  <2>3. PICK q \in Nat : q = p + 1 /\ q * payload = pp + payload
    <3>1. (p + 1) * payload = p * payload + payload
      BY <1>2
    <3> QED BY <1>2, <3>1
  <2>4. next = pp + payload /\ next = q * payload + 0
    BY <1>1, <1>2, <2>2, <2>3
  <2>5. CASE q = Blocks
    <3>1. Beyond(next)
      BY <1>2, <2>3, <2>4, <2>5 DEF Beyond
    <3>2. BlocksBehind(k + 1, 0) = whole + 1
      BY <1>3, <2>3, <2>5
    <3> QED BY <2>1, <3>1, <3>2
  <2>6. CASE q # Blocks
    <3>1. q \in Places
      BY <1>2, <2>3, <2>6, FileSystemAssumption DEF Places
    <3>2. q * Payload + Payload <= RecordSize
      BY <3>1, RecordFacts
    <3>3. next \in 0 .. rs - 1
      BY <1>2, <2>3, <2>4, <3>2
    <3>4. 0 \in 0 .. payload - 1
      OBVIOUS
    <3>5. (q * payload + 0) \div payload = q /\ (q * payload + 0) % payload = 0
      BY <3>4, DivUnique
    <3>6. next \div Payload = q /\ next % Payload = 0
      BY <1>2, <2>4, <3>5
    <3>7. ~Beyond(next)
      BY <1>2, <3>3 DEF Beyond
    <3>8. BlocksBehind(k, q) = whole + 1
      BY <1>3, <2>3
    <3> QED BY <1>2, <2>1, <3>3, <3>6, <3>7, <3>8
  <2> QED BY <2>5, <2>6
<1> QED BY <1>5, <1>6

\* The window is at the entry shown last.
EntriesRight ==
  item.kind # "file" /\ HeaderFits /\ failed = {} =>
    /\ \A i \in 1 .. Len(out) : out[i] = i
    /\ reading =>
         EntryPlace(BlocksBehind(n, offset \div Payload), offset % Payload, Len(out))

FsInv == FsTypes /\ FileRight /\ EntriesRight

LEMMA ShownRight ==
  ASSUME FsTypes, EntriesRight, reading, item' = item,
         NEW k \in Nat, NEW o \in 0 .. RecordSize - 1,
         n' = k, offset' = o, HeldRight', failed \subseteq failed',
         out' = Append(out, EntryAt(held'[o \div Payload], o % Payload)),
         item.kind # "file" /\ HeaderFits /\ failed = {} =>
           EntryPlace(BlocksBehind(k, o \div Payload), o % Payload, Len(out) + 1)
  PROVE  out' \in Seq(Int) /\ EntriesRight'
<1>1. PICK p \in Places, r \in Nat : o \div Payload = p /\ o % Payload = r
  <2>1. \A r \in 0 .. Payload - 1 : r \in Nat
    BY FileSystemAssumption
  <2> QED BY <2>1, AtOffset
<1>2. item.start \in 0 .. RecordSize - 1 /\ out \in Seq(Int)
  BY DEF FsTypes
<1>3. PICK j \in Nat : held'[p] = <<j, p>> /\ (failed' = {} => j = k)
  <2>1. \A i \in 0 .. k - 1 : i \in Nat
    OBVIOUS
  <2> QED BY <2>1 DEF HeldRight, HeldAt
<1>4. PICK e \in Int : e = EntryAt(<<j, p>>, r) /\ out' = Append(out, e)
  BY <1>1, <1>2, <1>3, EntryIsInt
<1>5. PICK len \in Nat : len = Len(out)
  BY <1>2, LenProperties
<1>6. /\ out' \in Seq(Int) /\ Len(out') = len + 1 /\ out'[len + 1] = e
      /\ \A i \in 1 .. len : out'[i] = out[i]
  BY <1>2, <1>4, <1>5, AppendProperties
<1>7. ASSUME item.kind # "file", HeaderFits, failed' = {}
      PROVE  /\ \A i \in 1 .. len + 1 : out'[i] = i
             /\ EntryPlace(BlocksBehind(k, o \div Payload), o % Payload, len + 1)
  <2>1. failed = {} /\ \A i \in 1 .. len : out[i] = i
    BY <1>5, <1>7 DEF EntriesRight
  <2>2. PICK c \in Nat : c = len + 1
    OBVIOUS
  <2>3. EntryPlace(BlocksBehind(k, p), r, c)
    BY <1>1, <1>5, <1>7, <2>1, <2>2
  <2>4. e = c
    BY <1>2, <1>3, <1>4, <1>7, <2>3, EntryShown
  <2>5. \A i \in 1 .. len + 1 : i \in 1 .. len \/ i = len + 1
    OBVIOUS
  <2> QED BY <1>1, <1>6, <2>1, <2>2, <2>3, <2>4, <2>5
<1>8. HeaderFits' = HeaderFits
  BY DEF HeaderFits, Room
<1>9. ASSUME NEW c \in Nat, EntryPlace(BlocksBehind(k, o \div Payload), o % Payload, c)
      PROVE  EntryPlace(BlocksBehind(k, o \div Payload), o % Payload, c)'
  BY <1>9 DEF EntryPlace, BlocksBehind, HeaderBlock, InHeaderBlock, PerBlock
<1>10. ASSUME item'.kind # "file", HeaderFits', failed' = {}
       PROVE  /\ \A i \in 1 .. Len(out') : out'[i] = i
              /\ EntryPlace(BlocksBehind(n, offset \div Payload), offset % Payload, Len(out))'
  BY <1>6, <1>7, <1>8, <1>9, <1>10
<1> QED BY <1>6, <1>10 DEF EntriesRight

LEMMA NextEntryRight ==
  ASSUME FsInv, NextEntry
  PROVE  FsInv'
<1>1. /\ item' = item /\ item.kind = "directory" /\ reading /\ left > 0
      /\ left' = left - 1 /\ reading' = (left' > 0)
      /\ FsTypes /\ EntriesRight /\ left \in Nat
  BY DEF NextEntry, FsInv, FsTypes
<1>2. PICK o \in 0 .. RecordSize - 1, k \in Nat, len \in Nat :
        o = offset /\ k = n /\ len = Len(out)
  BY <1>1, LenProperties DEF FsTypes
<1>3. o \in Nat /\ item.start \in 0 .. RecordSize - 1
  BY <1>1, RecordFacts DEF FsTypes
<1>4. PICK next \in Nat : next = Advanced(o, EntrySize)
  BY <1>3, AdvancedIsNat
<1>5. ASSUME item.kind # "file", HeaderFits, failed = {}
      PROVE  /\ Beyond(next) => EntryPlace(BlocksBehind(k + 1, 0), 0, len + 1)
             /\ ~Beyond(next) =>
                  EntryPlace(BlocksBehind(k, next \div Payload), next % Payload, len + 1)
  <2>1. EntryPlace(BlocksBehind(k, o \div Payload), o % Payload, len)
    BY <1>1, <1>2, <1>5 DEF EntriesRight
  <2> QED BY <1>3, <1>4, <2>1, EntryStep
<1>6. out' \in Seq(Int) /\ EntriesRight' /\ HeldRight' /\ n' \in Nat
      /\ offset' \in 0 .. RecordSize - 1
  <2>1. CASE Beyond(next)
    <3>1. ReadRecord(n + 1, 0) /\ n' = n + 1 /\ ShowEntry(held', 0)
      BY <1>2, <1>4, <2>1 DEF NextEntry
    <3>2. HeldRight' /\ offset' = 0 /\ failed \subseteq failed' /\ n' = k + 1
      BY <1>1, <1>2, <3>1, ReadRecordRight DEF FsTypes
    <3>3. 0 \in 0 .. RecordSize - 1 /\ 0 \div Payload = 0 /\ 0 % Payload = 0 /\ k + 1 \in Nat
      BY RecordFacts, FileSystemAssumption
    <3>4. out' = Append(out, EntryAt(held'[0 \div Payload], 0 % Payload))
      BY <3>1 DEF ShowEntry
    <3>5. item.kind # "file" /\ HeaderFits /\ failed = {} =>
            EntryPlace(BlocksBehind(k + 1, 0 \div Payload), 0 % Payload, Len(out) + 1)
      BY <1>2, <1>5, <2>1, <3>3
    <3> QED BY <1>1, <3>2, <3>3, <3>4, <3>5, ShownRight
  <2>2. CASE ~Beyond(next)
    <3>1. offset' = next /\ UNCHANGED <<held, failed, n>> /\ ShowEntry(held, next)
      BY <1>2, <1>4, <2>2 DEF NextEntry
    <3>2. HeldRight' /\ failed \subseteq failed'
      BY <1>1, <3>1 DEF FsTypes, HeldRight, HeldAt
    <3>3. next \in 0 .. RecordSize - 1
      BY <1>4, <2>2, RecordFacts DEF Beyond
    <3>4. out' = Append(out, EntryAt(held'[next \div Payload], next % Payload))
      BY <3>1 DEF ShowEntry
    <3>5. item.kind # "file" /\ HeaderFits /\ failed = {} =>
            EntryPlace(BlocksBehind(k, next \div Payload), next % Payload, Len(out) + 1)
      BY <1>2, <1>5, <2>2
    <3> QED BY <1>1, <1>2, <3>1, <3>2, <3>3, <3>4, <3>5, ShownRight
  <2> QED BY <2>1, <2>2
<1>7. left' \in Nat /\ reading' \in BOOLEAN /\ (~reading' => left' = 0)
  <2>1. PICK rest \in Nat : rest = left - 1 /\ (~(rest > 0) => rest = 0)
    BY <1>1
  <2>2. left' = rest /\ reading' = (rest > 0) /\ (rest > 0) \in BOOLEAN
    BY <1>1, <2>1
  <2> QED BY <2>1, <2>2
<1>8. FsTypes'
  BY <1>1, <1>6, <1>7 DEF FsTypes
<1> QED BY <1>1, <1>6, <1>8 DEF FsInv, FileRight

LEMMA NextRootEntryRight ==
  ASSUME FsInv, NextRootEntry
  PROVE  FsInv'
<1>1. /\ item' = item /\ item.kind = "root" /\ reading /\ left > 0
      /\ UNCHANGED <<held, failed, n>>
      /\ FsTypes /\ EntriesRight /\ left \in Nat
  BY DEF NextRootEntry, FsInv, FsTypes
<1>2. PICK o \in 0 .. RecordSize - 1, k \in Nat, len \in Nat :
        o = offset /\ k = n /\ len = Len(out)
  BY <1>1, LenProperties DEF FsTypes
<1>3. o \in Nat /\ item.start \in 0 .. RecordSize - 1
  BY <1>1, RecordFacts DEF FsTypes
<1>4. PICK next \in Nat : next = Advanced(o, EntrySize)
  BY <1>3, AdvancedIsNat
<1>5. HeldRight' /\ failed \subseteq failed' /\ offset' = next
  BY <1>1, <1>2, <1>4 DEF FsTypes, HeldRight, HeldAt, NextRootEntry
<1>6. CASE Beyond(next)
  <2>1. reading' = FALSE /\ UNCHANGED <<left, out>>
    BY <1>2, <1>4, <1>6 DEF NextRootEntry
  <2>2. HeaderFits' = HeaderFits
    BY <1>1 DEF HeaderFits, Room
  <2>3. EntriesRight'
    BY <1>1, <2>1, <2>2 DEF EntriesRight
  <2>4. FsTypes'
    BY <1>1, <1>5, <2>1 DEF FsTypes
  <2> QED BY <1>1, <2>3, <2>4 DEF FsInv, FileRight
<1>7. CASE ~Beyond(next)
  <2>1. ShowEntry(held, next) /\ left' = left - 1 /\ reading' = (left' > 0)
    BY <1>2, <1>4, <1>7 DEF NextRootEntry
  <2>2. next \in 0 .. RecordSize - 1
    BY <1>4, <1>7, RecordFacts DEF Beyond
  <2>3. out' = Append(out, EntryAt(held'[next \div Payload], next % Payload))
    BY <1>1, <2>1 DEF ShowEntry
  <2>4. item.kind # "file" /\ HeaderFits /\ failed = {} =>
          EntryPlace(BlocksBehind(k, next \div Payload), next % Payload, Len(out) + 1)
    <3> SUFFICES ASSUME item.kind # "file", HeaderFits, failed = {}
                 PROVE  EntryPlace(BlocksBehind(k, next \div Payload), next % Payload, len + 1)
      BY <1>2
    <3>1. EntryPlace(BlocksBehind(k, o \div Payload), o % Payload, len)
      BY <1>1, <1>2 DEF EntriesRight
    <3> QED BY <1>3, <1>4, <1>7, <3>1, EntryStep
  <2>5. out' \in Seq(Int) /\ EntriesRight'
    BY <1>1, <1>2, <1>5, <2>2, <2>3, <2>4, ShownRight
  <2>6. left' \in Nat /\ reading' \in BOOLEAN
    <3>1. PICK rest \in Nat : rest = left - 1
      BY <1>1
    <3>2. left' = rest /\ reading' = (rest > 0) /\ (rest > 0) \in BOOLEAN
      BY <2>1, <3>1
    <3> QED BY <3>2
  <2>7. FsTypes'
    BY <1>1, <1>5, <2>2, <2>5, <2>6 DEF FsTypes
  <2> QED BY <1>1, <2>5, <2>7 DEF FsInv, FileRight
<1> QED BY <1>6, <1>7

LEMMA FsStarts == FsInit => FsInv
<1> SUFFICES ASSUME FsInit PROVE FsInv
  OBVIOUS
<1>1. PICK start \in 0 .. RecordSize - 1 :
        /\ start = item.start /\ offset = start /\ start \in Nat
        /\ item \in [kind : {"file", "directory", "root"}, start : 0 .. RecordSize - 1]
  BY RecordFacts DEF FsInit
<1>2. left \in Nat
  <2>1. PICK most \in Int : most = (MaxRecords * RecordSize) - start
    <3>1. MaxRecords * RecordSize \in Int
      BY RecordFacts, FileSystemAssumption
    <3> QED BY <1>1, <3>1
  <2>2. left \in 0 .. most
    BY <1>1, <2>1 DEF FsInit
  <2> QED BY <2>2
<1>3. n = 0 /\ reading = TRUE /\ failed = {} /\ HeldRight
  BY DEF FsInit, HeldRight, HeldAt
<1>4. out = <<>> /\ out \in Seq(Int) /\ Len(out) = 0
  BY EmptySeq DEF FsInit
<1>5. FsTypes
  BY <1>1, <1>2, <1>3, <1>4 DEF FsTypes
<1>6. FileRight
  <2>1. 0 * RecordSize + start = start + 0
    BY <1>1, RecordFacts
  <2> QED BY <1>1, <1>3, <1>4, <2>1 DEF FileRight
<1>7. EntriesRight
  <2> SUFFICES ASSUME HeaderFits
               PROVE  EntryPlace(BlocksBehind(0, start \div Payload), start % Payload, 0)
    BY <1>1, <1>3, <1>4 DEF EntriesRight
  <2>1. PICK payload \in Nat \ {0}, size \in Nat, r \in Nat, p \in Nat :
          /\ payload = Payload /\ size = EntrySize
          /\ r = start % Payload /\ p = start \div Payload
    <3>1. Payload \in Nat \ {0} /\ EntrySize \in Nat
      BY FileSystemAssumption
    <3>2. start \div Payload \in Nat /\ start % Payload \in Nat
      BY <1>1, <3>1
    <3> QED BY <3>1, <3>2
  <2>2. r + size <= payload
    <3>1. payload - r >= size
      BY <1>1, <2>1 DEF HeaderFits, Room
    <3> QED BY <2>1, <3>1
  <2>3. BlocksBehind(0, p) = 0
    <3>1. HeaderBlock = p /\ 0 * Blocks = 0
      BY <1>1, <2>1, FileSystemAssumption DEF HeaderBlock
    <3> QED BY <2>1, <3>1 DEF BlocksBehind
  <2>4. r = r + 0 * size
    BY <2>1
  <2> QED BY <1>1, <2>1, <2>2, <2>3, <2>4 DEF EntryPlace
<1> QED BY <1>5, <1>6, <1>7 DEF FsInv

LEMMA FsInductive ==
  ASSUME FsInv, [FsNext]_fsVars
  PROVE  FsInv'
<1>1. CASE CopyBytes
  <2>1. FsTypes' /\ FileRight'
    BY <1>1, CopyBytesRight DEF FsInv
  <2>2. EntriesRight'
    BY <1>1 DEF CopyBytes, EntriesRight
  <2> QED BY <2>1, <2>2 DEF FsInv
<1>2. CASE NextEntry
  BY <1>2, NextEntryRight
<1>3. CASE NextRootEntry
  BY <1>3, NextRootEntryRight
<1>4. CASE UNCHANGED fsVars
  <2>1. UNCHANGED <<item, offset, held, n, left, out, failed, reading>>
    BY <1>4 DEF fsVars
  <2>2. FsTypes' /\ FileRight'
    BY <2>1 DEF FsInv, FsTypes, FileRight, HeldRight, HeldAt, Unreadable
  <2>3. EntriesRight'
    BY <2>1
    DEF FsInv, EntriesRight, HeaderFits, Room, EntryPlace, BlocksBehind, HeaderBlock,
        InHeaderBlock, PerBlock
  <2> QED BY <2>2, <2>3 DEF FsInv
<1> QED BY <1>1, <1>2, <1>3, <1>4 DEF FsNext

\* lmfs writes the file that is in the file system, byte for byte but for the
\* blocks that cannot be read (show_file and lmfs_open of lmfs.c), whatever the
\* sizes of blocks and records.
THEOREM FilesRead == FsInit /\ [][FsNext]_fsVars => []FileExtracted
<1>1. FsInv => FileExtracted
  <2> SUFFICES ASSUME FsInv, item.kind = "file"
               PROVE  /\ \A i \in DOMAIN out : out[i] = i - 1 \/ Unreadable(i - 1)
                      /\ \A i \in DOMAIN out : out[i] < i
                      /\ ~reading => left = 0
    BY DEF FileExtracted
  <2>1. DOMAIN out = 1 .. Len(out)
    BY LenProperties DEF FsInv, FsTypes
  <2> QED BY <2>1 DEF FsInv, FsTypes, FileRight
<1>2. FsInv /\ [FsNext]_fsVars => FsInv'
  BY FsInductive
<1> QED BY FsStarts, <1>1, <1>2, PTL

\* lmfs shows the entries of a directory in order and leaves none out (show_de
\* and lmfs_open of lmfs.c), whatever the sizes of blocks, records and entries.
THEOREM DirectoriesRead == FsInit /\ [][FsNext]_fsVars => []EntriesInOrder
<1>1. FsInv => EntriesInOrder
  <2> SUFFICES ASSUME FsInv, item.kind # "file", HeaderFits, failed = {}
               PROVE  /\ \A i \in DOMAIN out : out[i] = i
                      /\ ~reading /\ item.kind = "directory" => left = 0
    BY DEF EntriesInOrder
  <2>1. DOMAIN out = 1 .. Len(out)
    BY LenProperties DEF FsInv, FsTypes
  <2> QED BY <2>1 DEF FsInv, FsTypes, EntriesRight
<1>2. FsInv /\ [FsNext]_fsVars => FsInv'
  BY FsInductive
<1> QED BY FsStarts, <1>1, <1>2, PTL

-----------------------------------------------------------------------------
(***************************************************************************)
(* The packs that diskmaker makes.  In a pack that is being created the    *)
(* partitions written without an error are among those before the one that *)
(* is made next; a pack that is being modified is as it was until its one  *)
(* partition is made.                                                      *)
(***************************************************************************)
Parts == UNION {ToSet(t.parts) : t \in Templates}
Files == DOMAIN FileLength \cup {NoFile}
Contents ==
  [file : DOMAIN FileLength \cup {"zero", "machine"}, block : Nat, swapped : BOOLEAN]
Made == Len(template.parts) - Len(todo)

PackTypes ==
  /\ pc \in {"idle", "label", "make"}
  /\ template \in Templates
  /\ todo \in Seq(Parts)
  /\ blocks \in [Numbers -> Contents]
  /\ length \in 0 .. LastBlock + 1
  /\ extracted \in [Exports -> Seq(Contents)]

BehindIsZero == \A b \in Numbers : b >= length => blocks[b] = Zero

LabelOf(t) == <<[parts |-> Layout(t.parts), mcr |-> label[1].mcr, lod |-> label[1].lod]>>
LabelRight ==
  /\ label # <<>> => \E t \in Templates : label = LabelOf(t)
  /\ length = 0 => label = <<>> /\ pc = "idle"

TodoRight ==
  /\ pc = "idle" => todo = <<>>
  /\ pc = "make" => todo # <<>>
  /\ pc # "idle" => command.op \in {"create", "modify", "label"}

Complete(p) ==
  /\ p.start + p.size <= length
  /\ \A k \in 1 .. p.size : blocks[p.start + k - 1] = Holds(p, k)

Creating == pc # "idle" /\ command.op = "create"

MadeRight ==
  /\ made \subseteq 1 .. Len(template.parts)
  /\ pc # "idle" /\ ~Creating => made = {}
  /\ made # {} \/ Creating => label = <<>> \/ label = LabelOf(template)
  /\ Creating =>
       /\ Made \in Nat
       /\ \A i \in 1 .. Len(todo) : todo[i] = template.parts[Made + i]
       /\ \A i \in made : i <= Made
  /\ Disjoint(template.parts) =>
       \A i \in made :
         template.parts[i].file \in Files => Complete(template.parts[i])

ModifiedRight ==
  command.op = "modify" =>
    /\ command.name \in Names(template.parts)
    /\ pc # "idle" => /\ todo = <<Named(template.parts, command.name)>>
                      /\ blocks = before

PackInv ==
  /\ PackTypes /\ BehindIsZero /\ LabelRight /\ TodoRight /\ MadeRight
  /\ ModifiedRight
  /\ Disjoint(template.parts) => OthersKept
  /\ ExtractReturnsFile

\* Of the partitions of one name there is a first.
LEMMA FirstPlace ==
  ASSUME NEW S, NEW parts \in Seq(S), NEW name \in Names(parts)
  PROVE  /\ Place(parts, name) \in 1 .. Len(parts)
         /\ parts[Place(parts, name)].name = name
         /\ \A j \in 1 .. Place(parts, name) - 1 : parts[j].name # name
<1>1. PICK L : L = Len(parts) /\ L \in Nat /\ DOMAIN parts = 1 .. L
  OBVIOUS
<1> DEFINE I == {k \in 1 .. L : parts[k].name = name}
<1>2. I # {} /\ I \subseteq Nat
  BY <1>1 DEF Names, ToSet
<1> DEFINE Less == {x \in Nat \X Nat : x[1] < x[2]}
<1>less. IsWellFoundedOn(Less, Nat)
  <2>1. Less = OpToRel(<, Nat)
    BY DEF OpToRel
  <2> QED BY <2>1, NatLessThanWellFounded
<1>3. PICK i \in I : \A k \in I : ~(<<k, i>> \in Less)
  <2> HIDE DEF Less, I
  <2> QED BY <1>2, <1>less, WFMin
<1>4. \A k \in I : i <= k
  <2>1. SUFFICES ASSUME NEW k \in I PROVE i <= k
    OBVIOUS
  <2>2. k \in Nat /\ i \in Nat /\ ~(<<k, i>> \in Less)
    BY <1>2, <1>3
  <2> QED BY <2>2
<1>5. i \in DOMAIN parts /\ parts[i].name = name /\ \A j \in 1 .. i - 1 : parts[j].name # name
  BY <1>1, <1>4
<1>6. /\ Place(parts, name) \in DOMAIN parts
      /\ parts[Place(parts, name)].name = name
      /\ \A j \in 1 .. Place(parts, name) - 1 : parts[j].name # name
  BY <1>5 DEF Place
<1> QED BY <1>1, <1>6

\* The label gives a name the place that the template gives it.
LEMMA LayoutPlace ==
  ASSUME NEW S, NEW parts \in Seq(S), NEW name \in Names(Layout(parts))
  PROVE  /\ name \in Names(parts)
         /\ Place(Layout(parts), name) = Place(parts, name)
<1> DEFINE lay == Layout(parts)
<1>1. PICK L : L = Len(parts) /\ L \in Nat /\ DOMAIN parts = 1 .. L
  OBVIOUS
<1>2. /\ DOMAIN lay = 1 .. L
      /\ \A i \in 1 .. L : lay[i].name = parts[i].name
  BY <1>1 DEF Layout
<1>3. name \in Names(parts)
  BY <1>1, <1>2 DEF Names, ToSet
<1>4. \A i : /\ i \in DOMAIN lay
             /\ lay[i].name = name /\ \A j \in 1 .. i - 1 : lay[j].name # name
            <=>
             /\ i \in DOMAIN parts
             /\ parts[i].name = name /\ \A j \in 1 .. i - 1 : parts[j].name # name
  BY <1>1, <1>2
<1>5. lay \in Seq({lay[i] : i \in 1 .. L}) /\ Len(lay) = L
  BY <1>1 DEF Layout
<1>6. PICK x : x = Place(lay, name)
  OBVIOUS
<1>7. PICK y : y = Place(parts, name)
  OBVIOUS
<1>8. x \in 1 .. L /\ lay[x].name = name /\ \A j \in 1 .. x - 1 : lay[j].name # name
  <2>1. Place(lay, name) \in 1 .. Len(lay) /\ lay[Place(lay, name)].name = name
        /\ \A j \in 1 .. Place(lay, name) - 1 : lay[j].name # name
    BY <1>5, FirstPlace
  <2> QED BY <1>5, <1>6, <2>1
<1>9. y \in 1 .. L /\ parts[y].name = name /\ \A j \in 1 .. y - 1 : parts[j].name # name
  BY <1>1, <1>3, <1>7, FirstPlace
<1>10. x = y
  BY <1>1, <1>2, <1>8, <1>9
<1> QED BY <1>3, <1>6, <1>7, <1>10

\* What a template may say of a partition.
LEMMA PartFacts ==
  ASSUME NEW t \in Templates
  PROVE  /\ t.parts \in Seq(Parts)
         /\ \A i \in 1 .. Len(t.parts) : t.parts[i] \in Parts
<1>1. ToSet(t.parts) \subseteq Parts /\ t.parts \in Seq(ToSet(t.parts))
  BY PackAssumption DEF Parts
<1> QED BY <1>1

LEMMA ExtentFacts ==
  ASSUME NEW p \in Parts
  PROVE  /\ p.start \in Nat \ {0} /\ p.size \in Nat \ {0} /\ LastBlock \in Nat
         /\ p.start + p.size <= LastBlock + 1
         /\ p.start + Len(Writes(p)) <= LastBlock + 1
BY PackAssumption, BoundAssumption DEF Parts

\* What is written: the file, and zeros as far as the partition goes.
LEMMA WritesFacts ==
  ASSUME NEW p \in Parts
  PROVE  /\ Len(Writes(p)) \in Nat
         /\ \A k \in 1 .. Len(Writes(p)) :
              Writes(p)[k] \in Contents /\ (k <= p.size => Writes(p)[k] = Holds(p, k))
         /\ p.file \in Files => p.size <= Len(Writes(p))
         /\ Fits(p) => Len(Writes(p)) <= p.size
<1>1. p.start \in Nat \ {0} /\ p.size \in Nat \ {0}
  BY ExtentFacts
<1> DEFINE copied == IF p.file \in DOMAIN FileLength THEN FileLength[p.file] ELSE 0
           all == IF copied > p.size THEN copied ELSE p.size
           shown(k) == IF k <= copied THEN Content(p.file, k, p.name \in McrNames) ELSE Zero
<1>2. copied \in Nat /\ all \in Nat /\ p.size <= all
  BY <1>1, PackAssumption
<1>3. \A k \in Nat \ {0} : shown(k) \in Contents /\ shown(k) = Holds(p, k)
  <2>1. SUFFICES ASSUME NEW k \in Nat \ {0} PROVE shown(k) \in Contents /\ shown(k) = Holds(p, k)
    BY Zenon
  <2>2. (p.name \in McrNames) \in BOOLEAN
    OBVIOUS
  <2>3. PICK s \in BOOLEAN : s = (p.name \in McrNames)
    BY <2>2
  <2>4. Zero \in Contents
    BY DEF Zero, Content, Contents
  <2>5. p.file \in DOMAIN FileLength => Content(p.file, k, s) \in Contents
    BY DEF Content, Contents
  <2>6. shown(k) = IF k <= copied THEN Content(p.file, k, s) ELSE Zero
    BY <2>3, Zenon
  <2>7. k <= copied => k = 0 \/ p.file \in DOMAIN FileLength
    OBVIOUS
  <2>8. shown(k) = Holds(p, k)
    BY Zenon DEF Holds
  <2> HIDE DEF copied, shown
  <2> QED BY <2>4, <2>5, <2>6, <2>7, <2>8
<1>4. CASE p.file \in Files
  <2>1. Writes(p) = [k \in 1 .. all |-> shown(k)]
    BY <1>4, Zenon DEF Writes, Files
  <2>2. Len(Writes(p)) = all
    BY <2>1, <1>2
  <2>3. \A k \in 1 .. all : Writes(p)[k] = shown(k)
    BY <2>1
  <2>4. Fits(p) => all <= p.size
    BY <1>1 DEF Fits
  <2> HIDE DEF all, shown
  <2> QED BY <1>2, <1>3, <2>2, <2>3, <2>4
<1>5. CASE p.file \notin Files
  <2>1. Writes(p) = <<>>
    BY <1>5 DEF Writes, Files
  <2> QED BY <1>1, <1>5, <2>1
<1> QED BY <1>4, <1>5

\* What a write of a part of a partition leaves behind.
LEMMA PutFacts ==
  ASSUME NEW p \in Parts, NEW w \in Progress(p), Put(p, w),
         blocks \in [Numbers -> Contents], length \in 0 .. LastBlock + 1, BehindIsZero
  PROVE  /\ blocks' \in [Numbers -> Contents]
         /\ length' \in 0 .. LastBlock + 1 /\ length <= length'
         /\ BehindIsZero'
         /\ \A b \in Numbers : b < p.start \/ b >= p.start + Len(Writes(p)) =>
              blocks'[b] = blocks[b]
         /\ w.n = Len(Writes(p)) /\ p.file \in Files => Complete(p)'
<1>1. /\ p.start \in Nat \ {0} /\ p.size \in Nat \ {0} /\ LastBlock \in Nat
      /\ p.start + p.size <= LastBlock + 1
      /\ p.start + Len(Writes(p)) <= LastBlock + 1
  BY ExtentFacts
<1>2. /\ Len(Writes(p)) \in Nat
      /\ \A k \in 1 .. Len(Writes(p)) :
           Writes(p)[k] \in Contents /\ (k <= p.size => Writes(p)[k] = Holds(p, k))
      /\ p.file \in Files => p.size <= Len(Writes(p))
  BY WritesFacts
<1>3. PICK L \in Nat : L = Len(Writes(p))
  BY <1>2
<1>4. w.n \in 0 .. L /\ w.m \in 0 .. L /\ w.n <= w.m
  BY <1>3 DEF Progress
<1>5. PICK n0 \in 0 .. L, m0 \in 0 .. L : n0 = w.n /\ m0 = w.m /\ n0 <= m0
  BY <1>4
<1>6. PICK s \in Nat \ {0}, z \in Nat \ {0}, B \in Nat : s = p.start /\ z = p.size /\ B = LastBlock
  BY <1>1
<1>7. s + z <= B + 1 /\ s + L <= B + 1
  BY <1>1, <1>3, <1>6
<1>8. length' = IF s + m0 > length /\ m0 > 0 THEN s + m0 ELSE length
  BY <1>5, <1>6 DEF Put
<1>9. PICK len \in 0 .. B + 1, new \in 0 .. B + 1 :
        len = length /\ new = length' /\ len <= new /\ (m0 > 0 => s + m0 <= new)
  BY <1>6, <1>7, <1>8
<1>10. Numbers = 1 .. B
  BY <1>6 DEF Numbers
<1>11. blocks' = [b \in Numbers |->
         LET k == b - s + 1
         IN IF k \in 1 .. n0 THEN Writes(p)[k]
            ELSE IF k \in 1 .. m0 THEN Zero ELSE blocks[b]]
  BY <1>5, <1>6 DEF Put
<1>12. Zero \in Contents
  BY DEF Zero, Content, Contents
<1>13. ASSUME NEW b \in 1 .. B
       PROVE  /\ blocks'[b] \in Contents
              /\ b - s + 1 \in 1 .. n0 => blocks'[b] = Writes(p)[b - s + 1]
              /\ b < s \/ b >= s + L => blocks'[b] = blocks[b]
              /\ b >= new => blocks'[b] = Zero
  <2>1. PICK k \in Int : k = b - s + 1
    OBVIOUS
  <2>2. blocks'[b] = IF k \in 1 .. n0 THEN Writes(p)[k]
                     ELSE IF k \in 1 .. m0 THEN Zero ELSE blocks[b]
    BY <1>10, <1>11, <2>1
  <2>3. blocks[b] \in Contents /\ (b >= len => blocks[b] = Zero)
    BY <1>9, <1>10 DEF BehindIsZero
  <2>4. k \in 1 .. n0 => Writes(p)[k] \in Contents
    BY <1>2, <1>3, <1>5
  <2>5. blocks'[b] \in Contents
    BY <2>2, <2>3, <2>4, <1>12
  <2>6. b >= new => k \notin 1 .. n0
    BY <1>5, <1>9, <2>1
  <2> QED BY <1>5, <1>9, <2>1, <2>2, <2>3, <2>5, <2>6
<1>14. blocks' \in [Numbers -> Contents]
  BY <1>10, <1>11, <1>13
<1>15. BehindIsZero'
  BY <1>9, <1>10, <1>13 DEF BehindIsZero
<1>16. \A b \in Numbers : b < p.start \/ b >= p.start + Len(Writes(p)) => blocks'[b] = blocks[b]
  BY <1>3, <1>6, <1>10, <1>13
<1>17. ASSUME w.n = Len(Writes(p)), p.file \in Files
       PROVE  Complete(p)'
  <2>1. n0 = L /\ m0 = L /\ z <= L
    BY <1>2, <1>3, <1>5, <1>6, <1>17
  <2>2. p.start + p.size <= length'
    BY <1>6, <1>9, <2>1
  <2>3. ASSUME NEW k \in 1 .. z PROVE blocks'[s + k - 1] = Holds(p, k)
    <3>1. PICK b \in 1 .. B : b = s + k - 1
      BY <1>7, <2>3
    <3>2. b - s + 1 = k /\ k \in 1 .. n0
      BY <2>1, <3>1
    <3>3. blocks'[b] = Writes(p)[k]
      BY <1>13, <3>2
    <3> QED BY <1>2, <1>3, <1>6, <2>1, <3>1, <3>3
  <2>4. \A k \in 1 .. p.size : blocks'[p.start + k - 1] = Holds(p, k)
    BY <1>6, <2>3
  <2> QED BY <2>2, <2>4 DEF Complete
<1> QED BY <1>6, <1>9, <1>14, <1>15, <1>16, <1>17

LEMMA PackStarts == Init => PackInv
<1> SUFFICES ASSUME Init PROVE PackInv
  OBVIOUS
<1>1. Zero \in Contents
  BY DEF Zero, Content, Contents
<1>2. LastBlock \in Nat /\ <<>> \in Seq(Parts) /\ <<>> \in Seq(Contents)
  BY PackAssumption, EmptySeq
<1>3. blocks = Blank /\ length = 0 /\ label = <<>> /\ todo = <<>> /\ pc = "idle"
      /\ template \in Templates /\ made = {} /\ command = Command("none", "")
      /\ extracted = [name \in Exports |-> <<>>]
  BY DEF Init
<1>4. PackTypes
  <2>1. blocks \in [Numbers -> Contents]
    BY <1>1, <1>3 DEF Blank
  <2>2. extracted \in [Exports -> Seq(Contents)]
    BY <1>2, <1>3
  <2>3. PICK B \in Nat : B = LastBlock
    BY <1>2
  <2>4. length = 0
    BY <1>3
  <2>5. length \in 0 .. LastBlock + 1
    BY <2>3, <2>4
  <2> QED BY <1>2, <1>3, <2>1, <2>2, <2>5, Zenon DEF PackTypes
<1>5. BehindIsZero
  BY <1>3 DEF BehindIsZero, Blank
<1>6. LabelRight /\ TodoRight /\ MadeRight
  BY <1>3 DEF LabelRight, TodoRight, MadeRight, Creating
<1>7. command.op = "none"
  BY <1>3 DEF Command
<1> QED BY <1>4, <1>5, <1>6, <1>7 DEF PackInv, ModifiedRight, OthersKept, ExtractReturnsFile

\* A command starts: the image is as it was, but for the length of a new one.
LEMMA CreateKeepsPack ==
  ASSUME PackInv, NEW t \in Templates, Create(t)
  PROVE  PackInv'
<1>1. /\ length = 0 /\ length' = 1 /\ made' = {} /\ pc' = "label"
      /\ label' = label /\ blocks' = blocks /\ extracted' = extracted
      /\ template' = t /\ todo' = t.parts /\ command' = Command("create", "")
  BY DEF Create, Begin
<1>2. command'.op = "create"
  BY <1>1 DEF Command
<1>3. t.parts \in Seq(Parts)
  BY PartFacts
<1>len. PICK B \in Nat : B = LastBlock
  BY PackAssumption
<1>new. length = 0 /\ length' = 1 /\ blocks' = blocks
  BY <1>1
<1>4. PackTypes'
  <2>1. length' \in 0 .. LastBlock + 1
    BY <1>len, <1>new
  <2> QED BY <1>1, <1>3, <2>1, Zenon DEF PackInv, PackTypes
<1>5. BehindIsZero'
  <2>1. \A b \in 1 .. B : b >= 0 => blocks[b] = Zero
    BY <1>len, <1>new DEF PackInv, BehindIsZero, Numbers
  <2> QED BY <1>len, <1>new, <2>1 DEF BehindIsZero, Numbers
<1>6. LabelRight'
  <2>1. label' = <<>>
    BY <1>1 DEF PackInv, LabelRight
  <2>2. length' = 1
    BY <1>1
  <2> QED BY <2>1, <2>2 DEF LabelRight
<1>7. TodoRight'
  BY <1>1, <1>2 DEF TodoRight
<1>8. MadeRight'
  <2>1. PICK L \in Nat : L = Len(t.parts)
    BY <1>3, LenProperties
  <2>2. template' = t /\ todo' = t.parts
    BY <1>1
  <2>3. Made' = L - L
    BY <2>1, <2>2 DEF Made
  <2>4. Made' = 0
    BY <2>3
  <2>5. \A i \in 1 .. L : t.parts[i] = t.parts[0 + i]
    OBVIOUS
  <2>6. \A i \in 1 .. Len(todo') : todo'[i] = template'.parts[Made' + i]
    BY <2>1, <2>2, <2>4, <2>5
  <2>7. made' = {} /\ Creating'
    BY <1>1, <1>2 DEF Creating
  <2>8. label' = <<>>
    BY <1>1 DEF PackInv, LabelRight
  <2> QED BY <2>4, <2>6, <2>7, <2>8 DEF MadeRight
<1> QED BY <1>2, <1>4, <1>5, <1>6, <1>7, <1>8
        DEF PackInv, ModifiedRight, OthersKept, ExtractReturnsFile

LEMMA ModifyKeepsPack ==
  ASSUME PackInv, NEW t \in Templates, NEW name, Modify(t, name)
  PROVE  PackInv'
<1>1. /\ name \in Names(t.parts) /\ made' = {} /\ length > 0 /\ pc' = "label"
      /\ label' = label /\ blocks' = blocks /\ extracted' = extracted /\ length' = length
      /\ template' = t /\ todo' = <<Named(t.parts, name)>> /\ before' = blocks
      /\ command' = Command("modify", name)
  BY DEF Modify, Begin, pack
<1>2. command'.op = "modify" /\ command'.name = name
  BY <1>1 DEF Command
<1>3. todo' \in Seq(Parts)
  <2>1. t.parts \in Seq(Parts) /\ \A i \in 1 .. Len(t.parts) : t.parts[i] \in Parts
    BY PartFacts
  <2>2. Place(t.parts, name) \in 1 .. Len(t.parts)
    BY <1>1, <2>1, FirstPlace
  <2>3. Named(t.parts, name) \in Parts
    BY <2>1, <2>2 DEF Named
  <2> QED BY <1>1, <2>3
<1>4. PackTypes'
  BY <1>1, <1>3, Zenon DEF PackInv, PackTypes
<1>5. BehindIsZero'
  BY <1>1 DEF PackInv, BehindIsZero
<1>6. LabelRight'
  <2>1. length' # 0
    BY <1>1
  <2>2. label # <<>> => \E t1 \in Templates : label = LabelOf(t1)
    BY DEF PackInv, LabelRight
  <2> QED BY <1>1, <2>1, <2>2 DEF LabelRight, LabelOf
<1>7. TodoRight'
  BY <1>1, <1>2 DEF TodoRight
<1>8. MadeRight' /\ ModifiedRight'
  BY <1>1, <1>2 DEF MadeRight, Creating, ModifiedRight
<1>9. OthersKept'
  BY <1>1 DEF OthersKept
<1> QED BY <1>2, <1>4, <1>5, <1>6, <1>7, <1>8, <1>9 DEF PackInv, ExtractReturnsFile

LEMMA ModifyLabelKeepsPack ==
  ASSUME PackInv, NEW t \in Templates, ModifyLabel(t)
  PROVE  PackInv'
<1>1. /\ made' = {} /\ length > 0 /\ pc' = "label"
      /\ label' = label /\ blocks' = blocks /\ extracted' = extracted /\ length' = length
      /\ template' = t /\ todo' = <<>> /\ command' = Command("label", "")
  BY DEF ModifyLabel, Begin, pack
<1>2. command'.op = "label"
  BY <1>1 DEF Command
<1>3. todo' \in Seq(Parts)
  BY <1>1, EmptySeq
<1>4. PackTypes'
  BY <1>1, <1>3, Zenon DEF PackInv, PackTypes
<1>5. BehindIsZero'
  BY <1>1 DEF PackInv, BehindIsZero
<1>6. LabelRight'
  <2>1. length' # 0
    <3>1. length > 0 /\ length' = length
      BY <1>1
    <3> QED BY <3>1
  <2>2. label # <<>> => \E t1 \in Templates : label = LabelOf(t1)
    BY DEF PackInv, LabelRight
  <2> QED BY <1>1, <2>1, <2>2 DEF LabelRight, LabelOf
<1>7. TodoRight' /\ MadeRight'
  BY <1>1, <1>2 DEF TodoRight, MadeRight, Creating
<1> QED BY <1>2, <1>4, <1>5, <1>6, <1>7
        DEF PackInv, ModifiedRight, OthersKept, ExtractReturnsFile

\* The label is written, or its write fails and the pack is not as it should be.
LEMMA MakeLabelKeepsPack ==
  ASSUME PackInv, MakeLabel
  PROVE  PackInv'
<1>1. /\ pc = "label" /\ pc' = IF todo = <<>> THEN "idle" ELSE "make"
      /\ blocks' = blocks /\ extracted' = extracted /\ length' = length
      /\ template' = template /\ todo' = todo /\ command' = command /\ before' = before
      /\ made' = made
  BY DEF MakeLabel
<1>2. \/ label' = <<[parts |-> Layout(template.parts), mcr |-> template.mcr,
                     lod |-> template.lod]>>
      \/ label' = label
  BY DEF MakeLabel
<1>3. template \in Templates /\ command.op \in {"create", "modify", "label"}
  BY <1>1 DEF PackInv, PackTypes, TodoRight
<1>4. PackTypes'
  BY <1>1, <1>2, Zenon DEF PackInv, PackTypes
<1>5. BehindIsZero'
  BY <1>1 DEF PackInv, BehindIsZero
<1>6. \/ label' = label
      \/ label' # <<>> /\ label' = LabelOf(template)'
  <2>1. CASE label' = label
    BY <2>1
  <2>2. CASE label' = <<[parts |-> Layout(template.parts), mcr |-> template.mcr,
                         lod |-> template.lod]>>
    <3>1. PICK l : l = [parts |-> Layout(template.parts), mcr |-> template.mcr,
                        lod |-> template.lod]
      OBVIOUS
    <3>2. label' = <<l>> /\ label'[1] = l /\ label' # <<>>
      BY <2>2, <3>1
    <3>3. l.mcr = template.mcr /\ l.lod = template.lod
      BY <3>1
    <3>4. label' = LabelOf(template)'
      BY <1>1, <3>1, <3>2, <3>3 DEF LabelOf
    <3> QED BY <2>2, <3>2, <3>4
  <2> QED BY <1>2, <2>1, <2>2
<1>7. LabelRight'
  <2>0. length' # 0
    BY <1>1 DEF PackInv, LabelRight
  <2>1. CASE label' = label
    BY <2>0, <2>1 DEF PackInv, LabelRight, LabelOf
  <2>2. CASE label' # <<>> /\ label' = LabelOf(template)'
    BY <1>1, <1>3, <2>0, <2>2 DEF LabelRight, LabelOf
  <2> QED BY <1>6, <2>1, <2>2
<1>8. TodoRight'
  BY <1>1, <1>3 DEF TodoRight
<1>9. MadeRight'
  <2>1. Made' = Made /\ (Creating' => Creating)
    BY <1>1 DEF Made, Creating
  <2>2. \A p : Complete(p)' = Complete(p)
    BY <1>1 DEF Complete
  <2>3. made # {} \/ Creating => label = <<>> \/ label = LabelOf(template)
    BY DEF PackInv, MadeRight
  <2>4. made # {} \/ Creating => label' = <<>> \/ label' = LabelOf(template)'
    BY <1>1, <1>6, <2>3 DEF LabelOf
  <2>5. made' # {} \/ Creating' => label' = <<>> \/ label' = LabelOf(template)'
    BY <1>1, <2>1, <2>4
  <2>6. pc' # "idle" /\ ~Creating' => made' = {}
    BY <1>1 DEF PackInv, MadeRight, Creating
  <2> QED BY <1>1, <2>1, <2>2, <2>5, <2>6 DEF PackInv, MadeRight
<1>10. ModifiedRight'
  BY <1>1, <1>2 DEF PackInv, ModifiedRight
<1>11. Disjoint(template'.parts) => OthersKept'
  BY <1>1 DEF PackInv, OthersKept
<1> QED BY <1>1, <1>3, <1>4, <1>5, <1>7, <1>8, <1>9, <1>10, <1>11
        DEF PackInv, ExtractReturnsFile

\* Two partitions of a template lie apart.
\* (Named, so that the provers do not take it apart.)
LiesBefore(p, q) == p.start + p.size <= q.start

LEMMA PartsLieApart ==
  ASSUME NEW t \in Templates, Disjoint(t.parts),
         NEW i \in 1 .. Len(t.parts), NEW j \in 1 .. Len(t.parts), i < j
  PROVE  LiesBefore(t.parts[i], t.parts[j])
BY PartFacts DEF Disjoint, LiesBefore

LEMMA PlaceOfPart ==
  ASSUME NEW t \in Templates, NEW q \in ToSet(t.parts)
  PROVE  \E i \in 1 .. Len(t.parts) : q = t.parts[i]
BY PartFacts DEF ToSet

LEMMA NamedFacts ==
  ASSUME NEW t \in Templates, NEW name \in Names(t.parts)
  PROVE  \E i \in 1 .. Len(t.parts) :
           Named(t.parts, name) = t.parts[i] /\ t.parts[i].name = name
BY PartFacts, FirstPlace DEF Named

\* Whatever of a modified partition is written, the others do not notice.
LEMMA WriteKeepsOthers ==
  ASSUME PackInv, command.op = "modify", pc = "make", Disjoint(template.parts),
         NEW w \in Progress(Head(todo)), Put(Head(todo), w),
         template' = template, command' = command, before' = before
  PROVE  OthersKept'
<1>1. /\ template \in Templates
      /\ blocks \in [Numbers -> Contents] /\ length \in 0 .. LastBlock + 1 /\ BehindIsZero
  BY Zenon DEF PackInv, PackTypes
<1>2. /\ command.name \in Names(template.parts)
      /\ todo = <<Named(template.parts, command.name)>> /\ blocks = before
  BY DEF PackInv, ModifiedRight
<1>3. PICK p : p = Named(template.parts, command.name)
  OBVIOUS
<1>4. Head(todo) = p
  BY <1>2, <1>3
<1>5. PICK i \in 1 .. Len(template.parts) : p = template.parts[i]
  BY <1>1, <1>2, <1>3, NamedFacts
<1>6. \A j \in 1 .. Len(template.parts) : template.parts[j] \in Parts
  BY <1>1, PartFacts
<1>7. p \in Parts
  BY <1>5, <1>6
<1>8. \A b \in Numbers : b < p.start \/ b >= p.start + Len(Writes(p)) => blocks'[b] = blocks[b]
  BY <1>1, <1>4, <1>7, PutFacts
<1>9. SUFFICES ASSUME p = Last(template.parts) \/ Fits(p),
                      NEW q \in ToSet(template.parts) \ {p}, NEW b \in Extent(q)
               PROVE  blocks'[b] = before[b]
  BY <1>3 DEF OthersKept
<1>10. PICK j \in 1 .. Len(template.parts) : q = template.parts[j]
  BY <1>1, PlaceOfPart
<1>11. q \in Parts /\ i # j
  BY <1>5, <1>6, <1>10
<1>a. PICK s \in Nat \ {0} : s = p.start
  BY <1>7, ExtentFacts
<1>b. PICK z \in Nat \ {0} : z = p.size
  BY <1>7, ExtentFacts
<1>c. PICK B \in Nat : B = LastBlock
  BY <1>7, ExtentFacts
<1>d. PICK qs \in Nat \ {0} : qs = q.start
  BY <1>11, ExtentFacts
<1>e. PICK qz \in Nat \ {0} : qz = q.size
  BY <1>11, ExtentFacts
<1>f. PICK L \in Nat : L = Len(Writes(p))
  BY <1>7, WritesFacts
<1>12. /\ s = p.start /\ z = p.size /\ B = LastBlock
       /\ qs = q.start /\ qz = q.size /\ L = Len(Writes(p))
       /\ qs + qz <= B + 1
  BY <1>11, <1>a, <1>b, <1>c, <1>d, <1>e, <1>f, ExtentFacts
<1>g. b \in qs .. qs + qz - 1
  BY <1>12 DEF Extent
<1>13. b \in Nat /\ qs <= b /\ b < qs + qz
  BY <1>g
<1>h. b < s \/ b >= s + L => blocks'[b] = before[b]
  <2>0. qs + qz <= B + 1 /\ B = LastBlock
    BY <1>12
  <2>1. b \in Numbers
    BY <1>13, <2>0 DEF Numbers
  <2>2. b < p.start \/ b >= p.start + Len(Writes(p)) => blocks'[b] = blocks[b]
    BY <1>8, <2>1
  <2>3. p.start + Len(Writes(p)) = s + L
    BY <1>12
  <2> QED BY <1>2, <1>12, <2>2, <2>3
<1>14. CASE i < j
  <2>1. PICK N \in Nat : N = Len(template.parts) /\ j \in 1 .. N
    BY <1>1, PartFacts, LenProperties
  <2>t. template \in Templates /\ Disjoint(template.parts)
    BY <1>1
  <2>b. LiesBefore(p, q)
    BY <1>5, <1>10, <1>14, <2>t, PartsLieApart
  <2>2. s + z <= qs
    BY <1>12, <2>b DEF LiesBefore
  <2>3. p # Last(template.parts) \/ p = template.parts[N]
    BY <2>1 DEF Last
  <2>4. Fits(p) \/ p = template.parts[N]
    BY <1>9, <2>3
  <2>5. CASE Fits(p)
    <3>1. L <= z
      BY <1>7, <1>12, <2>5, WritesFacts
    <3> QED BY <1>13, <1>h, <2>2, <3>1
  <2>6. CASE p = template.parts[N]
    <3>1. CASE j = N
      BY <1>9, <1>10, <2>6, <3>1
    <3>2. CASE j < N
      <4>1. N \in 1 .. Len(template.parts) /\ j < N
        BY <2>1, <3>2
      <4>2. template \in Templates /\ Disjoint(template.parts)
        BY <1>1
      <4>3. LiesBefore(q, p)
        BY <1>10, <2>6, <4>1, <4>2, PartsLieApart
      <4>4. qs + qz <= s
        BY <1>12, <4>3 DEF LiesBefore
      <4> QED BY <2>2, <4>4
    <3> QED BY <2>1, <3>1, <3>2
  <2> QED BY <2>4, <2>5, <2>6
<1>15. CASE j < i
  <2>0. template \in Templates /\ Disjoint(template.parts)
    BY <1>1
  <2>1. LiesBefore(q, p)
    BY <1>5, <1>10, <1>15, <2>0, PartsLieApart
  <2>2. qs + qz <= s
    BY <1>12, <2>1 DEF LiesBefore
  <2> QED BY <1>13, <1>h, <2>2
<1> QED BY <1>11, <1>14, <1>15

\* The partition that is made next.
LEMMA HeadFacts ==
  ASSUME PackInv, pc = "make"
  PROVE  /\ Head(todo) \in Parts /\ Tail(todo) \in Seq(Parts)
         /\ Len(todo) \in Nat \ {0} /\ Len(Tail(todo)) = Len(todo) - 1
         /\ todo[1] = Head(todo)
         /\ \A k \in 1 .. Len(todo) - 1 : Tail(todo)[k] = todo[k + 1]
<1>1. todo \in Seq(Parts) /\ todo # <<>>
  BY Zenon DEF PackInv, PackTypes, TodoRight
<1> QED BY <1>1, HeadTailProperties

\* A write of a new pack leaves the partitions before it alone, and adds one
\* if nothing of it fails.
LEMMA WriteAddsPartition ==
  ASSUME PackInv, Creating, pc = "make", Disjoint(template.parts),
         NEW w \in Progress(Head(todo)), Put(Head(todo), w), template' = template
  PROVE  /\ \A i \in made :
              template.parts[i].file \in Files => Complete(template.parts[i])'
         /\ w.n = Len(Writes(Head(todo))) =>
              \A i \in {Made + 1} :
                template.parts[i].file \in Files => Complete(template.parts[i])'
<1>1. /\ template \in Templates
      /\ blocks \in [Numbers -> Contents] /\ length \in 0 .. LastBlock + 1 /\ BehindIsZero
  BY Zenon DEF PackInv, PackTypes
<1>2. PICK p \in Parts, T \in Nat \ {0} : p = Head(todo) /\ T = Len(todo) /\ todo[1] = p
  BY HeadFacts
<1>3. PICK N \in Nat : N = Len(template.parts)
  BY <1>1, PartFacts, LenProperties
<1>4. PICK M \in Nat : M = Made /\ M = N - T
  BY <1>2, <1>3 DEF PackInv, MadeRight, Made
<1>5. template.parts[M + 1] = p
  BY <1>2, <1>4 DEF PackInv, MadeRight
<1>6. /\ \A b \in Numbers : b < p.start \/ b >= p.start + Len(Writes(p)) => blocks'[b] = blocks[b]
      /\ w.n = Len(Writes(p)) /\ p.file \in Files => Complete(p)'
      /\ length <= length' /\ length' \in 0 .. LastBlock + 1
  BY <1>1, <1>2, PutFacts
<1>new. ASSUME w.n = Len(Writes(Head(todo))), NEW i \in {M + 1}, template.parts[i].file \in Files
        PROVE  Complete(template.parts[i])'
  <2>1. template.parts[i] = p /\ template'.parts[i] = p
    BY <1>5, <1>new
  <2>2. Complete(p)'
    BY <1>2, <1>6, <1>new, <2>1
  <2> QED BY <2>1, <2>2 DEF Complete
<1>7. SUFFICES ASSUME NEW i \in made, template.parts[i].file \in Files
               PROVE  Complete(template.parts[i])'
  BY <1>4, <1>new
<1>place. i \in 1 .. M
  BY <1>4, <1>7 DEF PackInv, MadeRight
<1>8. Complete(template.parts[i])
  BY <1>4, <1>7 DEF PackInv, MadeRight
<1>9. PICK q \in Parts : q = template.parts[i]
  BY <1>1, <1>3, <1>4, <1>place, PartFacts
<1>a. PICK s \in Nat \ {0} : s = p.start
  BY ExtentFacts
<1>b. PICK B \in Nat : B = LastBlock
  BY ExtentFacts
<1>c. PICK qs \in Nat \ {0} : qs = q.start
  BY ExtentFacts
<1>d. PICK qz \in Nat \ {0} : qz = q.size
  BY ExtentFacts
<1>10. s = p.start /\ B = LastBlock /\ qs = q.start /\ qz = q.size /\ qs + qz <= B + 1
  BY <1>a, <1>b, <1>c, <1>d, ExtentFacts
<1>11. qs + qz <= s
  <2>1. i < M + 1 /\ M + 1 \in 1 .. Len(template.parts) /\ i \in 1 .. Len(template.parts)
    BY <1>3, <1>4, <1>place
  <2>2. PICK h : h = M + 1
    OBVIOUS
  <2>3. LiesBefore(template.parts[i], template.parts[h])
    BY <1>1, <2>1, <2>2, PartsLieApart
  <2>4. LiesBefore(q, p)
    BY <1>5, <1>9, <2>2, <2>3
  <2> QED BY <1>10, <2>4 DEF LiesBefore
<1>e. qs + qz <= length
  BY <1>8, <1>9, <1>10 DEF Complete
<1>f. PICK len \in 0 .. B + 1 : len = length
  BY <1>1, <1>10
<1>g. PICK new \in 0 .. B + 1 : new = length'
  BY <1>6, <1>10
<1>12. len = length /\ new = length' /\ len <= new /\ qs + qz <= len
  BY <1>6, <1>e, <1>f, <1>g
<1>13. ASSUME NEW k \in 1 .. qz PROVE blocks'[qs + k - 1] = Holds(q, k)
  <2>a. PICK b \in Int : b = qs + k - 1
    OBVIOUS
  <2>b. qs + k <= qs + qz /\ qs + qz <= B + 1
    BY <1>10
  <2>1. b \in 1 .. B /\ b = qs + k - 1 /\ b < s
    BY <1>11, <2>a, <2>b
  <2>2. blocks'[b] = blocks[b]
    BY <1>6, <1>10, <2>1 DEF Numbers
  <2> QED BY <1>8, <1>9, <1>10, <2>1, <2>2 DEF Complete
<1>14. q.start + q.size <= length'
  BY <1>10, <1>12
<1>15. \A k \in 1 .. q.size : blocks'[q.start + k - 1] = Holds(q, k)
  BY <1>10, <1>13
<1>16. template'.parts[i] = q
  BY <1>9
<1> QED BY <1>14, <1>15, <1>16 DEF Complete

LEMMA MakePartitionKeepsPack ==
  ASSUME PackInv, MakePartition
  PROVE  PackInv'
<1>1. /\ pc = "make" /\ todo' = Tail(todo) /\ label' = label /\ extracted' = extracted
      /\ pc' = IF Len(todo) = 1 THEN "idle" ELSE "make"
      /\ template' = template /\ command' = command /\ before' = before
  BY DEF MakePartition
<1>2. PICK w \in Progress(Head(todo)) :
        /\ Put(Head(todo), w)
        /\ made' = IF command.op = "create" /\ w.n = Len(Writes(Head(todo)))
                  THEN made \cup {Len(template.parts) - Len(todo) + 1} ELSE made
  BY DEF MakePartition
<1>3. /\ template \in Templates
      /\ blocks \in [Numbers -> Contents] /\ length \in 0 .. LastBlock + 1 /\ BehindIsZero
  BY Zenon DEF PackInv, PackTypes
<1>4. PICK p \in Parts, T \in Nat \ {0} :
        /\ p = Head(todo) /\ T = Len(todo) /\ todo[1] = p
        /\ todo' \in Seq(Parts) /\ Len(todo') = T - 1
        /\ \A k \in 1 .. T - 1 : todo'[k] = todo[k + 1]
  BY <1>1, HeadFacts
<1>5. /\ blocks' \in [Numbers -> Contents] /\ length' \in 0 .. LastBlock + 1 /\ BehindIsZero'
  BY <1>2, <1>3, <1>4, PutFacts
<1>6. \/ made' = made
      \/ Creating /\ w.n = Len(Writes(Head(todo))) /\ made' = made \cup {Made + 1}
  BY <1>1, <1>2 DEF Creating, Made
<1>7. PackTypes'
  <2>1. pc' \in {"idle", "make"}
    BY <1>1
  <2> QED BY <1>1, <1>3, <1>4, <1>5, <2>1, Zenon DEF PackInv, PackTypes
<1>8. LabelRight'
  <2>1. length # 0 /\ length <= length'
    BY <1>1, <1>2, <1>3, <1>4, PutFacts DEF PackInv, LabelRight
  <2>2. length' # 0
    BY <1>3, <1>5, <2>1, PackAssumption
  <2> QED BY <1>1, <2>2 DEF PackInv, LabelRight, LabelOf
<1>9. TodoRight'
  <2>1. pc' = "idle" => todo' = <<>>
    BY <1>1, <1>4, EmptySeq
  <2>2. todo' = <<>> => Len(todo') = 0
    BY EmptySeq
  <2>3. ASSUME todo' = <<>> PROVE T = 1
    <3>1. T \in Nat /\ T - 1 = 0
      BY <1>4, <2>2, <2>3
    <3> QED BY <3>1
  <2>4. pc' = "make" => todo' # <<>>
    BY <1>1, <1>4, <2>3
  <2> QED BY <1>1, <2>1, <2>4 DEF PackInv, TodoRight
<1>10. MadeRight'
  <2>1. CASE ~Creating
    <3>1. made' = {} /\ ~Creating'
      BY <1>1, <1>6, <2>1 DEF PackInv, MadeRight, Creating
    <3> QED BY <3>1 DEF MadeRight
  <2>2. CASE Creating
    <3>1. PICK N \in Nat : N = Len(template.parts)
      BY <1>3, PartFacts, LenProperties
    <3>2. PICK M \in Nat : M = Made /\ M = N - T
      BY <1>4, <2>2, <3>1 DEF PackInv, MadeRight, Made
    <3>3. Made' = M + 1
      <4>1. Made' = N - (T - 1)
        BY <1>1, <1>4, <3>1 DEF Made
      <4> QED BY <3>2, <4>1
    <3>4. \A k \in 1 .. T : todo[k] = template.parts[M + k]
      BY <1>4, <2>2, <3>2 DEF PackInv, MadeRight
    <3>5. ASSUME NEW k \in 1 .. T - 1 PROVE todo'[k] = template.parts[M + 1 + k]
      <4>1. PICK j \in 1 .. T : j = k + 1
        OBVIOUS
      <4>2. M + j = M + 1 + k
        BY <4>1
      <4> QED BY <1>4, <3>4, <4>1, <4>2
    <3>6. \A k \in 1 .. Len(todo') : todo'[k] = template'.parts[Made' + k]
      BY <1>1, <1>4, <3>3, <3>5
    <3>7. label' = <<>> \/ label' = LabelOf(template)'
      BY <1>1, <2>2 DEF PackInv, MadeRight, LabelOf
    <3>8. made \subseteq 1 .. N /\ \A i \in made : i <= M
      BY <2>2, <3>1, <3>2 DEF PackInv, MadeRight
    <3>9. made' \subseteq 1 .. N /\ \A i \in made' : i <= M + 1
      <4>1. M + 1 \in 1 .. N
        BY <3>2
      <4>2. \A i \in made : i <= M + 1
        BY <3>8, <3>1
      <4>3. made' = made \/ made' = made \cup {M + 1}
        BY <1>6, <3>2
      <4>4. CASE made' = made
        BY <3>8, <4>2, <4>4
      <4>5. CASE made' = made \cup {M + 1}
        <5>1. ASSUME NEW i \in made' PROVE i \in 1 .. N /\ i <= M + 1
          <6>1. i \in made \/ i = M + 1
            BY <4>5
          <6>2. ASSUME i \in made PROVE i \in 1 .. N /\ i <= M + 1
            BY <3>8, <4>2, <6>2
          <6> QED BY <4>1, <6>1, <6>2
        <5> QED BY <5>1
      <4> QED BY <4>3, <4>4, <4>5
    <3>10. ASSUME Disjoint(template.parts), NEW i \in made', template.parts[i].file \in Files
           PROVE  Complete(template.parts[i])'
      <4>1. /\ \A j \in made :
                 template.parts[j].file \in Files => Complete(template.parts[j])'
            /\ w.n = Len(Writes(Head(todo))) =>
                 \A j \in {Made + 1} :
                   template.parts[j].file \in Files => Complete(template.parts[j])'
        BY <1>1, <1>2, <2>2, <3>10, WriteAddsPartition
      <4>2. i \in made \/ (w.n = Len(Writes(Head(todo))) /\ i \in {Made + 1})
        BY <1>6
      <4> QED BY <3>10, <4>1, <4>2
    <3>11. Disjoint(template'.parts) =>
             \A i \in made' :
               template'.parts[i].file \in Files => Complete(template.parts[i])'
      BY <1>1, <3>10
    <3>12. pc' # "idle" => Creating'
      BY <1>1, <2>2 DEF Creating
    <3>13. Made' \in Nat /\ template' = template
      BY <1>1, <3>3
    <3> QED BY <3>1, <3>3, <3>6, <3>7, <3>9, <3>11, <3>12, <3>13 DEF MadeRight
  <2> QED BY <2>1, <2>2
<1>11. ModifiedRight'
  <2>1. command.op = "modify" => Len(todo) = 1
    BY <1>1 DEF PackInv, ModifiedRight
  <2> QED BY <1>1, <2>1 DEF PackInv, ModifiedRight
<1>12. Disjoint(template'.parts) => OthersKept'
  <2>1. command.op = "modify" /\ Disjoint(template.parts) => OthersKept'
    BY <1>1, <1>2, WriteKeepsOthers
  <2> QED BY <1>1, <2>1 DEF OthersKept
<1>13. ExtractReturnsFile'
  BY <1>1 DEF PackInv, TodoRight, ExtractReturnsFile
<1> QED BY <1>5, <1>7, <1>8, <1>9, <1>10, <1>11, <1>12, <1>13 DEF PackInv

LEMMA KillKeepsPack ==
  ASSUME PackInv, Kill
  PROVE  PackInv'
<1>1. /\ pc \in {"label", "make"} /\ pc' = "idle" /\ todo' = <<>> /\ made' = made
      /\ label' = label /\ extracted' = extracted
      /\ template' = template /\ command' = command /\ before' = before
  BY DEF Kill, pack
<1>2. \/ pc = "label" /\ blocks' = blocks /\ length' = length
      \/ pc = "make" /\ \E w \in Progress(Head(todo)) : Put(Head(todo), w)
  BY DEF Kill, pack
<1>3. /\ blocks \in [Numbers -> Contents] /\ length \in 0 .. LastBlock + 1 /\ BehindIsZero
  BY Zenon DEF PackInv, PackTypes
<1>4. /\ blocks' \in [Numbers -> Contents] /\ length' \in 0 .. LastBlock + 1 /\ BehindIsZero'
  <2>1. CASE pc = "label" /\ blocks' = blocks /\ length' = length
    BY <1>3, <2>1 DEF BehindIsZero
  <2>2. CASE pc = "make" /\ \E w \in Progress(Head(todo)) : Put(Head(todo), w)
    <3>1. PICK w \in Progress(Head(todo)) : Put(Head(todo), w)
      BY <2>2
    <3>2. Head(todo) \in Parts
      BY <2>2, HeadFacts
    <3> QED BY <1>3, <3>1, <3>2, PutFacts
  <2> QED BY <1>2, <2>1, <2>2
<1>more. length' = 0 => length = 0
  <2>1. CASE pc = "make" /\ \E w \in Progress(Head(todo)) : Put(Head(todo), w)
    <3>1. PICK w \in Progress(Head(todo)) : Put(Head(todo), w)
      BY <2>1
    <3>2. length <= length'
      BY <1>3, <2>1, <3>1, HeadFacts, PutFacts
    <3> QED BY <1>3, <1>4, <3>2, PackAssumption
  <2> QED BY <1>2, <2>1
<1>5. PackTypes'
  <2>1. todo' \in Seq(Parts)
    BY <1>1, EmptySeq
  <2> QED BY <1>1, <1>4, <2>1, Zenon DEF PackInv, PackTypes
<1>6. LabelRight'
  BY <1>1, <1>3, <1>4, <1>more DEF PackInv, LabelRight, LabelOf
<1>7. TodoRight' /\ MadeRight'
  <2>1. ASSUME Disjoint(template.parts), NEW i \in made, template.parts[i].file \in Files
        PROVE  Complete(template.parts[i])'
    <3>1. Creating
      BY <1>1, <2>1 DEF PackInv, MadeRight
    <3>2. CASE pc = "label" /\ blocks' = blocks /\ length' = length
      BY <1>1, <2>1, <3>2 DEF PackInv, MadeRight, Complete
    <3>3. CASE pc = "make" /\ \E w \in Progress(Head(todo)) : Put(Head(todo), w)
      <4>1. PICK w \in Progress(Head(todo)) : Put(Head(todo), w)
        BY <3>3
      <4>2. \A j \in made :
              template.parts[j].file \in Files => Complete(template.parts[j])'
        BY <1>1, <2>1, <3>1, <3>3, <4>1, WriteAddsPartition
      <4> QED BY <2>1, <4>2
    <3> QED BY <1>2, <3>2, <3>3
  <2>2. Disjoint(template'.parts) =>
          \A i \in made' :
            template'.parts[i].file \in Files => Complete(template.parts[i])'
    BY <1>1, <2>1
  <2>3. made' # {} => label' = <<>> \/ label' = LabelOf(template)'
    BY <1>1 DEF PackInv, MadeRight, LabelOf
  <2>4. TodoRight' /\ ~Creating'
    BY <1>1 DEF TodoRight, Creating
  <2> QED BY <1>1, <2>2, <2>3, <2>4 DEF PackInv, MadeRight
<1>8. ModifiedRight'
  BY <1>1 DEF PackInv, ModifiedRight
<1>9. Disjoint(template'.parts) => OthersKept'
  <2>1. CASE pc = "label" /\ blocks' = blocks /\ length' = length
    BY <1>1, <2>1 DEF PackInv, OthersKept
  <2>2. CASE pc = "make" /\ \E w \in Progress(Head(todo)) : Put(Head(todo), w)
    <3>1. command.op = "modify" /\ Disjoint(template.parts) => OthersKept'
      BY <1>1, <2>2, WriteKeepsOthers
    <3> QED BY <1>1, <3>1 DEF OthersKept
  <2> QED BY <1>2, <2>1, <2>2
<1>10. ExtractReturnsFile'
  BY <1>1 DEF PackInv, TodoRight, ExtractReturnsFile
<1> QED BY <1>4, <1>5, <1>6, <1>7, <1>8, <1>9, <1>10 DEF PackInv

LEMMA MarkKeepsPack ==
  ASSUME PackInv, NEW field \in {"mcr", "lod"}, NEW name, Mark(field, name)
  PROVE  PackInv'
<1>1. /\ pc = "idle" /\ label # <<>> /\ label' = <<[label[1] EXCEPT ![field] = name]>>
      /\ pc' = pc /\ template' = template /\ todo' = todo /\ blocks' = blocks
      /\ length' = length /\ extracted' = extracted /\ made' = made
      /\ command' = Command("mark", name)
  BY DEF Mark
<1>2. command'.op = "mark"
  BY <1>1 DEF Command
<1>3. PackTypes'
  BY <1>1, Zenon DEF PackInv, PackTypes
<1>4. BehindIsZero'
  BY <1>1 DEF PackInv, BehindIsZero
<1>5. ASSUME NEW t, label = LabelOf(t)
      PROVE  label' # <<>> /\ label' = LabelOf(t)'
  <2>1. PICK l : l = label[1]
    OBVIOUS
  <2>2. l = [parts |-> Layout(t.parts), mcr |-> l.mcr, lod |-> l.lod]
    BY <1>5, <2>1 DEF LabelOf
  <2>3. PICK k : k = [l EXCEPT ![field] = name]
    OBVIOUS
  <2>4. PICK lay, mcr, lod : lay = Layout(t.parts) /\ mcr = l.mcr /\ lod = l.lod
    OBVIOUS
  <2>5. l = [parts |-> lay, mcr |-> mcr, lod |-> lod]
    BY <2>2, <2>4
  <2>6. \/ k = [parts |-> lay, mcr |-> name, lod |-> lod]
        \/ k = [parts |-> lay, mcr |-> mcr, lod |-> name]
    <3>1. CASE field = "mcr"
      <4>1. k = [l EXCEPT !["mcr"] = name]
        BY <2>3, <3>1
      <4> QED BY <2>5, <4>1
    <3>2. CASE field = "lod"
      <4>1. k = [l EXCEPT !["lod"] = name]
        BY <2>3, <3>2
      <4> QED BY <2>5, <4>1
    <3> QED BY <3>1, <3>2
  <2>7. k = [parts |-> Layout(t.parts), mcr |-> k.mcr, lod |-> k.lod]
    BY <2>4, <2>6
  <2>8. label' = <<k>> /\ label'[1] = k /\ label' # <<>>
    BY <1>1, <2>1, <2>3
  <2> QED BY <2>7, <2>8 DEF LabelOf
<1>6. LabelRight'
  <2>1. PICK t \in Templates : label = LabelOf(t)
    BY <1>1 DEF PackInv, LabelRight
  <2>2. length' # 0
    BY <1>1 DEF PackInv, LabelRight
  <2> QED BY <1>5, <2>1, <2>2 DEF LabelRight
<1>7. TodoRight'
  BY <1>1, <1>2 DEF PackInv, TodoRight
<1>8. MadeRight'
  <2>1. ASSUME made # {} PROVE label' = LabelOf(template)'
    <3>1. label = LabelOf(template)
      BY <1>1, <2>1 DEF PackInv, MadeRight
    <3>2. PICK t : t = template
      OBVIOUS
    <3>3. label' = LabelOf(t)'
      BY <1>5, <3>1, <3>2 DEF LabelOf
    <3> QED BY <1>1, <3>2, <3>3 DEF LabelOf
  <2>2. ~Creating /\ ~Creating'
    BY <1>1 DEF Creating
  <2>3. \A p : Complete(p)' = Complete(p)
    BY <1>1 DEF Complete
  <2> QED BY <1>1, <2>1, <2>2, <2>3 DEF PackInv, MadeRight
<1> QED BY <1>2, <1>3, <1>4, <1>6, <1>7, <1>8
        DEF PackInv, ModifiedRight, OthersKept, ExtractReturnsFile

\* What is extracted is what the label says is there, however far it gets.
LEMMA ExtractKeepsPack ==
  ASSUME PackInv, NEW name \in Exports, Extract(name)
  PROVE  PackInv'
<1> DEFINE p == Named(label[1].parts, name)
<1>0. PICK got \in 0 .. Available(p) :
        /\ extracted' = [extracted EXCEPT ![name] =
             [k \in 1 .. got |-> blocks[p.start + k - 1]]
               \o SubSeq(extracted[name], got + 1, Len(extracted[name]))]
        /\ command' = Extraction(name, got, got = Available(p), extracted[name])
  BY Zenon DEF Extract
<1> DEFINE taken == [k \in 1 .. got |-> blocks[p.start + k - 1]]
           kept == SubSeq(extracted[name], got + 1, Len(extracted[name]))
<1>1. /\ pc = "idle" /\ label # <<>> /\ name \in Names(label[1].parts)
      /\ pc' = pc /\ template' = template /\ todo' = todo /\ blocks' = blocks
      /\ length' = length /\ label' = label /\ made' = made
  BY DEF Extract, pack
<1>2. extracted' = [extracted EXCEPT ![name] = taken \o kept]
  BY <1>0, Zenon
<1>3. /\ command'.op = "extract" /\ command'.name = name
      /\ command'.copied = got /\ command'.old = extracted[name]
      /\ command'.all => got = Available(p)
  <2> HIDE DEF p
  <2> QED BY <1>0 DEF Extraction
<1>4. /\ blocks \in [Numbers -> Contents] /\ length \in 0 .. LastBlock + 1
      /\ extracted \in [Exports -> Seq(Contents)] /\ template \in Templates
  BY Zenon DEF PackInv, PackTypes
<1>5. ASSUME NEW t \in Templates, label = LabelOf(t)
      PROVE  \E q \in Parts :
               /\ q = Named(t.parts, name) /\ q \in ToSet(t.parts) /\ q.name = name
               /\ p.start = q.start /\ p.size = q.size
  <2>1. label[1].parts = Layout(t.parts)
    BY <1>5 DEF LabelOf
  <2>2. t.parts \in Seq(Parts)
    BY PartFacts
  <2>3. name \in Names(t.parts) /\ Place(Layout(t.parts), name) = Place(t.parts, name)
    BY <1>1, <2>1, <2>2, LayoutPlace
  <2>4. PICK i : i = Place(t.parts, name) /\ i \in 1 .. Len(t.parts) /\ t.parts[i].name = name
    BY <2>2, <2>3, FirstPlace
  <2>5. p = Layout(t.parts)[i]
    BY <2>1, <2>3, <2>4, Zenon DEF Named
  <2>6. i \in DOMAIN t.parts
    BY <2>2, <2>4
  <2>7. p = [name |-> t.parts[i].name, start |-> t.parts[i].start, size |-> t.parts[i].size]
    BY <2>5, <2>6 DEF Layout
  <2>8. t.parts[i] \in Parts /\ t.parts[i] \in ToSet(t.parts)
    BY <2>4, <2>6, PartFacts DEF ToSet
  <2>9. Named(t.parts, name) = t.parts[i]
    BY <2>4 DEF Named
  <2>10. p.start = t.parts[i].start /\ p.size = t.parts[i].size
    BY <2>7
  <2> QED BY <2>4, <2>8, <2>9, <2>10
<1>6. PICK s \in Nat \ {0}, z \in Nat \ {0}, B \in Nat :
        s = p.start /\ z = p.size /\ B = LastBlock /\ s + z <= B + 1
  <2>1. PICK t \in Templates : label = LabelOf(t)
    BY <1>1 DEF PackInv, LabelRight
  <2>2. PICK q \in Parts : p.start = q.start /\ p.size = q.size
    BY <1>5, <2>1
  <2> QED BY <2>2, ExtentFacts
<1>7. PICK len \in 0 .. B + 1 : len = length
  BY <1>4, <1>6
<1>8. PICK m \in 0 .. z : /\ m = got
                          /\ s + z <= len => Available(p) = z
                          /\ s + m <= B + 1
  <2>1. Available(p) = IF s + z <= len THEN z ELSE IF s < len THEN len - s ELSE 0
    BY <1>6, <1>7 DEF Available
  <2>2. PICK most \in Int : most = Available(p)
    BY <1>6, <1>7, <2>1
  <2> HIDE DEF p
  <2> QED BY <1>0, <1>6, <1>7, <2>1, <2>2
<1>9. taken = [k \in 1 .. m |-> blocks[s + k - 1]]
  <2> HIDE DEF p
  <2>1. got = m /\ p.start = s
    BY <1>6, <1>8
  <2> QED BY <2>1, Zenon
<1>10. taken \in Seq(Contents) /\ Len(taken) = m
       /\ \A k \in 1 .. m : taken[k] = blocks[s + k - 1]
  <2>1. ASSUME NEW k \in 1 .. m PROVE blocks[s + k - 1] \in Contents
    <3>1. PICK b \in 1 .. B : b = s + k - 1
      BY <1>6, <1>8
    <3> QED BY <1>4, <1>6, <3>1 DEF Numbers
  <2> HIDE DEF taken
  <2> QED BY <1>9, <2>1
<1>old. PICK old \in Seq(Contents), O \in Nat : old = extracted[name] /\ O = Len(old)
  BY <1>4
<1>11. /\ kept \in Seq(Contents)
       /\ Len(kept) = IF m < O THEN O - m ELSE 0
       /\ \A k \in 1 .. Len(kept) : kept[k] = old[m + k]
  <2>1. kept = SubSeq(old, m + 1, O)
    <3> HIDE DEF p
    <3> QED BY <1>8, <1>old, Zenon
  <2> HIDE DEF kept
  <2>2. SubSeq(old, m + 1, O) \in Seq(Contents)
    BY <1>old, SubSeqProperties
  <2>3. Len(SubSeq(old, m + 1, O)) = IF m < O THEN O - m ELSE 0
    BY <1>old
  <2>4. \A k \in 1 .. O - m : SubSeq(old, m + 1, O)[k] = old[m + k]
    BY <1>old
  <2> QED BY <2>1, <2>2, <2>3, <2>4
<1>12. /\ taken \o kept \in Seq(Contents)
       /\ Len(taken \o kept) = IF m < O THEN O ELSE m
       /\ \A k \in 1 .. m : (taken \o kept)[k] = blocks[s + k - 1]
       /\ \A k \in 1 .. Len(taken \o kept) : k > m => (taken \o kept)[k] = old[k]
  <2>a. PICK a : a = taken
    OBVIOUS
  <2>c. PICK c : c = kept
    OBVIOUS
  <2>1. a = taken /\ c = kept
    BY <2>a, <2>c
  <2>2. a \in Seq(Contents) /\ Len(a) = m /\ c \in Seq(Contents)
        /\ \A k \in 1 .. m : a[k] = blocks[s + k - 1]
    <3> HIDE DEF taken, kept
    <3> QED BY <1>10, <1>11, <2>1
  <2>5. PICK x \in Nat : x = Len(c) /\ (x = IF m < O THEN O - m ELSE 0)
                        /\ \A k \in 1 .. x : c[k] = old[m + k]
    <3> HIDE DEF taken, kept
    <3> QED BY <1>11, <1>old, <2>1, <2>2
  <2>4. PICK d : d = a \o c
    OBVIOUS
  <2>6. d \in Seq(Contents) /\ Len(d) = m + x
    BY <2>2, <2>4, <2>5, ConcatProperties
  <2>7. \A k \in 1 .. m : d[k] = a[k]
    BY <2>2, <2>4
  <2>8. ASSUME NEW k \in 1 .. Len(d), k > m PROVE d[k] = old[k]
    <3>1. PICK j \in 1 .. x : j = k - m
      BY <2>6, <2>8
    <3>2. d[k] = c[j]
      BY <2>2, <2>4, <2>5, <2>6, <2>8, <3>1
    <3>3. m + j = k
      BY <2>6, <2>8, <3>1
    <3> QED BY <2>5, <3>1, <3>2, <3>3
  <2>9. Len(d) = IF m < O THEN O ELSE m
    BY <2>5, <2>6
  <2>10. /\ a \o c \in Seq(Contents)
         /\ Len(a \o c) = IF m < O THEN O ELSE m
         /\ \A k \in 1 .. m : (a \o c)[k] = blocks[s + k - 1]
         /\ \A k \in 1 .. Len(a \o c) : k > m => (a \o c)[k] = old[k]
    BY <2>2, <2>4, <2>6, <2>7, <2>8, <2>9
  <2> HIDE DEF taken, kept
  <2> QED BY <2>1, <2>10, Zenon
<1>13. extracted' \in [Exports -> Seq(Contents)] /\ extracted'[name] = taken \o kept
  <2> HIDE DEF taken, kept
  <2> QED BY <1>2, <1>4, <1>12
<1>14. PackTypes'
  <2> HIDE DEF taken, kept, p
  <2> QED BY <1>1, <1>13, Zenon DEF PackInv, PackTypes
<1>15. BehindIsZero'
  BY <1>1 DEF PackInv, BehindIsZero
<1>16. LabelRight'
  BY <1>1 DEF PackInv, LabelRight, LabelOf
<1>17. TodoRight'
  BY <1>1, <1>3 DEF PackInv, TodoRight
<1>18. MadeRight'
  <2>1. Made' = Made /\ \A q : Complete(q)' = Complete(q)
    BY <1>1 DEF Made, Complete
  <2>2. LabelOf(template)' = LabelOf(template) /\ ~Creating /\ ~Creating'
    BY <1>1 DEF LabelOf, Creating
  <2> QED BY <1>1, <2>1, <2>2 DEF PackInv, MadeRight
<1>whole. PICK whole : whole = taken \o kept
  OBVIOUS
<1>file. /\ extracted'[name] = whole
         /\ Len(whole) = IF m < O THEN O ELSE m
         /\ \A k \in 1 .. m : whole[k] = blocks[s + k - 1]
         /\ \A k \in 1 .. Len(whole) : k > m => whole[k] = old[k]
  <2> HIDE DEF taken, kept, p
  <2>1. extracted'[name] = whole
    BY <1>13, <1>whole
  <2>2. /\ Len(whole) = IF m < O THEN O ELSE m
        /\ \A k \in 1 .. m : whole[k] = blocks[s + k - 1]
        /\ \A k \in 1 .. Len(whole) : k > m => whole[k] = old[k]
    BY <1>12, <1>whole, Zenon
  <2> QED BY <2>1, <2>2
<1>19. ASSUME made # {}, Disjoint(template.parts), NEW i \in made,
              i = Place(template.parts, name),
              template.parts[i].name \notin McrNames,
              template.parts[i].file \in DOMAIN FileLength
       PROVE  /\ got <= template.parts[i].size
              /\ got = Available(p) => got = template.parts[i].size
              /\ \A k \in 1 .. got : whole[k] = Holds(template.parts[i], k)
  <2>1. label = LabelOf(template)
    BY <1>1, <1>19 DEF PackInv, MadeRight
  <2>2. PICK q \in Parts : /\ q = Named(template.parts, name)
                           /\ p.start = q.start /\ p.size = q.size
    BY <1>4, <1>5, <2>1
  <2>3. q = template.parts[i]
    BY <1>19, <2>2, Zenon DEF Named
  <2>4. Complete(q)
    BY <1>19, <2>3 DEF PackInv, MadeRight, Files
  <2>5. s = q.start /\ z = q.size
    BY <1>6, <2>2
  <2>6. s + z <= len
    BY <1>7, <2>4, <2>5 DEF Complete
  <2>7. \A k \in 1 .. m : blocks[s + k - 1] = Holds(q, k)
    BY <2>4, <2>5 DEF Complete
  <2> HIDE DEF taken, kept, p
  <2>8. m = got /\ (got = Available(p) => m = z) /\ m <= z
    BY <1>8, <2>6
  <2>9. \A k \in 1 .. m : whole[k] = Holds(q, k)
    BY <1>file, <2>7
  <2> QED BY <2>3, <2>5, <2>8, <2>9
<1>20. ExtractReturnsFile'
  <2>1. /\ Len(whole) = IF got > Len(extracted[name]) THEN got ELSE Len(extracted[name])
        /\ \A k \in 1 .. Len(whole) : k > got => whole[k] = extracted[name][k]
    <3> HIDE DEF taken, kept, p
    <3>1. m = got /\ old = extracted[name] /\ O = Len(extracted[name])
      BY <1>8, <1>old
    <3>2. Len(whole) = IF m > O THEN m ELSE O
      BY <1>file, <1>old
    <3> QED BY <1>file, <3>1, <3>2
  <2>2. /\ template' = template /\ made' = made /\ extracted'[command'.name] = whole
        /\ command'.name = name /\ command'.copied = got /\ command'.old = extracted[name]
        /\ command'.all => got = Available(p)
    BY <1>1, <1>3, <1>file
  <2> HIDE DEF taken, kept, p
  <2>3. OldFileBehind(extracted[command.name])'
    BY <2>1, <2>2 DEF OldFileBehind
  <2>4. ASSUME made' # {}, Disjoint(template'.parts),
               NEW i \in made', i = Place(template'.parts, command'.name)
        PROVE  PartitionExtracted(i, extracted[command.name])'
    BY <1>19, <2>2, <2>4 DEF PartitionExtracted
  <2> QED BY <2>3, <2>4 DEF ExtractReturnsFile, PartitionExtracted
<1> HIDE DEF taken, kept, p
<1> QED BY <1>3, <1>14, <1>15, <1>16, <1>17, <1>18, <1>20 DEF PackInv, ModifiedRight, OthersKept

LEMMA MachineKeepsPack ==
  ASSUME PackInv, Machine
  PROVE  PackInv'
<1>1. /\ pc = "idle" /\ pc' = pc /\ template' = template /\ todo' = todo
      /\ length' = length /\ label' = label /\ extracted' = extracted
      /\ made' = {} /\ command' = Command("none", "")
  BY DEF Machine
<1>2. PICK b : b < length /\ blocks' = [blocks EXCEPT ![b] = Saved]
  BY DEF Machine
<1>3. command'.op = "none"
  BY <1>1 DEF Command
<1>4. blocks \in [Numbers -> Contents] /\ BehindIsZero
  BY Zenon DEF PackInv, PackTypes
<1>5. blocks' \in [Numbers -> Contents]
  <2>1. Saved \in Contents
    BY DEF Saved, Content, Contents
  <2> QED BY <1>2, <1>4, <2>1
<1>6. PackTypes'
  BY <1>1, <1>5, Zenon DEF PackInv, PackTypes
<1>7. BehindIsZero'
  <2>1. ASSUME NEW x \in Numbers, x >= length PROVE blocks'[x] = Zero
    <3>1. blocks[x] = Zero
      BY <1>4, <2>1 DEF BehindIsZero
    <3>2. x # b
      BY <1>2, <2>1, PackAssumption DEF Numbers, PackInv, PackTypes
    <3> QED BY <1>2, <1>4, <3>1, <3>2
  <2> QED BY <1>1, <2>1 DEF BehindIsZero
<1>8. LabelRight'
  BY <1>1 DEF PackInv, LabelRight, LabelOf
<1>9. TodoRight' /\ MadeRight'
  BY <1>1, <1>3 DEF PackInv, TodoRight, MadeRight, Creating
<1> QED BY <1>3, <1>6, <1>7, <1>8, <1>9
        DEF PackInv, ModifiedRight, OthersKept, ExtractReturnsFile

LEMMA RemoveImageKeepsPack ==
  ASSUME PackInv, RemoveImage
  PROVE  PackInv'
<1>1. /\ pc = "idle" /\ pc' = pc /\ template' = template /\ todo' = todo
      /\ length' = 0 /\ label' = <<>> /\ extracted' = extracted /\ blocks' = Blank
      /\ made' = {} /\ command' = Command("none", "")
  BY DEF RemoveImage
<1>2. command'.op = "none"
  BY <1>1 DEF Command
<1>3. blocks' \in [Numbers -> Contents]
  <2>1. Zero \in Contents
    BY DEF Zero, Content, Contents
  <2> QED BY <1>1, <2>1 DEF Blank
<1>4. length' \in 0 .. LastBlock + 1
  <2>1. PICK B \in Nat : B = LastBlock
    BY PackAssumption
  <2>2. length' = 0
    BY <1>1
  <2> QED BY <2>1, <2>2
<1>5. PackTypes'
  BY <1>1, <1>3, <1>4, Zenon DEF PackInv, PackTypes
<1>6. BehindIsZero'
  BY <1>1 DEF BehindIsZero, Blank
<1>7. LabelRight' /\ TodoRight' /\ MadeRight'
  BY <1>1, <1>2 DEF PackInv, LabelRight, TodoRight, MadeRight, Creating
<1> QED BY <1>2, <1>5, <1>6, <1>7
        DEF PackInv, ModifiedRight, OthersKept, ExtractReturnsFile

LEMMA PackKept == PackInv /\ [Next]_vars => PackInv'
<1> SUFFICES ASSUME PackInv, [Next]_vars PROVE PackInv'
  OBVIOUS
<1>1. CASE UNCHANGED vars
  <2>1. /\ pc' = pc /\ template' = template /\ todo' = todo /\ blocks' = blocks
        /\ length' = length /\ label' = label /\ extracted' = extracted
        /\ made' = made /\ command' = command /\ before' = before
    BY <1>1 DEF vars, pack
  <2>2. PackTypes' /\ BehindIsZero' /\ TodoRight' /\ ModifiedRight'
    BY <2>1 DEF PackInv, PackTypes, BehindIsZero, TodoRight, ModifiedRight
  <2>3. LabelRight'
    BY <2>1 DEF PackInv, LabelRight, LabelOf
  <2>4. MadeRight'
    <3>1. Made' = Made /\ \A q : Complete(q)' = Complete(q)
      BY <2>1 DEF Made, Complete
    <3>2. LabelOf(template)' = LabelOf(template) /\ Creating' = Creating
      BY <2>1 DEF LabelOf, Creating
    <3> QED BY <2>1, <3>1, <3>2 DEF PackInv, MadeRight
  <2>5. (Disjoint(template'.parts) => OthersKept') /\ ExtractReturnsFile'
    BY <2>1 DEF PackInv, OthersKept, ExtractReturnsFile, OldFileBehind, PartitionExtracted
  <2> QED BY <2>1, <2>2, <2>3, <2>4, <2>5 DEF PackInv
<1>2. CASE \E t \in Templates : Create(t) \/ ModifyLabel(t)
  BY <1>2, CreateKeepsPack, ModifyLabelKeepsPack
<1>3. CASE \E t \in Templates, name \in AllNames : Modify(t, name)
  BY <1>3, ModifyKeepsPack
<1>4. CASE MakeLabel \/ MakePartition \/ Kill
  BY <1>4, MakeLabelKeepsPack, MakePartitionKeepsPack, KillKeepsPack
<1>5. CASE \E f \in {"mcr", "lod"}, name \in AllNames : Mark(f, name)
  BY <1>5, MarkKeepsPack
<1>6. CASE \E name \in Exports : Extract(name)
  BY <1>6, ExtractKeepsPack
<1>7. CASE Machine \/ RemoveImage
  BY <1>7, MachineKeepsPack, RemoveImageKeepsPack
<1> QED BY <1>1, <1>2, <1>3, <1>4, <1>5, <1>6, <1>7 DEF Next

LEMMA PackIsRight == PackInv => PackHoldsFiles
<1> SUFFICES ASSUME PackInv PROVE PackHoldsFiles
  OBVIOUS
<1>1. /\ template \in Templates /\ blocks \in [Numbers -> Contents]
      /\ length \in 0 .. LastBlock + 1 /\ BehindIsZero
      /\ pc \in {"idle", "label", "make"}
  BY Zenon DEF PackInv, PackTypes
<1>2. Len(label) <= 1
  <2>1. CASE label = <<>>
    BY <2>1, EmptySeq
  <2>2. CASE label # <<>>
    <3>1. PICK t \in Templates : label = LabelOf(t)
      BY <2>2 DEF PackInv, LabelRight
    <3>2. PICK l : l = [parts |-> Layout(t.parts), mcr |-> label[1].mcr, lod |-> label[1].lod]
      OBVIOUS
    <3>3. label = <<l>>
      BY <3>1, <3>2 DEF LabelOf
    <3> QED BY <3>3
  <2> QED BY <2>1, <2>2
<1>3. TypeOK
  <2>1. made \subseteq DOMAIN template.parts
    <3>1. template.parts \in Seq(Parts)
      BY <1>1, PartFacts
    <3> QED BY <3>1, LenProperties DEF PackInv, MadeRight
  <2> QED BY <1>1, <1>2, <2>1 DEF TypeOK, BehindIsZero
<1>4. ASSUME Disjoint(template.parts), NEW i \in made,
             template.parts[i].file \in DOMAIN FileLength \cup {NoFile},
             NEW k \in 1 .. template.parts[i].size
      PROVE  blocks[template.parts[i].start + k - 1] = Holds(template.parts[i], k)
  <2>1. Complete(template.parts[i])
    BY <1>4 DEF PackInv, MadeRight, Files
  <2> QED BY <1>4, <2>1 DEF Complete
<1>5. Disjoint(template.parts) => PartitionsHoldFiles
  BY <1>4 DEF PartitionsHoldFiles
<1> QED BY <1>3, <1>5 DEF PackInv, PackHoldsFiles

\* Packs are created and modified as promised, for all templates, file lengths
\* and places that keep apart: whatever write fails and wherever a command is
\* killed, what was written without an error stays (make_one_partition and its
\* callers in diskmaker.c).
THEOREM PacksHoldTheirFiles == Spec => []PackHoldsFiles
<1>1. Spec => []PackInv
  BY PackStarts, PackKept, PTL DEF Spec
<1>2. PackInv => PackHoldsFiles
  BY PackIsRight
<1> QED BY <1>1, <1>2, PTL

\* What an extraction leaves in its file, however far it gets: the beginning of
\* the partition, or all of it if it is not broken off, and behind that what
\* the file held before (extract_partition of diskmaker.c).
THEOREM ExtractionsReturn == Spec => []ExtractReturnsFile
<1>1. Spec => []PackInv
  BY PackStarts, PackKept, PTL DEF Spec
<1>2. PackInv => ExtractReturnsFile
  BY DEF PackInv
<1> QED BY <1>1, <1>2, PTL

-----------------------------------------------------------------------------
(***************************************************************************)
(* The three programs keep their promises side by side.                    *)
(***************************************************************************)
LEMMA ToolsParts ==
  /\ ToolsInit => Init /\ FsInit /\ BandInit
  /\ [ToolsNext]_toolVars => [Next]_vars /\ [FsNext]_fsVars /\ [BandNext]_bandVars
<1>1. ToolsInit => Init /\ FsInit /\ BandInit
  BY Zenon DEF ToolsInit
<1>2. ASSUME [ToolsNext]_toolVars
      PROVE  [Next]_vars /\ [FsNext]_fsVars /\ [BandNext]_bandVars
  <2>1. CASE UNCHANGED toolVars
    BY <2>1, Zenon DEF toolVars
  <2>2. CASE Next /\ UNCHANGED <<fsVars, bandVars>>
    BY <2>2, Zenon
  <2>3. CASE FsNext /\ UNCHANGED <<vars, bandVars>>
    BY <2>3, Zenon
  <2>4. CASE BandNext /\ UNCHANGED <<vars, fsVars>>
    BY <2>4, Zenon
  <2> QED BY <1>2, <2>1, <2>2, <2>3, <2>4, Zenon DEF ToolsNext
<1> QED BY <1>1, <1>2, Zenon

\* What the programs for disks and partitions promise, whichever is run:
\* packs, extracted partitions, extracted files, listed directories and shown
\* words are those asked for, for every size of them.
THEOREM DiskToolsDeliver ==
  ToolsSpec => /\ []PackHoldsFiles /\ []ExtractReturnsFile
               /\ []FileExtracted /\ []EntriesInOrder
               /\ []WordsAsAsked
<1>1. ToolsSpec => Spec
  BY ToolsParts, PTL DEF ToolsSpec, Spec
<1>2. ToolsSpec => (FsInit /\ [][FsNext]_fsVars) /\ (BandInit /\ [][BandNext]_bandVars)
  BY ToolsParts, PTL DEF ToolsSpec
<1> QED BY <1>1, <1>2, PacksHoldTheirFiles, ExtractionsReturn, FilesRead, DirectoriesRead, WordsComeAsAsked, PTL
=============================================================================
