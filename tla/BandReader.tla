----------------------------- MODULE BandReader -----------------------------
(***************************************************************************)
(* The reader of load bands (lod.c).  It reads words of a band file, and   *)
(* of the swap partition of a disk, through a buffer of one block, which   *)
(* it knows by its number only; and it looks for the compiled function     *)
(* (FEF) around an address, by going back from there to a word with the    *)
(* tag of a header.                                                        *)
(*                                                                         *)
(* A word is named by its file and place.  Which words are headers is      *)
(* chosen; the texts that are printed are left out.                        *)
(***************************************************************************)
EXTENDS Integers

CONSTANTS
  BlockWords,    \* words in a block, 256 in the code
  BandBlocks,    \* blocks of the band file
  SwapStart,     \* where the swap partition begins on the disk
  MaxReads,      \* bound: words read before and after the search
  MaxBadReads    \* bound: reads of a block that fail

ASSUME BandAssumption ==
  /\ BlockWords \in Nat \ {0} /\ BandBlocks \in Nat \ {0}
  /\ SwapStart \in Nat \ {0}
  /\ MaxReads \in Nat /\ MaxBadReads \in Nat

VARIABLES
  files,     \* the files given: the band, the disk or both
  bnum,      \* the number of the block in the buffer
  buf,       \* where the buffer was read from
  headers,   \* the words of the band that are headers
  search,    \* from where the search began, where it is, what it found
  result,    \* the word read last: what was asked for, what came, and
             \* (history) whether the read of its block did not succeed
  reads, bad,\* how many words were read; how many reads failed
  spoiled,   \* history: the read of the block asked for last did not succeed
  misled,    \* history: so the search has seen a word of another block
  bandBlock, \* history: the block of the word asked of the band last
  turned     \* history: another block than that has been asked of the disk

history == <<spoiled, misled, bandBlock, turned>>
bandVars == <<files, bnum, buf, headers, search, result, reads, bad, history>>

NoBlock == 0 - 1
Nowhere == <<"nowhere", 0>>
BandAddresses == 0 .. BandBlocks * BlockWords - 1

\* set_swap: all reads are displaced from now on, those of the band as well.
Partoff == IF "disk" \in files THEN SwapStart ELSE 0

\* A block behind the end of the band file cannot be read.
Readable(file, b) == file = "disk" \/ b < BandBlocks

\* The read of a block, of which neither the seek's result nor its own matters.
ReadBlock(file, place) ==
  \/ /\ Readable(file, place)
     /\ buf' = <<file, place>> /\ spoiled' = FALSE /\ UNCHANGED bad
  \/ /\ \/ ~Readable(file, place) /\ UNCHANGED bad
        \/ bad < MaxBadReads /\ bad' = bad + 1
     /\ spoiled' = TRUE /\ UNCHANGED buf

\* What is remembered of a word that is asked for.
Asked(file, b) ==
  /\ bandBlock' = IF file = "band" THEN b ELSE bandBlock
  /\ turned' = (turned \/ (file = "disk" /\ b # bandBlock))

\* Mutated form of ReadVirt.
ReadVirtAfterBlock(file, addr) ==
  LET b == addr \div BlockWords IN
  /\ bnum' = b
  /\ \/ b > bnum /\ ReadBlock(file, b + Partoff)
     \/ b <= bnum /\ UNCHANGED <<buf, bad, spoiled>>
  /\ Asked(file, b)

\* read_virt: the block's number is noted before it is read.
ReadVirt(file, addr) ==
  LET b == addr \div BlockWords IN
  /\ bnum' = b
  /\ \/ b # bnum /\ ReadBlock(file, b + Partoff)
     \/ b = bnum /\ UNCHANGED <<buf, bad, spoiled>>
  /\ Asked(file, b)

Word(addr) == <<buf'[1], (buf'[2] * BlockWords) + (addr % BlockWords)>>
IsHeader(word) == word[1] = "band" /\ word[2] \in headers

NoSearch == [pc |-> 0, addr |-> 0, state |-> "no"]

\* read_partition_table uses the buffer for the label, without a number.
BandInit ==
  /\ files \in SUBSET {"band", "disk"} \ {{}}
  /\ bnum = NoBlock
  /\ buf = IF "disk" \in files THEN <<"disk", 0>> ELSE Nowhere
  /\ headers \in SUBSET BandAddresses
  /\ search = NoSearch
  /\ result = [file |-> "band", asked |-> 0, word |-> Nowhere, spoiled |-> FALSE]
  /\ reads = 0 /\ bad = 0
  /\ spoiled = FALSE /\ misled = FALSE
  /\ bandBlock = NoBlock /\ turned = FALSE

\* What the options ask for is read first from the band, then from the disk.
ReadWord(file, addr) ==
  /\ file \in files
  /\ result.file = "disk" => file = "disk"
  /\ search.state # "going"
  /\ reads < MaxReads /\ reads' = reads + 1
  /\ ReadVirt(file, addr)
  /\ result' = [file |-> file, asked |-> addr, word |-> Word(addr),
                 spoiled |-> spoiled']
  /\ UNCHANGED <<files, headers, search, misled>>

\* find_and_dump_fef
FindFef(pc) ==
  /\ "band" \in files /\ result.file = "band"
  /\ search.state = "no"
  /\ search' = [pc |-> pc, addr |-> pc, state |-> "going"]
  /\ UNCHANGED <<files, bnum, buf, headers, result, reads, bad, history>>

\* One turn of its loop, whose limit of 512 counts the wrong way.  Before
\* address 0 the search is not followed further: addresses wrap around there.
GoBack ==
  /\ search.state = "going"
  /\ ReadVirt("band", search.addr)
  /\ search' = IF IsHeader(Word(search.addr)) THEN [search EXCEPT !.state = "found"]
               ELSE IF search.addr = 0 THEN [search EXCEPT !.state = "wraps"]
               ELSE [search EXCEPT !.addr = @ - 1]
  /\ misled' = (misled \/ spoiled')
  /\ UNCHANGED <<files, headers, result, reads>>

BandNext ==
  \/ \E file \in files, addr \in BandAddresses : ReadWord(file, addr)
  \/ \E pc \in BandAddresses : FindFef(pc)
  \/ GoBack

-----------------------------------------------------------------------------
(***************************************************************************)
(* A word that is shown comes from the place that was asked for, counted   *)
(* from where swap is on the disk, if one is given, in the band as well    *)
(* (set_swap displaces both); and from the file asked for, but for words   *)
(* of the disk that are in the block read from the band last: that block   *)
(* is in the buffer until another is asked for.  The function found is,    *)
(* among the words so displaced, the one the address lies in.  All this    *)
(* holds in whatever order words are read, and again after the read of a   *)
(* block has failed, but for the words of that block until the next.       *)
(***************************************************************************)
Displaced(addr) == (Partoff * BlockWords) + addr

Around(pc) == {a \in 0 .. pc : Displaced(a) \in headers}

WordsAsAsked ==
  /\ reads > 0 /\ ~result.spoiled =>
       result.word = <<IF turned THEN "disk" ELSE "band", Displaced(result.asked)>>
  /\ turned => result.file = "disk"
  /\ search.state = "found" /\ ~misled =>
       /\ search.addr \in Around(search.pc)
       /\ \A a \in Around(search.pc) : a <= search.addr
  /\ search.state = "wraps" /\ ~misled => Around(search.pc) = {}
=============================================================================
