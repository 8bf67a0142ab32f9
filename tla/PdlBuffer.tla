----------------------------- MODULE PdlBuffer -----------------------------
(***************************************************************************)
(* The PDL buffer in run() and write_dest() of ucode.c: a ring of words    *)
(* with a pointer, which sources pop and destinations push, and an index.  *)
(* One step is one instruction, which reads a source, adds a constant to   *)
(* it, and writes a destination; the destination's low bits also name a    *)
(* word of M memory, the same one every time here.                         *)
(***************************************************************************)
EXTENDS Integers, Sequences, SequencesExt

CONSTANTS
  PdlSize,          \* words in the ring (1024)
  PdlWords,         \* bound: the words explored; a set of integers
  Addends           \* bound: what the instructions add; a set of integers

ASSUME PdlAssumption ==
  /\ PdlSize \in Nat \ {0}
  /\ PdlWords \subseteq Int /\ 0 \in PdlWords
  /\ Addends \subseteq Int

VARIABLES
  pdl_memory, pdl_ptr, pdl_index,
  m_memory_word,    \* the word of M memory
  entries,          \* history: what has been pushed and not popped, newest last
  mark              \* history: the entry that the index was set to, or 0

pdlVars == <<pdl_memory, pdl_ptr, pdl_index, m_memory_word, entries, mark>>

Places == 0 .. PdlSize - 1

\* The pointer and the index keep ten bits.
Masked(n) == n % PdlSize

PdlInit ==
  /\ pdl_memory = [p \in Places |-> 0]
  /\ pdl_ptr = 0 /\ pdl_index = 0
  /\ m_memory_word = 0
  /\ entries = <<>> /\ mark = 0

-----------------------------------------------------------------------------
Sources == {"m", "pointer", "index", "indexed", "pop", "top"}

SourceValue(source) ==
  CASE source = "m" -> m_memory_word
    [] source = "pointer" -> pdl_ptr
    [] source = "index" -> pdl_index
    [] source = "indexed" -> pdl_memory[pdl_index]
    [] source \in {"pop", "top"} -> pdl_memory[pdl_ptr]

\* Mutated form of PointerAfter.
PointerAfterUnmasked(source) ==
  IF source = "pop" /\ pdl_ptr > 0 THEN pdl_ptr - 1 ELSE pdl_ptr

\* The pointer the destination finds.
PointerAfter(source) == IF source = "pop" THEN Masked(pdl_ptr - 1) ELSE pdl_ptr

Destinations == {"m", "top", "push", "indexed", "index", "pointer"}

\* ptr is the pointer after the source was read.
WritePdl(dest, ptr, word) ==
  LET stored(place) == [pdl_memory EXCEPT ![place] = word] IN
    /\ pdl_ptr' = CASE dest = "push" -> Masked(ptr + 1)
                    [] dest = "pointer" -> Masked(word)
                    [] OTHER -> ptr
    /\ pdl_index' = IF dest = "index" THEN Masked(word) ELSE pdl_index
    /\ pdl_memory' = CASE dest \in {"top", "push"} -> stored(pdl_ptr')
                       [] dest = "indexed" -> stored(pdl_index)
                       [] OTHER -> pdl_memory

\* What the instruction means to those who use the buffer as a stack.  A full
\* stack forgets its oldest entry.  An index or a pointer that is not computed
\* from the pointer, or points below the stack, has no meaning.
Meaning(source, addend, dest, word) ==
  LET popped == IF source = "pop" /\ entries # <<>> THEN Front(entries) ELSE entries
      known == IF source = "pop" /\ entries = <<>> THEN 0 ELSE mark
      size == Len(popped)
      target == IF source = "pointer" /\ addend <= 0 /\ size + addend >= 0
                THEN size + addend ELSE 0
      Becomes(es, m) == entries' = es /\ mark' = m
  IN \/ dest = "m" /\ Becomes(popped, known)
     \/ dest = "push" /\ size < PdlSize /\ Becomes(Append(popped, word), known)
     \/ /\ dest = "push" /\ size = PdlSize
        /\ Becomes(Append(Tail(popped), word), IF known = 0 THEN 0 ELSE known - 1)
     \/ dest = "top" /\ size > 0 /\ Becomes(Append(Front(popped), word), known)
     \/ dest = "top" /\ size = 0 /\ Becomes(<<>>, known)
     \/ /\ dest = "indexed" /\ known \in 1 .. size
        /\ Becomes([popped EXCEPT ![known] = word], known)
     \/ dest = "indexed" /\ known \notin 1 .. size /\ Becomes(<<>>, 0)
     \/ dest = "index" /\ Becomes(popped, target)
     \/ dest = "pointer" /\ target > 0 /\ Becomes(SubSeq(popped, 1, target), known)
     \/ dest = "pointer" /\ target = 0 /\ Becomes(<<>>, 0)

Move(source, addend, dest) ==
  LET word == SourceValue(source) + addend IN
    /\ word \in PdlWords
    /\ WritePdl(dest, PointerAfter(source), word)
    /\ m_memory_word' = word
    /\ Meaning(source, addend, dest, word)

PdlNext == \E source \in Sources, addend \in Addends, dest \in Destinations :
             Move(source, addend, dest)

PdlSpec == PdlInit /\ [][PdlNext]_pdlVars

-----------------------------------------------------------------------------
\* The buffer is a stack that keeps its last PdlSize entries, and the index
\* stays with the entry it was set to, whatever is pushed, popped or wrapped
\* in between, also when one instruction pops and pushes (ucode.c:597-615,
\* 895-900).
PdlHoldsEntries ==
  LET size == Len(entries) IN
    /\ \A i \in 1 .. size : pdl_memory[Masked(pdl_ptr - (size - i))] = entries[i]
    /\ mark \in 1 .. size => pdl_memory[pdl_index] = entries[mark]
=============================================================================
