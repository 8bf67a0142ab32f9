---------------------------- MODULE MemoryProofs ----------------------------
(***************************************************************************)
(* Mapped pages exist, and memory holds what was last written to it, for   *)
(* every shape of the maps and of physical memory; and a memory that was   *)
(* saved completely is restored exactly, for any number of pages.          *)
(***************************************************************************)
EXTENDS Memory, SequenceTheorems, TLAPS

Entry == [pn : Physical, access : BOOLEAN, write : BOOLEAN]
L2Index == Blocks \X L2Offset

\* What the properties rest on: every accessible L2 entry, in use by an L1
\* entry or not, has its page, and pages agree with the history.
MemoryInv ==
  /\ l1_map \in [L1Index -> Blocks]
  /\ l2_map \in [L2Index -> Entry]
  /\ phy_pages \in [Physical -> Contents \cup {NoPage}]
  /\ written \in [Physical -> Contents]
  /\ \A i \in L2Index : l2_map[i].access => phy_pages[l2_map[i].pn] # NoPage
  /\ \A p \in Physical :
       phy_pages[p] = IF phy_pages[p] = NoPage THEN NoPage ELSE written[p]
  /\ \A p \in Physical : phy_pages[p] = NoPage => written[p] = Garbage

\* Every virtual page has an entry of the L2 map, or is a frame buffer.
LEMMA MapVtop ==
  ASSUME MemoryInv, NEW virt \in Virtual
  PROVE  /\ map_vtop(virt) \in Entry
         /\ virt \notin FrameBuffer /\ map_vtop(virt).access
              => phy_pages[map_vtop(virt).pn] # NoPage
<1>1. CASE virt \in FrameBuffer
  <2>1. (CHOOSE p \in Devices : TRUE) \in Devices
    BY MemoryAssumption
  <2> QED BY <1>1, <2>1 DEF map_vtop, FrameBufferEntry, Entry, Physical
<1>2. CASE virt \notin FrameBuffer
  <2>1. <<l1_map[virt[1]], virt[2]>> \in L2Index
    BY DEF MemoryInv, Virtual, L2Index
  <2> QED BY <1>2, <2>1 DEF map_vtop, MemoryInv
<1> QED BY <1>1, <1>2

LEMMA MemoryStarts == Init => MemoryInv
<1> SUFFICES ASSUME NEW first \in Ram, NEW block \in Blocks, NEW word \in Values,
      l1_map = [i \in L1Index |-> block],
      l2_map = [i \in L2Index |-> [pn |-> first, access |-> FALSE, write |-> FALSE]],
      phy_pages = [p \in Physical |-> IF p = first THEN word ELSE NoPage],
      written = [p \in Physical |-> IF p = first THEN word ELSE Garbage]
    PROVE MemoryInv
  BY DEF Init, L2Index
<1>1. l2_map \in [L2Index -> Entry]
  BY DEF Entry, Physical
<1>2. \A i \in L2Index : ~l2_map[i].access
  OBVIOUS
<1>3. word \in Contents /\ word # NoPage /\ Garbage \in Contents
  BY MemoryAssumption DEF Contents
<1>4. /\ phy_pages \in [Physical -> Contents \cup {NoPage}]
      /\ written \in [Physical -> Contents]
      /\ \A p \in Physical :
           /\ phy_pages[p] = IF phy_pages[p] = NoPage THEN NoPage ELSE written[p]
           /\ phy_pages[p] = NoPage => written[p] = Garbage
  BY <1>3
<1> QED BY <1>1, <1>2, <1>4 DEF MemoryInv

LEMMA MemoryInductive ==
  ASSUME MemoryInv, [Next]_vars
  PROVE  MemoryInv'
<1>1. ASSUME NEW virt \in Virtual, read_mem(virt) PROVE MemoryInv'
  BY <1>1 DEF read_mem, MemoryInv
<1>2. ASSUME NEW p \in Physical, NEW v \in Values,
             phy_pages' = [phy_pages EXCEPT ![p] = v],
             written' = [written EXCEPT ![p] = v],
             UNCHANGED <<l1_map, l2_map>>
      PROVE  MemoryInv'
  <2>1. v \in Contents /\ v # NoPage
    BY MemoryAssumption DEF Contents
  <2>2. /\ phy_pages' \in [Physical -> Contents \cup {NoPage}]
        /\ written' \in [Physical -> Contents]
    BY <1>2, <2>1 DEF MemoryInv
  <2>3. \A r \in Physical :
          /\ phy_pages[r] # NoPage => phy_pages'[r] # NoPage
          /\ phy_pages'[r] # NoPage => phy_pages'[r] = written'[r]
          /\ phy_pages'[r] = NoPage => written'[r] = Garbage
    BY <1>2, <2>1 DEF MemoryInv
  <2>4. \A i \in L2Index : l2_map'[i].access => phy_pages'[l2_map'[i].pn] # NoPage
    BY <1>2, <2>3 DEF MemoryInv, Entry
  <2> QED BY <1>2, <2>2, <2>3, <2>4 DEF MemoryInv
<1>3. ASSUME NEW virt \in Virtual, NEW v \in Values, write_mem(virt, v)
      PROVE  MemoryInv'
  <2>1. CASE UNCHANGED <<phy_pages, written>>
    BY <1>3, <2>1 DEF write_mem, MemoryInv
  <2>2. CASE ~UNCHANGED <<phy_pages, written>>
    <3>1. map_vtop(virt).pn \in Physical
      BY MapVtop DEF Entry
    <3>2. /\ phy_pages' = [phy_pages EXCEPT ![map_vtop(virt).pn] = v]
          /\ written' = [written EXCEPT ![map_vtop(virt).pn] = v]
          /\ UNCHANGED <<l1_map, l2_map>>
      BY <1>3, <2>2 DEF write_mem
    <3> DEFINE pn == map_vtop(virt).pn
    <3> HIDE DEF pn
    <3> QED BY <1>2, <3>1, <3>2 DEF pn
  <2> QED BY <2>1, <2>2
\* Adding a page: it holds Garbage, as the history says of a page that does
\* not exist.
<1>4. ASSUME NEW p \in Physical
      PROVE  /\ Added(phy_pages, p) \in [Physical -> Contents \cup {NoPage}]
             /\ Added(phy_pages, p)[p] # NoPage
             /\ \A r \in Physical :
                  /\ phy_pages[r] # NoPage => Added(phy_pages, p)[r] # NoPage
                  /\ Added(phy_pages, p)[r] # NoPage
                       => Added(phy_pages, p)[r] = written[r]
                  /\ Added(phy_pages, p)[r] = NoPage => written[r] = Garbage
  BY MemoryAssumption DEF Added, MemoryInv, Contents
<1>5. ASSUME NEW virt \in Virtual, NEW l1 \in BOOLEAN, NEW l2 \in BOOLEAN,
             NEW block \in Blocks, NEW entry \in Entries,
             write_map(virt, l1, block, l2, entry)
      PROVE  MemoryInv'
  <2>1. l1_map' \in [L1Index -> Blocks] /\ written' = written
    BY <1>5 DEF write_map, MemoryInv, Virtual
  <2>2. CASE ~l2
    BY <1>5, <2>1, <2>2 DEF write_map, MemoryInv
  <2>3. CASE l2
    <3> DEFINE at == <<l1_map'[virt[1]], virt[2]>>
    <3>1. at \in L2Index
      BY <2>1 DEF Virtual, L2Index
    <3>2. entry \in Entry /\ entry.pn \in Physical
      BY MemoryAssumption DEF Entry
    <3>3. /\ l2_map' = [l2_map EXCEPT ![at] = entry]
          /\ phy_pages' = Added(phy_pages, entry.pn)
      BY <1>5, <2>3 DEF write_map
    <3> HIDE DEF at
    <3>4. l2_map' \in [L2Index -> Entry]
      BY <3>1, <3>2, <3>3 DEF MemoryInv
    <3>5. \A i \in L2Index : l2_map'[i].access => phy_pages'[l2_map'[i].pn] # NoPage
      <4> SUFFICES ASSUME NEW i \in L2Index, l2_map'[i].access
                   PROVE  phy_pages'[l2_map'[i].pn] # NoPage
        OBVIOUS
      <4>1. CASE i = at
        BY <1>4, <3>1, <3>2, <3>3, <4>1 DEF MemoryInv
      <4>2. CASE i # at
        <5>1. l2_map'[i] = l2_map[i] /\ l2_map[i] \in Entry
          BY <3>1, <3>3, <4>2 DEF MemoryInv
        <5>2. l2_map[i].pn \in Physical /\ phy_pages[l2_map[i].pn] # NoPage
          BY <5>1 DEF MemoryInv, Entry
        <5> QED BY <1>4, <3>2, <3>3, <5>1, <5>2
      <4> QED BY <4>1, <4>2
    <3> QED BY <1>4, <2>1, <3>2, <3>3, <3>4, <3>5 DEF MemoryInv
  <2> QED BY <2>2, <2>3
<1>6. ASSUME NEW p \in Physical, read_phy_mem(p) PROVE MemoryInv'
  <2>1. CASE p \in Ram
    <3>1. phy_pages' = Added(phy_pages, p) /\ UNCHANGED <<l1_map, l2_map, written>>
      BY <1>6, <2>1 DEF read_phy_mem
    <3>2. \A i \in L2Index : l2_map'[i].access => phy_pages'[l2_map'[i].pn] # NoPage
      BY <1>4, <3>1 DEF MemoryInv, Entry
    <3> QED BY <1>4, <3>1, <3>2 DEF MemoryInv
  <2>2. CASE p \notin Ram
    BY <1>6, <2>2 DEF read_phy_mem, MemoryInv
  <2> QED BY <2>1, <2>2
<1>7. ASSUME NEW p \in Physical, NEW v \in Values, write_phy_mem(p, v)
      PROVE  MemoryInv'
  <2>1. CASE UNCHANGED <<phy_pages, written>>
    BY <1>7, <2>1 DEF write_phy_mem, MemoryInv
  <2>2. CASE ~UNCHANGED <<phy_pages, written>>
    BY <1>2, <1>7, <2>2 DEF write_phy_mem
  <2> QED BY <2>1, <2>2
<1>8. CASE UNCHANGED vars
  BY <1>8 DEF vars, MemoryInv
<1> QED BY <1>1, <1>3, <1>5, <1>6, <1>7, <1>8 DEF Next

LEMMA MemoryAlways == Spec => []MemoryInv
<1>1. MemoryInv /\ [Next]_vars => MemoryInv'
  BY MemoryInductive
<1> QED BY MemoryStarts, <1>1, PTL DEF Spec

\* Every page that can be reached through the map exists.
THEOREM MappedPagesExist == Spec => []MappedPageExists
<1>1. MemoryInv => MappedPageExists
  BY MapVtop DEF MappedPageExists
<1> QED BY MemoryAlways, <1>1, PTL

\* Through whatever mapping, a read of RAM yields what the processor or the
\* disk last wrote to the page.
THEOREM MemoryIsCoherent == Spec => ReadsLastWritten
<1>1. MemoryInv /\ [Next]_vars =>
        [\A virt \in Virtual \ FrameBuffer :
           read_mem(virt) /\ map_vtop(virt).access /\ map_vtop(virt).pn \in Ram
             => pv' = written[map_vtop(virt).pn]]_vars
  <2> SUFFICES ASSUME MemoryInv, NEW virt \in Virtual \ FrameBuffer,
                      read_mem(virt), map_vtop(virt).access,
                      map_vtop(virt).pn \in Ram
               PROVE  pv' = written[map_vtop(virt).pn]
    OBVIOUS
  <2>1. phy_pages[map_vtop(virt).pn] # NoPage /\ map_vtop(virt).pn \in Physical
    BY MapVtop DEF Entry
  <2>2. map_vtop(virt).pn \notin Absent /\ map_vtop(virt).pn \notin Devices
    BY MemoryAssumption
  <2>3. pv' = phy_pages[map_vtop(virt).pn]
    BY <2>1, <2>2 DEF read_mem
  <2> QED BY <2>1, <2>3 DEF MemoryInv
<1> QED BY MemoryAlways, <1>1, PTL DEF Spec, ReadsLastWritten

-----------------------------------------------------------------------------
\* The pages that are saved; what usim.state may hold of one.
Saves == 1 .. PAGES_TO_SAVE
Filed == Values \cup {Garbage}

\* A complete file is the memory it was written from.  While memory is saved
\* or restored, the pages before the next one are the same in memory and in the
\* file; and a process restores memory once.
FileOK == \E n \in 0 .. PAGES_TO_SAVE : state_file \in [1 .. n -> Filed]
FileComplete == torn \/ state_file = <<>> \/ state_file = snapshot
SavedSoFar ==
  process = "saving" =>
    \A p \in 1 .. page - 1 : p \in DOMAIN state_file /\ state_file[p] = saved_pages[p]
RestoredSoFar ==
  process = "restoring" =>
    /\ state_file # <<>> /\ restored /\ ~Warm!JustRestored
    /\ \A p \in DOMAIN state_file : p < page => saved_pages[p] = state_file[p]
RestoredOnce == Warm!JustRestored => restored /\ (torn \/ saved_pages = snapshot)

WarmInv ==
  Warm!TypeOK /\ FileOK /\ FileComplete /\ SavedSoFar /\ RestoredSoFar /\ RestoredOnce

LEMMA WarmStarts == Warm!Init => WarmInv
<1> SUFFICES ASSUME Warm!Init PROVE WarmInv
  OBVIOUS
<1>0. state_file = <<>>
  BY DEF Warm!Init
<1>1. state_file \in [1 .. 0 -> Filed] /\ Len(state_file) = 0 /\ DOMAIN state_file = {}
  BY <1>0
<1>2. FileOK
  BY <1>1, WarmAssumption DEF FileOK
<1>3. saved_pages \in [Saves -> Values \cup {Garbage, NoPage}]
  BY DEF Warm!Init, Warm!NoMemory, Warm!Numbers, Saves
<1>4. 1 \in 1 .. PAGES_TO_SAVE + 1 /\ 0 <= PAGES_TO_SAVE
  BY WarmAssumption
<1>5. saved_pages = snapshot
  BY DEF Warm!Init
<1>6. Warm!TypeOK
  BY <1>1, <1>3, <1>4, <1>5 DEF Warm!Init, Warm!TypeOK, Warm!Numbers, Saves
<1> QED
  BY <1>2, <1>6
  DEF Warm!Init, WarmInv, FileComplete, SavedSoFar, RestoredSoFar, RestoredOnce,
      Warm!JustRestored

\* A file has the pages from 1 to its length.
LEMMA FileLength ==
  ASSUME NEW n \in Nat, NEW f \in [1 .. n -> Filed]
  PROVE  Len(f) = n /\ DOMAIN f = 1 .. n /\ \A p \in DOMAIN f : f[p] \in Filed
<1>1. f \in Seq(Filed)
  BY SeqDef
<1> QED BY <1>1, LenProperties

LEMMA WarmInductive ==
  ASSUME WarmInv, [Warm!Next]_warmVars
  PROVE  WarmInv'
<1> USE DEF Warm!JustRestored
<1> DEFINE Processes == {"none", "prom", "running", "restoring", "saving"}
<1> DEFINE Messages == {"", "^C", "memory state saved", "memory state restored"}
<1> DEFINE Memories == [Saves -> Values \cup {Garbage, NoPage}]
<1>0. PAGES_TO_SAVE \in Nat /\ PAGES_TO_SAVE # 0 /\ 1 \in 1 .. PAGES_TO_SAVE + 1
  BY WarmAssumption
<1>1. Warm!TypeOK
  BY DEF WarmInv
<1>2. process \in Processes /\ message \in Messages
  BY <1>1 DEF Warm!TypeOK
<1>3. save_state_flag \in BOOLEAN /\ warm_boot_flag \in BOOLEAN
      /\ restored \in BOOLEAN /\ torn \in BOOLEAN
  BY <1>1 DEF Warm!TypeOK
<1>4. saved_pages \in Memories /\ snapshot \in Memories
  BY <1>1 DEF Warm!TypeOK, Warm!Numbers, Saves
<1>5. page \in 1 .. PAGES_TO_SAVE + 1
  BY <1>1 DEF Warm!TypeOK
<1>6. PICK n \in 0 .. PAGES_TO_SAVE : state_file \in [1 .. n -> Filed]
  BY DEF WarmInv, FileOK
<1>7. n \in Nat /\ n <= PAGES_TO_SAVE
  BY <1>0, <1>6
<1>8. Len(state_file) = n /\ DOMAIN state_file = 1 .. n
      /\ \A p \in DOMAIN state_file : state_file[p] \in Filed
  BY <1>6, <1>7, FileLength
<1>9. FileComplete /\ SavedSoFar /\ RestoredSoFar /\ RestoredOnce
  BY DEF WarmInv
<1> HIDE DEF Memories, Processes, Messages
\* The types, and what leaving the file alone leaves true of it.
<1>10. ASSUME process' \in Processes, message' \in Messages,
              save_state_flag' \in BOOLEAN, warm_boot_flag' \in BOOLEAN,
              restored' \in BOOLEAN, torn' \in BOOLEAN,
              saved_pages' \in Memories, snapshot' \in Memories,
              page' \in 1 .. PAGES_TO_SAVE + 1, FileOK'
       PROVE  Warm!TypeOK'
  <2>1. PICK m \in 0 .. PAGES_TO_SAVE : state_file' \in [1 .. m -> Filed]
    BY <1>10 DEF FileOK
  <2>2. m \in Nat /\ m <= PAGES_TO_SAVE
    BY <1>0, <2>1
  <2>3. Len(state_file') = m /\ \A p \in DOMAIN state_file' : state_file'[p] \in Filed
    BY <2>1, <2>2, FileLength
  <2>4. Len(state_file') <= PAGES_TO_SAVE
    BY <2>2, <2>3
  <2> QED
    BY <1>10, <2>3, <2>4
    DEF Warm!TypeOK, Warm!Numbers, Saves, Filed, Memories, Processes, Messages
<1>11. ASSUME UNCHANGED <<state_file, snapshot, torn, save_state_flag, warm_boot_flag>>,
              process' \in Processes, message' \in Messages,
              restored' \in BOOLEAN, saved_pages' \in Memories,
              page' \in 1 .. PAGES_TO_SAVE + 1,
              SavedSoFar', RestoredSoFar', RestoredOnce'
       PROVE  WarmInv'
  <2>1. FileOK' /\ FileComplete'
    BY <1>6, <1>9, <1>11 DEF FileOK, FileComplete
  <2>2. snapshot' \in Memories /\ torn' \in BOOLEAN
        /\ save_state_flag' \in BOOLEAN /\ warm_boot_flag' \in BOOLEAN
    BY <1>3, <1>4, <1>11
  <2>3. Warm!TypeOK'
    BY <1>10, <1>11, <2>1, <2>2
  <2> QED BY <1>11, <2>1, <2>3 DEF WarmInv
<1>12. ASSUME NEW save \in BOOLEAN, NEW warm \in BOOLEAN, Warm!Start(save, warm)
       PROVE  WarmInv'
  <2>1. /\ process' = "prom" /\ message' = "" /\ page' = 1 /\ restored' = FALSE
        /\ save_state_flag' = save /\ warm_boot_flag' = warm
        /\ UNCHANGED <<state_file, snapshot, torn>>
        /\ \E v \in Values : saved_pages' = [Warm!NoMemory EXCEPT ![1] = v]
    BY <1>12 DEF Warm!Start, Warm!file
  <2>2. saved_pages' \in Memories
    BY <2>1 DEF Warm!NoMemory, Warm!Numbers, Saves, Memories
  <2>3. process' \in Processes /\ message' \in Messages
    BY <2>1 DEF Processes, Messages
  <2>4. page' \in 1 .. PAGES_TO_SAVE + 1
    BY <1>0, <2>1
  <2>5. FileOK' /\ FileComplete'
    BY <1>6, <1>9, <2>1 DEF FileOK, FileComplete
  <2>6. SavedSoFar' /\ RestoredSoFar' /\ RestoredOnce'
    BY <2>1 DEF SavedSoFar, RestoredSoFar, RestoredOnce
  <2>7. snapshot' \in Memories /\ torn' \in BOOLEAN
    BY <1>3, <1>4, <2>1
  <2>8. Warm!TypeOK'
    BY <1>10, <2>1, <2>2, <2>3, <2>4, <2>5, <2>7
  <2> QED BY <2>5, <2>6, <2>8 DEF WarmInv
<1>13. ASSUME NEW p \in Saves, NEW v \in Filed, Warm!Run(p, v)
       PROVE  WarmInv'
  <2>1. /\ process \in {"prom", "running"} /\ message' = ""
        /\ saved_pages' = [saved_pages EXCEPT ![p] = v]
        /\ UNCHANGED <<process, restored, page, state_file, snapshot, torn,
                       save_state_flag, warm_boot_flag>>
    BY <1>13 DEF Warm!Run, Warm!file, Warm!flags
  <2>2. saved_pages' \in Memories
    BY <1>4, <2>1 DEF Filed, Memories
  <2>3. SavedSoFar' /\ RestoredSoFar' /\ RestoredOnce'
    BY <2>1 DEF SavedSoFar, RestoredSoFar, RestoredOnce
  <2>4. message' \in Messages
    BY <2>1 DEF Messages
  <2> QED BY <1>2, <1>3, <1>5, <1>11, <2>1, <2>2, <2>3, <2>4
<1>14. CASE Warm!DisableProm
  <2>1. /\ process \in {"prom", "running"}
        /\ restored' = (restored \/ warm_boot_flag)
        /\ UNCHANGED <<saved_pages, message, state_file, snapshot, torn,
                       save_state_flag, warm_boot_flag>>
        /\ \/ /\ process' = "restoring" /\ page' = 1 /\ ~restored
              /\ warm_boot_flag /\ state_file # <<>>
           \/ process' = "running" /\ page' = page
    BY <1>14 DEF Warm!DisableProm, Warm!file, Warm!flags
  <2>2. restored' \in BOOLEAN /\ (restored => restored')
    BY <1>3, <2>1
  <2>3. process' \in Processes /\ message' \in Messages
    BY <1>2, <2>1 DEF Processes
  <2>4. page' \in 1 .. PAGES_TO_SAVE + 1
    BY <1>0, <1>5, <2>1
  <2>5. SavedSoFar' /\ RestoredOnce'
    BY <1>9, <2>1, <2>2 DEF SavedSoFar, RestoredOnce
  <2>6. RestoredSoFar'
    <3> SUFFICES ASSUME process' = "restoring" PROVE RestoredSoFar'
      BY DEF RestoredSoFar
    <3>1. page' = 1 /\ ~restored /\ restored' /\ state_file' # <<>>
      BY <2>1
    <3>2. ~Warm!JustRestored'
      BY <1>9, <2>1, <3>1 DEF RestoredOnce
    <3>3. \A q \in DOMAIN state_file' : ~(q < page')
      BY <1>7, <1>8, <2>1, <3>1
    <3> QED BY <3>1, <3>2, <3>3 DEF RestoredSoFar
  <2> QED BY <1>4, <1>11, <2>1, <2>2, <2>3, <2>4, <2>5, <2>6
<1>15. CASE Warm!RestorePage
  <2>1. /\ process = "restoring" /\ page <= PAGES_TO_SAVE /\ page' = page + 1
        /\ saved_pages' = [saved_pages EXCEPT ![page] =
              IF page <= Len(state_file) THEN state_file[page]
              ELSE IF @ = NoPage THEN Garbage ELSE @]
        /\ UNCHANGED <<process, restored, message, state_file, snapshot, torn,
                       save_state_flag, warm_boot_flag>>
    BY <1>15 DEF Warm!RestorePage, Warm!file, Warm!flags
  <2>2. page \in Saves /\ page' \in 1 .. PAGES_TO_SAVE + 1
    BY <1>0, <1>5, <2>1 DEF Saves
  <2>3. page <= Len(state_file) => page \in DOMAIN state_file
    BY <1>5, <1>7, <1>8
  <2>4. saved_pages' \in Memories
    BY <1>4, <1>8, <2>1, <2>2, <2>3 DEF Filed, Memories
  <2>5. ASSUME NEW q \in DOMAIN state_file, q < page' PROVE saved_pages'[q] = state_file[q]
    <3>1. q \in 1 .. n /\ q < page + 1 /\ page \in Nat
      BY <1>0, <1>5, <1>8, <2>1, <2>5
    <3>2. q \in Saves /\ q \in Nat /\ q <= n
      BY <1>0, <1>7, <3>1 DEF Saves
    <3>3. q < page \/ q = page
      BY <3>1, <3>2
    <3>4. CASE q < page
      <4>1. saved_pages[q] = state_file[q]
        BY <1>9, <2>1, <3>4 DEF RestoredSoFar
      <4>2. q # page
        BY <3>1, <3>2, <3>4
      <4> QED BY <1>4, <2>1, <2>2, <3>2, <4>1, <4>2 DEF Memories
    <3>5. CASE q = page
      BY <1>4, <1>8, <2>1, <2>2, <3>2, <3>5 DEF Memories
    <3> QED BY <3>3, <3>4, <3>5
  <2>6. SavedSoFar' /\ RestoredSoFar' /\ RestoredOnce'
    BY <1>9, <2>1, <2>5 DEF SavedSoFar, RestoredSoFar, RestoredOnce
  <2> QED BY <1>2, <1>3, <1>11, <2>1, <2>2, <2>4, <2>6
\* The file that is restored is complete unless torn, so each of its pages is
\* that of the snapshot; and it has them all.
<1>16. CASE Warm!Restored
  <2>1. /\ process = "restoring" /\ page > PAGES_TO_SAVE
        /\ process' = "running" /\ message' = "memory state restored"
        /\ UNCHANGED <<restored, saved_pages, page, state_file, snapshot, torn,
                       save_state_flag, warm_boot_flag>>
    BY <1>16 DEF Warm!Restored, Warm!file, Warm!flags
  <2>2. state_file # <<>>
        /\ \A p \in DOMAIN state_file : p < page => saved_pages[p] = state_file[p]
    BY <1>9, <2>1 DEF RestoredSoFar
  <2>3. torn \/ saved_pages = snapshot
    <3> SUFFICES ASSUME ~torn PROVE saved_pages = snapshot
      OBVIOUS
    <3>1. state_file = snapshot /\ DOMAIN state_file = Saves
      BY <1>4, <1>9, <2>2 DEF FileComplete, Memories
    <3>2. \A p \in Saves : p < page
      <4>1. page > PAGES_TO_SAVE
        BY <2>1
      <4> QED BY <1>0, <1>5, <4>1 DEF Saves
    <3>3. \A p \in Saves : saved_pages[p] = snapshot[p]
      BY <2>2, <3>1, <3>2
    <3> QED BY <1>4, <3>3 DEF Memories
  <2>4. restored
    BY <1>9, <2>1 DEF RestoredSoFar
  <2>5. SavedSoFar' /\ RestoredSoFar' /\ RestoredOnce'
    BY <2>1, <2>3, <2>4 DEF SavedSoFar, RestoredSoFar, RestoredOnce
  <2>6. process' \in Processes /\ message' \in Messages
    BY <2>1 DEF Processes, Messages
  <2> QED BY <1>3, <1>4, <1>5, <1>11, <2>1, <2>5, <2>6
<1>17. CASE Warm!Halt
  <2>1. /\ process = "running" /\ process' \in {"saving", "none"} /\ page' = 1
        /\ UNCHANGED <<restored, saved_pages, message, state_file, snapshot, torn,
                       save_state_flag, warm_boot_flag>>
    BY <1>17 DEF Warm!Halt, Warm!file, Warm!flags
  <2>2. SavedSoFar' /\ RestoredSoFar' /\ RestoredOnce'
    <3>1. 1 .. page' - 1 = {}
      BY <2>1
    <3> QED BY <1>9, <2>1, <3>1 DEF SavedSoFar, RestoredSoFar, RestoredOnce
  <2>3. process' \in Processes
    BY <2>1 DEF Processes
  <2>4. page' \in 1 .. PAGES_TO_SAVE + 1
    BY <1>0, <2>1
  <2> QED BY <1>2, <1>3, <1>4, <1>11, <2>1, <2>2, <2>3, <2>4
<1>18. CASE Warm!SavePage
  <2>1. /\ process = "saving" /\ page <= PAGES_TO_SAVE
        /\ UNCHANGED <<restored, saved_pages, message, snapshot,
                       save_state_flag, warm_boot_flag>>
    BY <1>18 DEF Warm!SavePage, Warm!flags
  <2>2. CASE saved_pages[page] = NoPage
    <3>1. process' = "none" /\ UNCHANGED <<state_file, page, torn>>
      BY <1>18, <2>2 DEF Warm!SavePage
    <3>2. SavedSoFar' /\ RestoredSoFar' /\ RestoredOnce'
      BY <1>9, <2>1, <3>1 DEF SavedSoFar, RestoredSoFar, RestoredOnce
    <3>3. process' \in Processes
      BY <3>1 DEF Processes
    <3> QED BY <1>2, <1>3, <1>4, <1>5, <1>11, <2>1, <3>1, <3>2, <3>3
  <2>3. CASE saved_pages[page] # NoPage
    <3>1. /\ state_file' = [p \in 1 .. page \cup DOMAIN state_file |->
                              IF p = page THEN saved_pages[p] ELSE state_file[p]]
          /\ page' = page + 1 /\ torn' = TRUE /\ UNCHANGED process
      BY <1>18, <2>3 DEF Warm!SavePage
    <3>2. page \in Saves /\ page \in Nat /\ page' \in 1 .. PAGES_TO_SAVE + 1
      BY <1>0, <1>5, <2>1, <3>1 DEF Saves
    <3>3. \A p \in 1 .. page - 1 : p \in DOMAIN state_file /\ state_file[p] = saved_pages[p]
      BY <1>9, <2>1 DEF SavedSoFar
    <3>4. PICK m \in 0 .. PAGES_TO_SAVE : 1 .. page \cup DOMAIN state_file = 1 .. m
      <4>1. CASE n < page
        <5>1. 1 .. page \cup 1 .. n = 1 .. page /\ page \in 0 .. PAGES_TO_SAVE
          BY <1>0, <1>7, <2>1, <3>2, <4>1
        <5> QED BY <1>8, <5>1
      <4>2. CASE ~(n < page)
        <5>1. 1 .. page \cup 1 .. n = 1 .. n
          BY <1>7, <3>2, <4>2
        <5> QED BY <1>6, <1>8, <5>1
      <4> QED BY <4>1, <4>2
    <3>5. \A p \in 1 .. m : p # page => p \in DOMAIN state_file
      <4>1. \A p \in 1 .. page : p # page => p \in 1 .. page - 1
        BY <3>2
      <4> QED BY <3>3, <3>4, <4>1
    <3>6. saved_pages[page] \in Filed
      BY <1>4, <2>3, <3>2 DEF Memories, Filed
    <3>7. state_file' \in [1 .. m -> Filed]
      BY <1>8, <3>1, <3>4, <3>5, <3>6
    <3>8. FileOK'
      BY <3>4, <3>7 DEF FileOK
    <3>9. SavedSoFar'
      <4> SUFFICES ASSUME NEW p \in 1 .. page' - 1
                   PROVE  p \in DOMAIN state_file' /\ state_file'[p] = saved_pages[p]
        BY <2>1 DEF SavedSoFar
      <4>1. p \in 1 .. page /\ (p # page => p \in 1 .. page - 1)
        BY <3>1, <3>2
      <4> QED BY <3>1, <3>3, <4>1
    <3>10. process' \in Processes /\ message' \in Messages
      BY <1>2, <2>1, <3>1
    <3>11. Warm!TypeOK'
      BY <1>3, <1>4, <1>10, <2>1, <3>1, <3>2, <3>8, <3>10
    <3>12. FileComplete' /\ RestoredSoFar' /\ RestoredOnce'
      BY <1>9, <2>1, <3>1 DEF FileComplete, RestoredSoFar, RestoredOnce
    <3> QED BY <3>8, <3>9, <3>11, <3>12 DEF WarmInv
  <2> QED BY <2>2, <2>3
\* Every page is in the file, as it is in memory, and the file has no other.
<1>19. CASE Warm!Saved
  <2>1. /\ process = "saving" /\ page > PAGES_TO_SAVE
        /\ process' = "none" /\ message' = "memory state saved"
        /\ snapshot' = saved_pages /\ torn' = FALSE
        /\ UNCHANGED <<restored, saved_pages, page, state_file,
                       save_state_flag, warm_boot_flag>>
    BY <1>19 DEF Warm!Saved, Warm!flags
  <2>2. \A p \in Saves : p \in 1 .. page - 1
    <3>1. page > PAGES_TO_SAVE
      BY <2>1
    <3> QED BY <1>0, <1>5, <3>1 DEF Saves
  <2>3. \A p \in Saves : p \in DOMAIN state_file /\ state_file[p] = saved_pages[p]
    BY <1>9, <2>1, <2>2 DEF SavedSoFar
  <2>4. DOMAIN state_file = Saves
    BY <1>0, <1>7, <1>8, <2>3 DEF Saves
  <2>5. state_file = saved_pages
    BY <1>4, <1>6, <1>8, <2>3, <2>4 DEF Memories
  <2>6. FileOK'
    BY <1>6, <2>1 DEF FileOK
  <2>7. process' \in Processes /\ message' \in Messages
    BY <2>1 DEF Processes, Messages
  <2>8. Warm!TypeOK'
    BY <1>3, <1>4, <1>5, <1>10, <2>1, <2>6, <2>7
  <2> QED
    BY <2>1, <2>5, <2>6, <2>8
    DEF WarmInv, FileComplete, SavedSoFar, RestoredSoFar, RestoredOnce
<1>20. CASE Warm!Interrupt
  <2>1. /\ process' = "none" /\ message' = "^C"
        /\ UNCHANGED <<restored, saved_pages, page, state_file, snapshot, torn,
                       save_state_flag, warm_boot_flag>>
    BY <1>20 DEF Warm!Interrupt, Warm!file, Warm!flags
  <2>2. SavedSoFar' /\ RestoredSoFar' /\ RestoredOnce'
    BY <2>1 DEF SavedSoFar, RestoredSoFar, RestoredOnce
  <2>3. process' \in Processes /\ message' \in Messages
    BY <2>1 DEF Processes, Messages
  <2> QED BY <1>3, <1>4, <1>5, <1>11, <2>1, <2>2, <2>3
<1>21. CASE UNCHANGED warmVars
  <2>1. UNCHANGED <<process, save_state_flag, warm_boot_flag, restored, saved_pages,
                   page, state_file, message, snapshot, torn>>
    BY <1>21 DEF warmVars
  <2>2. SavedSoFar' /\ RestoredSoFar' /\ RestoredOnce'
    BY <1>9, <2>1 DEF SavedSoFar, RestoredSoFar, RestoredOnce
  <2> QED BY <1>2, <1>3, <1>4, <1>5, <1>11, <2>1, <2>2
<1> QED
  BY <1>12, <1>13, <1>14, <1>15, <1>16, <1>17, <1>18, <1>19, <1>20, <1>21
  DEF Warm!Next, Saves, Filed, Warm!Numbers

\* A memory that was saved completely, by a save that no other followed, is
\* restored exactly (save_state and restore_state of mem.c), whatever runs,
\* failures and interruptions came in between.
THEOREM CompleteSavesRestore == Warm!Init /\ [][Warm!Next]_warmVars => []CompleteSaveRestores
<1>1. WarmInv /\ [Warm!Next]_warmVars => WarmInv'
  BY WarmInductive
<1>2. WarmInv => CompleteSaveRestores
  BY DEF WarmInv, RestoredOnce, CompleteSaveRestores, Warm!CompleteSaveRestores
<1> QED BY WarmStarts, <1>1, <1>2, PTL

\* The memory that the run checks, in which the machine runs or is saved and
\* restored, keeps all three promises.
THEOREM MemoryKeepsPromises ==
  MemorySpec => []MappedPageExists /\ ReadsLastWritten /\ []CompleteSaveRestores
<1>1. MemorySpec => Spec
  <2>1. [MemoryNext]_memoryVars => [Next]_vars
    BY DEF MemoryNext, memoryVars
  <2> QED BY <2>1, PTL DEF MemorySpec, MemoryInit, Spec
<1>2. MemorySpec => Warm!Init /\ [][Warm!Next]_warmVars
  <2>1. [MemoryNext]_memoryVars => [Warm!Next]_warmVars
    BY DEF MemoryNext, memoryVars
  <2> QED BY <2>1, PTL DEF MemorySpec, MemoryInit
<1> QED BY <1>1, <1>2, MappedPagesExist, MemoryIsCoherent, CompleteSavesRestore, PTL
=============================================================================
