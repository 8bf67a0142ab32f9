--------------------------- MODULE VirtualMemory ---------------------------
(***************************************************************************)
(* The memory of the machine: the two-level map from virtual to physical   *)
(* pages (map_vtop), physical pages allocated when they are first mapped   *)
(* or transferred to (mem.c), and the faults that the processor's reads    *)
(* and writes report (read_mem and write_mem of ucode.c).                  *)
(*                                                                         *)
(* A page stands for each of its words: offsets pass through unchanged.    *)
(***************************************************************************)
EXTENDS Naturals

CONSTANTS
  L1Index,          \* bits 13-23 of a virtual address
  Blocks,           \* what an L1 entry holds: a block of the L2 map
  L2Offset,         \* bits 8-12 of a virtual address
  Ram,              \* physical pages below phys_ram_pages
  Absent,           \* pages up to 035777 that have no memory
  Devices,          \* pages decoded by a device
  Unused,           \* pages above 035777 that nothing decodes
  FrameBuffer,      \* virtual pages mapped to a device without the map
  Entries,          \* what microcode writes to the L2 map
  Values,           \* words written
  NoPage, Garbage, AllOnes, Zero, DeviceWord

Physical == Ram \cup Absent \cup Devices \cup Unused
Virtual == L1Index \X L2Offset
Contents == Values \cup {Garbage}

ASSUME MemoryAssumption ==
  /\ Ram # {} /\ Devices # {} /\ Blocks # {}
  /\ Ram \cap (Absent \cup Devices \cup Unused) = {}
  /\ Absent \cap (Devices \cup Unused) = {} /\ Devices \cap Unused = {}
  /\ FrameBuffer \subseteq Virtual
  /\ NoPage \notin Contents
  /\ Entries \subseteq [pn : Physical, access : BOOLEAN, write : BOOLEAN]

VARIABLES
  l1_map, l2_map,
  phy_pages,        \* physical page -> what it holds, or NoPage
  page_fault_flag, access_fault_bit, write_fault_bit,
  pv,               \* what was last read
  written           \* history: what was last written to a page

faults == <<page_fault_flag, access_fault_bit, write_fault_bit>>
vars == <<l1_map, l2_map, phy_pages, faults, pv, written>>

TypeOK ==
  /\ l1_map \in [L1Index -> Blocks]
  /\ l2_map \in [Blocks \X L2Offset -> [pn : Physical, access : BOOLEAN, write : BOOLEAN]]
  /\ phy_pages \in [Physical -> Contents \cup {NoPage}]
  /\ page_fault_flag \in BOOLEAN
  /\ access_fault_bit \in BOOLEAN
  /\ write_fault_bit \in BOOLEAN
  /\ pv \in Contents \cup {AllOnes, Zero, DeviceWord}
  /\ written \in [Physical -> Contents]

\* The maps are zero; run() has written a zero to page 0 (write_phy_mem).
Init ==
  \E first \in Ram, block \in Blocks, word \in Values :
    /\ l1_map = [i \in L1Index |-> block]
    /\ l2_map = [i \in Blocks \X L2Offset |->
                   [pn |-> first, access |-> FALSE, write |-> FALSE]]
    /\ phy_pages = [p \in Physical |-> IF p = first THEN word ELSE NoPage]
    /\ written = [p \in Physical |-> IF p = first THEN word ELSE Garbage]
    /\ page_fault_flag = FALSE /\ access_fault_bit = FALSE /\ write_fault_bit = FALSE
    /\ pv = Zero

-----------------------------------------------------------------------------
\* The frame buffers and the last page of XBUS registers bypass the map.
FrameBufferEntry == [pn |-> CHOOSE p \in Devices : TRUE, access |-> TRUE, write |-> TRUE]

map_vtop(virt) ==
  IF virt \in FrameBuffer THEN FrameBufferEntry
  ELSE l2_map[<<l1_map[virt[1]], virt[2]>>]

\* A new page is not cleared.
Added(pages, p) == IF pages[p] = NoPage THEN [pages EXCEPT ![p] = Garbage] ELSE pages

Fault(access, write) ==
  /\ page_fault_flag' = TRUE
  /\ access_fault_bit' = access
  /\ write_fault_bit' = write

NoFault ==
  page_fault_flag' = FALSE /\ access_fault_bit' = FALSE /\ write_fault_bit' = FALSE

read_mem(virt) ==
  LET pn == map_vtop(virt).pn
      access == map_vtop(virt).access
      present == phy_pages[pn] # NoPage
  IN /\ \/ ~access /\ Fault(TRUE, FALSE) /\ pv' = Zero
        \/ access /\ pn \in Ram \cup Unused /\ present
             /\ NoFault /\ pv' = phy_pages[pn]
        \/ access /\ pn \in Ram \cup Unused /\ ~present
             /\ Fault(FALSE, FALSE) /\ pv' = Zero
        \/ access /\ pn \in Absent /\ NoFault /\ pv' = AllOnes
        \/ access /\ pn \in Devices /\ NoFault /\ pv' = DeviceWord
     /\ UNCHANGED <<l1_map, l2_map, phy_pages, written>>

write_mem(virt, v) ==
  LET pn == map_vtop(virt).pn
      access == map_vtop(virt).access
      write == map_vtop(virt).write
      memory == pn \notin Devices
      present == phy_pages[pn] # NoPage
  IN /\ \/ ~access /\ Fault(TRUE, FALSE)
        \/ access /\ ~write /\ Fault(FALSE, TRUE)
        \/ access /\ write /\ memory /\ ~present /\ Fault(FALSE, FALSE)
        \/ access /\ write /\ (memory => present) /\ NoFault
     /\ IF access /\ write /\ memory /\ present
        THEN /\ phy_pages' = [phy_pages EXCEPT ![pn] = v]
             /\ written' = [written EXCEPT ![pn] = v]
        ELSE UNCHANGED <<phy_pages, written>>
     /\ UNCHANGED <<l1_map, l2_map, pv>>

\* Mutated form of write_map.
WriteMapAddsNoPage(virt, l1, block, l2, entry) ==
  /\ l1_map' = IF l1 THEN [l1_map EXCEPT ![virt[1]] = block] ELSE l1_map
  /\ l2_map' = IF l2 THEN [l2_map EXCEPT ![<<l1_map'[virt[1]], virt[2]>>] = entry]
               ELSE l2_map
  /\ UNCHANGED <<phy_pages, faults, pv, written>>

\* Destinations 023 and 033: MD names the virtual page, bits of VMA ask for
\* either map to be written, L1 first.
write_map(virt, l1, block, l2, entry) ==
  /\ l1_map' = IF l1 THEN [l1_map EXCEPT ![virt[1]] = block] ELSE l1_map
  /\ IF l2
     THEN /\ l2_map' = [l2_map EXCEPT ![<<l1_map'[virt[1]], virt[2]>>] = entry]
          /\ phy_pages' = Added(phy_pages, entry.pn)
     ELSE UNCHANGED <<l2_map, phy_pages>>
  /\ UNCHANGED <<faults, pv, written>>

\* The disk controller's transfers; above the RAM they fail.
read_phy_mem(pn) ==
  /\ phy_pages' = IF pn \in Ram THEN Added(phy_pages, pn) ELSE phy_pages
  /\ UNCHANGED <<l1_map, l2_map, faults, pv, written>>

\* Mutated form of write_phy_mem.
WritePhyMemAllocatesOnly(pn, v) ==
  /\ phy_pages' = IF pn \notin Ram THEN phy_pages
                  ELSE IF phy_pages[pn] = NoPage THEN Added(phy_pages, pn)
                  ELSE [phy_pages EXCEPT ![pn] = v]
  /\ written' = IF pn \in Ram THEN [written EXCEPT ![pn] = v] ELSE written
  /\ UNCHANGED <<l1_map, l2_map, faults, pv>>

write_phy_mem(pn, v) ==
  /\ IF pn \in Ram \/ phy_pages[pn] # NoPage
     THEN /\ phy_pages' = [phy_pages EXCEPT ![pn] = v]
          /\ written' = [written EXCEPT ![pn] = v]
     ELSE UNCHANGED <<phy_pages, written>>
  /\ UNCHANGED <<l1_map, l2_map, faults, pv>>

Next ==
  \/ \E virt \in Virtual : read_mem(virt) \/ \E v \in Values : write_mem(virt, v)
  \/ \E virt \in Virtual, l1, l2 \in BOOLEAN, block \in Blocks, entry \in Entries :
       write_map(virt, l1, block, l2, entry)
  \/ \E pn \in Physical : read_phy_mem(pn) \/ \E v \in Values : write_phy_mem(pn, v)

Spec == Init /\ [][Next]_vars

-----------------------------------------------------------------------------
\* Writing the L2 map allocates the page (ucode.c:674), so that every page
\* that can be reached through the map exists.
MappedPageExists ==
  \A virt \in Virtual \ FrameBuffer :
    map_vtop(virt).access => phy_pages[map_vtop(virt).pn] # NoPage

\* The processor and the disk share memory: through whatever page tables, a
\* read of RAM yields what was last written to the page, by either.
ReadsLastWritten ==
  [][\A virt \in Virtual \ FrameBuffer :
       read_mem(virt) /\ map_vtop(virt).access /\ map_vtop(virt).pn \in Ram
         => pv' = written[map_vtop(virt).pn]]_vars
=============================================================================
