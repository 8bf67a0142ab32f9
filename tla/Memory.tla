------------------------------- MODULE Memory -------------------------------
(***************************************************************************)
(* The memory of the machine, and the saving and restoring of its first    *)
(* pages by processes that come after one another.  The two share the      *)
(* physical pages, but a page is saved and restored as a whole, when the   *)
(* machine is halted or before it has run: a behaviour is about the one or *)
(* about the other (`part').                                               *)
(***************************************************************************)
EXTENDS VirtualMemory

CONSTANTS
  PAGES_TO_SAVE,    \* 8192 in the code
  MaxRuns           \* bound: processes started

ASSUME WarmAssumption == PAGES_TO_SAVE \in Nat \ {0}

VARIABLES
  process, save_state_flag, warm_boot_flag, restored, saved_pages, page, state_file,
  message, runs, snapshot, torn, part

Warm == INSTANCE WarmState
          WITH phy_pages <- saved_pages, Pages <- PAGES_TO_SAVE, Contents <- Values

warmVars == <<process, save_state_flag, warm_boot_flag, restored, saved_pages, page,
              state_file, message, runs, snapshot, torn>>
memoryVars == <<vars, warmVars, part>>

MemoryInit == Init /\ Warm!Init /\ part \in {"virtual", "warm"}

MemoryNext ==
  /\ UNCHANGED part
  /\ \/ part = "virtual" /\ Next /\ UNCHANGED warmVars
     \/ part = "warm" /\ Warm!Next /\ UNCHANGED vars

MemorySpec == MemoryInit /\ [][MemoryNext]_memoryVars

\* A memory saved completely is restored exactly: see WarmState (mem.c:190-263).
CompleteSaveRestores == Warm!CompleteSaveRestores
=============================================================================
