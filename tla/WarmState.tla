----------------------------- MODULE WarmState -----------------------------
(***************************************************************************)
(* Saving the memory of a halted machine in usim.state and restoring it in *)
(* a later process: save_state and restore_state of mem.c, their calls in  *)
(* ucode.c, and the life of the process (usim.c).  Pages are written and   *)
(* read one after the other; the process can be interrupted in between.    *)
(***************************************************************************)
EXTENDS Naturals, Sequences

CONSTANTS
  Pages,            \* PAGES_TO_SAVE (8192)
  Contents,         \* what a page may hold
  Garbage, NoPage,  \* an uninitialised page; a page that does not exist: neither
                    \* is among Contents
  MaxRuns           \* bound: processes started

VARIABLES
  process,          \* "none", "prom", "running", "restoring" or "saving"
  save_state_flag, warm_boot_flag, restored,
  phy_pages,        \* 1 .. Pages -> Contents, Garbage or NoPage
  page,             \* the page that is saved or restored next
  state_file,       \* the pages of usim.state, or <<>> when there is none
  message,          \* what the terminal showed last
  runs,
  snapshot,         \* history: memory as of the last "memory state saved"
  torn              \* history: usim.state was written to since without that

vars == <<process, save_state_flag, warm_boot_flag, restored, phy_pages, page,
          state_file, message, runs, snapshot, torn>>

Numbers == 1 .. Pages
NoMemory == [p \in Numbers |-> NoPage]

TypeOK ==
  /\ process \in {"none", "prom", "running", "restoring", "saving"}
  /\ save_state_flag \in BOOLEAN /\ warm_boot_flag \in BOOLEAN /\ restored \in BOOLEAN
  /\ phy_pages \in [Numbers -> Contents \cup {Garbage, NoPage}]
  /\ page \in 1 .. Pages + 1
  /\ Len(state_file) <= Pages
  /\ \A p \in DOMAIN state_file : state_file[p] \in Contents \cup {Garbage}
  /\ message \in {"", "^C", "memory state saved", "memory state restored"}
  /\ snapshot \in [Numbers -> Contents \cup {Garbage, NoPage}]
  /\ torn \in BOOLEAN

Init ==
  /\ process = "none"
  /\ save_state_flag = FALSE /\ warm_boot_flag = FALSE /\ restored = FALSE
  /\ phy_pages = NoMemory /\ page = 1 /\ state_file = <<>> /\ message = ""
  /\ runs = 0 /\ snapshot = NoMemory /\ torn = FALSE

flags == <<save_state_flag, warm_boot_flag>>
file == <<state_file, snapshot, torn>>

-----------------------------------------------------------------------------
\* usim -S, usim -w; run() makes page 0.
Start(save, warm) ==
  /\ process = "none" /\ runs < MaxRuns
  /\ process' = "prom" /\ runs' = runs + 1
  /\ save_state_flag' = save /\ warm_boot_flag' = warm /\ restored' = FALSE
  /\ \E v \in Contents : phy_pages' = [NoMemory EXCEPT ![1] = v]
  /\ page' = 1 /\ message' = ""
  /\ UNCHANGED file

\* The machine maps a page, which is not cleared, or writes to one, by itself
\* or by its disk.
Run(p, v) ==
  /\ process \in {"prom", "running"}
  /\ v = Garbage => phy_pages[p] = NoPage
  /\ phy_pages' = [phy_pages EXCEPT ![p] = v]
  /\ message' = ""
  /\ UNCHANGED <<process, flags, restored, page, file, runs>>

\* Microcode writes to the spy register that disables the PROM: that is when a
\* warm boot restores memory, once.
DisableProm ==
  /\ process \in {"prom", "running"}
  /\ restored' = (restored \/ warm_boot_flag)
  /\ IF warm_boot_flag /\ ~restored /\ state_file # <<>>
     THEN process' = "restoring" /\ page' = 1
     ELSE process' = "running" /\ UNCHANGED page
  /\ UNCHANGED <<flags, phy_pages, file, message, runs>>

\* Mutated form of RestorePage.
RestoreSkipsPresent ==
  /\ process = "restoring" /\ page <= Pages
  /\ phy_pages' =
       [phy_pages EXCEPT ![page] =
          IF page <= Len(state_file) /\ @ = NoPage THEN state_file[page] ELSE @]
  /\ page' = page + 1
  /\ UNCHANGED <<process, flags, restored, file, message, runs>>

\* Reading past the end of the file reads nothing and is no error.
RestorePage ==
  /\ process = "restoring" /\ page <= Pages
  /\ phy_pages' =
       [phy_pages EXCEPT ![page] =
          IF page <= Len(state_file) THEN state_file[page]
          ELSE IF @ = NoPage THEN Garbage ELSE @]
  /\ page' = page + 1
  /\ UNCHANGED <<process, flags, restored, file, message, runs>>

Restored ==
  /\ process = "restoring" /\ page > Pages
  /\ process' = "running" /\ message' = "memory state restored"
  /\ UNCHANGED <<flags, restored, phy_pages, page, file, runs>>

\* A jump halts the machine and run() ends.
Halt ==
  /\ process = "running"
  /\ process' = IF save_state_flag THEN "saving" ELSE "none"
  /\ page' = 1
  /\ UNCHANGED <<flags, restored, phy_pages, file, message, runs>>

\* The file is opened without truncating it; writing a page that does not
\* exist is an error and ends the save.  (The two bytes of the version, which
\* come first, are taken together with the first page.)
SavePage ==
  /\ process = "saving" /\ page <= Pages
  /\ IF phy_pages[page] = NoPage
     THEN process' = "none" /\ UNCHANGED <<state_file, page, torn>>
     ELSE /\ state_file' = [p \in 1 .. page \cup DOMAIN state_file |->
                              IF p = page THEN phy_pages[p] ELSE state_file[p]]
          /\ torn' = TRUE
          /\ page' = page + 1
          /\ UNCHANGED process
  /\ UNCHANGED <<flags, restored, phy_pages, message, runs, snapshot>>

Saved ==
  /\ process = "saving" /\ page > Pages
  /\ process' = "none" /\ message' = "memory state saved"
  /\ snapshot' = phy_pages /\ torn' = FALSE
  /\ UNCHANGED <<flags, restored, phy_pages, page, state_file, runs>>

\* No signal but the timer's is caught: C-c ends the process where it is.
Interrupt ==
  /\ process # "none"
  /\ process' = "none" /\ message' = "^C"
  /\ UNCHANGED <<flags, restored, phy_pages, page, file, runs>>

Next ==
  \/ \E save, warm \in BOOLEAN : Start(save, warm)
  \/ \E p \in Numbers, v \in Contents \cup {Garbage} : Run(p, v)
  \/ DisableProm \/ RestorePage \/ Restored
  \/ Halt \/ SavePage \/ Saved
  \/ Interrupt

Spec == Init /\ [][Next]_vars

-----------------------------------------------------------------------------
JustRestored == message = "memory state restored"

\* A memory that was saved completely, by a save that was not followed by one
\* that failed, is restored exactly, whatever the PROM had left in memory.
CompleteSaveRestores ==
  /\ TypeOK
  /\ JustRestored /\ ~torn => phy_pages = snapshot

\* "memory state restored" (mem.c:223) is said of a memory that was saved at
\* one time, never of a mixture.
RestoredIsSnapshot == JustRestored => phy_pages = snapshot
=============================================================================
