------------------------------ MODULE Console ------------------------------
(***************************************************************************)
(* The console: the keyboard and mouse of Keyboard, and the window they    *)
(* share tv_poll with.  The microcode draws in tv_bitmap (tv.c) and        *)
(* accumulates the rectangle it has touched; x11_event (x11.c) first puts  *)
(* that rectangle into the window, then takes a key from the queue, and    *)
(* then handles the X events, Expose among them.                           *)
(*                                                                         *)
(* A cell is one word of the bitmap, 32 pixels of one line; only whether   *)
(* the window shows what the bitmap holds is kept of its contents.         *)
(***************************************************************************)
EXTENDS Keyboard

CONSTANTS Columns, Lines   \* words in a line (24 in the code), lines (897)

ASSUME ScreenAssumption == Columns \in Nat \ {0} /\ Lines \in Nat \ {0}

Cells == (0 .. Columns - 1) \X (0 .. Lines - 1)
Infinity == Columns + Lines     \* 0x7fffffff

VARIABLES
  u,          \* u_minh, u_maxh, u_minv, u_maxv: what the microcode touched
  stale,      \* cells that the window does not show as they are
  exposed     \* an Expose event waits

window == <<u, stale, exposed>>
consoleVars == <<vars, window>>

Nothing == [minh |-> Infinity, maxh |-> 0, minv |-> Infinity, maxv |-> 0]

\* x11_init clears the window and waits for its first Expose event; the bitmap
\* is zero, which is black, as well.
ConsoleInit ==
  /\ Init
  /\ u = Nothing
  /\ stale = {}
  /\ exposed = FALSE

Smaller(a, b) == IF a < b THEN a ELSE b
Larger(a, b) == IF a > b THEN a ELSE b

\* Mutated form of AccumulateUpdate.
AccumulateExclusive(h, v) ==
  u' = [minh |-> Smaller(h, u.minh), maxh |-> Larger(h, u.maxh),
        minv |-> Smaller(v, u.minv), maxv |-> Larger(v, u.maxv)]

AccumulateUpdate(h, v) ==
  u' = [minh |-> Smaller(h, u.minh), maxh |-> Larger(h + 1, u.maxh),
        minv |-> Smaller(v, u.minv), maxv |-> Larger(v + 1, u.maxv)]

\* tv_write: the word may make the cell look as the window shows it.
TvWrite(c) ==
  /\ pc = "cpu"
  /\ stale' \in {stale \cup {c}, stale \ {c}}
  /\ AccumulateUpdate(c[1], c[2])
  /\ UNCHANGED <<vars, exposed>>

Pending ==
  {c \in Cells : c[1] \in u.minh .. u.maxh - 1 /\ c[2] \in u.minv .. u.maxv - 1}

\* Mutated form of SendAccumulatedUpdates.
SendInsideOnly ==
  /\ IF u.minh # 0 /\ u.minv # 0
     THEN stale' = stale \ Pending /\ u' = Nothing
     ELSE UNCHANGED <<stale, u>>
  /\ UNCHANGED exposed

\* send_accumulated_updates
SendAccumulatedUpdates ==
  /\ stale' = IF u.minh # Infinity /\ u.minv # Infinity /\ u.maxh # 0 /\ u.maxv # 0
              THEN stale \ Pending ELSE stale
  /\ u' = Nothing
  /\ UNCHANGED exposed

\* x11_event up to the event loop.
PollConsole == SendAccumulatedUpdates /\ Poll

\* The X server (external): the window is covered and uncovered again.
Damage ==
  /\ stale' = Cells
  /\ exposed' = TRUE
  /\ UNCHANGED <<vars, u>>

\* Expose: the whole image is put.
Expose ==
  /\ pc = "events"
  /\ exposed
  /\ exposed' = FALSE
  /\ stale' = {}
  /\ UNCHANGED <<vars, u>>

\* The loop goes on until there are no more events.
EndOfConsoleEvents == ~exposed /\ EndOfEvents /\ UNCHANGED window

KeyboardOnly ==
  /\ KeyPress \/ MouseEvent \/ ReadKbdLow \/ ReadKbdHigh \/ ReadMouseY \/ WriteCsr
  /\ UNCHANGED window

ConsoleNext ==
  \/ \E c \in Cells : TvWrite(c)
  \/ PollConsole \/ Damage \/ Expose \/ EndOfConsoleEvents
  \/ KeyboardOnly

(***************************************************************************)
(* The microcode loop keeps polling, a burst of events is handled and      *)
(* ends, and the driver answers an announced key.                          *)
(***************************************************************************)
ConsoleFairness ==
  /\ SF_consoleVars(EndOfConsoleEvents) /\ WF_consoleVars(Expose)
  /\ WF_consoleVars(PollConsole)
  /\ SF_consoleVars(ReadKbdLow /\ UNCHANGED window)
  /\ SF_consoleVars(ReadKbdHigh /\ UNCHANGED window)

ConsoleSpec == ConsoleInit /\ [][ConsoleNext]_consoleVars /\ ConsoleFairness

-----------------------------------------------------------------------------
(***************************************************************************)
(* What the microcode draws between polls, in whatever order, grows one    *)
(* rectangle, which is put and forgotten as a whole (x11.c:219-251): every *)
(* cell that the window does not show lies in it or awaits an Expose       *)
(* event.                                                                  *)
(***************************************************************************)
StaleCovered == exposed \/ stale \subseteq Pending

(***************************************************************************)
(* So the window comes to show the bitmap, whatever other windows do to    *)
(* this one.                                                               *)
(***************************************************************************)
WindowCatchesUp == stale # {} ~> stale = {}
=============================================================================
