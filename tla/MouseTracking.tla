--------------------------- MODULE MouseTracking ---------------------------
(***************************************************************************)
(* One axis of the mouse.  The window delivers absolute positions, the     *)
(* hardware of a CADR counts relative motion: iob_mouse_event (mouse.c)    *)
(* moves the counter by the distance from the cursor, which it looks up in *)
(* the microcode's A memory, to the pointer.  The microcode's tracking     *)
(* (external) adds what the counter has moved since it last looked to the  *)
(* cursor, and keeps the cursor on the screen.                             *)
(***************************************************************************)
EXTENDS Integers

CONSTANTS
  Width,       \* positions on the screen, 768 in the code
  Modulus,     \* the counter as the Unibus shows it, 010000 in the code
  MaxUntracked \* bound: events between two looks of the microcode

ASSUME MouseAssumption ==
  Width \in Nat \ {0} /\ MaxUntracked \in Nat /\ Modulus \in Nat /\ Modulus >= 2 * Width

VARIABLES
  mouse_x,     \* the counter, modulo Modulus
  pointer,     \* position in the last event
  cursor,      \* A-MOUSE-CURSOR-X
  looked,      \* the counter when the microcode last looked
  untracked    \* events since then

mouseVars == <<mouse_x, pointer, cursor, looked, untracked>>

Positions == 0 .. Width - 1

MouseInit ==
  /\ mouse_x = 0 /\ looked = 0 /\ untracked = 0
  /\ cursor \in Positions /\ pointer = cursor

\* Mutated form of Moved.
MovedAfresh(x) == (x - cursor) % Modulus

Moved(x) == (mouse_x + x - cursor) % Modulus

\* iob_mouse_event
MouseMoves ==
  /\ untracked < MaxUntracked
  /\ untracked' = untracked + 1
  /\ pointer' \in Positions
  /\ mouse_x' = Moved(pointer')
  /\ UNCHANGED <<cursor, looked>>

Signed(n) == IF n >= Modulus \div 2 THEN n - Modulus ELSE n

OnScreen(x) == IF x < 0 THEN 0 ELSE IF x >= Width THEN Width - 1 ELSE x

\* A read of Unibus 0106.
Track ==
  /\ cursor' = OnScreen(cursor + Signed((mouse_x - looked) % Modulus))
  /\ looked' = mouse_x
  /\ untracked' = 0
  /\ UNCHANGED <<mouse_x, pointer>>

MouseNext == MouseMoves \/ Track

-----------------------------------------------------------------------------
(***************************************************************************)
(* The cursor follows the pointer: when the microcode looks after a single *)
(* event, the cursor is where the pointer is, wherever the cursor was and  *)
(* whatever events it had missed before.  (After two or more events the    *)
(* cursor overshoots, for each counted the whole distance; it stays there  *)
(* until the mouse moves again.)                                           *)
(***************************************************************************)
CursorFollows == [][untracked = 1 /\ untracked' = 0 => cursor' = pointer']_mouseVars
=============================================================================
