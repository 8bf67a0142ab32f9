------------------------------ MODULE IoBoard ------------------------------
(***************************************************************************)
(* The parts of the I/O board side by side: the console (keyboard, mouse   *)
(* buttons and window), the motion of the mouse, the microsecond clock and *)
(* the translation of keys.  They share no state, so a behaviour in which  *)
(* several take steps is made up of behaviours in which one does: `part'   *)
(* names it, and the others rest.                                          *)
(***************************************************************************)
EXTENDS Console, MouseTracking, UsClock, KeyTranslation

VARIABLE part

boardVars == <<consoleVars, mouseVars, clockVars, pressed, part>>

BoardInit ==
  /\ part \in {"console", "mouse", "clock", "keys"}
  /\ ConsoleInit /\ MouseInit /\ ClockInit /\ KeysInit
  /\ part # "mouse" => cursor = 0
  /\ part # "clock" => clock.us = 0

BoardNext ==
  /\ UNCHANGED part
  /\ \/ part = "console" /\ ConsoleNext /\ UNCHANGED <<mouseVars, clockVars, pressed>>
     \/ part = "mouse" /\ MouseNext /\ UNCHANGED <<consoleVars, clockVars, pressed>>
     \/ part = "clock" /\ ClockNext /\ UNCHANGED <<consoleVars, mouseVars, pressed>>
     \/ part = "keys" /\ KeysNext /\ UNCHANGED <<consoleVars, mouseVars, clockVars>>

\* The fairness of the console, as far as it runs.
Scheduled(action) ==
  /\ part = "console" /\ action
  /\ UNCHANGED <<mouseVars, clockVars, pressed, part>>

BoardSpec ==
  /\ BoardInit /\ [][BoardNext]_boardVars
  /\ SF_boardVars(Scheduled(EndOfConsoleEvents)) /\ WF_boardVars(Scheduled(Expose))
  /\ WF_boardVars(Scheduled(PollConsole))
  /\ SF_boardVars(Scheduled(ReadKbdLow /\ UNCHANGED window))
  /\ SF_boardVars(Scheduled(ReadKbdHigh /\ UNCHANGED window))
=============================================================================
