------------------------------ MODULE UsClock ------------------------------
(***************************************************************************)
(* The I/O board's microsecond clock (iob.c).  Software reads it in two    *)
(* halves, Unibus 0120 and then 0122; a read of the low half latches the   *)
(* whole count in cv, and the high half is that of the latch.  Any number  *)
(* of programs read it, and one may be interrupted between its two reads   *)
(* by another.                                                             *)
(***************************************************************************)
EXTENDS Integers

CONSTANTS
  Half,         \* values of a half of the count, 2^16 in the code
  Second,       \* microseconds in a second
  MaxSeconds,   \* bound: seconds that pass
  Readers       \* programs that read the clock

ASSUME ClockAssumption ==
  Half \in Nat \ {0} /\ Second \in Nat \ {0} /\ MaxSeconds \in Nat \ {0}

VARIABLES
  clock,        \* time of day (external): seconds and microseconds
  tv,           \* time of the first read; no seconds before there was one
  cv,           \* the latch
  low,          \* reader -> low half it holds, and when it read it
  result        \* the last count put together, and how

clockVars == <<clock, tv, cv, low, result>>

None == [half |-> -1]

ClockInit ==
  /\ \E us \in 0 .. Second - 1 : clock = [s |-> 1, us |-> us]
  /\ tv = [s |-> 0, us |-> 0]
  /\ cv = 0
  /\ low = [r \in Readers |-> None]
  /\ result = [count |-> 0, from |-> 0, latched |-> 0, alone |-> TRUE]

\* Mutated form of GetUsClock.
GetUsClockWithoutBorrow ==
  IF tv.s = 0 THEN 0
  ELSE (clock.s - tv.s) * Second +
       (IF clock.us < tv.us THEN clock.us - tv.us + Second ELSE clock.us - tv.us)

\* get_us_clock
GetUsClock ==
  IF tv.s = 0 THEN 0
  ELSE LET borrow == clock.us < tv.us
           ds == (IF borrow THEN clock.s - 1 ELSE clock.s) - tv.s
           du == (IF borrow THEN clock.us + Second ELSE clock.us) - tv.us
       IN  ds * Second + du

Ticks(t) == t.s * Second + t.us

\* Microseconds since the first read.
Elapsed == IF tv.s = 0 THEN 0 ELSE Ticks(clock) - Ticks(tv)

Pass ==
  /\ clock.s <= MaxSeconds
  /\ clock' = IF clock.us = Second - 1 THEN [s |-> clock.s + 1, us |-> 0]
              ELSE [clock EXCEPT !.us = @ + 1]
  /\ UNCHANGED <<tv, cv, low, result>>

\* get_us_clock_low
ReadClockLow(r) ==
  /\ cv' = GetUsClock
  /\ tv' = IF tv.s = 0 THEN clock ELSE tv
  /\ low' = [q \in Readers |->
               IF q = r THEN [half |-> cv' % Half, at |-> Elapsed, alone |-> TRUE]
               ELSE IF low[q] = None THEN None ELSE [low[q] EXCEPT !.alone = FALSE]]
  /\ result' = [result EXCEPT !.latched = Elapsed]
  /\ UNCHANGED clock

\* get_us_clock_high: the count is complete.
ReadClockHigh(r) ==
  /\ low[r] # None
  /\ result' = [count |-> (cv \div Half) * Half + low[r].half, from |-> low[r].at,
                latched |-> result.latched, alone |-> low[r].alone]
  /\ low' = [low EXCEPT ![r] = None]
  /\ UNCHANGED <<clock, tv, cv>>

ClockNext == Pass \/ \E r \in Readers : ReadClockLow(r) \/ ReadClockHigh(r)

-----------------------------------------------------------------------------
(***************************************************************************)
(* A count put together from two halves is the time at which its low half  *)
(* was read, unless another program read the clock in between; then it is  *)
(* never behind that time, and ahead of the later read by less than one    *)
(* unit of the high half.  Holds across every borrow and every carry       *)
(* between the halves.                                                     *)
(***************************************************************************)
ClockReadsTime ==
  /\ result.alone => result.count = result.from
  /\ result.count >= result.from
  /\ result.count < result.latched + Half
=============================================================================
