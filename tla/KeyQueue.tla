------------------------------ MODULE KeyQueue ------------------------------
(***************************************************************************)
(* What kbd.c promises of its key queue: a first-in first-out buffer of    *)
(* bounded length in front of the keyboard scan register.  A key that      *)
(* arrives is queued, or shown in the register at once, or, when the queue *)
(* is full, discarded.  The register shows queued keys oldest first.       *)
(***************************************************************************)
EXTENDS Integers, Sequences

CONSTANTS Keys, NoKey, Capacity

VARIABLES queue, register

qvars == <<queue, register>>

Init == queue = <<>> /\ register = NoKey

Put(k) ==
  /\ Len(queue) < Capacity
  /\ queue' = Append(queue, k)
  /\ UNCHANGED register

Show(k) == register' = k /\ UNCHANGED queue

Advance ==
  /\ queue # <<>>
  /\ register' = Head(queue)
  /\ queue' = Tail(queue)

Next == Advance \/ \E k \in Keys : Put(k) \/ Show(k)

Spec == Init /\ [][Next]_qvars
=============================================================================
