----------------------------- MODULE MCIoBoard -----------------------------
(* A queue of 2 (10 in the code) and 4 keys: the ring fills, overflows and *)
(* wraps, and keys are typed with announcements on and off; a window of    *)
(* one line of 2 words.  A mouse with 3 positions, whose counter wraps at  *)
(* 8.  A clock whose halves have 3 values, seconds of 2 microseconds, and  *)
(* two programs that read it.                                              *)
EXTENDS IoBoard
=============================================================================
