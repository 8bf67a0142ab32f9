------------------------------ MODULE MCSpyBus ------------------------------
(* Registers of two digits and instructions of two registers (4 and 3 in   *)
(* the code), one empty read before a request is repeated (5 in the code), *)
(* and three faults.  One instruction has a register of zeros and ends in  *)
(* the digit 2, the clock's step bit.                                      *)
EXTENDS SpyBus

MCInstructions == {<< <<0, 0>>, <<3, 2>> >>}
MCImem == << <<5, 5>>, <<5, 5>> >>
MCValues == {<< <<0, 7>>, <<7, 1>> >>}
=============================================================================
