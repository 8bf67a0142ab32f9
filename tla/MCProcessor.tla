---------------------------- MODULE MCProcessor ----------------------------
(* The four parts of run() that have nothing in common but its loop: a     *)
(* behaviour is of one of them, and the others stay as they begin.  The    *)
(* pipeline: targets with and without bit 1 set, a ring of two words, and  *)
(* control memory of six, of which one may be written once.  The           *)
(* instruction stream: three words of four bytes; LC is written with an    *)
(* address in the middle and with one near the end.  The programs: words   *)
(* of four bits, all operands.  The PDL buffer: three words, which hold    *)
(* the addresses and the number below them.                                *)
EXTENDS ControlStore, MacroFetch, MicroPrograms, PdlBuffer

VARIABLE part

MCTargets == {1, 3}
MCLcValues == {3, 8}
MCReadWords == {2}
MCControls == {1, 10}
MCPdlWords == -1 .. 2
MCAddends == {-1, 0, 1}

allVars == <<storeVars, fetchVars, programVars, pdlVars, part>>

MCInit ==
  /\ part \in {"pipeline", "stream", "programs", "pdl"}
  /\ StoreInit /\ FetchInit /\ PdlInit
  /\ ProgramsInit
  /\ part # "programs" => program = [kind |-> "multiply"] /\ a = {} /\ q = {}

MCNext ==
  /\ UNCHANGED part
  /\ \/ /\ part = "pipeline" /\ StoreNext
        /\ UNCHANGED <<fetchVars, programVars, pdlVars>>
     \/ /\ part = "stream" /\ FetchNext
        /\ UNCHANGED <<storeVars, programVars, pdlVars>>
     \/ /\ part = "programs" /\ ProgramsNext
        /\ UNCHANGED <<storeVars, fetchVars, pdlVars>>
     \/ /\ part = "pdl" /\ PdlNext
        /\ UNCHANGED <<storeVars, fetchVars, programVars>>

MCSpec == MCInit /\ [][MCNext]_allVars
=============================================================================
