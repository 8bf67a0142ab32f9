---------------------------- MODULE MCDiskTools ----------------------------
(* Two packs of three partitions: the files of both bands are one block too   *)
(* long, that of the file system is missing.  Files and directories of three  *)
(* records of two blocks, which hold two entries and a byte (1008 bytes hold  *)
(* a number of entries and a rest).  A band of three blocks of two words.     *)
EXTENDS DiskTools

Part(name, start, size, file) ==
  [name |-> name, start |-> start, size |-> size, file |-> file]

MCTemplates ==
  {[mcr |-> "MCR1", lod |-> "LOD1",
    parts |-> <<Part("MCR1", 1, 1, "ucadr"), Part("LOD1", 2, 1, "system"),
                Part("LOD2", 3, 2, NoFile)>>],
   [mcr |-> "MCR1", lod |-> "LOD2",
    parts |-> <<Part("MCR1", 1, 1, NoFile), Part("FILE", 2, 1, "missing"),
                Part("LOD2", 3, 1, "lmfs")>>]}
MCFileLength == [ucadr |-> 1, system |-> 2, lmfs |-> 2]
MCExports == {"LOD2"}
MCMcrNames == {"MCR1"}
=============================================================================
