----------------------------- MODULE DiskTools -----------------------------
(***************************************************************************)
(* The three programs that work on disks and partitions outside of the     *)
(* emulator: diskmaker, which makes the packs the emulator runs on and     *)
(* extracts partitions from them, lmfs, which extracts files from a file   *)
(* system partition, and lod, which looks into load bands and swap space.  *)
(* They share no state but the images, which the last two only read: `part'*)
(* names the program that a behaviour is about.                            *)
(***************************************************************************)
EXTENDS DiskPack, FileSystem, BandReader

VARIABLE part

toolVars == <<vars, fsVars, bandVars, part>>

ToolsInit ==
  /\ part \in {"diskmaker", "lmfs", "lod"}
  /\ Init /\ FsInit /\ BandInit
  /\ part # "diskmaker" => template = CHOOSE t \in Templates : TRUE
  /\ part # "lmfs" => item = [kind |-> "file", start |-> 0] /\ left = 0
  /\ part # "lod" => files = {"band"} /\ headers = {}

ToolsNext ==
  /\ UNCHANGED part
  /\ \/ part = "diskmaker" /\ Next /\ UNCHANGED <<fsVars, bandVars>>
     \/ part = "lmfs" /\ FsNext /\ UNCHANGED <<vars, bandVars>>
     \/ part = "lod" /\ BandNext /\ UNCHANGED <<vars, fsVars>>

ToolsSpec == ToolsInit /\ [][ToolsNext]_toolVars
=============================================================================
