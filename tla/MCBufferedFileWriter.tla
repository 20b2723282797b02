----------------------- MODULE MCBufferedFileWriter -----------------------
(***************************************************************************)
(* Instances of BufferedFileWriter for TLC: two files, so that the order   *)
(* within each and the mix of both are distinguished.                      *)
(***************************************************************************)
EXTENDS BufferedFileWriter

MCStop == [file |-> "none", id |-> 0]
MCFiles == {"a", "b"}
MCBlocks == [file : MCFiles, id : {1}]
=============================================================================
