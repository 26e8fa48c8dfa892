--------------------------- MODULE MCSharedQueue ---------------------------
(* SharedQueue for TLC; its constants are numbers, given in the .cfg files.   *)
EXTENDS SharedQueue
=============================================================================
