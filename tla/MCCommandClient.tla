--------------------------- MODULE MCCommandClient ---------------------------
(* Instance of CommandClient for TLC: constants are given in the .cfg files. *)
EXTENDS CommandClient
=============================================================================
