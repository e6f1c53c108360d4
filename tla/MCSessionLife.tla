---------------------------- MODULE MCSessionLife ----------------------------
(* Instance of SessionLife for TLC: constants are given in the .cfg files. *)
EXTENDS SessionLife
=============================================================================
