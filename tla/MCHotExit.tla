------------------------------ MODULE MCHotExit ------------------------------
(* Instance of HotExit for TLC: constants are given in the .cfg files.     *)
EXTENDS HotExit
=============================================================================
