---------------------------- MODULE MCBufferSave ----------------------------
(* Instance of BufferSave for TLC: constants are given in the .cfg files.  *)
(* Tabs and jobs are only ever compared for equality, so the states that   *)
(* differ in their names are one; used where no liveness is checked.       *)
EXTENDS BufferSave

LOCAL INSTANCE TLC

Symmetry == Permutations(Tabs) \cup Permutations(Jobs)
=============================================================================
