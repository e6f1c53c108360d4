---------------------------- MODULE CheckedStore ----------------------------
(***************************************************************************)
(* What the documents promise of saving, without the machinery: one remote *)
(* file, and editors that may change it only while it still is what they   *)
(* last saw ("validate the remote resource version before saving").        *)
(***************************************************************************)
EXTENDS Naturals, Sequences

CONSTANT Editors

VARIABLES
    store,      \* content of the remote file
    seen,       \* what each editor was last told the file holds
    author      \* the editor who made the last change; none at first

Init ==
    /\ store = <<>>
    /\ seen = [e \in Editors |-> <<>>]
    /\ author = {}

\* An editor opens the file, or learns that its save arrived.
Look(e) ==
    /\ seen' = [seen EXCEPT ![e] = store]
    /\ UNCHANGED <<store, author>>

\* An editor's edits go behind what it has seen.  Learning of it is a later Look:
\* the answer may be lost.
Save(e) ==
    /\ store = seen[e]
    /\ Len(store') > Len(store)
    /\ SubSeq(store', 1, Len(store)) = store
    /\ author' = {e}
    /\ UNCHANGED seen

Next == \E e \in Editors : Look(e) \/ Save(e)

Spec == Init /\ [][Next]_<<store, seen, author>>
=============================================================================
