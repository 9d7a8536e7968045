------------------------------ MODULE FileLedger ------------------------------
(***************************************************************************)
(* What a store of files with a table of their rows promises: the file is  *)
(* written before its row exists and unlinked before its row goes; neither *)
(* comes back.  A file without a row is one never listed; a row without a  *)
(* file is one being removed.                                              *)
(***************************************************************************)
CONSTANT Items

VARIABLE stage  \* Items -> how far the item has come

Init == stage = [i \in Items |-> "none"]

Advance(i, from, to) == /\ stage[i] = from
                        /\ stage' = [stage EXCEPT ![i] = to]

Next == \E i \in Items : \/ Advance(i, "none", "stored")
                         \/ Advance(i, "stored", "listed")
                         \/ Advance(i, "listed", "unlinked")
                         \/ Advance(i, "unlinked", "removed")

Spec == Init /\ [][Next]_stage
=============================================================================
