------------------------------ MODULE MCGrant ------------------------------
EXTENDS Grant, TLC

(* Two grants for one chat.                                                *)
OneChat == [g \in Ids |-> "L1"]
Symmetry == Permutations(Procs) \cup Permutations(Ids)
=============================================================================
