------------------------------ MODULE MCReply ------------------------------
(* Constants for the runs of Reply: two commands, two texts, one photo.    *)
EXTENDS Reply, TLC

(* Commands are alike, and so are texts.                                   *)
Alike == Permutations(Senders) \cup Permutations(Texts)
=============================================================================
