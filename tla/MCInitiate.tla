----------------------------- MODULE MCInitiate -----------------------------
(* Constants for the runs of Initiate: two commands at once, any two of    *)
(* the senders, intents and texts alike.                                   *)
EXTENDS Initiate, TLC

Alike == Permutations(Senders) \cup Permutations(Intents) \cup Permutations(Texts)
=============================================================================
