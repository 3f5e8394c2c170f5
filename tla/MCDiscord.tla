----------------------------- MODULE MCDiscord -----------------------------
EXTENDS Discord

(* 1 and 4 in a channel, 2 and 3 in two of its threads; 4 is chatter.      *)
TwoThreads ==
  [m \in Message |-> IF m = 2 THEN "T1" ELSE IF m = 3 THEN "T2" ELSE "C1"]
=============================================================================
