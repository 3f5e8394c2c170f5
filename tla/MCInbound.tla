----------------------------- MODULE MCInbound -----------------------------
(* Constants for the runs of Inbound: two or three updates, from one chat   *)
(* or two.                                                                 *)
EXTENDS Inbound, TLC, FiniteSets

(* The two bridge processes of a run are started alike.                    *)
Alike == Permutations(Bridges)

CONSTANTS c1, c2

StrangerFirst == <<c2, c1>>
ThreeFromOne == <<c1, c1, c1>>
ThirdAnswersSecond == <<0, 0, 2>>
NoReply == <<0, 0>>
=============================================================================
