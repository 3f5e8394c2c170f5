------------------------------ MODULE MCSlack ------------------------------
EXTENDS Slack

(* 1 is a mention in a channel, 2 a reply in the thread it opened, and 3   *)
(* whatever Mentions makes of it.                                          *)
OneConv == [m \in Message |-> "C1"]
OneThread == [m \in Message |-> IF m = 2 THEN 1 ELSE 0]

NoThread == [m \in Message |-> 0]
=============================================================================
