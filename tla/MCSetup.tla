------------------------------ MODULE MCSetup ------------------------------
EXTENDS Setup

(* A mailbox of each of two agents, and a pane of each multiplexer.        *)
AgentOf == [m \in Mailboxes |-> IF m = "m1" THEN "a1" ELSE "a2"]
KindOf == [p \in Panes |-> IF p = "p1" THEN "cmux" ELSE "tmux"]
OneToken == <<"bot">>
=============================================================================
