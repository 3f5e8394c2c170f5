------------------------------ MODULE Mailbox ------------------------------
(***************************************************************************)
(* What the inbound half of the bridge promises, whatever it does to keep  *)
(* the promise: every message the platform offers is kept as a letter or   *)
(* refused, once, and the platform is told to forget a message only after  *)
(* that.  After it is forgotten nothing more happens to it.                *)
(***************************************************************************)
EXTENDS Naturals

CONSTANT NumUpdates    \* messages are 1..NumUpdates, in the platform's order

VARIABLES
  offered,             \* messages 1..offered have reached the platform
  kept,                \* messages that have a letter
  refused,             \* messages the allowlist refused
  forgotten            \* the platform holds nothing at or below this

mailboxVars == <<offered, kept, refused, forgotten>>

Init == offered = 0 /\ kept = {} /\ refused = {} /\ forgotten = 0

Offer ==
  /\ offered < NumUpdates
  /\ offered' = offered + 1
  /\ UNCHANGED <<kept, refused, forgotten>>

Waiting(u) == forgotten < u /\ u <= offered

Keep(u) ==
  /\ Waiting(u)
  /\ u \notin kept
  /\ kept' = kept \cup {u}
  /\ UNCHANGED <<offered, refused, forgotten>>

(* A message refused once may still be kept if it is offered again.        *)
Refuse(u) ==
  /\ Waiting(u)
  /\ refused' = refused \cup {u}
  /\ UNCHANGED <<offered, kept, forgotten>>

Forget(n) ==
  /\ Waiting(n)
  /\ \A u \in 1..n : u \in kept \cup refused
  /\ forgotten' = n
  /\ UNCHANGED <<offered, kept, refused>>

Next ==
  \/ Offer
  \/ \E u \in 1..NumUpdates : Keep(u) \/ Refuse(u) \/ Forget(u)

Spec == Init /\ [][Next]_mailboxVars
=============================================================================
