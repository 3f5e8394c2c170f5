------------------------------ MODULE Delivery ------------------------------
(***************************************************************************)
(* What the outbound half of the bridge promises of one message, whatever  *)
(* it does to keep the promise: attempts do not overlap, the platform      *)
(* accepts the message at most once, it is tried again only when nothing   *)
(* was accepted and no final outcome is on record, and no outcome is put   *)
(* on record that is not so.  A bridge that starts may declare a message   *)
(* dead that is still on its way; the attempt then comes to its end and is *)
(* recorded all the same.                                                  *)
(***************************************************************************)
EXTENDS Naturals

VARIABLES
  stage,               \* "ready" to be tried, "crossing" to the platform or
                       \* "over": not to be tried (again)
  posts,               \* messages the platform accepted
  said                 \* the outcomes on record

deliveryVars == <<stage, posts, said>>

Final == {"sent", "refused", "ambiguous", "dead"}

Init == stage = "ready" /\ posts = 0 /\ said = {}

Begin ==
  /\ stage = "ready"
  /\ stage' = "crossing"
  /\ UNCHANGED <<posts, said>>

(* The attempt has ended, and the platform may have accepted it.           *)
Answer ==
  /\ stage = "crossing" /\ posts = 0
  /\ stage' = "over"
  /\ posts' \in {0, 1}
  /\ UNCHANGED said

(* The platform said to wait, and nothing was accepted.                    *)
Defer ==
  /\ stage = "over" /\ posts = 0
  /\ said' = said \cup {"throttled"}
  /\ stage' \in {"over", "ready"}
  /\ stage' = "ready" => said \cap Final = {}
  /\ UNCHANGED posts

Conclude ==
  /\ stage = "over"
  /\ \/ posts = 1 /\ said' = said \cup {"sent"}
     \/ posts = 0 /\ said' = said \cup {"refused"}
     \/ said' = said \cup {"ambiguous"}
  /\ UNCHANGED <<stage, posts>>

(* It is refused before it is tried.                                       *)
Withdraw ==
  /\ stage = "ready" /\ posts = 0
  /\ said' = said \cup {"refused"}
  /\ stage' = "over"
  /\ UNCHANGED posts

Bury ==
  /\ said' = said \cup {"dead"}
  /\ stage' \in {stage, "over"}
  /\ UNCHANGED posts

(* The one who was to try has gone.                                        *)
Abandon ==
  /\ stage' = "over"
  /\ UNCHANGED <<posts, said>>

(* The record is lost with the power, or the letter, if nothing was sent.  *)
Forget ==
  /\ said' = {}
  /\ stage' \in {"over", "ready"}
  /\ stage' = "ready" => posts = 0
  /\ UNCHANGED posts

Next ==
  \/ Begin \/ Answer \/ Defer \/ Conclude \/ Withdraw \/ Bury
  \/ Abandon \/ Forget

Spec == Init /\ [][Next]_deliveryVars
=============================================================================
