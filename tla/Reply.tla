------------------------------- MODULE Reply -------------------------------
(***************************************************************************)
(* Replying to one stored letter: send_reply and resume_throttled          *)
(* (send/reply.py), the claim and the receipts of the reply                *)
(* (outbound/store.py) and the command around them (cli.py), with the pass *)
(* a starting bridge makes over unfinished sends.                          *)
(*                                                                         *)
(* Every `alb --reply-to` is a process of its own, so several may be at    *)
(* work on the same letter, while a bridge starts and stops; a process may *)
(* die, or the machine lose power, between any two durable writes.         *)
(*                                                                         *)
(* Letters do not interact here (each has its own claim, receipts and      *)
(* lock), so there is one.  It can be found whenever it is looked for: it  *)
(* only moves from inbox/ to processed/, the order the two are searched in.*)
(***************************************************************************)
EXTENDS Naturals, Receipts

CONSTANTS
  Senders,      \* runs of `alb --reply-to` for this letter
  Texts,        \* what an operator may type
  Photos,       \* photos an operator may attach
  NoPhoto,      \* ... and none
  Free,         \* nobody holds the resume lock
  Faults,       \* {"power"} if the machine may lose power, else {}
  MaxGestures,  \* bound: how often the command is given
  MaxCrashes    \* bound: how often a process dies or the power fails

ASSUME ReplyAssumption ==
  /\ NoPhoto \notin Photos
  /\ Free \notin Senders
  /\ Faults \subseteq {"power"}
  /\ MaxGestures \in Nat /\ MaxCrashes \in Nat

VARIABLES
  permitted,    \* the letter's chat is on the allowlist
  claim,        \* outbox/reply-<id>.md: "none", "fresh" or "durable"
  body,         \* its text
  staged,       \* the photo staged under its id
  receipts,     \* its delivery events
  lock,         \* who holds state/locks/reply-<id>.resume
  flagged,      \* it has a file in dead-letters/
  linked,       \* the message index knows the platform's id for it
  pc,           \* pc[s]: where sender s is
  asked,        \* asked[s]: what its operator typed
  told,         \* told[s]: what the command reported when it ended
  bridge,       \* where the bridge process is
  posts,        \* history: messages the platform accepted
  open,         \* history: a send was begun and no outcome recorded
  due,          \* history: what the bridge's last pass found unsettled
  gestures, crashes, outage  \* history: what has happened so far

diskVars   == <<claim, body, staged, receipts, flagged, linked>>
senderVars == <<pc, asked, told, lock>>
historyVars == <<posts, open, due, gestures, crashes, outage>>
vars == <<permitted, diskVars, senderVars, bridge, historyVars>>

Message == [text : Texts, photo : Photos \cup {NoPhoto}]

Outcome == {"sent", "ambiguous", "throttled", "refused"}
Steps == {"idle", "claim", "syncClaim", "composed", "stage", "recheck",
          "lock", "resume", "sending", "post", "link", "deadLetter"}
         \cup Outcome

Init ==
  /\ permitted = TRUE
  /\ claim = "none" /\ body \in Texts /\ staged = NoPhoto
  /\ receipts = NoHistory
  /\ lock = Free
  /\ flagged = FALSE /\ linked = FALSE
  /\ pc = [s \in Senders |-> "idle"]
  /\ asked \in [Senders -> [text : {body}, photo : {NoPhoto}]]
  /\ told = [s \in Senders |-> "nothing"]
  /\ bridge = "down"
  /\ posts = 0 /\ open = FALSE /\ due = "nothing"
  /\ gestures = 0 /\ crashes = 0 /\ outage = FALSE

Goto(s, l) == pc' = [pc EXCEPT ![s] = l]

(* The command ends; a lock it holds goes with the process.                *)
Exit(s, report) ==
  /\ Goto(s, "idle")
  /\ told' = [told EXCEPT ![s] = report]
  /\ lock' = IF lock = s THEN Free ELSE lock

----------------------------------------------------------------------------
(* The operator.                                                           *)

EditAllowlist ==
  /\ permitted' = ~ permitted
  /\ UNCHANGED <<diskVars, senderVars, bridge, historyVars>>

(* alb --reply-to, as far as the gate: what is refused here has left no    *)
(* trace.                                                                  *)
Invoke(s, m) ==
  /\ pc[s] = "idle"
  /\ gestures < MaxGestures
  /\ gestures' = gestures + 1
  /\ asked' = [asked EXCEPT ![s] = m]
  /\ IF permitted
       THEN Goto(s, "claim") /\ told' = [told EXCEPT ![s] = "nothing"]
       ELSE UNCHANGED pc /\ told' = [told EXCEPT ![s] = "refused"]
  /\ UNCHANGED <<permitted, diskVars, lock, bridge, posts, open, due, crashes,
                 outage>>

----------------------------------------------------------------------------
(* The first attempt.                                                      *)

(* compose: creating the letter is the claim.  Who comes second sees       *)
(* whether there is a deferred send to finish.                             *)
Claim(s) ==
  /\ pc[s] = "claim"
  /\ IF claim = "none"
       THEN /\ claim' = "fresh" /\ body' = asked[s].text
            /\ Goto(s, "syncClaim")
       ELSE Goto(s, "recheck") /\ UNCHANGED <<claim, body>>
  /\ UNCHANGED <<permitted, staged, receipts, flagged, linked, asked, told,
                 lock, bridge, historyVars>>

SyncClaim(s) ==
  /\ pc[s] = "syncClaim"
  /\ claim' = "durable"
  /\ Goto(s, "composed")
  /\ UNCHANGED <<permitted, body, staged, receipts, flagged, linked, asked,
                 told, lock, bridge, historyVars>>

RecordComposed(s) ==
  /\ pc[s] = "composed"
  /\ receipts' = Recorded(receipts, "composed")
  /\ Goto(s, IF asked[s].photo = NoPhoto THEN "sending" ELSE "stage")
  /\ UNCHANGED <<permitted, claim, body, staged, flagged, linked, asked, told,
                 lock, bridge, historyVars>>

StagePhoto(s) ==
  /\ pc[s] = "stage"
  /\ staged' = asked[s].photo
  /\ Goto(s, "sending")
  /\ UNCHANGED <<permitted, claim, body, receipts, flagged, linked, asked,
                 told, lock, bridge, historyVars>>

----------------------------------------------------------------------------
(* Finishing a deferred send.                                              *)

(* _reply_or_resume, on AlreadyClaimed.                                    *)
Recheck(s) ==
  /\ pc[s] = "recheck"
  /\ IF Verdict(receipts) = "throttled"
       THEN Goto(s, "lock") /\ UNCHANGED <<told, lock>>
       ELSE Exit(s, "refused")
  /\ UNCHANGED <<permitted, diskVars, asked, bridge, historyVars>>

LockResume(s) ==
  /\ pc[s] = "lock"
  /\ IF lock = Free
       THEN Goto(s, "resume") /\ lock' = s /\ UNCHANGED told
       ELSE Exit(s, "refused")
  /\ UNCHANGED <<permitted, diskVars, asked, bridge, historyVars>>

(* A slip that forgets that the operator may have typed something else.    *)
ResumeAnyText(s) ==
  /\ pc[s] = "resume"
  /\ IF Verdict(receipts) = "throttled" /\ permitted
       THEN Goto(s, "sending") /\ UNCHANGED <<told, lock>>
       ELSE Exit(s, "refused")
  /\ UNCHANGED <<permitted, diskVars, asked, bridge, historyVars>>

(* A slip that trusts the state read before the lock was taken.            *)
ResumeUnchecked(s) ==
  /\ pc[s] = "resume"
  /\ IF asked[s].text = body /\ permitted
       THEN Goto(s, "sending") /\ UNCHANGED <<told, lock>>
       ELSE Exit(s, "refused")
  /\ UNCHANGED <<permitted, diskVars, asked, bridge, historyVars>>

(* _resume_locked, up to the gate: still deferred, the same words, still   *)
(* permitted.                                                              *)
Resume(s) ==
  /\ pc[s] = "resume"
  /\ IF /\ Verdict(receipts) = "throttled"
        /\ asked[s].text = body
        /\ permitted
       THEN Goto(s, "sending") /\ UNCHANGED <<told, lock>>
       ELSE Exit(s, "refused")
  /\ UNCHANGED <<permitted, diskVars, asked, bridge, historyVars>>

----------------------------------------------------------------------------
(* Crossing to the platform, on the first attempt and on a resumed one.    *)

RecordSending(s) ==
  /\ pc[s] = "sending"
  /\ receipts' = Recorded(receipts, "sending")
  /\ open' = TRUE
  /\ Goto(s, "post")
  /\ UNCHANGED <<permitted, claim, body, staged, flagged, linked, asked, told,
                 lock, bridge, posts, due, gestures, crashes, outage>>

(* How a request can end, and how many messages the platform accepts then. *)
(* Any of the three adapters may carry the reply; an error that Slack      *)
(* names in a 200 answer counts with the status it is treated like.        *)
Answer == {"ok", "unreadable", "server error", "lost", "rate limit",
           "client error"}
Accepts(a) ==
  IF a = "ok" THEN {1}
  ELSE IF a \in {"rate limit", "client error"} THEN {0} ELSE {0, 1}

(* A slip that takes a gateway error for a request to wait.                *)
ClassifyHopefully(a) ==
  IF a = "ok" THEN "sent"
  ELSE IF a \in {"rate limit", "server error"} THEN "throttled"
  ELSE IF a = "client error" THEN "refused"
  ELSE "ambiguous"

(* _outbound_failure of Telegram, _post of Slack, _classified of Discord;  *)
(* what none of them expects is ambiguous to send_reply.                   *)
Classify(a) ==
  IF a = "ok" THEN "sent"
  ELSE IF a = "rate limit" THEN "throttled"
  ELSE IF a = "client error" THEN "refused"
  ELSE "ambiguous"

(* Slack shares a photo only when its upload is completed: what fails      *)
(* before has posted nothing.                                              *)
ClassifyUpload(a) == IF a = "rate limit" THEN "throttled" ELSE "refused"

Post(s) ==
  /\ pc[s] = "post"
  /\ \/ \E a \in Answer : \E n \in Accepts(a) :
          posts' = posts + n /\ Goto(s, Classify(a))
     \/ /\ staged # NoPhoto
        /\ \E a \in Answer \ {"ok"} : Goto(s, ClassifyUpload(a))
        /\ UNCHANGED posts
  /\ UNCHANGED <<permitted, diskVars, asked, told, lock, bridge, open, due,
                 gestures, crashes, outage>>

RecordOutcome(s) ==
  /\ pc[s] \in Outcome
  /\ receipts' = Recorded(receipts, pc[s])
  /\ open' = FALSE
  /\ \/ pc[s] = "sent" /\ Goto(s, "link") /\ UNCHANGED <<told, lock>>
     \/ pc[s] = "ambiguous" /\ Goto(s, "deadLetter") /\ UNCHANGED <<told, lock>>
     \/ pc[s] = "throttled" /\ Exit(s, "deferred")
     \/ pc[s] = "refused" /\ Exit(s, "refused")
  /\ UNCHANGED <<permitted, claim, body, staged, flagged, linked, asked,
                 bridge, posts, due, gestures, crashes, outage>>

LinkPost(s) ==
  /\ pc[s] = "link"
  /\ linked' = TRUE
  /\ Exit(s, "sent")
  /\ UNCHANGED <<permitted, claim, body, staged, receipts, flagged, asked,
                 bridge, historyVars>>

DeadLetter(s) ==
  /\ pc[s] = "deadLetter"
  /\ flagged' = TRUE
  /\ Exit(s, "ambiguous")
  /\ UNCHANGED <<permitted, claim, body, staged, receipts, linked, asked,
                 bridge, historyVars>>

----------------------------------------------------------------------------
(* A starting bridge: reconcile_at_startup, then the poll loop.            *)

Rise ==
  /\ bridge = "down"
  /\ bridge' = "reading"
  /\ UNCHANGED <<permitted, diskVars, senderVars, historyVars>>

(* An unrecorded outcome, or a recorded one that nobody is dead-lettering. *)
Unsettled ==
  IF open THEN "open"
  ELSE IF "ambiguous" \in receipts.events
          /\ \A s \in Senders : pc[s] # "deadLetter" THEN "ambiguous"
  ELSE "nothing"

ReadReceipts ==
  /\ bridge = "reading"
  /\ due' = Unsettled
  /\ bridge' = IF Verdict(receipts) = "ambiguous" THEN "flagging" ELSE "up"
  /\ UNCHANGED <<permitted, diskVars, senderVars, posts, open, gestures,
                 crashes, outage>>

FlagInFlight ==
  /\ bridge = "flagging"
  /\ flagged' = TRUE
  /\ bridge' = "closing"
  /\ UNCHANGED <<permitted, claim, body, staged, receipts, linked, senderVars,
                 historyVars>>

(* A slip that records a send that was found in flight as not made.        *)
CloseAsRefused ==
  /\ bridge = "closing"
  /\ receipts' = Recorded(receipts, "refused")
  /\ bridge' = "up"
  /\ UNCHANGED <<permitted, claim, body, staged, flagged, linked, senderVars,
                 historyVars>>

CloseInFlight ==
  /\ bridge = "closing"
  /\ receipts' = Recorded(receipts, "dead")
  /\ bridge' = "up"
  /\ UNCHANGED <<permitted, claim, body, staged, flagged, linked, senderVars,
                 historyVars>>

----------------------------------------------------------------------------
(* Failures.                                                               *)

StopBridge ==
  /\ bridge # "down"
  /\ bridge' = "down"
  /\ UNCHANGED <<permitted, diskVars, senderVars, historyVars>>

Die(s) ==
  /\ pc[s] # "idle"
  /\ crashes < MaxCrashes
  /\ crashes' = crashes + 1
  /\ Exit(s, "nothing")
  /\ UNCHANGED <<permitted, diskVars, asked, bridge, posts, open, due,
                 gestures, outage>>

(* The directory receipts/<id>/ is never fsynced into receipts/, nor are   *)
(* the dead letter, the index and the staged photo into theirs: each may   *)
(* be gone.                                                                *)
PowerLoss ==
  /\ "power" \in Faults
  /\ crashes < MaxCrashes
  /\ crashes' = crashes + 1
  /\ outage' = TRUE
  /\ claim' \in IF claim = "fresh" THEN {"none", "durable"} ELSE {claim}
  /\ receipts' \in {receipts, NoHistory}
  /\ flagged' \in {flagged, FALSE}
  /\ linked' \in {linked, FALSE}
  /\ staged' \in {staged, NoPhoto}
  /\ pc' = [s \in Senders |-> "idle"]
  /\ told' = [s \in Senders |-> "nothing"]
  /\ lock' = Free
  /\ bridge' = "down"
  /\ UNCHANGED <<permitted, body, asked, posts, open, due, gestures>>

----------------------------------------------------------------------------
Send(s) ==
  \/ \E m \in Message : Invoke(s, m)
  \/ Claim(s) \/ SyncClaim(s) \/ RecordComposed(s) \/ StagePhoto(s)
  \/ Recheck(s) \/ LockResume(s) \/ Resume(s)
  \/ RecordSending(s) \/ Post(s) \/ RecordOutcome(s)
  \/ LinkPost(s) \/ DeadLetter(s)

Bridge == Rise \/ ReadReceipts \/ FlagInFlight \/ CloseInFlight \/ StopBridge

Next ==
  \/ EditAllowlist
  \/ \E s \in Senders : Send(s) \/ Die(s)
  \/ Bridge
  \/ PowerLoss

Spec == Init /\ [][Next]_vars

----------------------------------------------------------------------------
(* Properties.                                                             *)

(* Every variable has its type, and the resume lock never outlives the     *)
(* command that holds it.                                                  *)
TypeOK ==
  /\ permitted \in BOOLEAN
  /\ claim \in {"none", "fresh", "durable"}
  /\ body \in Texts
  /\ staged \in Photos \cup {NoPhoto}
  /\ receipts \in History
  /\ lock \in Senders \cup {Free}
  /\ \A s \in Senders :
       lock = s => pc[s] \notin {"idle", "claim", "recheck", "lock"}
  /\ flagged \in BOOLEAN /\ linked \in BOOLEAN
  /\ pc \in [Senders -> Steps]
  /\ asked \in [Senders -> Message]
  /\ told \in [Senders -> {"nothing", "sent", "deferred", "ambiguous", "refused"}]
  /\ bridge \in {"down", "reading", "flagging", "closing", "up"}
  /\ posts \in Nat
  /\ open \in BOOLEAN /\ outage \in BOOLEAN
  /\ due \in {"nothing", "open", "ambiguous"}
  /\ gestures \in 0..MaxGestures /\ crashes \in 0..MaxCrashes

(* "Refuses rather than double-sending": however often the reply is typed, *)
(* by however many processes at once, across throttles, deaths, power      *)
(* failures and bridge starts, the platform accepts it at most once        *)
(* (compose, resume_throttled, reconcile).                                 *)
AtMostOnePost == posts <= 1

(* What the platform is given to send are the words the operator who ran   *)
(* the command typed, also when it finishes an earlier run's letter        *)
(* (TextChanged).                                                          *)
WordsAsTyped ==
  [][\A s \in Senders :
       pc[s] = "post" /\ posts' # posts => asked[s].text = body]_vars

(* What the command reports at its end is so: "nothing was sent" when it   *)
(* says deferred, sent when it says sent, a file for the human when it     *)
(* says ambiguous (cli.py, the exit codes of --reply-to).                  *)
HonestReport ==
  [][\A s \in Senders : told'[s] # told[s] =>
       /\ told'[s] = "deferred" => posts = 0
       /\ told'[s] = "sent" => posts = 1
       /\ told'[s] = "ambiguous" => flagged']_vars

(* A send that was begun and has no recorded outcome is in dead-letters/   *)
(* once a bridge that started later is polling (reconcile_at_startup),     *)
(* whatever dies in between.  Power must hold: see PowerLoss.              *)
InFlightIsFlagged == bridge = "up" /\ due = "open" /\ ~ outage => flagged

(* What it all comes to, see Delivery.  The reply is ready to be tried     *)
(* while it has no letter, while a command is on its way to an attempt,    *)
(* and while its receipts read as deferred; the outcomes on record are the *)
(* receipts that name one.                                                 *)
Stage ==
  IF \E s \in Senders : pc[s] = "post" THEN "crossing"
  ELSE IF \/ claim = "none" \/ Verdict(receipts) = "throttled"
          \/ \E s \in Senders : pc[s] \in {"syncClaim", "composed", "stage", "sending"}
    THEN "ready" ELSE "over"

Said == receipts.events \cap (Outcome \cup {"dead"})

OneDelivery == INSTANCE Delivery WITH stage <- Stage, said <- Said

(* Every step of the commands and of the bridge is one of Delivery or      *)
(* none, deaths and power failures included (send_reply, resume_throttled, *)
(* reconcile_at_startup): attempts do not overlap, the reply is tried      *)
(* again only when nothing was accepted and no end is on record, and no    *)
(* outcome is recorded that is not so.                                     *)
DeliveryPromise == OneDelivery!Spec

----------------------------------------------------------------------------
(* A statement of the documentation that the code does not keep.           *)

(* docs/invariants.md: "An ambiguous outcome dead-letters for a human."    *)
AmbiguousIsFlagged ==
  bridge = "up" /\ due = "ambiguous" /\ ~ outage => flagged

(* send/reply.py, TextChanged: sending something else than what was asked  *)
(* for under a new instruction is dishonest, and is refused.               *)
PhotoAsTyped ==
  [][\A s \in Senders :
       pc[s] = "post" /\ posts' # posts /\ ~ outage => asked[s].photo = staged]_vars
=============================================================================
