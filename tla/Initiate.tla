------------------------------ MODULE Initiate ------------------------------
(***************************************************************************)
(* Sending first: send_initiated (initiate/send.py) under its budget       *)
(* (initiate/budget.py, initiate/reservation.py), with the receipts and    *)
(* the startup pass of outbound/store.py.                                  *)
(*                                                                         *)
(* Every `alb --send` is a process of its own.  The one that works on an   *)
(* intent holds the intent's lock; the budget has a lock of its own, held  *)
(* while the reservations are counted and one is created.  A throttled     *)
(* send is finished by giving the command again, perhaps hours later.      *)
(*                                                                         *)
(* The intents are those of one grant, whose limits stay as they are.      *)
(* Destinations share nothing but that a reservation nobody can read       *)
(* blocks them all.  Photos, which add a staged file checked against its   *)
(* hash, and the index, which no send consults, are left out.              *)
(***************************************************************************)
EXTENDS Naturals, FiniteSets, Receipts

CONSTANTS
  Senders,      \* runs of `alb --send`
  Intents,      \* what is to be said: the --id of a message
  Texts,        \* what an operator may type
  Nothing,      \* no text, no intent
  PerHour, PerDay, MaxQueued,  \* the limits of the grant
  HoursPerDay,
  Faults,       \* "disk": a write may fail; "power": the power may
  MaxHour,      \* bound: the last hour
  MaxGestures,  \* bound: how often the command is given
  MaxEdits,     \* bound: how often the authority is changed
  MaxCrashes    \* bound: how often something fails

ASSUME InitiateAssumption ==
  /\ IsFiniteSet(Intents)
  /\ Nothing \notin Intents /\ Nothing \notin Texts
  /\ PerHour \in Nat /\ PerDay \in Nat /\ MaxQueued \in Nat
  /\ HoursPerDay \in Nat \ {0}
  /\ Faults \subseteq {"disk", "power"}
  /\ MaxHour \in Nat /\ MaxGestures \in Nat /\ MaxEdits \in Nat
  /\ MaxCrashes \in Nat

VARIABLES
  now,          \* the hour
  enabled,      \* the grant is enabled
  allowed,      \* its chat is on the allowlist
  res,          \* res[i]: the reservation of i
  claim,        \* claim[i]: its letter in outbox/: "none", "partial", "whole"
  receipts,     \* receipts[i]: its delivery events
  flagged,      \* intents with a file in dead-letters/
  pc,           \* pc[s]: where sender s is
  job,          \* job[s]: what it was asked, and what has come of it
  todo,         \* in-flight letters a starting bridge has yet to close
  closing,      \* the one of them that is in dead-letters/ already, if any
  posts,        \* history: posts[i], messages the platform accepted
  lapsed,       \* history: senders without authority since they had the lock
  gestures, edits, crashes  \* history: what has happened so far

diskVars   == <<res, claim, receipts, flagged>>
grantVars  == <<enabled, allowed>>
senderVars == <<pc, job, lapsed>>
bridgeVars == <<todo, closing>>
boundVars  == <<gestures, edits, crashes>>
vars == <<now, grantVars, diskVars, senderVars, bridgeVars, posts, boundVars>>

(* STATUSES; "none" is no file, "empty" one that is not written yet.       *)
Status == {"none", "empty", "reserved", "held", "settled-sent",
           "settled-ambiguous", "refunded"}
CHARGED == {"reserved", "held", "settled-sent", "settled-ambiguous"}
LIVEUnheld == {"reserved"}
LIVE == {"reserved", "held"}

Outcome == {"sent", "refused", "ambiguous", "throttled"}
Steps == {"idle", "txn", "open", "admit", "create", "claim", "syncClaim",
          "refund", "composed", "cross", "readmit", "authority", "sending",
          "post", "record", "update", "deadLetter"}

Reservation == [status : Status, at : 0..MaxHour, text : Texts \cup {Nothing}]
NoReservation == [status |-> "none", at |-> 0, text |-> Nothing]
EmptyReservation == [NoReservation EXCEPT !.status = "empty"]

Job == [intent : Intents \cup {Nothing}, text : Texts \cup {Nothing},
        granted : BOOLEAN, hour : 0..MaxHour, outcome : Outcome \cup {"none"}]
NoJob == [intent |-> Nothing, text |-> Nothing, granted |-> FALSE, hour |-> 0,
          outcome |-> "none"]

Init ==
  /\ now = 0 /\ enabled = TRUE /\ allowed = TRUE
  /\ res = [i \in Intents |-> NoReservation]
  /\ claim = [i \in Intents |-> "none"]
  /\ receipts = [i \in Intents |-> NoHistory]
  /\ flagged = {}
  /\ pc = [s \in Senders |-> "idle"]
  /\ job = [s \in Senders |-> NoJob]
  /\ lapsed = {}
  /\ todo = {} /\ closing = {}
  /\ posts = [i \in Intents |-> 0]
  /\ gestures = 0 /\ edits = 0 /\ crashes = 0

Goto(s, l) == pc' = [pc EXCEPT ![s] = l] /\ UNCHANGED <<job, lapsed>>

Exit(s) ==
  /\ pc' = [pc EXCEPT ![s] = "idle"]
  /\ job' = [job EXCEPT ![s] = NoJob]
  /\ lapsed' = lapsed \ {s}

(* _settle, which takes a step for each of its durable writes.             *)
Settle(s, e) ==
  /\ pc' = [pc EXCEPT ![s] = "record"]
  /\ job' = [job EXCEPT ![s].outcome = e]
  /\ UNCHANGED lapsed

SetStatus(i, status) == res' = [res EXCEPT ![i].status = status]

----------------------------------------------------------------------------
(* Time, the operator, and the command up to the intent's lock.            *)

Tick ==
  /\ now < MaxHour
  /\ now' = now + 1
  /\ UNCHANGED <<grantVars, diskVars, senderVars, bridgeVars, posts, boundVars>>

(* --grant-disable, which no command takes back, or an edit of             *)
(* allowlist.json.                                                         *)
EditAuthority ==
  /\ edits < MaxEdits
  /\ edits' = edits + 1
  /\ \/ enabled /\ enabled' = FALSE /\ UNCHANGED allowed
     \/ allowed' = ~ allowed /\ UNCHANGED enabled
  /\ lapsed' = IF enabled' /\ allowed' THEN {} ELSE lapsed
  /\ UNCHANGED <<now, diskVars, pc, job, bridgeVars, posts, gestures, crashes>>

(* The grant is read before the lock is waited for.                        *)
Invoke(s, i, t) ==
  /\ pc[s] = "idle"
  /\ gestures < MaxGestures
  /\ gestures' = gestures + 1
  /\ job' = [job EXCEPT ![s] = [intent |-> i, text |-> t, granted |-> enabled,
                                hour |-> 0, outcome |-> "none"]]
  /\ pc' = [pc EXCEPT ![s] = "txn"]
  /\ UNCHANGED <<now, grantVars, diskVars, lapsed, bridgeVars, posts, edits,
                 crashes>>

(* Who holds the lock of i.                                                *)
AtWork(s, i) == pc[s] \notin {"idle", "txn"} /\ job[s].intent = i

(* A slip that goes on without the lock, as with blocking=False.           *)
TakeNoLock(s) ==
  /\ pc[s] = "txn"
  /\ pc' = [pc EXCEPT ![s] = "open"]
  /\ lapsed' = IF enabled /\ allowed THEN lapsed \ {s} ELSE lapsed \cup {s}
  /\ UNCHANGED <<now, grantVars, diskVars, job, bridgeVars, posts, boundVars>>

TakeLock(s) ==
  /\ pc[s] = "txn"
  /\ \A t \in Senders : ~ AtWork(t, job[s].intent)
  /\ pc' = [pc EXCEPT ![s] = "open"]
  /\ lapsed' = IF enabled /\ allowed THEN lapsed \ {s} ELSE lapsed \cup {s}
  /\ UNCHANGED <<now, grantVars, diskVars, job, bridgeVars, posts, boundVars>>

----------------------------------------------------------------------------
(* What the receipts forbid.                                               *)

(* _terminal_receipt *)
Terminal(h) == h.events \cap TERMINAL

(* A slip that lets an earlier throttle authorize a new crossing.          *)
UnresolvedUnlessThrottled(h) ==
  h.tail = "sending" /\ "throttled" \notin h.events

(* _unresolved_sending *)
Unresolved(h) == h.tail = "sending"

(* A slip that takes a send that was found dead for one that was not made. *)
SettledAsFreed == [sent |-> "settled-sent", refused |-> "refunded",
                   throttled |-> "held", ambiguous |-> "settled-ambiguous",
                   dead |-> "refunded"]

(* The status that belongs to a receipt.                                   *)
SettledAs == [sent |-> "settled-sent", refused |-> "refunded",
              throttled |-> "held", ambiguous |-> "settled-ambiguous",
              dead |-> "settled-ambiguous"]

(* A terminal receipt closes the intent; the reservation is repaired if    *)
(* need be, by whichever terminal receipt the listing shows first.         *)
Close(s, i) ==
  /\ Terminal(receipts[i]) # {}
  /\ IF res[i].status \in LIVE
       THEN \E e \in Terminal(receipts[i]) : SetStatus(i, SettledAs[e])
       ELSE UNCHANGED res
  /\ Exit(s)

(* A send begun and not accounted for is never made again.                 *)
GiveUp(s, i) ==
  /\ Terminal(receipts[i]) = {} /\ Unresolved(receipts[i])
  /\ Settle(s, "ambiguous")
  /\ UNCHANGED res

Clear(i) == Terminal(receipts[i]) = {} /\ ~ Unresolved(receipts[i])

----------------------------------------------------------------------------
(* An intent that has its reservation.                                     *)

(* A slip that does not compare the text with the reserved one.            *)
ReopenAnyText(s) ==
  /\ pc[s] = "open"
  /\ LET i == job[s].intent IN
       /\ res[i].status # "none"
       /\ \/ res[i].status = "empty" /\ Exit(s) /\ UNCHANGED res
          \/ res[i].status # "empty" /\ (Close(s, i) \/ GiveUp(s, i))
          \/ /\ res[i].status # "empty" /\ Clear(i)
             /\ IF job[s].granted /\ claim[i] = "whole"
                  THEN Goto(s, "cross") ELSE Settle(s, "refused")
             /\ UNCHANGED res
  /\ UNCHANGED <<now, grantVars, claim, receipts, flagged, bridgeVars,
                 posts, boundVars>>

(* send_initiated on an existing reservation: unreadable, closed, in       *)
(* flight, for other words, without its letter or its grant - or fit to    *)
(* cross.                                                                  *)
Reopen(s) ==
  /\ pc[s] = "open"
  /\ LET i == job[s].intent IN
       /\ res[i].status # "none"
       /\ \/ res[i].status = "empty" /\ Exit(s) /\ UNCHANGED res
          \/ res[i].status # "empty" /\ (Close(s, i) \/ GiveUp(s, i))
          \/ /\ res[i].status # "empty" /\ Clear(i)
             /\ IF job[s].text # res[i].text THEN Exit(s)
                ELSE IF job[s].granted /\ claim[i] = "whole"
                  THEN Goto(s, "cross") ELSE Settle(s, "refused")
             /\ UNCHANGED res
  /\ UNCHANGED <<now, grantVars, claim, receipts, flagged, bridgeVars,
                 posts, boundVars>>

----------------------------------------------------------------------------
(* A new one.                                                              *)

Start(s) ==
  /\ pc[s] = "open"
  /\ res[job[s].intent].status = "none"
  /\ IF job[s].granted THEN Goto(s, "admit") ELSE Exit(s)
  /\ UNCHANGED <<now, grantVars, diskVars, bridgeVars, posts, boundVars>>

(* counts: what the reservations but those of i have used up.              *)
ChargedBut(i) == {j \in Intents \ {i} : res[j].status \in CHARGED}
UsedHour(i) == Cardinality({j \in ChargedBut(i) : res[j].at = now})
UsedDay(i) ==
  Cardinality({j \in ChargedBut(i) :
                 res[j].at \div HoursPerDay = now \div HoursPerDay})
Queued == {j \in Intents :
             res[j].status \in LIVE /\ Terminal(receipts[j]) = {}}

Readable == \A j \in Intents : res[j].status # "empty"
HasRoom(i) == UsedHour(i) < PerHour /\ UsedDay(i) < PerDay

(* The lock of the budget, held from the count to the reservation.         *)
BudgetFree == \A t \in Senders : pc[t] # "create"

(* A slip that counts without the lock.                                    *)
AdmitUnlocked(s) ==
  /\ pc[s] = "admit"
  /\ IF /\ Readable /\ HasRoom(job[s].intent)
        /\ Cardinality(Queued) < MaxQueued
       THEN /\ pc' = [pc EXCEPT ![s] = "create"]
            /\ job' = [job EXCEPT ![s].hour = now]
            /\ UNCHANGED lapsed
       ELSE Exit(s)
  /\ UNCHANGED <<now, grantVars, diskVars, bridgeVars, posts, boundVars>>

(* admit_new: the count; the lock stays until the reservation is written.  *)
Admit(s) ==
  /\ pc[s] = "admit"
  /\ BudgetFree
  /\ IF /\ Readable /\ HasRoom(job[s].intent)
        /\ Cardinality(Queued) < MaxQueued
       THEN /\ pc' = [pc EXCEPT ![s] = "create"]
            /\ job' = [job EXCEPT ![s].hour = now]
            /\ UNCHANGED lapsed
       ELSE Exit(s)
  /\ UNCHANGED <<now, grantVars, diskVars, bridgeVars, posts, boundVars>>

(* The reservation is charged to the hour of the count.  Its name is       *)
(* claimed with an empty file, which Die and PowerLoss may leave behind    *)
(* and nobody sees otherwise.                                              *)
CreateReservation(s) ==
  /\ pc[s] = "create"
  /\ res' = [res EXCEPT ![job[s].intent] =
               [status |-> "reserved", at |-> job[s].hour, text |-> job[s].text]]
  /\ pc' = [pc EXCEPT ![s] = "claim"]
  /\ job' = [job EXCEPT ![s].hour = 0]
  /\ UNCHANGED <<now, grantVars, claim, receipts, flagged, lapsed, bridgeVars,
                 posts, boundVars>>

(* claim_letter creates the letter, or finds one (AlreadyClaimed), ...     *)
Claim(s) ==
  /\ pc[s] = "claim"
  /\ IF claim[job[s].intent] = "none"
       THEN /\ claim' = [claim EXCEPT ![job[s].intent] = "partial"]
            /\ Goto(s, "syncClaim")
       ELSE Goto(s, "refund") /\ UNCHANGED claim
  /\ UNCHANGED <<now, grantVars, res, receipts, flagged, bridgeVars,
                 posts, boundVars>>

(* ... and writes it.                                                      *)
SyncClaim(s) ==
  /\ pc[s] = "syncClaim"
  /\ claim' = [claim EXCEPT ![job[s].intent] = "whole"]
  /\ Goto(s, "composed")
  /\ UNCHANGED <<now, grantVars, res, receipts, flagged, bridgeVars,
                 posts, boundVars>>

(* Either write may fail, the second one half way or on its last fsync.    *)
ClaimFails(s) ==
  /\ "disk" \in Faults
  /\ crashes < MaxCrashes
  /\ crashes' = crashes + 1
  /\ \/ pc[s] = "claim" /\ UNCHANGED claim
     \/ /\ pc[s] = "syncClaim"
        /\ \E left \in {"partial", "whole"} :
             claim' = [claim EXCEPT ![job[s].intent] = left]
  /\ Goto(s, "refund")
  /\ UNCHANGED <<now, grantVars, res, receipts, flagged, bridgeVars,
                 posts, gestures, edits>>

Refund(s) ==
  /\ pc[s] = "refund"
  /\ SetStatus(job[s].intent, "refunded")
  /\ Exit(s)
  /\ UNCHANGED <<now, grantVars, claim, receipts, flagged, bridgeVars,
                 posts, boundVars>>

RecordComposed(s) ==
  /\ pc[s] = "composed"
  /\ receipts' = [receipts EXCEPT ![job[s].intent] = Recorded(@, "composed")]
  /\ Goto(s, "cross")
  /\ UNCHANGED <<now, grantVars, res, claim, flagged, bridgeVars,
                 posts, boundVars>>

----------------------------------------------------------------------------
(* _cross *)

Cross(s) ==
  /\ pc[s] = "cross"
  /\ LET i == job[s].intent IN
       \/ Close(s, i)
       \/ GiveUp(s, i)
       \/ /\ Clear(i)
          /\ IF res[i].status \in LIVE THEN Goto(s, "readmit") ELSE Exit(s)
          /\ UNCHANGED res
  /\ UNCHANGED <<now, grantVars, claim, receipts, flagged, bridgeVars,
                 posts, boundVars>>

(* A slip that moves a reservation to the current hour without asking      *)
(* whether there is room.                                                  *)
ReadmitUncounted(s) ==
  /\ pc[s] = "readmit"
  /\ BudgetFree
  /\ IF Readable
       THEN res' = [res EXCEPT ![job[s].intent].at = now] /\ Goto(s, "authority")
       ELSE Exit(s) /\ UNCHANGED res
  /\ UNCHANGED <<now, grantVars, claim, receipts, flagged, bridgeVars,
                 posts, boundVars>>

(* readmit_existing: a reservation of an earlier hour moves to this one,   *)
(* if there is room.                                                       *)
Readmit(s) ==
  /\ pc[s] = "readmit"
  /\ BudgetFree
  /\ LET i == job[s].intent IN
       IF Readable /\ (res[i].at = now \/ HasRoom(i))
         THEN res' = [res EXCEPT ![i].at = now] /\ Goto(s, "authority")
         ELSE Exit(s) /\ UNCHANGED res
  /\ UNCHANGED <<now, grantVars, claim, receipts, flagged, bridgeVars,
                 posts, boundVars>>

(* A slip that trusts the grant read before the lock was had.              *)
AuthorityAsLoaded(s) ==
  /\ pc[s] = "authority"
  /\ IF job[s].granted /\ allowed THEN Goto(s, "sending") ELSE Settle(s, "refused")
  /\ UNCHANGED <<now, grantVars, diskVars, bridgeVars, posts, boundVars>>

(* _authority, on what the files say now.                                  *)
Authority(s) ==
  /\ pc[s] = "authority"
  /\ IF enabled /\ allowed THEN Goto(s, "sending") ELSE Settle(s, "refused")
  /\ UNCHANGED <<now, grantVars, diskVars, bridgeVars, posts, boundVars>>

RecordSending(s) ==
  /\ pc[s] = "sending"
  /\ receipts' = [receipts EXCEPT ![job[s].intent] = Recorded(@, "sending")]
  /\ Goto(s, "post")
  /\ UNCHANGED <<now, grantVars, res, claim, flagged, bridgeVars,
                 posts, boundVars>>

(* An answer gives the outcome and the number of messages accepted; an     *)
(* ambiguous one leaves the number open.                                   *)
Answer == {<<"sent", 1>>, <<"refused", 0>>, <<"throttled", 0>>,
           <<"ambiguous", 0>>, <<"ambiguous", 1>>}

Post(s) ==
  /\ pc[s] = "post"
  /\ \E a \in Answer :
       /\ Settle(s, a[1])
       /\ posts' = [posts EXCEPT ![job[s].intent] = @ + a[2]]
  /\ UNCHANGED <<now, grantVars, diskVars, bridgeVars, boundVars>>

RecordOutcome(s) ==
  /\ pc[s] = "record"
  /\ receipts' = [receipts EXCEPT ![job[s].intent] =
                    Recorded(@, job[s].outcome)]
  /\ Goto(s, "update")
  /\ UNCHANGED <<now, grantVars, res, claim, flagged, bridgeVars,
                 posts, boundVars>>

UpdateReservation(s) ==
  /\ pc[s] = "update"
  /\ SetStatus(job[s].intent, SettledAs[job[s].outcome])
  /\ \/ job[s].outcome = "ambiguous" /\ Goto(s, "deadLetter")
     \/ job[s].outcome # "ambiguous" /\ Exit(s)
  /\ UNCHANGED <<now, grantVars, claim, receipts, flagged, bridgeVars,
                 posts, boundVars>>

DeadLetter(s) ==
  /\ pc[s] = "deadLetter"
  /\ flagged' = flagged \cup {job[s].intent}
  /\ Exit(s)
  /\ UNCHANGED <<now, grantVars, res, claim, receipts, bridgeVars,
                 posts, boundVars>>

----------------------------------------------------------------------------
(* The startup pass of a bridge, letter by letter.                         *)

Rise ==
  /\ todo = {}
  /\ todo' = {i \in Intents : Verdict(receipts[i]) = "ambiguous"}
  /\ UNCHANGED <<now, grantVars, diskVars, senderVars, closing, posts, boundVars>>

FlagInFlight(i) ==
  /\ i \in todo /\ closing = {}
  /\ flagged' = flagged \cup {i}
  /\ closing' = {i}
  /\ UNCHANGED <<now, grantVars, res, claim, receipts, senderVars,
                 todo, posts, boundVars>>

CloseInFlight(i) ==
  /\ i \in closing
  /\ receipts' = [receipts EXCEPT ![i] = Recorded(@, "dead")]
  /\ todo' = todo \ {i} /\ closing' = {}
  /\ UNCHANGED <<now, grantVars, res, claim, flagged, senderVars,
                 posts, boundVars>>

StopBridge ==
  /\ todo # {}
  /\ todo' = {} /\ closing' = {}
  /\ UNCHANGED <<now, grantVars, diskVars, senderVars, posts, boundVars>>

----------------------------------------------------------------------------
(* Failures.                                                               *)

Die(s) ==
  /\ pc[s] # "idle"
  /\ crashes < MaxCrashes
  /\ crashes' = crashes + 1
  /\ \/ UNCHANGED res
     \/ /\ pc[s] = "create"
        /\ res' = [res EXCEPT ![job[s].intent] = EmptyReservation]
  /\ Exit(s)
  /\ UNCHANGED <<now, grantVars, claim, receipts, flagged, bridgeVars, posts,
                 gestures, edits>>

(* The intents whose reservation is no more than an empty file.            *)
Unwritten ==
  {i \in Intents : \/ res[i].status = "empty"
                   \/ \E s \in Senders : pc[s] = "create" /\ job[s].intent = i}

(* A reservation or a letter being written may be there or not; and the    *)
(* directory receipts/<id>/ is never fsynced into receipts/.               *)
PowerLoss ==
  /\ "power" \in Faults
  /\ crashes < MaxCrashes
  /\ crashes' = crashes + 1
  /\ \E lost \in SUBSET Intents :
       receipts' = [i \in Intents |->
                      IF i \in lost THEN NoHistory ELSE receipts[i]]
  /\ \E left \in SUBSET Unwritten :
       res' = [i \in Intents |-> IF i \in left THEN EmptyReservation
                                ELSE IF i \in Unwritten THEN NoReservation
                                ELSE res[i]]
  /\ \E lost \in SUBSET {i \in Intents : claim[i] = "partial"} :
       claim' = [i \in Intents |-> IF i \in lost THEN "none" ELSE claim[i]]
  /\ pc' = [s \in Senders |-> "idle"] /\ job' = [s \in Senders |-> NoJob]
  /\ lapsed' = {}
  /\ todo' = {} /\ closing' = {}
  /\ UNCHANGED <<now, grantVars, flagged, posts, gestures, edits>>

----------------------------------------------------------------------------
Send(s) ==
  \/ \E i \in Intents, t \in Texts : Invoke(s, i, t)
  \/ TakeLock(s) \/ Reopen(s) \/ Start(s) \/ Admit(s) \/ CreateReservation(s)
  \/ Claim(s) \/ SyncClaim(s) \/ ClaimFails(s) \/ Refund(s) \/ RecordComposed(s)
  \/ Cross(s) \/ Readmit(s) \/ Authority(s) \/ RecordSending(s) \/ Post(s)
  \/ RecordOutcome(s) \/ UpdateReservation(s) \/ DeadLetter(s)

Bridge ==
  Rise \/ StopBridge \/ \E i \in Intents : FlagInFlight(i) \/ CloseInFlight(i)

Next ==
  \/ Tick \/ EditAuthority
  \/ \E s \in Senders : Send(s) \/ Die(s)
  \/ Bridge
  \/ PowerLoss

Spec == Init /\ [][Next]_vars

----------------------------------------------------------------------------
(* Properties.                                                             *)

WorldType ==
  /\ now \in 0..MaxHour /\ enabled \in BOOLEAN /\ allowed \in BOOLEAN
  /\ gestures \in 0..MaxGestures /\ edits \in 0..MaxEdits
  /\ crashes \in 0..MaxCrashes

DiskType ==
  /\ res \in [Intents -> Reservation]
  /\ claim \in [Intents -> {"none", "partial", "whole"}]
  /\ receipts \in [Intents -> History]
  /\ flagged \subseteq Intents
  /\ posts \in [Intents -> Nat]

ProcessType ==
  /\ pc \in [Senders -> Steps]
  /\ job \in [Senders -> Job]
  /\ lapsed \subseteq Senders
  /\ todo \subseteq Intents /\ closing \subseteq todo

(* No two commands hold one lock, that of an intent or that of the budget. *)
OneHolder ==
  \A s, t \in Senders :
    s # t => /\ ~ (pc[s] = "create" /\ pc[t] = "create")
             /\ \A i \in Intents : ~ (AtWork(s, i) /\ AtWork(t, i))

(* Every variable has its type, and every lock one holder (TakeLock,       *)
(* BudgetFree).                                                            *)
TypeOK == WorldType /\ DiskType /\ ProcessType /\ OneHolder

(* "Exceed the budget" is what the send helper must not do (README.md):    *)
(* no hour and no day is charged with more messages than the grant allows, *)
(* also when throttled sends of earlier hours are moved to it              *)
(* (admit_new, readmit_existing).                                          *)
BudgetKept ==
  \A h \in 0..MaxHour :
    LET charged == {i \in Intents : res[i].status \in
                      {"reserved", "held", "settled-sent", "settled-ambiguous"}}
    IN  /\ Cardinality({i \in charged : res[i].at = h}) <= PerHour
        /\ Cardinality({i \in charged :
             res[i].at \div HoursPerDay = h \div HoursPerDay}) <= PerDay

(* No more messages wait to be sent, admitted and without outcome, than    *)
(* the queue may hold (admit_new).                                         *)
QueueKept ==
  Cardinality({i \in Intents :
    /\ res[i].status \in {"reserved", "held"}
    /\ ~ \E e \in {"sent", "refused", "ambiguous", "dead"} :
           e \in receipts[i].events}) <= MaxQueued

(* A message that the platform accepted is charged: no path, however many  *)
(* retries, deaths and repairs it takes, refunds it (_settle,              *)
(* _repair_live_reservation).                                              *)
AcceptedIsCharged ==
  \A i \in Intents :
    posts[i] # 0 =>
      res[i].status \in {"reserved", "held", "settled-sent", "settled-ambiguous"}

(* An intent is sent once, however often the command is given, while the   *)
(* power holds (TerminalExists, _unresolved_sending).                      *)
OncePerIntent == \A i \in Intents : posts[i] <= 1

(* Nothing is sent by a command that had no authority since it holds the   *)
(* intent's lock: neither a grant read before the wait nor the admission   *)
(* of an earlier hour stands in for it (_authority).                       *)
RevokedIsRefused ==
  [][\A s \in Senders :
       pc[s] = "post" /\ s \in lapsed
         => posts'[job[s].intent] = posts[job[s].intent]]_vars

(* What is sent is what the letter in the outbox says, also when another   *)
(* command wrote it (payload_digest).                                      *)
SaysWhatItSends ==
  [][\A s \in Senders :
       pc[s] = "post" /\ job[s].text # res[job[s].intent].text
         => posts'[job[s].intent] = posts[job[s].intent]]_vars

(* What it all comes to for each intent, see Delivery.  An intent is ready *)
(* to be tried while its receipts do not forbid it, and while the command  *)
(* that has found so is on its way; the outcomes on record are the         *)
(* receipts that name one.                                                 *)
Stage(i) ==
  IF \E s \in Senders : AtWork(s, i) /\ pc[s] = "post" THEN "crossing"
  ELSE IF \/ Clear(i)
          \/ \E s \in Senders :
               AtWork(s, i) /\ pc[s] \in {"readmit", "authority", "sending"}
    THEN "ready" ELSE "over"

Said(i) == receipts[i].events \cap (Outcome \cup {"dead"})

OneDelivery(i) == INSTANCE Delivery WITH
  stage <- Stage(i), posts <- posts[i], said <- Said(i)

Delivers(i) == UNCHANGED OneDelivery(i)!deliveryVars \/ OneDelivery(i)!Next

(* While the power holds every step is, for every intent, one of Delivery  *)
(* or none (send_initiated, reconcile_at_startup): attempts do not         *)
(* overlap, an intent is tried again only when nothing was accepted and    *)
(* no end is on record, and no outcome is recorded that is not so.         *)
IntentPromise ==
  /\ \A i \in Intents : OneDelivery(i)!Init
  /\ [][\A i \in Intents : Delivers(i)]_vars

----------------------------------------------------------------------------
(* A statement of the documentation that the code does not keep.           *)

(* docs/invariants.md: a replay or restart refuses rather than             *)
(* double-sending.                                                         *)
NeverTwice == OncePerIntent
=============================================================================
