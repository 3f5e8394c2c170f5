--------------------------- MODULE InitiateProofs ---------------------------
(***************************************************************************)
(* That an intent is sent once and what was sent is charged, for any       *)
(* number of commands, throttles, deaths, disk faults and bridge starts,   *)
(* as long as the power holds; and that the budget and the queue are kept, *)
(* the reserved words sent and a revoked authority refused.  Of these only *)
(* the queue needs the power to hold.                                      *)
(*                                                                         *)
(* The argument: the intent's lock makes a command's step the only one     *)
(* that its intent takes, but for a bridge that closes it as dead.  So it  *)
(* is enough that the place of a command fits the reservation, the         *)
(* receipts and the posts of its intent (Fit), that its own step keeps it  *)
(* so, and that an event "dead" does (DeadFits).  A weaker fit, Place,     *)
(* says nothing of the posts and survives a power failure, too.  It shows  *)
(* that no step but an admission or a move to another hour adds to what is *)
(* charged; the lock of the budget keeps the room those two have found.    *)
(***************************************************************************)
EXTENDS Initiate, FiniteSetTheorems, TLAPS

(* A command at work has an intent, and one that settles has an outcome.   *)
Employed ==
  \A s \in Senders :
    /\ pc[s] # "idle" => job[s].intent \in Intents
    /\ pc[s] \in {"record", "update"} => job[s].outcome \in Outcome

Crossing == {"readmit", "authority", "sending", "post"}

(* A command that is at l, with an outcome, fits the reservation r, the    *)
(* history h and the number n of accepted messages of its intent.          *)
Fit(l, outcome, r, h, n) ==
  /\ l \in Crossing => r.status \in LIVE /\ Terminal(h) \subseteq {"dead"}
  /\ l = "post" => Terminal(h) # {} \/ Unresolved(h)
  /\ n # 0 =>
       /\ n = 1
       /\ r.status \in CHARGED
       /\ "refused" \notin h.events
       /\ Terminal(h) # {} \/ Unresolved(h)
       /\ \/ l \in {"idle", "txn", "open", "deadLetter"}
          \/ l \in {"record", "update"} /\ outcome \in {"sent", "ambiguous"}

Safe ==
  \A i \in Intents :
    /\ Fit("idle", "none", res[i], receipts[i], posts[i])
    /\ \A s \in Senders :
         job[s].intent = i =>
           Fit(pc[s], job[s].outcome, res[i], receipts[i], posts[i])

Typed == TypeOK /\ Employed
IInv == Typed /\ Safe

----------------------------------------------------------------------------
(* What recording an event does to the history.                            *)
LEMMA RecordedIn ==
  ASSUME NEW h \in History, NEW e \in Event
  PROVE  /\ Recorded(h, e) \in History
         /\ Recorded(h, e).events = h.events \cup {e}
         /\ Recorded(h, e).tail = e
BY DEF Recorded, History

(* The empty history has no event.                                         *)
LEMMA FreshHistory ==
  NoHistory \in History /\ Terminal(NoHistory) = {} /\ ~ Unresolved(NoHistory)
BY DEF NoHistory, History, Terminal, Unresolved, Event

(* Setting a status leaves everything else of the reservations alone.      *)
LEMMA SetStatusIn ==
  ASSUME res \in [Intents -> Reservation], NEW i \in Intents,
         NEW status \in Status, SetStatus(i, status)
  PROVE  /\ res' \in [Intents -> Reservation]
         /\ res'[i].status = status
         /\ \A k \in Intents \ {i} : res'[k] = res[k]
BY DEF SetStatus, Reservation

(* A settled status is one, and what an outcome is settled as.             *)
LEMMA SettledIn ==
  /\ \A e \in TERMINAL \cup Outcome : SettledAs[e] \in Status
  /\ \A e \in TERMINAL \ {"refused"} : SettledAs[e] \in CHARGED
BY DEF SettledAs, TERMINAL, Outcome, Status, CHARGED

----------------------------------------------------------------------------
(* Where the commands are, and the locks.                                  *)
Placed == ProcessType /\ OneHolder /\ Employed

(* A command that moves, keeping its intent while it has the lock.         *)
LEMMA MoveKeeps ==
  ASSUME Placed, NEW s \in Senders, NEW l \in Steps, NEW j \in Job,
         pc' = [pc EXCEPT ![s] = l], job' = [job EXCEPT ![s] = j],
         lapsed' \subseteq Senders, UNCHANGED bridgeVars,
         l # "idle" => j.intent \in Intents,
         l \in {"record", "update"} => j.outcome \in Outcome,
         \/ l \in {"idle", "txn"}
         \/ pc[s] \notin {"idle", "txn"} /\ j.intent = job[s].intent,
         l = "create" => BudgetFree
  PROVE  Placed'
<1> USE DEF Placed
<1>1. ProcessType'
  BY DEF ProcessType, bridgeVars
<1>2. /\ pc'[s] = l /\ job'[s] = j
      /\ \A t \in Senders \ {s} : pc'[t] = pc[t] /\ job'[t] = job[t]
  BY DEF ProcessType
<1>3. OneHolder'
  BY <1>2 DEF OneHolder, AtWork, BudgetFree
<1>4. Employed'
  BY <1>2 DEF Employed
<1>5. QED
  BY <1>1, <1>3, <1>4

(* Going on.                                                               *)
LEMMA GotoKeeps ==
  ASSUME Placed, NEW s \in Senders, pc[s] \notin {"idle", "txn"},
         NEW l \in Steps \ {"idle", "txn", "create", "record"}, Goto(s, l),
         l = "update" => pc[s] = "record", UNCHANGED bridgeVars
  PROVE  Placed'
<1>1. job[s] \in Job /\ job' = [job EXCEPT ![s] = job[s]]
  BY DEF Goto, Placed, ProcessType
<1>2. job[s].intent \in Intents
  BY DEF Placed, Employed
<1>3. l = "update" => job[s].outcome \in Outcome
  BY DEF Placed, Employed
<1>4. lapsed' \subseteq Senders
  BY DEF Goto, Placed, ProcessType
<1>5. QED
  BY <1>1, <1>2, <1>3, <1>4, MoveKeeps DEF Goto

(* Leaving.                                                                *)
LEMMA ExitKeeps ==
  ASSUME Placed, NEW s \in Senders, Exit(s), UNCHANGED bridgeVars
  PROVE  Placed'
<1>1. NoJob \in Job
  <2>1. 0 \in 0..MaxHour /\ FALSE \in BOOLEAN
    BY InitiateAssumption
  <2>2. QED
    BY <2>1 DEF NoJob, Job
<1>2. lapsed' \subseteq Senders
  BY DEF Exit, Placed, ProcessType
<1>3. QED
  BY <1>1, <1>2, MoveKeeps DEF Exit, Steps

(* Settling.                                                               *)
LEMMA SettleKeeps ==
  ASSUME Placed, NEW s \in Senders, pc[s] \notin {"idle", "txn"},
         NEW e \in Outcome, Settle(s, e), UNCHANGED bridgeVars
  PROVE  Placed'
<1> DEFINE j == [job[s] EXCEPT !.outcome = e]
<1>1. j \in Job /\ j.intent = job[s].intent /\ j.outcome = e
  BY DEF Placed, ProcessType, Job
<1>2. job' = [job EXCEPT ![s] = j] /\ pc' = [pc EXCEPT ![s] = "record"]
  BY DEF Settle
<1>3. lapsed' \subseteq Senders
  BY DEF Settle, Placed, ProcessType
<1>4. job[s].intent \in Intents
  BY DEF Placed, Employed
<1> HIDE DEF j
<1>5. QED
  BY <1>1, <1>2, <1>3, <1>4, MoveKeeps DEF Steps

----------------------------------------------------------------------------
(* Every step keeps the types and the locks.                               *)

(* The intent of a command that has the lock is one.                       *)
LEMMA AtWorkIntent ==
  ASSUME Typed, NEW s \in Senders, pc[s] # "idle"
  PROVE  job[s].intent \in Intents
BY DEF Typed, Employed

(* Up to the lock.                                                         *)
LEMMA InvokeTyped ==
  ASSUME Typed, NEW s \in Senders, NEW i \in Intents, NEW t \in Texts,
         Invoke(s, i, t)
  PROVE  Typed'
<1> DEFINE j == [intent |-> i, text |-> t, granted |-> enabled, hour |-> 0,
                 outcome |-> "none"]
<1>1. j \in Job
  <2>1. enabled \in BOOLEAN /\ 0 \in 0..MaxHour
    BY InitiateAssumption DEF Typed, TypeOK, WorldType
  <2>2. QED
    BY <2>1 DEF Job
<1>2. j.intent = i
  OBVIOUS
<1>3. job' = [job EXCEPT ![s] = j] /\ pc' = [pc EXCEPT ![s] = "txn"]
  BY DEF Invoke
<1>4. lapsed' \subseteq Senders /\ UNCHANGED bridgeVars
  BY DEF Invoke, Typed, TypeOK, ProcessType
<1> HIDE DEF j
<1>5. Placed'
  BY <1>1, <1>2, <1>3, <1>4, MoveKeeps DEF Typed, TypeOK, Placed, Steps
<1>6. DiskType'
  BY DEF Invoke, diskVars, Typed, TypeOK, DiskType
<1>7. WorldType'
  BY InitiateAssumption DEF Invoke, grantVars, Typed, TypeOK, WorldType
<1>8. QED
  BY <1>5, <1>6, <1>7 DEF Typed, TypeOK, Placed

(* Taking the lock keeps one holder: a command waits until it is free.     *)
LEMMA TakeLockTyped ==
  ASSUME Typed, NEW s \in Senders, TakeLock(s) PROVE Typed'
<1>1. /\ pc' = [pc EXCEPT ![s] = "open"] /\ UNCHANGED <<job, todo, closing>>
      /\ \A t \in Senders : ~ AtWork(t, job[s].intent)
      /\ lapsed' \subseteq Senders /\ pc[s] = "txn"
  BY DEF TakeLock, bridgeVars, Typed, TypeOK, ProcessType
<1>2. ProcessType'
  BY <1>1 DEF Typed, TypeOK, ProcessType, Steps
<1>3. pc'[s] = "open" /\ \A t \in Senders \ {s} : pc'[t] = pc[t]
  BY <1>1 DEF Typed, TypeOK, ProcessType
<1>4. OneHolder' /\ Employed'
  BY <1>1, <1>3 DEF Typed, TypeOK, OneHolder, Employed, AtWork
<1>5. DiskType' /\ WorldType'
  BY DEF TakeLock, diskVars, grantVars, boundVars, Typed, TypeOK, DiskType,
         WorldType
<1>6. QED
  BY <1>2, <1>4, <1>5 DEF Typed, TypeOK

(* The counters and the world move in no step of a command but Invoke and  *)
(* ClaimFails.                                                             *)
LEMMA StillWorld ==
  ASSUME WorldType, UNCHANGED <<now, grantVars, boundVars>> PROVE WorldType'
BY DEF WorldType, grantVars, boundVars

(* Reopen, and Cross, whose reservation at most gets a status that fits a  *)
(* terminal receipt.                                                       *)
LEMMA CloseTyped ==
  ASSUME Typed, NEW s \in Senders, NEW i \in Intents, Close(s, i)
  PROVE  res' \in [Intents -> Reservation]
<1>1. res \in [Intents -> Reservation]
  BY DEF Typed, TypeOK, DiskType
<1>2. CASE UNCHANGED res
  BY <1>1, <1>2
<1>3. CASE \E e \in Terminal(receipts[i]) : SetStatus(i, SettledAs[e])
  BY <1>1, <1>3, SetStatusIn, SettledIn DEF Terminal
<1>4. QED
  BY <1>2, <1>3 DEF Close

(* Reopening what an earlier run left keeps the types.                     *)
LEMMA ReopenTyped ==
  ASSUME Typed, NEW s \in Senders, Reopen(s) PROVE Typed'
<1> DEFINE i == job[s].intent
<1>1. i \in Intents /\ pc[s] = "open"
  BY AtWorkIntent DEF Reopen
<1>2. Placed /\ UNCHANGED bridgeVars
  BY DEF Reopen, Typed, TypeOK, Placed
<1>3. \/ Exit(s) /\ UNCHANGED res
      \/ Close(s, i)
      \/ \E e \in {"refused", "ambiguous"} : Settle(s, e) /\ UNCHANGED res
      \/ Goto(s, "cross") /\ UNCHANGED res
  BY DEF Reopen, GiveUp
<1> HIDE DEF i
<1>4. Placed'
  <2>1. CASE Exit(s) \/ Close(s, i)
    BY <1>2, <2>1, ExitKeeps DEF Close
  <2>2. CASE \E e \in {"refused", "ambiguous"} : Settle(s, e)
    BY <1>1, <1>2, <2>2, SettleKeeps DEF Outcome
  <2>3. CASE Goto(s, "cross")
    BY <1>1, <1>2, <2>3, GotoKeeps DEF Steps
  <2>4. QED
    BY <1>3, <2>1, <2>2, <2>3
<1>5. res' \in [Intents -> Reservation]
  BY <1>1, <1>3, CloseTyped DEF Typed, TypeOK, DiskType
<1>6. DiskType' /\ WorldType'
  BY <1>5, StillWorld DEF Reopen, Typed, TypeOK, DiskType
<1>7. QED
  BY <1>4, <1>6 DEF Typed, TypeOK, Placed

(* Crossing into the send keeps the types.                                 *)
LEMMA CrossTyped ==
  ASSUME Typed, NEW s \in Senders, Cross(s) PROVE Typed'
<1> DEFINE i == job[s].intent
<1>1. i \in Intents /\ pc[s] = "cross"
  BY AtWorkIntent DEF Cross
<1>2. Placed /\ UNCHANGED bridgeVars
  BY DEF Cross, Typed, TypeOK, Placed
<1>3. \/ Exit(s) /\ UNCHANGED res
      \/ Close(s, i)
      \/ Settle(s, "ambiguous") /\ UNCHANGED res
      \/ Goto(s, "readmit") /\ UNCHANGED res
  BY DEF Cross, GiveUp
<1> HIDE DEF i
<1>4. Placed'
  <2>1. CASE Exit(s) \/ Close(s, i)
    BY <1>2, <2>1, ExitKeeps DEF Close
  <2>2. CASE Settle(s, "ambiguous")
    BY <1>1, <1>2, <2>2, SettleKeeps DEF Outcome
  <2>3. CASE Goto(s, "readmit")
    BY <1>1, <1>2, <2>3, GotoKeeps DEF Steps
  <2>4. QED
    BY <1>3, <2>1, <2>2, <2>3
<1>5. res' \in [Intents -> Reservation]
  BY <1>1, <1>3, CloseTyped DEF Typed, TypeOK, DiskType
<1>6. DiskType' /\ WorldType'
  BY <1>5, StillWorld DEF Cross, Typed, TypeOK, DiskType
<1>7. QED
  BY <1>4, <1>6 DEF Typed, TypeOK, Placed
(* Steps that change the place of a command and at most the letter, the    *)
(* flags and the posts.                                                    *)
LEMMA PlainTyped ==
  ASSUME Typed, NEW s \in Senders,
         \/ Start(s) \/ Claim(s) \/ SyncClaim(s) \/ Authority(s)
         \/ DeadLetter(s)
  PROVE  Typed'
<1>1. Placed /\ UNCHANGED bridgeVars
  BY DEF Start, Claim, SyncClaim, Authority, DeadLetter, Typed, TypeOK, Placed
<1>2. /\ pc[s] \notin {"idle", "txn"}
      /\ \/ Exit(s)
         \/ Settle(s, "refused")
         \/ \E l \in {"admit", "syncClaim", "refund", "composed", "sending"} :
              Goto(s, l)
  BY DEF Start, Claim, SyncClaim, Authority, DeadLetter
<1>3. Placed'
  <2>1. CASE Exit(s)
    BY <1>1, <2>1, ExitKeeps
  <2>2. CASE Settle(s, "refused")
    BY <1>1, <1>2, <2>2, SettleKeeps DEF Outcome
  <2>3. CASE \E l \in {"admit", "syncClaim", "refund", "composed", "sending"} :
               Goto(s, l)
    BY <1>1, <1>2, <2>3, GotoKeeps DEF Steps
  <2>4. QED
    BY <1>2, <2>1, <2>2, <2>3
<1>4. UNCHANGED <<res, receipts, posts>>
  BY DEF Start, Claim, SyncClaim, Authority, DeadLetter, diskVars
<1>5. claim' \in [Intents -> {"none", "partial", "whole"}]
  BY DEF Start, Claim, SyncClaim, Authority, DeadLetter, diskVars, Typed,
         TypeOK, DiskType
<1>6. flagged' \subseteq Intents
  <2>1. job[s].intent \in Intents
    BY <1>2, AtWorkIntent
  <2>2. QED
    BY <2>1 DEF Start, Claim, SyncClaim, Authority, DeadLetter, diskVars, Typed,
                TypeOK, DiskType
<1>7. WorldType'
  BY StillWorld DEF Start, Claim, SyncClaim, Authority, DeadLetter, Typed, TypeOK
<1>8. QED
  BY <1>3, <1>4, <1>5, <1>6, <1>7 DEF Typed, TypeOK, Placed, DiskType

(* Admission changes only where the command is.                            *)
LEMMA AdmitTyped ==
  ASSUME Typed, NEW s \in Senders, Admit(s) PROVE Typed'
<1> DEFINE j == [job[s] EXCEPT !.hour = now]
<1>1. Placed /\ UNCHANGED bridgeVars /\ pc[s] = "admit"
  BY DEF Admit, Typed, TypeOK, Placed
<1>2. Placed'
  <2>1. CASE Exit(s)
    BY <1>1, <2>1, ExitKeeps
  <2>2. ASSUME BudgetFree, pc' = [pc EXCEPT ![s] = "create"],
               job' = [job EXCEPT ![s].hour = now], UNCHANGED lapsed
        PROVE  Placed'
    <3>1. j \in Job /\ j.intent = job[s].intent
      BY DEF Typed, TypeOK, ProcessType, WorldType, Job
    <3>2. job' = [job EXCEPT ![s] = j]
      BY <2>2
    <3>3. j.intent \in Intents /\ lapsed' \subseteq Senders
      BY <1>1, <2>2, <3>1, AtWorkIntent DEF Typed, TypeOK, ProcessType
    <3> HIDE DEF j
    <3>4. QED
      BY <1>1, <2>2, <3>1, <3>2, <3>3, MoveKeeps DEF Steps
  <2>3. QED
    BY <2>1, <2>2 DEF Admit
<1>3. DiskType' /\ WorldType'
  BY StillWorld DEF Admit, diskVars, Typed, TypeOK, DiskType
<1>4. QED
  BY <1>2, <1>3 DEF Typed, TypeOK, Placed

(* The new reservation, and who else has one.                              *)
LEMMA CreatedIn ==
  ASSUME Typed, NEW s \in Senders, CreateReservation(s)
  PROVE  LET i == job[s].intent IN
           /\ res' \in [Intents -> Reservation]
           /\ res'[i].status = "reserved"
           /\ \A k \in Intents \ {i} : res'[k] = res[k]
<1> DEFINE i == job[s].intent
           r == [status |-> "reserved", at |-> job[s].hour, text |-> job[s].text]
<1>1. i \in Intents
  BY AtWorkIntent DEF CreateReservation
<1>2. r \in Reservation /\ r.status = "reserved"
  BY DEF Typed, TypeOK, ProcessType, Job, Reservation, Status
<1>3. res' = [res EXCEPT ![i] = r] /\ res \in [Intents -> Reservation]
  BY DEF CreateReservation, Typed, TypeOK, DiskType
<1> HIDE DEF i, r
<1>4. /\ res' \in [Intents -> Reservation] /\ res'[i] = r
      /\ \A k \in Intents \ {i} : res'[k] = res[k]
  BY <1>1, <1>2, <1>3
<1>5. QED
  BY <1>2, <1>4 DEF i

(* A reservation that is created is written for one intent in one hour.    *)
LEMMA CreateTyped ==
  ASSUME Typed, NEW s \in Senders, CreateReservation(s) PROVE Typed'
<1> DEFINE j == [job[s] EXCEPT !.hour = 0]
<1>1. j \in Job /\ j.intent = job[s].intent
  BY InitiateAssumption DEF Typed, TypeOK, ProcessType, Job
<1>2. /\ job' = [job EXCEPT ![s] = j] /\ pc' = [pc EXCEPT ![s] = "claim"]
      /\ UNCHANGED bridgeVars /\ pc[s] = "create"
  BY DEF CreateReservation
<1>3. j.intent \in Intents /\ lapsed' \subseteq Senders
  BY <1>1, <1>2, AtWorkIntent
     DEF CreateReservation, Typed, TypeOK, ProcessType
<1> HIDE DEF j
<1>4. Placed'
  BY <1>1, <1>2, <1>3, MoveKeeps DEF Typed, TypeOK, Placed, Steps
<1>5. DiskType' /\ WorldType'
  BY CreatedIn, StillWorld DEF CreateReservation, Typed, TypeOK, DiskType
<1>6. QED
  BY <1>4, <1>5 DEF Typed, TypeOK, Placed

(* A claim that fails changes only where the command is.                   *)
LEMMA ClaimFailsTyped ==
  ASSUME Typed, NEW s \in Senders, ClaimFails(s) PROVE Typed'
<1>1. Placed'
  BY GotoKeeps DEF ClaimFails, Typed, TypeOK, Placed, Steps
<1>2. claim' \in [Intents -> {"none", "partial", "whole"}]
  BY DEF ClaimFails, Typed, TypeOK, DiskType
<1>3. UNCHANGED <<res, receipts, flagged, posts, now, grantVars, gestures, edits>>
  BY DEF ClaimFails
<1>4. crashes' \in 0..MaxCrashes
  BY InitiateAssumption DEF ClaimFails, Typed, TypeOK, WorldType
<1>5. WorldType'
  BY <1>3, <1>4 DEF grantVars, Typed, TypeOK, WorldType
<1>6. QED
  BY <1>1, <1>2, <1>3, <1>5 DEF Typed, TypeOK, Placed, DiskType
(* Steps that set the status of the command's own reservation.             *)
LEMMA StatusTyped ==
  ASSUME Typed, NEW s \in Senders, Refund(s) \/ UpdateReservation(s)
  PROVE  Typed'
<1> DEFINE i == job[s].intent
<1>1. i \in Intents /\ pc[s] \notin {"idle", "txn"}
  BY AtWorkIntent DEF Refund, UpdateReservation
<1>2. \E status \in Status : SetStatus(i, status)
  <2>1. CASE Refund(s)
    BY <2>1 DEF Refund, Status
  <2>2. CASE UpdateReservation(s)
    <3>1. job[s].outcome \in Outcome
      BY <2>2 DEF UpdateReservation, Typed, Employed
    <3>2. QED
      BY <2>2, <3>1, SettledIn DEF UpdateReservation
  <2>3. QED
    BY <2>1, <2>2
<1>3. Placed'
  BY <1>1, GotoKeeps, ExitKeeps
     DEF Refund, UpdateReservation, Typed, TypeOK, Placed, Steps
<1> HIDE DEF i
<1>4. res' \in [Intents -> Reservation]
  BY <1>1, <1>2, SetStatusIn DEF Typed, TypeOK, DiskType
<1>5. DiskType' /\ WorldType'
  BY <1>4, StillWorld DEF Refund, UpdateReservation, Typed, TypeOK, DiskType
<1>6. QED
  BY <1>3, <1>5 DEF Typed, TypeOK, Placed

(* Steps that record an event of the command's own letter.                 *)
LEMMA RecordTyped ==
  ASSUME Typed, NEW s \in Senders,
         RecordComposed(s) \/ RecordSending(s) \/ RecordOutcome(s)
  PROVE  Typed'
<1> DEFINE i == job[s].intent
<1>1. i \in Intents /\ pc[s] \notin {"idle", "txn"}
  BY AtWorkIntent DEF RecordComposed, RecordSending, RecordOutcome
<1>2. \E e \in Event : receipts' = [receipts EXCEPT ![i] = Recorded(@, e)]
  <2>1. CASE RecordOutcome(s)
    <3>1. job[s].outcome \in Event
      BY <2>1 DEF RecordOutcome, Typed, Employed, Outcome, Event
    <3>2. QED
      BY <2>1, <3>1 DEF RecordOutcome
  <2>2. QED
    BY <2>1 DEF RecordComposed, RecordSending, Event
<1>3. Placed'
  BY <1>1, GotoKeeps
     DEF RecordComposed, RecordSending, RecordOutcome, Typed, TypeOK, Placed,
         Steps
<1> HIDE DEF i
<1>4. receipts' \in [Intents -> History]
  BY <1>1, <1>2, RecordedIn DEF Typed, TypeOK, DiskType
<1>5. DiskType' /\ WorldType'
  BY <1>4, StillWorld
     DEF RecordComposed, RecordSending, RecordOutcome, Typed, TypeOK, DiskType
<1>6. QED
  BY <1>3, <1>5 DEF Typed, TypeOK, Placed

(* Moving a reservation to the current hour leaves the statuses alone.     *)
LEMMA ReadmittedIn ==
  ASSUME Typed, NEW s \in Senders, Readmit(s)
  PROVE  /\ res' \in [Intents -> Reservation]
         /\ \A k \in Intents : res'[k].status = res[k].status
         /\ \A k \in Intents \ {job[s].intent} : res'[k] = res[k]
<1> DEFINE i == job[s].intent
<1>1. i \in Intents
  BY AtWorkIntent DEF Readmit
<1>2. res \in [Intents -> Reservation] /\ now \in 0..MaxHour
  BY DEF Typed, TypeOK, DiskType, WorldType
<1>3. res' = res \/ res' = [res EXCEPT ![i].at = now]
  BY DEF Readmit
<1> HIDE DEF i
<1>4. /\ res' \in [Intents -> Reservation]
      /\ \A k \in Intents : res'[k].status = res[k].status
      /\ \A k \in Intents \ {i} : res'[k] = res[k]
  BY <1>1, <1>2, <1>3 DEF Reservation
<1>5. QED
  BY <1>4 DEF i

(* Readmitting a pending send keeps the types.                             *)
LEMMA ReadmitTyped ==
  ASSUME Typed, NEW s \in Senders, Readmit(s) PROVE Typed'
<1>1. Placed'
  BY GotoKeeps, ExitKeeps DEF Readmit, Typed, TypeOK, Placed, Steps
<1>2. DiskType' /\ WorldType'
  BY ReadmittedIn, StillWorld DEF Readmit, Typed, TypeOK, DiskType
<1>3. QED
  BY <1>1, <1>2 DEF Typed, TypeOK, Placed

(* An answer counts a message, at most one, only with an outcome that says *)
(* so or leaves it open.                                                   *)
LEMMA AnswerIn ==
  ASSUME NEW a \in Answer
  PROVE  /\ a[1] \in Outcome /\ a[2] \in {0, 1}
         /\ a[2] # 0 => a[1] \in {"sent", "ambiguous"}
BY DEF Answer, Outcome

(* The post adds a message at the platform for a letter that exists.       *)
LEMMA PostTyped ==
  ASSUME Typed, NEW s \in Senders, Post(s) PROVE Typed'
<1>1. PICK a \in Answer : /\ Settle(s, a[1])
                          /\ posts' = [posts EXCEPT ![job[s].intent] = @ + a[2]]
  BY DEF Post
<1>2. job[s].intent \in Intents /\ a[1] \in Outcome /\ a[2] \in Nat
  BY AtWorkIntent, AnswerIn DEF Post
<1>3. Placed'
  BY <1>1, <1>2, SettleKeeps DEF Post, Typed, TypeOK, Placed
<1>4. posts' \in [Intents -> Nat]
  BY <1>1, <1>2 DEF Typed, TypeOK, DiskType
<1>5. DiskType' /\ WorldType'
  BY <1>4, StillWorld DEF Post, diskVars, Typed, TypeOK, DiskType
<1>6. QED
  BY <1>3, <1>5 DEF Typed, TypeOK, Placed

(* An empty reservation is one.                                            *)
LEMMA EmptyIn ==
  /\ NoReservation \in Reservation /\ EmptyReservation \in Reservation
  /\ EmptyReservation.status = "empty"
<1>1. 0 \in 0..MaxHour
  BY InitiateAssumption
<1>2. QED
  BY <1>1 DEF NoReservation, EmptyReservation, Reservation, Status

(* A command that dies frees the lock and may leave an empty reservation.  *)
LEMMA DieTyped ==
  ASSUME Typed, NEW s \in Senders, Die(s) PROVE Typed'
<1>1. Placed'
  BY ExitKeeps DEF Die, Typed, TypeOK, Placed
<1>2. res' \in [Intents -> Reservation]
  BY EmptyIn, AtWorkIntent DEF Die, Typed, TypeOK, DiskType
<1>3. crashes' \in 0..MaxCrashes
  BY InitiateAssumption DEF Die, Typed, TypeOK, WorldType
<1>4. UNCHANGED <<claim, receipts, flagged, posts, now, grantVars, gestures, edits>>
  BY DEF Die
<1>5. WorldType' /\ DiskType'
  BY <1>2, <1>3, <1>4 DEF grantVars, Typed, TypeOK, WorldType, DiskType
<1>6. QED
  BY <1>1, <1>5 DEF Typed, TypeOK, Placed
(* The clock and the operator.                                             *)
LEMMA WorldTyped ==
  ASSUME Typed, Tick \/ EditAuthority PROVE Typed'
<1>1. UNCHANGED <<diskVars, posts, pc, job, bridgeVars>>
  BY DEF Tick, EditAuthority, senderVars
<1>2. lapsed' \subseteq Senders
  BY DEF Tick, EditAuthority, senderVars, Typed, TypeOK, ProcessType
<1>3. enabled' \in BOOLEAN
  BY DEF Tick, EditAuthority, grantVars, Typed, TypeOK, WorldType
<1>4. allowed' \in BOOLEAN
  BY DEF Tick, EditAuthority, grantVars, Typed, TypeOK, WorldType
<1>5. WorldType'
  BY <1>3, <1>4, InitiateAssumption
     DEF Tick, EditAuthority, boundVars, Typed, TypeOK, WorldType
<1>6. QED
  BY <1>1, <1>2, <1>5
     DEF diskVars, bridgeVars, Typed, TypeOK, DiskType, ProcessType, OneHolder,
         AtWork, Employed

(* A starting bridge.                                                      *)
LEMMA BridgeTyped == ASSUME Typed, Bridge PROVE Typed'
<1>1. receipts' \in [Intents -> History]
  BY RecordedIn
     DEF Bridge, Rise, FlagInFlight, CloseInFlight, StopBridge, diskVars, Event,
         Typed, TypeOK, DiskType, ProcessType
<1>2. UNCHANGED <<res, claim, posts, now, grantVars, boundVars, senderVars>>
  BY DEF Bridge, Rise, FlagInFlight, CloseInFlight, StopBridge, diskVars
<1>3. flagged' \subseteq Intents
  BY DEF Bridge, Rise, FlagInFlight, CloseInFlight, StopBridge, diskVars,
         Typed, TypeOK, DiskType
<1>4. todo' \subseteq Intents /\ closing' \subseteq todo'
  <2>1. CASE Rise
    BY <2>1 DEF Rise, Typed, TypeOK, ProcessType
  <2>2. CASE StopBridge
    BY <2>2 DEF StopBridge
  <2>3. ASSUME NEW i \in Intents, FlagInFlight(i) \/ CloseInFlight(i)
        PROVE  todo' \subseteq Intents /\ closing' \subseteq todo'
    BY <2>3 DEF FlagInFlight, CloseInFlight, Typed, TypeOK, ProcessType
  <2>4. QED
    BY <2>1, <2>2, <2>3 DEF Bridge
<1>5. WorldType'
  BY <1>2, StillWorld DEF Typed, TypeOK
<1>6. QED
  BY <1>1, <1>2, <1>3, <1>4, <1>5
     DEF senderVars, Typed, TypeOK, DiskType, ProcessType, OneHolder, AtWork,
         Employed

(* Losing the power may undo what was not flushed, never its type.         *)
LEMMA PowerLossTyped == ASSUME Typed, PowerLoss PROVE Typed'
<1>1. /\ pc' = [s \in Senders |-> "idle"] /\ job' = [s \in Senders |-> NoJob]
      /\ lapsed' = {} /\ todo' = {} /\ closing' = {}
      /\ UNCHANGED <<now, grantVars, flagged, posts, gestures, edits>>
  BY DEF PowerLoss
<1>2. NoJob \in Job
  <2>1. 0 \in 0..MaxHour /\ FALSE \in BOOLEAN
    BY InitiateAssumption
  <2>2. QED
    BY <2>1 DEF NoJob, Job
<1>3. ProcessType'
  BY <1>1, <1>2 DEF ProcessType, Steps
<1>4. OneHolder' /\ Employed'
  BY <1>1 DEF OneHolder, AtWork, Employed
<1>5. receipts' \in [Intents -> History]
  BY FreshHistory DEF PowerLoss, Typed, TypeOK, DiskType
<1>6. res' \in [Intents -> Reservation]
  BY EmptyIn DEF PowerLoss, Typed, TypeOK, DiskType
<1>7. claim' \in [Intents -> {"none", "partial", "whole"}]
  BY DEF PowerLoss, Typed, TypeOK, DiskType
<1>8. crashes' \in 0..MaxCrashes
  BY InitiateAssumption DEF PowerLoss, Typed, TypeOK, WorldType
<1>9. DiskType' /\ WorldType'
  BY <1>1, <1>5, <1>6, <1>7, <1>8
     DEF grantVars, Typed, TypeOK, DiskType, WorldType
<1>10. QED
  BY <1>3, <1>4, <1>9 DEF Typed, TypeOK

(* Nothing happening keeps the types.                                      *)
LEMMA StutterTyped == ASSUME Typed, UNCHANGED vars PROVE Typed'
BY DEF vars, grantVars, diskVars, senderVars, bridgeVars, boundVars, Typed,
       TypeOK, WorldType, DiskType, ProcessType, OneHolder, AtWork, Employed

(* Every step keeps the types and the one holder of the lock.              *)
LEMMA TypedStep == ASSUME Typed, [Next]_vars PROVE Typed'
<1>1. ASSUME NEW s \in Senders, Send(s) \/ Die(s) PROVE Typed'
  BY <1>1, InvokeTyped, TakeLockTyped, ReopenTyped, CrossTyped, PlainTyped,
     AdmitTyped, CreateTyped, ClaimFailsTyped, StatusTyped, RecordTyped,
     ReadmitTyped, PostTyped, DieTyped DEF Send
<1>2. QED
  BY <1>1, WorldTyped, BridgeTyped, PowerLossTyped, StutterTyped DEF Next

(* The initial states satisfy the whole invariant.                         *)
LEMMA IInvInit == ASSUME Init PROVE IInv
<1>1. WorldType
  BY InitiateAssumption DEF Init, WorldType
<1>2. NoReservation \in Reservation /\ NoHistory \in History
  BY EmptyIn, FreshHistory
<1>3. NoJob \in Job
  <2>1. 0 \in 0..MaxHour /\ FALSE \in BOOLEAN
    BY InitiateAssumption
  <2>2. QED
    BY <2>1 DEF NoJob, Job
<1>4. DiskType /\ ProcessType
  BY <1>2, <1>3 DEF Init, DiskType, ProcessType, Steps
<1>5. OneHolder /\ Employed
  BY DEF Init, OneHolder, AtWork, Employed
<1>6. Safe
  BY DEF Init, Safe, Fit, Crossing
<1>7. QED
  BY <1>1, <1>4, <1>5, <1>6 DEF IInv, Typed, TypeOK

(* Every variable of Initiate keeps its type, and every lock has one       *)
(* holder, power failures included (TakeLock, BudgetFree).                 *)
THEOREM InitiateTypeCorrect == Spec => []TypeOK
<1>1. Init => Typed
  BY IInvInit DEF IInv
<1>2. Typed /\ [Next]_vars => Typed'
  BY TypedStep
<1>3. Typed => TypeOK
  BY DEF Typed
<1>4. QED
  BY <1>1, <1>2, <1>3, PTL DEF Spec
----------------------------------------------------------------------------
(* Every step but a power failure keeps the commands fitting.              *)

(* At the places up to the lock a command fits what none at work does.     *)
LEMMA AwayFits ==
  ASSUME NEW r, NEW h, NEW n, NEW l, NEW outcome, Fit(l, outcome, r, h, n),
         NEW m \in {"idle", "txn", "open", "deadLetter"}, NEW o
  PROVE  Fit(m, o, r, h, n)
BY DEF Fit, Crossing

(* A step of the command that has the lock of i, and of no other intent:   *)
(* it is enough that the command fits afterwards.                          *)
LEMMA OwnStep ==
  ASSUME IInv, NEW s \in Senders, NEW i \in Intents, AtWork(s, i),
         NEW l, NEW j, pc' = [pc EXCEPT ![s] = l], job' = [job EXCEPT ![s] = j],
         l = "idle" \/ j.intent = i,
         \A k \in Intents \ {i} : /\ res'[k] = res[k]
                                  /\ receipts'[k] = receipts[k]
                                  /\ posts'[k] = posts[k],
         Fit(l, j.outcome, res'[i], receipts'[i], posts'[i])
  PROVE  Safe'
<1>1. /\ pc'[s] = l /\ job'[s] = j
      /\ \A t \in Senders \ {s} : pc'[t] = pc[t] /\ job'[t] = job[t]
  BY DEF IInv, Typed, TypeOK, ProcessType
<1>2. \A t \in Senders \ {s} : job[t].intent = i => pc[t] \in {"idle", "txn"}
  BY DEF IInv, Typed, TypeOK, OneHolder, AtWork
<1>3. ASSUME NEW k \in Intents
      PROVE  Fit("idle", "none", res'[k], receipts'[k], posts'[k])
  <2>1. CASE k = i
    BY <2>1, AwayFits
  <2>2. CASE k # i
    BY <2>2 DEF IInv, Safe
  <2>3. QED
    BY <2>1, <2>2
<1>4. ASSUME NEW k \in Intents, NEW t \in Senders, job'[t].intent = k
      PROVE  Fit(pc'[t], job'[t].outcome, res'[k], receipts'[k], posts'[k])
  <2>1. CASE t = s /\ l = "idle"
    BY <1>1, <1>3, <2>1, AwayFits
  <2>2. CASE t = s /\ l # "idle"
    BY <1>1, <1>4, <2>2
  <2>3. CASE t # s /\ k = i
    BY <1>1, <1>2, <1>3, <1>4, <2>3, AwayFits
  <2>4. CASE t # s /\ k # i
    BY <1>1, <1>4, <2>4 DEF IInv, Safe
  <2>5. QED
    BY <2>1, <2>2, <2>3, <2>4
<1>5. QED
  BY <1>3, <1>4 DEF Safe

(* How a command that is at work fits.                                     *)
LEMMA WorkFits ==
  ASSUME IInv, NEW s \in Senders, pc[s] \notin {"idle", "txn"}
  PROVE  LET i == job[s].intent IN
           /\ i \in Intents /\ AtWork(s, i)
           /\ Fit(pc[s], job[s].outcome, res[i], receipts[i], posts[i])
           /\ res[i] \in Reservation /\ receipts[i] \in History
           /\ posts[i] \in Nat
BY AtWorkIntent DEF IInv, AtWork, Safe, Typed, TypeOK, DiskType

(* Going on, with nothing on disk or at the platform changed.              *)
LEMMA GotoSafe ==
  ASSUME IInv, NEW s \in Senders, pc[s] \notin {"idle", "txn"}, NEW l,
         Goto(s, l), UNCHANGED <<res, receipts, posts>>,
         LET i == job[s].intent IN
           Fit(l, job[s].outcome, res[i], receipts[i], posts[i])
  PROVE  Safe'
<1>1. job' = [job EXCEPT ![s] = job[s]] /\ pc' = [pc EXCEPT ![s] = l]
  BY DEF Goto, IInv, Typed, TypeOK, ProcessType
<1>2. QED
  BY <1>1, WorkFits, OwnStep

(* Going on with a changed reservation.                                    *)
LEMMA ChangeSafe ==
  ASSUME IInv, NEW s \in Senders, pc[s] \notin {"idle", "txn"}, NEW l,
         Goto(s, l), UNCHANGED <<receipts, posts>>,
         NEW i, i = job[s].intent,
         \A k \in Intents \ {i} : res'[k] = res[k],
         Fit(l, job[s].outcome, res'[i], receipts'[i], posts'[i])
  PROVE  Safe'
<1>1. job' = [job EXCEPT ![s] = job[s]] /\ pc' = [pc EXCEPT ![s] = l]
  BY DEF Goto, IInv, Typed, TypeOK, ProcessType
<1>2. i \in Intents /\ AtWork(s, i)
  BY WorkFits
<1>3. QED
  BY <1>1, <1>2, OwnStep

(* Leaving, the reservation having a status that fits.                     *)
LEMMA ExitSafe ==
  ASSUME IInv, NEW s \in Senders, pc[s] \notin {"idle", "txn"}, Exit(s),
         UNCHANGED posts,
         LET i == job[s].intent IN
           /\ \A k \in Intents \ {i} : /\ res'[k] = res[k]
                                        /\ receipts'[k] = receipts[k]
           /\ Fit("idle", "none", res'[i], receipts'[i], posts'[i])
  PROVE  Safe'
<1>1. job' = [job EXCEPT ![s] = NoJob] /\ pc' = [pc EXCEPT ![s] = "idle"]
  BY DEF Exit
<1>2. NoJob.outcome = "none"
  BY DEF NoJob
<1>3. QED
  BY <1>1, <1>2, WorkFits, OwnStep

(* Settling, with what was accepted counted.                               *)
LEMMA SettleSafe ==
  ASSUME IInv, NEW s \in Senders, pc[s] \notin {"idle", "txn"}, NEW e,
         Settle(s, e), UNCHANGED <<res, receipts>>,
         LET i == job[s].intent IN
           /\ \A k \in Intents \ {i} : posts'[k] = posts[k]
           /\ Fit("record", e, res[i], receipts[i], posts'[i])
  PROVE  Safe'
<1> DEFINE j == [job[s] EXCEPT !.outcome = e]
<1>1. job[s] \in Job
  BY DEF IInv, Typed, TypeOK, ProcessType
<1>2. j.intent = job[s].intent /\ j.outcome = e
  BY <1>1 DEF Job
<1>3. job' = [job EXCEPT ![s] = j] /\ pc' = [pc EXCEPT ![s] = "record"]
  BY DEF Settle
<1> HIDE DEF j
<1>4. QED
  BY <1>2, <1>3, WorkFits, OwnStep

(* A command that starts fits whatever the disk holds.                     *)
LEMMA InvokeSafe ==
  ASSUME IInv, NEW s \in Senders,
         TakeLock(s) \/ \E i \in Intents, t \in Texts : Invoke(s, i, t)
  PROVE  Safe'
<1>1. UNCHANGED <<res, receipts, posts>>
  BY DEF TakeLock, Invoke, diskVars
<1>2. \A t \in Senders \ {s} : pc'[t] = pc[t] /\ job'[t] = job[t]
  BY DEF TakeLock, Invoke, IInv, Typed, TypeOK, ProcessType
<1>3. pc'[s] \in {"txn", "open"}
  BY DEF TakeLock, Invoke, IInv, Typed, TypeOK, ProcessType
<1>4. ASSUME NEW k \in Intents, NEW t \in Senders, job'[t].intent = k
      PROVE  Fit(pc'[t], job'[t].outcome, res'[k], receipts'[k], posts'[k])
  <2>1. Fit("idle", "none", res[k], receipts[k], posts[k])
    BY DEF IInv, Safe
  <2>2. CASE t = s
    BY <1>1, <1>3, <2>1, <2>2, AwayFits
  <2>3. CASE t # s
    BY <1>1, <1>2, <1>4, <2>3 DEF IInv, Safe
  <2>4. QED
    BY <2>2, <2>3
<1>5. QED
  BY <1>1, <1>4 DEF IInv, Safe

(* Closing by a terminal receipt does not refund what was accepted, for    *)
(* then none of them says refused.                                         *)
LEMMA CloseSafe ==
  ASSUME IInv, NEW s \in Senders, pc[s] \in {"open", "cross"},
         Close(s, job[s].intent), UNCHANGED <<receipts, posts>>
  PROVE  Safe'
<1> DEFINE i == job[s].intent
<1>1. /\ i \in Intents
      /\ Fit(pc[s], job[s].outcome, res[i], receipts[i], posts[i])
  BY WorkFits
<1>2. Fit("idle", "none", res[i], receipts[i], posts[i])
  BY <1>1, AwayFits
<1>3. res \in [Intents -> Reservation]
  BY DEF IInv, Typed, TypeOK, DiskType
<1>4. CASE UNCHANGED res
  BY <1>2, <1>4, ExitSafe DEF Close
<1>5. ASSUME NEW e \in Terminal(receipts[i]), SetStatus(i, SettledAs[e])
      PROVE  Safe'
  <2>1. e \in TERMINAL /\ (e = "refused" => "refused" \in receipts[i].events)
    BY DEF Terminal
  <2>2. /\ res'[i].status = SettledAs[e]
        /\ \A k \in Intents \ {i} : res'[k] = res[k]
    BY <1>1, <1>3, <1>5, <2>1, SettledIn, SetStatusIn
  <2>3. posts[i] # 0 => res'[i].status \in CHARGED
    BY <1>2, <2>1, <2>2, SettledIn DEF Fit
  <2>4. Fit("idle", "none", res'[i], receipts[i], posts[i])
    BY <1>2, <2>3 DEF Fit, Crossing
  <2>5. QED
    BY <2>2, <2>4, ExitSafe DEF Close
<1>6. QED
  BY <1>4, <1>5 DEF Close

(* Giving up settles a send begun as ambiguous.                            *)
LEMMA GiveUpSafe ==
  ASSUME IInv, NEW s \in Senders, pc[s] \in {"open", "cross"},
         GiveUp(s, job[s].intent), UNCHANGED <<receipts, posts>>
  PROVE  Safe'
<1> DEFINE i == job[s].intent
<1>1. Fit(pc[s], job[s].outcome, res[i], receipts[i], posts[i])
  BY WorkFits
<1>2. Fit("record", "ambiguous", res[i], receipts[i], posts[i])
  BY <1>1 DEF Fit, Crossing
<1>3. QED
  BY <1>2, SettleSafe DEF GiveUp

(* An intent the receipts leave clear has had nothing accepted.            *)
LEMMA ClearIsUnposted ==
  ASSUME IInv, NEW s \in Senders, pc[s] \notin {"idle", "txn"},
         Clear(job[s].intent)
  PROVE  posts[job[s].intent] = 0
BY WorkFits DEF Fit, Clear

(* Reopening: what is found decides the place, and the place fits it.      *)
LEMMA ReopenSafe ==
  ASSUME IInv, NEW s \in Senders, Reopen(s) PROVE Safe'
<1> DEFINE i == job[s].intent
<1>1. pc[s] = "open" /\ UNCHANGED <<receipts, posts>>
  BY DEF Reopen
<1>2. Fit(pc[s], job[s].outcome, res[i], receipts[i], posts[i])
  BY <1>1, WorkFits
<1>3. CASE Close(s, i)
  BY <1>1, <1>3, CloseSafe
<1>4. CASE GiveUp(s, i)
  BY <1>1, <1>4, GiveUpSafe
<1>5. CASE Exit(s) /\ UNCHANGED res
  <2>1. Fit("idle", "none", res[i], receipts[i], posts[i])
    BY <1>2, AwayFits
  <2>2. QED
    BY <1>1, <1>5, <2>1, ExitSafe
<1>6. CASE Clear(i) /\ UNCHANGED res /\ (Goto(s, "cross") \/ Settle(s, "refused"))
  <2>1. posts[i] = 0
    BY <1>1, <1>6, ClearIsUnposted
  <2>2. /\ Fit("cross", job[s].outcome, res[i], receipts[i], posts[i])
        /\ Fit("record", "refused", res[i], receipts[i], posts[i])
    BY <2>1 DEF Fit, Crossing
  <2>3. QED
    BY <1>1, <1>6, <2>2, GotoSafe, SettleSafe
<1>7. QED
  BY <1>3, <1>4, <1>5, <1>6 DEF Reopen

(* Crossing: the command goes on to post only where nothing was accepted.  *)
LEMMA CrossSafe ==
  ASSUME IInv, NEW s \in Senders, Cross(s) PROVE Safe'
<1> DEFINE i == job[s].intent
<1>1. pc[s] = "cross" /\ UNCHANGED <<receipts, posts>>
  BY DEF Cross
<1>2. Fit(pc[s], job[s].outcome, res[i], receipts[i], posts[i])
  BY <1>1, WorkFits
<1>3. CASE Close(s, i)
  BY <1>1, <1>3, CloseSafe
<1>4. CASE GiveUp(s, i)
  BY <1>1, <1>4, GiveUpSafe
<1>5. CASE Clear(i) /\ UNCHANGED res /\ Exit(s)
  <2>1. posts[i] = 0
    BY <1>1, <1>5, ClearIsUnposted
  <2>2. Fit("idle", "none", res[i], receipts[i], posts[i])
    BY <2>1 DEF Fit, Crossing
  <2>3. QED
    BY <1>1, <1>5, <2>2, ExitSafe
<1>6. CASE Clear(i) /\ UNCHANGED res /\ res[i].status \in LIVE /\ Goto(s, "readmit")
  <2>1. posts[i] = 0 /\ Terminal(receipts[i]) = {}
    BY <1>1, <1>6, ClearIsUnposted DEF Clear
  <2>2. Fit("readmit", job[s].outcome, res[i], receipts[i], posts[i])
    BY <1>6, <2>1 DEF Fit
  <2>3. QED
    BY <1>1, <1>6, <2>2, GotoSafe
<1>7. QED
  BY <1>3, <1>4, <1>5, <1>6 DEF Cross
(* Before its post nothing of the intent has been accepted, and away from  *)
(* the crossing anything fits then.                                        *)
LEMMA Unposted ==
  ASSUME IInv, NEW s \in Senders,
         pc[s] \in Steps \ {"idle", "txn", "open", "record", "update", "deadLetter"}
  PROVE  posts[job[s].intent] = 0
BY WorkFits DEF Fit

(* Where nothing was accepted and the status is open, the next place fits. *)
LEMMA UnpostedFits ==
  ASSUME NEW l, l \notin Crossing, NEW outcome, NEW r, NEW h
  PROVE  Fit(l, outcome, r, h, 0)
BY DEF Fit, Crossing

(* Steps at which nothing has been accepted and none of it changes.        *)
LEMMA EarlySafe ==
  ASSUME IInv, NEW s \in Senders, pc[s] \notin {"idle", "txn"},
         posts[job[s].intent] = 0, UNCHANGED <<res, receipts, posts>>,
         \/ Exit(s)
         \/ \E l \in Steps \ Crossing : Goto(s, l)
         \/ \E e \in Outcome : Settle(s, e)
  PROVE  Safe'
<1>1. "record" \notin Crossing /\ "idle" \notin Crossing
  BY DEF Crossing
<1>2. CASE Exit(s)
  BY <1>1, <1>2, UnpostedFits, ExitSafe
<1>3. CASE \E l \in Steps \ Crossing : Goto(s, l)
  BY <1>3, UnpostedFits, GotoSafe
<1>4. CASE \E e \in Outcome : Settle(s, e)
  BY <1>1, <1>4, UnpostedFits, SettleSafe
<1>5. QED
  BY <1>2, <1>3, <1>4

(* The steps before the reservation exists keep every command fitting.     *)
LEMMA EarlyStepsSafe ==
  ASSUME IInv, NEW s \in Senders,
         Start(s) \/ Claim(s) \/ SyncClaim(s) \/ ClaimFails(s)
  PROVE  Safe'
<1>1. /\ pc[s] \in {"open", "claim", "syncClaim"}
      /\ UNCHANGED <<res, receipts, posts>>
  BY DEF Start, Claim, SyncClaim, ClaimFails, diskVars
<1>2. posts[job[s].intent] = 0
  <2>1. CASE Start(s)
    BY <1>1, <2>1, WorkFits DEF Start, Fit, CHARGED
  <2>2. CASE ~ Start(s)
    BY <1>1, <2>2, Unposted DEF Claim, SyncClaim, ClaimFails, Steps
  <2>3. QED
    BY <2>1, <2>2
<1>3. Exit(s) \/ \E l \in {"admit", "syncClaim", "refund", "composed"} : Goto(s, l)
  BY DEF Start, Claim, SyncClaim, ClaimFails
<1>4. {"admit", "syncClaim", "refund", "composed"} \subseteq Steps \ Crossing
  BY DEF Steps, Crossing
<1>5. QED
  BY <1>1, <1>2, <1>3, <1>4, EarlySafe

(* Admission reserves nothing that another intent has.                     *)
LEMMA AdmitSafe ==
  ASSUME IInv, NEW s \in Senders, Admit(s) PROVE Safe'
<1> DEFINE j == [job[s] EXCEPT !.hour = now]
           i == job[s].intent
<1>1. pc[s] = "admit" /\ UNCHANGED <<res, receipts, posts>>
  BY DEF Admit, diskVars
<1>2. posts[i] = 0
  BY <1>1, Unposted DEF Steps
<1>3. CASE Exit(s)
  BY <1>1, <1>2, <1>3, EarlySafe
<1>4. CASE /\ pc' = [pc EXCEPT ![s] = "create"]
           /\ job' = [job EXCEPT ![s].hour = now]
  <2>1. j.intent = i
    BY DEF IInv, Typed, TypeOK, ProcessType, Job
  <2>2. job' = [job EXCEPT ![s] = j]
    BY <1>4
  <2>3. Fit("create", j.outcome, res'[i], receipts'[i], posts'[i])
    BY <1>1, <1>2, UnpostedFits DEF Crossing
  <2> HIDE DEF j
  <2>4. QED
    BY <1>1, <1>4, <2>1, <2>2, <2>3, WorkFits, OwnStep
<1>5. QED
  BY <1>3, <1>4 DEF Admit

(* A new reservation is pending, for an intent nothing was accepted of.    *)
LEMMA CreateSafe ==
  ASSUME IInv, NEW s \in Senders, CreateReservation(s) PROVE Safe'
<1> DEFINE j == [job[s] EXCEPT !.hour = 0]
           i == job[s].intent
<1>1. /\ pc[s] = "create" /\ pc' = [pc EXCEPT ![s] = "claim"]
      /\ UNCHANGED <<receipts, posts>>
  BY DEF CreateReservation
<1>2. posts[i] = 0
  BY <1>1, Unposted DEF Steps
<1>3. j.intent = i /\ job' = [job EXCEPT ![s] = j]
  BY DEF CreateReservation, IInv, Typed, TypeOK, ProcessType, Job
<1>4. \A k \in Intents \ {i} : res'[k] = res[k]
  BY CreatedIn DEF IInv
<1>5. Fit("claim", j.outcome, res'[i], receipts'[i], posts'[i])
  BY <1>1, <1>2, UnpostedFits DEF Crossing
<1> HIDE DEF j
<1>6. QED
  BY <1>1, <1>3, <1>4, <1>5, WorkFits, OwnStep

(* A refund is given only where nothing was accepted.                      *)
LEMMA RefundSafe ==
  ASSUME IInv, NEW s \in Senders, Refund(s) PROVE Safe'
<1> DEFINE i == job[s].intent
<1>1. pc[s] = "refund" /\ UNCHANGED <<receipts, posts>>
  BY DEF Refund
<1>2. posts[i] = 0 /\ i \in Intents
  BY <1>1, Unposted, WorkFits DEF Steps
<1>3. res \in [Intents -> Reservation]
  BY DEF IInv, Typed, TypeOK, DiskType
<1>4. \A k \in Intents \ {i} : res'[k] = res[k]
  BY <1>2, <1>3, SetStatusIn DEF Refund, Status
<1>5. Fit("idle", "none", res'[i], receipts'[i], posts'[i])
  BY <1>1, <1>2, UnpostedFits DEF Crossing
<1>6. QED
  BY <1>1, <1>4, <1>5, ExitSafe DEF Refund

(* Recording an event of its own, and going on.                            *)
LEMMA RecordSafe ==
  ASSUME IInv, NEW s \in Senders, pc[s] \notin {"idle", "txn"}, NEW l,
         Goto(s, l), UNCHANGED <<res, posts>>,
         LET i == job[s].intent IN
           \E e \in Event :
             /\ receipts' = [receipts EXCEPT ![i] = Recorded(@, e)]
             /\ Fit(l, job[s].outcome, res[i], Recorded(receipts[i], e), posts[i])
  PROVE  Safe'
<1>1. job' = [job EXCEPT ![s] = job[s]] /\ pc' = [pc EXCEPT ![s] = l]
  BY DEF Goto, IInv, Typed, TypeOK, ProcessType
<1> DEFINE i == job[s].intent
<1>2. receipts \in [Intents -> History] /\ i \in Intents /\ AtWork(s, i)
  BY WorkFits DEF IInv, Typed, TypeOK, DiskType
<1>3. PICK e \in Event :
        /\ receipts' = [receipts EXCEPT ![i] = Recorded(@, e)]
        /\ Fit(l, job[s].outcome, res[i], Recorded(receipts[i], e), posts[i])
  OBVIOUS
<1>4. /\ receipts'[i] = Recorded(receipts[i], e)
      /\ \A k \in Intents \ {i} : receipts'[k] = receipts[k]
  BY <1>2, <1>3
<1>5. Fit(l, job[s].outcome, res'[i], receipts'[i], posts'[i])
  BY <1>3, <1>4
<1>6. QED
  BY <1>1, <1>2, <1>4, <1>5, OwnStep

(* Recording that the letter is composed.                                  *)
LEMMA RecordComposedSafe ==
  ASSUME IInv, NEW s \in Senders, RecordComposed(s) PROVE Safe'
<1> DEFINE i == job[s].intent
<1>1. pc[s] = "composed" /\ "composed" \in Event /\ "cross" \notin Crossing
  BY DEF RecordComposed, Event, Crossing
<1>2. posts[i] = 0
  BY <1>1, Unposted DEF Steps
<1>3. Fit("cross", job[s].outcome, res[i], Recorded(receipts[i], "composed"), posts[i])
  BY <1>1, <1>2, UnpostedFits
<1>4. QED
  BY <1>1, <1>3, RecordSafe DEF RecordComposed

(* Recording that sending begins, before the post.                         *)
LEMMA RecordSendingSafe ==
  ASSUME IInv, NEW s \in Senders, RecordSending(s) PROVE Safe'
<1> DEFINE i == job[s].intent
           h == Recorded(receipts[i], "sending")
<1>1. pc[s] = "sending" /\ "sending" \in Event
  BY DEF RecordSending, Event
<1>2. posts[i] = 0
  BY <1>1, Unposted DEF Steps
<1>3. /\ Fit("sending", job[s].outcome, res[i], receipts[i], posts[i])
      /\ receipts[i] \in History
  BY <1>1, WorkFits
<1>4. h.events = receipts[i].events \cup {"sending"} /\ h.tail = "sending"
  BY <1>1, <1>3, RecordedIn
<1>5. Terminal(h) = Terminal(receipts[i]) /\ Unresolved(h)
  BY <1>4 DEF Terminal, TERMINAL, Unresolved
<1>6. Fit("post", job[s].outcome, res[i], h, posts[i])
  BY <1>2, <1>3, <1>5 DEF Fit, Crossing
<1>7. QED
  BY <1>1, <1>6, RecordSafe DEF RecordSending
(* What an outcome says once it is recorded.                               *)
LEMMA RecordOutcomeSafe ==
  ASSUME IInv, NEW s \in Senders, RecordOutcome(s) PROVE Safe'
<1> DEFINE i == job[s].intent
           e == job[s].outcome
           h == Recorded(receipts[i], e)
<1>1. pc[s] = "record" /\ e \in Outcome
  BY DEF RecordOutcome, IInv, Typed, Employed
<1>2. e \in Event
  BY <1>1 DEF Outcome, Event
<1>3. /\ Fit("record", e, res[i], receipts[i], posts[i])
      /\ receipts[i] \in History
  BY <1>1, WorkFits
<1>4. h.events = receipts[i].events \cup {e} /\ h.tail = e
  BY <1>2, <1>3, RecordedIn
<1> HIDE DEF h
<1>5. CASE posts[i] = 0
  <2>1. Fit("update", e, res[i], h, posts[i])
    BY <1>5, UnpostedFits DEF Crossing
  <2>2. QED
    BY <1>1, <1>2, <2>1, RecordSafe DEF RecordOutcome, h
<1>6. CASE posts[i] # 0
  <2>1. e \in {"sent", "ambiguous"}
    BY <1>3, <1>6 DEF Fit
  <2>2. Terminal(h) # {} /\ "refused" \notin h.events
    BY <1>3, <1>4, <1>6, <2>1 DEF Fit, Terminal, TERMINAL
  <2>3. Fit("update", e, res[i], h, posts[i])
    BY <1>3, <1>6, <2>1, <2>2 DEF Fit, Crossing
  <2>4. QED
    BY <1>1, <1>2, <2>3, RecordSafe DEF RecordOutcome, h
<1>7. QED
  BY <1>5, <1>6

(* A pending send is readmitted only where nothing was accepted.           *)
LEMMA ReadmitSafe ==
  ASSUME IInv, NEW s \in Senders, Readmit(s) PROVE Safe'
<1> DEFINE i == job[s].intent
<1>1. pc[s] = "readmit" /\ UNCHANGED <<receipts, posts>>
  BY DEF Readmit
<1>2. /\ Fit("readmit", job[s].outcome, res[i], receipts[i], posts[i])
      /\ i \in Intents
  BY <1>1, WorkFits
<1>3. posts[i] = 0
  BY <1>1, Unposted DEF Steps
<1>4. /\ res'[i].status = res[i].status
      /\ \A k \in Intents \ {i} : res'[k] = res[k]
  BY <1>2, ReadmittedIn DEF IInv
<1>5. CASE Exit(s)
  <2>1. Fit("idle", "none", res'[i], receipts'[i], posts'[i])
    BY <1>1, <1>3, UnpostedFits DEF Crossing
  <2>2. QED
    BY <1>1, <1>4, <1>5, <2>1, ExitSafe
<1>6. CASE Goto(s, "authority")
  <2>1. Fit("authority", job[s].outcome, res'[i], receipts'[i], posts'[i])
    BY <1>1, <1>2, <1>3, <1>4 DEF Fit, Crossing
  <2>2. QED
    BY <1>1, <1>4, <1>6, <2>1, ChangeSafe
<1>7. QED
  BY <1>5, <1>6 DEF Readmit

(* The last look at the authority before the post settles nothing accepted. *)
LEMMA AuthoritySafe ==
  ASSUME IInv, NEW s \in Senders, Authority(s) PROVE Safe'
<1> DEFINE i == job[s].intent
<1>1. pc[s] = "authority" /\ UNCHANGED <<res, receipts, posts>>
  BY DEF Authority, diskVars
<1>2. Fit("authority", job[s].outcome, res[i], receipts[i], posts[i])
  BY <1>1, WorkFits
<1>3. posts[i] = 0
  BY <1>1, Unposted DEF Steps
<1>4. CASE Settle(s, "refused")
  BY <1>1, <1>3, <1>4, EarlySafe DEF Outcome
<1>5. CASE Goto(s, "sending")
  <2>1. Fit("sending", job[s].outcome, res[i], receipts[i], posts[i])
    BY <1>2, <1>3 DEF Fit, Crossing
  <2>2. QED
    BY <1>1, <1>5, <2>1, GotoSafe
<1>6. QED
  BY <1>4, <1>5 DEF Authority

(* The post itself: it is the first, and what it finds allows it.          *)
LEMMA PostSafe ==
  ASSUME IInv, NEW s \in Senders, Post(s) PROVE Safe'
<1> DEFINE i == job[s].intent
<1>1. pc[s] = "post" /\ UNCHANGED <<res, receipts>>
  BY DEF Post, diskVars
<1>2. PICK a \in Answer : /\ Settle(s, a[1])
                          /\ posts' = [posts EXCEPT ![i] = @ + a[2]]
  BY DEF Post
<1>3. /\ a[1] \in Outcome /\ a[2] \in {0, 1}
      /\ a[2] # 0 => a[1] \in {"sent", "ambiguous"}
  BY AnswerIn
<1>4. /\ Fit("post", job[s].outcome, res[i], receipts[i], posts[i])
      /\ i \in Intents
  BY <1>1, WorkFits
<1>5. posts[i] = 0
  BY <1>1, Unposted DEF Steps
<1>6. posts'[i] = a[2] /\ \A k \in Intents \ {i} : posts'[k] = posts[k]
  BY <1>2, <1>3, <1>4, <1>5 DEF IInv, Typed, TypeOK, DiskType
<1>7. Fit("record", a[1], res[i], receipts[i], posts'[i])
  <2>1. CASE a[2] = 0
    BY <1>6, <2>1, UnpostedFits DEF Crossing
  <2>2. CASE a[2] = 1
    <3>1. /\ res[i].status \in CHARGED
          /\ "refused" \notin receipts[i].events
          /\ Terminal(receipts[i]) # {} \/ Unresolved(receipts[i])
      BY <1>4 DEF Fit, Crossing, LIVE, CHARGED, Terminal, TERMINAL
    <3>2. QED
      BY <1>3, <1>6, <2>2, <3>1 DEF Fit, Crossing
  <2>3. QED
    BY <1>3, <2>1, <2>2
<1>8. QED
  BY <1>1, <1>2, <1>6, <1>7, SettleSafe

(* Settling the reservation with what the platform answered.               *)
LEMMA UpdateSafe ==
  ASSUME IInv, NEW s \in Senders, UpdateReservation(s) PROVE Safe'
<1> DEFINE i == job[s].intent
           e == job[s].outcome
<1>1. pc[s] = "update" /\ e \in Outcome /\ UNCHANGED <<receipts, posts>>
  BY DEF UpdateReservation, IInv, Typed, Employed
<1>2. /\ Fit("update", e, res[i], receipts[i], posts[i])
      /\ i \in Intents
  BY <1>1, WorkFits
<1>3. res \in [Intents -> Reservation]
  BY DEF IInv, Typed, TypeOK, DiskType
<1>4. /\ res'[i].status = SettledAs[e]
      /\ \A k \in Intents \ {i} : res'[k] = res[k]
  BY <1>1, <1>2, <1>3, SettledIn, SetStatusIn DEF UpdateReservation
<1>5. posts[i] # 0 => res'[i].status \in CHARGED
  <2>1. posts[i] # 0 => e \in {"sent", "ambiguous"}
    BY <1>2 DEF Fit
  <2>2. QED
    BY <1>4, <2>1, SettledIn DEF TERMINAL
<1>6. /\ Fit("idle", "none", res'[i], receipts'[i], posts'[i])
      /\ Fit("deadLetter", e, res'[i], receipts'[i], posts'[i])
  BY <1>1, <1>2, <1>5 DEF Fit, Crossing
<1>7. CASE Exit(s)
  BY <1>1, <1>4, <1>6, <1>7, ExitSafe
<1>8. CASE Goto(s, "deadLetter")
  BY <1>1, <1>4, <1>6, <1>8, ChangeSafe
<1>9. QED
  BY <1>7, <1>8 DEF UpdateReservation

(* Giving a letter up as dead.                                             *)
LEMMA DeadLetterSafe ==
  ASSUME IInv, NEW s \in Senders, DeadLetter(s) PROVE Safe'
<1>1. pc[s] = "deadLetter" /\ UNCHANGED <<res, receipts, posts>> /\ Exit(s)
  BY DEF DeadLetter
<1>2. QED
  BY <1>1, WorkFits, AwayFits, ExitSafe

(* A command may die at any place: what it leaves fits no one at work.     *)
LEMMA DieSafe ==
  ASSUME IInv, NEW s \in Senders, Die(s) PROVE Safe'
<1> DEFINE i == job[s].intent
<1>1. pc[s] # "idle" /\ UNCHANGED <<receipts, posts>> /\ Exit(s)
  BY DEF Die
<1>2. CASE pc[s] = "txn"
  <2>1. UNCHANGED res
    BY <1>2 DEF Die
  <2>2. pc'[s] = "idle" /\ \A t \in Senders \ {s} : pc'[t] = pc[t] /\ job'[t] = job[t]
    BY DEF Die, Exit, IInv, Typed, TypeOK, ProcessType
  <2>3. ASSUME NEW k \in Intents, NEW t \in Senders, job'[t].intent = k
        PROVE  Fit(pc'[t], job'[t].outcome, res'[k], receipts'[k], posts'[k])
    <3>1. Fit("idle", "none", res[k], receipts[k], posts[k])
      BY DEF IInv, Safe
    <3>2. CASE t = s
      BY <1>1, <2>1, <2>2, <3>1, <3>2, AwayFits
    <3>3. CASE t # s
      BY <1>1, <2>1, <2>2, <2>3, <3>3 DEF IInv, Safe
    <3>4. QED
      BY <3>2, <3>3
  <2>4. QED
    BY <1>1, <2>1, <2>3 DEF IInv, Safe
<1>3. CASE pc[s] # "txn" /\ UNCHANGED res
  BY <1>1, <1>3, WorkFits, AwayFits, ExitSafe
<1>4. CASE pc[s] = "create" /\ res' = [res EXCEPT ![i] = EmptyReservation]
  <2>1. posts[i] = 0 /\ i \in Intents
    BY <1>4, Unposted, WorkFits DEF Steps
  <2>2. \A k \in Intents \ {i} : res'[k] = res[k]
    BY <1>4, <2>1 DEF IInv, Typed, TypeOK, DiskType
  <2>3. Fit("idle", "none", res'[i], receipts'[i], posts'[i])
    BY <1>1, <2>1, UnpostedFits DEF Crossing
  <2>4. QED
    BY <1>1, <1>4, <2>2, <2>3, ExitSafe
<1>5. QED
  BY <1>2, <1>3, <1>4 DEF Die
(* A starting bridge at most records "dead", which whatever fits outlives. *)
LEMMA DeadFits ==
  ASSUME NEW h \in History, NEW l, NEW outcome, NEW r, NEW n,
         Fit(l, outcome, r, h, n)
  PROVE  Fit(l, outcome, r, Recorded(h, "dead"), n)
<1> DEFINE g == Recorded(h, "dead")
<1>1. g.events = h.events \cup {"dead"}
  BY RecordedIn DEF Event
<1>2. Terminal(g) = Terminal(h) \cup {"dead"}
  BY <1>1 DEF Terminal, TERMINAL
<1>3. "refused" \notin h.events => "refused" \notin g.events
  BY <1>1
<1> HIDE DEF g
<1>4. Fit(l, outcome, r, g, n)
  BY <1>2, <1>3 DEF Fit
<1>5. QED
  BY <1>4 DEF g

(* A starting bridge leaves every intent safe.                             *)
LEMMA BridgeSafe == ASSUME IInv, Bridge PROVE Safe'
<1>1. UNCHANGED <<res, posts, pc, job>>
  BY DEF Bridge, Rise, FlagInFlight, CloseInFlight, StopBridge, diskVars,
         senderVars
<1>2. receipts \in [Intents -> History] /\ closing \subseteq Intents
  BY DEF IInv, Typed, TypeOK, DiskType, ProcessType
<1>3. \/ receipts' = receipts
      \/ \E i \in Intents :
           receipts' = [receipts EXCEPT ![i] = Recorded(@, "dead")]
  BY DEF Bridge, Rise, FlagInFlight, CloseInFlight, StopBridge, diskVars
<1>4. \A k \in Intents : \/ receipts'[k] = receipts[k]
                         \/ receipts'[k] = Recorded(receipts[k], "dead")
  BY <1>2, <1>3
<1>5. ASSUME NEW k \in Intents, NEW l, NEW outcome,
             Fit(l, outcome, res[k], receipts[k], posts[k])
      PROVE  Fit(l, outcome, res'[k], receipts'[k], posts'[k])
  BY <1>1, <1>2, <1>4, <1>5, DeadFits
<1>6. QED
  BY <1>1, <1>5 DEF IInv, Safe

(* The clock, the operator and nothing at all.                             *)
LEMMA IdleSafe ==
  ASSUME IInv, Tick \/ EditAuthority \/ UNCHANGED vars PROVE Safe'
<1>1. UNCHANGED <<res, receipts, posts, pc, job>>
  BY DEF Tick, EditAuthority, vars, diskVars, senderVars
<1>2. QED
  BY <1>1 DEF IInv, Safe

(* The invariant is inductive as long as the power holds.                  *)
LEMMA IInvStep ==
  ASSUME "power" \notin Faults, IInv, [Next]_vars PROVE IInv'
<1>1. ASSUME NEW s \in Senders, Send(s) \/ Die(s) PROVE Safe'
  BY <1>1, InvokeSafe, ReopenSafe, CrossSafe, EarlyStepsSafe, AdmitSafe,
     CreateSafe, RefundSafe, RecordComposedSafe, RecordSendingSafe,
     RecordOutcomeSafe, ReadmitSafe, AuthoritySafe, PostSafe, UpdateSafe,
     DeadLetterSafe, DieSafe DEF Send
<1>2. Safe'
  BY <1>1, BridgeSafe, IdleSafe DEF Next, PowerLoss
<1>3. QED
  BY <1>2, TypedStep DEF IInv

(* As long as the power holds, an intent is sent once: however often the   *)
(* command is given, whatever dies in between and whenever a bridge starts *)
(* (TerminalExists, _unresolved_sending).                                  *)
THEOREM SentOnce == "power" \notin Faults => (Spec => []OncePerIntent)
<1> SUFFICES ASSUME "power" \notin Faults PROVE Spec => []OncePerIntent
  OBVIOUS
<1>1. Init => IInv
  BY IInvInit
<1>2. IInv /\ [Next]_vars => IInv'
  BY IInvStep
<1>3. IInv => OncePerIntent
  BY DEF IInv, Safe, Fit, OncePerIntent, Typed, TypeOK, DiskType
<1>4. QED
  BY <1>1, <1>2, <1>3, PTL DEF Spec

(* And what was sent stays charged: no repair, retry or late answer        *)
(* refunds it (_settle, _repair_live_reservation).                         *)
THEOREM SentIsCharged == "power" \notin Faults => (Spec => []AcceptedIsCharged)
<1> SUFFICES ASSUME "power" \notin Faults PROVE Spec => []AcceptedIsCharged
  OBVIOUS
<1>1. Init => IInv
  BY IInvInit
<1>2. IInv /\ [Next]_vars => IInv'
  BY IInvStep
<1>3. IInv => AcceptedIsCharged
  BY DEF IInv, Safe, Fit, AcceptedIsCharged, CHARGED
<1>4. QED
  BY <1>1, <1>2, <1>3, PTL DEF Spec

----------------------------------------------------------------------------
(* The budget, the queue, the words and the authority.  None of them leans *)
(* on what the platform accepted, so the first, the words and the          *)
(* authority survive a power failure, too.                                 *)

(* No send is left in the air: one that was begun has an end on record.    *)
Answered(h) == Unresolved(h) => Terminal(h) # {}

(* An intent that is charged nothing has no send in the air.               *)
Loose(r, h) == r.status \in {"none", "empty", "refunded"} => Answered(h)

(* Where a command has taken over, or compared, the reserved words.        *)
Agreed == {"claim", "syncClaim", "composed", "cross", "readmit", "authority",
           "sending", "post"}

(* The place l of a command with the job j, the reservation and the        *)
(* history of its intent.                                                  *)
Place(l, j, r, h) ==
  /\ l \in Crossing => r.status \in LIVE
  /\ l \in {"record", "update"} /\ j.outcome # "refused" => r.status \in CHARGED
  /\ l \in {"record", "update"} /\ j.outcome = "throttled" => r.status \in LIVE
  /\ l = "update" /\ j.outcome = "refused" => Terminal(h) # {}
  /\ l \in {"admit", "create", "claim", "syncClaim", "composed", "refund"} => Answered(h)
  /\ l \in Agreed => r.text = j.text

Orderly ==
  \A i \in Intents :
    /\ Loose(res[i], receipts[i])
    /\ \A s \in Senders : AtWork(s, i) => Place(pc[s], job[s], res[i], receipts[i])

(* A step of a command on its own intent.                                  *)
Only(i) == \A k \in Intents \ {i} : res'[k] = res[k] /\ receipts'[k] = receipts[k]

(* The lock of the intent: it is enough that the one at work is in place   *)
(* afterwards.                                                             *)
LEMMA OwnOrder ==
  ASSUME Typed, Orderly, NEW s \in Senders, NEW i \in Intents, AtWork(s, i), Only(i),
         NEW l, NEW j, pc' = [pc EXCEPT ![s] = l], job' = [job EXCEPT ![s] = j],
         Loose(res'[i], receipts'[i]),
         l # "idle" => j.intent = i /\ Place(l, j, res'[i], receipts'[i])
  PROVE  Orderly'
<1>1. /\ pc'[s] = l /\ job'[s] = j
      /\ \A t \in Senders \ {s} : pc'[t] = pc[t] /\ job'[t] = job[t]
  BY DEF Typed, TypeOK, ProcessType
<1>2. \A t \in Senders \ {s} : ~ AtWork(t, i)
  BY DEF Typed, TypeOK, OneHolder
<1>3. ASSUME NEW k \in Intents PROVE Loose(res'[k], receipts'[k])
  BY DEF Orderly, Only
<1>4. ASSUME NEW k \in Intents, NEW t \in Senders, AtWork(t, k)'
      PROVE  Place(pc'[t], job'[t], res'[k], receipts'[k])
  <2>1. CASE t = s
    BY <1>1, <1>4, <2>1 DEF AtWork
  <2>2. CASE t # s
    <3>1. AtWork(t, k) /\ k # i
      BY <1>1, <1>2, <1>4, <2>2 DEF AtWork
    <3> QED
      BY <1>1, <2>2, <3>1 DEF Orderly, Only
  <2> QED
    BY <2>1, <2>2
<1> QED
  BY <1>3, <1>4 DEF Orderly

(* Going on.                                                               *)
LEMMA GotoOrder ==
  ASSUME Typed, Orderly, NEW s \in Senders, NEW i \in Intents, AtWork(s, i), Only(i),
         NEW l, Goto(s, l), Loose(res'[i], receipts'[i]),
         Place(l, job[s], res'[i], receipts'[i])
  PROVE  Orderly'
<1>1. job' = [job EXCEPT ![s] = job[s]] /\ pc' = [pc EXCEPT ![s] = l]
  BY DEF Goto, Typed, TypeOK, ProcessType
<1> QED
  BY <1>1, OwnOrder DEF AtWork

(* Leaving.                                                                *)
LEMMA ExitOrder ==
  ASSUME Typed, Orderly, NEW s \in Senders, NEW i \in Intents, AtWork(s, i), Only(i),
         Exit(s), Loose(res'[i], receipts'[i])
  PROVE  Orderly'
BY OwnOrder DEF Exit

(* Settling.                                                               *)
LEMMA SettleOrder ==
  ASSUME Typed, Orderly, NEW s \in Senders, NEW i \in Intents, AtWork(s, i),
         UNCHANGED <<res, receipts>>, NEW e \in Outcome, Settle(s, e),
         e # "refused" => res[i].status \in CHARGED,
         e = "throttled" => res[i].status \in LIVE
  PROVE  Orderly'
<1> DEFINE j == [job[s] EXCEPT !.outcome = e]
<1>1. j.intent = i /\ j.outcome = e
  BY DEF AtWork, Typed, TypeOK, ProcessType, Job
<1>2. job' = [job EXCEPT ![s] = j] /\ pc' = [pc EXCEPT ![s] = "record"]
  BY DEF Settle
<1> HIDE DEF j
<1>3. Place("record", j, res'[i], receipts'[i])
  BY <1>1 DEF Place, Crossing, Agreed
<1> QED
  BY <1>1, <1>2, <1>3, OwnOrder DEF Only, Orderly

(* A status by itself changes neither hour nor words.                      *)
LEMMA StatusOnly ==
  ASSUME Typed, NEW i \in Intents, NEW status \in Status, SetStatus(i, status)
  PROVE  /\ res'[i].status = status
         /\ \A k \in Intents : res'[k].at = res[k].at /\ res'[k].text = res[k].text
         /\ \A k \in Intents \ {i} : res'[k] = res[k]
BY DEF SetStatus, Typed, TypeOK, DiskType, Reservation

(* Closing by a terminal receipt.                                          *)
LEMMA CloseOrder ==
  ASSUME Typed, Orderly, NEW s \in Senders, NEW i \in Intents, AtWork(s, i),
         Close(s, i), UNCHANGED receipts
  PROVE  Orderly'
<1>1. Loose(res'[i], receipts'[i])
  BY DEF Close, Loose, Answered
<1>2. Only(i)
  <2>1. CASE UNCHANGED res
    BY <2>1 DEF Only
  <2>2. CASE \E e \in Terminal(receipts[i]) : SetStatus(i, SettledAs[e])
    BY <2>2, StatusOnly, SettledIn DEF Terminal, Only
  <2> QED
    BY <2>1, <2>2 DEF Close
<1> QED
  BY <1>1, <1>2, ExitOrder DEF Close

(* Giving up a send that was begun: it is charged.                         *)
LEMMA GiveUpOrder ==
  ASSUME Typed, Orderly, NEW s \in Senders, NEW i \in Intents, AtWork(s, i),
         GiveUp(s, i), UNCHANGED receipts
  PROVE  Orderly'
<1>1. res[i].status \in CHARGED
  BY DEF GiveUp, Orderly, Loose, Answered, Typed, TypeOK, DiskType, Reservation, Status,
         CHARGED
<1> QED
  BY <1>1, SettleOrder DEF GiveUp, Outcome

(* What a command at work can lean on.                                     *)
LEMMA InOrder ==
  ASSUME Typed, Orderly, NEW s \in Senders, pc[s] \notin {"idle", "txn"}
  PROVE  /\ job[s].intent \in Intents /\ AtWork(s, job[s].intent)
         /\ Loose(res[job[s].intent], receipts[job[s].intent])
         /\ Place(pc[s], job[s], res[job[s].intent], receipts[job[s].intent])
BY DEF Typed, Employed, AtWork, Orderly

(* Up to the reservation.                                                  *)
LEMMA EarlyOrder ==
  ASSUME Typed, Orderly, NEW s \in Senders,
         \/ Start(s) \/ Admit(s) \/ Claim(s) \/ SyncClaim(s) \/ ClaimFails(s)
         \/ Authority(s) \/ DeadLetter(s)
  PROVE  Orderly'
<1> DEFINE i == job[s].intent
<1>1. pc[s] \notin {"idle", "txn"} /\ UNCHANGED <<res, receipts>>
  BY DEF Start, Admit, Claim, SyncClaim, ClaimFails, Authority, DeadLetter, diskVars
<1>2. /\ i \in Intents /\ AtWork(s, i) /\ Loose(res[i], receipts[i])
      /\ Place(pc[s], job[s], res[i], receipts[i])
  BY <1>1, InOrder
<1> HIDE DEF i
<1>3. Only(i) /\ Loose(res'[i], receipts'[i])
  BY <1>1, <1>2 DEF Only
<1>4. CASE Exit(s)
  BY <1>2, <1>3, <1>4, ExitOrder
<1>5. CASE Settle(s, "refused")
  BY <1>1, <1>2, <1>5, SettleOrder DEF Outcome
<1>6. ASSUME NEW l, Goto(s, l), Place(l, job[s], res[i], receipts[i]) PROVE Orderly'
  BY <1>1, <1>2, <1>3, <1>6, GotoOrder
<1>7. CASE Start(s)
  <2>1. Goto(s, "admit") => Place("admit", job[s], res[i], receipts[i])
    BY <1>2, <1>7 DEF Start, Place, Loose, Crossing, Agreed, i
  <2> QED
    BY <1>4, <1>6, <1>7, <2>1 DEF Start
<1>8. CASE Admit(s)
  <2>1. CASE pc' = [pc EXCEPT ![s] = "create"] /\ job' = [job EXCEPT ![s].hour = now]
    <3> DEFINE j == [job[s] EXCEPT !.hour = now]
    <3>1. j.intent = i
      BY DEF i, Typed, TypeOK, ProcessType, Job
    <3>2. Place("create", j, res'[i], receipts'[i])
      BY <1>1, <1>2, <1>8 DEF Admit, Place, Crossing, Agreed
    <3>3. job' = [job EXCEPT ![s] = j]
      BY <2>1
    <3> HIDE DEF j
    <3> QED
      BY <1>2, <1>3, <2>1, <3>1, <3>2, <3>3, OwnOrder
  <2> QED
    BY <1>4, <1>8, <2>1 DEF Admit
<1>9. CASE Claim(s) \/ SyncClaim(s) \/ ClaimFails(s)
  <2>1. PICK l \in {"syncClaim", "refund", "composed"} :
          Goto(s, l) /\ pc[s] \in {"claim", "syncClaim"} /\ pc[s] \in Agreed
    BY <1>9 DEF Claim, SyncClaim, ClaimFails, Agreed
  <2>2. Place(l, job[s], res[i], receipts[i])
    BY <1>2, <2>1 DEF Place, Crossing, Agreed
  <2> QED
    BY <1>6, <2>1, <2>2
<1>10. CASE Authority(s)
  <2>1. Place("sending", job[s], res[i], receipts[i])
    BY <1>2, <1>10 DEF Authority, Place, Crossing, Agreed
  <2> QED
    BY <1>5, <1>6, <1>10, <2>1 DEF Authority
<1>11. CASE DeadLetter(s)
  BY <1>4, <1>11 DEF DeadLetter
<1> QED
  BY <1>7, <1>8, <1>9, <1>10, <1>11

(* Invoking a command and taking the lock put nobody to work.              *)
LEMMA BeginOrder ==
  ASSUME Typed, Orderly, NEW s \in Senders,
         TakeLock(s) \/ \E i \in Intents, t \in Texts : Invoke(s, i, t)
  PROVE  Orderly'
<1>1. UNCHANGED <<res, receipts>> /\ pc[s] \in {"idle", "txn"}
  BY DEF TakeLock, Invoke, diskVars
<1>2. /\ pc'[s] \in {"txn", "open"}
      /\ \A t \in Senders \ {s} : pc'[t] = pc[t] /\ job'[t] = job[t]
  BY DEF TakeLock, Invoke, Typed, TypeOK, ProcessType
<1>3. ASSUME NEW i \in Intents, NEW t \in Senders, AtWork(t, i)'
      PROVE  Place(pc'[t], job'[t], res'[i], receipts'[i])
  <2>1. CASE t = s
    BY <1>2, <1>3, <2>1 DEF AtWork, Place, Crossing, Agreed
  <2>2. CASE t # s
    <3>1. AtWork(t, i)
      BY <1>2, <1>3, <2>2 DEF AtWork
    <3> QED
      BY <1>1, <1>2, <2>2, <3>1 DEF Orderly
  <2> QED
    BY <2>1, <2>2
<1> QED
  BY <1>1, <1>3 DEF Orderly

(* The reservation, and the way into the crossing.                         *)
LEMMA MiddleOrder ==
  ASSUME Typed, Orderly, NEW s \in Senders,
         Reopen(s) \/ CreateReservation(s) \/ Refund(s) \/ Cross(s) \/ Readmit(s)
  PROVE  Orderly'
<1> DEFINE i == job[s].intent
<1>1. pc[s] \notin {"idle", "txn"} /\ UNCHANGED receipts
  BY DEF Reopen, CreateReservation, Refund, Cross, Readmit
<1>2. /\ i \in Intents /\ AtWork(s, i) /\ Loose(res[i], receipts[i])
      /\ Place(pc[s], job[s], res[i], receipts[i])
  BY <1>1, InOrder
<1>3. UNCHANGED res => Only(i) /\ Loose(res'[i], receipts'[i])
  BY <1>1, <1>2 DEF Only
<1>4. CASE Exit(s) /\ UNCHANGED res
  BY <1>2, <1>3, <1>4, ExitOrder
<1>5. ASSUME NEW l, Goto(s, l), UNCHANGED res, Place(l, job[s], res[i], receipts[i])
      PROVE  Orderly'
  BY <1>1, <1>2, <1>3, <1>5, GotoOrder
<1>6. CASE Reopen(s)
  <2>1. CASE Close(s, i) \/ GiveUp(s, i)
    BY <1>1, <1>2, <2>1, CloseOrder, GiveUpOrder
  <2>2. CASE Settle(s, "refused") /\ UNCHANGED res
    BY <1>1, <1>2, <2>2, SettleOrder DEF Outcome
  <2>3. CASE Goto(s, "cross") /\ UNCHANGED res /\ job[s].text = res[i].text
    BY <1>5, <2>3 DEF Place, Crossing, Agreed
  <2> QED
    BY <1>4, <1>6, <2>1, <2>2, <2>3 DEF Reopen
<1>7. CASE Cross(s)
  <2>1. CASE Close(s, i) \/ GiveUp(s, i)
    BY <1>1, <1>2, <2>1, CloseOrder, GiveUpOrder
  <2>2. CASE Goto(s, "readmit") /\ UNCHANGED res /\ res[i].status \in LIVE
    <3>1. res[i].text = job[s].text
      BY <1>2, <1>7 DEF Cross, Place, Agreed
    <3> QED
      BY <1>5, <2>2, <3>1 DEF Place, Agreed
  <2> QED
    BY <1>4, <1>7, <2>1, <2>2 DEF Cross
<1>8. CASE CreateReservation(s)
  <2> DEFINE j == [job[s] EXCEPT !.hour = 0]
             r == [status |-> "reserved", at |-> job[s].hour, text |-> job[s].text]
  <2>1. j.intent = i /\ j.text = job[s].text /\ job' = [job EXCEPT ![s] = j]
    BY <1>8 DEF CreateReservation, i, Typed, TypeOK, ProcessType, Job
  <2>2. res' = [res EXCEPT ![i] = r] /\ pc' = [pc EXCEPT ![s] = "claim"] /\ pc[s] = "create"
    BY <1>8 DEF CreateReservation
  <2>3. Only(i) /\ res'[i] = r
    BY <1>1, <1>2, <2>2 DEF Only, Typed, TypeOK, DiskType
  <2>4. Place("claim", j, r, receipts[i]) /\ Loose(r, receipts[i])
    BY <1>2, <2>1, <2>2 DEF Place, Crossing, Agreed, Loose
  <2> HIDE DEF i, j, r
  <2> QED
    BY <1>1, <1>2, <2>1, <2>2, <2>3, <2>4, OwnOrder
<1>9. CASE Refund(s)
  <2>1. SetStatus(i, "refunded") /\ Exit(s) /\ pc[s] = "refund"
    BY <1>9 DEF Refund
  <2>2. Only(i)
    BY <1>1, <1>2, <2>1, StatusOnly DEF Only, Status
  <2>3. Loose(res'[i], receipts'[i])
    BY <1>1, <1>2, <2>1 DEF Loose, Place
  <2> QED
    BY <1>2, <2>1, <2>2, <2>3, ExitOrder
<1>10. CASE Readmit(s)
  <2>1. CASE res' = [res EXCEPT ![i].at = now] /\ Goto(s, "authority")
    <3>1. /\ Only(i) /\ res'[i].status = res[i].status /\ res'[i].text = res[i].text
      BY <1>1, <1>2, <2>1 DEF Only, Typed, TypeOK, DiskType, Reservation
    <3>2. res[i].status \in LIVE /\ res[i].text = job[s].text
      BY <1>2, <1>10 DEF Readmit, Place, Crossing, Agreed
    <3>3. Place("authority", job[s], res'[i], receipts'[i]) /\ Loose(res'[i], receipts'[i])
      BY <1>1, <1>2, <3>1, <3>2 DEF Place, Loose, Agreed
    <3> HIDE DEF i
    <3> QED
      BY <1>2, <2>1, <3>1, <3>3, GotoOrder
  <2> QED
    BY <1>4, <1>10, <2>1 DEF Readmit
<1> QED
  BY <1>6, <1>7, <1>8, <1>9, <1>10

(* The send, and what is recorded of it.                                   *)
LEMMA LateOrder ==
  ASSUME Typed, Orderly, NEW s \in Senders,
         \/ RecordComposed(s) \/ RecordSending(s) \/ Post(s) \/ RecordOutcome(s)
         \/ UpdateReservation(s)
  PROVE  Orderly'
<1> DEFINE i == job[s].intent
           h == receipts[i]
<1>1. pc[s] \notin {"idle", "txn"}
  BY DEF RecordComposed, RecordSending, Post, RecordOutcome, UpdateReservation
<1>2. /\ i \in Intents /\ AtWork(s, i) /\ Loose(res[i], receipts[i])
      /\ Place(pc[s], job[s], res[i], receipts[i])
  BY <1>1, InOrder
<1>3. h \in History
  BY <1>2 DEF Typed, TypeOK, DiskType
<1>4. ASSUME NEW e \in Event, receipts' = [receipts EXCEPT ![i] = Recorded(@, e)],
             UNCHANGED res
      PROVE  /\ Only(i) /\ receipts'[i] = Recorded(h, e)
             /\ Recorded(h, e).events = h.events \cup {e} /\ Recorded(h, e).tail = e
  BY <1>2, <1>3, <1>4, RecordedIn DEF Only, Typed, TypeOK, DiskType
<1>5. CASE RecordComposed(s)
  <2>1. receipts' = [receipts EXCEPT ![i] = Recorded(@, "composed")] /\ UNCHANGED res
    BY <1>5 DEF RecordComposed
  <2>2. Only(i) /\ receipts'[i].tail = "composed"
    BY <1>4, <2>1 DEF Event
  <2>3. /\ Loose(res'[i], receipts'[i])
        /\ Place("cross", job[s], res'[i], receipts'[i])
    BY <1>2, <1>5, <2>1, <2>2
       DEF RecordComposed, Loose, Answered, Unresolved, Place, Crossing, Agreed
  <2> QED
    BY <1>2, <1>5, <2>2, <2>3, GotoOrder DEF RecordComposed
<1>6. CASE RecordSending(s)
  <2>1. receipts' = [receipts EXCEPT ![i] = Recorded(@, "sending")] /\ UNCHANGED res
    BY <1>6 DEF RecordSending
  <2>2. Only(i)
    BY <1>4, <2>1 DEF Event
  <2>3. /\ Loose(res'[i], receipts'[i])
        /\ Place("post", job[s], res'[i], receipts'[i])
    BY <1>2, <1>6, <2>1 DEF RecordSending, Loose, Place, Crossing, Agreed, LIVE
  <2> QED
    BY <1>2, <1>6, <2>2, <2>3, GotoOrder DEF RecordSending
<1>7. CASE Post(s)
  <2>1. res[i].status \in LIVE /\ LIVE \subseteq CHARGED
    BY <1>2, <1>7 DEF Post, Place, Crossing, LIVE, CHARGED
  <2>2. \E e \in Outcome : Settle(s, e)
    BY <1>7 DEF Post, Answer, Outcome
  <2> QED
    BY <1>2, <1>7, <2>1, <2>2, SettleOrder DEF Post, diskVars
<1>8. CASE RecordOutcome(s)
  <2>1. PICK o \in Outcome : job[s].outcome = o
    BY <1>8 DEF RecordOutcome, Typed, Employed
  <2>2. receipts' = [receipts EXCEPT ![i] = Recorded(@, o)] /\ UNCHANGED res
    BY <1>8, <2>1 DEF RecordOutcome
  <2>3. Only(i) /\ receipts'[i].tail = o /\ o \in receipts'[i].events
    BY <1>4, <2>2 DEF Event, Outcome
  <2>4. /\ Loose(res'[i], receipts'[i])
        /\ Place("update", job[s], res'[i], receipts'[i])
    BY <1>2, <1>8, <2>1, <2>2, <2>3
       DEF RecordOutcome, Loose, Answered, Unresolved, Place, Crossing, Agreed, Outcome,
           Terminal, TERMINAL
  <2> QED
    BY <1>2, <1>8, <2>3, <2>4, GotoOrder DEF RecordOutcome
<1>9. CASE UpdateReservation(s)
  <2>1. PICK o \in Outcome : job[s].outcome = o
    BY <1>9 DEF UpdateReservation, Typed, Employed
  <2>2. SetStatus(i, SettledAs[o]) /\ UNCHANGED receipts /\ SettledAs[o] \in Status
    BY <1>9, <2>1, SettledIn DEF UpdateReservation
  <2>3. Only(i) /\ res'[i].status = SettledAs[o]
    BY <1>2, <2>2, StatusOnly DEF Only
  <2>4. Loose(res'[i], receipts'[i])
    <3>1. CASE o = "refused"
      BY <1>2, <1>9, <2>1, <2>2, <3>1 DEF UpdateReservation, Place, Loose, Answered
    <3>2. CASE o # "refused"
      BY <2>3, <3>2 DEF SettledAs, Outcome, Loose
    <3> QED
      BY <3>1, <3>2
  <2>5. Place("deadLetter", job[s], res'[i], receipts'[i])
    BY DEF Place, Crossing, Agreed
  <2> QED
    BY <1>2, <1>9, <2>3, <2>4, <2>5, GotoOrder, ExitOrder DEF UpdateReservation
<1> QED
  BY <1>5, <1>6, <1>7, <1>8, <1>9

(* A death leaves at most an empty file, of an intent without a send.      *)
LEMMA DieOrder ==
  ASSUME Typed, Orderly, NEW s \in Senders, Die(s) PROVE Orderly'
<1> DEFINE i == job[s].intent
<1>1. CASE pc[s] = "txn"
  <2>1. UNCHANGED <<res, receipts>> /\ pc'[s] = "idle"
    BY <1>1 DEF Die, Exit, Typed, TypeOK, ProcessType
  <2>2. \A t \in Senders \ {s} : pc'[t] = pc[t] /\ job'[t] = job[t]
    BY DEF Die, Exit, Typed, TypeOK, ProcessType
  <2> QED
    BY <2>1, <2>2 DEF Orderly, AtWork
<1>2. CASE pc[s] # "txn"
  <2>1. /\ i \in Intents /\ AtWork(s, i) /\ Loose(res[i], receipts[i])
        /\ Place(pc[s], job[s], res[i], receipts[i]) /\ UNCHANGED receipts /\ Exit(s)
    BY <1>2, InOrder DEF Die
  <2>2. CASE UNCHANGED res
    BY <2>1, <2>2, ExitOrder DEF Only
  <2>3. CASE pc[s] = "create" /\ res' = [res EXCEPT ![i] = EmptyReservation]
    <3>1. Only(i)
      BY <2>1, <2>3 DEF Only, Typed, TypeOK, DiskType
    <3>2. Loose(res'[i], receipts'[i])
      BY <2>1, <2>3 DEF Place, Loose
    <3> QED
      BY <2>1, <3>1, <3>2, ExitOrder
  <2> QED
    BY <2>2, <2>3 DEF Die
<1> QED
  BY <1>1, <1>2

(* A bridge only adds ends.                                                *)
LEMMA BridgeOrder ==
  ASSUME Typed, Orderly, Bridge PROVE Orderly'
<1>1. UNCHANGED <<res, pc, job>>
  BY DEF Bridge, Rise, FlagInFlight, CloseInFlight, StopBridge, diskVars, senderVars
<1>2. receipts \in [Intents -> History]
  BY DEF Typed, TypeOK, DiskType
<1>3. \A k \in Intents : \/ receipts'[k] = receipts[k]
                         \/ receipts'[k] = Recorded(receipts[k], "dead")
  BY <1>2 DEF Bridge, Rise, FlagInFlight, CloseInFlight, StopBridge, diskVars
<1>4. \A k \in Intents : /\ Answered(receipts[k]) => Answered(receipts'[k])
                         /\ Terminal(receipts[k]) # {} => Terminal(receipts'[k]) # {}
  <2>1. \A k \in Intents : Terminal(Recorded(receipts[k], "dead")) # {}
    BY DEF Recorded, Terminal, TERMINAL
  <2> QED
    BY <1>3, <2>1 DEF Answered
<1> QED
  BY <1>1, <1>4 DEF Orderly, Loose, Place, AtWork

(* A power failure ends every command; what it undoes had no send.         *)
LEMMA PowerOrder ==
  ASSUME Typed, Orderly, PowerLoss PROVE Orderly'
<1>1. \A s \in Senders : pc'[s] = "idle"
  BY DEF PowerLoss
<1>2. ASSUME NEW k \in Intents PROVE Loose(res'[k], receipts'[k])
  <2>1. receipts'[k] = receipts[k] \/ Answered(receipts'[k])
    BY FreshHistory DEF PowerLoss, Answered
  <2>2. CASE k \in Unwritten
    <3>1. CASE res[k].status = "empty"
      BY <2>1, <3>1 DEF Orderly, Loose
    <3>2. ASSUME NEW s \in Senders, pc[s] = "create", job[s].intent = k
          PROVE  Answered(receipts[k])
      BY <3>2 DEF AtWork, Orderly, Place
    <3> QED
      BY <2>1, <2>2, <3>1, <3>2 DEF Unwritten, Loose
  <2>3. CASE k \notin Unwritten
    <3>1. res'[k] = res[k]
      BY <2>3 DEF PowerLoss
    <3> QED
      BY <2>1, <3>1 DEF Orderly, Loose
  <2> QED
    BY <2>2, <2>3
<1> QED
  BY <1>1, <1>2 DEF Orderly, AtWork

(* Every step keeps the commands in place.                                 *)
LEMMA OrderStep ==
  ASSUME Typed, Orderly, [Next]_vars PROVE Orderly'
<1>1. ASSUME NEW s \in Senders, Send(s) \/ Die(s) PROVE Orderly'
  BY <1>1, BeginOrder, EarlyOrder, MiddleOrder, LateOrder, DieOrder DEF Send
<1>2. CASE Tick \/ EditAuthority \/ UNCHANGED vars
  BY <1>2 DEF Tick, EditAuthority, vars, diskVars, senderVars, Orderly, AtWork
<1> QED
  BY <1>1, <1>2, BridgeOrder, PowerOrder DEF Next

(* At first nothing is reserved and nobody is at work.                     *)
LEMMA OrderInit == ASSUME Init PROVE Typed /\ Orderly
<1>1. Typed
  BY IInvInit DEF IInv
<1>2. Orderly
  BY FreshHistory DEF Init, Orderly, Loose, Answered, AtWork
<1> QED
  BY <1>1, <1>2

(* Every reachable state is typed and orderly, power failures or not.      *)
LEMMA AlwaysOrderly == Spec => [](Typed /\ Orderly)
<1>1. Typed /\ Orderly /\ [Next]_vars => (Typed /\ Orderly)'
  BY TypedStep, OrderStep
<1> QED
  BY <1>1, OrderInit, PTL DEF Spec

(* A command sends the words that its intent is reserved for: it wrote     *)
(* them there or compared them, and nobody changes them while it has the   *)
(* lock (payload_digest).                                                  *)
THEOREM ReservedWordsOnly == Spec => SaysWhatItSends
<1> DEFINE Silent ==
             \A s \in Senders :
               pc[s] = "post" /\ job[s].text # res[job[s].intent].text
                 => posts'[job[s].intent] = posts[job[s].intent]
<1>1. Typed /\ Orderly /\ [Next]_vars => [Silent]_vars
  <2> SUFFICES ASSUME Typed, Orderly, NEW s \in Senders, pc[s] = "post"
               PROVE  job[s].text = res[job[s].intent].text
    OBVIOUS
  <2>1. Place(pc[s], job[s], res[job[s].intent], receipts[job[s].intent])
    BY InOrder
  <2> QED
    BY <2>1 DEF Place, Agreed
<1> QED
  BY <1>1, AlwaysOrderly, PTL DEF Spec, SaysWhatItSends

----------------------------------------------------------------------------
(* The authority.  Whoever is past the check of it had it then.            *)

Current == lapsed # {} => ~ (enabled /\ allowed)
Vouched == \A s \in lapsed : pc[s] \notin {"sending", "post"}

(* Only the lock and an edit add to the lapsed, and the check of the       *)
(* authority lets none of them pass.                                       *)
LEMMA VouchedStep ==
  ASSUME Typed, Current, Vouched, [Next]_vars PROVE Current' /\ Vouched'
<1>1. CASE EditAuthority
  <2>1. UNCHANGED pc /\ lapsed' = IF enabled' /\ allowed' THEN {} ELSE lapsed
    BY <1>1 DEF EditAuthority
  <2> QED
    BY <2>1 DEF Current, Vouched
<1>2. ASSUME NEW s \in Senders, TakeLock(s) PROVE Current' /\ Vouched'
  <2>1. /\ pc' = [pc EXCEPT ![s] = "open"] /\ UNCHANGED <<enabled, allowed>>
        /\ lapsed' = IF enabled /\ allowed THEN lapsed \ {s} ELSE lapsed \cup {s}
    BY <1>2 DEF TakeLock, grantVars
  <2> QED
    BY <2>1 DEF Current, Vouched, Typed, TypeOK, ProcessType
<1>3. ASSUME NEW s \in Senders, UNCHANGED grantVars, lapsed' \subseteq lapsed,
             NEW l, pc' = [pc EXCEPT ![s] = l],
             l \in {"sending", "post"} /\ s \in lapsed' =>
               pc[s] \in {"sending", "post"}
      PROVE  Current' /\ Vouched'
  BY <1>3 DEF Current, Vouched, Typed, TypeOK, ProcessType, grantVars
<1>4. ASSUME NEW s \in Senders, Send(s) \/ Die(s) PROVE Current' /\ Vouched'
  <2>1. CASE TakeLock(s)
    BY <1>2, <2>1
  <2>2. CASE Authority(s)
    <3>1. enabled /\ allowed => lapsed = {}
      BY DEF Current
    <3> QED
      BY <1>3, <2>2, <3>1 DEF Authority, Goto, Settle
  <2>3. CASE RecordSending(s)
    BY <1>3, <2>3 DEF RecordSending, Goto
  <2>4. CASE \/ Reopen(s) \/ Start(s) \/ Admit(s) \/ CreateReservation(s)
             \/ Claim(s) \/ SyncClaim(s) \/ ClaimFails(s)
    BY <1>3, <2>4 DEF Reopen, Start, Admit, CreateReservation, Claim, SyncClaim,
       ClaimFails, Goto, Exit, Settle, Close, GiveUp
  <2>5. CASE \/ Refund(s) \/ RecordComposed(s) \/ Cross(s) \/ Readmit(s) \/ Post(s)
             \/ RecordOutcome(s) \/ UpdateReservation(s) \/ DeadLetter(s) \/ Die(s)
    BY <1>3, <2>5 DEF Refund, RecordComposed, Cross, Readmit, Post, RecordOutcome,
       UpdateReservation, DeadLetter, Die, Goto, Exit, Settle, Close, GiveUp
  <2>6. CASE \E i \in Intents, t \in Texts : Invoke(s, i, t)
    BY <1>3, <2>6 DEF Invoke
  <2> QED
    BY <1>4, <2>1, <2>2, <2>3, <2>4, <2>5, <2>6 DEF Send
<1>5. CASE Tick \/ Bridge \/ UNCHANGED vars
  BY <1>5 DEF Tick, Bridge, Rise, FlagInFlight, CloseInFlight, StopBridge, vars,
     grantVars, senderVars, Current, Vouched
<1>6. CASE PowerLoss
  BY <1>6 DEF PowerLoss, Current, Vouched
<1> QED
  BY <1>1, <1>4, <1>5, <1>6 DEF Next

(* A command that had no authority since it has the lock sends nothing:    *)
(* the check after the last wait sees what the files say now (_authority). *)
THEOREM NoAuthorityNoSend == Spec => RevokedIsRefused
<1> DEFINE Silent == \A s \in Senders :
                       pc[s] = "post" /\ s \in lapsed
                         => posts'[job[s].intent] = posts[job[s].intent]
<1>1. Init => Typed /\ Current /\ Vouched
  BY OrderInit DEF Init, Current, Vouched
<1>2. Typed /\ Current /\ Vouched /\ [Next]_vars => (Typed /\ Current /\ Vouched)'
  BY TypedStep, VouchedStep
<1>3. Typed /\ Current /\ Vouched /\ [Next]_vars => [Silent]_vars
  BY DEF Vouched
<1> QED
  BY <1>1, <1>2, <1>3, PTL DEF Spec, RevokedIsRefused

----------------------------------------------------------------------------
(* The budget.  Only the lock's holder adds to what an hour is charged,    *)
(* and the room it found is still there when it does.                      *)

Day(h) == h \div HoursPerDay
InHour(h) == {i \in Intents : res[i].status \in CHARGED /\ res[i].at = h}
InDay(h) == {i \in Intents : res[i].status \in CHARGED /\ Day(res[i].at) = Day(h)}

Within == \A h \in 0..MaxHour : /\ Cardinality(InHour(h)) <= PerHour
                                /\ Cardinality(InDay(h)) <= PerDay

(* There is room for i in the hour h, and its day.                         *)
Room(i, h) == /\ Cardinality(InHour(h) \ {i}) < PerHour
              /\ Cardinality(InDay(h) \ {i}) < PerDay

Counted == \A s \in Senders : pc[s] = "create" => Room(job[s].intent, job[s].hour)

Budget == Within /\ Counted

(* A smaller set counts less, and one more counts at most one more.        *)
LEMMA Counts ==
  ASSUME NEW S \in SUBSET Intents, NEW T \in SUBSET S
  PROVE  /\ Cardinality(S) \in Nat /\ Cardinality(T) \in Nat
         /\ Cardinality(T) <= Cardinality(S)
<1>1. IsFiniteSet(S)
  BY FS_Subset, InitiateAssumption
<1> QED
  BY <1>1, FS_Subset, FS_CardinalityType

(* Putting one element back.                                               *)
LEMMA OneMore ==
  ASSUME NEW S \in SUBSET Intents, NEW i \in Intents, NEW n \in Nat,
         Cardinality(S \ {i}) < n
  PROVE  Cardinality(S \cup {i}) <= n
<1>1. IsFiniteSet(S \ {i})
  BY FS_Subset, InitiateAssumption
<1>2. Cardinality(S \ {i}) \in Nat
  BY <1>1, FS_CardinalityType
<1>3. Cardinality((S \ {i}) \cup {i}) = Cardinality(S \ {i}) + 1
  BY <1>1, FS_AddElement
<1>4. (S \ {i}) \cup {i} = S \cup {i}
  OBVIOUS
<1>5. Cardinality(S \cup {i}) = Cardinality(S \ {i}) + 1
  BY <1>3, <1>4, Zenon
<1> DEFINE a == Cardinality(S \ {i})
<1> HIDE DEF a
<1>6. a \in Nat /\ a < n /\ Cardinality(S \cup {i}) = a + 1
  BY <1>2, <1>5 DEF a
<1> QED
  BY <1>6

(* What a step must not do to be innocent of the counts.                   *)
NoNewCharge ==
  \A i \in Intents :
    res'[i].status \in CHARGED => res[i].status \in CHARGED /\ res'[i].at = res[i].at

NoNewCreator ==
  \A s \in Senders : pc'[s] = "create" => pc[s] = "create" /\ job'[s] = job[s]

(* Then no count grows.                                                    *)
LEMMA NoGrowth ==
  ASSUME NoNewCharge
  PROVE  \A h : InHour(h)' \subseteq InHour(h) /\ InDay(h)' \subseteq InDay(h)
BY DEF NoNewCharge, InHour, InDay

(* Nor does the room of those who are about to create shrink.              *)
LEMMA InnocentBudget ==
  ASSUME Typed, Budget, NoNewCharge, NoNewCreator PROVE Budget'
<1>1. \A h : InHour(h)' \subseteq InHour(h) /\ InDay(h)' \subseteq InDay(h)
  BY NoGrowth
<1>2. \A h : InHour(h) \in SUBSET Intents /\ InDay(h) \in SUBSET Intents
  BY DEF InHour, InDay
<1>3. Within'
  <2> SUFFICES ASSUME NEW h \in 0..MaxHour
               PROVE  /\ Cardinality(InHour(h)') <= PerHour
                      /\ Cardinality(InDay(h)') <= PerDay
    BY DEF Within
  <2> DEFINE A == InHour(h)  B == InDay(h)  C == InHour(h)'  D == InDay(h)'
  <2>1. /\ A \in SUBSET Intents /\ B \in SUBSET Intents
        /\ C \in SUBSET A /\ D \in SUBSET B
    BY <1>1, <1>2
  <2>2. Cardinality(A) <= PerHour /\ Cardinality(B) <= PerDay
    BY DEF Budget, Within
  <2> HIDE DEF A, B, C, D
  <2>3. Cardinality(C) <= PerHour /\ Cardinality(D) <= PerDay
    BY <2>1, <2>2, Counts, InitiateAssumption
  <2> QED
    BY <2>3 DEF C, D
<1>4. Counted'
  <2> SUFFICES ASSUME NEW s \in Senders, pc'[s] = "create"
               PROVE  Room(job[s].intent, job[s].hour)'
    BY DEF Counted
  <2>1. pc[s] = "create" /\ job'[s] = job[s]
    BY DEF NoNewCreator
  <2>2. PICK i, h : job[s].intent = i /\ job[s].hour = h
    OBVIOUS
  <2>3. Room(i, h) /\ job'[s].intent = i /\ job'[s].hour = h
    BY <2>1, <2>2 DEF Budget, Counted
  <2>4. /\ InHour(h) \ {i} \in SUBSET Intents /\ InDay(h) \ {i} \in SUBSET Intents
        /\ InHour(h)' \ {i} \in SUBSET (InHour(h) \ {i})
        /\ InDay(h)' \ {i} \in SUBSET (InDay(h) \ {i})
    BY <1>1, <1>2
  <2>5. Cardinality(InHour(h)' \ {i}) < PerHour /\ Cardinality(InDay(h)' \ {i}) < PerDay
    <3> DEFINE A == InHour(h) \ {i}  B == InDay(h) \ {i}
               C == InHour(h)' \ {i}  D == InDay(h)' \ {i}
    <3>1. /\ A \in SUBSET Intents /\ B \in SUBSET Intents
          /\ C \in SUBSET A /\ D \in SUBSET B
      BY <2>4
    <3>2. Cardinality(A) < PerHour /\ Cardinality(B) < PerDay
      BY <2>3 DEF Room
    <3> HIDE DEF A, B, C, D
    <3>3. Cardinality(C) < PerHour /\ Cardinality(D) < PerDay
      BY <3>1, <3>2, Counts, InitiateAssumption
    <3> QED
      BY <3>3 DEF C, D
  <2> QED
    BY <2>3, <2>5 DEF Room, InHour, InDay
<1> QED
  BY <1>3, <1>4 DEF Budget

(* One intent is charged to an hour that has room for it.                  *)
LEMMA ChargeBudget ==
  ASSUME Typed, Budget, NEW i \in Intents, NEW h \in 0..MaxHour, Room(i, h),
         res'[i].at = h, \A k \in Intents \ {i} : res'[k] = res[k],
         \A s \in Senders : pc'[s] # "create"
  PROVE  Budget'
<1>1. ASSUME NEW k \in 0..MaxHour
      PROVE  /\ Cardinality(InHour(k)') <= PerHour
             /\ Cardinality(InDay(k)') <= PerDay
  <2> DEFINE A == InHour(k)  B == InDay(k)  C == InHour(k)'  D == InDay(k)'
             E == InHour(h)  F == InDay(h)
  <2>1. /\ A \in SUBSET Intents /\ B \in SUBSET Intents
        /\ E \in SUBSET Intents /\ F \in SUBSET Intents
    BY DEF InHour, InDay
  <2>2. C \in SUBSET A \/ C \in SUBSET (E \cup {i})
    <3>1. CASE k = h
      BY <3>1 DEF InHour
    <3>2. CASE k # h
      BY <3>2 DEF InHour
    <3> QED
      BY <3>1, <3>2
  <2>3. D \in SUBSET B \/ D \in SUBSET (F \cup {i})
    <3>1. CASE Day(k) = Day(h)
      BY <3>1 DEF InDay
    <3>2. CASE Day(k) # Day(h)
      BY <3>2 DEF InDay
    <3> QED
      BY <3>1, <3>2
  <2>4. /\ Cardinality(A) <= PerHour /\ Cardinality(B) <= PerDay
        /\ Cardinality(E \ {i}) < PerHour /\ Cardinality(F \ {i}) < PerDay
    BY DEF Budget, Within, Room
  <2> HIDE DEF A, B, C, D, E, F
  <2>5. Cardinality(E \cup {i}) <= PerHour /\ Cardinality(F \cup {i}) <= PerDay
    BY <2>1, <2>4, OneMore, InitiateAssumption
  <2>6. E \cup {i} \in SUBSET Intents /\ F \cup {i} \in SUBSET Intents
    BY <2>1
  <2>7. Cardinality(C) <= PerHour
    BY <2>1, <2>2, <2>4, <2>5, <2>6, Counts, InitiateAssumption
  <2>8. Cardinality(D) <= PerDay
    BY <2>1, <2>3, <2>4, <2>5, <2>6, Counts, InitiateAssumption
  <2> QED
    BY <2>7, <2>8 DEF C, D
<1> QED
  BY <1>1 DEF Budget, Within, Counted

(* What HasRoom finds is room.                                             *)
LEMMA RoomFound ==
  ASSUME NEW i \in Intents, HasRoom(i)
  PROVE  Room(i, now)
<1>1. InHour(now) \ {i} = {j \in ChargedBut(i) : res[j].at = now}
  BY DEF InHour, ChargedBut
<1>2. InDay(now) \ {i} =
        {j \in ChargedBut(i) : res[j].at \div HoursPerDay = now \div HoursPerDay}
  BY DEF InDay, ChargedBut, Day
<1> QED
  BY <1>1, <1>2 DEF HasRoom, UsedHour, UsedDay, Room

(* What is no file, or an empty one, is charged nothing.                   *)
LEMMA EmptyUncharged ==
  NoReservation.status \notin CHARGED /\ EmptyReservation.status \notin CHARGED
BY DEF NoReservation, EmptyReservation, CHARGED

(* A new status charges nothing that was not charged.                      *)
LEMMA StatusCharge ==
  ASSUME Typed, NEW i \in Intents, NEW status \in Status, SetStatus(i, status),
         status \in CHARGED => res[i].status \in CHARGED
  PROVE  NoNewCharge
BY StatusOnly DEF NoNewCharge

(* Closing repairs what is charged already.                                *)
LEMMA CloseCharge ==
  ASSUME Typed, NEW s \in Senders, NEW i \in Intents, Close(s, i)
  PROVE  NoNewCharge
<1>1. CASE UNCHANGED res
  BY <1>1 DEF NoNewCharge
<1>2. CASE res[i].status \in LIVE /\ \E e \in Terminal(receipts[i]) : SetStatus(i, SettledAs[e])
  BY <1>2, StatusCharge, SettledIn DEF Terminal, LIVE, CHARGED
<1> QED
  BY <1>1, <1>2 DEF Close

(* A command that moves elsewhere is no creator.                           *)
LEMMA MoveCreator ==
  ASSUME Typed, NEW s \in Senders, NEW l, l # "create",
         \/ Goto(s, l)
         \/ Exit(s)
         \/ \E e \in Outcome : Settle(s, e)
         \/ \E j : pc' = [pc EXCEPT ![s] = l] /\ job' = [job EXCEPT ![s] = j]
  PROVE  NoNewCreator
BY DEF NoNewCreator, Typed, TypeOK, ProcessType, Goto, Exit, Settle

(* Who is at work, and that nobody creates next to a creator.              *)
LEMMA InnocentStep ==
  ASSUME Typed, Orderly, Budget, NEW s \in Senders,
         \/ \E i \in Intents, t \in Texts : Invoke(s, i, t)
         \/ TakeLock(s) \/ Reopen(s) \/ Start(s) \/ Claim(s) \/ SyncClaim(s)
         \/ ClaimFails(s) \/ Refund(s) \/ RecordComposed(s) \/ Cross(s)
         \/ Authority(s) \/ RecordSending(s) \/ Post(s) \/ RecordOutcome(s)
         \/ UpdateReservation(s) \/ DeadLetter(s) \/ Die(s)
  PROVE  NoNewCharge /\ NoNewCreator
<1> DEFINE i == job[s].intent
<1>1. UNCHANGED res => NoNewCharge
  BY DEF NoNewCharge
<1>2. CASE \E k \in Intents, t \in Texts : Invoke(s, k, t)
  <2>1. UNCHANGED res /\ \E j : pc' = [pc EXCEPT ![s] = "txn"] /\ job' = [job EXCEPT ![s] = j]
    BY <1>2 DEF Invoke, diskVars
  <2> QED
    BY <1>1, <2>1, MoveCreator
<1>3. CASE TakeLock(s)
  <2>1. UNCHANGED <<res, job>> /\ pc' = [pc EXCEPT ![s] = "open"]
    BY <1>3 DEF TakeLock, diskVars
  <2> QED
    BY <1>1, <2>1 DEF NoNewCreator, Typed, TypeOK, ProcessType
<1>4. CASE Start(s) \/ Claim(s) \/ SyncClaim(s) \/ ClaimFails(s)
  <2>1. UNCHANGED res /\ (Exit(s) \/ \E l : l # "create" /\ Goto(s, l))
    BY <1>4 DEF Start, Claim, SyncClaim, ClaimFails, diskVars
  <2> QED
    BY <1>1, <2>1, MoveCreator
<1>5. CASE \/ RecordComposed(s) \/ Authority(s) \/ RecordSending(s) \/ Post(s)
           \/ RecordOutcome(s) \/ DeadLetter(s)
  <2>1. /\ UNCHANGED res
        /\ \/ Exit(s) \/ \E l : l # "create" /\ Goto(s, l)
           \/ \E e \in Outcome : Settle(s, e)
    BY <1>5 DEF RecordComposed, Authority, RecordSending, Post, RecordOutcome,
       DeadLetter, diskVars, Answer, Outcome
  <2> QED
    BY <1>1, <2>1, MoveCreator
<1>6. CASE Reopen(s) \/ Cross(s)
  <2>1. i \in Intents
    BY <1>6, InOrder DEF Reopen, Cross
  <2>2. \/ Close(s, i)
        \/ /\ UNCHANGED res
           /\ \/ Exit(s) \/ \E l : l # "create" /\ Goto(s, l)
              \/ \E e \in Outcome : Settle(s, e)
    BY <1>6 DEF Reopen, Cross, GiveUp, Outcome
  <2>3. CASE Close(s, i)
    <3>1. NoNewCharge
      BY <2>1, <2>3, CloseCharge
    <3>2. Exit(s)
      BY <2>3 DEF Close
    <3> QED
      BY <3>1, <3>2, MoveCreator
  <2> QED
    BY <1>1, <2>2, <2>3, MoveCreator
<1>7. CASE Refund(s)
  <2>1. i \in Intents /\ SetStatus(i, "refunded") /\ Exit(s)
    BY <1>7, InOrder DEF Refund
  <2>2. "refunded" \in Status /\ "refunded" \notin CHARGED
    BY DEF Status, CHARGED
  <2>3. NoNewCharge
    <3> HIDE DEF i
    <3> QED
      BY <2>1, <2>2, StatusCharge
  <2> QED
    BY <2>1, <2>3, MoveCreator
<1>8. CASE UpdateReservation(s)
  <2>1. /\ i \in Intents /\ pc[s] = "update"
        /\ Place("update", job[s], res[i], receipts[i])
    BY <1>8, InOrder DEF UpdateReservation
  <2>2. PICK o \in Outcome : job[s].outcome = o
    BY <2>1 DEF Typed, Employed
  <2>3. SetStatus(i, SettledAs[o]) /\ SettledAs[o] \in Status
    BY <1>8, <2>2, SettledIn DEF UpdateReservation
  <2>4. SettledAs[o] \in CHARGED => res[i].status \in CHARGED
    <3>1. CASE o = "refused"
      BY <3>1 DEF SettledAs, CHARGED
    <3>2. CASE o # "refused"
      BY <2>1, <2>2, <3>2 DEF Place
    <3> QED
      BY <3>1, <3>2
  <2>5. NoNewCharge
    <3> HIDE DEF i
    <3> QED
      BY <2>1, <2>3, <2>4, StatusCharge
  <2> QED
    BY <1>8, <2>5, MoveCreator DEF UpdateReservation
<1>9. CASE Die(s)
  <2>1. /\ Exit(s)
        /\ \/ UNCHANGED res
           \/ pc[s] = "create" /\ res' = [res EXCEPT ![i] = EmptyReservation]
    BY <1>9 DEF Die
  <2>2. NoNewCharge
    <3>1. CASE pc[s] = "create" /\ res' = [res EXCEPT ![i] = EmptyReservation]
      <4>1. i \in Intents
        BY <3>1, InOrder
      <4> HIDE DEF i
      <4>2. res'[i] = EmptyReservation /\ \A k \in Intents \ {i} : res'[k] = res[k]
        BY <3>1, <4>1 DEF Typed, TypeOK, DiskType
      <4> QED
        BY <4>2, EmptyUncharged DEF NoNewCharge
    <3> QED
      BY <1>1, <2>1, <3>1
  <2> QED
    BY <2>1, <2>2, MoveCreator
<1> QED
  BY <1>2, <1>3, <1>4, <1>5, <1>6, <1>7, <1>8, <1>9

(* Every step keeps the budget.                                            *)
LEMMA BudgetStep ==
  ASSUME Typed, Orderly, Budget, [Next]_vars PROVE Budget'
<1>1. ASSUME NEW s \in Senders, Admit(s) PROVE Budget'
  <2> DEFINE i == job[s].intent
  <2>1. UNCHANGED <<res, now>> /\ NoNewCharge
    BY <1>1 DEF Admit, diskVars, NoNewCharge
  <2>2. CASE Exit(s)
    BY <2>1, <2>2, MoveCreator, InnocentBudget
  <2>3. CASE ~ Exit(s)
    <3>1. /\ HasRoom(i) /\ pc' = [pc EXCEPT ![s] = "create"]
          /\ job' = [job EXCEPT ![s].hour = now] /\ BudgetFree /\ i \in Intents
      BY <1>1, <2>3, InOrder DEF Admit
    <3>2. Room(i, now)
      BY <3>1, RoomFound
    <3>3. /\ job'[s].intent = i /\ job'[s].hour = now
          /\ \A t \in Senders \ {s} : pc'[t] # "create"
      BY <3>1 DEF BudgetFree, Typed, TypeOK, ProcessType, Job
    <3>4. Within'
      BY <2>1 DEF Budget, Within, InHour, InDay
    <3>5. \A t \in Senders : pc'[t] = "create" => t = s
      BY <3>3
    <3> HIDE DEF i
    <3>6. Counted'
      <4> SUFFICES Room(job[s].intent, job[s].hour)'
        BY <3>5 DEF Counted
      <4>1. \A h : InHour(h)' = InHour(h) /\ InDay(h)' = InDay(h)
        BY <2>1 DEF InHour, InDay
      <4>2. Room(job[s].intent, job[s].hour)' <=> Room(i, now)
        BY <3>3, <4>1 DEF Room
      <4> QED
        BY <3>2, <4>2
    <3> QED
      BY <3>4, <3>6 DEF Budget
  <2> QED
    BY <2>2, <2>3
<1>2. ASSUME NEW s \in Senders, CreateReservation(s) PROVE Budget'
  <2> DEFINE i == job[s].intent
             h == job[s].hour
  <2>1. pc[s] = "create" /\ i \in Intents /\ h \in 0..MaxHour
    BY <1>2, InOrder DEF CreateReservation, Typed, TypeOK, ProcessType, Job
  <2>2. /\ res'[i].at = h /\ \A k \in Intents \ {i} : res'[k] = res[k]
    BY <1>2, <2>1 DEF CreateReservation, Typed, TypeOK, DiskType
  <2>3. \A t \in Senders : pc'[t] # "create"
    BY <1>2, <2>1 DEF CreateReservation, Typed, TypeOK, ProcessType, OneHolder
  <2>4. Room(i, h)
    BY <2>1 DEF Budget, Counted
  <2> HIDE DEF i, h
  <2> QED
    BY <2>1, <2>2, <2>3, <2>4, ChargeBudget
<1>3. ASSUME NEW s \in Senders, Readmit(s) PROVE Budget'
  <2> DEFINE i == job[s].intent
  <2>1. i \in Intents /\ now \in 0..MaxHour /\ BudgetFree
    BY <1>3, InOrder DEF Readmit, Typed, TypeOK, WorldType
  <2>2. NoNewCreator
    BY <1>3, MoveCreator DEF Readmit
  <2>3. \A t \in Senders : pc'[t] # "create"
    BY <2>1, <2>2 DEF BudgetFree, NoNewCreator
  <2>4. CASE UNCHANGED res
    BY <2>2, <2>4, InnocentBudget DEF NoNewCharge
  <2>5. CASE res' = [res EXCEPT ![i].at = now] /\ res[i].at = now
    BY <2>1, <2>2, <2>5, InnocentBudget
       DEF NoNewCharge, Typed, TypeOK, DiskType, Reservation
  <2>6. CASE res' = [res EXCEPT ![i].at = now] /\ HasRoom(i)
    <3>1. res'[i].at = now /\ \A k \in Intents \ {i} : res'[k] = res[k]
      BY <2>1, <2>6 DEF Typed, TypeOK, DiskType, Reservation
    <3>2. Room(i, now)
      BY <2>1, <2>6, RoomFound
    <3> HIDE DEF i
    <3> QED
      BY <2>1, <2>3, <3>1, <3>2, ChargeBudget
  <2> QED
    BY <1>3, <2>4, <2>5, <2>6 DEF Readmit
<1>4. ASSUME NEW s \in Senders, Send(s) \/ Die(s) PROVE Budget'
  BY <1>1, <1>2, <1>3, <1>4, InnocentStep, InnocentBudget DEF Send
<1>5. CASE Tick \/ EditAuthority \/ Bridge \/ UNCHANGED vars
  <2>1. UNCHANGED <<res, pc, job>>
    BY <1>5 DEF Tick, EditAuthority, vars, diskVars, senderVars, Bridge, Rise,
       FlagInFlight, CloseInFlight, StopBridge
  <2> QED
    BY <2>1, InnocentBudget DEF NoNewCharge, NoNewCreator
<1>6. CASE PowerLoss
  <2>1. NoNewCharge
    BY <1>6, EmptyUncharged DEF PowerLoss, NoNewCharge
  <2>2. NoNewCreator
    BY <1>6 DEF PowerLoss, NoNewCreator
  <2> QED
    BY <2>1, <2>2, InnocentBudget
<1> QED
  BY <1>4, <1>5, <1>6 DEF Next

(* At first nothing is charged.                                            *)
LEMMA BudgetInit == ASSUME Init PROVE Budget
<1>1. \A h : InHour(h) = {} /\ InDay(h) = {}
  BY EmptyUncharged DEF Init, InHour, InDay
<1> QED
  BY <1>1, FS_EmptySet, InitiateAssumption DEF Init, Budget, Within, Counted

(* No hour and no day is charged with more than the grant allows, however  *)
(* commands, throttles, retries and failures of every kind interleave      *)
(* (admit_new, readmit_existing).                                          *)
THEOREM BudgetHolds == Spec => []BudgetKept
<1>1. Init => Budget
  BY BudgetInit
<1>2. Typed /\ Orderly /\ Budget /\ [Next]_vars => Budget'
  BY BudgetStep
<1>3. Budget => BudgetKept
  <2> SUFFICES ASSUME Budget, NEW h \in 0..MaxHour
               PROVE  /\ Cardinality({i \in {i \in Intents : res[i].status \in CHARGED} :
                                        res[i].at = h}) <= PerHour
                      /\ Cardinality({i \in {i \in Intents : res[i].status \in CHARGED} :
                                        res[i].at \div HoursPerDay = h \div HoursPerDay})
                           <= PerDay
    BY DEF BudgetKept, CHARGED
  <2>1. /\ {i \in {i \in Intents : res[i].status \in CHARGED} : res[i].at = h} = InHour(h)
        /\ {i \in {i \in Intents : res[i].status \in CHARGED} :
              res[i].at \div HoursPerDay = h \div HoursPerDay} = InDay(h)
    BY DEF InHour, InDay, Day
  <2> QED
    BY <2>1 DEF Budget, Within
<1> QED
  BY <1>1, <1>2, <1>3, AlwaysOrderly, PTL DEF Spec

----------------------------------------------------------------------------
(* The queue, while the power holds: a power failure can undo the receipt  *)
(* that took a message out of it.                                          *)

Creators == {s \in Senders : pc[s] = "create"}

Queue == /\ Cardinality(Queued) <= MaxQueued
         /\ \A s \in Creators : Cardinality(Queued \ {job[s].intent}) < MaxQueued

(* What a step must not do to be innocent of the queue.                    *)
NoNewEntry ==
  /\ \A i \in Intents : res'[i].status \in LIVE => res[i].status \in LIVE
  /\ \A i \in Intents : Terminal(receipts[i]) # {} => Terminal(receipts'[i]) # {}

(* Then the queue does not grow.                                           *)
LEMMA InnocentQueue ==
  ASSUME Queue, NoNewEntry, NoNewCreator PROVE Queue'
<1>1. Queued' \in SUBSET Queued /\ Queued \in SUBSET Intents
  BY DEF NoNewEntry, Queued
<1>2. Cardinality(Queued') <= MaxQueued
  <2> DEFINE A == Queued'  B == Queued
  <2>1. B \in SUBSET Intents /\ A \in SUBSET B /\ Cardinality(B) <= MaxQueued
    BY <1>1 DEF Queue
  <2> HIDE DEF A, B
  <2>2. Cardinality(A) <= MaxQueued
    BY <2>1, Counts, InitiateAssumption
  <2> QED
    BY <2>2 DEF A
<1>3. ASSUME NEW s \in Senders, pc'[s] = "create"
      PROVE  Cardinality(Queued' \ {job'[s].intent}) < MaxQueued
  <2> DEFINE A == Queued' \ {job'[s].intent}  B == Queued \ {job[s].intent}
  <2>1. B \in SUBSET Intents /\ A \in SUBSET B /\ Cardinality(B) < MaxQueued
    BY <1>1, <1>3 DEF Queue, Creators, NoNewCreator
  <2> HIDE DEF A, B
  <2>2. Cardinality(A) < MaxQueued
    BY <2>1, Counts, InitiateAssumption
  <2> QED
    BY <2>2 DEF A
<1> QED
  BY <1>2, <1>3 DEF Queue, Creators

(* A command that puts nothing into the queue and takes no receipt away.   *)
LEMMA RecordEntry ==
  ASSUME Typed, NEW i \in Intents, NEW e \in Event,
         receipts' = [receipts EXCEPT ![i] = Recorded(@, e)]
  PROVE  \A k \in Intents : Terminal(receipts[k]) # {} => Terminal(receipts'[k]) # {}
<1>1. /\ receipts'[i].events = receipts[i].events \cup {e}
      /\ \A k \in Intents \ {i} : receipts'[k] = receipts[k]
  BY RecordedIn DEF Typed, TypeOK, DiskType
<1> QED
  BY <1>1 DEF Terminal

(* A status of i, when i is live already or the status is not.             *)
LEMMA StatusEntry ==
  ASSUME Typed, NEW i \in Intents, NEW status \in Status, SetStatus(i, status),
         status \in LIVE => res[i].status \in LIVE, UNCHANGED receipts
  PROVE  NoNewEntry
BY StatusOnly DEF NoNewEntry

(* The steps that create no reservation put nothing into the queue.        *)
LEMMA QuietStep ==
  ASSUME Typed, Orderly, NEW s \in Senders,
         \/ \E i \in Intents, t \in Texts : Invoke(s, i, t)
         \/ TakeLock(s) \/ Reopen(s) \/ Start(s) \/ Admit(s) \/ Claim(s)
         \/ SyncClaim(s) \/ ClaimFails(s) \/ Refund(s) \/ RecordComposed(s)
         \/ Cross(s) \/ Readmit(s) \/ Authority(s) \/ RecordSending(s) \/ Post(s)
         \/ RecordOutcome(s) \/ UpdateReservation(s) \/ DeadLetter(s) \/ Die(s)
  PROVE  NoNewEntry
<1> DEFINE i == job[s].intent
<1>1. UNCHANGED <<res, receipts>> => NoNewEntry
  BY DEF NoNewEntry
<1>2. CASE \/ \E k \in Intents, t \in Texts : Invoke(s, k, t)
           \/ TakeLock(s) \/ Start(s) \/ Admit(s) \/ Claim(s) \/ SyncClaim(s)
           \/ ClaimFails(s) \/ Authority(s) \/ Post(s) \/ DeadLetter(s)
  BY <1>1, <1>2 DEF Invoke, TakeLock, Start, Admit, Claim, SyncClaim, ClaimFails,
     Authority, Post, DeadLetter, diskVars
<1>3. CASE RecordComposed(s) \/ RecordSending(s) \/ RecordOutcome(s)
  <2>1. UNCHANGED res /\ i \in Intents
    BY <1>3, InOrder DEF RecordComposed, RecordSending, RecordOutcome
  <2>2. \E e \in Event : receipts' = [receipts EXCEPT ![i] = Recorded(@, e)]
    BY <1>3 DEF RecordComposed, RecordSending, RecordOutcome, Typed, Employed, Event,
       Outcome
  <2> HIDE DEF i
  <2> QED
    BY <2>1, <2>2, RecordEntry DEF NoNewEntry
<1>4. CASE Reopen(s) \/ Cross(s)
  <2>1. i \in Intents /\ UNCHANGED receipts
    BY <1>4, InOrder DEF Reopen, Cross
  <2>2. UNCHANGED res \/ Close(s, i)
    BY <1>4 DEF Reopen, Cross, GiveUp
  <2> HIDE DEF i
  <2>3. Close(s, i) /\ res' # res
          => /\ res[i].status \in LIVE
             /\ \E e \in Terminal(receipts[i]) : SetStatus(i, SettledAs[e])
    BY DEF Close
  <2>4. Terminal(receipts[i]) \subseteq TERMINAL
    BY DEF Terminal
  <2> QED
    BY <1>1, <2>1, <2>2, <2>3, <2>4, StatusEntry, SettledIn
<1>5. CASE Refund(s)
  <2>1. i \in Intents /\ SetStatus(i, "refunded") /\ UNCHANGED receipts
    BY <1>5, InOrder DEF Refund
  <2> HIDE DEF i
  <2> QED
    BY <2>1, StatusEntry DEF Status, LIVE
<1>6. CASE UpdateReservation(s)
  <2>1. /\ i \in Intents /\ Place("update", job[s], res[i], receipts[i])
        /\ UNCHANGED receipts
    BY <1>6, InOrder DEF UpdateReservation
  <2>2. PICK o \in Outcome : job[s].outcome = o
    BY <1>6 DEF UpdateReservation, Typed, Employed
  <2>3. SetStatus(i, SettledAs[o]) /\ SettledAs[o] \in Status
    BY <1>6, <2>2, SettledIn DEF UpdateReservation
  <2>4. SettledAs[o] \in LIVE => res[i].status \in LIVE
    BY <2>1, <2>2 DEF Place, SettledAs, LIVE, Outcome
  <2> HIDE DEF i
  <2> QED
    BY <2>1, <2>3, <2>4, StatusEntry
<1>7. CASE Readmit(s)
  <2>1. i \in Intents /\ UNCHANGED receipts
    BY <1>7, InOrder DEF Readmit
  <2>2. UNCHANGED res \/ res' = [res EXCEPT ![i].at = now]
    BY <1>7 DEF Readmit
  <2> HIDE DEF i
  <2>3. \A k \in Intents : res'[k].status = res[k].status
    BY <2>1, <2>2 DEF Typed, TypeOK, DiskType, Reservation
  <2> QED
    BY <2>1, <2>3 DEF NoNewEntry
<1>8. CASE Die(s)
  <2>1. UNCHANGED receipts
    BY <1>8 DEF Die
  <2>2. CASE pc[s] = "create" /\ res' = [res EXCEPT ![i] = EmptyReservation]
    <3>1. i \in Intents
      BY <2>2, InOrder
    <3> HIDE DEF i
    <3>2. res'[i] = EmptyReservation /\ \A k \in Intents \ {i} : res'[k] = res[k]
      BY <2>2, <3>1 DEF Typed, TypeOK, DiskType
    <3>3. EmptyReservation.status \notin LIVE
      BY DEF EmptyReservation, NoReservation, LIVE
    <3> QED
      BY <2>1, <3>2, <3>3 DEF NoNewEntry
  <2> QED
    BY <1>1, <1>8, <2>1, <2>2 DEF Die
<1> QED
  BY <1>2, <1>3, <1>4, <1>5, <1>6, <1>7, <1>8

(* Every step keeps the queue while the power holds.                       *)
LEMMA QueueStep ==
  ASSUME "power" \notin Faults, Typed, Orderly, Budget, Queue, [Next]_vars
  PROVE  Queue'
<1>1. ASSUME NEW s \in Senders, Admit(s) PROVE Queue'
  <2>1. UNCHANGED <<res, receipts>>
    BY <1>1 DEF Admit, diskVars
  <2>2. CASE Exit(s)
    BY <1>1, <2>2, QuietStep, MoveCreator, InnocentQueue
  <2>3. CASE ~ Exit(s)
    <3>1. /\ Cardinality(Queued) < MaxQueued /\ pc' = [pc EXCEPT ![s] = "create"]
          /\ BudgetFree
      BY <1>1, <2>3 DEF Admit
    <3>2. \A t \in Senders : pc'[t] = "create" => t = s
      BY <3>1 DEF BudgetFree, Typed, TypeOK, ProcessType
    <3>3. PICK i : job'[s].intent = i
      OBVIOUS
    <3>4. Queued' = Queued /\ Queued \in SUBSET Intents /\ Queued \ {i} \in SUBSET Queued
      BY <2>1 DEF Queued
    <3>5. Cardinality(Queued \ {i}) < MaxQueued /\ Cardinality(Queued) <= MaxQueued
      <4> DEFINE A == Queued
      <4>1. A \in SUBSET Intents /\ A \ {i} \in SUBSET A /\ Cardinality(A) < MaxQueued
        BY <3>1, <3>4
      <4> HIDE DEF A
      <4>2. Cardinality(A \ {i}) < MaxQueued /\ Cardinality(A) <= MaxQueued
        BY <4>1, Counts, InitiateAssumption
      <4> QED
        BY <4>2 DEF A
    <3> QED
      BY <3>2, <3>3, <3>4, <3>5 DEF Queue, Creators
  <2> QED
    BY <2>2, <2>3
<1>2. ASSUME NEW s \in Senders, CreateReservation(s) PROVE Queue'
  <2>1. PICK i \in Intents : job[s].intent = i
    BY <1>2, InOrder DEF CreateReservation
  <2>2. /\ pc[s] = "create" /\ UNCHANGED receipts
        /\ \A k \in Intents \ {i} : res'[k] = res[k]
    BY <1>2, <2>1 DEF CreateReservation, Typed, TypeOK, DiskType
  <2>3. \A t \in Senders : pc'[t] # "create"
    BY <1>2, <2>2 DEF CreateReservation, Typed, TypeOK, ProcessType, OneHolder
  <2>4. Queued' \in SUBSET (Queued \cup {i}) /\ Queued \in SUBSET Intents
    BY <2>2 DEF Queued
  <2>5. Cardinality(Queued \ {i}) < MaxQueued
    BY <2>1, <2>2 DEF Queue, Creators
  <2>6. Cardinality(Queued') <= MaxQueued
    <3> DEFINE A == Queued'  B == Queued
    <3>1. /\ B \in SUBSET Intents /\ A \in SUBSET (B \cup {i})
          /\ Cardinality(B \ {i}) < MaxQueued
      BY <2>4, <2>5
    <3> HIDE DEF A, B
    <3>2. Cardinality(B \cup {i}) <= MaxQueued /\ B \cup {i} \in SUBSET Intents
      BY <3>1, OneMore, InitiateAssumption
    <3>3. Cardinality(A) <= MaxQueued
      BY <3>1, <3>2, Counts, InitiateAssumption
    <3> QED
      BY <3>3 DEF A
  <2> QED
    BY <2>3, <2>6 DEF Queue, Creators
<1>3. ASSUME NEW s \in Senders, Readmit(s) PROVE Queue'
  BY <1>3, QuietStep, MoveCreator, InnocentQueue DEF Readmit
<1>4. ASSUME NEW s \in Senders, Send(s) \/ Die(s) PROVE Queue'
  BY <1>1, <1>2, <1>3, <1>4, InnocentStep, QuietStep, InnocentQueue DEF Send
<1>5. CASE Tick \/ EditAuthority \/ UNCHANGED vars
  BY <1>5, InnocentQueue DEF Tick, EditAuthority, vars, diskVars, senderVars,
     NoNewEntry, NoNewCreator
<1>6. CASE Bridge
  <2>1. UNCHANGED <<res, pc, job>>
    BY <1>6 DEF Bridge, Rise, FlagInFlight, CloseInFlight, StopBridge, diskVars,
       senderVars
  <2>2. \/ receipts' = receipts
        \/ \E i \in Intents : receipts' = [receipts EXCEPT ![i] = Recorded(@, "dead")]
    BY <1>6 DEF Bridge, Rise, FlagInFlight, CloseInFlight, StopBridge, diskVars
  <2>3. NoNewEntry
    BY <2>1, <2>2, RecordEntry DEF NoNewEntry, Event
  <2> QED
    BY <2>1, <2>3, InnocentQueue DEF NoNewCreator
<1> QED
  BY <1>4, <1>5, <1>6 DEF Next, PowerLoss

(* While the power holds, no more messages wait than the queue may hold:   *)
(* the count and the reservation are one under the lock of the budget, and *)
(* what a command throttles was waiting before (admit_new).                *)
THEOREM QueueHolds == "power" \notin Faults => (Spec => []QueueKept)
<1> SUFFICES ASSUME "power" \notin Faults PROVE Spec => []QueueKept
  OBVIOUS
<1>1. Init => Budget /\ Queue
  <2> SUFFICES ASSUME Init PROVE Queue
    BY BudgetInit
  <2>1. Queued = {} /\ Creators = {}
    BY DEF Init, Queued, Creators, NoReservation, LIVE
  <2> QED
    BY <2>1, FS_EmptySet, InitiateAssumption DEF Queue
<1>2. Typed /\ Orderly /\ Budget /\ Queue /\ [Next]_vars => (Budget /\ Queue)'
  BY BudgetStep, QueueStep
<1>3. Queue => QueueKept
  <2>1. Queued = {i \in Intents :
                    /\ res[i].status \in {"reserved", "held"}
                    /\ ~ \E e \in {"sent", "refused", "ambiguous", "dead"} :
                           e \in receipts[i].events}
    BY DEF Queued, LIVE, Terminal, TERMINAL
  <2> QED
    BY <2>1 DEF Queue, QueueKept
<1> QED
  BY <1>1, <1>2, <1>3, AlwaysOrderly, PTL DEF Spec

----------------------------------------------------------------------------
(* The refinement: while the power holds every step is, for every intent,  *)
(* one of Delivery or none.                                                *)
Prepared == {"readmit", "authority", "sending"}

(* The stage of an intent whose lock's holder is at l, or of one nobody    *)
(* works on.                                                               *)
StageOf(l, h) ==
  IF l = "post" THEN "crossing"
  ELSE IF (Terminal(h) = {} /\ ~ Unresolved(h)) \/ l \in Prepared THEN "ready"
  ELSE "over"

(* A command about to record an outcome has it from the platform, from the *)
(* receipts or from having been refused.                                   *)
Told(e, h, n) ==
  /\ e = "sent" => n = 1
  /\ e # "refused" => Terminal(h) # {} \/ Unresolved(h)

Reported ==
  \A s \in Senders :
    pc[s] = "record" =>
      Told(job[s].outcome, receipts[job[s].intent], posts[job[s].intent])

Moves(s, i, l) ==
  /\ pc'[s] = l /\ (l = "idle" \/ job'[s].intent = i)
  /\ \A t \in Senders \ {s} : pc'[t] = pc[t] /\ job'[t] = job[t]

(* A step of a command is a move of that command, away from the lock, or   *)
(* with it and no farther than the intent.                                 *)
LEMMA MovesOnly ==
  ASSUME Typed, NEW s \in Senders, NEW i \in Intents,
         AtWork(s, i), Send(s) \/ Die(s)
  PROVE  /\ \E l \in Steps \ {"txn"} : Moves(s, i, l)
         /\ \A k \in Intents \ {i} : receipts'[k] = receipts[k] /\ posts'[k] = posts[k]
<1> USE DEF Typed, TypeOK, ProcessType, DiskType, AtWork
<1>1. ASSUME Exit(s) PROVE Moves(s, i, "idle") /\ "idle" \in Steps
  BY <1>1 DEF Exit, Moves, Steps
<1>2. ASSUME NEW l \in Steps \ {"txn"}, Goto(s, l) PROVE Moves(s, i, l)
  BY <1>2 DEF Goto, Moves
<1>3. ASSUME NEW e, Settle(s, e) PROVE Moves(s, i, "record") /\ "record" \in Steps
  BY <1>3 DEF Settle, Moves, Job, Steps
<1>4. \/ Exit(s) \/ \E l \in Steps \ {"txn"} : Goto(s, l)
      \/ \E e : Settle(s, e)
      \/ Admit(s) \/ CreateReservation(s)
  BY DEF Send, Die, Invoke, TakeLock, Reopen, Close, GiveUp, Start, Claim, SyncClaim,
         ClaimFails, Refund, RecordComposed, Cross, Readmit, Authority, RecordSending,
         Post, RecordOutcome, UpdateReservation, DeadLetter, Steps
<1>5. ASSUME Admit(s), ~ Exit(s) PROVE Moves(s, i, "create") /\ "create" \in Steps
  BY <1>5 DEF Admit, Moves, Job, Steps
<1>6. ASSUME CreateReservation(s) PROVE Moves(s, i, "claim") /\ "claim" \in Steps
  BY <1>6 DEF CreateReservation, Moves, Job, Steps
<1>7. \A k \in Intents \ {i} : receipts'[k] = receipts[k] /\ posts'[k] = posts[k]
  BY DEF Send, Die, Invoke, TakeLock, Reopen, Start, Admit, CreateReservation, Claim,
         SyncClaim, ClaimFails, Refund, RecordComposed, Cross, Readmit, Authority,
         RecordSending, Post, RecordOutcome, UpdateReservation, DeadLetter, diskVars
<1> QED
  BY <1>1, <1>2, <1>3, <1>4, <1>5, <1>6, <1>7

(* Up to the lock a command touches nothing and has nobody's lock.         *)
LEMMA BeginsOnly ==
  ASSUME Typed, NEW s \in Senders, pc[s] \in {"idle", "txn"}, Send(s) \/ Die(s)
  PROVE  /\ UNCHANGED <<receipts, posts>>
         /\ pc'[s] \in {"idle", "txn", "open"}
         /\ \A t \in Senders \ {s} : pc'[t] = pc[t] /\ job'[t] = job[t]
<1>1. TakeLock(s) \/ Die(s) \/ \E i \in Intents, t \in Texts : Invoke(s, i, t)
  BY DEF Send, Reopen, Start, Admit, CreateReservation, Claim, SyncClaim, ClaimFails,
         Refund, RecordComposed, Cross, Readmit, Authority, RecordSending, Post,
         RecordOutcome, UpdateReservation, DeadLetter
<1> QED
  BY <1>1 DEF TakeLock, Die, Exit, Invoke, diskVars, Typed, TypeOK, ProcessType

(* The holder of the lock decides the stage.                               *)
LEMMA StageAt ==
  ASSUME Typed, NEW s \in Senders, NEW i \in Intents, AtWork(s, i)
  PROVE  Stage(i) = StageOf(pc[s], receipts[i])
<1>1. \A t \in Senders \ {s} : ~ AtWork(t, i)
  BY DEF Typed, TypeOK, OneHolder
<1> QED
  BY <1>1 DEF Stage, StageOf, Clear, Prepared

(* So it does after its step, unless it has left.                          *)
LEMMA StageAfter ==
  ASSUME Typed, NEW s \in Senders, NEW i \in Intents, AtWork(s, i),
         NEW l, l # "txn", Moves(s, i, l)
  PROVE  Stage(i)' = StageOf(l, receipts'[i])
<1>1. \A t \in Senders \ {s} : ~ AtWork(t, i)
  BY DEF Typed, TypeOK, OneHolder
<1>2. \A t \in Senders \ {s} : ~ AtWork(t, i)'
  BY <1>1 DEF AtWork, Moves
<1>3. AtWork(s, i)' <=> l # "idle"
  BY DEF AtWork, Moves
<1> QED
  BY <1>2, <1>3 DEF Stage, StageOf, Clear, Prepared, Moves

(* A step that neither records nor posts leaves the attempt as it is, or   *)
(* nobody to make it.                                                      *)
LEMMA QuietKeeps ==
  ASSUME IInv, NEW s \in Senders, NEW i \in Intents, AtWork(s, i),
         NEW l \in Steps \ {"txn", "post"}, Moves(s, i, l),
         l \in Prepared => pc[s] \in Prepared \/ Clear(i),
         receipts'[i] = receipts[i], posts'[i] = posts[i]
  PROVE  Delivers(i)
<1>1. Stage(i) = StageOf(pc[s], receipts[i]) /\ Stage(i)' = StageOf(l, receipts[i])
  BY StageAt, StageAfter DEF IInv
<1>2. pc[s] = "post" => ~ Clear(i)
  BY WorkFits DEF Fit, Clear, AtWork
<1>3. Stage(i)' \in {Stage(i), "over"}
  BY <1>1, <1>2 DEF StageOf, Clear, Prepared
<1>4. UNCHANGED <<posts[i], Said(i)>>
  BY DEF Said
<1> QED
  BY <1>3, <1>4
     DEF Delivers, OneDelivery!Next, OneDelivery!Abandon, OneDelivery!deliveryVars

(* What a recorded event adds to the outcomes, and to what forbids.        *)
LEMMA EventSays ==
  ASSUME Typed, NEW i \in Intents, NEW e \in Event,
         receipts' = [receipts EXCEPT ![i] = Recorded(@, e)]
  PROVE  /\ Said(i)' = IF e \in Outcome \cup {"dead"} THEN Said(i) \cup {e} ELSE Said(i)
         /\ e \in TERMINAL => Terminal(receipts'[i]) # {}
         /\ e \notin TERMINAL => Terminal(receipts'[i]) = Terminal(receipts[i])
         /\ Unresolved(receipts'[i]) <=> e = "sending"
<1>1. receipts'[i] = Recorded(receipts[i], e) /\ receipts[i] \in History
  BY DEF Typed, TypeOK, DiskType
<1>2. receipts'[i].events = receipts[i].events \cup {e} /\ receipts'[i].tail = e
  BY <1>1, RecordedIn
<1> QED
  BY <1>2 DEF Said, Terminal, Unresolved

(* Recording that the letter is composed, or that it is being sent.        *)
LEMMA ReceiptKeeps ==
  ASSUME IInv, Orderly, NEW s \in Senders, NEW i \in Intents, AtWork(s, i),
         RecordComposed(s) \/ RecordSending(s)
  PROVE  Delivers(i)
<1>1. i = job[s].intent /\ UNCHANGED posts
  BY DEF AtWork, RecordComposed, RecordSending
<1>2. CASE RecordComposed(s)
  <2>1. pc[s] = "composed" /\ Moves(s, i, "cross")
    BY <1>2 DEF RecordComposed, Goto, Moves, AtWork, IInv, Typed, TypeOK, ProcessType
  <2>2. Answered(receipts[i])
    BY <2>1 DEF Orderly, Place
  <2>3. /\ Said(i)' = Said(i) /\ Terminal(receipts'[i]) = Terminal(receipts[i])
        /\ ~ Unresolved(receipts'[i])
    <3>1. PICK e \in Event \ (TERMINAL \cup Outcome \cup {"dead", "sending"}) :
            receipts' = [receipts EXCEPT ![i] = Recorded(@, e)]
      BY <1>1, <1>2 DEF RecordComposed, Event, TERMINAL, Outcome
    <3> QED
      BY <3>1, EventSays DEF IInv
  <2>4. Stage(i) = StageOf("composed", receipts[i]) /\ Stage(i)' = StageOf("cross", receipts'[i])
    BY <2>1, StageAt, StageAfter DEF IInv
  <2>5. Stage(i)' = Stage(i)
    BY <2>2, <2>3, <2>4 DEF StageOf, Answered, Prepared
  <2> QED
    BY <1>1, <2>3, <2>5 DEF Delivers, OneDelivery!deliveryVars
<1>3. CASE RecordSending(s)
  <2>1. pc[s] = "sending" /\ Moves(s, i, "post")
    BY <1>3 DEF RecordSending, Goto, Moves, AtWork, IInv, Typed, TypeOK, ProcessType
  <2>2. Stage(i) = "ready" /\ Stage(i)' = "crossing"
    BY <2>1, StageAt, StageAfter DEF IInv, StageOf, Prepared
  <2>3. Said(i)' = Said(i)
    <3>1. PICK e \in Event \ (Outcome \cup {"dead"}) :
            receipts' = [receipts EXCEPT ![i] = Recorded(@, e)]
      BY <1>1, <1>3 DEF RecordSending, Event, Outcome
    <3> QED
      BY <3>1, EventSays DEF IInv
  <2> QED
    BY <1>1, <2>2, <2>3 DEF Delivers, OneDelivery!Next, OneDelivery!Begin
<1> QED
  BY <1>2, <1>3

(* What the platform answers.                                              *)
LEMMA PostKeeps ==
  ASSUME IInv, NEW s \in Senders, NEW i \in Intents, AtWork(s, i), Post(s)
  PROVE  Delivers(i)
<1>1. i = job[s].intent /\ pc[s] = "post" /\ UNCHANGED receipts
  BY DEF AtWork, Post, diskVars
<1>2. PICK a \in Answer : Settle(s, a[1]) /\ posts' = [posts EXCEPT ![i] = @ + a[2]]
  BY <1>1 DEF Post
<1>3. posts[i] = 0
  BY <1>1, Unposted DEF Steps
<1>4. posts'[i] \in {0, 1}
  BY <1>2, <1>3, AnswerIn DEF IInv, Typed, TypeOK, DiskType
<1>5. Moves(s, i, "record")
  BY <1>1, <1>2 DEF Settle, Moves, IInv, Typed, TypeOK, ProcessType, Job
<1>6. ~ Clear(i)
  BY <1>1, WorkFits DEF Fit, Clear
<1>7. Stage(i) = "crossing" /\ Stage(i)' = "over"
  BY <1>1, <1>5, <1>6, StageAt, StageAfter DEF IInv, StageOf, Prepared, Clear
<1>8. Said(i)' = Said(i)
  BY <1>1 DEF Said
<1> QED
  BY <1>3, <1>4, <1>7, <1>8 DEF Delivers, OneDelivery!Next, OneDelivery!Answer

(* Recording what came of it.                                              *)
LEMMA OutcomeKeeps ==
  ASSUME IInv, Reported, NEW s \in Senders, NEW i \in Intents, AtWork(s, i),
         RecordOutcome(s)
  PROVE  Delivers(i)
<1> DEFINE e == job[s].outcome
<1>1. /\ i = job[s].intent /\ pc[s] = "record" /\ e \in Outcome
      /\ receipts' = [receipts EXCEPT ![i] = Recorded(@, e)] /\ UNCHANGED posts
  BY DEF AtWork, RecordOutcome, IInv, Typed, Employed
<1>2. /\ Told(e, receipts[i], posts[i])
      /\ posts[i] # 0 => e \in {"sent", "ambiguous"}
  BY <1>1, WorkFits DEF Reported, Fit
<1>3. Moves(s, i, "update")
  BY <1>1 DEF RecordOutcome, Goto, Moves, IInv, Typed, TypeOK, ProcessType
<1>4. Stage(i) = StageOf("record", receipts[i]) /\ Stage(i)' = StageOf("update", receipts'[i])
  BY <1>1, <1>3, StageAt, StageAfter DEF IInv
<1> HIDE DEF e
<1>5. /\ Said(i)' = Said(i) \cup {e}
      /\ e \in TERMINAL => Terminal(receipts'[i]) # {}
      /\ e \notin TERMINAL => Terminal(receipts'[i]) = Terminal(receipts[i])
      /\ ~ Unresolved(receipts'[i])
  <2>1. e \in Event /\ e # "sending" /\ e \in Outcome \cup {"dead"}
    BY <1>1 DEF Outcome, Event
  <2> QED
    BY <1>1, <2>1, EventSays DEF IInv
<1>6. e # "refused" => Stage(i) = "over"
  BY <1>2, <1>4 DEF Told, StageOf, Prepared
<1>7. CASE e = "throttled"
  <2>1. posts[i] = 0 /\ Stage(i) = "over" /\ Stage(i)' \in {"over", "ready"}
    BY <1>2, <1>4, <1>6, <1>7 DEF StageOf
  <2>2. Stage(i)' = "ready" => Said(i) \cap OneDelivery(i)!Final = {}
    <3>1. Stage(i)' = "ready" => Terminal(receipts[i]) = {}
      BY <1>4, <1>5, <1>7 DEF StageOf, Prepared, TERMINAL
    <3> QED
      BY <3>1 DEF Said, Terminal, TERMINAL, OneDelivery!Final
  <2> QED
    BY <1>1, <1>5, <1>7, <2>1, <2>2 DEF Delivers, OneDelivery!Next, OneDelivery!Defer
<1>8. CASE e # "throttled"
  <2>1. Stage(i)' = "over"
    BY <1>1, <1>4, <1>5, <1>8 DEF StageOf, Prepared, Outcome, TERMINAL
  <2>2. CASE e = "refused" /\ Stage(i) = "ready"
    BY <1>1, <1>2, <1>5, <2>1, <2>2 DEF Delivers, OneDelivery!Next, OneDelivery!Withdraw
  <2>3. CASE Stage(i) = "over"
    <3>1. /\ e = "sent" => posts[i] = 1
          /\ e = "refused" => posts[i] = 0
      BY <1>2 DEF Told
    <3> QED
      BY <1>1, <1>5, <1>8, <2>1, <2>3, <3>1
         DEF Delivers, OneDelivery!Next, OneDelivery!Conclude, Outcome
  <2> QED
    BY <1>4, <1>6, <2>2, <2>3 DEF StageOf
<1> QED
  BY <1>7, <1>8

(* Every step of the command that has the lock.                            *)
LEMMA WorkKeeps ==
  ASSUME IInv, Orderly, Reported, NEW s \in Senders, NEW i \in Intents,
         AtWork(s, i), Send(s) \/ Die(s)
  PROVE  Delivers(i)
<1>1. PICK l \in Steps \ {"txn"} : Moves(s, i, l)
  BY MovesOnly DEF IInv
<1>2. CASE \/ Start(s) \/ Admit(s) \/ CreateReservation(s) \/ Claim(s) \/ SyncClaim(s)
           \/ ClaimFails(s) \/ Refund(s) \/ UpdateReservation(s) \/ DeadLetter(s)
           \/ Die(s) \/ Reopen(s)
  <2>1. l \notin Prepared \cup {"post"}
    BY <1>1, <1>2
       DEF Start, Admit, CreateReservation, Claim, SyncClaim, ClaimFails, Refund,
           UpdateReservation, DeadLetter, Die, Reopen, Close, GiveUp, Goto, Settle,
           Exit, Moves, Prepared, IInv, Typed, TypeOK, ProcessType
  <2>2. UNCHANGED <<receipts, posts>>
    BY <1>2
       DEF Start, Admit, CreateReservation, Claim, SyncClaim, ClaimFails, Refund,
           UpdateReservation, DeadLetter, Die, Reopen, diskVars
  <2> QED
    BY <1>1, <2>1, <2>2, QuietKeeps
<1>3. CASE Cross(s) \/ Readmit(s) \/ Authority(s)
  <2>1. l # "post" /\ (l \in Prepared => pc[s] \in Prepared \/ Clear(i))
    BY <1>1, <1>3
       DEF Cross, Readmit, Authority, Close, GiveUp, Goto, Settle, Exit, Moves,
           Prepared, AtWork, IInv, Typed, TypeOK, ProcessType
  <2>2. UNCHANGED <<receipts, posts>>
    BY <1>3 DEF Cross, Readmit, Authority, diskVars
  <2> QED
    BY <1>1, <2>1, <2>2, QuietKeeps
<1>4. ~ TakeLock(s) /\ ~ \E k \in Intents, t \in Texts : Invoke(s, k, t)
  BY DEF AtWork, TakeLock, Invoke
<1> QED
  BY <1>2, <1>3, <1>4, ReceiptKeeps, PostKeeps, OutcomeKeeps DEF Send

(* A step of a command leaves the intents alone that it has no lock of.    *)
LEMMA OtherKeeps ==
  ASSUME Typed, NEW s \in Senders, NEW i \in Intents, ~ AtWork(s, i),
         Send(s) \/ Die(s)
  PROVE  Delivers(i)
<1>1. /\ receipts'[i] = receipts[i] /\ posts'[i] = posts[i]
      /\ \A t \in Senders \ {s} : pc'[t] = pc[t] /\ job'[t] = job[t]
      /\ AtWork(s, i)' => pc'[s] = "open"
  <2>1. CASE pc[s] \in {"idle", "txn"}
    BY <2>1, BeginsOnly DEF AtWork
  <2>2. CASE pc[s] \notin {"idle", "txn"}
    <3> DEFINE k == job[s].intent
    <3>1. k \in Intents \ {i} /\ AtWork(s, k)
      BY <2>2, AtWorkIntent DEF AtWork
    <3>2. PICK l \in Steps \ {"txn"} : Moves(s, k, l)
      BY <3>1, MovesOnly
    <3>3. receipts'[i] = receipts[i] /\ posts'[i] = posts[i]
      BY <3>1, MovesOnly
    <3>4. ~ AtWork(s, i)'
      BY <3>1, <3>2 DEF AtWork, Moves
    <3> QED
      BY <3>2, <3>3, <3>4 DEF Moves
  <2> QED
    BY <2>1, <2>2
<1>2. \A t \in Senders \ {s} : AtWork(t, i)' <=> AtWork(t, i)
  BY <1>1 DEF AtWork
<1>3. UNCHANGED <<Stage(i), Said(i), posts[i]>>
  BY <1>1, <1>2 DEF Stage, Said, Clear
<1> QED
  BY <1>3 DEF Delivers, OneDelivery!deliveryVars

(* A bridge closes an intent, or leaves it alone.                          *)
LEMMA BridgeKeeps ==
  ASSUME Typed, Bridge, NEW i \in Intents PROVE Delivers(i)
<1>1. UNCHANGED <<pc, job, posts>>
  BY DEF Bridge, Rise, FlagInFlight, CloseInFlight, StopBridge, senderVars
<1>2. CASE receipts'[i] = receipts[i]
  <2>1. UNCHANGED <<Stage(i), Said(i), posts[i]>>
    BY <1>1, <1>2 DEF Stage, Said, Clear, AtWork
  <2> QED
    BY <2>1 DEF Delivers, OneDelivery!deliveryVars
<1>3. CASE receipts' = [receipts EXCEPT ![i] = Recorded(@, "dead")]
  <2>1. Said(i)' = Said(i) \cup {"dead"} /\ Terminal(receipts'[i]) # {}
    <3>1. PICK e \in Event \cap TERMINAL \cap {"dead"} :
            receipts' = [receipts EXCEPT ![i] = Recorded(@, e)]
      BY <1>3 DEF Event, TERMINAL
    <3> QED
      BY <3>1, EventSays
  <2>2. Stage(i)' \in {Stage(i), "over"}
    BY <1>1, <2>1 DEF Stage, Clear, AtWork
  <2> QED
    BY <1>1, <2>1, <2>2 DEF Delivers, OneDelivery!Next, OneDelivery!Bury
<1>4. CASE \E k \in Intents \ {i} : receipts' = [receipts EXCEPT ![k] = Recorded(@, "dead")]
  BY <1>2, <1>4 DEF Typed, TypeOK, DiskType
<1> QED
  BY <1>2, <1>3, <1>4
     DEF Bridge, Rise, FlagInFlight, CloseInFlight, StopBridge, diskVars

(* Every step keeps it that what is about to be recorded is so.            *)
LEMMA ReportedStep ==
  ASSUME IInv, Reported, Next, ~ PowerLoss PROVE Reported'
<1>1. CASE Tick \/ EditAuthority
  BY <1>1 DEF Tick, EditAuthority, diskVars, senderVars, Reported
<1>2. CASE Bridge
  <2>1. UNCHANGED <<pc, job, posts>> /\ receipts \in [Intents -> History]
    BY <1>2
       DEF Bridge, Rise, FlagInFlight, CloseInFlight, StopBridge, senderVars,
           IInv, Typed, TypeOK, DiskType
  <2>2. \A k \in Intents : \/ receipts'[k] = receipts[k]
                           \/ receipts'[k] = Recorded(receipts[k], "dead")
    BY <1>2, <2>1 DEF Bridge, Rise, FlagInFlight, CloseInFlight, StopBridge, diskVars
  <2>3. \A k \in Intents : Terminal(Recorded(receipts[k], "dead")) # {}
    BY DEF Recorded, Terminal, TERMINAL
  <2>4. \A t \in Senders : pc[t] = "record" => job[t].intent \in Intents
    BY DEF IInv, Typed, Employed
  <2> QED
    BY <2>1, <2>2, <2>3, <2>4 DEF Reported, Told
<1>3. ASSUME NEW s \in Senders, Send(s) \/ Die(s) PROVE Reported'
  <2>1. ASSUME NEW t \in Senders \ {s}, pc'[t] = "record"
        PROVE  Told(job'[t].outcome, receipts'[job'[t].intent], posts'[job'[t].intent])
    <3> DEFINE k == job[t].intent
    <3>1. CASE pc[s] \in {"idle", "txn"}
      BY <1>3, <2>1, <3>1, BeginsOnly DEF IInv, Reported
    <3>2. CASE pc[s] \notin {"idle", "txn"}
      <4> DEFINE i == job[s].intent
      <4>1. i \in Intents /\ AtWork(s, i)
        BY <3>2, AtWorkIntent DEF IInv, AtWork
      <4>2. PICK l : Moves(s, i, l)
        BY <1>3, <4>1, MovesOnly DEF IInv
      <4>3. pc[t] = "record" /\ job'[t] = job[t] /\ k \in Intents
        BY <2>1, <4>2, AtWorkIntent DEF Moves, IInv
      <4>4. k # i
        BY <4>1, <4>3 DEF IInv, Typed, TypeOK, OneHolder, AtWork
      <4>5. receipts'[k] = receipts[k] /\ posts'[k] = posts[k]
        BY <1>3, <4>1, <4>3, <4>4, MovesOnly DEF IInv
      <4> QED
        BY <4>3, <4>5 DEF Reported
    <3> QED
      BY <3>1, <3>2
  <2>2. ASSUME pc'[s] = "record"
        PROVE  Told(job'[s].outcome, receipts'[job'[s].intent], posts'[job'[s].intent])
    <3> DEFINE i == job[s].intent
    <3>1. pc[s] \notin {"idle", "txn"} /\ i \in Intents /\ job[s] \in Job
      BY <1>3, <2>2, BeginsOnly, AtWorkIntent DEF IInv, Typed, TypeOK, ProcessType
    <3>2. PICK e : Settle(s, e)
      BY <1>3, <2>2, <3>1
         DEF Send, Die, Invoke, TakeLock, Reopen, Close, GiveUp, Start, Admit,
             CreateReservation, Claim, SyncClaim, ClaimFails, Refund, RecordComposed,
             Cross, Readmit, Authority, RecordSending, Post, RecordOutcome,
             UpdateReservation, DeadLetter, Goto, Exit, IInv, Typed, TypeOK, ProcessType
    <3>3. job'[s].outcome = e /\ job'[s].intent = i
      BY <3>1, <3>2 DEF Settle, IInv, Typed, TypeOK, ProcessType, Job
    <3>4. CASE Reopen(s) \/ Cross(s) \/ Authority(s)
      <4>1. UNCHANGED <<receipts, posts>>
        BY <3>4 DEF Reopen, Cross, Authority, diskVars
      <4>2. e = "refused" \/ (e = "ambiguous" /\ Unresolved(receipts[i]))
        BY <2>2, <3>1, <3>3, <3>4
           DEF Reopen, Cross, Authority, Close, GiveUp, Goto, Settle, Exit, IInv,
               Typed, TypeOK, ProcessType, Job
      <4> QED
        BY <3>3, <4>1, <4>2 DEF Told
    <3>5. CASE Post(s)
      <4>1. pc[s] = "post" /\ UNCHANGED receipts
        BY <3>5 DEF Post, diskVars
      <4>2. PICK a \in Answer : Settle(s, a[1]) /\ posts' = [posts EXCEPT ![i] = @ + a[2]]
        BY <3>5 DEF Post
      <4>3. posts[i] = 0 /\ (Terminal(receipts[i]) # {} \/ Unresolved(receipts[i]))
        BY <4>1, Unposted, WorkFits DEF Fit, Steps
      <4>4. job'[s].outcome = a[1]
        BY <3>1, <4>2 DEF Settle, IInv, Typed, TypeOK, ProcessType, Job
      <4>5. a[1] = "sent" => posts'[i] = 1
        BY <3>1, <4>2, <4>3 DEF Answer, IInv, Typed, TypeOK, DiskType
      <4> QED
        BY <3>3, <4>1, <4>3, <4>4, <4>5 DEF Told
    <3>6. Reopen(s) \/ Cross(s) \/ Authority(s) \/ Post(s)
      BY <1>3, <2>2, <3>1
         DEF Send, Die, Invoke, TakeLock, Start, Admit, CreateReservation, Claim,
             SyncClaim, ClaimFails, Refund, RecordComposed, Readmit, RecordSending,
             RecordOutcome, UpdateReservation, DeadLetter, Goto, Exit, IInv, Typed,
             TypeOK, ProcessType
    <3> QED
      BY <3>4, <3>5, <3>6
  <2> QED
    BY <2>1, <2>2 DEF Reported
<1> QED
  BY <1>1, <1>2, <1>3 DEF Next

Delivering == IInv /\ Orderly /\ Reported

(* The initial states and the steps, for every intent.                     *)
LEMMA DeliveryInit ==
  ASSUME Init, NEW i \in Intents PROVE Reported /\ OneDelivery(i)!Init
<1>1. Stage(i) = "ready"
  BY FreshHistory DEF Init, Stage, AtWork, Clear
<1>2. Said(i) = {} /\ posts[i] = 0
  BY DEF Init, Said, NoHistory
<1> QED
  BY <1>1, <1>2 DEF Init, Reported, OneDelivery!Init

(* One step.                                                               *)
LEMMA DeliveryStep ==
  ASSUME Delivering, [Next]_vars, ~ PowerLoss
  PROVE  Reported' /\ \A i \in Intents : Delivers(i)
<1>1. CASE UNCHANGED <<diskVars, pc, job, posts>>
  <2>1. \A i \in Intents : UNCHANGED <<Stage(i), Said(i), posts[i]>>
    BY <1>1 DEF diskVars, Stage, Said, Clear, AtWork
  <2>2. Reported'
    BY <1>1 DEF Delivering, Reported, diskVars
  <2> QED
    BY <2>1, <2>2 DEF Delivers, OneDelivery!deliveryVars
<1>2. ASSUME NEW s \in Senders, Send(s) \/ Die(s), NEW i \in Intents PROVE Delivers(i)
  BY <1>2, WorkKeeps, OtherKeeps DEF Delivering, IInv
<1>3. CASE Next
  <2>1. Reported'
    BY <1>3, ReportedStep DEF Delivering
  <2>2. Tick \/ EditAuthority => UNCHANGED <<diskVars, pc, job, posts>>
    BY DEF Tick, EditAuthority, senderVars
  <2> QED
    BY <1>1, <1>2, <1>3, <2>1, <2>2, BridgeKeeps DEF Next, Delivering, IInv
<1>4. CASE UNCHANGED vars
  BY <1>1, <1>4 DEF vars, senderVars
<1> QED
  BY <1>3, <1>4

(* The command keeps Delivery's promise for every intent, as long as the   *)
(* power holds, for any number of commands, intents, throttles, deaths,    *)
(* disk faults, changes of authority and bridge starts: attempts do not    *)
(* overlap, none is made over an accepted message or a recorded end, and   *)
(* what is recorded is so.                                                 *)
THEOREM IntentKeepsPromise ==
  "power" \notin Faults =>
    /\ Spec => IntentPromise
    /\ \A i \in Intents : Spec => OneDelivery(i)!Spec
<1> SUFFICES ASSUME "power" \notin Faults
             PROVE  /\ Spec => IntentPromise
                    /\ \A i \in Intents : Spec => OneDelivery(i)!Spec
  OBVIOUS
<1>1. Init => Delivering /\ \A i \in Intents : OneDelivery(i)!Init
  <2>1. ASSUME Init, Intents = {} PROVE Reported
    BY <2>1 DEF Init, Reported
  <2> QED
    BY <2>1, IInvInit, OrderInit, DeliveryInit DEF Delivering
<1>2. ~ PowerLoss
  BY DEF PowerLoss
<1>3. Delivering /\ [Next]_vars => Delivering'
  BY <1>2, IInvStep, OrderStep, DeliveryStep DEF Delivering, IInv
<1>4. Delivering /\ [Next]_vars => \A i \in Intents : Delivers(i)
  BY <1>2, DeliveryStep
<1>5. Spec => IntentPromise
  <2>1. Delivering /\ [Next]_vars =>
          [\A i \in Intents : Delivers(i)]_vars
    BY <1>4
  <2> QED
    BY <1>1, <1>3, <2>1, PTL DEF Spec, IntentPromise
<1>6. ASSUME NEW i \in Intents PROVE Spec => OneDelivery(i)!Spec
  <2>1. Init => OneDelivery(i)!Init
    BY <1>1
  <2>2. Delivering /\ [Next]_vars => [OneDelivery(i)!Next]_(OneDelivery(i)!deliveryVars)
    BY <1>4 DEF Delivers
  <2> QED
    BY <1>1, <1>3, <2>1, <2>2, PTL DEF Spec, OneDelivery!Spec
<1> QED
  BY <1>5, <1>6
=============================================================================
