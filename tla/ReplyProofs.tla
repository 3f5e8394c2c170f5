---------------------------- MODULE ReplyProofs ----------------------------
(***************************************************************************)
(* That a reply is accepted by the platform at most once, for any number   *)
(* of commands, throttles, deaths, power failures and bridge starts.       *)
(*                                                                         *)
(* The argument: whoever is at work on the send is alone (OneAtWork); a    *)
(* history that reads as deferred means that nobody is, except a resumer   *)
(* that holds the lock and has just decided to send (DeferredIsIdle); and  *)
(* once the platform has accepted the message the history never reads as   *)
(* deferred again (PostedIsOver), for only "throttled" can make it so.     *)
(***************************************************************************)
EXTENDS Reply, TLAPS

Working(s) ==
  pc[s] \in {"syncClaim", "composed", "stage", "sending", "post"} \cup Outcome

OneAtWork == \A s, t \in Senders : Working(s) /\ Working(t) => s = t

(* Nothing has happened to a letter that is not durable yet.               *)
UnclaimedIsFresh ==
  claim # "durable" =>
    /\ posts = 0
    /\ receipts = NoHistory
    /\ bridge \notin {"flagging", "closing"}
    /\ \A s \in Senders : pc[s] \in {"idle", "claim", "syncClaim", "recheck"}

UnclaimedIsIdle ==
  claim = "none" => \A s \in Senders : pc[s] \in {"idle", "claim"}

ResumeIsLocked == \A s \in Senders : pc[s] = "resume" => lock = s

DeferredIsIdle ==
  Verdict(receipts) = "throttled" =>
    \A s \in Senders : Working(s) => pc[s] = "sending" /\ lock = s

PostedIsOver ==
  posts # 0 =>
    /\ posts = 1
    /\ Verdict(receipts) # "throttled"
    /\ \A s \in Senders : Working(s) => pc[s] \in {"sent", "ambiguous"}

IInv ==
  /\ TypeOK
  /\ OneAtWork /\ UnclaimedIsFresh /\ UnclaimedIsIdle /\ ResumeIsLocked
  /\ DeferredIsIdle /\ PostedIsOver

----------------------------------------------------------------------------
(* What recording an event does to the history: its type, and that only    *)
(* "throttled" makes it deferred.                                          *)
LEMMA RecordedIn ==
  ASSUME NEW h \in History, NEW e \in Event
  PROVE  /\ Recorded(h, e) \in History
         /\ Verdict(Recorded(h, e)) = "throttled" => e = "throttled"
BY DEF Recorded, Verdict, History, Event, TERMINAL, DEFERRED

(* Histories with no event, or whose last is not "throttled", are not      *)
(* deferred.                                                               *)
LEMMA FreshIsNotDeferred ==
  NoHistory \in History /\ Verdict(NoHistory) # "throttled"
<1>1. NoHistory \in History
  BY DEF NoHistory, History
<1>2. Verdict(NoHistory) = "none"
  BY DEF NoHistory, Verdict
<1>3. QED
  BY <1>1, <1>2

(* The initial states satisfy the invariant.                               *)
LEMMA IInvInit == ASSUME Init PROVE IInv
<1>1. TypeOK
  <2>1. /\ permitted \in BOOLEAN /\ body \in Texts
        /\ staged \in Photos \cup {NoPhoto} /\ receipts \in History
        /\ lock \in Senders \cup {Free} /\ posts \in Nat
        /\ gestures \in 0..MaxGestures /\ crashes \in 0..MaxCrashes
        /\ pc \in [Senders -> Steps]
        /\ told \in [Senders -> {"nothing", "sent", "deferred", "ambiguous",
                                "refused"}]
    BY FreshIsNotDeferred, ReplyAssumption DEF Init, Steps
  <2>2. asked \in [Senders -> Message]
    BY DEF Init, Message
  <2>3. QED
    BY <2>1, <2>2, ReplyAssumption DEF Init, TypeOK
<1>2. \A s \in Senders : pc[s] = "idle" /\ ~ Working(s)
  BY DEF Init, Working, Outcome
<1>3. QED
  BY <1>1, <1>2, FreshIsNotDeferred
     DEF Init, IInv, OneAtWork, UnclaimedIsFresh, UnclaimedIsIdle,
         ResumeIsLocked, DeferredIsIdle, PostedIsOver

----------------------------------------------------------------------------
(* An answer is one of the outcomes, and never "throttled" or "refused"    *)
(* when the message was accepted.                                          *)
LEMMA ClassifyIsHonest ==
  ASSUME NEW a \in Answer, NEW n \in Accepts(a)
  PROVE  /\ n \in {0, 1}
         /\ Classify(a) \in Outcome
         /\ n = 1 => Classify(a) \in {"sent", "ambiguous"}
<1>1. CASE a = "ok"
  BY <1>1 DEF Accepts, Classify, Outcome
<1>2. CASE a \in {"unreadable", "server error", "lost"}
  <2>1. Accepts(a) = {0, 1} /\ Classify(a) = "ambiguous"
    BY <1>2 DEF Accepts, Classify
  <2>2. QED
    BY <2>1 DEF Outcome
<1>3. CASE a = "rate limit" \/ a = "client error"
  <2>1. Accepts(a) = {0} /\ Classify(a) \in {"throttled", "refused"}
    BY <1>3 DEF Accepts, Classify
  <2>2. QED
    BY <2>1 DEF Outcome
<1>4. QED
  BY <1>1, <1>2, <1>3 DEF Answer

(* An attempt comes to an outcome, and to a message only if that says so   *)
(* or leaves it open.                                                      *)
LEMMA PostComesTo ==
  ASSUME posts \in Nat, NEW s \in Senders, Post(s)
  PROVE  \E o \in Outcome, n \in {0, 1} :
           /\ posts' = posts + n /\ Goto(s, o)
           /\ n = 1 => o \in {"sent", "ambiguous"}
<1>1. CASE \E a \in Answer : \E n \in Accepts(a) :
             posts' = posts + n /\ Goto(s, Classify(a))
  BY <1>1, ClassifyIsHonest
<1>2. CASE /\ \E a \in Answer \ {"ok"} : Goto(s, ClassifyUpload(a))
           /\ UNCHANGED posts
  <2>1. \A a : ClassifyUpload(a) \in Outcome
    BY DEF ClassifyUpload, Outcome
  <2>2. posts' = posts + 0
    BY <1>2
  <2>3. QED
    BY <1>2, <2>1, <2>2
<1>3. QED
  BY <1>1, <1>2 DEF Post

(* Where the senders are, what they reported and who holds the lock.       *)
SendersOK ==
  /\ lock \in Senders \cup {Free}
  /\ \A s \in Senders :
       lock = s => pc[s] \notin {"idle", "claim", "recheck", "lock"}
  /\ pc \in [Senders -> Steps]
  /\ told \in [Senders -> {"nothing", "sent", "deferred", "ambiguous", "refused"}]

(* Leaving gives the lock up.                                              *)
LEMMA ExitTypes ==
  ASSUME SendersOK, NEW s \in Senders,
         NEW report \in {"nothing", "sent", "deferred", "ambiguous", "refused"},
         Exit(s, report)
  PROVE  SendersOK'
BY ReplyAssumption DEF SendersOK, Exit, Goto, Steps

(* Going on keeps the lock.                                                *)
LEMMA GotoTypes ==
  ASSUME SendersOK, NEW s \in Senders,
         NEW l \in Steps \ {"idle", "claim", "recheck", "lock"},
         Goto(s, l), UNCHANGED <<told, lock>>
  PROVE  SendersOK'
BY DEF SendersOK, Goto

(* Every step keeps the types.                                             *)
LEMMA TypeStep == ASSUME TypeOK, Next PROVE TypeOK'
<1> USE ReplyAssumption DEF TypeOK
<1>0. SendersOK
  BY DEF SendersOK
<1>1. CASE EditAllowlist
  BY <1>1 DEF EditAllowlist, diskVars, senderVars, historyVars
<1>2. CASE \E s \in Senders : Send(s) \/ Die(s)
  <2> PICK s \in Senders : Send(s) \/ Die(s)
    BY <1>2
  <2>1. ASSUME NEW m \in Message, Invoke(s, m) PROVE TypeOK'
    BY <2>1 DEF Invoke, Goto, diskVars, Steps
  <2>2. CASE Claim(s)
    BY <2>2 DEF Claim, Goto, Steps, historyVars, Message
  <2>3. CASE SyncClaim(s) \/ StagePhoto(s)
    BY <2>3 DEF SyncClaim, StagePhoto, Goto, Steps, historyVars, Message
  <2>4. CASE RecordComposed(s) \/ RecordSending(s)
    <3>1. receipts' \in History
      BY <2>4, RecordedIn DEF RecordComposed, RecordSending, Event
    <3>2. SendersOK'
      <4>1. PICK l \in {"sending", "stage", "post"} : Goto(s, l)
        BY <2>4 DEF RecordComposed, RecordSending
      <4>2. QED
        BY <1>0, <2>4, <4>1, GotoTypes DEF RecordComposed, RecordSending, Steps
    <3>3. open' \in BOOLEAN
      BY <2>4 DEF RecordComposed, RecordSending, historyVars
    <3>4. QED
      BY <2>4, <3>1, <3>2, <3>3
         DEF RecordComposed, RecordSending, historyVars, SendersOK
  <2>5. CASE Recheck(s)
    BY <2>5 DEF Recheck, Exit, Goto, Steps, historyVars, diskVars
  <2>6. CASE LockResume(s)
    BY <2>6 DEF LockResume, Exit, Goto, Steps, historyVars, diskVars
  <2>7. CASE Resume(s)
    BY <2>7 DEF Resume, Exit, Goto, Steps, historyVars, diskVars
  <2>8. CASE LinkPost(s) \/ DeadLetter(s)
    <3>1. SendersOK'
      BY <1>0, <2>8, ExitTypes DEF LinkPost, DeadLetter
    <3>2. linked' \in BOOLEAN /\ flagged' \in BOOLEAN
      BY <2>8 DEF LinkPost, DeadLetter
    <3>3. QED
      BY <2>8, <3>1, <3>2 DEF LinkPost, DeadLetter, SendersOK, historyVars
  <2>9. CASE Die(s)
    BY <2>9 DEF Die, Exit, Goto, Steps, diskVars
  <2>10. CASE Post(s)
    <3>1. PICK o \in Outcome, n \in {0, 1} : posts' = posts + n /\ Goto(s, o)
      BY <2>10, PostComesTo DEF TypeOK
    <3>2. posts' \in Nat
      BY <3>1 DEF TypeOK
    <3>3. SendersOK'
      BY <1>0, <2>10, <3>1, <3>2, GotoTypes DEF Post, Outcome, Steps
    <3>4. QED
      BY <2>10, <3>2, <3>3 DEF Post, SendersOK, diskVars
  <2>11. CASE RecordOutcome(s)
    <3>1. receipts' \in History
      BY <2>11, RecordedIn DEF RecordOutcome, Event, Outcome
    <3>2. SendersOK'
      <4>1. CASE /\ UNCHANGED <<told, lock>>
                 /\ \E l \in {"link", "deadLetter"} : Goto(s, l)
        BY <1>0, <4>1, GotoTypes DEF Steps
      <4>2. CASE \E report \in {"deferred", "refused"} : Exit(s, report)
        BY <1>0, <4>2, ExitTypes
      <4>3. QED
        BY <2>11, <4>1, <4>2 DEF RecordOutcome
    <3>3. open' \in BOOLEAN
      BY <2>11 DEF RecordOutcome
    <3>4. QED
      BY <2>11, <3>1, <3>2, <3>3 DEF RecordOutcome, SendersOK
  <2>12. QED
    BY <2>1, <2>2, <2>3, <2>4, <2>5, <2>6, <2>7, <2>8, <2>9, <2>10, <2>11
       DEF Send
<1>3. CASE Bridge
  <2>1. receipts' \in History
    BY <1>3, RecordedIn
       DEF Bridge, Rise, ReadReceipts, FlagInFlight, CloseInFlight,
           StopBridge, diskVars, Event
  <2>2. due' \in {"nothing", "open", "ambiguous"}
    BY <1>3
       DEF Bridge, Rise, ReadReceipts, FlagInFlight, CloseInFlight,
           StopBridge, historyVars, Unsettled
  <2>3. QED
    BY <1>3, <2>1, <2>2
       DEF Bridge, Rise, ReadReceipts, FlagInFlight, CloseInFlight,
           StopBridge, diskVars, senderVars, historyVars
<1>4. CASE PowerLoss
  <2>1. SendersOK'
    BY <1>4 DEF PowerLoss, SendersOK, Steps
  <2>2. linked' \in BOOLEAN /\ flagged' \in BOOLEAN
    BY <1>4 DEF PowerLoss
  <2>3. outage' \in BOOLEAN /\ crashes' \in 0..MaxCrashes
    BY <1>4 DEF PowerLoss
  <2>4. /\ receipts' \in History /\ staged' \in Photos \cup {NoPhoto}
        /\ claim' \in {"none", "fresh", "durable"}
    BY <1>4, FreshIsNotDeferred DEF PowerLoss
  <2>5. QED
    BY <1>4, <2>1, <2>2, <2>3, <2>4 DEF PowerLoss, SendersOK
<1>5. QED
  BY <1>1, <1>2, <1>3, <1>4 DEF Next

----------------------------------------------------------------------------
(* The conjuncts about who is at work, apart from the types.               *)
Alone ==
  /\ OneAtWork /\ UnclaimedIsFresh /\ UnclaimedIsIdle /\ ResumeIsLocked
  /\ DeferredIsIdle /\ PostedIsOver

(* A sender that moves leaves the others where they are.                   *)
LEMMA OthersStay ==
  ASSUME TypeOK, NEW s \in Senders, NEW l, Goto(s, l)
  PROVE  /\ pc'[s] = l
         /\ \A t \in Senders \ {s} : pc'[t] = pc[t]
BY DEF TypeOK, Goto

(* A sender that leaves disturbs nothing.                                  *)
LEMMA LeavingIsSafe ==
  ASSUME IInv, NEW s \in Senders, NEW report, Exit(s, report),
         UNCHANGED <<claim, receipts, bridge, posts>>
  PROVE  Alone'
<1>1. /\ pc'[s] = "idle"
      /\ \A t \in Senders \ {s} : pc'[t] = pc[t]
  BY OthersStay DEF IInv, Exit
<1>2. \A t \in Senders \ {s} : lock = t => lock' = t
  BY DEF Exit
<1>3. QED
  BY <1>1, <1>2
     DEF IInv, Alone, OneAtWork, UnclaimedIsFresh, UnclaimedIsIdle,
         ResumeIsLocked, DeferredIsIdle, PostedIsOver, Working, Outcome

(* A sender at work that goes on, the history not turning into a deferred  *)
(* one and nothing being accepted, disturbs nothing.                       *)
LEMMA GoingOnIsSafe ==
  ASSUME IInv, NEW s \in Senders, NEW l \in Steps \ {"resume"}, Goto(s, l),
         Working(s), claim = "durable", claim' = "durable",
         posts = 0, UNCHANGED <<lock, posts>>,
         Verdict(receipts') # "throttled"
  PROVE  Alone'
<1>1. /\ pc'[s] = l
      /\ \A t \in Senders \ {s} : pc'[t] = pc[t]
  BY OthersStay DEF IInv
<1>2. QED
  BY <1>1
     DEF IInv, Alone, OneAtWork, UnclaimedIsFresh, UnclaimedIsIdle,
         ResumeIsLocked, DeferredIsIdle, PostedIsOver, Working, Outcome

(* Nobody is at work on a letter that is not claimed for good, except to   *)
(* claim it.                                                               *)
LEMMA WorkIsClaimed ==
  ASSUME IInv, NEW s \in Senders,
         pc[s] \notin {"idle", "claim", "syncClaim", "recheck"}
  PROVE  claim = "durable"
BY DEF IInv, UnclaimedIsFresh

(* Every step of a sender keeps it that at most one is at work.            *)
LEMMA SendStep ==
  ASSUME IInv, NEW s \in Senders, Send(s) \/ Die(s) PROVE Alone'
<1> USE DEF IInv, Alone, OneAtWork, UnclaimedIsFresh, UnclaimedIsIdle,
            ResumeIsLocked, DeferredIsIdle, PostedIsOver, Working, Outcome
<1>1. ASSUME NEW m \in Message, Invoke(s, m) PROVE Alone'
  <2>1. CASE permitted
    <3>1. pc'[s] = "claim" /\ \A t \in Senders \ {s} : pc'[t] = pc[t]
      BY <1>1, <2>1, OthersStay DEF Invoke
    <3>2. QED
      BY <1>1, <3>1 DEF Invoke, diskVars
  <2>2. CASE ~ permitted
    BY <1>1, <2>2 DEF Invoke, diskVars
  <2>3. QED
    BY <2>1, <2>2
<1>2. CASE Claim(s)
  <2>1. CASE claim = "none"
    <3>1. pc'[s] = "syncClaim" /\ \A t \in Senders \ {s} : pc'[t] = pc[t]
      BY <1>2, <2>1, OthersStay DEF Claim
    <3>2. QED
      BY <1>2, <2>1, <3>1, FreshIsNotDeferred DEF Claim, historyVars
  <2>2. CASE claim # "none"
    <3>1. pc'[s] = "recheck" /\ \A t \in Senders \ {s} : pc'[t] = pc[t]
      BY <1>2, <2>2, OthersStay DEF Claim
    <3>2. QED
      BY <1>2, <2>2, <3>1 DEF Claim, historyVars
  <2>3. QED
    BY <2>1, <2>2
<1>3. CASE SyncClaim(s)
  <2>1. pc'[s] = "composed" /\ \A t \in Senders \ {s} : pc'[t] = pc[t]
    BY <1>3, OthersStay DEF SyncClaim
  <2>2. QED
    BY <1>3, <2>1 DEF SyncClaim, historyVars
<1>4. CASE RecordComposed(s) \/ StagePhoto(s) \/ RecordSending(s)
  <2>1. PICK l \in {"sending", "stage", "post"} : Goto(s, l)
    BY <1>4 DEF RecordComposed, StagePhoto, RecordSending
  <2>2. claim = "durable" /\ claim' = "durable" /\ posts' = posts /\ lock' = lock
    BY <1>4, WorkIsClaimed
       DEF RecordComposed, StagePhoto, RecordSending, historyVars
  <2>3. posts = 0
    BY <1>4 DEF RecordComposed, StagePhoto, RecordSending
  <2>4. Verdict(receipts') # "throttled"
    BY <1>4, RecordedIn
       DEF RecordComposed, StagePhoto, RecordSending, TypeOK, Event
  <2>5. Working(s) /\ l \in Steps \ {"resume"}
    BY <1>4 DEF RecordComposed, StagePhoto, RecordSending, Steps
  <2>6. QED
    BY <2>1, <2>2, <2>3, <2>4, <2>5, GoingOnIsSafe
<1>5. CASE \E report : /\ Exit(s, report)
                       /\ UNCHANGED <<claim, receipts, bridge, posts>>
  BY <1>5, LeavingIsSafe
<1>6. CASE Recheck(s)
  <2>1. CASE Verdict(receipts) = "throttled"
    <3>1. pc'[s] = "lock" /\ \A t \in Senders \ {s} : pc'[t] = pc[t]
      BY <1>6, <2>1, OthersStay DEF Recheck
    <3>2. claim = "durable"
      BY <2>1, FreshIsNotDeferred
    <3>3. QED
      BY <1>6, <2>1, <3>1, <3>2 DEF Recheck, diskVars, historyVars
  <2>2. QED
    BY <1>5, <1>6, <2>1 DEF Recheck, diskVars, historyVars
<1>7. CASE LockResume(s)
  <2>1. CASE lock = Free
    <3>1. pc'[s] = "resume" /\ \A t \in Senders \ {s} : pc'[t] = pc[t]
      BY <1>7, <2>1, OthersStay DEF LockResume
    <3>2. claim = "durable"
      BY <1>7, WorkIsClaimed DEF LockResume
    <3>3. QED
      BY <1>7, <2>1, <3>1, <3>2, ReplyAssumption
         DEF LockResume, diskVars, historyVars
  <2>2. QED
    BY <1>5, <1>7, <2>1 DEF LockResume, diskVars, historyVars
<1>8. CASE Resume(s)
  <2>1. CASE Goto(s, "sending") /\ Verdict(receipts) = "throttled"
    <3>1. pc'[s] = "sending" /\ \A t \in Senders \ {s} : pc'[t] = pc[t]
      BY <2>1, OthersStay
    <3>2. lock = s /\ \A t \in Senders : ~ Working(t)
      BY <1>8, <2>1 DEF Resume
    <3>3. /\ claim = "durable" /\ posts = 0
          /\ UNCHANGED <<claim, receipts, bridge, posts>>
      BY <1>8, <2>1, FreshIsNotDeferred DEF Resume, diskVars, historyVars
    <3>4. lock' = s
      BY <1>8, <2>1, <3>1, <3>2 DEF Resume, Exit, Goto, TypeOK
    <3>5. QED
      BY <3>1, <3>2, <3>3, <3>4
  <2>2. QED
    BY <1>5, <1>8, <2>1 DEF Resume, diskVars, historyVars
<1>9. CASE Post(s)
  <2>1. /\ pc[s] = "post" /\ claim = "durable" /\ posts = 0
        /\ Verdict(receipts) # "throttled"
        /\ UNCHANGED <<claim, receipts, bridge, lock>>
    BY <1>9, WorkIsClaimed DEF Post, diskVars
  <2>2. PICK o \in Outcome, n \in {0, 1} :
          /\ posts' = posts + n /\ Goto(s, o)
          /\ n = 1 => o \in {"sent", "ambiguous"}
    BY <1>9, <2>1, PostComesTo
  <2>3. /\ pc'[s] = o
        /\ \A t \in Senders \ {s} : pc'[t] = pc[t]
    BY <2>2, OthersStay
  <2>4. posts' # 0 => posts' = 1 /\ o \in {"sent", "ambiguous"}
    BY <2>1, <2>2
  <2>5. QED
    BY <2>1, <2>3, <2>4
<1>10. CASE RecordOutcome(s)
  <2>1. PICK l \in {"link", "deadLetter", "idle"} :
          Goto(s, l) /\ (pc[s] = "throttled" => l = "idle")
    BY <1>10 DEF RecordOutcome, Exit
  <2>2. /\ pc'[s] = l
        /\ \A t \in Senders \ {s} : pc'[t] = pc[t]
    BY <2>1, OthersStay
  <2>3. /\ claim = "durable" /\ UNCHANGED <<claim, bridge, posts>>
        /\ \A t \in Senders : ~ Working(t)'
    BY <1>10, <2>1, <2>2, WorkIsClaimed DEF RecordOutcome
  <2>4. Verdict(receipts') = "throttled" => pc[s] = "throttled"
    BY <1>10, RecordedIn DEF RecordOutcome, TypeOK, Event
  <2>5. \A t \in Senders \ {s} : lock = t => lock' = t
    BY <1>10 DEF RecordOutcome, Exit
  <2>6. QED
    BY <1>10, <2>2, <2>3, <2>4, <2>5
<1>11. CASE LinkPost(s) \/ DeadLetter(s) \/ Die(s)
  BY <1>5, <1>11 DEF LinkPost, DeadLetter, Die, diskVars, historyVars
<1>12. QED
  BY <1>1, <1>2, <1>3, <1>4, <1>6, <1>7, <1>8, <1>9, <1>10, <1>11 DEF Send

(* So does a starting bridge: it only ever closes a letter.                *)
LEMMA BridgeStep == ASSUME IInv, Bridge PROVE Alone'
<1>1. UNCHANGED <<claim, pc, lock, posts>>
  BY DEF Bridge, Rise, ReadReceipts, FlagInFlight, CloseInFlight, StopBridge,
         diskVars, senderVars, historyVars
<1>2. \/ receipts' = receipts
      \/ bridge = "closing" /\ Verdict(receipts') # "throttled"
  BY RecordedIn
     DEF Bridge, Rise, ReadReceipts, FlagInFlight, CloseInFlight, StopBridge,
         diskVars, IInv, TypeOK, Event
<1>3. bridge' \in {"flagging", "closing"} =>
        bridge \in {"flagging", "closing"} \/ Verdict(receipts) = "ambiguous"
  BY DEF Bridge, Rise, ReadReceipts, FlagInFlight, CloseInFlight, StopBridge
<1>4. Verdict(NoHistory) = "none"
  BY DEF NoHistory, Verdict
<1>5. QED
  BY <1>1, <1>2, <1>3, <1>4
     DEF IInv, Alone, OneAtWork, UnclaimedIsFresh, UnclaimedIsIdle,
         ResumeIsLocked, DeferredIsIdle, PostedIsOver, Working

(* And a power failure: nobody is at work after it.                        *)
LEMMA PowerStep == ASSUME IInv, PowerLoss PROVE Alone'
<1>1. \A s \in Senders : pc'[s] = "idle"
  BY DEF PowerLoss
<1>2. /\ claim' # "durable" => claim # "durable"
      /\ receipts' = receipts \/ receipts' = NoHistory
      /\ posts' = posts /\ bridge' = "down"
  BY DEF PowerLoss, IInv, TypeOK
<1>3. QED
  BY <1>1, <1>2, FreshIsNotDeferred
     DEF IInv, Alone, OneAtWork, UnclaimedIsFresh, UnclaimedIsIdle,
         ResumeIsLocked, DeferredIsIdle, PostedIsOver, Working, Outcome

(* The invariant holds throughout every behaviour.                         *)
THEOREM ReplyInvariance == Spec => []IInv
<1>1. Init => IInv
  BY IInvInit
<1>2. IInv /\ [Next]_vars => IInv'
  <2> SUFFICES ASSUME IInv, [Next]_vars PROVE IInv'
    OBVIOUS
  <2>1. CASE Next
    <3>1. TypeOK'
      BY <2>1, TypeStep DEF IInv
    <3>2. Alone'
      <4>1. CASE EditAllowlist
        BY <4>1
           DEF EditAllowlist, IInv, Alone, diskVars, senderVars, historyVars,
               OneAtWork, UnclaimedIsFresh, UnclaimedIsIdle, ResumeIsLocked,
               DeferredIsIdle, PostedIsOver, Working
      <4>2. QED
        BY <2>1, <4>1, SendStep, BridgeStep, PowerStep DEF Next
    <3>3. QED
      BY <3>1, <3>2 DEF IInv, Alone
  <2>2. CASE UNCHANGED vars
    BY <2>2
       DEF vars, diskVars, senderVars, historyVars, IInv, TypeOK, OneAtWork,
           UnclaimedIsFresh, UnclaimedIsIdle, ResumeIsLocked, DeferredIsIdle,
           PostedIsOver, Working
  <2>3. QED
    BY <2>1, <2>2
<1>3. QED
  BY <1>1, <1>2, PTL DEF Spec

(* Every variable of Reply keeps its type, and the resume lock never       *)
(* outlives the command that holds it.                                     *)
THEOREM ReplyTypeCorrect == Spec => []TypeOK
BY ReplyInvariance, PTL DEF IInv

(* The platform accepts a reply at most once, whatever dies, is throttled, *)
(* loses power or runs at the same time (compose, resume_throttled,        *)
(* reconcile).                                                             *)
THEOREM SingleDelivery == Spec => []AtMostOnePost
<1>1. IInv => AtMostOnePost
  BY DEF IInv, TypeOK, PostedIsOver, AtMostOnePost
<1>2. QED
  BY <1>1, ReplyInvariance, PTL

----------------------------------------------------------------------------
(* Whoever is at work sends the words it was asked for.                    *)
Worded == \A s \in Senders : Working(s) => asked[s].text = body

(* A command on its way to report success has had its message accepted.    *)
SentIsPosted == \A s \in Senders : pc[s] \in {"sent", "link"} => posts = 1

(* The platform's acceptance goes with "sent", and with nothing that says  *)
(* otherwise.                                                              *)
LEMMA SentIsAccepted ==
  ASSUME posts \in Nat, NEW s \in Senders, Post(s), Goto(s, "sent"), pc \in [Senders -> Steps]
  PROVE  posts' = posts + 1
<1>1. pc'[s] = "sent"
  BY DEF Goto
<1>2. CASE \E a \in Answer : \E n \in Accepts(a) :
             posts' = posts + n /\ Goto(s, Classify(a))
  <2>1. PICK a \in Answer : \E n \in Accepts(a) :
          posts' = posts + n /\ Goto(s, Classify(a))
    BY <1>2
  <2>2. Classify(a) = "sent"
    BY <1>1, <2>1 DEF Goto
  <2>3. a = "ok"
    BY <2>2 DEF Classify
  <2>4. QED
    BY <2>1, <2>3 DEF Accepts
<1>3. CASE \E a \in Answer \ {"ok"} : Goto(s, ClassifyUpload(a))
  BY <1>1, <1>3 DEF Goto, ClassifyUpload
<1>4. QED
  BY <1>2, <1>3 DEF Post

(* The words stay those that were typed: a claim takes them over, and a    *)
(* resumed send compares them.                                             *)
LEMMA WordedStep ==
  ASSUME IInv, Worded, Next PROVE Worded'
<1>1. CASE EditAllowlist \/ Bridge
  BY <1>1
     DEF EditAllowlist, Bridge, Rise, ReadReceipts, FlagInFlight, CloseInFlight,
         StopBridge, diskVars, senderVars, historyVars, Worded, Working
<1>2. CASE PowerLoss
  BY <1>2 DEF PowerLoss, Worded, Working, Outcome
<1>3. ASSUME NEW s \in Senders, Send(s) \/ Die(s) PROVE Worded'
  <2>1. ASSUME NEW m \in Message, Invoke(s, m) PROVE Worded'
    <3>1. pc[s] = "idle" /\ pc'[s] \in {"idle", "claim"} /\ body' = body
      BY <2>1 DEF Invoke, Goto, diskVars, IInv, TypeOK
    <3>2. \A t \in Senders \ {s} : pc'[t] = pc[t] /\ asked'[t] = asked[t]
      BY <2>1 DEF Invoke, Goto, IInv, TypeOK
    <3>3. QED
      BY <3>1, <3>2 DEF Worded, Working, Outcome
  <2>2. CASE Claim(s) /\ claim = "none"
    <3>1. body' = asked[s].text /\ asked' = asked
      BY <2>2 DEF Claim
    <3>2. \A t \in Senders \ {s} : pc'[t] = pc[t]
      BY <2>2 DEF Claim, Goto, IInv, TypeOK
    <3>3. \A t \in Senders : ~ Working(t)
      BY <2>2 DEF IInv, UnclaimedIsIdle, Working, Outcome
    <3>4. QED
      BY <3>1, <3>2, <3>3 DEF Worded, Working
  <2>3. CASE (Claim(s) /\ claim # "none") \/ Recheck(s) \/ LockResume(s)
    <3>1. pc'[s] \in {"recheck", "lock", "resume", "idle"} /\ asked' = asked /\ body' = body
      BY <2>3
         DEF Claim, Recheck, LockResume, Exit, Goto, diskVars, IInv, TypeOK
    <3>2. \A t \in Senders \ {s} : pc'[t] = pc[t]
      BY <2>3 DEF Claim, Recheck, LockResume, Exit, Goto, IInv, TypeOK
    <3>3. QED
      BY <3>1, <3>2 DEF Worded, Working, Outcome
  <2>4. CASE Resume(s)
    <3>1. /\ pc'[s] = "idle" \/ (pc'[s] = "sending" /\ asked[s].text = body)
          /\ asked' = asked /\ body' = body
      BY <2>4 DEF Resume, Exit, Goto, diskVars, IInv, TypeOK
    <3>2. \A t \in Senders \ {s} : pc'[t] = pc[t]
      BY <2>4 DEF Resume, Exit, Goto, IInv, TypeOK
    <3>3. QED
      BY <3>1, <3>2 DEF Worded, Working, Outcome
  <2>5. CASE \/ SyncClaim(s) \/ RecordComposed(s) \/ StagePhoto(s) \/ RecordSending(s)
             \/ Post(s)
    <3>1. Working(s) /\ asked' = asked /\ body' = body
      BY <2>5
         DEF SyncClaim, RecordComposed, StagePhoto, RecordSending, Post, diskVars, Working
    <3>2. \A t \in Senders \ {s} : pc'[t] = pc[t]
      BY <2>5
         DEF SyncClaim, RecordComposed, StagePhoto, RecordSending, Post, Goto,
             IInv, TypeOK
    <3>3. QED
      BY <3>1, <3>2 DEF Worded, Working
  <2>6. CASE RecordOutcome(s) \/ LinkPost(s) \/ DeadLetter(s) \/ Die(s)
    <3>1. pc'[s] \in {"link", "deadLetter", "idle"} /\ asked' = asked /\ body' = body
      BY <2>6
         DEF RecordOutcome, LinkPost, DeadLetter, Die, Exit, Goto, diskVars, IInv, TypeOK
    <3>2. \A t \in Senders \ {s} : pc'[t] = pc[t]
      BY <2>6
         DEF RecordOutcome, LinkPost, DeadLetter, Die, Exit, Goto, IInv, TypeOK
    <3>3. QED
      BY <3>1, <3>2 DEF Worded, Working, Outcome
  <2> QED
    BY <1>3, <2>1, <2>2, <2>3, <2>4, <2>5, <2>6 DEF Send
<1> QED
  BY <1>1, <1>2, <1>3 DEF Next

(* Only an attempt changes what the platform has accepted, and only for    *)
(* one who is at work.                                                     *)
LEMMA PostedStep ==
  ASSUME IInv, SentIsPosted, Next PROVE SentIsPosted'
<1>1. CASE EditAllowlist \/ Bridge
  BY <1>1
     DEF EditAllowlist, Bridge, Rise, ReadReceipts, FlagInFlight, CloseInFlight,
         StopBridge, senderVars, historyVars, SentIsPosted
<1>2. CASE PowerLoss
  BY <1>2 DEF PowerLoss, SentIsPosted
<1>3. ASSUME NEW s \in Senders, Send(s) \/ Die(s) PROVE SentIsPosted'
  <2>1. CASE Post(s)
    <3>1. pc[s] = "post" /\ posts = 0 /\ \A t \in Senders \ {s} : ~ Working(t)
      BY <2>1 DEF Post, IInv, PostedIsOver, OneAtWork, Working
    <3>2. \A t \in Senders : pc[t] \notin {"sent", "link"}
      BY <3>1 DEF Working, Outcome, SentIsPosted
    <3>3. PICK o \in Outcome, n \in {0, 1} : posts' = posts + n /\ Goto(s, o)
      BY <2>1, PostComesTo DEF IInv, TypeOK
    <3>4. pc'[s] = o /\ \A t \in Senders \ {s} : pc'[t] = pc[t]
      BY <3>3, OthersStay DEF IInv
    <3>5. o = "sent" => posts' = 1
      BY <2>1, <3>1, <3>3, SentIsAccepted DEF IInv, TypeOK
    <3> QED
      BY <3>2, <3>4, <3>5 DEF SentIsPosted, Outcome
  <2>2. CASE RecordOutcome(s)
    <3>1. pc'[s] = "link" => pc[s] = "sent"
      BY <2>2 DEF RecordOutcome, Exit, Goto, IInv, TypeOK
    <3>2. pc'[s] # "sent" /\ posts' = posts /\ \A t \in Senders \ {s} : pc'[t] = pc[t]
      BY <2>2 DEF RecordOutcome, Exit, Goto, IInv, TypeOK
    <3> QED
      BY <3>1, <3>2 DEF SentIsPosted
  <2>3. ASSUME NEW m \in Message, Invoke(s, m) PROVE SentIsPosted'
    BY <2>3 DEF Invoke, Goto, IInv, TypeOK, SentIsPosted
  <2>4. CASE Claim(s) \/ SyncClaim(s) \/ RecordComposed(s) \/ StagePhoto(s) \/ RecordSending(s)
    <3>1. PICK l \in {"syncClaim", "recheck", "composed", "sending", "stage", "post"} :
            Goto(s, l)
      BY <2>4 DEF Claim, SyncClaim, RecordComposed, StagePhoto, RecordSending
    <3>2. posts' = posts
      BY <2>4 DEF Claim, SyncClaim, RecordComposed, StagePhoto, RecordSending, historyVars
    <3> QED
      BY <3>1, <3>2, OthersStay DEF IInv, SentIsPosted
  <2>5. CASE Recheck(s) \/ LockResume(s) \/ Resume(s) \/ LinkPost(s) \/ DeadLetter(s) \/ Die(s)
    <3>1. PICK l \in {"lock", "resume", "sending", "idle"} : Goto(s, l)
      BY <2>5 DEF Recheck, LockResume, Resume, LinkPost, DeadLetter, Die, Exit
    <3>2. posts' = posts
      BY <2>5 DEF Recheck, LockResume, Resume, LinkPost, DeadLetter, Die, historyVars
    <3> QED
      BY <3>1, <3>2, OthersStay DEF IInv, SentIsPosted
  <2> QED
    BY <1>3, <2>1, <2>2, <2>3, <2>4, <2>5 DEF Send
<1> QED
  BY <1>1, <1>2, <1>3 DEF Next

(* What a command reports when it ends is so.                              *)
Honest ==
  \A s \in Senders : told'[s] # told[s] =>
    /\ told'[s] = "deferred" => posts = 0
    /\ told'[s] = "sent" => posts = 1
    /\ told'[s] = "ambiguous" => flagged'

(* A command that leaves speaks for itself.                                *)
LEMMA ExitTells ==
  ASSUME IInv, NEW s \in Senders, NEW report, Exit(s, report)
  PROVE  told'[s] = report /\ \A t \in Senders \ {s} : told'[t] = told[t]
BY DEF IInv, TypeOK, Exit

(* Every step reports what is so.                                          *)
LEMMA HonestStep ==
  ASSUME IInv, SentIsPosted, [Next]_vars PROVE Honest
<1>1. CASE UNCHANGED told
  BY <1>1 DEF Honest
<1>2. CASE PowerLoss
  BY <1>2 DEF PowerLoss, Honest
<1>3. ASSUME NEW s \in Senders, Send(s) \/ Die(s) PROVE Honest
  <2>1. ASSUME NEW report \in {"nothing", "refused"}, Exit(s, report) PROVE Honest
    BY <2>1, ExitTells DEF Honest
  <2>2. ASSUME NEW m \in Message, Invoke(s, m) PROVE Honest
    BY <2>2 DEF Invoke, IInv, TypeOK, Honest
  <2>3. CASE RecordOutcome(s)
    <3>1. CASE pc[s] = "throttled" /\ Exit(s, "deferred")
      <4>1. posts = 0
        BY <3>1 DEF IInv, PostedIsOver, Working, Outcome
      <4> QED
        BY <3>1, <4>1, ExitTells DEF Honest
    <3> QED
      BY <1>1, <2>1, <2>3, <3>1 DEF RecordOutcome
  <2>4. CASE LinkPost(s)
    BY <2>4, ExitTells DEF LinkPost, SentIsPosted, Honest
  <2>5. CASE DeadLetter(s)
    BY <2>5, ExitTells DEF DeadLetter, Honest
  <2>6. CASE Recheck(s) \/ LockResume(s) \/ Resume(s) \/ Die(s)
    BY <1>1, <2>1, <2>6 DEF Recheck, LockResume, Resume, Die
  <2>7. CASE \/ Claim(s) \/ SyncClaim(s) \/ RecordComposed(s) \/ StagePhoto(s)
             \/ RecordSending(s) \/ Post(s)
    BY <1>1, <2>7
       DEF Claim, SyncClaim, RecordComposed, StagePhoto, RecordSending, Post
  <2> QED
    BY <1>3, <2>2, <2>3, <2>4, <2>5, <2>6, <2>7 DEF Send
<1> QED
  BY <1>1, <1>2, <1>3
     DEF Next, EditAllowlist, Bridge, Rise, ReadReceipts, FlagInFlight, CloseInFlight,
         StopBridge, senderVars, vars

(* What the platform is given are the words the operator typed who ran the *)
(* command, also when it finishes an earlier run's letter (TextChanged).   *)
THEOREM TypedWordsOnly == Spec => WordsAsTyped
<1>1. Init => Worded
  BY DEF Init, Worded, Working, Outcome
<1>2. IInv /\ Worded /\ [Next]_vars => Worded'
  BY WordedStep DEF vars, diskVars, senderVars, Worded, Working
<1>3. IInv /\ Worded /\ [Next]_vars =>
        [\A s \in Senders :
           pc[s] = "post" /\ posts' # posts => asked[s].text = body]_vars
  BY DEF Worded, Working
<1> QED
  BY <1>1, <1>2, <1>3, ReplyInvariance, PTL DEF Spec, WordsAsTyped

(* What a command reports at its end is so: nothing was sent when it says  *)
(* deferred, sent when it says sent, a file for the human when it says     *)
(* ambiguous.                                                              *)
THEOREM ReportsAreHonest == Spec => HonestReport
<1>1. Init => SentIsPosted
  BY DEF Init, SentIsPosted
<1>2. IInv /\ SentIsPosted /\ [Next]_vars => SentIsPosted'
  BY PostedStep DEF vars, senderVars, historyVars, SentIsPosted
<1>3. IInv /\ SentIsPosted /\ [Next]_vars =>
        [\A s \in Senders : told'[s] # told[s] =>
           /\ told'[s] = "deferred" => posts = 0
           /\ told'[s] = "sent" => posts = 1
           /\ told'[s] = "ambiguous" => flagged']_vars
  BY HonestStep DEF Honest
<1> QED
  BY <1>1, <1>2, <1>3, ReplyInvariance, PTL DEF Spec, HonestReport

----------------------------------------------------------------------------
(* What a starting bridge finds unsettled.  Who is at work has recorded no *)
(* outcome that ends the send.                                             *)
Unended ==
  \A s \in Senders : Working(s) => receipts.events \cap {"sent", "refused", "ambiguous"} = {}

(* While the power holds: whom the bridge closes it has flagged, and a     *)
(* send that was begun and not recorded shows in the receipts, or is       *)
(* flagged already.                                                        *)
Shown ==
  ~ outage =>
    /\ bridge = "closing" \/ "dead" \in receipts.events => flagged
    /\ open => Verdict(receipts) = "ambiguous" \/ flagged
    /\ InFlightIsFlagged

Seen == Unended /\ Shown

(* What a send records before its outcome leaves an ambiguous history      *)
(* ambiguous, and "sending" makes one, unless an end is recorded.          *)
LEMMA SendingShows ==
  ASSUME NEW h \in History, NEW e \in {"composed", "sending"}
  PROVE  /\ Verdict(h) = "ambiguous" => Verdict(Recorded(h, e)) = "ambiguous"
         /\ e = "sending" /\ h.events \cap TERMINAL = {}
              => Verdict(Recorded(h, e)) = "ambiguous"
         /\ Recorded(h, e).events \cap TERMINAL = h.events \cap TERMINAL
BY DEF Recorded, Verdict, History, Event, TERMINAL, DEFERRED

(* A deferred history has no end, a fresh one nothing.                     *)
LEMMA DeferredIsUnended ==
  ASSUME NEW h \in History, Verdict(h) = "throttled"
  PROVE  h.events \cap TERMINAL = {}
BY DEF Verdict

(* A sender's step keeps it that nothing is begun under an end.            *)
LEMMA UnendedStep ==
  ASSUME IInv, Unended, Next PROVE Unended'
<1> USE DEF TERMINAL
<1>1. CASE EditAllowlist \/ Rise \/ ReadReceipts \/ FlagInFlight \/ StopBridge
  BY <1>1
     DEF EditAllowlist, Rise, ReadReceipts, FlagInFlight, StopBridge, diskVars,
         senderVars, historyVars, Unended, Working
<1>2. CASE CloseInFlight
  BY <1>2 DEF CloseInFlight, senderVars, Unended, Working, Recorded
<1>3. CASE PowerLoss
  BY <1>3 DEF PowerLoss, Unended, Working, Outcome
<1>4. ASSUME NEW s \in Senders, Send(s) \/ Die(s) PROVE Unended'
  <2>1. CASE RecordOutcome(s)
    <3>1. PICK l \in {"link", "deadLetter", "idle"} : Goto(s, l)
      BY <2>1 DEF RecordOutcome, Exit
    <3>2. \A t \in Senders : ~ Working(t)'
      BY <2>1, <3>1, OthersStay DEF RecordOutcome, IInv, OneAtWork, Working, Outcome
    <3> QED
      BY <3>2 DEF Unended
  <2>2. CASE RecordComposed(s) \/ RecordSending(s)
    <3>1. PICK l \in {"sending", "stage", "post"} : Goto(s, l)
      BY <2>2 DEF RecordComposed, RecordSending
    <3>2. PICK e \in {"composed", "sending"} : receipts' = Recorded(receipts, e)
      BY <2>2 DEF RecordComposed, RecordSending
    <3>3. Working(s)
      BY <2>2 DEF RecordComposed, RecordSending, Working
    <3> QED
      BY <3>1, <3>2, <3>3, OthersStay DEF IInv, Unended, Working, Outcome, Recorded
  <2>3. CASE Resume(s)
    <3>1. receipts' = receipts
      BY <2>3 DEF Resume, diskVars
    <3>2. \/ Goto(s, "sending") /\ Verdict(receipts) = "throttled"
          \/ Goto(s, "idle")
      BY <2>3 DEF Resume, Exit
    <3> QED
      BY <3>1, <3>2, OthersStay, DeferredIsUnended
         DEF IInv, TypeOK, Unended, Working, Outcome
  <2>4. CASE Claim(s)
    <3>1. receipts' = receipts
      BY <2>4 DEF Claim
    <3>2. Goto(s, "recheck") \/ (Goto(s, "syncClaim") /\ claim = "none")
      BY <2>4 DEF Claim
    <3>3. claim = "none" => receipts.events = {}
      BY DEF IInv, UnclaimedIsFresh, NoHistory
    <3> QED
      BY <3>1, <3>2, <3>3, OthersStay DEF IInv, Unended, Working, Outcome
  <2>5. CASE SyncClaim(s) \/ StagePhoto(s) \/ Post(s)
    <3>1. receipts' = receipts /\ Working(s)
      BY <2>5 DEF SyncClaim, StagePhoto, Post, diskVars, Working
    <3>2. \A t \in Senders \ {s} : pc'[t] = pc[t]
      BY <2>5 DEF SyncClaim, StagePhoto, Post, Goto, IInv, TypeOK
    <3> QED
      BY <3>1, <3>2 DEF Unended, Working
  <2>6. CASE \/ \E m \in Message : Invoke(s, m)
             \/ Recheck(s) \/ LockResume(s) \/ LinkPost(s) \/ DeadLetter(s) \/ Die(s)
    <3>1. receipts' = receipts
      BY <2>6 DEF Invoke, Recheck, LockResume, LinkPost, DeadLetter, Die, diskVars
    <3>2. UNCHANGED pc \/ \E l \in {"claim", "lock", "resume", "idle"} : Goto(s, l)
      BY <2>6 DEF Invoke, Recheck, LockResume, LinkPost, DeadLetter, Die, Exit
    <3> QED
      BY <3>1, <3>2, OthersStay DEF IInv, Unended, Working, Outcome
  <2> QED
    BY <1>4, <2>1, <2>2, <2>3, <2>4, <2>5, <2>6 DEF Send
<1> QED
  BY <1>1, <1>2, <1>3, <1>4 DEF Next, Bridge

(* Every step keeps an unrecorded send in sight of the next bridge.        *)
LEMMA ShownStep ==
  ASSUME IInv, Seen, Next PROVE Shown'
<1> USE DEF Seen, Shown, InFlightIsFlagged
<1>1. CASE EditAllowlist \/ Rise \/ StopBridge
  BY <1>1 DEF EditAllowlist, Rise, StopBridge, diskVars, senderVars, historyVars
<1>2. CASE ReadReceipts
  <2>1. due' = "open" => open
    BY <1>2 DEF ReadReceipts, Unsettled
  <2> QED
    BY <1>2, <2>1 DEF ReadReceipts, diskVars
<1>3. CASE FlagInFlight
  BY <1>3 DEF FlagInFlight, historyVars
<1>4. CASE CloseInFlight
  BY <1>4 DEF CloseInFlight, historyVars
<1>5. CASE PowerLoss
  BY <1>5 DEF PowerLoss
<1>6. ASSUME NEW s \in Senders, Send(s) \/ Die(s) PROVE Shown'
  <2>1. CASE RecordComposed(s) \/ RecordSending(s)
    <3>1. PICK e \in {"composed", "sending"} : receipts' = Recorded(receipts, e)
      BY <2>1 DEF RecordComposed, RecordSending
    <3>2. /\ open' => open \/ receipts' = Recorded(receipts, "sending")
          /\ UNCHANGED <<flagged, bridge, due, outage>>
      BY <2>1 DEF RecordComposed, RecordSending, historyVars
    <3>3. receipts \in History
      BY DEF IInv, TypeOK
    <3>4. "dead" \in receipts'.events => "dead" \in receipts.events
      BY <3>1 DEF Recorded
    <3>5. receipts.events \cap TERMINAL = {} \/ "dead" \in receipts.events
      <4>1. Working(s)
        BY <2>1 DEF RecordComposed, RecordSending, Working
      <4> QED
        BY <4>1 DEF Unended, TERMINAL
    <3>6. ~ outage /\ open' => Verdict(receipts') = "ambiguous" \/ flagged
      <4>1. CASE "dead" \in receipts.events
        BY <4>1
      <4>2. CASE receipts.events \cap TERMINAL = {} /\ receipts' = Recorded(receipts, "sending")
        BY <3>3, <4>2, SendingShows
      <4>3. CASE open
        BY <3>1, <3>3, <4>3, SendingShows
      <4> QED
        BY <3>2, <3>5, <4>1, <4>2, <4>3
    <3> QED
      BY <3>2, <3>4, <3>6
  <2>2. CASE RecordOutcome(s)
    <3>1. "dead" \in receipts'.events => "dead" \in receipts.events
      BY <2>2 DEF RecordOutcome, Recorded, Outcome
    <3> QED
      BY <2>2, <3>1 DEF RecordOutcome
  <2>3. CASE DeadLetter(s)
    BY <2>3 DEF DeadLetter, historyVars
  <2>4. CASE \/ \E m \in Message : Invoke(s, m)
             \/ Claim(s) \/ SyncClaim(s) \/ StagePhoto(s) \/ Recheck(s) \/ LockResume(s)
             \/ Resume(s) \/ Post(s) \/ LinkPost(s) \/ Die(s)
    BY <2>4
       DEF Invoke, Claim, SyncClaim, StagePhoto, Recheck, LockResume, Resume, Post,
           LinkPost, Die, diskVars, historyVars
  <2> QED
    BY <1>6, <2>1, <2>2, <2>3, <2>4 DEF Send
<1> QED
  BY <1>1, <1>2, <1>3, <1>4, <1>5, <1>6 DEF Next, Bridge

(* While the power holds, a send that was begun and has no recorded        *)
(* outcome is in dead-letters/ once a bridge that started later is polling *)
(* (reconcile_at_startup), whatever dies in between.                       *)
THEOREM NothingInFlightUnseen == Spec => []InFlightIsFlagged
<1>1. Init => Seen
  BY DEF Init, Seen, Unended, Shown, InFlightIsFlagged, Working, Outcome, NoHistory
<1>2. IInv /\ Seen /\ [Next]_vars => Seen'
  <2>1. ASSUME IInv, Seen, Next PROVE Seen'
    BY <2>1, UnendedStep, ShownStep DEF Seen
  <2>2. ASSUME Seen, UNCHANGED vars PROVE Seen'
    BY <2>2
       DEF vars, diskVars, senderVars, historyVars, Seen, Unended, Shown,
           InFlightIsFlagged, Working
  <2> QED
    BY <2>1, <2>2
<1>3. Seen /\ IInv => InFlightIsFlagged
  BY DEF Seen, Shown, InFlightIsFlagged
<1> QED
  BY <1>1, <1>2, <1>3, ReplyInvariance, PTL DEF Spec

----------------------------------------------------------------------------
(* The refinement: every step of Reply is one of Delivery, or none.        *)
Preparing == {"syncClaim", "composed", "stage", "sending"}

(* Whoever prepares an attempt is alone, so nobody is crossing.            *)
LEMMA PreparedIsReady ==
  ASSUME IInv, NEW s \in Senders, pc[s] \in Preparing PROVE Stage = "ready"
<1>1. \A t \in Senders : pc[t] # "post"
  BY DEF IInv, OneAtWork, Working, Preparing
<1> QED
  BY <1>1 DEF Stage, Preparing

(* A letter that is not claimed, or is deferred, is ready.                 *)
LEMMA FreeIsReady ==
  ASSUME IInv, claim = "none" \/ Verdict(receipts) = "throttled"
  PROVE  Stage = "ready"
<1>1. \A t \in Senders : pc[t] # "post"
  BY DEF IInv, UnclaimedIsIdle, DeferredIsIdle, Working
<1> QED
  BY <1>1 DEF Stage

(* A step aside of the attempt leaves what is said of it as it was.        *)
LEMMA AsideKeeps ==
  ASSUME IInv, NEW s \in Senders, NEW l, Goto(s, l),
         pc[s] \notin Preparing \cup {"post"}, l \notin Preparing \cup {"post"},
         UNCHANGED <<claim, receipts>>
  PROVE  UNCHANGED <<Stage, Said>>
<1>1. pc'[s] = l /\ \A t \in Senders \ {s} : pc'[t] = pc[t]
  BY OthersStay DEF IInv
<1>2. \A q \in Preparing \cup {"post"} :
        (\E t \in Senders : pc'[t] = q) <=> (\E t \in Senders : pc[t] = q)
  BY <1>1
<1>3. (\E t \in Senders : pc'[t] \in Preparing) <=> (\E t \in Senders : pc[t] \in Preparing)
  BY <1>1
<1> QED
  BY <1>2, <1>3 DEF Stage, Said, Preparing

(* What a step that leaves the receipts and the claim alone, or makes the  *)
(* claim, does to a prepared attempt: it stays ready, or nobody is at work *)
(* any more.                                                               *)
LEMMA PreparingStays ==
  ASSUME IInv, IInv', NEW s \in Senders, NEW l \in Preparing, Goto(s, l)
  PROVE  Stage' = "ready"
<1>1. pc'[s] \in Preparing
  BY OthersStay DEF IInv
<1>2. \A t \in Senders : pc'[t] # "post"
  BY <1>1 DEF IInv, OneAtWork, Working, Preparing
<1> QED
  BY <1>1, <1>2 DEF Stage, Preparing

(* Nobody at work on a claimed letter: it is ready only if it is deferred. *)
LEMMA NobodyAtWork ==
  ASSUME claim # "none", \A s \in Senders : ~ Working(s)
  PROVE  Stage = IF Verdict(receipts) = "throttled" THEN "ready" ELSE "over"
BY DEF Stage, Working

(* An attempt that comes to its outcome is Delivery's Answer, and the      *)
(* outcome it records a Defer or a Conclude.                               *)
LEMMA AttemptStep ==
  ASSUME IInv, IInv', SentIsPosted, NEW s \in Senders,
         RecordSending(s) \/ Post(s) \/ RecordOutcome(s)
  PROVE  OneDelivery!Next
<1>1. CASE RecordSending(s)
  <2>1. Stage = "ready"
    BY <1>1, PreparedIsReady DEF RecordSending, Preparing
  <2>2. Stage' = "crossing"
    <3>1. pc'[s] = "post"
      BY <1>1, OthersStay DEF RecordSending, IInv
    <3> QED
      BY <3>1 DEF Stage
  <2>3. UNCHANGED <<posts, Said>>
    BY <1>1 DEF RecordSending, Said, Recorded, Outcome
  <2> QED
    BY <2>1, <2>2, <2>3 DEF OneDelivery!Next, OneDelivery!Begin
<1>2. CASE Post(s)
  <2>1. Stage = "crossing" /\ posts = 0
    BY <1>2 DEF Post, Stage, IInv, PostedIsOver, Working
  <2>2. PICK o \in Outcome, n \in {0, 1} : posts' = posts + n /\ Goto(s, o)
    BY <1>2, PostComesTo DEF IInv, TypeOK
  <2>3. posts' \in {0, 1}
    BY <2>1, <2>2
  <2>4. Stage' = "over"
    <3>1. pc'[s] = o /\ \A t \in Senders \ {s} : pc'[t] = pc[t]
      BY <2>2, OthersStay DEF IInv
    <3>2. \A t \in Senders : pc'[t] \notin Preparing \cup {"post"}
      BY <1>2, <3>1 DEF Post, IInv, OneAtWork, Working, Preparing, Outcome
    <3>3. claim' # "none" /\ Verdict(receipts') # "throttled"
      BY <1>2 DEF Post, diskVars, IInv, UnclaimedIsIdle, DeferredIsIdle, Working
    <3> QED
      BY <3>2, <3>3 DEF Stage, Preparing
  <2>5. UNCHANGED Said
    BY <1>2 DEF Post, diskVars, Said
  <2> QED
    BY <2>1, <2>3, <2>4, <2>5 DEF OneDelivery!Next, OneDelivery!Answer
<1>3. CASE RecordOutcome(s)
  <2>1. /\ pc[s] \in Outcome /\ claim # "none" /\ claim' = claim
        /\ posts' = posts /\ receipts' = Recorded(receipts, pc[s])
    BY <1>3, WorkIsClaimed DEF RecordOutcome, Outcome
  <2>2. Said' = Said \cup {pc[s]}
    BY <2>1 DEF Said, Recorded
  <2>3. Stage = "over"
    <3>1. \A t \in Senders : pc[t] \notin Preparing \cup {"post"}
      BY <2>1 DEF IInv, OneAtWork, Working, Preparing, Outcome
    <3>2. Verdict(receipts) # "throttled"
      BY <2>1 DEF IInv, DeferredIsIdle, Working, Outcome
    <3> QED
      BY <2>1, <3>1, <3>2 DEF Stage, Preparing
  <2>4. Stage' = IF Verdict(receipts') = "throttled" THEN "ready" ELSE "over"
    <3>1. PICK l \in {"link", "deadLetter", "idle"} : Goto(s, l)
      BY <1>3 DEF RecordOutcome, Exit
    <3>2. pc'[s] = l /\ \A t \in Senders \ {s} : pc'[t] = pc[t]
      BY <3>1, OthersStay DEF IInv
    <3>3. \A t \in Senders : pc'[t] \notin Preparing \cup {"post"}
      BY <2>1, <3>2 DEF IInv, OneAtWork, Working, Preparing, Outcome
    <3> QED
      BY <2>1, <3>3 DEF Stage, Preparing
  <2>5. receipts \in History /\ pc[s] \in Event
    BY <2>1 DEF IInv, TypeOK, Outcome, Event
  <2>6. CASE pc[s] = "throttled"
    <3>1. posts = 0
      BY <2>6 DEF IInv, PostedIsOver, Working, Outcome
    <3>2. Stage' = "ready" => Said \cap OneDelivery!Final = {}
      <4>1. Stage' = "ready" => Verdict(receipts') = "throttled"
        BY <2>4
      <4>2. Verdict(receipts') = "throttled" => receipts.events \cap TERMINAL = {}
        BY <2>1 DEF Verdict, Recorded
      <4> QED
        BY <4>1, <4>2 DEF Said, OneDelivery!Final, TERMINAL
    <3> QED
      BY <2>1, <2>2, <2>3, <2>4, <2>6, <3>1, <3>2
         DEF OneDelivery!Next, OneDelivery!Defer
  <2>7. CASE pc[s] # "throttled"
    <3>1. Stage' = "over"
      BY <2>1, <2>4, <2>5, <2>7, RecordedIn
    <3>2. /\ pc[s] = "sent" => posts = 1
          /\ pc[s] = "refused" => posts = 0
      BY DEF SentIsPosted, IInv, PostedIsOver, Working, Outcome
    <3> QED
      BY <2>1, <2>2, <2>3, <2>7, <3>1, <3>2
         DEF OneDelivery!Next, OneDelivery!Conclude, Outcome
  <2> QED
    BY <2>6, <2>7
<1> QED
  BY <1>1, <1>2, <1>3

(* A command that dies leaves the attempt as it was, or nobody to make it. *)
LEMMA DieAbandons ==
  ASSUME IInv, NEW s \in Senders, Die(s)
  PROVE  Stage' \in {Stage, "over"} /\ UNCHANGED <<posts, Said>>
<1>1. pc'[s] = "idle" /\ \A t \in Senders \ {s} : pc'[t] = pc[t]
  BY OthersStay DEF Die, Exit, IInv
<1>2. UNCHANGED <<claim, receipts, posts>>
  BY DEF Die, diskVars
<1>3. CASE claim = "none" \/ Verdict(receipts) = "throttled"
  <2>1. \A t \in Senders : pc[t] # "post"
    BY <1>3 DEF IInv, UnclaimedIsIdle, DeferredIsIdle, Working
  <2>2. \A t \in Senders : pc'[t] # "post"
    BY <1>1, <2>1
  <2> QED
    BY <1>2, <1>3, <2>1, <2>2 DEF Stage, Said
<1>4. CASE ~ (claim = "none" \/ Verdict(receipts) = "throttled")
  <2>1. CASE \A t \in Senders : pc'[t] \notin Preparing \cup {"post"}
    BY <1>2, <1>4, <2>1 DEF Stage, Said, Preparing
  <2>2. CASE \E t \in Senders : pc'[t] \in Preparing \cup {"post"}
    <3>1. PICK t \in Senders \ {s} : pc[t] \in Preparing \cup {"post"}
      BY <1>1, <2>2 DEF Preparing
    <3>2. pc[s] \notin Preparing \cup {"post"}
      BY <3>1 DEF IInv, OneAtWork, Working, Preparing
    <3> QED
      BY <1>2, <3>2, AsideKeeps DEF Die, Exit, Preparing
  <2> QED
    BY <2>1, <2>2
<1> QED
  BY <1>3, <1>4

(* A step of a command.                                                    *)
LEMMA SendRefines ==
  ASSUME IInv, IInv', SentIsPosted, NEW s \in Senders, Send(s) \/ Die(s)
  PROVE  [OneDelivery!Next]_(OneDelivery!deliveryVars)
<1> USE DEF OneDelivery!deliveryVars
<1>1. CASE RecordSending(s) \/ Post(s) \/ RecordOutcome(s)
  BY <1>1, AttemptStep
<1>2. CASE Die(s)
  BY <1>2, DieAbandons DEF OneDelivery!Next, OneDelivery!Abandon
<1>3. CASE SyncClaim(s) \/ RecordComposed(s) \/ StagePhoto(s)
  <2>1. Stage = "ready"
    BY <1>3, PreparedIsReady DEF SyncClaim, RecordComposed, StagePhoto, Preparing
  <2>2. PICK l \in Preparing : Goto(s, l)
    BY <1>3 DEF SyncClaim, RecordComposed, StagePhoto, Preparing
  <2>3. Stage' = "ready"
    BY <2>2, PreparingStays
  <2>4. UNCHANGED <<posts, Said>>
    BY <1>3
       DEF SyncClaim, RecordComposed, StagePhoto, historyVars, Said, Recorded, Outcome
  <2> QED
    BY <2>1, <2>3, <2>4
<1>4. CASE (Claim(s) /\ claim = "none") \/ (Resume(s) /\ Goto(s, "sending"))
  <2>1. Stage = "ready"
    <3>1. CASE Resume(s) /\ Goto(s, "sending")
      <4>1. Verdict(receipts) = "throttled"
        BY <3>1, OthersStay DEF Resume, Exit, IInv
      <4> QED
        BY <4>1, FreeIsReady
    <3> QED
      BY <1>4, <3>1, FreeIsReady
  <2>2. PICK l \in Preparing : Goto(s, l)
    BY <1>4 DEF Claim, Preparing
  <2>3. Stage' = "ready"
    BY <2>2, PreparingStays
  <2>4. UNCHANGED <<posts, Said>>
    BY <1>4 DEF Claim, Resume, diskVars, historyVars, Said
  <2> QED
    BY <2>1, <2>3, <2>4
<1>5. ASSUME \/ \E m \in Message : Invoke(s, m)
             \/ Claim(s) /\ claim # "none"
             \/ Recheck(s) \/ LockResume(s) \/ (Resume(s) /\ ~ Goto(s, "sending"))
             \/ LinkPost(s) \/ DeadLetter(s)
      PROVE  UNCHANGED <<Stage, posts, Said>>
  <2>1. UNCHANGED <<claim, receipts, posts>>
    BY <1>5
       DEF Invoke, Claim, Recheck, LockResume, Resume, LinkPost, DeadLetter,
           diskVars, historyVars
  <2>2. \/ UNCHANGED pc
        \/ /\ pc[s] \notin Preparing \cup {"post"}
           /\ \E l \in {"claim", "recheck", "lock", "resume", "idle"} : Goto(s, l)
    BY <1>5
       DEF Invoke, Claim, Recheck, LockResume, Resume, LinkPost, DeadLetter, Exit,
           Preparing
  <2>3. CASE UNCHANGED pc
    BY <2>1, <2>3 DEF Stage, Said
  <2>4. CASE \E l \in {"claim", "recheck", "lock", "resume", "idle"} :
               pc[s] \notin Preparing \cup {"post"} /\ Goto(s, l)
    BY <2>1, <2>4, AsideKeeps DEF Preparing
  <2> QED
    BY <2>1, <2>2, <2>3, <2>4
<1> QED
  BY <1>1, <1>2, <1>3, <1>4, <1>5 DEF Send

(* A step of the bridge closes the letter or leaves it alone.              *)
LEMMA BridgeRefines ==
  ASSUME IInv, Bridge
  PROVE  [OneDelivery!Next]_(OneDelivery!deliveryVars)
<1> USE DEF OneDelivery!deliveryVars
<1>1. CASE Rise \/ ReadReceipts \/ FlagInFlight \/ StopBridge
  BY <1>1
     DEF Rise, ReadReceipts, FlagInFlight, StopBridge, diskVars, senderVars,
         historyVars, Stage, Said
<1>2. CASE CloseInFlight
  <2>1. UNCHANGED <<claim, pc, posts>>
    BY <1>2 DEF CloseInFlight, senderVars, historyVars
  <2>2. Said' = Said \cup {"dead"}
    BY <1>2 DEF CloseInFlight, Said, Recorded
  <2>3. Verdict(receipts') # "throttled"
    BY <1>2, RecordedIn DEF CloseInFlight, IInv, TypeOK, Event
  <2>4. Stage' \in {Stage, "over"}
    BY <2>1, <2>3 DEF Stage
  <2> QED
    BY <2>1, <2>2, <2>4 DEF OneDelivery!Next, OneDelivery!Bury
<1> QED
  BY <1>1, <1>2 DEF Bridge

(* A power failure undoes the record, or leaves nobody to make the attempt.*)
LEMMA PowerRefines ==
  ASSUME IInv, PowerLoss
  PROVE  [OneDelivery!Next]_(OneDelivery!deliveryVars)
<1> USE DEF OneDelivery!deliveryVars
<1>1. /\ posts' = posts /\ \A s \in Senders : pc'[s] = "idle"
      /\ claim' = "none" => claim # "durable"
      /\ receipts' = receipts \/ receipts' = NoHistory
  BY DEF PowerLoss
<1>2. Stage' = IF claim' = "none" \/ Verdict(receipts') = "throttled"
                 THEN "ready" ELSE "over"
  BY <1>1 DEF Stage
<1>3. CASE Stage' = "over" /\ receipts' = receipts
  BY <1>1, <1>3 DEF Said, OneDelivery!Next, OneDelivery!Abandon
<1>4. CASE Stage' = "ready" /\ Verdict(receipts') = "throttled"
  <2>1. receipts' = receipts
    BY <1>1, <1>4, FreshIsNotDeferred
  <2>2. Stage = "ready"
    BY <1>4, <2>1, FreeIsReady
  <2> QED
    BY <1>1, <1>4, <2>1, <2>2 DEF Said
<1>5. CASE receipts' = NoHistory
  <2>1. Said' = {}
    BY <1>5 DEF Said, NoHistory
  <2>2. Stage' = "ready" => posts = 0
    BY <1>1, <1>2, <1>5, FreshIsNotDeferred DEF IInv, UnclaimedIsFresh
  <2> QED
    BY <1>1, <1>2, <2>1, <2>2 DEF OneDelivery!Next, OneDelivery!Forget
<1>6. CASE claim' = "none"
  BY <1>1, <1>5, <1>6 DEF IInv, UnclaimedIsFresh
<1> QED
  BY <1>1, <1>2, <1>3, <1>4, <1>5, <1>6

(* The command, its repetitions and the bridge keep Delivery's promise,    *)
(* whatever dies, is throttled, loses power or runs at the same time: no   *)
(* attempt overlaps another or is made over an accepted message or a       *)
(* recorded end, and what is recorded is so.                               *)
THEOREM ReplyKeepsPromise == Spec => DeliveryPromise
<1> DEFINE Inv == IInv /\ SentIsPosted
<1>1. Init => SentIsPosted /\ OneDelivery!Init
  BY DEF Init, SentIsPosted, OneDelivery!Init, Stage, Said, NoHistory
<1>2. IInv /\ SentIsPosted /\ [Next]_vars => SentIsPosted'
  BY PostedStep DEF vars, senderVars, historyVars, SentIsPosted
<1>3. IInv /\ IInv' /\ SentIsPosted /\ [Next]_vars
        => [OneDelivery!Next]_(OneDelivery!deliveryVars)
  <2> SUFFICES ASSUME IInv, IInv', SentIsPosted, [Next]_vars
               PROVE  [OneDelivery!Next]_(OneDelivery!deliveryVars)
    OBVIOUS
  <2>1. CASE EditAllowlist \/ UNCHANGED vars
    BY <2>1
       DEF EditAllowlist, vars, diskVars, senderVars, historyVars, Stage, Said,
           OneDelivery!deliveryVars
  <2> QED
    BY <2>1, SendRefines, BridgeRefines, PowerRefines DEF Next
<1> QED
  BY <1>1, <1>2, <1>3, ReplyInvariance, PTL
     DEF Spec, DeliveryPromise, OneDelivery!Spec
=============================================================================
