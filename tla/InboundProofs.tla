--------------------------- MODULE InboundProofs ---------------------------
(***************************************************************************)
(* Proofs about Inbound, for every value of its constants.                 *)
(*                                                                         *)
(* Whatever fails, one process at a time works under the lock, its batch   *)
(* lies between what is forgotten and what has arrived, and a mark is      *)
(* persisted once it was transmitted (Basis).                              *)
(*                                                                         *)
(* As long as no power failure tears a letter: what the look-ups of the    *)
(* holder have found is still so when it acts on it, for only the agent    *)
(* moves letters meanwhile, and only towards processed/, the place looked  *)
(* into last (LookedUp).  An update is settled once it is denied, durable  *)
(* or left to the dedup by a death; the holder marks, persists and         *)
(* confirms an offset only over what is settled (SettledFirst).            *)
(*                                                                         *)
(* Three more invariants rest on these.  What a cycle has published is     *)
(* rung for before the platform hears of it (RungFirst).  What a thread:   *)
(* line, a pointer or the letter in hand names is the root of its thread,  *)
(* and no letter is named before it has its own thread (Rooted, Stamping). *)
(* And while nothing but the process fails, an update is passed over only  *)
(* with the photo its letter advertises in place (PicturedFirst): the      *)
(* letter and the photo are two steps, and the duplicate branch repeats    *)
(* the second (Photographed).                                              *)
(***************************************************************************)
EXTENDS Inbound, TLAPS, SequenceTheorems

(* The larger of two numbers of a range is in it.                          *)
LEMMA LargerIn ==
  ASSUME NEW m \in 0..NumUpdates, NEW n \in 0..NumUpdates
  PROVE  /\ Larger(m, n) \in 0..NumUpdates
         /\ m <= Larger(m, n) /\ n <= Larger(m, n)
  BY ConstantsAssumption DEF Larger

(* The ledger stays a list of updates, no longer than its cap.             *)
LEMMA RecordIn ==
  ASSUME NEW l \in Seq(Update), Len(l) <= LedgerCap, NEW u \in Update
  PROVE  /\ Record(l, u) \in Seq(Update)
         /\ Len(Record(l, u)) <= LedgerCap
         /\ ToSet(Record(l, u)) \subseteq ToSet(l) \cup {u}
<1> DEFINE grown == Append(l, u)
           extra == IF Len(grown) > LedgerCap THEN Len(grown) - LedgerCap ELSE 0
<1>1. grown \in Seq(Update) /\ Len(grown) = Len(l) + 1
  OBVIOUS
<1>2. extra \in Nat /\ extra <= Len(grown) /\ Len(grown) - extra <= LedgerCap
  BY <1>1, ConstantsAssumption
<1>3. Record(l, u) = SubSeq(grown, extra + 1, Len(grown))
  BY DEF Record
<1> HIDE DEF grown, extra
<1>4. /\ SubSeq(grown, extra + 1, Len(grown)) \in Seq(Update)
      /\ Len(SubSeq(grown, extra + 1, Len(grown))) = Len(grown) - extra
      /\ \A i \in 1..(Len(grown) - extra) :
           SubSeq(grown, extra + 1, Len(grown))[i] = grown[extra + i]
  BY <1>1, <1>2
<1>5. \A i \in 1..Len(grown) : grown[i] \in ToSet(l) \cup {u}
  BY DEF grown, ToSet
<1>6. ToSet(Record(l, u)) \subseteq ToSet(l) \cup {u}
  BY <1>1, <1>2, <1>3, <1>4, <1>5 DEF ToSet
<1> QED
  BY <1>2, <1>3, <1>4, <1>6

----------------------------------------------------------------------------
(* The inductive invariant.                                                *)

(* Steps at which the holder is handling an update of its batch, and those *)
(* of them after the letter has been linked.                               *)
Written == {"sync", "record", "promote", "markReady", "index", "pointer",
            "stamp", "replace"}

(* The lock is held by one process at most.                                *)
OneHolder == \A a, b \in Bridges : Holding(a) /\ Holding(b) => a = b

(* Without torn renames, a letter is on disk once or not at all.           *)
WholeLetters ==
  \A u \in Update : /\ life[u] # "torn"
                    /\ life[u] = "none" <=> ~ HasLetter(u)
                    /\ copies[u] = IF HasLetter(u) THEN 1 ELSE 0

(* What the dedup lookups of the update in hand have established so far.   *)
LookedUp(b) ==
  /\ pc[b] = "findProcessed" => cur \notin inbox
  /\ pc[b] = "link" => ~ HasLetter(cur)
  /\ pc[b] \in Written => HasLetter(cur)
  /\ pc[b] \in Written \ {"sync"} => life[cur] # "linked"

(* A name not yet durable has its publisher at work, or that one died.     *)
LinkedIsKnown ==
  \A u \in Update :
    life[u] = "linked" =>
      u \in interrupted \/ \E b \in Bridges : pc[b] = "sync" /\ cur = u

(* The batch lies between what is forgotten and what has arrived.          *)
InHand(b) ==
  /\ mark[b] <= arrived
  /\ pc[b] \in InItem => forgot < cur /\ cur <= last /\ last <= arrived

(* What the platform need not keep any longer.                             *)
Settled(u) == u \in denied \/ Durable(u) \/ u \in interrupted
SettledTo(n) == \A u \in Update : u <= n => Settled(u)

(* Nothing is marked or passed over before it is settled.                  *)
SettledFirst(b) ==
  /\ SettledTo(mark[b])
  /\ pc[b] \in InItem => SettledTo(cur - 1)
  /\ pc[b] \in {"duplicate", "ack"} => Settled(cur)

(* A mark about to be persisted, or just read back, has been transmitted.  *)
MarkBehind(b) ==
  pc[b] \in {"down", "loaded", "save", "beat"} => mark[b] <= forgot

(* What holds whatever fails, torn letters included: one holder, and every *)
(* mark in its order.                                                      *)
Basis ==
  /\ TypeOK /\ OneHolder
  /\ forgot <= arrived /\ offset <= forgot
  /\ \A b \in Bridges : InHand(b) /\ MarkBehind(b)

ProcessInv(b) == LookedUp(b) /\ SettledFirst(b)

(* Nothing is forgotten or recorded before it is settled.                  *)
DiskInv ==
  /\ SettledTo(forgot)
  /\ \A u \in ToSet(ledger) : Settled(u)

IInv ==
  /\ Basis /\ WholeLetters /\ LinkedIsKnown /\ DiskInv
  /\ \A b \in Bridges : ProcessInv(b)

----------------------------------------------------------------------------
(* Who writes what.                                                        *)

(* What bridge b does while it holds the lock.                             *)
HolderStep(b) ==
  \/ Gate(b) \/ ConsultLedger(b)
  \/ FindInInbox(b) \/ FindInProcessed(b) \/ LinkLetter(b) \/ SyncInbox(b)
  \/ RecordDelivered(b) \/ PlacePhoto(b) \/ MarkPhotoReady(b)
  \/ RecordIndex(b) \/ CurrentThread(b) \/ ReadForStamp(b) \/ StampThread(b)
  \/ FinishDuplicate(b) \/ Ack(b) \/ Ring(b) \/ SaveOffset(b) \/ Beat(b)
  \/ Fetch(b) \/ Answered(b) \/ Confirm(b) \/ Failed(b)

LEMMA HolderMoves ==
  ASSUME ProcessType, NEW b \in Bridges, HolderStep(b)
  PROVE  /\ Holding(b)
         /\ \E l \in Steps \ {"loaded"} : pc' = [pc EXCEPT ![b] = l]
  BY SMT DEF HolderStep, ProcessType, Holding, Idle, Steps, InItem, Goto, Exit, AfterItem,
     Gate, ConsultLedger, FindInInbox, FindInProcessed, LinkLetter,
     SyncInbox, RecordDelivered, PlacePhoto, MarkPhotoReady,
     RecordIndex, CurrentThread, ReadForStamp, StampThread,
     FinishDuplicate, Ack, Ring, SaveOffset, Beat, Fetch, Answered,
     StagePhoto, PhotoUnavailable, Confirm, Failed, Transient, Yield,
     Refused, AbandonCycle

LEMMA OneHolderStep ==
  ASSUME TypeOK, OneHolder, Next
  PROVE  OneHolder'
<1> USE DEF TypeOK, ProcessType
<1>1. CASE World \/ PowerLoss
  BY <1>1 DEF World, Arrive, EditAllowlist, Sweep, PowerLoss, OneHolder, Holding, Idle
<1>2. ASSUME NEW b \in Bridges, HolderStep(b) PROVE OneHolder'
  BY <1>2, HolderMoves DEF OneHolder, Holding
<1>3. ASSUME NEW b \in Bridges, LoadOffset(b) \/ HoldLock(b) \/ Die(b)
      PROVE  OneHolder'
  BY <1>3 DEF LoadOffset, HoldLock, Die, OneHolder, Holding, Idle, Goto, Exit
<1> QED
  BY <1>1, <1>2, <1>3 DEF Next, Local, HolderStep

(* Four steps and a power failure touch the letters.                       *)
LEMMA LetterWriters ==
  ASSUME Next
  PROVE  \/ UNCHANGED letterVars
         \/ \E u \in Update : Sweep(u)
         \/ \E b \in Bridges : LinkLetter(b) \/ SyncInbox(b) \/ StampThread(b)
         \/ PowerLoss
<1>1. CASE World
  BY <1>1, SMT DEF World, Arrive, EditAllowlist, letterVars
<1>2. ASSUME NEW b \in Bridges, HolderStep(b)
      PROVE  UNCHANGED letterVars \/ LinkLetter(b) \/ SyncInbox(b) \/ StampThread(b)
  BY <1>2, SMT DEF
     HolderStep, Answered, Failed, Exit, EndCycle, Yield, Refused,
     Transient, Fetch, Gate, StagePhoto, PhotoUnavailable, AbandonCycle,
     ConsultLedger, FindInInbox, FindInProcessed, RecordDelivered,
     PlacePhoto, MarkPhotoReady, RecordIndex, CurrentThread,
     ReadForStamp, FinishDuplicate, Ack, Ring, Confirm, SaveOffset,
     Beat, letterVars
<1>3. ASSUME NEW b \in Bridges, LoadOffset(b) \/ HoldLock(b) \/ Die(b)
      PROVE  UNCHANGED letterVars
  BY <1>3, SMT DEF Exit, EndCycle, LoadOffset, HoldLock, Die, letterVars
<1> QED
  BY <1>1, <1>2, <1>3, SMT DEF Next, Local, HolderStep

(* The ledger grows in three places.                                       *)
LEMMA LedgerWriters ==
  ASSUME Next
  PROVE  \/ UNCHANGED ledger
         \/ \E b \in Bridges : FindInInbox(b) \/ FindInProcessed(b) \/ RecordDelivered(b)
         \/ PowerLoss
<1>1. CASE World
  BY <1>1, SMT DEF World, Arrive, EditAllowlist, Sweep, stateVars
<1>2. ASSUME NEW b \in Bridges, HolderStep(b)
      PROVE  UNCHANGED ledger \/ FindInInbox(b) \/ FindInProcessed(b) \/ RecordDelivered(b)
  BY <1>2, SMT DEF
     HolderStep, Answered, Failed, Exit, EndCycle, Yield, Refused,
     Transient, Fetch, Gate, StagePhoto, PhotoUnavailable, AbandonCycle,
     ConsultLedger, LinkLetter, SyncInbox, PlacePhoto, MarkPhotoReady,
     RecordIndex, CurrentThread, ReadForStamp, StampThread,
     FinishDuplicate, Ack, Ring, Confirm, SaveOffset, Beat, stateVars
<1>3. ASSUME NEW b \in Bridges, LoadOffset(b) \/ HoldLock(b) \/ Die(b)
      PROVE  UNCHANGED ledger
  BY <1>3, SMT DEF Exit, EndCycle, LoadOffset, HoldLock, Die, stateVars
<1> QED
  BY <1>1, <1>2, <1>3, SMT DEF Next, Local, HolderStep

(* The offset is persisted in one.                                         *)
LEMMA OffsetWriters ==
  ASSUME Next
  PROVE  \/ UNCHANGED offset
         \/ \E b \in Bridges : SaveOffset(b)
         \/ PowerLoss
<1>1. CASE World
  BY <1>1, SMT DEF World, Arrive, EditAllowlist, Sweep, stateVars
<1>2. ASSUME NEW b \in Bridges, HolderStep(b)
      PROVE  UNCHANGED offset \/ SaveOffset(b)
  BY <1>2, SMT DEF
     HolderStep, Answered, Failed, Exit, EndCycle, Yield, Refused,
     Transient, Fetch, Gate, StagePhoto, PhotoUnavailable, AbandonCycle,
     ConsultLedger, FindInInbox, FindInProcessed, LinkLetter, SyncInbox,
     RecordDelivered, PlacePhoto, MarkPhotoReady, RecordIndex,
     CurrentThread, ReadForStamp, StampThread, FinishDuplicate, Ack,
     Ring, Confirm, Beat, stateVars
<1>3. ASSUME NEW b \in Bridges, LoadOffset(b) \/ HoldLock(b) \/ Die(b)
      PROVE  UNCHANGED offset
  BY <1>3, SMT DEF Exit, EndCycle, LoadOffset, HoldLock, Die, stateVars
<1> QED
  BY <1>1, <1>2, <1>3, SMT DEF Next, Local, HolderStep

(* The platform forgets on three requests.                                 *)
LEMMA ForgotWriters ==
  ASSUME Next
  PROVE  \/ UNCHANGED forgot
         \/ \E b \in Bridges : Transient(b) \/ Fetch(b) \/ Confirm(b)
<1>1. CASE World
  BY <1>1, SMT DEF World, Arrive, EditAllowlist, Sweep, platformVars
<1>2. ASSUME NEW b \in Bridges, HolderStep(b)
      PROVE  UNCHANGED forgot \/ Transient(b) \/ Fetch(b) \/ Confirm(b)
  BY <1>2, SMT DEF
     HolderStep, Answered, Failed, Exit, EndCycle, Yield, Refused, Gate,
     StagePhoto, PhotoUnavailable, AbandonCycle, ConsultLedger,
     FindInInbox, FindInProcessed, LinkLetter, SyncInbox,
     RecordDelivered, PlacePhoto, MarkPhotoReady, RecordIndex,
     CurrentThread, ReadForStamp, StampThread, FinishDuplicate, Ack,
     Ring, SaveOffset, Beat, platformVars
<1>3. ASSUME NEW b \in Bridges, LoadOffset(b) \/ HoldLock(b) \/ Die(b)
      PROVE  UNCHANGED forgot
  BY <1>3, SMT DEF Exit, EndCycle, LoadOffset, HoldLock, Die, platformVars
<1>4. CASE PowerLoss
  BY <1>4 DEF PowerLoss, platformVars
<1> QED
  BY <1>1, <1>2, <1>3, <1>4, SMT DEF Next, Local, HolderStep

(* Mail arrives and the operator edits without the bridge.                 *)
LEMMA WorldWriters ==
  ASSUME Next
  PROVE  \/ UNCHANGED <<arrived, allowed>>
         \/ Arrive
         \/ \E c \in Chats : EditAllowlist(c)
<1>1. CASE World
  BY <1>1, SMT DEF World, Sweep, platformVars
<1>2. ASSUME NEW b \in Bridges, HolderStep(b)
      PROVE  UNCHANGED <<arrived, allowed>>
  BY <1>2, SMT DEF
     HolderStep, Answered, Failed, Exit, EndCycle, Yield, Refused,
     Transient, Fetch, Gate, StagePhoto, PhotoUnavailable, AbandonCycle,
     ConsultLedger, FindInInbox, FindInProcessed, LinkLetter, SyncInbox,
     RecordDelivered, PlacePhoto, MarkPhotoReady, RecordIndex,
     CurrentThread, ReadForStamp, StampThread, FinishDuplicate, Ack,
     Ring, Confirm, SaveOffset, Beat, platformVars
<1>3. ASSUME NEW b \in Bridges, LoadOffset(b) \/ HoldLock(b) \/ Die(b)
      PROVE  UNCHANGED <<arrived, allowed>>
  BY <1>3, SMT DEF Exit, EndCycle, LoadOffset, HoldLock, Die, platformVars
<1>4. CASE PowerLoss
  BY <1>4 DEF PowerLoss, platformVars
<1> QED
  BY <1>1, <1>2, <1>3, <1>4, SMT DEF Next, Local, HolderStep

(* Who writes the index, the pointers and the photos.                      *)
LEMMA PlaceWriters ==
  ASSUME Next
  PROVE  \/ UNCHANGED <<index, pointer, asset>>
         \/ \E b \in Bridges : StagePhoto(b) \/ PlacePhoto(b)
              \/ MarkPhotoReady(b) \/ RecordIndex(b) \/ CurrentThread(b)
              \/ FinishDuplicate(b)
         \/ PowerLoss
<1>1. CASE World
  BY <1>1, SMT DEF World, Arrive, EditAllowlist, Sweep, stateVars
<1>2. ASSUME NEW b \in Bridges, HolderStep(b)
      PROVE  UNCHANGED <<index, pointer, asset>> \/ StagePhoto(b) \/ PlacePhoto(b)
              \/ MarkPhotoReady(b) \/ RecordIndex(b) \/ CurrentThread(b)
              \/ FinishDuplicate(b)
  BY <1>2, SMT DEF
     HolderStep, Answered, Failed, Exit, EndCycle, Yield, Refused,
     Transient, Fetch, Gate, PhotoUnavailable, AbandonCycle,
     ConsultLedger, FindInInbox, FindInProcessed, LinkLetter, SyncInbox,
     RecordDelivered, ReadForStamp, StampThread, Ack, Ring, Confirm,
     SaveOffset, Beat, stateVars
<1>3. ASSUME NEW b \in Bridges, LoadOffset(b) \/ HoldLock(b) \/ Die(b)
      PROVE  UNCHANGED <<index, pointer, asset>>
  BY <1>3, SMT DEF Exit, EndCycle, LoadOffset, HoldLock, Die, stateVars
<1> QED
  BY <1>1, <1>2, <1>3, SMT DEF Next, Local, HolderStep

(* Every step keeps the platform's types.                                  *)
LEMMA PlatformTypeStep == ASSUME Basis, Next PROVE PlatformType'
<1> USE DEF Basis, TypeOK
<1>1. arrived' \in 0..NumUpdates /\ allowed' \subseteq Chats
  <2>1. CASE Arrive
    BY <2>1, ConstantsAssumption DEF Arrive, PlatformType
  <2>2. ASSUME NEW c \in Chats, EditAllowlist(c)
        PROVE  arrived' \in 0..NumUpdates /\ allowed' \subseteq Chats
    BY <2>2 DEF EditAllowlist, platformVars, PlatformType
  <2> QED
    BY <2>1, <2>2, WorldWriters DEF PlatformType
<1>2. forgot' \in 0..NumUpdates
  BY ForgotWriters, LargerIn
     DEF PlatformType, ProcessType, Transient, Fetch, Confirm
<1> QED
  BY <1>1, <1>2 DEF PlatformType

(* Every step keeps the letters' types.                                    *)
LEMMA LetterTypeStep == ASSUME Basis, Next PROVE LetterType'
<1> USE DEF Basis, TypeOK
<1>1. ASSUME NEW b \in Bridges, LinkLetter(b) \/ SyncInbox(b) \/ StampThread(b)
      PROVE  LetterType'
  <2>1. cur \in Update /\ aim \in 0..NumUpdates
    BY <1>1, ConstantsAssumption
       DEF LinkLetter, SyncInbox, StampThread, InHand, InItem,
           ProcessType, PlatformType, Update
  <2> QED
    BY <1>1, <2>1, SMT
       DEF LinkLetter, SyncInbox, StampThread, LetterType, Life
<1>2. CASE PowerLoss
  BY <1>2, SMT DEF PowerLoss, LetterType, Life
<1>3. CASE UNCHANGED letterVars \/ \E u \in Update : Sweep(u)
  BY <1>3 DEF Sweep, letterVars, LetterType
<1> QED
  BY <1>1, <1>2, <1>3, LetterWriters

(* ... those of the files under state/,                                    *)
LEMMA StateTypeStep == ASSUME Basis, Next PROVE StateType'
<1> USE DEF Basis, TypeOK, StateType
<1>1. ledger' \in Seq(Update) /\ Len(ledger') <= LedgerCap
  <2>1. ASSUME NEW b \in Bridges,
               FindInInbox(b) \/ FindInProcessed(b) \/ RecordDelivered(b)
        PROVE  ledger' \in Seq(Update) /\ Len(ledger') <= LedgerCap
    <3>1. cur \in Update
      BY <2>1, ConstantsAssumption
         DEF FindInInbox, FindInProcessed, RecordDelivered, InHand,
             InItem, ProcessType, PlatformType, Update
    <3> QED
      BY <2>1, <3>1, RecordIn DEF FindInInbox, FindInProcessed, RecordDelivered
  <2>2. CASE PowerLoss
    BY <2>2, ConstantsAssumption DEF PowerLoss
  <2> QED
    BY <2>1, <2>2, LedgerWriters
<1>2. offset' \in 0..NumUpdates
  <2>1. CASE PowerLoss
    <3>1. offset' \in 0..offset
      BY <2>1 DEF PowerLoss
    <3> QED
      BY <3>1, ConstantsAssumption
  <2>2. CASE \E b \in Bridges : SaveOffset(b)
    BY <2>2 DEF SaveOffset, ProcessType
  <2> QED
    BY <2>1, <2>2, OffsetWriters
<1>3. /\ index' \subseteq Update /\ pointer' \in [Chats -> 0..NumUpdates]
      /\ asset' \in [Update -> AssetPlace]
  <2>1. ASSUME NEW b \in Bridges,
               \/ StagePhoto(b) \/ PlacePhoto(b) \/ MarkPhotoReady(b)
               \/ RecordIndex(b) \/ CurrentThread(b) \/ FinishDuplicate(b)
        PROVE  /\ index' \subseteq Update
               /\ pointer' \in [Chats -> 0..NumUpdates]
               /\ asset' \in [Update -> AssetPlace]
    <3>1. cur \in Update
      BY <2>1, ConstantsAssumption
         DEF StagePhoto, PlacePhoto, MarkPhotoReady, RecordIndex, CurrentThread,
             FinishDuplicate, InHand, InItem, ProcessType,
             PlatformType, Update
    <3>2. cur \in 0..NumUpdates /\ From[cur] \in Chats
      BY <3>1, ConstantsAssumption DEF Update
    <3>3. index' \subseteq Update /\ pointer' \in [Chats -> 0..NumUpdates]
      <4>1. CASE CurrentThread(b)
        <5>1. aim' \in 0..NumUpdates
          BY <4>1, <3>2, SMT DEF CurrentThread
        <5> QED
          BY <4>1, <5>1, <3>2, SMT DEF CurrentThread
      <4> QED
        BY <2>1, <4>1, <3>1, SMT
           DEF StagePhoto, PlacePhoto, MarkPhotoReady, RecordIndex,
               FinishDuplicate
    <3>4. asset' \in [Update -> AssetPlace]
      <4>1. CASE FinishDuplicate(b)
        <5>1. PICK a \in AssetPlace : asset' = [asset EXCEPT ![cur] = a]
          BY <4>1, <3>1, SMT DEF FinishDuplicate, AssetPlace
        <5> QED
          BY <5>1
      <4> QED
        BY <2>1, <4>1, SMT
           DEF StagePhoto, PlacePhoto, MarkPhotoReady, RecordIndex,
               CurrentThread, AssetPlace
    <3> QED
      BY <3>3, <3>4
  <2>2. CASE PowerLoss
    BY <2>2, ConstantsAssumption, SMT DEF PowerLoss, AssetPlace
  <2> QED
    BY <2>1, <2>2, PlaceWriters
<1>4. health' \in {"none", "starting", "running", "degraded", "yielded"}
  <2>1. ASSUME NEW b \in Bridges, HolderStep(b)
        PROVE  health' \in {"none", "starting", "running", "degraded", "yielded"}
    BY <2>1, SMT DEF
       HolderStep, Answered, Failed, Yield, Refused, Transient, Fetch,
       Gate, StagePhoto, PhotoUnavailable, AbandonCycle, ConsultLedger,
       FindInInbox, FindInProcessed, LinkLetter, SyncInbox,
       RecordDelivered, PlacePhoto, MarkPhotoReady, RecordIndex,
       CurrentThread, ReadForStamp, StampThread, FinishDuplicate, Ack,
       Ring, Confirm, SaveOffset, Beat
  <2>2. CASE World \/ PowerLoss
    BY <2>2 DEF World, Arrive, EditAllowlist, Sweep, PowerLoss
  <2>3. ASSUME NEW b \in Bridges, LoadOffset(b) \/ HoldLock(b) \/ Die(b)
        PROVE  health' \in {"none", "starting", "running", "degraded", "yielded"}
    BY <2>3 DEF LoadOffset, HoldLock, Die
  <2> QED
    BY <2>1, <2>2, <2>3, SMT DEF Next, Local, HolderStep
<1> QED
  BY <1>1, <1>2, <1>3, <1>4

(* ... those of the history variables,                                     *)
LEMMA HistoryTypeStep == ASSUME Basis, Next PROVE HistoryType'
<1> USE DEF Basis, TypeOK
<1>1. ASSUME NEW b \in Bridges, HolderStep(b) PROVE HistoryType'
  <2>1. pc[b] \in InItem => cur \in Update
    BY ConstantsAssumption DEF InHand, ProcessType, PlatformType, Update
  <2>2. ASSUME Gate(b) \/ Ring(b) PROVE HistoryType'
    BY <2>1, <2>2 DEF Gate, Ring, HistoryType, ProcessType, InItem
  <2>3. UNCHANGED historyVars \/ Gate(b) \/ Ring(b)
    BY <1>1, SMT DEF
       HolderStep, Answered, Failed, Yield, Refused, Transient, Fetch,
       StagePhoto, PhotoUnavailable, AbandonCycle, ConsultLedger,
       FindInInbox, FindInProcessed, LinkLetter, SyncInbox,
       RecordDelivered, PlacePhoto, MarkPhotoReady, RecordIndex,
       CurrentThread, ReadForStamp, StampThread, FinishDuplicate, Ack,
       Confirm, SaveOffset, Beat, historyVars
  <2> QED
    BY <2>2, <2>3 DEF historyVars, HistoryType
<1>2. CASE World \/ PowerLoss
  BY <1>2, ConstantsAssumption
     DEF World, Arrive, EditAllowlist, Sweep, PowerLoss, HistoryType,
         historyVars, Interrupted
<1>3. ASSUME NEW b \in Bridges, LoadOffset(b) \/ HoldLock(b) \/ Die(b)
      PROVE  HistoryType'
  BY <1>3, ConstantsAssumption
     DEF LoadOffset, HoldLock, Die, HistoryType, historyVars, Interrupted
<1> QED
  BY <1>1, <1>2, <1>3, SMT DEF Next, Local, HolderStep

(* ... and those of the processes.                                         *)
LEMMA ProcessTypeStep == ASSUME Basis, Next PROVE ProcessType'
<1> USE DEF Basis, TypeOK, ProcessType
<1>1. ASSUME NEW b \in Bridges, HolderStep(b) PROVE ProcessType'
  <2>1. pc' \in [Bridges -> Steps]
    BY <1>1, HolderMoves
  <2>2. pc[b] \in InItem => cur \in Update /\ cur <= NumUpdates
    BY ConstantsAssumption DEF InHand, PlatformType, Update
  <2>3. mark' \in [Bridges -> 0..NumUpdates]
    <3>1. CASE Ack(b)
      BY <2>2, <3>1, LargerIn, ConstantsAssumption DEF Ack, InItem, Update
    <3> QED
      BY <1>1, <3>1, ConstantsAssumption, SMT DEF
         HolderStep, Answered, Failed, Exit, Yield, Refused, Transient,
         Fetch, Gate, StagePhoto, PhotoUnavailable, AbandonCycle,
         ConsultLedger, FindInInbox, FindInProcessed, LinkLetter, SyncInbox,
         RecordDelivered, PlacePhoto, MarkPhotoReady, RecordIndex,
         CurrentThread, ReadForStamp, StampThread, FinishDuplicate, Ring,
         Confirm, SaveOffset, Beat
  <2>4. /\ cur' \in 1..(NumUpdates + 1) /\ last' \in 0..NumUpdates
        /\ fresh' \subseteq Update
    <3>1. CASE Ack(b)
      <4>1. cur <= last /\ cur \in Update
        BY <2>2, <3>1, ConstantsAssumption DEF Ack, InItem, InHand
      <4> QED
        BY <3>1, <4>1, ConstantsAssumption DEF Ack, Update
    <3>2. CASE Fetch(b)
      <4>1. forgot' \in 0..NumUpdates
        BY <3>2, LargerIn DEF Fetch, PlatformType
      <4> QED
        BY <3>2, <4>1, ConstantsAssumption DEF Fetch, PlatformType
    <3>3. CASE RecordDelivered(b)
      BY <2>2, <3>3, ConstantsAssumption DEF RecordDelivered, InItem
    <3> QED
      BY <1>1, <3>1, <3>2, <3>3, ConstantsAssumption, SMT DEF
         HolderStep, Answered, Failed, Exit, EndCycle, cycleVars, Yield,
         Refused, Transient, Gate, StagePhoto, PhotoUnavailable,
         AbandonCycle, ConsultLedger, FindInInbox, FindInProcessed,
         LinkLetter, SyncInbox, PlacePhoto, MarkPhotoReady, RecordIndex,
         CurrentThread, ReadForStamp, StampThread, FinishDuplicate, Ring,
         Confirm, SaveOffset, Beat
  <2>5. aim' \in 0..NumUpdates
    <3>1. CASE ConsultLedger(b)
      <4>1. ReplyTo[cur] \in 0..NumUpdates /\ 0 \in 0..NumUpdates
        BY <2>2, <3>1, ConstantsAssumption DEF ConsultLedger, InItem
      <4>2. \A t \in 1..NumUpdates : ThreadOf(t) \in 0..NumUpdates
        BY ConstantsAssumption DEF ThreadOf, LetterType, Update
      <4>3. index \subseteq 1..NumUpdates
        BY DEF StateType, Update
      <4> QED
        BY <3>1, <4>1, <4>2, <4>3, SMT
         DEF ConsultLedger, Exit, EndCycle, cycleVars
    <3>2. CASE CurrentThread(b)
      BY <2>2, <3>2, ConstantsAssumption, SMT
         DEF CurrentThread, StateType, InItem, Update
    <3> QED
      BY <1>1, <3>1, <3>2, ConstantsAssumption, SMT DEF
         HolderStep, Answered, Failed, Exit, EndCycle, cycleVars, Yield,
         Refused, Transient, Fetch, Gate, StagePhoto, PhotoUnavailable,
         AbandonCycle, FindInInbox, FindInProcessed, LinkLetter, SyncInbox,
         RecordDelivered, PlacePhoto, MarkPhotoReady, RecordIndex,
         ReadForStamp, StampThread, FinishDuplicate, Ack, Ring, Confirm,
         SaveOffset, Beat
  <2>6. shot' \in BOOLEAN
    BY <1>1, Zenon DEF
       HolderStep, Answered, Failed, Exit, EndCycle, cycleVars, Yield,
       Refused, Transient, Fetch, Gate, StagePhoto, PhotoUnavailable,
       AbandonCycle, ConsultLedger, FindInInbox, FindInProcessed,
       LinkLetter, SyncInbox, RecordDelivered, PlacePhoto, MarkPhotoReady,
       RecordIndex, CurrentThread, ReadForStamp, StampThread,
       FinishDuplicate, Ack, Ring, Confirm, SaveOffset, Beat
  <2> QED
    BY <2>1, <2>3, <2>4, <2>5, <2>6
<1>2. CASE World
  BY <1>2 DEF World, Arrive, EditAllowlist, Sweep, cycleVars
<1>0. CASE PowerLoss
  <2>1. shot' \in BOOLEAN
    BY <1>0 DEF PowerLoss, EndCycle
  <2> QED
    BY <1>0, <2>1, ConstantsAssumption, SMT DEF PowerLoss, EndCycle, Steps, Idle
<1>3. ASSUME NEW b \in Bridges, LoadOffset(b) \/ HoldLock(b) \/ Die(b)
      PROVE  ProcessType'
  <2>1. shot' \in BOOLEAN
    BY <1>3 DEF LoadOffset, HoldLock, Die, Exit, EndCycle, cycleVars
  <2> QED
    <3>1. CASE LoadOffset(b)
      BY <3>1, <2>1, SMT DEF LoadOffset, cycleVars, Goto, Steps, Idle, StateType
    <3>2. CASE HoldLock(b)
      BY <3>2, <2>1, ConstantsAssumption, SMT
         DEF HoldLock, Exit, EndCycle, cycleVars, Goto, Steps, Idle
    <3>3. CASE Die(b)
      BY <3>3, <2>1, ConstantsAssumption, SMT
         DEF Die, Exit, EndCycle, cycleVars, Goto, Steps, Idle
    <3> QED
      BY <1>3, <3>1, <3>2, <3>3
<1> QED
  BY <1>0, <1>1, <1>2, <1>3, SMT DEF Next, Local, HolderStep

(* All of them together.                                                   *)
LEMMA TypeStep == ASSUME Basis, Next PROVE TypeOK'
  BY PlatformTypeStep, LetterTypeStep, StateTypeStep, ProcessTypeStep,
     HistoryTypeStep DEF TypeOK

----------------------------------------------------------------------------
(* What holds whatever fails, power failures and torn letters included.    *)

(* The letter in hand.                                                     *)
LEMMA CurInHand ==
  ASSUME Basis, NEW b \in Bridges, pc[b] \in InItem
  PROVE  cur \in Update
BY ConstantsAssumption DEF Basis, TypeOK, InHand, PlatformType, ProcessType,
   Update

(* While b acts as the holder the others stand outside the lock.           *)
LEMMA OthersIdle ==
  ASSUME TypeOK, OneHolder, NEW b \in Bridges, HolderStep(b),
         NEW a \in Bridges, a # b
  PROVE  /\ pc[a] \in Idle /\ pc'[a] = pc[a]
         /\ mark'[a] = mark[a]
<1>1. pc[a] \in Idle /\ pc'[a] = pc[a]
  BY HolderMoves DEF TypeOK, OneHolder, Holding, ProcessType
<1>2. UNCHANGED mark \/ \E m : mark' = [mark EXCEPT ![b] = m]
  BY SMT DEF
     HolderStep, Answered, Failed, Exit, Yield, Refused, Transient, Fetch,
     Gate, StagePhoto, PhotoUnavailable, AbandonCycle, ConsultLedger,
     FindInInbox, FindInProcessed, LinkLetter, SyncInbox, RecordDelivered,
     PlacePhoto, MarkPhotoReady, RecordIndex, CurrentThread, ReadForStamp,
     StampThread, FinishDuplicate, Ack, Ring, Confirm, SaveOffset, Beat
<1> QED
  BY <1>1, <1>2 DEF TypeOK, ProcessType

(* What has arrived, was forgotten, denied or interrupted stays so.        *)
LEMMA Monotone ==
  ASSUME Basis, Next
  PROVE  /\ arrived <= arrived' /\ forgot <= forgot'
         /\ denied \subseteq denied' /\ interrupted \subseteq interrupted'
<1> USE DEF Basis, TypeOK, PlatformType, ProcessType
<1>1. arrived <= arrived'
  BY WorldWriters, ConstantsAssumption DEF Arrive, EditAllowlist, platformVars
<1>2. forgot <= forgot'
  <2>1. \A b \in Bridges : forgot <= Larger(forgot, mark[b])
    BY LargerIn
  <2>2. forgot' = forgot \/ \E b \in Bridges : forgot' = Larger(forgot, mark[b])
    BY ForgotWriters DEF Transient, Fetch, Confirm
  <2> QED
    BY <2>1, <2>2, ConstantsAssumption
<1>3. ASSUME NEW b \in Bridges, HolderStep(b)
      PROVE  denied \subseteq denied' /\ interrupted \subseteq interrupted'
  BY <1>3, SMT DEF
     HolderStep, Answered, Failed, historyVars, Yield, Refused, Transient,
     Fetch, Gate, StagePhoto, PhotoUnavailable, AbandonCycle, ConsultLedger,
     FindInInbox, FindInProcessed, LinkLetter, SyncInbox, RecordDelivered,
     PlacePhoto, MarkPhotoReady, RecordIndex, CurrentThread, ReadForStamp,
     StampThread, FinishDuplicate, Ack, Ring, Confirm, SaveOffset, Beat
<1>4. ASSUME World \/ PowerLoss
      PROVE  denied \subseteq denied' /\ interrupted \subseteq interrupted'
  BY <1>4, SMT
     DEF World, Arrive, EditAllowlist, Sweep, PowerLoss, historyVars, Interrupted
<1>5. ASSUME NEW b \in Bridges, LoadOffset(b) \/ HoldLock(b) \/ Die(b)
      PROVE  denied \subseteq denied' /\ interrupted \subseteq interrupted'
  BY <1>5, SMT DEF LoadOffset, HoldLock, Die, historyVars, Interrupted
<1> QED
  BY <1>1, <1>2, <1>3, <1>4, <1>5, SMT DEF Next, Local, HolderStep

(* Nothing is forgotten before it has arrived, or persisted before it is   *)
(* forgotten.                                                              *)
LEMMA OffsetsStep ==
  ASSUME Basis, Next PROVE forgot' <= arrived' /\ offset' <= forgot'
<1> USE DEF Basis, TypeOK, PlatformType, ProcessType, StateType
<1>1. forgot' <= arrived'
  <2>1. \A b \in Bridges : Larger(forgot, mark[b]) <= arrived
    BY DEF Larger, InHand
  <2>2. forgot' <= arrived
    BY <2>1, ForgotWriters DEF Transient, Fetch, Confirm
  <2>3. arrived \in Nat /\ arrived' \in Nat /\ forgot' \in Nat
    BY PlatformTypeStep, ConstantsAssumption
  <2> QED
    BY <2>2, <2>3, Monotone
<1>2. offset' <= forgot'
  <2>1. CASE PowerLoss
    <3>1. offset' \in 0..offset /\ forgot' = forgot
      BY <2>1 DEF PowerLoss, platformVars
    <3> QED
      BY <3>1, ConstantsAssumption
  <2>2. ASSUME NEW b \in Bridges, SaveOffset(b) PROVE offset' <= forgot'
    BY <2>2 DEF SaveOffset, MarkBehind, platformVars
  <2>3. CASE UNCHANGED offset
    BY <2>3, Monotone, PlatformTypeStep, ConstantsAssumption
  <2> QED
    BY <2>1, <2>2, <2>3, OffsetWriters
<1> QED
  BY <1>1, <1>2

(* The holder's batch stays between what is forgotten and what arrived.    *)
LEMMA InHandStep ==
  ASSUME Basis, NEW b \in Bridges, HolderStep(b), Next
  PROVE  InHand(b)'
<1> USE DEF Basis, TypeOK, ProcessType, PlatformType
<1>1. mark'[b] <= arrived'
  <2>1. mark'[b] \in {mark[b], 0} \/ (Ack(b) /\ mark'[b] = Larger(mark[b], cur))
    BY SMT DEF
       HolderStep, Answered, Failed, Exit, Yield, Refused, Transient, Fetch,
       Gate, StagePhoto, PhotoUnavailable, AbandonCycle, ConsultLedger,
       FindInInbox, FindInProcessed, LinkLetter, SyncInbox, RecordDelivered,
       PlacePhoto, MarkPhotoReady, RecordIndex, CurrentThread, ReadForStamp,
       StampThread, FinishDuplicate, Ack, Ring, Confirm, SaveOffset, Beat
  <2>2. Ack(b) => cur <= arrived /\ cur \in Nat
    BY ConstantsAssumption DEF Ack, InHand, InItem
  <2>3. mark[b] <= arrived /\ mark[b] \in Nat /\ arrived \in Nat /\ arrived' \in Nat
    BY PlatformTypeStep, ConstantsAssumption DEF InHand
  <2> QED
    BY <2>1, <2>2, <2>3, Monotone DEF Larger
<1>2. pc'[b] \in InItem => forgot' < cur' /\ cur' <= last' /\ last' <= arrived'
  <2>1. CASE Ack(b)
    BY <2>1, ConstantsAssumption, SMT
       DEF Ack, AfterItem, InHand, InItem, Goto, platformVars
  <2>2. CASE Fetch(b)
    <3>1. forgot' \in Nat
      BY PlatformTypeStep, ConstantsAssumption
    <3> QED
      BY <2>2, <3>1, ConstantsAssumption, SMT
         DEF Fetch, InItem, Goto
  <2>3. ASSUME ~ Ack(b), ~ Fetch(b)
        PROVE  \/ pc'[b] \notin InItem
               \/ pc[b] \in InItem /\ UNCHANGED <<platformVars, cur, last>>
    BY <2>3, SMT DEF InItem, cycleVars,
       HolderStep, Answered, Failed, Goto, Exit, Yield, Refused, Transient,
       Gate, StagePhoto, PhotoUnavailable, AbandonCycle, ConsultLedger,
       FindInInbox, FindInProcessed, LinkLetter, SyncInbox, RecordDelivered,
       PlacePhoto, MarkPhotoReady, RecordIndex, CurrentThread, ReadForStamp,
       StampThread, FinishDuplicate, Ring, Confirm, SaveOffset, Beat
  <2> QED
    BY <2>1, <2>2, <2>3 DEF InHand, platformVars
<1> QED
  BY <1>1, <1>2 DEF InHand

(* A mark about to be persisted has been transmitted.                      *)
LEMMA MarkBehindStep ==
  ASSUME Basis, NEW b \in Bridges, HolderStep(b), Next
  PROVE  MarkBehind(b)'
<1> USE DEF Basis, TypeOK, ProcessType, PlatformType
<1>0. mark[b] \in Nat /\ forgot \in Nat /\ forgot' \in Nat
  BY PlatformTypeStep, ConstantsAssumption
<1>1. CASE Confirm(b)
  BY <1>0, <1>1 DEF Confirm, MarkBehind, Larger
<1>2. CASE SaveOffset(b)
  BY <1>2 DEF SaveOffset, MarkBehind, ProcessInv, platformVars, Goto
<1>3. ASSUME ~ Confirm(b), ~ SaveOffset(b)
      PROVE  \/ pc'[b] \notin {"down", "loaded", "save", "beat"}
             \/ mark'[b] = 0
  BY <1>3, SMT DEF AfterItem,
     HolderStep, Answered, Failed, Goto, Exit, Yield, Refused, Transient,
     Fetch, Gate, StagePhoto, PhotoUnavailable, AbandonCycle, ConsultLedger,
     FindInInbox, FindInProcessed, LinkLetter, SyncInbox, RecordDelivered,
     PlacePhoto, MarkPhotoReady, RecordIndex, CurrentThread, ReadForStamp,
     StampThread, FinishDuplicate, Ack, Ring, Beat
<1> QED
  BY <1>0, <1>1, <1>2, <1>3 DEF MarkBehind

(* Every step keeps the marks of every process in order.                   *)
LEMMA MarksStep ==
  ASSUME Basis, Next, NEW a \in Bridges PROVE InHand(a)' /\ MarkBehind(a)'
<1> USE DEF Basis, TypeOK, ProcessType, PlatformType
<1>0. /\ forgot \in Nat /\ forgot' \in Nat /\ arrived \in Nat
      /\ arrived' \in Nat /\ mark[a] \in Nat /\ offset \in Nat
  BY PlatformTypeStep, ConstantsAssumption DEF StateType
<1>1. ASSUME pc'[a] = pc[a], mark'[a] = mark[a],
             pc[a] \in Idle \/ UNCHANGED <<cur, last, forgot>>
      PROVE  InHand(a)' /\ MarkBehind(a)'
  BY <1>0, <1>1, Monotone, SMT DEF InHand, MarkBehind, Idle, InItem
<1>2. ASSUME NEW b \in Bridges, HolderStep(b) PROVE InHand(a)' /\ MarkBehind(a)'
  <2>1. CASE a = b
    BY <1>2, <2>1, InHandStep, MarkBehindStep
  <2>2. CASE a # b
    BY <1>1, <1>2, <2>2, OthersIdle
  <2> QED
    BY <2>1, <2>2
<1>3. ASSUME NEW b \in Bridges, LoadOffset(b) \/ HoldLock(b) \/ Die(b)
      PROVE  InHand(a)' /\ MarkBehind(a)'
  <2>1. CASE a # b
    <3>1. pc'[a] = pc[a] /\ mark'[a] = mark[a] /\ forgot' = forgot
      BY <1>3, <2>1 DEF LoadOffset, HoldLock, Die, Exit, Goto, platformVars
    <3>2. pc[a] \in Idle \/ UNCHANGED <<cur, last>>
      BY <1>3, <2>1
         DEF LoadOffset, HoldLock, Die, Exit, OneHolder, Holding, cycleVars
    <3> QED
      BY <1>1, <3>1, <3>2
  <2>2. CASE a = b
    <3>1. pc'[a] \in {"down", "loaded", "top"}
      BY <1>3, <2>2 DEF LoadOffset, HoldLock, Die, Exit, Goto
    <3>2. mark'[a] \in {0, mark[a], offset}
      BY <1>3, <2>2 DEF LoadOffset, HoldLock, Die, Exit
    <3>3. pc'[a] # "top" => mark'[a] \in {0, offset}
      BY <1>3, <2>2 DEF LoadOffset, HoldLock, Die, Exit, Goto
    <3>4. mark'[a] <= arrived' /\ (pc'[a] # "top" => mark'[a] <= forgot')
      BY <1>0, <3>2, <3>3, Monotone DEF InHand
    <3> QED
      BY <3>1, <3>4, SMT DEF InHand, MarkBehind, InItem
  <2> QED
    BY <2>1, <2>2
<1>4. CASE World
  <2>1. UNCHANGED <<pc, mark, cur, last, forgot>>
    BY <1>4 DEF World, Arrive, EditAllowlist, Sweep, platformVars, cycleVars
  <2> QED
    BY <1>1, <2>1
<1>5. CASE PowerLoss
  <2>1. pc'[a] = "down" /\ mark'[a] = 0
    BY <1>5 DEF PowerLoss
  <2> QED
    BY <1>0, <2>1, SMT DEF InHand, MarkBehind, InItem
<1> QED
  BY <1>2, <1>3, <1>4, <1>5, SMT DEF Next, Local, HolderStep

(* The initial states satisfy it.                                          *)
LEMMA BasisInit == ASSUME Init PROVE Basis
<1> USE ConstantsAssumption DEF Init
<1>1. PlatformType /\ LetterType
  BY DEF PlatformType, LetterType, Life, Update
<1>2. StateType
  BY DEF StateType, AssetPlace
<1>3. ProcessType
  <2>1. shot \in BOOLEAN
    OBVIOUS
  <2> QED
    BY <2>1 DEF ProcessType, Steps, Idle
<1>4. HistoryType
  BY DEF HistoryType
<1>5. OneHolder /\ \A b \in Bridges : InHand(b) /\ MarkBehind(b)
  BY DEF OneHolder, Holding, Idle, InHand, MarkBehind, InItem
<1> QED
  BY <1>1, <1>2, <1>3, <1>4, <1>5 DEF Basis, TypeOK

(* Every step keeps it.                                                    *)
LEMMA BasisStep == ASSUME Basis, [Next]_vars PROVE Basis'
<1>1. CASE Next
  <2>1. OneHolder'
    BY <1>1, OneHolderStep DEF Basis
  <2> QED
    BY <1>1, <2>1, TypeStep, OffsetsStep, MarksStep DEF Basis
<1>2. CASE UNCHANGED vars
  <2>1. TypeOK'
    BY <1>2 DEF Basis, TypeOK, PlatformType, LetterType, StateType, ProcessType,
       HistoryType, vars, platformVars, letterVars, stateVars, cycleVars,
       historyVars
  <2>2. /\ OneHolder' /\ forgot' <= arrived' /\ offset' <= forgot'
        /\ \A b \in Bridges : InHand(b)' /\ MarkBehind(b)'
    BY <1>2 DEF Basis, OneHolder, Holding, InHand, MarkBehind, vars, platformVars,
       stateVars, cycleVars
  <2> QED
    BY <2>1, <2>2 DEF Basis
<1> QED
  BY <1>1, <1>2

(* It holds throughout every behaviour, whatever fails.                    *)
THEOREM BasisHolds == Spec => []Basis
  BY BasisInit, BasisStep, PTL DEF Spec

(* Every variable keeps its type, and the ledger its cap.                  *)
THEOREM TypeCorrect == Spec => []TypeOK
<1>1. Basis => TypeOK
  BY DEF Basis
<1> QED
  BY <1>1, BasisHolds, PTL

(* No restart skips mail, whatever a power failure leaves of the offset    *)
(* file.                                                                   *)
THEOREM NoMailSkipped == Spec => []OffsetBehindPlatform
<1>1. Basis => OffsetBehindPlatform
  BY DEF Basis, TypeOK, ProcessType, MarkBehind, Holding, Idle, OffsetBehindPlatform
<1> QED
  BY <1>1, BasisHolds, PTL

----------------------------------------------------------------------------
(* The heartbeat.                                                          *)

(* What the cycle has published is rung for before the platform is told.   *)
RungFirst ==
  \A b \in Bridges : pc[b] \in {"confirm", "save", "beat"} => fresh \subseteq rung

(* Every step keeps it so.                                                 *)
LEMMA RungFirstStep ==
  ASSUME Basis, RungFirst, [Next]_vars PROVE RungFirst'
<1> USE DEF Basis, TypeOK, ProcessType, RungFirst
<1>1. ASSUME NEW b \in Bridges, HolderStep(b) PROVE RungFirst'
  <2>1. \A a \in Bridges \ {b} : pc'[a] \in Idle
    BY <1>1, OthersIdle
  <2>2. pc'[b] \in {"confirm", "save", "beat"} => fresh' \subseteq rung'
    BY <1>1, SMT
       DEF
          Goto, AfterItem, Idle, InItem, cycleVars, historyVars, HolderStep,
          Answered, Failed, Exit, EndCycle, Yield, Refused, Transient, Fetch,
          Gate, StagePhoto, PhotoUnavailable, AbandonCycle, ConsultLedger,
          FindInInbox, FindInProcessed, LinkLetter, SyncInbox,
          RecordDelivered, PlacePhoto, MarkPhotoReady, RecordIndex,
          CurrentThread, ReadForStamp, StampThread, FinishDuplicate, Ack,
          Ring, Confirm, SaveOffset, Beat
  <2> QED
    BY <2>1, <2>2 DEF Idle
<1>2. ASSUME NEW b \in Bridges, LoadOffset(b) \/ HoldLock(b) \/ Die(b)
      PROVE  RungFirst'
  <2>1. /\ pc'[b] \notin {"confirm", "save", "beat"} /\ rung' = rung
        /\ \A a \in Bridges \ {b} : pc'[a] = pc[a]
    BY <1>2 DEF LoadOffset, HoldLock, Die, Exit, Goto, historyVars
  <2>2. fresh' \in {fresh, {}}
    BY <1>2 DEF LoadOffset, HoldLock, Die, Exit, EndCycle, cycleVars
  <2> QED
    BY <2>1, <2>2
<1>3. CASE World \/ UNCHANGED vars
  BY <1>3 DEF World, Arrive, EditAllowlist, Sweep, vars, cycleVars, historyVars
<1>4. CASE PowerLoss
  BY <1>4 DEF PowerLoss
<1> QED
  BY <1>1, <1>2, <1>3, <1>4, SMT DEF Next, Local, HolderStep

(* What the platform was told is saved before the cycle counts as done.    *)
SavedFirst == \A b \in Bridges : pc[b] = "beat" => mark[b] <= offset

(* A cycle with nothing to tell has nothing to save; any other saves it.   *)
LEMMA SavedFirstStep ==
  ASSUME Basis, SavedFirst, [Next]_vars PROVE SavedFirst'
<1> USE DEF Basis, TypeOK, ProcessType, SavedFirst
<1>1. ASSUME NEW b \in Bridges, HolderStep(b) PROVE SavedFirst'
  <2>1. \A a \in Bridges \ {b} : pc'[a] \in Idle
    BY <1>1, OthersIdle
  <2>2. pc'[b] = "beat" => Confirm(b) \/ SaveOffset(b)
    BY <1>1, SMT
       DEF
          Goto, AfterItem, Idle, InItem, HolderStep,
          Answered, Failed, Exit, EndCycle, Yield, Refused, Transient, Fetch,
          Gate, StagePhoto, PhotoUnavailable, AbandonCycle, ConsultLedger,
          FindInInbox, FindInProcessed, LinkLetter, SyncInbox,
          RecordDelivered, PlacePhoto, MarkPhotoReady, RecordIndex,
          CurrentThread, ReadForStamp, StampThread, FinishDuplicate, Ack,
          Ring, Beat
  <2>3. CASE Confirm(b)
    <3>1. mark' = mark /\ offset' = offset
      BY <2>3 DEF Confirm, stateVars
    <3>2. pc'[b] = "beat" => mark[b] = 0
      BY <2>3 DEF Confirm, Goto
    <3>3. 0 <= offset
      BY DEF StateType
    <3> QED
      BY <2>1, <3>1, <3>2, <3>3 DEF Idle
  <2>4. CASE SaveOffset(b)
    BY <2>1, <2>4 DEF SaveOffset, Idle
  <2> QED
    BY <2>1, <2>2, <2>3, <2>4 DEF Idle
<1>2. ASSUME NEW b \in Bridges, LoadOffset(b) \/ HoldLock(b) \/ Die(b)
      PROVE  SavedFirst'
  BY <1>2 DEF LoadOffset, HoldLock, Die, Exit, Goto, stateVars
<1>3. CASE World \/ UNCHANGED vars
  BY <1>3 DEF World, Arrive, EditAllowlist, Sweep, vars, stateVars
<1>4. CASE PowerLoss
  BY <1>4 DEF PowerLoss
<1> QED
  BY <1>1, <1>2, <1>3, <1>4, SMT DEF Next, Local, HolderStep

(* The heartbeat turns to running in one place.                            *)
LEMMA RunningWriters ==
  ASSUME [Next]_vars, health' # health, health' = "running"
  PROVE  \E b \in Bridges : Beat(b)
<1>1. ASSUME NEW b \in Bridges, HolderStep(b), ~ Beat(b)
      PROVE  health' \in {health, "yielded", "degraded"}
  BY <1>1, SMT
     DEF
        HolderStep, Answered, Failed, Exit, EndCycle, Yield, Refused,
        Transient, Fetch, Gate, StagePhoto, PhotoUnavailable, AbandonCycle,
        ConsultLedger, FindInInbox, FindInProcessed, LinkLetter, SyncInbox,
        RecordDelivered, PlacePhoto, MarkPhotoReady, RecordIndex,
        CurrentThread, ReadForStamp, StampThread, FinishDuplicate, Ack, Ring,
        Confirm, SaveOffset
<1>2. ASSUME NEW b \in Bridges, LoadOffset(b) \/ HoldLock(b) \/ Die(b)
      PROVE  health' \in {health, "starting"}
  BY <1>2 DEF LoadOffset, HoldLock, Die
<1>3. CASE World \/ PowerLoss \/ UNCHANGED vars
  BY <1>3 DEF World, Arrive, EditAllowlist, Sweep, PowerLoss, vars
<1> QED
  BY <1>1, <1>2, <1>3, SMT DEF Next, Local, HolderStep

(* The heartbeat says "running" only after the batch was rung for, the     *)
(* platform was told of it and the offset it was told is saved (run_once). *)
THEOREM HeartbeatIsHonest == Spec => HonestHeartbeat
<1> DEFINE Honest == health' # health /\ health' = "running" =>
                       \E b \in Bridges :
                         /\ Holding(b) /\ mark[b] <= forgot /\ mark[b] <= offset
                         /\ fresh \subseteq rung
<1> DEFINE Inv == RungFirst /\ SavedFirst
<1>1. Init => Inv
  BY DEF Init, RungFirst, SavedFirst
<1>2. Basis /\ Inv /\ [Next]_vars => Inv'
  BY RungFirstStep, SavedFirstStep
<1>3. Basis /\ Inv /\ [Next]_vars => [Honest]_vars
  BY RunningWriters DEF Beat, RungFirst, SavedFirst, Holding, Idle, Basis, MarkBehind
<1> HIDE DEF Inv
<1> QED
  BY <1>1, <1>2, <1>3, BasisHolds, PTL DEF Spec, HonestHeartbeat
----------------------------------------------------------------------------
(* Without torn renames every step preserves the invariant.                *)

NoTorn == "torn" \notin Faults

(* What is settled stays settled: a durable letter is not lost.            *)
LEMMA SettledStays ==
  ASSUME NoTorn, IInv, Next, NEW u \in Update, Settled(u)
  PROVE  Settled(u)'
<1> USE DEF IInv, Basis
<1>1. ASSUME Durable(u) PROVE Durable(u)'
  <2>1. ASSUME NEW b \in Bridges, LinkLetter(b) PROVE Durable(u)'
    <3>1. u # cur
      BY <1>1, <2>1 DEF LinkLetter, ProcessInv, LookedUp, Durable
    <3> QED
      BY <1>1, <2>1, <3>1
         DEF LinkLetter, Durable, HasLetter, TypeOK, LetterType
  <2>2. ASSUME NEW b \in Bridges, SyncInbox(b) \/ StampThread(b)
        PROVE  Durable(u)'
    BY <1>1, <2>2
       DEF SyncInbox, StampThread, Durable, HasLetter, TypeOK, LetterType
  <2>3. CASE PowerLoss
    BY <1>1, <2>3, SMT
       DEF PowerLoss, Durable, HasLetter, NoTorn, TypeOK, LetterType
  <2>4. CASE UNCHANGED letterVars \/ \E v \in Update : Sweep(v)
    BY <1>1, <2>4 DEF Sweep, letterVars, Durable, HasLetter
  <2> QED
    BY <2>1, <2>2, <2>3, <2>4, LetterWriters
<1> QED
  BY <1>1, Monotone DEF Settled

(* Every step keeps letters whole: on disk once, or not at all.            *)
LEMMA WholeLettersStep ==
  ASSUME NoTorn, IInv, Next PROVE WholeLetters'
<1> USE DEF IInv, Basis, TypeOK, LetterType
<1>1. ASSUME NEW b \in Bridges, LinkLetter(b) PROVE WholeLetters'
  BY <1>1, SMT
     DEF LinkLetter, ProcessInv, LookedUp, WholeLetters, HasLetter
<1>2. ASSUME NEW b \in Bridges, SyncInbox(b) \/ StampThread(b)
      PROVE  WholeLetters'
  BY <1>2, SMT
     DEF SyncInbox, StampThread, ProcessInv, LookedUp, Written, WholeLetters,
         HasLetter
<1>3. CASE PowerLoss
  BY <1>3, SMT DEF PowerLoss, NoTorn, WholeLetters, HasLetter
<1>4. CASE UNCHANGED letterVars \/ \E v \in Update : Sweep(v)
  BY <1>4 DEF Sweep, letterVars, WholeLetters, HasLetter
<1> QED
  BY <1>1, <1>2, <1>3, <1>4, LetterWriters

(* Every step keeps it that a name not yet durable is known to somebody.   *)
LEMMA LinkedIsKnownStep ==
  ASSUME NoTorn, IInv, Next PROVE LinkedIsKnown'
<1> USE DEF IInv, Basis, TypeOK, LetterType, ProcessType
<1>1. ASSUME NEW b \in Bridges, LinkLetter(b) PROVE LinkedIsKnown'
  <2>1. \A a \in Bridges : pc[a] # "sync"
    BY <1>1 DEF LinkLetter, OneHolder, Holding, Idle
  <2> QED
    BY <1>1, <2>1 DEF LinkLetter, LinkedIsKnown, Goto, cycleVars, historyVars
<1>2. ASSUME NEW b \in Bridges, SyncInbox(b) PROVE LinkedIsKnown'
  <2>1. \A a \in Bridges : pc[a] = "sync" => a = b
    BY <1>2 DEF SyncInbox, OneHolder, Holding, Idle
  <2> QED
    BY <1>2, <2>1 DEF SyncInbox, LinkedIsKnown, Goto, historyVars
<1>3. ASSUME NEW b \in Bridges, HolderStep(b), ~ LinkLetter(b), ~ SyncInbox(b)
      PROVE  LinkedIsKnown'
  <2>1. pc[b] # "sync"
    BY <1>3, SMT DEF InItem,
       HolderStep, Answered, Failed, Yield, Refused, Transient, Fetch, Gate,
       StagePhoto, PhotoUnavailable, AbandonCycle, ConsultLedger,
       FindInInbox, FindInProcessed, RecordDelivered, PlacePhoto,
       MarkPhotoReady, RecordIndex, CurrentThread, ReadForStamp,
       StampThread, FinishDuplicate, Ack, Ring, Confirm, SaveOffset, Beat
  <2>2. \A a \in Bridges : pc[a] # "sync"
    BY <1>3, <2>1, HolderMoves DEF OneHolder, Holding, Idle
  <2>3. \A u \in Update : life'[u] = "linked" => life[u] = "linked"
    BY <1>3, SMT DEF letterVars,
       HolderStep, Answered, Failed, Yield, Refused, Transient, Fetch, Gate,
       StagePhoto, PhotoUnavailable, AbandonCycle, ConsultLedger,
       FindInInbox, FindInProcessed, RecordDelivered, PlacePhoto,
       MarkPhotoReady, RecordIndex, CurrentThread, ReadForStamp,
       StampThread, FinishDuplicate, Ack, Ring, Confirm, SaveOffset, Beat
  <2> QED
    BY <1>3, <2>2, <2>3, Monotone DEF LinkedIsKnown
<1>4. ASSUME NEW b \in Bridges, LoadOffset(b) \/ HoldLock(b)
      PROVE  LinkedIsKnown'
  <2>1. UNCHANGED <<life, cur, interrupted>> \/ \A a \in Bridges : pc[a] # "sync"
    BY <1>4 DEF LoadOffset, HoldLock, Exit, letterVars, cycleVars, historyVars,
                Holding, Idle
  <2>2. UNCHANGED <<life, interrupted>>
    BY <1>4 DEF LoadOffset, HoldLock, letterVars, historyVars
  <2>3. \A a \in Bridges : pc[a] = "sync" => pc'[a] = "sync"
    BY <1>4 DEF LoadOffset, HoldLock, Exit, Goto
  <2> QED
    BY <2>1, <2>2, <2>3 DEF LinkedIsKnown
<1>5. ASSUME NEW b \in Bridges, Die(b) PROVE LinkedIsKnown'
  <2>1. \A a \in Bridges : pc[a] = "sync" /\ a # b => pc'[a] = "sync" /\ cur' = cur
    BY <1>5 DEF Die, Exit, Goto, OneHolder, Holding, Idle, cycleVars
  <2> QED
    BY <1>5, <2>1 DEF Die, LinkedIsKnown, Interrupted, letterVars
<1>6. CASE World
  BY <1>6 DEF World, Arrive, EditAllowlist, Sweep, letterVars, cycleVars,
              historyVars, LinkedIsKnown
<1>7. CASE PowerLoss
  BY <1>7, SMT DEF PowerLoss, LinkedIsKnown, Interrupted
<1> QED
  BY <1>1, <1>2, <1>3, <1>4, <1>5, <1>6, <1>7, SMT DEF Next, Local, HolderStep

(* A letter the holder finds on disk is settled, unless it is the one it   *)
(* has just linked itself.                                                 *)
LEMMA FoundIsSettled ==
  ASSUME IInv, NEW b \in Bridges, Holding(b), pc[b] # "sync",
         NEW u \in Update, HasLetter(u) \/ (pc[b] \in Written /\ u = cur)
  PROVE  Settled(u)
<1> USE DEF IInv, Basis
<1>1. \A a \in Bridges : pc[a] # "sync"
  BY DEF OneHolder, Holding, Idle
<1>2. HasLetter(u) /\ life[u] \in {"linked", "synced", "rewritten"}
  BY DEF ProcessInv, LookedUp, WholeLetters, TypeOK, LetterType, Life
<1> QED
  BY <1>1, <1>2 DEF LinkedIsKnown, Settled, Durable

(* Every step keeps the invariant's part about the disk.                   *)
LEMMA DiskInvStep ==
  ASSUME NoTorn, IInv, Next PROVE DiskInv'
<1> USE DEF IInv, Basis, TypeOK, PlatformType, ProcessType, StateType
<1>1. SettledTo(forgot)'
  <2>1. \A u \in Update : u <= forgot' => Settled(u)
    BY ForgotWriters
       DEF Transient, Fetch, Confirm, Larger, DiskInv, ProcessInv,
           SettledFirst, SettledTo
  <2> QED
    BY <2>1, SettledStays DEF SettledTo
<1>2. \A u \in ToSet(ledger') : Settled(u)'
  <2>1. \A u \in ToSet(ledger') : u \in Update /\ Settled(u)
    <3>1. CASE PowerLoss
      BY <3>1, SMT DEF PowerLoss, DiskInv, ToSet
    <3>2. ASSUME NEW b \in Bridges,
                 FindInInbox(b) \/ FindInProcessed(b) \/ RecordDelivered(b)
          PROVE  \A u \in ToSet(ledger') : u \in Update /\ Settled(u)
      <4>1. cur \in Update
        BY <3>2, ConstantsAssumption
           DEF FindInInbox, FindInProcessed, RecordDelivered, ProcessInv,
               InHand, InItem, Update
      <4>2. ledger' = ledger \/ (Settled(cur) /\ ledger' = Record(ledger, cur))
        <5>1. CASE RecordDelivered(b)
          BY <5>1, <4>1, FoundIsSettled DEF RecordDelivered, Written, Holding, Idle
        <5>2. CASE FindInInbox(b) \/ FindInProcessed(b)
          <6>1. \/ UNCHANGED ledger
                \/ HasLetter(cur) /\ ledger' = Record(ledger, cur)
            BY <5>2 DEF FindInInbox, FindInProcessed, Readable, HasLetter
          <6>2. Holding(b) /\ pc[b] # "sync"
            BY <5>2 DEF FindInInbox, FindInProcessed, Holding, Idle
          <6>3. HasLetter(cur) => Settled(cur)
            BY <6>2, <4>1, FoundIsSettled
          <6> QED
            BY <6>1, <6>3
        <5> QED
          BY <3>2, <5>1, <5>2
      <4>3. \A u \in ToSet(ledger) : u \in Update /\ Settled(u)
        BY DEF DiskInv, ToSet
      <4>4. ToSet(Record(ledger, cur)) \subseteq ToSet(ledger) \cup {cur}
        BY <4>1, RecordIn
      <4> QED
        BY <4>1, <4>2, <4>3, <4>4
    <3>3. CASE UNCHANGED ledger
      BY <3>3 DEF DiskInv, ToSet
    <3> QED
      BY <3>1, <3>2, <3>3, LedgerWriters
  <2> QED
    BY <2>1, SettledStays
<1> QED
  BY <1>1, <1>2 DEF DiskInv

(* A process outside the lock, or one whose batch nobody moves, keeps its  *)
(* part of the invariant.                                                  *)
LEMMA Bystander ==
  ASSUME NoTorn, IInv, Next, NEW a \in Bridges,
         pc'[a] = pc[a], mark'[a] = mark[a],
         \/ pc[a] \in Idle
         \/ /\ UNCHANGED <<cur, last, forgot, life>>
            /\ inbox' \subseteq inbox
            /\ inbox' \cup processed' = inbox \cup processed
  PROVE  ProcessInv(a)'
<1> USE DEF IInv, Basis, TypeOK, ProcessType, PlatformType
<1>1. SettledFirst(a)'
  <2>1. SettledTo(mark[a])'
    BY SettledStays DEF ProcessInv, SettledFirst, SettledTo
  <2>2. ASSUME pc[a] \in InItem
        PROVE  /\ cur' = cur /\ cur \in Update
               /\ SettledTo(cur - 1) /\ (pc[a] \in {"duplicate", "ack"} => Settled(cur))
    BY <2>2, ConstantsAssumption
       DEF ProcessInv, SettledFirst, InHand, Idle, InItem, Update
  <2>3. ASSUME pc[a] \in InItem
        PROVE  /\ SettledTo(cur - 1)'
               /\ pc[a] \in {"duplicate", "ack"} => Settled(cur)'
    BY <2>2, <2>3, SettledStays DEF SettledTo
  <2> QED
    BY <2>1, <2>3 DEF SettledFirst, InItem
<1>2. LookedUp(a)'
  BY SMT DEF ProcessInv, LookedUp, Idle, Written, HasLetter
<1> QED
  BY <1>1, <1>2 DEF ProcessInv

(* Each step of the holder prepares the next one.                          *)
LEMMA LookedUpStep ==
  ASSUME NoTorn, IInv, NEW b \in Bridges, HolderStep(b)
  PROVE  LookedUp(b)'
<1> USE DEF IInv, Basis, TypeOK, ProcessType, LetterType
<1>0. pc[b] \in Written => cur \in Update
  BY ConstantsAssumption DEF ProcessInv, InHand, InItem, Written, PlatformType, Update
<1>1. CASE FindInInbox(b) \/ FindInProcessed(b)
  BY <1>1, SMT
     DEF FindInInbox, FindInProcessed, ProcessInv, LookedUp, Readable,
         WholeLetters, HasLetter, Written, Goto, letterVars, cycleVars
<1>2. CASE LinkLetter(b) \/ SyncInbox(b) \/ StampThread(b)
  BY <1>0, <1>2, SMT
     DEF LinkLetter, SyncInbox, StampThread, ProcessInv, LookedUp, HasLetter,
         Written, Goto, cycleVars
<1>3. CASE \/ RecordDelivered(b) \/ PlacePhoto(b) \/ MarkPhotoReady(b)
           \/ RecordIndex(b) \/ CurrentThread(b) \/ ReadForStamp(b)
  BY <1>3, SMT
     DEF RecordDelivered, PlacePhoto, MarkPhotoReady, RecordIndex,
         CurrentThread, ReadForStamp, ProcessInv, LookedUp, HasLetter, Written,
         Goto, Exit, letterVars, cycleVars
<1>4. ASSUME ~ (FindInInbox(b) \/ FindInProcessed(b) \/ LinkLetter(b)),
             ~ (SyncInbox(b) \/ StampThread(b) \/ RecordDelivered(b)),
             ~ (PlacePhoto(b) \/ MarkPhotoReady(b) \/ RecordIndex(b)),
             ~ (CurrentThread(b) \/ ReadForStamp(b))
      PROVE  pc'[b] \notin Written \cup {"findProcessed", "link"}
  BY <1>4, SMT DEF Written, AfterItem,
     HolderStep, Answered, Failed, Goto, Exit, Yield, Refused, Transient,
     Fetch, Gate, StagePhoto, PhotoUnavailable, AbandonCycle, ConsultLedger,
     FinishDuplicate, Ack, Ring, Confirm, SaveOffset, Beat
<1> QED
  BY <1>1, <1>2, <1>3, <1>4 DEF LookedUp

(* The holder marks and passes over only what is settled.                  *)
LEMMA SettledFirstStep ==
  ASSUME NoTorn, IInv, NEW b \in Bridges, HolderStep(b), Next
  PROVE  SettledFirst(b)'
<1> USE DEF IInv, Basis, TypeOK, ProcessType, PlatformType
<1>1. SettledTo(mark'[b])
  <2>1. mark'[b] \in {mark[b], 0} \/ (Ack(b) /\ mark'[b] = Larger(mark[b], cur))
    BY SMT DEF
       HolderStep, Answered, Failed, Exit, Yield, Refused, Transient, Fetch,
       Gate, StagePhoto, PhotoUnavailable, AbandonCycle, ConsultLedger,
       FindInInbox, FindInProcessed, LinkLetter, SyncInbox, RecordDelivered,
       PlacePhoto, MarkPhotoReady, RecordIndex, CurrentThread, ReadForStamp,
       StampThread, FinishDuplicate, Ack, Ring, Confirm, SaveOffset, Beat
  <2>2. ASSUME Ack(b) PROVE SettledTo(cur)
    BY <2>2, ConstantsAssumption
       DEF Ack, ProcessInv, SettledFirst, SettledTo, InItem, Update
  <2>3. SettledTo(0)
    BY ConstantsAssumption DEF SettledTo, Update
  <2> QED
    BY <2>1, <2>2, <2>3 DEF ProcessInv, SettledFirst, Larger
<1>2. pc'[b] \in InItem => SettledTo(cur' - 1)
  <2>1. CASE Ack(b)
    BY <2>1, ConstantsAssumption
       DEF Ack, ProcessInv, SettledFirst, SettledTo, InItem, Update
  <2>2. CASE Fetch(b)
    <3>1. cur' - 1 = forgot'
      BY <2>2, PlatformTypeStep, ConstantsAssumption DEF Fetch
    <3>2. forgot' \in {forgot, mark[b]}
      BY <2>2 DEF Fetch, Larger
    <3> QED
      BY <3>1, <3>2 DEF DiskInv, ProcessInv, SettledFirst
  <2>3. ASSUME ~ Ack(b), ~ Fetch(b)
        PROVE  pc'[b] \in InItem => pc[b] \in InItem /\ UNCHANGED cur
    BY <2>3, SMT DEF InItem, cycleVars,
       HolderStep, Answered, Failed, Goto, Exit, Yield, Refused, Transient,
       Gate, StagePhoto, PhotoUnavailable, AbandonCycle, ConsultLedger,
       FindInInbox, FindInProcessed, LinkLetter, SyncInbox, RecordDelivered,
       PlacePhoto, MarkPhotoReady, RecordIndex, CurrentThread, ReadForStamp,
       StampThread, FinishDuplicate, Ring, Confirm, SaveOffset, Beat
  <2> QED
    BY <2>1, <2>2, <2>3 DEF ProcessInv, SettledFirst
<1>3. ASSUME pc'[b] \in {"duplicate", "ack"}
      PROVE  Settled(cur)'
  <2>1. InHand(b)'
    BY InHandStep
  <2>2. cur' \in Update
    BY <1>3, <2>1, ProcessTypeStep, PlatformTypeStep, ConstantsAssumption
       DEF InHand, InItem, Update
  <2>3. CASE Gate(b)
    BY <1>3, <2>3, SMT DEF Gate, Settled, Durable, HasLetter, Goto, cycleVars
  <2>4. ASSUME UNCHANGED cur, Settled(cur) PROVE Settled(cur)'
    <3>1. \A u \in Update : Settled(u) => Settled(u)'
      BY SettledStays
    <3> QED
      BY <2>2, <2>4, <3>1 DEF Settled, Durable, HasLetter
  <2>5. ASSUME UNCHANGED cur, HasLetter(cur), pc[b] # "sync"
        PROVE  Settled(cur)'
    <3>1. cur \in Update /\ Holding(b)
      BY <2>2, <2>5, HolderMoves
    <3> QED
      BY <2>4, <2>5, <3>1, FoundIsSettled
  <2>6. CASE ConsultLedger(b)
    BY <1>3, <2>4, <2>6 DEF ConsultLedger, DiskInv, Exit, Goto
  <2>7. CASE FindInInbox(b) \/ FindInProcessed(b)
    BY <1>3, <2>5, <2>7
       DEF FindInInbox, FindInProcessed, Readable, HasLetter, Goto, cycleVars
  <2>8. CASE StampThread(b)
    BY <2>5, <2>8 DEF StampThread, ProcessInv, LookedUp, Written, cycleVars
  <2>9. CASE FinishDuplicate(b)
    BY <2>4, <2>9 DEF FinishDuplicate, ProcessInv, SettledFirst, cycleVars
  <2>10. \/ Gate(b) \/ ConsultLedger(b) \/ FindInInbox(b)
         \/ FindInProcessed(b) \/ StampThread(b) \/ FinishDuplicate(b)
    BY <1>3, SMT DEF AfterItem,
       HolderStep, Answered, Failed, Goto, Exit, Yield, Refused, Transient,
       Fetch, StagePhoto, PhotoUnavailable, AbandonCycle, LinkLetter,
       SyncInbox, RecordDelivered, PlacePhoto, MarkPhotoReady, RecordIndex,
       CurrentThread, ReadForStamp, Ack, Ring, Confirm, SaveOffset, Beat
  <2> QED
    BY <2>2, <2>3, <2>6, <2>7, <2>8, <2>9, <2>10
<1> QED
  BY <1>1, <1>2, <1>3, SettledStays DEF SettledFirst, SettledTo

(* Every step keeps the invariant's part about the processes.              *)
LEMMA ProcessInvStep ==
  ASSUME NoTorn, IInv, Next, NEW a \in Bridges
  PROVE  ProcessInv(a)'
<1> USE DEF IInv, Basis, TypeOK, ProcessType
<1>1. ASSUME NEW b \in Bridges, HolderStep(b) PROVE ProcessInv(a)'
  <2>1. CASE a = b
    BY <1>1, <2>1, LookedUpStep, SettledFirstStep
       DEF ProcessInv
  <2>2. CASE a # b
    BY <1>1, <2>2, OthersIdle, Bystander
  <2> QED
    BY <2>1, <2>2
<1>2. ASSUME NEW b \in Bridges, LoadOffset(b) \/ HoldLock(b) \/ Die(b)
      PROVE  ProcessInv(a)'
  <2>1. CASE a # b
    <3>1. pc'[a] = pc[a] /\ mark'[a] = mark[a]
      BY <1>2, <2>1 DEF LoadOffset, HoldLock, Die, Exit, Goto
    <3>2. UNCHANGED <<forgot, life, inbox, processed>>
      BY <1>2 DEF LoadOffset, HoldLock, Die, platformVars, letterVars
    <3>3. pc[a] \in Idle \/ UNCHANGED <<cur, last>>
      BY <1>2, <2>1
         DEF LoadOffset, HoldLock, Die, Exit, OneHolder, Holding, cycleVars
    <3> QED
      BY <3>1, <3>2, <3>3, Bystander
  <2>2. CASE a = b
    <3>1. pc'[a] \in {"down", "loaded", "top"}
      BY <1>2, <2>2 DEF LoadOffset, HoldLock, Die, Exit, Goto
    <3>2. mark'[a] \in {0, mark[a], offset}
      BY <1>2, <2>2 DEF LoadOffset, HoldLock, Die, Exit
    <3>3. SettledTo(mark'[a])
      BY <3>2, ConstantsAssumption
         DEF ProcessInv, SettledFirst, DiskInv, SettledTo, Update, PlatformType,
             StateType
    <3>4. SettledTo(mark[a])'
      BY <3>3, SettledStays DEF SettledTo
    <3> QED
      BY <3>1, <3>4, SMT DEF ProcessInv, LookedUp, SettledFirst, Written, InItem
  <2> QED
    BY <2>1, <2>2
<1>3. CASE World
  <2>1. /\ UNCHANGED <<pc, mark, cur, last, forgot, life>>
        /\ inbox' \subseteq inbox
        /\ inbox' \cup processed' = inbox \cup processed
    BY <1>3 DEF World, Arrive, EditAllowlist, Sweep, platformVars, letterVars,
                cycleVars
  <2> QED
    BY <2>1, Bystander
<1>4. CASE PowerLoss
  <2>1. pc'[a] = "down" /\ mark'[a] = 0
    BY <1>4 DEF PowerLoss
  <2>2. SettledTo(0)'
    BY ConstantsAssumption DEF SettledTo, Update
  <2> QED
    BY <2>1, <2>2, SMT DEF ProcessInv, LookedUp, SettledFirst, Written, InItem
<1> QED
  BY <1>1, <1>2, <1>3, <1>4, SMT DEF Next, Local, HolderStep

(* The initial states satisfy the invariant.                               *)
LEMMA IInvInit == ASSUME Init PROVE IInv
<1>1. WholeLetters /\ LinkedIsKnown
  BY DEF Init, WholeLetters, LinkedIsKnown, HasLetter
<1>2. DiskInv /\ \A b \in Bridges : ProcessInv(b)
  BY ConstantsAssumption
     DEF Init, DiskInv, ProcessInv, LookedUp, SettledFirst, SettledTo, Written, InItem,
         Update, ToSet
<1> QED
  BY <1>1, <1>2, BasisInit DEF IInv

(* Every step keeps it, when a power failure tears no letter.              *)
LEMMA IInvStep == ASSUME NoTorn, IInv, [Next]_vars PROVE IInv'
<1>0. Basis'
  BY BasisStep DEF IInv
<1>1. CASE Next
  BY <1>0, <1>1, WholeLettersStep, LinkedIsKnownStep, DiskInvStep, ProcessInvStep
     DEF IInv
<1>2. CASE UNCHANGED vars
  <2>1. WholeLetters' /\ LinkedIsKnown'
    BY <1>2 DEF IInv, WholeLetters, HasLetter, LinkedIsKnown, vars, letterVars,
       cycleVars, historyVars
  <2>2. DiskInv' /\ \A b \in Bridges : ProcessInv(b)'
    BY <1>2 DEF IInv, DiskInv, ProcessInv, LookedUp, SettledFirst, SettledTo, Settled,
       Durable, HasLetter, vars, platformVars, letterVars, stateVars, cycleVars,
       historyVars
  <2> QED
    BY <1>0, <2>1, <2>2 DEF IInv
<1> QED
  BY <1>1, <1>2

(* The inductive invariant holds throughout every behaviour.               *)
THEOREM Invariance == ASSUME NoTorn PROVE Spec => []IInv
<1>1. Init => IInv
  BY IInvInit
<1>2. IInv /\ [Next]_vars => IInv'
  BY IInvStep
<1> QED
  BY <1>1, <1>2, PTL DEF Spec

----------------------------------------------------------------------------
(* What follows from it.                                                   *)

(* publish_once writes no second letter for an update.                     *)
THEOREM NoSecondLetter == ASSUME NoTorn PROVE Spec => []AtMostOneLetter
<1>1. IInv => AtMostOneLetter
  BY DEF IInv, WholeLetters, AtMostOneLetter
<1> QED
  BY <1>1, Invariance, PTL

(* Nothing the platform has forgotten is lost, crashes and power failures  *)
(* included.                                                               *)
THEOREM NothingLost == ASSUME NoTorn PROVE Spec => []ForgottenIsKept
<1>1. IInv => ForgottenIsKept
  BY DEF IInv, DiskInv, SettledTo, Settled, ForgottenIsKept
<1> QED
  BY <1>1, Invariance, PTL

----------------------------------------------------------------------------
(* As long as the power holds, the bridge implements the mailbox.          *)

NoPowerLoss == NoTorn /\ "power" \notin Faults

(* Then a letter whose publisher died is still there.                      *)
InterruptedKept == \A u \in interrupted : HasLetter(u)

(* Only the gate denies.                                                   *)
LEMMA DeniedWriters ==
  ASSUME Next
  PROVE  \/ UNCHANGED denied
         \/ \E b \in Bridges : Gate(b)
<1>1. CASE World
  BY <1>1, SMT DEF World, Arrive, EditAllowlist, Sweep, historyVars
<1>2. ASSUME NEW b \in Bridges, HolderStep(b)
      PROVE  UNCHANGED denied \/ Gate(b)
  BY <1>2, SMT DEF
     HolderStep, Answered, Failed, Exit, EndCycle, Yield, Refused,
     Transient, Fetch, StagePhoto, PhotoUnavailable, AbandonCycle,
     ConsultLedger, FindInInbox, FindInProcessed, LinkLetter, SyncInbox,
     RecordDelivered, PlacePhoto, MarkPhotoReady, RecordIndex,
     CurrentThread, ReadForStamp, StampThread, FinishDuplicate, Ack,
     Ring, Confirm, SaveOffset, Beat, historyVars
<1>3. ASSUME NEW b \in Bridges, LoadOffset(b) \/ HoldLock(b) \/ Die(b)
      PROVE  UNCHANGED denied
  BY <1>3, SMT DEF Exit, EndCycle, LoadOffset, HoldLock, Die, historyVars
<1>4. CASE PowerLoss
  BY <1>4 DEF PowerLoss, historyVars
<1> QED
  BY <1>1, <1>2, <1>3, <1>4, SMT DEF Next, Local, HolderStep

(* Only a death interrupts.                                                *)
LEMMA InterruptedWriters ==
  ASSUME Next
  PROVE  \/ UNCHANGED interrupted
         \/ \E b \in Bridges : Die(b)
         \/ PowerLoss
<1>1. CASE World
  BY <1>1, SMT DEF World, Arrive, EditAllowlist, Sweep, historyVars
<1>2. ASSUME NEW b \in Bridges, HolderStep(b)
      PROVE  UNCHANGED interrupted
  BY <1>2, SMT DEF
     HolderStep, Answered, Failed, Exit, EndCycle, Yield, Refused,
     Transient, Fetch, Gate, StagePhoto, PhotoUnavailable, AbandonCycle,
     ConsultLedger, FindInInbox, FindInProcessed, LinkLetter, SyncInbox,
     RecordDelivered, PlacePhoto, MarkPhotoReady, RecordIndex,
     CurrentThread, ReadForStamp, StampThread, FinishDuplicate, Ack,
     Ring, Confirm, SaveOffset, Beat, historyVars
<1>3. ASSUME NEW b \in Bridges, LoadOffset(b) \/ HoldLock(b) \/ Die(b)
      PROVE  UNCHANGED interrupted \/ Die(b)
  BY <1>3, SMT DEF Exit, EndCycle, LoadOffset, HoldLock, historyVars
<1> QED
  BY <1>1, <1>2, <1>3, SMT DEF Next, Local, HolderStep

(* A letter that has been written stays, when the power holds.             *)
LEMMA LettersStay ==
  ASSUME NoPowerLoss, IInv, Next, NEW u \in Update, HasLetter(u)
  PROVE  HasLetter(u)'
<1>1. ~ PowerLoss
  BY DEF NoPowerLoss, PowerLoss
<1> QED
  BY <1>1, LetterWriters
     DEF Sweep, LinkLetter, SyncInbox, StampThread, letterVars, HasLetter

(* An update that a death interrupted has its letter.                      *)
LEMMA InterruptedKeptStep ==
  ASSUME NoPowerLoss, IInv, InterruptedKept, Next PROVE InterruptedKept'
<1> USE DEF IInv, Basis, TypeOK, HistoryType
<1>1. ~ PowerLoss
  BY DEF NoPowerLoss, PowerLoss
<1>2. \A u \in interrupted' : u \in Update /\ HasLetter(u)
  <2>1. CASE UNCHANGED interrupted
    BY <2>1 DEF InterruptedKept
  <2>2. ASSUME NEW b \in Bridges, Die(b)
        PROVE  \A u \in interrupted' : u \in Update /\ HasLetter(u)
    BY <2>2 DEF Die, Interrupted, InterruptedKept, WholeLetters
  <2> QED
    BY <1>1, <2>1, <2>2, InterruptedWriters
<1> QED
  BY <1>2, LettersStay DEF InterruptedKept

(* Every step of the bridge is a step of the mailbox, or none.             *)
LEMMA PromiseStep ==
  ASSUME NoPowerLoss, IInv, InterruptedKept, [Next]_vars
  PROVE  [Promise!Next]_(Promise!mailboxVars)
<1> DEFINE letters == inbox \cup processed
<1> USE DEF IInv, Basis, TypeOK, Promise!mailboxVars
<1>1. CASE UNCHANGED vars
  BY <1>1 DEF vars, platformVars, letterVars, historyVars
<1>2. CASE Next
  <2>1. ~ PowerLoss
    BY DEF NoPowerLoss, PowerLoss
  <2>2. CASE Arrive
    BY <2>2 DEF Arrive, letterVars, historyVars, Promise!Next, Promise!Offer
  <2>3. ASSUME NEW b \in Bridges, Gate(b)
        PROVE  [Promise!Next]_(Promise!mailboxVars)
    <3>1. cur \in 1..NumUpdates /\ forgot < cur /\ cur <= arrived
      BY <2>3, ConstantsAssumption
         DEF Gate, ProcessInv, InHand, InItem, ProcessType, PlatformType
    <3>2. UNCHANGED <<arrived, forgot, letters>>
      BY <2>3 DEF Gate, platformVars, letterVars
    <3>3. UNCHANGED denied \/ denied' = denied \cup {cur}
      BY <2>3 DEF Gate
    <3> QED
      BY <3>1, <3>2, <3>3 DEF Promise!Next, Promise!Refuse, Promise!Waiting
  <2>4. ASSUME NEW b \in Bridges, LinkLetter(b)
        PROVE  [Promise!Next]_(Promise!mailboxVars)
    <3>1. cur \in 1..NumUpdates /\ forgot < cur /\ cur <= arrived
      BY <2>4, ConstantsAssumption
         DEF LinkLetter, ProcessInv, InHand, InItem, ProcessType, PlatformType
    <3>2. UNCHANGED <<arrived, forgot, denied>>
      BY <2>4 DEF LinkLetter, platformVars, historyVars
    <3>3. cur \notin letters /\ letters' = letters \cup {cur}
      BY <2>4 DEF LinkLetter, ProcessInv, LookedUp, HasLetter
    <3> QED
      BY <3>1, <3>2, <3>3 DEF Promise!Next, Promise!Keep, Promise!Waiting
  <2>5. ASSUME NEW b \in Bridges, Transient(b) \/ Fetch(b) \/ Confirm(b)
        PROVE  [Promise!Next]_(Promise!mailboxVars)
    <3>1. UNCHANGED <<arrived, letters, denied>>
      BY <2>5 DEF Transient, Fetch, Confirm, letterVars, historyVars
    <3>2. forgot' = forgot \/ (forgot < mark[b] /\ forgot' = mark[b])
      BY <2>5, ConstantsAssumption
         DEF Transient, Fetch, Confirm, Larger, PlatformType, ProcessType
    <3>3. mark[b] <= arrived /\ mark[b] \in 0..NumUpdates /\ forgot \in Nat
      BY ConstantsAssumption
         DEF ProcessInv, InHand, ProcessType, PlatformType
    <3>4. \A u \in 1..mark[b] : u \in letters \cup denied
      BY <3>3, ConstantsAssumption
         DEF ProcessInv, SettledFirst, SettledTo, Settled, Durable, HasLetter,
             InterruptedKept, Update
    <3>5. CASE forgot < mark[b] /\ forgot' = mark[b]
      <4>1. mark[b] \in 1..NumUpdates
        BY <3>3, <3>5, ConstantsAssumption
      <4> QED
        BY <3>1, <3>3, <3>4, <3>5, <4>1
           DEF Promise!Next, Promise!Forget, Promise!Waiting
    <3> QED
      BY <3>1, <3>2, <3>5
  <2>6. ASSUME UNCHANGED <<arrived, forgot, denied>>,
               ~ \E b \in Bridges : LinkLetter(b)
        PROVE  UNCHANGED <<arrived, letters, denied, forgot>>
    <3>1. ASSUME NEW b \in Bridges, StampThread(b) PROVE UNCHANGED letters
      BY <3>1 DEF StampThread, ProcessInv, LookedUp, Written, HasLetter
    <3>2. ASSUME NEW u \in Update, Sweep(u) PROVE UNCHANGED letters
      BY <3>2 DEF Sweep
    <3>3. ASSUME NEW b \in Bridges, SyncInbox(b) PROVE UNCHANGED letters
      BY <3>3 DEF SyncInbox
    <3>4. ASSUME UNCHANGED letterVars PROVE UNCHANGED letters
      <4>1. inbox' = inbox /\ processed' = processed
        BY <3>4 DEF letterVars
      <4> QED
        BY <4>1
    <3>5. \/ UNCHANGED letterVars \/ \E u \in Update : Sweep(u)
          \/ \E b \in Bridges : SyncInbox(b) \/ StampThread(b)
      BY <1>2, <2>1, <2>6, LetterWriters
    <3>6. UNCHANGED letters
      <4> HIDE DEF letters
      <4> QED
        BY <3>1, <3>2, <3>3, <3>4, <3>5
    <3> QED
      BY <2>6, <3>6
  <2>7. UNCHANGED arrived \/ Arrive
    BY <1>2, WorldWriters DEF EditAllowlist, platformVars
  <2> QED
    BY <1>2, <2>2, <2>3, <2>4, <2>5, <2>6, <2>7, ForgotWriters, DeniedWriters
<1> QED
  BY <1>1, <1>2

(* Without a power failure the inbound half keeps the mailbox's promise:   *)
(* deaths of the process, retries, redeliveries, late sweeps and a second  *)
(* bridge notwithstanding.                                                 *)
THEOREM PromiseKept == ASSUME NoPowerLoss PROVE Spec => MailboxPromise
<1> DEFINE Inv == IInv /\ InterruptedKept
<1>1. Init => Inv /\ Promise!Init
  BY IInvInit DEF Init, InterruptedKept, Promise!Init
<1>2. Inv /\ [Next]_vars => Inv'
  <2>1. ASSUME IInv, InterruptedKept, UNCHANGED vars PROVE InterruptedKept'
    BY <2>1 DEF InterruptedKept, HasLetter, vars, letterVars, historyVars
  <2> QED
    BY <2>1, IInvStep, InterruptedKeptStep DEF NoPowerLoss
<1>3. Inv /\ [Next]_vars => [Promise!Next]_(Promise!mailboxVars)
  BY PromiseStep
<1> QED
  BY <1>1, <1>2, <1>3, PTL DEF Spec, MailboxPromise, Promise!Spec

----------------------------------------------------------------------------
(* The threads.  Whatever a thread: line, a pointer or an aim names is a   *)
(* durable letter of the same chat that belongs to no other thread; and no *)
(* letter is named before its own stamp is decided.                        *)

Root(r, c) ==
  /\ r \in Update /\ From[r] = c /\ Durable(r)
  /\ thread[r] \in {0, r} /\ born[r] \in {0, r}

Rooted ==
  /\ \A u \in Update :
       HasLetter(u) =>
         /\ thread[u] # 0 => Root(thread[u], From[u])
         /\ born[u] # 0 => thread[u] = born[u]
  /\ \A c \in Chats : pointer[c] # 0 => Root(pointer[c], c)
  /\ \A u \in index : Durable(u)

(* Where the thread of the update in hand is known to be that of a reply.  *)
Aiming == {"findInbox", "findProcessed", "link"} \cup Written

(* The update in hand, whose letter no thread leads to before it has its   *)
(* own.                                                                    *)
Unled == /\ \A u \in Update : HasLetter(u) => thread[u] # cur
         /\ aim # cur => \A c \in Chats : pointer[c] # cur

Stamping(b) ==
  /\ pc[b] \in Aiming /\ aim # 0 => Root(aim, From[cur])
  /\ pc[b] = "pointer" => aim = 0
  /\ pc[b] \in Written =>
       /\ thread[cur] = born[cur] /\ Unled
       /\ IF pc[b] \in {"stamp", "replace"}
            THEN aim # 0 /\ (born[cur] # 0 => aim = born[cur])
            ELSE born[cur] = aim

Threaded == Rooted /\ \A b \in Bridges : Stamping(b)

(* A reply answers an update of its own chat.                              *)
LEMMA RepliesInChat ==
  ASSUME NEW u \in Update, ReplyTo[u] # 0 PROVE From[ReplyTo[u]] = From[u]
BY ConstantsAssumption

(* A durable letter stays one.                                             *)
LEMMA DurableStays ==
  ASSUME NoTorn, IInv, Next, NEW u \in Update, Durable(u)
  PROVE  Durable(u)'
<1> USE DEF IInv, Basis
<1>1. ASSUME NEW b \in Bridges, LinkLetter(b) PROVE Durable(u)'
  <2>1. u # cur
    BY <1>1 DEF LinkLetter, ProcessInv, LookedUp, Durable
  <2> QED
    BY <1>1, <2>1 DEF LinkLetter, Durable, HasLetter, TypeOK, LetterType
<1>2. ASSUME NEW b \in Bridges, SyncInbox(b) \/ StampThread(b)
      PROVE  Durable(u)'
  BY <1>2 DEF SyncInbox, StampThread, Durable, HasLetter, TypeOK, LetterType
<1>3. CASE PowerLoss
  BY <1>3, SMT DEF PowerLoss, Durable, HasLetter, NoTorn, TypeOK, LetterType
<1>4. CASE UNCHANGED letterVars \/ \E v \in Update : Sweep(v)
  BY <1>4 DEF Sweep, letterVars, Durable, HasLetter
<1> QED
  BY <1>1, <1>2, <1>3, <1>4, LetterWriters

(* How the thread: lines of a letter may change.                           *)
LEMMA LineWriters ==
  ASSUME IInv, Next
  PROVE  \/ UNCHANGED <<thread, born>>
         \/ \E b \in Bridges : LinkLetter(b) \/ StampThread(b)
         \/ /\ UNCHANGED born
            /\ \A u \in Update : thread'[u] \in {thread[u], born[u]}
BY LetterWriters DEF letterVars, Sweep, SyncInbox, PowerLoss

(* A root stays one, unless it is given a thread.                          *)
LEMMA RootStays ==
  ASSUME NoTorn, IInv, Next, NEW r, NEW c, Root(r, c),
         \A b \in Bridges : StampThread(b) => r # cur \/ aim = r
  PROVE  Root(r, c)'
<1> USE DEF Root
<1>1. Durable(r)'
  BY DurableStays
<1>2. thread'[r] \in {0, r} /\ born'[r] \in {0, r}
  <2>1. ASSUME NEW b \in Bridges, LinkLetter(b)
        PROVE  thread'[r] = thread[r] /\ born'[r] = born[r]
    <3>1. r # cur
      BY <2>1 DEF LinkLetter, IInv, ProcessInv, LookedUp, Durable
    <3> QED
      BY <2>1, <3>1 DEF LinkLetter, IInv, TypeOK, LetterType
  <2>2. ASSUME NEW b \in Bridges, StampThread(b)
        PROVE  thread'[r] \in {0, r} /\ born' = born
    BY <2>2 DEF StampThread, IInv, TypeOK, LetterType
  <2> QED
    BY <2>1, <2>2, LineWriters
<1> QED
  BY <1>1, <1>2

(* Every step keeps the lines and the pointers rooted, and the index       *)
(* durable.                                                                *)
LEMMA RootedStep ==
  ASSUME NoTorn, IInv, Threaded, Next PROVE Rooted'
<1> USE DEF Threaded, Rooted
<1>1. ASSUME NEW r, NEW c, Root(r, c),
             \/ \E u \in Update : HasLetter(u) /\ thread[u] = r
             \/ \E d \in Chats : pointer[d] = r
      PROVE  Root(r, c)'
  <2>1. ASSUME NEW b \in Bridges, StampThread(b) PROVE r # cur \/ aim = r
    BY <1>1, <2>1 DEF StampThread, Stamping, Unled, Written
  <2> QED
    BY <1>1, <2>1, RootStays
<1>2. \A u \in Update : HasLetter(u)' =>
        /\ thread'[u] # 0 => Root(thread[u], From[u])'
        /\ born'[u] # 0 => thread'[u] = born'[u]
  <2> SUFFICES ASSUME NEW u \in Update, HasLetter(u)'
               PROVE  /\ thread'[u] # 0 => Root(thread[u], From[u])'
                      /\ born'[u] # 0 => thread'[u] = born'[u]
    OBVIOUS
  <2>1. ASSUME NEW b \in Bridges, LinkLetter(b), u = cur
        PROVE  /\ thread'[u] # 0 => Root(thread[u], From[u])'
               /\ born'[u] # 0 => thread'[u] = born'[u]
    <3> DEFINE c == From[u]
    <3>1. PICK r : /\ r = aim /\ thread'[u] = r /\ born'[u] = r
                   /\ r # 0 => Root(r, c)
      BY <2>1 DEF LinkLetter, Stamping, Aiming, IInv, Basis, TypeOK, LetterType
    <3>2. ~ \E a \in Bridges : StampThread(a)
      BY <2>1 DEF LinkLetter, StampThread, IInv, Basis, OneHolder, Holding, Idle
    <3>3. r # 0 => Root(r, c)'
      BY <3>1, <3>2, RootStays
    <3> QED
      BY <3>1, <3>3 DEF Root, Durable, HasLetter
  <2>2. ASSUME NEW b \in Bridges, StampThread(b), u = cur
        PROVE  /\ thread'[u] # 0 => Root(thread[u], From[u])'
               /\ born'[u] # 0 => thread'[u] = born'[u]
    <3> DEFINE c == From[u]
    <3>1. PICK r : /\ r = aim /\ thread'[u] = r /\ born'[u] = born[u]
                   /\ Root(r, c) /\ (born[u] # 0 => r = born[u])
      BY <2>2 DEF StampThread, Stamping, Aiming, Written, IInv, Basis, TypeOK, LetterType
    <3>2. Root(r, c)'
      BY <3>1, RootStays
    <3> QED
      BY <3>1, <3>2 DEF Root, Durable, HasLetter
  <2>3. ASSUME ~ \E b \in Bridges : (LinkLetter(b) \/ StampThread(b)) /\ u = cur
        PROVE  /\ thread'[u] # 0 => Root(thread[u], From[u])'
               /\ born'[u] # 0 => thread'[u] = born'[u]
    <3>1. HasLetter(u) /\ born'[u] = born[u] /\ thread'[u] \in {thread[u], born[u]}
      <4>1. HasLetter(u)
        BY <2>3, LetterWriters
           DEF Sweep, LinkLetter, SyncInbox, StampThread, PowerLoss, letterVars, HasLetter
      <4>2. \/ UNCHANGED <<thread, born>>
            \/ \E b \in Bridges : (LinkLetter(b) \/ StampThread(b)) /\ u # cur
            \/ UNCHANGED born /\ thread'[u] \in {thread[u], born[u]}
        BY <2>3, LineWriters
      <4>3. ASSUME NEW b \in Bridges, LinkLetter(b) \/ StampThread(b), u # cur
            PROVE  thread'[u] = thread[u] /\ born'[u] = born[u]
        BY <4>3 DEF LinkLetter, StampThread, IInv, Basis, TypeOK, LetterType
      <4> QED
        BY <4>1, <4>2, <4>3
    <3>2. born[u] # 0 => thread[u] = born[u]
      BY <3>1
    <3>3. thread'[u] # 0 => thread'[u] = thread[u]
      BY <3>1, <3>2
    <3> DEFINE c == From[u]
    <3>4. PICK r : r = thread[u]
      OBVIOUS
    <3>5. r # 0 => Root(r, c)'
      BY <1>1, <3>1, <3>4
    <3>6. born'[u] # 0 => thread'[u] = born'[u]
      BY <3>1, <3>2
    <3> QED
      BY <3>3, <3>4, <3>5, <3>6 DEF Root, Durable, HasLetter
  <2> QED
    BY <2>1, <2>2, <2>3
<1>3. \A c \in Chats : pointer'[c] # 0 => Root(pointer[c], c)'
  <2> SUFFICES ASSUME NEW c \in Chats, pointer'[c] # 0 PROVE Root(pointer[c], c)'
    OBVIOUS
  <2>1. CASE pointer'[c] = pointer[c]
    <3>1. PICK r : r = pointer[c] /\ Root(r, c)
      BY <2>1
    <3>2. Root(r, c)'
      BY <1>1, <3>1
    <3> QED
      BY <2>1, <3>1, <3>2 DEF Root, Durable, HasLetter
  <2>2. ASSUME NEW b \in Bridges, CurrentThread(b), pointer'[c] # pointer[c]
        PROVE  Root(pointer[c], c)'
    <3>1. /\ c = From[cur] /\ pointer'[c] = cur
      BY <2>2 DEF CurrentThread, IInv, Basis, TypeOK, StateType
    <3>2. cur \in Update /\ Durable(cur) /\ thread[cur] = 0 /\ born[cur] = 0
      <4>1. pc[b] = "pointer" /\ cur \in Update
        BY <2>2, CurInHand DEF CurrentThread, InItem, IInv
      <4> QED
        BY <2>2, <4>1
           DEF CurrentThread, Stamping, Written, IInv, Basis, ProcessInv, LookedUp, Durable,
               WholeLetters, TypeOK, LetterType, Life
    <3>3. PICK r : r = cur /\ Root(r, c)
      BY <3>1, <3>2 DEF Root
    <3>4. ~ \E a \in Bridges : StampThread(a)
      BY <2>2 DEF CurrentThread, StampThread, IInv, Basis, OneHolder, Holding, Idle
    <3>5. Root(r, c)'
      BY <3>3, <3>4, RootStays
    <3> QED
      BY <3>1, <3>3, <3>5 DEF Root, Durable, HasLetter
  <2>3. \/ UNCHANGED pointer \/ \E b \in Bridges : CurrentThread(b)
        \/ pointer' = [d \in Chats |-> 0]
    BY PlaceWriters
       DEF StagePhoto, PlacePhoto, MarkPhotoReady, RecordIndex, FinishDuplicate, PowerLoss
  <2> QED
    BY <2>1, <2>2, <2>3
<1>4. \A u \in index' : Durable(u)'
  <2>1. \A u \in index : u \in Update /\ Durable(u)
    BY DEF IInv, Basis, TypeOK, StateType
  <2>2. ASSUME NEW b \in Bridges, RecordIndex(b) PROVE cur \in Update /\ Durable(cur)
    <3>1. pc[b] = "index" /\ cur \in Update
      BY <2>2, CurInHand DEF RecordIndex, InItem, IInv
    <3> QED
      BY <3>1 DEF Written, IInv, Basis, ProcessInv, LookedUp, Durable, WholeLetters, TypeOK,
         LetterType, Life
  <2>3. \/ index' \subseteq index
        \/ \E b \in Bridges : RecordIndex(b) /\ index' = index \cup {cur}
    BY PlaceWriters
       DEF StagePhoto, PlacePhoto, MarkPhotoReady, RecordIndex, CurrentThread,
           FinishDuplicate, PowerLoss
  <2>4. \A u \in Update : Durable(u) => Durable(u)'
    BY DurableStays
  <2> QED
    BY <2>1, <2>2, <2>3, <2>4
<1> QED
  BY <1>2, <1>3, <1>4

(* The steps that decide where a letter belongs, and no other, change what *)
(* the holder aims at.                                                     *)
LEMMA HolderAims ==
  ASSUME TypeOK, NEW b \in Bridges, HolderStep(b), pc'[b] \in Aiming
  PROVE  \/ ConsultLedger(b) \/ LinkLetter(b) \/ CurrentThread(b) \/ RecordIndex(b)
         \/ /\ UNCHANGED <<aim, cur, thread, born, pointer, inbox, processed>>
            /\ ~ StampThread(b) /\ pc[b] \in Aiming /\ pc'[b] # "pointer"
            /\ pc'[b] \in Written => pc[b] \in Written
            /\ pc'[b] # "stamp"
            /\ (pc[b] = "stamp") <=> (pc'[b] = "replace")
            /\ pc[b] # "replace"
BY SMT
   DEF
      Aiming, Written, Goto, AfterItem, TypeOK, ProcessType, cycleVars,
      letterVars, stateVars, HolderStep, Answered, Failed, Exit, EndCycle,
      Yield, Refused, Transient, Fetch, Gate, StagePhoto, PhotoUnavailable,
      AbandonCycle, ConsultLedger, FindInInbox, FindInProcessed, LinkLetter,
      SyncInbox, RecordDelivered, PlacePhoto, MarkPhotoReady, RecordIndex,
      CurrentThread, ReadForStamp, StampThread, FinishDuplicate, Ack, Ring,
      Confirm, SaveOffset, Beat

(* What is known of the letter in hand does not depend on where it is.     *)
LEMMA StampingKept ==
  ASSUME NEW b \in Bridges, Stamping(b),
         UNCHANGED <<pc, aim, cur, thread, born, life, pointer>>,
         inbox' \cup processed' = inbox \cup processed
  PROVE  Stamping(b)'
<1>1. \A r, c : Root(r, c) => Root(r, c)'
  BY DEF Root, Durable, HasLetter
<1>2. Unled => Unled'
  BY DEF Unled, HasLetter
<1> QED
  BY <1>1, <1>2 DEF Stamping

(* Every step keeps what is known of the letter in hand.                   *)
LEMMA StampingStep ==
  ASSUME NoTorn, IInv, Threaded, Next, NEW b \in Bridges PROVE Stamping(b)'
<1> USE DEF Threaded
<1>1. ASSUME HolderStep(b), pc'[b] \in Aiming PROVE Stamping(b)'
  <2>1. CASE ConsultLedger(b)
    <3>1. /\ pc[b] = "consult" /\ pc'[b] = "findInbox" /\ cur' = cur
          /\ UNCHANGED letterVars /\ cur \in Update
      BY <1>1, <2>1, CurInHand
         DEF ConsultLedger, Exit, Goto, Aiming, Written, InItem, IInv, Basis, TypeOK,
             ProcessType
    <3>2. PICK r : r = aim' /\ (r # 0 => Root(r, From[cur]))
      <4> DEFINE t == ReplyTo[cur]
      <4>1. CASE t \notin index \/ t = 0
        BY <1>1, <2>1, <3>1, <4>1 DEF ConsultLedger, Exit, Goto, Aiming, Written, IInv,
           TypeOK, ProcessType
      <4>2. CASE t \in index /\ t # 0
        <5>1. t \in Update /\ Durable(t) /\ HasLetter(t) /\ From[t] = From[cur]
          <6>1. From[t] = From[cur]
            BY <3>1, <4>2, RepliesInChat
          <6>2. t \in Update
            BY <4>2 DEF IInv, Basis, TypeOK, StateType
          <6>3. Durable(t)
            BY <4>2 DEF Rooted
          <6> QED
            BY <6>1, <6>2, <6>3 DEF Durable
        <5>2. aim' = ThreadOf(t)
          BY <1>1, <2>1, <3>1, <4>2
             DEF ConsultLedger, Exit, Goto, Aiming, Written, IInv, Basis, TypeOK,
                 ProcessType
        <5>3. CASE thread[t] # 0
          BY <5>1, <5>2, <5>3 DEF ThreadOf, Rooted
        <5>4. CASE thread[t] = 0
          BY <5>1, <5>2, <5>4 DEF ThreadOf, Rooted, Root
        <5> QED
          BY <5>3, <5>4
      <4> QED
        BY <4>1, <4>2
    <3>3. r # 0 => Root(r, From[cur])'
      BY <3>1, <3>2 DEF Root, Durable, HasLetter, letterVars
    <3> QED
      BY <3>1, <3>2, <3>3 DEF Stamping, Written, Root, Durable, HasLetter
  <2>2. CASE LinkLetter(b)
    <3>1. /\ pc[b] = "link" /\ pc'[b] = "sync" /\ cur' = cur /\ aim' = aim
          /\ pointer' = pointer /\ cur \in Update /\ ~ HasLetter(cur)
      BY <2>2, CurInHand
         DEF LinkLetter, Goto, InItem, IInv, Basis, TypeOK, ProcessType, ProcessInv,
             LookedUp,
             cycleVars, stateVars
    <3>2. PICK r : r = aim /\ (r # 0 => Root(r, From[cur]))
      BY <3>1 DEF Stamping, Aiming
    <3>3. ~ \E a \in Bridges : StampThread(a)
      BY <2>2 DEF LinkLetter, StampThread, IInv, Basis, OneHolder, Holding, Idle
    <3>4. r # 0 => Root(r, From[cur])'
      BY <3>1, <3>2, <3>3, RootStays
    <3>5. thread'[cur] = aim /\ born'[cur] = aim
      BY <2>2, <3>1 DEF LinkLetter, IInv, Basis, TypeOK, LetterType
    <3>6. ~ Root(cur, From[cur]) /\ cur # 0 /\ \A c : ~ Root(cur, c)
      BY <3>1, ConstantsAssumption DEF Root, Durable, Update
    <3>7. Unled'
      <4>1. ASSUME NEW u \in Update, HasLetter(u)' PROVE thread'[u] # cur
        <5>1. CASE u = cur
          BY <3>2, <3>5, <3>6, <5>1
        <5>2. CASE u # cur
          BY <2>2, <3>6, <4>1, <5>2
             DEF LinkLetter, HasLetter, Rooted, IInv, Basis, TypeOK, LetterType
        <5> QED
          BY <5>1, <5>2
      <4>2. ASSUME NEW c \in Chats PROVE pointer'[c] # cur
        BY <3>1, <3>6 DEF Rooted
      <4> QED
        BY <3>1, <4>1, <4>2 DEF Unled
    <3> QED
      BY <3>1, <3>2, <3>4, <3>5, <3>7 DEF Stamping, Root, Durable, HasLetter
  <2>3. CASE CurrentThread(b)
    <3> DEFINE c == From[cur]
    <3>1. /\ pc[b] = "pointer" /\ pc'[b] = "stamp" /\ cur' = cur /\ UNCHANGED letterVars
          /\ cur \in Update /\ c \in Chats
      BY <2>3, CurInHand, ConstantsAssumption
         DEF CurrentThread, Goto, InItem, IInv, Basis, TypeOK, ProcessType
    <3>2. /\ Durable(cur) /\ thread[cur] = 0 /\ born[cur] = 0 /\ Unled /\ cur # 0
          /\ \A d \in Chats : pointer[d] # cur
      BY <3>1, ConstantsAssumption
         DEF Stamping, Written, IInv, Basis, ProcessInv, LookedUp, Durable, WholeLetters,
             TypeOK, LetterType, Life, Update, Unled
    <3>3. PICK r : r = aim' /\ r # 0 /\ Root(r, c)
      <4>1. aim' = cur \/ (aim' = pointer[c] /\ pointer[c] # 0)
        BY <2>3 DEF CurrentThread
      <4> QED
        BY <3>1, <3>2, <4>1 DEF Root, Rooted
    <3>4. Root(r, c)'
      BY <3>1, <3>3 DEF Root, Durable, HasLetter, letterVars
    <3>5. Unled'
      <4>1. pointer' = [pointer EXCEPT ![c] = aim']
        BY <2>3 DEF CurrentThread
      <4>2. aim' # cur => \A d \in Chats : pointer'[d] # cur
        BY <3>2, <4>1 DEF IInv, Basis, TypeOK, StateType
      <4> QED
        BY <3>1, <3>2, <4>2 DEF Unled, HasLetter, letterVars
    <3> QED
      BY <3>1, <3>2, <3>3, <3>4, <3>5
         DEF Stamping, Root, Durable, HasLetter, letterVars
  <2>4. CASE RecordIndex(b)
    <3>1. /\ pc[b] = "index" /\ UNCHANGED <<letterVars, cur, aim, pointer>>
          /\ pc'[b] = IF aim = 0 THEN "pointer" ELSE "stamp"
      BY <2>4 DEF RecordIndex, Goto, IInv, Basis, TypeOK, ProcessType, cycleVars
    <3>2. \A r, c : Root(r, c) => Root(r, c)'
      BY <3>1 DEF Root, Durable, HasLetter, letterVars
    <3>3. Unled => Unled'
      BY <3>1 DEF Unled, HasLetter, letterVars
    <3>4. /\ aim # 0 => Root(aim, From[cur])
          /\ thread[cur] = born[cur] /\ Unled /\ born[cur] = aim
      BY <3>1 DEF Stamping, Aiming, Written
    <3>5. thread' = thread /\ born' = born
      BY <3>1 DEF letterVars
    <3>6. aim' # 0 => Root(aim, From[cur])'
      BY <3>1, <3>2, <3>4 DEF Root, Durable, HasLetter
    <3>7. pc'[b] = "pointer" => aim' = 0
      BY <3>1
    <3> QED
      BY <3>1, <3>3, <3>4, <3>5, <3>6, <3>7 DEF Stamping
  <2>5. CASE /\ UNCHANGED <<aim, cur, thread, born, pointer, inbox, processed>>
             /\ ~ StampThread(b) /\ pc[b] \in Aiming /\ pc'[b] # "pointer"
             /\ pc'[b] \in Written => pc[b] \in Written
             /\ pc'[b] # "stamp"
             /\ (pc[b] = "stamp") <=> (pc'[b] = "replace")
             /\ pc[b] # "replace"
    <3>1. ~ \E a \in Bridges : StampThread(a)
      <4>1. \A a \in Bridges : a # b => pc[a] \in Idle
        BY <1>1, OthersIdle DEF IInv, Basis
      <4> QED
        BY <2>5, <4>1 DEF StampThread, Idle
    <3>2. PICK r : r = aim /\ (r # 0 => Root(r, From[cur]))
      BY <2>5 DEF Stamping
    <3>3. r # 0 => Root(r, From[cur])'
      BY <2>5, <3>1, <3>2, RootStays
    <3>4. Unled => Unled'
      BY <2>5 DEF Unled, HasLetter
    <3>5. aim' # 0 => Root(aim, From[cur])'
      BY <2>5, <3>2, <3>3 DEF Root, Durable, HasLetter
    <3> QED
      BY <2>5, <3>4, <3>5 DEF Stamping
  <2> QED
    BY <1>1, <2>1, <2>2, <2>3, <2>4, <2>5, HolderAims DEF IInv, Basis
<1>2. ASSUME pc'[b] \notin Aiming PROVE Stamping(b)'
  BY <1>2 DEF Stamping, Aiming, Written
<1>3. ASSUME NEW a \in Bridges, HolderStep(a), a # b PROVE pc'[b] \notin Aiming
  BY <1>3, OthersIdle DEF Idle, Aiming, Written, IInv, Basis
<1>4. ASSUME NEW a \in Bridges, LoadOffset(a) \/ HoldLock(a) \/ Die(a),
             pc'[b] \in Aiming
      PROVE  Stamping(b)'
  <2>1. a # b /\ pc'[b] = pc[b]
    BY <1>4
       DEF LoadOffset, HoldLock, Die, Exit, Goto, Aiming, Written, IInv, Basis, TypeOK,
           ProcessType
  <2>2. UNCHANGED <<cur, aim>>
    BY <1>4, <2>1
       DEF LoadOffset, HoldLock, Die, Exit, cycleVars, IInv, Basis, OneHolder, Holding,
           Idle,
           Aiming, Written
  <2>3. UNCHANGED <<letterVars, pointer>>
    BY <1>4 DEF LoadOffset, HoldLock, Die, stateVars
  <2>4. \A r, c : Root(r, c) => Root(r, c)'
    BY <2>3 DEF Root, Durable, HasLetter, letterVars
  <2>5. Unled => Unled'
    BY <2>2, <2>3 DEF Unled, HasLetter, letterVars
  <2>6. (aim # 0 => Root(aim, From[cur])) => (aim' # 0 => Root(aim, From[cur])')
    BY <2>2, <2>4 DEF Root, Durable, HasLetter
  <2>7. thread' = thread /\ born' = born
    BY <2>3 DEF letterVars
  <2> QED
    BY <2>1, <2>2, <2>5, <2>6, <2>7 DEF Stamping
<1>5. CASE World
  <2>1. UNCHANGED <<pc, aim, cur, thread, born, life, pointer>>
    BY <1>5 DEF World, Arrive, EditAllowlist, Sweep, letterVars, cycleVars, stateVars
  <2>2. inbox' \cup processed' = inbox \cup processed
    BY <1>5 DEF World, Arrive, EditAllowlist, Sweep, letterVars
  <2> QED
    BY <2>1, <2>2, StampingKept
<1>6. CASE PowerLoss
  BY <1>6, <1>2 DEF PowerLoss, Aiming, Written
<1> QED
  BY <1>1, <1>2, <1>3, <1>4, <1>5, <1>6, SMT DEF Next, Local, HolderStep

(* A thread has one root, in the chat of every letter it leads from        *)
(* (_thread_of, _current_thread, _stamp_thread).                           *)
THEOREM ThreadsStayFlat == ASSUME NoTorn PROVE Spec => []ThreadsAreFlat
<1>1. Init => Threaded
  BY DEF Init, Threaded, Rooted, Stamping, HasLetter, Aiming, Written
<1>2. IInv /\ Threaded /\ [Next]_vars => Threaded'
  <2>1. ASSUME IInv, Threaded, Next PROVE Threaded'
    BY <2>1, RootedStep, StampingStep DEF Threaded
  <2>2. ASSUME Threaded, UNCHANGED vars PROVE Threaded'
    <3>1. UNCHANGED <<pc, aim, cur, index, letterVars, pointer>>
      BY <2>2 DEF vars, cycleVars, stateVars
    <3>2. \A r, c : Root(r, c) => Root(r, c)'
      BY <3>1 DEF Root, Durable, HasLetter, letterVars
    <3>3. UNCHANGED <<thread, born, life, inbox, processed>>
      BY <3>1 DEF letterVars
    <3>4. Rooted'
      BY <2>2, <3>1, <3>3 DEF Threaded, Rooted, Root, Durable, HasLetter
    <3> QED
      BY <2>2, <3>1, <3>3, <3>4, StampingKept DEF Threaded
  <2> QED
    BY <2>1, <2>2
<1>3. IInv /\ Threaded => ThreadsAreFlat
  BY DEF IInv, Basis, TypeOK, LetterType, Threaded, Rooted, Root, ThreadsAreFlat, HasLetter
<1> QED
  BY <1>1, <1>2, <1>3, Invariance, PTL DEF Spec

----------------------------------------------------------------------------
(* The photos.  As long as nothing on the machine fails but the process,   *)
(* an update is passed over only with its letter in place and the photo    *)
(* that letter advertises.                                                 *)

SoundDisk == NoPowerLoss /\ "promote" \notin Faults

Pictured(u) ==
  u \in denied \/ (HasLetter(u) /\ (u \in advert => asset[u] = "ready"))
PicturedTo(n) == \A u \in Update : u <= n => Pictured(u)

(* The bytes of an advertised photo are somewhere.                         *)
Staged == \A u \in advert : HasLetter(u) /\ asset[u] # "none"

(* Where the photo of the update in hand is.                               *)
PhotoInHand(b) ==
  /\ pc[b] \in {"gate", "download"} => ~ shot
  /\ pc[b] \in {"consult", "findInbox", "findProcessed", "link"} =>
       (shot /\ ~ HasLetter(cur) => asset[cur] = "staged")
  /\ pc[b] \in {"sync", "record", "promote"} => (shot => asset[cur] = "staged")
  /\ pc[b] \in {"index", "pointer", "stamp", "replace"} =>
       (shot => asset[cur] = "ready")
  /\ pc[b] \in Written => (cur \in advert <=> shot)
  /\ pc[b] = "promote" => shot

PicturedFirst(b) ==
  /\ PicturedTo(mark[b])
  /\ pc[b] \in InItem => PicturedTo(cur - 1)
  /\ pc[b] = "ack" => Pictured(cur)

Photographed ==
  /\ InterruptedKept /\ Staged /\ PicturedTo(forgot)
  /\ \A b \in Bridges : PhotoInHand(b) /\ PicturedFirst(b)

(* Only a letter being linked changes what is advertised.                  *)
LEMMA AdvertWriters ==
  ASSUME SoundDisk, IInv, Next, ~ \E b \in Bridges : LinkLetter(b)
  PROVE  /\ advert' = advert
         /\ \A u \in Update : HasLetter(u)' <=> HasLetter(u)
<1>1. ~ PowerLoss
  BY DEF SoundDisk, NoPowerLoss, PowerLoss
<1>2. ASSUME NEW b \in Bridges, SyncInbox(b) \/ StampThread(b)
      PROVE  /\ advert' = advert
             /\ \A u \in Update : HasLetter(u)' <=> HasLetter(u)
  BY <1>2 DEF SyncInbox, StampThread, IInv, ProcessInv, LookedUp, Written, HasLetter
<1>3. CASE UNCHANGED letterVars \/ \E v \in Update : Sweep(v)
  BY <1>3 DEF letterVars, Sweep, HasLetter
<1> QED
  BY <1>1, <1>2, <1>3, LetterWriters

(* What may become of the photo of a letter.                               *)
LEMMA PhotoKept ==
  ASSUME SoundDisk, IInv, Photographed, Next, NEW u \in Update, HasLetter(u)
  PROVE  /\ u \in advert' <=> u \in advert
         /\ u \in advert /\ asset[u] # "none" => asset'[u] # "none"
         /\ u \in advert /\ asset[u] = "ready" => asset'[u] = "ready"
<1> USE DEF IInv, Basis, TypeOK, StateType
<1>1. u \in advert' <=> u \in advert
  <2>1. ASSUME NEW b \in Bridges, LinkLetter(b) PROVE u \in advert' <=> u \in advert
    BY <2>1 DEF LinkLetter, ProcessInv, LookedUp
  <2> QED
    BY <2>1, AdvertWriters
<1>2. CASE UNCHANGED asset
  BY <1>1, <1>2
<1>3. ASSUME NEW b \in Bridges,
             StagePhoto(b) \/ PlacePhoto(b) \/ MarkPhotoReady(b) \/ FinishDuplicate(b)
      PROVE  u \in advert =>
               /\ asset[u] # "none" => asset'[u] # "none"
               /\ asset[u] = "ready" => asset'[u] = "ready"
  <2>1. CASE StagePhoto(b)
    BY <2>1 DEF StagePhoto
  <2>2. CASE PlacePhoto(b)
    BY <2>2 DEF PlacePhoto, SoundDisk, Photographed, PhotoInHand
  <2>3. CASE MarkPhotoReady(b)
    BY <2>3 DEF MarkPhotoReady
  <2>4. CASE FinishDuplicate(b)
    <3>1. CASE u # cur
      BY <2>4, <3>1 DEF FinishDuplicate
    <3>2. CASE u = cur
      BY <2>4, <3>2 DEF FinishDuplicate, SoundDisk
    <3> QED
      BY <3>1, <3>2
  <2> QED
    BY <1>3, <2>1, <2>2, <2>3, <2>4
<1>4. \/ UNCHANGED asset
      \/ \E b \in Bridges : StagePhoto(b) \/ PlacePhoto(b) \/ MarkPhotoReady(b)
                              \/ FinishDuplicate(b)
  BY PlaceWriters DEF RecordIndex, CurrentThread, SoundDisk, NoPowerLoss, PowerLoss
<1> QED
  BY <1>1, <1>2, <1>3, <1>4

(* An update once passed over rightly stays so.                            *)
LEMMA PicturedStays ==
  ASSUME SoundDisk, IInv, Photographed, Next, NEW u \in Update, Pictured(u)
  PROVE  Pictured(u)'
<1>1. CASE u \in denied
  BY <1>1, Monotone DEF Pictured, IInv
<1>2. CASE u \notin denied
  BY <1>2, PhotoKept, LettersStay DEF Pictured, SoundDisk
<1> QED
  BY <1>1, <1>2 DEF Pictured

(* Every step keeps the bytes of what is advertised.                       *)
LEMMA StagedStep ==
  ASSUME SoundDisk, IInv, Photographed, Next PROVE Staged'
<1> USE DEF IInv, Basis, TypeOK, LetterType, StateType
<1>1. ASSUME NEW u \in Update, u \in advert', HasLetter(u)
      PROVE  HasLetter(u)' /\ asset'[u] # "none"
  BY <1>1, PhotoKept, LettersStay DEF Photographed, Staged, SoundDisk
<1>2. ASSUME NEW u \in Update, u \in advert', ~ HasLetter(u)
      PROVE  HasLetter(u)' /\ asset'[u] # "none"
  <2>1. PICK b \in Bridges : LinkLetter(b)
    BY <1>2, AdvertWriters DEF Photographed, Staged
  <2>2. u = cur /\ shot /\ asset' = asset
    BY <1>2, <2>1 DEF LinkLetter, Photographed, Staged, stateVars
  <2>3. asset[cur] = "staged"
    BY <1>2, <2>1, <2>2 DEF LinkLetter, Photographed, PhotoInHand
  <2> QED
    BY <2>1, <2>2, <2>3 DEF LinkLetter, HasLetter
<1>3. advert' \subseteq Update
  BY LetterTypeStep DEF LetterType
<1> QED
  BY <1>1, <1>2, <1>3 DEF Staged

(* What the holder knows of the photo in hand.                             *)
LEMMA PhotoInHandStep ==
  ASSUME SoundDisk, IInv, Photographed, NEW b \in Bridges, HolderStep(b), Next
  PROVE  PhotoInHand(b)'
<1> USE DEF IInv, Basis, TypeOK, ProcessType
<1>1. PhotoInHand(b)
  BY DEF Photographed
<1>2. CASE StagePhoto(b)
  <2>1. cur \in Update
    BY <1>2, CurInHand DEF StagePhoto, InItem
  <2> QED
    BY <1>2, <2>1
       DEF StagePhoto, PhotoInHand, Goto, HasLetter, StateType, letterVars, Written
<1>3. CASE LinkLetter(b)
  <2>1. cur \in Update /\ ~ HasLetter(cur)
    BY <1>3, CurInHand DEF LinkLetter, InItem, ProcessInv, LookedUp
  <2> QED
    BY <1>1, <1>3, <2>1
       DEF LinkLetter, PhotoInHand, Goto, cycleVars, stateVars, Written
<1>4. CASE PlacePhoto(b) \/ MarkPhotoReady(b)
  <2>1. cur \in Update
    BY <1>4, CurInHand DEF PlacePhoto, MarkPhotoReady, InItem
  <2> QED
    BY <1>1, <1>4, <2>1
       DEF PlacePhoto, MarkPhotoReady, PhotoInHand, Goto, cycleVars, letterVars,
           Written, SoundDisk, StateType
<1>5. CASE SyncInbox(b) \/ RecordDelivered(b)
  BY <1>1, <1>5
     DEF SyncInbox, RecordDelivered, PhotoInHand, Goto, cycleVars, letterVars, stateVars,
         Written
<1>6. CASE RecordIndex(b) \/ CurrentThread(b) \/ ReadForStamp(b)
  BY <1>1, <1>6
     DEF RecordIndex, CurrentThread, ReadForStamp, PhotoInHand, Goto, Exit, cycleVars,
         letterVars, stateVars, Written
<1>7. CASE Gate(b) \/ PhotoUnavailable(b) \/ ConsultLedger(b) \/ FindInInbox(b)
           \/ FindInProcessed(b)
  BY <1>1, <1>7
     DEF Gate, PhotoUnavailable, ConsultLedger, FindInInbox, FindInProcessed, PhotoInHand,
         Goto, Exit, cycleVars, letterVars, stateVars, Written, HasLetter
<1>8. CASE Ack(b) \/ Fetch(b)
  BY <1>8 DEF Ack, Fetch, PhotoInHand, Goto, AfterItem, Written
<1>9. CASE \/ StampThread(b) \/ FinishDuplicate(b) \/ Ring(b) \/ SaveOffset(b) \/ Beat(b)
           \/ Confirm(b) \/ Failed(b)
  BY <1>9
     DEF StampThread, FinishDuplicate, Ring, SaveOffset, Beat, Confirm, Failed, Transient,
         Yield, Refused, AbandonCycle, PhotoInHand, Goto, Exit, Written
<1> QED
  BY <1>2, <1>3, <1>4, <1>5, <1>6, <1>7, <1>8, <1>9 DEF HolderStep, Answered

(* The holder marks and passes over only what has its photo.               *)
LEMMA PicturedFirstStep ==
  ASSUME SoundDisk, IInv, Photographed, NEW b \in Bridges, HolderStep(b), Next
  PROVE  PicturedFirst(b)'
<1> USE DEF IInv, Basis, TypeOK, ProcessType, PlatformType
<1>0. PicturedFirst(b) /\ PhotoInHand(b) /\ PicturedTo(forgot)
  BY DEF Photographed
<1>1. PicturedTo(mark'[b])
  <2>1. mark'[b] \in {mark[b], 0} \/ (Ack(b) /\ mark'[b] = Larger(mark[b], cur))
    BY SMT
       DEF
          HolderStep, Answered, Failed, Exit, EndCycle, Yield, Refused,
          Transient, Fetch, Gate, StagePhoto, PhotoUnavailable, AbandonCycle,
          ConsultLedger, FindInInbox, FindInProcessed, LinkLetter, SyncInbox,
          RecordDelivered, PlacePhoto, MarkPhotoReady, RecordIndex,
          CurrentThread, ReadForStamp, StampThread, FinishDuplicate, Ack,
          Ring, Confirm, SaveOffset, Beat
  <2>2. ASSUME Ack(b) PROVE PicturedTo(cur)
    BY <1>0, <2>2, ConstantsAssumption DEF Ack, PicturedFirst, PicturedTo, InItem, Update
  <2>3. PicturedTo(0)
    BY ConstantsAssumption DEF PicturedTo, Update
  <2> QED
    BY <1>0, <2>1, <2>2, <2>3 DEF PicturedFirst, Larger
<1>2. pc'[b] \in InItem => PicturedTo(cur' - 1)
  <2>1. CASE Ack(b)
    BY <1>0, <2>1, ConstantsAssumption DEF Ack, PicturedFirst, PicturedTo, InItem, Update
  <2>2. CASE Fetch(b)
    <3>1. cur' - 1 = forgot'
      BY <2>2, PlatformTypeStep, ConstantsAssumption DEF Fetch
    <3>2. forgot' \in {forgot, mark[b]}
      BY <2>2 DEF Fetch, Larger
    <3> QED
      BY <1>0, <3>1, <3>2 DEF PicturedFirst
  <2>3. ASSUME ~ Ack(b), ~ Fetch(b)
        PROVE  pc'[b] \in InItem => pc[b] \in InItem /\ UNCHANGED cur
    BY <2>3, SMT
       DEF
          InItem, cycleVars, Goto, HolderStep, Answered, Failed, Exit,
          EndCycle, Yield, Refused, Transient, Gate, StagePhoto,
          PhotoUnavailable, AbandonCycle, ConsultLedger, FindInInbox,
          FindInProcessed, LinkLetter, SyncInbox, RecordDelivered, PlacePhoto,
          MarkPhotoReady, RecordIndex, CurrentThread, ReadForStamp,
          StampThread, FinishDuplicate, Ring, Confirm, SaveOffset, Beat
  <2> QED
    BY <1>0, <2>1, <2>2, <2>3 DEF PicturedFirst
<1>3. ASSUME pc'[b] = "ack" PROVE Pictured(cur)'
  <2>1. Gate(b) \/ StampThread(b) \/ FinishDuplicate(b)
    BY <1>3, SMT
       DEF
          AfterItem, Goto, HolderStep, Answered, Failed, Exit, EndCycle,
          Yield, Refused, Transient, Fetch, StagePhoto, PhotoUnavailable,
          AbandonCycle, ConsultLedger, FindInInbox, FindInProcessed,
          LinkLetter, SyncInbox, RecordDelivered, PlacePhoto, MarkPhotoReady,
          RecordIndex, CurrentThread, ReadForStamp, Ack, Ring, Confirm,
          SaveOffset, Beat
  <2>2. CASE Gate(b)
    BY <1>3, <2>2 DEF Gate, Pictured, Goto, cycleVars
  <2>3. CASE StampThread(b)
    BY <1>0, <2>3
       DEF StampThread, Pictured, PhotoInHand, Written, HasLetter, cycleVars, stateVars
  <2>4. CASE FinishDuplicate(b)
    <3>1. cur' = cur /\ UNCHANGED letterVars /\ denied' = denied /\ cur \in Update
      BY <2>4, CurInHand DEF FinishDuplicate, InItem, cycleVars, historyVars
    <3>2. cur \in denied \/ HasLetter(cur)
      BY <2>4
         DEF FinishDuplicate, ProcessInv, SettledFirst, Settled, Durable, Photographed,
             InterruptedKept
    <3>3. ASSUME HasLetter(cur), cur \in advert PROVE asset'[cur] = "ready"
      <4>1. Readable(cur, inbox) \/ Readable(cur, processed)
        BY <3>1, <3>3 DEF Readable, HasLetter, WholeLetters
      <4>2. asset[cur] # "none"
        BY <3>3 DEF Photographed, Staged
      <4> QED
        BY <2>4, <3>1, <3>3, <4>1, <4>2 DEF FinishDuplicate, SoundDisk, StateType
    <3> QED
      BY <3>1, <3>2, <3>3 DEF Pictured, HasLetter, letterVars
  <2> QED
    BY <2>1, <2>2, <2>3, <2>4
<1> QED
  BY <1>1, <1>2, <1>3, PicturedStays DEF PicturedFirst, PicturedTo

(* A process that does not move while another does knows what it knew.     *)
LEMMA PhotoBystander ==
  ASSUME SoundDisk, IInv, Photographed, Next, NEW a \in Bridges,
         pc'[a] = pc[a], mark'[a] = mark[a],
         \/ pc[a] \in Idle
         \/ /\ UNCHANGED <<cur, shot, asset, advert>>
            /\ inbox' \cup processed' = inbox \cup processed
  PROVE  PhotoInHand(a)' /\ PicturedFirst(a)'
<1>1. PhotoInHand(a) /\ PicturedFirst(a)
  BY DEF Photographed
<1>2. PhotoInHand(a)'
  BY <1>1 DEF PhotoInHand, Idle, Written, HasLetter
<1>3. PicturedTo(mark[a])'
  BY <1>1, PicturedStays DEF PicturedFirst, PicturedTo
<1>4. ASSUME pc[a] \in InItem
      PROVE  cur' = cur /\ PicturedTo(cur - 1)' /\ (pc[a] = "ack" => Pictured(cur)')
  <2>1. cur' = cur /\ cur \in Update
    BY <1>4, CurInHand DEF Idle, InItem, IInv
  <2>2. \A u \in Update : Pictured(u) => Pictured(u)'
    BY PicturedStays
  <2> QED
    BY <1>1, <1>4, <2>1, <2>2 DEF PicturedFirst, PicturedTo, Pictured, HasLetter
<1>5. pc[a] = "ack" => pc[a] \in InItem
  BY DEF InItem
<1> QED
  BY <1>2, <1>3, <1>4, <1>5 DEF PicturedFirst

(* Every step keeps the invariant about the photos.                        *)
LEMMA PhotographedStep ==
  ASSUME SoundDisk, IInv, Photographed, [Next]_vars PROVE Photographed'
<1> USE DEF IInv, Basis, TypeOK, ProcessType, PlatformType
<1>0. CASE UNCHANGED vars
  BY <1>0
     DEF vars, platformVars, letterVars, stateVars, cycleVars, historyVars, Photographed,
         InterruptedKept, Staged, PicturedTo, Pictured, PhotoInHand, PicturedFirst,
         HasLetter
<1> SUFFICES ASSUME Next PROVE Photographed'
  BY <1>0
<1>1. PicturedTo(forgot)'
  <2>1. forgot' = forgot \/ \E b \in Bridges : forgot' = mark[b]
    BY ForgotWriters DEF Transient, Fetch, Confirm, Larger
  <2>2. PicturedTo(forgot')
    BY <2>1 DEF Photographed, PicturedFirst
  <2> QED
    BY <2>2, PicturedStays DEF PicturedTo
<1>2. ASSUME NEW a \in Bridges PROVE PhotoInHand(a)' /\ PicturedFirst(a)'
  <2>1. ASSUME NEW b \in Bridges, HolderStep(b)
        PROVE  PhotoInHand(a)' /\ PicturedFirst(a)'
    <3>1. CASE a = b
      BY <2>1, <3>1, PhotoInHandStep, PicturedFirstStep
    <3>2. CASE a # b
      BY <2>1, <3>2, OthersIdle, PhotoBystander
    <3> QED
      BY <3>1, <3>2
  <2>2. ASSUME NEW b \in Bridges, LoadOffset(b) \/ HoldLock(b) \/ Die(b)
        PROVE  PhotoInHand(a)' /\ PicturedFirst(a)'
    <3>1. CASE a # b
      <4>1. pc'[a] = pc[a] /\ mark'[a] = mark[a]
        BY <2>2, <3>1 DEF LoadOffset, HoldLock, Die, Exit, Goto
      <4>2. pc[a] \notin Idle => UNCHANGED <<cur, shot>>
        BY <2>2, <3>1 DEF LoadOffset, HoldLock, Die, Exit, cycleVars, OneHolder, Holding
      <4>3. UNCHANGED <<asset, letterVars>>
        BY <2>2 DEF LoadOffset, HoldLock, Die, stateVars
      <4> QED
        BY <4>1, <4>2, <4>3, PhotoBystander DEF letterVars
    <3>2. CASE a = b
      <4>1. pc'[a] \in Idle \cup {"top"} /\ mark'[a] \in {0, offset, mark[a]}
        BY <2>2, <3>2 DEF LoadOffset, HoldLock, Die, Exit, Goto, Idle
      <4>2. PhotoInHand(a)'
        BY <4>1 DEF PhotoInHand, Idle, Written
      <4>3. PicturedTo(0) /\ PicturedTo(offset) /\ PicturedTo(mark[a])
        BY ConstantsAssumption
           DEF Photographed, PicturedFirst, DiskInv, PicturedTo, Update, StateType
      <4>4. PicturedTo(mark'[a])
        BY <4>1, <4>3
      <4> QED
        BY <4>1, <4>2, <4>4, PicturedStays DEF PicturedFirst, PicturedTo, Idle, InItem
    <3> QED
      BY <3>1, <3>2
  <2>3. CASE World
    <3>1. UNCHANGED <<pc, mark, cur, shot, asset, advert>>
      BY <2>3 DEF World, Arrive, EditAllowlist, Sweep, letterVars, cycleVars, stateVars
    <3>2. inbox' \cup processed' = inbox \cup processed
      BY <2>3 DEF World, Arrive, EditAllowlist, Sweep, letterVars
    <3> QED
      BY <3>1, <3>2, PhotoBystander
  <2>4. ~ PowerLoss
    BY DEF SoundDisk, NoPowerLoss, PowerLoss
  <2> QED
    BY <2>1, <2>2, <2>3, <2>4, SMT DEF Next, Local, HolderStep
<1> QED
  BY <1>1, <1>2, StagedStep, InterruptedKeptStep DEF Photographed, SoundDisk

(* Where neither the power nor a rename fails, an advertised photo is in   *)
(* place by the time the platform may forget its update, whatever dies     *)
(* between the letter and the rename (promote, and the duplicate branch of *)
(* poll_once that mends it).                                               *)
THEOREM PhotosArePlaced == ASSUME NoTorn PROVE Spec => []AdvertisedIsPlaced
<1>1. CASE SoundDisk
  <2>1. Init => Photographed
    BY ConstantsAssumption
       DEF Init, Photographed, InterruptedKept, Staged, PicturedTo, PicturedFirst, InItem,
           PhotoInHand, Written, Update
  <2>2. IInv /\ Photographed /\ [Next]_vars => Photographed'
    BY <1>1, PhotographedStep
  <2>3. IInv /\ Photographed => AdvertisedIsPlaced
    BY DEF IInv, Basis, TypeOK, LetterType, Photographed, PicturedTo, Pictured,
       AdvertisedIsPlaced
  <2> QED
    BY <2>1, <2>2, <2>3, Invariance, PTL DEF Spec
<1>2. CASE ~ SoundDisk
  <2>1. AdvertisedIsPlaced
    BY <1>2 DEF SoundDisk, NoPowerLoss, AdvertisedIsPlaced
  <2> QED
    BY <2>1, PTL
<1> QED
  BY <1>1, <1>2
=============================================================================
