------------------------------ MODULE Inbound ------------------------------
(***************************************************************************)
(* The inbound half of the bridge on Telegram: poll -> letter -> ring ->   *)
(* confirm (poller/loop.py, letter/store.py, bridge/run.py and the         *)
(* receiving half of adapters/telegram/api.py).                            *)
(*                                                                         *)
(* A bridge process fetches a batch of updates, judges each one against    *)
(* the allowlist, writes a letter for each permitted one, rings the agent  *)
(* once, and only then tells the platform to forget the batch.  There is   *)
(* one step per durable write, so that the process can die, or the machine *)
(* lose power, between any two of them.  Around it move the platform, the  *)
(* agent sweeping its inbox, the operator editing the allowlist and a      *)
(* second bridge process on the same state directory.                      *)
(*                                                                         *)
(* Abstracted: the text of a letter; file modes; the salt and the key of a *)
(* correspondent (one key per chat); the outcome of a ring, which nothing  *)
(* here reads.                                                             *)
(***************************************************************************)
EXTENDS Naturals, Sequences, SequencesExt

CONSTANTS
  NumUpdates,   \* updates are 1..NumUpdates, in the platform's order
  Bridges,      \* bridge processes started on this state directory
  Chats,        \* chats that write to the bot, all permitted at first
  Revocable,    \* those the operator takes off the allowlist and puts back
  From,         \* From[u]: the chat update u comes from
  CutAt,        \* updates whose text starts with /new
  ReplyTo,      \* ReplyTo[u]: the update whose message u answers, of the
                \* same chat (the message index is kept by chat), or 0
  Photos,       \* updates that carry a photo to download
  LedgerCap,    \* publish_once's cap on the delivered-ids ledger
  Faults,       \* which faults the environment injects, see FaultKinds
  MaxCrashes    \* bound: how often a process dies or the power fails

Update == 1..NumUpdates

(* "power":   the machine loses power: a write nothing has fsynced may be  *)
(*            undone.                                                      *)
(* "torn":    moreover a rename of a file that was never fsynced may leave *)
(*            the name on an empty file.                                   *)
(* "promote": placing a downloaded photo fails with an OSError.            *)
FaultKinds == {"power", "torn", "promote"}

ASSUME ConstantsAssumption ==
  /\ NumUpdates \in Nat
  /\ Revocable \subseteq Chats
  /\ From \in [Update -> Chats]
  /\ CutAt \subseteq Update
  /\ ReplyTo \in [Update -> 0..NumUpdates]
  /\ \A u \in Update : ReplyTo[u] < u
  /\ \A u \in Update : ReplyTo[u] # 0 => From[ReplyTo[u]] = From[u]
  /\ Photos \subseteq Update
  /\ LedgerCap \in Nat \ {0}
  /\ Faults \subseteq FaultKinds
  /\ MaxCrashes \in Nat

VARIABLES
  arrived,      \* platform: updates 1..arrived have reached it
  forgot,       \* platform: it holds nothing at or below this update
  allowed,      \* allowlist.json: the permitted chats
  inbox,        \* updates with a letter file in inbox/
  processed,    \* updates with a letter file in processed/
  life,         \* life[u]: what the disk holds of u's letter, see Life
  thread,       \* thread[u]: the thread: line of u's letter (0: blank)
  born,         \* born[u]: the thread: line u's letter was published with
  copies,       \* copies[u]: letters published for u and not undone
  advert,       \* updates whose letter advertises a photo
  asset,        \* asset[u]: where that photo's bytes are
  ledger,       \* state/delivered.json
  offset,       \* state/offset.json (0: no file)
  index,        \* message-index.json: updates whose message id is recorded
  pointer,      \* threads.json: pointer[c] is c's open thread (0: none)
  health,       \* the state in state/health.json
  pc,           \* pc[b]: where bridge process b is
  mark,         \* mark[b]: b's in-memory Telegram._acked (0: None)
  cur, last,    \* the holder's batch is cur..last, cur being handled
  fresh,        \* the holder's Cycle: letters it published this cycle
  aim,          \* thread of the letter being published (0: not known yet)
  shot,         \* whether this pass staged a photo for cur
  denied,       \* history: updates the gate denied
  rung,         \* history: updates covered by an attempted ring
  interrupted,  \* history: letters whose publisher died before the fsync
                \* of inbox/
  crashes       \* history: deaths and power failures so far

platformVars == <<arrived, forgot>>
letterVars   == <<inbox, processed, life, thread, born, copies, advert>>
stateVars    == <<ledger, offset, index, pointer, asset>>
cycleVars    == <<cur, last, fresh, aim, shot>>
historyVars  == <<denied, rung, interrupted, crashes>>
vars == <<platformVars, allowed, letterVars, stateVars, health, pc, mark,
          cycleVars, historyVars>>

(* linked: the name exists, inbox/ is not fsynced.  synced: durable.       *)
(* rewritten: replaced by a file nobody fsynced.  torn: the name is on an  *)
(* empty file, which resolve() refuses as malformed.                       *)
Life == {"none", "linked", "synced", "rewritten", "torn"}
AssetPlace == {"none", "staged", "placed", "ready"}
Idle == {"down", "loaded"}
InItem == {"gate", "download", "consult", "findInbox", "findProcessed",
           "link", "sync", "record", "promote", "markReady", "index",
           "pointer", "stamp", "replace", "duplicate", "ack"}
Steps == Idle \cup {"top", "ring", "confirm", "save", "beat"} \cup InItem

Larger(m, n) == IF m >= n THEN m ELSE n
Holding(b) == pc[b] \notin Idle
Goto(b, l) == pc' = [pc EXCEPT ![b] = l]

(* Between cycles there is no batch; a process that is down has no mark.   *)
EndCycle == cur' = 1 /\ last' = 0 /\ fresh' = {} /\ aim' = 0 /\ shot' = FALSE
Exit(b) ==
  /\ Goto(b, "down")
  /\ mark' = [mark EXCEPT ![b] = 0]
  /\ IF Holding(b) THEN EndCycle ELSE UNCHANGED cycleVars

(* What resolve() and find_by_update see: a torn file parses as no letter. *)
Readable(u, dir) == u \in dir /\ life[u] # "torn"
HasLetter(u) == u \in inbox \cup processed

Init ==
  /\ arrived = 0 /\ forgot = 0
  /\ allowed = Chats
  /\ inbox = {} /\ processed = {}
  /\ life = [u \in Update |-> "none"]
  /\ thread = [u \in Update |-> 0] /\ born = [u \in Update |-> 0]
  /\ copies = [u \in Update |-> 0]
  /\ advert = {} /\ asset = [u \in Update |-> "none"]
  /\ ledger = <<>> /\ offset = 0 /\ index = {}
  /\ pointer = [c \in Chats |-> 0]
  /\ health = "none"
  /\ pc = [b \in Bridges |-> "down"] /\ mark = [b \in Bridges |-> 0]
  /\ cur = 1 /\ last = 0 /\ fresh = {} /\ aim = 0 /\ shot = FALSE
  /\ denied = {} /\ rung = {} /\ interrupted = {} /\ crashes = 0

----------------------------------------------------------------------------
(* The world around the bridge.                                            *)

Arrive ==
  /\ arrived < NumUpdates
  /\ arrived' = arrived + 1
  /\ UNCHANGED <<forgot, allowed, letterVars, stateVars, health, pc, mark,
                 cycleVars, historyVars>>

EditAllowlist(c) ==
  /\ c \in Revocable
  /\ allowed' = IF c \in allowed THEN allowed \ {c} ELSE allowed \cup {c}
  /\ UNCHANGED <<platformVars, letterVars, stateVars, health, pc, mark,
                 cycleVars, historyVars>>

(* The agent files a letter it has read, on a ring or on its own schedule. *)
Sweep(u) ==
  /\ u \in inbox
  /\ inbox' = inbox \ {u}
  /\ processed' = processed \cup {u}
  /\ UNCHANGED <<platformVars, allowed, life, thread, born, copies, advert,
                 stateVars, health, pc, mark, cycleVars, historyVars>>

----------------------------------------------------------------------------
(* Starting: the adapter is built, and reads the offset file, before the   *)
(* lock is taken, so a second process may hold a stale mark.               *)

LoadOffset(b) ==
  /\ pc[b] = "down"
  /\ mark' = [mark EXCEPT ![b] = offset]
  /\ Goto(b, "loaded")
  /\ UNCHANGED <<platformVars, allowed, letterVars, stateVars, health,
                 cycleVars, historyVars>>

(* A process that finds the lock held exits; one that takes it writes its  *)
(* first heartbeat and enters _poll_forever.                               *)
HoldLock(b) ==
  /\ pc[b] = "loaded"
  /\ IF \E other \in Bridges : Holding(other)
       THEN Exit(b) /\ UNCHANGED health
       ELSE Goto(b, "top") /\ health' = "starting" /\ UNCHANGED <<mark, cycleVars>>
  /\ UNCHANGED <<platformVars, allowed, letterVars, stateVars, historyVars>>

(* PlatformConflict, from either request, or a stop that was requested, at *)
(* the top of a cycle: stand down and say so.                              *)
Yield(b) ==
  /\ pc[b] \in {"top", "confirm"}
  /\ Exit(b)
  /\ health' = "yielded"
  /\ UNCHANGED <<platformVars, allowed, letterVars, stateVars, historyVars>>

(* FetchFailed, from either request: exit 1 with the heartbeat as it was.  *)
Refused(b) ==
  /\ pc[b] \in {"top", "confirm"}
  /\ Exit(b)
  /\ UNCHANGED <<platformVars, allowed, letterVars, stateVars, health,
                 historyVars>>

(* TransientFailure, from either request: wait and go round again.  The    *)
(* request may have reached the platform before its answer was lost.       *)
Transient(b) ==
  /\ pc[b] \in {"top", "confirm"}
  /\ forgot' \in {forgot, Larger(forgot, mark[b])}
  /\ Goto(b, "top") /\ EndCycle
  /\ health' = "degraded"
  /\ UNCHANGED <<arrived, allowed, letterVars, stateVars, mark, historyVars>>

(* getUpdates with offset mark+1: the platform forgets everything below    *)
(* it and hands over the rest.  An empty batch goes straight to confirm.   *)
Fetch(b) ==
  /\ pc[b] = "top"
  /\ forgot' = Larger(forgot, mark[b])
  /\ cur' = forgot' + 1
  /\ last' = arrived
  /\ fresh' = {}
  /\ aim' = 0 /\ shot' = FALSE
  /\ Goto(b, IF cur' <= last' THEN "gate" ELSE "confirm")
  /\ UNCHANGED <<arrived, allowed, letterVars, stateVars, health, mark,
                 historyVars>>

----------------------------------------------------------------------------
(* One update of the batch, in the order of poll_once.                     *)

(* A slip that leaves a denied update unacknowledged.                      *)
GateWithoutAck(b) ==
  /\ pc[b] = "gate"
  /\ IF From[cur] \in allowed
       THEN /\ Goto(b, IF cur \in Photos THEN "download" ELSE "consult")
            /\ UNCHANGED <<cur, denied>>
       ELSE /\ Goto(b, IF cur < last THEN "gate" ELSE "confirm")
            /\ denied' = denied \cup {cur}
            /\ cur' = cur + 1
  /\ UNCHANGED <<platformVars, allowed, letterVars, stateVars, health, mark,
                 last, fresh, aim, shot, rung, interrupted, crashes>>

(* The allowlist, read anew for every update.  A denied one is consumed    *)
(* like any other.                                                         *)
Gate(b) ==
  /\ pc[b] = "gate"
  /\ IF From[cur] \in allowed
       THEN /\ Goto(b, IF cur \in Photos THEN "download" ELSE "consult")
            /\ UNCHANGED denied
       ELSE /\ Goto(b, "ack")
            /\ denied' = denied \cup {cur}
  /\ UNCHANGED <<platformVars, allowed, letterVars, stateVars, health, mark,
                 cycleVars, rung, interrupted, crashes>>

(* The photo's bytes are staged under the update id; the letter written    *)
(* in this pass will advertise them.                                       *)
StagePhoto(b) ==
  /\ pc[b] = "download"
  /\ shot' = TRUE
  /\ asset' = IF HasLetter(cur) THEN asset
                                ELSE [asset EXCEPT ![cur] = "staged"]
  /\ Goto(b, "consult")
  /\ UNCHANGED <<platformVars, allowed, letterVars, ledger, offset, index,
                 pointer, health, mark, cur, last, fresh, aim, historyVars>>

(* A slip that takes every failure to download for a transient one.        *)
PhotoRetried(b) ==
  /\ pc[b] = "download"
  /\ Goto(b, "top") /\ EndCycle
  /\ health' = "degraded"
  /\ UNCHANGED <<platformVars, allowed, letterVars, stateVars, mark,
                 historyVars>>

(* Any other failure to download: the letter says [photo unavailable].     *)
PhotoUnavailable(b) ==
  /\ pc[b] = "download"
  /\ Goto(b, "consult")
  /\ UNCHANGED <<platformVars, allowed, letterVars, stateVars, health, mark,
                 cycleVars, historyVars>>

(* A transient failure to download leaves poll_once, and with it the cycle *)
(* and the list of letters it had published.                               *)
AbandonCycle(b) ==
  /\ pc[b] = "download"
  /\ Goto(b, "top") /\ EndCycle
  /\ health' = "degraded"
  /\ UNCHANGED <<platformVars, allowed, letterVars, stateVars, mark,
                 historyVars>>

(* A slip that threads a reply under the letter it answers rather than     *)
(* under that letter's thread.                                             *)
ThreadOfAnswered(t) == t

(* _thread_of: a stored letter's own thread, or itself when it has none.   *)
ThreadOf(t) == IF HasLetter(t) /\ thread[t] # 0 THEN thread[t] ELSE t

(* The message index resolves a platform reply, exact or not at all; then  *)
(* publish_once consults the ledger.  A torn letter as the target raises.  *)
ConsultLedger(b) ==
  /\ pc[b] = "consult"
  /\ LET target == IF ReplyTo[cur] \in index THEN ReplyTo[cur] ELSE 0 IN
       IF target # 0 /\ HasLetter(target) /\ life[target] = "torn"
         THEN Exit(b)
         ELSE /\ aim' = IF target = 0 THEN 0 ELSE ThreadOf(target)
              /\ Goto(b, IF cur \in ToSet(ledger) THEN "duplicate"
                                                  ELSE "findInbox")
              /\ UNCHANGED <<mark, cur, last, fresh, shot>>
  /\ UNCHANGED <<platformVars, allowed, letterVars, stateVars, health,
                 historyVars>>

(* A slip that keeps the whole history of delivered ids.                   *)
RecordUntrimmed(l, u) == Append(l, u)

(* _record_delivered: append, keep the last LedgerCap.                     *)
Record(l, u) ==
  LET grown == Append(l, u)
      extra == IF Len(grown) > LedgerCap THEN Len(grown) - LedgerCap ELSE 0
  IN SubSeq(grown, extra + 1, Len(grown))

(* find_by_update globs inbox/ ...                                         *)
FindInInbox(b) ==
  /\ pc[b] = "findInbox"
  /\ IF Readable(cur, inbox)
       THEN ledger' = Record(ledger, cur) /\ Goto(b, "duplicate")
       ELSE UNCHANGED ledger /\ Goto(b, "findProcessed")
  /\ UNCHANGED <<platformVars, allowed, letterVars, offset, index, pointer,
                 asset, health, mark, cycleVars, historyVars>>

(* A slip that looks for the letter in inbox/ alone.                       *)
FindInInboxOnly(b) ==
  /\ pc[b] = "findProcessed"
  /\ Goto(b, "link")
  /\ UNCHANGED <<platformVars, allowed, letterVars, stateVars, health, mark,
                 cycleVars, historyVars>>

(* A slip that records the delivery before the letter exists.              *)
FindThenRecord(b) ==
  /\ pc[b] = "findProcessed"
  /\ ledger' = Record(ledger, cur)
  /\ Goto(b, IF Readable(cur, processed) THEN "duplicate" ELSE "link")
  /\ UNCHANGED <<platformVars, allowed, letterVars, offset, index, pointer,
                 asset, health, mark, cycleVars, historyVars>>

(* ... and then processed/, in the direction letters travel.               *)
FindInProcessed(b) ==
  /\ pc[b] = "findProcessed"
  /\ IF Readable(cur, processed)
       THEN ledger' = Record(ledger, cur) /\ Goto(b, "duplicate")
       ELSE UNCHANGED ledger /\ Goto(b, "link")
  /\ UNCHANGED <<platformVars, allowed, letterVars, offset, index, pointer,
                 asset, health, mark, cycleVars, historyVars>>

(* publish: the temporary file is fsynced and linked to its name.          *)
LinkLetter(b) ==
  /\ pc[b] = "link"
  /\ inbox' = inbox \cup {cur}
  /\ life' = [life EXCEPT ![cur] = "linked"]
  /\ thread' = [thread EXCEPT ![cur] = aim]
  /\ born' = [born EXCEPT ![cur] = aim]
  /\ copies' = [copies EXCEPT ![cur] = @ + 1]
  /\ advert' = IF shot THEN advert \cup {cur} ELSE advert \ {cur}
  /\ Goto(b, "sync")
  /\ UNCHANGED <<platformVars, allowed, processed, stateVars, health, mark,
                 cycleVars, historyVars>>

(* A publish without the fsync of inbox/.                                  *)
SkipSync(b) ==
  /\ pc[b] = "sync"
  /\ Goto(b, "record")
  /\ UNCHANGED <<platformVars, allowed, letterVars, stateVars, health, mark,
                 cycleVars, historyVars>>

(* publish: _fsync_dir(inbox) makes the name durable.                      *)
SyncInbox(b) ==
  /\ pc[b] = "sync"
  /\ life' = [life EXCEPT ![cur] = "synced"]
  /\ Goto(b, "record")
  /\ UNCHANGED <<platformVars, allowed, inbox, processed, thread, born,
                 copies, advert, stateVars, health, mark, cycleVars,
                 historyVars>>

RecordDelivered(b) ==
  /\ pc[b] = "record"
  /\ ledger' = Record(ledger, cur)
  /\ fresh' = fresh \cup {cur}
  /\ Goto(b, IF shot THEN "promote" ELSE "index")
  /\ UNCHANGED <<platformVars, allowed, letterVars, offset, index, pointer,
                 asset, health, mark, cur, last, aim, shot, historyVars>>

(* media_store.promote renames the staged directory under the letter id;   *)
(* an OSError is passed over.                                              *)
PlacePhoto(b) ==
  /\ pc[b] = "promote"
  /\ \/ /\ asset' = [asset EXCEPT ![cur] = "placed"]
        /\ Goto(b, "markReady")
     \/ /\ "promote" \in Faults
        /\ UNCHANGED asset
        /\ Goto(b, "index")
  /\ UNCHANGED <<platformVars, allowed, letterVars, ledger, offset, index,
                 pointer, health, mark, cycleVars, historyVars>>

MarkPhotoReady(b) ==
  /\ pc[b] = "markReady"
  /\ asset' = [asset EXCEPT ![cur] = "ready"]
  /\ Goto(b, "index")
  /\ UNCHANGED <<platformVars, allowed, letterVars, ledger, offset, index,
                 pointer, health, mark, cycleVars, historyVars>>

(* msgindex.record.  A letter whose thread the index resolved is stamped   *)
(* with it; any other asks the correspondent's pointer first.              *)
RecordIndex(b) ==
  /\ pc[b] = "index"
  /\ index' = index \cup {cur}
  /\ Goto(b, IF aim = 0 THEN "pointer" ELSE "stamp")
  /\ UNCHANGED <<platformVars, allowed, letterVars, ledger, offset, pointer,
                 asset, health, mark, cycleVars, historyVars>>

(* _current_thread: the letter roots a new thread when there is none or    *)
(* /new cuts it; otherwise it joins the open one.                          *)
CurrentThread(b) ==
  /\ pc[b] = "pointer"
  /\ LET c == From[cur] IN
       /\ aim' = IF cur \in CutAt \/ pointer[c] = 0 THEN cur ELSE pointer[c]
       /\ pointer' = [pointer EXCEPT ![c] = aim']
  /\ Goto(b, "stamp")
  /\ UNCHANGED <<platformVars, allowed, letterVars, ledger, offset, index,
                 asset, health, mark, cur, last, fresh, shot, historyVars>>

(* _stamp_thread reads inbox/<id>.md.  If the agent has filed the letter,  *)
(* FileNotFoundError ends the process.                                     *)
ReadForStamp(b) ==
  /\ pc[b] = "stamp"
  /\ IF cur \in inbox THEN Goto(b, "replace") /\ UNCHANGED <<mark, cycleVars>>
                      ELSE Exit(b)
  /\ UNCHANGED <<platformVars, allowed, letterVars, stateVars, health,
                 historyVars>>

(* ... and replaces it, wherever the letter is by now.                     *)
StampThread(b) ==
  /\ pc[b] = "replace"
  /\ inbox' = inbox \cup {cur}
  /\ life' = [life EXCEPT ![cur] = "rewritten"]
  /\ thread' = [thread EXCEPT ![cur] = aim]
  /\ Goto(b, "ack")
  /\ UNCHANGED <<platformVars, allowed, processed, born, copies, advert,
                 stateVars, health, mark, cycleVars, historyVars>>

(* A slip that drops what is staged for a redelivered update unplaced.     *)
DiscardDuplicate(b) ==
  /\ pc[b] = "duplicate"
  /\ asset' = [asset EXCEPT ![cur] = IF @ = "staged" THEN "none" ELSE @]
  /\ Goto(b, "ack")
  /\ UNCHANGED <<platformVars, allowed, letterVars, ledger, offset, index,
                 pointer, health, mark, cycleVars, historyVars>>

(* An update already delivered: finish placing the photo its letter        *)
(* advertises, then drop everything staged for it.  A letter that cannot   *)
(* be found is left alone.                                                 *)
FinishDuplicate(b) ==
  /\ pc[b] = "duplicate"
  /\ asset' \in
       IF ~ (Readable(cur, inbox) \/ Readable(cur, processed))
         THEN {asset}
         ELSE LET discarded == [asset EXCEPT ![cur] =
                                  IF @ = "staged" THEN "none" ELSE @]
                  finished  == [asset EXCEPT ![cur] =
                                  IF @ = "none" THEN @ ELSE "ready"]
              IN IF cur \in advert
                   THEN {finished} \cup
                        (IF "promote" \in Faults THEN {discarded} ELSE {})
                   ELSE {discarded}
  /\ Goto(b, "ack")
  /\ UNCHANGED <<platformVars, allowed, letterVars, ledger, offset, index,
                 pointer, health, mark, cycleVars, historyVars>>

(* After the last update: ring if the cycle published anything.            *)
AfterItem == IF cur < last THEN "gate"
             ELSE IF fresh # {} THEN "ring" ELSE "confirm"

(* An acknowledgement that is persisted before the platform has heard it.  *)
AckAndPersist(b) ==
  /\ pc[b] = "ack"
  /\ mark' = [mark EXCEPT ![b] = Larger(@, cur)]
  /\ offset' = mark'[b]
  /\ cur' = cur + 1 /\ aim' = 0 /\ shot' = FALSE
  /\ Goto(b, AfterItem)
  /\ UNCHANGED <<platformVars, allowed, letterVars, ledger, index, pointer,
                 asset, health, last, fresh, historyVars>>

(* Telegram.ack: the high-water mark, in memory only.                      *)
Ack(b) ==
  /\ pc[b] = "ack"
  /\ mark' = [mark EXCEPT ![b] = Larger(@, cur)]
  /\ cur' = cur + 1 /\ aim' = 0 /\ shot' = FALSE
  /\ Goto(b, AfterItem)
  /\ UNCHANGED <<platformVars, allowed, letterVars, stateVars, health, last,
                 fresh, historyVars>>

----------------------------------------------------------------------------
(* The end of the cycle.                                                   *)

(* A heartbeat written when the poll is done, before confirm.              *)
RingThenBeat(b) ==
  /\ pc[b] = "ring"
  /\ rung' = rung \cup fresh
  /\ Goto(b, "beat")
  /\ UNCHANGED <<platformVars, allowed, letterVars, stateVars, health, mark,
                 cycleVars, denied, interrupted, crashes>>

(* One ring for the batch.  Its failure is recorded, never raised.         *)
Ring(b) ==
  /\ pc[b] = "ring"
  /\ rung' = rung \cup fresh
  /\ Goto(b, "confirm")
  /\ UNCHANGED <<platformVars, allowed, letterVars, stateVars, health, mark,
                 cycleVars, denied, interrupted, crashes>>

(* Telegram.confirm: transmit the mark, if there is one.                   *)
Confirm(b) ==
  /\ pc[b] = "confirm"
  /\ forgot' = Larger(forgot, mark[b])
  /\ Goto(b, IF mark[b] = 0 THEN "beat" ELSE "save")
  /\ UNCHANGED <<arrived, allowed, letterVars, stateVars, health, mark,
                 cycleVars, historyVars>>

(* ... and only then persist it.                                           *)
SaveOffset(b) ==
  /\ pc[b] = "save"
  /\ offset' = mark[b]
  /\ Goto(b, "beat")
  /\ UNCHANGED <<platformVars, allowed, letterVars, ledger, index, pointer,
                 asset, health, mark, cycleVars, historyVars>>

Beat(b) ==
  /\ pc[b] = "beat"
  /\ health' = "running"
  /\ Goto(b, "top") /\ EndCycle
  /\ UNCHANGED <<platformVars, allowed, letterVars, stateVars, mark,
                 historyVars>>

----------------------------------------------------------------------------
(* Failures.                                                               *)

Interrupted(dying) ==
  interrupted \cup {u \in Update : /\ u = cur /\ life[u] = "linked"
                                   /\ \E b \in dying : pc[b] = "sync"}

(* A process dies; what it wrote stays visible, its memory is gone.        *)
Die(b) ==
  /\ pc[b] # "down"
  /\ crashes < MaxCrashes
  /\ crashes' = crashes + 1
  /\ interrupted' = Interrupted({b})
  /\ Exit(b)
  /\ UNCHANGED <<platformVars, allowed, letterVars, stateVars, health, denied,
                 rung>>

(* The machine loses power.  Of the letters, names not yet durable may be  *)
(* lost, and a rewrite nobody fsynced may be undone or, with "torn", leave *)
(* an empty file; whatever is left is durable.  Each state file is its     *)
(* last content or an earlier one, and the directories above a staged      *)
(* photo were never fsynced.                                               *)
PowerLoss ==
  /\ "power" \in Faults
  /\ crashes < MaxCrashes
  /\ crashes' = crashes + 1
  /\ interrupted' = Interrupted(Bridges)
  /\ pc' = [b \in Bridges |-> "down"]
  /\ \E lost \in SUBSET {u \in Update : life[u] = "linked"},
        undone \in SUBSET {u \in Update : life[u] = "rewritten"},
        torn \in SUBSET {u \in Update : /\ life[u] = "rewritten"
                                        /\ "torn" \in Faults} :
       /\ inbox' = inbox \ lost
       /\ processed' = processed \ lost
       /\ advert' = advert \ lost
       /\ copies' = [u \in Update |-> IF u \in lost THEN 0 ELSE copies[u]]
       /\ life' = [u \in Update |->
                     IF u \in lost \/ life[u] = "none" THEN "none"
                     ELSE IF u \in torn \/ life[u] = "torn" THEN "torn"
                     ELSE "synced"]
       /\ thread' = [u \in Update |->
                       IF u \in undone THEN born[u] ELSE thread[u]]
  /\ \E kept \in 0..Len(ledger) : ledger' = SubSeq(ledger, 1, kept)
  /\ offset' \in 0..offset
  /\ \E gone \in SUBSET {u \in Update : asset[u] = "staged"} :
       asset' = [u \in Update |-> IF u \in gone THEN "none" ELSE asset[u]]
  /\ index' \in {index, index \ {cur}}
  /\ pointer' \in {pointer, [c \in Chats |-> 0]}
  /\ mark' = [b \in Bridges |-> 0]
  /\ EndCycle
  /\ UNCHANGED <<platformVars, allowed, born, health, denied, rung>>

----------------------------------------------------------------------------
World ==
  \/ Arrive
  \/ \E c \in Chats : EditAllowlist(c)
  \/ \E u \in Update : Sweep(u)

(* The steps a running process takes without waiting for an answer.        *)
Local(b) ==
  \/ HoldLock(b) \/ Gate(b) \/ ConsultLedger(b)
  \/ FindInInbox(b) \/ FindInProcessed(b) \/ LinkLetter(b) \/ SyncInbox(b)
  \/ RecordDelivered(b) \/ PlacePhoto(b) \/ MarkPhotoReady(b)
  \/ RecordIndex(b) \/ CurrentThread(b) \/ ReadForStamp(b) \/ StampThread(b)
  \/ FinishDuplicate(b) \/ Ack(b) \/ Ring(b) \/ SaveOffset(b) \/ Beat(b)

Answered(b) == StagePhoto(b) \/ PhotoUnavailable(b)

Failed(b) == Transient(b) \/ Yield(b) \/ Refused(b) \/ AbandonCycle(b)

Next ==
  \/ World
  \/ \E b \in Bridges : \/ LoadOffset(b) \/ Local(b) \/ Fetch(b)
                        \/ Answered(b) \/ Confirm(b) \/ Failed(b) \/ Die(b)
  \/ PowerLoss

Spec == Init /\ [][Next]_vars

(* The process keeps running between requests; a request made again and    *)
(* again is eventually answered; the service manager restarts a bridge     *)
(* that died, but not one that stood down (a clean exit stays down).       *)
Fairness ==
  \A b \in Bridges :
    /\ WF_vars(Local(b))
    /\ WF_vars(health # "yielded" /\ LoadOffset(b))
    /\ SF_vars(Fetch(b))
    /\ SF_vars(Confirm(b))
    /\ SF_vars(Answered(b))

FairSpec == Spec /\ Fairness

----------------------------------------------------------------------------
(* Properties.                                                             *)

PlatformType ==
  /\ arrived \in 0..NumUpdates /\ forgot \in 0..NumUpdates
  /\ allowed \subseteq Chats

LetterType ==
  /\ inbox \subseteq Update /\ processed \subseteq Update
  /\ life \in [Update -> Life]
  /\ thread \in [Update -> 0..NumUpdates]
  /\ born \in [Update -> 0..NumUpdates]
  /\ copies \in [Update -> Nat]
  /\ advert \subseteq Update

StateType ==
  /\ ledger \in Seq(Update) /\ Len(ledger) <= LedgerCap
  /\ offset \in 0..NumUpdates
  /\ index \subseteq Update
  /\ pointer \in [Chats -> 0..NumUpdates]
  /\ asset \in [Update -> AssetPlace]
  /\ health \in {"none", "starting", "running", "degraded", "yielded"}

ProcessType ==
  /\ pc \in [Bridges -> Steps]
  /\ mark \in [Bridges -> 0..NumUpdates]
  /\ cur \in 1..(NumUpdates + 1) /\ last \in 0..NumUpdates
  /\ fresh \subseteq Update
  /\ aim \in 0..NumUpdates
  /\ shot \in BOOLEAN

HistoryType ==
  /\ denied \subseteq Update /\ rung \subseteq Update
  /\ interrupted \subseteq Update
  /\ crashes \in 0..MaxCrashes

(* Every variable has its type; the ledger never outgrows its cap          *)
(* (_record_delivered).                                                    *)
TypeOK ==
  PlatformType /\ LetterType /\ StateType /\ ProcessType /\ HistoryType

(* Exactly-once inbound, the "at most" half: however updates are           *)
(* redelivered, whatever the ledger has lost or trimmed, and wherever the  *)
(* agent has moved the letter meanwhile, publish_once writes no second     *)
(* letter for an update.                                                   *)
AtMostOneLetter == \A u \in Update : copies[u] <= 1

(* What the platform may forget.  *)
Durable(u) == HasLetter(u) /\ life[u] \in {"synced", "rewritten"}

(* "Letter to disk, THEN acknowledge": an update the platform no longer    *)
(* holds was denied at the gate or has a letter whose name is durable.     *)
(* The one exception is a letter whose publisher died between the link and *)
(* the fsync of inbox/: find_by_update later takes the visible name for a  *)
(* delivered letter and nothing fsyncs it.                                 *)
ForgottenIsKept ==
  \A u \in Update :
    u <= forgot => u \in denied \/ Durable(u) \/ u \in interrupted

(* confirm() persists only what the platform has accepted, so no restart,  *)
(* not even one with a stale mark, can make it skip an update.             *)
OffsetBehindPlatform ==
  /\ offset <= forgot
  /\ forgot <= arrived
  /\ \A b \in Bridges : ~ Holding(b) /\ pc[b] # "down" => mark[b] <= forgot

(* A thread has one root: the thread a letter names is a letter that names *)
(* itself or, if its stamp never landed, nothing (_thread_of,              *)
(* _current_thread and _stamp_thread together).                            *)
ThreadsAreFlat ==
  \A u \in inbox \cup processed :
    LET root == thread[u] IN
      root # 0 => /\ From[root] = From[u]
                  /\ HasLetter(root) => thread[root] \in {0, root}

(* A letter that advertises a photo has it by the time the platform may    *)
(* forget the update: a death between the letter and the rename is mended  *)
(* when the update is offered again, unless the sender has been taken off  *)
(* the allowlist meanwhile or the disk refused the rename.                 *)
AdvertisedIsPlaced ==
  "promote" \notin Faults /\ "power" \notin Faults =>
    \A u \in advert : u <= forgot /\ u \notin denied => asset[u] = "ready"

(* "Liveness means a COMPLETED cycle, not a poll": the heartbeat turns to  *)
(* running only once the batch is rung, the platform was told and what it  *)
(* was told is saved.                                                      *)
HonestHeartbeat ==
  [][health' # health /\ health' = "running" =>
       \E b \in Bridges : /\ Holding(b) /\ mark[b] <= forgot /\ mark[b] <= offset
                          /\ fresh \subseteq rung]_vars

(* What all of this is for, see Mailbox.  It holds as long as the power    *)
(* does; without it a letter may have to be written again.                 *)
Promise == INSTANCE Mailbox WITH
  offered <- arrived, kept <- inbox \cup processed, refused <- denied,
  forgotten <- forgot

(* Process deaths, retries, redeliveries and a second bridge included,     *)
(* every step of the bridge is a step of the mailbox or none.              *)
MailboxPromise == Promise!Spec

(* Every update the platform holds is eventually consumed, denied ones and *)
(* redelivered ones included, unless the bridge stood down for another     *)
(* consumer of its token.                                                  *)
EveryUpdateSettles ==
  \A u \in Update : u <= arrived ~> u <= forgot \/ health = "yielded"

----------------------------------------------------------------------------
(* Statements of the documentation that the code does not keep.            *)

(* docs/invariants.md: the platform is acknowledged after the letter       *)
(* exists on disk; losing power must not take the only copy.               *)
ForgottenIsReadable ==
  \A u \in Update : u <= forgot => u \in denied \/ life[u] # "torn"

(* bridge/run.py: newly durable mail gets its one notify before the        *)
(* platform forgets it.                                                    *)
ForgottenIsRung ==
  \A u \in Update : u <= forgot /\ HasLetter(u) => u \in rung
=============================================================================
