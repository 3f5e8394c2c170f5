------------------------------ MODULE Discord ------------------------------
(***************************************************************************)
(* The receiving half on Discord (adapters/discord/api.py, events.py) under*)
(* the poll cycle of bridge/run.py and poller/loop.py.                     *)
(*                                                                         *)
(* Discord acknowledges nothing.  A gateway session delivers what is posted*)
(* while it lasts, and a Resume replays it from a sequence number the      *)
(* bridge keeps on disk; an Identify starts a new session, which replays   *)
(* nothing.  What makes up for that is history: on connect every watched   *)
(* place - allowlisted channels and tracked threads - is marked pending and*)
(* read from its marker.  A mention in a thread whose parent cannot be     *)
(* looked up leaves a floor in the markers, to be read from later.  Markers*)
(* move in confirm(), never those of a pending place.                      *)
(*                                                                         *)
(* Messages are numbered in the order of their snowflakes.  Abstracted: the*)
(* letter and the allowlist (module Inbound); frames, pages and rate-limit *)
(* clocks (a wait is a failed read); the counts of attempts and controls   *)
(* in one fetch (running out of them is one of the outcomes); access that  *)
(* is taken from the bot; a READY that cannot be parsed.                   *)
(***************************************************************************)
EXTENDS Integers, FiniteSets, FiniteSetsExt

CONSTANTS
  NumMsgs,      \* messages are 1..NumMsgs, in the order they are posted
  Channels,     \* channels on the allowlist, DMs included
  Threads,      \* threads below them
  Place,        \* Place[m]: the channel or thread m is posted in
  Mentions,     \* messages events.normalise turns into an item
  MaxThreads,   \* Discord.MAX_THREADS
  MaxFaults     \* bound: deaths, failed calls, gateway closes and controls

Message == 1..NumMsgs
Places == Channels \cup Threads

ASSUME DiscordAssumption ==
  /\ NumMsgs \in Nat
  /\ Channels \cap Threads = {}
  /\ Place \in [Message -> Places]
  /\ Mentions \subseteq Message
  /\ MaxThreads \in Nat /\ MaxFaults \in Nat

VARIABLES
  sent,         \* messages 1..sent have been posted
  settled,      \* messages with a letter, or denied
  file,         \* discord-markers.json, see Markers
  sess,         \* discord-session.json: its seq, NoSession without a file
  pc,           \* where the bridge is
  ws,           \* _ws is not None
  control,      \* _control: "none", "resume" or "identify"
  seq,          \* _seq: the last message of the session that was read
  markers,      \* _markers, as the process has them
  queue,        \* _queue
  inflight,     \* _inflight
  staged,       \* _staged
  dropped,      \* _dropped_marks of channels
  held,         \* _held
  pending,      \* _pending
  after,        \* _resume_after: a history read stopped here, 0 for none
  cache,        \* _channel_cache: threads whose parent is known
  todo,         \* places the running catch-up has still to read
  deferred,     \* fetch() holds a TransientFailure back
  why,          \* history: why m may be missed, see Reasons
  faults        \* history: faults so far

disk    == <<settled, file, sess>>
gateway == <<ws, control, seq>>
batch   == <<queue, inflight, staged, dropped, held>>
reads   == <<pending, after, cache, todo, deferred>>
ghosts  == <<why, faults>>
vars == <<sent, disk, pc, gateway, markers, batch, reads, ghosts>>

NoSession == -1
NoFloor == NumMsgs        \* a floor lies below some message

(* at[p]: the marker of a channel or tracked thread, 0 for none.           *)
Markers == [at: [Places -> 0..NumMsgs], tracked: SUBSET Threads,
            floor: [Threads -> 0..NumMsgs]]

(* "identified": posted before a new session the bridge opened in the      *)
(* middle of reading the gateway.  "untracked": in a thread it did not     *)
(* track when its session ended.  "saved": received in such a thread by a  *)
(* process that died with no session left to replay it.  "passed": a replay*)
(* broke off before the catch-up, and what it had brought was above m.     *)
Reasons == {"", "identified", "untracked", "saved", "passed"}
Steps == {"down", "fetch", "connect", "resume", "read", "live", "resumeLive",
          "handle", "confirm"}

Posted == 1..sent
Floored(m) == {t \in Threads : m.floor[t] # NoFloor}
Watched == Channels \cup markers.tracked
InHand == queue \cup inflight
Fault == faults < MaxFaults /\ faults' = faults + 1

(* Mentions nothing on disk leads back to.                                 *)
Unanchored(f) ==
  {m \in (Mentions \cap Posted) \ settled :
     /\ Place[m] \in Threads \ f.tracked
     /\ f.floor[Place[m]] >= m}
Blame(some, reason) ==
  why' = [m \in Message |-> IF m \in some /\ why[m] = "" THEN reason ELSE why[m]]

Init ==
  /\ sent = 0 /\ settled = {}
  /\ file = [at |-> [p \in Places |-> 0], tracked |-> {},
             floor |-> [t \in Threads |-> NoFloor]]
  /\ sess = NoSession
  /\ pc = "down" /\ ws = FALSE /\ control = "none" /\ seq = 0
  /\ markers = file
  /\ queue = {} /\ inflight = {} /\ staged = {} /\ dropped = {} /\ held = {}
  /\ pending = {} /\ after = [p \in Places |-> 0] /\ cache = {}
  /\ todo = {} /\ deferred = FALSE
  /\ why = [m \in Message |-> ""] /\ faults = 0

----------------------------------------------------------------------------
Post ==
  /\ sent < NumMsgs
  /\ sent' = sent + 1
  /\ LET p == Place[sent'] IN
       Blame({sent'} \cap {m \in Mentions : /\ sess = NoSession
                                          /\ p \in Threads \ markers.tracked
                                          /\ markers.floor[p] >= m},
             "untracked")
  /\ UNCHANGED <<disk, pc, gateway, markers, batch, reads, faults>>

Start ==
  /\ pc = "down"
  /\ pc' = "fetch"
  /\ markers' = file
  /\ UNCHANGED <<sent, disk, gateway, batch, reads, ghosts>>

(* A death, or a FetchFailed.                                              *)
Die ==
  /\ pc # "down"
  /\ Fault
  /\ pc' = "down" /\ ws' = FALSE /\ control' = "none" /\ seq' = 0
  /\ markers' = file
  /\ queue' = {} /\ inflight' = {} /\ staged' = {} /\ dropped' = {}
  /\ held' = {} /\ pending' = {} /\ after' = [p \in Places |-> 0]
  /\ cache' = {} /\ todo' = {} /\ deferred' = FALSE
  /\ Blame({m \in InHand \cap Unanchored(file) : sess = NoSession \/ m <= sess},
           "saved")
  /\ UNCHANGED <<sent, disk>>

----------------------------------------------------------------------------
(* fetch().                                                                *)

(* _catch_up: pending before the first read.  On connect everything, on a  *)
(* live socket what an earlier read has left.                              *)
CatchUp(wanted) ==
  /\ todo' = (Watched \cup Floored(markers)) \cap wanted
  /\ pending' = pending \cup todo'
  /\ pc' = "read"

(* A slip that reads no history again while the socket lives.              *)
NothingLeft == {}

Unread == pending \cup {p \in Places : after[p] # 0} \cup Floored(markers)

FetchBegin ==
  /\ pc = "fetch"
  /\ queue' = queue \cup inflight /\ inflight' = {}
  /\ deferred' = FALSE
  /\ IF ws
       THEN CatchUp(Unread)
       ELSE pc' = "connect" /\ UNCHANGED <<todo, pending>>
  /\ UNCHANGED <<sent, disk, gateway, markers, staged, dropped, held, after,
                 cache, ghosts>>

(* The cycle outran the heartbeat: the socket is closed before the fetch.  *)
HeartbeatExpired ==
  /\ pc = "fetch" /\ ws
  /\ Fault
  /\ ws' = FALSE
  /\ UNCHANGED <<sent, disk, pc, control, seq, markers, batch, reads, why>>

(* A new session knows nothing of what was posted before it.               *)
NewSession ==
  /\ ws' = TRUE /\ control' = "none"
  /\ seq' = sent /\ sess' = sent

Lost == Unanchored(markers) \ InHand

(* _ensure_connection: a session on disk is resumed.  What it replays is   *)
(* ingested before RESUMED, which saves the sequence number; then comes    *)
(* the full catch-up.                                                      *)
Resume ==
  /\ pc = "connect" /\ sess # NoSession
  /\ ws' = TRUE /\ control' = "none" /\ seq' = sess
  /\ pc' = "resume"
  /\ UNCHANGED <<sent, disk, markers, batch, reads, ghosts>>

Resumed ==
  /\ pc \in {"resume", "resumeLive"}
  /\ sess' = seq
  /\ IF pc = "resume" THEN CatchUp(Places)
                      ELSE pc' = "live" /\ UNCHANGED <<todo, pending>>
  /\ UNCHANGED <<sent, settled, file, gateway, markers, batch, after, cache,
                 deferred, ghosts>>

(* No session, one too old, or one Discord no longer honours (op 9).       *)
Identify ==
  /\ pc \in {"connect", "resume"}
  /\ NewSession
  /\ CatchUp(Places)
  /\ Blame(Lost, "untracked")
  /\ UNCHANGED <<sent, settled, file, markers, batch, after, cache, deferred,
                 faults>>

Passed ==
  {m \in (Mentions \cap Posted) \ (settled \cup InHand) :
     /\ Place[m] \in (Watched \cup Floored(markers)) \ pending
     /\ \E n \in queue \cup dropped : n > m /\ Place[n] = Place[m]}

Hand == inflight' = queue /\ queue' = {} /\ pc' = "handle"

(* No socket: what is queued is still handled and the session, if any,     *)
(* saved; an empty fetch raises.                                           *)
ConnectFails ==
  /\ pc \in {"connect", "resume"}
  /\ Fault
  /\ ws' = FALSE /\ control' = "none"
  /\ \/ /\ queue # {} /\ Hand
        /\ seq' \in {sess, seq} \ {NoSession}
        /\ sess' = IF sess = NoSession THEN NoSession ELSE seq'
        /\ Blame(Passed, "passed")
     \/ /\ pc' = "fetch" /\ UNCHANGED <<seq, queue, inflight>>
        /\ \/ UNCHANGED <<sess, why>>
           \/ sess' = NoSession /\ Blame(Lost, "untracked")    \* op 9
  /\ UNCHANGED <<sent, settled, file, markers, staged, dropped, held, reads>>

----------------------------------------------------------------------------
(* Catching up.                                                            *)

(* _ingest of rows of history, or of one event, whose parent is known.     *)
Ingest(rows) ==
  /\ queue' = queue \cup (rows \cap Mentions)
  /\ dropped' = dropped \cup (rows \ Mentions)

(* _retry_unresolved: the parent is known now; the thread is tracked from  *)
(* its floor unless it already has a marker.                               *)
Adopted(t) ==
  [markers EXCEPT
     !.tracked = @ \cup {t},
     !.at[t] = IF t \in markers.tracked THEN @ ELSE markers.floor[t],
     !.floor[t] = NoFloor]
Looked(p) == IF p \in Floored(markers) THEN Adopted(p) ELSE markers

Rows(p, low, top) == {m \in Posted : Place[m] = p /\ low < m /\ m <= top}
Low(p) == IF after[p] # 0 THEN after[p] ELSE Looked(p).at[p]

(* _read_history: everything after the marker, or as far as the page cap.  *)
ReadPlace(p) ==
  /\ pc = "read" /\ p \in todo
  /\ todo' = todo \ {p}
  /\ markers' = Looked(p)
  /\ cache' = cache \cup ({p} \cap Threads)
  /\ \/ /\ Ingest(Rows(p, Low(p), sent))
        /\ after' = [after EXCEPT ![p] = 0]
        /\ pending' = pending \ {p}
     \/ \E top \in Rows(p, Low(p), sent) :
          /\ Ingest(Rows(p, Low(p), top))
          /\ after' = [after EXCEPT ![p] = top]
          /\ pending' = pending \cup {p}
  /\ UNCHANGED <<sent, disk, pc, gateway, inflight, staged, held, deferred,
                 why, faults>>

(* The lookup of the place may fail, or any page; the place stays pending. *)
(* What raises ends the catch-up and is held back while the socket lives;  *)
(* a heartbeat that goes unanswered in between takes the socket with it.   *)
ReadFails(p) ==
  /\ pc = "read" /\ p \in todo
  /\ Fault
  /\ pending' = pending \cup {p}
  /\ \/ UNCHANGED <<markers, cache, queue, dropped, after>>
     \/ /\ markers' = Looked(p)
        /\ cache' = cache \cup ({p} \cap Threads)
        /\ \E top \in {Low(p)} \cup Rows(p, Low(p), sent) :
             /\ Ingest(Rows(p, Low(p), top))
             /\ after' = [after EXCEPT ![p] = IF top = Low(p) THEN @ ELSE top]
  /\ \/ todo' = todo \ {p} /\ UNCHANGED <<deferred, ws>>
     \/ todo' = {} /\ deferred' = TRUE /\ ws' \in {ws, FALSE}
  /\ UNCHANGED <<sent, disk, pc, control, seq, inflight, staged, held, why>>

ReadsDone ==
  /\ pc = "read" /\ todo = {}
  /\ pc' = "live"
  /\ UNCHANGED <<sent, disk, gateway, markers, batch, reads, ghosts>>

----------------------------------------------------------------------------
(* The gateway.                                                            *)

Listening ==
  /\ pc \in {"live", "resume", "resumeLive"} /\ ws /\ control = "none"
  /\ seq < sent

(* MESSAGE_CREATE, in the order of the session.  Chatter in a thread moves *)
(* no marker that is ever read from.                                       *)
Event ==
  /\ Listening
  /\ seq' = seq + 1
  /\ IF Place[seq'] \in Channels \/ seq' \in Mentions
       THEN Ingest({seq'})
       ELSE UNCHANGED <<queue, dropped>>
  /\ cache' = IF seq' \in Mentions THEN cache \cup ({Place[seq']} \cap Threads)
                                   ELSE cache
  /\ UNCHANGED <<sent, disk, pc, ws, control, markers, inflight, staged, held,
                 pending, after, todo, deferred, why, faults>>

(* A thread whose parent lookup fails: the floor goes to disk at once.     *)
Smaller(m, n) == IF m <= n THEN m ELSE n

Unresolved ==
  /\ Listening
  /\ LET m == seq + 1
         t == Place[m]
     IN /\ m \in Mentions /\ t \in Threads \ cache
        /\ Fault
        /\ seq' = m
        /\ markers' = [markers EXCEPT !.floor[t] = Smaller(@, m - 1)]
        /\ pending' = pending \cup {t}
  /\ file' = markers'
  /\ UNCHANGED <<sent, settled, sess, pc, ws, control, batch, after, cache,
                 todo, deferred, why>>

(* op 7, and op 9: an invalid session, resumable or not.                   *)
Control ==
  /\ pc = "live" /\ ws /\ control = "none"
  /\ Fault
  /\ \/ control' = "resume" /\ UNCHANGED <<sess, why>>
     \/ /\ control' = "identify"
        /\ sess' = NoSession /\ Blame(Lost, "untracked")
  /\ UNCHANGED <<sent, settled, file, pc, ws, seq, markers, batch, reads>>

(* _apply_control in the middle of reading the gateway.  The session comes *)
(* from the file or from memory; Discord may refuse it (op 9), and then,   *)
(* as on a control that asks for it, a new one is opened here, with no     *)
(* catch-up to follow.                                                     *)
ResumeLive ==
  /\ pc = "live" /\ ws /\ control = "resume"
  /\ control' = "none"
  /\ seq' \in {seq, sess} \ {NoSession}
  /\ pc' = "resumeLive"
  /\ UNCHANGED <<sent, disk, ws, markers, batch, reads, ghosts>>

IdentifyLive ==
  /\ \/ pc = "live" /\ ws /\ control # "none"
     \/ pc = "resumeLive"
  /\ NewSession
  /\ pc' = "live"
  /\ LET missed == {m \in (Mentions \cap Posted) \ (settled \cup InHand) : why[m] = ""}
     IN why' = [m \in Message |->
                  IF m \in missed \cap Lost THEN "untracked"
                  ELSE IF m \in missed /\ m > seq THEN "identified" ELSE why[m]]
  /\ UNCHANGED <<sent, settled, file, markers, batch, reads, faults>>

(* A close, a send that fails, a control that cannot be carried out or one *)
(* too many: fetch raises; in the last case the socket and the control     *)
(* wait for the next fetch.                                                *)
GatewayFails ==
  /\ pc \in {"live", "resumeLive"} /\ ws
  /\ Fault
  /\ pc' = "fetch"
  /\ \/ ws' = FALSE /\ control' = "none"
     \/ control # "none" /\ UNCHANGED <<ws, control>>
  /\ UNCHANGED <<sent, disk, seq, markers, batch, reads, why>>

(* The end of a poll.  Without a socket, a deferred failure is raised if   *)
(* nothing is queued; an idle gateway must have acknowledged a heartbeat.  *)
(* Otherwise the session is saved and the batch handed on.                 *)
PollEnds ==
  /\ pc = "live"
  /\ ~(deferred /\ queue = {} /\ ~ws)
  /\ Hand
  /\ sess' = IF sess # NoSession THEN seq ELSE sess
  /\ UNCHANGED <<sent, settled, file, gateway, markers, staged, dropped, held,
                 reads, ghosts>>

PollRaises ==
  /\ pc = "live" /\ queue = {}
  /\ \/ deferred /\ ~ws /\ UNCHANGED faults
     \/ Fault
  /\ pc' = "fetch"
  /\ UNCHANGED <<sent, disk, gateway, markers, batch, reads, why>>

----------------------------------------------------------------------------
(* The cycle.                                                              *)

Handle(some) ==
  /\ pc = "handle"
  /\ some \subseteq inflight
  /\ settled' = settled \cup some
  /\ staged' = staged \cup some
  /\ IF some = inflight THEN pc' = "confirm" /\ UNCHANGED faults
                        ELSE pc' = "fetch" /\ Fault
  /\ UNCHANGED <<sent, file, sess, gateway, markers, queue, inflight, dropped,
                 held, reads, why>>

Highest(S, low) == Max(S \cup {low})

(* _cap_threads: the most recent threads stay tracked.                     *)
MostRecent(m) ==
  {kept \in SUBSET m.tracked :
     /\ Cardinality(kept) = Smaller(MaxThreads, Cardinality(m.tracked))
     /\ \A t \in kept, u \in m.tracked \ kept : m.at[u] <= m.at[t]}

Capped(m, kept) ==
  [m EXCEPT !.tracked = kept,
            !.at = [p \in Places |-> IF p \in Channels \cup kept THEN @[p] ELSE 0]]

(* A slip that moves the markers of pending places too.                    *)
AllFree(marks) == marks

Free(marks) == {m \in marks : Place[m] \notin pending}

(* confirm(): the marks of places that are not pending, and the file.      *)
Confirm ==
  /\ pc = "confirm"
  /\ LET marks == held \cup staged \cup dropped
         free  == Free(marks)
         moved == [markers EXCEPT
                     !.at = [p \in Places |->
                               Highest({m \in free : Place[m] = p}, @[p])],
                     !.tracked = @ \cup ({Place[m] : m \in free} \cap Threads)]
     IN /\ \E kept \in MostRecent(moved) : markers' = Capped(moved, kept)
        /\ held' = marks \ free
  /\ file' = markers'
  /\ Blame({m \in Unanchored(markers') : Place[m] \in markers.tracked}, "untracked")
  /\ staged' = {} /\ dropped' = {} /\ inflight' = {}
  /\ pc' = "fetch"
  /\ UNCHANGED <<sent, settled, sess, gateway, queue, reads, faults>>

----------------------------------------------------------------------------
Bridge ==
  \/ Start \/ FetchBegin \/ Resume \/ Resumed \/ Identify
  \/ \E p \in Places : ReadPlace(p)
  \/ ReadsDone \/ ResumeLive \/ IdentifyLive \/ PollEnds \/ PollRaises
  \/ \E some \in SUBSET inflight : Handle(some)
  \/ Confirm

Broken ==
  \/ Die \/ HeartbeatExpired \/ ConnectFails
  \/ \E p \in Places : ReadFails(p)
  \/ Unresolved \/ Control \/ GatewayFails

Next == Post \/ Bridge \/ Broken \/ Event

Spec == Init /\ [][Next]_vars

(* The process keeps going, Discord delivers on an open gateway, and a     *)
(* control is carried out before the gateway is read on.                   *)
Fairness ==
  WF_vars(Bridge) /\ SF_vars(Event) /\ SF_vars(ResumeLive \/ IdentifyLive)
FairSpec == Spec /\ Fairness

----------------------------------------------------------------------------
(* Every variable keeps its type; only mentions are handled as items.      *)
TypeOK ==
  /\ sent \in 0..NumMsgs /\ settled \subseteq Mentions
  /\ file \in Markers /\ markers \in Markers
  /\ sess \in NoSession..NumMsgs /\ seq \in 0..NumMsgs
  /\ pc \in Steps /\ ws \in BOOLEAN
  /\ control \in {"none", "resume", "identify"}
  /\ queue \subseteq Mentions /\ inflight \subseteq Mentions
  /\ staged \subseteq Mentions /\ dropped \subseteq Message \ Mentions
  /\ held \subseteq Message /\ pending \subseteq Places
  /\ after \in [Places -> 0..NumMsgs] /\ cache \subseteq Threads
  /\ todo \subseteq Places /\ deferred \in BOOLEAN
  /\ why \in [Message -> Reasons]
  /\ faults \in 0..MaxFaults

(* Where a message still is when it is not settled: above the marker or    *)
(* the floor its place is read from, in hand, or in a session's replay.    *)
Reaches(f, m) ==
  IF Place[m] \in Channels \cup f.tracked THEN m > f.at[Place[m]]
                                         ELSE m > f.floor[Place[m]]
Kept(m) ==
  \/ m \in settled \cup InHand
  \/ Reaches(file, m)
  \/ sess # NoSession /\ m > sess

(* "The platform holds what the bridge missed" (docs/invariants.md), on a  *)
(* platform that never sends twice: a mention is settled, in hand, in the  *)
(* replay of the session on disk, or above the marker or floor on disk -   *)
(* across deaths, closes, op 7 and op 9, failed lookups and unfinished     *)
(* reads.  The exceptions are the messages the code can miss, see Reasons. *)
NothingLost == \A m \in Posted \cap Mentions : Kept(m) \/ why[m] # ""

(* However it comes, and whatever fails a bounded number of times, every   *)
(* mention that nothing excuses is settled in the end, and stays so:       *)
(* pending places and floors are read again although the socket lives.     *)
EveryMentionSettles ==
  <>[](\A m \in Posted \cap Mentions : m \in settled \/ why[m] # "")

(* docs/discord.md: the bridge catches up every time it connects.  A new   *)
(* session opened while the gateway is read, or a replay that breaks off,  *)
(* is no exception there; in the code no read of history follows the one,  *)
(* and the other moves the marker before any.                              *)
EverySessionCatchesUp ==
  \A m \in Posted \cap Mentions : Kept(m) \/ why[m] \in {"untracked", "saved"}
=============================================================================
