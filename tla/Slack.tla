------------------------------- MODULE Slack -------------------------------
(***************************************************************************)
(* The receiving half on Slack (adapters/slack/api.py, events.py) under    *)
(* the poll cycle of bridge/run.py and poller/loop.py.                     *)
(*                                                                         *)
(* A message reaches the bridge over a Socket Mode connection, as an       *)
(* envelope Slack sends again until it is acknowledged or given up, or     *)
(* from history: on every connect the bridge marks every conversation      *)
(* pending and reads what lies after its marker, then the replies of the   *)
(* threads it tracks.  Markers move only when a cycle is confirmed, and    *)
(* never those of a pending conversation.                                  *)
(*                                                                         *)
(* Messages are numbered in the order of their timestamps.  Abstracted:    *)
(* the letter and the allowlist (module Inbound has them; here a handled   *)
(* message is settled, whether it became a letter or was denied, and the   *)
(* ledger lands it once); the bytes of frames and pages; an envelope of a  *)
(* frame that is no event, which is acknowledged and nothing else.         *)
(***************************************************************************)
EXTENDS Naturals, FiniteSets, FiniteSetsExt

CONSTANTS
  NumMsgs,      \* messages are 1..NumMsgs, in the order they are posted
  Convs,        \* the conversations on the allowlist
  ConvOf,       \* ConvOf[m]: where m is posted
  Root,         \* Root[m]: the message whose thread m replies in, 0 if none
  Direct,       \* conversations that are DMs: no thread opens by itself
  Mentions,     \* messages normalise() turns into an item
  MaxThreads,   \* Slack.MAX_THREADS
  MaxFaults     \* bound: deaths, failed calls, broken sockets, expiries

Message == 1..NumMsgs
NoConv == "none"

ASSUME SlackAssumption ==
  /\ NumMsgs \in Nat
  /\ ConvOf \in [Message -> Convs] /\ NoConv \notin Convs
  /\ Root \in [Message -> 0..NumMsgs]
  /\ \A m \in Message : Root[m] # 0 =>
       Root[m] < m /\ Root[Root[m]] = 0 /\ ConvOf[Root[m]] = ConvOf[m]
  /\ Direct \subseteq Convs /\ Mentions \subseteq Message
  /\ MaxThreads \in Nat /\ MaxFaults \in Nat

VARIABLES
  sent,         \* messages 1..sent have been posted
  owed,         \* Slack: envelopes it may still deliver (again)
  wire,         \* Slack: of those, posted on this connection and not yet read
  settled,      \* messages with a letter, or denied
  mark,         \* slack-markers.json: mark[c], 0 for none
  thr,          \* slack-markers.json: thr[t], the marker of the thread of
                \* message t, 0 when the thread is not tracked
  pc,           \* where the bridge is
  ws,           \* _ws is not None
  team,         \* _team is not None: auth.test has answered
  queue,        \* _queue
  inflight,     \* _inflight
  staged,       \* _staged: handled in this cycle, or in one not confirmed
  envs,         \* the envelopes in _envelopes, _staged and _dropped
  dropped,      \* _dropped_marks: messages read that are no mail
  headed,       \* of the marks, those whose row was the head of a thread
  held,         \* _held: marks kept back while their conversation is pending
  pending,      \* _pending
  cont,         \* _continuations of history: read down to here, 0 for none
  contT,        \* _continuations of replies: read up to here, 0 for none
  todo,         \* conversations the running loop has still to read
  reading,      \* the one whose history is read and whose replies are not
  left,         \* its threads still to read
  deferred,     \* fetch() holds a TransientFailure back
  why,          \* history: why m may be missed, see Reasons
  lapsed,       \* history: envelopes Slack gave up on
  faults        \* history: faults so far

world  == <<sent, owed, wire>>
disk   == <<settled, mark, thr>>
socket == <<ws, team>>
batch  == <<queue, inflight, staged, envs, dropped, headed, held>>
reads  == <<pending, cont, contT, todo, reading, left, deferred>>
ghosts == <<why, lapsed, faults>>
vars == <<world, disk, pc, socket, batch, reads, ghosts>>

(* "unfinished": posted while an earlier read of the history stood at the  *)
(* page cap.  "between": posted after the history was read and before the  *)
(* replies were.  "untracked": a reply in a thread with no marker.         *)
Reasons == {"", "unfinished", "between", "untracked"}
Steps == {"down", "fetch", "retry", "connect", "catchup", "live", "handle",
          "confirm", "persist"}

Larger(m, n) == IF m >= n THEN m ELSE n
Posted == 1..sent

(* Channel chatter is not delivered over the socket; a DM always is.       *)
Live(m) == m \in Mentions \/ ConvOf[m] \in Direct

(* The thread a mark moves: the one a reply is in, the one a mention in a  *)
(* channel opens, or the one a row of history already headed.              *)
ThreadOf(m) ==
  IF Root[m] # 0 THEN Root[m]
  ELSE IF m \in headed \/ (m \in Mentions /\ ConvOf[m] \notin Direct) THEN m
  ELSE 0

Threads(c) == {t \in Message : ConvOf[t] = c /\ thr[t] # 0}
Fault == faults < MaxFaults /\ faults' = faults + 1

Forget ==  \* what a process that ends takes with it
  /\ ws' = FALSE /\ team' = FALSE /\ wire' = {}
  /\ queue' = {} /\ inflight' = {} /\ staged' = {} /\ envs' = {}
  /\ dropped' = {} /\ headed' = {} /\ held' = {} /\ pending' = {}
  /\ cont' = [c \in Convs |-> 0] /\ contT' = [t \in Message |-> 0]
  /\ todo' = {} /\ reading' = NoConv /\ left' = {} /\ deferred' = FALSE

Init ==
  /\ sent = 0 /\ owed = {} /\ wire = {}
  /\ settled = {}
  /\ mark = [c \in Convs |-> 0] /\ thr = [t \in Message |-> 0]
  /\ pc = "down" /\ ws = FALSE /\ team = FALSE
  /\ queue = {} /\ inflight = {} /\ staged = {} /\ envs = {}
  /\ dropped = {} /\ headed = {} /\ held = {} /\ pending = {}
  /\ cont = [c \in Convs |-> 0] /\ contT = [t \in Message |-> 0]
  /\ todo = {} /\ reading = NoConv /\ left = {} /\ deferred = FALSE
  /\ why = [m \in Message |-> ""] /\ lapsed = {} /\ faults = 0

----------------------------------------------------------------------------
(* The world.  A connection delivers what is posted on it in order; older  *)
(* envelopes come again whenever Slack's retries bring them.               *)

ReasonOf(m) ==
  IF Root[m] # 0 THEN IF thr[Root[m]] = 0 THEN "untracked" ELSE ""
  ELSE IF cont[ConvOf[m]] # 0 THEN "unfinished"
  ELSE IF reading = ConvOf[m] THEN "between" ELSE ""

Post ==
  /\ sent < NumMsgs
  /\ LET m == sent + 1 IN
       /\ sent' = m
       /\ owed' = IF Live(m) THEN owed \cup {m} ELSE owed
       /\ wire' = IF ws /\ Live(m) THEN wire \cup {m} ELSE wire
       /\ why' = [why EXCEPT ![m] = ReasonOf(m)]
  /\ UNCHANGED <<disk, pc, socket, batch, reads, lapsed, faults>>

(* The last retry of an unacknowledged envelope is over.                   *)
Expire(m) ==
  /\ m \in owed \ wire
  /\ Fault
  /\ owed' = owed \ {m}
  /\ lapsed' = lapsed \cup {m}
  /\ UNCHANGED <<sent, wire, disk, pc, socket, batch, reads, why>>

----------------------------------------------------------------------------
(* A process.  FetchFailed ends it like a death: nothing is confirmed.     *)

Start ==
  /\ pc = "down"
  /\ pc' = "fetch"
  /\ UNCHANGED <<world, disk, socket, batch, reads, ghosts>>

Die ==
  /\ pc # "down"
  /\ Fault
  /\ pc' = "down"
  /\ Forget
  /\ UNCHANGED <<sent, owed, disk, why, lapsed>>

(* A slip that forgets the batch of a cycle that was not confirmed.        *)
FetchAfresh ==
  /\ pc = "fetch"
  /\ inflight' = {}
  /\ todo' = IF team THEN pending ELSE {}
  /\ deferred' = FALSE
  /\ pc' = "retry"
  /\ UNCHANGED <<world, disk, socket, queue, staged, envs, dropped, headed,
                 held, pending, cont, contT, reading, left, ghosts>>

(* A slip that reads no conversation again while the socket stays.         *)
FetchLiveOnly ==
  /\ pc = "fetch"
  /\ queue' = queue \cup inflight
  /\ inflight' = {} /\ todo' = {} /\ deferred' = FALSE
  /\ pc' = "retry"
  /\ UNCHANGED <<world, disk, socket, staged, envs, dropped, headed, held,
                 pending, cont, contT, reading, left, ghosts>>

(* fetch(): a batch whose cycle was not confirmed goes again, and the      *)
(* conversations still pending are read before anything else.              *)
FetchBegin ==
  /\ pc = "fetch"
  /\ queue' = queue \cup inflight
  /\ inflight' = {}
  /\ todo' = IF team THEN pending ELSE {}
  /\ deferred' = FALSE
  /\ pc' = "retry"
  /\ UNCHANGED <<world, disk, socket, staged, envs, dropped, headed, held,
                 pending, cont, contT, reading, left, ghosts>>

(* A TransientFailure before the socket is read is held back.              *)
Defer ==
  /\ Fault
  /\ deferred' = TRUE
  /\ todo' = {} /\ reading' = NoConv /\ left' = {}
  /\ pc' = "live"

(* _remember: an item is queued, anything else only leaves its mark.       *)
Take(rows) ==
  /\ queue' = queue \cup (rows \cap Mentions)
  /\ dropped' = dropped \cup (rows \ Mentions)

(* A row of history names the thread it heads, once it has replies.        *)
TakeHistory(rows) ==
  /\ Take(rows)
  /\ headed' = headed \cup {m \in rows : \E r \in Posted : Root[r] = m}

NextRead(c) == todo' = todo \ {c} /\ reading' = NoConv /\ left' = {}

(* conversations.history, newest first, from the marker to the top or to   *)
(* where the page cap stopped the last read.                               *)
HistoryTo(c, low, top) ==
  {m \in Posted : ConvOf[m] = c /\ Root[m] = 0 /\ low < m /\ m < top}

ReadHistory(c) ==
  /\ pc \in {"retry", "catchup"} /\ reading = NoConv /\ c \in todo
  /\ pending' = pending \cup {c}
  /\ LET top == IF cont[c] # 0 THEN cont[c] ELSE sent + 1
     IN \/ /\ TakeHistory(HistoryTo(c, mark[c], top))    \* "done"
           /\ cont' = [cont EXCEPT ![c] = 0]
           /\ reading' = c /\ left' = Threads(c)
           /\ UNCHANGED <<todo, deferred, pc, faults>>
        \/ \E low \in HistoryTo(c, mark[c], top) :        \* "partial"
             /\ TakeHistory(HistoryTo(c, low - 1, top))
             /\ cont' = [cont EXCEPT ![c] = low]
             /\ NextRead(c)
             /\ UNCHANGED <<deferred, pc, faults>>
        \/ /\ Fault                                       \* "failed"
           /\ cont' \in {cont, [cont EXCEPT ![c] = 0]}    \* invalid_cursor
           /\ NextRead(c)
           /\ UNCHANGED <<queue, dropped, headed, deferred, pc>>
        \/ Defer /\ UNCHANGED <<queue, dropped, headed, cont>>
  /\ UNCHANGED <<world, disk, socket, inflight, staged, envs, held, contT,
                 why, lapsed>>

(* conversations.replies, oldest first.                                    *)
RepliesTo(t, low, top) ==
  {m \in Posted : Root[m] = t /\ low < m /\ m <= top}

ReadReplies(t) ==
  /\ reading # NoConv /\ t \in left
  /\ LET low == Larger(thr[t], contT[t])
     IN \/ /\ Take(RepliesTo(t, low, sent))
           /\ contT' = [contT EXCEPT ![t] = 0]
           /\ left' = left \ {t}
           /\ UNCHANGED <<todo, reading, deferred, pc, faults>>
        \/ \E top \in RepliesTo(t, low, sent) :
             /\ top < sent
             /\ Take(RepliesTo(t, low, top))
             /\ contT' = [contT EXCEPT ![t] = top]
             /\ NextRead(reading)
             /\ UNCHANGED <<deferred, pc, faults>>
        \/ /\ Fault
           /\ contT' \in {contT, [contT EXCEPT ![t] = 0]}
           /\ NextRead(reading)
           /\ UNCHANGED <<queue, dropped, deferred, pc>>
        \/ Defer /\ UNCHANGED <<queue, dropped, contT>>
  /\ UNCHANGED <<world, disk, socket, inflight, staged, envs, headed, held,
                 pending, cont, why, lapsed>>

(* History and every known thread read: no longer pending.                 *)
ConversationRead ==
  /\ reading # NoConv /\ left = {}
  /\ pending' = pending \ {reading}
  /\ NextRead(reading)
  /\ UNCHANGED <<world, disk, pc, socket, batch, cont, contT, deferred,
                 ghosts>>

ReadsDone ==
  /\ pc \in {"retry", "catchup"} /\ reading = NoConv /\ todo = {}
  /\ pc' = IF pc = "retry" /\ ~ws THEN "connect" ELSE "live"
  /\ UNCHANGED <<world, disk, socket, batch, reads, ghosts>>

(* _ensure_connection: identity, a socket, hello, and every watched        *)
(* conversation pending before the first is read.                          *)
Connect ==
  /\ pc = "connect"
  /\ ws' = TRUE /\ team' = TRUE /\ wire' = {}
  /\ pending' = Convs /\ todo' = Convs
  /\ pc' = "catchup"
  /\ UNCHANGED <<sent, owed, disk, batch, cont, contT, reading, left,
                 deferred, ghosts>>

(* No answer, an error or no hello: a TransientFailure is held back, any   *)
(* other error leaves fetch at once.                                       *)
ConnectFails ==
  /\ pc = "connect"
  /\ team' \in {team, TRUE}
  /\ \/ Defer
     \/ Fault /\ pc' = "fetch" /\ UNCHANGED <<todo, reading, left, deferred>>
  /\ UNCHANGED <<world, disk, ws, batch, pending, cont, contT, why, lapsed>>

----------------------------------------------------------------------------
(* The socket.                                                             *)

(* An envelope is stored; its message goes to the queue once per fetch.    *)
Receive(m) ==
  /\ pc = "live" /\ ws
  /\ m \in owed
  /\ \/ m \notin wire
     \/ m \in wire /\ \A n \in wire : m <= n
  /\ wire' = wire \ {m}
  /\ envs' = envs \cup {m}
  /\ Take({m})
  /\ UNCHANGED <<sent, owed, disk, pc, socket, inflight, staged, headed, held,
                 reads, ghosts>>

CloseSocket == ws' = FALSE /\ wire' = {}
Return == inflight' = queue /\ queue' = {} /\ pc' = "handle"

(* A slip that acknowledges an envelope as soon as it is handed on.        *)
PollEndsAcking ==
  /\ pc = "live"
  /\ IF deferred /\ queue = {}
       THEN pc' = "fetch" /\ UNCHANGED <<queue, inflight, owed, envs>>
       ELSE Return /\ owed' = owed \ envs /\ envs' = {}
  /\ UNCHANGED <<sent, wire, disk, socket, staged, dropped, headed, held,
                 reads, ghosts>>

(* The end of a poll: a deferred failure is raised if nothing arrived; an  *)
(* idle socket must have answered a ping.                                  *)
PollEnds ==
  /\ pc = "live"
  /\ IF deferred /\ queue = {}
       THEN pc' = "fetch" /\ UNCHANGED <<queue, inflight>>
       ELSE Return
  /\ UNCHANGED <<world, disk, socket, staged, envs, dropped, headed, held,
                 reads, ghosts>>

(* A disconnect or close frame ends the poll; a broken or silent socket    *)
(* raises out of fetch, and the queue waits for the next one.              *)
SocketEnds ==
  /\ pc = "live" /\ ws
  /\ Fault
  /\ CloseSocket
  /\ \/ ~(deferred /\ queue = {}) /\ Return
     \/ pc' = "fetch" /\ UNCHANGED <<queue, inflight>>
  /\ UNCHANGED <<sent, owed, disk, team, staged, envs, dropped, headed, held,
                 reads, why, lapsed>>

----------------------------------------------------------------------------
(* The cycle.                                                              *)

(* poll_once over the batch; a download that must wait leaves it half-done.*)
Handle(some) ==
  /\ pc = "handle"
  /\ some \subseteq inflight
  /\ settled' = settled \cup some
  /\ staged' = staged \cup some
  /\ IF some = inflight THEN pc' = "confirm" /\ UNCHANGED faults
                        ELSE pc' = "fetch" /\ Fault
  /\ UNCHANGED <<world, mark, thr, socket, queue, inflight, envs, dropped,
                 headed, held, reads, why, lapsed>>

(* confirm(), first half: the envelopes of what was handled.  It raises    *)
(* without a socket; a send that fails may follow some that did not.       *)
AckEnvelopes ==
  /\ pc = "confirm"
  /\ IF ws THEN /\ owed' = owed \ (envs \cap (staged \cup dropped))
                /\ envs' = envs \ (staged \cup dropped)
                /\ pc' = "persist"
           ELSE pc' = "fetch" /\ UNCHANGED <<owed, envs>>
  /\ UNCHANGED <<sent, wire, disk, socket, queue, inflight, staged, dropped,
                 headed, held, reads, ghosts>>

AckBreaks(some) ==
  /\ pc = "confirm" /\ ws
  /\ some \subseteq envs \cap (staged \cup dropped)
  /\ Fault
  /\ owed' = owed \ some
  /\ pc' = "fetch"
  /\ UNCHANGED <<sent, wire, disk, socket, batch, reads, why, lapsed>>

Highest(S, floor) == IF S = {} THEN floor ELSE Larger(floor, Max(S))

(* Only the MaxThreads most recent threads stay tracked.                   *)
Capped(f) ==
  LET newer(t) == {u \in Message : f[u] > f[t] \/ (f[u] = f[t] /\ u > t)}
  IN [t \in Message |-> IF Cardinality(newer(t)) < MaxThreads THEN f[t] ELSE 0]

(* confirm(), second half: marks of pending conversations wait in _held.   *)
Persist ==
  /\ pc = "persist"
  /\ LET marks == held \cup staged \cup dropped
         free  == {m \in marks : ConvOf[m] \notin pending}
         moved == Capped([t \in Message |->
                    Highest({m \in free : ThreadOf(m) = t}, thr[t])])
     IN /\ mark' = [c \in Convs |->
                      Highest({m \in free : ConvOf[m] = c}, mark[c])]
        /\ thr' = moved
        /\ held' = marks \ free /\ headed' = headed \ free
        /\ why' = [m \in Message |->
                     IF Root[m] # 0 /\ thr[Root[m]] # 0 /\ moved[Root[m]] = 0
                       THEN "untracked" ELSE why[m]]
  /\ staged' = {} /\ dropped' = {} /\ inflight' = {}
  /\ pc' = "fetch"
  /\ UNCHANGED <<world, settled, socket, queue, envs, reads, lapsed, faults>>

----------------------------------------------------------------------------
Read == \/ \E c \in Convs : ReadHistory(c)
        \/ \E t \in Message : ReadReplies(t)
        \/ ConversationRead \/ ReadsDone

Bridge ==
  \/ Start \/ FetchBegin \/ Read \/ Connect \/ PollEnds
  \/ \E some \in SUBSET inflight : Handle(some)
  \/ AckEnvelopes \/ Persist

Broken ==
  \/ Die \/ ConnectFails \/ SocketEnds
  \/ \E some \in SUBSET envs : AckBreaks(some)
  \/ \E m \in Message : Expire(m)

Next == Post \/ Bridge \/ Broken \/ \E m \in Message : Receive(m)

Spec == Init /\ [][Next]_vars

(* The process keeps going, and Slack delivers on an open connection.      *)
Fairness == WF_vars(Bridge) /\ SF_vars(\E m \in wire : Receive(m))
FairSpec == Spec /\ Fairness

----------------------------------------------------------------------------
(* Every variable keeps its type, what Slack owes has been posted, and no  *)
(* more than MaxThreads threads are tracked.                               *)
TypeOK ==
  /\ sent \in 0..NumMsgs /\ owed \subseteq Posted /\ wire \subseteq owed
  /\ settled \subseteq Mentions
  /\ mark \in [Convs -> 0..NumMsgs] /\ thr \in [Message -> 0..NumMsgs]
  /\ pc \in Steps /\ ws \in BOOLEAN /\ team \in BOOLEAN
  /\ queue \subseteq Mentions /\ inflight \subseteq Mentions
  /\ staged \subseteq Mentions /\ envs \subseteq Message
  /\ dropped \subseteq Message \ Mentions /\ headed \subseteq Message
  /\ held \subseteq Message /\ pending \subseteq Convs
  /\ cont \in [Convs -> 0..NumMsgs] /\ contT \in [Message -> 0..NumMsgs]
  /\ todo \subseteq Convs /\ reading \in Convs \cup {NoConv}
  /\ left \subseteq Message /\ deferred \in BOOLEAN
  /\ why \in [Message -> Reasons] /\ lapsed \subseteq Message
  /\ faults \in 0..MaxFaults
  /\ Cardinality({t \in Message : thr[t] # 0}) <= MaxThreads

(* Where a message still is when it is not settled.                        *)
InHand(m) == m \in queue \cup inflight
CatchUpReaches(m) ==
  IF Root[m] = 0 THEN m > mark[ConvOf[m]]
  ELSE thr[Root[m]] # 0 /\ m > thr[Root[m]]
Kept(m) == m \in settled \/ InHand(m) \/ m \in owed \/ CatchUpReaches(m)

(* "The platform holds what the bridge missed" (docs/invariants.md): a     *)
(* mention is settled, in hand, still owed by Slack or above the marker a  *)
(* later connect reads from, across deaths, broken sockets, envelopes      *)
(* given up on, failed and unfinished reads.  The exceptions are exactly   *)
(* the messages the code can miss, see Reasons.                            *)
NothingLost == \A m \in Posted \cap Mentions : Kept(m) \/ why[m] # ""

(* "Ack only after the durable write": Slack stops retrying a mention only *)
(* because it was settled or because its retries ran out (_staged and      *)
(* _send_envelope_acks against the order of a cycle).                      *)
AckedIsSettled ==
  \A m \in Posted \cap Mentions : m \in owed \cup lapsed \cup settled

(* However it comes, and whatever fails a bounded number of times, every   *)
(* mention that nothing excuses is settled in the end, and stays so.       *)
EveryMentionSettles ==
  <>[](\A m \in Posted \cap Mentions : m \in settled \/ why[m] # "")

(* docs/slack.md: the bridge catches up every time it connects, reading    *)
(* the history since the last message it recorded - an unfinished earlier  *)
(* read is no exception there.  In the code the connect only goes on with  *)
(* the saved cursor, whose window ends below what came after it.           *)
EveryConnectCatchesUp ==
  \A m \in Posted \cap Mentions : Kept(m) \/ why[m] \in {"between", "untracked"}
=============================================================================
