---------------------------- MODULE SlackProofs ----------------------------
(***************************************************************************)
(* Proofs about Slack, for any number of messages, conversations, threads  *)
(* and faults, and any cap on the threads.                                 *)
(*                                                                         *)
(* What the disk and the platform hold of a message must do without the    *)
(* queue, which a death empties.  So a marker may pass a message only when *)
(* the message is settled; the invariant says why it is, at every step     *)
(* between the read that finds the message and the confirm that moves the  *)
(* marker.                                                                 *)
(***************************************************************************)
EXTENDS Slack, FiniteSetTheorems, TLAPS

(* What the bridge has read and not yet forgotten.                         *)
Taken == queue \cup inflight \cup staged \cup dropped \cup held

(* Read by this process, or settled, or excused.                           *)
Covered(m) == m \in settled \cup queue \cup inflight \/ why[m] # ""

(* The catch-up has been where m would be.                                 *)
Done(m) ==
  IF Root[m] = 0
    THEN ConvOf[m] \notin pending \/ reading = ConvOf[m]
    ELSE \/ ConvOf[Root[m]] \notin pending
         \/ reading = ConvOf[Root[m]] /\ Root[m] \notin left

(* The mark of n goes into the marker that m is read by.                   *)
Moves(n, m) == IF Root[m] = 0 THEN ConvOf[n] = ConvOf[m] ELSE Root[n] = Root[m]

Mail == Posted \cap Mentions

Typed ==
  /\ sent \in 0..NumMsgs /\ owed \subseteq Posted /\ wire \subseteq Posted
  /\ Taken \subseteq Posted /\ queue \cup inflight \cup staged \subseteq Mentions
  /\ dropped \cap Mentions = {}
  /\ mark \in [Convs -> 0..sent] /\ thr \in [Message -> 0..sent]
  /\ cont \in [Convs -> 0..sent] /\ contT \in [Message -> 0..sent]
  /\ why \in [Message -> Reasons] /\ ws \in BOOLEAN
  /\ pending \subseteq Convs /\ todo \subseteq Convs /\ reading \in pending \cup {NoConv}
  /\ \A t \in left : t \in Message /\ ConvOf[t] = reading

(* Where a batch and the socket may be.                                    *)
Phase ==
  /\ wire # {} => ws
  /\ \A m \in wire, n \in owed : n > m => n \in wire
  /\ reading # NoConv => pc \in {"retry", "catchup"}
  /\ pc \in {"retry", "connect", "catchup", "live"} => inflight = {}
  /\ pc \in {"handle", "confirm", "persist"} => queue = {}
  /\ pc \in {"confirm", "persist"} => inflight \subseteq settled
  /\ staged \subseteq settled

(* What a death leaves of a mention.                                       *)
Durable == \A m \in Mail : m \in settled \/ CatchUpReaches(m) \/ why[m] # ""

(* While the replies of a conversation are read, its history has been.     *)
ReadNow ==
  \A m \in Mail : Root[m] = 0 /\ ConvOf[m] = reading => Covered(m)

(* Nothing is taken ahead of a mention it would hide, save where the marks *)
(* are held back.                                                          *)
Passed ==
  \A m \in Mail : Done(m) =>
    \A n \in Taken : n >= m /\ Moves(n, m) => Covered(m)

(* Once caught up, an open socket has the rest.                            *)
Flows == \A m \in Mail : ws /\ Done(m) => m \in wire \/ Covered(m)

(* What an unfinished read has been through.                               *)
Windows ==
  \A m \in Mail :
    /\ Root[m] = 0 /\ cont[ConvOf[m]] # 0 /\ m >= cont[ConvOf[m]] => Covered(m)
    /\ Root[m] # 0 /\ m <= contT[Root[m]] => Covered(m)

IInv ==
  Typed /\ Phase /\ Durable /\ ReadNow /\ Passed /\ Flows /\ Windows /\ AckedIsSettled

(* A set of messages has a last one.                                       *)
LEMMA LastMessage ==
  ASSUME NEW S \in SUBSET Message, S # {}
  PROVE  Max(S) \in S /\ \A n \in S : Max(S) >= n
<1> DEFINE T == {n..NumMsgs : n \in S}
           R == StrictSubsetOrdering(Message)
<1>1. T \subseteq FiniteSubsetsOf(Message) /\ T # {}
  <2>1. ASSUME NEW n \in S PROVE n..NumMsgs \subseteq Message /\ IsFiniteSet(n..NumMsgs)
    BY FS_Interval, SlackAssumption DEF SlackAssumption, Message
  <2> QED BY <2>1 DEF FiniteSubsetsOf
<1>2. PICK t \in T : \A u \in T : ~(<<u, t>> \in R)
  <2>1. IsWellFoundedOn(R, FiniteSubsetsOf(Message))
    BY FS_StrictSubsetOrderingWellFounded
  <2> HIDE DEF T, R
  <2> QED BY <1>1, <2>1, WFMin
<1>3. PICK s \in S : t = s..NumMsgs
  BY <1>2
<1>4. ASSUME NEW n \in S PROVE s >= n
  <2>1. SUFFICES ASSUME s < n PROVE FALSE
    BY SlackAssumption DEF SlackAssumption, Message
  <2>2. n..NumMsgs \subseteq t /\ n..NumMsgs # t /\ t \subseteq Message
    BY <1>3, <2>1, SlackAssumption DEF SlackAssumption, Message
  <2> QED BY <1>2, <2>2 DEF StrictSubsetOrdering
<1> QED BY <1>4 DEF Max

(* Where messages and threads are.                                         *)
LEMMA Constants ==
  /\ \A m \in Message : /\ ConvOf[m] \in Convs /\ ConvOf[m] # NoConv /\ Root[m] \in 0..NumMsgs
                        /\ m \in Nat /\ 0 < m
  /\ \A m \in Message : Root[m] # 0 =>
       Root[m] \in Message /\ Root[m] < m /\ ConvOf[Root[m]] = ConvOf[m]
  /\ Mentions \subseteq Message /\ NoConv \notin Convs /\ NumMsgs \in Nat
BY SlackAssumption DEF SlackAssumption, Message

(* Marks of ThreadOf lead to the thread of a reply only from that thread.  *)
LEMMA MarksOfThread ==
  ASSUME NEW n \in Message, NEW m \in Message, Root[m] # 0, ThreadOf(n) = Root[m], n >= m
  PROVE  Root[n] = Root[m]
BY Constants DEF ThreadOf

(* The highest of a set of messages and a floor.                           *)
LEMMA HighestIs ==
  ASSUME NEW S \in SUBSET Message, NEW floor \in Nat
  PROVE  /\ Highest(S, floor) \in S \cup {floor}
         /\ Highest(S, floor) >= floor
<1>1. CASE S = {}
  BY <1>1 DEF Highest
<1>2. CASE S # {}
  <2>1. Max(S) \in S /\ Max(S) \in Nat
    BY <1>2, LastMessage, Constants DEF Message
  <2> QED BY <1>2, <2>1 DEF Highest, Larger
<1> QED BY <1>1, <1>2

(* Of two numbers.                                                         *)
LEMMA Order == \A x, y \in Nat : (x > y <=> ~(x <= y)) /\ (x > y <=> y < x)
OBVIOUS

(* A mention that is posted is on the wire, or above every marker, or      *)
(* excused.                                                                *)
LEMMA PostKeeps ==
  ASSUME IInv, Post
  PROVE  IInv'
<1>p. PICK m \in Nat : m = sent + 1
  BY DEF IInv, Typed
<1>a. /\ m \in Message /\ m \notin Posted /\ Posted' = Posted \cup {m} /\ sent' = m /\ m \in Nat
      /\ \A n \in Posted : n < m /\ n \in Message /\ n \in Nat
      /\ sent \in Nat /\ sent < m /\ 0..sent \subseteq 0..m /\ m \in 0..NumMsgs
  BY <1>p, Constants DEF IInv, Typed, Post, Posted, Message
<1>b. /\ owed \subseteq owed' /\ owed' \subseteq owed \cup {m} /\ (m \in Mentions => m \in owed')
      /\ wire \subseteq wire' /\ wire' \subseteq wire \cup {m}
      /\ m \in wire' => ws
      /\ m \in owed' /\ ws => m \in wire'
  BY <1>a DEF IInv, Typed, Post, Live
<1>c. /\ why' \in [Message -> Reasons] /\ \A n \in Posted : why'[n] = why[n]
      /\ Root[m] = 0 /\ (cont[ConvOf[m]] # 0 \/ reading = ConvOf[m]) => why'[m] # ""
      /\ Root[m] # 0 /\ thr[Root[m]] = 0 => why'[m] # ""
  BY <1>a DEF IInv, Typed, Post, ReasonOf, Reasons
<1>d. /\ UNCHANGED <<disk, pc, ws, batch, reads>> /\ Taken' = Taken
      /\ \A n \in Posted : (Covered(n)' <=> Covered(n)) /\ (Done(n)' <=> Done(n))
  BY <1>c DEF Post, socket, disk, batch, reads, Taken, Covered, Done
<1>1. Typed'
  <2>1. (/\ mark \in [Convs -> 0..sent] /\ thr \in [Message -> 0..sent]
         /\ cont \in [Convs -> 0..sent] /\ contT \in [Message -> 0..sent])'
    BY <1>a, <1>d DEF IInv, Typed, disk, reads
  <2>2. (owed \subseteq Posted /\ wire \subseteq Posted /\ Taken \subseteq Posted)'
    BY <1>a, <1>b, <1>d DEF IInv, Typed
  <2> QED BY <1>a, <1>c, <1>d, <2>1, <2>2 DEF IInv, Typed, disk, batch, reads
<1>2. Phase'
  <2>1. ASSUME NEW i \in wire', NEW n \in owed', n > i PROVE n \in wire'
    <3>1. i \in wire => i \in Posted /\ ws
      BY DEF IInv, Phase, Typed
    <3>2. n = m => n \in wire'
      BY <1>b, <3>1
    <3>3. n # m => n \in wire'
      BY <1>a, <1>b, <2>1 DEF IInv, Phase, Typed
    <3> QED BY <3>2, <3>3
  <2>2. (wire # {} => ws)'
    BY <1>b, <1>d DEF IInv, Phase
  <2> QED BY <1>d, <2>1, <2>2 DEF IInv, Phase, disk, batch, reads
<1>3. Durable'
  <2>1. ASSUME NEW n \in Mail PROVE n \in settled' \/ CatchUpReaches(n)' \/ why'[n] # ""
    BY <1>c, <1>d DEF IInv, Durable, Mail, CatchUpReaches, disk
  <2>2. m \in Mentions => m \in settled' \/ CatchUpReaches(m)' \/ why'[m] # ""
    <3>1. Root[m] = 0 => m > mark[ConvOf[m]]
      BY <1>a, Constants DEF IInv, Typed
    <3>2. Root[m] # 0 => thr[Root[m]] = 0 \/ m > thr[Root[m]]
      BY <1>a, Constants DEF IInv, Typed
    <3>3. thr' = thr /\ mark' = mark
      BY <1>d DEF disk
    <3>4. CASE Root[m] = 0
      BY <3>1, <3>3, <3>4 DEF CatchUpReaches
    <3>5. CASE Root[m] # 0
      BY <1>c, <3>2, <3>3, <3>5 DEF CatchUpReaches
    <3> QED BY <3>4, <3>5
  <2>3. Mail' \subseteq Mail \cup ({m} \cap Mentions)
    BY <1>a DEF Mail
  <2> QED BY <2>1, <2>2, <2>3 DEF Durable
<1>4. ReadNow'
  BY <1>a, <1>c, <1>d DEF IInv, ReadNow, Mail, Covered, reads
<1>5. Passed'
  <2> SUFFICES ASSUME NEW n \in Mail', Done(n)', NEW k \in Taken', k >= n, Moves(k, n)
               PROVE  Covered(n)'
    BY DEF Passed
  <2>1. n # m
    BY <1>a, <1>d DEF IInv, Typed
  <2> QED BY <1>a, <1>d, <2>1 DEF IInv, Passed, Mail
<1>6. Flows'
  BY <1>a, <1>b, <1>d DEF IInv, Flows, Mail
<1>7. Windows'
  <2>1. ASSUME NEW n \in Mail
        PROVE  /\ Root[n] = 0 /\ cont'[ConvOf[n]] # 0 /\ n >= cont'[ConvOf[n]] => Covered(n)'
               /\ Root[n] # 0 /\ n <= contT'[Root[n]] => Covered(n)'
    BY <1>d DEF IInv, Windows, Mail, reads
  <2>2. /\ Root[m] = 0 /\ cont'[ConvOf[m]] # 0 => Covered(m)'
        /\ Root[m] # 0 => ~(m <= contT'[Root[m]])
    <3>1. cont' = cont /\ contT' = contT
      BY <1>d DEF reads
    <3>2. Root[m] # 0 => contT[Root[m]] < m
      BY <1>a, Constants DEF IInv, Typed
    <3>3. Root[m] # 0 => contT[Root[m]] \in Nat
      BY <1>a, Constants DEF IInv, Typed
    <3> QED BY <1>a, <1>c, <3>1, <3>2, <3>3, Order DEF Covered
  <2>3. Mail' \subseteq Mail \cup {m}
    BY <1>a DEF Mail
  <2> QED BY <2>1, <2>2, <2>3 DEF Windows
<1>8. AckedIsSettled'
  <2>1. lapsed' = lapsed
    BY DEF Post
  <2> QED BY <1>a, <1>b, <1>c, <1>d, <2>1 DEF IInv, AckedIsSettled, disk
<1> QED BY <1>1, <1>2, <1>3, <1>4, <1>5, <1>6, <1>7, <1>8 DEF IInv

(* An envelope given up on was not the last trace.                         *)
LEMMA ExpireKeeps ==
  ASSUME IInv, NEW m \in Message, Expire(m)
  PROVE  IInv'
<1>1. Typed'
  BY DEF IInv, Typed, Posted, Taken, Expire, disk, socket, batch, reads
<1>2. Phase'
  BY DEF IInv, Phase, Expire, disk, socket, batch, reads
<1>3. Durable'
  BY DEF IInv, Durable, Mail, Posted, CatchUpReaches, Expire, disk
<1>4. ReadNow'
  BY DEF IInv, ReadNow, Mail, Posted, Covered, Expire, disk, batch, reads
<1>5. Passed'
  BY DEF IInv, Passed, Mail, Posted, Taken, Done, Covered, Expire, disk,
     batch, reads
<1>6. Flows'
  BY DEF IInv, Flows, Mail, Posted, Done, Covered, Expire, disk, socket,
     batch, reads
<1>7. Windows'
  BY DEF IInv, Windows, Mail, Posted, Covered, Expire, disk, batch, reads
<1>8. AckedIsSettled'
  BY DEF IInv, AckedIsSettled, Posted, Expire, disk
<1> QED BY <1>1, <1>2, <1>3, <1>4, <1>5, <1>6, <1>7, <1>8 DEF IInv

(* A process begins with nothing in hand.                                  *)
LEMMA StartKeeps ==
  ASSUME IInv, Start
  PROVE  IInv'
<1>1. Typed'
  BY DEF IInv, Typed, Posted, Taken, Start, world, disk, socket, batch, reads,
     ghosts
<1>2. Phase'
  BY DEF IInv, Phase, Start, world, disk, socket, batch, reads
<1>3. Durable'
  BY DEF IInv, Durable, Mail, Posted, CatchUpReaches, Start, world, disk,
     ghosts
<1>4. ReadNow'
  BY SlackAssumption DEF IInv, ReadNow, Phase, Mail, Start, world, disk,
     batch, reads, ghosts
<1>5. Passed'
  BY DEF IInv, Passed, Mail, Posted, Taken, Done, Covered, Start, world, disk,
     batch, reads, ghosts
<1>6. Flows'
  BY DEF IInv, Flows, Mail, Posted, Done, Covered, Start, world, disk, socket,
     batch, reads, ghosts
<1>7. Windows'
  BY DEF IInv, Windows, Mail, Posted, Covered, Start, world, disk, batch,
     reads, ghosts
<1>8. AckedIsSettled'
  BY DEF IInv, AckedIsSettled, Posted, Start, world, disk, ghosts
<1> QED BY <1>1, <1>2, <1>3, <1>4, <1>5, <1>6, <1>7, <1>8 DEF IInv

(* A death takes what was in hand, and what is durable needs none of it.   *)
LEMMA DieKeeps ==
  ASSUME IInv, Die
  PROVE  IInv'
<1>a. /\ UNCHANGED <<sent, owed, disk, why, lapsed>> /\ pc' = "down" /\ wire' = {} /\ ws' = FALSE
      /\ Taken' = {} /\ inflight' = {} /\ staged' = {} /\ dropped' = {} /\ queue' = {}
      /\ pending' = {} /\ todo' = {} /\ reading' = NoConv /\ left' = {}
      /\ cont' = [c \in Convs |-> 0] /\ contT' = [t \in Message |-> 0]
  BY DEF Die, Forget, Taken
<1>1. Typed'
  <2>1. sent \in Nat /\ 0 \in 0..sent
    BY DEF IInv, Typed
  <2> QED BY <1>a, <2>1 DEF IInv, Typed, Posted, disk
<1>2. Phase'
  BY DEF Phase, Die, Forget
<1>3. Durable'
  BY DEF IInv, Durable, Mail, Posted, CatchUpReaches, Die, disk
<1>4. ReadNow'
  BY <1>a, Constants DEF ReadNow, Mail
<1>5. Passed'
  BY DEF Passed, Taken, Die, Forget
<1>6. Flows'
  BY DEF Flows, Die, Forget
<1>7. Windows'
  BY <1>a, Constants DEF Windows, Mail
<1>8. AckedIsSettled'
  BY DEF IInv, AckedIsSettled, Posted, Die, disk
<1> QED BY <1>1, <1>2, <1>3, <1>4, <1>5, <1>6, <1>7, <1>8 DEF IInv

(* A batch that was not confirmed is queued again.                         *)
LEMMA FetchBeginKeeps ==
  ASSUME IInv, FetchBegin
  PROVE  IInv'
<1>1. Typed'
  BY DEF IInv, Typed, FetchBegin, Posted, Taken, world, disk, socket, ghosts
<1>2. Phase'
  BY DEF IInv, Phase, FetchBegin, world, disk, socket
<1>3. Durable'
  BY DEF IInv, Durable, Mail, Posted, CatchUpReaches, FetchBegin, world, disk,
     ghosts
<1>4. ReadNow'
  BY SlackAssumption DEF IInv, ReadNow, Phase, Mail, FetchBegin, world, disk,
     ghosts
<1>5. Passed'
  BY DEF IInv, Passed, Mail, Posted, Taken, Done, Covered, FetchBegin, world,
     disk, ghosts
<1>6. Flows'
  BY DEF IInv, Flows, Mail, Posted, Done, Covered, FetchBegin, world, disk,
     socket, ghosts
<1>7. Windows'
  BY DEF IInv, Windows, Mail, Posted, Covered, FetchBegin, world, disk, ghosts
<1>8. AckedIsSettled'
  BY DEF IInv, AckedIsSettled, Posted, FetchBegin, world, disk, ghosts
<1> QED BY <1>1, <1>2, <1>3, <1>4, <1>5, <1>6, <1>7, <1>8 DEF IInv

(* A read that ends at the marker has all of the history; another leaves   *)
(* its conversation pending.                                               *)
LEMMA ReadHistoryKeeps ==
  ASSUME IInv, NEW c \in Convs, ReadHistory(c)
  PROVE  IInv'
<1> DEFINE H == {n \in Posted : ConvOf[n] = c /\ Root[n] = 0}
<1>a. /\ pc \in {"retry", "catchup"} /\ reading = NoConv /\ c \in todo
      /\ pending' = pending \cup {c} /\ c \in Convs
      /\ UNCHANGED <<world, disk, socket, inflight, staged, envs, held, contT, why, lapsed>>
      /\ \A n \in Posted : n \in Message /\ n \in 1..sent
  BY Constants DEF IInv, Typed, ReadHistory, Posted, Message
<1>b. \E rows \in SUBSET H :
        /\ queue' = queue \cup (rows \cap Mentions) /\ dropped' = dropped \cup (rows \ Mentions)
        /\ \/ /\ \A n \in H : n \in rows \/ n <= mark[c] \/ (cont[c] # 0 /\ n >= cont[c])
              /\ reading' = c /\ left' = Threads(c) /\ pc' = pc /\ todo' = todo
              /\ cont' = [cont EXCEPT ![c] = 0]
           \/ /\ reading' = NoConv /\ left' = {} /\ todo' \subseteq todo /\ pc' \in {pc, "live"}
              /\ \E z \in 0..sent :
                   /\ cont' = [cont EXCEPT ![c] = z]
                   /\ z # 0 => \A n \in H : n >= z => n \in rows \/ (cont[c] # 0 /\ n >= cont[c])
  <2> DEFINE top == IF cont[c] # 0 THEN cont[c] ELSE sent + 1
  <2>1. CASE /\ TakeHistory(HistoryTo(c, mark[c], top)) /\ cont' = [cont EXCEPT ![c] = 0]
             /\ reading' = c /\ left' = Threads(c) /\ UNCHANGED <<todo, deferred, pc, faults>>
    <3> DEFINE rows == HistoryTo(c, mark[c], top)
    <3>1. rows \in SUBSET H
      BY DEF HistoryTo
    <3>2. \A n \in H : n \in rows \/ n <= mark[c] \/ (cont[c] # 0 /\ n >= cont[c])
      BY <1>a DEF IInv, Typed, HistoryTo
    <3>3. queue' = queue \cup (rows \cap Mentions) /\ dropped' = dropped \cup (rows \ Mentions)
      BY <2>1 DEF TakeHistory, Take
    <3> HIDE DEF rows, H
    <3> QED BY <2>1, <3>1, <3>2, <3>3
  <2>2. CASE \E low \in HistoryTo(c, mark[c], top) :
               /\ TakeHistory(HistoryTo(c, low - 1, top)) /\ cont' = [cont EXCEPT ![c] = low]
               /\ NextRead(c) /\ UNCHANGED <<deferred, pc, faults>>
    <3>1. PICK low \in HistoryTo(c, mark[c], top) :
               /\ TakeHistory(HistoryTo(c, low - 1, top)) /\ cont' = [cont EXCEPT ![c] = low]
               /\ NextRead(c) /\ UNCHANGED <<deferred, pc, faults>>
      BY <2>2
    <3> DEFINE rows == HistoryTo(c, low - 1, top)
    <3>2. rows \in SUBSET H /\ low \in 0..sent
      BY <1>a DEF HistoryTo
    <3>3. \A n \in H : n >= low => n \in rows \/ (cont[c] # 0 /\ n >= cont[c])
      BY <1>a DEF IInv, Typed, HistoryTo
    <3>4. queue' = queue \cup (rows \cap Mentions) /\ dropped' = dropped \cup (rows \ Mentions)
      BY <3>1 DEF TakeHistory, Take
    <3>5. reading' = NoConv /\ left' = {} /\ todo' \subseteq todo /\ pc' = pc
          /\ cont' = [cont EXCEPT ![c] = low]
      BY <3>1 DEF NextRead
    <3> HIDE DEF rows, H
    <3> QED BY <3>2, <3>3, <3>4, <3>5
  <2>3. CASE \/ /\ Fault /\ cont' \in {cont, [cont EXCEPT ![c] = 0]} /\ NextRead(c)
                /\ UNCHANGED <<queue, dropped, headed, deferred, pc>>
             \/ Defer /\ UNCHANGED <<queue, dropped, headed, cont>>
    <3>1. /\ queue' = queue /\ dropped' = dropped /\ reading' = NoConv /\ left' = {}
          /\ todo' \subseteq todo /\ pc' \in {pc, "live"}
          /\ cont' = cont \/ cont' = [cont EXCEPT ![c] = 0]
      BY <2>3 DEF NextRead, Defer
    <3>2. cont[c] \in 0..sent /\ cont = [cont EXCEPT ![c] = cont[c]] /\ 0 \in 0..sent
      BY DEF IInv, Typed
    <3>3. \E z \in 0..sent : /\ cont' = [cont EXCEPT ![c] = z]
                             /\ z # 0 => z = cont[c]
      BY <3>1, <3>2
    <3>4. queue = queue \cup ({} \cap Mentions) /\ dropped = dropped \cup ({} \ Mentions)
          /\ {} \in SUBSET H
      OBVIOUS
    <3> HIDE DEF H
    <3> QED BY <3>1, <3>3, <3>4
  <2> HIDE DEF H
  <2> QED BY <2>1, <2>2, <2>3 DEF ReadHistory
<1>c. PICK rows \in SUBSET H :
        /\ queue' = queue \cup (rows \cap Mentions) /\ dropped' = dropped \cup (rows \ Mentions)
        /\ \/ /\ \A n \in H : n \in rows \/ n <= mark[c] \/ (cont[c] # 0 /\ n >= cont[c])
              /\ reading' = c /\ left' = Threads(c) /\ pc' = pc /\ todo' = todo
              /\ cont' = [cont EXCEPT ![c] = 0]
           \/ /\ reading' = NoConv /\ left' = {} /\ todo' \subseteq todo /\ pc' \in {pc, "live"}
              /\ \E z \in 0..sent :
                   /\ cont' = [cont EXCEPT ![c] = z]
                   /\ z # 0 => \A n \in H : n >= z => n \in rows \/ (cont[c] # 0 /\ n >= cont[c])
  BY <1>b
<1>d. /\ Mail' = Mail /\ Posted' = Posted /\ Taken' = Taken \cup rows
      /\ \A n \in Mail : (Covered(n) => Covered(n)') /\ (n \in rows => Covered(n)')
      /\ \A n \in Mail : n \in Message /\ n \in Posted
  BY <1>a, <1>c DEF world, disk, Mail, Posted, Taken, Covered
<1>e. ASSUME NEW n \in Mail, Root[n] = 0, ConvOf[n] = c, reading' = c
      PROVE  Covered(n)'
  <2>1. n \in H
    BY <1>d, <1>e
  <2>2. n \in rows \/ n <= mark[c] \/ (cont[c] # 0 /\ n >= cont[c])
    BY <1>c, <1>e, <2>1, Constants
  <2>3. n <= mark[c] => n \in settled \/ why[n] # ""
    <3>1. mark[c] \in Nat /\ n \in Nat
      BY <1>a, <1>d DEF IInv, Typed
    <3>2. n <= mark[c] => ~CatchUpReaches(n)
      BY <1>e, <3>1 DEF CatchUpReaches
    <3> QED BY <3>2 DEF IInv, Durable
  <2>4. cont[c] # 0 /\ n >= cont[c] => Covered(n)
    BY <1>e DEF IInv, Windows
  <2>5. n \in settled \/ why[n] # "" => Covered(n)
    BY DEF Covered
  <2> QED BY <1>d, <2>2, <2>3, <2>4, <2>5
<1>f. ASSUME NEW n \in Mail, ConvOf[n] = c, Done(n)'
      PROVE  reading' = c /\ Covered(n)'
  <2>1. ConvOf[Root[n]] = c \/ Root[n] = 0
    BY <1>d, <1>f, Constants
  <2>2. reading' = c /\ (Root[n] # 0 => Root[n] \notin left' /\ Root[n] \in Message)
    BY <1>a, <1>d, <1>f, Constants DEF Done
  <2>3. CASE Root[n] = 0
    BY <1>e, <1>f, <2>2, <2>3
  <2>4. CASE Root[n] # 0
    <3>1. left' = Threads(c)
      BY <1>c, <2>2, Constants
    <3>2. thr[Root[n]] = 0
      BY <2>1, <2>2, <2>4, <3>1 DEF Threads
    <3>3. n \in settled \/ why[n] # ""
      BY <2>4, <3>2 DEF IInv, Durable, CatchUpReaches
    <3> QED BY <1>d, <2>2, <3>3 DEF Covered
  <2> QED BY <2>3, <2>4
<1>g. ASSUME NEW n \in Mail, ConvOf[n] # c, Done(n)'
      PROVE  Done(n)
  <2>1. ConvOf[Root[n]] # c \/ Root[n] = 0
    BY <1>d, <1>g, Constants
  <2>2. reading' \in {c, NoConv} /\ ConvOf[n] # NoConv /\ (Root[n] # 0 => ConvOf[Root[n]] # NoConv)
    BY <1>c, <1>d, Constants
  <2> QED BY <1>a, <1>g, <2>1, <2>2 DEF Done
<1> HIDE DEF H
<1>1. Typed'
  <2>1. rows \subseteq Posted
    BY DEF H
  <2>2. (cont \in [Convs -> 0..sent])'
    BY <1>a, <1>c DEF IInv, Typed, world
  <2>3. (reading \in pending \cup {NoConv} /\ \A t \in left : t \in Message /\ ConvOf[t] = reading)'
    BY <1>a, <1>c DEF Threads
  <2> QED BY <1>a, <1>c, <1>d, <2>1, <2>2, <2>3 DEF IInv, Typed, world, disk, socket
<1>2. Phase'
  BY <1>a, <1>c DEF IInv, Phase, world, disk, socket
<1>3. Durable'
  BY DEF IInv, Durable, Mail, Posted, CatchUpReaches, ReadHistory, world, disk
<1>4. ReadNow'
  <2> SUFFICES ASSUME NEW n \in Mail, Root[n] = 0, ConvOf[n] = reading' PROVE Covered(n)'
    BY <1>d DEF ReadNow
  <2>1. reading' = c
    BY <1>c, <1>d, Constants
  <2> QED BY <1>e, <2>1
<1>5. Passed'
  <2> SUFFICES ASSUME NEW n \in Mail, Done(n)', NEW k \in Taken', k >= n, Moves(k, n)
               PROVE  Covered(n)'
    BY <1>d DEF Passed
  <2>1. CASE ConvOf[n] = c
    BY <1>f, <2>1
  <2>2. CASE ConvOf[n] # c
    <3>1. k \notin rows
      BY <2>2 DEF Moves, H
    <3> QED BY <1>d, <1>g, <2>2, <3>1 DEF IInv, Passed
  <2> QED BY <2>1, <2>2
<1>6. Flows'
  <2> SUFFICES ASSUME NEW n \in Mail, ws', Done(n)' PROVE n \in wire' \/ Covered(n)'
    BY <1>d DEF Flows
  <2>1. CASE ConvOf[n] = c
    BY <1>f, <2>1
  <2>2. CASE ConvOf[n] # c
    BY <1>a, <1>d, <1>g, <2>2 DEF IInv, Flows, world, socket
  <2> QED BY <2>1, <2>2
<1>7. Windows'
  <2>1. ASSUME NEW n \in Mail, Root[n] = 0, cont'[ConvOf[n]] # 0, n >= cont'[ConvOf[n]]
        PROVE  Covered(n)'
    <3>1. CASE ConvOf[n] # c
      <4>1. cont'[ConvOf[n]] = cont[ConvOf[n]]
        BY <1>c, <1>d, <3>1, Constants DEF IInv, Typed
      <4> QED BY <1>d, <2>1, <4>1 DEF IInv, Windows
    <3>2. CASE ConvOf[n] = c
      <4>1. n \in H
        BY <1>d, <2>1, <3>2 DEF H
      <4>2. n \in rows \/ (cont[c] # 0 /\ n >= cont[c])
        BY <1>c, <2>1, <3>2, <4>1 DEF IInv, Typed
      <4> QED BY <1>d, <2>1, <3>2, <4>2 DEF IInv, Windows
    <3> QED BY <3>1, <3>2
  <2>2. ASSUME NEW n \in Mail, Root[n] # 0, n <= contT'[Root[n]] PROVE Covered(n)'
    BY <1>a, <1>d, <2>2 DEF IInv, Windows
  <2> QED BY <1>d, <2>1, <2>2 DEF Windows
<1>8. AckedIsSettled'
  BY DEF IInv, AckedIsSettled, Posted, ReadHistory, world, disk
<1> QED BY <1>1, <1>2, <1>3, <1>4, <1>5, <1>6, <1>7, <1>8 DEF IInv

(* A read of replies has all of the thread, or leaves its conversation     *)
(* pending.                                                                *)
LEMMA ReadRepliesKeeps ==
  ASSUME IInv, NEW t \in Message, ReadReplies(t)
  PROVE  IInv'
<1> DEFINE H == {n \in Posted : Root[n] = t}
           c == reading
<1>a. /\ c # NoConv /\ t \in left /\ ConvOf[t] = c /\ c \in pending
      /\ UNCHANGED <<world, disk, socket, inflight, staged, envs, held, pending, cont, why, lapsed>>
      /\ \A n \in Posted : n \in Message /\ n \in 1..sent
  BY Constants DEF IInv, Typed, ReadReplies, Posted, Message
<1>b. \E rows \in SUBSET H :
        /\ queue' = queue \cup (rows \cap Mentions) /\ dropped' = dropped \cup (rows \ Mentions)
        /\ \/ /\ \A n \in H : n \in rows \/ n <= thr[t] \/ n <= contT[t]
              /\ reading' = c /\ left' = left \ {t} /\ pc' = pc /\ todo' = todo
              /\ contT' = [contT EXCEPT ![t] = 0]
           \/ /\ reading' = NoConv /\ left' = {} /\ todo' \subseteq todo /\ pc' \in {pc, "live"}
              /\ \E z \in 0..sent :
                   /\ contT' = [contT EXCEPT ![t] = z]
                   /\ \A n \in H : n <= z => n \in rows \/ n <= thr[t] \/ n <= contT[t]
  <2> DEFINE low == Larger(thr[t], contT[t])
  <2>0. /\ thr[t] \in 0..sent /\ contT[t] \in 0..sent /\ low \in 0..sent /\ sent \in Nat
        /\ \A n \in H : n > low \/ n <= thr[t] \/ n <= contT[t]
    BY <1>a DEF IInv, Typed, Larger
  <2> HIDE DEF low
  <2>1. CASE /\ Take(RepliesTo(t, low, sent)) /\ contT' = [contT EXCEPT ![t] = 0]
             /\ left' = left \ {t} /\ UNCHANGED <<todo, reading, deferred, pc, faults>>
    <3> DEFINE rows == RepliesTo(t, low, sent)
    <3>1. rows \in SUBSET H
      BY DEF RepliesTo
    <3>2. \A n \in H : n \in rows \/ n <= thr[t] \/ n <= contT[t]
      BY <1>a, <2>0 DEF RepliesTo
    <3>3. queue' = queue \cup (rows \cap Mentions) /\ dropped' = dropped \cup (rows \ Mentions)
      BY <2>1 DEF Take
    <3> HIDE DEF rows, H
    <3> QED BY <2>1, <3>1, <3>2, <3>3
  <2>2. CASE \E top \in RepliesTo(t, low, sent) :
               /\ top < sent /\ Take(RepliesTo(t, low, top))
               /\ contT' = [contT EXCEPT ![t] = top]
               /\ NextRead(reading) /\ UNCHANGED <<deferred, pc, faults>>
    <3>1. PICK top \in RepliesTo(t, low, sent) :
               /\ top < sent /\ Take(RepliesTo(t, low, top))
               /\ contT' = [contT EXCEPT ![t] = top]
               /\ NextRead(reading) /\ UNCHANGED <<deferred, pc, faults>>
      BY <2>2
    <3> DEFINE rows == RepliesTo(t, low, top)
    <3>2. rows \in SUBSET H /\ top \in 0..sent
      BY <1>a DEF RepliesTo
    <3>3. \A n \in H : n <= top => n \in rows \/ n <= thr[t] \/ n <= contT[t]
      BY <2>0 DEF RepliesTo
    <3>4. queue' = queue \cup (rows \cap Mentions) /\ dropped' = dropped \cup (rows \ Mentions)
      BY <3>1 DEF Take
    <3>5. reading' = NoConv /\ left' = {} /\ todo' \subseteq todo /\ pc' = pc
          /\ contT' = [contT EXCEPT ![t] = top]
      BY <3>1 DEF NextRead
    <3> HIDE DEF rows, H
    <3> QED BY <3>2, <3>3, <3>4, <3>5
  <2>3. CASE \/ /\ Fault /\ contT' \in {contT, [contT EXCEPT ![t] = 0]} /\ NextRead(reading)
                /\ UNCHANGED <<queue, dropped, deferred, pc>>
             \/ Defer /\ UNCHANGED <<queue, dropped, contT>>
    <3>1. /\ queue' = queue /\ dropped' = dropped /\ reading' = NoConv /\ left' = {}
          /\ todo' \subseteq todo /\ pc' \in {pc, "live"}
          /\ contT' = contT \/ contT' = [contT EXCEPT ![t] = 0]
      BY <2>3 DEF NextRead, Defer
    <3>2. contT = [contT EXCEPT ![t] = contT[t]] /\ 0 \in 0..sent
      BY DEF IInv, Typed
    <3>3. \E z \in 0..sent : contT' = [contT EXCEPT ![t] = z] /\ (z = 0 \/ z = contT[t])
      BY <2>0, <3>1, <3>2
    <3>4. queue = queue \cup ({} \cap Mentions) /\ dropped = dropped \cup ({} \ Mentions)
          /\ {} \in SUBSET H /\ \A n \in H : n > 0
      BY <1>a
    <3>5. ASSUME NEW z \in 0..sent, z = 0 \/ z = contT[t], NEW n \in H, n <= z
          PROVE  n <= thr[t] \/ n <= contT[t]
      BY <1>a, <3>5
    <3> HIDE DEF H
    <3> QED BY <3>1, <3>3, <3>4, <3>5
  <2> HIDE DEF H
  <2> QED BY <2>1, <2>2, <2>3 DEF ReadReplies, low
<1>c. PICK rows \in SUBSET H :
        /\ queue' = queue \cup (rows \cap Mentions) /\ dropped' = dropped \cup (rows \ Mentions)
        /\ \/ /\ \A n \in H : n \in rows \/ n <= thr[t] \/ n <= contT[t]
              /\ reading' = c /\ left' = left \ {t} /\ pc' = pc /\ todo' = todo
              /\ contT' = [contT EXCEPT ![t] = 0]
           \/ /\ reading' = NoConv /\ left' = {} /\ todo' \subseteq todo /\ pc' \in {pc, "live"}
              /\ \E z \in 0..sent :
                   /\ contT' = [contT EXCEPT ![t] = z]
                   /\ \A n \in H : n <= z => n \in rows \/ n <= thr[t] \/ n <= contT[t]
  BY <1>b
<1>d. /\ Mail' = Mail /\ Posted' = Posted /\ Taken' = Taken \cup rows
      /\ \A n \in Mail : (Covered(n) => Covered(n)') /\ (n \in rows => Covered(n)')
      /\ \A n \in Mail : n \in Message /\ n \in Posted
  BY <1>a, <1>c DEF world, disk, Mail, Posted, Taken, Covered
<1>e. ASSUME NEW n \in Mail, Root[n] = t, n \in rows \/ n <= thr[t] \/ n <= contT[t]
      PROVE  Covered(n)'
  <2>1. n <= thr[t] => n \in settled \/ why[n] # ""
    <3>1. thr[t] \in Nat /\ n \in Nat /\ Root[n] # 0
      BY <1>d, <1>e, Constants DEF IInv, Typed
    <3>2. n <= thr[t] => ~CatchUpReaches(n)
      BY <1>e, <3>1 DEF CatchUpReaches
    <3> QED BY <3>2 DEF IInv, Durable
  <2>2. n <= contT[t] => Covered(n)
    <3>1. Root[n] # 0
      BY <1>e, Constants
    <3> QED BY <1>e, <3>1 DEF IInv, Windows
  <2>3. n \in settled \/ why[n] # "" => Covered(n)
    BY DEF Covered
  <2> QED BY <1>d, <1>e, <2>1, <2>2, <2>3
<1>f. ASSUME NEW n \in Mail, Done(n)'
      PROVE  Done(n) \/ (Root[n] = t /\ Covered(n)')
  <2>1. CASE reading' = c /\ Root[n] = t
    <3>1. n \in H
      BY <1>d, <2>1
    <3> QED BY <1>a, <1>c, <1>e, <2>1, <3>1
  <2>2. CASE reading' = c /\ Root[n] # t
    <3>1. left' = left \ {t} /\ pending' = pending /\ reading' = reading
      BY <1>a, <1>c, <2>2
    <3> QED BY <1>f, <2>2, <3>1 DEF Done
  <2>3. CASE reading' = NoConv
    <3>1. ConvOf[n] # NoConv /\ (Root[n] # 0 => ConvOf[Root[n]] # NoConv)
      BY <1>d, Constants
    <3>2. pending' = pending
      BY <1>a
    <3> QED BY <1>f, <2>3, <3>1, <3>2 DEF Done
  <2> QED BY <1>c, <2>1, <2>2, <2>3
<1> HIDE DEF H
<1>1. Typed'
  <2>1. rows \subseteq Posted
    BY DEF H
  <2>2. (contT \in [Message -> 0..sent])'
    BY <1>a, <1>c DEF IInv, Typed, world
  <2>3. (reading \in pending \cup {NoConv} /\ \A u \in left : u \in Message /\ ConvOf[u] = reading)'
    BY <1>a, <1>c DEF IInv, Typed
  <2> QED BY <1>a, <1>c, <1>d, <2>1, <2>2, <2>3 DEF IInv, Typed, world, disk, socket
<1>2. Phase'
  BY <1>a, <1>c DEF IInv, Phase, world, disk, socket
<1>3. Durable'
  BY DEF IInv, Durable, Mail, Posted, CatchUpReaches, ReadReplies, world, disk
<1>4. ReadNow'
  <2> SUFFICES ASSUME NEW n \in Mail, Root[n] = 0, ConvOf[n] = reading' PROVE Covered(n)'
    BY <1>d DEF ReadNow
  <2>1. reading' = c
    BY <1>c, <1>d, Constants
  <2> QED BY <1>d, <2>1 DEF IInv, ReadNow
<1>5. Passed'
  <2> SUFFICES ASSUME NEW n \in Mail, Done(n)', NEW k \in Taken', k >= n, Moves(k, n)
               PROVE  Covered(n)'
    BY <1>d DEF Passed
  <2>1. CASE Root[n] = 0 /\ ConvOf[n] = c
    BY <1>d, <2>1 DEF IInv, ReadNow
  <2>2. CASE Root[n] = t /\ Covered(n)'
    BY <2>2
  <2>3. CASE Done(n) /\ k \notin rows
    BY <1>d, <2>3 DEF IInv, Passed
  <2>4. CASE Done(n) /\ k \in rows /\ ~(Root[n] = 0 /\ ConvOf[n] = c)
    <3>1. Root[k] = t /\ k \in Message /\ t \in Message
      BY <1>a, <2>4 DEF H
    <3>2. ConvOf[k] = c /\ t # 0
      BY <1>a, <3>1, Constants
    <3>3. Root[n] = t /\ Root[n] # 0
      BY <2>4, <3>1, <3>2 DEF Moves
    <3>4. FALSE
      BY <1>a, <2>4, <3>3 DEF Done
    <3> QED BY <3>4
  <2> QED BY <1>f, <2>1, <2>2, <2>3, <2>4
<1>6. Flows'
  <2> SUFFICES ASSUME NEW n \in Mail, ws', Done(n)' PROVE n \in wire' \/ Covered(n)'
    BY <1>d DEF Flows
  <2> QED BY <1>a, <1>d, <1>f DEF IInv, Flows, world, socket
<1>7. Windows'
  <2>1. ASSUME NEW n \in Mail, Root[n] = 0, cont'[ConvOf[n]] # 0, n >= cont'[ConvOf[n]]
        PROVE  Covered(n)'
    BY <1>a, <1>d, <2>1 DEF IInv, Windows
  <2>2. ASSUME NEW n \in Mail, Root[n] # 0, n <= contT'[Root[n]] PROVE Covered(n)'
    <3>1. CASE Root[n] # t
      <4>1. contT'[Root[n]] = contT[Root[n]]
        BY <1>c, <1>d, <2>2, <3>1, Constants DEF IInv, Typed
      <4> QED BY <1>d, <2>2, <4>1 DEF IInv, Windows
    <3>2. CASE Root[n] = t
      <4>1. n \in H /\ n > 0
        BY <1>a, <1>d, <3>2 DEF H
      <4>2. n \in rows \/ n <= thr[t] \/ n <= contT[t]
        BY <1>c, <2>2, <3>2, <4>1 DEF IInv, Typed
      <4> QED BY <1>e, <3>2, <4>2
    <3> QED BY <3>1, <3>2
  <2> QED BY <1>d, <2>1, <2>2 DEF Windows
<1>8. AckedIsSettled'
  BY DEF IInv, AckedIsSettled, Posted, ReadReplies, world, disk
<1> QED BY <1>1, <1>2, <1>3, <1>4, <1>5, <1>6, <1>7, <1>8 DEF IInv

(* A conversation stops being pending when all of it is read.              *)
LEMMA ConversationReadKeeps ==
  ASSUME IInv, ConversationRead
  PROVE  IInv'
<1>a. /\ UNCHANGED <<world, disk, pc, socket, batch, cont, contT, why, lapsed>>
      /\ reading # NoConv /\ left = {} /\ pending' = pending \ {reading}
      /\ reading' = NoConv /\ left' = {} /\ todo' \subseteq todo
  BY DEF ConversationRead, NextRead, ghosts
<1>b. /\ Mail' = Mail /\ Taken' = Taken
      /\ \A n \in Mail : n \in Message /\ (Covered(n)' <=> Covered(n)) /\ ConvOf[n] # NoConv
                         /\ (Root[n] # 0 => ConvOf[Root[n]] # NoConv)
  BY <1>a, Constants DEF world, disk, batch, Mail, Posted, Taken, Covered
<1>c. ASSUME NEW n \in Mail, Done(n)' PROVE Done(n)
  BY <1>a, <1>b, <1>c DEF Done
<1>1. Typed'
  BY DEF IInv, Typed, Posted, Taken, ConversationRead, NextRead, world, disk,
     socket, batch, ghosts
<1>2. Phase'
  BY DEF IInv, Phase, ConversationRead, world, disk, socket, batch
<1>3. Durable'
  BY DEF IInv, Durable, Mail, Posted, CatchUpReaches, ConversationRead, world,
     disk, ghosts
<1>4. ReadNow'
  BY <1>a, <1>b DEF ReadNow
<1>5. Passed'
  BY <1>b, <1>c DEF IInv, Passed
<1>6. Flows'
  BY <1>a, <1>b, <1>c DEF IInv, Flows, world, socket
<1>7. Windows'
  BY DEF IInv, Windows, Mail, Posted, Covered, ConversationRead, world, disk,
     batch, ghosts
<1>8. AckedIsSettled'
  BY DEF IInv, AckedIsSettled, Posted, ConversationRead, world, disk, ghosts
<1> QED BY <1>1, <1>2, <1>3, <1>4, <1>5, <1>6, <1>7, <1>8 DEF IInv

(* The catch-up ends.                                                      *)
LEMMA ReadsDoneKeeps ==
  ASSUME IInv, ReadsDone
  PROVE  IInv'
<1>1. Typed'
  BY DEF IInv, Typed, Posted, Taken, ReadsDone, world, disk, socket, batch,
     reads, ghosts
<1>2. Phase'
  BY DEF IInv, Phase, ReadsDone, world, disk, socket, batch, reads
<1>3. Durable'
  BY DEF IInv, Durable, Mail, Posted, CatchUpReaches, ReadsDone, world, disk,
     ghosts
<1>4. ReadNow'
  BY SlackAssumption DEF ReadNow, Mail, ReadsDone, world, disk, batch, reads,
     ghosts
<1>5. Passed'
  BY DEF IInv, Passed, Mail, Posted, Taken, Done, Covered, ReadsDone, world,
     disk, batch, reads, ghosts
<1>6. Flows'
  BY DEF IInv, Flows, Mail, Posted, Done, Covered, ReadsDone, world, disk,
     socket, batch, reads, ghosts
<1>7. Windows'
  BY DEF IInv, Windows, Mail, Posted, Covered, ReadsDone, world, disk, batch,
     reads, ghosts
<1>8. AckedIsSettled'
  BY DEF IInv, AckedIsSettled, Posted, ReadsDone, world, disk, ghosts
<1> QED BY <1>1, <1>2, <1>3, <1>4, <1>5, <1>6, <1>7, <1>8 DEF IInv

(* A new socket marks every conversation pending.                          *)
LEMMA ConnectKeeps ==
  ASSUME IInv, Connect
  PROVE  IInv'
<1>a. /\ UNCHANGED <<sent, owed, disk, batch, cont, contT, reading, left, why, lapsed>>
      /\ reading = NoConv /\ pending' = Convs /\ todo' = Convs /\ wire' = {} /\ ws' = TRUE
      /\ pc = "connect" /\ pc' = "catchup"
  BY DEF IInv, Phase, Connect, ghosts
<1>b. /\ Mail' = Mail
      /\ \A n \in Mail : ~Done(n)'
  BY <1>a, Constants DEF Mail, Posted, Done
<1>1. Typed'
  BY <1>a DEF IInv, Typed, Posted, Taken, disk, batch
<1>2. Phase'
  BY DEF IInv, Phase, Connect, disk, batch
<1>3. Durable'
  BY DEF IInv, Durable, Mail, Posted, CatchUpReaches, Connect, disk, ghosts
<1>4. ReadNow'
  BY SlackAssumption DEF IInv, ReadNow, Phase, Mail, Connect, disk, batch,
     ghosts
<1>5. Passed'
  BY <1>b DEF Passed
<1>6. Flows'
  BY <1>b DEF Flows
<1>7. Windows'
  BY DEF IInv, Windows, Mail, Posted, Covered, Connect, disk, batch, ghosts
<1>8. AckedIsSettled'
  BY DEF IInv, AckedIsSettled, Posted, Connect, disk, ghosts
<1> QED BY <1>1, <1>2, <1>3, <1>4, <1>5, <1>6, <1>7, <1>8 DEF IInv

(* A connect that fails changes nothing.                                   *)
LEMMA ConnectFailsKeeps ==
  ASSUME IInv, ConnectFails
  PROVE  IInv'
<1>a. /\ UNCHANGED <<world, disk, ws, batch, pending, cont, contT, why, lapsed>>
      /\ reading = NoConv /\ reading' = NoConv
  BY DEF IInv, Phase, ConnectFails, Defer
<1>b. /\ Mail' = Mail /\ Taken' = Taken
      /\ \A n \in Mail : n \in Message /\ (Covered(n)' <=> Covered(n)) /\ ConvOf[n] # NoConv
                         /\ (Root[n] # 0 => ConvOf[Root[n]] # NoConv)
  BY <1>a, Constants DEF world, disk, batch, Mail, Posted, Taken, Covered
<1>c. ASSUME NEW n \in Mail, Done(n)' PROVE Done(n)
  BY <1>a, <1>b, <1>c DEF Done
<1>1. Typed'
  BY DEF IInv, Typed, Posted, Taken, ConnectFails, Defer, world, disk, batch
<1>2. Phase'
  BY DEF IInv, Phase, ConnectFails, Defer, world, disk, batch
<1>3. Durable'
  BY DEF IInv, Durable, Mail, Posted, CatchUpReaches, ConnectFails, world,
     disk
<1>4. ReadNow'
  BY <1>a, <1>b DEF ReadNow
<1>5. Passed'
  BY <1>b, <1>c DEF IInv, Passed
<1>6. Flows'
  BY <1>a, <1>b, <1>c DEF IInv, Flows, world
<1>7. Windows'
  BY DEF IInv, Windows, Mail, Posted, Covered, ConnectFails, world, disk,
     batch
<1>8. AckedIsSettled'
  BY DEF IInv, AckedIsSettled, Posted, ConnectFails, world, disk
<1> QED BY <1>1, <1>2, <1>3, <1>4, <1>5, <1>6, <1>7, <1>8 DEF IInv

(* What comes over the socket comes after what it would hide.              *)
LEMMA ReceiveKeeps ==
  ASSUME IInv, NEW m \in Message, Receive(m)
  PROVE  IInv'
<1>a. /\ pc = "live" /\ ws /\ m \in owed /\ m \in Posted /\ m \in Message
      /\ m \notin wire \/ \A n \in wire : m <= n
      /\ UNCHANGED <<sent, owed, disk, pc, socket, inflight, staged, headed, held, reads, ghosts>>
      /\ wire' = wire \ {m}
      /\ queue' = queue \cup ({m} \cap Mentions) /\ dropped' = dropped \cup ({m} \ Mentions)
  BY DEF IInv, Typed, Receive, Take
<1>b. /\ Mail' = Mail /\ Posted' = Posted /\ Taken' = Taken \cup {m}
      /\ \A n \in Mail : (Covered(n) => Covered(n)') /\ (Done(n)' => Done(n))
                         /\ n \in Posted /\ n \in Message
      /\ m \in Mail => Covered(m)'
  BY <1>a, Constants DEF disk, reads, ghosts, Mail, Posted, Taken, Covered,
     Done
<1>1. Typed'
  BY <1>a, <1>b DEF IInv, Typed, disk, socket, reads, ghosts
<1>2. Phase'
  BY DEF IInv, Phase, Typed, Posted, Receive, disk, socket, reads
<1>3. Durable'
  BY DEF IInv, Durable, Mail, Posted, CatchUpReaches, Receive, disk, ghosts
<1>4. ReadNow'
  BY SlackAssumption DEF IInv, ReadNow, Phase, Mail, Receive, Take, disk,
     reads, ghosts
<1>5. Passed'
  <2> SUFFICES ASSUME NEW n \in Mail, Done(n)', NEW k \in Taken', k >= n, Moves(k, n)
               PROVE  Covered(n)'
    BY <1>b DEF Passed
  <2>1. CASE k \in Taken
    BY <1>b, <2>1 DEF IInv, Passed
  <2>2. CASE k = m /\ n \in wire
    <3>1. n = m
      BY <1>a, <1>b, <2>2, Constants DEF IInv, Phase
    <3> QED BY <1>b, <3>1
  <2>3. CASE k = m /\ n \notin wire
    BY <1>a, <1>b, <2>3 DEF IInv, Flows
  <2> QED BY <1>b, <2>1, <2>2, <2>3
<1>6. Flows'
  BY DEF IInv, Flows, Mail, Posted, Done, Covered, Receive, Take, disk, reads,
     ghosts
<1>7. Windows'
  BY DEF IInv, Windows, Mail, Posted, Covered, Receive, Take, disk, reads,
     ghosts
<1>8. AckedIsSettled'
  BY DEF IInv, AckedIsSettled, Posted, Receive, disk, ghosts
<1> QED BY <1>1, <1>2, <1>3, <1>4, <1>5, <1>6, <1>7, <1>8 DEF IInv

(* The queue becomes the batch.                                            *)
LEMMA PollEndsKeeps ==
  ASSUME IInv, PollEnds
  PROVE  IInv'
<1>1. Typed'
  BY DEF IInv, Typed, Posted, Taken, PollEnds, Return, world, disk, socket,
     reads, ghosts
<1>2. Phase'
  BY DEF IInv, Phase, PollEnds, Return, world, disk, socket, reads
<1>3. Durable'
  BY DEF IInv, Durable, Mail, Posted, CatchUpReaches, PollEnds, world, disk,
     ghosts
<1>4. ReadNow'
  BY SlackAssumption DEF IInv, ReadNow, Phase, Mail, PollEnds, Return, world,
     disk, reads, ghosts
<1>5. Passed'
  BY DEF IInv, Passed, Phase, Mail, Posted, Taken, Done, Covered, PollEnds,
     Return, world, disk, reads, ghosts
<1>6. Flows'
  BY DEF IInv, Flows, Phase, Mail, Posted, Done, Covered, PollEnds, Return,
     world, disk, socket, reads, ghosts
<1>7. Windows'
  BY DEF IInv, Windows, Phase, Mail, Posted, Covered, PollEnds, Return, world,
     disk, reads, ghosts
<1>8. AckedIsSettled'
  BY DEF IInv, AckedIsSettled, Posted, PollEnds, world, disk, ghosts
<1> QED BY <1>1, <1>2, <1>3, <1>4, <1>5, <1>6, <1>7, <1>8 DEF IInv

(* What a socket leaves unread is below no marker.                         *)
LEMMA SocketEndsKeeps ==
  ASSUME IInv, SocketEnds
  PROVE  IInv'
<1>1. Typed'
  BY DEF IInv, Typed, Posted, Taken, SocketEnds, CloseSocket, Return, disk,
     reads
<1>2. Phase'
  BY DEF IInv, Phase, SocketEnds, CloseSocket, Return, disk, reads
<1>3. Durable'
  BY DEF IInv, Durable, Mail, Posted, CatchUpReaches, SocketEnds, disk
<1>4. ReadNow'
  BY SlackAssumption DEF IInv, ReadNow, Phase, Mail, SocketEnds, Return, disk,
     reads
<1>5. Passed'
  BY DEF IInv, Passed, Phase, Mail, Posted, Taken, Done, Covered, SocketEnds,
     Return, disk, reads
<1>6. Flows'
  BY DEF Flows, SocketEnds, CloseSocket
<1>7. Windows'
  BY DEF IInv, Windows, Phase, Mail, Posted, Covered, SocketEnds, Return,
     disk, reads
<1>8. AckedIsSettled'
  BY DEF IInv, AckedIsSettled, Posted, SocketEnds, disk
<1> QED BY <1>1, <1>2, <1>3, <1>4, <1>5, <1>6, <1>7, <1>8 DEF IInv

(* What is handled is settled.                                             *)
LEMMA HandleKeeps ==
  ASSUME IInv, NEW some \in SUBSET inflight, Handle(some)
  PROVE  IInv'
<1>1. Typed'
  BY DEF IInv, Typed, Posted, Taken, Handle, world, socket, reads
<1>2. Phase'
  BY DEF IInv, Phase, Handle, world, socket, reads
<1>3. Durable'
  BY DEF IInv, Durable, Mail, Posted, CatchUpReaches, Handle, world
<1>4. ReadNow'
  BY SlackAssumption DEF IInv, ReadNow, Phase, Mail, Handle, world, reads
<1>5. Passed'
  BY ZenonT(60), SlackAssumption DEF IInv, Passed, Typed, Phase, Mail, Posted, Taken,
     Done, Moves, Covered, Message, Handle, Fault, world, disk, socket, batch,
     reads, ghosts, SlackAssumption
<1>6. Flows'
  BY DEF IInv, Flows, Mail, Posted, Done, Covered, Handle, world, socket,
     reads
<1>7. Windows'
  BY DEF IInv, Windows, Mail, Posted, Covered, Handle, world, reads
<1>8. AckedIsSettled'
  BY DEF IInv, AckedIsSettled, Posted, Handle, world
<1> QED BY <1>1, <1>2, <1>3, <1>4, <1>5, <1>6, <1>7, <1>8 DEF IInv

(* Only what is settled, or no mail, is acknowledged.                      *)
LEMMA AckEnvelopesKeeps ==
  ASSUME IInv, AckEnvelopes
  PROVE  IInv'
<1>1. Typed'
  BY DEF IInv, Typed, Posted, Taken, AckEnvelopes, disk, socket, reads, ghosts
<1>2. Phase'
  BY DEF IInv, Phase, AckEnvelopes, disk, socket, reads
<1>3. Durable'
  BY DEF IInv, Durable, Mail, Posted, CatchUpReaches, AckEnvelopes, disk,
     ghosts
<1>4. ReadNow'
  BY SlackAssumption DEF IInv, ReadNow, Phase, Mail, AckEnvelopes, disk,
     reads, ghosts
<1>5. Passed'
  BY DEF IInv, Passed, Mail, Posted, Taken, Done, Covered, AckEnvelopes, disk,
     reads, ghosts
<1>6. Flows'
  BY DEF IInv, Flows, Mail, Posted, Done, Covered, AckEnvelopes, disk, socket,
     reads, ghosts
<1>7. Windows'
  BY DEF IInv, Windows, Mail, Posted, Covered, AckEnvelopes, disk, reads,
     ghosts
<1>8. AckedIsSettled'
  BY DEF IInv, AckedIsSettled, Typed, Phase, Posted, AckEnvelopes, world,
     disk, socket, batch, reads, ghosts, SlackAssumption
<1> QED BY <1>1, <1>2, <1>3, <1>4, <1>5, <1>6, <1>7, <1>8 DEF IInv

(* Only what is settled, or no mail, is acknowledged.                      *)
LEMMA AckBreaksKeeps ==
  ASSUME IInv, NEW some \in SUBSET envs, AckBreaks(some)
  PROVE  IInv'
<1>1. Typed'
  BY DEF IInv, Typed, Posted, Taken, AckBreaks, disk, socket, batch, reads
<1>2. Phase'
  BY DEF IInv, Phase, AckBreaks, disk, socket, batch, reads
<1>3. Durable'
  BY DEF IInv, Durable, Mail, Posted, CatchUpReaches, AckBreaks, disk
<1>4. ReadNow'
  BY SlackAssumption DEF IInv, ReadNow, Phase, Mail, AckBreaks, disk, reads
<1>5. Passed'
  BY DEF IInv, Passed, Mail, Posted, Taken, Done, Covered, AckBreaks, disk,
     batch, reads
<1>6. Flows'
  BY DEF IInv, Flows, Phase, Mail, Posted, Done, Covered, AckBreaks, disk,
     reads
<1>7. Windows'
  BY DEF IInv, Windows, Phase, Mail, Posted, Covered, AckBreaks, disk, reads
<1>8. AckedIsSettled'
  BY DEF IInv, AckedIsSettled, Typed, Phase, Posted, AckBreaks, disk
<1> QED BY <1>1, <1>2, <1>3, <1>4, <1>5, <1>6, <1>7, <1>8 DEF IInv

(* A marker passes only what is settled or excused.                        *)
LEMMA PersistKeeps ==
  ASSUME IInv, Persist
  PROVE  IInv'
<1> DEFINE marks == held \cup staged \cup dropped
           free == {n \in marks : ConvOf[n] \notin pending}
           raised == [t \in Message |-> Highest({n \in free : ThreadOf(n) = t}, thr[t])]
<1>a. /\ pc = "persist" /\ pc' = "fetch" /\ queue = {} /\ inflight \subseteq settled
      /\ mark' = [d \in Convs |-> Highest({n \in free : ConvOf[n] = d}, mark[d])]
      /\ thr' = Capped(raised)
      /\ held' = marks \ free
      /\ why' = [n \in Message |->
                   IF Root[n] # 0 /\ thr[Root[n]] # 0 /\ Capped(raised)[Root[n]] = 0
                     THEN "untracked" ELSE why[n]]
      /\ staged' = {} /\ dropped' = {} /\ inflight' = {}
      /\ UNCHANGED <<world, settled, socket, queue, envs, reads, lapsed>>
  BY DEF IInv, Phase, Persist
<1>b. marks \subseteq Taken /\ Taken \subseteq Posted /\ Posted \subseteq Message
      /\ free \subseteq Message /\ free \subseteq Posted
  BY Constants DEF IInv, Typed, Taken, Posted, Message
<1> HIDE DEF marks
<1>c. /\ \A d \in Convs : /\ mark'[d] \in 0..sent
                          /\ mark'[d] # mark[d] => \E n \in free : ConvOf[n] = d /\ n = mark'[d]
      /\ \A t \in Message : /\ raised[t] \in 0..sent
                            /\ raised[t] # thr[t] =>
                                 \E n \in free : ThreadOf(n) = t /\ n = raised[t]
  <2>1. ASSUME NEW d \in Convs
        PROVE  /\ mark'[d] \in 0..sent
               /\ mark'[d] # mark[d] => \E n \in free : ConvOf[n] = d /\ n = mark'[d]
    <3> DEFINE S == {n \in free : ConvOf[n] = d}
    <3>1. S \in SUBSET Message /\ mark[d] \in Nat /\ mark[d] \in 0..sent /\ S \subseteq 0..sent
      BY <1>b DEF IInv, Typed, Posted
    <3>2. mark'[d] = Highest(S, mark[d])
      BY <1>a
    <3>3. mark'[d] \in S \cup {mark[d]}
      <4> HIDE DEF S
      <4> QED BY <3>1, <3>2, HighestIs
    <3> QED BY <3>1, <3>3
  <2>2. ASSUME NEW t \in Message
        PROVE  /\ raised[t] \in 0..sent
               /\ raised[t] # thr[t] => \E n \in free : ThreadOf(n) = t /\ n = raised[t]
    <3> DEFINE S == {n \in free : ThreadOf(n) = t}
    <3>1. S \in SUBSET Message /\ thr[t] \in Nat /\ thr[t] \in 0..sent /\ S \subseteq 0..sent
      BY <1>b DEF IInv, Typed, Posted
    <3>2. raised[t] = Highest(S, thr[t])
      OBVIOUS
    <3>3. raised[t] \in S \cup {thr[t]}
      <4> HIDE DEF S, raised
      <4> QED BY <3>1, <3>2, HighestIs
    <3> QED BY <3>1, <3>3
  <2> HIDE DEF free, raised
  <2> QED BY <2>1, <2>2
<1> HIDE DEF raised
<1>d. /\ \A t \in Message : thr'[t] \in {0, raised[t]}
      /\ thr' \in [Message -> 0..sent]
  <2>1. thr' = [t \in Message |-> IF Cardinality({u \in Message : raised[u] > raised[t] \/
                   (raised[u] = raised[t] /\ u > t)}) < MaxThreads THEN raised[t] ELSE 0]
    BY <1>a DEF Capped
  <2>2. sent \in Nat
    BY DEF IInv, Typed
  <2> QED BY <1>c, <2>1, <2>2
<1>e. /\ Mail' = Mail /\ Posted' = Posted /\ Taken' \subseteq Taken
      /\ \A n \in Mail : n \in Message /\ (Done(n)' <=> Done(n)) /\ (Covered(n) => Covered(n)')
                         /\ (Covered(n) <=> n \in settled \/ why[n] # "")
                         /\ (why[n] # "" => why'[n] # "")
  BY <1>a, <1>b DEF world, reads, Mail, Posted, Taken, Covered, Done
<1>1. Typed'
  <2>1. mark' \in [Convs -> 0..sent]
    BY <1>a, <1>c
  <2>2. why' \in [Message -> Reasons]
    BY <1>a DEF IInv, Typed, Reasons
  <2> QED BY <1>a, <1>d, <1>e, <2>1, <2>2 DEF IInv, Typed, world, socket, reads
<1>2. Phase'
  BY <1>a DEF IInv, Phase, world, socket, reads
<1>3. Durable'
  <2> SUFFICES ASSUME NEW m \in Mail PROVE m \in settled' \/ CatchUpReaches(m)' \/ why'[m] # ""
    BY <1>e DEF Durable
  <2>0. m \in Message /\ m \in Nat /\ ConvOf[m] \in Convs /\ settled' = settled
    BY <1>a, <1>e, Constants
  <2>a. sent \in Nat /\ \A i \in 0..sent : i \in Nat
    BY DEF IInv, Typed
  <2>1. CASE Root[m] = 0
    <3>1. CASE m > mark'[ConvOf[m]]
      BY <2>1, <3>1 DEF CatchUpReaches
    <3>2. CASE m <= mark[ConvOf[m]]
      <4>1. ~CatchUpReaches(m)
        BY <2>0, <2>1, <3>2 DEF IInv, Typed, CatchUpReaches
      <4> QED BY <1>e, <2>0, <4>1 DEF IInv, Durable
    <3>3. CASE m > mark[ConvOf[m]] /\ m <= mark'[ConvOf[m]]
      <4>1. PICK n \in free : ConvOf[n] = ConvOf[m] /\ n = mark'[ConvOf[m]]
        BY <1>c, <2>0, <3>3
      <4>2. n \in Taken /\ n >= m /\ Moves(n, m) /\ Done(m)
        BY <1>b, <2>1, <3>3, <4>1 DEF Moves, Done
      <4>3. Covered(m)
        BY <4>2 DEF IInv, Passed
      <4> QED BY <1>e, <2>0, <4>3
    <3>4. mark[ConvOf[m]] \in Nat /\ mark'[ConvOf[m]] \in Nat
      BY <1>c, <2>0 DEF IInv, Typed
    <3> QED BY <2>0, <3>1, <3>2, <3>3, <3>4, Order
  <2>2. CASE Root[m] # 0
    <3> DEFINE t == Root[m]
    <3>0. t \in Message /\ ConvOf[t] = ConvOf[m]
      BY <2>0, <2>2, Constants
    <3>5. thr[t] \in Nat /\ thr'[t] \in Nat
      BY <1>d, <3>0 DEF IInv, Typed
    <3>1. CASE thr'[t] # 0 /\ m > thr'[t]
      BY <2>2, <3>1 DEF CatchUpReaches
    <3>2. CASE thr[t] # 0 /\ thr'[t] = 0
      BY <1>a, <2>0, <2>2, <3>2
    <3>3. CASE thr[t] = 0 \/ m <= thr[t]
      <4>1. ~CatchUpReaches(m)
        BY <2>0, <2>2, <3>3, <3>5 DEF CatchUpReaches
      <4> QED BY <1>e, <2>0, <4>1 DEF IInv, Durable
    <3>4. CASE thr[t] # 0 /\ m > thr[t] /\ thr'[t] # 0 /\ m <= thr'[t]
      <4>1. PICK n \in free : ThreadOf(n) = t /\ n = raised[t]
        <5>1. thr'[t] = raised[t] /\ raised[t] # thr[t]
          BY <1>d, <2>0, <3>0, <3>4, <3>5, Order
        <5> QED BY <1>c, <3>0, <5>1
      <4>2. n >= m /\ n \in Taken /\ n \in Message
        BY <1>b, <1>d, <3>0, <3>4, <4>1
      <4>3. Root[n] = t
        BY <2>0, <2>2, <4>1, <4>2, MarksOfThread
      <4>4. ConvOf[n] = ConvOf[t]
        BY <2>2, <4>2, <4>3, Constants
      <4>5. Moves(n, m) /\ Done(m)
        BY <2>2, <4>3, <4>4 DEF Moves, Done
      <4>6. Covered(m)
        BY <4>2, <4>5 DEF IInv, Passed
      <4> QED BY <1>e, <2>0, <4>6
    <3> QED BY <2>0, <3>1, <3>2, <3>3, <3>4, <3>5, Order
  <2> QED BY <2>1, <2>2
<1>4. ReadNow'
  BY <1>a, <1>e DEF IInv, ReadNow, reads
<1>5. Passed'
  BY <1>e DEF IInv, Passed
<1>6. Flows'
  BY <1>a, <1>e DEF IInv, Flows, world, socket
<1>7. Windows'
  BY <1>a, <1>e DEF IInv, Windows, reads
<1>8. AckedIsSettled'
  BY DEF IInv, AckedIsSettled, Posted, Persist, world
<1> QED BY <1>1, <1>2, <1>3, <1>4, <1>5, <1>6, <1>7, <1>8 DEF IInv

(* A step that changes nothing keeps everything.                           *)
LEMMA StutterKeeps ==
  ASSUME IInv, UNCHANGED vars
  PROVE  IInv'
<1>1. Typed'
  BY DEF IInv, Typed, Posted, Taken, vars, world, disk, socket, batch, reads,
     ghosts
<1>2. Phase'
  BY DEF IInv, Phase, vars, world, disk, socket, batch, reads
<1>3. Durable'
  BY DEF IInv, Durable, Mail, Posted, CatchUpReaches, vars, world, disk,
     ghosts
<1>4. ReadNow'
  BY DEF IInv, ReadNow, Mail, Posted, Covered, vars, world, disk, batch,
     reads, ghosts
<1>5. Passed'
  BY DEF IInv, Passed, Mail, Posted, Taken, Done, Covered, vars, world, disk,
     batch, reads, ghosts
<1>6. Flows'
  BY DEF IInv, Flows, Mail, Posted, Done, Covered, vars, world, disk, socket,
     batch, reads, ghosts
<1>7. Windows'
  BY DEF IInv, Windows, Mail, Posted, Covered, vars, world, disk, batch,
     reads, ghosts
<1>8. AckedIsSettled'
  BY DEF IInv, AckedIsSettled, Posted, vars, world, disk, ghosts
<1> QED BY <1>1, <1>2, <1>3, <1>4, <1>5, <1>6, <1>7, <1>8 DEF IInv

(* At first nothing is posted.                                             *)
LEMMA InitKeeps == Init => IInv
<1> SUFFICES ASSUME Init PROVE IInv
  OBVIOUS
<1>1. Posted = {} /\ Taken = {} /\ Mail = {}
  <2>1. 1..0 = {}
    OBVIOUS
  <2> QED BY <2>1 DEF Init, Posted, Taken, Mail
<1>2. Typed
  <2>1. 0 \in 0..0 /\ 0 \in 0..NumMsgs
    BY Constants
  <2> QED BY <1>1, <2>1 DEF Init, Typed, Reasons
<1>3. Phase
  BY DEF Init, Phase
<1> QED BY <1>1, <1>2, <1>3
        DEF IInv, Durable, ReadNow, Passed, Flows, Windows, AckedIsSettled, Mail

(* Every step keeps the invariant.                                         *)
LEMMA NextKeeps == IInv /\ [Next]_vars => IInv'
<1> SUFFICES ASSUME IInv, [Next]_vars PROVE IInv'
  OBVIOUS
<1>1. CASE Bridge
  <2>1. CASE Read
    BY <2>1, ReadHistoryKeeps, ReadRepliesKeeps, ConversationReadKeeps, ReadsDoneKeeps DEF Read
  <2> QED BY <1>1, <2>1, StartKeeps, FetchBeginKeeps, ConnectKeeps, PollEndsKeeps, HandleKeeps,
             AckEnvelopesKeeps, PersistKeeps
          DEF Bridge
<1>2. CASE Broken
  BY <1>2, DieKeeps, ConnectFailsKeeps, SocketEndsKeeps, AckBreaksKeeps, ExpireKeeps DEF Broken
<1> QED BY <1>1, <1>2, PostKeeps, ReceiveKeeps, StutterKeeps DEF Next

(* The invariant holds whatever fails, whenever.                           *)
THEOREM SlackInvariant == Spec => []IInv
BY InitKeeps, NextKeeps, PTL DEF Spec

(* No mention is lost, but for those the code can miss.                    *)
THEOREM SlackNothingLost == Spec => []NothingLost
<1>1. IInv => NothingLost
  BY DEF IInv, Durable, Mail, NothingLost, Kept
<1> QED BY <1>1, SlackInvariant, PTL

(* Slack is told of a mention only when it is settled.                     *)
THEOREM SlackAckedIsSettled == Spec => []AckedIsSettled
<1>1. IInv => AckedIsSettled
  BY DEF IInv
<1> QED BY <1>1, SlackInvariant, PTL

(* What else the types need.                                               *)
Others ==
  /\ wire \subseteq owed /\ envs \subseteq Posted /\ envs \cap wire = {}
  /\ settled \subseteq Mentions /\ headed \subseteq Message /\ lapsed \subseteq Message
  /\ pc \in Steps /\ team \in BOOLEAN /\ deferred \in BOOLEAN /\ faults \in 0..MaxFaults
  /\ Cardinality({t \in Message : thr[t] # 0}) <= MaxThreads

(* The cap keeps no more threads than it allows: the oldest kept has all   *)
(* the others above it.                                                    *)
LEMMA CapHolds ==
  ASSUME NEW f \in [Message -> Nat]
  PROVE  Cardinality({t \in Message : Capped(f)[t] # 0}) <= MaxThreads
<1> DEFINE newer(t) == {u \in Message : f[u] > f[t] \/ (f[u] = f[t] /\ u > t)}
           kept == {t \in Message : Cardinality(newer(t)) < MaxThreads}
           older(t) == Message \ newer(t)
           T == {older(t) : t \in kept}
           R == StrictSubsetOrdering(Message)
<1>1. IsFiniteSet(Message) /\ \A S \in SUBSET Message : IsFiniteSet(S) /\ Cardinality(S) \in Nat
  <2>1. IsFiniteSet(Message)
    BY FS_Interval, SlackAssumption DEF SlackAssumption, Message
  <2>2. ASSUME NEW S \in SUBSET Message PROVE IsFiniteSet(S) /\ Cardinality(S) \in Nat
    BY <2>1, FS_Subset, FS_CardinalityType
  <2> QED BY <2>1, <2>2
<1>2. {t \in Message : Capped(f)[t] # 0} \subseteq kept /\ kept \subseteq Message
  BY DEF Capped
<1>3. Cardinality(kept) <= MaxThreads
  <2>1. CASE kept = {}
    <3>1. Cardinality({}) = 0 /\ MaxThreads \in Nat
      BY FS_EmptySet, SlackAssumption DEF SlackAssumption
    <3> HIDE DEF kept
    <3> QED BY <2>1, <3>1
  <2>2. CASE kept # {}
    <3>1. T \subseteq FiniteSubsetsOf(Message) /\ T # {}
      <4>1. ASSUME NEW t \in kept PROVE older(t) \in FiniteSubsetsOf(Message)
        <5> HIDE DEF newer, kept
        <5> QED BY <1>1 DEF FiniteSubsetsOf
      <4> HIDE DEF older, kept
      <4> QED BY <2>2, <4>1
    <3>2. PICK s \in T : \A u \in T : ~(<<u, s>> \in R)
      <4>1. IsWellFoundedOn(R, FiniteSubsetsOf(Message))
        BY FS_StrictSubsetOrderingWellFounded
      <4> HIDE DEF T, R
      <4> QED BY <3>1, <4>1, WFMin
    <3>3. PICK x \in kept : s = older(x)
      BY <3>2
    <3>4. ASSUME NEW u \in kept, u # x PROVE u \in newer(x)
      <4>1. SUFFICES ASSUME u \notin newer(x) PROVE FALSE
        OBVIOUS
      <4>2. x \in Message /\ u \in Message /\ x \in Nat /\ u \in Nat /\ f[x] \in Nat /\ f[u] \in Nat
        BY <1>2 DEF Message
      <4>3. f[x] > f[u] \/ (f[x] = f[u] /\ x > u)
        BY <3>4, <4>1, <4>2
      <4>4. newer(x) \subseteq newer(u) /\ x \in newer(u) /\ x \notin newer(x)
        BY <4>2, <4>3 DEF Message
      <4>5. older(u) \subseteq older(x) /\ older(u) # older(x) /\ older(u) \in T
        BY <3>4, <4>2, <4>4
      <4> HIDE DEF newer, older, T
      <4>6. older(x) \subseteq Message /\ older(u) \subseteq Message
        BY DEF older
      <4> QED BY <3>2, <3>3, <4>5, <4>6 DEF StrictSubsetOrdering
    <3>5. kept \subseteq newer(x) \cup {x} /\ newer(x) \subseteq Message /\ x \in Message
      BY <1>2, <3>4
    <3>6. Cardinality(newer(x)) < MaxThreads /\ Cardinality(newer(x)) \in Nat
      BY <1>1, <3>5
    <3> HIDE DEF newer, kept
    <3>7. /\ Cardinality(newer(x) \cup {x}) <= Cardinality(newer(x)) + 1
          /\ Cardinality(kept) <= Cardinality(newer(x) \cup {x})
          /\ Cardinality(newer(x) \cup {x}) \in Nat /\ Cardinality(kept) \in Nat
      <4>1. IsFiniteSet(newer(x)) /\ newer(x) \cup {x} \subseteq Message /\ kept \subseteq Message
        BY <1>1, <1>2, <3>5
      <4> QED BY <1>1, <3>5, <3>6, <4>1, FS_AddElement, FS_Subset
    <3> QED BY <3>6, <3>7, SlackAssumption DEF SlackAssumption
  <2> QED BY <2>1, <2>2
<1> HIDE DEF kept
<1>4. /\ Cardinality({t \in Message : Capped(f)[t] # 0}) <= Cardinality(kept)
      /\ Cardinality({t \in Message : Capped(f)[t] # 0}) \in Nat /\ Cardinality(kept) \in Nat
  BY <1>1, <1>2, FS_Subset
<1> QED BY <1>3, <1>4, SlackAssumption DEF SlackAssumption

(* The rest of the variables keep their types step by step.                *)
LEMMA OthersKeep == IInv /\ Others /\ [Next]_vars => Others'
<1> SUFFICES ASSUME IInv, Others, [Next]_vars PROVE Others'
  OBVIOUS
<1> USE DEF Others, Steps
<1>f. Fault => faults' \in 0..MaxFaults
  BY SlackAssumption DEF Fault, SlackAssumption
<1>m. /\ Posted \subseteq Message /\ Mentions \subseteq Message
      /\ queue \cup inflight \subseteq Mentions
  BY Constants DEF IInv, Typed, Posted, Message
<1>1. CASE Post
  <2>1. sent \in Nat /\ sent' = sent + 1
    BY <1>1, Constants DEF Post, IInv, Typed
  <2>2. Posted \subseteq Posted' /\ sent' \notin Posted
    BY <2>1 DEF Posted
  <2>3. owed' = (IF Live(sent') THEN owed \cup {sent'} ELSE owed)
        /\ wire' = (IF ws /\ Live(sent') THEN wire \cup {sent'} ELSE wire)
    BY <1>1 DEF Post
  <2>4. wire' \subseteq owed' /\ envs' \cap wire' = {}
    BY <1>1, <2>2, <2>3 DEF Post, batch
  <2> QED BY <1>1, <2>2, <2>4 DEF Post, disk, socket, batch, reads
<1>2. CASE \E m \in Message : Expire(m)
  BY <1>2, <1>f DEF Expire, disk, socket, batch, reads, Posted
<1>3. CASE Start
  BY <1>3 DEF Start, world, disk, socket, batch, reads, ghosts, Posted
<1>4. CASE Die
  BY <1>4, <1>f DEF Die, Forget, disk, Posted
<1>5. CASE FetchBegin
  BY <1>5 DEF FetchBegin, world, disk, socket, ghosts, Posted
<1>6. CASE \E c \in Convs : ReadHistory(c)
  <2>1. PICK c \in Convs : ReadHistory(c)
    BY <1>6
  <2>2. /\ UNCHANGED <<wire, owed, sent, envs, settled, lapsed, team, thr>>
        /\ faults' = faults \/ Fault
        /\ pc' \in {pc, "live"} /\ deferred' \in {deferred, TRUE}
    BY <2>1 DEF ReadHistory, Defer, world, disk, socket
  <2>3. headed' \subseteq Message
    <3>1. \A low, top : HistoryTo(c, low, top) \subseteq Message
      BY <1>m DEF HistoryTo
    <3> QED BY <2>1, <3>1 DEF ReadHistory, TakeHistory
  <2> QED BY <1>f, <2>2, <2>3 DEF Posted
<1>7. CASE \E t \in Message : ReadReplies(t)
  <2>1. PICK t \in Message : ReadReplies(t)
    BY <1>7
  <2>2. /\ UNCHANGED <<wire, owed, sent, envs, settled, lapsed, team, thr, headed>>
        /\ faults' = faults \/ Fault
        /\ pc' \in {pc, "live"} /\ deferred' \in {deferred, TRUE}
    BY <2>1 DEF ReadReplies, Defer, world, disk, socket
  <2> QED BY <1>f, <2>2 DEF Posted
<1>8. CASE ConversationRead
  BY <1>8 DEF ConversationRead, world, disk, socket, batch, ghosts, Posted
<1>9. CASE ReadsDone
  BY <1>9 DEF ReadsDone, world, disk, socket, batch, reads, ghosts, Posted
<1>10. CASE Connect
  BY <1>10 DEF Connect, disk, batch, ghosts, Posted
<1>11. CASE ConnectFails
  BY <1>11, <1>f DEF ConnectFails, Defer, world, disk, batch, Posted
<1>12. CASE \E m \in Message : Receive(m)
  BY <1>12 DEF Receive, disk, socket, reads, ghosts, IInv, Typed, Posted
<1>13. CASE PollEnds
  BY <1>13 DEF PollEnds, Return, world, disk, socket, reads, ghosts, Posted
<1>14. CASE SocketEnds
  BY <1>14, <1>f DEF SocketEnds, CloseSocket, Return, disk, reads, Posted
<1>15. CASE \E some \in SUBSET inflight : Handle(some)
  BY <1>15, <1>f, <1>m DEF Handle, world, socket, reads, Posted
<1>16. CASE AckEnvelopes
  BY <1>16 DEF AckEnvelopes, disk, socket, reads, ghosts, Posted
<1>17. CASE \E some \in SUBSET envs : AckBreaks(some)
  BY <1>17, <1>f DEF AckBreaks, disk, socket, batch, reads, Posted
<1>18. CASE Persist
  <2>1. PICK free \in SUBSET Message :
          thr' = Capped([t \in Message |-> Highest({m \in free : ThreadOf(m) = t}, thr[t])])
    <3> DEFINE free == {m \in held \cup staged \cup dropped : ConvOf[m] \notin pending}
    <3>1. free \subseteq Message
      BY <1>m DEF IInv, Typed, Taken
    <3>2. thr' = Capped([t \in Message |-> Highest({m \in free : ThreadOf(m) = t}, thr[t])])
      BY <1>18 DEF Persist
    <3> HIDE DEF free
    <3> QED BY <3>1, <3>2
  <2> DEFINE f == [t \in Message |-> Highest({m \in free : ThreadOf(m) = t}, thr[t])]
  <2>2. f \in [Message -> Nat]
    <3>1. ASSUME NEW t \in Message PROVE f[t] \in Nat
      <4> DEFINE S == {m \in free : ThreadOf(m) = t}
      <4>1. thr[t] \in Nat /\ S \subseteq Message /\ Message \subseteq Nat
        <5>1. sent \in Nat /\ thr \in [Message -> 0..sent]
          BY Constants DEF IInv, Typed
        <5>2. thr[t] \in Nat
          BY <5>1
        <5>3. S \subseteq Message
          OBVIOUS
        <5>4. Message \subseteq Nat
          BY DEF Message
        <5> HIDE DEF S
        <5> QED BY <5>2, <5>3, <5>4
      <4>2. S # {} => Max(S) \in Nat
        <5> HIDE DEF S
        <5> QED BY <4>1, LastMessage
      <4> HIDE DEF S
      <4>3. Highest(S, thr[t]) \in Nat
        BY <4>1, <4>2 DEF Highest, Larger
      <4> QED BY <4>3 DEF S
    <3> HIDE DEF f
    <3>2. f = [t \in Message |-> f[t]]
      BY DEF f
    <3> QED BY <3>1, <3>2
  <2>3. thr' = Capped(f)
    BY <2>1
  <2> HIDE DEF f
  <2>4. Cardinality({t \in Message : thr'[t] # 0}) <= MaxThreads
    BY <2>2, <2>3, CapHolds
  <2> QED BY <1>18, <2>4 DEF Persist, world, socket, reads, Posted
<1>19. CASE UNCHANGED vars
  BY <1>19 DEF vars, world, disk, socket, batch, reads, ghosts, Posted
<1> QED
  BY <1>1, <1>2, <1>3, <1>4, <1>5, <1>6, <1>7, <1>8, <1>9, <1>10, <1>11, <1>12, <1>13, <1>14,
     <1>15, <1>16, <1>17, <1>18, <1>19
  DEF Next, Bridge, Broken, Read

(* Every variable keeps its type; no more threads are tracked than may be. *)
THEOREM SlackTypes == Spec => []TypeOK
<1>1. Init => Others
  <2> SUFFICES ASSUME Init PROVE Others
    OBVIOUS
  <2>1. {t \in Message : thr[t] # 0} = {}
    BY DEF Init
  <2>2. Cardinality({t \in Message : thr[t] # 0}) <= MaxThreads
    BY <2>1, FS_EmptySet, SlackAssumption DEF SlackAssumption
  <2>3. faults \in 0..MaxFaults
    <3>1. faults = 0
      BY DEF Init
    <3> QED BY <3>1, SlackAssumption DEF SlackAssumption
  <2> QED BY <2>2, <2>3 DEF Init, Others, Steps
<1>2. Spec => []Others
  BY <1>1, OthersKeep, SlackInvariant, PTL DEF Spec
<1>3. IInv /\ Others => TypeOK
  <2> SUFFICES ASSUME IInv, Others PROVE TypeOK
    OBVIOUS
  <2>1. Posted \subseteq Message /\ 0..sent \subseteq 0..NumMsgs
    BY Constants DEF IInv, Typed, Posted, Message
  <2>2. /\ mark \in [Convs -> 0..NumMsgs] /\ thr \in [Message -> 0..NumMsgs]
        /\ cont \in [Convs -> 0..NumMsgs] /\ contT \in [Message -> 0..NumMsgs]
    BY <2>1 DEF IInv, Typed
  <2> QED BY <2>1, <2>2 DEF IInv, Typed, Taken, Others, TypeOK
<1> QED BY <1>2, <1>3, SlackInvariant, PTL
=============================================================================
