---------------------------- MODULE DiscordProofs ----------------------------
(***************************************************************************)
(* Proofs about Discord, for any number of messages, channels, threads and *)
(* faults, and any cap on the threads.                                     *)
(*                                                                         *)
(* A death empties the queue and nobody sends again.  So a marker may pass *)
(* a message only when the message is settled, and the sequence number of  *)
(* the session, in a thread that no marker leads to, only when the message *)
(* is in hand; the invariant says why it is, at every step between the     *)
(* read or the event that finds the message and the confirm that moves the *)
(* marker.                                                                 *)
(***************************************************************************)
EXTENDS Discord, FiniteSetTheorems, TLAPS

(* What the bridge has read and not yet confirmed, or holds back.          *)
Marks == queue \cup dropped \cup held \cup staged \cup inflight
Mail == Posted \cap Mentions

(* Settled, or excused.                                                    *)
Done(m) == m \in settled \/ why[m] # ""

(* That, or in hand.                                                       *)
Covered(m) == Done(m) \/ m \in queue \cup inflight

(* Threads that no marker and no floor leads to.                           *)
Loose(f) == {t \in Threads \ f.tracked : f.floor[t] = NoFloor}

(* What a replay has brought before the catch-up is not in order yet.      *)
Replaying == pc \in {"down", "connect", "resume"} \/ (pc = "fetch" /\ ~ws)

Sound(f) ==
  /\ f \in Markers
  /\ \A p \in Places : f.at[p] <= sent
  /\ \A t \in Threads : (f.floor[t] # NoFloor => f.floor[t] <= sent)
                        /\ (t \notin f.tracked => f.at[t] = 0)

Typed ==
  /\ sent \in 0..NumMsgs
  /\ Marks \subseteq Posted /\ queue \cup inflight \subseteq Mentions
  /\ dropped \cap Mentions = {}
  /\ Sound(file) /\ Sound(markers)
  /\ sess \in NoSession..sent /\ seq \in 0..sent /\ ws \in BOOLEAN
  /\ after \in [Places -> 0..sent] /\ pending \subseteq Places
  /\ why \in [Message -> Reasons]

(* Where a batch, the reads and the socket may be.                         *)
Phase ==
  /\ pc \in {"down", "connect"} => ~ws
  /\ pc = "down" => markers = file /\ seq = 0
  /\ pc \in {"connect", "resume", "read", "live", "resumeLive"} => inflight = {}
  /\ pc \in {"handle", "confirm"} => queue = {}
  /\ pc = "confirm" => inflight \subseteq settled
  /\ pc # "read" => todo = {}
  /\ todo \cap Loose(markers) = {} /\ todo \subseteq Places
  /\ (pc = "resume" => sess # NoSession) /\ (pc = "resumeLive" => ws)
  /\ ws => sess <= seq
  /\ \A m \in queue \cup inflight : Place[m] \in Threads => Place[m] \in cache

(* What the process adds to its markers without saving them changes        *)
(* nothing that is reached by them.                                        *)
Linked ==
  /\ Loose(markers) = Loose(file)
  /\ \A m \in Message : Reaches(markers, m) <=> Reaches(file, m)

(* What a death leaves of a mention; only in a loose thread it needs the   *)
(* queue, or a session to replay it.                                       *)
Durable ==
  \A m \in Mail :
    \/ Done(m) \/ Reaches(file, m)
    \/ /\ Place[m] \in Loose(file)
       /\ m \in queue \cup inflight \/ (sess # NoSession /\ m > sess)

(* What a session has delivered.                                           *)
Heard ==
  \A m \in Mail :
    sess # NoSession /\ sess < m /\ m <= seq /\ Place[m] \in Loose(markers) => Covered(m)

(* Nothing is taken ahead of a mention it would hide, save where the marks *)
(* are held back.                                                          *)
Ahead ==
  \A m \in Mail, n \in Marks :
    n >= m /\ Place[n] = Place[m] =>
      /\ Place[m] \in Loose(markers) => Covered(m)
      /\ Place[m] \notin pending /\ (Replaying => n \in held \cup staged \cup inflight)
           => Covered(m)

(* Once caught up, an open gateway has the rest.                           *)
Flows ==
  \A m \in Mail :
    ws /\ pc # "resume" /\ Place[m] \notin pending /\ m <= seq => Covered(m)

(* What an unfinished read has been through.                               *)
Windows == \A m \in Mail : m <= after[Place[m]] => Covered(m)

IInv == Typed /\ Phase /\ Linked /\ Durable /\ Heard /\ Ahead /\ Flows /\ Windows

(* What a read of p does, whether it ends or not.                          *)
Read(p) ==
  /\ Posted' = Posted /\ Mail' = Mail
  /\ Sound(markers)' /\ Loose(markers') = Loose(markers)
  /\ \A m \in Message : Reaches(markers', m) <=> Reaches(markers, m)
  /\ (Marks \subseteq Posted /\ queue \cup inflight \subseteq Mentions
      /\ dropped \cap Mentions = {})'
  /\ Marks \subseteq Marks' /\ \A n \in Marks' : n \in Marks \/ Place[n] = p
  /\ queue \subseteq queue' /\ cache \subseteq cache'
  /\ \A n \in queue' : n \in queue \/ (Place[n] = p /\ (p \in Threads => p \in cache'))
  /\ \A m \in Mail : Covered(m) => Covered(m)'
  /\ after' \in [Places -> 0..sent]
  /\ \A m \in Mail : m <= after'[Place[m]] => Covered(m)'
  /\ p \notin pending' => \A m \in Mail : Place[m] = p => Covered(m)'
  /\ \A q \in Places : q # p => (q \in pending' <=> q \in pending)

(* Where messages are.                                                     *)
LEMMA Constants ==
  /\ \A m \in Message : Place[m] \in Places /\ m \in Nat /\ 0 < m /\ m <= NumMsgs
  /\ Mentions \subseteq Message /\ NumMsgs \in Nat /\ NoFloor = NumMsgs /\ NoSession = -1
  /\ Places = Channels \cup Threads /\ Channels \cap Threads = {}
BY DiscordAssumption DEF DiscordAssumption, Message, NoFloor, NoSession, Places

(* A set of messages has a last one.                                       *)
LEMMA LastMessage ==
  ASSUME NEW S \in SUBSET Message, S # {}
  PROVE  \E s \in S : \A n \in S : s >= n
<1> DEFINE T == {n..NumMsgs : n \in S}
           R == StrictSubsetOrdering(Message)
<1>1. T \subseteq FiniteSubsetsOf(Message) /\ T # {}
  <2>1. ASSUME NEW n \in S PROVE n..NumMsgs \subseteq Message /\ IsFiniteSet(n..NumMsgs)
    BY FS_Interval, DiscordAssumption DEF DiscordAssumption, Message
  <2> QED BY <2>1 DEF FiniteSubsetsOf
<1>2. PICK t \in T : \A u \in T : ~(<<u, t>> \in R)
  <2>1. IsWellFoundedOn(R, FiniteSubsetsOf(Message))
    BY FS_StrictSubsetOrderingWellFounded
  <2> HIDE DEF T, R
  <2> QED BY <1>1, <2>1, WFMin
<1>3. PICK s \in S : t = s..NumMsgs
  BY <1>2
<1>4. ASSUME NEW n \in S PROVE s >= n
  <2>1. SUFFICES ASSUME s < n PROVE FALSE
    BY DiscordAssumption DEF DiscordAssumption, Message
  <2>2. n..NumMsgs \subseteq t /\ n..NumMsgs # t /\ t \subseteq Message
    BY <1>3, <2>1, DiscordAssumption DEF DiscordAssumption, Message
  <2> QED BY <1>2, <2>2 DEF StrictSubsetOrdering
<1> QED BY <1>4

(* The highest of a set of messages and a floor.                           *)
LEMMA HighestIs ==
  ASSUME NEW S \in SUBSET Message, NEW low \in Nat
  PROVE  /\ Highest(S, low) \in S \cup {low}
         /\ Highest(S, low) \in Nat /\ Highest(S, low) >= low
<1> DEFINE U == S \cup {low}
<1>1. \E s \in U : \A n \in U : s >= n
  <2>1. CASE S = {}
    BY <2>1
  <2>2. CASE S # {}
    <3>1. PICK s \in S : \A n \in S : s >= n
      BY <2>2, LastMessage
    <3>2. CASE s >= low
      BY <3>1, <3>2
    <3>3. CASE ~(s >= low)
      BY <3>1, <3>3 DEF Message
    <3> QED BY <3>2, <3>3
  <2> QED BY <2>1, <2>2
<1>2. Max(U) \in U /\ \A n \in U : Max(U) >= n
  <2> HIDE DEF U
  <2> QED BY <1>1 DEF Max
<1>3. Highest(S, low) = Max(U)
  BY DEF Highest
<1> HIDE DEF U
<1>4. U \subseteq Nat /\ low \in U /\ U = S \cup {low}
  BY DEF U, Message
<1> QED BY <1>2, <1>3, <1>4

(* Of two numbers.                                                         *)
LEMMA Order ==
  \A x, y \in Int : (x > y <=> ~(x <= y)) /\ (x > y <=> y < x) /\ (x >= y <=> ~(x < y))
OBVIOUS

(* A place is a channel, tracked, floored, or a loose thread; and what is  *)
(* not loose is read by the next catch-up.                                 *)
LEMMA PlaceKinds ==
  ASSUME NEW p \in Places
  PROVE  /\ p \in Watched \cup Floored(markers) \/ p \in Loose(markers)
         /\ p \in Loose(markers) => p \notin Watched \cup Floored(markers)
                                    /\ p \in Threads \ markers.tracked
BY Constants DEF Watched, Floored, Loose

(* No marker and no floor reaches into a loose thread.                     *)
LEMMA LooseUnreached ==
  ASSUME NEW f, NEW m \in Message, Place[m] \in Loose(f)
  PROVE  ~Reaches(f, m)
BY Constants DEF Loose, Reaches

(* What is unsettled in a loose thread has nothing on disk.                *)
LEMMA LooseUnanchored ==
  ASSUME NEW f, NEW m \in Mail \ settled, Place[m] \in Loose(f)
  PROVE  m \in Unanchored(f)
BY Constants DEF Mail, Posted, Loose, Unanchored

(* Of a loose thread, what a session has delivered is covered.             *)
LEMMA LooseHeard ==
  ASSUME IInv, NEW m \in Mail, Place[m] \in Loose(markers), m <= seq
  PROVE  Covered(m)
<1>1. m \in Message /\ ~Reaches(file, m) /\ m \in Nat
  BY Constants, LooseUnreached DEF IInv, Linked, Mail
<1>2. CASE m \in settled \/ why[m] # "" \/ m \in queue \cup inflight
  BY <1>2 DEF Covered, Done
<1>3. CASE sess # NoSession /\ m > sess
  BY <1>3, <1>1, Constants DEF IInv, Heard, Typed
<1> QED BY <1>1, <1>2, <1>3 DEF IInv, Durable, Done

(* What a catch-up reads is a place, and none that is loose.               *)
LEMMA WatchedPlaces ==
  ASSUME IInv
  PROVE  /\ Watched \cup Floored(markers) \subseteq Places
         /\ (Watched \cup Floored(markers)) \cap Loose(markers) = {}
BY Constants DEF IInv, Typed, Sound, Markers, Watched, Floored, Loose

(* The numbers are numbers.                                                *)
LEMMA Numbers ==
  ASSUME IInv
  PROVE  /\ sent \in Nat /\ seq \in Nat /\ seq <= sent /\ sent <= NumMsgs
         /\ sess \in Int /\ (sess # NoSession => sess \in Nat /\ sess <= sent)
         /\ 0 \in 0..sent /\ sent \in 0..sent /\ sent \in NoSession..sent
<1>1. sent \in Nat /\ sent <= NumMsgs
  BY Constants DEF IInv, Typed
<1>2. seq \in 0..sent /\ sess \in (-1)..sent
  BY Constants DEF IInv, Typed
<1> QED BY <1>1, <1>2, Constants

(* What looking up a place that is read makes of the markers.              *)
LEMMA LookedIs ==
  ASSUME IInv, NEW p \in Places, p \notin Loose(markers)
  PROVE  /\ Looked(p) \in Markers /\ Loose(Looked(p)) = Loose(markers)
         /\ \A q \in Places : Looked(p).at[q] <= sent
         /\ \A t \in Threads : /\ Looked(p).floor[t] # NoFloor => Looked(p).floor[t] <= sent
                               /\ t \notin Looked(p).tracked => Looked(p).at[t] = 0
         /\ \A m \in Message : Reaches(Looked(p), m) <=> Reaches(markers, m)
         /\ p \in Channels \cup Looked(p).tracked
         /\ Low(p) \in Nat /\ Low(p) <= sent
<1>1. /\ markers \in Markers /\ \A q \in Places : markers.at[q] <= sent
      /\ \A t \in Threads : (markers.floor[t] # NoFloor => markers.floor[t] <= sent)
                            /\ (t \notin markers.tracked => markers.at[t] = 0)
      /\ after[p] \in Nat /\ after[p] <= sent
  BY Numbers DEF IInv, Typed, Sound
<1>2. CASE p \notin Floored(markers)
  <2>1. Looked(p) = markers
    BY <1>2 DEF Looked
  <2>2. p \in Channels \cup markers.tracked
    BY <1>2, Constants DEF Loose, Floored
  <2> QED BY <1>1, <2>1, <2>2, Constants DEF Low, Markers
<1>3. CASE p \in Floored(markers)
  <2>1. p \in Threads /\ markers.floor[p] # NoFloor /\ p \notin Channels
    BY <1>3, Constants DEF Floored
  <2> DEFINE f == Adopted(p)
  <2>2. /\ f \in Markers /\ f.tracked = markers.tracked \cup {p}
        /\ f.at = [markers.at EXCEPT ![p] = IF p \in markers.tracked THEN @ ELSE markers.floor[p]]
        /\ f.floor = [markers.floor EXCEPT ![p] = NoFloor]
    <3> DEFINE a == [markers.at EXCEPT ![p] = IF p \in markers.tracked THEN @ ELSE markers.floor[p]]
               g == [markers.floor EXCEPT ![p] = NoFloor]
    <3>1. a \in [Places -> 0..NumMsgs] /\ g \in [Threads -> 0..NumMsgs]
      BY <1>1, <2>1, Constants DEF Markers
    <3>4. f.tracked = markers.tracked \cup {p} /\ f.at = a /\ f.floor = g
      BY <1>1 DEF Adopted, Markers
    <3>2. f = [[[markers EXCEPT !.tracked = markers.tracked \cup {p}] EXCEPT !.at = a]
                 EXCEPT !.floor = g]
      BY <1>1 DEF Adopted, Markers
    <3> HIDE DEF a, g, f
    <3>3. f \in Markers
      <4>1. \A k \in Markers : /\ [k EXCEPT !.tracked = markers.tracked \cup {p}] \in Markers
                               /\ [k EXCEPT !.at = a] \in Markers
                               /\ [k EXCEPT !.floor = g] \in Markers
        <5>1. markers.tracked \cup {p} \subseteq Threads
          BY <1>1, <2>1 DEF Markers
        <5> QED BY <3>1, <5>1 DEF Markers
      <4> QED BY <1>1, <3>2, <4>1
    <3> QED BY <3>3, <3>4 DEF a, g
  <2>3. Looked(p) = f
    BY <1>3 DEF Looked
  <2> HIDE DEF f
  <2>4. /\ f.at[p] = (IF p \in markers.tracked THEN markers.at[p] ELSE markers.floor[p])
        /\ \A q \in Places : q # p => f.at[q] = markers.at[q]
        /\ f.floor[p] = NoFloor
        /\ \A t \in Threads : t # p => f.floor[t] = markers.floor[t]
    BY <1>1, <2>1, <2>2, Constants DEF Markers
  <2>5. /\ \A q \in Places : f.at[q] <= sent /\ f.at[q] \in Nat
        /\ \A t \in Threads : (f.floor[t] # NoFloor => f.floor[t] <= sent)
                              /\ (t \notin f.tracked => f.at[t] = 0)
    BY <1>1, <2>1, <2>2, <2>4, Constants DEF Markers
  <2>6. Loose(f) = Loose(markers)
    BY <2>1, <2>2, <2>4 DEF Loose
  <2>7. ASSUME NEW m \in Message PROVE Reaches(f, m) <=> Reaches(markers, m)
    BY <2>1, <2>2, <2>4, Constants DEF Reaches
  <2>8. Low(p) \in Nat /\ Low(p) <= sent
    BY <1>1, <2>3, <2>5 DEF Low
  <2> QED BY <2>2, <2>3, <2>5, <2>6, <2>7, <2>8
<1> QED BY <1>2, <1>3

(* Below where a read begins, everything is covered.                       *)
LEMMA LowCovered ==
  ASSUME IInv, NEW p \in Places, p \notin Loose(markers),
         NEW m \in Mail, Place[m] = p, m <= Low(p)
  PROVE  Covered(m)
<1>1. m \in Message /\ m \in Nat
  BY Constants DEF Mail
<1>2. CASE after[p] # 0
  BY <1>2 DEF Low, IInv, Windows
<1>3. CASE after[p] = 0
  <2>1. ~Reaches(Looked(p), m)
    <3>1. Low(p) = Looked(p).at[p] /\ Low(p) \in Nat /\ p \in Channels \cup Looked(p).tracked
      BY <1>3, LookedIs DEF Low
    <3> QED BY <1>1, <3>1 DEF Reaches
  <2>2. ~Reaches(file, m) /\ p \notin Loose(file)
    BY <1>1, <2>1, LookedIs DEF IInv, Linked
  <2> QED BY <2>2 DEF IInv, Durable, Covered
<1> QED BY <1>2, <1>3

(* A read of a place, as far as it went: it covers what it went through.   *)
LEMMA ReadIs ==
  ASSUME IInv, NEW p \in Places, p \notin Loose(markers), NEW top \in Nat,
         Low(p) <= top, top <= sent, Ingest(Rows(p, Low(p), top)),
         markers' = Looked(p), cache' = cache \cup ({p} \cap Threads),
         UNCHANGED <<sent, settled, file, sess, seq, inflight, staged, held, why>>,
         \/ after' = [after EXCEPT ![p] = 0] /\ pending' = pending \ {p} /\ top = sent
         \/ after' = [after EXCEPT ![p] = top] /\ pending' = pending \cup {p}
         \/ after' = after /\ top = Low(p) /\ pending' = pending \cup {p}
  PROVE  Read(p)
<1>1. /\ Posted' = Posted /\ Mail' = Mail
      /\ \A m \in Mail : m \in Message /\ m \in Nat /\ m <= sent /\ 0 < m
  BY Numbers, Constants DEF Posted, Mail
<1>2. /\ queue' = queue \cup (Rows(p, Low(p), top) \cap Mentions)
      /\ dropped' = dropped \cup (Rows(p, Low(p), top) \ Mentions)
  BY DEF Ingest
<1>3. \A m \in Rows(p, Low(p), top) : m \in Posted /\ Place[m] = p
  BY DEF Rows
<1>4. Sound(markers)' /\ Loose(markers') = Loose(markers)
  BY LookedIs DEF Sound
<1>5. \A m \in Message : Reaches(markers', m) <=> Reaches(markers, m)
  BY LookedIs
<1>6. \A m \in Mail : Covered(m) => Covered(m)'
  BY <1>2 DEF Covered, Done
<1>7. ASSUME NEW m \in Mail, Place[m] = p, m <= top PROVE Covered(m)'
  <2>1. CASE m <= Low(p)
    BY <1>6, <1>7, <2>1, LowCovered
  <2>2. CASE ~(m <= Low(p))
    <3>1. m > Low(p)
      BY <1>1, <2>2, LookedIs
    <3>2. m \in Rows(p, Low(p), top) \cap Mentions
      BY <1>7, <3>1 DEF Rows, Mail
    <3> QED BY <1>2, <3>2 DEF Covered
  <2> QED BY <2>1, <2>2
<1>8. /\ after' \in [Places -> 0..sent] /\ \A q \in Places : q # p => after'[q] = after[q]
      /\ after'[p] \in {0, top, after[p]}
  BY Numbers DEF IInv, Typed
<1>9. \A m \in Mail : m <= after'[Place[m]] => Covered(m)'
  <2> SUFFICES ASSUME NEW m \in Mail, m <= after'[Place[m]] PROVE Covered(m)'
    OBVIOUS
  <2>1. Place[m] \in Places /\ m \in Nat /\ 0 < m
    BY <1>1, Constants
  <2>2. CASE Place[m] # p \/ after'[p] = after[p]
    BY <1>6, <1>8, <2>1, <2>2 DEF IInv, Windows
  <2>3. CASE Place[m] = p /\ after'[p] = 0
    BY <2>1, <2>3
  <2>4. CASE Place[m] = p /\ after'[p] = top
    BY <1>7, <2>4
  <2> QED BY <1>8, <2>2, <2>3, <2>4
<1>10. p \notin pending' => \A m \in Mail : Place[m] = p => Covered(m)'
  BY <1>1, <1>7
<1>11. /\ Marks' = Marks \cup Rows(p, Low(p), top)
       /\ (Marks \subseteq Posted /\ queue \cup inflight \subseteq Mentions
           /\ dropped \cap Mentions = {})'
  BY <1>1, <1>2, <1>3 DEF IInv, Typed, Marks
<1>12. \A q \in Places : q # p => (q \in pending' <=> q \in pending)
  OBVIOUS
<1> QED BY <1>1, <1>2, <1>3, <1>4, <1>5, <1>6, <1>8, <1>9, <1>10, <1>11, <1>12 DEF Read

(* A read that found nothing out.                                          *)
LEMMA ReadNothing ==
  ASSUME IInv, NEW p \in Places,
         UNCHANGED <<sent, settled, file, sess, seq, inflight, staged, held, why>>,
         UNCHANGED <<markers, cache, queue, dropped, after>>, pending' = pending \cup {p}
  PROVE  Read(p)
<1>1. Posted' = Posted /\ Mail' = Mail /\ Marks' = Marks
  BY DEF Posted, Mail, Marks
<1>2. \A m \in Mail : Covered(m) <=> Covered(m)'
  BY DEF Covered, Done
<1>3. Sound(markers)'
  BY DEF IInv, Typed, Sound
<1> QED BY <1>1, <1>2, <1>3 DEF Read, IInv, Typed, Windows

(* A mention that is posted is above every marker, or a session has it to  *)
(* come, or it is excused.                                                 *)
LEMMA PostKeeps ==
  ASSUME IInv, Post
  PROVE  IInv'
<1>p. PICK m \in Nat : m = sent + 1
  BY Constants DEF IInv, Typed
<1>a. /\ m \in Message /\ m \notin Posted /\ Posted' = Posted \cup {m} /\ sent' = m /\ m <= NumMsgs
      /\ \A n \in Posted : n < m /\ n \in Message /\ n \in Nat
      /\ sent \in Nat /\ sent < m /\ m \in 0..NumMsgs
      /\ UNCHANGED <<settled, file, sess, pc, ws, control, seq, markers, queue, inflight, staged,
                     dropped, held, pending, after, cache, todo>>
  BY <1>p, Constants DEF IInv, Typed, Post, Posted, Message, disk, gateway,
     batch, reads
<1>b. /\ why' \in [Message -> Reasons] /\ \A n \in Message : n # m => why'[n] = why[n]
      /\ m \in Mentions /\ sess = NoSession /\ Place[m] \in Threads \ markers.tracked
           /\ markers.floor[Place[m]] >= m => why'[m] # ""
  BY <1>a, <1>p DEF IInv, Typed, Post, Blame, Reasons
<1>c. /\ Marks' = Marks /\ Mail' \subseteq Mail \cup {m} /\ m \notin Mail
      /\ \A n \in Mail : n \in Posted /\ n # m /\ n \in Mail' /\ (Covered(n)' <=> Covered(n))
      /\ \A n \in Marks : n < m
      /\ Replaying' = Replaying
  BY <1>a, <1>b DEF IInv, Typed, Marks, Mail, Covered, Done, Replaying
<1>1. Typed'
  <2>1. (Marks \subseteq Posted /\ queue \cup inflight \subseteq Mentions
         /\ dropped \cap Mentions = {})'
    BY <1>a, <1>c DEF IInv, Typed
  <2>2. Sound(file)' /\ Sound(markers)'
    <3>1. /\ \A p \in Places : file.at[p] \in Nat /\ markers.at[p] \in Nat
          /\ \A t \in Threads : file.floor[t] \in Nat /\ markers.floor[t] \in Nat
      BY Constants DEF IInv, Typed, Sound, Markers
    <3> QED BY <1>a, <3>1 DEF IInv, Typed, Sound
  <2>3. (sess \in NoSession..sent /\ seq \in 0..sent /\ ws \in BOOLEAN)'
    BY <1>a, Constants DEF IInv, Typed
  <2>4. after \in [Places -> 0..m]
    BY <1>a DEF IInv, Typed
  <2> QED BY <1>a, <1>b, <2>1, <2>2, <2>3, <2>4 DEF IInv, Typed
<1>2. Phase'
  BY Constants DEF IInv, Phase, Typed, Post, Blame, disk, gateway, batch,
     reads
<1>3. Linked'
  BY Constants DEF IInv, Linked, Post, Blame, disk, gateway, batch, reads
<1>4. Durable'
  <2> SUFFICES ASSUME NEW n \in Mail'
               PROVE  \/ n \in settled' \/ why'[n] # "" \/ Reaches(file', n)
                      \/ /\ Place[n] \in Loose(file')
                         /\ n \in queue' \cup inflight' \/ (sess' # NoSession /\ n > sess')
    BY DEF Durable, Done
  <2>1. CASE n \in Mail
    BY <1>a, <1>b, <1>c, <2>1 DEF IInv, Durable, Done
  <2>2. CASE n = m
    <3>1. Place[m] \in Channels \cup markers.tracked => Reaches(markers, m)
      BY <1>a, Constants DEF IInv, Typed, Sound, Markers, Reaches
    <3>2. Place[m] \notin Channels \cup markers.tracked /\ Place[m] \notin Loose(markers)
            => Reaches(markers, m)
      BY <1>a, Constants DEF IInv, Typed, Sound, Markers, Reaches, Loose
    <3>3. Place[m] \in Loose(markers) => sess # NoSession \/ why'[m] # ""
      BY <1>a, <1>b, <2>2, Constants DEF Loose, Mail
    <3>4. sess # NoSession => m > sess
      BY <1>a, Constants DEF IInv, Typed
    <3> QED BY <1>a, <2>2, <3>1, <3>2, <3>3, <3>4 DEF IInv, Linked
  <2> QED BY <1>c, <2>1, <2>2
<1>5. Heard'
  BY <1>a, <1>c, Constants DEF IInv, Heard, Typed
<1>6. Ahead'
  <2> SUFFICES ASSUME NEW x \in Mail', NEW n \in Marks', n >= x, Place[n] = Place[x]
               PROVE  /\ Place[x] \in Loose(markers') => Covered(x)'
                      /\ Place[x] \notin pending'
                           /\ (Replaying' => n \in held' \cup staged' \cup inflight') => Covered(x)'
    BY DEF Ahead
  <2>1. x # m
    BY <1>a, <1>c DEF IInv, Typed
  <2> QED BY <1>a, <1>c, <2>1 DEF IInv, Ahead
<1>7. Flows'
  <2>1. m > seq
    BY <1>a, Constants DEF IInv, Typed
  <2> QED BY <1>a, <1>c, <2>1, Order, Constants DEF IInv, Flows, Typed
<1>8. Windows'
  <2>1. m > after[Place[m]] /\ after[Place[m]] \in Nat
    BY <1>a, Constants DEF IInv, Typed
  <2> QED BY <1>a, <1>c, <2>1, Order DEF IInv, Windows
<1> QED BY <1>1, <1>2, <1>3, <1>4, <1>5, <1>6, <1>7, <1>8 DEF IInv

(* A process begins with the markers on disk.                              *)
LEMMA StartKeeps ==
  ASSUME IInv, Start
  PROVE  IInv'
<1>1. Typed'
  BY Constants DEF IInv, Typed, Sound, Posted, Marks, Message, Reasons, Start,
     disk, gateway, batch, reads, ghosts
<1>2. Phase'
  BY Constants DEF IInv, Phase, Typed, Start, disk, gateway, batch, reads
<1>3. Linked'
  BY Constants DEF IInv, Linked, Start, disk, gateway, batch, reads
<1>4. Durable'
  BY Constants DEF IInv, Durable, Done, Typed, Mail, Posted, Start, disk,
     gateway, batch, reads, ghosts
<1>5. Heard'
  BY Constants DEF IInv, Heard, Typed, Phase, Mail, Posted, Covered, Done,
     Start, disk, gateway, batch, reads, ghosts
<1>6. Ahead'
  BY Constants DEF IInv, Ahead, Typed, Phase, Mail, Posted, Marks, Replaying,
     Covered, Done, Start, disk, gateway, batch, reads, ghosts
<1>7. Flows'
  BY Constants DEF IInv, Flows, Typed, Phase, Mail, Posted, Covered, Done,
     Start, disk, gateway, batch, reads
<1>8. Windows'
  BY Constants DEF IInv, Windows, Typed, Mail, Posted, Covered, Done, Start,
     disk, gateway, batch, reads, ghosts
<1> QED BY <1>1, <1>2, <1>3, <1>4, <1>5, <1>6, <1>7, <1>8 DEF IInv

(* A death takes what was in hand, and what is durable needs none of it.   *)
LEMMA DieKeeps ==
  ASSUME IInv, Die
  PROVE  IInv'
<1>a. /\ UNCHANGED <<sent, settled, file, sess>> /\ pc' = "down" /\ ws' = FALSE /\ seq' = 0
      /\ markers' = file /\ queue' = {} /\ inflight' = {} /\ staged' = {} /\ dropped' = {}
      /\ held' = {} /\ pending' = {} /\ after' = [p \in Places |-> 0] /\ todo' = {}
  BY DEF Die, disk
<1>b. /\ why' \in [Message -> Reasons] /\ \A n \in Message : Done(n) => Done(n)'
      /\ \A n \in Message : n \in InHand \cap Unanchored(file) /\ (sess = NoSession \/ n <= sess)
                              => Done(n)'
  BY <1>a DEF IInv, Typed, Die, Blame, Reasons, Done
<1>c. /\ Mail' = Mail /\ Posted' = Posted /\ Marks' = {} /\ sent \in Nat
      /\ \A n \in Mail : n \in Message /\ n \in Nat /\ 0 < n
  BY <1>a, Constants DEF IInv, Typed, Mail, Posted, Marks
<1>1. Typed'
  <2>1. Sound(file)' /\ Sound(markers)'
    BY <1>a DEF IInv, Typed, Sound
  <2>2. 0 \in 0..sent
    BY <1>c
  <2> QED BY <1>a, <1>b, <1>c, <2>1, <2>2 DEF IInv, Typed
<1>2. Phase'
  BY Constants DEF IInv, Phase, Typed, Die, Fault, Blame, disk, gateway,
     batch, reads
<1>3. Linked'
  BY Constants DEF IInv, Linked, Die, Fault, Blame, disk, gateway, batch,
     reads
<1>4. Durable'
  <2> SUFFICES ASSUME NEW n \in Mail, ~Done(n)', ~Reaches(file, n)
               PROVE  Place[n] \in Loose(file) /\ sess # NoSession /\ n > sess
    BY <1>a, <1>c DEF Durable
  <2>1. /\ Place[n] \in Loose(file) /\ n \in Mail \ settled
        /\ n \in queue \cup inflight \/ (sess # NoSession /\ n > sess)
    BY <1>b, <1>c DEF IInv, Durable, Done
  <2>2. n \in queue \cup inflight => sess # NoSession /\ ~(n <= sess)
    BY <1>b, <1>c, <2>1, LooseUnanchored DEF InHand
  <2>3. n \in Nat
    BY <1>c
  <2>4. sess \in Int
    BY Numbers
  <2> QED BY <2>1, <2>2, <2>3, <2>4, Order
<1>5. Heard'
  BY <1>a, <1>c, Constants DEF IInv, Typed, Heard
<1>6. Ahead'
  BY Constants DEF IInv, Ahead, Typed, Phase, Mail, Posted, Marks, Replaying,
     Covered, Done, Die, Fault, Blame, disk, gateway, batch, reads
<1>7. Flows'
  BY Constants DEF IInv, Flows, Typed, Phase, Mail, Posted, Covered, Done,
     Die, Fault, Blame, disk, gateway, batch, reads
<1>8. Windows'
  BY <1>a, <1>c, Constants DEF Windows
<1> QED BY <1>1, <1>2, <1>3, <1>4, <1>5, <1>6, <1>7, <1>8 DEF IInv

(* A batch that was not confirmed is queued again.                         *)
LEMMA FetchBeginKeeps ==
  ASSUME IInv, FetchBegin
  PROVE  IInv'
<1>a. /\ UNCHANGED <<sent, settled, file, sess, seq, ws, markers, staged, dropped, held, after,
                     cache, why>>
      /\ pc = "fetch" /\ queue' = queue \cup inflight /\ inflight' = {} /\ todo = {}
      /\ pending \subseteq pending' /\ pending' \subseteq Places
      /\ \/ ws /\ pc' = "read" /\ todo' \subseteq Watched \cup Floored(markers)
         \/ ~ws /\ pc' = "connect" /\ todo' = todo
  BY WatchedPlaces DEF IInv, Typed, Phase, FetchBegin, CatchUp, disk, gateway,
     ghosts
<1>1. Typed'
  <2>1. (Marks \subseteq Posted /\ queue \cup inflight \subseteq Mentions
         /\ dropped \cap Mentions = {})'
    BY <1>a DEF IInv, Typed, Marks, Posted
  <2>2. Sound(file)' /\ Sound(markers)'
    BY <1>a DEF IInv, Typed, Sound
  <2>3. (sess \in NoSession..sent /\ seq \in 0..sent /\ ws \in BOOLEAN)'
    BY <1>a, Constants DEF IInv, Typed
  <2> QED BY <1>a, <2>1, <2>2, <2>3 DEF IInv, Typed
<1>2. Phase'
  <2>1. todo' \cap Loose(markers') = {} /\ todo' \subseteq Places
    BY <1>a, WatchedPlaces
  <2> QED BY <1>a, <2>1 DEF IInv, Phase
<1>3. Linked'
  BY Constants DEF IInv, Linked, FetchBegin, CatchUp, disk, gateway, batch,
     reads
<1>4. Durable'
  BY Constants DEF IInv, Durable, Done, Typed, Mail, Posted, FetchBegin,
     CatchUp, disk, gateway, batch, reads, ghosts
<1>5. Heard'
  BY Constants DEF IInv, Heard, Typed, Phase, Mail, Posted, Covered, Done,
     FetchBegin, CatchUp, disk, gateway, batch, reads, ghosts
<1>6. Ahead'
  BY ZenonT(60), Constants DEF IInv, Ahead, Typed, Phase, Mail, Posted, Marks, Replaying,
     Covered, Done, FetchBegin, CatchUp, disk, gateway, batch, reads, ghosts
<1>7. Flows'
  BY Constants DEF IInv, Flows, Typed, Phase, Mail, Posted, Covered, Done,
     FetchBegin, CatchUp, disk, gateway, batch, reads, ghosts
<1>8. Windows'
  BY Constants DEF IInv, Windows, Typed, Mail, Posted, Covered, Done,
     FetchBegin, CatchUp, disk, gateway, batch, reads, ghosts
<1> QED BY <1>1, <1>2, <1>3, <1>4, <1>5, <1>6, <1>7, <1>8 DEF IInv

(* A socket that is closed before the fetch delivers no more.              *)
LEMMA HeartbeatExpiredKeeps ==
  ASSUME IInv, HeartbeatExpired
  PROVE  IInv'
<1>1. Typed'
  BY Constants DEF IInv, Typed, Sound, Posted, Marks, Message, Reasons,
     HeartbeatExpired, Fault, disk, gateway, batch, reads
<1>2. Phase'
  BY Constants DEF IInv, Phase, Typed, HeartbeatExpired, Fault, disk, gateway,
     batch, reads
<1>3. Linked'
  BY Constants DEF IInv, Linked, HeartbeatExpired, Fault, disk, gateway,
     batch, reads
<1>4. Durable'
  BY Constants DEF IInv, Durable, Done, Typed, Mail, Posted, HeartbeatExpired,
     Fault, disk, gateway, batch, reads
<1>5. Heard'
  BY Constants DEF IInv, Heard, Typed, Phase, Mail, Posted, Covered, Done,
     HeartbeatExpired, Fault, disk, gateway, batch, reads
<1>6. Ahead'
  BY Constants DEF IInv, Ahead, Typed, Phase, Mail, Posted, Marks, Replaying,
     Covered, Done, HeartbeatExpired, Fault, disk, gateway, batch, reads
<1>7. Flows'
  BY Constants DEF IInv, Flows, Typed, Phase, Mail, Posted, Covered, Done,
     HeartbeatExpired, Fault, disk, gateway, batch, reads
<1>8. Windows'
  BY Constants DEF IInv, Windows, Typed, Mail, Posted, Covered, Done,
     HeartbeatExpired, Fault, disk, gateway, batch, reads
<1> QED BY <1>1, <1>2, <1>3, <1>4, <1>5, <1>6, <1>7, <1>8 DEF IInv

(* A session is taken up where it was saved.                               *)
LEMMA ResumeKeeps ==
  ASSUME IInv, Resume
  PROVE  IInv'
<1>a. /\ UNCHANGED <<sent, settled, file, sess, markers, queue, inflight, staged, dropped, held,
                     pending, after, cache, todo, why>>
      /\ pc = "connect" /\ pc' = "resume" /\ sess # NoSession /\ ws' = TRUE /\ seq' = sess
  BY DEF Resume, disk, batch, reads, ghosts
<1>b. sess \in 0..sent /\ Posted' = Posted
  BY <1>a, Constants DEF IInv, Typed, Posted
<1>1. Typed'
  <2>1. (Marks \subseteq Posted /\ queue \cup inflight \subseteq Mentions
         /\ dropped \cap Mentions = {})'
    BY <1>a, <1>b DEF IInv, Typed, Marks
  <2>2. Sound(file)' /\ Sound(markers)'
    BY <1>a, <1>b DEF IInv, Typed, Sound
  <2>3. (sess \in NoSession..sent /\ seq \in 0..sent /\ ws \in BOOLEAN)'
    BY <1>a, <1>b, Constants DEF IInv
  <2> QED BY <1>a, <1>b, <2>1, <2>2, <2>3 DEF IInv, Typed
<1>2. Phase'
  BY Constants DEF IInv, Phase, Typed, Resume, disk, gateway, batch, reads
<1>3. Linked'
  BY Constants DEF IInv, Linked, Resume, disk, gateway, batch, reads
<1>4. Durable'
  BY Constants DEF IInv, Durable, Done, Typed, Mail, Posted, Resume, disk,
     gateway, batch, reads, ghosts
<1>5. Heard'
  <2>1. \A n \in Mail' : n \in Nat /\ ~(sess < n /\ n <= sess)
    BY <1>b, Constants DEF Mail, IInv
  <2> QED BY <1>a, <2>1 DEF Heard
<1>6. Ahead'
  BY Constants DEF IInv, Ahead, Typed, Phase, Mail, Posted, Marks, Replaying,
     Covered, Done, Resume, disk, gateway, batch, reads, ghosts
<1>7. Flows'
  BY Constants DEF IInv, Flows, Typed, Phase, Mail, Posted, Covered, Done,
     Resume, disk, gateway, batch, reads
<1>8. Windows'
  BY Constants DEF IInv, Windows, Typed, Mail, Posted, Covered, Done, Resume,
     disk, gateway, batch, reads, ghosts
<1> QED BY <1>1, <1>2, <1>3, <1>4, <1>5, <1>6, <1>7, <1>8 DEF IInv

(* What the replay brought is in hand, and everything is read after it.    *)
LEMMA ResumedKeeps ==
  ASSUME IInv, Resumed
  PROVE  IInv'
<1>a. /\ UNCHANGED <<sent, settled, file, seq, ws, markers, queue, inflight, staged, dropped, held,
                     after, cache, why>>
      /\ pc \in {"resume", "resumeLive"} /\ sess' = seq /\ todo = {}
      /\ pending \subseteq pending' /\ pending' \subseteq Places
      /\ \/ /\ pc = "resume" /\ pc' = "read" /\ todo' = Watched \cup Floored(markers)
            /\ Watched \cup Floored(markers) \subseteq pending'
         \/ pc = "resumeLive" /\ pc' = "live" /\ todo' = todo /\ pending' = pending
  BY WatchedPlaces, PlaceKinds DEF IInv, Typed, Phase, Resumed, CatchUp,
     gateway, batch, ghosts
<1>b. /\ Mail' = Mail /\ Posted' = Posted /\ Marks' = Marks /\ seq \in Nat
      /\ \A n \in Mail : n \in Message /\ n \in Nat /\ Place[n] \in Places
                         /\ (Covered(n)' <=> Covered(n))
  BY <1>a, Constants DEF IInv, Typed, Mail, Posted, Marks, Covered, Done
<1>1. Typed'
  <2>1. (Marks \subseteq Posted /\ queue \cup inflight \subseteq Mentions
         /\ dropped \cap Mentions = {})'
    BY <1>a, <1>b DEF IInv, Typed, Marks
  <2>2. Sound(file)' /\ Sound(markers)'
    BY <1>a, <1>b DEF IInv, Typed, Sound
  <2>3. (sess \in NoSession..sent /\ seq \in 0..sent /\ ws \in BOOLEAN)'
    BY <1>a, <1>b, Constants DEF IInv, Typed
  <2> QED BY <1>a, <1>b, <2>1, <2>2, <2>3 DEF IInv, Typed
<1>2. Phase'
  <2>1. todo' \cap Loose(markers') = {} /\ todo' \subseteq Places
    BY <1>a, WatchedPlaces
  <2> QED BY <1>a, <1>b, <2>1, Constants DEF IInv, Phase
<1>3. Linked'
  BY Constants DEF IInv, Linked, Resumed, CatchUp, disk, gateway, batch, reads
<1>4. Durable'
  <2> SUFFICES ASSUME NEW n \in Mail
               PROVE  \/ n \in settled \/ why[n] # "" \/ Reaches(file, n)
                      \/ /\ Place[n] \in Loose(file)
                         /\ n \in queue \cup inflight \/ (seq # NoSession /\ n > seq)
    BY <1>a, <1>b DEF Durable, Done
  <2>1. Place[n] \in Loose(file) /\ n <= seq => Covered(n)
    BY LooseHeard DEF IInv, Linked
  <2>2. n > seq \/ n <= seq
    BY <1>b
  <2>3. seq # NoSession
    BY <1>b, Constants
  <2> QED BY <2>1, <2>2, <2>3 DEF IInv, Durable, Covered, Done
<1>5. Heard'
  <2>1. \A n \in Mail : ~(seq < n /\ n <= seq)
    BY <1>b
  <2> QED BY <1>a, <1>b, <2>1 DEF Heard
<1>6. Ahead'
  <2> SUFFICES ASSUME NEW x \in Mail, NEW n \in Marks, n >= x, Place[n] = Place[x]
               PROVE  /\ Place[x] \in Loose(markers) => Covered(x)
                      /\ Place[x] \notin pending' => Covered(x)
    BY <1>a, <1>b DEF Ahead
  <2>1. Place[x] \in Loose(markers) => Covered(x)
    BY DEF IInv, Ahead
  <2>2. CASE pc = "resume"
    BY <1>a, <1>b, <2>1, <2>2, PlaceKinds
  <2>3. CASE pc = "resumeLive"
    BY <1>a, <2>1, <2>3 DEF IInv, Ahead, Replaying
  <2> QED BY <1>a, <2>2, <2>3
<1>7. Flows'
  <2> SUFFICES ASSUME NEW n \in Mail, ws, Place[n] \notin pending', n <= seq
               PROVE  Covered(n)
    BY <1>a, <1>b DEF Flows
  <2>1. CASE pc = "resume"
    BY <1>a, <1>b, <2>1, PlaceKinds, LooseHeard
  <2>2. CASE pc = "resumeLive"
    BY <1>a, <2>2 DEF IInv, Flows
  <2> QED BY <1>a, <2>1, <2>2
<1>8. Windows'
  BY Constants DEF IInv, Windows, Typed, Mail, Posted, Covered, Done, Resumed,
     CatchUp, disk, gateway, batch, reads, ghosts
<1> QED BY <1>1, <1>2, <1>3, <1>4, <1>5, <1>6, <1>7, <1>8 DEF IInv

(* A new session knows nothing, and everything is read after it.           *)
LEMMA IdentifyKeeps ==
  ASSUME IInv, Identify
  PROVE  IInv'
<1>a. /\ UNCHANGED <<sent, settled, file, markers, queue, inflight, staged, dropped, held, after,
                     cache>>
      /\ pc \in {"connect", "resume"} /\ pc' = "read" /\ ws' = TRUE /\ seq' = sent /\ sess' = sent
      /\ todo' = Watched \cup Floored(markers) /\ Watched \cup Floored(markers) \subseteq pending'
      /\ pending \subseteq pending' /\ pending' \subseteq Places
  BY WatchedPlaces DEF IInv, Typed, Identify, NewSession, CatchUp, batch
<1>b. /\ why' \in [Message -> Reasons] /\ \A n \in Message : why[n] # "" => why'[n] # ""
      /\ \A n \in Message : n \in Unanchored(markers) \ InHand => why'[n] # ""
  BY DEF IInv, Typed, Identify, Blame, Lost, Reasons
<1>c. /\ Mail' = Mail /\ Posted' = Posted /\ Marks' = Marks /\ sent \in Nat
      /\ \A n \in Mail : n \in Message /\ n \in Nat /\ Place[n] \in Places
                         /\ (Covered(n) => Covered(n)')
  BY <1>a, <1>b, Constants, Numbers DEF Mail, Posted, Marks, Covered, Done
<1>d. \A n \in Mail : Place[n] \in Loose(markers) => Covered(n)'
  BY <1>a, <1>b, <1>c, LooseUnanchored DEF Covered, Done, InHand
<1>1. Typed'
  <2>1. (Marks \subseteq Posted /\ queue \cup inflight \subseteq Mentions
         /\ dropped \cap Mentions = {})'
    BY <1>a, <1>b, <1>c, Numbers DEF IInv, Typed, Marks
  <2>2. Sound(file)' /\ Sound(markers)'
    BY <1>a, <1>b, <1>c, Numbers DEF IInv, Typed, Sound
  <2>3. (sess \in NoSession..sent /\ seq \in 0..sent /\ ws \in BOOLEAN)'
    BY <1>a, <1>b, <1>c, Numbers, Constants DEF IInv
  <2> QED BY <1>a, <1>b, <1>c, Numbers, <2>1, <2>2, <2>3 DEF IInv, Typed
<1>2. Phase'
  <2>1. todo' \cap Loose(markers') = {} /\ todo' \subseteq Places
    BY <1>a, WatchedPlaces
  <2> QED BY <1>a, <1>c, <2>1 DEF IInv, Phase
<1>3. Linked'
  BY Constants DEF IInv, Linked, Identify, NewSession, CatchUp, Blame, disk,
     gateway, batch, reads
<1>4. Durable'
  BY <1>a, <1>b, <1>c, <1>d DEF IInv, Linked, Durable, Covered, Done
<1>5. Heard'
  <2>1. \A n \in Mail : ~(sent < n /\ n <= sent)
    BY <1>c
  <2> QED BY <1>a, <1>c, <2>1 DEF Heard
<1>6. Ahead'
  BY <1>a, <1>c, <1>d, PlaceKinds DEF Ahead
<1>7. Flows'
  BY <1>a, <1>c, <1>d, PlaceKinds DEF Flows
<1>8. Windows'
  BY <1>a, <1>c DEF IInv, Windows
<1> QED BY <1>1, <1>2, <1>3, <1>4, <1>5, <1>6, <1>7, <1>8 DEF IInv

(* A replay that breaks off hides only what is excused.                    *)
LEMMA ConnectFailsKeeps ==
  ASSUME IInv, ConnectFails
  PROVE  IInv'
<1>a. /\ UNCHANGED <<sent, settled, file, markers, staged, dropped, held, pending, after, cache,
                     todo>>
      /\ pc \in {"connect", "resume"} /\ ws' = FALSE /\ inflight = {}
  BY DEF IInv, Phase, ConnectFails, reads
<1>b. \/ /\ inflight' = queue /\ queue' = {} /\ pc' = "handle"
         /\ seq' \in {sess, seq} \ {NoSession}
         /\ sess' = IF sess = NoSession THEN NoSession ELSE seq'
         /\ \A n \in Message : n \in Passed => Done(n)'
      \/ /\ pc' = "fetch" /\ UNCHANGED <<seq, queue, inflight>>
         /\ \/ sess' = sess
            \/ /\ sess' = NoSession
               /\ \A n \in Message : n \in Unanchored(markers) \ InHand => Done(n)'
  BY <1>a DEF IInv, Typed, ConnectFails, Hand, Blame, Lost, Reasons, Done
<1>c. why' \in [Message -> Reasons] /\ \A n \in Message : Done(n) => Done(n)'
  BY <1>a DEF IInv, Typed, ConnectFails, Blame, Reasons, Done
<1>d. /\ Mail' = Mail /\ Posted' = Posted /\ Marks' = Marks /\ InHand' = InHand
  BY <1>a, <1>b DEF Mail, Posted, Marks, InHand
<1>f. /\ seq' \in 0..sent /\ sess' \in NoSession..sent /\ sess' \in Int
      /\ sess' # NoSession => sess # NoSession /\ (sess' = seq' \/ (sess' = sess /\ seq' = seq))
      /\ sess' # NoSession => sess' = sess \/ sess' = seq
  <2>n. sess \in NoSession..sent /\ seq \in 0..sent /\ (sess # NoSession => sess \in 0..sent)
    BY Numbers, Constants DEF IInv
  <2>1. CASE pc' = "handle"
    BY <1>b, <2>1, <2>n, Numbers, Constants
  <2>2. CASE pc' = "fetch"
    BY <1>b, <2>2, <2>n, Numbers, Constants
  <2> QED BY <1>b, <2>1, <2>2
<1>e. \A n \in Mail : /\ n \in Message /\ n \in Nat /\ Place[n] \in Places
                      /\ Covered(n) => Covered(n)'
  BY <1>a, <1>c, <1>d, Constants DEF Mail, Posted, Covered, InHand
<1>1. Typed'
  <2>1. (Marks \subseteq Posted /\ queue \cup inflight \subseteq Mentions
         /\ dropped \cap Mentions = {})'
    BY <1>a, <1>d DEF IInv, Typed, InHand
  <2>2. Sound(file)' /\ Sound(markers)'
    BY <1>a DEF IInv, Typed, Sound
  <2> QED BY <1>a, <1>c, <1>f, <2>1, <2>2 DEF IInv, Typed
<1>2. Phase'
  BY <1>a, <1>b, <1>f DEF IInv, Phase
<1>3. Linked'
  BY Constants DEF IInv, Linked, ConnectFails, Fault, Hand, Blame, disk,
     gateway, batch, reads
<1>4. Durable'
  <2> SUFFICES ASSUME NEW n \in Mail, ~Done(n)', ~Reaches(file, n)
               PROVE  /\ Place[n] \in Loose(file)
                      /\ n \in InHand \/ (sess' # NoSession /\ n > sess')
    <3>1. \A k \in Mail : k \in InHand => k \in queue' \cup inflight'
      BY <1>d DEF InHand
    <3> QED BY <1>a, <1>d, <3>1 DEF Durable
  <2>1. /\ Place[n] \in Loose(markers) /\ Place[n] \in Loose(file) /\ n \in Mail \ settled
        /\ n \in InHand \/ (sess # NoSession /\ n > sess)
    BY <1>c, <1>e DEF IInv, Linked, Durable, InHand, Done
  <2>2. n \in InHand \/ ~(n <= seq)
    BY <1>c, <1>e, <2>1, LooseHeard DEF Covered, InHand
  <2>3. n \in InHand \/ sess' # NoSession
    <3>1. n \in Unanchored(markers)
      BY <2>1, LooseUnanchored
    <3> QED BY <1>b, <1>e, <2>1, <3>1
  <2>4. n \in Nat
    BY <1>e
  <2>5. sess \in Int /\ seq \in Int
    BY Numbers
  <2> QED BY <1>f, <2>1, <2>2, <2>3, <2>4, <2>5, Order
<1>5. Heard'
  <2> SUFFICES ASSUME NEW n \in Mail, sess' # NoSession, sess' < n, n <= seq',
                      Place[n] \in Loose(markers)
               PROVE  Covered(n)'
    BY <1>a, <1>d DEF Heard
  <2>1. sess' # seq'
    BY <1>e, <1>f
  <2> QED BY <1>e, <1>f, <2>1 DEF IInv, Heard
<1>6. Ahead'
  <2> SUFFICES ASSUME NEW x \in Mail, NEW n \in Marks, n >= x, Place[n] = Place[x]
               PROVE  /\ Place[x] \in Loose(markers) => Covered(x)'
                      /\ Place[x] \notin pending
                           /\ (Replaying' => n \in held \cup staged \cup inflight') => Covered(x)'
    BY <1>a, <1>d DEF Ahead
  <2>1. Place[x] \in Loose(markers) => Covered(x)'
    BY <1>e DEF IInv, Ahead
  <2>2. Place[x] \notin pending /\ n \in held \cup staged => Covered(x)'
    BY <1>e DEF IInv, Ahead
  <2>3. pc' = "fetch" => Replaying' /\ inflight' = {}
    BY <1>a, <1>b DEF Replaying
  <2>4. ASSUME pc' = "handle", Place[x] \notin pending, n \in queue \cup dropped,
               Place[x] \notin Loose(markers)
        PROVE  Covered(x)'
    <3>1. Place[x] \in (Watched \cup Floored(markers)) \ pending
      BY <1>e, <2>4, PlaceKinds
    <3>2. n = x => x \in queue
      BY <2>4 DEF IInv, Typed, Mail
    <3>3. n \in Nat
      BY Constants DEF IInv, Typed, Posted
    <3>4. n > x \/ n = x
      BY <1>e, <3>3
    <3>5. x \in settled \cup InHand \/ x \in Passed
      BY <2>4, <3>1, <3>2, <3>4 DEF Passed, Mail, InHand
    <3> QED BY <1>a, <1>b, <1>c, <1>d, <1>e, <2>4, <3>5 DEF Covered, Done, InHand
  <2> QED BY <1>a, <1>b, <2>1, <2>2, <2>3, <2>4 DEF Marks
<1>7. Flows'
  BY <1>a DEF Flows
<1>8. Windows'
  BY <1>a, <1>d, <1>e DEF IInv, Windows
<1> QED BY <1>1, <1>2, <1>3, <1>4, <1>5, <1>6, <1>7, <1>8 DEF IInv

(* A read that ends has all of the history; another leaves its place       *)
(* pending.                                                                *)
LEMMA ReadPlaceKeeps ==
  ASSUME IInv, NEW p \in Places, ReadPlace(p)
  PROVE  IInv'
<1>a. /\ UNCHANGED <<sent, settled, file, sess, pc, seq, inflight, staged, held, why>>
      /\ pc = "read" /\ p \in todo /\ todo' \subseteq todo /\ (ws' => ws) /\ ws' \in BOOLEAN
      /\ pending' \subseteq Places /\ pending \subseteq pending' \cup {p}
  BY DEF IInv, Typed, ReadPlace, disk, gateway
<1>b. Read(p)
  <2>1. /\ markers' = Looked(p) /\ cache' = cache \cup ({p} \cap Threads)
        /\ p \notin Loose(markers) /\ p \in todo /\ pc = "read"
    BY DEF IInv, Phase, ReadPlace
  <2>2. Low(p) \in Nat /\ Low(p) <= sent
    BY <1>a, LookedIs DEF IInv, Phase
  <2>3. CASE Ingest(Rows(p, Low(p), sent)) /\ after' = [after EXCEPT ![p] = 0]
             /\ pending' = pending \ {p}
    <3>1. sent \in Nat /\ sent <= sent
      BY Numbers
    <3> QED BY <1>a, <2>1, <2>2, <2>3, <3>1, ReadIs
  <2>4. ASSUME NEW top \in Rows(p, Low(p), sent), Ingest(Rows(p, Low(p), top)),
               after' = [after EXCEPT ![p] = top], pending' = pending \cup {p}
        PROVE  Read(p)
    <3>1. top \in Nat /\ Low(p) <= top /\ top <= sent
      BY <2>2, Numbers DEF Rows, Posted
    <3> QED BY <1>a, <2>1, <2>4, <3>1, ReadIs
  <2> QED BY <2>3, <2>4 DEF ReadPlace
<1>1. Typed'
  <2>1. Sound(file)'
    BY <1>a DEF IInv, Typed, Sound
  <2>2. (sess \in NoSession..sent /\ seq \in 0..sent /\ sent \in 0..NumMsgs)'
    BY <1>a DEF IInv, Typed
  <2>3. why' \in [Message -> Reasons] /\ after' \in [Places -> 0..sent']
    BY <1>a, <1>b DEF IInv, Typed, Read
  <2> QED BY <1>a, <1>b, <2>1, <2>2, <2>3 DEF Typed, Read
<1>2. Phase'
  <2>1. \A m \in queue' \cup inflight' : Place[m] \in Threads => Place[m] \in cache'
    BY <1>a, <1>b DEF IInv, Phase, Read
  <2> QED BY <1>a, <1>b, <2>1 DEF IInv, Phase, Read
<1>3. Linked'
  BY <1>a, <1>b DEF IInv, Linked, Read
<1>4. Durable'
  BY <1>a, <1>b DEF IInv, Durable, Read, Done
<1>5. Heard'
  BY <1>a, <1>b DEF IInv, Heard, Read
<1>6. Ahead'
  <2> SUFFICES ASSUME NEW x \in Mail, NEW n \in Marks', n >= x, Place[n] = Place[x]
               PROVE  /\ Place[x] \in Loose(markers) => Covered(x)'
                      /\ Place[x] \notin pending' => Covered(x)'
    BY <1>b DEF Ahead, Read
  <2>1. ~Replaying
    BY <1>a DEF Replaying
  <2>2. CASE Place[x] = p
    BY <1>a, <1>b, <2>2 DEF Read, IInv, Phase
  <2>3. CASE Place[x] # p
    BY <1>a, <1>b, <2>1, <2>3 DEF Read, IInv, Ahead
  <2> QED BY <2>2, <2>3
<1>7. Flows'
  BY <1>a, <1>b DEF IInv, Flows, Read
<1>8. Windows'
  BY <1>b DEF Windows, Read
<1> QED BY <1>1, <1>2, <1>3, <1>4, <1>5, <1>6, <1>7, <1>8 DEF IInv

(* A read that fails leaves its place pending.                             *)
LEMMA ReadFailsKeeps ==
  ASSUME IInv, NEW p \in Places, ReadFails(p)
  PROVE  IInv'
<1>a. /\ UNCHANGED <<sent, settled, file, sess, pc, seq, inflight, staged, held, why>>
      /\ pc = "read" /\ p \in todo /\ todo' \subseteq todo /\ (ws' => ws) /\ ws' \in BOOLEAN
      /\ pending' \subseteq Places /\ pending \subseteq pending' \cup {p}
  <2>1. ws' = ws \/ ws' = FALSE
    BY DEF ReadFails
  <2>2. ws \in BOOLEAN
    BY DEF IInv, Typed
  <2>3. ws' \in BOOLEAN /\ (ws' => ws)
    <3>1. CASE ws' = ws
      BY <2>2, <3>1
    <3>2. CASE ws' = FALSE
      BY <3>2
    <3> QED BY <2>1, <3>1, <3>2
  <2> QED BY <2>3 DEF IInv, Typed, ReadFails, disk
<1>b. Read(p)
  <2>1. p \notin Loose(markers) /\ p \in todo /\ pc = "read" /\ pending' = pending \cup {p}
    BY DEF IInv, Phase, ReadFails
  <2>2. Low(p) \in Nat /\ Low(p) <= sent
    BY <1>a, LookedIs DEF IInv, Phase
  <2>3. CASE UNCHANGED <<markers, cache, queue, dropped, after>>
    BY <1>a, <2>1, <2>3, ReadNothing
  <2>4. ASSUME NEW top \in {Low(p)} \cup Rows(p, Low(p), sent), Ingest(Rows(p, Low(p), top)),
               markers' = Looked(p), cache' = cache \cup ({p} \cap Threads),
               after' = [after EXCEPT ![p] = IF top = Low(p) THEN @ ELSE top]
        PROVE  Read(p)
    <3>1. top \in Nat /\ Low(p) <= top /\ top <= sent
      BY <2>2, Numbers DEF Rows, Posted
    <3>2. \/ after' = [after EXCEPT ![p] = top]
          \/ after' = after /\ top = Low(p)
      BY <2>4 DEF IInv, Typed
    <3> QED BY <1>a, <2>1, <2>4, <3>1, <3>2, ReadIs
  <2> QED BY <2>1, <2>3, <2>4 DEF ReadFails
<1>1. Typed'
  <2>1. Sound(file)'
    BY <1>a DEF IInv, Typed, Sound
  <2>2. (sess \in NoSession..sent /\ seq \in 0..sent /\ sent \in 0..NumMsgs)'
    BY <1>a DEF IInv, Typed
  <2>3. why' \in [Message -> Reasons] /\ after' \in [Places -> 0..sent']
    BY <1>a, <1>b DEF IInv, Typed, Read
  <2> QED BY <1>a, <1>b, <2>1, <2>2, <2>3 DEF Typed, Read
<1>2. Phase'
  <2>1. \A m \in queue' \cup inflight' : Place[m] \in Threads => Place[m] \in cache'
    BY <1>a, <1>b DEF IInv, Phase, Read
  <2> QED BY <1>a, <1>b, <2>1 DEF IInv, Phase, Read
<1>3. Linked'
  BY <1>a, <1>b DEF IInv, Linked, Read
<1>4. Durable'
  BY <1>a, <1>b DEF IInv, Durable, Read, Done
<1>5. Heard'
  BY <1>a, <1>b DEF IInv, Heard, Read
<1>6. Ahead'
  <2> SUFFICES ASSUME NEW x \in Mail, NEW n \in Marks', n >= x, Place[n] = Place[x]
               PROVE  /\ Place[x] \in Loose(markers) => Covered(x)'
                      /\ Place[x] \notin pending' => Covered(x)'
    BY <1>b DEF Ahead, Read
  <2>1. ~Replaying
    BY <1>a DEF Replaying
  <2>2. CASE Place[x] = p
    BY <1>a, <1>b, <2>2 DEF Read, IInv, Phase
  <2>3. CASE Place[x] # p
    BY <1>a, <1>b, <2>1, <2>3 DEF Read, IInv, Ahead
  <2> QED BY <2>2, <2>3
<1>7. Flows'
  BY <1>a, <1>b DEF IInv, Flows, Read
<1>8. Windows'
  BY <1>b DEF Windows, Read
<1> QED BY <1>1, <1>2, <1>3, <1>4, <1>5, <1>6, <1>7, <1>8 DEF IInv

(* The catch-up ends.                                                      *)
LEMMA ReadsDoneKeeps ==
  ASSUME IInv, ReadsDone
  PROVE  IInv'
<1>1. Typed'
  BY Constants DEF IInv, Typed, Sound, Posted, Marks, Message, Reasons,
     ReadsDone, disk, gateway, batch, reads, ghosts
<1>2. Phase'
  BY Constants DEF IInv, Phase, Typed, ReadsDone, disk, gateway, batch, reads
<1>3. Linked'
  BY Constants DEF IInv, Linked, ReadsDone, disk, gateway, batch, reads
<1>4. Durable'
  BY Constants DEF IInv, Durable, Done, Typed, Mail, Posted, ReadsDone, disk,
     gateway, batch, reads, ghosts
<1>5. Heard'
  BY Constants DEF IInv, Heard, Typed, Phase, Mail, Posted, Covered, Done,
     ReadsDone, disk, gateway, batch, reads, ghosts
<1>6. Ahead'
  BY Constants DEF IInv, Ahead, Typed, Phase, Mail, Posted, Marks, Replaying,
     Covered, Done, ReadsDone, disk, gateway, batch, reads, ghosts
<1>7. Flows'
  BY Constants DEF IInv, Flows, Typed, Phase, Mail, Posted, Covered, Done,
     ReadsDone, disk, gateway, batch, reads, ghosts
<1>8. Windows'
  BY Constants DEF IInv, Windows, Typed, Mail, Posted, Covered, Done,
     ReadsDone, disk, gateway, batch, reads, ghosts
<1> QED BY <1>1, <1>2, <1>3, <1>4, <1>5, <1>6, <1>7, <1>8 DEF IInv

(* What comes over the gateway comes after what it would hide.             *)
LEMMA EventKeeps ==
  ASSUME IInv, Event
  PROVE  IInv'
<1>p. PICK m \in Nat : m = seq + 1
  BY Numbers
<1>a. /\ UNCHANGED <<sent, settled, file, sess, pc, ws, markers, inflight, staged, held, pending,
                     after, todo, why>>
      /\ pc \in {"live", "resume", "resumeLive"} /\ ws /\ seq' = m
      /\ \/ /\ queue' = queue \cup ({m} \cap Mentions) /\ dropped' = dropped \cup ({m} \ Mentions)
         \/ m \notin Mentions /\ queue' = queue /\ dropped' = dropped
      /\ cache \subseteq cache'
      /\ m \in Mentions /\ Place[m] \in Threads => Place[m] \in cache'
  BY <1>p DEF Event, Listening, Ingest, disk
<1>b. /\ m \in 0..sent /\ m \in Posted /\ seq < m /\ Posted' = Posted /\ Mail' = Mail
      /\ \A n \in Mail : n \in Message /\ n \in Nat /\ Place[n] \in Places
                         /\ (n <= m => n = m \/ n <= seq)
      /\ inflight = {}
  BY <1>p, <1>a, Numbers, Constants DEF IInv, Phase, Event, Listening, Posted,
     Mail
<1>c. /\ Marks \subseteq Marks' /\ Marks' \subseteq Marks \cup {m} /\ Replaying' = Replaying
      /\ \A n \in Mail : Covered(n) => Covered(n)'
      /\ m \in Mail => Covered(m)'
  BY <1>a DEF Marks, Replaying, Mail, Covered, Done
<1>1. Typed'
  <2>1. (Marks \subseteq Posted /\ queue \cup inflight \subseteq Mentions
         /\ dropped \cap Mentions = {})'
    BY <1>a, <1>b, <1>c DEF IInv, Typed
  <2>2. Sound(file)' /\ Sound(markers)'
    BY <1>a DEF IInv, Typed, Sound
  <2> QED BY <1>a, <1>b, <2>1, <2>2 DEF IInv, Typed
<1>2. Phase'
  <2>1. ws' => sess <= m
    BY <1>a, <1>b, Numbers DEF IInv, Phase
  <2> QED BY <1>a, <1>b, <2>1 DEF IInv, Phase
<1>3. Linked'
  BY <1>a DEF IInv, Linked
<1>4. Durable'
  BY <1>a, <1>b DEF IInv, Durable, Done
<1>5. Heard'
  BY <1>a, <1>b, <1>c DEF IInv, Heard
<1>6. Ahead'
  <2> SUFFICES ASSUME NEW x \in Mail, NEW n \in Marks', n >= x, Place[n] = Place[x]
               PROVE  /\ Place[x] \in Loose(markers) => Covered(x)'
                      /\ Place[x] \notin pending
                           /\ (Replaying => n \in held \cup staged \cup inflight) => Covered(x)'
    BY <1>a, <1>b, <1>c DEF Ahead
  <2>1. CASE n \in Marks
    BY <1>c, <2>1 DEF IInv, Ahead
  <2>2. CASE n = m /\ n \notin Marks
    <3>1. x = m \/ x <= seq
      BY <1>b, <2>2, Order
    <3>2. CASE x <= seq /\ Place[x] \in Loose(markers)
      BY <1>c, <3>2, LooseHeard
    <3>3. CASE x <= seq /\ ~Replaying /\ Place[x] \notin pending
      BY <1>a, <1>c, <3>3 DEF IInv, Flows, Replaying
    <3> QED BY <1>c, <2>2, <3>1, <3>2, <3>3 DEF Marks
  <2> QED BY <1>c, <2>1, <2>2
<1>7. Flows'
  BY <1>a, <1>b, <1>c DEF IInv, Flows
<1>8. Windows'
  BY <1>a, <1>b, <1>c DEF IInv, Windows
<1> QED BY <1>1, <1>2, <1>3, <1>4, <1>5, <1>6, <1>7, <1>8 DEF IInv

(* A thread whose parent is unknown is read from below the mention later.  *)
LEMMA UnresolvedKeeps ==
  ASSUME IInv, Unresolved
  PROVE  IInv'
<1>p. PICK m \in Nat : m = seq + 1
  BY Numbers
<1>t. PICK t \in Threads : t = Place[m] /\ m \in Mentions /\ t \notin cache
  BY <1>p DEF Unresolved
<1>a. /\ UNCHANGED <<sent, settled, sess, pc, ws, queue, inflight, staged, dropped, held, after,
                     cache, todo, why>>
      /\ pc \in {"live", "resume", "resumeLive"} /\ ws /\ seq' = m /\ file' = markers'
      /\ markers' = [markers EXCEPT !.floor[t] = Smaller(@, m - 1)]
      /\ pending' = pending \cup {t}
  BY <1>p, <1>t DEF Unresolved, Listening, batch
<1>b. /\ m \in 0..sent /\ m - 1 \in Nat /\ m - 1 < NumMsgs /\ m - 1 <= sent /\ seq < m
      /\ Posted' = Posted /\ Mail' = Mail /\ Marks' = Marks
      /\ \A n \in Mail : n \in Message /\ n \in Nat /\ n <= NumMsgs
                         /\ (n <= m => n = m \/ n <= seq) /\ (n > m - 1 \/ n <= seq)
  BY <1>p, <1>a, Numbers, Constants DEF Unresolved, Listening, Posted, Mail,
     Marks
<1>c. /\ markers'.at = markers.at /\ markers'.tracked = markers.tracked /\ markers' \in Markers
      /\ \A u \in Threads : u # t => markers'.floor[u] = markers.floor[u]
      /\ markers.floor[t] \in Nat /\ markers.floor[t] <= NumMsgs /\ markers'.floor[t] \in Nat
      /\ markers'.floor[t] <= markers.floor[t] /\ markers'.floor[t] <= m - 1
      /\ markers'.floor[t] <= sent /\ markers'.floor[t] # NoFloor
  <2>1. markers \in Markers /\ markers.floor[t] \in 0..NumMsgs
    BY DEF IInv, Typed, Sound, Markers
  <2>2. /\ Smaller(markers.floor[t], m - 1) \in 0..NumMsgs
        /\ Smaller(markers.floor[t], m - 1) <= markers.floor[t]
        /\ Smaller(markers.floor[t], m - 1) <= m - 1
        /\ Smaller(markers.floor[t], m - 1) <= sent /\ Smaller(markers.floor[t], m - 1) # NoFloor
    BY <1>b, <2>1, Constants, Numbers DEF Smaller
  <2>3. /\ markers'.at = markers.at /\ markers'.tracked = markers.tracked
        /\ markers'.floor = [markers.floor EXCEPT ![t] = Smaller(@, m - 1)]
        /\ markers' \in Markers
    BY <1>a, <2>1, <2>2 DEF Markers
  <2> QED BY <2>1, <2>2, <2>3, Constants DEF Markers
<1>d. /\ Loose(markers') \subseteq Loose(markers) /\ t \notin Loose(markers')
      /\ \A u \in Loose(markers) : u = t \/ u \in Loose(markers')
  BY <1>c DEF Loose
<1>e. \A n \in Mail : Covered(n) => Covered(n)'
  BY <1>a DEF Covered, Done
<1>1. Typed'
  <2>1. (Marks \subseteq Posted /\ queue \cup inflight \subseteq Mentions
         /\ dropped \cap Mentions = {})'
    BY <1>a, <1>b DEF IInv, Typed
  <2>2. Sound(markers)'
    BY <1>a, <1>c DEF IInv, Typed, Sound
  <2>3. Sound(file)'
    BY <1>a, <2>2
  <2> QED BY <1>a, <1>b, <1>t, Constants, <2>1, <2>2, <2>3 DEF IInv, Typed
<1>2. Phase'
  <2>1. ws' => sess <= m
    BY <1>a, <1>b, Numbers DEF IInv, Phase
  <2> QED BY <1>a, <1>b, <1>d, <2>1 DEF IInv, Phase
<1>3. Linked'
  BY <1>a DEF Linked
<1>4. Durable'
  <2> SUFFICES ASSUME NEW n \in Mail, ~Done(n)
               PROVE  \/ Reaches(markers', n)
                      \/ /\ Place[n] \in Loose(markers')
                         /\ n \in queue \cup inflight \/ (sess # NoSession /\ n > sess)
    BY <1>a, <1>b DEF Durable, Done
  <2>1. \/ Reaches(markers, n)
        \/ /\ Place[n] \in Loose(markers)
           /\ n \in queue \cup inflight \/ (sess # NoSession /\ n > sess)
    BY <1>b DEF IInv, Linked, Durable
  <2>2. CASE Place[n] # t \/ t \in markers.tracked
    <3>1. Reaches(markers, n) => Reaches(markers', n)
      BY <1>b, <1>c, <2>2, Constants DEF Reaches
    <3>2. Place[n] \in Loose(markers) => Place[n] \in Loose(markers')
      BY <1>d, <2>2 DEF Loose
    <3> QED BY <2>1, <3>1, <3>2
  <2>3. CASE Place[n] = t /\ t \notin markers.tracked
    <3>0. t \notin Channels
      BY Constants
    <3>1. CASE n > m - 1
      BY <1>b, <1>c, <2>3, <3>0, <3>1 DEF Reaches
    <3>2. CASE n <= seq /\ t \in Loose(markers)
      BY <1>t, <2>3, <3>2, LooseHeard DEF IInv, Phase, Covered
    <3>3. CASE t \notin Loose(markers)
      BY <1>b, <1>c, <2>1, <2>3, <3>0, <3>3 DEF Reaches
    <3> QED BY <1>b, <3>1, <3>2, <3>3
  <2> QED BY <2>2, <2>3
<1>5. Heard'
  <2> SUFFICES ASSUME NEW n \in Mail, sess # NoSession, sess < n, n <= m,
                      Place[n] \in Loose(markers')
               PROVE  Covered(n)'
    BY <1>a, <1>b DEF Heard
  <2> QED BY <1>b, <1>d, <1>e, <1>t DEF IInv, Heard
<1>6. Ahead'
  <2>1. Replaying' = Replaying
    BY <1>a DEF Replaying
  <2> QED BY <1>a, <1>b, <1>d, <1>e, <2>1 DEF IInv, Ahead
<1>7. Flows'
  BY <1>a, <1>b, <1>e, <1>t DEF IInv, Flows
<1>8. Windows'
  BY <1>a, <1>b, <1>e DEF IInv, Windows
<1> QED BY <1>1, <1>2, <1>3, <1>4, <1>5, <1>6, <1>7, <1>8 DEF IInv

(* A session that is given up leaves nothing that is not excused.          *)
LEMMA ControlKeeps ==
  ASSUME IInv, Control
  PROVE  IInv'
<1>a. /\ UNCHANGED <<sent, settled, file, pc, ws, seq, markers, queue, inflight, staged, dropped,
                     held, pending, after, cache, todo>>
      /\ pc = "live" /\ sess' \in {sess, NoSession}
  BY DEF Control, batch, reads
<1>b. /\ why' \in [Message -> Reasons] /\ \A n \in Message : Done(n) => Done(n)'
      /\ sess' = sess \/ \A n \in Message : n \in Unanchored(markers) \ InHand => Done(n)'
  BY <1>a DEF IInv, Typed, Control, Blame, Lost, Reasons, Done
<1>c. /\ Mail' = Mail /\ Posted' = Posted /\ Marks' = Marks /\ Replaying' = Replaying
      /\ \A n \in Mail : n \in Message /\ (Covered(n) => Covered(n)')
  BY <1>a, <1>b, Constants DEF Mail, Posted, Marks, Replaying, Covered
<1>1. Typed'
  <2>1. (Marks \subseteq Posted /\ queue \cup inflight \subseteq Mentions
         /\ dropped \cap Mentions = {})'
    BY <1>a, <1>c DEF IInv, Typed
  <2>2. Sound(file)' /\ Sound(markers)'
    BY <1>a DEF IInv, Typed, Sound
  <2>3. sess' \in NoSession..sent
    <3>1. NoSession \in NoSession..sent
      BY Numbers, Constants
    <3> QED BY <1>a, <3>1 DEF IInv, Typed
  <2> QED BY <1>a, <1>b, <2>1, <2>2, <2>3 DEF IInv, Typed
<1>2. Phase'
  <2>1. ws' => sess' <= seq
    BY <1>a, Numbers, Constants DEF IInv, Phase
  <2> QED BY <1>a, <2>1 DEF IInv, Phase
<1>3. Linked'
  BY <1>a DEF IInv, Linked
<1>4. Durable'
  <2> SUFFICES ASSUME NEW n \in Mail, ~Done(n)', ~Reaches(file, n)
               PROVE  /\ Place[n] \in Loose(file)
                      /\ n \in queue \cup inflight \/ (sess' # NoSession /\ n > sess')
    BY <1>a, <1>c DEF Durable
  <2>1. /\ Place[n] \in Loose(markers) /\ Place[n] \in Loose(file) /\ n \in Mail \ settled
        /\ n \in queue \cup inflight \/ (sess # NoSession /\ n > sess)
    BY <1>b, <1>c DEF IInv, Linked, Durable, Done
  <2>2. n \in Unanchored(markers)
    BY <2>1, LooseUnanchored
  <2> QED BY <1>b, <1>c, <2>1, <2>2 DEF InHand
<1>5. Heard'
  BY <1>a, <1>c DEF IInv, Heard
<1>6. Ahead'
  BY <1>a, <1>c DEF IInv, Ahead
<1>7. Flows'
  BY <1>a, <1>c DEF IInv, Flows
<1>8. Windows'
  BY <1>a, <1>c DEF IInv, Windows
<1> QED BY <1>1, <1>2, <1>3, <1>4, <1>5, <1>6, <1>7, <1>8 DEF IInv

(* A session taken up again in the middle of a read replays what it        *)
(* delivered.                                                              *)
LEMMA ResumeLiveKeeps ==
  ASSUME IInv, ResumeLive
  PROVE  IInv'
<1>a. /\ UNCHANGED <<sent, settled, file, sess, ws, markers, queue, inflight, staged, dropped, held,
                     pending, after, cache, todo, why>>
      /\ pc = "live" /\ pc' = "resumeLive" /\ ws /\ seq' \in {seq, sess} \ {NoSession}
  BY DEF ResumeLive, disk, batch, reads, ghosts
<1>b. /\ seq' \in 0..sent /\ seq' <= seq /\ sess <= seq' /\ sess <= seq
  BY <1>a, Numbers DEF IInv, Phase
<1>c. /\ Mail' = Mail /\ Posted' = Posted /\ Marks' = Marks /\ ~Replaying /\ ~Replaying'
      /\ \A n \in Mail : n \in Message /\ n \in Nat /\ (n <= seq' => n <= seq)
  BY <1>a, <1>b, Numbers, Constants DEF Mail, Posted, Marks, Replaying
<1>d. \A n \in Mail : Covered(n) => Covered(n)'
  BY <1>a DEF Covered, Done
<1>1. Typed'
  <2>1. (Marks \subseteq Posted /\ queue \cup inflight \subseteq Mentions
         /\ dropped \cap Mentions = {})'
    BY <1>a, <1>c DEF IInv, Typed
  <2>2. Sound(file)' /\ Sound(markers)'
    BY <1>a DEF IInv, Typed, Sound
  <2> QED BY <1>a, <1>b, <2>1, <2>2 DEF IInv, Typed
<1>2. Phase'
  BY <1>a, <1>b DEF IInv, Phase
<1>3. Linked'
  BY <1>a DEF IInv, Linked
<1>4. Durable'
  BY <1>a, <1>c DEF IInv, Durable, Done
<1>5. Heard'
  BY <1>a, <1>c, <1>d DEF IInv, Heard
<1>6. Ahead'
  BY <1>a, <1>c, <1>d DEF IInv, Ahead
<1>7. Flows'
  BY <1>a, <1>c, <1>d DEF IInv, Flows
<1>8. Windows'
  BY <1>a, <1>c, <1>d DEF IInv, Windows
<1> QED BY <1>1, <1>2, <1>3, <1>4, <1>5, <1>6, <1>7, <1>8 DEF IInv

(* A session begun in the middle of a read hides only what is excused.     *)
LEMMA IdentifyLiveKeeps ==
  ASSUME IInv, IdentifyLive
  PROVE  IInv'
<1>a. /\ UNCHANGED <<sent, settled, file, markers, queue, inflight, staged, dropped, held,
                     pending, after, cache, todo>>
      /\ pc \in {"live", "resumeLive"} /\ pc' = "live" /\ ws' = TRUE /\ ws
      /\ seq' = sent /\ sess' = sent
  BY DEF IInv, Phase, IdentifyLive, NewSession, batch, reads
<1>b. /\ why' \in [Message -> Reasons] /\ \A n \in Message : Done(n) => Done(n)'
      /\ \A n \in Mail : n \in Unanchored(markers) \ InHand => Done(n)'
      /\ \A n \in Mail : n \notin InHand /\ n > seq => Done(n)'
  BY <1>a, Constants DEF IInv, Typed, IdentifyLive, Lost, Reasons, Done, Mail
<1>c. /\ Mail' = Mail /\ Posted' = Posted /\ Marks' = Marks /\ ~Replaying /\ ~Replaying'
      /\ \A n \in Mail : n \in Message /\ n \in Nat /\ n <= sent /\ ~(sent < n)
                         /\ (n <= seq \/ n > seq)
  BY <1>a, Numbers, Constants DEF Mail, Posted, Marks, Replaying
<1>d. \A n \in Mail : Covered(n) => Covered(n)'
  BY <1>a, <1>b, <1>c DEF Covered
<1>e. \A n \in Mail : Place[n] \in Loose(markers) => Covered(n)'
  BY <1>a, <1>b, <1>c, LooseUnanchored DEF Covered, Done, InHand
<1>1. Typed'
  <2>1. (Marks \subseteq Posted /\ queue \cup inflight \subseteq Mentions
         /\ dropped \cap Mentions = {})'
    BY <1>a, <1>c DEF IInv, Typed
  <2>2. Sound(file)' /\ Sound(markers)'
    BY <1>a DEF IInv, Typed, Sound
  <2> QED BY <1>a, <1>b, Numbers, <2>1, <2>2 DEF IInv, Typed
<1>2. Phase'
  <2>1. ws' => sess' <= seq'
    BY <1>a, Numbers
  <2> QED BY <1>a, <2>1, Numbers, Constants DEF IInv, Phase
<1>3. Linked'
  BY <1>a DEF IInv, Linked
<1>4. Durable'
  <2> SUFFICES ASSUME NEW n \in Mail, ~Done(n)', ~Reaches(file, n)
               PROVE  Place[n] \in Loose(file) /\ n \in queue \cup inflight
    BY <1>a, <1>c DEF Durable
  <2>1. Place[n] \in Loose(markers) /\ Place[n] \in Loose(file)
    BY <1>b, <1>c DEF IInv, Linked, Durable
  <2> QED BY <1>a, <1>e, <2>1 DEF Covered
<1>5. Heard'
  BY <1>a, <1>c DEF Heard
<1>6. Ahead'
  BY <1>a, <1>c, <1>d DEF IInv, Ahead
<1>7. Flows'
  <2>1. \A n \in Mail : n > seq => Covered(n)'
    BY <1>a, <1>b DEF Covered, InHand
  <2>2. \A n \in Mail : n <= seq /\ Place[n] \notin pending => Covered(n)'
    BY <1>a, <1>d DEF IInv, Flows
  <2> QED BY <1>a, <1>c, <2>1, <2>2 DEF Flows
<1>8. Windows'
  BY <1>a, <1>c, <1>d DEF IInv, Windows
<1> QED BY <1>1, <1>2, <1>3, <1>4, <1>5, <1>6, <1>7, <1>8 DEF IInv

(* A gateway that fails changes nothing on disk.                           *)
LEMMA GatewayFailsKeeps ==
  ASSUME IInv, GatewayFails
  PROVE  IInv'
<1>1. Typed'
  BY Constants DEF IInv, Typed, Sound, Posted, Marks, Message, Reasons,
     GatewayFails, Fault, disk, gateway, batch, reads
<1>2. Phase'
  BY Constants DEF IInv, Phase, Typed, GatewayFails, Fault, disk, gateway,
     batch, reads
<1>3. Linked'
  BY Constants DEF IInv, Linked, GatewayFails, Fault, disk, gateway, batch,
     reads
<1>4. Durable'
  BY Constants DEF IInv, Durable, Done, Typed, Mail, Posted, GatewayFails,
     Fault, disk, gateway, batch, reads
<1>5. Heard'
  BY Constants DEF IInv, Heard, Typed, Phase, Mail, Posted, Covered, Done,
     GatewayFails, Fault, disk, gateway, batch, reads
<1>6. Ahead'
  BY Constants DEF IInv, Ahead, Typed, Phase, Mail, Posted, Marks, Replaying,
     Covered, Done, GatewayFails, Fault, disk, gateway, batch, reads
<1>7. Flows'
  BY Constants DEF IInv, Flows, Typed, Phase, Mail, Posted, Covered, Done,
     GatewayFails, Fault, disk, gateway, batch, reads
<1>8. Windows'
  BY Constants DEF IInv, Windows, Typed, Mail, Posted, Covered, Done,
     GatewayFails, Fault, disk, gateway, batch, reads
<1> QED BY <1>1, <1>2, <1>3, <1>4, <1>5, <1>6, <1>7, <1>8 DEF IInv

(* The queue becomes the batch, and the session is saved.                  *)
LEMMA PollEndsKeeps ==
  ASSUME IInv, PollEnds
  PROVE  IInv'
<1>a. /\ UNCHANGED <<sent, settled, file, ws, seq, markers, staged, dropped, held, pending, after,
                     cache, todo, why>>
      /\ pc = "live" /\ pc' = "handle" /\ inflight = {} /\ inflight' = queue /\ queue' = {}
      /\ sess' = IF sess # NoSession THEN seq ELSE sess
  BY DEF IInv, Phase, PollEnds, Hand, gateway, reads, ghosts
<1>b. /\ sess' \in NoSession..sent /\ sess' <= seq
      /\ sess' # NoSession => sess' = seq /\ sess # NoSession
  <2>1. sess \in NoSession..sent /\ seq \in NoSession..sent
    BY Numbers, Constants DEF IInv
  <2> QED BY <1>a, <2>1, Numbers, Constants
<1>c. /\ Mail' = Mail /\ Posted' = Posted /\ Marks' = Marks /\ ~Replaying /\ ~Replaying'
      /\ queue' \cup inflight' = queue \cup inflight
      /\ \A n \in Mail : n \in Message /\ n \in Nat /\ (n <= seq \/ n > seq)
                         /\ ~(seq < n /\ n <= seq)
  BY <1>a, Numbers, Constants DEF Mail, Posted, Marks, Replaying
<1>d. \A n \in Mail : Covered(n) => Covered(n)'
  BY <1>a, <1>c DEF Covered, Done
<1>1. Typed'
  <2>1. (Marks \subseteq Posted /\ queue \cup inflight \subseteq Mentions
         /\ dropped \cap Mentions = {})'
    BY <1>a, <1>c DEF IInv, Typed
  <2>2. Sound(file)' /\ Sound(markers)'
    BY <1>a DEF IInv, Typed, Sound
  <2> QED BY <1>a, <1>b, <2>1, <2>2 DEF IInv, Typed
<1>2. Phase'
  BY <1>a, <1>b DEF IInv, Phase
<1>3. Linked'
  BY <1>a DEF IInv, Linked
<1>4. Durable'
  <2> SUFFICES ASSUME NEW n \in Mail, ~Done(n), ~Reaches(file, n)
               PROVE  /\ Place[n] \in Loose(file)
                      /\ n \in queue \cup inflight \/ (sess' # NoSession /\ n > sess')
    BY <1>a, <1>c DEF Durable, Done
  <2>1. /\ Place[n] \in Loose(markers) /\ Place[n] \in Loose(file)
        /\ n \in queue \cup inflight \/ (sess # NoSession /\ n > sess)
    BY DEF IInv, Linked, Durable
  <2>2. n \in queue \cup inflight \/ n > seq
    BY <1>c, <2>1, LooseHeard DEF Covered
  <2>3. sess # NoSession => sess' = seq /\ seq # NoSession
    BY <1>a, Numbers, Constants
  <2> QED BY <1>b, <2>1, <2>2, <2>3
<1>5. Heard'
  BY <1>a, <1>b, <1>c DEF Heard
<1>6. Ahead'
  <2>1. \A n \in Mail : Place[n] \in Loose(markers) \/ Place[n] \notin pending =>
          \A k \in Marks : k >= n /\ Place[k] = Place[n] => Covered(n)
    BY <1>c DEF IInv, Ahead
  <2> QED BY <1>a, <1>c, <1>d, <2>1 DEF Ahead
<1>7. Flows'
  BY <1>a, <1>c, <1>d DEF IInv, Flows
<1>8. Windows'
  BY <1>a, <1>c, <1>d DEF IInv, Windows
<1> QED BY <1>1, <1>2, <1>3, <1>4, <1>5, <1>6, <1>7, <1>8 DEF IInv

(* A fetch that raises leaves everything as it was.                        *)
LEMMA PollRaisesKeeps ==
  ASSUME IInv, PollRaises
  PROVE  IInv'
<1>1. Typed'
  BY Constants DEF IInv, Typed, Sound, Posted, Marks, Message, Reasons,
     PollRaises, Fault, disk, gateway, batch, reads
<1>2. Phase'
  BY Constants DEF IInv, Phase, Typed, PollRaises, Fault, disk, gateway,
     batch, reads
<1>3. Linked'
  BY Constants DEF IInv, Linked, PollRaises, Fault, disk, gateway, batch,
     reads
<1>4. Durable'
  BY Constants DEF IInv, Durable, Done, Typed, Mail, Posted, PollRaises,
     Fault, disk, gateway, batch, reads
<1>5. Heard'
  BY Constants DEF IInv, Heard, Typed, Phase, Mail, Posted, Covered, Done,
     PollRaises, Fault, disk, gateway, batch, reads
<1>6. Ahead'
  BY Constants DEF IInv, Ahead, Typed, Phase, Mail, Posted, Marks, Replaying,
     Covered, Done, PollRaises, Fault, disk, gateway, batch, reads
<1>7. Flows'
  BY Constants DEF IInv, Flows, Typed, Phase, Mail, Posted, Covered, Done,
     PollRaises, Fault, disk, gateway, batch, reads
<1>8. Windows'
  BY Constants DEF IInv, Windows, Typed, Mail, Posted, Covered, Done,
     PollRaises, Fault, disk, gateway, batch, reads
<1> QED BY <1>1, <1>2, <1>3, <1>4, <1>5, <1>6, <1>7, <1>8 DEF IInv

(* What is handled is settled.                                             *)
LEMMA HandleKeeps ==
  ASSUME IInv, NEW some \in SUBSET inflight, Handle(some)
  PROVE  IInv'
<1>a. /\ UNCHANGED <<sent, file, sess, ws, seq, markers, queue, inflight, dropped, held, pending,
                     after, cache, todo, why>>
      /\ settled' = settled \cup some /\ staged' = staged \cup some
      /\ pc = "handle" /\ \/ some = inflight /\ pc' = "confirm"
                          \/ pc' = "fetch"
  BY DEF Handle, gateway, reads
<1>b. /\ Mail' = Mail /\ Posted' = Posted /\ Marks' = Marks /\ ~Replaying
      /\ \A n \in Mail : Covered(n) => Covered(n)'
  BY <1>a DEF Mail, Posted, Marks, Replaying, Covered, Done
<1>1. Typed'
  BY Constants DEF IInv, Typed, Sound, Posted, Marks, Message, Reasons,
     Handle, Fault, disk, gateway, batch, reads
<1>2. Phase'
  BY Constants DEF IInv, Phase, Typed, Handle, Fault, disk, gateway, batch,
     reads
<1>3. Linked'
  BY Constants DEF IInv, Linked, Handle, Fault, disk, gateway, batch, reads
<1>4. Durable'
  BY Constants DEF IInv, Durable, Done, Typed, Mail, Posted, Handle, Fault,
     disk, gateway, batch, reads
<1>5. Heard'
  BY Constants DEF IInv, Heard, Typed, Phase, Mail, Posted, Covered, Done,
     Handle, Fault, disk, gateway, batch, reads
<1>6. Ahead'
  <2>1. \A n \in Mail : Place[n] \in Loose(markers) \/ Place[n] \notin pending =>
          \A k \in Marks : k >= n /\ Place[k] = Place[n] => Covered(n)
    BY <1>b DEF IInv, Ahead
  <2> QED BY <1>a, <1>b, <2>1 DEF Ahead
<1>7. Flows'
  BY Constants DEF IInv, Flows, Typed, Phase, Mail, Posted, Covered, Done,
     Handle, Fault, disk, gateway, batch, reads
<1>8. Windows'
  BY Constants DEF IInv, Windows, Typed, Mail, Posted, Covered, Done, Handle,
     Fault, disk, gateway, batch, reads
<1> QED BY <1>1, <1>2, <1>3, <1>4, <1>5, <1>6, <1>7, <1>8 DEF IInv

(* A marker passes only what is settled or excused.                        *)
LEMMA ConfirmKeeps ==
  ASSUME IInv, Confirm
  PROVE  IInv'
<1> DEFINE marks == held \cup staged \cup dropped
           free == Free(marks)
           moved == [markers EXCEPT
                       !.at = [p \in Places |-> Highest({m \in free : Place[m] = p}, @[p])],
                       !.tracked = @ \cup ({Place[m] : m \in free} \cap Threads)]
<1>k. PICK kept \in MostRecent(moved) : markers' = Capped(moved, kept)
  BY DEF Confirm
<1>a. /\ UNCHANGED <<sent, settled, sess, ws, seq, queue, pending, after, cache, todo>>
      /\ pc = "confirm" /\ pc' = "fetch" /\ file' = markers' /\ held' = marks \ free
      /\ staged' = {} /\ dropped' = {} /\ inflight' = {}
  BY DEF Confirm, gateway, reads
<1>b. /\ why' \in [Message -> Reasons] /\ \A n \in Message : Done(n) => Done(n)'
      /\ \A n \in Message : n \in Unanchored(markers') /\ Place[n] \in markers.tracked => Done(n)'
  BY <1>a DEF IInv, Typed, Confirm, Blame, Reasons, Done
<1>c. /\ Mail' = Mail /\ Posted' = Posted /\ free \subseteq Marks /\ Marks' \subseteq Marks \ free
      /\ queue = {} /\ inflight \subseteq settled /\ ~Replaying
      /\ \A n \in Marks' : Place[n] \in pending
      /\ \A n \in Mail : n \in Message /\ n \in Nat /\ 0 < n /\ n <= NumMsgs /\ Place[n] \in Places
                         /\ n \in Mentions /\ n \in Posted
      /\ \A n \in free : n \in Message /\ n \in Nat /\ n <= sent /\ Place[n] \notin pending
      /\ Marks \subseteq Posted
  <2>1. /\ Mail' = Mail /\ Posted' = Posted /\ queue = {} /\ inflight \subseteq settled
        /\ ~Replaying
        /\ Marks \subseteq Posted
    BY <1>a DEF IInv, Typed, Phase, Mail, Posted, Replaying
  <2>2. free \subseteq Marks /\ \A n \in free : Place[n] \notin pending
    BY DEF Free, Marks
  <2>3. Marks' = marks \ free /\ marks \subseteq Marks
    BY <1>a, <2>1 DEF Marks
  <2>4. \A n \in marks \ free : Place[n] \in pending
    BY DEF Free
  <2>5. \A n \in Posted : n \in Message /\ n \in Nat /\ 0 < n /\ n <= sent /\ n <= NumMsgs
    BY Numbers, Constants DEF Posted, Message
  <2> HIDE DEF marks, free
  <2> QED BY <2>1, <2>2, <2>3, <2>4, <2>5, Constants DEF Mail
<1>d. \A n \in Mail : Covered(n) => Done(n) /\ Covered(n)'
  BY <1>a, <1>b, <1>c DEF Covered, Done
<1>e. \A n \in free, x \in Mail : x <= n /\ Place[x] = Place[n] => Done(x)
  <2> SUFFICES ASSUME NEW n \in free, NEW x \in Mail, x <= n, Place[x] = Place[n] PROVE Done(x)
    OBVIOUS
  <2>1. n >= x /\ n \in Marks /\ Place[x] \notin pending
    BY <1>c
  <2>2. Covered(x)
    BY <1>c, <2>1 DEF IInv, Ahead
  <2> QED BY <1>d, <2>2
<1>f. /\ markers'.floor = markers.floor /\ markers' \in Markers
      /\ markers'.tracked = kept /\ kept \subseteq markers.tracked \cup {Place[m] : m \in free}
      /\ kept \subseteq Threads /\ markers \in Markers
      /\ \A p \in Places : /\ markers'.at[p] <= sent /\ markers'.at[p] \in Nat
                           /\ p \in Channels \cup kept =>
                                \/ markers'.at[p] = markers.at[p]
                                \/ markers'.at[p] \in free /\ Place[markers'.at[p]] = p
                           /\ p \notin Channels \cup kept => markers'.at[p] = 0
  <2> DEFINE h == [p \in Places |-> Highest({m \in free : Place[m] = p}, markers.at[p])]
             all == markers.tracked \cup ({Place[m] : m \in free} \cap Threads)
             a == [p \in Places |-> IF p \in Channels \cup kept THEN h[p] ELSE 0]
  <2>1. markers \in Markers /\ \A p \in Places : markers.at[p] \in Nat /\ markers.at[p] <= sent
    BY Numbers DEF IInv, Typed, Sound, Markers
  <2>2. moved.at = h /\ moved.tracked = all /\ moved.floor = markers.floor
    BY <2>1
  <2>3. moved = [[markers EXCEPT !.at = h] EXCEPT !.tracked = all]
    BY <2>1
  <2>4. ASSUME NEW p \in Places
        PROVE  /\ h[p] \in {m \in free : Place[m] = p} \cup {markers.at[p]}
               /\ h[p] \in Nat /\ h[p] <= sent /\ h[p] <= NumMsgs
    <3>1. {m \in free : Place[m] = p} \in SUBSET Message
      BY <1>c
    <3>2. h[p] \in {m \in free : Place[m] = p} \cup {markers.at[p]} /\ h[p] \in Nat
      <4> HIDE DEF free
      <4> QED BY <2>1, <3>1, HighestIs
    <3> HIDE DEF h, free
    <3>3. h[p] <= sent
      BY <1>c, <2>1, <3>2
    <3> QED BY <3>2, <3>3, Numbers, Constants
  <2>5. h \in [Places -> 0..NumMsgs]
    <3>1. ASSUME NEW p \in Places PROVE h[p] \in 0..NumMsgs
      <4> HIDE DEF h
      <4> QED BY <2>4, Constants
    <3> QED BY <3>1
  <2>6. all \subseteq Threads /\ kept \subseteq all
    BY <1>k, <2>1, <2>2 DEF MostRecent, Markers
  <2> HIDE DEF h, all, moved
  <2>7. a \in [Places -> 0..NumMsgs]
    BY <2>5, Constants
  <2>8. markers' = [[moved EXCEPT !.tracked = kept] EXCEPT !.at = a]
    BY <1>k, <2>1, <2>2, <2>3 DEF Capped
  <2> HIDE DEF a
  <2>9. markers' \in Markers /\ markers'.at = a /\ markers'.tracked = kept
        /\ markers'.floor = markers.floor
    <3>1. \A k \in Markers : /\ \A S \in SUBSET Threads : [k EXCEPT !.tracked = S] \in Markers
                             /\ \A g \in [Places -> 0..NumMsgs] : [k EXCEPT !.at = g] \in Markers
      BY DEF Markers
    <3>2. moved \in Markers
      BY <2>1, <2>3, <2>5, <2>6, <3>1
    <3>3. markers' \in Markers
      BY <2>6, <2>7, <2>8, <3>1, <3>2
    <3> QED BY <2>2, <2>6, <2>7, <2>8, <3>2, <3>3 DEF Markers
  <2>10. ASSUME NEW p \in Places
         PROVE  a[p] = IF p \in Channels \cup kept THEN h[p] ELSE 0
    BY DEF a
  <2>11. kept \subseteq markers.tracked \cup {Place[m] : m \in free} /\ kept \subseteq Threads
    BY <2>6 DEF all
  <2> HIDE DEF free
  <2> QED BY <2>1, <2>4, <2>9, <2>10, <2>11, Numbers
<1> HIDE DEF marks, free, moved
<1>g. \A n \in Mail : Place[n] \in Channels \cup kept /\ (n > markers.at[Place[n]])
                        => Done(n) \/ n > markers'.at[Place[n]]
  BY <1>c, <1>e, <1>f
<1>h. \A n \in Mail : Place[n] \in Loose(markers') /\ Place[n] \notin Loose(markers) => Done(n)'
  <2> SUFFICES ASSUME NEW n \in Mail, Place[n] \in Loose(markers'), Place[n] \notin Loose(markers),
                      n \notin settled
               PROVE  Done(n)'
    BY <1>a DEF Done
  <2>1. Place[n] \in markers.tracked /\ Place[n] \in Loose(markers')
    BY <1>f DEF Loose
  <2>2. n \in Unanchored(markers')
    BY <2>1, LooseUnanchored
  <2> QED BY <1>b, <1>c, <2>1, <2>2
<1>1. Typed'
  <2>1. (Marks \subseteq Posted /\ queue \cup inflight \subseteq Mentions
         /\ dropped \cap Mentions = {})'
    BY <1>a, <1>c
  <2>2. \A t \in Threads : (markers.floor[t] # NoFloor => markers.floor[t] <= sent)
    BY DEF IInv, Typed, Sound
  <2>3. Sound(markers)'
    BY <1>a, <1>f, <2>2, Constants DEF Sound
  <2>4. Sound(file)'
    BY <1>a, <2>3
  <2> QED BY <1>a, <1>b, <2>1, <2>3, <2>4 DEF IInv, Typed
<1>2. Phase'
  BY <1>a, <1>c DEF IInv, Phase
<1>3. Linked'
  BY <1>a DEF Linked
<1>4. Durable'
  <2> SUFFICES ASSUME NEW n \in Mail, ~Done(n)'
               PROVE  \/ Reaches(markers', n)
                      \/ Place[n] \in Loose(markers') /\ sess # NoSession /\ n > sess
    BY <1>a, <1>c DEF Durable
  <2>1. ~Done(n) /\ n \in Mail \ settled
    BY <1>a, <1>b, <1>c DEF Done
  <2>2. \/ Reaches(markers, n)
        \/ Place[n] \in Loose(markers) /\ sess # NoSession /\ n > sess
    BY <1>c, <2>1 DEF IInv, Linked, Durable
  <2>3. CASE Place[n] \in Channels \cup kept
    <3>1. n > markers.at[Place[n]] \/ Place[n] \notin Channels \cup markers.tracked
      BY <1>c, <2>2, Constants DEF Reaches, Loose
    <3>2. Place[n] \notin Channels \cup markers.tracked => n > markers.at[Place[n]]
      BY <1>c, <1>f, <2>3 DEF IInv, Typed, Sound
    <3> QED BY <1>f, <1>g, <2>1, <2>3, <3>1, <3>2 DEF Reaches
  <2>4. CASE Place[n] \notin Channels \cup kept
    <3>1. Place[n] \in Threads /\ Place[n] \notin Channels
      BY <1>c, <2>4, Constants
    <3>2. CASE Place[n] \in markers.tracked
      <4>1. n \notin Unanchored(markers')
        BY <1>b, <1>c, <3>2
      <4>2. ~(markers'.floor[Place[n]] >= n)
        BY <1>c, <1>f, <2>1, <2>4, <3>1, <4>1 DEF Unanchored
      <4>3. markers'.floor[Place[n]] \in Nat /\ n \in Nat
        BY <1>c, <1>f, <3>1, Constants DEF Markers
      <4> QED BY <1>f, <2>4, <4>2, <4>3 DEF Reaches
    <3>3. CASE Place[n] \notin markers.tracked
      <4>1. Reaches(markers, n) => Reaches(markers', n)
        BY <1>f, <2>4, <3>3 DEF Reaches
      <4>2. Place[n] \in Loose(markers) => Place[n] \in Loose(markers')
        BY <1>f, <2>4 DEF Loose
      <4> QED BY <2>2, <4>1, <4>2
    <3> QED BY <3>2, <3>3
  <2> QED BY <2>3, <2>4
<1>5. Heard'
  <2>1. \A n \in Mail : Done(n)' => Covered(n)'
    BY DEF Covered
  <2> QED BY <1>a, <1>c, <1>d, <1>h, <2>1 DEF IInv, Heard
<1>6. Ahead'
  <2>1. \A n \in Mail : Done(n)' => Covered(n)'
    BY DEF Covered
  <2> SUFFICES ASSUME NEW x \in Mail, NEW n \in Marks', n >= x, Place[n] = Place[x],
                      Place[x] \in Loose(markers')
               PROVE  Covered(x)'
    BY <1>a, <1>c DEF Ahead
  <2>2. n \in Marks
    BY <1>c
  <2> QED BY <1>d, <1>h, <2>1, <2>2 DEF IInv, Ahead
<1>7. Flows'
  BY <1>a, <1>c, <1>d DEF IInv, Flows
<1>8. Windows'
  BY <1>a, <1>c, <1>d DEF IInv, Windows
<1> QED BY <1>1, <1>2, <1>3, <1>4, <1>5, <1>6, <1>7, <1>8 DEF IInv

(* A step that changes nothing keeps everything.                           *)
LEMMA StutterKeeps ==
  ASSUME IInv, UNCHANGED vars
  PROVE  IInv'
<1>1. Typed'
  BY Constants DEF IInv, Typed, Sound, Posted, Marks, Message, Reasons, vars,
     disk, gateway, batch, reads, ghosts
<1>2. Phase'
  BY Constants DEF IInv, Phase, Typed, vars, disk, gateway, batch, reads
<1>3. Linked'
  BY Constants DEF IInv, Linked, vars, disk, gateway, batch, reads
<1>4. Durable'
  BY Constants DEF IInv, Durable, Done, Typed, Mail, Posted, vars, disk,
     gateway, batch, reads, ghosts
<1>5. Heard'
  BY Constants DEF IInv, Heard, Typed, Phase, Mail, Posted, Covered, Done,
     vars, disk, gateway, batch, reads, ghosts
<1>6. Ahead'
  BY Constants DEF IInv, Ahead, Typed, Phase, Mail, Posted, Marks, Replaying,
     Covered, Done, vars, disk, gateway, batch, reads, ghosts
<1>7. Flows'
  BY Constants DEF IInv, Flows, Typed, Phase, Mail, Posted, Covered, Done,
     vars, disk, gateway, batch, reads, ghosts
<1>8. Windows'
  BY Constants DEF IInv, Windows, Typed, Mail, Posted, Covered, Done, vars,
     disk, gateway, batch, reads, ghosts
<1> QED BY <1>1, <1>2, <1>3, <1>4, <1>5, <1>6, <1>7, <1>8 DEF IInv

(* At the start nothing is posted.                                         *)
LEMMA InitKeeps == Init => IInv
<1> SUFFICES ASSUME Init PROVE IInv
  OBVIOUS
<1>1. Posted = {} /\ Mail = {} /\ Marks = {}
  <2>1. sent = 0 /\ queue = {} /\ dropped = {} /\ held = {} /\ staged = {} /\ inflight = {}
    BY DEF Init
  <2>2. Posted = {}
    BY <2>1 DEF Posted
  <2> QED BY <2>1, <2>2 DEF Mail, Marks
<1>2. Typed
  <2>0. sent = 0 /\ sess = NoSession
    BY DEF Init
  <2>1. 0 \in 0..sent /\ sess \in NoSession..sent /\ sent \in 0..NumMsgs
    BY <2>0, Constants
  <2>2. /\ file.at = [p \in Places |-> 0] /\ file.tracked = {}
        /\ file.floor = [t \in Threads |-> NoFloor] /\ markers = file /\ sent = 0
    BY DEF Init
  <2>3. file \in Markers
    <3>1. [p \in Places |-> 0] \in [Places -> 0..NumMsgs]
      BY Constants
    <3>2. [t \in Threads |-> NoFloor] \in [Threads -> 0..NumMsgs]
      BY Constants
    <3> QED BY <3>1, <3>2 DEF Init, Markers
  <2>4. Sound(file) /\ Sound(markers)
    <3>1. /\ \A p \in Places : file.at[p] = 0
          /\ \A t \in Threads : file.floor[t] = NoFloor /\ file.at[t] = 0
      BY <2>2, Constants
    <3> QED BY <2>2, <2>3, <3>1 DEF Sound
  <2> QED BY <1>1, <2>1, <2>4 DEF Init, Typed, Reasons
<1>3. Phase /\ Linked
  BY DEF Init, Phase, Linked
<1>4. Durable /\ Heard /\ Ahead /\ Flows /\ Windows
  BY <1>1 DEF Durable, Heard, Ahead, Flows, Windows
<1> QED BY <1>2, <1>3, <1>4 DEF IInv

(* Every step keeps the invariant.                                         *)
LEMMA NextKeeps == IInv /\ [Next]_vars => IInv'
<1> SUFFICES ASSUME IInv, [Next]_vars PROVE IInv'
  OBVIOUS
<1>1. CASE Bridge
  BY <1>1, StartKeeps, FetchBeginKeeps, ResumeKeeps, ResumedKeeps, IdentifyKeeps, ReadPlaceKeeps,
     ReadsDoneKeeps, ResumeLiveKeeps, IdentifyLiveKeeps, PollEndsKeeps, PollRaisesKeeps,
     HandleKeeps, ConfirmKeeps
  DEF Bridge
<1>2. CASE Broken
  BY <1>2, DieKeeps, HeartbeatExpiredKeeps, ConnectFailsKeeps, ReadFailsKeeps, UnresolvedKeeps,
     ControlKeeps, GatewayFailsKeeps
  DEF Broken
<1> QED BY <1>1, <1>2, PostKeeps, EventKeeps, StutterKeeps DEF Next

(* The invariant holds whatever fails, whenever.                           *)
THEOREM DiscordInvariant == Spec => []IInv
BY InitKeeps, NextKeeps, PTL DEF Spec

(* No mention is lost, but for those the code can miss.                    *)
THEOREM DiscordNothingLost == Spec => []NothingLost
<1>1. IInv => NothingLost
  BY DEF IInv, Durable, Done, Mail, InHand, NothingLost, Kept
<1> QED BY <1>1, DiscordInvariant, PTL

(* What else the types need.                                               *)
Others ==
  /\ settled \subseteq Mentions /\ staged \subseteq Mentions /\ cache \subseteq Threads
  /\ pc \in Steps /\ control \in {"none", "resume", "identify"}
  /\ deferred \in BOOLEAN /\ faults \in 0..MaxFaults

(* The rest of the variables keep their types step by step.                *)
LEMMA OthersKeep == IInv /\ Others /\ [Next]_vars => Others'
<1> SUFFICES ASSUME IInv, Others, [Next]_vars PROVE Others'
  OBVIOUS
<1> USE DEF Others, Steps
<1>a. queue \subseteq Mentions /\ inflight \subseteq Mentions
  BY DEF IInv, Typed
<1>f. Fault => faults' \in 0..MaxFaults
  BY DiscordAssumption DEF Fault, DiscordAssumption
<1>1. CASE Post
  BY <1>1 DEF Post, disk, gateway, batch, reads
<1>2. CASE Start
  BY <1>2 DEF Start, disk, gateway, batch, reads, ghosts
<1>3. CASE Die
  BY <1>3, <1>f DEF Die, disk
<1>4. CASE FetchBegin
  BY <1>4 DEF FetchBegin, CatchUp, disk, gateway, ghosts
<1>5. CASE HeartbeatExpired
  BY <1>5, <1>f DEF HeartbeatExpired, disk, batch, reads
<1>6. CASE Resume
  BY <1>6 DEF Resume, disk, batch, reads, ghosts
<1>7. CASE Resumed
  BY <1>7 DEF Resumed, CatchUp, gateway, batch, ghosts
<1>8. CASE Identify
  BY <1>8 DEF Identify, NewSession, CatchUp, batch
<1>9. CASE ConnectFails
  BY <1>9, <1>f DEF ConnectFails, Hand, reads
<1>10. CASE \E p \in Places : ReadPlace(p)
  BY <1>10 DEF ReadPlace, disk, gateway
<1>11. CASE \E p \in Places : ReadFails(p)
  BY <1>11, <1>f DEF ReadFails, disk
<1>12. CASE ReadsDone
  BY <1>12 DEF ReadsDone, disk, gateway, batch, reads, ghosts
<1>13. CASE Event
  BY <1>13 DEF Event, disk
<1>14. CASE Unresolved
  BY <1>14, <1>f DEF Unresolved, batch
<1>15. CASE Control
  BY <1>15, <1>f DEF Control, batch, reads
<1>16. CASE ResumeLive
  BY <1>16 DEF ResumeLive, disk, batch, reads, ghosts
<1>17. CASE IdentifyLive
  BY <1>17 DEF IdentifyLive, NewSession, batch, reads
<1>18. CASE GatewayFails
  BY <1>18, <1>f DEF GatewayFails, disk, batch, reads
<1>19. CASE PollEnds
  BY <1>19 DEF PollEnds, Hand, reads, ghosts, gateway
<1>20. CASE PollRaises
  BY <1>20, <1>f DEF PollRaises, disk, gateway, batch, reads
<1>21. CASE \E some \in SUBSET inflight : Handle(some)
  BY <1>21, <1>a, <1>f DEF Handle, gateway, reads
<1>22. CASE Confirm
  BY <1>22 DEF Confirm, gateway, reads
<1>23. CASE UNCHANGED vars
  BY <1>23 DEF vars, disk, gateway, batch, reads, ghosts
<1> QED
  BY <1>1, <1>2, <1>3, <1>4, <1>5, <1>6, <1>7, <1>8, <1>9, <1>10, <1>11, <1>12, <1>13, <1>14,
     <1>15, <1>16, <1>17, <1>18, <1>19, <1>20, <1>21, <1>22, <1>23
  DEF Next, Bridge, Broken

(* Every variable keeps its type.                                          *)
THEOREM DiscordTypes == Spec => []TypeOK
<1>1. Init => Others
  <2>1. Init => faults \in 0..MaxFaults
    <3>1. Init => faults = 0
      BY DEF Init
    <3> QED BY <3>1, DiscordAssumption DEF DiscordAssumption
  <2> QED BY <2>1 DEF Init, Others, Steps
<1>2. Spec => []Others
  BY <1>1, OthersKeep, DiscordInvariant, PTL DEF Spec
<1>3. IInv /\ Others => TypeOK
  <2> SUFFICES ASSUME IInv, Others PROVE TypeOK
    OBVIOUS
  <2>1. /\ Posted \subseteq Message /\ sess \in NoSession..NumMsgs /\ seq \in 0..NumMsgs
        /\ 0..sent \subseteq 0..NumMsgs
    BY Numbers, Constants DEF Posted, Message
  <2>2. after \in [Places -> 0..NumMsgs]
    BY <2>1 DEF IInv, Typed
  <2> QED BY <2>1, <2>2 DEF IInv, Typed, Phase, Sound, Marks, Others, TypeOK
<1> QED BY <1>2, <1>3, DiscordInvariant, PTL
=============================================================================
