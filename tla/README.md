# alb: models, checks and proofs

TLA+ modules of the agent letter bridge, kept beside its source. Paths are
those of the repository; the Python package is `src/alb/`.

alb carries messages between a chat platform and a coding agent's mailbox, a
directory of letters. It has no database and no server of its own. Its state is
files, its concurrency is *processes* - one or more bridges, any number of
commands, the agent, the operator - and its hard question is always the same:
what is true when one of them stops, or the power does, between two durable
writes while the others go on.

## 1. Inventory

### Components, their state and operations

| Component | State it keeps | Operations | What makes it correct |
|---|---|---|---|
| Poller `poller/loop.py` | `threads.json`, `state/health.json` | one cycle: gate, write, index, thread, acknowledge each update | acknowledge only what is durable or denied; flat threads; an honest heartbeat |
| Letter store `letter/store.py` | `inbox/`, `processed/`, `state/delivered.json` | publish once, find by update, resolve | one letter per update, whatever is redelivered |
| Run loop `bridge/run.py`, `cli.py` `_poll_forever` | the cycle in memory | cycle, ring, confirm, back off, stand down | ring before the platform forgets; nobody can wedge it |
| Telegram adapter `adapters/telegram/api.py` | `state/offset.json`, the acknowledged mark | fetch, ack, confirm, download, send, classify a failure | the saved offset never runs ahead; "refused" only when nothing was delivered |
| Slack adapter `adapters/slack/api.py` | the socket, a queue in memory with the envelopes still to be answered, `slack-markers.json` with the tracked threads | connect, catch up per conversation and thread, receive, stage, acknowledge, hold, confirm | an envelope is answered after its letter is durable; a marker never passes a mention that is not settled |
| Discord adapter `adapters/discord/api.py` | the gateway session, `discord-session.json`, `discord-markers.json` with tracked threads and floors | resume, identify, catch up per place, receive, hold, confirm | every mention is in a replay, above a marker or a floor, or settled |
| Media store `media/store.py` | staged and placed photos, ready markers | stage, promote, stage for sending | an advertised photo is there |
| Message index `msgindex.py` | `message-index.json` | record, look up | first writer wins |
| Allowlist `allowlist/gate.py` | `allowlist.json` | allows | consulted on the way in and out |
| Outbound store `outbound/store.py` | `outbox/`, `state/receipts/<id>/` | compose (the claim), record an event, reconcile at startup | a claim precedes a send; history is append-only |
| Reply path `send/reply.py` | `dead-letters/`, the resume lock | send, resume a throttled reply | one post; words as typed; an honest report |
| Initiated sends `initiate/` | reservations, budget and intent locks | admit, claim, cross, settle, repair | budget and queue hold; authority at the crossing; one post per intent |
| Grants `grant/store.py`, labels `initiate/destinations.py` | a payload and a ready marker per grant, one file per label | create and undo, limit, disable, bind, list, check | a grant is whole or not there; a label never leads nowhere; rivals refuse each other |
| Lock and stop requests `bridge/singleton.py`, `cli.py` `--stop` | the lock file with the run's generation, one request file | hold, request, honour, clear, probe | a request stops the run it was made for and no other; "stopped" is so |
| Watchdog `watchdog/health.py` | nothing; reads `state/health.json` | verdict | never restarts a bridge that works, waits or stood down |
| Setup wizards `setup/` | `bridge.env`, the first `allowlist.json`, the token files | ask, write or keep, append, add the ring, offer a bridge | takes nothing back; one route; what it says it has set up is in the files |
| Notifiers, doctor, canary, registry, retrieval, media intake, websocket | a file each or none | - | I/O and wording |

### How they interact

- The platform hands messages to an *adapter*; the *poller* turns each into a
  letter (*gate*, *media*, *letter store*, *index*); the *run loop* rings the
  agent and has the adapter confirm. All of it runs under one lock, but the
  Telegram adapter reads its offset *before* it takes it.
- The three adapters differ in who remembers. Telegram keeps an update until the
  offset passes it. Slack repeats an envelope for a while and keeps history.
  Discord repeats nothing outside a resumed session and keeps history. So on Slack and
  Discord the bridge itself has to know how far it has read, per conversation.
- The agent moves letters from `inbox/` to `processed/` under nobody's lock.
- A reply is a process of its own: it claims (`outbox/`), records receipts,
  posts. The *bridge* reads the same receipts once, when it rises.
- An initiated send does the same under two locks, with a reservation whose
  status has to agree with the receipts it cannot be written together with. The
  grant it relies on is written by other commands under no lock.
- `--stop` signals nobody: it names a generation in a file, and takes the
  bridge's own lock for a moment to see whether the run has ended. The watchdog
  only reads what the loop last wrote.
- Setup writes the files all of the above read at their start.

### What is hard

Death between two writes (everywhere); power failure, which undoes what was not
fsynced; redelivery; two bridges on one directory; two commands on one reply;
a bridge rising in the middle of a send; an answer of the platform that is lost;
a socket that breaks with a page of history half read; a session that cannot be
resumed; a thread nobody knows the parent of; commands finished hours later
under other words, another allowlist or another grant; a grant limited while it
is disabled; a `--stop` that overlaps another, or a new run; a budget counted
from files; a setup that finds half of what it would have written. `PROJECT.json`
lists them line by line, with the properties that are about each.

## 2. Modules

| Module | Models | Extends or uses |
|---|---|---|
| `Mailbox` | what the inbound half promises, with no mechanism | - |
| `Delivery` | what the outbound half promises of one message, with no mechanism | - |
| `Inbound` | poller, letter store, run loop, receiving half of Telegram, media intake, index, gate | refines `Mailbox` (`Promise`) |
| `Slack` | receiving half of Slack under the same cycle | - |
| `Discord` | receiving half of Discord under the same cycle | - |
| `Receipts` | the delivery events of an outbound letter and `reconcile` | - |
| `Reply` | `send_reply`, `resume_throttled`, `reconcile_at_startup`, the command around them | `Receipts`; refines `Delivery` (`OneDelivery`) |
| `Initiate` | `send_initiated`, budget, reservations, claim, `reconcile_at_startup` | `Receipts`; each intent refines `Delivery` (`OneDelivery(i)`) |
| `Grant` | publication, limits, disabling, labels and the check of a grant | - |
| `Lifecycle` | lock, generation, stop requests, `--stop`, the health file and the watchdog's verdict | - |
| `Setup` | `alb --init`, run again and again over one root | - |
| `InboundProofs`, `SlackProofs`, `DiscordProofs`, `ReplyProofs`, `InitiateProofs`, `GrantProofs`, `LifecycleProofs`, `SetupProofs` | the theorems about each | the module of that name |
| `MCInbound`, `MCSlack`, ... | constants for TLC | the module of that name |

Conventions. A process has a program counter `pc[b]` or `pc[s]`; a step is named
after the function or the write it stands for and ends where the next durable
write, lock, re-read or request begins. `Die` and `PowerLoss` may come between
any two. What a process has only in memory is reset by them, what is on disk is
not. Variables marked *history* are not in the code; they say what has happened.
Operators introduced as "a slip" are not part of any specification: each is a
plausible mistake in the definition that follows it, and the run named for it in
`PROJECT.json` (`mutants`) fails once the slip takes that definition's place.

### Inbound

`Fetch` .. `Beat` follow `run_once`; per update `Gate`, `StagePhoto`,
`ConsultLedger`, `FindInInbox`, `FindInProcessed`, `LinkLetter`, `SyncInbox`,
`RecordDelivered`, `PlacePhoto`, `MarkPhotoReady`, `RecordIndex`,
`CurrentThread`, `ReadForStamp`, `StampThread`, `Ack` follow `poll_once` and
`publish_once`; `FinishDuplicate` is what a redelivery still does. `life[u]`
says what the disk holds of a letter: *linked* is visible and not yet durable,
*rewritten* was replaced by `_stamp_thread` with a file nobody fsynced. `mark[b]`
is `Telegram._acked`, loaded by `LoadOffset` before `HoldLock`. `Yield` covers
both ways of standing down, a conflict on the token and a requested stop. Two
searches and two `pc` values stand for the dedup because the agent may move the
letter in between. Letter ids are update numbers: `publish` draws random ones,
and `copies[u]` counts the letters written for `u`.

### Reply

One letter, several commands. `Invoke` is a new command line with its own text
and photo; `Claim`, `SyncClaim`, `RecordComposed`, `StagePhoto`,
`RecordSending`, `Post`, `RecordOutcome`, `DeadLetter`, `LinkPost` follow
`send_reply`; `Recheck`, `LockResume`, `Resume` the way to finish a throttled one.
`Post` picks an answer of the platform and, where the answer leaves it open, the
number of messages accepted; `Classify` is `_outbound_failure`. The bridge's
startup pass is `Rise`, `ReadReceipts`, `FlagInFlight`, `CloseInFlight`.
`Stage` maps all of it to `Delivery`: the reply is *ready* before there is a letter,
while a command is on its way to an attempt and while the receipts read as
throttled, *crossing* while a command is posting, *over* otherwise; `Said` are the
receipts that name an outcome. So `RecordSending` is `Begin`, `Post` is `Answer`,
`RecordOutcome` is `Defer` or `Conclude`, `CloseInFlight` is `Bury`, `Die` is `Abandon`
and `PowerLoss` is `Forget` or `Abandon`; whatever else changes the stage is one of these
too, and the rest are stutters.

### Initiate

The intents of one grant, several commands, a clock of hours. `TakeLock` is the
intent's `flock`; `BudgetFree` the budget's. `Admit` counts and
`CreateReservation` writes, with the lock held in between; `Readmit` is one step
because the lock is held across it and nothing it reads can grow meanwhile.
`Reopen` is the branch for an existing reservation, `Cross` .. `UpdateReservation`
follow `_cross` and `_settle`. The count reads the files one after the other;
the model takes it in one step, which is enough because without the budget lock a
reservation can only stop being charged. `Stage(i)` and `Said(i)` map an intent to
`Delivery` as in `Reply`, and `Withdraw` is a send that is refused before it is tried, when
its reservation is found without letter or grant (`Reopen`) or its authority gone (`Authority`). `IntentPromise` is the conjunction over the intents of the
initial condition and of the steps, since TLC takes no quantified temporal formula.

### Slack

Messages are numbered in the order of their timestamps; `Mentions` are those
addressed to the agent. `Post` is somebody writing in Slack, which then owes an
envelope (`owed`) and may have it under way (`wire`); `Expire` is Slack
giving one up. A fetch is `FetchBegin`, then on a new socket `Connect` or
`ConnectFails` and the catch-up `ReadHistory`, `ReadReplies`,
`ConversationRead`, `ReadsDone`, then `Receive` until `PollEnds` or
`SocketEnds`. `cont` and `contT` are the continuations a read leaves at the page cap,
`pending` what is still to be read since the connect. The cycle is
`Handle` (the gate and the letter, one durable step here, since `Inbound` takes it
apart), `AckEnvelopes` or `AckBreaks`, and `Persist`, the half of `confirm` that writes
`slack-markers.json`: `mark[c]` and, for a tracked thread, `thr[m]`. `Die` is the
death of the process and also stands for a fetch that raises, which the loop
answers by a new one. `why[m]` is history: it names the reason when the
code may miss `m`, and the three `Reasons` are all there are. Envelopes of one
connection arrive in order, older ones at any time.

### Discord

`Place` puts each message into a channel or a thread. The bridge holds a
session (`sess` on disk, `seq` in memory) and, per place, a marker; a
mention in a thread it does not track is looked up (`Unresolved` when that
fails) and leaves a *floor*, below which the thread is to be read once its
parent is known. `FetchBegin`, `Resume` or `Identify`, `Resumed`,
`ConnectFails` follow `_ensure_connection`, `ReadPlace`, `ReadFails`, `ReadsDone` the
catch-up of every watched place, `Event` and `Unresolved` the gateway,
`Control`, `ResumeLive`, `IdentifyLive`, `GatewayFails` an op 7 or op 9 that
comes in the middle of `_read_live`, `PollEnds` and `PollRaises` its end.
`Handle` and `Confirm` are the cycle: `confirm` moves the markers of what is not
pending and then writes the session. Every message lies within the 24 hours a
first start reads back.

### Grant

Several commands and no lock. `Create` .. `Claim`, `Replace`, `SyncPayload`,
`Mark`, `Seal` are `create` and its directory syncs; `BindRead`, `BindWrite` the
label; `Breaks`, `Undo`, `Unmark` a call that fails and what `create` takes
back. `Change`, `Look`, `Read`, `Replace`, `Verify` are `--limits` and
`--disable`; `Check`, `List`, `Scan`, `ScanRead`, `Recheck`, `Verdict`, `Posted`
the consultation before a post. `json` and `ready` are what a reader
sees, `kept` what a power cut leaves of it; `PowerCut` goes back to that and ends every
process. `revoked` and `revived` are history.

### Lifecycle

A bridge process is `Lock`, `Truncate`, `Write` (its generation in the lock file),
`Starting`, then `Check`, `Honour`, `Cycle`, `Wake` until `Gone`, `Leave` or
`Die`. A stopper is `Ask`, `LetGo`, `ReadGeneration`, `Nothing`, `OpenRequest`, `WriteRequest`,
`RenameRequest`, then `Probe` until it finds the lock free or its `Deadline`,
and `ConcludeBlind`, `Conclude`, `Clear`. `health` is `state/health.json`,
`age` the minutes since it was written, `Verdict` what the watchdog makes of
both. `Tick` is a minute; only a cycle and a wait take time, a cycle no more
than a running bridge is allowed (`MaxCycle`, which the code calls policy
rather than proof).

### Setup

`Begin` starts a run of the wizard. It takes tokens (`TypeToken`,
`ReadTokenFile`), keeps or creates the config (`KeepEnv`, `OpenEnv`,
`WriteEnv`), takes or refuses the route (`RouteTaken`, `RouteRefused`), keeps
or creates the allowlist (`KeepAllow`, `OpenAllow`, `WriteAllow`), finds the
pane to ring (`UseHelper`, `NoPane`, `NamePane`) and offers to start a bridge
(`Unoffered`, `StartResident`). `Interrupt` ends it at any step. Between runs the
operator edits (`EditSetting`, `EditFile`, `EditAllow`), supplies token files, starts a
bridge by hand; bridges may end at any time. `found` is what the run met,
`run` what it will print; `chosen` is history, the pairs of mailbox and
participant the operator has named as a pair. A token file is *unfit* when it is not
private, empty or unreadable: it is refused where it lies, while a fit one is
removed before it is known whether it holds the platform's token.

## 3. Runs

| Run | Asks | Bounds | Result |
|---|---|---|---|
| `inbound_power` | one letter each, none lost, offset behind, flat threads, when a death or a power failure comes anywhere | 3 updates of a chat, a platform reply and a cut, ledger capped at 1, one failure | holds |
| `inbound_two` | advertised photos in place, an honest heartbeat, refinement of `Mailbox`, with a second process holding a stale offset | 2 updates of 2 chats, one of them taken off the allowlist and put back, a photo, 2 bridges, one death | holds |
| `inbound_live` | every update settles | a stranger's update ahead of a photo that cannot be had or placed, exits and restarts | holds |
| `slack` | nothing lost, acknowledged is settled, every mention settles | 3 messages, 2 of them mentions, one conversation with a thread, 3 faults | holds |
| `slack_gap` | does every connect catch up | 4 mentions, 3 faults | **no** |
| `discord` | nothing lost, every mention settles | 4 messages, 3 of them mentions, a channel and 2 threads of which one may be tracked, 2 faults | holds |
| `reply` | refinement of `Delivery`; one post, words as typed, honest report, unsettled sends flagged | 2 commands given 3 times, 2 texts, one death or power failure | holds |
| `initiate` | refinement of `Delivery` by each intent; budget, queue, charge, once, authority | 2 commands given 3 times, 2 intents, 2 hours, one failure, one edit | holds |
| `initiate_days` | the budget across hours and days, and the words sent, also after a power failure | 2 intents, 2 texts, 4 hours in days of 3, one per hour and one per day, 3 commands | holds |
| `grant` | marked is whole, labelled is kept, rivals refuse, revoked comes back only by a race | 2 commands at once, 2 grants of one chat, a label, a fault | holds |
| `lifecycle` | stops are true and reach only their run, the live are left alone, the asked stand down | a bridge started twice, 2 stoppers, one death, a wait of a minute, which is also what a degraded bridge is allowed | holds |
| `setup` | one route, a terminal refusal, what is reported set up is in the files, a bell, nothing taken back | 2 runs, 2 edits, a token, 2 mailboxes, 2 panes of different multiplexers | holds |

Why the bounds are enough to be interesting. Two updates give a batch with one
letter written and one not; a ledger capped at 1 forgets the first as soon as the
second is recorded, so that the dedup has to find files. The third update of
`inbound_power` answers the second while the first has the open thread. In
`inbound_live` a process exits at a refusal, at the end of a cycle and at a letter
that was filed before its stamp, which is in the middle of an update. Three
commands are the fewest that throttle, resume and resume again, two at once the
fewest that race. For the budget, `PerHour = 1` is met by one held send and one
new one; in `initiate_days` a second hour of the same day meets `PerDay = 1`, and
four hours with days of three reach the second day. In `slack` three faults are a socket that breaks, an
envelope given up and a death or a page that ends early in one behaviour; two
messages of a thread and one beside it are the fewest in which the marker of
the conversation passes a reply. In `discord` the cap of one
tracked thread makes the second mention evict the first thread, and two
faults are a lookup that fails and a session that is lost. A grant and its rival
need two ids, and one fault stops a create at any step. Two runs
of one bridge process are the fewest in which a request outlives its
run, two stoppers the fewest that clear each other's; a wait is the only
thing there that takes time, a cycle and a start taking less than the minute that is
allowed them (the proof has any allowances). Two setups with an edit before and between
them meet every half-written root. One failure may come at *any* step; the
proofs below have no bound on their number. `MaxGestures`, `MaxEdits`,
`MaxCrashes`, `MaxFaults`, `MaxDeaths`, `MaxRuns` and `MaxHour` cap what the
environment does and guard nothing else; `MaxThreads` is the code's own cap.
The bridges of `inbound_two`, the commands and texts of `Reply`, the senders, intents
and texts of `Initiate`, and the commands and grants of `Grant` are interchangeable, hence `SYMMETRY`; the runs with it check no liveness.
`CHECK_DEADLOCK FALSE` everywhere: bounded environments, commands that end and
bridges that stood down leave nothing to do, rightly.

### Fairness

Four runs assume some (`FairSpec`). In `inbound_live` a step of the process
itself is weakly fair: the loop of `_poll_forever` runs. `LoadOffset` is weakly
fair unless the bridge stood down: the service manager restarts what died and
leaves a clean exit alone. `Fetch`, `Confirm` and the answered download are
*strongly* fair, since a request that fails is made again in the next cycle and
may fail any number of times, but not for ever. In `slack` and `discord` the
bridge's steps are weakly fair, and an event that is on the connection again and
again is read in the end (`Receive`, `Event`); on Discord, a control that keeps coming while
the gateway is read is served in the end. The number of faults is bounded
there, so retries end. In `lifecycle` time passes, a running bridge runs
and so does a stopper. Nothing is assumed of the agent, the operator, the disk (a photo may
fail to be placed every time) or the platform's contents.

## 4. Proofs

tlapm checks these for every number of updates, messages, places, bridges,
commands, intents, grants and failures.

**Inbound** (`InboundProofs`). Whatever fails, torn letters included:
`TypeCorrect`, `NoMailSkipped`, `HeartbeatIsHonest`. They rest on `Basis`: one
process works at a time (`OneHolder`), its batch lies between what is forgotten
and what has arrived, and a mark is persisted once the platform has heard it
(`InHand`, `MarkBehind`); for the heartbeat, what a cycle has published is rung
for before it (`RungFirst`), and a cycle ends with its mark saved (`SavedFirst`). As long as no power failure tears a letter (`NoTorn`):
`NoSecondLetter`, `NothingLost`, `ThreadsStayFlat`, `PhotosArePlaced`; as long as the
power holds: `PromiseKept`. None of them is inductive. That no second letter is written
depends on what a search has seen being still so when it is acted upon: a finding at a
given `pc` stays true because letters only move towards `processed/`, which
is searched last (`LookedUp`), and an update is marked, saved or confirmed only
after it is settled (`SettledFirst`). That a thread has one root needs that whatever
a `thread:` line, a pointer or the letter in hand names is a durable letter
with no thread but its own (`Root`, `Rooted`), and that nothing leads to a
letter whose own stamp is still to be decided (`Stamping`): a stamp that lands after
another letter was threaded under its letter would make a chain. That photos are
placed follows each of them from the download to the mark (`PhotoInHand`) and says
that an update is passed over only with its photo ready (`Pictured`): when the process
dies between the letter and the rename, the update has not been passed over, and
the redelivery finishes the placing. `PromiseKept` is the refinement: every step maps
to one of `Mailbox` or to none; it assumes that the power holds, since an
undone letter has to be written again.

**Reply** (`ReplyProofs`): `ReplyTypeCorrect`, `SingleDelivery`,
`TypedWordsOnly`, `ReportsAreHonest`, `NothingInFlightUnseen`, `ReplyKeepsPromise`, power
failures included. For `SingleDelivery` the invariant says that whoever works on the send is
alone (`OneAtWork`), that a history which reads as throttled means nobody is, save
a resumer holding the lock that has just decided to send (`DeferredIsIdle`),
and that once the platform accepted the message the history never reads so
again (`PostedIsOver`). `Worded` ties the words a command was given to the letter it
works on, `SentIsPosted` a receipt of success to what the platform holds. For the
flags it takes that nothing is begun under a history that has ended (`Unended`) and that,
until the power fails, a send begun and left without an outcome shows in the receipts,
where the next bridge finds it, or is flagged already (`Shown`). `ReplyKeepsPromise` is the
refinement of `Delivery`. It needs all of this at once: that attempts do not overlap is
`OneAtWork` with `DeferredIsIdle`, that none is begun over an accepted message is
`PostedIsOver`, that none is begun over a recorded end is how `Verdict` reads a history, and that
"sent" and "throttled" are recorded only where they are so is `SentIsPosted` with `Alone`. A
reply that loses its history with the power is not ready again, unless the letter went too
and nothing had been sent.

**Initiate** (`InitiateProofs`): `InitiateTypeCorrect`, `ReservedWordsOnly`,
`NoAuthorityNoSend` and `BudgetHolds`, whatever fails; `SentOnce`,
`SentIsCharged`, `QueueHolds` and `IntentKeepsPromise` as long as the power holds (`NeverTwice` in
section 5 shows why they must assume it). The invariant relates, for each intent, the
place of the command that has the lock to the intent's reservation, its receipts and what the
platform accepted (`Fit`, joined over all commands and intents in `Safe`).
Alone, neither `SentOnce` nor `SentIsCharged` is inductive: a command about to post
is harmless only because its receipts say "sending", its reservation is open and nothing
was accepted yet. Two things then carry every step: only the holder of the lock
changes any of it (`OneHolder`, the file lock of the intent, held from the first
read of the reservation to the last write), and a starting bridge, which takes
no such lock, can only add "dead" to a history, which whatever fits outlives
(`DeadFits`). A power failure takes receipts back, and `Fit` with them; what it
leaves of the order between a command and its reservation is `Orderly`, which carries
words, authority and budget. For the budget, the room a command has counted under
the budget's lock is still there when it writes, since meanwhile reservations only
stop being charged (`Budget`, with lemmas on the cardinality of a set that gains one
member); the queue is the same argument over those that wait (`Queue`). `IntentKeepsPromise` is the
refinement of `Delivery` by every intent, also in the form `Spec => OneDelivery(i)!Spec`. To
`Fit` and `Orderly` it adds `Reported`: a command about to record "sent" has it of a message
that was accepted, and one about to record anything but "refused" finds receipts that
have ended or are in flight, so that no other attempt is open meanwhile.

**Slack** (`SlackProofs`): `SlackInvariant`, `SlackNothingLost`,
`SlackAckedIsSettled`, `SlackTypes`. `NothingLost` allows a mention to be in the
queue; a death empties the queue, so the invariant must do without it: a mention
that nothing excuses is settled or above the marker the next connect reads from
(`Durable`), although Slack may have stopped retrying. To keep that, whatever a
marker is about to pass must be in the batch being handled (`Passed`), the batch
must flow from queue to letter without a hole (`Flows`), and a read that is
cut off must not be counted as read (`Windows`, `ReadNow`). `SlackTypes` includes
that no more threads are tracked than the cap allows, from cardinality lemmas.

**Discord** (`DiscordProofs`): `DiscordInvariant`, `DiscordNothingLost`,
`DiscordTypes`. Two copies of the markers exist, in memory and on disk;
`Linked` says that the first reaches whatever the second reaches, so that a
death loses nothing. `Durable` says why each mention is safe; only those in threads
that are not tracked may lean on the queue or on the session. `Ahead` says
that nothing is marked beyond a mention it would hide, except in places still
to be read, whose markers `confirm` holds back; `Heard`, `Flows` and `Windows`
follow a message from the gateway or a read to its letter.

**Grant** (`GrantProofs`): `GrantInvariant`, `MarkedIsWholeHolds`,
`LabelledIsKeptHolds`, `RivalsRefuseHolds`, `OnlyRacesReviveHolds`, `GrantTypes`.
The idea is a grant that is *safe*: whole and marked on disk and in what a power cut
leaves, with nobody about to take it back. Once safe, always safe, since an
undo belongs to the one create that made the name. Everything that is
relied upon - labelled, listed, revoked - is shown safe (`Vouched`). A check
remembers what it has passed over, and a rival it passed over as disabled is
enabled again only by a `--limits` that still holds the old record (`Off`,
`Late`, `Rivals`).

**Lifecycle** (`LifecycleProofs`): `LifecycleInvariant`, `OnlyTheAskedHolds`,
`StoppedIsTrueHolds`, `LiveIsLeftAloneHolds`, `LifecycleTypes`. One process
works at a time, and the record names it (`OneAtWork`); the heartbeat is no
older than the state it tells of allows (`Timed`, whose sums are why
`LifecycleAssumption` bounds a running bridge's allowance by the others); a request names
a generation a stopper has read (`Addressed`); what is recorded or printed of a
run that stood down is so (`Heard`).

**Setup** (`SetupProofs`): `SetupInvariant`, `RouteIsOnePairHolds`,
`RefusedLeavesAloneHolds`, `NeverAWishHolds`, `StartedRingsHolds`,
`SetupTypes`, and the action property `KeptIsKeptHolds`. Each step of a run
relies on what the answers before it established: what was asked is what is in
hand (`Answered`), a file that has not been touched is as found, and so are the
route of a standalone run and the surface until a pane is named (`Touched`), and
what will be reported as set up has been written (`Reported`). `NeverAWish` speaks of what a
run claims to have set up. It does not say that a config called standalone or not
configured has no route or ring, nor that a kept surface is of the multiplexer
its notifier names: section 5 has both.

Assumptions: those named in the modules (`ConstantsAssumption`,
`ReplyAssumption`, `InitiateAssumption`, `SlackAssumption`,
`DiscordAssumption`, `GrantAssumption`, `LifecycleAssumption`,
`SetupAssumption`), which TLC evaluates in every run. They fix the kinds of the
constants; beyond that `Inbound` asks that a platform reply answers an earlier
update of the same chat (`poll_once` looks a reply up in the index of its own chat)
and that the ledger's cap is not zero, `Slack` that a thread hangs from an
earlier message of its conversation, and `Lifecycle` that a running bridge is
allowed no longer silence than a starting one, or than the margin of a waiting one.

Only model-checked: the liveness properties `EveryUpdateSettles`,
`EveryMentionSettles` (of `Slack` and of `Discord`) and `AskedStandsDown`, which need
fairness and `ENABLED` and are out of the prover's reach. Every other property that
a run expects to hold, invariants and action properties and the refinements
of `Mailbox` and `Delivery`, is the statement of a theorem. The types of all modules but
`Inbound` are proved and no run repeats them.

## 5. Where code and documentation disagree

One disagreement is a run that ends in a counterexample, and an entry under
`findings`.

`slack_gap` - a read of a long history stops at the page cap and leaves a
continuation. If the socket breaks then, the next connect takes the continuation
up, and counts the conversation as read, although what was posted above it while
the socket was down has not been read. A mention that arrives live then moves
the marker past it. `docs/slack.md` says that the bridge catches up every
time it connects and that nothing in a long backlog is skipped.

Seen in the models and left without a run. Each named definition is in its
module, and TLC refutes it under a configuration that checks it.

Inbound
- `ForgottenIsReadable`: `_stamp_thread` (`poller/loop.py:85`) replaces a durable
  letter by a file that is never fsynced, and the platform is told to forget the
  update right after.
- `ForgottenIsRung`: a transient failure of a photo download leaves `poll_once`
  in mid-batch (`poller/loop.py:181`); letters already written are never rung
  for, because their redelivery is a duplicate.
- An agent that files a letter between the read and the replace of
  `_stamp_thread` finds it in `inbox/` again, and one that files it before the
  read ends the bridge with `FileNotFoundError`.

Sending
- `AmbiguousIsFlagged` of `Reply`: the *ambiguous* receipt is written before the
  dead letter (`send/reply.py:295`); after a death in between the receipt is
  terminal and no pass looks again.
- `PhotoAsTyped` of `Reply`: finishing a throttled reply compares the text, not
  the photo (`send/reply.py:396`).
- `NeverTwice` of `Initiate`: `receipts/<id>/` is not fsynced into `receipts/`
  (`outbound/store.py:251`); an intent whose reservation is not settled yet may
  lose its history with the power and be sent again. `Reply` is safe from this:
  without history it refuses.
- A command that dies while its reservation is an empty file closes admission
  for every destination until a human removes it; the code means to fail closed.
- `RevokedStaysRevoked` of `Grant`: `--limits` and `--disable` read, change and
  replace under no lock (`grant/store.py:98`), so a `--limits` that overlaps a
  `--disable` may enable the grant again (`README.md:78-84` has it revocable at any
  time). `OnlyRacesRevive` bounds this to commands that overlap.

Connections
- `EverySessionCatchesUp` of `Discord`: after an op 7 whose resume is refused, or an
  op 9, `_read_live` identifies anew without reading history
  (`adapters/discord/api.py:592-637`, `docs/discord.md:106-110`), and a replay
  that breaks off before the catch-up moves the marker before any read.

Running
- `RequestStays` of `Lifecycle`: a `--stop` that gives up says its request stays on
  disk (`cli.py:276-278`), but another `--stop` may clear it.

Setup
- Over a running bridge without a bell, a second run adds the surface and reports
  "configured" and "already running"; nobody says that the bridge has to be
  started again to ring (`setup/wizard.py:362-366`).
- `SurfaceIsOfNotifier`: a kept surface of one multiplexer is reported "configured"
  after a pane of another is picked, if that matches the kept notifier
  (`setup/wizard.py:882-908`).
- `StandaloneIsSo`: a "no" over a config that has a route is summarised as
  standalone, not configured and incomplete, although the bridge stays integrated and
  rings. The comment at `setup/wizard.py:289-296` names this as a defect of a refusal
  that went on; `tests/test_setup.py:1262` has a refusal only.
- A token file is consumed before it is known that the config is kept or
  refused, or that the token's prefix is wrong (`docs/discord.md:44-47`,
  `docs/slack.md:56-59`, `INSTALL.md:191-194`).
- A death between the creation of a file and its contents leaves an empty config or
  allowlist that later runs keep.
- A mailbox whose directory is not named after the participant is accepted, and
  then refused by the bridge (`bridge/run.py:309`).

## 6. Not modelled

Left out for good: HTTP, TLS and websocket framing; byte inspection of images;
doctor, canary, helper probe, retrieval and registry, which keep at most one file
written in one step; the scripts of the repository; wording and argument
parsing.

Inside the modelled parts: letter bytes and frontmatter, file modes, salts,
pruning of old assets and the one-off marking of old media; photos and changed
limits of initiated sends; the wall clock between hours, and a clock that is set
back. Of Slack: access that changes under a running bridge, a conversation it cannot
read and skips, the parsing of events, and the 24 hours a conversation without a marker is
read back (`adapters/slack/api.py:472-479`): every message of the model is younger. Of Discord: the clock of the heartbeat, rate limits (a wait is a
failed read), access taken from the bot, a READY that cannot be parsed, and messages
older than the first start reads. Of grants: the private temporary file, several
limits (one number here), expiry. Of the lifecycle: the pid in the lock
file, `--once`, a holder of the lock that is no bridge. Of setup: how a chat id,
a pair or a pane is found (answers of the environment), the helper's path, the launcher's
origin, power failure, edits in the middle of a run; a mailbox that is the root itself,
which is not integrated to the bridge (`bridge/run.py:419`), or is written with a `~`, which
only the wizard expands (`setup/wizard.py:199`); a config that no longer loads right after the
route was appended (`setup/wizard.py:843-851`), which takes an edit meanwhile, and the
helper's path appended with it.

Three steps are coarser than the code: `Authority` of `Initiate` reads grant, label and
allowlist at once, `Rise` takes the verdicts of all letters at once, and `Check` of
`Lifecycle` reads a request and clears it. No property turns on a write in between.

## 7. Plan

1. Done: all modules of section 2, with the theorems of section 4.
2. Next proofs: what is left of `Inbound` when a power failure tears a letter
   (one letter per update that can be read, flat threads of what was not torn).
3. An abstract gap-free stream that `Slack` and `Discord` both refine, with the
   reasons of `why` as its only losses.
4. The registry, and the marking of old media, if they come to keep more than a
   file.

## 8. Running

    tlc -workers 2 -config Reply.cfg MCReply.tla
    tlapm ReplyProofs.tla

`PROJECT.json` names the module and configuration of every run. No passing run
takes more than about two minutes on two workers; the proofs take a few minutes
each at most.
