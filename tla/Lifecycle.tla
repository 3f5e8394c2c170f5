----------------------------- MODULE Lifecycle -----------------------------
(***************************************************************************)
(* The life of a bridge process and of those who watch it: the lock        *)
(* (bridge/singleton.py), alb --stop and the loop (cli.py), the health file*)
(* the loop writes and the wake-check reads (watchdog/health.py).          *)
(*                                                                         *)
(* Nothing is signalled.  --stop names the run it means by its generation, *)
(* read from the lock file, and leaves a request the run looks for at its  *)
(* loop boundary; that the lock can be taken is the only proof that a run  *)
(* has ended.  To find out, --stop takes the lock itself for a moment.     *)
(*                                                                         *)
(* Time passes in ticks of a minute.  Abstracted: what a cycle does        *)
(* (module Inbound), the pid in the lock file, polling once, a holder that *)
(* is no bridge (--grandfather-media).                                     *)
(***************************************************************************)
EXTENDS Integers, FiniteSets

CONSTANTS
  Bridges,      \* processes that may be started on this root
  Stoppers,     \* alb --stop commands
  None,
  MaxRuns,      \* bound: how often a bridge is started
  MaxDeaths,    \* bound: bridges killed
  RunningFor,   \* health.ALLOWANCE, in ticks
  StartingFor,
  MaxWait,      \* api.MAX_RETRY_AFTER, in ticks
  Slack         \* what ALLOWANCE adds to it

ASSUME LifecycleAssumption ==
  /\ Bridges \cap Stoppers = {} /\ None \notin Bridges \cup Stoppers
  /\ MaxRuns \in Nat /\ MaxDeaths \in Nat
  /\ RunningFor \in Nat /\ StartingFor \in Nat /\ MaxWait \in Nat /\ Slack \in Nat
  /\ RunningFor <= StartingFor /\ RunningFor <= Slack

(* A cycle ends within the allowance of a running bridge: the code calls   *)
(* this policy rather than proof.                                          *)
MaxCycle == RunningFor
MaxAge == MaxWait + Slack + RunningFor + StartingFor

Generation == 1..MaxRuns
NoFile == 0
Empty == -1     \* a file that was truncated and not yet written
FileOf == {NoFile, Empty} \cup Generation

VARIABLES
  holder,       \* who holds the flock on bridge.lock
  record,       \* bridge.lock: the generation in it
  request,      \* state/stop-requested: the generation it names
  tmp,          \* state/.stop-requested.tmp, one name for every --stop
  health,       \* state/health.json: its state, reason and generation
  age,          \* how old its heartbeat is
  bpc, gen,     \* the bridges: where they are, their generation
  timer, wait,  \* how long the one that holds the lock has waited, and is to
  spc, asked,   \* the stoppers: where they are, the generation asked to stop
  fd,           \* the file the stopper's open handle writes to
  fresh,        \* the health file was written after this --stop began
  said,         \* what this --stop has printed
  runs, deaths, \* history: counters
  heeded,       \* history: generations that found a request for them
  askedOf,      \* history: generations a --stop has read
  wiped         \* history: generations whose request gave way to another,
                \* or was removed, on behalf of another run

files   == <<request, tmp>>
beat    == <<health, age>>
bridge  == <<bpc, gen, timer, wait, runs, deaths, heeded>>
stopper == <<spc, asked, fd, fresh, said, askedOf>>
vars == <<holder, record, files, beat, bridge, stopper, wiped>>

HealthOf == [state : {"none", "starting", "running", "degraded", "conflict",
                      "requested"}, gen : 0..MaxRuns]
Outcome == {"", "nothing", "stopped", "never read", "unconfirmed",
            "still running", "error"}

Init ==
  /\ holder = None /\ record = NoFile /\ request = NoFile /\ tmp = NoFile
  /\ health = [state |-> "none", gen |-> 0] /\ age = 0
  /\ bpc = [b \in Bridges |-> "down"] /\ gen = [b \in Bridges |-> 0]
  /\ timer = 0 /\ wait = 0
  /\ spc = [s \in Stoppers |-> "idle"] /\ asked = [s \in Stoppers |-> 0]
  /\ fd = [s \in Stoppers |-> "none"] /\ fresh = [s \in Stoppers |-> FALSE]
  /\ said = [s \in Stoppers |-> ""]
  /\ runs = 0 /\ deaths = 0 /\ heeded = {} /\ askedOf = {} /\ wiped = {}

Alive(g) == \E b \in Bridges : gen[b] = g
At(b, step) == bpc[b] = step
Turn(b, step) == bpc' = [bpc EXCEPT ![b] = step]
Beat(state, g) ==
  /\ health' = [state |-> state, gen |-> g] /\ age' = 0
  /\ fresh' = [s \in Stoppers |-> TRUE]

(* The request file gets new contents, or none; handles open on the old    *)
(* file write to nowhere.                                                  *)
Unlinked == [s \in Stoppers |-> IF fd[s] = "request" THEN "gone" ELSE fd[s]]
Replaces(old, new) == wiped' = wiped \cup ({old} \cap (Generation \ {new}))

----------------------------------------------------------------------------
(* The bridge: hold(), _poll_forever().                                    *)

(* A start that finds the lock taken, by whoever, exits: no step.          *)
Lock(b) ==
  /\ At(b, "down") /\ holder = None /\ runs < MaxRuns
  /\ holder' = b /\ runs' = runs + 1
  /\ Turn(b, "truncate")
  /\ record' = IF record = NoFile THEN Empty ELSE record
  /\ UNCHANGED <<files, beat, gen, timer, wait, deaths, heeded, stopper, wiped>>

Truncate(b) ==
  /\ At(b, "truncate")
  /\ record' = Empty
  /\ Turn(b, "write")
  /\ UNCHANGED <<holder, files, beat, gen, timer, wait, runs, deaths, heeded,
                 stopper, wiped>>

Write(b) ==
  /\ At(b, "write")
  /\ record' = runs /\ gen' = [gen EXCEPT ![b] = runs]
  /\ Turn(b, "starting")
  /\ UNCHANGED <<holder, files, beat, timer, wait, runs, deaths, heeded,
                 stopper, wiped>>

(* A slip that sweeps the request up as litter of an earlier run.          *)
StartingClean(b) ==
  /\ At(b, "starting")
  /\ Beat("starting", 0)
  /\ Turn(b, "check")
  /\ request' = NoFile
  /\ UNCHANGED <<holder, record, tmp, gen, timer, wait, runs, deaths, heeded,
                 spc, asked, fd, said, askedOf, wiped>>

Starting(b) ==
  /\ At(b, "starting")
  /\ Beat("starting", 0)
  /\ Turn(b, "check")
  /\ UNCHANGED <<holder, record, files, gen, timer, wait, runs, deaths, heeded,
                 spc, asked, fd, said, askedOf, wiped>>

(* A slip that takes any request file for one addressed to this run.       *)
AnyRequest(b) == request # NoFile

(* The loop boundary: stop_requested, clear_stop_request.                  *)
StopRequested(b) == request = gen[b]

Check(b) ==
  /\ At(b, "check")
  /\ timer' = 0
  /\ IF StopRequested(b)
       THEN /\ request' = NoFile /\ fd' = Unlinked
            /\ heeded' = heeded \cup {gen[b]}
            /\ Turn(b, "honour")
       ELSE Turn(b, "cycle") /\ UNCHANGED <<request, fd, heeded>>
  /\ UNCHANGED <<holder, record, tmp, beat, gen, wait, runs, deaths, spc, asked,
                 fresh, said, askedOf, wiped>>

Honour(b) ==
  /\ At(b, "honour")
  /\ Beat("requested", gen[b])
  /\ Turn(b, "leave")
  /\ UNCHANGED <<holder, record, files, gen, timer, wait, runs, deaths, heeded,
                 spc, asked, fd, said, askedOf, wiped>>

(* A cycle that completes, a transient failure waited out, a conflict that *)
(* is yielded to, a fetch that failed.                                     *)
Cycle(b) ==
  /\ At(b, "cycle")
  /\ timer' = 0
  /\ \/ Beat("running", 0) /\ Turn(b, "check") /\ UNCHANGED wait
     \/ Beat("degraded", 0) /\ Turn(b, "sleep") /\ wait' \in 0..MaxWait
     \/ Beat("conflict", 0) /\ Turn(b, "leave") /\ UNCHANGED wait
     \/ Turn(b, "leave") /\ UNCHANGED <<beat, fresh, wait>>
  /\ UNCHANGED <<holder, record, files, gen, runs, deaths, heeded, spc, asked,
                 fd, said, askedOf, wiped>>

Wake(b) ==
  /\ At(b, "sleep") /\ timer = wait
  /\ wait' = 0
  /\ Turn(b, "check")
  /\ UNCHANGED <<holder, record, files, beat, gen, timer, runs, deaths, heeded,
                 stopper, wiped>>

Gone(b) ==
  /\ holder' = None
  /\ Turn(b, "down") /\ gen' = [gen EXCEPT ![b] = 0]
  /\ timer' = 0 /\ wait' = 0

Leave(b) ==
  /\ At(b, "leave")
  /\ Gone(b)
  /\ UNCHANGED <<record, files, beat, runs, deaths, heeded, stopper, wiped>>

(* The kernel releases the lock of a process that is killed.               *)
Die(b) ==
  /\ ~At(b, "down") /\ deaths < MaxDeaths
  /\ deaths' = deaths + 1
  /\ Gone(b)
  /\ UNCHANGED <<record, files, beat, runs, heeded, stopper, wiped>>

(* Only a cycle and a wait take time; what comes between takes none.       *)
Tick ==
  /\ \A b \in Bridges : /\ At(b, "sleep") => timer < wait
                        /\ At(b, "cycle") => timer < MaxCycle
                        /\ bpc[b] \notin {"check", "honour"}
  /\ age' = IF age < MaxAge THEN age + 1 ELSE age
  /\ timer' = IF \E b \in Bridges : bpc[b] \in {"sleep", "cycle"}
                THEN timer + 1 ELSE timer
  /\ UNCHANGED <<holder, record, files, health, bpc, gen, wait, runs, deaths,
                 heeded, stopper, wiped>>

----------------------------------------------------------------------------
(* alb --stop: running_pid and current_generation.                         *)

Go(s, step) == spc' = [spc EXCEPT ![s] = step]
Say(s, what) == said' = [said EXCEPT ![s] = what] /\ Go(s, "idle")

Ask(s) ==
  /\ spc[s] = "idle" /\ said[s] = ""
  /\ fresh' = [fresh EXCEPT ![s] = FALSE]
  /\ IF record = NoFile THEN Go(s, "nothing") /\ UNCHANGED holder
     ELSE IF holder = None THEN Go(s, "probe") /\ holder' = s
     ELSE Go(s, "generation") /\ UNCHANGED holder
  /\ UNCHANGED <<record, files, beat, bridge, asked, fd, said, askedOf, wiped>>

LetGo(s) ==
  /\ spc[s] \in {"probe", "free"}
  /\ holder' = None
  /\ Go(s, IF spc[s] = "probe" THEN "nothing" ELSE "conclude")
  /\ UNCHANGED <<record, files, beat, bridge, asked, fd, fresh, said, askedOf,
                 wiped>>

ReadGeneration(s) ==
  /\ spc[s] = "generation"
  /\ IF record \in Generation
       THEN /\ asked' = [asked EXCEPT ![s] = record]
            /\ askedOf' = askedOf \cup {record}
            /\ Go(s, "open")
       ELSE Go(s, "nothing") /\ UNCHANGED <<asked, askedOf>>
  /\ UNCHANGED <<holder, record, files, beat, bridge, fd, fresh, said, wiped>>

(* Nothing was running, so a request on disk is litter - or was then.      *)
Nothing(s) ==
  /\ spc[s] = "nothing"
  /\ request' = NoFile /\ fd' = Unlinked
  /\ Replaces(request, asked[s])
  /\ Say(s, "nothing")
  /\ UNCHANGED <<holder, record, tmp, beat, bridge, asked, fresh, askedOf>>

(* request_stop: open and truncate, write, rename.                         *)
OpenRequest(s) ==
  /\ spc[s] = "open"
  /\ tmp' = Empty /\ fd' = [fd EXCEPT ![s] = "tmp"]
  /\ Replaces(tmp, asked[s])
  /\ Go(s, "write")
  /\ UNCHANGED <<holder, record, request, beat, bridge, asked, fresh, said,
                 askedOf>>

WriteRequest(s) ==
  /\ spc[s] = "write"
  /\ tmp' = IF fd[s] = "tmp" THEN asked[s] ELSE tmp
  /\ request' = IF fd[s] = "request" THEN asked[s] ELSE request
  /\ Replaces(CASE fd[s] = "tmp" -> tmp
                [] fd[s] = "request" -> request
                [] OTHER -> NoFile, asked[s])
  /\ fd' = [fd EXCEPT ![s] = "none"]
  /\ Go(s, "rename")
  /\ UNCHANGED <<holder, record, beat, bridge, asked, fresh, said, askedOf>>

RenameRequest(s) ==
  /\ spc[s] = "rename"
  /\ IF tmp = NoFile
       THEN Say(s, "error") /\ UNCHANGED <<files, fd, wiped>>
       ELSE /\ request' = tmp /\ tmp' = NoFile
            /\ fd' = [t \in Stoppers |-> IF fd[t] = "tmp" THEN "request"
                                         ELSE Unlinked[t]]
            /\ Replaces(request, tmp)
            /\ Go(s, "wait") /\ UNCHANGED said
  /\ UNCHANGED <<holder, record, beat, bridge, asked, fresh, askedOf>>

(* Is the lock free?  If not, again, until the deadline.                   *)
Probe(s) ==
  /\ spc[s] = "wait" /\ holder = None
  /\ holder' = s
  /\ Go(s, "free")
  /\ UNCHANGED <<record, files, beat, bridge, asked, fd, fresh, said, askedOf,
                 wiped>>

Deadline(s) ==
  /\ spc[s] = "wait" /\ holder # None
  /\ Say(s, "still running")
  /\ UNCHANGED <<holder, record, files, beat, bridge, asked, fd, fresh, askedOf,
                 wiped>>

(* _recorded_stand_down.                                                   *)
Recorded(s) ==
  health = [state |-> "requested", gen |-> asked[s]] /\ fresh[s]

(* A slip that takes the absence of the request for a receipt.             *)
ConcludeBlind(s) ==
  /\ spc[s] = "conclude"
  /\ IF request = asked[s] THEN Go(s, "clear") /\ UNCHANGED said
                           ELSE Say(s, "stopped")
  /\ UNCHANGED <<holder, record, files, beat, bridge, asked, fd, fresh, askedOf,
                 wiped>>

Conclude(s) ==
  /\ spc[s] = "conclude"
  /\ IF request = asked[s] THEN Go(s, "clear") /\ UNCHANGED said
     ELSE Say(s, IF Recorded(s) THEN "stopped" ELSE "unconfirmed")
  /\ UNCHANGED <<holder, record, files, beat, bridge, asked, fd, fresh, askedOf,
                 wiped>>

Clear(s) ==
  /\ spc[s] = "clear"
  /\ request' = NoFile /\ fd' = Unlinked
  /\ Replaces(request, asked[s])
  /\ Say(s, "never read")
  /\ UNCHANGED <<holder, record, tmp, beat, bridge, asked, fresh, askedOf>>

----------------------------------------------------------------------------
(* health.verdict: what the wake-check tells an agent to do.               *)

(* A slip that gives a waiting bridge what a running one gets.             *)
FlatAllowance(state) == IF state = "starting" THEN StartingFor ELSE RunningFor

Allowance(state) ==
  CASE state = "starting" -> StartingFor
    [] state = "degraded" -> MaxWait + Slack
    [] OTHER -> RunningFor

Verdict ==
  IF health.state \in {"none", "conflict", "requested"} THEN "investigate"
  ELSE IF age <= Allowance(health.state) THEN "none" ELSE "restart"

----------------------------------------------------------------------------
Run(b) ==
  \/ Truncate(b) \/ Write(b) \/ Starting(b) \/ Check(b) \/ Honour(b)
  \/ Cycle(b) \/ Wake(b) \/ Leave(b)

Stop(s) ==
  \/ LetGo(s) \/ ReadGeneration(s) \/ Nothing(s) \/ OpenRequest(s)
  \/ WriteRequest(s) \/ RenameRequest(s) \/ Probe(s) \/ Conclude(s) \/ Clear(s)

Next ==
  \/ Tick
  \/ \E b \in Bridges : Lock(b) \/ Run(b) \/ Die(b)
  \/ \E s \in Stoppers : Ask(s) \/ Stop(s) \/ Deadline(s)

Spec == Init /\ [][Next]_vars

(* A started process runs on, and time passes.                             *)
Fairness ==
  /\ WF_vars(Tick)
  /\ \A b \in Bridges : WF_vars(Run(b))
  /\ \A s \in Stoppers : WF_vars(Stop(s))
FairSpec == Spec /\ Fairness

----------------------------------------------------------------------------
(* Every variable keeps its type; the health file only says what the       *)
(* wake-check knows.                                                       *)
TypeOK ==
  /\ holder \in Bridges \cup Stoppers \cup {None}
  /\ record \in FileOf /\ request \in FileOf /\ tmp \in FileOf
  /\ health \in HealthOf /\ age \in 0..MaxAge
  /\ bpc \in [Bridges -> {"down", "truncate", "write", "starting", "check",
                          "honour", "cycle", "sleep", "leave"}]
  /\ gen \in [Bridges -> 0..MaxRuns]
  /\ timer \in 0..(MaxCycle + MaxWait) /\ wait \in 0..MaxWait
  /\ spc \in [Stoppers -> {"idle", "probe", "generation", "nothing", "open",
                           "write", "rename", "wait", "free", "conclude", "clear"}]
  /\ asked \in [Stoppers -> 0..MaxRuns]
  /\ fd \in [Stoppers -> {"none", "tmp", "request", "gone"}]
  /\ fresh \in [Stoppers -> BOOLEAN] /\ said \in [Stoppers -> Outcome]
  /\ runs \in 0..MaxRuns /\ deaths \in 0..MaxDeaths
  /\ heeded \subseteq Generation /\ askedOf \subseteq Generation
  /\ wiped \subseteq Generation

(* What --stop prints as "stopped" has happened for that reason: the run   *)
(* found the request and stood down, though others were started, killed,   *)
(* asked and cleared away meanwhile (cli.py, _recorded_stand_down).        *)
StoppedIsTrue ==
  \A s \in Stoppers : said[s] = "stopped" => asked[s] \in heeded

(* A run stands down only for a request that named it: none that outlives  *)
(* its run stops the next one (singleton.py, the generation).              *)
OnlyTheAsked == heeded \subseteq askedOf

(* The wake-check never has an agent restart a bridge that is at work or   *)
(* waiting as the platform told it to (health.py, ALLOWANCE).              *)
LiveIsLeftAlone ==
  (\E b \in Bridges : bpc[b] \in {"check", "cycle", "sleep"}) => Verdict # "restart"

(* A run that was asked to stop ends, unless a --stop that meant another   *)
(* run, or that had found none, took the request away.                     *)
AskedStandsDown ==
  \A g \in Generation :
    (\E s \in Stoppers : spc[s] = "wait" /\ asked[s] = g) ~> ~Alive(g) \/ g \in wiped

(* cli.py:276-278: a --stop that gives up says that the request stays on   *)
(* disk and will be honoured.  Not so once another --stop clears it.       *)
RequestStays ==
  \A s \in Stoppers :
    said[s] = "still running" /\ Alive(asked[s]) /\ asked[s] \notin heeded =>
      request = asked[s]
=============================================================================
