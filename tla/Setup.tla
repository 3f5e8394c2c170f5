------------------------------- MODULE Setup -------------------------------
(***************************************************************************)
(* `alb --init` (setup/wizard.py with slack_wizard.py and                  *)
(* discord_wizard.py), run again and again over one root.                  *)
(*                                                                         *)
(* A run asks its questions in order and writes as it goes: the token      *)
(* files are consumed, bridge.env is created or kept and completed, the    *)
(* allowlist is created or kept, the ring is added, a bridge is offered.   *)
(* A file is created in two steps, opened and then written; an append is   *)
(* one write.  Between runs the operator edits the files, supplies token   *)
(* files and starts bridges by hand.  A run may be killed at any step.     *)
(*                                                                         *)
(* Abstracted: the wording; the root and its mode; the helper's path; the  *)
(* names of settings the loader refuses (one flag, sound); how an answer   *)
(* is found.  "No", a blank answer and a mailbox that does not exist are   *)
(* one answer to the mailbox question, NoRoute.                            *)
(***************************************************************************)
EXTENDS Naturals, Sequences, FiniteSets

CONSTANTS
  Mailboxes,    \* mailbox directories
  Owner,        \* Owner[m]: the participant whose mailbox m is
  Panes,        \* the panes of every multiplexer
  Kind,         \* Kind[p]: the multiplexer of pane p
  Secrets,      \* the platform's tokens, in the order they are asked for
  Blank,        \* a setting that is absent or empty
  MaxRuns,      \* bound: runs of the wizard
  MaxEdits      \* bound: what the operator does between runs

Multiplexers == {"cmux", "tmux"}
SecretKeys == {Secrets[i] : i \in 1..Len(Secrets)}
RouteKeys == {"mail", "to"}
Keys == SecretKeys \cup RouteKeys \cup {"surface", "notifier"}
Participants == {Owner[m] : m \in Mailboxes}

ASSUME SetupAssumption ==
  /\ Owner \in [Mailboxes -> Participants] /\ Kind \in [Panes -> Multiplexers]
  /\ Secrets \in Seq({"bot", "app"}) /\ Secrets # << >>
  /\ Blank \notin Mailboxes \cup Participants \cup Panes \cup {"good", "spoiled", "cmux", "tmux"}
  /\ MaxRuns \in Nat /\ MaxEdits \in Nat

(* What a key may be set to, when it is.                                   *)
Values(k) == CASE k = "mail"     -> Mailboxes
               [] k = "to"       -> Participants
               [] k = "surface"  -> Panes
               [] k = "notifier" -> Multiplexers
               [] OTHER          -> {"good"}

VARIABLES
  env,          \* bridge.env: what each key is set to
  file,         \* bridge.env as a file: there, sound (private, every key and
                \* value one the loader takes), and tail, the key whose line is
                \* the last and lacks its newline
  allow,        \* allowlist.json: absent, torn (opened, not written), deny, list
  tokens,       \* tokens[s]: the token file for s: none, right, wrong (no s in
                \* it) or unfit (not private, empty, unreadable)
  bridge,       \* the bridge of this root: down, or what its config rings
  pc,           \* the next step of the run, "off" between runs
  run,          \* the run's answers and summary; kept when the run is over
  found,        \* history: the files as the run found them
  chosen,       \* history: the routes the operator has named as a pair
  runs, edits   \* runs and edits so far

vars == <<env, file, allow, tokens, bridge, pc, run, found, chosen, runs, edits>>
config == <<env, file>>

NoRoute == [k \in RouteKeys |-> Blank]
Routes == {r \in [RouteKeys -> Mailboxes \cup Participants] :
             r["mail"] \in Mailboxes /\ r["to"] \in Participants}
Rings == {"configured", "helper"}
NoRun == [mode |-> "none", route |-> NoRoute, got |-> << >>, existed |-> FALSE,
          pane |-> Blank, ring |-> "not configured", delivers |-> FALSE,
          resident |-> "none"]

NoEnv == [k \in Keys |-> Blank]
NoFile == [there |-> FALSE, sound |-> TRUE, tail |-> Blank]
NoFound == [env |-> NoEnv, file |-> NoFile, allow |-> "absent"]

(* What the loader makes of bridge.env.                                    *)
Loads(e, f) == f.there /\ f.sound /\ \A s \in SecretKeys : e[s] # Blank
Named(e) == [k \in RouteKeys |-> e[k]]
IsRoute(r) == r["mail"] # Blank /\ r["to"] # Blank
NotifierOf(e) == IF e["notifier"] = Blank THEN "cmux" ELSE e["notifier"]

(* The first cycle of a bridge refuses a mailbox that is not its agent's.  *)
Runs(e, f) == Loads(e, f) /\ (e["mail"] # Blank => Owner[e["mail"]] = e["to"])
Rung(e) == IF e["mail"] # Blank \/ e["surface"] # Blank THEN "bell" ELSE "silent"

(* Settings added below what is there, each on a line of its own; lines is *)
(* a value for every key, Blank for those that are not added.              *)
NoLines == [k \in Keys |-> Blank]
LastLine(lines) == IF lines = NoLines THEN file.tail ELSE Blank
(* Slip: the first of them is joined onto a last line without its newline. *)
AddLinesJoined(lines) ==
  /\ \E first \in {k \in Keys : lines[k] # Blank \/ lines = NoLines} :
       env' = [k \in Keys |->
                 IF lines # NoLines /\ k = file.tail THEN "spoiled"
                 ELSE IF lines[k] # Blank /\ (file.tail = Blank \/ k # first)
                 THEN lines[k] ELSE env[k]]
  /\ file' = [file EXCEPT !.tail = LastLine(lines)]
AddLines(lines) ==
  /\ env' = [k \in Keys |-> IF lines[k] # Blank THEN lines[k] ELSE env[k]]
  /\ file' = [file EXCEPT !.tail = LastLine(lines)]

Goto(next, r) == pc' = next /\ run' = r
Outside == UNCHANGED <<found, chosen, runs, edits>>

Init ==
  /\ env = NoEnv /\ file = NoFile
  /\ allow = "absent" /\ tokens = [s \in SecretKeys |-> "none"] /\ bridge = "down"
  /\ pc = "off" /\ run = NoRun /\ found = NoFound
  /\ chosen = {} /\ runs = 0 /\ edits = 0

(***************************************************************************)
(* The run.                                                                *)
(***************************************************************************)
Begin ==
  /\ pc = "off" /\ runs < MaxRuns
  /\ \E r \in Routes \cup {NoRoute} :
       /\ Goto("tokens", [NoRun EXCEPT !.route = r,
                            !.mode = IF r = NoRoute THEN "standalone" ELSE "integrated"])
       /\ chosen' = chosen \cup ({r} \ {NoRoute})
  /\ found' = [env |-> env, file |-> file, allow |-> allow]
  /\ runs' = runs + 1 /\ UNCHANGED <<config, allow, tokens, bridge, edits>>

(* One token: typed, where a wrong or blank one is left out, or consumed   *)
(* from its file.  An unfit file is refused and stays; a fit one is        *)
(* removed before it is known whether what it held is the platform's.      *)
Asked == Secrets[Len(run.got) + 1]
Got(v) ==
  LET got == Append(run.got, v)
  IN  Goto(IF Len(got) = Len(Secrets) THEN "env" ELSE "tokens", [run EXCEPT !.got = got])
TypeToken ==
  /\ pc = "tokens" /\ \E v \in {"good", Blank} : Got(v)
  /\ UNCHANGED <<config, allow, tokens, bridge>> /\ Outside
ReadTokenFile ==
  /\ pc = "tokens"
  /\ tokens' = [tokens EXCEPT ![Asked] = IF @ = "unfit" THEN @ ELSE "none"]
  /\ IF tokens[Asked] = "right" THEN Got("good") ELSE Goto("off", run)
  /\ UNCHANGED <<config, allow, bridge>> /\ Outside

AfterEnv == IF run.mode = "integrated" THEN "route" ELSE "allow"
KeepEnv ==
  /\ pc = "env" /\ file.there
  /\ Goto(AfterEnv, [run EXCEPT !.existed = TRUE])
  /\ UNCHANGED <<config, allow, tokens, bridge>> /\ Outside
OpenEnv ==
  /\ pc = "env" /\ ~file.there
  /\ env' = NoEnv /\ Goto("writeEnv", run)
  /\ file' = [NoFile EXCEPT !.there = TRUE]
  /\ UNCHANGED <<allow, tokens, bridge>> /\ Outside
WriteEnv ==
  /\ pc = "writeEnv"
  /\ env' = [k \in Keys |-> IF k \in RouteKeys THEN run.route[k]
                            ELSE IF k \in SecretKeys
                            THEN run.got[CHOOSE i \in 1..Len(Secrets) : Secrets[i] = k]
                            ELSE Blank]
  /\ Goto(AfterEnv, run) /\ UNCHANGED <<file, allow, tokens, bridge>> /\ Outside

(* A kept config takes a route whole or not at all.                        *)

(* Slip: only the mailbox is compared.                                     *)
MailDisagrees(e, r) == e["mail"] # Blank /\ e["mail"] # r["mail"]
Disagrees(e, r) == \E k \in RouteKeys : e[k] # Blank /\ e[k] # r[k]

RouteLines == [k \in Keys |-> IF run.existed /\ k \in RouteKeys /\ env[k] = Blank
                               THEN run.route[k] ELSE Blank]
RouteTaken ==
  /\ pc = "route" /\ (run.existed => Loads(env, file) /\ ~Disagrees(env, run.route))
  /\ AddLines(RouteLines)
  /\ Goto("allow", run) /\ UNCHANGED <<allow, tokens, bridge>> /\ Outside
(* Slip: a refusal goes on as a standalone install.                        *)
Downgraded == Goto("allow", [run EXCEPT !.mode = "standalone"])
Stopped == Goto("off", [run EXCEPT !.mode = "refused", !.resident = "not started"])
RouteRefused ==
  /\ pc = "route" /\ run.existed /\ (~Loads(env, file) \/ Disagrees(env, run.route))
  /\ Stopped /\ UNCHANGED <<config, allow, tokens, bridge>> /\ Outside

(* What the gate on disk lets through, whatever was answered.              *)
Delivers(a) == a = "list"
KeepAllow ==
  /\ pc = "allow" /\ allow # "absent"
  /\ Goto("ring", [run EXCEPT !.delivers = Delivers(allow)])
  /\ UNCHANGED <<config, allow, tokens, bridge>> /\ Outside
OpenAllow ==
  /\ pc = "allow" /\ allow = "absent"
  /\ allow' = "torn" /\ Goto("writeAllow", run)
  /\ UNCHANGED <<config, tokens, bridge>> /\ Outside
WriteAllow ==
  /\ pc = "writeAllow"
  /\ \E a \in {"deny", "list"} :
       /\ a = "list" => \A i \in 1..Len(run.got) : run.got[i] # Blank
       /\ allow' = a /\ Goto("ring", [run EXCEPT !.delivers = Delivers(a)])
  /\ UNCHANGED <<config, tokens, bridge>> /\ Outside

(* The ring: the letterbox's own, or the pane the operator names.          *)
UseHelper ==
  /\ pc = "ring" /\ run.mode = "integrated"
  /\ Goto("resident", [run EXCEPT !.ring = "helper"])
  /\ UNCHANGED <<config, allow, tokens, bridge>> /\ Outside
NoPane ==
  /\ pc = "ring" /\ run.mode # "integrated"
  /\ Goto("resident", run) /\ UNCHANGED <<config, allow, tokens, bridge>> /\ Outside

(* A surface that is kept keeps the notifier it has.                       *)
RingLines(p) ==
  [k \in Keys |-> IF env["surface"] # Blank \/ env[k] # Blank THEN Blank
                  ELSE IF k = "surface" THEN p
                  ELSE IF k = "notifier" THEN Kind[p] ELSE Blank]
(* Slip: a surface is all a ring needs.                                    *)
HasSurface(e, p) == e["surface"] # Blank
Agrees(e, p) == e["surface"] # Blank /\ NotifierOf(e) = Kind[p]
NamePane(p) ==
  /\ pc = "ring" /\ run.mode # "integrated"
  /\ AddLines(IF run.existed /\ ~Loads(env, file) THEN NoLines ELSE RingLines(p))
  /\ Goto("resident", [run EXCEPT !.pane = p,
            !.ring = IF Loads(env', file') /\ Agrees(env', p)
                     THEN "configured" ELSE "not configured"])
  /\ UNCHANGED <<allow, tokens, bridge>> /\ Outside

(* The bridge that is offered.                                             *)
Unoffered ==
  /\ pc = "resident"
  /\ \E why \in {"unsupported", "already running", "incomplete", "printed"} :
       /\ why = "already running" => bridge # "down"
       /\ why = "incomplete" => bridge = "down" /\ run.ring \notin Rings
       /\ why = "printed" => bridge = "down" /\ run.ring \in Rings
       /\ Goto("off", [run EXCEPT !.resident = why])
  /\ UNCHANGED <<config, allow, tokens, bridge>> /\ Outside
(* Slip: a poller is offered whatever rings.                               *)
AlwaysStart(r) == TRUE
MayStart(r) == r.ring \in Rings
Up(e, f) == IF Runs(e, f) THEN Rung(e) ELSE "down"
StartResident ==
  /\ pc = "resident" /\ bridge = "down" /\ MayStart(run)
  /\ bridge' = Up(env, file) /\ Goto("off", [run EXCEPT !.resident = "started"])
  /\ UNCHANGED <<config, allow, tokens>> /\ Outside

(* Ctrl-C, or a death: no summary.                                         *)
Interrupt ==
  /\ pc # "off" /\ Goto("off", run)
  /\ UNCHANGED <<config, allow, tokens, bridge>> /\ Outside

(***************************************************************************)
(* The operator, between runs, and the bridge.                             *)
(***************************************************************************)
Edit ==
  /\ pc = "off" /\ edits < MaxEdits /\ edits' = edits + 1 /\ run' = NoRun
  /\ found' = NoFound /\ UNCHANGED <<bridge, pc, runs>>

EditSetting(k, v, tail) ==
  /\ Edit /\ file.there /\ v # env[k]
  /\ env' = [env EXCEPT ![k] = v]
  /\ file' = [file EXCEPT !.tail = tail]
  /\ chosen' = IF IsRoute(Named(env')) THEN chosen \cup {Named(env')} ELSE chosen
  /\ UNCHANGED <<allow, tokens>>
EditFile ==
  /\ Edit /\ file.there /\ file' = [file EXCEPT !.sound = ~@]
  /\ UNCHANGED <<env, allow, tokens, chosen>>
EditAllow(a) ==
  /\ Edit /\ allow # a /\ allow' = a /\ UNCHANGED <<config, tokens, chosen>>
SupplyToken(s, kind) ==
  /\ Edit /\ tokens[s] # kind /\ tokens' = [tokens EXCEPT ![s] = kind]
  /\ UNCHANGED <<config, allow, chosen>>

StartByHand ==
  /\ bridge = "down" /\ Runs(env, file) /\ bridge' = Rung(env)
  /\ UNCHANGED <<config, allow, tokens, pc, run>> /\ Outside
BridgeEnds ==
  /\ bridge # "down" /\ bridge' = "down"
  /\ UNCHANGED <<config, allow, tokens, pc, run>> /\ Outside

Wizard ==
  \/ Begin \/ TypeToken \/ ReadTokenFile \/ KeepEnv \/ OpenEnv \/ WriteEnv
  \/ RouteTaken \/ RouteRefused \/ KeepAllow \/ OpenAllow \/ WriteAllow
  \/ UseHelper \/ NoPane \/ (\E p \in Panes : NamePane(p))
  \/ Unoffered \/ StartResident \/ Interrupt
Operator ==
  \/ \E k \in Keys :
       \E v \in Values(k) \cup {Blank}, tail \in {Blank, k} :
         EditSetting(k, v, tail)
  \/ EditFile \/ (\E a \in {"deny", "list"} : EditAllow(a))
  \/ \E s \in SecretKeys, kind \in {"right", "wrong", "unfit"} : SupplyToken(s, kind)
  \/ StartByHand
Next == Wizard \/ Operator \/ BridgeEnds
Spec == Init /\ [][Next]_vars

(***************************************************************************)
(* Properties.                                                             *)
(***************************************************************************)
Settings == Mailboxes \cup Participants \cup Panes \cup Multiplexers \cup {"good", Blank}
Typed(e) ==
  /\ e["mail"] \in Mailboxes \cup {Blank} /\ e["to"] \in Participants \cup {Blank}
  /\ e["surface"] \in Panes \cup {Blank} /\ e["notifier"] \in Multiplexers \cup {Blank}
  /\ \A s \in SecretKeys : e[s] \in {"good", Blank}
File == [there : BOOLEAN, sound : BOOLEAN, tail : Keys \cup {Blank}]
Run == [mode : {"none", "standalone", "integrated", "refused"},
        route : Routes \cup {NoRoute}, got : Seq({"good", Blank}),
        existed : BOOLEAN, pane : Panes \cup {Blank},
        ring : {"not configured", "configured", "helper"}, delivers : BOOLEAN,
        resident : {"none", "not started", "unsupported", "already running",
                    "incomplete", "printed", "started"}]

(* Every variable has its type.                                            *)
TypeOK ==
  /\ env \in [Keys -> Settings] /\ Typed(env)
  /\ file \in File
  /\ allow \in {"absent", "torn", "deny", "list"}
  /\ tokens \in [SecretKeys -> {"none", "right", "wrong", "unfit"}]
  /\ bridge \in {"down", "silent", "bell"}
  /\ pc \in {"off", "tokens", "env", "writeEnv", "route", "allow", "writeAllow",
             "ring", "resident"}
  /\ run \in Run /\ (pc = "tokens" => Len(run.got) < Len(Secrets))
  /\ pc \in {"env", "writeEnv"} => Len(run.got) = Len(Secrets)
  /\ found \in [env : [Keys -> Settings], file : File,
                allow : {"absent", "torn", "deny", "list"}]
  /\ chosen \subseteq Routes

(* A mailbox and a participant are one route: the config never names a     *)
(* pair the operator has not named as a pair, in one run or by an edit,    *)
(* whatever halves the kept config held (_persist_mailbox).                *)
RouteIsOnePair == IsRoute(Named(env)) => Named(env) \in chosen

(* A refusal is terminal: a run whose route the config it found cannot     *)
(* take leaves config and allowlist as they were and starts nothing.       *)
Refusable ==
  /\ found.file.there /\ IsRoute(run.route)
  /\ ~Loads(found.env, found.file) \/ Disagrees(found.env, run.route)
AsFound == env = found.env /\ file = found.file /\ allow = found.allow
RefusedLeavesAlone == Refusable => AsFound /\ run.resident # "started"

Finished == pc = "off" /\ run.resident # "none"

(* A summary is "never a wish": what a finished run says it set up is in   *)
(* the files.  "integrated" is said over the route it was asked for, and   *)
(* without it no route was added; "configured" over a config that loads,   *)
(* rings the picked pane or one found there, and has the picked pane's     *)
(* notifier; "helper" over a route; "delivers" over an open gate, and only *)
(* then.  That nothing else is set up is not said, see StandaloneIsSo.     *)
NeverAWish ==
  Finished =>
    /\ run.mode = "integrated" => IsRoute(run.route) /\ Named(env) = run.route
    /\ run.mode # "integrated" => Named(env) = Named(found.env)
    /\ run.ring = "configured" =>
         /\ Loads(env, file) /\ NotifierOf(env) = Kind[run.pane]
         /\ env["surface"] \in {run.pane, found.env["surface"]} \ {Blank}
    /\ run.ring = "helper" => run.mode = "integrated"
    /\ run.mode # "refused" => (run.delivers <=> allow = "list")

(* A bridge that setup starts has a bell: the config it loads names the    *)
(* ring before the offer is made (_offer_resident).                        *)
StartedRings == pc = "off" /\ run.resident = "started" => bridge # "silent"

(* A run takes nothing back: no setting, secret or written allowlist it    *)
(* finds changes under it, wherever it stops and however the config ends.  *)
KeptIsKept ==
  [][pc # "off" =>
       /\ \A k \in Keys : env[k] # Blank => env'[k] = env[k]
       /\ file.there => file'.there /\ file'.sound = file.sound
       /\ allow \in {"deny", "list"} => allow' = allow]_vars

----------------------------------------------------------------------------
(* Statements of the source's comments that the code does not keep.        *)

(* wizard.py, init: the summary "said standalone while the runtime went on *)
(* reading the old mailbox".  A "no" over a config with a route says so.   *)
StandaloneIsSo == Finished /\ run.mode = "standalone" => ~IsRoute(Named(env))

(* wizard.py, _persist_ring: never "a pair that cannot both be true".  A   *)
(* kept surface is called configured on the word of its kept notifier.     *)
SurfaceIsOfNotifier ==
  Finished /\ run.ring = "configured" => NotifierOf(env) = Kind[env["surface"]]
=============================================================================
