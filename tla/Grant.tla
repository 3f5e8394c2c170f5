------------------------------- MODULE Grant -------------------------------
(***************************************************************************)
(* The grant store (grant/store.py), the labels (initiate/destinations.py) *)
(* and the commands over them (cli._grant_admin), with the check a sender  *)
(* makes before it posts (initiate/send.py).                               *)
(*                                                                         *)
(* A grant is a payload and a ready marker, published in steps that any    *)
(* reader may fall between: payload on disk, name claimed, payload renamed *)
(* into it, directory synced, marker created, directory synced.  --limits  *)
(* and --disable read the payload and replace it.  No step takes a lock.   *)
(* A process may die at any step, a call may fail, and power may be lost,  *)
(* which undoes any change of a name that has not been synced.             *)
(*                                                                         *)
(* Abstracted: the private temporary file (written and synced before it is *)
(* renamed, it is never read), modes and links (the files are as the code  *)
(* makes them), the several limits (one number), expiry (no command sets   *)
(* one), fields that do not parse.                                         *)
(***************************************************************************)
EXTENDS Naturals, FiniteSets

CONSTANTS
  Procs,        \* the processes that run commands and checks
  Labels,       \* destination labels, each with a chat of its own
  Ids,          \* grant ids, drawn at random: a create takes a fresh one
  ChatOf,       \* ChatOf[g]: the label whose chat g is for
  None,
  MaxFaults     \* bound: deaths, failed calls, power cuts

ASSUME GrantAssumption ==
  /\ ChatOf \in [Ids -> Labels] /\ None \notin Ids /\ MaxFaults \in Nat

Record == [enabled : BOOLEAN, limited : BOOLEAN]
NewRecord == [enabled |-> TRUE, limited |-> FALSE]
NoFile == [file |-> "none"]
Claimed == [file |-> "empty"]
Payload == Record \cup {NoFile, Claimed}

VARIABLES
  json,         \* json[g]: the file <g>.json
  ready,        \* ready[g]: the file <g>.ready exists
  kept,         \* what of the two a power cut cannot take back
  labels,       \* destinations.json
  used,         \* ids that were drawn
  pc,           \* pc[p]: the next step of p
  job,          \* job[p]: its locals
  revoked,      \* history: grants --disable has reported disabled
  revived,      \* history: grants a --limits made enabled again
  failed,       \* history: grants whose create was undone
  faults        \* history: faults so far

disk   == <<json, ready, kept>>
ghosts == <<revoked, revived, failed, faults>>
vars == <<disk, labels, used, pc, job, ghosts>>

Ops == {"create", "limits", "disable", "check"}
Steps == {"idle", "claim", "replace", "sync", "mark", "verify", "seal", "undo",
          "unmark", "bind", "bindWrite", "look", "read", "list", "scan", "scanRead",
          "recheck", "granted"}
Job == [op : Ops, grant : Ids \cup {None}, rec : Record, size : 0..3,
        table : [Labels -> Ids \cup {None}], todo : SUBSET Ids,
        at : Ids \cup {None}, found : SUBSET Ids, late : BOOLEAN,
        seen : BOOLEAN, rivals : SUBSET Ids]
NoJob == [op |-> "check", grant |-> None, rec |-> NewRecord, size |-> 0,
          table |-> [l \in Labels |-> None], todo |-> {}, at |-> None,
          found |-> {}, late |-> FALSE, seen |-> FALSE, rivals |-> {}]

Fault == faults < MaxFaults /\ faults' = faults + 1
Goto(p, step) == pc' = [pc EXCEPT ![p] = step] /\ UNCHANGED job
Move(p, step, locals) ==
  /\ pc' = [pc EXCEPT ![p] = step]
  /\ job' = [job EXCEPT ![p] = locals]
Exit(p) == Move(p, "idle", NoJob)
Doing(p, step) == pc[p] = step
Mine(p) == job[p].grant
Enabled(g) == json[g] \in Record /\ json[g].enabled
Published(g) == ready[g] /\ json[g] \in Record
Sync == kept' = [json |-> json, ready |-> ready]

Begin(p, op, g, step) ==
  Move(p, step, [NoJob EXCEPT !.op = op, !.grant = g, !.late = g \in revoked])

Init ==
  /\ json = [g \in Ids |-> NoFile] /\ ready = [g \in Ids |-> FALSE]
  /\ kept = [json |-> json, ready |-> ready]
  /\ labels = [l \in Labels |-> None] /\ used = {}
  /\ pc = [p \in Procs |-> "idle"]
  /\ job = [p \in Procs |-> NoJob]
  /\ revoked = {} /\ revived = {} /\ failed = {} /\ faults = 0

----------------------------------------------------------------------------
(* --grant-create: create(), _publish(exclusive=True), then bind().        *)

Create(p, g) ==
  /\ Doing(p, "idle") /\ g \notin used
  /\ used' = used \cup {g}
  /\ Begin(p, "create", g, "claim")
  /\ UNCHANGED <<disk, labels, ghosts>>

Claim(p) ==
  /\ Doing(p, "claim")
  /\ json' = [json EXCEPT ![Mine(p)] = Claimed]
  /\ Goto(p, "replace")
  /\ UNCHANGED <<ready, kept, labels, used, ghosts>>

(* Also of --limits and --disable: whatever the payload is by now.         *)
Replace(p) ==
  /\ Doing(p, "replace")
  /\ json' = [json EXCEPT ![Mine(p)] = job[p].rec]
  /\ revived' = IF /\ json[Mine(p)] \in Record /\ ~json[Mine(p)].enabled
                   /\ job[p].op = "limits" /\ job[p].seen
                  THEN revived \cup {Mine(p)} ELSE revived
  /\ Goto(p, "sync")
  /\ UNCHANGED <<ready, kept, labels, used, revoked, failed, faults>>

(* A slip that marks the grant before its payload is safe.                 *)
SyncLater(p) ==
  /\ Doing(p, "sync")
  /\ Goto(p, IF job[p].op = "create" THEN "mark" ELSE "verify")
  /\ UNCHANGED <<disk, labels, used, ghosts>>

SyncPayload(p) ==
  /\ Doing(p, "sync")
  /\ Sync
  /\ Goto(p, IF job[p].op = "create" THEN "mark" ELSE "verify")
  /\ UNCHANGED <<json, ready, labels, used, ghosts>>

(* The commit point.                                                       *)
Mark(p) ==
  /\ Doing(p, "mark")
  /\ ready' = [ready EXCEPT ![Mine(p)] = TRUE]
  /\ Goto(p, "seal")
  /\ UNCHANGED <<json, kept, labels, used, ghosts>>

(* A slip that goes on to the label before the marker is safe.             *)
SealUnsynced(p) ==
  /\ Doing(p, "seal")
  /\ IF job[p].op = "create" THEN Goto(p, "bind") ELSE Exit(p)
  /\ revoked' = IF job[p].op = "disable" THEN revoked \cup {Mine(p)} ELSE revoked
  /\ UNCHANGED <<disk, labels, used, revived, failed, faults>>

Seal(p) ==
  /\ Doing(p, "seal")
  /\ Sync
  /\ IF job[p].op = "create" THEN Goto(p, "bind") ELSE Exit(p)
  /\ revoked' = IF job[p].op = "disable" THEN revoked \cup {Mine(p)} ELSE revoked
  /\ UNCHANGED <<json, ready, labels, used, revived, failed, faults>>

(* bind(): the table as it was read is written back with one label more.   *)
BindRead(p) ==
  /\ Doing(p, "bind")
  /\ Move(p, "bindWrite", [job[p] EXCEPT !.table = labels])
  /\ UNCHANGED <<disk, labels, used, ghosts>>

BindWrite(p) ==
  /\ Doing(p, "bindWrite")
  /\ labels' = [job[p].table EXCEPT ![ChatOf[Mine(p)]] = Mine(p)]
  /\ Exit(p)
  /\ UNCHANGED <<disk, used, ghosts>>

(* A call of _publish fails.  A sync that fails may have reached the disk. *)
(* A create takes back what it made; --limits and --disable say they       *)
(* failed and leave what they wrote.                                       *)
Breaks(p) ==
  /\ pc[p] \in {"claim", "replace", "sync", "mark", "verify", "seal"}
  /\ Fault
  /\ \/ UNCHANGED kept
     \/ pc[p] \in {"sync", "seal"} /\ Sync
  /\ IF job[p].op # "create" THEN Exit(p)
     ELSE IF Doing(p, "claim") THEN Exit(p) ELSE Goto(p, "undo")
  /\ UNCHANGED <<json, ready, labels, used, revoked, revived, failed>>

(* _cleanup_failed: the payload, then the marker; neither is synced, and   *)
(* either may fail unnoticed.                                              *)
Undo(p) ==
  /\ Doing(p, "undo")
  /\ \/ json' = [json EXCEPT ![Mine(p)] = NoFile] /\ UNCHANGED faults
     \/ UNCHANGED json /\ Fault
  /\ IF ready[Mine(p)] THEN Goto(p, "unmark") ELSE Exit(p)
  /\ failed' = failed \cup {Mine(p)}
  /\ UNCHANGED <<ready, kept, labels, used, revoked, revived>>

Unmark(p) ==
  /\ Doing(p, "unmark")
  /\ \/ ready' = [ready EXCEPT ![Mine(p)] = FALSE] /\ UNCHANGED faults
     \/ UNCHANGED ready /\ Fault
  /\ Exit(p)
  /\ UNCHANGED <<json, kept, labels, used, revoked, revived, failed>>

----------------------------------------------------------------------------
(* --grant-limits and --grant-disable: the label's grant is loaded.        *)

Change(p, l) ==
  /\ Doing(p, "idle") /\ labels[l] # None
  /\ \E op \in {"limits", "disable"} : Begin(p, op, labels[l], "look")
  /\ UNCHANGED <<disk, labels, used, ghosts>>

(* "enabled": false is longer than true, and an override adds a field.     *)
Size(r) == (IF r.enabled THEN 0 ELSE 1) + (IF r.limited THEN 2 ELSE 0)

(* The marker, and the size of the payload.                                *)
Look(p) ==
  /\ Doing(p, "look")
  /\ IF Published(Mine(p))
       THEN Move(p, "read", [job[p] EXCEPT !.size = Size(json[Mine(p)])])
       ELSE Exit(p)
  /\ UNCHANGED <<disk, labels, used, ghosts>>

(* As many bytes as the size said: a payload that grew in between does not *)
(* parse.                                                                  *)
Parses(p, g) == json[g] \in Record /\ Size(json[g]) <= job[p].size

(* A slip by which --limits writes a fresh record.                         *)
Renewed(op, r) ==
  CASE op = "limits" -> [enabled |-> TRUE, limited |-> TRUE]
    [] op = "disable" -> [r EXCEPT !.enabled = FALSE]
    [] OTHER -> r

Amended(op, r) ==
  CASE op = "limits" -> [r EXCEPT !.limited = TRUE]
    [] op = "disable" -> [r EXCEPT !.enabled = FALSE]
    [] OTHER -> r

Read(p) ==
  /\ Doing(p, "read")
  /\ IF Parses(p, Mine(p))
       THEN IF job[p].op # "check"
              THEN Move(p, "replace",
                        [job[p] EXCEPT !.rec = Amended(job[p].op, json[Mine(p)]),
                                       !.seen = json[Mine(p)].enabled, !.size = 0])
            ELSE IF json[Mine(p)].enabled
                   THEN Move(p, "list", [job[p] EXCEPT !.size = 0])
                   ELSE Exit(p)
       ELSE Exit(p)
  /\ UNCHANGED <<disk, labels, used, ghosts>>

Verify(p) ==
  /\ Doing(p, "verify")
  /\ IF ready[Mine(p)] THEN Goto(p, "seal") ELSE Exit(p)
  /\ UNCHANGED <<disk, labels, used, ghosts>>

----------------------------------------------------------------------------
(* A sender's check: the grant of its label or of its queued message, and  *)
(* require_granted over all of them, which must come to the same.          *)

Check(p, g) ==
  /\ Doing(p, "idle") /\ g \in used
  /\ Begin(p, "check", g, "look")
  /\ UNCHANGED <<disk, labels, used, ghosts>>

List(p) ==
  /\ Doing(p, "list")
  /\ Move(p, "scan", [job[p] EXCEPT
       !.todo = {g \in Ids : json[g] # NoFile},
       !.rivals = {g \in Ids \ {Mine(p)} :
                     ChatOf[g] = ChatOf[Mine(p)] /\ Published(g) /\ Enabled(g)}])
  /\ UNCHANGED <<disk, labels, used, ghosts>>

Scan(p, g) ==
  /\ Doing(p, "scan") /\ g \in job[p].todo
  /\ Move(p, IF Published(g) THEN "scanRead" ELSE "recheck",
          [job[p] EXCEPT !.at = g, !.todo = @ \ {g},
                         !.size = IF Published(g) THEN Size(json[g]) ELSE 0])
  /\ UNCHANGED <<disk, labels, used, ghosts>>

ScanRead(p) ==
  /\ Doing(p, "scanRead")
  /\ LET g == job[p].at IN
       IF Parses(p, g)
         THEN Move(p, "scan", [job[p] EXCEPT !.at = None, !.size = 0, !.found =
                IF Enabled(g) /\ ChatOf[g] = ChatOf[Mine(p)] THEN @ \cup {g} ELSE @])
         ELSE Move(p, "recheck", [job[p] EXCEPT !.size = 0])
  /\ UNCHANGED <<disk, labels, used, ghosts>>

(* A grant that does not read is passed over only if it has no marker.     *)
Recheck(p) ==
  /\ Doing(p, "recheck")
  /\ IF ready[job[p].at] THEN Exit(p)
                         ELSE Move(p, "scan", [job[p] EXCEPT !.at = None])
  /\ UNCHANGED <<disk, labels, used, ghosts>>

(* A slip that is content with any enabled grant of the chat.              *)
AnyFound(p) == Mine(p) \in job[p].found

OnlyFound(p) == job[p].found = {Mine(p)}

Verdict(p) ==
  /\ Doing(p, "scan") /\ job[p].todo = {}
  /\ IF OnlyFound(p) THEN Goto(p, "granted") ELSE Exit(p)
  /\ UNCHANGED <<disk, labels, used, ghosts>>

Posted(p) ==
  /\ Doing(p, "granted")
  /\ Exit(p)
  /\ UNCHANGED <<disk, labels, used, ghosts>>

----------------------------------------------------------------------------
Die(p) ==
  /\ ~Doing(p, "idle")
  /\ Fault
  /\ Exit(p)
  /\ UNCHANGED <<disk, labels, used, revoked, revived, failed>>

(* What was not synced may be as it was, as it is, or as it was in between.*)
PowerCut ==
  /\ Fault
  /\ pc' = [p \in Procs |-> "idle"] /\ job' = [p \in Procs |-> NoJob]
  /\ json' \in [Ids -> Payload] /\ ready' \in [Ids -> BOOLEAN]
  /\ \A g \in Ids :
       /\ json'[g] \in {json[g], kept.json[g]} \cup
            (IF json[g] \in Record /\ kept.json[g] = NoFile THEN {Claimed} ELSE {})
       /\ ready'[g] \in {ready[g], kept.ready[g]}
  /\ kept' = [json |-> json', ready |-> ready']
  /\ UNCHANGED <<labels, used, revoked, revived, failed>>

Step(p) ==
  \/ \E g \in Ids : Create(p, g) \/ Check(p, g) \/ Scan(p, g)
  \/ \E l \in Labels : Change(p, l)
  \/ Claim(p) \/ Replace(p) \/ SyncPayload(p) \/ Mark(p) \/ Seal(p) \/ BindRead(p)
  \/ BindWrite(p) \/ Breaks(p) \/ Undo(p) \/ Unmark(p)
  \/ Look(p) \/ Read(p) \/ Verify(p)
  \/ List(p) \/ ScanRead(p) \/ Recheck(p) \/ Verdict(p) \/ Posted(p)
  \/ Die(p)

Next == PowerCut \/ \E p \in Procs : Step(p)
Spec == Init /\ [][Next]_vars

----------------------------------------------------------------------------
(* Every variable keeps its type.                                          *)
TypeOK ==
  /\ json \in [Ids -> Payload] /\ ready \in [Ids -> BOOLEAN]
  /\ kept \in [json : [Ids -> Payload], ready : [Ids -> BOOLEAN]]
  /\ labels \in [Labels -> Ids \cup {None}] /\ used \subseteq Ids
  /\ pc \in [Procs -> Steps] /\ job \in [Procs -> Job]
  /\ revoked \subseteq Ids /\ revived \subseteq Ids /\ failed \subseteq Ids
  /\ faults \in 0..MaxFaults

(* The ready marker vouches for a whole payload, whatever died and         *)
(* whenever the power went: only a create that is being taken back leaves  *)
(* a marker alone.                                                         *)
MarkedIsWhole ==
  \A g \in Ids : ready[g] => json[g] \in Record \/ g \in failed

(* A label leads to a grant no power cut can take back (create() comes     *)
(* back before bind() is called).                                          *)
LabelledIsKept ==
  \A l \in Labels : labels[l] # None =>
    kept.json[labels[l]] \in Record /\ kept.ready[labels[l]]

(* Two enabled grants for one chat authorise nothing: every rival that a   *)
(* check has listed and passed over is disabled, taken back, or came back  *)
(* only by a --limits that had read it before.                             *)
RivalsRefuse ==
  \A p \in Procs : Doing(p, "granted") =>
    \A g \in job[p].rivals : g \in revoked \cup revived \/ ~Enabled(g) \/ ~ready[g]

(* What --disable has reported disabled is not granted to a check begun    *)
(* afterwards, except through a --limits that had read it before.          *)
OnlyRacesRevive ==
  \A p \in Procs : Doing(p, "granted") /\ job[p].late => Mine(p) \in revived

(* README.md: a grant the operator can revoke at any time.                 *)
RevokedStaysRevoked ==
  \A p \in Procs : Doing(p, "granted") => ~job[p].late
=============================================================================
