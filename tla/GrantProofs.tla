---------------------------- MODULE GrantProofs ----------------------------
(***************************************************************************)
(* Proofs about Grant, for any number of processes, labels, grants and     *)
(* faults.                                                                 *)
(***************************************************************************)
EXTENDS Grant, TLAPS

Op(p) == job[p].op
Creating == {"claim", "replace", "sync", "mark", "seal", "undo", "unmark", "bind", "bindWrite"}
Scanning == {"scan", "scanRead", "recheck", "granted"}

(* A process that may still take its grant back, and whose grant it is.    *)
Making(p) == Op(p) = "create" /\ pc[p] \in Creating \ {"bind", "bindWrite"}
Made(g) == \A p \in Procs : Making(p) => Mine(p) # g

(* A grant nobody takes back and no power cut undoes.                      *)
Whole(g) ==
  /\ json[g] \in Record /\ ready[g] /\ kept.json[g] \in Record /\ kept.ready[g]
Safe(g) == g \in used /\ Whole(g) /\ Made(g)

(* The grants a label leads to, or will, or that a command works on.       *)
Relied(g) ==
  \/ \E l \in Labels : labels[l] = g
  \/ \E p \in Procs : /\ Mine(p) = g
                      /\ \/ Op(p) = "create" /\ pc[p] \in {"bind", "bindWrite"}
                         \/ Op(p) \in {"limits", "disable"} /\ pc[p] # "idle"
  \/ \E p \in Procs, l \in Labels : pc[p] = "bindWrite" /\ job[p].table[l] = g

(* What is done to a grant fits the command, and its id has been drawn by  *)
(* one create only.                                                        *)
Drawn ==
  /\ \A g \in Ids \ used : /\ json[g] = NoFile /\ ~ready[g]
                           /\ kept.json[g] = NoFile /\ ~kept.ready[g]
  /\ \A p \in Procs :
       /\ pc[p] # "idle" => Mine(p) \in used
       /\ pc[p] \in {"claim", "mark", "undo", "unmark", "bind", "bindWrite"} => Op(p) = "create"
       /\ pc[p] \in {"replace", "sync", "seal"} => Op(p) # "check"
       /\ pc[p] \in {"look", "read", "verify"} => Op(p) # "create"
       /\ pc[p] \in {"list"} \cup Scanning => Op(p) = "check"
       /\ pc[p] = "verify" => Op(p) # "check"
       /\ pc[p] \in {"scanRead", "recheck"} => job[p].at \in Ids
  /\ \A p, q \in Procs :
       p # q /\ pc[p] # "idle" /\ pc[q] # "idle" /\ Op(p) = "create" /\ Op(q) = "create"
         => Mine(p) # Mine(q)

(* How far a create has come.                                              *)
Half ==
  \A p \in Procs : Making(p) =>
    /\ pc[p] \in {"claim", "replace", "sync", "mark"} => ~ready[Mine(p)] /\ ~kept.ready[Mine(p)]
    /\ pc[p] \in {"sync", "mark", "seal"} => json[Mine(p)] \in Record
    /\ pc[p] \in {"mark", "seal"} => kept.json[Mine(p)] \in Record
    /\ pc[p] = "seal" => ready[Mine(p)]

(* What is relied on or was revoked is safe.                               *)
Vouched == \A g \in Ids : Relied(g) \/ g \in revoked => Safe(g)

(* A marker, also one a power cut may bring back, stands by a payload.     *)
Marked ==
  \A g \in Ids : ready[g] \/ kept.ready[g] =>
    g \in failed \/ (json[g] \in Record /\ kept.json[g] \in Record)

(* A revoked grant is disabled unless it was revived, and so is one that a *)
(* --disable has replaced; a --limits writes what it has seen.             *)
Off ==
  /\ \A g \in revoked \ revived : ~json[g].enabled /\ ~kept.json[g].enabled
  /\ \A p \in Procs :
       /\ Op(p) = "disable" /\ pc[p] \in {"sync", "verify", "seal"} =>
            Mine(p) \in revived \/ ~json[Mine(p)].enabled
       /\ pc[p] = "replace" /\ Op(p) = "limits" => (job[p].rec.enabled => job[p].seen)
       /\ pc[p] = "replace" /\ Op(p) = "disable" => ~job[p].rec.enabled

(* A check that was begun late only goes on if its grant was revived.      *)
Late ==
  \A p \in Procs :
    /\ pc[p] # "idle" /\ job[p].late => Mine(p) \in revoked
    /\ pc[p] \in {"list"} \cup Scanning /\ job[p].late => Mine(p) \in revived

(* A listed rival is still to be read, was found, or is out of the way.    *)
Passed(g) == g \in revoked \cup revived \/ ~Enabled(g) \/ ~ready[g]
Listed(g) ==
  g \in used /\ \A q \in Procs : Making(q) /\ Mine(q) = g => pc[q] \in {"seal", "undo", "unmark"}
Rivals ==
  \A p \in Procs : pc[p] \in Scanning =>
    /\ \A g \in job[p].rivals :
         /\ Listed(g) /\ g # Mine(p) /\ ChatOf[g] = ChatOf[Mine(p)]
         /\ \/ Passed(g) \/ g \in job[p].todo \/ g \in job[p].found
            \/ pc[p] \in {"scanRead", "recheck"} /\ g = job[p].at
    /\ pc[p] = "granted" => job[p].found = {Mine(p)} /\ job[p].todo = {}

IInv == TypeOK /\ Drawn /\ Half /\ Vouched /\ Marked /\ Off /\ Late /\ Rivals


(* What is in a file is a record, or is not.                               *)
LEMMA Files ==
  /\ NoFile \notin Record /\ Claimed \notin Record /\ NoFile # Claimed
  /\ NewRecord \in Record
<1>1. ASSUME NEW r \in Record PROVE r # NoFile /\ r # Claimed
  <2>1. DOMAIN r = {"enabled", "limited"}
    BY DEF Record
  <2>2. DOMAIN NoFile = {"file"} /\ DOMAIN Claimed = {"file"}
    BY DEF NoFile, Claimed
  <2>3. "enabled" \in DOMAIN r /\ "enabled" \notin {"file"}
    BY <2>1
  <2> QED BY <2>2, <2>3
<1>2. NoFile.file # Claimed.file
  BY DEF NoFile, Claimed
<1> QED BY <1>1, <1>2 DEF NewRecord, Record

(* The locals of an idle process are well typed.                           *)
LEMMA NoJobType == NoJob \in Job
<1>1. 0 \in 0..3 /\ [l \in Labels |-> None] \in [Labels -> Ids \cup {None}]
  OBVIOUS
<1> QED BY <1>1, Files DEF NoJob, Job, Ops

(* What a step on p leaves as it is: the command, its grant, and whether   *)
(* it was begun after the grant was revoked.                               *)
Same(j, k) == j.op = k.op /\ j.grant = k.grant /\ j.late = k.late
SameScan(j, k) == Same(j, k) /\ j.rivals = k.rivals /\ j.todo = k.todo /\ j.found = k.found

(* A command begins with no locals but these.                              *)
LEMMA BeginDoes ==
  ASSUME TypeOK, NEW p \in Procs, NEW op \in Ops, NEW g \in Ids, NEW step, Begin(p, op, g, step)
  PROVE  \E j \in Job : /\ Move(p, step, j)
                        /\ j.op = op /\ j.grant = g /\ j.late = (g \in revoked)
<1> DEFINE b == g \in revoked
           j == [NoJob EXCEPT !.op = op, !.grant = g, !.late = b]
<1>1. j \in Job /\ j.op = op /\ j.grant = g /\ j.late = b
  <2>1. b \in BOOLEAN
    OBVIOUS
  <2> HIDE DEF b
  <2> QED BY <2>1, NoJobType DEF Job
<1>2. Move(p, step, j)
  BY DEF Begin
<1> QED BY <1>1, <1>2

(* What is remembered of a look is the size.                               *)
LEMMA LookDoes ==
  ASSUME TypeOK, NEW p \in Procs, Look(p)
  PROVE  Exit(p) \/ \E j \in Job : Move(p, "read", j) /\ Same(j, job[p])
<1>1. CASE ~Published(Mine(p))
  BY <1>1 DEF Look
<1>2. CASE Published(Mine(p))
  <2> DEFINE j == [job[p] EXCEPT !.size = Size(json[Mine(p)])]
  <2>1. Size(json[Mine(p)]) \in 0..3
    BY DEF Size
  <2>2. j \in Job /\ Same(j, job[p])
    BY ZenonT(60), <2>1 DEF TypeOK, Job, Same
  <2>3. Move(p, "read", j)
    BY <1>2 DEF Look
  <2> QED BY <2>2, <2>3
<1> QED BY <1>1, <1>2

(* What a command read decides what it will write.                         *)
LEMMA ReadDoes ==
  ASSUME TypeOK, NEW p \in Procs, Read(p)
  PROVE  \/ Exit(p)
         \/ /\ Op(p) # "check"
            /\ \E j \in Job : /\ Move(p, "replace", j) /\ Same(j, job[p])
                              /\ Op(p) = "limits" => (j.rec.enabled => j.seen)
                              /\ Op(p) = "disable" => ~j.rec.enabled
         \/ /\ Op(p) = "check" /\ json[Mine(p)].enabled
            /\ \E j \in Job : Move(p, "list", j) /\ Same(j, job[p])
<1>1. CASE Parses(p, Mine(p)) /\ Op(p) # "check"
  <2> DEFINE r == Amended(Op(p), json[Mine(p)])
             e == json[Mine(p)].enabled
             j == [job[p] EXCEPT !.rec = r, !.seen = e, !.size = 0]
  <2>1. json[Mine(p)] \in Record
    BY <1>1 DEF Parses
  <2>2. /\ r \in Record
        /\ Op(p) = "limits" => r.enabled = e
        /\ Op(p) = "disable" => ~r.enabled
    BY <2>1 DEF Amended, Record
  <2>3. /\ j \in Job /\ j.rec = r /\ j.seen = e /\ Same(j, job[p])
    <3>1. job[p] \in Job /\ 0 \in 0..3 /\ e \in BOOLEAN /\ r \in Record
      BY <2>1, <2>2 DEF TypeOK, Record
    <3> HIDE DEF r, e
    <3>2. j \in Job
      BY <3>1 DEF Job
    <3>3. j.rec = r /\ j.seen = e /\ Same(j, job[p])
      BY <3>1 DEF Job, Same
    <3> QED BY <3>2, <3>3
  <2>4. Move(p, "replace", j)
    BY <1>1 DEF Read, Op
  <2> HIDE DEF j, r, e
  <2> QED BY <1>1, <2>1, <2>2, <2>3, <2>4
<1>2. CASE Parses(p, Mine(p)) /\ Op(p) = "check" /\ json[Mine(p)].enabled
  <2> DEFINE j == [job[p] EXCEPT !.size = 0]
  <2>1. j \in Job /\ Same(j, job[p])
    <3>1. job[p] \in Job /\ 0 \in 0..3
      BY DEF TypeOK
    <3> QED BY <3>1 DEF Job, Same
  <2>2. Move(p, "list", j)
    BY <1>2 DEF Read, Op
  <2> QED BY <1>2, <2>1, <2>2
<1>3. CASE ~Parses(p, Mine(p)) \/ (Op(p) = "check" /\ ~json[Mine(p)].enabled)
  BY <1>3 DEF Read, Op
<1> QED BY <1>1, <1>2, <1>3

(* What a scan lists, and whom it must not pass over.                      *)
LEMMA ListDoes ==
  ASSUME TypeOK, NEW p \in Procs, List(p)
  PROVE  \E j \in Job : /\ Move(p, "scan", j) /\ Same(j, job[p])
                        /\ j.todo = {g \in Ids : json[g] # NoFile}
                        /\ j.rivals = {g \in Ids \ {Mine(p)} :
                             ChatOf[g] = ChatOf[Mine(p)] /\ Published(g) /\ Enabled(g)}
<1> DEFINE T == {g \in Ids : json[g] # NoFile}
           R == {g \in Ids \ {Mine(p)} :
                   ChatOf[g] = ChatOf[Mine(p)] /\ Published(g) /\ Enabled(g)}
           j == [job[p] EXCEPT !.todo = T, !.rivals = R]
<1>1. T \subseteq Ids /\ R \subseteq Ids
  OBVIOUS
<1>2. Move(p, "scan", j)
  BY DEF List
<1>3. j \in Job /\ Same(j, job[p]) /\ j.todo = T /\ j.rivals = R
  <2> HIDE DEF T, R
  <2> QED BY ZenonT(60), <1>1 DEF TypeOK, Job, Same
<1> QED BY <1>2, <1>3

(* A scan takes one grant.                                                 *)
LEMMA ScanDoes ==
  ASSUME TypeOK, NEW p \in Procs, NEW g \in Ids, Scan(p, g)
  PROVE  \E j \in Job, step \in {"scanRead", "recheck"} :
           /\ Move(p, step, j) /\ Same(j, job[p])
           /\ j.at = g /\ j.todo = job[p].todo \ {g}
           /\ j.rivals = job[p].rivals /\ j.found = job[p].found
<1> DEFINE T == job[p].todo \ {g}
           z == IF Published(g) THEN Size(json[g]) ELSE 0
           j == [job[p] EXCEPT !.at = g, !.todo = T, !.size = z]
<1>1. T \subseteq Ids /\ z \in 0..3
  BY DEF TypeOK, Job, Size
<1>2. Move(p, IF Published(g) THEN "scanRead" ELSE "recheck", j)
  BY DEF Scan
<1>3. /\ j \in Job /\ Same(j, job[p]) /\ j.at = g /\ j.todo = T
      /\ j.rivals = job[p].rivals /\ j.found = job[p].found
  <2> HIDE DEF T, z
  <2> QED BY ZenonT(60), <1>1 DEF TypeOK, Job, Same
<1> QED BY <1>2, <1>3

(* A grant that reads enabled is found.                                    *)
LEMMA ScanReadDoes ==
  ASSUME TypeOK, NEW p \in Procs, ScanRead(p), job[p].at \in Ids
  PROVE  \/ \E j \in Job :
              /\ Move(p, "scan", j) /\ Same(j, job[p])
              /\ j.rivals = job[p].rivals /\ j.todo = job[p].todo
              /\ job[p].found \subseteq j.found
              /\ Enabled(job[p].at) /\ ChatOf[job[p].at] = ChatOf[Mine(p)]
                   => job[p].at \in j.found
         \/ \E j \in Job : Move(p, "recheck", j) /\ SameScan(j, job[p]) /\ j.at = job[p].at
<1>1. CASE Parses(p, job[p].at)
  <2> DEFINE g == job[p].at
             F == IF Enabled(g) /\ ChatOf[g] = ChatOf[Mine(p)]
                    THEN job[p].found \cup {g} ELSE job[p].found
             j == [job[p] EXCEPT !.at = None, !.size = 0, !.found = F]
  <2>1. g \in Ids
    OBVIOUS
  <2>2. F \subseteq Ids
    BY <2>1 DEF TypeOK, Job
  <2>3. Move(p, "scan", j)
    BY <1>1 DEF ScanRead
  <2>4. /\ j \in Job /\ Same(j, job[p]) /\ j.rivals = job[p].rivals
        /\ j.todo = job[p].todo /\ j.found = F
    <3>1. job[p] \in Job /\ 0 \in 0..3
      BY DEF TypeOK
    <3> HIDE DEF F, g
    <3>2. j \in Job
      BY <2>2, <3>1 DEF Job
    <3>3. /\ Same(j, job[p]) /\ j.rivals = job[p].rivals
          /\ j.todo = job[p].todo /\ j.found = F
      BY <3>1 DEF Job, Same
    <3> QED BY <3>2, <3>3
  <2> HIDE DEF j
  <2> QED BY <2>3, <2>4
<1>2. CASE ~Parses(p, job[p].at)
  <2> DEFINE j == [job[p] EXCEPT !.size = 0]
  <2>1. j \in Job /\ SameScan(j, job[p]) /\ j.at = job[p].at
    <3>1. job[p] \in Job /\ 0 \in 0..3
      BY DEF TypeOK
    <3> QED BY <3>1 DEF Job, SameScan, Same
  <2>2. Move(p, "recheck", j)
    BY <1>2 DEF ScanRead
  <2> QED BY <2>1, <2>2
<1> QED BY <1>1, <1>2

(* A grant is passed over only without its marker.                         *)
LEMMA RecheckDoes ==
  ASSUME TypeOK, NEW p \in Procs, Recheck(p)
  PROVE  \/ Exit(p)
         \/ /\ ~ready[job[p].at]
            /\ \E j \in Job : Move(p, "scan", j) /\ SameScan(j, job[p])
<1>1. CASE ready[job[p].at]
  BY <1>1 DEF Recheck
<1>2. CASE ~ready[job[p].at]
  <2> DEFINE j == [job[p] EXCEPT !.at = None]
  <2>1. j \in Job /\ SameScan(j, job[p])
    BY ZenonT(60) DEF TypeOK, Job, SameScan, Same
  <2>2. Move(p, "scan", j)
    BY <1>2 DEF Recheck
  <2> QED BY <1>2, <2>1, <2>2
<1> QED BY <1>1, <1>2

(* A table is read whole.                                                  *)
LEMMA BindReadDoes ==
  ASSUME TypeOK, NEW p \in Procs, BindRead(p)
  PROVE  \E j \in Job : Move(p, "bindWrite", j) /\ Same(j, job[p]) /\ j.table = labels
<1> DEFINE j == [job[p] EXCEPT !.table = labels]
<1>1. j \in Job /\ Same(j, job[p]) /\ j.table = labels
  BY ZenonT(60) DEF TypeOK, Job, Same
<1>2. Move(p, "bindWrite", j)
  BY DEF BindRead
<1> QED BY <1>1, <1>2

(* What is written over a payload, and when that revives a grant.          *)
LEMMA ReplaceDoes ==
  ASSUME IInv, NEW p \in Procs, Replace(p)
  PROVE  /\ Mine(p) \in used /\ Mine(p) \in Ids /\ Op(p) \in {"create", "limits", "disable"}
         /\ json' \in [Ids -> Payload] /\ json'[Mine(p)] \in Record
         /\ \A g \in Ids \ {Mine(p)} : json'[g] = json[g]
         /\ revived \subseteq revived' /\ revived' \subseteq Ids
         /\ Op(p) = "create" \/ (Relied(Mine(p)) /\ json[Mine(p)] \in Record)
         /\ Op(p) # "create" /\ ~json[Mine(p)].enabled /\ json'[Mine(p)].enabled
              => Mine(p) \in revived'
         /\ Op(p) = "disable" => ~json'[Mine(p)].enabled
<1>1. /\ Mine(p) \in used /\ Mine(p) \in Ids /\ Op(p) \in {"create", "limits", "disable"}
      /\ job[p].rec \in Record
  BY DEF IInv, TypeOK, Job, Ops, Drawn, Replace, Doing, Mine, Op
<1>2. Op(p) = "create" \/ (Relied(Mine(p)) /\ json[Mine(p)] \in Record)
  BY <1>1 DEF IInv, Vouched, Relied, Safe, Whole, Replace, Doing
<1>3. /\ json' \in [Ids -> Payload] /\ json'[Mine(p)] = job[p].rec
      /\ \A g \in Ids \ {Mine(p)} : json'[g] = json[g]
  BY <1>1 DEF IInv, TypeOK, Replace, Payload
<1>4. revived \subseteq revived' /\ revived' \subseteq Ids
  BY <1>1 DEF IInv, TypeOK, Replace
<1>5. /\ Op(p) = "limits" => (job[p].rec.enabled => job[p].seen)
      /\ Op(p) = "disable" => ~job[p].rec.enabled
  BY DEF IInv, Off, Replace, Doing
<1>6. ASSUME json[Mine(p)] \in Record, ~json[Mine(p)].enabled,
             Op(p) = "limits", job[p].seen
      PROVE  Mine(p) \in revived'
  BY <1>6 DEF Replace, Op
<1> QED BY <1>1, <1>2, <1>3, <1>4, <1>5, <1>6

(* What a power cut leaves of a grant.                                     *)
LEMMA PowerCutDoes ==
  ASSUME TypeOK, PowerCut
  PROVE  /\ \A p \in Procs : pc'[p] = "idle" /\ job'[p] = NoJob
         /\ json' \in [Ids -> Payload] /\ ready' \in [Ids -> BOOLEAN]
         /\ \A g \in Ids : json[g] \in Record /\ kept.json[g] \in Record
              => json'[g] \in {json[g], kept.json[g]} /\ json'[g] \in Record
         /\ \A g \in Ids : json[g] = NoFile /\ kept.json[g] = NoFile => json'[g] = NoFile
         /\ \A g \in Ids : ready'[g] \in {ready[g], kept.ready[g]}
         /\ kept'.json = json' /\ kept'.ready = ready'
<1>1. \A g \in Ids : json'[g] \in {json[g], kept.json[g]} \/
        (json[g] \in Record /\ kept.json[g] = NoFile)
  BY DEF PowerCut
<1>2. /\ json' \in [Ids -> Payload] /\ ready' \in [Ids -> BOOLEAN]
      /\ \A g \in Ids : ready'[g] \in {ready[g], kept.ready[g]}
      /\ kept'.json = json' /\ kept'.ready = ready'
      /\ \A p \in Procs : pc'[p] = "idle" /\ job'[p] = NoJob
  BY DEF PowerCut
<1> QED BY <1>1, <1>2, Files

(* A create draws an id nobody has.                                        *)
LEMMA CreateKeeps ==
  ASSUME IInv, NEW p \in Procs, NEW g \in Ids, Create(p, g)
  PROVE  IInv'
<1>a. pc[p] = "idle" /\ g \notin used /\ used' = used \cup {g} /\ UNCHANGED <<disk, labels, ghosts>>
  BY DEF Create, Doing
<1>b. \E j \in Job : /\ Move(p, "claim", j)
                     /\ j.op = "create" /\ j.grant = g /\ j.late = (g \in revoked)
  BY BeginDoes, <1>a DEF IInv, Ops, Create
<1>1. TypeOK'
  BY <1>a, <1>b, NoJobType DEF IInv, TypeOK, Move, disk, ghosts, Steps
<1>2. Drawn'
  BY <1>a, <1>b DEF IInv, TypeOK, Drawn, Op, Mine, Scanning, Move, disk, ghosts
<1>3. Half'
  BY <1>a, <1>b DEF IInv, TypeOK, Half, Drawn, Vouched, Safe, Relied, Made, Making,
     Creating, Op, Mine, Move, disk, ghosts
<1>4. Vouched'
  BY <1>a, <1>b DEF IInv, TypeOK, Vouched, Relied, Safe, Whole, Made, Making,
     Creating, Half, Drawn, Op, Mine, Move, disk, ghosts
<1>5. Marked'
  BY <1>a, <1>b DEF IInv, TypeOK, Marked, Half, Drawn, Making, Creating, Op, Mine,
     Move, disk, ghosts
<1>6. Off'
  BY <1>a, <1>b DEF IInv, TypeOK, Off, Vouched, Safe, Whole, Made, Making, Creating,
     Relied, Drawn, Op, Mine, Scanning, Move, disk, ghosts
<1>7. Late'
  BY <1>a, <1>b DEF IInv, TypeOK, Late, Off, Drawn, Scanning, Op, Mine, Move, disk,
     ghosts
<1>8. Rivals'
  BY <1>a, <1>b DEF IInv, TypeOK, Rivals, Passed, Listed, Enabled, Scanning, Making,
     Creating, Half, Drawn, Op, Mine, Move, disk, ghosts
<1> QED BY <1>1, <1>2, <1>3, <1>4, <1>5, <1>6, <1>7, <1>8 DEF IInv

(* Only the grant of the create is emptied.                                *)
LEMMA ClaimKeeps ==
  ASSUME IInv, NEW p \in Procs, Claim(p)
  PROVE  IInv'
<1>1. TypeOK'
  <2>1. (job \in [Procs -> Job])'
    BY NoJobType DEF IInv, TypeOK, Claim, Goto, Job, Ops, Mine, Op
  <2>2. (pc \in [Procs -> Steps])'
    BY DEF IInv, TypeOK, Claim, Goto, Doing, Steps
  <2>3. (/\ json \in [Ids -> Payload] /\ ready \in [Ids -> BOOLEAN]
         /\ kept \in [json : [Ids -> Payload], ready : [Ids -> BOOLEAN]]
         /\ labels \in [Labels -> Ids \cup {None}] /\ used \subseteq Ids)'
    BY GrantAssumption DEF IInv, TypeOK, Claim, Goto, Doing, Job, Record, Payload,
       Mine, Drawn
  <2>4. (/\ revoked \subseteq Ids /\ revived \subseteq Ids /\ failed \subseteq Ids
         /\ faults \in 0..MaxFaults)'
    BY GrantAssumption DEF IInv, TypeOK, Claim, Goto, Doing, ghosts, Drawn, Mine
  <2> QED BY <2>1, <2>2, <2>3, <2>4 DEF TypeOK
<1>2. Drawn'
  BY DEF IInv, TypeOK, Drawn, Op, Mine, Scanning, Claim, Goto, Doing, ghosts
<1>3. Half'
  BY DEF IInv, TypeOK, Half, Drawn, Vouched, Safe, Relied, Made, Making, Creating,
     Op, Mine, Claim, Goto, Doing, ghosts
<1>4. Vouched'
  BY DEF IInv, TypeOK, Vouched, Relied, Safe, Whole, Made, Making, Creating, Half,
     Drawn, Op, Mine, Claim, Goto, Doing, ghosts
<1>5. Marked'
  BY DEF IInv, TypeOK, Marked, Half, Drawn, Making, Creating, Op, Mine, Claim, Goto,
     Doing, ghosts
<1>6. Off'
  BY DEF IInv, TypeOK, Off, Vouched, Safe, Whole, Made, Making, Creating, Relied,
     Drawn, Op, Mine, Scanning, Claim, Goto, Doing, ghosts
<1>7. Late'
  BY DEF IInv, TypeOK, Late, Off, Drawn, Scanning, Op, Mine, Claim, Goto, Doing,
     ghosts
<1>8. Rivals'
  BY DEF IInv, TypeOK, Rivals, Passed, Listed, Enabled, Scanning, Making, Creating,
     Half, Drawn, Op, Mine, Claim, Goto, Doing, ghosts
<1> QED BY <1>1, <1>2, <1>3, <1>4, <1>5, <1>6, <1>7, <1>8 DEF IInv

(* A --limits that writes an enabled grant over a disabled one revives it. *)
LEMMA ReplaceKeeps ==
  ASSUME IInv, NEW p \in Procs, Replace(p)
  PROVE  IInv'
<1>a. /\ pc[p] = "replace" /\ Goto(p, "sync")
      /\ UNCHANGED <<ready, kept, labels, used, revoked, failed, faults>>
  BY DEF Replace, Doing
<1>b. /\ Mine(p) \in used /\ Mine(p) \in Ids /\ Op(p) \in {"create", "limits", "disable"}
      /\ json' \in [Ids -> Payload] /\ json'[Mine(p)] \in Record
      /\ \A g \in Ids \ {Mine(p)} : json'[g] = json[g]
      /\ revived \subseteq revived' /\ revived' \subseteq Ids
      /\ Op(p) = "create" \/ (Relied(Mine(p)) /\ json[Mine(p)] \in Record)
      /\ Op(p) # "create" /\ ~json[Mine(p)].enabled /\ json'[Mine(p)].enabled
           => Mine(p) \in revived'
      /\ Op(p) = "disable" => ~json'[Mine(p)].enabled
  BY ReplaceDoes DEF IInv
<1>1. TypeOK'
  BY <1>a, <1>b, NoJobType DEF IInv, TypeOK, Goto, Steps
<1>2. Drawn'
  BY <1>a, <1>b DEF IInv, TypeOK, Drawn, Op, Mine, Scanning, Goto
<1>3. Half'
  BY <1>a, <1>b DEF IInv, TypeOK, Half, Drawn, Vouched, Safe, Relied, Made, Making,
     Creating, Op, Mine, Goto
<1>4. Vouched'
  BY <1>a, <1>b DEF IInv, TypeOK, Vouched, Relied, Safe, Whole, Made, Making,
     Creating, Half, Drawn, Op, Mine, Goto
<1>5. Marked'
  BY <1>a, <1>b DEF IInv, TypeOK, Marked, Half, Drawn, Making, Creating, Op, Mine,
     Goto
<1>6. Off'
  BY <1>a, <1>b DEF IInv, TypeOK, Off, Vouched, Safe, Whole, Made, Making, Creating,
     Relied, Drawn, Op, Mine, Scanning, Goto
<1>7. Late'
  BY <1>a, <1>b DEF IInv, TypeOK, Late, Off, Drawn, Scanning, Op, Mine, Goto
<1>8. Rivals'
  BY <1>a, <1>b DEF IInv, TypeOK, Rivals, Passed, Listed, Enabled, Scanning, Making,
     Creating, Half, Drawn, Op, Mine, Goto
<1> QED BY <1>1, <1>2, <1>3, <1>4, <1>5, <1>6, <1>7, <1>8 DEF IInv

(* What is synced is what is there.                                        *)
LEMMA SyncPayloadKeeps ==
  ASSUME IInv, NEW p \in Procs, SyncPayload(p)
  PROVE  IInv'
<1>1. TypeOK'
  <2>1. (job \in [Procs -> Job])'
    BY NoJobType DEF IInv, TypeOK, SyncPayload, Sync, Goto, Job, Ops, Mine, Op
  <2>2. (pc \in [Procs -> Steps])'
    BY DEF IInv, TypeOK, SyncPayload, Sync, Goto, Doing, Steps
  <2>3. (/\ json \in [Ids -> Payload] /\ ready \in [Ids -> BOOLEAN]
         /\ kept \in [json : [Ids -> Payload], ready : [Ids -> BOOLEAN]]
         /\ labels \in [Labels -> Ids \cup {None}] /\ used \subseteq Ids)'
    BY GrantAssumption DEF IInv, TypeOK, SyncPayload, Sync, Goto, Doing, Job,
       Record, Payload, Mine, Drawn
  <2>4. (/\ revoked \subseteq Ids /\ revived \subseteq Ids /\ failed \subseteq Ids
         /\ faults \in 0..MaxFaults)'
    BY GrantAssumption DEF IInv, TypeOK, SyncPayload, Sync, Goto, Doing, ghosts,
       Drawn, Mine
  <2> QED BY <2>1, <2>2, <2>3, <2>4 DEF TypeOK
<1>2. Drawn'
  BY DEF IInv, TypeOK, Drawn, Op, Mine, Scanning, SyncPayload, Sync, Goto, Doing,
     ghosts
<1>3. Half'
  BY DEF IInv, TypeOK, Half, Drawn, Vouched, Safe, Relied, Made, Making, Creating,
     Op, Mine, SyncPayload, Sync, Goto, Doing, ghosts
<1>4. Vouched'
  BY DEF IInv, TypeOK, Vouched, Relied, Safe, Whole, Made, Making, Creating, Half,
     Drawn, Op, Mine, SyncPayload, Sync, Goto, Doing, ghosts
<1>5. Marked'
  BY DEF IInv, TypeOK, Marked, Half, Drawn, Making, Creating, Op, Mine, SyncPayload,
     Sync, Goto, Doing, ghosts
<1>6. Off'
  BY DEF IInv, TypeOK, Off, Vouched, Safe, Whole, Made, Making, Creating, Relied,
     Drawn, Op, Mine, Scanning, SyncPayload, Sync, Goto, Doing, ghosts
<1>7. Late'
  BY DEF IInv, TypeOK, Late, Off, Drawn, Scanning, Op, Mine, SyncPayload, Sync,
     Goto, Doing, ghosts
<1>8. Rivals'
  BY DEF IInv, TypeOK, Rivals, Passed, Listed, Enabled, Scanning, Making, Creating,
     Half, Drawn, Op, Mine, SyncPayload, Sync, Goto, Doing, ghosts
<1> QED BY <1>1, <1>2, <1>3, <1>4, <1>5, <1>6, <1>7, <1>8 DEF IInv

(* The marker comes after the payload.                                     *)
LEMMA MarkKeeps ==
  ASSUME IInv, NEW p \in Procs, Mark(p)
  PROVE  IInv'
<1>1. TypeOK'
  <2>1. (job \in [Procs -> Job])'
    BY NoJobType DEF IInv, TypeOK, Mark, Goto, Job, Ops, Mine, Op
  <2>2. (pc \in [Procs -> Steps])'
    BY DEF IInv, TypeOK, Mark, Goto, Doing, Steps
  <2>3. (/\ json \in [Ids -> Payload] /\ ready \in [Ids -> BOOLEAN]
         /\ kept \in [json : [Ids -> Payload], ready : [Ids -> BOOLEAN]]
         /\ labels \in [Labels -> Ids \cup {None}] /\ used \subseteq Ids)'
    BY GrantAssumption DEF IInv, TypeOK, Mark, Goto, Doing, Job, Record, Payload,
       Mine, Drawn
  <2>4. (/\ revoked \subseteq Ids /\ revived \subseteq Ids /\ failed \subseteq Ids
         /\ faults \in 0..MaxFaults)'
    BY GrantAssumption DEF IInv, TypeOK, Mark, Goto, Doing, ghosts, Drawn, Mine
  <2> QED BY <2>1, <2>2, <2>3, <2>4 DEF TypeOK
<1>2. Drawn'
  BY DEF IInv, TypeOK, Drawn, Op, Mine, Scanning, Mark, Goto, Doing, ghosts
<1>3. Half'
  BY DEF IInv, TypeOK, Half, Drawn, Vouched, Safe, Relied, Made, Making, Creating,
     Op, Mine, Mark, Goto, Doing, ghosts
<1>4. Vouched'
  BY DEF IInv, TypeOK, Vouched, Relied, Safe, Whole, Made, Making, Creating, Half,
     Drawn, Op, Mine, Mark, Goto, Doing, ghosts
<1>5. Marked'
  BY DEF IInv, TypeOK, Marked, Half, Drawn, Making, Creating, Op, Mine, Mark, Goto,
     Doing, ghosts
<1>6. Off'
  BY DEF IInv, TypeOK, Off, Vouched, Safe, Whole, Made, Making, Creating, Relied,
     Drawn, Op, Mine, Scanning, Mark, Goto, Doing, ghosts
<1>7. Late'
  BY DEF IInv, TypeOK, Late, Off, Drawn, Scanning, Op, Mine, Mark, Goto, Doing,
     ghosts
<1>8. Rivals'
  BY DEF IInv, TypeOK, Rivals, Passed, Listed, Enabled, Scanning, Making, Creating,
     Half, Drawn, Op, Mine, Mark, Goto, Doing, ghosts
<1> QED BY <1>1, <1>2, <1>3, <1>4, <1>5, <1>6, <1>7, <1>8 DEF IInv

(* A sealed grant is safe, and so is a revoked one.                        *)
LEMMA SealKeeps ==
  ASSUME IInv, NEW p \in Procs, Seal(p)
  PROVE  IInv'
<1>1. TypeOK'
  <2>1. (job \in [Procs -> Job])'
    BY ZenonT(60), NoJobType DEF IInv, TypeOK, Seal, Sync, Goto, Exit, Move, Job, Ops, Mine, Op
  <2>2. (pc \in [Procs -> Steps])'
    BY DEF IInv, TypeOK, Seal, Sync, Goto, Exit, Move, Doing, Steps
  <2>3. (/\ json \in [Ids -> Payload] /\ ready \in [Ids -> BOOLEAN]
         /\ kept \in [json : [Ids -> Payload], ready : [Ids -> BOOLEAN]]
         /\ labels \in [Labels -> Ids \cup {None}] /\ used \subseteq Ids)'
    BY GrantAssumption DEF IInv, TypeOK, Seal, Sync, Goto, Exit, Move, Doing, Job,
       Record, Payload, Mine, Drawn
  <2>4. (/\ revoked \subseteq Ids /\ revived \subseteq Ids /\ failed \subseteq Ids
         /\ faults \in 0..MaxFaults)'
    BY GrantAssumption DEF IInv, TypeOK, Seal, Sync, Goto, Exit, Move, Doing, Drawn,
       Mine
  <2> QED BY <2>1, <2>2, <2>3, <2>4 DEF TypeOK
<1>2. Drawn'
  BY DEF IInv, TypeOK, Drawn, Op, Mine, Scanning, Seal, Sync, Goto, Exit, Move,
     Doing
<1>3. Half'
  BY DEF IInv, TypeOK, Half, Drawn, Vouched, Safe, Relied, Made, Making, Creating,
     Op, Mine, Seal, Sync, Goto, Exit, Move, Doing
<1>4. Vouched'
  BY DEF IInv, TypeOK, Vouched, Relied, Safe, Whole, Made, Making, Creating, Half,
     Drawn, Op, Mine, Seal, Sync, Goto, Exit, Move, Doing
<1>5. Marked'
  BY DEF IInv, TypeOK, Marked, Half, Drawn, Making, Creating, Op, Mine, Seal, Sync,
     Goto, Exit, Move, Doing
<1>6. Off'
  BY DEF IInv, TypeOK, Off, Vouched, Safe, Whole, Made, Making, Creating, Relied,
     Drawn, Op, Mine, Scanning, Seal, Sync, Goto, Exit, Move, Doing
<1>7. Late'
  BY DEF IInv, TypeOK, Late, Off, Drawn, Scanning, Op, Mine, Seal, Sync, Goto, Exit,
     Move, Doing
<1>8. Rivals'
  BY DEF IInv, TypeOK, Rivals, Passed, Listed, Enabled, Scanning, Making, Creating,
     Half, Drawn, Op, Mine, Seal, Sync, Goto, Exit, Move, Doing
<1> QED BY <1>1, <1>2, <1>3, <1>4, <1>5, <1>6, <1>7, <1>8 DEF IInv

(* The table that is read holds safe grants.                               *)
LEMMA BindReadKeeps ==
  ASSUME IInv, NEW p \in Procs, BindRead(p)
  PROVE  IInv'
<1>a. pc[p] = "bind" /\ UNCHANGED <<disk, labels, used, ghosts>>
  BY DEF BindRead, Doing
<1>b. \E j \in Job : Move(p, "bindWrite", j) /\ Same(j, job[p]) /\ j.table = labels
  BY BindReadDoes DEF IInv
<1>1. TypeOK'
  BY <1>a, <1>b, NoJobType DEF IInv, TypeOK, Move, disk, ghosts, Same, Steps
<1>2. Drawn'
  BY <1>a, <1>b DEF IInv, TypeOK, Drawn, Op, Mine, Scanning, Move, disk, ghosts,
     Same
<1>3. Half'
  BY <1>a, <1>b DEF IInv, TypeOK, Half, Drawn, Vouched, Safe, Relied, Made, Making,
     Creating, Op, Mine, Move, disk, ghosts, Same
<1>4. Vouched'
  BY <1>a, <1>b DEF IInv, TypeOK, Vouched, Relied, Safe, Whole, Made, Making,
     Creating, Half, Drawn, Op, Mine, Move, disk, ghosts, Same
<1>5. Marked'
  BY <1>a, <1>b DEF IInv, TypeOK, Marked, Half, Drawn, Making, Creating, Op, Mine,
     Move, disk, ghosts, Same
<1>6. Off'
  BY <1>a, <1>b DEF IInv, TypeOK, Off, Vouched, Safe, Whole, Made, Making, Creating,
     Relied, Drawn, Op, Mine, Scanning, Move, disk, ghosts, Same
<1>7. Late'
  BY <1>a, <1>b DEF IInv, TypeOK, Late, Off, Drawn, Scanning, Op, Mine, Move, disk,
     ghosts, Same
<1>8. Rivals'
  BY <1>a, <1>b DEF IInv, TypeOK, Rivals, Passed, Listed, Enabled, Scanning, Making,
     Creating, Half, Drawn, Op, Mine, Move, disk, ghosts, Same
<1> QED BY <1>1, <1>2, <1>3, <1>4, <1>5, <1>6, <1>7, <1>8 DEF IInv

(* The table that is written holds safe grants.                            *)
LEMMA BindWriteKeeps ==
  ASSUME IInv, NEW p \in Procs, BindWrite(p)
  PROVE  IInv'
<1>1. TypeOK'
  <2>1. (job \in [Procs -> Job])'
    BY NoJobType DEF IInv, TypeOK, BindWrite, Exit, Move, Job, Ops, Mine, Op
  <2>2. (pc \in [Procs -> Steps])'
    BY DEF IInv, TypeOK, BindWrite, Exit, Move, Doing, Steps
  <2>3. (/\ json \in [Ids -> Payload] /\ ready \in [Ids -> BOOLEAN]
         /\ kept \in [json : [Ids -> Payload], ready : [Ids -> BOOLEAN]]
         /\ labels \in [Labels -> Ids \cup {None}] /\ used \subseteq Ids)'
    BY GrantAssumption DEF IInv, TypeOK, BindWrite, Exit, Move, Doing, disk, Job,
       Record, Payload, Mine, Drawn
  <2>4. (/\ revoked \subseteq Ids /\ revived \subseteq Ids /\ failed \subseteq Ids
         /\ faults \in 0..MaxFaults)'
    BY GrantAssumption DEF IInv, TypeOK, BindWrite, Exit, Move, Doing, ghosts,
       Drawn, Mine
  <2> QED BY <2>1, <2>2, <2>3, <2>4 DEF TypeOK
<1>2. Drawn'
  BY DEF IInv, TypeOK, Drawn, Op, Mine, Scanning, BindWrite, Exit, Move, Doing,
     disk, ghosts
<1>3. Half'
  BY DEF IInv, TypeOK, Half, Drawn, Vouched, Safe, Relied, Made, Making, Creating,
     Op, Mine, BindWrite, Exit, Move, Doing, disk, ghosts
<1>4. Vouched'
  BY DEF IInv, TypeOK, Vouched, Relied, Safe, Whole, Made, Making, Creating, Half,
     Drawn, Op, Mine, BindWrite, Exit, Move, Doing, disk, ghosts
<1>5. Marked'
  BY DEF IInv, TypeOK, Marked, Half, Drawn, Making, Creating, Op, Mine, BindWrite,
     Exit, Move, Doing, disk, ghosts
<1>6. Off'
  BY DEF IInv, TypeOK, Off, Vouched, Safe, Whole, Made, Making, Creating, Relied,
     Drawn, Op, Mine, Scanning, BindWrite, Exit, Move, Doing, disk, ghosts
<1>7. Late'
  BY DEF IInv, TypeOK, Late, Off, Drawn, Scanning, Op, Mine, BindWrite, Exit, Move,
     Doing, disk, ghosts
<1>8. Rivals'
  BY DEF IInv, TypeOK, Rivals, Passed, Listed, Enabled, Scanning, Making, Creating,
     Half, Drawn, Op, Mine, BindWrite, Exit, Move, Doing, disk, ghosts
<1> QED BY <1>1, <1>2, <1>3, <1>4, <1>5, <1>6, <1>7, <1>8 DEF IInv

(* A call that fails leaves a create to be taken back.                     *)
LEMMA BreaksKeeps ==
  ASSUME IInv, NEW p \in Procs, Breaks(p)
  PROVE  IInv'
<1>1. TypeOK'
  <2>1. (job \in [Procs -> Job])'
    BY NoJobType DEF IInv, TypeOK, Breaks, Fault, Sync, Goto, Exit, Move, Job, Ops,
       Mine, Op
  <2>2. (pc \in [Procs -> Steps])'
    BY DEF IInv, TypeOK, Breaks, Fault, Sync, Goto, Exit, Move, Doing, Steps
  <2>3. (/\ json \in [Ids -> Payload] /\ ready \in [Ids -> BOOLEAN]
         /\ kept \in [json : [Ids -> Payload], ready : [Ids -> BOOLEAN]]
         /\ labels \in [Labels -> Ids \cup {None}] /\ used \subseteq Ids)'
    BY GrantAssumption DEF IInv, TypeOK, Breaks, Fault, Sync, Goto, Exit, Move,
       Doing, Job, Record, Payload, Mine, Drawn
  <2>4. (/\ revoked \subseteq Ids /\ revived \subseteq Ids /\ failed \subseteq Ids
         /\ faults \in 0..MaxFaults)'
    BY GrantAssumption DEF IInv, TypeOK, Breaks, Fault, Sync, Goto, Exit, Move,
       Doing, Drawn, Mine
  <2> QED BY <2>1, <2>2, <2>3, <2>4 DEF TypeOK
<1>2. Drawn'
  BY DEF IInv, TypeOK, Drawn, Op, Mine, Scanning, Breaks, Fault, Sync, Goto, Exit,
     Move, Doing
<1>3. Half'
  BY DEF IInv, TypeOK, Half, Drawn, Vouched, Safe, Relied, Made, Making, Creating,
     Op, Mine, Breaks, Fault, Sync, Goto, Exit, Move, Doing
<1>4. Vouched'
  <2>1. ASSUME NEW g \in Ids, Relied(g)' \/ g \in revoked' PROVE Relied(g) \/ g \in revoked
    BY <2>1 DEF IInv, TypeOK, Relied, Drawn, Op, Mine, Breaks, Goto, Exit, Move, Doing, NoJob
  <2>2. ASSUME NEW g \in Ids, Safe(g) PROVE Safe(g)'
    <3>1. Whole(g)'
      BY <2>2 DEF IInv, TypeOK, Safe, Whole, Breaks, Sync
    <3>2. g \in used' /\ Made(g)'
      BY <2>2
      DEF IInv, TypeOK, Drawn, Safe, Made, Making, Creating, Op, Mine, Breaks, Goto, Exit,
          Move, Doing, NoJob
    <3> QED BY <3>1, <3>2 DEF Safe
  <2> QED BY <2>1, <2>2 DEF IInv, Vouched
<1>5. Marked'
  BY DEF IInv, TypeOK, Marked, Half, Drawn, Making, Creating, Op, Mine, Breaks,
     Fault, Sync, Goto, Exit, Move, Doing
<1>6. Off'
  BY DEF IInv, TypeOK, Off, Vouched, Safe, Whole, Made, Making, Creating, Relied,
     Drawn, Op, Mine, Scanning, Breaks, Fault, Sync, Goto, Exit, Move, Doing
<1>7. Late'
  BY DEF IInv, TypeOK, Late, Off, Drawn, Scanning, Op, Mine, Breaks, Fault, Sync,
     Goto, Exit, Move, Doing
<1>8. Rivals'
  BY DEF IInv, TypeOK, Rivals, Passed, Listed, Enabled, Scanning, Making, Creating,
     Half, Drawn, Op, Mine, Breaks, Fault, Sync, Goto, Exit, Move, Doing
<1> QED BY <1>1, <1>2, <1>3, <1>4, <1>5, <1>6, <1>7, <1>8 DEF IInv

(* Only the grant of the create goes.                                      *)
LEMMA UndoKeeps ==
  ASSUME IInv, NEW p \in Procs, Undo(p)
  PROVE  IInv'
<1>1. TypeOK'
  <2>1. (job \in [Procs -> Job])'
    BY NoJobType DEF IInv, TypeOK, Undo, Fault, Goto, Exit, Move, Job, Ops, Mine, Op
  <2>2. (pc \in [Procs -> Steps])'
    BY DEF IInv, TypeOK, Undo, Fault, Goto, Exit, Move, Doing, Steps
  <2>3. (/\ json \in [Ids -> Payload] /\ ready \in [Ids -> BOOLEAN]
         /\ kept \in [json : [Ids -> Payload], ready : [Ids -> BOOLEAN]]
         /\ labels \in [Labels -> Ids \cup {None}] /\ used \subseteq Ids)'
    BY GrantAssumption DEF IInv, TypeOK, Undo, Fault, Goto, Exit, Move, Doing, Job,
       Record, Payload, Mine, Drawn
  <2>4. (/\ revoked \subseteq Ids /\ revived \subseteq Ids /\ failed \subseteq Ids
         /\ faults \in 0..MaxFaults)'
    BY GrantAssumption DEF IInv, TypeOK, Undo, Fault, Goto, Exit, Move, Doing,
       Drawn, Mine
  <2> QED BY <2>1, <2>2, <2>3, <2>4 DEF TypeOK
<1>2. Drawn'
  BY DEF IInv, TypeOK, Drawn, Op, Mine, Scanning, Undo, Fault, Goto, Exit, Move,
     Doing
<1>3. Half'
  BY DEF IInv, TypeOK, Half, Drawn, Vouched, Safe, Relied, Made, Making, Creating,
     Op, Mine, Undo, Fault, Goto, Exit, Move, Doing
<1>4. Vouched'
  BY DEF IInv, TypeOK, Vouched, Relied, Safe, Whole, Made, Making, Creating, Half,
     Drawn, Op, Mine, Undo, Fault, Goto, Exit, Move, Doing
<1>5. Marked'
  BY DEF IInv, TypeOK, Marked, Half, Drawn, Making, Creating, Op, Mine, Undo, Fault,
     Goto, Exit, Move, Doing
<1>6. Off'
  BY DEF IInv, TypeOK, Off, Vouched, Safe, Whole, Made, Making, Creating, Relied,
     Drawn, Op, Mine, Scanning, Undo, Fault, Goto, Exit, Move, Doing
<1>7. Late'
  BY DEF IInv, TypeOK, Late, Off, Drawn, Scanning, Op, Mine, Undo, Fault, Goto,
     Exit, Move, Doing
<1>8. Rivals'
  BY Files DEF IInv, TypeOK, Rivals, Passed, Listed, Enabled, Scanning, Making,
     Creating, Half, Drawn, Op, Mine, Undo, Fault, Goto, Exit, Move, Doing
<1> QED BY <1>1, <1>2, <1>3, <1>4, <1>5, <1>6, <1>7, <1>8 DEF IInv

(* Only the marker of the create goes.                                     *)
LEMMA UnmarkKeeps ==
  ASSUME IInv, NEW p \in Procs, Unmark(p)
  PROVE  IInv'
<1>1. TypeOK'
  <2>1. (job \in [Procs -> Job])'
    BY NoJobType DEF IInv, TypeOK, Unmark, Fault, Exit, Move, Job, Ops, Mine, Op
  <2>2. (pc \in [Procs -> Steps])'
    BY DEF IInv, TypeOK, Unmark, Fault, Exit, Move, Doing, Steps
  <2>3. (/\ json \in [Ids -> Payload] /\ ready \in [Ids -> BOOLEAN]
         /\ kept \in [json : [Ids -> Payload], ready : [Ids -> BOOLEAN]]
         /\ labels \in [Labels -> Ids \cup {None}] /\ used \subseteq Ids)'
    BY GrantAssumption DEF IInv, TypeOK, Unmark, Fault, Exit, Move, Doing, Job,
       Record, Payload, Mine, Drawn
  <2>4. (/\ revoked \subseteq Ids /\ revived \subseteq Ids /\ failed \subseteq Ids
         /\ faults \in 0..MaxFaults)'
    BY GrantAssumption DEF IInv, TypeOK, Unmark, Fault, Exit, Move, Doing, Drawn,
       Mine
  <2> QED BY <2>1, <2>2, <2>3, <2>4 DEF TypeOK
<1>2. Drawn'
  BY DEF IInv, TypeOK, Drawn, Op, Mine, Scanning, Unmark, Fault, Exit, Move, Doing
<1>3. Half'
  BY DEF IInv, TypeOK, Half, Drawn, Vouched, Safe, Relied, Made, Making, Creating,
     Op, Mine, Unmark, Fault, Exit, Move, Doing
<1>4. Vouched'
  BY DEF IInv, TypeOK, Vouched, Relied, Safe, Whole, Made, Making, Creating, Half,
     Drawn, Op, Mine, Unmark, Fault, Exit, Move, Doing
<1>5. Marked'
  BY DEF IInv, TypeOK, Marked, Half, Drawn, Making, Creating, Op, Mine, Unmark,
     Fault, Exit, Move, Doing
<1>6. Off'
  BY DEF IInv, TypeOK, Off, Vouched, Safe, Whole, Made, Making, Creating, Relied,
     Drawn, Op, Mine, Scanning, Unmark, Fault, Exit, Move, Doing
<1>7. Late'
  BY DEF IInv, TypeOK, Late, Off, Drawn, Scanning, Op, Mine, Unmark, Fault, Exit,
     Move, Doing
<1>8. Rivals'
  BY DEF IInv, TypeOK, Rivals, Passed, Listed, Enabled, Scanning, Making, Creating,
     Half, Drawn, Op, Mine, Unmark, Fault, Exit, Move, Doing
<1> QED BY <1>1, <1>2, <1>3, <1>4, <1>5, <1>6, <1>7, <1>8 DEF IInv

(* A label leads to a safe grant.                                          *)
LEMMA ChangeKeeps ==
  ASSUME IInv, NEW p \in Procs, NEW l \in Labels, Change(p, l)
  PROVE  IInv'
<1>a. pc[p] = "idle" /\ UNCHANGED <<disk, labels, used, ghosts>> /\ labels[l] \in Ids \cap used
  BY DEF IInv, TypeOK, Vouched, Relied, Safe, Change, Doing
<1>b. \E j \in Job : /\ Move(p, "look", j)
                     /\ j.op \in {"limits", "disable"} /\ j.grant = labels[l]
                     /\ j.late = (labels[l] \in revoked)
  BY BeginDoes, <1>a DEF IInv, Ops, Change, TypeOK
<1>1. TypeOK'
  BY <1>a, <1>b, NoJobType DEF IInv, TypeOK, Move, disk, ghosts, Steps
<1>2. Drawn'
  BY <1>a, <1>b DEF IInv, TypeOK, Drawn, Op, Mine, Scanning, Move, disk, ghosts
<1>3. Half'
  BY <1>a, <1>b DEF IInv, TypeOK, Half, Drawn, Vouched, Safe, Relied, Made, Making,
     Creating, Op, Mine, Move, disk, ghosts
<1>4. Vouched'
  BY <1>a, <1>b DEF IInv, TypeOK, Vouched, Relied, Safe, Whole, Made, Making,
     Creating, Half, Drawn, Op, Mine, Move, disk, ghosts
<1>5. Marked'
  BY <1>a, <1>b DEF IInv, TypeOK, Marked, Half, Drawn, Making, Creating, Op, Mine,
     Move, disk, ghosts
<1>6. Off'
  BY <1>a, <1>b DEF IInv, TypeOK, Off, Vouched, Safe, Whole, Made, Making, Creating,
     Relied, Drawn, Op, Mine, Scanning, Move, disk, ghosts
<1>7. Late'
  <2>1. PICK j \in Job : /\ Move(p, "look", j)
                         /\ j.grant = labels[l] /\ j.late = (labels[l] \in revoked)
    BY <1>b
  <2>2. ASSUME NEW q \in Procs, q # p
        PROVE  pc'[q] = pc[q] /\ job'[q] = job[q]
    BY <2>1, <2>2 DEF IInv, TypeOK, Move
  <2>3. pc'[p] = "look" /\ job'[p] = j
    BY <2>1 DEF IInv, TypeOK, Move
  <2>4. revoked' = revoked /\ revived' = revived
    BY <1>a DEF ghosts
  <2>5. ASSUME NEW q \in Procs, q # p
        PROVE  /\ pc'[q] # "idle" /\ job'[q].late => job'[q].grant \in revoked'
               /\ pc'[q] \in {"list"} \cup Scanning /\ job'[q].late => job'[q].grant \in revived'
    BY <2>2, <2>4, <2>5 DEF IInv, Late, Mine
  <2>6. /\ job'[p].late => job'[p].grant \in revoked'
        /\ pc'[p] \notin {"list"} \cup Scanning
    BY <2>1, <2>3, <2>4 DEF Scanning
  <2> QED BY <2>5, <2>6 DEF Late, Mine
<1>8. Rivals'
  BY <1>a, <1>b DEF IInv, TypeOK, Rivals, Passed, Listed, Enabled, Scanning, Making,
     Creating, Half, Drawn, Op, Mine, Move, disk, ghosts
<1> QED BY <1>1, <1>2, <1>3, <1>4, <1>5, <1>6, <1>7, <1>8 DEF IInv

(* A look changes no file.                                                 *)
LEMMA LookKeeps ==
  ASSUME IInv, NEW p \in Procs, Look(p)
  PROVE  IInv'
<1>a. pc[p] = "look" /\ UNCHANGED <<disk, labels, used, ghosts>>
  BY DEF Look, Doing
<1>b. Exit(p) \/ \E j \in Job : Move(p, "read", j) /\ Same(j, job[p])
  BY LookDoes DEF IInv
<1>1. TypeOK'
  BY <1>a, <1>b, NoJobType DEF IInv, TypeOK, Move, Exit, disk, ghosts, Same, Steps
<1>2. Drawn'
  BY <1>a, <1>b DEF IInv, TypeOK, Drawn, Op, Mine, Scanning, Move, Exit, disk,
     ghosts, Same
<1>3. Half'
  BY <1>a, <1>b DEF IInv, TypeOK, Half, Drawn, Vouched, Safe, Relied, Made, Making,
     Creating, Op, Mine, Move, Exit, disk, ghosts, Same
<1>4. Vouched'
  BY SMTT(30), <1>a, <1>b DEF IInv, TypeOK, Vouched, Relied, Safe, Whole, Made, Making,
     Creating, Half, Drawn, Op, Mine, Move, Exit, disk, ghosts, Same
<1>5. Marked'
  BY <1>a, <1>b DEF IInv, TypeOK, Marked, Half, Drawn, Making, Creating, Op, Mine,
     Move, Exit, disk, ghosts, Same
<1>6. Off'
  BY <1>a, <1>b DEF IInv, TypeOK, Off, Vouched, Safe, Whole, Made, Making, Creating,
     Relied, Drawn, Op, Mine, Scanning, Move, Exit, disk, ghosts, Same
<1>7. Late'
  BY <1>a, <1>b DEF IInv, TypeOK, Late, Off, Drawn, Scanning, Op, Mine, Move, Exit,
     disk, ghosts, Same
<1>8. Rivals'
  BY <1>a, <1>b DEF IInv, TypeOK, Rivals, Passed, Listed, Enabled, Scanning, Making,
     Creating, Half, Drawn, Op, Mine, Move, Exit, disk, ghosts, Same
<1> QED BY <1>1, <1>2, <1>3, <1>4, <1>5, <1>6, <1>7, <1>8 DEF IInv

(* A grant revoked before the check began reads disabled, unless it was    *)
(* revived.                                                                *)
LEMMA ReadKeeps ==
  ASSUME IInv, NEW p \in Procs, Read(p)
  PROVE  IInv'
<1>a. pc[p] = "read" /\ UNCHANGED <<disk, labels, used, ghosts>>
  BY DEF Read, Doing
<1>b. \/ Exit(p)
      \/ /\ Op(p) # "check"
         /\ \E j \in Job : /\ Move(p, "replace", j) /\ Same(j, job[p])
                           /\ Op(p) = "limits" => (j.rec.enabled => j.seen)
                           /\ Op(p) = "disable" => ~j.rec.enabled
      \/ /\ Op(p) = "check" /\ json[Mine(p)].enabled
         /\ \E j \in Job : Move(p, "list", j) /\ Same(j, job[p])
  BY ReadDoes DEF IInv
<1>1. TypeOK'
  BY <1>a, <1>b, NoJobType DEF IInv, TypeOK, Move, Exit, disk, ghosts, Same, Steps
<1>2. Drawn'
  BY <1>a, <1>b DEF IInv, TypeOK, Drawn, Op, Mine, Scanning, Move, Exit, disk,
     ghosts, Same
<1>3. Half'
  BY <1>a, <1>b DEF IInv, TypeOK, Half, Drawn, Vouched, Safe, Relied, Made, Making,
     Creating, Op, Mine, Move, Exit, disk, ghosts, Same
<1>4. Vouched'
  BY SMTT(30), <1>a, <1>b DEF IInv, TypeOK, Vouched, Relied, Safe, Whole, Made, Making,
     Creating, Half, Drawn, Op, Mine, Move, Exit, disk, ghosts, Same
<1>5. Marked'
  BY <1>a, <1>b DEF IInv, TypeOK, Marked, Half, Drawn, Making, Creating, Op, Mine,
     Move, Exit, disk, ghosts, Same
<1>6. Off'
  BY <1>a, <1>b DEF IInv, TypeOK, Off, Vouched, Safe, Whole, Made, Making, Creating,
     Relied, Drawn, Op, Mine, Scanning, Move, Exit, disk, ghosts, Same
<1>7. Late'
  BY <1>a, <1>b DEF IInv, TypeOK, Late, Off, Drawn, Scanning, Op, Mine, Move, Exit,
     disk, ghosts, Same
<1>8. Rivals'
  BY <1>a, <1>b DEF IInv, TypeOK, Rivals, Passed, Listed, Enabled, Scanning, Making,
     Creating, Half, Drawn, Op, Mine, Move, Exit, disk, ghosts, Same
<1> QED BY <1>1, <1>2, <1>3, <1>4, <1>5, <1>6, <1>7, <1>8 DEF IInv

(* A marker is looked at.                                                  *)
LEMMA VerifyKeeps ==
  ASSUME IInv, NEW p \in Procs, Verify(p)
  PROVE  IInv'
<1>1. TypeOK'
  <2>1. (job \in [Procs -> Job])'
    BY NoJobType DEF IInv, TypeOK, Verify, Goto, Exit, Move, Job, Ops, Mine, Op
  <2>2. (pc \in [Procs -> Steps])'
    BY DEF IInv, TypeOK, Verify, Goto, Exit, Move, Doing, Steps
  <2>3. (/\ json \in [Ids -> Payload] /\ ready \in [Ids -> BOOLEAN]
         /\ kept \in [json : [Ids -> Payload], ready : [Ids -> BOOLEAN]]
         /\ labels \in [Labels -> Ids \cup {None}] /\ used \subseteq Ids)'
    BY GrantAssumption DEF IInv, TypeOK, Verify, Goto, Exit, Move, Doing, disk, Job,
       Record, Payload, Mine, Drawn
  <2>4. (/\ revoked \subseteq Ids /\ revived \subseteq Ids /\ failed \subseteq Ids
         /\ faults \in 0..MaxFaults)'
    BY GrantAssumption DEF IInv, TypeOK, Verify, Goto, Exit, Move, Doing, ghosts,
       Drawn, Mine
  <2> QED BY <2>1, <2>2, <2>3, <2>4 DEF TypeOK
<1>2. Drawn'
  BY DEF IInv, TypeOK, Drawn, Op, Mine, Scanning, Verify, Goto, Exit, Move, Doing,
     disk, ghosts
<1>3. Half'
  BY DEF IInv, TypeOK, Half, Drawn, Vouched, Safe, Relied, Made, Making, Creating,
     Op, Mine, Verify, Goto, Exit, Move, Doing, disk, ghosts
<1>4. Vouched'
  BY DEF IInv, TypeOK, Vouched, Relied, Safe, Whole, Made, Making, Creating, Half,
     Drawn, Op, Mine, Verify, Goto, Exit, Move, Doing, disk, ghosts
<1>5. Marked'
  BY DEF IInv, TypeOK, Marked, Half, Drawn, Making, Creating, Op, Mine, Verify,
     Goto, Exit, Move, Doing, disk, ghosts
<1>6. Off'
  BY DEF IInv, TypeOK, Off, Vouched, Safe, Whole, Made, Making, Creating, Relied,
     Drawn, Op, Mine, Scanning, Verify, Goto, Exit, Move, Doing, disk, ghosts
<1>7. Late'
  BY DEF IInv, TypeOK, Late, Off, Drawn, Scanning, Op, Mine, Verify, Goto, Exit,
     Move, Doing, disk, ghosts
<1>8. Rivals'
  BY DEF IInv, TypeOK, Rivals, Passed, Listed, Enabled, Scanning, Making, Creating,
     Half, Drawn, Op, Mine, Verify, Goto, Exit, Move, Doing, disk, ghosts
<1> QED BY <1>1, <1>2, <1>3, <1>4, <1>5, <1>6, <1>7, <1>8 DEF IInv

(* A check begins on an id that was drawn.                                 *)
LEMMA CheckKeeps ==
  ASSUME IInv, NEW p \in Procs, NEW g \in Ids, Check(p, g)
  PROVE  IInv'
<1>a. pc[p] = "idle" /\ UNCHANGED <<disk, labels, used, ghosts>> /\ g \in used
  BY DEF Check, Doing
<1>b. \E j \in Job : /\ Move(p, "look", j)
                     /\ j.op = "check" /\ j.grant = g /\ j.late = (g \in revoked)
  BY BeginDoes, <1>a DEF IInv, Ops, Check
<1>1. TypeOK'
  BY <1>a, <1>b, NoJobType DEF IInv, TypeOK, Move, disk, ghosts, Steps
<1>2. Drawn'
  BY <1>a, <1>b DEF IInv, TypeOK, Drawn, Op, Mine, Scanning, Move, disk, ghosts
<1>3. Half'
  BY <1>a, <1>b DEF IInv, TypeOK, Half, Drawn, Vouched, Safe, Relied, Made, Making,
     Creating, Op, Mine, Move, disk, ghosts
<1>4. Vouched'
  BY <1>a, <1>b DEF IInv, TypeOK, Vouched, Relied, Safe, Whole, Made, Making,
     Creating, Half, Drawn, Op, Mine, Move, disk, ghosts
<1>5. Marked'
  BY <1>a, <1>b DEF IInv, TypeOK, Marked, Half, Drawn, Making, Creating, Op, Mine,
     Move, disk, ghosts
<1>6. Off'
  BY <1>a, <1>b DEF IInv, TypeOK, Off, Vouched, Safe, Whole, Made, Making, Creating,
     Relied, Drawn, Op, Mine, Scanning, Move, disk, ghosts
<1>7. Late'
  <2>1. PICK j \in Job : Move(p, "look", j) /\ j.grant = g /\ j.late = (g \in revoked)
    BY <1>b
  <2>2. ASSUME NEW q \in Procs, q # p
        PROVE  pc'[q] = pc[q] /\ job'[q] = job[q]
    BY <2>1, <2>2 DEF IInv, TypeOK, Move
  <2>3. pc'[p] = "look" /\ job'[p] = j
    BY <2>1 DEF IInv, TypeOK, Move
  <2>4. revoked' = revoked /\ revived' = revived
    BY <1>a DEF ghosts
  <2>5. ASSUME NEW q \in Procs, q # p
        PROVE  /\ pc'[q] # "idle" /\ job'[q].late => job'[q].grant \in revoked'
               /\ pc'[q] \in {"list"} \cup Scanning /\ job'[q].late => job'[q].grant \in revived'
    BY <2>2, <2>4, <2>5 DEF IInv, Late, Mine
  <2>6. /\ job'[p].late => job'[p].grant \in revoked'
        /\ pc'[p] \notin {"list"} \cup Scanning
    BY <2>1, <2>3, <2>4 DEF Scanning
  <2> QED BY <2>5, <2>6 DEF Late, Mine
<1>8. Rivals'
  BY <1>a, <1>b DEF IInv, TypeOK, Rivals, Passed, Listed, Enabled, Scanning, Making,
     Creating, Half, Drawn, Op, Mine, Move, disk, ghosts
<1> QED BY <1>1, <1>2, <1>3, <1>4, <1>5, <1>6, <1>7, <1>8 DEF IInv

(* Every rival is listed.                                                  *)
LEMMA ListKeeps ==
  ASSUME IInv, NEW p \in Procs, List(p)
  PROVE  IInv'
<1>a. pc[p] = "list" /\ UNCHANGED <<disk, labels, used, ghosts>>
  BY DEF List, Doing
<1>b. \E j \in Job : /\ Move(p, "scan", j) /\ Same(j, job[p])
                     /\ j.todo = {g \in Ids : json[g] # NoFile}
                     /\ j.rivals = {g \in Ids \ {Mine(p)} :
                          ChatOf[g] = ChatOf[Mine(p)] /\ Published(g) /\ Enabled(g)}
  BY ListDoes DEF IInv
<1>1. TypeOK'
  BY <1>a, <1>b, NoJobType DEF IInv, TypeOK, Move, disk, ghosts, Same, Steps
<1>2. Drawn'
  BY <1>a, <1>b DEF IInv, TypeOK, Drawn, Op, Mine, Scanning, Move, disk, ghosts,
     Same
<1>3. Half'
  BY <1>a, <1>b DEF IInv, TypeOK, Half, Drawn, Vouched, Safe, Relied, Made, Making,
     Creating, Op, Mine, Move, disk, ghosts, Same
<1>4. Vouched'
  BY <1>a, <1>b DEF IInv, TypeOK, Vouched, Relied, Safe, Whole, Made, Making,
     Creating, Half, Drawn, Op, Mine, Move, disk, ghosts, Same
<1>5. Marked'
  BY <1>a, <1>b DEF IInv, TypeOK, Marked, Half, Drawn, Making, Creating, Op, Mine,
     Move, disk, ghosts, Same
<1>6. Off'
  BY <1>a, <1>b DEF IInv, TypeOK, Off, Vouched, Safe, Whole, Made, Making, Creating,
     Relied, Drawn, Op, Mine, Scanning, Move, disk, ghosts, Same
<1>7. Late'
  BY <1>a, <1>b DEF IInv, TypeOK, Late, Off, Drawn, Scanning, Op, Mine, Move, disk,
     ghosts, Same
<1>8. Rivals'
  <2>1. PICK j \in Job : /\ Move(p, "scan", j) /\ Same(j, job[p])
                         /\ j.todo = {g \in Ids : json[g] # NoFile}
                         /\ j.rivals = {g \in Ids \ {Mine(p)} :
                              ChatOf[g] = ChatOf[Mine(p)] /\ Published(g) /\ Enabled(g)}
    BY <1>b
  <2>2. ASSUME NEW q \in Procs, q # p
        PROVE  pc'[q] = pc[q] /\ job'[q] = job[q]
    BY <2>1, <2>2 DEF IInv, TypeOK, Move
  <2>3. pc'[p] = "scan" /\ job'[p] = j /\ Mine(p)' = Mine(p)
    BY <2>1 DEF IInv, TypeOK, Move, Same, Mine
  <2>4. ASSUME NEW g \in j.rivals
        PROVE  Listed(g) /\ g # Mine(p) /\ ChatOf[g] = ChatOf[Mine(p)] /\ g \in j.todo
    <3>1. g \in Ids /\ json[g] \in Record /\ ready[g] /\ g # Mine(p)
      BY <2>1 DEF Published
    <3>2. g \in used /\ json[g] # NoFile
      BY <3>1, Files DEF IInv, Drawn
    <3>3. ASSUME NEW q \in Procs, Making(q), Mine(q) = g PROVE pc[q] \in {"seal", "undo", "unmark"}
      BY <3>1, <3>3 DEF IInv, Half, Making, Creating
    <3> QED BY <2>1, <3>1, <3>2, <3>3 DEF Listed
  <2>5. Making(p) = Making(p)' /\ ~Making(p)
    BY <1>a, <2>3 DEF Making, Creating
  <2>6. \A g \in Ids : Listed(g) => Listed(g)'
    BY <1>a, <2>2, <2>5 DEF Listed, Making, Mine, Op
  <2>7. \A g \in Ids : Passed(g)' = Passed(g)
    BY <1>a DEF Passed, Enabled, disk, ghosts
  <2>8. ASSUME NEW q \in Procs, q # p, pc'[q] \in Scanning
        PROVE  /\ \A g \in job'[q].rivals :
                    /\ Listed(g)' /\ g # Mine(q)' /\ ChatOf[g] = ChatOf[Mine(q)']
                    /\ \/ Passed(g)' \/ g \in job'[q].todo \/ g \in job'[q].found
                       \/ pc'[q] \in {"scanRead", "recheck"} /\ g = job'[q].at
               /\ pc'[q] = "granted" => job'[q].found = {Mine(q)'} /\ job'[q].todo = {}
    <3>1. job[q].rivals \subseteq Ids /\ pc[q] \in Scanning /\ Mine(q)' = Mine(q)
      BY <2>2, <2>8 DEF IInv, TypeOK, Job, Mine
    <3> QED BY <2>2, <2>6, <2>7, <2>8, <3>1 DEF IInv, Rivals
  <2>9. \A g \in job'[p].rivals :
          /\ Listed(g)' /\ g # Mine(p)' /\ ChatOf[g] = ChatOf[Mine(p)'] /\ g \in job'[p].todo
    BY <2>1, <2>3, <2>4, <2>6
  <2> QED BY <2>3, <2>8, <2>9 DEF Rivals
<1> QED BY <1>1, <1>2, <1>3, <1>4, <1>5, <1>6, <1>7, <1>8 DEF IInv

(* The rival that is looked at is the one at hand.                         *)
LEMMA ScanKeeps ==
  ASSUME IInv, NEW p \in Procs, NEW g \in Ids, Scan(p, g)
  PROVE  IInv'
<1>a. pc[p] = "scan" /\ UNCHANGED <<disk, labels, used, ghosts>>
  BY DEF Scan, Doing
<1>b. \E j \in Job, step \in {"scanRead", "recheck"} :
        /\ Move(p, step, j) /\ Same(j, job[p])
        /\ j.at = g /\ j.todo = job[p].todo \ {g}
        /\ j.rivals = job[p].rivals /\ j.found = job[p].found
  BY ScanDoes DEF IInv
<1>1. TypeOK'
  BY <1>a, <1>b, NoJobType DEF IInv, TypeOK, Move, disk, ghosts, Same, Steps
<1>2. Drawn'
  BY <1>a, <1>b DEF IInv, TypeOK, Drawn, Op, Mine, Scanning, Move, disk, ghosts,
     Same
<1>3. Half'
  BY <1>a, <1>b DEF IInv, TypeOK, Half, Drawn, Vouched, Safe, Relied, Made, Making,
     Creating, Op, Mine, Move, disk, ghosts, Same
<1>4. Vouched'
  BY <1>a, <1>b DEF IInv, TypeOK, Vouched, Relied, Safe, Whole, Made, Making,
     Creating, Half, Drawn, Op, Mine, Move, disk, ghosts, Same
<1>5. Marked'
  BY <1>a, <1>b DEF IInv, TypeOK, Marked, Half, Drawn, Making, Creating, Op, Mine,
     Move, disk, ghosts, Same
<1>6. Off'
  BY <1>a, <1>b DEF IInv, TypeOK, Off, Vouched, Safe, Whole, Made, Making, Creating,
     Relied, Drawn, Op, Mine, Scanning, Move, disk, ghosts, Same
<1>7. Late'
  BY <1>a, <1>b DEF IInv, TypeOK, Late, Off, Drawn, Scanning, Op, Mine, Move, disk,
     ghosts, Same
<1>8. Rivals'
  BY <1>a, <1>b DEF IInv, TypeOK, Rivals, Passed, Listed, Enabled, Scanning, Making,
     Creating, Half, Drawn, Op, Mine, Move, disk, ghosts, Same
<1> QED BY <1>1, <1>2, <1>3, <1>4, <1>5, <1>6, <1>7, <1>8 DEF IInv

(* A rival that reads enabled is found.                                    *)
LEMMA ScanReadKeeps ==
  ASSUME IInv, NEW p \in Procs, ScanRead(p)
  PROVE  IInv'
<1>a. pc[p] = "scanRead" /\ UNCHANGED <<disk, labels, used, ghosts>>
  BY DEF ScanRead, Doing
<1>b. \/ \E j \in Job :
           /\ Move(p, "scan", j) /\ Same(j, job[p])
           /\ j.rivals = job[p].rivals /\ j.todo = job[p].todo
           /\ job[p].found \subseteq j.found
           /\ Enabled(job[p].at) /\ ChatOf[job[p].at] = ChatOf[Mine(p)]
                => job[p].at \in j.found
      \/ \E j \in Job : Move(p, "recheck", j) /\ SameScan(j, job[p]) /\ j.at = job[p].at
  BY ScanReadDoes, <1>a DEF IInv, Drawn
<1>1. TypeOK'
  BY <1>a, <1>b, NoJobType DEF IInv, TypeOK, Move, disk, ghosts, Same, SameScan,
     Steps
<1>2. Drawn'
  BY <1>a, <1>b DEF IInv, TypeOK, Drawn, Op, Mine, Scanning, Move, disk, ghosts,
     Same, SameScan
<1>3. Half'
  BY <1>a, <1>b DEF IInv, TypeOK, Half, Drawn, Vouched, Safe, Relied, Made, Making,
     Creating, Op, Mine, Move, disk, ghosts, Same, SameScan
<1>4. Vouched'
  BY <1>a, <1>b DEF IInv, TypeOK, Vouched, Relied, Safe, Whole, Made, Making,
     Creating, Half, Drawn, Op, Mine, Move, disk, ghosts, Same, SameScan
<1>5. Marked'
  BY <1>a, <1>b DEF IInv, TypeOK, Marked, Half, Drawn, Making, Creating, Op, Mine,
     Move, disk, ghosts, Same, SameScan
<1>6. Off'
  BY <1>a, <1>b DEF IInv, TypeOK, Off, Vouched, Safe, Whole, Made, Making, Creating,
     Relied, Drawn, Op, Mine, Scanning, Move, disk, ghosts, Same, SameScan
<1>7. Late'
  BY <1>a, <1>b DEF IInv, TypeOK, Late, Off, Drawn, Scanning, Op, Mine, Move, disk,
     ghosts, Same, SameScan
<1>8. Rivals'
  BY <1>a, <1>b DEF IInv, TypeOK, Rivals, Passed, Listed, Enabled, Scanning, Making,
     Creating, Half, Drawn, Op, Mine, Move, disk, ghosts, Same, SameScan
<1> QED BY <1>1, <1>2, <1>3, <1>4, <1>5, <1>6, <1>7, <1>8 DEF IInv

(* A rival is passed over if it has no marker.                             *)
LEMMA RecheckKeeps ==
  ASSUME IInv, NEW p \in Procs, Recheck(p)
  PROVE  IInv'
<1>a. pc[p] = "recheck" /\ UNCHANGED <<disk, labels, used, ghosts>>
  BY DEF Recheck, Doing
<1>b. \/ Exit(p)
      \/ /\ ~ready[job[p].at]
         /\ \E j \in Job : Move(p, "scan", j) /\ SameScan(j, job[p])
  BY RecheckDoes DEF IInv
<1>1. TypeOK'
  BY <1>a, <1>b, NoJobType DEF IInv, TypeOK, Move, Exit, disk, ghosts, Same,
     SameScan, Steps
<1>2. Drawn'
  BY <1>a, <1>b DEF IInv, TypeOK, Drawn, Op, Mine, Scanning, Move, Exit, disk,
     ghosts, Same, SameScan
<1>3. Half'
  BY <1>a, <1>b DEF IInv, TypeOK, Half, Drawn, Vouched, Safe, Relied, Made, Making,
     Creating, Op, Mine, Move, Exit, disk, ghosts, Same, SameScan
<1>4. Vouched'
  BY <1>a, <1>b DEF IInv, TypeOK, Vouched, Relied, Safe, Whole, Made, Making,
     Creating, Half, Drawn, Op, Mine, Move, Exit, disk, ghosts, Same, SameScan
<1>5. Marked'
  BY <1>a, <1>b DEF IInv, TypeOK, Marked, Half, Drawn, Making, Creating, Op, Mine,
     Move, Exit, disk, ghosts, Same, SameScan
<1>6. Off'
  BY <1>a, <1>b DEF IInv, TypeOK, Off, Vouched, Safe, Whole, Made, Making, Creating,
     Relied, Drawn, Op, Mine, Scanning, Move, Exit, disk, ghosts, Same, SameScan
<1>7. Late'
  BY <1>a, <1>b DEF IInv, TypeOK, Late, Off, Drawn, Scanning, Op, Mine, Move, Exit,
     disk, ghosts, Same, SameScan
<1>8. Rivals'
  BY <1>a, <1>b DEF IInv, TypeOK, Rivals, Passed, Listed, Enabled, Scanning, Making,
     Creating, Half, Drawn, Op, Mine, Move, Exit, disk, ghosts, Same, SameScan
<1> QED BY <1>1, <1>2, <1>3, <1>4, <1>5, <1>6, <1>7, <1>8 DEF IInv

(* Nothing but the grant itself was found.                                 *)
LEMMA VerdictKeeps ==
  ASSUME IInv, NEW p \in Procs, Verdict(p)
  PROVE  IInv'
<1>1. TypeOK'
  <2>1. (job \in [Procs -> Job])'
    BY NoJobType DEF IInv, TypeOK, Verdict, OnlyFound, Goto, Exit, Move, Job, Ops,
       Mine, Op
  <2>2. (pc \in [Procs -> Steps])'
    BY DEF IInv, TypeOK, Verdict, OnlyFound, Goto, Exit, Move, Doing, Steps
  <2>3. (/\ json \in [Ids -> Payload] /\ ready \in [Ids -> BOOLEAN]
         /\ kept \in [json : [Ids -> Payload], ready : [Ids -> BOOLEAN]]
         /\ labels \in [Labels -> Ids \cup {None}] /\ used \subseteq Ids)'
    BY GrantAssumption DEF IInv, TypeOK, Verdict, OnlyFound, Goto, Exit, Move,
       Doing, disk, Job, Record, Payload, Mine, Drawn
  <2>4. (/\ revoked \subseteq Ids /\ revived \subseteq Ids /\ failed \subseteq Ids
         /\ faults \in 0..MaxFaults)'
    BY GrantAssumption DEF IInv, TypeOK, Verdict, OnlyFound, Goto, Exit, Move,
       Doing, ghosts, Drawn, Mine
  <2> QED BY <2>1, <2>2, <2>3, <2>4 DEF TypeOK
<1>2. Drawn'
  BY DEF IInv, TypeOK, Drawn, Op, Mine, Scanning, Verdict, OnlyFound, Goto, Exit,
     Move, Doing, disk, ghosts
<1>3. Half'
  BY DEF IInv, TypeOK, Half, Drawn, Vouched, Safe, Relied, Made, Making, Creating,
     Op, Mine, Verdict, OnlyFound, Goto, Exit, Move, Doing, disk, ghosts
<1>4. Vouched'
  BY DEF IInv, TypeOK, Vouched, Relied, Safe, Whole, Made, Making, Creating, Half,
     Drawn, Op, Mine, Verdict, OnlyFound, Goto, Exit, Move, Doing, disk, ghosts
<1>5. Marked'
  BY DEF IInv, TypeOK, Marked, Half, Drawn, Making, Creating, Op, Mine, Verdict,
     OnlyFound, Goto, Exit, Move, Doing, disk, ghosts
<1>6. Off'
  BY DEF IInv, TypeOK, Off, Vouched, Safe, Whole, Made, Making, Creating, Relied,
     Drawn, Op, Mine, Scanning, Verdict, OnlyFound, Goto, Exit, Move, Doing, disk,
     ghosts
<1>7. Late'
  BY DEF IInv, TypeOK, Late, Off, Drawn, Scanning, Op, Mine, Verdict, OnlyFound,
     Goto, Exit, Move, Doing, disk, ghosts
<1>8. Rivals'
  BY DEF IInv, TypeOK, Rivals, Passed, Listed, Enabled, Scanning, Making, Creating,
     Half, Drawn, Op, Mine, Verdict, OnlyFound, Goto, Exit, Move, Doing, disk,
     ghosts
<1> QED BY <1>1, <1>2, <1>3, <1>4, <1>5, <1>6, <1>7, <1>8 DEF IInv

(* A sender posts.                                                         *)
LEMMA PostedKeeps ==
  ASSUME IInv, NEW p \in Procs, Posted(p)
  PROVE  IInv'
<1>1. TypeOK'
  <2>1. (job \in [Procs -> Job])'
    BY NoJobType DEF IInv, TypeOK, Posted, Exit, Move, Job, Ops, Mine, Op
  <2>2. (pc \in [Procs -> Steps])'
    BY DEF IInv, TypeOK, Posted, Exit, Move, Doing, Steps
  <2>3. (/\ json \in [Ids -> Payload] /\ ready \in [Ids -> BOOLEAN]
         /\ kept \in [json : [Ids -> Payload], ready : [Ids -> BOOLEAN]]
         /\ labels \in [Labels -> Ids \cup {None}] /\ used \subseteq Ids)'
    BY GrantAssumption DEF IInv, TypeOK, Posted, Exit, Move, Doing, disk, Job,
       Record, Payload, Mine, Drawn
  <2>4. (/\ revoked \subseteq Ids /\ revived \subseteq Ids /\ failed \subseteq Ids
         /\ faults \in 0..MaxFaults)'
    BY GrantAssumption DEF IInv, TypeOK, Posted, Exit, Move, Doing, ghosts, Drawn,
       Mine
  <2> QED BY <2>1, <2>2, <2>3, <2>4 DEF TypeOK
<1>2. Drawn'
  BY DEF IInv, TypeOK, Drawn, Op, Mine, Scanning, Posted, Exit, Move, Doing, disk,
     ghosts
<1>3. Half'
  BY DEF IInv, TypeOK, Half, Drawn, Vouched, Safe, Relied, Made, Making, Creating,
     Op, Mine, Posted, Exit, Move, Doing, disk, ghosts
<1>4. Vouched'
  BY DEF IInv, TypeOK, Vouched, Relied, Safe, Whole, Made, Making, Creating, Half,
     Drawn, Op, Mine, Posted, Exit, Move, Doing, disk, ghosts
<1>5. Marked'
  BY DEF IInv, TypeOK, Marked, Half, Drawn, Making, Creating, Op, Mine, Posted,
     Exit, Move, Doing, disk, ghosts
<1>6. Off'
  BY DEF IInv, TypeOK, Off, Vouched, Safe, Whole, Made, Making, Creating, Relied,
     Drawn, Op, Mine, Scanning, Posted, Exit, Move, Doing, disk, ghosts
<1>7. Late'
  BY DEF IInv, TypeOK, Late, Off, Drawn, Scanning, Op, Mine, Posted, Exit, Move,
     Doing, disk, ghosts
<1>8. Rivals'
  BY DEF IInv, TypeOK, Rivals, Passed, Listed, Enabled, Scanning, Making, Creating,
     Half, Drawn, Op, Mine, Posted, Exit, Move, Doing, disk, ghosts
<1> QED BY <1>1, <1>2, <1>3, <1>4, <1>5, <1>6, <1>7, <1>8 DEF IInv

(* A command that dies leaves the files as they are.                       *)
LEMMA DieKeeps ==
  ASSUME IInv, NEW p \in Procs, Die(p)
  PROVE  IInv'
<1>1. TypeOK'
  <2>1. (job \in [Procs -> Job])'
    BY NoJobType DEF IInv, TypeOK, Die, Fault, Exit, Move, Job, Ops, Mine, Op
  <2>2. (pc \in [Procs -> Steps])'
    BY DEF IInv, TypeOK, Die, Fault, Exit, Move, Doing, Steps
  <2>3. (/\ json \in [Ids -> Payload] /\ ready \in [Ids -> BOOLEAN]
         /\ kept \in [json : [Ids -> Payload], ready : [Ids -> BOOLEAN]]
         /\ labels \in [Labels -> Ids \cup {None}] /\ used \subseteq Ids)'
    BY GrantAssumption DEF IInv, TypeOK, Die, Fault, Exit, Move, Doing, disk, Job,
       Record, Payload, Mine, Drawn
  <2>4. (/\ revoked \subseteq Ids /\ revived \subseteq Ids /\ failed \subseteq Ids
         /\ faults \in 0..MaxFaults)'
    BY GrantAssumption DEF IInv, TypeOK, Die, Fault, Exit, Move, Doing, Drawn, Mine
  <2> QED BY <2>1, <2>2, <2>3, <2>4 DEF TypeOK
<1>2. Drawn'
  BY DEF IInv, TypeOK, Drawn, Op, Mine, Scanning, Die, Fault, Exit, Move, Doing,
     disk
<1>3. Half'
  BY DEF IInv, TypeOK, Half, Drawn, Vouched, Safe, Relied, Made, Making, Creating,
     Op, Mine, Die, Fault, Exit, Move, Doing, disk
<1>4. Vouched'
  BY DEF IInv, TypeOK, Vouched, Relied, Safe, Whole, Made, Making, Creating, Half,
     Drawn, Op, Mine, Die, Fault, Exit, Move, Doing, disk
<1>5. Marked'
  BY DEF IInv, TypeOK, Marked, Half, Drawn, Making, Creating, Op, Mine, Die, Fault,
     Exit, Move, Doing, disk
<1>6. Off'
  BY DEF IInv, TypeOK, Off, Vouched, Safe, Whole, Made, Making, Creating, Relied,
     Drawn, Op, Mine, Scanning, Die, Fault, Exit, Move, Doing, disk
<1>7. Late'
  BY DEF IInv, TypeOK, Late, Off, Drawn, Scanning, Op, Mine, Die, Fault, Exit, Move,
     Doing, disk
<1>8. Rivals'
  BY DEF IInv, TypeOK, Rivals, Passed, Listed, Enabled, Scanning, Making, Creating,
     Half, Drawn, Op, Mine, Die, Fault, Exit, Move, Doing, disk
<1> QED BY <1>1, <1>2, <1>3, <1>4, <1>5, <1>6, <1>7, <1>8 DEF IInv

(* A power cut gives back what was there or what was kept.                 *)
LEMMA PowerCutKeeps ==
  ASSUME IInv, PowerCut
  PROVE  IInv'
<1>a. /\ faults' \in 0..MaxFaults /\ kept' \in [json : [Ids -> Payload], ready : [Ids -> BOOLEAN]]
      /\ pc' = [p \in Procs |-> "idle"] /\ job' = [p \in Procs |-> NoJob]
      /\ UNCHANGED <<labels, used, revoked, revived, failed>>
  BY GrantAssumption DEF IInv, TypeOK, PowerCut, Fault
<1>b. /\ \A p \in Procs : pc'[p] = "idle" /\ job'[p] = NoJob
      /\ json' \in [Ids -> Payload] /\ ready' \in [Ids -> BOOLEAN]
      /\ \A g \in Ids : json[g] \in Record /\ kept.json[g] \in Record
           => json'[g] \in {json[g], kept.json[g]} /\ json'[g] \in Record
      /\ \A g \in Ids : json[g] = NoFile /\ kept.json[g] = NoFile => json'[g] = NoFile
      /\ \A g \in Ids : ready'[g] \in {ready[g], kept.ready[g]}
      /\ kept'.json = json' /\ kept'.ready = (ready')
  BY PowerCutDoes DEF IInv
<1>1. TypeOK'
  BY <1>a, <1>b, NoJobType DEF IInv, TypeOK, Steps
<1>2. Drawn'
  BY <1>a, <1>b DEF IInv, TypeOK, Drawn, Op, Mine, Scanning
<1>3. Half'
  BY <1>a, <1>b DEF IInv, TypeOK, Half, Drawn, Vouched, Safe, Relied, Made, Making,
     Creating, Op, Mine
<1>4. Vouched'
  BY <1>a, <1>b DEF IInv, TypeOK, Vouched, Relied, Safe, Whole, Made, Making,
     Creating, Half, Drawn, Op, Mine
<1>5. Marked'
  BY <1>a, <1>b DEF IInv, TypeOK, Marked, Half, Drawn, Making, Creating, Op, Mine
<1>6. Off'
  BY <1>a, <1>b DEF IInv, TypeOK, Off, Vouched, Safe, Whole, Made, Making, Creating,
     Relied, Drawn, Op, Mine, Scanning
<1>7. Late'
  BY <1>a, <1>b DEF IInv, TypeOK, Late, Off, Drawn, Scanning, Op, Mine
<1>8. Rivals'
  BY <1>a, <1>b DEF IInv, TypeOK, Rivals, Passed, Listed, Enabled, Scanning, Making,
     Creating, Half, Drawn, Op, Mine
<1> QED BY <1>1, <1>2, <1>3, <1>4, <1>5, <1>6, <1>7, <1>8 DEF IInv

(* A step that changes nothing keeps everything.                           *)
LEMMA StutterKeeps ==
  ASSUME IInv, UNCHANGED vars
  PROVE  IInv'
<1>1. TypeOK'
  BY GrantAssumption DEF IInv, TypeOK, vars, disk, ghosts, Job, Steps, Ops, Record,
     Payload, Mine
<1>2. Drawn'
  BY DEF IInv, TypeOK, Drawn, Op, Mine, Scanning, vars, disk, ghosts
<1>3. Half'
  BY DEF IInv, TypeOK, Half, Drawn, Vouched, Safe, Relied, Made, Making, Creating,
     Op, Mine, vars, disk, ghosts
<1>4. Vouched'
  BY DEF IInv, TypeOK, Vouched, Relied, Safe, Whole, Made, Making, Creating, Half,
     Drawn, Op, Mine, vars, disk, ghosts
<1>5. Marked'
  BY DEF IInv, TypeOK, Marked, Half, Drawn, Making, Creating, Op, Mine, vars, disk,
     ghosts
<1>6. Off'
  BY DEF IInv, TypeOK, Off, Vouched, Safe, Whole, Made, Making, Creating, Relied,
     Drawn, Op, Mine, Scanning, vars, disk, ghosts
<1>7. Late'
  BY DEF IInv, TypeOK, Late, Off, Drawn, Scanning, Op, Mine, vars, disk, ghosts
<1>8. Rivals'
  BY DEF IInv, TypeOK, Rivals, Passed, Listed, Enabled, Scanning, Making, Creating,
     Half, Drawn, Op, Mine, vars, disk, ghosts
<1> QED BY <1>1, <1>2, <1>3, <1>4, <1>5, <1>6, <1>7, <1>8 DEF IInv

(* At first nothing was drawn, so nothing is relied on.                    *)
LEMMA InitKeeps == Init => IInv
<1> SUFFICES ASSUME Init PROVE IInv
  OBVIOUS
<1>1. TypeOK
  BY NoJobType, GrantAssumption DEF Init, TypeOK, Payload, Steps
<1>2. Drawn /\ Half /\ Marked /\ Late /\ Rivals
  BY Files
  DEF Init, Drawn, Half, Marked, Late, Rivals, Making, Creating, Scanning, Op, Mine
<1>3. Vouched /\ Off
  BY GrantAssumption DEF Init, Vouched, Relied, Off, Op, Mine, NoJob
<1> QED BY <1>1, <1>2, <1>3 DEF IInv

(* Every step keeps the invariant.                                         *)
LEMMA NextKeeps == IInv /\ [Next]_vars => IInv'
<1> SUFFICES ASSUME IInv, [Next]_vars PROVE IInv'
  OBVIOUS
<1>1. ASSUME NEW p \in Procs, Step(p) PROVE IInv'
  <2>1. CASE \E g \in Ids : Create(p, g) \/ Check(p, g) \/ Scan(p, g)
    BY <2>1, CreateKeeps, CheckKeeps, ScanKeeps
  <2>2. CASE \E l \in Labels : Change(p, l)
    BY <2>2, ChangeKeeps
  <2>3. CASE \/ Claim(p) \/ Replace(p) \/ SyncPayload(p) \/ Mark(p) \/ Seal(p) \/ BindRead(p)
             \/ BindWrite(p) \/ Breaks(p) \/ Undo(p) \/ Unmark(p)
    BY <2>3, ClaimKeeps, ReplaceKeeps, SyncPayloadKeeps, MarkKeeps, SealKeeps, BindReadKeeps,
       BindWriteKeeps, BreaksKeeps, UndoKeeps, UnmarkKeeps
  <2>4. CASE \/ Look(p) \/ Read(p) \/ Verify(p) \/ List(p) \/ ScanRead(p) \/ Recheck(p)
             \/ Verdict(p) \/ Posted(p) \/ Die(p)
    BY <2>4, LookKeeps, ReadKeeps, VerifyKeeps, ListKeeps, ScanReadKeeps, RecheckKeeps,
       VerdictKeeps, PostedKeeps, DieKeeps
  <2> QED BY <1>1, <2>1, <2>2, <2>3, <2>4 DEF Step
<1> QED BY <1>1, PowerCutKeeps, StutterKeeps DEF Next

(* The invariant holds whatever is run, dies, fails or loses power.        *)
THEOREM GrantInvariant == Spec => []IInv
BY InitKeeps, NextKeeps, PTL DEF Spec

(* A marker vouches for a whole payload.                                   *)
THEOREM MarkedIsWholeHolds == Spec => []MarkedIsWhole
<1>1. IInv => MarkedIsWhole
  BY DEF IInv, Marked, MarkedIsWhole
<1> QED BY <1>1, GrantInvariant, PTL

(* No power cut takes the grant of a label.                                *)
THEOREM LabelledIsKeptHolds == Spec => []LabelledIsKept
<1>1. IInv => LabelledIsKept
  BY DEF IInv, TypeOK, Vouched, Relied, Safe, Whole, LabelledIsKept
<1> QED BY <1>1, GrantInvariant, PTL

(* No sender is granted beside a rival that was enabled all along.         *)
THEOREM RivalsRefuseHolds == Spec => []RivalsRefuse
<1>1. IInv => RivalsRefuse
  BY DEF IInv, TypeOK, Job, Rivals, Passed, Scanning, Doing, RivalsRefuse
<1> QED BY <1>1, GrantInvariant, PTL

(* A revoked grant is granted again only if a --limits revived it.         *)
THEOREM OnlyRacesReviveHolds == Spec => []OnlyRacesRevive
<1>1. IInv => OnlyRacesRevive
  BY DEF IInv, Late, Scanning, Doing, OnlyRacesRevive
<1> QED BY <1>1, GrantInvariant, PTL

(* The variables keep their types.                                         *)
THEOREM GrantTypes == Spec => []TypeOK
<1>1. IInv => TypeOK
  BY DEF IInv
<1> QED BY <1>1, GrantInvariant, PTL
=============================================================================
