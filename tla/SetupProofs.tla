---------------------------- MODULE SetupProofs ----------------------------
(***************************************************************************)
(* Proofs about Setup, for every set of mailboxes and panes, any platform  *)
(* and any number of runs, edits and kills: the types, and the five        *)
(* properties the run checks.                                              *)
(***************************************************************************)
EXTENDS Setup, TLAPS

Late == {"allow", "writeAllow", "ring", "resident"}

(* While a run goes on it has no outcome, and its mode and route are the   *)
(* answers it was given.                                                   *)
Answered ==
  pc # "off" =>
    /\ run.resident = "none"
    /\ run.mode = IF run.route = NoRoute THEN "standalone" ELSE "integrated"
    /\ run.route # NoRoute => run.route \in chosen
    /\ pc # "resident" => run.ring = "not configured"
    /\ pc \in {"tokens", "env", "writeEnv"} => ~run.existed

(* What a run has touched by the step it has come to.                      *)
Touched ==
  /\ pc \in {"tokens", "env"} => AsFound
  /\ pc = "writeEnv" => ~found.file.there /\ env = NoEnv
  /\ pc = "route" => /\ run.route # NoRoute
                     /\ run.existed => AsFound
                     /\ ~run.existed => ~found.file.there /\ Named(env) = run.route
  /\ pc \in Late => ~Refusable
  /\ pc = "writeAllow" => allow = "torn"
  /\ pc \in {"writeEnv", "route"} \cup Late => file.there
  /\ ~file.there => env = NoEnv
  /\ pc # "off" => /\ ~found.file.there => found.env = NoEnv
                   /\ run.mode = "standalone" => Named(env) = Named(found.env)
                   /\ pc # "resident" => env["surface"] = found.env["surface"]

(* What the summary says is so from the step that finds it out.            *)
Reported ==
  /\ pc \in Late /\ run.mode = "integrated" => Named(env) = run.route
  /\ pc \in {"ring", "resident"} => (run.delivers <=> allow = "list")
  /\ pc = "resident" /\ run.ring = "configured" =>
       /\ Loads(env, file) /\ NotifierOf(env) = Kind[run.pane]
       /\ env["surface"] \in {run.pane, found.env["surface"]} \ {Blank}
  /\ pc = "resident" /\ run.ring = "helper" => run.mode = "integrated"
  /\ pc = "off" /\ run.resident = "started" =>
       env["mail"] # Blank \/ env["surface"] # Blank

IInv ==
  /\ TypeOK /\ Answered /\ Touched /\ Reported
  /\ RouteIsOnePair /\ RefusedLeavesAlone /\ NeverAWish /\ StartedRings

(* The keys are what they look like, and no two of them are one.           *)
LEMMA KeyFacts ==
  /\ SecretKeys \subseteq {"bot", "app"}
  /\ Keys = SecretKeys \cup {"mail", "to", "surface", "notifier"}
  /\ Secrets[1] \in SecretKeys /\ Len(Secrets) \in Nat \ {0}
  /\ \A s \in SecretKeys : \E i \in 1..Len(Secrets) : Secrets[i] = s
BY SetupAssumption DEF SecretKeys, Keys, RouteKeys

(* A route that is chosen has both halves, and no other answer does.       *)
LEMMA RouteFacts ==
  /\ ~IsRoute(NoRoute) /\ NoRoute \notin Routes
  /\ \A r \in Routes : /\ r["mail"] \in Mailboxes /\ r["to"] \in Participants
                       /\ r["mail"] # Blank /\ r["to"] # Blank
BY SetupAssumption DEF IsRoute, NoRoute, Routes, RouteKeys

(* A config that has both halves of a route names that route.              *)
LEMMA NamedIs ==
  ASSUME NEW e, NEW r \in Routes \cup {NoRoute},
         e["mail"] = r["mail"], e["to"] = r["to"]
  PROVE  Named(e) = r
BY DEF Named, Routes, NoRoute, RouteKeys

(* The halves of the route a config names are its settings.                *)
LEMMA HalvesNamed ==
  ASSUME NEW e
  PROVE  /\ Named(e)["mail"] = e["mail"] /\ Named(e)["to"] = e["to"]
         /\ IsRoute(Named(e)) <=> e["mail"] # Blank /\ e["to"] # Blank
BY DEF Named, RouteKeys, IsRoute

(* What stands for nothing has its type.                                   *)
LEMMA EmptyTyped ==
  /\ NoEnv \in [Keys -> Settings] /\ Typed(NoEnv) /\ Named(NoEnv) = NoRoute
  /\ NoFile \in File /\ NoFound \in [env : [Keys -> Settings], file : File,
                                     allow : {"absent", "torn", "deny", "list"}]
<1>1. NoEnv \in [Keys -> Settings] /\ Typed(NoEnv)
  BY KeyFacts DEF NoEnv, Settings, Typed
<1>2. Named(NoEnv) = NoRoute
  BY KeyFacts DEF Named, NoEnv, NoRoute, RouteKeys
<1>3. NoFile \in File
  BY DEF NoFile, File
<1> QED BY <1>1, <1>2, <1>3 DEF NoFound

(* Between runs nothing has been answered.                                 *)
LEMMA NoRunTyped == NoRun \in Run /\ Len(NoRun.got) = 0
BY DEF NoRun, Run


(* A typed config that has both halves of a route names a route.           *)
LEMMA TypedRoute ==
  ASSUME NEW e, Typed(e), IsRoute(Named(e))
  PROVE  Named(e) \in Routes
BY HalvesNamed DEF Typed, Named, Routes, RouteKeys

(* A token more leaves the rest of the run as it was.                      *)
LEMMA GotTyped ==
  ASSUME run \in Run, NEW v \in {"good", Blank}, Got(v)
  PROVE  /\ run' \in Run /\ Len(run'.got) = Len(run.got) + 1
         /\ pc' = IF Len(run.got) + 1 = Len(Secrets) THEN "env" ELSE "tokens"
<1>1. /\ Append(run.got, v) \in Seq({"good", Blank})
      /\ Len(Append(run.got, v)) = Len(run.got) + 1
  <2> DEFINE T == {"good", Blank}
  <2>1. run.got \in Seq(T) /\ v \in T
    BY DEF Run
  <2> HIDE DEF T
  <2>2. Append(run.got, v) \in Seq(T) /\ Len(Append(run.got, v)) = Len(run.got) + 1
    BY <2>1
  <2> QED BY <2>2 DEF T
<1>2. run' = [run EXCEPT !.got = Append(run.got, v)]
  BY DEF Got, Goto
<1> QED BY <1>1, <1>2 DEF Run, Got, Goto

(* What a new config says.                                                 *)
LEMMA WrittenEnv ==
  ASSUME TypeOK, WriteEnv
  PROVE  /\ Named(env') = run.route /\ env' \in [Keys -> Settings] /\ Typed(env')
         /\ env'["surface"] = Blank
<1> DEFINE at(s) == CHOOSE i \in 1..Len(Secrets) : Secrets[i] = s
<1>1. ASSUME NEW s \in SecretKeys PROVE run.got[at(s)] \in {"good", Blank}
  <2>1. \E i \in 1..Len(Secrets) : Secrets[i] = s
    BY KeyFacts
  <2>2. at(s) \in 1..Len(Secrets)
    BY <2>1
  <2>3. run.got \in Seq({"good", Blank}) /\ Len(run.got) = Len(Secrets)
    BY DEF TypeOK, Run, WriteEnv
  <2> HIDE DEF at
  <2> QED BY <2>2, <2>3
<1>2. /\ run.route \in Routes \cup {NoRoute}
      /\ run.route["mail"] \in Mailboxes \cup {Blank}
      /\ run.route["to"] \in Participants \cup {Blank}
  <2>1. run.route \in Routes \cup {NoRoute}
    BY DEF TypeOK, Run
  <2>2. NoRoute["mail"] = Blank /\ NoRoute["to"] = Blank
    BY DEF NoRoute, RouteKeys
  <2> QED BY <2>1, <2>2, RouteFacts
<1>3. env' = [k \in Keys |-> IF k \in RouteKeys THEN run.route[k]
                            ELSE IF k \in SecretKeys THEN run.got[at(k)] ELSE Blank]
  BY DEF WriteEnv
<1> HIDE DEF at
<1>4. /\ env'["mail"] = run.route["mail"] /\ env'["to"] = run.route["to"]
      /\ env'["surface"] = Blank /\ env'["notifier"] = Blank
  BY <1>3, KeyFacts DEF RouteKeys
<1>5. \A s \in SecretKeys : env'[s] = run.got[at(s)]
  BY <1>3, KeyFacts DEF RouteKeys
<1>6. Named(env') = run.route
  BY <1>2, <1>4, NamedIs
<1>7. Typed(env')
  BY <1>1, <1>2, <1>4, <1>5 DEF Typed
<1>8. \A k \in Keys : env'[k] \in Settings
  BY <1>7, KeyFacts DEF Typed, Settings
<1>9. env' \in [Keys -> Settings]
  BY <1>3, <1>8
<1> QED BY <1>4, <1>6, <1>7, <1>9

(* What a kept config says once a route is taken, and that a key outside   *)
(* the route is as it was.                                                 *)
LEMMA RoutedEnv ==
  ASSUME TypeOK, Answered, Touched, RouteTaken
  PROVE  /\ Named(env') = run.route /\ env' \in [Keys -> Settings] /\ Typed(env')
         /\ env'["surface"] = env["surface"]
<1>1. /\ run.route \in Routes
      /\ run.route["mail"] \in Mailboxes /\ run.route["to"] \in Participants
      /\ run.route["mail"] # Blank /\ run.route["to"] # Blank
  BY RouteFacts DEF TypeOK, Run, Touched, RouteTaken
<1>2. env' = [k \in Keys |-> IF RouteLines[k] # Blank THEN RouteLines[k] ELSE env[k]]
  BY DEF RouteTaken, AddLines
<1>3. \A k \in Keys \ RouteKeys : env'[k] = env[k]
  BY <1>2 DEF RouteLines
<1>4. ASSUME NEW k \in RouteKeys PROVE env'[k] = run.route[k]
  <2>1. k \in Keys /\ run.route[k] # Blank
    BY <1>1 DEF RouteKeys, Keys
  <2>2. CASE run.existed
    <3>1. env[k] = Blank \/ env[k] = run.route[k]
      BY <2>2 DEF RouteTaken, Disagrees
    <3> QED BY <1>2, <2>1, <2>2, <3>1 DEF RouteLines
  <2>3. CASE ~run.existed
    <3>1. Named(env) = run.route
      BY <2>3 DEF Touched, RouteTaken
    <3>2. env[k] = run.route[k]
      BY <3>1 DEF Named
    <3> QED BY <1>2, <2>1, <2>3, <3>2 DEF RouteLines
  <2> QED BY <2>2, <2>3
<1>5. Named(env') = run.route
  BY <1>1, <1>4, NamedIs DEF RouteKeys
<1>6. Typed(env')
  BY <1>1, <1>3, <1>4, KeyFacts DEF Typed, RouteKeys, TypeOK
<1>7. \A k \in Keys : env'[k] \in Settings
  BY <1>6, KeyFacts DEF Typed, Settings
<1>8. env' \in [Keys -> Settings]
  BY <1>2, <1>7
<1> QED BY <1>3, <1>5, <1>6, <1>8, KeyFacts DEF RouteKeys

(* Naming a pane leaves the route as it was.                               *)
LEMMA PanedEnv ==
  ASSUME TypeOK, NEW p \in Panes, NamePane(p)
  PROVE  /\ Named(env') = Named(env) /\ env' \in [Keys -> Settings] /\ Typed(env')
         /\ env'["surface"] \in {p, env["surface"]}
<1>1. PICK lines \in [Keys -> {Blank, p, Kind[p]}] :
        /\ env' = [k \in Keys |-> IF lines[k] # Blank THEN lines[k] ELSE env[k]]
        /\ \A k \in Keys \ {"surface", "notifier"} : lines[k] = Blank
        /\ lines["surface"] \in {Blank, p} /\ lines["notifier"] \in {Blank, Kind[p]}
  <2>1. CASE run.existed /\ ~Loads(env, file)
    <3>1. NoLines \in [Keys -> {Blank, p, Kind[p]}] /\ \A k \in Keys : NoLines[k] = Blank
      BY DEF NoLines
    <3> QED BY <2>1, <3>1, KeyFacts DEF NamePane, AddLines
  <2>2. CASE ~(run.existed /\ ~Loads(env, file))
    <3>1. /\ RingLines(p) \in [Keys -> {Blank, p, Kind[p]}]
          /\ \A k \in Keys \ {"surface", "notifier"} : RingLines(p)[k] = Blank
          /\ RingLines(p)["surface"] \in {Blank, p}
          /\ RingLines(p)["notifier"] \in {Blank, Kind[p]}
      BY KeyFacts DEF RingLines
    <3> QED BY <2>2, <3>1 DEF NamePane, AddLines
  <2> QED BY <2>1, <2>2
<1>3. Kind[p] \in Multiplexers
  BY SetupAssumption
<1>4. \A k \in Keys \ {"surface", "notifier"} : env'[k] = env[k]
  BY <1>1
<1>5. Named(env') = Named(env)
  BY <1>4, KeyFacts DEF Named, RouteKeys
<1>6. env'["surface"] \in Panes \cup {Blank} /\ env'["notifier"] \in Multiplexers \cup {Blank}
  <2>1. "surface" \in Keys /\ "notifier" \in Keys
    BY KeyFacts
  <2>2. env["surface"] \in Panes \cup {Blank} /\ env["notifier"] \in Multiplexers \cup {Blank}
    BY DEF TypeOK, Typed
  <2> QED BY <1>1, <1>3, <2>1, <2>2
<1>7. Typed(env')
  BY <1>4, <1>6, KeyFacts DEF Typed, TypeOK
<1>8. \A k \in Keys : env'[k] \in Settings
  BY <1>7, KeyFacts DEF Typed, Settings
<1>9. env' \in [Keys -> Settings]
  BY <1>1, <1>8
<1>10. env'["surface"] \in {p, env["surface"]}
  BY <1>1, KeyFacts
<1> QED BY <1>5, <1>7, <1>9, <1>10

(* A file that settings are added to is a file of the same kind.           *)
LEMMA AddedFile ==
  ASSUME file \in File, NEW lines, AddLines(lines)
  PROVE  file' \in File /\ file'.there = file.there /\ file'.sound = file.sound
BY DEF AddLines, LastLine, File

(* A bridge that may be started has a ring in its config.                  *)
LEMMA RingFacts ==
  ASSUME IInv, StartResident
  PROVE  env["mail"] # Blank \/ env["surface"] # Blank
<1>1. CASE run.ring = "configured"
  BY <1>1 DEF IInv, Reported, StartResident
<1>2. CASE run.ring = "helper"
  <2>1. Named(env) = run.route /\ run.route \in Routes
    BY <1>2 DEF IInv, Reported, Answered, StartResident, Late, TypeOK
  <2> QED BY <2>1, RouteFacts, HalvesNamed
<1> QED BY <1>1, <1>2 DEF StartResident, MayStart, Rings

(* A run that begins has touched nothing.                                  *)
LEMMA BeginKeeps ==
  ASSUME IInv, Begin
  PROVE  IInv'
<1>1. TypeOK'
  <2>1. (run \in Run)'
    BY ZenonT(60), KeyFacts, NoRunTyped, RouteFacts DEF IInv, TypeOK, Begin, Goto, config,
       Run
  <2>2. (env \in [Keys -> Settings] /\ Typed(env) /\ file \in File)'
    BY DEF IInv, TypeOK, Begin, config
  <2>3. (found \in [env : [Keys -> Settings], file : File,
                  allow : {"absent", "torn", "deny", "list"}])'
    BY DEF IInv, TypeOK, Begin
  <2> QED
    <3>1. pc' = "tokens" /\ run'.got = << >>
      BY DEF Begin, Goto, NoRun
    <3>2. Len(run'.got) < Len(Secrets)
      BY <3>1, KeyFacts
    <3> QED BY <3>1, <3>2, <2>1, <2>2, <2>3 DEF IInv, TypeOK, Begin
<1>2. Answered'
  BY DEF Answered, Begin, Goto, NoRun, config
<1>3. Touched'
  BY DEF IInv, Touched, AsFound, Late, Begin, Goto, config
<1>4. Reported'
  BY DEF Reported, Late, Begin, Goto
<1>5. RouteIsOnePair'
  BY DEF IInv, RouteIsOnePair, Begin, config
<1>6. RefusedLeavesAlone'
  BY DEF RefusedLeavesAlone, AsFound, Begin, Goto, NoRun, config
<1>7. NeverAWish'
  BY DEF NeverAWish, Finished, Begin, Goto
<1>8. StartedRings'
  BY DEF StartedRings, Begin, Goto
<1> QED BY <1>1, <1>2, <1>3, <1>4, <1>5, <1>6, <1>7, <1>8 DEF IInv

(* A token that is typed touches nothing.                                  *)
LEMMA TypeTokenKeeps ==
  ASSUME IInv, TypeToken
  PROVE  IInv'
<1>1. TypeOK'
  <2>1. (run \in Run)'
    BY GotTyped DEF IInv, TypeOK, TypeToken
  <2>2. (env \in [Keys -> Settings] /\ Typed(env) /\ file \in File)'
    BY DEF IInv, TypeOK, TypeToken, config
  <2>3. (found \in [env : [Keys -> Settings], file : File,
                  allow : {"absent", "torn", "deny", "list"}])'
    BY DEF IInv, TypeOK, TypeToken, Outside
  <2> QED
    BY GotTyped, <2>2 DEF IInv, TypeOK, TypeToken, Outside
<1>2. Answered'
  BY DEF IInv, Answered, TypeOK, Run, TypeToken, Got, Goto, Outside
<1>3. Touched'
  BY DEF IInv, Touched, AsFound, Late, TypeToken, Got, Goto, Outside, config
<1>4. Reported'
  BY DEF Reported, Late, TypeToken, Got, Goto
<1>5. RouteIsOnePair'
  BY DEF IInv, RouteIsOnePair, TypeToken, Outside, config
<1>6. RefusedLeavesAlone'
  BY DEF IInv, RefusedLeavesAlone, Refusable, AsFound, TypeToken, Got, Goto,
     Outside, config
<1>7. NeverAWish'
  BY DEF NeverAWish, Finished, TypeToken, Got, Goto
<1>8. StartedRings'
  BY DEF StartedRings, TypeToken, Got, Goto
<1> QED BY <1>1, <1>2, <1>3, <1>4, <1>5, <1>6, <1>7, <1>8 DEF IInv

(* A token file is consumed: neither config nor allowlist is touched.      *)
LEMMA ReadTokenFileKeeps ==
  ASSUME IInv, ReadTokenFile
  PROVE  IInv'
<1>1. TypeOK'
  <2>1. (run \in Run)'
    BY GotTyped DEF IInv, TypeOK, ReadTokenFile, Goto
  <2>2. (env \in [Keys -> Settings] /\ Typed(env) /\ file \in File)'
    BY DEF IInv, TypeOK, ReadTokenFile, config
  <2>3. (found \in [env : [Keys -> Settings], file : File,
                  allow : {"absent", "torn", "deny", "list"}])'
    BY DEF IInv, TypeOK, ReadTokenFile, Outside
  <2> QED
    <3>1. pc = "tokens" /\ Len(run.got) < Len(Secrets) /\ run \in Run
      BY DEF IInv, TypeOK, ReadTokenFile
    <3>2. /\ (pc = "tokens" => Len(run.got) < Len(Secrets))'
          /\ (pc \in {"env", "writeEnv"} => Len(run.got) = Len(Secrets))'
          /\ pc' \in {"off", "tokens", "env"}
      <4>1. CASE Got("good")
        <5>1. /\ Len(run'.got) = Len(run.got) + 1
              /\ pc' = IF Len(run.got) + 1 = Len(Secrets) THEN "env" ELSE "tokens"
          BY <3>1, <4>1, GotTyped
        <5>2. Len(run.got) \in Nat /\ Len(Secrets) \in Nat
          <6>1. run.got \in Seq({"good", Blank})
            BY <3>1 DEF Run
          <6> QED BY <6>1, KeyFacts
        <5> QED BY <3>1, <5>1, <5>2
      <4>2. CASE Goto("off", run)
        BY <4>2 DEF Goto
      <4> QED BY <4>1, <4>2 DEF ReadTokenFile
    <3>3. (tokens \in [SecretKeys -> {"none", "right", "wrong", "unfit"}])'
      BY DEF IInv, TypeOK, ReadTokenFile
    <3> QED BY <3>2, <3>3, <2>1, <2>2, <2>3 DEF IInv, TypeOK, ReadTokenFile, Outside
<1>2. Answered'
  BY DEF IInv, Answered, TypeOK, Run, ReadTokenFile, Got, Goto, Outside
<1>3. Touched'
  BY DEF IInv, Touched, AsFound, Late, ReadTokenFile, Got, Goto, Outside,
     config
<1>4. Reported'
  BY DEF IInv, Reported, Late, Answered, ReadTokenFile, Got, Goto
<1>5. RouteIsOnePair'
  BY DEF IInv, RouteIsOnePair, ReadTokenFile, Outside, config
<1>6. RefusedLeavesAlone'
  <2>1. AsFound'
    BY DEF IInv, Touched, AsFound, ReadTokenFile, Outside, config
  <2>2. run'.resident = run.resident
    BY DEF IInv, TypeOK, Run, ReadTokenFile, Got, Goto
  <2>3. run.resident = "none"
    BY DEF IInv, Answered, ReadTokenFile
  <2> QED
    BY <2>1, <2>2, <2>3 DEF RefusedLeavesAlone
<1>7. NeverAWish'
  BY DEF IInv, NeverAWish, Finished, Answered, ReadTokenFile, Got, Goto
<1>8. StartedRings'
  BY DEF IInv, StartedRings, Answered, ReadTokenFile, Got, Goto
<1> QED BY <1>1, <1>2, <1>3, <1>4, <1>5, <1>6, <1>7, <1>8 DEF IInv

(* A config that is there is kept as it was found.                         *)
LEMMA KeepEnvKeeps ==
  ASSUME IInv, KeepEnv
  PROVE  IInv'
<1>1. TypeOK'
  BY DEF IInv, TypeOK, Run, KeepEnv, AfterEnv, Goto, Outside, config
<1>2. Answered'
  BY DEF IInv, Answered, TypeOK, Run, KeepEnv, AfterEnv, Goto, Outside
<1>3. Touched'
  BY RouteFacts DEF IInv, Touched, AsFound, Refusable, Late, Answered, TypeOK,
     Run, KeepEnv, AfterEnv, Goto, Outside, config
<1>4. Reported'
  BY DEF Reported, Late, TypeOK, Run, KeepEnv, AfterEnv, Goto
<1>5. RouteIsOnePair'
  BY DEF IInv, RouteIsOnePair, KeepEnv, Outside, config
<1>6. RefusedLeavesAlone'
  BY DEF IInv, RefusedLeavesAlone, Refusable, AsFound, KeepEnv, Goto, Outside,
     config
<1>7. NeverAWish'
  BY DEF IInv, NeverAWish, Finished, Answered, TypeOK, Run, KeepEnv, Goto
<1>8. StartedRings'
  BY DEF IInv, StartedRings, TypeOK, Run, Answered, KeepEnv, Goto
<1> QED BY <1>1, <1>2, <1>3, <1>4, <1>5, <1>6, <1>7, <1>8 DEF IInv

(* A new config is empty, so it names no route.                            *)
LEMMA OpenEnvKeeps ==
  ASSUME IInv, OpenEnv
  PROVE  IInv'
<1>1. TypeOK'
  <2>1. (run \in Run)'
    BY DEF IInv, TypeOK, OpenEnv, Goto
  <2>2. (env \in [Keys -> Settings] /\ Typed(env) /\ file \in File)'
    BY EmptyTyped DEF OpenEnv, File
  <2>3. (found \in [env : [Keys -> Settings], file : File,
                  allow : {"absent", "torn", "deny", "list"}])'
    BY DEF IInv, TypeOK, OpenEnv, Outside
  <2> QED
    BY <2>2 DEF IInv, TypeOK, OpenEnv, Goto, Outside
<1>2. Answered'
  BY DEF IInv, Answered, OpenEnv, Goto, Outside
<1>3. Touched'
  BY DEF IInv, Touched, AsFound, Refusable, OpenEnv, Goto, Outside, NoFile
<1>4. Reported'
  BY DEF Reported, Late, OpenEnv, Goto
<1>5. RouteIsOnePair'
  BY KeyFacts DEF RouteIsOnePair, OpenEnv, NoEnv, Named, RouteKeys, IsRoute
<1>6. RefusedLeavesAlone'
  BY DEF IInv, RefusedLeavesAlone, Refusable, AsFound, Touched, OpenEnv,
     Outside
<1>7. NeverAWish'
  BY DEF NeverAWish, Finished, OpenEnv, Goto
<1>8. StartedRings'
  BY DEF StartedRings, OpenEnv, Goto
<1> QED BY <1>1, <1>2, <1>3, <1>4, <1>5, <1>6, <1>7, <1>8 DEF IInv

(* A new config says the route of the run, or none.                        *)
LEMMA WriteEnvKeeps ==
  ASSUME IInv, WriteEnv
  PROVE  IInv'
<1>1. TypeOK'
  <2>1. (run \in Run)'
    BY DEF IInv, TypeOK, WriteEnv, Goto
  <2>2. (env \in [Keys -> Settings] /\ Typed(env) /\ file \in File)'
    BY WrittenEnv DEF IInv, TypeOK, WriteEnv
  <2>3. (found \in [env : [Keys -> Settings], file : File,
                  allow : {"absent", "torn", "deny", "list"}])'
    BY DEF IInv, TypeOK, WriteEnv, Outside
  <2> QED
    BY <2>2 DEF IInv, TypeOK, WriteEnv, AfterEnv, Goto, Outside
<1>2. Answered'
  BY DEF IInv, Answered, WriteEnv, Goto, Outside
<1>3. Touched'
  <2>1. /\ file' = file /\ found' = found /\ run' = run /\ Named(env') = run.route
      /\ env'["surface"] = Blank
    BY WrittenEnv DEF IInv, WriteEnv, Outside, Goto
  <2>2. file.there /\ ~found.file.there
    BY DEF IInv, Touched, WriteEnv
  <2>3. (run.route # NoRoute <=> run.mode = "integrated") /\ pc' = AfterEnv
    BY DEF IInv, Answered, WriteEnv, Goto
  <2>4. ~run.existed
    BY DEF IInv, Answered, WriteEnv
  <2>5. /\ found.env = NoEnv /\ found.env["surface"] = Blank
        /\ Named(found.env) = NoRoute
    BY <2>2, EmptyTyped, KeyFacts DEF IInv, Touched, WriteEnv, NoEnv
  <2> QED BY <2>1, <2>2, <2>3, <2>4, <2>5 DEF Touched, AfterEnv, Late, Refusable
<1>4. Reported'
  BY WrittenEnv DEF IInv, Reported, WriteEnv, AfterEnv, Goto
<1>5. RouteIsOnePair'
  BY WrittenEnv, RouteFacts DEF IInv, RouteIsOnePair, Answered, WriteEnv,
     Outside
<1>6. RefusedLeavesAlone'
  BY DEF IInv, RefusedLeavesAlone, Refusable, Touched, WriteEnv, Outside
<1>7. NeverAWish'
  BY DEF IInv, NeverAWish, Finished, Answered, WriteEnv, Goto
<1>8. StartedRings'
  BY DEF IInv, StartedRings, Answered, WriteEnv, Goto
<1> QED BY <1>1, <1>2, <1>3, <1>4, <1>5, <1>6, <1>7, <1>8 DEF IInv

(* A route is taken whole.                                                 *)
LEMMA RouteTakenKeeps ==
  ASSUME IInv, RouteTaken
  PROVE  IInv'
<1>1. TypeOK'
  <2>1. (run \in Run)'
    BY DEF IInv, TypeOK, RouteTaken, Goto
  <2>2. (env \in [Keys -> Settings] /\ Typed(env) /\ file \in File)'
    BY RoutedEnv, AddedFile DEF IInv, TypeOK, RouteTaken
  <2>3. (found \in [env : [Keys -> Settings], file : File,
                  allow : {"absent", "torn", "deny", "list"}])'
    BY DEF IInv, TypeOK, RouteTaken, Outside
  <2> QED
    BY <2>2 DEF IInv, TypeOK, RouteTaken, Goto, Outside
<1>2. Answered'
  BY DEF IInv, Answered, RouteTaken, Goto, Outside
<1>3. Touched'
  <2>1. /\ file'.there = file.there /\ found' = found /\ run' = run
        /\ pc' = "allow" /\ env'["surface"] = env["surface"]
    BY RoutedEnv, AddedFile DEF IInv, TypeOK, RouteTaken, Goto, Outside
  <2>2. run.mode = "integrated"
    BY DEF IInv, Answered, Touched, RouteTaken
  <2> QED BY <2>1, <2>2 DEF IInv, Touched, AsFound, Refusable, Late, RouteTaken
<1>4. Reported'
  BY RoutedEnv DEF IInv, Reported, RouteTaken, Goto
<1>5. RouteIsOnePair'
  BY RoutedEnv, RouteFacts DEF IInv, RouteIsOnePair, Answered, RouteTaken,
     Outside
<1>6. RefusedLeavesAlone'
  BY DEF IInv, RefusedLeavesAlone, Refusable, AsFound, Touched, RouteTaken,
     Goto, Outside
<1>7. NeverAWish'
  BY DEF NeverAWish, Finished, RouteTaken, Goto
<1>8. StartedRings'
  BY DEF StartedRings, RouteTaken, Goto
<1> QED BY <1>1, <1>2, <1>3, <1>4, <1>5, <1>6, <1>7, <1>8 DEF IInv

(* A run that is refused has touched nothing.                              *)
LEMMA RouteRefusedKeeps ==
  ASSUME IInv, RouteRefused
  PROVE  IInv'
<1>1. TypeOK'
  BY DEF IInv, TypeOK, Run, RouteRefused, Stopped, Goto, Outside, config
<1>2. Answered'
  BY DEF Answered, RouteRefused, Stopped, Goto
<1>3. Touched'
  BY DEF IInv, Touched, Late, RouteRefused, Stopped, Goto, config
<1>4. Reported'
  BY DEF Reported, TypeOK, Run, RouteRefused, Stopped, Goto
<1>5. RouteIsOnePair'
  BY DEF IInv, RouteIsOnePair, RouteRefused, Outside, config
<1>6. RefusedLeavesAlone'
  BY DEF IInv, RefusedLeavesAlone, Refusable, AsFound, RouteRefused, Stopped,
     Goto, Outside, config
<1>7. NeverAWish'
  <2>1. env' = env /\ found' = found /\ env = found.env
    BY DEF IInv, Touched, AsFound, RouteRefused, config, Outside
  <2>2. run'.mode = "refused" /\ run'.ring = "not configured"
    BY DEF IInv, Answered, TypeOK, Run, RouteRefused, Stopped, Goto
  <2> QED BY <2>1, <2>2 DEF NeverAWish
<1>8. StartedRings'
  BY DEF StartedRings, RouteRefused, Stopped, Goto
<1> QED BY <1>1, <1>2, <1>3, <1>4, <1>5, <1>6, <1>7, <1>8 DEF IInv

(* A kept allowlist is reported as it is.                                  *)
LEMMA KeepAllowKeeps ==
  ASSUME IInv, KeepAllow
  PROVE  IInv'
<1>1. TypeOK'
  BY DEF IInv, TypeOK, Run, KeepAllow, Delivers, Goto, Outside, config
<1>2. Answered'
  BY DEF IInv, Answered, TypeOK, Run, KeepAllow, Goto, Outside
<1>3. Touched'
  BY DEF IInv, Touched, Refusable, Late, TypeOK, Run, KeepAllow, Goto,
     Outside, config
<1>4. Reported'
  BY DEF IInv, Reported, Late, TypeOK, Run, KeepAllow, Delivers, Goto, config
<1>5. RouteIsOnePair'
  BY DEF IInv, RouteIsOnePair, KeepAllow, Outside, config
<1>6. RefusedLeavesAlone'
  BY DEF IInv, RefusedLeavesAlone, Refusable, Touched, Late, KeepAllow, Goto,
     Outside
<1>7. NeverAWish'
  BY DEF NeverAWish, Finished, KeepAllow, Goto
<1>8. StartedRings'
  BY DEF StartedRings, KeepAllow, Goto
<1> QED BY <1>1, <1>2, <1>3, <1>4, <1>5, <1>6, <1>7, <1>8 DEF IInv

(* An allowlist that is opened lets nothing through.                       *)
LEMMA OpenAllowKeeps ==
  ASSUME IInv, OpenAllow
  PROVE  IInv'
<1>1. TypeOK'
  BY DEF IInv, TypeOK, OpenAllow, Goto, Outside, config
<1>2. Answered'
  BY DEF IInv, Answered, OpenAllow, Goto, Outside
<1>3. Touched'
  BY DEF IInv, Touched, Refusable, Late, OpenAllow, Goto, Outside, config
<1>4. Reported'
  BY DEF IInv, Reported, Late, OpenAllow, Goto, config
<1>5. RouteIsOnePair'
  BY DEF IInv, RouteIsOnePair, OpenAllow, Outside, config
<1>6. RefusedLeavesAlone'
  BY DEF IInv, RefusedLeavesAlone, Refusable, Touched, Late, OpenAllow, Goto,
     Outside
<1>7. NeverAWish'
  BY DEF NeverAWish, Finished, OpenAllow, Goto
<1>8. StartedRings'
  BY DEF StartedRings, OpenAllow, Goto
<1> QED BY <1>1, <1>2, <1>3, <1>4, <1>5, <1>6, <1>7, <1>8 DEF IInv

(* A new allowlist is reported as it is written.                           *)
LEMMA WriteAllowKeeps ==
  ASSUME IInv, WriteAllow
  PROVE  IInv'
<1>1. TypeOK'
  BY ZenonT(60) DEF IInv, TypeOK, Run, WriteAllow, Delivers, Goto, Outside, config
<1>2. Answered'
  BY DEF IInv, Answered, TypeOK, Run, WriteAllow, Goto, Outside
<1>3. Touched'
  BY DEF IInv, Touched, Refusable, Late, TypeOK, Run, WriteAllow, Goto,
     Outside, config
<1>4. Reported'
  BY DEF IInv, Reported, Late, TypeOK, Run, WriteAllow, Delivers, Goto, config
<1>5. RouteIsOnePair'
  BY DEF IInv, RouteIsOnePair, WriteAllow, Outside, config
<1>6. RefusedLeavesAlone'
  BY DEF IInv, RefusedLeavesAlone, Refusable, Touched, Late, WriteAllow, Goto,
     Outside
<1>7. NeverAWish'
  BY DEF NeverAWish, Finished, WriteAllow, Goto
<1>8. StartedRings'
  BY DEF StartedRings, WriteAllow, Goto
<1> QED BY <1>1, <1>2, <1>3, <1>4, <1>5, <1>6, <1>7, <1>8 DEF IInv

(* The letterbox rings by itself where there is one.                       *)
LEMMA UseHelperKeeps ==
  ASSUME IInv, UseHelper
  PROVE  IInv'
<1>1. TypeOK'
  BY DEF IInv, TypeOK, Run, UseHelper, Goto, Outside, config
<1>2. Answered'
  BY DEF IInv, Answered, TypeOK, Run, UseHelper, Goto, Outside
<1>3. Touched'
  BY DEF IInv, Touched, Refusable, Late, TypeOK, Run, UseHelper, Goto,
     Outside, config
<1>4. Reported'
  BY DEF IInv, Reported, Late, TypeOK, Run, UseHelper, Goto, config
<1>5. RouteIsOnePair'
  BY DEF IInv, RouteIsOnePair, UseHelper, Outside, config
<1>6. RefusedLeavesAlone'
  BY DEF IInv, RefusedLeavesAlone, Refusable, Touched, Late, UseHelper, Goto,
     Outside
<1>7. NeverAWish'
  BY DEF NeverAWish, Finished, UseHelper, Goto
<1>8. StartedRings'
  BY DEF StartedRings, UseHelper, Goto
<1> QED BY <1>1, <1>2, <1>3, <1>4, <1>5, <1>6, <1>7, <1>8 DEF IInv

(* A run without a pane promises no ring.                                  *)
LEMMA NoPaneKeeps ==
  ASSUME IInv, NoPane
  PROVE  IInv'
<1>1. TypeOK'
  BY DEF IInv, TypeOK, NoPane, Goto, Outside, config
<1>2. Answered'
  BY DEF IInv, Answered, NoPane, Goto
<1>3. Touched'
  BY DEF IInv, Touched, Refusable, Late, NoPane, Goto, Outside, config
<1>4. Reported'
  BY DEF IInv, Reported, Answered, NoPane, Goto
<1>5. RouteIsOnePair'
  BY DEF IInv, RouteIsOnePair, NoPane, Outside, config
<1>6. RefusedLeavesAlone'
  BY DEF IInv, RefusedLeavesAlone, Refusable, Touched, Late, NoPane, Goto,
     Outside
<1>7. NeverAWish'
  BY DEF NeverAWish, Finished, NoPane, Goto
<1>8. StartedRings'
  BY DEF StartedRings, NoPane, Goto
<1> QED BY <1>1, <1>2, <1>3, <1>4, <1>5, <1>6, <1>7, <1>8 DEF IInv

(* A pane is reported only when the config names it.                       *)
LEMMA NamePaneKeeps ==
  ASSUME IInv, NEW p \in Panes, NamePane(p)
  PROVE  IInv'
<1>1. TypeOK'
  <2>1. (run \in Run)'
    BY DEF IInv, TypeOK, NamePane, Goto, Run
  <2>2. (env \in [Keys -> Settings] /\ Typed(env) /\ file \in File)'
    BY PanedEnv, AddedFile DEF IInv, TypeOK, NamePane
  <2>3. (found \in [env : [Keys -> Settings], file : File,
                  allow : {"absent", "torn", "deny", "list"}])'
    BY DEF IInv, TypeOK, NamePane, Outside
  <2> QED
    BY <2>1, <2>2 DEF IInv, TypeOK, NamePane, Goto, Outside
<1>2. Answered'
  BY DEF IInv, Answered, TypeOK, Run, NamePane, Goto
<1>3. Touched'
  <2>1. /\ file'.there = file.there /\ Named(env') = Named(env) /\ pc' = "resident"
        /\ found' = found /\ run'.mode = run.mode /\ run'.route = run.route
        /\ file.there
    BY PanedEnv, AddedFile
    DEF IInv, Touched, TypeOK, Run, NamePane, Late, Goto, Outside
  <2> QED BY <2>1 DEF IInv, Touched, Refusable, Late, NamePane
<1>4. Reported'
  <2>1. /\ run'.mode = run.mode /\ run'.route = run.route /\ run'.pane = p
        /\ run'.delivers = run.delivers /\ allow' = allow /\ found' = found
        /\ pc' = "resident" /\ run'.ring # "helper"
        /\ run'.ring = "configured" => Loads(env', file') /\ Agrees(env', p)
    BY DEF IInv, TypeOK, Run, NamePane, Goto, Outside
  <2>2. env'["surface"] \in {p, found.env["surface"]}
    BY PanedEnv DEF IInv, Touched, NamePane
  <2> QED BY <2>1, <2>2 DEF IInv, Reported, NamePane, Agrees, Late
<1>5. RouteIsOnePair'
  BY PanedEnv DEF IInv, RouteIsOnePair, NamePane, Outside
<1>6. RefusedLeavesAlone'
  BY DEF IInv, RefusedLeavesAlone, Refusable, Touched, Late, NamePane, Goto,
     Outside
<1>7. NeverAWish'
  BY DEF NeverAWish, Finished, NamePane, Goto
<1>8. StartedRings'
  BY DEF StartedRings, NamePane, Goto
<1> QED BY <1>1, <1>2, <1>3, <1>4, <1>5, <1>6, <1>7, <1>8 DEF IInv

(* A run that starts no bridge ends with its report.                       *)
LEMMA UnofferedKeeps ==
  ASSUME IInv, Unoffered
  PROVE  IInv'
<1>1. TypeOK'
  <2>1. (run \in Run)'
    BY ZenonT(60), SetupAssumption DEF IInv, TypeOK, Unoffered, Goto, Outside, config, Run
  <2>2. (env \in [Keys -> Settings] /\ Typed(env) /\ file \in File)'
    BY DEF IInv, TypeOK, Unoffered, config
  <2>3. (found \in [env : [Keys -> Settings], file : File,
                  allow : {"absent", "torn", "deny", "list"}])'
    BY DEF IInv, TypeOK, Unoffered, Outside
  <2> QED
    BY <2>1, <2>2 DEF IInv, TypeOK, Unoffered, Goto, Outside
<1>2. Answered'
  BY DEF Answered, Unoffered, Goto
<1>3. Touched'
  BY DEF IInv, Touched, Late, Unoffered, Goto, config
<1>4. Reported'
  BY DEF IInv, Reported, Late, TypeOK, Run, Unoffered, Goto
<1>5. RouteIsOnePair'
  BY DEF IInv, RouteIsOnePair, Unoffered, Outside, config
<1>6. RefusedLeavesAlone'
  BY DEF IInv, RefusedLeavesAlone, Refusable, Touched, Late, TypeOK, Run,
     Unoffered, Goto, Outside
<1>7. NeverAWish'
  <2>1. /\ env' = env /\ file' = file /\ allow' = allow /\ found' = found
        /\ run'.mode = run.mode /\ run'.route = run.route /\ run'.ring = run.ring
        /\ run'.pane = run.pane /\ run'.delivers = run.delivers /\ pc = "resident"
    BY DEF IInv, TypeOK, Run, Unoffered, Goto, Outside, config
  <2>2. run.mode = "integrated" => IsRoute(run.route) /\ Named(env) = run.route
    BY <2>1, RouteFacts DEF IInv, TypeOK, Run, Answered, Reported, Late, IsRoute
  <2>3. run.mode # "integrated" => Named(env) = Named(found.env)
    BY <2>1 DEF IInv, Answered, Touched
  <2> QED BY <2>1, <2>2, <2>3 DEF IInv, NeverAWish, Reported
<1>8. StartedRings'
  BY DEF StartedRings, Unoffered, Goto
<1> QED BY <1>1, <1>2, <1>3, <1>4, <1>5, <1>6, <1>7, <1>8 DEF IInv

(* A bridge that is started has a ring.                                    *)
LEMMA StartResidentKeeps ==
  ASSUME IInv, StartResident
  PROVE  IInv'
<1>1. TypeOK'
  BY DEF IInv, TypeOK, Run, StartResident, Up, Goto, Outside, config, Rung
<1>2. Answered'
  BY DEF Answered, StartResident, Goto
<1>3. Touched'
  BY DEF IInv, Touched, Late, StartResident, Goto, config
<1>4. Reported'
  BY RingFacts DEF Reported, Late, StartResident, Goto, config
<1>5. RouteIsOnePair'
  BY DEF IInv, RouteIsOnePair, StartResident, Outside, config
<1>6. RefusedLeavesAlone'
  BY DEF IInv, RefusedLeavesAlone, Refusable, Touched, Late, StartResident,
     Goto, Outside
<1>7. NeverAWish'
  <2>1. /\ env' = env /\ file' = file /\ allow' = allow /\ found' = found
        /\ run'.mode = run.mode /\ run'.route = run.route /\ run'.ring = run.ring
        /\ run'.pane = run.pane /\ run'.delivers = run.delivers /\ pc = "resident"
    BY DEF IInv, TypeOK, Run, StartResident, Goto, Outside, config
  <2>2. run.mode = "integrated" => IsRoute(run.route) /\ Named(env) = run.route
    BY <2>1, RouteFacts DEF IInv, TypeOK, Run, Answered, Reported, Late, IsRoute
  <2>3. run.mode # "integrated" => Named(env) = Named(found.env)
    BY <2>1 DEF IInv, Answered, Touched
  <2> QED BY <2>1, <2>2, <2>3 DEF IInv, NeverAWish, Reported
<1>8. StartedRings'
  BY RingFacts DEF StartedRings, StartResident, Up, Rung
<1> QED BY <1>1, <1>2, <1>3, <1>4, <1>5, <1>6, <1>7, <1>8 DEF IInv

(* A run that is cut short reports nothing.                                *)
LEMMA InterruptKeeps ==
  ASSUME IInv, Interrupt
  PROVE  IInv'
<1>1. TypeOK'
  BY DEF IInv, TypeOK, Interrupt, Goto, Outside, config
<1>2. Answered'
  BY DEF Answered, Interrupt, Goto
<1>3. Touched'
  BY DEF IInv, Touched, Late, Interrupt, Goto, config
<1>4. Reported'
  BY DEF IInv, Reported, Late, Answered, Interrupt, Goto
<1>5. RouteIsOnePair'
  BY DEF IInv, RouteIsOnePair, Interrupt, Outside, config
<1>6. RefusedLeavesAlone'
  BY DEF IInv, RefusedLeavesAlone, Refusable, AsFound, Interrupt, Goto,
     Outside, config
<1>7. NeverAWish'
  BY DEF IInv, NeverAWish, Finished, Answered, Interrupt, Goto
<1>8. StartedRings'
  BY DEF IInv, StartedRings, Answered, Interrupt, Goto
<1> QED BY <1>1, <1>2, <1>3, <1>4, <1>5, <1>6, <1>7, <1>8 DEF IInv

(* A setting the operator edits is of no run, and a route it completes is  *)
(* one he named.                                                           *)
LEMMA EditSettingKeeps ==
  ASSUME IInv, NEW k \in Keys, NEW v \in Values(k) \cup {Blank}, NEW tail \in {Blank, k},
         EditSetting(k, v, tail)
  PROVE  IInv'
<1>1. TypeOK'
  <2>1. (run \in Run)'
    BY NoRunTyped DEF EditSetting, Edit
  <2>2. (env \in [Keys -> Settings] /\ Typed(env) /\ file \in File)'
    BY KeyFacts DEF IInv, TypeOK, EditSetting, Edit, NoFile, File, Settings,
       Typed, RouteKeys, Values
  <2>3. (found \in [env : [Keys -> Settings], file : File,
                  allow : {"absent", "torn", "deny", "list"}])'
    BY EmptyTyped DEF EditSetting, Edit
  <2> QED
    <3>1. (chosen \subseteq Routes)'
      BY TypedRoute, <2>2 DEF IInv, TypeOK, EditSetting
    <3> QED BY <3>1, <2>1, <2>2, <2>3 DEF IInv, TypeOK, EditSetting, Edit
<1>2. Answered'
  BY DEF Answered, EditSetting, Edit
<1>3. Touched'
  BY DEF Touched, Late, EditSetting, Edit, File
<1>4. Reported'
  BY DEF Reported, EditSetting, Edit, NoRun
<1>5. RouteIsOnePair'
  BY DEF RouteIsOnePair, EditSetting
<1>6. RefusedLeavesAlone'
  BY DEF RefusedLeavesAlone, Refusable, EditSetting, Edit, NoFound, NoFile
<1>7. NeverAWish'
  BY DEF NeverAWish, Finished, EditSetting, Edit, NoRun
<1>8. StartedRings'
  BY DEF StartedRings, EditSetting, Edit, NoRun
<1> QED BY <1>1, <1>2, <1>3, <1>4, <1>5, <1>6, <1>7, <1>8 DEF IInv

(* Keys and modes the operator edits are of no run.                        *)
LEMMA EditFileKeeps ==
  ASSUME IInv, EditFile
  PROVE  IInv'
<1>1. TypeOK'
  <2>1. (run \in Run)'
    BY NoRunTyped DEF EditFile, Edit
  <2>2. (env \in [Keys -> Settings] /\ Typed(env) /\ file \in File)'
    BY DEF IInv, TypeOK, EditFile, File
  <2>3. (found \in [env : [Keys -> Settings], file : File,
                  allow : {"absent", "torn", "deny", "list"}])'
    BY EmptyTyped DEF EditFile, Edit
  <2> QED
    BY NoRunTyped, <2>2, <2>3 DEF IInv, TypeOK, EditFile, Edit
<1>2. Answered'
  BY DEF Answered, EditFile, Edit
<1>3. Touched'
  BY DEF Touched, Late, EditFile, Edit, File
<1>4. Reported'
  BY DEF Reported, EditFile, Edit, NoRun
<1>5. RouteIsOnePair'
  BY DEF IInv, RouteIsOnePair, EditFile
<1>6. RefusedLeavesAlone'
  BY DEF RefusedLeavesAlone, Refusable, EditFile, Edit, NoFound, NoFile
<1>7. NeverAWish'
  BY DEF NeverAWish, Finished, EditFile, Edit, NoRun
<1>8. StartedRings'
  BY DEF StartedRings, EditFile, Edit, NoRun
<1> QED BY <1>1, <1>2, <1>3, <1>4, <1>5, <1>6, <1>7, <1>8 DEF IInv

(* An allowlist the operator edits is of no run.                           *)
LEMMA EditAllowKeeps ==
  ASSUME IInv, NEW a \in {"deny", "list"}, EditAllow(a)
  PROVE  IInv'
<1>1. TypeOK'
  <2>1. (run \in Run)'
    BY NoRunTyped DEF EditAllow, Edit
  <2>2. (env \in [Keys -> Settings] /\ Typed(env) /\ file \in File)'
    BY DEF IInv, TypeOK, EditAllow, config
  <2>3. (found \in [env : [Keys -> Settings], file : File,
                  allow : {"absent", "torn", "deny", "list"}])'
    BY EmptyTyped DEF EditAllow, Edit
  <2> QED
    BY NoRunTyped, <2>2, <2>3 DEF IInv, TypeOK, EditAllow, Edit
<1>2. Answered'
  BY DEF Answered, EditAllow, Edit
<1>3. Touched'
  BY DEF IInv, Touched, Late, EditAllow, Edit, config
<1>4. Reported'
  BY DEF Reported, EditAllow, Edit, NoRun
<1>5. RouteIsOnePair'
  BY DEF IInv, RouteIsOnePair, EditAllow, config
<1>6. RefusedLeavesAlone'
  BY DEF RefusedLeavesAlone, Refusable, EditAllow, Edit, NoFound, NoFile
<1>7. NeverAWish'
  BY DEF NeverAWish, Finished, EditAllow, Edit, NoRun
<1>8. StartedRings'
  BY DEF StartedRings, EditAllow, Edit, NoRun
<1> QED BY <1>1, <1>2, <1>3, <1>4, <1>5, <1>6, <1>7, <1>8 DEF IInv

(* A token file the operator supplies is of no run.                        *)
LEMMA SupplyTokenKeeps ==
  ASSUME IInv, NEW s \in SecretKeys, NEW kind \in {"right", "wrong", "unfit"}, SupplyToken(s, kind)
  PROVE  IInv'
<1>1. TypeOK'
  <2>1. (run \in Run)'
    BY NoRunTyped DEF SupplyToken, Edit
  <2>2. (env \in [Keys -> Settings] /\ Typed(env) /\ file \in File)'
    BY DEF IInv, TypeOK, SupplyToken, config
  <2>3. (found \in [env : [Keys -> Settings], file : File,
                  allow : {"absent", "torn", "deny", "list"}])'
    BY EmptyTyped DEF SupplyToken, Edit
  <2> QED
    BY NoRunTyped, <2>2, <2>3 DEF IInv, TypeOK, SupplyToken, Edit
<1>2. Answered'
  BY DEF Answered, SupplyToken, Edit
<1>3. Touched'
  BY DEF IInv, Touched, Late, SupplyToken, Edit, config
<1>4. Reported'
  BY DEF Reported, SupplyToken, Edit, NoRun
<1>5. RouteIsOnePair'
  BY DEF IInv, RouteIsOnePair, SupplyToken, config
<1>6. RefusedLeavesAlone'
  BY DEF RefusedLeavesAlone, Refusable, SupplyToken, Edit, NoFound, NoFile
<1>7. NeverAWish'
  BY DEF NeverAWish, Finished, SupplyToken, Edit, NoRun
<1>8. StartedRings'
  BY DEF StartedRings, SupplyToken, Edit, NoRun
<1> QED BY <1>1, <1>2, <1>3, <1>4, <1>5, <1>6, <1>7, <1>8 DEF IInv

(* A bridge started by hand changes no file.                               *)
LEMMA StartByHandKeeps ==
  ASSUME IInv, StartByHand
  PROVE  IInv'
<1>1. TypeOK'
  BY DEF IInv, TypeOK, StartByHand, Outside, config, Rung
<1>2. Answered'
  BY DEF IInv, Answered, StartByHand, Outside
<1>3. Touched'
  BY DEF IInv, Touched, AsFound, Refusable, StartByHand, Outside, config
<1>4. Reported'
  BY DEF IInv, Reported, StartByHand, Outside, config
<1>5. RouteIsOnePair'
  BY DEF IInv, RouteIsOnePair, StartByHand, Outside, config
<1>6. RefusedLeavesAlone'
  BY DEF IInv, RefusedLeavesAlone, Refusable, AsFound, StartByHand, Outside,
     config
<1>7. NeverAWish'
  BY DEF IInv, NeverAWish, Finished, StartByHand, Outside, config
<1>8. StartedRings'
  BY DEF IInv, StartedRings, Reported, StartByHand, Rung
<1> QED BY <1>1, <1>2, <1>3, <1>4, <1>5, <1>6, <1>7, <1>8 DEF IInv

(* A bridge that ends changes no file.                                     *)
LEMMA BridgeEndsKeeps ==
  ASSUME IInv, BridgeEnds
  PROVE  IInv'
<1>1. TypeOK'
  BY DEF IInv, TypeOK, BridgeEnds, Outside, config
<1>2. Answered'
  BY DEF IInv, Answered, BridgeEnds, Outside
<1>3. Touched'
  BY DEF IInv, Touched, AsFound, Refusable, BridgeEnds, Outside, config
<1>4. Reported'
  BY DEF IInv, Reported, BridgeEnds, Outside, config
<1>5. RouteIsOnePair'
  BY DEF IInv, RouteIsOnePair, BridgeEnds, Outside, config
<1>6. RefusedLeavesAlone'
  BY DEF IInv, RefusedLeavesAlone, Refusable, AsFound, BridgeEnds, Outside,
     config
<1>7. NeverAWish'
  BY DEF IInv, NeverAWish, Finished, BridgeEnds, Outside, config
<1>8. StartedRings'
  BY DEF StartedRings, BridgeEnds
<1> QED BY <1>1, <1>2, <1>3, <1>4, <1>5, <1>6, <1>7, <1>8 DEF IInv

(* A step that changes nothing keeps everything.                           *)
LEMMA StutterKeeps ==
  ASSUME IInv, UNCHANGED vars
  PROVE  IInv'
<1>1. TypeOK'
  BY DEF IInv, TypeOK, vars
<1>2. Answered'
  BY DEF IInv, Answered, vars
<1>3. Touched'
  BY DEF IInv, Touched, AsFound, Refusable, vars
<1>4. Reported'
  BY DEF IInv, Reported, vars
<1>5. RouteIsOnePair'
  BY DEF IInv, RouteIsOnePair, vars
<1>6. RefusedLeavesAlone'
  BY DEF IInv, RefusedLeavesAlone, Refusable, AsFound, vars
<1>7. NeverAWish'
  BY DEF IInv, NeverAWish, Finished, vars
<1>8. StartedRings'
  BY DEF IInv, StartedRings, vars
<1> QED BY <1>1, <1>2, <1>3, <1>4, <1>5, <1>6, <1>7, <1>8 DEF IInv

(* Before the first run there is nothing.                                  *)
LEMMA InitKeeps == Init => IInv
<1> SUFFICES ASSUME Init PROVE IInv
  OBVIOUS
<1>1. TypeOK
  BY EmptyTyped, NoRunTyped DEF Init, TypeOK
<1>2. Answered /\ Touched
  BY EmptyTyped, KeyFacts, SetupAssumption
  DEF Init, Answered, Touched, Late, NoFound, NoRun, NoFile, Refusable
<1>3. Reported /\ RouteIsOnePair
  BY EmptyTyped, RouteFacts DEF Init, Reported, RouteIsOnePair, Late, NoRun
<1>4. RefusedLeavesAlone
  BY RouteFacts DEF Init, RefusedLeavesAlone, Refusable, NoRun, NoFound, NoFile
<1>5. NeverAWish /\ StartedRings
  BY DEF Init, NeverAWish, Finished, StartedRings, NoRun
<1> QED BY <1>1, <1>2, <1>3, <1>4, <1>5 DEF IInv

(* Every step keeps the invariant.                                         *)
LEMMA NextKeeps == IInv /\ [Next]_vars => IInv'
<1> SUFFICES ASSUME IInv, [Next]_vars PROVE IInv'
  OBVIOUS
<1>1. CASE Wizard
  BY <1>1, BeginKeeps, TypeTokenKeeps, ReadTokenFileKeeps, KeepEnvKeeps, OpenEnvKeeps,
     WriteEnvKeeps, RouteTakenKeeps, RouteRefusedKeeps, KeepAllowKeeps, OpenAllowKeeps,
     WriteAllowKeeps, UseHelperKeeps, NoPaneKeeps, NamePaneKeeps, UnofferedKeeps,
     StartResidentKeeps, InterruptKeeps
  DEF Wizard
<1>2. CASE Operator
  BY <1>2, EditSettingKeeps, EditFileKeeps, EditAllowKeeps, SupplyTokenKeeps,
     StartByHandKeeps
  DEF Operator
<1>3. CASE BridgeEnds
  BY <1>3, BridgeEndsKeeps
<1>4. CASE UNCHANGED vars
  BY <1>4, StutterKeeps
<1> QED BY <1>1, <1>2, <1>3, <1>4 DEF Next

(* The invariant holds of every run, edit, kill and start by hand.         *)
THEOREM SetupInvariant == Spec => []IInv
BY InitKeeps, NextKeeps, PTL DEF Spec

(* Whatever halves a kept config held, it names no pair the operator did   *)
(* not name as a pair.                                                     *)
THEOREM RouteIsOnePairHolds == Spec => []RouteIsOnePair
<1>1. IInv => RouteIsOnePair
  BY DEF IInv
<1> QED BY <1>1, SetupInvariant, PTL

(* A run whose route the config cannot take has left everything alone and  *)
(* started nothing.                                                        *)
THEOREM RefusedLeavesAloneHolds == Spec => []RefusedLeavesAlone
<1>1. IInv => RefusedLeavesAlone
  BY DEF IInv
<1> QED BY <1>1, SetupInvariant, PTL

(* What a finished run says it has set up - a route, a ring, an open gate  *)
(* - is in the files.                                                      *)
THEOREM NeverAWishHolds == Spec => []NeverAWish
<1>1. IInv => NeverAWish
  BY DEF IInv
<1> QED BY <1>1, SetupInvariant, PTL

(* A bridge that setup started was given a config with a ring.             *)
THEOREM StartedRingsHolds == Spec => []StartedRings
<1>1. IInv => StartedRings
  BY DEF IInv
<1> QED BY <1>1, SetupInvariant, PTL

(* The variables keep their types.                                         *)
THEOREM SetupTypes == Spec => []TypeOK
<1>1. IInv => TypeOK
  BY DEF IInv
<1> QED BY <1>1, SetupInvariant, PTL

(* Settings added to a config leave those it had.                          *)
LEMMA AddedKeeps ==
  ASSUME NEW lines, AddLines(lines), NEW k \in Keys, env[k] # Blank, lines[k] = Blank
  PROVE  env'[k] = env[k]
BY DEF AddLines

(* No step of a run takes back a setting, a file or an allowlist.          *)
LEMMA StepKeeps ==
  ASSUME IInv, Next, pc # "off"
  PROVE  /\ \A k \in Keys : env[k] # Blank => env'[k] = env[k]
         /\ file.there => file'.there /\ file'.sound = file.sound
         /\ allow \in {"deny", "list"} => allow' = allow
<1>1. CASE UNCHANGED <<config, allow>>
  BY <1>1 DEF config
<1>2. CASE OpenEnv
  BY <1>2, KeyFacts DEF OpenEnv, IInv, Touched, NoEnv
<1>3. CASE WriteEnv
  BY <1>3, KeyFacts DEF WriteEnv, IInv, Touched, NoEnv
<1>4. CASE RouteTaken
  <2>1. \A k \in Keys : env[k] # Blank => RouteLines[k] = Blank
    BY DEF RouteLines
  <2>2. file' \in File /\ file'.there = file.there /\ file'.sound = file.sound
    BY <1>4, AddedFile DEF RouteTaken, IInv, TypeOK
  <2> QED BY <1>4, <2>1, <2>2, AddedKeeps DEF RouteTaken
<1>5. ASSUME NEW p \in Panes, NamePane(p)
      PROVE  /\ \A k \in Keys : env[k] # Blank => env'[k] = env[k]
             /\ file.there => file'.there /\ file'.sound = file.sound
             /\ allow' = allow
  <2>1. \A k \in Keys : env[k] # Blank => RingLines(p)[k] = Blank /\ NoLines[k] = Blank
    BY DEF RingLines, NoLines
  <2>2. PICK lines \in {NoLines, RingLines(p)} : AddLines(lines)
    BY <1>5 DEF NamePane
  <2>3. file' \in File /\ file'.there = file.there /\ file'.sound = file.sound
    BY <2>2, AddedFile DEF IInv, TypeOK
  <2>4. \A k \in Keys : env[k] # Blank => env'[k] = env[k]
    BY <2>1, <2>2, AddedKeeps
  <2>5. allow' = allow
    BY <1>5 DEF NamePane
  <2> QED BY <2>3, <2>4, <2>5
<1>6. CASE OpenAllow \/ WriteAllow
  BY <1>6 DEF OpenAllow, WriteAllow, config, IInv, Touched
<1> QED
  BY <1>1, <1>2, <1>3, <1>4, <1>5, <1>6
  DEF Next, Wizard, Operator, Edit, EditSetting, EditFile, EditAllow, SupplyToken, Begin,
      TypeToken, ReadTokenFile, KeepEnv, RouteRefused, KeepAllow, UseHelper, NoPane,
      Unoffered, StartResident, Interrupt, StartByHand, BridgeEnds, config

(* A run takes nothing back, wherever it stops.                            *)
THEOREM KeptIsKeptHolds == Spec => KeptIsKept
<1>1. IInv /\ [Next]_vars =>
        [pc # "off" =>
           /\ \A k \in Keys : env[k] # Blank => env'[k] = env[k]
           /\ file.there => file'.there /\ file'.sound = file.sound
           /\ allow \in {"deny", "list"} => allow' = allow]_vars
  BY StepKeeps
<1> QED BY <1>1, SetupInvariant, PTL DEF Spec, KeptIsKept
=============================================================================
