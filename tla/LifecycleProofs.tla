-------------------------- MODULE LifecycleProofs --------------------------
(***************************************************************************)
(* Proofs about Lifecycle, for any number of bridges and of stops, of      *)
(* starts and of deaths, and for all lengths of time the assumption admits.*)
(***************************************************************************)
EXTENDS Lifecycle, TLAPS

(* The bridge that has the lock is the only one at work, and it has a      *)
(* generation once it has written it; a probe has the lock for itself.     *)
OneAtWork ==
  /\ \A b \in Bridges :
       /\ ~At(b, "down") => holder = b /\ runs \in Generation
       /\ bpc[b] \notin {"down", "truncate", "write"} => gen[b] \in Generation
  /\ \A s \in Stoppers : spc[s] \in {"probe", "free"} => holder = s

(* A cycle and a wait stay within their time; the heartbeat is no older    *)
(* than the wait that went before and the time since.                      *)
Before == IF health.state = "degraded" THEN MaxWait ELSE 0
Timed ==
  \A b \in Bridges :
    /\ At(b, "cycle") => timer <= MaxCycle /\ age <= Before + timer
    /\ At(b, "sleep") => timer <= wait /\ age <= timer /\ health.state = "degraded"
    /\ At(b, "check") => age <= Before
    /\ bpc[b] \in {"cycle", "check"} =>
         health.state \in {"starting", "running", "degraded"}

(* A request names a run that a --stop has read, in whatever file it is.   *)
Addressed ==
  /\ {request, tmp} \cap Generation \subseteq askedOf
  /\ heeded \subseteq askedOf
  /\ \A s \in Stoppers : spc[s] \in {"open", "write", "rename", "wait", "free", "conclude"}
                          => asked[s] \in askedOf

(* What is recorded or printed of a run that stood down is so.             *)
Heard ==
  /\ health.state = "requested" => health.gen \in heeded
  /\ \A b \in Bridges : At(b, "honour") => gen[b] \in heeded
  /\ \A s \in Stoppers : spc[s] # "idle" => said[s] = ""
  /\ StoppedIsTrue

IInv == TypeOK /\ OneAtWork /\ Timed /\ Addressed /\ Heard

(* What the lengths of time add up to.                                     *)
LEMMA Constants ==
  /\ MaxAge \in Nat /\ MaxCycle \in Nat /\ MaxWait \in Nat /\ MaxRuns \in Nat
  /\ MaxDeaths \in Nat /\ MaxWait <= MaxCycle + MaxWait /\ MaxCycle <= MaxCycle + MaxWait
BY LifecycleAssumption DEF MaxAge, MaxCycle

(* The files hold nothing, something half-written or a generation.         *)
LEMMA FileFacts ==
  /\ NoFile \in FileOf /\ Empty \in FileOf /\ Generation \subseteq FileOf
  /\ NoFile \notin Generation /\ Empty \notin Generation
  /\ Generation \subseteq 0..MaxRuns
BY LifecycleAssumption DEF NoFile, Empty, FileOf, Generation

(* Time passes over a cycle or a wait only.                                *)
LEMMA TickKeeps ==
  ASSUME IInv, Tick
  PROVE  IInv'
<1>1. TypeOK'
  <2>1. (age \in 0..MaxAge)'
    BY Constants DEF IInv, TypeOK, Tick, Beat
  <2>2. (timer \in 0..(MaxCycle + MaxWait))'
    <3>1. CASE \E b \in Bridges : bpc[b] \in {"sleep", "cycle"}
      <4>1. PICK b \in Bridges : bpc[b] \in {"sleep", "cycle"}
        BY <3>1
      <4>2. timer + 1 <= MaxCycle + MaxWait
        <5>1. CASE At(b, "sleep")
          BY <5>1, Constants DEF IInv, TypeOK, Tick
        <5>2. CASE At(b, "cycle")
          BY <5>2, Constants DEF IInv, TypeOK, Tick
        <5> QED BY <4>1, <5>1, <5>2 DEF At
      <4>3. timer' = timer + 1
        BY <3>1 DEF Tick
      <4> QED BY <4>2, <4>3, Constants DEF IInv, TypeOK
    <3>2. CASE ~ \E b \in Bridges : bpc[b] \in {"sleep", "cycle"}
      BY <3>2 DEF IInv, TypeOK, Tick
    <3> QED BY <3>1, <3>2
  <2> QED
    BY <2>1, <2>2 DEF IInv, TypeOK, Tick, files, stopper
<1>2. OneAtWork'
  BY LifecycleAssumption DEF IInv, OneAtWork, TypeOK, At, Tick, files,
     stopper, Generation
<1>3. Timed'
  BY LifecycleAssumption DEF IInv, Timed, OneAtWork, TypeOK, Before, MaxCycle,
     At, Tick, files, stopper
<1>4. Addressed'
  BY LifecycleAssumption DEF IInv, Addressed, TypeOK, Tick, files, stopper,
     FileOf, Generation, OneAtWork, At
<1>5. Heard'
  BY LifecycleAssumption DEF IInv, Heard, StoppedIsTrue, TypeOK, At, Tick,
     files, stopper, HealthOf, FileOf
<1> QED BY <1>1, <1>2, <1>3, <1>4, <1>5 DEF IInv

(* A bridge that takes the lock is alone.                                  *)
LEMMA LockKeeps ==
  ASSUME IInv, NEW b \in Bridges, Lock(b)
  PROVE  IInv'
<1>1. TypeOK'
  <2>1. (holder \in Bridges \cup Stoppers \cup {None})'
    BY DEF IInv, TypeOK, Lock
  <2>2. (runs \in 0..MaxRuns)'
    BY Constants DEF IInv, TypeOK, Lock, OneAtWork, At
  <2>3. (bpc \in [Bridges -> {"down", "truncate", "write", "starting", "check",
                              "honour", "cycle", "sleep", "leave"}])'
    BY DEF IInv, TypeOK, Lock, Turn
  <2>4. (record \in FileOf)'
    BY Constants, FileFacts DEF IInv, TypeOK, Lock
  <2> QED
    BY <2>1, <2>2, <2>3, <2>4 DEF IInv, TypeOK, Lock, files, beat, stopper
<1>2. OneAtWork'
  BY LifecycleAssumption DEF IInv, OneAtWork, TypeOK, At, Lock, Turn, files,
     beat, stopper, Generation
<1>3. Timed'
  BY LifecycleAssumption DEF IInv, Timed, OneAtWork, TypeOK, Before, MaxCycle,
     At, Lock, Turn, files, beat, stopper
<1>4. Addressed'
  BY LifecycleAssumption DEF IInv, Addressed, TypeOK, Lock, At, Turn, files,
     beat, stopper, FileOf, Generation, OneAtWork
<1>5. Heard'
  BY LifecycleAssumption DEF IInv, Heard, StoppedIsTrue, TypeOK, At, Lock,
     Turn, files, beat, stopper, HealthOf, FileOf
<1> QED BY <1>1, <1>2, <1>3, <1>4, <1>5 DEF IInv

(* An empty lock file names no run.                                        *)
LEMMA TruncateKeeps ==
  ASSUME IInv, NEW b \in Bridges, Truncate(b)
  PROVE  IInv'
<1>1. TypeOK'
  BY LifecycleAssumption DEF IInv, TypeOK, Truncate, At, Turn, files, beat,
     stopper, FileOf, Generation, HealthOf, Outcome, MaxAge, MaxCycle,
     OneAtWork, Timed, Addressed
<1>2. OneAtWork'
  BY LifecycleAssumption DEF IInv, OneAtWork, TypeOK, At, Truncate, Turn,
     files, beat, stopper, Generation
<1>3. Timed'
  BY LifecycleAssumption DEF IInv, Timed, OneAtWork, TypeOK, Before, MaxCycle,
     At, Truncate, Turn, files, beat, stopper
<1>4. Addressed'
  BY LifecycleAssumption DEF IInv, Addressed, TypeOK, Truncate, At, Turn,
     files, beat, stopper, FileOf, Generation, OneAtWork
<1>5. Heard'
  BY LifecycleAssumption DEF IInv, Heard, StoppedIsTrue, TypeOK, At, Truncate,
     Turn, files, beat, stopper, HealthOf, FileOf
<1> QED BY <1>1, <1>2, <1>3, <1>4, <1>5 DEF IInv

(* A bridge writes its own generation.                                     *)
LEMMA WriteKeeps ==
  ASSUME IInv, NEW b \in Bridges, Write(b)
  PROVE  IInv'
<1>1. TypeOK'
  BY LifecycleAssumption DEF IInv, TypeOK, Write, At, Turn, files, beat,
     stopper, FileOf, Generation, HealthOf, Outcome, MaxAge, MaxCycle,
     OneAtWork, Timed, Addressed
<1>2. OneAtWork'
  BY LifecycleAssumption DEF IInv, OneAtWork, TypeOK, At, Write, Turn, files,
     beat, stopper, Generation
<1>3. Timed'
  BY LifecycleAssumption DEF IInv, Timed, OneAtWork, TypeOK, Before, MaxCycle,
     At, Write, Turn, files, beat, stopper
<1>4. Addressed'
  BY LifecycleAssumption DEF IInv, Addressed, TypeOK, Write, At, Turn, files,
     beat, stopper, FileOf, Generation, OneAtWork
<1>5. Heard'
  BY LifecycleAssumption DEF IInv, Heard, StoppedIsTrue, TypeOK, At, Write,
     Turn, files, beat, stopper, HealthOf, FileOf
<1> QED BY <1>1, <1>2, <1>3, <1>4, <1>5 DEF IInv

(* A first heartbeat is fresh.                                             *)
LEMMA StartingKeeps ==
  ASSUME IInv, NEW b \in Bridges, Starting(b)
  PROVE  IInv'
<1>1. TypeOK'
  <2>1. (bpc \in [Bridges -> {"down", "truncate", "write", "starting", "check",
                              "honour", "cycle", "sleep", "leave"}])'
    BY DEF IInv, TypeOK, Starting, Turn
  <2>2. (health \in HealthOf)'
    BY Constants DEF IInv, TypeOK, Starting, Beat, HealthOf
  <2>3. (age \in 0..MaxAge)'
    BY Constants DEF IInv, TypeOK, Starting, Beat
  <2>4. (fresh \in [Stoppers -> BOOLEAN])'
    BY DEF IInv, TypeOK, Starting, Beat
  <2> QED
    BY <2>1, <2>2, <2>3, <2>4 DEF IInv, TypeOK, Starting, files
<1>2. OneAtWork'
  BY LifecycleAssumption DEF IInv, OneAtWork, TypeOK, At, Starting, Turn,
     Beat, files, Generation
<1>3. Timed'
  BY LifecycleAssumption DEF IInv, Timed, OneAtWork, TypeOK, Before, MaxCycle,
     At, Starting, Turn, Beat, files
<1>4. Addressed'
  BY LifecycleAssumption DEF IInv, Addressed, TypeOK, Starting, At, Turn,
     Beat, files, FileOf, Generation, OneAtWork
<1>5. Heard'
  BY LifecycleAssumption DEF IInv, Heard, StoppedIsTrue, TypeOK, At, Starting,
     Turn, Beat, files, HealthOf, FileOf
<1> QED BY <1>1, <1>2, <1>3, <1>4, <1>5 DEF IInv

(* A request that is found is addressed to the run that finds it.          *)
LEMMA CheckKeeps ==
  ASSUME IInv, NEW b \in Bridges, Check(b)
  PROVE  IInv'
<1>1. TypeOK'
  <2>1. (timer \in 0..(MaxCycle + MaxWait))'
    BY Constants DEF IInv, TypeOK, Check
  <2>2. (request \in FileOf)'
    BY Constants, FileFacts DEF IInv, TypeOK, Check
  <2>3. (fd \in [Stoppers -> {"none", "tmp", "request", "gone"}])'
    BY DEF IInv, TypeOK, Check, Unlinked
  <2>4. (heeded \subseteq Generation)'
    BY ZenonT(60), Constants, FileFacts DEF IInv, TypeOK, Check, OneAtWork, At,
       StopRequested, Generation
  <2>5. (bpc \in [Bridges -> {"down", "truncate", "write", "starting", "check",
                              "honour", "cycle", "sleep", "leave"}])'
    BY DEF IInv, TypeOK, Check, Turn
  <2> QED
    BY <2>1, <2>2, <2>3, <2>4, <2>5 DEF IInv, TypeOK, Check, beat
<1>2. OneAtWork'
  BY LifecycleAssumption DEF IInv, OneAtWork, TypeOK, At, Check, Turn,
     StopRequested, Unlinked, beat, Generation
<1>3. Timed'
  BY LifecycleAssumption DEF IInv, Timed, OneAtWork, TypeOK, Before, MaxCycle,
     At, Check, Turn, StopRequested, Unlinked, beat
<1>4. Addressed'
  <2>1. ({request, tmp} \cap Generation \subseteq askedOf)'
    BY FileFacts DEF IInv, Addressed, Check, files
  <2>2. (heeded \subseteq askedOf)'
    BY FileFacts DEF IInv, Addressed, Check, OneAtWork, StopRequested, At,
       TypeOK
  <2>3. (\A t \in Stoppers : spc[t] \in {"open", "write", "rename", "wait", "free", "conclude"}
                          => asked[t] \in askedOf)'
    BY DEF IInv, TypeOK, Addressed, Check, Go, Say, stopper
  <2> QED
    BY <2>1, <2>2, <2>3 DEF IInv, Addressed, Check, beat
<1>5. Heard'
  BY ZenonT(60), LifecycleAssumption DEF IInv, Heard, StoppedIsTrue, TypeOK, At, Check,
     Turn, StopRequested, Unlinked, beat, HealthOf, FileOf
<1> QED BY <1>1, <1>2, <1>3, <1>4, <1>5 DEF IInv

(* A stand-down is recorded by the run that found its request.             *)
LEMMA HonourKeeps ==
  ASSUME IInv, NEW b \in Bridges, Honour(b)
  PROVE  IInv'
<1>1. TypeOK'
  <2>1. (bpc \in [Bridges -> {"down", "truncate", "write", "starting", "check",
                              "honour", "cycle", "sleep", "leave"}])'
    BY DEF IInv, TypeOK, Honour, Turn
  <2>2. (health \in HealthOf)'
    BY Constants DEF IInv, TypeOK, Honour, Beat, HealthOf
  <2>3. (age \in 0..MaxAge)'
    BY Constants DEF IInv, TypeOK, Honour, Beat
  <2>4. (fresh \in [Stoppers -> BOOLEAN])'
    BY DEF IInv, TypeOK, Honour, Beat
  <2> QED
    BY <2>1, <2>2, <2>3, <2>4 DEF IInv, TypeOK, Honour, files
<1>2. OneAtWork'
  BY LifecycleAssumption DEF IInv, OneAtWork, TypeOK, At, Honour, Turn, Beat,
     files, Generation
<1>3. Timed'
  BY LifecycleAssumption DEF IInv, Timed, OneAtWork, TypeOK, Before, MaxCycle,
     At, Honour, Turn, Beat, files
<1>4. Addressed'
  BY LifecycleAssumption DEF IInv, Addressed, TypeOK, Honour, At, Turn, Beat,
     files, FileOf, Generation, OneAtWork
<1>5. Heard'
  BY LifecycleAssumption DEF IInv, Heard, StoppedIsTrue, TypeOK, At, Honour,
     Turn, Beat, files, HealthOf, FileOf
<1> QED BY <1>1, <1>2, <1>3, <1>4, <1>5 DEF IInv

(* A cycle ends in a heartbeat, or in the end of the bridge.               *)
LEMMA CycleKeeps ==
  ASSUME IInv, NEW b \in Bridges, Cycle(b)
  PROVE  IInv'
<1>1. TypeOK'
  <2>1. \/ UNCHANGED <<beat, fresh>>
       \/ \E state \in {"running", "degraded", "conflict"} : Beat(state, 0)
    BY DEF Cycle
  <2>2. (timer \in 0..(MaxCycle + MaxWait))'
    BY Constants DEF IInv, TypeOK, Cycle
  <2>3. (wait \in 0..MaxWait)'
    BY Constants DEF IInv, TypeOK, Cycle
  <2>4. (bpc \in [Bridges -> {"down", "truncate", "write", "starting", "check",
                              "honour", "cycle", "sleep", "leave"}])'
    BY DEF IInv, TypeOK, Cycle, Turn
  <2>5. (health \in HealthOf)'
    BY <2>1, Constants DEF IInv, TypeOK, HealthOf, Beat, beat
  <2>6. (age \in 0..MaxAge)'
    BY <2>1, Constants DEF IInv, TypeOK, HealthOf, Beat, beat
  <2>7. (fresh \in [Stoppers -> BOOLEAN])'
    BY <2>1, Constants DEF IInv, TypeOK, HealthOf, Beat, beat
  <2> QED
    BY <2>1, <2>2, <2>3, <2>4, <2>5, <2>6, <2>7 DEF IInv, TypeOK, Cycle, files
<1>2. OneAtWork'
  BY LifecycleAssumption DEF IInv, OneAtWork, TypeOK, At, Cycle, Turn, Beat,
     files, Generation
<1>3. Timed'
  BY LifecycleAssumption DEF IInv, Timed, OneAtWork, TypeOK, Before, MaxCycle,
     At, Cycle, Turn, Beat, files
<1>4. Addressed'
  BY LifecycleAssumption DEF IInv, Addressed, TypeOK, Cycle, At, Turn, Beat,
     files, FileOf, Generation, OneAtWork
<1>5. Heard'
  <2>1. \/ UNCHANGED <<beat, fresh>>
       \/ \E state \in {"running", "degraded", "conflict"} : Beat(state, 0)
    BY DEF Cycle
  <2>2. (health.state = "requested" => health.gen \in heeded)'
    <3>1. heeded' = heeded
      BY DEF Cycle
    <3>2. CASE UNCHANGED <<beat, fresh>>
      BY <3>1, <3>2 DEF IInv, Heard, beat
    <3>3. CASE \E state \in {"running", "degraded", "conflict"} : Beat(state, 0)
      BY <3>3 DEF Beat
    <3> QED BY <2>1, <3>2, <3>3
  <2>3. (\A c \in Bridges : At(c, "honour") => gen[c] \in heeded)'
    BY DEF IInv, Heard, TypeOK, Cycle, Turn, At
  <2>4. (\A t \in Stoppers : spc[t] # "idle" => said[t] = "")'
    BY DEF IInv, Heard, Cycle
  <2>5. StoppedIsTrue'
    BY DEF IInv, Heard, StoppedIsTrue, Cycle
  <2> QED
    BY <2>1, <2>2, <2>3, <2>4, <2>5 DEF IInv, Heard, Cycle, files
<1> QED BY <1>1, <1>2, <1>3, <1>4, <1>5 DEF IInv

(* A wait ends when its time is over.                                      *)
LEMMA WakeKeeps ==
  ASSUME IInv, NEW b \in Bridges, Wake(b)
  PROVE  IInv'
<1>1. TypeOK'
  <2>1. (wait \in 0..MaxWait)'
    BY Constants DEF IInv, TypeOK, Wake
  <2>2. (bpc \in [Bridges -> {"down", "truncate", "write", "starting", "check",
                              "honour", "cycle", "sleep", "leave"}])'
    BY DEF IInv, TypeOK, Wake, Turn
  <2> QED
    BY <2>1, <2>2 DEF IInv, TypeOK, Wake, files, beat, stopper
<1>2. OneAtWork'
  BY LifecycleAssumption DEF IInv, OneAtWork, TypeOK, At, Wake, Turn, files,
     beat, stopper, Generation
<1>3. Timed'
  BY LifecycleAssumption DEF IInv, Timed, OneAtWork, TypeOK, Before, MaxCycle,
     At, Wake, Turn, files, beat, stopper
<1>4. Addressed'
  BY LifecycleAssumption DEF IInv, Addressed, TypeOK, Wake, At, Turn, files,
     beat, stopper, FileOf, Generation, OneAtWork
<1>5. Heard'
  BY LifecycleAssumption DEF IInv, Heard, StoppedIsTrue, TypeOK, At, Wake,
     Turn, files, beat, stopper, HealthOf, FileOf
<1> QED BY <1>1, <1>2, <1>3, <1>4, <1>5 DEF IInv

(* A bridge that leaves gives the lock back.                               *)
LEMMA LeaveKeeps ==
  ASSUME IInv, NEW b \in Bridges, Leave(b)
  PROVE  IInv'
<1>1. TypeOK'
  <2>1. (holder \in Bridges \cup Stoppers \cup {None})'
    BY DEF IInv, TypeOK, Leave, Gone, Turn
  <2>2. (bpc \in [Bridges -> {"down", "truncate", "write", "starting", "check",
                              "honour", "cycle", "sleep", "leave"}])'
    BY DEF IInv, TypeOK, Leave, Turn, Gone, Turn
  <2>3. (gen \in [Bridges -> 0..MaxRuns])'
    BY Constants, FileFacts DEF IInv, TypeOK, Leave, Gone, Turn
  <2>4. (timer \in 0..(MaxCycle + MaxWait))'
    BY Constants DEF IInv, TypeOK, Leave, Gone, Turn
  <2>5. (wait \in 0..MaxWait)'
    BY Constants DEF IInv, TypeOK, Leave, Gone, Turn
  <2> QED
    BY <2>1, <2>2, <2>3, <2>4, <2>5 DEF IInv, TypeOK, Leave, files, beat,
       stopper
<1>2. OneAtWork'
  BY LifecycleAssumption DEF IInv, OneAtWork, TypeOK, At, Leave, Gone, Turn,
     files, beat, stopper, Generation
<1>3. Timed'
  BY LifecycleAssumption DEF IInv, Timed, OneAtWork, TypeOK, Before, MaxCycle,
     At, Leave, Gone, Turn, files, beat, stopper
<1>4. Addressed'
  BY LifecycleAssumption DEF IInv, Addressed, TypeOK, Leave, Gone, At, Turn,
     files, beat, stopper, FileOf, Generation, OneAtWork
<1>5. Heard'
  BY LifecycleAssumption DEF IInv, Heard, StoppedIsTrue, TypeOK, At, Leave,
     Gone, Turn, files, beat, stopper, HealthOf, FileOf
<1> QED BY <1>1, <1>2, <1>3, <1>4, <1>5 DEF IInv

(* A bridge that dies gives the lock back.                                 *)
LEMMA DieKeeps ==
  ASSUME IInv, NEW b \in Bridges, Die(b)
  PROVE  IInv'
<1>1. TypeOK'
  <2>1. (holder \in Bridges \cup Stoppers \cup {None})'
    BY DEF IInv, TypeOK, Die, Gone, Turn
  <2>2. (bpc \in [Bridges -> {"down", "truncate", "write", "starting", "check",
                              "honour", "cycle", "sleep", "leave"}])'
    BY DEF IInv, TypeOK, Die, Turn, Gone, Turn
  <2>3. (gen \in [Bridges -> 0..MaxRuns])'
    BY Constants, FileFacts DEF IInv, TypeOK, Die, Gone, Turn
  <2>4. (timer \in 0..(MaxCycle + MaxWait))'
    BY Constants DEF IInv, TypeOK, Die, Gone, Turn
  <2>5. (wait \in 0..MaxWait)'
    BY Constants DEF IInv, TypeOK, Die, Gone, Turn
  <2>6. (deaths \in 0..MaxDeaths)'
    BY Constants DEF IInv, TypeOK, Die, Gone, Turn
  <2> QED
    BY <2>1, <2>2, <2>3, <2>4, <2>5, <2>6 DEF IInv, TypeOK, Die, files, beat,
       stopper
<1>2. OneAtWork'
  BY LifecycleAssumption DEF IInv, OneAtWork, TypeOK, At, Die, Gone, Turn,
     files, beat, stopper, Generation
<1>3. Timed'
  BY LifecycleAssumption DEF IInv, Timed, OneAtWork, TypeOK, Before, MaxCycle,
     At, Die, Gone, Turn, files, beat, stopper
<1>4. Addressed'
  BY LifecycleAssumption DEF IInv, Addressed, TypeOK, Die, Gone, At, Turn,
     files, beat, stopper, FileOf, Generation, OneAtWork
<1>5. Heard'
  BY LifecycleAssumption DEF IInv, Heard, StoppedIsTrue, TypeOK, At, Die,
     Gone, Turn, files, beat, stopper, HealthOf, FileOf
<1> QED BY <1>1, <1>2, <1>3, <1>4, <1>5 DEF IInv

(* A --stop begins with nothing said.                                      *)
LEMMA AskKeeps ==
  ASSUME IInv, NEW s \in Stoppers, Ask(s)
  PROVE  IInv'
<1>1. TypeOK'
  <2>1. (fresh \in [Stoppers -> BOOLEAN])'
    BY DEF IInv, TypeOK, Ask
  <2>2. (holder \in Bridges \cup Stoppers \cup {None})'
    BY DEF IInv, TypeOK, Ask
  <2>3. (spc \in [Stoppers -> {"idle", "probe", "generation", "nothing", "open",
                           "write", "rename", "wait", "free", "conclude", "clear"}])'
    BY ZenonT(60) DEF IInv, TypeOK, Ask, Go
  <2> QED
    BY <2>1, <2>2, <2>3 DEF IInv, TypeOK, Ask, files, beat, bridge
<1>2. OneAtWork'
  <2>1. bpc' = bpc /\ runs' = runs /\ gen' = gen
    BY DEF Ask, bridge
  <2>2. spc' = [spc EXCEPT ![s] = "probe"] => holder = None /\ holder' = s
    <3>1. s \in Stoppers /\ spc \in [Stoppers -> {"idle", "probe", "generation", "nothing", "open",
                           "write", "rename", "wait", "free", "conclude", "clear"}]
      BY DEF IInv, TypeOK
    <3> QED BY <3>1 DEF Ask, Go
  <2>3. \/ /\ holder' = holder
           /\ spc' \in {[spc EXCEPT ![s] = "nothing"], [spc EXCEPT ![s] = "generation"]}
        \/ spc' = [spc EXCEPT ![s] = "probe"]
    BY DEF Ask, Go
  <2> QED
    BY ZenonT(60), <2>1, <2>2, <2>3, LifecycleAssumption DEF IInv, OneAtWork, Ask, files,
       beat, bridge, At, TypeOK
<1>3. Timed'
  BY LifecycleAssumption DEF IInv, Timed, OneAtWork, TypeOK, Before, MaxCycle,
     At, Ask, Go, files, beat, bridge
<1>4. Addressed'
  <2>1. ({request, tmp} \cap Generation \subseteq askedOf)'
    BY FileFacts DEF IInv, Addressed, Ask, files
  <2>2. (heeded \subseteq askedOf)'
    BY FileFacts DEF IInv, Addressed, Ask, bridge
  <2>3. (\A t \in Stoppers : spc[t] \in {"open", "write", "rename", "wait", "free", "conclude"}
                          => asked[t] \in askedOf)'
    BY ZenonT(60) DEF IInv, TypeOK, Addressed, Ask, Go, Say
  <2> QED
    BY <2>1, <2>2, <2>3 DEF IInv, Addressed, Ask, files, beat, bridge
<1>5. Heard'
  BY LifecycleAssumption DEF IInv, Heard, StoppedIsTrue, TypeOK, At, Ask, Go,
     files, beat, bridge, HealthOf, FileOf
<1> QED BY <1>1, <1>2, <1>3, <1>4, <1>5 DEF IInv

(* A probe gives the lock back.                                            *)
LEMMA LetGoKeeps ==
  ASSUME IInv, NEW s \in Stoppers, LetGo(s)
  PROVE  IInv'
<1>1. TypeOK'
  BY LifecycleAssumption DEF IInv, TypeOK, LetGo, Go, files, beat, bridge,
     FileOf, Generation, HealthOf, Outcome, MaxAge, MaxCycle, OneAtWork,
     Timed, Addressed, At
<1>2. OneAtWork'
  BY LifecycleAssumption DEF IInv, OneAtWork, TypeOK, At, LetGo, Go, files,
     beat, bridge, Generation
<1>3. Timed'
  BY LifecycleAssumption DEF IInv, Timed, OneAtWork, TypeOK, Before, MaxCycle,
     At, LetGo, Go, files, beat, bridge
<1>4. Addressed'
  BY LifecycleAssumption DEF IInv, Addressed, TypeOK, LetGo, Go, files, beat,
     bridge, FileOf, Generation, OneAtWork, At
<1>5. Heard'
  BY LifecycleAssumption DEF IInv, Heard, StoppedIsTrue, TypeOK, At, LetGo,
     Go, files, beat, bridge, HealthOf, FileOf
<1> QED BY <1>1, <1>2, <1>3, <1>4, <1>5 DEF IInv

(* What is asked of is what the lock file named.                           *)
LEMMA ReadGenerationKeeps ==
  ASSUME IInv, NEW s \in Stoppers, ReadGeneration(s)
  PROVE  IInv'
<1>1. TypeOK'
  <2>1. (asked \in [Stoppers -> 0..MaxRuns])'
    BY Constants, FileFacts DEF IInv, TypeOK, ReadGeneration, Generation
  <2>2. (askedOf \subseteq Generation)'
    BY Constants, FileFacts DEF IInv, TypeOK, ReadGeneration
  <2>3. (spc \in [Stoppers -> {"idle", "probe", "generation", "nothing", "open",
                               "write", "rename", "wait", "free", "conclude", "clear"}])'
    BY DEF IInv, TypeOK, ReadGeneration, Go, Say
  <2> QED
    BY <2>1, <2>2, <2>3 DEF IInv, TypeOK, ReadGeneration, files, beat, bridge
<1>2. OneAtWork'
  BY LifecycleAssumption DEF IInv, OneAtWork, TypeOK, At, ReadGeneration, Go,
     files, beat, bridge, Generation
<1>3. Timed'
  BY LifecycleAssumption DEF IInv, Timed, OneAtWork, TypeOK, Before, MaxCycle,
     At, ReadGeneration, Go, files, beat, bridge
<1>4. Addressed'
  BY LifecycleAssumption DEF IInv, Addressed, TypeOK, ReadGeneration, Go,
     files, beat, bridge, FileOf, Generation, OneAtWork, At
<1>5. Heard'
  BY LifecycleAssumption DEF IInv, Heard, StoppedIsTrue, TypeOK, At,
     ReadGeneration, Go, files, beat, bridge, HealthOf, FileOf
<1> QED BY <1>1, <1>2, <1>3, <1>4, <1>5 DEF IInv

(* Where nothing runs the request goes.                                    *)
LEMMA NothingKeeps ==
  ASSUME IInv, NEW s \in Stoppers, Nothing(s)
  PROVE  IInv'
<1>1. TypeOK'
  BY LifecycleAssumption DEF IInv, TypeOK, Nothing, Say, Go, Unlinked,
     Replaces, beat, bridge, FileOf, Generation, HealthOf, Outcome, MaxAge,
     MaxCycle, OneAtWork, Timed, Addressed, At
<1>2. OneAtWork'
  BY LifecycleAssumption DEF IInv, OneAtWork, TypeOK, At, Nothing, Say, Go,
     Unlinked, Replaces, beat, bridge, Generation
<1>3. Timed'
  BY LifecycleAssumption DEF IInv, Timed, OneAtWork, TypeOK, Before, MaxCycle,
     At, Nothing, Say, Go, Unlinked, Replaces, beat, bridge
<1>4. Addressed'
  <2>1. ({request, tmp} \cap Generation \subseteq askedOf)'
    BY FileFacts DEF IInv, Addressed, Nothing, files
  <2>2. (heeded \subseteq askedOf)'
    BY FileFacts DEF IInv, Addressed, Nothing, bridge
  <2>3. (\A t \in Stoppers : spc[t] \in {"open", "write", "rename", "wait", "free", "conclude"}
                          => asked[t] \in askedOf)'
    BY DEF IInv, TypeOK, Addressed, Nothing, Go, Say
  <2> QED
    BY <2>1, <2>2, <2>3 DEF IInv, Addressed, Nothing, beat, bridge
<1>5. Heard'
  BY LifecycleAssumption DEF IInv, Heard, StoppedIsTrue, TypeOK, At, Nothing,
     Say, Go, Unlinked, Replaces, beat, bridge, HealthOf, FileOf
<1> QED BY <1>1, <1>2, <1>3, <1>4, <1>5 DEF IInv

(* A file that is opened names no run.                                     *)
LEMMA OpenRequestKeeps ==
  ASSUME IInv, NEW s \in Stoppers, OpenRequest(s)
  PROVE  IInv'
<1>1. TypeOK'
  BY LifecycleAssumption DEF IInv, TypeOK, OpenRequest, Go, Replaces, beat,
     bridge, FileOf, Generation, HealthOf, Outcome, MaxAge, MaxCycle,
     OneAtWork, Timed, Addressed, At
<1>2. OneAtWork'
  BY LifecycleAssumption DEF IInv, OneAtWork, TypeOK, At, OpenRequest, Go,
     Replaces, beat, bridge, Generation
<1>3. Timed'
  BY LifecycleAssumption DEF IInv, Timed, OneAtWork, TypeOK, Before, MaxCycle,
     At, OpenRequest, Go, Replaces, beat, bridge
<1>4. Addressed'
  <2>1. ({request, tmp} \cap Generation \subseteq askedOf)'
    BY FileFacts DEF IInv, Addressed, OpenRequest, files
  <2>2. (heeded \subseteq askedOf)'
    BY FileFacts DEF IInv, Addressed, OpenRequest, bridge
  <2>3. (\A t \in Stoppers : spc[t] \in {"open", "write", "rename", "wait", "free", "conclude"}
                          => asked[t] \in askedOf)'
    BY DEF IInv, TypeOK, Addressed, OpenRequest, Go, Say
  <2> QED
    BY <2>1, <2>2, <2>3 DEF IInv, Addressed, OpenRequest, beat, bridge
<1>5. Heard'
  BY LifecycleAssumption DEF IInv, Heard, StoppedIsTrue, TypeOK, At,
     OpenRequest, Go, Replaces, beat, bridge, HealthOf, FileOf
<1> QED BY <1>1, <1>2, <1>3, <1>4, <1>5 DEF IInv

(* A request names the run that was read, whichever file it lands in.      *)
LEMMA WriteRequestKeeps ==
  ASSUME IInv, NEW s \in Stoppers, WriteRequest(s)
  PROVE  IInv'
<1>1. TypeOK'
  BY LifecycleAssumption DEF IInv, TypeOK, WriteRequest, Go, Replaces, beat,
     bridge, FileOf, Generation, HealthOf, Outcome, MaxAge, MaxCycle,
     OneAtWork, Timed, Addressed, At
<1>2. OneAtWork'
  BY LifecycleAssumption DEF IInv, OneAtWork, TypeOK, At, WriteRequest, Go,
     Replaces, beat, bridge, Generation
<1>3. Timed'
  BY LifecycleAssumption DEF IInv, Timed, OneAtWork, TypeOK, Before, MaxCycle,
     At, WriteRequest, Go, Replaces, beat, bridge
<1>4. Addressed'
  BY LifecycleAssumption DEF IInv, Addressed, TypeOK, WriteRequest, Go,
     Replaces, beat, bridge, FileOf, Generation, OneAtWork, At
<1>5. Heard'
  BY LifecycleAssumption DEF IInv, Heard, StoppedIsTrue, TypeOK, At,
     WriteRequest, Go, Replaces, beat, bridge, HealthOf, FileOf
<1> QED BY <1>1, <1>2, <1>3, <1>4, <1>5 DEF IInv

(* A rename brings what some --stop has written.                           *)
LEMMA RenameRequestKeeps ==
  ASSUME IInv, NEW s \in Stoppers, RenameRequest(s)
  PROVE  IInv'
<1>1. TypeOK'
  <2>1. (request \in FileOf)'
    BY Constants, FileFacts DEF IInv, TypeOK, RenameRequest, files
  <2>2. (tmp \in FileOf)'
    BY Constants, FileFacts DEF IInv, TypeOK, RenameRequest, files
  <2>3. (fd \in [Stoppers -> {"none", "tmp", "request", "gone"}])'
    BY DEF IInv, TypeOK, RenameRequest, Unlinked
  <2>4. (wiped \subseteq Generation)'
    BY Constants, FileFacts DEF IInv, TypeOK, RenameRequest, Replaces
  <2>5. (spc \in [Stoppers -> {"idle", "probe", "generation", "nothing", "open",
                               "write", "rename", "wait", "free", "conclude", "clear"}])'
    BY DEF IInv, TypeOK, RenameRequest, Go, Say
  <2>6. (said \in [Stoppers -> Outcome])'
    BY DEF IInv, TypeOK, RenameRequest, Say, Outcome
  <2> QED
    BY <2>1, <2>2, <2>3, <2>4, <2>5, <2>6 DEF IInv, TypeOK, RenameRequest,
       files, beat, bridge
<1>2. OneAtWork'
  BY LifecycleAssumption DEF IInv, OneAtWork, TypeOK, At, RenameRequest, Say,
     Go, Unlinked, Replaces, files, beat, bridge, Generation
<1>3. Timed'
  BY LifecycleAssumption DEF IInv, Timed, OneAtWork, TypeOK, Before, MaxCycle,
     At, RenameRequest, Say, Go, Unlinked, Replaces, files, beat, bridge
<1>4. Addressed'
  <2>1. ({request, tmp} \cap Generation \subseteq askedOf)'
    BY FileFacts DEF IInv, Addressed, RenameRequest, files
  <2>2. (heeded \subseteq askedOf)'
    BY FileFacts DEF IInv, Addressed, RenameRequest, bridge
  <2>3. (\A t \in Stoppers : spc[t] \in {"open", "write", "rename", "wait", "free", "conclude"}
                          => asked[t] \in askedOf)'
    BY DEF IInv, TypeOK, Addressed, RenameRequest, Go, Say
  <2> QED
    BY <2>1, <2>2, <2>3 DEF IInv, Addressed, RenameRequest, files, beat,
       bridge
<1>5. Heard'
  BY ZenonT(60), LifecycleAssumption DEF IInv, Heard, StoppedIsTrue, TypeOK, At,
     RenameRequest, Say, Go, Unlinked, Replaces, files, beat, bridge,
     HealthOf, FileOf
<1> QED BY <1>1, <1>2, <1>3, <1>4, <1>5 DEF IInv

(* The lock is probed only when it is free.                                *)
LEMMA ProbeKeeps ==
  ASSUME IInv, NEW s \in Stoppers, Probe(s)
  PROVE  IInv'
<1>1. TypeOK'
  BY LifecycleAssumption DEF IInv, TypeOK, Probe, Go, files, beat, bridge,
     FileOf, Generation, HealthOf, Outcome, MaxAge, MaxCycle, OneAtWork,
     Timed, Addressed, At
<1>2. OneAtWork'
  BY LifecycleAssumption DEF IInv, OneAtWork, TypeOK, At, Probe, Go, files,
     beat, bridge, Generation
<1>3. Timed'
  BY LifecycleAssumption DEF IInv, Timed, OneAtWork, TypeOK, Before, MaxCycle,
     At, Probe, Go, files, beat, bridge
<1>4. Addressed'
  BY LifecycleAssumption DEF IInv, Addressed, TypeOK, Probe, Go, files, beat,
     bridge, FileOf, Generation, OneAtWork, At
<1>5. Heard'
  BY LifecycleAssumption DEF IInv, Heard, StoppedIsTrue, TypeOK, At, Probe,
     Go, files, beat, bridge, HealthOf, FileOf
<1> QED BY <1>1, <1>2, <1>3, <1>4, <1>5 DEF IInv

(* A --stop that gives up claims nothing.                                  *)
LEMMA DeadlineKeeps ==
  ASSUME IInv, NEW s \in Stoppers, Deadline(s)
  PROVE  IInv'
<1>1. TypeOK'
  BY LifecycleAssumption DEF IInv, TypeOK, Deadline, Say, Go, files, beat,
     bridge, FileOf, Generation, HealthOf, Outcome, MaxAge, MaxCycle,
     OneAtWork, Timed, Addressed, At
<1>2. OneAtWork'
  BY LifecycleAssumption DEF IInv, OneAtWork, TypeOK, At, Deadline, Say, Go,
     files, beat, bridge, Generation
<1>3. Timed'
  BY LifecycleAssumption DEF IInv, Timed, OneAtWork, TypeOK, Before, MaxCycle,
     At, Deadline, Say, Go, files, beat, bridge
<1>4. Addressed'
  BY LifecycleAssumption DEF IInv, Addressed, TypeOK, Deadline, Say, Go,
     files, beat, bridge, FileOf, Generation, OneAtWork, At
<1>5. Heard'
  BY LifecycleAssumption DEF IInv, Heard, StoppedIsTrue, TypeOK, At, Deadline,
     Say, Go, files, beat, bridge, HealthOf, FileOf
<1> QED BY <1>1, <1>2, <1>3, <1>4, <1>5 DEF IInv

(* A run is said to have stopped if its own record says so.                *)
LEMMA ConcludeKeeps ==
  ASSUME IInv, NEW s \in Stoppers, Conclude(s)
  PROVE  IInv'
<1>1. TypeOK'
  <2>1. (said \in [Stoppers -> Outcome])'
    BY DEF IInv, TypeOK, Conclude, Say, Outcome
  <2>2. (spc \in [Stoppers -> {"idle", "probe", "generation", "nothing", "open",
                           "write", "rename", "wait", "free", "conclude", "clear"}])'
    BY DEF IInv, TypeOK, Conclude, Say, Go
  <2> QED
    BY <2>1, <2>2 DEF IInv, TypeOK, Conclude, files, beat, bridge
<1>2. OneAtWork'
  BY LifecycleAssumption DEF IInv, OneAtWork, TypeOK, At, Conclude, Say, Go,
     Recorded, files, beat, bridge, Generation
<1>3. Timed'
  BY LifecycleAssumption DEF IInv, Timed, OneAtWork, TypeOK, Before, MaxCycle,
     At, Conclude, Say, Go, Recorded, files, beat, bridge
<1>4. Addressed'
  BY LifecycleAssumption DEF IInv, Addressed, TypeOK, Conclude, Say, Go,
     Recorded, files, beat, bridge, FileOf, Generation, OneAtWork, At
<1>5. Heard'
  <2>1. (health.state = "requested" => health.gen \in heeded)'
    BY DEF IInv, Heard, Conclude, beat, bridge
  <2>2. (\A c \in Bridges : At(c, "honour") => gen[c] \in heeded)'
    BY DEF IInv, Heard, Conclude, bridge, At
  <2>3. (\A t \in Stoppers : spc[t] # "idle" => said[t] = "")'
    BY DEF IInv, Heard, TypeOK, Conclude, Say, Go
  <2>4. StoppedIsTrue'
    <3>1. Recorded(s) => asked[s] \in heeded
      <4>1. Recorded(s) => health.state = "requested" /\ health.gen = asked[s]
        BY DEF Recorded
      <4> QED BY <4>1 DEF IInv, Heard
    <3>2. said' \in {said, [said EXCEPT ![s] = "stopped"], [said EXCEPT ![s] = "unconfirmed"]}
      BY DEF Conclude, Say
    <3>3. said' = [said EXCEPT ![s] = "stopped"] => Recorded(s) \/ said[s] = "stopped"
      BY DEF IInv, TypeOK, Conclude, Say
    <3>4. asked' = asked /\ heeded' = heeded
      BY DEF Conclude, bridge
    <3> QED BY <3>1, <3>2, <3>3, <3>4 DEF IInv, TypeOK, Heard, StoppedIsTrue
  <2> QED
    BY <2>1, <2>2, <2>3, <2>4 DEF IInv, Heard, Conclude, files, beat, bridge
<1> QED BY <1>1, <1>2, <1>3, <1>4, <1>5 DEF IInv

(* A request that was never read goes.                                     *)
LEMMA ClearKeeps ==
  ASSUME IInv, NEW s \in Stoppers, Clear(s)
  PROVE  IInv'
<1>1. TypeOK'
  BY LifecycleAssumption DEF IInv, TypeOK, Clear, Say, Go, Unlinked, Replaces,
     beat, bridge, FileOf, Generation, HealthOf, Outcome, MaxAge, MaxCycle,
     OneAtWork, Timed, Addressed, At
<1>2. OneAtWork'
  BY LifecycleAssumption DEF IInv, OneAtWork, TypeOK, At, Clear, Say, Go,
     Unlinked, Replaces, beat, bridge, Generation
<1>3. Timed'
  BY LifecycleAssumption DEF IInv, Timed, OneAtWork, TypeOK, Before, MaxCycle,
     At, Clear, Say, Go, Unlinked, Replaces, beat, bridge
<1>4. Addressed'
  <2>1. ({request, tmp} \cap Generation \subseteq askedOf)'
    BY FileFacts DEF IInv, Addressed, Clear, files
  <2>2. (heeded \subseteq askedOf)'
    BY FileFacts DEF IInv, Addressed, Clear, bridge
  <2>3. (\A t \in Stoppers : spc[t] \in {"open", "write", "rename", "wait", "free", "conclude"}
                          => asked[t] \in askedOf)'
    BY DEF IInv, TypeOK, Addressed, Clear, Go, Say
  <2> QED
    BY <2>1, <2>2, <2>3 DEF IInv, Addressed, Clear, beat, bridge
<1>5. Heard'
  BY LifecycleAssumption DEF IInv, Heard, StoppedIsTrue, TypeOK, At, Clear,
     Say, Go, Unlinked, Replaces, beat, bridge, HealthOf, FileOf
<1> QED BY <1>1, <1>2, <1>3, <1>4, <1>5 DEF IInv

(* A step that changes nothing keeps everything.                           *)
LEMMA StutterKeeps ==
  ASSUME IInv, UNCHANGED vars
  PROVE  IInv'
<1>1. TypeOK'
  BY LifecycleAssumption DEF IInv, TypeOK, vars, files, beat, bridge, stopper,
     FileOf, Generation, HealthOf, Outcome, MaxAge, MaxCycle, OneAtWork,
     Timed, Addressed, At
<1>2. OneAtWork'
  BY LifecycleAssumption DEF IInv, OneAtWork, TypeOK, At, vars, files, beat,
     bridge, stopper, Generation
<1>3. Timed'
  BY LifecycleAssumption DEF IInv, Timed, OneAtWork, TypeOK, Before, MaxCycle,
     At, vars, files, beat, bridge, stopper
<1>4. Addressed'
  BY LifecycleAssumption DEF IInv, Addressed, TypeOK, vars, files, beat,
     bridge, stopper, FileOf, Generation, OneAtWork, At
<1>5. Heard'
  BY LifecycleAssumption DEF IInv, Heard, StoppedIsTrue, TypeOK, At, vars,
     files, beat, bridge, stopper, HealthOf, FileOf
<1> QED BY <1>1, <1>2, <1>3, <1>4, <1>5 DEF IInv

(* At first nothing has been started, asked or said.                       *)
LEMMA InitKeeps == Init => IInv
<1> SUFFICES ASSUME Init PROVE IInv
  OBVIOUS
<1>1. TypeOK
  <2>1. health \in HealthOf /\ age \in 0..MaxAge
    <3>1. 0 \in 0..MaxRuns /\ 0 \in 0..MaxAge
      BY Constants
    <3> QED BY <3>1 DEF Init, HealthOf
  <2>2. /\ timer \in 0..(MaxCycle + MaxWait) /\ wait \in 0..MaxWait
        /\ runs \in 0..MaxRuns /\ deaths \in 0..MaxDeaths
        /\ gen \in [Bridges -> 0..MaxRuns] /\ asked \in [Stoppers -> 0..MaxRuns]
    <3>1. /\ 0 \in 0..(MaxCycle + MaxWait) /\ 0 \in 0..MaxWait
          /\ 0 \in 0..MaxRuns /\ 0 \in 0..MaxDeaths
      BY Constants
    <3> QED BY <3>1 DEF Init
  <2> QED BY <2>1, <2>2, FileFacts DEF Init, TypeOK, Outcome
<1>2. OneAtWork /\ Timed
  BY DEF Init, OneAtWork, Timed, At
<1>3. Addressed /\ Heard
  BY FileFacts DEF Init, Addressed, Heard, StoppedIsTrue, At
<1> QED BY <1>1, <1>2, <1>3 DEF IInv

(* Every step keeps the invariant.                                         *)
LEMMA NextKeeps == IInv /\ [Next]_vars => IInv'
<1> SUFFICES ASSUME IInv, [Next]_vars PROVE IInv'
  OBVIOUS
<1>1. ASSUME NEW b \in Bridges, Lock(b) \/ Run(b) \/ Die(b) PROVE IInv'
  BY <1>1, LockKeeps, TruncateKeeps, WriteKeeps, StartingKeeps, CheckKeeps, HonourKeeps,
     CycleKeeps, WakeKeeps, LeaveKeeps, DieKeeps
  DEF Run
<1>2. ASSUME NEW s \in Stoppers, Ask(s) \/ Stop(s) \/ Deadline(s) PROVE IInv'
  BY <1>2, AskKeeps, LetGoKeeps, ReadGenerationKeeps, NothingKeeps, OpenRequestKeeps,
     WriteRequestKeeps, RenameRequestKeeps, ProbeKeeps, ConcludeKeeps, ClearKeeps,
     DeadlineKeeps
  DEF Stop
<1> QED BY <1>1, <1>2, TickKeeps, StutterKeeps DEF Next

(* The invariant holds whatever is started, stopped and killed.            *)
THEOREM LifecycleInvariant == Spec => []IInv
BY InitKeeps, NextKeeps, PTL DEF Spec

(* A run stands down only for a request that named it.                     *)
THEOREM OnlyTheAskedHolds == Spec => []OnlyTheAsked
<1>1. IInv => OnlyTheAsked
  BY DEF IInv, Addressed, OnlyTheAsked
<1> QED BY <1>1, LifecycleInvariant, PTL

(* What --stop prints as "stopped" has happened for that reason.           *)
THEOREM StoppedIsTrueHolds == Spec => []StoppedIsTrue
<1>1. IInv => StoppedIsTrue
  BY DEF IInv, Heard
<1> QED BY <1>1, LifecycleInvariant, PTL

(* A bridge at work or waiting is never told off to be restarted.          *)
THEOREM LiveIsLeftAloneHolds == Spec => []LiveIsLeftAlone
<1>1. ASSUME IInv, NEW b \in Bridges, bpc[b] \in {"check", "cycle", "sleep"}
      PROVE  Verdict # "restart"
  <2>1. age <= Allowance(health.state)
    BY <1>1, LifecycleAssumption
    DEF IInv, TypeOK, Timed, Before, MaxCycle, MaxAge, Allowance, At
  <2> QED BY <2>1 DEF Verdict
<1>2. IInv => LiveIsLeftAlone
  BY <1>1 DEF LiveIsLeftAlone
<1> QED BY <1>2, LifecycleInvariant, PTL

(* The variables keep their types.                                         *)
THEOREM LifecycleTypes == Spec => []TypeOK
<1>1. IInv => TypeOK
  BY DEF IInv
<1> QED BY <1>1, LifecycleInvariant, PTL
=============================================================================
