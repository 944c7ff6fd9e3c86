------------------------- MODULE LivePipelineProofs -------------------------
(***************************************************************************)
(* Theorems about LivePipeline, for any handlers' threads, runs of the     *)
(* script and qualities.  Calls that overlap may leave orphans, so next to *)
(* nothing is invariant while they do; the argument is about what a stop   *)
(* that runs alone re-establishes, step by step, and what follows it until *)
(* the next overlap.                                                       *)
(***************************************************************************)
EXTENDS LivePipeline, FiniteSetTheorems, TLAPS

Scripts == Calls \cup Runs  \* those who run stop scripts

(***************************************************************************)
(* What holds even while calls overlap.                                    *)
(***************************************************************************)
StopsBelong ==
  /\ \A h \in Calls : call[h] \in {"idle", "reuse"} => stopAt[h] = "off"
  /\ \A h \in Calls : call[h] \in {"start", "reuse"} => wanted[h] \in Qualities
  /\ \A r \in Runs : stopAt[r] # "off" => phase[r] = "begun"
  /\ \A a \in Scripts : stopAt[a] # "kill" => victims[a] = {}
  /\ \A r \in Runs : phase[r] = "begun" => r \notin Working /\ \A a \in Scripts : r \notin victims[a]

(***************************************************************************)
(* The three stages that there are without overlaps.                       *)
(***************************************************************************)
NoPids == encoderPid = NoRun /\ bridgePid = NoRun
AllDead == \A r \in Runs : phase[r] = "dead"

\* Nothing runs, and the control file says so.
Off ==
  /\ Working = {} /\ NoPids /\ AllDead
  /\ \A h \in Calls : call[h] = "idle"
  /\ ~control.active

\* The only call is h, which stops whatever runs.
Stopping(h) ==
  /\ call[h] \in {"start", "stop"}
  /\ \A g \in Calls \ {h} : call[g] = "idle"
  /\ UpOrDead = Runs
  /\ stopAt[h] # "pids" => NoPids
  /\ stopAt[h] \in {"kill", "clear", "off"} => Working = {}
  /\ stopAt[h] = "off" => AllDead

\* How far the run r is, and what there is of it.
Progress(r) ==
  /\ phase[r] = "dead" => Working = {} /\ NoPids /\ failed
  /\ phase[r] \in {"begun", "ready"} => Working = {} /\ NoPids
  /\ phase[r] = "ready" => hls
  /\ phase[r] = "encodes" =>
       hls /\ bridges = {} /\ encoderPid = r /\ bridgePid = NoRun /\ (~failed => encodes = {r})
  /\ phase[r] = "up" =>
       hls /\ encoderPid = r /\ bridgePid = r /\ (~failed => encodes = {r} /\ bridges = {r})

\* There is one run, of the quality that is or will be in the control file.
Running(r, q) ==
  /\ Working \subseteq {r} /\ quality[r] = q /\ Progress(r)
  /\ \A s \in Runs \ {r} : phase[s] = "dead"
  /\ \A a \in Scripts : victims[a] = {}
  /\ \A h \in Calls : call[h] = "idle" \/ (call[h] = "reuse" /\ wanted[h] = q)
  /\ (\A h \in Calls : call[h] = "idle") => control = [active |-> TRUE, quality |-> q]

InStage ==
  \/ Off
  \/ \E h \in Calls : Stopping(h)
  \/ \E r \in Runs, q \in Qualities : Running(r, q)

LInv == LiveTypeOK /\ StopsBelong /\ (~overlap => InStage)

-----------------------------------------------------------------------------
\* The control file agrees in every stage.
LEMMA StagesAgree == LInv => ControlAgrees
  <1> SUFFICES ASSUME LInv, \A h \in Calls : call[h] = "idle", UpOrDead = Runs, ~overlap,
                      \A r \in Runs : phase[r] = "up" => r \in Working
               PROVE  /\ ~control.active => Working = {}
                      /\ Cardinality(Working) <= 1
                      /\ \A r \in Working : quality[r] = control.quality /\ hls
                      /\ encodes \subseteq {encoderPid} /\ bridges \subseteq {bridgePid}
                      /\ control.active /\ ~failed => encodes # {} /\ bridges # {}
    BY DEF ControlAgrees
  <1>1. CASE Off
    <2>1. Working = {}
      BY <1>1 DEF Off
    <2>2. Cardinality(Working) <= 1
      BY <2>1, FS_EmptySet
    <2> QED BY <1>1, <2>1, <2>2 DEF Off, Working
  <1>2. ASSUME NEW h \in Calls, Stopping(h) PROVE FALSE
    BY <1>2 DEF Stopping
  <1>3. ASSUME NEW r \in Runs, NEW q \in Qualities, Running(r, q)
        PROVE  /\ ~control.active => Working = {}
               /\ Cardinality(Working) <= 1
               /\ \A s \in Working : quality[s] = control.quality /\ hls
               /\ encodes \subseteq {encoderPid} /\ bridges \subseteq {bridgePid}
               /\ control.active /\ ~failed => encodes # {} /\ bridges # {}
    <2>1. control = [active |-> TRUE, quality |-> q] /\ Working \subseteq {r} /\ quality[r] = q
      BY <1>3 DEF Running
    <2>2. Cardinality(Working) <= 1
      <3>1. IsFiniteSet({r}) /\ Cardinality({r}) = 1
        BY FS_Singleton
      <3>2. Cardinality(Working) <= Cardinality({r})
        BY <2>1, <3>1, FS_Subset
      <3> QED BY <3>1, <3>2
    <2>3. phase[r] \in {"dead", "up"}
      BY DEF UpOrDead
    <2>4. Progress(r)
      BY <1>3 DEF Running
    <2>5. CASE phase[r] = "dead"
      <3>1. Working = {} /\ failed
        BY <2>4, <2>5 DEF Progress
      <3> QED BY <2>1, <2>2, <3>1 DEF Working
    <2>6. CASE phase[r] = "up"
      <3>1. hls /\ encoderPid = r /\ bridgePid = r
            /\ (~failed => encodes = {r} /\ bridges = {r})
        BY <2>4, <2>6 DEF Progress
      <3> QED BY <2>1, <2>2, <3>1 DEF Working
    <2> QED BY <2>3, <2>5, <2>6
  <1> QED BY <1>1, <1>2, <1>3 DEF LInv, InStage

-----------------------------------------------------------------------------
(***************************************************************************)
(* The steps.                                                              *)
(***************************************************************************)
\* Without overlaps only one script stops: that of the call or of the new run.
LEMMA WhoStops ==
  ASSUME LInv, ~overlap, NEW a \in Scripts, stopAt[a] # "off"
  PROVE  \/ a \in Calls /\ Stopping(a)
         \/ a \in Runs /\ phase[a] = "begun" /\ \E q \in Qualities : Running(a, q)
  <1>1. ~Off
    BY DEF LInv, StopsBelong, Off, AllDead, Scripts
  <1>2. ASSUME NEW h \in Calls, Stopping(h) PROVE a = h
    BY <1>2 DEF LInv, StopsBelong, Stopping, UpOrDead, Scripts
  <1>3. ASSUME NEW r \in Runs, NEW q \in Qualities, Running(r, q) PROVE a = r /\ phase[r] = "begun"
    BY <1>3 DEF LInv, StopsBelong, Running, Scripts
  <1> QED BY <1>1, <1>2, <1>3 DEF LInv, InStage

LEMMA StopByPidKeeps == ASSUME LInv, NEW a \in Scripts, StopByPid(a) PROVE LInv'
  <1>1. LiveTypeOK'
    BY DEF LInv, LiveTypeOK, StopByPid, EndByPid, Working, Scripts
  <1>2. StopsBelong'
    BY DEF LInv, LiveTypeOK, StopsBelong, StopByPid, EndByPid, Working, Scripts
  <1>3. ASSUME ~overlap', a \in Calls, Stopping(a) PROVE Stopping(a)'
    BY <1>3 DEF LInv, LiveTypeOK, StopByPid, EndByPid, Stopping, NoPids, UpOrDead, Scripts
  <1>4. ASSUME ~overlap', a \in Runs, phase[a] = "begun", NEW q \in Qualities, Running(a, q)
        PROVE  Running(a, q)'
    BY <1>4 DEF LInv, LiveTypeOK, StopByPid, EndByPid, Running, Progress, NoPids, Working, Scripts
  <1>5. ~overlap' => InStage'
    BY <1>3, <1>4, WhoStops DEF StopByPid, InStage
  <1> QED BY <1>1, <1>2, <1>5 DEF LInv

LEMMA StopMatchingKeeps == ASSUME LInv, NEW a \in Scripts, StopMatching(a) PROVE LInv'
  <1>1. LiveTypeOK'
    BY DEF LInv, LiveTypeOK, StopMatching, Matched, Working, Scripts
  <1>2. StopsBelong'
    BY DEF LInv, LiveTypeOK, StopsBelong, StopMatching, Matched, Working, Scripts
  <1>3. ASSUME ~overlap', a \in Calls, Stopping(a) PROVE Stopping(a)'
    BY <1>3 DEF LInv, LiveTypeOK, StopMatching, Matched, Working, Stopping, NoPids, UpOrDead, Scripts
  <1>4. ASSUME ~overlap', a \in Runs, phase[a] = "begun", NEW q \in Qualities, Running(a, q)
        PROVE  Running(a, q)'
    BY <1>4 DEF LInv, LiveTypeOK, StopMatching, Matched, Running, Progress, NoPids, Working, Scripts
  <1>5. ~overlap' => InStage'
    BY <1>3, <1>4, WhoStops DEF StopMatching, InStage
  <1> QED BY <1>1, <1>2, <1>5 DEF LInv

LEMMA StopParentsKeeps == ASSUME LInv, NEW a \in Scripts, StopParents(a) PROVE LInv'
  <1>1. LiveTypeOK'
    BY DEF LInv, LiveTypeOK, StopParents, pipes, Working, Scripts
  <1>2. StopsBelong'
    BY DEF LInv, LiveTypeOK, StopsBelong, StopParents, pipes, Working, Scripts
  <1>3. ASSUME ~overlap', a \in Calls, Stopping(a) PROVE Stopping(a)'
    BY <1>3 DEF LInv, LiveTypeOK, StopParents, pipes, Working, Stopping, NoPids, UpOrDead, Scripts
  <1>4. ASSUME ~overlap', a \in Runs, phase[a] = "begun", NEW q \in Qualities, Running(a, q)
        PROVE  Running(a, q)'
    BY <1>4 DEF LInv, LiveTypeOK, StopParents, pipes, Running, Progress, NoPids, Working, Scripts
  <1>5. ~overlap' => InStage'
    BY <1>3, <1>4, WhoStops DEF StopParents, InStage
  <1> QED BY <1>1, <1>2, <1>5 DEF LInv

LEMMA StopClearsKeeps == ASSUME LInv, NEW a \in Scripts, StopClears(a) PROVE LInv'
  <1>1. LiveTypeOK'
    BY DEF LInv, LiveTypeOK, StopClears, Working, Scripts
  <1>2. StopsBelong'
    BY DEF LInv, LiveTypeOK, StopsBelong, StopClears, Working, Scripts
  <1>3. ASSUME ~overlap', a \in Calls, Stopping(a) PROVE Stopping(a)'
    <2>1. AllDead
      BY <1>3 DEF Stopping, UpOrDead, StopClears, AllDead
    <2> QED BY <1>3, <2>1 DEF LInv, LiveTypeOK, StopClears, Working, Stopping, NoPids, UpOrDead, AllDead, Scripts
  <1>4. ASSUME ~overlap', a \in Runs, phase[a] = "begun", NEW q \in Qualities, Running(a, q)
        PROVE  Running(a, q)'
    BY <1>4 DEF LInv, LiveTypeOK, StopClears, Running, Progress, NoPids, Working, Scripts
  <1>5. ~overlap' => InStage'
    BY <1>3, <1>4, WhoStops DEF StopClears, InStage
  <1> QED BY <1>1, <1>2, <1>5 DEF LInv

\* What a call finds that begins alone.
LEMMA AloneFacts ==
  ASSUME LInv, NEW h \in Calls, call[h] = "idle", Alone(h)
  PROVE  /\ \A g \in Calls : call[g] = "idle"
         /\ UpOrDead = Runs
         /\ \A a \in Scripts : stopAt[a] = "off" /\ victims[a] = {}
  BY DEF LInv, StopsBelong, Alone, UpOrDead, Scripts

LEMMA StartReusedKeeps ==
  ASSUME LInv, NEW h \in Calls, NEW q \in Qualities, StartReused(h, q) PROVE LInv'
  <1>1. LiveTypeOK'
    BY DEF LInv, LiveTypeOK, StartReused, pipes, Working, Alone
  <1>2. StopsBelong'
    BY DEF LInv, LiveTypeOK, StopsBelong, StartReused, pipes, Working
  <1>3. ASSUME ~overlap' PROVE InStage'
    <2>1. ~overlap /\ \A g \in Calls : call[g] = "idle"
      BY <1>1, <1>3, AloneFacts DEF LInv, LiveTypeOK, StartReused
    <2>2. PICK r \in Runs, q0 \in Qualities : Running(r, q0)
      BY <2>1 DEF LInv, InStage, Off, Stopping, StartReused, Reusable
    <2>3. q = q0
      BY <2>1, <2>2 DEF Running, StartReused, Reusable
    <2>4. \A g \in Calls : call'[g] = "idle" \/ (call'[g] = "reuse" /\ wanted'[g] = q)
      BY <2>1 DEF LInv, LiveTypeOK, StartReused
    <2>5. call'[h] = "reuse"
      BY DEF LInv, LiveTypeOK, StartReused
    <2>6. Running(r, q)'
      BY <2>2, <2>3, <2>4, <2>5 DEF StartReused, pipes, Running, Progress, NoPids, Working
    <2> QED BY <2>6 DEF InStage
  <1> QED BY <1>1, <1>2, <1>3 DEF LInv

\* A stop that begins, of a start or of a stop.
LEMMA StopBegins ==
  ASSUME LInv, NEW h \in Calls, NEW next \in {"start", "stop"}, RunStop(h, next),
         UNCHANGED <<control, pipes, victims, phase, quality, failed>>,
         wanted' \in [Calls -> Qualities \cup {NoQuality}],
         \A g \in Calls \ {h} : wanted'[g] = wanted[g],
         next = "start" => wanted'[h] \in Qualities
  PROVE  LInv'
  <1>1. LiveTypeOK'
    BY DEF LInv, LiveTypeOK, RunStop, pipes, Working, Alone
  <1>2. StopsBelong'
    BY LiveAssumption DEF LInv, LiveTypeOK, StopsBelong, RunStop, pipes, Working, Scripts
  <1>3. ASSUME ~overlap' PROVE Stopping(h)'
    <2>1. (\A g \in Calls : call[g] = "idle") /\ UpOrDead = Runs
      BY <1>3, AloneFacts DEF RunStop
    <2> QED BY <2>1 DEF LInv, LiveTypeOK, RunStop, Stopping, UpOrDead
  <1> QED BY <1>1, <1>2, <1>3 DEF LInv, InStage

LEMMA StartAnewKeeps ==
  ASSUME LInv, NEW h \in Calls, NEW q \in Qualities, StartAnew(h, q) PROVE LInv'
  <1>1. /\ wanted' \in [Calls -> Qualities \cup {NoQuality}] /\ wanted'[h] \in Qualities
        /\ \A g \in Calls \ {h} : wanted'[g] = wanted[g]
    BY DEF LInv, LiveTypeOK, StartAnew
  <1> QED BY <1>1, StopBegins DEF StartAnew

LEMMA StopLiveKeeps == ASSUME LInv, NEW h \in Calls, StopLive(h) PROVE LInv'
  <1>1. wanted' = wanted /\ wanted \in [Calls -> Qualities \cup {NoQuality}]
    BY DEF LInv, LiveTypeOK, StopLive
  <1> QED BY <1>1, StopBegins DEF StopLive

LEMMA SpawnKeeps ==
  ASSUME LInv, NEW h \in Calls, NEW r \in Runs, Spawn(h, r) PROVE LInv'
  <1>1. wanted[h] \in Qualities
    BY DEF LInv, StopsBelong, Spawn
  <1>2. LiveTypeOK'
    BY <1>1 DEF LInv, LiveTypeOK, Spawn, Others, Working
  <1>3. r \notin Working /\ \A a \in Scripts : r \notin victims[a]
    BY DEF LInv, LiveTypeOK, Spawn, Spare, Scripts
  <1>4. StopsBelong'
    BY <1>1, <1>3, LiveAssumption DEF LInv, LiveTypeOK, StopsBelong, Spawn, Spare, Working, Scripts
  <1>5. ASSUME ~overlap' PROVE Running(r, wanted[h])'
    <2>1. Stopping(h)
      <3>1. ~Off /\ \A s \in Runs, q \in Qualities : ~Running(s, q)
        BY DEF Spawn, Off, Running
      <3>2. PICK g \in Calls : Stopping(g)
        BY <1>5, <3>1 DEF LInv, InStage, Spawn
      <3>3. g = h
        BY <3>2 DEF Stopping, Spawn
      <3> QED BY <3>2, <3>3
    <2>2. /\ Working = {} /\ NoPids /\ AllDead
          /\ \A g \in Calls \ {h} : call[g] = "idle"
      BY <2>1 DEF Stopping, Spawn
    <2>3. \A a \in Scripts : stopAt[a] = "off" /\ victims[a] = {}
      BY <2>2 DEF LInv, StopsBelong, Spawn, AllDead, Scripts
    <2>4. /\ phase'[r] = "begun" /\ \A s \in Runs \ {r} : phase'[s] = "dead"
          /\ quality'[r] = wanted[h] /\ wanted' = wanted
          /\ call'[h] = "reuse" /\ \A g \in Calls \ {h} : call'[g] = "idle"
      BY <2>2 DEF LInv, LiveTypeOK, Spawn, AllDead
    <2>5. Working' = {} /\ NoPids'
      BY <2>2 DEF Spawn, Others, Working, NoPids
    <2>6. Progress(r)'
      BY <2>4, <2>5 DEF Progress
    <2> QED BY <2>3, <2>4, <2>5, <2>6 DEF Running, Spawn
  <1>6. ~overlap' => InStage'
    BY <1>1, <1>5 DEF InStage, Spawn
  <1> QED BY <1>2, <1>4, <1>6 DEF LInv

LEMMA SaveStartedKeeps == ASSUME LInv, NEW h \in Calls, SaveStarted(h) PROVE LInv'
  <1>1. wanted[h] \in Qualities
    BY DEF LInv, StopsBelong, SaveStarted
  <1>2. LiveTypeOK'
    BY <1>1 DEF LInv, LiveTypeOK, SaveStarted, pipes, Working
  <1>3. StopsBelong'
    BY DEF LInv, LiveTypeOK, StopsBelong, SaveStarted, pipes, Working
  <1>4. ASSUME ~overlap' PROVE InStage'
    <2>1. PICK r \in Runs, q \in Qualities : Running(r, q)
      BY <1>4 DEF LInv, InStage, Off, Stopping, SaveStarted
    <2>2. wanted[h] = q
      BY <2>1 DEF Running, SaveStarted
    <2>3. control' = [active |-> TRUE, quality |-> q]
          /\ \A g \in Calls : call'[g] = "idle" \/ (call'[g] = "reuse" /\ wanted'[g] = q)
      BY <2>1, <2>2 DEF LInv, LiveTypeOK, SaveStarted, Running
    <2>4. Running(r, q)'
      BY <2>1, <2>3 DEF SaveStarted, pipes, Running, Progress, NoPids, Working
    <2> QED BY <2>4 DEF InStage
  <1> QED BY <1>2, <1>3, <1>4 DEF LInv

LEMMA SaveStoppedKeeps == ASSUME LInv, NEW h \in Calls, SaveStopped(h) PROVE LInv'
  <1>1. LiveTypeOK'
    BY DEF LInv, LiveTypeOK, SaveStopped, pipes, Working
  <1>2. StopsBelong'
    BY DEF LInv, LiveTypeOK, StopsBelong, SaveStopped, pipes, Working
  <1>3. ASSUME ~overlap' PROVE Off'
    <2>1. PICK g \in Calls : Stopping(g)
      BY <1>3 DEF LInv, InStage, Off, Running, SaveStopped
    <2>2. g = h
      BY <2>1 DEF Stopping, SaveStopped
    <2> QED
      BY <2>1, <2>2 DEF LInv, LiveTypeOK, SaveStopped, pipes, Stopping, Off, NoPids, AllDead, Working
  <1> QED BY <1>1, <1>2, <1>3 DEF LInv, InStage

\* A run that is starting is the only one.
LEMMA OnlyOneStarts ==
  ASSUME LInv, ~overlap, NEW r \in Runs, phase[r] \notin {"dead", "up"}
  PROVE  \E q \in Qualities : Running(r, q)
  BY DEF LInv, InStage, Off, AllDead, Stopping, UpOrDead, Running

LEMMA RunPreparesKeeps == ASSUME LInv, NEW r \in Runs, RunPrepares(r) PROVE LInv'
  <1>1. LiveTypeOK'
    BY DEF LInv, LiveTypeOK, RunPrepares, EndByPid, Go, Working
  <1>2. StopsBelong'
    BY DEF LInv, LiveTypeOK, StopsBelong, RunPrepares, EndByPid, Go, Working
  <1>3. ASSUME ~overlap', NEW q \in Qualities, Running(r, q) PROVE Running(r, q)'
    BY <1>3 DEF LInv, LiveTypeOK, RunPrepares, EndByPid, Go, Running, Progress, NoPids, Working
  <1>4. ~overlap' => InStage'
    BY <1>3, OnlyOneStarts DEF RunPrepares, InStage
  <1> QED BY <1>1, <1>2, <1>4 DEF LInv

LEMMA RunEncodesKeeps == ASSUME LInv, NEW r \in Runs, RunEncodes(r) PROVE LInv'
  <1>1. LiveTypeOK'
    BY DEF LInv, LiveTypeOK, RunEncodes, Go, Working
  <1>2. StopsBelong'
    BY DEF LInv, LiveTypeOK, StopsBelong, RunEncodes, Go, Working
  <1>3. ASSUME ~overlap', NEW q \in Qualities, Running(r, q) PROVE Running(r, q)'
    BY <1>3 DEF LInv, LiveTypeOK, RunEncodes, Go, Running, Progress, NoPids, Working
  <1>4. ~overlap' => InStage'
    BY <1>3, OnlyOneStarts DEF RunEncodes, InStage
  <1> QED BY <1>1, <1>2, <1>4 DEF LInv

LEMMA RunBridgesKeeps == ASSUME LInv, NEW r \in Runs, RunBridges(r) PROVE LInv'
  <1>1. LiveTypeOK'
    BY DEF LInv, LiveTypeOK, RunBridges, Go, Working
  <1>2. StopsBelong'
    BY DEF LInv, LiveTypeOK, StopsBelong, RunBridges, Go, Working
  <1>3. ASSUME ~overlap', NEW q \in Qualities, Running(r, q) PROVE Running(r, q)'
    BY <1>3 DEF LInv, LiveTypeOK, RunBridges, Go, Running, Progress, NoPids, Working
  <1>4. ~overlap' => InStage'
    BY <1>3, OnlyOneStarts DEF RunBridges, InStage
  <1> QED BY <1>1, <1>2, <1>4 DEF LInv

LEMMA RunFailsKeeps == ASSUME LInv, NEW r \in Runs, RunFails(r) PROVE LInv'
  <1>1. LiveTypeOK'
    BY DEF LInv, LiveTypeOK, RunFails, pipes, Go, Working
  <1>2. StopsBelong'
    BY DEF LInv, LiveTypeOK, StopsBelong, RunFails, pipes, Go, Working, Scripts
  <1>3. ASSUME ~overlap', NEW q \in Qualities, Running(r, q) PROVE Running(r, q)'
    BY <1>3 DEF LInv, LiveTypeOK, RunFails, pipes, Go, Running, Progress, NoPids, Working
  <1>4. ~overlap' => InStage'
    BY <1>3, OnlyOneStarts DEF RunFails, InStage
  <1> QED BY <1>1, <1>2, <1>4 DEF LInv

LEMMA RunTrapsKeeps == ASSUME LInv, NEW r \in Runs, RunTraps(r) PROVE LInv'
  <1>1. LiveTypeOK'
    BY DEF LInv, LiveTypeOK, RunTraps, EndByPid, Working
  <1>2. StopsBelong'
    BY DEF LInv, LiveTypeOK, StopsBelong, RunTraps, EndByPid, Working
  <1>3. ASSUME ~overlap' PROVE InStage'
    <2>1. PICK h \in Calls : Stopping(h)
      BY <1>3 DEF LInv, LiveTypeOK, RunTraps, InStage, Off, AllDead, Running, Scripts
    <2>2. Stopping(h)'
      BY <2>1 DEF LInv, LiveTypeOK, RunTraps, EndByPid, Stopping, NoPids, UpOrDead, AllDead, Working
    <2> QED BY <2>2 DEF InStage
  <1> QED BY <1>1, <1>2, <1>3 DEF LInv

LEMMA RunExitsKeeps == ASSUME LInv, NEW r \in Runs, RunExits(r) PROVE LInv'
  <1>1. LiveTypeOK'
    BY DEF LInv, LiveTypeOK, RunExits, EndByPid, Go, Working
  <1>2. StopsBelong'
    BY DEF LInv, LiveTypeOK, StopsBelong, RunExits, EndByPid, Go, Working
  <1>3. ASSUME ~overlap' PROVE InStage'
    <2>1. ~Off
      BY DEF Off, AllDead, RunExits
    <2>2. ASSUME NEW h \in Calls, Stopping(h) PROVE Stopping(h)'
      BY <2>2 DEF LInv, LiveTypeOK, RunExits, EndByPid, Go, Stopping, NoPids, UpOrDead, AllDead, Working
    <2>3. ASSUME NEW s \in Runs, NEW q \in Qualities, Running(s, q) PROVE Running(s, q)'
      <3>1. s = r
        BY <2>3 DEF Running, RunExits
      <3>2. failed /\ Working = {}
        BY <2>3, <3>1 DEF LInv, LiveTypeOK, Running, Progress, RunExits, Working
      <3>3. phase' = [phase EXCEPT ![r] = "dead"] /\ Working' = {} /\ NoPids'
        BY <3>2 DEF RunExits, Go, EndByPid, Working, NoPids
      <3>4. Progress(r)'
        BY <3>2, <3>3 DEF LInv, LiveTypeOK, RunExits, Progress
      <3> QED BY <2>3, <3>1, <3>3, <3>4 DEF LInv, LiveTypeOK, RunExits, Running
    <2> QED BY <1>3, <2>1, <2>2, <2>3 DEF LInv, InStage, RunExits
  <1> QED BY <1>1, <1>2, <1>3 DEF LInv

LEMMA ProcessFailsKeeps == ASSUME LInv, NEW r \in Runs, ProcessFails(r) PROVE LInv'
  <1>1. LiveTypeOK'
    BY DEF LInv, LiveTypeOK, ProcessFails, Working
  <1>2. StopsBelong'
    BY DEF LInv, LiveTypeOK, StopsBelong, ProcessFails, Working
  <1>3. ASSUME ~overlap' PROVE InStage'
    <2>1. ~Off
      BY DEF Off, ProcessFails
    <2>2. ASSUME NEW h \in Calls, Stopping(h) PROVE Stopping(h)'
      BY <2>2 DEF LInv, LiveTypeOK, ProcessFails, Stopping, NoPids, UpOrDead, AllDead, Working
    <2>3. ASSUME NEW s \in Runs, NEW q \in Qualities, Running(s, q) PROVE Running(s, q)'
      <3>1. Working' \subseteq Working /\ failed' /\ (bridges = {} => bridges' = {})
        BY DEF ProcessFails, Working
      <3>2. Working # {}
        BY DEF ProcessFails
      <3>3. Progress(s)'
        BY <2>3, <3>1, <3>2 DEF Running, Progress, ProcessFails, NoPids
      <3> QED BY <2>3, <3>1, <3>3 DEF ProcessFails, Running
    <2> QED BY <1>3, <2>1, <2>2, <2>3 DEF LInv, InStage, ProcessFails
  <1> QED BY <1>1, <1>2, <1>3 DEF LInv

-----------------------------------------------------------------------------
(***************************************************************************)
(* The theorems.                                                           *)
(***************************************************************************)
LEMMA InitEstablishes == LiveInit => LInv
  <1> SUFFICES ASSUME LiveInit PROVE LInv
    OBVIOUS
  <1>1. LiveTypeOK
    BY DEF LiveInit, LiveTypeOK, Working
  <1>2. StopsBelong
    BY DEF LiveInit, StopsBelong, Scripts
  <1>3. Off
    BY DEF LiveInit, Off, NoPids, AllDead, Working
  <1> QED BY <1>1, <1>2, <1>3 DEF LInv, InStage

LEMMA StepsKeep == LInv /\ [LiveNext]_liveVars => LInv'
  <1> SUFFICES ASSUME LInv, [LiveNext]_liveVars PROVE LInv'
    OBVIOUS
  <1>1. ASSUME NEW a \in Calls \cup Runs,
               StopByPid(a) \/ StopMatching(a) \/ StopParents(a) \/ StopClears(a)
        PROVE  LInv'
    BY <1>1, StopByPidKeeps, StopMatchingKeeps, StopParentsKeeps, StopClearsKeeps DEF Scripts
  <1>2. ASSUME NEW h \in Calls,
               \/ \E q \in Qualities : StartReused(h, q) \/ StartAnew(h, q)
               \/ \E r \in Runs : Spawn(h, r)
               \/ StopLive(h) \/ SaveStarted(h) \/ SaveStopped(h)
        PROVE  LInv'
    BY <1>2, StartReusedKeeps, StartAnewKeeps, SpawnKeeps, StopLiveKeeps, SaveStartedKeeps,
       SaveStoppedKeeps
  <1>3. ASSUME NEW r \in Runs,
               \/ RunPrepares(r) \/ RunEncodes(r) \/ RunBridges(r)
               \/ RunTraps(r) \/ RunExits(r) \/ RunFails(r) \/ ProcessFails(r)
        PROVE  LInv'
    BY <1>3, RunPreparesKeeps, RunEncodesKeeps, RunBridgesKeeps, RunTrapsKeeps, RunExitsKeeps,
       RunFailsKeeps, ProcessFailsKeeps
  <1>4. CASE UNCHANGED liveVars
    <2>1. LiveTypeOK' /\ StopsBelong'
      BY <1>4 DEF liveVars, pipes, LInv, LiveTypeOK, StopsBelong, Working
    <2>2. InStage => InStage'
      BY <1>4 DEF liveVars, pipes, InStage, Off, Stopping, Running, Progress, NoPids, AllDead,
                  UpOrDead, Working
    <2> QED BY <1>4, <2>1, <2>2 DEF liveVars, LInv
  <1> QED BY <1>1, <1>2, <1>3, <1>4 DEF LiveNext

LEMMA Invariance == LiveSpec => []LInv
  BY InitEstablishes, StepsKeep, PTL DEF LiveSpec

\* The control file, the pid files, the calls and the scripts keep to their types.
THEOREM PipelineIsTyped == LiveSpec => []LiveTypeOK
  <1>1. LInv => LiveTypeOK
    BY DEF LInv
  <1> QED BY <1>1, Invariance, PTL

\* Once a stop has run alone, and until calls overlap again, the control file says
\* what runs, whatever orphans earlier overlaps have left and whatever fails.
THEOREM ControlFileAgrees == LiveSpec => []ControlAgrees
  BY StagesAgree, Invariance, PTL

=============================================================================
