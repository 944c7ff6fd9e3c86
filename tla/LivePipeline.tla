---------------------------- MODULE LivePipeline ----------------------------
(***************************************************************************)
(* The live pipeline of one camera (app/cloud_platform/live_runtime.py and *)
(* scripts/run_live_hls.sh, scripts/stop_live_hls.sh).  A start spawns the *)
(* run script, which starts an encoder (ffmpeg) and a bridge to the        *)
(* station and waits for both.  What should run is in control.json, what   *)
(* does is in two pid files; nothing locks either.                         *)
(*                                                                         *)
(* A call is a handler's thread.  A handler wakes the camera first and     *)
(* gives up when that fails: it has changed nothing yet, so a call here    *)
(* begins after that.  The stop script is run by handlers and by the run   *)
(* script itself; one of its steps is one here, and so is one step of the  *)
(* run script.  Its signals end encoders and bridges at once, and a run    *)
(* whose two processes have ended is gone before the seconds the stop      *)
(* script sleeps are over.  Stations, audio and the FIFOs are left out.    *)
(***************************************************************************)
EXTENDS FiniteSets, Functions

CONSTANTS
  Calls,      \* handlers' threads
  Runs,       \* instances of the run script, used again when they are dead
  Qualities,  \* LIVE_QUALITY_PRESETS
  NoRun,      \* no pid file
  NoQuality

ASSUME LiveAssumption ==
  Calls \cap Runs = {} /\ NoRun \notin Runs /\ NoQuality \notin Qualities

VARIABLES
  control,    \* control.json: active and quality
  encoderPid, \* ffmpeg.pid, as the run whose encoder it names
  bridgePid,  \* bridge.pid
  hls,        \* the directory of the segments is there
  call,       \* of each call: where it is
  wanted,     \* of each call: the quality it asks for
  stopAt,     \* of each call and run: where its stop script is
  victims,    \* the runs that script has sent TERM to as parents
  phase,      \* of each run: where its script is
  encodes,    \* runs with a living encoder
  bridges,    \* runs with a living bridge
  quality,    \* of each run, the one it was started for (not the camera's own)
  overlap,    \* calls or starting runs have overlapped since the last stop that ran alone
  failed      \* a process or a run script failed by itself since the last start

pipes == <<encoderPid, bridgePid, hls, encodes, bridges>>
liveVars == <<control, pipes, call, wanted, stopAt, victims, phase, quality, overlap, failed>>

Working == encodes \cup bridges
UpOrDead == {r \in Runs : phase[r] \in {"dead", "up"}}

\* No call but h is under way, and no run is starting.
Alone(h) == (\A g \in Calls \ {h} : call[g] = "idle") /\ UpOrDead = Runs

-----------------------------------------------------------------------------
(***************************************************************************)
(* The stop script, run by a.                                              *)
(***************************************************************************)
\* Ends the processes that the pid files name and removes the files.
EndByPid ==
  /\ encodes' = encodes \ {encoderPid}
  /\ bridges' = bridges \ {bridgePid}
  /\ encoderPid' = NoRun /\ bridgePid' = NoRun

StopByPid(a) ==
  /\ stopAt[a] = "pids"
  /\ EndByPid
  /\ stopAt' = [stopAt EXCEPT ![a] = "match"]
  /\ UNCHANGED <<control, hls, call, wanted, victims, phase, quality, overlap, failed>>

\* Encoders and bridges have the FIFO on their command line.
Matched == [encoders |-> encodes, bridges |-> bridges]

\* kill_matching: what matches ends, and the scripts that are its parents get TERM.
StopMatching(a) ==
  /\ stopAt[a] = "match"
  /\ encodes' = encodes \ Matched.encoders
  /\ bridges' = bridges \ Matched.bridges
  /\ victims' = [victims EXCEPT
       ![a] = {r \in Matched.encoders \cup Matched.bridges : phase[r] # "dead"}]
  /\ stopAt' = [stopAt EXCEPT ![a] = "kill"]
  /\ UNCHANGED <<control, encoderPid, bridgePid, hls, call, wanted, phase, quality, overlap, failed>>

StopParents(a) ==
  /\ stopAt[a] = "kill"
  /\ phase' = [r \in Runs |-> IF r \in victims[a] THEN "dead" ELSE phase[r]]
  /\ stopAt' = [stopAt EXCEPT ![a] = "clear"]
  /\ victims' = [victims EXCEPT ![a] = {}]
  /\ UNCHANGED <<control, pipes, call, wanted, quality, overlap, failed>>

StopClears(a) ==
  /\ stopAt[a] = "clear"
  /\ \A r \in Runs : phase[r] = "up" => r \in Working
  /\ hls' = FALSE
  /\ stopAt' = [stopAt EXCEPT ![a] = "off"]
  /\ UNCHANGED <<control, encoderPid, bridgePid, call, wanted, victims, phase, encodes, bridges,
                 quality, overlap, failed>>

-----------------------------------------------------------------------------
(***************************************************************************)
(* The handlers.                                                           *)
(***************************************************************************)
\* Mutant of Reusable: a pipeline of any quality goes on.
AnyQuality(q) == control.active /\ encoderPid \in encodes /\ bridgePid \in bridges

\* _live_pipeline_running, and what _spawn_live_pipeline asks besides.
Reusable(q) ==
  /\ control.active /\ control.quality = q
  /\ encoderPid \in encodes /\ bridgePid \in bridges

\* _spawn_live_pipeline, when the pipeline runs as asked.
StartReused(h, q) ==
  /\ call[h] = "idle" /\ Reusable(q)
  /\ call' = [call EXCEPT ![h] = "reuse"]
  /\ wanted' = [wanted EXCEPT ![h] = q]
  /\ overlap' = (overlap \/ ~Alone(h))
  /\ UNCHANGED <<control, pipes, stopAt, victims, phase, quality, failed>>

\* Either way a stop script runs first.
RunStop(h, next) ==
  /\ call[h] = "idle"
  /\ call' = [call EXCEPT ![h] = next]
  /\ stopAt' = [stopAt EXCEPT ![h] = "pids"]
  /\ overlap' = ~Alone(h)

StartAnew(h, q) ==
  /\ ~Reusable(q)
  /\ RunStop(h, "start")
  /\ wanted' = [wanted EXCEPT ![h] = q]
  /\ UNCHANGED <<control, pipes, victims, phase, quality, failed>>

StopLive(h) ==
  /\ RunStop(h, "stop")
  /\ UNCHANGED <<control, pipes, wanted, victims, phase, quality, failed>>

\* A run that is dead and of which nothing is left.
Spare(r) ==
  /\ phase[r] = "dead" /\ r \notin Working
  /\ \A a \in DOMAIN victims : r \notin victims[a]

\* A pid file that still names a process of the dead run r names none of the new one.
Others(pid, r) == IF pid = r THEN NoRun ELSE pid

Spawn(h, r) ==
  /\ call[h] = "start" /\ stopAt[h] = "off" /\ Spare(r)
  /\ phase' = [phase EXCEPT ![r] = "begun"]
  /\ quality' = [quality EXCEPT ![r] = wanted[h]]
  /\ stopAt' = [stopAt EXCEPT ![r] = "pids"]
  /\ call' = [call EXCEPT ![h] = "reuse"]
  /\ failed' = FALSE
  /\ encoderPid' = Others(encoderPid, r) /\ bridgePid' = Others(bridgePid, r)
  /\ UNCHANGED <<control, hls, encodes, bridges, wanted, victims, overlap>>

\* _save_live_control, at the end of a start and of a stop.
SaveStarted(h) ==
  /\ call[h] = "reuse"
  /\ control' = [active |-> TRUE, quality |-> wanted[h]]
  /\ call' = [call EXCEPT ![h] = "idle"] /\ wanted' = [wanted EXCEPT ![h] = NoQuality]
  /\ UNCHANGED <<pipes, stopAt, victims, phase, quality, overlap, failed>>

SaveStopped(h) ==
  /\ call[h] = "stop" /\ stopAt[h] = "off"
  /\ control' = [control EXCEPT !.active = FALSE]
  /\ call' = [call EXCEPT ![h] = "idle"]
  /\ UNCHANGED <<pipes, wanted, stopAt, victims, phase, quality, overlap, failed>>

-----------------------------------------------------------------------------
(***************************************************************************)
(* The run script.                                                         *)
(***************************************************************************)
Go(r, p) == phase' = [phase EXCEPT ![r] = p]

\* stop_existing, and a new directory.
RunPrepares(r) ==
  /\ phase[r] = "begun" /\ stopAt[r] = "off"
  /\ EndByPid
  /\ hls' = TRUE
  /\ Go(r, "ready")
  /\ UNCHANGED <<control, call, wanted, stopAt, victims, quality, overlap, failed>>

\* An encoder without the directory ends at once.
RunEncodes(r) ==
  /\ phase[r] = "ready"
  /\ encodes' = IF hls THEN encodes \cup {r} ELSE encodes
  /\ encoderPid' = r
  /\ Go(r, "encodes")
  /\ UNCHANGED <<control, bridgePid, hls, bridges, call, wanted, stopAt, victims, quality, overlap, failed>>

RunBridges(r) ==
  /\ phase[r] = "encodes"
  /\ bridges' = bridges \cup {r}
  /\ bridgePid' = r
  /\ Go(r, "up")
  /\ UNCHANGED <<control, encoderPid, hls, encodes, call, wanted, stopAt, victims, quality, overlap, failed>>

\* The trap of TERM cleans up, and the script goes on until it is killed.
RunTraps(r) ==
  /\ \E a \in DOMAIN victims : r \in victims[a]
  /\ phase[r] # "dead"
  /\ EndByPid
  /\ UNCHANGED <<control, hls, call, wanted, stopAt, victims, phase, quality, overlap, failed>>

\* Both processes have ended; the trap of EXIT cleans up.
RunExits(r) ==
  /\ phase[r] = "up" /\ r \notin Working
  /\ EndByPid
  /\ Go(r, "dead")
  /\ UNCHANGED <<control, hls, call, wanted, stopAt, victims, quality, overlap, failed>>

\* A program is missing, or the store cannot be read.
RunFails(r) ==
  /\ phase[r] = "begun" /\ stopAt[r] = "pids"
  /\ Go(r, "dead")
  /\ stopAt' = [stopAt EXCEPT ![r] = "off"]
  /\ failed' = TRUE
  /\ UNCHANGED <<control, pipes, call, wanted, victims, quality, overlap>>

\* An encoder or a bridge ends by itself.
ProcessFails(r) ==
  /\ r \in Working
  /\ \/ encodes' = encodes \ {r} /\ UNCHANGED bridges
     \/ bridges' = bridges \ {r} /\ UNCHANGED encodes
  /\ failed' = TRUE
  /\ UNCHANGED <<control, encoderPid, bridgePid, hls, call, wanted, stopAt, victims, phase, quality, overlap>>

-----------------------------------------------------------------------------
LiveInit ==
  /\ control \in [active : {FALSE}, quality : Qualities]
  /\ encoderPid = NoRun /\ bridgePid = NoRun /\ hls = FALSE
  /\ call = [h \in Calls |-> "idle"] /\ wanted = [h \in Calls |-> NoQuality]
  /\ stopAt = [a \in Calls \cup Runs |-> "off"] /\ victims = [a \in Calls \cup Runs |-> {}]
  /\ phase = [r \in Runs |-> "dead"] /\ encodes = {} /\ bridges = {}
  /\ quality \in [Runs -> {control.quality}]
  /\ overlap = FALSE /\ failed = FALSE

LiveNext ==
  \/ \E a \in Calls \cup Runs :
       StopByPid(a) \/ StopMatching(a) \/ StopParents(a) \/ StopClears(a)
  \/ \E h \in Calls :
       \/ \E q \in Qualities : StartReused(h, q) \/ StartAnew(h, q)
       \/ \E r \in Runs : Spawn(h, r)
       \/ StopLive(h) \/ SaveStarted(h) \/ SaveStopped(h)
  \/ \E r \in Runs :
       \/ RunPrepares(r) \/ RunEncodes(r) \/ RunBridges(r)
       \/ RunTraps(r) \/ RunExits(r) \/ RunFails(r) \/ ProcessFails(r)

LiveSpec == LiveInit /\ [][LiveNext]_liveVars

-----------------------------------------------------------------------------
\* The type invariant.
LiveTypeOK ==
  /\ control \in [active : BOOLEAN, quality : Qualities]
  /\ {encoderPid, bridgePid} \subseteq Runs \cup {NoRun}
  /\ {hls, overlap, failed} \subseteq BOOLEAN
  /\ call \in [Calls -> {"idle", "reuse", "start", "stop"}] /\ wanted \in [Calls -> Qualities \cup {NoQuality}]
  /\ stopAt \in [Calls \cup Runs -> {"off", "pids", "match", "kill", "clear"}]
  /\ victims \in [Calls \cup Runs -> SUBSET Runs]
  /\ phase \in [Runs -> {"dead", "begun", "ready", "encodes", "up"}]
  /\ Working \subseteq Runs /\ quality \in [Runs -> Qualities]

\* When every call has returned and every run has come up or died, the control file
\* says what runs: inactive, nothing; active, one run of the recorded quality, named
\* by both pid files, which streams unless something failed by itself.  This is so
\* after any stop that ran alone, whatever orphans earlier overlaps have left, and
\* until calls overlap again; that they do not is not seen to
\* (app/cloud_platform/live_runtime.py:217, :299).
ControlAgrees ==
  (\A h \in Calls : call[h] = "idle") /\ UpOrDead = Runs /\ ~overlap
  /\ (\A r \in Runs : phase[r] = "up" => r \in Working) =>
    /\ ~control.active => Working = {}
    /\ Cardinality(Working) <= 1
    /\ \A r \in Working : quality[r] = control.quality /\ hls
    /\ encodes \subseteq {encoderPid} /\ bridges \subseteq {bridgePid}
    /\ control.active /\ ~failed => encodes # {} /\ bridges # {}

=============================================================================
