---------------------------- MODULE CameraPairing ----------------------------
(***************************************************************************)
(* Pairing a camera with a base station: the slot table, the pairing       *)
(* sessions, the camera records and their tombstones, under the handlers   *)
(* of app/api/device.py.  A handler is a sequence of store calls, each     *)
(* under the store's lock; a worker's `job' holds what its handler carries *)
(* from one call to the next, so other requests come in between.  Removing *)
(* a camera or a station and a station's report are single calls.          *)
(***************************************************************************)
EXTENDS Integers, FiniteSetsExt

CONSTANTS
  Cameras,
  Stations,
  Workers,
  SlotCount,        \* 4 in reserve_pairing_slot
  Channels,         \* the channels a record or a slot row may have
  AskedStations,    \* the stations a scan may name
  AskedChannels,    \* the channels a scan may ask for
  ReportedChannels, \* the channels a station's report may name
  MacReporters,     \* the cameras whose requests carry their MAC address
  DefaultCamera, DefaultStation,
  NoCamera, NoMac, NoSlot, Idle

CameraRecords == [station : Stations, channel : Channels, pending : BOOLEAN]
SlotRows == [cam : Cameras, mac : Cameras \cup {NoMac}, active : BOOLEAN, pending : BOOLEAN]

ASSUME PairingAssumption ==
  /\ SlotCount \in Nat \ {0}
  /\ 0 .. SlotCount - 1 \subseteq Channels /\ Channels \subseteq Nat
  /\ AskedStations \subseteq Stations /\ AskedChannels \subseteq Channels
  /\ ReportedChannels \subseteq Channels
  /\ MacReporters \subseteq Cameras
  /\ DefaultCamera \in Cameras /\ DefaultStation \in Stations
  /\ NoCamera \notin CameraRecords /\ NoSlot \notin SlotRows
  /\ NoMac \notin Cameras

VARIABLES
  stations,         \* keys of kv_state.stations
  cameras,          \* kv_state.cameras: station, channel, pending
  cameraTombstones, \* kv_state.cameraTombstones
  slots,            \* pairing_slots, by station and index
  sessions,         \* pairing_sessions: asked is the channel in session_id
  job               \* what each worker's handler still has to do

vars == <<stations, cameras, cameraTombstones, slots, sessions, job>>

Sessions == [station : Stations, cam : Cameras, asked : Channels, channel : Channels]
Stages == {"reserve", "ensure", "settings", "recover", "rejoin", "activate", "session"}
\* The session id names the record's channel unless it was fixed before.
Derived == -1
\* rec is the camera record the handler has in hand, or NoCamera.
Jobs == [at : Stages, cam : Cameras, rec : CameraRecords \cup {NoCamera},
         asked : Channels \cup {Derived}]

Recorded == {c \in Cameras : cameras[c] # NoCamera}
Mac(c) == IF c \in MacReporters THEN c ELSE NoMac
Held(sl, s) == {i \in Channels : sl[s][i] # NoSlot}

\* Mutant of SlotsOf: slots are not told apart by camera.
EverySlotOf(sl, s, c) == Held(sl, s)

SlotsOf(sl, s, c) == {i \in Held(sl, s) : sl[s][i].cam = c}

(***************************************************************************)
(* Every load deletes the slots and sessions of a station the kv state     *)
(* does not hold; every save does so for the state it saves.               *)
(***************************************************************************)
KeptSlots(st, sl) == [s \in Stations |-> IF s \in st THEN sl[s] ELSE [i \in Channels |-> NoSlot]]
KeptSessions(st, se) == {x \in se : x.station \in st}

Save(st, cs, tb, sl, se) ==
  /\ stations' = st
  /\ cameras' = cs
  /\ cameraTombstones' = tb
  /\ slots' = KeptSlots(st, sl)
  /\ sessions' = KeptSessions(st, se)

\* A call that finds nothing to change: its load still prunes.
Load == Save(stations, cameras, cameraTombstones, slots, sessions)

(***************************************************************************)
(* reserve_pairing_slot                                                    *)
(***************************************************************************)
\* Mutant of Free: only activated slots count as taken.
FreeUnlessActive(row) == row = NoSlot \/ ~row.active

Free(row) == row = NoSlot \/ (~row.active /\ ~row.pending)

\* The rows that already stand for the camera, by serial number or MAC.
Matching(sl, s, c) ==
  {i \in Held(sl, s) : sl[s][i].cam = c \/ (Mac(c) # NoMac /\ sl[s][i].mac = Mac(c))}

\* The index granted, as a set: empty is "no free pairing slot".
Granted(sl, s, c, k) ==
  LET free == {i \in 0 .. SlotCount - 1 : Free(sl[s][i])}
  IN  CASE Matching(sl, s, c) # {}              -> {Min(Matching(sl, s, c))}
        [] Matching(sl, s, c) = {} /\ k \in free -> {k}
        [] Matching(sl, s, c) = {} /\ k \notin free /\ free # {} -> {Min(free)}
        [] OTHER -> {}

\* The row written at index i: active survives, and a matched row's MAC.
ReservedRow(sl, s, c, i) ==
  [cam |-> c,
   mac |-> IF Mac(c) = NoMac /\ i \in Matching(sl, s, c) THEN sl[s][i].mac ELSE Mac(c),
   active |-> sl[s][i] # NoSlot /\ sl[s][i].active,
   pending |-> TRUE]

\* Mutant of EffectiveChannel: slots counted from one.
ChannelFromOne(i, k) == i - 1

\* int(slot.get("slotIndex", channel) or channel): index 0 counts as missing.
EffectiveChannel(i, k) == IF i = 0 THEN k ELSE i

\* The call, and the channel the handler goes on with.  The slot row is
\* committed even for a station the kv state does not hold.
Reserve(w, c, s, k) ==
  LET kept == KeptSlots(stations, slots)
  IN  /\ \E i \in Granted(kept, s, c, k) :
           /\ slots' = [kept EXCEPT ![s][i] = ReservedRow(kept, s, c, i)]
           /\ job' = [job EXCEPT ![w] =
                [at |-> "ensure", cam |-> c, asked |-> k,
                 rec |-> [station |-> s, channel |-> EffectiveChannel(i, k), pending |-> TRUE]]]
      /\ sessions' = KeptSessions(stations, sessions)
      /\ UNCHANGED <<stations, cameras, cameraTombstones>>

NoFreeSlot(c, s, k) == Granted(KeptSlots(stations, slots), s, c, k) = {}

(***************************************************************************)
(* The handlers.                                                           *)
(***************************************************************************)

\* camera/check-bind-status-by-iot: reserve, then ensure, then session.
CheckBindByIot(w, c, s, k) == job[w] = Idle /\ Reserve(w, c, s, k)

\* camera/add-blind: after the gate's load, the camera's slot must be there
\* and pending.
AddBlind(w, c, s, k) ==
  LET mine == SlotsOf(KeptSlots(stations, slots), s, c)
      i == IF k \in mine THEN k ELSE Min(mine)
  IN  /\ job[w] = Idle
      /\ mine # {}
      /\ slots[s][i].pending
      /\ job' = [job EXCEPT ![w] =
           [at |-> "reserve", cam |-> c, asked |-> i,
            rec |-> [station |-> s, channel |-> i, pending |-> TRUE]]]
      /\ Load

\* ... and is reserved again.
AddBlindReserve(w) ==
  /\ job[w] # Idle /\ job[w].at = "reserve"
  /\ \/ Reserve(w, job[w].cam, job[w].rec.station, job[w].asked)
     \/ /\ NoFreeSlot(job[w].cam, job[w].rec.station, job[w].asked)
        /\ job' = [job EXCEPT ![w] = Idle]
        /\ Load

\* Mutant of EnsureCamera: the tombstone stays.
EnsureKeepsTombstone(c, rec) ==
  Save(stations \cup {rec.station}, [cameras EXCEPT ![c] = rec], cameraTombstones,
       KeptSlots(stations, slots), KeptSessions(stations, sessions))

\* Mutant of EnsureCamera: the station is not recorded.
EnsureForgetsStation(c, rec) ==
  Save(stations, [cameras EXCEPT ![c] = rec], cameraTombstones \ {c},
       KeptSlots(stations, slots), KeptSessions(stations, sessions))

\* ensure_camera: writes the record, forgets the tombstone, knows the station.
EnsureCamera(c, rec) ==
  Save(stations \cup {rec.station}, [cameras EXCEPT ![c] = rec], cameraTombstones \ {c},
       KeptSlots(stations, slots), KeptSessions(stations, sessions))

Ensure(w) ==
  /\ job[w] # Idle /\ job[w].at = "ensure"
  /\ EnsureCamera(job[w].cam, job[w].rec)
  /\ job' = [job EXCEPT ![w].at = "session"]

\* upsert_pairing_session, which does not load; ends the handler.
UpsertSession(w) ==
  LET j == job[w]
      x == [station |-> j.rec.station, cam |-> j.cam, channel |-> j.rec.channel,
            asked |-> IF j.asked = Derived THEN j.rec.channel ELSE j.asked]
  IN  /\ job[w] # Idle /\ j.at = "session"
      /\ sessions' = {y \in sessions : <<y.station, y.cam, y.asked>> # <<x.station, x.cam, x.asked>>} \cup {x}
      /\ job' = [job EXCEPT ![w] = Idle]
      /\ UNCHANGED <<stations, cameras, cameraTombstones, slots>>

\* camera/set with a name: mark_camera_bound.
CameraSetNamed(w, c) ==
  LET bound == IF c \in Recorded THEN [cameras[c] EXCEPT !.pending = FALSE] ELSE NoCamera
  IN  /\ job[w] = Idle
      /\ job' = [job EXCEPT ![w] = [at |-> "settings", cam |-> c, rec |-> bound, asked |-> Derived]]
      /\ Save(stations, [cameras EXCEPT ![c] = bound], cameraTombstones, slots, sessions)

\* camera/set without a name starts at update_camera_settings.
CameraSetUnnamed(w, c) ==
  /\ job[w] = Idle
  /\ job' = [job EXCEPT ![w] = [at |-> "settings", cam |-> c, rec |-> NoCamera, asked |-> Derived]]
  /\ UNCHANGED <<stations, cameras, cameraTombstones, slots, sessions>>

\* update_camera_settings(...) or camera: the record as it is now, else the
\* one in hand, which may have been removed since.
Settings(w) ==
  LET c == job[w].cam
      rec == IF c \in Recorded THEN cameras[c] ELSE job[w].rec
  IN  /\ job[w] # Idle /\ job[w].at = "settings"
      /\ job' = [job EXCEPT ![w].rec = rec,
                            ![w].at = IF rec = NoCamera THEN "recover" ELSE "activate"]
      /\ Load

\* resolve_pairing_context and the checks on it: a session row or a slot row
\* of the camera, as the request's station and channel hints select one.
Contexts(c) ==
  {[rec |-> [station |-> x.station, channel |-> x.channel, pending |-> FALSE], asked |-> x.asked] :
     x \in {y \in sessions : y.cam = c}}
  \cup
  UNION {{[rec |-> [station |-> s, channel |-> i, pending |-> FALSE], asked |-> k] :
           i \in SlotsOf(slots, s, c), k \in Channels} : s \in Stations}

Recover(w) ==
  /\ job[w] # Idle /\ job[w].at = "recover"
  /\ \/ \E x \in Contexts(job[w].cam) :
          job' = [job EXCEPT ![w].at = "rejoin", ![w].rec = x.rec, ![w].asked = x.asked]
     \/ /\ Contexts(job[w].cam) = {}   \* "Camera pairing session missing"
        /\ job' = [job EXCEPT ![w] = Idle]
  /\ UNCHANGED <<stations, cameras, cameraTombstones, slots, sessions>>

\* ensure_camera(pending=False) of a recovered context; the settings again.
Rejoin(w) ==
  /\ job[w] # Idle /\ job[w].at = "rejoin"
  /\ EnsureCamera(job[w].cam, job[w].rec)
  /\ job' = [job EXCEPT ![w].at = "settings"]

\* activate_pairing_slot takes the row at the record's channel, whosever it is.
Activate(w) ==
  LET j == job[w]
      s == j.rec.station
      i == j.rec.channel
      kept == KeptSlots(stations, slots)
  IN  /\ job[w] # Idle /\ j.at = "activate"
      /\ slots' = [kept EXCEPT ![s][i] =
           [cam |-> j.cam, active |-> TRUE, pending |-> FALSE,
            mac |-> IF Mac(j.cam) = NoMac /\ kept[s][i] # NoSlot THEN kept[s][i].mac ELSE Mac(j.cam)]]
      /\ sessions' = KeptSessions(stations, sessions)
      /\ job' = [job EXCEPT ![w].at = "session"]
      /\ UNCHANGED <<stations, cameras, cameraTombstones>>

(***************************************************************************)
(* Single calls.                                                           *)
(***************************************************************************)

\* remove_camera
RemoveCamera(c) ==
  /\ c \in Recorded
  /\ Save(stations, [cameras EXCEPT ![c] = NoCamera], cameraTombstones \cup {c},
          [s \in Stations |-> [i \in Channels |->
             IF i \in SlotsOf(slots, s, c) THEN NoSlot ELSE slots[s][i]]],
          {x \in sessions : x.cam # c})
  /\ UNCHANGED job

\* remove_station, and unbind_station_from_user by its last user
RemoveStation(s) ==
  LET gone == {c \in Recorded : cameras[c].station = s}
  IN  /\ s \in stations
      /\ Save(stations \ {s},
              [c \in Cameras |-> IF c \in gone THEN NoCamera ELSE cameras[c]],
              cameraTombstones \cup gone, slots, sessions)
      /\ UNCHANGED job

\* Mutant of Reportable: the tombstone is not looked at.
ReportableRemoved(c, s) == c \in Recorded => cameras[c].station = s

\* Mutant of Reportable: the station of the record is not looked at.
ReportableFromAnywhere(c, s) == c \notin cameraTombstones

\* One camera of a report-status or report-attr of station s: ignored for a
\* removed camera and for one of another station.
Reportable(c, s) ==
  /\ c \notin cameraTombstones
  /\ c \in Recorded => cameras[c].station = s

Report(s, c, k) ==
  /\ Reportable(c, s)
  /\ Save(stations \cup {s},
          [cameras EXCEPT ![c] = [station |-> s, channel |-> k, pending |-> FALSE]],
          cameraTombstones, slots, sessions)
  /\ UNCHANGED job

\* set_station, bind_station_to_user, update_station_session
KnowStation(s) ==
  /\ Save(stations \cup {s}, cameras, cameraTombstones, slots, sessions)
  /\ UNCHANGED job

\* The handler dies between two of its calls.
Abandon(w) ==
  /\ job[w] # Idle
  /\ job' = [job EXCEPT ![w] = Idle]
  /\ UNCHANGED <<stations, cameras, cameraTombstones, slots, sessions>>

-----------------------------------------------------------------------------
\* A new database: _default_state.
Init ==
  /\ stations = {DefaultStation}
  /\ cameras = [c \in Cameras |->
       IF c = DefaultCamera THEN [station |-> DefaultStation, channel |-> 0, pending |-> FALSE]
                            ELSE NoCamera]
  /\ cameraTombstones = {}
  /\ slots = [s \in Stations |-> [i \in Channels |-> NoSlot]]
  /\ sessions = {}
  /\ job = [w \in Workers |-> Idle]

HandlerStep(w) ==
  \/ AddBlindReserve(w) \/ Ensure(w) \/ UpsertSession(w)
  \/ Settings(w) \/ Recover(w) \/ Rejoin(w) \/ Activate(w) \/ Abandon(w)

Request(w) ==
  \E c \in Cameras :
    \/ \E s \in AskedStations, k \in AskedChannels :
         CheckBindByIot(w, c, s, k) \/ AddBlind(w, c, s, k)
    \/ CameraSetNamed(w, c) \/ CameraSetUnnamed(w, c)

DeviceStep ==
  \/ \E c \in Cameras : RemoveCamera(c)
  \/ \E s \in Stations : RemoveStation(s) \/ KnowStation(s)
  \/ \E s \in Stations, c \in Cameras, k \in ReportedChannels : Report(s, c, k)

Next == DeviceStep \/ \E w \in Workers : Request(w) \/ HandlerStep(w)

Spec == Init /\ [][Next]_vars

-----------------------------------------------------------------------------
(***************************************************************************)
(* Properties.                                                             *)
(***************************************************************************)

\* Every variable stays in its type.
TypeOK ==
  /\ stations \subseteq Stations
  /\ cameras \in [Cameras -> CameraRecords \cup {NoCamera}]
  /\ cameraTombstones \subseteq Cameras
  /\ slots \in [Stations -> [Channels -> SlotRows \cup {NoSlot}]]
  /\ sessions \subseteq Sessions
  /\ job \in [Workers -> Jobs \cup {Idle}]

\* A camera is never both recorded and removed, whatever scans, reports,
\* renames and removals interleave.
TombstonedIsAbsent == Recorded \cap cameraTombstones = {}

\* Every recorded camera's station is recorded: cameras.station_sn references
\* stations, so a stray camera would make every later load and save fail.
CameraHasStation == \A c \in Recorded : cameras[c].station \in stations

\* A removed camera comes back only by the ensure_camera of a pairing request
\* or of a camera/set that finds its pairing context: reports of a station
\* that still lists it never revive it.
RemovedStaysRemoved ==
  [][\A c \in cameraTombstones :
       cameras'[c] # NoCamera =>
         \E w \in Workers : job[w] # Idle /\ job[w].cam = c /\ job[w].at \in {"ensure", "rejoin"}
                             /\ job'[w] # job[w]]_vars

\* Scans never take another camera's slot at a station that is recorded: a
\* held row passes to another camera only through the activation by
\* camera/set, or to a camera with the MAC address the row carries.
HeldSlotNotReassigned ==
  [][\A s \in stations, i \in Channels :
       (slots[s][i] # NoSlot /\ slots'[s][i] # NoSlot /\ slots'[s][i].cam # slots[s][i].cam) =>
          \/ \E w \in Workers : job[w] # Idle /\ job[w].at = "activate" /\ job'[w] # job[w]
          \/ slots[s][i].mac # NoMac /\ slots[s][i].mac = slots'[s][i].cam]_vars

\* Nothing but a removal frees a slot: an abandoned pairing keeps its row, so
\* a slot that goes free belongs to a camera or a station that has no record.
OnlyRemovalFreesSlot ==
  [][\A s \in Stations, i \in Channels :
       (slots[s][i] # NoSlot /\ slots'[s][i] = NoSlot) =>
          \/ s \notin stations \/ s \notin stations'
          \/ cameras[slots[s][i].cam] # NoCamera /\ cameras'[slots[s][i].cam] = NoCamera]_vars

\* A station's report moves no camera between stations.
ReportNeverSteals ==
  [][\A c \in Cameras :
       (cameras[c] # NoCamera /\ cameras'[c] # NoCamera /\ cameras'[c].station # cameras[c].station) =>
          \E w \in Workers : job[w] # Idle /\ job[w].cam = c /\ job[w].at \in {"ensure", "rejoin"}
                              /\ job'[w] # job[w]]_vars
=============================================================================
