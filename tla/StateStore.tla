----------------------------- MODULE StateStore -----------------------------
(***************************************************************************)
(* How a store call reads and writes the database (app/store.py).  The     *)
(* whole kv state is selected, changed in memory and written back; a load  *)
(* already writes, because it synchronises the relational tables with the  *)
(* state it selected.  Calls that change something hold the process's      *)
(* lock; list requests load without it; the RTMP ingest server is a second *)
(* process with a lock of its own.  Each SQLite transaction is one step.   *)
(*                                                                         *)
(* Stations are those other than the default one, and a station's rows in  *)
(* user_station_bindings are either there or not: StationBinding has the   *)
(* accounts, their roles and the adoption of the default station.          *)
(***************************************************************************)
EXTENDS FiniteSets

CONSTANTS
  Stations, Cameras,
  Captures,   \* recordings the ingest server registers
  Threads,
  Processes,
  ProcessOf,  \* the process a thread runs in
  Ingest,     \* the process of the RTMP ingest server
  Listers,    \* the threads that serve list requests
  Unsettled,  \* whether some record is never in its normal form
  AutoBind,   \* VAVA_STATION_REPORT_AUTO_BIND_ENABLED
  NoStation,  \* a camera that has no record
  Idle, Free  \* a thread without a request, a lock nobody holds

ASSUME StoreAssumption ==
  /\ ProcessOf \in [Threads -> Processes]
  /\ Listers \subseteq Threads
  /\ Unsettled \in BOOLEAN /\ AutoBind \in BOOLEAN
  /\ NoStation \notin Stations
  /\ Free \notin Threads

VARIABLES
  kv,       \* the rows of kv_state
  table,    \* the stations table, which the tables below refer to
  bound,    \* the stations with rows in user_station_bindings
  sessions, \* pairing_sessions, which has no foreign key
  thread,   \* what each thread does, and the state it has in memory
  lock      \* AuthStore.lock of each process

vars == <<kv, table, bound, sessions, thread, lock>>

\* owned: the stations whose record caches an owner and a binding count.
States ==
  [stations : SUBSET Stations, tombstones : SUBSET Stations,
   cameras : [Cameras -> Stations \cup {NoStation}], cameraTombstones : SUBSET Cameras,
   captures : SUBSET Captures, owned : SUBSET Stations]

\* What a thread has in memory while a call runs.
InMemory ==
  [at : {"load", "list", "work"}, state : States]
    \cup [at : {"session"}, row : Stations \X Cameras]

ASSUME IdleAssumption == Idle \notin InMemory

Recorded(st) == {c \in Cameras : st.cameras[c] # NoStation}

At(t, where) == thread[t] # Idle /\ thread[t].at = where

(***************************************************************************)
(* One transaction: the tables follow the state, as the cascade from the   *)
(* stations table and the pruning of orphan rows make them.                *)
(***************************************************************************)

\* Mutant of Synchronised: rows are restored for the owners in the cache.
RowsFromCache(st, rows, se) ==
  /\ table' = st.stations
  /\ bound' = (rows \cup st.owned) \cap st.stations
  /\ sessions' = {x \in se : x[1] \in st.stations}

Synchronised(st, rows, se) ==
  /\ table' = st.stations
  /\ bound' = rows \cap st.stations
  /\ sessions' = {x \in se : x[1] \in st.stations}

\* The cached owners are those of the rows.
Refreshed(st, rows) == [st EXCEPT !.owned = rows \cap st.stations]

\* _save_state_unlocked
Save(st, rows, se) ==
  /\ Synchronised(st, rows, se)
  /\ kv' = Refreshed(st, rows)

\* Mutant of NeedsSave: a load writes the tables only.
NeverSaves(st) == FALSE

\* What makes a load save the state it selected: a record whose normalisation
\* always reports a change (any camera without a MAC address is one, and the
\* default camera of a new database has none), an owner cache that differs
\* from the rows, or sessions of unknown stations.  Rows the cascade deletes
\* are not counted.
NeedsSave(st) ==
  \/ Unsettled
  \/ st.owned \cap st.stations # bound \cap st.stations
  \/ \E x \in sessions : x[1] \notin st.stations

(***************************************************************************)
(* Loading.                                                                *)
(***************************************************************************)

\* Mutant of Acquire: the call does not take the lock.
AcquireNothing(t) == UNCHANGED lock

\* "with self.lock"
Acquire(t) ==
  /\ lock[ProcessOf[t]] = Free
  /\ lock' = [lock EXCEPT ![ProcessOf[t]] = t]

Release(t) == lock' = [lock EXCEPT ![ProcessOf[t]] = Free]

\* A locked call selects the kv rows.
Begin(t) ==
  /\ t \notin Listers
  /\ thread[t] = Idle
  /\ Acquire(t)
  /\ thread' = [thread EXCEPT ![t] = [at |-> "load", state |-> kv]]
  /\ UNCHANGED <<kv, table, bound, sessions>>

\* camera_index_payload, station_camera_list_payload and the like select them
\* without the lock.
List(t) ==
  /\ t \in Listers
  /\ thread[t] = Idle
  /\ thread' = [thread EXCEPT ![t] = [at |-> "list", state |-> kv]]
  /\ UNCHANGED <<kv, table, bound, sessions, lock>>

\* The rest of _load_state_unlocked: synchronise, and save if that changed.
Sync(st) ==
  /\ Synchronised(st, bound, sessions)
  /\ kv' = IF NeedsSave(st) THEN Refreshed(st, bound) ELSE kv

\* A locked call goes on with the state it selected.
Load(t) ==
  /\ At(t, "load")
  /\ Sync(thread[t].state)
  /\ thread' = [thread EXCEPT ![t] = [at |-> "work", state |-> Refreshed(thread[t].state, bound)]]
  /\ UNCHANGED lock

\* A list request answers.
Answer(t) ==
  /\ At(t, "list")
  /\ Sync(thread[t].state)
  /\ thread' = [thread EXCEPT ![t] = Idle]
  /\ UNCHANGED lock

(***************************************************************************)
(* What a locked call does with its state, and the save that ends it.      *)
(***************************************************************************)
Finish(t) == thread' = [thread EXCEPT ![t] = Idle] /\ Release(t)

\* bind_station_to_user
Bind(t, s) ==
  LET st == thread[t].state
  IN  /\ At(t, "work") /\ ProcessOf[t] # Ingest
      /\ Save([st EXCEPT !.stations = @ \cup {s}, !.tombstones = @ \ {s}], bound \cup {s}, sessions)
      /\ Finish(t)

\* Mutant of WithoutStation: its cameras keep their records.
WithoutItsCameras(st, s) ==
  [st EXCEPT !.stations = @ \ {s}, !.tombstones = @ \cup ({s} \cap st.stations)]

\* The cameras of a removed station are removed, and remembered, with it.
WithoutStation(st, s) ==
  LET gone == {c \in Cameras : st.cameras[c] = s}
  IN  [st EXCEPT !.stations = @ \ {s},
                 !.tombstones = @ \cup ({s} \cap st.stations),
                 !.cameras = [c \in Cameras |-> IF c \in gone THEN NoStation ELSE @[c]],
                 !.cameraTombstones = @ \cup gone]

\* unbind_station_from_user, by the last user of the station
Unbind(t, s) ==
  /\ At(t, "work") /\ ProcessOf[t] # Ingest
  /\ s \in bound
  /\ Save(WithoutStation(thread[t].state, s), bound \ {s}, sessions)
  /\ Finish(t)

\* Mutant of SessionRow: station and camera change places.
SwappedRow(s, c) == <<c, s>>

SessionRow(s, c) == <<s, c>>

\* ensure_camera; the handler goes on to upsert_pairing_session.
PairCamera(t, c, s) ==
  LET st == thread[t].state
  IN  /\ At(t, "work") /\ ProcessOf[t] # Ingest
      /\ Save([st EXCEPT !.stations = @ \cup {s}, !.cameras[c] = s,
                         !.cameraTombstones = @ \ {c}], bound, sessions)
      /\ thread' = [thread EXCEPT ![t] = [at |-> "session", row |-> SessionRow(s, c)]]
      /\ Release(t)

\* upsert_pairing_session takes the lock and inserts without a load.
UpsertSession(t) ==
  /\ At(t, "session")
  /\ lock[ProcessOf[t]] = Free
  /\ sessions' = sessions \cup {thread[t].row}
  /\ thread' = [thread EXCEPT ![t] = Idle]
  /\ UNCHANGED <<kv, table, bound, lock>>

\* remove_station: whoever has it bound, and without a tombstone
DropStation(t, s) ==
  LET st == thread[t].state
  IN  /\ At(t, "work") /\ ProcessOf[t] # Ingest
      /\ s \in st.stations
      /\ Save([WithoutStation(st, s) EXCEPT !.tombstones = st.tombstones],
              bound, {x \in sessions : x[1] # s})
      /\ Finish(t)

\* remove_camera
RemoveCamera(t, c) ==
  LET st == thread[t].state
  IN  /\ At(t, "work") /\ ProcessOf[t] # Ingest
      /\ c \in Recorded(st)
      /\ Save([st EXCEPT !.cameras[c] = NoStation, !.cameraTombstones = @ \cup {c}],
              bound, {x \in sessions : x[2] # c})
      /\ Finish(t)

\* The camera of a report, unless it is removed or another station's.
Reported(st, c, s) ==
  IF c \notin st.cameraTombstones /\ st.cameras[c] \in {NoStation, s}
    THEN s ELSE st.cameras[c]

\* The row that the token of a report claims, when enabled, for a station that
\* nobody has, whose record knows no other owner, and that the row can refer to.
Claimed(st, s) == {x \in {s} : AutoBind /\ x \notin bound /\ x \in table \cap st.stations}

\* update_station_status, for one camera of the report
Report(t, c, s) ==
  LET st == thread[t].state
  IN  /\ At(t, "work") /\ ProcessOf[t] # Ingest
      /\ s \notin st.tombstones
      /\ \E claimed \in SUBSET Claimed(st, s) :
           Save([st EXCEPT !.stations = @ \cup {s}, !.cameras[c] = Reported(st, c, s)],
                bound \cup claimed, sessions)
      /\ Finish(t)

\* register_cloud_media_capture
RegisterCapture(t, x) ==
  /\ At(t, "work") /\ ProcessOf[t] = Ingest
  /\ Save([thread[t].state EXCEPT !.captures = @ \cup {x}], bound, sessions)
  /\ Finish(t)

\* A call that finds nothing to do returns after its load.
Return(t) ==
  /\ At(t, "work")
  /\ Finish(t)
  /\ UNCHANGED <<kv, table, bound, sessions>>

\* A process dies and is started again; what was not committed is lost.
Restart(p) ==
  /\ thread' = [t \in Threads |-> IF ProcessOf[t] = p THEN Idle ELSE thread[t]]
  /\ lock' = [lock EXCEPT ![p] = Free]
  /\ UNCHANGED <<kv, table, bound, sessions>>

-----------------------------------------------------------------------------
\* A new database, the default station left out.
Init ==
  /\ kv = [stations |-> {}, tombstones |-> {}, cameras |-> [c \in Cameras |-> NoStation],
           cameraTombstones |-> {}, captures |-> {}, owned |-> {}]
  /\ table = {} /\ bound = {} /\ sessions = {}
  /\ thread = [t \in Threads |-> Idle]
  /\ lock = [p \in Processes |-> Free]

Work(t) ==
  \/ \E s \in Stations :
       \/ Bind(t, s) \/ Unbind(t, s) \/ DropStation(t, s)
       \/ \E c \in Cameras : PairCamera(t, c, s) \/ Report(t, c, s)
  \/ \E c \in Cameras : RemoveCamera(t, c)
  \/ \E x \in Captures : RegisterCapture(t, x)
  \/ Return(t)

Step(t) == Begin(t) \/ List(t) \/ Load(t) \/ Answer(t) \/ Work(t) \/ UpsertSession(t)

Next == \/ \E t \in Threads : Step(t)
        \/ \E p \in Processes : Restart(p)

Spec == Init /\ [][Next]_vars

\* The app keeps asking for its lists, and not every one of its requests
\* dies with the process.
FairSpec ==
  /\ Spec
  /\ \A t \in Listers : WF_vars(List(t)) /\ SF_vars(Answer(t))

-----------------------------------------------------------------------------
(***************************************************************************)
(* Properties.                                                             *)
(***************************************************************************)

\* Every variable stays in its type.
TypeOK ==
  /\ kv \in States
  /\ table \subseteq Stations /\ bound \subseteq Stations
  /\ sessions \subseteq Stations \X Cameras
  /\ thread \in [Threads -> InMemory \cup {Idle}]
  /\ lock \in [Processes -> Threads \cup {Free}]

\* However stale the states are that list requests and the ingest server
\* write back, a station with bound users is in the stations table, so that
\* no foreign key fails, and in the kv state, so that the users see it; and no
\* saved state holds a camera that is also removed, or one whose station it
\* does not hold.
SavedStateIsSound ==
  /\ bound \subseteq table \cap kv.stations
  /\ \A c \in Recorded(kv) : c \notin kv.cameraTombstones /\ kv.cameras[c] \in kv.stations

\* ... and only bind_station_to_user, or a report where that is enabled, binds
\* anybody: a stale state written back loses bindings, but revives none.
OnlyBindBinds ==
  [][\A s \in bound' \ bound :
       \E t \in Threads :
         Bind(t, s) \/ (AutoBind /\ \E c \in Cameras : Report(t, c, s))]_vars

\* The owner cache disagrees with the rows only for a time: while the app
\* polls, a list request repairs what another one broke.
CacheRepaired == []<>(kv.owned = bound)

\* In one process without list requests, the state a call works on is the
\* saved one: loading, changing and saving is as good as one step.
WorksOnSavedState ==
  \A t \in Threads : At(t, "work") => thread[t].state = kv /\ kv.owned = bound

\* A removed camera is forgotten only by a pairing request.
RemovalHolds ==
  [][\A c \in kv.cameraTombstones \ kv'.cameraTombstones :
       \E t \in Threads, s \in Stations : PairCamera(t, c, s)]_vars

\* Nobody's binding disappears but by an unbind, or the removal of the station.
BindingHolds ==
  [][\A s \in bound \ bound' : \E t \in Threads : Unbind(t, s) \/ DropStation(t, s)]_vars
=============================================================================
