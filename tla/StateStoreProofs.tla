-------------------------- MODULE StateStoreProofs --------------------------
(***************************************************************************)
(* Proofs about StateStore, for any stations, cameras, threads and         *)
(* processes.  First what survives every race: each state in the database  *)
(* or in a thread's memory is sound in itself, and each transaction leaves *)
(* the tables as some such state says.  Then that in one process, without  *)
(* list requests, a call works on the saved state, so that modelling it as *)
(* one step, as StationBinding and CameraPairing do, is right.             *)
(***************************************************************************)
EXTENDS StateStore, TLAPS

\* No camera of the state is removed as well, or without a station.
Sound(st) ==
  \A c \in Recorded(st) : c \notin st.cameraTombstones /\ st.cameras[c] \in st.stations

\* The thread has a state in memory.
Holds(t) == At(t, "load") \/ At(t, "list") \/ At(t, "work")

\* What holds whatever races.
IInv ==
  /\ TypeOK
  /\ SavedStateIsSound
  /\ \A t \in Threads : Holds(t) => thread[t].state \in States /\ Sound(thread[t].state)

(***************************************************************************)
(* The operators on states.                                                *)
(***************************************************************************)

\* Refreshing the owner cache changes nothing else.
LEMMA RefreshedFacts ==
  ASSUME NEW st \in States, Sound(st), NEW rows \in SUBSET Stations
  PROVE  /\ Refreshed(st, rows) \in States
         /\ Sound(Refreshed(st, rows))
         /\ Refreshed(st, rows).stations = st.stations
         /\ Refreshed(st, rows).cameraTombstones = st.cameraTombstones
         /\ Refreshed(st, rows).owned = rows \cap st.stations
  BY DEF Refreshed, States, Sound, Recorded

\* A save of a sound state leaves a sound state and rows that fit it.
LEMMA SaveFacts ==
  ASSUME NEW st \in States, Sound(st), NEW rows \in SUBSET Stations, NEW se,
         Save(st, rows, se)
  PROVE  /\ kv' \in States /\ Sound(kv')
         /\ table' = st.stations /\ kv'.stations = st.stations
         /\ kv'.cameraTombstones = st.cameraTombstones
         /\ bound' = rows \cap st.stations
         /\ kv'.owned = bound'
         /\ sessions' \subseteq se
  <1>1. kv' = Refreshed(st, rows)
    BY DEF Save
  <1>2. /\ table' = st.stations
        /\ bound' = rows \cap st.stations
        /\ sessions' = {x \in se : x[1] \in st.stations}
    BY DEF Save, Synchronised
  <1> QED BY <1>1, <1>2, RefreshedFacts

\* So does the synchronisation of a load, whether it saves or not.
LEMMA SyncFacts ==
  ASSUME NEW st \in States, Sound(st), kv \in States, Sound(kv),
         bound \subseteq Stations, bound \subseteq kv.stations, Sync(st)
  PROVE  /\ kv' \in States /\ Sound(kv')
         /\ table' = st.stations
         /\ bound' = bound \cap st.stations
         /\ bound' \subseteq kv'.stations
         /\ sessions' \subseteq sessions
         /\ kv' = kv \/ kv' = Refreshed(st, bound)
  <1>1. kv' = kv \/ kv' = Refreshed(st, bound)
    BY DEF Sync
  <1>2. /\ table' = st.stations
        /\ bound' = bound \cap st.stations
        /\ sessions' = {x \in sessions : x[1] \in st.stations}
    BY DEF Sync, Synchronised
  <1> QED BY <1>1, <1>2, RefreshedFacts

\* The states the calls save are sound when the loaded one is.
LEMMA BindState ==
  ASSUME NEW st \in States, Sound(st), NEW s \in Stations
  PROVE  LET new == [st EXCEPT !.stations = @ \cup {s}, !.tombstones = @ \ {s}]
         IN  new \in States /\ Sound(new) /\ new.cameraTombstones = st.cameraTombstones
  BY DEF States, Sound, Recorded

\* ... of a station removed with its cameras,
LEMMA WithoutStationState ==
  ASSUME NEW st \in States, Sound(st), NEW s \in Stations
  PROVE  /\ WithoutStation(st, s) \in States
         /\ Sound(WithoutStation(st, s))
         /\ st.cameraTombstones \subseteq WithoutStation(st, s).cameraTombstones
  <1> DEFINE gone == {c \in Cameras : st.cameras[c] = s}
             left == [c \in Cameras |-> IF c \in gone THEN NoStation ELSE st.cameras[c]]
             new == WithoutStation(st, s)
  <1>1. /\ new.stations = st.stations \ {s}
        /\ new.cameras = left
        /\ new.cameraTombstones = st.cameraTombstones \cup gone
        /\ new \in States
    BY DEF WithoutStation, States
  <1>2. ASSUME NEW c \in Recorded(new)
        PROVE  c \notin new.cameraTombstones /\ new.cameras[c] \in new.stations
    <2>1. c \in Cameras /\ left[c] # NoStation
      BY <1>1, <1>2 DEF Recorded
    <2>2. c \notin gone /\ st.cameras[c] # NoStation /\ left[c] = st.cameras[c]
      BY <2>1
    <2>3. c \notin st.cameraTombstones /\ st.cameras[c] \in st.stations
      BY <2>1, <2>2 DEF Sound, Recorded
    <2> QED BY <1>1, <2>1, <2>2, <2>3
  <1>3. Sound(new)
    BY <1>2 DEF Sound
  <1> QED BY <1>1, <1>3

\* ... of a camera paired,
LEMMA PairState ==
  ASSUME NEW st \in States, Sound(st), NEW c \in Cameras, NEW s \in Stations
  PROVE  LET new == [st EXCEPT !.stations = @ \cup {s}, !.cameras[c] = s,
                               !.cameraTombstones = @ \ {c}]
         IN  new \in States /\ Sound(new)
  BY DEF States, Sound, Recorded

\* ... of a camera removed,
LEMMA RemoveCameraState ==
  ASSUME NEW st \in States, Sound(st), NEW c \in Cameras
  PROVE  LET new == [st EXCEPT !.cameras[c] = NoStation, !.cameraTombstones = @ \cup {c}]
         IN  /\ new \in States /\ Sound(new)
             /\ new.cameraTombstones = st.cameraTombstones \cup {c}
  BY DEF States, Sound, Recorded

\* ... of a camera reported by its station, or left to another one,
LEMMA ReportState ==
  ASSUME NEW st \in States, Sound(st), NEW c \in Cameras, NEW s \in Stations
  PROVE  LET new == [st EXCEPT !.stations = @ \cup {s}, !.cameras[c] = Reported(st, c, s)]
         IN  new \in States /\ Sound(new) /\ new.cameraTombstones = st.cameraTombstones
  <1>1. \/ Reported(st, c, s) = st.cameras[c]
        \/ Reported(st, c, s) = s /\ c \notin st.cameraTombstones
    BY DEF Reported
  <1>2. CASE Reported(st, c, s) = st.cameras[c]
    <2>1. [st.cameras EXCEPT ![c] = Reported(st, c, s)] = st.cameras
      BY <1>2 DEF States
    <2> DEFINE new == [st EXCEPT !.stations = @ \cup {s}, !.cameras[c] = Reported(st, c, s)]
    <2>2. /\ new \in States /\ new.cameras = st.cameras /\ new.stations = st.stations \cup {s}
          /\ new.cameraTombstones = st.cameraTombstones
      BY <2>1 DEF States
    <2> HIDE DEF new
    <2>3. Sound(new)
      BY <2>2 DEF Sound, Recorded
    <2> QED BY <2>2, <2>3 DEF new
  <1>3. CASE Reported(st, c, s) = s /\ c \notin st.cameraTombstones
    BY <1>3 DEF States, Sound, Recorded
  <1> QED BY <1>1, <1>2, <1>3

\* ... and of a recording registered.
LEMMA CaptureState ==
  ASSUME NEW st \in States, Sound(st), NEW x \in Captures
  PROVE  LET new == [st EXCEPT !.captures = @ \cup {x}]
         IN  new \in States /\ Sound(new) /\ new.cameraTombstones = st.cameraTombstones
  BY DEF States, Sound, Recorded

(***************************************************************************)
(* The actions.                                                            *)
(***************************************************************************)

\* A report with a token that claims the station.
Claims(t, s) == AutoBind /\ \E c \in Cameras : Report(t, c, s)

\* What a save at the end of a call may do: it saves a sound state made from
\* the one in memory.  Tombstones of cameras are dropped only by ensure_camera,
\* rows added only by bind_station_to_user and reports, and deleted, for
\* stations the state in memory holds, only by unbind_station_from_user and
\* remove_station.
Saves(t, st, rows, se) ==
  /\ Sound(st)
  /\ Save(st, rows, se)
  /\ \A c \in thread[t].state.cameraTombstones :
       c \in st.cameraTombstones \/ \E s \in Stations : PairCamera(t, c, s)
  /\ \A s \in rows : s \in bound \/ Bind(t, s) \/ Claims(t, s)
  /\ \A s \in bound \cap thread[t].state.stations :
       s \in rows \cap st.stations \/ Unbind(t, s) \/ DropStation(t, s)

\* A thread at work ends its call: it saves, or it changes nothing.
LEMMA WorkCases ==
  ASSUME IInv, NEW t \in Threads, Work(t)
  PROVE  /\ At(t, "work")
         /\ \/ UNCHANGED <<kv, table, bound, sessions>>
            \/ \E st \in States, rows \in SUBSET Stations, se \in SUBSET (Stations \X Cameras) :
                 Saves(t, st, rows, se)
         /\ lock' = [lock EXCEPT ![ProcessOf[t]] = Free]
         /\ \/ thread' = [thread EXCEPT ![t] = Idle]
            \/ \E x \in Stations \X Cameras :
                 thread' = [thread EXCEPT ![t] = [at |-> "session", row |-> x]]
  <1> DEFINE mem == thread[t].state
             Ends == /\ At(t, "work")
                     /\ \/ UNCHANGED <<kv, table, bound, sessions>>
                        \/ \E st \in States, rows \in SUBSET Stations,
                              se \in SUBSET (Stations \X Cameras) : Saves(t, st, rows, se)
                     /\ lock' = [lock EXCEPT ![ProcessOf[t]] = Free]
                     /\ \/ thread' = [thread EXCEPT ![t] = Idle]
                        \/ \E x \in Stations \X Cameras :
                             thread' = [thread EXCEPT ![t] = [at |-> "session", row |-> x]]
  <1>1. At(t, "work")
    BY DEF Work, Bind, Unbind, DropStation, PairCamera, Report, RemoveCamera, RegisterCapture, Return
  <1>2. mem \in States /\ Sound(mem)
    BY <1>1 DEF IInv, Holds
  <1>3. bound \in SUBSET Stations /\ sessions \in SUBSET (Stations \X Cameras)
    BY DEF IInv, TypeOK
  <1> HIDE DEF mem
  <1>4. ASSUME NEW s \in Stations, Bind(t, s) PROVE Ends
    <2> DEFINE st == [mem EXCEPT !.stations = @ \cup {s}, !.tombstones = @ \ {s}]
    <2>1. st \in States /\ Sound(st) /\ st.cameraTombstones = mem.cameraTombstones
      BY <1>2, BindState
    <2>2. mem.stations \subseteq st.stations
      BY <1>2 DEF States
    <2>3. Save(st, bound \cup {s}, sessions) /\ Finish(t)
      BY <1>4 DEF Bind, mem
    <2> HIDE DEF st
    <2>4. Saves(t, st, bound \cup {s}, sessions)
      BY <1>4, <2>1, <2>2, <2>3 DEF Saves, mem
    <2> QED BY <1>1, <1>3, <2>1, <2>3, <2>4 DEF Finish, Release
  <1>5. ASSUME NEW s \in Stations, Unbind(t, s) PROVE Ends
    <2> DEFINE st == WithoutStation(mem, s)
    <2>1. st \in States /\ Sound(st) /\ mem.cameraTombstones \subseteq st.cameraTombstones
      BY <1>2, WithoutStationState
    <2>2. mem.stations \ {s} \subseteq st.stations
      BY <1>2 DEF States, WithoutStation
    <2>3. Save(st, bound \ {s}, sessions) /\ Finish(t)
      BY <1>5 DEF Unbind, mem
    <2> HIDE DEF st
    <2>4. Saves(t, st, bound \ {s}, sessions)
      BY <1>5, <2>1, <2>2, <2>3 DEF Saves, mem
    <2> QED BY <1>1, <1>3, <2>1, <2>3, <2>4 DEF Finish, Release
  <1>6. ASSUME NEW s \in Stations, NEW c \in Cameras, PairCamera(t, c, s) PROVE Ends
    <2> DEFINE st == [mem EXCEPT !.stations = @ \cup {s}, !.cameras[c] = s,
                                 !.cameraTombstones = @ \ {c}]
    <2>1. st \in States /\ Sound(st)
      BY <1>2, PairState
    <2>2. mem.stations \subseteq st.stations /\ mem.cameraTombstones \ {c} \subseteq st.cameraTombstones
      BY <1>2 DEF States
    <2>3. /\ Save(st, bound, sessions)
          /\ thread' = [thread EXCEPT ![t] = [at |-> "session", row |-> <<s, c>>]]
          /\ lock' = [lock EXCEPT ![ProcessOf[t]] = Free]
      BY <1>6 DEF PairCamera, SessionRow, Release, mem
    <2> HIDE DEF st
    <2>4. Saves(t, st, bound, sessions)
      BY <1>6, <2>1, <2>2, <2>3 DEF Saves, mem
    <2>5. \E x \in Stations \X Cameras :
            thread' = [thread EXCEPT ![t] = [at |-> "session", row |-> x]]
      BY <2>3
    <2> QED BY <1>1, <1>3, <2>1, <2>3, <2>4, <2>5
  <1>7. ASSUME NEW s \in Stations, NEW c \in Cameras, Report(t, c, s) PROVE Ends
    <2> DEFINE st == [mem EXCEPT !.stations = @ \cup {s}, !.cameras[c] = Reported(mem, c, s)]
    <2>1. st \in States /\ Sound(st) /\ st.cameraTombstones = mem.cameraTombstones
      BY <1>2, ReportState
    <2>2. mem.stations \subseteq st.stations
      BY <1>2 DEF States
    <2>3. PICK claimed \in SUBSET Claimed(mem, s) : Save(st, bound \cup claimed, sessions)
      BY <1>7 DEF Report, mem
    <2>4. Finish(t)
      BY <1>7 DEF Report
    <2>5. claimed \subseteq Stations /\ \A x \in claimed : x = s /\ AutoBind
      BY DEF Claimed
    <2> HIDE DEF st
    <2>6. Saves(t, st, bound \cup claimed, sessions)
      BY <1>7, <2>1, <2>2, <2>3, <2>5 DEF Saves, Claims, mem
    <2> QED BY <1>1, <1>3, <2>1, <2>4, <2>5, <2>6 DEF Finish, Release
  <1>8. ASSUME NEW c \in Cameras, RemoveCamera(t, c) PROVE Ends
    <2> DEFINE st == [mem EXCEPT !.cameras[c] = NoStation, !.cameraTombstones = @ \cup {c}]
               se == {x \in sessions : x[2] # c}
    <2>1. st \in States /\ Sound(st) /\ mem.cameraTombstones \subseteq st.cameraTombstones
      BY <1>2, RemoveCameraState
    <2>2. mem.stations \subseteq st.stations
      BY <1>2 DEF States
    <2>3. Save(st, bound, se) /\ Finish(t)
      BY <1>8 DEF RemoveCamera, mem
    <2>4. se \in SUBSET (Stations \X Cameras)
      BY <1>3
    <2> HIDE DEF st, se
    <2>5. Saves(t, st, bound, se)
      BY <2>1, <2>2, <2>3 DEF Saves, mem
    <2> QED BY <1>1, <1>3, <2>1, <2>3, <2>4, <2>5 DEF Finish, Release
  <1>9. ASSUME NEW x \in Captures, RegisterCapture(t, x) PROVE Ends
    <2> DEFINE st == [mem EXCEPT !.captures = @ \cup {x}]
    <2>1. st \in States /\ Sound(st) /\ st.cameraTombstones = mem.cameraTombstones
      BY <1>2, CaptureState
    <2>2. mem.stations \subseteq st.stations
      BY <1>2 DEF States
    <2>3. Save(st, bound, sessions) /\ Finish(t)
      BY <1>9 DEF RegisterCapture, mem
    <2> HIDE DEF st
    <2>4. Saves(t, st, bound, sessions)
      BY <2>1, <2>2, <2>3 DEF Saves, mem
    <2> QED BY <1>1, <1>3, <2>1, <2>3, <2>4 DEF Finish, Release
  <1>10. CASE Return(t)
    BY <1>1, <1>10 DEF Return, Finish, Release
  <1>11. ASSUME NEW s \in Stations, DropStation(t, s) PROVE Ends
    <2> DEFINE st == [WithoutStation(mem, s) EXCEPT !.tombstones = mem.tombstones]
               se == {x \in sessions : x[1] # s}
    <2>1. /\ WithoutStation(mem, s) \in States /\ Sound(WithoutStation(mem, s))
          /\ mem.cameraTombstones \subseteq WithoutStation(mem, s).cameraTombstones
      BY <1>2, WithoutStationState
    <2>2. mem.stations \ {s} \subseteq WithoutStation(mem, s).stations
      BY <1>2 DEF States, WithoutStation
    <2>3. /\ st \in States /\ Sound(st) /\ mem.cameraTombstones \subseteq st.cameraTombstones
          /\ mem.stations \ {s} \subseteq st.stations
      BY <1>2, <2>1, <2>2 DEF States, Sound, Recorded
    <2>4. Save(st, bound, se) /\ Finish(t)
      BY <1>11 DEF DropStation, mem
    <2>5. se \in SUBSET (Stations \X Cameras)
      BY <1>3
    <2> HIDE DEF st, se
    <2>6. Saves(t, st, bound, se)
      BY <1>11, <2>3, <2>4 DEF Saves, mem
    <2> QED BY <1>1, <1>3, <2>3, <2>4, <2>5, <2>6 DEF Finish, Release
  <1> QED BY <1>4, <1>5, <1>6, <1>7, <1>8, <1>9, <1>10, <1>11 DEF Work
(***************************************************************************)
(* What holds whatever races.                                              *)
(***************************************************************************)
\* The empty database is sound and nobody has a state in memory.
LEMMA InitEstablishesInvariant == Init => IInv
  <1> SUFFICES ASSUME Init PROVE IInv
    OBVIOUS
  <1>1. TypeOK
    BY DEF Init, TypeOK, States
  <1>2. SavedStateIsSound
    BY DEF Init, SavedStateIsSound, Recorded
  <1>3. \A t \in Threads : ~Holds(t)
    BY DEF Init, Holds, At
  <1> QED BY <1>1, <1>2, <1>3 DEF IInv

\* A thread that takes a sound state, or none, keeps the others' as they are.
LEMMA ThreadsStaySound ==
  ASSUME IInv, NEW t \in Threads, NEW m \in InMemory \cup {Idle},
         thread' = [thread EXCEPT ![t] = m],
         m \in [at : {"load", "list", "work"}, state : States] => Sound(m.state)
  PROVE  /\ thread' \in [Threads -> InMemory \cup {Idle}]
         /\ \A u \in Threads : Holds(u)' => thread'[u].state \in States /\ Sound(thread'[u].state)
  <1>1. thread \in [Threads -> InMemory \cup {Idle}]
    BY DEF IInv, TypeOK, InMemory
  <1>2. thread' \in [Threads -> InMemory \cup {Idle}]
    BY <1>1
  <1>3. ASSUME NEW u \in Threads, Holds(u)'
        PROVE  thread'[u].state \in States /\ Sound(thread'[u].state)
    <2>1. CASE u = t
      <3>1. m # Idle /\ m.at \in {"load", "list", "work"} /\ thread'[u] = m
        BY <1>1, <1>3, <2>1 DEF Holds, At
      <3>2. m \in [at : {"load", "list", "work"}, state : States]
        BY <3>1 DEF InMemory
      <3> QED BY <3>1, <3>2
    <2>2. CASE u # t
      <3>1. thread'[u] = thread[u]
        BY <1>1, <2>2
      <3> QED BY <1>3, <3>1 DEF IInv, Holds, At
    <2> QED BY <2>1, <2>2
  <1> QED BY <1>2, <1>3

\* No transaction, restart or lock step breaks the invariant.
LEMMA NextKeepsInvariant == IInv /\ [Next]_vars => IInv'
  <1> SUFFICES ASSUME IInv, [Next]_vars PROVE IInv'
    OBVIOUS
  <1> DEFINE Data == /\ kv' \in States /\ Sound(kv') /\ table' \subseteq Stations
                     /\ bound' \subseteq table' \cap kv'.stations
                     /\ sessions' \subseteq Stations \X Cameras
             Memory == /\ thread' \in [Threads -> InMemory \cup {Idle}]
                       /\ \A u \in Threads : Holds(u)' => thread'[u].state \in States
                                                          /\ Sound(thread'[u].state)
             Locks == lock' \in [Processes -> Threads \cup {Free}]
  <1>1. ASSUME Data, Memory, Locks PROVE IInv'
    <2>1. TypeOK'
      BY <1>1 DEF TypeOK, InMemory
    <2>2. SavedStateIsSound'
      BY <1>1 DEF SavedStateIsSound, Sound, States
    <2> QED BY <1>1, <2>1, <2>2 DEF IInv
  <1>2. /\ kv \in States /\ Sound(kv) /\ table \in SUBSET Stations /\ bound \in SUBSET Stations
        /\ bound \subseteq table /\ bound \subseteq kv.stations
        /\ sessions \in SUBSET (Stations \X Cameras)
        /\ thread \in [Threads -> InMemory \cup {Idle}]
        /\ lock \in [Processes -> Threads \cup {Free}]
    BY DEF IInv, TypeOK, InMemory, SavedStateIsSound, Sound
  <1>3. ASSUME UNCHANGED <<kv, table, bound, sessions>> PROVE Data
    BY <1>2, <1>3
  <1>4. ASSUME NEW t \in Threads, Begin(t) \/ List(t) PROVE IInv'
    <2>1. PICK m \in [at : {"load", "list", "work"}, state : States] :
            thread' = [thread EXCEPT ![t] = m] /\ m.state = kv
      BY <1>2, <1>4 DEF Begin, List
    <2>2. Memory
      BY <1>2, <2>1, ThreadsStaySound DEF InMemory
    <2>3. Locks
      BY <1>2, <1>4 DEF Begin, List, Acquire
    <2> QED BY <1>1, <1>3, <1>4, <2>2, <2>3 DEF Begin, List
  <1>5. ASSUME NEW t \in Threads, Load(t) \/ Answer(t) PROVE IInv'
    <2> DEFINE st == thread[t].state
    <2>1. st \in States /\ Sound(st) /\ Sync(st) /\ UNCHANGED lock
      BY <1>5 DEF IInv, Holds, Load, Answer
    <2>2. Data
      BY <1>2, <2>1, SyncFacts DEF States
    <2>3. Refreshed(st, bound) \in States /\ Sound(Refreshed(st, bound))
      BY <1>2, <2>1, RefreshedFacts
    <2>4. ASSUME Load(t) PROVE Memory
      <3> DEFINE m == [at |-> "work", state |-> Refreshed(st, bound)]
      <3>1. m \in InMemory /\ Sound(m.state)
        BY <2>3 DEF InMemory
      <3>2. thread' = [thread EXCEPT ![t] = m]
        BY <2>4 DEF Load
      <3> HIDE DEF m
      <3> QED BY <3>1, <3>2, ThreadsStaySound
    <2>5. ASSUME Answer(t) PROVE Memory
      <3>1. Idle \notin [at : {"load", "list", "work"}, state : States]
        BY IdleAssumption DEF InMemory
      <3>2. thread' = [thread EXCEPT ![t] = Idle]
        BY <2>5 DEF Answer
      <3> QED BY <3>1, <3>2, ThreadsStaySound
    <2>6. Memory
      BY <1>5, <2>4, <2>5
    <2> QED BY <1>1, <1>2, <2>1, <2>2, <2>6
  <1>6. ASSUME NEW t \in Threads, Work(t) PROVE IInv'
    <2>1. Data
      <3>1. ASSUME NEW st \in States, NEW rows \in SUBSET Stations,
                   NEW se \in SUBSET (Stations \X Cameras), Saves(t, st, rows, se)
            PROVE  Data
        BY <3>1, SaveFacts DEF Saves, States
      <3> QED BY <1>3, <1>6, <3>1, WorkCases
    <2>2. Locks
      BY <1>2, <1>6, WorkCases
    <2>3. Memory
      <3>1. ASSUME thread' = [thread EXCEPT ![t] = Idle] PROVE Memory
        <4>1. Idle \notin [at : {"load", "list", "work"}, state : States]
          BY IdleAssumption DEF InMemory
        <4> QED BY <3>1, <4>1, ThreadsStaySound
      <3>2. ASSUME NEW x \in Stations \X Cameras,
                   thread' = [thread EXCEPT ![t] = [at |-> "session", row |-> x]]
            PROVE  Memory
        <4> DEFINE m == [at |-> "session", row |-> x]
        <4>1. m \in InMemory /\ m \notin [at : {"load", "list", "work"}, state : States]
          BY DEF InMemory
        <4>2. thread' = [thread EXCEPT ![t] = m]
          BY <3>2
        <4> HIDE DEF m
        <4> QED BY <4>1, <4>2, ThreadsStaySound
      <3> QED BY <1>6, <3>1, <3>2, WorkCases
    <2> QED BY <1>1, <2>1, <2>2, <2>3
  <1>7. ASSUME NEW t \in Threads, UpsertSession(t) PROVE IInv'
    <2>1. thread[t] \in InMemory /\ thread[t].at = "session"
      BY <1>2, <1>7 DEF UpsertSession, At
    <2>2. thread[t].row \in Stations \X Cameras
      BY <2>1 DEF InMemory
    <2>3. Data
      BY <1>2, <1>7, <2>2 DEF UpsertSession
    <2>4. Memory
      <3>1. Idle \notin [at : {"load", "list", "work"}, state : States]
        BY IdleAssumption DEF InMemory
      <3>2. thread' = [thread EXCEPT ![t] = Idle]
        BY <1>7 DEF UpsertSession
      <3> QED BY <3>1, <3>2, ThreadsStaySound
    <2> QED BY <1>1, <1>2, <1>7, <2>3, <2>4 DEF UpsertSession
  <1>8. ASSUME NEW p \in Processes, Restart(p) PROVE IInv'
    <2>1. Data
      BY <1>3, <1>8 DEF Restart
    <2>2. \A u \in Threads : thread'[u] = Idle \/ thread'[u] = thread[u]
      BY <1>8 DEF Restart
    <2>3. thread' \in [Threads -> InMemory \cup {Idle}] /\ Locks
      BY <1>2, <1>8 DEF Restart
    <2>4. Memory
      BY <2>2, <2>3 DEF IInv, Holds, At
    <2> QED BY <1>1, <2>1, <2>3, <2>4
  <1>9. CASE UNCHANGED vars
    BY <1>9 DEF vars, IInv, TypeOK, SavedStateIsSound, Recorded, Holds, At
  <1> QED BY <1>4, <1>5, <1>6, <1>7, <1>8, <1>9 DEF Next, Step

\* The invariant of every race: each state that is saved, or in a thread's
\* memory, is sound in itself, and rows refer to recorded stations.
THEOREM InvariantHolds == Spec => []IInv
  BY InitEstablishesInvariant, NextKeepsInvariant, PTL DEF Spec

\* For any threads, processes and list requests, however stale the states
\* they write back: rows refer to recorded stations, and the saved state is
\* sound in itself.
THEOREM RacesKeepStateSound == Spec => []SavedStateIsSound
  <1>1. IInv => SavedStateIsSound
    BY DEF IInv
  <1> QED BY <1>1, InvariantHolds, PTL

\* Every variable stays in its type.
THEOREM TypeCorrect == Spec => []TypeOK
  <1>1. IInv => TypeOK
    BY DEF IInv
  <1> QED BY <1>1, InvariantHolds, PTL
(***************************************************************************)
(* One process, no list requests.                                          *)
(***************************************************************************)
OneProcess ==
  /\ Listers = {}
  /\ \A t, u \in Threads : ProcessOf[t] = ProcessOf[u]

\* The thread that loads or works holds the lock, and its state is the saved
\* one, whose owner cache agrees with the rows.
LInv ==
  /\ IInv
  /\ kv.owned = bound
  /\ \A t \in Threads : ~At(t, "list")
  /\ \A t \in Threads :
       At(t, "load") \/ At(t, "work") => lock[ProcessOf[t]] = t /\ thread[t].state = kv

\* At the start nobody holds the lock and the cache agrees with the rows.
LEMMA InitEstablishesLocking == Init => LInv
  BY InitEstablishesInvariant DEF Init, LInv, At

\* Only one thread is between its load and its save.
LEMMA MutualExclusion ==
  ASSUME OneProcess, LInv, NEW t \in Threads, NEW u \in Threads,
         At(t, "load") \/ At(t, "work") \/ lock[ProcessOf[t]] = Free,
         At(u, "load") \/ At(u, "work")
  PROVE  t = u
  BY StoreAssumption DEF OneProcess, LInv

\* A load finds nothing to repair.
LEMMA LoadChangesNothing ==
  ASSUME LInv, NEW t \in Threads, Load(t)
  PROVE  kv' = kv /\ bound' = bound /\ Refreshed(kv, bound) = kv
  <1>1. /\ kv \in States /\ Sound(kv) /\ bound \subseteq Stations /\ bound \subseteq kv.stations
        /\ kv.owned = bound /\ thread[t].state = kv
    BY DEF LInv, IInv, TypeOK, SavedStateIsSound, Sound, Load
  <1>2. Refreshed(kv, bound) = kv
    <2>1. bound \cap kv.stations = kv.owned
      BY <1>1
    <2> QED BY <1>1, <2>1 DEF Refreshed, States
  <1>3. Sync(kv)
    BY <1>1 DEF Load
  <1> QED BY <1>1, <1>2, <1>3, SyncFacts

\* With one process and no list request, the lock keeps its promise.
LEMMA NextKeepsLocking == OneProcess /\ LInv /\ [Next]_vars => LInv'
  <1> SUFFICES ASSUME OneProcess, LInv, [Next]_vars PROVE LInv'
    OBVIOUS
  <1>1. IInv'
    BY NextKeepsInvariant DEF LInv
  <1>2. /\ IInv /\ kv.owned = bound /\ bound \in SUBSET Stations /\ kv \in States
        /\ thread \in [Threads -> InMemory \cup {Idle}]
        /\ lock \in [Processes -> Threads \cup {Free}]
        /\ \A t \in Threads : ProcessOf[t] \in Processes
    BY StoreAssumption DEF LInv, IInv, TypeOK
  <1> DEFINE Cache == kv'.owned = bound'
             Others(t) == \A u \in Threads \ {t} : thread'[u] = thread[u] /\ ~At(u, "load") /\ ~At(u, "work")
  <1>3. ASSUME NEW t \in Threads, Others(t), Cache, ~At(t, "list")',
               (At(t, "load") \/ At(t, "work"))' => lock'[ProcessOf[t]] = t /\ thread'[t].state = kv'
        PROVE  LInv'
    <2>1. ASSUME NEW u \in Threads, u # t
          PROVE  ~At(u, "list")' /\ ~At(u, "load")' /\ ~At(u, "work")'
      BY <1>3, <2>1 DEF At, LInv
    <2> QED BY <1>1, <1>3, <2>1 DEF LInv
  <1>4. ASSUME NEW t \in Threads, Begin(t) PROVE LInv'
    <2>1. Others(t)
      BY <1>2, <1>4, MutualExclusion DEF Begin, Acquire
    <2>2. /\ thread'[t] = [at |-> "load", state |-> kv] /\ lock'[ProcessOf[t]] = t
          /\ UNCHANGED <<kv, bound>>
      BY <1>2, <1>4 DEF Begin, Acquire
    <2> QED BY <1>2, <1>3, <2>1, <2>2 DEF At
  <1>5. ASSUME NEW t \in Threads, Load(t) PROVE LInv'
    <2>1. Others(t)
      BY <1>2, <1>5, MutualExclusion DEF Load
    <2>2. kv' = kv /\ bound' = bound /\ Refreshed(kv, bound) = kv
      BY <1>5, LoadChangesNothing
    <2>3. thread[t].state = kv /\ lock[ProcessOf[t]] = t
      BY <1>5 DEF Load, LInv
    <2>4. thread'[t] = [at |-> "work", state |-> kv] /\ lock' = lock
      BY <1>2, <1>5, <2>2, <2>3 DEF Load
    <2> QED BY <1>2, <1>3, <2>1, <2>2, <2>3, <2>4 DEF At
  <1>6. ASSUME NEW t \in Threads, Work(t) PROVE LInv'
    <2>1. At(t, "work")
      BY <1>2, <1>6, WorkCases
    <2>2. thread'[t] = Idle \/ thread'[t].at = "session"
      BY <1>2, <1>6, WorkCases
    <2>3. \A u \in Threads \ {t} : thread'[u] = thread[u]
      BY <1>2, <1>6, WorkCases
    <2>4. Others(t)
      BY <2>1, <2>3, MutualExclusion
    <2>5. ASSUME NEW st \in States, NEW rows \in SUBSET Stations,
                 NEW se \in SUBSET (Stations \X Cameras), Saves(t, st, rows, se)
          PROVE  Cache
      BY <2>5, SaveFacts DEF Saves
    <2>6. Cache
      BY <1>2, <1>6, <2>5, WorkCases
    <2> QED BY <1>3, <2>2, <2>4, <2>6 DEF At
  <1>7. ASSUME NEW t \in Threads, UpsertSession(t) PROVE LInv'
    <2>1. Others(t)
      BY <1>2, <1>7, MutualExclusion DEF UpsertSession
    <2>2. thread'[t] = Idle /\ UNCHANGED <<kv, bound>>
      BY <1>2, <1>7 DEF UpsertSession
    <2> QED BY <1>2, <1>3, <2>1, <2>2 DEF At
  <1>8. ASSUME NEW p \in Processes, Restart(p) PROVE LInv'
    <2>1. /\ UNCHANGED <<kv, bound>>
          /\ \A u \in Threads : \/ thread'[u] = Idle
                                \/ thread'[u] = thread[u] /\ lock'[ProcessOf[u]] = lock[ProcessOf[u]]
      BY <1>2, <1>8 DEF Restart
    <2> QED BY <1>1, <2>1 DEF LInv, At
  <1>9. CASE UNCHANGED vars
    BY <1>1, <1>9 DEF vars, LInv, At
  <1>10. \A t \in Threads : ~List(t) /\ ~Answer(t)
    BY DEF OneProcess, List, Answer, LInv
  <1> QED BY <1>4, <1>5, <1>6, <1>7, <1>8, <1>9, <1>10 DEF Next, Step

\* In one process without list requests, a call works on the saved state from
\* its load to its save, whatever else is started or restarted meanwhile.
THEOREM CallsAreAtomic ==
  ASSUME OneProcess
  PROVE  Spec => []WorksOnSavedState
  <1>1. LInv /\ [Next]_vars => LInv'
    BY NextKeepsLocking
  <1>2. LInv => WorksOnSavedState
    BY DEF LInv, WorksOnSavedState
  <1> QED BY <1>1, <1>2, InitEstablishesLocking, PTL DEF Spec
(***************************************************************************)
(* What a step may do to the rows and the tombstones.                      *)
(***************************************************************************)

\* Any step but the end of a call and the write of a load or a list request
\* leaves the database's state and the rows alone.
LEMMA OtherSteps ==
  ASSUME [Next]_vars, \A t \in Threads : ~Load(t) /\ ~Answer(t) /\ ~Work(t)
  PROVE  kv' = kv /\ bound' = bound
  BY DEF Next, Step, Begin, List, UpsertSession, Restart, vars

\* A row is added only by bind_station_to_user, or claimed by a report.
LEMMA NextRevivesNothing ==
  ASSUME IInv, [Next]_vars, NEW s \in bound' \ bound
  PROVE  \E t \in Threads : Bind(t, s) \/ Claims(t, s)
  <1>1. ASSUME NEW t \in Threads, Load(t) \/ Answer(t) PROVE FALSE
    <2>1. bound' \subseteq bound
      BY <1>1 DEF Load, Answer, Sync, Synchronised
    <2> QED BY <2>1
  <1>2. ASSUME NEW t \in Threads, Work(t) PROVE Bind(t, s) \/ Claims(t, s)
    <2>1. ASSUME NEW st \in States, NEW rows \in SUBSET Stations,
                 NEW se \in SUBSET (Stations \X Cameras), Saves(t, st, rows, se)
          PROVE  Bind(t, s) \/ Claims(t, s)
      <3>1. s \in rows
        BY <2>1, SaveFacts DEF Saves
      <3> QED BY <2>1, <3>1 DEF Saves
    <2> QED BY <1>2, <2>1, WorkCases
  <1> QED BY <1>1, <1>2, OtherSteps

\* However stale the states written back, no binding is revived: a row appears
\* only by bind_station_to_user, or by a report where that is enabled.
THEOREM NoBindingIsRevived == Spec => OnlyBindBinds
  <1>1. IInv /\ [Next]_vars =>
          [\A s \in bound' \ bound :
             \E t \in Threads :
               Bind(t, s) \/ (AutoBind /\ \E c \in Cameras : Report(t, c, s))]_vars
    BY NextRevivesNothing DEF Claims
  <1> QED BY <1>1, InvariantHolds, PTL DEF Spec, OnlyBindBinds

\* In one process without list requests, tombstones are dropped only by
\* ensure_camera, and rows only by unbind_station_from_user and remove_station.
LEMMA NextKeepsRemovalsAndBindings ==
  ASSUME OneProcess, LInv, [Next]_vars
  PROVE  /\ \A c \in kv.cameraTombstones \ kv'.cameraTombstones :
              \E t \in Threads, s \in Stations : PairCamera(t, c, s)
         /\ \A s \in bound \ bound' : \E t \in Threads : Unbind(t, s) \/ DropStation(t, s)
  <1> DEFINE Kept == /\ \A c \in kv.cameraTombstones \ kv'.cameraTombstones :
                          \E t \in Threads, s \in Stations : PairCamera(t, c, s)
                     /\ \A s \in bound \ bound' : \E t \in Threads : Unbind(t, s) \/ DropStation(t, s)
  <1>1. ASSUME NEW t \in Threads, Load(t) PROVE Kept
    BY <1>1, LoadChangesNothing
  <1>2. ASSUME NEW t \in Threads, Answer(t) PROVE Kept
    BY <1>2 DEF Answer, LInv
  <1>3. ASSUME NEW t \in Threads, Work(t) PROVE Kept
    <2>1. thread[t].state = kv /\ bound \subseteq kv.stations
      BY <1>3, WorkCases DEF LInv, IInv, SavedStateIsSound
    <2>2. ASSUME NEW st \in States, NEW rows \in SUBSET Stations,
                 NEW se \in SUBSET (Stations \X Cameras), Saves(t, st, rows, se)
          PROVE  Kept
      <3>1. kv'.cameraTombstones = st.cameraTombstones /\ bound' = rows \cap st.stations
        BY <2>2, SaveFacts DEF Saves
      <3>2. \A c \in kv.cameraTombstones :
              c \in st.cameraTombstones \/ \E s \in Stations : PairCamera(t, c, s)
        BY <2>1, <2>2 DEF Saves
      <3>3. \A s \in bound : s \in rows \cap st.stations \/ Unbind(t, s) \/ DropStation(t, s)
        BY <2>1, <2>2 DEF Saves
      <3> QED BY <3>1, <3>2, <3>3
    <2> QED BY <1>3, <2>2, WorkCases DEF LInv
  <1> QED BY <1>1, <1>2, <1>3, OtherSteps

\* In one process without list requests, a removed camera is forgotten only by
\* a pairing request, and a binding disappears only by an unbind or with the
\* station that remove_station removes.
THEOREM LockKeepsRemovalsAndBindings ==
  ASSUME OneProcess
  PROVE  Spec => RemovalHolds /\ BindingHolds
  <1>1. LInv /\ [Next]_vars => LInv'
    BY NextKeepsLocking
  <1>2. LInv /\ [Next]_vars =>
          [\A c \in kv.cameraTombstones \ kv'.cameraTombstones :
             \E t \in Threads, s \in Stations : PairCamera(t, c, s)]_vars
    BY NextKeepsRemovalsAndBindings
  <1>3. LInv /\ [Next]_vars =>
          [\A s \in bound \ bound' : \E t \in Threads : Unbind(t, s) \/ DropStation(t, s)]_vars
    BY NextKeepsRemovalsAndBindings
  <1> QED BY <1>1, <1>2, <1>3, InitEstablishesLocking, PTL DEF Spec, RemovalHolds, BindingHolds
=============================================================================
