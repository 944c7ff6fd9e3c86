------------------------- MODULE CameraPairingProofs -------------------------
(***************************************************************************)
(* Proofs about CameraPairing, for any cameras, stations, slots and        *)
(* workers.  The invariant says of a handler under way that it has the     *)
(* camera record its next call writes; what the action properties need of  *)
(* a step is said once, in CameraChanges and SlotChanges.                  *)
(***************************************************************************)
EXTENDS CameraPairing, WellFoundedInduction, TLAPS

SlotTables == [Stations -> [Channels -> SlotRows \cup {NoSlot}]]
CameraTables == [Cameras -> CameraRecords \cup {NoCamera}]

\* What a handler has in hand before each of its calls.
JobHolds(j) ==
  j # Idle =>
    /\ j.at \in {"reserve", "ensure", "rejoin", "activate", "session"} => j.rec # NoCamera
    /\ j.at = "reserve" => j.asked \in Channels

JobsHold == \A w \in Workers : JobHolds(job[w])

\* A slot row is pending or active from the reservation that wrote it.
RowsTaken ==
  \A s \in Stations, i \in Channels :
    slots[s][i] # NoSlot => slots[s][i].active \/ slots[s][i].pending

\* The inductive invariant.
IInv ==
  /\ TypeOK
  /\ JobsHold
  /\ RowsTaken
  /\ TombstonedIsAbsent
  /\ CameraHasStation

(***************************************************************************)
(* The operators.                                                          *)
(***************************************************************************)

\* A set of natural numbers that is not empty has its minimum as an element.
LEMMA MinIsElement ==
  ASSUME NEW S \in SUBSET Nat, S # {}
  PROVE  Min(S) \in S
  <1> DEFINE R == OpToRel(<, Nat)
  <1>1. IsWellFoundedOn(R, Nat)
    BY NatLessThanWellFounded
  <1>2. \A x, y \in Nat : x < y => <<x, y>> \in R
    BY DEF OpToRel
  <1> HIDE DEF R
  <1>3. PICK x \in S : \A y \in S : ~(<<y, x>> \in R)
    BY <1>1, WFMin
  <1>4. \A y \in S : x =< y
    <2> SUFFICES ASSUME NEW y \in S PROVE x =< y
      OBVIOUS
    <2>1. x \in Nat /\ y \in Nat
      OBVIOUS
    <2>2. ~(y < x)
      BY <1>2, <1>3, <2>1
    <2> QED BY <2>1, <2>2
  <1> QED BY <1>4 DEF Min

\* Pruning a slot table keeps its type and empties the stations not recorded.
LEMMA KeptSlotsFacts ==
  ASSUME NEW st, NEW sl \in SlotTables
  PROVE  /\ KeptSlots(st, sl) \in SlotTables
         /\ \A s \in Stations, i \in Channels :
              KeptSlots(st, sl)[s][i] = IF s \in st THEN sl[s][i] ELSE NoSlot
  BY DEF KeptSlots, SlotTables

\* A reservation is granted an index of the slot table; the row there is the
\* camera's own, one with the camera's MAC address, or free.
LEMMA GrantedFacts ==
  ASSUME NEW sl \in SlotTables, NEW s \in Stations, NEW c \in Cameras, NEW k \in Channels,
         NEW i \in Granted(sl, s, c, k)
  PROVE  /\ i \in Channels
         /\ i \in Matching(sl, s, c) \/ Free(sl[s][i])
  <1> DEFINE free == {n \in 0 .. SlotCount - 1 : Free(sl[s][n])}
  <1>1. free \in SUBSET Nat /\ free \in SUBSET Channels
    BY PairingAssumption
  <1>2. Matching(sl, s, c) \in SUBSET Channels /\ Matching(sl, s, c) \in SUBSET Nat
    BY PairingAssumption DEF Matching, Held
  <1>3. CASE Matching(sl, s, c) # {}
    <2>1. i = Min(Matching(sl, s, c))
      BY <1>3 DEF Granted
    <2> QED BY <1>2, <1>3, <2>1, MinIsElement
  <1>4. CASE Matching(sl, s, c) = {} /\ k \in free
    <2>1. i = k
      BY <1>4 DEF Granted
    <2> QED BY <1>4, <2>1
  <1>5. CASE Matching(sl, s, c) = {} /\ k \notin free /\ free # {}
    <2>1. i = Min(free)
      BY <1>5 DEF Granted
    <2>2. i \in free
      BY <1>1, <1>5, <2>1, MinIsElement
    <2> QED BY <1>1, <2>2
  <1>6. CASE Matching(sl, s, c) = {} /\ free = {}
    BY <1>6 DEF Granted
  <1> QED BY <1>3, <1>4, <1>5, <1>6

\* The row a reservation writes.
LEMMA ReservedRowFacts ==
  ASSUME NEW sl \in SlotTables, NEW s \in Stations, NEW c \in Cameras, NEW i \in Channels
  PROVE  /\ ReservedRow(sl, s, c, i) \in SlotRows
         /\ ReservedRow(sl, s, c, i).cam = c
         /\ ReservedRow(sl, s, c, i).pending
  <1>1. sl[s][i] # NoSlot => sl[s][i] \in SlotRows
    BY DEF SlotTables
  <1>2. i \in Matching(sl, s, c) => sl[s][i] # NoSlot
    BY DEF Matching, Held
  <1>3. Mac(c) \in Cameras \cup {NoMac}
    BY DEF Mac
  <1> QED BY <1>1, <1>2, <1>3 DEF ReservedRow, SlotRows

(***************************************************************************)
(* The invariant.                                                          *)
(***************************************************************************)

\* The parts of TypeOK as the steps use them.
LEMMA TypeFacts ==
  ASSUME TypeOK
  PROVE  /\ stations \in SUBSET Stations /\ cameras \in CameraTables
         /\ cameraTombstones \in SUBSET Cameras /\ slots \in SlotTables
         /\ sessions \in SUBSET Sessions /\ job \in [Workers -> Jobs \cup {Idle}]
  BY DEF TypeOK, CameraTables, SlotTables

\* What a save writes, and that it is typed if what it is given is.
LEMMA SaveFacts ==
  ASSUME NEW st \in SUBSET Stations, NEW cs \in CameraTables, NEW tb \in SUBSET Cameras,
         NEW sl \in SlotTables, NEW se \in SUBSET Sessions, Save(st, cs, tb, sl, se)
  PROVE  /\ stations' = st /\ cameras' = cs /\ cameraTombstones' = tb
         /\ slots' \in SlotTables /\ sessions' \in SUBSET Sessions
         /\ \A s \in Stations, i \in Channels :
              slots'[s][i] = IF s \in st THEN sl[s][i] ELSE NoSlot
  <1>1. /\ stations' = st /\ cameras' = cs /\ cameraTombstones' = tb
        /\ slots' = KeptSlots(st, sl) /\ sessions' = KeptSessions(st, se)
    BY DEF Save
  <1>2. KeptSessions(st, se) \in SUBSET Sessions
    BY DEF KeptSessions
  <1> QED BY <1>1, <1>2, KeptSlotsFacts

\* A handler moves on with a job it may hold.
LEMMA JobMoves ==
  ASSUME IInv, NEW w \in Workers, NEW j \in Jobs \cup {Idle}, JobHolds(j),
         job' = [job EXCEPT ![w] = j]
  PROVE  job' \in [Workers -> Jobs \cup {Idle}] /\ JobsHold'
  <1>1. job \in [Workers -> Jobs \cup {Idle}] /\ \A v \in Workers : JobHolds(job[v])
    BY DEF IInv, TypeOK, JobsHold
  <1>2. job' \in [Workers -> Jobs \cup {Idle}]
    BY <1>1
  <1>3. \A v \in Workers : job'[v] = IF v = w THEN j ELSE job[v]
    BY <1>1
  <1>4. \A v \in Workers : JobHolds(job'[v])
    BY <1>1, <1>3
  <1>5. JobsHold'
    BY <1>4 DEF JobsHold, JobHolds
  <1> QED BY <1>2, <1>5

\* Jobs that stand still hold still.
LEMMA JobStays ==
  ASSUME IInv, UNCHANGED job
  PROVE  job' \in [Workers -> Jobs \cup {Idle}] /\ JobsHold'
  BY DEF IInv, TypeOK, JobsHold, JobHolds

\* A save keeps the invariant if the cameras it is given are not removed and
\* have stations, and the slot rows are old ones.
LEMMA SaveKeepsInvariant ==
  ASSUME IInv,
         NEW st \in SUBSET Stations, NEW cs \in CameraTables, NEW tb \in SUBSET Cameras,
         NEW sl \in SlotTables, NEW se \in SUBSET Sessions, Save(st, cs, tb, sl, se),
         \A s \in Stations, i \in Channels : sl[s][i] \in {slots[s][i], NoSlot},
         \A c \in Cameras : cs[c] # NoCamera => c \notin tb /\ cs[c].station \in st,
         job' \in [Workers -> Jobs \cup {Idle}], JobsHold'
  PROVE  IInv'
  <1>1. /\ stations' = st /\ cameras' = cs /\ cameraTombstones' = tb
        /\ slots' \in SlotTables /\ sessions' \in SUBSET Sessions
        /\ \A s \in Stations, i \in Channels :
             slots'[s][i] = IF s \in st THEN sl[s][i] ELSE NoSlot
    BY SaveFacts
  <1>2. TypeOK'
    BY <1>1 DEF TypeOK, SlotTables, CameraTables
  <1>3. RowsTaken'
    BY <1>1 DEF RowsTaken, IInv
  <1>4. TombstonedIsAbsent' /\ CameraHasStation'
    BY <1>1 DEF TombstonedIsAbsent, CameraHasStation, Recorded
  <1> QED BY <1>2, <1>3, <1>4 DEF IInv

\* So does a save of the state as it is.
LEMMA LoadKeepsInvariant ==
  ASSUME IInv, Load, job' \in [Workers -> Jobs \cup {Idle}], JobsHold'
  PROVE  IInv'
  <1>1. /\ stations \in SUBSET Stations /\ cameras \in CameraTables
        /\ cameraTombstones \in SUBSET Cameras /\ slots \in SlotTables
        /\ sessions \in SUBSET Sessions
    BY TypeFacts DEF IInv
  <1>2. \A c \in Cameras : cameras[c] # NoCamera => c \notin cameraTombstones /\ cameras[c].station \in stations
    BY DEF IInv, TombstonedIsAbsent, CameraHasStation, Recorded
  <1>3. Save(stations, cameras, cameraTombstones, slots, sessions)
    BY DEF Load
  <1> QED BY <1>1, <1>2, <1>3, SaveKeepsInvariant

\* ... and a step that touches only the jobs.
LEMMA JobStepKeepsInvariant ==
  ASSUME IInv, UNCHANGED <<stations, cameras, cameraTombstones, slots, sessions>>,
         job' \in [Workers -> Jobs \cup {Idle}], JobsHold'
  PROVE  IInv'
  BY DEF IInv, TypeOK, RowsTaken, TombstonedIsAbsent, CameraHasStation, Recorded

\* ... and a step that writes a taken row into the pruned slot table.
LEMMA SlotWriteKeepsInvariant ==
  ASSUME IInv, NEW s \in Stations, NEW i \in Channels, NEW row \in SlotRows,
         row.active \/ row.pending,
         slots' = [KeptSlots(stations, slots) EXCEPT ![s][i] = row],
         sessions' = KeptSessions(stations, sessions),
         UNCHANGED <<stations, cameras, cameraTombstones>>,
         job' \in [Workers -> Jobs \cup {Idle}], JobsHold'
  PROVE  IInv'
  <1> DEFINE kept == KeptSlots(stations, slots)
  <1>1. /\ kept \in SlotTables
        /\ \A r \in Stations, n \in Channels : kept[r][n] \in {slots[r][n], NoSlot}
    BY TypeFacts, KeptSlotsFacts DEF IInv
  <1> HIDE DEF kept
  <1>2. /\ slots' \in SlotTables
        /\ \A r \in Stations, n \in Channels :
             slots'[r][n] = IF r = s /\ n = i THEN row ELSE kept[r][n]
    BY <1>1 DEF SlotTables, kept
  <1>3. RowsTaken'
    BY <1>1, <1>2 DEF RowsTaken, IInv
  <1>4. sessions' \subseteq Sessions
    BY DEF KeptSessions, IInv, TypeOK
  <1>5. TypeOK'
    BY <1>2, <1>4 DEF IInv, TypeOK, SlotTables
  <1>6. TombstonedIsAbsent' /\ CameraHasStation'
    BY DEF IInv, TombstonedIsAbsent, CameraHasStation, Recorded
  <1> QED BY <1>3, <1>5, <1>6 DEF IInv

\* A reservation writes a pending row and goes on to ensure_camera.
LEMMA ReserveKeepsInvariant ==
  ASSUME IInv, NEW w \in Workers, NEW c \in Cameras, NEW s \in Stations, NEW k \in Channels,
         Reserve(w, c, s, k)
  PROVE  IInv'
  <1> DEFINE kept == KeptSlots(stations, slots)
  <1>1. kept \in SlotTables
    BY TypeFacts, KeptSlotsFacts DEF IInv
  <1>2. PICK i \in Granted(kept, s, c, k) :
          /\ slots' = [kept EXCEPT ![s][i] = ReservedRow(kept, s, c, i)]
          /\ job' = [job EXCEPT ![w] =
               [at |-> "ensure", cam |-> c, asked |-> k,
                rec |-> [station |-> s, channel |-> EffectiveChannel(i, k), pending |-> TRUE]]]
    BY DEF Reserve
  <1>3. /\ sessions' = KeptSessions(stations, sessions)
        /\ UNCHANGED <<stations, cameras, cameraTombstones>>
    BY DEF Reserve
  <1>4. i \in Channels
    BY <1>1, GrantedFacts
  <1>5. /\ ReservedRow(kept, s, c, i) \in SlotRows
        /\ ReservedRow(kept, s, c, i).pending
    BY <1>1, <1>4, ReservedRowFacts
  <1> DEFINE rec == [station |-> s, channel |-> EffectiveChannel(i, k), pending |-> TRUE]
             j == [at |-> "ensure", cam |-> c, asked |-> k, rec |-> rec]
  <1>6. rec \in CameraRecords /\ rec # NoCamera
    <2>1. EffectiveChannel(i, k) \in Channels
      BY <1>4 DEF EffectiveChannel
    <2>2. rec \in CameraRecords
      BY <2>1 DEF CameraRecords
    <2> HIDE DEF rec
    <2> QED BY <2>2, PairingAssumption
  <1>7. j \in Jobs /\ JobHolds(j)
    BY <1>6 DEF Jobs, Stages, JobHolds
  <1>8. job' \in [Workers -> Jobs \cup {Idle}] /\ JobsHold'
    BY <1>2, <1>7, JobMoves
  <1> HIDE DEF kept
  <1>9. slots' = [KeptSlots(stations, slots) EXCEPT ![s][i] = ReservedRow(kept, s, c, i)]
    BY <1>2 DEF kept
  <1> QED BY <1>3, <1>4, <1>5, <1>8, <1>9, SlotWriteKeepsInvariant

\* ensure_camera writes a record together with its station.
LEMMA EnsureKeepsInvariant ==
  ASSUME IInv, NEW c \in Cameras, NEW rec \in CameraRecords, EnsureCamera(c, rec),
         job' \in [Workers -> Jobs \cup {Idle}], JobsHold'
  PROVE  IInv'
  <1> DEFINE st == stations \cup {rec.station}
             cs == [cameras EXCEPT ![c] = rec]
             tb == cameraTombstones \ {c}
             sl == KeptSlots(stations, slots)
             se == KeptSessions(stations, sessions)
  <1>1. /\ stations \in SUBSET Stations /\ cameras \in CameraTables
        /\ cameraTombstones \in SUBSET Cameras /\ slots \in SlotTables
        /\ sessions \in SUBSET Sessions
    BY TypeFacts DEF IInv
  <1>2. st \in SUBSET Stations /\ tb \in SUBSET Cameras /\ cs \in CameraTables
    BY <1>1 DEF CameraRecords, CameraTables
  <1>3. /\ sl \in SlotTables
        /\ \A s \in Stations, i \in Channels : sl[s][i] \in {slots[s][i], NoSlot}
    BY <1>1, KeptSlotsFacts
  <1>4. se \in SUBSET Sessions
    BY <1>1 DEF KeptSessions
  <1>5. \A d \in Cameras : cs[d] = IF d = c THEN rec ELSE cameras[d]
    BY <1>1 DEF CameraTables
  <1>6. \A d \in Cameras : cameras[d] # NoCamera => d \notin cameraTombstones /\ cameras[d].station \in stations
    BY DEF IInv, TombstonedIsAbsent, CameraHasStation, Recorded
  <1>7. Save(st, cs, tb, sl, se)
    BY DEF EnsureCamera
  <1> HIDE DEF cs, sl, se
  <1>8. \A d \in Cameras : cs[d] # NoCamera => d \notin tb /\ cs[d].station \in st
    BY <1>5, <1>6
  <1> HIDE DEF st, tb
  <1> QED BY <1>2, <1>3, <1>4, <1>7, <1>8, SaveKeepsInvariant

\* What a handler under way has in hand.
LEMMA JobFacts ==
  ASSUME IInv, NEW w \in Workers, job[w] # Idle
  PROVE  /\ job[w] \in Jobs /\ JobHolds(job[w])
         /\ job[w].cam \in Cameras /\ job[w].at \in Stages
         /\ job[w].rec \in CameraRecords \cup {NoCamera}
         /\ job[w].asked \in Channels \cup {Derived}
  BY DEF IInv, TypeOK, JobsHold, Jobs

\* A handler goes from one call to another that needs no more than it has.
LEMMA JobAdvances ==
  ASSUME IInv, NEW w \in Workers, job[w] # Idle, NEW where \in Stages,
         where \notin {"reserve", "ensure", "rejoin", "activate", "session"} \/ job[w].rec # NoCamera,
         where # "reserve",
         job' = [job EXCEPT ![w].at = where]
  PROVE  job' \in [Workers -> Jobs \cup {Idle}] /\ JobsHold'
  <1> DEFINE j == [job[w] EXCEPT !.at = where]
  <1>1. job[w] \in Jobs
    BY JobFacts
  <1>2. j \in Jobs /\ JobHolds(j)
    BY <1>1 DEF Jobs, JobHolds
  <1>3. job' = [job EXCEPT ![w] = j]
    OBVIOUS
  <1> HIDE DEF j
  <1> QED BY <1>2, <1>3, JobMoves

\* A handler ends.
LEMMA JobEnds ==
  ASSUME IInv, NEW w \in Workers, job' = [job EXCEPT ![w] = Idle]
  PROVE  job' \in [Workers -> Jobs \cup {Idle}] /\ JobsHold'
  BY JobMoves DEF JobHolds

\* The calls of a handler under way, one lemma each: ensure_camera,
LEMMA EnsureStep ==
  ASSUME IInv, NEW w \in Workers, Ensure(w) \/ Rejoin(w)
  PROVE  IInv'
  <1>1. job[w] # Idle /\ job[w].at \in {"ensure", "rejoin"}
    BY DEF Ensure, Rejoin
  <1>2. job[w].cam \in Cameras /\ job[w].rec \in CameraRecords
    BY <1>1, JobFacts DEF JobHolds
  <1>3. EnsureCamera(job[w].cam, job[w].rec)
    BY DEF Ensure, Rejoin
  <1>4. PICK where \in {"session", "settings"} : job' = [job EXCEPT ![w].at = where]
    BY DEF Ensure, Rejoin
  <1>5. job[w].rec # NoCamera
    BY <1>2, PairingAssumption
  <1>6. job' \in [Workers -> Jobs \cup {Idle}] /\ JobsHold'
    BY <1>1, <1>4, <1>5, JobAdvances DEF Stages
  <1> QED BY <1>2, <1>3, <1>6, EnsureKeepsInvariant

\* upsert_pairing_session,
LEMMA UpsertSessionStep ==
  ASSUME IInv, NEW w \in Workers, UpsertSession(w)
  PROVE  IInv'
  <1> DEFINE j == job[w]
             x == [station |-> j.rec.station, cam |-> j.cam, channel |-> j.rec.channel,
                   asked |-> IF j.asked = Derived THEN j.rec.channel ELSE j.asked]
  <1>1. j # Idle /\ j.at = "session"
    BY DEF UpsertSession
  <1>2. j.cam \in Cameras /\ j.rec \in CameraRecords /\ j.asked \in Channels \cup {Derived}
    BY <1>1, JobFacts DEF JobHolds
  <1>3. x \in Sessions
    BY <1>2 DEF Sessions, CameraRecords
  <1>4. sessions' = {y \in sessions : <<y.station, y.cam, y.asked>> # <<x.station, x.cam, x.asked>>} \cup {x}
    BY DEF UpsertSession
  <1> HIDE DEF x
  <1>5. sessions' \subseteq Sessions
    BY <1>3, <1>4 DEF IInv, TypeOK
  <1>6. job' \in [Workers -> Jobs \cup {Idle}] /\ JobsHold'
    BY JobEnds DEF UpsertSession
  <1>7. UNCHANGED <<stations, cameras, cameraTombstones, slots>>
    BY DEF UpsertSession
  <1> QED BY <1>5, <1>6, <1>7 DEF IInv, TypeOK, RowsTaken, TombstonedIsAbsent, CameraHasStation, Recorded

\* update_camera_settings,
LEMMA SettingsStep ==
  ASSUME IInv, NEW w \in Workers, Settings(w)
  PROVE  IInv'
  <1> DEFINE c == job[w].cam
             rec == IF c \in Recorded THEN cameras[c] ELSE job[w].rec
             j == [job[w] EXCEPT !.rec = rec,
                                 !.at = IF rec = NoCamera THEN "recover" ELSE "activate"]
  <1>1. job[w] # Idle
    BY DEF Settings
  <1>2. job[w] \in Jobs /\ c \in Cameras /\ job[w].rec \in CameraRecords \cup {NoCamera}
    BY <1>1, JobFacts
  <1>3. rec \in CameraRecords \cup {NoCamera}
    BY <1>2 DEF IInv, TypeOK
  <1>4. j \in Jobs /\ JobHolds(j)
    BY <1>2, <1>3 DEF Jobs, Stages, JobHolds
  <1>5. job' = [job EXCEPT ![w] = j]
    BY DEF Settings
  <1> HIDE DEF j
  <1>6. job' \in [Workers -> Jobs \cup {Idle}] /\ JobsHold'
    BY <1>4, <1>5, JobMoves
  <1> QED BY <1>6, LoadKeepsInvariant DEF Settings

\* A recovered context names a record.
LEMMA ContextFacts ==
  ASSUME TypeOK, NEW c \in Cameras, NEW x \in Contexts(c)
  PROVE  x.rec \in CameraRecords /\ x.asked \in Channels
  <1>1. ASSUME NEW y \in sessions,
               x = [rec |-> [station |-> y.station, channel |-> y.channel, pending |-> FALSE],
                    asked |-> y.asked]
        PROVE  x.rec \in CameraRecords /\ x.asked \in Channels
    <2>1. y.station \in Stations /\ y.channel \in Channels /\ y.asked \in Channels
      BY DEF TypeOK, Sessions
    <2>2. [station |-> y.station, channel |-> y.channel, pending |-> FALSE] \in CameraRecords
      BY <2>1 DEF CameraRecords
    <2> QED BY <1>1, <2>1, <2>2
  <1>2. ASSUME NEW s \in Stations, NEW i \in Channels, NEW k \in Channels,
               x = [rec |-> [station |-> s, channel |-> i, pending |-> FALSE], asked |-> k]
        PROVE  x.rec \in CameraRecords /\ x.asked \in Channels
    <2>1. [station |-> s, channel |-> i, pending |-> FALSE] \in CameraRecords
      BY DEF CameraRecords
    <2> QED BY <1>2, <2>1
  <1> QED BY <1>1, <1>2 DEF Contexts, SlotsOf, Held

\* resolve_pairing_context with the reservation or record it leads to,
LEMMA RecoverStep ==
  ASSUME IInv, NEW w \in Workers, Recover(w)
  PROVE  IInv'
  <1>1. job[w] # Idle /\ UNCHANGED <<stations, cameras, cameraTombstones, slots, sessions>>
    BY DEF Recover
  <1>2. job[w] \in Jobs /\ job[w].cam \in Cameras
    BY <1>1, JobFacts
  <1>3. ASSUME NEW x \in Contexts(job[w].cam),
               job' = [job EXCEPT ![w].at = "rejoin", ![w].rec = x.rec, ![w].asked = x.asked]
        PROVE  job' \in [Workers -> Jobs \cup {Idle}] /\ JobsHold'
    <2> DEFINE j == [job[w] EXCEPT !.at = "rejoin", !.rec = x.rec, !.asked = x.asked]
    <2>1. x.rec \in CameraRecords /\ x.asked \in Channels
      BY <1>2, ContextFacts DEF IInv
    <2>2. x.rec # NoCamera
      BY <2>1, PairingAssumption
    <2>3. j \in Jobs /\ JobHolds(j)
      BY <1>2, <2>1, <2>2 DEF Jobs, Stages, JobHolds
    <2>4. job' = [job EXCEPT ![w] = j]
      BY <1>3
    <2> HIDE DEF j
    <2> QED BY <2>3, <2>4, JobMoves
  <1>4. job' \in [Workers -> Jobs \cup {Idle}] /\ JobsHold'
    BY <1>3, JobEnds DEF Recover
  <1> QED BY <1>1, <1>4, JobStepKeepsInvariant

\* activate_pairing_slot,
LEMMA ActivateStep ==
  ASSUME IInv, NEW w \in Workers, Activate(w)
  PROVE  IInv'
  <1> DEFINE j == job[w]
             s == j.rec.station
             i == j.rec.channel
             kept == KeptSlots(stations, slots)
             row == [cam |-> j.cam, active |-> TRUE, pending |-> FALSE,
                     mac |-> IF Mac(j.cam) = NoMac /\ kept[s][i] # NoSlot THEN kept[s][i].mac ELSE Mac(j.cam)]
  <1>1. j # Idle /\ j.at = "activate"
    BY DEF Activate
  <1>2. j.cam \in Cameras /\ j.rec \in CameraRecords
    BY <1>1, JobFacts DEF JobHolds
  <1>3. s \in Stations /\ i \in Channels
    BY <1>2 DEF CameraRecords
  <1>4. kept \in SlotTables
    BY TypeFacts, KeptSlotsFacts DEF IInv
  <1>5. kept[s][i] # NoSlot => kept[s][i] \in SlotRows
    BY <1>3, <1>4 DEF SlotTables
  <1>6. row \in SlotRows /\ row.active
    BY <1>2, <1>5 DEF SlotRows, Mac
  <1>7. slots' = [kept EXCEPT ![s][i] = row] /\ sessions' = KeptSessions(stations, sessions)
    BY DEF Activate
  <1>8. UNCHANGED <<stations, cameras, cameraTombstones>>
    BY DEF Activate
  <1>9. job' \in [Workers -> Jobs \cup {Idle}] /\ JobsHold'
    <2>1. j.rec # NoCamera
      BY <1>2, PairingAssumption
    <2>2. job' = [job EXCEPT ![w].at = "session"]
      BY DEF Activate
    <2> QED BY <1>1, <2>1, <2>2, JobAdvances DEF Stages
  <1> HIDE DEF row, s, i
  <1> QED BY <1>3, <1>6, <1>7, <1>8, <1>9, SlotWriteKeepsInvariant

\* camera/add-blind, from its first call.
LEMMA AddBlindKeepsInvariant ==
  ASSUME IInv, NEW w \in Workers, NEW c \in Cameras, NEW s \in Stations, NEW k \in Channels,
         AddBlind(w, c, s, k)
  PROVE  IInv'
  <1> DEFINE mine == SlotsOf(KeptSlots(stations, slots), s, c)
             i == IF k \in mine THEN k ELSE Min(mine)
             rec == [station |-> s, channel |-> i, pending |-> TRUE]
             j == [at |-> "reserve", cam |-> c, asked |-> i, rec |-> rec]
  <1>1. mine \in SUBSET Channels /\ mine \in SUBSET Nat /\ mine # {}
    BY PairingAssumption DEF SlotsOf, Held, AddBlind
  <1>2. i \in Channels
    BY <1>1, MinIsElement
  <1>3. job' = [job EXCEPT ![w] = j] /\ Load
    BY DEF AddBlind
  <1> HIDE DEF i
  <1>4. rec \in CameraRecords
    BY <1>2 DEF CameraRecords
  <1>5. rec # NoCamera
    BY <1>4, PairingAssumption
  <1>6. j \in Jobs /\ JobHolds(j)
    BY <1>2, <1>4, <1>5 DEF Jobs, Stages, JobHolds
  <1> HIDE DEF j
  <1>7. job' \in [Workers -> Jobs \cup {Idle}] /\ JobsHold'
    BY <1>3, <1>6, JobMoves
  <1> QED BY <1>3, <1>7, LoadKeepsInvariant

\* The reservation of camera/add-blind, which may find no free slot.
LEMMA AddBlindReserveStep ==
  ASSUME IInv, NEW w \in Workers, AddBlindReserve(w)
  PROVE  IInv'
  <1>1. job[w] # Idle /\ job[w].at = "reserve"
    BY DEF AddBlindReserve
  <1>2. job[w].cam \in Cameras /\ job[w].rec \in CameraRecords /\ job[w].asked \in Channels
    BY <1>1, JobFacts DEF JobHolds
  <1>3. job[w].rec.station \in Stations
    BY <1>2 DEF CameraRecords
  <1>4. CASE Reserve(w, job[w].cam, job[w].rec.station, job[w].asked)
    BY <1>2, <1>3, <1>4, ReserveKeepsInvariant
  <1>5. CASE job' = [job EXCEPT ![w] = Idle] /\ Load
    <2>1. job' \in [Workers -> Jobs \cup {Idle}] /\ JobsHold'
      BY <1>5, JobEnds
    <2> QED BY <1>5, <2>1, LoadKeepsInvariant
  <1> QED BY <1>4, <1>5 DEF AddBlindReserve

\* camera/set, with a camera it names or not.
LEMMA CameraSetKeepsInvariant ==
  ASSUME IInv, NEW w \in Workers, NEW c \in Cameras, CameraSetNamed(w, c) \/ CameraSetUnnamed(w, c)
  PROVE  IInv'
  <1>1. ASSUME NEW rec \in CameraRecords \cup {NoCamera},
               job' = [job EXCEPT ![w] = [at |-> "settings", cam |-> c, rec |-> rec, asked |-> Derived]]
        PROVE  job' \in [Workers -> Jobs \cup {Idle}] /\ JobsHold'
    <2> DEFINE j == [at |-> "settings", cam |-> c, rec |-> rec, asked |-> Derived]
    <2>1. j \in Jobs /\ JobHolds(j)
      BY DEF Jobs, Stages, JobHolds
    <2> HIDE DEF j
    <2>2. job' = [job EXCEPT ![w] = j]
      BY <1>1 DEF j
    <2> QED BY <2>1, <2>2, JobMoves
  <1>2. CASE CameraSetUnnamed(w, c)
    BY <1>1, <1>2, JobStepKeepsInvariant DEF CameraSetUnnamed
  <1>3. CASE CameraSetNamed(w, c)
    <2> DEFINE bound == IF c \in Recorded THEN [cameras[c] EXCEPT !.pending = FALSE] ELSE NoCamera
               cs == [cameras EXCEPT ![c] = bound]
    <2>1. /\ stations \in SUBSET Stations /\ cameras \in CameraTables
          /\ cameraTombstones \in SUBSET Cameras /\ slots \in SlotTables
          /\ sessions \in SUBSET Sessions
      BY TypeFacts DEF IInv
    <2>2. c \in Recorded => cameras[c] \in CameraRecords
      BY <2>1 DEF Recorded, CameraTables
    <2>3. /\ bound \in CameraRecords \cup {NoCamera}
          /\ bound # NoCamera => cameras[c] # NoCamera /\ bound.station = cameras[c].station
      BY <2>2 DEF CameraRecords, Recorded
    <2>4. /\ job' = [job EXCEPT ![w] = [at |-> "settings", cam |-> c, rec |-> bound, asked |-> Derived]]
          /\ Save(stations, cs, cameraTombstones, slots, sessions)
      BY <1>3 DEF CameraSetNamed
    <2> HIDE DEF bound
    <2>5. cs \in CameraTables /\ \A d \in Cameras : cs[d] = IF d = c THEN bound ELSE cameras[d]
      BY <2>1, <2>3 DEF CameraTables
    <2>6. \A d \in Cameras : cs[d] # NoCamera => d \notin cameraTombstones /\ cs[d].station \in stations
      BY <2>3, <2>5 DEF IInv, TombstonedIsAbsent, CameraHasStation, Recorded
    <2>7. job' \in [Workers -> Jobs \cup {Idle}] /\ JobsHold'
      BY <1>1, <2>3, <2>4
    <2> HIDE DEF cs
    <2> QED BY <2>1, <2>4, <2>5, <2>6, <2>7, SaveKeepsInvariant
  <1> QED BY <1>2, <1>3

\* The requests of one call: remove_camera,
LEMMA RemoveCameraKeepsInvariant ==
  ASSUME IInv, NEW c \in Cameras, RemoveCamera(c)
  PROVE  IInv'
  <1> DEFINE cs == [cameras EXCEPT ![c] = NoCamera]
             tb == cameraTombstones \cup {c}
             sl == [s \in Stations |-> [i \in Channels |->
                      IF i \in SlotsOf(slots, s, c) THEN NoSlot ELSE slots[s][i]]]
             se == {x \in sessions : x.cam # c}
  <1>1. /\ stations \in SUBSET Stations /\ cameras \in CameraTables
        /\ cameraTombstones \in SUBSET Cameras /\ slots \in SlotTables
        /\ sessions \in SUBSET Sessions
    BY TypeFacts DEF IInv
  <1>2. /\ cs \in CameraTables /\ tb \in SUBSET Cameras /\ se \in SUBSET Sessions
        /\ \A d \in Cameras : cs[d] = IF d = c THEN NoCamera ELSE cameras[d]
    BY <1>1 DEF CameraTables
  <1>3. sl \in SlotTables /\ \A s \in Stations, i \in Channels : sl[s][i] \in {slots[s][i], NoSlot}
    BY <1>1 DEF SlotTables
  <1>4. \A d \in Cameras : cs[d] # NoCamera => d \notin tb /\ cs[d].station \in stations
    BY <1>2 DEF IInv, TombstonedIsAbsent, CameraHasStation, Recorded
  <1>5. Save(stations, cs, tb, sl, se) /\ UNCHANGED job
    BY DEF RemoveCamera
  <1>6. job' \in [Workers -> Jobs \cup {Idle}] /\ JobsHold'
    BY <1>5, JobStays
  <1> HIDE DEF cs, tb, sl, se
  <1> QED BY <1>1, <1>2, <1>3, <1>4, <1>5, <1>6, SaveKeepsInvariant

\* remove_station,
LEMMA RemoveStationKeepsInvariant ==
  ASSUME IInv, NEW s \in Stations, RemoveStation(s)
  PROVE  IInv'
  <1> DEFINE gone == {c \in Recorded : cameras[c].station = s}
             cs == [c \in Cameras |-> IF c \in gone THEN NoCamera ELSE cameras[c]]
             tb == cameraTombstones \cup gone
             st == stations \ {s}
  <1>1. /\ stations \in SUBSET Stations /\ cameras \in CameraTables
        /\ cameraTombstones \in SUBSET Cameras /\ slots \in SlotTables
        /\ sessions \in SUBSET Sessions
    BY TypeFacts DEF IInv
  <1>2. /\ cs \in CameraTables /\ tb \in SUBSET Cameras /\ st \in SUBSET Stations
        /\ \A d \in Cameras : cs[d] = IF d \in gone THEN NoCamera ELSE cameras[d]
    BY <1>1 DEF CameraTables, Recorded
  <1>3. \A d \in Cameras : cs[d] # NoCamera => d \notin tb /\ cs[d].station \in st
    BY <1>2 DEF IInv, TombstonedIsAbsent, CameraHasStation, Recorded
  <1>4. Save(st, cs, tb, slots, sessions) /\ UNCHANGED job
    BY DEF RemoveStation
  <1>5. job' \in [Workers -> Jobs \cup {Idle}] /\ JobsHold'
    BY <1>4, JobStays
  <1> HIDE DEF cs, tb, st
  <1> QED BY <1>1, <1>2, <1>3, <1>4, <1>5, SaveKeepsInvariant

\* update_station_status with its cameras,
LEMMA ReportKeepsInvariant ==
  ASSUME IInv, NEW s \in Stations, NEW c \in Cameras, NEW k \in Channels, Report(s, c, k)
  PROVE  IInv'
  <1> DEFINE rec == [station |-> s, channel |-> k, pending |-> FALSE]
             cs == [cameras EXCEPT ![c] = rec]
             st == stations \cup {s}
  <1>1. /\ stations \in SUBSET Stations /\ cameras \in CameraTables
        /\ cameraTombstones \in SUBSET Cameras /\ slots \in SlotTables
        /\ sessions \in SUBSET Sessions
    BY TypeFacts DEF IInv
  <1>2. rec \in CameraRecords /\ rec.station = s
    BY DEF CameraRecords
  <1> HIDE DEF rec
  <1>3. /\ cs \in CameraTables /\ st \in SUBSET Stations
        /\ \A d \in Cameras : cs[d] = IF d = c THEN rec ELSE cameras[d]
    BY <1>1, <1>2 DEF CameraTables
  <1>4. c \notin cameraTombstones
    BY DEF Report, Reportable
  <1>5. \A d \in Cameras : cs[d] # NoCamera => d \notin cameraTombstones /\ cs[d].station \in st
    BY <1>2, <1>3, <1>4 DEF IInv, TombstonedIsAbsent, CameraHasStation, Recorded
  <1>6. Save(st, cs, cameraTombstones, slots, sessions) /\ UNCHANGED job
    BY DEF Report, rec
  <1>7. job' \in [Workers -> Jobs \cup {Idle}] /\ JobsHold'
    BY <1>6, JobStays
  <1> HIDE DEF cs, st
  <1> QED BY <1>1, <1>3, <1>5, <1>6, <1>7, SaveKeepsInvariant

\* and the calls that record a station.
LEMMA KnowStationKeepsInvariant ==
  ASSUME IInv, NEW s \in Stations, KnowStation(s)
  PROVE  IInv'
  <1> DEFINE st == stations \cup {s}
  <1>1. /\ st \in SUBSET Stations /\ cameras \in CameraTables
        /\ cameraTombstones \in SUBSET Cameras /\ slots \in SlotTables
        /\ sessions \in SUBSET Sessions
    BY TypeFacts DEF IInv
  <1>2. \A d \in Cameras : cameras[d] # NoCamera => d \notin cameraTombstones /\ cameras[d].station \in st
    BY DEF IInv, TombstonedIsAbsent, CameraHasStation, Recorded
  <1>3. Save(st, cameras, cameraTombstones, slots, sessions) /\ UNCHANGED job
    BY DEF KnowStation
  <1>4. job' \in [Workers -> Jobs \cup {Idle}] /\ JobsHold'
    BY <1>3, JobStays
  <1> HIDE DEF st
  <1> QED BY <1>1, <1>2, <1>3, <1>4, SaveKeepsInvariant

\* A new database satisfies the invariant.
LEMMA InitEstablishesInvariant == Init => IInv
  <1> SUFFICES ASSUME Init PROVE IInv
    OBVIOUS
  <1> DEFINE first == [station |-> DefaultStation, channel |-> 0, pending |-> FALSE]
  <1>1. first \in CameraRecords /\ first.station = DefaultStation
    BY PairingAssumption DEF CameraRecords
  <1>2. \A c \in Cameras : cameras[c] = IF c = DefaultCamera THEN first ELSE NoCamera
    BY DEF Init
  <1>3. cameras = [c \in Cameras |-> IF c = DefaultCamera THEN first ELSE NoCamera]
    BY DEF Init
  <1> HIDE DEF first
  <1>4. cameras \in [Cameras -> CameraRecords \cup {NoCamera}]
    BY <1>1, <1>3
  <1>5. stations = {DefaultStation} /\ cameraTombstones = {} /\ sessions = {}
    BY DEF Init
  <1>6. /\ slots \in [Stations -> [Channels -> SlotRows \cup {NoSlot}]]
        /\ \A s \in Stations, i \in Channels : slots[s][i] = NoSlot
    BY DEF Init
  <1>7. job \in [Workers -> Jobs \cup {Idle}] /\ \A w \in Workers : job[w] = Idle
    BY DEF Init
  <1>8. TypeOK
    BY <1>4, <1>5, <1>6, <1>7, PairingAssumption DEF TypeOK
  <1>9. JobsHold /\ RowsTaken
    BY <1>6, <1>7 DEF JobsHold, JobHolds, RowsTaken
  <1>10. TombstonedIsAbsent /\ CameraHasStation
    BY <1>1, <1>2, <1>5 DEF TombstonedIsAbsent, CameraHasStation, Recorded
  <1> QED BY <1>8, <1>9, <1>10 DEF IInv

\* Every step of Next, with the values its request may carry.
LEMMA NextCases ==
  ASSUME Next
  PROVE  \/ \E c \in Cameras : RemoveCamera(c)
         \/ \E s \in Stations : RemoveStation(s)
         \/ \E s \in Stations : KnowStation(s)
         \/ \E s \in Stations, c \in Cameras, k \in Channels : Report(s, c, k)
         \/ \E w \in Workers, c \in Cameras, s \in Stations, k \in Channels : CheckBindByIot(w, c, s, k)
         \/ \E w \in Workers, c \in Cameras, s \in Stations, k \in Channels : AddBlind(w, c, s, k)
         \/ \E w \in Workers, c \in Cameras : CameraSetNamed(w, c)
         \/ \E w \in Workers, c \in Cameras : CameraSetUnnamed(w, c)
         \/ \E w \in Workers : AddBlindReserve(w)
         \/ \E w \in Workers : Ensure(w)
         \/ \E w \in Workers : UpsertSession(w)
         \/ \E w \in Workers : Settings(w)
         \/ \E w \in Workers : Recover(w)
         \/ \E w \in Workers : Rejoin(w)
         \/ \E w \in Workers : Activate(w)
         \/ \E w \in Workers : Abandon(w)
  <1>1. AskedStations \subseteq Stations /\ AskedChannels \subseteq Channels /\ ReportedChannels \subseteq Channels
    BY PairingAssumption
  <1>2. CASE DeviceStep
    BY <1>1, <1>2 DEF DeviceStep
  <1>3. CASE \E w \in Workers : HandlerStep(w)
    BY <1>3 DEF HandlerStep
  <1>4. CASE \E w \in Workers : Request(w)
    BY <1>1, <1>4 DEF Request
  <1> QED BY <1>2, <1>3, <1>4 DEF Next

\* Every step keeps the invariant.
LEMMA NextKeepsInvariant == IInv /\ [Next]_vars => IInv'
  <1> SUFFICES ASSUME IInv, [Next]_vars PROVE IInv'
    OBVIOUS
  <1>1. ASSUME NEW w \in Workers, NEW c \in Cameras, NEW s \in Stations, NEW k \in Channels,
               CheckBindByIot(w, c, s, k)
        PROVE  IInv'
    BY <1>1, ReserveKeepsInvariant DEF CheckBindByIot
  <1>2. ASSUME NEW w \in Workers, Abandon(w) PROVE IInv'
    <2>1. job' \in [Workers -> Jobs \cup {Idle}] /\ JobsHold'
      BY <1>2, JobEnds DEF Abandon
    <2> QED BY <1>2, <2>1, JobStepKeepsInvariant DEF Abandon
  <1>3. CASE UNCHANGED vars
    <2>1. UNCHANGED job /\ UNCHANGED <<stations, cameras, cameraTombstones, slots, sessions>>
      BY <1>3 DEF vars
    <2> QED BY <2>1, JobStays, JobStepKeepsInvariant
  <1>4. CASE Next
    BY <1>1, <1>2, <1>4, NextCases, RemoveCameraKeepsInvariant, RemoveStationKeepsInvariant,
       KnowStationKeepsInvariant, ReportKeepsInvariant, AddBlindKeepsInvariant,
       CameraSetKeepsInvariant, AddBlindReserveStep, EnsureStep, UpsertSessionStep,
       SettingsStep, RecoverStep, ActivateStep
  <1> QED BY <1>3, <1>4

\* The invariant, for any cameras, stations, slots and request threads.
THEOREM InvariantHolds == Spec => []IInv
  BY InitEstablishesInvariant, NextKeepsInvariant, PTL DEF Spec

\* Every variable stays in its type: no sequence of calls stores a record
\* without a station or hands a handler a channel that no slot can have.
THEOREM TypeCorrect == Spec => []TypeOK
  <1>1. IInv => TypeOK
    BY DEF IInv
  <1> QED BY <1>1, InvariantHolds, PTL

\* No camera is recorded and removed at once.
THEOREM RemovedCamerasAreAbsent == Spec => []TombstonedIsAbsent
  <1>1. IInv => TombstonedIsAbsent
    BY DEF IInv
  <1> QED BY <1>1, InvariantHolds, PTL

\* Every recorded camera's station is recorded, so the foreign key of the
\* cameras table holds whatever is saved.
THEOREM CamerasHaveStations == Spec => []CameraHasStation
  <1>1. IInv => CameraHasStation
    BY DEF IInv
  <1> QED BY <1>1, InvariantHolds, PTL

(***************************************************************************)
(* What a step may never do.                                               *)
(***************************************************************************)

\* A pairing request, or a camera/set that recovered its context, writes c.
Pairs(c) ==
  \E w \in Workers : job[w] # Idle /\ job[w].cam = c /\ job[w].at \in {"ensure", "rejoin"}
                      /\ job'[w] # job[w]

\* camera/set has got to the activation of its slot.
Activates == \E w \in Workers : job[w] # Idle /\ job[w].at = "activate" /\ job'[w] # job[w]

\* A handler that takes its next call is somewhere else afterwards.
LEMMA JobChanges ==
  ASSUME IInv, NEW w \in Workers, job[w] # Idle, NEW where, where # job[w].at,
         job' = [job EXCEPT ![w].at = where]
  PROVE  job'[w] # job[w]
  <1>1. job[w] \in Jobs /\ job \in [Workers -> Jobs \cup {Idle}]
    BY JobFacts DEF IInv, TypeOK
  <1>2. job'[w] = [job[w] EXCEPT !.at = where]
    BY <1>1
  <1>3. job'[w].at = where
    BY <1>1, <1>2 DEF Jobs
  <1> QED BY <1>3

\* What a step can do to the record of a camera: keep it, remove it, write it
\* by a pairing request, or write it for a camera that is not removed,
\* leaving it at its station.
LEMMA CameraChanges ==
  ASSUME IInv, [Next]_vars, NEW c \in Cameras
  PROVE  \/ cameras'[c] \in {cameras[c], NoCamera}
         \/ Pairs(c)
         \/ /\ c \notin cameraTombstones
            /\ cameras[c] # NoCamera => cameras'[c].station = cameras[c].station
  <1> DEFINE Fine == \/ cameras'[c] \in {cameras[c], NoCamera}
                     \/ Pairs(c)
                     \/ /\ c \notin cameraTombstones
                        /\ cameras[c] # NoCamera => cameras'[c].station = cameras[c].station
  <1>1. cameras \in CameraTables
    BY TypeFacts DEF IInv
  <1>2. CASE UNCHANGED cameras
    BY <1>2
  <1>3. CASE Load
    BY <1>3 DEF Load, Save
  <1>4. ASSUME NEW d \in Cameras, RemoveCamera(d) PROVE Fine
    <2>1. cameras' = [cameras EXCEPT ![d] = NoCamera]
      BY <1>4 DEF RemoveCamera, Save
    <2> QED BY <1>1, <2>1 DEF CameraTables
  <1>5. ASSUME NEW s \in Stations, RemoveStation(s) PROVE Fine
    <2>1. cameras' = [d \in Cameras |->
             IF d \in {x \in Recorded : cameras[x].station = s} THEN NoCamera ELSE cameras[d]]
      BY <1>5 DEF RemoveStation, Save
    <2> QED BY <2>1
  <1>6. ASSUME NEW s \in Stations, NEW d \in Cameras, NEW k \in Channels, Report(s, d, k) PROVE Fine
    <2>1. /\ cameras' = [cameras EXCEPT ![d] = [station |-> s, channel |-> k, pending |-> FALSE]]
          /\ d \notin cameraTombstones /\ (d \in Recorded => cameras[d].station = s)
      BY <1>6 DEF Report, Reportable, Save
    <2>2. CASE d = c
      <3>1. cameras'[c] = [station |-> s, channel |-> k, pending |-> FALSE]
        BY <1>1, <2>1, <2>2 DEF CameraTables
      <3>2. cameras'[c].station = s
        BY <3>1
      <3> QED BY <2>1, <2>2, <3>2 DEF Recorded
    <2>3. CASE d # c
      BY <1>1, <2>1, <2>3 DEF CameraTables
    <2> QED BY <2>2, <2>3
  <1>7. ASSUME NEW w \in Workers, NEW d \in Cameras, CameraSetNamed(w, d) PROVE Fine
    <2> DEFINE bound == IF d \in Recorded THEN [cameras[d] EXCEPT !.pending = FALSE] ELSE NoCamera
    <2>1. cameras' = [cameras EXCEPT ![d] = bound]
      BY <1>7 DEF CameraSetNamed, Save
    <2>2. CASE d = c /\ c \in Recorded
      <3>1. cameras[c] \in CameraRecords
        BY <1>1, <2>2 DEF Recorded, CameraTables
      <3>2. cameras'[c] = [cameras[c] EXCEPT !.pending = FALSE]
        BY <1>1, <2>1, <2>2 DEF CameraTables
      <3>3. cameras'[c].station = cameras[c].station
        BY <3>1, <3>2 DEF CameraRecords
      <3>4. c \notin cameraTombstones
        BY <2>2 DEF IInv, TombstonedIsAbsent
      <3> QED BY <3>3, <3>4
    <2>3. CASE d = c /\ c \notin Recorded
      BY <1>1, <2>1, <2>3 DEF CameraTables
    <2>4. CASE d # c
      BY <1>1, <2>1, <2>4 DEF CameraTables
    <2> QED BY <2>2, <2>3, <2>4
  <1>8. ASSUME NEW w \in Workers, Ensure(w) \/ Rejoin(w) PROVE Fine
    <2>1. /\ job[w] # Idle /\ job[w].at \in {"ensure", "rejoin"}
          /\ cameras' = [cameras EXCEPT ![job[w].cam] = job[w].rec]
      BY <1>8 DEF Ensure, Rejoin, EnsureCamera, Save
    <2>2. PICK where \in {"session", "settings"} : job' = [job EXCEPT ![w].at = where]
      BY <1>8 DEF Ensure, Rejoin
    <2>3. job'[w] # job[w]
      BY <2>1, <2>2, JobChanges
    <2>4. CASE job[w].cam = c
      BY <2>1, <2>3, <2>4 DEF Pairs
    <2>5. CASE job[w].cam # c
      BY <1>1, <2>1, <2>5 DEF CameraTables
    <2> QED BY <2>4, <2>5
  <1>9. ASSUME NEW s \in Stations, KnowStation(s) PROVE Fine
    BY <1>9 DEF KnowStation, Save
  <1> HIDE DEF Fine
  <1>10. CASE UNCHANGED vars
    BY <1>2, <1>10 DEF vars, Fine
  <1>11. ASSUME UNCHANGED cameras \/ Load PROVE Fine
    BY <1>2, <1>3, <1>11 DEF Fine
  <1>12. ASSUME NEW w \in Workers, NEW d \in Cameras, NEW s \in Stations, NEW k \in Channels,
                CheckBindByIot(w, d, s, k) \/ AddBlind(w, d, s, k)
         PROVE  Fine
    BY <1>11, <1>12 DEF CheckBindByIot, AddBlind, Reserve
  <1>13. ASSUME NEW w \in Workers,
                AddBlindReserve(w) \/ UpsertSession(w) \/ Settings(w) \/ Recover(w) \/ Activate(w) \/ Abandon(w)
         PROVE  Fine
    BY <1>11, <1>13 DEF AddBlindReserve, Reserve, UpsertSession, Settings, Recover, Activate, Abandon
  <1>14. ASSUME NEW w \in Workers, NEW d \in Cameras, CameraSetUnnamed(w, d) PROVE Fine
    BY <1>11, <1>14 DEF CameraSetUnnamed
  <1>15. ASSUME Next PROVE Fine
    BY <1>4, <1>5, <1>6, <1>7, <1>8, <1>9, <1>12, <1>13, <1>14, <1>15, NextCases
  <1> QED BY <1>10, <1>15 DEF Fine

\* Whatever reports, renames and removals come in between: a removed camera
\* is recorded again only by a call of a pairing request, or of a camera/set
\* that recovered its pairing context.
THEOREM RemovedCamerasStayRemoved == Spec => RemovedStaysRemoved
  <1>1. IInv /\ [Next]_vars =>
          [\A c \in cameraTombstones :
             cameras'[c] # NoCamera =>
               \E w \in Workers : job[w] # Idle /\ job[w].cam = c /\ job[w].at \in {"ensure", "rejoin"}
                                   /\ job'[w] # job[w]]_vars
    <2> SUFFICES ASSUME IInv, [Next]_vars, NEW c \in cameraTombstones, cameras'[c] # NoCamera
                 PROVE  Pairs(c)
      BY DEF Pairs
    <2>1. c \in Cameras /\ cameras[c] = NoCamera
      BY DEF IInv, TypeOK, TombstonedIsAbsent, Recorded
    <2> QED BY <2>1, CameraChanges
  <1> QED BY <1>1, InvariantHolds, PTL DEF Spec, RemovedStaysRemoved

\* No report moves a camera to the station it comes from; a camera changes
\* stations only by a pairing request, or by a camera/set that recovered its
\* pairing context.
THEOREM ReportsMoveNoCamera == Spec => ReportNeverSteals
  <1>1. IInv /\ [Next]_vars =>
          [\A c \in Cameras :
             (cameras[c] # NoCamera /\ cameras'[c] # NoCamera /\ cameras'[c].station # cameras[c].station) =>
               \E w \in Workers : job[w] # Idle /\ job[w].cam = c /\ job[w].at \in {"ensure", "rejoin"}
                                   /\ job'[w] # job[w]]_vars
    <2> SUFFICES ASSUME IInv, [Next]_vars, NEW c \in Cameras, cameras[c] # NoCamera,
                        cameras'[c] # NoCamera, cameras'[c].station # cameras[c].station
                 PROVE  Pairs(c)
      BY DEF Pairs
    <2> QED BY CameraChanges
  <1> QED BY <1>1, InvariantHolds, PTL DEF Spec, ReportNeverSteals

\* What a step can do to the slot i of s: keep it; empty it, for a camera or a
\* station that has no record then; give it to its own camera or to one with
\* the MAC address of the row, or to any if it is empty; or activate it.
SlotFine(s, i) ==
  \/ slots'[s][i] = slots[s][i]
  \/ /\ slots'[s][i] = NoSlot
     /\ \/ s \notin stations \/ s \notin stations'
        \/ cameras[slots[s][i].cam] # NoCamera /\ cameras'[slots[s][i].cam] = NoCamera
  \/ /\ slots'[s][i] # NoSlot
     /\ \/ s \notin stations \/ slots[s][i] = NoSlot
        \/ slots'[s][i].cam = slots[s][i].cam
        \/ slots[s][i].mac # NoMac /\ slots[s][i].mac = slots'[s][i].cam
  \/ slots'[s][i] # NoSlot /\ Activates

\* A save of the slots as they are, pruned or not, only empties slots of
\* stations that are not recorded.
LEMMA SaveIsFine ==
  ASSUME IInv, NEW st, NEW cs, NEW tb, NEW se, NEW sl \in {slots, KeptSlots(stations, slots)},
         Save(st, cs, tb, sl, se), NEW s \in Stations, NEW i \in Channels
  PROVE  SlotFine(s, i)
  <1>1. slots \in SlotTables
    BY TypeFacts DEF IInv
  <1>2. sl \in SlotTables /\ (sl[s][i] = slots[s][i] \/ (s \notin stations /\ sl[s][i] = NoSlot))
    BY <1>1, KeptSlotsFacts
  <1>3. stations' = st /\ slots' = KeptSlots(st, sl)
    BY DEF Save
  <1>4. slots'[s][i] = IF s \in st THEN sl[s][i] ELSE NoSlot
    BY <1>2, <1>3, KeptSlotsFacts
  <1> QED BY <1>2, <1>3, <1>4 DEF SlotFine

\* A reservation overwrites no other camera's row.
LEMMA ReserveIsFine ==
  ASSUME IInv, NEW w \in Workers, NEW c \in Cameras, NEW r \in Stations, NEW k \in Channels,
         Reserve(w, c, r, k), NEW s \in Stations, NEW i \in Channels
  PROVE  SlotFine(s, i)
  <1> DEFINE kept == KeptSlots(stations, slots)
  <1>1. /\ kept \in SlotTables
        /\ kept[s][i] = IF s \in stations THEN slots[s][i] ELSE NoSlot
    BY TypeFacts, KeptSlotsFacts DEF IInv
  <1>2. PICK n \in Granted(kept, r, c, k) : slots' = [kept EXCEPT ![r][n] = ReservedRow(kept, r, c, n)]
    BY DEF Reserve
  <1> HIDE DEF kept
  <1>3. n \in Channels /\ (n \in Matching(kept, r, c) \/ Free(kept[r][n]))
    BY <1>1, <1>2, GrantedFacts
  <1>4. CASE s = r /\ i = n
    <2> DEFINE row == ReservedRow(kept, s, c, i)
    <2>1. row \in SlotRows /\ row.cam = c
      BY <1>1, ReservedRowFacts
    <2>2. slots'[s][i] = row
      BY <1>1, <1>2, <1>4 DEF SlotTables
    <2>3. row # NoSlot
      BY <2>1, PairingAssumption
    <2> HIDE DEF row
    <2>4. CASE i \in Matching(kept, s, c)
      <3>1. kept[s][i].cam = c \/ (Mac(c) # NoMac /\ kept[s][i].mac = Mac(c))
        BY <2>4 DEF Matching
      <3>2. Mac(c) # NoMac => Mac(c) = c
        BY DEF Mac
      <3> QED BY <1>1, <2>1, <2>2, <2>3, <3>1, <3>2 DEF SlotFine
    <2>5. CASE Free(kept[s][i])
      <3>1. s \in stations => slots[s][i] = NoSlot
        BY <1>1, <2>5 DEF Free, IInv, RowsTaken
      <3> QED BY <2>2, <2>3, <3>1 DEF SlotFine
    <2> QED BY <1>3, <1>4, <2>4, <2>5
  <1>5. CASE ~(s = r /\ i = n)
    <2>1. slots'[s][i] = kept[s][i]
      BY <1>1, <1>2, <1>3, <1>5 DEF SlotTables
    <2> QED BY <1>1, <2>1 DEF SlotFine
  <1> QED BY <1>4, <1>5

\* An activation writes the row at its record's channel, and no other.
LEMMA ActivateIsFine ==
  ASSUME IInv, NEW w \in Workers, Activate(w), NEW s \in Stations, NEW i \in Channels
  PROVE  SlotFine(s, i)
  <1> DEFINE kept == KeptSlots(stations, slots)
             r == job[w].rec.station
             n == job[w].rec.channel
             row == [cam |-> job[w].cam, active |-> TRUE, pending |-> FALSE,
                     mac |-> IF Mac(job[w].cam) = NoMac /\ kept[r][n] # NoSlot
                             THEN kept[r][n].mac ELSE Mac(job[w].cam)]
  <1>1. /\ kept \in SlotTables
        /\ kept[s][i] = IF s \in stations THEN slots[s][i] ELSE NoSlot
    BY TypeFacts, KeptSlotsFacts DEF IInv
  <1>2. /\ job[w] # Idle /\ job[w].at = "activate"
        /\ slots' = [kept EXCEPT ![r][n] = row]
        /\ job' = [job EXCEPT ![w].at = "session"]
    BY DEF Activate
  <1>3. job'[w] # job[w]
    BY <1>2, JobChanges
  <1>4. Activates
    BY <1>2, <1>3 DEF Activates
  <1>5. job[w].cam \in Cameras /\ job[w].rec \in CameraRecords
    BY <1>2, JobFacts DEF JobHolds
  <1>6. r \in Stations /\ n \in Channels
    BY <1>5 DEF CameraRecords
  <1>7. kept[r][n] # NoSlot => kept[r][n] \in SlotRows
    BY <1>1, <1>6 DEF SlotTables
  <1>8. row \in SlotRows
    BY <1>5, <1>7 DEF SlotRows, Mac
  <1> HIDE DEF row, kept
  <1>9. row # NoSlot
    BY <1>8, PairingAssumption
  <1> HIDE DEF r, n
  <1>10. CASE s = r /\ i = n
    <2>1. slots'[s][i] = row
      BY <1>1, <1>2, <1>10 DEF SlotTables
    <2> QED BY <1>4, <1>9, <2>1 DEF SlotFine
  <1>11. CASE ~(s = r /\ i = n)
    <2>1. slots'[s][i] = kept[s][i]
      BY <1>1, <1>2, <1>6, <1>11 DEF SlotTables
    <2> QED BY <1>1, <2>1 DEF SlotFine
  <1> QED BY <1>10, <1>11

\* A removal of a camera empties its own slots.
LEMMA RemoveCameraIsFine ==
  ASSUME IInv, NEW c \in Cameras, RemoveCamera(c), NEW s \in Stations, NEW i \in Channels
  PROVE  SlotFine(s, i)
  <1> DEFINE sl == [r \in Stations |-> [n \in Channels |->
                      IF n \in SlotsOf(slots, r, c) THEN NoSlot ELSE slots[r][n]]]
  <1>1. slots \in SlotTables /\ cameras \in CameraTables
    BY TypeFacts DEF IInv
  <1>2. sl \in SlotTables /\ sl[s][i] = IF i \in SlotsOf(slots, s, c) THEN NoSlot ELSE slots[s][i]
    BY <1>1 DEF SlotTables
  <1>3. /\ c \in Recorded /\ cameras' = [cameras EXCEPT ![c] = NoCamera]
        /\ stations' = stations /\ slots' = KeptSlots(stations, sl)
    BY DEF RemoveCamera, Save
  <1> HIDE DEF sl
  <1>4. slots'[s][i] = IF s \in stations THEN sl[s][i] ELSE NoSlot
    BY <1>2, <1>3, KeptSlotsFacts
  <1>5. cameras[c] # NoCamera /\ cameras'[c] = NoCamera
    BY <1>1, <1>3 DEF Recorded, CameraTables
  <1>6. i \in SlotsOf(slots, s, c) => slots[s][i].cam = c
    BY DEF SlotsOf
  <1> QED BY <1>2, <1>4, <1>5, <1>6 DEF SlotFine

\* Every step leaves every slot fine.
LEMMA SlotChanges ==
  ASSUME IInv, [Next]_vars, NEW s \in Stations, NEW i \in Channels
  PROVE  SlotFine(s, i)
  <1>1. ASSUME UNCHANGED slots PROVE SlotFine(s, i)
    BY <1>1 DEF SlotFine
  <1>2. ASSUME NEW st, NEW cs, NEW tb, NEW se, NEW sl \in {slots, KeptSlots(stations, slots)},
               Save(st, cs, tb, sl, se)
        PROVE  SlotFine(s, i)
    BY <1>2, SaveIsFine
  <1>3. ASSUME Load PROVE SlotFine(s, i)
    BY <1>2, <1>3 DEF Load
  <1>4. ASSUME NEW r \in Stations, RemoveStation(r) PROVE SlotFine(s, i)
    BY <1>2, <1>4 DEF RemoveStation
  <1>5. ASSUME NEW r \in Stations, KnowStation(r) PROVE SlotFine(s, i)
    BY <1>2, <1>5 DEF KnowStation
  <1>6. ASSUME NEW r \in Stations, NEW c \in Cameras, NEW k \in Channels, Report(r, c, k)
        PROVE  SlotFine(s, i)
    BY <1>2, <1>6 DEF Report
  <1>7. ASSUME NEW w \in Workers, NEW c \in Cameras, CameraSetNamed(w, c) PROVE SlotFine(s, i)
    BY <1>2, <1>7 DEF CameraSetNamed
  <1>8. ASSUME NEW w \in Workers, NEW c \in Cameras, CameraSetUnnamed(w, c) PROVE SlotFine(s, i)
    BY <1>1, <1>8 DEF CameraSetUnnamed
  <1>9. ASSUME NEW w \in Workers, Ensure(w) \/ Rejoin(w) PROVE SlotFine(s, i)
    BY <1>2, <1>9 DEF Ensure, Rejoin, EnsureCamera
  <1>10. ASSUME NEW w \in Workers, NEW c \in Cameras, NEW r \in Stations, NEW k \in Channels,
                CheckBindByIot(w, c, r, k)
         PROVE  SlotFine(s, i)
    BY <1>10, ReserveIsFine DEF CheckBindByIot
  <1>11. ASSUME NEW w \in Workers, NEW c \in Cameras, NEW r \in Stations, NEW k \in Channels,
                AddBlind(w, c, r, k)
         PROVE  SlotFine(s, i)
    BY <1>3, <1>11 DEF AddBlind
  <1>12. ASSUME NEW w \in Workers, AddBlindReserve(w) PROVE SlotFine(s, i)
    <2>1. job[w] # Idle /\ job[w].at = "reserve"
      BY <1>12 DEF AddBlindReserve
    <2>2. job[w].cam \in Cameras /\ job[w].rec \in CameraRecords /\ job[w].asked \in Channels
      BY <2>1, JobFacts DEF JobHolds
    <2>3. job[w].rec.station \in Stations
      BY <2>2 DEF CameraRecords
    <2>4. CASE Reserve(w, job[w].cam, job[w].rec.station, job[w].asked)
      BY <2>2, <2>3, <2>4, ReserveIsFine
    <2> QED BY <1>3, <1>12, <2>4 DEF AddBlindReserve
  <1>13. ASSUME NEW w \in Workers, UpsertSession(w) \/ Settings(w) \/ Recover(w) \/ Abandon(w)
         PROVE  SlotFine(s, i)
    BY <1>1, <1>3, <1>13 DEF UpsertSession, Settings, Recover, Abandon
  <1>14. ASSUME Next PROVE SlotFine(s, i)
    BY <1>4, <1>5, <1>6, <1>7, <1>8, <1>9, <1>10, <1>11, <1>12, <1>13, <1>14,
       NextCases, RemoveCameraIsFine, ActivateIsFine
  <1>15. CASE UNCHANGED vars
    BY <1>1, <1>15 DEF vars
  <1> QED BY <1>14, <1>15

\* For any number of slots, cameras and interleaved handlers: a scan never
\* takes a held slot of a recorded station from another camera, unless the
\* row carries the MAC address of the one that scans.
THEOREM HeldSlotsAreKept == Spec => HeldSlotNotReassigned
  <1>1. IInv /\ [Next]_vars =>
          [\A s \in stations, i \in Channels :
             (slots[s][i] # NoSlot /\ slots'[s][i] # NoSlot /\ slots'[s][i].cam # slots[s][i].cam) =>
                \/ \E w \in Workers : job[w] # Idle /\ job[w].at = "activate" /\ job'[w] # job[w]
                \/ slots[s][i].mac # NoMac /\ slots[s][i].mac = slots'[s][i].cam]_vars
    <2> SUFFICES ASSUME IInv, [Next]_vars, NEW s \in stations, NEW i \in Channels,
                        slots[s][i] # NoSlot, slots'[s][i] # NoSlot, slots'[s][i].cam # slots[s][i].cam
                 PROVE  Activates \/ (slots[s][i].mac # NoMac /\ slots[s][i].mac = slots'[s][i].cam)
      BY DEF Activates
    <2>1. s \in Stations
      BY DEF IInv, TypeOK
    <2>2. SlotFine(s, i)
      BY <2>1, SlotChanges
    <2> QED BY <2>2 DEF SlotFine
  <1> QED BY <1>1, InvariantHolds, PTL DEF Spec, HeldSlotNotReassigned

\* A slot is emptied only in a step that removes its camera, or for a station
\* that is not recorded: nothing else gives back the slot of a pairing that
\* was abandoned.
THEOREM RemovalsFreeSlots == Spec => OnlyRemovalFreesSlot
  <1>1. IInv /\ [Next]_vars =>
          [\A s \in Stations, i \in Channels :
             (slots[s][i] # NoSlot /\ slots'[s][i] = NoSlot) =>
                \/ s \notin stations \/ s \notin stations'
                \/ cameras[slots[s][i].cam] # NoCamera /\ cameras'[slots[s][i].cam] = NoCamera]_vars
    <2> SUFFICES ASSUME IInv, [Next]_vars, NEW s \in Stations, NEW i \in Channels,
                        slots[s][i] # NoSlot, slots'[s][i] = NoSlot
                 PROVE  \/ s \notin stations \/ s \notin stations'
                        \/ cameras[slots[s][i].cam] # NoCamera /\ cameras'[slots[s][i].cam] = NoCamera
      OBVIOUS
    <2>1. SlotFine(s, i)
      BY SlotChanges
    <2> QED BY <2>1 DEF SlotFine
  <1> QED BY <1>1, InvariantHolds, PTL DEF Spec, OnlyRemovalFreesSlot
=============================================================================
