--------------------------- MODULE StationBinding ---------------------------
(***************************************************************************)
(* Who owns a base station.  One store call (app/store_domains/station.py, *)
(* camera.py) is one action: each takes the store's lock, loads the state, *)
(* changes it, and saves it, and every save synchronises the relationship  *)
(* tables with the kv state (app/store.py).  The two HTTP handlers that    *)
(* make a second store call that depends on the first (station/add,        *)
(* station/lock) keep what they still have to do in `naming', so that      *)
(* other requests, or a crash, come between their two calls.               *)
(***************************************************************************)
EXTENDS FiniteSets

CONSTANTS
  Users,          \* rows of the users table
  Stations,       \* serial numbers
  Workers,        \* request threads
  DefaultUser,    \* DEFAULT_USER_ID
  DefaultStation, \* DEFAULT_STATION_SN
  NoUser,         \* the empty ownerUserId
  NoStation,      \* a worker with nothing left to do
  PairingStations \* the stations camera pairing requests name

ASSUME DefaultsAssumption ==
  /\ DefaultUser \in Users
  /\ DefaultStation \in Stations
  /\ NoUser \notin Users
  /\ NoStation \notin Stations
  /\ PairingStations \subseteq Stations

VARIABLES
  stations,          \* keys of kv_state.stations
  stationTombstones, \* kv_state.stationTombstones
  role,              \* user_station_bindings: role[s][u], "none" for no row
  ownerUserId,       \* the cached stations[s].ownerUserId
  naming,            \* naming[w]: the station w still has to set_station
  autoBind,          \* settings.station_report_auto_bind_enabled
  asked              \* history: <<s, u>> if u has bound itself to s since its
                     \* last row went

vars == <<stations, stationTombstones, role, ownerUserId, naming, autoBind, asked>>

\* Mutant of BindRoles: a role that nothing promotes or demotes.
RolesWithGuest == {"owner", "member", "guest"}

\* The role of a row; "viewer" is treated as "member" everywhere.
BindRoles == {"owner", "member"}

Bound(rl, s)  == {u \in Users : rl[s][u] # "none"}
Owners(rl, s) == {u \in Users : rl[s][u] = "owner"}

(***************************************************************************)
(* The synchronisation every load and every save performs.                 *)
(***************************************************************************)

\* Mutant of Pruned: the rows of a removed station stay.
UnprunedRows(st, rl) == rl

\* Rows of a station the kv state does not hold are deleted.
Pruned(st, rl) ==
  [s \in Stations |-> IF s \in st THEN rl[s] ELSE [u \in Users |-> "none"]]

\* Mutant of Adopted: nobody adopts the default station.
NeverAdopted(st, tb, rl) == rl

\* The default station is given to the default user when nobody has it.
Adopted(st, tb, rl) ==
  IF /\ DefaultStation \in st \ tb
     /\ Bound(rl, DefaultStation) = {}
  THEN [rl EXCEPT ![DefaultStation][DefaultUser] = "owner"]
  ELSE rl

\* Mutant of OwnerCandidates: rows are not ordered by role.
AnyBoundIsOwner(rl, s) == IF Bound(rl, s) = {} THEN {NoUser} ELSE Bound(rl, s)

\* The rows the owner cache may be read from: owners first, then the row
\* updated last; updated_at counts whole seconds, so any of them may be it.
OwnerCandidates(rl, s) ==
  IF Owners(rl, s) # {} THEN Owners(rl, s)
  ELSE IF Bound(rl, s) # {} THEN Bound(rl, s) ELSE {NoUser}

\* Save the state <<st, tb>> over the rows rl: prune, adopt, refresh the cache.
Save(st, tb, rl) ==
  /\ stations' = st
  /\ stationTombstones' = tb
  /\ role' = Adopted(st, tb, Pruned(st, rl))
  /\ ownerUserId' \in [Stations -> Users \cup {NoUser}]
  /\ \A s \in Stations :
       ownerUserId'[s] \in IF s \in st THEN OwnerCandidates(role', s) ELSE {NoUser}

(***************************************************************************)
(* Store calls on the rows.                                                *)
(***************************************************************************)

\* An owner row of one user turns the owner rows of the others to member.
Upserted(rl, s, u, r) ==
  [rl EXCEPT ![s] = [v \in Users |->
     IF v = u THEN r
     ELSE IF r = "owner" /\ rl[s][v] = "owner" THEN "member" ELSE rl[s][v]]]

\* Mutant of MayClaim: the check for another owner is dropped.
ClaimUnchecked(u, s, r) == TRUE

\* "Station has been added by someone"
MayClaim(u, s, r) == r = "owner" => Owners(role, s) \subseteq {u}

\* bind_station_to_user; the calls that end in an error change nothing.
BindRow(u, s, r) ==
  /\ MayClaim(u, s, r)
  /\ Save(stations \cup {s}, stationTombstones \ {s}, Upserted(role, s, u, r))
  /\ asked' = asked \cup {<<s, u>>}

\* Mutant of PromotionNeeded: any departure promotes a remaining user.
PromotionAlways(s, u) == Bound(role, s) \ {u} # {}

\* The owner row is missing after u's row is deleted and others remain.
PromotionNeeded(s, u) == Owners(role, s) \subseteq {u} /\ Bound(role, s) \ {u} # {}

\* unbind_station_from_user: the last row takes the station with it.
Unbind(u, s) ==
  LET left == [role EXCEPT ![s][u] = "none"]
  IN  /\ role[s][u] # "none"
      /\ \/ /\ Bound(left, s) = {}
            /\ Save(stations \ {s}, stationTombstones \cup ({s} \cap stations), left)
         \/ /\ Bound(left, s) # {}
            /\ ~PromotionNeeded(s, u)
            /\ Save(stations, stationTombstones, left)
         \/ /\ PromotionNeeded(s, u)
            /\ \E v \in Bound(left, s) :
                 Save(stations, stationTombstones, [left EXCEPT ![s][v] = "owner"])
      /\ UNCHANGED naming

(***************************************************************************)
(* The handlers.                                                           *)
(***************************************************************************)

\* users/station-bind, station/bind and station/claim
BindOrClaim(u, s, r) == BindRow(u, s, r) /\ UNCHANGED naming

\* station/add, up to and including bind_station_to_user
StationAdd(w, u, s, r) ==
  /\ naming[w] = NoStation
  /\ BindRow(u, s, r)
  /\ naming' = [naming EXCEPT ![w] = s]

\* set_station: clears the tombstone and creates the record.
SetStation(s) == Save(stations \cup {s}, stationTombstones \ {s}, role)

\* station/set, and station/add without an identity
StationSet(s) == SetStation(s) /\ UNCHANGED naming

\* The second call of station/add and station/lock
FinishNaming(w) ==
  /\ naming[w] # NoStation
  /\ SetStation(naming[w])
  /\ naming' = [naming EXCEPT ![w] = NoStation]

\* Mutant of Reportable: reports do not look at the tombstones.
ReportableAnyway(s) == TRUE

\* A removed station is invisible to what the device reports.
Reportable(s) == s \notin stationTombstones

\* update_station_session, update_station_attr, update_station_status
Telemetry(s) ==
  /\ Reportable(s)
  /\ Save(stations \cup {s}, stationTombstones, role)
  /\ UNCHANGED naming

\* Mutant of MayAutoBind: the setting is not consulted.
AutoBindAnyway(u, s) == Bound(role, s) = {} /\ ownerUserId[s] \in {NoUser, u}

\* The token of a report claims a station nobody has, when enabled.
MayAutoBind(u, s) ==
  /\ autoBind
  /\ Bound(role, s) = {}
  /\ ownerUserId[s] \in {NoUser, u}

\* update_station_status with auto-bind; the row needs a stations row to
\* refer to, so the call fails as a whole for a station it would create.
ReportAutoBind(u, s) ==
  /\ Reportable(s)
  /\ MayAutoBind(u, s)
  /\ s \in stations
  /\ Save(stations, stationTombstones, Upserted(role, s, u, "owner"))
  /\ UNCHANGED naming

\* station/lock for a removed station: the session call answers None.
StationLock(w, s) ==
  /\ naming[w] = NoStation
  /\ ~Reportable(s)
  /\ naming' = [naming EXCEPT ![w] = s]
  /\ UNCHANGED <<stations, stationTombstones, role, ownerUserId>>

\* ensure_camera creates the station record and leaves its tombstone.
EnsureCameraStation(s) ==
  /\ s \in PairingStations
  /\ Save(stations \cup {s}, stationTombstones, role)
  /\ UNCHANGED naming

\* remove_station: pops the record, writes no tombstone; rows are pruned.
RemoveStation(s) ==
  /\ s \in stations
  /\ Save(stations \ {s}, stationTombstones, role)
  /\ UNCHANGED naming

\* The worker dies, or its client call fails, between its two store calls.
Abandon(w) ==
  /\ naming[w] # NoStation
  /\ naming' = [naming EXCEPT ![w] = NoStation]
  /\ UNCHANGED <<stations, stationTombstones, role, ownerUserId>>

\* The process stops and starts again, perhaps with another setting.
Restart ==
  /\ naming' = [w \in Workers |-> NoStation]
  /\ autoBind' \in BOOLEAN
  /\ UNCHANGED <<stations, stationTombstones, role, ownerUserId, asked>>

-----------------------------------------------------------------------------
\* A new database: _default_state holds the default station.
Init ==
  /\ stations = {DefaultStation}
  /\ stationTombstones = {}
  /\ role = [s \in Stations |-> [u \in Users |->
               IF s = DefaultStation /\ u = DefaultUser THEN "owner" ELSE "none"]]
  /\ ownerUserId = [s \in Stations |-> IF s = DefaultStation THEN DefaultUser ELSE NoUser]
  /\ naming = [w \in Workers |-> NoStation]
  /\ autoBind \in BOOLEAN
  /\ asked = {}

BindCall(u, s, r) ==
  \/ BindOrClaim(u, s, r)
  \/ \E w \in Workers : StationAdd(w, u, s, r)

StationStep(s) ==
  \/ StationSet(s)
  \/ Telemetry(s)
  \/ EnsureCameraStation(s)
  \/ RemoveStation(s)

WorkerStep(w) ==
  \/ \E s \in Stations : StationLock(w, s)
  \/ FinishNaming(w)
  \/ Abandon(w)

OtherCall ==
  \/ \E u \in Users, s \in Stations : Unbind(u, s) \/ ReportAutoBind(u, s)
  \/ \E s \in Stations : StationStep(s)
  \/ \E w \in Workers : WorkerStep(w)

\* Having asked is forgotten with the row.
Lapse == asked' = {p \in asked : role'[p[1]][p[2]] # "none"}

Next ==
  \/ (\E u \in Users, s \in Stations, r \in BindRoles : BindCall(u, s, r)) /\ UNCHANGED autoBind
  \/ OtherCall /\ Lapse /\ UNCHANGED autoBind
  \/ Restart

Spec == Init /\ [][Next]_vars

-----------------------------------------------------------------------------
(***************************************************************************)
(* Properties.                                                             *)
(***************************************************************************)

\* Every variable stays in its type.
TypeOK ==
  /\ stations \subseteq Stations
  /\ stationTombstones \subseteq Stations
  /\ role \in [Stations -> [Users -> {"none", "owner", "member"}]]
  /\ ownerUserId \in [Stations -> Users \cup {NoUser}]
  /\ naming \in [Workers -> Stations \cup {NoStation}]
  /\ autoBind \in BOOLEAN
  /\ asked \subseteq Stations \X Users

\* Whatever binds, unbinds and promotions interleave, a station never has two
\* owner rows: bind_station_to_user, the promotion in unbind_station_from_user,
\* the auto-bind of a report and the adoption by a save all write that role.
OneOwner ==
  \A s \in Stations : \A u, v \in Owners(role, s) : u = v

\* No binding outlives its station's record: a station that is removed (with
\* or without a tombstone) and comes back starts with nobody bound to it.
RowsHaveStation ==
  \A s \in Stations : Bound(role, s) # {} => s \in stations

\* The owner cached in the station record, which decides the app's "added by
\* someone" answers, is an owner row if there is one, else some bound user,
\* and is empty exactly when nobody is bound.
OwnerCacheAgrees ==
  \A s \in Stations :
    /\ ownerUserId[s] = NoUser <=> Bound(role, s) = {}
    /\ ownerUserId[s] # NoUser =>
         /\ role[s][ownerUserId[s]] # "none"
         /\ Owners(role, s) # {} => role[s][ownerUserId[s]] = "owner"

\* The default station, once recorded and not removed, always has somebody:
\* no order of removals, reports and renames leaves it without an account.
DefaultNeverOrphaned ==
  DefaultStation \in stations \ stationTombstones => Bound(role, DefaultStation) # {}

\* A station is recorded and removed at once only if a camera was paired with
\* it: no telemetry, lock or rename brings a removed station back halfway.
HalfRemovedOnlyByPairing ==
  stations \cap stationTombstones \subseteq PairingStations

\* Nobody becomes owner in a step that leaves the previous owner bound: an
\* owner loses a station to another only by leaving, never by being displaced.
OwnershipNotStolen ==
  [][\A s \in Stations, u, v \in Users :
       (u # v /\ role[s][u] = "owner" /\ role'[s][v] = "owner")
         => role'[s][u] = "none"]_vars

\* With auto-bind off, a user's row appears only if that user has asked for it
\* since its last row went (or by the default user's adoption of the default
\* station): no report, rename or save brings a binding back after an unbind.
NoSnapBack ==
  [][~autoBind =>
       \A s \in Stations, u \in Users :
         (role[s][u] = "none" /\ role'[s][u] # "none") =>
            \/ <<s, u>> \in asked'
            \/ u = DefaultUser /\ s = DefaultStation]_vars

-----------------------------------------------------------------------------
(***************************************************************************)
(* What the rows implement: StationOwnership, with the user of the owner   *)
(* row for the holder.                                                     *)
(***************************************************************************)
Holder(rl, s) ==
  IF Owners(rl, s) = {} THEN NoUser ELSE CHOOSE u \in Owners(rl, s) : TRUE

Ownership == INSTANCE StationOwnership
  WITH members <- [s \in Stations |-> Bound(role, s)],
       holder  <- [s \in Stations |-> Holder(role, s)]

\* Every store call, seen through the mapping, is a step of StationOwnership
\* or leaves it alone.
ImplementsOwnership == Ownership!Spec
=============================================================================
