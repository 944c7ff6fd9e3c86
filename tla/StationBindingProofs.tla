------------------------- MODULE StationBindingProofs -------------------------
(***************************************************************************)
(* Proofs about StationBinding, for any accounts, stations and workers.    *)
(* Every change of the rows goes through Save, so the argument is in two   *)
(* parts: what a Save establishes from the rows it is given (SaveFacts,    *)
(* SaveRows), and that each call gives it rows with at most one owner.     *)
(***************************************************************************)
EXTENDS StationBinding, TLAPS

Roles == {"none", "owner", "member"}
RoleTables == [Stations -> [Users -> Roles]]

\* At most one owner row per station, of any table.
SingleOwner(rl) == \A s \in Stations : \A u, v \in Owners(rl, s) : u = v

\* The inductive invariant.
IInv ==
  /\ TypeOK
  /\ OneOwner
  /\ RowsHaveStation
  /\ OwnerCacheAgrees
  /\ DefaultNeverOrphaned
  /\ HalfRemovedOnlyByPairing

(***************************************************************************)
(* The operators on tables.                                                *)
(***************************************************************************)

\* Pruning yields a table again, with no new rows and none where no record is.
LEMMA PrunedFacts ==
  ASSUME NEW rl \in RoleTables, NEW st \in SUBSET Stations
  PROVE  /\ Pruned(st, rl) \in RoleTables
         /\ \A s \in Stations, u \in Users :
              Pruned(st, rl)[s][u] = IF s \in st THEN rl[s][u] ELSE "none"
  BY DEF Pruned, RoleTables, Roles

\* Adoption adds at most the default user, to a default station nobody has.
LEMMA AdoptedFacts ==
  ASSUME NEW rl \in RoleTables, NEW st, NEW tb
  PROVE  /\ Adopted(st, tb, rl) \in RoleTables
         /\ \/ Adopted(st, tb, rl) = rl
            \/ /\ DefaultStation \in st \ tb
               /\ \A u \in Users : rl[DefaultStation][u] = "none"
               /\ \A s \in Stations, u \in Users :
                    Adopted(st, tb, rl)[s][u] =
                      IF s = DefaultStation /\ u = DefaultUser THEN "owner" ELSE rl[s][u]
         /\ DefaultStation \in st \ tb => Bound(Adopted(st, tb, rl), DefaultStation) # {}
  <1>1. CASE DefaultStation \in st \ tb /\ Bound(rl, DefaultStation) = {}
    <2>1. Adopted(st, tb, rl) = [rl EXCEPT ![DefaultStation][DefaultUser] = "owner"]
      BY <1>1 DEF Adopted
    <2>2. \A u \in Users : rl[DefaultStation][u] = "none"
      BY <1>1 DEF Bound
    <2>3. \A s \in Stations, u \in Users :
            Adopted(st, tb, rl)[s][u] =
              IF s = DefaultStation /\ u = DefaultUser THEN "owner" ELSE rl[s][u]
      BY <2>1, DefaultsAssumption DEF RoleTables
    <2>4. Adopted(st, tb, rl) \in RoleTables
      BY <2>1, DefaultsAssumption DEF RoleTables, Roles
    <2>5. DefaultUser \in Bound(Adopted(st, tb, rl), DefaultStation)
      BY <2>3, DefaultsAssumption DEF Bound
    <2> QED BY <1>1, <2>2, <2>3, <2>4, <2>5
  <1>2. CASE ~(DefaultStation \in st \ tb /\ Bound(rl, DefaultStation) = {})
    BY <1>2 DEF Adopted
  <1> QED BY <1>1, <1>2

\* The rows after a save, one by one.
LEMMA SaveRows ==
  ASSUME NEW st \in SUBSET Stations, NEW tb \in SUBSET Stations,
         NEW rl \in RoleTables, Save(st, tb, rl)
  PROVE  /\ role' \in RoleTables
         /\ \A s \in Stations, u \in Users :
              \/ role'[s][u] = rl[s][u] /\ s \in st
              \/ role'[s][u] = "none"
              \/ /\ s = DefaultStation /\ u = DefaultUser /\ role'[s][u] = "owner"
                 /\ \A v \in Users \ {u} : role'[s][v] = "none"
         /\ \A s \in Stations \ st, u \in Users : role'[s][u] = "none"
         /\ DefaultStation \in st \ tb => Bound(role', DefaultStation) # {}
  <1> DEFINE kept == Pruned(st, rl)
  <1>1. /\ kept \in RoleTables
        /\ \A s \in Stations, u \in Users :
             kept[s][u] = IF s \in st THEN rl[s][u] ELSE "none"
    BY PrunedFacts
  <1>2. role' = Adopted(st, tb, kept)
    BY DEF Save
  <1> HIDE DEF kept
  <1>3. /\ role' \in RoleTables
        /\ \/ role' = kept
           \/ /\ DefaultStation \in st \ tb
              /\ \A u \in Users : kept[DefaultStation][u] = "none"
              /\ \A s \in Stations, u \in Users :
                   role'[s][u] =
                     IF s = DefaultStation /\ u = DefaultUser THEN "owner" ELSE kept[s][u]
        /\ DefaultStation \in st \ tb => Bound(role', DefaultStation) # {}
    BY <1>1, <1>2, AdoptedFacts
  <1> QED BY <1>1, <1>3

\* A save of rows with at most one owner per station re-establishes every
\* conjunct of the invariant that speaks of rows, records and the cache.
LEMMA SaveFacts ==
  ASSUME NEW st \in SUBSET Stations, NEW tb \in SUBSET Stations,
         NEW rl \in RoleTables, SingleOwner(rl), Save(st, tb, rl)
  PROVE  /\ stations' = st /\ stationTombstones' = tb
         /\ role' \in RoleTables
         /\ ownerUserId' \in [Stations -> Users \cup {NoUser}]
         /\ OneOwner'
         /\ RowsHaveStation'
         /\ OwnerCacheAgrees'
         /\ DefaultNeverOrphaned'
  <1>1. /\ stations' = st /\ stationTombstones' = tb
        /\ ownerUserId' \in [Stations -> Users \cup {NoUser}]
        /\ \A s \in Stations :
             ownerUserId'[s] \in IF s \in st THEN OwnerCandidates(role', s) ELSE {NoUser}
    BY DEF Save
  <1>2. /\ role' \in RoleTables
        /\ \A s \in Stations, u \in Users :
             \/ role'[s][u] = rl[s][u] /\ s \in st
             \/ role'[s][u] = "none"
             \/ /\ s = DefaultStation /\ u = DefaultUser /\ role'[s][u] = "owner"
                /\ \A v \in Users \ {u} : role'[s][v] = "none"
        /\ \A s \in Stations \ st, u \in Users : role'[s][u] = "none"
        /\ DefaultStation \in st \ tb => Bound(role', DefaultStation) # {}
    BY SaveRows
  <1>3. OneOwner'
    BY <1>2 DEF OneOwner, SingleOwner, Owners
  <1>4. RowsHaveStation'
    BY <1>1, <1>2 DEF RowsHaveStation, Bound
  <1>5. DefaultNeverOrphaned'
    BY <1>1, <1>2 DEF DefaultNeverOrphaned
  <1>6. OwnerCacheAgrees'
    <2> SUFFICES ASSUME NEW s \in Stations
                 PROVE  /\ ownerUserId'[s] = NoUser <=> Bound(role', s) = {}
                        /\ ownerUserId'[s] # NoUser =>
                             /\ role'[s][ownerUserId'[s]] # "none"
                             /\ Owners(role', s) # {} => role'[s][ownerUserId'[s]] = "owner"
      BY DEF OwnerCacheAgrees
    <2>1. CASE s \notin st
      BY <2>1, <1>1, <1>2 DEF Bound
    <2>2. CASE s \in st /\ Owners(role', s) # {}
      <3>1. ownerUserId'[s] \in Owners(role', s)
        BY <2>2, <1>1 DEF OwnerCandidates
      <3> QED BY <3>1, DefaultsAssumption DEF Owners, Bound
    <2>3. CASE s \in st /\ Owners(role', s) = {} /\ Bound(role', s) # {}
      <3>1. ownerUserId'[s] \in Bound(role', s)
        BY <2>3, <1>1 DEF OwnerCandidates
      <3> QED BY <2>3, <3>1, DefaultsAssumption DEF Bound
    <2>4. CASE s \in st /\ Owners(role', s) = {} /\ Bound(role', s) = {}
      <3>1. ownerUserId'[s] = NoUser
        BY <2>4, <1>1 DEF OwnerCandidates
      <3> QED BY <2>4, <3>1
    <2> QED BY <2>1, <2>2, <2>3, <2>4
  <1> QED BY <1>1, <1>2, <1>3, <1>4, <1>5, <1>6

\* Writing a role keeps one owner per station, and touches one station.
LEMMA UpsertedFacts ==
  ASSUME NEW rl \in RoleTables, SingleOwner(rl),
         NEW s \in Stations, NEW u \in Users, NEW r \in {"owner", "member"}
  PROVE  /\ Upserted(rl, s, u, r) \in RoleTables
         /\ SingleOwner(Upserted(rl, s, u, r))
         /\ \A t \in Stations, v \in Users :
              Upserted(rl, s, u, r)[t][v] =
                IF t = s
                THEN IF v = u THEN r
                     ELSE IF r = "owner" /\ rl[s][v] = "owner" THEN "member" ELSE rl[s][v]
                ELSE rl[t][v]
  <1>1. \A t \in Stations, v \in Users :
          Upserted(rl, s, u, r)[t][v] =
            IF t = s
            THEN IF v = u THEN r
                 ELSE IF r = "owner" /\ rl[s][v] = "owner" THEN "member" ELSE rl[s][v]
            ELSE rl[t][v]
    BY DEF Upserted, RoleTables
  <1>2. Upserted(rl, s, u, r) \in RoleTables
    BY DEF Upserted, RoleTables, Roles
  <1>3. SingleOwner(Upserted(rl, s, u, r))
    BY <1>1 DEF SingleOwner, Owners
  <1> QED BY <1>1, <1>2, <1>3

(***************************************************************************)
(* The invariant.                                                          *)
(***************************************************************************)

\* What a call must give Save for the invariant to hold again; reports add
\* no tombstone and no call but ensure_camera records a removed station.
LEMMA SaveKeepsInvariant ==
  ASSUME IInv,
         NEW st \in SUBSET Stations, NEW tb \in SUBSET Stations,
         NEW rl \in RoleTables, SingleOwner(rl), Save(st, tb, rl),
         st \cap tb \subseteq PairingStations,
         naming' \in [Workers -> Stations \cup {NoStation}], autoBind' \in BOOLEAN,
         asked' \subseteq Stations \X Users
  PROVE  IInv'
  <1>1. /\ stations' = st /\ stationTombstones' = tb
        /\ role' \in RoleTables
        /\ ownerUserId' \in [Stations -> Users \cup {NoUser}]
        /\ OneOwner' /\ RowsHaveStation' /\ OwnerCacheAgrees' /\ DefaultNeverOrphaned'
    BY SaveFacts
  <1>2. TypeOK'
    BY <1>1 DEF TypeOK, RoleTables, Roles
  <1>3. HalfRemovedOnlyByPairing'
    BY <1>1 DEF HalfRemovedOnlyByPairing
  <1> QED BY <1>1, <1>2, <1>3 DEF IInv

\* The rows of a state that satisfies the invariant.
LEMMA RowsOfInvariant ==
  ASSUME IInv
  PROVE  role \in RoleTables /\ SingleOwner(role)
  BY DEF IInv, TypeOK, OneOwner, SingleOwner, RoleTables, Roles

\* bind_station_to_user keeps the invariant.
LEMMA BindRowKeepsInvariant ==
  ASSUME IInv, NEW u \in Users, NEW s \in Stations, NEW r \in BindRoles,
         BindRow(u, s, r), naming' \in [Workers -> Stations \cup {NoStation}],
         autoBind' \in BOOLEAN,
         asked' \subseteq Stations \X Users
  PROVE  IInv'
  <1>1. role \in RoleTables /\ SingleOwner(role)
    BY RowsOfInvariant
  <1>2. Upserted(role, s, u, r) \in RoleTables /\ SingleOwner(Upserted(role, s, u, r))
    BY <1>1, UpsertedFacts DEF BindRoles
  <1>3. /\ stations \cup {s} \in SUBSET Stations
        /\ stationTombstones \ {s} \in SUBSET Stations
        /\ (stations \cup {s}) \cap (stationTombstones \ {s}) \subseteq PairingStations
    BY DEF IInv, TypeOK, HalfRemovedOnlyByPairing
  <1>4. Save(stations \cup {s}, stationTombstones \ {s}, Upserted(role, s, u, r))
    BY DEF BindRow
  <1> HIDE DEF IInv
  <1> QED BY <1>2, <1>3, <1>4, SaveKeepsInvariant

\* set_station keeps the invariant.
LEMMA SetStationKeepsInvariant ==
  ASSUME IInv, NEW s \in Stations, SetStation(s),
         naming' \in [Workers -> Stations \cup {NoStation}], autoBind' \in BOOLEAN,
         asked' \subseteq Stations \X Users
  PROVE  IInv'
  <1>1. role \in RoleTables /\ SingleOwner(role)
    BY RowsOfInvariant
  <1>2. /\ stations \cup {s} \in SUBSET Stations
        /\ stationTombstones \ {s} \in SUBSET Stations
        /\ (stations \cup {s}) \cap (stationTombstones \ {s}) \subseteq PairingStations
    BY DEF IInv, TypeOK, HalfRemovedOnlyByPairing
  <1>3. Save(stations \cup {s}, stationTombstones \ {s}, role)
    BY DEF SetStation
  <1> QED BY <1>1, <1>2, <1>3, SaveKeepsInvariant

\* unbind_station_from_user keeps it: the last row takes the station along,
\* a departing owner is replaced by a promotion.
LEMMA UnbindKeepsInvariant ==
  ASSUME IInv, NEW u \in Users, NEW s \in Stations, Unbind(u, s), autoBind' \in BOOLEAN,
         asked' \subseteq Stations \X Users
  PROVE  IInv'
  <1> DEFINE left == [role EXCEPT ![s][u] = "none"]
  <1>1. role \in RoleTables /\ SingleOwner(role)
    BY RowsOfInvariant
  <1>2. /\ left \in RoleTables
        /\ \A t \in Stations, v \in Users :
             left[t][v] = IF t = s /\ v = u THEN "none" ELSE role[t][v]
    BY <1>1 DEF RoleTables, Roles
  <1>3. SingleOwner(left)
    BY <1>1, <1>2 DEF SingleOwner, Owners
  <1>4. /\ naming' \in [Workers -> Stations \cup {NoStation}]
        /\ stations \in SUBSET Stations /\ stations \ {s} \in SUBSET Stations
        /\ stationTombstones \in SUBSET Stations
        /\ stationTombstones \cup ({s} \cap stations) \in SUBSET Stations
        /\ stations \cap stationTombstones \subseteq PairingStations
        /\ (stations \ {s}) \cap (stationTombstones \cup ({s} \cap stations))
             \subseteq PairingStations
    BY DEF Unbind, IInv, TypeOK, HalfRemovedOnlyByPairing
  <1>5. \/ Save(stations \ {s}, stationTombstones \cup ({s} \cap stations), left)
        \/ Save(stations, stationTombstones, left)
        \/ /\ PromotionNeeded(s, u)
           /\ \E v \in Bound(left, s) :
                Save(stations, stationTombstones, [left EXCEPT ![s][v] = "owner"])
    BY DEF Unbind
  <1> HIDE DEF left
  <1>6. CASE Save(stations \ {s}, stationTombstones \cup ({s} \cap stations), left)
    BY <1>2, <1>3, <1>4, <1>6, SaveKeepsInvariant
  <1>7. CASE Save(stations, stationTombstones, left)
    BY <1>2, <1>3, <1>4, <1>7, SaveKeepsInvariant
  <1>8. ASSUME PromotionNeeded(s, u), NEW v \in Bound(left, s),
               Save(stations, stationTombstones, [left EXCEPT ![s][v] = "owner"])
        PROVE  IInv'
    <2> DEFINE promoted == [left EXCEPT ![s][v] = "owner"]
    <2>1. v \in Users
      BY DEF Bound
    <2>2. /\ promoted \in RoleTables
          /\ \A t \in Stations, x \in Users :
               promoted[t][x] = IF t = s /\ x = v THEN "owner" ELSE left[t][x]
      BY <1>2, <2>1 DEF RoleTables, Roles
    <2>3. Save(stations, stationTombstones, promoted)
      BY <1>8
    <2> HIDE DEF promoted
    <2>4. \A x \in Users : left[s][x] # "owner"
      BY <1>2, <1>8 DEF PromotionNeeded, Owners
    <2>5. SingleOwner(promoted)
      BY <1>3, <2>2, <2>4 DEF SingleOwner, Owners
    <2> QED BY <1>4, <2>2, <2>3, <2>5, SaveKeepsInvariant
  <1> QED BY <1>5, <1>6, <1>7, <1>8

\* Every step of Next is a call, an unfinished handler's, or a restart.
LEMMA NextCases ==
  ASSUME Next
  PROVE  \/ \E u \in Users, s \in Stations, r \in BindRoles : BindOrClaim(u, s, r)
         \/ \E u \in Users, s \in Stations, r \in BindRoles, w \in Workers : StationAdd(w, u, s, r)
         \/ \E u \in Users, s \in Stations : Unbind(u, s)
         \/ \E u \in Users, s \in Stations : ReportAutoBind(u, s)
         \/ \E s \in Stations : StationSet(s)
         \/ \E s \in Stations : Telemetry(s)
         \/ \E s \in Stations : EnsureCameraStation(s)
         \/ \E s \in Stations : RemoveStation(s)
         \/ \E w \in Workers, s \in Stations : StationLock(w, s)
         \/ \E w \in Workers : FinishNaming(w)
         \/ \E w \in Workers : Abandon(w)
         \/ Restart
  BY DEF Next, BindCall, OtherCall, StationStep, WorkerStep

\* A new database satisfies the invariant.
LEMMA InitEstablishesInvariant == Init => IInv
  <1> SUFFICES ASSUME Init PROVE IInv
    OBVIOUS
  <1>1. TypeOK
    BY DefaultsAssumption DEF Init, TypeOK
  <1>2. OneOwner
    BY DEF Init, OneOwner, Owners
  <1>3. RowsHaveStation
    BY DEF Init, RowsHaveStation, Bound
  <1>4. DefaultUser \in Bound(role, DefaultStation)
    BY DefaultsAssumption DEF Init, Bound
  <1>5. OwnerCacheAgrees
    <2>1. \A s \in Stations \ {DefaultStation} : Bound(role, s) = {} /\ ownerUserId[s] = NoUser
      BY DEF Init, Bound
    <2>2. ownerUserId[DefaultStation] = DefaultUser /\ role[DefaultStation][DefaultUser] = "owner"
      BY DefaultsAssumption DEF Init
    <2> QED BY <1>4, <2>1, <2>2, DefaultsAssumption DEF OwnerCacheAgrees
  <1>6. DefaultNeverOrphaned
    BY <1>4 DEF DefaultNeverOrphaned
  <1>7. HalfRemovedOnlyByPairing
    BY DEF Init, HalfRemovedOnlyByPairing
  <1> QED BY <1>1, <1>2, <1>3, <1>5, <1>6, <1>7 DEF IInv

\* Every call keeps the invariant.
LEMMA NextKeepsInvariant == IInv /\ [Next]_vars => IInv'
  <1> SUFFICES ASSUME IInv, [Next]_vars PROVE IInv'
    OBVIOUS
  <1>1. role \in RoleTables /\ SingleOwner(role)
    BY RowsOfInvariant
  <1>2. /\ stations \in SUBSET Stations /\ stationTombstones \in SUBSET Stations
        /\ stations \cap stationTombstones \subseteq PairingStations
        /\ naming \in [Workers -> Stations \cup {NoStation}]
    BY DEF IInv, TypeOK, HalfRemovedOnlyByPairing
  <1>3. autoBind' \in BOOLEAN /\ asked' \subseteq Stations \X Users
    <2>1. autoBind \in BOOLEAN /\ asked \subseteq Stations \X Users
      BY DEF IInv, TypeOK
    <2>2. ASSUME NEW u \in Users, NEW s \in Stations, NEW r \in BindRoles, BindCall(u, s, r)
          PROVE  asked' = asked \cup {<<s, u>>}
      BY <2>2 DEF BindCall, BindOrClaim, StationAdd, BindRow
    <2>3. CASE \E u \in Users, s \in Stations, r \in BindRoles : BindCall(u, s, r) /\ autoBind' = autoBind
      BY <2>1, <2>2, <2>3
    <2>4. CASE Lapse /\ autoBind' = autoBind
      BY <2>1, <2>4 DEF Lapse
    <2>5. CASE Restart
      BY <2>1, <2>5 DEF Restart
    <2>6. CASE UNCHANGED vars
      BY <2>1, <2>6 DEF vars
    <2> QED BY <2>3, <2>4, <2>5, <2>6 DEF Next
  <1>4. ASSUME NEW u \in Users, NEW s \in Stations, NEW r \in BindRoles, BindOrClaim(u, s, r)
        PROVE  IInv'
    BY <1>2, <1>3, <1>4, BindRowKeepsInvariant DEF BindOrClaim
  <1>5. ASSUME NEW u \in Users, NEW s \in Stations, NEW r \in BindRoles, NEW w \in Workers,
               StationAdd(w, u, s, r)
        PROVE  IInv'
    BY <1>2, <1>3, <1>5, BindRowKeepsInvariant DEF StationAdd
  <1>6. ASSUME NEW u \in Users, NEW s \in Stations, Unbind(u, s) PROVE IInv'
    BY <1>6, <1>3, UnbindKeepsInvariant
  <1>7. ASSUME NEW u \in Users, NEW s \in Stations, ReportAutoBind(u, s) PROVE IInv'
    <2>1. /\ Upserted(role, s, u, "owner") \in RoleTables
          /\ SingleOwner(Upserted(role, s, u, "owner"))
      BY <1>1, UpsertedFacts
    <2>2. Save(stations, stationTombstones, Upserted(role, s, u, "owner")) /\ naming' = naming
      BY <1>7 DEF ReportAutoBind
    <2> QED BY <1>2, <2>1, <2>2, <1>3, SaveKeepsInvariant
  <1>8. ASSUME NEW s \in Stations, StationSet(s) PROVE IInv'
    BY <1>2, <1>3, <1>8, SetStationKeepsInvariant DEF StationSet
  <1>9. ASSUME NEW s \in Stations, Telemetry(s) PROVE IInv'
    <2>1. /\ Save(stations \cup {s}, stationTombstones, role) /\ naming' = naming
          /\ (stations \cup {s}) \cap stationTombstones \subseteq PairingStations
      BY <1>2, <1>9 DEF Telemetry, Reportable
    <2> QED BY <1>1, <1>2, <2>1, <1>3, SaveKeepsInvariant
  <1>10. ASSUME NEW s \in Stations, EnsureCameraStation(s) PROVE IInv'
    <2>1. /\ Save(stations \cup {s}, stationTombstones, role) /\ naming' = naming
          /\ (stations \cup {s}) \cap stationTombstones \subseteq PairingStations
      BY <1>2, <1>10 DEF EnsureCameraStation
    <2> QED BY <1>1, <1>2, <2>1, <1>3, SaveKeepsInvariant
  <1>11. ASSUME NEW s \in Stations, RemoveStation(s) PROVE IInv'
    <2>1. /\ Save(stations \ {s}, stationTombstones, role) /\ naming' = naming
          /\ (stations \ {s}) \cap stationTombstones \subseteq PairingStations
      BY <1>2, <1>11 DEF RemoveStation
    <2> QED BY <1>1, <1>2, <2>1, <1>3, SaveKeepsInvariant
  <1>12. ASSUME NEW w \in Workers, NEW s \in Stations, StationLock(w, s) PROVE IInv'
    BY <1>2, <1>3, <1>12 DEF StationLock, IInv, TypeOK, OneOwner, RowsHaveStation, OwnerCacheAgrees,
         DefaultNeverOrphaned, HalfRemovedOnlyByPairing, Owners, Bound
  <1>13. ASSUME NEW w \in Workers, FinishNaming(w) PROVE IInv'
    <2>1. naming[w] \in Stations /\ SetStation(naming[w])
      BY <1>2, <1>13 DEF FinishNaming
    <2>2. naming' \in [Workers -> Stations \cup {NoStation}]
      BY <1>2, <1>13 DEF FinishNaming
    <2> QED BY <2>1, <2>2, <1>3, SetStationKeepsInvariant
  <1>14. ASSUME NEW w \in Workers, Abandon(w) PROVE IInv'
    BY <1>2, <1>3, <1>14 DEF Abandon, IInv, TypeOK, OneOwner, RowsHaveStation, OwnerCacheAgrees,
         DefaultNeverOrphaned, HalfRemovedOnlyByPairing, Owners, Bound
  <1>15. CASE UNCHANGED vars
    BY <1>15 DEF vars, IInv, TypeOK, OneOwner, RowsHaveStation, OwnerCacheAgrees,
         DefaultNeverOrphaned, HalfRemovedOnlyByPairing, Owners, Bound
  <1>16. CASE Restart
    BY <1>2, <1>3, <1>16 DEF Restart, IInv, TypeOK, OneOwner, RowsHaveStation, OwnerCacheAgrees,
         DefaultNeverOrphaned, HalfRemovedOnlyByPairing, Owners, Bound
  <1> QED BY <1>16, <1>4, <1>5, <1>6, <1>7, <1>8, <1>9, <1>10, <1>11, <1>12, <1>13, <1>14, <1>15, NextCases

\* Whatever accounts, stations and workers there are: the rows of
\* user_station_bindings have at most one owner per station, belong to
\* recorded stations, agree with the owner cached in the record, and never
\* leave the default station without an account.
THEOREM InvariantHolds == Spec => []IInv
  BY InitEstablishesInvariant, NextKeepsInvariant, PTL DEF Spec

\* Every variable stays in its type.
THEOREM TypeCorrect == Spec => []TypeOK
  <1>1. IInv => TypeOK
    BY DEF IInv
  <1> QED BY <1>1, InvariantHolds, PTL

\* No interleaving of binds, promotions, reports and adoptions gives a
\* station two owner rows.
THEOREM NeverTwoOwners == Spec => []OneOwner
  <1>1. IInv => OneOwner
    BY DEF IInv
  <1> QED BY <1>1, InvariantHolds, PTL

\* No binding outlives its station's record.
THEOREM RowsBelongToStations == Spec => []RowsHaveStation
  <1>1. IInv => RowsHaveStation
    BY DEF IInv
  <1> QED BY <1>1, InvariantHolds, PTL

\* The cached owner is the owner of the rows, whoever promoted or adopted it.
THEOREM RowsAndCacheAgree == Spec => []OwnerCacheAgrees
  <1>1. IInv => OwnerCacheAgrees
    BY DEF IInv
  <1> QED BY <1>1, InvariantHolds, PTL

\* The default station keeps an account: a save adopts what a removal orphaned.
THEOREM DefaultKeepsAccount == Spec => []DefaultNeverOrphaned
  <1>1. IInv => DefaultNeverOrphaned
    BY DEF IInv
  <1> QED BY <1>1, InvariantHolds, PTL

\* Telemetry, locks and renames never leave a station recorded and removed
\* at once; only a camera pairing request can.
THEOREM HalfRemovedOnlyByPairingHolds == Spec => []HalfRemovedOnlyByPairing
  <1>1. IInv => HalfRemovedOnlyByPairing
    BY DEF IInv
  <1> QED BY <1>1, InvariantHolds, PTL

(***************************************************************************)
(* What a step may never do.                                               *)
(***************************************************************************)

\* A save makes v an owner beside u only if the rows it was given do.
LEMMA SaveDisplacesNobody ==
  ASSUME NEW st \in SUBSET Stations, NEW tb \in SUBSET Stations,
         NEW rl \in RoleTables, Save(st, tb, rl),
         NEW s \in Stations, NEW u \in Users, NEW v \in Users, u # v,
         rl[s][u] = "none" \/ rl[s][v] # "owner",
         role'[s][v] = "owner"
  PROVE  role'[s][u] = "none"
  <1>1. \A x \in Users :
          \/ role'[s][x] = rl[s][x]
          \/ role'[s][x] = "none"
          \/ \A y \in Users \ {x} : role'[s][y] = "none"
    BY SaveRows
  <1>2. CASE \A y \in Users \ {v} : role'[s][y] = "none"
    BY <1>2
  <1>3. CASE rl[s][v] = "owner"
    BY <1>1, <1>3
  <1> QED BY <1>1, <1>2, <1>3

\* No step makes a user owner beside the present one.
LEMMA NextStealsNothing ==
  ASSUME IInv, [Next]_vars,
         NEW s \in Stations, NEW u \in Users, NEW v \in Users, u # v,
         role[s][u] = "owner", role'[s][v] = "owner"
  PROVE  role'[s][u] = "none"
  <1>1. role \in RoleTables /\ SingleOwner(role)
    BY RowsOfInvariant
  <1>2. role[s][v] # "owner"
    BY <1>1 DEF SingleOwner, Owners
  <1>3. stations \in SUBSET Stations /\ stationTombstones \in SUBSET Stations
    BY DEF IInv, TypeOK
  <1>4. ASSUME NEW st \in SUBSET Stations, NEW tb \in SUBSET Stations, NEW rl \in RoleTables,
                Save(st, tb, rl), rl[s][u] = "none" \/ rl[s][v] # "owner"
         PROVE  role'[s][u] = "none"
    BY <1>4, SaveDisplacesNobody
  <1>5. ASSUME NEW x \in Users, NEW t \in Stations, NEW r \in BindRoles, BindRow(x, t, r)
        PROVE  role'[s][u] = "none"
    <2> DEFINE rl == Upserted(role, t, x, r)
    <2>1. r \in {"owner", "member"}
      BY DEF BindRoles
    <2>2. rl \in RoleTables
      BY ONLY <1>1, <2>1, UpsertedFacts
    <2>3. s = t => rl[s][v] = IF v = x THEN r
                             ELSE IF r = "owner" /\ role[t][v] = "owner" THEN "member" ELSE role[t][v]
      BY ONLY <1>1, <2>1, UpsertedFacts
    <2>4. s # t => rl[s][v] = role[s][v]
      BY ONLY <1>1, <2>1, UpsertedFacts
    <2>5. Save(stations \cup {t}, stationTombstones \ {t}, rl)
      BY <1>5 DEF BindRow
    <2>6. r = "owner" => Owners(role, t) \subseteq {x}
      BY <1>5 DEF BindRow, MayClaim
    <2> HIDE DEF rl
    <2>7. rl[s][v] # "owner"
      BY <1>2, <2>3, <2>6, <2>4 DEF Owners
    <2>8. stations \cup {t} \in SUBSET Stations /\ stationTombstones \ {t} \in SUBSET Stations
      BY <1>3
    <2> QED BY <1>4, <2>5, <2>7, <2>8, <2>2
  <1>6. ASSUME NEW x \in Users, NEW t \in Stations, Unbind(x, t)
        PROVE  role'[s][u] = "none"
    <2> DEFINE left == [role EXCEPT ![t][x] = "none"]
    <2>1. /\ left \in RoleTables
          /\ \A y \in Stations, z \in Users :
               left[y][z] = IF y = t /\ z = x THEN "none" ELSE role[y][z]
      BY <1>1 DEF RoleTables, Roles
    <2>2. \/ Save(stations \ {t}, stationTombstones \cup ({t} \cap stations), left)
          \/ Save(stations, stationTombstones, left)
          \/ /\ PromotionNeeded(t, x)
             /\ \E y \in Bound(left, t) :
                  Save(stations, stationTombstones, [left EXCEPT ![t][y] = "owner"])
      BY <1>6 DEF Unbind
    <2> HIDE DEF left
    <2>3. left[s][v] # "owner"
      BY <1>2, <2>1
    <2>4. CASE Save(stations \ {t}, stationTombstones \cup ({t} \cap stations), left)
      <3>1. stations \ {t} \in SUBSET Stations /\ stationTombstones \cup ({t} \cap stations) \in SUBSET Stations
        BY <1>3
      <3> QED BY <2>1, <2>3, <2>4, <3>1, <1>4
    <2>5. CASE Save(stations, stationTombstones, left)
      BY <1>3, <2>1, <2>3, <2>5, <1>4
    <2>6. ASSUME PromotionNeeded(t, x), NEW y \in Bound(left, t),
                 Save(stations, stationTombstones, [left EXCEPT ![t][y] = "owner"])
          PROVE  role'[s][u] = "none"
      <3> DEFINE promoted == [left EXCEPT ![t][y] = "owner"]
      <3>1. y \in Users /\ left[t][y] # "none"
        BY DEF Bound
      <3>2. /\ promoted \in RoleTables
            /\ \A a \in Stations, b \in Users :
                 promoted[a][b] = IF a = t /\ b = y THEN "owner" ELSE left[a][b]
        BY <2>1, <3>1 DEF RoleTables, Roles
      <3>3. Save(stations, stationTombstones, promoted)
        BY <2>6
      <3> HIDE DEF promoted
      <3>4. promoted[s][u] = "none" \/ promoted[s][v] # "owner"
        BY <2>1, <2>3, <2>6, <3>1, <3>2 DEF PromotionNeeded, Owners
      <3> QED BY <1>3, <3>2, <3>3, <3>4, <1>4
    <2> QED BY <2>2, <2>4, <2>5, <2>6
  <1>7. ASSUME NEW x \in Users, NEW t \in Stations, ReportAutoBind(x, t)
        PROVE  role'[s][u] = "none"
    <2> DEFINE rl == Upserted(role, t, x, "owner")
    <2>1. /\ rl \in RoleTables
          /\ \A z \in Users : s # t => rl[s][z] = role[s][z]
      BY <1>1, UpsertedFacts
    <2>2. Save(stations, stationTombstones, rl) /\ Bound(role, t) = {}
      BY <1>7 DEF ReportAutoBind, MayAutoBind
    <2> HIDE DEF rl
    <2>3. rl[s][v] # "owner"
      BY <1>2, <2>1, <2>2 DEF Bound
    <2> QED BY <1>3, <2>1, <2>2, <2>3, <1>4
  <1>8. ASSUME NEW st \in SUBSET Stations, NEW tb \in SUBSET Stations, Save(st, tb, role)
        PROVE  role'[s][u] = "none"
    BY <1>1, <1>2, <1>8, <1>4
  <1>9. ASSUME NEW t \in Stations, SetStation(t) PROVE role'[s][u] = "none"
    <2>1. stations \cup {t} \in SUBSET Stations /\ stationTombstones \ {t} \in SUBSET Stations
      BY <1>3
    <2> QED BY <1>8, <1>9, <2>1 DEF SetStation
  <1>10. CASE UNCHANGED role
    BY <1>2, <1>10
  <1>11. CASE Next
    <2>1. ASSUME NEW w \in Workers, FinishNaming(w) PROVE role'[s][u] = "none"
      <3>1. naming[w] \in Stations /\ SetStation(naming[w])
        BY <2>1 DEF FinishNaming, IInv, TypeOK
      <3> QED BY <3>1, <1>9
    <2>2. ASSUME NEW t \in Stations, Telemetry(t) \/ EnsureCameraStation(t) \/ RemoveStation(t)
          PROVE  role'[s][u] = "none"
      <3>1. Save(stations \cup {t}, stationTombstones, role) \/ Save(stations \ {t}, stationTombstones, role)
        BY <2>2 DEF Telemetry, EnsureCameraStation, RemoveStation
      <3>2. stations \cup {t} \in SUBSET Stations /\ stations \ {t} \in SUBSET Stations
        BY <1>3
      <3> QED BY <1>3, <1>8, <3>1, <3>2
    <2> QED BY <1>5, <1>6, <1>7, <1>9, <1>10, <1>11, <2>1, <2>2, NextCases
             DEF BindOrClaim, StationAdd, StationSet, StationLock, Abandon, Restart
  <1> QED BY <1>10, <1>11 DEF vars

\* For any accounts and stations: an owner is never displaced; another user
\* is owner only after the owner's own row is gone.
THEOREM OwnersAreNotDisplaced == Spec => OwnershipNotStolen
  <1>1. IInv /\ [Next]_vars =>
          [\A s \in Stations, u, v \in Users :
             (u # v /\ role[s][u] = "owner" /\ role'[s][v] = "owner")
               => role'[s][u] = "none"]_vars
    BY NextStealsNothing
  <1> QED BY <1>1, InvariantHolds, PTL DEF Spec, OwnershipNotStolen

\* A save adds nobody to the rows it was given but the adopting default user.
LEMMA SaveAddsNobody ==
  ASSUME NEW st \in SUBSET Stations, NEW tb \in SUBSET Stations,
         NEW rl \in RoleTables, Save(st, tb, rl),
         NEW s \in Stations, NEW u \in Users,
         rl[s][u] = "none", role'[s][u] # "none"
  PROVE  u = DefaultUser /\ s = DefaultStation
  <1>1. \A t \in Stations, x \in Users :
          \/ role'[t][x] = rl[t][x] /\ t \in st
          \/ role'[t][x] = "none"
          \/ /\ t = DefaultStation /\ x = DefaultUser /\ role'[t][x] = "owner"
             /\ \A v \in Users \ {x} : role'[t][v] = "none"
    BY SaveRows, Zenon
  <1> QED BY <1>1

\* A row appears only by its user's own bind call or by the adoption.
LEMMA NextSnapsNothingBack ==
  ASSUME IInv, [Next]_vars, ~autoBind,
         NEW s \in Stations, NEW u \in Users,
         role[s][u] = "none", role'[s][u] # "none"
  PROVE  <<s, u>> \in asked' \/ (u = DefaultUser /\ s = DefaultStation)
  <1> DEFINE Allowed == <<s, u>> \in asked' \/ (u = DefaultUser /\ s = DefaultStation)
  <1>1. role \in RoleTables /\ SingleOwner(role)
    BY RowsOfInvariant
  <1>2. stations \in SUBSET Stations /\ stationTombstones \in SUBSET Stations
    BY DEF IInv, TypeOK
  <1>3. ASSUME NEW st \in SUBSET Stations, NEW tb \in SUBSET Stations, NEW rl \in RoleTables,
               Save(st, tb, rl), rl[s][u] = "none"
        PROVE  Allowed
    BY <1>3, SaveAddsNobody
  <1>4. ASSUME NEW st \in SUBSET Stations, NEW tb \in SUBSET Stations, Save(st, tb, role)
        PROVE  Allowed
    BY <1>1, <1>3, <1>4
  <1>5. ASSUME NEW x \in Users, NEW t \in Stations, NEW r \in BindRoles, BindRow(x, t, r)
        PROVE  Allowed
    <2>1. CASE x = u /\ t = s
      BY <1>5, <2>1 DEF BindRow
    <2>2. CASE ~(x = u /\ t = s)
      <3> DEFINE rl == Upserted(role, t, x, r)
      <3>1. r \in {"owner", "member"}
        BY DEF BindRoles
      <3>2. rl \in RoleTables
        BY ONLY <1>1, <3>1, UpsertedFacts
      <3>3. rl[s][u] = IF s = t THEN IF u = x THEN r
                               ELSE IF r = "owner" /\ role[t][u] = "owner" THEN "member" ELSE role[t][u]
                       ELSE role[s][u]
        BY ONLY <1>1, <3>1, UpsertedFacts
      <3>4. Save(stations \cup {t}, stationTombstones \ {t}, rl)
        BY <1>5 DEF BindRow
      <3>5. stations \cup {t} \in SUBSET Stations /\ stationTombstones \ {t} \in SUBSET Stations
        BY <1>2
      <3> HIDE DEF rl
      <3>6. rl[s][u] = "none"
        BY <2>2, <3>3
      <3> QED BY <1>3, <3>2, <3>4, <3>5, <3>6
    <2> QED BY <2>1, <2>2
  <1>6. ASSUME NEW x \in Users, NEW t \in Stations, Unbind(x, t)
        PROVE  Allowed
    <2> DEFINE left == [role EXCEPT ![t][x] = "none"]
    <2>1. /\ left \in RoleTables
          /\ \A y \in Stations, z \in Users :
               left[y][z] = IF y = t /\ z = x THEN "none" ELSE role[y][z]
      BY <1>1 DEF RoleTables, Roles
    <2>2. \/ Save(stations \ {t}, stationTombstones \cup ({t} \cap stations), left)
          \/ Save(stations, stationTombstones, left)
          \/ \E y \in Bound(left, t) :
               Save(stations, stationTombstones, [left EXCEPT ![t][y] = "owner"])
      BY <1>6 DEF Unbind
    <2> HIDE DEF left
    <2>3. left[s][u] = "none"
      BY <2>1
    <2>4. stations \ {t} \in SUBSET Stations /\ stationTombstones \cup ({t} \cap stations) \in SUBSET Stations
      BY <1>2
    <2>5. ASSUME NEW y \in Bound(left, t),
                 Save(stations, stationTombstones, [left EXCEPT ![t][y] = "owner"])
          PROVE  Allowed
      <3> DEFINE promoted == [left EXCEPT ![t][y] = "owner"]
      <3>1. y \in Users /\ left[t][y] # "none"
        BY DEF Bound
      <3>2. /\ promoted \in RoleTables
            /\ \A a \in Stations, b \in Users :
                 promoted[a][b] = IF a = t /\ b = y THEN "owner" ELSE left[a][b]
        BY <2>1, <3>1 DEF RoleTables, Roles
      <3>3. Save(stations, stationTombstones, promoted)
        BY <2>5
      <3> HIDE DEF promoted
      <3>4. promoted[s][u] = "none"
        BY <2>3, <3>1, <3>2
      <3> QED BY <1>2, <1>3, <3>2, <3>3, <3>4
    <2> QED BY <1>2, <1>3, <2>1, <2>2, <2>3, <2>4, <2>5
  <1>7. ASSUME NEW t \in Stations, SetStation(t) PROVE Allowed
    <2>1. stations \cup {t} \in SUBSET Stations /\ stationTombstones \ {t} \in SUBSET Stations
      BY <1>2
    <2> QED BY <1>4, <1>7, <2>1 DEF SetStation
  <1>8. ASSUME NEW w \in Workers, FinishNaming(w) PROVE Allowed
    <2>1. naming[w] \in Stations /\ SetStation(naming[w])
      BY <1>8 DEF FinishNaming, IInv, TypeOK
    <2> QED BY <2>1, <1>7
  <1>9. ASSUME NEW t \in Stations, Telemetry(t) \/ EnsureCameraStation(t) \/ RemoveStation(t)
        PROVE  Allowed
    <2>1. Save(stations \cup {t}, stationTombstones, role) \/ Save(stations \ {t}, stationTombstones, role)
      BY <1>9 DEF Telemetry, EnsureCameraStation, RemoveStation
    <2>2. stations \cup {t} \in SUBSET Stations /\ stations \ {t} \in SUBSET Stations
      BY <1>2
    <2> QED BY <1>2, <1>4, <2>1, <2>2
  <1> HIDE DEF Allowed
  <1>10. role' # role
    OBVIOUS
  <1>11. Next
    BY <1>10 DEF vars
  <1>12. \A x \in Users, t \in Stations : ~ReportAutoBind(x, t)
    BY DEF ReportAutoBind, MayAutoBind
  <1>13. Allowed
    BY <1>5, <1>6, <1>7, <1>8, <1>9, <1>10, <1>11, <1>12, NextCases
       DEF BindOrClaim, StationAdd, StationSet, StationLock, Abandon, Restart
  <1> QED BY <1>13 DEF Allowed

\* With auto-bind off, for any accounts and stations: a user's row appears
\* only by that user's own bind call, or as the default user's adoption of
\* the default station.
THEOREM ReportsBindNobody == Spec => NoSnapBack
  <1>1. IInv /\ [Next]_vars =>
          [~autoBind =>
             \A s \in Stations, u \in Users :
               (role[s][u] = "none" /\ role'[s][u] # "none") =>
                  \/ <<s, u>> \in asked'
                  \/ u = DefaultUser /\ s = DefaultStation]_vars
    BY NextSnapsNothingBack
  <1> QED BY <1>1, InvariantHolds, PTL DEF Spec, NoSnapBack

-----------------------------------------------------------------------------
(***************************************************************************)
(* The refinement of StationOwnership.                                     *)
(***************************************************************************)
\* The rows after a save are those saved, without those of stations not saved,
\* or those with the default user's adoption of the default station.
AsGiven(st, rl, new) ==
  \A t \in Stations, v \in Users : new[t][v] = IF t \in st THEN rl[t][v] ELSE "none"
AsAdopted(st, rl, new) ==
  \A t \in Stations, v \in Users :
    new[t][v] = IF t = DefaultStation /\ v = DefaultUser THEN "owner"
                ELSE IF t \in st THEN rl[t][v] ELSE "none"
HadByNobody(rl, s) == \A v \in Users : rl[s][v] = "none"

LEMMA SavedRows ==
  ASSUME NEW st \in SUBSET Stations, NEW tb \in SUBSET Stations,
         NEW rl \in RoleTables, Save(st, tb, rl)
  PROVE  \/ AsGiven(st, rl, role')
         \/ /\ DefaultStation \in st \ tb
            /\ HadByNobody(rl, DefaultStation)
            /\ AsAdopted(st, rl, role')
  <1> DEFINE kept == Pruned(st, rl)
  <1>1. /\ kept \in RoleTables
        /\ \A s \in Stations, u \in Users :
             kept[s][u] = IF s \in st THEN rl[s][u] ELSE "none"
    BY PrunedFacts
  <1>2. role' = Adopted(st, tb, kept)
    BY DEF Save
  <1> HIDE DEF kept
  <1> QED BY <1>1, <1>2, AdoptedFacts DEF AsGiven, AsAdopted, HadByNobody

\* The holder is the user of the one owner row.
LEMMA HolderFacts ==
  ASSUME NEW rl \in RoleTables, SingleOwner(rl), NEW s \in Stations
  PROVE  /\ Holder(rl, s) \in Users \cup {NoUser}
         /\ Holder(rl, s) = NoUser <=> Owners(rl, s) = {}
         /\ \A u \in Users : Holder(rl, s) = u <=> rl[s][u] = "owner"
  <1>1. CASE Owners(rl, s) = {}
    BY <1>1, DefaultsAssumption DEF Holder, Owners
  <1>2. CASE Owners(rl, s) # {}
    <2>1. Holder(rl, s) \in Owners(rl, s)
      BY <1>2 DEF Holder
    <2>2. \A u \in Owners(rl, s) : u = Holder(rl, s)
      BY <2>1 DEF SingleOwner
    <2> QED BY <1>2, <2>1, <2>2, DefaultsAssumption DEF Owners
  <1> QED BY <1>1, <1>2

\* Two tables without two owners anywhere, which differ in the rows of s.
Differ(rl, new, s) ==
  /\ rl \in RoleTables /\ SingleOwner(rl) /\ new \in RoleTables /\ SingleOwner(new)
  /\ \A t \in Stations \ {s}, v \in Users : new[t][v] = rl[t][v]

\* What is seen of the rows, station by station, is what the mapping says.
Members(rl) == [t \in Stations |-> Bound(rl, t)]
Holders(rl) == [t \in Stations |-> Holder(rl, t)]

LEMMA OthersStay ==
  ASSUME NEW rl, NEW new, NEW s \in Stations, Differ(rl, new, s)
  PROVE  /\ Members(new) = [Members(rl) EXCEPT ![s] = Bound(new, s)]
         /\ Holders(new) = [Holders(rl) EXCEPT ![s] = Holder(new, s)]
  <1>1. ASSUME NEW t \in Stations \ {s}
        PROVE  Bound(new, t) = Bound(rl, t) /\ Holder(new, t) = Holder(rl, t)
    <2>1. Bound(new, t) = Bound(rl, t) /\ Owners(new, t) = Owners(rl, t)
      BY DEF Differ, Bound, Owners
    <2> QED BY <2>1 DEF Holder
  <1> QED BY <1>1 DEF Members, Holders

\* A step on the rows of s is a step of the abstract specification.
LEMMA ClaimStep ==
  ASSUME NEW s \in Stations, NEW u \in Users, Differ(role, role', s),
         Owners(role, s) \subseteq {u}, role'[s][u] = "owner",
         \A v \in Users \ {u} : role'[s][v] # "none" <=> role[s][v] # "none"
  PROVE  Ownership!Claim(u, s)
  <1>1. Holder(role, s) \in {NoUser, u}
    BY HolderFacts DEF Differ, Owners
  <1>2. Bound(role', s) = Bound(role, s) \cup {u}
    BY DEF Bound
  <1>3. Holder(role', s) = u
    BY HolderFacts DEF Differ
  <1>4. /\ Members(role') = [Members(role) EXCEPT ![s] = Bound(role, s) \cup {u}]
        /\ Holders(role') = [Holders(role) EXCEPT ![s] = u]
    BY <1>2, <1>3, OthersStay
  <1> QED BY <1>1, <1>4 DEF Ownership!Claim, Members, Holders

\* bind_station_to_user, as a member.
LEMMA JoinStep ==
  ASSUME NEW s \in Stations, NEW u \in Users, Differ(role, role', s), role'[s][u] = "member",
         \A v \in Users \ {u} : role'[s][v] = role[s][v]
  PROVE  Ownership!Join(u, s)
  <1>1. Bound(role', s) = Bound(role, s) \cup {u}
    BY DEF Bound
  <1>2. Holder(role', s) = IF Holder(role, s) = u THEN NoUser ELSE Holder(role, s)
    <2>1. CASE Holder(role, s) = u
      <3>1. Owners(role', s) = {}
        BY <2>1, HolderFacts DEF Differ, Owners
      <3> QED BY <2>1, <3>1, HolderFacts DEF Differ
    <2>2. CASE Holder(role, s) # u
      <3>1. Owners(role', s) = Owners(role, s)
        BY <2>2, HolderFacts DEF Differ, Owners
      <3> QED BY <2>2, <3>1 DEF Holder
    <2> QED BY <2>1, <2>2
  <1>3. /\ Members(role') = [Members(role) EXCEPT ![s] = Bound(role, s) \cup {u}]
        /\ Holders(role') =
             [Holders(role) EXCEPT ![s] = IF Holder(role, s) = u THEN NoUser ELSE Holder(role, s)]
    BY <1>1, <1>2, OthersStay
  <1> QED BY <1>3 DEF Ownership!Join, Members, Holders

\* unbind_station_from_user, whether somebody is left, and promoted, or not.
LEMMA LeaveStep ==
  ASSUME NEW s \in Stations, NEW u \in Users, Differ(role, role', s),
         role[s][u] # "none", role'[s][u] = "none",
         \A v \in Users \ {u} : /\ role'[s][v] # "none" <=> role[s][v] # "none"
                                /\ role[s][v] = "owner" => role'[s][v] = "owner",
         (\E v \in Users : role'[s][v] # "none") => \E v \in Users : role'[s][v] = "owner"
  PROVE  Ownership!Leave(u, s)
  <1> DEFINE left == Bound(role, s) \ {u}
  <1>1. Bound(role', s) = left /\ u \in Bound(role, s)
    BY DEF Bound
  <1>2. Holder(role', s) = Holder(role, s) \/ Holder(role, s) \notin left
    <2>1. ASSUME Holder(role, s) \in left PROVE Holder(role', s) = Holder(role, s)
      <3>1. Holder(role, s) \in Users \ {u} /\ role[s][Holder(role, s)] = "owner"
        BY <2>1, HolderFacts DEF Differ, Bound
      <3> QED BY <3>1, HolderFacts DEF Differ
    <2> QED BY <2>1
  <1>3. Holder(role', s) \in (IF left = {} THEN {NoUser} ELSE left)
    <2>1. CASE left = {}
      <3>1. Owners(role', s) = {}
        BY <1>1, <2>1 DEF Owners, Bound
      <3> QED BY <2>1, <3>1, HolderFacts DEF Differ
    <2>2. CASE left # {}
      <3>1. PICK v \in Users : role'[s][v] = "owner"
        BY <1>1, <2>2 DEF Bound
      <3>2. Holder(role', s) = v /\ v \in left
        BY <1>1, <3>1, HolderFacts DEF Differ, Bound
      <3> QED BY <2>2, <3>2
    <2> QED BY <2>1, <2>2
  <1>4. /\ Members(role') = [Members(role) EXCEPT ![s] = left]
        /\ Holders(role') = [Holders(role) EXCEPT ![s] = Holder(role', s)]
    BY <1>1, OthersStay
  <1>5. Holder(role, s) \in left => Holders(role') = Holders(role)
    BY <1>2, <1>4 DEF Holders
  <1> QED BY <1>1, <1>3, <1>4, <1>5 DEF Ownership!Leave, Members, Holders

\* The station is removed.
LEMMA DisbandStep ==
  ASSUME NEW s \in Stations, Differ(role, role', s), \A v \in Users : role'[s][v] = "none"
  PROVE  Ownership!Disband(s)
  <1>1. Bound(role', s) = {} /\ Owners(role', s) = {}
    BY DEF Bound, Owners
  <1>2. Holder(role', s) = NoUser
    BY <1>1 DEF Holder
  <1>3. /\ Members(role') = [Members(role) EXCEPT ![s] = {}]
        /\ Holders(role') = [Holders(role) EXCEPT ![s] = NoUser]
    BY <1>1, <1>2, OthersStay
  <1> QED BY <1>3 DEF Ownership!Disband, Members, Holders

\* A save of the rows there are: nobody's, or the default user's claim.
LEMMA SaveStep ==
  ASSUME IInv, IInv', NEW st \in SUBSET Stations, NEW tb \in SUBSET Stations,
         stations \subseteq st, Save(st, tb, role)
  PROVE  Ownership!Next \/ role' = role
  <1>1. role \in RoleTables /\ SingleOwner(role) /\ role' \in RoleTables /\ SingleOwner(role')
    BY RowsOfInvariant DEF IInv, TypeOK, OneOwner, SingleOwner, RoleTables, Roles
  <1>2. \A s \in Stations \ st, u \in Users : role[s][u] = "none"
    BY DEF IInv, RowsHaveStation, Bound
  <1>3. CASE AsGiven(st, role, role')
    <2>1. \A s \in Stations, u \in Users : role'[s][u] = role[s][u]
      BY <1>2, <1>3 DEF AsGiven
    <2> QED BY <1>1, <2>1 DEF RoleTables
  <1>4. CASE HadByNobody(role, DefaultStation) /\ AsAdopted(st, role, role')
    <2>1. \A s \in Stations, u \in Users :
            role'[s][u] = IF s = DefaultStation /\ u = DefaultUser THEN "owner" ELSE role[s][u]
      BY <1>2, <1>4 DEF AsAdopted
    <2>2. Differ(role, role', DefaultStation) /\ role'[DefaultStation][DefaultUser] = "owner"
      BY <1>1, <2>1, DefaultsAssumption DEF Differ
    <2>3. Owners(role, DefaultStation) \subseteq {DefaultUser}
      BY <1>4 DEF Owners, HadByNobody
    <2>4. Ownership!Claim(DefaultUser, DefaultStation)
      BY <2>1, <2>2, <2>3, ClaimStep, DefaultsAssumption
    <2> QED BY <2>4, DefaultsAssumption DEF Ownership!Next
  <1> QED BY <1>1, <1>3, <1>4, SavedRows

\* A save of other rows, which leaves the default station with somebody, if it
\* is there.
LEMMA SaveOf ==
  ASSUME IInv, IInv', NEW s \in Stations, NEW st \in SUBSET Stations, NEW tb \in SUBSET Stations,
         NEW rl \in RoleTables, Save(st, tb, rl),
         stations \ {s} \subseteq st, st \ {s} \subseteq stations,
         tb \ {s} = stationTombstones \ {s},
         \A t \in Stations \ {s}, u \in Users : rl[t][u] = role[t][u],
         s \in st => \E u \in Users : rl[s][u] # "none"
  PROVE  /\ Differ(role, role', s)
         /\ \A u \in Users : role'[s][u] = IF s \in st THEN rl[s][u] ELSE "none"
  <1>1. role \in RoleTables /\ SingleOwner(role) /\ role' \in RoleTables /\ SingleOwner(role')
    BY RowsOfInvariant DEF IInv, TypeOK, OneOwner, SingleOwner, RoleTables, Roles
  <1>2. \A t \in Stations \ (st \cup {s}), u \in Users : role[t][u] = "none"
    BY DEF IInv, RowsHaveStation, Bound
  <1>3. DefaultStation \in st \ tb => \E u \in Users : rl[DefaultStation][u] # "none"
    <2>1. CASE DefaultStation = s
      BY <2>1
    <2>2. CASE DefaultStation # s /\ DefaultStation \in st \ tb
      <3>1. DefaultStation \in stations \ stationTombstones
        BY <2>2
      <3>2. PICK u \in Users : role[DefaultStation][u] # "none"
        BY <3>1 DEF IInv, DefaultNeverOrphaned, Bound
      <3> QED BY <2>2, <3>2, DefaultsAssumption
    <2> QED BY <2>1, <2>2
  <1>4. AsGiven(st, rl, role')
    <2>1. ~(DefaultStation \in st \ tb /\ HadByNobody(rl, DefaultStation))
      BY <1>3 DEF HadByNobody
    <2> QED BY <2>1, SavedRows
  <1>5. \A t \in Stations \ {s}, u \in Users : role'[t][u] = role[t][u]
    BY <1>2, <1>4 DEF AsGiven
  <1> QED BY <1>1, <1>4, <1>5 DEF Differ, AsGiven

\* bind_station_to_user
LEMMA BindStep ==
  ASSUME IInv, IInv', NEW u \in Users, NEW s \in Stations, NEW r \in BindRoles, BindRow(u, s, r)
  PROVE  Ownership!Next
  <1> DEFINE rl == Upserted(role, s, u, r)
             st == stations \cup {s}
             tb == stationTombstones \ {s}
  <1>1. role \in RoleTables /\ SingleOwner(role) /\ r \in {"owner", "member"}
    BY RowsOfInvariant DEF BindRoles
  <1>2. /\ rl \in RoleTables
        /\ \A t \in Stations, v \in Users :
             rl[t][v] = IF t = s
                        THEN IF v = u THEN r
                             ELSE IF r = "owner" /\ role[s][v] = "owner" THEN "member" ELSE role[s][v]
                        ELSE role[t][v]
    BY <1>1, UpsertedFacts
  <1>3. st \in SUBSET Stations /\ tb \in SUBSET Stations
    BY DEF IInv, TypeOK
  <1>4. Save(st, tb, rl) /\ MayClaim(u, s, r)
    BY DEF BindRow
  <1>5. rl[s][u] # "none"
    BY <1>1, <1>2
  <1>6. Differ(role, role', s) /\ \A v \in Users : role'[s][v] = rl[s][v]
    <2>1. s \in st /\ stations \ {s} \subseteq st /\ st \ {s} \subseteq stations
          /\ tb \ {s} = stationTombstones \ {s}
      OBVIOUS
    <2>2. \A t \in Stations \ {s}, v \in Users : rl[t][v] = role[t][v]
      BY <1>2
    <2> HIDE DEF rl, st, tb
    <2> QED BY <1>2, <1>3, <1>4, <1>5, <2>1, <2>2, SaveOf
  <1> HIDE DEF rl, st, tb
  <1>7. CASE r = "owner"
    <2>1. Owners(role, s) \subseteq {u}
      BY <1>4, <1>7 DEF MayClaim
    <2>2. role'[s][u] = "owner" /\ \A v \in Users \ {u} : role'[s][v] # "none" <=> role[s][v] # "none"
      BY <1>2, <1>6, <1>7
    <2> QED BY <1>6, <2>1, <2>2, ClaimStep DEF Ownership!Next
  <1>8. CASE r = "member"
    <2>1. role'[s][u] = "member" /\ \A v \in Users \ {u} : role'[s][v] = role[s][v]
      BY <1>2, <1>6, <1>8
    <2> QED BY <1>6, <2>1, JoinStep DEF Ownership!Next
  <1> QED BY <1>1, <1>7, <1>8

\* unbind_station_from_user
LEMMA UnbindStep ==
  ASSUME IInv, IInv', NEW u \in Users, NEW s \in Stations, Unbind(u, s)
  PROVE  Ownership!Next
  <1> DEFINE left == [role EXCEPT ![s][u] = "none"]
  <1>1. role \in RoleTables /\ role[s][u] # "none" /\ SingleOwner(role)
    BY RowsOfInvariant DEF Unbind
  <1>2. /\ left \in RoleTables
        /\ \A t \in Stations, v \in Users :
             left[t][v] = IF t = s /\ v = u THEN "none" ELSE role[t][v]
    BY <1>1 DEF RoleTables, Roles
  <1>3. stations \in SUBSET Stations /\ stationTombstones \in SUBSET Stations
    BY DEF IInv, TypeOK
  <1>4. s \in stations
    BY <1>1 DEF IInv, RowsHaveStation, Bound
  <1>5. \/ /\ Bound(left, s) = {}
           /\ Save(stations \ {s}, stationTombstones \cup ({s} \cap stations), left)
        \/ /\ Bound(left, s) # {}
           /\ ~PromotionNeeded(s, u)
           /\ Save(stations, stationTombstones, left)
        \/ /\ PromotionNeeded(s, u)
           /\ \E v \in Bound(left, s) :
                Save(stations, stationTombstones, [left EXCEPT ![s][v] = "owner"])
    BY DEF Unbind
  <1> HIDE DEF left
  <1>6. Bound(left, s) = Bound(role, s) \ {u} /\ u \notin Bound(left, s)
    BY <1>2 DEF Bound
  <1>7. CASE /\ Bound(left, s) = {}
             /\ Save(stations \ {s}, stationTombstones \cup ({s} \cap stations), left)
    <2> DEFINE st == stations \ {s}
               tb == stationTombstones \cup ({s} \cap stations)
    <2>1. /\ st \in SUBSET Stations /\ tb \in SUBSET Stations /\ Save(st, tb, left)
          /\ stations \ {s} \subseteq st /\ st \ {s} \subseteq stations /\ s \notin st
          /\ tb \ {s} = stationTombstones \ {s}
      BY <1>3, <1>7
    <2>2. \A t \in Stations \ {s}, v \in Users : left[t][v] = role[t][v]
      BY <1>2
    <2> HIDE DEF st, tb
    <2>3. Differ(role, role', s) /\ \A v \in Users : role'[s][v] = "none"
      BY <1>2, <2>1, <2>2, SaveOf
    <2>4. \A v \in Users \ {u} : role[s][v] = "none"
      BY <1>6, <1>7 DEF Bound
    <2> QED BY <1>1, <2>3, <2>4, LeaveStep DEF Ownership!Next
  <1>8. ASSUME NEW new \in RoleTables, Save(stations, stationTombstones, new),
               new[s][u] = "none",
               \A t \in Stations \ {s}, v \in Users : new[t][v] = role[t][v],
               \A v \in Users \ {u} : /\ new[s][v] # "none" <=> role[s][v] # "none"
                                      /\ role[s][v] = "owner" => new[s][v] = "owner",
               \E v \in Users : new[s][v] = "owner"
        PROVE  Ownership!Next
    <2>1. \E v \in Users : new[s][v] # "none"
      BY <1>8
    <2>2. Differ(role, role', s) /\ \A v \in Users : role'[s][v] = new[s][v]
      <3>1. stations \ {s} \subseteq stations
        OBVIOUS
      <3>2. Save(stations, stationTombstones, new)
        BY <1>8
      <3>3. \A t \in Stations \ {s}, v \in Users : new[t][v] = role[t][v]
        BY <1>8
      <3> QED BY <1>3, <1>4, <2>1, <3>1, <3>2, <3>3, SaveOf
    <2>3. /\ role'[s][u] = "none"
          /\ \A v \in Users \ {u} : /\ role'[s][v] # "none" <=> role[s][v] # "none"
                                    /\ role[s][v] = "owner" => role'[s][v] = "owner"
          /\ \E v \in Users : role'[s][v] = "owner"
      BY <1>8, <2>2
    <2> QED BY <1>1, <2>2, <2>3, LeaveStep DEF Ownership!Next
  <1>9. CASE /\ Bound(left, s) # {}
             /\ ~PromotionNeeded(s, u)
             /\ Save(stations, stationTombstones, left)
    <2>1. PICK w \in Users \ {u} : role[s][w] = "owner"
      BY <1>6, <1>9 DEF PromotionNeeded, Owners
    <2>2. \E v \in Users : left[s][v] = "owner"
      BY <1>2, <2>1
    <2>3. /\ left[s][u] = "none"
          /\ \A t \in Stations \ {s}, v \in Users : left[t][v] = role[t][v]
          /\ \A v \in Users \ {u} : left[s][v] = role[s][v]
      BY <1>2
    <2>4. \A v \in Users \ {u} : /\ left[s][v] # "none" <=> role[s][v] # "none"
                                 /\ role[s][v] = "owner" => left[s][v] = "owner"
      BY <2>3
    <2> QED BY <1>2, <1>8, <1>9, <2>2, <2>3, <2>4
  <1>10. ASSUME NEW w \in Bound(left, s), PromotionNeeded(s, u),
                Save(stations, stationTombstones, [left EXCEPT ![s][w] = "owner"])
         PROVE  Ownership!Next
    <2> DEFINE new == [left EXCEPT ![s][w] = "owner"]
    <2>1. w \in Users \ {u} /\ left[s][w] # "none" /\ role[s][w] # "none"
      BY <1>2, <1>6 DEF Bound
    <2>2. /\ new \in RoleTables
          /\ \A t \in Stations, v \in Users :
               new[t][v] = IF t = s /\ v = w THEN "owner" ELSE left[t][v]
      BY <1>2, <2>1 DEF RoleTables, Roles
    <2>3. Save(stations, stationTombstones, new)
      BY <1>10
    <2> HIDE DEF new
    <2>4. /\ new[s][u] = "none"
          /\ \A t \in Stations \ {s}, v \in Users : new[t][v] = role[t][v]
          /\ \A v \in Users \ {u} : new[s][v] = role[s][v] \/ (v = w /\ new[s][v] = "owner")
          /\ new[s][w] = "owner"
      BY <1>2, <2>1, <2>2
    <2>5. \A v \in Users \ {u} : /\ new[s][v] # "none" <=> role[s][v] # "none"
                                 /\ role[s][v] = "owner" => new[s][v] = "owner"
      BY <2>1, <2>4
    <2>6. \E v \in Users : new[s][v] = "owner"
      BY <2>1, <2>4
    <2> QED BY <1>8, <2>2, <2>3, <2>4, <2>5, <2>6
  <1> QED BY <1>5, <1>7, <1>9, <1>10

\* remove_station
LEMMA RemoveStep ==
  ASSUME IInv, IInv', NEW s \in Stations, RemoveStation(s)
  PROVE  Ownership!Next
  <1> DEFINE st == stations \ {s}
  <1>1. st \in SUBSET Stations /\ stationTombstones \in SUBSET Stations /\ role \in RoleTables
    BY RowsOfInvariant DEF IInv, TypeOK
  <1>2. /\ Save(st, stationTombstones, role)
        /\ stations \ {s} \subseteq st /\ st \ {s} \subseteq stations /\ s \notin st
    BY DEF RemoveStation
  <1> HIDE DEF st
  <1>3. Differ(role, role', s) /\ \A v \in Users : role'[s][v] = "none"
    BY <1>1, <1>2, SaveOf
  <1> QED BY <1>3, DisbandStep DEF Ownership!Next

\* update_station_status, when the report binds the account of its token.
LEMMA AutoBindStep ==
  ASSUME IInv, IInv', NEW u \in Users, NEW s \in Stations, ReportAutoBind(u, s)
  PROVE  Ownership!Next
  <1> DEFINE rl == Upserted(role, s, u, "owner")
  <1>1. role \in RoleTables /\ SingleOwner(role) /\ "owner" \in {"owner", "member"}
    BY RowsOfInvariant
  <1>2. \A v \in Users : role[s][v] = "none"
    BY DEF ReportAutoBind, MayAutoBind, Bound
  <1>3. /\ rl \in RoleTables
        /\ \A t \in Stations, v \in Users :
             rl[t][v] = IF t = s /\ v = u THEN "owner" ELSE role[t][v]
    BY <1>1, <1>2, UpsertedFacts
  <1>4. /\ stations \in SUBSET Stations /\ stationTombstones \in SUBSET Stations /\ s \in stations
        /\ Save(stations, stationTombstones, rl)
    BY DEF IInv, TypeOK, ReportAutoBind
  <1> HIDE DEF rl
  <1>5. /\ \A t \in Stations \ {s}, v \in Users : rl[t][v] = role[t][v]
        /\ \E v \in Users : rl[s][v] # "none"
    BY <1>3
  <1>6. Differ(role, role', s) /\ \A v \in Users : role'[s][v] = rl[s][v]
    BY <1>3, <1>4, <1>5, SaveOf
  <1>7. Owners(role, s) \subseteq {u}
    BY <1>2 DEF Owners
  <1>8. role'[s][u] = "owner" /\ \A v \in Users \ {u} : role'[s][v] # "none" <=> role[s][v] # "none"
    BY <1>3, <1>6
  <1> QED BY <1>6, <1>7, <1>8, ClaimStep DEF Ownership!Next

\* Every step maps to a step, or leaves the rows alone.
LEMMA NextImplements ==
  ASSUME IInv, IInv', [Next]_vars
  PROVE  Ownership!Next \/ role' = role
  <1>1. stations \in SUBSET Stations /\ stationTombstones \in SUBSET Stations
    BY DEF IInv, TypeOK
  <1>2. ASSUME NEW s \in Stations, SetStation(s) PROVE Ownership!Next \/ role' = role
    <2>1. stations \cup {s} \in SUBSET Stations /\ stationTombstones \ {s} \in SUBSET Stations
      BY <1>1
    <2> QED BY <1>2, <2>1, SaveStep DEF SetStation
  <1>3. ASSUME NEW s \in Stations, Telemetry(s) \/ EnsureCameraStation(s)
        PROVE  Ownership!Next \/ role' = role
    <2>1. stations \cup {s} \in SUBSET Stations
      BY <1>1
    <2> QED BY <1>1, <1>3, <2>1, SaveStep DEF Telemetry, EnsureCameraStation
  <1>4. ASSUME NEW w \in Workers, FinishNaming(w) PROVE Ownership!Next \/ role' = role
    <2>1. naming[w] \in Stations /\ SetStation(naming[w])
      BY <1>4 DEF FinishNaming, IInv, TypeOK
    <2> QED BY <1>2, <2>1
  <1>5. CASE Next
    <2>1. ASSUME NEW u \in Users, NEW s \in Stations, NEW r \in BindRoles, BindRow(u, s, r)
          PROVE  Ownership!Next
      BY <2>1, BindStep
    <2> QED BY <1>2, <1>3, <1>4, <1>5, <2>1, NextCases, UnbindStep, RemoveStep, AutoBindStep
            DEF BindOrClaim, StationAdd, StationSet, StationLock, Abandon, Restart
  <1>6. CASE UNCHANGED vars
    BY <1>6 DEF vars
  <1> QED BY <1>5, <1>6

\* For any accounts and stations: the rows, with the user of the owner row for
\* the holder, behave as the abstract specification allows.
THEOREM RowsImplementOwnership == Spec => ImplementsOwnership
  <1>1. Init => Ownership!Init
    <2> SUFFICES ASSUME Init PROVE Ownership!Init
      OBVIOUS
    <2>1. role \in RoleTables /\ SingleOwner(role)
      BY InitEstablishesInvariant, RowsOfInvariant
    <2>2. \A s \in Stations : /\ Bound(role, s) \in SUBSET Users
                              /\ Holder(role, s) \in Users \cup {NoUser}
                              /\ Holder(role, s) # NoUser => Holder(role, s) \in Bound(role, s)
      BY <2>1, HolderFacts DEF Bound
    <2> QED BY <2>2 DEF Ownership!Init
  <1>2. IInv /\ IInv' /\ [Next]_vars => [Ownership!Next]_(Ownership!aVars)
    <2> SUFFICES ASSUME IInv, IInv', [Next]_vars PROVE [Ownership!Next]_(Ownership!aVars)
      OBVIOUS
    <2>1. role' = role => UNCHANGED Ownership!aVars
      BY DEF Ownership!aVars, Holder, Bound, Owners
    <2> QED BY <2>1, NextImplements
  <1> QED BY <1>1, <1>2, InvariantHolds, PTL DEF Spec, ImplementsOwnership, Ownership!Spec

=============================================================================
