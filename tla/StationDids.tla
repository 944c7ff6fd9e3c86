----------------------------- MODULE StationDids -----------------------------
(***************************************************************************)
(* The peer-to-peer identities (DIDs) of stations                          *)
(* (app/store_domains/station.py, app/station_did.py).  An app reaches a   *)
(* station by its DID.  A DID comes from the device's own report, from the *)
(* table p2p_did_pool, or from the configuration, and is then mapped to    *)
(* its station in kv_state.stationDidMappings.                             *)
(*                                                                         *)
(* Each call is one transaction under the store's lock, and one step here. *)
(* A DID stands for its syDid; placeholders are NoDid.  Who a DID was      *)
(* issued to besides its station is recorded by the code and left out.     *)
(***************************************************************************)
EXTENDS Integers, FiniteSets, SequencesExt

CONSTANTS
  DidStations,    \* station serial numbers
  DidOrder,       \* the same, as a sequence in their sorting order
  DefaultBase,    \* DEFAULT_STATION_SN
  StaticDid,      \* the one DID of static_test_station_did_pool
  ConfiguredDid,  \* of each station: configured_station_did
  StaticMode,     \* default_station_did_mode is "static", not "derived"
  GeneratedDids,  \* what derived mode tries for the default station, in order
  PlaceholderDids, \* the DIDs whose init code or key is a placeholder
  DeviceDids,     \* of each station: the DIDs its device may report
  Free,           \* a row of the pool that is assigned to nobody
  NoDid           \* no DID, a placeholder, or no row

Dids == {StaticDid} \cup {ConfiguredDid[s] : s \in DidStations}
          \cup {GeneratedDids[n] : n \in DOMAIN GeneratedDids}
          \cup UNION {DeviceDids[s] : s \in DidStations}

ASSUME DidAssumption ==
  /\ DefaultBase \in DidStations /\ DidOrder \in Seq(DidStations)
  /\ GeneratedDids \in Seq(Dids) /\ PlaceholderDids \subseteq Dids
  /\ NoDid \notin Dids \cup DidStations /\ Free \notin DidStations

VARIABLES
  bases,       \* stations in kv_state
  owned,       \* stations with a bound user
  baseTombs,   \* stationTombstones
  reportedDid, \* of each station's record
  ids          \* the DIDs' state that an issue changes: see IdStates

didVars == <<bases, owned, baseTombs, reportedDid, ids>>

MaybeDid == Dids \cup {NoDid}
IdStates == [did     : [DidStations -> MaybeDid],  \* the station record's did
             mapping : [DidStations -> MaybeDid],  \* stationDidMappings
             pool    : [Dids -> DidStations \cup {Free, NoDid}]]  \* p2p_did_pool

Held(i, s) == {d \in Dids : i.pool[d] = s}

-----------------------------------------------------------------------------
(***************************************************************************)
(* The pool.                                                               *)
(***************************************************************************)
\* _upsert_station_did_pool_entry_unlocked
Upserted(i, d) == [i EXCEPT !.pool[d] = IF @ = NoDid THEN Free ELSE @]

Refused(i, d, s) == i.pool[d] \notin {Free, NoDid, s}

\* Mutant of Assigned: the station's other rows stay assigned.
AssignedToo(i, d, s) == [i EXCEPT !.pool[d] = s]

\* _assign_station_did_pool_entry_unlocked, of an upserted row that is not
\* refused.
Assigned(i, d, s) ==
  [i EXCEPT !.pool = [e \in Dids |->
     IF e = d THEN s ELSE IF e \in Held(i, s) THEN Free ELSE i.pool[e]]]

\* _upsert_station_did_mapping_unlocked, _apply_station_did_to_state_unlocked
Mapped(i, d, s) == [i EXCEPT !.mapping[s] = d, !.did[s] = d]

\* _try_candidate, of a DID that is not refused.
Taken(i, d, s) == Mapped(Assigned(Upserted(i, d), d, s), d, s)

\* _issued_station_dids_unlocked
IssuedToOthers(i, s) ==
  {i.did[t] : t \in bases \ {s}} \cup {reportedDid[t] : t \in bases \ {s}}

FallbackCandidates(s) ==
  IF s # DefaultBase /\ StaticMode THEN <<StaticDid, ConfiguredDid[s]>> ELSE <<ConfiguredDid[s]>>

\* _fallback_station_did_for_station_unlocked: the first candidate that no
\* other station has.
Unused(i, s) ==
  {n \in DOMAIN FallbackCandidates(s) : FallbackCandidates(s)[n] \notin IssuedToOthers(i, s)}

Fallback(i, s) ==
  IF Unused(i, s) = {} THEN NoDid
  ELSE FallbackCandidates(s)[CHOOSE n \in Unused(i, s) : \A m \in Unused(i, s) : n <= m]

(***************************************************************************)
(* _assign_station_did_from_pool_unlocked and what its caller does when it *)
(* finds nothing.  The result is a set: which of the free rows comes first *)
(* depends on their sort order and age.                                    *)
(***************************************************************************)
FreeRows(i) == {d \in Dids : i.pool[d] = Free}

IssuedByFallback(i, s) ==
  LET d == Fallback(i, s)
  IN  IF d = NoDid THEN [i EXCEPT !.did[s] = NoDid]
      ELSE IF Refused(i, d, s) THEN Mapped(i, d, s) ELSE Taken(i, d, s)

IssuedFromPool(i, s) ==
  LET stored == i.did[s]
  IN  IF stored # NoDid /\ ~Refused(i, stored, s) THEN {Taken(i, stored, s)}
      ELSE IF Held(i, s) # {} THEN {Mapped(i, d, s) : d \in Held(i, s)}
      ELSE IF FreeRows(i) # {} THEN {Taken(i, d, s) : d \in FreeRows(i)}
      ELSE {IssuedByFallback(i, s)}

\* Mutant of Settled: a mapping is made anew, from the report or the pool.
NotSettled(i, s) == {}

\* The DID that a station is mapped to stays.
Settled(i, s) ==
  IF i.mapping[s] = NoDid THEN {} ELSE {[i EXCEPT !.did[s] = i.mapping[s]]}

\* _station_did_needs_issue_unlocked, of the default station.  In derived mode
\* placeholder codes count, and those of the default settings are such.
NeedsIssue(i) ==
  \/ i.did[DefaultBase] = NoDid
  \/ ~StaticMode /\ i.did[DefaultBase] \in PlaceholderDids

Unissued(i) ==
  {n \in DOMAIN GeneratedDids : GeneratedDids[n] \notin IssuedToOthers(i, DefaultBase)}

\* _generate_unique_station_did_unlocked; it raises when none is left.
Generated(i) ==
  IF StaticMode THEN {ConfiguredDid[DefaultBase]}
  ELSE {GeneratedDids[n] : n \in {m \in Unissued(i) : \A k \in Unissued(i) : m <= k}}

\* _ensure_station_did_unlocked.  Whether another station has the DID of the
\* default station's record is not looked at; a generated one is not mapped.
Ensured(i, s) ==
  IF Settled(i, s) # {} THEN Settled(i, s)
  ELSE IF s = DefaultBase
       THEN IF NeedsIssue(i) THEN {[i EXCEPT !.did[s] = d] : d \in Generated(i)} ELSE {i}
  ELSE IF reportedDid[s] # NoDid THEN {Mapped(i, reportedDid[s], s)}
  ELSE IssuedFromPool(i, s)

\* _build_station
Built(i, s) == IF s \in bases THEN i
               ELSE [i EXCEPT !.did[s] = IF s = DefaultBase THEN ConfiguredDid[s] ELSE NoDid]

(***************************************************************************)
(* The start of the service.                                               *)
(***************************************************************************)
Recorded(i, s) ==
  IF i.mapping[s] # NoDid THEN i.mapping[s]
  ELSE IF reportedDid[s] # NoDid THEN reportedDid[s] ELSE i.did[s]

\* _station_did_from_state_unlocked
Known(i, s) == IF Recorded(i, s) # NoDid THEN Recorded(i, s) ELSE Fallback(i, s)

SeededBy(i, s) ==
  LET d == Known(i, s)
  IN  IF s \notin bases \/ d = NoDid THEN i
      ELSE IF Refused(i, d, s) THEN i
      ELSE Assigned(Upserted(i, d), d, s)

\* _seed_station_did_pool_unlocked: one station after the other, then the
\* rows of the stations that are gone.
Seeding(i) ==
  LET after[n \in 0..Len(DidOrder)] ==
        IF n = 0 THEN Upserted(i, StaticDid) ELSE SeededBy(after[n - 1], DidOrder[n])
  IN  after

Seeded(i) ==
  LET j == Seeding(i)[Len(DidOrder)]
  IN  [j EXCEPT !.pool = [d \in Dids |-> IF @[d] \in DidStations \ bases THEN Free ELSE @[d]]]

\* backfill_station_dids: one station after the other.
BackfilledBy(js, s) == IF s \in owned THEN UNION {Ensured(j, s) : j \in js} ELSE js

Backfilling(i) ==
  LET after[n \in 0..Len(DidOrder)] ==
        IF n = 0 THEN {i} ELSE BackfilledBy(after[n - 1], DidOrder[n])
  IN  after

Backfilled(i) == Backfilling(i)[Len(DidOrder)]

-----------------------------------------------------------------------------
(***************************************************************************)
(* The calls.                                                              *)
(***************************************************************************)
\* bind_station_to_user; it fails when there is no DID to be had.
BindStation(s) ==
  /\ ids' \in Ensured(Built(ids, s), s)
  /\ ids'.did[s] # NoDid
  /\ bases' = bases \cup {s}
  /\ owned' = owned \cup {s}
  /\ baseTombs' = baseTombs \ {s}
  /\ UNCHANGED <<reportedDid>>

Gone(s) ==
  /\ bases' = bases \ {s}
  /\ owned' = owned \ {s}
  /\ reportedDid' = [reportedDid EXCEPT ![s] = NoDid]

\* unbind_station_from_user, by one of several users and by the last.
LeaveStation(s) ==
  /\ s \in owned
  /\ ids' \in Ensured(ids, s)
  /\ UNCHANGED <<bases, owned, baseTombs, reportedDid>>

UnbindStation(s) ==
  /\ s \in owned
  /\ Gone(s)
  /\ baseTombs' = baseTombs \cup {s}
  /\ ids' = [did |-> [ids.did EXCEPT ![s] = NoDid],
             mapping |-> [ids.mapping EXCEPT ![s] = NoDid],
             pool |-> [d \in Dids |-> IF d \in Held(ids, s) THEN Free ELSE ids.pool[d]]]

\* remove_station keeps the mapping and the row of the pool, and writes no
\* tombstone.
DropStation(s) ==
  /\ s \in bases
  /\ Gone(s)
  /\ ids' = [ids EXCEPT !.did[s] = NoDid]
  /\ UNCHANGED baseTombs

\* update_station_attr, with the device's DID in it; a report without one is
\* what an unknown station is recorded by, and may bind it.
ReportDid(s, d) ==
  /\ s \notin baseTombs
  /\ bases' = bases \cup {s}
  /\ reportedDid' = [reportedDid EXCEPT ![s] = d]
  /\ ids' = Mapped(Built(ids, s), d, s)
  /\ owned' = IF s = DefaultBase THEN owned \cup {s} ELSE owned
  /\ UNCHANGED baseTombs

ReportStation(s) ==
  /\ s \notin bases \cup baseTombs
  /\ bases' = bases \cup {s}
  /\ ids' = Built(ids, s)
  /\ owned' \in IF s = DefaultBase THEN {owned \cup {s}} ELSE {owned, owned \cup {s}}
  /\ UNCHANGED <<baseTombs, reportedDid>>

\* init_db
StartService ==
  /\ ids' \in Backfilled(Seeded(ids))
  /\ UNCHANGED <<bases, owned, baseTombs, reportedDid>>

\* A new database, with the default station in it, once started.
FirstIds == [did     |-> [s \in DidStations |-> IF s = DefaultBase THEN ConfiguredDid[s] ELSE NoDid],
             mapping |-> [s \in DidStations |-> IF s = DefaultBase THEN ConfiguredDid[s] ELSE NoDid],
             pool    |-> [d \in Dids |-> NoDid]]

DidInit ==
  /\ bases = {DefaultBase} /\ owned = {DefaultBase} /\ baseTombs = {}
  /\ reportedDid = [s \in DidStations |-> NoDid]
  /\ ids \in Backfilled(Seeded(FirstIds))

DidNext ==
  \/ \E s \in DidStations :
       \/ BindStation(s) \/ LeaveStation(s) \/ UnbindStation(s) \/ DropStation(s)
       \/ ReportStation(s)
       \/ \E d \in DeviceDids[s] : ReportDid(s, d)
  \/ StartService

DidSpec == DidInit /\ [][DidNext]_didVars

-----------------------------------------------------------------------------
\* The type invariant; a station holds at most one row of the pool, whatever it
\* has reported and been issued before.
DidTypeOK ==
  /\ bases \subseteq DidStations /\ owned \subseteq bases /\ baseTombs \subseteq DidStations
  /\ reportedDid \in [DidStations -> MaybeDid]
  /\ ids \in IdStates
  /\ \A s \in DidStations : Cardinality(Held(ids, s)) <= 1

\* "Keep DID stable per station" (app/store_domains/station.py:948): while a
\* station is recorded, no bind, no user's leaving, no restart and nothing that
\* happens to another station gives it another DID than the one it has or is
\* mapped to; only a report of its own does.  It is so in static mode; in the
\* derived mode that the comment is about, placeholder codes undo it.
KeepsItsDid ==
  [][ids' # ids =>
       \A s \in bases \cap bases' :
         ids.did[s] # NoDid /\ reportedDid'[s] = reportedDid[s]
           => ids'.did[s] \in {ids.did[s], ids.mapping[s]} \ {NoDid}]_didVars

\* "Keep one canonical DID per station.  A duplicated syDid causes app
\* control/pair commands to hit the wrong base station."
\* (app/store_domains/station.py:1081)  The code does not see to it.
OneStationPerDid ==
  \A s, t \in bases : s # t /\ ids.did[s] # NoDid => ids.did[s] # ids.did[t]

=============================================================================
