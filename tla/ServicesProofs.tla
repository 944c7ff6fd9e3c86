--------------------------- MODULE ServicesProofs ---------------------------
(***************************************************************************)
(* Theorems about the DIDs of stations and about the cloud storage         *)
(* service, for any stations, cameras, orders and caps, and about the      *)
(* services together.                                                      *)
(***************************************************************************)
EXTENDS MCServices, AppProofs, LivePipelineProofs, WellFoundedInduction

(***************************************************************************)
(* Station DIDs.                                                           *)
(***************************************************************************)
(***************************************************************************)
(* Counting up to N, for what is done to one station after the other.      *)
(***************************************************************************)
LEMMA LeastExists ==
  ASSUME NEW T, T \subseteq Nat, T # {}
  PROVE  \E n \in T : \A m \in T : n <= m
  <1> DEFINE R == OpToRel(<, Nat)
  <1>1. IsWellFoundedOn(R, Nat)
    BY NatLessThanWellFounded
  <1>2. \A x, y \in Nat : <<x, y>> \in R <=> x < y
    BY DEF OpToRel
  <1> HIDE DEF R
  <1>3. PICK n \in T : \A m \in T : ~ (<<m, n>> \in R)
    BY <1>1, WFMin
  <1>4. ASSUME NEW m \in T PROVE n <= m
    <2>1. m \in Nat /\ n \in Nat
      OBVIOUS
    <2>2. ~ (m < n)
      BY <1>2, <1>3, <2>1
    <2> QED BY <2>1, <2>2
  <1> QED BY <1>4

\* What holds of 0 and is handed on holds up to N.
LEMMA CountingUp ==
  ASSUME NEW N \in Nat, NEW S, 0 \in S, \A n \in 1..N : n - 1 \in S => n \in S
  PROVE  \A n \in 0..N : n \in S
  <1> SUFFICES ASSUME (0..N) \ S # {} PROVE FALSE
    OBVIOUS
  <1>1. PICK n \in (0..N) \ S : \A m \in (0..N) \ S : n <= m
    <2>1. (0..N) \ S \subseteq Nat
      OBVIOUS
    <2> QED BY <2>1, LeastExists
  <1>2. n \in 1..N /\ n - 1 \in 0..N /\ ~ (n <= n - 1)
    BY <1>1
  <1>3. n - 1 \in S
    BY <1>1, <1>2
  <1> QED BY <1>1, <1>2, <1>3

\* What one step after the other makes of b: step[<<x, n>>] is x after the n-th.
Run(f, b, step, N) ==
  f = [n \in 0..N |-> IF n = 0 THEN b ELSE step[<<f[n - 1], n>>]]

\* Steps can be done one after the other.
LEMMA RunExists ==
  ASSUME NEW b, NEW step, NEW N \in Nat
  PROVE  \E f : Run(f, b, step, N)
  <1> DEFINE S == {n \in 0..N : \E f : Run(f, b, step, n)}
  <1>1. 0 \in S
    <2>1. Run([n \in 0..0 |-> b], b, step, 0)
      BY DEF Run
    <2> QED BY <2>1
  <1>2. ASSUME NEW n \in 1..N, n - 1 \in S PROVE n \in S
    <2>1. PICK f : Run(f, b, step, n - 1)
      BY <1>2
    <2> DEFINE g == [m \in 0..n |-> IF m = n THEN step[<<f[n - 1], n>>] ELSE f[m]]
    <2>2. f = [m \in 0..n - 1 |-> IF m = 0 THEN b ELSE step[<<f[m - 1], m>>]]
      BY <2>1 DEF Run
    <2>3. ASSUME NEW m \in 0..n
          PROVE  g[m] = IF m = 0 THEN b ELSE step[<<g[m - 1], m>>]
      <3>1. CASE m = n
        <4>1. m # 0 /\ m - 1 \in 0..n /\ m - 1 # n
          BY <3>1
        <4>2. g[m] = step[<<f[n - 1], n>>] /\ g[m - 1] = f[m - 1]
          BY <3>1, <4>1
        <4> QED BY <3>1, <4>1, <4>2
      <3>2. CASE m # n /\ m # 0
        <4>1. m \in 0..n - 1 /\ m - 1 \in 0..n /\ m - 1 # n
          BY <3>2
        <4>2. g[m] = f[m] /\ g[m - 1] = f[m - 1]
          BY <3>2, <4>1
        <4> QED BY <2>2, <3>2, <4>1, <4>2
      <3>3. CASE m = 0
        <4>1. m \in 0..n - 1 /\ m # n
          BY <3>3
        <4> QED BY <2>2, <3>3, <4>1
      <3> QED BY <3>1, <3>2, <3>3
    <2>4. Run(g, b, step, n)
      <3>1. g = [m \in 0..n |-> g[m]]
        OBVIOUS
      <3> HIDE DEF g
      <3> QED BY <2>3, <3>1 DEF Run
    <2> QED BY <2>4
  <1> HIDE DEF S
  <1>3. N \in S
    BY <1>1, <1>2, CountingUp
  <1> QED BY <1>3 DEF S

-----------------------------------------------------------------------------
(***************************************************************************)
(* The state of the DIDs.                                                  *)
(***************************************************************************)
\* No station has two rows of the pool.
OneRow(i) == \A d, e \in Dids : i.pool[d] = i.pool[e] /\ i.pool[d] \in DidStations => d = e

\* A DID was mapped when it was issued, but the default station's.
DidsAreMapped(i) == \A s \in DidStations \ {DefaultBase} : i.did[s] # NoDid => i.mapping[s] # NoDid

\* A station is mapped to what its device has reported.
ReportsAreMapped(i, r) == \A s \in DidStations : r[s] # NoDid => i.mapping[s] = r[s]

Typed(i) == i \in IdStates /\ OneRow(i)
Good(i, r) == Typed(i) /\ DidsAreMapped(i) /\ ReportsAreMapped(i, r)

\* What does not happen to the stations but s.
OnlyAt(i, j, s) ==
  \A t \in DidStations \ {s} : j.did[t] = i.did[t] /\ j.mapping[t] = i.mapping[t]

\* The default station's DID is issued once: in static mode, and in derived mode
\* when codes that are no placeholders are configured.
IssuedOnce == StaticMode \/ PlaceholderDids = {}

\* A station that has a DID has the same, or the one it is mapped to.
KeepsAt(i, j, s) ==
  (s # DefaultBase \/ IssuedOnce) /\ i.did[s] # NoDid => /\ j.mapping[s] = i.mapping[s]
                      /\ j.did[s] \in {i.did[s], i.mapping[s]} \ {NoDid}
Keeps(i, j) == \A s \in DidStations : KeepsAt(i, j, s)

\* DIDs are none of the words for there being none.
LEMMA DidsAreThere ==
  /\ StaticDid \in Dids /\ \A s \in DidStations : ConfiguredDid[s] \in Dids
  /\ \A s \in DidStations : DeviceDids[s] \subseteq Dids
  /\ \A i : Generated(i) \subseteq Dids
  /\ NoDid \notin Dids /\ NoDid \notin DidStations /\ Free \notin DidStations
  /\ DefaultBase \in DidStations
  <1>1. \A i : Generated(i) \subseteq Dids
    BY DidAssumption DEF Dids, Generated, Unissued
  <1> QED BY <1>1, DidAssumption DEF Dids

\* A station that has no two rows has one at most.
LEMMA OneRowCounts ==
  ASSUME NEW i, OneRow(i), NEW s \in DidStations
  PROVE  Cardinality(Held(i, s)) <= 1
  <1>1. \A d, e \in Held(i, s) : d = e
    BY DEF Held, OneRow
  <1>2. CASE Held(i, s) = {}
    BY <1>2, FS_EmptySet
  <1>3. CASE Held(i, s) # {}
    <2>1. PICK d \in Held(i, s) : TRUE
      BY <1>3
    <2>2. Held(i, s) = {d}
      BY <1>1, <2>1
    <2>3. Cardinality({d}) = 1
      BY FS_Singleton
    <2> QED BY <2>2, <2>3
  <1> QED BY <1>2, <1>3

\* A row that is added is free.
LEMMA UpsertedIs ==
  ASSUME NEW i, Typed(i), NEW d \in Dids
  PROVE  /\ Typed(Upserted(i, d))
         /\ Upserted(i, d).did = i.did /\ Upserted(i, d).mapping = i.mapping
  <1>1. /\ Upserted(i, d) \in IdStates
        /\ Upserted(i, d).did = i.did /\ Upserted(i, d).mapping = i.mapping
        /\ \A e \in Dids : Upserted(i, d).pool[e]
                             = IF e = d /\ i.pool[e] = NoDid THEN Free ELSE i.pool[e]
    BY DEF Upserted, Typed, IdStates
  <1> QED BY <1>1, DidsAreThere DEF Typed, OneRow

\* An assigned row is the only one its station has.
LEMMA AssignedIs ==
  ASSUME NEW i, Typed(i), NEW d \in Dids, NEW s \in DidStations
  PROVE  /\ Typed(Assigned(i, d, s))
         /\ Assigned(i, d, s).did = i.did /\ Assigned(i, d, s).mapping = i.mapping
  <1>1. /\ Assigned(i, d, s) \in IdStates
        /\ Assigned(i, d, s).did = i.did /\ Assigned(i, d, s).mapping = i.mapping
        /\ \A e \in Dids : Assigned(i, d, s).pool[e]
                             = IF e = d THEN s ELSE IF e \in Held(i, s) THEN Free ELSE i.pool[e]
    BY DEF Assigned, Typed, IdStates
  <1> QED BY <1>1, DidsAreThere DEF Typed, OneRow, Held

\* The station s is mapped to a DID, and has it.
Gets(i, j, s) ==
  /\ Typed(j) /\ OnlyAt(i, j, s)
  /\ j.mapping[s] \in Dids /\ j.did[s] = j.mapping[s]

\* A station gets the DID it is mapped to.
LEMMA MappedIs ==
  ASSUME NEW i, Typed(i), NEW d \in Dids, NEW s \in DidStations
  PROVE  /\ Gets(i, Mapped(i, d, s), s)
         /\ Mapped(i, d, s).did[s] = d /\ Mapped(i, d, s).mapping[s] = d
  <1>1. /\ Mapped(i, d, s) \in IdStates
        /\ Mapped(i, d, s).pool = i.pool
        /\ \A t \in DidStations : /\ Mapped(i, d, s).did[t] = IF t = s THEN d ELSE i.did[t]
                                  /\ Mapped(i, d, s).mapping[t] = IF t = s THEN d ELSE i.mapping[t]
    BY DEF Mapped, Typed, IdStates, MaybeDid
  <1> QED BY <1>1 DEF Typed, OneRow, Gets, OnlyAt

\* A station gets the DID whose row it takes.
LEMMA TakenIs ==
  ASSUME NEW i, Typed(i), NEW d \in Dids, NEW s \in DidStations
  PROVE  Gets(i, Taken(i, d, s), s)
  <1> DEFINE j == Assigned(Upserted(i, d), d, s)
  <1>1. Typed(j) /\ j.did = i.did /\ j.mapping = i.mapping
    BY UpsertedIs, AssignedIs
  <1> HIDE DEF j
  <1>2. Gets(j, Mapped(j, d, s), s)
    BY <1>1, MappedIs
  <1>3. Gets(i, Mapped(j, d, s), s)
    BY <1>1, <1>2 DEF Gets, OnlyAt
  <1> QED BY <1>3 DEF Taken, j

\* The fallback is a DID, or none.
LEMMA FallbackIs ==
  ASSUME NEW i, NEW s \in DidStations
  PROVE  Fallback(i, s) \in MaybeDid
  <1>1. CASE Unused(i, s) = {}
    BY <1>1 DEF Fallback, MaybeDid
  <1>2. CASE Unused(i, s) # {}
    <2>1. /\ DOMAIN FallbackCandidates(s) \subseteq Nat
          /\ \A n \in DOMAIN FallbackCandidates(s) : FallbackCandidates(s)[n] \in Dids
      BY DidsAreThere DEF FallbackCandidates
    <2>2. Unused(i, s) \subseteq Nat
      BY <2>1 DEF Unused
    <2>3. \E n \in Unused(i, s) : \A m \in Unused(i, s) : n <= m
      BY <1>2, <2>2, LeastExists
    <2>4. (CHOOSE n \in Unused(i, s) : \A m \in Unused(i, s) : n <= m) \in Unused(i, s)
      BY <2>3
    <2> QED BY <1>2, <2>1, <2>4 DEF Fallback, Unused, MaybeDid
  <1> QED BY <1>1, <1>2

\* The station s ends without a DID.
Loses(i, j, s) ==
  Typed(j) /\ OnlyAt(i, j, s) /\ j.did[s] = NoDid /\ j.mapping[s] = i.mapping[s]

\* A station is issued a DID, or ends without.
LEMMA FromPoolIs ==
  ASSUME NEW i, Typed(i), NEW s \in DidStations, NEW j \in IssuedFromPool(i, s)
  PROVE  Gets(i, j, s) \/ Loses(i, j, s)
  <1>1. CASE i.did[s] # NoDid /\ ~Refused(i, i.did[s], s)
    <2>1. i.did[s] \in Dids
      BY <1>1 DEF Typed, IdStates, MaybeDid
    <2>2. j = Taken(i, i.did[s], s)
      BY <1>1 DEF IssuedFromPool
    <2> QED BY <2>1, <2>2, TakenIs
  <1>2. CASE \E d \in Held(i, s) : j = Mapped(i, d, s)
    BY <1>2, MappedIs DEF Held
  <1>3. CASE \E d \in FreeRows(i) : j = Taken(i, d, s)
    BY <1>3, TakenIs DEF FreeRows
  <1>4. CASE j = IssuedByFallback(i, s)
    <2>1. CASE Fallback(i, s) = NoDid
      <3>1. j = [i EXCEPT !.did[s] = NoDid]
        BY <1>4, <2>1 DEF IssuedByFallback
      <3>2. /\ j \in IdStates /\ j.pool = i.pool /\ j.mapping = i.mapping
            /\ \A t \in DidStations : j.did[t] = IF t = s THEN NoDid ELSE i.did[t]
        BY <3>1 DEF Typed, IdStates, MaybeDid
      <3> QED BY <3>2 DEF Loses, Typed, OneRow, OnlyAt
    <2>2. CASE Fallback(i, s) # NoDid
      <3>1. Fallback(i, s) \in Dids
        BY <2>2, FallbackIs DEF MaybeDid
      <3> QED BY <1>4, <2>2, <3>1, MappedIs, TakenIs DEF IssuedByFallback
    <2> QED BY <2>1, <2>2
  <1> QED BY <1>1, <1>2, <1>3, <1>4 DEF IssuedFromPool

\* "Keep DID stable per station" (app/store_domains/station.py:948).
LEMMA EnsuredKeeps ==
  ASSUME NEW i, NEW s \in DidStations, Good(i, reportedDid),
         reportedDid \in [DidStations -> MaybeDid], NEW j \in Ensured(i, s)
  PROVE  Good(j, reportedDid) /\ OnlyAt(i, j, s) /\ KeepsAt(i, j, s)
  <1> DEFINE Goal == Good(j, reportedDid) /\ OnlyAt(i, j, s) /\ KeepsAt(i, j, s)
  <1>1. CASE i.mapping[s] # NoDid
    <2>1. j = [i EXCEPT !.did[s] = i.mapping[s]]
      BY <1>1 DEF Ensured, Settled
    <2>2. /\ j \in IdStates /\ j.pool = i.pool /\ j.mapping = i.mapping
          /\ \A t \in DidStations : j.did[t] = IF t = s THEN i.mapping[t] ELSE i.did[t]
      BY <2>1 DEF Good, Typed, IdStates, MaybeDid
    <2>3. Typed(j)
      BY <2>2 DEF Good, Typed, OneRow
    <2> QED BY <1>1, <2>2, <2>3 DEF Good, DidsAreMapped, ReportsAreMapped, OnlyAt, KeepsAt
  <1>2. CASE i.mapping[s] = NoDid /\ s = DefaultBase
    <2>1. j \in IF NeedsIssue(i) THEN {[i EXCEPT !.did[s] = d] : d \in Generated(i)} ELSE {i}
      BY <1>2 DEF Ensured, Settled
    <2>2. CASE ~NeedsIssue(i)
      <3>1. j = i
        BY <2>1, <2>2
      <3> QED BY <1>2, <3>1 DEF NeedsIssue, Good, OnlyAt, KeepsAt
    <2>3. CASE NeedsIssue(i)
      <3>1. PICK d \in Generated(i) : j = [i EXCEPT !.did[s] = d]
        BY <2>1, <2>3
      <3>2. d \in Dids
        BY DidsAreThere
      <3>3. IssuedOnce => i.did[s] = NoDid
        BY <1>2, <2>3 DEF NeedsIssue, IssuedOnce
      <3>4. /\ j \in IdStates /\ j.pool = i.pool /\ j.mapping = i.mapping
            /\ \A t \in DidStations \ {s} : j.did[t] = i.did[t]
        BY <3>1, <3>2 DEF Good, Typed, IdStates, MaybeDid
      <3>5. Typed(j)
        BY <3>4 DEF Good, Typed, OneRow
      <3> QED BY <1>2, <3>3, <3>4, <3>5
           DEF Good, DidsAreMapped, ReportsAreMapped, OnlyAt, KeepsAt
    <2> QED BY <2>2, <2>3
  <1>3. CASE i.mapping[s] = NoDid /\ s # DefaultBase
    <2>1. i.did[s] = NoDid /\ reportedDid[s] = NoDid
      BY <1>3 DEF Good, DidsAreMapped, ReportsAreMapped
    <2>2. j \in IssuedFromPool(i, s)
      BY <1>3, <2>1 DEF Ensured, Settled
    <2>3. Gets(i, j, s) \/ Loses(i, j, s)
      BY <2>2, FromPoolIs DEF Good
    <2>4. DidsAreMapped(j)
      BY <2>3, DidsAreThere DEF Gets, Loses, OnlyAt, Good, DidsAreMapped
    <2>5. ReportsAreMapped(j, reportedDid)
      BY <2>1, <2>3 DEF Gets, Loses, OnlyAt, Good, ReportsAreMapped
    <2> QED BY <2>1, <2>3, <2>4, <2>5 DEF Gets, Loses, Good, KeepsAt
  <1> QED BY <1>1, <1>2, <1>3

-----------------------------------------------------------------------------
(***************************************************************************)
(* The start of the service.                                               *)
(***************************************************************************)
LEMMA SeededByIs ==
  ASSUME NEW i, Typed(i), reportedDid \in [DidStations -> MaybeDid], NEW s \in DidStations
  PROVE  /\ Typed(SeededBy(i, s))
         /\ SeededBy(i, s).did = i.did /\ SeededBy(i, s).mapping = i.mapping
  <1>1. CASE s \notin bases \/ Known(i, s) = NoDid \/ Refused(i, Known(i, s), s)
    BY <1>1 DEF SeededBy
  <1>2. CASE ~ (s \notin bases \/ Known(i, s) = NoDid \/ Refused(i, Known(i, s), s))
    <2>1. Known(i, s) \in Dids
      BY <1>2, FallbackIs DEF Known, Recorded, Typed, IdStates, MaybeDid
    <2>2. SeededBy(i, s) = Assigned(Upserted(i, Known(i, s)), Known(i, s), s)
      BY <1>2 DEF SeededBy
    <2> QED BY <2>1, <2>2, UpsertedIs, AssignedIs
  <1> QED BY <1>1, <1>2

\* Stations come in an order.
LEMMA OrderIs ==
  /\ Len(DidOrder) \in Nat
  /\ \A n \in 1..Len(DidOrder) : DidOrder[n] \in DidStations
  BY DidAssumption

\* Of the states that differ from i in the pool alone.
Pooled(i) == {j \in IdStates : Typed(j) /\ j.did = i.did /\ j.mapping = i.mapping}

\* Seeding changes the pool alone, station after station.
LEMMA SeedingIs ==
  ASSUME NEW i, Typed(i), reportedDid \in [DidStations -> MaybeDid]
  PROVE  Seeding(i)[Len(DidOrder)] \in Pooled(i)
  <1> DEFINE N == Len(DidOrder)
             step == [p \in IdStates \X (1..N) |-> SeededBy(p[1], DidOrder[p[2]])]
             b == Upserted(i, StaticDid)
             Equation(f) ==
               f = [n \in 0..N |-> IF n = 0 THEN b ELSE SeededBy(f[n - 1], DidOrder[n])]
  <1>1. N \in Nat /\ \A n \in 1..N : DidOrder[n] \in DidStations
    BY OrderIs
  <1>2. b \in Pooled(i)
    BY UpsertedIs, DidsAreThere DEF Pooled, Typed
  <1>3. ASSUME NEW j \in Pooled(i), NEW n \in 1..N PROVE SeededBy(j, DidOrder[n]) \in Pooled(i)
    <2>1. DidOrder[n] \in DidStations
      BY <1>1
    <2> QED BY <2>1, SeededByIs DEF Pooled, Typed
  <1>4. \A j \in Pooled(i) : \A n \in 1..N : step[<<j, n>>] = SeededBy(j, DidOrder[n])
    BY DEF Pooled
  <1>5. Seeding(i) = CHOOSE f : Equation(f)
    BY DEF Seeding
  <1> HIDE DEF step, b, N
  <1>6. PICK f : Run(f, b, step, N)
    BY <1>1, RunExists
  <1>7. /\ DOMAIN f = 0..N /\ f[0] = b
        /\ \A n \in 1..N : f[n] = step[<<f[n - 1], n>>]
    BY <1>1, <1>6 DEF Run
  <1>8. \A n \in 0..N : f[n] \in Pooled(i)
    <2> DEFINE S == {n \in 0..N : f[n] \in Pooled(i)}
    <2>1. 0 \in S
      BY <1>1, <1>2, <1>7
    <2>2. ASSUME NEW n \in 1..N, n - 1 \in S PROVE n \in S
      <3>1. f[n - 1] \in Pooled(i) /\ n \in 0..N
        BY <1>1, <2>2
      <3>2. f[n] = SeededBy(f[n - 1], DidOrder[n])
        BY <1>4, <1>7, <3>1
      <3> QED BY <1>3, <3>1, <3>2
    <2> HIDE DEF S
    <2>3. \A n \in 0..N : n \in S
      BY <1>1, <2>1, <2>2, CountingUp
    <2> QED BY <2>3 DEF S
  <1>9. Equation(f)
    <2>1. ASSUME NEW n \in 0..N
          PROVE  f[n] = IF n = 0 THEN b ELSE SeededBy(f[n - 1], DidOrder[n])
      <3>1. CASE n = 0
        BY <1>7, <3>1
      <3>2. CASE n # 0
        <4>1. n \in 1..N /\ n - 1 \in 0..N
          BY <1>1, <3>2
        <4> QED BY <1>4, <1>7, <1>8, <3>2, <4>1
      <3> QED BY <3>1, <3>2
    <2>2. f = [n \in 0..N |-> f[n]]
      BY <1>6 DEF Run
    <2> QED BY <2>1, <2>2
  <1>10. PICK g : g = Seeding(i) /\ Equation(g)
    BY <1>5, <1>9
  <1>11. \A n \in 0..N : g[n] \in Pooled(i)
    <2> DEFINE S == {n \in 0..N : g[n] \in Pooled(i)}
    <2>1. 0 \in S
      BY <1>1, <1>2, <1>10
    <2>2. ASSUME NEW n \in 1..N, n - 1 \in S PROVE n \in S
      BY <1>1, <1>3, <1>10, <2>2
    <2> HIDE DEF S
    <2>3. \A n \in 0..N : n \in S
      BY <1>1, <2>1, <2>2, CountingUp
    <2> QED BY <2>3 DEF S
  <1>12. N \in 0..N
    BY <1>1
  <1> QED BY <1>10, <1>11, <1>12 DEF N

\* Seeding changes the pool alone.
LEMMA SeededIs ==
  ASSUME NEW i, Typed(i), reportedDid \in [DidStations -> MaybeDid]
  PROVE  Typed(Seeded(i)) /\ Seeded(i).did = i.did /\ Seeded(i).mapping = i.mapping
  <1> DEFINE j == Seeding(i)[Len(DidOrder)]
  <1>1. Typed(j) /\ j.did = i.did /\ j.mapping = i.mapping
    BY SeedingIs DEF Pooled
  <1> HIDE DEF j
  <1>2. Seeded(i) = [j EXCEPT !.pool = [d \in Dids |-> IF j.pool[d] \in DidStations \ bases
                                                        THEN Free ELSE j.pool[d]]]
    BY <1>1 DEF Seeded, j, Typed, IdStates
  <1>3. /\ Seeded(i) \in IdStates /\ Seeded(i).did = j.did /\ Seeded(i).mapping = j.mapping
        /\ \A d \in Dids : Seeded(i).pool[d] = IF j.pool[d] \in DidStations \ bases
                                               THEN Free ELSE j.pool[d]
    BY <1>1, <1>2 DEF Typed, IdStates
  <1> QED BY <1>1, <1>3, DidsAreThere DEF Typed, OneRow

\* The states in which every station has the DID it has in i.
KeptFrom(i) == {j \in IdStates : Good(j, reportedDid) /\ Keeps(i, j)}

\* A station that is given its DID leaves the others theirs.
LEMMA BackfilledByIs ==
  ASSUME NEW i, reportedDid \in [DidStations -> MaybeDid], NEW js \in SUBSET KeptFrom(i),
         NEW s \in DidStations
  PROVE  BackfilledBy(js, s) \in SUBSET KeptFrom(i)
  <1>1. ASSUME NEW j \in js, NEW k \in Ensured(j, s) PROVE k \in KeptFrom(i)
    <2>1. Good(j, reportedDid) /\ Keeps(i, j)
      BY DEF KeptFrom
    <2>2. Good(k, reportedDid) /\ OnlyAt(j, k, s) /\ KeepsAt(j, k, s)
      BY <2>1, EnsuredKeeps
    <2>3. Keeps(i, k)
      BY <2>1, <2>2 DEF Keeps, KeepsAt, OnlyAt
    <2> QED BY <2>2, <2>3 DEF KeptFrom, Good, Typed
  <1> QED BY <1>1 DEF BackfilledBy

\* A back-fill leaves every station its DID.
LEMMA BackfillingIs ==
  ASSUME NEW i, Good(i, reportedDid), reportedDid \in [DidStations -> MaybeDid]
  PROVE  Backfilled(i) \subseteq KeptFrom(i)
  <1> DEFINE N == Len(DidOrder)
             step == [p \in (SUBSET KeptFrom(i)) \X (1..N) |-> BackfilledBy(p[1], DidOrder[p[2]])]
             b == {i}
             Equation(f) ==
               f = [n \in 0..N |-> IF n = 0 THEN b ELSE BackfilledBy(f[n - 1], DidOrder[n])]
  <1>1. N \in Nat /\ \A n \in 1..N : DidOrder[n] \in DidStations
    BY OrderIs
  <1>2. b \in SUBSET KeptFrom(i)
    BY DEF KeptFrom, Keeps, KeepsAt, Good, Typed
  <1>3. ASSUME NEW js \in SUBSET KeptFrom(i), NEW n \in 1..N
        PROVE  BackfilledBy(js, DidOrder[n]) \in SUBSET KeptFrom(i)
    <2>1. DidOrder[n] \in DidStations
      BY <1>1
    <2> QED BY <2>1, BackfilledByIs
  <1>4. \A js \in SUBSET KeptFrom(i) : \A n \in 1..N : step[<<js, n>>] = BackfilledBy(js, DidOrder[n])
    OBVIOUS
  <1>5. Backfilling(i) = CHOOSE f : Equation(f)
    BY DEF Backfilling
  <1> HIDE DEF step, b, N
  <1>6. PICK f : Run(f, b, step, N)
    BY <1>1, RunExists
  <1>7. /\ DOMAIN f = 0..N /\ f[0] = b
        /\ \A n \in 1..N : f[n] = step[<<f[n - 1], n>>]
    BY <1>1, <1>6 DEF Run
  <1>8. \A n \in 0..N : f[n] \in SUBSET KeptFrom(i)
    <2> DEFINE S == {n \in 0..N : f[n] \in SUBSET KeptFrom(i)}
    <2>1. 0 \in S
      BY <1>1, <1>2, <1>7
    <2>2. ASSUME NEW n \in 1..N, n - 1 \in S PROVE n \in S
      <3>1. f[n - 1] \in SUBSET KeptFrom(i) /\ n \in 0..N
        BY <1>1, <2>2
      <3>2. f[n] = BackfilledBy(f[n - 1], DidOrder[n])
        BY <1>4, <1>7, <3>1
      <3> QED BY <1>3, <3>1, <3>2
    <2> HIDE DEF S
    <2>3. \A n \in 0..N : n \in S
      BY <1>1, <2>1, <2>2, CountingUp
    <2> QED BY <2>3 DEF S
  <1>9. Equation(f)
    <2>1. ASSUME NEW n \in 0..N
          PROVE  f[n] = IF n = 0 THEN b ELSE BackfilledBy(f[n - 1], DidOrder[n])
      <3>1. CASE n = 0
        BY <1>7, <3>1
      <3>2. CASE n # 0
        <4>1. n \in 1..N /\ n - 1 \in 0..N
          BY <1>1, <3>2
        <4> QED BY <1>4, <1>7, <1>8, <3>2, <4>1
      <3> QED BY <3>1, <3>2
    <2>2. f = [n \in 0..N |-> f[n]]
      BY <1>6 DEF Run
    <2> QED BY <2>1, <2>2
  <1>10. PICK g : g = Backfilling(i) /\ Equation(g)
    BY <1>5, <1>9
  <1>11. \A n \in 0..N : g[n] \in SUBSET KeptFrom(i)
    <2> DEFINE S == {n \in 0..N : g[n] \in SUBSET KeptFrom(i)}
    <2>1. 0 \in S
      BY <1>1, <1>2, <1>10
    <2>2. ASSUME NEW n \in 1..N, n - 1 \in S PROVE n \in S
      <3>1. g[n - 1] \in SUBSET KeptFrom(i) /\ n \in 0..N
        BY <1>1, <2>2
      <3>2. g[n] = IF n = 0 THEN b ELSE BackfilledBy(g[n - 1], DidOrder[n])
        <4>1. Equation(g)
          BY <1>10
        <4> QED BY <3>1, <4>1
      <3>3. n # 0
        BY <1>1
      <3> QED BY <1>3, <3>1, <3>2, <3>3
    <2> HIDE DEF S
    <2>3. \A n \in 0..N : n \in S
      BY <1>1, <2>1, <2>2, CountingUp
    <2> QED BY <2>3 DEF S
  <1>12. N \in 0..N
    BY <1>1
  <1>13. g[N] \in SUBSET KeptFrom(i)
    BY <1>11, <1>12
  <1> QED BY <1>10, <1>13 DEF N, Backfilled

\* A start keeps every station's DID.
LEMMA RestartKeeps ==
  ASSUME NEW i, Good(i, reportedDid), reportedDid \in [DidStations -> MaybeDid],
         NEW k \in Backfilled(Seeded(i))
  PROVE  Good(k, reportedDid) /\ Keeps(i, k)
  <1>1. Typed(Seeded(i)) /\ Seeded(i).did = i.did /\ Seeded(i).mapping = i.mapping
    BY SeededIs DEF Good
  <1>2. Good(Seeded(i), reportedDid)
    BY <1>1 DEF Good, DidsAreMapped, ReportsAreMapped
  <1>3. k \in KeptFrom(Seeded(i))
    BY <1>2, BackfillingIs
  <1> QED BY <1>1, <1>3 DEF KeptFrom, Keeps, KeepsAt

-----------------------------------------------------------------------------
(***************************************************************************)
(* The specification.                                                      *)
(***************************************************************************)
\* The inductive invariant.
DInv ==
  /\ bases \subseteq DidStations /\ owned \subseteq bases /\ baseTombs \subseteq DidStations
  /\ reportedDid \in [DidStations -> MaybeDid]
  /\ Good(ids, reportedDid)

DInvNext ==
  /\ bases' \subseteq DidStations /\ owned' \subseteq bases' /\ baseTombs' \subseteq DidStations
  /\ reportedDid' \in [DidStations -> MaybeDid]
  /\ Good(ids', reportedDid')

\* What KeepsItsDid says of a step.
StepKeeps ==
  \A t \in bases \cap bases' :
    (t # DefaultBase \/ IssuedOnce) /\ ids.did[t] # NoDid /\ reportedDid'[t] = reportedDid[t]
      => ids'.did[t] \in {ids.did[t], ids.mapping[t]} \ {NoDid}

\* A record that is made anew is of a station that had none.
LEMMA BuiltIs ==
  ASSUME DInv, NEW s \in DidStations
  PROVE  /\ Good(Built(ids, s), reportedDid) /\ OnlyAt(ids, Built(ids, s), s)
         /\ s \in bases => Built(ids, s) = ids
  <1>1. CASE s \in bases
    BY <1>1 DEF Built, DInv, OnlyAt
  <1>2. CASE s \notin bases
    <2> DEFINE d == IF s = DefaultBase THEN ConfiguredDid[s] ELSE NoDid
               j == Built(ids, s)
    <2>1. d \in MaybeDid
      BY DidsAreThere DEF MaybeDid
    <2>2. j = [ids EXCEPT !.did[s] = d]
      BY <1>2 DEF Built
    <2>3. s # DefaultBase => d = NoDid
      OBVIOUS
    <2> HIDE DEF d, j
    <2>4. /\ j \in IdStates /\ j.pool = ids.pool /\ j.mapping = ids.mapping
          /\ \A t \in DidStations : j.did[t] = IF t = s THEN d ELSE ids.did[t]
      BY <2>1, <2>2 DEF DInv, Good, Typed, IdStates
    <2>5. Typed(j)
      BY <2>4 DEF DInv, Good, Typed, OneRow
    <2>6. Good(j, reportedDid) /\ OnlyAt(ids, j, s)
      BY <2>3, <2>4, <2>5 DEF DInv, Good, DidsAreMapped, ReportsAreMapped, OnlyAt
    <2> QED BY <1>2, <2>6 DEF j
  <1> QED BY <1>1, <1>2

\* A bind gives the station its DID and leaves the others theirs.
LEMMA BindStep ==
  ASSUME DInv, NEW s \in DidStations, BindStation(s)
  PROVE  DInvNext /\ StepKeeps
  <1> DEFINE j == Built(ids, s)
  <1>1. Good(j, reportedDid) /\ OnlyAt(ids, j, s) /\ (s \in bases => j = ids)
    BY BuiltIs
  <1> HIDE DEF j
  <1>2. ids' \in Ensured(j, s) /\ reportedDid' = reportedDid
    BY DEF BindStation, j
  <1>3. Good(ids', reportedDid) /\ OnlyAt(j, ids', s) /\ KeepsAt(j, ids', s)
    BY <1>1, <1>2, EnsuredKeeps DEF DInv
  <1>4. DInvNext
    BY <1>2, <1>3 DEF DInv, DInvNext, BindStation
  <1>5. StepKeeps
    BY <1>1, <1>3 DEF DInv, StepKeeps, OnlyAt, KeepsAt
  <1> QED BY <1>4, <1>5

\* So does a user who leaves it.
LEMMA LeaveStep ==
  ASSUME DInv, NEW s \in DidStations, LeaveStation(s)
  PROVE  DInvNext /\ StepKeeps
  <1>1. ids' \in Ensured(ids, s) /\ reportedDid' = reportedDid
    BY DEF LeaveStation
  <1>2. Good(ids', reportedDid) /\ OnlyAt(ids, ids', s) /\ KeepsAt(ids, ids', s)
    BY <1>1, EnsuredKeeps DEF DInv
  <1>3. DInvNext
    BY <1>1, <1>2 DEF DInv, DInvNext, LeaveStation
  <1>4. StepKeeps
    BY <1>2 DEF DInv, StepKeeps, OnlyAt, KeepsAt
  <1> QED BY <1>3, <1>4

\* The station is gone, and so is its report.
LEMMA GoneStep ==
  ASSUME DInv, NEW s \in DidStations, Gone(s), baseTombs' \subseteq DidStations,
         ids' \in IdStates, OneRow(ids'), ids'.did = [ids.did EXCEPT ![s] = NoDid],
         \A t \in DidStations \ {s} : ids'.mapping[t] = ids.mapping[t]
  PROVE  DInvNext /\ StepKeeps
  <1>1. \A t \in DidStations : /\ reportedDid'[t] = IF t = s THEN NoDid ELSE reportedDid[t]
                               /\ ids'.did[t] = IF t = s THEN NoDid ELSE ids.did[t]
    BY DEF Gone, DInv, Good, Typed, IdStates
  <1>2. reportedDid' \in [DidStations -> MaybeDid]
    BY DEF Gone, DInv, MaybeDid
  <1>3. DidsAreMapped(ids') /\ ReportsAreMapped(ids', reportedDid')
    BY <1>1 DEF DInv, Good, DidsAreMapped, ReportsAreMapped
  <1>4. bases' = bases \ {s} /\ owned' = owned \ {s}
    BY DEF Gone
  <1>5. DInvNext
    BY <1>2, <1>3, <1>4 DEF DInv, DInvNext, Good, Typed
  <1>6. StepKeeps
    BY <1>1, <1>4 DEF DInv, StepKeeps
  <1> QED BY <1>5, <1>6

\* An unbound station has no DID, mapping or row.
LEMMA UnbindStep ==
  ASSUME DInv, NEW s \in DidStations, UnbindStation(s)
  PROVE  DInvNext /\ StepKeeps
  <1>1. Gone(s) /\ baseTombs' \subseteq DidStations
    BY DEF UnbindStation, DInv
  <1>2. /\ ids' \in IdStates
        /\ ids'.did = [ids.did EXCEPT ![s] = NoDid]
        /\ ids'.mapping = [ids.mapping EXCEPT ![s] = NoDid]
        /\ \A d \in Dids : ids'.pool[d] = IF d \in Held(ids, s) THEN Free ELSE ids.pool[d]
    BY DEF UnbindStation, DInv, Good, Typed, IdStates, MaybeDid
  <1>3. OneRow(ids')
    BY <1>2, DidsAreThere DEF DInv, Good, Typed, OneRow, Held
  <1>4. \A t \in DidStations \ {s} : ids'.mapping[t] = ids.mapping[t]
    BY <1>2 DEF DInv, Good, Typed, IdStates
  <1> QED BY <1>1, <1>2, <1>3, <1>4, GoneStep

\* A removed station keeps its mapping and its row.
LEMMA DropStep ==
  ASSUME DInv, NEW s \in DidStations, DropStation(s)
  PROVE  DInvNext /\ StepKeeps
  <1>1. Gone(s) /\ baseTombs' \subseteq DidStations
    BY DEF DropStation, DInv
  <1>2. /\ ids' \in IdStates /\ ids'.mapping = ids.mapping /\ ids'.pool = ids.pool
        /\ ids'.did = [ids.did EXCEPT ![s] = NoDid]
    BY DEF DropStation, DInv, Good, Typed, IdStates, MaybeDid
  <1>3. OneRow(ids')
    BY <1>2 DEF DInv, Good, Typed, OneRow
  <1> QED BY <1>1, <1>2, <1>3, GoneStep

\* A report maps the station to its own DID.
LEMMA ReportDidStep ==
  ASSUME DInv, NEW s \in DidStations, NEW d \in DeviceDids[s], ReportDid(s, d)
  PROVE  DInvNext /\ StepKeeps
  <1> DEFINE j == Built(ids, s)
  <1>1. Good(j, reportedDid) /\ OnlyAt(ids, j, s)
    BY BuiltIs
  <1>2. d \in Dids /\ d # NoDid
    BY DidsAreThere
  <1>3. /\ ids' = Mapped(j, d, s) /\ reportedDid' = [reportedDid EXCEPT ![s] = d]
        /\ bases' = bases \cup {s} /\ baseTombs' = baseTombs
        /\ owned' \subseteq owned \cup {s}
    BY DEF ReportDid
  <1> HIDE DEF j
  <1>4. /\ Gets(j, ids', s) /\ ids'.did[s] = d /\ ids'.mapping[s] = d
    BY <1>1, <1>2, <1>3, MappedIs DEF Good
  <1>5. /\ reportedDid' \in [DidStations -> MaybeDid]
        /\ \A t \in DidStations : reportedDid'[t] = IF t = s THEN d ELSE reportedDid[t]
    BY <1>2, <1>3 DEF DInv, MaybeDid
  <1>6. Good(ids', reportedDid')
    BY <1>1, <1>2, <1>4, <1>5 DEF Good, DidsAreMapped, ReportsAreMapped, Gets, OnlyAt
  <1>7. DInvNext
    BY <1>3, <1>5, <1>6 DEF DInv, DInvNext
  <1>8. StepKeeps
    <2>1. ASSUME NEW t \in bases, t # s PROVE ids'.did[t] = ids.did[t]
      BY <1>1, <1>4, <2>1 DEF Gets, OnlyAt, DInv
    <2>2. reportedDid'[s] = reportedDid[s] => ids'.did[s] = ids.mapping[s] /\ ids'.did[s] # NoDid
      BY <1>2, <1>4, <1>5 DEF DInv, Good, ReportsAreMapped
    <2> QED BY <2>1, <2>2 DEF StepKeeps
  <1> QED BY <1>7, <1>8

\* A station that is reported is recorded as it is built.
LEMMA ReportStep ==
  ASSUME DInv, NEW s \in DidStations, ReportStation(s)
  PROVE  DInvNext /\ StepKeeps
  <1>1. Good(Built(ids, s), reportedDid) /\ OnlyAt(ids, Built(ids, s), s)
    BY BuiltIs
  <1>2. /\ ids' = Built(ids, s) /\ reportedDid' = reportedDid /\ s \notin bases
        /\ bases' = bases \cup {s} /\ baseTombs' = baseTombs
        /\ owned' \subseteq owned \cup {s}
    BY DEF ReportStation
  <1>3. DInvNext
    BY <1>1, <1>2 DEF DInv, DInvNext
  <1>4. StepKeeps
    BY <1>1, <1>2 DEF DInv, StepKeeps, OnlyAt
  <1> QED BY <1>3, <1>4

\* A start keeps the DIDs.
LEMMA StartStep ==
  ASSUME DInv, StartService
  PROVE  DInvNext /\ StepKeeps
  <1>1. ids' \in Backfilled(Seeded(ids)) /\ reportedDid' = reportedDid
    BY DEF StartService
  <1>2. Good(ids', reportedDid) /\ Keeps(ids, ids')
    BY <1>1, RestartKeeps DEF DInv
  <1>3. DInvNext
    BY <1>1, <1>2 DEF DInv, DInvNext, StartService
  <1>4. StepKeeps
    BY <1>2 DEF DInv, StepKeeps, Keeps, KeepsAt
  <1> QED BY <1>3, <1>4

\* The default station has its DID from the first.
LEMMA DInvFirst ==
  ASSUME DidInit
  PROVE  DInv
  <1>1. Good(FirstIds, reportedDid)
    <2>1. /\ FirstIds \in IdStates
          /\ \A d \in Dids : FirstIds.pool[d] = NoDid
          /\ \A s \in DidStations : FirstIds.did[s] = FirstIds.mapping[s]
      BY DidsAreThere DEF FirstIds, IdStates, MaybeDid
    <2>2. \A s \in DidStations : reportedDid[s] = NoDid
      BY DEF DidInit
    <2> QED BY <2>1, <2>2, DidsAreThere
         DEF Good, Typed, OneRow, DidsAreMapped, ReportsAreMapped
  <1>2. reportedDid \in [DidStations -> MaybeDid]
    BY DEF DidInit, MaybeDid
  <1>3. ids \in Backfilled(Seeded(FirstIds))
    BY DEF DidInit
  <1>4. Good(ids, reportedDid)
    BY <1>1, <1>2, <1>3, RestartKeeps
  <1> QED BY <1>2, <1>4, DidsAreThere DEF DInv, DidInit

\* Every call keeps the invariant and the DIDs.
LEMMA DidStep ==
  ASSUME DInv, DidNext
  PROVE  DInv' /\ StepKeeps
  <1>1. DInvNext /\ StepKeeps
    BY BindStep, LeaveStep, UnbindStep, DropStep, ReportDidStep, ReportStep, StartStep
       DEF DidNext
  <1> QED BY <1>1 DEF DInv, DInvNext, Good, Typed, OneRow, DidsAreMapped, ReportsAreMapped

\* Every step keeps the invariant.
LEMMA DInvStep ==
  ASSUME DInv, [DidNext]_didVars
  PROVE  DInv'
  <1>1. CASE DidNext
    BY <1>1, DidStep
  <1>2. CASE UNCHANGED didVars
    BY <1>2 DEF didVars, DInv, Good, Typed, OneRow, DidsAreMapped, ReportsAreMapped
  <1> QED BY <1>1, <1>2

\* What the invariant says.
LEMMA DInvImplies ==
  ASSUME DInv
  PROVE  DidTypeOK
  BY OneRowCounts DEF DInv, Good, Typed, DidTypeOK

\* Records, mappings and the pool keep their types, and no station ever holds two rows
\* of the pool (_assign_station_did_pool_entry_unlocked, app/store_domains/station.py:561).
THEOREM DidsAreTyped == DidSpec => []DidTypeOK
  BY DInvFirst, DInvStep, DInvImplies, PTL DEF DidSpec

\* A station keeps its DID, whatever is done to it or to the others, while it is
\* recorded and does not report another ("Keep DID stable per station",
\* app/store_domains/station.py:948), unless derived mode issues the default
\* station's anew for a placeholder among its codes.
THEOREM DidsAreKept ==
  ASSUME StaticMode \/ PlaceholderDids = {}
  PROVE  DidSpec => KeepsItsDid
  <1>1. DidSpec => []DInv
    BY DInvFirst, DInvStep, PTL DEF DidSpec
  <1>2. DInv /\ [DidNext]_didVars => [ids' # ids => StepKeeps]_didVars
    BY DidStep
  <1>3. [ids' # ids => StepKeeps]_didVars
          => [ids' # ids =>
                \A s \in bases \cap bases' :
                  ids.did[s] # NoDid /\ reportedDid'[s] = reportedDid[s]
                    => ids'.did[s] \in {ids.did[s], ids.mapping[s]} \ {NoDid}]_didVars
    BY DEF StepKeeps, IssuedOnce
  <1> QED BY <1>1, <1>2, <1>3, PTL DEF DidSpec, KeepsItsDid

\* In every mode it holds of the stations but the default one.
THEOREM OthersKeepTheirDids ==
  DidSpec => [][ids' # ids =>
                  \A s \in (bases \cap bases') \ {DefaultBase} :
                    ids.did[s] # NoDid /\ reportedDid'[s] = reportedDid[s]
                      => ids'.did[s] \in {ids.did[s], ids.mapping[s]} \ {NoDid}]_didVars
  <1>1. DidSpec => []DInv
    BY DInvFirst, DInvStep, PTL DEF DidSpec
  <1>2. DInv /\ [DidNext]_didVars => [ids' # ids => StepKeeps]_didVars
    BY DidStep
  <1>3. [ids' # ids => StepKeeps]_didVars
          => [ids' # ids =>
                \A s \in (bases \cap bases') \ {DefaultBase} :
                  ids.did[s] # NoDid /\ reportedDid'[s] = reportedDid[s]
                    => ids'.did[s] \in {ids.did[s], ids.mapping[s]} \ {NoDid}]_didVars
    BY DEF StepKeeps
  <1> QED BY <1>1, <1>2, <1>3, PTL DEF DidSpec

-----------------------------------------------------------------------------
(***************************************************************************)
(* The cloud storage service.                                              *)
(***************************************************************************)
(***************************************************************************)
(* Places.  What is before an element in a strict order tells its place,   *)
(* so that n places hold n elements at most.                               *)
(***************************************************************************)
StrictlyOrders(R, S) ==
  /\ \A x \in S : <<x, x>> \notin R
  /\ \A x, y, z \in S : <<x, y>> \in R /\ <<y, z>> \in R => <<x, z>> \in R
  /\ \A x, y \in S : x # y => <<x, y>> \in R \/ <<y, x>> \in R

Ahead(R, S, x) == {y \in S : <<y, x>> \in R}
FirstFew(R, S, n) == {x \in S : Cardinality(Ahead(R, S, x)) < n}

\* What is ahead is finite.
LEMMA AheadIsFinite ==
  ASSUME NEW R, NEW S, IsFiniteSet(S), NEW x
  PROVE  IsFiniteSet(Ahead(R, S, x)) /\ Cardinality(Ahead(R, S, x)) \in Nat
  <1>1. Ahead(R, S, x) \in SUBSET S
    BY DEF Ahead
  <1>2. IsFiniteSet(Ahead(R, S, x))
    BY <1>1, FS_Subset
  <1> QED BY <1>2, FS_CardinalityType

\* The first n are n at most.
LEMMA FewAreFirst ==
  ASSUME NEW R, NEW S, IsFiniteSet(S), StrictlyOrders(R, S), NEW n \in Nat
  PROVE  /\ FirstFew(R, S, n) \subseteq S /\ IsFiniteSet(FirstFew(R, S, n))
         /\ Cardinality(FirstFew(R, S, n)) <= n
         /\ Cardinality(FirstFew(R, S, n)) \in Nat
  <1> DEFINE F == FirstFew(R, S, n)
             place == [x \in F |-> Cardinality(Ahead(R, S, x)) + 1]
  <1>1. F \in SUBSET S
    BY DEF FirstFew
  <1>2. ASSUME NEW x \in S, NEW y \in S, <<x, y>> \in R
        PROVE  Cardinality(Ahead(R, S, x)) < Cardinality(Ahead(R, S, y))
    <2>1. Ahead(R, S, x) \subseteq Ahead(R, S, y) /\ x \in Ahead(R, S, y) /\ x \notin Ahead(R, S, x)
      BY <1>2 DEF Ahead, StrictlyOrders
    <2>2. Ahead(R, S, x) \in SUBSET Ahead(R, S, y) /\ Ahead(R, S, x) # Ahead(R, S, y)
      BY <2>1
    <2>3. /\ IsFiniteSet(Ahead(R, S, y))
          /\ Cardinality(Ahead(R, S, x)) \in Nat /\ Cardinality(Ahead(R, S, y)) \in Nat
      BY AheadIsFinite
    <2>4. /\ Cardinality(Ahead(R, S, x)) <= Cardinality(Ahead(R, S, y))
          /\ Cardinality(Ahead(R, S, x)) # Cardinality(Ahead(R, S, y))
      BY <2>2, <2>3, FS_Subset
    <2> QED BY <2>3, <2>4
  <1>3. \A x \in F : x \in S /\ Cardinality(Ahead(R, S, x)) \in Nat /\ Cardinality(Ahead(R, S, x)) < n
    BY AheadIsFinite DEF FirstFew
  <1>4. place \in Injection(F, 1..n)
    <2>1. place \in [F -> 1..n]
      BY <1>3
    <2>2. ASSUME NEW x \in F, NEW y \in F, place[x] = place[y] PROVE x = y
      <3>1. /\ x \in S /\ Cardinality(Ahead(R, S, x)) \in Nat
            /\ y \in S /\ Cardinality(Ahead(R, S, y)) \in Nat
        BY <1>3
      <3>2. Cardinality(Ahead(R, S, x)) = Cardinality(Ahead(R, S, y))
        BY <2>2, <3>1
      <3>3. ~ (<<x, y>> \in R) /\ ~ (<<y, x>> \in R)
        <4>1. <<x, y>> \in R => Cardinality(Ahead(R, S, x)) < Cardinality(Ahead(R, S, y))
          BY <1>2, <3>1
        <4>2. <<y, x>> \in R => Cardinality(Ahead(R, S, y)) < Cardinality(Ahead(R, S, x))
          BY <1>2, <3>1
        <4> QED BY <3>1, <3>2, <4>1, <4>2
      <3> QED BY <3>1, <3>3 DEF StrictlyOrders
    <2> HIDE DEF place, F
    <2> QED BY <2>1, <2>2 DEF Injection, IsInjective
  <1>5. IsFiniteSet(1..n) /\ Cardinality(1..n) = n
    <2>1. 1 \in Int /\ n \in Int
      OBVIOUS
    <2> QED BY <2>1, FS_Interval
  <1> HIDE DEF place, F
  <1>6. IsFiniteSet(F) /\ Cardinality(F) <= n
    BY <1>4, <1>5, FS_Injection
  <1> QED BY <1>1, <1>6, FS_CardinalityType DEF F

-----------------------------------------------------------------------------
(***************************************************************************)
(* Orders.                                                                 *)
(***************************************************************************)
\* What is in the place of what when an element comes in at the place p.
LEMMA InsertedIs ==
  ASSUME NEW S, NEW s \in Seq(S), NEW p \in 1..Len(s) + 1, NEW e \in S
  PROVE  /\ InsertAt(s, p, e) \in Seq(S) /\ Len(InsertAt(s, p, e)) = Len(s) + 1
         /\ InsertAt(s, p, e)[p] = e
         /\ \A i \in 1..p - 1 : InsertAt(s, p, e)[i] = s[i]
         /\ \A i \in p + 1..Len(s) + 1 : InsertAt(s, p, e)[i] = s[i - 1]
  <1> DEFINE a == SubSeq(s, 1, p - 1)
             c == SubSeq(s, p, Len(s))
             b == a \o <<e>>
  <1>1. Len(s) \in Nat /\ \A i \in 1..Len(s) : s[i] \in S
    BY LenProperties
  <1>2. /\ a \in Seq(S) /\ Len(a) = p - 1
        /\ \A i \in 1..p - 1 : a[i] = s[i]
    <2>1. \A i \in 1..p - 1 : s[i] \in S
      BY <1>1
    <2>2. 1 \in Int /\ p - 1 \in Int
      BY <1>1
    <2>3. /\ a \in Seq(S) /\ Len(a) = (IF 1 <= p - 1 THEN (p - 1) - 1 + 1 ELSE 0)
          /\ \A i \in 1..(p - 1) - 1 + 1 : a[i] = s[1 + i - 1]
      BY <2>1, <2>2, SubSeqProperties
    <2> HIDE DEF a
    <2> QED BY <1>1, <2>3
  <1>3. /\ c \in Seq(S) /\ Len(c) = Len(s) - p + 1
        /\ \A i \in 1..Len(s) - p + 1 : c[i] = s[p + i - 1]
    <2>1. \A i \in p..Len(s) : s[i] \in S
      BY <1>1
    <2>2. p \in Int /\ Len(s) \in Int
      BY <1>1
    <2>3. /\ c \in Seq(S) /\ Len(c) = (IF p <= Len(s) THEN Len(s) - p + 1 ELSE 0)
          /\ \A i \in 1..Len(s) - p + 1 : c[i] = s[p + i - 1]
      BY <2>1, <2>2, SubSeqProperties
    <2> HIDE DEF c
    <2> QED BY <1>1, <2>3
  <1>4. /\ <<e>> \in Seq(S) /\ Len(<<e>>) = 1 /\ <<e>>[1] = e
    OBVIOUS
  <1> HIDE DEF a, c
  <1>5. /\ b \in Seq(S) /\ Len(b) = p
        /\ \A i \in 1..p : b[i] = IF i <= p - 1 THEN s[i] ELSE e
    <2>1. /\ b \in Seq(S) /\ Len(b) = Len(a) + Len(<<e>>)
          /\ \A i \in 1..Len(a) + Len(<<e>>) : b[i] = IF i <= Len(a) THEN a[i] ELSE <<e>>[i - Len(a)]
      BY <1>2, <1>4, ConcatProperties
    <2> HIDE DEF b
    <2> QED BY <1>1, <1>2, <1>4, <2>1
  <1> HIDE DEF b
  <1>6. /\ b \o c \in Seq(S) /\ Len(b \o c) = Len(b) + Len(c)
        /\ \A i \in 1..Len(b) + Len(c) : (b \o c)[i] = IF i <= Len(b) THEN b[i] ELSE c[i - Len(b)]
    BY <1>3, <1>5, ConcatProperties
  <1>7. InsertAt(s, p, e) = b \o c
    BY DEF InsertAt, a, b, c
  <1>8. Len(b \o c) = Len(s) + 1 /\ (b \o c)[p] = e
    BY <1>1, <1>3, <1>5, <1>6
  <1>9. \A i \in 1..p - 1 : (b \o c)[i] = s[i]
    BY <1>1, <1>3, <1>5, <1>6
  <1>10. \A i \in p + 1..Len(s) + 1 : (b \o c)[i] = s[i - 1]
    <2> TAKE i \in p + 1..Len(s) + 1
    <2>1. i \in 1..Len(b) + Len(c) /\ ~ (i <= Len(b)) /\ i - p \in 1..Len(s) - p + 1
      BY <1>1, <1>3, <1>5
    <2>2. (b \o c)[i] = c[i - p]
      BY <1>5, <1>6, <2>1
    <2>3. p + (i - p) - 1 = i - 1
      BY <1>1
    <2> QED BY <1>3, <2>1, <2>2, <2>3
  <1> QED BY <1>6, <1>7, <1>8, <1>9, <1>10

\* What is in the place of what when the element at the place p goes.
LEMMA RemovedIs ==
  ASSUME NEW S, NEW s \in Seq(S), NEW p \in 1..Len(s)
  PROVE  /\ RemoveAt(s, p) \in Seq(S) /\ Len(RemoveAt(s, p)) = Len(s) - 1
         /\ \A i \in 1..p - 1 : RemoveAt(s, p)[i] = s[i]
         /\ \A i \in p..Len(s) - 1 : RemoveAt(s, p)[i] = s[i + 1]
  <1> DEFINE a == SubSeq(s, 1, p - 1)
             c == SubSeq(s, p + 1, Len(s))
  <1>1. Len(s) \in Nat /\ \A i \in 1..Len(s) : s[i] \in S
    BY LenProperties
  <1>2. /\ a \in Seq(S) /\ Len(a) = p - 1
        /\ \A i \in 1..p - 1 : a[i] = s[i]
    <2>1. \A i \in 1..p - 1 : s[i] \in S
      BY <1>1
    <2>2. 1 \in Int /\ p - 1 \in Int
      BY <1>1
    <2>3. /\ a \in Seq(S) /\ Len(a) = (IF 1 <= p - 1 THEN (p - 1) - 1 + 1 ELSE 0)
          /\ \A i \in 1..(p - 1) - 1 + 1 : a[i] = s[1 + i - 1]
      BY <2>1, <2>2, SubSeqProperties
    <2> HIDE DEF a
    <2> QED BY <1>1, <2>3
  <1>3. /\ c \in Seq(S) /\ Len(c) = Len(s) - p
        /\ \A i \in 1..Len(s) - p : c[i] = s[p + i]
    <2>1. \A i \in p + 1..Len(s) : s[i] \in S
      BY <1>1
    <2>2. p + 1 \in Int /\ Len(s) \in Int
      BY <1>1
    <2>3. /\ c \in Seq(S) /\ Len(c) = (IF p + 1 <= Len(s) THEN Len(s) - (p + 1) + 1 ELSE 0)
          /\ \A i \in 1..Len(s) - (p + 1) + 1 : c[i] = s[(p + 1) + i - 1]
      BY <2>1, <2>2, SubSeqProperties
    <2> HIDE DEF c
    <2>4. \A i \in 1..Len(s) - p : i \in 1..Len(s) - (p + 1) + 1 /\ (p + 1) + i - 1 = p + i
      BY <1>1
    <2>5. Len(c) = Len(s) - p
      BY <1>1, <2>3
    <2> QED BY <2>3, <2>4, <2>5
  <1> HIDE DEF a, c
  <1>4. /\ a \o c \in Seq(S) /\ Len(a \o c) = Len(a) + Len(c)
        /\ \A i \in 1..Len(a) + Len(c) : (a \o c)[i] = IF i <= Len(a) THEN a[i] ELSE c[i - Len(a)]
    BY <1>2, <1>3, ConcatProperties
  <1>5. RemoveAt(s, p) = a \o c
    BY DEF RemoveAt, a, c
  <1>6. Len(a \o c) = Len(s) - 1 /\ \A i \in 1..p - 1 : (a \o c)[i] = s[i]
    BY <1>1, <1>2, <1>3, <1>4
  <1>7. \A i \in p..Len(s) - 1 : (a \o c)[i] = s[i + 1]
    <2> TAKE i \in p..Len(s) - 1
    <2>1. i \in 1..Len(a) + Len(c) /\ ~ (i <= Len(a)) /\ i - (p - 1) \in 1..Len(s) - p
      BY <1>1, <1>2, <1>3
    <2>2. (a \o c)[i] = c[i - (p - 1)]
      BY <1>2, <1>4, <2>1
    <2>3. p + (i - (p - 1)) = i + 1
      BY <1>1
    <2> QED BY <1>3, <2>1, <2>2, <2>3
  <1> QED BY <1>4, <1>5, <1>6, <1>7

\* The key of an order: when it was created, and its number.
LEMMA KeysAreNumbers ==
  ASSUME NEW o \in Order
  PROVE  o.created \in Nat /\ o.no \in Nat
  <1>1. o.no \in OrderNos /\ o.created \in 0..LastDay
    BY DEF Order
  <1>2. OrderNos \subseteq Nat /\ LastDay \in Nat
    BY CloudAssumption
  <1>3. o.no \in Nat
    BY <1>1, <1>2
  <1>4. o.created \in Nat
    BY <1>1, <1>2
  <1> QED BY <1>3, <1>4

\* Orders are listed by their keys.
LEMMA LaterIsWeak ==
  ASSUME NEW o \in Order, NEW q \in Order, NEW r \in Order
  PROVE  /\ Later(o, q) => ~ Later(q, o)
         /\ ~ Later(o, q) /\ ~ Later(q, r) => ~ Later(o, r)
  BY KeysAreNumbers DEF Later

\* A sorted list.
OrderList(os) ==
  /\ os \in Seq(Order)
  /\ \A i, j \in 1..Len(os) : i < j => ~ Later(os[j], os[i])

\* Of the first m of a list, the first order of the number n is paid.
FirstPaid(os, m, n) ==
  \E i \in 1..m : /\ os[i].no = n /\ os[i].paid
                  /\ \A j \in 1..i - 1 : os[j].no # n

LEMMA OrdersAre ==
  ASSUME NEW os, OrderList(os)
  PROVE  Len(os) \in Nat /\ DOMAIN os = 1..Len(os) /\ \A i \in 1..Len(os) : os[i] \in Order
  BY LenProperties DEF OrderList

\* The first of the orders that a number and a payment match.
LEMMA FoundIs ==
  ASSUME NEW os, OrderList(os), NEW no, NEW payment, Matching(os, no, payment) # {}
  PROVE  LET k == FoundAt(os, no, payment)
         IN  /\ k \in 1..Len(os) /\ (os[k].no = no \/ os[k].payment = payment)
             /\ \A j \in 1..k - 1 : os[j].no # no /\ os[j].payment # payment
  <1> DEFINE M == Matching(os, no, payment)
             k == FoundAt(os, no, payment)
  <1>1. M \subseteq 1..Len(os) /\ Len(os) \in Nat
    BY OrdersAre DEF Matching
  <1>2. \E i \in M : \A j \in M : i <= j
    <2>1. M \subseteq Nat /\ M # {}
      BY <1>1
    <2> HIDE DEF M
    <2> QED BY <2>1, LeastExists
  <1>3. k \in M /\ \A j \in M : k <= j
    BY <1>2 DEF FoundAt
  <1>4. k \in 1..Len(os) /\ (os[k].no = no \/ os[k].payment = payment)
    BY <1>1, <1>3 DEF Matching
  <1>5. ASSUME NEW j \in 1..k - 1 PROVE os[j].no # no /\ os[j].payment # payment
    <2>1. j \in 1..Len(os) /\ ~ (k <= j)
      BY <1>1, <1>4
    <2>2. j \notin M
      BY <1>3, <2>1
    <2> QED BY <2>1, <2>2, OrdersAre DEF Matching
  <1> QED BY <1>4, <1>5

\* What is asked by a number alone is the first order of the number.
LEMMA PaidIsFirst ==
  ASSUME NEW os, OrderList(os), NEW n \in OrderNos
  PROVE  /\ Matching(os, n, Blank) # {} <=> \E i \in 1..Len(os) : os[i].no = n
         /\ FirstPaid(os, Len(os), n) <=> /\ Matching(os, n, Blank) # {}
                                          /\ os[FoundAt(os, n, Blank)].paid
  <1>1. \A i \in 1..Len(os) : os[i].payment # Blank
    BY OrdersAre, CloudAssumption DEF Order
  <1>2. Matching(os, n, Blank) # {} <=> \E i \in 1..Len(os) : os[i].no = n
    BY <1>1, OrdersAre DEF Matching
  <1>3. CASE Matching(os, n, Blank) = {}
    BY <1>2, <1>3 DEF FirstPaid
  <1>4. CASE Matching(os, n, Blank) # {}
    <2>1. PICK k \in 1..Len(os) :
            /\ k = FoundAt(os, n, Blank) /\ os[k].no = n
            /\ \A j \in 1..k - 1 : os[j].no # n
      BY <1>1, <1>4, FoundIs
    <2>2. Len(os) \in Nat
      BY OrdersAre
    <2>3. ASSUME NEW i \in 1..Len(os), os[i].no = n, \A j \in 1..i - 1 : os[j].no # n
          PROVE  i = k
      <3>1. ~ (k \in 1..i - 1) /\ ~ (i \in 1..k - 1)
        BY <2>1, <2>3
      <3> QED BY <2>2, <3>1
    <2> QED BY <1>2, <1>4, <2>1, <2>3 DEF FirstPaid
  <1> QED BY <1>2, <1>3, <1>4

\* What the orders among the first m that are not of the number no come to.
Filtered(os, no, m, w) ==
  /\ OrderList(w)
  /\ \A k \in 1..Len(w) : w[k].no # no /\ \E i \in 1..m : w[k] = os[i]
  /\ \A n \in OrderNos \ {no} : FirstPaid(os, m, n) => FirstPaid(w, Len(w), n)

\* One more order is looked at.
LEMMA FilteredStep ==
  ASSUME NEW os, OrderList(os), NEW no, NEW m \in 1..Len(os), NEW w, Filtered(os, no, m - 1, w)
  PROVE  Filtered(os, no, m, IF os[m].no = no THEN w ELSE Append(w, os[m]))
  <1>1. Len(os) \in Nat /\ m \in Nat /\ m - 1 \in Nat /\ os[m] \in Order
    BY OrdersAre
  <1>2. OrderList(w) /\ Len(w) \in Nat /\ \A k \in 1..Len(w) : w[k] \in Order
    BY OrdersAre DEF Filtered
  <1>3. \A k \in 1..Len(w) : w[k].no # no /\ \E i \in 1..m - 1 : w[k] = os[i]
    BY DEF Filtered
  <1>4. ASSUME NEW n, FirstPaid(os, m, n)
        PROVE  \/ FirstPaid(os, m - 1, n)
               \/ os[m].no = n /\ os[m].paid /\ \A i \in 1..m - 1 : os[i].no # n
    BY <1>1, <1>4 DEF FirstPaid
  <1>5. CASE os[m].no = no
    <2>1. \A k \in 1..Len(w) : w[k].no # no /\ \E i \in 1..m : w[k] = os[i]
      BY <1>1, <1>3
    <2>2. \A n \in OrderNos \ {no} : FirstPaid(os, m, n) => FirstPaid(w, Len(w), n)
      BY <1>4, <1>5 DEF Filtered
    <2> QED BY <1>2, <1>5, <2>1, <2>2 DEF Filtered
  <1>6. CASE os[m].no # no
    <2> DEFINE v == Append(w, os[m])
    <2>1. /\ v \in Seq(Order) /\ Len(v) = Len(w) + 1
          /\ \A k \in 1..Len(w) : v[k] = w[k]
          /\ v[Len(w) + 1] = os[m]
      BY <1>1, <1>2, AppendProperties DEF OrderList
    <2> HIDE DEF v
    <2>2. \A k \in 1..Len(w) : ~ Later(os[m], w[k])
      <3> TAKE k \in 1..Len(w)
      <3>1. PICK i \in 1..m - 1 : w[k] = os[i]
        BY <1>3
      <3>2. i \in 1..Len(os) /\ i < m
        BY <1>1
      <3> QED BY <3>1, <3>2 DEF OrderList
    <2>3. OrderList(v)
      <3>1. ASSUME NEW i \in 1..Len(v), NEW j \in 1..Len(v), i < j PROVE ~ Later(v[j], v[i])
        <4>1. i \in 1..Len(w) /\ v[i] = w[i]
          BY <1>2, <2>1, <3>1
        <4>2. CASE j = Len(w) + 1
          BY <2>1, <2>2, <4>1, <4>2
        <4>3. CASE j # Len(w) + 1
          <5>1. j \in 1..Len(w) /\ v[j] = w[j]
            BY <1>2, <2>1, <4>3
          <5> QED BY <1>2, <3>1, <4>1, <5>1 DEF OrderList
        <4> QED BY <4>2, <4>3
      <3> QED BY <2>1, <3>1 DEF OrderList
    <2>4. ASSUME NEW k \in 1..Len(v) PROVE v[k].no # no /\ \E i \in 1..m : v[k] = os[i]
      <3>1. k \in 1..Len(w) \/ k = Len(w) + 1
        BY <1>2, <2>1
      <3>2. m \in 1..m /\ \A i \in 1..m - 1 : i \in 1..m
        BY <1>1
      <3> QED BY <1>3, <1>6, <2>1, <3>1, <3>2
    <2>5. ASSUME NEW n \in OrderNos \ {no}, FirstPaid(os, m, n) PROVE FirstPaid(v, Len(v), n)
      <3>1. CASE FirstPaid(w, Len(w), n)
        <4>1. PICK i \in 1..Len(w) : w[i].no = n /\ w[i].paid /\ \A j \in 1..i - 1 : w[j].no # n
          BY <3>1 DEF FirstPaid
        <4>2. i \in 1..Len(v) /\ \A j \in 1..i - 1 : j \in 1..Len(w)
          BY <1>2, <2>1
        <4> QED BY <2>1, <4>1, <4>2 DEF FirstPaid
      <3>2. CASE os[m].no = n /\ os[m].paid /\ \A i \in 1..m - 1 : os[i].no # n
        <4>1. \A k \in 1..Len(w) : w[k].no # n
          BY <1>3, <3>2
        <4>2. Len(w) + 1 \in 1..Len(v) /\ \A j \in 1..(Len(w) + 1) - 1 : j \in 1..Len(w)
          BY <1>2, <2>1
        <4> QED BY <2>1, <3>2, <4>1, <4>2 DEF FirstPaid
      <3> QED BY <1>4, <2>5, <3>1, <3>2 DEF Filtered
    <2>6. Filtered(os, no, m, v)
      BY <2>3, <2>4, <2>5 DEF Filtered
    <2> QED BY <1>6, <2>6 DEF v
  <1> QED BY <1>5, <1>6

\* The list without the orders of a number is sorted, and leaves every other number its
\* first order.
LEMMA WithoutIs ==
  ASSUME NEW os, OrderList(os), NEW no
  PROVE  Filtered(os, no, Len(os), Without(os, no))
  <1> DEFINE N == Len(os)
             next(w, n) == IF os[n].no = no THEN w ELSE Append(w, os[n])
             step == [p \in Seq(Order) \X (1..N) |-> next(p[1], p[2])]
             Equation(f) ==
               f = [n \in 0..N |-> IF n = 0 THEN <<>>
                                   ELSE IF os[n].no = no THEN f[n - 1] ELSE Append(f[n - 1], os[n])]
             Right(n) == {w \in Seq(Order) : Filtered(os, no, n, w)}
             before == [n \in 0..N |-> Right(n)]
  <1>1. N \in Nat /\ \A n \in 1..N : os[n] \in Order
    BY OrdersAre
  <1>2. <<>> \in before[0]
    <2>1. <<>> \in Seq(Order) /\ Len(<<>>) = 0
      BY EmptySeq
    <2>2. OrderList(<<>>) /\ \A n : ~ FirstPaid(os, 0, n)
      BY <2>1 DEF OrderList, FirstPaid
    <2>3. Filtered(os, no, 0, <<>>)
      BY <2>1, <2>2 DEF Filtered
    <2>4. 0 \in 0..N
      BY <1>1
    <2> QED BY <2>1, <2>3, <2>4
  <1>3. ASSUME NEW n \in 1..N, NEW w \in before[n - 1]
        PROVE  /\ w \in Seq(Order) /\ next(w, n) \in before[n]
    <2>1. n - 1 \in 0..N /\ n \in 0..N
      BY <1>1
    <2>2. w \in Seq(Order) /\ Filtered(os, no, n - 1, w)
      BY <2>1
    <2>3. Filtered(os, no, n, next(w, n))
      BY <2>2, FilteredStep
    <2>4. next(w, n) \in Seq(Order)
      BY <2>3 DEF Filtered, OrderList
    <2> QED BY <2>1, <2>2, <2>3, <2>4
  <1>4. \A n \in 1..N : \A w \in Seq(Order) : step[<<w, n>>] = next(w, n)
    OBVIOUS
  <1>5. PICK kept : kept = (CHOOSE f : Equation(f)) /\ Without(os, no) = kept[N]
    BY DEF Without
  <1>6. \A n \in 0..N : before[n] = Right(n)
    OBVIOUS
  <1> HIDE DEF step, N, before, Right
  <1>7. PICK f : Run(f, <<>>, step, N)
    BY <1>1, RunExists
  <1>8. /\ DOMAIN f = 0..N /\ f[0] = <<>>
        /\ \A n \in 1..N : f[n] = step[<<f[n - 1], n>>]
    BY <1>1, <1>7 DEF Run
  <1>9. \A n \in 0..N : f[n] \in before[n]
    <2> DEFINE S == {n \in 0..N : f[n] \in before[n]}
    <2>1. 0 \in S
      BY <1>1, <1>2, <1>8
    <2>2. ASSUME NEW n \in 1..N, n - 1 \in S PROVE n \in S
      <3>1. f[n - 1] \in before[n - 1] /\ n \in 0..N
        BY <1>1, <2>2
      <3>2. f[n] = next(f[n - 1], n) /\ next(f[n - 1], n) \in before[n]
        BY <1>3, <1>4, <1>8, <3>1
      <3> QED BY <3>1, <3>2
    <2> HIDE DEF S
    <2>3. \A n \in 0..N : n \in S
      BY <1>1, <2>1, <2>2, CountingUp
    <2> QED BY <2>3 DEF S
  <1>10. Equation(f)
    <2>1. ASSUME NEW n \in 0..N
          PROVE  f[n] = IF n = 0 THEN <<>>
                        ELSE IF os[n].no = no THEN f[n - 1] ELSE Append(f[n - 1], os[n])
      <3>1. CASE n = 0
        BY <1>8, <3>1
      <3>2. CASE n # 0
        <4>1. n \in 1..N /\ n - 1 \in 0..N
          BY <1>1, <3>2
        <4>2. f[n - 1] \in Seq(Order)
          BY <1>3, <1>9, <4>1
        <4>3. f[n] = next(f[n - 1], n)
          BY <1>4, <1>8, <4>1, <4>2
        <4> QED BY <3>2, <4>3
      <3> QED BY <3>1, <3>2
    <2>2. f = [n \in 0..N |-> f[n]]
      BY <1>7 DEF Run
    <2> QED BY <2>1, <2>2
  <1>11. Equation(kept)
    BY <1>5, <1>10
  <1>12. \A n \in 0..N : kept[n] \in before[n]
    <2> DEFINE S == {n \in 0..N : kept[n] \in before[n]}
    <2>1. kept[0] = <<>> /\ 0 \in 0..N
      BY <1>1, <1>11
    <2>2. 0 \in S
      BY <1>2, <2>1
    <2>3. ASSUME NEW n \in 1..N, n - 1 \in S PROVE n \in S
      <3>1. kept[n - 1] \in before[n - 1] /\ n \in 0..N /\ n # 0
        BY <1>1, <2>3
      <3>2. kept[n] = next(kept[n - 1], n)
        BY <1>11, <3>1
      <3>3. next(kept[n - 1], n) \in before[n]
        BY <1>3, <3>1
      <3> QED BY <3>1, <3>2, <3>3
    <2> HIDE DEF S
    <2>4. \A n \in 0..N : n \in S
      BY <1>1, <2>2, <2>3, CountingUp
    <2> QED BY <2>4 DEF S
  <1>13. N \in 0..N
    BY <1>1
  <1>14. kept[N] \in Right(N)
    BY <1>6, <1>12, <1>13
  <1> QED BY <1>5, <1>14 DEF N, Right

\* The first orders of a list are a list.
LEMMA FirstOrdersAre ==
  ASSUME NEW os, OrderList(os), NEW m \in 0..Len(os)
  PROVE  /\ OrderList(SubSeq(os, 1, m)) /\ Len(SubSeq(os, 1, m)) = m
         /\ \A i \in 1..m : SubSeq(os, 1, m)[i] = os[i]
  <1> DEFINE s == SubSeq(os, 1, m)
  <1>1. Len(os) \in Nat /\ \A i \in 1..Len(os) : os[i] \in Order
    BY OrdersAre
  <1>2. 1 \in Int /\ m \in Int /\ \A i \in 1..m : i \in 1..Len(os) /\ os[i] \in Order
    BY <1>1
  <1>3. /\ s \in Seq(Order) /\ Len(s) = (IF 1 <= m THEN m - 1 + 1 ELSE 0)
        /\ \A i \in 1..m - 1 + 1 : s[i] = os[1 + i - 1]
    BY <1>2, SubSeqProperties
  <1> HIDE DEF s
  <1>4. Len(s) = m /\ \A i \in 1..m : s[i] = os[i]
    BY <1>1, <1>3
  <1>5. OrderList(s)
    BY <1>2, <1>3, <1>4 DEF OrderList
  <1> QED BY <1>4, <1>5 DEF s

\* An order is put in a list where its key wants it, before others of the same key.
LEMMA PutIs ==
  ASSUME NEW os, OrderList(os), NEW o \in Order
  PROVE  LET p == PlaceOf(os, o)
         IN  /\ p \in 1..Len(os) + 1 /\ \A j \in 1..p - 1 : Later(os[j], o)
             /\ OrderList(Put(os, o)) /\ Len(Put(os, o)) = Len(os) + 1
             /\ Put(os, o)[p] = o
             /\ \A i \in 1..p - 1 : Put(os, o)[i] = os[i]
             /\ \A i \in p + 1..Len(os) + 1 : Put(os, o)[i] = os[i - 1]
  <1> DEFINE p == PlaceOf(os, o)
             L == Len(os)
             T == {i \in 1..L + 1 : i <= L => ~ Later(os[i], o)}
  <1>1. L \in Nat /\ \A i \in 1..L : os[i] \in Order
    BY OrdersAre
  <1> HIDE DEF L
  <1>2. PICK t \in T : \A j \in T : t <= j
    <2>1. T \subseteq Nat /\ L + 1 \in T
      BY <1>1
    <2> HIDE DEF T
    <2> QED BY <2>1, LeastExists
  <1>3. \A j \in 1..t - 1 : Later(os[j], o)
    <2> TAKE j \in 1..t - 1
    <2>1. j \in 1..L + 1 /\ j <= L /\ ~ (t <= j)
      BY <1>1
    <2>2. j \notin T
      BY <1>2, <2>1
    <2> QED BY <2>1, <2>2
  <1>4. \E k \in 1..L + 1 : /\ \A j \in 1..k - 1 : Later(os[j], o)
                            /\ k <= L => ~ Later(os[k], o)
    BY <1>3
  <1>5. /\ p \in 1..L + 1
        /\ \A j \in 1..p - 1 : Later(os[j], o)
        /\ p <= L => ~ Later(os[p], o)
    BY <1>4 DEF PlaceOf, L
  <1> DEFINE s == Put(os, o)
  <1>6. os \in Seq(Order) /\ \A i, j \in 1..L : i < j => ~ Later(os[j], os[i])
    BY DEF OrderList, L
  <1>7. /\ s \in Seq(Order) /\ Len(s) = L + 1
        /\ s[p] = o
        /\ \A k \in 1..p - 1 : s[k] = os[k]
        /\ \A k \in p + 1..L + 1 : s[k] = os[k - 1]
    <2>1. p \in 1..Len(os) + 1 /\ s = InsertAt(os, p, o)
      BY <1>5 DEF Put, L
    <2> HIDE DEF p, s
    <2>2. os \in Seq(Order) /\ o \in Order
      BY <1>6
    <2>3. /\ InsertAt(os, p, o) \in Seq(Order) /\ Len(InsertAt(os, p, o)) = Len(os) + 1
          /\ InsertAt(os, p, o)[p] = o
          /\ \A k \in 1..p - 1 : InsertAt(os, p, o)[k] = os[k]
          /\ \A k \in p + 1..Len(os) + 1 : InsertAt(os, p, o)[k] = os[k - 1]
      BY <2>1, <2>2, InsertedIs
    <2> QED BY <2>1, <2>3 DEF L
  <1> HIDE DEF p, s, T
  <1>8. \A j \in p..L : ~ Later(os[j], o)
    <2> TAKE j \in p..L
    <2>1. p \in 1..L /\ j \in 1..L /\ ~ Later(os[p], o)
      BY <1>1, <1>5
    <2>2. j = p \/ ~ Later(os[j], os[p])
      BY <1>1, <1>6, <2>1
    <2> QED BY <1>1, <2>1, <2>2, LaterIsWeak
  <1>9. ASSUME NEW a \in 1..L + 1, NEW b \in 1..L + 1, a < b PROVE ~ Later(s[b], s[a])
    <2>1. p \in Nat /\ a \in Nat /\ b \in Nat
      BY <1>1, <1>5
    <2>2. CASE b < p
      <3>1. a \in 1..p - 1 /\ b \in 1..p - 1 /\ a \in 1..L /\ b \in 1..L
        BY <1>1, <1>5, <1>9, <2>1, <2>2
      <3> QED BY <1>6, <1>7, <1>9, <3>1
    <2>3. CASE b = p
      <3>1. a \in 1..p - 1 /\ a \in 1..L
        BY <1>1, <1>5, <1>9, <2>1, <2>3
      <3>2. Later(os[a], o)
        BY <1>5, <3>1
      <3>3. ~ Later(o, os[a])
        BY <1>1, <3>1, <3>2, LaterIsWeak
      <3> QED BY <1>7, <2>3, <3>1, <3>3
    <2>4. CASE p < b /\ a = p
      <3>1. b \in p + 1..L + 1 /\ b - 1 \in p..L
        BY <1>1, <2>1, <2>4
      <3> QED BY <1>7, <1>8, <2>4, <3>1
    <2>5. CASE p < b /\ a < p
      <3>1. /\ a \in 1..p - 1 /\ b \in p + 1..L + 1
            /\ a \in 1..L /\ b - 1 \in 1..L /\ a < b - 1
        BY <1>1, <1>5, <2>1, <2>5
      <3> QED BY <1>6, <1>7, <3>1
    <2>6. CASE p < a
      <3>1. /\ a \in p + 1..L + 1 /\ b \in p + 1..L + 1
            /\ a - 1 \in 1..L /\ b - 1 \in 1..L /\ a - 1 < b - 1
        BY <1>1, <1>5, <1>9, <2>1, <2>6
      <3> QED BY <1>6, <1>7, <3>1
    <2>7. b < p \/ b = p \/ p < b
      BY <2>1
    <2>8. a < p \/ a = p \/ p < a
      BY <2>1
    <2> QED BY <2>2, <2>3, <2>4, <2>5, <2>6, <2>7, <2>8
  <1>10. OrderList(s)
    BY <1>7, <1>9 DEF OrderList
  <1> QED BY <1>5, <1>7, <1>10 DEF s, p, L

\* An order that is put in a list leaves a number its first order, or is itself that, paid.
LEMMA PutLeaves ==
  ASSUME NEW os, OrderList(os), NEW o \in Order, NEW n, o.no = n => o.paid,
         \/ FirstPaid(os, Len(os), n)
         \/ o.no = n /\ \A i \in 1..PlaceOf(os, o) - 1 : os[i].no # n
  PROVE  FirstPaid(Put(os, o), Len(Put(os, o)), n)
  <1>1. PICK p, s :
          /\ p = PlaceOf(os, o) /\ s = Put(os, o)
          /\ p \in 1..Len(os) + 1 /\ Len(s) = Len(os) + 1 /\ s[p] = o
          /\ \A i \in 1..p - 1 : s[i] = os[i]
          /\ \A i \in p + 1..Len(os) + 1 : s[i] = os[i - 1]
    BY PutIs
  <1>2. Len(os) \in Nat
    BY OrdersAre
  <1>3. CASE o.no = n /\ \A i \in 1..p - 1 : os[i].no # n
    <2>1. s[p].no = n /\ s[p].paid /\ \A j \in 1..p - 1 : s[j].no # n
      BY <1>1, <1>3
    <2> QED BY <1>1, <2>1 DEF FirstPaid
  <1>4. CASE FirstPaid(os, Len(os), n)
    <2>1. PICK i \in 1..Len(os) : os[i].no = n /\ os[i].paid /\ \A j \in 1..i - 1 : os[j].no # n
      BY <1>4 DEF FirstPaid
    <2>2. CASE i < p
      <3>1. i \in 1..Len(s) /\ i \in 1..p - 1 /\ \A j \in 1..i - 1 : j \in 1..p - 1
        BY <1>1, <1>2, <2>2
      <3>2. s[i].no = n /\ s[i].paid /\ \A j \in 1..i - 1 : s[j].no # n
        BY <1>1, <2>1, <3>1
      <3> QED BY <1>1, <3>1, <3>2 DEF FirstPaid
    <2>3. CASE ~ (i < p) /\ o.no = n
      <3>1. \A j \in 1..p - 1 : j \in 1..i - 1
        BY <1>1, <1>2, <2>3
      <3> QED BY <1>3, <2>1, <2>3, <3>1
    <2>4. CASE ~ (i < p) /\ o.no # n
      <3>1. i + 1 \in 1..Len(s) /\ i + 1 \in p + 1..Len(os) + 1 /\ (i + 1) - 1 = i
        BY <1>1, <1>2, <2>4
      <3>2. s[i + 1] = os[i]
        BY <1>1, <3>1
      <3>3. ASSUME NEW j \in 1..(i + 1) - 1 PROVE s[j].no # n
        <4>1. \/ j \in 1..p - 1 /\ j \in 1..i - 1
              \/ j = p
              \/ j \in p + 1..Len(os) + 1 /\ j - 1 \in 1..i - 1
          BY <1>1, <1>2, <2>4
        <4> QED BY <1>1, <2>1, <2>4, <4>1
      <3> QED BY <1>1, <2>1, <3>1, <3>2, <3>3 DEF FirstPaid
    <2> QED BY <2>2, <2>3, <2>4
  <1> QED BY <1>1, <1>3, <1>4

\* A list from which an order is taken leaves a number its first order, unless it is that.
LEMMA RemoveLeaves ==
  ASSUME NEW os, OrderList(os), NEW k \in 1..Len(os)
  PROVE  /\ OrderList(RemoveAt(os, k)) /\ Len(RemoveAt(os, k)) = Len(os) - 1
         /\ \A i \in 1..k - 1 : RemoveAt(os, k)[i] = os[i]
         /\ \A i \in k..Len(os) - 1 : RemoveAt(os, k)[i] = os[i + 1]
         /\ \A n : /\ FirstPaid(os, Len(os), n)
                   /\ os[k].no # n \/ \E j \in 1..k - 1 : os[j].no = n
                   => FirstPaid(RemoveAt(os, k), Len(RemoveAt(os, k)), n)
  <1>1. Len(os) \in Nat
    BY OrdersAre
  <1>2. PICK s :
          /\ s = RemoveAt(os, k) /\ s \in Seq(Order) /\ Len(s) = Len(os) - 1
          /\ \A i \in 1..k - 1 : s[i] = os[i]
          /\ \A i \in k..Len(os) - 1 : s[i] = os[i + 1]
    BY RemovedIs DEF OrderList
  <1>3. ASSUME NEW i \in 1..Len(s)
        PROVE  \/ i < k /\ s[i] = os[i] /\ i \in 1..Len(os)
               \/ ~ (i < k) /\ s[i] = os[i + 1] /\ i + 1 \in 1..Len(os)
    <2>1. \/ i < k /\ i \in 1..k - 1 /\ i \in 1..Len(os)
          \/ ~ (i < k) /\ i \in k..Len(os) - 1 /\ i + 1 \in 1..Len(os)
      BY <1>1, <1>2
    <2> QED BY <1>2, <2>1
  <1>4. ASSUME NEW i \in 1..Len(s), NEW j \in 1..Len(s), i < j PROVE ~ Later(s[j], s[i])
    <2>1. PICK a, b : /\ a \in 1..Len(os) /\ b \in 1..Len(os) /\ a < b
                      /\ s[i] = os[a] /\ s[j] = os[b]
      <3>1. CASE j < k
        <4>1. /\ s[i] = os[i] /\ s[j] = os[j]
              /\ i \in 1..Len(os) /\ j \in 1..Len(os)
          BY <1>1, <1>2, <1>3, <1>4, <3>1
        <4> QED BY <1>4, <4>1
      <3>2. CASE i < k /\ ~ (j < k)
        <4>1. /\ s[i] = os[i] /\ s[j] = os[j + 1]
              /\ i \in 1..Len(os) /\ j + 1 \in 1..Len(os)
          BY <1>3, <3>2
        <4>2. i < j + 1
          BY <1>1, <1>2, <1>4
        <4> QED BY <4>1, <4>2
      <3>3. CASE ~ (i < k)
        <4>1. ~ (j < k)
          BY <1>1, <1>2, <1>4, <3>3
        <4>2. /\ s[i] = os[i + 1] /\ s[j] = os[j + 1]
              /\ i + 1 \in 1..Len(os) /\ j + 1 \in 1..Len(os)
          BY <1>3, <3>3, <4>1
        <4>3. i + 1 < j + 1
          BY <1>1, <1>2, <1>4
        <4> QED BY <4>2, <4>3
      <3> QED BY <3>1, <3>2, <3>3
    <2> QED BY <2>1 DEF OrderList
  <1>5. ASSUME NEW n, FirstPaid(os, Len(os), n),
               os[k].no # n \/ \E j \in 1..k - 1 : os[j].no = n
        PROVE  FirstPaid(s, Len(s), n)
    <2>1. PICK i \in 1..Len(os) : os[i].no = n /\ os[i].paid /\ \A j \in 1..i - 1 : os[j].no # n
      BY <1>5 DEF FirstPaid
    <2>2. i # k
      BY <1>5, <2>1
    <2>3. CASE i < k
      <3>1. i \in 1..Len(s) /\ i \in 1..k - 1 /\ \A j \in 1..i - 1 : j \in 1..k - 1
        BY <1>1, <1>2, <2>3
      <3>2. s[i].no = n /\ s[i].paid /\ \A j \in 1..i - 1 : s[j].no # n
        BY <1>2, <2>1, <3>1
      <3> QED BY <3>1, <3>2 DEF FirstPaid
    <2>4. CASE k < i
      <3>1. i - 1 \in 1..Len(s) /\ i - 1 \in k..Len(os) - 1 /\ (i - 1) + 1 = i
        BY <1>1, <1>2, <2>4
      <3>2. s[i - 1] = os[i]
        BY <1>2, <3>1
      <3>3. ASSUME NEW j \in 1..(i - 1) - 1 PROVE s[j].no # n
        <4>1. j \in 1..Len(s) /\ j \in 1..i - 1 /\ j + 1 \in 1..i - 1
          BY <1>1, <1>2, <2>4
        <4> QED BY <1>3, <2>1, <4>1
      <3> QED BY <2>1, <3>1, <3>2, <3>3 DEF FirstPaid
    <2>5. i < k \/ k < i
      BY <1>1, <2>2
    <2> QED BY <2>3, <2>4, <2>5
  <1>6. OrderList(s)
    BY <1>2, <1>4 DEF OrderList
  <1> QED BY <1>2, <1>5, <1>6

\* An order that is paid in its place leaves every number its first order.
LEMMA ReplaceLeaves ==
  ASSUME NEW os, OrderList(os), NEW k \in 1..Len(os), NEW o \in Order,
         o.no = os[k].no, o.created = os[k].created, o.paid
  PROVE  /\ OrderList([os EXCEPT ![k] = o]) /\ Len([os EXCEPT ![k] = o]) = Len(os)
         /\ \A i \in 1..Len(os) : [os EXCEPT ![k] = o][i] = IF i = k THEN o ELSE os[i]
         /\ \A n : FirstPaid(os, Len(os), n)
                     => FirstPaid([os EXCEPT ![k] = o], Len([os EXCEPT ![k] = o]), n)
  <1>1. os \in Seq(Order) /\ Len(os) \in Nat /\ DOMAIN os = 1..Len(os)
    BY OrdersAre DEF OrderList
  <1>2. PICK s : s = [os EXCEPT ![k] = o]
    OBVIOUS
  <1>3. s \in Seq(Order) /\ Len(s) = Len(os) /\ \A i \in 1..Len(os) : s[i] = IF i = k THEN o ELSE os[i]
    BY <1>1, <1>2, ExceptSeq
  <1>4. \A i \in 1..Len(os) : s[i].no = os[i].no /\ s[i].created = os[i].created
    BY <1>3
  <1>5. \A i, j \in 1..Len(os) : Later(s[j], s[i]) <=> Later(os[j], os[i])
    BY <1>4 DEF Later
  <1>6. OrderList(s)
    BY <1>3, <1>5 DEF OrderList
  <1>7. ASSUME NEW n, FirstPaid(os, Len(os), n) PROVE FirstPaid(s, Len(s), n)
    <2>1. PICK i \in 1..Len(os) : os[i].no = n /\ os[i].paid /\ \A j \in 1..i - 1 : os[j].no # n
      BY <1>7 DEF FirstPaid
    <2>2. \A j \in 1..i - 1 : j \in 1..Len(os)
      BY <1>1
    <2>3. s[i].no = n /\ s[i].paid /\ \A j \in 1..i - 1 : s[j].no # n
      BY <1>3, <1>4, <2>1, <2>2
    <2> QED BY <1>3, <2>3 DEF FirstPaid
  <1> QED BY <1>2, <1>3, <1>6, <1>7

\* The inductive invariant.
CInv == CloudTypeOK /\ OrderList(orders)

\* What the service's plan and its expiry may be.
Services == [plan : PlanSizes, expire : 0..LastDay * Term + Term]

\* Days and terms are counted.
LEMMA ExpiriesAreNumbers ==
  /\ LastDay \in Nat /\ Term \in Nat /\ LastDay * Term + Term \in Nat
  /\ 0 \in 0..LastDay * Term + Term
  <1>1. LastDay \in Nat /\ Term \in Nat
    BY CloudAssumption
  <1>2. LastDay * Term \in Nat
    BY <1>1
  <1> QED BY <1>1, <1>2

\* What is kept of an order is of an order, and whether it is paid is among it.
LEMMA KeptIsTyped ==
  ASSUME CInv, NEW no \in OrderNos
  PROVE  /\ Kept(no).created \in 0..LastDay /\ Kept(no).paid \in BOOLEAN
         /\ FirstPaid(orders, Len(orders), no) => Kept(no).paid
  <1>1. OrderList(orders)
    BY DEF CInv
  <1>2. FirstPaid(orders, Len(orders), no) <=> /\ Matching(orders, no, Blank) # {}
                                               /\ orders[FoundAt(orders, no, Blank)].paid
    BY <1>1, PaidIsFirst
  <1>3. CASE Matching(orders, no, Blank) = {}
    BY <1>2, <1>3, ExpiriesAreNumbers DEF Kept, CInv, CloudTypeOK
  <1>4. CASE Matching(orders, no, Blank) # {}
    <2>1. PICK o : o = orders[FoundAt(orders, no, Blank)]
      OBVIOUS
    <2>2. o \in Order
      BY <1>1, <1>4, <2>1, FoundIs, OrdersAre
    <2>3. Kept(no).created = o.created /\ Kept(no).paid = o.paid
      BY <1>4, <2>1 DEF Kept
    <2> QED BY <1>2, <2>1, <2>2, <2>3 DEF Order
  <1> QED BY <1>3, <1>4

\* Creating an order keeps the list and lists its number; a number that is listed then, and
\* was paid, is.
LEMMA CreatedIs ==
  ASSUME CInv, NEW kind \in {"purchase", "renew"}, NEW plan, NEW no \in OrderNos,
         NEW payment \in Payments
  PROVE  LET os == Created(kind, plan, no, payment)
         IN  /\ OrderList(os) /\ Len(os) <= MaxOrders
             /\ \E i \in 1..Len(os) : os[i].no = no
             /\ \A n \in OrderNos :
                  FirstPaid(orders, Len(orders), n) /\ (\E i \in 1..Len(os) : os[i].no = n)
                    => FirstPaid(os, Len(os), n)
  <1> DEFINE new == [no |-> no, payment |-> payment, kind |-> kind, plan |-> Plan(plan),
                     created |-> Kept(no).created, paid |-> Kept(no).paid]
             others == Without(orders, no)
             room == IF Len(others) < MaxOrders THEN Len(others) ELSE MaxOrders - 1
             rest == SubSeq(others, 1, room)
  <1>1. new \in Order /\ new.no = no /\ new.paid = Kept(no).paid
    <2>1. Plan(plan) \in PlanSizes
      BY DEF Plan, CInv, CloudTypeOK
    <2> QED BY <2>1, KeptIsTyped DEF Order
  <1>2. Filtered(orders, no, Len(orders), others)
    BY WithoutIs DEF CInv
  <1>3. /\ OrderList(others) /\ Len(others) \in Nat
        /\ \A k \in 1..Len(others) : others[k].no # no
        /\ \A n \in OrderNos \ {no} :
             FirstPaid(orders, Len(orders), n) => FirstPaid(others, Len(others), n)
    BY <1>2, OrdersAre DEF Filtered
  <1> HIDE DEF others
  <1>4. MaxOrders \in Nat \ {0}
    BY CloudAssumption
  <1>5. room \in 0..Len(others) /\ room + 1 <= MaxOrders /\ room \in Nat
    BY <1>3, <1>4
  <1> HIDE DEF room
  <1>6. OrderList(rest) /\ Len(rest) = room /\ \A i \in 1..room : rest[i] = others[i]
    BY <1>3, <1>5, FirstOrdersAre
  <1>7. Created(kind, plan, no, payment) = Put(rest, new)
    BY DEF Created, others, room
  <1> HIDE DEF new, rest
  <1>8. PICK p, os :
          /\ p = PlaceOf(rest, new) /\ os = Put(rest, new)
          /\ p \in 1..Len(rest) + 1 /\ OrderList(os) /\ Len(os) = Len(rest) + 1 /\ os[p] = new
          /\ \A i \in 1..p - 1 : os[i] = rest[i]
          /\ \A i \in p + 1..Len(rest) + 1 : os[i] = rest[i - 1]
    BY <1>1, <1>6, PutIs
  <1>9. \A i \in 1..room : rest[i].no # no
    BY <1>3, <1>5, <1>6
  <1>10. ASSUME NEW n \in OrderNos, FirstPaid(orders, Len(orders), n),
                NEW i \in 1..Len(os), os[i].no = n
         PROVE  FirstPaid(os, Len(os), n)
    <2>1. CASE n = no
      <3>1. new.paid
        BY <1>1, <1>10, <2>1, KeptIsTyped
      <3>2. \A j \in 1..p - 1 : j \in 1..room
        BY <1>5, <1>6, <1>8
      <3>3. \A j \in 1..p - 1 : rest[j].no # n
        BY <1>9, <2>1, <3>2
      <3> QED BY <1>1, <1>6, <1>8, <2>1, <3>1, <3>3, PutLeaves
    <2>2. CASE n # no
      <3>1. FirstPaid(others, Len(others), n)
        BY <1>3, <1>10, <2>2
      <3>2. PICK a \in 1..Len(others) :
              others[a].no = n /\ others[a].paid /\ \A j \in 1..a - 1 : others[j].no # n
        BY <3>1 DEF FirstPaid
      <3>3. PICK b \in 1..room : rest[b].no = n
        <4>1. \/ i \in 1..p - 1 /\ i \in 1..room
              \/ i = p
              \/ i \in p + 1..Len(rest) + 1 /\ i - 1 \in 1..room
          BY <1>5, <1>6, <1>8
        <4> QED BY <1>1, <1>8, <1>10, <2>2, <4>1
      <3>4. ~ (b \in 1..a - 1)
        BY <1>6, <3>2, <3>3
      <3>5. a \in 1..room /\ \A j \in 1..a - 1 : j \in 1..room
        BY <1>5, <3>2, <3>3, <3>4
      <3>6. FirstPaid(rest, Len(rest), n)
        BY <1>6, <3>2, <3>5 DEF FirstPaid
      <3> QED BY <1>1, <1>6, <1>8, <2>2, <3>6, PutLeaves
    <2> QED BY <2>1, <2>2
  <1>11. \E i \in 1..Len(os) : os[i].no = no
    BY <1>1, <1>6, <1>8
  <1>12. Len(os) <= MaxOrders
    BY <1>4, <1>5, <1>6, <1>8
  <1> QED BY <1>7, <1>8, <1>10, <1>11, <1>12

\* The order at place k of the list os has been paid, by the number no: the list is kept, it
\* lists no number anew but this, and whatever number was paid is, unless the order was the
\* first of that and has taken another.
PaidBy(os, k, no) ==
  /\ OrderList(orders') /\ Len(orders') <= MaxOrders /\ service' \in Services
  /\ \A i \in 1..Len(orders') :
       \/ orders'[i].no = IF no = Blank THEN os[k].no ELSE no
       \/ \E j \in 1..Len(os) : j # k /\ orders'[i] = os[j]
  /\ \A n \in OrderNos : FirstPaid(os, Len(os), n)
       => \/ FirstPaid(orders', Len(orders'), n)
          \/ /\ os[k].no = n /\ no \notin {n, Blank}
             /\ \A j \in 1..k - 1 : os[j].no # n
  /\ no # Blank /\ no # os[k].no /\ (\A j \in 1..k - 1 : os[j].no # no)
       => FirstPaid(orders', Len(orders'), no)

LEMMA FinalizedIs ==
  ASSUME CInv, NEW os, OrderList(os), Len(os) <= MaxOrders, NEW k \in 1..Len(os),
         NEW no \in OrderNos \cup {Blank}, NEW payment \in Payments \cup {Blank},
         Finalized(os, k, no, payment)
  PROVE  PaidBy(os, k, no)
  <1> DEFINE paid == [os[k] EXCEPT !.no = IF no = Blank THEN @ ELSE no,
                                   !.payment = IF payment = Blank THEN @ ELSE payment,
                                   !.paid = TRUE]
  <1>1. /\ Start(paid.kind) + Term <= LastDay * Term + Term
        /\ orders' = IF paid.no = os[k].no THEN [os EXCEPT ![k] = paid]
                     ELSE Put(RemoveAt(os, k), paid)
        /\ service' = [plan |-> paid.plan, expire |-> Start(paid.kind) + Term]
    BY DEF Finalized
  <1>2. os[k] \in Order /\ Len(os) \in Nat /\ MaxOrders \in Nat
    BY OrdersAre, CloudAssumption
  <1>3. /\ paid.no = (IF no = Blank THEN os[k].no ELSE no)
        /\ paid.created = os[k].created /\ paid.paid = TRUE
    BY <1>2 DEF Order
  <1>4. paid \in Order /\ paid.plan \in PlanSizes
    BY <1>2 DEF Order
  <1> HIDE DEF paid
  <1>5. service' \in Services
    <2>1. day \in 0..LastDay /\ service.expire \in 0..LastDay * Term + Term
      BY DEF CInv, CloudTypeOK
    <2>2. day \in Nat /\ service.expire \in Nat
      BY <2>1, ExpiriesAreNumbers
    <2>3. Start(paid.kind) + Term \in Nat
      BY <2>2, ExpiriesAreNumbers DEF Start
    <2>4. Start(paid.kind) + Term \in 0..LastDay * Term + Term
      BY <1>1, <2>3, ExpiriesAreNumbers
    <2> QED BY <1>1, <1>4, <2>4 DEF Services
  <1>6. CASE paid.no = os[k].no
    <2>1. PICK s :
            /\ s = orders' /\ OrderList(s) /\ Len(s) = Len(os)
            /\ \A i \in 1..Len(os) : s[i] = IF i = k THEN paid ELSE os[i]
            /\ \A n : FirstPaid(os, Len(os), n) => FirstPaid(s, Len(s), n)
      BY <1>1, <1>3, <1>4, <1>6, ReplaceLeaves
    <2>2. no # Blank => no = os[k].no
      BY <1>3, <1>6
    <2> QED BY <1>3, <1>5, <2>1, <2>2 DEF PaidBy
  <1>7. CASE paid.no # os[k].no
    <2>1. no # Blank /\ paid.no = no /\ no # os[k].no
      BY <1>3, <1>7
    <2>2. PICK r :
            /\ r = RemoveAt(os, k) /\ OrderList(r) /\ Len(r) = Len(os) - 1
            /\ \A i \in 1..k - 1 : r[i] = os[i]
            /\ \A i \in k..Len(os) - 1 : r[i] = os[i + 1]
            /\ \A n : /\ FirstPaid(os, Len(os), n)
                      /\ os[k].no # n \/ \E j \in 1..k - 1 : os[j].no = n
                      => FirstPaid(r, Len(r), n)
      BY RemoveLeaves
    <2>3. PICK p, s :
            /\ p = PlaceOf(r, paid) /\ s = Put(r, paid) /\ s = orders'
            /\ p \in 1..Len(r) + 1 /\ (\A j \in 1..p - 1 : Later(r[j], paid))
            /\ OrderList(s) /\ Len(s) = Len(r) + 1 /\ s[p] = paid
            /\ \A i \in 1..p - 1 : s[i] = r[i]
            /\ \A i \in p + 1..Len(r) + 1 : s[i] = r[i - 1]
      <3>1. OrderList(r) /\ Put(r, paid) = orders'
        BY <1>1, <1>7, <2>2
      <3>2. /\ PlaceOf(r, paid) \in 1..Len(r) + 1
            /\ \A j \in 1..PlaceOf(r, paid) - 1 : Later(r[j], paid)
            /\ OrderList(Put(r, paid)) /\ Len(Put(r, paid)) = Len(r) + 1
            /\ Put(r, paid)[PlaceOf(r, paid)] = paid
            /\ \A i \in 1..PlaceOf(r, paid) - 1 : Put(r, paid)[i] = r[i]
            /\ \A i \in PlaceOf(r, paid) + 1..Len(r) + 1 : Put(r, paid)[i] = r[i - 1]
        BY <1>4, <3>1, PutIs
      <3> QED BY <3>1, <3>2, Zenon
    <2>4. ASSUME NEW i \in 1..Len(r)
          PROVE  \E j \in 1..Len(os) : /\ j # k /\ r[i] = os[j]
                                       /\ j < k \/ k < j
      <3>1. \/ i \in 1..k - 1 /\ i # k /\ i < k /\ i \in 1..Len(os)
            \/ i \in k..Len(os) - 1 /\ i + 1 # k /\ k < i + 1 /\ i + 1 \in 1..Len(os)
        BY <1>2, <2>2
      <3> QED BY <2>2, <3>1
    <2>5. ASSUME NEW i \in 1..Len(s)
          PROVE  \/ s[i].no = no
                 \/ \E j \in 1..Len(os) : j # k /\ s[i] = os[j]
      <3>1. \/ i \in 1..p - 1 /\ i \in 1..Len(r)
            \/ i = p
            \/ i \in p + 1..Len(r) + 1 /\ i - 1 \in 1..Len(r)
        BY <1>2, <2>2, <2>3
      <3> QED BY <2>1, <2>3, <2>4, <3>1
    <2>6. ASSUME NEW n \in OrderNos, FirstPaid(os, Len(os), n),
                 os[k].no # n \/ \E j \in 1..k - 1 : os[j].no = n
          PROVE  FirstPaid(s, Len(s), n)
      <3>1. OrderList(r) /\ FirstPaid(r, Len(r), n)
        BY <2>2, <2>6
      <3>2. FirstPaid(Put(r, paid), Len(Put(r, paid)), n)
        BY <1>3, <1>4, <3>1, PutLeaves
      <3> QED BY <2>3, <3>2
    <2>7. ASSUME \A j \in 1..k - 1 : os[j].no # no PROVE FirstPaid(s, Len(s), no)
      <3>1. ASSUME NEW i \in 1..p - 1 PROVE r[i].no # no
        <4>1. i \in 1..Len(r)
          BY <1>2, <2>2, <2>3
        <4>2. PICK j \in 1..Len(os) : r[i] = os[j] /\ (j < k \/ k < j)
          BY <2>4, <4>1
        <4>3. CASE j < k
          <5>1. j \in 1..k - 1
            BY <1>2, <4>3
          <5> QED BY <2>7, <4>2, <5>1
        <4>4. CASE k < j
          <5>1. ~ Later(os[j], os[k]) /\ Later(os[j], paid)
            BY <2>3, <4>2, <4>4 DEF OrderList
          <5>2. os[j] \in Order
            BY OrdersAre
          <5>3. /\ os[j].created \in Nat /\ os[j].no \in Nat
                /\ paid.created \in Nat /\ paid.no \in Nat
            BY <1>4, <5>2, KeysAreNumbers
          <5>4. ~ (os[j].created > paid.created)
            BY <1>3, <5>1 DEF Later
          <5> QED BY <2>1, <4>2, <5>1, <5>3, <5>4 DEF Later
        <4> QED BY <4>2, <4>3, <4>4
      <3>2. paid.no = no /\ paid.paid /\ \A i \in 1..PlaceOf(r, paid) - 1 : r[i].no # no
        BY <1>3, <2>1, <2>3, <3>1
      <3>3. OrderList(r)
        BY <2>2
      <3>4. FirstPaid(Put(r, paid), Len(Put(r, paid)), no)
        BY <1>4, <3>2, <3>3, PutLeaves
      <3> QED BY <2>3, <3>4
    <2>8. \A n \in OrderNos : FirstPaid(os, Len(os), n)
            => \/ FirstPaid(s, Len(s), n)
               \/ os[k].no = n /\ no \notin {n, Blank} /\ \A j \in 1..k - 1 : os[j].no # n
      BY <2>1, <2>6
    <2>9. Len(s) <= MaxOrders
      BY <1>2, <2>2, <2>3
    <2>10. (IF no = Blank THEN os[k].no ELSE no) = no
      BY <2>1
    <2> QED BY <1>5, <2>3, <2>5, <2>7, <2>8, <2>9, <2>10 DEF PaidBy
  <1> QED BY <1>6, <1>7

\* What a step on the orders leaves.
OrdersLeft ==
  /\ OrderList(orders') /\ Len(orders') <= MaxOrders /\ service' \in Services
  /\ \A n \in OrderNos :
       FirstPaid(orders, Len(orders), n) /\ (\E i \in 1..Len(orders') : orders'[i].no = n)
         => FirstPaid(orders', Len(orders'), n) \/ TakenFrom(n)

\* An order that was listed is paid: a number that was paid is, or its order was taken.
LEMMA KnownIsPaid ==
  ASSUME CInv, NEW no \in OrderNos \cup {Blank}, NEW payment \in Payments \cup {Blank},
         FinalizeOrder(no, payment), Matching(orders, no, payment) # {},
         Finalized(orders, FoundAt(orders, no, payment), no, payment)
  PROVE  OrdersLeft
  <1>1. OrderList(orders) /\ Len(orders) <= MaxOrders
    BY DEF CInv, CloudTypeOK
  <1>2. PICK k \in 1..Len(orders) :
          /\ k = FoundAt(orders, no, payment) /\ (orders[k].no = no \/ orders[k].payment = payment)
          /\ \A j \in 1..k - 1 : orders[j].no # no /\ orders[j].payment # payment
    BY <1>1, FoundIs
  <1>3. PaidBy(orders, k, no)
    BY <1>1, <1>2, FinalizedIs
  <1>4. ASSUME NEW n \in OrderNos, NEW i \in 1..Len(orders'), orders'[i].no = n,
               orders[k].no = n, no \notin {n, Blank}, \A j \in 1..k - 1 : orders[j].no # n
        PROVE  TakenFrom(n)
    <2>1. no \in OrderNos \ {n} /\ orders[k].payment = payment /\ orders[k] \in Order
      BY <1>1, <1>2, <1>4, OrdersAre
    <2>2. payment \in Payments
      BY <2>1 DEF Order
    <2>3. PICK j \in 1..Len(orders) : j # k /\ orders[j].no = n
      BY <1>3, <1>4 DEF PaidBy
    <2>4. \A a \in 1..Len(orders) : orders[a].no = n => a \in Matching(orders, n, Blank)
      BY <1>1, OrdersAre DEF Matching
    <2>5. k \in Matching(orders, n, Blank) /\ j \in Matching(orders, n, Blank)
      BY <1>4, <2>3, <2>4
    <2>6. FoundAt(orders, n, Blank) = k
      <3>1. \A a \in 1..Len(orders) : orders[a].payment # Blank
        BY <1>1, OrdersAre, CloudAssumption DEF Order
      <3>2. PICK f \in 1..Len(orders) :
              /\ f = FoundAt(orders, n, Blank) /\ orders[f].no = n
              /\ \A a \in 1..f - 1 : orders[a].no # n
        BY <1>1, <2>5, <3>1, FoundIs
      <3>3. ~ (f \in 1..k - 1) /\ ~ (k \in 1..f - 1)
        BY <1>4, <3>2
      <3>4. Len(orders) \in Nat
        BY <1>1, OrdersAre
      <3> QED BY <3>2, <3>3, <3>4
    <2>7. FirstPaid(orders', Len(orders'), no)
      BY <1>2, <1>3, <1>4, <2>1 DEF PaidBy
    <2>8. IsPaid(no, Blank)'
      <3>1. OrderList(orders')
        BY <1>3 DEF PaidBy
      <3> QED BY <2>1, <2>7, <3>1, PaidIsFirst DEF IsPaid
    <2> QED BY <2>1, <2>2, <2>3, <2>5, <2>6, <2>8 DEF TakenFrom
  <1> QED BY <1>3, <1>4 DEF PaidBy, OrdersLeft

\* An order that was not listed is created and paid: it takes no other's place.
LEMMA UnknownIsPaid ==
  ASSUME CInv, NEW no \in OrderNos \cup {Blank}, NEW payment \in Payments \cup {Blank},
         Matching(orders, no, payment) = {}, NEW m \in UnusedNos, NEW q \in UnusedPayments,
         Finalized(Created("purchase", Blank, m, q),
                   FoundAt(Created("purchase", Blank, m, q), m, Blank), no, payment)
  PROVE  OrdersLeft
  <1>1. m \in OrderNos /\ q \in Payments /\ Matching(orders, m, Blank) = {}
    BY DEF UnusedNos, UnusedPayments
  <1>2. PICK os :
          /\ os = Created("purchase", Blank, m, q) /\ OrderList(os) /\ Len(os) <= MaxOrders
          /\ \E i \in 1..Len(os) : os[i].no = m
          /\ \A n \in OrderNos :
               FirstPaid(orders, Len(orders), n) /\ (\E i \in 1..Len(os) : os[i].no = n)
                 => FirstPaid(os, Len(os), n)
    BY <1>1, CreatedIs
  <1>3. Matching(os, m, Blank) # {} /\ \A i \in 1..Len(os) : os[i].payment # Blank
    BY <1>1, <1>2, PaidIsFirst, OrdersAre, CloudAssumption DEF Order
  <1>4. PICK k \in 1..Len(os) : k = FoundAt(os, m, Blank) /\ os[k].no = m
    BY <1>2, <1>3, FoundIs
  <1>5. PaidBy(os, k, no)
    BY <1>2, <1>4, FinalizedIs
  <1>6. OrderList(orders)
    BY DEF CInv
  <1>7. ASSUME NEW n \in OrderNos, FirstPaid(orders, Len(orders), n),
               NEW i \in 1..Len(orders'), orders'[i].no = n
        PROVE  FirstPaid(orders', Len(orders'), n)
    <2>1. Matching(orders, n, Blank) # {}
      BY <1>6, <1>7, PaidIsFirst
    <2>2. n # m
      BY <1>1, <2>1
    <2>3. n # no
      <3>1. \E j \in 1..Len(orders) : orders[j].no = n
        BY <1>6, <2>1, PaidIsFirst
      <3>2. \A j \in 1..Len(orders) : orders[j].no # no
        BY <1>6, OrdersAre DEF Matching
      <3> QED BY <3>1, <3>2
    <2>4. \E j \in 1..Len(os) : os[j].no = n
      BY <1>4, <1>5, <1>7, <2>2, <2>3 DEF PaidBy
    <2>5. FirstPaid(os, Len(os), n)
      BY <1>2, <1>7, <2>4
    <2> QED BY <1>4, <1>5, <2>2, <2>5 DEF PaidBy
  <1> QED BY <1>5, <1>7 DEF PaidBy, OrdersLeft

\* Every step on the orders leaves them so.
LEMMA OrdersAreKept ==
  ASSUME CInv, OrderNext
  PROVE  OrdersLeft
  <1>1. ASSUME NEW kind \in {"purchase", "renew"}, NEW plan \in PlanSizes, NEW no \in OrderNos,
               NEW p \in Payments, CreateOrder(kind, plan, no, p)
        PROVE  OrdersLeft
    <2>1. orders' = Created(kind, plan, no, p) /\ service' = service
      BY <1>1 DEF CreateOrder
    <2>2. service' \in Services
      BY <2>1 DEF CInv, CloudTypeOK, Services
    <2>3. PICK os :
            /\ os = Created(kind, plan, no, p) /\ OrderList(os) /\ Len(os) <= MaxOrders
            /\ \A n \in OrderNos :
                 FirstPaid(orders, Len(orders), n) /\ (\E i \in 1..Len(os) : os[i].no = n)
                   => FirstPaid(os, Len(os), n)
      BY CreatedIs
    <2> QED BY <2>1, <2>2, <2>3 DEF OrdersLeft
  <1>2. ASSUME NEW no \in OrderNos \cup {Blank}, NEW p \in Payments \cup {Blank},
               FinalizeOrder(no, p)
        PROVE  OrdersLeft
    <2>1. \/ /\ Matching(orders, no, p) # {}
             /\ Finalized(orders, FoundAt(orders, no, p), no, p)
          \/ /\ Matching(orders, no, p) = {}
             /\ \E n \in UnusedNos, q \in UnusedPayments :
                  Finalized(Created("purchase", Blank, n, q),
                            FoundAt(Created("purchase", Blank, n, q), n, Blank), no, p)
      BY <1>2 DEF FinalizeOrder
    <2> QED BY <1>2, <2>1, KnownIsPaid, UnknownIsPaid
  <1>3. CASE PassDay
    BY <1>3 DEF PassDay, CInv, CloudTypeOK, Services, OrdersLeft
  <1> QED BY <1>1, <1>2, <1>3 DEF OrderNext

-----------------------------------------------------------------------------
(***************************************************************************)
(* Cameras.                                                                *)
(***************************************************************************)
LEMMA CamsAreListed ==
  /\ IsFiniteSet(Cams)
  /\ \A c, d \in Cams : c # d => Before(c, d) \/ Before(d, c)
  /\ \A c \in Cams : ~ Before(c, c)
  /\ \A b, c, d \in Cams : Before(b, c) /\ Before(c, d) => Before(b, d)
  <1>1. /\ Len(CloudCams) \in Nat /\ DOMAIN CloudCams = 1..Len(CloudCams)
        /\ \A i, j \in 1..Len(CloudCams) : CloudCams[i] = CloudCams[j] => i = j
        /\ \A i \in 1..Len(CloudCams) : CloudCams[i] \in Cams
        /\ \A c \in Cams : \E i \in 1..Len(CloudCams) : CloudCams[i] = c
    <2>1. Len(CloudCams) \in Nat /\ DOMAIN CloudCams = 1..Len(CloudCams)
      <3>1. CloudCams \in Seq(ToSet(CloudCams))
        BY CloudAssumption
      <3> QED BY <3>1
    <2>2. IsInjective(CloudCams)
      BY CloudAssumption
    <2> QED BY <2>1, <2>2 DEF IsInjective, Cams, ToSet
  <1>2. IsFiniteSet(Cams)
    <2>1. [i \in 1..Len(CloudCams) |-> CloudCams[i]] \in Surjection(1..Len(CloudCams), Cams)
      BY <1>1 DEF Surjection
    <2>2. IsFiniteSet(1..Len(CloudCams))
      BY <1>1, FS_Interval
    <2> QED BY <2>1, <2>2, FS_Surjection
  <1>3. \A i, j \in 1..Len(CloudCams) : Before(CloudCams[i], CloudCams[j]) <=> i < j
    BY <1>1 DEF Before
  <1>4. \A i, j \in 1..Len(CloudCams) : i \in Nat /\ j \in Nat /\ (i = j \/ i < j \/ j < i)
    BY <1>1
  <1>5. \A c, d \in Cams : c # d => Before(c, d) \/ Before(d, c)
    BY <1>1, <1>3, <1>4
  <1>6. \A c \in Cams : ~ Before(c, c)
    <2> TAKE c \in Cams
    <2>1. PICK i \in 1..Len(CloudCams) : CloudCams[i] = c
      BY <1>1
    <2>2. ~ (i < i)
      BY <1>4
    <2> QED BY <1>3, <2>1, <2>2
  <1>7. \A b, c, d \in Cams : Before(b, c) /\ Before(c, d) => Before(b, d)
    <2> TAKE b, c, d \in Cams
    <2>1. PICK i, j, k \in 1..Len(CloudCams) : CloudCams[i] = b /\ CloudCams[j] = c /\ CloudCams[k] = d
      BY <1>1
    <2>2. i < j /\ j < k => i < k
      BY <1>1
    <2> QED BY <1>3, <2>1, <2>2
  <1> QED BY <1>2, <1>5, <1>6, <1>7

\* A request gives each of its cameras a place of its own.
Request(r) ==
  /\ DOMAIN r \subseteq Cams
  /\ \A c \in DOMAIN r : r[c] \in Nat
  /\ \A c, d \in DOMAIN r : r[c] = r[d] => c = d

\* A request in an account's scope is one.
LEMMA RequestsArePlaces ==
  ASSUME NEW r \in Requests, NEW a
  PROVE  /\ Request(Scoped(a, r))
         /\ \A c \in DOMAIN Scoped(a, r) : c \in recorded /\ CloudAccount[c] = a
  <1>1. PICK cs \in SUBSET Cams : r \in Injection(cs, 1..Cardinality(cs))
    BY DEF Requests
  <1>2. IsFiniteSet(cs) /\ Cardinality(cs) \in Nat
    BY CamsAreListed, FS_Subset, FS_CardinalityType
  <1>3. r \in [cs -> 1..Cardinality(cs)] /\ \A c, d \in cs : r[c] = r[d] => c = d
    BY <1>1 DEF Injection, IsInjective
  <1>4. \A c \in cs : r[c] \in Nat
    BY <1>2, <1>3
  <1> QED BY <1>3, <1>4 DEF Request, Scoped, Restrict

Preferring(r) == {p \in Cams \X Cams : Preferred(r, p[1], p[2])}

\* No two cameras come at one place of a preference.
LEMMA PreferredIsStrict ==
  ASSUME NEW r, Request(r), NEW cs, cs \subseteq Cams
  PROVE  StrictlyOrders(Preferring(r), cs)
  <1>1. \A c, d \in cs : <<c, d>> \in Preferring(r) <=> Preferred(r, c, d)
    BY DEF Preferring
  <1>2. \A c \in cs : ~ Preferred(r, c, c)
    BY CamsAreListed DEF Preferred, Request
  <1>3. ASSUME NEW b \in cs, NEW c \in cs, NEW d \in cs, Preferred(r, b, c), Preferred(r, c, d)
        PROVE  Preferred(r, b, d)
    BY <1>3, CamsAreListed DEF Preferred, Request
  <1>4. ASSUME NEW c \in cs, NEW d \in cs, c # d PROVE Preferred(r, c, d) \/ Preferred(r, d, c)
    BY <1>4, CamsAreListed DEF Preferred, Request
  <1> QED BY <1>1, <1>2, <1>3, <1>4 DEF StrictlyOrders

\* The first n preferred are n at most.
LEMMA FirstPreferredIs ==
  ASSUME NEW r, Request(r), NEW cs, cs \subseteq Cams, NEW n \in Nat
  PROVE  /\ FirstPreferred(r, cs, n) \subseteq cs /\ IsFiniteSet(FirstPreferred(r, cs, n))
         /\ Cardinality(FirstPreferred(r, cs, n)) <= n
         /\ Cardinality(FirstPreferred(r, cs, n)) \in Nat
  <1>1. \A c \in cs : Ahead(Preferring(r), cs, c) = {d \in cs : Preferred(r, d, c)}
    BY DEF Ahead, Preferring
  <1>2. FirstPreferred(r, cs, n) = FirstFew(Preferring(r), cs, n)
    BY <1>1 DEF FirstPreferred, FirstFew
  <1>3. cs \in SUBSET Cams /\ IsFiniteSet(cs)
    BY CamsAreListed, FS_Subset
  <1>4. StrictlyOrders(Preferring(r), cs)
    BY PreferredIsStrict
  <1> HIDE DEF FirstFew
  <1> QED BY <1>2, <1>3, <1>4, FewAreFirst

\* A bind changes who is bound.
LEMMA BindIsTyped ==
  ASSUME CInv, NEW a, NEW r \in Requests, BindCameras(a, r)
  PROVE  /\ orders' = orders /\ service' = service /\ recorded' = recorded /\ day' = day
         /\ unbound' \subseteq recorded
         /\ DOMAIN asked' \subseteq recorded /\ \A c \in DOMAIN asked' : asked'[c] \in Nat
  <1>1. /\ orders' = orders /\ service' = service /\ recorded' = recorded /\ day' = day
        /\ asked' = Scoped(a, r)
        /\ unbound' \subseteq unbound \cup (Bound(a) \cup DOMAIN Scoped(a, r))
    BY DEF BindCameras
  <1>2. /\ Request(Scoped(a, r))
        /\ \A c \in DOMAIN Scoped(a, r) : c \in recorded
    BY RequestsArePlaces
  <1>3. Bound(a) \subseteq recorded /\ unbound \subseteq recorded
    BY DEF Bound, CInv, CloudTypeOK
  <1> QED BY <1>1, <1>2, <1>3 DEF Request

\* What a bind leaves bound is what it prefers.
LEMMA BindShows ==
  ASSUME CInv, NEW a, NEW r \in Requests, BindCameras(a, r)
  PROVE  BindShowsRequested'
  <1> DEFINE sc == Scoped(a, r)
             all == Bound(a) \cup DOMAIN sc
             keep == FirstPreferred(sc, all, service.plan)
  <1>1. /\ Request(sc) /\ DOMAIN sc \subseteq recorded
        /\ \A c \in DOMAIN sc : CloudAccount[c] = a
    BY RequestsArePlaces
  <1>2. all \subseteq recorded /\ all \subseteq Cams /\ \A c \in all : CloudAccount[c] = a
    BY <1>1 DEF Bound, CInv, CloudTypeOK
  <1>3. service.plan \in Nat
    BY CloudAssumption DEF CInv, CloudTypeOK
  <1>4. /\ keep \subseteq all /\ IsFiniteSet(keep)
        /\ Cardinality(keep) <= service.plan /\ Cardinality(keep) \in Nat
    <2> HIDE DEF sc, all
    <2> QED BY <1>1, <1>2, <1>3, FirstPreferredIs
  <1>5. /\ service' = service /\ recorded' = recorded /\ asked' = sc
        /\ unbound' = (unbound \ all) \cup (all \ keep)
    BY DEF BindCameras
  <1>6. Bound(a)' = keep
    <2>1. Bound(a)' = {c \in recorded \ unbound' : CloudAccount[c] = a}
      BY <1>5 DEF Bound
    <2>2. \A c \in recorded \ unbound' : CloudAccount[c] = a => c \in all
      BY <1>5 DEF Bound
    <2>3. \A c \in keep : c \in recorded \ unbound' /\ CloudAccount[c] = a
      BY <1>2, <1>4, <1>5
    <2> HIDE DEF keep, all, sc
    <2>4. \A c \in all : c \notin unbound' => c \in keep
      BY <1>5
    <2> QED BY <2>1, <2>2, <2>3, <2>4
  <1>7. ASSUME NEW c \in DOMAIN sc,
               Cardinality({d \in DOMAIN sc : sc[d] < sc[c]}) < service.plan
        PROVE  c \in keep
    <2>1. {d \in all : Preferred(sc, d, c)} = {d \in DOMAIN sc : sc[d] < sc[c]}
      BY DEF Preferred
    <2>2. c \in all
      OBVIOUS
    <2> HIDE DEF sc, all
    <2> QED BY <1>7, <2>1, <2>2 DEF FirstPreferred
  <1>8. ASSUME NEW c \in keep PROVE c \in Shown(a)'
    <2> DEFINE ahead == {d \in keep : Before(d, c)}
    <2> HIDE DEF keep, sc, all
    <2>1. ahead \in SUBSET keep /\ c \notin ahead
      BY <1>2, <1>4, CamsAreListed
    <2>2. Cardinality(ahead) \in Nat /\ Cardinality(ahead) <= Cardinality(keep)
          /\ Cardinality(ahead) # Cardinality(keep)
      <3> HIDE DEF ahead
      <3>1. ahead # keep
        BY <2>1
      <3>2. IsFiniteSet(ahead)
        BY <1>4, <2>1, FS_Subset
      <3>3. Cardinality(ahead) <= Cardinality(keep) /\ Cardinality(ahead) # Cardinality(keep)
        BY <1>4, <2>1, <3>1, FS_Subset
      <3> QED BY <3>2, <3>3, FS_CardinalityType
    <2>3. Cardinality(ahead) < service.plan
      <3> HIDE DEF ahead
      <3> QED BY <1>3, <1>4, <2>2
    <2> QED BY <1>5, <1>6, <2>3 DEF Shown
  <1> HIDE DEF keep, all
  <1>9. ASSUME NEW c \in DOMAIN asked'
        PROVE  /\ Cardinality({d \in DOMAIN asked' : asked'[d] < asked'[c]}) < service'.plan
                    => c \in Shown(CloudAccount[c])'
               /\ Cardinality(Bound(CloudAccount[c])') <= service'.plan
    <2>1. c \in DOMAIN sc /\ CloudAccount[c] = a
      BY <1>1, <1>5
    <2> HIDE DEF sc
    <2> QED BY <1>4, <1>5, <1>6, <1>7, <1>8, <2>1
  <1> QED BY <1>9 DEF BindShowsRequested

-----------------------------------------------------------------------------
(***************************************************************************)
(* The specification.                                                      *)
(***************************************************************************)
LEMMA CInvFirst ==
  ASSUME CloudInit
  PROVE  CInv /\ BindShowsRequested
  <1>1. orders \in Seq(Order) /\ Len(orders) = 0 /\ DOMAIN orders = 1..0
    BY DEF CloudInit
  <1>2. MaxOrders \in Nat /\ 1 \in PlanSizes
    BY CloudAssumption
  <1>3. CloudCams[1] \in Cams
    BY CloudAssumption DEF Cams, ToSet
  <1>4. Term \in 0..LastDay * Term + Term /\ 0 \in 0..LastDay
    <2>1. LastDay * Term \in Nat
      BY ExpiriesAreNumbers
    <2> QED BY <2>1, ExpiriesAreNumbers
  <1>5. DOMAIN asked = {}
    BY DEF CloudInit
  <1>6. CloudTypeOK
    BY <1>1, <1>2, <1>3, <1>4, <1>5 DEF CloudInit, CloudTypeOK
  <1>7. OrderList(orders)
    BY <1>1 DEF OrderList
  <1> QED BY <1>5, <1>6, <1>7 DEF CInv, BindShowsRequested

\* Creating and paying keep the invariant; nothing was asked to be bound.
LEMMA OrderStep ==
  ASSUME CInv, OrderNext
  PROVE  CInv' /\ BindShowsRequested'
  <1>1. /\ OrderList(orders') /\ Len(orders') <= MaxOrders
        /\ service' \in [plan : PlanSizes, expire : 0..LastDay * Term + Term]
    BY OrdersAreKept DEF OrdersLeft, Services
  <1>2. /\ recorded' = recorded /\ unbound' = unbound /\ asked' = <<>>
        /\ day' \in 0..LastDay
    <2>1. CASE PassDay
      BY <2>1, ExpiriesAreNumbers DEF PassDay, CInv, CloudTypeOK
    <2>2. CASE \E kind \in {"purchase", "renew"}, plan \in PlanSizes, no \in OrderNos, p \in Payments :
                 CreateOrder(kind, plan, no, p)
      BY <2>2 DEF CreateOrder, CInv, CloudTypeOK
    <2>3. CASE \E no \in OrderNos \cup {Blank}, p \in Payments \cup {Blank} : FinalizeOrder(no, p)
      BY <2>3 DEF FinalizeOrder, CInv, CloudTypeOK
    <2> QED BY <2>1, <2>2, <2>3 DEF OrderNext
  <1>3. DOMAIN asked' = {}
    BY <1>2
  <1>4. CloudTypeOK'
    BY <1>1, <1>2, <1>3, OrdersAre DEF CInv, CloudTypeOK, OrderList
  <1> QED BY <1>1, <1>3, <1>4 DEF CInv, BindShowsRequested

\* Cameras leave the orders as they are; what a bind asks for is shown.
LEMMA CameraStep ==
  ASSUME CInv, CameraNext
  PROVE  CInv' /\ BindShowsRequested' /\ orders' = orders
  <1> DEFINE Goal == CInv' /\ BindShowsRequested' /\ orders' = orders
  <1>1. ASSUME /\ orders' = orders /\ service' = service /\ day' = day
               /\ unbound' \subseteq recorded' /\ recorded' \subseteq Cams
               /\ asked' = <<>>
        PROVE  Goal
    <2>1. DOMAIN asked' = {}
      BY <1>1
    <2>2. CloudTypeOK'
      BY <1>1, <2>1 DEF CInv, CloudTypeOK
    <2>3. OrderList(orders)'
      BY <1>1 DEF CInv, OrderList
    <2> QED BY <1>1, <2>1, <2>2, <2>3 DEF CInv, BindShowsRequested
  <1>2. ASSUME NEW a, NEW r \in Requests, BindCameras(a, r)
        PROVE  Goal
    <2>1. BindShowsRequested' /\ orders' = orders
      BY <1>2, BindIsTyped, BindShows
    <2>2. /\ orders' = orders /\ service' = service /\ recorded' = recorded /\ day' = day
          /\ unbound' \subseteq recorded
          /\ DOMAIN asked' \subseteq recorded /\ \A c \in DOMAIN asked' : asked'[c] \in Nat
      BY <1>2, BindIsTyped
    <2>3. CloudTypeOK'
      BY <2>2 DEF CInv, CloudTypeOK
    <2>4. OrderList(orders)'
      BY <2>2 DEF CInv, OrderList
    <2> QED BY <2>1, <2>3, <2>4 DEF CInv
  <1>3. unbound \subseteq recorded /\ recorded \subseteq Cams
    BY DEF CInv, CloudTypeOK
  <1>4. ASSUME NEW a, NEW r \in Requests, UnbindCameras(a, r)
        PROVE  Goal
    <2>1. DOMAIN Scoped(a, r) \subseteq recorded
      BY RequestsArePlaces
    <2> HIDE DEF Goal
    <2> QED BY <1>1, <1>3, <1>4, <2>1 DEF UnbindCameras
  <1>5. ASSUME NEW c \in Cams, RecordCamera(c) \/ ForgetCamera(c)
        PROVE  Goal
    <2> HIDE DEF Goal
    <2> QED BY <1>1, <1>3, <1>5 DEF RecordCamera, ForgetCamera
  <1> HIDE DEF Goal
  <1> QED
    <2>1. Goal
      BY <1>2, <1>4, <1>5 DEF CameraNext
    <2> QED BY <2>1 DEF Goal

\* Every step keeps the invariant.
LEMMA CInvStep ==
  ASSUME CInv, BindShowsRequested, [CloudNext]_cloudVars
  PROVE  CInv' /\ BindShowsRequested'
  <1>1. CASE CloudNext
    BY <1>1, OrderStep, CameraStep DEF CloudNext
  <1>2. CASE UNCHANGED cloudVars
    BY <1>2 DEF cloudVars, CInv, CloudTypeOK, OrderList, BindShowsRequested, Shown, Bound
  <1> QED BY <1>1, <1>2

\* A number that was paid is as long as it is listed, or its order was taken.
LEMMA PaidStep ==
  ASSUME CInv, OrderNext, NEW n \in OrderNos,
         IsPaid(n, Blank), Matching(orders', n, Blank) # {}
  PROVE  IsPaid(n, Blank)' \/ TakenFrom(n)
  <1>1. OrderList(orders) /\ OrdersLeft
    BY OrdersAreKept DEF CInv
  <1>2. OrderList(orders')
    BY <1>1 DEF OrdersLeft
  <1>3. FirstPaid(orders, Len(orders), n)
    BY <1>1, PaidIsFirst DEF IsPaid
  <1>4. \E i \in 1..Len(orders') : orders'[i].no = n
    BY <1>2, PaidIsFirst
  <1>5. CASE FirstPaid(orders', Len(orders'), n)
    BY <1>2, <1>5, PaidIsFirst DEF IsPaid
  <1> QED BY <1>1, <1>3, <1>4, <1>5 DEF OrdersLeft

\* Orders, plan and cameras keep their types, and the list its order and its cap
\* (_normalize_storage_state_unlocked, app/store_domains/cloud.py:843).
THEOREM OrdersAreTyped == CloudSpec => []CloudTypeOK
  <1>1. CloudSpec => [](CInv /\ BindShowsRequested)
    BY CInvFirst, CInvStep, PTL DEF CloudSpec
  <1>2. CInv => CloudTypeOK
    BY DEF CInv
  <1> QED BY <1>1, <1>2, PTL

\* Once paid, an order is told to be as long as it is listed, unless a payment for another
\* order takes its record (create_storage_order, app/store_domains/cloud.py:1597, and
\* finalize_storage_order, app/store_domains/cloud.py:1646).
THEOREM PaymentsStay == CloudSpec => PaidUntilTaken
  <1>1. CloudSpec => [](CInv /\ BindShowsRequested)
    BY CInvFirst, CInvStep, PTL DEF CloudSpec
  <1>2. CInv /\ [CloudNext]_cloudVars
          => [orders' # orders =>
                \A n \in OrderNos :
                  IsPaid(n, Blank) /\ Matching(orders', n, Blank) # {}
                    => IsPaid(n, Blank)' \/ TakenFrom(n)]_cloudVars
    <2> SUFFICES ASSUME CInv, CloudNext, orders' # orders, NEW n \in OrderNos,
                        IsPaid(n, Blank), Matching(orders', n, Blank) # {}
                 PROVE  IsPaid(n, Blank)' \/ TakenFrom(n)
      OBVIOUS
    <2>1. OrderNext
      BY CameraStep DEF CloudNext
    <2> QED BY <2>1, PaidStep
  <1> QED BY <1>1, <1>2, PTL DEF CloudSpec, PaidUntilTaken

\* A bind shows what it was asked for, in the order of the request and up to the
\* capacity (set_cloud_storage_bound, app/store_domains/cloud.py:1538).
THEOREM BindsShow == CloudSpec => []BindShowsRequested
  <1>1. CloudSpec => [](CInv /\ BindShowsRequested)
    BY CInvFirst, CInvStep, PTL DEF CloudSpec
  <1> QED BY <1>1, PTL

-----------------------------------------------------------------------------
(***************************************************************************)
(* The services together.                                                  *)
(***************************************************************************)
LEMMA EachServiceRuns ==
  Spec => DidSpec /\ CloudSpec /\ NoticesSpec /\ PushSpec /\ LiveSpec /\ AccountSpec
  <1>1. Init => DidInit /\ CloudInit /\ NoticesInit /\ PushInit /\ LiveInit /\ AccountInit
    BY DEF Init
  <1>2. [Next]_<<focus, didVars, cloudVars, noticeVars, pushVars, liveVars, accountVars>>
          => /\ [DidNext]_didVars /\ [CloudNext]_cloudVars /\ [NoticesNext]_noticeVars
             /\ [PushNext]_pushVars /\ [LiveNext]_liveVars /\ [AccountNext]_accountVars
    BY DEF Next, CloudNext
  <1> QED BY <1>1, <1>2, PTL
       DEF Spec, DidSpec, CloudSpec, NoticesSpec, PushSpec, LiveSpec, AccountSpec

\* The type invariant of the services holds, whichever of them moves.
THEOREM ServicesAreTyped == Spec => []ServicesTypeOK
  <1>1. Spec => /\ []DidTypeOK /\ []CloudTypeOK /\ []NoticesTypeOK
                /\ []PushTypeOK /\ []LiveTypeOK /\ []AccountTypeOK
    BY EachServiceRuns, DidsAreTyped, OrdersAreTyped, NoticesAreTyped, TargetsAreTyped,
       PipelineIsTyped, AccountsAreTyped
  <1>2. DidTypeOK /\ CloudTypeOK /\ NoticesTypeOK /\ PushTypeOK /\ LiveTypeOK /\ AccountTypeOK
          => ServicesTypeOK
    BY DEF ServicesTypeOK
  <1> QED BY <1>1, <1>2, PTL

=============================================================================
