----------------------------- MODULE AppProofs ------------------------------
(***************************************************************************)
(* Theorems about what an app has at the service, its account, its notices *)
(* and its push targets, for any accounts, cameras and tokens and any      *)
(* caps.                                                                   *)
(***************************************************************************)
EXTENDS Accounts, Notices, PushTargets, FiniteSetTheorems, SequenceTheorems, TLAPS

(***************************************************************************)
(* Accounts: the type invariant, part by part.                             *)
(***************************************************************************)
\* Each column is unique.
UniqueColumns ==
  \A u, v \in users : u # v =>
    /\ u.id # v.id /\ u.username # v.username
    /\ u.email # NoName => u.email # v.email
    /\ u.mobile # NoName => u.mobile # v.mobile

\* Tokens are of accounts there are, and the session's is its user's.
TokensOK ==
  /\ issued \in Seq(Registered)
  /\ session.token \in DOMAIN issued /\ session.user = issued[session.token]

AInv ==
  /\ users \subseteq User /\ UniqueColumns
  /\ {latest, DefaultAccount} \subseteq Registered
  /\ TokensOK
  /\ ownerOf \in [AccountStations -> Registered \cup {NoAccount}]

\* The parts are the type invariant.
LEMMA PartsAreTheType == AInv <=> AccountTypeOK
  <1>1. ASSUME users \subseteq User
        PROVE  UniqueColumns <=>
                 \A u, v \in users : u # v =>
                   /\ u.id # v.id
                   /\ \A c \in {"username", "email", "mobile"} : u[c] # NoName => u[c] # v[c]
    <2>1. \A u \in users : u.username # NoName
      BY <1>1, AccountAssumption DEF User
    <2> QED BY <2>1 DEF UniqueColumns
  <1> QED BY <1>1 DEF AInv, AccountTypeOK, TokensOK

-----------------------------------------------------------------------------
(***************************************************************************)
(* What the operators do.                                                  *)
(***************************************************************************)
\* Who logs in with an identifier has an account.
LEMMA FoundIsRegistered ==
  ASSUME NEW x PROVE Find(x) \subseteq Registered
  BY DEF Find, By, Registered

\* A new token is its account's, and so is the session that is made with it.
LEMMA IssueKeepsTokens ==
  ASSUME TokensOK, NEW u, Issue(u), Registered \subseteq Registered', u \in Registered'
  PROVE  TokensOK'
  <1>1. issued \in Seq(Registered')
    BY DEF TokensOK
  <1>2. issued' = Append(issued, u) /\ session' = [user |-> u, token |-> Len(issued) + 1]
    BY DEF Issue, Activate
  <1>3. /\ issued' \in Seq(Registered') /\ Len(issued') = Len(issued) + 1
        /\ issued'[Len(issued) + 1] = u
    BY <1>1, <1>2
  <1>4. Len(issued) + 1 \in DOMAIN issued'
    BY <1>1, <1>3
  <1> QED BY <1>2, <1>3, <1>4 DEF TokensOK

\* An old token is its account's, too.
LEMMA ReuseKeepsTokens ==
  ASSUME TokensOK, NEW u, Reuse(u), users' = users, u \in Registered
  PROVE  TokensOK'
  <1>1. Registered' = Registered
    BY DEF Registered
  <1>2. CASE Issue(u)
    BY <1>1, <1>2, IssueKeepsTokens
  <1>3. CASE ~Issue(u)
    <2>1. PICK t \in TokensOf(u) : Activate(u, t) /\ issued' = issued
      BY <1>3 DEF Reuse
    <2>2. t \in DOMAIN issued /\ issued[t] = u
      BY DEF TokensOf
    <2> QED BY <1>1, <2>1, <2>2 DEF TokensOK, Activate
  <1> QED BY <1>2, <1>3

-----------------------------------------------------------------------------
(***************************************************************************)
(* The invariant.                                                          *)
(***************************************************************************)
\* A new database has one account and one token.
LEMMA AInvFirst == AccountInit => AInv
  <1> SUFFICES ASSUME AccountInit PROVE AInv
    OBVIOUS
  <1>1. Registered = {DefaultAccount}
    BY DEF AccountInit, Registered
  <1>2. users \subseteq User /\ UniqueColumns
    BY AccountAssumption DEF AccountInit, User, UniqueColumns
  <1>3. TokensOK
    BY <1>1 DEF AccountInit, TokensOK
  <1> QED BY <1>1, <1>2, <1>3 DEF AInv, AccountInit

\* A row that is inserted has no identifier in a column in which another has it.
LEMMA InsertKeepsAInv ==
  ASSUME AInv, NEW x \in Names, NEW email \in {x, NoName}, NEW mobile \in Names \cup {NoName},
         Insert(x, email, mobile)
  PROVE  AInv'
  <1>1. PICK u \in AccountIds \ Registered :
          /\ Insertable(x, mobile)
          /\ users' = users \cup {[id |-> u, username |-> x, email |-> email, mobile |-> mobile]}
          /\ latest' = u /\ Issue(u) /\ ownerOf' = ownerOf
    BY DEF Insert
  <1> DEFINE row == [id |-> u, username |-> x, email |-> email, mobile |-> mobile]
  <1>2. row \in User /\ row.id = u /\ row.username = x /\ row.email = email /\ row.mobile = mobile
    BY DEF User
  <1>3. Registered' = Registered \cup {u}
    <2> HIDE DEF row
    <2>1. users' = users \cup {row} /\ row.id = u
      BY <1>1, <1>2 DEF row
    <2>2. \A v : v \in Registered' <=> \E w \in users \cup {row} : v = w.id
      BY <2>1 DEF Registered
    <2>3. \A v : v \in Registered <=> \E w \in users : v = w.id
      BY DEF Registered
    <2> QED BY <2>1, <2>2, <2>3
  <1>4. \A v \in users : v.id # u /\ v.username # x /\ v.email # x
                         /\ (mobile # NoName => v.mobile # mobile)
    <2>1. By("username", x) = {} /\ By("email", x) = {}
      BY <1>1 DEF Insertable, Find
    <2>2. mobile # NoName => By("mobile", mobile) = {}
      BY <1>1 DEF Insertable
    <2>3. \A v \in users : v.id # u
      BY <1>1 DEF Registered
    <2>4. \A v \in users : v.username # x /\ v.email # x
      BY <2>1 DEF By
    <2>5. ASSUME mobile # NoName PROVE \A v \in users : v.mobile # mobile
      BY <2>2, <2>5 DEF By
    <2> QED BY <2>3, <2>4, <2>5
  <1>5. users' \subseteq User
    BY <1>1, <1>2 DEF AInv
  <1>6. UniqueColumns'
    <2> SUFFICES ASSUME NEW v \in users', NEW w \in users', v # w
                 PROVE  /\ v.id # w.id /\ v.username # w.username
                        /\ v.email # NoName => v.email # w.email
                        /\ v.mobile # NoName => v.mobile # w.mobile
      BY DEF UniqueColumns
    <2>1. CASE v \in users /\ w \in users
      BY <2>1 DEF AInv, UniqueColumns
    <2>2. CASE v \in users /\ w = row
      BY <1>2, <1>4, <2>2
    <2>3. CASE v = row /\ w \in users
      BY <1>2, <1>4, <2>3
    <2> QED BY <1>1, <2>1, <2>2, <2>3
  <1>7. TokensOK'
    BY <1>1, <1>3, IssueKeepsTokens DEF AInv
  <1> QED BY <1>1, <1>3, <1>5, <1>6, <1>7 DEF AInv

\* Every other call leaves the rows alone.
LEMMA AInvStep == AInv /\ [AccountNext]_accountVars => AInv'
  <1> SUFFICES ASSUME AInv, [AccountNext]_accountVars PROVE AInv'
    OBVIOUS
  <1>1. ASSUME users' = users, TokensOK', latest' \in Registered,
               ownerOf' \in [AccountStations -> Registered \cup {NoAccount}]
        PROVE  AInv'
    <2>1. Registered' = Registered /\ UniqueColumns'
      BY <1>1 DEF Registered, AInv, UniqueColumns
    <2> QED BY <1>1, <2>1 DEF AInv
  <1>2. ASSUME users' = users, issued' = issued, session' = session PROVE TokensOK'
    BY <1>2 DEF AInv, TokensOK, Registered
  <1>3. ASSUME NEW u \in Registered, Reuse(u), UNCHANGED <<users, latest, ownerOf>> PROVE AInv'
    BY <1>1, <1>3, ReuseKeepsTokens DEF AInv
  <1>4. ASSUME NEW x \in Names, Login(x) PROVE AInv'
    <2>1. PICK u \in Find(x) : Issue(u)
      BY <1>4 DEF Login
    <2>2. u \in Registered /\ Registered' = Registered
      BY <1>4, FoundIsRegistered DEF Login, Registered
    <2>3. TokensOK'
      BY <2>1, <2>2, IssueKeepsTokens DEF AInv
    <2> QED BY <1>1, <1>4, <2>3 DEF Login, AInv
  <1>5. ASSUME NEW x \in Names, UpdateByName(x) PROVE AInv'
    BY <1>1, <1>2, <1>5, FoundIsRegistered DEF UpdateByName, AInv
  <1>6. ASSUME NEW x \in Names, RegisterEmail(x) PROVE AInv'
    BY <1>6, InsertKeepsAInv DEF RegisterEmail
  <1>7. ASSUME NEW x \in Names, NEW mobile \in Names \cup {NoName}, RegisterMobile(x, mobile)
        PROVE  AInv'
    BY <1>7, InsertKeepsAInv DEF RegisterMobile
  <1>8. ASSUME NEW t \in DOMAIN issued, Activate(issued[t], t), UNCHANGED <<users, issued>>
        PROVE  TokensOK' /\ issued[t] \in Registered
    <2>1. issued[t] \in Registered
      BY DEF AInv, TokensOK
    <2> QED BY <1>8, <2>1 DEF AInv, TokensOK, Activate, Registered
  <1>9. ASSUME NEW t \in DOMAIN issued, UseToken(t) PROVE AInv'
    BY <1>1, <1>8, <1>9 DEF UseToken, AInv
  <1>10. ASSUME NEW t \in DOMAIN issued, UpdateByToken(t) PROVE AInv'
    BY <1>1, <1>8, <1>10 DEF UpdateByToken, AInv
  <1>11. ASSUME NEW s \in AccountStations, LoginStation(s) PROVE AInv'
    <2>1. (IF ownerOf[s] = NoAccount THEN latest ELSE ownerOf[s]) \in Registered
      BY DEF AInv
    <2> QED BY <1>3, <1>11, <2>1 DEF LoginStation
  <1>12. ASSUME NEW s \in AccountStations, NEW u \in Registered \cup {NoAccount}, OwnStation(s, u)
         PROVE  AInv'
    BY <1>1, <1>2, <1>12 DEF OwnStation, AInv
  <1>13. CASE LoginAnyone
    BY <1>3, <1>13 DEF LoginAnyone, AInv
  <1>14. CASE StartAccounts
    BY <1>3, <1>14 DEF StartAccounts, AInv
  <1>15. CASE UNCHANGED accountVars
    BY <1>1, <1>2, <1>15 DEF accountVars, AInv
  <1> QED BY <1>4, <1>5, <1>6, <1>7, <1>9, <1>10, <1>11, <1>12, <1>13, <1>14, <1>15 DEF AccountNext

\* Identifiers are unique in their columns, and the active session's token is
\* its user's, whatever accounts, tokens and stations there are.
THEOREM AccountsAreTyped == AccountSpec => []AccountTypeOK
  BY AInvFirst, AInvStep, PartsAreTheType, PTL DEF AccountSpec

-----------------------------------------------------------------------------
(***************************************************************************)
(* Identifiers.                                                            *)
(***************************************************************************)
\* The row that is inserted is found by none of the identifiers that find one.
LEMMA InsertKeepsFinds ==
  ASSUME NEW x \in Names, NEW email \in {x, NoName}, NEW mobile \in Names \cup {NoName},
         Insert(x, email, mobile), NEW y \in Names, Find(y) # {}
  PROVE  Find(y)' = Find(y)
  <1>1. PICK u \in AccountIds \ Registered :
          /\ Insertable(x, mobile)
          /\ users' = users \cup {[id |-> u, username |-> x, email |-> email, mobile |-> mobile]}
    BY DEF Insert
  <1>2. y # x /\ y # email
    BY <1>1, AccountAssumption DEF Insertable
  <1>3. By("username", y)' = By("username", y) /\ By("email", y)' = By("email", y)
    BY <1>1, <1>2 DEF By
  <1>4. CASE By("username", y) # {} \/ By("email", y) # {}
    BY <1>3, <1>4 DEF Find
  <1>5. CASE By("username", y) = {} /\ By("email", y) = {}
    <2>1. By("mobile", y) # {}
      BY <1>5 DEF Find
    <2>2. y # mobile
      BY <1>1, <2>1, AccountAssumption DEF Insertable
    <2>3. By("mobile", y)' = By("mobile", y)
      BY <1>1, <2>2 DEF By
    <2> QED BY <1>3, <1>5, <2>3 DEF Find
  <1> QED BY <1>4, <1>5

\* Whatever is registered, with whatever identifiers of others, an identifier
\* that has found an account goes on finding it.
THEOREM IdentifiersStay == AccountSpec => IdentifierStays
  <1>1. ASSUME [AccountNext]_accountVars, users' # users, NEW y \in Names, Find(y) # {}
        PROVE  Find(y)' = Find(y)
    <2>1. PICK x \in Names, mobile \in Names \cup {NoName} :
            RegisterEmail(x) \/ RegisterMobile(x, mobile)
      BY <1>1 DEF AccountNext, accountVars, Login, UpdateByName, UseToken, UpdateByToken,
                  LoginStation, OwnStation, LoginAnyone, StartAccounts
    <2>2. CASE RegisterEmail(x)
      BY <1>1, <2>2, InsertKeepsFinds DEF RegisterEmail
    <2>3. CASE RegisterMobile(x, mobile)
      BY <1>1, <2>3, InsertKeepsFinds DEF RegisterMobile
    <2> QED BY <2>1, <2>2, <2>3
  <1>2. [AccountNext]_accountVars =>
          [users' # users => \A x \in Names : Find(x) # {} => Find(x)' = Find(x)]_accountVars
    BY <1>1
  <1> QED BY <1>2, PTL DEF AccountSpec, IdentifierStays

-----------------------------------------------------------------------------
(***************************************************************************)
(* Notices.                                                                *)
(***************************************************************************)
\* A list has one notice of each id, all of them given.
NoticeList(ns, k) ==
  /\ ns \subseteq Notice /\ IsFiniteSet(ns)
  /\ \A n, m \in ns : n.id = m.id => n = m
  /\ \A n \in ns : n.id < k

\* What an app has read is what was there from the last notice read upwards.
Reading ==
  /\ reader \in Walks /\ ~reader.twice
  /\ \A i \in reader.got \cup reader.begun : i < nextId
  /\ \A i \in reader.got : reader.last # 0 /\ i >= reader.last
  /\ \A n \in notices : n.id \in reader.begun =>
       /\ n.cam \in SeenCams
       /\ reader.last # 0 /\ n.id >= reader.last => n.id \in reader.got

NInv ==
  /\ nextId \in 1..LastNotice
  /\ NoticeList(notices, nextId) /\ Cardinality(notices) <= MaxNotices
  /\ camStatus \in [NoticeCams -> [online : BOOLEAN, charge : Charges]]
  /\ Reading

-----------------------------------------------------------------------------
(***************************************************************************)
(* Lists.                                                                  *)
(***************************************************************************)
\* A part of a list is a list.
LEMMA PartIsList ==
  ASSUME NEW ns, NEW k, NoticeList(ns, k), NEW part \in SUBSET ns
  PROVE  NoticeList(part, k) /\ Cardinality(part) <= Cardinality(ns)
  BY FS_Subset DEF NoticeList

\* How many are before a notice tells its place: the first k are k at most.
LEMMA LatestNoticesAreFew ==
  ASSUME NEW ns, NEW b \in Nat, NoticeList(ns, b), NEW k \in Nat
  PROVE  Cardinality(Latest(ns, k)) <= k
  <1> DEFINE Before(n) == {m \in ns : m.id > n.id}
             S == Latest(ns, k)
             place == [n \in S |-> Cardinality(Before(n)) + 1]
  <1>1. \A n \in ns : IsFiniteSet(Before(n)) /\ Cardinality(Before(n)) \in Nat
    BY FS_Subset, FS_CardinalityType DEF NoticeList
  <1>2. S \subseteq ns /\ \A n \in S : Cardinality(Before(n)) < k
    BY DEF Latest
  <1>3. place \in [S -> 1..k]
    BY <1>1, <1>2
  <1>4. ASSUME NEW n \in S, NEW m \in S, n.id > m.id
        PROVE  place[n] < place[m]
    <2>1. Before(n) \subseteq Before(m) /\ n \in Before(m) /\ n \notin Before(n)
      BY <1>2, <1>4 DEF NoticeList, Notice
    <2>2. n \in ns /\ m \in ns
      BY <1>2
    <2>3. IsFiniteSet(Before(m)) /\ Cardinality(Before(m)) \in Nat /\ Cardinality(Before(n)) \in Nat
      BY <1>1, <2>2
    <2>4. Before(n) # Before(m)
      BY <2>1
    <2> HIDE DEF Before
    <2>5. Cardinality(Before(n)) < Cardinality(Before(m))
      BY <2>1, <2>3, <2>4, FS_Subset
    <2> QED BY <2>3, <2>5
  <1>5. ASSUME NEW n \in S, NEW m \in S, place[n] = place[m]
        PROVE  n = m
    <2>1. n.id \in Int /\ m.id \in Int
      BY <1>2 DEF NoticeList, Notice
    <2>2. place[n] \in Int /\ place[m] \in Int
      BY <1>3
    <2> HIDE DEF place, S
    <2>3. ~(n.id > m.id) /\ ~(m.id > n.id)
      BY <1>4, <1>5, <2>2
    <2> USE DEF S
    <2> QED BY <1>2, <2>1, <2>3 DEF NoticeList
  <1>6. place \in Injection(S, 1..k)
    BY <1>3, <1>5 DEF Injection, IsInjective
  <1>7. IsFiniteSet(1..k) /\ Cardinality(1..k) = k
    BY FS_Interval
  <1> HIDE DEF place
  <1> QED BY <1>6, <1>7, FS_Injection

\* What is before one of the first k is one of them.
LEMMA LatestNoticesAreFirst ==
  ASSUME NEW ns, NEW b \in Nat, NoticeList(ns, b), NEW k \in Nat,
         NEW n \in Latest(ns, k), NEW m \in ns, m.id >= n.id
  PROVE  m \in Latest(ns, k)
  <1> DEFINE Before(x) == {y \in ns : y.id > x.id}
  <1>1. n \in ns /\ Cardinality(Before(n)) < k
    BY DEF Latest
  <1>2. Before(m) \subseteq Before(n)
    BY <1>1 DEF NoticeList, Notice
  <1>3. IsFiniteSet(Before(n)) /\ IsFiniteSet(Before(m))
    BY FS_Subset DEF NoticeList
  <1>4. Cardinality(Before(m)) <= Cardinality(Before(n))
        /\ Cardinality(Before(m)) \in Nat /\ Cardinality(Before(n)) \in Nat
    BY <1>2, <1>3, FS_Subset, FS_CardinalityType
  <1>5. Cardinality(Before(m)) < k
    BY <1>1, <1>4
  <1> QED BY <1>5 DEF Latest

\* The counter of a list stays where it is.
LEMMA CounterStays ==
  ASSUME NEW ns, NEW k \in Nat, NoticeList(ns, k)
  PROVE  Counted(ns, k) = k
  <1> DEFINE S == {k} \cup {n.id + 1 : n \in ns}
  <1>1. S \subseteq Int /\ k \in S /\ \A i \in S : k >= i
    BY DEF NoticeList, Notice
  <1>2. \A j \in S : (\A i \in S : j >= i) => j = k
    BY <1>1
  <1> HIDE DEF S
  <1>3. Max(S) = k
    BY <1>1, <1>2 DEF Max
  <1> QED BY <1>3 DEF Counted, S

-----------------------------------------------------------------------------
(***************************************************************************)
(* The invariant.                                                          *)
(***************************************************************************)
LEMMA NInvImplies == NInv => NoticesTypeOK /\ PagingMissesNothing
  <1> SUFFICES ASSUME NInv PROVE NoticesTypeOK /\ PagingMissesNothing
    OBVIOUS
  <1>1. NoticesTypeOK
    BY DEF NInv, NoticeList, Reading, NoticesTypeOK
  <1>2. PagingMissesNothing
    BY DEF NInv, NoticeList, Reading, PagingMissesNothing, Ids
  <1> QED BY <1>1, <1>2

\* The empty list.
LEMMA NInvFirst == NoticesInit => NInv
  <1> SUFFICES ASSUME NoticesInit PROVE NInv
    OBVIOUS
  <1>1. NoticeList(notices, nextId) /\ Cardinality(notices) <= MaxNotices
    BY FS_EmptySet, NoticesAssumption DEF NoticesInit, NoticeList
  <1>2. Reading
    BY NoticesAssumption DEF NoticesInit, Reading, Walks, NewWalk
  <1> QED BY <1>1, <1>2, NoticesAssumption DEF NoticesInit, NInv, Charges

\* Whatever becomes of the list, the reader does not have to know.
LEMMA ReaderUnmoved ==
  ASSUME NInv, reader' = reader, nextId' \in Nat, nextId' >= nextId,
         \A n \in notices' : n \in notices \/ n.id >= nextId
  PROVE  Reading'
  <1>1. \A n \in notices' : n.id \in reader.begun => n \in notices
    BY DEF NInv, Reading, Walks
  <1> QED BY <1>1 DEF NInv, Reading, Walks

LEMMA ToldKeeps ==
  ASSUME NInv, NEW c \in NoticeCams, NEW k \in Nat, Told(c, k), reader' = reader,
         camStatus' \in [NoticeCams -> [online : BOOLEAN, charge : Charges]]
  PROVE  NInv'
  <1> DEFINE new == {[id |-> i, cam |-> c] : i \in nextId .. nextId + k - 1}
             all == notices \cup new
  <1>1. nextId \in 1..LastNotice /\ nextId + k <= LastNotice /\ NoticeList(notices, nextId)
    BY DEF NInv, Told
  <1>2. IsFiniteSet(new)
    <2> DEFINE f == [i \in nextId .. nextId + k - 1 |-> [id |-> i, cam |-> c]]
    <2>1. f \in Surjection(nextId .. nextId + k - 1, new)
      BY DEF Surjection
    <2>2. IsFiniteSet(nextId .. nextId + k - 1)
      BY <1>1, FS_Interval
    <2> HIDE DEF f, new
    <2> QED BY <2>1, <2>2, FS_Surjection
  <1>3. NoticeList(all, nextId + k)
    <2>1. new \subseteq Notice
      <3>1. \A i \in nextId .. nextId + k - 1 : i \in 1..LastNotice
        BY <1>1, NoticesAssumption
      <3> QED BY <3>1 DEF Notice
    <2>2. IsFiniteSet(all)
      BY <1>1, <1>2, FS_Union DEF NoticeList
    <2>3. \A n \in new : n.id \in nextId .. nextId + k - 1 /\ n.cam = c
      OBVIOUS
    <2>4. \A n \in notices : n.id \in Int /\ n.id < nextId
      BY <1>1 DEF NoticeList, Notice
    <2>5. \A n, m \in new : n.id = m.id => n = m
      OBVIOUS
    <2>6. \A n \in new : n.id < nextId + k
      BY <1>1
    <2> HIDE DEF new
    <2> QED BY <1>1, <2>1, <2>2, <2>3, <2>4, <2>5, <2>6 DEF NoticeList
  <1>4. \A n \in new : n.id >= nextId
    BY <1>1
  <1> HIDE DEF new
  <1>5. notices' = Latest(all, MaxNotices) /\ nextId' = Counted(notices', nextId + k)
    BY DEF Told, new
  <1>6. notices' \subseteq all
    BY <1>5 DEF Latest
  <1>7. NoticeList(notices', nextId + k)
    BY <1>3, <1>6, PartIsList
  <1>8. nextId' = nextId + k
    BY <1>1, <1>5, <1>7, CounterStays
  <1>9. Cardinality(notices') <= MaxNotices
    BY <1>1, <1>3, <1>5, LatestNoticesAreFew, NoticesAssumption
  <1>10. Reading'
    BY <1>1, <1>4, <1>6, <1>8, ReaderUnmoved
  <1> QED BY <1>1, <1>7, <1>8, <1>9, <1>10 DEF NInv

LEMMA RemoveKeeps ==
  ASSUME NInv, NEW ids, RemoveNotices(ids)
  PROVE  NInv'
  <1>1. notices' \subseteq notices /\ nextId' = Counted(notices', nextId)
        /\ UNCHANGED <<camStatus, reader>>
    BY DEF RemoveNotices
  <1>2. NoticeList(notices', nextId) /\ Cardinality(notices') <= MaxNotices
    <2>1. NoticeList(notices', nextId) /\ Cardinality(notices') <= Cardinality(notices)
      BY <1>1, PartIsList DEF NInv
    <2>2. Cardinality(notices') \in Nat /\ Cardinality(notices) \in Nat
      BY <2>1, FS_CardinalityType DEF NInv, NoticeList
    <2> QED BY <2>1, <2>2, NoticesAssumption DEF NInv
  <1>3. nextId' = nextId /\ nextId \in Nat
    BY <1>1, <1>2, CounterStays DEF NInv
  <1>4. Reading'
    BY <1>1, <1>3, ReaderUnmoved
  <1> QED BY <1>1, <1>2, <1>3, <1>4 DEF NInv

\* A page continues where the last one ended, and leaves nothing out.
LEMMA PageKeeps ==
  ASSUME NInv, ReadPage
  PROVE  NInv'
  <1> DEFINE rest == {n \in Visible : reader.last = 0 \/ n.id < reader.last}
             page == PageAfter(reader.last)
  <1>1. UNCHANGED <<notices, nextId, camStatus>>
    BY DEF ReadPage
  <1>2. PICK final \in page :
          /\ \A i \in Ids(page) : final.id <= i
          /\ reader' = [last  |-> final.id,
                        begun |-> IF reader.last = 0 THEN Ids(Visible) ELSE reader.begun,
                        got   |-> reader.got \cup Ids(page),
                        twice |-> reader.got \cap Ids(page) # {}]
    BY DEF ReadPage
  <1>3. page \subseteq rest /\ rest \subseteq Visible /\ Visible \subseteq notices
    BY DEF PageAfter, Latest, Visible
  <1>4. /\ NoticeList(notices, nextId) /\ NoticeList(rest, nextId)
        /\ nextId \in Nat /\ notices \subseteq Notice
    <2>1. NoticeList(notices, nextId) /\ nextId \in Nat
      BY DEF NInv
    <2>2. rest \in SUBSET notices
      BY <1>3
    <2> HIDE DEF rest
    <2> QED BY <2>1, <2>2, PartIsList DEF NoticeList
  <1>5. ASSUME NEW n \in rest, n.id >= final.id
        PROVE  n \in page
    BY <1>4, <1>5, LatestNoticesAreFirst, NoticesAssumption DEF PageAfter
  <1>6. reader \in Walks /\ Reading /\ final.id \in 1..LastNotice
    BY <1>2, <1>3, <1>4 DEF NInv, Reading, Notice
  <1>7. /\ reader' \in Walks
        /\ Ids(page) \subseteq 1..LastNotice /\ Ids(Visible) \subseteq 1..LastNotice
    <2>1. Ids(page) \subseteq 1..LastNotice /\ Ids(Visible) \subseteq 1..LastNotice
      BY <1>3, <1>4 DEF Ids, Notice
    <2> QED BY <1>2, <1>6, <2>1 DEF Walks
  <1>8. ~reader'.twice
    <2>1. \A n \in page : n.id \notin reader.got
      BY <1>3, <1>4, <1>6 DEF Reading, Walks, Notice
    <2>2. reader.got \cap Ids(page) = {}
      BY <2>1 DEF Ids
    <2> QED BY <1>2, <2>2
  <1>9. \A i \in reader'.got \cup reader'.begun : i < nextId
    <2>1. \A i \in Ids(page) \cup Ids(Visible) : i < nextId
      BY <1>3, <1>4 DEF Ids, NoticeList
    <2> QED BY <1>2, <1>6, <2>1 DEF Reading
  <1>10. \A i \in reader'.got : reader'.last # 0 /\ i >= reader'.last
    <2>1. ASSUME NEW i \in reader.got PROVE i >= final.id
      BY <1>2, <1>3, <1>4, <1>6, <2>1 DEF Reading, Walks, Notice
    <2>2. ASSUME NEW i \in Ids(page) PROVE i >= final.id
      BY <1>2, <1>6, <1>7
    <2> QED BY <1>2, <1>6, <2>1, <2>2
  <1>11. ASSUME NEW n \in notices, n.id \in reader'.begun
         PROVE  n.cam \in SeenCams /\ (n.id >= final.id => n.id \in reader'.got)
    <2>1. n \in Visible
      <3>1. CASE reader.last = 0
        <4>1. PICK m \in Visible : m.id = n.id
          BY <1>2, <1>11, <3>1 DEF Ids
        <4> QED BY <1>3, <1>4, <4>1 DEF NoticeList
      <3>2. CASE reader.last # 0
        BY <1>2, <1>6, <1>11, <3>2 DEF Reading, Visible
      <3> QED BY <3>1, <3>2
    <2>2. CASE n \in rest
      BY <1>2, <1>5, <2>1, <2>2 DEF Ids, Visible
    <2>3. CASE n \notin rest
      <3>1. reader.last # 0 /\ n.id >= reader.last
        BY <1>4, <1>6, <2>1, <2>3 DEF Walks, Notice
      <3>2. n.id \in reader.got
        BY <1>2, <1>6, <1>11, <3>1 DEF Reading
      <3> QED BY <1>2, <2>1, <3>2 DEF Visible
    <2> QED BY <2>2, <2>3
  <1>12. Reading'
    BY <1>1, <1>2, <1>6, <1>7, <1>8, <1>9, <1>10, <1>11 DEF Reading
  <1> QED BY <1>1, <1>12 DEF NInv

\* Every step keeps the invariant.
LEMMA NInvStep == NInv /\ [NoticesNext]_noticeVars => NInv'
  <1> SUFFICES ASSUME NInv, [NoticesNext]_noticeVars PROVE NInv'
    OBVIOUS
  <1>1. ASSUME NEW c \in NoticeCams, AddNotice(c) PROVE NInv'
    BY <1>1, ToldKeeps DEF AddNotice, NInv
  <1>2. ASSUME NEW c \in NoticeCams, NEW online \in BOOLEAN, NEW charge \in Charges,
               ReportStatus(c, online, charge)
        PROVE  NInv'
    <2>1. PICK k \in Nat : Told(c, k)
      BY <1>2 DEF ReportStatus
    <2>2. /\ camStatus' \in [NoticeCams -> [online : BOOLEAN, charge : Charges]]
          /\ reader' = reader
      BY <1>2 DEF ReportStatus, NInv
    <2> QED BY <2>1, <2>2, ToldKeeps
  <1>3. ASSUME NEW ids \in SUBSET Ids(notices), RemoveNotices(ids) PROVE NInv'
    BY <1>3, RemoveKeeps
  <1>4. CASE ReadPage
    BY <1>4, PageKeeps
  <1>5. CASE StartAgain
    <2>1. Reading'
      BY <1>5, NoticesAssumption DEF StartAgain, Reading, Walks, NewWalk
    <2> QED BY <1>5, <2>1 DEF StartAgain, NInv
  <1>6. CASE UNCHANGED noticeVars
    BY <1>6 DEF noticeVars, NInv, Reading
  <1> QED BY <1>1, <1>2, <1>3, <1>4, <1>5, <1>6 DEF NoticesNext

\* The invariant holds.
LEMMA NInvHolds == NoticesSpec => []NInv
  BY NInvFirst, NInvStep, PTL DEF NoticesSpec

-----------------------------------------------------------------------------
\* The list keeps to its cap, and the counter and the walks to their types.
THEOREM NoticesAreTyped == NoticesSpec => []NoticesTypeOK
  BY NInvImplies, NInvHolds, PTL

\* An app that pages through the notices is given each that stays, once.
THEOREM PagesMissNothing == NoticesSpec => []PagingMissesNothing
  BY NInvImplies, NInvHolds, PTL

-----------------------------------------------------------------------------
(***************************************************************************)
(* Push targets.                                                           *)
(***************************************************************************)
\* A list of tokens that has none twice.
TokenList(s) ==
  /\ s \in Seq(PushTokens)
  /\ IsInjective(s)

\* What is behind u in a list.
Behind(s, u) == {v \in ToSet(s) : \E i, j \in DOMAIN s : i < j /\ s[i] = u /\ s[j] = v}

\* The list l is s without its first d elements.
IsCut(l, s, d) ==
  /\ d \in 0..Len(s) /\ Len(l) = Len(s) - d
  /\ l \in Seq(PushTokens)
  /\ \A j \in 1..Len(s) - d : l[j] = s[j + d]

\* The elements of a list of tokens.
LEMMA ListIs ==
  ASSUME NEW s, TokenList(s)
  PROVE  /\ Len(s) \in Nat /\ DOMAIN s = 1..Len(s)
         /\ \A i \in 1..Len(s) : s[i] \in PushTokens
         /\ \A i, j \in 1..Len(s) : s[i] = s[j] => i = j
  BY DEF TokenList, IsInjective

LEMMA LastOfIsCut ==
  ASSUME NEW s, TokenList(s), NEW k \in Nat
  PROVE  IsCut(LastOf(s, k), s, IF Len(s) > k THEN Len(s) - k ELSE 0)
  <1> DEFINE m == IF Len(s) > k THEN Len(s) - k + 1 ELSE 1
  <1>1. /\ Len(s) \in Nat /\ m \in Int /\ m >= 1
        /\ \A i \in m..Len(s) : s[i] \in PushTokens
    BY ListIs
  <1>2. LastOf(s, k) = SubSeq(s, m, Len(s))
    BY DEF LastOf
  <1> HIDE DEF m
  <1>3. /\ SubSeq(s, m, Len(s)) \in Seq(PushTokens)
        /\ Len(SubSeq(s, m, Len(s))) = IF m <= Len(s) THEN Len(s) - m + 1 ELSE 0
        /\ \A i \in 1..Len(s) - m + 1 : SubSeq(s, m, Len(s))[i] = s[m + i - 1]
    BY <1>1, SubSeqProperties
  <1> DEFINE d == IF Len(s) > k THEN Len(s) - k ELSE 0
  <1>4. m = d + 1 /\ d \in 0..Len(s)
    BY <1>1 DEF m
  <1> HIDE DEF d
  <1>5. Len(LastOf(s, k)) = Len(s) - d /\ LastOf(s, k) \in Seq(PushTokens)
    BY <1>1, <1>2, <1>3, <1>4
  <1>6. \A i \in 1..Len(s) - d : LastOf(s, k)[i] = s[i + d]
    <2> TAKE i \in 1..Len(s) - d
    <2>1. i \in 1..Len(s) - m + 1 /\ m + i - 1 = i + d
      BY <1>1, <1>4
    <2> QED BY <1>2, <1>3, <2>1
  <1>7. IsCut(LastOf(s, k), s, d)
    BY <1>4, <1>5, <1>6 DEF IsCut
  <1> QED BY <1>7 DEF d

\* A cut keeps the order, and what has fewer behind it than are kept.
LEMMA CutKeeps ==
  ASSUME NEW s, TokenList(s), NEW l, NEW d, IsCut(l, s, d)
  PROVE  /\ TokenList(l)
         /\ ToSet(l) \subseteq ToSet(s)
         /\ \A u \in ToSet(l) : Behind(l, u) \subseteq Behind(s, u)
  <1>1. /\ Len(s) \in Nat /\ DOMAIN s = 1..Len(s) /\ d \in Nat
        /\ \A i, j \in 1..Len(s) : s[i] = s[j] => i = j
    BY ListIs DEF IsCut
  <1>2. /\ DOMAIN l = 1..Len(s) - d
        /\ \A j \in 1..Len(s) - d : l[j] = s[j + d] /\ j + d \in 1..Len(s)
    BY <1>1 DEF IsCut
  <1>3. TokenList(l)
    BY <1>1, <1>2 DEF TokenList, IsInjective, IsCut
  <1>4. ASSUME NEW u \in ToSet(l) PROVE u \in ToSet(s)
    <2>1. PICK j \in DOMAIN l : u = l[j]
      BY DEF ToSet
    <2>2. j + d \in DOMAIN s /\ s[j + d] = u
      BY <1>1, <1>2, <2>1
    <2> QED BY <2>2 DEF ToSet
  <1>5. ASSUME NEW u, NEW v \in Behind(l, u) PROVE v \in Behind(s, u)
    <2>1. PICK i, j \in DOMAIN l : i < j /\ l[i] = u /\ l[j] = v
      BY <1>5 DEF Behind
    <2>2. i + d < j + d /\ i + d \in DOMAIN s /\ j + d \in DOMAIN s
      BY <1>1, <1>2, <2>1
    <2>3. s[i + d] = u /\ s[j + d] = v
      BY <1>2, <2>1
    <2> QED BY <1>4, <1>5, <2>2, <2>3 DEF Behind
  <1> QED BY <1>3, <1>4, <1>5

\* A list has as many tokens as elements.
LEMMA FiniteList ==
  ASSUME NEW s, TokenList(s)
  PROVE  IsFiniteSet(ToSet(s)) /\ Cardinality(ToSet(s)) = Len(s)
  <1>1. Len(s) \in Nat /\ DOMAIN s = 1..Len(s) /\ s \in [1..Len(s) -> ToSet(s)]
    BY ListIs DEF ToSet, TokenList
  <1>2. s \in Bijection(1..Len(s), ToSet(s))
    BY <1>1, ListIs DEF ToSet, Bijection, Injection, Surjection, IsInjective
  <1>3. IsFiniteSet(1..Len(s)) /\ Cardinality(1..Len(s)) = Len(s)
    BY <1>1, FS_Interval
  <1>4. ExistsBijection(1..Len(s), ToSet(s))
    BY <1>2 DEF ExistsBijection
  <1> QED BY <1>3, <1>4, FS_Bijection

\* What a cut to the last k drops has k behind it at least.
LEMMA CutDropsOldest ==
  ASSUME NEW s, TokenList(s), NEW k \in Nat, NEW u \in ToSet(s),
         Cardinality(Behind(s, u)) < k
  PROVE  u \in ToSet(LastOf(s, k))
  <1> DEFINE l == LastOf(s, k)
             d == IF Len(s) > k THEN Len(s) - k ELSE 0
  <1>1. /\ Len(s) \in Nat /\ DOMAIN s = 1..Len(s)
        /\ \A i, j \in 1..Len(s) : s[i] = s[j] => i = j
    BY ListIs
  <1>2. PICK p \in 1..Len(s) : s[p] = u
    BY <1>1 DEF ToSet
  <1>3. d \in 0..Len(s)
    BY <1>1
  <1>4. IsCut(l, s, d)
    BY LastOfIsCut
  <1> HIDE DEF l
  <1>5. CASE p > d
    <2>1. p - d \in 1..Len(s) - d /\ (p - d) + d = p
      BY <1>1, <1>3, <1>5
    <2>2. l[p - d] = u /\ DOMAIN l = 1..Len(s) - d
      BY <1>1, <1>2, <1>3, <1>4, <2>1 DEF IsCut
    <2> QED BY <2>1, <2>2 DEF ToSet, l
  <1>6. CASE p <= d
    <2> DEFINE behind == [i \in p + 1..Len(s) |-> s[i]]
    <2>1. \A i \in p + 1..Len(s) : s[i] \in Behind(s, u)
      <3> TAKE i \in p + 1..Len(s)
      <3>1. i \in DOMAIN s /\ p \in DOMAIN s /\ p < i
        BY <1>1
      <3> QED BY <1>2, <3>1 DEF Behind, ToSet
    <2>2. behind \in Injection(p + 1..Len(s), Behind(s, u))
      BY <1>1, <2>1 DEF Injection, IsInjective
    <2>3. Behind(s, u) \in SUBSET ToSet(s)
      BY DEF Behind
    <2>4. IsFiniteSet(Behind(s, u))
      BY <2>3, FiniteList, FS_Subset
    <2>5. /\ Cardinality(p + 1..Len(s)) <= Cardinality(Behind(s, u))
          /\ IsFiniteSet(p + 1..Len(s))
      BY <2>2, <2>4, FS_Injection
    <2>6. Cardinality(p + 1..Len(s)) = IF p + 1 > Len(s) THEN 0 ELSE Len(s) - (p + 1) + 1
      <3>1. p + 1 \in Int /\ Len(s) \in Int
        BY <1>1
      <3> QED BY <3>1, FS_Interval
    <2>7. Cardinality(Behind(s, u)) \in Nat
      BY <2>4, FS_CardinalityType
    <2>8. Len(s) - p <= Cardinality(Behind(s, u))
      BY <1>1, <2>5, <2>6, <2>7
    <2>9. CASE Len(s) > k
      BY <1>1, <1>6, <2>7, <2>8, <2>9
    <2>10. CASE ~ (Len(s) > k)
      BY <1>1, <1>6, <2>10
    <2> QED BY <2>9, <2>10
  <1> QED BY <1>1, <1>3, <1>5, <1>6

\* A report puts its token last and leaves the order of the others.
LEMMA RenewedIs ==
  ASSUME NEW s, TokenList(s), NEW t \in PushTokens
  PROVE  /\ TokenList(Renewed(s, t))
         /\ ToSet(Renewed(s, t)) = ToSet(s) \cup {t}
         /\ Behind(Renewed(s, t), t) = {}
         /\ \A u \in ToSet(s) \ {t} : Behind(Renewed(s, t), u) \subseteq Behind(s, u) \cup {t}
  <1> DEFINE r == Renewed(s, t)
             n == Len(s)
  <1>1. /\ n \in Nat /\ DOMAIN s = 1..n /\ s \in Seq(PushTokens) /\ Len(s) = n
        /\ \A i \in 1..n : s[i] \in PushTokens
        /\ \A i, j \in 1..n : s[i] = s[j] => i = j
    BY ListIs DEF TokenList
  <1> HIDE DEF n
  <1>2. CASE t \notin ToSet(s)
    <2>1. r = Append(s, t)
      BY <1>2 DEF Renewed
    <2>2. /\ r \in Seq(PushTokens) /\ Len(r) = n + 1 /\ DOMAIN r = 1..n + 1
          /\ \A i \in 1..n : r[i] = s[i]
          /\ r[n + 1] = t
      BY <1>1, <2>1
    <2>3. \A i \in 1..n : s[i] # t
      BY <1>1, <1>2 DEF ToSet
    <2> QED BY <1>1, <2>2, <2>3 DEF TokenList, IsInjective, ToSet, Behind
  <1>3. CASE t \in ToSet(s)
    <2>1. PICK p \in 1..n : s[p] = t
      BY <1>1, <1>3 DEF ToSet
    <2>2. (CHOOSE i \in DOMAIN s : s[i] = t) = p
      BY <1>1, <2>1
    <2>3. r = Append(RemoveAt(s, p), t)
      BY <1>3, <2>2 DEF Renewed
    <2>4. /\ SubSeq(s, 1, p - 1) \in Seq(PushTokens) /\ Len(SubSeq(s, 1, p - 1)) = p - 1
          /\ \A i \in 1..p - 1 : SubSeq(s, 1, p - 1)[i] = s[i]
      BY <1>1, <2>1, SubSeqProperties
    <2>5. /\ SubSeq(s, p + 1, n) \in Seq(PushTokens) /\ Len(SubSeq(s, p + 1, n)) = n - p
          /\ \A i \in 1..n - p : SubSeq(s, p + 1, n)[i] = s[p + i]
      <3>1. \A i \in p + 1..n : s[i] \in PushTokens
        BY <1>1, <2>1
      <3>2. /\ SubSeq(s, p + 1, n) \in Seq(PushTokens)
            /\ Len(SubSeq(s, p + 1, n)) = IF p + 1 <= n THEN n - (p + 1) + 1 ELSE 0
            /\ \A i \in 1..n - (p + 1) + 1 : SubSeq(s, p + 1, n)[i] = s[p + 1 + i - 1]
        BY <1>1, <2>1, <3>1, SubSeqProperties
      <3>3. SubSeq(s, p + 1, n) \in Seq(PushTokens) /\ Len(SubSeq(s, p + 1, n)) = n - p
        <4>1. n - p = IF p + 1 <= n THEN n - (p + 1) + 1 ELSE 0
          BY <1>1, <2>1
        <4> QED BY <3>2, <4>1
      <3>4. ASSUME NEW i \in 1..n - p PROVE SubSeq(s, p + 1, n)[i] = s[p + i]
        <4>1. i \in 1..n - (p + 1) + 1 /\ p + 1 + i - 1 = p + i
          BY <1>1, <2>1
        <4> QED BY <3>2, <4>1
      <3> QED BY <3>3, <3>4
    <2>6. /\ RemoveAt(s, p) \in Seq(PushTokens) /\ Len(RemoveAt(s, p)) = n - 1
          /\ \A i \in 1..n - 1 : RemoveAt(s, p)[i] = IF i < p THEN s[i] ELSE s[i + 1]
      <3> DEFINE front == SubSeq(s, 1, p - 1)
                 back == SubSeq(s, p + 1, n)
      <3>1. RemoveAt(s, p) = front \o back
        BY <1>1 DEF RemoveAt
      <3> HIDE DEF front, back
      <3>2. /\ front \o back \in Seq(PushTokens)
            /\ Len(front \o back) = Len(front) + Len(back)
            /\ \A i \in 1..Len(front) + Len(back) :
                 (front \o back)[i] = IF i <= Len(front) THEN front[i] ELSE back[i - Len(front)]
        BY <2>4, <2>5, ConcatProperties DEF front, back
      <3>3. /\ Len(front) = p - 1 /\ Len(back) = n - p
            /\ \A i \in 1..p - 1 : front[i] = s[i]
            /\ \A i \in 1..n - p : back[i] = s[p + i]
        BY <2>4, <2>5 DEF front, back
      <3>4. RemoveAt(s, p) \in Seq(PushTokens) /\ Len(RemoveAt(s, p)) = n - 1
        BY <1>1, <2>1, <3>1, <3>2, <3>3
      <3>5. ASSUME NEW i \in 1..n - 1
            PROVE  RemoveAt(s, p)[i] = IF i < p THEN s[i] ELSE s[i + 1]
        <4>1. i \in 1..Len(front) + Len(back)
          BY <1>1, <2>1, <3>3
        <4>2. RemoveAt(s, p)[i] = IF i <= p - 1 THEN front[i] ELSE back[i - (p - 1)]
          BY <3>1, <3>2, <3>3, <4>1
        <4>3. CASE i < p
          BY <1>1, <2>1, <3>3, <4>2, <4>3
        <4>4. CASE ~ (i < p)
          <5>1. i - (p - 1) \in 1..n - p /\ p + (i - (p - 1)) = i + 1 /\ ~ (i <= p - 1)
            BY <1>1, <2>1, <4>4
          <5> QED BY <3>3, <4>2, <4>4, <5>1
        <4> QED BY <4>3, <4>4
      <3> QED BY <3>4, <3>5
    <2>7. /\ r \in Seq(PushTokens) /\ Len(r) = n /\ DOMAIN r = 1..n
          /\ \A i \in 1..n - 1 : r[i] = IF i < p THEN s[i] ELSE s[i + 1]
          /\ r[n] = t
      <3> DEFINE w == RemoveAt(s, p)
      <3>1. w \in Seq(PushTokens) /\ Len(w) = n - 1
        BY <2>6
      <3> HIDE DEF w
      <3>2. r = Append(w, t)
        BY <2>3 DEF w
      <3>3. /\ Append(w, t) \in Seq(PushTokens) /\ Len(Append(w, t)) = Len(w) + 1
            /\ \A i \in 1..Len(w) : Append(w, t)[i] = w[i]
            /\ Append(w, t)[Len(w) + 1] = t
        BY <3>1, AppendProperties
      <3>4. r \in Seq(PushTokens) /\ Len(r) = n /\ r[n] = t
        BY <1>1, <3>1, <3>2, <3>3
      <3>5. \A i \in 1..n - 1 : r[i] = w[i]
        BY <3>1, <3>2, <3>3
      <3> QED BY <2>6, <3>4, <3>5 DEF w
    <2> HIDE DEF r
    <2> DEFINE was(i) == IF i < p THEN i ELSE i + 1
    <2>8. \A i \in 1..n - 1 : was(i) \in 1..n /\ was(i) # p /\ r[i] = s[was(i)]
      BY <1>1, <2>1, <2>7
    <2>9. \A i, j \in 1..n - 1 : (was(i) = was(j) => i = j) /\ (i < j => was(i) < was(j))
      BY <1>1, <2>1
    <2>10. \A i \in 1..n : i # p => \E j \in 1..n - 1 : was(j) = i
      <3> TAKE i \in 1..n
      <3>1. CASE i < p
        BY <1>1, <2>1, <3>1
      <3>2. CASE i > p
        <4>1. i - 1 \in 1..n - 1 /\ was(i - 1) = i
          BY <1>1, <2>1, <3>2
        <4> QED BY <4>1
      <3> QED BY <1>1, <2>1, <3>1, <3>2
    <2> HIDE DEF was
    <2>11. \A i \in 1..n - 1 : r[i] # t
      BY <1>1, <2>1, <2>8
    <2>12. \A i \in 1..n : i \in 1..n - 1 \/ i = n
      BY <1>1
    <2>13. IsInjective(r)
      BY <1>1, <2>7, <2>8, <2>9, <2>11, <2>12 DEF IsInjective
    <2>14. ToSet(r) = ToSet(s)
      <3>1. ToSet(r) \subseteq ToSet(s)
        BY <1>1, <1>3, <2>7, <2>8, <2>12 DEF ToSet
      <3>2. ASSUME NEW i \in 1..n PROVE s[i] \in ToSet(r)
        <4>1. CASE i = p
          BY <1>1, <2>1, <2>7, <4>1 DEF ToSet
        <4>2. CASE i # p
          <5>1. PICK j \in 1..n - 1 : was(j) = i
            BY <2>10, <4>2
          <5>2. j \in DOMAIN r /\ r[j] = s[i]
            BY <1>1, <2>7, <2>8, <5>1
          <5> QED BY <5>2 DEF ToSet
        <4> QED BY <4>1, <4>2
      <3> QED BY <1>1, <3>1, <3>2 DEF ToSet
    <2>15. Behind(r, t) = {}
      <3> SUFFICES ASSUME NEW i \in DOMAIN r, NEW j \in DOMAIN r, i < j, r[i] = t PROVE FALSE
        BY DEF Behind
      <3>1. i = n
        BY <2>7, <2>11, <2>12
      <3> QED BY <1>1, <2>7, <3>1
    <2>16. ASSUME NEW u \in ToSet(s) \ {t}, NEW v \in Behind(r, u) PROVE v \in Behind(s, u) \cup {t}
      <3>1. PICK i, j \in DOMAIN r : i < j /\ r[i] = u /\ r[j] = v
        BY <2>16 DEF Behind
      <3>2. i \in 1..n - 1
        BY <2>7, <2>12, <2>16, <3>1
      <3>3. CASE j = n
        BY <2>7, <3>1, <3>3
      <3>4. CASE j \in 1..n - 1
        <4>1. /\ was(i) \in DOMAIN s /\ was(j) \in DOMAIN s /\ was(i) < was(j)
              /\ s[was(i)] = u /\ s[was(j)] = v
          BY <1>1, <2>8, <2>9, <3>1, <3>2, <3>4
        <4> QED BY <4>1 DEF Behind, ToSet
      <3> QED BY <2>7, <2>12, <3>3, <3>4
    <2> QED BY <1>3, <2>7, <2>13, <2>14, <2>15, <2>16 DEF TokenList, r
  <1> QED BY <1>2, <1>3

\* One list behind another.
LEMMA Concatenated ==
  ASSUME NEW S, NEW a \in Seq(S), NEW b \in Seq(S), IsInjective(a), IsInjective(b),
         ToSet(a) \cap ToSet(b) = {}
  PROVE  a \o b \in Seq(S) /\ IsInjective(a \o b) /\ ToSet(a \o b) = ToSet(a) \cup ToSet(b)
  <1> DEFINE c == a \o b
             m == Len(a)
             n == Len(b)
  <1>1. /\ m \in Nat /\ n \in Nat /\ DOMAIN a = 1..m /\ DOMAIN b = 1..n
        /\ c \in Seq(S) /\ DOMAIN c = 1..m + n
        /\ \A i \in 1..m + n : c[i] = IF i <= m THEN a[i] ELSE b[i - m]
    <2>1. /\ c \in Seq(S) /\ Len(c) = m + n
          /\ \A i \in 1..m + n : c[i] = IF i <= m THEN a[i] ELSE b[i - m]
      BY ConcatProperties
    <2>2. m \in Nat /\ n \in Nat /\ DOMAIN a = 1..m /\ DOMAIN b = 1..n
      OBVIOUS
    <2>3. DOMAIN c = 1..Len(c)
      BY <2>1
    <2> QED BY <2>1, <2>2, <2>3
  <1> HIDE DEF c, m, n
  <1>2. \A i \in 1..m + n : i \in 1..m \/ (i - m \in 1..n /\ ~ (i <= m))
    BY <1>1
  <1>3. \A i \in 1..n : i + m \in 1..m + n /\ ~ (i + m <= m) /\ (i + m) - m = i
    BY <1>1
  <1>4. \A i \in 1..m : i \in 1..m + n /\ i <= m
    BY <1>1
  <1>5. /\ \A i \in 1..m : a[i] \in ToSet(a)
        /\ \A i \in 1..n : b[i] \in ToSet(b)
    BY <1>1 DEF ToSet
  <1>6. IsInjective(c)
    <2> SUFFICES ASSUME NEW i \in 1..m + n, NEW j \in 1..m + n, c[i] = c[j] PROVE i = j
      BY <1>1 DEF IsInjective
    <2>1. CASE i \in 1..m /\ j \in 1..m
      BY <1>1, <1>4, <2>1 DEF IsInjective
    <2>2. CASE i - m \in 1..n /\ ~ (i <= m) /\ j - m \in 1..n /\ ~ (j <= m)
      <3>1. b[i - m] = b[j - m]
        BY <1>1, <2>2
      <3>2. i - m = j - m
        BY <1>1, <2>2, <3>1 DEF IsInjective
      <3> QED BY <1>1, <3>2
    <2>3. CASE i \in 1..m /\ j - m \in 1..n /\ ~ (j <= m)
      BY <1>1, <1>4, <1>5, <2>3
    <2>4. CASE i - m \in 1..n /\ ~ (i <= m) /\ j \in 1..m
      BY <1>1, <1>4, <1>5, <2>4
    <2> QED BY <1>2, <2>1, <2>2, <2>3, <2>4
  <1>7. ToSet(c) = ToSet(a) \cup ToSet(b)
    <2>1. ToSet(c) \subseteq ToSet(a) \cup ToSet(b)
      <3> SUFFICES ASSUME NEW i \in 1..m + n PROVE c[i] \in ToSet(a) \cup ToSet(b)
        BY <1>1 DEF ToSet
      <3>1. CASE i \in 1..m
        <4>1. c[i] = a[i]
          BY <1>1, <1>4, <3>1
        <4> QED BY <1>5, <3>1, <4>1
      <3>2. CASE i - m \in 1..n /\ ~ (i <= m)
        <4>1. c[i] = b[i - m]
          BY <1>1, <3>2
        <4> QED BY <1>5, <3>2, <4>1
      <3> QED BY <1>2, <3>1, <3>2
    <2>2. ASSUME NEW x \in ToSet(a) PROVE x \in ToSet(c)
      <3>1. PICK i \in 1..m : a[i] = x
        BY <1>1, <2>2 DEF ToSet
      <3>2. i \in DOMAIN c /\ c[i] = x
        BY <1>1, <1>4, <3>1
      <3> QED BY <3>2 DEF ToSet
    <2>3. ASSUME NEW x \in ToSet(b) PROVE x \in ToSet(c)
      <3>1. PICK i \in 1..n : b[i] = x
        BY <1>1, <2>3 DEF ToSet
      <3>2. i + m \in DOMAIN c /\ c[i + m] = x
        BY <1>1, <1>3, <3>1
      <3> QED BY <3>2 DEF ToSet
    <2> QED BY <2>1, <2>2, <2>3
  <1> QED BY <1>1, <1>6, <1>7 DEF c

\* The last of a list first.
LEMMA Reversed ==
  ASSUME NEW s, TokenList(s)
  PROVE  TokenList(Reverse(s)) /\ ToSet(Reverse(s)) = ToSet(s)
  <1> DEFINE n == Len(s)
             r == Reverse(s)
  <1>1. /\ n \in Nat /\ DOMAIN s = 1..n
        /\ \A i \in 1..n : s[i] \in PushTokens
        /\ \A i, j \in 1..n : s[i] = s[j] => i = j
    BY ListIs
  <1>2. r = [i \in 1..n |-> s[(n - i) + 1]]
    BY DEF Reverse
  <1> HIDE DEF n, r
  <1>3. \A i \in 1..n : (n - i) + 1 \in 1..n /\ (n - ((n - i) + 1)) + 1 = i
    BY <1>1
  <1>4. DOMAIN r = 1..n /\ \A i \in 1..n : r[i] = s[(n - i) + 1]
    BY <1>2
  <1>5. r \in Seq(PushTokens)
    BY <1>1, <1>2, <1>3
  <1>6. IsInjective(r)
    <2> SUFFICES ASSUME NEW i \in 1..n, NEW j \in 1..n, r[i] = r[j] PROVE i = j
      BY <1>4 DEF IsInjective
    <2>1. (n - i) + 1 = (n - j) + 1
      BY <1>1, <1>3, <1>4
    <2> QED BY <1>1, <2>1
  <1>7. ToSet(r) = ToSet(s)
    <2>1. ToSet(r) \subseteq ToSet(s)
      BY <1>1, <1>3, <1>4 DEF ToSet
    <2>2. ASSUME NEW i \in 1..n PROVE s[i] \in ToSet(r)
      BY <1>3, <1>4 DEF ToSet
    <2> QED BY <1>1, <2>1, <2>2 DEF ToSet
  <1> QED BY <1>5, <1>6, <1>7 DEF TokenList, r

-----------------------------------------------------------------------------
\* What is behind a kept token and is not kept itself was kept before it, each in
\* a place of its own: with a token in place p there are MaxTokens - p of them.
Recent(rs, ts) ==
  \A p \in DOMAIN ts : Cardinality(Behind(rs, ts[p]) \ ToSet(ts)) + p <= MaxTokens

KeptTokens(rs, ts) ==
  /\ TokenList(rs) /\ TokenList(ts) /\ Len(ts) <= MaxTokens
  /\ ToSet(ts) \subseteq ToSet(rs)
  /\ Recent(rs, ts)

\* What is behind a token is finite.
LEMMA FiniteBehind ==
  ASSUME NEW s, TokenList(s), NEW u, NEW part
  PROVE  /\ IsFiniteSet(Behind(s, u)) /\ Cardinality(Behind(s, u)) \in Nat
         /\ IsFiniteSet(Behind(s, u) \ part) /\ Cardinality(Behind(s, u) \ part) \in Nat
  <1>1. Behind(s, u) \in SUBSET ToSet(s)
    BY DEF Behind
  <1>2. IsFiniteSet(Behind(s, u))
    BY <1>1, FiniteList, FS_Subset
  <1>3. Behind(s, u) \ part \in SUBSET Behind(s, u)
    OBVIOUS
  <1>4. IsFiniteSet(Behind(s, u) \ part)
    BY <1>2, <1>3, FS_Subset
  <1> QED BY <1>2, <1>4, FS_CardinalityType

\* A part has no more elements.
LEMMA Smaller ==
  ASSUME NEW S, IsFiniteSet(S), NEW T, T \subseteq S
  PROVE  /\ IsFiniteSet(T) /\ Cardinality(T) \in Nat /\ Cardinality(S) \in Nat
         /\ Cardinality(T) <= Cardinality(S)
  <1>1. IsFiniteSet(T) /\ Cardinality(T) <= Cardinality(S)
    BY FS_Subset
  <1> QED BY <1>1, FS_CardinalityType

\* A cut to the last MaxRegistrations leaves every kept token its registration.
LEMMA CutKeepsKept ==
  ASSUME NEW rs, NEW ts, KeptTokens(rs, ts)
  PROVE  /\ KeptTokens(LastOf(rs, MaxRegistrations), ts)
         /\ Len(LastOf(rs, MaxRegistrations)) <= MaxRegistrations
  <1> DEFINE l == LastOf(rs, MaxRegistrations)
             d == IF Len(rs) > MaxRegistrations THEN Len(rs) - MaxRegistrations ELSE 0
  <1>1. /\ TokenList(rs) /\ TokenList(ts) /\ Len(ts) <= MaxTokens
        /\ ToSet(ts) \subseteq ToSet(rs) /\ Recent(rs, ts)
    BY DEF KeptTokens
  <1>2. /\ MaxTokens \in Nat /\ MaxRegistrations \in Nat
        /\ MaxRegistrations >= 2 * MaxTokens - 1
    BY PushAssumption
  <1>3. IsCut(l, rs, d)
    BY <1>1, <1>2, LastOfIsCut
  <1>4. Len(l) <= MaxRegistrations
    <2>1. Len(rs) \in Nat
      BY <1>1, ListIs
    <2> QED BY <1>2, <1>3, <2>1 DEF IsCut
  <1>5. /\ TokenList(l)
        /\ \A u \in ToSet(l) : Behind(l, u) \subseteq Behind(rs, u)
    BY <1>1, <1>3, CutKeeps
  <1> HIDE DEF l, d
  <1>6. ASSUME NEW p \in DOMAIN ts
        PROVE  /\ ts[p] \in ToSet(l)
               /\ Cardinality(Behind(l, ts[p]) \ ToSet(ts)) + p <= MaxTokens
    <2> DEFINE u == ts[p]
               lost == Behind(rs, u) \ ToSet(ts)
               held == ToSet(ts) \ {u}
    <2>1. p \in Nat /\ p >= 1 /\ u \in ToSet(ts)
      BY <1>1, ListIs DEF ToSet
    <2>2. Cardinality(lost) + p <= MaxTokens
      BY <1>1 DEF Recent
    <2>3. IsFiniteSet(lost) /\ Cardinality(lost) \in Nat
      BY <1>1, FiniteBehind
    <2>4. IsFiniteSet(held) /\ Cardinality(held) = Len(ts) - 1 /\ Len(ts) \in Nat
      BY <1>1, <2>1, FiniteList, ListIs, FS_RemoveElement
    <2>5. Cardinality(held) \in Nat
      BY <2>4, FS_CardinalityType
    <2>6. u \notin Behind(rs, u)
      BY <1>1, ListIs DEF Behind
    <2>7. Behind(rs, u) \subseteq lost \cup held
      BY <2>6
    <2> HIDE DEF lost, held
    <2>8. /\ IsFiniteSet(lost \cup held)
          /\ Cardinality(lost \cup held)
                 = Cardinality(lost) + Cardinality(held) - Cardinality(lost \cap held)
      BY <2>3, <2>4, FS_Union
    <2>9. Cardinality(lost \cap held) \in Nat
      <3>1. lost \cap held \subseteq held
        OBVIOUS
      <3> QED BY <2>4, <3>1, Smaller
    <2>10. /\ Cardinality(Behind(rs, u)) \in Nat
           /\ Cardinality(Behind(rs, u)) <= Cardinality(lost \cup held)
      BY <2>7, <2>8, Smaller
    <2>11. Cardinality(Behind(rs, u)) < MaxRegistrations
      BY <1>1, <1>2, <2>1, <2>2, <2>3, <2>4, <2>5, <2>8, <2>9, <2>10
    <2>12. u \in ToSet(l)
      BY <1>1, <1>2, <2>1, <2>11, CutDropsOldest DEF l
    <2>13. Behind(l, u) \ ToSet(ts) \subseteq lost
      BY <1>5, <2>12 DEF lost
    <2>14. /\ Cardinality(Behind(l, u) \ ToSet(ts)) \in Nat
           /\ Cardinality(Behind(l, u) \ ToSet(ts)) <= Cardinality(lost)
      BY <2>3, <2>13, Smaller
    <2> QED BY <1>2, <2>1, <2>2, <2>3, <2>12, <2>14
  <1>7. ToSet(ts) \subseteq ToSet(l)
    BY <1>6 DEF ToSet
  <1> QED BY <1>1, <1>4, <1>5, <1>6, <1>7 DEF KeptTokens, Recent, l

\* A report of a token that is kept.
LEMMA RenewedKept ==
  ASSUME NEW rs, NEW ts, KeptTokens(rs, ts), NEW t \in ToSet(ts)
  PROVE  KeptTokens(Renewed(rs, t), ts)
  <1> DEFINE r == Renewed(rs, t)
  <1>1. /\ TokenList(rs) /\ TokenList(ts) /\ Len(ts) <= MaxTokens
        /\ ToSet(ts) \subseteq ToSet(rs) /\ Recent(rs, ts) /\ MaxTokens \in Nat
    BY PushAssumption DEF KeptTokens
  <1>2. t \in PushTokens
    BY <1>1, ListIs DEF ToSet
  <1>3. /\ TokenList(r) /\ ToSet(r) = ToSet(rs) \cup {t} /\ Behind(r, t) = {}
        /\ \A u \in ToSet(rs) \ {t} : Behind(r, u) \subseteq Behind(rs, u) \cup {t}
    BY <1>1, <1>2, RenewedIs
  <1> HIDE DEF r
  <1>4. ASSUME NEW p \in DOMAIN ts
        PROVE  Cardinality(Behind(r, ts[p]) \ ToSet(ts)) + p <= MaxTokens
    <2>1. p \in Nat /\ ts[p] \in ToSet(ts)
      BY <1>1, ListIs DEF ToSet
    <2>2. Behind(r, ts[p]) \ ToSet(ts) \subseteq Behind(rs, ts[p]) \ ToSet(ts)
      BY <1>1, <1>3, <2>1
    <2>3. IsFiniteSet(Behind(rs, ts[p]) \ ToSet(ts))
      BY <1>1, FiniteBehind
    <2>4. /\ Cardinality(Behind(r, ts[p]) \ ToSet(ts)) <= Cardinality(Behind(rs, ts[p]) \ ToSet(ts))
          /\ Cardinality(Behind(r, ts[p]) \ ToSet(ts)) \in Nat
          /\ Cardinality(Behind(rs, ts[p]) \ ToSet(ts)) \in Nat
      BY <2>2, <2>3, Smaller
    <2>5. Cardinality(Behind(rs, ts[p]) \ ToSet(ts)) + p <= MaxTokens
      BY <1>1 DEF Recent
    <2> QED BY <1>1, <2>1, <2>4, <2>5
  <1> QED BY <1>1, <1>3, <1>4 DEF KeptTokens, Recent, r

\* A report of a token that is not: the one that has been kept longest gives way.
LEMMA NewlyKept ==
  ASSUME NEW rs, NEW ts, KeptTokens(rs, ts), NEW t \in PushTokens, t \notin ToSet(ts)
  PROVE  KeptTokens(Renewed(rs, t), LastOf(Append(ts, t), MaxTokens))
  <1> DEFINE r == Renewed(rs, t)
             a == Append(ts, t)
             l == LastOf(a, MaxTokens)
             n == Len(ts)
             d == IF Len(a) > MaxTokens THEN Len(a) - MaxTokens ELSE 0
  <1>1. /\ TokenList(rs) /\ TokenList(ts) /\ n <= MaxTokens /\ n \in Nat
        /\ ToSet(ts) \subseteq ToSet(rs) /\ Recent(rs, ts)
        /\ MaxTokens \in Nat \ {0}
        /\ DOMAIN ts = 1..n /\ \A i \in 1..n : ts[i] \in ToSet(ts)
    BY PushAssumption, ListIs DEF KeptTokens, ToSet
  <1>2. /\ TokenList(r) /\ ToSet(r) = ToSet(rs) \cup {t} /\ Behind(r, t) = {}
        /\ \A u \in ToSet(rs) \ {t} : Behind(r, u) \subseteq Behind(rs, u) \cup {t}
    BY <1>1, RenewedIs
  <1>3. /\ TokenList(a) /\ Len(a) = n + 1 /\ DOMAIN a = 1..n + 1
        /\ \A i \in 1..n : a[i] = ts[i]
        /\ a[n + 1] = t
    <2>1. ts \in Seq(PushTokens)
      BY <1>1 DEF TokenList
    <2>2. /\ a \in Seq(PushTokens) /\ Len(a) = n + 1 /\ DOMAIN a = 1..n + 1
          /\ \A i \in 1..n : a[i] = ts[i]
          /\ a[n + 1] = t
      BY <2>1
    <2>3. IsInjective(a)
      <3> HIDE DEF n, a
      <3> SUFFICES ASSUME NEW i \in 1..n + 1, NEW j \in 1..n + 1, a[i] = a[j] PROVE i = j
        BY <2>2 DEF IsInjective
      <3>1. (i \in 1..n \/ i = n + 1) /\ (j \in 1..n \/ j = n + 1)
        BY <1>1
      <3>2. \A k \in 1..n : a[k] # t
        BY <1>1, <2>2
      <3> QED BY <1>1, <2>2, <3>1, <3>2, ListIs DEF n
    <2> QED BY <2>2, <2>3 DEF TokenList
  <1>4. IsCut(l, a, d)
    BY <1>1, <1>3, LastOfIsCut
  <1> HIDE DEF r, a, l, n
  <1>5. d \in {0, 1} /\ (n + 1) - d <= MaxTokens /\ Len(a) - d = (n + 1) - d
    BY <1>1, <1>3
  <1> HIDE DEF d
  <1>6. /\ Len(l) = (n + 1) - d /\ DOMAIN l = 1..(n + 1) - d
        /\ \A j \in 1..(n + 1) - d : l[j] = a[j + d]
    BY <1>3, <1>4, <1>5 DEF IsCut
  <1>7. TokenList(l)
    BY <1>3, <1>4, CutKeeps
  <1>8. ToSet(l) \subseteq ToSet(ts) \cup {t}
    <2> SUFFICES ASSUME NEW j \in 1..(n + 1) - d PROVE l[j] \in ToSet(ts) \cup {t}
      BY <1>6 DEF ToSet
    <2>1. j + d \in 1..n \/ j + d = n + 1
      BY <1>1, <1>5
    <2> QED BY <1>1, <1>3, <1>6, <2>1

\* What gives way is one token at most.
  <1> DEFINE gone == ToSet(ts) \ ToSet(l)
  <1>9. IsFiniteSet(gone) /\ Cardinality(gone) <= d /\ Cardinality(gone) \in Nat
    <2>1. ASSUME NEW i \in 1..n, i > d PROVE ts[i] \in ToSet(l)
      <3>1. i - d \in 1..(n + 1) - d /\ (i - d) + d = i
        BY <1>1, <1>5, <2>1
      <3>2. l[i - d] = ts[i]
        BY <1>3, <1>6, <3>1
      <3> QED BY <1>6, <3>1, <3>2 DEF ToSet
    <2>2. CASE d = 0
      <3>1. gone = {}
        BY <1>1, <2>1, <2>2 DEF ToSet
      <3> QED BY <2>2, <3>1, FS_EmptySet
    <2>3. CASE d = 1
      <3>1. \A i \in 1..n : i > 1 \/ i = 1
        BY <1>1
      <3>2. gone \subseteq {ts[1]}
        BY <1>1, <2>1, <2>3, <3>1 DEF ToSet
      <3>3. IsFiniteSet({ts[1]}) /\ Cardinality({ts[1]}) = 1
        BY FS_Singleton
      <3> HIDE DEF gone
      <3> QED BY <2>3, <3>2, <3>3, Smaller
    <2> QED BY <1>5, <2>2, <2>3
  <1>10. ASSUME NEW p \in 1..(n + 1) - d
         PROVE  Cardinality(Behind(r, l[p]) \ ToSet(l)) + p <= MaxTokens
    <2>1. CASE p + d = n + 1
      <3>1. l[p] = t
        BY <1>3, <1>6, <2>1
      <3>2. Behind(r, l[p]) \ ToSet(l) = {}
        BY <1>2, <3>1
      <3>3. Cardinality(Behind(r, l[p]) \ ToSet(l)) = 0
        BY <3>2, FS_EmptySet
      <3> QED BY <1>1, <1>5, <3>3
    <2>2. CASE p + d \in 1..n
      <3> DEFINE u == l[p]
                 before == Behind(rs, u) \ ToSet(ts)
      <3>1. u = ts[p + d] /\ u \in ToSet(ts)
        BY <1>1, <1>3, <1>6, <2>2
      <3>2. Cardinality(before) + (p + d) <= MaxTokens
        BY <1>1, <2>2, <3>1 DEF Recent
      <3>3. IsFiniteSet(before) /\ Cardinality(before) \in Nat
        BY <1>1, FiniteBehind
      <3>4. t \in ToSet(l)
        <4>1. (n + 1) - d \in 1..(n + 1) - d /\ ((n + 1) - d) + d = n + 1
          BY <1>1, <1>5
        <4> QED BY <1>3, <1>6, <4>1 DEF ToSet
      <3>5. Behind(r, u) \ ToSet(l) \subseteq before \cup gone
        BY <1>1, <1>2, <3>1, <3>4
      <3> HIDE DEF before, gone, u
      <3>6. /\ IsFiniteSet(before \cup gone)
            /\ Cardinality(before \cup gone)
                 = Cardinality(before) + Cardinality(gone) - Cardinality(before \cap gone)
        BY <1>9, <3>3, FS_Union
      <3>7. Cardinality(before \cap gone) \in Nat
        <4>1. before \cap gone \subseteq gone
          OBVIOUS
        <4> QED BY <1>9, <4>1, Smaller
      <3>8. /\ Cardinality(Behind(r, u) \ ToSet(l)) \in Nat
            /\ Cardinality(Behind(r, u) \ ToSet(l)) <= Cardinality(before \cup gone)
        BY <3>5, <3>6, Smaller
      <3>9. Cardinality(Behind(r, u) \ ToSet(l)) + p <= MaxTokens
        BY <1>1, <1>5, <1>9, <3>2, <3>3, <3>6, <3>7, <3>8
      <3> QED BY <3>9 DEF u
    <2>3. p + d \in 1..n \/ p + d = n + 1
      BY <1>1, <1>5
    <2> QED BY <2>1, <2>2, <2>3
  <1>11. ToSet(l) \subseteq ToSet(r)
    BY <1>1, <1>2, <1>8
  <1> QED BY <1>1, <1>2, <1>5, <1>6, <1>7, <1>10, <1>11 DEF KeptTokens, Recent, r, l, a

-----------------------------------------------------------------------------
(***************************************************************************)
(* The invariant.                                                          *)
(***************************************************************************)
DispatchOK ==
  /\ dispatch \in Dispatches /\ IsInjective(dispatch.todo)
  /\ dispatch.aborted \/ dispatch.listed = dispatch.tried \cup ToSet(dispatch.todo)

PInv ==
  /\ KeptTokens(registrations, tokens) /\ Len(registrations) <= MaxRegistrations
  /\ signed \in BOOLEAN
  /\ DispatchOK

\* What the invariant says.
LEMMA PInvImplies == PInv => PushTypeOK /\ PushTargetsAreTried
  BY DEF PInv, KeptTokens, TokenList, DispatchOK, Dispatches, PushTypeOK, PushTargetsAreTried

\* The empty list.
LEMMA EmptyLists == TokenList(<<>>) /\ ToSet(<<>>) = {} /\ Len(<<>>) = 0
  <1>1. <<>> \in Seq(PushTokens) /\ Len(<<>>) = 0 /\ DOMAIN <<>> = {}
    OBVIOUS
  <1> QED BY <1>1 DEF TokenList, IsInjective, ToSet

\* Nothing is reported at first.
LEMMA PInvFirst == PushInit => PInv
  <1> SUFFICES ASSUME PushInit PROVE PInv
    OBVIOUS
  <1>1. KeptTokens(<<>>, <<>>) /\ 0 <= MaxRegistrations
    BY EmptyLists, PushAssumption DEF KeptTokens, Recent
  <1>2. DispatchOK
    <2>1. dispatch = [todo |-> <<>>, listed |-> {}, tried |-> {}, aborted |-> FALSE]
      BY DEF PushInit
    <2>2. <<>> \in Seq(Targets)
      OBVIOUS
    <2> QED BY <2>1, <2>2, EmptyLists DEF DispatchOK, Dispatches, TokenList
  <1> QED BY <1>1, <1>2, EmptyLists DEF PInv, PushInit

\* A report keeps the invariant.
LEMMA ReportKeeps ==
  ASSUME PInv, NEW t \in PushTokens, ReportToken(t)
  PROVE  PInv'
  <1> DEFINE r == Renewed(registrations, t)
  <1>1. /\ registrations' = LastOf(r, MaxRegistrations)
        /\ tokens' = IF t \in ToSet(tokens) THEN tokens ELSE LastOf(Append(tokens, t), MaxTokens)
        /\ UNCHANGED <<signed, dispatch>>
    BY DEF ReportToken, KeptRegistrations
  <1>2. KeptTokens(registrations, tokens)
    BY DEF PInv
  <1>3. KeptTokens(r, tokens')
    BY <1>1, <1>2, RenewedKept, NewlyKept
  <1>4. KeptTokens(registrations', tokens') /\ Len(registrations') <= MaxRegistrations
    BY <1>1, <1>3, CutKeepsKept
  <1> QED BY <1>1, <1>4 DEF PInv, DispatchOK

\* A new dispatch has everything there is, once.
LEMMA DispatchKeeps ==
  ASSUME PInv, StartDispatch
  PROVE  PInv'
  <1>1. PICK targets \in Listed :
          dispatch' = [todo |-> targets \o SideChannels, listed |-> ToSet(targets \o SideChannels),
                       tried |-> {}, aborted |-> FALSE]
    BY DEF StartDispatch
  <1> DEFINE more == ToSet(tokens) \ ToSet(registrations)
  <1>2. PICK unregistered \in SetToSeqs(more) : targets = unregistered \o Reverse(registrations)
    BY DEF Listed
  <1>3. TokenList(registrations) /\ TokenList(tokens)
    BY DEF PInv, KeptTokens
  <1>4. TokenList(Reverse(registrations)) /\ ToSet(Reverse(registrations)) = ToSet(registrations)
    BY <1>3, Reversed
  <1>5. ToSet(registrations) \subseteq PushTokens /\ more \subseteq PushTokens
    BY <1>3, ListIs DEF ToSet
  <1>6. TokenList(unregistered) /\ ToSet(unregistered) \subseteq more
    <2>1. more \subseteq ToSet(tokens) /\ IsFiniteSet(ToSet(tokens))
      BY <1>3, FiniteList
    <2> HIDE DEF more
    <2>2. Cardinality(more) \in Nat
      BY <2>1, Smaller
    <2>3. /\ unregistered \in [1..Cardinality(more) -> more]
          /\ \A i, j \in 1..Cardinality(more) : i # j => unregistered[i] # unregistered[j]
      BY <1>2 DEF SetToSeqs
    <2>4. unregistered \in Seq(PushTokens) /\ DOMAIN unregistered = 1..Cardinality(more)
      BY <1>5, <2>2, <2>3
    <2> QED BY <2>3, <2>4 DEF TokenList, IsInjective, ToSet
  <1>7. targets \in Seq(PushTokens) /\ IsInjective(targets) /\ ToSet(targets) \subseteq PushTokens
    <2>1. ToSet(unregistered) \cap ToSet(Reverse(registrations)) = {}
      BY <1>4, <1>6
    <2>2. /\ unregistered \o Reverse(registrations) \in Seq(PushTokens)
          /\ IsInjective(unregistered \o Reverse(registrations))
          /\ ToSet(unregistered \o Reverse(registrations))
               = ToSet(unregistered) \cup ToSet(Reverse(registrations))
      BY <1>4, <1>6, <2>1, Concatenated DEF TokenList
    <2> QED BY <1>2, <1>4, <1>5, <1>6, <2>2
  <1> DEFINE todo == targets \o SideChannels
  <1>8. todo \in Seq(Targets) /\ IsInjective(todo) /\ ToSet(todo) \subseteq Targets
    <2>1. targets \in Seq(Targets)
      BY <1>7 DEF Targets
    <2>2. SideChannels \in Seq(Targets) /\ IsInjective(SideChannels)
      BY PushAssumption DEF Targets
    <2>3. ToSet(targets) \cap ToSet(SideChannels) = {}
      BY <1>7, PushAssumption
    <2>4. /\ todo \in Seq(Targets) /\ IsInjective(todo)
          /\ ToSet(todo) = ToSet(targets) \cup ToSet(SideChannels)
      BY <1>7, <2>1, <2>2, <2>3, Concatenated
    <2> QED BY <1>7, <2>4 DEF Targets
  <1> HIDE DEF todo
  <1>9. dispatch' = [todo |-> todo, listed |-> ToSet(todo), tried |-> {}, aborted |-> FALSE]
    BY <1>1 DEF todo
  <1>10. DispatchOK'
    BY <1>8, <1>9 DEF DispatchOK, Dispatches
  <1> QED BY <1>10 DEF PInv, StartDispatch

\* A target that is tried is off the list.
LEMMA TryKeeps ==
  ASSUME PInv, TryTarget
  PROVE  PInv'
  <1> DEFINE todo == dispatch.todo
  <1>1. /\ todo \in Seq(Targets) /\ todo # <<>> /\ IsInjective(todo)
        /\ dispatch.tried \subseteq Targets /\ dispatch.listed \subseteq Targets
        /\ dispatch.aborted \in BOOLEAN
    BY DEF PInv, DispatchOK, Dispatches, TryTarget
  <1>2. dispatch' = [dispatch EXCEPT !.todo = Tail(todo), !.tried = @ \cup {Head(todo)}]
    BY DEF TryTarget, Sent, Failed
  <1>3. /\ Head(todo) \in Targets /\ Tail(todo) \in Seq(Targets) /\ Len(Tail(todo)) = Len(todo) - 1
        /\ \A i \in 1..Len(Tail(todo)) : Tail(todo)[i] = todo[i + 1]
        /\ Len(todo) \in Nat /\ Len(todo) >= 1 /\ DOMAIN todo = 1..Len(todo)
        /\ DOMAIN Tail(todo) = 1..Len(todo) - 1 /\ Head(todo) = todo[1]
    BY <1>1, HeadTailProperties
  <1>4. IsInjective(Tail(todo))
    <2> SUFFICES ASSUME NEW i \in 1..Len(todo) - 1, NEW j \in 1..Len(todo) - 1,
                        Tail(todo)[i] = Tail(todo)[j]
                 PROVE  i = j
      BY <1>3 DEF IsInjective
    <2>1. i + 1 \in DOMAIN todo /\ j + 1 \in DOMAIN todo /\ todo[i + 1] = todo[j + 1]
      BY <1>3
    <2> QED BY <1>1, <2>1 DEF IsInjective
  <1>5. ToSet(todo) = {Head(todo)} \cup ToSet(Tail(todo))
    <2>1. \A i \in 1..Len(todo) : i = 1 \/ (i - 1 \in 1..Len(todo) - 1 /\ (i - 1) + 1 = i)
      BY <1>3
    <2>2. \A i \in 1..Len(todo) - 1 : i + 1 \in 1..Len(todo)
      BY <1>3
    <2>3. ToSet(Tail(todo)) \subseteq ToSet(todo)
      BY <1>3, <2>2 DEF ToSet
    <2>4. ASSUME NEW i \in 1..Len(todo) PROVE todo[i] \in {Head(todo)} \cup ToSet(Tail(todo))
      <3>1. CASE i = 1
        BY <1>3, <3>1
      <3>2. CASE i - 1 \in 1..Len(todo) - 1 /\ (i - 1) + 1 = i
        <4>1. Tail(todo)[i - 1] = todo[i] /\ i - 1 \in DOMAIN Tail(todo)
          BY <1>3, <3>2
        <4> QED BY <4>1 DEF ToSet
      <3> QED BY <2>1, <3>1, <3>2
    <2>5. ToSet(todo) \subseteq {Head(todo)} \cup ToSet(Tail(todo))
      BY <1>3, <2>4 DEF ToSet
    <2>6. Head(todo) \in ToSet(todo)
      BY <1>3 DEF ToSet
    <2> QED BY <2>3, <2>5, <2>6
  <1>6. dispatch.aborted \/ dispatch.listed = dispatch.tried \cup ToSet(todo)
    BY DEF PInv, DispatchOK
  <1> HIDE DEF todo
  <1>7. dispatch' = [todo |-> Tail(todo), listed |-> dispatch.listed,
                     tried |-> dispatch.tried \cup {Head(todo)}, aborted |-> dispatch.aborted]
    BY <1>2 DEF PInv, DispatchOK, Dispatches
  <1>8. DispatchOK'
    BY <1>1, <1>3, <1>4, <1>5, <1>6, <1>7 DEF DispatchOK, Dispatches
  <1> QED BY <1>8 DEF PInv, TryTarget

\* A dispatch that cannot sign is over.
LEMMA SignFailsKeeps ==
  ASSUME PInv, SignFails
  PROVE  PInv'
  <1>1. dispatch' = [todo |-> <<>>, listed |-> dispatch.listed, tried |-> dispatch.tried,
                     aborted |-> TRUE]
    BY DEF PInv, DispatchOK, Dispatches, SignFails
  <1>2. <<>> \in Seq(Targets)
    OBVIOUS
  <1>3. DispatchOK'
    BY <1>1, <1>2, EmptyLists DEF PInv, DispatchOK, Dispatches, TokenList
  <1> QED BY <1>3 DEF PInv, SignFails

\* Every step keeps the invariant.
LEMMA PInvStep == PInv /\ [PushNext]_pushVars => PInv'
  <1> SUFFICES ASSUME PInv, [PushNext]_pushVars PROVE PInv'
    OBVIOUS
  <1>1. ASSUME NEW t \in PushTokens, ReportToken(t) PROVE PInv'
    BY <1>1, ReportKeeps
  <1>2. CASE StartDispatch
    BY <1>2, DispatchKeeps
  <1>3. CASE TryTarget
    BY <1>3, TryKeeps
  <1>4. CASE Sign
    BY <1>4 DEF Sign, PInv, DispatchOK
  <1>5. CASE SignFails
    BY <1>5, SignFailsKeeps
  <1>6. CASE Expire
    BY <1>6 DEF Expire, PInv, DispatchOK
  <1>7. CASE UNCHANGED pushVars
    BY <1>7 DEF pushVars, PInv, DispatchOK
  <1> QED BY <1>1, <1>2, <1>3, <1>4, <1>5, <1>6, <1>7 DEF PushNext

-----------------------------------------------------------------------------
\* Tokens, registrations and a dispatch keep their types and caps, and nothing is
\* listed twice (set_push_token, app/store_domains/message.py:713).
THEOREM TargetsAreTyped == PushSpec => []PushTypeOK
  <1>1. PushInit => PInv
    BY PInvFirst
  <1>2. PInv /\ [PushNext]_pushVars => PInv'
    BY PInvStep
  <1>3. PInv => PushTypeOK
    BY PInvImplies
  <1> QED BY <1>1, <1>2, <1>3, PTL DEF PushSpec

\* Every kept token has a registration, and a dispatch that is over has tried what it
\* listed: twice as many registrations as tokens, less one, are enough for that, and 20
\* are kept for 10 (app/store_domains/message.py:743).
THEOREM TokensCanBePushedTo == PushSpec => []PushTargetsAreTried
  <1>1. PushInit => PInv
    BY PInvFirst
  <1>2. PInv /\ [PushNext]_pushVars => PInv'
    BY PInvStep
  <1>3. PInv => PushTargetsAreTried
    BY PInvImplies
  <1> QED BY <1>1, <1>2, <1>3, PTL DEF PushSpec

=============================================================================
