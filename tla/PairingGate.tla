----------------------------- MODULE PairingGate -----------------------------
(***************************************************************************)
(* The ticket that station/add, station/claim and camera pairing need: the *)
(* entry a station has in kv_state.stationPairingLocks, which the app      *)
(* obtains beforehand and which carries its time and its account           *)
(* (app/store_domains/runtime.py), under the handlers of app/api/device.py.*)
(* A handler looks at the lock in one store call and acts on what it saw   *)
(* in the next, so `handler' holds where each request stands.              *)
(*                                                                         *)
(* One station is modelled: the calls of another station touch its lock    *)
(* only by dropping it when it is too old.  Times are ages in seconds,     *)
(* counted up to KeepAge + 1, from where on nothing tells them apart.      *)
(***************************************************************************)
EXTENDS Integers

CONSTANTS
  Users,
  Workers,    \* request threads
  DefaultUser,\* DEFAULT_USER_ID, whom a request without an account stands for
  Callers,    \* who sends station/add and station/claim
  Binders,    \* who sends users/station-bind
  Askers,     \* who sends station/lock and station/check-bind-status
  Scanners,   \* who sends the two camera pairing requests
  MinAge,     \* STATION_ADD_MIN_LOCK_AGE_SECONDS
  MaxAge,     \* STATION_ADD_MAX_LOCK_AGE_SECONDS, CAMERA_PAIR_MAX_LOCK_AGE_SECONDS
  KeepAge,    \* keep_seconds
  MaxStep,    \* how long a handler may take from one store call to the next
  NoUser, NoLock, Idle

\* What a request says of its account; a token stands for the user it was
\* issued to.
Identities == [token : Users \cup {NoUser}, account : Users \cup {NoUser}, uid : Users \cup {NoUser}]
Anonymous == [token |-> NoUser, account |-> NoUser, uid |-> NoUser]

ASSUME GateAssumption ==
  /\ NoUser \notin Users /\ DefaultUser \in Users
  /\ Callers \subseteq Identities /\ Binders \subseteq Identities
  /\ Askers \subseteq Identities /\ Scanners \subseteq Identities
  /\ NoLock \notin Identities
  /\ MinAge \in Nat /\ MaxAge \in Nat /\ KeepAge \in Nat /\ MaxStep \in Nat
  /\ MinAge < MaxAge /\ MaxAge < KeepAge

VARIABLES
  lock,       \* who asked for the lock, as stored, or NoLock
  age,        \* seconds since issuedAtTs
  reported,   \* lastReportStatusTs is not before issuedAtTs
  reportedNow,\* lastReportStatusTs is the present second
  removed,    \* the station's tombstone
  owner,      \* the user of the owner row
  handler,    \* where each worker's request stands
  askedAge    \* history: seconds since a request with that user's id set the
              \* lock, or (NoUser) one without a user's id

vars == <<lock, age, reported, reportedNow, removed, owner, handler, askedAge>>

Ages == 0 .. KeepAge + 1
Stages == {"bootstrap", "regate", "bind", "relock", "rescan"}

\* since: how long ago the handler made the call its next one relies on.
Handlers == [at : Stages, who : Identities, since : Ages]

At(w, where) == handler[w] # Idle /\ handler[w].at = where
Goes(w, where, c) == handler' = [handler EXCEPT ![w] = [at |-> where, who |-> c, since |-> 0]]
Ends(w) == handler' = [handler EXCEPT ![w] = Idle]

\* Mutant of Named: the identity is bound, not its user.
NamedAsIs(c) == c

\* The user a request stands for: its user id, its token's, its account's, or
\* the default user.
Named(c) ==
  CASE c.uid # NoUser -> c.uid
    [] c.uid = NoUser /\ c.token # NoUser -> c.token
    [] c.uid = NoUser /\ c.token = NoUser /\ c.account # NoUser -> c.account
    [] OTHER -> DefaultUser

\* The user id the gate compares; an account name is not looked up.
Uid(c) == IF c.uid # NoUser THEN c.uid ELSE c.token

\* Mutant of Current: a lock is kept whatever its age.
KeptForever == lock

\* _normalize_station_pairing_locks, which every call saves.
Current == IF age > KeepAge THEN NoLock ELSE lock

(***************************************************************************)
(* mark_station_pairing_lock                                               *)
(***************************************************************************)

\* Mutant of Mark: the time of a lock that is there already is kept.
MarkKeepsTime(c) ==
  /\ lock' = [c EXCEPT !.uid = Uid(c)]
  /\ age' = IF Current = NoLock THEN 0 ELSE age
  /\ reported' = IF Current = NoLock THEN reportedNow ELSE reported
  /\ askedAge' = [askedAge EXCEPT ![Uid(c)] = 0]

\* The lock is the caller's from now on, whosever it was.  The call reads the
\* clock just before it queues for the store's lock; it is not kept waiting
\* for seconds.
Mark(c) ==
  /\ lock' = [c EXCEPT !.uid = Uid(c)]
  /\ age' = 0
  /\ reported' = reportedNow
  /\ askedAge' = [askedAge EXCEPT ![Uid(c)] = 0]

(***************************************************************************)
(* station_pairing_gate_payload                                            *)
(***************************************************************************)
Differ(x, y) == x # NoUser /\ y # NoUser /\ x # y

\* Mutant of Mismatch: the lock is not scoped to an account.
NeverMismatch(l, c) == FALSE

\* "lock-owner-mismatch"
Mismatch(l, c) ==
  \/ Differ(l.token, c.token) /\ (Uid(l) = NoUser \/ Uid(l) # Uid(c))
  \/ Differ(Uid(l), Uid(c))
  \/ Differ(l.account, c.account)

\* "lock-required", "lock-expired", and the answer that lets a caller through
\* who needs a lock of that age.
LockRequired == Current = NoLock
LockExpired(c) == Current # NoLock /\ ~Mismatch(lock, c) /\ age > MaxAge
Ready(c, min) ==
  Current # NoLock /\ ~Mismatch(lock, c) /\ age <= MaxAge /\ (age >= min \/ reported)

\* The gate's own effect: locks that are too old are gone.
Look == lock' = Current /\ UNCHANGED <<age, reported, reportedNow, removed, owner, askedAge>>

(***************************************************************************)
(* station/add and station/claim                                           *)
(***************************************************************************)

\* Mutant of NeedsLock: whatever the gate objects to.
NeedsAnyLock(c) == ~Ready(c, MinAge)

\* "Some app builds skip the explicit `/station/lock` request"
NeedsLock(c) == LockRequired

StationAdd(w, c) ==
  /\ c # Anonymous
  /\ handler[w] = Idle
  /\ Look
  /\ \/ NeedsLock(c) /\ Goes(w, "bootstrap", c)
     \/ Ready(c, MinAge) /\ Goes(w, "bind", c)

Bootstrap(w) ==
  /\ At(w, "bootstrap")
  /\ Mark(handler[w].who)
  /\ Goes(w, "regate", handler[w].who)
  /\ UNCHANGED <<reportedNow, removed, owner>>

\* The second look of the same request.
Regate(w) ==
  LET c == handler[w].who
  IN  /\ At(w, "regate")
      /\ Look
      /\ \/ Ready(c, MinAge) /\ Goes(w, "bind", c)
         \/ ~Ready(c, MinAge) /\ Ends(w)

StationClaim(w, c) ==
  /\ handler[w] = Idle
  /\ Ready(c, MinAge)
  /\ Look
  /\ Goes(w, "bind", c)

\* Either request finds its way blocked; another station's requests have the
\* same effect on this lock.
Blocked(c) ==
  /\ ~Ready(c, MinAge)
  /\ Look
  /\ UNCHANGED handler

\* bind_station_to_user of an owner: it answers an error if there is another.
\* A DID is left for the station.
BindOwner(u) ==
  /\ \/ owner \in {NoUser, u} /\ owner' = u /\ removed' = FALSE
     \/ owner \notin {NoUser, u} /\ UNCHANGED <<owner, removed>>
  /\ UNCHANGED <<lock, age, reported, reportedNow, askedAge>>

Bind(w) ==
  /\ At(w, "bind")
  /\ BindOwner(Named(handler[w].who))
  /\ Ends(w)

\* users/station-bind asks no gate.
StationBind(c) == BindOwner(Named(c)) /\ UNCHANGED handler

(***************************************************************************)
(* camera/check-bind-status-by-iot and camera/add-blind: the gate is asked *)
(* without an identity and for no minimal age.                             *)
(***************************************************************************)
CameraScan(w, c) ==
  /\ handler[w] = Idle
  /\ LockRequired \/ LockExpired(Anonymous)
  /\ Look
  /\ Goes(w, "relock", c)

Relock(w) ==
  /\ At(w, "relock")
  /\ Mark(handler[w].who)
  /\ Goes(w, "rescan", handler[w].who)
  /\ UNCHANGED <<reportedNow, removed, owner>>

Rescan(w) == At(w, "rescan") /\ Look /\ Ends(w)

(***************************************************************************)
(* The other requests.                                                     *)
(***************************************************************************)

\* station/check-bind-status
CheckBindStatus(c) ==
  /\ c.token # NoUser \/ c.account # NoUser
  /\ Mark(c)
  /\ UNCHANGED <<reportedNow, removed, owner, handler>>

\* station/lock; set_station brings a removed station back.
StationLock(c) ==
  /\ Mark(c)
  /\ removed' = FALSE
  /\ UNCHANGED <<reportedNow, owner, handler>>

\* station/set, and station/add without an account, which binds nobody.
SetStation ==
  /\ removed' = FALSE
  /\ UNCHANGED <<lock, age, reported, reportedNow, owner, handler, askedAge>>

\* update_station_status
Report ==
  /\ ~removed
  /\ reported' = TRUE
  /\ reportedNow' = TRUE
  /\ UNCHANGED <<lock, age, removed, owner, handler, askedAge>>

\* The station's record goes, with its users and its last report.  Only the
\* removal by its last user is remembered.  The lock stays.
RemoveStation ==
  /\ removed' \in IF owner = NoUser THEN {removed} ELSE {removed, TRUE}
  /\ owner' = NoUser
  /\ reported' = FALSE
  /\ reportedNow' = FALSE
  /\ UNCHANGED <<lock, age, handler, askedAge>>

\* A second passes.
Older(a) == IF a > KeepAge THEN a ELSE a + 1

Tick ==
  /\ \A w \in Workers : handler[w] # Idle => handler[w].since < MaxStep
  /\ age' = Older(age)
  /\ reportedNow' = FALSE
  /\ handler' = [w \in Workers |->
       IF handler[w] = Idle THEN Idle ELSE [handler[w] EXCEPT !.since = Older(@)]]
  /\ askedAge' = [u \in Users \cup {NoUser} |-> Older(askedAge[u])]
  /\ UNCHANGED <<lock, reported, removed, owner>>

\* The process stops; the lock is in the database.
Restart ==
  /\ handler' = [w \in Workers |-> Idle]
  /\ UNCHANGED <<lock, age, reported, reportedNow, removed, owner, askedAge>>

-----------------------------------------------------------------------------
\* A station that nobody owns and nobody has asked for.
Init ==
  /\ lock = NoLock /\ age = 0
  /\ reported = FALSE /\ reportedNow = FALSE
  /\ removed = FALSE
  /\ owner = NoUser
  /\ handler = [w \in Workers |-> Idle]
  /\ askedAge = [u \in Users \cup {NoUser} |-> KeepAge + 1]

Request(w) ==
  \/ \E c \in Callers : StationAdd(w, c) \/ StationClaim(w, c)
  \/ \E c \in Scanners : CameraScan(w, c)

Continue(w) == Bootstrap(w) \/ Regate(w) \/ Bind(w) \/ Relock(w) \/ Rescan(w)

Next ==
  \/ \E w \in Workers : Request(w) \/ Continue(w)
  \/ \E c \in Callers : Blocked(c)
  \/ \E c \in Binders : StationBind(c)
  \/ \E c \in Askers : CheckBindStatus(c) \/ StationLock(c)
  \/ SetStation \/ Report \/ RemoveStation \/ Tick \/ Restart

Spec == Init /\ [][Next]_vars

\* Time passes, handlers go on and not each of them dies with the process,
\* and the app's user taps Next again and again, also when the gate is open.
Retrying ==
  /\ Spec
  /\ SF_vars(Tick)
  /\ \A w \in Workers :
       /\ WF_vars(Continue(w))
       /\ WF_vars(\E c \in Callers : StationAdd(w, c))
       /\ SF_vars(\E c \in Callers : StationAdd(w, c) /\ Ready(c, MinAge))
       /\ SF_vars(Bootstrap(w)) /\ SF_vars(Bind(w))

-----------------------------------------------------------------------------
(***************************************************************************)
(* Properties.                                                             *)
(***************************************************************************)

\* Every variable stays in its type.
TypeOK ==
  /\ lock \in Identities \cup {NoLock}
  /\ age \in Ages
  /\ reported \in BOOLEAN /\ reportedNow \in BOOLEAN /\ removed \in BOOLEAN
  /\ owner \in Users \cup {NoUser}
  /\ handler \in [Workers -> Handlers \cup {Idle}]
  /\ askedAge \in [Users \cup {NoUser} -> Ages]

\* Whose tickets the gate takes for a request: those asked for by its own user
\* id or by none, and anybody's if it has no user id itself.
TicketsFor(c) == IF Uid(c) = NoUser THEN Users \cup {NoUser} ELSE {Uid(c), NoUser}

\* Nobody gets a station past the gate on a ticket that another account asked
\* for, or on one that had expired at the look, however the locks of several
\* accounts replace each other between a look and a bind: when a handler's bind
\* makes an owner, some ticket for that request was asked for at most MaxAge
\* before the handler looked.
OwnerHasTicket ==
  [][\A w \in Workers :
       Bind(w) /\ owner' # owner =>
         \E u \in TicketsFor(handler[w].who) : askedAge[u] <= MaxAge + handler[w].since]_vars

\* A handler that found no usable lock and is about to write its own takes
\* the ticket from nobody who had one when it looked: a lock it replaces while
\* it is valid was written since.
OnlyNewerLocksAreReplaced ==
  \A w \in Workers :
    (At(w, "bootstrap") \/ At(w, "relock")) /\ lock # NoLock /\ age <= MaxAge
      => age <= handler[w].since

\* A camera's request is never answered "not in camera pairing mode": having
\* renewed the lock, the handler finds it open, whatever other requests do to
\* the lock in between, unless it is held up for longer than a lock is valid.
CameraScanPasses ==
  \A w \in Workers :
    At(w, "rescan") /\ handler[w].since <= MaxAge => Ready(Anonymous, 0)

\* Who keeps tapping Next gets the station in the end, also when a lock has
\* expired under it: station/add makes no new one then, and the gate stays
\* shut until the old one is dropped.
RetriesSucceed == []<>(owner # NoUser)
=============================================================================
