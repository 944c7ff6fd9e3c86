# A TLA+ model of the VAVA cloud service

The repository is a Python replacement of the cloud a VAVA camera kit talks to:
an HTTP service for the phone app and the base station (`src/app`), a store in
SQLite, an RTMP ingest server, a live-view pipeline, and older mocks. This
directory models the parts whose correctness depends on the order of events:
who owns a base station, how a camera is paired with one, how the store's
transactions interleave, the lock that opens the pairing gate, what becomes of
the recordings a camera streams, the live pipeline, and the smaller services of
the app: station DIDs, cloud storage, notices, push and accounts.

Paths below are relative to `src/`.

## Inventory

| Component | State | Operations | Modelled in |
|---|---|---|---|
| Station binding and ownership (`app/store_domains/station.py`) | `stations`, `stationTombstones` in `kv_state`; table `user_station_bindings`; the cached `ownerUserId` | bind, unbind with promotion, rename, reports, auto-bind, removal | `StationBinding`, `StationOwnership` |
| Camera pairing (`pairing.py`, `camera.py`, `api/device.py`) | `cameras`, `cameraTombstones`; tables `pairing_slots`, `pairing_sessions` | scan, add-blind, camera/set, removal, reports | `CameraPairing` |
| State store (`app/store.py`) | rows of `kv_state`, relational tables, one `RLock` per process | load, synchronise, save; list requests without the lock; a second process | `StateStore` |
| Pairing gate (`runtime.py`, `api/device.py`) | `stationPairingLocks` with time and account | lock, look, bootstrap, bind | `PairingGate` |
| Station DIDs (`station.py`, `station_did.py`) | table `p2p_did_pool`, `stationDidMappings`, reported DIDs | assign, release, report, back-fill at a start | `StationDids` |
| Messages and notices (`message.py`, `station.py`) | `messages` with its counter and cap, the cameras' last status | tell, remove, page through | `Notices` |
| Push dispatch (`message.py`, `app/push.py`) | `pushTokens`, `pushRegistrations`, Apple's signed token | report a token, dispatch a notice | `PushTargets` |
| Cloud storage: orders and binding (`cloud.py`) | `storageOrders`, `storageService`, `cloudStorageBound` of each camera | create, pay, finalise, renew, bind up to the capacity | `CloudService` |
| RTMP ingest (`scripts/rtmp_ingest_server.py`) | one capture per connection, files | connect, publish, media, idle ping, close, stop | `CloudMedia` |
| Cloud recordings (`cloud.py`, `playback.py`) | `cloudMedia`, movies on the disk | register, list, look up assets, remove | `CloudMedia` |
| Live pipeline (`app/cloud_platform/live_runtime.py`, `scripts/run_live_hls.sh`, `stop_live_hls.sh`) | control file, two pid files, the processes | start, reuse, stop | `LivePipeline` |
| Accounts and tokens (`auth.py`) | table `users`, tokens, the active session | register, log in three ways, refresh, update | `Accounts` |
| MQTT mock, HTTP front, web pages, legacy mock, native bridge, probes | none that outlives a connection | diagnosis, request and response shaping, packet bridging | not modelled |

How they interact: every request runs in a thread of the service and makes one
or more store calls. A store call takes the lock, selects the whole `kv_state`,
changes it in memory and saves it; loading and saving both bring the relational
tables in line with the state (`store.py` `_sync_state_tables_and_bindings_unlocked`).
Handlers do not hold the lock between two calls, so requests of other clients,
or a crash, come in between. List requests load without the lock, and the
ingest server opens the same database in another process.

What makes this hard:

* *Interleaving of calls.* A scan is four calls, station/add three to five.
* *Two representations.* `kv_state` and the tables are written by the same
  transaction but derived from each other, with cascades and pruning.
* *Tombstones.* A removed station or camera must stay invisible to devices
  that still report it, yet come back when it is paired again.
* *Stale writes.* An unlocked load writes back what it selected earlier.
* *Time.* The gate's lock has a minimum age, a maximum age and a keep window; a
  capture is over when its camera has been quiet for a while.
* *Names that are used again.* A DID goes back to the pool and is handed out
  again; two captures of one second share a file name; a stream code is taken
  from a notice that two captures may find.
* *No lock at all.* The live pipeline's files and processes are shared by the
  handlers' threads and two shell scripts, and nothing orders them.
* *Caps.* Lists of notices, recordings, orders and tokens are cut while others
  walk through them or hold on to what is cut.

What makes each part correct is stated by the properties below; the hazards
they answer are listed line by line in `PROJECT.json`.

## The modules

### StationBinding, StationOwnership

One action per store call. The variables are named as in the code; `role[s][u]`
is the row of `user_station_bindings` (`viewer` is handled like `member`).
`Save` is the synchronisation at the end of each call: rows of unknown stations
are pruned (`Pruned`), the default station is adopted by the default user if
nobody has it (`Adopted`), the owner cache is refreshed (`OwnerCandidates`). The
order of rows updated in the same second is not determined, so any of them may
be cached. `station/add` and `station/lock` make a second store call; `naming`
holds it, and `FinishNaming`, `Abandon` and `Restart` say how it ends. Loading
before a change performs the same synchronisation on a state that has just been
saved, and changes nothing; `StateStore` shows that this is so in one process.
Auto-bind (`VAVA_STATION_REPORT_AUTO_BIND_ENABLED`) is read from the environment
at start, so a `Restart` may change it.

`asked` is a history variable: who has bound itself to a station since its last
row there went. Without it a report that claims a station could not be told from
the bind call that writes the same row.

`StationOwnership` is the abstract promise: members, at most one holder, and a
holder that changes only when it leaves or there is none. `StationBinding` ends
with the mapping: the bound users are the members, the user of the owner row is
the holder. `ImplementsOwnership` says that every call is a step of it.

Left out: which DID a station gets (`StationDids`), nicknames and status fields. A DID is
assumed to be left in the pool; without one a bind answers an error and changes
nothing, which is the same as not calling it.

### CameraPairing

Slots, sessions, records and tombstones of cameras. `job[w]` holds what the
handler of worker `w` carries from call to call (`reserve`, `ensure`,
`settings`, `recover`, `rejoin`, `activate`, `session`), so that every pair of
calls can be separated by any other request. `Derived` stands for a session id
that takes its channel from the record. `release_pairing_slot` is called by
nothing in the repository and is not an action. Station tombstones and owners
are in `StationBinding`, not here: `KnowStation` stands for every call that
records a station. The gate in front of scan and add-blind is in `PairingGate`.

### StateStore

One action per SQLite transaction: `Begin` selects, `Load` synchronises (and
saves if something changed), the operation saves and gives up the lock. `List`
and `Answer` are a list request, which selects and synchronises without the
lock. Threads with `ProcessOf[t] = Ingest` belong to the ingest server and have
a lock of their own. `Unsettled` says whether some record is reported as
changed by every normalisation (a camera without a MAC address is), which makes
every load save. The constants `Listers` and `Processes` select which of these
disturbances an instance has. Bindings go by `Unbind` and with the station that
`DropStation` removes (`POST /ipc/device/station/remove` without an account,
`app/store_domains/camera.py:367`); `AutoBind` lets a report claim a station
nobody has, whose `stations` row the new row can refer to.

Rows are abstracted to "somebody is bound"; the default station is left out
because its adoption is in `StationBinding`. Schema migration, the JSON snapshot
and its backup, and the records' other fields are not modelled.

### PairingGate

The lock of one station with its account and its age, the gate's three refusals
(`LockRequired`, `Mismatch`, `LockExpired`), and the handlers that look first
and act later. Ages are counted in seconds up to `KeepAge + 1`, after which
nothing tells them apart. A request is an identity (token, account name, user
id), and `Named` is the user it is resolved to; without any of them that is the
default user, whom `StationClaim` then binds on whoever's lock there is.
`StationBind` is `POST /users/station-bind`, which binds and asks no gate.
`askedAge` is a history variable: how long ago a request with that user's id (or
without one) has set the lock. `OwnerHasTicket` says what the gate does
guarantee: who becomes owner past it had a ticket that was valid when the
handler looked and was not asked for with another user's id. What it does not
guarantee is in the definition of `TicketsFor`: a request without a token and a
user id passes on anybody's ticket. An owner may also come from
`StationBind`, from a report that binds and from the promotion of a member at an
unbind; the last two are in `StationBinding`. `mark_station_pairing_lock` reads the clock just
before it queues for the store's lock; the model takes that as one step. Locks
of other stations matter only in that their requests drop this station's lock
once it is too old, which `Blocked` already does.

### CloudMedia

The way of a recording from the camera to the app. `sessions[c]` is the
dictionary the ingest server keeps for a connection; `disk` says which captures
have frames in a file, so a file that is truncated by a second capture of the
same name is told from one that is not. The server is one event loop and a
handler awaits nothing between taking a capture from its session and registering
it, so each handler is one step, with three ways for the end of a capture to go:
the file is gone (`Skip`), it is registered with or without a movie (`Finish`),
or the handler raises (`Raise`). `Register` finds its stream code (`CodesFor`),
the record it is written over (`Replaced`) and the record that makes room
(`Evicted`). A list request reads (`List`) and saves (`Listed`) in two steps, as
it holds no lock. A capture is named by its start in milliseconds, which is
distinct for distinct captures; a file name counts in seconds, which is not.

`excused` is a history variable: the captures that were lost in one of the ways
that the code has. `NothingElseIsLost` says that there is no other way; what the
ways are can be read off the property's comment. `Remove` unlinks the files of the
records it takes, whatever other record names them too: two captures of one name
share a file until one of them is written over, and a removal of the one takes the
file of the other. A file that cannot be unlinked stays while its record goes
(`stuck`).

### LivePipeline

A step of the two scripts or of a handler is one action; the scripts run in
processes of their own, so anything may come between two steps. `encodes` and
`bridges` are the processes there are, `phase` how far each run of the script
has come, `stopAt` how far whoever stops has. `overlap` is a history variable:
calls or starting runs have overlapped since the last stop that ran alone. While
calls overlap, orphans appear; a stop that runs alone finds them by the command
line and ends them. `ControlAgrees` says what holds from there on. The quality of a
run is the one it was started for. The camera's own is set by the wake commands before
the call (`app/cloud_platform/live_runtime.py:154`), also when the wake then fails, and
not by the run, which `SKIP_P2P_SETUP=1` (`:271`) makes skip it
(`scripts/run_live_hls.sh:263`). Operators that run the two scripts by hand
(`LIVE_DELIVERY_NOTES.md:52`) are outside the model.

### StationDids, CloudService, Notices, PushTargets, Accounts

One action per store call. `StationDids` follows a DID through the pool
(`Seeded`, assignment, release), the mapping and the station's record;
`StationDids` and `StationBinding` see the same calls from two sides. In derived mode
the default station's DID is issued anew (`NeedsIssue`, `Generated`) as long as one of
its codes is a placeholder. A start goes through the stations one after the other (`Seeding`, `Backfilling`).
`CloudService` has orders with their payments and cap, the plan in force and the
cameras bound to it. The list of orders is a sequence in the order of `Later`,
into which a save puts an order back where its key wants it (`Put`). Numbers and
payment ids are whatever a client names, its own or another order's: an order is
found by either (`FoundAt`) and takes the number it is paid for by (`Finalized`),
so a number or a payment may be that of several orders. An unknown order is
created and saved by a call of its own before it is paid; a stop between the two
leaves what `CreateOrder` does. A call that binds or unbinds cameras without
naming an account is left out: it reaches any camera, and enforces no capacity.
A request to bind gives each of its cameras a place, and `Preferred` is the order in which
cameras are kept. `Notices` has the list, in the order of ids, with its counter and cap and an app
that walks through its pages, each page a step. `PushTargets` has the two token
lists and a dispatch that goes on target by target while tokens are reported.
`Accounts` has the three identifiers of an account, its tokens and the one
active session.

These five and `LivePipeline` share no state but the transaction it is saved in,
which `StateStore` is about. `MCServices` extends them all and picks one in the
initial state (`focus`), and the others stand still. So one run checks every
behaviour of each and none of their product, which would add nothing. Orders and
cameras of `CloudService` are looked into apart, the latter with what one paid
order does to the capacity.

## The runs

| Run | Instance | What it shows |
|---|---|---|
| `station_binding` | 3 users, 2 stations, 2 workers | one owner at most, no orphan rows, truthful cache, default station never orphaned, ownership never stolen, no binding comes back by a report; the rows implement `StationOwnership` |
| `camera_pairing` | 2 cameras, 2 stations, 1 slot, 2 workers | removed cameras stay removed, recorded cameras have a station, reports move no camera |
| `camera_pairing_slots` | 2 cameras (one with a MAC), 2 slots, 1 worker | scans reassign no held slot; only a removal frees one |
| `camera_pairing_slot_zero` | the same slots | *violation*, see below |
| `state_store_locked` | 2 stations, 2 cameras, 2 threads, one process, no lists | a call works on the saved state: calls are atomic |
| `state_store_races` | 1 list thread, 1 service thread, 1 ingest thread | whatever stale state is written, foreign keys hold, the saved state is sound, no binding is revived, the cache is repaired |
| `state_store_list_unbinds` | a list thread and a service thread | *violation*, see below |
| `pairing_gate` | 2 accounts (one the default user) and requests without one, 2 handlers, ages to 4 | who becomes owner past the gate had a valid ticket of its own or of nobody's, no valid ticket that was there at the look is taken, camera requests pass |
| `pairing_gate_retries` | 2 accounts that only send station/add | retrying succeeds in the end |
| `cloud_media` | 2 connections of one camera, 3 captures, 1 notice, a list of 2, 2 seconds, 1 upset | stream codes stay unique, a capture is lost only in the known ways, a removal takes the files its records name and no others, bursts end |
| `services` | 3 stations and 6 DIDs, static mode; 3 order numbers and 2 payments, a list of 2, 3 cameras of 2 accounts; 5 notices, a list of 3; 4 tokens, lists of 2 and 3; 2 calls, 2 runs, 2 qualities; 3 accounts, 3 identifiers, 3 tokens | stations keep their DIDs, payments are known until their record is taken, a bind shows what it asks for, paging misses nothing, targets are tried, the control file agrees, identifiers stay |
| `station_dids_shared` | 3 stations, devices that report no DID | *violation*, see below |

Each run uses the smallest instance in which every hazard it is about can
occur. Three users are needed for a promotion to have a choice and for an owner
to be displaced by someone other than the leaver; two workers for a handler to
be overtaken by a like one; two slots for a scan to be granted another index
than it asked for and for both to be full (the code's 4 adds only more of the
same comparisons); one slot with two cameras for "no free slot". In
`camera_pairing` scans name one station and reports two, so a camera can be
claimed by the report of a station it is not paired with. Ages
1 < 2 < 3 keep all four intervals of the gate (too young, open, expired,
dropped) apart; the code's values only make them longer. Worker symmetry is
used where no liveness is checked.

In `cloud_media` three captures are one more than the list holds, two seconds
and two connections of one camera give captures that share a file name and
captures that do not, and the one notice can be taken twice (`Window` is 0: it
is taken for the captures of its own second). One upset at a time - a stop, a
failing ffmpeg, a stale list - keeps the causes of a loss apart; two of them only
excuse more. The clock stands still at `MaxTime`, but connections go on being
quiet, so that bursts still end. In `services` two payments for three orders are enough for one that two orders have
and one that is free, every list is shorter than what is
put into it, DIDs are fewer than stations and releases want, the three
identifiers are fewer than the columns of three accounts, and two calls with two
runs are enough for every overlap: a call that starts, one that stops or reuses,
and a run that was left behind. Calls, runs and qualities are interchangeable
and declared symmetric; the properties of the run are safety properties.

`CHECK_DEADLOCK` stays on everywhere: no instance can stop.

### Fairness

* `StateStore!FairSpec`: weak fairness of starting a list request (the app polls
  its lists, `fake_cloud_app/docs/FLOWS.md:140`) and strong fairness of answering
  it, because a restart may interrupt a request, but not each one.
* `PairingGate!Retrying`: time passes (strong, since a handler in the middle of
  its calls holds the clock back for at most `MaxStep`); a handler that has begun goes
  on; the user taps Next again, also while the gate is open; not every
  bootstrap and bind dies with a restart. Handlers are quicker than the lock's
  window (`MaxStep = 1`). Without these `RetriesSucceed` is false, and so it is
  if other clients renew the lock for ever: the run has nobody but the two
  accounts that send station/add.
* `CloudMedia!Fairness`: time passes, and a camera that stays connected pings the
  server (weak fairness of `Ping`, which is where the code looks at idle
  captures; it has no timer of its own). Nothing is assumed of media: either they
  come again and again, or the burst ends.

The components of `MCServices` have no liveness property and no fairness.

### Where the code and its documents disagree

* *Slot 0.* `int(slot.get("slotIndex", channel) or channel)`
  (`app/api/device.py:603`) takes index 0 for missing; the camera is recorded at
  the channel it asked for. `ARCHITECTURE.md:108` says the slot index is the
  channel. Run `camera_pairing_slot_zero`.
* *A list request undoes a binding* (`FLOWS.md:152`: lists do not modify state).
  Run `state_store_list_unbinds`. A removal is undone in the same way.
* *Two stations with one DID.* `app/store_domains/station.py:1081` says that a
  station keeps one canonical DID and that a duplicate makes apps pair with the
  wrong station; the check below it (`:1083`) is in a branch that only the
  default station reaches and asks for any other, so it never runs. Unbind the
  default station, let another one take its DID from the pool, bind it again.
  Run `station_dids_shared`.
* *Stable DIDs.* `station.py:948` says that derived mode keeps a station's DID. It
  does not when one of the codes is a placeholder, as those of the default settings
  are: each call that ensures the default station's DID while it is not mapped then
  generates one anew. `KeepsItsDid` is checked in static mode, the default; with
  `StaticMode = FALSE` in `Services.cfg` it is violated: unbind the default station,
  bind it (a generated DID), remove it, let it report (the configured DID), bind it.
  `FLOWS.md:188` says that a DID is generated for a user and a station, and `:195` that a
  new owner gets one anew; the code makes it of the station alone and keeps it when
  the owner changes, as `:948` explains.
* *Paid orders.* `finalize_storage_order` takes the first order with the number or the
  payment id and gives it the number it was called with. Nothing keeps two orders from one
  payment id (`app/store_domains/cloud.py:1576`) or one number (`:1684`). Create A
  and B with one payment P and finalise (A, P): if B is listed first it is found by P and
  becomes a second, paid A. Finalise (B, P): that record becomes B again, and the
  A that is left was never paid. `PaidUntilTaken` says that this is the only way
  (`TakenFrom`).

More follow from the models and have no run of their own: `FLOWS.md:93` says that only a
successful re-pairing clears a camera's tombstone, and the first scan does; a slot
reserved at a station that is not in `kv_state` is pruned by the handler's own
next load (`app/store_domains/pairing.py:283`); the ingest server's save can undo
a removal just as a list request can; a payment that is finalised twice gives a second
term (`app/store_domains/cloud.py:1678`); an owner that binds itself again as a
member leaves a station with members and no owner (`station.py:1341`, the `Join`
of `StationOwnership`); a camera that publishes anew on its connection loses the
capture it was writing (`rtmp_ingest_server.py:945`).

## The proofs

Every component has its theorems: `StationBinding`, `CameraPairing`, `StateStore`,
`PairingGate`, `CloudMedia` and `LivePipeline` in a module of their own,
`Accounts`, `Notices` and `PushTargets` in `AppProofs` (what an app has at the
service), `StationDids`, `CloudService` and `MCServices` in `ServicesProofs`. They
hold for any sets of users, stations, cameras, threads, processes, connections, runs and names and any
number of slots and seconds, from the named assumptions of the modules
(`DefaultsAssumption`, `PairingAssumption`, `StoreAssumption`, `IdleAssumption`,
`GateAssumption`, `MediaAssumption`, `NoFileAssumption`, `LiveAssumption`,
`AccountAssumption`, `NoticesAssumption`, `PushAssumption`, `CloudAssumption`,
`DidAssumption`). Every property of the passing runs but the three liveness
properties is stated by a theorem.

**StationBinding.** The inductive invariant `IInv` is the conjunction of the six
invariants of the run. They need each other: one owner per station is kept by a
save only because adoption happens where nobody is bound, which needs the
typing of the rows; promotion yields one owner only because the leaver's was the only
one. The argument is in two parts: `SaveFacts` and `SaveRows` say what a save
establishes from whatever rows it is given (the cache, the pruning and the
adoption are thus proved once), and each call is shown to give it rows with at
most one owner. The two action properties follow: a save adds nobody but the
adopting default user, so a new row, or a second owner, would have to be in the
rows the call wrote.

The refinement (`RowsImplementOwnership`) needs the invariant on both sides of a step. The
holder is defined by a choice, which `HolderFacts` takes out of the argument:
with one owner at most, holding is having the owner row. Then `ClaimStep`,
`JoinStep`, `LeaveStep` and `DisbandStep` say which change of one station's rows
is which abstract step, and each call needs to show only what it does to those
rows. That a save adopts nothing on the side (`SaveOf`) is where
`DefaultNeverOrphaned` is needed: otherwise an unbind of one station could be a
claim of the default station in the same step, which is no step of the
abstract specification.

**StateStore.** Two invariants. `SavedStateIsSound` under arbitrary stale writes
is inductive once strengthened from the saved state to every state some thread
holds in memory: each was saved once, so each is sound, and what a call makes of
a sound state is sound. `WorksOnSavedState` needs the lock discipline: a thread
that has loaded holds its process's lock, so with one process and no lister
nobody saved in between. It is proved under exactly that hypothesis, and
`RemovalHolds` and `BindingHolds` follow from it: a binding disappears only by an
unbind or with a station that `remove_station` removes, never by what another
call had in memory.

**CameraPairing.** `TombstonedIsAbsent` and `CameraHasStation` are nearly
inductive: every call writes a record together with its station and drops the
tombstone with it, and a save keeps what it is given. What is missing is what a
handler carries from call to call, since a call writes the record an earlier one
has made: `JobsHold` says that there is one, and that a reservation asks for a
channel a slot can have. The slot properties need `RowsTaken`: a row is never
neither pending nor active, or else `reserve_pairing_slot` would take a held one for
free. The action properties are not argued per property and per action:
`CameraChanges` says once how a step may change a camera, `SlotChanges` how it
may change a slot, and each property is read off them.

**PairingGate.** A handler acts on a look that is over, so the invariant relates
the age of the lock as it is now to `since`, the time since the look. Both grow
with the clock, and a mark makes the lock younger. Hence a valid lock that a
handler replaces was written after its look (`OnlyNewerLocksAreReplaced`), and the
lock a camera's request has renewed is still there and still valid at its second
look (`LockOutlastsHandler`, which gives `CameraScanPasses`). `OwnerHasTicket` has an
invariant of its own: a lock is no younger than the last request of its user id
(`LockHasTicket`), and a handler that has got past the gate has had a ticket that
was valid then, whatever has become of the lock since (`HasTicket`). It is
proved for requests of every identity, those without an account included.

**CloudMedia.** `IInv` adds to the properties what is under way: a list request
holds a library that could be saved (`ListingOK`), since what it saves is what it
has read, and an open capture has its frames in its file (`SessionsOK`), so that
it can be registered. Then a capture that has been started is running, excused or
watchable, and each action moves it from one to the next. The cap of the list is
a lemma about finite sets (`EvictionMakesRoom`). `RemovalsAreComplete` needs the
invariant only for the typing of files; it lets a removal whose unlink fails leave
a file.

**LivePipeline.** Next to nothing is invariant while calls overlap:
`StopsBelong` says who may be in the middle of a stop, and that a run that has
just begun is nobody's victim yet. Without an overlap the pipeline is in one of
three stages, `Off`, `Stopping` and `Running`, and `Stopping` is re-entered from
anything by a stop that begins alone; this is why orphans of earlier overlaps
need not be described. `StagesAgree` reads the property off the stages.

**Accounts.** The type invariant says that each column is unique.
`IdentifiersStay` is by cases over the columns: a registration's username finds
nobody in any column, its e-mail address is that username, and its mobile number
is no account's mobile number. If it is somebody's username, that somebody goes
on being found, since the columns are searched in a fixed order; this is why it does no harm
that a registration compares the number with one column only.

**Notices.** The list is a set in the order of ids, as a notice is inserted in
front with the next id; a page is what has fewer than so many before it. Two
lemmas carry the proof: such a part has no more than that many (`LatestNoticesAreFew`,
by counting places), and it is closed upwards (`LatestNoticesAreFirst`). Hence what an
app has read is what was there from the last notice read upwards (`Reading`), which
notices that are told, removed or pushed over the cap do not disturb.

**PushTargets.** That every kept token has a registration is not inductive:
tokens are kept by their first report and registrations by their last, so a token
that is kept and not reported again sinks in the list of registrations while
others are reported and given up above it. What bounds its depth is `Recent`: a
registration that is above it and whose token is not kept any more belongs to a token
that was ahead of it among the kept ones, as a token that is given up is the first of
them and a new one comes last. With a token in place *p* there are at most
`MaxTokens - p` such registrations, so at most `2 * MaxTokens - 1` are needed in
all; that is the assumption on the caps, the code's 10 and 20 satisfy it, and
with one registration less the property is false. The rest is counting: what a cut
drops has that many behind it (`CutDropsOldest`), what a renewal moves
(`RenewedIs`), and what a reversed or concatenated list holds.

**CloudService.** A number may be that of several orders, and asking for it is asking
for the first (`FirstPaid`). What a call does to the list is to leave an order
out, put one in where its key wants it, or replace one in its place; of each a lemma
says that the list stays sorted and whose first order it leaves (`WithoutIs`, `PutLeaves`,
`RemoveLeaves`, `ReplaceLeaves`). Only the order that is paid may leave the front of
its number, by taking another, and it comes first among those of the other: it
was found before any of them, and those behind it are no later (`FinalizedIs`). So
whoever is un-paid had its record taken (`KnownIsPaid`). The cameras are cut to
the capacity in the order of the request; `FewAreFirst`
says of any strict order that its first *n* are *n* at most. `BindShowsRequested` speaks of the
last call: every other call empties `asked`, and after a bind what is bound is the
first of what is preferred, of which none is cut when it is shown.

**StationDids.** A start seeds the pool and back-fills DIDs station by station;
what such a loop does is proved by counting up. `DidsAreKept` assumes static mode, or
that no DID has a placeholder code; of all stations but the default one it is proved
without (`OthersKeepTheirDids`). `LeastExists` takes the least
counterexample out of the well-foundedness of the naturals, `CountingUp` is the
induction, and `RunExists` says that the recursive function by which the loop is
defined exists. `KeepsItsDid` needs two facts that no property of the run states:
a station other than the default one that has a DID is mapped (`DidsAreMapped`),
so that it does not get to the pool a second time, and a station is mapped to what
its device has reported (`ReportsAreMapped`). Then a call changes nothing but at its
own station (`OnlyAt`), where the mapping decides; and a start, of which each
step keeps every DID, keeps them all (`Keeps` is transitive). One row per
station (`OneRow`) is kept by `Assigned`, which gives the other rows back.

**MCServices.** A behaviour of the services together is one of each of them
(`EachServiceRuns`), so the theorems about the six hold of it, and
`ServicesTypeOK` is their type invariants together.

**Model-checked only.** Liveness (`CacheRepaired`, `RetriesSucceed`,
`BurstsEnd`) is out of the prover's reach.

## Not modelled

* *HTTP front, web pages.* Routing, payload extraction, formatting, logging and
  catch-all answers, read-only views: no state of the service changes there.
* *MQTT mock broker.* It serves one client after another in one loop and keeps
  nothing of a connection that has ended.
* *Legacy HTTPS mock, native bridge, probes.* The superseded single-file mock, a
  packet bridge to a closed library and command-line tools.
* *Ingest server.* The handshake, demultiplexing, decryption and ffmpeg are input
  and output; the HLS publisher is constructed by nothing.
* *Caps on tombstones.* The code keeps the last 1000 of cameras and 500 of stations
  (`app/store.py:782`, `:795`); `CameraPairing` and `StationBinding` keep them all, so
  a device that was removed that long ago and still reports is out of their scope.
* *Live pipeline.* Waking the camera and the commands to the station are input and
  output that come before a call begins; how the scripts find their directory.
* *State store.* Schema migration; the JSON snapshot, whose `.bak` is
  written in place (`app/store.py:247`); the service itself reads neither copy.
* *Pairing gate.* The request log, events and session keys; the token maps of stations
  (`app/store_domains/runtime.py:174-211`), which keep the last 100 entries of a
  dictionary that was saved with sorted keys, so the survivors depend on the
  order of random strings. A lock outlives its station and its owner's unbind
  until it is too old (`:226`); `PairingGate` has the lock without the station's record.
* *Messages.* The content of a notice, its filters, and
  `refresh_messages_from_station_if_needed`, which nothing calls.
* *Records' other fields.* Nicknames, settings, status fields. A battery of 0 is
  taken for missing in one place (`app/store_domains/camera.py:176`).

What could come next: the composition of `StationDids` with `StationBinding`,
which share the bind and unbind calls, and an abstract specification of the
storage service (what is paid for, until when, and who may record) for
`CloudService` to implement. And a theorem that says how far
`OneStationPerDid` is wrong: whether no two stations share a DID as long as no
station record is dropped and the default station is never unbound, with
devices that report no DID of their own.
