-------------------------- MODULE PairingGateProofs --------------------------
(***************************************************************************)
(* Proofs about PairingGate, for any accounts, threads, identities and     *)
(* ages.  A handler acts on a look at the lock that is over: the invariant *)
(* relates the age of the lock, as it is now, to the time since the look.  *)
(***************************************************************************)
EXTENDS PairingGate, TLAPS

\* A handler that has renewed the lock finds one that is no older.
LockOutlastsHandler ==
  \A w \in Workers :
    At(w, "rescan") /\ handler[w].since <= MaxAge => lock # NoLock /\ age <= handler[w].since

\* The inductive invariant.
IInv ==
  /\ TypeOK
  /\ OnlyNewerLocksAreReplaced
  /\ LockOutlastsHandler

\* What the types say of a handler under way.
LEMMA HandlerFacts ==
  ASSUME TypeOK, NEW w \in Workers, handler[w] # Idle
  PROVE  /\ handler[w] \in Handlers
         /\ handler[w].at \in Stages /\ handler[w].who \in Identities
         /\ handler[w].since \in Ages
  BY DEF TypeOK, Handlers

\* A request carries a user's id or none, and stands for a user.
LEMMA IdentityFacts ==
  ASSUME NEW c \in Identities
  PROVE  /\ Uid(c) \in Users \cup {NoUser} /\ Named(c) \in Users
         /\ [c EXCEPT !.uid = Uid(c)] \in Identities
         /\ [c EXCEPT !.uid = Uid(c)] # NoLock
         /\ Uid([c EXCEPT !.uid = Uid(c)]) = Uid(c)
  <1>1. c.token \in Users \cup {NoUser} /\ c.uid \in Users \cup {NoUser} /\ c.account \in Users \cup {NoUser}
    BY DEF Identities
  <1>2. Uid(c) \in Users \cup {NoUser}
    BY <1>1 DEF Uid
  <1>3. [c EXCEPT !.uid = Uid(c)] \in Identities
    BY <1>2 DEF Identities
  <1>4. Uid([c EXCEPT !.uid = Uid(c)]) = Uid(c)
    <2>1. /\ [c EXCEPT !.uid = Uid(c)].uid = Uid(c)
          /\ [c EXCEPT !.uid = Uid(c)].token = c.token
      BY DEF Identities
    <2> QED BY <2>1 DEF Uid
  <1>5. Named(c) \in Users
    BY <1>1, GateAssumption DEF Named
  <1> QED BY <1>2, <1>3, <1>4, <1>5, GateAssumption

\* Every request comes with an identity.
LEMMA RequestIdentities ==
  /\ Callers \subseteq Identities /\ Binders \subseteq Identities
  /\ Askers \subseteq Identities /\ Scanners \subseteq Identities
  BY GateAssumption

\* The ages: adding a second stays in range and keeps the order.
LEMMA AgeFacts ==
  ASSUME NEW a \in Ages, NEW b \in Ages
  PROVE  /\ Older(a) \in Ages /\ 0 \in Ages
         /\ a <= b => Older(a) <= Older(b)
         /\ a <= Older(a)
         /\ Older(a) <= MaxAge => Older(a) = a + 1 /\ a <= MaxAge
  BY GateAssumption DEF Ages, Older

(***************************************************************************)
(* Every step is a look, a mark, a bind, or one that leaves the lock.      *)
(***************************************************************************)

\* A look; a handler that goes on to write a lock has seen none it could use.
LookStep ==
  /\ Look
  /\ \/ UNCHANGED handler
     \/ \E w \in Workers : Ends(w)
     \/ \E w \in Workers, c \in Callers : Goes(w, "bind", c) /\ Ready(c, MinAge)
     \/ \E w \in Workers : At(w, "regate") /\ Goes(w, "bind", handler[w].who) /\ Ready(handler[w].who, MinAge)
     \/ \E w \in Workers, c \in Callers : Goes(w, "bootstrap", c) /\ Current = NoLock
     \/ \E w \in Workers, c \in Scanners : Goes(w, "relock", c) /\ (Current = NoLock \/ age > MaxAge)

\* A mark, by a handler or by a request that does nothing else at the gate.
MarkStep ==
  /\ UNCHANGED <<reportedNow, owner>>
  /\ removed' \in {removed, FALSE}
  /\ \/ \E c \in Askers : Mark(c) /\ UNCHANGED handler
     \/ \E w \in Workers : At(w, "bootstrap") /\ Mark(handler[w].who) /\ Goes(w, "regate", handler[w].who)
     \/ \E w \in Workers : At(w, "relock") /\ Mark(handler[w].who) /\ Goes(w, "rescan", handler[w].who)

\* Next, by what a step does to the lock.
LEMMA NextCases ==
  ASSUME Next
  PROVE  \/ LookStep
         \/ MarkStep
         \/ \E w \in Workers : Bind(w)
         \/ \E c \in Binders : StationBind(c)
         \/ SetStation \/ Report \/ RemoveStation \/ Tick \/ Restart
  <1>1. ASSUME NEW w \in Workers, NEW c \in Callers, StationAdd(w, c) \/ StationClaim(w, c)
        PROVE  LookStep
    BY <1>1 DEF StationAdd, StationClaim, NeedsLock, LockRequired, LookStep
  <1>2. ASSUME NEW w \in Workers, NEW c \in Scanners, CameraScan(w, c)
        PROVE  LookStep
    BY <1>2 DEF CameraScan, LockRequired, LockExpired, LookStep
  <1>3. ASSUME NEW w \in Workers, Regate(w) \/ Rescan(w)
        PROVE  LookStep
    BY <1>3 DEF Regate, Rescan, LookStep
  <1>4. ASSUME NEW c \in Callers, Blocked(c)
        PROVE  LookStep
    BY <1>4 DEF Blocked, LookStep
  <1>5. ASSUME NEW w \in Workers, Bootstrap(w) \/ Relock(w)
        PROVE  MarkStep
    BY <1>5 DEF Bootstrap, Relock, MarkStep
  <1>6. ASSUME NEW c \in Askers, CheckBindStatus(c) \/ StationLock(c)
        PROVE  MarkStep
    BY <1>6 DEF CheckBindStatus, StationLock, MarkStep
  <1> QED BY <1>1, <1>2, <1>3, <1>4, <1>5, <1>6 DEF Next, Request, Continue

(***************************************************************************)
(* Types.                                                                  *)
(***************************************************************************)

\* A handler's place after a call.
LEMMA GoesTyped ==
  ASSUME TypeOK, NEW w \in Workers, NEW where \in Stages, NEW c \in Identities,
         Goes(w, where, c) \/ Ends(w)
  PROVE  /\ handler' \in [Workers -> Handlers \cup {Idle}]
         /\ \A v \in Workers : v # w => handler'[v] = handler[v]
         /\ handler'[w] = Idle \/ handler'[w] = [at |-> where, who |-> c, since |-> 0]
  <1>1. 0 \in Ages
    BY GateAssumption DEF Ages
  <1>2. [at |-> where, who |-> c, since |-> 0] \in Handlers
    BY <1>1 DEF Handlers
  <1> QED BY <1>2 DEF Goes, Ends, TypeOK

\* A look at the lock, with whatever the handler does.
LEMMA LookTyped ==
  ASSUME TypeOK, Look, handler' \in [Workers -> Handlers \cup {Idle}]
  PROVE  TypeOK'
  BY DEF Look, Current, TypeOK

\* A mark, with whatever the handler does.
LEMMA MarkTyped ==
  ASSUME TypeOK, NEW c \in Identities, Mark(c), UNCHANGED <<reportedNow, owner>>,
         removed' \in BOOLEAN, handler' \in [Workers -> Handlers \cup {Idle}]
  PROVE  TypeOK'
  <1>1. lock' \in Identities
    BY IdentityFacts DEF Mark
  <1>2. age' \in Ages /\ askedAge' \in [Users \cup {NoUser} -> Ages]
    <2>1. 0 \in Ages
      BY GateAssumption DEF Ages
    <2> QED BY <2>1 DEF Mark, TypeOK
  <1> QED BY <1>1, <1>2 DEF Mark, TypeOK

\* Every step keeps the types.
LEMMA NextKeepsTypes ==
  ASSUME TypeOK, [Next]_vars
  PROVE  TypeOK'
  <1>1. CASE LookStep
    <2>1. handler' \in [Workers -> Handlers \cup {Idle}]
      <3>1. ASSUME NEW w \in Workers, Ends(w) PROVE handler' \in [Workers -> Handlers \cup {Idle}]
        BY <3>1 DEF Ends, TypeOK
      <3>2. ASSUME NEW w \in Workers, At(w, "regate"), Goes(w, "bind", handler[w].who)
            PROVE  handler' \in [Workers -> Handlers \cup {Idle}]
        BY <3>2, HandlerFacts, GoesTyped DEF At, Stages
      <3>3. ASSUME NEW w \in Workers, NEW c \in Callers \cup Scanners, NEW where \in Stages, Goes(w, where, c)
            PROVE  handler' \in [Workers -> Handlers \cup {Idle}]
        BY <3>3, RequestIdentities, GoesTyped
      <3>4. CASE UNCHANGED handler
        BY <3>4 DEF TypeOK
      <3>5. {"bind", "bootstrap", "relock"} \subseteq Stages
        BY DEF Stages
      <3> QED BY <1>1, <3>1, <3>2, <3>3, <3>4, <3>5 DEF LookStep
    <2> QED BY <1>1, <2>1, LookTyped DEF LookStep
  <1>2. CASE MarkStep
    <2>1. ASSUME NEW c \in Identities, Mark(c), handler' \in [Workers -> Handlers \cup {Idle}]
          PROVE  TypeOK'
      <3>1. UNCHANGED <<reportedNow, owner>> /\ removed' \in BOOLEAN
        BY <1>2 DEF MarkStep, TypeOK
      <3> QED BY <2>1, <3>1, MarkTyped
    <2>2. ASSUME NEW c \in Askers, Mark(c), UNCHANGED handler PROVE TypeOK'
      <3>1. handler' \in [Workers -> Handlers \cup {Idle}]
        BY <2>2 DEF TypeOK
      <3> QED BY <2>1, <2>2, <3>1, RequestIdentities
    <2>3. ASSUME NEW w \in Workers, handler[w] # Idle, Mark(handler[w].who),
                 NEW where \in {"regate", "rescan"}, Goes(w, where, handler[w].who)
          PROVE  TypeOK'
      <3>1. handler[w].who \in Identities /\ where \in Stages
        BY <2>3, HandlerFacts DEF Stages
      <3> QED BY <2>1, <2>3, <3>1, GoesTyped
    <2> QED BY <1>2, <2>2, <2>3 DEF MarkStep, At
  <1>3. ASSUME NEW u \in Users, BindOwner(u), handler' \in [Workers -> Handlers \cup {Idle}]
        PROVE  TypeOK'
    <2>1. owner' \in Users \cup {NoUser} /\ removed' \in BOOLEAN
      BY <1>3 DEF BindOwner, TypeOK
    <2> QED BY <1>3, <2>1 DEF BindOwner, TypeOK
  <1>8. ASSUME NEW w \in Workers, Bind(w) PROVE TypeOK'
    <2>1. Named(handler[w].who) \in Users
      BY <1>8, HandlerFacts, IdentityFacts DEF Bind, At
    <2>2. handler' \in [Workers -> Handlers \cup {Idle}]
      BY <1>8 DEF Bind, Ends, TypeOK
    <2> QED BY <1>3, <1>8, <2>1, <2>2 DEF Bind
  <1>9. ASSUME NEW c \in Binders, StationBind(c) PROVE TypeOK'
    <2>1. Named(c) \in Users
      BY RequestIdentities, IdentityFacts
    <2>2. handler' \in [Workers -> Handlers \cup {Idle}]
      BY <1>9 DEF StationBind, TypeOK
    <2> QED BY <1>3, <1>9, <2>1, <2>2 DEF StationBind
  <1>4. CASE SetStation \/ Report \/ RemoveStation
    BY <1>4 DEF SetStation, Report, RemoveStation, TypeOK
  <1>5. CASE Tick
    <2>1. age' \in Ages
      BY <1>5, AgeFacts DEF Tick, TypeOK
    <2>2. \A w \in Workers : handler[w] # Idle => [handler[w] EXCEPT !.since = Older(@)] \in Handlers
      <3> SUFFICES ASSUME NEW w \in Workers, handler[w] # Idle
                   PROVE  [handler[w] EXCEPT !.since = Older(@)] \in Handlers
        OBVIOUS
      <3>1. handler[w] \in Handlers /\ Older(handler[w].since) \in Ages
        BY HandlerFacts, AgeFacts
      <3> QED BY <3>1 DEF Handlers
    <2>3. handler' \in [Workers -> Handlers \cup {Idle}]
      BY <1>5, <2>2 DEF Tick
    <2>4. askedAge' \in [Users \cup {NoUser} -> Ages]
      BY <1>5, AgeFacts DEF Tick, TypeOK
    <2> QED BY <1>5, <2>1, <2>3, <2>4 DEF Tick, TypeOK
  <1>6. CASE Restart
    BY <1>6 DEF Restart, TypeOK
  <1>7. CASE UNCHANGED vars
    BY <1>7 DEF vars, TypeOK
  <1> QED BY <1>1, <1>2, <1>4, <1>5, <1>6, <1>7, <1>8, <1>9, NextCases

(***************************************************************************)
(* A ticket that replaces another.                                         *)
(***************************************************************************)

\* A handler that a step leaves where it is.
LEMMA UntouchedHandler ==
  ASSUME NEW w \in Workers, handler'[w] = handler[w], NEW where
  PROVE  At(w, where)' <=> At(w, where)
  BY DEF At

\* A look: a handler that goes on to write a lock leaves none that is valid.
LEMMA LookKeepsNewer ==
  ASSUME IInv, TypeOK', LookStep
  PROVE  OnlyNewerLocksAreReplaced'
  <1> SUFFICES ASSUME NEW w \in Workers, At(w, "bootstrap")' \/ At(w, "relock")',
                      lock' # NoLock, age' <= MaxAge
               PROVE  age' <= handler'[w].since
    BY DEF OnlyNewerLocksAreReplaced
  <1>1. Current # NoLock /\ Current = lock /\ age' = age
    BY DEF LookStep, Look, Current
  <1>2. ASSUME handler'[w] = handler[w] PROVE age' <= handler'[w].since
    <2>1. At(w, "bootstrap") \/ At(w, "relock")
      BY <1>2, UntouchedHandler
    <2> QED BY <1>1, <1>2, <2>1 DEF IInv, OnlyNewerLocksAreReplaced
  <1>3. ASSUME NEW v \in Workers, NEW where \in {"bind", "bootstrap", "relock"}, NEW c \in Identities,
               Goes(v, where, c) \/ Ends(v), where # "bind" => age > MaxAge
        PROVE  age' <= handler'[w].since
    <2>1. /\ v # w => handler'[w] = handler[w]
          /\ handler'[v] = Idle \/ handler'[v] = [at |-> where, who |-> c, since |-> 0]
      <3>1. where \in Stages
        BY DEF Stages
      <3> QED BY <1>3, <3>1, GoesTyped DEF IInv
    <2>2. where = "bind"
      BY <1>1, <1>3, GateAssumption DEF IInv, TypeOK, Ages
    <2>3. v # w
      BY <2>1, <2>2 DEF At
    <2> QED BY <1>2, <2>1, <2>3
  <1>4. ASSUME NEW v \in Workers, At(v, "regate"), Goes(v, "bind", handler[v].who)
        PROVE  age' <= handler'[w].since
    <2>1. handler[v].who \in Identities
      BY <1>4, HandlerFacts DEF IInv, At
    <2> QED BY <1>3, <1>4, <2>1
  <1>5. ASSUME NEW v \in Workers, Ends(v) PROVE age' <= handler'[w].since
    <2>1. Anonymous \in Identities
      BY DEF Identities, Anonymous
    <2>2. "bind" \in {"bind", "bootstrap", "relock"}
      OBVIOUS
    <2> QED BY <2>1, <2>2, <1>5, <1>3
  <1> QED BY <1>1, <1>2, <1>3, <1>4, <1>5, RequestIdentities DEF LookStep

\* A mark: the new lock is of now.
LEMMA MarkKeepsNewer ==
  ASSUME IInv, TypeOK', MarkStep
  PROVE  OnlyNewerLocksAreReplaced'
  <1> SUFFICES ASSUME NEW w \in Workers, At(w, "bootstrap")' \/ At(w, "relock")'
               PROVE  age' <= handler'[w].since
    BY DEF OnlyNewerLocksAreReplaced
  <1>1. age' = 0
    BY DEF MarkStep, Mark
  <1>2. handler'[w].since \in Ages
    BY DEF At, TypeOK, Handlers
  <1> QED BY <1>1, <1>2, GateAssumption DEF Ages

\* The clock: lock and look grow older together.
LEMMA TickKeepsNewer ==
  ASSUME IInv, Tick
  PROVE  OnlyNewerLocksAreReplaced'
  <1> SUFFICES ASSUME NEW w \in Workers, At(w, "bootstrap")' \/ At(w, "relock")',
                      lock' # NoLock, age' <= MaxAge
               PROVE  age' <= handler'[w].since
    BY DEF OnlyNewerLocksAreReplaced
  <1>1. handler[w] # Idle /\ handler'[w] = [handler[w] EXCEPT !.since = Older(@)]
    BY DEF Tick, At
  <1>2. handler[w] \in Handlers /\ handler[w].since \in Ages /\ age \in Ages
    BY <1>1, HandlerFacts DEF IInv, TypeOK
  <1>3. handler'[w].at = handler[w].at /\ handler'[w].since = Older(handler[w].since)
    BY <1>1, <1>2 DEF Handlers
  <1>4. At(w, "bootstrap") \/ At(w, "relock")
    BY <1>1, <1>3 DEF At
  <1>5. lock # NoLock /\ age' = Older(age)
    BY DEF Tick
  <1>6. age <= MaxAge
    BY <1>2, <1>5, AgeFacts
  <1>7. age <= handler[w].since
    BY <1>4, <1>5, <1>6 DEF IInv, OnlyNewerLocksAreReplaced
  <1> QED BY <1>2, <1>3, <1>5, <1>7, AgeFacts

(***************************************************************************)
(* A lock that outlasts its handler.                                       *)
(***************************************************************************)

\* A look drops no lock that is as young as a handler may be old.
LEMMA LookKeepsLock ==
  ASSUME IInv, TypeOK', LookStep
  PROVE  LockOutlastsHandler'
  <1> SUFFICES ASSUME NEW w \in Workers, At(w, "rescan")', handler'[w].since <= MaxAge
               PROVE  lock' # NoLock /\ age' <= handler'[w].since
    BY DEF LockOutlastsHandler
  <1>1. ASSUME handler'[w] = handler[w] PROVE lock' # NoLock /\ age' <= handler'[w].since
    <2>1. lock # NoLock /\ age <= handler[w].since /\ handler[w].since <= MaxAge
      BY <1>1, UntouchedHandler DEF IInv, LockOutlastsHandler
    <2>2. age \in Ages /\ handler[w].since \in Ages
      BY <1>1, HandlerFacts DEF IInv, TypeOK, At
    <2>3. ~(age > KeepAge)
      BY <2>1, <2>2, GateAssumption DEF Ages
    <2> QED BY <1>1, <2>1, <2>3 DEF LookStep, Look, Current
  <1>2. ASSUME NEW v \in Workers, NEW where \in {"bind", "bootstrap", "relock"}, NEW c \in Identities,
               Goes(v, where, c) \/ Ends(v)
        PROVE  lock' # NoLock /\ age' <= handler'[w].since
    <2>1. /\ v # w => handler'[w] = handler[w]
          /\ handler'[v] = Idle \/ handler'[v] = [at |-> where, who |-> c, since |-> 0]
      <3>1. where \in Stages
        BY DEF Stages
      <3> QED BY <1>2, <3>1, GoesTyped DEF IInv
    <2>2. v # w
      BY <2>1 DEF At
    <2> QED BY <1>1, <2>1, <2>2
  <1>3. ASSUME NEW v \in Workers, At(v, "regate"), Goes(v, "bind", handler[v].who)
        PROVE  lock' # NoLock /\ age' <= handler'[w].since
    <2>1. handler[v].who \in Identities
      BY <1>3, HandlerFacts DEF IInv, At
    <2> QED BY <1>2, <1>3, <2>1
  <1>4. ASSUME NEW v \in Workers, Ends(v) PROVE lock' # NoLock /\ age' <= handler'[w].since
    <2>1. Anonymous \in Identities
      BY DEF Identities, Anonymous
    <2>2. "bind" \in {"bind", "bootstrap", "relock"}
      OBVIOUS
    <2> QED BY <2>1, <2>2, <1>4, <1>2
  <1> QED BY <1>1, <1>2, <1>3, <1>4, RequestIdentities DEF LookStep

\* A mark leaves a lock of age 0.
LEMMA MarkKeepsLock ==
  ASSUME IInv, TypeOK', MarkStep
  PROVE  LockOutlastsHandler'
  <1> SUFFICES ASSUME NEW w \in Workers, At(w, "rescan")'
               PROVE  lock' # NoLock /\ age' <= handler'[w].since
    BY DEF LockOutlastsHandler
  <1>1. ASSUME NEW c \in Identities, Mark(c) PROVE age' = 0 /\ lock' # NoLock
    BY <1>1, IdentityFacts DEF Mark
  <1>2. \A v \in Workers : At(v, "bootstrap") \/ At(v, "relock") => handler[v].who \in Identities
    BY HandlerFacts DEF IInv, At
  <1>3. age' = 0 /\ lock' # NoLock
    BY <1>1, <1>2, RequestIdentities DEF MarkStep
  <1>4. handler'[w].since \in Ages
    BY DEF At, TypeOK, Handlers
  <1> QED BY <1>3, <1>4, GateAssumption DEF Ages

\* The clock.
LEMMA TickKeepsLock ==
  ASSUME IInv, Tick
  PROVE  LockOutlastsHandler'
  <1> SUFFICES ASSUME NEW w \in Workers, At(w, "rescan")', handler'[w].since <= MaxAge
               PROVE  lock' # NoLock /\ age' <= handler'[w].since
    BY DEF LockOutlastsHandler
  <1>1. handler[w] # Idle /\ handler'[w] = [handler[w] EXCEPT !.since = Older(@)]
    BY DEF Tick, At
  <1>2. handler[w] \in Handlers /\ handler[w].since \in Ages /\ age \in Ages
    BY <1>1, HandlerFacts DEF IInv, TypeOK
  <1>3. handler'[w].at = handler[w].at /\ handler'[w].since = Older(handler[w].since)
    BY <1>1, <1>2 DEF Handlers
  <1>4. At(w, "rescan") /\ handler[w].since <= MaxAge
    BY <1>1, <1>2, <1>3, AgeFacts DEF At
  <1>5. lock # NoLock /\ age <= handler[w].since
    BY <1>4 DEF IInv, LockOutlastsHandler
  <1> QED BY <1>2, <1>3, <1>5, AgeFacts DEF Tick

\* Every step keeps the invariant.
LEMMA NextKeepsInvariant ==
  ASSUME IInv, [Next]_vars
  PROVE  IInv'
  <1>1. TypeOK'
    BY NextKeepsTypes DEF IInv
  <1>2. CASE LookStep
    BY <1>1, <1>2, LookKeepsNewer, LookKeepsLock DEF IInv
  <1>3. CASE MarkStep
    BY <1>1, <1>3, MarkKeepsNewer, MarkKeepsLock DEF IInv
  <1>4. CASE Tick
    BY <1>1, <1>4, TickKeepsNewer, TickKeepsLock DEF IInv
  <1>5. ASSUME UNCHANGED <<lock, age>>, \A w \in Workers : handler'[w] \in {handler[w], Idle}
        PROVE  IInv'
    <2>1. ASSUME NEW w \in Workers, NEW where, At(w, where)'
          PROVE  At(w, where) /\ handler'[w].since = handler[w].since
      BY <1>5, <2>1 DEF At
    <2>2. OnlyNewerLocksAreReplaced'
      BY <1>5, <2>1 DEF IInv, OnlyNewerLocksAreReplaced
    <2>3. LockOutlastsHandler'
      BY <1>5, <2>1 DEF IInv, LockOutlastsHandler
    <2> QED BY <1>1, <2>2, <2>3 DEF IInv
  <1>6. ASSUME NEW w \in Workers, Bind(w) PROVE IInv'
    <2>1. \A v \in Workers : handler'[v] \in {handler[v], Idle}
      BY <1>6 DEF Bind, Ends, IInv, TypeOK
    <2>2. UNCHANGED <<lock, age>>
      BY <1>6 DEF Bind, BindOwner
    <2> QED BY <1>5, <2>1, <2>2
  <1>7. CASE SetStation \/ Report \/ RemoveStation \/ UNCHANGED vars
    BY <1>5, <1>7 DEF SetStation, Report, RemoveStation, vars
  <1>8. CASE Restart
    BY <1>5, <1>8 DEF Restart
  <1>9. ASSUME NEW c \in Binders, StationBind(c) PROVE IInv'
    BY <1>5, <1>9 DEF StationBind, BindOwner
  <1> QED BY <1>2, <1>3, <1>4, <1>6, <1>7, <1>8, <1>9, NextCases

\* Nothing is under way in the beginning.
LEMMA InitEstablishesInvariant == Init => IInv
  <1> SUFFICES ASSUME Init PROVE IInv
    OBVIOUS
  <1>1. TypeOK
    <2>1. 0 \in Ages /\ KeepAge + 1 \in Ages
      BY GateAssumption DEF Ages
    <2> QED BY <2>1 DEF Init, TypeOK
  <1>2. \A w \in Workers, where \in Stages : ~At(w, where)
    BY DEF Init, At
  <1> QED BY <1>1, <1>2 DEF IInv, OnlyNewerLocksAreReplaced, LockOutlastsHandler, Stages

\* The invariant holds in every reachable state.
THEOREM InvariantHolds == Spec => []IInv
  <1> QED BY InitEstablishesInvariant, NextKeepsInvariant, PTL DEF Spec

\* Every variable stays in its type.
THEOREM TypeCorrect == Spec => []TypeOK
  <1>1. IInv => TypeOK
    BY DEF IInv
  <1> QED BY <1>1, InvariantHolds, PTL

\* A handler that found no usable lock replaces no valid one that it could
\* have found: the lock was written since (station_add and the camera scans
\* between their gate and mark_station_pairing_lock).
THEOREM LocksTakenAreNewer == Spec => []OnlyNewerLocksAreReplaced
  <1>1. IInv => OnlyNewerLocksAreReplaced
    BY DEF IInv
  <1> QED BY <1>1, InvariantHolds, PTL

\* Having renewed the lock, camera/check-bind-status-by-iot and
\* camera/add-blind find the gate open, whatever others do to the lock.
THEOREM CameraRequestsPass == Spec => []CameraScanPasses
  <1>1. IInv => CameraScanPasses
    <2> SUFFICES ASSUME IInv, NEW w \in Workers, At(w, "rescan"), handler[w].since <= MaxAge
                 PROVE  Ready(Anonymous, 0)
      BY DEF CameraScanPasses
    <2>1. lock # NoLock /\ age <= handler[w].since
      BY DEF IInv, LockOutlastsHandler
    <2>2. age \in Ages /\ handler[w].since \in Ages
      BY HandlerFacts DEF IInv, TypeOK, At
    <2>3. age <= MaxAge /\ ~(age > KeepAge) /\ age >= 0
      BY <2>1, <2>2, GateAssumption DEF Ages
    <2>4. ~Mismatch(lock, Anonymous)
      BY DEF Mismatch, Differ, Anonymous, Uid
    <2> QED BY <2>1, <2>3, <2>4 DEF Ready, Current
  <1> QED BY <1>1, InvariantHolds, PTL

(***************************************************************************)
(* The owner and the ticket.                                               *)
(***************************************************************************)

\* A lock is as old as the last request for it, or older.
LockHasTicket == lock # NoLock => askedAge[Uid(lock)] <= age

\* A handler that has got past the gate has a ticket that was valid then.
HasTicket(w) ==
  At(w, "bind") =>
    \E u \in TicketsFor(handler[w].who) : askedAge[u] <= MaxAge + handler[w].since

\* The inductive invariant of the owner.
TicketInv == TypeOK /\ LockHasTicket /\ \A w \in Workers : HasTicket(w)

\* The lock that lets a request pass is a ticket for it.
LEMMA ReadyHasTicket ==
  ASSUME TypeOK, LockHasTicket, NEW c \in Identities, NEW min, Ready(c, min)
  PROVE  \E u \in TicketsFor(c) : askedAge[u] <= MaxAge
  <1>1. lock # NoLock /\ lock \in Identities /\ age <= MaxAge /\ ~Mismatch(lock, c)
    BY DEF Ready, Current, TypeOK
  <1>2. Uid(lock) \in Users \cup {NoUser} /\ Uid(c) \in Users \cup {NoUser}
    BY <1>1, IdentityFacts
  <1>3. Uid(lock) \in TicketsFor(c)
    BY <1>1, <1>2 DEF TicketsFor, Mismatch, Differ
  <1>4. askedAge[Uid(lock)] <= age
    BY <1>1 DEF LockHasTicket
  <1>5. askedAge[Uid(lock)] \in Ages /\ age \in Ages
    BY <1>2 DEF TypeOK
  <1>6. askedAge[Uid(lock)] <= MaxAge
    BY <1>1, <1>4, <1>5, GateAssumption DEF Ages
  <1> QED BY <1>3, <1>6

\* The ages of the tickets for a request are numbers.
LEMMA TicketFacts ==
  ASSUME TypeOK, NEW c \in Identities, NEW u \in TicketsFor(c)
  PROVE  u \in Users \cup {NoUser} /\ askedAge[u] \in Ages
  <1>1. u \in Users \cup {NoUser}
    BY IdentityFacts DEF TicketsFor
  <1> QED BY <1>1 DEF TypeOK

\* A mark is a ticket of now, and no ticket grows older by it.
LEMMA MarkFacts ==
  ASSUME TypeOK, NEW c \in Identities, Mark(c)
  PROVE  /\ LockHasTicket'
         /\ \A u \in Users \cup {NoUser} : askedAge'[u] <= askedAge[u]
  <1>1. Uid(c) \in Users \cup {NoUser}
    BY IdentityFacts
  <1>2. askedAge' = [askedAge EXCEPT ![Uid(c)] = 0] /\ age' = 0
    BY DEF Mark
  <1>3. Uid(lock') = Uid(c)
    BY IdentityFacts DEF Mark
  <1>4. askedAge'[Uid(c)] = 0
    BY <1>1, <1>2 DEF TypeOK
  <1>5. LockHasTicket'
    BY <1>2, <1>3, <1>4 DEF LockHasTicket
  <1>6. \A u \in Users \cup {NoUser} : askedAge[u] \in Ages /\ askedAge'[u] \in {askedAge[u], 0}
    BY <1>2 DEF TypeOK
  <1> QED BY <1>5, <1>6, GateAssumption DEF Ages

\* A handler that stays where it is keeps its ticket while tickets do not age.
LEMMA TicketKept ==
  ASSUME TypeOK, NEW w \in Workers, HasTicket(w), handler'[w] \in {handler[w], Idle},
         askedAge' \in [Users \cup {NoUser} -> Ages],
         \A u \in Users \cup {NoUser} : askedAge'[u] <= askedAge[u]
  PROVE  HasTicket(w)'
  <1> SUFFICES ASSUME At(w, "bind")'
               PROVE  \E u \in TicketsFor(handler'[w].who) : askedAge'[u] <= MaxAge + handler'[w].since
    BY DEF HasTicket, TicketsFor
  <1>1. handler'[w] = handler[w] /\ At(w, "bind")
    BY DEF At
  <1>2. handler[w].who \in Identities /\ handler[w].since \in Ages
    BY <1>1, HandlerFacts DEF At
  <1>3. PICK u \in TicketsFor(handler[w].who) : askedAge[u] <= MaxAge + handler[w].since
    BY <1>1 DEF HasTicket
  <1>4. /\ u \in Users \cup {NoUser} /\ askedAge[u] \in Ages /\ askedAge'[u] \in Ages
        /\ askedAge'[u] <= askedAge[u]
    BY <1>2, TicketFacts
  <1>5. askedAge'[u] <= MaxAge + handler[w].since
    BY <1>2, <1>3, <1>4, GateAssumption DEF Ages
  <1> QED BY <1>1, <1>5

\* A look lets a handler pass on the lock's ticket only.
LEMMA LookKeepsTickets ==
  ASSUME TicketInv, TypeOK', LookStep
  PROVE  LockHasTicket' /\ \A w \in Workers : HasTicket(w)'
  <1>1. askedAge' = askedAge /\ age' = age /\ lock' \in {lock, NoLock}
    BY DEF LookStep, Look, Current
  <1>2. LockHasTicket'
    BY <1>1 DEF TicketInv, LockHasTicket
  <1>3. /\ askedAge' \in [Users \cup {NoUser} -> Ages]
        /\ \A u \in Users \cup {NoUser} : askedAge'[u] <= askedAge[u]
    BY <1>1, GateAssumption DEF TicketInv, TypeOK, Ages
  <1>4. ASSUME NEW w \in Workers, handler'[w] \in {handler[w], Idle} PROVE HasTicket(w)'
    BY <1>3, <1>4, TicketKept DEF TicketInv
  <1>5. ASSUME NEW v \in Workers, NEW where \in {"bind", "bootstrap", "relock"}, NEW c \in Identities,
               Goes(v, where, c), where = "bind" => Ready(c, MinAge), NEW w \in Workers
        PROVE  HasTicket(w)'
    <2>1. /\ v # w => handler'[w] = handler[w]
          /\ handler'[v] = Idle \/ handler'[v] = [at |-> where, who |-> c, since |-> 0]
      <3>1. where \in Stages
        BY DEF Stages
      <3> QED BY <1>5, <3>1, GoesTyped DEF TicketInv
    <2>2. CASE v # w \/ handler'[v] = Idle
      BY <1>4, <2>1, <2>2
    <2>3. CASE v = w /\ handler'[v] = [at |-> where, who |-> c, since |-> 0]
      <3> SUFFICES ASSUME At(w, "bind")'
                   PROVE  \E u \in TicketsFor(handler'[w].who) : askedAge'[u] <= MaxAge + handler'[w].since
        BY DEF HasTicket, TicketsFor
      <3>1. where = "bind" /\ handler'[w].who = c /\ handler'[w].since = 0
        BY <2>3 DEF At
      <3>2. PICK u \in TicketsFor(c) : askedAge[u] <= MaxAge
        BY <1>5, <3>1, ReadyHasTicket DEF TicketInv
      <3>3. askedAge'[u] <= MaxAge + 0
        BY <1>1, <3>2, GateAssumption
      <3> QED BY <3>1, <3>2, <3>3
    <2> QED BY <2>1, <2>2, <2>3
  <1>6. ASSUME NEW v \in Workers, At(v, "regate"), Goes(v, "bind", handler[v].who),
               Ready(handler[v].who, MinAge), NEW w \in Workers
        PROVE  HasTicket(w)'
    <2>1. handler[v].who \in Identities
      BY <1>6, HandlerFacts DEF TicketInv, At
    <2> QED BY <1>5, <1>6, <2>1
  <1>7. ASSUME NEW w \in Workers, UNCHANGED handler \/ \E v \in Workers : Ends(v) PROVE HasTicket(w)'
    BY <1>4, <1>7 DEF Ends, TicketInv, TypeOK
  <1> QED BY <1>2, <1>5, <1>6, <1>7, RequestIdentities DEF LookStep

\* A mark makes tickets younger.
LEMMA MarkKeepsTickets ==
  ASSUME TicketInv, TypeOK', MarkStep
  PROVE  LockHasTicket' /\ \A w \in Workers : HasTicket(w)'
  <1>1. PICK c \in Identities : Mark(c)
    BY RequestIdentities, HandlerFacts DEF MarkStep, TicketInv, At
  <1>2. LockHasTicket' /\ \A u \in Users \cup {NoUser} : askedAge'[u] <= askedAge[u]
    BY <1>1, MarkFacts DEF TicketInv
  <1>3. ASSUME NEW w \in Workers PROVE HasTicket(w)'
    <2>1. handler'[w] = handler[w] \/ handler'[w].at \in {"regate", "rescan"}
      BY DEF MarkStep, Goes, TicketInv, TypeOK
    <2>2. CASE handler'[w] = handler[w]
      BY <1>2, <2>2, TicketKept DEF TicketInv, TypeOK
    <2>3. CASE handler'[w].at \in {"regate", "rescan"}
      BY <2>3 DEF HasTicket, At
    <2> QED BY <2>1, <2>2, <2>3
  <1> QED BY <1>2, <1>3

\* The clock: tickets, locks and handlers grow older together.
LEMMA TickKeepsTickets ==
  ASSUME TicketInv, TypeOK', Tick
  PROVE  LockHasTicket' /\ \A w \in Workers : HasTicket(w)'
  <1>1. \A u \in Users \cup {NoUser} : askedAge[u] \in Ages /\ askedAge'[u] = Older(askedAge[u])
    BY DEF TicketInv, TypeOK, Tick
  <1>2. LockHasTicket'
    <2> SUFFICES ASSUME lock # NoLock PROVE askedAge'[Uid(lock)] <= Older(age)
      BY DEF LockHasTicket, Tick
    <2>1. Uid(lock) \in Users \cup {NoUser} /\ askedAge[Uid(lock)] <= age /\ age \in Ages
      BY IdentityFacts DEF TicketInv, TypeOK, LockHasTicket
    <2> QED BY <1>1, <2>1, AgeFacts
  <1>3. ASSUME NEW w \in Workers, At(w, "bind")'
        PROVE  \E u \in TicketsFor(handler'[w].who) : askedAge'[u] <= MaxAge + handler'[w].since
    <2>1. handler[w] # Idle /\ handler'[w] = [handler[w] EXCEPT !.since = Older(@)]
      BY <1>3 DEF Tick, At
    <2>2. /\ handler[w] \in Handlers /\ handler[w].since \in Ages /\ handler[w].who \in Identities
          /\ handler[w].at \in Stages
      BY <2>1, HandlerFacts DEF TicketInv
    <2>3. /\ handler'[w].at = handler[w].at /\ handler'[w].who = handler[w].who
          /\ handler'[w].since = Older(handler[w].since)
      BY <2>1, <2>2 DEF Handlers
    <2>4. At(w, "bind")
      BY <1>3, <2>1, <2>3 DEF At
    <2>5. PICK u \in TicketsFor(handler[w].who) : askedAge[u] <= MaxAge + handler[w].since
      BY <2>4 DEF TicketInv, HasTicket
    <2>6. u \in Users \cup {NoUser}
      BY <2>2, TicketFacts DEF TicketInv
    <2>7. askedAge[u] \in Ages /\ askedAge'[u] = Older(askedAge[u])
      BY <1>1, <2>6
    <2>8. Older(askedAge[u]) <= MaxAge + Older(handler[w].since)
      BY <2>2, <2>5, <2>7, GateAssumption DEF Older, Ages
    <2> QED BY <2>3, <2>5, <2>7, <2>8
  <1> QED BY <1>2, <1>3 DEF HasTicket, TicketsFor

\* Every step keeps the tickets.
LEMMA NextKeepsTickets ==
  ASSUME TicketInv, [Next]_vars
  PROVE  TicketInv'
  <1>1. TypeOK'
    BY NextKeepsTypes DEF TicketInv
  <1>2. CASE LookStep
    BY <1>1, <1>2, LookKeepsTickets DEF TicketInv
  <1>3. CASE MarkStep
    BY <1>1, <1>3, MarkKeepsTickets DEF TicketInv
  <1>4. CASE Tick
    BY <1>1, <1>4, TickKeepsTickets DEF TicketInv
  <1>5. ASSUME UNCHANGED <<lock, age, askedAge>>, \A w \in Workers : handler'[w] \in {handler[w], Idle}
        PROVE  TicketInv'
    <2>1. LockHasTicket'
      BY <1>5 DEF TicketInv, LockHasTicket
    <2>2. /\ askedAge' \in [Users \cup {NoUser} -> Ages]
          /\ \A u \in Users \cup {NoUser} : askedAge'[u] <= askedAge[u]
      BY <1>5, GateAssumption DEF TicketInv, TypeOK, Ages
    <2> QED BY <1>1, <1>5, <2>1, <2>2, TicketKept DEF TicketInv
  <1>6. ASSUME NEW w \in Workers, Bind(w) PROVE TicketInv'
    <2>1. \A v \in Workers : handler'[v] \in {handler[v], Idle}
      BY <1>6 DEF Bind, Ends, TicketInv, TypeOK
    <2> QED BY <1>5, <1>6, <2>1 DEF Bind, BindOwner
  <1>7. ASSUME NEW c \in Binders, StationBind(c) PROVE TicketInv'
    BY <1>5, <1>7 DEF StationBind, BindOwner
  <1>8. CASE SetStation \/ Report \/ RemoveStation \/ Restart \/ UNCHANGED vars
    BY <1>5, <1>8 DEF SetStation, Report, RemoveStation, Restart, vars
  <1> QED BY <1>2, <1>3, <1>4, <1>6, <1>7, <1>8, NextCases

\* Whoever becomes owner past the gate of station_add or
\* station_bind_or_claim has had a ticket that was valid at the look: one asked
\* for by its own user id or by a request without one.  A request without a
\* user id, that of no account included, passes on anybody's.
THEOREM OwnersHaveTickets == Spec => OwnerHasTicket
  <1>1. Init => TicketInv
    <2> SUFFICES ASSUME Init PROVE TicketInv
      OBVIOUS
    <2>1. TypeOK
      BY InitEstablishesInvariant DEF IInv
    <2> QED BY <2>1 DEF Init, TicketInv, LockHasTicket, HasTicket, At
  <1>2. TicketInv /\ [Next]_vars => TicketInv'
    BY NextKeepsTickets
  <1>3. TicketInv /\ [Next]_vars =>
          [\A w \in Workers :
             Bind(w) /\ owner' # owner =>
               \E u \in TicketsFor(handler[w].who) : askedAge[u] <= MaxAge + handler[w].since]_vars
    BY DEF TicketInv, HasTicket, Bind
  <1> QED BY <1>1, <1>2, <1>3, PTL DEF Spec, OwnerHasTicket
=============================================================================
