---------------------------- MODULE CloudService ----------------------------
(***************************************************************************)
(* The cloud storage service (app/store_domains/cloud.py): orders, their   *)
(* payment, the plan that a payment puts in force, and the cameras bound   *)
(* to it.  A plan is for a number of cameras and one term (30 days); its   *)
(* days of history are left out.                                           *)
(*                                                                         *)
(* Each call is one transaction under the store's lock, and one step here. *)
(* A client may name any order and any payment, its own or another's.      *)
(* A camera that is recorded is bound until a call says otherwise.         *)
(***************************************************************************)
EXTENDS Integers, FiniteSets, SequencesExt

CONSTANTS
  CloudCams,     \* camera serial numbers, as a sequence in their sorting order
  CloudAccount,  \* of each camera: the account its station is bound to
  PlanSizes,     \* camera counts of the catalogue
  OrderNos,      \* order numbers, 1..n
  Payments,      \* payment ids
  MaxOrders,     \* the cap of storageOrders (100 in the code)
  Term,          \* the term of a plan, in units of the clock
  LastDay,       \* a bound on the clock
  Blank          \* no order number, no payment id

ASSUME CloudAssumption ==
  /\ CloudCams \in Seq(ToSet(CloudCams)) /\ IsInjective(CloudCams) /\ CloudCams # <<>>
  /\ PlanSizes \subseteq Nat \ {0} /\ 1 \in PlanSizes
  /\ OrderNos \subseteq Nat /\ Blank \notin OrderNos \cup Payments
  /\ MaxOrders \in Nat \ {0} /\ Term \in Nat /\ LastDay \in Nat

VARIABLES
  orders,   \* storageOrders, in the order of Later
  service,  \* storageService; which order it came from is left out
  recorded, \* cameras in kv_state
  unbound,  \* of them, those with cloudStorageBound = 0
  asked,    \* what the last call has asked to bind, if it was such a call:
            \* the place of each camera in the request
  day       \* the clock

cloudVars == <<orders, service, recorded, unbound, asked, day>>

Cams == ToSet(CloudCams)
Order == [no : OrderNos, payment : Payments, kind : {"purchase", "renew"}, plan : PlanSizes,
          created : 0..LastDay, paid : BOOLEAN]

-----------------------------------------------------------------------------
(***************************************************************************)
(* Orders.                                                                 *)
(***************************************************************************)
\* _resolve_storage_plan_unlocked: an unknown plan is the one in force.
Plan(p) == IF p \in PlanSizes THEN p ELSE service.plan

\* The order of _normalize_storage_state_unlocked: latest first.
Later(o, q) == o.created > q.created \/ (o.created = q.created /\ o.no > q.no)

\* The places of the orders with this number or this payment.
Matching(os, no, payment) == {i \in DOMAIN os : os[i].no = no \/ os[i].payment = payment}

\* The first of them.
FoundAt(os, no, payment) ==
  CHOOSE i \in Matching(os, no, payment) : \A j \in Matching(os, no, payment) : i <= j

\* Numbers and payment ids that the server makes up.
UnusedNos == {n \in OrderNos : Matching(orders, n, Blank) = {}}
UnusedPayments == {p \in Payments : Matching(orders, Blank, p) = {}}

\* Mutant of Kept: an order that is created again is unpaid.
Forgotten(no) == [created |-> day, paid |-> FALSE]

\* What an order that is created again keeps.
Kept(no) ==
  IF Matching(orders, no, Blank) = {} THEN [created |-> day, paid |-> FALSE]
  ELSE LET o == orders[FoundAt(orders, no, Blank)]
       IN  [created |-> o.created, paid |-> o.paid]

\* The list without the orders of this number.
Without(os, no) ==
  LET kept[n \in 0..Len(os)] ==
        IF n = 0 THEN <<>>
        ELSE IF os[n].no = no THEN kept[n - 1] ELSE Append(kept[n - 1], os[n])
  IN  kept[Len(os)]

\* The save sorts the list, and leaves orders of one key as they are: an order
\* comes after those that are later.
PlaceOf(os, o) ==
  CHOOSE i \in 1..Len(os) + 1 :
    /\ \A j \in 1..i - 1 : Later(os[j], o)
    /\ i <= Len(os) => ~Later(os[i], o)

Put(os, o) == InsertAt(os, PlaceOf(os, o), o)

\* The order goes to the front, the last of a full list is dropped, and the list is
\* sorted again when it is saved.
Created(kind, plan, no, payment) ==
  LET others == Without(orders, no)
      room == IF Len(others) < MaxOrders THEN Len(others) ELSE MaxOrders - 1
  IN  Put(SubSeq(others, 1, room),
          [no |-> no, payment |-> payment, kind |-> kind, plan |-> Plan(plan),
           created |-> Kept(no).created, paid |-> Kept(no).paid])

\* create_storage_order: the client's number and payment id, or new ones.
CreateOrder(kind, plan, no, payment) ==
  /\ orders' = Created(kind, plan, no, payment)
  /\ asked' = <<>>
  /\ UNCHANGED <<service, recorded, unbound, day>>

\* A renewal runs from the end of what is paid for.
Start(kind) == IF kind = "renew" /\ service.expire > day THEN service.expire ELSE day

\* finalize_storage_order, of the order at place i of the list os.  The order
\* takes the number and the payment it is paid for by, whoever else has them.
Finalized(os, i, no, payment) ==
  LET paid == [os[i] EXCEPT !.no = IF no = Blank THEN @ ELSE no,
                            !.payment = IF payment = Blank THEN @ ELSE payment,
                            !.paid = TRUE]
      expire == Start(paid.kind) + Term
  IN  /\ expire <= LastDay * Term + Term
      /\ orders' = IF paid.no = os[i].no THEN [os EXCEPT ![i] = paid]
                   ELSE Put(RemoveAt(os, i), paid)
      /\ service' = [plan |-> paid.plan, expire |-> expire]

\* An unknown order is created first, as a purchase of the plan in force; that
\* is saved by itself, so a stop in between leaves what CreateOrder does.
FinalizeOrder(no, payment) ==
  /\ \/ /\ Matching(orders, no, payment) # {}
        /\ Finalized(orders, FoundAt(orders, no, payment), no, payment)
     \/ /\ Matching(orders, no, payment) = {}
        /\ \E n \in UnusedNos, p \in UnusedPayments :
             LET os == Created("purchase", Blank, n, p)
             IN  Finalized(os, FoundAt(os, n, Blank), no, payment)
  /\ asked' = <<>>
  /\ UNCHANGED <<recorded, unbound, day>>

\* storage_payment_status_payload
IsPaid(no, payment) ==
  /\ Matching(orders, no, payment) # {}
  /\ orders[FoundAt(orders, no, payment)].paid

-----------------------------------------------------------------------------
(***************************************************************************)
(* Cameras.                                                                *)
(***************************************************************************)
Before(c, d) == \E i, j \in DOMAIN CloudCams : i < j /\ CloudCams[i] = c /\ CloudCams[j] = d

\* _effective_cloud_bound_camera_sns_unlocked, of one account, before and
\* after the capacity is enforced.
Bound(a) == {c \in recorded \ unbound : CloudAccount[c] = a}
Shown(a) == {c \in Bound(a) : Cardinality({d \in Bound(a) : Before(d, c)}) < service.plan}

\* Mutant of Preferred: the cameras in their sorting order.
InOrder(requested, c, d) == Before(c, d)

\* The requested cameras come first, in the order of the request.
Preferred(requested, c, d) ==
  \/ c \in DOMAIN requested /\ (d \in DOMAIN requested => requested[c] < requested[d])
  \/ {c, d} \cap DOMAIN requested = {} /\ Before(c, d)

FirstPreferred(requested, cs, n) ==
  {c \in cs : Cardinality({d \in cs : Preferred(requested, d, c)}) < n}

\* set_cloud_storage_bound, of the cameras in the account's scope.  A bind over
\* the capacity unbinds the cameras that come last.
Scoped(a, requested) ==
  Restrict(requested, {c \in DOMAIN requested \cap recorded : CloudAccount[c] = a})

BindCameras(a, requested) ==
  /\ DOMAIN Scoped(a, requested) # {}
  /\ asked' = Scoped(a, requested)
  /\ LET bound == Bound(a) \cup DOMAIN Scoped(a, requested)
     IN  unbound' = (unbound \ bound)
                      \cup (bound \ FirstPreferred(Scoped(a, requested), bound, service.plan))
  /\ UNCHANGED <<orders, service, recorded, day>>

UnbindCameras(a, requested) ==
  /\ unbound' = unbound \cup DOMAIN Scoped(a, requested)
  /\ asked' = <<>>
  /\ UNCHANGED <<orders, service, recorded, day>>

\* A camera is paired, or removed, by the rest of the service.
RecordCamera(c) ==
  /\ recorded' = recorded \cup {c}
  /\ asked' = <<>>
  /\ UNCHANGED <<orders, service, unbound, day>>

ForgetCamera(c) ==
  /\ recorded' = recorded \ {c}
  /\ unbound' = unbound \ {c}
  /\ asked' = <<>>
  /\ UNCHANGED <<orders, service, day>>

PassDay ==
  /\ day < LastDay
  /\ day' = day + 1
  /\ asked' = <<>>
  /\ UNCHANGED <<orders, service, recorded, unbound>>

-----------------------------------------------------------------------------
\* _default_storage_service_unlocked: a first term for the one camera there is.
CloudInit ==
  /\ orders = <<>>
  /\ service = [plan |-> 1, expire |-> Term]
  /\ recorded = {CloudCams[1]} /\ unbound = {} /\ asked = <<>> /\ day = 0

Requests == UNION {Injection(cs, 1..Cardinality(cs)) : cs \in SUBSET Cams}

OrderNext ==
  \/ \E kind \in {"purchase", "renew"}, plan \in PlanSizes, no \in OrderNos, p \in Payments :
       CreateOrder(kind, plan, no, p)
  \/ \E no \in OrderNos \cup {Blank}, p \in Payments \cup {Blank} : FinalizeOrder(no, p)
  \/ PassDay

CameraNext ==
  \/ \E a \in {CloudAccount[c] : c \in Cams}, requested \in Requests :
       BindCameras(a, requested) \/ UnbindCameras(a, requested)
  \/ \E c \in Cams : RecordCamera(c) \/ ForgetCamera(c)

CloudNext == OrderNext \/ CameraNext

CloudSpec == CloudInit /\ [][CloudNext]_cloudVars

-----------------------------------------------------------------------------
\* The type invariant; the list is sorted and keeps to its cap.
CloudTypeOK ==
  /\ orders \in Seq(Order) /\ Len(orders) <= MaxOrders
  /\ \A i, j \in DOMAIN orders : i < j => ~Later(orders[j], orders[i])
  /\ service \in [plan : PlanSizes, expire : 0..LastDay * Term + Term]
  /\ unbound \subseteq recorded /\ recorded \subseteq Cams
  /\ DOMAIN asked \subseteq recorded /\ \A c \in DOMAIN asked : asked[c] \in Nat
  /\ day \in 0..LastDay

\* The order that answers to the number n is found by its payment p, which is
\* another order's too, and renamed: a second order of the number n is left.
TakenFrom(n) ==
  /\ \E i, j \in Matching(orders, n, Blank) : i # j
  /\ \E m \in OrderNos \ {n}, p \in Payments :
       /\ FinalizeOrder(m, p)
       /\ orders[FoundAt(orders, n, Blank)].payment = p
       /\ IsPaid(m, Blank)'

\* Once an order is paid, asking for it by its number says so as long as it is
\* listed, whatever is created, created again, paid again or pushed over the cap
\* (create_storage_order updates the record it finds, app/store_domains/cloud.py:1597),
\* unless a payment for another order takes its record and leaves a second order
\* of the number (finalize_storage_order, app/store_domains/cloud.py:1646).
PaidUntilTaken ==
  [][orders' # orders =>
       \A n \in OrderNos :
         IsPaid(n, Blank) /\ Matching(orders', n, Blank) # {}
           => IsPaid(n, Blank)' \/ TakenFrom(n)]_cloudVars

\* The cameras a bind asks for are shown afterwards, in the order of the request
\* and up to the capacity that is in force by then; the account's others give way
\* (set_cloud_storage_bound, app/store_domains/cloud.py:1538).
BindShowsRequested ==
  \A c \in DOMAIN asked :
    /\ Cardinality({d \in DOMAIN asked : asked[d] < asked[c]}) < service.plan
         => c \in Shown(CloudAccount[c])
    /\ Cardinality(Bound(CloudAccount[c])) <= service.plan

=============================================================================
