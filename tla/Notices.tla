------------------------------ MODULE Notices ------------------------------
(***************************************************************************)
(* The notices of cameras (app/store_domains/message.py) and the apps that *)
(* page through them.  A notice is told by a device, or made by the        *)
(* service when a report shows a camera gone offline or low on battery     *)
(* (app/store_domains/station.py).                                         *)
(*                                                                         *)
(* Each call that changes notices is one transaction under the store's     *)
(* lock, and one step here.  A page is a step of its own: between two      *)
(* pages notices arrive, are removed and are pushed over the cap.          *)
(* refresh_messages_from_station_if_needed, which would insert recordings  *)
(* of the past, is called by nothing and left out; so are the tombstones,  *)
(* which nothing but it reads.                                             *)
(*                                                                         *)
(* A notice is inserted in front of the list, with the next id: the list   *)
(* is in the order of ids, the latest first, and it is a set here.         *)
(***************************************************************************)
EXTENDS Integers, FiniteSetsExt

CONSTANTS
  NoticeCams,    \* cameras
  SeenCams,      \* of them, those at the stations of the reading account
  MaxNotices,    \* the cap of the list (500 in the code)
  PageSize,      \* the pageSize of the reader
  LastNotice     \* a bound on the ids that are given

ASSUME NoticesAssumption ==
  MaxNotices \in Nat /\ PageSize \in Nat /\ LastNotice \in Nat \ {0}

Charges == {"low", "ok", "empty"}

VARIABLES
  notices,    \* messages: [id, cam]
  nextId,     \* messageCounter
  camStatus,  \* of each camera's statusObject: online and charge
  reader      \* an app's walk through the pages: see Walks

noticeVars == <<notices, nextId, camStatus, reader>>

Notice == [id : 1..LastNotice, cam : NoticeCams]
Walks == [last  : 0..LastNotice,          \* lastNoticeId; 0 before the first page
          begun : SUBSET (1..LastNotice), \* what was listed when it began
          got   : SUBSET (1..LastNotice), \* what the pages had
          twice : BOOLEAN]                \* a page had something again

Ids(ns) == {n.id : n \in ns}

\* The first k of a list.
Latest(ns, k) == {n \in ns : Cardinality({m \in ns : m.id > n.id}) < k}

\* _message_visible_for_scope_unlocked
Visible == {n \in notices : n.cam \in SeenCams}

-----------------------------------------------------------------------------
(***************************************************************************)
(* Notices come and go.                                                    *)
(***************************************************************************)
\* The messageCounter that a load and a save leave: never less than it was.
Counted(ns, k) == Max({k} \cup {n.id + 1 : n \in ns})

\* _append_notice_unlocked, k times, for notices of one camera.
Told(c, k) ==
  LET new == {[id |-> i, cam |-> c] : i \in nextId .. nextId + k - 1}
  IN  /\ nextId + k <= LastNotice
      /\ notices' = Latest(notices \cup new, MaxNotices)
      /\ nextId' = Counted(notices', nextId + k)

\* add_notice
AddNotice(c) ==
  /\ Told(c, 1)
  /\ UNCHANGED <<camStatus, reader>>

\* _camera_battery_low: a charge of 0 reads as none.
BatteryLow(charge) == charge = "low"

\* update_station_status, of one camera.
ReportStatus(c, online, charge) ==
  LET was == camStatus[c]
      offline == was.online /\ ~online
      low == ~BatteryLow(was.charge) /\ BatteryLow(charge)
  IN  /\ Told(c, IF offline /\ low THEN 2 ELSE IF offline \/ low THEN 1 ELSE 0)
      /\ camStatus' = [camStatus EXCEPT ![c] = [online |-> online, charge |-> charge]]
      /\ UNCHANGED reader

\* remove_messages, of any; remove_messages_matching, of what the account sees.
RemoveNotices(ids) ==
  LET ns == {n \in notices : n.id \notin ids}
  IN  /\ ids # {}
      /\ notices' = ns
      /\ nextId' = Counted(ns, nextId)
      /\ UNCHANGED <<camStatus, reader>>

-----------------------------------------------------------------------------
(***************************************************************************)
(* An app reads.                                                           *)
(***************************************************************************)
\* Mutant of PageAfter: lastNoticeId itself is on the next page.
PageFrom(last) == Latest({n \in Visible : last = 0 \/ n.id <= last}, PageSize)

\* message_list_payload
PageAfter(last) == Latest({n \in Visible : last = 0 \/ n.id < last}, PageSize)

NewWalk == [last |-> 0, begun |-> {}, got |-> {}, twice |-> FALSE]

\* A page, and where the reader goes on: after the last notice of it.
ReadPage ==
  \E final \in PageAfter(reader.last) :
    LET page == Ids(PageAfter(reader.last))
    IN  /\ \A i \in page : final.id <= i
        /\ reader' = [last  |-> final.id,
                      begun |-> IF reader.last = 0 THEN Ids(Visible) ELSE reader.begun,
                      got   |-> reader.got \cup page,
                      twice |-> reader.got \cap page # {}]
        /\ UNCHANGED <<notices, nextId, camStatus>>

StartAgain ==
  /\ reader.last # 0
  /\ reader' = NewWalk
  /\ UNCHANGED <<notices, nextId, camStatus>>

-----------------------------------------------------------------------------
\* A new database; cameras are online until a report says otherwise.
NoticesInit ==
  /\ notices = {} /\ nextId = 1
  /\ camStatus = [c \in NoticeCams |-> [online |-> TRUE, charge |-> "ok"]]
  /\ reader = NewWalk

NoticesNext ==
  \/ \E c \in NoticeCams : AddNotice(c)
  \/ \E c \in NoticeCams, online \in BOOLEAN, charge \in Charges : ReportStatus(c, online, charge)
  \/ \E ids \in SUBSET Ids(notices) : RemoveNotices(ids)
  \/ ReadPage \/ StartAgain

NoticesSpec == NoticesInit /\ [][NoticesNext]_noticeVars

-----------------------------------------------------------------------------
\* The type invariant; the list keeps to its cap.
NoticesTypeOK ==
  /\ notices \subseteq Notice /\ Cardinality(notices) <= MaxNotices
  /\ nextId \in 1..LastNotice
  /\ camStatus \in [NoticeCams -> [online : BOOLEAN, charge : Charges]]
  /\ reader \in Walks

\* An app that pages with lastNoticeId is given every notice that was listed when
\* it began and still is, and none twice, whatever is told, removed or pushed over
\* the cap between its pages (message_list_payload,
\* app/store_domains/message.py:888; nothing but the ids tells a page where to go on).
PagingMissesNothing ==
  /\ ~reader.twice
  /\ reader.last # 0 =>
       \A i \in reader.begun \cap Ids(notices) : i >= reader.last => i \in reader.got
  /\ \A i \in Ids(notices) \cup reader.got : i < nextId

=============================================================================
