-------------------------- MODULE StationOwnership --------------------------
(***************************************************************************)
(* What the binding tables promise, without stations' records, tombstones, *)
(* caches or handlers: each station has a set of members, at most one of   *)
(* them its holder, and the holder changes hands only when it leaves, or   *)
(* when there is none.                                                     *)
(***************************************************************************)
CONSTANTS Users, Stations, NoUser

VARIABLES members, holder

aVars == <<members, holder>>

\* Initially members may be any set with at most one holder among them.
Init ==
  /\ members \in [Stations -> SUBSET Users]
  /\ holder \in [Stations -> Users \cup {NoUser}]
  /\ \A s \in Stations : holder[s] # NoUser => holder[s] \in members[s]

\* A user becomes a plain member; the holder doing so steps down.
Join(u, s) ==
  /\ members' = [members EXCEPT ![s] = @ \cup {u}]
  /\ holder' = [holder EXCEPT ![s] = IF @ = u THEN NoUser ELSE @]

\* A user takes a station that has no holder.
Claim(u, s) ==
  /\ holder[s] \in {NoUser, u}
  /\ members' = [members EXCEPT ![s] = @ \cup {u}]
  /\ holder' = [holder EXCEPT ![s] = u]

\* A member leaves; if that leaves no holder, one of those who stay succeeds.
Leave(u, s) ==
  LET left == members[s] \ {u}
  IN  /\ u \in members[s]
      /\ members' = [members EXCEPT ![s] = left]
      /\ IF holder[s] \in left
         THEN UNCHANGED holder
         ELSE \E v \in IF left = {} THEN {NoUser} ELSE left :
                holder' = [holder EXCEPT ![s] = v]

\* The station is removed: everybody loses it.
Disband(s) ==
  /\ members' = [members EXCEPT ![s] = {}]
  /\ holder' = [holder EXCEPT ![s] = NoUser]

Next ==
  \E s \in Stations :
    \/ Disband(s)
    \/ \E u \in Users : Join(u, s) \/ Claim(u, s) \/ Leave(u, s)

Spec == Init /\ [][Next]_aVars
=============================================================================
