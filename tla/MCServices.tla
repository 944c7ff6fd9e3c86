------------------------------ MODULE MCServices ------------------------------
(***************************************************************************)
(* For TLC, the parts of the service that share no state with one another  *)
(* but the transaction they are saved in: station DIDs, the cloud storage  *)
(* service, notices, push targets, the live pipeline and accounts.  A      *)
(* behaviour looks into one of them, its focus, and the others stand       *)
(* still: every behaviour of each is checked, and no product of them.      *)
(*                                                                         *)
(* The cloud storage service is looked into twice: at its orders, and at   *)
(* its cameras under what one order does to the capacity.                  *)
(***************************************************************************)
EXTENDS StationDids, CloudService, Notices, PushTargets, LivePipeline, Accounts

CONSTANTS
  Foci,  \* what is looked into
  s0, s1, s2, d0, d1, d2, d3, d4, d5,  \* stations and their DIDs
  k1, k2, k3, u1, u2, p1, p2    \* cameras, their accounts, payments

VARIABLE focus

MCDidOrder == <<s0, s1, s2>>
MCConfiguredDid == (s0 :> d0) @@ (s1 :> d1) @@ (s2 :> d2)
MCGeneratedDids == <<d4, d5>>
MCNoReports == [s \in DidStations |-> {}]
MCReports == (s0 :> {}) @@ (s1 :> {d3}) @@ (s2 :> {d1})
MCCloudCams == <<k1, k2, k3>>
MCCloudAccount == (k1 :> u1) @@ (k2 :> u1) @@ (k3 :> u2)
MCSideChannels == <<"webhook">>

Alike == Permutations(Calls) \cup Permutations(Runs) \cup Permutations(Qualities)

Init ==
  /\ focus \in Foci
  /\ DidInit /\ CloudInit /\ NoticesInit /\ PushInit /\ LiveInit /\ AccountInit

Next ==
  /\ UNCHANGED focus
  /\ \/ /\ focus = "dids" /\ DidNext
        /\ UNCHANGED <<cloudVars, noticeVars, pushVars, liveVars, accountVars>>
     \/ /\ \/ focus = "orders" /\ OrderNext
           \/ focus = "cameras" /\ CameraNext
           \/ focus = "cameras" /\ OrderNext /\ day' = 0
              /\ \A i \in DOMAIN orders' : orders'[i].no = 1 /\ orders'[i].payment = p1
        /\ UNCHANGED <<didVars, noticeVars, pushVars, liveVars, accountVars>>
     \/ /\ focus = "notices" /\ NoticesNext
        /\ UNCHANGED <<didVars, cloudVars, pushVars, liveVars, accountVars>>
     \/ /\ focus = "push" /\ PushNext
        /\ UNCHANGED <<didVars, cloudVars, noticeVars, liveVars, accountVars>>
     \/ /\ focus = "live" /\ LiveNext
        /\ UNCHANGED <<didVars, cloudVars, noticeVars, pushVars, accountVars>>
     \/ /\ focus = "accounts" /\ AccountNext
        /\ UNCHANGED <<didVars, cloudVars, noticeVars, pushVars, liveVars>>

Spec == Init /\ [][Next]_<<focus, didVars, cloudVars, noticeVars, pushVars, liveVars, accountVars>>

\* The type invariant of the part that moves.
ServicesTypeOK ==
  /\ focus = "dids" => DidTypeOK
  /\ focus \in {"orders", "cameras"} => CloudTypeOK
  /\ focus = "notices" => NoticesTypeOK
  /\ focus = "push" => PushTypeOK
  /\ focus = "live" => LiveTypeOK
  /\ focus = "accounts" => AccountTypeOK
===============================================================================
