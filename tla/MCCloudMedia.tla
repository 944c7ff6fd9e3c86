----------------------------- MODULE MCCloudMedia -----------------------------
(***************************************************************************)
(* CloudMedia for TLC: one camera that may hold two connections at a time, *)
(* as it does when it reconnects before the server notices, so that two    *)
(* captures can start in one second and take one notice.                   *)
(***************************************************************************)
EXTENDS CloudMedia, TLC

CONSTANTS c1, c2, k1, n1

MCCameraOf == (c1 :> k1) @@ (c2 :> k1)
===============================================================================
