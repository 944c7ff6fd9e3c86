--------------------------- MODULE MCCameraPairing ---------------------------
(***************************************************************************)
(* CameraPairing for TLC, and what fake_cloud_app/docs/FLOWS.md says of    *)
(* the slot of a scan.  The code does not do what the formula says.        *)
(***************************************************************************)
EXTENDS CameraPairing, TLC

\* Request threads are alike.
WorkerSymmetry == Permutations(Workers)

\* "slot_index is the channel": a scan goes on with the channel of the slot
\* it reserved.
ScanUsesItsSlot ==
  \A w \in Workers :
    (job[w] # Idle /\ job[w].at = "ensure") =>
       LET s == job[w].rec.station
       IN  SlotsOf(slots, s, job[w].cam) # {} =>
             job[w].rec.channel \in SlotsOf(slots, s, job[w].cam)
=============================================================================
