---------------------------- MODULE MCPairingGate ----------------------------
(***************************************************************************)
(* PairingGate for TLC: two accounts whose requests carry their tokens,    *)
(* and requests without an account.                                        *)
(***************************************************************************)
EXTENDS PairingGate, TLC

\* Request threads are alike.
WorkerSymmetry == Permutations(Workers)

WithToken == [token : Users, account : {NoUser}, uid : {NoUser}]
MaybeAnonymous == WithToken \cup {Anonymous}
None == {}
=============================================================================
