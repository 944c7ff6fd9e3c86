---------------------------- MODULE MCStateStore ----------------------------
(***************************************************************************)
(* StateStore for TLC: the service and the ingest server as processes, and *)
(* which thread belongs to which.                                          *)
(***************************************************************************)
EXTENDS StateStore

CONSTANTS IngestThreads

ASSUME IngestThreads \subseteq Threads

MCProcesses == {"service", "ingest"}
MCProcessOf == [t \in Threads |-> IF t \in IngestThreads THEN "ingest" ELSE "service"]
=============================================================================
