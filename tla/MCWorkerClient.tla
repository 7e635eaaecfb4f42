--------------------------- MODULE MCWorkerClient ---------------------------
(* Small instances of WorkerClient for TLC. *)
EXTENDS WorkerClient
=============================================================================
