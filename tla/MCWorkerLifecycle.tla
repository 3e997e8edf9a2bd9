------------------------- MODULE MCWorkerLifecycle -------------------------
(* One process; the module has no parameters. *)
EXTENDS WorkerLifecycle
=============================================================================
