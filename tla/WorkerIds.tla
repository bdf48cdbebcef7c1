------------------------------ MODULE WorkerIds ------------------------------
(* The --id of each worker process, which is the worker_id the server sees: *)
(* shared by the store, the pool and the modules that compose them.         *)
CONSTANT Workers
=============================================================================
