--------------------------- MODULE MCBackendTasks ---------------------------
(* One receiver stands for all that wait for messages; every failure. *)
EXTENDS BackendTasks
MCReceivers == {"api"}
MCFailures == {"start", "web"}
=============================================================================
