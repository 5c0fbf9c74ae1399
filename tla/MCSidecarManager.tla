-------------------------- MODULE MCSidecarManager --------------------------
(* A panel that starts with its row enabled, one request beside the pass of    *)
(* cron, two edits (on, off or of the clients), one fault, as many hand-offs   *)
(* as begin, and four objects for entries: one for each caller, one with a     *)
(* child that a failed stop has left, and one to register.                     *)
EXTENDS SidecarManager
=============================================================================
