---------------------------- MODULE MCTuicTraffic ----------------------------
(* Two User objects over at most two servers: a revoked user whose connection  *)
(* is still relaying, and a server drained while another one runs. Two journal *)
(* files: one that a crash brings back while another is written. No step looks *)
(* at two units of traffic at once, so one unit shows what can happen to each. *)
EXTENDS TuicTraffic
=============================================================================
