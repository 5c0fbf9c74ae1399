---------------------------- MODULE MCNodeTraffic ----------------------------
(* One node; a client that has used something before it is met there, and may  *)
(* use its quota of one unit before a reset and again after it; two resets, so *)
(* that one is queued while the other is delivered.                            *)
EXTENDS NodeTraffic
=============================================================================
