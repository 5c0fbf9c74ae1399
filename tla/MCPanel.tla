------------------------------ MODULE MCPanel ------------------------------
(* Two subscribers, of which one may block and is replaced once; buffers of    *)
(* one event; two nodes, which a burst folds into one event. Among the nodes   *)
(* four things happen (outages, returns, rows switched, saves that fail, a     *)
(* restart of the panel, subscriptions), about the core three (requests that   *)
(* switch the inbound, commands, crashes, anything that fails): enough for a   *)
(* crash during a stop, a failed push whose restart fails too, two requests    *)
(* that cross and a call that fails, or three crashes to fill the slow queue.  *)
(* Panel_unchanged.cfg has one request and no operator: the shortest trace.    *)
EXTENDS Panel
=============================================================================
