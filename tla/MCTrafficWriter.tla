--------------------------- MODULE MCTrafficWriter ---------------------------
(* Two callers, two controllers, two generations of the writer and a queue of  *)
(* one: every submit can meet a full queue, a Stop in progress, a drain and a  *)
(* writer of the next generation. TrafficWriterProofs covers any number.       *)
EXTENDS TrafficWriter

\* The panel as it serves: Server.start has started the first writer before there are jobs or
\* requests (web.go:593), so that a write runs inline only once that writer was cancelled.
ServingInit ==
    /\ twMu = Free /\ cur = 1 /\ spawned = 1
    /\ writer = [g \in Gens |-> IF g = 1 THEN "select" ELSE "absent"]
    /\ queue = [g \in Gens |-> <<>>] /\ cancelled = {} /\ held = [g \in Gens |-> Free]
    /\ pc = [c \in Callers |-> "idle"] /\ gen = [c \in Callers |-> 0]
    /\ outcome = [c \in Callers |-> "none"] /\ commits = [c \in Callers |-> 0]
    /\ result = [c \in Callers |-> "none"]
    /\ ctl = [k \in Controllers |-> "idle"] /\ ctlGen = [k \in Controllers |-> 0]

ServingSpec == ServingInit /\ [][Next]_vars
=============================================================================
