----------------------------- MODULE NodeHealth -----------------------------
(***************************************************************************)
(* The heartbeat of nodes, web/job/node_heartbeat_job.go: every five       *)
(* seconds each enabled node is probed, streaks of failures are counted,   *)
(* and a node that goes down or comes back is announced on the event bus.  *)
(* What was announced is kept in memory and, for the next process, in the  *)
(* row of the node. Runs do not overlap (TryLock).                         *)
(***************************************************************************)
EXTENDS EventBus, FiniteSetsExt, SequencesExt

CONSTANTS
    Nodes,      \* nodes
    Threshold,  \* nodeDownThreshold: failed probes in a row before a node is down
    Burst       \* nodeTransitionBurst: more than this many in one direction become one event

ASSUME HealthAssumption ==
    /\ Threshold \in Nat \ {0} /\ Burst \in Nat
    /\ IsFiniteSet(Nodes)
    /\ None \notin BOOLEAN /\ None \notin {"online", "offline"}

Unseen == [failStreak |-> 0, notified |-> FALSE, seen |-> FALSE]

VARIABLES
    up,        \* the node answers probes
    enabled,   \* its row is enabled
    notified,  \* the column down_notified
    health,    \* the map of the job; Unseen stands for no entry
    job,       \* "idle", "probing" or "publishing"
    rows,      \* what the run has loaded: down_notified of the enabled nodes, None of others
    probes,    \* results of the run: "online", "offline", None before
    outbox,    \* the events the run still has to publish
    said,      \* ghost: said[n]: what was last published about n
    wrong      \* ghost: wrong[n]: its row is not what was said: the save failed, or the
               \* process died between the save and the event

healthVars == <<up, enabled, notified, health, job, rows, probes, outbox, said, wrong>>

HealthInit ==
    /\ up = [n \in Nodes |-> TRUE] /\ enabled = [n \in Nodes |-> TRUE]
    /\ notified = [n \in Nodes |-> FALSE]
    /\ health = [n \in Nodes |-> Unseen]
    /\ job = "idle" /\ rows = [n \in Nodes |-> None] /\ probes = [n \in Nodes |-> None]
    /\ outbox = <<>>
    /\ said = [n \in Nodes |-> "up"] /\ wrong = [n \in Nodes |-> FALSE]

BusIdle == UNCHANGED <<ch, subs, worker, queue, handling, stopped, done, dispatching, stopping,
                       sent, settled>>

\* A node goes down or comes back; an operator disables it or enables it again.
Changes(n) ==
    /\ Stimulus
    /\ \/ up' = [up EXCEPT ![n] = ~ up[n]] /\ UNCHANGED enabled
       \/ enabled' = [enabled EXCEPT ![n] = ~ enabled[n]] /\ UNCHANGED up
    /\ BusIdle /\ UNCHANGED <<notified, health, job, rows, probes, outbox, said, wrong>>

\* Run: the nodes are loaded.
Load ==
    /\ job = "idle" /\ job' = "probing"
    /\ rows' = [n \in Nodes |-> IF enabled[n] THEN notified[n] ELSE None]
    /\ BusIdle /\ UNCHANGED <<left, up, enabled, notified, health, probes, outbox, said, wrong>>

\* probeOne, of all of them side by side.
Probe(n) ==
    /\ job = "probing" /\ rows[n] # None /\ probes[n] = None
    /\ probes' = [probes EXCEPT ![n] = IF up[n] THEN "online" ELSE "offline"]
    /\ BusIdle /\ UNCHANGED <<left, up, enabled, notified, health, job, rows, outbox, said, wrong>>

Probed == \A n \in Nodes : rows[n] # None => probes[n] # None

\* What the job knows of n from before this run: a node it did not probe last time it
\* knows from its row.
Known_FromMemoryOnly(n) == health[n]
Known(n) == IF health[n].seen THEN health[n] ELSE [health[n] EXCEPT !.notified = rows[n]]

Longer_Restarts(streak) == 1
Longer(streak) == IF streak < Threshold THEN streak + 1 ELSE streak

\* healthTransitions, of one node.
Comes(n) == probes[n] = "online" /\ Known(n).notified
Goes(n) ==
    /\ probes[n] = "offline" /\ ~ Known(n).notified
    /\ Longer(Known(n).failStreak) >= Threshold

Judged(n) ==
    IF rows[n] = None THEN Unseen
    ELSE IF probes[n] = "online" THEN [Unseen EXCEPT !.seen = TRUE]
    ELSE [failStreak |-> Longer(Known(n).failStreak), notified |-> Known(n).notified \/ Goes(n),
          seen |-> TRUE]

\* publishNodeTransitions: an event for every node, in any order; first those that are
\* few in their direction, then one for a burst.
Few(nodes) == Cardinality(nodes) <= Burst
Single(kind, nodes) == IF Few(nodes) THEN {[kind |-> kind, about |-> {n}] : n \in nodes} ELSE {}
Folded(kind, nodes) == IF Few(nodes) THEN <<>> ELSE <<[kind |-> kind, about |-> nodes]>>

\* healthTransitions: what is to be announced is saved, or not, and remembered.
Judge ==
    LET down == {n \in Nodes : rows[n] # None /\ Goes(n)}
        back == {n \in Nodes : rows[n] # None /\ Comes(n)}
    IN
    /\ job = "probing" /\ Probed
    /\ health' = [n \in Nodes |-> Judged(n)]
    /\ \E failed \in SUBSET (down \union back) :
         /\ IF failed = {} THEN UNCHANGED left ELSE Stimulus
         /\ notified' = [n \in Nodes |-> IF n \in (down \union back) \ failed THEN n \in down
                                        ELSE notified[n]]
         /\ wrong' = [n \in Nodes |-> IF n \in down \union back THEN n \in failed ELSE wrong[n]]
    /\ \E seq \in SetToSeqs(Single("down", down) \union Single("up", back)) :
         outbox' = seq \o Folded("down", down) \o Folded("up", back)
    /\ job' = IF outbox' = <<>> THEN "idle" ELSE "publishing"
    /\ rows' = [n \in Nodes |-> None] /\ probes' = [n \in Nodes |-> None]
    /\ BusIdle /\ UNCHANGED <<up, enabled, said>>

Announce ==
    LET e == Head(outbox) IN
    /\ job = "publishing"
    /\ Publish(e.kind, e.about)
    /\ said' = [n \in Nodes |-> IF n \in e.about THEN e.kind ELSE said[n]]
    /\ outbox' = Tail(outbox)
    /\ job' = IF outbox' = <<>> THEN "idle" ELSE job
    /\ UNCHANGED <<left, up, enabled, notified, health, rows, probes, wrong>>

Unannounced == UNION {outbox[i].about : i \in DOMAIN outbox}

\* The process ends at once and is started again: the rows are what is left.
HealthRestarts ==
    /\ health' = [n \in Nodes |-> Unseen]
    /\ job' = "idle" /\ rows' = [n \in Nodes |-> None] /\ probes' = [n \in Nodes |-> None]
    /\ outbox' = <<>>
    /\ wrong' = [n \in Nodes |-> IF n \in Unannounced THEN notified[n] # (said[n] = "down")
                                ELSE wrong[n]]
    /\ UNCHANGED <<up, enabled, notified, said>>

Heartbeat == Load \/ (\E n \in Nodes : Probe(n)) \/ Judge \/ Announce

-----------------------------------------------------------------------------
HealthTypeOK ==
    /\ up \in [Nodes -> BOOLEAN] /\ enabled \in [Nodes -> BOOLEAN] /\ notified \in [Nodes -> BOOLEAN]
    /\ health \in [Nodes -> [failStreak : 0..Threshold, notified : BOOLEAN, seen : BOOLEAN]]
    /\ job \in {"idle", "probing", "publishing"} /\ (outbox # <<>> <=> job = "publishing")
    /\ rows \in [Nodes -> BOOLEAN \union {None}] /\ probes \in [Nodes -> {"online", "offline", None}]
    /\ said \in [Nodes -> {"up", "down"}] /\ wrong \in [Nodes -> BOOLEAN]

\* Between runs the job remembers of a node what was last said of it, whatever was
\* disabled, enabled again or restarted since; unless a save failed or the process died
\* between the save and the event.
SaidIsRemembered ==
    job # "publishing" =>
        \A n \in Nodes :
            \/ wrong[n]
            \/ /\ notified[n] = (said[n] = "down")
               /\ health[n].seen => health[n].notified = notified[n]

\* A run announces changes only, and each once: no node is announced to be what it was last
\* said to be, unless its row was wrong, whatever was disabled, enabled again or restarted
\* since; and a burst is not announced one by one too.
OnlyChangesAreTold ==
    [][job # "publishing" =>
         \A i \in DOMAIN outbox' : \A n \in outbox'[i].about :
           /\ wrong[n] \/ outbox'[i].kind # said[n]
           /\ \A j \in DOMAIN outbox' \ {i} : n \notin outbox'[j].about]_healthVars

\* Once nothing changes any more, what was last said of an enabled node is so.
LastNoticeIsTrue ==
    <>[](stopped \/ \A n \in Nodes : enabled[n] => wrong[n] \/ said[n] = (IF up[n] THEN "up" ELSE "down"))
=============================================================================
