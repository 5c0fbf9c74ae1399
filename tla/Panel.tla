-------------------------------- MODULE Panel --------------------------------
(***************************************************************************)
(* The event bus with the two that publish on it: the heartbeat of nodes   *)
(* and the core. The two share nothing but the bus, so a behaviour has     *)
(* trouble with one of them only (theme): a bound on what happens at once. *)
(***************************************************************************)
EXTENDS NodeHealth, XrayCore

CONSTANTS
    NodesBound,  \* bound: what may happen, of all kinds, with trouble among the nodes
    CoreBound    \* bound: the same, with trouble about the core

Events == [kind : {"down", "up", "crash"}, about : SUBSET Nodes, no : Nat]

ASSUME PanelAssumption ==
    /\ NodesBound \in Nat /\ CoreBound \in Nat
    /\ None \notin Events

VARIABLE theme

vars == <<busVars, healthVars, coreVars, theme>>

Init ==
    /\ BusInit /\ HealthInit /\ CoreInit
    /\ \/ theme = "nodes" /\ left = NodesBound /\ ~ tuic
       \/ theme = "core" /\ left = CoreBound

\* Server.stop: the server has stopped its jobs and requests, then it stops the bus.
ShutDown ==
    /\ StopCalled
    /\ job = "idle" /\ \A c \in Callers : at[c] = "idle"
    /\ \A r \in Editors : edit[r] = "idle"

\* The panel dies, and is started again.
Restart ==
    /\ Stimulus
    /\ HealthRestarts
    /\ ch' = <<>> /\ subs' = Ids \X {1}
    /\ worker' = [s \in Subscribers |-> IF s \in Ids \X {1} THEN "idle" ELSE "none"]
    /\ queue' = [s \in Subscribers |-> <<>>] /\ handling' = [s \in Subscribers |-> None]
    /\ settled' = 1..sent
    /\ UNCHANGED <<stopped, done, dispatching, stopping, sent>>

OfBus(A) == A /\ UNCHANGED <<healthVars, coreVars, theme>>
OfNodes(A) == theme = "nodes" /\ A /\ UNCHANGED <<coreVars, theme>>
OfCore(A) == theme = "core" /\ A /\ UNCHANGED <<healthVars, theme>>

\* The jobs run until the panel is shut down.
Running == stopping = "no"

Next ==
    \/ OfBus(BusNext \/ ShutDown)
    \/ OfNodes(Running /\ (Heartbeat \/ Restart \/ \E n \in Nodes : Changes(n)))
    \/ OfCore(CoreNext \/ (Running /\ (Tick \/ Operator)))

Spec == Init /\ [][Next]_vars

\* Goroutines go on, and handlers return, except the slow ones. Jobs come round. The mutex is
\* fair, and a child that is told to end ends. Nothing else has to happen.
Fairness ==
    /\ WF_vars(OfBus(Dispatch)) /\ WF_vars(OfBus(DispatchEnds))
    /\ WF_vars(OfBus(StopCloses)) /\ WF_vars(OfBus(StopReturns))
    /\ \A s \in Subscribers :
         WF_vars(OfBus(Goroutine(s))) /\ WF_vars(OfBus(s[1] \notin Slow /\ HandlerReturns(s)))
    /\ WF_vars(OfNodes(Running /\ Heartbeat))
    /\ \A r \in Editors : WF_vars(OfCore(Request(r)))
    /\ WF_vars(OfCore(BackoffEnds)) /\ WF_vars(OfCore(OnCrash)) /\ WF_vars(OfCore(ChildWaited))
    /\ WF_vars(OfCore(intentional /\ ChildEnds))
    /\ WF_vars(OfCore(Running /\ Watchdog)) /\ WF_vars(OfCore(Running /\ ApplyPendingRestart))
    /\ \A c \in Callers : SF_vars(OfCore(Acquire(c))) /\ WF_vars(OfCore(Holder(c)))

FairSpec == Spec /\ Fairness

\* Types, and what goes together: a handler has an event exactly while its worker is busy, the
\* lock is held exactly while its holder is under way.
TypeOK == BusTypeOK /\ HealthTypeOK /\ CoreTypeOK
=============================================================================
