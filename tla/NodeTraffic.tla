---------------------------- MODULE NodeTraffic ----------------------------
(***************************************************************************)
(* The counters of one client that lives on nodes, and its resets:         *)
(* service/inbound_node.go (the counter half of setRemoteTrafficLocked),   *)
(* service/node_reset_queue.go, the resets of service/client_traffic.go    *)
(* and inbound_traffic.go, service/inbound_disable.go, the push of global  *)
(* usage of service/inbound_traffic_global.go, and the order in which      *)
(* job/node_traffic_sync_job.go runs them against a node.                  *)
(*                                                                         *)
(* The client has a quota, no deadline and no automatic renewal. Up and    *)
(* down are one counter; the copies a snapshot has of it, one per inbound, *)
(* are folded to their maximum by the code and are one reading here.       *)
(***************************************************************************)
EXTENDS Naturals

CONSTANTS
    Nodes,      \* the nodes the client lives on
    None,       \* no baseline
    Total,      \* the client's quota
    MaxUse,     \* bound: traffic the client uses on each node
    MaxResets,  \* bound: resets committed on the master
    MaxFaults   \* bound: calls that fail or lose their answer, restarts, node-side resets

ASSUME NodeTrafficAssumption ==
    /\ None \notin Nat
    /\ Total \in Nat \ {0}
    /\ MaxUse \in Nat /\ MaxResets \in Nat /\ MaxFaults \in Nat

VARIABLES
    counter,  \* counter[n]: the client's usage in the node's database
    nodeOn,   \* nodeOn[n]: whether the node lets the client in
    glob      \* glob[n]: the usage the master has pushed (client_global_traffics)

VARIABLES
    row,      \* client_traffics: up + down
    rowOn,    \* client_traffics.enable
    setOn,    \* enable in the client record and in the settings of its inbounds
    base,     \* base[n]: NodeClientTraffic, the reading counted so far
    owed,     \* owed[n]: queued_at of its NodePendingReset; 0: no such row
    stamp,    \* the last queued_at given out; counts the resets
    dirty,    \* dirty[n]: Node.ConfigDirty
    remarked  \* remarked[n]: config_dirty_at is later than the tick that reconciles read

VARIABLES
    asked,    \* asked[n]: a request still has to try the node once
    reenable, \* a reset still has to switch the client on again
    courier,  \* courier[n]: who holds the delivery lock of node n
    carried,  \* carried[n]: queued_at of the row it has read
    tick,     \* tick[n]: where syncOne is
    seen,     \* seen[n]: config_dirty as the tick last read it
    justPushed, \* justPushed[n]: the tick's reconcile has succeeded
    snap,     \* snap[n]: the counter in the tick's snapshot
    snapOn,   \* snapOn[n]: the client's enable in it
    parcel,   \* parcel[n]: the usage the job is pushing to the node
    faults

VARIABLES
    used,     \* ghost: traffic on the node, ever
    since,    \* ghost: traffic on the node since the last reset was committed
    credited, \* ghost: what the merges have added to the row for the node, ever
    share,    \* ghost: the same, since the last reset
    slack,    \* ghost: traffic between a snapshot and a reset that came before its merge
    cleared,  \* ghost: the node has zeroed its counter since the last reset
    straddled \* ghost: the snapshot held is older than a reset or a zeroing

nodeVars    == <<counter, nodeOn, glob>>
dirtyVars   == <<dirty, remarked>>
switches    == <<rowOn, setOn, dirtyVars>>
queueVars   == <<owed, stamp>>
requestVars == <<asked, reenable>>
courierVars == <<courier, carried>>
tickVars    == <<tick, seen, justPushed, snap, snapOn, parcel>>
ghosts      == <<used, since, credited, share, slack, cleared, straddled>>
vars == <<nodeVars, row, switches, base, queueVars, requestVars, courierVars,
          tickVars, faults, ghosts>>

Init ==
    /\ counter \in [Nodes -> 0..1] /\ nodeOn = [n \in Nodes |-> TRUE]
    /\ glob = [n \in Nodes |-> 0]
    /\ row = 0 /\ rowOn = TRUE /\ setOn = TRUE
    /\ base = [n \in Nodes |-> None]
    /\ owed = [n \in Nodes |-> 0] /\ stamp = 0
    /\ dirty = [n \in Nodes |-> FALSE] /\ remarked = [n \in Nodes |-> FALSE]
    /\ asked = [n \in Nodes |-> FALSE] /\ reenable = FALSE
    /\ courier = [n \in Nodes |-> "nobody"] /\ carried = [n \in Nodes |-> 0]
    /\ tick = [n \in Nodes |-> "idle"]
    /\ seen = [n \in Nodes |-> FALSE] /\ justPushed = [n \in Nodes |-> FALSE]
    /\ snap = [n \in Nodes |-> 0] /\ snapOn = [n \in Nodes |-> TRUE]
    /\ parcel = [n \in Nodes |-> 0]
    /\ faults = 0
    /\ used = counter /\ since = counter
    /\ credited = [n \in Nodes |-> 0] /\ share = [n \in Nodes |-> 0]
    /\ slack = [n \in Nodes |-> 0]
    /\ cleared = [n \in Nodes |-> TRUE] /\ straddled = [n \in Nodes |-> FALSE]

\* What the reading a has on top of the reading b.
Excess(a, b) == IF a > b THEN a - b ELSE 0

\* MarkNodeDirty of the nodes ns, which moves config_dirty_at.
MarkDirty(ns) ==
    /\ dirty' = [n \in Nodes |-> dirty[n] \/ n \in ns]
    /\ remarked' = [n \in Nodes |-> remarked[n] \/ (n \in ns /\ tick[n] = "reconcile")]

Fault == faults < MaxFaults /\ faults' = faults + 1
NoFault == UNCHANGED faults

-----------------------------------------------------------------------------
(* The node                                                                *)

\* Traffic of the client, added to the node's client_traffics.
Relay(n) ==
    /\ nodeOn[n] /\ used[n] < MaxUse
    /\ counter' = [counter EXCEPT ![n] = @ + 1]
    /\ used' = [used EXCEPT ![n] = @ + 1]
    /\ since' = [since EXCEPT ![n] = @ + 1]
    /\ UNCHANGED <<nodeOn, glob, row, switches, base, queueVars, requestVars, courierVars,
                   tickVars, faults, credited, share, slack, cleared, straddled>>

\* disableInvalidClients on the node, which also counts what a master has pushed
\* (depletedCond).
NodeDisable(n) ==
    /\ nodeOn[n]
    /\ counter[n] >= Total \/ glob[n] >= Total
    /\ nodeOn' = [nodeOn EXCEPT ![n] = FALSE]
    /\ UNCHANGED <<counter, glob, row, switches, base, queueVars, requestVars, courierVars,
                   tickVars, faults, ghosts>>

\* ResetTrafficByEmail on the node: its counter and the pushed usage go, and a
\* client that was off is switched on.
NodeZero(n) ==
    /\ counter' = [counter EXCEPT ![n] = 0]
    /\ glob' = [glob EXCEPT ![n] = 0]
    /\ nodeOn' = [nodeOn EXCEPT ![n] = TRUE]
    /\ straddled' = [straddled EXCEPT ![n] = @ \/ tick[n] = "merge"]

\* An administrator of the node resets the client there.
NodeReset(n) ==
    /\ Fault /\ NodeZero(n)
    /\ UNCHANGED <<row, switches, base, queueVars, requestVars, courierVars, tickVars,
                   used, since, credited, share, slack, cleared>>

-----------------------------------------------------------------------------
(* Resets on the master                                                    *)

\* quotaDisabledEmails: off, and its usage reached the quota.
QuotaDisabled == ~ setOn /\ row >= Total

\* What the node has counted so far is not to be charged any more.
DeleteBaselines_Kept == UNCHANGED base
DeleteBaselines == base' = [n \in Nodes |-> None]

\* What the transactions of all resets share: the row is zeroed, the baselines are
\* deleted and every node is queued.
ZeroAndQueue ==
    /\ stamp < MaxResets
    /\ row' = 0
    /\ DeleteBaselines
    /\ stamp' = stamp + 1
    /\ owed' = [n \in Nodes |-> stamp + 1]
    /\ since' = [n \in Nodes |-> 0] /\ share' = [n \in Nodes |-> 0]
    /\ slack' = [n \in Nodes |->
         IF tick[n] = "merge" THEN Excess(counter[n], snap[n]) ELSE 0]
    /\ cleared' = [n \in Nodes |-> FALSE]
    /\ straddled' = [n \in Nodes |-> straddled[n] \/ tick[n] = "merge"]

\* ResetTrafficByEmail, the part it runs for the inbound on node n: the node is
\* marked dirty too, and tried once.
ResetClient(n) ==
    /\ ZeroAndQueue
    /\ rowOn' = (rowOn \/ QuotaDisabled \/ setOn)
    /\ MarkDirty({n})
    /\ asked' = [asked EXCEPT ![n] = TRUE]
    /\ reenable' = (reenable \/ ~ setOn)
    /\ UNCHANGED <<nodeVars, setOn, courierVars, tickVars, faults, used, credited>>

\* BulkResetTraffic, which leaves a client off that is off for another reason than its
\* quota, and the resets of all clients, which set enable in every row.
BulkReset(all) ==
    /\ ZeroAndQueue
    /\ rowOn' = (rowOn \/ setOn \/ QuotaDisabled \/ all)
    /\ asked' = [n \in Nodes |-> TRUE]
    /\ reenable' = (reenable \/ QuotaDisabled)
    /\ UNCHANGED <<nodeVars, setOn, dirtyVars, courierVars, tickVars, faults, used, credited>>

\* The Update or BulkSetEnable at the end of a reset. Its transaction marks the nodes
\* dirty; of the pushes that follow any may fail.
Reenable(reached) ==
    /\ reenable /\ reenable' = FALSE
    /\ setOn' = TRUE /\ rowOn' = TRUE
    /\ MarkDirty(Nodes)
    /\ nodeOn' = [n \in Nodes |-> nodeOn[n] \/ n \in reached]
    /\ UNCHANGED <<counter, glob, row, base, queueVars, asked, courierVars, tickVars,
                   faults, ghosts>>

\* disableInvalidClients on the master, in the AddTraffic of any poll. The nodes are
\* marked dirty in the transaction; of the pushes that follow any may fail.
MasterDisable(reached) ==
    /\ rowOn /\ row >= Total
    /\ rowOn' = FALSE /\ setOn' = FALSE
    /\ MarkDirty(Nodes)
    /\ nodeOn' = [n \in Nodes |-> nodeOn[n] /\ n \notin reached]
    /\ UNCHANGED <<counter, glob, row, base, queueVars, requestVars, courierVars, tickVars,
                   faults, ghosts>>

-----------------------------------------------------------------------------
(* DeliverNodeResets, under the delivery lock of the node                  *)

\* Of a request, right after its reset (deliverNodeResetsNow).
RequestDelivers(n) ==
    /\ asked[n] /\ courier[n] = "nobody"
    /\ asked' = [asked EXCEPT ![n] = FALSE]
    /\ courier' = [courier EXCEPT ![n] = IF owed[n] = 0 THEN "nobody" ELSE "request"]
    /\ carried' = [carried EXCEPT ![n] = owed[n]]
    /\ UNCHANGED <<nodeVars, row, switches, base, queueVars, reenable, tickVars, faults,
                   ghosts>>

\* Of the tick, before its snapshot.
TickDelivers_Skips(n) ==
    /\ tick[n] = "deliver"
    /\ tick' = [tick EXCEPT ![n] = "fetch"]
    /\ UNCHANGED <<nodeVars, row, switches, base, queueVars, requestVars, courierVars, seen,
                   justPushed, snap, snapOn, parcel, faults, ghosts>>
TickDelivers(n) ==
    /\ tick[n] = "deliver" /\ courier[n] = "nobody"
    /\ carried' = [carried EXCEPT ![n] = owed[n]]
    /\ IF owed[n] = 0
       THEN tick' = [tick EXCEPT ![n] = "fetch"] /\ UNCHANGED courier
       ELSE courier' = [courier EXCEPT ![n] = "tick"] /\ UNCHANGED tick
    /\ UNCHANGED <<nodeVars, row, switches, base, queueVars, requestVars, seen, justPushed,
                   snap, snapOn, parcel, faults, ghosts>>

\* DeliverNodeResets returns, to a tick that goes on to its snapshot.
DeliverReturns(n) ==
    /\ courier' = [courier EXCEPT ![n] = "nobody"]
    /\ carried' = [carried EXCEPT ![n] = 0]
    /\ tick' = [tick EXCEPT ![n] = IF courier[n] = "tick" THEN "fetch" ELSE @]

\* The node has zeroed the client and answered.
DeliverCall(n) ==
    /\ courier[n] \in {"tick", "request"} /\ carried[n] # 0
    /\ NodeZero(n)
    /\ cleared' = [cleared EXCEPT ![n] = TRUE]
    /\ courier' = [courier EXCEPT ![n] = IF @ = "tick" THEN "tickDone" ELSE "requestDone"]
    /\ UNCHANGED <<row, switches, base, queueVars, requestVars, carried, tickVars, faults,
                   used, since, credited, share, slack>>

\* The call fails; the node may have obeyed all the same.
DeliverFails(n) ==
    /\ courier[n] \in {"tick", "request"}
    /\ Fault /\ DeliverReturns(n)
    /\ \/ NodeZero(n) /\ cleared' = [cleared EXCEPT ![n] = TRUE]
       \/ UNCHANGED <<nodeVars, cleared, straddled>>
    /\ UNCHANGED <<row, switches, base, queueVars, requestVars, seen, justPushed, snap,
                   snapOn, parcel, used, since, credited, share, slack>>

\* The row goes unless it has been queued again since it was read.
Confirmed_AnyRow(n) == TRUE
Confirmed(n) == owed[n] = carried[n]

DeliverDelete(n) ==
    /\ courier[n] \in {"tickDone", "requestDone"}
    /\ owed' = [owed EXCEPT ![n] = IF Confirmed(n) THEN 0 ELSE @]
    /\ courier' = [courier EXCEPT ![n] = "nobody"]
    /\ carried' = [carried EXCEPT ![n] = 0]
    /\ tick' = [tick EXCEPT ![n] = IF courier[n] = "tickDone" THEN "fetch" ELSE @]
    /\ UNCHANGED <<nodeVars, row, switches, base, stamp, requestVars, seen, justPushed,
                   snap, snapOn, parcel, faults, ghosts>>

-----------------------------------------------------------------------------
(* syncOne                                                                 *)

\* Run has read the node's row. (A tick of the node never overlaps another one.)
TickStart(n) ==
    /\ tick[n] = "idle"
    /\ tick' = [tick EXCEPT ![n] = IF dirty[n] THEN "reconcile" ELSE "deliver"]
    /\ UNCHANGED <<nodeVars, row, switches, base, queueVars, requestVars, courierVars,
                   seen, justPushed, snap, snapOn, parcel, faults, ghosts>>

\* ReconcileNode, and ClearNodeDirty unless the node was marked again since its row
\* was read; NodeConfigSync has the edits that come in between the two.
Reconcile(n) ==
    /\ tick[n] = "reconcile"
    /\ tick' = [tick EXCEPT ![n] = "deliver"]
    /\ \/ /\ NoFault
          /\ nodeOn' = [nodeOn EXCEPT ![n] = setOn]
          /\ dirty' = [dirty EXCEPT ![n] = remarked[n]]
          /\ justPushed' = [justPushed EXCEPT ![n] = TRUE]
       \/ Fault /\ UNCHANGED <<nodeOn, dirty, justPushed>>
    /\ remarked' = [remarked EXCEPT ![n] = FALSE]
    /\ UNCHANGED <<counter, glob, row, rowOn, setOn, base, queueVars, requestVars,
                   courierVars, seen, snap, snapOn, parcel, ghosts>>

\* The tick has no more use for what it has read.
ForgetReading(n) ==
    /\ seen' = [seen EXCEPT ![n] = FALSE] /\ justPushed' = [justPushed EXCEPT ![n] = FALSE]
    /\ snap' = [snap EXCEPT ![n] = 0] /\ snapOn' = [snapOn EXCEPT ![n] = TRUE]
    /\ straddled' = [straddled EXCEPT ![n] = FALSE]

\* FetchTrafficSnapshot, and NodeSyncState right after it.
Fetch(n) ==
    /\ tick[n] = "fetch"
    /\ \/ /\ NoFault
          /\ tick' = [tick EXCEPT ![n] = "merge"]
          /\ snap' = [snap EXCEPT ![n] = counter[n]]
          /\ snapOn' = [snapOn EXCEPT ![n] = nodeOn[n]]
          /\ seen' = [seen EXCEPT ![n] = dirty[n]]
          /\ UNCHANGED <<justPushed, straddled>>
       \/ /\ Fault
          /\ tick' = [tick EXCEPT ![n] = "idle"]
          /\ ForgetReading(n)
    /\ UNCHANGED <<nodeVars, row, switches, base, queueVars, requestVars, courierVars,
                   parcel, used, since, credited, share, slack, cleared>>

\* What the snapshot adds to the row. Without a baseline there is nothing to compare
\* with; below it the node has started again.
Delta(n) == IF base[n] = None THEN 0 ELSE Excess(snap[n], base[n])

\* A push is pending or has just landed.
Unsettled(n) == seen[n] \/ dirty[n]

\* clientFrozen: only the counters may move.
Frozen_IgnoresOwed(n) == Unsettled(n) \/ justPushed[n]
Frozen(n) == Unsettled(n) \/ justPushed[n] \/ owed[n] # 0

\* Not nodeDisableIsStale: the node's own usage has reached the quota, or the
\* master's has.
DisableStands(n) == snap[n] >= Total \/ row + Delta(n) >= Total

\* The switch of the row once the snapshot is merged: a node may only switch off.
MergedOn(n) == rowOn /\ (Frozen(n) \/ snapOn[n] \/ ~ DisableStands(n))

\* The new baseline. A frozen client whose counter has dropped keeps the old one.
MergedBase_StopsWhileFrozen(n) ==
    IF Frozen(n) /\ base[n] # None THEN base[n] ELSE snap[n]
MergedBase(n) ==
    IF Frozen(n) /\ base[n] # None /\ Excess(base[n], snap[n]) > 0
    THEN base[n] ELSE snap[n]

\* liftClientLifecycleInSettings: the node's settings differ from the merged row.
Lifted_Never(n) == FALSE
Lifted(n) == snapOn[n] # MergedOn(n)

\* setRemoteTrafficLocked, on the traffic writer. The settings of the node are adopted
\* with the switch of the row, and a node that differs from it is marked dirty.
Merge(n) ==
    /\ tick[n] = "merge"
    /\ tick' = [tick EXCEPT ![n] = "globals"]
    /\ row' = row + Delta(n)
    /\ credited' = [credited EXCEPT ![n] = @ + Delta(n)]
    /\ share' = [share EXCEPT ![n] = @ + Delta(n)]
    /\ rowOn' = MergedOn(n)
    /\ base' = [base EXCEPT ![n] = MergedBase(n)]
    /\ IF Unsettled(n) THEN UNCHANGED <<setOn, dirtyVars>>
       ELSE /\ setOn' = MergedOn(n)
            /\ IF Lifted(n) THEN MarkDirty({n}) ELSE UNCHANGED dirtyVars
    /\ ForgetReading(n)
    /\ UNCHANGED <<nodeVars, queueVars, requestVars, courierVars, parcel, faults, used,
                   since, slack, cleared>>

\* The transaction fails and nothing of it stays.
MergeFails(n) ==
    /\ tick[n] = "merge" /\ Fault
    /\ tick' = [tick EXCEPT ![n] = "idle"]
    /\ ForgetReading(n)
    /\ UNCHANGED <<nodeVars, row, switches, base, queueVars, requestVars, courierVars,
                   parcel, used, since, credited, share, slack, cleared>>

\* maybePushGlobals: every thirty seconds the usage of the clients with a baseline is
\* read, and sent.
GlobalsRead(n) ==
    /\ tick[n] = "globals"
    /\ IF base[n] = None
       THEN tick' = [tick EXCEPT ![n] = "idle"] /\ UNCHANGED parcel
       ELSE /\ tick' = [tick EXCEPT ![n] = "push"]
            /\ parcel' = [parcel EXCEPT ![n] = row]
    /\ UNCHANGED <<nodeVars, row, switches, base, queueVars, requestVars, courierVars,
                   seen, justPushed, snap, snapOn, faults, ghosts>>

\* Not this time.
GlobalsSkip(n) ==
    /\ tick[n] = "globals"
    /\ tick' = [tick EXCEPT ![n] = "idle"]
    /\ UNCHANGED <<nodeVars, row, switches, base, queueVars, requestVars, courierVars,
                   seen, justPushed, snap, snapOn, parcel, faults, ghosts>>

\* AcceptGlobalTraffic on the node, if the call gets there.
GlobalsLand(n) ==
    /\ tick[n] = "push"
    /\ tick' = [tick EXCEPT ![n] = "idle"]
    /\ \/ NoFault /\ glob' = [glob EXCEPT ![n] = parcel[n]]
       \/ Fault /\ UNCHANGED glob
    /\ parcel' = [parcel EXCEPT ![n] = 0]
    /\ UNCHANGED <<counter, nodeOn, row, switches, base, queueVars, requestVars,
                   courierVars, seen, justPushed, snap, snapOn, ghosts>>

\* The master's process ends and is started again: the database is what is left.
Restart ==
    /\ Fault
    /\ asked' = [n \in Nodes |-> FALSE] /\ reenable' = FALSE
    /\ courier' = [n \in Nodes |-> "nobody"] /\ carried' = [n \in Nodes |-> 0]
    /\ tick' = [n \in Nodes |-> "idle"]
    /\ seen' = [n \in Nodes |-> FALSE] /\ justPushed' = [n \in Nodes |-> FALSE]
    /\ snap' = [n \in Nodes |-> 0] /\ snapOn' = [n \in Nodes |-> TRUE]
    /\ parcel' = [n \in Nodes |-> 0] /\ remarked' = [n \in Nodes |-> FALSE]
    /\ straddled' = [n \in Nodes |-> FALSE]
    /\ UNCHANGED <<nodeVars, row, rowOn, setOn, dirty, base, queueVars, used, since,
                   credited, share, slack, cleared>>

-----------------------------------------------------------------------------
Node(n)     == Relay(n) \/ NodeDisable(n) \/ NodeReset(n)
Delivery(n) == RequestDelivers(n) \/ TickDelivers(n) \/ DeliverCall(n) \/ DeliverFails(n)
                 \/ DeliverDelete(n)
Tick(n)     == TickStart(n) \/ Reconcile(n) \/ Fetch(n) \/ Merge(n) \/ MergeFails(n)
                 \/ GlobalsRead(n) \/ GlobalsSkip(n) \/ GlobalsLand(n)

Next ==
    \/ \E n \in Nodes : Node(n) \/ ResetClient(n) \/ Delivery(n) \/ Tick(n)
    \/ \E all \in BOOLEAN : BulkReset(all)
    \/ \E reached \in SUBSET Nodes : Reenable(reached) \/ MasterDisable(reached)
    \/ Restart

Spec == Init /\ [][Next]_vars

\* Cron runs the job every five seconds and every call has a timeout; the globals go
\* out every thirty seconds, so not always skipped. Both panels poll their depleted
\* clients, the node every ten seconds: not each time in the moment between a push of
\* the master and the snapshot after it. Nobody has to use traffic or to reset anything.
Fairness ==
    /\ \A n \in Nodes :
        /\ WF_vars(NodeDisable(n))
        /\ SF_vars(nodeOn[n] /\ TickDelivers(n)) /\ SF_vars(nodeOn[n] /\ Fetch(n))
        /\ WF_vars(Tick(n)) /\ SF_vars(GlobalsRead(n))
        /\ WF_vars(DeliverCall(n) \/ DeliverFails(n) \/ DeliverDelete(n))
        /\ WF_vars(RequestDelivers(n)) /\ SF_vars(TickDelivers(n))
    /\ WF_vars(\E reached \in SUBSET Nodes : MasterDisable(reached))
    /\ WF_vars(\E reached \in SUBSET Nodes : Reenable(reached))

FairSpec == Spec /\ Fairness

-----------------------------------------------------------------------------
(* Properties                                                              *)

\* Everything has its type, the delivery lock of a node is the tick's only while the
\* tick is about to deliver, and only its holder carries a row.
TypeOK ==
    /\ counter \in [Nodes -> Nat] /\ nodeOn \in [Nodes -> BOOLEAN]
    /\ glob \in [Nodes -> Nat]
    /\ row \in Nat /\ rowOn \in BOOLEAN /\ setOn \in BOOLEAN
    /\ base \in [Nodes -> Nat \union {None}]
    /\ owed \in [Nodes -> Nat] /\ stamp \in Nat
    /\ dirty \in [Nodes -> BOOLEAN] /\ remarked \in [Nodes -> BOOLEAN]
    /\ asked \in [Nodes -> BOOLEAN] /\ reenable \in BOOLEAN
    /\ courier \in [Nodes -> {"nobody", "request", "requestDone", "tick", "tickDone"}]
    /\ carried \in [Nodes -> Nat]
    /\ tick \in [Nodes -> {"idle", "reconcile", "deliver", "fetch", "merge", "globals", "push"}]
    /\ seen \in [Nodes -> BOOLEAN] /\ justPushed \in [Nodes -> BOOLEAN]
    /\ snap \in [Nodes -> Nat] /\ snapOn \in [Nodes -> BOOLEAN]
    /\ parcel \in [Nodes -> Nat]
    /\ faults \in Nat
    /\ used \in [Nodes -> Nat] /\ since \in [Nodes -> Nat]
    /\ credited \in [Nodes -> Nat] /\ share \in [Nodes -> Nat] /\ slack \in [Nodes -> Nat]
    /\ cleared \in [Nodes -> BOOLEAN] /\ straddled \in [Nodes -> BOOLEAN]
    /\ \A n \in Nodes :
        /\ courier[n] \in {"tick", "tickDone"} => tick[n] = "deliver"
        /\ courier[n] = "nobody" <=> carried[n] = 0

\* What the merges have credited to the client for a node is never more than what was
\* used there: no unit of traffic is counted twice, whatever the order of snapshots,
\* resets and the node's own zeroings.
CountedOnce == \A n \in Nodes : credited[n] <= used[n]

\* Since a reset, a client is charged for what it has used since, not for what it had
\* used before; except, if a snapshot was held across the reset, for the traffic
\* between that snapshot and the reset.
WindowIsClean == \A n \in Nodes : share[n] <= since[n] + slack[n]

\* A reset that is queued again while an earlier one is being delivered is not lost: a
\* node without a pending row has zeroed its counter after the last reset.
FreshResetSurvives == \A n \in Nodes : owed[n] = 0 => cleared[n]

\* A client that has been reset is not switched off for what it used before: when the
\* row is switched off, its quota or that much on one node has been used since, unless
\* a tick held a snapshot older than the reset or than its delivery.
LatchIsAboutThisWindow ==
    [][rowOn /\ ~ rowOn' =>
         row' >= Total \/ \E n \in Nodes : since[n] >= Total \/ straddled[n]]_vars

\* Every reset reaches every node: what the request could not deliver the job does.
ResetsArrive == \A n \in Nodes : owed[n] # 0 ~> owed[n] = 0

\* In the end a node lets the client in exactly if the master says so, whatever
\* usage was pushed to it late and whatever it decided on its own.
SwitchesAgree == \A n \in Nodes : <>[](nodeOn[n] = rowOn)
=============================================================================
