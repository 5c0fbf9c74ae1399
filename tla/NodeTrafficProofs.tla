-------------------------- MODULE NodeTrafficProofs --------------------------
(***************************************************************************)
(* For any number of nodes, resets, faults and restarts, and any quota: no *)
(* usage is credited twice, a reset starts a clean window, a reset that is *)
(* queued again is delivered, and nobody is switched off for the usage of  *)
(* an earlier window.                                                      *)
(***************************************************************************)
EXTENDS NodeTraffic, TLAPS

\* The part of a counter that a later merge may still credit, on top of what has been
\* credited: never more than was used. A snapshot that is held splits it in what
\* its merge will credit and what is left for the next one.
Bounded(n, sum, limit) ==
    /\ sum <= limit
    /\ base[n] # None => sum + Excess(counter[n], base[n]) <= limit
    /\ tick[n] = "merge" => sum + Excess(counter[n], snap[n]) <= limit
    /\ tick[n] = "merge" /\ base[n] # None =>
         sum + Excess(snap[n], base[n]) + Excess(counter[n], snap[n]) <= limit

CountInv  == \A n \in Nodes : Bounded(n, credited[n], used[n])
WindowInv == \A n \in Nodes : Bounded(n, share[n], since[n] + slack[n])

\* A delivery that has succeeded and finds its row as it has read it has zeroed the node
\* after the last reset.
QueueInv ==
    \A n \in Nodes :
        /\ owed[n] <= stamp /\ carried[n] <= stamp
        /\ owed[n] = 0 => cleared[n]
        /\ courier[n] \in {"tickDone", "requestDone"} /\ owed[n] = carried[n] => cleared[n]

\* The counter of a node that has been zeroed since the reset is of this window, and so
\* is a snapshot that is not older than the zeroing.
Reading(n) ==
    /\ cleared[n] => counter[n] <= since[n]
    /\ tick[n] = "merge" /\ ~ straddled[n] /\ cleared[n] => snap[n] <= since[n]
ReadingInv == \A n \in Nodes : Reading(n)

IInv == TypeOK /\ CountInv /\ WindowInv /\ QueueInv /\ ReadingInv

-----------------------------------------------------------------------------
(* One lemma per part of the invariant. <1>1 is the frame: what the steps that *)
(* leave the variables of that part alone have in common.                      *)

USE DEF nodeVars, dirtyVars, switches, queueVars, requestVars, courierVars, tickVars,
        ghosts

\* Types. The tick leaves "deliver" only when it does not hold the delivery lock.
LEMMA TypeStep ==
    ASSUME IInv, Next
    PROVE  TypeOK'
<1> USE NodeTrafficAssumption
<1>1. ASSUME NEW n \in Nodes, Relay(n)
      PROVE  TypeOK'
  BY <1>1 DEF IInv, TypeOK, Relay
<1>2. ASSUME NEW n \in Nodes, NodeDisable(n)
      PROVE  TypeOK'
  BY <1>2 DEF IInv, TypeOK, NodeDisable
<1>3. ASSUME NEW n \in Nodes, NodeReset(n)
      PROVE  TypeOK'
  BY <1>3 DEF IInv, TypeOK, NodeReset, Fault, NodeZero
<1>4. ASSUME NEW n \in Nodes, ResetClient(n)
      PROVE  TypeOK'
  BY <1>4 DEF IInv, TypeOK, ResetClient, MarkDirty, ZeroAndQueue, QuotaDisabled,
          DeleteBaselines, Excess
<1>5. ASSUME NEW all \in BOOLEAN, BulkReset(all)
      PROVE  TypeOK'
  BY <1>5 DEF IInv, TypeOK, BulkReset, ZeroAndQueue, QuotaDisabled, DeleteBaselines,
          Excess
<1>6. ASSUME NEW reached \in SUBSET Nodes, Reenable(reached)
      PROVE  TypeOK'
  BY <1>6 DEF IInv, TypeOK, Reenable, MarkDirty
<1>7. ASSUME NEW reached \in SUBSET Nodes, MasterDisable(reached)
      PROVE  TypeOK'
  BY <1>7 DEF IInv, TypeOK, MasterDisable, MarkDirty
<1>8. ASSUME NEW n \in Nodes, RequestDelivers(n)
      PROVE  TypeOK'
  BY <1>8 DEF IInv, TypeOK, RequestDelivers
<1>9. ASSUME NEW n \in Nodes, TickDelivers(n)
      PROVE  TypeOK'
  BY <1>9 DEF IInv, TypeOK, TickDelivers
<1>10. ASSUME NEW n \in Nodes, DeliverCall(n)
      PROVE  TypeOK'
  BY <1>10 DEF IInv, TypeOK, DeliverCall, NodeZero
<1>11. ASSUME NEW n \in Nodes, DeliverFails(n)
      PROVE  TypeOK'
  <2>1. counter' \in [Nodes -> Nat]
    BY <1>11 DEF IInv, TypeOK, DeliverFails, Fault, NodeZero, DeliverReturns
  <2>2. nodeOn' \in [Nodes -> BOOLEAN]
    BY <1>11 DEF IInv, TypeOK, DeliverFails, Fault, NodeZero, DeliverReturns
  <2>3. glob' \in [Nodes -> Nat]
    BY <1>11 DEF IInv, TypeOK, DeliverFails, Fault, NodeZero, DeliverReturns
  <2>4. row' \in Nat /\ rowOn' \in BOOLEAN /\ setOn' \in BOOLEAN /\ stamp' \in Nat /\ reenable' \in BOOLEAN
    BY <1>11 DEF IInv, TypeOK, DeliverFails, Fault, NodeZero, DeliverReturns
  <2>5. faults' \in Nat
    BY <1>11 DEF IInv, TypeOK, DeliverFails, Fault, NodeZero, DeliverReturns
  <2>6. base' \in [Nodes -> Nat \union {None}] /\ owed' \in [Nodes -> Nat]
    BY <1>11 DEF IInv, TypeOK, DeliverFails, Fault, NodeZero, DeliverReturns
  <2>7. dirty' \in [Nodes -> BOOLEAN] /\ remarked' \in [Nodes -> BOOLEAN] /\ asked' \in [Nodes -> BOOLEAN]
    BY <1>11 DEF IInv, TypeOK, DeliverFails, Fault, NodeZero, DeliverReturns
  <2>8. courier' \in [Nodes -> {"nobody", "request", "requestDone", "tick", "tickDone"}]
    BY <1>11 DEF IInv, TypeOK, DeliverFails, Fault, NodeZero, DeliverReturns
  <2>9. carried' \in [Nodes -> Nat]
    BY <1>11 DEF IInv, TypeOK, DeliverFails, Fault, NodeZero, DeliverReturns
  <2>10. tick' \in [Nodes -> {"idle", "reconcile", "deliver", "fetch", "merge", "globals", "push"}]
    BY <1>11 DEF IInv, TypeOK, DeliverFails, Fault, NodeZero, DeliverReturns
  <2>11. seen' \in [Nodes -> BOOLEAN] /\ justPushed' \in [Nodes -> BOOLEAN]
    BY <1>11 DEF IInv, TypeOK, DeliverFails, Fault, NodeZero, DeliverReturns
  <2>12. snapOn' \in [Nodes -> BOOLEAN] /\ parcel' \in [Nodes -> Nat]
    BY <1>11 DEF IInv, TypeOK, DeliverFails, Fault, NodeZero, DeliverReturns
  <2>13. used' \in [Nodes -> Nat] /\ since' \in [Nodes -> Nat] /\ credited' \in [Nodes -> Nat]
    BY <1>11 DEF IInv, TypeOK, DeliverFails, Fault, NodeZero, DeliverReturns
  <2>14. share' \in [Nodes -> Nat] /\ slack' \in [Nodes -> Nat]
    BY <1>11 DEF IInv, TypeOK, DeliverFails, Fault, NodeZero, DeliverReturns
  <2>15. cleared' \in [Nodes -> BOOLEAN] /\ straddled' \in [Nodes -> BOOLEAN]
    BY <1>11 DEF IInv, TypeOK, DeliverFails, Fault, NodeZero, DeliverReturns
  <2>16. snap' \in [Nodes -> Nat]
    BY <1>11 DEF IInv, TypeOK, DeliverFails, Fault, NodeZero, DeliverReturns
  <2>17. \A m \in Nodes :
         /\ courier'[m] \in {"tick", "tickDone"} => tick'[m] = "deliver"
         /\ courier'[m] = "nobody" <=> carried'[m] = 0
    BY <1>11 DEF IInv, TypeOK, DeliverFails, Fault, NodeZero, DeliverReturns
  <2> QED
    BY <2>1, <2>2, <2>3, <2>4, <2>5, <2>6, <2>7, <2>8, <2>9, <2>10, <2>11, <2>12,
       <2>13, <2>14, <2>15, <2>16, <2>17 DEF TypeOK
<1>12. ASSUME NEW n \in Nodes, DeliverDelete(n)
      PROVE  TypeOK'
  BY <1>12 DEF IInv, TypeOK, DeliverDelete, Confirmed
<1>13. ASSUME NEW n \in Nodes, TickStart(n)
      PROVE  TypeOK'
  BY <1>13 DEF IInv, TypeOK, TickStart
<1>14. ASSUME NEW n \in Nodes, Reconcile(n)
      PROVE  TypeOK'
  <2>1. counter' \in [Nodes -> Nat]
    BY <1>14 DEF IInv, TypeOK, Reconcile, Fault, NoFault
  <2>2. nodeOn' \in [Nodes -> BOOLEAN]
    BY <1>14 DEF IInv, TypeOK, Reconcile, Fault, NoFault
  <2>3. glob' \in [Nodes -> Nat]
    BY <1>14 DEF IInv, TypeOK, Reconcile, Fault, NoFault
  <2>4. row' \in Nat /\ rowOn' \in BOOLEAN /\ setOn' \in BOOLEAN /\ stamp' \in Nat /\ reenable' \in BOOLEAN
    BY <1>14 DEF IInv, TypeOK, Reconcile, Fault, NoFault
  <2>5. faults' \in Nat
    BY <1>14 DEF IInv, TypeOK, Reconcile, Fault, NoFault
  <2>6. base' \in [Nodes -> Nat \union {None}] /\ owed' \in [Nodes -> Nat]
    BY <1>14 DEF IInv, TypeOK, Reconcile, Fault, NoFault
  <2>7. dirty' \in [Nodes -> BOOLEAN] /\ remarked' \in [Nodes -> BOOLEAN] /\ asked' \in [Nodes -> BOOLEAN]
    BY <1>14 DEF IInv, TypeOK, Reconcile, Fault, NoFault
  <2>8. courier' \in [Nodes -> {"nobody", "request", "requestDone", "tick", "tickDone"}]
    BY <1>14 DEF IInv, TypeOK, Reconcile, Fault, NoFault
  <2>9. carried' \in [Nodes -> Nat]
    BY <1>14 DEF IInv, TypeOK, Reconcile, Fault, NoFault
  <2>10. tick' \in [Nodes -> {"idle", "reconcile", "deliver", "fetch", "merge", "globals", "push"}]
    BY <1>14 DEF IInv, TypeOK, Reconcile, Fault, NoFault
  <2>11. seen' \in [Nodes -> BOOLEAN] /\ justPushed' \in [Nodes -> BOOLEAN]
    BY <1>14 DEF IInv, TypeOK, Reconcile, Fault, NoFault
  <2>12. snapOn' \in [Nodes -> BOOLEAN] /\ parcel' \in [Nodes -> Nat]
    BY <1>14 DEF IInv, TypeOK, Reconcile, Fault, NoFault
  <2>13. used' \in [Nodes -> Nat] /\ since' \in [Nodes -> Nat] /\ credited' \in [Nodes -> Nat]
    BY <1>14 DEF IInv, TypeOK, Reconcile, Fault, NoFault
  <2>14. share' \in [Nodes -> Nat] /\ slack' \in [Nodes -> Nat]
    BY <1>14 DEF IInv, TypeOK, Reconcile, Fault, NoFault
  <2>15. cleared' \in [Nodes -> BOOLEAN] /\ straddled' \in [Nodes -> BOOLEAN]
    BY <1>14 DEF IInv, TypeOK, Reconcile, Fault, NoFault
  <2>16. snap' \in [Nodes -> Nat]
    BY <1>14 DEF IInv, TypeOK, Reconcile, Fault, NoFault
  <2>17. \A m \in Nodes :
         /\ courier'[m] \in {"tick", "tickDone"} => tick'[m] = "deliver"
         /\ courier'[m] = "nobody" <=> carried'[m] = 0
    BY <1>14 DEF IInv, TypeOK, Reconcile, Fault, NoFault
  <2> QED
    BY <2>1, <2>2, <2>3, <2>4, <2>5, <2>6, <2>7, <2>8, <2>9, <2>10, <2>11, <2>12,
       <2>13, <2>14, <2>15, <2>16, <2>17 DEF TypeOK
<1>15. ASSUME NEW n \in Nodes, Fetch(n)
      PROVE  TypeOK'
  <2>1. counter' \in [Nodes -> Nat]
    BY <1>15 DEF IInv, TypeOK, Fetch, Fault, NoFault, ForgetReading
  <2>2. nodeOn' \in [Nodes -> BOOLEAN]
    BY <1>15 DEF IInv, TypeOK, Fetch, Fault, NoFault, ForgetReading
  <2>3. glob' \in [Nodes -> Nat]
    BY <1>15 DEF IInv, TypeOK, Fetch, Fault, NoFault, ForgetReading
  <2>4. row' \in Nat /\ rowOn' \in BOOLEAN /\ setOn' \in BOOLEAN /\ stamp' \in Nat /\ reenable' \in BOOLEAN
    BY <1>15 DEF IInv, TypeOK, Fetch, Fault, NoFault, ForgetReading
  <2>5. faults' \in Nat
    BY <1>15 DEF IInv, TypeOK, Fetch, Fault, NoFault, ForgetReading
  <2>6. base' \in [Nodes -> Nat \union {None}] /\ owed' \in [Nodes -> Nat]
    BY <1>15 DEF IInv, TypeOK, Fetch, Fault, NoFault, ForgetReading
  <2>7. dirty' \in [Nodes -> BOOLEAN] /\ remarked' \in [Nodes -> BOOLEAN] /\ asked' \in [Nodes -> BOOLEAN]
    BY <1>15 DEF IInv, TypeOK, Fetch, Fault, NoFault, ForgetReading
  <2>8. courier' \in [Nodes -> {"nobody", "request", "requestDone", "tick", "tickDone"}]
    BY <1>15 DEF IInv, TypeOK, Fetch, Fault, NoFault, ForgetReading
  <2>9. carried' \in [Nodes -> Nat]
    BY <1>15 DEF IInv, TypeOK, Fetch, Fault, NoFault, ForgetReading
  <2>10. tick' \in [Nodes -> {"idle", "reconcile", "deliver", "fetch", "merge", "globals", "push"}]
    BY <1>15 DEF IInv, TypeOK, Fetch, Fault, NoFault, ForgetReading
  <2>11. seen' \in [Nodes -> BOOLEAN] /\ justPushed' \in [Nodes -> BOOLEAN]
    BY <1>15 DEF IInv, TypeOK, Fetch, Fault, NoFault, ForgetReading
  <2>12. snapOn' \in [Nodes -> BOOLEAN] /\ parcel' \in [Nodes -> Nat]
    <3>1. /\ snapOn \in [Nodes -> BOOLEAN] /\ nodeOn[n] \in BOOLEAN
          /\ parcel \in [Nodes -> Nat] /\ parcel' = parcel
      BY <1>15 DEF IInv, TypeOK, Fetch
    <3>2. \E v \in BOOLEAN : snapOn' = [snapOn EXCEPT ![n] = v]
      BY <1>15, <3>1 DEF Fetch, ForgetReading
    <3> QED
      BY <3>1, <3>2
  <2>13. used' \in [Nodes -> Nat] /\ since' \in [Nodes -> Nat] /\ credited' \in [Nodes -> Nat]
    BY <1>15 DEF IInv, TypeOK, Fetch, Fault, NoFault, ForgetReading
  <2>14. share' \in [Nodes -> Nat] /\ slack' \in [Nodes -> Nat]
    BY <1>15 DEF IInv, TypeOK, Fetch, Fault, NoFault, ForgetReading
  <2>15. cleared' \in [Nodes -> BOOLEAN] /\ straddled' \in [Nodes -> BOOLEAN]
    BY <1>15 DEF IInv, TypeOK, Fetch, Fault, NoFault, ForgetReading
  <2>16. snap' \in [Nodes -> Nat]
    BY <1>15 DEF IInv, TypeOK, Fetch, Fault, NoFault, ForgetReading
  <2>17. \A m \in Nodes :
         /\ courier'[m] \in {"tick", "tickDone"} => tick'[m] = "deliver"
         /\ courier'[m] = "nobody" <=> carried'[m] = 0
    BY <1>15 DEF IInv, TypeOK, Fetch, Fault, NoFault, ForgetReading
  <2> QED
    BY <2>1, <2>2, <2>3, <2>4, <2>5, <2>6, <2>7, <2>8, <2>9, <2>10, <2>11, <2>12,
       <2>13, <2>14, <2>15, <2>16, <2>17 DEF TypeOK
<1>16. ASSUME NEW n \in Nodes, Merge(n)
      PROVE  TypeOK'
  <2>1. Delta(n) \in Nat
    BY <1>16 DEF IInv, TypeOK, Delta, Frozen, Excess
  <2>2. MergedOn(n) \in BOOLEAN
    BY <1>16 DEF IInv, TypeOK, MergedOn, DisableStands, Lifted, Excess, Frozen
  <2>3. MergedBase(n) \in Nat \union {None}
    BY <1>16 DEF IInv, TypeOK, MergedBase
  <2>4. setOn' \in BOOLEAN /\ dirty' \in [Nodes -> BOOLEAN] /\ remarked' \in [Nodes -> BOOLEAN]
    <3>1. setOn' \in BOOLEAN
      BY <1>16, <2>2 DEF IInv, TypeOK, Merge
    <3>2. MarkDirty({n}) \/ UNCHANGED dirtyVars
      BY <1>16 DEF Merge
    <3>3. dirty \in [Nodes -> BOOLEAN] /\ remarked \in [Nodes -> BOOLEAN]
      BY DEF IInv, TypeOK
    <3>4. CASE MarkDirty({n})
      <4>1. dirty' \in [Nodes -> BOOLEAN]
        BY <3>4 DEF MarkDirty
      <4>2. remarked' \in [Nodes -> BOOLEAN]
        BY <3>4 DEF MarkDirty
      <4> QED
        BY <3>1, <4>1, <4>2
    <3>5. CASE UNCHANGED dirtyVars
      BY <3>1, <3>3, <3>5 DEF dirtyVars
    <3> QED
      BY <3>2, <3>4, <3>5
  <2>5. /\ row' \in Nat /\ rowOn' \in BOOLEAN /\ base' \in [Nodes -> Nat \union {None}]
        /\ credited' \in [Nodes -> Nat] /\ share' \in [Nodes -> Nat]
    BY <1>16, <2>1, <2>2, <2>3 DEF IInv, TypeOK, Merge
  <2> QED
    BY <1>16, <2>4, <2>5 DEF IInv, TypeOK, Merge, ForgetReading
<1>17. ASSUME NEW n \in Nodes, MergeFails(n)
      PROVE  TypeOK'
  BY <1>17 DEF IInv, TypeOK, MergeFails, Fault, ForgetReading
<1>18. ASSUME NEW n \in Nodes, GlobalsRead(n)
      PROVE  TypeOK'
  BY <1>18 DEF IInv, TypeOK, GlobalsRead
<1>19. ASSUME NEW n \in Nodes, GlobalsSkip(n)
      PROVE  TypeOK'
  BY <1>19 DEF IInv, TypeOK, GlobalsSkip
<1>20. ASSUME NEW n \in Nodes, GlobalsLand(n)
      PROVE  TypeOK'
  BY <1>20 DEF IInv, TypeOK, GlobalsLand, Fault, NoFault
<1>21. ASSUME Restart
      PROVE  TypeOK'
  <2>1. counter' \in [Nodes -> Nat]
    BY <1>21 DEF IInv, TypeOK, Restart, Fault
  <2>2. nodeOn' \in [Nodes -> BOOLEAN]
    BY <1>21 DEF IInv, TypeOK, Restart, Fault
  <2>3. glob' \in [Nodes -> Nat]
    BY <1>21 DEF IInv, TypeOK, Restart, Fault
  <2>4. row' \in Nat /\ rowOn' \in BOOLEAN /\ setOn' \in BOOLEAN /\ stamp' \in Nat /\ reenable' \in BOOLEAN
    BY <1>21 DEF IInv, TypeOK, Restart, Fault
  <2>5. faults' \in Nat
    BY <1>21 DEF IInv, TypeOK, Restart, Fault
  <2>6. base' \in [Nodes -> Nat \union {None}] /\ owed' \in [Nodes -> Nat]
    BY <1>21 DEF IInv, TypeOK, Restart, Fault
  <2>7. dirty' \in [Nodes -> BOOLEAN] /\ remarked' \in [Nodes -> BOOLEAN] /\ asked' \in [Nodes -> BOOLEAN]
    BY <1>21 DEF IInv, TypeOK, Restart, Fault
  <2>8. courier' \in [Nodes -> {"nobody", "request", "requestDone", "tick", "tickDone"}]
    BY <1>21 DEF IInv, TypeOK, Restart, Fault
  <2>9. carried' \in [Nodes -> Nat]
    BY <1>21 DEF IInv, TypeOK, Restart, Fault
  <2>10. tick' \in [Nodes -> {"idle", "reconcile", "deliver", "fetch", "merge", "globals", "push"}]
    BY <1>21 DEF IInv, TypeOK, Restart, Fault
  <2>11. seen' \in [Nodes -> BOOLEAN] /\ justPushed' \in [Nodes -> BOOLEAN]
    BY <1>21 DEF IInv, TypeOK, Restart, Fault
  <2>12. snapOn' \in [Nodes -> BOOLEAN] /\ parcel' \in [Nodes -> Nat]
    BY <1>21 DEF IInv, TypeOK, Restart, Fault
  <2>13. used' \in [Nodes -> Nat] /\ since' \in [Nodes -> Nat] /\ credited' \in [Nodes -> Nat]
    BY <1>21 DEF IInv, TypeOK, Restart, Fault
  <2>14. share' \in [Nodes -> Nat] /\ slack' \in [Nodes -> Nat]
    BY <1>21 DEF IInv, TypeOK, Restart, Fault
  <2>15. cleared' \in [Nodes -> BOOLEAN] /\ straddled' \in [Nodes -> BOOLEAN]
    BY <1>21 DEF IInv, TypeOK, Restart, Fault
  <2>16. snap' \in [Nodes -> Nat]
    BY <1>21 DEF IInv, TypeOK, Restart, Fault
  <2>17. \A m \in Nodes :
         /\ courier'[m] \in {"tick", "tickDone"} => tick'[m] = "deliver"
         /\ courier'[m] = "nobody" <=> carried'[m] = 0
    BY <1>21 DEF IInv, TypeOK, Restart, Fault
  <2> QED
    BY <2>1, <2>2, <2>3, <2>4, <2>5, <2>6, <2>7, <2>8, <2>9, <2>10, <2>11, <2>12,
       <2>13, <2>14, <2>15, <2>16, <2>17 DEF TypeOK
<1> QED
  BY <1>1, <1>2, <1>3, <1>4, <1>5, <1>6, <1>7, <1>8, <1>9, <1>10, <1>11, <1>12,
     <1>13, <1>14, <1>15, <1>16, <1>17, <1>18, <1>19, <1>20, <1>21
  DEF Next, Node, Delivery, Tick

\* Each merge credits the part of the counter between the baseline and the
\* snapshot, and moves the baseline so that what is left is the part above the
\* snapshot; a zeroing leaves nothing.
LEMMA CountStep ==
    ASSUME IInv, Next
    PROVE  CountInv'
<1> USE NodeTrafficAssumption
<1>1. ASSUME UNCHANGED <<counter, base, tick, snap, credited, used>>
      PROVE  CountInv'
  BY <1>1 DEF IInv, TypeOK, CountInv, Bounded, Excess
<1>2. ASSUME NEW n \in Nodes, Relay(n)
      PROVE  CountInv'
  BY <1>2 DEF IInv, TypeOK, CountInv, Bounded, Excess, Relay
<1>3. ASSUME NEW n \in Nodes, NodeReset(n)
      PROVE  CountInv'
  BY <1>3 DEF IInv, TypeOK, CountInv, Bounded, Excess, NodeReset, Fault, NodeZero
<1>4. ASSUME NEW n \in Nodes, ResetClient(n)
      PROVE  CountInv'
  BY <1>4 DEF IInv, TypeOK, CountInv, Bounded, Excess, ResetClient, MarkDirty,
          ZeroAndQueue, QuotaDisabled, DeleteBaselines
<1>5. ASSUME NEW all \in BOOLEAN, BulkReset(all)
      PROVE  CountInv'
  BY <1>5 DEF IInv, TypeOK, CountInv, Bounded, Excess, BulkReset, ZeroAndQueue,
          QuotaDisabled, DeleteBaselines
<1>6. ASSUME NEW n \in Nodes, TickDelivers(n)
      PROVE  CountInv'
  BY <1>6 DEF IInv, TypeOK, CountInv, Bounded, Excess, TickDelivers
<1>7. ASSUME NEW n \in Nodes, DeliverCall(n)
      PROVE  CountInv'
  BY <1>7 DEF IInv, TypeOK, CountInv, Bounded, Excess, DeliverCall, NodeZero
<1>8. ASSUME NEW n \in Nodes, DeliverFails(n)
      PROVE  CountInv'
  BY <1>8 DEF IInv, TypeOK, CountInv, Bounded, Excess, DeliverFails, Fault,
          NodeZero, DeliverReturns
<1>9. ASSUME NEW n \in Nodes, DeliverDelete(n)
      PROVE  CountInv'
  BY <1>9 DEF IInv, TypeOK, CountInv, Bounded, Excess, DeliverDelete, Confirmed
<1>10. ASSUME NEW n \in Nodes, TickStart(n)
      PROVE  CountInv'
  BY <1>10 DEF IInv, TypeOK, CountInv, Bounded, Excess, TickStart
<1>11. ASSUME NEW n \in Nodes, Reconcile(n)
      PROVE  CountInv'
  BY <1>11 DEF IInv, TypeOK, CountInv, Bounded, Excess, Reconcile, Fault, NoFault
<1>12. ASSUME NEW n \in Nodes, Fetch(n)
      PROVE  CountInv'
  BY <1>12 DEF IInv, TypeOK, CountInv, Bounded, Excess, Fetch, Fault, NoFault,
          ForgetReading
<1>13. ASSUME NEW n \in Nodes, Merge(n)
      PROVE  CountInv'
  BY <1>13 DEF IInv, TypeOK, CountInv, Bounded, Excess, Merge, MarkDirty,
          ForgetReading, Delta, Unsettled, MergedOn, MergedBase, Lifted, Frozen,
          DisableStands
<1>14. ASSUME NEW n \in Nodes, MergeFails(n)
      PROVE  CountInv'
  BY <1>14 DEF IInv, TypeOK, CountInv, Bounded, Excess, MergeFails, Fault,
          ForgetReading
<1>15. ASSUME NEW n \in Nodes, GlobalsRead(n)
      PROVE  CountInv'
  BY <1>15 DEF IInv, TypeOK, CountInv, Bounded, Excess, GlobalsRead
<1>16. ASSUME NEW n \in Nodes, GlobalsSkip(n)
      PROVE  CountInv'
  BY <1>16 DEF IInv, TypeOK, CountInv, Bounded, Excess, GlobalsSkip
<1>17. ASSUME NEW n \in Nodes, GlobalsLand(n)
      PROVE  CountInv'
  BY <1>17 DEF IInv, TypeOK, CountInv, Bounded, Excess, GlobalsLand, Fault, NoFault
<1>18. ASSUME Restart
      PROVE  CountInv'
  BY <1>18 DEF IInv, TypeOK, CountInv, Bounded, Excess, Restart, Fault
<1>19. CASE \/ (\E n \in Nodes : NodeDisable(n))
            \/ (\E reached \in SUBSET Nodes : Reenable(reached))
            \/ (\E reached \in SUBSET Nodes : MasterDisable(reached))
            \/ (\E n \in Nodes : RequestDelivers(n))
  BY <1>19, <1>1 DEF NodeDisable, Reenable, MasterDisable, RequestDelivers
<1> QED
  BY <1>1, <1>2, <1>3, <1>4, <1>5, <1>6, <1>7, <1>8, <1>9, <1>10, <1>11, <1>12,
     <1>13, <1>14, <1>15, <1>16, <1>17, <1>18, <1>19
  DEF Next, Node, Delivery, Tick

\* The same since the last reset, which deletes the baselines: the first merge
\* after it credits nothing, and what follows is above the snapshot it was made of.
LEMMA WindowStep ==
    ASSUME IInv, Next
    PROVE  WindowInv'
<1> USE NodeTrafficAssumption
<1>1. ASSUME UNCHANGED <<counter, base, tick, snap, share, since, slack>>
      PROVE  WindowInv'
  BY <1>1 DEF IInv, TypeOK, WindowInv, Bounded, Excess
<1>2. ASSUME NEW n \in Nodes, Relay(n)
      PROVE  WindowInv'
  BY <1>2 DEF IInv, TypeOK, WindowInv, Bounded, Excess, Relay
<1>3. ASSUME NEW n \in Nodes, NodeReset(n)
      PROVE  WindowInv'
  BY <1>3 DEF IInv, TypeOK, WindowInv, Bounded, Excess, NodeReset, Fault, NodeZero
<1>4. ASSUME NEW n \in Nodes, ResetClient(n)
      PROVE  WindowInv'
  BY <1>4 DEF IInv, TypeOK, WindowInv, Bounded, Excess, ResetClient, MarkDirty,
          ZeroAndQueue, QuotaDisabled, DeleteBaselines
<1>5. ASSUME NEW all \in BOOLEAN, BulkReset(all)
      PROVE  WindowInv'
  BY <1>5 DEF IInv, TypeOK, WindowInv, Bounded, Excess, BulkReset, ZeroAndQueue,
          QuotaDisabled, DeleteBaselines
<1>6. ASSUME NEW n \in Nodes, TickDelivers(n)
      PROVE  WindowInv'
  BY <1>6 DEF IInv, TypeOK, WindowInv, Bounded, Excess, TickDelivers
<1>7. ASSUME NEW n \in Nodes, DeliverCall(n)
      PROVE  WindowInv'
  BY <1>7 DEF IInv, TypeOK, WindowInv, Bounded, Excess, DeliverCall, NodeZero
<1>8. ASSUME NEW n \in Nodes, DeliverFails(n)
      PROVE  WindowInv'
  BY <1>8 DEF IInv, TypeOK, WindowInv, Bounded, Excess, DeliverFails, Fault,
          NodeZero, DeliverReturns
<1>9. ASSUME NEW n \in Nodes, DeliverDelete(n)
      PROVE  WindowInv'
  BY <1>9 DEF IInv, TypeOK, WindowInv, Bounded, Excess, DeliverDelete, Confirmed
<1>10. ASSUME NEW n \in Nodes, TickStart(n)
      PROVE  WindowInv'
  BY <1>10 DEF IInv, TypeOK, WindowInv, Bounded, Excess, TickStart
<1>11. ASSUME NEW n \in Nodes, Reconcile(n)
      PROVE  WindowInv'
  BY <1>11 DEF IInv, TypeOK, WindowInv, Bounded, Excess, Reconcile, Fault, NoFault
<1>12. ASSUME NEW n \in Nodes, Fetch(n)
      PROVE  WindowInv'
  BY <1>12 DEF IInv, TypeOK, WindowInv, Bounded, Excess, Fetch, Fault, NoFault,
          ForgetReading
<1>13. ASSUME NEW n \in Nodes, Merge(n)
      PROVE  WindowInv'
  BY <1>13 DEF IInv, TypeOK, WindowInv, Bounded, Excess, Merge, MarkDirty,
          ForgetReading, Delta, Unsettled, MergedOn, MergedBase, Lifted, Frozen,
          DisableStands
<1>14. ASSUME NEW n \in Nodes, MergeFails(n)
      PROVE  WindowInv'
  BY <1>14 DEF IInv, TypeOK, WindowInv, Bounded, Excess, MergeFails, Fault,
          ForgetReading
<1>15. ASSUME NEW n \in Nodes, GlobalsRead(n)
      PROVE  WindowInv'
  BY <1>15 DEF IInv, TypeOK, WindowInv, Bounded, Excess, GlobalsRead
<1>16. ASSUME NEW n \in Nodes, GlobalsSkip(n)
      PROVE  WindowInv'
  BY <1>16 DEF IInv, TypeOK, WindowInv, Bounded, Excess, GlobalsSkip
<1>17. ASSUME NEW n \in Nodes, GlobalsLand(n)
      PROVE  WindowInv'
  BY <1>17 DEF IInv, TypeOK, WindowInv, Bounded, Excess, GlobalsLand, Fault, NoFault
<1>18. ASSUME Restart
      PROVE  WindowInv'
  BY <1>18 DEF IInv, TypeOK, WindowInv, Bounded, Excess, Restart, Fault
<1>19. CASE \/ (\E n \in Nodes : NodeDisable(n))
            \/ (\E reached \in SUBSET Nodes : Reenable(reached))
            \/ (\E reached \in SUBSET Nodes : MasterDisable(reached))
            \/ (\E n \in Nodes : RequestDelivers(n))
  BY <1>19, <1>1 DEF NodeDisable, Reenable, MasterDisable, RequestDelivers
<1> QED
  BY <1>1, <1>2, <1>3, <1>4, <1>5, <1>6, <1>7, <1>8, <1>9, <1>10, <1>11, <1>12,
     <1>13, <1>14, <1>15, <1>16, <1>17, <1>18, <1>19
  DEF Next, Node, Delivery, Tick

\* A reset takes a stamp nobody carries yet, and DeliverCall zeroes the node.
LEMMA QueueStep ==
    ASSUME IInv, Next
    PROVE  QueueInv'
<1> USE NodeTrafficAssumption
<1>1. ASSUME UNCHANGED <<owed, stamp, courier, carried, cleared>>
      PROVE  QueueInv'
  BY <1>1 DEF IInv, TypeOK, QueueInv
<1>2. ASSUME NEW n \in Nodes, ResetClient(n)
      PROVE  QueueInv'
  BY <1>2 DEF IInv, TypeOK, QueueInv, ResetClient, MarkDirty, ZeroAndQueue,
          QuotaDisabled, DeleteBaselines, Excess
<1>3. ASSUME NEW all \in BOOLEAN, BulkReset(all)
      PROVE  QueueInv'
  BY <1>3 DEF IInv, TypeOK, QueueInv, BulkReset, ZeroAndQueue, QuotaDisabled,
          DeleteBaselines, Excess
<1>4. ASSUME NEW n \in Nodes, RequestDelivers(n)
      PROVE  QueueInv'
  BY <1>4 DEF IInv, TypeOK, QueueInv, RequestDelivers
<1>5. ASSUME NEW n \in Nodes, TickDelivers(n)
      PROVE  QueueInv'
  BY <1>5 DEF IInv, TypeOK, QueueInv, TickDelivers
<1>6. ASSUME NEW n \in Nodes, DeliverCall(n)
      PROVE  QueueInv'
  BY <1>6 DEF IInv, TypeOK, QueueInv, DeliverCall, NodeZero
<1>7. ASSUME NEW n \in Nodes, DeliverFails(n)
      PROVE  QueueInv'
  BY <1>7 DEF IInv, TypeOK, QueueInv, DeliverFails, Fault, NodeZero, DeliverReturns
<1>8. ASSUME NEW n \in Nodes, DeliverDelete(n)
      PROVE  QueueInv'
  BY <1>8 DEF IInv, TypeOK, QueueInv, DeliverDelete, Confirmed
<1>9. ASSUME Restart
      PROVE  QueueInv'
  BY <1>9 DEF IInv, TypeOK, QueueInv, Restart, Fault
<1>10. CASE \/ (\E n \in Nodes : Relay(n)) \/ (\E n \in Nodes : NodeDisable(n))
            \/ (\E n \in Nodes : NodeReset(n))
            \/ (\E reached \in SUBSET Nodes : Reenable(reached))
            \/ (\E reached \in SUBSET Nodes : MasterDisable(reached))
            \/ (\E n \in Nodes : TickStart(n)) \/ (\E n \in Nodes : Reconcile(n))
            \/ (\E n \in Nodes : Fetch(n)) \/ (\E n \in Nodes : Merge(n))
            \/ (\E n \in Nodes : MergeFails(n)) \/ (\E n \in Nodes : GlobalsRead(n))
            \/ (\E n \in Nodes : GlobalsSkip(n))
            \/ (\E n \in Nodes : GlobalsLand(n))
  BY <1>10, <1>1 DEF Relay, NodeDisable, NodeReset, Reenable, MasterDisable,
          TickStart, Reconcile, Fetch, Merge, MergeFails, GlobalsRead, GlobalsSkip,
          GlobalsLand
<1> QED
  BY <1>1, <1>2, <1>3, <1>4, <1>5, <1>6, <1>7, <1>8, <1>9, <1>10
  DEF Next, Node, Delivery, Tick

\* Counters and usage grow together; a reset and a zeroing mark the snapshots held.
LEMMA ReadingStep ==
    ASSUME IInv, Next
    PROVE  ReadingInv'
<1> USE NodeTrafficAssumption
<1>1. ASSUME UNCHANGED <<counter, since, cleared, tick, straddled, snap>>
      PROVE  ReadingInv'
  BY <1>1 DEF IInv, TypeOK, ReadingInv, Reading
<1>2. ASSUME NEW n \in Nodes, Relay(n)
      PROVE  ReadingInv'
  BY <1>2 DEF IInv, TypeOK, ReadingInv, Reading, Relay
<1>3. ASSUME NEW n \in Nodes, NodeReset(n)
      PROVE  ReadingInv'
  BY <1>3 DEF IInv, TypeOK, ReadingInv, Reading, NodeReset, Fault, NodeZero
<1>4. ASSUME NEW n \in Nodes, ResetClient(n)
      PROVE  ReadingInv'
  BY <1>4 DEF IInv, TypeOK, ReadingInv, Reading, ResetClient, MarkDirty,
          ZeroAndQueue, QuotaDisabled, DeleteBaselines, Excess
<1>5. ASSUME NEW all \in BOOLEAN, BulkReset(all)
      PROVE  ReadingInv'
  BY <1>5 DEF IInv, TypeOK, ReadingInv, Reading, BulkReset, ZeroAndQueue,
          QuotaDisabled, DeleteBaselines, Excess
<1>6. ASSUME NEW n \in Nodes, TickDelivers(n)
      PROVE  ReadingInv'
  BY <1>6 DEF IInv, TypeOK, ReadingInv, Reading, TickDelivers
<1>7. ASSUME NEW n \in Nodes, DeliverCall(n)
      PROVE  ReadingInv'
  <2>1. ASSUME NEW m \in Nodes, m # n
        PROVE  Reading(m)'
    BY <1>7, <2>1 DEF IInv, TypeOK, ReadingInv, Reading, DeliverCall, NodeZero
  <2>2. Reading(n)'
    <3>1. counter'[n] = 0 /\ since'[n] \in Nat
      BY <1>7 DEF IInv, TypeOK, DeliverCall, NodeZero
    <3>2. tick'[n] = "merge" => straddled'[n]
      BY <1>7 DEF IInv, TypeOK, DeliverCall, NodeZero
    <3> QED
      BY <3>1, <3>2 DEF Reading
  <2> QED
    BY <2>1, <2>2 DEF ReadingInv
<1>8. ASSUME NEW n \in Nodes, DeliverFails(n)
      PROVE  ReadingInv'
  <2>1. ASSUME NEW m \in Nodes, m # n
        PROVE  Reading(m)'
    BY <1>8, <2>1 DEF IInv, TypeOK, ReadingInv, Reading, DeliverFails, Fault,
             NodeZero, DeliverReturns
  <2>2. Reading(n)'
    <3>1. CASE UNCHANGED <<counter, cleared, straddled>>
      BY <1>8, <3>1 DEF IInv, TypeOK, ReadingInv, Reading, DeliverFails, Fault,
               NodeZero, DeliverReturns
    <3>2. CASE NodeZero(n) /\ cleared' = [cleared EXCEPT ![n] = TRUE]
      <4>1. counter'[n] = 0 /\ since'[n] \in Nat
        BY <1>8, <3>2 DEF IInv, TypeOK, DeliverFails, Fault, NodeZero,
                 DeliverReturns
      <4>2. tick'[n] = "merge" => straddled'[n]
        BY <1>8, <3>2 DEF IInv, TypeOK, DeliverFails, Fault, NodeZero,
                 DeliverReturns
      <4> QED
        BY <4>1, <4>2 DEF Reading
    <3> QED
      BY <1>8, <3>1, <3>2 DEF DeliverFails, nodeVars
  <2> QED
    BY <2>1, <2>2 DEF ReadingInv
<1>9. ASSUME NEW n \in Nodes, DeliverDelete(n)
      PROVE  ReadingInv'
  BY <1>9 DEF IInv, TypeOK, ReadingInv, Reading, DeliverDelete, Confirmed
<1>10. ASSUME NEW n \in Nodes, TickStart(n)
      PROVE  ReadingInv'
  BY <1>10 DEF IInv, TypeOK, ReadingInv, Reading, TickStart
<1>11. ASSUME NEW n \in Nodes, Reconcile(n)
      PROVE  ReadingInv'
  BY <1>11 DEF IInv, TypeOK, ReadingInv, Reading, Reconcile, Fault, NoFault
<1>12. ASSUME NEW n \in Nodes, Fetch(n)
      PROVE  ReadingInv'
  BY <1>12 DEF IInv, TypeOK, ReadingInv, Reading, Fetch, Fault, NoFault,
          ForgetReading
<1>13. ASSUME NEW n \in Nodes, Merge(n)
      PROVE  ReadingInv'
  BY <1>13 DEF IInv, TypeOK, ReadingInv, Reading, Merge, MarkDirty, ForgetReading,
          Delta, Unsettled, MergedOn, MergedBase, Lifted, Excess, Frozen,
          DisableStands
<1>14. ASSUME NEW n \in Nodes, MergeFails(n)
      PROVE  ReadingInv'
  BY <1>14 DEF IInv, TypeOK, ReadingInv, Reading, MergeFails, Fault, ForgetReading
<1>15. ASSUME NEW n \in Nodes, GlobalsRead(n)
      PROVE  ReadingInv'
  BY <1>15 DEF IInv, TypeOK, ReadingInv, Reading, GlobalsRead
<1>16. ASSUME NEW n \in Nodes, GlobalsSkip(n)
      PROVE  ReadingInv'
  BY <1>16 DEF IInv, TypeOK, ReadingInv, Reading, GlobalsSkip
<1>17. ASSUME NEW n \in Nodes, GlobalsLand(n)
      PROVE  ReadingInv'
  BY <1>17 DEF IInv, TypeOK, ReadingInv, Reading, GlobalsLand, Fault, NoFault
<1>18. ASSUME Restart
      PROVE  ReadingInv'
  BY <1>18 DEF IInv, TypeOK, ReadingInv, Reading, Restart, Fault
<1>19. CASE \/ (\E n \in Nodes : NodeDisable(n))
            \/ (\E reached \in SUBSET Nodes : Reenable(reached))
            \/ (\E reached \in SUBSET Nodes : MasterDisable(reached))
            \/ (\E n \in Nodes : RequestDelivers(n))
  BY <1>19, <1>1 DEF NodeDisable, Reenable, MasterDisable, RequestDelivers
<1> QED
  BY <1>1, <1>2, <1>3, <1>4, <1>5, <1>6, <1>7, <1>8, <1>9, <1>10, <1>11, <1>12,
     <1>13, <1>14, <1>15, <1>16, <1>17, <1>18, <1>19
  DEF Next, Node, Delivery, Tick

LEMMA InitInv == Init => IInv
<1> SUFFICES ASSUME Init
             PROVE  IInv
  OBVIOUS
<1> USE NodeTrafficAssumption
<1>1. counter \in [Nodes -> Nat] /\ used = counter /\ since = counter
  BY DEF Init
<1>2. TypeOK
  BY <1>1 DEF Init, TypeOK
<1>3. CountInv /\ WindowInv
  BY <1>1 DEF Init, CountInv, WindowInv, Bounded
<1>4. ASSUME NEW n \in Nodes
      PROVE  /\ cleared[n] /\ tick[n] = "idle"
             /\ courier[n] = "nobody" /\ owed[n] = 0 /\ carried[n] = 0 /\ stamp = 0
  <2>1. cleared[n]
    BY Zenon DEF Init
  <2>2. tick[n] = "idle" /\ courier[n] = "nobody" /\ owed[n] = 0 /\ carried[n] = 0
    BY DEF Init
  <2> QED
    BY <2>1, <2>2 DEF Init
<1>5. QueueInv /\ ReadingInv
  BY <1>1, <1>4 DEF QueueInv, ReadingInv, Reading
<1> QED
  BY <1>2, <1>3, <1>4, <1>5 DEF IInv

LEMMA Stutter ==
    ASSUME IInv, UNCHANGED vars
    PROVE  IInv'
BY DEF vars, IInv, TypeOK, CountInv, WindowInv, QueueInv, ReadingInv, Reading, Bounded, Excess

LEMMA NextInv == IInv /\ [Next]_vars => IInv'
<1> SUFFICES ASSUME IInv, [Next]_vars
             PROVE  IInv'
  OBVIOUS
<1>1. CASE Next
  BY <1>1, TypeStep, CountStep, WindowStep, QueueStep, ReadingStep DEF IInv
<1>2. CASE UNCHANGED vars
  BY <1>2, Stutter
<1> QED
  BY <1>1, <1>2

LEMMA Invariance == Spec => []IInv
  BY InitInv, NextInv, PTL DEF Spec

-----------------------------------------------------------------------------
\* Every variable of the node accounting keeps its type, and the delivery lock of a node
\* is held by its tick only while syncOne is in DeliverNodeResets.
THEOREM TypeCorrect == Spec => []TypeOK
<1>1. IInv => TypeOK
  BY DEF IInv
<1> QED
  BY <1>1, Invariance, PTL

\* SetRemoteTraffic never credits a unit of usage twice, whatever the order of snapshots,
\* resets, zeroings on the node and restarts of the master.
THEOREM NothingCountedTwice == Spec => []CountedOnce
<1>1. IInv => CountedOnce
  BY DEF IInv, CountInv, CountedOnce, Bounded
<1> QED
  BY <1>1, Invariance, PTL

\* After ResetClientTraffic, BulkResetTraffic or the resets of all clients the row counts
\* what is used afterwards; a snapshot held across the reset may add what was used
\* between the two.
THEOREM ResetStartsClean == Spec => []WindowIsClean
<1>1. IInv => WindowIsClean
  BY DEF IInv, WindowInv, WindowIsClean, Bounded
<1> QED
  BY <1>1, Invariance, PTL

\* DeliverNodeResets deletes the row of a reset only when the node has zeroed the client
\* after the reset was last queued.
THEOREM QueuedAgainIsDelivered == Spec => []FreshResetSurvives
<1>1. IInv => FreshResetSurvives
  BY DEF IInv, QueueInv, FreshResetSurvives
<1> QED
  BY <1>1, Invariance, PTL

\* No step switches the client's row off for the usage of an earlier window, unless
\* the tick holds a snapshot older than the last reset or zeroing of its node.
THEOREM SwitchedOffForThisWindow == Spec => LatchIsAboutThisWindow
<1> DEFINE Latch == rowOn /\ ~ rowOn' =>
             row' >= Total \/ \E n \in Nodes : since[n] >= Total \/ straddled[n]
<1> USE NodeTrafficAssumption
<1>1. ASSUME IInv, Next
      PROVE  Latch
  <2>1. ASSUME UNCHANGED rowOn
        PROVE  Latch
    BY <2>1
  <2>2. ASSUME NEW n \in Nodes, ResetClient(n)
        PROVE  Latch
    BY <1>1, <2>2 DEF IInv, TypeOK, ResetClient
  <2>3. ASSUME NEW all \in BOOLEAN, BulkReset(all)
        PROVE  Latch
    BY <1>1, <2>3 DEF IInv, TypeOK, BulkReset
  <2>4. ASSUME NEW reached \in SUBSET Nodes, Reenable(reached)
        PROVE  Latch
    BY <2>4 DEF Reenable
  <2>5. ASSUME NEW reached \in SUBSET Nodes, MasterDisable(reached)
        PROVE  Latch
    BY <2>5 DEF MasterDisable
  <2>6. ASSUME NEW n \in Nodes, Merge(n)
        PROVE  Latch
    <3>1. SUFFICES ASSUME rowOn, ~ rowOn', ~ straddled[n]
                   PROVE  row' >= Total \/ since[n] >= Total
      OBVIOUS
    <3>2. ~ Frozen(n) /\ DisableStands(n)
      BY <2>6, <3>1 DEF Merge, MergedOn
    <3>3. owed[n] = 0 /\ cleared[n]
      BY <1>1, <3>2 DEF IInv, QueueInv, Frozen
    <3>4. snap[n] <= since[n]
      BY <1>1, <2>6, <3>1, <3>3 DEF IInv, ReadingInv, Reading, Merge
    <3>5. CASE snap[n] >= Total
      BY <1>1, <3>4, <3>5 DEF IInv, TypeOK
    <3>6. CASE row + Delta(n) >= Total
      BY <2>6, <3>6 DEF Merge
    <3> QED
      BY <3>2, <3>5, <3>6 DEF DisableStands
  <2>7. ASSUME NEW n \in Nodes, Node(n) \/ Delivery(n)
        PROVE  UNCHANGED rowOn
    BY <2>7 DEF Node, Delivery, Relay, NodeDisable, NodeReset, RequestDelivers,
       TickDelivers, DeliverCall, DeliverFails, DeliverDelete
  <2>8. ASSUME NEW n \in Nodes, Tick(n), ~ Merge(n)
        PROVE  UNCHANGED rowOn
    BY <2>8 DEF Tick, TickStart, Reconcile, Fetch, MergeFails, GlobalsRead,
       GlobalsSkip, GlobalsLand
  <2>9. CASE Restart
    BY <2>1, <2>9 DEF Restart
  <2> QED
    BY <1>1, <2>1, <2>2, <2>3, <2>4, <2>5, <2>6, <2>7, <2>8, <2>9 DEF Next
<1>2. IInv /\ [Next]_vars => [Latch]_vars
  BY <1>1
<1> QED
  BY <1>2, Invariance, PTL DEF Spec, LatchIsAboutThisWindow
=============================================================================
