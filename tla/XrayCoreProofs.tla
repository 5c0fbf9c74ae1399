--------------------------- MODULE XrayCoreProofs ---------------------------
(***************************************************************************)
(* What every step of the core keeps, for the theorems of PanelProofs.     *)
(***************************************************************************)
EXTENDS XrayCore, TLAPS

\* A core is only started when the last one is gone.
StartInv == stray = FALSE /\ (step = "start" => child = "none")

Down == child # "live" \/ intentional

\* Once the stop of the operator has the lock, whoever gets it next returns at once, and who
\* has it is that stop.
StopInv ==
    /\ asked = "stop" => manual
    /\ manual =>
        /\ lock = None => Down
        /\ lock # None => task = "stop" /\ step \in {"stop", "wait"}
        /\ step = "wait" => Down

CoreInv == CoreTypeOK /\ StartInv /\ StopInv /\ DivergenceIsKnown

CoreStep == CoreNext \/ Tick \/ Operator

-----------------------------------------------------------------------------

\* A request leaves the core, the lock and whoever waits for it alone; what it changes keeps its
\* type.
LEMMA RequestEffects ==
    ASSUME CoreTypeOK, NEW r \in Editors, Request(r) \/ \E v \in BOOLEAN : SetInboundEnable(r, v)
    PROVE  /\ CoreQuiet
           /\ db' \in BOOLEAN /\ serves' \in BOOLEAN /\ missed' \in BOOLEAN
           /\ flags' \subseteq {"restart", "reconcile"}
           /\ RequestTypeOK'
<1> USE DEF CoreTypeOK, RequestTypeOK, ProcessTypeOK
<1>1. ASSUME NEW v \in BOOLEAN, SetInboundEnable(r, v)
      PROVE  /\ CoreQuiet /\ RequestTypeOK'
             /\ UNCHANGED <<db, serves, missed, flags>>
  <2>1. /\ CoreQuiet /\ UNCHANGED <<db, serves, missed, flags, crossed, needRestart>>
        /\ edit' = [edit EXCEPT ![r] = "commit"] /\ val' = [val EXCEPT ![r] = v]
    BY <1>1 DEF SetInboundEnable
  <2> QED
    BY <2>1 DEF CoreQuiet
<1>2. ASSUME CommitSwitch(r)
      PROVE  /\ CoreQuiet /\ RequestTypeOK'
             /\ db' \in BOOLEAN /\ missed' \in BOOLEAN /\ UNCHANGED <<serves, flags>>
  <2>1. /\ CoreQuiet /\ UNCHANGED <<serves, flags, val, needRestart>>
        /\ edit' = [edit EXCEPT ![r] = "del"] /\ db' = val[r]
        /\ missed' = FALSE /\ crossed' = FALSE
    BY <1>2 DEF CommitSwitch
  <2>2. db' \in BOOLEAN
    BY <2>1, Zenon
  <2> QED
    BY <2>1, <2>2 DEF CoreQuiet
<1>3. ASSUME NEW failed \in BOOLEAN, Pushed(r, failed), UNCHANGED <<db, tuic>>
      PROVE  RequestTypeOK' /\ missed' \in BOOLEAN
  <2>1. edit' \in [Editors -> {"idle", "commit", "del", "add", "flag"}]
    BY <1>3 DEF Pushed
  <2>2. val' \in [Editors -> BOOLEAN] /\ needRestart' \subseteq Editors
    BY <1>3 DEF Pushed
  <2>3. missed' \in BOOLEAN /\ crossed' \in BOOLEAN
    BY <1>3 DEF Pushed
  <2>4. \A d \in Editors : edit'[d] = "add" => val'[d]
    BY <1>3 DEF Pushed
  <2> QED
    BY <1>3, <2>1, <2>2, <2>3, <2>4
<1>4. ASSUME DelInbound(r)
      PROVE  /\ CoreQuiet /\ RequestTypeOK' /\ UNCHANGED db
             /\ serves' \in BOOLEAN /\ missed' \in BOOLEAN
             /\ flags' \subseteq {"restart", "reconcile"}
  <2>1. CoreQuiet /\ UNCHANGED <<db, tuic>>
    BY <1>4 DEF DelInbound, CoreQuiet
  <2>2. PICK failed \in BOOLEAN :
          /\ Removes(failed)
          /\ IF ~ val[r] THEN Pushed(r, failed)
             ELSE /\ edit' = [edit EXCEPT ![r] = "add"]
                  /\ needRestart' = IF failed THEN needRestart \union {r} ELSE needRestart
                  /\ UNCHANGED <<val, missed, crossed>>
    BY <1>4 DEF DelInbound
  <2>3. serves' \in BOOLEAN /\ flags' \subseteq {"restart", "reconcile"}
    BY <2>2 DEF Removes
  <2>4. CASE ~ val[r]
    BY <1>3, <2>1, <2>2, <2>3, <2>4
  <2>5. CASE val[r]
    BY <2>1, <2>2, <2>3, <2>5
  <2> QED
    BY <2>4, <2>5
<1>5. ASSUME AddInbound(r)
      PROVE  /\ CoreQuiet /\ RequestTypeOK' /\ UNCHANGED db
             /\ serves' \in BOOLEAN /\ missed' \in BOOLEAN
             /\ flags' \subseteq {"restart", "reconcile"}
  <2>1. CoreQuiet /\ UNCHANGED <<db, tuic>>
    BY <1>5 DEF AddInbound, CoreQuiet
  <2>2. PICK failed \in BOOLEAN : Adds(failed) /\ Pushed(r, failed \/ r \in needRestart)
    BY <1>5 DEF AddInbound
  <2>3. serves' \in BOOLEAN /\ flags' \subseteq {"restart", "reconcile"}
    BY <2>2 DEF Adds
  <2>4. (failed \/ r \in needRestart) \in BOOLEAN
    OBVIOUS
  <2>5. RequestTypeOK' /\ missed' \in BOOLEAN
    BY <1>3, <2>1, <2>2, <2>4
  <2> QED
    BY <2>1, <2>3, <2>5
<1>6. ASSUME SetToNeedRestart(r)
      PROVE  /\ CoreQuiet /\ RequestTypeOK' /\ UNCHANGED <<db, serves>> /\ missed' = FALSE
             /\ flags' \subseteq {"restart", "reconcile"}
  <2>1. /\ CoreQuiet /\ UNCHANGED <<db, serves, val, needRestart>>
        /\ edit' = [edit EXCEPT ![r] = "idle"] /\ flags' = flags \union {"restart"}
        /\ missed' = FALSE /\ crossed' = FALSE
    BY <1>6 DEF SetToNeedRestart
  <2> QED
    BY <2>1 DEF CoreQuiet
<1> QED
  BY <1>1, <1>2, <1>4, <1>5, <1>6 DEF Request

\* The flags, whoever returns.
LEMMA ReturnFlags ==
    ASSUME ProcessTypeOK, NEW c, NEW ok, NEW fs \in SUBSET {"restart", "reconcile"}, Return(c, ok, fs)
    PROVE  flags' \subseteq {"restart", "reconcile"}
BY DEF ProcessTypeOK, Return, Rearmed

\* And none is lost by a call that fails.
LEMMA FailureKeepsFlags ==
    ASSUME NEW c, NEW fs, flags \subseteq fs, Return(c, FALSE, fs)
    PROVE  flags \union took \subseteq flags' \union took'
BY DEF Return, Rearmed

\* Flags, callers and the lock keep their types, and the lock its holder.
LEMMA ProcessTypeStep ==
    ASSUME CoreTypeOK, CoreStep
    PROVE  ProcessTypeOK'
<1> USE CoreAssumption
<1>0. ProcessTypeOK
  BY DEF CoreTypeOK
<1>1. ASSUME ChildEnds
      PROVE  ProcessTypeOK'
  BY <1>0, <1>1 DEF Callers, ProcessTypeOK, ChildEnds
<1>2. ASSUME ChildWaited
      PROVE  ProcessTypeOK'
  BY <1>0, <1>2 DEF Callers, ProcessTypeOK, ChildWaited
<1>3. ASSUME OnCrash
      PROVE  ProcessTypeOK'
  BY <1>0, <1>3 DEF Callers, ProcessTypeOK, OnCrash
<1>4. ASSUME NEW r \in Editors, Request(r) \/ \E v \in BOOLEAN : SetInboundEnable(r, v)
      PROVE  ProcessTypeOK'
  <2>1. /\ CoreQuiet
        /\ db' \in BOOLEAN /\ serves' \in BOOLEAN /\ missed' \in BOOLEAN
        /\ flags' \subseteq {"restart", "reconcile"}
    BY <1>4, RequestEffects
  <2> QED
    BY <1>0, <2>1 DEF ProcessTypeOK, CoreQuiet
<1>6. ASSUME NEW c \in Operators, NEW what \in {"stop", "force"}, Command(c, what)
      PROVE  ProcessTypeOK'
  BY <1>0, <1>6 DEF Callers, ProcessTypeOK, Command
<1>7. ASSUME Watchdog
      PROVE  ProcessTypeOK'
  BY <1>0, <1>7 DEF Callers, ProcessTypeOK, Watchdog, DidXrayCrash, IsRunning
<1>8. ASSUME BackoffEnds
      PROVE  ProcessTypeOK'
  <2>1. /\ db' \in BOOLEAN
        /\ serves' \in BOOLEAN
        /\ recorded' \in BOOLEAN
        /\ intentional' \in BOOLEAN
        /\ manual' \in BOOLEAN
        /\ cfg' \in BOOLEAN
        /\ missed' \in BOOLEAN
        /\ stray' \in BOOLEAN
        /\ child' \in {"none", "live", "crashed", "ended"}
        /\ flags' \subseteq {"restart", "reconcile"}
        /\ took' \subseteq {"restart", "reconcile"}
        /\ checkTime' \in 0..2
        /\ task' \in {"none", "restart", "force", "stop"} /\ asked' \in {"run", "stop"}
        /\ lock' \in Callers \union {None}
        /\ at' \in [Callers -> {"idle", "restart", "force", "stop", "in"}]
        /\ step' \in {"none", "read", "compare", "hot", "stop", "wait", "start"}
        /\ \A d \in Callers : at'[d] = "in" <=> lock' = d
        /\ lock' = None <=> step' = "none"
    BY <1>0, <1>8 DEF ProcessTypeOK, BackoffEnds
  <2>2. backoff' \in BOOLEAN
    BY <1>0, <1>8 DEF ProcessTypeOK, Callers, BackoffEnds
  <2> QED
    BY <2>1, <2>2 DEF ProcessTypeOK
<1>9. ASSUME ApplyPendingRestart
      PROVE  ProcessTypeOK'
  BY <1>0, <1>9 DEF Callers, ProcessTypeOK, ApplyPendingRestart
<1>10. ASSUME NEW c \in Callers, Acquire(c)
      PROVE  ProcessTypeOK'
  <2>1. /\ db' \in BOOLEAN
        /\ serves' \in BOOLEAN
        /\ recorded' \in BOOLEAN
        /\ intentional' \in BOOLEAN
        /\ missed' \in BOOLEAN
        /\ stray' \in BOOLEAN
        /\ child' \in {"none", "live", "crashed", "ended"}
    BY <1>0, <1>10 DEF ProcessTypeOK, Acquire
  <2>2. manual' \in BOOLEAN
    BY <1>0, <1>10 DEF ProcessTypeOK, Callers, Acquire, IsRunning, Return,
            StaysStopped, LockFree, Restarted, Rearmed
  <2>3. backoff' \in BOOLEAN
    BY <1>0, <1>10 DEF ProcessTypeOK, Callers, Acquire, IsRunning, Return,
            StaysStopped, LockFree, Restarted, Rearmed
  <2>4. cfg' \in BOOLEAN
    BY <1>0, <1>10 DEF ProcessTypeOK, Callers, Acquire, IsRunning, Return,
            StaysStopped, LockFree, Restarted, Rearmed
  <2>5. flags' \subseteq {"restart", "reconcile"}
    <3>1. flags' = flags \/ \E ok \in BOOLEAN : Return(c, ok, flags)
      BY <1>10 DEF Acquire
    <3>2. flags \subseteq {"restart", "reconcile"}
      BY <1>0 DEF ProcessTypeOK
    <3> QED
      BY <1>0, <3>1, <3>2, ReturnFlags
  <2>6. took' \subseteq {"restart", "reconcile"}
    BY <1>0, <1>10 DEF ProcessTypeOK, Callers, Acquire, IsRunning, Return,
            StaysStopped, LockFree, Restarted, Rearmed
  <2>7. checkTime' \in 0..2
    BY <1>0, <1>10 DEF ProcessTypeOK, Callers, Acquire, IsRunning, Return,
            StaysStopped, LockFree, Restarted, Rearmed
  <2>8. task' \in {"none", "restart", "force", "stop"} /\ asked' \in {"run", "stop"}
    BY <1>0, <1>10 DEF ProcessTypeOK, Callers, Acquire, IsRunning, Return,
            StaysStopped, LockFree, Restarted, Rearmed
  <2>9. lock' \in Callers \union {None}
    BY <1>0, <1>10 DEF ProcessTypeOK, Callers, Acquire, IsRunning, Return,
            StaysStopped, LockFree, Restarted, Rearmed
  <2>10. at' \in [Callers -> {"idle", "restart", "force", "stop", "in"}]
    BY <1>0, <1>10 DEF ProcessTypeOK, Callers, Acquire, IsRunning, Return,
            StaysStopped, LockFree, Restarted, Rearmed
  <2>11. step' \in {"none", "read", "compare", "hot", "stop", "wait", "start"}
    BY <1>0, <1>10 DEF ProcessTypeOK, Callers, Acquire, IsRunning, Return,
            StaysStopped, LockFree, Restarted, Rearmed
  <2>12. \A d \in Callers : at'[d] = "in" <=> lock' = d
    BY <1>0, <1>10 DEF ProcessTypeOK, Callers, Acquire, IsRunning, Return,
            StaysStopped, LockFree, Restarted, Rearmed
  <2>13. lock' = None <=> step' = "none"
    BY <1>0, <1>10 DEF ProcessTypeOK, Callers, Acquire, IsRunning, Return,
            StaysStopped, LockFree, Restarted, Rearmed
  <2> QED
    BY <2>1, <2>2, <2>3, <2>4, <2>5, <2>6, <2>7, <2>8, <2>9, <2>10, <2>11, <2>12,
       <2>13 DEF ProcessTypeOK
<1>11. ASSUME NEW c \in Callers, ReadConfig(c)
      PROVE  ProcessTypeOK'
  <2>1. /\ db' \in BOOLEAN
        /\ serves' \in BOOLEAN
        /\ recorded' \in BOOLEAN
        /\ intentional' \in BOOLEAN
        /\ manual' \in BOOLEAN
        /\ missed' \in BOOLEAN
        /\ stray' \in BOOLEAN
        /\ child' \in {"none", "live", "crashed", "ended"}
    BY <1>0, <1>11 DEF ProcessTypeOK, ReadConfig
  <2>2. backoff' \in BOOLEAN
    BY <1>0, <1>11 DEF ProcessTypeOK, Callers, ReadConfig, Return, Rearmed
  <2>3. cfg' \in BOOLEAN
    BY <1>0, <1>11 DEF ProcessTypeOK, Callers, ReadConfig, Return, Rearmed
  <2>4. flags' \subseteq {"restart", "reconcile"}
    <3>1. \/ flags' = flags
          \/ \E ok \in BOOLEAN, fs \in {flags, flags \union {"reconcile"}} : Return(c, ok, fs)
      BY <1>11 DEF ReadConfig
    <3>2. flags \subseteq {"restart", "reconcile"}
      BY <1>0 DEF ProcessTypeOK
    <3> QED
      BY <1>0, <3>1, <3>2, ReturnFlags
  <2>5. took' \subseteq {"restart", "reconcile"}
    BY <1>0, <1>11 DEF ProcessTypeOK, Callers, ReadConfig, Return, Rearmed
  <2>6. checkTime' \in 0..2
    BY <1>0, <1>11 DEF ProcessTypeOK, Callers, ReadConfig, Return, Rearmed
  <2>7. task' \in {"none", "restart", "force", "stop"} /\ asked' \in {"run", "stop"}
    BY <1>0, <1>11 DEF ProcessTypeOK, Callers, ReadConfig, Return, Rearmed
  <2>8. lock' \in Callers \union {None}
    BY <1>0, <1>11 DEF ProcessTypeOK, Callers, ReadConfig, Return, Rearmed
  <2>9. at' \in [Callers -> {"idle", "restart", "force", "stop", "in"}]
    BY <1>0, <1>11 DEF ProcessTypeOK, Callers, ReadConfig, Return, Rearmed
  <2>10. step' \in {"none", "read", "compare", "hot", "stop", "wait", "start"}
    BY <1>0, <1>11 DEF ProcessTypeOK, Callers, ReadConfig, Return, Rearmed
  <2>11. \A d \in Callers : at'[d] = "in" <=> lock' = d
    BY <1>0, <1>11 DEF ProcessTypeOK, Callers, ReadConfig, Return, Rearmed
  <2>12. lock' = None <=> step' = "none"
    BY <1>0, <1>11 DEF ProcessTypeOK, Callers, ReadConfig, Return, Rearmed
  <2> QED
    BY <2>1, <2>2, <2>3, <2>4, <2>5, <2>6, <2>7, <2>8, <2>9, <2>10, <2>11, <2>12 DEF ProcessTypeOK
<1>12. ASSUME NEW c \in Callers, Compare(c)
      PROVE  ProcessTypeOK'
  <2>1. /\ db' \in BOOLEAN
        /\ serves' \in BOOLEAN
        /\ recorded' \in BOOLEAN
        /\ intentional' \in BOOLEAN
        /\ manual' \in BOOLEAN
        /\ stray' \in BOOLEAN
        /\ child' \in {"none", "live", "crashed", "ended"}
    BY <1>0, <1>12 DEF ProcessTypeOK, Compare
  <2>2. backoff' \in BOOLEAN
    BY <1>0, <1>12 DEF ProcessTypeOK, Callers, Compare, IsRunning, Return, GoOn,
            Unchanged, Rearmed
  <2>3. cfg' \in BOOLEAN
    BY <1>0, <1>12 DEF ProcessTypeOK, Callers, Compare, IsRunning, Return, GoOn,
            Unchanged, Rearmed
  <2>4. missed' \in BOOLEAN
    BY <1>0, <1>12 DEF ProcessTypeOK, Callers, Compare, IsRunning, Return, GoOn,
            Unchanged, Rearmed
  <2>5. flags' \subseteq {"restart", "reconcile"}
    <3>1. \/ flags' = flags
          \/ \E ok \in BOOLEAN, fs \in {flags, flags \union {"reconcile"}} : Return(c, ok, fs)
      BY <1>12 DEF Compare, GoOn
    <3>2. flags \subseteq {"restart", "reconcile"}
      BY <1>0 DEF ProcessTypeOK
    <3> QED
      BY <1>0, <3>1, <3>2, ReturnFlags
  <2>6. took' \subseteq {"restart", "reconcile"}
    BY <1>0, <1>12 DEF ProcessTypeOK, Callers, Compare, IsRunning, Return, GoOn,
            Unchanged, Rearmed
  <2>7. checkTime' \in 0..2
    BY <1>0, <1>12 DEF ProcessTypeOK, Callers, Compare, IsRunning, Return, GoOn,
            Unchanged, Rearmed
  <2>8. task' \in {"none", "restart", "force", "stop"} /\ asked' \in {"run", "stop"}
    BY <1>0, <1>12 DEF ProcessTypeOK, Callers, Compare, IsRunning, Return, GoOn,
            Unchanged, Rearmed
  <2>9. lock' \in Callers \union {None}
    BY <1>0, <1>12 DEF ProcessTypeOK, Callers, Compare, IsRunning, Return, GoOn,
            Unchanged, Rearmed
  <2>10. at' \in [Callers -> {"idle", "restart", "force", "stop", "in"}]
    BY <1>0, <1>12 DEF ProcessTypeOK, Callers, Compare, IsRunning, Return, GoOn,
            Unchanged, Rearmed
  <2>11. step' \in {"none", "read", "compare", "hot", "stop", "wait", "start"}
    BY <1>0, <1>12 DEF ProcessTypeOK, Callers, Compare, IsRunning, Return, GoOn,
            Unchanged, Rearmed
  <2>12. \A d \in Callers : at'[d] = "in" <=> lock' = d
    BY <1>0, <1>12 DEF ProcessTypeOK, Callers, Compare, IsRunning, Return, GoOn,
            Unchanged, Rearmed
  <2>13. lock' = None <=> step' = "none"
    BY <1>0, <1>12 DEF ProcessTypeOK, Callers, Compare, IsRunning, Return, GoOn,
            Unchanged, Rearmed
  <2> QED
    BY <2>1, <2>2, <2>3, <2>4, <2>5, <2>6, <2>7, <2>8, <2>9, <2>10, <2>11, <2>12,
       <2>13 DEF ProcessTypeOK
<1>13. ASSUME NEW c \in Callers, HotApply(c)
      PROVE  ProcessTypeOK'
  <2>1. /\ db' \in BOOLEAN
        /\ intentional' \in BOOLEAN
        /\ manual' \in BOOLEAN
        /\ stray' \in BOOLEAN
        /\ child' \in {"none", "live", "crashed", "ended"}
    BY <1>0, <1>13 DEF ProcessTypeOK, HotApply
  <2>2. serves' \in BOOLEAN
    BY <1>0, <1>13 DEF ProcessTypeOK, Callers, HotApply, Return, GoOn, Rearmed
  <2>3. recorded' \in BOOLEAN
    BY <1>0, <1>13 DEF ProcessTypeOK, Callers, HotApply, Return, GoOn, Rearmed
  <2>4. backoff' \in BOOLEAN
    BY <1>0, <1>13 DEF ProcessTypeOK, Callers, HotApply, Return, GoOn, Rearmed
  <2>5. cfg' \in BOOLEAN
    BY <1>0, <1>13 DEF ProcessTypeOK, Callers, HotApply, Return, GoOn, Rearmed
  <2>6. missed' \in BOOLEAN
    BY <1>0, <1>13 DEF ProcessTypeOK, Callers, HotApply, Return, GoOn, Rearmed
  <2>7. flags' \subseteq {"restart", "reconcile"}
    <3>1. \/ flags' = flags
          \/ \E ok \in BOOLEAN, fs \in {flags, flags \union {"reconcile"}} : Return(c, ok, fs)
      BY <1>13 DEF HotApply, GoOn
    <3>2. flags \subseteq {"restart", "reconcile"}
      BY <1>0 DEF ProcessTypeOK
    <3> QED
      BY <1>0, <3>1, <3>2, ReturnFlags
  <2>8. took' \subseteq {"restart", "reconcile"}
    BY <1>0, <1>13 DEF ProcessTypeOK, Callers, HotApply, Return, GoOn, Rearmed
  <2>9. checkTime' \in 0..2
    BY <1>0, <1>13 DEF ProcessTypeOK, Callers, HotApply, Return, GoOn, Rearmed
  <2>10. task' \in {"none", "restart", "force", "stop"} /\ asked' \in {"run", "stop"}
    BY <1>0, <1>13 DEF ProcessTypeOK, Callers, HotApply, Return, GoOn, Rearmed
  <2>11. lock' \in Callers \union {None}
    BY <1>0, <1>13 DEF ProcessTypeOK, Callers, HotApply, Return, GoOn, Rearmed
  <2>12. at' \in [Callers -> {"idle", "restart", "force", "stop", "in"}]
    BY <1>0, <1>13 DEF ProcessTypeOK, Callers, HotApply, Return, GoOn, Rearmed
  <2>13. step' \in {"none", "read", "compare", "hot", "stop", "wait", "start"}
    BY <1>0, <1>13 DEF ProcessTypeOK, Callers, HotApply, Return, GoOn, Rearmed
  <2>14. \A d \in Callers : at'[d] = "in" <=> lock' = d
    BY <1>0, <1>13 DEF ProcessTypeOK, Callers, HotApply, Return, GoOn, Rearmed
  <2>15. lock' = None <=> step' = "none"
    BY <1>0, <1>13 DEF ProcessTypeOK, Callers, HotApply, Return, GoOn, Rearmed
  <2> QED
    BY <2>1, <2>2, <2>3, <2>4, <2>5, <2>6, <2>7, <2>8, <2>9, <2>10, <2>11, <2>12,
       <2>13, <2>14, <2>15 DEF ProcessTypeOK
<1>14. ASSUME NEW c \in Callers, StopChild(c)
      PROVE  ProcessTypeOK'
  <2>1. /\ db' \in BOOLEAN
        /\ serves' \in BOOLEAN
        /\ recorded' \in BOOLEAN
        /\ manual' \in BOOLEAN
        /\ missed' \in BOOLEAN
        /\ stray' \in BOOLEAN
        /\ child' \in {"none", "live", "crashed", "ended"}
    BY <1>0, <1>14 DEF ProcessTypeOK, StopChild
  <2>2. intentional' \in BOOLEAN
    BY <1>0, <1>14 DEF ProcessTypeOK, Callers, StopChild, IsRunning, Return, GoOn,
            Rearmed
  <2>3. backoff' \in BOOLEAN
    BY <1>0, <1>14 DEF ProcessTypeOK, Callers, StopChild, IsRunning, Return, GoOn,
            Rearmed
  <2>4. cfg' \in BOOLEAN
    BY <1>0, <1>14 DEF ProcessTypeOK, Callers, StopChild, IsRunning, Return, GoOn,
            Rearmed
  <2>5. flags' \subseteq {"restart", "reconcile"}
    BY <1>0, <1>14 DEF ProcessTypeOK, Callers, StopChild, IsRunning, Return, GoOn,
            Rearmed
  <2>6. took' \subseteq {"restart", "reconcile"}
    BY <1>0, <1>14 DEF ProcessTypeOK, Callers, StopChild, IsRunning, Return, GoOn,
            Rearmed
  <2>7. checkTime' \in 0..2
    BY <1>0, <1>14 DEF ProcessTypeOK, Callers, StopChild, IsRunning, Return, GoOn,
            Rearmed
  <2>8. task' \in {"none", "restart", "force", "stop"} /\ asked' \in {"run", "stop"}
    BY <1>0, <1>14 DEF ProcessTypeOK, Callers, StopChild, IsRunning, Return, GoOn,
            Rearmed
  <2>9. lock' \in Callers \union {None}
    BY <1>0, <1>14 DEF ProcessTypeOK, Callers, StopChild, IsRunning, Return, GoOn,
            Rearmed
  <2>10. at' \in [Callers -> {"idle", "restart", "force", "stop", "in"}]
    BY <1>0, <1>14 DEF ProcessTypeOK, Callers, StopChild, IsRunning, Return, GoOn,
            Rearmed
  <2>11. step' \in {"none", "read", "compare", "hot", "stop", "wait", "start"}
    BY <1>0, <1>14 DEF ProcessTypeOK, Callers, StopChild, IsRunning, Return, GoOn,
            Rearmed
  <2>12. \A d \in Callers : at'[d] = "in" <=> lock' = d
    BY <1>0, <1>14 DEF ProcessTypeOK, Callers, StopChild, IsRunning, Return, GoOn,
            Rearmed
  <2>13. lock' = None <=> step' = "none"
    BY <1>0, <1>14 DEF ProcessTypeOK, Callers, StopChild, IsRunning, Return, GoOn,
            Rearmed
  <2> QED
    BY <2>1, <2>2, <2>3, <2>4, <2>5, <2>6, <2>7, <2>8, <2>9, <2>10, <2>11, <2>12,
       <2>13 DEF ProcessTypeOK
<1>15. ASSUME NEW c \in Callers, WaitForExit(c)
      PROVE  ProcessTypeOK'
  <2>1. /\ db' \in BOOLEAN
        /\ serves' \in BOOLEAN
        /\ recorded' \in BOOLEAN
        /\ intentional' \in BOOLEAN
        /\ manual' \in BOOLEAN
        /\ missed' \in BOOLEAN
        /\ stray' \in BOOLEAN
        /\ child' \in {"none", "live", "crashed", "ended"}
    BY <1>0, <1>15 DEF ProcessTypeOK, WaitForExit
  <2>2. backoff' \in BOOLEAN
    BY <1>0, <1>15 DEF ProcessTypeOK, Callers, WaitForExit, IsRunning, Return, GoOn,
            TimedOut, Rearmed
  <2>3. cfg' \in BOOLEAN
    BY <1>0, <1>15 DEF ProcessTypeOK, Callers, WaitForExit, IsRunning, Return, GoOn,
            TimedOut, Rearmed
  <2>4. flags' \subseteq {"restart", "reconcile"}
    <3>1. \/ flags' = flags
          \/ \E ok \in BOOLEAN, fs \in {flags, flags \union {"reconcile"}} : Return(c, ok, fs)
      BY <1>15 DEF WaitForExit, GoOn, TimedOut
    <3>2. flags \subseteq {"restart", "reconcile"}
      BY <1>0 DEF ProcessTypeOK
    <3> QED
      BY <1>0, <3>1, <3>2, ReturnFlags
  <2>5. took' \subseteq {"restart", "reconcile"}
    BY <1>0, <1>15 DEF ProcessTypeOK, Callers, WaitForExit, IsRunning, Return, GoOn,
            TimedOut, Rearmed
  <2>6. checkTime' \in 0..2
    BY <1>0, <1>15 DEF ProcessTypeOK, Callers, WaitForExit, IsRunning, Return, GoOn,
            TimedOut, Rearmed
  <2>7. task' \in {"none", "restart", "force", "stop"} /\ asked' \in {"run", "stop"}
    BY <1>0, <1>15 DEF ProcessTypeOK, Callers, WaitForExit, IsRunning, Return, GoOn,
            TimedOut, Rearmed
  <2>8. lock' \in Callers \union {None}
    BY <1>0, <1>15 DEF ProcessTypeOK, Callers, WaitForExit, IsRunning, Return, GoOn,
            TimedOut, Rearmed
  <2>9. at' \in [Callers -> {"idle", "restart", "force", "stop", "in"}]
    BY <1>0, <1>15 DEF ProcessTypeOK, Callers, WaitForExit, IsRunning, Return, GoOn,
            TimedOut, Rearmed
  <2>10. step' \in {"none", "read", "compare", "hot", "stop", "wait", "start"}
    BY <1>0, <1>15 DEF ProcessTypeOK, Callers, WaitForExit, IsRunning, Return, GoOn,
            TimedOut, Rearmed
  <2>11. \A d \in Callers : at'[d] = "in" <=> lock' = d
    BY <1>0, <1>15 DEF ProcessTypeOK, Callers, WaitForExit, IsRunning, Return, GoOn,
            TimedOut, Rearmed
  <2>12. lock' = None <=> step' = "none"
    BY <1>0, <1>15 DEF ProcessTypeOK, Callers, WaitForExit, IsRunning, Return, GoOn,
            TimedOut, Rearmed
  <2> QED
    BY <2>1, <2>2, <2>3, <2>4, <2>5, <2>6, <2>7, <2>8, <2>9, <2>10, <2>11, <2>12 DEF ProcessTypeOK
<1>16. ASSUME NEW c \in Callers, StartChild(c)
      PROVE  ProcessTypeOK'
  <2>1. /\ db' \in BOOLEAN
        /\ manual' \in BOOLEAN
    BY <1>0, <1>16 DEF ProcessTypeOK, StartChild
  <2>2. serves' \in BOOLEAN
    BY <1>0, <1>16 DEF ProcessTypeOK, Callers, StartChild, Return, Rearmed
  <2>3. recorded' \in BOOLEAN
    BY <1>0, <1>16 DEF ProcessTypeOK, Callers, StartChild, Return, Rearmed
  <2>4. intentional' \in BOOLEAN
    BY <1>0, <1>16 DEF ProcessTypeOK, Callers, StartChild, Return, Rearmed
  <2>5. backoff' \in BOOLEAN
    BY <1>0, <1>16 DEF ProcessTypeOK, Callers, StartChild, Return, Rearmed
  <2>6. cfg' \in BOOLEAN
    BY <1>0, <1>16 DEF ProcessTypeOK, Callers, StartChild, Return, Rearmed
  <2>7. missed' \in BOOLEAN
    BY <1>0, <1>16 DEF ProcessTypeOK, Callers, StartChild, Return, Rearmed
  <2>8. stray' \in BOOLEAN
    BY <1>0, <1>16 DEF ProcessTypeOK, Callers, StartChild, Return, Rearmed
  <2>9. child' \in {"none", "live", "crashed", "ended"}
    BY <1>0, <1>16 DEF ProcessTypeOK, Callers, StartChild, Return, Rearmed
  <2>10. flags' \subseteq {"restart", "reconcile"}
    <3>1. flags' = flags \/ \E ok \in BOOLEAN : Return(c, ok, flags)
      BY <1>16 DEF StartChild
    <3>2. flags \subseteq {"restart", "reconcile"}
      BY <1>0 DEF ProcessTypeOK
    <3> QED
      BY <1>0, <3>1, <3>2, ReturnFlags
  <2>11. took' \subseteq {"restart", "reconcile"}
    BY <1>0, <1>16 DEF ProcessTypeOK, Callers, StartChild, Return, Rearmed
  <2>12. checkTime' \in 0..2
    BY <1>0, <1>16 DEF ProcessTypeOK, Callers, StartChild, Return, Rearmed
  <2>13. task' \in {"none", "restart", "force", "stop"} /\ asked' \in {"run", "stop"}
    BY <1>0, <1>16 DEF ProcessTypeOK, Callers, StartChild, Return, Rearmed
  <2>14. lock' \in Callers \union {None}
    BY <1>0, <1>16 DEF ProcessTypeOK, Callers, StartChild, Return, Rearmed
  <2>15. at' \in [Callers -> {"idle", "restart", "force", "stop", "in"}]
    BY <1>0, <1>16 DEF ProcessTypeOK, Callers, StartChild, Return, Rearmed
  <2>16. step' \in {"none", "read", "compare", "hot", "stop", "wait", "start"}
    BY <1>0, <1>16 DEF ProcessTypeOK, Callers, StartChild, Return, Rearmed
  <2>17. \A d \in Callers : at'[d] = "in" <=> lock' = d
    BY <1>0, <1>16 DEF ProcessTypeOK, Callers, StartChild, Return, Rearmed
  <2>18. lock' = None <=> step' = "none"
    BY <1>0, <1>16 DEF ProcessTypeOK, Callers, StartChild, Return, Rearmed
  <2> QED
    BY <2>1, <2>2, <2>3, <2>4, <2>5, <2>6, <2>7, <2>8, <2>9, <2>10, <2>11, <2>12,
       <2>13, <2>14, <2>15, <2>16, <2>17, <2>18 DEF ProcessTypeOK
<1> QED
  BY <1>1, <1>2, <1>3, <1>4, <1>6, <1>7, <1>8, <1>9, <1>10, <1>11, <1>12,
     <1>13, <1>14, <1>15, <1>16
  DEF CoreStep, CoreNext, Holder, Tick, Operator

\* Requests keep their types, and nobody else changes more of them than crossed.
LEMMA RequestTypeStep ==
    ASSUME CoreTypeOK, CoreStep
    PROVE  RequestTypeOK'
<1>1. CASE UNCHANGED editVars
  BY <1>1 DEF editVars, CoreTypeOK, RequestTypeOK
<1>2. CASE crossed' = FALSE /\ UNCHANGED <<tuic, edit, val, needRestart>>
  BY <1>2 DEF CoreTypeOK, RequestTypeOK
<1>3. ASSUME NEW r \in Editors, Request(r) \/ \E v \in BOOLEAN : SetInboundEnable(r, v)
      PROVE  RequestTypeOK'
  BY <1>3, RequestEffects
<1>4. ASSUME NEW c \in Callers, HotApply(c) \/ StartChild(c)
      PROVE  UNCHANGED editVars \/ (crossed' = FALSE /\ UNCHANGED <<tuic, edit, val, needRestart>>)
  BY <1>4 DEF HotApply, StartChild, editVars
<1>5. CASE \/ ChildEnds \/ OnCrash \/ ChildWaited \/ BackoffEnds \/ Tick
           \/ \E c \in Operators, what \in {"stop", "force"} : Command(c, what)
  BY <1>1, <1>5 DEF ChildEnds, OnCrash, ChildWaited, BackoffEnds, Tick, Watchdog,
          ApplyPendingRestart, Command
<1>6. ASSUME NEW c \in Callers, \/ Acquire(c) \/ ReadConfig(c) \/ Compare(c)
                               \/ StopChild(c) \/ WaitForExit(c)
      PROVE  UNCHANGED editVars
  BY <1>6 DEF Acquire, ReadConfig, Compare, StopChild, WaitForExit
<1> QED
  BY <1>1, <1>2, <1>3, <1>4, <1>5, <1>6 DEF CoreStep, CoreNext, Holder, Operator

\* Whoever goes on to start a core has found the old one gone, and holds the lock.
LEMMA StartStep ==
    ASSUME CoreInv, CoreStep
    PROVE  StartInv'
<1> USE CoreAssumption
<1>1. ASSUME UNCHANGED <<stray, step, child>>
      PROVE  StartInv'
  BY <1>1 DEF CoreInv, CoreTypeOK, StartInv
<1>2. ASSUME ChildEnds
      PROVE  StartInv'
  BY <1>2 DEF CoreInv, CoreTypeOK, StartInv, ChildEnds
<1>3. ASSUME OnCrash \/ ChildWaited
      PROVE  StartInv'
  BY <1>3 DEF CoreInv, StartInv, OnCrash, ChildWaited
<1>4. ASSUME NEW c \in Callers, Acquire(c)
      PROVE  StartInv'
  BY <1>4 DEF CoreInv, CoreTypeOK, StartInv, Acquire, IsRunning, Return, StaysStopped,
          LockFree, Restarted, Rearmed
<1>5. ASSUME NEW c \in Callers, ReadConfig(c)
      PROVE  StartInv'
  BY <1>5 DEF CoreInv, CoreTypeOK, StartInv, ReadConfig, Return, Rearmed
<1>6. ASSUME NEW c \in Callers, Compare(c)
      PROVE  StartInv'
  BY <1>6 DEF CoreInv, CoreTypeOK, StartInv, Compare, IsRunning, Return, GoOn,
          Unchanged, Rearmed
<1>7. ASSUME NEW c \in Callers, HotApply(c)
      PROVE  StartInv'
  BY <1>7 DEF CoreInv, CoreTypeOK, StartInv, HotApply, Return, GoOn, Rearmed
<1>8. ASSUME NEW c \in Callers, StopChild(c)
      PROVE  StartInv'
  BY <1>8 DEF CoreInv, CoreTypeOK, StartInv, StopChild, IsRunning, Return, GoOn,
          Rearmed
<1>9. ASSUME NEW c \in Callers, WaitForExit(c)
      PROVE  StartInv'
  BY <1>9 DEF CoreInv, CoreTypeOK, StartInv, WaitForExit, IsRunning, Return, GoOn,
          TimedOut, Rearmed
<1>10. ASSUME NEW c \in Callers, StartChild(c)
      PROVE  StartInv'
  BY <1>10 DEF CoreInv, CoreTypeOK, StartInv, StartChild, Return, Rearmed
<1>11. CASE \/ (\E c \in Operators, what \in {"stop", "force"} : Command(c, what))
            \/ Watchdog \/ BackoffEnds \/ ApplyPendingRestart
  BY <1>11, <1>1 DEF Command, Watchdog, BackoffEnds, ApplyPendingRestart
<1>12. ASSUME NEW r \in Editors, Request(r) \/ \E v \in BOOLEAN : SetInboundEnable(r, v)
      PROVE  UNCHANGED <<asked, manual, lock, task, step, child, intentional, stray>>
  BY <1>12, RequestEffects DEF CoreInv, CoreQuiet
<1> QED
  BY <1>1, <1>2, <1>3, <1>4, <1>5, <1>6, <1>7, <1>8, <1>9, <1>10, <1>11, <1>12
  DEF CoreStep, CoreNext, Holder, Tick, Operator

\* A restart that is not forced finds the core stopped by hand, whenever it was
\* begun.
LEMMA StopStep ==
    ASSUME CoreInv, CoreStep
    PROVE  StopInv'
<1> USE CoreAssumption
<1>1. ASSUME UNCHANGED <<asked, manual, lock, task, step, child, intentional>>
      PROVE  StopInv'
  BY <1>1 DEF CoreInv, CoreTypeOK, StartInv, StopInv, Down
<1>2. ASSUME ChildEnds
      PROVE  StopInv'
  BY <1>2 DEF CoreInv, CoreTypeOK, StartInv, StopInv, Down, ChildEnds
<1>3. ASSUME OnCrash \/ ChildWaited
      PROVE  StopInv'
  BY <1>3 DEF CoreInv, StopInv, Down, OnCrash, ChildWaited
<1>4. ASSUME NEW c \in Callers, Acquire(c)
      PROVE  StopInv'
  BY <1>4 DEF CoreInv, CoreTypeOK, StartInv, StopInv, Down, Acquire, IsRunning, Return,
          StaysStopped, LockFree, Restarted, Rearmed
<1>5. ASSUME NEW c \in Callers, ReadConfig(c)
      PROVE  StopInv'
  BY <1>5 DEF CoreInv, CoreTypeOK, StartInv, StopInv, Down, ReadConfig, Return, Rearmed
<1>6. ASSUME NEW c \in Callers, Compare(c)
      PROVE  StopInv'
  BY <1>6 DEF CoreInv, CoreTypeOK, StartInv, StopInv, Down, Compare, IsRunning, Return,
          GoOn, Unchanged, Rearmed
<1>7. ASSUME NEW c \in Callers, HotApply(c)
      PROVE  StopInv'
  BY <1>7 DEF CoreInv, CoreTypeOK, StartInv, StopInv, Down, HotApply, Return, GoOn,
          Rearmed
<1>8. ASSUME NEW c \in Callers, StopChild(c)
      PROVE  StopInv'
  BY <1>8 DEF CoreInv, CoreTypeOK, StartInv, StopInv, Down, StopChild, IsRunning,
          Return, GoOn, Rearmed
<1>9. ASSUME NEW c \in Callers, WaitForExit(c)
      PROVE  StopInv'
  BY <1>9 DEF CoreInv, CoreTypeOK, StartInv, StopInv, Down, WaitForExit, IsRunning,
          Return, GoOn, TimedOut, Rearmed
<1>10. ASSUME NEW c \in Callers, StartChild(c)
      PROVE  StopInv'
  BY <1>10 DEF CoreInv, CoreTypeOK, StartInv, StopInv, Down, StartChild, Return,
          Rearmed
<1>11. CASE \/ (\E c \in Operators, what \in {"stop", "force"} : Command(c, what))
            \/ Watchdog \/ BackoffEnds \/ ApplyPendingRestart
  BY <1>11, <1>1 DEF Command, Watchdog, BackoffEnds, ApplyPendingRestart
<1>12. ASSUME NEW r \in Editors, Request(r) \/ \E v \in BOOLEAN : SetInboundEnable(r, v)
      PROVE  UNCHANGED <<asked, manual, lock, task, step, child, intentional, stray>>
  BY <1>12, RequestEffects DEF CoreInv, CoreQuiet
<1> QED
  BY <1>1, <1>2, <1>3, <1>4, <1>5, <1>6, <1>7, <1>8, <1>9, <1>10, <1>11, <1>12
  DEF CoreStep, CoreNext, Holder, Tick, Operator

\* The flags are taken down by whoever serves them, and raised again if it fails; a core is
\* left as it is only with what it serves compared with the row.
LEMMA DivergenceStep ==
    ASSUME CoreInv, CoreStep
    PROVE  DivergenceIsKnown'
<1> USE CoreAssumption
<1>0. ASSUME UNCHANGED <<db, child, serves, intentional, missed, editVars>>, step # "stop",
             flags \union took \subseteq flags' \union took'
      PROVE  DivergenceIsKnown'
  BY <1>0 DEF CoreInv, DivergenceIsKnown, editVars
<1>1. ASSUME UNCHANGED <<db, child, serves, flags, took, intentional, step, missed,
                        crossed, edit>>
      PROVE  DivergenceIsKnown'
  BY <1>1 DEF CoreInv, DivergenceIsKnown
<1>2. ASSUME ChildEnds
      PROVE  DivergenceIsKnown'
  BY <1>2 DEF CoreInv, DivergenceIsKnown, ChildEnds
<1>3. ASSUME OnCrash \/ ChildWaited
      PROVE  DivergenceIsKnown'
  BY <1>3 DEF OnCrash, ChildWaited, DivergenceIsKnown
<1>4. ASSUME NEW r \in Editors, edit'[r] \in {"del", "add", "flag"}
      PROVE  DivergenceIsKnown'
  BY <1>4 DEF DivergenceIsKnown
<1>5. ASSUME NEW r \in Editors, NEW failed, Pushed(r, failed), UNCHANGED <<db, tuic>>,
             ~ failed => flags' # {} \/ (~ tuic /\ serves' = val[r])
      PROVE  DivergenceIsKnown'
  <2>1. CASE failed
    <3>1. edit'[r] = "flag"
      BY <1>5, <2>1 DEF CoreInv, CoreTypeOK, RequestTypeOK, Pushed
    <3> QED
      BY <1>4, <3>1
  <2>2. CASE ~ failed /\ ~ (flags' # {})
    BY <1>5, <2>2 DEF DivergenceIsKnown, Pushed
  <2>3. CASE flags' # {}
    BY <2>3 DEF DivergenceIsKnown
  <2> QED
    BY <2>1, <2>2, <2>3
<1>6. ASSUME NEW r \in Editors, Request(r) \/ \E v \in BOOLEAN : SetInboundEnable(r, v)
      PROVE  DivergenceIsKnown'
  <2>1. /\ edit \in [Editors -> {"idle", "commit", "del", "add", "flag"}]
        /\ UNCHANGED <<child, took, intentional, step, tuic>>
    BY <1>6, RequestEffects DEF CoreInv, CoreTypeOK, RequestTypeOK, CoreQuiet
  <2>2. ASSUME NEW v \in BOOLEAN, SetInboundEnable(r, v)
        PROVE  DivergenceIsKnown'
    <3>1. edit[r] = "idle" /\ edit' = [edit EXCEPT ![r] = "commit"]
      BY <2>2 DEF SetInboundEnable
    <3>2. \A d \in Editors : edit[d] \in {"del", "add", "flag"} => edit'[d] = edit[d]
      BY <2>1, <3>1
    <3>3. UNCHANGED <<db, serves, flags, missed, crossed>>
      BY <2>2 DEF SetInboundEnable
    <3> QED
      BY <2>1, <3>2, <3>3 DEF CoreInv, DivergenceIsKnown
  <2>3. CASE CommitSwitch(r)
    <3>1. edit'[r] = "del"
      BY <2>1, <2>3 DEF CommitSwitch
    <3> QED
      BY <1>4, <3>1
  <2>4. CASE DelInbound(r)
    <3>1. PICK failed \in BOOLEAN :
            Removes(failed) /\ IF ~ val[r] THEN Pushed(r, failed)
                               ELSE edit' = [edit EXCEPT ![r] = "add"]
      BY <2>4 DEF DelInbound
    <3>2. UNCHANGED db
      BY <2>4 DEF DelInbound
    <3>3. CASE val[r]
      <4>1. edit'[r] = "add"
        BY <2>1, <3>1, <3>3
      <4> QED
        BY <1>4, <4>1
    <3>4. CASE ~ val[r]
      <4>1. ~ failed => flags' # {} \/ (~ tuic /\ serves' = FALSE)
        BY <3>1 DEF Removes
      <4>2. val[r] = FALSE
        BY <3>4 DEF CoreInv, CoreTypeOK, RequestTypeOK
      <4> QED
        BY <1>5, <2>1, <3>1, <3>2, <3>4, <4>1, <4>2
    <3> QED
      BY <3>3, <3>4
  <2>5. CASE AddInbound(r)
    <3>1. PICK failed \in BOOLEAN : Adds(failed) /\ Pushed(r, failed \/ r \in needRestart)
      BY <2>5 DEF AddInbound
    <3>2. UNCHANGED db /\ val[r] = TRUE
      BY <2>5 DEF AddInbound, CoreInv, CoreTypeOK, RequestTypeOK
    <3>3. ~ failed => flags' # {} \/ (~ tuic /\ serves' = TRUE)
      BY <3>1 DEF Adds
    <3> QED
      BY <1>5, <2>1, <3>1, <3>2, <3>3
  <2>6. CASE SetToNeedRestart(r)
    BY <2>6 DEF SetToNeedRestart, DivergenceIsKnown
  <2> QED
    BY <1>6, <2>2, <2>3, <2>4, <2>5, <2>6 DEF Request
<1>7. ASSUME NEW c \in Operators, NEW what \in {"stop", "force"}, Command(c, what)
      PROVE  DivergenceIsKnown'
  BY <1>7, <1>1 DEF Command, editVars
<1>8. ASSUME Watchdog
      PROVE  DivergenceIsKnown'
  BY <1>8, <1>1 DEF Watchdog, editVars
<1>9. ASSUME ApplyPendingRestart
      PROVE  DivergenceIsKnown'
  BY <1>9 DEF CoreInv, CoreTypeOK, Callers, DivergenceIsKnown, ApplyPendingRestart
<1>10. ASSUME NEW c \in Callers, Acquire(c)
      PROVE  DivergenceIsKnown'
  <2>1. /\ lock = None /\ step = "none"
        /\ UNCHANGED <<db, child, serves, intentional, missed, editVars>>
    BY <1>10 DEF CoreInv, CoreTypeOK, ProcessTypeOK, Acquire, LockFree
  <2>2. \/ manual
        \/ UNCHANGED <<flags, took>>
        \/ Return(c, FALSE, flags)
    BY <1>10 DEF Acquire, StaysStopped
  <2>3. CASE manual
    <3>1. Down
      BY <2>1, <2>3 DEF CoreInv, StopInv
    <3> QED
      BY <2>1, <3>1 DEF Down, DivergenceIsKnown
  <2>4. CASE UNCHANGED <<flags, took>>
    BY <1>0, <2>1, <2>4
  <2>5. CASE Return(c, FALSE, flags)
    BY <1>0, <2>1, <2>5, FailureKeepsFlags
  <2> QED
    BY <2>2, <2>3, <2>4, <2>5
<1>11. ASSUME NEW c \in Callers, ReadConfig(c)
      PROVE  DivergenceIsKnown'
  <2>1. step = "read" /\ UNCHANGED <<db, child, serves, intentional, missed, editVars>>
    BY <1>11 DEF ReadConfig
  <2>2. UNCHANGED <<flags, took>> \/ Return(c, FALSE, flags)
    BY <1>11 DEF ReadConfig
  <2> QED
    BY <1>0, <2>1, <2>2, FailureKeepsFlags
<1>12. ASSUME NEW c \in Callers, Compare(c)
      PROVE  DivergenceIsKnown'
  <2>1. step = "compare" /\ UNCHANGED <<db, child, serves, intentional, editVars>>
    BY <1>12 DEF Compare
  <2>2. \/ missed' = (missed \/ (child = "live" /\ serves # db))
        \/ missed' = missed /\ (UNCHANGED <<flags, took>> \/ Return(c, FALSE, flags))
    BY <1>12 DEF Compare, GoOn
  <2>3. CASE missed' = (missed \/ (child = "live" /\ serves # db))
    BY <2>1, <2>3 DEF DivergenceIsKnown
  <2>4. CASE missed' = missed /\ (UNCHANGED <<flags, took>> \/ Return(c, FALSE, flags))
    BY <1>0, <2>1, <2>4, FailureKeepsFlags
  <2> QED
    BY <2>2, <2>3, <2>4
<1>13. ASSUME NEW c \in Callers, HotApply(c)
      PROVE  DivergenceIsKnown'
  BY <1>13 DEF CoreInv, CoreTypeOK, Callers, DivergenceIsKnown, HotApply, Return, GoOn,
          Rearmed
<1>14. ASSUME NEW c \in Callers, StopChild(c)
      PROVE  DivergenceIsKnown'
  BY <1>14 DEF CoreInv, CoreTypeOK, Callers, DivergenceIsKnown, StopChild, IsRunning,
          Return, GoOn, Rearmed
<1>15. ASSUME NEW c \in Callers, WaitForExit(c)
      PROVE  DivergenceIsKnown'
  <2>1. step = "wait" /\ UNCHANGED <<db, child, serves, intentional, missed, editVars>>
    BY <1>15 DEF WaitForExit
  <2>2. child = "none" \/ Return(c, FALSE, flags)
    BY <1>15 DEF WaitForExit, IsRunning, TimedOut
  <2>3. CASE child = "none"
    BY <2>1, <2>3 DEF DivergenceIsKnown
  <2> QED
    BY <1>0, <2>1, <2>2, <2>3, FailureKeepsFlags
<1>16. ASSUME NEW c \in Callers, StartChild(c)
      PROVE  DivergenceIsKnown'
  BY <1>16 DEF CoreInv, CoreTypeOK, DivergenceIsKnown, StartChild
<1>17. CASE BackoffEnds
  BY <1>17, <1>1 DEF BackoffEnds, editVars
<1> QED
  BY <1>1, <1>2, <1>3, <1>4, <1>5, <1>6, <1>7, <1>8, <1>9, <1>10, <1>11, <1>12,
     <1>13, <1>14, <1>15, <1>16, <1>17
  DEF CoreStep, CoreNext, Holder, Tick, Operator

\* The core starts alive, and nobody has asked for anything.
LEMMA CoreInitInv == CoreInit => CoreInv
<1> SUFFICES ASSUME CoreInit
             PROVE  CoreInv
  OBVIOUS
<1> USE CoreAssumption DEF CoreInit, Callers
<1>1. /\ db \in BOOLEAN /\ serves \in BOOLEAN /\ recorded \in BOOLEAN /\ intentional \in BOOLEAN
      /\ manual \in BOOLEAN /\ backoff \in BOOLEAN /\ cfg \in BOOLEAN
      /\ missed \in BOOLEAN /\ stray \in BOOLEAN /\ crossed \in BOOLEAN
  BY Zenon
<1>2. ProcessTypeOK
  BY <1>1 DEF ProcessTypeOK
<1>3. RequestTypeOK
  BY <1>1 DEF RequestTypeOK
<1>4. StartInv /\ StopInv /\ DivergenceIsKnown
  BY DEF StartInv, StopInv, Down, DivergenceIsKnown
<1> QED
  BY <1>2, <1>3, <1>4 DEF CoreInv, CoreTypeOK

\* Steps of the core, and of anything that leaves its variables alone.
LEMMA CoreKeeps ==
    ASSUME CoreInv, CoreStep \/ UNCHANGED coreVars
    PROVE  CoreInv'
<1>1. CASE CoreStep
  BY <1>1, ProcessTypeStep, RequestTypeStep, StartStep, StopStep, DivergenceStep
  DEF CoreInv, CoreTypeOK
<1>2. CASE UNCHANGED coreVars
  BY <1>2 DEF coreVars, editVars, CoreInv, CoreTypeOK, RequestTypeOK, ProcessTypeOK, StartInv,
          StopInv, Down, DivergenceIsKnown
<1> QED
  BY <1>1, <1>2
=============================================================================
