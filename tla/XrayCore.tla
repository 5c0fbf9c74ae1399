------------------------------ MODULE XrayCore ------------------------------
(***************************************************************************)
(* The life of the local core: web/service/xray.go (RestartXray, StopXray, *)
(* ApplyPendingRestart) with xray/process.go, the watchdog of              *)
(* web/job/check_xray_running_job.go, and the requests that switch one      *)
(* inbound and push it to the running core beside all of them, each for    *)
(* itself (SetInboundEnable of service/inbound.go, runtime/local.go).      *)
(*                                                                         *)
(* A configuration is a BOOLEAN: whether it has the inbound.               *)
(***************************************************************************)
EXTENDS EventBus

CONSTANTS
    Editors,    \* requests that switch the inbound
    Operators   \* requests that stop the core, or start or restart it

Callers == {"watchdog", "pending"} \union Operators
ASSUME CoreAssumption == None \notin Callers /\ {"watchdog", "pending"} \cap Operators = {}

VARIABLES
    tuic,        \* protocol of the inbound: TUIC, which the core is given in reconciliations only
    db,          \* the row: the inbound is enabled
    child,       \* the process of the core: "none", "live", or "crashed" or "ended" and not waited for yet
    serves,      \* what the live core serves
    recorded,    \* config of the process object
    intentional, \* intentionalStop of the process object
    flags,       \* isNeedXrayRestart and isNeedXrayReconcile
    manual,      \* isManuallyStopped
    lock         \* who holds the package lock

VARIABLES
    edit,        \* edit[r]: where the request to switch is: "idle", "commit", "del", "add" or "flag"
    val,         \* val[r]: what it switches the inbound to
    needRestart, \* needRestart of the requests: those of which a call has failed
    crossed      \* ghost: the last call of a request to arrive at the core was of one that another
                 \* had overtaken in the row

VARIABLES
    at,          \* at[c]: "idle", what it waits for the lock for, or "in"
    step,        \* where the holder of the lock is
    cfg,         \* what it has read
    task,        \* what it was called for: "restart", "force" or "stop"
    took,        \* the flags that ApplyPendingRestart has taken down
    checkTime,   \* of the watchdog, up to 2
    backoff,     \* retryAt is in the future
    asked,       \* ghost: the last command of the operator that got the lock: "run" or "stop"
    missed,      \* ghost: the core was left with another configuration by a restart that compared
                 \* or started what was not that of the core or of the row any more
    stray        \* ghost: a core was replaced while it was alive

editVars == <<tuic, edit, val, needRestart, crossed>>
coreVars == <<db, child, serves, recorded, intentional, flags, manual, lock, at, step, cfg, task, took,
              checkTime, backoff, asked, missed, stray, editVars>>

CoreInit ==
    /\ tuic \in BOOLEAN
    /\ edit = [r \in Editors |-> "idle"] /\ val = [r \in Editors |-> FALSE] /\ needRestart = {}
    /\ crossed = FALSE
    /\ db = TRUE /\ child = "live" /\ serves = TRUE /\ recorded = TRUE
    /\ intentional = FALSE /\ flags = {} /\ manual = FALSE /\ lock = None
    /\ at = [c \in Callers |-> "idle"] /\ step = "none" /\ cfg = FALSE /\ task = "none"
    /\ took = {} /\ checkTime = 0 /\ backoff = FALSE
    /\ asked = "run" /\ missed = FALSE /\ stray = FALSE

BusQuiet == UNCHANGED <<ch, subs, worker, queue, handling, stopped, done, dispatching, stopping,
                        sent, settled>>

\* The process, as process.go has it: it runs until its end has been waited for.
IsRunning == child # "none"

-----------------------------------------------------------------------------
(* The child process                                                       *)

\* It ends by itself, with an error or without, or because it was told to.
ChildEnds ==
    /\ child = "live"
    /\ \/ Stimulus /\ child' \in {"crashed", "ended"}
       \/ intentional /\ child' = "ended" /\ UNCHANGED left
    /\ BusQuiet
    /\ UNCHANGED <<db, serves, recorded, intentional, flags, manual, lock, at, step, cfg, task,
                   took, checkTime, backoff, asked, missed, stray, editVars>>

\* waitForCommand: OnCrash publishes a crash that nobody intended.
OnCrash ==
    /\ child = "crashed" /\ child' = "ended"
    /\ IF ~ intentional THEN Publish("crash", {}) ELSE BusQuiet
    /\ UNCHANGED <<left, db, serves, recorded, intentional, flags, manual, lock, at, step, cfg,
                   task, took, checkTime, backoff, asked, missed, stray, editVars>>

\* It closes done last.
ChildWaited ==
    /\ child = "ended" /\ child' = "none"
    /\ BusQuiet
    /\ UNCHANGED <<left, db, serves, recorded, intentional, flags, manual, lock, at, step, cfg,
                   task, took, checkTime, backoff, asked, missed, stray, editVars>>

-----------------------------------------------------------------------------
(* SetInboundEnable. It takes no lock: the calls of two requests to the    *)
(* core may come in any order (Local.mu covers one call each).             *)

\* What requests leave alone.
CoreQuiet == UNCHANGED <<child, recorded, intentional, manual, lock, at, step, cfg, task, took,
                         checkTime, backoff, asked, stray, tuic>>

\* A request reads the row, and is done at once if there is nothing to switch.
SetInboundEnable(r, v) ==
    /\ edit[r] = "idle" /\ db # v /\ Stimulus
    /\ edit' = [edit EXCEPT ![r] = "commit"] /\ val' = [val EXCEPT ![r] = v]
    /\ BusQuiet /\ CoreQuiet
    /\ UNCHANGED <<db, serves, flags, needRestart, missed, crossed>>

\* Whatever is in the row by now.
CommitSwitch(r) ==
    /\ edit[r] = "commit" /\ db' = val[r]
    /\ edit' = [edit EXCEPT ![r] = "del"] /\ missed' = FALSE /\ crossed' = FALSE
    /\ BusQuiet /\ CoreQuiet
    /\ UNCHANGED <<left, serves, flags, val, needRestart>>

\* The last call has been made: the controller is told if one has failed.
Pushed(r, failed) ==
    /\ edit' = [edit EXCEPT ![r] = IF failed THEN "flag" ELSE "idle"]
    /\ val' = [val EXCEPT ![r] = FALSE] /\ needRestart' = needRestart \ {r}
    /\ IF failed THEN UNCHANGED <<missed, crossed>>
       ELSE missed' = FALSE /\ crossed' = (~ tuic /\ val[r] # db)

\* A call goes to whichever core there is, whoever holds the lock, and does not tell the
\* process object. It fails without a core, and may otherwise fail with or without effect.
\* The core's answer to a removal of what it does not have need not be read as "not found".
\* A TUIC inbound is its manager's, and the core is to be reconciled.
Removes(failed) ==
    \/ ~ failed /\ ~ tuic /\ child = "live" /\ serves' = FALSE /\ UNCHANGED <<left, flags>>
    \/ /\ failed /\ ~ tuic /\ serves' \in {serves, serves /\ child # "live"}
       /\ IF child = "live" /\ serves THEN Stimulus ELSE UNCHANGED left
       /\ UNCHANGED flags
    \/ ~ failed /\ tuic /\ flags' = flags \union {"reconcile"} /\ UNCHANGED <<left, serves>>

DelInbound(r) ==
    /\ edit[r] = "del"
    /\ \E failed \in BOOLEAN :
         /\ Removes(failed)
         /\ IF ~ val[r] THEN Pushed(r, failed)
            ELSE /\ edit' = [edit EXCEPT ![r] = "add"]
                 /\ needRestart' = IF failed THEN needRestart \union {r} ELSE needRestart
                 /\ UNCHANGED <<val, missed, crossed>>
    /\ BusQuiet /\ CoreQuiet /\ UNCHANGED db

\* The core refuses a tag that it has.
Adds(failed) ==
    \/ /\ ~ failed /\ ~ tuic /\ child = "live" /\ ~ serves /\ serves' = TRUE
       /\ UNCHANGED <<left, flags>>
    \/ /\ failed /\ ~ tuic /\ serves' \in {serves, serves \/ child = "live"}
       /\ IF child = "live" /\ ~ serves THEN Stimulus ELSE UNCHANGED left
       /\ UNCHANGED flags
    \/ /\ tuic /\ flags' = flags \union {"reconcile"} /\ UNCHANGED serves
       /\ IF failed THEN Stimulus ELSE UNCHANGED left

AddInbound(r) ==
    /\ edit[r] = "add"
    /\ \E failed \in BOOLEAN : Adds(failed) /\ Pushed(r, failed \/ r \in needRestart)
    /\ BusQuiet /\ CoreQuiet /\ UNCHANGED db

SetToNeedRestart_Ignored(r) ==
    /\ edit[r] = "flag" /\ edit' = [edit EXCEPT ![r] = "idle"]
    /\ BusQuiet /\ CoreQuiet
    /\ UNCHANGED <<left, db, serves, flags, val, needRestart, missed, crossed>>

\* The controller asks for a restart.
SetToNeedRestart(r) ==
    /\ edit[r] = "flag" /\ edit' = [edit EXCEPT ![r] = "idle"]
    /\ flags' = flags \union {"restart"} /\ missed' = FALSE /\ crossed' = FALSE
    /\ BusQuiet /\ CoreQuiet
    /\ UNCHANGED <<left, db, serves, val, needRestart>>

-----------------------------------------------------------------------------
(* Who calls RestartXray and StopXray                                      *)

\* The operator stops the core, or starts it or restarts it.
Command(c, what) ==
    /\ at[c] = "idle" /\ Stimulus
    /\ at' = [at EXCEPT ![c] = what]
    /\ BusQuiet
    /\ UNCHANGED <<db, child, serves, recorded, intentional, flags, manual, lock, step, cfg, task,
                   took, checkTime, backoff, asked, missed, stray, editVars>>

DidXrayCrash == ~ IsRunning /\ ~ manual

\* Run of the watchdog: it restarts a core that was down twice in a row.
Watchdog ==
    /\ at["watchdog"] = "idle"
    /\ checkTime' = IF ~ DidXrayCrash THEN 0 ELSE IF checkTime < 2 THEN checkTime + 1 ELSE 2
    /\ at' = [at EXCEPT !["watchdog"] =
                IF DidXrayCrash /\ checkTime >= 1 /\ ~ backoff THEN "restart" ELSE "idle"]
    /\ BusQuiet
    /\ UNCHANGED <<left, db, child, serves, recorded, intentional, flags, manual, lock, step, cfg,
                   task, took, backoff, asked, missed, stray, editVars>>

BackoffEnds ==
    /\ backoff /\ backoff' = FALSE
    /\ BusQuiet
    /\ UNCHANGED <<left, db, child, serves, recorded, intentional, flags, manual, lock, at, step,
                   cfg, task, took, checkTime, asked, missed, stray, editVars>>

\* ApplyPendingRestart takes the flags down before it restarts.
ApplyPendingRestart ==
    /\ at["pending"] = "idle" /\ flags # {}
    /\ took' = flags /\ flags' = {}
    /\ at' = [at EXCEPT !["pending"] = "restart"]
    /\ BusQuiet
    /\ UNCHANGED <<left, db, child, serves, recorded, intentional, manual, lock, step, cfg, task,
                   checkTime, backoff, asked, missed, stray, editVars>>

-----------------------------------------------------------------------------
(* RestartXray and StopXray, under the lock                                *)

\* ApplyPendingRestart raises the flags again that it could not serve.
Rearmed_Forgets(ok) == {}
Rearmed(ok) == IF ok THEN {} ELSE took

\* The call of c returns, with an error unless ok, leaving the flags fs; the watchdog may
\* defer its next attempt.
Return(c, ok, fs) ==
    /\ at' = [at EXCEPT ![c] = "idle"]
    /\ lock' = None /\ step' = "none" /\ task' = "none" /\ cfg' = FALSE
    /\ IF c = "pending" THEN flags' = fs \union Rearmed(ok) /\ took' = {}
       ELSE flags' = fs /\ UNCHANGED took
    /\ IF c = "watchdog" THEN checkTime' = 0 /\ backoff' \in BOOLEAN
       ELSE UNCHANGED <<checkTime, backoff>>

GoOn(where) ==
    /\ step' = where
    /\ UNCHANGED <<at, lock, task, cfg, flags, took, checkTime, backoff>>

\* A core that was stopped by hand is started by force only.
StaysStopped_Never(c) == FALSE
StaysStopped(c) == at[c] = "restart" /\ manual

LockFree == lock = None

\* isManuallyStopped, once a restart has the lock.
Restarted_Kept == manual
Restarted == FALSE

Acquire(c) ==
    /\ at[c] \in {"restart", "force", "stop"} /\ LockFree
    /\ \/ StaysStopped(c) /\ Return(c, TRUE, flags) /\ UNCHANGED <<manual, asked>>
       \/ /\ at[c] = "stop" /\ manual' = TRUE /\ asked' = "stop"
          /\ IF IsRunning
             THEN /\ lock' = c /\ step' = "stop" /\ task' = at[c] /\ at' = [at EXCEPT ![c] = "in"]
                  /\ UNCHANGED <<cfg, flags, took, checkTime, backoff>>
             ELSE Return(c, FALSE, flags)
       \/ /\ at[c] # "stop" /\ ~ StaysStopped(c) /\ manual' = Restarted
          /\ asked' = IF at[c] = "force" THEN "run" ELSE asked
          /\ lock' = c /\ step' = "read" /\ task' = at[c] /\ at' = [at EXCEPT ![c] = "in"]
          /\ UNCHANGED <<cfg, flags, took, checkTime, backoff>>
    /\ BusQuiet
    /\ UNCHANGED <<left, db, child, serves, recorded, intentional, missed, stray, editVars>>

\* GetXrayConfig.
ReadConfig(c) ==
    /\ lock = c /\ step = "read"
    /\ \/ cfg' = db /\ step' = "compare"
          /\ UNCHANGED <<left, at, lock, task, flags, took, checkTime, backoff>>
       \/ Stimulus /\ Return(c, FALSE, flags)
    /\ BusQuiet
    /\ UNCHANGED <<db, child, serves, recorded, intentional, manual, asked, missed, stray,
                   editVars>>

\* Nothing to do, as far as the process object knows.
Unchanged ==
    IsRunning /\ task # "force" /\ cfg = recorded /\ "restart" \notin flags

\* A running core is kept if it has the configuration or may not bind the new one, tried
\* with a hot apply if that is new and nobody insists, and stopped otherwise.
Compare(c) ==
    /\ lock = c /\ step = "compare"
    /\ \/ /\ Unchanged /\ Return(c, TRUE, flags) /\ UNCHANGED left
          /\ missed' = (missed \/ (child = "live" /\ serves # db))
       \/ /\ IsRunning /\ ~ Unchanged /\ Stimulus /\ Return(c, FALSE, flags) /\ UNCHANGED missed
       \/ /\ IsRunning /\ ~ Unchanged /\ UNCHANGED <<left, missed>>
          /\ GoOn(IF task # "force" /\ cfg # recorded THEN "hot" ELSE "stop")
       \/ ~ IsRunning /\ GoOn("start") /\ UNCHANGED <<left, missed>>
    /\ BusQuiet
    /\ UNCHANGED <<db, child, serves, recorded, intentional, manual, asked, stray, editVars>>

\* tryHotApply: the difference goes to the live core; or only a part of it, or nothing, and a
\* restart follows, or, with TUIC relays in it, an error and another reconciliation.
HotApply(c) ==
    /\ lock = c /\ step = "hot"
    /\ \/ /\ child = "live" /\ serves' = cfg /\ recorded' = cfg
          /\ missed' = (cfg # db) /\ crossed' = FALSE
          /\ Return(c, TRUE, flags) /\ UNCHANGED left
       \/ /\ IF child = "live" THEN Stimulus ELSE UNCHANGED left
          /\ serves' \in {serves, cfg}
          /\ GoOn("stop") /\ UNCHANGED <<recorded, missed, crossed>>
       \/ /\ Stimulus /\ Return(c, FALSE, flags \union {"reconcile"})
          /\ UNCHANGED <<serves, recorded, missed, crossed>>
    /\ BusQuiet
    /\ UNCHANGED <<db, child, intentional, manual, asked, stray, tuic, edit, val, needRestart>>

\* Stop of the process, which may be gone by now.
StopChild(c) ==
    /\ lock = c /\ step = "stop"
    /\ IF IsRunning THEN intentional' = TRUE /\ GoOn("wait")
       ELSE Return(c, FALSE, flags) /\ UNCHANGED intentional
    /\ BusQuiet
    /\ UNCHANGED <<left, db, child, serves, recorded, manual, asked, missed, stray, editVars>>

\* It is gone, or has not gone in time.
TimedOut_GoesOn(c) == GoOn("start")
TimedOut(c) == Return(c, FALSE, flags)

WaitForExit(c) ==
    /\ lock = c /\ step = "wait"
    /\ \/ /\ ~ IsRunning /\ UNCHANGED left
          /\ IF task = "stop" THEN Return(c, TRUE, flags) ELSE GoOn("start")
       \/ IsRunning /\ Stimulus /\ TimedOut(c)
    /\ BusQuiet
    /\ UNCHANGED <<db, child, serves, recorded, intentional, manual, asked, missed, stray,
                   editVars>>

\* A new process object takes the place of the old one.
StartChild(c) ==
    /\ lock = c /\ step = "start"
    /\ recorded' = cfg /\ intentional' = FALSE /\ serves' = cfg
    /\ stray' = (stray \/ child = "live")
    /\ \/ /\ child' = "live" /\ missed' = (cfg # db) /\ crossed' = FALSE
          /\ Return(c, TRUE, flags) /\ UNCHANGED left
       \/ /\ child' = "none" /\ Stimulus /\ Return(c, FALSE, flags)
          /\ UNCHANGED <<missed, crossed>>
    /\ BusQuiet
    /\ UNCHANGED <<db, manual, asked, tuic, edit, val, needRestart>>

-----------------------------------------------------------------------------
Holder(c) == ReadConfig(c) \/ Compare(c) \/ HotApply(c) \/ StopChild(c) \/ WaitForExit(c)
               \/ StartChild(c)

Request(r) == CommitSwitch(r) \/ DelInbound(r) \/ AddInbound(r) \/ SetToNeedRestart(r)

Tick == Watchdog \/ ApplyPendingRestart

CoreNext ==
    \/ ChildEnds \/ OnCrash \/ ChildWaited \/ BackoffEnds
    \/ \E r \in Editors : Request(r)
    \/ \E c \in Callers : Acquire(c) \/ Holder(c)

Operator ==
    \/ \E r \in Editors, v \in BOOLEAN : SetInboundEnable(r, v)
    \/ \E c \in Operators, what \in {"stop", "force"} : Command(c, what)

-----------------------------------------------------------------------------
RequestTypeOK ==
    /\ tuic \in BOOLEAN /\ crossed \in BOOLEAN /\ needRestart \subseteq Editors
    /\ edit \in [Editors -> {"idle", "commit", "del", "add", "flag"}]
    /\ val \in [Editors -> BOOLEAN] /\ \A r \in Editors : edit[r] = "add" => val[r]

ProcessTypeOK ==
    /\ db \in BOOLEAN /\ serves \in BOOLEAN /\ recorded \in BOOLEAN /\ intentional \in BOOLEAN
    /\ child \in {"none", "live", "crashed", "ended"}
    /\ flags \subseteq {"restart", "reconcile"} /\ took \subseteq {"restart", "reconcile"}
    /\ manual \in BOOLEAN /\ backoff \in BOOLEAN /\ checkTime \in 0..2
    /\ cfg \in BOOLEAN /\ task \in {"none", "restart", "force", "stop"}
    /\ asked \in {"run", "stop"} /\ missed \in BOOLEAN /\ stray \in BOOLEAN
    /\ lock \in Callers \union {None}
    /\ at \in [Callers -> {"idle", "restart", "force", "stop", "in"}]
    /\ step \in {"none", "read", "compare", "hot", "stop", "wait", "start"}
    /\ \A c \in Callers : at[c] = "in" <=> lock = c
    /\ lock = None <=> step = "none"

CoreTypeOK == RequestTypeOK /\ ProcessTypeOK

\* There is one core: none is started while the last one is alive, whoever restarts it and
\* however its stop ended.
OneCore == ~ stray

\* A core that the operator has stopped stays down until he starts it again, whatever the
\* jobs had seen or begun before; a core that has not obeyed the stop yet excepted.
StopStands == asked = "stop" /\ lock = None => child # "live" \/ intentional

\* A core that serves something else than the row says is not forgotten, whoever holds the
\* lock and however a restart has failed: the calls of a request are on their way, a restart
\* is asked for or begun, or the core is about to go; what EditsArrive excepts excepted.
DivergenceIsKnown ==
    child = "live" /\ serves # db =>
        \/ \E r \in Editors : edit[r] \in {"del", "add", "flag"}
        \/ flags \union took # {}
        \/ intentional \/ step = "stop"
        \/ missed \/ crossed

\* Unless he has stopped it, the core is up in the end, whatever crashed, failed to start
\* or could not be stopped.
CoreRecovers == <>[](asked = "stop" \/ stopped \/ child = "live")

\* And it serves what the row says, whatever calls of requests have failed or met a restart,
\* but for two cases: of two requests that overlap, the calls of the one that committed first
\* came last (crossed); a restart was asked for after a request that the process object does
\* not know of, or had read the row before the last request (missed).
EditsArrive == <>[](stopped \/ missed \/ crossed \/ (child = "live" => serves = db))

\* The comment at process.go:315 has change detection compare against what is actually running.
\* So when RestartXray finds that there is nothing to do, and nobody is pushing, the core serves
\* what was read.
UnchangedMeansServed ==
    /\ step = "compare" /\ Unchanged /\ child = "live"
    /\ \A r \in Editors : edit[r] = "idle"
    => serves = cfg
=============================================================================
