--------------------------- MODULE SidecarManager ---------------------------
(***************************************************************************)
(* The supervisor of the external cores, internal/sidecar/manager.go with  *)
(* process.go, and who drives it: requests that edit an inbound            *)
(* (web/runtime/local.go), client edits (applyLocalSidecar), the buttons   *)
(* of service/sidecar_cores.go and the pass of web.go every ten seconds.   *)
(*                                                                         *)
(* One CSQTT inbound: inbounds share nothing but the registry lock. A      *)
(* version stands for a state of its row, and for the Instance, the        *)
(* fingerprint and the client list that are made from it.                  *)
(***************************************************************************)
EXTENDS Naturals

CONSTANTS
    Requests,   \* goroutines of requests
    Sync,       \* the goroutine of SyncAll, of which cron runs one at a time
    Entries,    \* *managed objects: one more than Callers and MaxFaults together are enough
    None,       \* nil
    MaxEdits,   \* bound: edits of the row
    MaxFaults   \* bound: launches, stops and hand-offs that fail, children that exit, stops by hand

ASSUME SidecarAssumption ==
    /\ None \notin Entries \union Requests \union {Sync}
    /\ Sync \notin Requests
    /\ MaxEdits \in Nat \ {0} /\ MaxFaults \in Nat

Callers == Requests \union {Sync}
Versions == 0..MaxEdits  \* 0: there is no enabled local row; nothing

VARIABLES
    db,        \* the row of the inbound
    edits,     \* versions given out
    faults,
    entry,     \* procs[id]
    inst,      \* inst[e]: the committed instance
    fp,        \* fp[e]: fingerprint
    deferred,  \* deferred[e]: nextAttempt is in the future
    pushError, \* pushError[e]: the last hand-off gave up
    pushing,   \* pushing[e]: a hand-off is scheduled or under way
    startMu,   \* startMu[e]: who holds it
    child      \* child[e]: what the running child was started with

VARIABLES
    pc,        \* pc[c]: where the goroutine is
    want,      \* want[c]: the instance it was called with
    ent,       \* ent[c]: the entry it works on
    handOffs,  \* handOffs[w]: how many goroutines of pushClients are at w; all that are past
               \* "start" have looked up the entry that is registered
    lied,      \* ghost: lied[e]: a launch has failed and left the old child running
    stuck      \* ghost: stuck[e]: the child has not obeyed a stop yet

HandOffStages == {"start", "try", "call", "landed", "gaveUp", "done"}

rowVars   == <<db, edits>>
entryVars == <<entry, inst, fp, deferred>>
pushFlags == <<pushError, pushing>>
callVars  == <<pc, want, ent>>
vars == <<rowVars, faults, entryVars, pushFlags, startMu, child, callVars, handOffs, lied, stuck>>

Init ==
    /\ db = 1 /\ edits = 1 /\ faults = 0
    /\ entry = None
    /\ inst = [e \in Entries |-> 0] /\ fp = [e \in Entries |-> 0]
    /\ deferred = [e \in Entries |-> FALSE]
    /\ pushError = [e \in Entries |-> FALSE] /\ pushing = [e \in Entries |-> FALSE]
    /\ startMu = [e \in Entries |-> None]
    /\ child = [e \in Entries |-> 0]
    /\ pc = [c \in Callers |-> "idle"] /\ want = [c \in Callers |-> 0]
    /\ ent = [c \in Callers |-> None]
    /\ handOffs = [w \in HandOffStages |-> 0]
    /\ lied = [e \in Entries |-> FALSE] /\ stuck = [e \in Entries |-> FALSE]

Fault == faults < MaxFaults /\ faults' = faults + 1

Goto(c, where) == pc' = [pc EXCEPT ![c] = where]

\* The call returns; what it had deferred unlocks the start lock.
Return(c) ==
    /\ Goto(c, "idle")
    /\ want' = [want EXCEPT ![c] = 0] /\ ent' = [ent EXCEPT ![c] = None]
    /\ startMu' = [e \in Entries |-> IF startMu[e] = c THEN None ELSE startMu[e]]

\* The child of e is gone.
Exit(e) ==
    /\ child' = [child EXCEPT ![e] = 0]
    /\ lied' = [lied EXCEPT ![e] = FALSE] /\ stuck' = [stuck EXCEPT ![e] = FALSE]

-----------------------------------------------------------------------------
(* Who calls                                                               *)

\* A request changes the row. An edit of the inbound goes on with what it has written
\* (AddInbound, DelInbound, updateSidecarInbound), an edit of its clients reads the row
\* again (applyLocalSidecar).
Edit(c, on, clients) ==
    /\ pc[c] = "idle" /\ edits < MaxEdits
    /\ on \/ db # 0
    /\ clients => on /\ db # 0
    /\ edits' = edits + 1
    /\ db' = IF on THEN edits + 1 ELSE 0
    /\ want' = [want EXCEPT ![c] = IF on /\ ~ clients THEN edits + 1 ELSE 0]
    /\ Goto(c, IF clients THEN "apply" ELSE IF on THEN "ensure" ELSE "remove")
    /\ UNCHANGED <<faults, entryVars, pushFlags, startMu, child, ent, handOffs,
                   lied, stuck>>

\* The row is read, by applyLocalSidecar or for SyncAll.
ReadRow(c) ==
    /\ pc[c] = IF c = Sync THEN "idle" ELSE "apply"
    /\ want' = [want EXCEPT ![c] = db]
    /\ Goto(c, IF db # 0 THEN "ensure" ELSE "remove")
    /\ UNCHANGED <<rowVars, faults, entryVars, pushFlags, startMu, child, ent,
                   handOffs, lied, stuck>>

\* CoreService.Stop; StopAll.
CoreStop(c) ==
    /\ pc[c] = "idle" /\ entry # None
    /\ Fault /\ Goto(c, "remove")
    /\ UNCHANGED <<rowVars, entryVars, pushFlags, startMu, child, want, ent,
                   handOffs, lied, stuck>>

-----------------------------------------------------------------------------
(* Ensure, startSerialised                                                 *)

\* The fast path: a live child with an unchanged fingerprint.
Alive_AnyFingerprint(c, e) == child[e] # 0
Alive(c, e) == fp[e] = want[c] /\ child[e] # 0

\* A retry that is not due yet.
NotDue(c, e) == fp[e] = want[c] /\ child[e] = 0 /\ deferred[e]

\* aliveLocked has matched: the instance is refreshed, the back-off reset, a hand-off that
\* gave up tried again; until that is scheduled the start locks are mu.
RetryDue_AfterALaunch(e) == FALSE
RetryDue(e) == pushError[e] /\ ~ pushing[e]

FastPath(c, e, mu) ==
    /\ inst' = [inst EXCEPT ![e] = want[c]] /\ deferred' = [deferred EXCEPT ![e] = FALSE]
    /\ IF RetryDue(e)
       THEN Goto(c, "push") /\ startMu' = mu /\ UNCHANGED <<want, ent>>
       ELSE Return(c)

Ensure(c) ==
    /\ pc[c] = "ensure"
    /\ \/ entry # None /\ Alive(c, entry) /\ FastPath(c, entry, startMu)
       \/ entry # None /\ NotDue(c, entry) /\ Return(c) /\ UNCHANGED <<inst, deferred>>
       \/ /\ entry # None => ~ Alive(c, entry) /\ ~ NotDue(c, entry)
          /\ Goto(c, "entry") /\ UNCHANGED <<inst, deferred, startMu, want, ent>>
    /\ UNCHANGED <<rowVars, faults, entry, fp, pushFlags, child, handOffs,
                   lied, stuck>>

\* An object nobody refers to any more. (There is one: each of the others is in the hands of a
\* caller, or has a child that a failed stop has left.)
Unused(e) ==
    /\ e # entry /\ child[e] = 0
    /\ \A c \in Callers : ent[c] # e

\* entry: what is registered, or a new object. (Which one makes no difference.)
Entry(c) ==
    /\ pc[c] = "entry" /\ Goto(c, "lock")
    /\ IF entry # None
       THEN ent' = [ent EXCEPT ![c] = entry] /\ UNCHANGED <<entry, fp>>
       ELSE LET e == CHOOSE x \in Entries : Unused(x) IN
              /\ \E x \in Entries : Unused(x)
              /\ entry' = e /\ ent' = [ent EXCEPT ![c] = e]
              /\ fp' = [fp EXCEPT ![e] = want[c]]
    /\ UNCHANGED <<rowVars, faults, inst, deferred, pushFlags, startMu, child, want,
                   handOffs, lied, stuck>>

\* A stop has dropped the entry meanwhile.
Vanished_Never(c) == FALSE
Vanished(c) == entry # ent[c]

\* The start lock is taken, and the entry looked at again.
StartFree_Always(e) == TRUE
StartFree(e) == startMu[e] = None

Lock(c) ==
    LET e == ent[c] held == [startMu EXCEPT ![e] = c] IN
    /\ pc[c] = "lock" /\ StartFree(e)
    /\ \/ Vanished(c) /\ Return(c) /\ UNCHANGED <<inst, deferred>>
       \/ ~ Vanished(c) /\ Alive(c, e) /\ FastPath(c, e, held)
       \/ ~ Vanished(c) /\ NotDue(c, e) /\ Return(c) /\ UNCHANGED <<inst, deferred>>
       \/ /\ ~ Vanished(c) /\ ~ Alive(c, e) /\ ~ NotDue(c, e)
          /\ Goto(c, "launch") /\ startMu' = held /\ UNCHANGED <<inst, deferred, want, ent>>
    /\ UNCHANGED <<rowVars, faults, entry, fp, pushFlags, child, handOffs,
                   lied, stuck>>

-----------------------------------------------------------------------------
(* launch, under the start lock                                            *)

\* The binary is missing, may not be made executable, or gets no arguments: nothing has
\* been stopped yet.
Refuse(c) ==
    /\ pc[c] = "launch" /\ Fault /\ Goto(c, "failed")
    /\ UNCHANGED <<rowVars, entryVars, pushFlags, startMu, child, want, ent,
                   handOffs, lied, stuck>>

\* The old child is stopped; whether it really stops is not looked at.
StopOld(c) ==
    LET e == ent[c] IN
    /\ pc[c] = "launch" /\ Goto(c, "spawn")
    /\ \/ Exit(e) /\ UNCHANGED faults
       \/ child[e] # 0 /\ Fault /\ stuck' = [stuck EXCEPT ![e] = TRUE] /\ UNCHANGED <<child, lied>>
    /\ UNCHANGED <<rowVars, entryVars, pushFlags, startMu, want, ent, handOffs>>

\* Prepare, and Start of the new child, which a child that still runs refuses.
Spawn(c) ==
    LET e == ent[c] IN
    /\ pc[c] = "spawn"
    /\ \/ /\ child[e] = 0 /\ child' = [child EXCEPT ![e] = want[c]]
          /\ Goto(c, "commit") /\ UNCHANGED faults
       \/ child[e] = 0 /\ Fault /\ Goto(c, "failed") /\ UNCHANGED child
       \/ child[e] # 0 /\ Goto(c, "failed") /\ UNCHANGED <<child, faults>>
    /\ UNCHANGED <<rowVars, entryVars, pushFlags, startMu, want, ent, handOffs,
                   lied, stuck>>

\* The launch has succeeded.
Commit(c) ==
    LET e == ent[c] IN
    /\ pc[c] = "commit" /\ ~ Vanished(c)
    /\ inst' = [inst EXCEPT ![e] = want[c]] /\ fp' = [fp EXCEPT ![e] = want[c]]
    /\ deferred' = [deferred EXCEPT ![e] = FALSE]
    /\ pushError' = [pushError EXCEPT ![e] = FALSE]
    /\ Goto(c, "push")
    /\ UNCHANGED <<rowVars, faults, entry, pushing, startMu, child, want, ent,
                   handOffs, lied, stuck>>

\* The launch has failed. The fingerprint is that of the new instance all the same.
Failed(c) ==
    LET e == ent[c] IN
    /\ pc[c] = "failed" /\ ~ Vanished(c)
    /\ fp' = [fp EXCEPT ![e] = want[c]] /\ deferred' = [deferred EXCEPT ![e] = TRUE]
    /\ lied' = [lied EXCEPT ![e] = child[e] # 0]
    /\ Return(c)
    /\ UNCHANGED <<rowVars, faults, entry, inst, pushFlags, child, handOffs, stuck>>

\* The entry has vanished during the launch: the caller no longer wants the child.
Abandon(c) ==
    /\ pc[c] \in {"commit", "failed"} /\ Vanished(c)
    /\ Exit(ent[c]) /\ Return(c)
    /\ UNCHANGED <<rowVars, faults, entryVars, pushFlags, handOffs>>

-----------------------------------------------------------------------------
(* Remove                                                                  *)

\* A hand-off of the dropped entry returns at its next look at it, and records nothing. What is
\* left of it changes nothing in this model, so it is over here.
HandOffsEnd == handOffs' = [w \in HandOffStages |-> IF w = "start" THEN handOffs[w] ELSE 0]

\* The entry is dropped first. Nobody reads its fields any more; they are cleared here
\* in place of making a new object.
Remove(c) ==
    /\ pc[c] = "remove"
    /\ IF entry = None THEN Return(c)
       ELSE Goto(c, "drain") /\ ent' = [ent EXCEPT ![c] = entry] /\ UNCHANGED <<startMu, want>>
    /\ entry' = None
    /\ inst' = [e \in Entries |-> IF e = entry THEN 0 ELSE inst[e]]
    /\ fp' = [e \in Entries |-> IF e = entry THEN 0 ELSE fp[e]]
    /\ deferred' = [e \in Entries |-> deferred[e] /\ e # entry]
    /\ pushError' = [e \in Entries |-> pushError[e] /\ e # entry]
    /\ pushing' = [e \in Entries |-> pushing[e] /\ e # entry]
    /\ HandOffsEnd
    /\ UNCHANGED <<rowVars, faults, child, lied, stuck>>

\* Then a start in progress is waited for, and its child stopped.
Drain(c) ==
    /\ pc[c] = "drain" /\ StartFree(ent[c])
    /\ Return(c)
    /\ \/ Exit(ent[c]) /\ UNCHANGED faults
       \/ /\ child[ent[c]] # 0 /\ Fault
          /\ stuck' = [stuck EXCEPT ![ent[c]] = TRUE] /\ UNCHANGED <<child, lied>>
    /\ UNCHANGED <<rowVars, entryVars, pushFlags, handOffs>>

-----------------------------------------------------------------------------
(* The hand-off of the client list                                         *)

\* schedulePush, of the entry that is registered now: a new goroutine begins, whatever others
\* are still at work.
SchedulePush(c) ==
    /\ pc[c] = "push" /\ Return(c)
    /\ IF entry = None \/ pushing[entry] THEN UNCHANGED <<pushing, handOffs>>
       ELSE /\ pushing' = [pushing EXCEPT ![entry] = TRUE]
            /\ handOffs' = [handOffs EXCEPT !["start"] = @ + 1]
    /\ UNCHANGED <<rowVars, faults, entryVars, pushError, child, lied, stuck>>

Goes(from, to) ==
    handOffs[from] > 0 /\ handOffs' = [handOffs EXCEPT ![from] = @ - 1, ![to] = @ + 1]

Ends(from) == handOffs[from] > 0 /\ handOffs' = [handOffs EXCEPT ![from] = @ - 1]

\* What a hand-off leaves alone but the flags.
PushQuiet == UNCHANGED <<rowVars, entryVars, startMu, child, callVars, lied, stuck>>

\* It works on what is registered by now, which may have a hand-off of its own.
PushStart ==
    /\ IF entry = None THEN Ends("start") ELSE Goes("start", "try")
    /\ PushQuiet /\ UNCHANGED <<faults, pushFlags>>

\* An attempt, for a live child; there is nothing to send before the first commit.
PushTry ==
    /\ \/ Goes("try", "call") /\ child[entry] # 0 /\ inst[entry] # 0
       \/ Goes("try", "done") /\ (child[entry] = 0 \/ inst[entry] = 0)
    /\ PushQuiet /\ UNCHANGED <<faults, pushFlags>>

\* SyncClients reaches whichever child is there.
PushLands ==
    /\ Goes("call", "landed") /\ \E e \in Entries : child[e] # 0
    /\ PushQuiet /\ UNCHANGED <<faults, pushFlags>>

\* It fails, and is tried again unless this was the last attempt.
PushFails ==
    /\ \/ Goes("call", "try") /\ UNCHANGED faults
       \/ Goes("call", "gaveUp") /\ Fault
    /\ PushQuiet /\ UNCHANGED pushFlags

PushRecord ==
    /\ \/ Goes("landed", "done") /\ pushError' = [pushError EXCEPT ![entry] = FALSE]
       \/ Goes("gaveUp", "done") /\ pushError' = [pushError EXCEPT ![entry] = TRUE]
    /\ PushQuiet /\ UNCHANGED <<faults, pushing>>

\* The flag is taken down even if another hand-off is under way by now.
PushDone ==
    /\ Ends("done") /\ pushing' = [pushing EXCEPT ![entry] = FALSE]
    /\ PushQuiet /\ UNCHANGED <<faults, pushError>>

-----------------------------------------------------------------------------
(* Children and time                                                       *)

\* A child ends by itself; one that would not stop does so in the end, or never.
ChildExits(e) ==
    /\ child[e] # 0 /\ Exit(e)
    /\ IF stuck[e] THEN UNCHANGED faults ELSE Fault
    /\ UNCHANGED <<rowVars, entryVars, pushFlags, startMu, callVars, handOffs>>

\* nextAttempt has come.
Elapse(e) ==
    /\ deferred[e]
    /\ deferred' = [deferred EXCEPT ![e] = FALSE]
    /\ UNCHANGED <<rowVars, faults, entry, inst, fp, pushFlags, startMu, child,
                   callVars, handOffs, lied, stuck>>

-----------------------------------------------------------------------------
Launch(c) == Refuse(c) \/ StopOld(c) \/ Spawn(c) \/ Commit(c) \/ Failed(c) \/ Abandon(c)
Step(c)   == Ensure(c) \/ Entry(c) \/ Launch(c) \/ Remove(c) \/ SchedulePush(c)
Push == PushStart \/ PushTry \/ PushLands \/ PushFails \/ PushRecord \/ PushDone

Next ==
    \/ \E c \in Requests : CoreStop(c) \/ \E on, clients \in BOOLEAN : Edit(c, on, clients)
    \/ \E c \in Callers : ReadRow(c) \/ Step(c) \/ Lock(c) \/ Drain(c)
    \/ Push
    \/ \E e \in Entries : ChildExits(e) \/ Elapse(e)

Spec == Init /\ [][Next]_vars

\* Goroutines go on, the start lock is fair, a launch is not refused for ever, the
\* pass of cron comes round, an attempt at the admin API of a live child succeeds in
\* the end, and the back-off runs out. Nobody has to edit, stop or call anything else.
Fairness ==
    /\ \A c \in Callers : WF_vars(Step(c)) /\ WF_vars(ReadRow(c)) /\ SF_vars(Lock(c)) /\ SF_vars(Drain(c))
    /\ WF_vars(PushStart) /\ WF_vars(PushTry) /\ WF_vars(PushLands \/ PushFails) /\ SF_vars(PushLands)
    /\ WF_vars(PushRecord) /\ WF_vars(PushDone)
    /\ \A e \in Entries : WF_vars(Elapse(e))

FairSpec == Spec /\ Fairness

-----------------------------------------------------------------------------
(* Properties                                                              *)

Working == {"launch", "spawn", "commit", "failed"}

\* Types; the start lock of an entry is held by a goroutine that works on it, and
\* nobody else launches or commits there.
TypeOK ==
    /\ db \in Versions /\ edits \in 0..MaxEdits /\ faults \in 0..MaxFaults
    /\ entry \in Entries \union {None}
    /\ inst \in [Entries -> Versions] /\ fp \in [Entries -> Versions]
    /\ deferred \in [Entries -> BOOLEAN]
    /\ pushError \in [Entries -> BOOLEAN] /\ pushing \in [Entries -> BOOLEAN]
    /\ startMu \in [Entries -> Callers \union {None}]
    /\ child \in [Entries -> Versions]
    /\ pc \in [Callers -> {"idle", "apply", "ensure", "entry", "lock", "push", "remove", "drain"}
                            \union Working]
    /\ want \in [Callers -> Versions] /\ ent \in [Callers -> Entries \union {None}]
    /\ handOffs \in [HandOffStages -> Nat]
    /\ lied \in [Entries -> BOOLEAN] /\ stuck \in [Entries -> BOOLEAN]
    /\ \A c \in Callers : pc[c] \in Working => startMu[ent[c]] = c

\* A child whose entry has been dropped is about to be stopped: by the Remove that has
\* dropped it, or by the launch that finds its entry gone. (A stop may time out.)
NoStray ==
    \A e \in Entries :
        child[e] # 0 /\ e # entry /\ ~ stuck[e] =>
            \E c \in Callers : ent[c] = e /\ pc[c] \in Working \union {"drain"}

\* What Ensure takes for the configuration of a live child is what the child was
\* started with, unless a launch has failed before it could replace the child.
FingerprintIsTrue ==
    \A e \in Entries :
        e = entry /\ child[e] # 0 /\ startMu[e] = None => fp[e] = child[e] \/ lied[e]

\* Once the edits are over, whatever order requests, client edits and passes came in
\* and whatever failed: exactly the inbound of the row runs, as the row has it; or an old
\* child that a failed launch has left is taken for it.
Converges ==
    <>[](IF db = 0 THEN entry = None
         ELSE entry # None /\ (child[entry] = db \/ lied[entry]))

\* And no hand-off of its clients is given up for good: one that failed is repeated until one
\* has landed, whatever launches, removals and other hand-offs it met, and none is taken to be
\* under way for ever, which would keep all others from being scheduled.
HandOffsRecover == <>[](entry = None \/ (~ pushError[entry] /\ ~ pushing[entry]))
=============================================================================
