---------------------------- MODULE TrafficWriter ----------------------------
(***************************************************************************)
(* internal/web/service/traffic_writer.go: the goroutine through which     *)
(* every write of the hot client_traffics and inbounds rows is funnelled.  *)
(* Each StartTrafficWriter makes a fresh generation of channels; a caller  *)
(* captures the generation it finds and may outlive it.                    *)
(***************************************************************************)
EXTENDS Naturals, Sequences, FiniteSets

CONSTANTS
    Callers,      \* goroutines that call submitTrafficWrite
    Controllers,  \* goroutines that call StartTrafficWriter and StopTrafficWriter
    Free,         \* "no goroutine holds twMu"
    QueueSize,    \* trafficWriterQueueSize
    MaxGen        \* bound: how many times a writer is spawned

ASSUME WriterAssumption ==
    /\ Free \notin Callers
    /\ QueueSize \in Nat \ {0}
    /\ MaxGen \in Nat

Gens == 1..MaxGen

VARIABLES
    twMu,       \* who holds the mutex between two steps
    cur,        \* the generation twQueue, twCtx, twCancel, twDone refer to; 0: nil
    spawned,    \* generations made so far
    queue,      \* queue[g]: the buffered channel of generation g
    cancelled,  \* generations whose context is cancelled
    writer,     \* writer[g]: where goroutine runTrafficWriter of g is
    held,       \* held[g]: the caller whose request g took off the queue last
    pc,         \* pc[c]: where caller c is
    gen,        \* gen[c]: the generation c captured
    outcome,    \* outcome[c]: what safeApply returned (in req.done, or inline)
    commits,    \* commits[c]: times the write of c's current call took effect
    result,     \* result[c]: what the last submitTrafficWrite of c returned
    ctl,        \* ctl[k]: where controller k is
    ctlGen      \* ctlGen[k]: the twDone captured by k's StopTrafficWriter

lifeVars   == <<cur, spawned, cancelled, ctl, ctlGen>>
callVars   == <<pc, gen, outcome, commits, result>>
writerVars == <<queue, writer, held>>
vars == <<twMu, lifeVars, callVars, writerVars>>

Outcomes == {"ok", "err"}

Init ==
    /\ twMu = Free
    /\ cur = 0
    /\ spawned = 0
    /\ queue = [g \in Gens |-> <<>>]
    /\ cancelled = {}
    /\ writer = [g \in Gens |-> "absent"]
    /\ held = [g \in Gens |-> Free]
    /\ pc = [c \in Callers |-> "idle"]
    /\ gen = [c \in Callers |-> 0]
    /\ outcome = [c \in Callers |-> "none"]
    /\ commits = [c \in Callers |-> 0]
    /\ result = [c \in Callers |-> "none"]
    /\ ctl = [k \in Controllers |-> "idle"]
    /\ ctlGen = [k \in Controllers |-> 0]

-----------------------------------------------------------------------------
(* StartTrafficWriter and StopTrafficWriter                                *)

WriterLive_IgnoresDrain == cur # 0 /\ cur \notin cancelled

\* The early return of StartTrafficWriter: a writer whose done is still open.
WriterLive == cur # 0 /\ writer[cur] # "exited"

\* StartTrafficWriter: one critical section, then go runTrafficWriter.
Start(k) ==
    /\ ctl[k] = "idle"
    /\ twMu = Free
    /\ ~ WriterLive
    /\ spawned < MaxGen
    /\ spawned' = spawned + 1
    /\ cur' = spawned + 1
    /\ writer' = [writer EXCEPT ![spawned + 1] = "select"]
    /\ UNCHANGED <<twMu, cancelled, ctl, ctlGen, callVars, queue, held>>

StopCancel_NoNilCheck(k) ==
    /\ ctl[k] = "idle"
    /\ twMu = Free
    /\ cancelled' = cancelled \union {cur}
    /\ ctl' = [ctl EXCEPT ![k] = "await"]
    /\ ctlGen' = [ctlGen EXCEPT ![k] = cur]
    /\ UNCHANGED <<twMu, cur, spawned, callVars, writerVars>>

\* StopTrafficWriter up to <-done. Cancelling twice has no further effect.
StopCancel(k) ==
    /\ ctl[k] = "idle"
    /\ twMu = Free
    /\ cur # 0
    /\ cancelled' = cancelled \union {cur}
    /\ ctl' = [ctl EXCEPT ![k] = "await"]
    /\ ctlGen' = [ctlGen EXCEPT ![k] = cur]
    /\ UNCHANGED <<twMu, cur, spawned, callVars, writerVars>>

StopAwait(k) ==
    /\ ctl[k] = "await"
    /\ writer[ctlGen[k]] = "exited"
    /\ ctl' = [ctl EXCEPT ![k] = "clear"]
    /\ UNCHANGED <<twMu, cur, spawned, cancelled, ctlGen, callVars, writerVars>>

\* The state is cleared only if no other Stop and Start replaced it meanwhile.
StopClear(k) ==
    /\ ctl[k] = "clear"
    /\ twMu = Free
    /\ cur' = IF cur = ctlGen[k] THEN 0 ELSE cur
    /\ ctl' = [ctl EXCEPT ![k] = "idle"]
    /\ ctlGen' = [ctlGen EXCEPT ![k] = 0]
    /\ UNCHANGED <<twMu, spawned, cancelled, callVars, writerVars>>

-----------------------------------------------------------------------------
(* runTrafficWriter                                                        *)

\* case req := <-queue. Both arms of the select may be ready: Go picks either.
Take(g) ==
    /\ writer[g] \in {"select", "drain"}
    /\ queue[g] # <<>>
    /\ held' = [held EXCEPT ![g] = Head(queue[g])]
    /\ queue' = [queue EXCEPT ![g] = Tail(queue[g])]
    /\ writer' = [writer EXCEPT
            ![g] = IF writer[g] = "select" THEN "apply" ELSE "drainApply"]
    /\ UNCHANGED <<twMu, lifeVars, callVars>>

Apply_PanicUnanswered(g) ==
    /\ writer[g] \in {"apply", "drainApply"}
    /\ \/ /\ outcome' = [outcome EXCEPT ![held[g]] = "ok"]
          /\ commits' = [commits EXCEPT ![held[g]] = @ + 1]
       \/ UNCHANGED <<outcome, commits>>
    /\ writer' = [writer EXCEPT ![g] = IF writer[g] = "apply" THEN "select" ELSE "drain"]
    /\ held' = [held EXCEPT ![g] = Free]
    /\ UNCHANGED <<twMu, lifeVars, queue, pc, gen, result>>

\* req.done <- safeApply(req.apply): the transaction commits, fails or panics.
Apply(g) ==
    /\ writer[g] \in {"apply", "drainApply"}
    /\ \E o \in Outcomes :
        /\ outcome' = [outcome EXCEPT ![held[g]] = o]
        /\ commits' = [commits EXCEPT ![held[g]] = IF o = "ok" THEN @ + 1 ELSE @]
    /\ writer' = [writer EXCEPT ![g] = IF writer[g] = "apply" THEN "select" ELSE "drain"]
    /\ held' = [held EXCEPT ![g] = Free]
    /\ UNCHANGED <<twMu, lifeVars, queue, pc, gen, result>>

\* case <-ctx.Done()
SeeCancel(g) ==
    /\ writer[g] = "select"
    /\ g \in cancelled
    /\ writer' = [writer EXCEPT ![g] = "drain"]
    /\ UNCHANGED <<twMu, lifeVars, callVars, queue, held>>

Exit_WithoutDraining(g) ==
    /\ writer[g] = "drain"
    /\ writer' = [writer EXCEPT ![g] = "exited"]
    /\ UNCHANGED <<twMu, lifeVars, callVars, queue, held>>

\* default: the queue is drained; return closes done.
Exit(g) ==
    /\ writer[g] = "drain"
    /\ queue[g] = <<>>
    /\ writer' = [writer EXCEPT ![g] = "exited"]
    /\ UNCHANGED <<twMu, lifeVars, callVars, queue, held>>

-----------------------------------------------------------------------------
(* submitTrafficWrite                                                      *)

NewCall(c) ==
    /\ pc[c] = "idle"
    /\ twMu = Free
    /\ outcome' = [outcome EXCEPT ![c] = "none"]
    /\ commits' = [commits EXCEPT ![c] = 0]
    /\ result' = [result EXCEPT ![c] = "none"]

\* A live writer: the mutex stays held until the request is queued or refused.
BeginQueued(c) ==
    /\ NewCall(c)
    /\ cur # 0 /\ cur \notin cancelled
    /\ twMu' = c
    /\ pc' = [pc EXCEPT ![c] = "sending"]
    /\ gen' = [gen EXCEPT ![c] = cur]
    /\ UNCHANGED <<lifeVars, writerVars>>

\* No writer, or one being stopped: the write runs on the caller's goroutine.
BeginInline(c) ==
    /\ NewCall(c)
    /\ cur = 0 \/ cur \in cancelled
    /\ pc' = [pc EXCEPT ![c] = "inline"]
    /\ UNCHANGED <<twMu, gen, lifeVars, writerVars>>

Enqueue(c) ==
    /\ pc[c] = "sending"
    /\ Len(queue[gen[c]]) < QueueSize
    /\ queue' = [queue EXCEPT ![gen[c]] = Append(@, c)]
    /\ pc' = [pc EXCEPT ![c] = "waiting"]
    /\ twMu' = Free
    /\ UNCHANGED <<lifeVars, gen, outcome, commits, result, writer, held>>

SubmitTimeout_KeepsMutex(c) ==
    /\ pc[c] = "sending"
    /\ Len(queue[gen[c]]) >= QueueSize
    /\ result' = [result EXCEPT ![c] = "queueFull"]
    /\ pc' = [pc EXCEPT ![c] = "returned"]
    /\ UNCHANGED <<twMu, lifeVars, gen, outcome, commits, writerVars>>

\* The timer fires on a send that is still blocked. A receive that makes room
\* completes the blocked send, so the queue is full whenever this happens.
SubmitTimeout(c) ==
    /\ pc[c] = "sending"
    /\ Len(queue[gen[c]]) >= QueueSize
    /\ result' = [result EXCEPT ![c] = "queueFull"]
    /\ pc' = [pc EXCEPT ![c] = "returned"]
    /\ twMu' = Free
    /\ UNCHANGED <<lifeVars, gen, outcome, commits, writerVars>>

RunInline(c) ==
    /\ pc[c] = "inline"
    /\ \E o \in Outcomes :
        /\ outcome' = [outcome EXCEPT ![c] = o]
        /\ commits' = [commits EXCEPT ![c] = IF o = "ok" THEN @ + 1 ELSE @]
    /\ pc' = [pc EXCEPT ![c] = "inlineDone"]
    /\ UNCHANGED <<twMu, gen, result, lifeVars, writerVars>>

ReturnOutcome(c) ==
    /\ result' = [result EXCEPT ![c] = outcome[c]]
    /\ pc' = [pc EXCEPT ![c] = "returned"]
    /\ UNCHANGED <<twMu, gen, outcome, commits, lifeVars, writerVars>>

ReturnInline(c) == pc[c] = "inlineDone" /\ ReturnOutcome(c)

\* case err := <-req.done
ReceiveAnswer(c) ==
    /\ pc[c] = "waiting"
    /\ outcome[c] # "none"
    /\ ReturnOutcome(c)

SeeWriterDone_OnCancel(c) ==
    /\ pc[c] = "waiting"
    /\ gen[c] \in cancelled
    /\ result' = [result EXCEPT ![c] = IF outcome[c] = "none" THEN "stopped" ELSE outcome[c]]
    /\ pc' = [pc EXCEPT ![c] = "returned"]
    /\ UNCHANGED <<twMu, gen, outcome, commits, lifeVars, writerVars>>

\* case <-done: the writer is gone. Its answer may have been sent before, so
\* req.done is looked at once more.
SeeWriterDone(c) ==
    /\ pc[c] = "waiting"
    /\ writer[gen[c]] = "exited"
    /\ result' = [result EXCEPT ![c] = IF outcome[c] = "none" THEN "stopped" ELSE outcome[c]]
    /\ pc' = [pc EXCEPT ![c] = "returned"]
    /\ UNCHANGED <<twMu, gen, outcome, commits, lifeVars, writerVars>>

Finish(c) ==
    /\ pc[c] = "returned"
    /\ pc' = [pc EXCEPT ![c] = "idle"]
    /\ gen' = [gen EXCEPT ![c] = 0]
    /\ UNCHANGED <<twMu, outcome, commits, result, lifeVars, writerVars>>

-----------------------------------------------------------------------------
CallerStep(c) ==
    \/ BeginQueued(c) \/ BeginInline(c)
    \/ Enqueue(c) \/ SubmitTimeout(c)
    \/ RunInline(c) \/ ReturnInline(c)
    \/ ReceiveAnswer(c) \/ SeeWriterDone(c)
    \/ Finish(c)

WriterStep(g) == Take(g) \/ Apply(g) \/ SeeCancel(g) \/ Exit(g)

ControllerStep(k) == Start(k) \/ StopCancel(k) \/ StopAwait(k) \/ StopClear(k)

Next ==
    \/ \E c \in Callers : CallerStep(c)
    \/ \E g \in Gens : WriterStep(g)
    \/ \E k \in Controllers : ControllerStep(k)

Spec == Init /\ [][Next]_vars

(* Goroutines that can run do run, and a Go mutex that keeps being released *)
(* is eventually granted (sync.Mutex starvation mode). The timer of a       *)
(* blocked send fires. Nothing forces a caller to submit, or a controller   *)
(* to start or stop.                                                        *)
Fairness ==
    /\ \A c \in Callers :
        /\ WF_vars(Enqueue(c))
        /\ WF_vars(SubmitTimeout(c))
        /\ WF_vars(RunInline(c) \/ ReturnInline(c))
        /\ WF_vars(ReceiveAnswer(c) \/ SeeWriterDone(c))
        /\ WF_vars(Finish(c))
    /\ \A g \in Gens :
        /\ WF_vars(Take(g) \/ Apply(g))
        /\ WF_vars(Exit(g))
        /\ WF_vars(SeeCancel(g))
    /\ \A k \in Controllers :
        /\ WF_vars(StopAwait(k))
        /\ SF_vars(StopClear(k))

FairSpec == Spec /\ Fairness

-----------------------------------------------------------------------------
(* Properties                                                              *)

WriterPcs == {"absent", "select", "apply", "drain", "drainApply", "exited"}
CallerPcs == {"idle", "sending", "waiting", "inline", "inlineDone", "returned"}

TypeOK ==
    /\ twMu \in Callers \union {Free}
    /\ spawned \in 0..MaxGen
    /\ cur \in 0..spawned
    /\ queue \in [Gens -> Seq(Callers)]
    /\ cancelled \subseteq Gens
    /\ writer \in [Gens -> WriterPcs]
    /\ held \in [Gens -> Callers \union {Free}]
    /\ pc \in [Callers -> CallerPcs]
    /\ gen \in [Callers -> 0..MaxGen]
    /\ outcome \in [Callers -> Outcomes \union {"none"}]
    /\ commits \in [Callers -> Nat]
    /\ result \in [Callers -> Outcomes \union {"none", "queueFull", "stopped"}]
    /\ ctl \in [Controllers -> {"idle", "await", "clear"}]
    /\ ctlGen \in [Controllers -> 0..MaxGen]

\* submitTrafficWrite never reaches its last line, the error "traffic writer
\* stopped before write completed": a request accepted before Stop's cancel is
\* still in the channel when the writer drains it, and none is accepted after.
NoAcceptedWriteLost == \A c \in Callers : result[c] # "stopped"

\* The value submitTrafficWrite returns is the truth about the database: nil if
\* and only if the write committed, exactly once, before the return; any error
\* means that it has not committed, and since the caller may now retry it, that
\* it never will (the caller starts its next call in this state).
AnswerIsTheTruth ==
    \A c \in Callers :
        /\ commits[c] <= 1
        /\ pc[c] = "returned" => (result[c] = "ok" <=> commits[c] = 1)
        /\ pc[c] = "returned" =>
            \A g \in Gens : held[g] # c /\ c \notin {queue[g][i] : i \in 1..Len(queue[g])}

\* However Starts and Stops interleave, at most one writer goroutine is alive:
\* two consumers would run transactions side by side, the lock-order deadlock
\* that runSerializedTx exists to rule out.
AtMostOneWriter ==
    \A g, h \in Gens :
        /\ writer[g] \notin {"absent", "exited"}
        /\ writer[h] \notin {"absent", "exited"}
        => g = h

\* What runSerializedTx's comment says: a serialized transaction "can never
\* execute concurrently with the @every 5s traffic poll", because both run on the
\* writer. Here: no write runs on its caller's goroutine while a writer is inside
\* another one.
NeverConcurrent ==
    \A c \in Callers, g \in Gens :
        ~ (pc[c] = "inline" /\ writer[g] \in {"apply", "drainApply"})

\* A submitted write is always answered: also when the queue is full, when a
\* Stop cancels the writer under it, and when a Start replaces the writer (the
\* deadlock of the sync.Once version that StartTrafficWriter's comment recalls).
EverySubmitReturns ==
    \A c \in Callers : (pc[c] \in {"sending", "waiting", "inline"}) ~> (pc[c] = "returned")

\* Nobody waits for what cannot come any more. A request without an answer is in the hands of
\* a writer, or in a queue that one serves; whoever holds the mutex sends to a writer that is
\* in its main loop, so that the blocked send gets its room; and whoever waits for the end of
\* a writer waits for one that was told to end.
NobodyWaitsInVain ==
    /\ \A c \in Callers : pc[c] = "waiting" /\ outcome[c] = "none" =>
         \/ held[gen[c]] = c /\ writer[gen[c]] \in {"apply", "drainApply"}
         \/ /\ writer[gen[c]] \in {"select", "apply", "drain", "drainApply"}
            /\ \E i \in DOMAIN queue[gen[c]] : queue[gen[c]][i] = c
    /\ twMu # Free =>
         pc[twMu] = "sending" /\ gen[twMu] = cur /\ writer[cur] \in {"select", "apply"}
    /\ \A k \in Controllers : ctl[k] = "await" =>
         ctlGen[k] \in cancelled /\ writer[ctlGen[k]] # "absent"

\* StopTrafficWriter returns although callers keep submitting.
EveryStopReturns == \A k \in Controllers : (ctl[k] = "await") ~> (ctl[k] = "idle")

-----------------------------------------------------------------------------
(* The writer implements the queueless specification of its callers.       *)

AbstractPhase ==
    [c \in Callers |->
        CASE pc[c] = "idle"     -> "idle"
          [] pc[c] = "returned" -> "returned"
          [] OTHER -> IF outcome[c] = "none" THEN "open" ELSE "settled"]

AbstractAnswer ==
    [c \in Callers |->
        IF result[c] \in {"queueFull", "stopped"} THEN "err" ELSE result[c]]

Abstract == INSTANCE AtomicWrites WITH
    phase  <- AbstractPhase,
    effect <- commits,
    answer <- AbstractAnswer

\* Queue, drain, inline fallback and timeouts together look to every caller like
\* one atomic attempt of its write.
ImplementsAtomicWrites == Abstract!Spec
=============================================================================
