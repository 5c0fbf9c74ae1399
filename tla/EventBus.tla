------------------------------ MODULE EventBus ------------------------------
(***************************************************************************)
(* internal/eventbus/bus.go: a buffered channel, one dispatch goroutine,   *)
(* and a queue and a worker for every subscriber. Whoever publishes takes  *)
(* Publish into a step of his own.                                         *)
(*                                                                         *)
(* An event is numbered, for the properties: no is its place among the     *)
(* calls of Publish.                                                       *)
(***************************************************************************)
EXTENDS Naturals, Sequences

CONSTANTS
    Ids,         \* ids of subscribers
    Gens,        \* 1..n: a subscriber that subscribes again is another object
    Watched,     \* the subscriber the properties follow, which stays subscribed
    Slow,        \* ids whose handlers may block for ever
    BufferSize,  \* capacity of the channel
    QueueSize,   \* capacity of a subscriber's queue
    None         \* no event

ASSUME BusAssumption ==
    /\ Watched \in Ids \ Slow
    /\ BufferSize \in Nat \ {0} /\ QueueSize \in Nat \ {0}
    /\ Gens \subseteq Nat /\ 1 \in Gens

Subscribers == Ids \X Gens

VARIABLES
    ch,          \* the channel
    subs,        \* the registered subscribers
    worker,      \* worker[s]: "none" before it starts, "idle", "busy" in the handler, "gone"
    queue,       \* queue[s]
    handling,    \* handling[s]: the event its handler has
    stopped,     \* Subscribe does nothing any more
    done,        \* the channel done is closed
    dispatching, \* the dispatch goroutine lives
    stopping,    \* Stop: "no", "called", "waits" or "returned"
    sent,        \* ghost: calls of Publish
    settled,     \* ghost: the events that Watched has handled, or that were dropped for a full buffer
    left         \* bound: things that may still happen to the panel from outside, of all kinds

busVars == <<ch, subs, worker, queue, handling, stopped, done, dispatching, stopping, sent,
             settled, left>>

Stimulus == left > 0 /\ left' = left - 1

BusInit ==
    /\ ch = <<>> /\ subs = Ids \X {1}
    /\ worker = [s \in Subscribers |-> IF s \in Ids \X {1} THEN "idle" ELSE "none"]
    /\ queue = [s \in Subscribers |-> <<>>]
    /\ handling = [s \in Subscribers |-> None]
    /\ stopped = FALSE /\ done = FALSE /\ dispatching = TRUE /\ stopping = "no"
    /\ sent = 0 /\ settled = {}

\* Publish: with the buffer full the event is dropped.
Publish(kind, about) ==
    LET e == [kind |-> kind, about |-> about, no |-> sent + 1] IN
    /\ sent' = e.no
    /\ IF Len(ch) < BufferSize
       THEN ch' = Append(ch, e) /\ UNCHANGED settled
       ELSE settled' = settled \union {e.no} /\ UNCHANGED ch
    /\ UNCHANGED <<subs, worker, queue, handling, stopped, done, dispatching, stopping>>

\* A queue that takes another event.
HasRoom(s) == Len(queue[s]) < QueueSize

\* Dispatch does not wait for a queue that is full.
MayDispatch_Waits(e) == \A s \in subs : HasRoom(s)
MayDispatch(e) == TRUE

\* An event that found a queue full is put back into the channel, for later.
Dispatch_PutsBack ==
    /\ dispatching /\ ch # <<>>
    /\ ch' = IF \A s \in subs : HasRoom(s) THEN Tail(ch) ELSE Append(Tail(ch), Head(ch))
    /\ queue' = [s \in Subscribers |->
         IF s \in subs /\ HasRoom(s) THEN Append(queue[s], Head(ch)) ELSE queue[s]]
    /\ UNCHANGED <<subs, worker, handling, stopped, done, dispatching, stopping, sent, settled,
                   left>>

\* One turn of dispatch: the event goes to every queue with room, and is lost to the
\* others. (Registration waits: dispatch holds the read lock.)
Dispatch ==
    /\ dispatching /\ ch # <<>> /\ MayDispatch(Head(ch))
    /\ ch' = Tail(ch)
    /\ queue' = [s \in Subscribers |->
         IF s \in subs /\ HasRoom(s) THEN Append(queue[s], Head(ch)) ELSE queue[s]]
    /\ settled' = IF \E s \in subs : s[1] = Watched /\ HasRoom(s) THEN settled
                  ELSE settled \union {Head(ch).no}
    /\ UNCHANGED <<subs, worker, handling, stopped, done, dispatching, stopping, sent, left>>

DispatchEnds ==
    /\ dispatching /\ done
    /\ dispatching' = FALSE
    /\ UNCHANGED <<ch, subs, worker, queue, handling, stopped, done, stopping, sent, settled,
                   left>>

\* What ends a worker: its quit channel is closed, by whoever takes it off the list, or done.
Quit(s) == worker[s] # "none" /\ s \notin subs
MayEnd_OnDoneOnly(s) == done
MayEnd_OnQuitOnly(s) == Quit(s)
MayEnd(s) == Quit(s) \/ done

\* runWorker: what is queued may be taken although quit or done is closed too.
Take(s) ==
    /\ worker[s] = "idle" /\ queue[s] # <<>>
    /\ worker' = [worker EXCEPT ![s] = "busy"]
    /\ handling' = [handling EXCEPT ![s] = Head(queue[s])]
    /\ queue' = [queue EXCEPT ![s] = Tail(queue[s])]
    /\ UNCHANGED <<ch, subs, stopped, done, dispatching, stopping, sent, settled, left>>

\* The handler returns, or panics and is recovered.
HandlerReturns(s) ==
    /\ worker[s] = "busy"
    /\ worker' = [worker EXCEPT ![s] = "idle"]
    /\ handling' = [handling EXCEPT ![s] = None]
    /\ settled' = IF s[1] = Watched THEN settled \union {handling[s].no} ELSE settled
    /\ UNCHANGED <<ch, subs, queue, stopped, done, dispatching, stopping, sent, left>>

\* What is still queued goes with the worker.
WorkerEnds(s) ==
    /\ worker[s] = "idle" /\ MayEnd(s)
    /\ worker' = [worker EXCEPT ![s] = "gone"]
    /\ queue' = [queue EXCEPT ![s] = <<>>]
    /\ UNCHANGED <<ch, subs, handling, stopped, done, dispatching, stopping, sent, settled, left>>

Fresh(s) == worker[s] = "none" /\ \A g \in Gens : g < s[2] => worker[<<s[1], g>>] # "none"

\* Subscribe: an id that is registered is replaced.
Subscribe(s) ==
    /\ Stimulus /\ Fresh(s)
    /\ IF stopped THEN UNCHANGED <<subs, worker>>
       ELSE /\ subs' = {t \in subs : t[1] # s[1]} \union {s}
            /\ worker' = [worker EXCEPT ![s] = "idle"]
    /\ UNCHANGED <<ch, queue, handling, stopped, done, dispatching, stopping, sent, settled>>

\* The list is cut at the subscriber that leaves.
Unsubscribe_CutsTheList(id) ==
    /\ Stimulus /\ \E s \in subs : s[1] = id
    /\ subs' = {}
    /\ UNCHANGED <<ch, worker, queue, handling, stopped, done, dispatching, stopping, sent, settled>>

Unsubscribe(id) ==
    /\ Stimulus /\ \E s \in subs : s[1] = id
    /\ subs' = {t \in subs : t[1] # id}
    /\ UNCHANGED <<ch, worker, queue, handling, stopped, done, dispatching, stopping, sent, settled>>

\* Stop: registration ends, then the goroutines are told, then they are waited for.
StopCalled ==
    /\ stopping = "no" /\ Stimulus
    /\ stopping' = "called" /\ stopped' = TRUE
    /\ UNCHANGED <<ch, subs, worker, queue, handling, done, dispatching, sent, settled>>

StopCloses ==
    /\ stopping = "called"
    /\ stopping' = "waits" /\ done' = TRUE
    /\ UNCHANGED <<ch, subs, worker, queue, handling, stopped, dispatching, sent, settled, left>>

Ended(s) == worker[s] \in {"none", "gone"}

StopReturns ==
    /\ stopping = "waits" /\ ~ dispatching /\ \A s \in Subscribers : Ended(s)
    /\ stopping' = "returned"
    /\ UNCHANGED <<ch, subs, worker, queue, handling, stopped, done, dispatching, sent, settled,
                   left>>

Goroutine(s) == Take(s) \/ WorkerEnds(s)
Registration == (\E s \in Subscribers : s[1] # Watched /\ Subscribe(s))
                  \/ \E id \in Ids \ {Watched} : Unsubscribe(id)

BusNext ==
    \/ Dispatch \/ DispatchEnds \/ StopCloses \/ StopReturns \/ Registration
    \/ \E s \in Subscribers : Goroutine(s) \/ HandlerReturns(s)

-----------------------------------------------------------------------------
BusTypeOK ==
    /\ Len(ch) <= BufferSize /\ subs \subseteq Subscribers
    /\ worker \in [Subscribers -> {"none", "idle", "busy", "gone"}]
    /\ stopped \in BOOLEAN /\ done \in BOOLEAN /\ dispatching \in BOOLEAN
    /\ stopping \in {"no", "called", "waits", "returned"}
    /\ settled \subseteq 1..sent /\ left \in Nat
    /\ \A s \in Subscribers :
         /\ Len(queue[s]) <= QueueSize
         /\ handling[s] # None <=> worker[s] = "busy"
         /\ s \in subs => worker[s] # "none"

\* The comment at bus.go:139: a subscriber observes events in publication order. What its
\* handler has is older than what its queue holds, and that than what the channel holds, each
\* in order: so whatever it is given next is newer than all it was given, although dispatch
\* skips queues that are full and registration comes in between.
Ascending(q) == \A i, j \in DOMAIN q : i < j => q[i].no < q[j].no
Before(q, r) == \A i \in DOMAIN q, j \in DOMAIN r : q[i].no < r[j].no
InHand(s) == IF handling[s] = None THEN <<>> ELSE <<handling[s]>>

InPublicationOrder ==
    /\ Ascending(ch)
    /\ \A s \in Subscribers :
         /\ Ascending(queue[s]) /\ Before(queue[s], ch)
         /\ Before(InHand(s), queue[s]) /\ Before(InHand(s), ch)

\* No published event goes missing on its way to the watched subscriber, whoever else
\* subscribes again, leaves or is slow: it was handled or dropped for a full buffer, or it is
\* still in the channel, in the queue or in the handler. Stop alone drops what is left.
Holds(q, k) == \E i \in DOMAIN q : q[i].no = k
OnItsWay(k) ==
    \/ Holds(ch, k)
    \/ \E s \in Subscribers : s[1] = Watched /\ (Holds(queue[s], k) \/ Holds(InHand(s), k))

NothingGoesMissing == stopped \/ \A k \in 1..sent : k \in settled \/ OnItsWay(k)

\* What is published while the bus runs has reached the handler of the watched subscriber in
\* the end, or was dropped at a buffer that was full: whatever the handlers of the others do,
\* and whoever subscribes again or leaves.
PublishedIsSettled == <>[](settled = 1..sent \/ stopped)

\* A subscriber that was replaced or has left comes to its end, unless its handler never does.
ReplacedWorkersEnd ==
    <>[](\A s \in Subscribers : ~ Quit(s) \/ Ended(s) \/ worker[s] = "busy")

\* Stop returns, unless a handler never does, whoever still publishes or subscribes.
StopEnds == <>[](stopping \in {"no", "returned"} \/ \E s \in Subscribers : worker[s] = "busy")
=============================================================================
