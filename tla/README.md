# Formal models of the Ex3-ui panel

TLA+ specifications of the concurrent core of this fork of 3x-ui, checked with TLC,
whose safety is proved with TLAPS for instances of any size. Paths are relative to
the repository and start with `src/`.

The panel is a Go web application over one SQL database. It owns an xray-core process,
several sidecar cores and TUIC servers, and it manages *nodes*: other panels, to which it
pushes inbounds and whose counters it reads back. Its correctness is in what happens
between a database transaction and something outside it: a request, a cron job, a node
that answers late or not at all, a process that stops half way.

## 1. Inventory

Every part, modelled or not, is listed in `PROJECT.json` under `components`; hazards are
under `hazards`, each at its line. The parts with behaviour of their own:

| Component | State | Operations | Interacts with | What makes it correct |
|---|---|---|---|---|
| **Serial traffic writer** `internal/web/service/traffic_writer.go` | queue, context, done channel, mutex | `StartTrafficWriter`, `StopTrafficWriter`, `submitTrafficWrite`, the writer goroutine | every service that writes counters, panel start and stop | no accepted write is lost, the answer is the truth, one writer, all calls return |
| **Node config sync** `internal/web/job/node_traffic_sync_job.go`, `service/inbound_node.go`, `service/node.go`, `runtime/remote.go`, `service/client_inbound_apply.go` | inbound rows, node row (`config_dirty`, `config_dirty_at`, `inbounds_adopted_at`, mode, selected tags), fingerprints of a `Remote`, client tombstones; on the node: its inbounds | edits of inbounds and clients with their pushes, `ReconcileNode`, `SetRemoteTraffic`, node saves | cron, requests, the node's API, the traffic writer (merges run on it) | no edit is forgotten or overridden by a snapshot, nothing is dropped or swept that was not meant to be, both sides converge |
| **TUIC accounting** `internal/tuic/auth.go`, `manager.go`, `web/job/tuic_job.go`, `tuic_journal.go`, `service/tuic_traffic_receipt.go` | counters of live and retired users, servers, `pendingTraffic`, journal directory, receipts | relay, authenticate, `SetUsers`, start, detach, drain, poll, requeue, final flush, replay | relays, cron, requests, shutdown, the file system, the traffic writer | traffic is billed once, is not dropped, and shutdown reports the truth |
| **Node traffic** `service/inbound_node.go` (counters), `node_reset_queue.go`, `client_traffic.go`, `inbound_disable.go`, `inbound_traffic_global.go` | the row of a client, baselines per node and email, queued resets, switches on both sides, pushed global usage | merge of counters, the three kinds of reset with their queue and delivery, disabling by quota on both sides, push of global usage | node sync, requests, the node | usage is counted once and in its window; a reset is neither undone nor repeated, and arrives |
| **Sidecar cores** `internal/sidecar/manager.go`, `process.go`, `service/sidecar_cores.go`, `runtime/local.go` | entries with start lock, fingerprint, back-off, push flags, child | `Ensure`, `Remove`, `SyncAll`, launch, hand-off of clients, edits, stops by hand | cron, requests, child processes | no child without an entry, the fingerprint tells the truth, the last row arrives, a failed hand-off is repeated |
| **Event bus** `internal/eventbus/bus.go` | main channel, subscriber queues, quit channels | `Publish`, `Subscribe`, `Unsubscribe`, `Stop`, dispatch, workers | notifiers, jobs | isolation of slow subscribers, replaced workers end, `Stop` returns |
| **Node health** `web/job/node_heartbeat_job.go` | fail streaks, notified flag in memory and in the node row | `Run`, `healthTransitions`, `publishNodeTransitions` | node API, event bus | what was announced is remembered over restarts and is true in the end |
| **Xray lifecycle** `service/xray.go`, `xray/process.go`, `job/check_xray_running_job.go` | process, manual-stop, restart and reconcile flags, back-off | restart, hot apply, stop, watchdog, pushes beside them | cron, requests, event bus | one core, a manual stop stays, a crashed core comes back, edits arrive |
| WebSocket hub `web/websocket/hub.go` | client registry, ordered ops queue, broadcast queue | `Register`, `Unregister`, `Broadcast`, `Run` | browsers, jobs | no self-deadlock, no leaked client |

How they meet: requests commit to the database, mark a node dirty in the same
transaction, and then call a runtime (the local core or a `Remote`). Jobs poll counters
and submit their transactions to the traffic writer. Shutdown (`web.Server.stop`) ends
HTTP, waits for cron, drains the cores, and stops the writer last. The behaviours that
are hard are therefore: state read before a network call and used after it; a commit or
a push that took effect and was reported as failed; shutdown and restart between any
two steps; flags that one actor clears and another sets meanwhile.

## 2. Modules

| Module | Models | Kind |
|---|---|---|
| `AtomicWrites` | what callers of the writer rely on | abstract specification |
| `TrafficWriter` | the traffic writer; implements `AtomicWrites` | component |
| `TrafficWriterProofs` | its invariant, its safety and the refinement, for all constants | proofs |
| `NodeConfigSync` | one node, the edits, pushes, reconcile and merge | composition of the five files named above |
| `NodeConfigSyncProofs` | its invariant and its safety, for all constants | proofs |
| `TrafficLedger` | where each unit of relayed traffic stands for whoever reads the bill | abstract specification |
| `TuicTraffic` | counters, servers, poll, journal, shutdown, crash; implements `TrafficLedger` | composition of the five files named above |
| `TuicTrafficProofs` | its invariant, its safety and the refinement, for all constants | proofs |
| `NodeTraffic` | a client on nodes: counters, baselines, resets, switches | composition of the files named above |
| `NodeTrafficProofs` | its invariant and its safety, for all constants | proofs |
| `SidecarManager` | the supervisor of external cores and who drives it | composition of the files named above |
| `SidecarManagerProofs` | its invariant and its safety, for all constants | proofs |
| `EventBus` | the bus; whoever publishes takes `Publish` into a step of his own | component |
| `NodeHealth` | the heartbeat, a publisher | component, extends `EventBus` |
| `XrayCore` | the life of the local core, a publisher | component, extends `EventBus` |
| `Panel` | the bus with both publishers, shutdown and restart of the panel | composition |
| `XrayCoreProofs`, `NodeHealthProofs` | what the actions of each publisher keep, alone | proofs |
| `PanelProofs` | the invariant of the composition and its safety, for all constants | proofs |
| `MCTrafficWriter`, `MCNodeConfigSync`, `MCTuicTraffic`, `MCNodeTraffic`, `MCSidecarManager`, `MCPanel` | the instances TLC checks | model checking |

`PROJECT.json` maps every definition to its lines. In each module an operator whose name
ends in `Name_Fault` (such as `Exit_WithoutDraining`) stands beside the definition `Name`
and is a plausible mistake in it; no specification uses it. It documents, and lets one
check, which mistake each property would reveal: replace `Name` by it and the property
fails.

### TrafficWriter

`twMu` is the package mutex, generation `g` the `g`-th channel, context and goroutine that
`StartTrafficWriter` makes; `cur` is the package's current one and `cancelled` the contexts
that have been cancelled. A caller's `pc` follows `submitTrafficWrite`: *sending* is the
`select` under the mutex, *waiting* the one on the answer, *inline* the fallback of a
stopped writer. The writer's `select` between its queue and its context is two actions
that may both be enabled; `Exit` is the drain. A submitted function is one atomic write
that commits or fails (an error or a panic). `SubmitTimeout` is the five-second timer,
which may fire whenever the queue is full.

### NodeConfigSync

An inbound is the set of its clients; a fingerprint is the content it was computed from.
`job[a]` is a request between its commit and its push, `sync` the place of `syncOne`, and
the `tick` variables what `syncOne` has read so far: the row, the inbounds, the tags the node
lists, the snapshot. A call to the node is one step that may do nothing, or take effect
and lose its answer (`MaxFaults`). `stale` says which of its readings precede the last edit: the
model's form of comparing `config_dirty_at`. `Restart` and `SaveNode` make a new `Remote`,
whose fingerprints are empty; a restart also forgets tombstones and requests.

### TuicTraffic

Traffic is a set of units; every counter, delta list or file is the set of units it sums up,
so that "billed twice" and "lost" are visible per unit. A registration is one `*User`;
`Swap` and `Judge` are the two halves of `collect` in `CollectTrafficDeltas`, because relays
and sessions do not take the registry's lock. A server is detached in the manager's critical
section and closed, scanned and merged outside it (`Detach`, `Closed`, `Swap`, `Judge`,
`DrainDone`), while another one may already serve. `JobSubmit`, `ReplayCommit`,
`ReplayRemove`, `ReplaySync`, `FlushStore` and `FlushSync` may fail, and commits may take
effect and be reported as failed. `disk` is what the directory holds on stable storage:
a crash keeps it and, of the changes not synced, any subset. Shutdown waits for cron and is
taken to wait for requests too (`StopAll`).

### NodeTraffic

`counter[n]` is the client's usage in the database of node `n`, `row` the sum on the master,
`base[n]` its `NodeClientTraffic`. `tick[n]` follows `syncOne`: *reconcile*, *deliver* (with
the delivery lock, `courier[n]`), *fetch*, *merge*, *globals*, *push*. A reset
(`ResetClient`, `BulkReset`) is one transaction that zeroes the row, deletes baselines and queues
every node; its delivery by the request (`RequestDelivers`) races that of the tick. A
delivery that fails may have been obeyed (`DeliverFails`). `Merge` is the counter half of
`setRemoteTrafficLocked` with its frozen case (`Frozen`), the lifted switch (`Lifted`) and the
adopted settings. Ghosts follow usage ever and since the last reset on both sides.

### SidecarManager

One inbound: inbounds share only the registry lock. A version stands for a state of the row, and
for the instance, fingerprint and client list made from it. An entry is a `*managed` object;
`entry` is what `procs` holds. `pc[c]` follows a caller through `Ensure`, `startSerialised`
(`Lock`), `launch` (`Refuse`, `StopOld`, `Spawn`) and its end (`Commit`, `Failed`, `Abandon`),
or through `Remove` and `Drain`. A hand-off runs in a goroutine of its own (`PushStart` to
`PushDone`), and any number of them at once, as `schedulePush` starts one without waiting for
another: since they have no state but their place, `handOffs` counts them by it. Those that have
looked up an entry that is then dropped return at their next look at it and record nothing, so they
end with it (`HandOffsEnd`); those that have not will find its successor. Children may exit by
themselves, fail to start, or not obey a stop in time.

### EventBus, NodeHealth, XrayCore, Panel

A subscriber is an id and a generation: subscribing again makes a new object with a new worker
while the old one may still be in its handler. Handlers in `Slow` need not return. Of an event
its number is kept, for the properties.

`NodeHealth` follows a run of the heartbeat: `Load`, a `Probe` of each node, `Judge`
(`healthTransitions`, with its saves, any of which may fail), then one `Announce` per event, with
bursts folded as in `publishNodeTransitions`. `health` is the map of the job and dies with the
process; `notified` is the column and does not.

In `XrayCore` a configuration is whether the inbound is in it. `db` is the row, `serves` what
the process really serves, `recorded` the configuration the process object holds: the three part
where the code lets them. `at` and `lock` are callers and the package lock, and `step` the place of
its holder in `RestartXray` or `StopXray`. `edit[r]` and `val[r]` are a request in `SetInboundEnable`
and the value it was called with: its commit, its `DelInbound`, its `AddInbound` and its
`SetToNeedRestart` are each a step, under no lock, so the calls of several requests arrive in any
order and at whichever core is there. The end of a child is three steps: `ChildEnds`, `OnCrash`
(which publishes) and `ChildWaited` (which closes `done`); until the last the process counts as
running. Times (back-off, stop timeouts) may elapse at any moment; they are bounded like other
faults.

`Panel` composes the three: each component's action keeps the others' variables.

## 3. Runs

TLC finishes each passing run within a few minutes on two cores.

| Run | Bounds | Shows |
|---|---|---|
| `writer_service` | 2 callers, 2 controllers, queue 1, 2 generations; 20 736 states | `NoAcceptedWriteLost`, `AnswerIsTheTruth`, `AtMostOneWriter`; the writer implements `AtomicWrites`; `EverySubmitReturns`, `EveryStopReturns` |
| `sync_converges` | 2 tags, 1 client, 1 edit, 2 faults, 1 change on the node, 2 Remotes; 1.3 M states | `NoEditForgotten`, `MergeNeverOverridesAnEdit`, `DroppedOnlyIfDeleted`, `SweepsOnlyManaged`, and, fairly, `Converges` |
| `tuic_billing` | 1 unit, 2 users, 2 servers, 2 files, 2 faults, 1 crash; 1.0 M states | `BilledAtMostOnce`, `TakenIsKept`, `StopAccounts`; TUIC implements `TrafficLedger` (`ImplementsLedger`); fairly, `JournalIsBilled` |
| `node_resets` | 1 node, quota 1, 2 units used, 2 resets, 1 fault; 229 k states | `CountedOnce`, `WindowIsClean`, `FreshResetSurvives`, `LatchIsAboutThisWindow`, and, fairly, `ResetsArrive`, `SwitchesAgree` |
| `sidecar_supervise` | 1 request and the pass of cron, 2 edits, 1 fault, as many hand-offs as begin; 110 k states | `NoStray`, `FingerprintIsTrue`, and, fairly, `Converges`, `HandOffsRecover` |
| `panel_notices` | 2 subscribers, one slow and replaced once, buffers of 1; 2 nodes with 4 events of trouble, or the core with 2 requests, 1 operator and 3 events; 651 k states | `OneCore`, `StopStands`, `DivergenceIsKnown`, `SaidIsRemembered`, `OnlyChangesAreTold`, `InPublicationOrder`, `NothingGoesMissing`, and, fairly, `PublishedIsSettled`, `ReplacedWorkersEnd`, `StopEnds`, `LastNoticeIsTrue`, `CoreRecovers`, `EditsArrive` |
| `writer_concurrent`, `sync_onboarding`, `sync_resurrect`, `sync_vanish`, `tuic_revoked`, `core_unchanged` | the smallest that show it | the disagreements of section 6 |

Every module has a type invariant, and each is proved for all constants (section 4), so only the
run of the writer spends time on one.

Why the bounds are enough. *Writer*: two callers are the one that meets a full queue and
the one that fills it; two generations are a writer that drains while its successor runs;
two controllers are a Start and a Stop at once. *Sync*: two tags are the inbound the node came
with and one created by the panel, so that snapshots and selections may hold either, both
or none; one edit may come before, between or after any of the readings of the tick, and its push
may fail or not be made at all (the safety properties are proved for any number of edits; the
violation runs have two and three); two faults are a lost answer and a failing retry; two Remotes
are one with fingerprints and one without. *TUIC*: no step looks at two units at once, so one unit shows what happens to each; two users are one
retired and its successor; two servers are one draining and one serving; two files are one
that a crash brings back and one newly written. *Node traffic*: nodes meet only in the row,
to which each adds its own part, so one node shows what happens to a counter (the proofs are
for any set of nodes); two resets are one queued while the other is delivered; two units are
one before and one after a reset, and a quota of one lets either switch the client off.
*Sidecar*: two edits are removal and return, or a change and another; four entries
are one for each caller, one whose child has not obeyed a stop and one to register: more are never in
use at once, and hand-offs have no bound of their own. *Panel*: two requests are one that overtakes the
other between its commit and its calls; three things about the core are a failed push, whose restart
fails, while the core crashes, or two requests that cross and a call that fails; four about the nodes are an outage
and a return with a restart of the panel or a switched row in between. Trouble is either with the
nodes or with the core: the two share nothing but the bus, whose properties hold for either.
Deadlock is checked except for `NodeConfigSync`, whose edits and ticks are bounded, and
`Panel`, which may be shut down.

Fairness. *Writer*: weak fairness for goroutines that can run (Go's scheduler) and strong for
taking the mutex in `StopTrafficWriter` (a contended `sync.Mutex` hands over to a starving
waiter); the timer of a submit fires after five seconds, so that a send on a queue that stays full
ends (`SubmitTimeout`); nobody is obliged to submit, start or stop. *Sync*: cron starts a
tick every five seconds and every call has a timeout, so `syncOne` and requests go on;
a tombstone lives ninety seconds. Nothing obliges anyone to edit. *TUIC*: cron runs the job
again and again, loops and drains go on, and a stopped panel is started again
(`JournalIsBilled` is about restarts); nobody has to connect, edit or stop it.
*Node traffic*: cron starts a tick of each node every few seconds; delivery and fetch are strongly
fair while the node lets the client in, because a client over its quota can be lifted, marked
dirty and reconciled again each time, so that a tick may find its node dirty for ever otherwise.
*Sidecar*: goroutines go on, the start lock does not starve (strong fairness of `Lock` and
`Drain`), the pass comes every ten seconds, a back-off runs out, and an attempt at the API of a
live child succeeds in the end. *Panel*: goroutines and requests go on and handlers return unless slow; the jobs run until
shutdown; the package lock does not starve; a child that was told to end ends. Stimuli are bounded, so these
properties have the form "in the end, and from then on".

## 4. Proofs

`TrafficWriterProofs` assumes only `WriterAssumption` of `TrafficWriter` (sizes are positive
naturals, `Free` is no caller) and proves `TypeCorrect`, `NoWriteLost`, `AnswersAreTrue`, `OneWriter`,
`AwaitedIsComing` and `WriterImplementsAtomicWrites`. The properties are not inductive: that an accepted request is
answered depends on where it is. `IInv` adds

- `GenInv`: only the current generation can have a live writer, an exited one has an empty
  queue, and whoever is about to clear the package state looks at an exited writer;
- `SendInv`: a sender holds the mutex, so its generation is current and not cancelled. This is
  what makes the drain complete: after the cancel nobody can add to the queue;
- `PlaceInv`: an unanswered request is in exactly one place, its queue or the writer's hands;
- `AnswerInv`: the outcome a caller will be given is what was committed.

`AwaitedIsComing` (`NobodyWaitsInVain`) is the safety half of why every submit and every stop
returns: a request without an answer is with a writer that still runs, a sender under the mutex sends
to one in its main loop, and whoever waits for a writer to end (`ToldInv`) waits for one that has been
cancelled. That these writers then go on is the fairness of the run.

Every action is shown to keep each part. For the refinement each action maps to an action of
`AtomicWrites` or to a stutter, under the mapping at the end of `TrafficWriter`; `AnswerInv` gives
the mapped `Return` its answer, and `NoAcceptedWriteLost` excludes the path that returns
without one.

`TuicTrafficProofs` assumes only `TuicAssumption` (the bounds are naturals, `None` is neither
user nor file) and proves `TypeCorrect`, `NothingBilledTwice`, `NothingTakenIsLost`,
`FlushTellsTheTruth` and `TuicImplementsLedger`. Its `IInv` adds

- `ControlInv`: poll and final flush never overlap, and deltas are carried only between
  collecting and submitting or storing (else a collect would overwrite them);
- `ServerInv`: after `StopAll` no server is managed or draining, and deltas sit in `got` only
  while a scan lasts;
- `PlaceInv`: a unit is in one place only, and before it reaches a file it is unbilled;
- `BatchInv`: an unwritten file has no receipt, and the units of a file without receipt are
  unbilled: why a receipt committed with the traffic makes replay harmless;
- `FlushInv`: the final flush leaves nothing pending and replays the whole directory.

- `JournalInv`: a file without a receipt is not removed, replays are of files that are there, and a
  panel that has stopped has a verdict.

For the refinement the status of a unit is computed from where it is (`Status`, the best place that
has it). Swapping a counter, storing and syncing a file, a commit, its doubtful answer, the end of the
flush, restart and crash are steps of the ledger; everything else (relaying, drains, requeues,
removals and replays of what is billed already) stutters. `PlaceInv` and `BatchInv` exclude that a
unit is billed from two places, and `JournalInv` that one is safe and later is not.

The proof has one lemma per part, with one step per action that touches its variables and
one frame step for the others.

`NodeTrafficProofs` assumes only `NodeTrafficAssumption` and proves `TypeCorrect`,
`NothingCountedTwice`, `ResetStartsClean`, `QueuedAgainIsDelivered` and
`SwitchedOffForThisWindow`, for any set of nodes. Its `IInv` adds

- `CountInv` and `WindowInv`: what was credited, plus what a reading could still add, is at most
  what was used, ever and in this window (with `slack` for usage between a snapshot and a reset
  that overtakes its merge);
- `QueueInv`: a delivery in progress carries the row it read, and no row is newer than `stamp`;
- `ReadingInv`: what the snapshot of a tick may say about the client's switch, given what was
  reset or delivered since it was taken.

`NodeConfigSyncProofs` assumes only `SyncAssumption` (no set of clients is `Absent`, the bounds are
naturals) and proves `TypeCorrect`, `FlagCoversUnreadEdits`, `EditsOutliveSnapshots`,
`NothingVanishesUnasked` and `OthersAreLeftAlone`, the four action properties of the passing runs of
the sync, and `CleanNodeIsComplete`, for any tags, clients and requests. Each of the four is about one step whose guard reads the flag,
while what it claims is about readings the tick made long before. So its `IInv` ties the two:

- `StampInv`: inbounds read before an edit come with a row read before it, and a snapshot taken
  before an edit finds the node dirty when it is merged;
- `KnownInv`: what the tick may sweep is within what the panel has managed;
- `FreshInv`: unless the node row has changed since, the tick has its mode, selection and inbounds;
- `PushedInv`: what the reconcile has handled without an error is on the node, or was deleted there;
- `KeptInv` and `SnapInv`: hence a node that is not dirty has every inbound of the panel that was not
  deleted on it, and so has its snapshot: the reason why a merge may trust what it misses. The first
  is a result of its own, `CleanNodeHasAll`.

`SidecarManagerProofs` assumes only `SidecarAssumption` and proves `TypeCorrect`,
`NoChildIsForgotten` and `ComparedWithTheTruth`, for any number of requests, hand-offs and entries.
Its `IInv` adds who may be under the start lock (in the type), `EntInv` (who works or drains has an
entry, and hand-offs that have looked one up have the registered one), `SpawnInv` (between spawn and commit the child is the caller's own, or gone) and
`PrintInv` (the fingerprint is that of the child, unless a launch failed or is about to commit).

`PanelProofs` proves `TypeCorrect`, `OneCoreOnly`, `StoppedByHand`, `DivergenceKnown`,
`NoticesRemembered`, `NoticesAreChanges`, `ObservedInOrder` and `NothingMissing` of the composition from `BusAssumption`, `HealthAssumption`, `CoreAssumption` and `PanelAssumption`. The proof
is composed as the specification is: `XrayCoreProofs` shows that the steps of the core keep `CoreInv`
(`StartInv`: a core is started only when the last is gone; `StopInv`: once the operator's stop has the
lock, the next holder returns at once), `NodeHealthProofs` that those of the heartbeat keep `HealthInv`
(`OutboxInv`: an event still to be published says what the row has; `SaidInv` and `KnownInv`: the row
has what was said last, and memory and loaded rows have what the row has), and `PanelProofs` that each
keeps the others' invariants and `BusInv` (`QueueInv`, `WorkerInv`, `NumberInv`, `OrderInv`, `WayInv`), a
step that publishes being also one of the bus. The newer results rest on it as follows.

- `DivergenceKnown` (`DivergenceIsKnown`): a core that serves something else than the row is not
  forgotten, whatever number of requests switch the inbound at once: a call of one of them is on its
  way, a restart is asked for or begun, or the core is about to go. It is the safety half of
  `EditsArrive`, has the same two exceptions (`missed` and `crossed`, section 5), and is inductive with
  `StartInv` and `StopInv`. What a step of a request may change is a lemma of its own
  (`RequestEffects`), which the rest of the proof uses in place of its definition.
- `ObservedInOrder` (`InPublicationOrder`) is the comment at `bus.go:139`, that a subscriber observes
  events in publication order. `OrderInv` says it of the elements of channel, queues and hands rather
  than of positions: an append adds to it only what is newer.
- `NothingMissing` (`NothingGoesMissing`) is the safety half of `PublishedIsSettled`. `WayInv` adds that
  the watched subscriber is registered with the worker of its own registration and no other, and that
  goroutines are told to end only after `Stop` has begun.
- `NoticesAreChanges` (`OnlyChangesAreTold`): what a run of the heartbeat publishes is, for each node,
  a change of what was last said, and said once. It rests on lemmas about the outbox (`SeqsOfSet`,
  `OutboxOfRun`): nodes gone down and nodes come back are disjoint, and the events made of them, or
  the one that stands for a burst, name each node once.

Only model-checked: every liveness property (`EverySubmitReturns`, `EveryStopReturns`, `JournalIsBilled`,
`ResetsArrive`, `SwitchesAgree`, `Converges` of both modules, `HandOffsRecover`, `PublishedIsSettled`,
`ReplacedWorkersEnd`, `StopEnds`, `LastNoticeIsTrue`, `CoreRecovers`, `EditsArrive`): liveness under
fairness is beyond the prover. Of several of them the safety half is proved, as said above: what is waited for is
on its way. The invariants of the proofs were checked with TLC on small instances first.

## 5. Limits

- A poll whose commit is reported as failed is billed again: `AddTraffic` has no receipt.
  `BilledAtMostOnce` excepts exactly those units (`doubted`) and no others.
- `TakenIsKept` begins when a counter has been swapped. What a relay counts after
  `Server.Close` gave up waiting for it is lost, as its comment accepts; what a revoked user
  relays last is finding 5.
- The first `Run` of the TUIC job, which `web.go:363` starts outside cron, and requests that
  outlive the ten seconds of `Shutdown`, are not modelled; shutdown does not wait for either.
- The replay of the final flush tries three times; here as often as `MaxFaults` allows.
- `NodeConfigSync` has one node, and leaves out counters, client lifecycle fields, tag
  prefixes and aliases, disabled inbounds and bulk operations. Two edits within one
  millisecond count as distinct.
- A crash of the machine under the database is not modelled: commits are durable.
- `NodeTraffic` has a client with a quota and neither deadline nor renewal, and one counter
  for up and down. `LatchIsAboutThisWindow` excepts a snapshot that a delivery has overtaken
  (`straddled`): a request delivers a reset between the fetch of a tick and its merge, no row is
  owed any more, and the node's switch of the old window may latch. The comments at
  `node_traffic_sync_job.go:390` and `inbound_node.go:1050` speak of the tick's own order only. The
  resets of all clients also switch on clients an operator has switched off (`BulkReset`).
- `SidecarManager` excepts two states. `lied`: a launch that fails before the old child is
  stopped leaves it running under the fingerprint of the new instance (`manager.go:167`), and the
  fast path then takes it for the new one until the row changes again. `stuck`: a child that does not
  obey a stop. Which client list a core ends up with is not covered, and the code does not promise it: a
  hand-off scheduled while another is under way is dropped, neither queued nor repeated (the comment at
  `manager.go:357` says so), and a list read before an edit may land after it. `HandOffsRecover` says
  only that hand-offs are not given up and not blocked. A stop by hand is undone by the next pass, within
  ten seconds. Routing, logs, files and the collection of traffic are left out; so is that the baselines
  of the counters have moved when the write that uses them fails (`sidecar_job.go:81`).
- `EditsArrive` and `DivergenceIsKnown` except two cases, in both of which the core may keep a
  configuration that is not that of the row until the next switch or restart.
  `crossed`: `SetInboundEnable` (`inbound.go:1887-1976`) takes no lock and pushes the value of its own
  request, so of two that overlap the one that committed first may make the last call: a disable
  commits, an enable commits and makes its calls, and then comes the `DelInbound` of the disable. Every
  call has succeeded, no flag is up, and nothing in the code detects it.
  `missed`: a push does not tell the process object, so an edit pushed and then taken back by an edit
  whose push fails compares as unchanged in the restart it asked for (finding 6); and a push between
  `GetXrayConfig` and the replacement of the core goes to the old one.
  Requests here switch one inbound; those that edit or delete it push in the same way.
- `RestartXray` fails when the core dies by itself before `Stop`: the watchdog brings it back.
  After a stop that timed out, a later crash of that core is not reported; an exit with status 0
  never is. Other callers of `RestartXray`, the staging of TUIC relays and their readiness are
  not modelled, and the back-off is a flag that goes down at any time.
- `SaidIsRemembered` and `LastNoticeIsTrue` except a node whose save failed or whose event was lost
  with the process (`wrong`). Events in the queue of a replaced subscriber, or in memory when the
  panel dies, are lost; the old and the new handler of one id may overlap, so that the comment at
  `bus.go:138` holds per registration. A handler that never returns keeps `Stop` waiting.

Not modelled: notifiers, subscription rendering, HTTP and sessions, migrations, settings, VPN
integrations, link parsers, the frontend. They are I/O, text or tables, without the
interleavings a model checker is for; `PROJECT.json` gives the reason for each.

## 6. Findings

Each is a violation run whose counterexample TLC prints.

1. `writer_concurrent`, `traffic_writer.go:185`: the writer has taken a transaction from its queue
   when `StopTrafficWriter` cancels it; another submitter finds the context cancelled and runs its own
   inline, beside it. The comment at line 118 says they never run concurrently. Reachable at shutdown
   only (the run begins with a writer started).
2. `sync_onboarding`, `node_traffic_sync_job.go:432`: an edit between the sample of
   `config_dirty` and the merge makes the tick skip the import and yet stamp the adoption; the
   next reconcile wipes what the node came with.
3. `sync_vanish`, `remote.go:628`: a reconcile that read older rows overtakes the push of a
   client; the fingerprint is then advanced to a payload the node no longer holds, and the
   merge removes the client.
4. `sync_resurrect`, `inbound_node.go:1277`: a merge records a fingerprint without the
   tombstoned client, which the node still has; if the delete push fails it is never repeated.
5. `tuic_revoked`, `auth.go:132`: the counters of a retired user are swapped before its sessions
   are read; bytes relayed in between, by a session that ends in between, are dropped with
   the user.
6. `core_unchanged`, `xray.go:1656`: an inbound is switched off and pushed, then switched on again and
   its `AddInbound` fails. The request asks for a restart; `ApplyPendingRestart` takes the flag down,
   and `RestartXray` then compares the row with the configuration of before both switches, finds them
   equal and leaves the core without the inbound. The comment at `process.go:315` has change detection
   compare with what is actually running.

## 7. Plan

Done, in this order: `TrafficWriter` with `AtomicWrites`, `NodeConfigSync`, `TuicTraffic`,
`NodeTraffic`, `SidecarManager`, `EventBus` with `NodeHealth`, `XrayCore` and `Panel`, each with its
proofs; then the refinement of `TrafficLedger` and the safety halves of liveness properties (section
4), so that every safety property of the passing runs is a theorem. Next, most important first:

1. Several nodes in `NodeConfigSync`, and the composition of its merge with `NodeTraffic`, which the
   code does in one transaction.
2. Renewals and deadlines in `NodeTraffic` (`client_traffic.go`): a renewal that meets a reset.
3. `WebSocketHub`: the ordered queue of registrations, whose consumer must not send to itself.
4. The traffic baselines of the sidecar cores (`stats.go`), which move before the write that uses them.
