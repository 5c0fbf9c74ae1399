----------------------------- MODULE TuicTraffic -----------------------------
(***************************************************************************)
(* From the byte counters of the TUIC server to the client_traffics rows:  *)
(* internal/tuic/auth.go (counters of registered and retired users),       *)
(* internal/tuic/manager.go (detached servers, pendingTraffic), and        *)
(* internal/web/job/tuic_job.go with tuic_journal.go (the poll that bills  *)
(* them, the journal written at shutdown and replayed after a restart).    *)
(*                                                                         *)
(* Traffic is a set of units, each added once to the counter of one user;  *)
(* a counter, a delta or a map of deltas is the set of units it sums up.   *)
(* One inbound, whose servers follow one another; one client UUID, whose   *)
(* User objects ("registrations") follow one another.                      *)
(***************************************************************************)
EXTENDS Naturals

CONSTANTS
    Units,       \* what is relayed
    Regs,        \* *User objects
    Batches,     \* batch IDs, each the name of one journal file
    None,        \* no registration, no file
    MaxServers,  \* bound: how many servers the inbound gets
    MaxFaults,   \* bound: failing or unacknowledged commits and file operations
    MaxCrashes   \* bound: crashes of the machine

ASSUME TuicAssumption ==
    /\ None \notin Regs \union Batches
    /\ MaxServers \in Nat
    /\ MaxFaults \in Nat /\ MaxCrashes \in Nat

Servers == 1..MaxServers

VARIABLES
    fresh,     \* units not relayed yet
    counter,   \* counter[r]: User.Traffic
    reg,       \* reg[r]: "new", "user" (in ur.users), "retired", "dropped"
    home,      \* home[r]: the server whose registry r is of
    session,   \* registrations with a connection (sessions > 0)
    server,    \* server[s]: where server s is in its life
    managed,   \* the server in Manager.servers; 0: none
    scan,      \* scan[s]: registrations CollectTrafficDeltas has still to visit
    at,        \* at[s]: the one whose counter it has swapped and not yet judged
    got,       \* got[s]: the deltas it has so far
    pending    \* Manager.pendingTraffic

VARIABLES
    phase,     \* "up", "stopping", "flush", "store", "replay", "stopped"
    flushErr,  \* what FlushStoppedTraffic returned
    jobPc,     \* where TuicJob.Run is
    hand,      \* the deltas Run or flushTuicJournal has collected
    batch,     \* batch[b]: the deltas in journal file b
    dir,       \* journal files in the directory
    disk,      \* journal files the directory has on stable storage
    receipts,  \* rows of TuicTrafficReceipt
    todo,      \* the entries replayTuicJournal has still to replay
    settled,   \* the entry it has committed and not yet removed, or None
    billed,    \* billed[u]: times u was added to client_traffics
    faults,    \* faults so far
    crashes,   \* crashes so far
    taken,     \* ghost: units swapped out of a counter in this process
    doubted    \* ghost: units of a poll whose commit was never acknowledged

relayVars   == <<fresh, counter, session>>
registry    == <<reg, home>>
serverVars  == <<server, managed>>
scanVars    == <<scan, at, got, taken>>
journalVars == <<batch, dir, disk>>
replayVars  == <<todo, settled>>
dbVars      == <<receipts, billed, doubted>>
runVars     == <<phase, flushErr, jobPc>>
bounds      == <<faults, crashes>>
vars == <<relayVars, registry, serverVars, scanVars, pending, runVars, hand,
          journalVars, replayVars, dbVars, bounds>>

Init ==
    /\ fresh = Units
    /\ counter = [r \in Regs |-> {}]
    /\ reg = [r \in Regs |-> "new"]
    /\ home = [r \in Regs |-> 0]
    /\ session = {}
    /\ server = [s \in Servers |-> "new"]
    /\ managed = 0
    /\ scan = [s \in Servers |-> {}]
    /\ at = [s \in Servers |-> None]
    /\ got = [s \in Servers |-> {}]
    /\ pending = {}
    /\ phase = "up" /\ flushErr = "none"
    /\ jobPc = "idle" /\ hand = {}
    /\ batch = [b \in Batches |-> {}]
    /\ dir = {} /\ disk = {} /\ receipts = {}
    /\ todo = {} /\ settled = None
    /\ billed = [u \in Units |-> 0]
    /\ faults = 0 /\ crashes = 0
    /\ taken = {} /\ doubted = {}

\* Run collects from the managed server under m.mu; stopAndDrain from a closed
\* one. Either holds the registry's mutex while it does.
Scanning(s) == (s = managed /\ jobPc = "scan") \/ server[s] = "scan"
ManagerFree == jobPc # "scan"

Fault == faults < MaxFaults /\ faults' = faults + 1
NoFault == UNCHANGED faults

-----------------------------------------------------------------------------
(* Relays, connections and the registry of users                           *)

\* The counter.Add of a pipe or of a UDP packet. A relay that has outlived the
\* drain timeout of Server.Close still counts, on a server nobody reads.
Relay(r, u) ==
    /\ r \in session /\ u \in fresh
    /\ fresh' = fresh \ {u}
    /\ counter' = [counter EXCEPT ![r] = @ \union {u}]
    /\ UNCHANGED <<session, registry, serverVars, scanVars, pending, runVars, hand,
                   journalVars, replayVars, dbVars, bounds>>

\* AuthenticateAndRegister, under the registry's read lock.
Connect(r) ==
    /\ reg[r] = "user" /\ r \notin session
    /\ server[home[r]] = "running" /\ ~ Scanning(home[r])
    /\ session' = session \union {r}
    /\ UNCHANGED <<fresh, counter, registry, serverVars, scanVars, pending, runVars,
                   hand, journalVars, replayVars, dbVars, bounds>>

\* The cleanup of handleConn: the relays are waited for, then unregisterConn.
Disconnect(r) ==
    /\ r \in session
    /\ session' = session \ {r}
    /\ UNCHANGED <<fresh, counter, registry, serverVars, scanVars, pending, runVars,
                   hand, journalVars, replayVars, dbVars, bounds>>

\* Ensure and Remove of a request, while the panel serves, or Run's Reconcile: the
\* first one, or the second one once a client has run out of traffic.
MayReconcile == (phase = "up" \/ jobPc \in {"reconcile", "again"}) /\ ManagerFree

\* UpdateUsers: the client gets another identity, disappears or comes back. Its
\* connections are closed afterwards.
SetUsers ==
    /\ MayReconcile
    /\ managed # 0 /\ server[managed] = "running"
    /\ \E new \in {{}} \union {{r} : r \in {q \in Regs : reg[q] = "new"}} :
        /\ reg' = [r \in Regs |->
             CASE r \in new -> "user"
               [] reg[r] = "user" /\ home[r] = managed -> "retired"
               [] OTHER -> reg[r]]
        /\ home' = [r \in Regs |-> IF r \in new THEN managed ELSE home[r]]
    /\ UNCHANGED <<relayVars, serverVars, scanVars, pending, runVars, hand,
                   journalVars, replayVars, dbVars, bounds>>

-----------------------------------------------------------------------------
(* The servers of the manager                                              *)

NextServer(s) == server[s] = "new" /\ \A t \in 1..(s - 1) : server[t] # "new"

\* ensureLocked starts a server; one that has given up is detached in the same step.
StartServer ==
    /\ MayReconcile
    /\ managed # 0 => server[managed] = "broken"
    /\ \E s \in Servers, r \in Regs :
        /\ NextServer(s)
        /\ managed' = s
        /\ server' = [t \in Servers |->
             IF t = s THEN "running" ELSE IF t = managed THEN "closing" ELSE server[t]]
        /\ reg[r] = "new"
        /\ reg' = [reg EXCEPT ![r] = "user"]
        /\ home' = [home EXCEPT ![r] = s]
    /\ UNCHANGED <<relayVars, scanVars, pending, runVars, hand, journalVars,
                   replayVars, dbVars, bounds>>

\* acceptLoop gives up: IsRunning turns false, connections and relays go on.
BreakServer ==
    /\ managed # 0 /\ server[managed] = "running"
    /\ server' = [server EXCEPT ![managed] = "broken"]
    /\ UNCHANGED <<managed, relayVars, registry, scanVars, pending, runVars, hand,
                   journalVars, replayVars, dbVars, bounds>>

\* stopAndDrain(managed) begins.
CloseManaged ==
    /\ server' = [s \in Servers |-> IF s = managed THEN "closing" ELSE server[s]]
    /\ managed' = 0

\* removeLocked, or ensureLocked before it restarts the server.
Detach ==
    /\ MayReconcile
    /\ managed # 0
    /\ CloseManaged
    /\ UNCHANGED <<relayVars, registry, scanVars, pending, runVars, hand, journalVars,
                   replayVars, dbVars, bounds>>

Registered(s) == {r \in Regs : home[r] = s /\ reg[r] \in {"user", "retired"}}

\* Close returns, its relays drained or tuicCloseDrainTimeout over, and
\* CollectClientTraffic begins.
Closed(s) ==
    /\ server[s] = "closing"
    /\ server' = [server EXCEPT ![s] = "scan"]
    /\ scan' = [scan EXCEPT ![s] = Registered(s)]
    /\ UNCHANGED <<managed, at, got, taken, relayVars, registry, pending, runVars, hand,
                   journalVars, replayVars, dbVars, bounds>>

\* CollectTrafficDeltas, first half of collect: the counter is swapped with 0.
Swap(s) ==
    /\ Scanning(s) /\ at[s] = None
    /\ \E r \in scan[s] :
        /\ got' = [got EXCEPT ![s] = @ \union counter[r]]
        /\ taken' = taken \union counter[r]
        /\ counter' = [counter EXCEPT ![r] = {}]
        /\ at' = [at EXCEPT ![s] = r]
        /\ scan' = [scan EXCEPT ![s] = @ \ {r}]
    /\ UNCHANGED <<fresh, session, registry, serverVars, pending, runVars, hand,
                   journalVars, replayVars, dbVars, bounds>>

\* Second half: a retired user without sessions is forgotten.
Judge(s) ==
    /\ Scanning(s) /\ at[s] # None
    /\ reg' = [reg EXCEPT ![at[s]] = IF @ = "retired" /\ at[s] \notin session THEN "dropped" ELSE @]
    /\ at' = [at EXCEPT ![s] = None]
    /\ UNCHANGED <<home, scan, got, taken, relayVars, serverVars, pending, runVars, hand,
                   journalVars, replayVars, dbVars, bounds>>

Scanned(s) == scan[s] = {} /\ at[s] = None

\* The rest of stopAndDrain: appendPendingTrafficLocked.
DrainDone(s) ==
    /\ server[s] = "scan" /\ Scanned(s) /\ ManagerFree
    /\ pending' = pending \union got[s]
    /\ got' = [got EXCEPT ![s] = {}]
    /\ server' = [server EXCEPT ![s] = "closed"]
    /\ UNCHANGED <<managed, scan, at, taken, relayVars, registry, runVars, hand,
                   journalVars, replayVars, dbVars, bounds>>

-----------------------------------------------------------------------------
(* replayTuicJournal, called by Run and by flushTuicJournal                *)

Replaying == jobPc = "replay" \/ phase = "replay"

\* Run goes on after a warning; flushTuicJournal tries again (three times in all;
\* here any number that MaxFaults allows) or reports what it retains.
ReplayFails ==
    /\ settled' = None
    /\ \/ /\ jobPc = "replay"
          /\ jobPc' = "reconcile" /\ todo' = {}
          /\ UNCHANGED <<phase, flushErr>>
       \/ /\ phase = "replay"
          /\ todo' = dir
          /\ UNCHANGED runVars
       \/ /\ phase = "replay"
          /\ phase' = "stopped" /\ flushErr' = "retained" /\ todo' = {}
          /\ UNCHANGED jobPc

\* The transaction of AddTuicTrafficBatch: the receipt, and the traffic unless
\* the receipt was there.
CommitBatch(b) ==
    /\ receipts' = receipts \union {b}
    /\ billed' = [u \in Units |->
         IF u \in batch[b] /\ b \notin receipts THEN billed[u] + 1 ELSE billed[u]]

ReplayCommit_NoReceipt(b) ==
    /\ Replaying /\ settled = None /\ b \in todo
    /\ \/ /\ billed' = [u \in Units |-> IF u \in batch[b] THEN billed[u] + 1 ELSE billed[u]]
          /\ settled' = b /\ NoFault /\ UNCHANGED <<todo, runVars>>
       \/ /\ billed' = [u \in Units |-> IF u \in batch[b] THEN billed[u] + 1 ELSE billed[u]]
          /\ Fault /\ ReplayFails
    /\ UNCHANGED <<receipts, doubted, crashes, relayVars, registry, serverVars, scanVars,
                   pending, hand, journalVars>>

ReplayCommit_ErrorIgnored(b) ==
    /\ Replaying /\ settled = None /\ b \in todo
    /\ \/ CommitBatch(b) /\ NoFault
       \/ UNCHANGED <<receipts, billed>> /\ Fault
    /\ settled' = b /\ UNCHANGED <<todo, runVars>>
    /\ UNCHANGED <<doubted, crashes, relayVars, registry, serverVars, scanVars,
                   pending, hand, journalVars>>

\* It may fail, or commit and not be acknowledged.
ReplayCommit(b) ==
    /\ Replaying /\ settled = None /\ b \in todo
    /\ \/ CommitBatch(b) /\ settled' = b /\ NoFault /\ UNCHANGED <<todo, runVars>>
       \/ CommitBatch(b) /\ Fault /\ ReplayFails
       \/ UNCHANGED <<receipts, billed>> /\ Fault /\ ReplayFails
    /\ UNCHANGED <<doubted, crashes, relayVars, registry, serverVars, scanVars,
                   pending, hand, journalVars>>

\* os.Remove
ReplayRemove ==
    /\ Replaying /\ settled # None /\ settled \in dir
    /\ \/ dir' = dir \ {settled} /\ NoFault /\ UNCHANGED <<replayVars, runVars>>
       \/ UNCHANGED dir /\ Fault /\ ReplayFails
    /\ UNCHANGED <<batch, disk, dbVars, crashes, relayVars, registry, serverVars,
                   scanVars, pending, hand>>

\* syncJournalDir
ReplaySync ==
    /\ Replaying /\ settled # None /\ settled \notin dir
    /\ \/ /\ disk' = dir /\ NoFault
          /\ todo' = todo \ {settled} /\ settled' = None
          /\ UNCHANGED runVars
       \/ UNCHANGED disk /\ Fault /\ ReplayFails
    /\ UNCHANGED <<batch, dir, dbVars, crashes, relayVars, registry, serverVars,
                   scanVars, pending, hand>>

ReplayEnd ==
    /\ todo = {} /\ settled = None
    /\ \/ /\ jobPc = "replay"
          /\ jobPc' = "reconcile"
          /\ UNCHANGED <<phase, flushErr>>
       \/ /\ phase = "replay"
          /\ phase' = "stopped" /\ flushErr' = "ok"
          /\ UNCHANGED jobPc
    /\ UNCHANGED <<replayVars, journalVars, dbVars, bounds, relayVars, registry,
                   serverVars, scanVars, pending, hand>>

-----------------------------------------------------------------------------
(* TuicJob.Run                                                             *)

JobStart_SkipsJournal ==
    /\ phase = "up" /\ jobPc = "idle"
    /\ jobPc' = "replay" /\ todo' = {}
    /\ UNCHANGED <<phase, flushErr, settled, relayVars, registry, serverVars, scanVars,
                   pending, hand, journalVars, dbVars, bounds>>

JobStart ==
    /\ phase = "up" /\ jobPc = "idle"
    /\ jobPc' = "replay" /\ todo' = dir
    /\ UNCHANGED <<phase, flushErr, settled, relayVars, registry, serverVars, scanVars,
                   pending, hand, journalVars, dbVars, bounds>>

\* CollectAllTraffic: the pending deltas, then those of the managed server if it
\* is running. The manager's mutex is held until they are read.
JobCollect ==
    /\ jobPc = "reconcile"
    /\ hand' = pending /\ pending' = {}
    /\ IF managed # 0 /\ server[managed] = "running"
         THEN /\ jobPc' = "scan"
              /\ scan' = [scan EXCEPT ![managed] = Registered(managed)]
         ELSE jobPc' = "submit" /\ UNCHANGED scan
    /\ UNCHANGED <<phase, flushErr, at, got, taken, relayVars, registry, serverVars,
                   journalVars, replayVars, dbVars, bounds>>

\* DesiredTuicInstances fails: Run returns before it collects.
JobAbandon ==
    /\ jobPc = "reconcile" /\ Fault
    /\ jobPc' = "idle"
    /\ UNCHANGED <<phase, flushErr, hand, crashes, relayVars, registry, serverVars,
                   scanVars, pending, journalVars, replayVars, dbVars>>

JobCollected ==
    /\ jobPc = "scan" /\ Scanned(managed)
    /\ hand' = hand \union got[managed]
    /\ got' = [got EXCEPT ![managed] = {}]
    /\ jobPc' = "submit"
    /\ UNCHANGED <<phase, flushErr, scan, at, taken, relayVars, registry, serverVars,
                   pending, journalVars, replayVars, dbVars, bounds>>

Bill(us) == billed' = [u \in Units |-> IF u \in us THEN billed[u] + 1 ELSE billed[u]]

\* AddTraffic: committed; or failed; or committed and reported as failed, which
\* Run cannot tell from a failure.
JobSubmit ==
    /\ jobPc = "submit"
    /\ \/ /\ Bill(hand) /\ hand' = {} /\ NoFault /\ UNCHANGED doubted
          /\ jobPc' \in IF hand = {} THEN {"idle"} ELSE {"idle", "again"}
       \/ /\ hand # {} /\ Fault
          /\ jobPc' = "requeue" /\ UNCHANGED hand
          /\ \/ UNCHANGED <<billed, doubted>>
             \/ Bill(hand) /\ doubted' = doubted \union hand
    /\ UNCHANGED <<phase, flushErr, receipts, crashes, relayVars, registry, serverVars,
                   scanVars, pending, journalVars, replayVars>>

JobEnd ==
    /\ jobPc = "again"
    /\ jobPc' = "idle"
    /\ UNCHANGED <<phase, flushErr, hand, relayVars, registry, serverVars, scanVars,
                   pending, journalVars, replayVars, dbVars, bounds>>

JobRequeue_Forgets ==
    /\ jobPc = "requeue"
    /\ hand' = {} /\ jobPc' = "idle"
    /\ UNCHANGED <<pending, phase, flushErr, relayVars, registry, serverVars, scanVars,
                   journalVars, replayVars, dbVars, bounds>>

\* RequeueClientTraffic
JobRequeue ==
    /\ jobPc = "requeue"
    /\ pending' = pending \union hand
    /\ hand' = {} /\ jobPc' = "idle"
    /\ UNCHANGED <<phase, flushErr, relayVars, registry, serverVars, scanVars,
                   journalVars, replayVars, dbVars, bounds>>

-----------------------------------------------------------------------------
(* Server.stop of the panel, and what follows it                           *)

\* uuid.NewString: an ID no file and no receipt has had.
Unused == {b \in Batches : batch[b] = {}}

\* The HTTP server has been shut down and cron takes no new job.
Stop ==
    /\ phase = "up" /\ Unused # {}
    /\ phase' = "stopping"
    /\ UNCHANGED <<flushErr, jobPc, hand, relayVars, registry, serverVars, scanVars,
                   pending, journalVars, replayVars, dbVars, bounds>>

NoDrain == \A s \in Servers : server[s] \notin {"closing", "scan"}

\* cron's Run has returned, and the requests that were draining a server (they
\* are taken to finish within the ten seconds Shutdown gives them): StopAll.
StopAll ==
    /\ phase = "stopping" /\ jobPc = "idle" /\ NoDrain
    /\ phase' = "flush"
    /\ CloseManaged
    /\ UNCHANGED <<flushErr, jobPc, hand, relayVars, registry, scanVars, pending,
                   journalVars, replayVars, dbVars, bounds>>

FlushCollect_BeforeDrain ==
    /\ phase = "flush"
    /\ hand' = pending /\ pending' = {}
    /\ IF pending = {}
         THEN phase' = "replay" /\ todo' = dir
         ELSE phase' = "store" /\ UNCHANGED todo
    /\ UNCHANGED <<flushErr, jobPc, settled, relayVars, registry, serverVars, scanVars,
                   journalVars, dbVars, bounds>>

\* flushTuicJournal collects; StopAll has returned, no server is left.
FlushCollect ==
    /\ phase = "flush" /\ NoDrain
    /\ hand' = pending /\ pending' = {}
    /\ IF pending = {}
         THEN phase' = "replay" /\ todo' = dir
         ELSE phase' = "store" /\ UNCHANGED todo
    /\ UNCHANGED <<flushErr, jobPc, settled, relayVars, registry, serverVars, scanVars,
                   journalVars, dbVars, bounds>>

\* storeTuicBatch up to os.Rename, which shows the synced file under its name;
\* before it, any step may fail, and the deltas go back to the manager.
FlushStore ==
    /\ phase = "store"
    /\ \/ /\ \E b \in Unused : batch' = [batch EXCEPT ![b] = hand] /\ dir' = dir \union {b}
          /\ hand' = {} /\ phase' = "sync"
          /\ NoFault /\ UNCHANGED <<pending, flushErr>>
       \/ /\ Fault
          /\ pending' = pending \union hand
          /\ hand' = {} /\ phase' = "stopped" /\ flushErr' = "notStored"
          /\ UNCHANGED <<batch, dir>>
    /\ UNCHANGED <<jobPc, disk, crashes, relayVars, registry, serverVars, scanVars,
                   replayVars, dbVars>>

\* Its last line; on an error the file is there and is left to the next start.
FlushSync ==
    /\ phase = "sync"
    /\ \/ disk' = dir /\ phase' = "replay" /\ todo' = dir /\ NoFault /\ UNCHANGED flushErr
       \/ Fault /\ phase' = "stopped" /\ flushErr' = "retained" /\ UNCHANGED <<disk, todo>>
    /\ UNCHANGED <<jobPc, hand, batch, dir, settled, crashes, relayVars, registry,
                   serverVars, scanVars, pending, dbVars>>

\* A new process: everything but the database and the journal is gone.
Reset ==
    /\ counter' = [r \in Regs |-> {}]
    /\ reg' = [r \in Regs |-> IF reg[r] = "new" THEN "new" ELSE "dropped"]
    /\ session' = {}
    /\ server' = [s \in Servers |-> IF server[s] = "new" THEN "new" ELSE "closed"]
    /\ managed' = 0
    /\ scan' = [s \in Servers |-> {}]
    /\ at' = [s \in Servers |-> None]
    /\ got' = [s \in Servers |-> {}]
    /\ pending' = {} /\ hand' = {} /\ taken' = {}
    /\ phase' = "up" /\ flushErr' = "none" /\ jobPc' = "idle"
    /\ todo' = {} /\ settled' = None
    /\ UNCHANGED <<fresh, home, batch, dbVars>>

Restart ==
    /\ phase = "stopped"
    /\ Reset
    /\ UNCHANGED <<dir, disk, bounds>>

\* The machine crashes: a directory entry not yet synced may be there or not.
Crash ==
    /\ crashes < MaxCrashes
    /\ crashes' = crashes + 1
    /\ \E left \in SUBSET ((dir \union disk) \ (dir \intersect disk)) :
        /\ dir' = (dir \intersect disk) \union left
        /\ disk' = dir'
    /\ Reset
    /\ UNCHANGED faults

-----------------------------------------------------------------------------
JobStep == JobStart \/ JobCollect \/ JobAbandon \/ JobCollected \/ JobSubmit \/ JobRequeue \/ JobEnd
ReplayStep == (\E b \in Batches : ReplayCommit(b)) \/ ReplayRemove \/ ReplaySync \/ ReplayEnd
ServerStep(s) == Closed(s) \/ Swap(s) \/ Judge(s) \/ DrainDone(s)
StopStep == StopAll \/ FlushCollect \/ FlushStore \/ FlushSync \/ Restart
UserStep ==
    \/ \E r \in Regs : Connect(r) \/ Disconnect(r) \/ (\E u \in Units : Relay(r, u))
    \/ SetUsers \/ StartServer \/ BreakServer \/ Detach

Next ==
    \/ UserStep \/ JobStep \/ ReplayStep \/ StopStep
    \/ \E s \in Servers : ServerStep(s)
    \/ Stop \/ Crash

Spec == Init /\ [][Next]_vars

(* cron runs the job again and again, loops go on to their next step, and a  *)
(* stopped panel is started again. Nobody has to connect, edit or stop it.   *)
Fairness ==
    /\ WF_vars(JobStep) /\ WF_vars(ReplayStep) /\ WF_vars(StopStep)
    /\ \A s \in Servers : WF_vars(ServerStep(s))

FairSpec == Spec /\ Fairness

-----------------------------------------------------------------------------
(* Properties                                                              *)

TypeOK ==
    /\ fresh \subseteq Units /\ counter \in [Regs -> SUBSET Units]
    /\ reg \in [Regs -> {"new", "user", "retired", "dropped"}]
    /\ home \in [Regs -> 0..MaxServers]
    /\ session \subseteq {r \in Regs : reg[r] # "new"}
    /\ server \in [Servers -> {"new", "running", "broken", "closing", "scan", "closed"}]
    /\ managed \in {0} \union {s \in Servers : server[s] \in {"running", "broken"}}
    /\ scan \in [Servers -> SUBSET Regs] /\ at \in [Servers -> Regs \union {None}]
    /\ got \in [Servers -> SUBSET Units]
    /\ pending \subseteq Units /\ hand \subseteq Units
    /\ phase \in {"up", "stopping", "flush", "store", "sync", "replay", "stopped"}
    /\ flushErr \in {"none", "ok", "retained", "notStored"}
    /\ jobPc \in {"idle", "replay", "reconcile", "scan", "submit", "requeue", "again"}
    /\ batch \in [Batches -> SUBSET Units]
    /\ dir \subseteq Batches /\ disk \subseteq Batches /\ receipts \subseteq Batches
    /\ todo \subseteq Batches /\ settled \in {None} \union todo
    /\ billed \in [Units -> Nat]
    /\ taken \subseteq Units /\ doubted \subseteq Units
    /\ faults \in 0..MaxFaults /\ crashes \in 0..MaxCrashes

Billed == {u \in Units : billed[u] > 0}
Journalled == UNION {batch[b] : b \in dir \ receipts}

\* Traffic is never billed twice: not by a poll after a failed poll, not by a
\* journal replayed after a commit whose answer was lost, after a file that came
\* back because its removal was not synced, or after a crash. The one exception
\* is a poll whose commit was reported as failed: Run has no receipt for it.
BilledAtMostOnce == \A u \in Units : billed[u] <= 1 \/ u \in doubted

\* Once swapped out of a user's counter traffic is billed, or is still on its way
\* in exactly the hands that will bill it, whatever fails in this process.
TakenIsKept ==
    taken \subseteq Billed \union pending \union hand \union Journalled
                      \union UNION {got[s] : s \in Servers}

\* What FlushStoppedTraffic returns is the truth: nil only if all traffic this
\* process has taken is billed and the journal is empty, "retained in durable
\* journal" only if what is not billed is in the journal.
StopAccounts ==
    phase = "stopped" =>
        /\ flushErr = "ok" => taken \subseteq Billed /\ dir = {}
        /\ flushErr = "retained" => taken \subseteq Billed \union Journalled

\* Traffic in a synced journal file is billed in the end, however often replays
\* fail and the machine crashes before.
JournalIsBilled == \A b \in Batches : (b \in disk) ~> (b \in receipts)

\* What the test RetainsRevokedTrafficUntilSessionsFinish says of the registry: the
\* traffic of a revoked user is kept until it has been collected.
RetiredTrafficKept == \A r \in Regs : reg[r] = "dropped" => counter[r] = {}

-----------------------------------------------------------------------------
(* What all of it promises for one unit of traffic                         *)

OnCounters == fresh \union UNION {counter[r] : r \in Regs}
InMemory == pending \union hand \union UNION {got[s] : s \in Servers}
Synced == UNION {batch[b] : b \in (dir \intersect disk) \ receipts}

\* "twice" is no status of the ledger: no step of it leads there.
Status(u) ==
    IF u \in doubted THEN "doubted"
    ELSE IF billed[u] > 1 THEN "twice"
    ELSE IF billed[u] = 1 THEN "billed"
    ELSE IF u \in Synced THEN "safe"
    ELSE IF u \in Journalled THEN "filed"
    ELSE IF u \in InMemory THEN "held"
    ELSE IF u \in OnCounters THEN "free"
    ELSE "lost"

\* FlushStoppedTraffic has returned.
Verdict == IF phase = "stopped" THEN flushErr ELSE "none"

Ledger == INSTANCE TrafficLedger WITH
    status <- [u \in Units |-> Status(u)],
    verdict <- Verdict

\* Polls, drains, the journal with its replays, the final flush, restarts and
\* crashes take a unit of traffic no other way than the ledger allows: traffic read
\* from a counter is billed once, or lost with the memory of the process that had
\* not journalled it, or by a crash before its journal file was durable, and the
\* result of the flush says which of it is left.
ImplementsLedger == Ledger!Spec
=============================================================================
