--------------------------- MODULE NodeConfigSync ---------------------------
(***************************************************************************)
(* How the panel keeps one remote node's inbounds equal to its own rows:   *)
(* edits commit centrally and flag the node dirty, some are also pushed    *)
(* live, and every tick of NodeTrafficSyncJob.syncOne reconciles a dirty   *)
(* node and merges the node's snapshot back.                               *)
(* An inbound is the set of clients its settings list. An inbound's other  *)
(* fields, disabled inbounds, tag prefixes and adopted aliases are left    *)
(* out.                                                                    *)
(***************************************************************************)
EXTENDS Naturals, FiniteSets, TLC

CONSTANTS
    Tags,          \* tags an inbound may have on the panel and on the node
    Clients,       \* emails of clients
    Admins,        \* panel requests that may run at the same time
    Absent,        \* "no inbound with this tag"; "no fingerprint recorded"
    StartOnNode,   \* the inbounds the node already serves when it is added
    MaxEdits,      \* bound: edits of the panel
    MaxFaults,     \* bound: calls to the node that fail or whose answer is lost
    MaxNodeEdits,  \* bound: changes the node's own operator makes
    MaxGen         \* bound: Remotes made for the node (node saves, restarts)

Contents == SUBSET Clients

ASSUME SyncAssumption ==
    /\ \A C \in Contents : C # Absent
    /\ StartOnNode \subseteq Tags
    /\ MaxEdits \in Nat /\ MaxFaults \in Nat /\ MaxNodeEdits \in Nat
    /\ MaxGen \in Nat \ {0}

Inbounds == [Tags -> {Absent} \union Contents]
NoInbound == [t \in Tags |-> Absent]
NoRow == [dirty |-> FALSE, adopted |-> FALSE, mode |-> "all", sel |-> {}]
NoJob == [op |-> "none"]

VARIABLES
    central,   \* the panel's inbound rows of this node
    remote,    \* the node's own inbounds
    fp,        \* fp[g]: Remote.pushedFP of the g-th Remote made for the node
    gen,       \* the Remote the runtime manager holds now
    dirty,     \* nodes.config_dirty
    stale,     \* what this tick read before the last stamp of config_dirty_at:
               \* the node row, the inbounds, the snapshot
    adopted,   \* nodes.inbounds_adopted_at # 0
    mode,      \* nodes.inbound_sync_mode
    sel,       \* nodes.inbound_tags
    tombs,     \* recentlyDeleted: emails whose delete tombstone is live
    job,       \* job[a]: what admin a's request is doing
    sync,      \* where syncOne is
    row,       \* the node row this tick works with
    rt,        \* the Remote this tick works with
    rows,      \* the inbounds ReconcileNode read
    listed,    \* the tags the node reported to ReconcileNode
    todo,      \* tags this phase of ReconcileNode still has to handle
    sent,      \* the tag whose push the node applied but has not answered
    failed,    \* ReconcileNode has collected an error
    snap,      \* the filtered snapshot
    sampled,   \* the dirty flag syncOne passes to SetRemoteTraffic
    news,      \* the payloads a merge adopted, to be recorded after its commit
    degraded,  \* inbounds the snapshot lists without any client
    faults,    \* calls that failed so far
    nodeEdits, \* changes of the node's operator so far
    edits,     \* edits of the panel so far
    (* history, read by properties only *)
    known,       \* tags the panel ever managed
    imported,    \* tags the panel ever had an inbound for
    deletedOn,   \* tags removed on the node, by its operator or by DelInbound, since
                 \* reconcile last pushed them
    panelEdit    \* <<t, x>> :> "add"/"del", the panel's last edit of x in t

nodeRow == <<dirty, stale, adopted, mode, sel>>
tick    == <<row, rt, rows, listed, todo, sent, failed, snap, sampled, news,
             degraded>>
counts  == <<faults, nodeEdits, edits>>
history == <<known, imported, deletedOn, panelEdit>>
vars == <<central, remote, fp, gen, nodeRow, tombs, job, sync, tick, counts, history>>

Managed(t, m, s) == m = "all" \/ t \in s

Init ==
    /\ central = NoInbound
    /\ remote \in [Tags -> {Absent} \union Contents]
    /\ \A t \in Tags : remote[t] # Absent <=> t \in StartOnNode
    /\ fp = [g \in 1..MaxGen |-> NoInbound]
    /\ gen = 1
    /\ dirty = FALSE
    /\ stale = {}
    /\ adopted = FALSE
    /\ mode \in {"all", "selected"}
    /\ sel \in IF mode = "all" THEN {{}} ELSE SUBSET Tags
    /\ tombs = {}
    /\ job = [a \in Admins |-> NoJob]
    /\ sync = "idle"
    /\ row = NoRow
    /\ rt = 1
    /\ rows = NoInbound
    /\ listed = {}
    /\ todo = {}
    /\ sent = {}
    /\ failed = FALSE
    /\ snap = NoInbound
    /\ sampled = FALSE
    /\ news = NoInbound
    /\ degraded = {}
    /\ faults = 0
    /\ nodeEdits = 0
    /\ edits = 0
    /\ known = IF mode = "all" THEN Tags ELSE sel
    /\ imported = {}
    /\ deletedOn = {}
    /\ panelEdit = [p \in Tags \X Clients |-> "none"]

-----------------------------------------------------------------------------
(* Edits on the panel                                                      *)

\* MarkNodeDirtyTx, inside the transaction of the edit it covers.
Stamp ==
    /\ dirty' = TRUE
    /\ stale' = {"row", "rows", "snapshot"}

\* EnsureInboundTagAllowedTx
AllowTag(t) == sel' = IF mode = "selected" THEN sel \union {t} ELSE sel

Idle(a) == job[a] = NoJob

\* lockInbound(t): the client operations on t hold it to their end.
Locked(t) == \E a \in Admins : job[a].op \in {"add", "del"} /\ job[a].tag = t

\* AddInbound and UpdateInbound commit and leave the delivery to reconcile.
SaveInbound(a, t) ==
    /\ Idle(a)
    /\ edits < MaxEdits
    /\ edits' = edits + 1
    /\ central' = [central EXCEPT ![t] = IF @ = Absent THEN {} ELSE @]
    /\ AllowTag(t)
    /\ Stamp
    /\ known' = known \union {t}
    /\ imported' = imported \union {t}
    /\ UNCHANGED <<remote, fp, gen, adopted, mode, tombs, job, sync, tick, faults, nodeEdits,
                   deletedOn, panelEdit>>

\* delInbound: the row goes first, DelInbound pushes afterwards without a lock.
\* push: nodePushPlan found the node enabled and not offline.
DelInbound(a, t) ==
    /\ Idle(a)
    /\ edits < MaxEdits
    /\ edits' = edits + 1
    /\ central[t] # Absent
    /\ central' = [central EXCEPT ![t] = Absent]
    /\ Stamp
    /\ \E push \in BOOLEAN :
        job' = [job EXCEPT ![a] =
            IF push THEN [op |-> "delInbound", tag |-> t, rt |-> gen] ELSE NoJob]
    /\ UNCHANGED <<remote, fp, gen, adopted, mode, sel, tombs, sync, tick, faults, nodeEdits, history>>

\* AddInboundClient and DelInboundClientByEmail up to the transaction. A full
\* delete of the client tombstones its email before anything else.
ClientBegin(a, t, x) ==
    /\ Idle(a)
    /\ ~ Locked(t)
    /\ edits < MaxEdits
    /\ edits' = edits + 1
    /\ central[t] # Absent
    /\ \E op \in {"add", "del"}, push \in BOOLEAN :
        /\ x \in central[t] <=> op = "del"
        /\ job' = [job EXCEPT ![a] =
                [op |-> op, at |-> "commit", tag |-> t, client |-> x,
                 prev |-> central[t], push |-> push, rt |-> gen]]
        /\ tombs' \in IF op = "del" THEN {tombs, tombs \union {x}} ELSE {tombs}
    /\ UNCHANGED <<central, remote, fp, gen, nodeRow, sync, tick, faults, nodeEdits, history>>

\* The edit of job j applied to the client list C.
Edited(j, C) == IF j.op = "add" THEN C \union {j.client} ELSE C \ {j.client}

\* The serialized transaction: commitInboundClientSettings rebases the edit on
\* what the row holds by now; a client it creates loses its tombstone.
ClientCommit(a) ==
    LET j == job[a] IN
    /\ j.op \in {"add", "del"}
    /\ j.at = "commit"
    /\ central' = [central EXCEPT ![j.tag] = IF @ = Absent THEN @ ELSE Edited(j, @)]
    /\ Stamp
    /\ tombs' = IF j.op = "add" THEN tombs \ {j.client} ELSE tombs
    /\ job' = [job EXCEPT ![a] = IF j.push THEN [j EXCEPT !.at = "push"] ELSE NoJob]
    /\ panelEdit' = [panelEdit EXCEPT ![<<j.tag, j.client>>] = j.op]
    /\ UNCHANGED <<remote, fp, gen, adopted, mode, sel, sync, tick, counts, known, imported,
                   deletedOn>>

\* Outcomes of a call to the node: done and answered, done with the answer lost
\* (a timeout), not done.
Fault == faults < MaxFaults /\ faults' = faults + 1

\* Remote.AddClient, DeleteUser: one client, within nodePushContext.
ClientPush(a) ==
    LET j == job[a] IN
    /\ j.op \in {"add", "del"}
    /\ j.at = "push"
    /\ \/ /\ remote[j.tag] # Absent
          /\ remote' = [remote EXCEPT ![j.tag] = Edited(j, @)]
          /\ \/ faults' = faults /\ job' = [job EXCEPT ![a].at = "advance"]
             \/ Fault /\ job' = [job EXCEPT ![a] = NoJob]
       \/ /\ IF remote[j.tag] = Absent THEN faults' = faults ELSE Fault
          /\ job' = [job EXCEPT ![a] = NoJob]
          /\ remote' = remote
    /\ UNCHANGED <<central, fp, gen, nodeRow, tombs, sync, tick, nodeEdits, edits, history>>

\* AdvancePushedInbound: the recorded payload was the one before the edit.
Advance(a) ==
    LET j == job[a] IN
    /\ j.op \in {"add", "del"}
    /\ j.at = "advance"
    /\ fp' = [fp EXCEPT ![j.rt][j.tag] = IF @ = j.prev THEN Edited(j, @) ELSE @]
    /\ job' = [job EXCEPT ![a] = NoJob]
    /\ UNCHANGED <<central, remote, gen, nodeRow, tombs, sync, tick, counts, history>>

\* Remote.DelInbound of a deleted row. A tag the node lacks is as good as deleted.
InboundPush(a) ==
    LET j == job[a] IN
    /\ j.op = "delInbound"
    /\ \/ /\ remote' = [remote EXCEPT ![j.tag] = Absent]
          /\ \/ faults' = faults /\ fp' = [fp EXCEPT ![j.rt][j.tag] = Absent]
             \/ Fault /\ fp' = fp
          /\ deletedOn' = deletedOn \union {j.tag}
       \/ Fault /\ UNCHANGED <<remote, fp, deletedOn>>
    /\ job' = [job EXCEPT ![a] = NoJob]
    /\ UNCHANGED <<central, gen, nodeRow, tombs, sync, tick, nodeEdits, edits, known, imported,
                   panelEdit>>

\* nodeSelectionGrew
SelectionGrew(m, s) ==
    IF m = "all" THEN mode = "selected" ELSE ~ s \subseteq sel

\* NodeService.Update: the row, then InvalidateNode makes the next user of the
\* node start with a new Remote.
SaveNode(a, m, s) ==
    /\ Idle(a)
    /\ edits < MaxEdits
    /\ edits' = edits + 1
    /\ gen < MaxGen
    /\ mode' = m
    /\ sel' = s
    /\ adopted' = (adopted /\ ~ SelectionGrew(m, s))
    /\ Stamp
    /\ gen' = gen + 1
    /\ known' = known \union IF m = "all" THEN Tags ELSE s
    /\ UNCHANGED <<central, remote, fp, tombs, job, sync, tick, faults, nodeEdits, imported,
                   deletedOn, panelEdit>>

\* deleteTombstoneTTL has passed.
TombstoneExpires(x) ==
    /\ x \in tombs
    /\ tombs' = tombs \ {x}
    /\ UNCHANGED <<central, remote, fp, gen, nodeRow, job, sync, tick, counts, history>>

\* The node's operator edits the node itself.
NodeEdit(t) ==
    /\ nodeEdits < MaxNodeEdits
    /\ \E c \in ({Absent} \union Contents) \ {remote[t]} :
        /\ remote' = [remote EXCEPT ![t] = c]
        /\ deletedOn' = IF c = Absent THEN deletedOn \union {t} ELSE deletedOn
    /\ nodeEdits' = nodeEdits + 1
    /\ panelEdit' = [p \in DOMAIN panelEdit |-> IF p[1] = t THEN "none" ELSE panelEdit[p]]
    /\ UNCHANGED <<central, fp, gen, nodeRow, tombs, job, sync, tick, faults, edits, known,
                   imported>>

-----------------------------------------------------------------------------
(* One tick: syncOne. It first reconciles a dirty node.                    *)

To(step) == sync' = step

Load ==
    /\ sync = "idle"
    /\ row' = [dirty |-> dirty, adopted |-> adopted,
               mode |-> mode, sel |-> sel]
    /\ rt' = gen
    /\ stale' = stale \ {"row"}
    /\ To(IF dirty THEN "read" ELSE "fetch")
    /\ UNCHANGED <<central, remote, fp, gen, dirty, adopted, mode, sel, tombs, job, rows, listed, todo, sent,
                   failed, snap, sampled, news, degraded, counts, history>>

ReadRows ==
    /\ sync = "read"
    /\ rows' = central
    /\ stale' = stale \ {"rows"}
    /\ To("list")
    /\ UNCHANGED <<central, remote, fp, gen, dirty, adopted, mode, sel, tombs, job, row, rt, listed, todo, sent,
                   failed, snap, sampled, news, degraded, counts, history>>

\* ListInboundOptions; without the list there is no reconcile.
List ==
    /\ sync = "list"
    /\ \/ /\ listed' = {t \in Tags : remote[t] # Absent}
          /\ todo' = {t \in Tags : rows[t] # Absent}
          /\ To("push")
          /\ faults' = faults
       \/ /\ Fault
          /\ To("fetch")
          /\ UNCHANGED <<listed, todo>>
    /\ UNCHANGED <<central, remote, fp, gen, nodeRow, tombs, job, row, rt, rows, sent, failed,
                   snap, sampled, news, degraded, nodeEdits, edits, history>>

\* ReconcileInbound skips what the Remote believes the node holds already.
UpToDate(t) == t \in listed /\ fp[rt][t] = rows[t]

Forgotten(t) == IF t \in listed THEN fp ELSE [fp EXCEPT ![rt][t] = Absent]

Push(t) ==
    /\ sync = "push"
    /\ sent = {}
    /\ t \in todo
    /\ \/ /\ UpToDate(t)
          /\ todo' = todo \ {t}
          /\ UNCHANGED <<remote, fp, sent, failed, faults, deletedOn>>
       \/ /\ ~ UpToDate(t)
          /\ fp' = Forgotten(t)
          /\ \/ /\ remote' = [remote EXCEPT ![t] = rows[t]]
                /\ deletedOn' = deletedOn \ {t}
                /\ \/ /\ faults' = faults
                      /\ sent' = {t}
                      /\ UNCHANGED <<todo, failed>>
                   \/ /\ Fault
                      /\ failed' = TRUE
                      /\ todo' = todo \ {t}
                      /\ sent' = sent
             \/ /\ IF remote[t] = Absent /\ t \in listed THEN faults' = faults ELSE Fault
                /\ failed' = TRUE
                /\ todo' = todo \ {t}
                /\ UNCHANGED <<remote, sent, deletedOn>>
    /\ UNCHANGED <<central, gen, nodeRow, tombs, job, sync, row, rt, rows, listed, snap,
                   sampled, news, degraded, nodeEdits, edits, known, imported,
                   panelEdit>>

\* UpdateInbound, AddInbound: the answer is in, recordPushedInbound.
Acknowledge(t) ==
    /\ t \in sent
    /\ fp' = [fp EXCEPT ![rt][t] = rows[t]]
    /\ sent' = {}
    /\ todo' = todo \ {t}
    /\ UNCHANGED <<central, remote, gen, nodeRow, tombs, job, sync, row, rt, rows, listed, failed,
                   snap, sampled, news, degraded, counts, history>>

Unwanted_IgnoresSelection == {t \in listed : row.adopted /\ rows[t] = Absent}

\* A node whose inbounds were never adopted is not swept; one that syncs a
\* selection is swept within it.
Unwanted ==
    {t \in listed : row.adopted /\ rows[t] = Absent /\ Managed(t, row.mode, row.sel)}

SweepStart ==
    /\ sync = "push"
    /\ todo = {}
    /\ todo' = Unwanted
    /\ To("sweep")
    /\ UNCHANGED <<central, remote, fp, gen, nodeRow, tombs, job, row, rt, rows, listed, sent,
                   failed, snap, sampled, news, degraded, counts, history>>

Sweep(t) ==
    /\ sync = "sweep"
    /\ t \in todo
    /\ todo' = todo \ {t}
    /\ \/ /\ remote' = [remote EXCEPT ![t] = Absent]
          /\ \/ fp' = [fp EXCEPT ![rt][t] = Absent] /\ UNCHANGED <<failed, faults>>
             \/ Fault /\ failed' = TRUE /\ fp' = fp
       \/ Fault /\ failed' = TRUE /\ UNCHANGED <<remote, fp>>
    /\ UNCHANGED <<central, gen, nodeRow, tombs, job, sync, row, rt, rows, listed, sent, snap,
                   sampled, news, degraded, nodeEdits, edits, history>>

ClearDirty_AnyStamp ==
    /\ sync = "sweep"
    /\ todo = {}
    /\ dirty' = (dirty /\ failed)
    /\ To("fetch")
    /\ failed' = FALSE
    /\ rows' = NoInbound
    /\ listed' = {}
    /\ UNCHANGED <<central, remote, fp, gen, stale, adopted, mode, sel, tombs, job, row, rt,
                   todo, sent, snap, sampled, news, degraded, counts, history>>

\* ClearNodeDirty(n.Id, n.ConfigDirtyAt): only the stamp this tick began with.
ClearDirty ==
    /\ sync = "sweep"
    /\ todo = {}
    /\ dirty' = (dirty /\ (failed \/ "row" \in stale))
    /\ To("fetch")
    /\ failed' = FALSE
    /\ rows' = NoInbound
    /\ listed' = {}
    /\ UNCHANGED <<central, remote, fp, gen, stale, adopted, mode, sel, tombs, job, row, rt,
                   todo, sent, snap, sampled, news, degraded, counts, history>>

-----------------------------------------------------------------------------
(* syncOne then merges the node's snapshot.                                *)

\* FetchTrafficSnapshot and FilterNodeSnapshot. A node in the middle of a
\* restart may answer with no inbound at all.
Fetch ==
    /\ sync = "fetch"
    /\ \/ /\ snap' = [t \in Tags |->
                        IF Managed(t, row.mode, row.sel) THEN remote[t] ELSE Absent]
          /\ To("sample")
          /\ faults' = faults
       \/ /\ Fault
          /\ snap' = NoInbound
          /\ sync' \in {"sample", "idle"}
    /\ stale' = stale \ {"snapshot"}
    /\ UNCHANGED <<central, remote, fp, gen, dirty, adopted, mode, sel, tombs, job, row, rt, rows, listed, todo,
                   sent, failed, sampled, news, degraded, nodeEdits, edits, history>>

\* NodeSyncState
Sample ==
    /\ sync = "sample"
    /\ sampled' = dirty
    /\ To("merge")
    /\ UNCHANGED <<central, remote, fp, gen, nodeRow, tombs, job, row, rt, rows, listed, todo,
                   sent, failed, snap, news, degraded, counts, history>>

MergeDirty_SampledOnly == sampled

\* setRemoteTrafficLocked re-reads the flag inside the serialized writer.
MergeDirty == sampled \/ dirty

Reported(t) == snap[t] # Absent

\* The node lists no client where the panel still has some.
Degraded(t) == Reported(t) /\ central[t] \notin {Absent, {}} /\ snap[t] \ tombs = {}

Gone_TrustsEmptySnapshot(t) == ~ Reported(t) /\ Managed(t, mode, sel)

\* Missing from a non-empty snapshot, and the selection still covers it.
Gone(t) == ~ Reported(t) /\ (\E u \in Tags : Reported(u)) /\ Managed(t, mode, sel)

Merged(t) ==
    IF MergeDirty \/ Degraded(t) THEN central[t]
    ELSE IF central[t] = Absent THEN snap[t]
    ELSE IF Reported(t) THEN snap[t] \ tombs
    ELSE IF Gone(t) THEN Absent ELSE central[t]

\* The transaction of setRemoteTrafficLocked up to its commit.
Merge ==
    /\ sync = "merge"
    /\ central' = [t \in Tags |-> Merged(t)]
    /\ degraded' = {t \in Tags : Degraded(t) /\ ~ MergeDirty}
    /\ news' = [t \in Tags |->
            IF central[t] # Absent /\ Reported(t) /\ central'[t] # central[t]
            THEN central'[t] ELSE Absent]
    /\ snap' = NoInbound
    /\ To("record")
    /\ known' = known \union {t \in Tags : central'[t] # Absent}
    /\ imported' = imported \union {t \in Tags : central'[t] # Absent}
    /\ UNCHANGED <<remote, fp, gen, nodeRow, tombs, job, row, rt, rows, listed, todo, sent,
                   failed, sampled, counts, deletedOn, panelEdit>>

\* SetRemoteTraffic failed: the transaction rolled back or never ran.
MergeFails ==
    /\ sync = "merge"
    /\ Fault
    /\ snap' = NoInbound
    /\ To("idle")
    /\ UNCHANGED <<central, remote, fp, gen, nodeRow, tombs, job, row, rt, rows, listed, todo,
                   sent, failed, sampled, news, degraded, nodeEdits, edits, history>>

Record_KeepsFingerprint ==
    /\ sync = "record"
    /\ fp' = [fp EXCEPT ![gen] = [t \in Tags |->
            IF news[t] # Absent THEN news[t] ELSE @[t]]]
    /\ IF degraded = {} THEN UNCHANGED <<dirty, stale>> ELSE Stamp
    /\ degraded' = {}
    /\ news' = NoInbound
    /\ To("mark")
    /\ UNCHANGED <<central, remote, gen, adopted, mode, sel, tombs, job, row, rt, rows, listed,
                   todo, sent, failed, snap, sampled, counts, history>>

\* After the commit: a degraded inbound loses its fingerprint and flags the
\* node, an adopted one is recorded, both in the Remote of this moment.
Record ==
    /\ sync = "record"
    /\ fp' = [fp EXCEPT ![gen] = [t \in Tags |->
            IF t \in degraded THEN Absent
            ELSE IF news[t] # Absent THEN news[t] ELSE @[t]]]
    /\ IF degraded = {} THEN UNCHANGED <<dirty, stale>> ELSE Stamp
    /\ degraded' = {}
    /\ news' = NoInbound
    /\ To("mark")
    /\ UNCHANGED <<central, remote, gen, adopted, mode, sel, tombs, job, row, rt, rows, listed,
                   todo, sent, failed, snap, sampled, counts, history>>

\* syncCanAdoptInbounds and MarkNodeInboundsAdopted
MarkAdopted ==
    /\ sync = "mark"
    /\ adopted' = (adopted \/ (~ sampled /\ ~ row.adopted
                               /\ (row.mode = "all" \/ row.sel # {})))
    /\ To("idle")
    /\ row' = NoRow
    /\ sampled' = FALSE
    /\ UNCHANGED <<central, remote, fp, gen, dirty, stale, mode, sel, tombs, job, rt, rows,
                   listed, todo, sent, failed, snap, news, degraded, counts,
                   history>>

-----------------------------------------------------------------------------
(* The panel stops and starts again: the database stays, everything else   *)
(* of this module is memory.                                               *)

Restart ==
    /\ gen < MaxGen
    /\ gen' = gen + 1
    /\ rt' = gen + 1
    /\ job' = [a \in Admins |-> NoJob]
    /\ tombs' = {}
    /\ sync' = "idle"
    /\ row' = NoRow
    /\ rows' = NoInbound
    /\ listed' = {}
    /\ todo' = {}
    /\ sent' = {}
    /\ failed' = FALSE
    /\ snap' = NoInbound
    /\ sampled' = FALSE
    /\ news' = NoInbound
    /\ degraded' = {}
    /\ stale' = {}
    /\ UNCHANGED <<central, remote, fp, dirty, adopted, mode, sel, counts, history>>

Edit(a) ==
    \/ \E t \in Tags : SaveInbound(a, t) \/ DelInbound(a, t)
    \/ \E t \in Tags, x \in Clients : ClientBegin(a, t, x)
    \/ SaveNode(a, "all", sel)
    \/ \E s \in SUBSET Tags : SaveNode(a, "selected", s)

Finish(a) == ClientCommit(a) \/ ClientPush(a) \/ Advance(a) \/ InboundPush(a)

SyncOne ==
    \/ Load \/ ReadRows \/ List \/ SweepStart \/ ClearDirty
    \/ \E t \in Tags : Push(t) \/ Acknowledge(t) \/ Sweep(t)
    \/ Fetch \/ Sample \/ Merge \/ MergeFails \/ Record \/ MarkAdopted

Next ==
    \/ \E a \in Admins : Edit(a) \/ Finish(a)
    \/ \E x \in Clients : TombstoneExpires(x)
    \/ \E t \in Tags : NodeEdit(t)
    \/ SyncOne
    \/ Restart

Spec == Init /\ [][Next]_vars

\* Every 5 s the cron starts a tick and its calls have timeouts; so have the
\* calls of a request, and a tombstone lives 90 s.
FairSpec ==
    /\ Spec
    /\ WF_vars(SyncOne)
    /\ \A a \in Admins : WF_vars(Finish(a))
    /\ \A x \in Clients : WF_vars(TombstoneExpires(x))

-----------------------------------------------------------------------------
(* Properties                                                              *)

Jobs ==
    {NoJob}
    \union [op : {"delInbound"}, tag : Tags, rt : 1..MaxGen]
    \union [op : {"add", "del"}, at : {"commit", "push", "advance"}, tag : Tags,
            client : Clients, prev : Contents, push : BOOLEAN, rt : 1..MaxGen]

\* Every variable has its type; the Remotes in use exist.
TypeOK ==
    /\ central \in Inbounds /\ remote \in Inbounds /\ rows \in Inbounds
    /\ snap \in Inbounds /\ news \in Inbounds
    /\ fp \in [1..MaxGen -> Inbounds] /\ gen \in 1..MaxGen /\ rt \in 1..MaxGen
    /\ dirty \in BOOLEAN /\ adopted \in BOOLEAN /\ failed \in BOOLEAN /\ sampled \in BOOLEAN
    /\ faults \in 0..MaxFaults /\ nodeEdits \in 0..MaxNodeEdits /\ edits \in 0..MaxEdits
    /\ stale \subseteq {"row", "rows", "snapshot"}
    /\ mode \in {"all", "selected"} /\ sel \subseteq Tags
    /\ listed \subseteq Tags /\ todo \subseteq Tags /\ sent \subseteq Tags
    /\ degraded \subseteq Tags /\ known \subseteq Tags /\ imported \subseteq Tags
    /\ deletedOn \subseteq Tags /\ tombs \subseteq Clients
    /\ job \in [Admins -> Jobs]
    /\ sync \in {"idle", "read", "list", "push", "sweep", "fetch", "sample", "merge",
                 "record", "mark"}
    /\ row \in [dirty : BOOLEAN, adopted : BOOLEAN,
                mode : {"all", "selected"}, sel : SUBSET Tags]
    /\ panelEdit \in [Tags \X Clients -> {"none", "add", "del"}]

\* The step that commits the merge of a snapshot.
Merging == sync = "merge" /\ sync' = "record"

\* The step that sweeps t off the node.
SweptOff(t) ==
    sync = "sweep" /\ t \in todo \ todo' /\ remote[t] # Absent /\ remote'[t] = Absent

\* The dirty flag is only cleared by a reconcile that read the inbounds after
\* the last edit: an edit committed while the reconcile was talking to the node
\* keeps the node dirty (ClearNodeDirty compares config_dirty_at).
NoEditForgotten == [][dirty /\ ~ dirty' => "rows" \notin stale]_vars

\* A snapshot never changes the panel's inbounds once an edit was committed
\* after it was taken, nor while any edit awaits its reconcile
\* (setRemoteTrafficLocked re-reads config_dirty inside the writer).
MergeNeverOverridesAnEdit ==
    [][Merging /\ central' # central => ~ dirty /\ "snapshot" \notin stale]_vars

\* The merge drops an inbound of the panel only if the node's operator, or a
\* DelInbound of the panel, removed it on the node: not because the node is
\* restarting, was deselected, or has not been told of the inbound yet.
DroppedOnlyIfDeleted ==
    [][\A t \in Tags : Merging /\ central[t] # Absent /\ central'[t] = Absent
                        => t \in deletedOn]_vars

\* A node whose config_dirty is down has every inbound of the panel, but for those
\* deleted on the node itself: whatever lost answers, edits, selections and restarts
\* came before, a down flag leaves no inbound unsent. It is why the merge may take
\* what it misses in a snapshot for a deletion.
CleanNodeHasAll ==
    ~ dirty => \A t \in Tags : central[t] # Absent => remote[t] # Absent \/ t \in deletedOn

\* Reconcile sweeps off the node only tags the panel managed at some time: in
\* "selected" mode the node's other inbounds are its own.
SweepsOnlyManaged ==
    [][\A t \in Tags : SweptOff(t)
                        => t \in known]_vars

\* With finitely many edits and faults, panel and node end up with the same
\* inbounds, wherever the node is managed and reports anything at all.
Agree ==
    \A t \in Tags :
        Managed(t, mode, sel) /\ (\E u \in Tags : Managed(u, mode, sel) /\ remote[u] # Absent)
        => central[t] = remote[t]

Converges == <>[]Agree

\* What onboarding promises: before the clean sync that adopts the node, absent
\* locally means not imported yet, and a sweep must not remove it. The code
\* does not keep this.
SweepsOnlyImported ==
    [][\A t \in Tags : SweptOff(t)
                        => t \in imported]_vars

\* A client deleted on the panel does not come back from the node's snapshot. The
\* code does not keep this either.
DeletedStaysDeleted ==
    [][\A t \in Tags, x \in Clients :
        /\ Merging /\ panelEdit[<<t, x>>] = "del"
        /\ Absent \notin {central[t], central'[t]}
        /\ x \in central'[t]
        => x \in central[t]]_vars

\* A client added on the panel, and not being deleted, does not vanish with the
\* node's snapshot. Nor this.
AddedStaysAdded ==
    [][\A t \in Tags, x \in Clients :
        /\ Merging /\ panelEdit[<<t, x>>] = "add"
        /\ Absent \notin {central[t], central'[t]}
        /\ x \in central[t] \ tombs
        => x \in central'[t]]_vars
=============================================================================
