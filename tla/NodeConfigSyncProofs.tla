------------------------ MODULE NodeConfigSyncProofs ------------------------
(***************************************************************************)
(* For any tags, clients, requests, edits and faults: no tick clears the   *)
(* flag of an edit it has not read, merges over one, drops an inbound that *)
(* was not deleted on the node, or sweeps one the panel never managed.     *)
(***************************************************************************)
EXTENDS NodeConfigSync, TLAPS

\* The parts of the type invariant.
DataTypes ==
    /\ central \in Inbounds /\ remote \in Inbounds /\ rows \in Inbounds
    /\ snap \in Inbounds /\ news \in Inbounds
    /\ fp \in [1..MaxGen -> Inbounds] /\ gen \in 1..MaxGen /\ rt \in 1..MaxGen
FlagTypes ==
    dirty \in BOOLEAN /\ adopted \in BOOLEAN /\ failed \in BOOLEAN /\ sampled \in BOOLEAN
RowTypes ==
    /\ faults \in 0..MaxFaults /\ nodeEdits \in 0..MaxNodeEdits /\ edits \in 0..MaxEdits
    /\ stale \subseteq {"row", "rows", "snapshot"}
    /\ mode \in {"all", "selected"} /\ sel \subseteq Tags
    /\ listed \subseteq Tags /\ todo \subseteq Tags /\ sent \subseteq Tags
    /\ degraded \subseteq Tags /\ known \subseteq Tags /\ imported \subseteq Tags
    /\ deletedOn \subseteq Tags /\ tombs \subseteq Clients
    /\ sync \in {"idle", "read", "list", "push", "sweep", "fetch", "sample", "merge",
                 "record", "mark"}
    /\ row \in [dirty : BOOLEAN, adopted : BOOLEAN,
                mode : {"all", "selected"}, sel : SUBSET Tags]
    /\ panelEdit \in [Tags \X Clients -> {"none", "add", "del"}]
JobTypes == job \in [Admins -> Jobs]

\* A stamp makes the node row stale together with the inbounds, and leaves the node dirty
\* for as long as the snapshot may be older.
StampInv ==
    /\ sync \in {"list", "push", "sweep"} /\ "rows" \in stale => "row" \in stale
    /\ sync \in {"sample", "merge"} /\ "snapshot" \in stale => dirty

\* The panel knows every tag that its selection covers, that the tick works with covers, or
\* that is about to be swept.
KnownInv ==
    /\ mode = "all" => known = Tags
    /\ sel \subseteq known
    /\ row.dirty /\ row.mode = "all" => known = Tags
    /\ row.sel \subseteq known
    /\ sync \in {"read", "list", "push", "sweep"} => row.dirty
    /\ sync = "sweep" => todo \subseteq known

\* Unless the row has changed since, the tick works with its mode and selection, and, until
\* the reconcile ends, with the inbounds it has read.
FreshInv ==
    /\ sync # "idle" /\ "row" \notin stale => row.mode = mode /\ row.sel = sel
    /\ sync # "idle" /\ "row" \in stale => dirty
    /\ sync \in {"list", "push", "sweep"} /\ "rows" \notin stale => rows = central

\* t is on the node, or was deleted there.
There(t) == remote[t] # Absent \/ t \in deletedOn

\* What a reconcile has pushed without an error is there.
PushedInv ==
    /\ sync # "push" => sent = {}
    /\ sync = "push" =>
         /\ sent \subseteq todo /\ \A t \in todo : rows[t] # Absent
         /\ \A t \in Tags : rows[t] # Absent /\ (t \notin todo \/ t \in sent) => failed \/ There(t)
         /\ \A t \in listed : There(t) \/ rows[t] = Absent
    /\ sync = "sweep" =>
         /\ \A t \in todo : rows[t] = Absent
         /\ \A t \in Tags : rows[t] # Absent => failed \/ There(t)

\* A node that is not dirty has every inbound of the panel, but for those deleted there.
KeptInv == \A t \in Tags : ~ dirty /\ central[t] # Absent => There(t)

\* A snapshot has what the node has, and what it lacks was deleted there.
SnapInv ==
    sync \in {"sample", "merge"} =>
        \A t \in Tags :
            /\ snap[t] # Absent => There(t)
            /\ ~ dirty /\ central[t] # Absent /\ Gone(t) => t \in deletedOn

IInv == TypeOK /\ StampInv /\ KnownInv /\ FreshInv /\ PushedInv /\ KeptInv /\ SnapInv

ClientJobs ==
    [op : {"add", "del"}, at : {"commit", "push", "advance"}, tag : Tags,
     client : Clients, prev : Contents, push : BOOLEAN, rt : 1..MaxGen]

-----------------------------------------------------------------------------
(* One lemma per part of the invariant. Where there is one, <1>1 is the frame: *)
(* what the steps that leave the variables of that part alone have in common.  *)

USE DEF nodeRow, tick, counts, history

\* Another fingerprint of one tag in one Remote.
LEMMA FpUpdate ==
    ASSUME fp \in [1..MaxGen -> Inbounds], NEW g \in 1..MaxGen, NEW t \in Tags,
           NEW v \in {Absent} \union Contents
    PROVE  [fp EXCEPT ![g][t] = v] \in [1..MaxGen -> Inbounds]
<1>1. [fp[g] EXCEPT ![t] = v] \in Inbounds
  BY DEF Inbounds
<1> QED
  BY <1>1

\* The push of one client leaves every inbound where it is.
LEMMA ClientPushSpares ==
    ASSUME IInv, NEW a \in Admins, ClientPush(a)
    PROVE  \A t \in Tags : There(t) => There(t)'
<1>1. job[a] \in ClientJobs
  BY DEF IInv, TypeOK, ClientPush, Jobs, NoJob, ClientJobs
<1>2. ASSUME NEW C \in Contents
      PROVE  Edited(job[a], C) # Absent
  <2>1. Edited(job[a], C) \in Contents
    BY <1>1 DEF ClientJobs, Edited, Contents
  <2> QED
    BY <2>1, SyncAssumption
<1>3. UNCHANGED deletedOn
  BY DEF ClientPush, history
<1>4. \/ UNCHANGED remote
      \/ /\ remote[job[a].tag] # Absent
         /\ remote' = [remote EXCEPT ![job[a].tag] = Edited(job[a], remote[job[a].tag])]
  BY DEF ClientPush
<1>5. remote \in [Tags -> {Absent} \union Contents]
  BY DEF IInv, TypeOK, Inbounds
<1> QED
  BY <1>2, <1>3, <1>4, <1>5 DEF There

\* Inbounds, snapshots and fingerprints.
LEMMA DataStep ==
    ASSUME IInv, Next
    PROVE  DataTypes'
<1> USE SyncAssumption
<1>1. ASSUME UNCHANGED <<central, remote, rows, snap, news, fp, gen, rt>>
      PROVE  DataTypes'
  BY <1>1 DEF IInv, TypeOK, DataTypes, Inbounds, Contents, NoInbound, Jobs, NoJob
<1>2. ASSUME NEW a \in Admins, NEW t \in Tags, SaveInbound(a, t)
      PROVE  DataTypes'
  BY <1>2 DEF IInv, TypeOK, DataTypes, Inbounds, Contents, NoInbound, Jobs, NoJob,
          SaveInbound, Stamp, AllowTag, Idle
<1>3. ASSUME NEW a \in Admins, NEW t \in Tags, DelInbound(a, t)
      PROVE  DataTypes'
  BY <1>3 DEF IInv, TypeOK, DataTypes, Inbounds, Contents, NoInbound, Jobs, NoJob,
          DelInbound, Stamp, Idle
<1>4. ASSUME NEW a \in Admins, NEW m \in {"all", "selected"}, NEW s \in SUBSET Tags, SaveNode(a, m, s)
      PROVE  DataTypes'
  BY <1>4 DEF IInv, TypeOK, DataTypes, Inbounds, Contents, NoInbound, Jobs, NoJob,
          SaveNode, Stamp, Idle, SelectionGrew
<1>5. ASSUME NEW a \in Admins, ClientCommit(a)
      PROVE  DataTypes'
  BY <1>5 DEF IInv, TypeOK, DataTypes, Inbounds, Contents, NoInbound, Jobs, NoJob,
          ClientCommit, Stamp, Edited
<1>6. ASSUME NEW a \in Admins, ClientPush(a)
      PROVE  DataTypes'
  BY <1>6 DEF IInv, TypeOK, DataTypes, Inbounds, Contents, NoInbound, Jobs, NoJob,
          ClientPush, Edited, Fault
<1>7. ASSUME NEW a \in Admins, Advance(a)
      PROVE  DataTypes'
  BY <1>7 DEF IInv, TypeOK, DataTypes, Inbounds, Contents, NoInbound, Jobs, NoJob,
          Advance, Edited
<1>8. ASSUME NEW a \in Admins, InboundPush(a)
      PROVE  DataTypes'
  <2>1. /\ central' \in Inbounds
        /\ remote' \in Inbounds
        /\ rows' \in Inbounds
        /\ snap' \in Inbounds
        /\ news' \in Inbounds
        /\ gen' \in 1..MaxGen /\ rt' \in 1..MaxGen
    BY <1>8 DEF IInv, TypeOK, DataTypes, InboundPush, Fault, Inbounds, Contents,
            NoInbound, Jobs, NoJob
  <2>2. fp' \in [1..MaxGen -> Inbounds]
    <3>1. job[a].tag \in Tags /\ job[a].rt \in 1..MaxGen /\ Absent \in {Absent} \union Contents
      BY <1>8 DEF IInv, TypeOK, InboundPush, Jobs, NoJob
    <3>2. [fp EXCEPT ![job[a].rt][job[a].tag] = Absent] \in [1..MaxGen -> Inbounds]
      BY <3>1, FpUpdate DEF IInv, TypeOK
    <3> QED
      BY <1>8, <3>2 DEF IInv, TypeOK, InboundPush
  <2> QED
    BY <2>1, <2>2 DEF DataTypes
<1>9. ASSUME NEW t \in Tags, NodeEdit(t)
      PROVE  DataTypes'
  BY <1>9 DEF IInv, TypeOK, DataTypes, Inbounds, Contents, NoInbound, Jobs, NoJob,
          NodeEdit
<1>10. ASSUME Load
      PROVE  DataTypes'
  BY <1>10 DEF IInv, TypeOK, DataTypes, Inbounds, Contents, NoInbound, Jobs, NoJob,
          Load, To
<1>11. ASSUME ReadRows
      PROVE  DataTypes'
  BY <1>11 DEF IInv, TypeOK, DataTypes, Inbounds, Contents, NoInbound, Jobs, NoJob,
          ReadRows, To
<1>12. ASSUME ClearDirty
      PROVE  DataTypes'
  BY <1>12 DEF IInv, TypeOK, DataTypes, Inbounds, Contents, NoInbound, Jobs, NoJob,
          ClearDirty, To
<1>13. ASSUME NEW t \in Tags, Push(t)
      PROVE  DataTypes'
  <2>1. /\ central' \in Inbounds
        /\ remote' \in Inbounds
        /\ rows' \in Inbounds
        /\ snap' \in Inbounds
        /\ news' \in Inbounds
        /\ gen' \in 1..MaxGen /\ rt' \in 1..MaxGen
    <3>1. remote' = remote \/ remote' = [remote EXCEPT ![t] = rows[t]]
      BY <1>13 DEF Push
    <3>2. remote' \in Inbounds
      BY <3>1 DEF IInv, TypeOK, Inbounds
    <3> QED
      BY <1>13, <3>2 DEF IInv, TypeOK, Push
  <2>2. fp' \in [1..MaxGen -> Inbounds]
    <3>1. rt \in 1..MaxGen /\ Absent \in {Absent} \union Contents
      BY DEF IInv, TypeOK
    <3>2. [fp EXCEPT ![rt][t] = Absent] \in [1..MaxGen -> Inbounds]
      BY <3>1, FpUpdate DEF IInv, TypeOK
    <3> QED
      BY <1>13, <3>2 DEF IInv, TypeOK, Push, Forgotten
  <2> QED
    BY <2>1, <2>2 DEF DataTypes
<1>14. ASSUME NEW t \in Tags, Acknowledge(t)
      PROVE  DataTypes'
  BY <1>14 DEF IInv, TypeOK, DataTypes, Inbounds, Contents, NoInbound, Jobs, NoJob,
          Acknowledge
<1>15. ASSUME NEW t \in Tags, Sweep(t)
      PROVE  DataTypes'
  <2>1. /\ central' \in Inbounds
        /\ remote' \in Inbounds
        /\ rows' \in Inbounds
        /\ snap' \in Inbounds
        /\ news' \in Inbounds
        /\ gen' \in 1..MaxGen /\ rt' \in 1..MaxGen
    BY <1>15 DEF IInv, TypeOK, DataTypes, Sweep, Fault, Inbounds, Contents,
            NoInbound, Jobs, NoJob
  <2>2. fp' \in [1..MaxGen -> Inbounds]
    <3>1. rt \in 1..MaxGen /\ Absent \in {Absent} \union Contents
      BY DEF IInv, TypeOK
    <3>2. [fp EXCEPT ![rt][t] = Absent] \in [1..MaxGen -> Inbounds]
      BY <3>1, FpUpdate DEF IInv, TypeOK
    <3> QED
      BY <1>15, <3>2 DEF IInv, TypeOK, Sweep
  <2> QED
    BY <2>1, <2>2 DEF DataTypes
<1>16. ASSUME Fetch
      PROVE  DataTypes'
  BY <1>16 DEF IInv, TypeOK, DataTypes, Inbounds, Contents, NoInbound, Jobs, NoJob,
          Fetch, Fault, To, Managed
<1>17. ASSUME Merge
      PROVE  DataTypes'
  BY <1>17 DEF IInv, TypeOK, DataTypes, Inbounds, Contents, NoInbound, Jobs, NoJob,
          Merge, To, MergeDirty, Reported, Degraded, Merged, Gone, Managed
<1>18. ASSUME MergeFails
      PROVE  DataTypes'
  BY <1>18 DEF IInv, TypeOK, DataTypes, Inbounds, Contents, NoInbound, Jobs, NoJob,
          MergeFails, Fault, To
<1>19. ASSUME Record
      PROVE  DataTypes'
  <2>1. /\ central' \in Inbounds
        /\ remote' \in Inbounds
        /\ rows' \in Inbounds
        /\ snap' \in Inbounds
        /\ news' \in Inbounds
        /\ gen' \in 1..MaxGen /\ rt' \in 1..MaxGen
    BY <1>19 DEF IInv, TypeOK, DataTypes, Record, Stamp, To, Inbounds, Contents,
            NoInbound, Jobs, NoJob
  <2>2. fp' \in [1..MaxGen -> Inbounds]
    <3> DEFINE f == [t \in Tags |-> IF t \in degraded THEN Absent
                                 ELSE IF news[t] # Absent THEN news[t] ELSE fp[gen][t]]
    <3>1. f \in Inbounds
      BY DEF IInv, TypeOK, Inbounds
    <3>2. fp' = [fp EXCEPT ![gen] = f]
      BY <1>19 DEF Record
    <3> HIDE DEF f
    <3> QED
      BY <3>1, <3>2 DEF IInv, TypeOK
  <2> QED
    BY <2>1, <2>2 DEF DataTypes
<1>20. ASSUME Restart
      PROVE  DataTypes'
  BY <1>20 DEF IInv, TypeOK, DataTypes, Inbounds, Contents, NoInbound, Jobs, NoJob,
          Restart
<1>21. CASE \/ (\E a \in Admins, t \in Tags, x \in Clients : ClientBegin(a, t, x))
            \/ (\E x \in Clients : TombstoneExpires(x)) \/ List \/ SweepStart
            \/ Sample \/ MarkAdopted
  BY <1>21, <1>1 DEF ClientBegin, TombstoneExpires, List, SweepStart, Sample,
          MarkAdopted
<1> QED
  <2>1. sel \in SUBSET Tags
    BY DEF IInv, TypeOK
  <2> QED
    BY <1>1, <1>2, <1>3, <1>4, <1>5, <1>6, <1>7, <1>8, <1>9, <1>10, <1>11, <1>12,
       <1>13, <1>14, <1>15, <1>16, <1>17, <1>18, <1>19, <1>20, <1>21, <2>1
    DEF Next, Edit, Finish, SyncOne

\* Flags.
LEMMA FlagStep ==
    ASSUME IInv, Next
    PROVE  FlagTypes'
<1> USE SyncAssumption
<1>1. ASSUME UNCHANGED <<dirty, adopted, failed, sampled>>
      PROVE  FlagTypes'
  BY <1>1 DEF IInv, TypeOK, FlagTypes
<1>2. ASSUME NEW a \in Admins, NEW t \in Tags, SaveInbound(a, t)
      PROVE  FlagTypes'
  BY <1>2 DEF IInv, TypeOK, FlagTypes, SaveInbound, Stamp, AllowTag, Idle
<1>3. ASSUME NEW a \in Admins, NEW t \in Tags, DelInbound(a, t)
      PROVE  FlagTypes'
  BY <1>3 DEF IInv, TypeOK, FlagTypes, DelInbound, Stamp, Idle
<1>4. ASSUME NEW a \in Admins, NEW m \in {"all", "selected"}, NEW s \in SUBSET Tags, SaveNode(a, m, s)
      PROVE  FlagTypes'
  BY <1>4 DEF IInv, TypeOK, FlagTypes, SaveNode, Stamp, Idle, SelectionGrew
<1>5. ASSUME NEW a \in Admins, ClientCommit(a)
      PROVE  FlagTypes'
  BY <1>5 DEF IInv, TypeOK, FlagTypes, ClientCommit, Stamp, Edited
<1>6. ASSUME ClearDirty
      PROVE  FlagTypes'
  BY <1>6 DEF IInv, TypeOK, FlagTypes, ClearDirty, To
<1>7. ASSUME NEW t \in Tags, Push(t)
      PROVE  FlagTypes'
  BY <1>7 DEF IInv, TypeOK, FlagTypes, Push, Fault, UpToDate, Forgotten
<1>8. ASSUME NEW t \in Tags, Sweep(t)
      PROVE  FlagTypes'
  BY <1>8 DEF IInv, TypeOK, FlagTypes, Sweep, Fault
<1>9. ASSUME Sample
      PROVE  FlagTypes'
  BY <1>9 DEF IInv, TypeOK, FlagTypes, Sample, To
<1>10. ASSUME Record
      PROVE  FlagTypes'
  BY <1>10 DEF IInv, TypeOK, FlagTypes, Record, Stamp, To
<1>11. ASSUME MarkAdopted
      PROVE  FlagTypes'
  BY <1>11 DEF IInv, TypeOK, FlagTypes, MarkAdopted, To
<1>12. ASSUME Restart
      PROVE  FlagTypes'
  BY <1>12 DEF IInv, TypeOK, FlagTypes, Restart
<1>13. CASE \/ (\E a \in Admins, t \in Tags, x \in Clients : ClientBegin(a, t, x))
            \/ (\E a \in Admins : ClientPush(a)) \/ (\E a \in Admins : Advance(a))
            \/ (\E a \in Admins : InboundPush(a))
            \/ (\E x \in Clients : TombstoneExpires(x))
            \/ (\E t \in Tags : NodeEdit(t)) \/ Load \/ ReadRows \/ List
            \/ SweepStart \/ (\E t \in Tags : Acknowledge(t)) \/ Fetch \/ Merge
            \/ MergeFails
  BY <1>13, <1>1 DEF ClientBegin, ClientPush, Advance, InboundPush,
          TombstoneExpires, NodeEdit, Load, ReadRows, List, SweepStart, Acknowledge,
          Fetch, Merge, MergeFails
<1> QED
  <2>1. sel \in SUBSET Tags
    BY DEF IInv, TypeOK
  <2> QED
    BY <1>1, <1>2, <1>3, <1>4, <1>5, <1>6, <1>7, <1>8, <1>9, <1>10, <1>11, <1>12,
       <1>13, <2>1
    DEF Next, Edit, Finish, SyncOne

\* The node row, sets of tags, counters and the phase of the tick.
LEMMA RowStep ==
    ASSUME IInv, Next
    PROVE  RowTypes'
<1> USE SyncAssumption
<1>1. ASSUME UNCHANGED <<faults, nodeEdits, edits, stale, mode, sel, listed, todo,
                          sent, degraded, known, imported, deletedOn, tombs, sync,
                          row, panelEdit>>
      PROVE  RowTypes'
  BY <1>1 DEF IInv, TypeOK, RowTypes, NoRow, Inbounds, NoInbound, Jobs, NoJob
<1>2. ASSUME NEW a \in Admins, NEW t \in Tags, SaveInbound(a, t)
      PROVE  RowTypes'
  BY <1>2 DEF IInv, TypeOK, RowTypes, NoRow, Inbounds, NoInbound, Jobs, NoJob,
          SaveInbound, Stamp, AllowTag, Idle
<1>3. ASSUME NEW a \in Admins, NEW t \in Tags, DelInbound(a, t)
      PROVE  RowTypes'
  BY <1>3 DEF IInv, TypeOK, RowTypes, NoRow, Inbounds, NoInbound, Jobs, NoJob,
          DelInbound, Stamp, Idle
<1>4. ASSUME NEW a \in Admins, NEW t \in Tags, NEW x \in Clients, ClientBegin(a, t, x)
      PROVE  RowTypes'
  BY <1>4 DEF IInv, TypeOK, RowTypes, NoRow, Inbounds, NoInbound, Jobs, NoJob,
          ClientBegin, Idle, Locked
<1>5. ASSUME NEW a \in Admins, NEW m \in {"all", "selected"}, NEW s \in SUBSET Tags, SaveNode(a, m, s)
      PROVE  RowTypes'
  BY <1>5 DEF IInv, TypeOK, RowTypes, NoRow, Inbounds, NoInbound, Jobs, NoJob,
          SaveNode, Stamp, Idle, SelectionGrew
<1>6. ASSUME NEW a \in Admins, ClientCommit(a)
      PROVE  RowTypes'
  BY <1>6 DEF IInv, TypeOK, RowTypes, NoRow, Inbounds, NoInbound, Jobs, NoJob,
          ClientCommit, Stamp, Edited
<1>7. ASSUME NEW a \in Admins, ClientPush(a)
      PROVE  RowTypes'
  BY <1>7 DEF IInv, TypeOK, RowTypes, NoRow, Inbounds, NoInbound, Jobs, NoJob,
          ClientPush, Edited, Fault
<1>8. ASSUME NEW a \in Admins, InboundPush(a)
      PROVE  RowTypes'
  BY <1>8 DEF IInv, TypeOK, RowTypes, NoRow, Inbounds, NoInbound, Jobs, NoJob,
          InboundPush, Fault
<1>9. ASSUME NEW x \in Clients, TombstoneExpires(x)
      PROVE  RowTypes'
  BY <1>9 DEF IInv, TypeOK, RowTypes, NoRow, Inbounds, NoInbound, Jobs, NoJob,
          TombstoneExpires
<1>10. ASSUME NEW t \in Tags, NodeEdit(t)
      PROVE  RowTypes'
  BY <1>10 DEF IInv, TypeOK, RowTypes, NoRow, Inbounds, NoInbound, Jobs, NoJob,
          NodeEdit
<1>11. ASSUME Load
      PROVE  RowTypes'
  BY <1>11 DEF IInv, TypeOK, RowTypes, NoRow, Inbounds, NoInbound, Jobs, NoJob,
          Load, To
<1>12. ASSUME ReadRows
      PROVE  RowTypes'
  BY <1>12 DEF IInv, TypeOK, RowTypes, NoRow, Inbounds, NoInbound, Jobs, NoJob,
          ReadRows, To
<1>13. ASSUME List
      PROVE  RowTypes'
  BY <1>13 DEF IInv, TypeOK, RowTypes, NoRow, Inbounds, NoInbound, Jobs, NoJob,
          List, Fault, To
<1>14. ASSUME SweepStart
      PROVE  RowTypes'
  BY <1>14 DEF IInv, TypeOK, RowTypes, NoRow, Inbounds, NoInbound, Jobs, NoJob,
          SweepStart, To, Unwanted, Managed
<1>15. ASSUME ClearDirty
      PROVE  RowTypes'
  BY <1>15 DEF IInv, TypeOK, RowTypes, NoRow, Inbounds, NoInbound, Jobs, NoJob,
          ClearDirty, To
<1>16. ASSUME NEW t \in Tags, Push(t)
      PROVE  RowTypes'
  BY <1>16 DEF IInv, TypeOK, RowTypes, NoRow, Inbounds, NoInbound, Jobs, NoJob,
          Push, Fault, UpToDate, Forgotten
<1>17. ASSUME NEW t \in Tags, Acknowledge(t)
      PROVE  RowTypes'
  BY <1>17 DEF IInv, TypeOK, RowTypes, NoRow, Inbounds, NoInbound, Jobs, NoJob,
          Acknowledge
<1>18. ASSUME NEW t \in Tags, Sweep(t)
      PROVE  RowTypes'
  BY <1>18 DEF IInv, TypeOK, RowTypes, NoRow, Inbounds, NoInbound, Jobs, NoJob,
          Sweep, Fault
<1>19. ASSUME Fetch
      PROVE  RowTypes'
  BY <1>19 DEF IInv, TypeOK, RowTypes, NoRow, Inbounds, NoInbound, Jobs, NoJob,
          Fetch, Fault, To, Managed
<1>20. ASSUME Sample
      PROVE  RowTypes'
  BY <1>20 DEF IInv, TypeOK, RowTypes, NoRow, Inbounds, NoInbound, Jobs, NoJob,
          Sample, To
<1>21. ASSUME Merge
      PROVE  RowTypes'
  BY <1>21 DEF IInv, TypeOK, RowTypes, NoRow, Inbounds, NoInbound, Jobs, NoJob,
          Merge, To, MergeDirty, Reported, Degraded, Merged, Gone, Managed
<1>22. ASSUME MergeFails
      PROVE  RowTypes'
  BY <1>22 DEF IInv, TypeOK, RowTypes, NoRow, Inbounds, NoInbound, Jobs, NoJob,
          MergeFails, Fault, To
<1>23. ASSUME Record
      PROVE  RowTypes'
  BY <1>23 DEF IInv, TypeOK, RowTypes, NoRow, Inbounds, NoInbound, Jobs, NoJob,
          Record, Stamp, To
<1>24. ASSUME MarkAdopted
      PROVE  RowTypes'
  BY <1>24 DEF IInv, TypeOK, RowTypes, NoRow, Inbounds, NoInbound, Jobs, NoJob,
          MarkAdopted, To
<1>25. ASSUME Restart
      PROVE  RowTypes'
  BY <1>25 DEF IInv, TypeOK, RowTypes, NoRow, Inbounds, NoInbound, Jobs, NoJob,
          Restart
<1>26. CASE \/ (\E a \in Admins : Advance(a))
  BY <1>26, <1>1 DEF Advance
<1> QED
  <2>1. sel \in SUBSET Tags
    BY DEF IInv, TypeOK
  <2> QED
    BY <1>1, <1>2, <1>3, <1>4, <1>5, <1>6, <1>7, <1>8, <1>9, <1>10, <1>11, <1>12,
       <1>13, <1>14, <1>15, <1>16, <1>17, <1>18, <1>19, <1>20, <1>21, <1>22, <1>23,
       <1>24, <1>25, <1>26, <2>1
    DEF Next, Edit, Finish, SyncOne

\* Requests.
LEMMA JobStep ==
    ASSUME IInv, Next
    PROVE  JobTypes'
<1> USE SyncAssumption
<1>1. ASSUME UNCHANGED <<job>>
      PROVE  JobTypes'
  BY <1>1 DEF IInv, TypeOK, JobTypes, Jobs, NoJob, Inbounds, Contents
<1>2. ASSUME NEW a \in Admins, NEW t \in Tags, DelInbound(a, t)
      PROVE  JobTypes'
  BY <1>2 DEF IInv, TypeOK, JobTypes, Jobs, NoJob, Inbounds, Contents, DelInbound,
          Stamp, Idle
<1>3. ASSUME NEW a \in Admins, NEW t \in Tags, NEW x \in Clients, ClientBegin(a, t, x)
      PROVE  JobTypes'
  BY <1>3 DEF IInv, TypeOK, JobTypes, Jobs, NoJob, Inbounds, Contents, ClientBegin,
          Idle, Locked
<1>4. ASSUME NEW a \in Admins, ClientCommit(a)
      PROVE  JobTypes'
  <2>1. job' \in [Admins -> Jobs]
    <3>1. job[a] \in ClientJobs
      BY <1>4 DEF IInv, TypeOK, ClientCommit, Jobs, NoJob, ClientJobs
    <3>2. [job[a] EXCEPT !.at = "push"] \in ClientJobs
      BY <3>1 DEF ClientJobs
    <3>3. NoJob \in Jobs /\ ClientJobs \subseteq Jobs
      BY DEF Jobs, ClientJobs
    <3>4. \/ job' = [job EXCEPT ![a] = NoJob]
          \/ job' = [job EXCEPT ![a] = [job[a] EXCEPT !.at = "push"]]
      BY <1>4 DEF ClientCommit
    <3> QED
      BY <3>2, <3>3, <3>4 DEF IInv, TypeOK
  <2> QED
    BY <2>1 DEF JobTypes
<1>5. ASSUME NEW a \in Admins, ClientPush(a)
      PROVE  JobTypes'
  <2>1. job' \in [Admins -> Jobs]
    <3>1. job[a] \in ClientJobs
      BY <1>5 DEF IInv, TypeOK, ClientPush, Jobs, NoJob, ClientJobs
    <3>2. [job[a] EXCEPT !.at = "advance"] \in ClientJobs
      BY <3>1 DEF ClientJobs
    <3>3. NoJob \in Jobs /\ ClientJobs \subseteq Jobs
      BY DEF Jobs, ClientJobs
    <3>4. \/ job' = [job EXCEPT ![a] = NoJob]
          \/ job' = [job EXCEPT ![a] = [job[a] EXCEPT !.at = "advance"]]
      <4>1. job \in [Admins -> Jobs]
        BY DEF IInv, TypeOK
      <4> QED
        BY <1>5, <4>1 DEF ClientPush
    <3> QED
      BY <3>2, <3>3, <3>4 DEF IInv, TypeOK
  <2> QED
    BY <2>1 DEF JobTypes
<1>6. ASSUME NEW a \in Admins, Advance(a)
      PROVE  JobTypes'
  BY <1>6 DEF IInv, TypeOK, JobTypes, Jobs, NoJob, Inbounds, Contents, Advance,
          Edited
<1>7. ASSUME NEW a \in Admins, InboundPush(a)
      PROVE  JobTypes'
  BY <1>7 DEF IInv, TypeOK, JobTypes, Jobs, NoJob, Inbounds, Contents, InboundPush,
          Fault
<1>8. ASSUME Restart
      PROVE  JobTypes'
  BY <1>8 DEF IInv, TypeOK, JobTypes, Jobs, NoJob, Inbounds, Contents, Restart
<1>9. CASE \/ (\E a \in Admins, t \in Tags : SaveInbound(a, t))
           \/ (\E a \in Admins, m \in {"all", "selected"}, s \in SUBSET Tags : SaveNode(a, m, s))
           \/ (\E x \in Clients : TombstoneExpires(x))
           \/ (\E t \in Tags : NodeEdit(t)) \/ Load \/ ReadRows \/ List
           \/ SweepStart \/ ClearDirty \/ (\E t \in Tags : Push(t))
           \/ (\E t \in Tags : Acknowledge(t)) \/ (\E t \in Tags : Sweep(t))
           \/ Fetch \/ Sample \/ Merge \/ MergeFails \/ Record \/ MarkAdopted
  BY <1>9, <1>1 DEF SaveInbound, SaveNode, TombstoneExpires, NodeEdit, Load,
          ReadRows, List, SweepStart, ClearDirty, Push, Acknowledge, Sweep, Fetch,
          Sample, Merge, MergeFails, Record, MarkAdopted
<1> QED
  <2>1. sel \in SUBSET Tags
    BY DEF IInv, TypeOK
  <2> QED
    BY <1>1, <1>2, <1>3, <1>4, <1>5, <1>6, <1>7, <1>8, <1>9, <2>1
    DEF Next, Edit, Finish, SyncOne

\* A tick reads the inbounds after the row it clears the flag with, and only a
\* sweep clears it.
LEMMA StampStep ==
    ASSUME IInv, Next
    PROVE  StampInv'
<1> USE SyncAssumption
<1>1. ASSUME UNCHANGED <<dirty, stale, sync>>
      PROVE  StampInv'
  BY <1>1 DEF IInv, TypeOK, StampInv
<1>2. ASSUME NEW a \in Admins, NEW t \in Tags, SaveInbound(a, t)
      PROVE  StampInv'
  BY <1>2 DEF IInv, TypeOK, StampInv, SaveInbound, Stamp, AllowTag, Idle
<1>3. ASSUME NEW a \in Admins, NEW t \in Tags, DelInbound(a, t)
      PROVE  StampInv'
  BY <1>3 DEF IInv, TypeOK, StampInv, DelInbound, Stamp, Idle
<1>4. ASSUME NEW a \in Admins, NEW m \in {"all", "selected"}, NEW s \in SUBSET Tags, SaveNode(a, m, s)
      PROVE  StampInv'
  BY <1>4 DEF IInv, TypeOK, StampInv, SaveNode, Stamp, Idle, SelectionGrew
<1>5. ASSUME NEW a \in Admins, ClientCommit(a)
      PROVE  StampInv'
  BY <1>5 DEF IInv, TypeOK, StampInv, ClientCommit, Stamp, Edited
<1>6. ASSUME Load
      PROVE  StampInv'
  BY <1>6 DEF IInv, TypeOK, StampInv, Load, To
<1>7. ASSUME ReadRows
      PROVE  StampInv'
  BY <1>7 DEF IInv, TypeOK, StampInv, ReadRows, To
<1>8. ASSUME List
      PROVE  StampInv'
  BY <1>8 DEF IInv, TypeOK, StampInv, List, Fault, To
<1>9. ASSUME SweepStart
      PROVE  StampInv'
  BY <1>9 DEF IInv, TypeOK, StampInv, SweepStart, To, Unwanted, Managed
<1>10. ASSUME ClearDirty
      PROVE  StampInv'
  BY <1>10 DEF IInv, TypeOK, StampInv, ClearDirty, To
<1>11. ASSUME Fetch
      PROVE  StampInv'
  BY <1>11 DEF IInv, TypeOK, StampInv, Fetch, Fault, To, Managed
<1>12. ASSUME Sample
      PROVE  StampInv'
  BY <1>12 DEF IInv, TypeOK, StampInv, Sample, To
<1>13. ASSUME Merge
      PROVE  StampInv'
  BY <1>13 DEF IInv, TypeOK, StampInv, Merge, To, MergeDirty, Reported, Degraded,
          Merged, Gone, Managed
<1>14. ASSUME MergeFails
      PROVE  StampInv'
  BY <1>14 DEF IInv, TypeOK, StampInv, MergeFails, Fault, To
<1>15. ASSUME Record
      PROVE  StampInv'
  BY <1>15 DEF IInv, TypeOK, StampInv, Record, Stamp, To
<1>16. ASSUME MarkAdopted
      PROVE  StampInv'
  BY <1>16 DEF IInv, TypeOK, StampInv, MarkAdopted, To
<1>17. ASSUME Restart
      PROVE  StampInv'
  BY <1>17 DEF IInv, TypeOK, StampInv, Restart
<1>18. CASE \/ (\E a \in Admins, t \in Tags, x \in Clients : ClientBegin(a, t, x))
            \/ (\E a \in Admins : ClientPush(a)) \/ (\E a \in Admins : Advance(a))
            \/ (\E a \in Admins : InboundPush(a))
            \/ (\E x \in Clients : TombstoneExpires(x))
            \/ (\E t \in Tags : NodeEdit(t)) \/ (\E t \in Tags : Push(t))
            \/ (\E t \in Tags : Acknowledge(t)) \/ (\E t \in Tags : Sweep(t))
  BY <1>18, <1>1 DEF ClientBegin, ClientPush, Advance, InboundPush,
          TombstoneExpires, NodeEdit, Push, Acknowledge, Sweep
<1> QED
  <2>1. sel \in SUBSET Tags
    BY DEF IInv, TypeOK
  <2> QED
    BY <1>1, <1>2, <1>3, <1>4, <1>5, <1>6, <1>7, <1>8, <1>9, <1>10, <1>11, <1>12,
       <1>13, <1>14, <1>15, <1>16, <1>17, <1>18, <2>1
    DEF Next, Edit, Finish, SyncOne

\* A tick works with a mode and a selection the node has had.
LEMMA KnownStep ==
    ASSUME IInv, Next
    PROVE  KnownInv'
<1> USE SyncAssumption
<1>1. ASSUME UNCHANGED <<mode, sel, known, row, todo, sync>>
      PROVE  KnownInv'
  BY <1>1 DEF IInv, TypeOK, KnownInv, NoRow
<1>2. ASSUME NEW a \in Admins, NEW t \in Tags, SaveInbound(a, t)
      PROVE  KnownInv'
  BY <1>2 DEF IInv, TypeOK, KnownInv, NoRow, SaveInbound, Stamp, AllowTag, Idle
<1>3. ASSUME NEW a \in Admins, NEW m \in {"all", "selected"}, NEW s \in SUBSET Tags, SaveNode(a, m, s)
      PROVE  KnownInv'
  BY <1>3 DEF IInv, TypeOK, KnownInv, NoRow, SaveNode, Stamp, Idle, SelectionGrew
<1>4. ASSUME Load
      PROVE  KnownInv'
  BY <1>4 DEF IInv, TypeOK, KnownInv, NoRow, Load, To
<1>5. ASSUME ReadRows
      PROVE  KnownInv'
  BY <1>5 DEF IInv, TypeOK, KnownInv, NoRow, ReadRows, To
<1>6. ASSUME List
      PROVE  KnownInv'
  BY <1>6 DEF IInv, TypeOK, KnownInv, NoRow, List, Fault, To
<1>7. ASSUME SweepStart
      PROVE  KnownInv'
  BY <1>7 DEF IInv, TypeOK, KnownInv, NoRow, SweepStart, To, Unwanted, Managed
<1>8. ASSUME ClearDirty
      PROVE  KnownInv'
  BY <1>8 DEF IInv, TypeOK, KnownInv, NoRow, ClearDirty, To
<1>9. ASSUME NEW t \in Tags, Push(t)
      PROVE  KnownInv'
  BY <1>9 DEF IInv, TypeOK, KnownInv, NoRow, Push, Fault, UpToDate, Forgotten
<1>10. ASSUME NEW t \in Tags, Acknowledge(t)
      PROVE  KnownInv'
  BY <1>10 DEF IInv, TypeOK, KnownInv, NoRow, Acknowledge
<1>11. ASSUME NEW t \in Tags, Sweep(t)
      PROVE  KnownInv'
  BY <1>11 DEF IInv, TypeOK, KnownInv, NoRow, Sweep, Fault
<1>12. ASSUME Fetch
      PROVE  KnownInv'
  BY <1>12 DEF IInv, TypeOK, KnownInv, NoRow, Fetch, Fault, To, Managed
<1>13. ASSUME Sample
      PROVE  KnownInv'
  BY <1>13 DEF IInv, TypeOK, KnownInv, NoRow, Sample, To
<1>14. ASSUME Merge
      PROVE  KnownInv'
  BY <1>14 DEF IInv, TypeOK, KnownInv, NoRow, Merge, To, MergeDirty, Reported,
          Degraded, Merged, Gone, Managed
<1>15. ASSUME MergeFails
      PROVE  KnownInv'
  BY <1>15 DEF IInv, TypeOK, KnownInv, NoRow, MergeFails, Fault, To
<1>16. ASSUME Record
      PROVE  KnownInv'
  BY <1>16 DEF IInv, TypeOK, KnownInv, NoRow, Record, Stamp, To
<1>17. ASSUME MarkAdopted
      PROVE  KnownInv'
  BY <1>17 DEF IInv, TypeOK, KnownInv, NoRow, MarkAdopted, To
<1>18. ASSUME Restart
      PROVE  KnownInv'
  BY <1>18 DEF IInv, TypeOK, KnownInv, NoRow, Restart
<1>19. CASE \/ (\E a \in Admins, t \in Tags : DelInbound(a, t))
            \/ (\E a \in Admins, t \in Tags, x \in Clients : ClientBegin(a, t, x))
            \/ (\E a \in Admins : ClientCommit(a))
            \/ (\E a \in Admins : ClientPush(a)) \/ (\E a \in Admins : Advance(a))
            \/ (\E a \in Admins : InboundPush(a))
            \/ (\E x \in Clients : TombstoneExpires(x))
            \/ (\E t \in Tags : NodeEdit(t))
  BY <1>19, <1>1 DEF DelInbound, ClientBegin, ClientCommit, ClientPush, Advance,
          InboundPush, TombstoneExpires, NodeEdit
<1> QED
  <2>1. sel \in SUBSET Tags
    BY DEF IInv, TypeOK
  <2> QED
    BY <1>1, <1>2, <1>3, <1>4, <1>5, <1>6, <1>7, <1>8, <1>9, <1>10, <1>11, <1>12,
       <1>13, <1>14, <1>15, <1>16, <1>17, <1>18, <1>19, <2>1
    DEF Next, Edit, Finish, SyncOne

\* The row the tick works with goes stale by a stamp only.
LEMMA FreshStep ==
    ASSUME IInv, Next
    PROVE  FreshInv'
<1> USE SyncAssumption
<1>1. ASSUME UNCHANGED <<dirty, stale, mode, sel, sync, row, rows, central>>
      PROVE  FreshInv'
  BY <1>1 DEF IInv, TypeOK, FreshInv, NoRow
<1>2. ASSUME NEW a \in Admins, NEW t \in Tags, SaveInbound(a, t)
      PROVE  FreshInv'
  BY <1>2 DEF IInv, TypeOK, FreshInv, NoRow, SaveInbound, Stamp, AllowTag, Idle
<1>3. ASSUME NEW a \in Admins, NEW t \in Tags, DelInbound(a, t)
      PROVE  FreshInv'
  BY <1>3 DEF IInv, TypeOK, FreshInv, NoRow, DelInbound, Stamp, Idle
<1>4. ASSUME NEW a \in Admins, NEW m \in {"all", "selected"}, NEW s \in SUBSET Tags, SaveNode(a, m, s)
      PROVE  FreshInv'
  BY <1>4 DEF IInv, TypeOK, FreshInv, NoRow, SaveNode, Stamp, Idle, SelectionGrew
<1>5. ASSUME NEW a \in Admins, ClientCommit(a)
      PROVE  FreshInv'
  BY <1>5 DEF IInv, TypeOK, FreshInv, NoRow, ClientCommit, Stamp, Edited
<1>6. ASSUME Load
      PROVE  FreshInv'
  BY <1>6 DEF IInv, TypeOK, FreshInv, NoRow, Load, To
<1>7. ASSUME ReadRows
      PROVE  FreshInv'
  BY <1>7 DEF IInv, TypeOK, FreshInv, NoRow, ReadRows, To
<1>8. ASSUME List
      PROVE  FreshInv'
  BY <1>8 DEF IInv, TypeOK, FreshInv, NoRow, List, Fault, To
<1>9. ASSUME SweepStart
      PROVE  FreshInv'
  BY <1>9 DEF IInv, TypeOK, FreshInv, NoRow, SweepStart, To, Unwanted, Managed
<1>10. ASSUME ClearDirty
      PROVE  FreshInv'
  BY <1>10 DEF IInv, TypeOK, FreshInv, NoRow, ClearDirty, To
<1>11. ASSUME Fetch
      PROVE  FreshInv'
  BY <1>11 DEF IInv, TypeOK, FreshInv, NoRow, Fetch, Fault, To, Managed
<1>12. ASSUME Sample
      PROVE  FreshInv'
  BY <1>12 DEF IInv, TypeOK, FreshInv, NoRow, Sample, To
<1>13. ASSUME Merge
      PROVE  FreshInv'
  BY <1>13 DEF IInv, TypeOK, FreshInv, NoRow, Merge, To, MergeDirty, Reported,
          Degraded, Merged, Gone, Managed
<1>14. ASSUME MergeFails
      PROVE  FreshInv'
  BY <1>14 DEF IInv, TypeOK, FreshInv, NoRow, MergeFails, Fault, To
<1>15. ASSUME Record
      PROVE  FreshInv'
  BY <1>15 DEF IInv, TypeOK, FreshInv, NoRow, Record, Stamp, To
<1>16. ASSUME MarkAdopted
      PROVE  FreshInv'
  BY <1>16 DEF IInv, TypeOK, FreshInv, NoRow, MarkAdopted, To
<1>17. ASSUME Restart
      PROVE  FreshInv'
  BY <1>17 DEF IInv, TypeOK, FreshInv, NoRow, Restart
<1>18. CASE \/ (\E a \in Admins, t \in Tags, x \in Clients : ClientBegin(a, t, x))
            \/ (\E a \in Admins : ClientPush(a)) \/ (\E a \in Admins : Advance(a))
            \/ (\E a \in Admins : InboundPush(a))
            \/ (\E x \in Clients : TombstoneExpires(x))
            \/ (\E t \in Tags : NodeEdit(t)) \/ (\E t \in Tags : Push(t))
            \/ (\E t \in Tags : Acknowledge(t)) \/ (\E t \in Tags : Sweep(t))
  BY <1>18, <1>1 DEF ClientBegin, ClientPush, Advance, InboundPush,
          TombstoneExpires, NodeEdit, Push, Acknowledge, Sweep
<1> QED
  <2>1. sel \in SUBSET Tags
    BY DEF IInv, TypeOK
  <2> QED
    BY <1>1, <1>2, <1>3, <1>4, <1>5, <1>6, <1>7, <1>8, <1>9, <1>10, <1>11, <1>12,
       <1>13, <1>14, <1>15, <1>16, <1>17, <1>18, <2>1
    DEF Next, Edit, Finish, SyncOne

\* Inbounds leave the node by a sweep, which spares the rows, or are deleted there.
LEMMA PushedStep ==
    ASSUME IInv, Next
    PROVE  PushedInv'
<1> USE SyncAssumption
<1>1. ASSUME UNCHANGED <<remote, deletedOn, sync, sent, todo, rows, failed, listed>>
      PROVE  PushedInv'
  BY <1>1 DEF IInv, TypeOK, PushedInv, There, Inbounds, NoInbound, Jobs, NoJob
<1>2. ASSUME NEW a \in Admins, ClientPush(a)
      PROVE  PushedInv'
  <2>1. /\ \A t \in Tags : There(t) => There(t)'
        /\ UNCHANGED <<sync, sent, todo, rows, failed, listed>>
    BY <1>2, ClientPushSpares DEF ClientPush
  <2> QED
    BY <2>1 DEF IInv, TypeOK, PushedInv
<1>3. ASSUME NEW a \in Admins, InboundPush(a)
      PROVE  PushedInv'
  BY <1>3 DEF IInv, TypeOK, PushedInv, There, Inbounds, NoInbound, Jobs, NoJob,
          InboundPush, Fault
<1>4. ASSUME NEW t \in Tags, NodeEdit(t)
      PROVE  PushedInv'
  BY <1>4 DEF IInv, TypeOK, PushedInv, There, Inbounds, NoInbound, Jobs, NoJob,
          NodeEdit
<1>5. ASSUME Load
      PROVE  PushedInv'
  BY <1>5 DEF IInv, TypeOK, PushedInv, There, Inbounds, NoInbound, Jobs, NoJob,
          Load, To
<1>6. ASSUME ReadRows
      PROVE  PushedInv'
  BY <1>6 DEF IInv, TypeOK, PushedInv, There, Inbounds, NoInbound, Jobs, NoJob,
          ReadRows, To
<1>7. ASSUME List
      PROVE  PushedInv'
  BY <1>7 DEF IInv, TypeOK, PushedInv, There, Inbounds, NoInbound, Jobs, NoJob,
          List, Fault, To
<1>8. ASSUME SweepStart
      PROVE  PushedInv'
  <2>1. sync = "push" /\ todo = {} /\ sync' = "sweep" /\ todo' = Unwanted
        /\ UNCHANGED <<remote, deletedOn, sent, rows, failed, listed>>
    BY <1>8 DEF SweepStart, To
  <2>2. sent = {}
    BY <2>1 DEF IInv, PushedInv
  <2>3. \A t \in todo' : rows'[t] = Absent
    BY <2>1 DEF Unwanted
  <2>4. \A t \in Tags : rows[t] # Absent => failed \/ There(t)
    BY <2>1 DEF IInv, TypeOK, PushedInv, There
  <2> QED
    BY <2>1, <2>2, <2>3, <2>4 DEF PushedInv, There
<1>9. ASSUME ClearDirty
      PROVE  PushedInv'
  BY <1>9 DEF IInv, TypeOK, PushedInv, There, Inbounds, NoInbound, Jobs, NoJob,
          ClearDirty, To
<1>10. ASSUME NEW t \in Tags, Push(t)
      PROVE  PushedInv'
  <2>1. /\ sync = "push" /\ sent = {} /\ t \in todo /\ UNCHANGED <<sync, rows, listed>>
        /\ rows[t] # Absent /\ rows[t] \in Contents
    BY <1>10 DEF Push, IInv, TypeOK, PushedInv, Inbounds
  <2>2. CASE UpToDate(t)
    <3>1. /\ todo' = todo \ {t} /\ UNCHANGED <<remote, sent, failed, deletedOn>>
          /\ t \in listed
      BY <1>10, <2>2 DEF Push, UpToDate
    <3> QED
      BY <2>1, <3>1 DEF IInv, TypeOK, PushedInv, There
  <2>3. CASE remote' = [remote EXCEPT ![t] = rows[t]] /\ ~ UpToDate(t)
             /\ deletedOn' = deletedOn \ {t}
    <3>1. There(t)' /\ \A u \in Tags \ {t} : There(u) => There(u)'
      BY <2>1, <2>3 DEF IInv, TypeOK, Inbounds, There
    <3>2. \/ sent' = {t} /\ UNCHANGED <<todo, failed>>
          \/ sent' = sent /\ failed' /\ todo' = todo \ {t}
      BY <1>10, <2>1, <2>3 DEF Push
    <3> QED
      BY <2>1, <3>1, <3>2 DEF IInv, TypeOK, PushedInv, There
  <2>4. CASE UNCHANGED <<remote, sent, deletedOn>> /\ failed' /\ todo' = todo \ {t}
    BY <2>1, <2>4 DEF IInv, TypeOK, PushedInv, There
  <2> QED
    BY <1>10, <2>2, <2>3, <2>4 DEF Push
<1>11. ASSUME NEW t \in Tags, Acknowledge(t)
      PROVE  PushedInv'
  <2>1. sync = "push" /\ t \in sent /\ sent' = {} /\ todo' = todo \ {t}
        /\ UNCHANGED <<remote, deletedOn, sync, rows, failed, listed>>
    BY <1>11 DEF Acknowledge, IInv, PushedInv
  <2>2. \A u \in Tags : rows[u] # Absent /\ u \notin todo' => failed \/ There(u)
    BY <2>1 DEF IInv, TypeOK, PushedInv, There
  <2> QED
    BY <2>1, <2>2 DEF IInv, TypeOK, PushedInv, There
<1>12. ASSUME NEW t \in Tags, Sweep(t)
      PROVE  PushedInv'
  BY <1>12 DEF IInv, TypeOK, PushedInv, There, Inbounds, NoInbound, Jobs, NoJob,
          Sweep, Fault
<1>13. ASSUME Fetch
      PROVE  PushedInv'
  BY <1>13 DEF IInv, TypeOK, PushedInv, There, Inbounds, NoInbound, Jobs, NoJob,
          Fetch, Fault, To, Managed
<1>14. ASSUME Sample
      PROVE  PushedInv'
  BY <1>14 DEF IInv, TypeOK, PushedInv, There, Inbounds, NoInbound, Jobs, NoJob,
          Sample, To
<1>15. ASSUME Merge
      PROVE  PushedInv'
  BY <1>15 DEF IInv, TypeOK, PushedInv, There, Inbounds, NoInbound, Jobs, NoJob,
          Merge, To, MergeDirty, Reported, Degraded, Merged, Gone, Managed
<1>16. ASSUME MergeFails
      PROVE  PushedInv'
  BY <1>16 DEF IInv, TypeOK, PushedInv, There, Inbounds, NoInbound, Jobs, NoJob,
          MergeFails, Fault, To
<1>17. ASSUME Record
      PROVE  PushedInv'
  BY <1>17 DEF IInv, TypeOK, PushedInv, There, Inbounds, NoInbound, Jobs, NoJob,
          Record, Stamp, To
<1>18. ASSUME MarkAdopted
      PROVE  PushedInv'
  BY <1>18 DEF IInv, TypeOK, PushedInv, There, Inbounds, NoInbound, Jobs, NoJob,
          MarkAdopted, To
<1>19. ASSUME Restart
      PROVE  PushedInv'
  BY <1>19 DEF IInv, TypeOK, PushedInv, There, Inbounds, NoInbound, Jobs, NoJob,
          Restart
<1>20. CASE \/ (\E a \in Admins, t \in Tags : SaveInbound(a, t))
            \/ (\E a \in Admins, t \in Tags : DelInbound(a, t))
            \/ (\E a \in Admins, t \in Tags, x \in Clients : ClientBegin(a, t, x))
            \/ (\E a \in Admins, m \in {"all", "selected"}, s \in SUBSET Tags : SaveNode(a, m, s))
            \/ (\E a \in Admins : ClientCommit(a)) \/ (\E a \in Admins : Advance(a))
            \/ (\E x \in Clients : TombstoneExpires(x))
  BY <1>20, <1>1 DEF SaveInbound, DelInbound, ClientBegin, SaveNode, ClientCommit,
          Advance, TombstoneExpires
<1> QED
  <2>1. sel \in SUBSET Tags
    BY DEF IInv, TypeOK
  <2> QED
    BY <1>1, <1>2, <1>3, <1>4, <1>5, <1>6, <1>7, <1>8, <1>9, <1>10, <1>11, <1>12,
       <1>13, <1>14, <1>15, <1>16, <1>17, <1>18, <1>19, <1>20, <2>1
    DEF Next, Edit, Finish, SyncOne

\* The flag is cleared when all the rows were pushed.
LEMMA KeptStep ==
    ASSUME IInv, Next
    PROVE  KeptInv'
<1> USE SyncAssumption
<1>1. ASSUME UNCHANGED <<dirty, central, remote, deletedOn>>
      PROVE  KeptInv'
  BY <1>1 DEF IInv, TypeOK, StampInv, FreshInv, PushedInv, SnapInv, KeptInv, There,
          Inbounds, Jobs, NoJob
<1>2. ASSUME NEW a \in Admins, NEW t \in Tags, SaveInbound(a, t)
      PROVE  KeptInv'
  BY <1>2 DEF IInv, TypeOK, StampInv, FreshInv, PushedInv, SnapInv, KeptInv, There,
          Inbounds, Jobs, NoJob, SaveInbound, Stamp, AllowTag, Idle
<1>3. ASSUME NEW a \in Admins, NEW t \in Tags, DelInbound(a, t)
      PROVE  KeptInv'
  BY <1>3 DEF IInv, TypeOK, StampInv, FreshInv, PushedInv, SnapInv, KeptInv, There,
          Inbounds, Jobs, NoJob, DelInbound, Stamp, Idle
<1>4. ASSUME NEW a \in Admins, NEW m \in {"all", "selected"}, NEW s \in SUBSET Tags, SaveNode(a, m, s)
      PROVE  KeptInv'
  BY <1>4 DEF IInv, TypeOK, StampInv, FreshInv, PushedInv, SnapInv, KeptInv, There,
          Inbounds, Jobs, NoJob, SaveNode, Stamp, Idle, SelectionGrew
<1>5. ASSUME NEW a \in Admins, ClientCommit(a)
      PROVE  KeptInv'
  BY <1>5 DEF IInv, TypeOK, StampInv, FreshInv, PushedInv, SnapInv, KeptInv, There,
          Inbounds, Jobs, NoJob, ClientCommit, Stamp, Edited
<1>6. ASSUME NEW a \in Admins, ClientPush(a)
      PROVE  KeptInv'
  <2>1. (\A t \in Tags : There(t) => There(t)') /\ UNCHANGED <<dirty, central>>
    BY <1>6, ClientPushSpares DEF ClientPush
  <2> QED
    BY <2>1 DEF IInv, KeptInv
<1>7. ASSUME NEW a \in Admins, InboundPush(a)
      PROVE  KeptInv'
  BY <1>7 DEF IInv, TypeOK, StampInv, FreshInv, PushedInv, SnapInv, KeptInv, There,
          Inbounds, Jobs, NoJob, InboundPush, Fault
<1>8. ASSUME NEW t \in Tags, NodeEdit(t)
      PROVE  KeptInv'
  BY <1>8 DEF IInv, TypeOK, StampInv, FreshInv, PushedInv, SnapInv, KeptInv, There,
          Inbounds, Jobs, NoJob, NodeEdit
<1>9. ASSUME ClearDirty
      PROVE  KeptInv'
  BY <1>9 DEF IInv, TypeOK, StampInv, FreshInv, PushedInv, SnapInv, KeptInv, There,
          Inbounds, Jobs, NoJob, ClearDirty, To
<1>10. ASSUME NEW t \in Tags, Push(t)
      PROVE  KeptInv'
  BY <1>10 DEF IInv, TypeOK, StampInv, FreshInv, PushedInv, SnapInv, KeptInv, There,
          Inbounds, Jobs, NoJob, Push, Fault, UpToDate, Forgotten
<1>11. ASSUME NEW t \in Tags, Sweep(t)
      PROVE  KeptInv'
  BY <1>11 DEF IInv, TypeOK, StampInv, FreshInv, PushedInv, SnapInv, KeptInv, There,
          Inbounds, Jobs, NoJob, Sweep, Fault
<1>12. ASSUME Merge
      PROVE  KeptInv'
  BY <1>12 DEF IInv, TypeOK, StampInv, FreshInv, PushedInv, SnapInv, KeptInv, There,
          Inbounds, Jobs, NoJob, Merge, To, MergeDirty, Reported, Degraded, Merged,
          Gone, Managed
<1>13. ASSUME Record
      PROVE  KeptInv'
  BY <1>13 DEF IInv, TypeOK, StampInv, FreshInv, PushedInv, SnapInv, KeptInv, There,
          Inbounds, Jobs, NoJob, Record, Stamp, To
<1>14. CASE \/ (\E a \in Admins, t \in Tags, x \in Clients : ClientBegin(a, t, x))
            \/ (\E a \in Admins : Advance(a))
            \/ (\E x \in Clients : TombstoneExpires(x)) \/ Load \/ ReadRows \/ List
            \/ SweepStart \/ (\E t \in Tags : Acknowledge(t)) \/ Fetch \/ Sample
            \/ MergeFails \/ MarkAdopted \/ Restart
  BY <1>14, <1>1 DEF ClientBegin, Advance, TombstoneExpires, Load, ReadRows, List,
          SweepStart, Acknowledge, Fetch, Sample, MergeFails, MarkAdopted, Restart
<1> QED
  <2>1. sel \in SUBSET Tags
    BY DEF IInv, TypeOK
  <2> QED
    BY <1>1, <1>2, <1>3, <1>4, <1>5, <1>6, <1>7, <1>8, <1>9, <1>10, <1>11, <1>12,
       <1>13, <1>14, <2>1
    DEF Next, Edit, Finish, SyncOne

\* A snapshot is compared with the rows of a node that was not dirty.
LEMMA SnapStep ==
    ASSUME IInv, Next
    PROVE  SnapInv'
<1> USE SyncAssumption
<1>1. ASSUME UNCHANGED <<dirty, central, snap, sync, mode, sel, remote, deletedOn>>
      PROVE  SnapInv'
  BY <1>1 DEF IInv, TypeOK, FreshInv, KeptInv, SnapInv, There, Gone, Reported,
          Managed, Inbounds, NoInbound, Jobs, NoJob
<1>2. ASSUME NEW a \in Admins, NEW t \in Tags, SaveInbound(a, t)
      PROVE  SnapInv'
  BY <1>2 DEF IInv, TypeOK, FreshInv, KeptInv, SnapInv, There, Gone, Reported,
          Managed, Inbounds, NoInbound, Jobs, NoJob, SaveInbound, Stamp, AllowTag,
          Idle
<1>3. ASSUME NEW a \in Admins, NEW t \in Tags, DelInbound(a, t)
      PROVE  SnapInv'
  BY <1>3 DEF IInv, TypeOK, FreshInv, KeptInv, SnapInv, There, Gone, Reported,
          Managed, Inbounds, NoInbound, Jobs, NoJob, DelInbound, Stamp, Idle
<1>4. ASSUME NEW a \in Admins, NEW m \in {"all", "selected"}, NEW s \in SUBSET Tags, SaveNode(a, m, s)
      PROVE  SnapInv'
  BY <1>4 DEF IInv, TypeOK, FreshInv, KeptInv, SnapInv, There, Gone, Reported,
          Managed, Inbounds, NoInbound, Jobs, NoJob, SaveNode, Stamp, Idle,
          SelectionGrew
<1>5. ASSUME NEW a \in Admins, ClientCommit(a)
      PROVE  SnapInv'
  BY <1>5 DEF IInv, TypeOK, FreshInv, KeptInv, SnapInv, There, Gone, Reported,
          Managed, Inbounds, NoInbound, Jobs, NoJob, ClientCommit, Stamp, Edited
<1>6. ASSUME NEW a \in Admins, ClientPush(a)
      PROVE  SnapInv'
  <2>1. (\A t \in Tags : There(t) => There(t)')
        /\ UNCHANGED <<dirty, central, snap, sync, mode, sel, deletedOn>>
    BY <1>6, ClientPushSpares DEF ClientPush
  <2> QED
    BY <2>1 DEF IInv, SnapInv, Gone, Reported, Managed
<1>7. ASSUME NEW a \in Admins, InboundPush(a)
      PROVE  SnapInv'
  BY <1>7 DEF IInv, TypeOK, FreshInv, KeptInv, SnapInv, There, Gone, Reported,
          Managed, Inbounds, NoInbound, Jobs, NoJob, InboundPush, Fault
<1>8. ASSUME NEW t \in Tags, NodeEdit(t)
      PROVE  SnapInv'
  BY <1>8 DEF IInv, TypeOK, FreshInv, KeptInv, SnapInv, There, Gone, Reported,
          Managed, Inbounds, NoInbound, Jobs, NoJob, NodeEdit
<1>9. ASSUME Load
      PROVE  SnapInv'
  BY <1>9 DEF IInv, TypeOK, FreshInv, KeptInv, SnapInv, There, Gone, Reported,
          Managed, Inbounds, NoInbound, Jobs, NoJob, Load, To
<1>10. ASSUME ReadRows
      PROVE  SnapInv'
  BY <1>10 DEF IInv, TypeOK, FreshInv, KeptInv, SnapInv, There, Gone, Reported,
          Managed, Inbounds, NoInbound, Jobs, NoJob, ReadRows, To
<1>11. ASSUME List
      PROVE  SnapInv'
  BY <1>11 DEF IInv, TypeOK, FreshInv, KeptInv, SnapInv, There, Gone, Reported,
          Managed, Inbounds, NoInbound, Jobs, NoJob, List, Fault, To
<1>12. ASSUME SweepStart
      PROVE  SnapInv'
  BY <1>12 DEF IInv, TypeOK, FreshInv, KeptInv, SnapInv, There, Gone, Reported,
          Managed, Inbounds, NoInbound, Jobs, NoJob, SweepStart, To, Unwanted
<1>13. ASSUME ClearDirty
      PROVE  SnapInv'
  BY <1>13 DEF IInv, TypeOK, FreshInv, KeptInv, SnapInv, There, Gone, Reported,
          Managed, Inbounds, NoInbound, Jobs, NoJob, ClearDirty, To
<1>14. ASSUME NEW t \in Tags, Push(t)
      PROVE  SnapInv'
  BY <1>14 DEF IInv, TypeOK, FreshInv, KeptInv, SnapInv, There, Gone, Reported,
          Managed, Inbounds, NoInbound, Jobs, NoJob, Push, Fault, UpToDate,
          Forgotten
<1>15. ASSUME NEW t \in Tags, Sweep(t)
      PROVE  SnapInv'
  BY <1>15 DEF IInv, TypeOK, FreshInv, KeptInv, SnapInv, There, Gone, Reported,
          Managed, Inbounds, NoInbound, Jobs, NoJob, Sweep, Fault
<1>16. ASSUME Fetch
      PROVE  SnapInv'
  BY <1>16 DEF IInv, TypeOK, FreshInv, KeptInv, SnapInv, There, Gone, Reported,
          Managed, Inbounds, NoInbound, Jobs, NoJob, Fetch, Fault, To
<1>17. ASSUME Sample
      PROVE  SnapInv'
  BY <1>17 DEF IInv, TypeOK, FreshInv, KeptInv, SnapInv, There, Gone, Reported,
          Managed, Inbounds, NoInbound, Jobs, NoJob, Sample, To
<1>18. ASSUME Merge
      PROVE  SnapInv'
  BY <1>18 DEF IInv, TypeOK, FreshInv, KeptInv, SnapInv, There, Gone, Reported,
          Managed, Inbounds, NoInbound, Jobs, NoJob, Merge, To, MergeDirty,
          Degraded, Merged
<1>19. ASSUME MergeFails
      PROVE  SnapInv'
  BY <1>19 DEF IInv, TypeOK, FreshInv, KeptInv, SnapInv, There, Gone, Reported,
          Managed, Inbounds, NoInbound, Jobs, NoJob, MergeFails, Fault, To
<1>20. ASSUME Record
      PROVE  SnapInv'
  BY <1>20 DEF IInv, TypeOK, FreshInv, KeptInv, SnapInv, There, Gone, Reported,
          Managed, Inbounds, NoInbound, Jobs, NoJob, Record, Stamp, To
<1>21. ASSUME MarkAdopted
      PROVE  SnapInv'
  BY <1>21 DEF IInv, TypeOK, FreshInv, KeptInv, SnapInv, There, Gone, Reported,
          Managed, Inbounds, NoInbound, Jobs, NoJob, MarkAdopted, To
<1>22. ASSUME Restart
      PROVE  SnapInv'
  BY <1>22 DEF IInv, TypeOK, FreshInv, KeptInv, SnapInv, There, Gone, Reported,
          Managed, Inbounds, NoInbound, Jobs, NoJob, Restart
<1>23. CASE \/ (\E a \in Admins, t \in Tags, x \in Clients : ClientBegin(a, t, x))
            \/ (\E a \in Admins : Advance(a))
            \/ (\E x \in Clients : TombstoneExpires(x))
            \/ (\E t \in Tags : Acknowledge(t))
  BY <1>23, <1>1 DEF ClientBegin, Advance, TombstoneExpires, Acknowledge
<1> QED
  <2>1. sel \in SUBSET Tags
    BY DEF IInv, TypeOK
  <2> QED
    BY <1>1, <1>2, <1>3, <1>4, <1>5, <1>6, <1>7, <1>8, <1>9, <1>10, <1>11, <1>12,
       <1>13, <1>14, <1>15, <1>16, <1>17, <1>18, <1>19, <1>20, <1>21, <1>22, <1>23, <2>1
    DEF Next, Edit, Finish, SyncOne

-----------------------------------------------------------------------------
\* A node that has just been added, with the inbounds it serves already.
LEMMA InitInv == Init => IInv
<1> SUFFICES ASSUME Init
             PROVE  IInv
  OBVIOUS
<1> USE SyncAssumption
<1>1. dirty \in BOOLEAN /\ adopted \in BOOLEAN /\ failed \in BOOLEAN /\ sampled \in BOOLEAN
  BY Zenon DEF Init
<1>2. /\ central \in Inbounds /\ remote \in Inbounds /\ rows \in Inbounds
      /\ snap \in Inbounds /\ news \in Inbounds
      /\ fp \in [1..MaxGen -> Inbounds] /\ gen \in 1..MaxGen /\ rt \in 1..MaxGen
  BY DEF Init, Inbounds, NoInbound
<1>3. job \in [Admins -> Jobs] /\ row \in [dirty : BOOLEAN, adopted : BOOLEAN,
                                           mode : {"all", "selected"}, sel : SUBSET Tags]
  BY DEF Init, Jobs, NoJob, NoRow
<1>4. mode \in {"all", "selected"} /\ sel \subseteq Tags /\ known \subseteq Tags
  BY DEF Init
<1>5. TypeOK
  BY <1>1, <1>2, <1>3, <1>4 DEF Init, TypeOK
<1>6. StampInv /\ KnownInv
  BY DEF Init, StampInv, KnownInv, NoRow
<1>7. FreshInv /\ PushedInv /\ KeptInv /\ SnapInv
  BY DEF Init, FreshInv, PushedInv, KeptInv, SnapInv, NoInbound
<1> QED
  BY <1>5, <1>6, <1>7 DEF IInv

\* A step that changes nothing keeps the invariant.
LEMMA Stutter ==
    ASSUME IInv, UNCHANGED vars
    PROVE  IInv'
BY DEF vars, IInv, TypeOK, StampInv, KnownInv, FreshInv, PushedInv, KeptInv, SnapInv, There,
       Gone, Reported, Managed

\* Every step keeps the invariant.
LEMMA NextInv == IInv /\ [Next]_vars => IInv'
<1> SUFFICES ASSUME IInv, [Next]_vars
             PROVE  IInv'
  OBVIOUS
<1>1. CASE Next
  <2>1. TypeOK'
    BY <1>1, DataStep, FlagStep, RowStep, JobStep
    DEF TypeOK, DataTypes, FlagTypes, RowTypes, JobTypes
  <2> QED
    BY <1>1, <2>1, StampStep, KnownStep, FreshStep, PushedStep, KeptStep, SnapStep DEF IInv
<1>2. CASE UNCHANGED vars
  BY <1>2, Stutter
<1> QED
  BY <1>1, <1>2

\* So it holds for ever.
LEMMA Invariance == Spec => []IInv
  BY InitInv, NextInv, PTL DEF Spec
-----------------------------------------------------------------------------
\* Every variable of the node sync has its type, and every Remote in use exists.
THEOREM TypeCorrect == Spec => []TypeOK
<1>1. IInv => TypeOK
  BY DEF IInv
<1> QED
  BY <1>1, Invariance, PTL

\* Only the end of a reconcile takes the flag down.
LEMMA OnlyClear ==
    ASSUME IInv, [Next]_vars, dirty, ~ dirty'
    PROVE  ClearDirty
<1>1. ~ UNCHANGED vars
  BY DEF vars
<1>2. ASSUME NEW a \in Admins, Edit(a) \/ Finish(a)
      PROVE  FALSE
  BY <1>2 DEF Edit, Finish, SaveInbound, DelInbound, ClientBegin, SaveNode, ClientCommit,
              ClientPush, Advance, InboundPush, Stamp
<1>3. ASSUME \/ \E x \in Clients : TombstoneExpires(x)
             \/ \E t \in Tags : NodeEdit(t)
             \/ Restart
      PROVE  FALSE
  BY <1>3 DEF TombstoneExpires, NodeEdit, Restart
<1>4. ASSUME SyncOne
      PROVE  ClearDirty
  BY <1>4 DEF SyncOne, Load, ReadRows, List, SweepStart, Push, Acknowledge, Sweep, Fetch,
              Sample, Merge, MergeFails, Record, MarkAdopted, Stamp
<1> QED
  BY <1>1, <1>2, <1>3, <1>4 DEF Next

\* Only the commit of a merge takes the tick from the merge to what is recorded after it.
LEMMA OnlyMerge ==
    ASSUME [Next]_vars, Merging
    PROVE  Merge
<1>1. sync = "merge" /\ sync' = "record"
  BY DEF Merging
<1>2. ~ UNCHANGED vars
  BY <1>1 DEF vars
<1>3. ASSUME NEW a \in Admins, Edit(a) \/ Finish(a)
      PROVE  FALSE
  BY <1>1, <1>3 DEF Edit, Finish, SaveInbound, DelInbound, ClientBegin, SaveNode, ClientCommit,
                    ClientPush, Advance, InboundPush
<1>4. ASSUME \/ \E x \in Clients : TombstoneExpires(x)
             \/ \E t \in Tags : NodeEdit(t)
             \/ Restart
      PROVE  FALSE
  BY <1>1, <1>4 DEF TombstoneExpires, NodeEdit, Restart
<1>5. ASSUME SyncOne
      PROVE  Merge
  BY <1>1, <1>5 DEF SyncOne, Load, ReadRows, List, SweepStart, ClearDirty, Push, Acknowledge,
                    Sweep, Fetch, Sample, MergeFails, Record, MarkAdopted, To
<1> QED
  BY <1>2, <1>3, <1>4, <1>5 DEF Next

\* ClearNodeDirty, which compares config_dirty_at with the stamp of the row the tick began
\* with, never clears the flag of an edit that ReconcileNode has not read: StampInv says that
\* inbounds read before an edit come with a row read before it.
THEOREM FlagCoversUnreadEdits == Spec => NoEditForgotten
<1>1. ASSUME IInv, [Next]_vars, dirty, ~ dirty'
      PROVE  "rows" \notin stale
  <2>1. ClearDirty
    BY <1>1, OnlyClear
  <2>2. sync = "sweep" /\ "row" \notin stale
    BY <1>1, <2>1 DEF ClearDirty
  <2> QED
    BY <1>1, <2>2 DEF IInv, StampInv
<1> QED
  BY <1>1, Invariance, PTL DEF Spec, NoEditForgotten

\* setRemoteTrafficLocked leaves the inbounds alone while an edit awaits its reconcile, and an
\* edit committed after the snapshot was taken still does so when the snapshot is merged.
THEOREM EditsOutliveSnapshots == Spec => MergeNeverOverridesAnEdit
<1>1. ASSUME IInv, [Next]_vars, Merging, central' # central
      PROVE  ~ dirty /\ "snapshot" \notin stale
  <2>1. Merge
    BY <1>1, OnlyMerge
  <2>2. ASSUME MergeDirty
        PROVE  FALSE
    <3>1. central' = [t \in Tags |-> central[t]]
      BY <2>1, <2>2 DEF Merge, Merged
    <3>2. central \in Inbounds
      BY <1>1 DEF IInv, TypeOK
    <3> QED
      BY <1>1, <3>1, <3>2 DEF Inbounds
  <2> QED
    BY <1>1, <2>2 DEF IInv, StampInv, MergeDirty, Merging
<1> QED
  BY <1>1, Invariance, PTL DEF Spec, MergeNeverOverridesAnEdit

\* A merge drops an inbound of the panel only if it was deleted on the node after a reconcile
\* had put it there, whatever pushes failed, whatever was edited, selected or restarted.
THEOREM NothingVanishesUnasked == Spec => DroppedOnlyIfDeleted
<1>1. ASSUME IInv, [Next]_vars
      PROVE  \A t \in Tags : Merging /\ central[t] # Absent /\ central'[t] = Absent
                              => t \in deletedOn
  <2> SUFFICES ASSUME NEW t \in Tags, Merging, central[t] # Absent, central'[t] = Absent
               PROVE  t \in deletedOn
    OBVIOUS
  <2>1. Merge
    BY <1>1, OnlyMerge
  <2>2. Merged(t) = Absent
    BY <2>1 DEF Merge
  <2>3. ~ MergeDirty /\ (Reported(t) => snap[t] \ tombs = Absent)
    BY <2>2 DEF Merged
  <2>4. ~ Reported(t)
    <3>1. Reported(t) => snap[t] \ tombs \in Contents
      BY <1>1 DEF IInv, TypeOK, Inbounds, Reported, Contents
    <3> QED
      BY <2>3, <3>1, SyncAssumption
  <2>5. Gone(t)
    BY <2>2, <2>3, <2>4 DEF Merged, Degraded
  <2> QED
    BY <1>1, <2>3, <2>5 DEF IInv, SnapInv, MergeDirty, Merging
<1> QED
  BY <1>1, Invariance, PTL DEF Spec, DroppedOnlyIfDeleted

\* A node that is not dirty holds every inbound of the panel that was not deleted there:
\* commits raise the flag in their own transaction, ClearNodeDirty takes it down only after
\* a reconcile that pushed all of them without an error, and merges import only what is there.
THEOREM CleanNodeIsComplete == Spec => []CleanNodeHasAll
<1>1. IInv => CleanNodeHasAll
  BY DEF IInv, KeptInv, There, CleanNodeHasAll
<1> QED
  BY <1>1, Invariance, PTL

\* ReconcileNode sweeps a tag off the node only if the panel managed it at some time.
THEOREM OthersAreLeftAlone == Spec => SweepsOnlyManaged
<1>1. ASSUME IInv, [Next]_vars
      PROVE  \A t \in Tags : SweptOff(t) => t \in known
  BY <1>1 DEF IInv, KnownInv, SweptOff
<1> QED
  BY <1>1, Invariance, PTL DEF Spec, SweepsOnlyManaged
=============================================================================
