------------------------ MODULE SidecarManagerProofs ------------------------
(***************************************************************************)
(* For any number of requests, hand-offs, entries, edits and faults: a     *)
(* child never outlives its entry unnoticed, and the fingerprint Ensure    *)
(* compares with is that of the child.                                     *)
(***************************************************************************)
EXTENDS SidecarManager, TLAPS

\* Whoever waits for a start lock, works under it or drains an entry has one; hand-offs that
\* have looked an entry up have the one that is registered.
EntInv ==
    /\ \A c \in Callers : pc[c] \in Working \union {"lock", "drain"} => ent[c] \in Entries
    /\ entry = None => \A w \in HandOffStages \ {"start"} : handOffs[w] = 0

\* Whoever has spawned a child finds his own, or it has exited.
SpawnInv == \A c \in Callers : pc[c] = "commit" => child[ent[c]] \in {0, want[c]}

\* The fingerprint of the entry is that of its child, or a launch has failed, or the
\* one that has just started the child is about to commit.
PrintInv ==
    \A e \in Entries :
        e = entry /\ child[e] # 0 =>
            fp[e] = child[e] \/ lied[e] \/ \E c \in Callers : ent[c] = e /\ pc[c] = "commit"

IInv == TypeOK /\ EntInv /\ NoStray /\ SpawnInv /\ PrintInv

-----------------------------------------------------------------------------
(* One lemma per part of the invariant. Where there is one, <1>1 is the frame: *)
(* what the steps that leave the variables of that part alone have in common.  *)

USE DEF rowVars, entryVars, pushFlags, callVars

\* Nobody takes a start lock that is held, and only who works under it has it.
LEMMA TypeStep ==
    ASSUME IInv, Next
    PROVE  TypeOK'
<1> USE SidecarAssumption
<1>1. ASSUME NEW c \in Requests, CoreStop(c)
      PROVE  TypeOK'
  BY <1>1 DEF IInv, TypeOK, EntInv, Callers, Versions, Working, CoreStop, Fault,
          Goto
<1>2. ASSUME NEW c \in Requests, NEW on \in BOOLEAN, NEW clients \in BOOLEAN, Edit(c, on, clients)
      PROVE  TypeOK'
  BY <1>2 DEF IInv, TypeOK, EntInv, Callers, Versions, Working, Edit, Goto
<1>3. ASSUME NEW c \in Callers, ReadRow(c)
      PROVE  TypeOK'
  BY <1>3 DEF IInv, TypeOK, EntInv, Callers, Versions, Working, ReadRow, Goto
<1>4. ASSUME NEW c \in Callers, Ensure(c)
      PROVE  TypeOK'
  <2>1. /\ db' \in Versions
        /\ edits' \in 0..MaxEdits
        /\ faults' \in 0..MaxFaults
        /\ entry' \in Entries \union {None}
        /\ fp' \in [Entries -> Versions]
        /\ pushError' \in [Entries -> BOOLEAN]
        /\ pushing' \in [Entries -> BOOLEAN]
        /\ child' \in [Entries -> Versions]
        /\ handOffs' \in [HandOffStages -> Nat]
        /\ lied' \in [Entries -> BOOLEAN]
        /\ stuck' \in [Entries -> BOOLEAN]
    BY <1>4 DEF IInv, TypeOK, Ensure
  <2>2. inst' \in [Entries -> Versions]
    BY <1>4 DEF IInv, TypeOK, EntInv, Callers, Versions, Working, Ensure, Goto,
            Return, Alive, NotDue, FastPath
  <2>3. deferred' \in [Entries -> BOOLEAN]
    BY <1>4 DEF IInv, TypeOK, EntInv, Callers, Versions, Working, Ensure, Goto,
            Return, Alive, NotDue, FastPath
  <2>4. startMu' \in [Entries -> Callers \union {None}]
    BY <1>4 DEF IInv, TypeOK, EntInv, Callers, Versions, Working, Ensure, Goto,
            Return, Alive, NotDue, FastPath
  <2>5. pc' \in [Callers -> {"idle", "apply", "ensure", "entry", "lock", "push", "remove", "drain"} \union Working]
    BY <1>4 DEF IInv, TypeOK, EntInv, Callers, Versions, Working, Ensure, Goto,
            Return, Alive, NotDue, FastPath
  <2>6. want' \in [Callers -> Versions] /\ ent' \in [Callers -> Entries \union {None}]
    BY <1>4 DEF IInv, TypeOK, EntInv, Callers, Versions, Working, Ensure, Goto,
            Return, Alive, NotDue, FastPath
  <2>7. \A d \in Callers : pc'[d] \in Working => startMu'[ent'[d]] = d
    BY <1>4 DEF IInv, TypeOK, EntInv, Callers, Versions, Working, Ensure, Goto,
            Return, Alive, NotDue, FastPath
  <2> QED
    BY <2>1, <2>2, <2>3, <2>4, <2>5, <2>6, <2>7 DEF TypeOK
<1>5. ASSUME NEW c \in Callers, Entry(c)
      PROVE  TypeOK'
  <2>1. /\ db' \in Versions
        /\ edits' \in 0..MaxEdits
        /\ faults' \in 0..MaxFaults
        /\ inst' \in [Entries -> Versions]
        /\ deferred' \in [Entries -> BOOLEAN]
        /\ pushError' \in [Entries -> BOOLEAN]
        /\ pushing' \in [Entries -> BOOLEAN]
        /\ startMu' \in [Entries -> Callers \union {None}]
        /\ child' \in [Entries -> Versions]
        /\ handOffs' \in [HandOffStages -> Nat]
        /\ lied' \in [Entries -> BOOLEAN]
        /\ stuck' \in [Entries -> BOOLEAN]
    BY <1>5 DEF IInv, TypeOK, Entry
  <2>2. entry' \in Entries \union {None}
    BY <1>5 DEF IInv, TypeOK, EntInv, Callers, Versions, Working, Entry, Goto,
            Unused
  <2>3. fp' \in [Entries -> Versions]
    <3>1. fp \in [Entries -> Versions] /\ want[c] \in Versions
      BY DEF IInv, TypeOK
    <3>2. \/ fp' = fp
          \/ fp' = [fp EXCEPT ![CHOOSE x \in Entries : Unused(x)] = want[c]]
      BY <1>5 DEF Entry
    <3> QED
      BY <3>1, <3>2
  <2>4. pc' \in [Callers -> {"idle", "apply", "ensure", "entry", "lock", "push", "remove", "drain"} \union Working]
    BY <1>5 DEF IInv, TypeOK, EntInv, Callers, Versions, Working, Entry, Goto,
            Unused
  <2>5. want' \in [Callers -> Versions] /\ ent' \in [Callers -> Entries \union {None}]
    BY <1>5 DEF IInv, TypeOK, EntInv, Callers, Versions, Working, Entry, Goto,
            Unused
  <2>6. \A d \in Callers : pc'[d] \in Working => startMu'[ent'[d]] = d
    BY <1>5 DEF IInv, TypeOK, EntInv, Callers, Versions, Working, Entry, Goto,
            Unused
  <2> QED
    BY <2>1, <2>2, <2>3, <2>4, <2>5, <2>6 DEF TypeOK
<1>6. ASSUME NEW c \in Callers, Lock(c)
      PROVE  TypeOK'
  <2>1. /\ db' \in Versions
        /\ edits' \in 0..MaxEdits
        /\ faults' \in 0..MaxFaults
        /\ entry' \in Entries \union {None}
        /\ fp' \in [Entries -> Versions]
        /\ pushError' \in [Entries -> BOOLEAN]
        /\ pushing' \in [Entries -> BOOLEAN]
        /\ child' \in [Entries -> Versions]
        /\ handOffs' \in [HandOffStages -> Nat]
        /\ lied' \in [Entries -> BOOLEAN]
        /\ stuck' \in [Entries -> BOOLEAN]
    BY <1>6 DEF IInv, TypeOK, Lock
  <2>2. inst' \in [Entries -> Versions]
    BY <1>6 DEF IInv, TypeOK, EntInv, Callers, Versions, Working, Lock, Goto,
            Return, Alive, NotDue, FastPath, Vanished, StartFree
  <2>3. deferred' \in [Entries -> BOOLEAN]
    BY <1>6 DEF IInv, TypeOK, EntInv, Callers, Versions, Working, Lock, Goto,
            Return, Alive, NotDue, FastPath, Vanished, StartFree
  <2>4. startMu' \in [Entries -> Callers \union {None}]
    BY <1>6 DEF IInv, TypeOK, EntInv, Callers, Versions, Working, Lock, Goto,
            Return, Alive, NotDue, FastPath, Vanished, StartFree
  <2>5. pc' \in [Callers -> {"idle", "apply", "ensure", "entry", "lock", "push", "remove", "drain"} \union Working]
    BY <1>6 DEF IInv, TypeOK, EntInv, Callers, Versions, Working, Lock, Goto,
            Return, Alive, NotDue, FastPath, Vanished, StartFree
  <2>6. want' \in [Callers -> Versions] /\ ent' \in [Callers -> Entries \union {None}]
    BY <1>6 DEF IInv, TypeOK, EntInv, Callers, Versions, Working, Lock, Goto,
            Return, Alive, NotDue, FastPath, Vanished, StartFree
  <2>7. \A d \in Callers : pc'[d] \in Working => startMu'[ent'[d]] = d
    BY <1>6 DEF IInv, TypeOK, EntInv, Callers, Versions, Working, Lock, Goto,
            Return, Alive, NotDue, FastPath, Vanished, StartFree
  <2> QED
    BY <2>1, <2>2, <2>3, <2>4, <2>5, <2>6, <2>7 DEF TypeOK
<1>7. ASSUME NEW c \in Callers, Refuse(c)
      PROVE  TypeOK'
  BY <1>7 DEF IInv, TypeOK, EntInv, Callers, Versions, Working, Refuse, Fault, Goto
<1>8. ASSUME NEW c \in Callers, StopOld(c)
      PROVE  TypeOK'
  <2>1. /\ entry' \in Entries \union {None}
        /\ inst' \in [Entries -> Versions]
        /\ fp' \in [Entries -> Versions]
        /\ deferred' \in [Entries -> BOOLEAN]
        /\ pushError' \in [Entries -> BOOLEAN]
        /\ pushing' \in [Entries -> BOOLEAN]
        /\ startMu' \in [Entries -> Callers \union {None}]
        /\ want' \in [Callers -> Versions]
        /\ ent' \in [Callers -> Entries \union {None}]
        /\ handOffs' \in [HandOffStages -> Nat]
    BY <1>8 DEF IInv, TypeOK, StopOld
  <2>2. db' \in Versions /\ edits' \in 0..MaxEdits /\ faults' \in 0..MaxFaults
    BY <1>8 DEF IInv, TypeOK, EntInv, Callers, Versions, Working, StopOld, Fault,
            Goto, Exit
  <2>3. child' \in [Entries -> Versions]
    BY <1>8 DEF IInv, TypeOK, EntInv, Callers, Versions, Working, StopOld, Fault,
            Goto, Exit
  <2>4. pc' \in [Callers -> {"idle", "apply", "ensure", "entry", "lock", "push", "remove", "drain"} \union Working]
    BY <1>8 DEF IInv, TypeOK, EntInv, Callers, Versions, Working, StopOld, Fault,
            Goto, Exit
  <2>5. lied' \in [Entries -> BOOLEAN] /\ stuck' \in [Entries -> BOOLEAN]
    <3>1. /\ lied' = lied \/ lied' = [lied EXCEPT ![ent[c]] = FALSE]
          /\ \/ stuck' = [stuck EXCEPT ![ent[c]] = FALSE]
             \/ stuck' = [stuck EXCEPT ![ent[c]] = TRUE]
      BY <1>8 DEF StopOld, Exit
    <3>2. lied \in [Entries -> BOOLEAN] /\ stuck \in [Entries -> BOOLEAN]
      BY DEF IInv, TypeOK
    <3>3. lied' \in [Entries -> BOOLEAN]
      BY <3>1, <3>2
    <3>4. stuck' \in [Entries -> BOOLEAN]
      BY <3>1, <3>2
    <3> QED
      BY <3>1, <3>2, <3>3, <3>4
  <2>6. \A d \in Callers : pc'[d] \in Working => startMu'[ent'[d]] = d
    BY <1>8 DEF IInv, TypeOK, EntInv, Callers, Versions, Working, StopOld, Fault,
            Goto, Exit
  <2> QED
    BY <2>1, <2>2, <2>3, <2>4, <2>5, <2>6 DEF TypeOK
<1>9. ASSUME NEW c \in Callers, Spawn(c)
      PROVE  TypeOK'
  BY <1>9 DEF IInv, TypeOK, EntInv, Callers, Versions, Working, Spawn, Fault, Goto
<1>10. ASSUME NEW c \in Callers, Commit(c)
      PROVE  TypeOK'
  BY <1>10 DEF IInv, TypeOK, EntInv, Callers, Versions, Working, Commit, Goto,
          Vanished
<1>11. ASSUME NEW c \in Callers, Failed(c)
      PROVE  TypeOK'
  BY <1>11 DEF IInv, TypeOK, EntInv, Callers, Versions, Working, Failed, Return,
          Vanished, Goto
<1>12. ASSUME NEW c \in Callers, Abandon(c)
      PROVE  TypeOK'
  BY <1>12 DEF IInv, TypeOK, EntInv, Callers, Versions, Working, Abandon, Return,
          Exit, Vanished, Goto
<1>13. ASSUME NEW c \in Callers, Remove(c)
      PROVE  TypeOK'
  BY <1>13 DEF IInv, TypeOK, EntInv, Callers, Versions, Working, Remove, Goto,
          Return, HandOffsEnd
<1>14. ASSUME NEW c \in Callers, Drain(c)
      PROVE  TypeOK'
  <2>1. /\ entry' \in Entries \union {None}
        /\ inst' \in [Entries -> Versions]
        /\ fp' \in [Entries -> Versions]
        /\ deferred' \in [Entries -> BOOLEAN]
        /\ pushError' \in [Entries -> BOOLEAN]
        /\ pushing' \in [Entries -> BOOLEAN]
        /\ handOffs' \in [HandOffStages -> Nat]
    BY <1>14 DEF IInv, TypeOK, Drain
  <2>2. db' \in Versions /\ edits' \in 0..MaxEdits /\ faults' \in 0..MaxFaults
    BY <1>14 DEF IInv, TypeOK, EntInv, Callers, Versions, Working, Drain, Fault,
            Return, Exit, StartFree, Goto
  <2>3. startMu' \in [Entries -> Callers \union {None}]
    BY <1>14 DEF IInv, TypeOK, EntInv, Callers, Versions, Working, Drain, Fault,
            Return, Exit, StartFree, Goto
  <2>4. child' \in [Entries -> Versions]
    BY <1>14 DEF IInv, TypeOK, EntInv, Callers, Versions, Working, Drain, Fault,
            Return, Exit, StartFree, Goto
  <2>5. pc' \in [Callers -> {"idle", "apply", "ensure", "entry", "lock", "push", "remove", "drain"} \union Working]
    BY <1>14 DEF IInv, TypeOK, EntInv, Callers, Versions, Working, Drain, Fault,
            Return, Exit, StartFree, Goto
  <2>6. want' \in [Callers -> Versions] /\ ent' \in [Callers -> Entries \union {None}]
    BY <1>14 DEF IInv, TypeOK, EntInv, Callers, Versions, Working, Drain, Fault,
            Return, Exit, StartFree, Goto
  <2>7. lied' \in [Entries -> BOOLEAN] /\ stuck' \in [Entries -> BOOLEAN]
    <3>1. /\ lied' = lied \/ lied' = [lied EXCEPT ![ent[c]] = FALSE]
          /\ \/ stuck' = [stuck EXCEPT ![ent[c]] = FALSE]
             \/ stuck' = [stuck EXCEPT ![ent[c]] = TRUE]
      BY <1>14 DEF Drain, Exit
    <3>2. lied \in [Entries -> BOOLEAN] /\ stuck \in [Entries -> BOOLEAN]
      BY DEF IInv, TypeOK
    <3>3. lied' \in [Entries -> BOOLEAN]
      BY <3>1, <3>2
    <3>4. stuck' \in [Entries -> BOOLEAN]
      BY <3>1, <3>2
    <3> QED
      BY <3>1, <3>2, <3>3, <3>4
  <2>8. \A d \in Callers : pc'[d] \in Working => startMu'[ent'[d]] = d
    BY <1>14 DEF IInv, TypeOK, EntInv, Callers, Versions, Working, Drain, Fault,
            Return, Exit, StartFree, Goto
  <2> QED
    BY <2>1, <2>2, <2>3, <2>4, <2>5, <2>6, <2>7, <2>8 DEF TypeOK
<1>15. ASSUME NEW c \in Callers, SchedulePush(c)
      PROVE  TypeOK'
  <2>1. /\ db' \in Versions
        /\ edits' \in 0..MaxEdits
        /\ faults' \in 0..MaxFaults
        /\ entry' \in Entries \union {None}
        /\ inst' \in [Entries -> Versions]
        /\ fp' \in [Entries -> Versions]
        /\ deferred' \in [Entries -> BOOLEAN]
        /\ child' \in [Entries -> Versions]
    BY <1>15 DEF IInv, TypeOK, SchedulePush
  <2>2. pushError' \in [Entries -> BOOLEAN] /\ pushing' \in [Entries -> BOOLEAN]
    <3>1. CASE entry = None \/ pushing[entry]
      BY <1>15, <3>1 DEF IInv, TypeOK, SchedulePush
    <3>2. CASE ~ (entry = None \/ pushing[entry])
      <4>1. pushing' = [pushing EXCEPT ![entry] = TRUE] /\ UNCHANGED pushError
        BY <1>15, <3>2 DEF SchedulePush
      <4> QED
        BY <4>1 DEF IInv, TypeOK
    <3> QED
      BY <3>1, <3>2
  <2>3. startMu' \in [Entries -> Callers \union {None}]
    BY <1>15 DEF IInv, TypeOK, EntInv, Callers, Versions, Working, SchedulePush,
            Return, Goto
  <2>4. pc' \in [Callers -> {"idle", "apply", "ensure", "entry", "lock", "push", "remove", "drain"} \union Working]
    BY <1>15 DEF IInv, TypeOK, EntInv, Callers, Versions, Working, SchedulePush,
            Return, Goto
  <2>5. want' \in [Callers -> Versions] /\ ent' \in [Callers -> Entries \union {None}]
    BY <1>15 DEF IInv, TypeOK, EntInv, Callers, Versions, Working, SchedulePush,
            Return, Goto
  <2>6. handOffs' \in [HandOffStages -> Nat]
    <3>1. CASE entry = None \/ pushing[entry]
      BY <1>15, <3>1 DEF IInv, TypeOK, SchedulePush
    <3>2. CASE ~ (entry = None \/ pushing[entry])
      <4>1. handOffs' = [handOffs EXCEPT !["start"] = @ + 1]
        BY <1>15, <3>2 DEF SchedulePush
      <4> QED
        BY <4>1 DEF IInv, TypeOK, HandOffStages
    <3> QED
      BY <3>1, <3>2
  <2>7. lied' \in [Entries -> BOOLEAN] /\ stuck' \in [Entries -> BOOLEAN]
    BY <1>15 DEF IInv, TypeOK, EntInv, Callers, Versions, Working, SchedulePush,
            Return, Goto
  <2>8. \A d \in Callers : pc'[d] \in Working => startMu'[ent'[d]] = d
    BY <1>15 DEF IInv, TypeOK, EntInv, Callers, Versions, Working, SchedulePush,
            Return, Goto
  <2> QED
    BY <2>1, <2>2, <2>3, <2>4, <2>5, <2>6, <2>7, <2>8 DEF TypeOK
<1>16. CASE Push
  <2>1. handOffs' \in [HandOffStages -> Nat]
    BY <1>16 DEF IInv, TypeOK, HandOffStages, Push, PushStart, PushTry, PushLands, PushFails,
            PushRecord, PushDone, Goes, Ends
  <2>2. pushError' \in [Entries -> BOOLEAN] /\ pushing' \in [Entries -> BOOLEAN]
    <3>1. /\ pushError' = pushError \/ \E b \in BOOLEAN : pushError' = [pushError EXCEPT ![entry] = b]
          /\ pushing' = pushing \/ pushing' = [pushing EXCEPT ![entry] = FALSE]
      BY <1>16 DEF Push, PushStart, PushTry, PushLands, PushFails, PushRecord, PushDone
    <3>2. pushError \in [Entries -> BOOLEAN] /\ pushing \in [Entries -> BOOLEAN]
      BY DEF IInv, TypeOK
    <3>3. pushError' \in [Entries -> BOOLEAN]
      <4>1. CASE pushError' = pushError
        BY <3>2, <4>1
      <4>2. ASSUME NEW b \in BOOLEAN, pushError' = [pushError EXCEPT ![entry] = b]
            PROVE  pushError' \in [Entries -> BOOLEAN]
        BY <3>2, <4>2
      <4> QED
        BY <3>1, <4>1, <4>2
    <3>4. pushing' \in [Entries -> BOOLEAN]
      <4>1. CASE pushing' = pushing
        BY <3>2, <4>1
      <4>2. CASE pushing' = [pushing EXCEPT ![entry] = FALSE]
        BY <3>2, <4>2
      <4> QED
        BY <3>1, <4>1, <4>2
    <3> QED
      BY <3>3, <3>4
  <2>3. faults' \in 0..MaxFaults
    BY <1>16 DEF IInv, TypeOK, Push, PushStart, PushTry, PushLands, PushFails, PushRecord,
            PushDone, Fault
  <2>4. PushQuiet
    BY <1>16 DEF Push, PushStart, PushTry, PushLands, PushFails, PushRecord, PushDone
  <2> QED
    BY <2>1, <2>2, <2>3, <2>4 DEF IInv, TypeOK, PushQuiet
<1>17. ASSUME NEW e \in Entries, ChildExits(e)
      PROVE  TypeOK'
  BY <1>17 DEF IInv, TypeOK, EntInv, Callers, Versions, Working, ChildExits, Fault,
          Exit
<1>18. ASSUME NEW e \in Entries, Elapse(e)
      PROVE  TypeOK'
  BY <1>18 DEF IInv, TypeOK, EntInv, Callers, Versions, Working, Elapse
<1> QED
  BY <1>1, <1>2, <1>3, <1>4, <1>5, <1>6, <1>7, <1>8, <1>9, <1>10, <1>11, <1>12,
     <1>13, <1>14, <1>15, <1>16, <1>17, <1>18
  DEF Next, Launch, Step, Callers

\* An entry is looked up before its lock is waited for, and the hand-offs of an entry are over
\* when it is dropped.
LEMMA EntStep ==
    ASSUME IInv, Next
    PROVE  EntInv'
<1> USE SidecarAssumption
<1>1. ASSUME UNCHANGED <<pc, ent, entry, handOffs>>
      PROVE  EntInv'
  BY <1>1 DEF IInv, TypeOK, EntInv, Callers, Versions, Working
<1>2. ASSUME NEW c \in Requests, CoreStop(c)
      PROVE  EntInv'
  BY <1>2 DEF IInv, TypeOK, EntInv, Callers, Versions, Working, CoreStop, Fault,
          Goto
<1>3. ASSUME NEW c \in Requests, NEW on \in BOOLEAN, NEW clients \in BOOLEAN, Edit(c, on, clients)
      PROVE  EntInv'
  BY <1>3 DEF IInv, TypeOK, EntInv, Callers, Versions, Working, Edit, Goto
<1>4. ASSUME NEW c \in Callers, ReadRow(c)
      PROVE  EntInv'
  BY <1>4 DEF IInv, TypeOK, EntInv, Callers, Versions, Working, ReadRow, Goto
<1>5. ASSUME NEW c \in Callers, Ensure(c)
      PROVE  EntInv'
  BY <1>5 DEF IInv, TypeOK, EntInv, Callers, Versions, Working, Ensure, Goto,
          Return, Alive, NotDue, FastPath
<1>6. ASSUME NEW c \in Callers, Entry(c)
      PROVE  EntInv'
  BY <1>6 DEF IInv, TypeOK, EntInv, Callers, Versions, Working, Entry, Goto, Unused
<1>7. ASSUME NEW c \in Callers, Lock(c)
      PROVE  EntInv'
  BY <1>7 DEF IInv, TypeOK, EntInv, Callers, Versions, Working, Lock, Goto, Return,
          Alive, NotDue, FastPath, Vanished, StartFree
<1>8. ASSUME NEW c \in Callers, Refuse(c)
      PROVE  EntInv'
  BY <1>8 DEF IInv, TypeOK, EntInv, Callers, Versions, Working, Refuse, Fault, Goto
<1>9. ASSUME NEW c \in Callers, StopOld(c)
      PROVE  EntInv'
  BY <1>9 DEF IInv, TypeOK, EntInv, Callers, Versions, Working, StopOld, Fault,
          Goto, Exit
<1>10. ASSUME NEW c \in Callers, Spawn(c)
      PROVE  EntInv'
  BY <1>10 DEF IInv, TypeOK, EntInv, Callers, Versions, Working, Spawn, Fault, Goto
<1>11. ASSUME NEW c \in Callers, Commit(c)
      PROVE  EntInv'
  BY <1>11 DEF IInv, TypeOK, EntInv, Callers, Versions, Working, Commit, Goto,
          Vanished
<1>12. ASSUME NEW c \in Callers, Failed(c)
      PROVE  EntInv'
  BY <1>12 DEF IInv, TypeOK, EntInv, Callers, Versions, Working, Failed, Return,
          Vanished, Goto
<1>13. ASSUME NEW c \in Callers, Abandon(c)
      PROVE  EntInv'
  BY <1>13 DEF IInv, TypeOK, EntInv, Callers, Versions, Working, Abandon, Return,
          Exit, Vanished, Goto
<1>14. ASSUME NEW c \in Callers, Remove(c)
      PROVE  EntInv'
  BY <1>14 DEF IInv, TypeOK, EntInv, Callers, Versions, Working, Remove, Goto,
          Return, HandOffsEnd, HandOffStages
<1>15. ASSUME NEW c \in Callers, Drain(c)
      PROVE  EntInv'
  BY <1>15 DEF IInv, TypeOK, EntInv, Callers, Versions, Working, Drain, Fault,
          Return, Exit, StartFree, Goto
<1>16. ASSUME NEW c \in Callers, SchedulePush(c)
      PROVE  EntInv'
  <2>1. /\ pc' = [pc EXCEPT ![c] = "idle"] /\ ent' = [ent EXCEPT ![c] = None]
        /\ entry' = entry
    BY <1>16 DEF SchedulePush, Return, Goto
  <2>2. \A w \in HandOffStages \ {"start"} : handOffs'[w] = handOffs[w]
    BY <1>16 DEF IInv, TypeOK, HandOffStages, SchedulePush
  <2> QED
    BY <2>1, <2>2 DEF IInv, TypeOK, EntInv, Working
<1>17. CASE Push
  <2>1. PushQuiet
    BY <1>17 DEF Push, PushStart, PushTry, PushLands, PushFails, PushRecord, PushDone
  <2>2. ASSUME entry = None
        PROVE  \A w \in HandOffStages \ {"start"} : handOffs'[w] = 0
    <3>1. PushStart
      BY <1>17, <2>2 DEF IInv, EntInv, HandOffStages, Push, PushTry, PushLands, PushFails,
              PushRecord, PushDone, Goes, Ends
    <3> QED
      BY <2>2, <3>1 DEF IInv, TypeOK, EntInv, PushStart, Ends
  <2> QED
    BY <2>1, <2>2 DEF IInv, EntInv, PushQuiet
<1>18. CASE \/ (\E e \in Entries : ChildExits(e)) \/ (\E e \in Entries : Elapse(e))
  BY <1>18, <1>1 DEF ChildExits, Elapse
<1> QED
  BY <1>1, <1>2, <1>3, <1>4, <1>5, <1>6, <1>7, <1>8, <1>9, <1>10, <1>11, <1>12,
     <1>13, <1>14, <1>15, <1>16, <1>17, <1>18
  DEF Next, Launch, Step, Callers

\* An entry is dropped by a Remove that will drain it, and its launch notices.
LEMMA StrayStep ==
    ASSUME IInv, Next
    PROVE  NoStray'
<1> USE SidecarAssumption
<1>1. ASSUME UNCHANGED <<entry, child, stuck, pc, ent>>
      PROVE  NoStray'
  BY <1>1 DEF IInv, TypeOK, EntInv, NoStray, Callers, Versions, Working
<1>2. ASSUME NEW c \in Requests, CoreStop(c)
      PROVE  NoStray'
  BY <1>2 DEF IInv, TypeOK, EntInv, NoStray, Callers, Versions, Working, CoreStop,
          Fault, Goto
<1>3. ASSUME NEW c \in Requests, NEW on \in BOOLEAN, NEW clients \in BOOLEAN, Edit(c, on, clients)
      PROVE  NoStray'
  BY <1>3 DEF IInv, TypeOK, EntInv, NoStray, Callers, Versions, Working, Edit, Goto
<1>4. ASSUME NEW c \in Callers, ReadRow(c)
      PROVE  NoStray'
  BY <1>4 DEF IInv, TypeOK, EntInv, NoStray, Callers, Versions, Working, ReadRow,
          Goto
<1>5. ASSUME NEW c \in Callers, Ensure(c)
      PROVE  NoStray'
  BY <1>5 DEF IInv, TypeOK, EntInv, NoStray, Callers, Versions, Working, Ensure,
          Goto, Return, Alive, NotDue, FastPath
<1>6. ASSUME NEW c \in Callers, Entry(c)
      PROVE  NoStray'
  BY <1>6 DEF IInv, TypeOK, EntInv, NoStray, Callers, Versions, Working, Entry,
          Goto, Unused
<1>7. ASSUME NEW c \in Callers, Lock(c)
      PROVE  NoStray'
  BY <1>7 DEF IInv, TypeOK, EntInv, NoStray, Callers, Versions, Working, Lock, Goto,
          Return, Alive, NotDue, FastPath, Vanished, StartFree
<1>8. ASSUME NEW c \in Callers, Refuse(c)
      PROVE  NoStray'
  BY <1>8 DEF IInv, TypeOK, EntInv, NoStray, Callers, Versions, Working, Refuse,
          Fault, Goto
<1>9. ASSUME NEW c \in Callers, StopOld(c)
      PROVE  NoStray'
  BY <1>9 DEF IInv, TypeOK, EntInv, NoStray, Callers, Versions, Working, StopOld,
          Fault, Goto, Exit
<1>10. ASSUME NEW c \in Callers, Spawn(c)
      PROVE  NoStray'
  BY <1>10 DEF IInv, TypeOK, EntInv, NoStray, Callers, Versions, Working, Spawn,
          Fault, Goto
<1>11. ASSUME NEW c \in Callers, Commit(c)
      PROVE  NoStray'
  BY <1>11 DEF IInv, TypeOK, EntInv, NoStray, Callers, Versions, Working, Commit,
          Goto, Vanished
<1>12. ASSUME NEW c \in Callers, Failed(c)
      PROVE  NoStray'
  BY <1>12 DEF IInv, TypeOK, EntInv, NoStray, Callers, Versions, Working, Failed,
          Return, Vanished, Goto
<1>13. ASSUME NEW c \in Callers, Abandon(c)
      PROVE  NoStray'
  BY <1>13 DEF IInv, TypeOK, EntInv, NoStray, Callers, Versions, Working, Abandon,
          Return, Exit, Vanished, Goto
<1>14. ASSUME NEW c \in Callers, Remove(c)
      PROVE  NoStray'
  BY <1>14 DEF IInv, TypeOK, EntInv, NoStray, Callers, Versions, Working, Remove,
          Goto, Return
<1>15. ASSUME NEW c \in Callers, Drain(c)
      PROVE  NoStray'
  BY <1>15 DEF IInv, TypeOK, EntInv, NoStray, Callers, Versions, Working, Drain,
          Fault, Return, Exit, StartFree, Goto
<1>16. ASSUME NEW c \in Callers, SchedulePush(c)
      PROVE  NoStray'
  BY <1>16 DEF IInv, TypeOK, EntInv, NoStray, Callers, Versions, Working,
          SchedulePush, Return, Goto
<1>17. ASSUME NEW e \in Entries, ChildExits(e)
      PROVE  NoStray'
  BY <1>17 DEF IInv, TypeOK, EntInv, NoStray, Callers, Versions, Working,
          ChildExits, Fault, Exit
<1>18. CASE Push \/ \E e \in Entries : Elapse(e)
  BY <1>18, <1>1 DEF Push, PushQuiet, PushStart, PushTry, PushLands, PushFails, PushRecord,
          PushDone, Elapse
<1> QED
  BY <1>1, <1>2, <1>3, <1>4, <1>5, <1>6, <1>7, <1>8, <1>9, <1>10, <1>11, <1>12,
     <1>13, <1>14, <1>15, <1>16, <1>17, <1>18
  DEF Next, Launch, Step, Callers

\* Children are started under the start lock only.
LEMMA SpawnStep ==
    ASSUME IInv, Next
    PROVE  SpawnInv'
<1> USE SidecarAssumption
<1>1. ASSUME UNCHANGED <<child, want, pc, ent>>
      PROVE  SpawnInv'
  BY <1>1 DEF IInv, TypeOK, EntInv, SpawnInv, Callers, Versions, Working
<1>2. ASSUME NEW c \in Requests, CoreStop(c)
      PROVE  SpawnInv'
  BY <1>2 DEF IInv, TypeOK, EntInv, SpawnInv, Callers, Versions, Working, CoreStop,
          Fault, Goto
<1>3. ASSUME NEW c \in Requests, NEW on \in BOOLEAN, NEW clients \in BOOLEAN, Edit(c, on, clients)
      PROVE  SpawnInv'
  BY <1>3 DEF IInv, TypeOK, EntInv, SpawnInv, Callers, Versions, Working, Edit, Goto
<1>4. ASSUME NEW c \in Callers, ReadRow(c)
      PROVE  SpawnInv'
  BY <1>4 DEF IInv, TypeOK, EntInv, SpawnInv, Callers, Versions, Working, ReadRow,
          Goto
<1>5. ASSUME NEW c \in Callers, Ensure(c)
      PROVE  SpawnInv'
  BY <1>5 DEF IInv, TypeOK, EntInv, SpawnInv, Callers, Versions, Working, Ensure,
          Goto, Return, Alive, NotDue, FastPath
<1>6. ASSUME NEW c \in Callers, Entry(c)
      PROVE  SpawnInv'
  BY <1>6 DEF IInv, TypeOK, EntInv, SpawnInv, Callers, Versions, Working, Entry,
          Goto, Unused
<1>7. ASSUME NEW c \in Callers, Lock(c)
      PROVE  SpawnInv'
  BY <1>7 DEF IInv, TypeOK, EntInv, SpawnInv, Callers, Versions, Working, Lock,
          Goto, Return, Alive, NotDue, FastPath, Vanished, StartFree
<1>8. ASSUME NEW c \in Callers, Refuse(c)
      PROVE  SpawnInv'
  BY <1>8 DEF IInv, TypeOK, EntInv, SpawnInv, Callers, Versions, Working, Refuse,
          Fault, Goto
<1>9. ASSUME NEW c \in Callers, StopOld(c)
      PROVE  SpawnInv'
  BY <1>9 DEF IInv, TypeOK, EntInv, SpawnInv, Callers, Versions, Working, StopOld,
          Fault, Goto, Exit
<1>10. ASSUME NEW c \in Callers, Spawn(c)
      PROVE  SpawnInv'
  BY <1>10 DEF IInv, TypeOK, EntInv, SpawnInv, Callers, Versions, Working, Spawn,
          Fault, Goto
<1>11. ASSUME NEW c \in Callers, Commit(c)
      PROVE  SpawnInv'
  BY <1>11 DEF IInv, TypeOK, EntInv, SpawnInv, Callers, Versions, Working, Commit,
          Goto, Vanished
<1>12. ASSUME NEW c \in Callers, Failed(c)
      PROVE  SpawnInv'
  BY <1>12 DEF IInv, TypeOK, EntInv, SpawnInv, Callers, Versions, Working, Failed,
          Return, Vanished, Goto
<1>13. ASSUME NEW c \in Callers, Abandon(c)
      PROVE  SpawnInv'
  BY <1>13 DEF IInv, TypeOK, EntInv, SpawnInv, Callers, Versions, Working, Abandon,
          Return, Exit, Vanished, Goto
<1>14. ASSUME NEW c \in Callers, Remove(c)
      PROVE  SpawnInv'
  BY <1>14 DEF IInv, TypeOK, EntInv, SpawnInv, Callers, Versions, Working, Remove,
          Goto, Return
<1>15. ASSUME NEW c \in Callers, Drain(c)
      PROVE  SpawnInv'
  BY <1>15 DEF IInv, TypeOK, EntInv, SpawnInv, Callers, Versions, Working, Drain,
          Fault, Return, Exit, StartFree, Goto
<1>16. ASSUME NEW c \in Callers, SchedulePush(c)
      PROVE  SpawnInv'
  BY <1>16 DEF IInv, TypeOK, EntInv, SpawnInv, Callers, Versions, Working,
          SchedulePush, Return, Goto
<1>17. ASSUME NEW e \in Entries, ChildExits(e)
      PROVE  SpawnInv'
  BY <1>17 DEF IInv, TypeOK, EntInv, SpawnInv, Callers, Versions, Working,
          ChildExits, Fault, Exit
<1>18. CASE Push \/ \E e \in Entries : Elapse(e)
  BY <1>18, <1>1 DEF Push, PushQuiet, PushStart, PushTry, PushLands, PushFails, PushRecord,
          PushDone, Elapse
<1> QED
  BY <1>1, <1>2, <1>3, <1>4, <1>5, <1>6, <1>7, <1>8, <1>9, <1>10, <1>11, <1>12,
     <1>13, <1>14, <1>15, <1>16, <1>17, <1>18
  DEF Next, Launch, Step, Callers

\* Fingerprints change with the child, or when a launch has failed.
LEMMA PrintStep ==
    ASSUME IInv, Next
    PROVE  PrintInv'
<1> USE SidecarAssumption
<1>1. ASSUME UNCHANGED <<entry, fp, child, lied, pc, ent>>
      PROVE  PrintInv'
  BY <1>1 DEF IInv, TypeOK, EntInv, SpawnInv, PrintInv, Callers, Versions, Working
<1>2. ASSUME NEW c \in Requests, CoreStop(c)
      PROVE  PrintInv'
  BY <1>2 DEF IInv, TypeOK, EntInv, SpawnInv, PrintInv, Callers, Versions, Working,
          CoreStop, Fault, Goto
<1>3. ASSUME NEW c \in Requests, NEW on \in BOOLEAN, NEW clients \in BOOLEAN, Edit(c, on, clients)
      PROVE  PrintInv'
  BY <1>3 DEF IInv, TypeOK, EntInv, SpawnInv, PrintInv, Callers, Versions, Working,
          Edit, Goto
<1>4. ASSUME NEW c \in Callers, ReadRow(c)
      PROVE  PrintInv'
  BY <1>4 DEF IInv, TypeOK, EntInv, SpawnInv, PrintInv, Callers, Versions, Working,
          ReadRow, Goto
<1>5. ASSUME NEW c \in Callers, Ensure(c)
      PROVE  PrintInv'
  BY <1>5 DEF IInv, TypeOK, EntInv, SpawnInv, PrintInv, Callers, Versions, Working,
          Ensure, Goto, Return, Alive, NotDue, FastPath
<1>6. ASSUME NEW c \in Callers, Entry(c)
      PROVE  PrintInv'
  BY <1>6 DEF IInv, TypeOK, EntInv, SpawnInv, PrintInv, Callers, Versions, Working,
          Entry, Goto, Unused
<1>7. ASSUME NEW c \in Callers, Lock(c)
      PROVE  PrintInv'
  BY <1>7 DEF IInv, TypeOK, EntInv, SpawnInv, PrintInv, Callers, Versions, Working,
          Lock, Goto, Return, Alive, NotDue, FastPath, Vanished, StartFree
<1>8. ASSUME NEW c \in Callers, Refuse(c)
      PROVE  PrintInv'
  BY <1>8 DEF IInv, TypeOK, EntInv, SpawnInv, PrintInv, Callers, Versions, Working,
          Refuse, Fault, Goto
<1>9. ASSUME NEW c \in Callers, StopOld(c)
      PROVE  PrintInv'
  BY <1>9 DEF IInv, TypeOK, EntInv, SpawnInv, PrintInv, Callers, Versions, Working,
          StopOld, Fault, Goto, Exit
<1>10. ASSUME NEW c \in Callers, Spawn(c)
      PROVE  PrintInv'
  BY <1>10 DEF IInv, TypeOK, EntInv, SpawnInv, PrintInv, Callers, Versions, Working,
          Spawn, Fault, Goto
<1>11. ASSUME NEW c \in Callers, Commit(c)
      PROVE  PrintInv'
  BY <1>11 DEF IInv, TypeOK, EntInv, SpawnInv, PrintInv, Callers, Versions, Working,
          Commit, Goto, Vanished
<1>12. ASSUME NEW c \in Callers, Failed(c)
      PROVE  PrintInv'
  <2>1. /\ pc[c] = "failed" /\ ent[c] = entry /\ ent[c] \in Entries
        /\ lied' = [lied EXCEPT ![ent[c]] = child[ent[c]] # 0]
        /\ UNCHANGED <<entry, child>>
    BY <1>12 DEF IInv, EntInv, Working, Failed, Vanished
  <2>2. ASSUME NEW e \in Entries, e = entry', child'[e] # 0
        PROVE  lied'[e]
    BY <2>1, <2>2 DEF IInv, TypeOK
  <2> QED
    BY <2>2 DEF PrintInv
<1>13. ASSUME NEW c \in Callers, Abandon(c)
      PROVE  PrintInv'
  BY <1>13 DEF IInv, TypeOK, EntInv, SpawnInv, PrintInv, Callers, Versions, Working,
          Abandon, Return, Exit, Vanished, Goto
<1>14. ASSUME NEW c \in Callers, Remove(c)
      PROVE  PrintInv'
  BY <1>14 DEF IInv, TypeOK, EntInv, SpawnInv, PrintInv, Callers, Versions, Working,
          Remove, Goto, Return
<1>15. ASSUME NEW c \in Callers, Drain(c)
      PROVE  PrintInv'
  BY <1>15 DEF IInv, TypeOK, EntInv, SpawnInv, PrintInv, Callers, Versions, Working,
          Drain, Fault, Return, Exit, StartFree, Goto
<1>16. ASSUME NEW c \in Callers, SchedulePush(c)
      PROVE  PrintInv'
  BY <1>16 DEF IInv, TypeOK, EntInv, SpawnInv, PrintInv, Callers, Versions, Working,
          SchedulePush, Return, Goto
<1>17. ASSUME NEW e \in Entries, ChildExits(e)
      PROVE  PrintInv'
  BY <1>17 DEF IInv, TypeOK, EntInv, SpawnInv, PrintInv, Callers, Versions, Working,
          ChildExits, Fault, Exit
<1>18. CASE Push \/ \E e \in Entries : Elapse(e)
  BY <1>18, <1>1 DEF Push, PushQuiet, PushStart, PushTry, PushLands, PushFails, PushRecord,
          PushDone, Elapse
<1> QED
  BY <1>1, <1>2, <1>3, <1>4, <1>5, <1>6, <1>7, <1>8, <1>9, <1>10, <1>11, <1>12,
     <1>13, <1>14, <1>15, <1>16, <1>17, <1>18
  DEF Next, Launch, Step, Callers

\* A panel starts without entries and children.
LEMMA InitInv == Init => IInv
<1> SUFFICES ASSUME Init
             PROVE  IInv
  OBVIOUS
<1> USE SidecarAssumption DEF Callers, Versions, Working
<1>1. /\ deferred \in [Entries -> BOOLEAN] /\ pushError \in [Entries -> BOOLEAN]
      /\ pushing \in [Entries -> BOOLEAN]
      /\ lied \in [Entries -> BOOLEAN] /\ stuck \in [Entries -> BOOLEAN]
  BY Zenon DEF Init
<1>2. /\ db \in Versions
      /\ edits \in 0..MaxEdits
      /\ faults \in 0..MaxFaults
      /\ entry \in Entries \union {None}
      /\ inst \in [Entries -> Versions]
      /\ fp \in [Entries -> Versions]
      /\ startMu \in [Entries -> Callers \union {None}]
      /\ child \in [Entries -> Versions]
      /\ pc \in [Callers -> {"idle", "apply", "ensure", "entry", "lock", "push", "remove", "drain"} \union Working]
      /\ want \in [Callers -> Versions]
      /\ ent \in [Callers -> Entries \union {None}]
      /\ handOffs \in [HandOffStages -> Nat]
  BY DEF Init
<1>3. \A c \in Callers : pc[c] \in Working => startMu[ent[c]] = c
  BY DEF Init
<1>4. TypeOK
  BY <1>1, <1>2, <1>3 DEF TypeOK
<1>5. EntInv /\ NoStray /\ SpawnInv /\ PrintInv
  BY DEF Init, EntInv, NoStray, SpawnInv, PrintInv
<1> QED
  BY <1>4, <1>5 DEF IInv

\* A step that changes nothing keeps the invariant.
LEMMA Stutter ==
    ASSUME IInv, UNCHANGED vars
    PROVE  IInv'
BY DEF vars, IInv, TypeOK, EntInv, NoStray, SpawnInv, PrintInv

\* Every step keeps the invariant.
LEMMA NextInv == IInv /\ [Next]_vars => IInv'
<1> SUFFICES ASSUME IInv, [Next]_vars
             PROVE  IInv'
  OBVIOUS
<1>1. CASE Next
  BY <1>1, TypeStep, EntStep, StrayStep, SpawnStep, PrintStep DEF IInv
<1>2. CASE UNCHANGED vars
  BY <1>2, Stutter
<1> QED
  BY <1>1, <1>2

\* So it holds for ever.
LEMMA Invariance == Spec => []IInv
  BY InitInv, NextInv, PTL DEF Spec

-----------------------------------------------------------------------------
\* Every variable of the supervisor keeps its type, and whoever launches a child holds the
\* start lock of its entry: two callers of Ensure never launch for the same one.
THEOREM TypeCorrect == Spec => []TypeOK
<1>1. IInv => TypeOK
  BY DEF IInv
<1> QED
  BY <1>1, Invariance, PTL

\* A child whose entry Remove has dropped is about to be stopped, by Remove or by the
\* launch that finds the entry gone, however many requests, passes and launches overlap.
THEOREM NoChildIsForgotten == Spec => []NoStray
<1>1. IInv => NoStray
  BY DEF IInv
<1> QED
  BY <1>1, Invariance, PTL

\* When nobody holds the start lock, the fingerprint aliveLocked compares with is the one
\* the live child was started with, or a launch has failed before replacing the child.
THEOREM ComparedWithTheTruth == Spec => []FingerprintIsTrue
<1>1. ASSUME IInv
      PROVE  FingerprintIsTrue
  <2> SUFFICES ASSUME NEW e \in Entries, e = entry, child[e] # 0, startMu[e] = None
               PROVE  fp[e] = child[e] \/ lied[e]
    BY DEF FingerprintIsTrue
  <2>1. ASSUME NEW c \in Callers, ent[c] = e, pc[c] = "commit"
        PROVE  FALSE
    BY <1>1, <2>1, SidecarAssumption DEF IInv, TypeOK, Working, Callers
  <2> QED
    BY <1>1, <2>1 DEF IInv, PrintInv
<1> QED
  BY <1>1, Invariance, PTL
=============================================================================
