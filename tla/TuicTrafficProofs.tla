-------------------------- MODULE TuicTrafficProofs --------------------------
(***************************************************************************)
(* For any number of users, servers, journal files, faults and crashes:    *)
(* TUIC traffic is billed at most once, is never dropped once it has been  *)
(* taken, and the result of the final flush is true.                       *)
(***************************************************************************)
EXTENDS TuicTraffic, TLAPS

\* Where the three threads of control are: Run and the flush never overlap, and
\* only they carry deltas or replay.
ControlInv ==
    /\ jobPc # "idle" => phase \in {"up", "stopping"}
    /\ jobPc = "scan" => managed # 0
    /\ hand # {} => jobPc \in {"scan", "submit", "requeue"} \/ phase = "store"
    /\ phase = "store" => hand # {}
    /\ settled # None => Replaying
    /\ settled \in receipts \union {None}

\* After StopAll no server is managed, and only the manager's or a draining server
\* has deltas nobody has taken over yet.
ServerInv ==
    /\ phase \notin {"up", "stopping"} => managed = 0
    /\ phase \notin {"up", "stopping", "flush"} => NoDrain
    /\ \A s \in Servers :
        /\ server[s] \in {"running", "broken"} => s = managed
        /\ got[s] # {} => Scanning(s)

\* Neither in a journal file nor billed.
Untouched(u) == billed[u] = 0 /\ \A b \in Batches : u \notin batch[b]

\* A unit is in one place only. Until it reaches a journal file it has not been
\* billed, unless a poll was doubted; in a file it has not been billed unless the
\* file has its receipt.
PlaceInv ==
    /\ \A u \in fresh :
        /\ Untouched(u)
        /\ u \notin pending \union hand
        /\ \A r \in Regs : u \notin counter[r]
        /\ \A s \in Servers : u \notin got[s]
    /\ \A r \in Regs : \A u \in counter[r] :
        /\ Untouched(u)
        /\ u \notin pending \union hand
        /\ \A q \in Regs : u \in counter[q] => q = r
        /\ \A s \in Servers : u \notin got[s]
    /\ \A s \in Servers : \A u \in got[s] :
        /\ Untouched(u)
        /\ u \notin pending \union hand
        /\ \A t \in Servers : u \in got[t] => t = s
    /\ pending \intersect hand = {}
    /\ \A u \in pending \union hand :
        /\ billed[u] = 0 \/ u \in doubted
        /\ \A b \in Batches : u \notin batch[b]
    /\ \A b, c \in Batches : b # c => batch[b] \intersect batch[c] = {}

\* The name of a file that has not been written is known nowhere.
BatchInv ==
    /\ \A b \in Batches : batch[b] = {} => b \notin receipts \union dir \union disk \union todo
    /\ \A b \in Batches \ receipts : \A u \in batch[b] : billed[u] = 0 \/ u \in doubted

\* The final flush leaves nothing with the manager, and replays all there is.
FlushInv ==
    /\ phase \in {"store", "sync", "replay"} => pending = {}
    /\ phase = "replay" => dir \subseteq todo

\* A file without receipt is not removed, replays are of files that are there, and a
\* panel that has stopped has a result.
JournalInv ==
    /\ disk \ receipts \subseteq dir
    /\ todo \subseteq dir \union {settled}
    /\ phase = "stopped" => flushErr # "none"

IInv ==
    /\ TypeOK /\ ControlInv /\ ServerInv /\ PlaceInv /\ BatchInv /\ FlushInv /\ JournalInv
    /\ BilledAtMostOnce /\ TakenIsKept /\ StopAccounts

-----------------------------------------------------------------------------
(* One lemma per part of the invariant. <1>1 is the frame: what the steps that *)
(* leave the variables of that part alone have in common.                      *)

USE DEF relayVars, registry, serverVars, scanVars, journalVars, replayVars, dbVars,
        runVars, bounds

\* Types. A step of a detached server never is a step of the managed one, whose
\* entry is running or broken.
LEMMA TypeStep ==
    ASSUME IInv, Next
    PROVE  TypeOK'
<1> USE TuicAssumption DEF Fault, NoFault
<1>1. ASSUME NEW r \in Regs, NEW u \in Units, Relay(r, u)
      PROVE  TypeOK'
  BY <1>1 DEF IInv, TypeOK, ControlInv, Replaying, Relay
<1>2. ASSUME NEW r \in Regs, Connect(r)
      PROVE  TypeOK'
  BY <1>2 DEF IInv, TypeOK, ControlInv, Replaying, Connect, Scanning
<1>3. ASSUME NEW r \in Regs, Disconnect(r)
      PROVE  TypeOK'
  BY <1>3 DEF IInv, TypeOK, ControlInv, Replaying, Disconnect
<1>4. ASSUME SetUsers
      PROVE  TypeOK'
  <2>1. PICK new \in SUBSET {r \in Regs : reg[r] = "new"} :
           /\ reg' = [r \in Regs |->
                CASE r \in new -> "user"
                  [] reg[r] = "user" /\ home[r] = managed -> "retired"
                  [] OTHER -> reg[r]]
           /\ home' = [r \in Regs |-> IF r \in new THEN managed ELSE home[r]]
    BY <1>4 DEF SetUsers
  <2>2. reg' \in [Regs -> {"new", "user", "retired", "dropped"}]
    BY <2>1 DEF IInv, TypeOK
  <2>3. home' \in [Regs -> 0..MaxServers]
    BY <2>1, managed \in 0..MaxServers DEF IInv, TypeOK, Servers
  <2>4. session' \subseteq {r \in Regs : reg'[r] # "new"}
    BY <1>4, <2>1 DEF IInv, TypeOK, SetUsers
  <2> QED
    BY <1>4, <2>2, <2>3, <2>4 DEF IInv, TypeOK, SetUsers
<1>5. ASSUME StartServer
      PROVE  TypeOK'
  <2>1. PICK s \in Servers, r \in Regs :
           /\ NextServer(s)
           /\ managed' = s
           /\ server' = [t \in Servers |->
                IF t = s THEN "running" ELSE IF t = managed THEN "closing" ELSE server[t]]
           /\ reg[r] = "new"
           /\ reg' = [reg EXCEPT ![r] = "user"]
           /\ home' = [home EXCEPT ![r] = s]
    BY <1>5 DEF StartServer
  <2>2. server' \in [Servers -> {"new", "running", "broken", "closing", "scan", "closed"}]
    BY <2>1 DEF IInv, TypeOK
  <2>3. managed' = s /\ server'[s] = "running"
    BY <2>1 DEF IInv, TypeOK
  <2>4. home' \in [Regs -> 0..MaxServers]
    BY <2>1 DEF IInv, TypeOK, Servers
  <2>5. reg' \in [Regs -> {"new", "user", "retired", "dropped"}]
    BY <2>1 DEF IInv, TypeOK
  <2>6. session' \subseteq {q \in Regs : reg'[q] # "new"}
    BY <1>5, <2>1 DEF IInv, TypeOK, StartServer
  <2> QED
    BY <1>5, <2>2, <2>3, <2>4, <2>5, <2>6 DEF IInv, TypeOK, StartServer
<1>6. ASSUME BreakServer
      PROVE  TypeOK'
  BY <1>6 DEF IInv, TypeOK, ControlInv, Replaying, BreakServer
<1>7. ASSUME Detach
      PROVE  TypeOK'
  BY <1>7 DEF IInv, TypeOK, ControlInv, Replaying, Detach, MayReconcile,
          ManagerFree, CloseManaged
<1>8. ASSUME NEW s \in Servers, Closed(s)
      PROVE  TypeOK'
  BY <1>8 DEF IInv, TypeOK, ControlInv, Replaying, Closed, Registered
<1>9. ASSUME NEW s \in Servers, Swap(s)
      PROVE  TypeOK'
  BY <1>9 DEF IInv, TypeOK, ControlInv, Replaying, Swap, Scanning
<1>10. ASSUME NEW s \in Servers, Judge(s)
      PROVE  TypeOK'
  BY <1>10 DEF IInv, TypeOK, ControlInv, Replaying, Judge, Scanning
<1>11. ASSUME NEW s \in Servers, DrainDone(s)
      PROVE  TypeOK'
  BY <1>11 DEF IInv, TypeOK, ControlInv, Replaying, DrainDone, Scanned, ManagerFree
<1>12. ASSUME JobStart
      PROVE  TypeOK'
  BY <1>12 DEF IInv, TypeOK, ControlInv, Replaying, JobStart
<1>13. ASSUME JobCollect
      PROVE  TypeOK'
  BY <1>13 DEF IInv, TypeOK, ControlInv, Replaying, JobCollect, Registered
<1>14. ASSUME JobAbandon
      PROVE  TypeOK'
  BY <1>14 DEF IInv, TypeOK, ControlInv, Replaying, JobAbandon
<1>15. ASSUME JobCollected
      PROVE  TypeOK'
  BY <1>15 DEF IInv, TypeOK, ControlInv, Replaying, JobCollected, Scanned
<1>16. ASSUME JobSubmit
      PROVE  TypeOK'
  BY <1>16 DEF IInv, TypeOK, ControlInv, Replaying, JobSubmit, Bill
<1>17. ASSUME JobRequeue
      PROVE  TypeOK'
  BY <1>17 DEF IInv, TypeOK, ControlInv, Replaying, JobRequeue
<1>18. ASSUME JobEnd
      PROVE  TypeOK'
  BY <1>18 DEF IInv, TypeOK, ControlInv, Replaying, JobEnd
<1>19. ASSUME NEW b \in Batches, ReplayCommit(b)
      PROVE  TypeOK'
  BY <1>19 DEF IInv, TypeOK, ControlInv, Replaying, ReplayCommit, CommitBatch,
          ReplayFails
<1>20. ASSUME ReplayRemove
      PROVE  TypeOK'
  BY <1>20 DEF IInv, TypeOK, ControlInv, Replaying, ReplayRemove, ReplayFails
<1>21. ASSUME ReplaySync
      PROVE  TypeOK'
  BY <1>21 DEF IInv, TypeOK, ControlInv, Replaying, ReplaySync, ReplayFails
<1>22. ASSUME ReplayEnd
      PROVE  TypeOK'
  BY <1>22 DEF IInv, TypeOK, ControlInv, Replaying, ReplayEnd
<1>23. ASSUME Stop
      PROVE  TypeOK'
  BY <1>23 DEF IInv, TypeOK, ControlInv, Replaying, Stop
<1>24. ASSUME StopAll
      PROVE  TypeOK'
  BY <1>24 DEF IInv, TypeOK, ControlInv, Replaying, StopAll, NoDrain, CloseManaged
<1>25. ASSUME FlushCollect
      PROVE  TypeOK'
  BY <1>25 DEF IInv, TypeOK, ControlInv, Replaying, FlushCollect, NoDrain
<1>26. ASSUME FlushStore
      PROVE  TypeOK'
  BY <1>26 DEF IInv, TypeOK, ControlInv, Replaying, FlushStore, Unused
<1>27. ASSUME FlushSync
      PROVE  TypeOK'
  BY <1>27 DEF IInv, TypeOK, ControlInv, Replaying, FlushSync
<1>28. ASSUME Restart
      PROVE  TypeOK'
  BY <1>28 DEF IInv, TypeOK, ControlInv, Replaying, Restart, Reset
<1>29. ASSUME Crash
      PROVE  TypeOK'
  BY <1>29 DEF IInv, TypeOK, ControlInv, Replaying, Crash, Reset
<1> QED
  BY <1>1, <1>2, <1>3, <1>4, <1>5, <1>6, <1>7, <1>8, <1>9, <1>10, <1>11, <1>12,
     <1>13, <1>14, <1>15, <1>16, <1>17, <1>18, <1>19, <1>20, <1>21, <1>22, <1>23,
     <1>24, <1>25, <1>26, <1>27, <1>28, <1>29
  DEF Next, UserStep, JobStep, ReplayStep, StopStep, ServerStep

\* Run starts only while the panel is up, StopAll waits for it; deltas are
\* carried only between collect and submit, or collect and store.
LEMMA ControlStep ==
    ASSUME IInv, Next
    PROVE  ControlInv'
<1> USE TuicAssumption DEF Fault, NoFault
<1>1. ASSUME UNCHANGED <<phase, jobPc, managed, hand, settled, receipts>>
      PROVE  ControlInv'
  BY <1>1 DEF IInv, TypeOK, ControlInv, Replaying
<1>2. ASSUME StartServer
      PROVE  ControlInv'
  BY <1>2 DEF IInv, TypeOK, ControlInv, Replaying, StartServer, MayReconcile,
          ManagerFree, NextServer
<1>3. ASSUME Detach
      PROVE  ControlInv'
  BY <1>3 DEF IInv, TypeOK, ControlInv, Replaying, Detach, MayReconcile,
          ManagerFree, CloseManaged
<1>4. ASSUME JobStart
      PROVE  ControlInv'
  BY <1>4 DEF IInv, TypeOK, ControlInv, Replaying, JobStart
<1>5. ASSUME JobCollect
      PROVE  ControlInv'
  BY <1>5 DEF IInv, TypeOK, ControlInv, Replaying, JobCollect, Registered
<1>6. ASSUME JobAbandon
      PROVE  ControlInv'
  BY <1>6 DEF IInv, TypeOK, ControlInv, Replaying, JobAbandon
<1>7. ASSUME JobCollected
      PROVE  ControlInv'
  BY <1>7 DEF IInv, TypeOK, ControlInv, Replaying, JobCollected, Scanned
<1>8. ASSUME JobSubmit
      PROVE  ControlInv'
  BY <1>8 DEF IInv, TypeOK, ControlInv, Replaying, JobSubmit, Bill
<1>9. ASSUME JobRequeue
      PROVE  ControlInv'
  BY <1>9 DEF IInv, TypeOK, ControlInv, Replaying, JobRequeue
<1>10. ASSUME JobEnd
      PROVE  ControlInv'
  BY <1>10 DEF IInv, TypeOK, ControlInv, Replaying, JobEnd
<1>11. ASSUME NEW b \in Batches, ReplayCommit(b)
      PROVE  ControlInv'
  BY <1>11 DEF IInv, TypeOK, ControlInv, Replaying, ReplayCommit, CommitBatch,
          ReplayFails
<1>12. ASSUME ReplayRemove
      PROVE  ControlInv'
  BY <1>12 DEF IInv, TypeOK, ControlInv, Replaying, ReplayRemove, ReplayFails
<1>13. ASSUME ReplaySync
      PROVE  ControlInv'
  BY <1>13 DEF IInv, TypeOK, ControlInv, Replaying, ReplaySync, ReplayFails
<1>14. ASSUME ReplayEnd
      PROVE  ControlInv'
  BY <1>14 DEF IInv, TypeOK, ControlInv, Replaying, ReplayEnd
<1>15. ASSUME Stop
      PROVE  ControlInv'
  BY <1>15 DEF IInv, TypeOK, ControlInv, Replaying, Stop
<1>16. ASSUME StopAll
      PROVE  ControlInv'
  BY <1>16 DEF IInv, TypeOK, ControlInv, Replaying, StopAll, NoDrain, CloseManaged
<1>17. ASSUME FlushCollect
      PROVE  ControlInv'
  BY <1>17 DEF IInv, TypeOK, ControlInv, Replaying, FlushCollect, NoDrain
<1>18. ASSUME FlushStore
      PROVE  ControlInv'
  BY <1>18 DEF IInv, TypeOK, ControlInv, Replaying, FlushStore, Unused
<1>19. ASSUME FlushSync
      PROVE  ControlInv'
  BY <1>19 DEF IInv, TypeOK, ControlInv, Replaying, FlushSync
<1>20. ASSUME Restart
      PROVE  ControlInv'
  BY <1>20 DEF IInv, TypeOK, ControlInv, Replaying, Restart, Reset
<1>21. ASSUME Crash
      PROVE  ControlInv'
  BY <1>21 DEF IInv, TypeOK, ControlInv, Replaying, Crash, Reset
<1>22. CASE \/ (\E r \in Regs, u \in Units : Relay(r, u))
            \/ (\E r \in Regs : Connect(r)) \/ (\E r \in Regs : Disconnect(r))
            \/ SetUsers \/ BreakServer \/ (\E s \in Servers : Closed(s))
            \/ (\E s \in Servers : Swap(s)) \/ (\E s \in Servers : Judge(s))
            \/ (\E s \in Servers : DrainDone(s))
  BY <1>22, <1>1 DEF Relay, Connect, Disconnect, SetUsers, BreakServer, Closed,
          Swap, Judge, DrainDone
<1> QED
  BY <1>1, <1>2, <1>3, <1>4, <1>5, <1>6, <1>7, <1>8, <1>9, <1>10, <1>11, <1>12,
     <1>13, <1>14, <1>15, <1>16, <1>17, <1>18, <1>19, <1>20, <1>21, <1>22
  DEF Next, UserStep, JobStep, ReplayStep, StopStep, ServerStep

\* StopAll detaches the last server and requests can start no other; deltas leave
\* got[s] with the step that ends the scan of s.
LEMMA ServerStepKeeps ==
    ASSUME IInv, Next
    PROVE  ServerInv'
<1> USE TuicAssumption DEF Fault, NoFault
<1>1. ASSUME UNCHANGED <<phase, jobPc, managed, server, got>>
      PROVE  ServerInv'
  BY <1>1 DEF IInv, TypeOK, ControlInv, ServerInv, NoDrain, Scanning
<1>2. ASSUME StartServer
      PROVE  ServerInv'
  <2>1. PICK s \in Servers :
           /\ NextServer(s)
           /\ managed' = s
           /\ server' = [t \in Servers |->
                IF t = s THEN "running" ELSE IF t = managed THEN "closing" ELSE server[t]]
    BY <1>2 DEF StartServer
  <2>2. \A t \in Servers : server'[t] \in {"running", "broken"} => t = managed'
    BY <2>1 DEF IInv, TypeOK, ServerInv
  <2>3. \A t \in Servers : server[t] = "scan" => server'[t] = "scan"
    BY <1>2, <2>1 DEF IInv, TypeOK, StartServer, NextServer, Servers
  <2> QED
    BY <1>2, <2>2, <2>3
    DEF IInv, TypeOK, ControlInv, ServerInv, NoDrain, Scanning, StartServer,
        MayReconcile, ManagerFree
<1>3. ASSUME BreakServer
      PROVE  ServerInv'
  BY <1>3 DEF IInv, TypeOK, ControlInv, ServerInv, NoDrain, Scanning, BreakServer
<1>4. ASSUME Detach
      PROVE  ServerInv'
  BY <1>4 DEF IInv, TypeOK, ControlInv, ServerInv, NoDrain, Scanning, Detach,
          MayReconcile, ManagerFree, CloseManaged
<1>5. ASSUME NEW s \in Servers, Closed(s)
      PROVE  ServerInv'
  BY <1>5 DEF IInv, TypeOK, ControlInv, ServerInv, NoDrain, Scanning, Closed,
          Registered
<1>6. ASSUME NEW s \in Servers, Swap(s)
      PROVE  ServerInv'
  BY <1>6 DEF IInv, TypeOK, ControlInv, ServerInv, NoDrain, Scanning, Swap
<1>7. ASSUME NEW s \in Servers, DrainDone(s)
      PROVE  ServerInv'
  BY <1>7 DEF IInv, TypeOK, ControlInv, ServerInv, NoDrain, Scanning, DrainDone,
          Scanned, ManagerFree
<1>8. ASSUME JobStart
      PROVE  ServerInv'
  BY <1>8 DEF IInv, TypeOK, ControlInv, ServerInv, NoDrain, Scanning, JobStart
<1>9. ASSUME JobCollect
      PROVE  ServerInv'
  BY <1>9 DEF IInv, TypeOK, ControlInv, ServerInv, NoDrain, Scanning, JobCollect,
          Registered
<1>10. ASSUME JobAbandon
      PROVE  ServerInv'
  BY <1>10 DEF IInv, TypeOK, ControlInv, ServerInv, NoDrain, Scanning, JobAbandon
<1>11. ASSUME JobCollected
      PROVE  ServerInv'
  BY <1>11 DEF IInv, TypeOK, ControlInv, ServerInv, NoDrain, Scanning, JobCollected,
          Scanned
<1>12. ASSUME JobSubmit
      PROVE  ServerInv'
  BY <1>12 DEF IInv, TypeOK, ControlInv, ServerInv, NoDrain, Scanning, JobSubmit,
          Bill
<1>13. ASSUME JobRequeue
      PROVE  ServerInv'
  BY <1>13 DEF IInv, TypeOK, ControlInv, ServerInv, NoDrain, Scanning, JobRequeue
<1>14. ASSUME JobEnd
      PROVE  ServerInv'
  BY <1>14 DEF IInv, TypeOK, ControlInv, ServerInv, NoDrain, Scanning, JobEnd
<1>15. ASSUME NEW b \in Batches, ReplayCommit(b)
      PROVE  ServerInv'
  BY <1>15 DEF IInv, TypeOK, ControlInv, ServerInv, NoDrain, Scanning, ReplayCommit,
          Replaying, CommitBatch, ReplayFails
<1>16. ASSUME ReplayRemove
      PROVE  ServerInv'
  BY <1>16 DEF IInv, TypeOK, ControlInv, ServerInv, NoDrain, Scanning, ReplayRemove,
          Replaying, ReplayFails
<1>17. ASSUME ReplaySync
      PROVE  ServerInv'
  BY <1>17 DEF IInv, TypeOK, ControlInv, ServerInv, NoDrain, Scanning, ReplaySync,
          Replaying, ReplayFails
<1>18. ASSUME ReplayEnd
      PROVE  ServerInv'
  BY <1>18 DEF IInv, TypeOK, ControlInv, ServerInv, NoDrain, Scanning, ReplayEnd
<1>19. ASSUME Stop
      PROVE  ServerInv'
  BY <1>19 DEF IInv, TypeOK, ControlInv, ServerInv, NoDrain, Scanning, Stop
<1>20. ASSUME StopAll
      PROVE  ServerInv'
  BY <1>20 DEF IInv, TypeOK, ControlInv, ServerInv, NoDrain, Scanning, StopAll,
          CloseManaged
<1>21. ASSUME FlushCollect
      PROVE  ServerInv'
  BY <1>21 DEF IInv, TypeOK, ControlInv, ServerInv, NoDrain, Scanning, FlushCollect
<1>22. ASSUME FlushStore
      PROVE  ServerInv'
  BY <1>22 DEF IInv, TypeOK, ControlInv, ServerInv, NoDrain, Scanning, FlushStore,
          Unused
<1>23. ASSUME FlushSync
      PROVE  ServerInv'
  BY <1>23 DEF IInv, TypeOK, ControlInv, ServerInv, NoDrain, Scanning, FlushSync
<1>24. ASSUME Restart
      PROVE  ServerInv'
  BY <1>24 DEF IInv, TypeOK, ControlInv, ServerInv, NoDrain, Scanning, Restart,
          Reset
<1>25. ASSUME Crash
      PROVE  ServerInv'
  BY <1>25 DEF IInv, TypeOK, ControlInv, ServerInv, NoDrain, Scanning, Crash, Reset
<1>26. CASE \/ (\E r \in Regs, u \in Units : Relay(r, u))
            \/ (\E r \in Regs : Connect(r)) \/ (\E r \in Regs : Disconnect(r))
            \/ SetUsers \/ (\E s \in Servers : Judge(s))
  BY <1>26, <1>1 DEF Relay, Connect, Disconnect, SetUsers, Judge
<1> QED
  BY <1>1, <1>2, <1>3, <1>4, <1>5, <1>6, <1>7, <1>8, <1>9, <1>10, <1>11, <1>12,
     <1>13, <1>14, <1>15, <1>16, <1>17, <1>18, <1>19, <1>20, <1>21, <1>22, <1>23,
     <1>24, <1>25, <1>26
  DEF Next, UserStep, JobStep, ReplayStep, StopStep, ServerStep

\* Units stay in one place: each step that moves units empties where they were.
LEMMA PlaceStep ==
    ASSUME IInv, Next
    PROVE  PlaceInv'
<1> USE TuicAssumption DEF Fault, NoFault
<1>1. ASSUME UNCHANGED <<fresh, counter, got, pending, hand, batch, billed, doubted>>
      PROVE  PlaceInv'
  BY <1>1 DEF IInv, TypeOK, ControlInv, PlaceInv, Untouched
<1>2. ASSUME NEW r \in Regs, NEW u \in Units, Relay(r, u)
      PROVE  PlaceInv'
  BY <1>2 DEF IInv, TypeOK, ControlInv, PlaceInv, Untouched, Relay
<1>3. ASSUME NEW s \in Servers, Swap(s)
      PROVE  PlaceInv'
  BY <1>3 DEF IInv, TypeOK, ControlInv, PlaceInv, Untouched, Swap, Scanning
<1>4. ASSUME NEW s \in Servers, DrainDone(s)
      PROVE  PlaceInv'
  BY <1>4 DEF IInv, TypeOK, ControlInv, PlaceInv, Untouched, DrainDone, Scanned,
          ManagerFree
<1>5. ASSUME JobCollect
      PROVE  PlaceInv'
  BY <1>5 DEF IInv, TypeOK, ControlInv, PlaceInv, Untouched, JobCollect, Registered
<1>6. ASSUME JobCollected
      PROVE  PlaceInv'
  BY <1>6 DEF IInv, TypeOK, ControlInv, PlaceInv, Untouched, JobCollected, Scanned
<1>7. ASSUME JobSubmit
      PROVE  PlaceInv'
  BY <1>7 DEF IInv, TypeOK, ControlInv, PlaceInv, Untouched, JobSubmit, Bill
<1>8. ASSUME JobRequeue
      PROVE  PlaceInv'
  BY <1>8 DEF IInv, TypeOK, ControlInv, PlaceInv, Untouched, JobRequeue
<1>9. ASSUME NEW b \in Batches, ReplayCommit(b)
      PROVE  PlaceInv'
  BY <1>9 DEF IInv, TypeOK, ControlInv, PlaceInv, Untouched, ReplayCommit,
          Replaying, CommitBatch, ReplayFails
<1>10. ASSUME FlushCollect
      PROVE  PlaceInv'
  BY <1>10 DEF IInv, TypeOK, ControlInv, PlaceInv, Untouched, FlushCollect, NoDrain
<1>11. ASSUME FlushStore
      PROVE  PlaceInv'
  BY <1>11 DEF IInv, TypeOK, ControlInv, PlaceInv, Untouched, FlushStore, Unused
<1>12. ASSUME Restart
      PROVE  PlaceInv'
  BY <1>12 DEF IInv, TypeOK, ControlInv, PlaceInv, Untouched, Restart, Reset
<1>13. ASSUME Crash
      PROVE  PlaceInv'
  BY <1>13 DEF IInv, TypeOK, ControlInv, PlaceInv, Untouched, Crash, Reset
<1>14. CASE \/ (\E r \in Regs : Connect(r)) \/ (\E r \in Regs : Disconnect(r))
            \/ SetUsers \/ StartServer \/ BreakServer \/ Detach
            \/ (\E s \in Servers : Closed(s)) \/ (\E s \in Servers : Judge(s))
            \/ JobStart \/ JobAbandon \/ JobEnd \/ ReplayRemove \/ ReplaySync
            \/ ReplayEnd \/ Stop \/ StopAll \/ FlushSync
  BY <1>14, <1>1 DEF Connect, Disconnect, SetUsers, StartServer, BreakServer,
          Detach, Closed, Judge, JobStart, JobAbandon, JobEnd, ReplayRemove,
          ReplaySync, ReplayEnd, Stop, StopAll, FlushSync
<1> QED
  BY <1>1, <1>2, <1>3, <1>4, <1>5, <1>6, <1>7, <1>8, <1>9, <1>10, <1>11, <1>12,
     <1>13, <1>14
  DEF Next, UserStep, JobStep, ReplayStep, StopStep, ServerStep

\* A file gets its name and its units in one step, and its receipt in the
\* transaction that bills them.
LEMMA BatchStep ==
    ASSUME IInv, Next
    PROVE  BatchInv'
<1> USE TuicAssumption DEF Fault, NoFault
<1>1. ASSUME UNCHANGED <<batch, dir, disk, todo, receipts, billed, doubted>>
      PROVE  BatchInv'
  BY <1>1 DEF IInv, TypeOK, ControlInv, PlaceInv, BatchInv, Untouched
<1>2. ASSUME JobStart
      PROVE  BatchInv'
  BY <1>2 DEF IInv, TypeOK, ControlInv, PlaceInv, BatchInv, Untouched, JobStart
<1>3. ASSUME JobSubmit
      PROVE  BatchInv'
  BY <1>3 DEF IInv, TypeOK, ControlInv, PlaceInv, BatchInv, Untouched, JobSubmit,
          Bill
<1>4. ASSUME NEW b \in Batches, ReplayCommit(b)
      PROVE  BatchInv'
  <2>1. /\ UNCHANGED <<batch, dir, disk, doubted>> /\ todo' \subseteq todo \union dir
        /\ CommitBatch(b) \/ UNCHANGED <<receipts, billed>>
    BY <1>4 DEF ReplayCommit, ReplayFails
  <2>2. CASE CommitBatch(b)
    <3>1. b \in todo /\ b \in Batches
      BY <1>4 DEF ReplayCommit
    <3>2. \A c \in Batches : batch[c] = {} => c \notin receipts' \union dir \union disk \union todo'
      BY <2>1, <2>2, <3>1 DEF CommitBatch, IInv, BatchInv
    <3>3. ASSUME NEW c \in Batches \ receipts', NEW u \in batch[c]
          PROVE  billed'[u] = 0 \/ u \in doubted
      BY <2>2, <3>3 DEF CommitBatch, IInv, TypeOK, PlaceInv, BatchInv
    <3> QED
      BY <2>1, <3>2, <3>3 DEF BatchInv
  <2>3. CASE UNCHANGED <<receipts, billed>>
    BY <2>1, <2>3 DEF IInv, BatchInv
  <2> QED
    BY <2>1, <2>2, <2>3
<1>5. ASSUME ReplayRemove
      PROVE  BatchInv'
  BY <1>5 DEF IInv, TypeOK, ControlInv, PlaceInv, BatchInv, Untouched, ReplayRemove,
          Replaying, ReplayFails
<1>6. ASSUME ReplaySync
      PROVE  BatchInv'
  BY <1>6 DEF IInv, TypeOK, ControlInv, PlaceInv, BatchInv, Untouched, ReplaySync,
          Replaying, ReplayFails
<1>7. ASSUME FlushCollect
      PROVE  BatchInv'
  BY <1>7 DEF IInv, TypeOK, ControlInv, PlaceInv, BatchInv, Untouched, FlushCollect,
          NoDrain
<1>8. ASSUME FlushStore
      PROVE  BatchInv'
  BY <1>8 DEF IInv, TypeOK, ControlInv, PlaceInv, BatchInv, Untouched, FlushStore,
          Unused
<1>9. ASSUME FlushSync
      PROVE  BatchInv'
  BY <1>9 DEF IInv, TypeOK, ControlInv, PlaceInv, BatchInv, Untouched, FlushSync
<1>10. ASSUME Restart
      PROVE  BatchInv'
  BY <1>10 DEF IInv, TypeOK, ControlInv, PlaceInv, BatchInv, Untouched, Restart,
          Reset
<1>11. ASSUME Crash
      PROVE  BatchInv'
  BY <1>11 DEF IInv, TypeOK, ControlInv, PlaceInv, BatchInv, Untouched, Crash, Reset
<1>12. CASE \/ (\E r \in Regs, u \in Units : Relay(r, u))
            \/ (\E r \in Regs : Connect(r)) \/ (\E r \in Regs : Disconnect(r))
            \/ SetUsers \/ StartServer \/ BreakServer \/ Detach
            \/ (\E s \in Servers : Closed(s)) \/ (\E s \in Servers : Swap(s))
            \/ (\E s \in Servers : Judge(s)) \/ (\E s \in Servers : DrainDone(s))
            \/ JobCollect \/ JobAbandon \/ JobCollected \/ JobRequeue \/ JobEnd
            \/ ReplayEnd \/ Stop \/ StopAll
  BY <1>12, <1>1 DEF Relay, Connect, Disconnect, SetUsers, StartServer, BreakServer,
          Detach, Closed, Swap, Judge, DrainDone, JobCollect, JobAbandon,
          JobCollected, JobRequeue, JobEnd, ReplayEnd, Stop, StopAll
<1> QED
  BY <1>1, <1>2, <1>3, <1>4, <1>5, <1>6, <1>7, <1>8, <1>9, <1>10, <1>11, <1>12
  DEF Next, UserStep, JobStep, ReplayStep, StopStep, ServerStep

\* The final flush empties pendingTraffic, and replays the directory as it is
\* then.
LEMMA FlushStep ==
    ASSUME IInv, Next
    PROVE  FlushInv'
<1> USE TuicAssumption DEF Fault, NoFault
<1>1. ASSUME UNCHANGED <<phase, pending, dir, todo>>
      PROVE  FlushInv'
  BY <1>1 DEF IInv, TypeOK, ControlInv, ServerInv, FlushInv, NoDrain, Scanning
<1>2. ASSUME NEW s \in Servers, DrainDone(s)
      PROVE  FlushInv'
  BY <1>2 DEF IInv, TypeOK, ControlInv, ServerInv, FlushInv, NoDrain, Scanning,
          DrainDone, Scanned, ManagerFree
<1>3. ASSUME JobStart
      PROVE  FlushInv'
  BY <1>3 DEF IInv, TypeOK, ControlInv, ServerInv, FlushInv, NoDrain, Scanning,
          JobStart
<1>4. ASSUME JobCollect
      PROVE  FlushInv'
  BY <1>4 DEF IInv, TypeOK, ControlInv, ServerInv, FlushInv, NoDrain, Scanning,
          JobCollect, Registered
<1>5. ASSUME JobRequeue
      PROVE  FlushInv'
  BY <1>5 DEF IInv, TypeOK, ControlInv, ServerInv, FlushInv, NoDrain, Scanning,
          JobRequeue
<1>6. ASSUME NEW b \in Batches, ReplayCommit(b)
      PROVE  FlushInv'
  BY <1>6 DEF IInv, TypeOK, ControlInv, ServerInv, FlushInv, NoDrain, Scanning,
          ReplayCommit, Replaying, CommitBatch, ReplayFails
<1>7. ASSUME ReplayRemove
      PROVE  FlushInv'
  BY <1>7 DEF IInv, TypeOK, ControlInv, ServerInv, FlushInv, NoDrain, Scanning,
          ReplayRemove, Replaying, ReplayFails
<1>8. ASSUME ReplaySync
      PROVE  FlushInv'
  BY <1>8 DEF IInv, TypeOK, ControlInv, ServerInv, FlushInv, NoDrain, Scanning,
          ReplaySync, Replaying, ReplayFails
<1>9. ASSUME ReplayEnd
      PROVE  FlushInv'
  BY <1>9 DEF IInv, TypeOK, ControlInv, ServerInv, FlushInv, NoDrain, Scanning,
          ReplayEnd
<1>10. ASSUME Stop
      PROVE  FlushInv'
  BY <1>10 DEF IInv, TypeOK, ControlInv, ServerInv, FlushInv, NoDrain, Scanning,
          Stop
<1>11. ASSUME StopAll
      PROVE  FlushInv'
  BY <1>11 DEF IInv, TypeOK, ControlInv, ServerInv, FlushInv, NoDrain, Scanning,
          StopAll, CloseManaged
<1>12. ASSUME FlushCollect
      PROVE  FlushInv'
  BY <1>12 DEF IInv, TypeOK, ControlInv, ServerInv, FlushInv, NoDrain, Scanning,
          FlushCollect
<1>13. ASSUME FlushStore
      PROVE  FlushInv'
  BY <1>13 DEF IInv, TypeOK, ControlInv, ServerInv, FlushInv, NoDrain, Scanning,
          FlushStore, Unused
<1>14. ASSUME FlushSync
      PROVE  FlushInv'
  BY <1>14 DEF IInv, TypeOK, ControlInv, ServerInv, FlushInv, NoDrain, Scanning,
          FlushSync
<1>15. ASSUME Restart
      PROVE  FlushInv'
  BY <1>15 DEF IInv, TypeOK, ControlInv, ServerInv, FlushInv, NoDrain, Scanning,
          Restart, Reset
<1>16. ASSUME Crash
      PROVE  FlushInv'
  BY <1>16 DEF IInv, TypeOK, ControlInv, ServerInv, FlushInv, NoDrain, Scanning,
          Crash, Reset
<1>17. CASE \/ (\E r \in Regs, u \in Units : Relay(r, u))
            \/ (\E r \in Regs : Connect(r)) \/ (\E r \in Regs : Disconnect(r))
            \/ SetUsers \/ StartServer \/ BreakServer \/ Detach
            \/ (\E s \in Servers : Closed(s)) \/ (\E s \in Servers : Swap(s))
            \/ (\E s \in Servers : Judge(s)) \/ JobAbandon \/ JobCollected
            \/ JobSubmit \/ JobEnd
  BY <1>17, <1>1 DEF Relay, Connect, Disconnect, SetUsers, StartServer, BreakServer,
          Detach, Closed, Swap, Judge, JobAbandon, JobCollected, JobSubmit, JobEnd
<1> QED
  BY <1>1, <1>2, <1>3, <1>4, <1>5, <1>6, <1>7, <1>8, <1>9, <1>10, <1>11, <1>12,
     <1>13, <1>14, <1>15, <1>16, <1>17
  DEF Next, UserStep, JobStep, ReplayStep, StopStep, ServerStep

\* Only a file whose entry is settled, and so has its receipt, is removed; todo is
\* read from the directory.
LEMMA JournalStep ==
    ASSUME IInv, Next
    PROVE  JournalInv'
<1> USE TuicAssumption DEF Fault, NoFault
<1>1. ASSUME UNCHANGED <<disk, receipts, dir, todo, settled, phase, flushErr>>
      PROVE  JournalInv'
  BY <1>1 DEF IInv, JournalInv
<1>2. ASSUME JobStart
      PROVE  JournalInv'
  BY <1>2 DEF IInv, JournalInv, JobStart
<1>3. ASSUME NEW b \in Batches, ReplayCommit(b)
      PROVE  JournalInv'
  <2>1. /\ UNCHANGED <<dir, disk>> /\ receipts \subseteq receipts'
        /\ todo \subseteq dir
        /\ todo' = todo \/ todo' = {} \/ todo' = dir
    BY <1>3 DEF IInv, TypeOK, JournalInv, ReplayCommit, ReplayFails, CommitBatch
  <2>2. phase' = "stopped" => flushErr' # "none"
    BY <1>3 DEF IInv, JournalInv, ReplayCommit, ReplayFails
  <2> QED
    BY <2>1, <2>2 DEF IInv, JournalInv
<1>4. ASSUME ReplayRemove
      PROVE  JournalInv'
  <2>1. settled \in receipts
    BY <1>4 DEF IInv, ControlInv, ReplayRemove
  <2> QED
    BY <1>4, <2>1 DEF IInv, JournalInv, ReplayRemove, ReplayFails
<1>5. ASSUME ReplaySync
      PROVE  JournalInv'
  BY <1>5 DEF IInv, JournalInv, ReplaySync, ReplayFails
<1>6. ASSUME ReplayEnd
      PROVE  JournalInv'
  BY <1>6 DEF IInv, JournalInv, ReplayEnd
<1>7. ASSUME Stop
      PROVE  JournalInv'
  BY <1>7 DEF IInv, JournalInv, Stop
<1>8. ASSUME StopAll
      PROVE  JournalInv'
  BY <1>8 DEF IInv, JournalInv, StopAll
<1>9. ASSUME FlushCollect
      PROVE  JournalInv'
  BY <1>9 DEF IInv, JournalInv, FlushCollect
<1>10. ASSUME FlushStore
      PROVE  JournalInv'
  BY <1>10 DEF IInv, JournalInv, FlushStore
<1>11. ASSUME FlushSync
      PROVE  JournalInv'
  BY <1>11 DEF IInv, JournalInv, FlushSync
<1>12. ASSUME Restart
      PROVE  JournalInv'
  BY <1>12 DEF IInv, JournalInv, Restart, Reset
<1>13. ASSUME Crash
      PROVE  JournalInv'
  BY <1>13 DEF IInv, JournalInv, Crash, Reset
<1>14. CASE \/ (\E r \in Regs, u \in Units : Relay(r, u))
            \/ (\E r \in Regs : Connect(r)) \/ (\E r \in Regs : Disconnect(r))
            \/ SetUsers \/ StartServer \/ BreakServer \/ Detach
            \/ (\E s \in Servers : Closed(s)) \/ (\E s \in Servers : Swap(s))
            \/ (\E s \in Servers : Judge(s)) \/ (\E s \in Servers : DrainDone(s))
            \/ JobCollect \/ JobAbandon \/ JobCollected \/ JobSubmit \/ JobRequeue
            \/ JobEnd
  BY <1>14, <1>1 DEF Relay, Connect, Disconnect, SetUsers, StartServer, BreakServer,
          Detach, Closed, Swap, Judge, DrainDone, JobCollect, JobAbandon,
          JobCollected, JobSubmit, JobRequeue, JobEnd
<1> QED
  BY <1>1, <1>2, <1>3, <1>4, <1>5, <1>6, <1>7, <1>8, <1>9, <1>10, <1>11, <1>12,
     <1>13, <1>14
  DEF Next, UserStep, JobStep, ReplayStep, StopStep, ServerStep

\* Only JobSubmit and ReplayCommit bill: what is in hand, or in a file without
\* receipt, and both were not billed before.
LEMMA BilledStep ==
    ASSUME IInv, Next
    PROVE  BilledAtMostOnce'
<1> USE TuicAssumption DEF Fault, NoFault
<1>1. ASSUME UNCHANGED <<billed, doubted>>
      PROVE  BilledAtMostOnce'
  BY <1>1 DEF IInv, TypeOK, ControlInv, PlaceInv, BatchInv, BilledAtMostOnce
<1>2. ASSUME JobSubmit
      PROVE  BilledAtMostOnce'
  BY <1>2 DEF IInv, TypeOK, ControlInv, PlaceInv, BatchInv, BilledAtMostOnce,
          JobSubmit, Bill
<1>3. ASSUME NEW b \in Batches, ReplayCommit(b)
      PROVE  BilledAtMostOnce'
  BY <1>3 DEF IInv, TypeOK, ControlInv, PlaceInv, BatchInv, BilledAtMostOnce,
          ReplayCommit, Replaying, CommitBatch, ReplayFails
<1>4. ASSUME Restart
      PROVE  BilledAtMostOnce'
  BY <1>4 DEF IInv, TypeOK, ControlInv, PlaceInv, BatchInv, BilledAtMostOnce,
          Restart, Reset
<1>5. ASSUME Crash
      PROVE  BilledAtMostOnce'
  BY <1>5 DEF IInv, TypeOK, ControlInv, PlaceInv, BatchInv, BilledAtMostOnce, Crash,
          Reset
<1>6. CASE \/ (\E r \in Regs, u \in Units : Relay(r, u))
           \/ (\E r \in Regs : Connect(r)) \/ (\E r \in Regs : Disconnect(r))
           \/ SetUsers \/ StartServer \/ BreakServer \/ Detach
           \/ (\E s \in Servers : Closed(s)) \/ (\E s \in Servers : Swap(s))
           \/ (\E s \in Servers : Judge(s)) \/ (\E s \in Servers : DrainDone(s))
           \/ JobStart \/ JobCollect \/ JobAbandon \/ JobCollected \/ JobRequeue
           \/ JobEnd \/ ReplayRemove \/ ReplaySync \/ ReplayEnd \/ Stop \/ StopAll
           \/ FlushCollect \/ FlushStore \/ FlushSync
  BY <1>6, <1>1 DEF Relay, Connect, Disconnect, SetUsers, StartServer, BreakServer,
          Detach, Closed, Swap, Judge, DrainDone, JobStart, JobCollect, JobAbandon,
          JobCollected, JobRequeue, JobEnd, ReplayRemove, ReplaySync, ReplayEnd,
          Stop, StopAll, FlushCollect, FlushStore, FlushSync
<1> QED
  BY <1>1, <1>2, <1>3, <1>4, <1>5, <1>6
  DEF Next, UserStep, JobStep, ReplayStep, StopStep, ServerStep

\* Nothing that was taken is dropped: units go from got to pending or hand, from
\* hand to a file, to client_traffics or back to pending.
LEMMA TakenStep ==
    ASSUME IInv, Next
    PROVE  TakenIsKept'
<1> USE TuicAssumption DEF Fault, NoFault
<1>1. ASSUME UNCHANGED <<taken, billed, pending, hand, batch, dir, receipts, got>>
      PROVE  TakenIsKept'
  BY <1>1 DEF IInv, TypeOK, ControlInv, ServerInv, BatchInv, TakenIsKept, Billed,
          Journalled
<1>2. ASSUME NEW s \in Servers, Swap(s)
      PROVE  TakenIsKept'
  BY <1>2 DEF IInv, TypeOK, ControlInv, ServerInv, BatchInv, TakenIsKept, Billed,
          Journalled, Swap, Scanning
<1>3. ASSUME NEW s \in Servers, DrainDone(s)
      PROVE  TakenIsKept'
  BY <1>3 DEF IInv, TypeOK, ControlInv, ServerInv, BatchInv, TakenIsKept, Billed,
          Journalled, DrainDone, Scanned, ManagerFree
<1>4. ASSUME JobCollect
      PROVE  TakenIsKept'
  BY <1>4 DEF IInv, TypeOK, ControlInv, ServerInv, BatchInv, TakenIsKept, Billed,
          Journalled, JobCollect, Registered
<1>5. ASSUME JobCollected
      PROVE  TakenIsKept'
  BY <1>5 DEF IInv, TypeOK, ControlInv, ServerInv, BatchInv, TakenIsKept, Billed,
          Journalled, JobCollected, Scanned
<1>6. ASSUME JobSubmit
      PROVE  TakenIsKept'
  BY <1>6 DEF IInv, TypeOK, ControlInv, ServerInv, BatchInv, TakenIsKept, Billed,
          Journalled, JobSubmit, Bill
<1>7. ASSUME JobRequeue
      PROVE  TakenIsKept'
  BY <1>7 DEF IInv, TypeOK, ControlInv, ServerInv, BatchInv, TakenIsKept, Billed,
          Journalled, JobRequeue
<1>8. ASSUME NEW b \in Batches, ReplayCommit(b)
      PROVE  TakenIsKept'
  BY <1>8 DEF IInv, TypeOK, ControlInv, ServerInv, BatchInv, TakenIsKept, Billed,
          Journalled, ReplayCommit, Replaying, CommitBatch, ReplayFails
<1>9. ASSUME ReplayRemove
      PROVE  TakenIsKept'
  BY <1>9 DEF IInv, TypeOK, ControlInv, ServerInv, BatchInv, TakenIsKept, Billed,
          Journalled, ReplayRemove, Replaying, ReplayFails
<1>10. ASSUME FlushCollect
      PROVE  TakenIsKept'
  BY <1>10 DEF IInv, TypeOK, ControlInv, ServerInv, BatchInv, TakenIsKept, Billed,
          Journalled, FlushCollect, NoDrain
<1>11. ASSUME FlushStore
      PROVE  TakenIsKept'
  BY <1>11 DEF IInv, TypeOK, ControlInv, ServerInv, BatchInv, TakenIsKept, Billed,
          Journalled, FlushStore, Unused
<1>12. ASSUME Restart
      PROVE  TakenIsKept'
  BY <1>12 DEF IInv, TypeOK, ControlInv, ServerInv, BatchInv, TakenIsKept, Billed,
          Journalled, Restart, Reset
<1>13. ASSUME Crash
      PROVE  TakenIsKept'
  BY <1>13 DEF IInv, TypeOK, ControlInv, ServerInv, BatchInv, TakenIsKept, Billed,
          Journalled, Crash, Reset
<1>14. CASE \/ (\E r \in Regs, u \in Units : Relay(r, u))
            \/ (\E r \in Regs : Connect(r)) \/ (\E r \in Regs : Disconnect(r))
            \/ SetUsers \/ StartServer \/ BreakServer \/ Detach
            \/ (\E s \in Servers : Closed(s)) \/ (\E s \in Servers : Judge(s))
            \/ JobStart \/ JobAbandon \/ JobEnd \/ ReplaySync \/ ReplayEnd \/ Stop
            \/ StopAll \/ FlushSync
  BY <1>14, <1>1 DEF Relay, Connect, Disconnect, SetUsers, StartServer, BreakServer,
          Detach, Closed, Judge, JobStart, JobAbandon, JobEnd, ReplaySync,
          ReplayEnd, Stop, StopAll, FlushSync
<1> QED
  BY <1>1, <1>2, <1>3, <1>4, <1>5, <1>6, <1>7, <1>8, <1>9, <1>10, <1>11, <1>12,
     <1>13, <1>14
  DEF Next, UserStep, JobStep, ReplayStep, StopStep, ServerStep

\* The final flush ends with nothing in pending, got and hand, so all that was
\* taken is billed or in the journal.
LEMMA StopAccountsStep ==
    ASSUME IInv, Next
    PROVE  StopAccounts'
<1> USE TuicAssumption DEF Fault, NoFault
<1>1. ASSUME UNCHANGED <<phase, flushErr, taken, billed, dir, batch, receipts>>
      PROVE  StopAccounts'
  BY <1>1 DEF IInv, TypeOK, ControlInv, ServerInv, FlushInv, TakenIsKept,
          StopAccounts, Billed, Journalled, NoDrain, Scanning
<1>2. ASSUME NEW s \in Servers, Swap(s)
      PROVE  StopAccounts'
  BY <1>2 DEF IInv, TypeOK, ControlInv, ServerInv, FlushInv, TakenIsKept,
          StopAccounts, Billed, Journalled, NoDrain, Scanning, Swap
<1>3. ASSUME JobSubmit
      PROVE  StopAccounts'
  BY <1>3 DEF IInv, TypeOK, ControlInv, ServerInv, FlushInv, TakenIsKept,
          StopAccounts, Billed, Journalled, NoDrain, Scanning, JobSubmit, Bill
<1>4. ASSUME NEW b \in Batches, ReplayCommit(b)
      PROVE  StopAccounts'
  BY <1>4 DEF IInv, TypeOK, ControlInv, ServerInv, FlushInv, TakenIsKept,
          StopAccounts, Billed, Journalled, NoDrain, Scanning, ReplayCommit,
          Replaying, CommitBatch, ReplayFails
<1>5. ASSUME ReplayRemove
      PROVE  StopAccounts'
  BY <1>5 DEF IInv, TypeOK, ControlInv, ServerInv, FlushInv, TakenIsKept,
          StopAccounts, Billed, Journalled, NoDrain, Scanning, ReplayRemove,
          Replaying, ReplayFails
<1>6. ASSUME ReplaySync
      PROVE  StopAccounts'
  BY <1>6 DEF IInv, TypeOK, ControlInv, ServerInv, FlushInv, TakenIsKept,
          StopAccounts, Billed, Journalled, NoDrain, Scanning, ReplaySync,
          Replaying, ReplayFails
<1>7. ASSUME ReplayEnd
      PROVE  StopAccounts'
  BY <1>7 DEF IInv, TypeOK, ControlInv, ServerInv, FlushInv, TakenIsKept,
          StopAccounts, Billed, Journalled, NoDrain, Scanning, ReplayEnd
<1>8. ASSUME Stop
      PROVE  StopAccounts'
  BY <1>8 DEF IInv, TypeOK, ControlInv, ServerInv, FlushInv, TakenIsKept,
          StopAccounts, Billed, Journalled, NoDrain, Scanning, Stop
<1>9. ASSUME StopAll
      PROVE  StopAccounts'
  BY <1>9 DEF IInv, TypeOK, ControlInv, ServerInv, FlushInv, TakenIsKept,
          StopAccounts, Billed, Journalled, NoDrain, Scanning, StopAll, CloseManaged
<1>10. ASSUME FlushCollect
      PROVE  StopAccounts'
  BY <1>10 DEF IInv, TypeOK, ControlInv, ServerInv, FlushInv, TakenIsKept,
          StopAccounts, Billed, Journalled, NoDrain, Scanning, FlushCollect
<1>11. ASSUME FlushStore
      PROVE  StopAccounts'
  BY <1>11 DEF IInv, TypeOK, ControlInv, ServerInv, FlushInv, TakenIsKept,
          StopAccounts, Billed, Journalled, NoDrain, Scanning, FlushStore, Unused
<1>12. ASSUME FlushSync
      PROVE  StopAccounts'
  BY <1>12 DEF IInv, TypeOK, ControlInv, ServerInv, FlushInv, TakenIsKept,
          StopAccounts, Billed, Journalled, NoDrain, Scanning, FlushSync
<1>13. ASSUME Restart
      PROVE  StopAccounts'
  BY <1>13 DEF IInv, TypeOK, ControlInv, ServerInv, FlushInv, TakenIsKept,
          StopAccounts, Billed, Journalled, NoDrain, Scanning, Restart, Reset
<1>14. ASSUME Crash
      PROVE  StopAccounts'
  BY <1>14 DEF IInv, TypeOK, ControlInv, ServerInv, FlushInv, TakenIsKept,
          StopAccounts, Billed, Journalled, NoDrain, Scanning, Crash, Reset
<1>15. CASE \/ (\E r \in Regs, u \in Units : Relay(r, u))
            \/ (\E r \in Regs : Connect(r)) \/ (\E r \in Regs : Disconnect(r))
            \/ SetUsers \/ StartServer \/ BreakServer \/ Detach
            \/ (\E s \in Servers : Closed(s)) \/ (\E s \in Servers : Judge(s))
            \/ (\E s \in Servers : DrainDone(s)) \/ JobStart \/ JobCollect
            \/ JobAbandon \/ JobCollected \/ JobRequeue \/ JobEnd
  BY <1>15, <1>1 DEF Relay, Connect, Disconnect, SetUsers, StartServer, BreakServer,
          Detach, Closed, Judge, DrainDone, JobStart, JobCollect, JobAbandon,
          JobCollected, JobRequeue, JobEnd
<1> QED
  BY <1>1, <1>2, <1>3, <1>4, <1>5, <1>6, <1>7, <1>8, <1>9, <1>10, <1>11, <1>12,
     <1>13, <1>14, <1>15
  DEF Next, UserStep, JobStep, ReplayStep, StopStep, ServerStep

-----------------------------------------------------------------------------
LEMMA InitInv == Init => IInv
  BY TuicAssumption
  DEF Init, IInv, TypeOK, ControlInv, ServerInv, PlaceInv, BatchInv, FlushInv, JournalInv,
      BilledAtMostOnce, TakenIsKept, StopAccounts, Untouched, Replaying, NoDrain,
      Scanning, Billed, Journalled

LEMMA Stutter ==
    ASSUME IInv, UNCHANGED vars
    PROVE  IInv'
  BY DEF vars, IInv, TypeOK, ControlInv, ServerInv, PlaceInv, BatchInv, FlushInv, JournalInv,
      BilledAtMostOnce, TakenIsKept, StopAccounts, Untouched, Replaying, NoDrain,
      Scanning, Billed, Journalled

LEMMA NextInv ==
    ASSUME IInv, [Next]_vars
    PROVE  IInv'
<1>1. CASE UNCHANGED vars
  BY <1>1, Stutter
<1>2. CASE Next
  <2>1. TypeOK' /\ ControlInv' /\ ServerInv'
    BY <1>2, TypeStep, ControlStep, ServerStepKeeps
  <2>2. PlaceInv' /\ BatchInv' /\ FlushInv' /\ JournalInv'
    BY <1>2, PlaceStep, BatchStep, FlushStep, JournalStep
  <2>3. BilledAtMostOnce' /\ TakenIsKept' /\ StopAccounts'
    BY <1>2, BilledStep, TakenStep, StopAccountsStep
  <2> QED
    BY <2>1, <2>2, <2>3 DEF IInv
<1> QED
  BY <1>1, <1>2

LEMMA Invariance == Spec => []IInv
  BY InitInv, NextInv, PTL DEF Spec

-----------------------------------------------------------------------------
\* Every variable of the TUIC accounting keeps its type: in particular the server
\* in Manager.servers is one that has been started and not yet been closed, and
\* only users that were registered have sessions.
THEOREM TypeCorrect == Spec => []TypeOK
<1>1. IInv => TypeOK
  BY DEF IInv
<1> QED
  BY <1>1, Invariance, PTL

\* Run, replayTuicJournal and flushTuicJournal bill no unit of traffic twice, over
\* any number of failed polls, unacknowledged commits, journal files that come back,
\* restarts and crashes; polls whose commit was reported as failed are excepted.
THEOREM NothingBilledTwice == Spec => []BilledAtMostOnce
<1>1. IInv => BilledAtMostOnce
  BY DEF IInv
<1> QED
  BY <1>1, Invariance, PTL

\* What CollectTrafficDeltas has swapped out of a counter is billed, or in
\* pendingTraffic, in the hands of Run or of the flush, or in the journal, until the
\* process ends.
THEOREM NothingTakenIsLost == Spec => []TakenIsKept
<1>1. IInv => TakenIsKept
  BY DEF IInv
<1> QED
  BY <1>1, Invariance, PTL

\* FlushStoppedTraffic returns nil only when all traffic this process has taken is
\* billed and the journal is empty, and reports a retained journal only when all
\* that is not billed is in it.
THEOREM FlushTellsTheTruth == Spec => []StopAccounts
<1>1. IInv => StopAccounts
  BY DEF IInv
<1> QED
  BY <1>1, Invariance, PTL

-----------------------------------------------------------------------------
(* Refinement: every step of the accounting is a step of TrafficLedger.     *)

\* Where units are, in the terms of the ledger.
LEMMA Apart ==
    ASSUME IInv, NEW u \in Units
    PROVE  /\ u \in Synced => u \in Journalled
           /\ u \in OnCounters \union InMemory => u \notin Journalled
           /\ u \in OnCounters => u \notin InMemory
<1>1. u \in OnCounters => Untouched(u)
  BY DEF IInv, PlaceInv, OnCounters
<1>2. u \in InMemory => \A b \in Batches : u \notin batch[b]
  BY DEF IInv, PlaceInv, InMemory, Untouched
<1>3. u \in OnCounters => u \notin InMemory
  BY DEF IInv, PlaceInv, OnCounters, InMemory
<1> QED
  BY <1>1, <1>2, <1>3 DEF IInv, TypeOK, Untouched, Synced, Journalled

\* A unit that is counted, held or in a file without receipt has not been billed,
\* unless it is doubted.
LEMMA NotBilledYet ==
    ASSUME IInv, NEW u \in OnCounters \union InMemory \union Journalled, u \notin doubted
    PROVE  u \in Units /\ billed[u] = 0
<1>1. u \in Units
  BY DEF IInv, TypeOK, OnCounters, InMemory, Journalled
<1>2. CASE u \in OnCounters
  BY <1>2, <1>1 DEF IInv, PlaceInv, OnCounters, Untouched
<1>3. CASE u \in InMemory
  BY <1>3, <1>1 DEF IInv, PlaceInv, InMemory, Untouched
<1>4. CASE u \in Journalled
  BY <1>4, <1>1 DEF IInv, TypeOK, BatchInv, Journalled
<1> QED
  BY <1>2, <1>3, <1>4, <1>1

\* Once the flush has collected, nothing is left in memory.
LEMMA NothingHeld ==
    ASSUME IInv, phase \in {"sync", "replay"}
    PROVE  InMemory = {}
<1>1. pending = {} /\ hand = {}
  BY DEF IInv, ControlInv, FlushInv
<1>2. \A s \in Servers : got[s] = {}
  BY DEF IInv, TypeOK, ControlInv, ServerInv, NoDrain, Scanning, Servers
<1> QED
  BY <1>1, <1>2 DEF InMemory

\* Each unit either stays where it is or makes one and the same move.
LEMMA Moved ==
    ASSUME NEW from, NEW to,
           \A u \in Units : \/ Status(u)' = Status(u)
                            \/ Status(u) \in from /\ Status(u)' = to
    PROVE  \E us \in SUBSET Ledger!In(from) : Ledger!Move(us, to)
<1> DEFINE us == {u \in Units : Status(u) \in from /\ Status(u)' = to}
<1>1. us \in SUBSET Ledger!In(from)
  BY DEF Ledger!In
<1>2. Ledger!Move(us, to)
  BY DEF Ledger!Move
<1> QED
  BY <1>1, <1>2

LEMMA Stays ==
    ASSUME \A u \in Units : Status(u)' = Status(u), Verdict' = Verdict
    PROVE  UNCHANGED Ledger!vars
  BY DEF Ledger!vars

\* A flush that fails after it has collected reports a retained journal.
LEMMA Retained ==
    ASSUME IInv, phase \in {"sync", "replay"}, InMemory' = {},
           Verdict' = "retained"
    PROVE  Ledger!Report
<1>1. \A u \in Units : Status(u)' # "held"
  BY DEF Status
<1> QED
  BY <1>1 DEF Ledger!Report, Ledger!Tells, Ledger!Verdicts

\* The places a unit can be in have not changed.
SamePlaces ==
    UNCHANGED <<OnCounters, InMemory, Journalled, Synced, billed, doubted>>

LEMMA SameStatus ==
    ASSUME SamePlaces
    PROVE  \A u \in Units : Status(u)' = Status(u)
  BY DEF SamePlaces, Status

LEMMA InitLedger == Init => Ledger!Init
<1> SUFFICES ASSUME Init
             PROVE  Ledger!Init
  OBVIOUS
<1>1. Synced = {} /\ Journalled = {}
  BY DEF Init, Synced, Journalled
<1>2. InMemory = {} /\ OnCounters = Units
  BY DEF Init, InMemory, OnCounters
<1>3. \A u \in Units : u \notin doubted /\ billed[u] = 0
  BY DEF Init
<1>4. ASSUME NEW u \in Units
      PROVE  Status(u) = "free"
  <2>1. u \notin doubted /\ billed[u] = 0 /\ ~ (billed[u] > 1) /\ billed[u] # 1
    BY <1>3
  <2> QED
    BY <2>1, <1>1, <1>2 DEF Status
<1> QED
  BY <1>4 DEF Init, Ledger!Init, Verdict

\* Units pass from one part of memory to another, or from fresh to a counter.
LEMMA QuietSteps ==
    ASSUME IInv,
           \/ UserStep
           \/ JobStart \/ JobCollect \/ JobAbandon \/ JobCollected \/ JobRequeue \/ JobEnd
           \/ StopAll \/ FlushCollect \/ Stop
           \/ \E s \in Servers : Closed(s) \/ Judge(s) \/ DrainDone(s)
    PROVE  UNCHANGED Ledger!vars
<1>1. UNCHANGED <<batch, dir, disk, receipts, billed, doubted>>
  BY DEF UserStep, Relay, Connect, Disconnect, SetUsers, StartServer, BreakServer, Detach,
         JobStart, JobCollect, JobAbandon, JobCollected, JobRequeue, JobEnd, StopAll,
         FlushCollect, Stop, Closed, Judge, DrainDone
<1>2. Synced' = Synced /\ Journalled' = Journalled
  BY <1>1 DEF Synced, Journalled
<1>3. OnCounters' = OnCounters
  <2>1. CASE UNCHANGED <<fresh, counter>>
    BY <2>1 DEF OnCounters
  <2>2. ASSUME NEW r \in Regs, NEW u \in Units, Relay(r, u)
        PROVE  OnCounters' = OnCounters
    <3>1. /\ u \in fresh /\ fresh' = fresh \ {u}
          /\ counter'[r] = counter[r] \union {u}
          /\ \A q \in Regs : q # r => counter'[q] = counter[q]
      BY <2>2 DEF Relay, IInv, TypeOK
    <3> QED
      BY <3>1 DEF OnCounters
  <2> QED
    BY <2>1, <2>2
    DEF UserStep, Connect, Disconnect, SetUsers, StartServer, BreakServer, Detach, JobStart,
        JobCollect, JobAbandon, JobCollected, JobRequeue, JobEnd, StopAll, FlushCollect,
        Stop, Closed, Judge, DrainDone
<1>4. InMemory' = InMemory
  <2>1. CASE UNCHANGED <<pending, hand, got>>
    BY <2>1 DEF InMemory
  <2>2. CASE pending' \union hand' = pending \union hand /\ got' = got
    BY <2>2 DEF InMemory
  <2>3. ASSUME JobCollect \/ FlushCollect
        PROVE  InMemory' = InMemory
    <3>1. hand = {}
      BY <2>3 DEF IInv, ControlInv, JobCollect, FlushCollect
    <3> QED
      BY <2>3, <3>1, <2>2 DEF JobCollect, FlushCollect
  <2>4. ASSUME JobRequeue
        PROVE  InMemory' = InMemory
    BY <2>4, <2>2 DEF JobRequeue
  <2>5. ASSUME JobCollected
        PROVE  InMemory' = InMemory
    <3>1. managed \in Servers
      BY <2>5 DEF JobCollected, IInv, TypeOK, ControlInv
    <3>2. /\ hand' = hand \union got[managed] /\ got'[managed] = {} /\ pending' = pending
          /\ \A t \in Servers : t # managed => got'[t] = got[t]
      BY <2>5, <3>1 DEF JobCollected, IInv, TypeOK
    <3> QED
      BY <3>1, <3>2 DEF InMemory
  <2>6. ASSUME NEW s \in Servers, DrainDone(s)
        PROVE  InMemory' = InMemory
    <3>1. /\ pending' = pending \union got[s] /\ got'[s] = {} /\ hand' = hand
          /\ \A t \in Servers : t # s => got'[t] = got[t]
      BY <2>6 DEF DrainDone, IInv, TypeOK
    <3> QED
      BY <3>1 DEF InMemory
  <2> QED
    BY <2>1, <2>3, <2>4, <2>5, <2>6
    DEF UserStep, Relay, Connect, Disconnect, SetUsers, StartServer, BreakServer, Detach,
        JobStart, JobAbandon, JobEnd, StopAll, Stop, Closed, Judge
<1>5. Verdict' = Verdict
  BY DEF UserStep, Relay, Connect, Disconnect, SetUsers, StartServer, BreakServer, Detach,
         JobStart, JobCollect, JobAbandon, JobCollected, JobRequeue, JobEnd, StopAll,
         FlushCollect, Stop, Closed, Judge, DrainDone, Verdict
<1> QED
  BY <1>1, <1>2, <1>3, <1>4, <1>5, SameStatus, Stays DEF SamePlaces

\* The swap of a counter is the step by which the ledger takes its units.
LEMMA SwapTakes ==
    ASSUME IInv, NEW s \in Servers, Swap(s)
    PROVE  Ledger!Take
<1>1. PICK r \in Regs :
         /\ got' = [got EXCEPT ![s] = @ \union counter[r]]
         /\ counter' = [counter EXCEPT ![r] = {}]
  BY DEF Swap, IInv, TypeOK
<1>2. UNCHANGED <<fresh, pending, hand, batch, dir, disk, receipts, billed, doubted, phase, flushErr>>
  BY DEF Swap
<1>3. Synced' = Synced /\ Journalled' = Journalled
  BY <1>2 DEF Synced, Journalled
<1>4. InMemory' = InMemory \union counter[r]
  <2>1. got'[s] = got[s] \union counter[r] /\ \A t \in Servers : t # s => got'[t] = got[t]
    BY <1>1 DEF IInv, TypeOK
  <2> QED
    BY <2>1, <1>2 DEF InMemory
<1>5. counter[r] \subseteq OnCounters /\ OnCounters' \union counter[r] = OnCounters
  <2>1. counter'[r] = {} /\ \A q \in Regs : q # r => counter'[q] = counter[q]
    BY <1>1 DEF IInv, TypeOK
  <2> QED
    BY <2>1, <1>2 DEF OnCounters
<1>6. ASSUME NEW u \in Units
      PROVE  Status(u)' = Status(u) \/ (Status(u) \in {"free"} /\ Status(u)' = "held")
  <2>1. CASE u \notin counter[r]
    BY <2>1, <1>2, <1>3, <1>4, <1>5 DEF Status
  <2>2. CASE u \in counter[r] /\ u \in doubted
    BY <2>2, <1>2 DEF Status
  <2>3. CASE u \in counter[r] /\ u \notin doubted
    BY <2>3, <1>2, <1>3, <1>4, <1>5, Apart, NotBilledYet DEF Status
  <2> QED
    BY <2>1, <2>2, <2>3
<1>7. Verdict = "none" /\ Verdict' = Verdict
  BY <1>2 DEF Swap, IInv, ControlInv, ServerInv, Scanning, NoDrain, Verdict
<1> QED
  BY <1>6, <1>7, Moved DEF Ledger!Take

\* A poll that commits bills what it holds; one that is reported as failed leaves it
\* held, or in doubt.
LEMMA SubmitBills ==
    ASSUME IInv, JobSubmit
    PROVE  Ledger!Bill \/ Ledger!Doubt \/ UNCHANGED Ledger!vars
<1>1. Verdict = "none" /\ Verdict' = Verdict
  BY DEF JobSubmit, IInv, ControlInv, Verdict
<1>2. UNCHANGED <<fresh, counter, got, pending, batch, dir, disk, receipts>>
  BY DEF JobSubmit
<1>3. UNCHANGED <<OnCounters, Journalled, Synced>>
  BY <1>2 DEF OnCounters, Journalled, Synced
<1>4. hand \subseteq InMemory /\ hand \subseteq Units
  BY DEF InMemory, IInv, TypeOK
<1>5. CASE Bill(hand) /\ hand' = {} /\ doubted' = doubted
  <2>1. \A u \in Units : billed'[u] = IF u \in hand THEN billed[u] + 1 ELSE billed[u]
    BY <1>5 DEF Bill
  <2>2. InMemory' \union hand = InMemory
    BY <1>5, <1>2 DEF InMemory
  <2>3. ASSUME NEW u \in Units
        PROVE  \/ Status(u)' = Status(u)
               \/ Status(u) \in {"held", "filed", "safe"} /\ Status(u)' = "billed"
    <3>1. CASE u \notin hand
      BY <3>1, <2>1, <2>2, <1>3, <1>5 DEF Status
    <3>2. CASE u \in doubted
      BY <3>2, <1>5 DEF Status
    <3>3. CASE u \in hand /\ u \notin doubted
      <4>1. billed[u] = 0 /\ billed'[u] = 1 /\ u \notin Journalled /\ u \notin Synced
        BY <3>3, <1>4, <2>1, Apart, NotBilledYet
      <4> QED
        BY <3>3, <4>1, <1>4, <1>5 DEF Status
    <3> QED
      BY <3>1, <3>2, <3>3
  <2> QED
    BY <2>3, <1>1, Moved DEF Ledger!Bill
<1>6. CASE hand' = hand /\ UNCHANGED <<billed, doubted>>
  <2>1. SamePlaces
    BY <1>6, <1>2, <1>3 DEF SamePlaces, InMemory
  <2> QED
    BY <2>1, <1>1, SameStatus, Stays
<1>7. CASE Bill(hand) /\ hand' = hand /\ doubted' = doubted \union hand
  <2>1. \A u \in Units : u \notin hand => billed'[u] = billed[u]
    BY <1>7 DEF Bill
  <2>2. InMemory' = InMemory
    BY <1>7, <1>2 DEF InMemory
  <2>3. ASSUME NEW u \in Units
        PROVE  Status(u)' = Status(u) \/ (Status(u) \in {"held"} /\ Status(u)' = "doubted")
    <3>1. CASE u \notin hand
      BY <3>1, <2>1, <2>2, <1>3, <1>7 DEF Status
    <3>2. CASE u \in doubted
      BY <3>2, <1>7 DEF Status
    <3>3. CASE u \in hand /\ u \notin doubted
      <4>1. billed[u] = 0 /\ u \notin Journalled /\ u \notin Synced
        BY <3>3, <1>4, Apart, NotBilledYet
      <4> QED
        BY <3>3, <4>1, <1>4, <1>7 DEF Status
    <3> QED
      BY <3>1, <3>2, <3>3
  <2> QED
    BY <2>3, <1>1, Moved DEF Ledger!Doubt
<1> QED
  BY <1>5, <1>6, <1>7 DEF JobSubmit

\* A replay bills the units of a file that has no receipt yet, and nothing if it has.
LEMMA CommitStatus ==
    ASSUME IInv, NEW b \in todo, settled = None, CommitBatch(b),
           UNCHANGED <<fresh, counter, got, pending, hand, batch, dir, disk, doubted>>,
           NEW u \in Units
    PROVE  \/ Status(u)' = Status(u)
           \/ Status(u) \in {"held", "filed", "safe"} /\ Status(u)' = "billed"
<1>1. InMemory' = InMemory /\ OnCounters' = OnCounters
  BY DEF InMemory, OnCounters
<1>2. b \in Batches /\ b \in dir
  BY TuicAssumption DEF IInv, TypeOK, JournalInv
<1>3. CASE b \in receipts
  <2>1. receipts' = receipts /\ billed'[u] = billed[u]
    BY <1>3 DEF CommitBatch
  <2> QED
    BY <2>1, <1>1 DEF Status, Synced, Journalled
<1>4. CASE b \notin receipts /\ u \in doubted
  BY <1>4 DEF Status
<1>5. CASE b \notin receipts /\ u \notin doubted /\ u \in batch[b]
  <2>1. u \in Journalled
    BY <1>2, <1>5 DEF Journalled
  <2>2. billed[u] = 0 /\ billed'[u] = 1
    BY <1>5, <2>1, NotBilledYet DEF CommitBatch
  <2> QED
    BY <1>5, <2>1, <2>2 DEF Status
<1>6. CASE b \notin receipts /\ u \notin batch[b]
  <2>1. billed'[u] = billed[u]
    BY <1>6 DEF CommitBatch
  <2>2. (u \in Journalled' <=> u \in Journalled) /\ (u \in Synced' <=> u \in Synced)
    BY <1>6 DEF CommitBatch, Journalled, Synced
  <2> QED
    BY <2>1, <2>2, <1>1 DEF Status
<1> QED
  BY <1>3, <1>4, <1>5, <1>6

LEMMA ReplayBills ==
    ASSUME IInv, NEW b \in Batches, ReplayCommit(b)
    PROVE  Ledger!Bill \/ Ledger!Flush \/ UNCHANGED Ledger!vars
<1>1. /\ b \in todo /\ settled = None
      /\ UNCHANGED <<fresh, counter, got, pending, hand, batch, dir, disk, doubted>>
  BY DEF ReplayCommit
<1>2. InMemory' = InMemory
  BY <1>1 DEF InMemory
<1>3. Verdict = "none"
  BY DEF ReplayCommit, Replaying, IInv, ControlInv, Verdict
<1>4. \/ Verdict' = "none"
      \/ phase = "replay" /\ Verdict' = "retained"
  BY DEF ReplayCommit, ReplayFails, Replaying, IInv, ControlInv, Verdict
<1>5. Verdict' = Verdict \/ Ledger!Report
  BY <1>2, <1>3, <1>4, NothingHeld, Retained
<1>6. CASE CommitBatch(b)
  <2>1. \E us \in SUBSET Ledger!In({"held", "filed", "safe"}) : Ledger!Move(us, "billed")
    BY <1>6, <1>1, CommitStatus, Moved
  <2> QED
    BY <2>1, <1>3, <1>5 DEF Ledger!Bill
<1>7. CASE UNCHANGED <<receipts, billed>>
  <2>1. SamePlaces
    BY <1>7, <1>1, <1>2 DEF SamePlaces, OnCounters, Journalled, Synced
  <2> QED
    BY <2>1, <1>3, <1>5, SameStatus, Stays DEF Ledger!Flush
<1> QED
  BY <1>6, <1>7 DEF ReplayCommit

\* The file that is removed has its receipt.
LEMMA RemoveKeeps ==
    ASSUME IInv, ReplayRemove
    PROVE  Ledger!Flush \/ UNCHANGED Ledger!vars
<1>1. /\ settled \in receipts
      /\ dir' = dir \/ dir' = dir \ {settled}
      /\ UNCHANGED <<fresh, counter, got, pending, hand, batch, disk, receipts, billed, doubted>>
  BY DEF ReplayRemove, IInv, ControlInv
<1>2. Journalled' = Journalled /\ Synced' = Synced
  BY <1>1 DEF Journalled, Synced
<1>3. InMemory' = InMemory /\ OnCounters' = OnCounters
  BY <1>1 DEF InMemory, OnCounters
<1>4. Verdict = "none"
  BY DEF ReplayRemove, Replaying, IInv, ControlInv, Verdict
<1>5. \/ Verdict' = "none"
      \/ phase = "replay" /\ Verdict' = "retained"
  BY DEF ReplayRemove, ReplayFails, Replaying, IInv, ControlInv, Verdict
<1>6. Verdict' = Verdict \/ Ledger!Report
  BY <1>3, <1>4, <1>5, NothingHeld, Retained
<1> QED
  BY <1>1, <1>2, <1>3, <1>4, <1>6, SameStatus, Stays DEF SamePlaces, Ledger!Flush

\* Synchronising the directory makes every file in it safe.
LEMMA SyncStatus ==
    ASSUME IInv, disk' = dir,
           UNCHANGED <<fresh, counter, got, pending, hand, batch, dir, receipts, billed, doubted>>
    PROVE  Ledger!Move(Ledger!In({"filed"}), "safe")
<1>1. InMemory' = InMemory /\ OnCounters' = OnCounters /\ Journalled' = Journalled
  BY DEF InMemory, OnCounters, Journalled
<1>2. Synced' = Journalled
  BY DEF Synced, Journalled
<1>3. ASSUME NEW u \in Units
      PROVE  Status(u)' = IF Status(u) = "filed" THEN "safe" ELSE Status(u)
  BY <1>1, <1>2, Apart DEF Status
<1> QED
  BY <1>3 DEF Ledger!Move, Ledger!In

LEMMA ReplaySyncs ==
    ASSUME IInv, ReplaySync
    PROVE  Ledger!Sync \/ Ledger!Flush \/ UNCHANGED Ledger!vars
<1>1. UNCHANGED <<fresh, counter, got, pending, hand, batch, dir, receipts, billed, doubted>>
  BY DEF ReplaySync
<1>2. Verdict = "none"
  BY DEF ReplaySync, Replaying, IInv, ControlInv, Verdict
<1>3. CASE disk' = dir /\ UNCHANGED runVars
  <2>1. Verdict' = Verdict
    BY <1>3 DEF Verdict
  <2> QED
    BY <2>1, <1>1, <1>2, <1>3, SyncStatus DEF Ledger!Sync
<1>4. CASE disk' = disk /\ ReplayFails
  <2>1. SamePlaces
    BY <1>4, <1>1 DEF SamePlaces, OnCounters, Journalled, Synced, InMemory
  <2>2. \/ Verdict' = "none"
        \/ phase = "replay" /\ Verdict' = "retained"
    BY <1>4 DEF ReplaySync, ReplayFails, Replaying, IInv, ControlInv, Verdict
  <2>3. Verdict' = Verdict \/ Ledger!Report
    BY <2>1, <2>2, <1>2, NothingHeld, Retained DEF SamePlaces
  <2> QED
    BY <2>1, <2>3, <1>2, SameStatus, Stays DEF Ledger!Flush
<1> QED
  BY <1>3, <1>4 DEF ReplaySync

\* Success is reported with an empty directory.
LEMMA EndReports ==
    ASSUME IInv, ReplayEnd
    PROVE  Ledger!Flush \/ UNCHANGED Ledger!vars
<1>1. SamePlaces
  BY DEF ReplayEnd, SamePlaces, OnCounters, Journalled, Synced, InMemory
<1>2. CASE jobPc = "replay"
  <2>1. Verdict' = Verdict
    BY <1>2 DEF ReplayEnd, IInv, ControlInv, Verdict
  <2> QED
    BY <2>1, <1>1, SameStatus, Stays
<1>3. CASE phase = "replay" /\ phase' = "stopped" /\ flushErr' = "ok"
  <2>1. dir = {}
    BY <1>3 DEF ReplayEnd, IInv, FlushInv
  <2>2. Journalled' = {} /\ Synced' = {}
    BY <1>1, <2>1 DEF SamePlaces, Journalled, Synced
  <2>3. InMemory' = {}
    BY <1>1, <1>3, NothingHeld DEF SamePlaces
  <2>4. \A u \in Units : Status(u)' \notin {"held", "filed", "safe"}
    BY <2>2, <2>3 DEF Status
  <2>5. Verdict = "none" /\ Verdict' = "ok"
    BY <1>3 DEF Verdict
  <2>6. Ledger!Report
    BY <2>4, <2>5 DEF Ledger!Report, Ledger!Tells, Ledger!Verdicts
  <2> QED
    BY <2>5, <2>6, <1>1, SameStatus DEF Ledger!Flush
<1> QED
  BY <1>2, <1>3 DEF ReplayEnd

\* What the flush has collected goes to a file, or the flush reports that it did not.
LEMMA StoreFiles ==
    ASSUME IInv, FlushStore
    PROVE  Ledger!File \/ Ledger!Flush
<1>1. UNCHANGED <<fresh, counter, got, disk, receipts, billed, doubted>> /\ Verdict = "none"
  BY DEF FlushStore, Verdict
<1>2. OnCounters' = OnCounters
  BY <1>1 DEF OnCounters
<1>3. ASSUME NEW b \in Unused, batch' = [batch EXCEPT ![b] = hand], dir' = dir \union {b},
             hand' = {}, phase' = "sync", UNCHANGED pending
      PROVE  Ledger!File
  <2>1. b \in Batches /\ b \notin dir \union disk \union receipts
    BY <1>3 DEF Unused, IInv, BatchInv
  <2>2. batch'[b] = hand /\ \A c \in Batches : c # b => batch'[c] = batch[c]
    BY <1>3, <2>1 DEF IInv, TypeOK
  <2>3. dir \subseteq Batches
    BY DEF IInv, TypeOK
  <2>4. Journalled' = Journalled \union hand
    BY <1>1, <1>3, <2>1, <2>2, <2>3 DEF Journalled
  <2>5. Synced' = Synced
    BY <1>1, <1>3, <2>1, <2>2, <2>3 DEF Synced
  <2>6. InMemory' \union hand = InMemory
    BY <1>1, <1>3 DEF InMemory
  <2>7. ASSUME NEW u \in Units
        PROVE  Status(u)' = Status(u) \/ (Status(u) \in {"held"} /\ Status(u)' = "filed")
    <3>1. CASE u \notin hand
      BY <3>1, <1>1, <1>2, <2>4, <2>5, <2>6 DEF Status
    <3>2. CASE u \in doubted
      BY <3>2, <1>1 DEF Status
    <3>3. CASE u \in hand /\ u \notin doubted
      <4>1. billed[u] = 0 /\ u \notin Journalled /\ u \notin Synced
        BY <3>3, <2>6, Apart, NotBilledYet
      <4> QED
        BY <3>3, <4>1, <1>1, <2>4, <2>5, <2>6 DEF Status
    <3> QED
      BY <3>1, <3>2, <3>3
  <2>8. Verdict' = Verdict
    BY <1>1, <1>3 DEF Verdict
  <2> QED
    BY <2>7, <2>8, <1>1, Moved DEF Ledger!File
<1>4. CASE /\ pending' = pending \union hand /\ hand' = {}
           /\ phase' = "stopped" /\ flushErr' = "notStored"
           /\ UNCHANGED <<batch, dir>>
  <2>1. SamePlaces
    BY <1>4, <1>1, <1>2 DEF SamePlaces, Journalled, Synced, InMemory
  <2>2. Verdict' = "notStored"
    BY <1>4 DEF Verdict
  <2>3. Ledger!Report
    BY <2>2 DEF Ledger!Report, Ledger!Tells, Ledger!Verdicts
  <2> QED
    BY <2>1, <2>3, <1>1, SameStatus DEF Ledger!Flush
<1> QED
  BY <1>3, <1>4 DEF FlushStore

LEMMA FlushSyncs ==
    ASSUME IInv, FlushSync
    PROVE  Ledger!Sync \/ Ledger!Flush
<1>1. UNCHANGED <<fresh, counter, got, pending, hand, batch, dir, receipts, billed, doubted>>
  BY DEF FlushSync
<1>2. Verdict = "none"
  BY DEF FlushSync, Verdict
<1>3. CASE disk' = dir /\ phase' = "replay"
  <2>1. Verdict' = Verdict
    BY <1>2, <1>3 DEF Verdict
  <2> QED
    BY <2>1, <1>1, <1>2, <1>3, SyncStatus DEF Ledger!Sync
<1>4. CASE phase' = "stopped" /\ flushErr' = "retained" /\ UNCHANGED disk
  <2>1. SamePlaces
    BY <1>4, <1>1 DEF SamePlaces, OnCounters, Journalled, Synced, InMemory
  <2>2. Verdict' = "retained"
    BY <1>4 DEF Verdict
  <2>3. Ledger!Report
    BY <2>1, <2>2, NothingHeld, Retained DEF SamePlaces, FlushSync
  <2> QED
    BY <2>1, <2>3, <1>2, SameStatus DEF Ledger!Flush
<1> QED
  BY <1>3, <1>4 DEF FlushSync

\* Only what is billed or in a file outlives the process; of the files, those that a
\* crash leaves in the directory.
LEMMA ResetStatus ==
    ASSUME IInv, Reset, dir' \subseteq dir \union disk, NEW u \in Units
    PROVE  /\ Status(u) # "twice"
           /\ Status(u) \in {"doubted", "billed", "lost"} => Status(u)' = Status(u)
           /\ Status(u) = "free" => Status(u)' \in {"free", "lost"}
           /\ Status(u) = "held" => Status(u)' = "lost"
           /\ Status(u) \in {"safe", "filed"} =>
                Status(u)' = IF u \in Synced' THEN "safe"
                             ELSE IF u \in Journalled' THEN "filed" ELSE "lost"
<1>1. InMemory' = {} /\ OnCounters' = fresh /\ fresh \subseteq OnCounters
  BY DEF Reset, InMemory, OnCounters
<1>2. UNCHANGED <<batch, receipts, billed, doubted>>
  BY DEF Reset
<1>3. Journalled' \subseteq Journalled
  <2>1. dir' \ receipts \subseteq dir \ receipts
    BY DEF IInv, JournalInv
  <2> QED
    BY <2>1, <1>2 DEF Journalled
<1>4. Synced' \subseteq Journalled'
  BY DEF Synced, Journalled
<1>5. u \in doubted \/ billed[u] = 0 \/ billed[u] = 1
  BY DEF IInv, TypeOK, BilledAtMostOnce
<1>6. /\ u \in Synced => u \in Journalled
      /\ u \in fresh => u \notin Journalled /\ u \notin InMemory
      /\ u \in InMemory => u \notin Journalled
  BY <1>1, Apart
<1>7. CASE u \in doubted
  BY <1>7, <1>2 DEF Status
<1>8. CASE u \notin doubted /\ billed[u] = 1
  BY <1>8, <1>2 DEF Status
<1>9. CASE u \notin doubted /\ billed[u] = 0
  <2>1. Status(u) = IF u \in Synced THEN "safe" ELSE IF u \in Journalled THEN "filed"
                    ELSE IF u \in InMemory THEN "held" ELSE IF u \in OnCounters THEN "free"
                    ELSE "lost"
    BY <1>9 DEF Status
  <2>2. Status(u)' = IF u \in Synced' THEN "safe" ELSE IF u \in Journalled' THEN "filed"
                     ELSE IF u \in fresh THEN "free" ELSE "lost"
    BY <1>9, <1>1, <1>2 DEF Status
  <2> QED
    BY <2>1, <2>2, <1>1, <1>3, <1>4, <1>6
<1> QED
  BY <1>5, <1>7, <1>8, <1>9

LEMMA RestartLoses ==
    ASSUME IInv, Restart
    PROVE  Ledger!Restart
<1>1. Reset /\ UNCHANGED <<dir, disk, batch, receipts>>
  BY DEF Restart, Reset
<1>2. Synced' = Synced /\ Journalled' = Journalled
  BY <1>1 DEF Synced, Journalled
<1>3. Verdict # "none" /\ Verdict' = "none"
  BY DEF Restart, Reset, IInv, JournalInv, Verdict
<1>4. ASSUME NEW u \in Units
      PROVE  /\ Status(u)' \in Ledger!Statuses
             /\ Status(u)' \in Ledger!AfterExit(Status(u))
  <2>1. dir' \subseteq dir \union disk
    BY <1>1
  <2>2. /\ Status(u) = "safe" => u \in Synced
        /\ Status(u) = "filed" => u \notin Synced /\ u \in Journalled
        /\ Status(u) \in Ledger!Statuses \union {"twice"}
    BY DEF Status, Ledger!Statuses
  <2> QED
    BY <2>1, <2>2, <1>1, <1>2, ResetStatus DEF Ledger!Statuses, Ledger!AfterExit
<1> QED
  BY <1>3, <1>4 DEF Ledger!Restart

LEMMA CrashLoses ==
    ASSUME IInv, Crash
    PROVE  Ledger!Crash
<1>1. /\ Reset /\ UNCHANGED <<batch, receipts>>
      /\ dir \intersect disk \subseteq dir' /\ dir' \subseteq dir \union disk /\ disk' = dir'
  BY DEF Crash, Reset
<1>2. Synced \subseteq Synced' /\ Journalled' = Synced'
  BY <1>1 DEF Synced, Journalled
<1>3. Verdict' = "none"
  BY DEF Crash, Reset, Verdict
<1>4. ASSUME NEW u \in Units
      PROVE  /\ Status(u)' \in Ledger!Statuses
             /\ Status(u)' \in Ledger!AfterCrash(Status(u))
  <2>1. /\ Status(u) = "safe" => u \in Synced
        /\ Status(u) \in Ledger!Statuses \union {"twice"}
    BY DEF Status, Ledger!Statuses
  <2> QED
    BY <2>1, <1>1, <1>2, ResetStatus DEF Ledger!Statuses, Ledger!AfterExit, Ledger!AfterCrash
<1> QED
  BY <1>3, <1>4 DEF Ledger!Crash

LEMMA LedgerStep ==
    ASSUME IInv, [Next]_vars
    PROVE  [Ledger!Next]_(Ledger!vars)
<1>1. CASE UNCHANGED vars
  <2>1. UNCHANGED <<fresh, counter, got, pending, hand, batch, dir, disk, receipts, billed,
                    doubted, phase, flushErr>>
    BY <1>1 DEF vars
  <2>2. SamePlaces /\ Verdict' = Verdict
    BY <2>1 DEF SamePlaces, OnCounters, InMemory, Journalled, Synced, Verdict
  <2> QED
    BY <2>2, SameStatus, Stays
<1>2. CASE JobSubmit
  BY <1>2, SubmitBills DEF Ledger!Next
<1>3. CASE ReplayStep
  BY <1>3, ReplayBills, RemoveKeeps, ReplaySyncs, EndReports DEF ReplayStep, Ledger!Next
<1>4. CASE FlushStore \/ FlushSync
  BY <1>4, StoreFiles, FlushSyncs DEF Ledger!Next
<1>5. CASE Restart \/ Crash
  BY <1>5, RestartLoses, CrashLoses DEF Ledger!Next
<1>6. ASSUME NEW s \in Servers, Swap(s)
      PROVE  Ledger!Next
  BY <1>6, SwapTakes DEF Ledger!Next
<1> QED
  BY <1>1, <1>2, <1>3, <1>4, <1>5, <1>6, QuietSteps DEF Next, JobStep, StopStep, ServerStep

\* Polls, drains, journal and replays, the final flush, restarts and crashes move a
\* unit of traffic only as TrafficLedger allows: once read from its counter it is
\* billed once, or lost with the process that had not journalled it, and what
\* FlushStoppedTraffic returns tells which.
THEOREM TuicImplementsLedger == Spec => ImplementsLedger
<1>1. Init => Ledger!Init
  BY InitLedger
<1>2. IInv /\ [Next]_vars => [Ledger!Next]_(Ledger!vars)
  BY LedgerStep
<1> QED
  BY <1>1, <1>2, Invariance, PTL DEF Spec, ImplementsLedger, Ledger!Spec
=============================================================================
