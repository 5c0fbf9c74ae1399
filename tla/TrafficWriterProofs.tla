------------------------ MODULE TrafficWriterProofs ------------------------
(***************************************************************************)
(* The safety of the traffic writer for any number of callers,             *)
(* controllers and generations and any queue size.                         *)
(***************************************************************************)
EXTENDS TrafficWriter, TLAPS

Live(g) == writer[g] \notin {"absent", "exited"}

InQueue(c, g) == \E i \in 1..Len(queue[g]) : queue[g][i] = c

\* Where the generations are: only the current one can have a writer alive.
GenInv ==
    /\ cancelled \subseteq 1..spawned
    /\ \A g \in Gens :
        /\ g > spawned => writer[g] = "absent"
        /\ g <= spawned => writer[g] # "absent"
        /\ Live(g) => g = cur
        /\ writer[g] \in {"drain", "drainApply", "exited"} => g \in cancelled
        /\ held[g] # Free <=> writer[g] \in {"apply", "drainApply"}
        /\ writer[g] \in {"absent", "exited"} => queue[g] = <<>>
    /\ \A k \in Controllers :
        /\ ctl[k] # "idle" => ctlGen[k] \in 1..spawned
        /\ ctl[k] = "clear" => writer[ctlGen[k]] = "exited"

\* A sender holds the mutex, so the generation it captured is still current and
\* not cancelled.
SendInv ==
    \A c \in Callers :
        /\ pc[c] = "sending" <=> twMu = c
        /\ pc[c] = "sending" => gen[c] = cur /\ cur # 0 /\ cur \notin cancelled

\* A request is in at most one place, and an unanswered one is in exactly one.
PlaceInv ==
    /\ \A g \in Gens : \A i, j \in 1..Len(queue[g]) : queue[g][i] = queue[g][j] => i = j
    /\ \A g \in Gens : \A i \in 1..Len(queue[g]) :
        /\ pc[queue[g][i]] = "waiting"
        /\ gen[queue[g][i]] = g
        /\ outcome[queue[g][i]] = "none"
        /\ held[g] # queue[g][i]
    /\ \A g \in Gens : held[g] # Free =>
        pc[held[g]] = "waiting" /\ gen[held[g]] = g /\ outcome[held[g]] = "none"
    /\ \A c \in Callers : pc[c] = "waiting" =>
        /\ gen[c] \in Gens
        /\ outcome[c] = "none" => held[gen[c]] = c \/ InQueue(c, gen[c])

\* What has been committed is what has been or will be answered.
AnswerInv ==
    \A c \in Callers :
        /\ commits[c] <= 1
        /\ pc[c] \in {"sending", "inline"} => outcome[c] = "none"
        /\ pc[c] = "inlineDone" => outcome[c] # "none"
        /\ pc[c] \notin {"idle", "returned"} =>
            /\ outcome[c] = "ok" <=> commits[c] = 1
            /\ result[c] = "none"
        /\ pc[c] = "returned" => (result[c] = "ok" <=> commits[c] = 1)
        /\ result[c] # "stopped"

IInv == TypeOK /\ GenInv /\ SendInv /\ PlaceInv /\ AnswerInv

-----------------------------------------------------------------------------
(* Steps that move no request                                              *)

LEMMA QueuedAreCallers ==
    ASSUME TypeOK, NEW g \in Gens, NEW i \in 1..Len(queue[g])
    PROVE  queue[g][i] \in Callers
<1>1. queue[g] \in Seq(Callers)
  BY DEF TypeOK
<1> QED
  BY <1>1

\* What a step that leaves the channels alone must not do to unanswered callers.
LEMMA PlaceUnmoved ==
    ASSUME TypeOK, PlaceInv,
           UNCHANGED <<queue, held>>,
           \A c \in Callers : outcome[c] = "none" /\ pc[c] = "waiting" =>
               pc'[c] = pc[c] /\ gen'[c] = gen[c] /\ outcome'[c] = outcome[c],
           \A c \in Callers : pc'[c] = "waiting" =>
               pc[c] = "waiting" /\ gen'[c] = gen[c] /\ outcome'[c] = outcome[c]
    PROVE  PlaceInv'
<1> USE DEF Gens
<1>1. \A g \in Gens : \A i \in 1..Len(queue[g]) : queue[g][i] \in Callers
  BY QueuedAreCallers
<1>2. \A g \in Gens : held[g] # Free => held[g] \in Callers
  BY DEF TypeOK
<1>3. (\A g \in Gens : \A i, j \in 1..Len(queue[g]) : queue[g][i] = queue[g][j] => i = j)'
  BY DEF PlaceInv
<1>4. (\A g \in Gens : \A i \in 1..Len(queue[g]) :
        /\ pc[queue[g][i]] = "waiting"
        /\ gen[queue[g][i]] = g
        /\ outcome[queue[g][i]] = "none"
        /\ held[g] # queue[g][i])'
  BY <1>1 DEF PlaceInv
<1>5. (\A g \in Gens : held[g] # Free =>
        pc[held[g]] = "waiting" /\ gen[held[g]] = g /\ outcome[held[g]] = "none")'
  BY <1>2 DEF PlaceInv
<1>6. (\A c \in Callers : pc[c] = "waiting" =>
        /\ gen[c] \in Gens
        /\ outcome[c] = "none" => held[gen[c]] = c \/ InQueue(c, gen[c]))'
  BY DEF PlaceInv, InQueue
<1> QED
  BY <1>3, <1>4, <1>5, <1>6 DEF PlaceInv

\* An accepted request of an exited writer has been answered: it was neither in
\* the queue, which was empty, nor held.
LEMMA StoppedIsAnswered ==
    ASSUME IInv, NEW c \in Callers, pc[c] = "waiting", writer[gen[c]] = "exited"
    PROVE  outcome[c] # "none"
<1>1. gen[c] \in Gens
  BY DEF IInv, PlaceInv
<1>2. queue[gen[c]] = <<>> /\ held[gen[c]] = Free
  BY <1>1 DEF IInv, TypeOK, GenInv
<1>3. ~ InQueue(c, gen[c])
  BY <1>2 DEF InQueue
<1> QED
  BY <1>2, <1>3, WriterAssumption DEF IInv, PlaceInv

\* A caller that sees the writer gone therefore finds its answer.
LEMMA SeeWriterDoneReceives ==
    ASSUME IInv, NEW c \in Callers, SeeWriterDone(c)
    PROVE  ReceiveAnswer(c)
<1>1. pc[c] = "waiting" /\ writer[gen[c]] = "exited"
  BY DEF SeeWriterDone
<1>2. outcome[c] # "none"
  BY <1>1, StoppedIsAnswered
<1> QED
  BY <1>2 DEF SeeWriterDone, ReceiveAnswer, ReturnOutcome

-----------------------------------------------------------------------------
(* submitTrafficWrite                                                      *)

LEMMA BeginQueuedPreserves ==
    ASSUME IInv, NEW c \in Callers, BeginQueued(c)
    PROVE  IInv'
<1> USE WriterAssumption DEF Gens, Outcomes, BeginQueued, NewCall, lifeVars, callVars, writerVars
<1>1. TypeOK'
  BY DEF IInv, TypeOK, WriterPcs, CallerPcs
<1>2. GenInv'
  BY DEF IInv, TypeOK, GenInv, SendInv, Live, WriterPcs, CallerPcs
<1>3. SendInv'
  BY DEF IInv, TypeOK, GenInv, SendInv, Live, WriterPcs, CallerPcs
<1>4. PlaceInv'
  BY SMTT(30) DEF IInv, TypeOK, GenInv, SendInv, PlaceInv, InQueue, WriterPcs, CallerPcs
<1>5. AnswerInv'
  BY DEF IInv, TypeOK, GenInv, PlaceInv, AnswerInv, InQueue, WriterPcs, CallerPcs
<1> QED
  BY <1>1, <1>2, <1>3, <1>4, <1>5 DEF IInv

LEMMA BeginInlinePreserves ==
    ASSUME IInv, NEW c \in Callers, BeginInline(c)
    PROVE  IInv'
<1> USE WriterAssumption DEF Gens, Outcomes, BeginInline, NewCall, lifeVars, callVars, writerVars
<1>1. TypeOK'
  BY DEF IInv, TypeOK, WriterPcs, CallerPcs
<1>2. GenInv'
  BY DEF IInv, TypeOK, GenInv, SendInv, Live, WriterPcs, CallerPcs
<1>3. SendInv'
  BY DEF IInv, TypeOK, GenInv, SendInv, Live, WriterPcs, CallerPcs
<1>4. PlaceInv'
  BY DEF IInv, TypeOK, GenInv, SendInv, PlaceInv, InQueue, WriterPcs, CallerPcs
<1>5. AnswerInv'
  BY DEF IInv, TypeOK, GenInv, PlaceInv, AnswerInv, InQueue, WriterPcs, CallerPcs
<1> QED
  BY <1>1, <1>2, <1>3, <1>4, <1>5 DEF IInv

LEMMA EnqueuePreserves ==
    ASSUME IInv, NEW c \in Callers, Enqueue(c)
    PROVE  IInv'
<1> USE WriterAssumption DEF Gens, Outcomes, Enqueue, lifeVars, callVars, writerVars
<1>1. TypeOK'
  <2>1. gen[c] \in Gens
    BY DEF IInv, TypeOK, SendInv
  <2>2. Append(queue[gen[c]], c) \in Seq(Callers)
    BY <2>1 DEF IInv, TypeOK
  <2> QED
    BY <2>1, <2>2 DEF IInv, TypeOK, CallerPcs
<1>2. GenInv'
  BY DEF IInv, TypeOK, GenInv, SendInv, Live, WriterPcs, CallerPcs
<1>3. SendInv'
  BY DEF IInv, TypeOK, GenInv, SendInv, Live, WriterPcs, CallerPcs
<1>4. PlaceInv'
  <2> DEFINE G == gen[c]
  <2>1. G \in Gens /\ queue[G] \in Seq(Callers) /\ pc[c] # "waiting" /\ outcome[c] = "none"
    BY DEF IInv, TypeOK, SendInv, AnswerInv
  <2>2. queue' = [queue EXCEPT ![G] = Append(queue[G], c)] /\ held' = held
        /\ pc' = [pc EXCEPT ![c] = "waiting"] /\ UNCHANGED <<gen, outcome>>
    OBVIOUS
  <2> HIDE DEF Enqueue
  <2>3. /\ Len(queue'[G]) = Len(queue[G]) + 1
        /\ \A i \in 1..Len(queue[G]) : queue'[G][i] = queue[G][i]
        /\ queue'[G][Len(queue[G]) + 1] = c
        /\ \A g \in Gens : g # G => queue'[g] = queue[g]
    BY <2>1, <2>2 DEF IInv, TypeOK
  <2>4. \A g \in Gens : \A i \in 1..Len(queue[g]) : queue[g][i] \in Callers /\ queue[g][i] # c
    BY <2>1, QueuedAreCallers DEF IInv, PlaceInv
  <2>5. \A g \in Gens : held[g] # c
    BY <2>1 DEF IInv, PlaceInv
  <2>6. (\A g \in Gens : \A i, j \in 1..Len(queue[g]) : queue[g][i] = queue[g][j] => i = j)'
    <3> SUFFICES ASSUME NEW g \in Gens, NEW i \in 1..Len(queue'[g]), NEW j \in 1..Len(queue'[g]),
                        queue'[g][i] = queue'[g][j]
                 PROVE  i = j
      OBVIOUS
    <3>1. CASE g # G
      BY <3>1, <2>3 DEF IInv, PlaceInv
    <3>2. CASE g = G
      <4>1. Len(queue[G]) \in Nat
        BY <2>1
      <4>2. (i \in 1..Len(queue[G]) \/ i = Len(queue[G]) + 1)
            /\ (j \in 1..Len(queue[G]) \/ j = Len(queue[G]) + 1)
        BY <4>1, <2>3, <3>2
      <4>3. \A m \in 1..Len(queue[G]) : queue[G][m] # c
        BY <2>1, <2>4
      <4>4. \A m, n \in 1..Len(queue[G]) : queue[G][m] = queue[G][n] => m = n
        BY <2>1 DEF IInv, PlaceInv
      <4>5. CASE i \in 1..Len(queue[G]) /\ j \in 1..Len(queue[G])
        BY <4>4, <4>5, <3>2, <2>3
      <4>6. CASE i = Len(queue[G]) + 1 /\ j \in 1..Len(queue[G])
        BY <4>3, <4>6, <3>2, <2>3
      <4>7. CASE j = Len(queue[G]) + 1 /\ i \in 1..Len(queue[G])
        BY <4>3, <4>7, <3>2, <2>3
      <4> QED
        BY <4>2, <4>5, <4>6, <4>7
    <3> QED
      BY <3>1, <3>2
  <2>7. (\A g \in Gens : \A i \in 1..Len(queue[g]) :
          /\ pc[queue[g][i]] = "waiting"
          /\ gen[queue[g][i]] = g
          /\ outcome[queue[g][i]] = "none"
          /\ held[g] # queue[g][i])'
    <3> SUFFICES ASSUME NEW g \in Gens, NEW i \in 1..Len(queue'[g])
                 PROVE  /\ pc'[queue'[g][i]] = "waiting"
                        /\ gen[queue'[g][i]] = g
                        /\ outcome[queue'[g][i]] = "none"
                        /\ held[g] # queue'[g][i]
      BY <2>2
    <3>1. CASE i \in 1..Len(queue[g]) /\ queue'[g][i] = queue[g][i]
      BY <3>1, <2>2, <2>4 DEF IInv, TypeOK, PlaceInv
    <3>2. CASE g = G /\ queue'[g][i] = c
      BY <3>2, <2>1, <2>2, <2>5 DEF IInv, TypeOK
    <3>3. CASE g # G
      BY <3>1, <3>3, <2>3
    <3>4. CASE g = G
      <4>1. Len(queue[G]) \in Nat /\ Len(queue'[G]) = Len(queue[G]) + 1
        BY <2>1, <2>3
      <4>2. i \in 1..Len(queue[G]) \/ i = Len(queue[G]) + 1
        BY <3>4, <4>1
      <4> QED
        BY <3>1, <3>2, <3>4, <4>1, <4>2, <2>3
    <3> QED
      BY <3>3, <3>4
  <2>8. (\A g \in Gens : held[g] # Free =>
          pc[held[g]] = "waiting" /\ gen[held[g]] = g /\ outcome[held[g]] = "none")'
    BY <2>2 DEF IInv, TypeOK, PlaceInv
  <2>9. (\A d \in Callers : pc[d] = "waiting" =>
          /\ gen[d] \in Gens
          /\ outcome[d] = "none" => held[gen[d]] = d \/ InQueue(d, gen[d]))'
    <3> SUFFICES ASSUME NEW d \in Callers, pc'[d] = "waiting", outcome[d] = "none"
                 PROVE  gen[d] \in Gens /\ (held[gen[d]] = d \/ InQueue(d, gen[d])')
      <4>1. \A d \in Callers : pc'[d] = "waiting" => gen[d] \in Gens
        BY <2>1, <2>2 DEF IInv, TypeOK, PlaceInv
      <4> QED
        BY <4>1, <2>2 DEF InQueue
    <3>1. CASE d = c
      <4>1. Len(queue[G]) + 1 \in 1..Len(queue'[G])
        BY <2>1, <2>3
      <4> QED
        BY <3>1, <4>1, <2>1, <2>3, <2>2 DEF InQueue
    <3>2. CASE d # c
      <4>1. pc[d] = "waiting"
        BY <3>2, <2>2 DEF IInv, TypeOK
      <4>2. gen[d] \in Gens /\ (held[gen[d]] = d \/ InQueue(d, gen[d]))
        BY <4>1 DEF IInv, PlaceInv
      <4>3. \A i \in 1..Len(queue[gen[d]]) : i \in 1..Len(queue'[gen[d]])
                                             /\ queue'[gen[d]][i] = queue[gen[d]][i]
        <5>1. CASE gen[d] = G
          <6>1. 1..Len(queue[G]) \subseteq 1..Len(queue'[G])
            BY <2>1, <2>3
          <6> QED
            BY <5>1, <6>1, <2>3
        <5>2. CASE gen[d] # G
          BY <5>2, <4>2, <2>3
        <5> QED
          BY <5>1, <5>2
      <4> QED
        BY <4>2, <4>3, <2>2 DEF InQueue
    <3> QED
      BY <3>1, <3>2
  <2> QED
    BY <2>6, <2>7, <2>8, <2>9 DEF PlaceInv
<1>5. AnswerInv'
  BY DEF IInv, TypeOK, GenInv, PlaceInv, AnswerInv, InQueue, WriterPcs, CallerPcs
<1> QED
  BY <1>1, <1>2, <1>3, <1>4, <1>5 DEF IInv

LEMMA SubmitTimeoutPreserves ==
    ASSUME IInv, NEW c \in Callers, SubmitTimeout(c)
    PROVE  IInv'
<1> USE WriterAssumption DEF Gens, Outcomes, SubmitTimeout, lifeVars, callVars, writerVars
<1>1. TypeOK'
  BY DEF IInv, TypeOK, WriterPcs, CallerPcs
<1>2. GenInv'
  BY DEF IInv, TypeOK, GenInv, SendInv, Live, WriterPcs, CallerPcs
<1>3. SendInv'
  BY DEF IInv, TypeOK, GenInv, SendInv, Live, WriterPcs, CallerPcs
<1>4. PlaceInv'
  <2>1. UNCHANGED <<queue, held>>
    OBVIOUS
  <2>2. \A d \in Callers : outcome[d] = "none" /\ pc[d] = "waiting" =>
          pc'[d] = pc[d] /\ gen'[d] = gen[d] /\ outcome'[d] = outcome[d]
    BY DEF IInv, TypeOK
  <2>3. \A d \in Callers : pc'[d] = "waiting" =>
          pc[d] = "waiting" /\ gen'[d] = gen[d] /\ outcome'[d] = outcome[d]
    BY DEF IInv, TypeOK
  <2> QED
    BY <2>1, <2>2, <2>3, PlaceUnmoved DEF IInv
<1>5. AnswerInv'
  BY DEF IInv, TypeOK, GenInv, PlaceInv, AnswerInv, InQueue, WriterPcs, CallerPcs
<1> QED
  BY <1>1, <1>2, <1>3, <1>4, <1>5 DEF IInv

LEMMA RunInlinePreserves ==
    ASSUME IInv, NEW c \in Callers, RunInline(c)
    PROVE  IInv'
<1> USE WriterAssumption DEF Gens, Outcomes, RunInline, lifeVars, callVars, writerVars
<1>1. TypeOK'
  BY DEF IInv, TypeOK, WriterPcs, CallerPcs
<1>2. GenInv'
  BY DEF IInv, TypeOK, GenInv, SendInv, Live, WriterPcs, CallerPcs
<1>3. SendInv'
  BY DEF IInv, TypeOK, GenInv, SendInv, Live, WriterPcs, CallerPcs
<1>4. PlaceInv'
  <2>1. UNCHANGED <<queue, held>>
    OBVIOUS
  <2>2. \A d \in Callers : outcome[d] = "none" /\ pc[d] = "waiting" =>
          pc'[d] = pc[d] /\ gen'[d] = gen[d] /\ outcome'[d] = outcome[d]
    BY DEF IInv, TypeOK
  <2>3. \A d \in Callers : pc'[d] = "waiting" =>
          pc[d] = "waiting" /\ gen'[d] = gen[d] /\ outcome'[d] = outcome[d]
    BY DEF IInv, TypeOK
  <2> QED
    BY <2>1, <2>2, <2>3, PlaceUnmoved DEF IInv
<1>5. AnswerInv'
  BY DEF IInv, TypeOK, GenInv, PlaceInv, AnswerInv, InQueue, WriterPcs, CallerPcs
<1> QED
  BY <1>1, <1>2, <1>3, <1>4, <1>5 DEF IInv

LEMMA ReturnInlinePreserves ==
    ASSUME IInv, NEW c \in Callers, ReturnInline(c)
    PROVE  IInv'
<1> USE WriterAssumption DEF Gens, Outcomes, ReturnInline, ReturnOutcome, lifeVars, callVars, writerVars
<1>1. TypeOK'
  BY DEF IInv, TypeOK, WriterPcs, CallerPcs
<1>2. GenInv'
  BY DEF IInv, TypeOK, GenInv, SendInv, Live, WriterPcs, CallerPcs
<1>3. SendInv'
  BY DEF IInv, TypeOK, GenInv, SendInv, Live, WriterPcs, CallerPcs
<1>4. PlaceInv'
  <2>1. UNCHANGED <<queue, held>>
    OBVIOUS
  <2>2. \A d \in Callers : outcome[d] = "none" /\ pc[d] = "waiting" =>
          pc'[d] = pc[d] /\ gen'[d] = gen[d] /\ outcome'[d] = outcome[d]
    BY DEF IInv, TypeOK
  <2>3. \A d \in Callers : pc'[d] = "waiting" =>
          pc[d] = "waiting" /\ gen'[d] = gen[d] /\ outcome'[d] = outcome[d]
    BY DEF IInv, TypeOK
  <2> QED
    BY <2>1, <2>2, <2>3, PlaceUnmoved DEF IInv
<1>5. AnswerInv'
  BY DEF IInv, TypeOK, GenInv, PlaceInv, AnswerInv, InQueue, WriterPcs, CallerPcs
<1> QED
  BY <1>1, <1>2, <1>3, <1>4, <1>5 DEF IInv

LEMMA ReceiveAnswerPreserves ==
    ASSUME IInv, NEW c \in Callers, ReceiveAnswer(c)
    PROVE  IInv'
<1> USE WriterAssumption DEF Gens, Outcomes, ReceiveAnswer, ReturnOutcome, lifeVars, callVars, writerVars
<1>1. TypeOK'
  BY DEF IInv, TypeOK, WriterPcs, CallerPcs
<1>2. GenInv'
  BY DEF IInv, TypeOK, GenInv, SendInv, Live, WriterPcs, CallerPcs
<1>3. SendInv'
  BY DEF IInv, TypeOK, GenInv, SendInv, Live, WriterPcs, CallerPcs
<1>4. PlaceInv'
  <2>1. UNCHANGED <<queue, held>>
    OBVIOUS
  <2>2. \A d \in Callers : outcome[d] = "none" /\ pc[d] = "waiting" =>
          pc'[d] = pc[d] /\ gen'[d] = gen[d] /\ outcome'[d] = outcome[d]
    BY DEF IInv, TypeOK
  <2>3. \A d \in Callers : pc'[d] = "waiting" =>
          pc[d] = "waiting" /\ gen'[d] = gen[d] /\ outcome'[d] = outcome[d]
    BY DEF IInv, TypeOK
  <2> QED
    BY <2>1, <2>2, <2>3, PlaceUnmoved DEF IInv
<1>5. AnswerInv'
  BY DEF IInv, TypeOK, GenInv, PlaceInv, AnswerInv, InQueue, WriterPcs, CallerPcs
<1> QED
  BY <1>1, <1>2, <1>3, <1>4, <1>5 DEF IInv

LEMMA SeeWriterDonePreserves ==
    ASSUME IInv, NEW c \in Callers, SeeWriterDone(c)
    PROVE  IInv'
  BY SeeWriterDoneReceives, ReceiveAnswerPreserves

LEMMA FinishPreserves ==
    ASSUME IInv, NEW c \in Callers, Finish(c)
    PROVE  IInv'
<1> USE WriterAssumption DEF Gens, Outcomes, Finish, lifeVars, callVars, writerVars
<1>1. TypeOK'
  BY DEF IInv, TypeOK, WriterPcs, CallerPcs
<1>2. GenInv'
  BY DEF IInv, TypeOK, GenInv, SendInv, Live, WriterPcs, CallerPcs
<1>3. SendInv'
  BY DEF IInv, TypeOK, GenInv, SendInv, Live, WriterPcs, CallerPcs
<1>4. PlaceInv'
  BY PlaceUnmoved DEF IInv, TypeOK, CallerPcs
<1>5. AnswerInv'
  BY DEF IInv, TypeOK, GenInv, PlaceInv, AnswerInv, InQueue, WriterPcs, CallerPcs
<1> QED
  BY <1>1, <1>2, <1>3, <1>4, <1>5 DEF IInv

-----------------------------------------------------------------------------
(* runTrafficWriter                                                        *)

LEMMA TakePreserves ==
    ASSUME IInv, NEW g \in Gens, Take(g)
    PROVE  IInv'
<1> USE WriterAssumption DEF Gens, Outcomes, Take, lifeVars, callVars, writerVars
<1>1. TypeOK'
  <2>1. Head(queue[g]) \in Callers /\ Tail(queue[g]) \in Seq(Callers)
    BY DEF IInv, TypeOK
  <2>2. queue' \in [Gens -> Seq(Callers)]
    BY <2>1 DEF IInv, TypeOK
  <2>3. held' \in [Gens -> Callers \cup {Free}] /\ writer' \in [Gens -> WriterPcs]
    BY <2>1 DEF IInv, TypeOK, WriterPcs
  <2> QED
    BY <2>2, <2>3 DEF IInv, TypeOK
<1>2. GenInv'
  BY DEF IInv, TypeOK, GenInv, SendInv, Live, WriterPcs, CallerPcs
<1>3. SendInv'
  BY DEF IInv, TypeOK, GenInv, SendInv, Live, WriterPcs, CallerPcs
<1>4. PlaceInv'
  <2> DEFINE q == queue[g]
             h == Head(q)
  <2>1. q \in Seq(Callers) /\ q # <<>> /\ Len(q) \in Nat /\ Len(q) >= 1 /\ h = q[1] /\ h \in Callers
    BY DEF IInv, TypeOK
  <2>2. queue' = [queue EXCEPT ![g] = Tail(q)] /\ held' = [held EXCEPT ![g] = h]
        /\ UNCHANGED <<pc, gen, outcome>>
    OBVIOUS
  <2>a. held[g] = Free
    BY DEF IInv, GenInv
  <2> HIDE DEF Take, h
  <2>3. /\ Len(queue'[g]) = Len(q) - 1
        /\ \A i \in 1..(Len(q) - 1) : queue'[g][i] = q[i + 1]
        /\ \A f \in Gens : f # g => queue'[f] = queue[f]
    BY <2>1, <2>2 DEF IInv, TypeOK
  <2>4. pc[h] = "waiting" /\ gen[h] = g /\ outcome[h] = "none"
    BY <2>1 DEF IInv, PlaceInv
  <2>5. (\A f \in Gens : \A i, j \in 1..Len(queue[f]) : queue[f][i] = queue[f][j] => i = j)'
    <3> SUFFICES ASSUME NEW f \in Gens, NEW i \in 1..Len(queue'[f]), NEW j \in 1..Len(queue'[f]),
                        queue'[f][i] = queue'[f][j]
                 PROVE  i = j
      OBVIOUS
    <3>1. CASE f # g
      BY <3>1, <2>3 DEF IInv, PlaceInv
    <3>2. CASE f = g
      <4>1. i + 1 \in 1..Len(q) /\ j + 1 \in 1..Len(q) /\ q[i + 1] = q[j + 1]
        BY <3>2, <2>1, <2>3
      <4>2. i + 1 = j + 1
        BY <4>1 DEF IInv, PlaceInv
      <4> QED
        BY <4>2, <2>1, <2>3, <3>2
    <3> QED
      BY <3>1, <3>2
  <2>6. (\A f \in Gens : \A i \in 1..Len(queue[f]) :
          /\ pc[queue[f][i]] = "waiting"
          /\ gen[queue[f][i]] = f
          /\ outcome[queue[f][i]] = "none"
          /\ held[f] # queue[f][i])'
    <3> SUFFICES ASSUME NEW f \in Gens, NEW i \in 1..Len(queue'[f])
                 PROVE  /\ pc[queue'[f][i]] = "waiting"
                        /\ gen[queue'[f][i]] = f
                        /\ outcome[queue'[f][i]] = "none"
                        /\ held'[f] # queue'[f][i]
      BY <2>2
    <3>1. CASE f # g
      BY <3>1, <2>2, <2>3 DEF IInv, TypeOK, PlaceInv
    <3>2. CASE f = g
      <4>1. i + 1 \in 1..Len(q) /\ i + 1 # 1 /\ queue'[g][i] = q[i + 1]
        <5>1. i \in 1..(Len(q) - 1) /\ Len(q) \in Nat
          BY <3>2, <2>1, <2>3
        <5>2. queue'[g][i] = q[i + 1]
          BY <5>1, <2>3
        <5>3. i + 1 \in 1..Len(q) /\ i + 1 # 1
          BY <5>1
        <5> QED
          BY <5>2, <5>3
      <4>2. q[i + 1] # h
        BY <4>1, <2>1 DEF IInv, PlaceInv
      <4>3. held'[g] = h
        BY <2>2 DEF IInv, TypeOK
      <4>4. pc[q[i + 1]] = "waiting" /\ gen[q[i + 1]] = g /\ outcome[q[i + 1]] = "none"
        BY <4>1 DEF IInv, PlaceInv
      <4> QED
        BY <3>2, <4>1, <4>2, <4>3, <4>4, <2>2
    <3> QED
      BY <3>1, <3>2
  <2>7. (\A f \in Gens : held[f] # Free =>
          pc[held[f]] = "waiting" /\ gen[held[f]] = f /\ outcome[held[f]] = "none")'
    <3>1. \A f \in Gens : held'[f] = IF f = g THEN h ELSE held[f]
      BY <2>2 DEF IInv, TypeOK
    <3> QED
      BY <3>1, <2>2, <2>4 DEF IInv, PlaceInv
  <2>8. (\A d \in Callers : pc[d] = "waiting" =>
          /\ gen[d] \in Gens
          /\ outcome[d] = "none" => held[gen[d]] = d \/ InQueue(d, gen[d]))'
    <3> SUFFICES ASSUME NEW d \in Callers, pc[d] = "waiting", outcome[d] = "none"
                 PROVE  held'[gen[d]] = d \/ InQueue(d, gen[d])'
      BY <2>2 DEF IInv, PlaceInv
    <3>1. gen[d] \in Gens /\ (held[gen[d]] = d \/ InQueue(d, gen[d]))
      BY DEF IInv, PlaceInv
    <3>2. CASE gen[d] # g
      BY <3>1, <3>2, <2>2, <2>3 DEF InQueue, IInv, TypeOK
    <3>3. CASE gen[d] = g
      <4>1. PICK i \in 1..Len(q) : q[i] = d
        BY <3>1, <3>3, <2>a DEF InQueue
      <4>2. CASE i = 1
        BY <4>1, <4>2, <3>3, <2>1, <2>2 DEF IInv, TypeOK
      <4>3. CASE i # 1
        <5>1. i - 1 \in 1..(Len(q) - 1) /\ (i - 1) + 1 = i
          BY <4>3, <2>1
        <5>2. queue'[g][i - 1] = d
          BY <5>1, <4>1, <2>3
        <5> QED
          BY <5>1, <5>2, <3>3, <2>3, <2>2 DEF InQueue
      <4> QED
        BY <4>2, <4>3
    <3> QED
      BY <3>2, <3>3
  <2> QED
    BY <2>5, <2>6, <2>7, <2>8 DEF PlaceInv
<1>5. AnswerInv'
  BY DEF IInv, TypeOK, GenInv, PlaceInv, AnswerInv, InQueue, WriterPcs, CallerPcs
<1> QED
  BY <1>1, <1>2, <1>3, <1>4, <1>5 DEF IInv

LEMMA ApplyPreserves ==
    ASSUME IInv, NEW g \in Gens, Apply(g)
    PROVE  IInv'
<1> USE WriterAssumption DEF Gens, Outcomes, Apply, lifeVars, callVars, writerVars
<1>1. TypeOK'
  <2>1. held[g] \in Callers
    BY DEF IInv, TypeOK, GenInv
  <2> QED
    BY <2>1 DEF IInv, TypeOK, WriterPcs
<1>2. GenInv'
  BY DEF IInv, TypeOK, GenInv, SendInv, Live, WriterPcs, CallerPcs
<1>3. SendInv'
  BY DEF IInv, TypeOK, GenInv, SendInv, Live, WriterPcs, CallerPcs
<1>4. PlaceInv'
  <2> DEFINE h == held[g]
  <2>1. h \in Callers /\ h # Free /\ pc[h] = "waiting" /\ gen[h] = g
    BY DEF IInv, TypeOK, GenInv, PlaceInv
  <2>2. /\ \A d \in Callers : d # h => outcome'[d] = outcome[d]
        /\ outcome'[h] # "none"
        /\ \A f \in Gens : f # g => held'[f] = held[f]
        /\ held'[g] = Free
        /\ UNCHANGED <<queue, pc, gen>>
    BY <2>1 DEF IInv, TypeOK
  <2> HIDE DEF Apply, h
  <2>3. \A f \in Gens : \A i \in 1..Len(queue[f]) : queue[f][i] \in Callers /\ queue[f][i] # h
    <3> SUFFICES ASSUME NEW f \in Gens, NEW i \in 1..Len(queue[f])
                 PROVE  queue[f][i] # h
      BY QueuedAreCallers DEF IInv
    <3>1. gen[queue[f][i]] = f /\ held[f] # queue[f][i]
      BY DEF IInv, PlaceInv
    <3> QED
      BY <3>1, <2>1 DEF h
  <2>4. ASSUME NEW f \in Gens, f # g, held[f] # Free
        PROVE  held[f] # h /\ held[f] \in Callers
    <3>1. held[f] \in Callers
      BY <2>4 DEF IInv, TypeOK
    <3>2. gen[held[f]] = f
      BY <2>4 DEF IInv, PlaceInv
    <3> QED
      BY <3>1, <3>2, <2>1, <2>4
  <2>5. (\A f \in Gens : \A i, j \in 1..Len(queue[f]) : queue[f][i] = queue[f][j] => i = j)'
    BY <2>2 DEF IInv, PlaceInv
  <2>6. (\A f \in Gens : \A i \in 1..Len(queue[f]) :
          /\ pc[queue[f][i]] = "waiting"
          /\ gen[queue[f][i]] = f
          /\ outcome[queue[f][i]] = "none"
          /\ held[f] # queue[f][i])'
    BY <2>2, <2>3 DEF IInv, PlaceInv
  <2>7. (\A f \in Gens : held[f] # Free =>
          pc[held[f]] = "waiting" /\ gen[held[f]] = f /\ outcome[held[f]] = "none")'
    BY <2>2, <2>4 DEF IInv, PlaceInv
  <2>8. (\A d \in Callers : pc[d] = "waiting" =>
          /\ gen[d] \in Gens
          /\ outcome[d] = "none" => held[gen[d]] = d \/ InQueue(d, gen[d]))'
    <3>1. \A d \in Callers : InQueue(d, gen[d])' = InQueue(d, gen[d])
      BY <2>2 DEF InQueue
    <3>2. held[g] = h
      BY DEF h
    <3> QED
      BY <2>2, <3>1, <3>2 DEF IInv, PlaceInv
  <2> QED
    BY <2>5, <2>6, <2>7, <2>8 DEF PlaceInv
<1>5. AnswerInv'
  BY DEF IInv, TypeOK, GenInv, PlaceInv, AnswerInv, InQueue, WriterPcs, CallerPcs
<1> QED
  BY <1>1, <1>2, <1>3, <1>4, <1>5 DEF IInv

LEMMA SeeCancelPreserves ==
    ASSUME IInv, NEW g \in Gens, SeeCancel(g)
    PROVE  IInv'
<1> USE WriterAssumption DEF Gens, Outcomes, SeeCancel, lifeVars, callVars, writerVars
<1>1. TypeOK'
  BY DEF IInv, TypeOK, WriterPcs, CallerPcs
<1>2. GenInv'
  BY DEF IInv, TypeOK, GenInv, SendInv, Live, WriterPcs, CallerPcs
<1>3. SendInv'
  BY DEF IInv, TypeOK, GenInv, SendInv, Live, WriterPcs, CallerPcs
<1>4. PlaceInv'
  BY DEF IInv, TypeOK, GenInv, SendInv, PlaceInv, InQueue, WriterPcs, CallerPcs
<1>5. AnswerInv'
  BY DEF IInv, TypeOK, GenInv, PlaceInv, AnswerInv, InQueue, WriterPcs, CallerPcs
<1> QED
  BY <1>1, <1>2, <1>3, <1>4, <1>5 DEF IInv

LEMMA ExitPreserves ==
    ASSUME IInv, NEW g \in Gens, Exit(g)
    PROVE  IInv'
<1> USE WriterAssumption DEF Gens, Outcomes, Exit, lifeVars, callVars, writerVars
<1>1. TypeOK'
  BY DEF IInv, TypeOK, WriterPcs, CallerPcs
<1>2. GenInv'
  <2>1. (\A f \in Gens :
          /\ f > spawned => writer[f] = "absent"
          /\ f <= spawned => writer[f] # "absent"
          /\ Live(f) => f = cur
          /\ writer[f] \in {"drain", "drainApply", "exited"} => f \in cancelled
          /\ held[f] # Free <=> writer[f] \in {"apply", "drainApply"}
          /\ writer[f] \in {"absent", "exited"} => queue[f] = <<>>)'
    <3> SUFFICES ASSUME NEW f \in Gens
                 PROVE  (/\ f > spawned => writer[f] = "absent"
                         /\ f <= spawned => writer[f] # "absent"
                         /\ Live(f) => f = cur
                         /\ writer[f] \in {"drain", "drainApply", "exited"} => f \in cancelled
                         /\ held[f] # Free <=> writer[f] \in {"apply", "drainApply"}
                         /\ writer[f] \in {"absent", "exited"} => queue[f] = <<>>)'
      OBVIOUS
    <3>1. CASE writer'[f] = writer[f]
      BY <3>1 DEF IInv, TypeOK, GenInv, Live
    <3>2. CASE writer'[f] # writer[f]
      BY <3>2 DEF IInv, TypeOK, GenInv, Live
    <3> QED
      BY <3>1, <3>2
  <2>2. (\A k \in Controllers :
          /\ ctl[k] # "idle" => ctlGen[k] \in 1..spawned
          /\ ctl[k] = "clear" => writer[ctlGen[k]] = "exited")'
    <3>1. \A f \in Gens : writer[f] = "exited" => writer'[f] = "exited"
      BY DEF IInv, TypeOK, GenInv
    <3>2. spawned' >= spawned /\ 1..spawned \subseteq Gens
      BY DEF IInv, TypeOK
    <3> SUFFICES ASSUME NEW k \in Controllers
                 PROVE  (/\ ctl[k] # "idle" => ctlGen[k] \in 1..spawned
                         /\ ctl[k] = "clear" => writer[ctlGen[k]] = "exited")'
      OBVIOUS
    <3>3. /\ ctl[k] # "idle" => ctlGen[k] \in 1..spawned
          /\ ctl[k] = "clear" => writer[ctlGen[k]] = "exited"
      BY DEF IInv, GenInv
    <3> QED
      BY <3>1, <3>2, <3>3
  <2> QED
    BY <2>1, <2>2 DEF IInv, GenInv
<1>3. SendInv'
  BY DEF IInv, TypeOK, GenInv, SendInv, Live, WriterPcs, CallerPcs
<1>4. PlaceInv'
  BY PlaceUnmoved DEF IInv
<1>5. AnswerInv'
  BY DEF IInv, TypeOK, GenInv, PlaceInv, AnswerInv, InQueue, WriterPcs, CallerPcs
<1> QED
  BY <1>1, <1>2, <1>3, <1>4, <1>5 DEF IInv

-----------------------------------------------------------------------------
(* StartTrafficWriter and StopTrafficWriter                                *)

LEMMA StartPreserves ==
    ASSUME IInv, NEW k \in Controllers, Start(k)
    PROVE  IInv'
<1> USE WriterAssumption DEF Gens, Outcomes, Start, WriterLive, lifeVars, callVars, writerVars
<1>1. TypeOK'
  BY DEF IInv, TypeOK, WriterPcs, CallerPcs
<1>2. GenInv'
  <2> DEFINE n == spawned + 1
  <2>1. n \in Gens /\ writer[n] = "absent" /\ held[n] = Free /\ queue[n] = <<>> /\ n \notin cancelled
    BY DEF IInv, TypeOK, GenInv
  <2>2. /\ writer'[n] = "select" /\ cur' = n /\ spawned' = n
        /\ \A f \in Gens : f # n => writer'[f] = writer[f] /\ ~ Live(f)
        /\ UNCHANGED <<cancelled, ctl, ctlGen, queue, held>>
    BY <2>1 DEF IInv, TypeOK, GenInv, Live
  <2> HIDE DEF Start
  <2>3. (\A f \in Gens :
          /\ f > spawned => writer[f] = "absent"
          /\ f <= spawned => writer[f] # "absent"
          /\ Live(f) => f = cur
          /\ writer[f] \in {"drain", "drainApply", "exited"} => f \in cancelled
          /\ held[f] # Free <=> writer[f] \in {"apply", "drainApply"}
          /\ writer[f] \in {"absent", "exited"} => queue[f] = <<>>)'
    BY <2>1, <2>2, SMTT(30) DEF IInv, TypeOK, GenInv, Live
  <2>4. (\A j \in Controllers :
          /\ ctl[j] # "idle" => ctlGen[j] \in 1..spawned
          /\ ctl[j] = "clear" => writer[ctlGen[j]] = "exited")'
    <3> SUFFICES ASSUME NEW j \in Controllers
                 PROVE  /\ ctl[j] # "idle" => ctlGen[j] \in 1..spawned'
                        /\ ctl[j] = "clear" => writer'[ctlGen[j]] = "exited"
      BY <2>2
    <3>1. /\ ctl[j] # "idle" => ctlGen[j] \in 1..spawned
          /\ ctl[j] = "clear" => ctl[j] # "idle" /\ writer[ctlGen[j]] = "exited"
      BY DEF IInv, GenInv
    <3>2. spawned \in Nat /\ 1..spawned \subseteq 1..spawned'
      BY <2>1, <2>2 DEF IInv, TypeOK
    <3>3. \A f \in 1..spawned : f \in Gens /\ f # n
      BY <3>2, <2>1
    <3> QED
      BY <3>1, <3>2, <3>3, <2>2
  <2>5. (cancelled \subseteq 1..spawned)'
    BY <2>2 DEF IInv, TypeOK, GenInv
  <2> QED
    BY <2>3, <2>4, <2>5 DEF GenInv
<1>3. SendInv'
  BY DEF IInv, TypeOK, GenInv, SendInv, Live, WriterPcs, CallerPcs
<1>4. PlaceInv'
  BY DEF IInv, TypeOK, GenInv, SendInv, PlaceInv, InQueue, WriterPcs, CallerPcs
<1>5. AnswerInv'
  BY DEF IInv, TypeOK, GenInv, PlaceInv, AnswerInv, InQueue, WriterPcs, CallerPcs
<1> QED
  BY <1>1, <1>2, <1>3, <1>4, <1>5 DEF IInv

LEMMA StopCancelPreserves ==
    ASSUME IInv, NEW k \in Controllers, StopCancel(k)
    PROVE  IInv'
<1> USE WriterAssumption DEF Gens, Outcomes, StopCancel, lifeVars, callVars, writerVars
<1>1. TypeOK'
  BY DEF IInv, TypeOK, WriterPcs, CallerPcs
<1>2. GenInv'
  BY DEF IInv, TypeOK, GenInv, SendInv, Live, WriterPcs, CallerPcs
<1>3. SendInv'
  BY DEF IInv, TypeOK, GenInv, SendInv, Live, WriterPcs, CallerPcs
<1>4. PlaceInv'
  BY DEF IInv, TypeOK, GenInv, SendInv, PlaceInv, InQueue, WriterPcs, CallerPcs
<1>5. AnswerInv'
  BY DEF IInv, TypeOK, GenInv, PlaceInv, AnswerInv, InQueue, WriterPcs, CallerPcs
<1> QED
  BY <1>1, <1>2, <1>3, <1>4, <1>5 DEF IInv

LEMMA StopAwaitPreserves ==
    ASSUME IInv, NEW k \in Controllers, StopAwait(k)
    PROVE  IInv'
<1> USE WriterAssumption DEF Gens, Outcomes, StopAwait, lifeVars, callVars, writerVars
<1>1. TypeOK'
  BY DEF IInv, TypeOK, WriterPcs, CallerPcs
<1>2. GenInv'
  <2>1. (\A f \in Gens :
          /\ f > spawned => writer[f] = "absent"
          /\ f <= spawned => writer[f] # "absent"
          /\ Live(f) => f = cur
          /\ writer[f] \in {"drain", "drainApply", "exited"} => f \in cancelled
          /\ held[f] # Free <=> writer[f] \in {"apply", "drainApply"}
          /\ writer[f] \in {"absent", "exited"} => queue[f] = <<>>)'
    <3> SUFFICES ASSUME NEW f \in Gens
                 PROVE  (/\ f > spawned => writer[f] = "absent"
                         /\ f <= spawned => writer[f] # "absent"
                         /\ Live(f) => f = cur
                         /\ writer[f] \in {"drain", "drainApply", "exited"} => f \in cancelled
                         /\ held[f] # Free <=> writer[f] \in {"apply", "drainApply"}
                         /\ writer[f] \in {"absent", "exited"} => queue[f] = <<>>)'
      OBVIOUS
    <3>1. CASE writer'[f] = writer[f]
      BY <3>1 DEF IInv, TypeOK, GenInv, Live
    <3>2. CASE writer'[f] # writer[f]
      BY <3>2 DEF IInv, TypeOK, GenInv, Live
    <3> QED
      BY <3>1, <3>2
  <2>2. (\A j \in Controllers :
          /\ ctl[j] # "idle" => ctlGen[j] \in 1..spawned
          /\ ctl[j] = "clear" => writer[ctlGen[j]] = "exited")'
    <3>1. \A f \in Gens : writer[f] = "exited" => writer'[f] = "exited"
      BY DEF IInv, TypeOK, GenInv
    <3>2. spawned' >= spawned /\ 1..spawned \subseteq Gens
      BY DEF IInv, TypeOK
    <3> QED
      BY <3>1, <3>2 DEF IInv, TypeOK, GenInv
  <2>3. (cancelled \subseteq 1..spawned)'
    BY DEF IInv, TypeOK, GenInv
  <2> QED
    BY <2>1, <2>2, <2>3 DEF GenInv
<1>3. SendInv'
  BY DEF IInv, TypeOK, GenInv, SendInv, Live, WriterPcs, CallerPcs
<1>4. PlaceInv'
  BY DEF IInv, TypeOK, GenInv, SendInv, PlaceInv, InQueue, WriterPcs, CallerPcs
<1>5. AnswerInv'
  BY DEF IInv, TypeOK, GenInv, PlaceInv, AnswerInv, InQueue, WriterPcs, CallerPcs
<1> QED
  BY <1>1, <1>2, <1>3, <1>4, <1>5 DEF IInv

LEMMA StopClearPreserves ==
    ASSUME IInv, NEW k \in Controllers, StopClear(k)
    PROVE  IInv'
<1> USE WriterAssumption DEF Gens, Outcomes, StopClear, lifeVars, callVars, writerVars
<1>1. TypeOK'
  BY DEF IInv, TypeOK, WriterPcs, CallerPcs
<1>2. GenInv'
  <2>1. ctl[k] = "clear" /\ ctlGen[k] \in 1..spawned /\ writer[ctlGen[k]] = "exited"
    BY DEF IInv, GenInv
  <2>2. ASSUME NEW g \in Gens, Live(g)
        PROVE  g = cur'
    BY <2>1, <2>2 DEF IInv, GenInv, Live
  <2>3. \A j \in Controllers : ctl'[j] # "idle" => ctl'[j] = ctl[j] /\ ctlGen'[j] = ctlGen[j]
    BY DEF IInv, TypeOK
  <2> QED
    BY <2>2, <2>3 DEF IInv, GenInv, Live
<1>3. SendInv'
  BY DEF IInv, TypeOK, GenInv, SendInv, Live, WriterPcs, CallerPcs
<1>4. PlaceInv'
  BY DEF IInv, TypeOK, GenInv, SendInv, PlaceInv, InQueue, WriterPcs, CallerPcs
<1>5. AnswerInv'
  BY DEF IInv, TypeOK, GenInv, PlaceInv, AnswerInv, InQueue, WriterPcs, CallerPcs
<1> QED
  BY <1>1, <1>2, <1>3, <1>4, <1>5 DEF IInv

-----------------------------------------------------------------------------
(* The theorems                                                            *)

LEMMA InitInv == Init => IInv
<1> USE WriterAssumption DEF Init, Gens
<1>1. Init => TypeOK /\ GenInv /\ SendInv
  BY DEF TypeOK, GenInv, SendInv, Live, Outcomes, WriterPcs, CallerPcs
<1>2. Init => PlaceInv /\ AnswerInv
  BY DEF PlaceInv, AnswerInv
<1> QED
  BY <1>1, <1>2 DEF IInv

LEMMA StepInv == IInv /\ [Next]_vars => IInv'
<1> SUFFICES ASSUME IInv, [Next]_vars PROVE IInv'
  OBVIOUS
<1>1. CASE \E c \in Callers : CallerStep(c)
  BY <1>1, BeginQueuedPreserves, BeginInlinePreserves, EnqueuePreserves,
     SubmitTimeoutPreserves, RunInlinePreserves, ReturnInlinePreserves,
     ReceiveAnswerPreserves, SeeWriterDonePreserves, FinishPreserves DEF CallerStep
<1>2. CASE \E g \in Gens : WriterStep(g)
  BY <1>2, TakePreserves, ApplyPreserves, SeeCancelPreserves, ExitPreserves DEF WriterStep
<1>3. CASE \E k \in Controllers : ControllerStep(k)
  BY <1>3, StartPreserves, StopCancelPreserves, StopAwaitPreserves, StopClearPreserves
     DEF ControllerStep
<1>4. CASE UNCHANGED vars
  BY <1>4 DEF vars, lifeVars, callVars, writerVars, IInv, TypeOK, GenInv, SendInv, PlaceInv,
     AnswerInv, Live, InQueue
<1> QED
  BY <1>1, <1>2, <1>3, <1>4 DEF Next

LEMMA InductiveInvariant == Spec => []IInv
  BY InitInv, StepInv, PTL DEF Spec

\* Every variable of the writer keeps its type.
THEOREM TypeCorrect == Spec => []TypeOK
<1>1. IInv => TypeOK
  BY DEF IInv
<1> QED
  BY <1>1, InductiveInvariant, PTL

\* submitTrafficWrite never returns "traffic writer stopped before write
\* completed", whatever the callers, controllers, generations and queue size.
THEOREM NoWriteLost == Spec => []NoAcceptedWriteLost
<1>1. IInv => NoAcceptedWriteLost
  BY DEF IInv, AnswerInv, NoAcceptedWriteLost
<1> QED
  BY <1>1, InductiveInvariant, PTL

\* The returned value is nil exactly when the write committed, once, and no
\* request of a call that has returned is left anywhere.
THEOREM AnswersAreTrue == Spec => []AnswerIsTheTruth
<1>1. ASSUME IInv PROVE AnswerIsTheTruth
  <2> SUFFICES ASSUME NEW c \in Callers
               PROVE  /\ commits[c] <= 1
                      /\ pc[c] = "returned" => (result[c] = "ok" <=> commits[c] = 1)
                      /\ pc[c] = "returned" =>
                          \A g \in Gens : held[g] # c
                                /\ c \notin {queue[g][i] : i \in 1..Len(queue[g])}
    BY DEF AnswerIsTheTruth
  <2>1. commits[c] <= 1 /\ (pc[c] = "returned" => (result[c] = "ok" <=> commits[c] = 1))
    BY <1>1 DEF IInv, AnswerInv
  <2>2. ASSUME pc[c] = "returned", NEW g \in Gens
        PROVE  held[g] # c /\ c \notin {queue[g][i] : i \in 1..Len(queue[g])}
    BY <1>1, <2>2, WriterAssumption DEF IInv, PlaceInv
  <2> QED
    BY <2>1, <2>2
<1> QED
  BY <1>1, InductiveInvariant, PTL

\* Two writer goroutines are never alive together.
THEOREM OneWriter == Spec => []AtMostOneWriter
<1>1. IInv => AtMostOneWriter
  BY DEF IInv, GenInv, Live, AtMostOneWriter
<1> QED
  BY <1>1, InductiveInvariant, PTL

\* Whoever waits for the end of a writer has told it to end.
ToldInv == \A k \in Controllers : ctl[k] # "idle" => ctlGen[k] \in cancelled

\* A generation stays cancelled.
LEMMA ToldStep ==
    ASSUME IInv, ToldInv, [Next]_vars
    PROVE  ToldInv'
<1>1. CASE UNCHANGED <<ctl, ctlGen, cancelled>>
  BY <1>1 DEF ToldInv
<1>2. ASSUME NEW k \in Controllers, StopCancel(k)
      PROVE  ToldInv'
  BY <1>2 DEF StopCancel, ToldInv, IInv, TypeOK
<1>3. ASSUME NEW k \in Controllers, StopAwait(k)
      PROVE  ToldInv'
  BY <1>3 DEF StopAwait, ToldInv, IInv, TypeOK
<1>4. ASSUME NEW k \in Controllers, StopClear(k)
      PROVE  ToldInv'
  BY <1>4 DEF StopClear, ToldInv, IInv, TypeOK
<1>5. CASE (\E c \in Callers : CallerStep(c)) \/ (\E g \in Gens : WriterStep(g))
  BY <1>1, <1>5 DEF CallerStep, BeginQueued, BeginInline, Enqueue, SubmitTimeout, RunInline,
          ReturnInline, ReceiveAnswer, ReturnOutcome, SeeWriterDone, Finish, WriterStep, Take,
          Apply, SeeCancel, Exit, lifeVars
<1>6. CASE (\E k \in Controllers : Start(k)) \/ UNCHANGED vars
  BY <1>1, <1>6 DEF Start, vars, lifeVars
<1> QED
  BY <1>2, <1>3, <1>4, <1>5, <1>6 DEF Next, ControllerStep

\* Nobody waits in vain: a request that has no answer is in the hands of a writer that lives or
\* in a queue that one serves, the holder of the mutex sends to a writer in its main loop, and
\* a Stop waits for a writer that was told to end, for any callers, controllers and generations.
THEOREM AwaitedIsComing == Spec => []NobodyWaitsInVain
<1>1. ASSUME IInv, NEW c \in Callers, pc[c] = "waiting", outcome[c] = "none"
      PROVE  \/ held[gen[c]] = c /\ writer[gen[c]] \in {"apply", "drainApply"}
             \/ /\ writer[gen[c]] \in {"select", "apply", "drain", "drainApply"}
                /\ \E i \in DOMAIN queue[gen[c]] : queue[gen[c]][i] = c
  <2> DEFINE g == gen[c]
  <2>1. g \in Gens /\ (held[g] = c \/ InQueue(c, g))
    BY <1>1 DEF IInv, PlaceInv
  <2>2. writer[g] \in WriterPcs /\ queue[g] \in Seq(Callers) /\ c # Free
    BY <1>1, <2>1, WriterAssumption DEF IInv, TypeOK
  <2> HIDE DEF g
  <2>3. CASE held[g] = c
    BY <1>1, <2>1, <2>2, <2>3 DEF IInv, GenInv, g
  <2>4. CASE InQueue(c, g)
    <3>1. \E i \in DOMAIN queue[g] : queue[g][i] = c
      BY <2>2, <2>4 DEF InQueue
    <3>2. queue[g] # <<>>
      BY <3>1
    <3>3. writer[g] \notin {"absent", "exited"}
      BY <1>1, <2>1, <3>2 DEF IInv, GenInv
    <3> QED
      BY <2>2, <3>1, <3>3 DEF WriterPcs, g
  <2> QED
    BY <2>1, <2>3, <2>4
<1>2. ASSUME IInv, twMu # Free
      PROVE  pc[twMu] = "sending" /\ gen[twMu] = cur /\ writer[cur] \in {"select", "apply"}
  <2>1. /\ twMu \in Callers /\ pc[twMu] = "sending" /\ gen[twMu] = cur
        /\ cur # 0 /\ cur \notin cancelled
    BY <1>2 DEF IInv, TypeOK, SendInv
  <2>2. cur \in Gens /\ cur <= spawned /\ writer[cur] \in WriterPcs
    BY <1>2, <2>1, WriterAssumption DEF IInv, TypeOK, Gens
  <2> QED
    BY <1>2, <2>1, <2>2 DEF IInv, GenInv, WriterPcs
<1>3. ASSUME IInv, ToldInv, NEW k \in Controllers, ctl[k] = "await"
      PROVE  ctlGen[k] \in cancelled /\ writer[ctlGen[k]] # "absent"
  <2>1. ctlGen[k] \in 1..spawned /\ ctlGen[k] \in cancelled
    BY <1>3 DEF IInv, GenInv, ToldInv
  <2>2. ctlGen[k] \in Gens /\ ctlGen[k] <= spawned
    BY <1>3, <2>1, WriterAssumption DEF IInv, TypeOK, Gens
  <2> QED
    BY <1>3, <2>1, <2>2 DEF IInv, GenInv
<1>4. IInv /\ ToldInv => NobodyWaitsInVain
  BY <1>1, <1>2, <1>3, Zenon DEF NobodyWaitsInVain
<1>5. Init => ToldInv
  BY DEF Init, ToldInv
<1>6. IInv /\ ToldInv /\ [Next]_vars => ToldInv'
  BY ToldStep
<1> QED
  BY <1>4, <1>5, <1>6, InductiveInvariant, PTL DEF Spec

-----------------------------------------------------------------------------
(* Refinement: every step of the writer is a step of AtomicWrites          *)

AbsVars == <<AbstractPhase, commits, AbstractAnswer>>

LEMMA AbsUnchanged ==
    ASSUME UNCHANGED callVars
    PROVE  UNCHANGED AbsVars
  BY DEF AbsVars, AbstractPhase, AbstractAnswer, callVars

LEMMA BeginQueuedRefines ==
    ASSUME IInv, NEW c \in Callers, BeginQueued(c)
    PROVE  Abstract!Call(c)
<1> USE DEF BeginQueued, NewCall, IInv, TypeOK, CallerPcs
<1>1. AbstractPhase' = [AbstractPhase EXCEPT ![c] = "open"]
  BY DEF AbstractPhase
<1>2. commits' = [commits EXCEPT ![c] = 0]
  OBVIOUS
<1>3. AbstractAnswer' = [AbstractAnswer EXCEPT ![c] = "none"]
  BY DEF AbstractAnswer
<1>4. AbstractPhase[c] = "idle"
  BY DEF AbstractPhase
<1> QED
  BY <1>1, <1>2, <1>3, <1>4 DEF Abstract!Call

LEMMA BeginInlineRefines ==
    ASSUME IInv, NEW c \in Callers, BeginInline(c)
    PROVE  Abstract!Call(c)
<1> USE DEF BeginInline, NewCall, IInv, TypeOK, CallerPcs
<1>1. AbstractPhase' = [AbstractPhase EXCEPT ![c] = "open"]
  BY DEF AbstractPhase
<1>2. commits' = [commits EXCEPT ![c] = 0]
  OBVIOUS
<1>3. AbstractAnswer' = [AbstractAnswer EXCEPT ![c] = "none"]
  BY DEF AbstractAnswer
<1>4. AbstractPhase[c] = "idle"
  BY DEF AbstractPhase
<1> QED
  BY <1>1, <1>2, <1>3, <1>4 DEF Abstract!Call

LEMMA ReturnRefines ==
    ASSUME IInv, NEW c \in Callers, ReturnInline(c) \/ ReceiveAnswer(c)
    PROVE  Abstract!Return(c)
<1> USE DEF ReturnInline, ReceiveAnswer, ReturnOutcome, IInv, TypeOK, CallerPcs, Outcomes, callVars
<1>0. outcome[c] # "none" /\ pc[c] \in {"waiting", "inlineDone"} /\ UNCHANGED outcome
  BY DEF AnswerInv
<1>a. pc' = [pc EXCEPT ![c] = "returned"]
  OBVIOUS
<1>1. AbstractPhase[c] = "settled" /\ AbstractPhase' = [AbstractPhase EXCEPT ![c] = "returned"]
  <2> HIDE DEF ReturnInline, ReceiveAnswer, ReturnOutcome
  <2>1. AbstractPhase[c] = "settled"
    BY <1>0 DEF AbstractPhase
  <2>2. AbstractPhase' = [AbstractPhase EXCEPT ![c] = "returned"]
    BY <1>0, <1>a DEF AbstractPhase
  <2> QED
    BY <2>1, <2>2
<1>2. outcome[c] \in Outcomes /\ (outcome[c] = "ok" <=> commits[c] = 1)
  BY DEF AnswerInv
<1>3. AbstractAnswer' = [AbstractAnswer EXCEPT ![c] = outcome[c]]
  BY <1>2 DEF AbstractAnswer
<1>4. outcome[c] = IF commits[c] = 1 THEN "ok" ELSE "err"
  BY <1>2
<1> QED
  BY <1>1, <1>3, <1>4 DEF Abstract!Return

LEMMA SubmitTimeoutRefines ==
    ASSUME IInv, NEW c \in Callers, SubmitTimeout(c)
    PROVE  Abstract!Refuse(c)
<1> USE DEF SubmitTimeout, IInv, TypeOK, CallerPcs
<1>1. AbstractPhase[c] = "open" /\ AbstractPhase' = [AbstractPhase EXCEPT ![c] = "returned"]
  BY DEF AbstractPhase, AnswerInv
<1>2. AbstractAnswer' = [AbstractAnswer EXCEPT ![c] = "err"]
  BY DEF AbstractAnswer
<1> QED
  BY <1>1, <1>2 DEF Abstract!Refuse

LEMMA FinishRefines ==
    ASSUME IInv, NEW c \in Callers, Finish(c)
    PROVE  Abstract!Finish(c)
<1> USE DEF Finish, IInv, TypeOK, CallerPcs
<1>1. AbstractPhase[c] = "returned" /\ AbstractPhase' = [AbstractPhase EXCEPT ![c] = "idle"]
  BY DEF AbstractPhase
<1>2. AbstractAnswer' = AbstractAnswer
  BY DEF AbstractAnswer
<1> QED
  BY <1>1, <1>2 DEF Abstract!Finish

LEMMA NoAnswerNoEffect ==
    ASSUME IInv, NEW c \in Callers, pc[c] \in {"waiting", "inline"}, outcome[c] = "none"
    PROVE  commits[c] = 0
<1>1. commits[c] \in Nat /\ commits[c] <= 1 /\ commits[c] # 1
  BY DEF IInv, TypeOK, AnswerInv
<1> QED
  BY <1>1

\* A write that runs, on the writer or inline, settles its call.
LEMMA SettleRefines ==
    ASSUME IInv, NEW c \in Callers, NEW o \in Outcomes,
           pc[c] \in {"waiting", "inline"}, outcome[c] = "none",
           outcome' = [outcome EXCEPT ![c] = o],
           commits' = [commits EXCEPT ![c] = IF o = "ok" THEN @ + 1 ELSE @],
           pc' = pc \/ pc' = [pc EXCEPT ![c] = "inlineDone"],
           result' = result
    PROVE  Abstract!Settle(c)
<1> USE DEF IInv, TypeOK, CallerPcs, Outcomes
<1>1. AbstractPhase[c] = "open" /\ AbstractPhase' = [AbstractPhase EXCEPT ![c] = "settled"]
  BY DEF AbstractPhase
<1>2. commits[c] = 0
  BY NoAnswerNoEffect
<1>3. AbstractAnswer' = AbstractAnswer
  BY DEF AbstractAnswer
<1>4. commits' = [commits EXCEPT ![c] = IF o = "ok" THEN 1 ELSE 0]
  BY <1>2
<1> QED
  BY <1>1, <1>3, <1>4 DEF Abstract!Settle

LEMMA StepRefines == IInv /\ [Next]_vars => [Abstract!Next]_AbsVars
<1> SUFFICES ASSUME IInv, [Next]_vars
             PROVE  Abstract!Next \/ UNCHANGED AbsVars
  OBVIOUS
<1>1. CASE UNCHANGED vars
  BY <1>1, AbsUnchanged DEF vars
<1>2. ASSUME NEW k \in Controllers, ControllerStep(k) PROVE UNCHANGED AbsVars
  BY <1>2, AbsUnchanged DEF ControllerStep, Start, StopCancel, StopAwait, StopClear
<1>3. ASSUME NEW g \in Gens, WriterStep(g) PROVE Abstract!Next \/ UNCHANGED AbsVars
  <2>1. CASE Take(g) \/ SeeCancel(g) \/ Exit(g)
    BY <2>1, AbsUnchanged DEF Take, SeeCancel, Exit
  <2>2. CASE Apply(g)
    <3>1. held[g] \in Callers /\ pc[held[g]] = "waiting" /\ outcome[held[g]] = "none"
      BY <2>2 DEF Apply, IInv, TypeOK, GenInv, PlaceInv
    <3>2. PICK o \in Outcomes :
            /\ outcome' = [outcome EXCEPT ![held[g]] = o]
            /\ commits' = [commits EXCEPT ![held[g]] = IF o = "ok" THEN @ + 1 ELSE @]
      BY <2>2 DEF Apply
    <3>3. UNCHANGED <<pc, result>>
      BY <2>2 DEF Apply
    <3>4. Abstract!Settle(held[g])
      BY <3>1, <3>2, <3>3, SettleRefines
    <3> QED
      BY <3>1, <3>4 DEF Abstract!Next
  <2> QED
    BY <1>3, <2>1, <2>2 DEF WriterStep
<1>4. ASSUME NEW c \in Callers, CallerStep(c) PROVE Abstract!Next \/ UNCHANGED AbsVars
  <2>1. CASE BeginQueued(c) \/ BeginInline(c)
    BY <2>1, BeginQueuedRefines, BeginInlineRefines DEF Abstract!Next
  <2>2. CASE Enqueue(c)
    <3>1. AbstractPhase' = AbstractPhase
      BY <2>2 DEF Enqueue, AbstractPhase, IInv, TypeOK
    <3> QED
      BY <2>2, <3>1 DEF Enqueue, AbsVars, AbstractAnswer
  <2>3. CASE SubmitTimeout(c)
    BY <2>3, SubmitTimeoutRefines DEF Abstract!Next
  <2>4. CASE RunInline(c)
    <3>1. pc[c] = "inline" /\ outcome[c] = "none"
      BY <2>4 DEF RunInline, IInv, AnswerInv
    <3> QED
      BY <2>4, <3>1, SettleRefines DEF RunInline, Abstract!Next
  <2>5. CASE ReturnInline(c) \/ ReceiveAnswer(c)
    BY <2>5, ReturnRefines DEF Abstract!Next
  <2>6. CASE SeeWriterDone(c)
    BY <2>6, SeeWriterDoneReceives, ReturnRefines DEF Abstract!Next
  <2>7. CASE Finish(c)
    BY <2>7, FinishRefines DEF Abstract!Next
  <2> QED
    BY <1>4, <2>1, <2>2, <2>3, <2>4, <2>5, <2>6, <2>7 DEF CallerStep
<1> QED
  BY <1>1, <1>2, <1>3, <1>4 DEF Next

\* With its queue, drain, inline fallback and timeouts the writer implements the
\* queueless specification of atomic, truthfully answered writes.
THEOREM WriterImplementsAtomicWrites == Spec => ImplementsAtomicWrites
<1>1. Init => Abstract!Init
  <2> SUFFICES ASSUME Init PROVE Abstract!Init
    OBVIOUS
  <2>1. AbstractPhase = [c \in Callers |-> "idle"] /\ AbstractAnswer = [c \in Callers |-> "none"]
    BY DEF Init, AbstractPhase, AbstractAnswer
  <2>2. commits = [c \in Callers |-> 0]
    BY DEF Init
  <2> QED
    BY <2>1, <2>2 DEF Abstract!Init
<1>2. IInv /\ [Next]_vars => [Abstract!Next]_(Abstract!vars)
  BY StepRefines DEF AbsVars, Abstract!vars
<1> QED
  BY <1>1, <1>2, InductiveInvariant, PTL DEF Spec, ImplementsAtomicWrites, Abstract!Spec
============================================================================
