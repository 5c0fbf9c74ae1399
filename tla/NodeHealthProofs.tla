-------------------------- MODULE NodeHealthProofs --------------------------
(***************************************************************************)
(* What every step of the heartbeat keeps, and the end of the process, for *)
(* the theorems of PanelProofs.                                            *)
(***************************************************************************)
EXTENDS NodeHealth, SequenceTheorems, FiniteSetTheorems, TLAPS

Notices == [kind : {"down", "up"}, about : SUBSET Nodes]

\* An event still to be published tells what the row has, unless the row is wrong.
Told(e) == \A n \in e.about : wrong[n] \/ (notified[n] <=> e.kind = "down")
OutboxInv == outbox \in Seq(Notices) /\ \A e \in Range(outbox) : Told(e)

\* Of every other node the row has what was said last.
SaidInv ==
    \A n \in Nodes : n \in Unannounced \/ wrong[n] \/ (notified[n] <=> said[n] = "down")

\* The memory of the job and the rows it has loaded are those of the database.
KnownInv ==
    \A n \in Nodes :
        /\ health[n].seen => wrong[n] \/ (health[n].notified <=> notified[n])
        /\ rows[n] # None => (rows[n] <=> notified[n])

HealthInv == HealthTypeOK /\ OutboxInv /\ SaidInv /\ KnownInv

HealthStep == Heartbeat \/ HealthRestarts \/ \E n \in Nodes : Changes(n)

-----------------------------------------------------------------------------
(* Sequences of events                                                     *)

\* A sequence made of a finite set has the elements of that set, each of them once.
LEMMA SeqsOfSet ==
    ASSUME NEW S, IsFiniteSet(S), NEW seq \in SetToSeqs(S)
    PROVE  /\ seq \in Seq(S) /\ Range(seq) = S
           /\ \A i, j \in DOMAIN seq : i # j => seq[i] # seq[j]
<1> DEFINE D == 1..Cardinality(S)
<1>1. Cardinality(S) \in Nat
  BY FS_CardinalityType
<1>2. seq \in [D -> S] /\ \A i, j \in D : i # j => seq[i] # seq[j]
  BY DEF SetToSeqs
<1>3. seq \in Seq(S)
  BY <1>1, <1>2, SeqDef
<1>4. seq \in Injection(D, S)
  BY <1>2 DEF Injection, IsInjective
<1>5. Cardinality(D) = Cardinality(S)
  BY <1>1, FS_Interval
<1>6. seq \in Surjection(D, S)
  BY <1>4, <1>5, FS_Injection
<1>7. Range(seq) = S
  BY <1>2, <1>6 DEF Surjection, Range
<1> QED
  BY <1>2, <1>3, <1>7

\* A single event is about one node.
LEMMA SingleIs ==
    ASSUME NEW kind, NEW nodes, NEW e \in Single(kind, nodes)
    PROVE  \E n \in nodes : e = [kind |-> kind, about |-> {n}]
<1>1. CASE Few(nodes)
  BY <1>1 DEF Single
<1>2. CASE ~ Few(nodes)
  BY <1>2 DEF Single
<1> QED
  BY <1>1, <1>2

\* The single events of a finite set of nodes are finite in number.
LEMMA SinglesFinite ==
    ASSUME NEW kind, NEW nodes, IsFiniteSet(nodes)
    PROVE  IsFiniteSet(Single(kind, nodes))
<1> DEFINE f == [n \in nodes |-> [kind |-> kind, about |-> {n}]]
           T == {[kind |-> kind, about |-> {n}] : n \in nodes}
<1>1. f \in Surjection(nodes, T)
  BY DEF Surjection
<1>2. IsFiniteSet(T)
  <2> HIDE DEF f, T
  <2> QED
    BY <1>1, FS_Surjection
<1> QED
  BY <1>2, FS_EmptySet DEF Single

\* The one event of a burst, if there is one.
LEMMA FoldedIs ==
    ASSUME NEW kind \in {"down", "up"}, NEW nodes \in SUBSET Nodes
    PROVE  /\ Folded(kind, nodes) \in Seq(Notices)
           /\ Range(Folded(kind, nodes)) =
                IF Few(nodes) THEN {} ELSE {[kind |-> kind, about |-> nodes]}
<1> DEFINE e == [kind |-> kind, about |-> nodes]
<1>1. e \in Notices
  BY DEF Notices
<1>2. <<e>> \in Seq(Notices) /\ Range(<<e>>) = {e}
  <2> HIDE DEF e
  <2>1. <<e>> \in Seq(Notices) /\ DOMAIN <<e>> = 1..1 /\ <<e>>[1] = e
    BY <1>1
  <2> QED
    BY <2>1 DEF Range
<1>3. <<>> \in Seq(Notices) /\ Range(<<>>) = {}
  BY DEF Range
<1> QED
  BY <1>2, <1>3 DEF Folded

\* Of a node there is one event.
Once(out) == \A i, j \in DOMAIN out : i # j => out[i].about \intersect out[j].about = {}

\* Two such sequences about different nodes, one after the other.
LEMMA OnceTogether ==
    ASSUME NEW s \in Seq(Notices), NEW t \in Seq(Notices), Once(s), Once(t),
           \A x \in Range(s), y \in Range(t) : x.about \intersect y.about = {}
    PROVE  Once(s \o t)
<1>1. /\ Len(s) \in Nat /\ Len(t) \in Nat /\ DOMAIN s = 1..Len(s) /\ DOMAIN t = 1..Len(t)
      /\ DOMAIN (s \o t) = 1..(Len(s) + Len(t))
      /\ \A i \in 1..(Len(s) + Len(t)) :
           (s \o t)[i] = IF i <= Len(s) THEN s[i] ELSE t[i - Len(s)]
  BY ConcatProperties, LenProperties
<1>2. ASSUME NEW i \in DOMAIN (s \o t), NEW j \in DOMAIN (s \o t), i < j
      PROVE  (s \o t)[i].about \intersect (s \o t)[j].about = {}
  <2>1. CASE j <= Len(s)
    BY <1>1, <1>2, <2>1 DEF Once
  <2>2. CASE i > Len(s)
    <3>1. /\ i - Len(s) \in DOMAIN t /\ j - Len(s) \in DOMAIN t /\ i - Len(s) # j - Len(s)
          /\ (s \o t)[i] = t[i - Len(s)] /\ (s \o t)[j] = t[j - Len(s)]
      BY <1>1, <1>2, <2>2
    <3> QED
      BY <3>1 DEF Once
  <2>3. CASE i <= Len(s) /\ j > Len(s)
    <3>1. /\ i \in DOMAIN s /\ (s \o t)[i] = s[i]
          /\ j - Len(s) \in DOMAIN t /\ (s \o t)[j] = t[j - Len(s)]
      BY <1>1, <1>2, <2>3
    <3> QED
      BY <3>1 DEF Range
  <2> QED
    BY <1>1, <2>1, <2>2, <2>3
<1>3. ASSUME NEW i \in DOMAIN (s \o t), NEW j \in DOMAIN (s \o t), j < i
      PROVE  (s \o t)[i].about \intersect (s \o t)[j].about = {}
  BY <1>2, <1>3
<1>4. \A i, j \in DOMAIN (s \o t) : i # j => i < j \/ j < i
  BY <1>1
<1> QED
  BY <1>2, <1>3, <1>4 DEF Once

Tells(out, down, back) ==
    /\ out \in Seq(Notices) /\ Once(out)
    /\ \A e \in Range(out) : \/ e.kind = "down" /\ e.about \subseteq down
                             \/ e.kind = "up" /\ e.about \subseteq back
    /\ \A n \in down \union back : \E e \in Range(out) : n \in e.about

\* The events of one run: each is about nodes of its direction, and each node that changed
\* is in one of them and no other.
LEMMA OutboxOfRun ==
    ASSUME NEW down \in SUBSET Nodes, NEW back \in SUBSET Nodes, down \intersect back = {},
           NEW seq \in SetToSeqs(Single("down", down) \union Single("up", back)),
           NEW out, out = seq \o Folded("down", down) \o Folded("up", back)
    PROVE  Tells(out, down, back)
<1> DEFINE S == Single("down", down) \union Single("up", back)
           fd == Folded("down", down)
           fu == Folded("up", back)
<1>1. IsFiniteSet(down) /\ IsFiniteSet(back)
  BY HealthAssumption, FS_Subset
<1>2. IsFiniteSet(S)
  BY <1>1, SinglesFinite, FS_Union
<1>3. seq \in Seq(S) /\ Range(seq) = S
  BY <1>2, SeqsOfSet
<1>4. S \subseteq Notices
  BY DEF Single, Notices
<1>5. seq \in Seq(Notices)
  BY <1>3, <1>4, SeqMonotonic
<1>6. /\ fd \in Seq(Notices)
      /\ Range(fd) = IF Few(down) THEN {} ELSE {[kind |-> "down", about |-> down]}
  BY FoldedIs
<1>7. /\ fu \in Seq(Notices)
      /\ Range(fu) = IF Few(back) THEN {} ELSE {[kind |-> "up", about |-> back]}
  BY FoldedIs
<1>8. seq \o fd \in Seq(Notices) /\ Range(seq \o fd) = S \union Range(fd)
  BY <1>3, <1>5, <1>6, ConcatProperties, RangeConcatenation
<1>9. out \in Seq(Notices) /\ Range(out) = S \union Range(fd) \union Range(fu)
  <2>1. out = (seq \o fd) \o fu
    OBVIOUS
  <2> HIDE DEF S, fd, fu
  <2> DEFINE most == seq \o fd
  <2>2. most \in Seq(Notices) /\ fu \in Seq(Notices)
    BY <1>7, <1>8
  <2> HIDE DEF most
  <2>3. most \o fu \in Seq(Notices) /\ Range(most \o fu) = Range(most) \union Range(fu)
    BY <2>2, ConcatProperties, RangeConcatenation
  <2> QED
    BY <1>8, <2>1, <2>3 DEF most
<1>10. ASSUME NEW e \in Range(out)
       PROVE  \/ e.kind = "down" /\ e.about \subseteq down
              \/ e.kind = "up" /\ e.about \subseteq back
  BY <1>6, <1>7, <1>9 DEF Single
<1>11. ASSUME NEW n \in down
       PROVE  \E e \in Range(out) : n \in e.about
  <2>1. CASE Few(down)
    <3>1. [kind |-> "down", about |-> {n}] \in Range(out)
      BY <1>9, <2>1 DEF Single
    <3> QED
      BY <3>1
  <2>2. CASE ~ Few(down)
    <3>1. [kind |-> "down", about |-> down] \in Range(out)
      BY <1>6, <1>9, <2>2
    <3> QED
      BY <3>1
  <2> QED
    BY <2>1, <2>2
<1>12. ASSUME NEW n \in back
       PROVE  \E e \in Range(out) : n \in e.about
  <2>1. CASE Few(back)
    <3>1. [kind |-> "up", about |-> {n}] \in Range(out)
      BY <1>9, <2>1 DEF Single
    <3> QED
      BY <3>1
  <2>2. CASE ~ Few(back)
    <3>1. [kind |-> "up", about |-> back] \in Range(out)
      BY <1>7, <1>9, <2>2
    <3> QED
      BY <3>1
  <2> QED
    BY <2>1, <2>2
<1>13. Once(seq)
  <2>1. ASSUME NEW x \in S, NEW y \in S, x # y
        PROVE  x.about \intersect y.about = {}
    <3>1. ASSUME NEW z \in S
          PROVE  \/ \E n \in down : z = [kind |-> "down", about |-> {n}]
                 \/ \E n \in back : z = [kind |-> "up", about |-> {n}]
      <4>1. CASE z \in Single("down", down)
        BY <4>1, SingleIs
      <4>2. CASE z \in Single("up", back)
        BY <4>2, SingleIs
      <4> QED
        BY <3>1, <4>1, <4>2
    <3>2. CASE \E n, m \in down : /\ x = [kind |-> "down", about |-> {n}]
                                  /\ y = [kind |-> "down", about |-> {m}]
      BY <2>1, <3>2
    <3>3. CASE \E n, m \in back : /\ x = [kind |-> "up", about |-> {n}]
                                  /\ y = [kind |-> "up", about |-> {m}]
      BY <2>1, <3>3
    <3>4. CASE \E n \in down, m \in back : /\ x.about = {n} /\ y.about = {m}
      BY <3>4
    <3>5. CASE \E n \in back, m \in down : /\ x.about = {n} /\ y.about = {m}
      BY <3>5
    <3> HIDE DEF S
    <3>6. CASE \E n \in down : x = [kind |-> "down", about |-> {n}]
      <4>1. PICK n \in down : x = [kind |-> "down", about |-> {n}]
        BY <3>6
      <4>2. \/ \E m \in down : y = [kind |-> "down", about |-> {m}]
            \/ \E m \in back : y.about = {m}
        BY <3>1
      <4> QED
        BY <3>2, <3>4, <4>1, <4>2
    <3>7. CASE \E n \in back : x = [kind |-> "up", about |-> {n}]
      <4>1. PICK n \in back : x = [kind |-> "up", about |-> {n}]
        BY <3>7
      <4>2. \/ \E m \in down : y.about = {m}
            \/ \E m \in back : y = [kind |-> "up", about |-> {m}]
        BY <3>1
      <4> QED
        BY <3>3, <3>5, <4>1, <4>2
    <3> QED
      BY <3>1, <3>6, <3>7
  <2> HIDE DEF S
  <2>2. \A i \in DOMAIN seq : seq[i] \in S
    BY <1>3, Zenon DEF Range
  <2> QED
    BY <1>2, <2>1, <2>2, SeqsOfSet DEF S, Once
<1>14. Once(fd) /\ Once(fu)
  BY DEF Folded, Once
<1>15. Once(seq \o fd)
  <2>1. \A x \in Range(seq), y \in Range(fd) : x.about \intersect y.about = {}
    BY <1>3, <1>6 DEF Single
  <2> HIDE DEF S, fd, fu
  <2> QED
    BY <1>5, <1>6, <1>13, <1>14, <2>1, OnceTogether
<1>16. Once(out)
  <2>1. \A x \in S \union Range(fd), y \in Range(fu) : x.about \intersect y.about = {}
    BY <1>6, <1>7 DEF Single
  <2>2. out = (seq \o fd) \o fu
    OBVIOUS
  <2> HIDE DEF S, fd, fu
  <2> DEFINE most == seq \o fd
  <2>3. most \in Seq(Notices) /\ fu \in Seq(Notices) /\ Once(most) /\ Once(fu)
    BY <1>7, <1>8, <1>14, <1>15
  <2>4. \A x \in Range(most), y \in Range(fu) : x.about \intersect y.about = {}
    BY <1>8, <2>1
  <2> HIDE DEF most
  <2>5. Once(most \o fu)
    BY <2>3, <2>4, OnceTogether
  <2> QED
    BY <2>2, <2>5 DEF most
<1> QED
  BY <1>9, <1>10, <1>11, <1>12, <1>16 DEF Tells

\* The head of the outbox and the rest of it.
LEMMA HeadAndTail ==
    ASSUME NEW S, NEW s \in Seq(S), s # <<>>
    PROVE  /\ Head(s) \in S /\ Tail(s) \in Seq(S)
           /\ Range(s) = {Head(s)} \union Range(Tail(s))
<1>1. Head(s) \in S /\ Tail(s) \in Seq(S)
  BY HeadTailProperties
<1>2. /\ Len(s) \in Nat \ {0} /\ DOMAIN s = 1..Len(s) /\ Head(s) = s[1]
      /\ Len(Tail(s)) = Len(s) - 1 /\ DOMAIN Tail(s) = 1..Len(Tail(s))
      /\ \A i \in 1..Len(Tail(s)) : Tail(s)[i] = s[i + 1]
  BY <1>1, HeadTailProperties, LenProperties, EmptySeq
<1>3. ASSUME NEW x \in Range(s)
      PROVE  x \in {Head(s)} \union Range(Tail(s))
  <2>1. PICK i \in 1..Len(s) : x = s[i]
    BY <1>2, <1>3 DEF Range
  <2>2. CASE i # 1
    <3>1. i - 1 \in 1..Len(Tail(s)) /\ Tail(s)[i - 1] = s[i]
      BY <1>2, <2>1, <2>2
    <3> QED
      BY <1>2, <2>1, <3>1 DEF Range
  <2> QED
    BY <1>2, <2>1, <2>2
<1>4. ASSUME NEW x \in Range(Tail(s))
      PROVE  x \in Range(s)
  <2>1. PICK i \in 1..Len(Tail(s)) : x = Tail(s)[i]
    BY <1>2, <1>4 DEF Range
  <2>2. i + 1 \in DOMAIN s /\ x = s[i + 1]
    BY <1>2, <2>1
  <2> QED
    BY <2>2 DEF Range
<1>5. Head(s) \in Range(s)
  BY <1>2 DEF Range
<1> QED
  BY <1>1, <1>3, <1>4, <1>5

-----------------------------------------------------------------------------
(* Judge                                                                   *)

Downs == {n \in Nodes : rows[n] # None /\ Goes(n)}
Backs == {n \in Nodes : rows[n] # None /\ Comes(n)}

\* What is announced is saved or the save fails; the rest keeps its rows.
LEMMA JudgeSaves ==
    ASSUME HealthInv, Judge
    PROVE  /\ outbox = <<>> /\ said' = said /\ Downs \intersect Backs = {}
           /\ \A n \in Downs \union Backs : wrong'[n] \/ (notified'[n] <=> n \in Downs)
           /\ \A n \in Nodes \ (Downs \union Backs) :
                wrong'[n] = wrong[n] /\ notified'[n] = notified[n]
<1>1. PICK failed \in SUBSET (Downs \union Backs) :
        /\ notified' = [n \in Nodes |-> IF n \in (Downs \union Backs) \ failed THEN n \in Downs
                                        ELSE notified[n]]
        /\ wrong' = [n \in Nodes |-> IF n \in Downs \union Backs THEN n \in failed
                                     ELSE wrong[n]]
  BY Zenon DEF Judge, Downs, Backs
<1>2. outbox = <<>> /\ said' = said
  BY DEF Judge, HealthInv, HealthTypeOK
<1>3. Downs \intersect Backs = {}
  BY DEF Downs, Backs, Goes, Comes
<1>4. Downs \subseteq Nodes /\ Backs \subseteq Nodes
  BY DEF Downs, Backs
<1>5. ASSUME NEW n \in Downs \union Backs
      PROVE  wrong'[n] \/ (notified'[n] <=> n \in Downs)
  BY <1>1, <1>4, <1>5, Zenon
<1>6. ASSUME NEW n \in Nodes \ (Downs \union Backs)
      PROVE  wrong'[n] = wrong[n] /\ notified'[n] = notified[n]
  BY <1>1, <1>6, Zenon
<1> QED
  BY <1>2, <1>3, <1>5, <1>6

\* The outbox of the run.
LEMMA JudgeSends ==
    ASSUME HealthInv, Judge
    PROVE  Tells(outbox', Downs, Backs)
<1>1. PICK seq \in SetToSeqs(Single("down", Downs) \union Single("up", Backs)) :
        outbox' = seq \o Folded("down", Downs) \o Folded("up", Backs)
  BY Zenon DEF Judge, Downs, Backs
<1>2. Downs \in SUBSET Nodes /\ Backs \in SUBSET Nodes
  BY DEF Downs, Backs
<1>3. Downs \intersect Backs = {}
  BY JudgeSaves
<1> QED
  BY <1>1, <1>2, <1>3, OutboxOfRun

\* What is judged of a node fits, and is what the row will have, unless the save fails.
LEMMA JudgedIs ==
    ASSUME HealthInv, NEW n \in Nodes, probes[n] # None \/ rows[n] = None
    PROVE  /\ Judged(n) \in [failStreak : 0..Threshold, notified : BOOLEAN, seen : BOOLEAN]
           /\ n \in Downs => Judged(n).notified
           /\ n \in Backs => ~ Judged(n).notified
           /\ n \notin Downs \union Backs /\ Judged(n).seen =>
                wrong[n] \/ (Judged(n).notified <=> notified[n])
<1>1. /\ health[n].failStreak \in 0..Threshold /\ health[n].notified \in BOOLEAN
      /\ Known(n).failStreak = health[n].failStreak
  BY DEF HealthInv, HealthTypeOK, Known
<1>2. rows[n] = None \/ rows[n] \in BOOLEAN
  BY DEF HealthInv, HealthTypeOK
<1>3. rows[n] # None => (rows[n] <=> notified[n])
  BY DEF HealthInv, KnownInv
<1>4. ASSUME rows[n] # None
      PROVE  Known(n).notified \in BOOLEAN
  BY <1>1, <1>2, <1>3, <1>4 DEF HealthInv, HealthTypeOK, Known
<1>5. ASSUME rows[n] # None
      PROVE  wrong[n] \/ (Known(n).notified <=> notified[n])
  BY <1>1, <1>2, <1>3, <1>5 DEF HealthInv, HealthTypeOK, KnownInv, Known
<1>6. Longer(Known(n).failStreak) \in 0..Threshold
  BY <1>1, HealthAssumption DEF Longer
<1>7. CASE rows[n] = None
  BY <1>7, HealthAssumption DEF Judged, Unseen, Downs, Backs
<1>8. CASE rows[n] # None /\ probes[n] = "online"
  <2>1. /\ Judged(n).failStreak = 0 /\ Judged(n).notified = FALSE /\ Judged(n).seen = TRUE
        /\ Judged(n) = [failStreak |-> 0, notified |-> FALSE, seen |-> TRUE]
    BY <1>8 DEF Judged, Unseen
  <2>2. n \notin Downs /\ (n \notin Backs => ~ Known(n).notified)
    BY <1>8 DEF Downs, Backs, Goes, Comes
  <2> QED
    BY <1>4, <1>5, <1>8, <2>1, <2>2, HealthAssumption
<1>9. CASE rows[n] # None /\ probes[n] # "online"
  <2>1. Judged(n) = [failStreak |-> Longer(Known(n).failStreak),
                     notified |-> Known(n).notified \/ Goes(n), seen |-> TRUE]
    BY <1>9 DEF Judged
  <2>2. /\ Judged(n).notified <=> Known(n).notified \/ Goes(n)
        /\ Judged(n).notified \in BOOLEAN
    <3> DEFINE b == Known(n).notified \/ Goes(n)
    <3>1. b \in BOOLEAN
      BY Zenon
    <3>2. Judged(n).notified = b
      BY <2>1
    <3> QED
      BY <3>1, <3>2, Zenon
  <2>3. n \notin Backs /\ (n \in Downs <=> Goes(n))
    BY <1>9 DEF Downs, Backs, Comes
  <2>4. Judged(n) \in [failStreak : 0..Threshold, notified : BOOLEAN, seen : BOOLEAN]
    BY <1>4, <1>6, <1>9, <2>1 DEF Goes
  <2> QED
    BY <1>5, <1>9, <2>2, <2>3, <2>4
<1> QED
  BY <1>7, <1>8, <1>9

-----------------------------------------------------------------------------
(* The steps                                                               *)

\* A choice between truth values is a truth value.
LEMMA EitherBoolean ==
    ASSUME NEW p, NEW q \in BOOLEAN, NEW r \in BOOLEAN
    PROVE  (IF p THEN q ELSE r) \in BOOLEAN
<1>1. CASE p
  BY <1>1, Zenon
<1>2. CASE ~ p
  BY <1>2, Zenon
<1> QED
  BY <1>1, <1>2, Zenon

\* Every step of the heartbeat, and of its nodes, keeps the types.
LEMMA HealthTypeStep ==
    ASSUME HealthInv, HealthStep
    PROVE  HealthTypeOK'
<1> USE HealthAssumption
<1>1. ASSUME Load
      PROVE  HealthTypeOK'
  <2>1. rows' \in [Nodes -> BOOLEAN \union {None}]
    BY <1>1, Zenon DEF HealthInv, HealthTypeOK, Load
  <2> QED
    BY <1>1, <2>1 DEF HealthInv, HealthTypeOK, Load
<1>2. ASSUME NEW n \in Nodes, Probe(n)
      PROVE  HealthTypeOK'
  BY <1>2 DEF HealthInv, HealthTypeOK, Probe
<1>3. ASSUME Judge
      PROVE  HealthTypeOK'
  <2>1. notified' \in [Nodes -> BOOLEAN] /\ wrong' \in [Nodes -> BOOLEAN]
    <3>1. PICK failed \in SUBSET (Downs \union Backs) :
            /\ notified' = [n \in Nodes |-> IF n \in (Downs \union Backs) \ failed THEN n \in Downs
                                            ELSE notified[n]]
            /\ wrong' = [n \in Nodes |-> IF n \in Downs \union Backs THEN n \in failed
                                         ELSE wrong[n]]
      BY <1>3, Zenon DEF Judge, Downs, Backs
    <3>2. notified \in [Nodes -> BOOLEAN] /\ wrong \in [Nodes -> BOOLEAN]
      BY DEF HealthInv, HealthTypeOK
    <3>3. notified' \in [Nodes -> BOOLEAN]
      <4> DEFINE F(n) == IF n \in (Downs \union Backs) \ failed THEN n \in Downs ELSE notified[n]
      <4>1. ASSUME NEW n \in Nodes
            PROVE  F(n) \in BOOLEAN
        <5>1. notified[n] \in BOOLEAN
          BY <3>2
        <5>2. (n \in Downs) \in BOOLEAN
          OBVIOUS
        <5> QED
          BY <5>1, <5>2, EitherBoolean, Zenon
      <4> QED
        BY <3>1, <4>1, Zenon
    <3>4. wrong' \in [Nodes -> BOOLEAN]
      <4> DEFINE F(n) == IF n \in Downs \union Backs THEN n \in failed ELSE wrong[n]
      <4>1. ASSUME NEW n \in Nodes
            PROVE  F(n) \in BOOLEAN
        <5>1. wrong[n] \in BOOLEAN
          BY <3>2
        <5>2. (n \in failed) \in BOOLEAN
          OBVIOUS
        <5> QED
          BY <5>1, <5>2, EitherBoolean, Zenon
      <4> QED
        BY <3>1, <4>1, Zenon
    <3> QED
      BY <3>3, <3>4
  <2>2. health' \in [Nodes -> [failStreak : 0..Threshold, notified : BOOLEAN, seen : BOOLEAN]]
    <3>1. ASSUME NEW n \in Nodes
          PROVE  Judged(n) \in [failStreak : 0..Threshold, notified : BOOLEAN, seen : BOOLEAN]
      BY <1>3, JudgedIs DEF Judge, Probed
    <3> QED
      BY <1>3, <3>1, Zenon DEF Judge
  <2>3. /\ rows' = [n \in Nodes |-> None] /\ probes' = [n \in Nodes |-> None]
        /\ job' = (IF outbox' = <<>> THEN "idle" ELSE "publishing")
        /\ UNCHANGED <<up, enabled, said>>
    BY <1>3, Zenon DEF Judge
  <2> QED
    BY <2>1, <2>2, <2>3 DEF HealthInv, HealthTypeOK
<1>4. ASSUME Announce
      PROVE  HealthTypeOK'
  <2>1. outbox # <<>> /\ Head(outbox) \in Notices
    BY <1>4, HeadAndTail DEF HealthInv, HealthTypeOK, OutboxInv, Announce
  <2>2. Head(outbox).kind \in {"up", "down"}
    BY <2>1 DEF Notices
  <2>3. said' \in [Nodes -> {"up", "down"}]
    BY <1>4, <2>2 DEF HealthInv, HealthTypeOK, Announce
  <2> QED
    BY <1>4, <2>3 DEF HealthInv, HealthTypeOK, Announce
<1>5. ASSUME HealthRestarts
      PROVE  HealthTypeOK'
  <2>1. wrong' \in [Nodes -> BOOLEAN]
    <3>1. wrong \in [Nodes -> BOOLEAN]
      BY DEF HealthInv, HealthTypeOK
    <3> QED
      BY <1>5, <3>1, Zenon DEF HealthRestarts
  <2>2. health' \in [Nodes -> [failStreak : 0..Threshold, notified : BOOLEAN, seen : BOOLEAN]]
    BY <1>5 DEF HealthRestarts, Unseen
  <2> QED
    BY <1>5, <2>1, <2>2 DEF HealthInv, HealthTypeOK, HealthRestarts
<1>6. ASSUME NEW n \in Nodes, Changes(n)
      PROVE  HealthTypeOK'
  <2>1. up' \in [Nodes -> BOOLEAN] /\ enabled' \in [Nodes -> BOOLEAN]
    <3>1. up \in [Nodes -> BOOLEAN] /\ enabled \in [Nodes -> BOOLEAN]
      BY DEF HealthInv, HealthTypeOK
    <3> QED
      BY <1>6, <3>1, Zenon DEF Changes
  <2> QED
    BY <1>6, <2>1 DEF HealthInv, HealthTypeOK, Changes
<1> QED
  BY <1>1, <1>2, <1>3, <1>4, <1>5, <1>6 DEF HealthStep, Heartbeat

\* Events leave the outbox in order, and a run of the job that starts finds it empty.
LEMMA OutboxStep ==
    ASSUME HealthInv, HealthStep
    PROVE  OutboxInv'
<1>1. ASSUME UNCHANGED <<notified, outbox, wrong>>
      PROVE  OutboxInv'
  BY <1>1 DEF HealthInv, OutboxInv, Told
<1>2. ASSUME Judge
      PROVE  OutboxInv'
  <2>1. Tells(outbox', Downs, Backs)
    BY <1>2, JudgeSends
  <2>2. ASSUME NEW e \in Range(outbox'), NEW n \in e.about
        PROVE  wrong'[n] \/ (notified'[n] <=> e.kind = "down")
    <3>1. CASE e.kind = "down" /\ n \in Downs
      BY <1>2, <3>1, JudgeSaves
    <3>2. CASE e.kind = "up" /\ n \in Backs
      BY <1>2, <3>2, JudgeSaves
    <3> QED
      BY <2>1, <2>2, <3>1, <3>2 DEF Tells
  <2> QED
    BY <2>1, <2>2 DEF Tells, OutboxInv, Told
<1>3. ASSUME Announce
      PROVE  OutboxInv'
  <2>1. outbox # <<>> /\ outbox' = Tail(outbox) /\ UNCHANGED <<notified, wrong>>
    BY <1>3 DEF Announce, HealthInv, HealthTypeOK
  <2>2. Tail(outbox) \in Seq(Notices) /\ Range(Tail(outbox)) \subseteq Range(outbox)
    BY <2>1, HeadAndTail DEF HealthInv, OutboxInv
  <2> QED
    BY <2>1, <2>2 DEF HealthInv, OutboxInv, Told
<1>4. ASSUME HealthRestarts
      PROVE  OutboxInv'
  <2>1. <<>> \in Seq(Notices) /\ Range(<<>>) = {}
    BY DEF Range
  <2> QED
    BY <1>4, <2>1 DEF HealthRestarts, OutboxInv
<1> QED
  BY <1>1, <1>2, <1>3, <1>4 DEF HealthStep, Heartbeat, Load, Probe, Changes

\* Whatever leaves the outbox has been said, or was lost with the process.
LEMMA SaidStep ==
    ASSUME HealthInv, HealthStep
    PROVE  SaidInv'
<1>1. ASSUME UNCHANGED <<notified, outbox, said, wrong>>
      PROVE  SaidInv'
  BY <1>1 DEF HealthInv, SaidInv, Unannounced
<1>2. ASSUME Judge
      PROVE  SaidInv'
  <2> SUFFICES ASSUME NEW n \in Nodes, ~ wrong'[n]
               PROVE  n \in Unannounced' \/ (notified'[n] <=> said'[n] = "down")
    BY DEF SaidInv
  <2>1. CASE n \in Downs \union Backs
    <3>1. \E e \in Range(outbox') : n \in e.about
      BY <1>2, <2>1, JudgeSends DEF Tells
    <3> QED
      BY <3>1 DEF Unannounced, Range
  <2>2. CASE n \notin Downs \union Backs
    <3>1. UNCHANGED said /\ wrong'[n] = wrong[n] /\ notified'[n] = notified[n] /\ outbox = <<>>
      BY <1>2, <2>2, JudgeSaves
    <3>2. n \notin Unannounced
      BY <3>1 DEF Unannounced
    <3> QED
      BY <3>1, <3>2 DEF HealthInv, SaidInv
  <2> QED
    BY <2>1, <2>2
<1>3. ASSUME Announce
      PROVE  SaidInv'
  <2> DEFINE e == Head(outbox)
  <2>1. /\ outbox # <<>> /\ outbox' = Tail(outbox) /\ UNCHANGED <<notified, wrong>>
        /\ said' = [n \in Nodes |-> IF n \in e.about THEN e.kind ELSE said[n]]
    BY <1>3 DEF Announce, HealthInv, HealthTypeOK
  <2>2. e \in Notices /\ Range(outbox) = {e} \union Range(outbox')
    BY <2>1, HeadAndTail DEF HealthInv, OutboxInv
  <2>3. Told(e)
    BY <2>2 DEF HealthInv, OutboxInv
  <2>4. ASSUME NEW n \in Nodes, ~ wrong'[n]
        PROVE  n \in Unannounced' \/ (notified'[n] <=> said'[n] = "down")
    <3>1. CASE n \in e.about
      BY <2>1, <2>3, <2>4, <3>1 DEF Told
    <3>2. CASE n \notin e.about
      <4>1. n \in Unannounced => n \in Unannounced'
        BY <2>2, <3>2 DEF Unannounced, Range
      <4> QED
        BY <2>1, <2>4, <3>2, <4>1 DEF HealthInv, SaidInv
    <3> QED
      BY <3>1, <3>2
  <2> QED
    BY <2>4 DEF SaidInv
<1>4. ASSUME HealthRestarts
      PROVE  SaidInv'
  <2> SUFFICES ASSUME NEW n \in Nodes, ~ wrong'[n]
               PROVE  notified'[n] <=> said'[n] = "down"
    BY DEF SaidInv
  <2>1. notified[n] \in BOOLEAN
    BY DEF HealthInv, HealthTypeOK
  <2>2. CASE n \in Unannounced
    <3>1. wrong'[n] <=> (notified[n] # (said[n] = "down"))
      BY <1>4, <2>2 DEF HealthRestarts
    <3> QED
      BY <1>4, <2>1, <3>1 DEF HealthRestarts
  <2>3. CASE n \notin Unannounced
    BY <1>4, <2>3 DEF HealthRestarts, HealthInv, SaidInv
  <2> QED
    BY <2>2, <2>3
<1> QED
  BY <1>1, <1>2, <1>3, <1>4 DEF HealthStep, Heartbeat, Load, Probe, Changes

\* The rows are written by the job alone, so what it has loaded or remembers is theirs.
LEMMA KnownStep ==
    ASSUME HealthInv, HealthStep
    PROVE  KnownInv'
<1>1. ASSUME UNCHANGED <<notified, health, rows, wrong>>
      PROVE  KnownInv'
  BY <1>1 DEF HealthInv, KnownInv
<1>2. ASSUME Load
      PROVE  KnownInv'
  BY <1>2 DEF HealthInv, KnownInv, Load
<1>3. ASSUME Judge
      PROVE  KnownInv'
  <2> SUFFICES ASSUME NEW n \in Nodes
               PROVE  /\ health'[n].seen => wrong'[n] \/ (health'[n].notified <=> notified'[n])
                      /\ rows'[n] = None
    BY DEF KnownInv
  <2>1. health'[n] = Judged(n) /\ rows'[n] = None /\ (probes[n] # None \/ rows[n] = None)
    BY <1>3, Zenon DEF Judge, Probed
  <2>2. CASE n \in Downs \union Backs
    BY <1>3, <2>1, <2>2, JudgeSaves, JudgedIs
  <2>3. CASE n \notin Downs \union Backs
    BY <1>3, <2>1, <2>3, JudgeSaves, JudgedIs
  <2> QED
    BY <2>1, <2>2, <2>3
<1>4. ASSUME HealthRestarts
      PROVE  KnownInv'
  BY <1>4 DEF HealthRestarts, KnownInv, Unseen
<1> QED
  BY <1>1, <1>2, <1>3, <1>4 DEF HealthStep, Heartbeat, Probe, Announce, Publish, Changes

-----------------------------------------------------------------------------
\* What a run goes by is the row, and before it the row has what was said last: so a node that
\* goes down was not said to be down, unless its row is wrong.
LEMMA ChangesAre ==
    ASSUME HealthInv, Judge, NEW n \in Nodes, ~ wrong[n]
    PROVE  (n \in Downs => said[n] # "down") /\ (n \in Backs => said[n] # "up")
<1>1. n \notin Unannounced
  BY DEF Judge, HealthInv, HealthTypeOK, Unannounced
<1>2. notified[n] <=> said[n] = "down"
  BY <1>1 DEF HealthInv, SaidInv
<1>3. rows[n] # None => (rows[n] <=> notified[n])
  BY DEF HealthInv, KnownInv
<1>4. rows[n] # None => (Known(n).notified <=> notified[n])
  BY <1>3 DEF HealthInv, HealthTypeOK, KnownInv, Known
<1>5. (n \in Downs => rows[n] # None /\ ~ Known(n).notified)
      /\ (n \in Backs => rows[n] # None /\ Known(n).notified)
  BY DEF Downs, Backs, Goes, Comes
<1> QED
  BY <1>2, <1>4, <1>5

\* Only Judge fills the outbox, with changes, each once.
LEMMA ChangesOnce ==
    ASSUME HealthInv, HealthStep, job # "publishing",
           NEW i \in DOMAIN outbox', NEW n \in outbox'[i].about
    PROVE  /\ wrong[n] \/ outbox'[i].kind # said[n]
           /\ \A j \in DOMAIN outbox' \ {i} : n \notin outbox'[j].about
<1>1. outbox = <<>> /\ ~ Announce
  BY DEF HealthInv, HealthTypeOK, Announce
<1>2. CASE ~ Judge
  <2>1. outbox' = <<>>
    BY <1>1, <1>2 DEF HealthStep, Heartbeat, Load, Probe, HealthRestarts, Changes
  <2> QED
    BY <2>1
<1>3. CASE Judge
  <2>1. Tells(outbox', Downs, Backs)
    BY <1>3, JudgeSends
  <2>2. outbox'[i] \in Range(outbox')
    BY Zenon DEF Range
  <2>3. \/ outbox'[i].kind = "down" /\ n \in Downs
        \/ outbox'[i].kind = "up" /\ n \in Backs
    BY <2>1, <2>2 DEF Tells
  <2>4. n \in Nodes
    BY <2>3 DEF Downs, Backs
  <2>5. wrong[n] \/ outbox'[i].kind # said[n]
    BY <1>3, <2>3, <2>4, ChangesAre
  <2>6. \A j \in DOMAIN outbox' \ {i} : n \notin outbox'[j].about
    BY <2>1 DEF Tells, Once
  <2> QED
    BY <2>5, <2>6
<1> QED
  BY <1>2, <1>3

-----------------------------------------------------------------------------
\* All nodes are up, and nothing has been said.
LEMMA HealthInitInv == HealthInit => HealthInv
<1> SUFFICES ASSUME HealthInit
             PROVE  HealthInv
  OBVIOUS
<1> USE HealthAssumption DEF HealthInit
<1>1. /\ up \in [Nodes -> BOOLEAN] /\ enabled \in [Nodes -> BOOLEAN]
      /\ notified \in [Nodes -> BOOLEAN] /\ wrong \in [Nodes -> BOOLEAN]
  BY Zenon
<1>2. HealthTypeOK
  BY <1>1 DEF HealthTypeOK, Unseen
<1>3. <<>> \in Seq(Notices) /\ Range(<<>>) = {}
  BY DEF Range
<1>4. OutboxInv
  BY <1>3 DEF OutboxInv
<1>5. SaidInv /\ KnownInv
  BY DEF SaidInv, KnownInv, Unseen
<1> QED
  BY <1>2, <1>4, <1>5 DEF HealthInv

\* Steps of the heartbeat, and of anything that leaves its variables alone.
LEMMA HealthKeeps ==
    ASSUME HealthInv, HealthStep \/ UNCHANGED healthVars
    PROVE  HealthInv'
<1>1. CASE HealthStep
  BY <1>1, HealthTypeStep, OutboxStep, SaidStep, KnownStep DEF HealthInv
<1>2. CASE UNCHANGED healthVars
  BY <1>2 DEF healthVars, HealthInv, HealthTypeOK, OutboxInv, Told, SaidInv, Unannounced,
          KnownInv
<1> QED
  BY <1>1, <1>2
=============================================================================
