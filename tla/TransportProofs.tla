--------------------------- MODULE TransportProofs ---------------------------
(***************************************************************************)
(* The Kafka transport for every value of its constants.                   *)
(*                                                                         *)
(* Outbox, for every number of messages, every queue size and every        *)
(* deadline: data is counted, no control message is lost track of, and     *)
(* messages reach the transport in the order they were published in.       *)
(*                                                                         *)
(* KafkaConsumer, for every set of topics and every number of failures:    *)
(* what is delivered comes in the order it was sent in, no record twice,   *)
(* and a topic that is ready is held by a consumer that is up.             *)
(***************************************************************************)
EXTENDS Outbox, KafkaConsumer, FiniteSetTheorems, FunctionTheorems, SequenceTheorems,
        WellFoundedInduction, TLAPS

-----------------------------------------------------------------------------
(* The outbox *)

\* The messages of a queue, and those of them that are data.
In(q) == {q[i] : i \in 1..Len(q)}
WaitingData == {n \in In(queue) : ~control[n]}

Rising(q) == \A i, j \in 1..Len(q) : i < j => q[i] < q[j]

\* What waits is in the order of publication, behind what is being sent.
QueueInv ==
    /\ Rising(queue)
    /\ sending <= count
    /\ \A n \in In(queue) : sending < n /\ n <= count

\* What the transport has is older than all that waits.
ArrivedInv ==
    \A n \in arrived :
        /\ n <= count
        /\ sending # None => n <= sending
        /\ \A m \in In(queue) : n < m

\* What made room is older than the data that waits.
DroppedInv == \A n \in dropped : n <= count /\ \A m \in WaitingData : n < m

CountInv == data = Cardinality(WaitingData) /\ data <= MaxSize

IInv ==
    TypeOK /\ QueueInv /\ ArrivedInv /\ DroppedInv /\ CountInv /\ ControlIsAccountedFor

-----------------------------------------------------------------------------
(* Numbers, and queues of them *)

\* Every set of numbers has a least one.
LEMMA LeastNumber ==
    ASSUME NEW T \in SUBSET Nat, T # {}
    PROVE  \E x \in T : \A y \in T : x <= y
<1> DEFINE U == {1..x : x \in T}
<1>1. U \subseteq FiniteSubsetsOf(Nat)
  <2> SUFFICES ASSUME NEW x \in T PROVE 1..x \in FiniteSubsetsOf(Nat)  OBVIOUS
  <2>1. IsFiniteSet(1..x)  BY FS_Interval
  <2> QED  BY <2>1 DEF FiniteSubsetsOf
<1>2. PICK u \in U : \A v \in U : <<v, u>> \notin StrictSubsetOrdering(Nat)
  <2>1. IsWellFoundedOn(StrictSubsetOrdering(Nat), FiniteSubsetsOf(Nat))
    BY FS_StrictSubsetOrderingWellFounded
  <2>2. U # {}  OBVIOUS
  <2> HIDE DEF U
  <2>3. \E u \in U : \A v \in U : ~(<<v, u>> \in StrictSubsetOrdering(Nat))
    BY <1>1, <2>1, <2>2, WFMin, Zenon
  <2> QED  BY <2>3
<1>3. PICK x \in T : u = 1..x  OBVIOUS
<1>4. ASSUME NEW y \in T PROVE x <= y
  <2> SUFFICES ASSUME y < x PROVE FALSE  OBVIOUS
  <2>1. 1..y \subseteq 1..x /\ x \in 1..x /\ x \notin 1..y /\ 1..x \subseteq Nat  OBVIOUS
  <2>2. <<1..y, u>> \in StrictSubsetOrdering(Nat)
    BY <1>3, <2>1 DEF StrictSubsetOrdering
  <2> QED  BY <1>2, <2>2
<1> QED  BY <1>4

LEMMA InIds ==
    ASSUME NEW s \in Seq(Ids)
    PROVE  In(s) \subseteq Ids
BY DEF In

\* Messages are numbers, and finitely many.
LEMMA IdsFinite == IsFiniteSet(Ids) /\ Ids \subseteq Nat /\ \A n \in Ids : n # None
BY OutboxAssumption, FS_Interval DEF Ids, None

LEMMA AppendIn ==
    ASSUME NEW s \in Seq(Ids), NEW n \in Ids, Rising(s), \A m \in In(s) : m < n
    PROVE  /\ Append(s, n) \in Seq(Ids)
           /\ In(Append(s, n)) = In(s) \cup {n}
           /\ Rising(Append(s, n))
<1>1. /\ Append(s, n) \in Seq(Ids) /\ Len(s) \in Nat
      /\ Len(Append(s, n)) = Len(s) + 1 /\ Append(s, n)[Len(s) + 1] = n
      /\ \A k \in 1..Len(s) : Append(s, n)[k] = s[k]
  OBVIOUS
<1>2. In(Append(s, n)) = In(s) \cup {n}
  <2>1. ASSUME NEW x \in In(Append(s, n)) PROVE x \in In(s) \cup {n}
    BY <1>1, <2>1 DEF In
  <2>2. ASSUME NEW x \in In(s) \cup {n} PROVE x \in In(Append(s, n))
    <3>1. CASE x = n
      <4>1. Len(s) + 1 \in 1..Len(Append(s, n))  BY <1>1
      <4> QED  BY <1>1, <3>1, <4>1 DEF In
    <3>2. CASE x \in In(s)
      <4>1. PICK k \in 1..Len(s) : x = s[k]  BY <3>2 DEF In
      <4>2. k \in 1..Len(Append(s, n)) /\ Append(s, n)[k] = x  BY <1>1, <4>1
      <4> QED  BY <4>2 DEF In
    <3> QED  BY <3>1, <3>2
  <2> QED  BY <2>1, <2>2
<1>3. Rising(Append(s, n))
  <2> SUFFICES ASSUME NEW i \in 1..(Len(s) + 1), NEW j \in 1..(Len(s) + 1), i < j
               PROVE  Append(s, n)[i] < Append(s, n)[j]
    BY <1>1 DEF Rising
  <2>1. i \in 1..Len(s) /\ Append(s, n)[i] = s[i]  BY <1>1
  <2>2. CASE j = Len(s) + 1
    BY <1>1, <2>1, <2>2 DEF In
  <2>3. CASE j # Len(s) + 1
    <3>1. j \in 1..Len(s)  BY <1>1, <2>3
    <3> QED  BY <1>1, <2>1, <3>1 DEF Rising
  <2> QED  BY <2>2, <2>3
<1> QED  BY <1>1, <1>2, <1>3

\* A queue without one of its messages.
LEMMA RemoveIn ==
    ASSUME NEW s \in Seq(Ids), NEW i \in 1..Len(s), Rising(s)
    PROVE  /\ RemoveAt(s, i) \in Seq(Ids)
           /\ In(RemoveAt(s, i)) = In(s) \ {s[i]}
           /\ Rising(RemoveAt(s, i))
<1> DEFINE r == RemoveAt(s, i)
           a == SubSeq(s, 1, i - 1)
           b == SubSeq(s, i + 1, Len(s))
<1>0. Len(s) \in Nat /\ i \in Nat /\ 1 <= i /\ i <= Len(s)  OBVIOUS
<1>1. /\ a \in Seq(Ids) /\ Len(a) = i - 1
      /\ \A k \in 1..(i - 1) : a[k] = s[k]
  <2>1. \A k \in 1..(i - 1) : s[k] \in Ids  BY <1>0
  <2>2. /\ a \in Seq(Ids) /\ Len(a) = IF 1 <= i - 1 THEN (i - 1) - 1 + 1 ELSE 0
        /\ \A k \in 1..((i - 1) - 1 + 1) : a[k] = s[1 + k - 1]
    BY <1>0, <2>1, SubSeqProperties
  <2> QED  BY <1>0, <2>2
<1>2. /\ b \in Seq(Ids) /\ Len(b) = Len(s) - i
      /\ \A k \in 1..(Len(s) - i) : b[k] = s[i + k]
  <2>1. \A k \in (i + 1)..Len(s) : s[k] \in Ids  BY <1>0
  <2>2. /\ b \in Seq(Ids) /\ Len(b) = IF i + 1 <= Len(s) THEN Len(s) - (i + 1) + 1 ELSE 0
        /\ \A k \in 1..(Len(s) - (i + 1) + 1) : b[k] = s[(i + 1) + k - 1]
    BY <1>0, <2>1, SubSeqProperties
  <2> QED  BY <1>0, <2>2
<1>3. /\ r \in Seq(Ids) /\ Len(r) = Len(s) - 1
      /\ \A k \in 1..(Len(s) - 1) : r[k] = IF k < i THEN s[k] ELSE s[k + 1]
  <2>1. r = a \o b  BY DEF RemoveAt
  <2>2. /\ a \o b \in Seq(Ids) /\ Len(a \o b) = Len(a) + Len(b)
        /\ \A k \in 1..(Len(a) + Len(b)) :
             (a \o b)[k] = IF k <= Len(a) THEN a[k] ELSE b[k - Len(a)]
    BY <1>1, <1>2, ConcatProperties, ZenonT(60)
  <2> HIDE DEF r, a, b
  <2> QED  BY <1>0, <1>1, <1>2, <2>1, <2>2, SMTT(30)
<1> HIDE DEF r
<1>4. Rising(r)
  <2> SUFFICES ASSUME NEW j \in 1..(Len(s) - 1), NEW k \in 1..(Len(s) - 1), j < k
               PROVE  r[j] < r[k]
    BY <1>3 DEF Rising
  <2> QED  BY <1>0, <1>3, SMTT(30) DEF Rising
<1>5. In(r) = In(s) \ {s[i]}
  <2>1. ASSUME NEW x \in In(r) PROVE x \in In(s) \ {s[i]}
    <3>1. PICK k \in 1..(Len(s) - 1) : x = r[k]  BY <1>3 DEF In
    <3>2. PICK j \in 1..Len(s) : x = s[j] /\ j # i
      <4>1. CASE k < i  BY <1>0, <1>3, <3>1, <4>1
      <4>2. CASE ~(k < i)  BY <1>0, <1>3, <3>1, <4>2
      <4> QED  BY <4>1, <4>2
    <3>3. s[j] # s[i]
      <4>1. s[i] \in Nat /\ s[j] \in Nat
        <5>1. s[i] \in Ids /\ s[j] \in Ids  OBVIOUS
        <5> QED  BY <5>1, IdsFinite
      <4>2. i < j \/ j < i  BY <3>2
      <4> QED  BY <4>1, <4>2 DEF Rising
    <3> QED  BY <3>2, <3>3 DEF In
  <2>2. ASSUME NEW x \in In(s), x # s[i] PROVE x \in In(r)
    <3>1. PICK j \in 1..Len(s) : x = s[j]  BY DEF In
    <3>2. CASE j < i
      <4>1. j \in 1..Len(r) /\ r[j] = x  BY <1>0, <1>3, <3>1, <3>2
      <4> QED  BY <4>1 DEF In
    <3>3. CASE ~(j < i)
      <4>1. j - 1 \in 1..Len(r) /\ r[j - 1] = x  BY <1>0, <1>3, <2>2, <3>1, <3>3
      <4> QED  BY <4>1 DEF In
    <3> QED  BY <3>2, <3>3
  <2> QED  BY <2>1, <2>2
<1> QED  BY <1>3, <1>4, <1>5 DEF r

\* The head of a queue, and the rest.
LEMMA TailIn ==
    ASSUME NEW s \in Seq(Ids), s # <<>>, Rising(s)
    PROVE  /\ Head(s) \in In(s) /\ Head(s) \in Ids /\ Tail(s) \in Seq(Ids)
           /\ In(Tail(s)) = In(s) \ {Head(s)}
           /\ Rising(Tail(s))
           /\ \A m \in In(Tail(s)) : Head(s) < m
<1>1. /\ Len(s) \in Nat /\ Len(s) >= 1 /\ Head(s) = s[1] /\ Tail(s) \in Seq(Ids)
      /\ Len(Tail(s)) = Len(s) - 1
      /\ \A k \in 1..(Len(s) - 1) : Tail(s)[k] = s[k + 1]
  OBVIOUS
<1>2. Head(s) \in In(s) /\ Head(s) \in Ids  BY <1>1 DEF In
<1>3. Rising(Tail(s))  BY <1>1 DEF Rising
<1>4. ASSUME NEW m \in In(Tail(s)) PROVE Head(s) < m /\ m \in In(s)
  <2>1. PICK k \in 1..(Len(s) - 1) : m = s[k + 1]  BY <1>1 DEF In
  <2>2. 1 \in 1..Len(s) /\ k + 1 \in 1..Len(s) /\ 1 < k + 1  BY <1>1
  <2> QED  BY <1>1, <2>1, <2>2 DEF Rising, In
<1>5. ASSUME NEW m \in In(s), m # Head(s) PROVE m \in In(Tail(s))
  <2>1. PICK k \in 1..Len(s) : m = s[k]  BY DEF In
  <2>2. k - 1 \in 1..Len(Tail(s)) /\ Tail(s)[k - 1] = m  BY <1>1, <1>5, <2>1
  <2> QED  BY <2>2 DEF In
<1>6. Head(s) \notin In(Tail(s))
  <2> SUFFICES ASSUME Head(s) \in In(Tail(s)) PROVE FALSE  OBVIOUS
  <2>1. Head(s) < Head(s) /\ Head(s) \in Nat  BY <1>2, <1>4 DEF Ids
  <2> QED  BY <2>1
<1> QED  BY <1>1, <1>2, <1>3, <1>4, <1>5, <1>6

\* Counting places of data in the queue is counting the data in it.
LEMMA PlacesAreMessages ==
    ASSUME TypeOK, QueueInv
    PROVE  /\ IsFiniteSet(WaitingData)
           /\ Cardinality(DataAt(queue)) = Cardinality(WaitingData)
<1>1. queue \in Seq(Ids) /\ Len(queue) \in Nat /\ Rising(queue)  BY DEF TypeOK, QueueInv
<1>2. IsFiniteSet(DataAt(queue))
  <2>1. IsFiniteSet(1..Len(queue))  BY <1>1, FS_Interval
  <2>2. DataAt(queue) \in SUBSET (1..Len(queue))  BY DEF DataAt
  <2> QED  BY <2>1, <2>2, FS_Subset
<1> DEFINE f == [i \in DataAt(queue) |-> queue[i]]
<1>3. f \in Bijection(DataAt(queue), WaitingData)
  <2>1. f \in [DataAt(queue) -> WaitingData]  BY DEF DataAt, WaitingData, In
  <2>2. ASSUME NEW i \in DataAt(queue), NEW j \in DataAt(queue), f[i] = f[j] PROVE i = j
    <3>1. i \in 1..Len(queue) /\ j \in 1..Len(queue) /\ queue[i] = queue[j]
      BY <2>2 DEF DataAt
    <3>2. queue[i] \in Nat /\ queue[j] \in Nat
      <4>1. queue[i] \in Ids /\ queue[j] \in Ids  BY <1>1, <3>1
      <4> QED  BY <4>1, IdsFinite
    <3>3. ~(i < j) /\ ~(j < i)  BY <1>1, <3>1, <3>2 DEF Rising
    <3> QED  BY <3>1, <3>3
  <2>3. ASSUME NEW n \in WaitingData PROVE \E i \in DataAt(queue) : f[i] = n
    <3>1. PICK i \in 1..Len(queue) : n = queue[i]  BY DEF WaitingData, In
    <3>2. i \in DataAt(queue)  BY <3>1 DEF DataAt, WaitingData
    <3> QED  BY <3>1, <3>2
  <2> QED  BY <2>1, <2>2, <2>3, Fun_IsBij
<1>4. ExistsBijection(DataAt(queue), WaitingData)  BY <1>3 DEF ExistsBijection
<1>5. /\ IsFiniteSet(WaitingData)
      /\ Cardinality(WaitingData) = Cardinality(DataAt(queue))
  BY <1>2, <1>4, FS_Bijection
<1> QED  BY <1>5

-----------------------------------------------------------------------------
(* What the queue is after a message has come, or has been taken *)

\* What publishing queues: the message, and the report of a drop in front of it.
New == {count + 1, count'}

\* A message is queued behind the others, in its own room or in that of `old`.
Admitted(c) ==
    /\ In(queue') = In(queue) \cup New /\ dropped' = dropped
    /\ count' = count + 1
    /\ data' = data + IF c THEN 0 ELSE 1
    /\ c \/ data < MaxSize

Displacing(old, c) ==
    /\ ~c /\ old \in WaitingData /\ \A m \in WaitingData : old <= m
    /\ In(queue') = (In(queue) \ {old}) \cup New
    /\ dropped' = dropped \cup {old} /\ data' = data

LEMMA PublishFacts ==
    ASSUME TypeOK, QueueInv, CountInv, NEW c \in BOOLEAN, Publish(c)
    PROVE  /\ count' \in Ids /\ count' \in 0..MaxMessages /\ count \in Nat /\ count' \in Nat
           /\ count' = count + 1 \/ count' = count + 2
           /\ count < count' /\ \A n \in New : n \in Ids /\ n \in Nat /\ count < n /\ n <= count'
           /\ In(queue') \subseteq In(queue) \cup New
           /\ queue' \in Seq(Ids) /\ Rising(queue')
           /\ control' = [control EXCEPT ![count + 1] = TRUE, ![count'] = c]
           /\ Admitted(c) \/ \E old \in WaitingData : Displacing(old, c)
<1> DEFINE e == count + 1
           n == count'
           i == DropOldestData(queue)
<1>1. /\ n \in Ids /\ n \in 0..MaxMessages /\ e \in Ids /\ count \in Nat
      /\ n \in Nat /\ e \in Nat /\ (n = e \/ n = e + 1)
  BY OutboxAssumption DEF TypeOK, Publish, Ids
<1>2a. count < n /\ \A m \in New : m \in Ids /\ m \in Nat /\ count < m /\ m <= n
  BY <1>1 DEF New
<1>2. queue \in Seq(Ids) /\ Len(queue) \in Nat /\ Rising(queue) /\ \A m \in In(queue) : m < e
  <2>1. In(queue) \subseteq Nat  BY InIds, IdsFinite DEF TypeOK
  <2> QED  BY <1>1, <2>1 DEF TypeOK, QueueInv
<1>3. control' = [control EXCEPT ![e] = TRUE, ![n] = c]  BY DEF Publish
<1>4. CASE ~(~c /\ data >= MaxSize)
  <2>1. /\ queue' = Append(queue, e) /\ dropped' = dropped /\ data' = data + IF c THEN 0 ELSE 1
        /\ n = e
    BY <1>4 DEF Publish
  <2>2. queue' \in Seq(Ids) /\ In(queue') = In(queue) \cup {e} /\ Rising(queue')
    BY <1>1, <1>2, <2>1, AppendIn
  <2>3. c \/ data < MaxSize  BY <1>4, OutboxAssumption DEF TypeOK
  <2>4. Admitted(c)  BY <2>1, <2>2, <2>3 DEF Admitted, New
  <2> QED  BY <1>1, <1>2a, <1>3, <2>2, <2>4, Zenon DEF Admitted
<1>5. CASE ~c /\ data >= MaxSize
  <2> DEFINE room == RemoveAt(queue, i)
  <2>1. /\ queue' = Append(IF n = e THEN room ELSE Append(room, e), n)
        /\ dropped' = dropped \cup {queue[i]} /\ data' = data
    BY <1>1, <1>5, SMTT(30) DEF Publish, ReportsDrops, TypeOK
  <2>2. DataAt(queue) # {}
    <3>1. Cardinality(DataAt(queue)) = data  BY PlacesAreMessages DEF CountInv
    <3>2. data # 0  BY <1>5, OutboxAssumption
    <3> QED  BY <3>1, <3>2, FS_EmptySet
  <2>3. DataAt(queue) \in SUBSET Nat  BY <1>2 DEF DataAt
  <2>4. \E k \in DataAt(queue) : \A l \in DataAt(queue) : k <= l  BY <2>2, <2>3, LeastNumber
  <2>5. i \in DataAt(queue) /\ \A l \in DataAt(queue) : i <= l
    BY <2>4, Zenon DEF DropOldestData
  <2> DEFINE old == queue[i]
  <2>6. i \in 1..Len(queue) /\ ~control[old]  BY <2>5 DEF DataAt
  <2>7. old \in WaitingData  BY <2>6 DEF WaitingData, In
  <2>8. ASSUME NEW m \in WaitingData PROVE old <= m
    <3>1. PICK l \in 1..Len(queue) : m = queue[l]  BY DEF WaitingData, In
    <3>2. l \in DataAt(queue)  BY <3>1 DEF WaitingData, DataAt
    <3>3. i = l \/ i < l  BY <1>2, <2>5, <2>6, <3>2
    <3>4. old \in Nat /\ m \in Nat
      <4>1. old \in Ids /\ m \in Ids  BY <1>2, <2>6, <3>1
      <4> QED  BY <4>1, IdsFinite
    <3>5. i = l => old = m  BY <3>1
    <3>6. i < l => old < m  BY <1>2, <2>6, <3>1 DEF Rising
    <3> QED  BY <3>3, <3>4, <3>5, <3>6
  <2>9. room \in Seq(Ids) /\ Rising(room) /\ In(room) = In(queue) \ {old}
    BY <1>2, <2>6, RemoveIn
  <2>10. \A m \in In(room) : m < e  BY <1>2, <2>9
  <2>11. /\ queue' \in Seq(Ids) /\ Rising(queue')
         /\ In(queue') = (In(queue) \ {old}) \cup {e, n}
    <3> HIDE DEF room, e, n
    <3>1. CASE n = e
      <4>1. queue' = Append(room, n)  BY <2>1, <3>1
      <4>2. queue' \in Seq(Ids) /\ Rising(queue') /\ In(queue') = In(room) \cup {n}
        BY <1>1, <2>9, <2>10, <3>1, <4>1, AppendIn
      <4> QED  BY <2>9, <3>1, <4>2
    <3>2. CASE n # e
      <4> DEFINE s == Append(room, e)
      <4>1. s \in Seq(Ids) /\ Rising(s) /\ In(s) = In(room) \cup {e}
        BY <1>1, <2>9, <2>10, AppendIn
      <4>3. queue' = Append(s, n)  BY <2>1, <3>2
      <4> HIDE DEF s
      <4>2. ASSUME NEW m \in In(s) PROVE m < n
        <5>1. In(room) \subseteq Ids /\ Ids \subseteq Nat  BY <2>9, InIds, IdsFinite
        <5>2. n = e + 1 /\ e \in Nat  BY <1>1, <3>2
        <5>3. CASE m = e  BY <5>2, <5>3
        <5>4. CASE m \in In(room)
          <6>1. m < e /\ m \in Nat  BY <2>10, <5>1, <5>4
          <6> QED  BY <5>2, <6>1
        <5> QED  BY <4>1, <5>3, <5>4
      <4>4. queue' \in Seq(Ids) /\ Rising(queue') /\ In(queue') = In(s) \cup {n}
        BY <1>1, <4>1, <4>2, <4>3, AppendIn
      <4> QED  BY <2>9, <4>1, <4>4
    <3> QED  BY <3>1, <3>2
  <2>12. Displacing(old, c)
    BY <1>1, <1>5, <2>1, <2>7, <2>8, <2>11 DEF Displacing, New
  <2>13. In(queue') \subseteq In(queue) \cup New  BY <2>12 DEF Displacing
  <2>14. \E x \in WaitingData : Displacing(x, c)
    <3> HIDE DEF old
    <3> QED  BY <2>7, <2>12
  <2>15. queue' \in Seq(Ids) /\ Rising(queue')  BY <2>11
  <2> QED  BY <1>1, <1>2a, <1>3, <2>13, <2>14, <2>15
<1> QED  BY <1>4, <1>5

\* The data that waits, after a message came.
LEMMA PublishData ==
    ASSUME TypeOK, QueueInv, CountInv, NEW c \in BOOLEAN, Publish(c)
    PROVE  /\ Admitted(c) => WaitingData' = WaitingData \cup (IF c THEN {} ELSE {count'})
           /\ \A old \in WaitingData : Displacing(old, c) =>
                 WaitingData' = (WaitingData \ {old}) \cup {count'}
<1>1. /\ count' \in Ids /\ count \in Nat /\ count' \in Nat
      /\ \A n \in New : n \in Ids /\ n \in Nat /\ count < n /\ n <= count'
      /\ count' = count + 1 \/ count' = count + 2
      /\ control' = [control EXCEPT ![count + 1] = TRUE, ![count'] = c]
  BY PublishFacts
<1>2. In(queue) \subseteq Ids /\ In(queue) \cap New = {}
  <2>1. In(queue) \subseteq Ids /\ Ids \subseteq Nat  BY InIds, IdsFinite DEF TypeOK
  <2> QED  BY <1>1, <2>1 DEF QueueInv
<1>3. \A m \in In(queue) : control'[m] = control[m]  BY <1>1, <1>2 DEF TypeOK, New
<1>4. control'[count'] = c /\ (count + 1 # count' => control'[count + 1])
  BY <1>1 DEF TypeOK, New
<1>5. WaitingData' = {m \in In(queue') : ~control'[m]}  BY DEF WaitingData, In
<1>6. ASSUME Admitted(c) PROVE WaitingData' = WaitingData \cup (IF c THEN {} ELSE {count'})
  BY <1>3, <1>4, <1>5, <1>6 DEF Admitted, WaitingData, New
<1>7. ASSUME NEW old \in WaitingData, Displacing(old, c)
      PROVE  WaitingData' = (WaitingData \ {old}) \cup {count'}
  BY <1>3, <1>4, <1>5, <1>7 DEF Displacing, WaitingData, New
<1> QED  BY <1>6, <1>7

\* The oldest message is taken from the queue.
LEMMA TakeFacts ==
    ASSUME TypeOK, QueueInv, Take
    PROVE  LET n == Head(queue)
           IN  /\ n \in Ids /\ n \in In(queue) /\ queue' \in Seq(Ids) /\ Rising(queue')
               /\ In(queue') = In(queue) \ {n} /\ \A m \in In(queue') : n < m
               /\ WaitingData' = IF control[n] THEN WaitingData ELSE WaitingData \ {n}
               /\ n \in WaitingData <=> ~control[n]
<1> DEFINE n == Head(queue)
<1>1. queue \in Seq(Ids) /\ queue # <<>> /\ Rising(queue) /\ queue' = Tail(queue) /\ control' = control
  BY DEF TypeOK, QueueInv, Take
<1>2. /\ n \in Ids /\ n \in In(queue) /\ queue' \in Seq(Ids) /\ Rising(queue')
      /\ In(queue') = In(queue) \ {n} /\ \A m \in In(queue') : n < m
  BY <1>1, TailIn
<1>3. WaitingData' = {m \in In(queue') : ~control[m]}  BY <1>1 DEF WaitingData, In
<1>4. WaitingData' = IF control[n] THEN WaitingData ELSE WaitingData \ {n}
  BY <1>2, <1>3 DEF WaitingData
<1>5. n \in WaitingData <=> ~control[n]  BY <1>2 DEF WaitingData
<1> HIDE DEF n
<1> QED  BY <1>2, <1>4, <1>5 DEF n
-----------------------------------------------------------------------------
(* The invariant *)

LEMMA InitHolds == Init => IInv
<1> SUFFICES ASSUME Init PROVE IInv  OBVIOUS
<1> USE DEF Init, None
<1>1. TypeOK
  <2>1. queue \in Seq(Ids) /\ wait \in Nat /\ count \in 0..MaxMessages  BY OutboxAssumption
  <2>2. control \in [Ids -> BOOLEAN] /\ left \in [Ids -> 0..Deadline] /\ asleep \in 0..Deadline
    BY OutboxAssumption
  <2> QED  BY <2>1, <2>2, OutboxAssumption DEF TypeOK
<1>2. In(queue) = {} /\ WaitingData = {}  BY DEF In, WaitingData
<1>3. QueueInv  BY <1>2 DEF QueueInv, Rising
<1>4. ArrivedInv /\ DroppedInv  BY DEF ArrivedInv, DroppedInv
<1>5. CountInv  BY <1>2, FS_EmptySet, OutboxAssumption DEF CountInv
<1>6. ControlIsAccountedFor  BY DEF ControlIsAccountedFor
<1> QED  BY <1>1, <1>3, <1>4, <1>5, <1>6 DEF IInv

\* One data message fewer is no less than none.
LEMMA TakeCounts ==
    ASSUME TypeOK, QueueInv, CountInv, Take
    PROVE  data' \in Nat /\ data' = Cardinality(WaitingData') /\ data' <= MaxSize
<1> DEFINE n == Head(queue)
<1>1. /\ WaitingData' = IF control[n] THEN WaitingData ELSE WaitingData \ {n}
      /\ n \in WaitingData <=> ~control[n]
  BY TakeFacts
<1>2. IsFiniteSet(WaitingData) /\ data = Cardinality(WaitingData) /\ data \in Nat /\ data <= MaxSize
  BY PlacesAreMessages DEF CountInv, TypeOK
<1>3. data' = data - IF control[n] THEN 0 ELSE 1  BY DEF Take
<1> HIDE DEF n
<1>4. CASE control[n]  BY <1>1, <1>2, <1>3, <1>4
<1>5. CASE ~control[n]
  <2>1. Cardinality(WaitingData \ {n}) = data - 1 /\ data # 0
    BY <1>1, <1>2, <1>5, FS_RemoveElement, FS_EmptySet
  <2> QED  BY <1>1, <1>2, <1>3, <1>5, <2>1, OutboxAssumption
<1> QED  BY <1>4, <1>5

\* A step keeps every variable in its type.
LEMMA TypeStep == TypeOK /\ QueueInv /\ CountInv /\ [Next]_vars => TypeOK'
<1> SUFFICES ASSUME TypeOK, QueueInv, CountInv, [Next]_vars PROVE TypeOK'  OBVIOUS
<1> USE DEF queueVars, sendVars, closeVars, fates, None
<1>1. ASSUME NEW c \in BOOLEAN, Publish(c) PROVE TypeOK'
  <2>1. count' \in Ids /\ count' \in 0..MaxMessages /\ queue' \in Seq(Ids)
    BY <1>1, PublishFacts
  <2>2. /\ control' \in [Ids -> BOOLEAN] /\ left' \in [Ids -> 0..Deadline]
        /\ data' \in Nat /\ reportIn' \in 0..ReportEvery
    <3>1. data \in Nat /\ data' = data + IF c \/ (~c /\ data >= MaxSize) THEN 0 ELSE 1
      BY <1>1 DEF Publish, TypeOK
    <3>2. data' \in Nat  BY <3>1
    <3>3. control \in [Ids -> BOOLEAN]  BY DEF TypeOK
    <3>4. control' = [control EXCEPT ![count + 1] = TRUE, ![count'] = c]  BY <1>1, PublishFacts
    <3>5. control' \in [Ids -> BOOLEAN]  BY <3>3, <3>4, Zenon
    <3>6. /\ left' = [left EXCEPT ![count + 1] = Deadline, ![count'] = IF c THEN Deadline ELSE 0]
          /\ left \in [Ids -> 0..Deadline]
      BY <1>1 DEF Publish, TypeOK
    <3>7. left' \in [Ids -> 0..Deadline]
      <4>1. (IF c THEN Deadline ELSE 0) \in 0..Deadline /\ Deadline \in 0..Deadline
        BY OutboxAssumption
      <4> QED  BY <3>6, <4>1
    <3>8. reportIn' \in 0..ReportEvery  BY <1>1, OutboxAssumption DEF Publish, TypeOK
    <3> QED  BY <3>2, <3>5, <3>7, <3>8
  <2>3. dropped' \in SUBSET Ids
    <3>1. WaitingData \subseteq Ids  BY InIds DEF TypeOK, WaitingData
    <3> QED  BY <1>1, <3>1, PublishFacts DEF Admitted, Displacing, TypeOK
  <2> QED  BY <1>1, <2>1, <2>2, <2>3 DEF Publish, TypeOK
<1>2. CASE Take
  <2>1. Head(queue) \in Ids /\ queue' \in Seq(Ids) /\ Head(queue) # 0
    BY <1>2, TakeFacts, IdsFinite
  <2>2. data' \in Nat /\ wait' \in Nat  BY <1>2, TakeCounts, OutboxAssumption DEF Take
  <2> QED  BY <1>2, <2>1, <2>2 DEF Take, TypeOK
<1>3. CASE Start
  BY <1>3 DEF Start, TypeOK
<1>4. CASE Taken
  <2>1. sending \in Ids  BY <1>4, IdsFinite DEF Taken, TypeOK
  <2>2. left' \in [Ids -> 0..Deadline]
    BY <1>4, OutboxAssumption DEF Taken, Settled, TypeOK
  <2> QED  BY <1>4, <2>1, <2>2 DEF Taken, TypeOK
<1>5. ASSUME NEW unanswered \in BOOLEAN, Refused(unanswered) PROVE TypeOK'
  <2>1. sending \in Ids  BY <1>5, IdsFinite DEF Refused, TypeOK
  <2>2. wait' \in Nat /\ asleep' \in 0..Deadline
    BY <1>5, <2>1, OutboxAssumption DEF Refused, TypeOK, Smaller
  <2> QED  BY <1>5, <2>1, <2>2 DEF Refused, TypeOK
<1>6. CASE BackedOff
  BY <1>6 DEF BackedOff, TypeOK
<1>7. CASE Close
  BY <1>7, OutboxAssumption DEF Close, TypeOK
<1>8. ASSUME NEW reached \in BOOLEAN, TaskCancelled(reached) PROVE TypeOK'
  <2>1. left' = [left EXCEPT ![sending] = 0]  BY <1>8 DEF TaskCancelled, Settled
  <2>2. left \in [Ids -> 0..Deadline] /\ 0 \in 0..Deadline  BY OutboxAssumption DEF TypeOK
  <2>3. left' \in [Ids -> 0..Deadline]  BY <2>1, <2>2, Zenon
  <2> QED  BY <1>8, <2>3, OutboxAssumption DEF TaskCancelled, TypeOK
<1>9. CASE Flushed
  BY <1>9 DEF Flushed, TypeOK
<1>10. CASE FlushTimeout
  <2>1. left' = [left EXCEPT ![sending] = 0]  BY <1>10 DEF FlushTimeout, Settled
  <2>2. left \in [Ids -> 0..Deadline] /\ 0 \in 0..Deadline  BY OutboxAssumption DEF TypeOK
  <2>3. left' \in [Ids -> 0..Deadline]  BY <2>1, <2>2, Zenon
  <2> QED  BY <1>10, <2>3, OutboxAssumption DEF FlushTimeout, TypeOK
<1>11. CASE Tick
  BY <1>11, OutboxAssumption DEF Tick, TypeOK
<1>12. CASE Terminated
  BY <1>12 DEF Terminated, vars, TypeOK
<1>13. CASE UNCHANGED vars
  BY <1>13 DEF vars, TypeOK
<1> QED
  BY <1>1, <1>2, <1>3, <1>4, <1>5, <1>6, <1>7, <1>8, <1>9,
     <1>10, <1>11, <1>12, <1>13
     DEF Next, SendStep, CloseStep

\* What waits stays in order, behind what is being sent.
LEMMA QueueStep == TypeOK /\ QueueInv /\ CountInv /\ [Next]_vars => QueueInv'
<1> SUFFICES ASSUME TypeOK, QueueInv, CountInv, [Next]_vars PROVE QueueInv'  OBVIOUS
<1> USE DEF queueVars, sendVars, closeVars, fates, None
<1>1. ASSUME NEW c \in BOOLEAN, Publish(c) PROVE QueueInv'
  <2>1. /\ count' \in Nat /\ count \in Nat /\ count < count' /\ Rising(queue')
        /\ In(queue') \subseteq In(queue) \cup New
        /\ \A n \in New : n \in Nat /\ count < n /\ n <= count'
    BY <1>1, PublishFacts
  <2>2. sending' = sending /\ sending <= count /\ sending \in Nat
    BY <1>1, IdsFinite DEF Publish, QueueInv, TypeOK
  <2>3. ASSUME NEW n \in In(queue') PROVE sending' < n /\ n <= count'
    <3>1. In(queue) \subseteq Nat  BY InIds, IdsFinite DEF TypeOK
    <3> QED  BY <2>1, <2>2, <3>1 DEF QueueInv
  <2>4. sending' <= count'  BY <2>1, <2>2
  <2> QED  BY <2>1, <2>3, <2>4 DEF QueueInv
<1>2. CASE Take
  <2>1. /\ Head(queue) \in Ids /\ Head(queue) \in In(queue) /\ Rising(queue')
        /\ In(queue') \subseteq In(queue) /\ \A m \in In(queue') : Head(queue) < m
    BY <1>2, TakeFacts
  <2>2. /\ sending' = Head(queue) \/ sending' = 0
        /\ count' = count /\ count \in Nat
    BY <1>2, OutboxAssumption DEF Take, TypeOK
  <2>3. In(queue') \subseteq Ids /\ \A m \in Ids : 0 < m
    BY <2>1, InIds, OutboxAssumption DEF TypeOK, Ids
  <2> QED  BY <2>1, <2>2, <2>3 DEF QueueInv
<1>3. CASE Start
  BY <1>3 DEF Start, QueueInv, TypeOK
<1>4. CASE Taken
  <2>1. \A n \in In(queue) : 0 < n
    BY InIds, OutboxAssumption DEF TypeOK, Ids
  <2> QED  BY <1>4, <2>1, OutboxAssumption DEF Taken, QueueInv, TypeOK
<1>5. ASSUME NEW unanswered \in BOOLEAN, Refused(unanswered) PROVE QueueInv'
  <2>1. \A n \in In(queue) : 0 < n
    BY InIds, OutboxAssumption DEF TypeOK, Ids
  <2> QED  BY <1>5, <2>1, OutboxAssumption DEF Refused, QueueInv, TypeOK
<1>6. CASE BackedOff
  <2>1. \A n \in In(queue) : 0 < n
    BY InIds, OutboxAssumption DEF TypeOK, Ids
  <2> QED  BY <1>6, <2>1, OutboxAssumption DEF BackedOff, QueueInv, TypeOK
<1>7. CASE Close
  BY <1>7 DEF Close, QueueInv, TypeOK
<1>8. ASSUME NEW reached \in BOOLEAN, TaskCancelled(reached) PROVE QueueInv'
  <2>1. \A n \in In(queue) : 0 < n
    BY InIds, OutboxAssumption DEF TypeOK, Ids
  <2> QED  BY <1>8, <2>1, OutboxAssumption DEF TaskCancelled, QueueInv, TypeOK
<1>9. CASE Flushed
  BY <1>9 DEF Flushed, QueueInv, TypeOK
<1>10. CASE FlushTimeout
  <2>1. \A n \in In(queue) : 0 < n
    BY InIds, OutboxAssumption DEF TypeOK, Ids
  <2> QED  BY <1>10, <2>1, OutboxAssumption DEF FlushTimeout, QueueInv, TypeOK
<1>11. CASE Tick
  BY <1>11 DEF Tick, QueueInv, TypeOK
<1>12. CASE Terminated
  BY <1>12 DEF Terminated, vars, QueueInv, TypeOK
<1>13. CASE UNCHANGED vars
  BY <1>13 DEF vars, QueueInv, TypeOK
<1> QED
  BY <1>1, <1>2, <1>3, <1>4, <1>5, <1>6, <1>7, <1>8, <1>9,
     <1>10, <1>11, <1>12, <1>13
     DEF Next, SendStep, CloseStep

\* What has arrived is older than what has not.
LEMMA ArrivedStep == TypeOK /\ QueueInv /\ CountInv /\ ArrivedInv /\ [Next]_vars => ArrivedInv'
<1> SUFFICES ASSUME TypeOK, QueueInv, CountInv, ArrivedInv, [Next]_vars PROVE ArrivedInv'  OBVIOUS
<1> USE DEF queueVars, sendVars, closeVars, fates, None
<1>1. ASSUME NEW c \in BOOLEAN, Publish(c) PROVE ArrivedInv'
  <2>1. /\ count' \in Nat /\ count \in Nat /\ count < count'
        /\ In(queue') \subseteq In(queue) \cup New
        /\ \A n \in New : n \in Nat /\ count < n
    BY <1>1, PublishFacts
  <2>2. arrived' = arrived /\ sending' = sending /\ arrived \subseteq Nat
    BY <1>1, IdsFinite DEF Publish, TypeOK
  <2> QED  BY <2>1, <2>2 DEF ArrivedInv
<1>2. CASE Take
  <2>1. /\ Head(queue) \in In(queue) /\ Head(queue) \in Nat
        /\ In(queue') \subseteq In(queue)
    BY <1>2, TakeFacts, IdsFinite
  <2>2. arrived' = arrived /\ count' = count /\ arrived \subseteq Nat /\ sending' \in {0, Head(queue)}
    BY <1>2, IdsFinite DEF Take, TypeOK
  <2> QED  BY <2>1, <2>2 DEF ArrivedInv
<1>3. CASE Start
  BY <1>3 DEF Start, ArrivedInv
<1>4. CASE Taken
  <2>1. sending # 0 => /\ sending <= count /\ sending \in Nat
                       /\ \A m \in In(queue) : sending < m
    BY IdsFinite DEF QueueInv, TypeOK
  <2> QED  BY <1>4, <2>1 DEF Taken, ArrivedInv, TypeOK
<1>5. ASSUME NEW unanswered \in BOOLEAN, Refused(unanswered) PROVE ArrivedInv'
  <2>1. sending # 0 => /\ sending <= count /\ sending \in Nat
                       /\ \A m \in In(queue) : sending < m
    BY IdsFinite DEF QueueInv, TypeOK
  <2> QED  BY <1>5, <2>1 DEF Refused, ArrivedInv, TypeOK
<1>6. CASE BackedOff
  BY <1>6 DEF BackedOff, ArrivedInv
<1>7. CASE Close
  BY <1>7 DEF Close, ArrivedInv
<1>8. ASSUME NEW reached \in BOOLEAN, TaskCancelled(reached) PROVE ArrivedInv'
  <2>1. sending # 0 => /\ sending <= count /\ sending \in Nat
                       /\ \A m \in In(queue) : sending < m
    BY IdsFinite DEF QueueInv, TypeOK
  <2> QED  BY <1>8, <2>1 DEF TaskCancelled, ArrivedInv, TypeOK
<1>9. CASE Flushed
  BY <1>9 DEF Flushed, ArrivedInv
<1>10. CASE FlushTimeout
  BY <1>10 DEF FlushTimeout, ArrivedInv
<1>11. CASE Tick
  BY <1>11 DEF Tick, ArrivedInv
<1>12. CASE Terminated
  BY <1>12 DEF Terminated, vars, ArrivedInv
<1>13. CASE UNCHANGED vars
  BY <1>13 DEF vars, ArrivedInv
<1> QED
  BY <1>1, <1>2, <1>3, <1>4, <1>5, <1>6, <1>7, <1>8, <1>9,
     <1>10, <1>11, <1>12, <1>13
     DEF Next, SendStep, CloseStep

\* What gave way is older than the data that waits.
LEMMA DroppedStep == TypeOK /\ QueueInv /\ CountInv /\ DroppedInv /\ [Next]_vars => DroppedInv'
<1> SUFFICES ASSUME TypeOK, QueueInv, CountInv, DroppedInv, [Next]_vars PROVE DroppedInv'  OBVIOUS
<1> USE DEF queueVars, sendVars, closeVars, fates, None
<1>1. ASSUME NEW c \in BOOLEAN, Publish(c) PROVE DroppedInv'
  <2>1. /\ count' \in Nat /\ count \in Nat /\ count < count'
        /\ Admitted(c) \/ \E old \in WaitingData : Displacing(old, c)
    BY <1>1, PublishFacts
  <2>2. WaitingData \subseteq Nat /\ dropped \subseteq Nat
    BY InIds, IdsFinite DEF TypeOK, WaitingData
  <2>3. CASE Admitted(c)
    <3>1. WaitingData' \subseteq WaitingData \cup {count'} /\ dropped' = dropped
      BY <1>1, <2>3, PublishData DEF Admitted
    <3> QED  BY <2>1, <2>2, <3>1 DEF DroppedInv
  <2>4. ASSUME NEW old \in WaitingData, Displacing(old, c) PROVE DroppedInv'
    <3>1. WaitingData' = (WaitingData \ {old}) \cup {count'} /\ dropped' = dropped \cup {old}
      BY <1>1, <2>4, PublishData DEF Displacing
    <3>2. \A m \in WaitingData : old <= m  BY <2>4 DEF Displacing
    <3>3. old <= count  BY DEF QueueInv, WaitingData
    <3> QED  BY <2>1, <2>2, <3>1, <3>2, <3>3 DEF DroppedInv
  <2> QED  BY <2>1, <2>3, <2>4
<1>2. CASE Take
  <2>1. WaitingData' \subseteq WaitingData  BY <1>2, TakeFacts
  <2> QED  BY <1>2, <2>1 DEF Take, DroppedInv
<1>3. CASE Start
  BY <1>3 DEF Start, DroppedInv, WaitingData
<1>4. CASE Taken
  BY <1>4 DEF Taken, DroppedInv, WaitingData
<1>5. ASSUME NEW unanswered \in BOOLEAN, Refused(unanswered) PROVE DroppedInv'
  BY <1>5 DEF Refused, DroppedInv, WaitingData
<1>6. CASE BackedOff
  BY <1>6 DEF BackedOff, DroppedInv, WaitingData
<1>7. CASE Close
  BY <1>7 DEF Close, DroppedInv, WaitingData
<1>8. ASSUME NEW reached \in BOOLEAN, TaskCancelled(reached) PROVE DroppedInv'
  BY <1>8 DEF TaskCancelled, DroppedInv, WaitingData
<1>9. CASE Flushed
  BY <1>9 DEF Flushed, DroppedInv, WaitingData
<1>10. CASE FlushTimeout
  BY <1>10 DEF FlushTimeout, DroppedInv, WaitingData
<1>11. CASE Tick
  BY <1>11 DEF Tick, DroppedInv, WaitingData
<1>12. CASE Terminated
  BY <1>12 DEF Terminated, vars, DroppedInv, WaitingData
<1>13. CASE UNCHANGED vars
  BY <1>13 DEF vars, DroppedInv, WaitingData
<1> QED
  BY <1>1, <1>2, <1>3, <1>4, <1>5, <1>6, <1>7, <1>8, <1>9,
     <1>10, <1>11, <1>12, <1>13
     DEF Next, SendStep, CloseStep

\* Data is counted, and bounded.
LEMMA CountStep == TypeOK /\ QueueInv /\ CountInv /\ [Next]_vars => CountInv'
<1> SUFFICES ASSUME TypeOK, QueueInv, CountInv, [Next]_vars PROVE CountInv'  OBVIOUS
<1> USE DEF queueVars, sendVars, closeVars, fates, None
<1>1. ASSUME NEW c \in BOOLEAN, Publish(c) PROVE CountInv'
  <2>1. /\ count' \in Nat /\ count \in Nat /\ count < count'
        /\ Admitted(c) \/ \E old \in WaitingData : Displacing(old, c)
    BY <1>1, PublishFacts
  <2>2. IsFiniteSet(WaitingData) /\ data = Cardinality(WaitingData) /\ data \in Nat /\ data <= MaxSize
    BY PlacesAreMessages DEF CountInv, TypeOK
  <2>3. count' \notin WaitingData
    <3>1. WaitingData \subseteq Nat /\ \A m \in WaitingData : m <= count
      BY InIds, IdsFinite DEF TypeOK, QueueInv, WaitingData
    <3> QED  BY <2>1, <3>1
  <2>4. CASE Admitted(c)
    <3>1. /\ WaitingData' = WaitingData \cup (IF c THEN {} ELSE {count'})
          /\ data' = data + IF c THEN 0 ELSE 1
          /\ c \/ data < MaxSize
      BY <1>1, <2>4, PublishData DEF Admitted
    <3>2. Cardinality(WaitingData \cup {count'}) = data + 1  BY <2>2, <2>3, FS_AddElement
    <3>3. CASE c  BY <2>2, <3>1, <3>3 DEF CountInv
    <3>4. CASE ~c  BY <2>2, <3>1, <3>2, <3>4, OutboxAssumption DEF CountInv
    <3> QED  BY <3>3, <3>4
  <2>5. ASSUME NEW old \in WaitingData, Displacing(old, c) PROVE CountInv'
    <3>1. WaitingData' = (WaitingData \ {old}) \cup {count'} /\ data' = data
      BY <1>1, <2>5, PublishData DEF Displacing
    <3>2. IsFiniteSet(WaitingData \ {old}) /\ Cardinality(WaitingData \ {old}) = data - 1
      BY <2>2, FS_RemoveElement
    <3>3. Cardinality(WaitingData') = (data - 1) + 1
      BY <2>3, <3>1, <3>2, FS_AddElement
    <3> QED  BY <2>2, <3>1, <3>3 DEF CountInv
  <2> QED  BY <2>1, <2>4, <2>5
<1>2. CASE Take
  BY <1>2, TakeCounts DEF CountInv, Take
<1>3. CASE Start
  BY <1>3 DEF Start, CountInv, WaitingData
<1>4. CASE Taken
  BY <1>4 DEF Taken, CountInv, WaitingData
<1>5. ASSUME NEW unanswered \in BOOLEAN, Refused(unanswered) PROVE CountInv'
  BY <1>5 DEF Refused, CountInv, WaitingData
<1>6. CASE BackedOff
  BY <1>6 DEF BackedOff, CountInv, WaitingData
<1>7. CASE Close
  BY <1>7 DEF Close, CountInv, WaitingData
<1>8. ASSUME NEW reached \in BOOLEAN, TaskCancelled(reached) PROVE CountInv'
  BY <1>8 DEF TaskCancelled, CountInv, WaitingData
<1>9. CASE Flushed
  BY <1>9 DEF Flushed, CountInv, WaitingData
<1>10. CASE FlushTimeout
  BY <1>10 DEF FlushTimeout, CountInv, WaitingData
<1>11. CASE Tick
  BY <1>11 DEF Tick, CountInv, WaitingData
<1>12. CASE Terminated
  BY <1>12 DEF Terminated, vars, CountInv, WaitingData
<1>13. CASE UNCHANGED vars
  BY <1>13 DEF vars, CountInv, WaitingData
<1> QED
  BY <1>1, <1>2, <1>3, <1>4, <1>5, <1>6, <1>7, <1>8, <1>9,
     <1>10, <1>11, <1>12, <1>13
     DEF Next, SendStep, CloseStep

\* What waits is in the queue or being sent.
LEMMA WaitingIn == \A n : Waiting(n) <=> n = sending \/ n \in In(queue)
BY DEF Waiting, In

\* No control message is lost track of while the outbox is open.
LEMMA ControlStep == TypeOK /\ QueueInv /\ CountInv /\ ControlIsAccountedFor /\ [Next]_vars => ControlIsAccountedFor'
<1> SUFFICES ASSUME TypeOK, QueueInv, CountInv, ControlIsAccountedFor, [Next]_vars PROVE ControlIsAccountedFor'  OBVIOUS
<1> USE DEF queueVars, sendVars, closeVars, fates, None
<1>1. ASSUME NEW c \in BOOLEAN, Publish(c) PROVE ControlIsAccountedFor'
  <2>1. /\ count' \in Nat /\ count \in Nat /\ count < count'
        /\ count' = count + 1 \/ count' = count + 2
        /\ control' = [control EXCEPT ![count + 1] = TRUE, ![count'] = c]
        /\ Admitted(c) \/ \E old \in WaitingData : Displacing(old, c)
    BY <1>1, PublishFacts
  <2>2. phase' = phase /\ sending' = sending /\ arrived' = arrived /\ reported' = reported
    BY <1>1 DEF Publish
  <2>3. count' \in In(queue') /\ count + 1 \in In(queue')
    BY <2>1 DEF Admitted, Displacing, New
  <2>4. \A n \in In(queue) : control[n] => n \in In(queue')
    BY <2>1 DEF Admitted, Displacing, WaitingData
  <2> SUFFICES ASSUME phase' = "open", NEW n \in 1..count', control'[n]
               PROVE  n = sending' \/ n \in In(queue') \/ n \in arrived' \cup reported'
    BY DEF ControlIsAccountedFor, Waiting, In
  <2>5. CASE n \in New  BY <2>3, <2>5 DEF New
  <2>6. CASE n \notin New
    <3>1. n \in 1..count  BY <2>1, <2>6 DEF New
    <3>2. n \in Ids /\ control[n]
      BY <2>1, <2>6, <3>1, OutboxAssumption DEF TypeOK, Ids, New
    <3>3. n = sending \/ n \in In(queue) \/ n \in arrived \cup reported
      BY <2>2, <3>1, <3>2, WaitingIn DEF ControlIsAccountedFor
    <3> QED  BY <2>2, <2>4, <3>2, <3>3
  <2> QED  BY <2>5, <2>6
<1>2. CASE Take
  <2>1. In(queue') = In(queue) \ {Head(queue)}  BY <1>2, TakeFacts
  <2>2. /\ phase' = phase /\ count' = count /\ control' = control /\ arrived' = arrived
        /\ reported' \in {reported, reported \cup {Head(queue)}}
        /\ sending' = Head(queue) \/ Head(queue) \in reported'
        /\ sending = 0
    BY <1>2 DEF Take, TypeOK
  <2> SUFFICES ASSUME phase' = "open", NEW n \in 1..count', control'[n]
               PROVE  n = sending' \/ n \in In(queue') \/ n \in arrived' \cup reported'
    BY DEF ControlIsAccountedFor, Waiting, In
  <2>3. n \in In(queue) \/ n \in arrived \cup reported
    <3>1. n # 0  OBVIOUS
    <3> QED  BY <2>2, <3>1, WaitingIn DEF ControlIsAccountedFor
  <2> QED  BY <2>1, <2>2, <2>3
<1>3. CASE Start
  BY <1>3 DEF Start, ControlIsAccountedFor, Waiting
<1>4. CASE Taken
  BY <1>4, IdsFinite DEF Taken, ControlIsAccountedFor, Waiting, TypeOK
<1>5. ASSUME NEW unanswered \in BOOLEAN, Refused(unanswered) PROVE ControlIsAccountedFor'
  BY <1>5, IdsFinite DEF Refused, ControlIsAccountedFor, Waiting, TypeOK
<1>6. CASE BackedOff
  BY <1>6 DEF BackedOff, ControlIsAccountedFor, Waiting
<1>7. CASE Close
  BY <1>7 DEF Close, ControlIsAccountedFor, Waiting
<1>8. ASSUME NEW reached \in BOOLEAN, TaskCancelled(reached) PROVE ControlIsAccountedFor'
  BY <1>8 DEF TaskCancelled, ControlIsAccountedFor, Waiting
<1>9. CASE Flushed
  BY <1>9 DEF Flushed, ControlIsAccountedFor, Waiting
<1>10. CASE FlushTimeout
  BY <1>10 DEF FlushTimeout, ControlIsAccountedFor, Waiting
<1>11. CASE Tick
  BY <1>11 DEF Tick, ControlIsAccountedFor, Waiting
<1>12. CASE Terminated
  BY <1>12 DEF Terminated, vars, ControlIsAccountedFor, Waiting
<1>13. CASE UNCHANGED vars
  BY <1>13 DEF vars, ControlIsAccountedFor, Waiting
<1> QED
  BY <1>1, <1>2, <1>3, <1>4, <1>5, <1>6, <1>7, <1>8, <1>9,
     <1>10, <1>11, <1>12, <1>13
     DEF Next, SendStep, CloseStep

-----------------------------------------------------------------------------
(* The theorems *)

\* The inductive invariant: types, the order of what waits, and the fate of each message.
THEOREM Invariant == Spec => []IInv
<1>1. IInv /\ [Next]_vars => IInv'
  BY TypeStep, QueueStep, ArrivedStep, DroppedStep, CountStep, ControlStep DEF IInv
<1> QED  BY InitHolds, <1>1, PTL DEF Spec

\* The count of data is the data that waits, never more than maxsize, and every control
\* message of an open outbox waits, has arrived or was reported.
THEOREM NoMessageLost == Spec => []EveryMessageCounted
<1>1. ASSUME IInv PROVE EveryMessageCounted
  <2>1. TypeOK /\ QueueInv /\ CountInv /\ ControlIsAccountedFor  BY <1>1 DEF IInv
  <2>2. DataIsCounted  BY <2>1, PlacesAreMessages DEF CountInv, DataIsCounted
  <2> QED  BY <2>1, <2>2 DEF EveryMessageCounted
<1> QED  BY Invariant, <1>1, PTL

\* The oldest data gives way, and messages arrive in the order they were published in,
\* whatever was refused, retried or flushed in between.
THEOREM Ordered == Spec => OrderIsKept
<1>1. ASSUME IInv PROVE OldestGivesWay
  <2>1. DroppedInv  BY <1>1 DEF IInv
  <2>2. \A i \in DataAt(queue) : queue[i] \in WaitingData  BY DEF DataAt, WaitingData, In
  <2> QED  BY <2>1, <2>2 DEF DroppedInv, OldestGivesWay
<1>2. ASSUME IInv, [Next]_vars
      PROVE  [\A n \in arrived' \ arrived : \A m \in arrived : m < n]_vars
  <2>1. TypeOK /\ ArrivedInv  BY <1>2 DEF IInv
  <2>2. arrived' \ arrived \subseteq {sending} \ {0}
    <3> USE <1>2, <2>1 DEF queueVars, sendVars, closeVars, fates, None
    <3>1. ASSUME NEW c \in BOOLEAN, Publish(c) PROVE arrived' = arrived
      BY <3>1 DEF Publish
    <3>2. CASE Start \/ Take \/ BackedOff \/ Close
      BY <3>2 DEF Start, Take, BackedOff, Close
    <3>3. CASE Taken  BY <3>3, IdsFinite DEF Taken, TypeOK
    <3>4. ASSUME NEW unanswered \in BOOLEAN, Refused(unanswered)
          PROVE  arrived' \ arrived \subseteq {sending} \ {0}
      BY <3>4, IdsFinite DEF Refused, TypeOK
    <3>5. ASSUME NEW reached \in BOOLEAN, TaskCancelled(reached)
          PROVE  arrived' \ arrived \subseteq {sending} \ {0}
      BY <3>5, IdsFinite DEF TaskCancelled, TypeOK
    <3>6. CASE Flushed \/ FlushTimeout \/ Tick
      BY <3>6 DEF Flushed, FlushTimeout, Tick
    <3>7. CASE Terminated \/ UNCHANGED vars  BY <3>7 DEF Terminated, vars
    <3> QED  BY <3>1, <3>2, <3>3, <3>4, <3>5, <3>6, <3>7 DEF Next, SendStep, CloseStep
  <2> SUFFICES ASSUME NEW n \in arrived' \ arrived, NEW m \in arrived PROVE m < n
    OBVIOUS
  <2>3. n = sending /\ sending # 0 /\ sending \in Nat /\ m \in Nat /\ m # n
    BY <2>1, <2>2, IdsFinite DEF TypeOK, None
  <2>4. m <= sending  BY <2>1, <2>3 DEF ArrivedInv, None
  <2> QED  BY <2>3, <2>4
<1>3. Spec => []OldestGivesWay  BY Invariant, <1>1, PTL
<1>4. Spec => ArriveInOrder  BY Invariant, <1>2, PTL DEF Spec, ArriveInOrder
<1> QED  BY <1>3, <1>4 DEF OrderIsKept

-----------------------------------------------------------------------------
(* The inductive invariant of the Kafka consumer *)

LogTyped ==
  /\ sent \in Nat
  /\ log \in [Topics -> [exists : BOOLEAN, start : Nat, recs : Seq(Nat)]]
  /\ \A t \in Topics : \A j \in DOMAIN log[t].recs :
       log[t].recs[j] \in 1..sent

PubTyped == pub \in [topic : Topics \cup {NoTopic}, count : Nat,
                     created : SUBSET Topics]

ConTyped ==
  /\ con = [pc |-> con.pc, new |-> con.new, pos |-> con.pos,
            starts |-> con.starts, since |-> con.since]
  /\ con.pc \in {"down", "poll", "start", "seek", "end"}
  /\ \A t \in Held : con.pos[t] \in Nat
  /\ \A t \in DOMAIN con.starts : con.starts[t] \in Nat

ReceiverTyped ==
  /\ watched \subseteq Topics
  /\ resume \in [Topics -> Nat \cup {Unknown}]

HeardTyped ==
  /\ heard \in Seq(Nat) /\ heard # <<>>
  /\ \A i \in DOMAIN heard : heard[i] <= sent
  /\ newest \in [Topics -> Nat] /\ \A t \in Topics : newest[t] <= sent

ConsumerTyped ==
  LogTyped /\ PubTyped /\ ConTyped /\ ReceiverTyped /\ HeardTyped

\* What is held, assigned or known of a topic is of one subscribed to.
OfWatched ==
  /\ Held \cup con.new \cup unassigned \cup ready \cup broken \subseteq watched
  /\ \A t \in Data : resume[t] = Unknown
  /\ \A t \in Topics : resume[t] # Unknown => t \in watched

\* A consumer that reads has taken on every topic it was ever assigned.
TakenOn ==
  LET missed == {t \in Topics : resume[t] # Unknown} \ Held
  IN  /\ con.pc = "down" => Held = {}
      /\ con.pc = "poll" /\ Held # {} => missed = {}
      /\ con.pc = "poll" => missed \subseteq unassigned
      /\ con.pc \in {"start", "seek"} => missed \subseteq con.new
      /\ con.pc = "end" => missed = {}

\* An assignment that seeks knows where each log was that it resumes, and no
\* log starts before that.
AskedHold ==
  con.pc = "seek" => /\ Resumed \subseteq DOMAIN con.starts
                     /\ \A t \in Resumed \ broken : con.starts[t] <= log[t].start

\* Records of t from offset p on are newer than what was heard of t, and than
\* all that was heard, but for those a reset passed over.
NewerFrom(t, p) ==
  \A j \in DOMAIN log[t].recs : log[t].start + j > p =>
    /\ newest[t] < log[t].recs[j]
    /\ log[t].recs[j] \in passed \/ \A i \in DOMAIN heard : heard[i] < log[t].recs[j]

\* Records of t from offset p up to q were passed over.
PassedFrom(t, p, q) ==
  \A j \in DOMAIN log[t].recs :
    log[t].start + j > p /\ log[t].start + j <= q => log[t].recs[j] \in passed

\* Where reading goes on, and where a later consumer would resume: before all
\* that is not heard, and what lies between the two was passed over.
GoesOn(t) ==
  /\ t \in Held => /\ log[t].exists /\ con.pos[t] <= End(t)
                   /\ NewerFrom(t, con.pos[t])
  /\ resume[t] # Unknown => /\ log[t].exists /\ resume[t] <= End(t)
                            /\ NewerFrom(t, resume[t])
  /\ (t \in Held /\ resume[t] # Unknown) => PassedFrom(t, resume[t], con.pos[t])

PositionsHold == \A t \in watched \ broken : GoesOn(t)

ConsumerInv ==
  /\ ConsumerTyped
  /\ OfWatched
  /\ ReadyIsHeld
  /\ TakenOn
  /\ AskedHold
  /\ PositionsHold
  /\ HeardAsSent

-----------------------------------------------------------------------------
(* The order of a fetch *)

\* A finite set of numbers, in order: each once, and rising.
LEMMA OrderRises ==
    ASSUME NEW rs \in SUBSET Nat, IsFiniteSet(rs)
    PROVE  LET s == InOrder(rs)
           IN  /\ Cardinality(rs) \in Nat
               /\ s \in Seq(Nat) /\ Len(s) = Cardinality(rs)
               /\ \A i \in 1..Cardinality(rs) : s[i] \in rs
               /\ \A i, j \in 1..Cardinality(rs) : i < j => s[i] < s[j]
<1> DEFINE N == Cardinality(rs)
           Below(r) == {q \in rs : q <= r}
           Rank(r) == Cardinality(Below(r))
           rank == [r \in rs |-> Rank(r)]
<1>1. N \in Nat  BY FS_CardinalityType
<1>2. ASSUME NEW r \in rs
      PROVE  IsFiniteSet(Below(r)) /\ Rank(r) \in 1..N
  <2>1. Below(r) \in SUBSET rs  OBVIOUS
  <2>2. IsFiniteSet(Below(r)) /\ Rank(r) <= N  BY <2>1, FS_Subset
  <2>3. Rank(r) \in Nat  BY <2>2, FS_CardinalityType
  <2>4. r \in Below(r)  OBVIOUS
  <2>5. Rank(r) # 0  BY <2>2, <2>4, FS_EmptySet
  <2> QED  BY <1>1, <2>2, <2>3, <2>5
<1>3. ASSUME NEW q \in rs, NEW r \in rs, q < r
      PROVE  Rank(q) < Rank(r)
  <2>1. Below(q) \in SUBSET Below(r)
    <3> SUFFICES ASSUME NEW x \in rs, x <= q PROVE x <= r  OBVIOUS
    <3>1. x \in Nat /\ q \in Nat /\ r \in Nat  OBVIOUS
    <3> QED  BY <1>3, <3>1
  <2>2. r \in Below(r) /\ r \notin Below(q)  BY <1>3
  <2>3. IsFiniteSet(Below(r))  BY <1>2
  <2>4. Rank(q) <= Rank(r) /\ Rank(q) # Rank(r)
    BY <2>1, <2>2, <2>3, FS_Subset
  <2>5. Rank(q) \in Nat /\ Rank(r) \in Nat  BY <1>1, <1>2
  <2> QED  BY <2>4, <2>5
<1>4. rank \in Injection(rs, 1..N)
  <2>1. rank \in [rs -> 1..N]  BY <1>2
  <2>2. ASSUME NEW q \in rs, NEW r \in rs, rank[q] = rank[r] PROVE q = r
    <3>1. Rank(q) = Rank(r)  BY <2>2
    <3>2. Rank(q) \in Int /\ Rank(r) \in Int  BY <1>1, <1>2
    <3>3. ~(q < r) /\ ~(r < q)  BY <1>3, <3>1, <3>2
    <3> QED  BY <3>3
  <2> HIDE DEF rank
  <2> QED  BY <2>1, <2>2 DEF Injection, IsInjective
<1>5. rank \in Surjection(rs, 1..N)
  <2>1. IsFiniteSet(1..N) /\ Cardinality(1..N) = N  BY <1>1, FS_Interval
  <2> QED  BY <1>4, <2>1, FS_Injection
<1>6. ASSUME NEW i \in 1..N
      PROVE  InOrder(rs)[i] \in rs /\ Rank(InOrder(rs)[i]) = i
  <2>1. \E r \in rs : rank[r] = i
    <3> HIDE DEF rank
    <3> QED  BY <1>5 DEF Surjection
  <2>2. \E r \in rs : Rank(r) = i  BY <2>1
  <2>3. InOrder(rs)[i] = CHOOSE r \in rs : Rank(r) = i  BY DEF InOrder
  <2> HIDE DEF Rank
  <2> QED  BY <2>2, <2>3
<1>7. ASSUME NEW i \in 1..N, NEW j \in 1..N, i < j
      PROVE  InOrder(rs)[i] < InOrder(rs)[j]
  <2> DEFINE q == InOrder(rs)[i]
             r == InOrder(rs)[j]
  <2>1. q \in rs /\ r \in rs /\ Rank(q) = i /\ Rank(r) = j  BY <1>6
  <2> HIDE DEF q, r, Rank
  <2>2. q # r  BY <1>7, <2>1
  <2>3. ~(r < q)  BY <1>1, <1>3, <1>7, <2>1
  <2>4. q < r  BY <2>1, <2>2, <2>3
  <2> QED  BY <2>4 DEF q, r
<1>8. InOrder(rs) = [i \in 1..N |-> CHOOSE r \in rs : Rank(r) = i]  BY DEF InOrder
<1>9. InOrder(rs) \in [1..N -> Nat]
  <2>1. \A i \in 1..N : InOrder(rs)[i] \in Nat  BY <1>6
  <2> HIDE DEF Rank
  <2> QED  BY <1>8, <2>1
<1>10. InOrder(rs) \in Seq(Nat) /\ Len(InOrder(rs)) = N
  BY <1>1, <1>9, SeqDef
<1> HIDE DEF Rank, rank
<1> QED  BY <1>1, <1>6, <1>7, <1>10

\* The newest of what was heard is one of it, and nothing of it is newer.
LEMMA NewestIsHeard ==
    ASSUME NEW s \in Seq(Nat), s # <<>>,
           \A i, j \in DOMAIN s : i < j => s[i] < s[j] \/ i = 1
    PROVE  \E k \in DOMAIN s : /\ Max(ToSet(s)) = s[k]
                              /\ \A i \in DOMAIN s : s[i] <= s[k]
<1> DEFINE S == ToSet(s)
           n == Len(s)
           k == IF s[1] >= s[n] THEN 1 ELSE n
<1>1. n \in Nat \ {0} /\ DOMAIN s = 1..n /\ \A i \in 1..n : s[i] \in Nat
  BY LenProperties, EmptySeq, ElementOfSeq
<1>2. k \in 1..n  BY <1>1
<1>3. ASSUME NEW i \in 1..n PROVE s[i] <= s[k]
  <2> HIDE DEF n
  <2>1. s[1] \in Nat /\ s[n] \in Nat /\ s[i] \in Nat  BY <1>1
  <2>2. s[1] <= s[k] /\ s[n] <= s[k]  BY <2>1
  <2>3. CASE i = 1  BY <2>2, <2>3
  <2>4. CASE i = n  BY <2>2, <2>4
  <2>5. CASE i # 1 /\ i # n
    <3>1. i < n /\ n \in DOMAIN s /\ i \in DOMAIN s  BY <1>1, <2>5
    <3>2. s[i] < s[n]  BY <2>5, <3>1
    <3>3. s[k] \in Nat  BY <1>1, <1>2
    <3> HIDE DEF k
    <3> QED  BY <2>1, <2>2, <3>2, <3>3
  <2> QED  BY <2>3, <2>4, <2>5
<1> HIDE DEF k
<1> DEFINE m == s[k]
<1>4. m \in S  BY <1>1, <1>2 DEF ToSet
<1>5. \A y \in S : y \in Nat /\ m >= y  BY <1>1, <1>2, <1>3 DEF ToSet
<1>6. \A x \in S : (\A y \in S : x >= y) => x = m
  <2> HIDE DEF S, m
  <2> QED  BY <1>4, <1>5
<1>7. Max(S) = m
  <2> HIDE DEF S, m
  <2>1. (CHOOSE x \in S : \A y \in S : x >= y) = m  BY <1>4, <1>5, <1>6
  <2> QED  BY <2>1 DEF Max
<1> QED  BY <1>1, <1>2, <1>3, <1>7


-----------------------------------------------------------------------------
(* What a fetch hands over *)

\* The records a fetch reads of a topic were all sent.
LEMMA BatchIsSent ==
    ASSUME ConsumerTyped, NEW t \in Topics
    PROVE  Batch(t) \subseteq 1..sent
BY DEF ConsumerTyped, LogTyped, PubTyped, ConTyped, ReceiverTyped, HeardTyped, Batch

\* The newest record of each topic that was read is one that was sent.
LEMMA NewestIsSent ==
    ASSUME ConsumerTyped, OfWatched, Fetch
    PROVE  newest' \in [Topics -> Nat] /\ \A t \in Topics : newest'[t] <= sent
<1> DEFINE there == {t \in Held : log[t].exists}
           read == {t \in there : InRange(t) /\ con.pos[t] < End(t)}
<1>1. newest' = NewestOf(read)  BY DEF Fetch
<1>2. newest \in [Topics -> Nat] /\ \A t \in Topics : newest[t] <= sent
  BY DEF ConsumerTyped, HeardTyped
<1>3. ASSUME NEW t \in Topics, t \in read
      PROVE  Last(log[t].recs) \in Nat /\ Last(log[t].recs) <= sent
  <2> DEFINE n == Len(log[t].recs)
  <2>1. log[t].recs \in Seq(Nat) /\ log[t].start \in Nat /\ con.pos[t] \in Nat
    BY <1>3 DEF ConsumerTyped, LogTyped, ConTyped
  <2>2. n \in Nat /\ DOMAIN log[t].recs = 1..n  BY <2>1, LenProperties
  <2>3. log[t].start < log[t].start + n  BY <1>3, <2>1, <2>2 DEF InRange, End
  <2>4. n \in 1..n  BY <2>1, <2>2, <2>3
  <2>5. log[t].recs[n] \in 1..sent /\ sent \in Nat
    BY <2>2, <2>4 DEF ConsumerTyped, LogTyped
  <2> QED  BY <2>5 DEF Last
<1> HIDE DEF read, there
<1>4. newest' = [t \in Topics |-> IF t \in read THEN Last(log[t].recs) ELSE newest[t]]
  BY <1>1 DEF NewestOf
<1>5. \A t \in Topics : newest'[t] \in Nat /\ newest'[t] <= sent
  BY <1>2, <1>3, <1>4
<1> QED  BY <1>4, <1>5

\* A fetch in order: all of it newer than what was heard before, but for what
\* a reset had passed over.
LEMMA FetchIsHeard ==
    ASSUME ConsumerTyped, OfWatched, PositionsHold, HeardAsSent, Fetch
    PROVE  /\ heard' \in Seq(Nat) /\ heard' # <<>>
           /\ \A i \in DOMAIN heard' : heard'[i] <= sent
           /\ HeardAsSent'
<1> DEFINE there == {t \in Held : log[t].exists}
           read == {t \in there : InRange(t) /\ con.pos[t] < End(t)}
           rs == UNION {Batch(t) : t \in read \ broken}
           last == Max(ToSet(heard))
<1>1. heard' = <<last>> \o InOrder(rs)  BY DEF Fetch, SentOrder
<1>2. Held \subseteq watched /\ watched \subseteq Topics
  BY DEF OfWatched, ConsumerTyped, LogTyped, PubTyped, ConTyped, ReceiverTyped, HeardTyped
<1>3. sent \in Nat  BY DEF ConsumerTyped, LogTyped, PubTyped, ConTyped, ReceiverTyped, HeardTyped
<1>4. rs \subseteq 1..sent  BY <1>2, BatchIsSent
<1>5. heard \in Seq(Nat) /\ heard # <<>> /\ \A i \in DOMAIN heard : heard[i] <= sent
  BY DEF ConsumerTyped, LogTyped, PubTyped, ConTyped, ReceiverTyped, HeardTyped
<1>6. /\ \E k \in DOMAIN heard : last = heard[k]
      /\ last \in Nat /\ last <= sent
  <2>1. \A i, j \in DOMAIN heard : i < j => heard[i] < heard[j] \/ i = 1
    BY DEF HeardAsSent
  <2>2. PICK k \in DOMAIN heard : last = heard[k]  BY <1>5, <2>1, NewestIsHeard
  <2>3. heard[k] \in Nat  BY <1>5, <2>2, LenProperties, ElementOfSeq
  <2> QED  BY <1>5, <2>2, <2>3
<1>7. passed \subseteq passed'  BY DEF Fetch
<1>8. ASSUME NEW r \in rs PROVE last < r \/ r \in passed'
  <2>1. PICK t \in read \ broken : r \in Batch(t)  OBVIOUS
  <2>2. t \in watched \ broken /\ t \in Held  BY <1>2
  <2>3. NewerFrom(t, con.pos[t])  BY <2>2 DEF PositionsHold, GoesOn
  <2>4. PICK j \in DOMAIN log[t].recs :
          log[t].start + j > con.pos[t] /\ r = log[t].recs[j]
    BY <2>1 DEF Batch
  <2>5. r \in passed \/ \A i \in DOMAIN heard : heard[i] < r
    BY <2>3, <2>4 DEF NewerFrom
  <2> QED  BY <1>6, <1>7, <2>5
<1> HIDE DEF rs, last, read, there
<1> DEFINE N == Cardinality(rs)
           s == InOrder(rs)
<1>9. /\ N \in Nat /\ s \in Seq(Nat) /\ Len(s) = N
      /\ \A i \in 1..N : s[i] \in rs
      /\ \A i, j \in 1..N : i < j => s[i] < s[j]
  <2>1. rs \in SUBSET Nat  BY <1>3, <1>4
  <2>2. IsFiniteSet(1..sent)  BY <1>3, FS_Interval
  <2>3. IsFiniteSet(rs)  BY <1>4, <2>2, FS_Subset
  <2> QED  BY <2>1, <2>3, OrderRises
<1> HIDE DEF N, s
<1>10. heard' = <<last>> \o s  BY <1>1 DEF s
<1>11. /\ heard' \in Seq(Nat) /\ Len(heard') = N + 1
       /\ \A i \in 1..(N + 1) : heard'[i] = IF i = 1 THEN last ELSE s[i - 1]
  BY <1>6, <1>9, <1>10, ConcatProperties
<1>12. DOMAIN heard' = 1..(N + 1)  BY <1>11, LenProperties
<1>13. heard' # <<>>  BY <1>9, <1>11, EmptySeq
<1>14. ASSUME NEW i \in 1..(N + 1) PROVE heard'[i] <= sent
  <2>1. CASE i = 1  BY <1>6, <1>11, <2>1
  <2>2. CASE i # 1
    <3>1. i - 1 \in 1..N  BY <1>9, <2>2
    <3>2. s[i - 1] \in 1..sent  BY <1>4, <1>9, <3>1
    <3> QED  BY <1>3, <1>11, <2>2, <3>2
  <2> QED  BY <2>1, <2>2
<1>15. ASSUME NEW i \in 1..(N + 1), NEW j \in 1..(N + 1), i < j
       PROVE  heard'[i] < heard'[j] \/ (i = 1 /\ heard'[j] \in passed')
  <2>1. j - 1 \in 1..N /\ heard'[j] = s[j - 1]  BY <1>9, <1>11, <1>15
  <2>2. CASE i = 1  BY <1>8, <1>9, <1>11, <2>1, <2>2
  <2>3. CASE i # 1
    <3>1. i - 1 \in 1..N /\ heard'[i] = s[i - 1]  BY <1>9, <1>11, <2>3
    <3> QED  BY <1>9, <1>15, <2>1, <3>1
  <2> QED  BY <2>2, <2>3
<1> QED  BY <1>11, <1>12, <1>13, <1>14, <1>15 DEF HeardAsSent

-----------------------------------------------------------------------------
(* Each part of the invariant, over every step *)

LEMMA ConsumerInitHolds == ConsumerInit => ConsumerInv
<1> SUFFICES ASSUME ConsumerInit PROVE ConsumerInv  OBVIOUS
<1>1. Held = {}  BY DEF ConsumerInit, NoConsumer, Held
<1>2. ConsumerTyped
  BY <1>1
  DEF ConsumerInit, NoConsumer, ConsumerTyped, LogTyped, PubTyped, ConTyped, ReceiverTyped, HeardTyped, Absent, Unknown
<1>3. OfWatched /\ ReadyIsHeld
  BY <1>1 DEF ConsumerInit, NoConsumer, OfWatched, ReadyIsHeld, Topics
<1>4. TakenOn  BY <1>1 DEF ConsumerInit, NoConsumer, TakenOn
<1>5. PositionsHold /\ HeardAsSent  BY DEF ConsumerInit, PositionsHold, HeardAsSent
<1>6. AskedHold  BY DEF ConsumerInit, NoConsumer, AskedHold
<1> QED  BY <1>2, <1>3, <1>4, <1>5, <1>6 DEF ConsumerInv

\* The positions after topics were placed.
LEMMA PlacedHolds ==
    ASSUME NEW ts, NEW at
    PROVE  /\ DOMAIN Placed(ts, at) = Held \cup ts
           /\ \A t \in Held \cup ts :
                Placed(ts, at)[t] = IF t \in ts THEN at[t] ELSE con.pos[t]
BY DEF Placed

\* A record taken: the topic is one record longer, and nothing else of it.
LEMMA TakenHolds ==
    ASSUME ConsumerTyped, NEW t \in Topics, RecordTaken(t)
    PROVE  /\ log[t].exists /\ sent' = sent + 1
           /\ \A u \in Topics : u # t => log'[u] = log[u]
           /\ log' \in [Topics -> [exists : BOOLEAN, start : Nat, recs : Seq(Nat)]]
           /\ log'[t].exists /\ log'[t].start = log[t].start
           /\ Len(log[t].recs) \in Nat /\ Len(log'[t].recs) = Len(log[t].recs) + 1
           /\ DOMAIN log[t].recs = 1..Len(log[t].recs)
           /\ DOMAIN log'[t].recs = 1..(Len(log[t].recs) + 1)
           /\ log'[t].recs[Len(log[t].recs) + 1] = sent + 1
           /\ \A j \in 1..Len(log[t].recs) : log'[t].recs[j] = log[t].recs[j]
<1>1. /\ log \in [Topics -> [exists : BOOLEAN, start : Nat, recs : Seq(Nat)]]
      /\ sent \in Nat
  BY DEF ConsumerTyped, LogTyped, PubTyped, ConTyped, ReceiverTyped, HeardTyped
<1>2. log' = [log EXCEPT ![t] = [exists |-> @.exists, start |-> @.start,
                                 recs |-> Append(@.recs, sent + 1)]]
  <2> DEFINE e == Append(log[t].recs, sent + 1)
  <2>1. log' = [log EXCEPT ![t].recs = e]  BY <1>1 DEF RecordTaken
  <2> HIDE DEF e
  <2>2. log' = [log EXCEPT ![t] = [exists |-> log[t].exists,
                                   start |-> log[t].start, recs |-> e]]
    <3>1. log[t] = [exists |-> log[t].exists, start |-> log[t].start,
                    recs |-> log[t].recs]
      BY <1>1
    <3>2. [log[t] EXCEPT !.recs = e] = [exists |-> log[t].exists,
                                        start |-> log[t].start, recs |-> e]
      BY <3>1
    <3> QED  BY <2>1, <3>2
  <2> QED  BY <2>2 DEF e
<1>3. log[t].recs \in Seq(Nat) /\ log[t].start \in Nat /\ log[t].exists \in BOOLEAN
  BY <1>1
<1>4. /\ Append(log[t].recs, sent + 1) \in Seq(Nat)
      /\ Len(log[t].recs) \in Nat
      /\ Len(Append(log[t].recs, sent + 1)) = Len(log[t].recs) + 1
      /\ Append(log[t].recs, sent + 1)[Len(log[t].recs) + 1] = sent + 1
      /\ \A j \in 1..Len(log[t].recs) :
           Append(log[t].recs, sent + 1)[j] = log[t].recs[j]
  BY <1>1, <1>3, AppendProperties, LenProperties
<1>5. /\ DOMAIN log[t].recs = 1..Len(log[t].recs)
      /\ DOMAIN Append(log[t].recs, sent + 1) = 1..(Len(log[t].recs) + 1)
  BY <1>3, <1>4, LenProperties
<1>6. log'[t] = [exists |-> log[t].exists, start |-> log[t].start,
                 recs |-> Append(log[t].recs, sent + 1)]
  BY <1>1, <1>2
<1>7. log' \in [Topics -> [exists : BOOLEAN, start : Nat, recs : Seq(Nat)]]
  BY <1>1, <1>2, <1>3, <1>4
<1>8. \A u \in Topics : u # t => log'[u] = log[u]  BY <1>1, <1>2
<1>9. log[t].exists /\ sent' = sent + 1  BY DEF RecordTaken
<1> QED  BY <1>4, <1>5, <1>6, <1>7, <1>8, <1>9

\* The oldest record expired.
LEMMA ExpireHolds ==
    ASSUME ConsumerTyped, NEW t \in Topics, Expire(t)
    PROVE  /\ \A u \in Topics : u # t => log'[u] = log[u]
           /\ log' \in [Topics -> [exists : BOOLEAN, start : Nat, recs : Seq(Nat)]]
           /\ log'[t].exists = log[t].exists /\ log'[t].start = log[t].start + 1
           /\ Len(log[t].recs) \in Nat \ {0}
           /\ DOMAIN log[t].recs = 1..Len(log[t].recs)
           /\ Len(log'[t].recs) = Len(log[t].recs) - 1
           /\ DOMAIN log'[t].recs = 1..(Len(log[t].recs) - 1)
           /\ \A j \in 1..(Len(log[t].recs) - 1) :
                log'[t].recs[j] = log[t].recs[j + 1]
<1>1. log \in [Topics -> [exists : BOOLEAN, start : Nat, recs : Seq(Nat)]]
  BY DEF ConsumerTyped, LogTyped, PubTyped, ConTyped, ReceiverTyped, HeardTyped
<1>2. log' = [log EXCEPT ![t] = [exists |-> @.exists, start |-> @.start + 1,
                                 recs |-> Tail(@.recs)]]
  BY <1>1, SMTT(30) DEF Expire
<1>3. log[t].recs \in Seq(Nat) /\ log[t].recs # <<>> /\ log[t].start \in Nat
      /\ log[t].exists \in BOOLEAN
  BY <1>1 DEF Expire
<1>4. Tail(log[t].recs) \in Seq(Nat) /\ Len(Tail(log[t].recs)) = Len(log[t].recs) - 1
      /\ Len(log[t].recs) \in Nat \ {0}
      /\ \A j \in 1..(Len(log[t].recs) - 1) : Tail(log[t].recs)[j] = log[t].recs[j + 1]
  BY <1>3, HeadTailProperties, EmptySeq, LenProperties
<1>5. DOMAIN Tail(log[t].recs) = 1..(Len(log[t].recs) - 1)
      /\ DOMAIN log[t].recs = 1..Len(log[t].recs)
  BY <1>3, <1>4, LenProperties
<1> HIDE DEF Expire
<1>6. log'[t] = [exists |-> log[t].exists, start |-> log[t].start + 1,
                 recs |-> Tail(log[t].recs)]
  BY <1>1, <1>2
<1>7. log' \in [Topics -> [exists : BOOLEAN, start : Nat, recs : Seq(Nat)]]
  BY <1>1, <1>2, <1>3, <1>4
<1> QED  BY <1>1, <1>2, <1>4, <1>5, <1>6, <1>7

\* The actions that leave the log alone, and those that leave the consumer.
LEMMA LogStep ==
    ConsumerInv /\ [ConsumerNext]_consumerVars => LogTyped' /\ sent <= sent'
<1> SUFFICES ASSUME ConsumerInv, [ConsumerNext]_consumerVars
             PROVE  LogTyped' /\ sent <= sent'
  OBVIOUS
<1> DEFINE Logs == [Topics -> [exists : BOOLEAN, start : Nat, recs : Seq(Nat)]]
<1>1. ConsumerTyped /\ LogTyped  BY DEF ConsumerInv, ConsumerTyped
<1>2. CASE UNCHANGED <<log, sent>>  BY <1>1, <1>2 DEF LogTyped
<1>3. CASE /\ log' \in Logs /\ sent' = sent
           /\ \A t \in Topics : log'[t] = log[t] \/ log'[t].recs = <<>>
  BY <1>1, <1>3 DEF LogTyped
<1>4. ASSUME NEW t \in Topics, Expire(t) PROVE LogTyped' /\ sent <= sent'
  <2>1. sent' = sent /\ log' \in Logs  BY <1>1, <1>4, ExpireHolds DEF Expire
  <2>2. ASSUME NEW u \in Topics, NEW j \in DOMAIN log'[u].recs
        PROVE  log'[u].recs[j] \in 1..sent
    <3>1. CASE u = t
      <4>1. j \in 1..(Len(log[t].recs) - 1)  BY <1>1, <1>4, <2>2, <3>1, ExpireHolds
      <4>2. j + 1 \in DOMAIN log[t].recs  BY <1>1, <1>4, <4>1, ExpireHolds, SMTT(30)
      <4>3. log'[t].recs[j] = log[t].recs[j + 1]  BY <1>1, <1>4, <4>1, ExpireHolds
      <4> QED  BY <1>1, <3>1, <4>2, <4>3 DEF LogTyped
    <3>2. CASE u # t  BY <1>1, <1>4, <2>2, <3>2, ExpireHolds DEF LogTyped
    <3> QED  BY <3>1, <3>2
  <2> QED  BY <1>1, <2>1, <2>2 DEF LogTyped
<1>5. CASE Create
  <2>1. pub.topic \in Topics  BY <1>1, <1>5 DEF Create, ConsumerTyped, PubTyped
  <2>2. Fresh \in [exists : BOOLEAN, start : Nat, recs : Seq(Nat)] /\ Fresh.recs = <<>>
    BY DEF Fresh
  <2> QED  BY <1>1, <1>3, <1>5, <2>1, <2>2 DEF Create, LogTyped
<1>6. CASE Send
  <2> DEFINE t == pub.topic
             n == Len(log[t].recs)
  <2>1. t \in Topics  BY <1>1, <1>6 DEF Send, ConsumerTyped, PubTyped
  <2>2. CASE UNCHANGED <<log, sent>>  BY <1>2, <2>2
  <2>3. CASE RecordTaken(t)
    <3>1. sent' = sent + 1 /\ sent \in Nat /\ log' \in Logs
      BY <1>1, <2>1, <2>3, TakenHolds DEF LogTyped
    <3>2. ASSUME NEW u \in Topics, NEW j \in DOMAIN log'[u].recs
          PROVE  log'[u].recs[j] \in 1..sent'
      <4>1. CASE u = t
        <5>1. n \in Nat /\ j \in 1..(n + 1) /\ DOMAIN log[t].recs = 1..n
          BY <1>1, <2>1, <2>3, <3>2, <4>1, TakenHolds
        <5>2. CASE j = n + 1
          <6>1. log'[t].recs[n + 1] = sent + 1  BY <1>1, <2>1, <2>3, TakenHolds
          <6> QED  BY <3>1, <4>1, <5>2, <6>1
        <5>3. CASE j # n + 1
          <6>1. j \in 1..n  BY <5>1, <5>3
          <6>2. log'[t].recs[j] = log[t].recs[j]
            BY <1>1, <2>1, <2>3, <6>1, TakenHolds
          <6>3. log[t].recs[j] \in 1..sent  BY <1>1, <2>1, <5>1, <6>1 DEF LogTyped
          <6> QED  BY <3>1, <4>1, <6>2, <6>3
        <5> QED  BY <5>2, <5>3
      <4>2. CASE u # t
        <5>1. log'[u] = log[u]  BY <1>1, <2>1, <2>3, <4>2, TakenHolds
        <5>2. log[u].recs[j] \in 1..sent  BY <1>1, <3>2, <5>1 DEF LogTyped
        <5> QED  BY <3>1, <5>1, <5>2
      <4> QED  BY <4>1, <4>2
    <3> QED  BY <3>1, <3>2 DEF LogTyped
  <2> QED  BY <1>6, <2>2, <2>3 DEF Send
<1>7. CASE AssignBegin
  <2>1. Fresh \in [exists : BOOLEAN, start : Nat, recs : Seq(Nat)] /\ Fresh.recs = <<>>
    BY DEF Fresh
  <2> QED  BY <1>1, <1>3, <1>7, <2>1 DEF AssignBegin, LogTyped
<1>8. CASE LoseTopics
  <2>1. Absent \in [exists : BOOLEAN, start : Nat, recs : Seq(Nat)] /\ Absent.recs = <<>>
    BY DEF Absent
  <2> QED  BY <1>1, <1>3, <1>8, <2>1 DEF LoseTopics, LogTyped
<1> QED
  BY <1>2, <1>4, <1>5, <1>6, <1>7, <1>8
  DEF ConsumerNext, Publisher, Consumer, AllDelivered, consumerVars, PublishRecord,
      Subscribe, Open, AskStarts, AssignResumed, AssignEnd, AssignFails, Fetch,
      CheckTopics, Fail

LEMMA PubStep == ConsumerInv /\ [ConsumerNext]_consumerVars => PubTyped'
<1> SUFFICES ASSUME ConsumerInv, [ConsumerNext]_consumerVars PROVE PubTyped'
  OBVIOUS
<1>1. PubTyped  BY DEF ConsumerInv, ConsumerTyped
<1>2. CASE UNCHANGED pub  BY <1>1, <1>2 DEF PubTyped
<1>3. ASSUME NEW t \in Topics, PublishRecord(t) PROVE PubTyped'
  <2>1. pub' = [topic |-> t, count |-> pub.count + 1, created |-> pub.created]
    BY <1>1, <1>3 DEF PublishRecord, PubTyped
  <2>2. pub.count \in Nat /\ pub.created \in SUBSET Topics  BY <1>1 DEF PubTyped
  <2> QED  BY <2>1, <2>2 DEF PubTyped
<1>4. CASE Create
  <2>1. pub.topic \in Topics  BY <1>1, <1>4 DEF Create, PubTyped
  <2> QED  BY <1>1, <1>4, <2>1 DEF Create, PubTyped
<1>5. CASE Send  BY <1>1, <1>5 DEF Send, PubTyped
<1> QED
  BY <1>2, <1>3, <1>4, <1>5
  DEF ConsumerNext, Publisher, Consumer, AllDelivered, consumerVars, Expire,
      Subscribe, Open, AssignBegin, AskStarts, AssignResumed, AssignEnd,
      AssignFails, Fetch, CheckTopics, Fail, LoseTopics

\* The ends and the resumed offsets of topics are offsets.
LEMMA OffsetsAreNumbers ==
    ASSUME ConsumerTyped, OfWatched, AskedHold
    PROVE  /\ \A t \in Topics : End(t) \in Nat /\ log[t].start \in Nat
           /\ Resumed \subseteq Topics
           /\ con.pc = "seek" => \A t \in Resumed : ResumeAt(t) \in Nat
           /\ Held \subseteq Topics /\ con.new \subseteq Topics
<1>1. LogTyped /\ ReceiverTyped  BY DEF ConsumerTyped
<1>2. \A t \in Topics : End(t) \in Nat /\ log[t].start \in Nat
  BY <1>1, LenProperties DEF LogTyped, End
<1>3. con.new \subseteq Topics /\ Held \subseteq Topics
  BY <1>1 DEF OfWatched, ReceiverTyped
<1>4. \A t \in Resumed : t \in Topics /\ resume[t] \in Nat
  BY <1>1, <1>3 DEF Resumed, ReceiverTyped
<1>5. con.pc = "seek" => \A t \in Resumed : con.starts[t] \in Nat
  BY DEF AskedHold, ConsumerTyped, ConTyped
<1> QED  BY <1>2, <1>3, <1>4, <1>5 DEF ResumeAt

LEMMA ConStep == ConsumerInv /\ [ConsumerNext]_consumerVars => ConTyped'
<1> SUFFICES ASSUME ConsumerInv, [ConsumerNext]_consumerVars PROVE ConTyped'
  OBVIOUS
<1> USE DEF Held
<1>1. ConsumerTyped /\ OfWatched /\ AskedHold /\ ConTyped
  BY DEF ConsumerInv, ConsumerTyped
<1>2. CASE UNCHANGED con  BY <1>1, <1>2 DEF ConTyped
<1>3. ASSUME NEW pc \in {"down", "poll", "start", "seek", "end"}, NEW new, NEW ts,
             NEW at, NEW starts, NEW since,
             con' = [pc |-> pc, new |-> new, pos |-> Placed(ts, at),
                     starts |-> starts, since |-> since],
             \A t \in ts : at[t] \in Nat,
             \A t \in DOMAIN starts : starts[t] \in Nat
      PROVE  ConTyped'
  <2>1. con'.pos = Placed(ts, at) /\ con'.pc = pc /\ con'.new = new
        /\ con'.starts = starts /\ con'.since = since
    BY <1>3
  <2>2. DOMAIN con'.pos = Held \cup ts
        /\ \A t \in Held \cup ts : con'.pos[t] = IF t \in ts THEN at[t] ELSE con.pos[t]
    BY <2>1 DEF Placed
  <2>3. \A t \in DOMAIN con'.pos : con'.pos[t] \in Nat
    BY <1>1, <1>3, <2>2 DEF ConTyped
  <2>4. con' = [pc |-> con'.pc, new |-> con'.new, pos |-> con'.pos,
                starts |-> con'.starts, since |-> con'.since]
    BY <1>3, <2>1
  <2>5. \A t \in DOMAIN con'.starts : con'.starts[t] \in Nat  BY <1>3, <2>1
  <2> QED  BY <2>1, <2>3, <2>4, <2>5 DEF ConTyped
<1>4. CASE Open
  <2>1. con' = [pc |-> "poll", new |-> {}, pos |-> <<>>, starts |-> <<>>,
                since |-> sent]
    BY <1>4 DEF Open, NoConsumer
  <2> QED  BY <2>1 DEF ConTyped
<1>5. CASE AssignBegin
  <2>1. con' = [pc |-> "start", new |-> unassigned, pos |-> con.pos,
                starts |-> con.starts, since |-> con.since]
    BY <1>1, <1>5 DEF AssignBegin, ConTyped
  <2> QED  BY <1>1, <2>1 DEF ConTyped
<1>6. CASE AskStarts
  <2> DEFINE at == [t \in Resumed |-> log[t].start]
  <2>1. con' = [pc |-> "seek", new |-> con.new, pos |-> con.pos,
                starts |-> at, since |-> con.since]
    BY <1>1, <1>6 DEF AskStarts, ConTyped
  <2>2. \A t \in DOMAIN at : at[t] \in Nat  BY <1>1, OffsetsAreNumbers
  <2> HIDE DEF at
  <2> QED  BY <1>1, <2>1, <2>2 DEF ConTyped
<1>7. CASE AssignResumed
  <2> DEFINE at == [t \in Resumed |-> ResumeAt(t)]
  <2>1. con' = [pc |-> "end", new |-> con.new, pos |-> Placed(Resumed, at),
                starts |-> <<>>, since |-> con.since]
    BY <1>1, <1>7 DEF AssignResumed, ConTyped
  <2>2. \A t \in Resumed : at[t] \in Nat
    BY <1>1, <1>7, OffsetsAreNumbers DEF AssignResumed
  <2> HIDE DEF at
  <2> QED  BY <1>3, <2>1, <2>2
<1>8. CASE AssignEnd
  <2> DEFINE fresh == con.new \ Held
             at == [t \in fresh |-> End(t)]
  <2>1. con' = [pc |-> "poll", new |-> {}, pos |-> Placed(fresh, at),
                starts |-> con.starts, since |-> con.since]
    BY <1>1, <1>8 DEF AssignEnd, ConTyped
  <2>2. \A t \in fresh : at[t] \in Nat  BY <1>1, OffsetsAreNumbers
  <2>3. \A t \in DOMAIN con.starts : con.starts[t] \in Nat  BY <1>1 DEF ConTyped
  <2> HIDE DEF at, fresh
  <2> QED  BY <1>3, <2>1, <2>2, <2>3
<1>9. CASE Down  BY <1>9 DEF Down, NoConsumer, ConTyped
<1>10. CASE Fetch
  <2> DEFINE there == {t \in Held : log[t].exists}
             at == [t \in there |-> End(t)]
  <2>1. con' = [pc |-> "poll", new |-> con.new, pos |-> Placed(there, at),
                starts |-> con.starts, since |-> con.since]
    BY <1>1, <1>10 DEF Fetch, ConTyped
  <2>2. \A t \in there : at[t] \in Nat  BY <1>1, OffsetsAreNumbers
  <2>3. \A t \in DOMAIN con.starts : con.starts[t] \in Nat  BY <1>1 DEF ConTyped
  <2> HIDE DEF at, there
  <2> QED  BY <1>3, <2>1, <2>2, <2>3
<1> QED
  BY <1>2, <1>4, <1>5, <1>6, <1>7, <1>8, <1>9, <1>10
  DEF ConsumerNext, Publisher, Consumer, AllDelivered, consumerVars, PublishRecord,
      Expire, Create, Send, Subscribe, AssignFails, CheckTopics, Fail, LoseTopics

LEMMA ReceiverStep == ConsumerInv /\ [ConsumerNext]_consumerVars => ReceiverTyped'
<1> SUFFICES ASSUME ConsumerInv, [ConsumerNext]_consumerVars PROVE ReceiverTyped'
  OBVIOUS
<1>1. ConsumerTyped /\ OfWatched /\ AskedHold /\ ReceiverTyped
  BY DEF ConsumerInv, ConsumerTyped
<1>2. CASE UNCHANGED <<watched, resume>>  BY <1>1, <1>2 DEF ReceiverTyped
<1>3. ASSUME NEW t \in Topics, Subscribe(t) PROVE ReceiverTyped'
  BY <1>1, <1>3 DEF Subscribe, ReceiverTyped
<1>4. \A t \in Topics : End(t) \in Nat  BY <1>1, OffsetsAreNumbers
<1>5. CASE AssignEnd  BY <1>1, <1>4, <1>5 DEF AssignEnd, ReceiverTyped
<1>6. CASE Fetch  BY <1>1, <1>4, <1>6 DEF Fetch, ResumeAfter, ReceiverTyped
<1> QED
  BY <1>2, <1>3, <1>5, <1>6
  DEF ConsumerNext, Publisher, Consumer, AllDelivered, consumerVars, PublishRecord,
      Expire, Create, Send, Open, AssignBegin, AskStarts, AssignResumed, AssignFails,
      CheckTopics, Fail, LoseTopics, receiver

LEMMA HeardTypedStep ==
    ConsumerInv /\ [ConsumerNext]_consumerVars => HeardTyped' /\ HeardAsSent'
<1> SUFFICES ASSUME ConsumerInv, [ConsumerNext]_consumerVars
             PROVE  HeardTyped' /\ HeardAsSent'
  OBVIOUS
<1>1. ConsumerTyped /\ HeardTyped /\ LogTyped /\ HeardAsSent
  BY DEF ConsumerInv, ConsumerTyped
<1>2. CASE Fetch
  <2>1. sent' = sent  BY <1>2 DEF Fetch
  <2> QED  BY <1>2, <2>1, FetchIsHeard, NewestIsSent DEF ConsumerInv, HeardTyped
<1>3. CASE UNCHANGED history
  <2>1. sent <= sent' /\ sent \in Nat /\ sent' \in Nat  BY <1>1, LogStep DEF LogTyped
  <2>2. \A i \in DOMAIN heard : heard[i] \in Nat /\ heard[i] <= sent
    BY <1>1, LenProperties, ElementOfSeq DEF HeardTyped
  <2>3. \A i \in DOMAIN heard : heard[i] <= sent'  BY <2>1, <2>2
  <2>4. \A t \in Topics : newest[t] \in Nat /\ newest[t] <= sent
    BY <1>1 DEF HeardTyped
  <2>5. \A t \in Topics : newest[t] <= sent'  BY <2>1, <2>4
  <2> QED  BY <1>1, <1>3, <2>3, <2>5 DEF history, HeardTyped, HeardAsSent
<1> QED
  BY <1>2, <1>3
  DEF ConsumerNext, Publisher, Consumer, AllDelivered, consumerVars, PublishRecord,
      Expire, Create, Send, Fail, CheckTopics, AssignFails, LoseTopics, receiver,
      Subscribe, Open, AssignBegin, AskStarts, AssignResumed, AssignEnd, history

LEMMA ConsumerTypedStep == ConsumerInv /\ [ConsumerNext]_consumerVars => ConsumerTyped'
BY LogStep, PubStep, ConStep, ReceiverStep, HeardTypedStep DEF ConsumerTyped

LEMMA WatchedStep ==
    ConsumerInv /\ [ConsumerNext]_consumerVars => OfWatched' /\ ReadyIsHeld'
<1> SUFFICES ASSUME ConsumerInv, [ConsumerNext]_consumerVars
             PROVE  OfWatched' /\ ReadyIsHeld'
  OBVIOUS
<1> USE DEF Held
<1>1. ConsumerTyped /\ OfWatched /\ ReadyIsHeld  BY DEF ConsumerInv
<1>2. Data \subseteq Topics /\ Control \cap Data = {}  BY ConsumerAssumption DEF Topics
<1>3. CASE UNCHANGED <<con, watched, unassigned, ready, resume, broken>>
  BY <1>1, <1>3 DEF OfWatched, ReadyIsHeld
<1>4. ASSUME NEW t \in Topics, Subscribe(t) PROVE OfWatched' /\ ReadyIsHeld'
  BY <1>1, <1>4 DEF Subscribe, OfWatched, ReadyIsHeld
<1>5. CASE Open
  <2>1. ready = {}  BY <1>1, <1>5 DEF Open, ReadyIsHeld, ConsumerInv, TakenOn
  <2> QED  BY <1>1, <1>5, <2>1 DEF Open, NoConsumer, ToAssign, OfWatched, ReadyIsHeld
<1>6. CASE AssignBegin
  <2>1. con'.new = unassigned /\ con'.pos = con.pos
    BY <1>1, <1>6 DEF AssignBegin, ConsumerTyped, ConTyped
  <2> QED  BY <1>1, <1>6, <2>1 DEF AssignBegin, OfWatched, ReadyIsHeld
<1>7. CASE AssignResumed
  <2>1. con'.new = con.new /\ DOMAIN con'.pos = Held \cup Resumed
    BY <1>1, <1>7 DEF Placed, AssignResumed, ConsumerTyped, ConTyped
  <2>2. Resumed \subseteq con.new  BY DEF Resumed
  <2> QED  BY <1>1, <1>7, <2>1, <2>2
           DEF AssignResumed, receiver, OfWatched, ReadyIsHeld
<1>8. CASE AssignEnd
  <2>1. con'.new = {} /\ DOMAIN con'.pos = Held \cup con.new
    BY <1>8 DEF Placed, AssignEnd
  <2>2. \A t \in Topics : resume'[t] = resume[t] \/ t \in con.new \cap Control
    BY <1>8 DEF AssignEnd
  <2> QED  BY <1>1, <1>2, <1>8, <2>1, <2>2, ZenonT(60) DEF AssignEnd, OfWatched, ReadyIsHeld
<1>9. CASE Down /\ UNCHANGED <<watched, unassigned, resume, broken>>
  BY <1>1, <1>9 DEF Down, NoConsumer, OfWatched, ReadyIsHeld
<1>10. CASE Fetch
  <2> DEFINE there == {t \in Held : log[t].exists}
             read == {t \in there : InRange(t) /\ con.pos[t] < End(t)}
  <2>1. con'.new = con.new /\ DOMAIN con'.pos = Held
    <3>1. con' = [con EXCEPT !.pos = Placed(there, [t \in there |-> End(t)])]
      BY <1>10 DEF Fetch
    <3>2. DOMAIN Placed(there, [t \in there |-> End(t)]) = Held  BY DEF Placed
    <3> QED  BY <1>1, <3>1, <3>2 DEF ConsumerTyped, ConTyped
  <2>2. \A t \in Topics : resume'[t] = resume[t] \/ t \in Held \cap Control
    BY <1>10 DEF Fetch, ResumeAfter
  <2>3. broken' \subseteq broken /\ UNCHANGED <<watched, unassigned, ready>>
    BY <1>10 DEF Fetch
  <2> QED  BY <1>1, <1>2, <2>1, <2>2, <2>3 DEF OfWatched, ReadyIsHeld
<1>11. CASE LoseTopics
  BY <1>1, <1>11 DEF LoseTopics, receiver, OfWatched, ReadyIsHeld
<1>12. CASE AskStarts
  <2>1. con'.new = con.new /\ con'.pos = con.pos
    BY <1>1, <1>12 DEF AskStarts, ConsumerTyped, ConTyped
  <2> QED  BY <1>1, <1>12, <2>1 DEF AskStarts, receiver, OfWatched, ReadyIsHeld
<1> QED
  BY <1>3, <1>4, <1>5, <1>6, <1>7, <1>8, <1>9, <1>10, <1>11, <1>12
  DEF ConsumerNext, Publisher, Consumer, AllDelivered, consumerVars, PublishRecord,
      Expire, Create, Send, Fail, CheckTopics, AssignFails, receiver

LEMMA TakenOnStep == ConsumerInv /\ [ConsumerNext]_consumerVars => TakenOn'
<1> SUFFICES ASSUME ConsumerInv, [ConsumerNext]_consumerVars PROVE TakenOn'
  OBVIOUS
<1> USE DEF Held
<1>1. ConsumerTyped /\ OfWatched /\ TakenOn  BY DEF ConsumerInv
<1>2. CASE UNCHANGED <<con, unassigned, resume>>  BY <1>1, <1>2 DEF TakenOn
<1>3. ASSUME NEW t \in Topics, Subscribe(t) PROVE TakenOn'
  BY <1>1, <1>3 DEF Subscribe, TakenOn
<1>4. CASE Open
  <2>1. con'.pc = "poll" /\ DOMAIN con'.pos = {} /\ resume' = resume
    BY <1>4 DEF Open, NoConsumer
  <2>2. watched \subseteq unassigned'  BY <1>4 DEF Open, ToAssign
  <2> QED  BY <1>1, <2>1, <2>2 DEF TakenOn, OfWatched
<1>5. CASE AssignBegin
  <2>1. con'.pc = "start" /\ con'.new = unassigned /\ con'.pos = con.pos
    BY <1>1, <1>5 DEF AssignBegin, ConsumerTyped, ConTyped
  <2> QED  BY <1>1, <1>5, <2>1 DEF AssignBegin, TakenOn
<1>6. CASE AssignResumed
  <2>1. con'.pc = "end" /\ DOMAIN con'.pos = Held \cup Resumed
    BY <1>1, <1>6 DEF Placed, AssignResumed, ConsumerTyped, ConTyped
  <2>2. con.pc = "seek" /\ resume' = resume  BY <1>6 DEF AssignResumed, receiver
  <2> QED  BY <1>1, <2>1, <2>2 DEF TakenOn, Resumed
<1>7. CASE AssignEnd
  <2>1. con'.pc = "poll" /\ DOMAIN con'.pos = Held \cup con.new
    BY <1>7 DEF Placed, AssignEnd
  <2>2. \A t \in Topics : resume'[t] = resume[t] \/ t \in con.new
    BY <1>7 DEF AssignEnd
  <2>3. con.pc = "end"  BY <1>7 DEF AssignEnd
  <2> QED  BY <1>1, <2>1, <2>2, <2>3 DEF TakenOn
<1>8. CASE Down /\ UNCHANGED resume  BY <1>8 DEF Down, NoConsumer, TakenOn
<1>9. CASE Fetch
  <2> DEFINE there == {t \in Held : log[t].exists}
  <2>1. con'.pc = con.pc /\ DOMAIN con'.pos = Held
    <3>1. con' = [con EXCEPT !.pos = Placed(there, [t \in there |-> End(t)])]
      BY <1>9 DEF Fetch
    <3>2. DOMAIN Placed(there, [t \in there |-> End(t)]) = Held  BY DEF Placed
    <3> QED  BY <1>1, <3>1, <3>2 DEF ConsumerTyped, ConTyped
  <2>2. \A t \in Topics : resume'[t] = resume[t] \/ t \in Held
    BY <1>9 DEF Fetch, ResumeAfter
  <2>3. con.pc = "poll" /\ unassigned' = unassigned /\ Held # {}
    BY <1>9 DEF Fetch
  <2> QED  BY <1>1, <2>1, <2>2, <2>3 DEF TakenOn
<1>10. CASE AskStarts
  <2>1. con'.pc = "seek" /\ con'.new = con.new /\ con'.pos = con.pos
    BY <1>1, <1>10 DEF AskStarts, ConsumerTyped, ConTyped
  <2>2. con.pc = "start" /\ resume' = resume /\ unassigned' = unassigned
    BY <1>10 DEF AskStarts, receiver
  <2> QED  BY <1>1, <2>1, <2>2 DEF TakenOn
<1> QED
  BY <1>2, <1>3, <1>4, <1>5, <1>6, <1>7, <1>8, <1>9, <1>10
  DEF ConsumerNext, Publisher, Consumer, AllDelivered, consumerVars, PublishRecord,
      Expire, Create, Send, Fail, CheckTopics, AssignFails, LoseTopics, receiver


-----------------------------------------------------------------------------
(* Where reading goes on *)

\* A topic whose log, positions and what was heard all stay goes on.
LEMMA GoesOnKept ==
    ASSUME NEW t, GoesOn(t), log'[t] = log[t], resume'[t] = resume[t],
           UNCHANGED <<con, history>>
    PROVE  GoesOn(t)'
BY DEF GoesOn, NewerFrom, PassedFrom, End, Held, history

\* So does one that the consumer no longer holds.
LEMMA GoesOnUnheld ==
    ASSUME NEW t, GoesOn(t), log'[t] = log[t], resume'[t] = resume[t],
           t \notin Held', UNCHANGED history
    PROVE  GoesOn(t)'
BY DEF GoesOn, NewerFrom, End, history

\* Nothing of a topic stands behind its end.
LEMMA NothingAfterEnd ==
    ASSUME ConsumerTyped, NEW t \in Topics
    PROVE  /\ \A j \in DOMAIN log[t].recs : ~(log[t].start + j > End(t))
           /\ End(t) \in Nat /\ log[t].start \in Nat /\ log[t].start <= End(t)
<1>1. log[t].recs \in Seq(Nat) /\ log[t].start \in Nat
  BY DEF ConsumerTyped, LogTyped
<1>2. DOMAIN log[t].recs = 1..Len(log[t].recs) /\ Len(log[t].recs) \in Nat
  BY <1>1, LenProperties
<1> QED  BY <1>1, <1>2, SMTT(30) DEF End

\* What was sent last is newer than all that was heard, and past every
\* position.
LEMMA GoesOnTaken ==
    ASSUME ConsumerTyped, OfWatched, NEW t \in Topics, RecordTaken(t), GoesOn(t),
           UNCHANGED <<con, resume, history>>
    PROVE  GoesOn(t)'
<1> DEFINE n == Len(log[t].recs)
<1>1. /\ n \in Nat /\ log[t].start \in Nat /\ log'[t].start = log[t].start
      /\ log'[t].exists /\ Len(log'[t].recs) = n + 1
      /\ End(t) = log[t].start + n /\ End(t)' = log[t].start + n + 1
  BY TakenHolds DEF ConsumerTyped, LogTyped, End
<1>2. UNCHANGED <<con, resume, heard, newest, passed>>  BY DEF history
<1>3. ASSUME NEW j \in DOMAIN log'[t].recs
      PROVE  \/ /\ j \in DOMAIN log[t].recs
                /\ log'[t].recs[j] = log[t].recs[j]
             \/ /\ log'[t].start + j > End(t)
                /\ newest[t] < log'[t].recs[j]
                /\ \A i \in DOMAIN heard : heard[i] < log'[t].recs[j]
  <2>1. j \in 1..(n + 1) /\ DOMAIN log[t].recs = 1..n  BY TakenHolds
  <2>2. CASE j = n + 1
    <3>1. log'[t].recs[j] = sent + 1  BY <2>2, TakenHolds
    <3>2. sent \in Nat /\ newest[t] \in Nat /\ newest[t] <= sent
      BY DEF ConsumerTyped, HeardTyped, LogTyped
    <3>3. \A i \in DOMAIN heard : heard[i] \in Nat /\ heard[i] <= sent
      BY LenProperties, ElementOfSeq DEF ConsumerTyped, HeardTyped
    <3>4. newest[t] < sent + 1 /\ \A i \in DOMAIN heard : heard[i] < sent + 1
      BY <3>2, <3>3
    <3>5. log'[t].start + j > End(t)  BY <1>1, <2>2
    <3> QED  BY <3>1, <3>4, <3>5
  <2>3. CASE j # n + 1
    <3>1. j \in 1..n  BY <1>1, <2>1, <2>3
    <3>2. log'[t].recs[j] = log[t].recs[j]  BY <3>1, TakenHolds
    <3> QED  BY <2>1, <3>1, <3>2
  <2> QED  BY <2>2, <2>3
<1>4. ASSUME NEW p, NewerFrom(t, p), p' = p
      PROVE  NewerFrom(t, p)'
  <2> SUFFICES ASSUME NEW j \in DOMAIN log'[t].recs, log'[t].start + j > p
               PROVE  /\ newest[t] < log'[t].recs[j]
                      /\ \/ log'[t].recs[j] \in passed
                         \/ \A i \in DOMAIN heard : heard[i] < log'[t].recs[j]
    BY <1>2, <1>4 DEF NewerFrom
  <2> QED  BY <1>1, <1>3, <1>4 DEF NewerFrom
<1>5. t \in Held => con.pos[t] \in Int  BY DEF ConsumerTyped, ConTyped
<1>6. resume[t] \in Int  BY DEF ConsumerTyped, ReceiverTyped, Unknown
<1>7. t \in Held => NewerFrom(t, con.pos[t])'  BY <1>2, <1>4 DEF GoesOn
<1>8. resume[t] # Unknown => NewerFrom(t, resume[t])'  BY <1>2, <1>4 DEF GoesOn
<1>9. t \in Held => con.pos[t] <= End(t)'  BY <1>1, <1>5 DEF GoesOn
<1>10. resume[t] # Unknown => resume[t] <= End(t)'  BY <1>1, <1>6 DEF GoesOn
<1>11. t \in Held /\ resume[t] # Unknown => PassedFrom(t, resume[t], con.pos[t])'
  <2> SUFFICES ASSUME t \in Held, resume[t] # Unknown,
                      NEW j \in DOMAIN log'[t].recs, log'[t].start + j > resume[t],
                      log'[t].start + j <= con.pos[t]
               PROVE  log'[t].recs[j] \in passed
    BY <1>2 DEF PassedFrom
  <2>1. con.pos[t] <= End(t) /\ con.pos[t] \in Int  BY <1>5 DEF GoesOn
  <2>2. j \in Int /\ End(t) \in Int  BY <1>1, TakenHolds
  <2>3. ~(log'[t].start + j > End(t))
    <3>1. \A a, b, c \in Int : a <= b /\ b <= c => ~(a > c)  OBVIOUS
    <3>2. log'[t].start + j \in Int  BY <1>1, <2>2
    <3> QED  BY <2>1, <2>2, <3>1, <3>2
  <2>4. j \in DOMAIN log[t].recs /\ log'[t].recs[j] = log[t].recs[j]
    BY <1>3, <2>3
  <2> QED  BY <1>1, <2>4 DEF GoesOn, PassedFrom
<1> QED
  BY <1>1, <1>2, <1>7, <1>8, <1>9, <1>10, <1>11 DEF GoesOn, Held

\* A record that expires, read or not, changes nothing of where reading goes on.
LEMMA GoesOnExpired ==
    ASSUME ConsumerTyped, OfWatched, NEW t \in Topics, Expire(t), GoesOn(t)
    PROVE  GoesOn(t)'
<1> DEFINE n == Len(log[t].recs)
<1>1. /\ n \in Nat \ {0} /\ log[t].start \in Nat /\ log'[t].start = log[t].start + 1
      /\ log'[t].exists = log[t].exists /\ Len(log'[t].recs) = n - 1
      /\ End(t) = log[t].start + n /\ End(t)' = log[t].start + 1 + (n - 1)
  BY ExpireHolds DEF ConsumerTyped, LogTyped, End
<1>2. UNCHANGED <<con, resume, heard, newest, passed>>
  BY DEF Expire, receiver, history
<1>3. ASSUME NEW j \in DOMAIN log'[t].recs
      PROVE  /\ j + 1 \in DOMAIN log[t].recs
             /\ log'[t].recs[j] = log[t].recs[j + 1]
             /\ log'[t].start + j = log[t].start + (j + 1)
  <2>1. j \in 1..(n - 1) /\ DOMAIN log[t].recs = 1..n  BY ExpireHolds
  <2>2. j + 1 \in 1..n  BY <1>1, <2>1, SMTT(30)
  <2>3. log'[t].recs[j] = log[t].recs[j + 1]  BY <2>1, ExpireHolds
  <2>4. log'[t].start + j = log[t].start + (j + 1)  BY <1>1, <2>1
  <2> QED  BY <2>1, <2>2, <2>3, <2>4
<1>4. ASSUME NEW p, NewerFrom(t, p), p' = p PROVE NewerFrom(t, p)'
  <2> SUFFICES ASSUME NEW j \in DOMAIN log'[t].recs, log'[t].start + j > p
               PROVE  /\ newest[t] < log'[t].recs[j]
                      /\ \/ log'[t].recs[j] \in passed
                         \/ \A i \in DOMAIN heard : heard[i] < log'[t].recs[j]
    BY <1>2, <1>4 DEF NewerFrom
  <2>1. log[t].start + (j + 1) > p  BY <1>3
  <2> QED  BY <1>3, <1>4, <2>1 DEF NewerFrom
<1>5. t \in Held => NewerFrom(t, con.pos[t])'  BY <1>2, <1>4 DEF GoesOn
<1>6. resume[t] # Unknown => NewerFrom(t, resume[t])'  BY <1>2, <1>4 DEF GoesOn
<1>7. t \in Held /\ resume[t] # Unknown => PassedFrom(t, resume[t], con.pos[t])'
  <2> SUFFICES ASSUME t \in Held, resume[t] # Unknown,
                      NEW j \in DOMAIN log'[t].recs, log'[t].start + j > resume[t],
                      log'[t].start + j <= con.pos[t]
               PROVE  log'[t].recs[j] \in passed
    BY <1>2 DEF PassedFrom
  <2>1. log[t].start + (j + 1) > resume[t] /\ log[t].start + (j + 1) <= con.pos[t]
    BY <1>3
  <2>2. PassedFrom(t, resume[t], con.pos[t])  BY DEF GoesOn
  <2>3. log[t].recs[j + 1] \in passed  BY <1>3, <2>1, <2>2 DEF PassedFrom
  <2> QED  BY <1>3, <2>3
<1>8. End(t)' = End(t)
  <2>1. \A x, y \in Nat : x + 1 + (y - 1) = x + y  OBVIOUS
  <2> QED  BY <1>1, <2>1
<1> QED  BY <1>1, <1>2, <1>5, <1>6, <1>7, <1>8 DEF GoesOn, Held

\* A topic taken on again goes on where it was, or where its log started when
\* that was asked: before all that is kept, since it may have aged on.
LEMMA GoesOnResumed ==
    ASSUME ConsumerTyped, OfWatched, AskedHold, AssignResumed,
           NEW t \in Topics \ broken, GoesOn(t)
    PROVE  GoesOn(t)'
<1>1. UNCHANGED <<log, resume, heard, newest, passed>>
  BY DEF AssignResumed, receiver, history
<1>2. /\ DOMAIN con'.pos = Held \cup Resumed
      /\ \A u \in Held \cup Resumed :
           con'.pos[u] = IF u \in Resumed THEN ResumeAt(u) ELSE con.pos[u]
  BY DEF AssignResumed, ConsumerTyped, ConTyped, Placed
<1>3. CASE t \notin Resumed
  <2>1. t \in Held' <=> t \in Held  BY <1>2, <1>3 DEF Held
  <2>2. t \in Held => con'.pos[t] = con.pos[t]  BY <1>2, <1>3
  <2> QED  BY <1>1, <2>1, <2>2 DEF GoesOn, NewerFrom, PassedFrom, End
<1>4. CASE t \in Resumed
  <2> DEFINE from == resume[t]
             at == ResumeAt(t)
             begin == log[t].start
  <2>1. from # Unknown /\ from \in Nat
    BY <1>4 DEF Resumed, ConsumerTyped, ReceiverTyped
  <2>2. log[t].exists /\ from <= End(t) /\ NewerFrom(t, from)
    BY <2>1 DEF GoesOn
  <2>3. con'.pos[t] = at /\ t \in Held'  BY <1>2, <1>4 DEF Held
  <2>4. End(t) \in Nat /\ begin \in Nat /\ begin <= End(t)
    BY NothingAfterEnd
  <2>5. con.starts[t] \in Nat /\ con.starts[t] <= begin
    BY <1>4 DEF AskedHold, AssignResumed, ConsumerTyped, ConTyped
  <2>6. at \in Nat /\ at <= End(t) /\ from <= at /\ (from = at \/ at <= begin)
    BY <2>1, <2>2, <2>4, <2>5 DEF ResumeAt
  <2>7. \A j \in DOMAIN log[t].recs : j \in Nat \ {0}
    BY LenProperties DEF ConsumerTyped, LogTyped
  <2> HIDE DEF from, at, begin
  <2>8. \A j \in Nat : begin + j > at => begin + j > from
    BY <2>1, <2>4, <2>6
  <2>9. \A j \in Nat \ {0} : ~(begin + j > from /\ begin + j <= at)
    BY <2>1, <2>4, <2>6
  <2>10. NewerFrom(t, at)  BY <2>2, <2>7, <2>8 DEF NewerFrom, begin
  <2>11. PassedFrom(t, from, at)  BY <2>7, <2>9 DEF PassedFrom, begin
  <2> QED
    BY <1>1, <2>2, <2>3, <2>6, <2>10, <2>11
    DEF GoesOn, NewerFrom, PassedFrom, End, from
<1> QED  BY <1>3, <1>4

LEMMA GoesOnAssigned ==
    ASSUME ConsumerTyped, OfWatched, AssignEnd, NEW t \in Topics,
           GoesOn(t) \/ t \in con.new \ Held
    PROVE  GoesOn(t)'
<1> DEFINE fresh == con.new \ Held
<1>1. UNCHANGED <<log, heard, newest, passed>>  BY DEF AssignEnd, history
<1>2. /\ DOMAIN con'.pos = Held \cup fresh
      /\ \A u \in Held \cup fresh :
           con'.pos[u] = IF u \in fresh THEN End(u) ELSE con.pos[u]
  BY DEF AssignEnd, Placed, ConsumerTyped, ConTyped
<1>3. resume'[t] = IF t \in fresh \cap Control THEN End(t) ELSE resume[t]
  BY DEF AssignEnd
<1>4. CASE t \notin fresh
  <2>1. t \in Held' <=> t \in Held  BY <1>2, <1>4 DEF Held
  <2>2. t \in Held => con'.pos[t] = con.pos[t]  BY <1>2, <1>4
  <2> QED  BY <1>1, <1>3, <1>4, <2>1, <2>2 DEF GoesOn, NewerFrom, PassedFrom, End
<1>5. CASE t \in fresh
  <2>1. log[t].exists  BY <1>5 DEF AssignEnd
  <2>2. con'.pos[t] = End(t) /\ t \in Held'  BY <1>2, <1>5 DEF Held
  <2>3. /\ \A j \in DOMAIN log[t].recs : ~(log[t].start + j > End(t))
        /\ End(t) \in Nat /\ log[t].start <= End(t)
    BY NothingAfterEnd
  <2>4. resume'[t] = End(t) \/ resume'[t] = Unknown
    <3>1. CASE t \in Control  BY <1>3, <1>5, <3>1
    <3>2. CASE t \notin Control
      BY <1>3, <3>2, ConsumerAssumption DEF Topics, OfWatched
    <3> QED  BY <3>1, <3>2
  <2>5. End(t)' = End(t)  BY <1>1 DEF End
  <2> QED
    BY <1>1, <2>1, <2>2, <2>3, <2>4, <2>5 DEF GoesOn, NewerFrom, PassedFrom
<1> QED  BY <1>4, <1>5

\* What a fetch reads of a topic leaves nothing of it behind, and what a reset
\* leaves behind was passed over.
LEMMA GoesOnFetched ==
    ASSUME ConsumerTyped, OfWatched, TakenOn, Fetch, NEW t \in watched \ broken',
           t \notin broken => GoesOn(t)
    PROVE  GoesOn(t)'
<1> DEFINE there == {u \in Held : log[u].exists}
           read == {u \in there : InRange(u) /\ con.pos[u] < End(u)}
           reset == {u \in there \ broken : ~InRange(u)}
<1>1. /\ log' = log /\ broken' = broken \ read /\ con.pc = "poll" /\ Held # {}
      /\ newest' = NewestOf(read)
      /\ passed' = passed \cup UNION {Batch(u) : u \in reset}
  BY DEF Fetch
<1>2. DOMAIN con'.pos = Held /\ \A u \in there : con'.pos[u] = End(u)
  <2>1. con' = [con EXCEPT !.pos = Placed(there, [u \in there |-> End(u)])]
    BY DEF Fetch
  <2>2. /\ DOMAIN Placed(there, [u \in there |-> End(u)]) = Held
        /\ \A u \in there : Placed(there, [v \in there |-> End(v)])[u] = End(u)
    BY DEF Placed
  <2> QED  BY <2>1, <2>2 DEF ConsumerTyped, ConTyped
<1>3. t \in Topics  BY DEF ConsumerTyped, ReceiverTyped
<1>4. resume'[t] = IF t \in read \cap Control THEN End(t) ELSE resume[t]
  BY <1>3 DEF Fetch, ResumeAfter
<1>5. /\ \A j \in DOMAIN log[t].recs : ~(log[t].start + j > End(t))
      /\ End(t) \in Nat /\ log[t].start \in Nat /\ log[t].start <= End(t)
      /\ End(t)' = End(t)
  BY <1>1, <1>3, NothingAfterEnd DEF End
<1>6. CASE t \in read
  <2>1. resume'[t] = End(t) \/ resume'[t] = Unknown
    <3>1. CASE t \in Control  BY <1>4, <1>6, <3>1
    <3>2. CASE t \notin Control
      BY <1>3, <1>4, <3>2, ConsumerAssumption DEF Topics, OfWatched
    <3> QED  BY <3>1, <3>2
  <2>2. log[t].exists /\ con'.pos[t] = End(t) /\ t \in Held'
    BY <1>2, <1>6 DEF Held
  <2> HIDE DEF read, reset
  <2> QED  BY <1>1, <1>5, <2>1, <2>2 DEF GoesOn, NewerFrom, PassedFrom
<1>7. CASE t \notin read
  <2>1. t \notin broken /\ resume'[t] = resume[t]  BY <1>1, <1>4, <1>7
  <2>2. GoesOn(t)  BY <2>1
  <2>3. newest'[t] = newest[t]
    <3> HIDE DEF read
    <3> QED  BY <1>1, <1>3, <1>7 DEF NewestOf
  <2>4. CASE t \in Held
    <3>1. t \in there /\ con.pos[t] <= End(t) /\ con.pos[t] \in Nat
      BY <2>2, <2>4 DEF GoesOn, ConsumerTyped, ConTyped
    <3>2. t \in reset \/ con.pos[t] = End(t)
      <4>1. CASE InRange(t)  BY <1>5, <1>7, <3>1, <4>1
      <4>2. CASE ~InRange(t)  BY <2>1, <3>1, <4>2
      <4> QED  BY <4>1, <4>2
    <3>3. con'.pos[t] = End(t) /\ t \in Held'  BY <1>2, <2>4, <3>1 DEF Held
    <3>4. ASSUME resume[t] # Unknown, NEW j \in DOMAIN log[t].recs,
                 log[t].start + j > resume[t]
          PROVE  log[t].recs[j] \in passed'
      <4>1. CASE log[t].start + j > con.pos[t]
        <5>1. con.pos[t] # End(t)  BY <1>5, <4>1
        <5>2. t \in reset  BY <3>2, <5>1
        <5>3. log[t].recs[j] \in Batch(t)  BY <4>1 DEF Batch
        <5> HIDE DEF reset
        <5> QED  BY <1>1, <5>2, <5>3
      <4>2. CASE ~(log[t].start + j > con.pos[t])
        <5>1. j \in Nat
          BY <1>3, LenProperties DEF ConsumerTyped, LogTyped
        <5>2. log[t].start + j <= con.pos[t]  BY <1>5, <3>1, <4>2, <5>1
        <5>3. PassedFrom(t, resume[t], con.pos[t])  BY <2>2, <2>4, <3>4 DEF GoesOn
        <5>4. log[t].recs[j] \in passed  BY <3>4, <5>2, <5>3 DEF PassedFrom
        <5> HIDE DEF reset
        <5> QED  BY <1>1, <5>4
      <4> QED  BY <4>1, <4>2
    <3> HIDE DEF read, reset, there
    <3>5. resume[t] # Unknown => NewerFrom(t, resume[t])'
      <4> SUFFICES ASSUME resume[t] # Unknown, NEW j \in DOMAIN log[t].recs,
                          log[t].start + j > resume[t]
                   PROVE  newest[t] < log[t].recs[j] /\ log[t].recs[j] \in passed'
        BY <1>1, <2>1, <2>3 DEF NewerFrom
      <4>1. NewerFrom(t, resume[t])  BY <2>2 DEF GoesOn
      <4>2. newest[t] < log[t].recs[j]  BY <4>1 DEF NewerFrom
      <4>3. log[t].recs[j] \in passed'  BY <3>4
      <4> QED  BY <4>2, <4>3
    <3>6. resume[t] # Unknown => PassedFrom(t, resume[t], con.pos[t])'
      BY <1>1, <2>1, <3>4 DEF PassedFrom
    <3>7. NewerFrom(t, con.pos[t])'  BY <1>1, <1>5, <3>3 DEF NewerFrom
    <3>8. log'[t].exists /\ con'.pos[t] <= End(t)'
          /\ (resume[t] # Unknown => resume[t] <= End(t)')
      BY <1>1, <1>5, <2>2, <2>4, <3>3 DEF GoesOn
    <3> QED  BY <2>1, <3>5, <3>6, <3>7, <3>8 DEF GoesOn
  <2>5. CASE t \notin Held
    <3>1. resume[t] = Unknown  BY <1>1, <1>3, <2>5 DEF TakenOn
    <3>2. t \notin Held'  BY <1>2, <2>5 DEF Held
    <3> QED  BY <2>1, <3>1, <3>2 DEF GoesOn
  <2> QED  BY <2>4, <2>5
<1> QED  BY <1>6, <1>7

\* What an assignment was told stays true until it seeks: a log only ages.
LEMMA AskedStep == ConsumerInv /\ [ConsumerNext]_consumerVars => AskedHold'
<1> SUFFICES ASSUME ConsumerInv, [ConsumerNext]_consumerVars, con'.pc = "seek"
             PROVE  /\ Resumed' \subseteq DOMAIN con'.starts
                    /\ \A t \in Resumed' \ broken' : con'.starts[t] <= log'[t].start
  BY DEF AskedHold
<1>1. ConsumerTyped /\ OfWatched /\ AskedHold /\ PositionsHold  BY DEF ConsumerInv
<1>2. Resumed \subseteq watched /\ watched \subseteq Topics
  BY <1>1 DEF Resumed, OfWatched, ConsumerTyped, ReceiverTyped
<1>3. \A t \in Resumed \ broken : log[t].exists
  BY <1>1, <1>2 DEF Resumed, PositionsHold, GoesOn
<1>4. CASE AskStarts
  <2>1. con' = [pc |-> "seek", new |-> con.new, pos |-> con.pos,
                starts |-> [t \in Resumed |-> log[t].start], since |-> con.since]
    BY <1>1, <1>4 DEF AskStarts, ConsumerTyped, ConTyped
  <2>2. UNCHANGED <<log, resume, broken>>  BY <1>4 DEF AskStarts, receiver
  <2>3. Resumed' = Resumed  BY <2>1, <2>2 DEF Resumed, Held
  <2>4. con'.starts = [t \in Resumed |-> log[t].start]  BY <2>1
  <2>5. \A t \in Topics : log[t].start \in Nat  BY <1>1, OffsetsAreNumbers
  <2>6. ASSUME NEW t \in Resumed PROVE con'.starts[t] <= log'[t].start
    <3>1. con'.starts[t] = log[t].start /\ log'[t] = log[t]  BY <2>2, <2>4
    <3>2. log[t].start \in Nat  BY <1>2, <2>5
    <3> QED  BY <3>1, <3>2
  <2> QED  BY <2>3, <2>4, <2>6
<1>5. ASSUME UNCHANGED <<con, resume>>, broken \subseteq broken',
             \A t \in Resumed \ broken' :
               log[t].start <= log'[t].start /\ log'[t].start \in Nat
      PROVE  /\ Resumed' \subseteq DOMAIN con'.starts
             /\ \A t \in Resumed' \ broken' : con'.starts[t] <= log'[t].start
  <2>1. Resumed' = Resumed /\ con.pc = "seek"  BY <1>5 DEF Resumed, Held
  <2>2. Resumed \subseteq DOMAIN con.starts  BY <1>1, <2>1 DEF AskedHold
  <2>3. ASSUME NEW t \in Resumed \ broken' PROVE con'.starts[t] <= log'[t].start
    <3>1. con.starts[t] <= log[t].start /\ con.starts[t] \in Nat
      BY <1>1, <1>5, <2>1, <2>2 DEF AskedHold, ConsumerTyped, ConTyped
    <3>2. log[t].start <= log'[t].start /\ log'[t].start \in Nat  BY <1>5
    <3>3. log[t].start \in Nat  BY <1>1, <1>2, OffsetsAreNumbers
    <3> QED  BY <1>5, <3>1, <3>2, <3>3
  <2> QED  BY <1>5, <2>1, <2>2, <2>3
<1>6. \A t \in Resumed : log[t].start \in Nat  BY <1>1, <1>2, OffsetsAreNumbers
<1>7. CASE UNCHANGED <<log, con, resume, broken>>  BY <1>5, <1>6, <1>7
<1>8. ASSUME NEW t \in Topics, Expire(t)
      PROVE  /\ Resumed' \subseteq DOMAIN con'.starts
             /\ \A u \in Resumed' \ broken' : con'.starts[u] <= log'[u].start
  <2>1. UNCHANGED <<con, resume, broken>>  BY <1>8 DEF Expire, receiver
  <2>2. \A u \in Topics : u # t => log'[u] = log[u]  BY <1>1, <1>8, ExpireHolds
  <2>3. log'[t].start = log[t].start + 1  BY <1>1, <1>8, ExpireHolds
  <2>4. ASSUME NEW u \in Resumed
        PROVE  log[u].start <= log'[u].start /\ log'[u].start \in Nat
    <3>1. CASE u = t  BY <1>6, <2>3, <3>1
    <3>2. CASE u # t  BY <1>2, <1>6, <2>2, <3>2
    <3> QED  BY <3>1, <3>2
  <2> QED  BY <1>5, <2>1, <2>4
<1>9. CASE Create
  <2>1. UNCHANGED <<con, resume, broken>>  BY <1>9 DEF Create, receiver
  <2>2. log \in [Topics -> [exists : BOOLEAN, start : Nat, recs : Seq(Nat)]]
    BY <1>1 DEF ConsumerTyped, LogTyped
  <2>3. \A u \in Topics : log[u].exists => log'[u] = log[u]
    BY <1>9, <2>2 DEF Create
  <2>4. \A t \in Resumed \ broken : log'[t] = log[t]  BY <1>2, <1>3, <2>3
  <2> QED  BY <1>5, <1>6, <2>1, <2>4
<1>10. CASE Send
  <2>1. UNCHANGED <<con, resume, broken>>  BY <1>10 DEF Send, receiver
  <2>2. CASE UNCHANGED log  BY <1>7, <2>1, <2>2
  <2>3. CASE RecordTaken(pub.topic)
    <3>1. PICK u \in Topics : u = pub.topic
      BY <1>1, <1>10 DEF Send, ConsumerTyped, PubTyped
    <3>2. RecordTaken(u)  BY <2>3, <3>1
    <3>3. \A t \in Topics : log'[t].start = log[t].start
      BY <1>1, <3>2, TakenHolds
    <3>4. \A t \in Resumed : log'[t].start = log[t].start  BY <1>2, <3>3
    <3> QED  BY <1>5, <1>6, <2>1, <3>4
  <2> QED  BY <1>10, <2>2, <2>3 DEF Send
<1>11. CASE LoseTopics
  <2>1. UNCHANGED <<con, resume>> /\ broken' = watched
    BY <1>11 DEF LoseTopics, receiver
  <2>2. broken \subseteq watched  BY <1>1 DEF OfWatched
  <2> QED  BY <1>2, <1>5, <2>1, <2>2
<1>12. ~(Open \/ AssignBegin \/ AssignResumed \/ AssignEnd \/ Fetch \/ Down)
  <2>1. Open => con'.pc = "poll"  BY DEF Open, NoConsumer
  <2>2. Down => con'.pc = "down"  BY DEF Down, NoConsumer
  <2>3. AssignBegin => con'.pc = "start"
    BY <1>1 DEF AssignBegin, ConsumerTyped, ConTyped
  <2>4. AssignResumed => con'.pc = "end"
    BY <1>1 DEF AssignResumed, ConsumerTyped, ConTyped
  <2>5. AssignEnd => con'.pc = "poll"
    BY <1>1 DEF AssignEnd, ConsumerTyped, ConTyped
  <2>6. Fetch => con'.pc = con.pc /\ con.pc = "poll"
    BY <1>1 DEF Fetch, ConsumerTyped, ConTyped
  <2> QED  BY <2>1, <2>2, <2>3, <2>4, <2>5, <2>6
<1> QED
  BY <1>4, <1>7, <1>8, <1>9, <1>10, <1>11, <1>12
  DEF ConsumerNext, Publisher, Consumer, AllDelivered, consumerVars, PublishRecord,
      Subscribe, AssignFails, CheckTopics, Fail, receiver

LEMMA PositionsStep == ConsumerInv /\ [ConsumerNext]_consumerVars => PositionsHold'
<1> SUFFICES ASSUME ConsumerInv, [ConsumerNext]_consumerVars,
                    NEW t \in watched' \ broken'
             PROVE  GoesOn(t)'
  BY DEF PositionsHold
<1>1. ConsumerTyped /\ OfWatched /\ TakenOn /\ AskedHold /\ PositionsHold
  BY DEF ConsumerInv
<1>2. watched \subseteq Topics  BY <1>1 DEF ConsumerTyped, ReceiverTyped
<1>3. CASE UNCHANGED <<log, con, watched, resume, history, broken>>
  <2>1. GoesOn(t)  BY <1>1, <1>3 DEF PositionsHold
  <2> QED  BY <1>3, <2>1, GoesOnKept
<1>4. ASSUME NEW u \in Topics, Expire(u) PROVE GoesOn(t)'
  <2>1. t \in watched \ broken /\ t \in Topics  BY <1>2, <1>4 DEF Expire, receiver
  <2>2. GoesOn(t)  BY <1>1, <2>1 DEF PositionsHold
  <2>3. CASE t = u  BY <1>1, <1>4, <2>1, <2>2, <2>3, GoesOnExpired
  <2>4. CASE t # u
    <3>1. log'[t] = log[t]  BY <1>1, <1>4, <2>1, <2>4, ExpireHolds
    <3> QED  BY <1>4, <2>2, <3>1, GoesOnKept DEF Expire, receiver, history
  <2> QED  BY <2>3, <2>4
<1>5. ASSUME NEW u \in Topics, Subscribe(u) PROVE GoesOn(t)'
  <2>1. UNCHANGED <<log, con, resume, history, broken>>  BY <1>5 DEF Subscribe
  <2>2. CASE t = u
    <3>1. t \notin watched /\ t \in Topics  BY <1>5, <2>2 DEF Subscribe
    <3>2. t \notin Held /\ resume[t] = Unknown  BY <1>1, <3>1 DEF OfWatched
    <3>3. t \notin Held' /\ resume'[t] = Unknown  BY <2>1, <3>2 DEF Held
    <3> QED  BY <3>3 DEF GoesOn
  <2>3. CASE t # u
    <3>1. t \in watched \ broken  BY <1>5, <2>1, <2>3 DEF Subscribe
    <3>2. GoesOn(t)  BY <1>1, <3>1 DEF PositionsHold
    <3> QED  BY <2>1, <3>2, GoesOnKept
  <2> QED  BY <2>2, <2>3
<1>6. ASSUME UNCHANGED <<con, watched, resume, history, broken>>,
             \A u \in Topics : log[u].exists => log'[u] = log[u]
      PROVE  GoesOn(t)'
  <2>1. t \in watched \ broken /\ t \in Topics  BY <1>2, <1>6
  <2>2. GoesOn(t)  BY <1>1, <2>1 DEF PositionsHold
  <2>3. CASE log[t].exists  BY <1>6, <2>1, <2>2, <2>3, GoesOnKept
  <2>4. CASE ~log[t].exists
    <3>1. t \notin Held /\ resume[t] = Unknown  BY <2>2, <2>4 DEF GoesOn
    <3>2. t \notin Held' /\ resume'[t] = Unknown  BY <1>6, <3>1 DEF Held
    <3> QED  BY <3>2 DEF GoesOn
  <2> QED  BY <2>3, <2>4
<1>7. CASE Create
  <2>1. log \in [Topics -> [exists : BOOLEAN, start : Nat, recs : Seq(Nat)]]
    BY <1>1 DEF ConsumerTyped, LogTyped
  <2>2. \A u \in Topics : log[u].exists => log'[u] = log[u]
    BY <1>7, <2>1 DEF Create
  <2> QED  BY <1>6, <1>7, <2>2 DEF Create, receiver, history
<1>8. CASE Send
  <2>1. UNCHANGED <<con, watched, resume, history, broken>>
    BY <1>8 DEF Send, receiver, history
  <2>2. t \in watched \ broken /\ t \in Topics  BY <1>2, <2>1
  <2>3. GoesOn(t)  BY <1>1, <2>2 DEF PositionsHold
  <2>4. CASE UNCHANGED log  BY <2>1, <2>3, <2>4, GoesOnKept
  <2>5. CASE RecordTaken(pub.topic)
    <3>1. pub.topic \in Topics
      BY <1>1, <1>8 DEF Send, ConsumerTyped, PubTyped
    <3>2. CASE t = pub.topic
      <4>1. RecordTaken(t)  BY <2>5, <3>2
      <4> QED  BY <1>1, <2>1, <2>2, <2>3, <4>1, GoesOnTaken
    <3>3. CASE t # pub.topic
      <4>1. PICK u \in Topics : u = pub.topic  BY <3>1
      <4>2. RecordTaken(u) /\ t # u  BY <2>5, <3>3, <4>1
      <4>3. log'[t] = log[t]  BY <1>1, <2>2, <4>2, TakenHolds
      <4> QED  BY <2>1, <2>3, <4>3, GoesOnKept
    <3> QED  BY <3>2, <3>3
  <2> QED  BY <1>8, <2>4, <2>5 DEF Send
<1>9. CASE AssignBegin
  <2>1. UNCHANGED <<watched, resume, history, broken>> /\ con'.pos = con.pos
    BY <1>1, <1>9 DEF AssignBegin, ConsumerTyped, ConTyped
  <2>2. t \in watched \ broken /\ t \in Topics  BY <1>2, <2>1
  <2>3. GoesOn(t)  BY <1>1, <2>2 DEF PositionsHold
  <2>4. CASE log[t].exists
    <3>1. log'[t] = log[t]  BY <1>9, <2>2, <2>4 DEF AssignBegin, Missing
    <3> QED  BY <2>1, <2>3, <3>1 DEF GoesOn, NewerFrom, PassedFrom, End, Held, history
  <2>5. CASE ~log[t].exists
    <3>1. t \notin Held /\ resume[t] = Unknown  BY <2>3, <2>5 DEF GoesOn
    <3>2. t \notin Held' /\ resume'[t] = Unknown  BY <2>1, <3>1 DEF Held
    <3> QED  BY <3>2 DEF GoesOn
  <2> QED  BY <2>4, <2>5
<1>10. ASSUME UNCHANGED <<log, watched, resume, history, broken>>,
              DOMAIN con'.pos = {}
       PROVE  GoesOn(t)'
  <2>1. GoesOn(t)  BY <1>1, <1>10 DEF PositionsHold
  <2>2. t \notin Held'  BY <1>10 DEF Held
  <2> QED  BY <1>10, <2>1, <2>2, GoesOnUnheld
<1>11. CASE Open  BY <1>10, <1>11 DEF Open, NoConsumer
<1>12. CASE Down /\ UNCHANGED <<log, watched, resume, history, broken>>
  BY <1>10, <1>12 DEF Down, NoConsumer
<1>13. CASE AssignResumed
  <2>1. t \in watched \ broken /\ t \in Topics
    BY <1>2, <1>13 DEF AssignResumed, receiver
  <2>2. GoesOn(t)  BY <1>1, <2>1 DEF PositionsHold
  <2> QED  BY <1>1, <1>13, <2>1, <2>2, GoesOnResumed
<1>14. CASE AssignEnd
  <2>1. t \in watched /\ t \in Topics  BY <1>2, <1>14 DEF AssignEnd
  <2>2. t \notin broken \/ t \in con.new \ Held  BY <1>14 DEF AssignEnd
  <2>3. GoesOn(t) \/ t \in con.new \ Held  BY <1>1, <2>1, <2>2 DEF PositionsHold
  <2> QED  BY <1>1, <1>14, <2>1, <2>3, GoesOnAssigned
<1>15. CASE Fetch
  <2>1. t \in watched \ broken'  BY <1>15 DEF Fetch
  <2>2. t \notin broken => GoesOn(t)  BY <1>1, <2>1 DEF PositionsHold
  <2> QED  BY <1>1, <1>15, <2>1, <2>2, GoesOnFetched
<1>16. CASE LoseTopics  BY <1>16 DEF LoseTopics, receiver
<1>17. CASE AskStarts
  <2>1. UNCHANGED <<log, watched, resume, history, broken>> /\ con'.pos = con.pos
    BY <1>1, <1>17 DEF AskStarts, receiver, history, ConsumerTyped, ConTyped
  <2>2. GoesOn(t)  BY <1>1, <2>1 DEF PositionsHold
  <2> QED  BY <2>1, <2>2 DEF GoesOn, NewerFrom, PassedFrom, End, Held, history
<1> QED
  BY <1>3, <1>4, <1>5, <1>7, <1>8, <1>9, <1>11, <1>12, <1>13, <1>14, <1>15, <1>16, <1>17
  DEF ConsumerNext, Publisher, Consumer, AllDelivered, consumerVars, PublishRecord,
      Fail, CheckTopics, AssignFails, receiver, history

\* The invariant of the consumer: what is held, what is known of it, and that
\* every position stands before all that was not yet heard.
THEOREM ConsumerInvariant == ConsumerSpec => []ConsumerInv
<1>1. ConsumerInit => ConsumerInv  BY ConsumerInitHolds
<1>2. ConsumerInv /\ [ConsumerNext]_consumerVars => ConsumerInv'
  BY ConsumerTypedStep, WatchedStep, TakenOnStep, AskedStep, PositionsStep,
     HeardTypedStep
  DEF ConsumerInv
<1> QED  BY <1>1, <1>2, PTL DEF ConsumerSpec

\* KafkaTransport, for every set of topics, every number of failures and
\* whatever expires at any step: within a topic no record comes twice or out
\* of order; over all topics what is delivered comes in the order it was sent
\* in, but for what a reset to the end passed over and a later consumer reads;
\* and a topic that is ready is held by a consumer that is up.
THEOREM SubscriptionsKept == ConsumerSpec => []SubscriptionsHold
<1>1. ConsumerInv => SubscriptionsHold
  <2> SUFFICES ASSUME ConsumerInv PROVE ConsumerTypeOK /\ HeardOnce
    BY DEF ConsumerInv, SubscriptionsHold
  <2>1. LogTyped /\ PubTyped /\ ConTyped /\ HeardTyped /\ OfWatched
    BY DEF ConsumerInv, ConsumerTyped
  <2>2. \A t \in Topics : log[t].start \in Nat /\ log[t].recs \in Seq(1..sent)
    <3> SUFFICES ASSUME NEW t \in Topics
                 PROVE  log[t].start \in Nat /\ log[t].recs \in Seq(1..sent)
      OBVIOUS
    <3>1. log[t].start \in Nat /\ log[t].recs \in Seq(Nat)  BY <2>1 DEF LogTyped
    <3>2. log[t].recs \in [1..Len(log[t].recs) -> 1..sent] /\ Len(log[t].recs) \in Nat
      BY <2>1, <3>1, LenProperties DEF LogTyped
    <3>3. \A S, s, n : n \in Nat /\ s \in [1..n -> S] => s \in Seq(S)  BY SeqDef
    <3> QED  BY <3>1, <3>2, <3>3
  <2>3. pub.topic \in Topics \cup {NoTopic}  BY <2>1 DEF PubTyped
  <2>4. \A i \in DOMAIN heard : heard[i] \in 0..sent
    BY <2>1, LenProperties, ElementOfSeq DEF HeardTyped, LogTyped
  <2>5. ConsumerTypeOK
    BY <2>1, <2>2, <2>3, <2>4 DEF ConsumerTypeOK, ConTyped, OfWatched
  <2>6. HeardOnce
    <3> SUFFICES ASSUME NEW t \in Held \ broken, NEW r \in Batch(t)
                 PROVE  newest[t] < r
      BY DEF HeardOnce
    <3>1. t \in watched  BY <2>1 DEF OfWatched
    <3>2. NewerFrom(t, con.pos[t])
      BY <3>1 DEF ConsumerInv, PositionsHold, GoesOn
    <3> QED  BY <3>2 DEF NewerFrom, Batch
  <2> QED  BY <2>5, <2>6
<1> QED  BY <1>1, ConsumerInvariant, PTL

=============================================================================
