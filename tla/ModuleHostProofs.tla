-------------------------- MODULE ModuleHostProofs --------------------------
(***************************************************************************)
(* ModuleHost for every set of topics and keys and any number of messages  *)
(* and instances: it keeps what it promises of an instance, and implements *)
(* the contract with a module's author (ModuleContract).                   *)
(***************************************************************************)
EXTENDS ModuleHost, SequenceTheorems, FiniteSetTheorems, TLAPS

SlotType == [run : Runs \cup {0}, stream : Streams \cup {0}, due : BOOLEAN, queue : Seq(Streams),
             joined : Streams \cup {NoStream}, asked : Nat]
WorkType == [pc : Pcs, input : Streams \cup {0}, key : Streams \cup {0}, memory : SUBSET Streams,
             joined : Streams \cup {NoStream}]
CallsType == [lock : {"free", "serve", "inbox"}, inbox : {"none", "idle", "waiting", "handling", "ended"},
              threads : SUBSET {"serve", "inbox"}]
LifeType == [setUp : BOOLEAN, drop : DropStages, by : {"none", "closed", "sweep", "reap", "stop"},
             torn : Nat]

InstTypes ==
    /\ slot \in [Instances -> SlotType] /\ work \in [Instances -> WorkType]
    /\ calls \in [Instances -> CallsType] /\ life \in [Instances -> LifeType]

HostTypes ==
    /\ delivered \in 0..MaxDeliveries
    /\ phase \in {"serving", "stopping", "stopped"}
    /\ built \in 0..MaxInstances /\ serving \in 0..built /\ backedOff \in BOOLEAN
    /\ retired \in Seq(1..built)

\* Nothing is known of an instance that has not been built.
FreshInv ==
    \A i \in Instances : i > built =>
        /\ work[i].pc = "ended" /\ work[i].memory = {}
        /\ calls[i].lock = "free" /\ calls[i].inbox = "none" /\ calls[i].threads = {}
        /\ life[i].setUp = FALSE /\ life[i].drop = "no" /\ life[i].torn = 0

InCall == {"reset", "resetting", "call", "calling"}

\* The queue is of the slot's stream, and so is what the module remembers, unless a reset
\* is due: then it is of the stream of the input in hand.
SameStream(s, w) ==
    /\ \A n \in 1..Len(s.queue) : s.queue[n] = s.stream
    /\ w.pc \in InCall => w.key = w.input /\ w.input \in Streams /\ (~s.due => s.stream = w.input)
    /\ w.pc \in InCall \ {"reset"} => w.memory \subseteq {w.input}
    /\ w.pc \in {"setup", "idle"} /\ ~s.due => w.memory \subseteq {s.stream}
    /\ w.pc = "setup" => w.memory = {}

StreamInv == \A i \in Instances : SameStream(slot[i], work[i])

\* The lock is held by whoever is in the module, until the instance is dropped.
CallInv ==
    \A i \in Instances :
        /\ work[i].pc = "setup" => ~life[i].setUp /\ calls[i].inbox = "none"
        /\ work[i].pc \notin {"setup", "ended"} => life[i].setUp
        /\ life[i].drop = "inbox" => calls[i].inbox # "none"
        /\ life[i].drop = "no" =>
             /\ work[i].pc \in {"resetting", "calling"} => calls[i].lock = "serve"
             /\ calls[i].inbox = "handling" => calls[i].lock = "inbox"
             /\ "serve" \in calls[i].threads => work[i].pc \in {"resetting", "calling"}
             /\ "inbox" \in calls[i].threads => calls[i].inbox = "handling"

\* How far a drop is says whether teardown was called, and someone waits for it.
DropInv ==
    \A i \in Instances :
        /\ life[i].drop \in {"no", "inbox", "tasks"} => life[i].torn = 0
        /\ life[i].drop \in {"closing", "done"} => life[i].torn = IF life[i].setUp THEN 1 ELSE 0
        /\ life[i].drop \notin {"no", "done"} => life[i].by # "none"

\* An instance nobody has begun to drop is in service or retired, never both.
ServingInv ==
    /\ serving # None => life[serving].drop = "no"
    /\ \A n \in 1..Len(retired) : retired[n] # serving
    /\ \A i \in 1..built : life[i].drop = "no" => i = serving \/ \E n \in 1..Len(retired) : retired[n] = i
    /\ phase = "stopped" => \A i \in 1..built : life[i].drop = "done"

IInv == InstTypes /\ HostTypes /\ FreshInv /\ StreamInv /\ CallInv /\ DropInv /\ ServingInv

-----------------------------------------------------------------------------
(* Queues and slots *)

LEMMA TypesAreTypeOK == TypeOK <=> InstTypes /\ HostTypes /\ (serving # None => life[serving].drop = "no")
BY DEF TypeOK, InstTypes, HostTypes, SlotType, WorkType, CallsType, LifeType

LEMMA KeyTypes == ASSUME NEW k \in Keys PROVE k.run \in Runs /\ k.stream \in Streams /\ k.run \in Nat /\ k.stream \in Nat
BY ModuleHostAssumption DEF Runs, Streams

LEMMA StreamsAreNumbers == Streams \subseteq Nat /\ NoStream \notin Streams
BY ModuleHostAssumption DEF Streams

\* What is offered to a queue of one stream leaves it of that stream.
LEMMA OfferKeepsStream ==
    ASSUME NEW q \in Seq(Streams), NEW k \in Keys, \A n \in 1..Len(q) : q[n] = k.stream
    PROVE  Offer(q, k) \in Seq(Streams) /\ \A n \in 1..Len(Offer(q, k)) : Offer(q, k)[n] = k.stream
<1>1. k.stream \in Streams  BY KeyTypes
<1> DEFINE r == IF Len(q) = MaxQueue THEN Tail(q) ELSE q
<1>2. r \in Seq(Streams) /\ \A n \in 1..Len(r) : r[n] = k.stream
  <2>1. CASE Len(q) = MaxQueue
    <3>1. q # <<>>  BY <2>1, ModuleHostAssumption
    <3>2. Tail(q) \in Seq(Streams) /\ Len(Tail(q)) = Len(q) - 1 /\ \A n \in 1..Len(Tail(q)) : Tail(q)[n] = q[n + 1]
      BY <3>1
    <3>3. \A n \in 1..Len(Tail(q)) : n + 1 \in 1..Len(q)  BY <3>1, <3>2
    <3> QED  BY <2>1, <3>2, <3>3
  <2> QED  BY <2>1
<1> HIDE DEF r
<1>3. Append(r, k.stream) \in Seq(Streams) /\ \A n \in 1..Len(Append(r, k.stream)) : Append(r, k.stream)[n] = k.stream
  BY <1>1, <1>2
<1> QED  BY <1>3 DEF Offer, r

\* A message leaves a slot in its type and its queue of one stream; unless a reset is due
\* after it, the stream is the one before.
LEMMA ReceivedKeepsStream ==
    ASSUME NEW r \in SlotType, NEW k \in Keys, NEW kind,
           \A n \in 1..Len(r.queue) : r.queue[n] = r.stream
    PROVE  /\ Received(r, kind, k) \in SlotType
           /\ \A n \in 1..Len(Received(r, kind, k).queue) : Received(r, kind, k).queue[n] = Received(r, kind, k).stream
           /\ ~Received(r, kind, k).due => ~r.due /\ Received(r, kind, k).stream = r.stream
<1> DEFINE d == Received(r, kind, k)
<1>0. k.stream \in Streams /\ k.stream \in Nat /\ r.stream \in Nat
  <2>1. r.stream \in Streams \cup {0}  BY DEF SlotType
  <2>2. r.stream \in Nat
    <3>1. CASE r.stream \in Streams  BY <3>1, StreamsAreNumbers, Zenon
    <3>2. CASE r.stream = 0  BY <3>2
    <3> QED  BY <2>1, <3>1, <3>2
  <2> QED  BY <2>2, KeyTypes
<1>1. CASE kind = "command" \/ k.stream < r.stream
  BY <1>1 DEF Received, SlotType
<1>2. CASE kind # "command" /\ ~(k.stream < r.stream)
  <2> DEFINE c == IF k.stream > r.stream THEN NewStream(r, k) ELSE r
  <2>1. c \in SlotType
    <3>2. <<>> \in Seq(Streams)  OBVIOUS
    <3>1. [r EXCEPT !.stream = k.stream] \in SlotType  BY <1>0 DEF SlotType
    <3>3. [r EXCEPT !.stream = k.stream, !.queue = <<>>] \in SlotType  BY <3>1, <3>2 DEF SlotType
    <3>4. [r EXCEPT !.stream = k.stream, !.queue = <<>>, !.joined = NoStream] \in SlotType  BY <3>3 DEF SlotType
    <3>5. NewStream(r, k) \in SlotType  BY <3>4 DEF SlotType, NewStream
    <3> QED  BY <3>5
  <2>2. c.stream = k.stream  BY <1>0, <1>2 DEF NewStream, SlotType
  <2>3. \A n \in 1..Len(c.queue) : c.queue[n] = c.stream  BY <1>0 DEF NewStream, SlotType
  <2>4. ~c.due => ~r.due /\ c.stream = r.stream  BY DEF NewStream, SlotType
  <2>5. d = IF kind = "observed" THEN [c EXCEPT !.joined = k.stream] ELSE [c EXCEPT !.queue = Offer(@, k)]
    BY <1>2 DEF Received
  <2> HIDE DEF c, d
  <2>6. Offer(c.queue, k) \in Seq(Streams) /\ \A n \in 1..Len(Offer(c.queue, k)) : Offer(c.queue, k)[n] = k.stream
    BY <2>1, <2>2, <2>3, OfferKeepsStream DEF SlotType
  <2>7. d \in SlotType  BY <1>0, <2>1, <2>5, <2>6 DEF SlotType
  <2>8. d.stream = c.stream /\ d.due = c.due /\ d.queue = IF kind = "observed" THEN c.queue ELSE Offer(c.queue, k)
    BY <2>1, <2>5 DEF SlotType
  <2> QED  BY <2>2, <2>3, <2>4, <2>6, <2>7, <2>8 DEF d
<1> QED  BY <1>1, <1>2

\* The instance retired is the last of those retired.
LEMMA AppendFacts ==
    ASSUME NEW S, NEW q \in Seq(S), NEW x \in S
    PROVE  /\ Append(q, x) \in Seq(S) /\ Len(q) \in Nat /\ Len(Append(q, x)) = Len(q) + 1
           /\ \A n \in 1..Len(q) : Append(q, x)[n] = q[n]
           /\ Append(q, x)[Len(q) + 1] = x
OBVIOUS

LEMMA TailFacts ==
    ASSUME NEW S, NEW q \in Seq(S), q # <<>>
    PROVE  /\ Tail(q) \in Seq(S) /\ Len(q) \in Nat \ {0} /\ Len(Tail(q)) = Len(q) - 1
           /\ Head(q) = q[1] /\ q[1] \in S
           /\ \A n \in 1..Len(q) : n = 1 \/ q[n] = Tail(q)[n - 1]
           /\ \A n \in 1..Len(Tail(q)) : Tail(q)[n] = q[n + 1] /\ n + 1 \in 1..Len(q)
<1>1. Len(q) \in Nat /\ Len(q) # 0  OBVIOUS
<1>2. Tail(q) \in Seq(S) /\ Len(Tail(q)) = Len(q) - 1 /\ Head(q) = q[1] /\ q[1] \in S  BY <1>1
<1>3. \A n \in 1..Len(Tail(q)) : Tail(q)[n] = q[n + 1] /\ n + 1 \in 1..Len(q)  BY <1>1, <1>2
<1>4. \A n \in 1..Len(q) : n # 1 => n - 1 \in 1..Len(Tail(q)) /\ (n - 1) + 1 = n  BY <1>1, <1>2
<1> QED  BY <1>1, <1>2, <1>3, <1>4

LEMMA SeqElements == ASSUME NEW S, NEW q \in Seq(S) PROVE Len(q) \in Nat /\ \A n \in 1..Len(q) : q[n] \in S
OBVIOUS

\* What is retired was built, also when one more is.
LEMMA RetiredWider == ASSUME NEW m \in Nat, NEW q \in Seq(1..m) PROVE q \in Seq(1..(m + 1))
<1>1. 1..m \subseteq 1..(m + 1)  OBVIOUS
<1> QED  BY <1>1, SeqMonotonic

LEMMA BuiltAreInstances ==
    ASSUME HostTypes
    PROVE  /\ built \in Nat /\ 1..built \subseteq Instances /\ (serving # 0 => serving \in 1..built)
           /\ retired \in Seq(1..built) /\ \A n \in 1..Len(retired) : retired[n] \in 1..built /\ retired[n] # 0
BY ModuleHostAssumption DEF HostTypes, Instances

LEMMA CountsToTheBound ==
    ASSUME NEW n, NEW m, n \in 0..m, m \in Nat, n < m PROVE n + 1 \in 0..m
OBVIOUS

-----------------------------------------------------------------------------
(* Every action keeps the invariant *)

LEMMA DeliverToSlotKeeps ==
    ASSUME IInv, NEW t \in Topics, NEW k \in Keys, DeliverToSlot(t, k)
    PROVE  IInv'
<1>0. serving \in Instances /\ slot[serving] \in SlotType /\ slot \in [Instances -> SlotType]
  BY BuiltAreInstances DEF IInv, InstTypes, DeliverToSlot, None
<1> DEFINE r == Received(slot[serving], Kind[t], k)
<1>a. slot' = [slot EXCEPT ![serving] = r]  BY DEF DeliverToSlot
<1>b. /\ r \in SlotType
      /\ \A n \in 1..Len(r.queue) : r.queue[n] = r.stream
      /\ ~r.due => ~slot[serving].due /\ r.stream = slot[serving].stream
  BY <1>0, ReceivedKeepsStream DEF IInv, StreamInv, SameStream
<1> HIDE DEF r
<1>1. InstTypes'
  <2>1. slot' \in [Instances -> SlotType]
    BY <1>0, <1>a, <1>b
  <2> QED  BY <2>1 DEF IInv, InstTypes, DeliverToSlot, Arrives, hostVars
<1>2. HostTypes'
  <2>1. delivered' \in 0..MaxDeliveries
    BY CountsToTheBound, ModuleHostAssumption DEF IInv, HostTypes, DeliverToSlot, Arrives
  <2> QED  BY <2>1 DEF IInv, HostTypes, DeliverToSlot, Arrives, hostVars
<1>3. StreamInv'
  <2>1. work' = work  BY DEF DeliverToSlot
  <2>2. \A i \in Instances : slot'[i] = IF i = serving THEN r ELSE slot[i]  BY <1>0, <1>a
  <2> QED  BY <1>b, <2>1, <2>2 DEF IInv, StreamInv, SameStream, InCall
<1>4. FreshInv' /\ CallInv' /\ DropInv' /\ ServingInv'
  BY DEF IInv, DeliverToSlot, Arrives, hostVars, FreshInv, CallInv, DropInv, ServingInv
<1> QED  BY <1>1, <1>2, <1>3, <1>4 DEF IInv

LEMMA DeliverToNoneKeeps ==
    ASSUME IInv, NEW t \in Topics, NEW k \in Keys, DeliverToNone(t, k)
    PROVE  IInv'
<1>0. built \in Nat /\ built \in 0..MaxInstances /\ serving \in 0..built /\ retired \in Seq(1..built)
  BY ModuleHostAssumption DEF IInv, HostTypes
<1>a. \/ UNCHANGED <<serving, retired>>
      \/ serving \in 1..built /\ serving' = 0 /\ retired' = Append(retired, serving)
  BY <1>0 DEF DeliverToNone, None
<1>b. UNCHANGED <<built, life, phase>>  BY DEF DeliverToNone, Arrives, instVars
<1>1. HostTypes'
  <2>1. delivered' \in 0..MaxDeliveries
    BY CountsToTheBound, ModuleHostAssumption DEF IInv, HostTypes, DeliverToNone, Arrives
  <2>2. serving' \in 0..built /\ retired' \in Seq(1..built)
    <3>1. CASE UNCHANGED <<serving, retired>>  BY <1>0, <3>1
    <3>2. CASE serving \in 1..built /\ serving' = 0 /\ retired' = Append(retired, serving)  BY <1>0, <3>2, AppendFacts
    <3> QED  BY <1>a, <3>1, <3>2
  <2> QED  BY <2>1, <2>2, <1>b DEF IInv, HostTypes, DeliverToNone, Arrives
<1>2. ServingInv'
  <2>1. CASE UNCHANGED <<serving, retired>>  BY <2>1, <1>b DEF IInv, ServingInv, None
  <2>2. CASE serving \in 1..built /\ serving' = 0 /\ retired' = Append(retired, serving)
    <3>1. \A n \in 1..Len(retired) : retired[n] \in 1..built  BY <1>0
    <3>2. /\ Len(retired) \in Nat /\ Len(retired') = Len(retired) + 1 /\ retired'[Len(retired) + 1] = serving
          /\ \A n \in 1..Len(retired) : retired'[n] = retired[n]
      BY <1>0, <2>2, AppendFacts
    <3>3. \A n \in 1..Len(retired') : retired'[n] # serving'
      BY <2>2, <3>1, <3>2
    <3>4. \A j \in 1..built : life[j].drop = "no" => \E n \in 1..Len(retired') : retired'[n] = j
      BY <3>2 DEF IInv, ServingInv
    <3> QED  BY <2>2, <3>3, <3>4, <1>b DEF IInv, ServingInv, None
  <2> QED  BY <1>a, <2>1, <2>2
<1>3. InstTypes' /\ FreshInv' /\ StreamInv' /\ CallInv' /\ DropInv'
  BY DEF IInv, DeliverToNone, Arrives, instVars, InstTypes, FreshInv, StreamInv, CallInv, DropInv
<1> QED  BY <1>1, <1>2, <1>3 DEF IInv

LEMMA DeliverToNewKeeps ==
    ASSUME IInv, NEW t \in Topics, NEW k \in Keys, DeliverToNew(t, k)
    PROVE  IInv'
<1>0. /\ built \in Nat /\ built \in 0..MaxInstances /\ serving \in 0..built /\ retired \in Seq(1..built)
      /\ built + 1 \in Instances /\ built + 1 \in 0..MaxInstances
  BY ModuleHostAssumption DEF IInv, HostTypes, DeliverToNew, Instances
<1>a. slot \in [Instances -> SlotType] /\ work \in [Instances -> WorkType] /\ work[built + 1] \in WorkType
  BY <1>0 DEF IInv, InstTypes
<1> DEFINE r == Received(NewSlot(k), Kind[t], k)
           w == [work[built + 1] EXCEPT !.pc = "setup"]
<1>b. /\ built' = built + 1 /\ serving' = built + 1 /\ UNCHANGED <<phase, backedOff, calls, life>>
      /\ slot' = [slot EXCEPT ![built + 1] = r] /\ work' = [work EXCEPT ![built + 1] = w]
      /\ retired' = IF serving = 0 THEN retired ELSE Append(retired, serving)
  BY <1>0, <1>a DEF DeliverToNew, Arrives, None
<1>c. NewSlot(k) \in SlotType /\ NewSlot(k).queue = <<>>
  <2>1. <<>> \in Seq(Streams)  OBVIOUS
  <2> QED  BY <2>1, KeyTypes DEF NewSlot, SlotType
<1>d. \A n \in 1..Len(NewSlot(k).queue) : NewSlot(k).queue[n] = NewSlot(k).stream  BY <1>c
<1>e. /\ r \in SlotType
      /\ \A n \in 1..Len(r.queue) : r.queue[n] = r.stream
  BY <1>c, <1>d, ReceivedKeepsStream
<1>f. w \in WorkType /\ w.pc = "setup" /\ w.memory = {}
  <2>1. w \in WorkType /\ w.pc = "setup" /\ w.memory = work[built + 1].memory  BY <1>a DEF WorkType, Pcs
  <2>2. work[built + 1].memory = {}  BY <1>0 DEF IInv, FreshInv
  <2> QED  BY <2>1, <2>2
<1> HIDE DEF r, w
<1>g. \A i \in Instances : /\ slot'[i] = IF i = built + 1 THEN r ELSE slot[i]
                           /\ work'[i] = IF i = built + 1 THEN w ELSE work[i]
  BY <1>0, <1>a, <1>b
<1>h. retired' \in Seq(1..built) /\ \A n \in 1..Len(retired') : retired'[n] \in 1..built
  <2>1. CASE serving = 0  BY <1>0, <1>b, <2>1
  <2>2. CASE serving # 0
    <3>1. serving \in 1..built /\ retired' = Append(retired, serving)  BY <1>0, <1>b, <2>2
    <3>2. retired' \in Seq(1..built)  BY <1>0, <3>1, AppendFacts
    <3>3. Len(retired') \in Nat /\ \A n \in 1..Len(retired') : retired'[n] \in 1..built  BY <3>2, SeqElements
    <3> QED  BY <3>2, <3>3
  <2> QED  BY <2>1, <2>2
<1>1. InstTypes'
  <2>1. slot' \in [Instances -> SlotType]
    BY <1>0, <1>a, <1>b, <1>e
  <2>2. work' \in [Instances -> WorkType]
    BY <1>0, <1>a, <1>b, <1>f
  <2> QED  BY <2>1, <2>2 DEF IInv, InstTypes, DeliverToNew, Arrives
<1>2. HostTypes'
  <2>1. delivered' \in 0..MaxDeliveries
    BY CountsToTheBound, ModuleHostAssumption DEF IInv, HostTypes, DeliverToNew, Arrives
  <2>2. retired' \in Seq(1..built')  BY <1>0, <1>b, <1>h, RetiredWider
  <2> QED  BY <1>0, <1>b, <2>1, <2>2 DEF IInv, HostTypes
<1>3. FreshInv'
  BY <1>0, <1>b, <1>g DEF IInv, FreshInv, Instances
<1>4. StreamInv'
  BY <1>e, <1>f, <1>g DEF IInv, StreamInv, SameStream, InCall
<1>5. CallInv'
  BY <1>0, <1>b, <1>f, <1>g DEF IInv, CallInv, FreshInv
<1>6. ServingInv'
  <2>1. life'[serving'].drop = "no"  BY <1>0, <1>b DEF IInv, FreshInv
  <2>2. phase' # "stopped"  BY DEF DeliverToNew, Arrives
  <2>3. \A n \in 1..Len(retired') : retired'[n] # serving'
    <3>1. \A n \in 1..Len(retired') : retired'[n] \in 1..built  BY <1>h
    <3> QED  BY <3>1, <1>0, <1>b
  <2>4. \A j \in 1..built : life[j].drop = "no" => \E n \in 1..Len(retired') : retired'[n] = j
    <3>1. CASE serving = 0  BY <3>1, <1>b DEF IInv, ServingInv
    <3>2. CASE serving # 0
      <4>1. /\ Len(retired) \in Nat /\ Len(retired') = Len(retired) + 1 /\ retired'[Len(retired) + 1] = serving
            /\ \A n \in 1..Len(retired) : retired'[n] = retired[n]
        BY <1>0, <1>b, <3>2, AppendFacts
      <4> QED  BY <4>1 DEF IInv, ServingInv
    <3> QED  BY <3>1, <3>2
  <2>5. \A j \in 1..built' : j = serving' \/ j \in 1..built  BY <1>0, <1>b
  <2> QED  BY <1>b, <2>1, <2>2, <2>3, <2>4, <2>5 DEF ServingInv
<1>7. DropInv'
  BY DEF IInv, DeliverToNew, Arrives, DropInv
<1> QED  BY <1>1, <1>2, <1>3, <1>4, <1>5, <1>6, <1>7 DEF IInv

LEMMA EvictKeeps ==
    ASSUME IInv, NEW who \in {"closed", "sweep", "stop"}, Evict(who), UNCHANGED phase, delivered' \in 0..MaxDeliveries, phase # "stopped"
    PROVE  IInv'
<1>0. built \in Nat /\ built \in 0..MaxInstances /\ serving \in 1..built /\ serving \in Instances /\ life[serving].drop = "no"
  BY BuiltAreInstances DEF IInv, HostTypes, Evict, None, ServingInv
<1> DEFINE l == [life[serving] EXCEPT !.drop = IF calls[serving].inbox = "none" THEN "tasks" ELSE "inbox", !.by = who]
<1>a. life \in [Instances -> LifeType] /\ life[serving] \in LifeType  BY <1>0 DEF IInv, InstTypes
<1>b. life' = [life EXCEPT ![serving] = l]  BY <1>0, <1>a DEF Evict, StartDrop
<1>c. /\ l \in LifeType /\ l.setUp = life[serving].setUp /\ l.torn = life[serving].torn
      /\ l.drop = (IF calls[serving].inbox = "none" THEN "tasks" ELSE "inbox") /\ l.by # "none"
  BY <1>a DEF LifeType, DropStages
<1> HIDE DEF l
<1>d. \A i \in Instances : life'[i] = IF i = serving THEN l ELSE life[i]  BY <1>0, <1>a, <1>b
<1>e. serving' = 0 /\ UNCHANGED <<built, retired, backedOff, slot, work, calls, phase>>  BY DEF Evict, None
<1>1. InstTypes'
  <2>1. life' \in [Instances -> LifeType]
    BY <1>0, <1>a, <1>b, <1>c
  <2> QED  BY <2>1 DEF IInv, InstTypes, Evict, StartDrop
<1>2. HostTypes'
  BY <1>0, <1>e DEF IInv, HostTypes
<1>3. FreshInv'
  BY <1>0, <1>d, <1>e DEF IInv, FreshInv, Instances
<1>4. CallInv'
  BY <1>0, <1>c, <1>d, <1>e DEF IInv, CallInv
<1>5. DropInv'
  BY <1>0, <1>c, <1>d DEF IInv, DropInv
<1>6. ServingInv'
  <2>1. \A n \in 1..Len(retired) : retired[n] \in 1..built /\ retired[n] # 0  BY DEF IInv, HostTypes
  <2>2. \A j \in 1..built : j \in Instances  BY BuiltAreInstances DEF IInv
  <2> QED  BY <1>0, <1>c, <1>d, <1>e, <2>1, <2>2 DEF IInv, ServingInv, None
<1>7. StreamInv'
  BY DEF IInv, Evict, StartDrop, StreamInv
<1> QED  BY <1>1, <1>2, <1>3, <1>4, <1>5, <1>6, <1>7 DEF IInv

LEMMA ReapKeeps ==
    ASSUME IInv, NEW who \in {"reap", "stop"}, Reap(who), UNCHANGED <<delivered, phase>>, phase # "stopped"
    PROVE  IInv'
<1>0. /\ built \in Nat /\ built \in 0..MaxInstances /\ serving \in 0..built
      /\ retired \in Seq(1..built) /\ retired # <<>> /\ retired' = Tail(retired)
  BY ModuleHostAssumption DEF IInv, HostTypes, Reap
<1> DEFINE d == retired[1]
           l == [life[d] EXCEPT !.drop = IF calls[d].inbox = "none" THEN "tasks" ELSE "inbox", !.by = who]
<1>1a. /\ retired' \in Seq(1..built) /\ Len(retired) \in Nat \ {0} /\ Len(retired') = Len(retired) - 1
       /\ Head(retired) = d /\ d \in 1..built
       /\ \A n \in 1..Len(retired) : n = 1 \/ retired[n] = retired'[n - 1]
       /\ \A n \in 1..Len(retired') : retired'[n] = retired[n + 1] /\ n + 1 \in 1..Len(retired)
  BY <1>0, TailFacts
<1>1b. d \in Instances /\ d # serving /\ 1 \in 1..Len(retired)
  BY <1>0, <1>1a, BuiltAreInstances DEF IInv, ServingInv
<1>a. life \in [Instances -> LifeType] /\ life[d] \in LifeType  BY <1>1b DEF IInv, InstTypes
<1> HIDE DEF d
<1>b. IF life[d].drop = "no" THEN life' = [life EXCEPT ![d] = l] ELSE life' = life
  BY <1>1a, <1>1b, <1>a DEF Reap, StartDrop
<1>c. /\ l \in LifeType /\ l.setUp = life[d].setUp /\ l.torn = life[d].torn
      /\ l.drop = (IF calls[d].inbox = "none" THEN "tasks" ELSE "inbox") /\ l.by # "none"
  BY <1>a DEF LifeType, DropStages
<1> HIDE DEF l
<1>d. \A i \in Instances : life'[i] = IF i = d /\ life[d].drop = "no" THEN l ELSE life[i]  BY <1>1b, <1>a, <1>b
<1>e. UNCHANGED <<built, serving, backedOff, slot, work, calls, phase, delivered>>  BY DEF Reap
<1>1. InstTypes'
  <2>1. life' \in [Instances -> LifeType]
    BY <1>1b, <1>a, <1>b, <1>c
  <2> QED  BY <2>1 DEF IInv, InstTypes, Reap, StartDrop
<1>2. HostTypes'
  BY <1>0, <1>1a, <1>e DEF IInv, HostTypes
<1>3. FreshInv'
  BY <1>0, <1>1a, <1>d, <1>e DEF IInv, FreshInv, Instances
<1>4. CallInv'
  BY <1>1b, <1>c, <1>d, <1>e DEF IInv, CallInv
<1>5. DropInv'
  BY <1>1b, <1>c, <1>d DEF IInv, DropInv
<1>6. ServingInv'
  <2>1. serving' # None => life'[serving'].drop = "no"
    <3>1. serving # None => serving \in Instances  BY BuiltAreInstances DEF IInv, None
    <3> QED  BY <1>1b, <1>d, <1>e, <3>1 DEF IInv, ServingInv
  <2>2. \A n \in 1..Len(retired') : retired'[n] # serving'
    BY <1>1a, <1>e DEF IInv, ServingInv
  <2>3. \A j \in 1..built : life'[j].drop = "no" => j = serving' \/ \E n \in 1..Len(retired') : retired'[n] = j
    <3> SUFFICES ASSUME NEW j \in 1..built, life'[j].drop = "no", j # serving
                 PROVE  \E n \in 1..Len(retired') : retired'[n] = j
      BY <1>e
    <3>1. j \in Instances  BY BuiltAreInstances DEF IInv
    <3>2. j # d /\ life[j].drop = "no"  BY <1>c, <1>d, <3>1
    <3>3. PICK n \in 1..Len(retired) : retired[n] = j  BY <3>2 DEF IInv, ServingInv
    <3>4. n # 1  BY <3>2, <3>3 DEF d
    <3>5. n - 1 \in 1..Len(retired') /\ retired'[n - 1] = j  BY <1>1a, <3>3, <3>4
    <3> QED  BY <3>5
  <2>4. phase' # "stopped"  BY <1>e
  <2> QED  BY <2>1, <2>2, <2>3, <2>4, <1>e DEF ServingInv
<1>7. StreamInv'
  BY DEF IInv, Reap, StartDrop, StreamInv
<1> QED  BY <1>1, <1>2, <1>3, <1>4, <1>5, <1>6, <1>7 DEF IInv

LEMMA RetryOverKeeps ==
    ASSUME IInv, RetryOver
    PROVE  IInv'
<1>1. HostTypes'
  <2>1. backedOff' \in BOOLEAN  BY DEF RetryOver
  <2> QED  BY <2>1 DEF IInv, RetryOver, HostTypes
<1>2. InstTypes' /\ FreshInv' /\ StreamInv' /\ CallInv' /\ DropInv' /\ ServingInv'
  BY DEF IInv, RetryOver, instVars, InstTypes, FreshInv, StreamInv, CallInv, DropInv, ServingInv
<1> QED  BY <1>1, <1>2 DEF IInv

LEMMA StopKeeps ==
    ASSUME IInv, Stop
    PROVE  IInv'
<1>1. HostTypes'
  BY SMTT(20) DEF IInv, Stop, hostVars, instVars, HostTypes, InstTypes, Instances
<1>2. ServingInv'
  BY SMTT(20) DEF IInv, Stop, hostVars, instVars, ServingInv, InstTypes, HostTypes, Instances, None
<1>3. InstTypes' /\ FreshInv' /\ StreamInv' /\ CallInv' /\ DropInv'
  BY DEF IInv, Stop, hostVars, instVars, InstTypes, FreshInv, StreamInv, CallInv, DropInv
<1> QED  BY <1>1, <1>2, <1>3 DEF IInv

LEMMA StoppedKeeps ==
    ASSUME IInv, Stopped
    PROVE  IInv'
<1>1. HostTypes'
  BY SMTT(20) DEF IInv, Stopped, TasksStopped, Dropping, hostVars, instVars, HostTypes, InstTypes, Instances, None
<1>2. ServingInv'
  <2>1. \A j \in 1..built : j \in Instances /\ life[j].drop # "no"
    BY BuiltAreInstances DEF IInv, ServingInv, Stopped, None
  <2>2. \A j \in Instances : life[j].by \in {"none", "closed", "sweep", "reap", "stop"}
    BY DEF IInv, InstTypes, LifeType
  <2>3. \A j \in Instances : life[j].by # "none" => life[j].drop \in {"no", "done"}
    BY <2>2 DEF Stopped, TasksStopped, Dropping
  <2>4. \A j \in 1..built : life[j].drop = "done"  BY <2>1, <2>3 DEF IInv, DropInv
  <2> QED  BY <2>4 DEF IInv, ServingInv, Stopped, hostVars, instVars
<1>3. InstTypes' /\ FreshInv' /\ StreamInv' /\ CallInv' /\ DropInv'
  BY DEF IInv, Stopped, TasksStopped, Dropping, hostVars, instVars, InstTypes, FreshInv, StreamInv, CallInv, DropInv
<1> QED  BY <1>1, <1>2, <1>3 DEF IInv

LEMMA SetUpKeeps ==
    ASSUME IInv, NEW i \in Instances, SetUp(i)
    PROVE  IInv'
<1>1. InstTypes'
  <2>1. work' \in [Instances -> WorkType]
    <3> DEFINE r == [work[i] EXCEPT !.pc = "idle"]
    <3>1. work \in [Instances -> WorkType]  BY DEF IInv, InstTypes
    <3>2. work[i] \in WorkType  BY <3>1
    <3>3. r \in WorkType  BY <3>2 DEF WorkType, Pcs
    <3>4. work' = [work EXCEPT ![i] = r]  BY <3>1 DEF SetUp, Running
    <3> HIDE DEF r
    <3> QED  BY <3>1, <3>3, <3>4
  <2>2. calls' \in [Instances -> CallsType]
    BY SMTT(20) DEF IInv, SetUp, Running, hostVars, InstTypes, HostTypes, CallsType
  <2>3. life' \in [Instances -> LifeType]
    <3> DEFINE r == [life[i] EXCEPT !.setUp = TRUE]
    <3>1. life \in [Instances -> LifeType]  BY DEF IInv, InstTypes
    <3>2. life[i] \in LifeType  BY <3>1
    <3>3. r \in LifeType  BY <3>2 DEF LifeType, DropStages
    <3>4. life' = [life EXCEPT ![i] = r]  BY <3>1 DEF SetUp, Running
    <3> HIDE DEF r
    <3> QED  BY <3>1, <3>3, <3>4
  <2> QED  BY <2>1, <2>2, <2>3 DEF IInv, InstTypes, SetUp, Running, hostVars
<1>2. FreshInv'
  BY SMTT(20) DEF IInv, SetUp, Running, hostVars, FreshInv, InstTypes, HostTypes, WorkType, CallsType, LifeType,
                  Instances
<1>3. StreamInv'
  BY SMTT(20) DEF IInv, SetUp, Running, hostVars, StreamInv, SameStream, InCall, InstTypes, WorkType
<1>4. CallInv'
  BY SMTT(20) DEF IInv, SetUp, Running, hostVars, CallInv, InstTypes, WorkType, CallsType, LifeType
<1>5. DropInv'
  BY SMTT(20) DEF IInv, SetUp, Running, hostVars, DropInv, CallInv, InstTypes, LifeType
<1>6. ServingInv'
  BY SMTT(20) DEF IInv, SetUp, Running, hostVars, ServingInv, InstTypes, HostTypes, LifeType, Instances, None
<1>7. HostTypes'
  BY DEF IInv, SetUp, Running, hostVars, HostTypes
<1> QED  BY <1>1, <1>2, <1>3, <1>4, <1>5, <1>6, <1>7 DEF IInv

LEMMA SetUpFailsKeeps ==
    ASSUME IInv, NEW i \in Instances, SetUpFails(i)
    PROVE  IInv'
<1>1. InstTypes'
  <2>1. work' \in [Instances -> WorkType]
    <3> DEFINE r == [work[i] EXCEPT !.pc = "ended"]
    <3>1. work \in [Instances -> WorkType]  BY DEF IInv, InstTypes
    <3>2. work[i] \in WorkType  BY <3>1
    <3>3. r \in WorkType  BY <3>2 DEF WorkType, Pcs
    <3>4. work' = [work EXCEPT ![i] = r]  BY <3>1 DEF SetUpFails, Running, Retire
    <3> HIDE DEF r
    <3> QED  BY <3>1, <3>3, <3>4
  <2> QED  BY <2>1 DEF IInv, InstTypes, SetUpFails, Running, Retire
<1>2. HostTypes'
  BY SMTT(20) DEF IInv, SetUpFails, Running, Retire, HostTypes, InstTypes, Instances, None
<1>3. FreshInv'
  BY SMTT(20) DEF IInv, SetUpFails, Running, Retire, FreshInv, InstTypes, HostTypes, WorkType, Instances, None
<1>4. StreamInv'
  BY SMTT(20) DEF IInv, SetUpFails, Running, Retire, StreamInv, SameStream, InCall, InstTypes, WorkType
<1>5. CallInv'
  BY SMTT(20) DEF IInv, SetUpFails, Running, Retire, CallInv, InstTypes, WorkType
<1>6. ServingInv'
  BY SMTT(20) DEF IInv, SetUpFails, Running, Retire, ServingInv, InstTypes, HostTypes, Instances, None
<1>7. DropInv'
  BY DEF IInv, SetUpFails, Running, Retire, DropInv
<1> QED  BY <1>1, <1>2, <1>3, <1>4, <1>5, <1>6, <1>7 DEF IInv

LEMMA TakeInputKeeps ==
    ASSUME IInv, NEW i \in Instances, TakeInput(i)
    PROVE  IInv'
<1>0. slot \in [Instances -> SlotType] /\ work \in [Instances -> WorkType] /\ slot[i] \in SlotType /\ work[i] \in WorkType
  BY DEF IInv, InstTypes
<1> DEFINE q == slot[i].queue
           r == [slot[i] EXCEPT !.queue = Tail(q), !.due = FALSE]
           w == [work[i] EXCEPT !.pc = IF slot[i].due THEN "reset" ELSE "call", !.input = Head(q), !.key = slot[i].stream]
<1>a. slot' = [slot EXCEPT ![i] = r] /\ work' = [work EXCEPT ![i] = w] /\ work[i].pc = "idle" /\ q # <<>>
  BY <1>0 DEF TakeInput
<1>b. q \in Seq(Streams) /\ \A n \in 1..Len(q) : q[n] = slot[i].stream
  BY <1>0 DEF IInv, StreamInv, SameStream, SlotType
<1>c. /\ Tail(q) \in Seq(Streams) /\ Head(q) = slot[i].stream /\ Head(q) \in Streams
      /\ \A n \in 1..Len(Tail(q)) : Tail(q)[n] = slot[i].stream
  <2>1. /\ Tail(q) \in Seq(Streams) /\ Len(q) \in Nat \ {0} /\ Head(q) = q[1] /\ q[1] \in Streams
        /\ \A n \in 1..Len(Tail(q)) : Tail(q)[n] = q[n + 1] /\ n + 1 \in 1..Len(q)
    BY <1>a, <1>b, TailFacts
  <2>2. 1 \in 1..Len(q)  BY <2>1
  <2> QED  BY <1>b, <2>1, <2>2
<1> HIDE DEF q
<1>d. r \in SlotType /\ r.queue = Tail(q) /\ r.stream = slot[i].stream /\ r.due = FALSE
  BY <1>0, <1>c DEF SlotType
<1>e. /\ w \in WorkType /\ w.pc = (IF slot[i].due THEN "reset" ELSE "call")
      /\ w.input = slot[i].stream /\ w.input \in Streams /\ w.key = slot[i].stream /\ w.memory = work[i].memory
  <2>1. slot[i].stream \in Streams \cup {0} /\ slot[i].due \in BOOLEAN  BY <1>0 DEF SlotType
  <2> QED  BY <1>0, <1>c, <2>1 DEF WorkType, Pcs
<1>f. slot[i].due = FALSE => work[i].memory \subseteq {slot[i].stream}
  BY <1>a DEF IInv, StreamInv, SameStream
<1>g. slot[i].due \in BOOLEAN  BY <1>0 DEF SlotType
<1> HIDE DEF r, w
<1>h. \A j \in Instances : slot'[j] = (IF j = i THEN r ELSE slot[j]) /\ work'[j] = (IF j = i THEN w ELSE work[j])
  BY <1>0, <1>a
<1>i. UNCHANGED <<calls, life, built>>  BY DEF TakeInput, hostVars
<1>1. InstTypes'
  <2>1. slot' \in [Instances -> SlotType]
    BY <1>0, <1>a, <1>d
  <2>2. work' \in [Instances -> WorkType]
    BY <1>0, <1>a, <1>e
  <2> QED  BY <2>1, <2>2 DEF IInv, InstTypes, TakeInput, Running, hostVars
<1>2. FreshInv'
  <2>1. i \in Nat /\ i <= built  BY ModuleHostAssumption DEF TakeInput, Running, Instances
  <2>2. \A j \in Instances : j > built => j # i  BY <2>1, BuiltAreInstances DEF IInv
  <2> QED  BY <1>h, <1>i, <2>2 DEF IInv, FreshInv
<1>3. StreamInv'
  <2>1. SameStream(r, w)  BY <1>c, <1>d, <1>e, <1>f, <1>g DEF InCall, SameStream
  <2> QED  BY <1>h, <2>1 DEF IInv, StreamInv
<1>4. CallInv'
  <2>1. work'[i].pc \in {"reset", "call"} /\ life[i].setUp  BY <1>a, <1>e, <1>g, <1>h DEF IInv, CallInv
  <2>2. life[i].drop = "no" => "serve" \notin calls[i].threads  BY <1>a DEF IInv, CallInv
  <2> QED  BY <1>h, <1>i, <2>1, <2>2 DEF IInv, CallInv
<1>5. HostTypes' /\ DropInv' /\ ServingInv'
  BY DEF IInv, TakeInput, Running, hostVars, HostTypes, DropInv, ServingInv
<1> QED  BY <1>1, <1>2, <1>3, <1>4, <1>5 DEF IInv

LEMMA ResetKeeps ==
    ASSUME IInv, NEW i \in Instances, Reset(i)
    PROVE  IInv'
<1>1. InstTypes'
  <2>1. work' \in [Instances -> WorkType]
    <3> DEFINE r == [work[i] EXCEPT !.pc = IF Blocking THEN "resetting" ELSE "call", !.memory = {}]
    <3>1. work \in [Instances -> WorkType]  BY DEF IInv, InstTypes
    <3>2. work[i] \in WorkType  BY <3>1
    <3>3. r \in WorkType  BY <3>2 DEF WorkType, Pcs
    <3>4. work' = [work EXCEPT ![i] = r]  BY <3>1 DEF Reset, Running, LockFree
    <3> HIDE DEF r
    <3> QED  BY <3>1, <3>3, <3>4
  <2>2. calls' \in [Instances -> CallsType]
    <3> DEFINE r == IF Blocking THEN [calls[i] EXCEPT !.lock = "serve", !.threads = @ \cup {"serve"}] ELSE calls[i]
    <3>1. calls \in [Instances -> CallsType]  BY DEF IInv, InstTypes
    <3>2. calls[i] \in CallsType  BY <3>1
    <3>3. r \in CallsType  BY <3>2 DEF CallsType
    <3>4. calls' = [calls EXCEPT ![i] = r]  BY <3>1 DEF Reset, Running, LockFree
    <3> HIDE DEF r
    <3> QED  BY <3>1, <3>3, <3>4
  <2> QED  BY <2>1, <2>2 DEF IInv, InstTypes, Reset, Running, LockFree, hostVars
<1>2. FreshInv'
  BY SMTT(20) DEF IInv, Reset, Running, LockFree, hostVars, FreshInv, InstTypes, HostTypes, WorkType, CallsType,
                  Instances
<1>3. StreamInv'
  BY SMTT(20) DEF IInv, Reset, Running, LockFree, hostVars, StreamInv, SameStream, InCall, InstTypes, WorkType
<1>4. CallInv'
  BY SMTT(20) DEF IInv, Reset, Running, LockFree, hostVars, CallInv, InstTypes, WorkType, CallsType
<1>5. HostTypes' /\ DropInv' /\ ServingInv'
  BY DEF IInv, Reset, Running, LockFree, hostVars, HostTypes, DropInv, ServingInv
<1> QED  BY <1>1, <1>2, <1>3, <1>4, <1>5 DEF IInv

LEMMA CallKeeps ==
    ASSUME IInv, NEW i \in Instances, Call(i)
    PROVE  IInv'
<1>1. InstTypes'
  <2>1. work' \in [Instances -> WorkType]
    <3> DEFINE w == [work[i] EXCEPT !.pc = "calling", !.memory = @ \cup {work[i].input}, !.joined = slot[i].joined]
    <3>1. work \in [Instances -> WorkType] /\ work[i] \in WorkType  BY DEF IInv, InstTypes
    <3>2. slot[i].joined \in Streams \cup {NoStream}  BY DEF IInv, InstTypes, SlotType
    <3>3. work[i].input \in Streams  BY DEF IInv, StreamInv, SameStream, InCall, Call
    <3>4. w \in WorkType  BY <3>1, <3>2, <3>3 DEF WorkType, Pcs
    <3> HIDE DEF w
    <3>5. Idle(w) \in WorkType  BY <3>4 DEF WorkType, Pcs, Idle
    <3>6. work' = [work EXCEPT ![i] = IF Blocking THEN w ELSE Idle(w)]  BY DEF Call, w
    <3> QED  BY <3>1, <3>4, <3>5, <3>6
  <2>2. calls' \in [Instances -> CallsType]
    <3> DEFINE r == IF Blocking THEN [calls[i] EXCEPT !.lock = "serve", !.threads = @ \cup {"serve"}] ELSE calls[i]
    <3>1. calls \in [Instances -> CallsType]  BY DEF IInv, InstTypes
    <3>2. calls[i] \in CallsType  BY <3>1
    <3>3. r \in CallsType  BY <3>2 DEF CallsType
    <3>4. calls' = [calls EXCEPT ![i] = r]  BY <3>1 DEF Call, Running, LockFree, Idle
    <3> HIDE DEF r
    <3> QED  BY <3>1, <3>3, <3>4
  <2> QED  BY <2>1, <2>2 DEF IInv, InstTypes, Call, Running, LockFree, Idle, hostVars
<1>2. FreshInv'
  BY SMTT(20) DEF IInv, Call, Running, LockFree, Idle, hostVars, FreshInv, InstTypes, HostTypes, WorkType, CallsType,
                  Instances
<1>3. StreamInv'
  BY SMTT(20) DEF IInv, Call, Running, LockFree, Idle, hostVars, StreamInv, SameStream, InCall, InstTypes, WorkType
<1>4. CallInv'
  BY SMTT(20) DEF IInv, Call, Running, LockFree, Idle, hostVars, CallInv, InstTypes, WorkType, CallsType
<1>5. HostTypes' /\ DropInv' /\ ServingInv'
  BY DEF IInv, Call, Running, LockFree, Idle, hostVars, HostTypes, DropInv, ServingInv
<1> QED  BY <1>1, <1>2, <1>3, <1>4, <1>5 DEF IInv

LEMMA CallReturnsKeeps ==
    ASSUME IInv, NEW i \in Instances, CallReturns(i)
    PROVE  IInv'
<1>1. InstTypes'
  <2>1. work' \in [Instances -> WorkType]
    <3> DEFINE r == IF work[i].pc = "resetting" THEN [work[i] EXCEPT !.pc = "call"] ELSE Idle(work[i])
    <3>1. work \in [Instances -> WorkType]  BY DEF IInv, InstTypes
    <3>2. work[i] \in WorkType  BY <3>1
    <3>3. r \in WorkType  BY <3>2 DEF WorkType, Pcs, Idle
    <3>4. work' = [work EXCEPT ![i] = r]  BY <3>1 DEF CallReturns, Running, Idle
    <3> HIDE DEF r
    <3> QED  BY <3>1, <3>3, <3>4
  <2>2. calls' \in [Instances -> CallsType]
    <3> DEFINE r == [calls[i] EXCEPT !.lock = "free", !.threads = @ \ {"serve"}]
    <3>1. calls \in [Instances -> CallsType]  BY DEF IInv, InstTypes
    <3>2. calls[i] \in CallsType  BY <3>1
    <3>3. r \in CallsType  BY <3>2 DEF CallsType
    <3>4. calls' = [calls EXCEPT ![i] = r]  BY <3>1 DEF CallReturns, Running, Idle
    <3> HIDE DEF r
    <3> QED  BY <3>1, <3>3, <3>4
  <2> QED  BY <2>1, <2>2 DEF IInv, InstTypes, CallReturns, Running, Idle, hostVars
<1>2. FreshInv'
  BY SMTT(20) DEF IInv, CallReturns, Running, Idle, hostVars, FreshInv, InstTypes, HostTypes, WorkType, CallsType,
                  Instances
<1>3. StreamInv'
  BY SMTT(20) DEF IInv, CallReturns, Running, Idle, hostVars, StreamInv, SameStream, InCall, InstTypes, WorkType
<1>4. CallInv'
  BY SMTT(20) DEF IInv, CallReturns, Running, Idle, hostVars, CallInv, InstTypes, WorkType, CallsType
<1>5. HostTypes' /\ DropInv' /\ ServingInv'
  BY DEF IInv, CallReturns, Running, Idle, hostVars, HostTypes, DropInv, ServingInv
<1> QED  BY <1>1, <1>2, <1>3, <1>4, <1>5 DEF IInv

LEMMA TakeCommandKeeps ==
    ASSUME IInv, NEW i \in Instances, TakeCommand(i)
    PROVE  IInv'
<1>1. InstTypes'
  <2>1. slot' \in [Instances -> SlotType]
    <3> DEFINE r == [slot[i] EXCEPT !.asked = @ - 1]
    <3>1. slot \in [Instances -> SlotType]  BY DEF IInv, InstTypes
    <3>2. slot[i] \in SlotType  BY <3>1
    <3>5. slot[i].asked > 0  BY DEF TakeCommand
    <3>3. r \in SlotType  BY <3>2, <3>5 DEF SlotType
    <3>4. slot' = [slot EXCEPT ![i] = r]  BY <3>1 DEF TakeCommand, InboxRuns
    <3> HIDE DEF r
    <3> QED  BY <3>1, <3>3, <3>4
  <2>2. calls' \in [Instances -> CallsType]
    <3> DEFINE r == [calls[i] EXCEPT !.inbox = "waiting"]
    <3>1. calls \in [Instances -> CallsType]  BY DEF IInv, InstTypes
    <3>2. calls[i] \in CallsType  BY <3>1
    <3>3. r \in CallsType  BY <3>2 DEF CallsType
    <3>4. calls' = [calls EXCEPT ![i] = r]  BY <3>1 DEF TakeCommand, InboxRuns
    <3> HIDE DEF r
    <3> QED  BY <3>1, <3>3, <3>4
  <2> QED  BY <2>1, <2>2 DEF IInv, InstTypes, TakeCommand, InboxRuns, hostVars
<1>2. FreshInv'
  BY SMTT(20) DEF IInv, TakeCommand, InboxRuns, hostVars, FreshInv, InstTypes, HostTypes, CallsType, Instances
<1>3. StreamInv'
  BY SMTT(20) DEF IInv, TakeCommand, InboxRuns, hostVars, StreamInv, SameStream, InCall, InstTypes, SlotType
<1>4. CallInv'
  BY SMTT(20) DEF IInv, TakeCommand, InboxRuns, hostVars, CallInv, InstTypes, CallsType
<1>5. HostTypes' /\ DropInv' /\ ServingInv'
  BY DEF IInv, TakeCommand, InboxRuns, hostVars, HostTypes, DropInv, ServingInv
<1> QED  BY <1>1, <1>2, <1>3, <1>4, <1>5 DEF IInv

LEMMA HandleKeeps ==
    ASSUME IInv, NEW i \in Instances, Handle(i)
    PROVE  IInv'
<1>1. InstTypes'
  <2>1. calls' \in [Instances -> CallsType]
    BY SMTT(20) DEF IInv, Handle, InboxRuns, LockFree, hostVars, InstTypes, HostTypes, CallsType
  <2> QED  BY <2>1 DEF IInv, InstTypes, Handle, InboxRuns, LockFree, hostVars
<1>2. FreshInv'
  BY SMTT(20) DEF IInv, Handle, InboxRuns, LockFree, hostVars, FreshInv, InstTypes, HostTypes, CallsType, Instances
<1>3. CallInv'
  BY SMTT(20) DEF IInv, Handle, InboxRuns, LockFree, hostVars, CallInv, InstTypes, CallsType
<1>4. HostTypes' /\ StreamInv' /\ DropInv' /\ ServingInv'
  BY DEF IInv, Handle, InboxRuns, LockFree, hostVars, HostTypes, StreamInv, DropInv, ServingInv
<1> QED  BY <1>1, <1>2, <1>3, <1>4 DEF IInv

LEMMA HandledKeeps ==
    ASSUME IInv, NEW i \in Instances, Handled(i)
    PROVE  IInv'
<1>1. InstTypes'
  <2>1. calls' \in [Instances -> CallsType]
    <3> DEFINE r == [calls[i] EXCEPT !.inbox = "idle", !.lock = "free", !.threads = @ \ {"inbox"}]
    <3>1. calls \in [Instances -> CallsType]  BY DEF IInv, InstTypes
    <3>2. calls[i] \in CallsType  BY <3>1
    <3>3. r \in CallsType  BY <3>2 DEF CallsType
    <3>4. calls' = [calls EXCEPT ![i] = r]  BY <3>1 DEF Handled, InboxRuns
    <3> HIDE DEF r
    <3> QED  BY <3>1, <3>3, <3>4
  <2> QED  BY <2>1 DEF IInv, InstTypes, Handled, InboxRuns, hostVars
<1>2. FreshInv'
  BY SMTT(20) DEF IInv, Handled, InboxRuns, hostVars, FreshInv, InstTypes, HostTypes, CallsType, Instances
<1>3. CallInv'
  BY SMTT(20) DEF IInv, Handled, InboxRuns, hostVars, CallInv, InstTypes, CallsType
<1>4. HostTypes' /\ StreamInv' /\ DropInv' /\ ServingInv'
  BY DEF IInv, Handled, InboxRuns, hostVars, HostTypes, StreamInv, DropInv, ServingInv
<1> QED  BY <1>1, <1>2, <1>3, <1>4 DEF IInv

LEMMA ThreadEndsKeeps ==
    ASSUME IInv, NEW i \in Instances, ThreadEnds(i)
    PROVE  IInv'
<1>1. InstTypes'
  <2>1. calls' \in [Instances -> CallsType]
    <3>1. PICK who \in calls[i].threads : calls' = [calls EXCEPT ![i].threads = @ \ {who}]  BY DEF ThreadEnds
    <3>2. calls \in [Instances -> CallsType] /\ calls[i] \in CallsType  BY DEF IInv, InstTypes
    <3>3. [calls[i] EXCEPT !.threads = @ \ {who}] \in CallsType  BY <3>2 DEF CallsType
    <3> QED  BY <3>1, <3>2, <3>3
  <2> QED  BY <2>1 DEF IInv, InstTypes, ThreadEnds, hostVars
<1>2. FreshInv'
  BY SMTT(20) DEF IInv, ThreadEnds, hostVars, FreshInv, InstTypes, HostTypes, CallsType, Instances
<1>3. CallInv'
  BY SMTT(20) DEF IInv, ThreadEnds, hostVars, CallInv, InstTypes, CallsType
<1>4. HostTypes' /\ StreamInv' /\ DropInv' /\ ServingInv'
  BY DEF IInv, ThreadEnds, hostVars, HostTypes, StreamInv, DropInv, ServingInv
<1> QED  BY <1>1, <1>2, <1>3, <1>4 DEF IInv

LEMMA InboxStopsKeeps ==
    ASSUME IInv, NEW i \in Instances, InboxStops(i)
    PROVE  IInv'
<1>1. InstTypes'
  <2>1. calls' \in [Instances -> CallsType]
    <3> DEFINE r == Released([calls[i] EXCEPT !.inbox = "ended"], "inbox")
    <3>1. calls \in [Instances -> CallsType]  BY DEF IInv, InstTypes
    <3>2. calls[i] \in CallsType  BY <3>1
    <3>3. r \in CallsType  BY <3>2 DEF CallsType, Released
    <3>4. calls' = [calls EXCEPT ![i] = r]  BY <3>1 DEF InboxStops, Released
    <3> HIDE DEF r
    <3> QED  BY <3>1, <3>3, <3>4
  <2>2. life' \in [Instances -> LifeType]
    <3> DEFINE r == [life[i] EXCEPT !.drop = "tasks"]
    <3>1. life \in [Instances -> LifeType]  BY DEF IInv, InstTypes
    <3>2. life[i] \in LifeType  BY <3>1
    <3>3. r \in LifeType  BY <3>2 DEF LifeType, DropStages
    <3>4. life' = [life EXCEPT ![i] = r]  BY <3>1 DEF InboxStops, Released
    <3> HIDE DEF r
    <3> QED  BY <3>1, <3>3, <3>4
  <2> QED  BY <2>1, <2>2 DEF IInv, InstTypes, InboxStops, Released, hostVars
<1>2. FreshInv'
  BY SMTT(20) DEF IInv, InboxStops, Released, hostVars, FreshInv, InstTypes, HostTypes, CallsType, LifeType, Instances
<1>3. CallInv'
  BY SMTT(20) DEF IInv, InboxStops, Released, hostVars, CallInv, InstTypes, CallsType, LifeType
<1>4. DropInv'
  BY SMTT(20) DEF IInv, InboxStops, Released, hostVars, DropInv, CallInv, InstTypes, LifeType
<1>5. ServingInv'
  BY SMTT(20) DEF IInv, InboxStops, Released, hostVars, ServingInv, InstTypes, HostTypes, LifeType, Instances, None
<1>6. HostTypes' /\ StreamInv'
  BY DEF IInv, InboxStops, Released, hostVars, HostTypes, StreamInv
<1> QED  BY <1>1, <1>2, <1>3, <1>4, <1>5, <1>6 DEF IInv

LEMMA TasksEndKeeps ==
    ASSUME IInv, NEW i \in Instances, TasksEnd(i)
    PROVE  IInv'
<1>1. InstTypes'
  <2>1. slot' \in [Instances -> SlotType]
    <3> DEFINE r == [slot[i] EXCEPT !.queue = <<>>, !.asked = 0]
    <3>1. slot \in [Instances -> SlotType]  BY DEF IInv, InstTypes
    <3>2. slot[i] \in SlotType  BY <3>1
    <3>5. <<>> \in Seq(Streams)  OBVIOUS
    <3>3. r \in SlotType  BY <3>2, <3>5 DEF SlotType
    <3>4. slot' = [slot EXCEPT ![i] = r]  BY <3>1 DEF TasksEnd, Idle, Released
    <3> HIDE DEF r
    <3> QED  BY <3>1, <3>3, <3>4
  <2>2. work' \in [Instances -> WorkType]
    <3> DEFINE r == [Idle(work[i]) EXCEPT !.pc = "ended"]
    <3>1. work \in [Instances -> WorkType]  BY DEF IInv, InstTypes
    <3>2. work[i] \in WorkType  BY <3>1
    <3>3. r \in WorkType  BY <3>2 DEF WorkType, Pcs, Idle
    <3>4. work' = [work EXCEPT ![i] = r]  BY <3>1 DEF TasksEnd, Idle, Released
    <3> HIDE DEF r
    <3> QED  BY <3>1, <3>3, <3>4
  <2>3. calls' \in [Instances -> CallsType]
    <3> DEFINE r == Released(calls[i], "serve")
    <3>1. calls \in [Instances -> CallsType]  BY DEF IInv, InstTypes
    <3>2. calls[i] \in CallsType  BY <3>1
    <3>3. r \in CallsType  BY <3>2 DEF CallsType, Released
    <3>4. calls' = [calls EXCEPT ![i] = r]  BY <3>1 DEF TasksEnd, Idle, Released
    <3> HIDE DEF r
    <3> QED  BY <3>1, <3>3, <3>4
  <2>4. life' \in [Instances -> LifeType]
    <3> DEFINE r == [life[i] EXCEPT !.drop = "closing", !.torn = IF life[i].setUp THEN @ + 1 ELSE @]
    <3>1. life \in [Instances -> LifeType]  BY DEF IInv, InstTypes
    <3>2. life[i] \in LifeType  BY <3>1
    <3>5. (IF life[i].setUp THEN life[i].torn + 1 ELSE life[i].torn) \in Nat  BY <3>2 DEF LifeType
    <3>3. r \in LifeType  BY <3>2, <3>5 DEF LifeType, DropStages
    <3>4. life' = [life EXCEPT ![i] = r]  BY <3>1 DEF TasksEnd, Idle, Released
    <3> HIDE DEF r
    <3> QED  BY <3>1, <3>3, <3>4
  <2> QED  BY <2>1, <2>2, <2>3, <2>4 DEF IInv, InstTypes, TasksEnd, Idle, Released, hostVars
<1>2. FreshInv'
  BY SMTT(20) DEF IInv, TasksEnd, Idle, Released, hostVars, FreshInv, InstTypes, HostTypes, WorkType, CallsType,
                  LifeType, Instances, None
<1>3. StreamInv'
  BY SMTT(20) DEF IInv, TasksEnd, Idle, Released, hostVars, StreamInv, SameStream, InCall, InstTypes, SlotType,
                  WorkType
<1>4. CallInv'
  BY SMTT(20) DEF IInv, TasksEnd, Idle, Released, hostVars, CallInv, InstTypes, WorkType, CallsType, LifeType
<1>5. DropInv'
  BY SMTT(20) DEF IInv, TasksEnd, Idle, Released, hostVars, DropInv, CallInv, InstTypes, LifeType
<1>6. ServingInv'
  <2>1. \A j \in Instances : life[j].drop # "no" => life'[j].drop # "no"
    BY DEF IInv, InstTypes, TasksEnd
  <2>2. \A j \in Instances : life[j].drop = "no" => life'[j] = life[j]
    BY DEF IInv, InstTypes, TasksEnd
  <2>3. \A j \in Instances : life[j].drop = "done" => life'[j] = life[j]
    BY DEF IInv, InstTypes, TasksEnd
  <2>4. UNCHANGED <<serving, retired, built, phase>>  BY DEF TasksEnd, hostVars
  <2>5. \A j \in 1..built : j \in Instances  BY BuiltAreInstances DEF IInv
  <2>6. serving # None => serving \in Instances  BY BuiltAreInstances DEF IInv, None
  <2>7. serving' # None => life'[serving'].drop = "no"  BY <2>2, <2>4, <2>6 DEF IInv, ServingInv
  <2>8. \A j \in 1..built : life'[j].drop = "no" => j = serving \/ \E n \in 1..Len(retired) : retired[n] = j
    BY <2>1, <2>5 DEF IInv, ServingInv
  <2>9. phase = "stopped" => \A j \in 1..built : life'[j].drop = "done"  BY <2>3, <2>5 DEF IInv, ServingInv
  <2> QED  BY <2>4, <2>7, <2>8, <2>9 DEF IInv, ServingInv
<1>7. HostTypes'
  BY DEF IInv, TasksEnd, Idle, Released, hostVars, HostTypes
<1> QED  BY <1>1, <1>2, <1>3, <1>4, <1>5, <1>6, <1>7 DEF IInv

LEMMA DroppedKeeps ==
    ASSUME IInv, NEW i \in Instances, Dropped(i)
    PROVE  IInv'
<1>1. InstTypes'
  <2>1. life' \in [Instances -> LifeType]
    <3> DEFINE r == [life[i] EXCEPT !.drop = "done", !.by = "none"]
    <3>1. life \in [Instances -> LifeType]  BY DEF IInv, InstTypes
    <3>2. life[i] \in LifeType  BY <3>1
    <3>3. r \in LifeType  BY <3>2 DEF LifeType, DropStages
    <3>4. life' = [life EXCEPT ![i] = r]  BY <3>1 DEF Dropped
    <3> HIDE DEF r
    <3> QED  BY <3>1, <3>3, <3>4
  <2> QED  BY <2>1 DEF IInv, InstTypes, Dropped, hostVars
<1>2. FreshInv'
  BY SMTT(20) DEF IInv, Dropped, hostVars, FreshInv, InstTypes, HostTypes, LifeType, Instances, None
<1>3. CallInv'
  BY SMTT(20) DEF IInv, Dropped, hostVars, CallInv, InstTypes, LifeType
<1>4. DropInv'
  BY SMTT(20) DEF IInv, Dropped, hostVars, DropInv, CallInv, InstTypes, LifeType
<1>5. ServingInv'
  <2>1. \A j \in Instances : life[j].drop # "no" => life'[j].drop # "no"
    BY DEF IInv, InstTypes, Dropped
  <2>2. \A j \in Instances : life[j].drop = "no" => life'[j] = life[j]
    BY DEF IInv, InstTypes, Dropped
  <2>3. \A j \in Instances : life[j].drop = "done" => life'[j] = life[j]
    BY DEF IInv, InstTypes, Dropped
  <2>4. UNCHANGED <<serving, retired, built, phase>>  BY DEF Dropped, hostVars
  <2>5. \A j \in 1..built : j \in Instances  BY BuiltAreInstances DEF IInv
  <2>6. serving # None => serving \in Instances  BY BuiltAreInstances DEF IInv, None
  <2>7. serving' # None => life'[serving'].drop = "no"  BY <2>2, <2>4, <2>6 DEF IInv, ServingInv
  <2>8. \A j \in 1..built : life'[j].drop = "no" => j = serving \/ \E n \in 1..Len(retired) : retired[n] = j
    BY <2>1, <2>5 DEF IInv, ServingInv
  <2>9. phase = "stopped" => \A j \in 1..built : life'[j].drop = "done"  BY <2>3, <2>5 DEF IInv, ServingInv
  <2> QED  BY <2>4, <2>7, <2>8, <2>9 DEF IInv, ServingInv
<1>6. HostTypes' /\ StreamInv'
  BY DEF IInv, Dropped, hostVars, HostTypes, StreamInv
<1> QED  BY <1>1, <1>2, <1>3, <1>4, <1>5, <1>6 DEF IInv

\* A message of a kind that leads to nothing is counted only.
LEMMA CountedOnlyKeeps ==
    ASSUME IInv, Arrives, UNCHANGED <<hostVars, instVars>>
    PROVE  IInv'
<1>1. delivered' \in 0..MaxDeliveries  BY CountsToTheBound, ModuleHostAssumption DEF IInv, HostTypes, Arrives
<1> QED
  BY <1>1 DEF IInv, Arrives, hostVars, instVars, InstTypes, HostTypes, FreshInv, StreamInv, SameStream, InCall,
              CallInv, DropInv, ServingInv

LEMMA InitHolds == Init => IInv
<1> SUFFICES ASSUME Init PROVE IInv  OBVIOUS
<1> DEFINE s == NewSlot([run |-> 0, stream |-> 0])
           w == [pc |-> "ended", input |-> 0, key |-> 0, memory |-> {}, joined |-> NoStream]
<1>1. s \in SlotType /\ s.queue = <<>>
  <2>1. <<>> \in Seq(Streams)  OBVIOUS
  <2> QED  BY <2>1 DEF NewSlot, SlotType
<1>2. \A i \in Instances : slot[i] = s /\ work[i] = w  BY DEF Init
<1>3. InstTypes
  <2>1. slot \in [Instances -> SlotType]  BY <1>1 DEF Init
  <2>2. w \in WorkType  BY DEF WorkType, Pcs
  <2>3. work \in [Instances -> WorkType]  BY <2>2 DEF Init
  <2>4. calls \in [Instances -> CallsType]  BY DEF Init, CallsType
  <2>5. life \in [Instances -> LifeType]  BY DEF Init, LifeType, DropStages
  <2> QED  BY <2>1, <2>3, <2>4, <2>5 DEF InstTypes
<1>4. HostTypes
  <2>1. <<>> \in Seq(1..0)  OBVIOUS
  <2>2. built = 0 /\ retired = <<>> /\ serving = 0 /\ delivered = 0  BY DEF Init, None
  <2>3. retired \in Seq(1..built)  BY <2>1, <2>2
  <2>4. 0 \in 0..MaxDeliveries /\ 0 \in 0..MaxInstances /\ 0 \in 0..0  BY ModuleHostAssumption
  <2>5. phase = "serving" /\ backedOff \in BOOLEAN  BY DEF Init
  <2> QED  BY <2>2, <2>3, <2>4, <2>5 DEF HostTypes
<1>5. FreshInv  BY DEF Init, FreshInv
<1>6. StreamInv
  <2>1. SameStream(s, w)
    <3>1. \A n \in 1..Len(s.queue) : s.queue[n] = s.stream  BY <1>1
    <3> HIDE DEF s
    <3> QED  BY <3>1 DEF SameStream, InCall
  <2> QED  BY <1>2, <2>1 DEF StreamInv
<1>7. CallInv  BY DEF Init, CallInv
<1>8. DropInv  BY DEF Init, DropInv
<1>9. ServingInv  BY DEF Init, ServingInv, None
<1> QED  BY <1>3, <1>4, <1>5, <1>6, <1>7, <1>8, <1>9 DEF IInv

LEMMA DeliverKeeps == ASSUME IInv, NEW t \in Topics, NEW k \in Keys, Deliver(t, k) PROVE IInv'
<1>1. CASE DeliverToSlot(t, k)  BY <1>1, DeliverToSlotKeeps
<1>2. CASE DeliverToNone(t, k)  BY <1>2, DeliverToNoneKeeps
<1>3. CASE DeliverToNew(t, k)  BY <1>3, DeliverToNewKeeps
<1>4. CASE DeliverClosed(t, k)
  <2>1. Arrives  BY <1>4 DEF DeliverClosed
  <2>2. delivered' \in 0..MaxDeliveries /\ phase # "stopped" /\ UNCHANGED phase
    BY <2>1, CountsToTheBound, ModuleHostAssumption DEF IInv, HostTypes, Arrives
  <2>3. Evict("closed") \/ UNCHANGED <<hostVars, instVars>>  BY <1>4 DEF DeliverClosed
  <2> QED  BY <2>1, <2>2, <2>3, EvictKeeps, CountedOnlyKeeps
<1> QED  BY <1>1, <1>2, <1>3, <1>4 DEF Deliver

LEMMA HostStepKeeps == ASSUME IInv, Sweep \/ RetryOver \/ ReapOne \/ Stop \/ StopStep \/ Terminated PROVE IInv'
<1>0. delivered \in 0..MaxDeliveries  BY DEF IInv, HostTypes
<1>1. CASE Sweep
  <2>1. Evict("sweep") /\ phase # "stopped" /\ UNCHANGED <<delivered, phase>>  BY <1>1 DEF Sweep
  <2> QED  BY <1>0, <2>1, EvictKeeps
<1>2. CASE RetryOver  BY <1>2, RetryOverKeeps
<1>3. CASE ReapOne
  <2>1. Reap("reap") /\ phase # "stopped" /\ UNCHANGED <<delivered, phase>>  BY <1>3 DEF ReapOne
  <2> QED  BY <2>1, ReapKeeps
<1>4. CASE Stop  BY <1>4, StopKeeps
<1>5. CASE StopStep
  <2>1. CASE Stopped  BY <2>1, StoppedKeeps
  <2>2. CASE StopOne
    <3>1. (Evict("stop") \/ Reap("stop")) /\ phase # "stopped" /\ UNCHANGED <<delivered, phase>>
      BY <2>2 DEF StopOne, TasksStopped
    <3> QED  BY <1>0, <3>1, EvictKeeps, ReapKeeps
  <2> QED  BY <1>5, <2>1, <2>2 DEF StopStep
<1>6. CASE Terminated
  BY <1>6 DEF Terminated, vars, hostVars, instVars, IInv, InstTypes, HostTypes, FreshInv, StreamInv, SameStream,
              InCall, CallInv, DropInv, ServingInv
<1> QED  BY <1>1, <1>2, <1>3, <1>4, <1>5, <1>6

LEMMA InstanceStepKeeps ==
    ASSUME IInv, NEW i \in Instances,
           SetUp(i) \/ SetUpFails(i) \/ TaskStep(i) \/ InboxStep(i) \/ ThreadEnds(i) \/ DropStep(i)
    PROVE  IInv'
<1>1. CASE SetUp(i) \/ SetUpFails(i) \/ ThreadEnds(i)  BY <1>1, SetUpKeeps, SetUpFailsKeeps, ThreadEndsKeeps
<1>2. CASE TaskStep(i)  BY <1>2, TakeInputKeeps, ResetKeeps, CallKeeps, CallReturnsKeeps DEF TaskStep
<1>3. CASE InboxStep(i)  BY <1>3, TakeCommandKeeps, HandleKeeps, HandledKeeps DEF InboxStep
<1>4. CASE DropStep(i)  BY <1>4, InboxStopsKeeps, TasksEndKeeps, DroppedKeeps DEF DropStep
<1> QED  BY <1>1, <1>2, <1>3, <1>4

LEMMA NextKeeps == IInv /\ [Next]_vars => IInv'
<1> SUFFICES ASSUME IInv, [Next]_vars PROVE IInv'  OBVIOUS
<1>1. CASE UNCHANGED vars
  BY <1>1 DEF vars, hostVars, instVars, IInv, InstTypes, HostTypes, FreshInv, StreamInv, SameStream, InCall, CallInv,
              DropInv, ServingInv
<1>2. CASE Next  BY <1>2, DeliverKeeps, HostStepKeeps, InstanceStepKeeps DEF Next
<1> QED  BY <1>1, <1>2

\* The inductive invariant of the host: who is in service or retired, where each
\* instance's task, inbox and drop are, and what its module remembers, at every moment.
THEOREM Invariant == Spec => []IInv
<1>1. Init => IInv  BY InitHolds
<1>2. IInv /\ [Next]_vars => IInv'  BY NextKeeps
<1> QED  BY <1>1, <1>2, PTL DEF Spec

-----------------------------------------------------------------------------
(* What the host keeps of its instances *)

\* Two threads in a module would both hold its one lock.
LEMMA ThreadsAreOne == ASSUME IInv PROVE OneCallAtATime
<1> SUFFICES ASSUME NEW i \in 1..built, life[i].drop = "no" PROVE Cardinality(calls[i].threads) <= 1
  BY DEF OneCallAtATime
<1>1. i \in Instances  BY BuiltAreInstances DEF IInv
<1>2. calls[i].threads \subseteq {"serve", "inbox"}  BY <1>1 DEF IInv, InstTypes, CallsType
<1>3. "serve" \in calls[i].threads => calls[i].lock = "serve"  BY <1>1 DEF IInv, CallInv
<1>4. "inbox" \in calls[i].threads => calls[i].lock = "inbox"  BY <1>1 DEF IInv, CallInv
<1>5. PICK x : calls[i].threads \subseteq {x}  BY <1>2, <1>3, <1>4
<1>6. IsFiniteSet({x}) /\ Cardinality({x}) = 1  BY FS_Singleton
<1>7. Cardinality(calls[i].threads) <= Cardinality({x})  BY <1>5, <1>6, FS_Subset
<1> QED  BY <1>6, <1>7

LEMMA TearDownsAreOne == ASSUME IInv PROVE TornDownOnce
<1> SUFFICES ASSUME NEW i \in 1..built
             PROVE  /\ life[i].torn <= 1
                    /\ life[i].drop = "done" => (life[i].torn = 1 <=> life[i].setUp)
                    /\ phase = "stopped" => life[i].drop = "done"
  BY DEF TornDownOnce
<1>1. i \in Instances  BY BuiltAreInstances DEF IInv
<1>2. life[i].drop \in DropStages /\ life[i].setUp \in BOOLEAN  BY <1>1 DEF IInv, InstTypes, LifeType
<1>3. life[i].torn <= 1  BY <1>1, <1>2 DEF IInv, DropInv, DropStages
<1>4. life[i].drop = "done" => (life[i].torn = 1 <=> life[i].setUp)  BY <1>1, <1>2 DEF IInv, DropInv
<1>5. phase = "stopped" => life[i].drop = "done"  BY DEF IInv, ServingInv
<1> QED  BY <1>3, <1>4, <1>5

LEMMA OutputsAreTheirKeys == ASSUME IInv PROVE OutputsUnderTheirKey
<1>1. \A i \in 1..built : i \in Instances  BY BuiltAreInstances DEF IInv
<1> QED  BY <1>1 DEF IInv, StreamInv, SameStream, InCall, OutputsUnderTheirKey

\* However messages of old and new runs and streams come, and whichever of PipelineClosed,
\* the sweep, a failed setup, a newer run or the host's end drops an instance: outputs go
\* under the key of their input, no two threads are in one module before its drop, and a
\* module that was set up is torn down once.
THEOREM InstancesServed == Spec => []InstancesAreServed
<1>1. IInv => InstancesAreServed
  <2> SUFFICES ASSUME IInv PROVE InstancesAreServed  OBVIOUS
  <2>1. TypeOK  BY TypesAreTypeOK DEF IInv, ServingInv
  <2> QED  BY <2>1, ThreadsAreOne, TearDownsAreOne, OutputsAreTheirKeys DEF InstancesAreServed
<1> QED  BY <1>1, Invariant, PTL

-----------------------------------------------------------------------------
(* The host implements the contract with the module's author *)

Memory == [i \in Instances |-> work[i].memory]
Stages == [i \in Instances |-> Stage(i)]

\* What the contract sees of an instance does not change.
Unseen(i) ==
    /\ work'[i].memory = work[i].memory
    /\ life'[i].setUp = life[i].setUp /\ life'[i].torn = life[i].torn
    /\ life'[i].drop \in {"closing", "done"} <=> life[i].drop \in {"closing", "done"}

LEMMA UnseenKeeps == ASSUME \A i \in Instances : Unseen(i) PROVE UNCHANGED <<Stages, Memory>>
<1>1. \A i \in Instances : Stage(i)' = Stage(i)  BY DEF Unseen, Stage
<1> QED  BY <1>1 DEF Unseen, Stages, Memory

\* Only SetUp, Reset, Call and TasksEnd are seen by the module's author.
LEMMA MostStepsAreUnseen ==
    ASSUME IInv, [Next]_vars,
           \A i \in Instances : ~SetUp(i) /\ ~Reset(i) /\ ~Call(i) /\ ~TasksEnd(i)
    PROVE  UNCHANGED <<Stages, Memory>>
<1>0. work \in [Instances -> WorkType] /\ life \in [Instances -> LifeType] /\ (serving # 0 => serving \in Instances)
  BY BuiltAreInstances DEF IInv, InstTypes
<1>1. CASE UNCHANGED <<work, life>>  BY <1>1, UnseenKeeps DEF Unseen
<1>2. ASSUME NEW who, Evict(who) PROVE UNCHANGED <<Stages, Memory>>
  <2>1. life[serving].drop = "no" /\ serving \in Instances  BY <1>0, <1>2 DEF Evict, None, IInv, ServingInv
  <2>2. \A i \in Instances : Unseen(i)  BY <1>0, <1>2, <2>1 DEF Evict, StartDrop, Unseen, LifeType
  <2> QED  BY <2>2, UnseenKeeps
<1>3. ASSUME NEW who, Reap(who) PROVE UNCHANGED <<Stages, Memory>>
  <2>1. Head(retired) \in Instances
    BY <1>3, BuiltAreInstances, TailFacts DEF IInv, Reap
  <2>2. \A i \in Instances : Unseen(i)  BY <1>0, <1>3, <2>1, SMTT(30) DEF Reap, StartDrop, Unseen, LifeType
  <2> QED  BY <2>2, UnseenKeeps
<1>4. ASSUME NEW t \in Topics, NEW k \in Keys, DeliverToNew(t, k) PROVE UNCHANGED <<Stages, Memory>>
  <2>1. \A i \in Instances : Unseen(i)  BY <1>0, <1>4 DEF DeliverToNew, Unseen, WorkType
  <2> QED  BY <2>1, UnseenKeeps
<1>5. ASSUME NEW i \in Instances, SetUpFails(i) \/ TakeInput(i) \/ CallReturns(i) PROVE UNCHANGED <<Stages, Memory>>
  <2>0. life' = life  BY <1>5 DEF SetUpFails, TakeInput, CallReturns
  <2>1. \A j \in Instances : work'[j].memory = work[j].memory
    <3>1. CASE SetUpFails(i)  BY <1>0, <3>1 DEF SetUpFails, WorkType
    <3>2. CASE TakeInput(i)  BY <1>0, <3>2 DEF TakeInput, WorkType
    <3>3. CASE CallReturns(i)
      <4>1. Idle(work[i]).memory = work[i].memory  BY <1>0 DEF Idle, WorkType
      <4>2. [work[i] EXCEPT !.pc = "call"].memory = work[i].memory  BY <1>0 DEF WorkType
      <4> QED  BY <1>0, <3>3, <4>1, <4>2 DEF CallReturns
    <3> QED  BY <1>5, <3>1, <3>2, <3>3
  <2> QED  BY <2>0, <2>1, UnseenKeeps DEF Unseen
<1>6. ASSUME NEW i \in Instances, InboxStops(i) \/ Dropped(i) PROVE UNCHANGED <<Stages, Memory>>
  <2>1. \A j \in Instances : Unseen(j)  BY <1>0, <1>6 DEF InboxStops, Dropped, Unseen, LifeType
  <2> QED  BY <2>1, UnseenKeeps
<1>7. CASE UNCHANGED vars  BY <1>1, <1>7 DEF vars, instVars
<1>8. ASSUME NEW t \in Topics, NEW k \in Keys, Deliver(t, k) PROVE UNCHANGED <<Stages, Memory>>
  BY <1>1, <1>2, <1>4, <1>8 DEF Deliver, DeliverToSlot, DeliverToNone, DeliverClosed, instVars
<1>9. CASE Sweep \/ RetryOver \/ ReapOne \/ Stop \/ StopStep \/ Terminated
  <2>1. CASE RetryOver \/ Stop \/ Stopped \/ Terminated
    BY <1>1, <2>1 DEF RetryOver, Stop, Stopped, Terminated, vars, instVars
  <2>2. CASE Sweep \/ ReapOne \/ StopOne  BY <1>2, <1>3, <2>2 DEF Sweep, ReapOne, StopOne
  <2> QED  BY <1>9, <2>1, <2>2 DEF StopStep
<1>10. ASSUME NEW i \in Instances, InboxStep(i) \/ ThreadEnds(i) PROVE UNCHANGED <<Stages, Memory>>
  BY <1>1, <1>10 DEF InboxStep, TakeCommand, Handle, Handled, ThreadEnds
<1>11. CASE Next
  BY <1>5, <1>6, <1>8, <1>9, <1>10, <1>11 DEF Next, TaskStep, DropStep
<1> QED  BY <1>7, <1>11

LEMMA InitImplements == Init => Contract!Init
<1> SUFFICES ASSUME Init PROVE Contract!Init  OBVIOUS
<1>1. \A i \in Instances : Stage(i) = "new" /\ work[i].memory = {}  BY DEF Init, Stage
<1> QED  BY <1>1 DEF Contract!Init

LEMMA SetUpImplements == ASSUME IInv, NEW i \in Instances, SetUp(i) PROVE Contract!SetUp(i)
<1>0. work \in [Instances -> WorkType] /\ life \in [Instances -> LifeType]  BY DEF IInv, InstTypes
<1>1. ~life[i].setUp /\ life[i].drop \in {"no", "inbox"} /\ life[i].torn = 0
  BY DEF SetUp, Running, IInv, CallInv, DropInv
<1>2. Stage(i) = "new"  BY <1>1 DEF Stage
<1>3. life'[i].setUp /\ life'[i].torn = 0  BY <1>0, <1>1 DEF SetUp, LifeType
<1>4. Stage(i)' = "ready"  BY <1>3 DEF Stage
<1>5. \A j \in Instances : j # i => life'[j] = life[j]  BY <1>0 DEF SetUp
<1>6. \A j \in Instances : j # i => Stage(j)' = Stage(j)  BY <1>5 DEF Stage
<1>7. \A j \in Instances : work'[j].memory = work[j].memory  BY <1>0 DEF SetUp, WorkType
<1> QED  BY <1>2, <1>4, <1>6, <1>7 DEF Contract!SetUp

\* A module that is called is set up, and not torn down.
LEMMA ReadyWhenCalled ==
    ASSUME IInv, NEW i \in Instances, Running(i), work[i].pc \in {"reset", "call"}
    PROVE  Stage(i) = "ready"
<1>1. life[i].setUp /\ life[i].torn = 0  BY DEF Running, IInv, CallInv, DropInv
<1> QED  BY <1>1 DEF Stage

LEMMA ResetImplements == ASSUME IInv, NEW i \in Instances, Reset(i) PROVE Contract!Reset(i)
<1>0. work \in [Instances -> WorkType]  BY DEF IInv, InstTypes
<1>1. Stage(i) = "ready"  BY ReadyWhenCalled DEF Reset
<1>2. \A j \in Instances : Stage(j)' = Stage(j)  BY DEF Reset, Stage
<1>3. \A j \in Instances : work'[j].memory = IF j = i THEN {} ELSE work[j].memory  BY <1>0 DEF Reset, WorkType
<1> QED  BY <1>1, <1>2, <1>3 DEF Contract!Reset

LEMMA CallImplements ==
    ASSUME IInv, NEW i \in Instances, Call(i), NEW s \in Streams, s = work[i].input PROVE Contract!Process(i, s)
<1>0. work \in [Instances -> WorkType]  BY DEF IInv, InstTypes
<1>1. Stage(i) = "ready"  BY ReadyWhenCalled DEF Call
<1>2. \A j \in Instances : Stage(j)' = Stage(j)  BY DEF Call, Stage
<1>3. work[i].memory \subseteq {work[i].input}  BY DEF Call, IInv, StreamInv, SameStream, InCall
<1>4. \A j \in Instances : work'[j].memory = IF j = i THEN work[i].memory \cup {work[i].input} ELSE work[j].memory
  BY <1>0 DEF Call, Idle, WorkType
<1>5. work[i].memory \cup {work[i].input} = {work[i].input}  BY <1>3
<1> QED  BY <1>1, <1>2, <1>3, <1>4, <1>5 DEF Contract!Process

LEMMA TasksEndImplements == ASSUME IInv, NEW i \in Instances, TasksEnd(i) PROVE Contract!TearDown(i)
<1>0. work \in [Instances -> WorkType] /\ life \in [Instances -> LifeType] /\ life[i].setUp \in BOOLEAN
  BY DEF IInv, InstTypes, LifeType
<1>1. life[i].torn = 0 /\ life[i].drop = "tasks"  BY DEF TasksEnd, IInv, DropInv
<1>2. Stage(i) = IF life[i].setUp THEN "ready" ELSE "new"  BY <1>1 DEF Stage
<1>3. /\ life'[i].torn = (IF life[i].setUp THEN 1 ELSE 0) /\ life'[i].setUp = life[i].setUp /\ life'[i].drop = "closing"
  BY <1>0, <1>1 DEF TasksEnd, LifeType
<1>4. Stage(i)' = IF life[i].setUp THEN "torn" ELSE "gone"  BY <1>3 DEF Stage
<1>5. \A j \in Instances : j # i => life'[j] = life[j]  BY <1>0 DEF TasksEnd
<1>6. \A j \in Instances : j # i => Stage(j)' = Stage(j)  BY <1>5 DEF Stage
<1>7. \A j \in Instances : work'[j].memory = work[j].memory  BY <1>0 DEF TasksEnd, Idle, WorkType
<1> QED  BY <1>2, <1>4, <1>6, <1>7 DEF Contract!TearDown

LEMMA StepImplements == IInv /\ [Next]_vars => [Contract!Next]_Contract!contractVars
<1> SUFFICES ASSUME IInv, [Next]_vars PROVE [Contract!Next]_Contract!contractVars  OBVIOUS
<1>1. CASE \E i \in Instances : SetUp(i)  BY <1>1, SetUpImplements DEF Contract!Next
<1>2. CASE \E i \in Instances : Reset(i)  BY <1>2, ResetImplements DEF Contract!Next
<1>3. CASE \E i \in Instances : Call(i)
  <2>1. PICK i \in Instances : Call(i)  BY <1>3
  <2>2. PICK s \in Streams : s = work[i].input  BY <2>1 DEF Call, IInv, StreamInv, SameStream, InCall
  <2>3. Contract!Process(i, s)  BY <2>1, <2>2, CallImplements
  <2> QED  BY <2>3 DEF Contract!Next
<1>4. CASE \E i \in Instances : TasksEnd(i)  BY <1>4, TasksEndImplements DEF Contract!Next
<1>5. CASE \A i \in Instances : ~SetUp(i) /\ ~Reset(i) /\ ~Call(i) /\ ~TasksEnd(i)
  BY <1>5, MostStepsAreUnseen DEF Contract!contractVars, Stages, Memory
<1> QED  BY <1>1, <1>2, <1>3, <1>4, <1>5

\* The host implements the contract with a module's author: setup once and first, a call
\* only for an input of the stream the module has seen since its reset, teardown once and
\* last, and only of what was set up.
THEOREM Implements == Spec => ImplementsContract
<1>1. Init => Contract!Init  BY InitImplements
<1>2. IInv /\ [Next]_vars => [Contract!Next]_Contract!contractVars  BY StepImplements
<1> QED  BY <1>1, <1>2, Invariant, PTL DEF Spec, ImplementsContract, Contract!Spec

=============================================================================
