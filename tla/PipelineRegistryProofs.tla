----------------------- MODULE PipelineRegistryProofs -----------------------
(***************************************************************************)
(* Theorems about PipelineRegistry for any number of keys, socket          *)
(* handlers, timers and lock objects, and any cap.                         *)
(***************************************************************************)
EXTENDS PipelineRegistry, TLAPS, FiniteSetTheorems, SequenceTheorems

-----------------------------------------------------------------------------
(* The inductive invariant, in parts. *)

\* The task's program counter is one its kind of task can have, and the fields that
\* counter needs are set.
WellFormed ==
    /\ \A c \in Clients :
          /\ pc[c] \in {"out", "lock", "evict", "start", "abort", "in"}
          /\ InFlight(c) => key[c] \in Keys /\ lock[c] \in Locks
          /\ pc[c] = "in" => key[c] \in Keys
    /\ \A t \in Timers :
          /\ pc[t] \in {"out", "sleep", "lock", "evict", "cancelled"}
          /\ pc[t] \in {"lock", "evict", "cancelled"} => lock[t] \in Locks
          /\ pc[t] \in {"sleep", "lock", "evict"} => key[t] \in Keys

\* Clients past the lock.
Holds(c) == pc[c] \in {"evict", "start", "abort"}

Builders == {c \in Clients : Building(c)}
Acquirers(k) == {c \in Clients : InFlight(c) /\ key[c] = k}
Sessions(k) == {c \in Clients : pc[c] = "in" /\ key[c] = k}

\* The counters count what they are said to.
PendingCounts == pending = Cardinality(Builders)
AcquiringCounts == \A k \in Keys : acquiring[k] = Cardinality(Acquirers(k))

TypeInv == TypeOK /\ WellFormed /\ PendingCounts /\ AcquiringCounts

-----------------------------------------------------------------------------

LEMMA ConstantsTyped ==
    /\ IsFiniteSet(Keys) /\ IsFiniteSet(Clients) /\ Clients \cap Timers = {}
    /\ MaxRuns \in Nat /\ IdleTicks \in Nat /\ IdleTicks > 0
    /\ NoKey \notin Keys /\ NoLock \notin Locks /\ NoTask \notin Tasks
    /\ Tasks = Clients \cup Timers
BY RegistryAssumption DEF Tasks

\* Taking a task out of a queue leaves a queue.
LEMMA WithoutTyped ==
    ASSUME NEW S, NEW s \in Seq(S), NEW e
    PROVE  Without(s, e) \in Seq(S)
<1> DEFINE i == CHOOSE j \in 1..Len(s) : s[j] = e
<1>1. CASE \E j \in 1..Len(s) : s[j] = e
  <2>1. i \in 1..Len(s) /\ Len(s) \in Nat /\ \A j \in 1..Len(s) : s[j] \in S
    BY <1>1, LenProperties, ElementOfSeq
  <2> HIDE DEF i
  <2>2. SubSeq(s, 1, i - 1) \in Seq(S)
    BY <2>1, SubSeqProperties
  <2>3. SubSeq(s, i + 1, Len(s)) \in Seq(S)
    BY <2>1, SubSeqProperties
  <2>4. RemoveAt(s, i) \in Seq(S)
    BY <2>2, <2>3, ConcatProperties DEF RemoveAt
  <2> QED BY <1>1, <2>4 DEF Without, i
<1>2. CASE ~\E j \in 1..Len(s) : s[j] = e
  BY <1>2 DEF Without
<1> QED BY <1>1, <1>2

\* Leaving a lock hands it to a task or to nobody.
LEMMA LeaveTyped ==
    ASSUME NEW t, NEW l \in Locks, Leave(t, l),
           holder \in [Locks -> Tasks \cup {NoTask}], waiters \in [Locks -> Seq(Tasks)]
    PROVE  /\ holder' \in [Locks -> Tasks \cup {NoTask}]
           /\ waiters' \in [Locks -> Seq(Tasks)]
<1>1. Without(waiters[l], t) \in Seq(Tasks)
  BY WithoutTyped
<1>2. waiters[l] # <<>> => Head(waiters[l]) \in Tasks /\ Tail(waiters[l]) \in Seq(Tasks)
  BY HeadTailProperties
<1> QED BY <1>1, <1>2 DEF Leave

\* Queueing on a lock adds one task to it.
LEMMA EnqueueTyped ==
    ASSUME NEW t \in Tasks, NEW l \in Locks, Enqueue(t, l),
           holder \in [Locks -> Tasks \cup {NoTask}], waiters \in [Locks -> Seq(Tasks)]
    PROVE  /\ holder' \in [Locks -> Tasks \cup {NoTask}]
           /\ waiters' \in [Locks -> Seq(Tasks)]
           /\ loop' \in Tasks \cup {NoTask}
<1>1. Append(waiters[l], t) \in Seq(Tasks)
  BY AppendProperties
<1> QED BY <1>1 DEF Enqueue

\* When one client changes its mind, a set of clients changes by at most that client.
LEMMA OneClientMoves ==
    ASSUME NEW S \in SUBSET Clients, NEW T \in SUBSET Clients, NEW c \in Clients,
           \A d \in Clients \ {c} : d \in S <=> d \in T
    PROVE  /\ Cardinality(S) \in Nat /\ Cardinality(T) \in Nat
           /\ c \in S => Cardinality(S) > 0
           /\ c \in S /\ c \in T => Cardinality(T) = Cardinality(S)
           /\ c \notin S /\ c \notin T => Cardinality(T) = Cardinality(S)
           /\ c \notin S /\ c \in T => Cardinality(T) = Cardinality(S) + 1
           /\ c \in S /\ c \notin T => Cardinality(T) = Cardinality(S) - 1
<1>1. IsFiniteSet(S) /\ IsFiniteSet(T)
  BY ConstantsTyped, FS_Subset
<1>2. Cardinality(S) \in Nat /\ Cardinality(T) \in Nat
  BY <1>1, FS_CardinalityType
<1>3. c \in S => Cardinality(S) > 0
  BY <1>1, <1>2, FS_EmptySet
<1>4. (c \in S <=> c \in T) => S = T
  OBVIOUS
<1>5. c \notin S /\ c \in T => Cardinality(T) = Cardinality(S) + 1
  <2>1. c \notin S /\ c \in T => T = S \cup {c}
    OBVIOUS
  <2> QED BY <1>1, <2>1, FS_AddElement
<1>6. c \in S /\ c \notin T => Cardinality(T) = Cardinality(S) - 1
  <2>1. c \in S /\ c \notin T => T = S \ {c}
    OBVIOUS
  <2> QED BY <1>1, <2>1, FS_RemoveElement
<1> QED BY <1>2, <1>3, <1>4, <1>5, <1>6

-----------------------------------------------------------------------------
(* The counters count. *)

\* A step of one client moves it in or out of the sets that are counted.
LEMMA CountsOfAClientStep ==
    ASSUME NEW c \in Clients, WellFormed, PendingCounts, AcquiringCounts,
           \A d \in Clients \ {c} : pc'[d] = pc[d] /\ key'[d] = key[d]
    PROVE  /\ pending \in Nat /\ (Building(c) => pending > 0)
           /\ (Building(c) <=> Building(c)') => Cardinality(Builders') = pending
           /\ ~Building(c) /\ Building(c)' => Cardinality(Builders') = pending + 1
           /\ Building(c) /\ ~Building(c)' => Cardinality(Builders') = pending - 1
           /\ \A k \in Keys :
                 LET was == InFlight(c) /\ key[c] = k
                     is  == InFlight(c)' /\ key'[c] = k
                 IN  /\ acquiring[k] \in Nat /\ (was => acquiring[k] > 0)
                     /\ (was <=> is) => Cardinality(Acquirers(k)') = acquiring[k]
                     /\ ~was /\ is => Cardinality(Acquirers(k)') = acquiring[k] + 1
                     /\ was /\ ~is => Cardinality(Acquirers(k)') = acquiring[k] - 1
<1>1. /\ Builders \in SUBSET Clients /\ Builders' \in SUBSET Clients
      /\ \A d \in Clients \ {c} : d \in Builders <=> d \in Builders'
      /\ c \in Builders <=> Building(c)
      /\ c \in Builders' <=> Building(c)'
  BY DEF Builders, Building
<1>2. ASSUME NEW k \in Keys
      PROVE  /\ Acquirers(k) \in SUBSET Clients /\ Acquirers(k)' \in SUBSET Clients
             /\ \A d \in Clients \ {c} : d \in Acquirers(k) <=> d \in Acquirers(k)'
             /\ c \in Acquirers(k) <=> InFlight(c) /\ key[c] = k
             /\ c \in Acquirers(k)' <=> InFlight(c)' /\ key'[c] = k
  BY DEF Acquirers, InFlight
<1>3. /\ pending \in Nat /\ (Building(c) => pending > 0)
      /\ (Building(c) <=> Building(c)') => Cardinality(Builders') = pending
      /\ ~Building(c) /\ Building(c)' => Cardinality(Builders') = pending + 1
      /\ Building(c) /\ ~Building(c)' => Cardinality(Builders') = pending - 1
  <2> HIDE DEF Builders, Building
  <2> QED BY <1>1, OneClientMoves DEF PendingCounts
<1>4. ASSUME NEW k \in Keys
      PROVE  LET was == InFlight(c) /\ key[c] = k
                 is  == InFlight(c)' /\ key'[c] = k
             IN  /\ acquiring[k] \in Nat /\ (was => acquiring[k] > 0)
                 /\ (was <=> is) => Cardinality(Acquirers(k)') = acquiring[k]
                 /\ ~was /\ is => Cardinality(Acquirers(k)') = acquiring[k] + 1
                 /\ was /\ ~is => Cardinality(Acquirers(k)') = acquiring[k] - 1
  BY <1>2, OneClientMoves DEF AcquiringCounts
<1> QED BY <1>3, <1>4

-----------------------------------------------------------------------------
(* Type correctness. *)

LEMMA LeaveAcquireTyped ==
    ASSUME NEW c \in Clients, NEW state, TypeOK, WellFormed, InFlight(c),
           acquiring[key[c]] > 0, LeaveAcquire(c, state)
    PROVE  /\ holder' \in [Locks -> Tasks \cup {NoTask}]
           /\ waiters' \in [Locks -> Seq(Tasks)]
           /\ acquiring' \in [Keys -> Nat]
           /\ lockOf' \in [Keys -> Locks \cup {NoLock}]
           /\ lock' \in [Tasks -> Locks \cup {NoLock}]
           /\ key' \in [Tasks -> Keys \cup {NoKey}]
           /\ loop' \in Tasks \cup {NoTask}
<1>1. key[c] \in Keys /\ lock[c] \in Locks /\ c \in Tasks
  BY ConstantsTyped DEF WellFormed
<1>2. holder' \in [Locks -> Tasks \cup {NoTask}] /\ waiters' \in [Locks -> Seq(Tasks)]
  BY <1>1, LeaveTyped DEF LeaveAcquire, TypeOK
<1>3. acquiring[key[c]] - 1 \in Nat
  BY <1>1 DEF TypeOK
<1> QED BY <1>1, <1>2, <1>3 DEF LeaveAcquire, DropLockIfUnused, TypeOK

\* Touching a key keeps the LRU order over keys.
LEMMA TouchTyped ==
    ASSUME NEW k \in Keys, live \in SUBSET Keys, older \in SUBSET (Keys \X Keys), Touch(k)
    PROVE  older' \in SUBSET (Keys \X Keys)
BY DEF Touch

\* Evicting an entry keeps the registry's types.
LEMMA EvictEntryTyped ==
    ASSUME NEW k \in Keys, TypeOK, EvictEntry(k)
    PROVE  /\ live' \in SUBSET Keys
           /\ sockets' \in [Keys -> Nat]
           /\ timerOf' \in [Keys -> Timers \cup {NoTask}]
           /\ age' \in [Keys -> 0..IdleTicks]
           /\ older' \in SUBSET (Keys \X Keys)
           /\ lockOf' \in [Keys -> Locks \cup {NoLock}]
<1>1. age' \in [Keys -> 0..IdleTicks]
  BY ConstantsTyped DEF TypeOK, EvictEntry
<1>2. older' \in SUBSET (Keys \X Keys)
  BY DEF TypeOK, EvictEntry
<1>3. lockOf' \in [Keys -> Locks \cup {NoLock}]
  BY DEF TypeOK, EvictEntry, DropLockIfUnused
<1> QED BY <1>1, <1>2, <1>3 DEF TypeOK, EvictEntry

LEMMA AfterCancelTyped == \A s \in PC : AfterCancel(s) \in PC
BY DEF AfterCancel, PC

\* A step of one client that keeps types and moves its counters keeps the type invariant.
LEMMA TypeInvOfAClientStep ==
    ASSUME NEW c \in Clients, TypeInv, TypeOK',
           \A d \in Clients \ {c} : pc'[d] = pc[d] /\ key'[d] = key[d] /\ lock'[d] = lock[d],
           /\ pc'[c] \in {"out", "lock", "evict", "start", "abort", "in"}
           /\ InFlight(c)' => key'[c] \in Keys /\ lock'[c] \in Locks
           /\ pc'[c] = "in" => key'[c] \in Keys,
           \A t \in Timers :
              /\ pc'[t] \in {"out", "sleep", "lock", "evict", "cancelled"}
              /\ pc'[t] \in {"lock", "evict", "cancelled"} => lock'[t] \in Locks
              /\ pc'[t] \in {"sleep", "lock", "evict"} => key'[t] \in Keys,
           /\ (Building(c) <=> Building(c)') => pending' = pending
           /\ ~Building(c) /\ Building(c)' => pending' = pending + 1
           /\ Building(c) /\ ~Building(c)' => pending' = pending - 1,
           \A k \in Keys :
                 LET was == InFlight(c) /\ key[c] = k
                     is  == InFlight(c)' /\ key'[c] = k
                 IN  /\ (was <=> is) => acquiring'[k] = acquiring[k]
                     /\ ~was /\ is => acquiring'[k] = acquiring[k] + 1
                     /\ was /\ ~is => acquiring'[k] = acquiring[k] - 1
    PROVE  TypeInv'
<1>1. WellFormed'
  BY DEF TypeInv, WellFormed, InFlight
<1>2. PendingCounts'
  BY CountsOfAClientStep DEF TypeInv, PendingCounts
<1>3. AcquiringCounts'
  <2> SUFFICES ASSUME NEW k \in Keys PROVE acquiring'[k] = Cardinality(Acquirers(k)')
    BY DEF AcquiringCounts
  <2> QED BY CountsOfAClientStep DEF TypeInv
<1> QED BY <1>1, <1>2, <1>3 DEF TypeInv

\* A step that only moves timers keeps the counters.
LEMMA TypeInvOfATimerStep ==
    ASSUME TypeInv, TypeOK', pending' = pending, acquiring' = acquiring,
           \A c \in Clients : pc'[c] = pc[c] /\ key'[c] = key[c] /\ lock'[c] = lock[c],
           \A t \in Timers :
              /\ pc'[t] \in {"out", "sleep", "lock", "evict", "cancelled"}
              /\ pc'[t] \in {"lock", "evict", "cancelled"} => lock'[t] \in Locks
              /\ pc'[t] \in {"sleep", "lock", "evict"} => key'[t] \in Keys
    PROVE  TypeInv'
<1>1. WellFormed'
  BY DEF TypeInv, WellFormed, InFlight
<1>2. Builders' = Builders
  BY DEF Builders, Building
<1>3. \A k \in Keys : Acquirers(k)' = Acquirers(k)
  BY DEF Acquirers, InFlight
<1> QED BY <1>1, <1>2, <1>3 DEF TypeInv, PendingCounts, AcquiringCounts

LEMMA AcquireKeepsTypes ==
    ASSUME TypeInv, NEW c \in Clients, NEW k \in Keys, Acquire(c, k)
    PROVE  TypeInv'
<1>1. PICK l \in Locks :
         /\ lockOf' = [lockOf EXCEPT ![k] = l]
         /\ lock' = [lock EXCEPT ![c] = l]
         /\ Enqueue(c, l)
  BY DEF Acquire
<1>2. c \in Tasks
  BY ConstantsTyped
<1>3. /\ holder' \in [Locks -> Tasks \cup {NoTask}]
      /\ waiters' \in [Locks -> Seq(Tasks)]
      /\ loop' \in Tasks \cup {NoTask}
  BY <1>1, <1>2, EnqueueTyped DEF TypeInv, TypeOK
<1>4. TypeOK'
  BY <1>1, <1>2, <1>3, SMTT(30) DEF TypeInv, TypeOK, Acquire, entryVars, PC
<1>5. /\ \A u \in Tasks \ {c} : pc'[u] = pc[u] /\ key'[u] = key[u] /\ lock'[u] = lock[u]
      /\ pc[c] = "out" /\ pc'[c] = "lock" /\ key'[c] = k /\ lock'[c] = l
      /\ \A j \in Keys : acquiring'[j] = IF j = k THEN acquiring[j] + 1 ELSE acquiring[j]
      /\ pending' = pending
  BY <1>1, <1>2 DEF TypeInv, TypeOK, Acquire
<1>6. ~InFlight(c) /\ InFlight(c)' /\ ~Building(c) /\ ~Building(c)'
  BY <1>5 DEF InFlight, Building
<1>7. Clients \cap Timers = {} /\ Tasks = Clients \cup Timers
  BY ConstantsTyped
<1> QED
  BY <1>1, <1>4, <1>5, <1>6, <1>7, TypeInvOfAClientStep DEF TypeInv, WellFormed

\* A client in flight, or building, is counted.
LEMMA CountersArePositive ==
    ASSUME TypeInv, NEW c \in Clients, InFlight(c)
    PROVE  /\ key[c] \in Keys /\ lock[c] \in Locks
           /\ acquiring[key[c]] \in Nat /\ acquiring[key[c]] > 0
           /\ pending \in Nat /\ (Building(c) => pending > 0)
<1>1. key[c] \in Keys /\ lock[c] \in Locks
  BY DEF TypeInv, WellFormed
<1>2. c \in Acquirers(key[c]) /\ Acquirers(key[c]) \in SUBSET Clients
  BY DEF Acquirers
<1>3. Builders \in SUBSET Clients /\ (Building(c) => c \in Builders)
  BY DEF Builders
<1> QED
  BY <1>1, <1>2, <1>3, OneClientMoves DEF TypeInv, PendingCounts, AcquiringCounts

\* A step that ends client c's acquire keeps the type invariant.
LEMMA EndingAnAcquireKeepsTypes ==
    ASSUME TypeInv, NEW c \in Clients, NEW state \in {"in", "out"},
           InFlight(c), LeaveAcquire(c, state), pc'[c] = state,
           \A d \in Clients \ {c} : pc'[d] = pc[d],
           \A t \in Timers : pc'[t] \in {pc[t], AfterCancel(pc[t])},
           pending' = IF Building(c) THEN pending - 1 ELSE pending,
           live' \in SUBSET Keys, sockets' \in [Keys -> Nat], left' = left, down' = down,
           timerOf' \in [Keys -> Timers \cup {NoTask}], age' \in [Keys -> 0..IdleTicks],
           older' \in SUBSET (Keys \X Keys), pc' \in [Tasks -> PC]
    PROVE  TypeInv'
<1>1. c \in Tasks /\ Clients \cap Timers = {} /\ Tasks = Clients \cup Timers
  BY ConstantsTyped
<1>2. /\ key[c] \in Keys /\ acquiring[key[c]] \in Nat /\ acquiring[key[c]] > 0
      /\ pending \in Nat /\ (Building(c) => pending > 0)
  BY CountersArePositive
<1>3. pending' \in Nat
  BY <1>2
<1>4. TypeOK'
  BY <1>2, <1>3, LeaveAcquireTyped DEF TypeInv, TypeOK
<1>5. /\ \A u \in Tasks \ {c} : key'[u] = key[u] /\ lock'[u] = lock[u]
      /\ state = "in" => key'[c] = key[c]
      /\ \A k \in Keys : acquiring'[k] = IF k = key[c] THEN acquiring[k] - 1 ELSE acquiring[k]
  BY <1>1, <1>2 DEF TypeInv, TypeOK, LeaveAcquire
<1>6. ~InFlight(c)' /\ ~Building(c)'
  BY DEF InFlight, Building
<1>7. \A t \in Timers :
         /\ pc'[t] \in {"out", "sleep", "lock", "evict", "cancelled"}
         /\ pc'[t] \in {"lock", "evict", "cancelled"} => lock'[t] \in Locks
         /\ pc'[t] \in {"sleep", "lock", "evict"} => key'[t] \in Keys
  BY <1>1, <1>5 DEF TypeInv, WellFormed, AfterCancel
<1>8. \A d \in Clients \ {c} : pc'[d] = pc[d] /\ key'[d] = key[d] /\ lock'[d] = lock[d]
  BY <1>1, <1>5
<1> QED BY <1>2, <1>4, <1>5, <1>6, <1>7, <1>8, TypeInvOfAClientStep

LEMMA JoinKeepsTypes ==
    ASSUME TypeInv, NEW c \in Clients, Join(c)
    PROVE  TypeInv'
<1>1. c \in Tasks /\ Clients \cap Timers = {} /\ Tasks = Clients \cup Timers /\ NoTask \notin Tasks
  BY ConstantsTyped
<1>2. InFlight(c) /\ ~Building(c) /\ key[c] \in Keys /\ LeaveAcquire(c, "in")
  BY DEF Join, HasLock, InFlight, Building, TypeInv, WellFormed
<1>3. older' \in SUBSET (Keys \X Keys)
  BY <1>2, TouchTyped DEF TypeInv, TypeOK, Join
<1>4. pc' \in [Tasks -> PC]
  <2>1. "in" \in PC
    BY DEF PC
  <2> QED BY <2>1, AfterCancelTyped DEF TypeInv, TypeOK, Join
<1>5. /\ live' \in SUBSET Keys /\ sockets' \in [Keys -> Nat]
      /\ timerOf' \in [Keys -> Timers \cup {NoTask}]
      /\ left' = left /\ down' = down /\ pending' = pending
  BY <1>2 DEF TypeInv, TypeOK, Join
<1>6. age' \in [Keys -> 0..IdleTicks]
  BY <1>2, ConstantsTyped DEF TypeInv, TypeOK, Join
<1>7. /\ pc'[c] = "in"
      /\ \A d \in Clients \ {c} : pc'[d] = pc[d]
      /\ \A t \in Timers : pc'[t] \in {pc[t], AfterCancel(pc[t])}
  BY <1>1, <1>2 DEF TypeInv, TypeOK, Join
<1> QED BY <1>2, <1>3, <1>4, <1>5, <1>6, <1>7, EndingAnAcquireKeepsTypes

LEMMA StartedKeepsTypes ==
    ASSUME TypeInv, NEW c \in Clients, Started(c)
    PROVE  TypeInv'
<1>1. c \in Tasks /\ Clients \cap Timers = {} /\ Tasks = Clients \cup Timers
  BY ConstantsTyped
<1>2. InFlight(c) /\ Building(c) /\ key[c] \in Keys /\ LeaveAcquire(c, "in")
  BY DEF Started, InFlight, Building, TypeInv, WellFormed
<1>3. older' \in SUBSET (Keys \X Keys)
  BY <1>2, TouchTyped DEF TypeInv, TypeOK, Started
<1>4. pc' \in [Tasks -> PC]
  BY <1>1 DEF TypeInv, TypeOK, Started, PC
<1>5. /\ live' \in SUBSET Keys /\ sockets' \in [Keys -> Nat]
      /\ timerOf' \in [Keys -> Timers \cup {NoTask}]
      /\ left' = left /\ down' = down /\ pending' = pending - 1
  BY <1>2 DEF TypeInv, TypeOK, Started
<1>6. age' \in [Keys -> 0..IdleTicks]
  BY <1>2, ConstantsTyped DEF TypeInv, TypeOK, Started
<1>7. pc'[c] = "in" /\ \A u \in Tasks \ {c} : pc'[u] = pc[u]
  BY <1>1 DEF TypeInv, TypeOK, Started
<1>8. (\A d \in Clients \ {c} : pc'[d] = pc[d]) /\ (\A t \in Timers : pc'[t] \in {pc[t], AfterCancel(pc[t])})
  BY <1>1, <1>7
<1> QED BY <1>2, <1>3, <1>4, <1>5, <1>6, <1>7, <1>8, EndingAnAcquireKeepsTypes

\* A refused, failed or cancelled acquire leaves the registry's entries alone.
LEMMA GivingUpKeepsTypes ==
    ASSUME TypeInv, NEW c \in Clients, Refuse(c) \/ Aborted(c) \/ AcquireCancelled(c)
    PROVE  TypeInv'
<1>1. c \in Tasks /\ Clients \cap Timers = {} /\ Tasks = Clients \cup Timers
  BY ConstantsTyped
<1>2. InFlight(c) /\ LeaveAcquire(c, "out")
  BY DEF Refuse, Aborted, AcquireCancelled, AtMakeRoom, HasLock, InFlight
<1>3. pending' = IF Building(c) THEN pending - 1 ELSE pending
  BY DEF Refuse, Aborted, AcquireCancelled, AtMakeRoom, HasLock, Building
<1>4. /\ live' = live /\ sockets' = sockets /\ timerOf' = timerOf /\ age' = age /\ older' = older
      /\ left' = left /\ down' = down /\ pc' = [pc EXCEPT ![c] = "out"]
  BY DEF Refuse, Aborted, AcquireCancelled
<1>5. /\ live' \in SUBSET Keys /\ sockets' \in [Keys -> Nat] /\ older' \in SUBSET (Keys \X Keys)
      /\ timerOf' \in [Keys -> Timers \cup {NoTask}] /\ age' \in [Keys -> 0..IdleTicks]
  BY <1>4 DEF TypeInv, TypeOK
<1>6. pc' \in [Tasks -> PC] /\ pc'[c] = "out" /\ \A u \in Tasks \ {c} : pc'[u] = pc[u]
  BY <1>1, <1>4 DEF TypeInv, TypeOK, PC
<1>7. (\A d \in Clients \ {c} : pc'[d] = pc[d]) /\ (\A t \in Timers : pc'[t] \in {pc[t], AfterCancel(pc[t])})
  BY <1>1, <1>6
<1> QED BY <1>2, <1>3, <1>4, <1>5, <1>6, <1>7, EndingAnAcquireKeepsTypes

LEMMA BuildKeepsTypes ==
    ASSUME TypeInv, NEW c \in Clients, Build(c)
    PROVE  TypeInv'
<1>1. c \in Tasks /\ Clients \cap Timers = {} /\ Tasks = Clients \cup Timers
  BY ConstantsTyped
<1>2. TypeOK'
  BY <1>1 DEF TypeInv, TypeOK, Build, entryVars, lockVars, PC
<1>3. /\ pc[c] \in {"lock", "evict"} /\ pc'[c] = "start" /\ key' = key /\ lock' = lock
      /\ \A u \in Tasks \ {c} : pc'[u] = pc[u]
      /\ acquiring' = acquiring /\ pending' = pending + 1
  BY <1>1 DEF TypeInv, TypeOK, Build, AtMakeRoom, HasLock
<1>4. InFlight(c) /\ InFlight(c)' /\ (Building(c) <=> pc[c] \in {"start", "abort"})
      /\ (Building(c)' <=> pc'[c] \in {"start", "abort"})
  BY <1>3 DEF InFlight, Building
<1> QED BY <1>1, <1>2, <1>3, <1>4, TypeInvOfAClientStep DEF TypeInv, WellFormed

LEMMA MakeRoomKeepsTypes ==
    ASSUME TypeInv, NEW c \in Clients, MakeRoom(c)
    PROVE  TypeInv'
<1>1. c \in Tasks /\ Clients \cap Timers = {} /\ Tasks = Clients \cup Timers
  BY ConstantsTyped
<1>2. TypeOK'
  <2>1. PICK v \in IdleKeys : EvictEntry(v)
    BY DEF MakeRoom
  <2>2. v \in Keys
    BY <2>1 DEF IdleKeys, TypeInv, TypeOK
  <2> QED BY <1>1, <2>1, <2>2, EvictEntryTyped DEF TypeInv, TypeOK, MakeRoom, PC
<1>3. /\ pc[c] \in {"lock", "evict"} /\ pc'[c] = "evict" /\ key' = key /\ lock' = lock
      /\ \A u \in Tasks \ {c} : pc'[u] = pc[u]
      /\ acquiring' = acquiring /\ pending' = pending
  BY <1>1 DEF TypeInv, TypeOK, MakeRoom, AtMakeRoom, HasLock
<1>4. InFlight(c) /\ InFlight(c)' /\ (Building(c) <=> pc[c] \in {"start", "abort"})
      /\ (Building(c)' <=> pc'[c] \in {"start", "abort"})
  BY <1>3 DEF InFlight, Building
<1> QED BY <1>1, <1>2, <1>3, <1>4, TypeInvOfAClientStep DEF TypeInv, WellFormed

LEMMA StartFailsKeepsTypes ==
    ASSUME TypeInv, NEW c \in Clients, StartFails(c)
    PROVE  TypeInv'
<1>1. c \in Tasks /\ Clients \cap Timers = {} /\ Tasks = Clients \cup Timers
  BY ConstantsTyped
<1>2. TypeOK'
  BY <1>1 DEF TypeInv, TypeOK, StartFails, entryVars, lockVars, PC
<1>3. /\ pc[c] \in {"start"} /\ pc'[c] = "abort" /\ key' = key /\ lock' = lock
      /\ \A u \in Tasks \ {c} : pc'[u] = pc[u]
      /\ acquiring' = acquiring /\ pending' = pending
  BY <1>1 DEF TypeInv, TypeOK, StartFails, AtMakeRoom, HasLock
<1>4. InFlight(c) /\ InFlight(c)' /\ (Building(c) <=> pc[c] \in {"start", "abort"})
      /\ (Building(c)' <=> pc'[c] \in {"start", "abort"})
  BY <1>3 DEF InFlight, Building
<1> QED BY <1>1, <1>2, <1>3, <1>4, TypeInvOfAClientStep DEF TypeInv, WellFormed

LEMMA ReleaseKeepsTypes ==
    ASSUME TypeInv, NEW c \in Clients, Release(c)
    PROVE  TypeInv'
<1>1. c \in Tasks /\ Clients \cap Timers = {} /\ Tasks = Clients \cup Timers /\ IdleTicks \in Nat
  BY ConstantsTyped
<1>2. key[c] \in Keys /\ pc[c] = "in"
  BY DEF Release, TypeInv, WellFormed
<1> DEFINE k == key[c]
           n == IF sockets[k] = 0 THEN 0 ELSE sockets[k] - 1
<1>3. n \in Nat
  BY <1>2 DEF TypeInv, TypeOK
<1>4. TypeOK' /\ pc'[c] = "out"
      /\ (\A d \in Clients \ {c} : pc'[d] = pc[d] /\ key'[d] = key[d] /\ lock'[d] = lock[d])
      /\ \A t \in Timers : \/ pc'[t] = pc[t] /\ key'[t] = key[t] /\ lock'[t] = lock[t]
                           \/ pc'[t] = "sleep" /\ key'[t] \in Keys
  <2>1. CASE k \in live /\ n = 0 /\ timerOf[k] = NoTask
    <3>1. PICK t \in FreeTimers :
             /\ pc' = [pc EXCEPT ![c] = "out", ![t] = "sleep"]
             /\ key' = [key EXCEPT ![c] = NoKey, ![t] = k]
             /\ left' = [left EXCEPT ![t] = IdleTicks]
             /\ timerOf' = [timerOf EXCEPT ![k] = t]
      BY <2>1 DEF Release
    <3>2. t \in Timers
      BY DEF FreeTimers
    <3>3. sockets' = [sockets EXCEPT ![k] = n] /\ older' \in SUBSET (Keys \X Keys)
      BY <1>2, <2>1, TouchTyped DEF Release, TypeInv, TypeOK
    <3>4. pc' \in [Tasks -> PC] /\ key' \in [Tasks -> Keys \cup {NoKey}]
      BY <1>1, <1>2, <3>1, <3>2 DEF TypeInv, TypeOK, PC
    <3>5. left' \in [Timers -> 0..IdleTicks] /\ timerOf' \in [Keys -> Timers \cup {NoTask}]
      BY <1>1, <1>2, <3>1, <3>2 DEF TypeInv, TypeOK
    <3>6. sockets' \in [Keys -> Nat]
      BY <1>2, <1>3, <3>3 DEF TypeInv, TypeOK
    <3> HIDE DEF n, k
    <3>7. TypeOK'
      BY <3>3, <3>4, <3>5, <3>6 DEF TypeInv, TypeOK, Release, lockVars
    <3>8. c # t /\ t \in Tasks /\ k \in Keys /\ lock' = lock
      BY <1>1, <1>2, <3>2 DEF Release, k
    <3>9. /\ pc'[c] = "out" /\ pc'[t] = "sleep" /\ key'[t] = k
          /\ \A u \in Tasks \ {c, t} : pc'[u] = pc[u] /\ key'[u] = key[u]
      BY <1>1, <3>1, <3>8 DEF TypeInv, TypeOK
    <3>10. t \notin Clients /\ c \notin Timers
      BY <1>1, <3>2
    <3> QED BY <1>1, <3>7, <3>8, <3>9, <3>10
  <2>2. CASE ~(k \in live /\ n = 0 /\ timerOf[k] = NoTask)
    <3>1. /\ pc' = [pc EXCEPT ![c] = "out"] /\ key' = [key EXCEPT ![c] = NoKey]
          /\ left' = left /\ timerOf' = timerOf
          /\ \/ sockets' = sockets /\ older' = older
             \/ sockets' = [sockets EXCEPT ![k] = n] /\ Touch(k)
      BY <2>2 DEF Release
    <3>2. older' \in SUBSET (Keys \X Keys) /\ sockets' \in [Keys -> Nat]
      BY <1>2, <1>3, <3>1, TouchTyped, ZenonT(60) DEF TypeInv, TypeOK
    <3> HIDE DEF n, k
    <3>3. TypeOK'
      BY <1>1, <3>1, <3>2 DEF TypeInv, TypeOK, Release, lockVars, PC
    <3> QED BY <1>1, <3>1, <3>3, SMTT(30) DEF Release, TypeInv, TypeOK
  <2> QED BY <2>1, <2>2
<1>5. ~InFlight(c) /\ ~InFlight(c)' /\ ~Building(c) /\ ~Building(c)' /\ pending' = pending
      /\ acquiring' = acquiring
  BY <1>2, <1>4 DEF InFlight, Building, Release
<1>6. \A t \in Timers :
         /\ pc'[t] \in {"out", "sleep", "lock", "evict", "cancelled"}
         /\ pc'[t] \in {"lock", "evict", "cancelled"} => lock'[t] \in Locks
         /\ pc'[t] \in {"sleep", "lock", "evict"} => key'[t] \in Keys
  BY <1>4 DEF TypeInv, WellFormed
<1> QED BY <1>4, <1>5, <1>6, TypeInvOfAClientStep

\* What an idle timer does touches no client.
LEMMA TimerKeepsTypes ==
    ASSUME TypeInv, NEW t \in Timers, TimerStep(t)
    PROVE  /\ TypeInv'
           /\ \A c \in Clients : pc'[c] = pc[c] /\ key'[c] = key[c] /\ lock'[c] = lock[c]
<1>1. t \in Tasks /\ Clients \cap Timers = {} /\ Tasks = Clients \cup Timers /\ NoTask \notin Tasks
  BY ConstantsTyped
<1>2. CASE IdleTimeout(t)
  <2>1. key[t] \in Keys
    BY <1>2 DEF IdleTimeout, TypeInv, WellFormed
  <2>2. /\ holder' \in [Locks -> Tasks \cup {NoTask}]
        /\ waiters' \in [Locks -> Seq(Tasks)]
        /\ loop' \in Tasks \cup {NoTask}
    <3>1. CASE lockOf[key[t]] = NoLock
      BY <1>2, <3>1 DEF IdleTimeout, TypeInv, TypeOK
    <3>2. CASE lockOf[key[t]] # NoLock
      <4>1. lockOf[key[t]] \in Locks /\ Enqueue(t, lockOf[key[t]])
        BY <1>2, <2>1, <3>2 DEF IdleTimeout, TypeInv, TypeOK
      <4> QED BY <1>1, <4>1, EnqueueTyped DEF TypeInv, TypeOK
    <3> QED BY <3>1, <3>2
  <2>3. /\ pc' \in [Tasks -> PC] /\ key' \in [Tasks -> Keys \cup {NoKey}]
        /\ lock' \in [Tasks -> Locks \cup {NoLock}]
        /\ \A u \in Tasks \ {t} : pc'[u] = pc[u] /\ key'[u] = key[u] /\ lock'[u] = lock[u]
        /\ \/ pc'[t] = "out"
           \/ pc'[t] = "lock" /\ key'[t] = key[t] /\ lock'[t] \in Locks
    <3>1. CASE lockOf[key[t]] = NoLock
      BY <1>1, <1>2, <2>1, <3>1, ZenonT(60) DEF IdleTimeout, TypeInv, TypeOK, PC
    <3>2. CASE lockOf[key[t]] # NoLock
      <4>1. lockOf[key[t]] \in Locks
        BY <2>1, <3>2 DEF TypeInv, TypeOK
      <4>2. /\ pc' = [pc EXCEPT ![t] = "lock"] /\ key' = key
            /\ lock' = [lock EXCEPT ![t] = lockOf[key[t]]]
        BY <1>2, <3>2 DEF IdleTimeout
      <4> QED BY <1>1, <4>1, <4>2 DEF TypeInv, TypeOK, PC
    <3> QED BY <3>1, <3>2
  <2>4. TypeOK' /\ pending' = pending /\ acquiring' = acquiring
    BY <1>2, <2>2, <2>3 DEF IdleTimeout, TypeInv, TypeOK, entryVars
  <2> QED BY <1>1, <2>1, <2>3, <2>4, TypeInvOfATimerStep DEF TypeInv, WellFormed
<1>3. CASE IdleEvict(t)
  <2>1. key[t] \in Keys
    BY <1>3 DEF IdleEvict, IdleKeys, TypeInv, TypeOK
  <2>2. TypeOK'
    BY <1>1, <1>3, <2>1, EvictEntryTyped DEF IdleEvict, TypeInv, TypeOK, PC
  <2>3. /\ pc[t] = "lock" /\ pc'[t] = "evict" /\ key' = key /\ lock' = lock
        /\ \A u \in Tasks \ {t} : pc'[u] = pc[u]
        /\ pending' = pending /\ acquiring' = acquiring
    BY <1>1, <1>3 DEF IdleEvict, HasLock, TypeInv, TypeOK
  <2> QED BY <1>1, <2>1, <2>2, <2>3, TypeInvOfATimerStep DEF TypeInv, WellFormed
<1>4. CASE TimerEnds(t)
  <2>1. lock[t] \in Locks /\ Leave(t, lock[t])
    BY <1>4 DEF TimerEnds, HasLock, TypeInv, WellFormed
  <2>2. holder' \in [Locks -> Tasks \cup {NoTask}] /\ waiters' \in [Locks -> Seq(Tasks)]
    BY <2>1, LeaveTyped DEF TypeInv, TypeOK
  <2>3. /\ pc' \in [Tasks -> PC] /\ key' \in [Tasks -> Keys \cup {NoKey}]
        /\ lock' \in [Tasks -> Locks \cup {NoLock}]
        /\ \A u \in Tasks \ {t} : pc'[u] = pc[u] /\ key'[u] = key[u] /\ lock'[u] = lock[u]
        /\ pc'[t] = "out"
    BY <1>1, <1>4 DEF TimerEnds, TypeInv, TypeOK, PC
  <2>4. TypeOK' /\ pending' = pending /\ acquiring' = acquiring
    BY <1>4, <2>2, <2>3 DEF TimerEnds, TypeInv, TypeOK, entryVars
  <2> QED BY <1>1, <2>3, <2>4, TypeInvOfATimerStep DEF TypeInv, WellFormed
<1> QED BY <1>2, <1>3, <1>4 DEF TimerStep

LEMMA StopAllKeepsTypes ==
    ASSUME TypeInv, StopAll
    PROVE  /\ TypeInv'
           /\ \A c \in Clients : pc'[c] = pc[c] /\ key'[c] = key[c] /\ lock'[c] = lock[c]
<1>1. Clients \cap Timers = {} /\ Tasks = Clients \cup Timers /\ NoTask \notin Tasks /\ IdleTicks \in Nat
  BY ConstantsTyped
<1>2. TypeOK'
  BY <1>1, AfterCancelTyped DEF StopAll, TypeInv, TypeOK
<1>3. \A k \in live : timerOf[k] \notin Clients
  BY <1>1 DEF TypeInv, TypeOK
<1>4. /\ \A c \in Clients : pc'[c] = pc[c] /\ key'[c] = key[c] /\ lock'[c] = lock[c]
      /\ \A t \in Timers : /\ pc'[t] \in {pc[t], AfterCancel(pc[t])}
                          /\ key'[t] = key[t] /\ lock'[t] = lock[t]
      /\ pending' = pending /\ acquiring' = acquiring
  BY <1>1, <1>3 DEF StopAll, TypeInv, TypeOK
<1>5. \A t \in Timers :
         /\ pc'[t] \in {"out", "sleep", "lock", "evict", "cancelled"}
         /\ pc'[t] \in {"lock", "evict", "cancelled"} => lock'[t] \in Locks
         /\ pc'[t] \in {"sleep", "lock", "evict"} => key'[t] \in Keys
  BY <1>4 DEF TypeInv, WellFormed, AfterCancel
<1> QED BY <1>2, <1>4, <1>5, TypeInvOfATimerStep

LEMMA TickKeepsTypes ==
    ASSUME TypeInv, Tick
    PROVE  TypeInv'
<1>1. /\ left' \in [Timers -> 0..IdleTicks] /\ age' \in [Keys -> 0..IdleTicks]
      /\ UNCHANGED <<live, sockets, timerOf, older, lockVars, acquiring, pending, taskVars, loop, down>>
  BY ConstantsTyped DEF Tick, TypeInv, TypeOK
<1>2. TypeOK' /\ pending' = pending /\ acquiring' = acquiring /\ UNCHANGED <<pc, key, lock>>
  BY <1>1 DEF TypeInv, TypeOK, lockVars, taskVars
<1> QED BY <1>2, TypeInvOfATimerStep DEF TypeInv, WellFormed

LEMMA InitTypes == Init => TypeInv
<1> SUFFICES ASSUME Init PROVE TypeInv
  OBVIOUS
<1>1. TypeOK
  <2>1. waiters \in [Locks -> Seq(Tasks)]
    BY EmptySeq DEF Init
  <2>2. age \in [Keys -> 0..IdleTicks] /\ left \in [Timers -> 0..IdleTicks]
    BY ConstantsTyped DEF Init
  <2>3. pc \in [Tasks -> PC]
    BY DEF Init, PC
  <2> QED BY <2>1, <2>2, <2>3 DEF Init, TypeOK
<1>2. WellFormed
  BY ConstantsTyped DEF Init, WellFormed, InFlight
<1>3. Builders = {} /\ \A k \in Keys : Acquirers(k) = {}
  BY ConstantsTyped DEF Init, Builders, Building, Acquirers, InFlight
<1>4. PendingCounts /\ AcquiringCounts
  BY <1>3, FS_EmptySet DEF Init, PendingCounts, AcquiringCounts
<1> QED BY <1>1, <1>2, <1>4 DEF TypeInv

LEMMA StutterKeepsTypes ==
    ASSUME TypeInv, UNCHANGED vars PROVE TypeInv'
BY DEF vars, entryVars, lockVars, taskVars, TypeInv, TypeOK, WellFormed, InFlight, PendingCounts,
       Builders, Building, AcquiringCounts, Acquirers

LEMMA NextKeepsTypes == TypeInv /\ [Next]_vars => TypeInv'
<1> SUFFICES ASSUME TypeInv, [Next]_vars PROVE TypeInv'
  OBVIOUS
<1>1. ASSUME NEW c \in Clients, NEW k \in Keys, Acquire(c, k) PROVE TypeInv'
  BY <1>1, AcquireKeepsTypes
<1>2. ASSUME NEW c \in Clients, AcquireStep(c) \/ AcquireCancelled(c) \/ Release(c) PROVE TypeInv'
  BY <1>2, JoinKeepsTypes, BuildKeepsTypes, MakeRoomKeepsTypes, StartedKeepsTypes, StartFailsKeepsTypes,
     GivingUpKeepsTypes, ReleaseKeepsTypes DEF AcquireStep
<1>3. ASSUME NEW t \in Timers, TimerStep(t) PROVE TypeInv'
  BY <1>3, TimerKeepsTypes
<1>4. CASE StopAll \/ Tick
  BY <1>4, StopAllKeepsTypes, TickKeepsTypes
<1>5. CASE Terminated \/ UNCHANGED vars
  BY <1>5, StutterKeepsTypes DEF Terminated
<1> QED BY <1>1, <1>2, <1>3, <1>4, <1>5 DEF Next

\* Every variable of the registry keeps its type, for every number of clients, keys,
\* timers and locks; in particular the counters _pending and _acquiring never go
\* below zero and count exactly the builds and the acquires in flight.
THEOREM TypeCorrect == Spec => []TypeOK
<1>1. TypeInv => TypeOK
  BY DEF TypeInv
<1> QED BY <1>1, InitTypes, NextKeepsTypes, PTL DEF Spec

-----------------------------------------------------------------------------
(* The cap. *)

LEMMA LiveCounts ==
    ASSUME TypeOK
    PROVE  /\ IsFiniteSet(live) /\ Cardinality(live) \in Nat
           /\ \A k : /\ Cardinality(live \ {k}) \in Nat /\ Cardinality(live \ {k}) <= Cardinality(live)
                    /\ Cardinality(live \cup {k}) \in Nat
                    /\ Cardinality(live \cup {k}) <= Cardinality(live) + 1
<1>1. IsFiniteSet(live) /\ Cardinality(live) \in Nat
  BY ConstantsTyped, FS_Subset, FS_CardinalityType DEF TypeOK
<1>2. ASSUME NEW k
      PROVE  /\ Cardinality(live \ {k}) \in Nat /\ Cardinality(live \ {k}) <= Cardinality(live)
             /\ Cardinality(live \cup {k}) \in Nat
             /\ Cardinality(live \cup {k}) <= Cardinality(live) + 1
  <2>1. IsFiniteSet(live \ {k}) /\ IsFiniteSet(live \cup {k})
    BY <1>1, FS_AddElement, FS_RemoveElement
  <2>2. Cardinality(live \ {k}) \in Nat /\ Cardinality(live \cup {k}) \in Nat
    BY <2>1, FS_CardinalityType
  <2>3. Cardinality(live \ {k}) <= Cardinality(live)
    BY <1>1, FS_Subset
  <2>4. Cardinality(live \cup {k}) <= Cardinality(live) + 1
    <3>1. Cardinality(live \cup {k}) = IF k \in live THEN Cardinality(live) ELSE Cardinality(live) + 1
      BY <1>1, FS_AddElement
    <3> QED BY <1>1, <3>1
  <2> QED BY <2>2, <2>3, <2>4
<1> QED BY <1>1, <1>2

LEMMA NextKeepsTheCap ==
    ASSUME TypeInv, NeverMoreThanMaxRuns, [Next]_vars
    PROVE  NeverMoreThanMaxRuns'
<1>1. TypeOK /\ pending \in Nat /\ MaxRuns \in Nat
  BY ConstantsTyped DEF TypeInv, TypeOK
<1>2. /\ Cardinality(live) \in Nat
      /\ \A k : /\ Cardinality(live \ {k}) \in Nat /\ Cardinality(live \ {k}) <= Cardinality(live)
               /\ Cardinality(live \cup {k}) \in Nat
               /\ Cardinality(live \cup {k}) <= Cardinality(live) + 1
  BY <1>1, LiveCounts
<1>3. CASE live' = live /\ pending' = pending
  BY <1>3 DEF NeverMoreThanMaxRuns
<1>4. ASSUME NEW c \in Clients, Build(c) PROVE NeverMoreThanMaxRuns'
  BY <1>1, <1>2, <1>4 DEF Build, Full, entryVars, NeverMoreThanMaxRuns
<1>5. ASSUME NEW k, EvictEntry(k), pending' = pending PROVE NeverMoreThanMaxRuns'
  <2>1. live' = live \ {k}
    BY <1>5 DEF EvictEntry
  <2>2. Cardinality(live') \in Nat /\ Cardinality(live') <= Cardinality(live)
    BY <1>2, <2>1
  <2> QED BY <1>1, <1>2, <1>5, <2>2 DEF NeverMoreThanMaxRuns
<1>6. ASSUME NEW c \in Clients, Started(c) PROVE NeverMoreThanMaxRuns'
  <2>1. live' = live \cup {key[c]} /\ pending' = pending - 1
    BY <1>6 DEF Started
  <2>2. Cardinality(live') \in Nat /\ Cardinality(live') <= Cardinality(live) + 1
    BY <1>2, <2>1
  <2> QED BY <1>1, <1>2, <2>1, <2>2 DEF NeverMoreThanMaxRuns
<1>7. ASSUME NEW c \in Clients, Aborted(c) PROVE NeverMoreThanMaxRuns'
  <2>1. live' = live /\ pending' = pending - 1
    BY <1>7 DEF Aborted
  <2> QED BY <1>1, <1>2, <2>1 DEF NeverMoreThanMaxRuns
<1>8. CASE StopAll
  BY <1>1, <1>2, <1>8, FS_EmptySet DEF StopAll, NeverMoreThanMaxRuns
<1>9. ASSUME NEW c \in Clients, MakeRoom(c) PROVE NeverMoreThanMaxRuns'
  <2>1. (\E v \in IdleKeys : EvictEntry(v)) /\ pending' = pending
    BY <1>9 DEF MakeRoom
  <2> QED BY <1>5, <2>1
<1>10. ASSUME NEW t \in Timers, IdleEvict(t) PROVE NeverMoreThanMaxRuns'
  BY <1>5, <1>10 DEF IdleEvict
<1>11. ASSUME NEW c \in Clients,
              \/ \E k \in Keys : Acquire(c, k)
              \/ Join(c) \/ Refuse(c) \/ StartFails(c) \/ AcquireCancelled(c) \/ Release(c)
       PROVE  live' = live /\ pending' = pending
  BY <1>11 DEF Acquire, Join, Refuse, StartFails, AcquireCancelled, Release, entryVars
<1>12. ASSUME NEW t \in Timers, IdleTimeout(t) \/ TimerEnds(t) PROVE live' = live /\ pending' = pending
  BY <1>12 DEF IdleTimeout, TimerEnds, entryVars
<1>13. CASE Tick \/ Terminated \/ UNCHANGED vars
  <2>1. live' = live /\ pending' = pending
    BY <1>13 DEF Tick, Terminated, vars, entryVars
  <2> QED BY <1>3, <2>1
<1> QED
  BY <1>3, <1>4, <1>6, <1>7, <1>8, <1>9, <1>10, <1>11, <1>12, <1>13 DEF Next, AcquireStep, TimerStep

\* "Never more than max_runs, even mid-build" (pipeline.py, PipelineRegistry): at any
\* time the registered runs and the ones being built are at most max_runs.
THEOREM CapHolds == Spec => []NeverMoreThanMaxRuns
<1>1. Init => NeverMoreThanMaxRuns
  BY ConstantsTyped, FS_EmptySet DEF Init, NeverMoreThanMaxRuns
<1>2. TypeInv /\ NeverMoreThanMaxRuns /\ [Next]_vars => NeverMoreThanMaxRuns'
  BY NextKeepsTheCap
<1> QED BY <1>1, <1>2, InitTypes, NextKeepsTypes, PTL DEF Spec

-----------------------------------------------------------------------------
(* One run per key: the lock object of a key changes only while nobody is     *)
(* acquiring the key, so all who are in flight for it queue on one object.    *)

HoldersHold == \A c \in Clients : Holds(c) => holder[lock[c]] = c
SameLock == \A c, d \in Clients : InFlight(c) /\ InFlight(d) /\ key[c] = key[d] => lock[c] = lock[d]
CurrentLock == ~down => \A c \in Clients : InFlight(c) => lockOf[key[c]] = lock[c]
NotRegistered == \A c \in Clients : Holds(c) => key[c] \notin live

LockInv == HoldersHold /\ SameLock /\ CurrentLock /\ NotRegistered

LEMMA LockInvIsOneRun == LockInv => OneRunPerKey
BY DEF LockInv, HoldersHold, SameLock, NotRegistered, OneRunPerKey, Holds, InFlight

\* Whoever is alone in flight for a key is the only one of whom the lock is kept.
LEMMA AloneInFlight ==
    ASSUME TypeInv, NEW k \in Keys, acquiring[k] = 0
    PROVE  \A d \in Clients : ~(InFlight(d) /\ key[d] = k)
BY CountersArePositive, SMTT(30) DEF TypeInv, TypeOK

LEMMA LastInFlight ==
    ASSUME TypeInv, NEW c \in Clients, InFlight(c), acquiring[key[c]] = 1
    PROVE  \A d \in Clients : InFlight(d) /\ key[d] = key[c] => d = c
<1>1. key[c] \in Keys
  BY CountersArePositive
<1> DEFINE S == Acquirers(key[c])
<1>2. IsFiniteSet(S) /\ Cardinality(S) = 1 /\ c \in S
  BY <1>1, ConstantsTyped, FS_Subset DEF Acquirers, TypeInv, AcquiringCounts
<1>3. Cardinality(S \ {c}) = 0 /\ IsFiniteSet(S \ {c})
  BY <1>2, FS_RemoveElement
<1>4. S \ {c} = {}
  BY <1>3, FS_EmptySet
<1> QED BY <1>4 DEF Acquirers

\* Leaving a lock takes it from nobody else.
LEMMA LeaveTakesFromNobody ==
    ASSUME TypeInv, HoldersHold, NEW u \in Tasks, NEW l \in Locks, Leave(u, l)
    PROVE  \A d \in Clients \ {u} : Holds(d) => holder'[lock[d]] = d
<1> SUFFICES ASSUME NEW d \in Clients \ {u}, Holds(d) PROVE holder'[lock[d]] = d
  OBVIOUS
<1>1. holder[lock[d]] = d /\ lock[d] \in Locks
  BY DEF HoldersHold, TypeInv, WellFormed, InFlight, Holds
<1> QED BY <1>1 DEF Leave, TypeInv, TypeOK

LEMMA EnqueueTakesFromNobody ==
    ASSUME TypeInv, HoldersHold, NEW u \in Tasks, NEW l \in Locks, Enqueue(u, l)
    PROVE  \A d \in Clients : Holds(d) => holder'[lock[d]] = d
<1> SUFFICES ASSUME NEW d \in Clients, Holds(d) PROVE holder'[lock[d]] = d
  OBVIOUS
<1>1. holder[lock[d]] = d /\ lock[d] \in Locks /\ d # NoTask
  BY ConstantsTyped DEF HoldersHold, TypeInv, WellFormed, InFlight, Holds
<1> QED BY <1>1 DEF Enqueue, TypeInv, TypeOK

LEMMA AcquireKeepsLocks ==
    ASSUME TypeInv, LockInv, NEW c \in Clients, NEW k \in Keys, Acquire(c, k)
    PROVE  LockInv'
<1>1. PICK l \in Locks :
         /\ l = IF lockOf[k] = NoLock THEN CHOOSE f \in FreeLocks : TRUE ELSE lockOf[k]
         /\ lockOf' = [lockOf EXCEPT ![k] = l]
         /\ lock' = [lock EXCEPT ![c] = l]
         /\ Enqueue(c, l)
  BY DEF Acquire
<1>2. c \in Tasks /\ Tasks = Clients \cup Timers /\ NoLock \notin Locks
  BY ConstantsTyped
<1>3. /\ ~down /\ down' = down /\ live' = live
      /\ pc'[c] = "lock" /\ key'[c] = k /\ lock'[c] = l
      /\ \A d \in Clients \ {c} : pc'[d] = pc[d] /\ key'[d] = key[d] /\ lock'[d] = lock[d]
  BY <1>1, <1>2 DEF Acquire, entryVars, TypeInv, TypeOK
<1>4. \A d \in Clients : InFlight(d) /\ key[d] = k => lock[d] = l
  <2> SUFFICES ASSUME NEW d \in Clients, InFlight(d), key[d] = k PROVE lock[d] = l
    OBVIOUS
  <2>1. lockOf[k] = lock[d] /\ lock[d] \in Locks
    BY <1>3 DEF LockInv, CurrentLock, TypeInv, WellFormed
  <2> QED BY <1>1, <1>2, <2>1
<1>5. HoldersHold'
  BY <1>1, <1>2, <1>3, EnqueueTakesFromNobody DEF LockInv, HoldersHold, Holds
<1>6. \A d \in Clients \ {c} : InFlight(d)' <=> InFlight(d)
  BY <1>3 DEF InFlight
<1>7. SameLock'
  <2> SUFFICES ASSUME NEW d \in Clients, NEW e \in Clients, InFlight(d)', InFlight(e)', (key[d] = key[e])'
               PROVE  (lock[d] = lock[e])'
    BY DEF SameLock
  <2>1. CASE d = c \/ e = c
    BY <1>3, <1>4, <1>6, <2>1
  <2>2. CASE d # c /\ e # c
    BY <1>3, <1>6, <2>2 DEF LockInv, SameLock
  <2> QED BY <2>1, <2>2
<1>8. CurrentLock'
  <2> SUFFICES ASSUME NEW d \in Clients, InFlight(d)' PROVE lockOf'[key'[d]] = lock'[d]
    BY DEF CurrentLock
  <2>1. CASE d = c
    BY <1>1, <1>3, <2>1 DEF TypeInv, TypeOK
  <2>2. CASE d # c
    <3>1. InFlight(d) /\ key'[d] = key[d] /\ lock'[d] = lock[d]
      BY <1>3, <1>6, <2>2
    <3>2. key[d] \in Keys /\ lockOf[key[d]] = lock[d]
      BY <1>3, <3>1 DEF LockInv, CurrentLock, TypeInv, WellFormed
    <3> QED BY <1>1, <1>4, <3>1, <3>2 DEF TypeInv, TypeOK
  <2> QED BY <2>1, <2>2
<1>9. NotRegistered'
  BY <1>3 DEF LockInv, NotRegistered, Holds
<1> QED BY <1>5, <1>7, <1>8, <1>9 DEF LockInv

\* A step that ends client c's acquire, and registers at most c's own key.
LEMMA EndingAnAcquireKeepsLocks ==
    ASSUME TypeInv, LockInv, NEW c \in Clients, NEW state \in {"in", "out"},
           InFlight(c), LeaveAcquire(c, state), pc'[c] = state,
           \A d \in Clients \ {c} : pc'[d] = pc[d],
           live' = live \/ (Holds(c) /\ live' = live \cup {key[c]}), down' = down
    PROVE  LockInv'
<1>1. c \in Tasks /\ Tasks = Clients \cup Timers
  BY ConstantsTyped
<1>2. /\ key[c] \in Keys /\ lock[c] \in Locks
      /\ acquiring[key[c]] \in Nat /\ acquiring[key[c]] > 0
  BY CountersArePositive
<1>3. ~InFlight(c)' /\ ~Holds(c)' /\ \A d \in Clients \ {c} : (InFlight(d)' <=> InFlight(d)) /\ (Holds(d)' <=> Holds(d))
  BY DEF InFlight, Holds
<1>4. \A d \in Clients \ {c} : key'[d] = key[d] /\ lock'[d] = lock[d]
  BY <1>1 DEF LeaveAcquire, TypeInv, TypeOK
<1>5. HoldersHold'
  BY <1>1, <1>2, <1>3, <1>4, LeaveTakesFromNobody DEF LeaveAcquire, LockInv, HoldersHold
<1>6. SameLock'
  BY <1>3, <1>4 DEF LockInv, SameLock
<1>7. CurrentLock'
  <2> SUFFICES ASSUME ~down, NEW d \in Clients \ {c}, InFlight(d)
               PROVE  lockOf'[key[d]] = lock[d]
    BY <1>3, <1>4 DEF CurrentLock
  <2>1. lockOf[key[d]] = lock[d] /\ key[d] \in Keys
    BY DEF LockInv, CurrentLock, TypeInv, WellFormed
  <2>2. acquiring[key[c]] - 1 = 0 => key[d] # key[c]
    BY <1>2, LastInFlight
  <2> QED BY <1>2, <2>1, <2>2 DEF LeaveAcquire, DropLockIfUnused, TypeInv, TypeOK
<1>8. NotRegistered'
  BY <1>3, <1>4, LockInvIsOneRun DEF LockInv, NotRegistered, OneRunPerKey, Holds
<1> QED BY <1>5, <1>6, <1>7, <1>8 DEF LockInv

\* A step of c past the lock, or of a timer, that at most evicts entries.
LEMMA EvictingKeepsLocks ==
    ASSUME TypeInv, LockInv, key' = key, lock' = lock, holder' = holder, down' = down,
           \A d \in Clients : InFlight(d)' <=> InFlight(d),
           \A d \in Clients : Holds(d)' => holder[lock[d]] = d /\ key[d] \notin live,
           \/ live' = live /\ lockOf' = lockOf
           \/ \E k \in Keys : live' = live \ {k} /\ DropLockIfUnused(k, acquiring[k], live')
    PROVE  LockInv'
<1>1. HoldersHold'
  BY DEF HoldersHold
<1>2. SameLock'
  BY DEF LockInv, SameLock
<1>3. live' \subseteq live
  OBVIOUS
<1>4. NotRegistered'
  BY <1>3 DEF NotRegistered
<1>5. CurrentLock'
  <2>1. SUFFICES ASSUME ~down, NEW d \in Clients, InFlight(d)
                 PROVE  lockOf'[key[d]] = lock[d]
    BY DEF CurrentLock
  <2>2. lockOf[key[d]] = lock[d] /\ key[d] \in Keys
    BY <2>1 DEF LockInv, CurrentLock, TypeInv, WellFormed
  <2>3. \A k \in Keys : acquiring[k] = 0 => key[d] # k
    BY <2>1, AloneInFlight
  <2> QED BY <2>2, <2>3 DEF DropLockIfUnused, TypeInv, TypeOK
<1> QED BY <1>1, <1>2, <1>4, <1>5 DEF LockInv

\* A step that changes neither an acquire in flight nor the entries.
LEMMA UnrelatedStepKeepsLocks ==
    ASSUME TypeInv, LockInv, live' = live, lockOf' = lockOf, down' = down,
           \A d \in Clients : (InFlight(d)' <=> InFlight(d)) /\ (Holds(d)' <=> Holds(d)),
           \A d \in Clients : InFlight(d) => key'[d] = key[d] /\ lock'[d] = lock[d],
           \A d \in Clients : Holds(d) => holder'[lock[d]] = d
    PROVE  LockInv'
<1>1. \A d \in Clients : Holds(d) => InFlight(d)
  BY DEF Holds, InFlight
<1>2. HoldersHold'
  BY <1>1 DEF HoldersHold
<1>3. SameLock'
  BY DEF LockInv, SameLock
<1>4. CurrentLock'
  BY DEF LockInv, CurrentLock
<1>5. NotRegistered'
  BY <1>1 DEF LockInv, NotRegistered
<1> QED BY <1>2, <1>3, <1>4, <1>5 DEF LockInv

LEMMA EndsOfAcquireKeepLocks ==
    ASSUME TypeInv, LockInv, NEW c \in Clients,
           Join(c) \/ Started(c) \/ Refuse(c) \/ Aborted(c) \/ AcquireCancelled(c)
    PROVE  LockInv'
<1>1. c \in Tasks /\ Tasks = Clients \cup Timers /\ Clients \cap Timers = {} /\ NoTask \notin Tasks
  BY ConstantsTyped
<1>2. CASE Join(c)
  <2>1. InFlight(c) /\ key[c] \in Keys
    BY <1>2 DEF Join, HasLock, InFlight, TypeInv, WellFormed
  <2>2. timerOf[key[c]] \notin Clients
    BY <1>1, <2>1 DEF TypeInv, TypeOK
  <2>3. /\ LeaveAcquire(c, "in") /\ live' = live /\ down' = down
        /\ pc'[c] = "in" /\ \A d \in Clients \ {c} : pc'[d] = pc[d]
    BY <1>1, <1>2, <2>2 DEF Join
  <2> QED BY <2>1, <2>3, EndingAnAcquireKeepsLocks
<1>3. CASE Started(c)
  <2>1. InFlight(c) /\ Holds(c)
    BY <1>3 DEF Started, InFlight, Holds
  <2>2. /\ LeaveAcquire(c, "in") /\ live' = live \cup {key[c]} /\ down' = down
        /\ pc'[c] = "in" /\ \A d \in Clients \ {c} : pc'[d] = pc[d]
    BY <1>1, <1>3 DEF Started, TypeInv, TypeOK
  <2> QED BY <2>1, <2>2, EndingAnAcquireKeepsLocks
<1>4. CASE Refuse(c) \/ Aborted(c) \/ AcquireCancelled(c)
  <2>1. InFlight(c)
    BY <1>4 DEF Refuse, Aborted, AcquireCancelled, AtMakeRoom, HasLock, InFlight
  <2>2. /\ LeaveAcquire(c, "out") /\ live' = live /\ down' = down
        /\ pc'[c] = "out" /\ \A d \in Clients \ {c} : pc'[d] = pc[d]
    BY <1>1, <1>4 DEF Refuse, Aborted, AcquireCancelled, TypeInv, TypeOK
  <2> QED BY <2>1, <2>2, EndingAnAcquireKeepsLocks
<1> QED BY <1>2, <1>3, <1>4

LEMMA BuildStepsKeepLocks ==
    ASSUME TypeInv, LockInv, NEW c \in Clients, Build(c) \/ MakeRoom(c) \/ StartFails(c)
    PROVE  LockInv'
<1>1. c \in Tasks /\ Tasks = Clients \cup Timers
  BY ConstantsTyped
<1>2. InFlight(c) /\ holder[lock[c]] = c /\ key[c] \notin live
  BY DEF Build, MakeRoom, StartFails, AtMakeRoom, HasLock, InFlight, Holds,
         LockInv, HoldersHold, NotRegistered
<1>3. /\ key' = key /\ lock' = lock /\ holder' = holder /\ down' = down
      /\ pc'[c] \in {"start", "evict", "abort"}
      /\ \A d \in Clients \ {c} : pc'[d] = pc[d]
  BY <1>1 DEF Build, MakeRoom, StartFails, lockVars, TypeInv, TypeOK
<1>4. \A d \in Clients : InFlight(d)' <=> InFlight(d)
  BY <1>2, <1>3 DEF InFlight
<1>5. \A d \in Clients : Holds(d)' => holder[lock[d]] = d /\ key[d] \notin live
  BY <1>2, <1>3 DEF Holds, LockInv, HoldersHold, NotRegistered
<1>6. \/ live' = live /\ lockOf' = lockOf
      \/ \E k \in Keys : live' = live \ {k} /\ DropLockIfUnused(k, acquiring[k], live')
  BY DEF Build, MakeRoom, StartFails, EvictEntry, IdleKeys, lockVars, entryVars, TypeInv, TypeOK
<1> QED BY <1>3, <1>4, <1>5, <1>6, EvictingKeepsLocks

LEMMA TimerStepsKeepLocks ==
    ASSUME TypeInv, LockInv, NEW t \in Timers, TimerStep(t)
    PROVE  LockInv'
<1>1. /\ t \in Tasks /\ t \notin Clients /\ Tasks = Clients \cup Timers
      /\ \A d \in Clients : pc'[d] = pc[d] /\ key'[d] = key[d] /\ lock'[d] = lock[d]
  BY ConstantsTyped DEF TimerStep, IdleTimeout, IdleEvict, TimerEnds, TypeInv, TypeOK
<1>2. \A d \in Clients : (InFlight(d)' <=> InFlight(d)) /\ (Holds(d)' <=> Holds(d))
  BY <1>1 DEF InFlight, Holds
<1>3. CASE IdleTimeout(t)
  <2>1. \A d \in Clients : Holds(d) => holder'[lock[d]] = d
    <3>1. CASE lockOf[key[t]] = NoLock
      BY <1>3, <3>1 DEF IdleTimeout, LockInv, HoldersHold
    <3>2. CASE lockOf[key[t]] # NoLock
      <4>1. key[t] \in Keys
        BY <1>3 DEF IdleTimeout, TypeInv, WellFormed
      <4>2. lockOf[key[t]] \in Locks /\ Enqueue(t, lockOf[key[t]])
        BY <1>3, <3>2, <4>1 DEF IdleTimeout, TypeInv, TypeOK
      <4> QED BY <1>1, <4>2, EnqueueTakesFromNobody DEF LockInv
    <3> QED BY <3>1, <3>2
  <2>2. live' = live /\ lockOf' = lockOf /\ down' = down
    BY <1>3 DEF IdleTimeout, entryVars
  <2> QED BY <1>1, <1>2, <2>1, <2>2, UnrelatedStepKeepsLocks
<1>4. CASE TimerEnds(t)
  <2>1. lock[t] \in Locks /\ Leave(t, lock[t])
    BY <1>4 DEF TimerEnds, HasLock, TypeInv, WellFormed
  <2>2. \A d \in Clients : Holds(d) => holder'[lock[d]] = d
    BY <1>1, <2>1, LeaveTakesFromNobody DEF LockInv
  <2>3. live' = live /\ lockOf' = lockOf /\ down' = down
    BY <1>4 DEF TimerEnds, entryVars
  <2> QED BY <1>1, <1>2, <2>2, <2>3, UnrelatedStepKeepsLocks
<1>5. CASE IdleEvict(t)
  <2>1. key' = key /\ lock' = lock /\ holder' = holder /\ down' = down
    BY <1>5 DEF IdleEvict
  <2>2. key[t] \in Keys /\ live' = live \ {key[t]} /\ DropLockIfUnused(key[t], acquiring[key[t]], live')
    BY <1>5 DEF IdleEvict, EvictEntry, IdleKeys, TypeInv, TypeOK
  <2>3. \A d \in Clients : Holds(d)' => holder[lock[d]] = d /\ key[d] \notin live
    BY <1>2 DEF LockInv, HoldersHold, NotRegistered
  <2> QED BY <1>2, <2>1, <2>2, <2>3, EvictingKeepsLocks
<1> QED BY <1>3, <1>4, <1>5 DEF TimerStep

\* A release moves its own client, and at most a timer.
LEMMA ReleaseMovesOne ==
    ASSUME TypeInv, NEW c \in Clients, Release(c)
    PROVE  pc[c] = "in" /\ pc'[c] = "out" /\ \A d \in Clients \ {c} : pc'[d] = pc[d] /\ key'[d] = key[d]
<1>1. Tasks = Clients \cup Timers /\ Clients \cap Timers = {}
  BY ConstantsTyped
<1>2. CASE \E t \in FreeTimers :
              /\ pc' = [pc EXCEPT ![c] = "out", ![t] = "sleep"]
              /\ key' = [key EXCEPT ![c] = NoKey, ![t] = key[c]]
  <2>1. PICK t \in Timers : /\ pc' = [pc EXCEPT ![c] = "out", ![t] = "sleep"]
                            /\ key' = [key EXCEPT ![c] = NoKey, ![t] = key[c]]
    BY <1>2 DEF FreeTimers
  <2>2. t # c /\ \A d \in Clients : d # t
    BY <1>1
  <2> QED BY <1>1, <2>1, <2>2 DEF Release, TypeInv, TypeOK
<1>3. CASE pc' = [pc EXCEPT ![c] = "out"] /\ key' = [key EXCEPT ![c] = NoKey]
  BY <1>1, <1>3 DEF Release, TypeInv, TypeOK
<1> QED BY <1>2, <1>3 DEF Release

LEMMA ReleaseKeepsLocks ==
    ASSUME TypeInv, LockInv, NEW c \in Clients, Release(c)
    PROVE  LockInv'
<1>1. Tasks = Clients \cup Timers /\ Clients \cap Timers = {}
  BY ConstantsTyped
<1>2. pc[c] = "in" /\ pc'[c] = "out" /\ \A d \in Clients \ {c} : pc'[d] = pc[d] /\ key'[d] = key[d]
  BY ReleaseMovesOne
<1>3. /\ live' = live /\ lockOf' = lockOf /\ down' = down
      /\ lock' = lock /\ holder' = holder
  BY DEF Release, lockVars
<1>4. \A d \in Clients : (InFlight(d)' <=> InFlight(d)) /\ (Holds(d)' <=> Holds(d))
  BY <1>2 DEF InFlight, Holds
<1>5. \A d \in Clients : InFlight(d) => key'[d] = key[d] /\ lock'[d] = lock[d]
  BY <1>2, <1>3 DEF InFlight
<1>6. \A d \in Clients : Holds(d) => holder'[lock[d]] = d
  BY <1>3 DEF LockInv, HoldersHold
<1> QED BY <1>3, <1>4, <1>5, <1>6, UnrelatedStepKeepsLocks

LEMMA StopAllKeepsLocks ==
    ASSUME TypeInv, LockInv, StopAll
    PROVE  LockInv'
<1>1. down' /\ live' = {} /\ key' = key /\ lock' = lock /\ holder' = holder
  BY DEF StopAll
<1>2. \A d \in Clients : pc'[d] = pc[d]
  BY ConstantsTyped DEF StopAll, TypeInv, TypeOK
<1>3. \A d \in Clients : (InFlight(d)' <=> InFlight(d)) /\ (Holds(d)' <=> Holds(d))
  BY <1>2 DEF InFlight, Holds
<1>4. HoldersHold'
  BY <1>1, <1>3 DEF LockInv, HoldersHold
<1>5. SameLock'
  BY <1>1, <1>3 DEF LockInv, SameLock
<1>6. CurrentLock' /\ NotRegistered'
  BY <1>1 DEF CurrentLock, NotRegistered
<1> QED BY <1>4, <1>5, <1>6 DEF LockInv

LEMMA NextKeepsLocks == TypeInv /\ LockInv /\ [Next]_vars => LockInv'
<1> SUFFICES ASSUME TypeInv, LockInv, [Next]_vars PROVE LockInv'
  OBVIOUS
<1>1. ASSUME NEW c \in Clients, NEW k \in Keys, Acquire(c, k) PROVE LockInv'
  BY <1>1, AcquireKeepsLocks
<1>2. ASSUME NEW c \in Clients, AcquireStep(c) PROVE LockInv'
  BY <1>2, EndsOfAcquireKeepLocks, BuildStepsKeepLocks DEF AcquireStep
<1>3. ASSUME NEW c \in Clients, AcquireCancelled(c) PROVE LockInv'
  BY <1>3, EndsOfAcquireKeepLocks
<1>4. ASSUME NEW c \in Clients, Release(c) PROVE LockInv'
  BY <1>4, ReleaseKeepsLocks
<1>5. ASSUME NEW t \in Timers, TimerStep(t) PROVE LockInv'
  BY <1>5, TimerStepsKeepLocks
<1>6. CASE StopAll
  BY <1>6, StopAllKeepsLocks
<1>7. CASE Tick \/ Terminated \/ UNCHANGED vars
  <2>1. live' = live /\ lockOf' = lockOf /\ down' = down /\ holder' = holder /\ pc' = pc /\ key' = key /\ lock' = lock
    BY <1>7 DEF Tick, Terminated, vars, entryVars, lockVars, taskVars
  <2>2. \A d \in Clients : (InFlight(d)' <=> InFlight(d)) /\ (Holds(d)' <=> Holds(d))
    BY <2>1 DEF InFlight, Holds
  <2>3. \A d \in Clients : Holds(d) => holder'[lock[d]] = d
    BY <2>1 DEF LockInv, HoldersHold
  <2> QED BY <2>1, <2>2, <2>3, UnrelatedStepKeepsLocks
<1> QED BY <1>1, <1>2, <1>3, <1>4, <1>5, <1>6, <1>7 DEF Next

LEMMA InitLocks == Init => LockInv
BY ConstantsTyped DEF Init, LockInv, HoldersHold, SameLock, CurrentLock, NotRegistered, Holds, InFlight

\* "One run per key" (pipeline.py, PipelineRegistry.acquire): for any number of
\* clients, keys and lock objects, two acquires of a key are never past its lock at
\* once, although the lock object itself is dropped and remade, and what they build
\* never lands on a registered run.
THEOREM OneRun == Spec => []OneRunPerKey
<1>1. Init => LockInv
  BY InitLocks
<1>2. TypeInv /\ LockInv /\ [Next]_vars => LockInv'
  BY NextKeepsLocks
<1>3. LockInv => OneRunPerKey
  BY LockInvIsOneRun
<1> QED BY <1>1, <1>2, <1>3, InitTypes, NextKeepsTypes, PTL DEF Spec

-----------------------------------------------------------------------------
(* A watched run is kept: an entry's count is of the sessions of its key, so   *)
(* an eviction, which takes an entry without sockets, takes one nobody watches. *)

LEMMA SameSessions ==
    ASSUME NEW k \in Keys, \A d \in Clients : pc'[d] = "in" <=> pc[d] = "in",
           \A d \in Clients : pc[d] = "in" => key'[d] = key[d]
    PROVE  Sessions(k)' = Sessions(k)
BY DEF Sessions

\* A session of client c's comes or goes.
LEMMA SessionsOfAClientStep ==
    ASSUME NEW c \in Clients, NEW k \in Keys, \A d \in Clients \ {c} : pc'[d] = pc[d] /\ key'[d] = key[d]
    PROVE  LET was == pc[c] = "in" /\ key[c] = k
               is  == pc'[c] = "in" /\ key'[c] = k
               n   == Cardinality(Sessions(k))
           IN  /\ n \in Nat /\ (was => n > 0)
               /\ (was <=> is) => Sessions(k)' = Sessions(k)
               /\ ~was /\ is => Cardinality(Sessions(k)') = n + 1
               /\ was /\ ~is => Cardinality(Sessions(k)') = n - 1
<1>1. /\ Sessions(k) \in SUBSET Clients /\ Sessions(k)' \in SUBSET Clients
      /\ \A d \in Clients \ {c} : d \in Sessions(k) <=> d \in Sessions(k)'
      /\ c \in Sessions(k) <=> pc[c] = "in" /\ key[c] = k
      /\ c \in Sessions(k)' <=> pc'[c] = "in" /\ key'[c] = k
  BY DEF Sessions
<1>2. (c \in Sessions(k) <=> c \in Sessions(k)') => Sessions(k)' = Sessions(k)
  BY <1>1
<1> QED BY <1>1, <1>2, OneClientMoves

LEMMA NoSessions == ASSUME NEW k PROVE Sessions(k) = {} <=> Cardinality(Sessions(k)) = 0
<1>1. IsFiniteSet(Sessions(k))
  BY ConstantsTyped, FS_Subset DEF Sessions
<1> QED BY <1>1, FS_EmptySet

\* What WatchedRunIsKept says of one key.
Watched(k) == (Sessions(k) # {} => k \in live) /\ sockets[k] = Cardinality(Sessions(k))

LEMMA WatchedIsPerKey == WatchedRunIsKept <=> (~down => \A k \in Keys : Watched(k))
BY DEF WatchedRunIsKept, Watched, Sessions

\* A step that neither begins nor ends a session, of a registry that keeps its entries.
LEMMA UnrelatedStepKeepsWatched ==
    ASSUME WatchedRunIsKept, live' = live, sockets' = sockets, down' = down,
           \A d \in Clients : pc'[d] = "in" <=> pc[d] = "in",
           \A d \in Clients : pc[d] = "in" => key'[d] = key[d]
    PROVE  WatchedRunIsKept'
<1>1. \A k \in Keys : Sessions(k)' = Sessions(k)
  BY SameSessions
<1> QED BY <1>1, WatchedIsPerKey DEF Watched, WatchedRunIsKept, Sessions

\* An eviction takes an entry without sockets.
LEMMA EvictionKeepsWatched ==
    ASSUME TypeInv, WatchedRunIsKept, NEW v \in IdleKeys, EvictEntry(v), down' = down,
           \A d \in Clients : pc'[d] = "in" <=> pc[d] = "in", key' = key
    PROVE  WatchedRunIsKept'
<1> SUFFICES ASSUME ~down, NEW k \in Keys PROVE Watched(k)'
  BY WatchedIsPerKey DEF WatchedRunIsKept, Watched, Sessions
<1>1. Sessions(k)' = Sessions(k) /\ Watched(k)
  BY SameSessions, WatchedIsPerKey
<1>2. sockets[v] = 0 /\ v \in Keys
  BY DEF IdleKeys, TypeInv, TypeOK
<1>3. CASE k = v
  BY <1>1, <1>2, <1>3, NoSessions DEF EvictEntry, Watched, TypeInv, TypeOK
<1>4. CASE k # v
  BY <1>1, <1>4 DEF EvictEntry, Watched, TypeInv, TypeOK
<1> QED BY <1>3, <1>4

\* A session of client c begins on a run of the key, which is registered.
LEMMA JoiningKeepsWatched ==
    ASSUME TypeInv, LockInv, WatchedRunIsKept, NEW c \in Clients, Join(c) \/ Started(c)
    PROVE  WatchedRunIsKept'
<1> SUFFICES ASSUME ~down, NEW k \in Keys PROVE Watched(k)'
  <2>1. down' = down
    BY DEF Join, Started
  <2> QED BY <2>1, WatchedIsPerKey DEF WatchedRunIsKept, Watched, Sessions
<1>1. c \in Tasks /\ Tasks = Clients \cup Timers /\ Clients \cap Timers = {} /\ NoTask \notin Tasks
  BY ConstantsTyped
<1>2. InFlight(c) /\ pc[c] # "in" /\ key[c] \in Keys
  BY DEF Join, Started, HasLock, InFlight, TypeInv, WellFormed
<1>3. timerOf[key[c]] \notin Clients
  BY <1>1, <1>2 DEF TypeInv, TypeOK
<1>4. \A d \in Clients \ {c} : pc'[d] = pc[d]
  BY <1>1, <1>3 DEF Join, Started, TypeInv, TypeOK
<1>5. key' = key
  <2>1. LeaveAcquire(c, "in")
    BY DEF Join, Started
  <2> QED BY <1>1, <2>1 DEF LeaveAcquire, TypeInv, TypeOK
<1>6. pc'[c] = "in"
  BY <1>1 DEF Join, Started, TypeInv, TypeOK
<1>7. live' = live \cup {key[c]}
  BY DEF Join, Started
<1>8. /\ Cardinality(Sessions(k)) \in Nat
      /\ k = key[c] => Cardinality(Sessions(k)') = Cardinality(Sessions(k)) + 1
      /\ k # key[c] => Sessions(k)' = Sessions(k)
  BY <1>2, <1>4, <1>5, <1>6, SessionsOfAClientStep
<1>9. Watched(k)
  BY WatchedIsPerKey
<1>10. CASE k # key[c]
  BY <1>2, <1>7, <1>8, <1>9, <1>10 DEF Watched, Join, Started, TypeInv, TypeOK
<1>11. CASE k = key[c]
  <2>1. sockets'[k] = sockets[k] + 1
    <3>1. CASE Join(c)
      BY <1>11, <3>1 DEF Join, TypeInv, TypeOK
    <3>2. CASE Started(c)
      <4>1. k \notin live
        BY <1>11, <3>2 DEF Started, LockInv, NotRegistered, Holds
      <4>2. sockets[k] = 0
        BY <1>9, <4>1, NoSessions DEF Watched
      <4> QED BY <1>11, <3>2, <4>2 DEF Started, TypeInv, TypeOK
    <3> QED BY <3>1, <3>2
  <2> QED BY <1>7, <1>8, <1>9, <1>11, <2>1 DEF Watched
<1> QED BY <1>10, <1>11

\* A session of client c ends: its run is registered, and counts it.
LEMMA ReleaseKeepsWatched ==
    ASSUME TypeInv, WatchedRunIsKept, NEW c \in Clients, Release(c)
    PROVE  WatchedRunIsKept'
<1> SUFFICES ASSUME ~down, NEW k \in Keys PROVE Watched(k)'
  <2>1. down' = down
    BY DEF Release
  <2> QED BY <2>1, WatchedIsPerKey DEF WatchedRunIsKept, Watched, Sessions
<1>1. pc[c] = "in" /\ key[c] \in Keys /\ live' = live
  BY DEF Release, TypeInv, WellFormed
<1>2. pc'[c] = "out" /\ \A d \in Clients \ {c} : pc'[d] = pc[d] /\ key'[d] = key[d]
  BY ReleaseMovesOne
<1>3. Watched(k) /\ Watched(key[c])
  BY <1>1, WatchedIsPerKey
<1>4. c \in Sessions(key[c])
  BY <1>1 DEF Sessions
<1>5. key[c] \in live
  BY <1>3, <1>4 DEF Watched
<1>6. /\ Cardinality(Sessions(k)) \in Nat
      /\ k = key[c] => Cardinality(Sessions(k)) > 0 /\ Cardinality(Sessions(k)') = Cardinality(Sessions(k)) - 1
      /\ k # key[c] => Sessions(k)' = Sessions(k)
  BY <1>1, <1>2, SessionsOfAClientStep
<1>7. sockets' = [sockets EXCEPT ![key[c]] = IF sockets[key[c]] = 0 THEN 0 ELSE sockets[key[c]] - 1]
  BY <1>5 DEF Release
<1>8. CASE k = key[c]
  BY <1>1, <1>3, <1>5, <1>6, <1>7, <1>8 DEF Watched, TypeInv, TypeOK
<1>9. CASE k # key[c]
  BY <1>1, <1>3, <1>6, <1>7, <1>9 DEF Watched, TypeInv, TypeOK
<1> QED BY <1>8, <1>9

LEMMA NextKeepsWatched ==
    ASSUME TypeInv, LockInv, WatchedRunIsKept, [Next]_vars PROVE WatchedRunIsKept'
<1>0. Tasks = Clients \cup Timers /\ Clients \cap Timers = {} /\ Clients \subseteq Tasks
  BY ConstantsTyped
<1>1. ASSUME NEW c \in Clients, NEW k \in Keys, Acquire(c, k) PROVE WatchedRunIsKept'
  <2>1. /\ live' = live /\ sockets' = sockets /\ down' = down /\ pc[c] = "out" /\ pc'[c] = "lock"
        /\ \A d \in Clients \ {c} : pc'[d] = pc[d] /\ key'[d] = key[d]
    BY <1>0, <1>1 DEF Acquire, entryVars, TypeInv, TypeOK
  <2> QED BY <2>1, UnrelatedStepKeepsWatched
<1>2. ASSUME NEW c \in Clients, Join(c) \/ Started(c) PROVE WatchedRunIsKept'
  BY <1>2, JoiningKeepsWatched
<1>3. ASSUME NEW c \in Clients, Refuse(c) \/ Aborted(c) \/ AcquireCancelled(c) PROVE WatchedRunIsKept'
  <2>1. /\ live' = live /\ sockets' = sockets /\ down' = down /\ pc[c] # "in" /\ pc'[c] = "out"
        /\ \A d \in Clients \ {c} : pc'[d] = pc[d]
    BY <1>0, <1>3 DEF Refuse, Aborted, AcquireCancelled, AtMakeRoom, HasLock, TypeInv, TypeOK
  <2>2. \A d \in Clients \ {c} : key'[d] = key[d]
    BY <1>0, <1>3 DEF Refuse, Aborted, AcquireCancelled, LeaveAcquire, TypeInv, TypeOK
  <2> QED BY <2>1, <2>2, UnrelatedStepKeepsWatched
<1>4. ASSUME NEW c \in Clients, Build(c) \/ StartFails(c) PROVE WatchedRunIsKept'
  <2>1. /\ live' = live /\ sockets' = sockets /\ down' = down /\ key' = key
        /\ pc[c] # "in" /\ pc'[c] \in {"start", "abort"}
        /\ \A d \in Clients \ {c} : pc'[d] = pc[d]
    BY <1>0, <1>4 DEF Build, StartFails, AtMakeRoom, HasLock, entryVars, TypeInv, TypeOK
  <2> QED BY <2>1, UnrelatedStepKeepsWatched
<1>5. ASSUME NEW c \in Clients, MakeRoom(c) PROVE WatchedRunIsKept'
  <2>1. PICK v \in IdleKeys : EvictEntry(v)
    BY <1>5 DEF MakeRoom
  <2>2. down' = down /\ key' = key /\ pc[c] # "in" /\ pc'[c] = "evict" /\ \A d \in Clients \ {c} : pc'[d] = pc[d]
    BY <1>0, <1>5 DEF MakeRoom, AtMakeRoom, HasLock, TypeInv, TypeOK
  <2> QED BY <2>1, <2>2, EvictionKeepsWatched
<1>6. ASSUME NEW c \in Clients, Release(c) PROVE WatchedRunIsKept'
  BY <1>6, ReleaseKeepsWatched
<1>7. ASSUME NEW t \in Timers, TimerStep(t) PROVE WatchedRunIsKept'
  <2>1. /\ down' = down
        /\ \A d \in Clients : pc'[d] = pc[d] /\ key'[d] = key[d]
    BY <1>0, <1>7 DEF TimerStep, IdleTimeout, IdleEvict, TimerEnds, TypeInv, TypeOK
  <2>2. CASE IdleTimeout(t) \/ TimerEnds(t)
    <3>1. live' = live /\ sockets' = sockets
      BY <2>2 DEF IdleTimeout, TimerEnds, entryVars
    <3> QED BY <2>1, <3>1, UnrelatedStepKeepsWatched
  <2>3. CASE IdleEvict(t)
    <3>1. key[t] \in IdleKeys /\ EvictEntry(key[t]) /\ key' = key
      BY <2>3 DEF IdleEvict
    <3> QED BY <2>1, <3>1, EvictionKeepsWatched
  <2> QED BY <1>7, <2>2, <2>3 DEF TimerStep
<1>8. CASE StopAll
  BY <1>8 DEF StopAll, WatchedRunIsKept
<1>9. CASE Tick \/ Terminated \/ UNCHANGED vars
  <2>1. live' = live /\ sockets' = sockets /\ down' = down /\ pc' = pc /\ key' = key
    BY <1>9 DEF Tick, Terminated, vars, entryVars, taskVars
  <2> QED BY <2>1, UnrelatedStepKeepsWatched
<1> QED BY <1>1, <1>2, <1>3, <1>4, <1>5, <1>6, <1>7, <1>8, <1>9 DEF Next, AcquireStep

\* A run with a session is never evicted, and its count of sockets is the number of its
\* sessions (pipeline.py, PipelineRegistry): whatever joins, releases, idle timers,
\* failed builds and evictions overlap, for any number of clients, keys and timers.
THEOREM WatchedRuns == Spec => []WatchedRunIsKept
<1>1. Init => WatchedRunIsKept
  BY FS_EmptySet, ZenonT(60) DEF Init, WatchedRunIsKept, Tasks
<1>2. Init => LockInv
  BY InitLocks
<1>3. TypeInv /\ LockInv /\ WatchedRunIsKept /\ [Next]_vars => WatchedRunIsKept'
  BY NextKeepsWatched
<1> QED BY <1>1, <1>2, <1>3, InitTypes, NextKeepsTypes, NextKeepsLocks, PTL DEF Spec

-----------------------------------------------------------------------------
(* The locks: one is remade only for a key without one, and dropped by the    *)
(* last to be in flight for a key without a run.                               *)

\* What LocksAreReclaimed says of one key.
Used(k) == k \in live \/ \E c \in Clients : InFlight(c) /\ key[c] = k
Kept(k) == lockOf[k] # NoLock <=> Used(k)

LEMMA ReclaimedIsPerKey == LocksAreReclaimed <=> (~down => \A k \in Keys : Kept(k))
BY DEF LocksAreReclaimed, Kept, Used

\* The count of acquires tells whether somebody is in flight, or somebody else.
LEMMA SomeoneInFlight ==
    ASSUME TypeInv, NEW k \in Keys, acquiring[k] # 0
    PROVE  \E d \in Clients : InFlight(d) /\ key[d] = k
<1>1. Cardinality(Acquirers(k)) # 0
  BY DEF TypeInv, AcquiringCounts
<1>2. Acquirers(k) # {}
  BY <1>1, FS_EmptySet
<1> QED BY <1>2 DEF Acquirers

LEMMA SomeoneElseInFlight ==
    ASSUME TypeInv, NEW c \in Clients, InFlight(c), acquiring[key[c]] # 1
    PROVE  \E d \in Clients \ {c} : InFlight(d) /\ key[d] = key[c]
<1>1. key[c] \in Keys
  BY CountersArePositive
<1> DEFINE S == Acquirers(key[c])
<1>2. Cardinality(S) # 1 /\ c \in S /\ \A d \in S : d \in Clients /\ InFlight(d) /\ key[d] = key[c]
  BY <1>1 DEF Acquirers, TypeInv, AcquiringCounts
<1>3. S # {c}
  BY <1>2, FS_Singleton
<1> QED BY <1>2, <1>3

\* A step of nobody in flight, of a registry that keeps its entries and locks.
LEMMA UnrelatedStepKeepsReclaimed ==
    ASSUME LocksAreReclaimed, live' = live, lockOf' = lockOf, down' = down,
           \A d \in Clients : InFlight(d)' <=> InFlight(d),
           \A d \in Clients : InFlight(d) => key'[d] = key[d]
    PROVE  LocksAreReclaimed'
<1>1. \A k \in Keys : Used(k)' <=> Used(k)
  BY DEF Used
<1> QED BY <1>1, ReclaimedIsPerKey DEF Kept, LocksAreReclaimed, Used

LEMMA EvictionKeepsReclaimed ==
    ASSUME TypeInv, LocksAreReclaimed, NEW v \in IdleKeys, EvictEntry(v), down' = down, key' = key,
           \A d \in Clients : InFlight(d)' <=> InFlight(d)
    PROVE  LocksAreReclaimed'
<1> SUFFICES ASSUME ~down, NEW k \in Keys PROVE Kept(k)'
  BY ReclaimedIsPerKey DEF LocksAreReclaimed, Kept, Used
<1>1. Kept(k) /\ live' = live \ {v} /\ v \in live /\ v \in Keys
  BY ReclaimedIsPerKey DEF EvictEntry, IdleKeys, TypeInv, TypeOK
<1>2. CASE k # v
  <2>1. lockOf'[k] = lockOf[k]
    BY <1>1, <1>2 DEF EvictEntry, DropLockIfUnused, TypeInv, TypeOK
  <2> QED BY <1>1, <1>2, <2>1 DEF Kept, Used
<1>3. CASE k = v
  <2>1. lockOf[k] # NoLock
    BY <1>1, <1>3 DEF Kept, Used
  <2>2. lockOf'[k] = IF acquiring[k] = 0 THEN NoLock ELSE lockOf[k]
    BY <1>1, <1>3 DEF EvictEntry, DropLockIfUnused, TypeInv, TypeOK
  <2>3. CASE acquiring[k] = 0
    <3>1. \A d \in Clients : ~(InFlight(d) /\ key[d] = k)
      BY <2>3, AloneInFlight
    <3> QED BY <1>1, <1>3, <2>2, <2>3, <3>1 DEF Kept, Used
  <2>4. CASE acquiring[k] # 0
    BY <2>1, <2>2, <2>4, SomeoneInFlight DEF Kept, Used
  <2> QED BY <2>3, <2>4
<1> QED BY <1>2, <1>3

LEMMA AcquireKeepsReclaimed ==
    ASSUME TypeInv, LocksAreReclaimed, NEW c \in Clients, NEW k \in Keys, Acquire(c, k)
    PROVE  LocksAreReclaimed'
<1>1. PICK l \in Locks : lockOf' = [lockOf EXCEPT ![k] = l]
  BY DEF Acquire
<1>2. c \in Tasks /\ Tasks = Clients \cup Timers /\ NoLock \notin Locks
  BY ConstantsTyped
<1>3. /\ live' = live /\ down' = down /\ pc[c] = "out" /\ pc'[c] = "lock" /\ key'[c] = k
      /\ \A d \in Clients \ {c} : pc'[d] = pc[d] /\ key'[d] = key[d]
  BY <1>2 DEF Acquire, entryVars, TypeInv, TypeOK
<1>4. \A j \in Keys : Used(j)' <=> (j = k \/ Used(j))
  BY <1>3 DEF Used, InFlight
<1>5. \A j \in Keys : lockOf'[j] = IF j = k THEN l ELSE lockOf[j]
  BY <1>1 DEF TypeInv, TypeOK
<1> QED BY <1>2, <1>3, <1>4, <1>5, ReclaimedIsPerKey DEF Kept, LocksAreReclaimed, Used

\* Client c's acquire ends: it drops the lock when it was the last, of a key without a run.
LEMMA EndingAnAcquireKeepsReclaimed ==
    ASSUME TypeInv, LocksAreReclaimed, NEW c \in Clients, NEW state \in {"in", "out"},
           InFlight(c), LeaveAcquire(c, state), pc'[c] = state,
           \A d \in Clients \ {c} : pc'[d] = pc[d],
           live' = live \/ live' = live \cup {key[c]}, down' = down
    PROVE  LocksAreReclaimed'
<1> SUFFICES ASSUME ~down, NEW k \in Keys PROVE Kept(k)'
  BY ReclaimedIsPerKey DEF LocksAreReclaimed, Kept, Used
<1>1. c \in Tasks /\ Tasks = Clients \cup Timers
  BY ConstantsTyped
<1>2. key[c] \in Keys /\ acquiring[key[c]] \in Nat /\ acquiring[key[c]] > 0
  BY CountersArePositive
<1>3. ~InFlight(c)' /\ \A d \in Clients \ {c} : InFlight(d)' <=> InFlight(d)
  BY DEF InFlight
<1>4. \A d \in Clients \ {c} : key'[d] = key[d]
  BY <1>1 DEF LeaveAcquire, TypeInv, TypeOK
<1>5. Kept(k) /\ Kept(key[c])
  BY <1>2, ReclaimedIsPerKey
<1>6. lockOf' = IF acquiring[key[c]] - 1 = 0 /\ key[c] \notin live' THEN [lockOf EXCEPT ![key[c]] = NoLock] ELSE lockOf
  BY DEF LeaveAcquire, DropLockIfUnused
<1>7. CASE k # key[c]
  <2>1. lockOf'[k] = lockOf[k]
    BY <1>6, <1>7 DEF TypeInv, TypeOK
  <2>2. Used(k)' <=> Used(k)
    BY <1>3, <1>4, <1>7 DEF Used
  <2> QED BY <1>5, <2>1, <2>2 DEF Kept
<1>8. CASE k = key[c]
  <2>1. lockOf[k] # NoLock
    BY <1>5, <1>8 DEF Kept, Used
  <2>2. CASE acquiring[k] = 1 /\ k \notin live'
    <3>1. \A d \in Clients : InFlight(d) /\ key[d] = k => d = c
      BY <1>8, <2>2, LastInFlight
    <3>2. lockOf'[k] = NoLock
      BY <1>2, <1>6, <1>8, <2>2 DEF TypeInv, TypeOK
    <3>3. ~Used(k)'
      BY <1>3, <1>4, <2>2, <3>1 DEF Used
    <3> QED BY <3>2, <3>3 DEF Kept
  <2>3. CASE acquiring[k] # 1 \/ k \in live'
    <3>1. lockOf'[k] = lockOf[k]
      BY <1>2, <1>6, <1>8, <2>3
    <3>2. Used(k)'
      <4>1. CASE acquiring[k] # 1
        <5>1. \E d \in Clients \ {c} : InFlight(d) /\ key[d] = k
          BY <1>8, <4>1, SomeoneElseInFlight
        <5> QED BY <1>3, <1>4, <5>1 DEF Used
      <4>2. CASE k \in live'
        BY <4>2 DEF Used
      <4> QED BY <2>3, <4>1, <4>2
    <3> QED BY <2>1, <3>1, <3>2 DEF Kept
  <2> QED BY <2>2, <2>3
<1> QED BY <1>7, <1>8

LEMMA NextKeepsReclaimed ==
    ASSUME TypeInv, LocksAreReclaimed, [Next]_vars PROVE LocksAreReclaimed'
<1>0. /\ Tasks = Clients \cup Timers /\ Clients \cap Timers = {} /\ Clients \subseteq Tasks
      /\ NoTask \notin Tasks
  BY ConstantsTyped
<1>1. ASSUME NEW c \in Clients, NEW k \in Keys, Acquire(c, k) PROVE LocksAreReclaimed'
  BY <1>1, AcquireKeepsReclaimed
<1>2. ASSUME NEW c \in Clients, Join(c) \/ Started(c) PROVE LocksAreReclaimed'
  <2>1. InFlight(c) /\ key[c] \in Keys
    BY <1>2 DEF Join, Started, HasLock, InFlight, TypeInv, WellFormed
  <2>2. timerOf[key[c]] \notin Clients
    BY <1>0, <2>1 DEF TypeInv, TypeOK
  <2>3. /\ LeaveAcquire(c, "in") /\ down' = down /\ (live' = live \/ live' = live \cup {key[c]})
        /\ pc'[c] = "in" /\ \A d \in Clients \ {c} : pc'[d] = pc[d]
    BY <1>0, <1>2, <2>2 DEF Join, Started, TypeInv, TypeOK
  <2> QED BY <2>1, <2>3, EndingAnAcquireKeepsReclaimed
<1>3. ASSUME NEW c \in Clients, Refuse(c) \/ Aborted(c) \/ AcquireCancelled(c) PROVE LocksAreReclaimed'
  <2>1. InFlight(c)
    BY <1>3 DEF Refuse, Aborted, AcquireCancelled, AtMakeRoom, HasLock, InFlight
  <2>2. /\ LeaveAcquire(c, "out") /\ live' = live /\ down' = down
        /\ pc'[c] = "out" /\ \A d \in Clients \ {c} : pc'[d] = pc[d]
    BY <1>0, <1>3 DEF Refuse, Aborted, AcquireCancelled, TypeInv, TypeOK
  <2> QED BY <2>1, <2>2, EndingAnAcquireKeepsReclaimed
<1>4. ASSUME NEW c \in Clients, Build(c) \/ StartFails(c) PROVE LocksAreReclaimed'
  <2>1. /\ live' = live /\ lockOf' = lockOf /\ down' = down /\ key' = key
        /\ InFlight(c) /\ pc'[c] \in {"start", "abort"}
        /\ \A d \in Clients \ {c} : pc'[d] = pc[d]
    BY <1>0, <1>4 DEF Build, StartFails, AtMakeRoom, HasLock, InFlight, entryVars, lockVars, TypeInv, TypeOK
  <2>2. \A d \in Clients : InFlight(d)' <=> InFlight(d)
    BY <2>1 DEF InFlight
  <2> QED BY <2>1, <2>2, UnrelatedStepKeepsReclaimed
<1>5. ASSUME NEW c \in Clients, MakeRoom(c) PROVE LocksAreReclaimed'
  <2>1. PICK v \in IdleKeys : EvictEntry(v)
    BY <1>5 DEF MakeRoom
  <2>2. down' = down /\ key' = key /\ InFlight(c) /\ pc'[c] = "evict" /\ \A d \in Clients \ {c} : pc'[d] = pc[d]
    BY <1>0, <1>5 DEF MakeRoom, AtMakeRoom, HasLock, InFlight, TypeInv, TypeOK
  <2>3. \A d \in Clients : InFlight(d)' <=> InFlight(d)
    BY <2>2 DEF InFlight
  <2> QED BY <2>1, <2>2, <2>3, EvictionKeepsReclaimed
<1>6. ASSUME NEW c \in Clients, Release(c) PROVE LocksAreReclaimed'
  <2>1. pc[c] = "in" /\ pc'[c] = "out" /\ \A d \in Clients \ {c} : pc'[d] = pc[d] /\ key'[d] = key[d]
    BY <1>6, ReleaseMovesOne
  <2>2. live' = live /\ lockOf' = lockOf /\ down' = down
    BY <1>6 DEF Release, lockVars
  <2>3. \A d \in Clients : (InFlight(d)' <=> InFlight(d)) /\ (InFlight(d) => key'[d] = key[d])
    BY <2>1 DEF InFlight
  <2> QED BY <2>2, <2>3, UnrelatedStepKeepsReclaimed
<1>7. ASSUME NEW t \in Timers, TimerStep(t) PROVE LocksAreReclaimed'
  <2>1. /\ down' = down
        /\ \A d \in Clients : pc'[d] = pc[d] /\ key'[d] = key[d]
    BY <1>0, <1>7 DEF TimerStep, IdleTimeout, IdleEvict, TimerEnds, TypeInv, TypeOK
  <2>2. \A d \in Clients : InFlight(d)' <=> InFlight(d)
    BY <2>1 DEF InFlight
  <2>3. CASE IdleTimeout(t) \/ TimerEnds(t)
    <3>1. live' = live /\ lockOf' = lockOf
      BY <2>3 DEF IdleTimeout, TimerEnds, entryVars
    <3> QED BY <2>1, <2>2, <3>1, UnrelatedStepKeepsReclaimed
  <2>4. CASE IdleEvict(t)
    <3>1. key[t] \in IdleKeys /\ EvictEntry(key[t]) /\ key' = key
      BY <2>4 DEF IdleEvict
    <3> QED BY <2>1, <2>2, <3>1, EvictionKeepsReclaimed
  <2> QED BY <1>7, <2>3, <2>4 DEF TimerStep
<1>8. CASE StopAll
  BY <1>8 DEF StopAll, LocksAreReclaimed
<1>9. CASE Tick \/ Terminated \/ UNCHANGED vars
  <2>1. live' = live /\ lockOf' = lockOf /\ down' = down /\ pc' = pc /\ key' = key
    BY <1>9 DEF Tick, Terminated, vars, entryVars, lockVars, taskVars
  <2>2. \A d \in Clients : InFlight(d)' <=> InFlight(d)
    BY <2>1 DEF InFlight
  <2> QED BY <2>1, <2>2, UnrelatedStepKeepsReclaimed
<1> QED BY <1>1, <1>2, <1>3, <1>4, <1>5, <1>6, <1>7, <1>8, <1>9 DEF Next, AcquireStep

\* No lock outlives its last use, and a run always has its key's lock (pipeline.py,
\* _drop_lock_if_unused): whatever acquires of the key overlap with its eviction.
THEOREM Reclaimed == Spec => []LocksAreReclaimed
<1>1. Init => LocksAreReclaimed
  BY DEF Init, LocksAreReclaimed, InFlight, Tasks
<1>2. TypeInv /\ LocksAreReclaimed /\ [Next]_vars => LocksAreReclaimed'
  BY NextKeepsReclaimed
<1> QED BY <1>1, <1>2, InitTypes, NextKeepsTypes, PTL DEF Spec

\* The registry loses no watched run and leaves no lock behind, and keeps its types.
THEOREM LosesAndLeavesNothing == Spec => []NothingLostOrLeft
<1>1. TypeOK /\ WatchedRunIsKept /\ LocksAreReclaimed => NothingLostOrLeft
  BY DEF NothingLostOrLeft
<1> QED BY <1>1, TypeCorrect, WatchedRuns, Reclaimed, PTL

\* Every key has one run at most, and all of them fit the cap, those being built included.
THEOREM OneRunFits == Spec => []OneRunWithinCap
<1>1. NeverMoreThanMaxRuns /\ OneRunPerKey => OneRunWithinCap
  BY DEF OneRunWithinCap
<1> QED BY <1>1, CapHolds, OneRun, PTL

-----------------------------------------------------------------------------
(* The registry implements the contract with a page.                          *)

Inv == TypeInv /\ LockInv /\ WatchedRunIsKept

LEMMA Invariant == Spec => []Inv
<1>1. Init => WatchedRunIsKept
  BY FS_EmptySet, ZenonT(60) DEF Init, WatchedRunIsKept, Tasks
<1>2. Init => LockInv
  BY InitLocks
<1>3. TypeInv /\ LockInv /\ WatchedRunIsKept /\ [Next]_vars => WatchedRunIsKept'
  BY NextKeepsWatched
<1>4. TypeInv /\ LockInv /\ WatchedRunIsKept => Inv
  BY DEF Inv
<1> QED BY <1>1, <1>2, <1>3, <1>4, InitTypes, NextKeepsTypes, NextKeepsLocks, PTL DEF Spec

\* What the contract sees.
Stages == [k \in Keys |-> Stage(k)]
Held == [k \in Keys |-> Sessions(k)]

\* A step that the contract does not see.
LEMMA UnseenStep ==
    ASSUME live' = live, down' = down,
           \A d \in Clients : Building(d)' <=> Building(d),
           \A d \in Clients : pc'[d] = "in" <=> pc[d] = "in",
           \A d \in Clients : Building(d) \/ pc[d] = "in" => key'[d] = key[d]
    PROVE  UNCHANGED <<Stages, Held, down>>
<1>1. \A k \in Keys : Stage(k)' = Stage(k)
  BY DEF Stage
<1>2. \A k \in Keys : Sessions(k)' = Sessions(k)
  BY SameSessions
<1> QED BY <1>1, <1>2 DEF Stages, Held

\* Whoever holds the lock of its key builds its run alone.
LEMMA BuildsAlone ==
    ASSUME LockInv, NEW c \in Clients, InFlight(c), holder[lock[c]] = c
    PROVE  \A d \in Clients \ {c} : Building(d) => key[d] # key[c]
BY DEF LockInv, HoldersHold, SameLock, InFlight, Building, Holds

\* The contract counts as the registry does.
LEMMA SameCount == ASSUME NEW S PROVE Contract!Cardinality(S) = Cardinality(S)
BY DEF Contract!Cardinality, Cardinality

\* The keys in use are no more than the runs registered and being built.
LEMMA InUseIsCounted ==
    ASSUME TypeInv
    PROVE  Contract!InUse \in Nat /\ Contract!InUse <= Cardinality(live) + pending
<1> DEFINE U == {k \in Keys : Stages[k] # "none"}
           g == [c \in Builders |-> key[c]]
           B == {key[c] : c \in Builders}
<1>1. Contract!InUse = Cardinality(U)
  <2>1. U = {k \in Keys : [j \in Keys |-> Stage(j)][k] # "none"}
    BY DEF Stages
  <2>2. Contract!InUse = Contract!Cardinality({k \in Keys : [j \in Keys |-> Stage(j)][k] # "none"})
    BY DEF Contract!InUse
  <2> QED BY <2>1, <2>2, SameCount
<1>2. g \in Surjection(Builders, B) /\ IsFiniteSet(Builders)
  BY ConstantsTyped, FS_Subset DEF Surjection, Builders
<1>3. IsFiniteSet(B) /\ Cardinality(B) <= pending
  BY <1>2, FS_Surjection DEF TypeInv, PendingCounts
<1>4. IsFiniteSet(live) /\ Cardinality(live) \in Nat /\ pending \in Nat
  BY LiveCounts DEF TypeInv, TypeOK
<1>5. U \subseteq live \cup B
  BY DEF Stages, Stage, Builders
<1> HIDE DEF U, B
<1>6. /\ IsFiniteSet(live \cup B) /\ Cardinality(B) \in Nat
      /\ Cardinality(live \cup B) = Cardinality(live) + Cardinality(B) - Cardinality(live \cap B)
      /\ IsFiniteSet(live \cap B)
  BY <1>3, <1>4, FS_Union, FS_Intersection, FS_CardinalityType
<1>7. Cardinality(live \cap B) \in Nat
  BY <1>6, FS_CardinalityType
<1>8. IsFiniteSet(U) /\ Cardinality(U) <= Cardinality(live \cup B)
  BY <1>5, <1>6, FS_Subset
<1>9. Cardinality(U) \in Nat /\ Cardinality(live \cup B) \in Nat
  BY <1>6, <1>8, FS_CardinalityType
<1> QED BY <1>1, <1>3, <1>4, <1>6, <1>7, <1>8, <1>9

\* Only client c moves, and the runs being built change for its key alone.
LEMMA StagesOfAClientStep ==
    ASSUME NEW c \in Clients, \A d \in Clients \ {c} : pc'[d] = pc[d] /\ key'[d] = key[d],
           NEW k \in Keys, k # key[c], key'[c] # k \/ ~Building(c)', k \in live' <=> k \in live
    PROVE  Stage(k)' = Stage(k)
<1>1. \A d \in Clients \ {c} : Building(d)' <=> Building(d)
  BY DEF Building
<1>2. (\E d \in Clients : Building(d)' /\ key'[d] = k) <=> (\E d \in Clients : Building(d) /\ key[d] = k)
  BY <1>1
<1> QED BY <1>2 DEF Stage

LEMMA BuildImplements ==
    ASSUME Inv, NEW c \in Clients, Build(c) PROVE \E k \in Keys : Contract!Begin(k)
<1>0. c \in Tasks /\ Tasks = Clients \cup Timers /\ TypeInv /\ LockInv /\ MaxRuns \in Nat
  BY ConstantsTyped DEF Inv
<1>1. /\ InFlight(c) /\ ~Building(c) /\ pc[c] # "in" /\ holder[lock[c]] = c /\ key[c] \notin live
  BY <1>0 DEF Build, AtMakeRoom, HasLock, InFlight, Building, Holds, LockInv, HoldersHold, NotRegistered
<1>2. /\ live' = live /\ down' = down /\ key' = key /\ pc'[c] = "start"
      /\ \A d \in Clients \ {c} : pc'[d] = pc[d]
  BY <1>0 DEF Build, entryVars, TypeInv, TypeOK
<1>3. key[c] \in Keys
  BY <1>0, <1>1 DEF TypeInv, WellFormed
<1>4. Stage(key[c]) = "none"
  BY <1>0, <1>1, BuildsAlone DEF Stage
<1>5. Building(c)'
  BY <1>2 DEF Building
<1>6. \A k \in Keys : k = key[c] => Stage(k)' = "building"
  BY <1>1, <1>2, <1>5 DEF Stage
<1>7. \A k \in Keys : k # key[c] => Stage(k)' = Stage(k)
  BY <1>2, StagesOfAClientStep
<1>8. Contract!InUse < MaxRuns
  <2>1. Cardinality(live) + pending < MaxRuns
    BY <1>0, LiveCounts, SMTT(30) DEF Build, Full, TypeInv, TypeOK
  <2>2. Cardinality(live) \in Nat /\ pending \in Nat
    BY <1>0, LiveCounts DEF TypeInv, TypeOK
  <2> QED BY <1>0, <2>1, <2>2, InUseIsCounted
<1>9. \A k \in Keys : Sessions(k)' = Sessions(k)
  BY <1>1, <1>2, SameSessions
<1> PICK k \in Keys : k = key[c]
  BY <1>3
<1>10. Contract!Begin(k)
  BY <1>2, <1>3, <1>4, <1>6, <1>7, <1>8, <1>9 DEF Contract!Begin, Contract!Moves, Sessions
<1> QED BY <1>10

LEMMA AbortedImplements ==
    ASSUME Inv, NEW c \in Clients, Aborted(c) PROVE \E k \in Keys : Contract!Fail(k)
<1>0. c \in Tasks /\ Tasks = Clients \cup Timers /\ TypeInv /\ LockInv
  BY ConstantsTyped DEF Inv
<1>1. InFlight(c) /\ Building(c) /\ pc[c] # "in" /\ holder[lock[c]] = c /\ key[c] \notin live
  BY <1>0 DEF Aborted, InFlight, Building, Holds, LockInv, HoldersHold, NotRegistered
<1>2. /\ live' = live /\ down' = down /\ pc'[c] = "out"
      /\ \A d \in Clients \ {c} : pc'[d] = pc[d] /\ key'[d] = key[d]
  BY <1>0 DEF Aborted, LeaveAcquire, TypeInv, TypeOK
<1>3. key[c] \in Keys
  BY <1>0, <1>1 DEF TypeInv, WellFormed
<1>4. Stage(key[c]) = "building"
  BY <1>1, <1>3 DEF Stage
<1>5. ~Building(c)'
  BY <1>2 DEF Building
<1>6. \A d \in Clients : Building(d)' => key'[d] # key[c]
  BY <1>0, <1>1, <1>2, <1>5, BuildsAlone DEF Building
<1>7. \A k \in Keys : k = key[c] => Stage(k)' = "none"
  BY <1>1, <1>2, <1>6 DEF Stage
<1>8. \A k \in Keys : k # key[c] => Stage(k)' = Stage(k)
  BY <1>2, <1>5, StagesOfAClientStep
<1>9. \A k \in Keys : Sessions(k)' = Sessions(k)
  BY <1>1, <1>2, SameSessions
<1> PICK k \in Keys : k = key[c]
  BY <1>3
<1>10. Contract!Fail(k)
  BY <1>2, <1>3, <1>4, <1>7, <1>8, <1>9 DEF Contract!Fail, Contract!Moves, Sessions
<1> QED BY <1>10

\* Client c, that had no session, has one of its key.
LEMMA HoldsImplements ==
    ASSUME NEW c \in Clients, pc[c] # "in", pc'[c] = "in", key'[c] = key[c], NEW j \in Keys, j = key[c],
           \A d \in Clients \ {c} : pc'[d] = pc[d] /\ key'[d] = key[d]
    PROVE  Contract!Holds(c, j)
<1>1. \A k \in Keys : c \notin Sessions(k)
  BY DEF Sessions
<1>2. \A k \in Keys : Sessions(k)' = IF k = j THEN Sessions(k) \cup {c} ELSE Sessions(k)
  BY DEF Sessions
<1> DEFINE H == [k \in Keys |-> Sessions(k)]
<1>3. H' = [H EXCEPT ![j] = H[j] \cup {c}] /\ \A k \in Keys : c \notin H[k]
  BY <1>1, <1>2
<1> QED BY <1>3 DEF Contract!Holds, Sessions

\* How Join and Started end an acquire.
LEMMA BeginsASession ==
    ASSUME Inv, NEW c \in Clients, Join(c) \/ Started(c)
    PROVE  /\ pc[c] # "in" /\ pc'[c] = "in" /\ key' = key /\ key[c] \in Keys /\ down' = down
           /\ InFlight(c) /\ ~Building(c)'
           /\ \A d \in Clients \ {c} : pc'[d] = pc[d]
<1>1. c \in Tasks /\ Tasks = Clients \cup Timers /\ Clients \cap Timers = {} /\ NoTask \notin Tasks /\ TypeInv
  BY ConstantsTyped DEF Inv
<1>2. InFlight(c) /\ pc[c] # "in" /\ key[c] \in Keys
  BY <1>1 DEF Join, Started, HasLock, InFlight, TypeInv, WellFormed
<1>3. timerOf[key[c]] \notin Clients
  BY <1>1, <1>2 DEF TypeInv, TypeOK
<1>4. \A d \in Clients \ {c} : pc'[d] = pc[d]
  BY <1>1, <1>3 DEF Join, Started, TypeInv, TypeOK
<1>5. key' = key
  <2>1. LeaveAcquire(c, "in")
    BY DEF Join, Started
  <2> QED BY <1>1, <2>1 DEF LeaveAcquire, TypeInv, TypeOK
<1>6. pc'[c] = "in"
  BY <1>1 DEF Join, Started, TypeInv, TypeOK
<1> QED BY <1>2, <1>4, <1>5, <1>6 DEF Join, Started, Building

LEMMA StartedImplements ==
    ASSUME Inv, NEW c \in Clients, Started(c) PROVE \E k \in Keys : Contract!Ready(k, c)
<1>1. /\ pc[c] # "in" /\ pc'[c] = "in" /\ key' = key /\ key[c] \in Keys /\ down' = down
      /\ ~Building(c)' /\ \A d \in Clients \ {c} : pc'[d] = pc[d]
  BY BeginsASession
<1>2. Building(c) /\ key[c] \notin live /\ live' = live \cup {key[c]}
  BY DEF Started, Building, Inv, LockInv, NotRegistered, Holds
<1>3. Stage(key[c]) = "building"
  BY <1>1, <1>2 DEF Stage
<1>4. \A k \in Keys : k = key[c] => Stage(k)' = "live"
  BY <1>2 DEF Stage
<1>5. \A k \in Keys : k # key[c] => Stage(k)' = Stage(k)
  BY <1>1, <1>2, StagesOfAClientStep
<1> PICK k \in Keys : k = key[c]
  BY <1>1
<1>6. Contract!Holds(c, k)
  BY <1>1, HoldsImplements
<1>7. Contract!Ready(k, c)
  BY <1>1, <1>3, <1>4, <1>5, <1>6 DEF Contract!Ready, Contract!Moves
<1> QED BY <1>7

LEMMA JoinImplements ==
    ASSUME Inv, NEW c \in Clients, Join(c) PROVE \E k \in Keys : Contract!Join(k, c)
<1>1. /\ pc[c] # "in" /\ pc'[c] = "in" /\ key' = key /\ key[c] \in Keys /\ down' = down
      /\ ~Building(c)' /\ \A d \in Clients \ {c} : pc'[d] = pc[d]
  BY BeginsASession
<1>2. ~Building(c) /\ key[c] \in live /\ live' = live
  BY DEF Join, HasLock, Building
<1>3. \A d \in Clients : Building(d)' <=> Building(d)
  BY <1>1, <1>2 DEF Building
<1>4. \A k \in Keys : Stage(k)' = Stage(k)
  BY <1>1, <1>2, <1>3 DEF Stage
<1>5. Stage(key[c]) = "live"
  BY <1>2 DEF Stage
<1> PICK k \in Keys : k = key[c]
  BY <1>1
<1>6. Contract!Holds(c, k)
  BY <1>1, HoldsImplements
<1>7. Contract!Join(k, c)
  BY <1>1, <1>4, <1>5, <1>6 DEF Contract!Join
<1> QED BY <1>7

LEMMA ReleaseImplements ==
    ASSUME Inv, NEW c \in Clients, Release(c) PROVE \E k \in Keys : Contract!Leave(k, c)
<1>0. TypeInv
  BY DEF Inv
<1>1. pc[c] = "in" /\ pc'[c] = "out" /\ \A d \in Clients \ {c} : pc'[d] = pc[d] /\ key'[d] = key[d]
  BY <1>0, ReleaseMovesOne
<1>2. live' = live /\ down' = down /\ key[c] \in Keys
  BY <1>0, <1>1 DEF Release, TypeInv, WellFormed
<1>3. ~Building(c) /\ ~Building(c)' /\ \A d \in Clients : Building(d)' <=> Building(d)
  BY <1>1 DEF Building
<1>4. \A k \in Keys : Stage(k)' = Stage(k)
  <2>1. \A d \in Clients : Building(d) => key'[d] = key[d]
    BY <1>1, <1>3
  <2> QED BY <1>2, <1>3, <2>1 DEF Stage
<1>5. \A k \in Keys : Sessions(k)' = IF k = key[c] THEN Sessions(k) \ {c} ELSE Sessions(k)
  BY <1>1 DEF Sessions
<1>6. c \in Sessions(key[c])
  BY <1>1 DEF Sessions
<1> PICK k \in Keys : k = key[c]
  BY <1>2
<1> DEFINE H == [j \in Keys |-> Sessions(j)]
<1>7. c \in H[k] /\ H' = [H EXCEPT ![k] = H[k] \ {c}]
  BY <1>5, <1>6
<1>8. Contract!Leave(k, c)
  BY <1>2, <1>4, <1>7 DEF Contract!Leave, Sessions
<1> QED BY <1>8

\* An eviction takes a run that nobody holds, of a registry that was not shut down.
LEMMA EvictionImplements ==
    ASSUME Inv, NEW v \in IdleKeys, EvictEntry(v), down' = down, key' = key,
           \A d \in Clients : pc'[d] = "in" <=> pc[d] = "in",
           \A d \in Clients : Building(d)' <=> Building(d)
    PROVE  Contract!Evict(v)
<1>1. v \in live /\ v \in Keys /\ sockets[v] = 0 /\ live' = live \ {v}
  BY DEF IdleKeys, EvictEntry, Inv, TypeInv, TypeOK
<1>2. Stage(v) = "live"
  BY <1>1 DEF Stage
<1>3. \A d \in Clients : Building(d) => key[d] # v
  BY <1>1 DEF Inv, LockInv, NotRegistered, Building, Holds
<1>4. \A k \in Keys : k = v => Stage(k)' = "none"
  BY <1>1, <1>3 DEF Stage
<1>5. \A k \in Keys : k # v => Stage(k)' = Stage(k)
  BY <1>1 DEF Stage
<1>6. Sessions(v) = {} \/ down
  BY <1>1, NoSessions, WatchedIsPerKey DEF Inv, Watched
<1>7. \A k \in Keys : Sessions(k)' = Sessions(k)
  BY SameSessions
<1> QED BY <1>1, <1>2, <1>4, <1>5, <1>6, <1>7 DEF Contract!Evict, Contract!Moves, Sessions

LEMMA StopAllImplements ==
    ASSUME Inv, StopAll PROVE Contract!StopAll
<1>1. ~down /\ down' = TRUE /\ live' = {} /\ key' = key
  BY DEF StopAll
<1>2. \A d \in Clients : pc'[d] = pc[d]
  BY ConstantsTyped DEF StopAll, Inv, TypeInv, TypeOK
<1>3. \A d \in Clients : Building(d)' <=> Building(d)
  BY <1>2 DEF Building
<1>4. \A d \in Clients : Building(d) => key[d] \notin live
  BY DEF Inv, LockInv, NotRegistered, Building, Holds
<1>5. \A k \in Keys : Stage(k)' = IF Stage(k) = "live" THEN "none" ELSE Stage(k)
  BY <1>1, <1>3, <1>4 DEF Stage
<1>6. \A k \in Keys : Sessions(k)' = Sessions(k)
  BY <1>1, <1>2, SameSessions
<1> QED BY <1>1, <1>5, <1>6 DEF Contract!StopAll, Sessions

\* The steps a page does not see: calls that wait, refusals, timers, and time.
LEMMA MostStepsAreUnseen ==
    ASSUME Inv,
           \/ \E c \in Clients : \/ \E k \in Keys : Acquire(c, k)
                                 \/ Refuse(c) \/ StartFails(c) \/ AcquireCancelled(c)
           \/ \E t \in Timers : IdleTimeout(t) \/ TimerEnds(t)
           \/ Tick \/ Terminated \/ UNCHANGED vars
    PROVE  UNCHANGED <<Stages, Held, down>>
<1>0. Tasks = Clients \cup Timers /\ Clients \cap Timers = {} /\ Clients \subseteq Tasks /\ TypeInv
  BY ConstantsTyped DEF Inv
<1>1. ASSUME NEW c \in Clients, NEW k \in Keys, Acquire(c, k) PROVE UNCHANGED <<Stages, Held, down>>
  <2>1. /\ live' = live /\ down' = down /\ pc[c] = "out" /\ pc'[c] = "lock"
        /\ \A d \in Clients \ {c} : pc'[d] = pc[d] /\ key'[d] = key[d]
    BY <1>0, <1>1 DEF Acquire, entryVars, TypeInv, TypeOK
  <2> QED BY <2>1, UnseenStep DEF Building
<1>2. ASSUME NEW c \in Clients, Refuse(c) \/ AcquireCancelled(c) PROVE UNCHANGED <<Stages, Held, down>>
  <2>1. /\ live' = live /\ down' = down /\ pc[c] \in {"lock", "evict"} /\ pc'[c] = "out"
        /\ \A d \in Clients \ {c} : pc'[d] = pc[d]
    BY <1>0, <1>2 DEF Refuse, AcquireCancelled, AtMakeRoom, HasLock, TypeInv, TypeOK
  <2>2. \A d \in Clients \ {c} : key'[d] = key[d]
    BY <1>0, <1>2 DEF Refuse, AcquireCancelled, LeaveAcquire, TypeInv, TypeOK
  <2> QED BY <2>1, <2>2, UnseenStep DEF Building
<1>3. ASSUME NEW c \in Clients, StartFails(c) PROVE UNCHANGED <<Stages, Held, down>>
  <2>1. /\ live' = live /\ down' = down /\ key' = key /\ pc[c] = "start" /\ pc'[c] = "abort"
        /\ \A d \in Clients \ {c} : pc'[d] = pc[d]
    BY <1>0, <1>3 DEF StartFails, entryVars, TypeInv, TypeOK
  <2> QED BY <2>1, UnseenStep DEF Building
<1>4. ASSUME NEW t \in Timers, IdleTimeout(t) \/ TimerEnds(t) PROVE UNCHANGED <<Stages, Held, down>>
  <2>1. live' = live /\ down' = down /\ \A d \in Clients : pc'[d] = pc[d] /\ key'[d] = key[d]
    BY <1>0, <1>4 DEF IdleTimeout, TimerEnds, entryVars, TypeInv, TypeOK
  <2> QED BY <2>1, UnseenStep DEF Building
<1>5. CASE Tick \/ Terminated \/ UNCHANGED vars
  <2>1. live' = live /\ down' = down /\ pc' = pc /\ key' = key
    BY <1>5 DEF Tick, Terminated, vars, entryVars, taskVars
  <2> QED BY <2>1, UnseenStep DEF Building
<1> QED BY <1>1, <1>2, <1>3, <1>4, <1>5

LEMMA InitImplements == Init => Contract!Init
<1> SUFFICES ASSUME Init PROVE Contract!Init
  OBVIOUS
<1>1. \A k \in Keys : Stage(k) = "none" /\ Sessions(k) = {}
  BY ConstantsTyped DEF Init, Stage, Building, Sessions
<1> QED BY <1>1 DEF Contract!Init, Init, Sessions

LEMMA StepImplements == Inv /\ [Next]_vars => [Contract!Next]_Contract!contractVars
<1> SUFFICES ASSUME Inv, [Next]_vars PROVE [Contract!Next]_Contract!contractVars
  OBVIOUS
<1>0. Tasks = Clients \cup Timers /\ Clients \cap Timers = {} /\ Clients \subseteq Tasks /\ TypeInv
  BY ConstantsTyped DEF Inv
<1>1. ASSUME NEW c \in Clients, Build(c) \/ Aborted(c) \/ Started(c) \/ Join(c) \/ Release(c)
      PROVE  Contract!Next
  <2>1. \E k \in Keys : \/ Contract!Begin(k) \/ Contract!Fail(k) \/ Contract!Ready(k, c)
                        \/ Contract!Join(k, c) \/ Contract!Leave(k, c)
    BY <1>1, BuildImplements, AbortedImplements, StartedImplements, JoinImplements, ReleaseImplements
  <2> QED BY <2>1 DEF Contract!Next
<1>2. ASSUME NEW c \in Clients, MakeRoom(c) PROVE Contract!Next
  <2>1. PICK v \in IdleKeys : EvictEntry(v)
    BY <1>2 DEF MakeRoom
  <2>2. /\ down' = down /\ key' = key /\ pc[c] \in {"lock", "evict"} /\ pc'[c] = "evict"
        /\ \A d \in Clients \ {c} : pc'[d] = pc[d]
    BY <1>0, <1>2 DEF MakeRoom, AtMakeRoom, HasLock, TypeInv, TypeOK
  <2>3. /\ \A d \in Clients : pc'[d] = "in" <=> pc[d] = "in"
        /\ \A d \in Clients : Building(d)' <=> Building(d)
    BY <2>2 DEF Building
  <2>4. Contract!Evict(v) /\ v \in Keys
    BY <2>1, <2>2, <2>3, EvictionImplements DEF IdleKeys, Inv, TypeInv, TypeOK
  <2> QED BY <2>4 DEF Contract!Next
<1>3. ASSUME NEW t \in Timers, IdleEvict(t) PROVE Contract!Next
  <2>1. key[t] \in IdleKeys /\ EvictEntry(key[t]) /\ key' = key /\ down' = down /\ \A d \in Clients : pc'[d] = pc[d]
    BY <1>0, <1>3 DEF IdleEvict, TypeInv, TypeOK
  <2>2. /\ \A d \in Clients : pc'[d] = "in" <=> pc[d] = "in"
        /\ \A d \in Clients : Building(d)' <=> Building(d)
    BY <2>1 DEF Building
  <2>3. Contract!Evict(key[t]) /\ key[t] \in Keys
    BY <2>1, <2>2, EvictionImplements DEF IdleKeys, Inv, TypeInv, TypeOK
  <2> QED BY <2>3 DEF Contract!Next
<1>4. CASE StopAll
  BY <1>4, StopAllImplements DEF Contract!Next
<1>5. CASE UNCHANGED <<Stages, Held, down>>
  BY <1>5 DEF Contract!contractVars, Stages, Held, Sessions
<1> QED
  BY <1>1, <1>2, <1>3, <1>4, <1>5, MostStepsAreUnseen DEF Next, AcquireStep, TimerStep

\* The registry implements what a page relies on (pipeline.py, PipelineRegistry): the run
\* of a key is built once, when there is room, and joined by whoever comes later; it stays
\* while somebody holds it, and the runs in use never exceed the cap.
THEOREM Implements == Spec => ImplementsContract
<1>1. Init => Contract!Init
  BY InitImplements
<1>2. Inv /\ [Next]_vars => [Contract!Next]_Contract!contractVars
  BY StepImplements
<1> QED BY <1>1, <1>2, Invariant, PTL DEF Spec, ImplementsContract, Contract!Spec

=============================================================================
