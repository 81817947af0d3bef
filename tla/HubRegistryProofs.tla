-------------------------- MODULE HubRegistryProofs --------------------------
(***************************************************************************)
(* What holds of HubRegistry for any browsers and panels, any cap, and any *)
(* number of sockets and timers at a time: every hub has one owner that    *)
(* will stop it, no client has two, none is stopped under a socket, there  *)
(* are never more than the cap, and nothing is left behind.                *)
(***************************************************************************)
EXTENDS HubRegistry, FiniteSetTheorems, WellFoundedInduction, TLAPS

-----------------------------------------------------------------------------
(* The inductive invariant, in parts *)

\* Acquires in flight, and those of them past their client's lock.
Asking == {"wait", "room", "evict", "build"}
PastLock == {"room", "evict", "build"}

Locks == 1..(MaxSockets + MaxTimers + Cardinality(Clients) + 1)
Entry == [hub : HubIds, sockets : 0..MaxSockets, timer : {0} \cup Timers]
Socket == [pc : Asking \cup {"serving", "ended"}, panel : Panels, lock : {0} \cup Locks,
           hub : {0} \cup HubIds, code : Nat, up : BOOLEAN, seen : BOOLEAN, disposed : BOOLEAN]
Sleeping == [pc : {"sleep"}, client : Clients]
Waiting == [pc : {"wait"}, client : Clients, lock : {0} \cup Locks]
Stopping == [pc : {"stop"}, client : Clients, lock : {0} \cup Locks, hub : HubIds]
Panel == [pc : {"off", "due", "live", "refused"}, ref : {0} \cup Slots]

Types ==
  /\ server \in {"up", "closing", "down"}
  /\ entries \in [Clients -> {None} \cup Entry]
  /\ locks \in [Clients -> {0} \cup Locks]
  /\ hubs \in [HubIds -> {"none", "starting", "running", "stopping"}]
  /\ orphans \subseteq HubIds
  /\ sock \in [Slots -> {NoSocket} \cup Socket]
  /\ timers \in [Timers -> {NoTimer} \cup Sleeping \cup Waiting \cup Stopping]
  /\ panel \in [Panels -> Panel]
  /\ mounts \in 0..MaxMounts /\ faults \in 0..MaxFaults

\* A socket whose acquire is in flight for c.
Asks(ss, t, c) == ss[t].pc \in Asking /\ ClientOf[ss[t].panel] = c

\* All acquires of a client share its lock, so one of them at most is past it, and
\* finds no entry; and the lock stays as long as one of them or an entry needs it.
LockInv ==
  /\ \A s \in Slots : sock[s].pc \in Asking =>
       locks[Client(s)] # 0 /\ sock[s].lock = locks[Client(s)]
  /\ \A s, t \in Slots : s # t /\ sock[s].pc \in PastLock /\ sock[t].pc \in PastLock =>
       Client(s) # Client(t)
  /\ \A s \in Slots : sock[s].pc \in PastLock => entries[Client(s)] = None
  /\ \A c \in Clients : entries[c] # None => locks[c] # 0
  /\ \A c \in Clients : locks[c] # 0 => entries[c] # None \/ \E s \in Slots : Asks(sock, s, c)

\* What state the hub is in that an entry, an acquire, a timer or stop_all owns.
StateInv ==
  /\ \A c \in Clients : entries[c] # None => hubs[entries[c].hub] = "running"
  /\ \A s \in Slots : sock[s].pc = "build" =>
       sock[s].hub \in HubIds /\ hubs[sock[s].hub] = "starting"
  /\ \A s \in Slots : sock[s].pc = "evict" =>
       sock[s].hub \in HubIds /\ hubs[sock[s].hub] = "stopping"
  /\ \A e \in Timers : timers[e].pc = "stop" => hubs[timers[e].hub] = "stopping"
  /\ \A x \in orphans : hubs[x] = "stopping"

\* No two of them own the same hub.
OwnInv ==
  /\ \A c, d \in Clients : c # d /\ entries[c] # None /\ entries[d] # None =>
       entries[c].hub # entries[d].hub
  /\ \A s, t \in Slots : s # t /\ sock[s].pc \in {"build", "evict"} /\ sock[t].pc \in {"build", "evict"} =>
       sock[s].hub # sock[t].hub
  /\ \A e, f \in Timers : e # f /\ timers[e].pc = "stop" /\ timers[f].pc = "stop" =>
       timers[e].hub # timers[f].hub
  /\ \A s \in Slots, e \in Timers : sock[s].pc = "evict" /\ timers[e].pc = "stop" =>
       sock[s].hub # timers[e].hub
  /\ \A x \in orphans :
       /\ \A s \in Slots : sock[s].pc = "evict" => sock[s].hub # x
       /\ \A e \in Timers : timers[e].pc = "stop" => timers[e].hub # x

Owned(x) ==
  \/ \E c \in Clients : entries[c] # None /\ entries[c].hub = x
  \/ \E s \in Slots : sock[s].pc \in {"build", "evict"} /\ sock[s].hub = x
  \/ \E e \in Timers : timers[e].pc = "stop" /\ timers[e].hub = x
  \/ x \in orphans

\* No hub is forgotten.
KnownInv == \A x \in HubIds : hubs[x] # "none" => Owned(x)

Serving(c) == {s \in Slots : sock[s].pc = "serving" /\ Client(s) = c}

ServeInv ==
  /\ \A s \in Slots : sock[s].pc = "serving" =>
       entries[Client(s)] # None /\ entries[Client(s)].hub = sock[s].hub
  /\ \A c \in Clients : entries[c] # None => entries[c].sockets = Cardinality(Serving(c))

\* An entry has a timer of its own exactly while nobody watches it.
TimerInv ==
  \A c \in Clients : entries[c] # None =>
    /\ entries[c].timer # 0 <=> entries[c].sockets = 0
    /\ entries[c].timer # 0 =>
         /\ timers[entries[c].timer].pc \in {"sleep", "wait"}
         /\ timers[entries[c].timer].client = c

\* The socket a panel still listens to is the one in its wsRef, and an open one is
\* listened to.
PanelInv ==
  /\ \A s \in Slots : sock[s].pc # "free" /\ ~sock[s].seen /\ ~sock[s].disposed =>
       panel[sock[s].panel].pc = "live" /\ panel[sock[s].panel].ref = s
  /\ \A s \in Slots : sock[s].pc # "free" /\ sock[s].up => ~sock[s].seen /\ ~sock[s].disposed

ServerInv ==
  /\ server # "down" => orphans = {}
  /\ server = "down" => /\ \A s \in Slots : sock[s].pc \in {"free", "ended"}
                        /\ \A c \in Clients : entries[c] = None

IInv ==
  /\ Types /\ LockInv /\ StateInv /\ OwnInv /\ KnownInv /\ ServeInv
  /\ WithinCap /\ TimerInv /\ PanelInv /\ ServerInv

-----------------------------------------------------------------------------
(* Numbers and sets *)

\* Every set of numbers has a least one.
LEMMA LeastNumber ==
    ASSUME NEW T \in SUBSET Nat, T # {}
    PROVE  Min(T) \in T
<1> DEFINE U == {1..x : x \in T}
<1>1. U \subseteq FiniteSubsetsOf(Nat)
  <2> SUFFICES ASSUME NEW x \in T PROVE 1..x \in FiniteSubsetsOf(Nat)  OBVIOUS
  <2>1. IsFiniteSet(1..x)  BY FS_Interval
  <2> QED  BY <2>1 DEF FiniteSubsetsOf
<1>2. PICK u \in U : \A v \in U : <<v, u>> \notin StrictSubsetOrdering(Nat)
  <2>1. IsWellFoundedOn(StrictSubsetOrdering(Nat), FiniteSubsetsOf(Nat))
    BY FS_StrictSubsetOrderingWellFounded
  <2>2. U # {}  OBVIOUS
  <2> HIDE DEF U
  <2>3. \E u \in U : \A v \in U : ~(<<v, u>> \in StrictSubsetOrdering(Nat))
    BY <1>1, <2>1, <2>2, WFMin, Zenon
  <2> QED  BY <2>3
<1>3. PICK x \in T : u = 1..x  OBVIOUS
<1>4. ASSUME NEW y \in T PROVE x <= y
  <2> SUFFICES ASSUME y < x PROVE FALSE  OBVIOUS
  <2>1. 1..y \subseteq 1..x /\ x \in 1..x /\ x \notin 1..y /\ 1..x \subseteq Nat  OBVIOUS
  <2>2. <<1..y, u>> \in StrictSubsetOrdering(Nat)
    BY <1>3, <2>1 DEF StrictSubsetOrdering
  <2> QED  BY <1>2, <2>2
<1>5. \E z \in T : \A y \in T : z <= y  BY <1>4
<1> QED  BY <1>5 DEF Min

\* The images of a set are no more than its elements.
LEMMA ImageBound ==
    ASSUME NEW S, IsFiniteSet(S), NEW f
    PROVE  /\ IsFiniteSet({f[x] : x \in S}) /\ Cardinality({f[x] : x \in S}) \in Nat
           /\ Cardinality({f[x] : x \in S}) <= Cardinality(S) /\ Cardinality(S) \in Nat
<1> DEFINE T == {f[x] : x \in S}
           g == [x \in S |-> f[x]]
<1>1. g \in Surjection(S, T)  BY DEF Surjection
<1>2. IsFiniteSet(T) /\ Cardinality(T) <= Cardinality(S)  BY <1>1, FS_Surjection
<1> QED  BY <1>2, FS_CardinalityType

LEMMA UnionBound ==
    ASSUME NEW S, IsFiniteSet(S), NEW T, IsFiniteSet(T)
    PROVE  /\ IsFiniteSet(S \cup T) /\ Cardinality(S \cup T) \in Nat
           /\ Cardinality(S) \in Nat /\ Cardinality(T) \in Nat
           /\ Cardinality(S \cup T) <= Cardinality(S) + Cardinality(T)
<1>1. /\ IsFiniteSet(S \cup T)
      /\ Cardinality(S \cup T) = Cardinality(S) + Cardinality(T) - Cardinality(S \cap T)
  BY FS_Union
<1>2. IsFiniteSet(S \cap T)  BY FS_Intersection
<1> QED  BY <1>1, <1>2, FS_CardinalityType

LEMMA SubsetBound ==
    ASSUME NEW S, IsFiniteSet(S), NEW T \in SUBSET S
    PROVE  /\ IsFiniteSet(T) /\ Cardinality(T) \in Nat /\ Cardinality(S) \in Nat
           /\ Cardinality(T) <= Cardinality(S)
BY FS_Subset, FS_CardinalityType

\* A set whose elements are all the same has one, or none.
LEMMA AtMostOne ==
    ASSUME NEW S, \A x, y \in S : x = y
    PROVE  /\ IsFiniteSet(S) /\ Cardinality(S) = IF S = {} THEN 0 ELSE 1
<1>1. CASE S = {}  BY <1>1, FS_EmptySet
<1>2. CASE S # {}
  <2>1. PICK x : x \in S  BY <1>2
  <2>2. S = {x}  BY <2>1
  <2> QED  BY <1>2, <2>2, FS_Singleton
<1> QED  BY <1>1, <1>2

LEMMA OneMore ==
    ASSUME NEW S, IsFiniteSet(S), NEW x, x \notin S, NEW T, T = S \cup {x}
    PROVE  Cardinality(T) = Cardinality(S) + 1 /\ Cardinality(S) \in Nat
BY FS_AddElement, FS_CardinalityType

LEMMA OneLess ==
    ASSUME NEW S, IsFiniteSet(S), NEW x, x \in S, NEW T, T = S \ {x}
    PROVE  Cardinality(T) = Cardinality(S) - 1 /\ Cardinality(S) \in Nat /\ Cardinality(S) > 0
<1>1. Cardinality(S) # 0  BY FS_EmptySet
<1> QED  BY <1>1, FS_RemoveElement, FS_CardinalityType

\* Fewer and no more are within the same bound.
LEMMA FewerFit ==
    ASSUME NEW a \in Nat, NEW b \in Nat, NEW x \in Nat, NEW y \in Nat, NEW n \in Nat,
           x <= a, y <= b, a + b <= n
    PROVE  x + y <= n
OBVIOUS

LEMMA ConstantsTyped ==
  /\ IsFiniteSet(Clients) /\ IsFiniteSet(Slots) /\ IsFiniteSet(Timers) /\ IsFiniteSet(HubIds)
  /\ Cardinality(Slots) = MaxSockets /\ Cardinality(Timers) = MaxTimers
  /\ Cardinality(HubIds) = Cap + MaxSockets + MaxTimers
  /\ Cardinality(Clients) \in Nat /\ Cap \in Nat /\ MaxSockets \in Nat /\ MaxTimers \in Nat
  /\ MaxMounts \in Nat /\ MaxFaults \in Nat
  /\ \A p \in Panels : ClientOf[p] \in Clients
  /\ Slots \subseteq Nat \ {0} /\ Timers \subseteq Nat \ {0} /\ HubIds \subseteq Nat \ {0}
  /\ Locks \subseteq Nat \ {0}
<1>1. /\ Cap \in Nat /\ MaxSockets \in Nat /\ MaxTimers \in Nat /\ IsFiniteSet(Clients)
      /\ MaxMounts \in Nat /\ MaxFaults \in Nat
      /\ \A p \in Panels : ClientOf[p] \in Clients
  BY RegistryAssumption
<1>2. Cap + MaxSockets + MaxTimers \in Nat  BY <1>1
<1>3. Cardinality(Clients) \in Nat  BY <1>1, FS_CardinalityType
<1>4. /\ IsFiniteSet(Slots) /\ Cardinality(Slots) = MaxSockets
      /\ IsFiniteSet(Timers) /\ Cardinality(Timers) = MaxTimers
      /\ IsFiniteSet(HubIds) /\ Cardinality(HubIds) = Cap + MaxSockets + MaxTimers
  BY <1>1, <1>2, FS_Interval DEF Slots, Timers, HubIds
<1>5. Slots \subseteq Nat \ {0} /\ Timers \subseteq Nat \ {0} /\ HubIds \subseteq Nat \ {0}
  BY <1>1, <1>2 DEF Slots, Timers, HubIds
<1>6. Locks \subseteq Nat \ {0}  BY <1>1, <1>3 DEF Locks
<1> QED  BY <1>1, <1>3, <1>4, <1>5, <1>6

-----------------------------------------------------------------------------
(* What the types say of a field *)

LEMMA SocketFacts ==
    ASSUME NEW r \in {NoSocket} \cup Socket
    PROVE  /\ r.pc \in {"free", "wait", "room", "evict", "build", "serving", "ended"}
           /\ r.pc = "free" <=> r = NoSocket
           /\ r.pc # "free" =>
                /\ r \in Socket /\ r.panel \in Panels /\ ClientOf[r.panel] \in Clients
                /\ r.lock \in {0} \cup Locks /\ r.hub \in {0} \cup HubIds /\ r.code \in Nat
                /\ r.up \in BOOLEAN /\ r.seen \in BOOLEAN /\ r.disposed \in BOOLEAN
<1>1. CASE r = NoSocket  BY <1>1 DEF NoSocket
<1>2. CASE r \in Socket
  <2>1. r.pc \in Asking \cup {"serving", "ended"} /\ r.panel \in Panels  BY <1>2 DEF Socket
  <2>2. r # NoSocket  BY <2>1 DEF NoSocket, Asking
  <2> QED  BY <1>2, <2>1, <2>2, ConstantsTyped DEF Socket, Asking
<1> QED  BY <1>1, <1>2

LEMMA TimerFacts ==
    ASSUME NEW r \in {NoTimer} \cup Sleeping \cup Waiting \cup Stopping
    PROVE  /\ r.pc \in {"free", "sleep", "wait", "stop"}
           /\ r.pc = "free" <=> r = NoTimer
           /\ r.pc # "free" => r.client \in Clients
           /\ r.pc \in {"wait", "stop"} => r.lock \in {0} \cup Locks
           /\ r.pc = "stop" => r.hub \in HubIds
<1>1. CASE r = NoTimer  BY <1>1 DEF NoTimer
<1>2. CASE r \in Sleeping \cup Waiting \cup Stopping
  <2>1. r.pc \in {"sleep", "wait", "stop"} /\ r.client \in Clients
    BY <1>2 DEF Sleeping, Waiting, Stopping
  <2>2. r # NoTimer  BY <2>1 DEF NoTimer
  <2>3. r.pc = "sleep" \/ (r.lock \in {0} \cup Locks /\ (r.pc = "stop" => r.hub \in HubIds))
    BY <1>2 DEF Sleeping, Waiting, Stopping
  <2> QED  BY <2>1, <2>2, <2>3
<1> QED  BY <1>1, <1>2

LEMMA EntryFacts ==
    ASSUME NEW r \in {None} \cup Entry, r # None
    PROVE  r \in Entry /\ r.hub \in HubIds /\ r.sockets \in 0..MaxSockets /\ r.timer \in {0} \cup Timers
BY DEF Entry

\* A new lock object is one of the locks.
LEMMA FreshLockIsALock ==
    ASSUME Types
    PROVE  FreshLock \in Locks
<1> DEFINE A == In(sock, {"wait", "room", "evict", "build"})
           B == {f \in Timers : timers[f].pc = "stop" \/ timers[f].pc = "wait"}
           a == [s \in A |-> sock[s].lock]
           b == [e \in B |-> timers[e].lock]
           LA == {a[s] : s \in A}
           LB == {b[e] : e \in B}
           LC == {locks[c] : c \in Clients}
<1>1. A \in SUBSET Slots /\ B \in SUBSET Timers  BY DEF In
<1>2. /\ IsFiniteSet(A) /\ Cardinality(A) <= MaxSockets /\ Cardinality(A) \in Nat
      /\ IsFiniteSet(B) /\ Cardinality(B) <= MaxTimers /\ Cardinality(B) \in Nat
  BY <1>1, SubsetBound, ConstantsTyped
<1>3. /\ IsFiniteSet(LA) /\ Cardinality(LA) <= Cardinality(A) /\ Cardinality(LA) \in Nat
      /\ IsFiniteSet(LB) /\ Cardinality(LB) <= Cardinality(B) /\ Cardinality(LB) \in Nat
  BY <1>2, ImageBound, ZenonT(60)
<1>4. IsFiniteSet(LC) /\ Cardinality(LC) <= Cardinality(Clients) /\ Cardinality(LC) \in Nat
  BY ConstantsTyped, ImageBound
<1>5. LocksInUse = (LC \cup LA) \cup LB
  <2>1. Range(locks) = LC  BY DEF Range, Types
  <2>2. LA = {sock[s].lock : s \in A} /\ LB = {timers[e].lock : e \in B}  OBVIOUS
  <2> QED  BY <2>1, <2>2 DEF LocksInUse
<1> HIDE DEF LA, LB, LC, A, B
<1>6. /\ IsFiniteSet(LC \cup LA) /\ Cardinality(LC \cup LA) <= Cardinality(LC) + Cardinality(LA)
      /\ Cardinality(LC \cup LA) \in Nat
  BY <1>3, <1>4, UnionBound
<1>7. /\ IsFiniteSet((LC \cup LA) \cup LB) /\ Cardinality((LC \cup LA) \cup LB) \in Nat
      /\ Cardinality((LC \cup LA) \cup LB) <= Cardinality(LC \cup LA) + Cardinality(LB)
  BY <1>3, <1>6, UnionBound
<1> DEFINE n == MaxSockets + MaxTimers + Cardinality(Clients) + 1
<1>8. IsFiniteSet(LocksInUse) /\ Cardinality(LocksInUse) < n /\ n \in Nat /\ Cardinality(LocksInUse) \in Nat
  BY <1>2, <1>3, <1>4, <1>5, <1>6, <1>7, ConstantsTyped
<1>9. Cardinality(Locks) = n  BY <1>8, FS_Interval DEF Locks
<1>10. ~(Locks \subseteq LocksInUse)  BY <1>8, <1>9, SubsetBound
<1>11. Locks \ LocksInUse \in SUBSET Nat /\ Locks \ LocksInUse # {}  BY <1>10, ConstantsTyped
<1> QED  BY <1>11, LeastNumber DEF FreshLock, Locks

\* While there is room, a name is left for a hub.
LEMMA FreshHubIsUnused ==
    ASSUME Types, KnownInv, orphans = {}, ~Full
    PROVE  FreshHub \in HubIds /\ hubs[FreshHub] = "none"
<1> DEFINE C == Registered
           B == In(sock, {"build"})
           E == In(sock, {"evict"})
           T == {e \in Timers : timers[e].pc = "stop"}
           HC == {[a \in C |-> entries[a].hub][c] : c \in C}
           HB == {[a \in B |-> sock[a].hub][s] : s \in B}
           HE == {[a \in E |-> sock[a].hub][s] : s \in E}
           HT == {[a \in T |-> timers[a].hub][e] : e \in T}
<1>1. C \in SUBSET Clients /\ B \in SUBSET Slots /\ E \in SUBSET Slots /\ T \in SUBSET Timers
  BY DEF In, Registered
<1>2. /\ IsFiniteSet(C) /\ IsFiniteSet(B) /\ Cardinality(C) \in Nat /\ Cardinality(B) \in Nat
      /\ IsFiniteSet(E) /\ Cardinality(E) <= MaxSockets /\ Cardinality(E) \in Nat
      /\ IsFiniteSet(T) /\ Cardinality(T) <= MaxTimers /\ Cardinality(T) \in Nat
  BY <1>1, SubsetBound, ConstantsTyped
<1>3. Cardinality(C) + Cardinality(B) < Cap
  <2>1. Cardinality(C) = Live /\ Cardinality(B) = Pending  BY DEF Live, Pending, Registered
  <2> QED  BY <1>2, <2>1, ConstantsTyped DEF Full
<1>4. \A x \in HubIds : hubs[x] # "none" => x \in HC \cup HB \cup HE \cup HT
  BY DEF KnownInv, Owned, In, Registered
<1> HIDE DEF C, B, E, T
<1>5. /\ IsFiniteSet(HC) /\ Cardinality(HC) <= Cardinality(C) /\ Cardinality(HC) \in Nat
      /\ IsFiniteSet(HB) /\ Cardinality(HB) <= Cardinality(B) /\ Cardinality(HB) \in Nat
      /\ IsFiniteSet(HE) /\ Cardinality(HE) <= Cardinality(E) /\ Cardinality(HE) \in Nat
      /\ IsFiniteSet(HT) /\ Cardinality(HT) <= Cardinality(T) /\ Cardinality(HT) \in Nat
  BY <1>2, ImageBound, ZenonT(60)
<1> HIDE DEF HC, HB, HE, HT
<1> DEFINE U == HC \cup HB
           V == HE \cup HT
<1>6. /\ IsFiniteSet(U) /\ Cardinality(U) <= Cardinality(HC) + Cardinality(HB) /\ Cardinality(U) \in Nat
      /\ IsFiniteSet(V) /\ Cardinality(V) <= Cardinality(HE) + Cardinality(HT) /\ Cardinality(V) \in Nat
  BY <1>5, UnionBound
<1>7. \A x \in HubIds : hubs[x] # "none" => x \in U \cup V  BY <1>4
<1> HIDE DEF U, V
<1>8. IsFiniteSet(U \cup V) /\ Cardinality(U \cup V) <= Cardinality(U) + Cardinality(V)
      /\ Cardinality(U \cup V) \in Nat
  BY <1>6, UnionBound
<1>9. Cardinality(U \cup V) < Cap + MaxSockets + MaxTimers
  BY <1>2, <1>3, <1>5, <1>6, <1>8, ConstantsTyped
<1>10. ~(HubIds \subseteq U \cup V)
  <2> SUFFICES ASSUME HubIds \subseteq U \cup V PROVE FALSE  OBVIOUS
  <2>1. Cardinality(HubIds) <= Cardinality(U \cup V)  BY <1>8, SubsetBound
  <2> QED  BY <1>8, <1>9, <2>1, ConstantsTyped
<1> DEFINE X == {x \in HubIds : hubs[x] = "none"}
<1>11. X # {} /\ X \in SUBSET Nat  BY <1>7, <1>10, ConstantsTyped
<1>12. Min(X) \in X  BY <1>11, LeastNumber
<1> QED  BY <1>12 DEF FreshHub

\* A lock is dropped with the last that needs it, and not before.
LEMMA DropLockFacts ==
    ASSUME NEW ss \in [Slots -> {NoSocket} \cup Socket], NEW ls \in [Clients -> {0} \cup Locks],
           NEW ents, NEW c \in Clients, NEW new, new = DropLock(ls, ents, ss, c)
    PROVE  /\ new \in [Clients -> {0} \cup Locks]
           /\ \A d \in Clients : d # c => new[d] = ls[d]
           /\ ents[c] # None \/ (\E t \in Slots : Asks(ss, t, c)) => new[c] = ls[c]
           /\ new[c] # 0 => new[c] = ls[c] /\ (ents[c] # None \/ \E t \in Slots : Asks(ss, t, c))
<1> DEFINE A == Of(ss, c, {"wait", "room", "evict", "build"})
<1>1. A = {t \in Slots : Asks(ss, t, c)}  BY DEF Of, In, Asks, Asking
<1>2. IsFiniteSet(A)
  <2>1. A \in SUBSET Slots  BY <1>1
  <2> QED  BY <2>1, SubsetBound, ConstantsTyped
<1>3. Acquiring(ss, c) = 0 <=> ~\E t \in Slots : Asks(ss, t, c)
  <2>1. Cardinality(A) = 0 <=> A = {}  BY <1>2, FS_EmptySet
  <2> QED  BY <1>1, <2>1 DEF Acquiring
<1> HIDE DEF A
<1> QED  BY <1>3 DEF DropLock

-----------------------------------------------------------------------------
(* One socket moves *)

LEMMA SocketMoves ==
    ASSUME Types, NEW s \in Slots, NEW r \in {NoSocket} \cup Socket, sock' = [sock EXCEPT ![s] = r],
           r.pc # "free" => r.panel = sock[s].panel
    PROVE  /\ sock' \in [Slots -> {NoSocket} \cup Socket] /\ sock'[s] = r
           /\ \A t \in Slots : t # s => sock'[t] = sock[t] /\ Client(t)' = Client(t)
           /\ r.pc # "free" => Client(s)' = Client(s)
           /\ \A t \in Slots : t # s => \A c : Asks(sock', t, c) <=> Asks(sock, t, c)
           /\ \A c : Asks(sock', s, c) <=> r.pc \in Asking /\ c = ClientOf[r.panel]
BY DEF Types, Client, Asks

\* A socket whose handler alone goes on is the same to its panel.
LEMMA SamePanels ==
    ASSUME Types, PanelInv, NEW s \in Slots, NEW r \in {NoSocket} \cup Socket,
           sock' = [sock EXCEPT ![s] = r], UNCHANGED panel, sock[s].pc # "free",
           r.pc # "free" => /\ r.panel = sock[s].panel /\ r.seen = sock[s].seen
                            /\ r.disposed = sock[s].disposed /\ r.up = sock[s].up
    PROVE  PanelInv'
<1>1. sock'[s] = r /\ \A t \in Slots : t # s => sock'[t] = sock[t]  BY DEF Types
<1> QED  BY <1>1 DEF PanelInv

\* What an ended handler leaves: nothing, once its close was seen.
LEMMA SettledFacts ==
    ASSUME NEW r \in Socket, NEW q, q = Settled(r)
    PROVE  /\ q \in {NoSocket} \cup Socket
           /\ q.pc # "free" => q = r
           /\ r.pc # "ended" => q = r
           /\ q.pc = "free" \/ q.pc = r.pc
           /\ r.pc = "ended" => q.pc \in {"free", "ended"}
<1>1. NoSocket.pc = "free"  BY DEF NoSocket
<1>2. r.pc # "free"  BY DEF Socket, Asking
<1> QED  BY <1>1, <1>2 DEF Settled

\* The server sees only of a socket what its handler is at.
LEMMA SameHandlers ==
    ASSUME IInv, sock' \in [Slots -> {NoSocket} \cup Socket],
           UNCHANGED <<entries, locks, hubs, orphans, timers>>,
           \A t \in Slots :
             sock[t].pc \in Asking \cup {"serving"} \/ sock'[t].pc \in Asking \cup {"serving"} =>
               /\ sock'[t].pc = sock[t].pc /\ sock'[t].panel = sock[t].panel
               /\ sock'[t].lock = sock[t].lock /\ sock'[t].hub = sock[t].hub
    PROVE  LockInv' /\ StateInv' /\ OwnInv' /\ KnownInv' /\ ServeInv' /\ WithinCap' /\ TimerInv'
<1>1. \A t \in Slots : \A c : Asks(sock', t, c) <=> Asks(sock, t, c)  BY DEF Asks
<1>2. \A t \in Slots : sock'[t].pc \in Asking \cup {"serving"} => Client(t)' = Client(t)
  BY DEF Client
<1>3. PastLock \subseteq Asking /\ {"build", "evict"} \subseteq Asking  BY DEF PastLock, Asking
<1>4. LockInv'  BY <1>1, <1>2, <1>3 DEF IInv, LockInv
<1>5. StateInv' /\ OwnInv' /\ KnownInv'  BY <1>3 DEF IInv, StateInv, OwnInv, KnownInv, Owned
<1>6. In(sock, {"build"})' = In(sock, {"build"})  BY <1>3 DEF In
<1>7. WithinCap'  BY <1>6 DEF IInv, WithinCap, Live, Pending, In
<1>8. \A c : Serving(c)' = Serving(c)  BY <1>2 DEF Serving, Client
<1>9. ServeInv'  BY <1>2, <1>8 DEF IInv, ServeInv
<1>10. TimerInv'  BY DEF IInv, TimerInv
<1> QED  BY <1>4, <1>5, <1>7, <1>9, <1>10

-----------------------------------------------------------------------------
(* The browser's steps *)

LEMMA MountKeeps ==
    ASSUME IInv, NEW p \in Panels, Mount(p)
    PROVE  IInv'
<1>1. /\ panel[p].pc = "off" /\ mounts < MaxMounts /\ mounts' = mounts + 1
      /\ panel' = [panel EXCEPT ![p].pc = "due"]
      /\ UNCHANGED <<server, entries, locks, hubs, orphans, sock, timers, faults>>
  BY DEF Mount
<1>2. panel' \in [Panels -> Panel]
  <2> DEFINE r == [panel[p] EXCEPT !.pc = "due"]
  <2>1. panel[p] \in Panel  BY DEF IInv, Types
  <2>2. r \in Panel  BY <2>1 DEF Panel
  <2> HIDE DEF r
  <2>3. panel' = [panel EXCEPT ![p] = r]  BY <1>1 DEF r
  <2> QED  BY <2>2, <2>3 DEF IInv, Types
<1>3. Types'
  <2>1. mounts' \in 0..MaxMounts  BY <1>1, ConstantsTyped DEF IInv, Types
  <2> QED  BY <1>1, <1>2, <2>1 DEF IInv, Types
<1>4. PanelInv'
  <2>1. \A q \in Panels : q # p => panel'[q] = panel[q]  BY <1>1 DEF IInv, Types
  <2>2. \A s \in Slots : sock[s].pc # "free" => sock[s].panel \in Panels
    BY SocketFacts DEF IInv, Types
  <2> QED  BY <1>1, <2>1, <2>2 DEF IInv, PanelInv
<1>5. LockInv' /\ StateInv' /\ OwnInv' /\ KnownInv' /\ ServeInv' /\ WithinCap' /\ TimerInv'
  <2>1. sock' \in [Slots -> {NoSocket} \cup Socket]  BY <1>3 DEF Types
  <2> QED  BY <1>1, <2>1, SameHandlers
<1>6. ServerInv'  BY <1>1 DEF IInv, ServerInv
<1> QED  BY <1>3, <1>4, <1>5, <1>6 DEF IInv

LEMMA UnmountKeeps ==
    ASSUME IInv, NEW p \in Panels, Unmount(p)
    PROVE  IInv'
<1> DEFINE gone(s) == [sock[s] EXCEPT !.disposed = TRUE, !.up = @ /\ s # panel[p].ref]
<1>1. /\ panel' = [panel EXCEPT ![p] = [pc |-> "off", ref |-> 0]]
      /\ \A s \in Slots : sock'[s] = IF sock[s].pc = "free" \/ sock[s].panel # p THEN sock[s] ELSE gone(s)
      /\ sock' = [s \in Slots |-> sock'[s]]
      /\ UNCHANGED <<server, entries, locks, hubs, orphans, timers, mounts, faults>>
  BY DEF Unmount, budgets
<1>2. ASSUME NEW s \in Slots, sock[s].pc # "free"
      PROVE  /\ gone(s) \in Socket /\ gone(s).pc = sock[s].pc /\ gone(s).panel = sock[s].panel
             /\ gone(s).lock = sock[s].lock /\ gone(s).hub = sock[s].hub
             /\ gone(s).seen = sock[s].seen /\ gone(s).disposed = TRUE
             /\ gone(s).up = (sock[s].up /\ s # panel[p].ref)
  <2> DEFINE q == sock[s]
             b == q.up /\ s # panel[p].ref
  <2>1. q \in Socket /\ b \in BOOLEAN  BY <1>2, SocketFacts DEF IInv, Types
  <2>2. gone(s) = [q EXCEPT !.disposed = TRUE, !.up = b]  OBVIOUS
  <2> HIDE DEF q, b, gone
  <2>3. gone(s) \in Socket /\ gone(s).pc = q.pc /\ gone(s).panel = q.panel /\ gone(s).lock = q.lock
        /\ gone(s).hub = q.hub /\ gone(s).seen = q.seen /\ gone(s).disposed = TRUE /\ gone(s).up = b
    BY <2>1, <2>2 DEF Socket
  <2> QED  BY <2>3 DEF q, b
<1> HIDE DEF gone
<1>3. ASSUME NEW s \in Slots PROVE sock'[s] \in {NoSocket} \cup Socket
  <2>1. sock[s] \in {NoSocket} \cup Socket  BY DEF IInv, Types
  <2>2. CASE sock'[s] = sock[s]  BY <2>1, <2>2
  <2>3. CASE sock'[s] # sock[s]
    <3>1. sock[s].pc # "free" /\ sock'[s] = gone(s)  BY <1>1, <2>3
    <3> QED  BY <1>2, <3>1
  <2> QED  BY <2>2, <2>3
<1>4. sock' \in [Slots -> {NoSocket} \cup Socket]  BY <1>1, <1>3
<1>5. panel' \in [Panels -> Panel]
  <2>1. [pc |-> "off", ref |-> 0] \in Panel  BY DEF Panel
  <2> QED  BY <1>1, <2>1 DEF IInv, Types
<1>6. Types'  BY <1>1, <1>4, <1>5 DEF IInv, Types
<1>7. \A s \in Slots : /\ sock'[s].pc = sock[s].pc
                       /\ sock[s].pc # "free" =>
                            /\ sock'[s].panel = sock[s].panel /\ sock'[s].lock = sock[s].lock
                            /\ sock'[s].hub = sock[s].hub /\ sock'[s].seen = sock[s].seen
  BY <1>1, <1>2, ZenonT(60)
<1>8. LockInv' /\ StateInv' /\ OwnInv' /\ KnownInv' /\ ServeInv' /\ WithinCap' /\ TimerInv'
  <2>1. "free" \notin Asking \cup {"serving"}  BY DEF Asking
  <2> QED  BY <1>1, <1>4, <1>7, <2>1, SameHandlers
<1>9. PanelInv'
  <2>1. \A q \in Panels : q # p => panel'[q] = panel[q]  BY <1>1 DEF IInv, Types
  <2>2. ASSUME NEW s \in Slots, sock'[s].pc # "free", ~sock'[s].seen, ~sock'[s].disposed
        PROVE  panel'[sock'[s].panel].pc = "live" /\ panel'[sock'[s].panel].ref = s
    <3>1. sock[s].pc # "free" /\ sock[s].panel \in Panels  BY <1>7, <2>2, SocketFacts DEF IInv, Types
    <3>2. sock[s].panel # p /\ sock'[s] = sock[s]  BY <1>1, <1>2, <2>2, <3>1
    <3> QED  BY <2>1, <2>2, <3>1, <3>2 DEF IInv, PanelInv
  <2>3. ASSUME NEW s \in Slots, sock'[s].pc # "free", sock'[s].up
        PROVE  ~sock'[s].seen /\ ~sock'[s].disposed
    <3>1. sock[s].pc # "free"  BY <1>7, <2>3
    <3>2. CASE sock[s].panel # p  BY <1>1, <2>3, <3>1, <3>2 DEF IInv, PanelInv
    <3>3. CASE sock[s].panel = p
      <4>1. sock[s].up /\ s # panel[p].ref  BY <1>1, <1>2, <2>3, <3>1, <3>3
      <4>2. panel[p].ref = s  BY <3>1, <3>3, <4>1 DEF IInv, PanelInv
      <4> QED  BY <4>1, <4>2
    <3> QED  BY <3>2, <3>3
  <2> QED  BY <2>2, <2>3 DEF PanelInv
<1>10. ServerInv'  BY <1>1, <1>7 DEF IInv, ServerInv
<1> QED  BY <1>6, <1>8, <1>9, <1>10 DEF IInv

\* A connection is lost, or its close is heard of: the handler is where it was.
LEMMA ClosingKeeps ==
    ASSUME IInv, NEW s \in Slots, sock[s].pc # "free",
           NEW r \in {NoSocket} \cup Socket, sock' = [sock EXCEPT ![s] = r], r.pc = "free" => sock[s].pc = "ended",
           r.pc # "free" =>
             /\ r.pc = sock[s].pc /\ r.panel = sock[s].panel /\ r.lock = sock[s].lock /\ r.hub = sock[s].hub,
           UNCHANGED <<server, entries, locks, hubs, orphans, timers>>
    PROVE  /\ LockInv' /\ StateInv' /\ OwnInv' /\ KnownInv' /\ ServeInv' /\ WithinCap' /\ TimerInv'
           /\ ServerInv' /\ sock' \in [Slots -> {NoSocket} \cup Socket]
<1>1. /\ sock' \in [Slots -> {NoSocket} \cup Socket] /\ sock'[s] = r
      /\ \A t \in Slots : t # s => sock'[t] = sock[t]
  BY DEF IInv, Types
<1>2. \A t \in Slots :
        sock[t].pc \in Asking \cup {"serving"} \/ sock'[t].pc \in Asking \cup {"serving"} =>
          /\ sock'[t].pc = sock[t].pc /\ sock'[t].panel = sock[t].panel
          /\ sock'[t].lock = sock[t].lock /\ sock'[t].hub = sock[t].hub
  BY <1>1 DEF Asking
<1>3. LockInv' /\ StateInv' /\ OwnInv' /\ KnownInv' /\ ServeInv' /\ WithinCap' /\ TimerInv'
  BY <1>1, <1>2, SameHandlers
<1>4. ServerInv'  BY <1>1 DEF IInv, ServerInv
<1> QED  BY <1>1, <1>3, <1>4

LEMMA OnCloseKeeps ==
    ASSUME IInv, NEW s \in Slots, OnClose(s)
    PROVE  IInv'
<1> DEFINE o == sock[s]
           q == [o EXCEPT !.seen = TRUE, !.up = FALSE]
           r == Settled(q)
           p == o.panel
           b == [panel[p] EXCEPT !.ref = AfterClose(p, s), !.pc = IF o.disposed THEN @ ELSE NextTry(s)]
<1>1. /\ o.pc # "free" /\ ~o.seen /\ sock' = [sock EXCEPT ![s] = r]
      /\ panel' = [panel EXCEPT ![p].ref = AfterClose(p, s), ![p].pc = IF o.disposed THEN @ ELSE NextTry(s)]
      /\ UNCHANGED <<server, entries, locks, hubs, orphans, timers, mounts, faults>>
  BY DEF OnClose, budgets
<1>2. o \in Socket /\ p \in Panels  BY <1>1, SocketFacts DEF IInv, Types
<1>3. /\ q \in Socket /\ q.pc = o.pc /\ q.panel = o.panel /\ q.lock = o.lock /\ q.hub = o.hub
      /\ q.seen = TRUE /\ q.up = FALSE
  <2> HIDE DEF o
  <2> QED  BY <1>2 DEF Socket
<1> HIDE DEF q
<1>4. /\ r \in {NoSocket} \cup Socket /\ (r.pc # "free" => r = q) /\ (r.pc = "free" => o.pc = "ended")
  <2>1. q.pc # "free"  BY <1>1, <1>3
  <2> QED  BY <1>3, <2>1, SettledFacts
<1> HIDE DEF r
<1>5. /\ LockInv' /\ StateInv' /\ OwnInv' /\ KnownInv' /\ ServeInv' /\ WithinCap' /\ TimerInv'
      /\ ServerInv' /\ sock' \in [Slots -> {NoSocket} \cup Socket]
  BY <1>1, <1>3, <1>4, ClosingKeeps
<1>6. panel[p] \in Panel /\ panel' = [panel EXCEPT ![p] = b]  BY <1>1, <1>2 DEF IInv, Types
<1>7. b \in Panel /\ (b.ref = IF panel[p].ref = s THEN 0 ELSE panel[p].ref)
      /\ (o.disposed => b.pc = panel[p].pc)
  <2> DEFINE x == panel[p]
             y == AfterClose(p, s)
             z == IF o.disposed THEN x.pc ELSE NextTry(s)
  <2>1. x \in Panel /\ b = [x EXCEPT !.ref = y, !.pc = z]  BY <1>6
  <2>2. y = (IF x.ref = s THEN 0 ELSE x.ref) /\ x.ref \in {0} \cup Slots /\ x.pc \in {"off", "due", "live", "refused"}
    BY <2>1 DEF AfterClose, Panel
  <2>3. z \in {"off", "due", "live", "refused"} /\ (o.disposed => z = x.pc)  BY <2>2 DEF NextTry
  <2> HIDE DEF x, y, z
  <2>4. b \in Panel /\ b.ref = y /\ b.pc = z  BY <2>1, <2>2, <2>3 DEF Panel
  <2> QED  BY <2>2, <2>3, <2>4 DEF x
<1> HIDE DEF b
<1>8. Types'  BY <1>1, <1>2, <1>5, <1>6, <1>7 DEF IInv, Types
<1>9. PanelInv'
  <2>1. sock'[s] = r /\ \A t \in Slots : t # s => sock'[t] = sock[t]  BY <1>1, <1>4 DEF IInv, Types
  <2>2. panel'[p] = b /\ \A d \in Panels : d # p => panel'[d] = panel[d]  BY <1>2, <1>6 DEF IInv, Types
  <2>3. r.pc # "free" => r.seen /\ ~r.up  BY <1>3, <1>4
  <2>4. ASSUME NEW t \in Slots, sock'[t].pc # "free", ~sock'[t].seen, ~sock'[t].disposed
        PROVE  panel'[sock'[t].panel].pc = "live" /\ panel'[sock'[t].panel].ref = t
    <3>1. t # s /\ sock'[t] = sock[t]  BY <2>1, <2>3, <2>4
    <3>2. panel[sock[t].panel].pc = "live" /\ panel[sock[t].panel].ref = t
      BY <2>4, <3>1 DEF IInv, PanelInv
    <3>3. sock[t].panel \in Panels  BY <2>4, <3>1, SocketFacts DEF IInv, Types
    <3>4. CASE sock[t].panel # p  BY <2>2, <3>1, <3>2, <3>3, <3>4
    <3>5. CASE sock[t].panel = p
      <4>1. o.disposed
        <5> SUFFICES ASSUME ~o.disposed PROVE FALSE  OBVIOUS
        <5>1. panel[p].ref = s  BY <1>1 DEF IInv, PanelInv
        <5> QED  BY <3>1, <3>2, <3>5, <5>1
      <4>2. b.pc = "live" /\ b.ref = t  BY <1>7, <3>1, <3>2, <3>5, <4>1
      <4> QED  BY <2>2, <3>1, <3>5, <4>2
    <3> QED  BY <3>4, <3>5
  <2>5. ASSUME NEW t \in Slots, sock'[t].pc # "free", sock'[t].up
        PROVE  ~sock'[t].seen /\ ~sock'[t].disposed
    <3>1. t # s /\ sock'[t] = sock[t]  BY <2>1, <2>3, <2>5
    <3> QED  BY <2>5, <3>1 DEF IInv, PanelInv
  <2> QED  BY <2>4, <2>5 DEF PanelInv
<1> QED  BY <1>5, <1>8, <1>9 DEF IInv

LEMMA LinkLostKeeps ==
    ASSUME IInv, NEW s \in Slots, LinkLost(s)
    PROVE  IInv'
<1> DEFINE o == sock[s]
           r == [o EXCEPT !.up = FALSE]
<1>1. /\ o.pc # "free" /\ faults < MaxFaults /\ faults' = faults + 1
      /\ UNCHANGED <<server, entries, locks, hubs, orphans, timers, panel, mounts>>
  BY DEF LinkLost
<1>2. o \in Socket  BY <1>1, SocketFacts DEF IInv, Types
<1>3. sock' = [sock EXCEPT ![s] = r]  BY DEF LinkLost
<1>4. /\ r \in Socket /\ r.pc = o.pc /\ r.panel = o.panel /\ r.lock = o.lock /\ r.hub = o.hub
      /\ r.seen = o.seen /\ r.disposed = o.disposed /\ r.up = FALSE
  <2> HIDE DEF o
  <2> QED  BY <1>2 DEF Socket
<1> HIDE DEF r
<1>5. /\ LockInv' /\ StateInv' /\ OwnInv' /\ KnownInv' /\ ServeInv' /\ WithinCap' /\ TimerInv'
      /\ ServerInv' /\ sock' \in [Slots -> {NoSocket} \cup Socket]
  BY <1>1, <1>3, <1>4, ClosingKeeps
<1>6. Types'
  <2>1. faults' \in 0..MaxFaults  BY <1>1, ConstantsTyped DEF IInv, Types
  <2> QED  BY <1>1, <1>5, <2>1 DEF IInv, Types
<1>7. PanelInv'
  <2>1. sock'[s] = r /\ \A t \in Slots : t # s => sock'[t] = sock[t]  BY <1>3, <1>4 DEF IInv, Types
  <2> QED  BY <1>1, <1>4, <2>1 DEF IInv, PanelInv
<1> QED  BY <1>5, <1>6, <1>7 DEF IInv

LEMMA ShutdownKeeps ==
    ASSUME IInv, Shutdown
    PROVE  IInv'
<1> DEFINE down(s) == [sock[s] EXCEPT !.up = FALSE]
<1>1. /\ server = "up" /\ server' = "closing"
      /\ \A s \in Slots : sock'[s] = IF sock[s].pc = "free" THEN sock[s] ELSE down(s)
      /\ sock' = [s \in Slots |-> sock'[s]]
      /\ UNCHANGED <<entries, locks, hubs, orphans, timers, panel, mounts, faults>>
  BY DEF Shutdown, budgets
<1>2. ASSUME NEW s \in Slots, sock[s].pc # "free"
      PROVE  /\ down(s) \in Socket /\ down(s).pc = sock[s].pc /\ down(s).panel = sock[s].panel
             /\ down(s).lock = sock[s].lock /\ down(s).hub = sock[s].hub
             /\ down(s).seen = sock[s].seen /\ down(s).disposed = sock[s].disposed /\ down(s).up = FALSE
  <2> DEFINE q == sock[s]
  <2>1. q \in Socket  BY <1>2, SocketFacts DEF IInv, Types
  <2>2. down(s) = [q EXCEPT !.up = FALSE]  OBVIOUS
  <2> HIDE DEF q, down
  <2>3. /\ down(s) \in Socket /\ down(s).pc = q.pc /\ down(s).panel = q.panel /\ down(s).lock = q.lock
        /\ down(s).hub = q.hub /\ down(s).seen = q.seen /\ down(s).disposed = q.disposed /\ down(s).up = FALSE
    BY <2>1, <2>2 DEF Socket
  <2> QED  BY <2>3 DEF q
<1> HIDE DEF down
<1>3. ASSUME NEW s \in Slots PROVE sock'[s] \in {NoSocket} \cup Socket
  <2>1. sock[s] \in {NoSocket} \cup Socket  BY DEF IInv, Types
  <2>2. CASE sock'[s] = sock[s]  BY <2>1, <2>2
  <2>3. CASE sock'[s] # sock[s]
    <3>1. sock[s].pc # "free" /\ sock'[s] = down(s)  BY <1>1, <2>3
    <3> QED  BY <1>2, <3>1
  <2> QED  BY <2>2, <2>3
<1>4. sock' \in [Slots -> {NoSocket} \cup Socket]  BY <1>1, <1>3
<1>5. Types'  BY <1>1, <1>4 DEF IInv, Types
<1>6. \A s \in Slots : /\ sock'[s].pc = sock[s].pc
                       /\ sock[s].pc # "free" =>
                            /\ sock'[s].panel = sock[s].panel /\ sock'[s].lock = sock[s].lock
                            /\ sock'[s].hub = sock[s].hub /\ sock'[s].seen = sock[s].seen
                            /\ sock'[s].disposed = sock[s].disposed /\ ~sock'[s].up
  BY <1>1, <1>2, ZenonT(60)
<1>7. LockInv' /\ StateInv' /\ OwnInv' /\ KnownInv' /\ ServeInv' /\ WithinCap' /\ TimerInv'
  <2>1. "free" \notin Asking \cup {"serving"}  BY DEF Asking
  <2> QED  BY <1>1, <1>4, <1>6, <2>1, SameHandlers
<1>8. PanelInv'  BY <1>1, <1>6 DEF IInv, PanelInv
<1>9. ServerInv'  BY <1>1 DEF IInv, ServerInv
<1> QED  BY <1>5, <1>7, <1>8, <1>9 DEF IInv

\* A socket of a client that has none before it takes a lock of its own; the others share it.
LEMMA ConnectKeeps ==
    ASSUME IInv, NEW p \in Panels, Connect(p)
    PROVE  IInv'
<1> DEFINE free == {s \in Slots : sock[s] = NoSocket}
           m == Min(free)
           c == ClientOf[p]
           l == IF locks[c] = 0 THEN FreshLock ELSE locks[c]
           r == [pc |-> "wait", panel |-> p, lock |-> l, hub |-> 0, code |-> 0,
                 up |-> TRUE, seen |-> FALSE, disposed |-> FALSE]
<1>1. /\ panel[p].pc = "due" /\ server = "up" /\ free # {}
      /\ panel' = [panel EXCEPT ![p] = [pc |-> "live", ref |-> m]]
      /\ locks' = [locks EXCEPT ![c] = l]
      /\ sock' = [sock EXCEPT ![m] = r]
      /\ UNCHANGED <<server, entries, hubs, orphans, timers, mounts, faults>>
  BY DEF Connect, budgets
<1>2. PICK s \in Slots : s = m /\ sock[s] = NoSocket
  <2>1. free \in SUBSET Nat  BY ConstantsTyped
  <2> HIDE DEF free
  <2>2. m \in free  BY <1>1, <2>1, LeastNumber
  <2> QED  BY <2>2 DEF free
<1> HIDE DEF free, m
<1>3. c \in Clients /\ l \in Locks /\ l # 0
  <2>1. FreshLock \in Locks  BY FreshLockIsALock DEF IInv
  <2>2. locks[c] \in {0} \cup Locks  BY ConstantsTyped DEF IInv, Types
  <2> QED  BY <2>1, <2>2, ConstantsTyped
<1>4. r \in Socket /\ r.pc = "wait" /\ r.panel = p /\ r.lock = l /\ r.up /\ ~r.seen /\ ~r.disposed
  <2> HIDE DEF l
  <2> QED  BY <1>3 DEF Socket, Asking
<1>5. locks[c] # 0 => l = locks[c]  OBVIOUS
<1> HIDE DEF l, r
<1>6. /\ sock' \in [Slots -> {NoSocket} \cup Socket] /\ sock'[s] = r
      /\ \A t \in Slots : t # s => sock'[t] = sock[t] /\ Client(t)' = Client(t)
      /\ Client(s)' = c /\ sock[s].pc = "free"
  <2>1. /\ sock' \in [Slots -> {NoSocket} \cup Socket] /\ sock'[s] = r
        /\ \A t \in Slots : t # s => sock'[t] = sock[t]
    BY <1>1, <1>2, <1>4 DEF IInv, Types
  <2>2. NoSocket.pc = "free"  BY DEF NoSocket
  <2>3. \A t \in Slots : t # s => Client(t)' = Client(t)  BY <2>1 DEF Client
  <2>4. Client(s)' = c  BY <1>4, <2>1 DEF Client
  <2> QED  BY <1>2, <2>1, <2>2, <2>3, <2>4
<1>7. locks' \in [Clients -> {0} \cup Locks] /\ locks'[c] = l /\ \A d \in Clients : d # c => locks'[d] = locks[d]
  BY <1>1, <1>3 DEF IInv, Types
<1>8. /\ panel' \in [Panels -> Panel] /\ panel'[p].pc = "live" /\ panel'[p].ref = s
      /\ \A d \in Panels : d # p => panel'[d] = panel[d]
  <2>1. [pc |-> "live", ref |-> s] \in Panel  BY <1>2 DEF Panel
  <2> QED  BY <1>1, <1>2, <2>1 DEF IInv, Types
<1>9. Types'  BY <1>1, <1>6, <1>7, <1>8 DEF IInv, Types
<1>10. LockInv'
  <2>1. ASSUME NEW t \in Slots, sock'[t].pc \in Asking
        PROVE  locks'[Client(t)'] # 0 /\ sock'[t].lock = locks'[Client(t)']
    <3>1. CASE t = s
      <4>1. locks'[Client(t)'] = l /\ sock'[t].lock = l  BY <1>4, <1>6, <1>7, <3>1
      <4> QED  BY <1>3, <4>1
    <3>2. CASE t # s
      <4>1. sock[t].pc \in Asking /\ sock'[t].lock = sock[t].lock /\ Client(t)' = Client(t)
        BY <1>6, <2>1, <3>2
      <4>2. locks[Client(t)] # 0 /\ sock[t].lock = locks[Client(t)]  BY <4>1 DEF IInv, LockInv
      <4>3. Client(t) \in Clients
        BY <4>1, SocketFacts DEF IInv, Types, Client, Asking
      <4> QED  BY <1>5, <1>7, <4>1, <4>2, <4>3
    <3> QED  BY <3>1, <3>2
  <2>2. \A t \in Slots : sock'[t].pc \in PastLock => t # s /\ sock[t].pc \in PastLock /\ Client(t)' = Client(t)
    BY <1>4, <1>6 DEF PastLock
  <2>3. \A t, u \in Slots : t # u /\ sock'[t].pc \in PastLock /\ sock'[u].pc \in PastLock =>
          Client(t)' # Client(u)'
    BY <2>2 DEF IInv, LockInv
  <2>4. \A t \in Slots : sock'[t].pc \in PastLock => entries'[Client(t)'] = None
    BY <1>1, <2>2 DEF IInv, LockInv
  <2>5. \A d \in Clients : entries'[d] # None => locks'[d] # 0
    BY <1>1, <1>3, <1>7 DEF IInv, LockInv
  <2>6. ASSUME NEW d \in Clients, locks'[d] # 0
        PROVE  entries'[d] # None \/ \E t \in Slots : Asks(sock', t, d)
    <3>1. CASE d = c
      <4>1. Asks(sock', s, c)  BY <1>4, <1>6 DEF Asks, Asking
      <4> QED  BY <1>2, <3>1, <4>1
    <3>2. CASE d # c
      <4>1. locks[d] # 0  BY <1>7, <2>6, <3>2
      <4>2. entries[d] # None \/ \E t \in Slots : Asks(sock, t, d)  BY <4>1 DEF IInv, LockInv
      <4>3. \A t \in Slots : Asks(sock, t, d) => Asks(sock', t, d)  BY <1>6 DEF Asks, Asking
      <4> QED  BY <1>1, <4>2, <4>3
    <3> QED  BY <3>1, <3>2
  <2> QED  BY <2>1, <2>3, <2>4, <2>5, <2>6 DEF LockInv
<1>11. \A t \in Slots : sock'[t].pc # sock[t].pc => t = s /\ sock'[t].pc = "wait"  BY <1>4, <1>6
<1>12. StateInv' /\ OwnInv' /\ KnownInv'
  <2>1. \A t \in Slots : sock'[t].pc \in {"build", "evict"} \/ sock[t].pc \in {"build", "evict"} =>
          sock'[t].pc = sock[t].pc /\ sock'[t].hub = sock[t].hub
    BY <1>4, <1>6
  <2> QED  BY <1>1, <2>1 DEF IInv, StateInv, OwnInv, KnownInv, Owned
<1>13. WithinCap'
  <2>1. In(sock, {"build"})' = In(sock, {"build"})  BY <1>4, <1>6 DEF In
  <2> QED  BY <1>1, <2>1 DEF IInv, WithinCap, Live, Pending, In
<1>14. ServeInv'
  <2>1. \A t \in Slots : sock'[t].pc = "serving" <=> sock[t].pc = "serving"  BY <1>4, <1>6
  <2>2. \A t \in Slots : sock[t].pc = "serving" => sock'[t] = sock[t] /\ Client(t)' = Client(t)
    BY <1>6
  <2>3. \A d : Serving(d)' = Serving(d)  BY <2>1, <2>2 DEF Serving
  <2> QED  BY <1>1, <2>1, <2>2, <2>3 DEF IInv, ServeInv
<1>15. TimerInv'  BY <1>1 DEF IInv, TimerInv
<1>16. PanelInv'
  <2>1. ASSUME NEW t \in Slots, t # s, sock'[t].pc # "free", ~sock'[t].seen, ~sock'[t].disposed
        PROVE  panel'[sock'[t].panel].pc = "live" /\ panel'[sock'[t].panel].ref = t
    <3>1. sock'[t] = sock[t]  BY <1>6, <2>1
    <3>2. panel[sock[t].panel].pc = "live" /\ panel[sock[t].panel].ref = t  BY <2>1, <3>1 DEF IInv, PanelInv
    <3>3. sock[t].panel # p /\ sock[t].panel \in Panels
      BY <1>1, <2>1, <3>1, <3>2, SocketFacts DEF IInv, Types
    <3> QED  BY <1>8, <3>1, <3>2, <3>3
  <2>2. panel'[sock'[s].panel].pc = "live" /\ panel'[sock'[s].panel].ref = s  BY <1>4, <1>6, <1>8
  <2>3. \A t \in Slots : sock'[t].pc # "free" /\ sock'[t].up => ~sock'[t].seen /\ ~sock'[t].disposed
    BY <1>4, <1>6 DEF IInv, PanelInv
  <2> QED  BY <2>1, <2>2, <2>3 DEF PanelInv
<1>17. ServerInv'  BY <1>1 DEF IInv, ServerInv
<1> QED  BY <1>9, <1>10, <1>12, <1>13, <1>14, <1>15, <1>16, <1>17 DEF IInv

-----------------------------------------------------------------------------
(* acquire *)

\* Those served stay the same when a socket that is not served moves on, and who is
\* served is a socket.
LEMMA ServingFacts ==
    ASSUME NEW c
    PROVE  /\ Serving(c) \in SUBSET Slots /\ IsFiniteSet(Serving(c))
           /\ Cardinality(Serving(c)) \in 0..MaxSockets
<1>1. Serving(c) \in SUBSET Slots  BY DEF Serving
<1> QED  BY <1>1, SubsetBound, ConstantsTyped

LEMMA SameServing ==
    ASSUME Types, NEW s \in Slots, NEW r \in {NoSocket} \cup Socket, sock' = [sock EXCEPT ![s] = r],
           sock[s].pc # "serving", r.pc # "serving"
    PROVE  \A d : Serving(d)' = Serving(d)
<1>1. sock'[s] = r /\ \A t \in Slots : t # s => sock'[t] = sock[t]  BY DEF Types
<1> QED  BY <1>1 DEF Serving, Client

\* Whoever looks for the entry holds the client's lock, alone.
LEMMA AtTheDoor ==
    ASSUME IInv, NEW s \in Slots,
           \/ sock[s].pc = "wait" /\ ~Held(sock[s].lock)
           \/ sock[s].pc = "room"
    PROVE  /\ sock[s] \in Socket /\ Client(s) \in Clients /\ sock[s].lock = locks[Client(s)]
           /\ locks[Client(s)] # 0 /\ server # "down" /\ orphans = {}
           /\ \A t \in Slots : t # s /\ sock[t].pc \in PastLock => Client(t) # Client(s)
<1>1. sock[s].pc \in Asking /\ sock[s].pc \notin {"free", "ended"}  BY DEF Asking
<1>2. sock[s] \in Socket /\ Client(s) \in Clients
  BY <1>1, SocketFacts DEF IInv, Types, Client
<1>3. locks[Client(s)] # 0 /\ sock[s].lock = locks[Client(s)]  BY <1>1 DEF IInv, LockInv
<1>4. server # "down" /\ orphans = {}  BY <1>1 DEF IInv, ServerInv
<1>5. ASSUME NEW t \in Slots, t # s, sock[t].pc \in PastLock
      PROVE  Client(t) # Client(s)
  <2>1. CASE sock[s].pc = "room"  BY <1>5, <2>1 DEF IInv, LockInv, PastLock
  <2>2. CASE sock[s].pc = "wait"
    <3> SUFFICES ASSUME Client(t) = Client(s) PROVE FALSE  OBVIOUS
    <3>1. sock[t].lock = locks[Client(t)]  BY <1>5 DEF IInv, LockInv, Asking, PastLock
    <3>2. Held(sock[s].lock)  BY <1>3, <1>5, <3>1 DEF Held, In, PastLock
    <3> QED  BY <2>2, <3>2
  <2> QED  BY <2>1, <2>2
<1> QED  BY <1>2, <1>3, <1>4, <1>5

\* A socket that joins an entry stops its timer; the timers of the others are others.
LEMMA JoinKeeps ==
    ASSUME IInv, NEW s \in Slots, sock[s].pc = "wait", ~Held(sock[s].lock), Join(s),
           UNCHANGED <<server, orphans, panel, budgets>>
    PROVE  IInv'
<1> DEFINE o == sock[s]
           c == Client(s)
           e == entries[c].timer
           r == [o EXCEPT !.pc = "serving", !.lock = 0, !.hub = entries[c].hub]
           en == [entries[c] EXCEPT !.timer = 0, !.sockets = @ + 1]
<1>1. /\ entries[c] # None /\ entries' = [entries EXCEPT ![c] = en]
      /\ sock' = [sock EXCEPT ![s] = r]
      /\ timers' = IF e = 0 THEN timers ELSE [timers EXCEPT ![e] = NoTimer]
      /\ UNCHANGED <<server, locks, hubs, orphans, panel, mounts, faults>>
  BY DEF Join, budgets
<1>2. /\ o \in Socket /\ c \in Clients /\ server # "down" /\ o.pc = "wait"
      /\ \A t \in Slots : t # s /\ sock[t].pc \in PastLock => Client(t) # c
  BY AtTheDoor
<1>3. /\ entries[c] \in Entry /\ entries[c].hub \in HubIds /\ e \in {0} \cup Timers
      /\ entries[c].sockets = Cardinality(Serving(c))
  BY <1>1, <1>2, EntryFacts DEF IInv, Types, ServeInv
<1>4. /\ r \in Socket /\ r.pc = "serving" /\ r.panel = o.panel /\ r.lock = 0 /\ r.hub = entries[c].hub
      /\ r.seen = o.seen /\ r.disposed = o.disposed /\ r.up = o.up
  <2> DEFINE x == entries[c].hub
  <2>1. r = [o EXCEPT !.pc = "serving", !.lock = 0, !.hub = x]  OBVIOUS
  <2> HIDE DEF o, x
  <2> QED  BY <1>2, <1>3, <2>1 DEF Socket, x
<1> HIDE DEF r
<1>5. /\ sock' \in [Slots -> {NoSocket} \cup Socket] /\ sock'[s] = r
      /\ \A t \in Slots : t # s => sock'[t] = sock[t] /\ Client(t)' = Client(t)
      /\ Client(s)' = c
      /\ \A t \in Slots : t # s => \A d : Asks(sock', t, d) <=> Asks(sock, t, d)
  <2>1. r \in {NoSocket} \cup Socket /\ r.pc # "free"  BY <1>4
  <2>2. Types  BY DEF IInv
  <2>3. /\ sock' \in [Slots -> {NoSocket} \cup Socket] /\ sock'[s] = r
        /\ \A t \in Slots : t # s => sock'[t] = sock[t] /\ Client(t)' = Client(t)
        /\ r.pc # "free" => Client(s)' = Client(s)
        /\ \A t \in Slots : t # s => \A d : Asks(sock', t, d) <=> Asks(sock, t, d)
    BY <1>1, <1>4, <2>1, <2>2, SocketMoves
  <2> QED  BY <2>1, <2>3
<1>6. /\ Serving(c)' = Serving(c) \cup {s} /\ s \notin Serving(c)
      /\ \A d : d # c => Serving(d)' = Serving(d)
  <2>1. \A t \in Slots : sock'[t].pc = "serving" <=> t = s \/ sock[t].pc = "serving"
    BY <1>2, <1>4, <1>5
  <2> QED  BY <1>2, <1>5, <2>1 DEF Serving
<1>7. Cardinality(Serving(c)') = Cardinality(Serving(c)) + 1 /\ Cardinality(Serving(c)') \in 0..MaxSockets
  <2>1. Serving(c)' \in SUBSET Slots  BY DEF Serving
  <2>2. Cardinality(Serving(c)') <= MaxSockets /\ Cardinality(Serving(c)') \in Nat
    BY <2>1, SubsetBound, ConstantsTyped
  <2>3. IsFiniteSet(Serving(c))  BY ServingFacts
  <2>4. Cardinality(Serving(c)') = Cardinality(Serving(c)) + 1  BY <1>6, <2>3, OneMore
  <2> QED  BY <2>2, <2>4, ConstantsTyped
<1>8. /\ en \in Entry /\ en.hub = entries[c].hub /\ en.timer = 0
      /\ en.sockets = Cardinality(Serving(c)') /\ en.sockets # 0 /\ en # None
  <2> DEFINE x == entries[c]
             n == x.sockets + 1
  <2>1. en = [x EXCEPT !.timer = 0, !.sockets = n]  OBVIOUS
  <2>2. n = Cardinality(Serving(c)') /\ n \in 0..MaxSockets /\ n # 0
    <3>1. Cardinality(Serving(c)) \in Nat  BY ServingFacts
    <3> QED  BY <1>3, <1>7, <3>1
  <2>3. x \in Entry  BY <1>3
  <2> HIDE DEF x, n
  <2>4. en \in Entry /\ en.hub = x.hub /\ en.timer = 0 /\ en.sockets = n
    BY <2>1, <2>2, <2>3 DEF Entry
  <2>5. en # None  BY <2>4 DEF Entry, None
  <2> QED  BY <2>2, <2>4, <2>5 DEF x
<1> HIDE DEF en
<1>9. /\ entries' \in [Clients -> {None} \cup Entry] /\ entries'[c] = en
      /\ \A d \in Clients : d # c => entries'[d] = entries[d]
      /\ \A d \in Clients : entries'[d] # None <=> entries[d] # None
      /\ \A d \in Clients : entries[d] # None => entries'[d].hub = entries[d].hub
  BY <1>1, <1>2, <1>8 DEF IInv, Types
<1>10. /\ timers' \in [Timers -> {NoTimer} \cup Sleeping \cup Waiting \cup Stopping]
       /\ \A f \in Timers : f # e => timers'[f] = timers[f]
       /\ \A f \in Timers : timers'[f].pc = "stop" <=> timers[f].pc = "stop"
       /\ \A f \in Timers : timers[f].pc = "stop" => timers'[f] = timers[f]
  <2>1. CASE e = 0  BY <1>1, <2>1 DEF IInv, Types
  <2>2. CASE e # 0
    <3>1. timers' = [timers EXCEPT ![e] = NoTimer] /\ e \in Timers  BY <1>1, <1>3, <2>2
    <3>2. timers[e].pc \in {"sleep", "wait"}  BY <1>1, <1>2, <2>2 DEF IInv, TimerInv
    <3>3. NoTimer.pc = "free"  BY DEF NoTimer
    <3> QED  BY <3>1, <3>2, <3>3 DEF IInv, Types
  <2> QED  BY <2>1, <2>2
<1>11. Types'  BY <1>1, <1>5, <1>9, <1>10 DEF IInv, Types
<1>12. LockInv'
  <2>1. "serving" \notin Asking /\ PastLock \subseteq Asking  BY DEF Asking, PastLock
  <2>2. \A t \in Slots : sock'[t].pc \in Asking => t # s  BY <1>4, <1>5, <2>1
  <2>3. \A t \in Slots : sock'[t].pc \in Asking =>
          locks'[Client(t)'] # 0 /\ sock'[t].lock = locks'[Client(t)']
    BY <1>1, <1>5, <2>2 DEF IInv, LockInv
  <2>4. \A t, u \in Slots : t # u /\ sock'[t].pc \in PastLock /\ sock'[u].pc \in PastLock =>
          Client(t)' # Client(u)'
    BY <1>5, <2>1, <2>2 DEF IInv, LockInv
  <2>5. \A t \in Slots : sock'[t].pc \in PastLock => entries'[Client(t)'] = None
    <3> SUFFICES ASSUME NEW t \in Slots, sock'[t].pc \in PastLock PROVE entries'[Client(t)'] = None
      OBVIOUS
    <3>1. t # s /\ sock[t].pc \in PastLock /\ Client(t)' = Client(t)  BY <1>5, <2>1, <2>2
    <3>2. Client(t) \in Clients  BY <3>1, SocketFacts DEF IInv, Types, Client, PastLock
    <3> QED  BY <1>9, <3>1, <3>2 DEF IInv, LockInv
  <2>6. \A d \in Clients : entries'[d] # None => locks'[d] # 0  BY <1>1, <1>9 DEF IInv, LockInv
  <2>7. \A d \in Clients : locks'[d] # 0 => entries'[d] # None \/ \E t \in Slots : Asks(sock', t, d)
    <3> SUFFICES ASSUME NEW d \in Clients, locks'[d] # 0, entries'[d] = None
                 PROVE  \E t \in Slots : Asks(sock', t, d)
      OBVIOUS
    <3>1. d # c /\ entries[d] = None  BY <1>1, <1>9
    <3>2. PICK t \in Slots : Asks(sock, t, d)  BY <1>1, <3>1 DEF IInv, LockInv
    <3>3. t # s  BY <3>1, <3>2 DEF Asks, Client
    <3> QED  BY <1>5, <3>2, <3>3
  <2> QED  BY <2>3, <2>4, <2>5, <2>6, <2>7 DEF LockInv
<1>13. \A t \in Slots : sock[t].pc \in {"build", "evict"} => sock'[t] = sock[t] /\ t # s
  BY <1>2, <1>4, <1>5
<1>14. \A t \in Slots : sock'[t].pc \in {"build", "evict"} => sock'[t] = sock[t] /\ t # s
  BY <1>2, <1>4, <1>5
<1>15. StateInv' /\ OwnInv'
  BY <1>1, <1>9, <1>10, <1>13, <1>14 DEF IInv, StateInv, OwnInv
<1>16. KnownInv'
  <2> SUFFICES ASSUME NEW x \in HubIds, Owned(x) PROVE Owned(x)'
    BY <1>1 DEF IInv, KnownInv
  <2> QED  BY <1>1, <1>2, <1>5, <1>9, <1>10 DEF Owned
<1>17. WithinCap'
  <2>1. In(sock, {"build"})' = In(sock, {"build"})  BY <1>2, <1>4, <1>5 DEF In
  <2>2. {d \in Clients : entries'[d] # None} = {d \in Clients : entries[d] # None}  BY <1>9
  <2> QED  BY <2>1, <2>2 DEF IInv, WithinCap, Live, Pending, In
<1>18. ServeInv'
  <2>1. ASSUME NEW t \in Slots, sock'[t].pc = "serving"
        PROVE  entries'[Client(t)'] # None /\ entries'[Client(t)'].hub = sock'[t].hub
    <3>1. CASE t = s  BY <1>4, <1>5, <1>8, <1>9, <3>1
    <3>2. CASE t # s
      <4>1. sock[t].pc = "serving" /\ Client(t)' = Client(t) /\ sock'[t] = sock[t]
        BY <1>5, <2>1, <3>2
      <4>2. Client(t) \in Clients  BY <4>1, SocketFacts DEF IInv, Types, Client
      <4> QED  BY <1>9, <4>1, <4>2 DEF IInv, ServeInv
    <3> QED  BY <3>1, <3>2
  <2>2. ASSUME NEW d \in Clients, entries'[d] # None
        PROVE  entries'[d].sockets = Cardinality(Serving(d)')
    <3>1. CASE d = c  BY <1>5, <1>8, <1>9, <3>1
    <3>2. CASE d # c
      <4>1. Serving(d)' = Serving(d) /\ entries'[d] = entries[d]  BY <1>6, <1>9, <3>2
      <4> QED  BY <2>2, <4>1 DEF IInv, ServeInv
    <3> QED  BY <3>1, <3>2
  <2> QED  BY <2>1, <2>2 DEF ServeInv
<1>19. TimerInv'
  <2> SUFFICES ASSUME NEW d \in Clients, entries'[d] # None
               PROVE  /\ entries'[d].timer # 0 <=> entries'[d].sockets = 0
                      /\ entries'[d].timer # 0 =>
                           /\ timers'[entries'[d].timer].pc \in {"sleep", "wait"}
                           /\ timers'[entries'[d].timer].client = d
    BY DEF TimerInv
  <2>1. CASE d = c  BY <1>8, <1>9, <2>1
  <2>2. CASE d # c
    <3>1. entries'[d] = entries[d] /\ entries[d] # None  BY <1>9, <2>2
    <3>2. entries[d].timer \in {0} \cup Timers  BY <3>1, EntryFacts DEF IInv, Types
    <3>3. entries[d].timer # 0 => entries[d].timer # e
      BY <1>1, <1>2, <2>2, <3>1 DEF IInv, TimerInv
    <3> QED  BY <1>10, <3>1, <3>2, <3>3 DEF IInv, TimerInv
  <2> QED  BY <2>1, <2>2
<1>20. PanelInv'  BY <1>1, <1>2, <1>4, SamePanels DEF IInv
<1>21. ServerInv'  BY <1>1, <1>2 DEF IInv, ServerInv
<1> QED  BY <1>11, <1>12, <1>15, <1>16, <1>17, <1>18, <1>19, <1>20, <1>21 DEF IInv

\* What an acquire may do to its client's lock and entry, and a release.
LEMMA LockStep ==
    ASSUME IInv, NEW s \in Slots, NEW r \in {NoSocket} \cup Socket, sock[s].pc # "free",
           sock' = [sock EXCEPT ![s] = r], r.pc # "free" => r.panel = sock[s].panel,
           r.pc \in Asking => sock[s].pc \in Asking /\ r.lock = sock[s].lock,
           r.pc \in PastLock =>
             /\ entries'[Client(s)] = None
             /\ \A t \in Slots : t # s /\ sock[t].pc \in PastLock => Client(t) # Client(s),
           \A d \in Clients : entries'[d] # None =>
             \/ entries[d] # None
             \/ /\ d = Client(s) /\ sock[s].pc \in Asking
                /\ \A t \in Slots : t # s /\ sock[t].pc \in PastLock => Client(t) # d,
           \A d \in Clients : \/ locks'[d] = locks[d]
                              \/ entries'[d] = None /\ ~\E t \in Slots : Asks(sock', t, d),
           \A d \in Clients : locks'[d] # 0 => entries'[d] # None \/ \E t \in Slots : Asks(sock', t, d)
    PROVE  LockInv'
<1>1. PastLock \subseteq Asking /\ "free" \notin Asking  BY DEF PastLock, Asking
<1>2. /\ sock'[s] = r
      /\ \A t \in Slots : t # s => sock'[t] = sock[t] /\ Client(t)' = Client(t)
      /\ r.pc # "free" => Client(s)' = Client(s)
  BY SocketMoves DEF IInv
<1>3. ASSUME NEW t \in Slots, sock'[t].pc \in Asking
      PROVE  /\ sock[t].pc \in Asking /\ Client(t)' = Client(t) /\ Client(t) \in Clients
             /\ locks'[Client(t)'] # 0 /\ sock'[t].lock = locks'[Client(t)']
  <2>1. sock[t].pc \in Asking /\ Client(t)' = Client(t) /\ sock'[t].lock = sock[t].lock
    <3>1. CASE t = s  BY <1>1, <1>2, <1>3, <3>1
    <3>2. CASE t # s  BY <1>2, <1>3, <3>2
    <3> QED  BY <3>1, <3>2
  <2>2. Client(t) \in Clients  BY <1>1, <2>1, SocketFacts DEF IInv, Types, Client
  <2>3. locks[Client(t)] # 0 /\ sock[t].lock = locks[Client(t)]  BY <2>1 DEF IInv, LockInv
  <2>4. Asks(sock', t, Client(t))  BY <1>3, <2>1 DEF Asks, Client
  <2>5. locks'[Client(t)] = locks[Client(t)]  BY <2>2, <2>4
  <2> QED  BY <2>1, <2>2, <2>3, <2>5
<1>4. ASSUME NEW t \in Slots, NEW u \in Slots, t # u, sock'[t].pc \in PastLock, sock'[u].pc \in PastLock
      PROVE  Client(t)' # Client(u)'
  <2>1. Client(t)' = Client(t) /\ Client(u)' = Client(u)  BY <1>1, <1>3, <1>4
  <2>2. CASE t = s  BY <1>2, <1>4, <2>1, <2>2
  <2>3. CASE u = s  BY <1>2, <1>4, <2>1, <2>3
  <2>4. CASE t # s /\ u # s  BY <1>2, <1>4, <2>1, <2>4 DEF IInv, LockInv
  <2> QED  BY <2>2, <2>3, <2>4
<1>5. ASSUME NEW t \in Slots, sock'[t].pc \in PastLock
      PROVE  entries'[Client(t)'] = None
  <2>1. Client(t)' = Client(t) /\ Client(t) \in Clients  BY <1>1, <1>3, <1>5
  <2>2. CASE t = s  BY <1>2, <1>5, <2>1, <2>2
  <2>3. CASE t # s
    <3>1. sock[t].pc \in PastLock  BY <1>2, <1>5, <2>3
    <3>2. entries[Client(t)] = None  BY <3>1 DEF IInv, LockInv
    <3> QED  BY <2>1, <2>3, <3>1, <3>2
  <2> QED  BY <2>2, <2>3
<1>6. ASSUME NEW d \in Clients, entries'[d] # None
      PROVE  locks'[d] # 0
  <2>1. locks'[d] = locks[d]  BY <1>6
  <2>2. CASE entries[d] # None  BY <2>1, <2>2 DEF IInv, LockInv
  <2>3. CASE d = Client(s) /\ sock[s].pc \in Asking  BY <2>1, <2>3 DEF IInv, LockInv
  <2> QED  BY <1>6, <2>2, <2>3
<1> QED  BY <1>3, <1>4, <1>5, <1>6 DEF LockInv

\* A socket that has room takes a name no other hub has.
LEMMA ReserveKeeps ==
    ASSUME IInv, NEW s \in Slots,
           (sock[s].pc = "wait" /\ ~Held(sock[s].lock)) \/ sock[s].pc = "room",
           entries[Client(s)] = None, Reserve(s), UNCHANGED <<server, orphans, panel, budgets>>
    PROVE  IInv'
<1> DEFINE o == sock[s]
           c == Client(s)
<1>1. PICK h : h = FreshHub  OBVIOUS
<1> DEFINE r == [o EXCEPT !.pc = "build", !.hub = h]
<1>2. /\ ~Full /\ sock' = [sock EXCEPT ![s] = r] /\ hubs' = [hubs EXCEPT ![h] = "starting"]
      /\ UNCHANGED <<server, entries, locks, orphans, timers, panel, mounts, faults>>
  BY <1>1 DEF Reserve, budgets
<1>3. /\ o \in Socket /\ c \in Clients /\ server # "down" /\ orphans = {} /\ o.pc \in {"wait", "room"}
      /\ \A t \in Slots : t # s /\ sock[t].pc \in PastLock => Client(t) # c
  BY AtTheDoor
<1>4. h \in HubIds /\ hubs[h] = "none"  BY <1>1, <1>2, <1>3, FreshHubIsUnused DEF IInv
<1>5. /\ r \in Socket /\ r.pc = "build" /\ r.panel = o.panel /\ r.lock = o.lock /\ r.hub = h
      /\ r.seen = o.seen /\ r.disposed = o.disposed /\ r.up = o.up
  <2> HIDE DEF o
  <2> QED  BY <1>3, <1>4 DEF Socket, Asking
<1> HIDE DEF r
<1>6. /\ sock' \in [Slots -> {NoSocket} \cup Socket] /\ sock'[s] = r
      /\ \A t \in Slots : t # s => sock'[t] = sock[t] /\ Client(t)' = Client(t)
      /\ Client(s)' = c
      /\ \A t \in Slots : \A d : Asks(sock', t, d) <=> Asks(sock, t, d)
  <2>1. /\ sock' \in [Slots -> {NoSocket} \cup Socket] /\ sock'[s] = r
        /\ \A t \in Slots : t # s => sock'[t] = sock[t] /\ Client(t)' = Client(t)
        /\ r.pc # "free" => Client(s)' = Client(s)
    BY <1>2, <1>5, SocketMoves DEF IInv
  <2>2. \A d : Asks(sock', s, d) <=> Asks(sock, s, d)  BY <1>3, <1>5, <2>1 DEF Asks, Asking
  <2>3. \A t \in Slots : t # s => \A d : Asks(sock', t, d) <=> Asks(sock, t, d)  BY <2>1 DEF Asks
  <2> QED  BY <1>5, <2>1, <2>2, <2>3
<1>7. hubs'[h] = "starting" /\ \A x \in HubIds : x # h => hubs'[x] = hubs[x]
  BY <1>2, <1>4 DEF IInv, Types
<1>8. Types'  BY <1>2, <1>4, <1>6 DEF IInv, Types
<1>9. LockInv'
  <2>1. \A d \in Clients : locks'[d] # 0 => entries'[d] # None \/ \E t \in Slots : Asks(sock', t, d)
    BY <1>2, <1>6 DEF IInv, LockInv
  <2>2. o.pc \in Asking /\ o.pc # "free" /\ r.lock = o.lock  BY <1>3, <1>5 DEF Asking
  <2> QED  BY <1>2, <1>3, <1>5, <2>1, <2>2, LockStep
<1>10. \A x \in HubIds : x = h => ~Owned(x)
  <2>1. \A e \in Timers : timers[e].pc = "stop" => timers[e].hub # h  BY <1>4 DEF IInv, StateInv
  <2>2. \A d \in Clients : entries[d] # None => entries[d].hub # h  BY <1>4 DEF IInv, StateInv
  <2>3. \A t \in Slots : sock[t].pc \in {"build", "evict"} => sock[t].hub # h  BY <1>4 DEF IInv, StateInv
  <2> QED  BY <1>3, <2>1, <2>2, <2>3 DEF Owned
<1>11. \A t \in Slots : t # s => sock'[t] = sock[t]  BY <1>6
<1>12. /\ \A d \in Clients : entries[d] # None => entries[d].hub \in HubIds /\ entries[d].hub # h
       /\ \A t \in Slots : sock[t].pc \in {"build", "evict"} => sock[t].hub \in HubIds /\ sock[t].hub # h
       /\ \A e \in Timers : timers[e].pc = "stop" => timers[e].hub \in HubIds /\ timers[e].hub # h
  <2>1. \A d \in Clients : entries[d] # None => entries[d].hub \in HubIds
    BY EntryFacts DEF IInv, Types
  <2>2. \A t \in Slots : sock[t].pc \in {"build", "evict"} => sock[t].hub \in HubIds  BY DEF IInv, StateInv
  <2>3. \A e \in Timers : timers[e].pc = "stop" => timers[e].hub \in HubIds  BY TimerFacts DEF IInv, Types
  <2> QED  BY <1>4, <1>10, <2>1, <2>2, <2>3 DEF Owned
<1>13. StateInv'
  <2>1. \A t \in Slots : sock'[t].pc = "build" => sock'[t].hub \in HubIds /\ hubs'[sock'[t].hub] = "starting"
    BY <1>4, <1>5, <1>6, <1>7, <1>12 DEF IInv, StateInv
  <2>2. \A t \in Slots : sock'[t].pc = "evict" => sock'[t].hub \in HubIds /\ hubs'[sock'[t].hub] = "stopping"
    BY <1>5, <1>6, <1>7, <1>12 DEF IInv, StateInv
  <2>3. \A d \in Clients : entries'[d] # None => hubs'[entries'[d].hub] = "running"
    BY <1>2, <1>7, <1>12 DEF IInv, StateInv
  <2>4. \A e \in Timers : timers'[e].pc = "stop" => hubs'[timers'[e].hub] = "stopping"
    BY <1>2, <1>7, <1>12 DEF IInv, StateInv
  <2> QED  BY <1>2, <1>3, <2>1, <2>2, <2>3, <2>4 DEF StateInv
<1>14. OwnInv'
  <2>1. \A t, u \in Slots : t # u /\ sock'[t].pc \in {"build", "evict"} /\ sock'[u].pc \in {"build", "evict"} =>
          sock'[t].hub # sock'[u].hub
    BY <1>5, <1>6, <1>12 DEF IInv, OwnInv
  <2>2. \A t \in Slots, e \in Timers : sock'[t].pc = "evict" /\ timers'[e].pc = "stop" =>
          sock'[t].hub # timers'[e].hub
    BY <1>2, <1>5, <1>6 DEF IInv, OwnInv
  <2> QED  BY <1>2, <1>3, <2>1, <2>2 DEF IInv, OwnInv
<1>15. KnownInv'
  <2> SUFFICES ASSUME NEW x \in HubIds, hubs'[x] # "none" PROVE Owned(x)'
    BY DEF KnownInv
  <2>1. CASE x = h  BY <1>5, <1>6, <2>1 DEF Owned
  <2>2. CASE x # h
    <3>1. Owned(x)  BY <1>7, <2>2 DEF IInv, KnownInv
    <3>2. \A t \in Slots : sock[t].pc \in {"build", "evict"} => sock'[t] = sock[t]  BY <1>3, <1>6
    <3> QED  BY <1>2, <3>1, <3>2 DEF Owned
  <2> QED  BY <2>1, <2>2
<1>16. WithinCap'
  <2> DEFINE B == In(sock, {"build"})
  <2>1. B' = B \cup {s} /\ s \notin B  BY <1>3, <1>5, <1>6 DEF In
  <2>2. IsFiniteSet(B)
    <3>1. B \in SUBSET Slots  BY DEF In
    <3> QED  BY <3>1, SubsetBound, ConstantsTyped
  <2>3. Pending' = Pending + 1 /\ Pending \in Nat
    <3>1. Pending = Cardinality(B) /\ Pending' = Cardinality(B')  BY DEF Pending
    <3> HIDE DEF B
    <3> QED  BY <2>1, <2>2, <3>1, OneMore
  <2>4. Live' = Live /\ Live \in Nat
    <3>1. {d \in Clients : entries[d] # None} \in SUBSET Clients  OBVIOUS
    <3> QED  BY <1>2, <3>1, SubsetBound, ConstantsTyped DEF Live
  <2> QED  BY <1>2, <2>3, <2>4, ConstantsTyped DEF Full, WithinCap
<1>17. ServeInv'
  <2>1. \A d : Serving(d)' = Serving(d)  BY <1>2, <1>3, <1>5, SameServing DEF IInv
  <2>2. \A t \in Slots : sock'[t].pc = "serving" =>
          sock[t].pc = "serving" /\ Client(t)' = Client(t) /\ sock'[t].hub = sock[t].hub
    BY <1>5, <1>6
  <2> QED  BY <1>2, <2>1, <2>2 DEF IInv, ServeInv
<1>18. TimerInv'  BY <1>2 DEF IInv, TimerInv
<1>19. PanelInv'  BY <1>2, <1>3, <1>5, SamePanels DEF IInv
<1>20. ServerInv'  BY <1>2, <1>3 DEF IInv, ServerInv
<1> QED  BY <1>8, <1>9, <1>13, <1>14, <1>15, <1>16, <1>17, <1>18, <1>19, <1>20 DEF IInv

\* An idle client's hub passes from its entry to the acquire that stops it.
LEMMA EvictOtherKeeps ==
    ASSUME IInv, NEW s \in Slots,
           (sock[s].pc = "wait" /\ ~Held(sock[s].lock)) \/ sock[s].pc = "room",
           entries[Client(s)] = None, EvictOther(s), UNCHANGED <<server, orphans, panel, budgets>>
    PROVE  IInv'
<1> DEFINE o == sock[s]
           c == Client(s)
<1>1. PICK v \in Idle :
        /\ entries' = [entries EXCEPT ![v] = None]
        /\ hubs' = [hubs EXCEPT ![entries[v].hub] = "stopping"]
        /\ sock' = [sock EXCEPT ![s].pc = "evict", ![s].hub = entries[v].hub]
        /\ locks' = DropLock(locks, entries', sock', v)
        /\ UNCHANGED <<server, orphans, timers, panel, mounts, faults>>
  BY DEF EvictOther, budgets
<1>2. v \in Clients /\ entries[v] # None /\ entries[v].sockets = 0 /\ v # c  BY <1>1 DEF Idle
<1>3. PICK h \in HubIds : h = entries[v].hub  BY <1>2, EntryFacts DEF IInv, Types
<1> DEFINE r == [o EXCEPT !.pc = "evict", !.hub = h]
<1>4. sock' = [sock EXCEPT ![s] = r] /\ hubs' = [hubs EXCEPT ![h] = "stopping"]  BY <1>1, <1>3
<1>5. /\ o \in Socket /\ c \in Clients /\ server # "down" /\ orphans = {} /\ o.pc \in {"wait", "room"}
      /\ \A t \in Slots : t # s /\ sock[t].pc \in PastLock => Client(t) # c
  BY AtTheDoor
<1>6. /\ r \in Socket /\ r.pc = "evict" /\ r.panel = o.panel /\ r.lock = o.lock /\ r.hub = h
      /\ r.seen = o.seen /\ r.disposed = o.disposed /\ r.up = o.up
  <2> HIDE DEF o
  <2> QED  BY <1>5, <1>3 DEF Socket, Asking
<1> HIDE DEF r
<1>7. /\ sock' \in [Slots -> {NoSocket} \cup Socket] /\ sock'[s] = r
      /\ \A t \in Slots : t # s => sock'[t] = sock[t] /\ Client(t)' = Client(t)
      /\ Client(s)' = c
      /\ \A t \in Slots : \A d : Asks(sock', t, d) <=> Asks(sock, t, d)
  <2>1. /\ sock' \in [Slots -> {NoSocket} \cup Socket] /\ sock'[s] = r
        /\ \A t \in Slots : t # s => sock'[t] = sock[t] /\ Client(t)' = Client(t)
        /\ r.pc # "free" => Client(s)' = Client(s)
    BY <1>4, <1>6, SocketMoves DEF IInv
  <2>2. \A d : Asks(sock', s, d) <=> Asks(sock, s, d)  BY <1>5, <1>6, <2>1 DEF Asks, Asking
  <2>3. \A t \in Slots : t # s => \A d : Asks(sock', t, d) <=> Asks(sock, t, d)  BY <2>1 DEF Asks
  <2> QED  BY <1>6, <2>1, <2>2, <2>3
<1>8. /\ entries' \in [Clients -> {None} \cup Entry] /\ entries'[v] = None
      /\ \A d \in Clients : d # v => entries'[d] = entries[d]
  BY <1>1, <1>2 DEF IInv, Types
<1>9. /\ locks' \in [Clients -> {0} \cup Locks]
      /\ \A d \in Clients : d # v => locks'[d] = locks[d]
      /\ (\E t \in Slots : Asks(sock', t, v)) => locks'[v] = locks[v]
      /\ locks'[v] # 0 => \E t \in Slots : Asks(sock', t, v)
  <2>1. locks \in [Clients -> {0} \cup Locks]  BY DEF IInv, Types
  <2>2. locks' = DropLock(locks, entries', sock', v)  BY <1>1
  <2> QED  BY <1>2, <1>7, <1>8, <2>1, <2>2, DropLockFacts
<1>10. hubs'[h] = "stopping" /\ \A x \in HubIds : x # h => hubs'[x] = hubs[x]
  BY <1>3, <1>4 DEF IInv, Types
<1>11. Types'  BY <1>1, <1>4, <1>7, <1>8, <1>9 DEF IInv, Types
<1>12. LockInv'
  <2>1. \A d \in Clients : locks'[d] # 0 => entries'[d] # None \/ \E t \in Slots : Asks(sock', t, d)
    BY <1>7, <1>8, <1>9 DEF IInv, LockInv
  <2>2. o.pc \in Asking /\ o.pc # "free" /\ r.lock = o.lock  BY <1>5, <1>6 DEF Asking
  <2>3. \A d \in Clients : \/ locks'[d] = locks[d]
                           \/ entries'[d] = None /\ ~\E t \in Slots : Asks(sock', t, d)
    BY <1>8, <1>9
  <2>4. entries'[c] = None /\ \A d \in Clients : entries'[d] # None => entries[d] # None
    BY <1>2, <1>5, <1>8
  <2> QED  BY <1>4, <1>5, <1>6, <2>1, <2>2, <2>3, <2>4, LockStep
<1>13. /\ \A d \in Clients : d # v /\ entries[d] # None => entries[d].hub \in HubIds /\ entries[d].hub # h
       /\ \A t \in Slots : sock[t].pc \in {"build", "evict"} => sock[t].hub \in HubIds /\ sock[t].hub # h
       /\ \A e \in Timers : timers[e].pc = "stop" => timers[e].hub \in HubIds /\ timers[e].hub # h
  <2>1. \A d \in Clients : d # v /\ entries[d] # None => entries[d].hub \in HubIds /\ entries[d].hub # h
    BY <1>2, <1>3, EntryFacts DEF IInv, Types, OwnInv
  <2>2. hubs[h] = "running"  BY <1>2, <1>3 DEF IInv, StateInv
  <2>3. \A t \in Slots : sock[t].pc \in {"build", "evict"} => sock[t].hub \in HubIds /\ sock[t].hub # h
    BY <2>2 DEF IInv, StateInv
  <2>4. \A e \in Timers : timers[e].pc = "stop" => timers[e].hub \in HubIds /\ timers[e].hub # h
    BY <2>2, TimerFacts DEF IInv, Types, StateInv
  <2> QED  BY <2>1, <2>3, <2>4
<1>14. StateInv'
  <2>1. \A t \in Slots : sock'[t].pc = "build" => sock'[t].hub \in HubIds /\ hubs'[sock'[t].hub] = "starting"
    BY <1>6, <1>7, <1>10, <1>13 DEF IInv, StateInv
  <2>2. \A t \in Slots : sock'[t].pc = "evict" => sock'[t].hub \in HubIds /\ hubs'[sock'[t].hub] = "stopping"
    BY <1>3, <1>6, <1>7, <1>10, <1>13 DEF IInv, StateInv
  <2>3. \A d \in Clients : entries'[d] # None => hubs'[entries'[d].hub] = "running"
    BY <1>8, <1>10, <1>13 DEF IInv, StateInv
  <2>4. \A e \in Timers : timers'[e].pc = "stop" => hubs'[timers'[e].hub] = "stopping"
    BY <1>1, <1>10, <1>13 DEF IInv, StateInv
  <2> QED  BY <1>1, <1>5, <2>1, <2>2, <2>3, <2>4 DEF StateInv
<1>15. OwnInv'
  <2>1. \A t, u \in Slots : t # u /\ sock'[t].pc \in {"build", "evict"} /\ sock'[u].pc \in {"build", "evict"} =>
          sock'[t].hub # sock'[u].hub
    BY <1>6, <1>7, <1>13 DEF IInv, OwnInv
  <2>2. ASSUME NEW t \in Slots, NEW e \in Timers, sock'[t].pc = "evict", timers'[e].pc = "stop"
        PROVE  sock'[t].hub # timers'[e].hub
    <3>1. timers'[e] = timers[e]  BY <1>1
    <3>2. CASE t = s  BY <1>6, <1>7, <1>13, <2>2, <3>1, <3>2
    <3>3. CASE t # s
      <4>1. sock'[t] = sock[t]  BY <1>7, <3>3
      <4> QED  BY <2>2, <3>1, <4>1 DEF IInv, OwnInv
    <3> QED  BY <3>2, <3>3
  <2>3. \A a, d \in Clients : a # d /\ entries'[a] # None /\ entries'[d] # None =>
          entries'[a].hub # entries'[d].hub
    BY <1>8 DEF IInv, OwnInv
  <2> QED  BY <1>1, <1>5, <2>1, <2>2, <2>3 DEF IInv, OwnInv
<1>16. KnownInv'
  <2> SUFFICES ASSUME NEW x \in HubIds, hubs'[x] # "none" PROVE Owned(x)'
    BY DEF KnownInv
  <2>1. CASE x = h  BY <1>6, <1>7, <2>1 DEF Owned
  <2>2. CASE x # h
    <3>1. Owned(x)  BY <1>10, <2>2 DEF IInv, KnownInv
    <3>2. \A t \in Slots : sock[t].pc \in {"build", "evict"} => sock'[t] = sock[t]  BY <1>5, <1>7
    <3>3. \A d \in Clients : entries[d] # None /\ entries[d].hub = x =>
            entries'[d] # None /\ entries'[d].hub = x
      BY <1>3, <1>8, <2>2
    <3> QED  BY <1>1, <3>1, <3>2, <3>3 DEF Owned
  <2> QED  BY <2>1, <2>2
<1>17. WithinCap'
  <2>1. In(sock, {"build"})' = In(sock, {"build"})  BY <1>5, <1>6, <1>7 DEF In
  <2>2. Pending' = Pending /\ Pending \in Nat
    <3>1. In(sock, {"build"}) \in SUBSET Slots  BY DEF In
    <3> QED  BY <2>1, <3>1, SubsetBound, ConstantsTyped DEF Pending
  <2>3. Live' <= Live /\ Live' \in Nat /\ Live \in Nat
    <3> DEFINE A == {d \in Clients : entries[d] # None}
    <3>1. A \in SUBSET Clients  OBVIOUS
    <3>2. A' \in SUBSET A  BY <1>8
    <3>3. IsFiniteSet(A)  BY <3>1, SubsetBound, ConstantsTyped
    <3>4. Live = Cardinality(A) /\ Live' = Cardinality(A')  BY DEF Live
    <3> HIDE DEF A
    <3> QED  BY <3>2, <3>3, <3>4, SubsetBound
  <2>4. Live + Pending <= Cap /\ Cap \in Nat  BY ConstantsTyped DEF IInv, WithinCap
  <2>5. Pending' \in Nat /\ Pending' <= Pending  BY <2>2
  <2>6. Live' + Pending' <= Cap  BY <2>2, <2>3, <2>4, <2>5, FewerFit
  <2> QED  BY <2>6 DEF WithinCap
<1>18. ServeInv'
  <2>1. \A d : Serving(d)' = Serving(d)  BY <1>4, <1>5, <1>6, SameServing DEF IInv
  <2>2. Serving(v) = {}
    <3>1. Cardinality(Serving(v)) = 0  BY <1>2 DEF IInv, ServeInv
    <3>2. IsFiniteSet(Serving(v))  BY ServingFacts
    <3> QED  BY <3>1, <3>2, FS_EmptySet
  <2>3. ASSUME NEW t \in Slots, sock'[t].pc = "serving"
        PROVE  /\ sock[t].pc = "serving" /\ Client(t)' = Client(t) /\ sock'[t].hub = sock[t].hub
               /\ Client(t) \in Clients /\ Client(t) # v
    <3>1. sock[t].pc = "serving" /\ Client(t)' = Client(t) /\ sock'[t].hub = sock[t].hub
      BY <1>6, <1>7, <2>3
    <3>2. Client(t) # v  BY <2>2, <3>1 DEF Serving
    <3>3. Client(t) \in Clients  BY <3>1, SocketFacts DEF IInv, Types, Client
    <3> QED  BY <3>1, <3>2, <3>3
  <2>4. \A t \in Slots : sock'[t].pc = "serving" =>
          entries'[Client(t)'] # None /\ entries'[Client(t)'].hub = sock'[t].hub
    BY <1>8, <2>3 DEF IInv, ServeInv
  <2>5. \A d \in Clients : entries'[d] # None => entries'[d].sockets = Cardinality(Serving(d)')
    BY <1>8, <2>1 DEF IInv, ServeInv
  <2> QED  BY <2>4, <2>5 DEF ServeInv
<1>19. TimerInv'  BY <1>1, <1>8 DEF IInv, TimerInv
<1>20. PanelInv'  BY <1>1, <1>4, <1>5, <1>6, SamePanels DEF IInv
<1>21. ServerInv'  BY <1>1, <1>5 DEF IInv, ServerInv
<1> QED  BY <1>11, <1>12, <1>14, <1>15, <1>16, <1>17, <1>18, <1>19, <1>20, <1>21 DEF IInv

\* A hub that was started or stopped by an acquire is gone, and nobody else had it.
LEMMA HubGone ==
    ASSUME IInv, NEW s \in Slots, NEW r \in {NoSocket} \cup Socket, sock' = [sock EXCEPT ![s] = r],
           sock[s].pc \in {"build", "evict"}, r.pc \notin {"build", "evict"},
           hubs' = [hubs EXCEPT ![sock[s].hub] = "none"], UNCHANGED <<entries, orphans, timers>>
    PROVE  /\ StateInv' /\ OwnInv' /\ KnownInv'
           /\ hubs' \in [HubIds -> {"none", "starting", "running", "stopping"}]
<1>1. PICK h \in HubIds : h = sock[s].hub  BY DEF IInv, StateInv
<1>2. /\ hubs' \in [HubIds -> {"none", "starting", "running", "stopping"}]
      /\ hubs'[h] = "none" /\ \A x \in HubIds : x # h => hubs'[x] = hubs[x]
  BY <1>1 DEF IInv, Types
<1>3. sock'[s] = r /\ \A t \in Slots : t # s => sock'[t] = sock[t]  BY DEF IInv, Types
<1>4. server # "down" /\ orphans = {}  BY DEF IInv, ServerInv
<1>5. /\ \A d \in Clients : entries[d] # None => entries[d].hub \in HubIds /\ entries[d].hub # h
      /\ \A t \in Slots : t # s /\ sock[t].pc \in {"build", "evict"} => sock[t].hub \in HubIds /\ sock[t].hub # h
      /\ \A e \in Timers : timers[e].pc = "stop" => timers[e].hub \in HubIds /\ timers[e].hub # h
  <2>1. sock[s].pc = "build" => hubs[h] = "starting"  BY <1>1 DEF IInv, StateInv
  <2>2. sock[s].pc = "evict" => hubs[h] = "stopping"  BY <1>1 DEF IInv, StateInv
  <2>3. \A d \in Clients : entries[d] # None => entries[d].hub \in HubIds /\ entries[d].hub # h
    BY <2>1, <2>2, EntryFacts DEF IInv, Types, StateInv
  <2>4. \A t \in Slots : t # s /\ sock[t].pc \in {"build", "evict"} => sock[t].hub \in HubIds /\ sock[t].hub # h
    BY <1>1 DEF IInv, StateInv, OwnInv
  <2>5. ASSUME NEW e \in Timers, timers[e].pc = "stop" PROVE timers[e].hub \in HubIds /\ timers[e].hub # h
    <3>1. timers[e].hub \in HubIds  BY <2>5, TimerFacts DEF IInv, Types
    <3>2. hubs[timers[e].hub] = "stopping"  BY <2>5 DEF IInv, StateInv
    <3>3. CASE sock[s].pc = "build"  BY <2>1, <3>1, <3>2, <3>3
    <3>4. CASE sock[s].pc = "evict"  BY <1>1, <2>5, <3>1, <3>4 DEF IInv, OwnInv
    <3> QED  BY <3>3, <3>4
  <2> QED  BY <2>3, <2>4, <2>5
<1>6. \A t \in Slots : sock'[t].pc \in {"build", "evict"} => t # s /\ sock'[t] = sock[t]  BY <1>3
<1>7. StateInv'  BY <1>2, <1>4, <1>5, <1>6 DEF IInv, StateInv
<1>8. OwnInv'  BY <1>4, <1>6 DEF IInv, OwnInv
<1>9. KnownInv'
  <2> SUFFICES ASSUME NEW x \in HubIds, hubs'[x] # "none" PROVE Owned(x)'
    BY DEF KnownInv
  <2>1. x # h /\ Owned(x)  BY <1>2 DEF IInv, KnownInv
  <2>2. \A t \in Slots : sock[t].pc \in {"build", "evict"} /\ sock[t].hub = x => sock'[t] = sock[t]
    BY <1>1, <1>3, <2>1
  <2> QED  BY <2>1, <2>2 DEF Owned
<1> QED  BY <1>2, <1>7, <1>8, <1>9

\* No hub passes from one to another.
LEMMA SameHubs ==
    ASSUME IInv, NEW s \in Slots, NEW r \in {NoSocket} \cup Socket, sock' = [sock EXCEPT ![s] = r],
           sock[s].pc \notin {"build", "evict"}, r.pc \notin {"build", "evict"},
           \A d \in Clients : (entries'[d] # None <=> entries[d] # None)
                              /\ (entries[d] # None => entries'[d].hub = entries[d].hub),
           \A e \in Timers : (timers'[e].pc = "stop" <=> timers[e].pc = "stop")
                             /\ (timers[e].pc = "stop" => timers'[e].hub = timers[e].hub),
           UNCHANGED <<hubs, orphans>>
    PROVE  StateInv' /\ OwnInv' /\ KnownInv'
<1>1. sock'[s] = r /\ \A t \in Slots : t # s => sock'[t] = sock[t]  BY DEF IInv, Types
<1>2. \A t \in Slots : sock'[t].pc \in {"build", "evict"} => sock'[t] = sock[t] /\ t # s  BY <1>1
<1>3. \A t \in Slots : sock[t].pc \in {"build", "evict"} => sock'[t] = sock[t] /\ t # s  BY <1>1
<1>4. StateInv'  BY <1>2 DEF IInv, StateInv
<1>5. OwnInv'  BY <1>2 DEF IInv, OwnInv
<1>6. KnownInv'
  <2> SUFFICES ASSUME NEW x \in HubIds, Owned(x) PROVE Owned(x)'
    BY DEF IInv, KnownInv
  <2> QED  BY <1>3 DEF Owned
<1> QED  BY <1>4, <1>5, <1>6

\* An acquire that ends without a hub drops the lock if it was the last.
LEMMA FailKeeps ==
    ASSUME IInv, NEW s \in Slots, sock[s].pc \in {"wait", "room", "build"}, entries[Client(s)] = None,
           NEW code \in Nat, Fail(s, code), faults' \in 0..MaxFaults,
           hubs' = IF sock[s].pc = "build" THEN [hubs EXCEPT ![sock[s].hub] = "none"] ELSE hubs,
           UNCHANGED <<server, entries, orphans, timers, panel, mounts>>
    PROVE  IInv'
<1> DEFINE o == sock[s]
           q == [o EXCEPT !.pc = "ended", !.lock = 0, !.hub = 0, !.code = code]
           r == Settled(q)
<1>1. PICK c \in Clients : c = Client(s)
  BY SocketFacts DEF IInv, Types, Client
<1>2. sock' = [sock EXCEPT ![s] = r] /\ locks' = DropLock(locks, entries, sock', c)
  BY <1>1 DEF Fail
<1>3. o \in Socket  BY SocketFacts DEF IInv, Types
<1>4. /\ q \in Socket /\ q.pc = "ended" /\ q.panel = o.panel /\ q.seen = o.seen
      /\ q.disposed = o.disposed /\ q.up = o.up
  <2> HIDE DEF o
  <2> QED  BY <1>3 DEF Socket
<1> HIDE DEF q
<1>5. /\ r \in {NoSocket} \cup Socket /\ r.pc \in {"free", "ended"} /\ (r.pc # "free" => r = q)
  BY <1>4, SettledFacts
<1> HIDE DEF r
<1>6. "free" \notin Asking /\ "ended" \notin Asking /\ PastLock \subseteq Asking /\ o.pc \in Asking
  BY DEF Asking, PastLock
<1>7. /\ sock' \in [Slots -> {NoSocket} \cup Socket] /\ sock'[s] = r
      /\ \A t \in Slots : t # s => sock'[t] = sock[t] /\ Client(t)' = Client(t)
      /\ \A t \in Slots : t # s => \A d : Asks(sock', t, d) <=> Asks(sock, t, d)
  BY <1>2, <1>4, <1>5, SocketMoves DEF IInv
<1>8. /\ locks' \in [Clients -> {0} \cup Locks]
      /\ \A d \in Clients : d # c => locks'[d] = locks[d]
      /\ entries[c] # None \/ (\E t \in Slots : Asks(sock', t, c)) => locks'[c] = locks[c]
      /\ locks'[c] # 0 => (entries[c] # None \/ \E t \in Slots : Asks(sock', t, c))
  <2>1. locks \in [Clients -> {0} \cup Locks]  BY DEF IInv, Types
  <2>2. locks' = DropLock(locks, entries, sock', c)  BY <1>2
  <2>3. sock' \in [Slots -> {NoSocket} \cup Socket]  BY <1>7
  <2> QED  BY <2>1, <2>2, <2>3, DropLockFacts
<1>9. StateInv' /\ OwnInv' /\ KnownInv'
      /\ hubs' \in [HubIds -> {"none", "starting", "running", "stopping"}]
  <2>1. r.pc \notin {"build", "evict"}  BY <1>5
  <2>2. CASE o.pc = "build"  BY <1>2, <1>5, <2>1, <2>2, HubGone
  <2>3. CASE o.pc # "build"
    <3>1. sock[s].pc \notin {"build", "evict"} /\ UNCHANGED <<hubs, orphans>>  BY <2>3
    <3>2. \A e \in Timers : (timers'[e].pc = "stop" <=> timers[e].pc = "stop")
                            /\ (timers[e].pc = "stop" => timers'[e].hub = timers[e].hub)
      OBVIOUS
    <3>3. \A d \in Clients : (entries'[d] # None <=> entries[d] # None)
                             /\ (entries[d] # None => entries'[d].hub = entries[d].hub)
      OBVIOUS
    <3>4. StateInv' /\ OwnInv' /\ KnownInv'  BY <1>2, <1>5, <2>1, <3>1, <3>2, <3>3, SameHubs
    <3> QED  BY <2>3, <3>4 DEF IInv, Types
  <2> QED  BY <2>2, <2>3
<1>10. Types'  BY <1>7, <1>8, <1>9 DEF IInv, Types
<1>11. LockInv'
  <2>1. ASSUME NEW d \in Clients
        PROVE  /\ \/ locks'[d] = locks[d]
                  \/ entries'[d] = None /\ ~\E t \in Slots : Asks(sock', t, d)
               /\ locks'[d] # 0 => entries'[d] # None \/ \E t \in Slots : Asks(sock', t, d)
    <3>1. CASE d = c  BY <1>8, <3>1
    <3>2. CASE d # c
      <4>1. locks'[d] = locks[d]  BY <1>8, <3>2
      <4>2. ~Asks(sock, s, d)  BY <1>1, <3>2 DEF Asks, Client
      <4>3. locks[d] # 0 => entries[d] # None \/ \E t \in Slots : Asks(sock, t, d)  BY DEF IInv, LockInv
      <4>4. \A t \in Slots : Asks(sock, t, d) => Asks(sock', t, d)  BY <1>7, <4>2
      <4> QED  BY <4>1, <4>3, <4>4
    <3> QED  BY <3>1, <3>2
  <2>2. \A d \in Clients : entries'[d] # None => entries[d] # None  OBVIOUS
  <2>3. r.pc \notin Asking /\ r.pc \notin PastLock /\ o.pc # "free"  BY <1>5, <1>6
  <2>4. r.pc # "free" => r.panel = sock[s].panel  BY <1>4, <1>5
  <2> QED  BY <1>2, <1>5, <2>1, <2>2, <2>3, <2>4, LockStep
<1>12. WithinCap'
  <2> DEFINE B == In(sock, {"build"})
  <2>1. B \in SUBSET Slots /\ B' \in SUBSET B  BY <1>5, <1>7 DEF In
  <2>2. IsFiniteSet(B)  BY <2>1, SubsetBound, ConstantsTyped
  <2>3. Pending = Cardinality(B) /\ Pending' = Cardinality(B')  BY DEF Pending
  <2> HIDE DEF B
  <2>4. Pending \in Nat /\ Pending' \in Nat /\ Pending' <= Pending  BY <2>1, <2>2, <2>3, SubsetBound
  <2>5. Live' = Live /\ Live \in Nat /\ Live' \in Nat /\ Live' <= Live
    <3>1. {d \in Clients : entries[d] # None} \in SUBSET Clients  OBVIOUS
    <3> QED  BY <3>1, SubsetBound, ConstantsTyped DEF Live
  <2>6. Live + Pending <= Cap /\ Cap \in Nat  BY ConstantsTyped DEF IInv, WithinCap
  <2>7. Live' + Pending' <= Cap  BY <2>4, <2>5, <2>6, FewerFit
  <2> QED  BY <2>7 DEF WithinCap
<1>13. ServeInv'
  <2>1. \A d : Serving(d)' = Serving(d)  BY <1>2, <1>5, SameServing DEF IInv
  <2>2. \A t \in Slots : sock'[t].pc = "serving" => t # s /\ sock[t].pc = "serving"  BY <1>5, <1>7
  <2> QED  BY <1>7, <2>1, <2>2 DEF IInv, ServeInv
<1>14. TimerInv'  BY DEF IInv, TimerInv
<1>15. PanelInv'  BY <1>2, <1>4, <1>5, SamePanels DEF IInv
<1>16. ServerInv'  BY DEF IInv, ServerInv
<1> QED  BY <1>9, <1>10, <1>11, <1>12, <1>13, <1>14, <1>15, <1>16 DEF IInv

LEMMA RefuseKeeps ==
    ASSUME IInv, NEW s \in Slots, sock[s].pc \in {"wait", "room"}, entries[Client(s)] = None, Refuse(s),
           UNCHANGED <<server, orphans, panel, budgets>>
    PROVE  IInv'
<1>1. Fail(s, 1013) /\ UNCHANGED <<server, entries, orphans, timers, panel, mounts, faults, hubs>>
  BY DEF Refuse, budgets
<1>2. faults' \in 0..MaxFaults  BY <1>1 DEF IInv, Types
<1> QED  BY <1>1, <1>2, FailKeeps

LEMMA BuildFailsKeeps ==
    ASSUME IInv, NEW s \in Slots, BuildFails(s)
    PROVE  IInv'
<1>1. /\ sock[s].pc = "build" /\ faults < MaxFaults /\ faults' = faults + 1 /\ Fail(s, 1011)
      /\ hubs' = [hubs EXCEPT ![sock[s].hub] = "none"]
      /\ UNCHANGED <<server, entries, orphans, timers, panel, mounts>>
  BY DEF BuildFails
<1>2. faults' \in 0..MaxFaults  BY <1>1, ConstantsTyped DEF IInv, Types
<1>3. entries[Client(s)] = None  BY <1>1 DEF IInv, LockInv, PastLock
<1>4. hubs' = IF sock[s].pc = "build" THEN [hubs EXCEPT ![sock[s].hub] = "none"] ELSE hubs
  BY <1>1
<1>5. sock[s].pc \in {"wait", "room", "build"} /\ 1011 \in Nat  BY <1>1
<1>6. Fail(s, 1011) /\ UNCHANGED <<server, entries, orphans, timers, panel, mounts>>  BY <1>1
<1> QED  BY <1>2, <1>3, <1>4, <1>5, <1>6, FailKeeps

\* Whoever made room by stopping a hub looks again.
LEMMA EvictedKeeps ==
    ASSUME IInv, NEW s \in Slots, Evicted(s)
    PROVE  IInv'
<1> DEFINE o == sock[s]
           r == [o EXCEPT !.pc = "room", !.hub = 0]
<1>1. /\ o.pc = "evict" /\ sock' = [sock EXCEPT ![s] = r] /\ hubs' = [hubs EXCEPT ![sock[s].hub] = "none"]
      /\ UNCHANGED <<server, entries, locks, orphans, timers, panel, mounts, faults>>
  BY DEF Evicted, budgets
<1>2. o \in Socket  BY <1>1, SocketFacts DEF IInv, Types
<1>3. /\ r \in Socket /\ r.pc = "room" /\ r.panel = o.panel /\ r.lock = o.lock /\ r.seen = o.seen
      /\ r.disposed = o.disposed /\ r.up = o.up
  <2> HIDE DEF o
  <2> QED  BY <1>2 DEF Socket, Asking
<1> HIDE DEF r
<1>4. /\ sock' \in [Slots -> {NoSocket} \cup Socket] /\ sock'[s] = r
      /\ \A t \in Slots : t # s => sock'[t] = sock[t] /\ Client(t)' = Client(t)
      /\ \A t \in Slots : \A d : Asks(sock', t, d) <=> Asks(sock, t, d)
  <2>1. /\ sock' \in [Slots -> {NoSocket} \cup Socket] /\ sock'[s] = r
        /\ \A t \in Slots : t # s => sock'[t] = sock[t] /\ Client(t)' = Client(t)
    BY <1>1, <1>3, SocketMoves DEF IInv
  <2>2. \A d : Asks(sock', s, d) <=> Asks(sock, s, d)  BY <1>1, <1>3, <2>1 DEF Asks, Asking
  <2>3. \A t \in Slots : t # s => \A d : Asks(sock', t, d) <=> Asks(sock, t, d)  BY <2>1 DEF Asks
  <2> QED  BY <2>1, <2>2, <2>3
<1>5. StateInv' /\ OwnInv' /\ KnownInv'
      /\ hubs' \in [HubIds -> {"none", "starting", "running", "stopping"}]
  BY <1>1, <1>3, HubGone
<1>6. Types'  BY <1>1, <1>4, <1>5 DEF IInv, Types
<1>7. LockInv'
  <2>1. entries'[Client(s)] = None /\ \A t \in Slots : t # s /\ sock[t].pc \in PastLock => Client(t) # Client(s)
    BY <1>1 DEF IInv, LockInv, PastLock
  <2>2. \A d \in Clients : locks'[d] # 0 => entries'[d] # None \/ \E t \in Slots : Asks(sock', t, d)
    BY <1>1, <1>4 DEF IInv, LockInv
  <2>3. o.pc \in Asking /\ o.pc # "free" /\ r.lock = o.lock  BY <1>1, <1>3 DEF Asking
  <2> QED  BY <1>1, <1>3, <2>1, <2>2, <2>3, LockStep
<1>8. WithinCap'
  <2>1. In(sock, {"build"})' = In(sock, {"build"})  BY <1>1, <1>3, <1>4 DEF In
  <2> QED  BY <1>1, <2>1 DEF IInv, WithinCap, Live, Pending, In
<1>9. ServeInv'
  <2>1. \A d : Serving(d)' = Serving(d)  BY <1>1, <1>3, SameServing DEF IInv
  <2>2. \A t \in Slots : sock'[t].pc = "serving" => t # s /\ sock[t].pc = "serving"  BY <1>3, <1>4
  <2> QED  BY <1>1, <1>4, <2>1, <2>2 DEF IInv, ServeInv
<1>10. TimerInv'  BY <1>1 DEF IInv, TimerInv
<1>11. PanelInv'  BY <1>1, <1>3, SamePanels DEF IInv
<1>12. ServerInv'  BY <1>1 DEF IInv, ServerInv
<1> QED  BY <1>5, <1>6, <1>7, <1>8, <1>9, <1>10, <1>11, <1>12 DEF IInv

\* A hub that has started is entered; it counted as one that starts before.
LEMMA BuiltKeeps ==
    ASSUME IInv, NEW s \in Slots, Built(s)
    PROVE  IInv'
<1> DEFINE o == sock[s]
           r == [o EXCEPT !.pc = "serving", !.lock = 0]
<1>1. /\ o.pc = "build" /\ sock' = [sock EXCEPT ![s] = r] /\ hubs' = [hubs EXCEPT ![o.hub] = "running"]
      /\ entries' = [entries EXCEPT ![Client(s)] = [hub |-> o.hub, sockets |-> 1, timer |-> 0]]
      /\ UNCHANGED <<server, locks, orphans, timers, panel, mounts, faults>>
  BY DEF Built, budgets
<1>2. PICK c \in Clients : c = Client(s)  BY <1>1, SocketFacts DEF IInv, Types, Client
<1>3. PICK h \in HubIds : h = o.hub  BY <1>1 DEF IInv, StateInv
<1> DEFINE en == [hub |-> h, sockets |-> 1, timer |-> 0]
<1>4. /\ o \in Socket /\ server # "down" /\ orphans = {} /\ entries[c] = None /\ hubs[h] = "starting"
      /\ \A t \in Slots : t # s /\ sock[t].pc \in PastLock => Client(t) # c
  BY <1>1, <1>2, <1>3, SocketFacts DEF IInv, Types, ServerInv, LockInv, StateInv, PastLock
<1>5. /\ r \in Socket /\ r.pc = "serving" /\ r.panel = o.panel /\ r.hub = h
      /\ r.seen = o.seen /\ r.disposed = o.disposed /\ r.up = o.up
  <2>1. o.hub = h  BY <1>3
  <2> HIDE DEF o
  <2>2. 0 \in {0} \cup Locks  OBVIOUS
  <2> QED  BY <1>4, <2>1, <2>2 DEF Socket
<1>6. /\ en \in Entry /\ en.hub = h /\ en.sockets = 1 /\ en.timer = 0 /\ en # None
  <2>1. en \in Entry  BY <1>3, ConstantsTyped, RegistryAssumption DEF Entry
  <2>2. en # None  BY DEF None
  <2> QED  BY <2>1, <2>2
<1> HIDE DEF r, en
<1>7. /\ sock' \in [Slots -> {NoSocket} \cup Socket] /\ sock'[s] = r
      /\ \A t \in Slots : t # s => sock'[t] = sock[t] /\ Client(t)' = Client(t)
      /\ Client(s)' = c
      /\ \A t \in Slots : t # s => \A d : Asks(sock', t, d) <=> Asks(sock, t, d)
  <2>1. r.pc # "free" /\ r \in {NoSocket} \cup Socket  BY <1>5
  <2>2. /\ sock' \in [Slots -> {NoSocket} \cup Socket] /\ sock'[s] = r
        /\ \A t \in Slots : t # s => sock'[t] = sock[t] /\ Client(t)' = Client(t)
        /\ r.pc # "free" => Client(s)' = Client(s)
        /\ \A t \in Slots : t # s => \A d : Asks(sock', t, d) <=> Asks(sock, t, d)
    BY <1>1, <1>5, <2>1, SocketMoves DEF IInv
  <2> QED  BY <1>2, <2>1, <2>2
<1>8. /\ entries' \in [Clients -> {None} \cup Entry] /\ entries'[c] = en
      /\ \A d \in Clients : d # c => entries'[d] = entries[d]
  <2>1. entries' = [entries EXCEPT ![c] = en]  BY <1>1, <1>2, <1>3 DEF en
  <2> QED  BY <1>6, <2>1 DEF IInv, Types
<1>9. /\ hubs' \in [HubIds -> {"none", "starting", "running", "stopping"}]
      /\ hubs'[h] = "running" /\ \A x \in HubIds : x # h => hubs'[x] = hubs[x]
  BY <1>1, <1>3 DEF IInv, Types
<1>10. Types'  BY <1>1, <1>7, <1>8, <1>9 DEF IInv, Types
<1>11. LockInv'
  <2>1. ASSUME NEW d \in Clients
        PROVE  /\ locks'[d] = locks[d]
               /\ locks'[d] # 0 => entries'[d] # None \/ \E t \in Slots : Asks(sock', t, d)
               /\ entries'[d] # None => entries[d] # None \/ d = Client(s)
    <3>1. CASE d = c  BY <1>1, <1>2, <1>6, <1>8, <3>1
    <3>2. CASE d # c
      <4>1. locks'[d] = locks[d] /\ entries'[d] = entries[d]  BY <1>1, <1>8, <3>2
      <4>2. ~Asks(sock, s, d)  BY <1>2, <3>2 DEF Asks, Client
      <4>3. locks[d] # 0 => entries[d] # None \/ \E t \in Slots : Asks(sock, t, d)  BY DEF IInv, LockInv
      <4>4. \A t \in Slots : Asks(sock, t, d) => Asks(sock', t, d)  BY <1>7, <4>2
      <4> QED  BY <4>1, <4>3, <4>4
    <3> QED  BY <3>1, <3>2
  <2>2. r.pc \notin Asking /\ r.pc \notin PastLock /\ o.pc # "free" /\ o.pc \in Asking
    BY <1>1, <1>5 DEF Asking, PastLock
  <2>3. \A d \in Clients : entries'[d] # None =>
          \/ entries[d] # None
          \/ /\ d = Client(s) /\ sock[s].pc \in Asking
             /\ \A t \in Slots : t # s /\ sock[t].pc \in PastLock => Client(t) # d
    BY <1>2, <1>4, <2>1, <2>2
  <2>4. /\ \A d \in Clients : \/ locks'[d] = locks[d]
                              \/ entries'[d] = None /\ ~\E t \in Slots : Asks(sock', t, d)
        /\ \A d \in Clients : locks'[d] # 0 => entries'[d] # None \/ \E t \in Slots : Asks(sock', t, d)
    BY <2>1
  <2>5. r \in {NoSocket} \cup Socket /\ r.panel = sock[s].panel  BY <1>5
  <2> QED  BY <1>1, <2>2, <2>3, <2>4, <2>5, LockStep
<1>12. /\ \A d \in Clients : entries[d] # None => entries[d].hub \in HubIds /\ entries[d].hub # h
       /\ \A t \in Slots : t # s /\ sock[t].pc \in {"build", "evict"} => sock[t].hub \in HubIds /\ sock[t].hub # h
       /\ \A e \in Timers : timers[e].pc = "stop" => timers[e].hub \in HubIds /\ timers[e].hub # h
  <2>1. \A d \in Clients : entries[d] # None => entries[d].hub \in HubIds /\ entries[d].hub # h
    BY <1>4, EntryFacts DEF IInv, Types, StateInv
  <2>2. \A t \in Slots : t # s /\ sock[t].pc \in {"build", "evict"} => sock[t].hub \in HubIds /\ sock[t].hub # h
    BY <1>1, <1>3 DEF IInv, StateInv, OwnInv
  <2>3. \A e \in Timers : timers[e].pc = "stop" => timers[e].hub \in HubIds /\ timers[e].hub # h
    BY <1>4, TimerFacts DEF IInv, Types, StateInv
  <2> QED  BY <2>1, <2>2, <2>3
<1>13. \A t \in Slots : sock'[t].pc \in {"build", "evict"} => t # s /\ sock'[t] = sock[t]  BY <1>5, <1>7
<1>14. StateInv'
  <2>1. \A d \in Clients : entries'[d] # None => hubs'[entries'[d].hub] = "running"
    BY <1>6, <1>8, <1>9, <1>12 DEF IInv, StateInv
  <2> QED  BY <1>1, <1>4, <1>9, <1>12, <1>13, <2>1 DEF IInv, StateInv
<1>15. OwnInv'
  <2>1. \A a, d \in Clients : a # d /\ entries'[a] # None /\ entries'[d] # None =>
          entries'[a].hub # entries'[d].hub
    BY <1>6, <1>8, <1>12 DEF IInv, OwnInv
  <2> QED  BY <1>1, <1>4, <1>13, <2>1 DEF IInv, OwnInv
<1>16. KnownInv'
  <2> SUFFICES ASSUME NEW x \in HubIds, hubs'[x] # "none" PROVE Owned(x)'
    BY DEF KnownInv
  <2>1. CASE x = h  BY <1>6, <1>8, <2>1 DEF Owned
  <2>2. CASE x # h
    <3>1. Owned(x)  BY <1>9, <2>2 DEF IInv, KnownInv
    <3>2. \A t \in Slots : sock[t].pc \in {"build", "evict"} /\ sock[t].hub = x => sock'[t] = sock[t]
      BY <1>3, <1>7, <2>2
    <3>3. \A d \in Clients : entries[d] # None => entries'[d] = entries[d]  BY <1>4, <1>8
    <3> QED  BY <1>1, <3>1, <3>2, <3>3 DEF Owned
  <2> QED  BY <2>1, <2>2
<1>17. WithinCap'
  <2> DEFINE B == In(sock, {"build"})
             A == {d \in Clients : entries[d] # None}
  <2>1. B \in SUBSET Slots /\ A \in SUBSET Clients  BY DEF In
  <2>2. IsFiniteSet(A) /\ IsFiniteSet(B)  BY <2>1, SubsetBound, ConstantsTyped
  <2>3. B' = B \ {s} /\ s \in B  BY <1>1, <1>5, <1>7 DEF In
  <2>4. A' = A \cup {c} /\ c \notin A  BY <1>4, <1>6, <1>8
  <2>5. Pending = Cardinality(B) /\ Pending' = Cardinality(B') /\ Live = Cardinality(A) /\ Live' = Cardinality(A')
    BY DEF Live, Pending
  <2> HIDE DEF A, B
  <2>6. Pending' = Pending - 1 /\ Pending \in Nat  BY <2>2, <2>3, <2>5, OneLess
  <2>7. Live' = Live + 1 /\ Live \in Nat  BY <2>2, <2>4, <2>5, OneMore
  <2>8. Live + Pending <= Cap /\ Cap \in Nat  BY ConstantsTyped DEF IInv, WithinCap
  <2>9. Live' + Pending' <= Cap  BY <2>6, <2>7, <2>8
  <2> QED  BY <2>9 DEF WithinCap
<1>18. ServeInv'
  <2>1. \A t \in Slots : sock[t].pc = "serving" => Client(t) # c  BY <1>4 DEF IInv, ServeInv
  <2>2. ASSUME NEW t \in Slots, sock'[t].pc = "serving"
        PROVE  entries'[Client(t)'] # None /\ entries'[Client(t)'].hub = sock'[t].hub
    <3>1. CASE t = s  BY <1>5, <1>6, <1>7, <1>8, <3>1
    <3>2. CASE t # s
      <4>1. sock[t].pc = "serving" /\ Client(t)' = Client(t) /\ sock'[t] = sock[t]  BY <1>7, <2>2, <3>2
      <4>2. Client(t) \in Clients  BY <4>1, SocketFacts DEF IInv, Types, Client
      <4> QED  BY <1>8, <2>1, <4>1, <4>2 DEF IInv, ServeInv
    <3> QED  BY <3>1, <3>2
  <2>3. ASSUME NEW d \in Clients, entries'[d] # None
        PROVE  entries'[d].sockets = Cardinality(Serving(d)')
    <3>1. CASE d = c
      <4>1. Serving(c)' = {s}
        <5>1. \A t \in Slots : sock'[t].pc = "serving" /\ Client(t)' = c => t = s  BY <1>7, <2>1
        <5> QED  BY <1>5, <1>7, <5>1 DEF Serving
      <4>2. Cardinality({s}) = 1  BY FS_Singleton
      <4> QED  BY <1>6, <1>8, <3>1, <4>1, <4>2
    <3>2. CASE d # c
      <4>1. Serving(d)' = Serving(d)
        <5>1. \A t \in Slots : (sock'[t].pc = "serving" /\ Client(t)' = d) <=> (sock[t].pc = "serving" /\ Client(t) = d)
          BY <1>1, <1>2, <1>5, <1>7, <3>2
        <5> QED  BY <5>1 DEF Serving
      <4>2. entries'[d] = entries[d]  BY <1>8, <3>2
      <4> QED  BY <2>3, <4>1, <4>2 DEF IInv, ServeInv
    <3> QED  BY <3>1, <3>2
  <2> QED  BY <2>2, <2>3 DEF ServeInv
<1>19. TimerInv'
  <2> SUFFICES ASSUME NEW d \in Clients, entries'[d] # None
               PROVE  /\ entries'[d].timer # 0 <=> entries'[d].sockets = 0
                      /\ entries'[d].timer # 0 =>
                           /\ timers'[entries'[d].timer].pc \in {"sleep", "wait"}
                           /\ timers'[entries'[d].timer].client = d
    BY DEF TimerInv
  <2>1. CASE d = c  BY <1>6, <1>8, <2>1
  <2>2. CASE d # c  BY <1>1, <1>8, <2>2 DEF IInv, TimerInv
  <2> QED  BY <2>1, <2>2
<1>20. PanelInv'  BY <1>1, <1>5, SamePanels DEF IInv
<1>21. ServerInv'  BY <1>1, <1>4 DEF IInv, ServerInv
<1> QED  BY <1>10, <1>11, <1>14, <1>15, <1>16, <1>17, <1>18, <1>19, <1>20, <1>21 DEF IInv

-----------------------------------------------------------------------------
(* release, and the steps of the timers *)

LEMMA OneDown ==
    ASSUME NEW n \in Nat
    PROVE  Max({0, n}) = n
<1>1. n \in {0, n} /\ \A y \in {0, n} : n >= y  OBVIOUS
<1>2. \A x \in {0, n} : (\A y \in {0, n} : x >= y) => x = n  OBVIOUS
<1> QED  BY <1>1, <1>2 DEF Max

\* The last socket out leaves an entry with a timer, which nobody else has.
LEMMA ReleaseKeeps ==
    ASSUME IInv, NEW s \in Slots, Release(s)
    PROVE  IInv'
<1> DEFINE o == sock[s]
           q == [o EXCEPT !.pc = "ended"]
           r == Settled(q)
           free == {e \in Timers : timers[e] = NoTimer}
<1>1. PICK c \in Clients : c = Client(s)
  <2>1. o.pc # "free"  BY DEF Release
  <2> QED  BY <2>1, SocketFacts DEF IInv, Types, Client
<1> DEFINE x == entries[c]
           last == x.sockets = 1
<1>2. /\ o.pc = "serving" /\ o \in Socket /\ server # "down" /\ x # None /\ x \in Entry
      /\ x.sockets = Cardinality(Serving(c)) /\ x.timer \in {0} \cup Timers
  <2>1. o.pc = "serving"  BY DEF Release
  <2>2. o \in Socket /\ server # "down"  BY <2>1, SocketFacts DEF IInv, Types, ServerInv
  <2>3. x # None  BY <1>1, <2>1 DEF IInv, ServeInv
  <2>4. x \in Entry /\ x.timer \in {0} \cup Timers  BY <2>3, EntryFacts DEF IInv, Types
  <2>5. x.sockets = Cardinality(Serving(c))  BY <2>3 DEF IInv, ServeInv
  <2> QED  BY <2>1, <2>2, <2>3, <2>4, <2>5
<1>3. s \in Serving(c) /\ IsFiniteSet(Serving(c)) /\ Cardinality(Serving(c)) \in 1..MaxSockets
  <2>1. s \in Serving(c)  BY <1>1, <1>2 DEF Serving
  <2>2. IsFiniteSet(Serving(c)) /\ Cardinality(Serving(c)) \in 0..MaxSockets  BY ServingFacts
  <2>3. Cardinality(Serving(c)) # 0  BY <2>1, <2>2, FS_EmptySet
  <2> QED  BY <2>1, <2>2, <2>3, ConstantsTyped
<1>4. x.timer = 0
  <2>1. x.sockets # 0  BY <1>2, <1>3
  <2> QED  BY <1>2, <2>1 DEF IInv, TimerInv
<1>5. /\ last => free # {}
      /\ timers' = IF last THEN [timers EXCEPT ![Min(free)] = [pc |-> "sleep", client |-> c]] ELSE timers
      /\ entries' = [entries EXCEPT ![c].sockets = Max({0, @ - 1}), ![c].timer = IF last THEN Min(free) ELSE @]
      /\ sock' = [sock EXCEPT ![s] = r]
      /\ UNCHANGED <<server, locks, hubs, orphans, panel, mounts, faults>>
  <2>1. (entries[Client(s)] # None /\ entries[Client(s)].sockets = 1 /\ entries[Client(s)].timer = 0) <=> last
    BY <1>1, <1>2, <1>4
  <2> QED  BY <1>1, <1>2, <2>1 DEF Release, budgets
<1>6. PICK e \in {0} \cup Timers : /\ e # 0 <=> last
                                   /\ last => e = Min(free) /\ timers[e] = NoTimer
  <2>1. CASE last
    <3>1. free \in SUBSET Nat  BY ConstantsTyped
    <3> HIDE DEF last, free
    <3>2. Min(free) \in free  BY <1>5, <2>1, <3>1, LeastNumber
    <3>3. Min(free) \in Timers /\ timers[Min(free)] = NoTimer /\ Min(free) # 0
      BY <3>2, ConstantsTyped DEF free
    <3> QED  BY <2>1, <3>3
  <2>2. CASE ~last  BY <2>2
  <2> QED  BY <2>1, <2>2
<1> DEFINE n == x.sockets - 1
           en == [x EXCEPT !.sockets = n, !.timer = e]
<1>7. n \in 0..MaxSockets /\ (n = 0 <=> last) /\ n = Cardinality(Serving(c)) - 1
  BY <1>2, <1>3, ConstantsTyped
<1>8. entries' = [entries EXCEPT ![c] = en]
  <2>1. Max({0, x.sockets - 1}) = n  BY <1>7, OneDown
  <2>2. (IF last THEN Min(free) ELSE x.timer) = e  BY <1>4, <1>6
  <2> HIDE DEF n, last, free
  <2>3. entries' = [entries EXCEPT ![c] = [x EXCEPT !.sockets = Max({0, x.sockets - 1}),
                                                     !.timer = IF last THEN Min(free) ELSE x.timer]]
    BY <1>5
  <2> QED  BY <2>1, <2>2, <2>3
<1>9. timers' = IF e # 0 THEN [timers EXCEPT ![e] = [pc |-> "sleep", client |-> c]] ELSE timers
  BY <1>5, <1>6
<1>10. /\ en \in Entry /\ en.hub = x.hub /\ en.timer = e /\ en.sockets = n /\ en # None
  <2> HIDE DEF x, n
  <2>1. en \in Entry /\ en.hub = x.hub /\ en.timer = e /\ en.sockets = n
    BY <1>2, <1>6, <1>7 DEF Entry
  <2>2. en # None  BY <2>1 DEF Entry, None
  <2> QED  BY <2>1, <2>2
<1> HIDE DEF en, n, last, free
<1>11. /\ q \in Socket /\ q.pc = "ended" /\ q.panel = o.panel /\ q.seen = o.seen
       /\ q.disposed = o.disposed /\ q.up = o.up
  <2> HIDE DEF o
  <2> QED  BY <1>2 DEF Socket
<1> HIDE DEF q
<1>12. /\ r \in {NoSocket} \cup Socket /\ r.pc \in {"free", "ended"} /\ (r.pc # "free" => r = q)
  BY <1>11, SettledFacts
<1> HIDE DEF r
<1>13. /\ sock' \in [Slots -> {NoSocket} \cup Socket] /\ sock'[s] = r
       /\ \A t \in Slots : t # s => sock'[t] = sock[t] /\ Client(t)' = Client(t)
       /\ \A t \in Slots : \A d : Asks(sock', t, d) <=> Asks(sock, t, d)
  <2>1. /\ sock' \in [Slots -> {NoSocket} \cup Socket] /\ sock'[s] = r
        /\ \A t \in Slots : t # s => sock'[t] = sock[t] /\ Client(t)' = Client(t)
    BY <1>5, <1>11, <1>12, SocketMoves DEF IInv
  <2>2. \A d : ~Asks(sock', s, d) /\ ~Asks(sock, s, d)  BY <1>2, <1>12, <2>1 DEF Asks, Asking
  <2>3. \A t \in Slots : t # s => \A d : Asks(sock', t, d) <=> Asks(sock, t, d)  BY <2>1 DEF Asks
  <2> QED  BY <2>1, <2>2, <2>3
<1>14. /\ entries' \in [Clients -> {None} \cup Entry] /\ entries'[c] = en
       /\ \A d \in Clients : d # c => entries'[d] = entries[d]
       /\ \A d \in Clients : entries'[d] # None <=> entries[d] # None
       /\ \A d \in Clients : entries[d] # None => entries'[d].hub = entries[d].hub
  BY <1>2, <1>8, <1>10 DEF IInv, Types
<1>15. /\ timers' \in [Timers -> {NoTimer} \cup Sleeping \cup Waiting \cup Stopping]
       /\ \A f \in Timers : f # e => timers'[f] = timers[f]
       /\ e # 0 => timers[e].pc = "free" /\ timers'[e].pc = "sleep" /\ timers'[e].client = c
  <2>1. CASE e = 0  BY <1>9, <2>1, ConstantsTyped DEF IInv, Types
  <2>2. CASE e # 0
    <3>1. [pc |-> "sleep", client |-> c] \in Sleeping  BY DEF Sleeping
    <3>2. timers' = [timers EXCEPT ![e] = [pc |-> "sleep", client |-> c]] /\ e \in Timers  BY <1>9, <2>2
    <3>3. timers[e].pc = "free"  BY <1>6, <2>2 DEF NoTimer
    <3> QED  BY <3>1, <3>2, <3>3 DEF IInv, Types
  <2> QED  BY <2>1, <2>2
<1>16. Types'  BY <1>5, <1>13, <1>14, <1>15 DEF IInv, Types
<1>17. LockInv'
  <2>1. \A d \in Clients : locks'[d] # 0 => entries'[d] # None \/ \E t \in Slots : Asks(sock', t, d)
    BY <1>5, <1>13, <1>14 DEF IInv, LockInv
  <2>2. r.pc \notin Asking /\ r.pc \notin PastLock /\ o.pc # "free"
    BY <1>2, <1>12 DEF Asking, PastLock
  <2>3. r.pc # "free" => r.panel = sock[s].panel  BY <1>11, <1>12
  <2>4. \A d \in Clients : entries'[d] # None => entries[d] # None  BY <1>14
  <2>5. \A d \in Clients : locks'[d] = locks[d]  BY <1>5
  <2> QED  BY <1>5, <1>12, <2>1, <2>2, <2>3, <2>4, <2>5, LockStep
<1>18. StateInv' /\ OwnInv' /\ KnownInv'
  <2>1. r.pc \notin {"build", "evict"} /\ sock[s].pc \notin {"build", "evict"}  BY <1>2, <1>12
  <2>2. \A f \in Timers : (timers'[f].pc = "stop" <=> timers[f].pc = "stop")
                          /\ (timers[f].pc = "stop" => timers'[f].hub = timers[f].hub)
    <3> SUFFICES ASSUME NEW f \in Timers
                 PROVE  /\ timers'[f].pc = "stop" <=> timers[f].pc = "stop"
                        /\ timers[f].pc = "stop" => timers'[f].hub = timers[f].hub
      OBVIOUS
    <3>1. CASE f = e  BY <1>15, <3>1, ConstantsTyped
    <3>2. CASE f # e  BY <1>15, <3>2
    <3> QED  BY <3>1, <3>2
  <2>3. \A d \in Clients : (entries'[d] # None <=> entries[d] # None)
                           /\ (entries[d] # None => entries'[d].hub = entries[d].hub)
    BY <1>14
  <2>4. UNCHANGED <<hubs, orphans>>  BY <1>5
  <2> QED  BY <1>5, <1>12, <2>1, <2>2, <2>3, <2>4, SameHubs
<1>19. WithinCap'
  <2>1. In(sock, {"build"})' = In(sock, {"build"})  BY <1>2, <1>12, <1>13 DEF In
  <2>2. {d \in Clients : entries'[d] # None} = {d \in Clients : entries[d] # None}  BY <1>14
  <2> QED  BY <2>1, <2>2 DEF IInv, WithinCap, Live, Pending, In
<1>20. ServeInv'
  <2>1. ASSUME NEW t \in Slots, sock'[t].pc = "serving"
        PROVE  entries'[Client(t)'] # None /\ entries'[Client(t)'].hub = sock'[t].hub
    <3>1. t # s  BY <1>12, <1>13, <2>1
    <3>2. sock[t].pc = "serving" /\ Client(t)' = Client(t) /\ sock'[t] = sock[t]  BY <1>13, <2>1, <3>1
    <3>3. Client(t) \in Clients  BY <3>2, SocketFacts DEF IInv, Types, Client
    <3> QED  BY <1>14, <3>2, <3>3 DEF IInv, ServeInv
  <2>2. ASSUME NEW d \in Clients, entries'[d] # None
        PROVE  entries'[d].sockets = Cardinality(Serving(d)')
    <3>1. CASE d = c
      <4>1. Serving(c)' = Serving(c) \ {s}  BY <1>12, <1>13 DEF Serving
      <4>2. Cardinality(Serving(c) \ {s}) = Cardinality(Serving(c)) - 1  BY <1>3, OneLess
      <4> QED  BY <1>7, <1>10, <1>14, <3>1, <4>1, <4>2
    <3>2. CASE d # c
      <4>1. Serving(d)' = Serving(d)
        <5>1. \A t \in Slots : (sock'[t].pc = "serving" /\ Client(t)' = d) <=> (sock[t].pc = "serving" /\ Client(t) = d)
          BY <1>1, <1>12, <1>13, <3>2
        <5> QED  BY <5>1 DEF Serving
      <4>2. entries'[d] = entries[d]  BY <1>14, <3>2
      <4> QED  BY <2>2, <4>1, <4>2 DEF IInv, ServeInv
    <3> QED  BY <3>1, <3>2
  <2> QED  BY <2>1, <2>2 DEF ServeInv
<1>21. TimerInv'
  <2> SUFFICES ASSUME NEW d \in Clients, entries'[d] # None
               PROVE  /\ entries'[d].timer # 0 <=> entries'[d].sockets = 0
                      /\ entries'[d].timer # 0 =>
                           /\ timers'[entries'[d].timer].pc \in {"sleep", "wait"}
                           /\ timers'[entries'[d].timer].client = d
    BY DEF TimerInv
  <2>1. CASE d = c  BY <1>6, <1>7, <1>10, <1>14, <1>15, <2>1
  <2>2. CASE d # c
    <3>1. entries'[d] = entries[d] /\ entries[d] # None  BY <1>14, <2>2
    <3>2. entries[d].timer \in {0} \cup Timers  BY <3>1, EntryFacts DEF IInv, Types
    <3>3. entries[d].timer # 0 => timers[entries[d].timer].pc \in {"sleep", "wait"}
      BY <3>1 DEF IInv, TimerInv
    <3>4. entries[d].timer # 0 => entries[d].timer # e  BY <1>15, <3>3
    <3> QED  BY <1>15, <3>1, <3>2, <3>4 DEF IInv, TimerInv
  <2> QED  BY <2>1, <2>2
<1>22. PanelInv'
  <2>1. r.pc # "free" => /\ r.panel = o.panel /\ r.seen = o.seen /\ r.disposed = o.disposed /\ r.up = o.up
    BY <1>11, <1>12
  <2> QED  BY <1>2, <1>5, <1>12, <2>1, SamePanels DEF IInv
<1>23. ServerInv'  BY <1>2, <1>5 DEF IInv, ServerInv
<1> QED  BY <1>16, <1>17, <1>18, <1>19, <1>20, <1>21, <1>22, <1>23 DEF IInv

\* While no socket moves, the panels and the served are where they were.
LEMMA SocketsStay ==
    ASSUME IInv, UNCHANGED sock
    PROVE  /\ sock' \in [Slots -> {NoSocket} \cup Socket]
           /\ \A t \in Slots : Client(t)' = Client(t)
           /\ \A d : Serving(d)' = Serving(d)
           /\ UNCHANGED panel => PanelInv'
           /\ In(sock, {"build"})' = In(sock, {"build"})
BY DEF IInv, Types, Client, Serving, PanelInv, In

\* A timer that wakes up waits for the lock its client has, or ends.
LEMMA TimerFiresKeeps ==
    ASSUME IInv, NEW e \in Timers, TimerFires(e)
    PROVE  IInv'
<1> DEFINE o == timers[e]
           c == o.client
           r == IF locks[c] = 0 THEN NoTimer ELSE [pc |-> "wait", client |-> c, lock |-> locks[c]]
<1>1. /\ o.pc = "sleep" /\ timers' = [timers EXCEPT ![e] = r]
      /\ UNCHANGED <<server, entries, locks, hubs, orphans, sock, panel, mounts, faults>>
  BY DEF TimerFires, budgets
<1>2. c \in Clients  BY <1>1, TimerFacts DEF IInv, Types
<1>3. /\ r \in {NoTimer} \cup Waiting /\ r.pc \in {"free", "wait"}
      /\ locks[c] # 0 => r.pc = "wait" /\ r.client = c
  <2>1. locks[c] \in {0} \cup Locks  BY <1>2 DEF IInv, Types
  <2> QED  BY <1>2, <2>1 DEF Waiting, NoTimer
<1> HIDE DEF r
<1>4. /\ timers' \in [Timers -> {NoTimer} \cup Sleeping \cup Waiting \cup Stopping] /\ timers'[e] = r
      /\ \A f \in Timers : f # e => timers'[f] = timers[f]
  BY <1>1, <1>3 DEF IInv, Types
<1>5. \A f \in Timers : timers'[f].pc = "stop" => timers'[f] = timers[f]  BY <1>3, <1>4
<1>6. \A f \in Timers : timers[f].pc = "stop" => timers'[f] = timers[f]  BY <1>1, <1>4
<1>7. Types'  BY <1>1, <1>4 DEF IInv, Types
<1>8. LockInv'  BY <1>1, SocketsStay DEF IInv, LockInv, Asks
<1>9. StateInv' /\ OwnInv'  BY <1>1, <1>5 DEF IInv, StateInv, OwnInv
<1>10. KnownInv'  BY <1>1, <1>6 DEF IInv, KnownInv, Owned
<1>11. WithinCap'  BY <1>1, SocketsStay DEF IInv, WithinCap, Live, Pending
<1>12. ServeInv'  BY <1>1, SocketsStay DEF IInv, ServeInv
<1>13. TimerInv'
  <2> SUFFICES ASSUME NEW d \in Clients, entries[d] # None
               PROVE  /\ entries[d].timer # 0 <=> entries[d].sockets = 0
                      /\ entries[d].timer # 0 =>
                           /\ timers'[entries[d].timer].pc \in {"sleep", "wait"}
                           /\ timers'[entries[d].timer].client = d
    BY <1>1 DEF TimerInv
  <2>1. entries[d].timer \in {0} \cup Timers  BY EntryFacts DEF IInv, Types
  <2>2. CASE entries[d].timer # e  BY <1>4, <2>1, <2>2 DEF IInv, TimerInv
  <2>3. CASE entries[d].timer = e
    <3>1. entries[d].timer # 0  BY <2>3, ConstantsTyped
    <3>2. d = c /\ entries[d].sockets = 0  BY <2>3, <3>1 DEF IInv, TimerInv
    <3>3. locks[c] # 0  BY <3>2 DEF IInv, LockInv
    <3> QED  BY <1>3, <1>4, <2>3, <3>1, <3>2, <3>3
  <2> QED  BY <2>2, <2>3
<1>14. PanelInv'  BY <1>1, SocketsStay
<1>15. ServerInv'  BY <1>1 DEF IInv, ServerInv
<1> QED  BY <1>7, <1>8, <1>9, <1>10, <1>11, <1>12, <1>13, <1>14, <1>15 DEF IInv

\* A timer that finds its client watched, or gone, ends.
LEMMA TimerIdles ==
    ASSUME IInv, NEW e \in Timers, timers[e].pc = "wait", timers[e].client \notin Idle,
           timers' = [timers EXCEPT ![e] = NoTimer],
           UNCHANGED <<server, entries, locks, hubs, orphans, sock, panel, mounts, faults>>
    PROVE  IInv'
<1>1. /\ timers' \in [Timers -> {NoTimer} \cup Sleeping \cup Waiting \cup Stopping] /\ timers'[e] = NoTimer
      /\ \A f \in Timers : f # e => timers'[f] = timers[f]
  BY DEF IInv, Types
<1>2. NoTimer.pc = "free"  BY DEF NoTimer
<1>3. \A f \in Timers : timers'[f].pc = "stop" => timers'[f] = timers[f]  BY <1>1, <1>2
<1>4. \A f \in Timers : timers[f].pc = "stop" => timers'[f] = timers[f]  BY <1>1
<1>5. Types'  BY <1>1 DEF IInv, Types
<1>6. LockInv'  BY SocketsStay DEF IInv, LockInv, Asks
<1>7. StateInv' /\ OwnInv'  BY <1>3 DEF IInv, StateInv, OwnInv
<1>8. KnownInv'  BY <1>4 DEF IInv, KnownInv, Owned
<1>9. WithinCap'  BY SocketsStay DEF IInv, WithinCap, Live, Pending
<1>10. ServeInv'  BY SocketsStay DEF IInv, ServeInv
<1>11. TimerInv'
  <2> SUFFICES ASSUME NEW d \in Clients, entries[d] # None
               PROVE  /\ entries[d].timer # 0 <=> entries[d].sockets = 0
                      /\ entries[d].timer # 0 =>
                           /\ timers'[entries[d].timer].pc \in {"sleep", "wait"}
                           /\ timers'[entries[d].timer].client = d
    BY DEF TimerInv
  <2>1. entries[d].timer \in {0} \cup Timers  BY EntryFacts DEF IInv, Types
  <2>2. entries[d].timer # e
    <3> SUFFICES ASSUME entries[d].timer = e PROVE FALSE  OBVIOUS
    <3>1. entries[d].timer # 0  BY ConstantsTyped
    <3>2. d = timers[e].client /\ entries[d].sockets = 0  BY <3>1 DEF IInv, TimerInv
    <3> QED  BY <3>2 DEF Idle
  <2> QED  BY <1>1, <2>1, <2>2 DEF IInv, TimerInv
<1>12. PanelInv'  BY SocketsStay
<1>13. ServerInv'  BY DEF IInv, ServerInv
<1> QED  BY <1>5, <1>6, <1>7, <1>8, <1>9, <1>10, <1>11, <1>12, <1>13 DEF IInv

\* A timer that finds its client idle takes the hub over from the entry, and with the
\* entry goes the lock if no acquire waits for it.
LEMMA TimerEvicts ==
    ASSUME IInv, NEW e \in Timers, timers[e].pc = "wait", NEW c \in Idle, c = timers[e].client,
           entries' = [entries EXCEPT ![c] = None],
           hubs' = [hubs EXCEPT ![entries[c].hub] = "stopping"],
           timers' = [timers EXCEPT ![e] = [pc |-> "stop", client |-> c, lock |-> timers[e].lock,
                                           hub |-> entries[c].hub]],
           locks' = DropLock(locks, entries', sock, c),
           UNCHANGED <<server, orphans, sock, panel, mounts, faults>>
    PROVE  IInv'
<1>1. c \in Clients /\ entries[c] # None /\ entries[c].sockets = 0  BY DEF Idle
<1>2. PICK h \in HubIds : h = entries[c].hub  BY <1>1, EntryFacts DEF IInv, Types
<1> DEFINE r == [pc |-> "stop", client |-> c, lock |-> timers[e].lock, hub |-> h]
<1>3. r \in Stopping /\ r.pc = "stop" /\ r.hub = h
  <2>1. timers[e].lock \in {0} \cup Locks  BY TimerFacts DEF IInv, Types
  <2> QED  BY <1>1, <2>1 DEF Stopping
<1>4. timers' = [timers EXCEPT ![e] = r] /\ hubs' = [hubs EXCEPT ![h] = "stopping"]  BY <1>2
<1> HIDE DEF r
<1>5. /\ timers' \in [Timers -> {NoTimer} \cup Sleeping \cup Waiting \cup Stopping] /\ timers'[e] = r
      /\ \A f \in Timers : f # e => timers'[f] = timers[f]
  BY <1>3, <1>4 DEF IInv, Types
<1>6. /\ entries' \in [Clients -> {None} \cup Entry] /\ entries'[c] = None
      /\ \A d \in Clients : d # c => entries'[d] = entries[d]
  BY <1>1 DEF IInv, Types
<1>7. /\ hubs' \in [HubIds -> {"none", "starting", "running", "stopping"}]
      /\ hubs'[h] = "stopping" /\ \A x \in HubIds : x # h => hubs'[x] = hubs[x]
  BY <1>2, <1>4 DEF IInv, Types
<1>8. sock \in [Slots -> {NoSocket} \cup Socket] /\ locks \in [Clients -> {0} \cup Locks]
  BY DEF IInv, Types
<1>9. /\ locks' \in [Clients -> {0} \cup Locks]
      /\ \A d \in Clients : d # c => locks'[d] = locks[d]
      /\ (\E t \in Slots : Asks(sock, t, c)) => locks'[c] = locks[c]
      /\ locks'[c] # 0 => \E t \in Slots : Asks(sock, t, c)
  <2>1. locks' = DropLock(locks, entries', sock, c)  OBVIOUS
  <2>2. ASSUME NEW ents, NEW new, new = DropLock(locks, ents, sock, c), ents[c] = None
        PROVE  /\ new \in [Clients -> {0} \cup Locks]
               /\ \A d \in Clients : d # c => new[d] = locks[d]
               /\ (\E t \in Slots : Asks(sock, t, c)) => new[c] = locks[c]
               /\ new[c] # 0 => \E t \in Slots : Asks(sock, t, c)
    BY <1>1, <1>8, <2>2, DropLockFacts
  <2> QED  BY <1>6, <2>1, <2>2, ZenonT(60)
<1>10. server # "down" /\ orphans = {}  BY <1>1 DEF IInv, ServerInv
<1>11. Types'  BY <1>5, <1>6, <1>7, <1>9 DEF IInv, Types
<1>12. \A t \in Slots : sock'[t] = sock[t] /\ Client(t)' = Client(t)  BY SocketsStay
<1>13. LockInv'
  <2>1. ASSUME NEW t \in Slots, sock[t].pc \in Asking
        PROVE  Client(t) \in Clients /\ locks'[Client(t)] = locks[Client(t)]
    <3>1. Client(t) \in Clients  BY <1>8, <2>1, SocketFacts DEF Client, Asking
    <3>2. CASE Client(t) = c
      <4>1. Asks(sock, t, c)  BY <2>1, <3>2 DEF Asks, Client
      <4> QED  BY <1>9, <3>1, <3>2, <4>1
    <3>3. CASE Client(t) # c  BY <1>9, <3>1, <3>3
    <3> QED  BY <3>1, <3>2, <3>3
  <2>2. ASSUME NEW t \in Slots, sock'[t].pc \in Asking
        PROVE  locks'[Client(t)'] # 0 /\ sock'[t].lock = locks'[Client(t)']
    <3>1. sock[t].pc \in Asking /\ sock'[t] = sock[t] /\ Client(t)' = Client(t)  BY <1>12, <2>2
    <3>2. locks'[Client(t)] = locks[Client(t)]  BY <2>1, <3>1
    <3> QED  BY <3>1, <3>2 DEF IInv, LockInv
  <2>3. \A t, u \in Slots : t # u /\ sock'[t].pc \in PastLock /\ sock'[u].pc \in PastLock =>
          Client(t)' # Client(u)'
    BY <1>12 DEF IInv, LockInv
  <2>4. ASSUME NEW t \in Slots, sock'[t].pc \in PastLock
        PROVE  entries'[Client(t)'] = None
    <3>1. sock[t].pc \in PastLock /\ Client(t)' = Client(t) /\ sock[t].pc \in Asking
      BY <1>12, <2>4 DEF PastLock, Asking
    <3>2. entries[Client(t)] = None /\ Client(t) \in Clients  BY <2>1, <3>1 DEF IInv, LockInv
    <3> QED  BY <1>6, <3>1, <3>2
  <2>5. \A d \in Clients : entries'[d] # None => locks'[d] # 0  BY <1>6, <1>9 DEF IInv, LockInv
  <2>6. \A d \in Clients : locks'[d] # 0 => entries'[d] # None \/ \E t \in Slots : Asks(sock', t, d)
    <3> SUFFICES ASSUME NEW d \in Clients, locks'[d] # 0
                 PROVE  entries'[d] # None \/ \E t \in Slots : Asks(sock', t, d)
      OBVIOUS
    <3>1. \A t \in Slots : Asks(sock, t, d) => Asks(sock', t, d)  BY <1>12 DEF Asks
    <3>2. CASE d = c  BY <1>9, <3>1, <3>2
    <3>3. CASE d # c  BY <1>6, <1>9, <3>1, <3>3 DEF IInv, LockInv
    <3> QED  BY <3>2, <3>3
  <2> QED  BY <2>2, <2>3, <2>4, <2>5, <2>6 DEF LockInv
<1>14. /\ \A d \in Clients : d # c /\ entries[d] # None => entries[d].hub \in HubIds /\ entries[d].hub # h
       /\ \A t \in Slots : sock[t].pc \in {"build", "evict"} => sock[t].hub \in HubIds /\ sock[t].hub # h
       /\ \A f \in Timers : timers[f].pc = "stop" => f # e /\ timers[f].hub \in HubIds /\ timers[f].hub # h
  <2>1. \A d \in Clients : d # c /\ entries[d] # None => entries[d].hub \in HubIds /\ entries[d].hub # h
    BY <1>1, <1>2, EntryFacts DEF IInv, Types, OwnInv
  <2>2. hubs[h] = "running"  BY <1>1, <1>2 DEF IInv, StateInv
  <2>3. \A t \in Slots : sock[t].pc \in {"build", "evict"} => sock[t].hub \in HubIds /\ sock[t].hub # h
    BY <2>2, SMTT(30) DEF IInv, StateInv
  <2>4. \A f \in Timers : timers[f].pc = "stop" => f # e /\ timers[f].hub \in HubIds /\ timers[f].hub # h
    BY <2>2, TimerFacts DEF IInv, Types, StateInv
  <2> QED  BY <2>1, <2>3, <2>4
<1>15. StateInv'
  <2>1. \A d \in Clients : entries'[d] # None => hubs'[entries'[d].hub] = "running"
    BY <1>6, <1>7, <1>14 DEF IInv, StateInv
  <2>2. \A t \in Slots : sock'[t].pc = "build" => sock'[t].hub \in HubIds /\ hubs'[sock'[t].hub] = "starting"
    BY <1>7, <1>12, <1>14 DEF IInv, StateInv
  <2>3. \A t \in Slots : sock'[t].pc = "evict" => sock'[t].hub \in HubIds /\ hubs'[sock'[t].hub] = "stopping"
    BY <1>7, <1>12, <1>14 DEF IInv, StateInv
  <2>4. ASSUME NEW f \in Timers, timers'[f].pc = "stop" PROVE hubs'[timers'[f].hub] = "stopping"
    <3>1. CASE f = e  BY <1>3, <1>5, <1>7, <3>1
    <3>2. CASE f # e
      <4>1. timers'[f] = timers[f] /\ timers[f].pc = "stop"  BY <1>5, <2>4, <3>2
      <4> QED  BY <1>7, <1>14, <4>1 DEF IInv, StateInv
    <3> QED  BY <3>1, <3>2
  <2> QED  BY <1>10, <2>1, <2>2, <2>3, <2>4 DEF StateInv
<1>16. OwnInv'
  <2>1. ASSUME NEW f \in Timers, NEW g \in Timers, f # g, timers'[f].pc = "stop", timers'[g].pc = "stop"
        PROVE  timers'[f].hub # timers'[g].hub
    <3>1. CASE f = e
      <4>1. timers'[g] = timers[g] /\ timers'[f].hub = h  BY <1>3, <1>5, <2>1, <3>1
      <4> QED  BY <1>14, <2>1, <4>1
    <3>2. CASE g = e
      <4>1. timers'[f] = timers[f] /\ timers'[g].hub = h  BY <1>3, <1>5, <2>1, <3>2
      <4> QED  BY <1>14, <2>1, <4>1
    <3>3. CASE f # e /\ g # e
      <4>1. timers'[f] = timers[f] /\ timers'[g] = timers[g]  BY <1>5, <3>3
      <4> QED  BY <2>1, <4>1 DEF IInv, OwnInv
    <3> QED  BY <3>1, <3>2, <3>3
  <2>2. ASSUME NEW t \in Slots, NEW f \in Timers, sock'[t].pc = "evict", timers'[f].pc = "stop"
        PROVE  sock'[t].hub # timers'[f].hub
    <3>1. CASE f = e
      <4>1. timers'[f].hub = h /\ sock'[t] = sock[t]  BY <1>3, <1>5, <1>12, <3>1
      <4> QED  BY <1>14, <2>2, <4>1
    <3>2. CASE f # e
      <4>1. timers'[f] = timers[f] /\ sock'[t] = sock[t]  BY <1>5, <1>12, <3>2
      <4> QED  BY <2>2, <4>1 DEF IInv, OwnInv
    <3> QED  BY <3>1, <3>2
  <2>3. \A a, d \in Clients : a # d /\ entries'[a] # None /\ entries'[d] # None =>
          entries'[a].hub # entries'[d].hub
    BY <1>6 DEF IInv, OwnInv
  <2>4. \A t, u \in Slots : t # u /\ sock'[t].pc \in {"build", "evict"} /\ sock'[u].pc \in {"build", "evict"} =>
          sock'[t].hub # sock'[u].hub
    BY <1>12 DEF IInv, OwnInv
  <2> QED  BY <1>10, <2>1, <2>2, <2>3, <2>4 DEF OwnInv
<1>17. KnownInv'
  <2> SUFFICES ASSUME NEW x \in HubIds, hubs'[x] # "none" PROVE Owned(x)'
    BY DEF KnownInv
  <2>1. CASE x = h  BY <1>3, <1>5, <2>1 DEF Owned
  <2>2. CASE x # h
    <3>1. Owned(x)  BY <1>7, <2>2 DEF IInv, KnownInv
    <3>2. \A f \in Timers : timers[f].pc = "stop" => timers'[f] = timers[f]  BY <1>5
    <3>3. \A d \in Clients : entries[d] # None /\ entries[d].hub = x => entries'[d] = entries[d]
      BY <1>2, <1>6, <2>2
    <3> QED  BY <1>12, <3>1, <3>2, <3>3 DEF Owned
  <2> QED  BY <2>1, <2>2
<1>18. WithinCap'
  <2> DEFINE A == {d \in Clients : entries[d] # None}
  <2>1. A \in SUBSET Clients  OBVIOUS
  <2>2. A' \in SUBSET A  BY <1>6
  <2>3. IsFiniteSet(A)  BY <2>1, SubsetBound, ConstantsTyped
  <2>4. Live = Cardinality(A) /\ Live' = Cardinality(A')  BY DEF Live
  <2> HIDE DEF A
  <2>5. Live' \in Nat /\ Live \in Nat /\ Live' <= Live  BY <2>2, <2>3, <2>4, SubsetBound
  <2>6. Pending' = Pending /\ Pending \in Nat /\ Pending' \in Nat /\ Pending' <= Pending
    <3>1. In(sock, {"build"}) \in SUBSET Slots  BY DEF In
    <3> QED  BY <3>1, SubsetBound, ConstantsTyped DEF Pending
  <2>7. Live + Pending <= Cap /\ Cap \in Nat  BY ConstantsTyped DEF IInv, WithinCap
  <2>8. Live' + Pending' <= Cap  BY <2>5, <2>6, <2>7, FewerFit
  <2> QED  BY <2>8 DEF WithinCap
<1>19. ServeInv'
  <2>1. \A d : Serving(d)' = Serving(d)  BY SocketsStay
  <2>2. Serving(c) = {}
    <3>1. Cardinality(Serving(c)) = 0  BY <1>1 DEF IInv, ServeInv
    <3>2. IsFiniteSet(Serving(c))  BY ServingFacts
    <3> QED  BY <3>1, <3>2, FS_EmptySet
  <2>3. ASSUME NEW t \in Slots, sock'[t].pc = "serving"
        PROVE  entries'[Client(t)'] # None /\ entries'[Client(t)'].hub = sock'[t].hub
    <3>1. sock[t].pc = "serving" /\ Client(t)' = Client(t) /\ sock'[t] = sock[t]  BY <1>12, <2>3
    <3>2. Client(t) # c  BY <2>2, <3>1 DEF Serving
    <3>3. Client(t) \in Clients  BY <3>1, SocketFacts DEF IInv, Types, Client
    <3> QED  BY <1>6, <3>1, <3>2, <3>3 DEF IInv, ServeInv
  <2>4. \A d \in Clients : entries'[d] # None => entries'[d].sockets = Cardinality(Serving(d)')
    BY <1>6, <2>1 DEF IInv, ServeInv
  <2> QED  BY <2>3, <2>4 DEF ServeInv
<1>20. TimerInv'
  <2> SUFFICES ASSUME NEW d \in Clients, entries'[d] # None
               PROVE  /\ entries'[d].timer # 0 <=> entries'[d].sockets = 0
                      /\ entries'[d].timer # 0 =>
                           /\ timers'[entries'[d].timer].pc \in {"sleep", "wait"}
                           /\ timers'[entries'[d].timer].client = d
    BY DEF TimerInv
  <2>1. d # c /\ entries'[d] = entries[d] /\ entries[d] # None  BY <1>6
  <2>2. entries[d].timer \in {0} \cup Timers  BY <2>1, EntryFacts DEF IInv, Types
  <2>3. entries[d].timer # 0 => entries[d].timer # e  BY <2>1 DEF IInv, TimerInv
  <2> QED  BY <1>5, <2>1, <2>2, <2>3 DEF IInv, TimerInv
<1>21. PanelInv'  BY SocketsStay
<1>22. ServerInv'  BY <1>10 DEF IInv, ServerInv
<1> QED  BY <1>11, <1>13, <1>15, <1>16, <1>17, <1>18, <1>19, <1>20, <1>21, <1>22 DEF IInv

LEMMA TimerEntersKeeps ==
    ASSUME IInv, NEW e \in Timers, TimerEnters(e)
    PROVE  IInv'
<1>1. timers[e].pc = "wait" /\ UNCHANGED <<server, orphans, sock, panel, mounts, faults>>
  BY DEF TimerEnters, budgets
<1>2. CASE timers[e].client \notin Idle
  <2>1. timers' = [timers EXCEPT ![e] = NoTimer] /\ UNCHANGED <<entries, locks, hubs>>
    BY <1>2 DEF TimerEnters
  <2> QED  BY <1>1, <1>2, <2>1, TimerIdles
<1>3. CASE timers[e].client \in Idle
  <2>1. PICK c \in Idle : c = timers[e].client  BY <1>3
  <2>2. /\ entries' = [entries EXCEPT ![c] = None]
        /\ hubs' = [hubs EXCEPT ![entries[c].hub] = "stopping"]
        /\ timers' = [timers EXCEPT ![e] = [pc |-> "stop", client |-> c, lock |-> timers[e].lock,
                                           hub |-> entries[c].hub]]
        /\ locks' = DropLock(locks, entries', sock, c)
    BY <1>3, <2>1 DEF TimerEnters
  <2> QED  BY <1>1, <2>1, <2>2, TimerEvicts
<1> QED  BY <1>2, <1>3

\* A timer that has stopped its hub is done with it.
LEMMA TimerDoneKeeps ==
    ASSUME IInv, NEW e \in Timers, TimerDone(e)
    PROVE  IInv'
<1>1. /\ timers[e].pc = "stop" /\ timers' = [timers EXCEPT ![e] = NoTimer]
      /\ hubs' = [hubs EXCEPT ![timers[e].hub] = "none"]
      /\ UNCHANGED <<server, entries, locks, orphans, sock, panel, mounts, faults>>
  BY DEF TimerDone, budgets
<1>2. PICK h \in HubIds : h = timers[e].hub  BY <1>1, TimerFacts DEF IInv, Types
<1>3. NoTimer.pc = "free"  BY DEF NoTimer
<1>4. /\ timers' \in [Timers -> {NoTimer} \cup Sleeping \cup Waiting \cup Stopping] /\ timers'[e] = NoTimer
      /\ \A f \in Timers : f # e => timers'[f] = timers[f]
      /\ \A f \in Timers : timers'[f].pc = "stop" => f # e /\ timers'[f] = timers[f]
  BY <1>1, <1>3 DEF IInv, Types
<1>5. /\ hubs' \in [HubIds -> {"none", "starting", "running", "stopping"}]
      /\ hubs'[h] = "none" /\ \A x \in HubIds : x # h => hubs'[x] = hubs[x]
  BY <1>1, <1>2 DEF IInv, Types
<1>6. /\ \A d \in Clients : entries[d] # None => entries[d].hub \in HubIds /\ entries[d].hub # h
      /\ \A t \in Slots : sock[t].pc \in {"build", "evict"} => sock[t].hub \in HubIds /\ sock[t].hub # h
      /\ \A f \in Timers : f # e /\ timers[f].pc = "stop" => timers[f].hub \in HubIds /\ timers[f].hub # h
      /\ \A x \in orphans : x \in HubIds /\ x # h
  <2>1. hubs[h] = "stopping"  BY <1>1, <1>2 DEF IInv, StateInv
  <2>2. \A d \in Clients : entries[d] # None => entries[d].hub \in HubIds /\ entries[d].hub # h
    BY <2>1, EntryFacts DEF IInv, Types, StateInv
  <2>3. ASSUME NEW t \in Slots, sock[t].pc \in {"build", "evict"}
        PROVE  sock[t].hub \in HubIds /\ sock[t].hub # h
    <3>1. sock[t].hub \in HubIds  BY <2>3 DEF IInv, StateInv
    <3>2. CASE sock[t].pc = "build"  BY <2>1, <3>2 DEF IInv, StateInv
    <3>3. CASE sock[t].pc = "evict"
      <4>1. sock[t].hub # timers[e].hub  BY <1>1, <3>3 DEF IInv, OwnInv
      <4> QED  BY <1>2, <3>1, <4>1
    <3> QED  BY <2>3, <3>1, <3>2, <3>3
  <2>4. \A f \in Timers : f # e /\ timers[f].pc = "stop" => timers[f].hub \in HubIds /\ timers[f].hub # h
    BY <1>1, <1>2, TimerFacts DEF IInv, Types, OwnInv
  <2>5. \A x \in orphans : x \in HubIds /\ x # h  BY <1>1, <1>2 DEF IInv, Types, OwnInv
  <2> QED  BY <2>2, <2>3, <2>4, <2>5
<1>7. Types'  BY <1>1, <1>4, <1>5 DEF IInv, Types
<1>8. LockInv'  BY <1>1, SocketsStay DEF IInv, LockInv, Asks
<1>9. StateInv'
  <2>1. \A d \in Clients : entries'[d] # None => hubs'[entries'[d].hub] = "running"
    BY <1>1, <1>5, <1>6 DEF IInv, StateInv
  <2>2. /\ \A t \in Slots : sock'[t].pc = "build" => sock'[t].hub \in HubIds /\ hubs'[sock'[t].hub] = "starting"
        /\ \A t \in Slots : sock'[t].pc = "evict" => sock'[t].hub \in HubIds /\ hubs'[sock'[t].hub] = "stopping"
    BY <1>1, <1>5, <1>6 DEF IInv, StateInv
  <2>3. \A f \in Timers : timers'[f].pc = "stop" => hubs'[timers'[f].hub] = "stopping"
    BY <1>4, <1>5, <1>6 DEF IInv, StateInv
  <2>4. \A x \in orphans' : hubs'[x] = "stopping"  BY <1>1, <1>5, <1>6 DEF IInv, StateInv
  <2> QED  BY <2>1, <2>2, <2>3, <2>4 DEF StateInv
<1>10. OwnInv'  BY <1>1, <1>4 DEF IInv, OwnInv
<1>11. KnownInv'
  <2> SUFFICES ASSUME NEW x \in HubIds, hubs'[x] # "none" PROVE Owned(x)'
    BY DEF KnownInv
  <2>1. x # h /\ Owned(x)  BY <1>5 DEF IInv, KnownInv
  <2>2. \A f \in Timers : timers[f].pc = "stop" /\ timers[f].hub = x => timers'[f] = timers[f]
    BY <1>2, <1>4, <2>1
  <2> QED  BY <1>1, <2>1, <2>2 DEF Owned
<1>12. WithinCap'  BY <1>1, SocketsStay DEF IInv, WithinCap, Live, Pending
<1>13. ServeInv'  BY <1>1, SocketsStay DEF IInv, ServeInv
<1>14. TimerInv'
  <2> SUFFICES ASSUME NEW d \in Clients, entries[d] # None
               PROVE  /\ entries[d].timer # 0 <=> entries[d].sockets = 0
                      /\ entries[d].timer # 0 =>
                           /\ timers'[entries[d].timer].pc \in {"sleep", "wait"}
                           /\ timers'[entries[d].timer].client = d
    BY <1>1 DEF TimerInv
  <2>1. entries[d].timer \in {0} \cup Timers  BY EntryFacts DEF IInv, Types
  <2>2. entries[d].timer # 0 => entries[d].timer # e  BY <1>1 DEF IInv, TimerInv
  <2> QED  BY <1>4, <2>1, <2>2 DEF IInv, TimerInv
<1>15. PanelInv'  BY <1>1, SocketsStay
<1>16. ServerInv'  BY <1>1 DEF IInv, ServerInv
<1> QED  BY <1>7, <1>8, <1>9, <1>10, <1>11, <1>12, <1>13, <1>14, <1>15, <1>16 DEF IInv

\* stop_all takes every hub that is entered, when no acquire is in flight; those that
\* timers are stopping stay with the timers.
LEMMA StopAllKeeps ==
    ASSUME IInv, StopAll
    PROVE  IInv'
<1> DEFINE attached == {entries[c].timer : c \in Registered}
<1>1. /\ server = "closing" /\ In(sock, {"free", "ended"}) = Slots /\ server' = "down"
      /\ orphans' = {entries[c].hub : c \in Registered}
      /\ hubs' = [x \in HubIds |-> IF x \in orphans' THEN "stopping" ELSE hubs[x]]
      /\ timers' = [e \in Timers |-> IF e \in attached THEN NoTimer ELSE timers[e]]
      /\ entries' = [c \in Clients |-> None] /\ locks' = [c \in Clients |-> 0]
      /\ UNCHANGED <<sock, panel, mounts, faults>>
  BY DEF StopAll, budgets
<1>2. \A t \in Slots : sock[t].pc \in {"free", "ended"} /\ sock'[t] = sock[t]  BY <1>1 DEF In
<1>3. orphans = {}  BY <1>1 DEF IInv, ServerInv
<1>4. \A c \in Registered : c \in Clients /\ entries[c] # None /\ entries[c].hub \in HubIds
                            /\ hubs[entries[c].hub] = "running"
  BY EntryFacts DEF IInv, Types, StateInv, Registered
<1>5. orphans' \subseteq HubIds /\ \A x \in orphans' : hubs[x] = "running"  BY <1>1, <1>4
<1>6. \A e \in Timers : e \in attached => timers[e].pc \in {"sleep", "wait"}
  BY <1>4, ConstantsTyped DEF IInv, TimerInv
<1>7. NoTimer.pc = "free"  BY DEF NoTimer
<1> HIDE DEF attached
<1>8. /\ \A f \in Timers : timers[f].pc = "stop" => timers'[f] = timers[f]
      /\ \A f \in Timers : timers'[f].pc = "stop" => timers'[f] = timers[f]
  BY <1>1, <1>6, <1>7
<1>9. timers' \in [Timers -> {NoTimer} \cup Sleeping \cup Waiting \cup Stopping]
  BY <1>1 DEF IInv, Types
<1>10. /\ hubs' \in [HubIds -> {"none", "starting", "running", "stopping"}]
       /\ \A x \in HubIds : hubs'[x] = IF x \in orphans' THEN "stopping" ELSE hubs[x]
  BY <1>1 DEF IInv, Types
<1>11. \A c \in Clients : entries'[c] = None /\ locks'[c] = 0  BY <1>1
<1>12. Types'
  <2>1. entries' \in [Clients -> {None} \cup Entry] /\ locks' \in [Clients -> {0} \cup Locks]  BY <1>1
  <2> QED  BY <1>1, <1>5, <1>9, <1>10, <2>1 DEF IInv, Types
<1>13. LockInv'  BY <1>2, <1>11 DEF LockInv, Asking, PastLock
<1>14. StateInv'
  <2>1. ASSUME NEW f \in Timers, timers'[f].pc = "stop" PROVE hubs'[timers'[f].hub] = "stopping"
    <3>1. timers'[f] = timers[f] /\ timers[f].pc = "stop"  BY <1>8, <2>1
    <3>2. timers[f].hub \in HubIds  BY <3>1, TimerFacts DEF IInv, Types
    <3>3. hubs[timers[f].hub] = "stopping"  BY <3>1 DEF IInv, StateInv
    <3> QED  BY <1>10, <3>1, <3>2, <3>3
  <2>2. \A x \in orphans' : hubs'[x] = "stopping"  BY <1>5, <1>10
  <2> QED  BY <1>2, <1>11, <2>1, <2>2 DEF StateInv
<1>15. OwnInv'
  <2>1. \A f, g \in Timers : f # g /\ timers'[f].pc = "stop" /\ timers'[g].pc = "stop" =>
          timers'[f].hub # timers'[g].hub
    BY <1>8 DEF IInv, OwnInv
  <2>2. \A x \in orphans' : \A f \in Timers : timers'[f].pc = "stop" => timers'[f].hub # x
    BY <1>5, <1>8 DEF IInv, StateInv
  <2> QED  BY <1>2, <1>11, <2>1, <2>2 DEF OwnInv
<1>16. KnownInv'
  <2> SUFFICES ASSUME NEW x \in HubIds, hubs'[x] # "none", x \notin orphans' PROVE Owned(x)'
    BY DEF KnownInv, Owned
  <2>1. Owned(x)  BY <1>10 DEF IInv, KnownInv
  <2>2. ~\E c \in Clients : entries[c] # None /\ entries[c].hub = x  BY <1>1 DEF Registered
  <2>3. PICK f \in Timers : timers[f].pc = "stop" /\ timers[f].hub = x
    BY <1>2, <1>3, <2>1, <2>2 DEF Owned
  <2> QED  BY <1>8, <2>3 DEF Owned
<1>17. WithinCap'
  <2> DEFINE A == {d \in Clients : entries[d] # None}
  <2>1. A \in SUBSET Clients  OBVIOUS
  <2>2. A' \in SUBSET A  BY <1>11
  <2>3. IsFiniteSet(A)  BY <2>1, SubsetBound, ConstantsTyped
  <2>4. Live = Cardinality(A) /\ Live' = Cardinality(A')  BY DEF Live
  <2> HIDE DEF A
  <2>5. Live' \in Nat /\ Live \in Nat /\ Live' <= Live  BY <2>2, <2>3, <2>4, SubsetBound
  <2>6. Pending' = Pending /\ Pending \in Nat /\ Pending' \in Nat /\ Pending' <= Pending
    <3>1. In(sock, {"build"}) \in SUBSET Slots  BY DEF In
    <3> QED  BY <1>1, <3>1, SubsetBound, ConstantsTyped DEF Pending
  <2>7. Live + Pending <= Cap /\ Cap \in Nat  BY ConstantsTyped DEF IInv, WithinCap
  <2>8. Live' + Pending' <= Cap  BY <2>5, <2>6, <2>7, FewerFit
  <2> QED  BY <2>8 DEF WithinCap
<1>18. ServeInv'  BY <1>2, <1>11 DEF ServeInv
<1>19. TimerInv'  BY <1>11 DEF TimerInv
<1>20. PanelInv'  BY <1>1, SocketsStay
<1>21. ServerInv'  BY <1>1, <1>2, <1>11 DEF ServerInv
<1> QED  BY <1>12, <1>13, <1>14, <1>15, <1>16, <1>17, <1>18, <1>19, <1>20, <1>21 DEF IInv

LEMMA StopAllEndsKeeps ==
    ASSUME IInv, StopAllEnds
    PROVE  IInv'
<1>1. PICK h \in orphans :
        /\ orphans' = orphans \ {h} /\ hubs' = [hubs EXCEPT ![h] = "none"]
        /\ UNCHANGED <<server, entries, locks, sock, timers, panel, mounts, faults>>
  BY DEF StopAllEnds, budgets
<1>2. /\ server = "down" /\ \A t \in Slots : sock[t].pc \in {"free", "ended"}
      /\ \A c \in Clients : entries[c] = None
  BY DEF IInv, ServerInv
<1>3. h \in HubIds /\ orphans \subseteq HubIds  BY DEF IInv, Types
<1>4. /\ hubs' \in [HubIds -> {"none", "starting", "running", "stopping"}]
      /\ hubs'[h] = "none" /\ \A x \in HubIds : x # h => hubs'[x] = hubs[x]
  BY <1>1, <1>3 DEF IInv, Types
<1>5. \A f \in Timers : timers[f].pc = "stop" => timers[f].hub \in HubIds /\ timers[f].hub # h
  BY TimerFacts DEF IInv, Types, OwnInv
<1>6. Types'  BY <1>1, <1>4 DEF IInv, Types
<1>7. LockInv'  BY <1>1, SocketsStay DEF IInv, LockInv, Asks
<1>8. StateInv'
  <2>1. \A f \in Timers : timers'[f].pc = "stop" => hubs'[timers'[f].hub] = "stopping"
    BY <1>1, <1>4, <1>5 DEF IInv, StateInv
  <2>2. \A x \in orphans' : hubs'[x] = "stopping"  BY <1>1, <1>3, <1>4 DEF IInv, StateInv
  <2> QED  BY <1>1, <1>2, <2>1, <2>2 DEF StateInv
<1>9. OwnInv'  BY <1>1 DEF IInv, OwnInv
<1>10. KnownInv'
  <2> SUFFICES ASSUME NEW x \in HubIds, hubs'[x] # "none" PROVE Owned(x)'
    BY DEF KnownInv
  <2>1. x # h /\ Owned(x)  BY <1>4 DEF IInv, KnownInv
  <2> QED  BY <1>1, <2>1 DEF Owned
<1>11. WithinCap'  BY <1>1, SocketsStay DEF IInv, WithinCap, Live, Pending
<1>12. ServeInv'  BY <1>1, SocketsStay DEF IInv, ServeInv
<1>13. TimerInv'  BY <1>1 DEF IInv, TimerInv
<1>14. PanelInv'  BY <1>1, SocketsStay
<1>15. ServerInv'  BY <1>1, <1>2 DEF ServerInv
<1> QED  BY <1>6, <1>7, <1>8, <1>9, <1>10, <1>11, <1>12, <1>13, <1>14, <1>15 DEF IInv

-----------------------------------------------------------------------------
(* The invariant *)

LEMMA InitHolds == Init => IInv
<1> SUFFICES ASSUME Init PROVE IInv  OBVIOUS
<1>1. NoSocket.pc = "free" /\ NoTimer.pc = "free"  BY DEF NoSocket, NoTimer
<1>2. /\ server = "up" /\ orphans = {} /\ mounts = 0 /\ faults = 0
      /\ \A c \in Clients : entries[c] = None /\ locks[c] = 0
      /\ \A x \in HubIds : hubs[x] = "none"
      /\ \A s \in Slots : sock[s] = NoSocket
      /\ \A e \in Timers : timers[e] = NoTimer
  BY DEF Init
<1>3. Types
  <2>1. [pc |-> "off", ref |-> 0] \in Panel  BY DEF Panel
  <2>2. panel \in [Panels -> Panel]  BY <2>1 DEF Init
  <2>3. 0 \in 0..MaxMounts /\ 0 \in 0..MaxFaults  BY ConstantsTyped
  <2> QED  BY <1>2, <2>2, <2>3 DEF Init, Types
<1>4. LockInv  BY <1>1, <1>2 DEF LockInv, Asking, PastLock
<1>5. StateInv /\ OwnInv /\ KnownInv  BY <1>1, <1>2 DEF StateInv, OwnInv, KnownInv
<1>6. ServeInv  BY <1>1, <1>2 DEF ServeInv
<1>7. WithinCap
  <2>1. {c \in Clients : entries[c] # None} = {}  BY <1>2
  <2>2. In(sock, {"build"}) = {}  BY <1>1, <1>2 DEF In
  <2>3. Live = 0 /\ Pending = 0  BY <2>1, <2>2, FS_EmptySet DEF Live, Pending
  <2> QED  BY <2>3, ConstantsTyped DEF WithinCap
<1>8. TimerInv  BY <1>2 DEF TimerInv
<1>9. PanelInv  BY <1>1, <1>2 DEF PanelInv
<1>10. ServerInv  BY <1>2 DEF ServerInv
<1> QED  BY <1>3, <1>4, <1>5, <1>6, <1>7, <1>8, <1>9, <1>10 DEF IInv

LEMMA MakeRoomKeeps ==
    ASSUME IInv, NEW s \in Slots,
           (sock[s].pc = "wait" /\ ~Held(sock[s].lock)) \/ sock[s].pc = "room",
           entries[Client(s)] = None, MakeRoom(s), UNCHANGED <<server, orphans, panel, budgets>>
    PROVE  IInv'
<1>1. CASE Reserve(s)  BY <1>1, ReserveKeeps
<1>2. CASE EvictOther(s)  BY <1>2, EvictOtherKeeps
<1>3. CASE Refuse(s)
  <2>1. sock[s].pc \in {"wait", "room"}  OBVIOUS
  <2> QED  BY <1>3, <2>1, RefuseKeeps
<1> QED  BY <1>1, <1>2, <1>3 DEF MakeRoom

LEMMA EnterKeeps ==
    ASSUME IInv, NEW s \in Slots, Enter(s)
    PROVE  IInv'
<1>1. sock[s].pc = "wait" /\ ~Held(sock[s].lock) /\ UNCHANGED <<server, orphans, panel, budgets>>
  BY DEF Enter
<1>2. CASE entries[Client(s)] # None
  <2>1. Join(s)  BY <1>2 DEF Enter
  <2> QED  BY <1>1, <2>1, JoinKeeps
<1>3. CASE entries[Client(s)] = None
  <2>1. MakeRoom(s)  BY <1>3 DEF Enter
  <2> QED  BY <1>1, <1>3, <2>1, MakeRoomKeeps
<1> QED  BY <1>2, <1>3

LEMMA TryAgainKeeps ==
    ASSUME IInv, NEW s \in Slots, TryAgain(s)
    PROVE  IInv'
<1>1. sock[s].pc = "room" /\ MakeRoom(s) /\ UNCHANGED <<server, orphans, panel, budgets>>
  BY DEF TryAgain
<1>2. entries[Client(s)] = None  BY <1>1 DEF IInv, LockInv, PastLock
<1> QED  BY <1>1, <1>2, MakeRoomKeeps

LEMMA NextKeeps ==
    ASSUME IInv, [Next]_vars
    PROVE  IInv'
<1>1. CASE Progress
  <2>1. CASE \E s \in Slots : \/ Enter(s) \/ Evicted(s) \/ TryAgain(s) \/ Built(s)
                              \/ Release(s) \/ OnClose(s)
    BY <2>1, EnterKeeps, EvictedKeeps, TryAgainKeeps, BuiltKeeps, ReleaseKeeps, OnCloseKeeps
  <2>2. CASE \E e \in Timers : TimerFires(e) \/ TimerEnters(e) \/ TimerDone(e)
    BY <2>2, TimerFiresKeeps, TimerEntersKeeps, TimerDoneKeeps
  <2>3. CASE \E p \in Panels : Connect(p)  BY <2>3, ConnectKeeps
  <2>4. CASE StopAll \/ StopAllEnds  BY <2>4, StopAllKeeps, StopAllEndsKeeps
  <2> QED  BY <1>1, <2>1, <2>2, <2>3, <2>4 DEF Progress
<1>2. CASE \E s \in Slots : BuildFails(s) \/ LinkLost(s)  BY <1>2, BuildFailsKeeps, LinkLostKeeps
<1>3. CASE \E p \in Panels : Mount(p) \/ Unmount(p)  BY <1>3, MountKeeps, UnmountKeeps
<1>4. CASE Shutdown  BY <1>4, ShutdownKeeps
<1>5. CASE UNCHANGED vars
  <2>1. UNCHANGED <<server, entries, locks, hubs, orphans, sock, timers, panel, mounts, faults>>
    BY <1>5 DEF vars
  <2>2. Types'  BY <2>1 DEF IInv, Types
  <2>3. LockInv' /\ ServeInv' /\ PanelInv'
    BY <2>1, SocketsStay DEF IInv, LockInv, ServeInv, Asks
  <2>4. StateInv' /\ OwnInv' /\ KnownInv' /\ TimerInv' /\ ServerInv'
    BY <2>1 DEF IInv, StateInv, OwnInv, KnownInv, Owned, TimerInv, ServerInv
  <2>5. WithinCap'  BY <2>1, SocketsStay DEF IInv, WithinCap, Live, Pending
  <2> QED  BY <2>2, <2>3, <2>4, <2>5 DEF IInv
<1> QED  BY <1>1, <1>2, <1>3, <1>4, <1>5 DEF Next, Terminated

\* The registry, its timers and the browsers keep all of it, in whatever order sockets
\* come and go, timers fire, hubs fail and the server shuts down.
THEOREM Invariant == Spec => []IInv
<1>1. Init => IInv  BY InitHolds
<1>2. IInv /\ [Next]_vars => IInv'  BY NextKeeps
<1> QED  BY <1>1, <1>2, PTL DEF Spec

-----------------------------------------------------------------------------
(* What follows from it *)

\* All acquires of a client share one lock, so one of them builds at most, and only
\* while there is no entry.
LEMMA OneHub == IInv => OneHubPerClient
<1> SUFFICES ASSUME IInv, NEW c \in Clients
             PROVE  Cardinality(Of(sock, c, {"build"})) + (IF entries[c] = None THEN 0 ELSE 1) <= 1
  BY DEF OneHubPerClient
<1> DEFINE B == Of(sock, c, {"build"})
<1>1. \A s \in B : s \in Slots /\ sock[s].pc = "build" /\ Client(s) = c  BY DEF Of, In, Client
<1> HIDE DEF B
<1>2. \A s, t \in B : s = t  BY <1>1 DEF IInv, LockInv, PastLock
<1>3. Cardinality(B) = IF B = {} THEN 0 ELSE 1  BY <1>2, AtMostOne
<1>4. B # {} => entries[c] = None  BY <1>1 DEF IInv, LockInv, PastLock
<1> QED  BY <1>3, <1>4 DEF B

\* The state of a hub tells which kind of owner it has, and of each kind it has one.
LEMMA OneOwner == IInv => EveryHubIsOwned
<1> SUFFICES ASSUME IInv, NEW x \in HubIds
             PROVE  Cardinality({c \in Registered : entries[c].hub = x})
                      + Cardinality({s \in In(sock, {"build", "evict"}) : sock[s].hub = x})
                      + Cardinality({e \in Timers : timers[e].pc = "stop" /\ timers[e].hub = x})
                      + (IF x \in orphans THEN 1 ELSE 0) = (IF hubs[x] = "none" THEN 0 ELSE 1)
  BY DEF EveryHubIsOwned
<1> DEFINE C == {c \in Registered : entries[c].hub = x}
           S == {s \in In(sock, {"build", "evict"}) : sock[s].hub = x}
           T == {e \in Timers : timers[e].pc = "stop" /\ timers[e].hub = x}
<1>1. \A c \in C : c \in Clients /\ entries[c] # None /\ entries[c].hub = x  BY DEF Registered
<1>2. \A s \in S : s \in Slots /\ sock[s].pc \in {"build", "evict"} /\ sock[s].hub = x  BY DEF In
<1>3. \A e \in T : e \in Timers /\ timers[e].pc = "stop" /\ timers[e].hub = x  OBVIOUS
<1>4. Owned(x) <=> C # {} \/ S # {} \/ T # {} \/ x \in orphans  BY DEF Owned, In, Registered
<1> HIDE DEF C, S, T
<1>5. \A c, d \in C : c = d  BY <1>1 DEF IInv, OwnInv
<1>6. \A s, t \in S : s = t  BY <1>2 DEF IInv, OwnInv
<1>7. \A e, f \in T : e = f  BY <1>3 DEF IInv, OwnInv
<1>8. /\ Cardinality(C) = IF C = {} THEN 0 ELSE 1
      /\ Cardinality(S) = IF S = {} THEN 0 ELSE 1
      /\ Cardinality(T) = IF T = {} THEN 0 ELSE 1
  BY <1>5, <1>6, <1>7, AtMostOne
<1>9. C # {} => hubs[x] = "running"  BY <1>1 DEF IInv, StateInv
<1>10. S # {} => hubs[x] = "starting" \/ (hubs[x] = "stopping" /\ \E s \in S : sock[s].pc = "evict")
  BY <1>2 DEF IInv, StateInv
<1>11. T # {} => hubs[x] = "stopping"  BY <1>3 DEF IInv, StateInv
<1>12. x \in orphans => hubs[x] = "stopping"  BY DEF IInv, StateInv
<1>13. T # {} => ~\E s \in S : sock[s].pc = "evict"  BY <1>2, <1>3 DEF IInv, OwnInv
<1>14. x \in orphans => T = {} /\ ~\E s \in S : sock[s].pc = "evict"  BY <1>2, <1>3 DEF IInv, OwnInv
<1>15. hubs[x] # "none" => C # {} \/ S # {} \/ T # {} \/ x \in orphans  BY <1>4 DEF IInv, KnownInv
<1>16. Cardinality(C) + Cardinality(S) + Cardinality(T) + (IF x \in orphans THEN 1 ELSE 0)
         = (IF hubs[x] = "none" THEN 0 ELSE 1)
  <2>1. CASE hubs[x] = "none"
    <3>1. C = {} /\ S = {} /\ T = {} /\ x \notin orphans  BY <1>9, <1>10, <1>11, <1>12, <2>1
    <3> QED  BY <1>8, <2>1, <3>1
  <2>2. CASE C # {}
    <3>1. S = {} /\ T = {} /\ x \notin orphans /\ hubs[x] = "running"  BY <1>9, <1>10, <1>11, <1>12, <2>2
    <3> QED  BY <1>8, <2>2, <3>1
  <2>3. CASE S # {}
    <3>1. C = {} /\ T = {} /\ x \notin orphans /\ hubs[x] # "none"
      BY <1>9, <1>10, <1>11, <1>12, <1>13, <1>14, <2>3
    <3> QED  BY <1>8, <2>3, <3>1
  <2>4. CASE T # {}
    <3>1. C = {} /\ S = {} /\ x \notin orphans /\ hubs[x] # "none"
      BY <1>9, <1>10, <1>11, <1>13, <1>14, <2>4
    <3> QED  BY <1>8, <2>4, <3>1
  <2>5. CASE x \in orphans
    <3>1. C = {} /\ S = {} /\ T = {} /\ hubs[x] # "none"  BY <1>9, <1>10, <1>12, <1>14, <2>5
    <3> QED  BY <1>8, <2>5, <3>1
  <2> QED  BY <1>15, <2>1, <2>2, <2>3, <2>4, <2>5
<1> QED  BY <1>16 DEF C, S, T

LEMMA ServedRuns == IInv => ServedHubRuns
<1> SUFFICES ASSUME IInv PROVE ServedHubRuns  OBVIOUS
<1>1. ASSUME NEW s \in In(sock, {"serving"})
      PROVE  entries[Client(s)].hub = sock[s].hub /\ hubs[sock[s].hub] = "running"
  <2>1. s \in Slots /\ sock[s].pc = "serving"  BY DEF In
  <2>2. Client(s) \in Clients  BY <2>1, SocketFacts DEF IInv, Types, Client
  <2> QED  BY <2>1, <2>2 DEF IInv, ServeInv, StateInv
<1>2. ASSUME NEW c \in Registered
      PROVE  entries[c].sockets = Cardinality(Of(sock, c, {"serving"}))
  <2>1. Of(sock, c, {"serving"}) = Serving(c)  BY DEF Of, In, Serving, Client
  <2> QED  BY <2>1 DEF IInv, ServeInv, Registered
<1> QED  BY <1>1, <1>2 DEF ServedHubRuns

\* No client has two hubs, every hub has one owner that will stop it, and a hub that
\* serves runs and counts whom it serves: connected_hub's promise to the pages.
THEOREM HubsOwned == Spec => []HubsAreOwned
<1>1. IInv => HubsAreOwned  BY OneHub, OneOwner, ServedRuns DEF HubsAreOwned, IInv
<1> QED  BY <1>1, Invariant, PTL

\* max_pipelines is never exceeded, hubs under construction included, although an
\* acquire waits for a victim's threads between the check and the reservation.
THEOREM CapHolds == Spec => []WithinCap
<1>1. IInv => WithinCap  BY DEF IInv
<1> QED  BY <1>1, Invariant, PTL

LEMMA Typed == IInv => TypeOK
<1> SUFFICES ASSUME IInv PROVE TypeOK  OBVIOUS
<1>1. \A s \in Slots : sock[s].pc \in {"free", "wait", "room", "evict", "build", "serving", "ended"}
  BY SocketFacts DEF IInv, Types
<1>2. \A e \in Timers : timers[e].pc \in {"free", "sleep", "wait", "stop"}
  BY TimerFacts DEF IInv, Types
<1> QED  BY <1>1, <1>2 DEF IInv, Types, TypeOK, Entry, Panel

LEMMA Timed == IInv => IdleIsTimed
<1> SUFFICES ASSUME IInv, NEW c \in Idle
             PROVE  /\ entries[c].timer # 0 /\ timers[entries[c].timer] # NoTimer
                    /\ timers[entries[c].timer].client = c
  BY DEF IdleIsTimed
<1>1. c \in Clients /\ entries[c] # None /\ entries[c].sockets = 0  BY DEF Idle
<1>2. /\ entries[c].timer # 0 /\ timers[entries[c].timer].pc \in {"sleep", "wait"}
      /\ timers[entries[c].timer].client = c
  BY <1>1 DEF IInv, TimerInv
<1> QED  BY <1>2 DEF NoTimer

LEMMA LocksGo == IInv => LocksAreReclaimed
<1> SUFFICES ASSUME IInv, NEW c \in Clients, locks[c] # 0, entries[c] = None
             PROVE  Acquiring(sock, c) > 0
  BY DEF LocksAreReclaimed
<1> DEFINE A == Of(sock, c, {"wait", "room", "evict", "build"})
<1>1. PICK s \in Slots : Asks(sock, s, c)  BY DEF IInv, LockInv
<1>2. s \in A  BY <1>1 DEF Of, In, Asks, Asking
<1>3. IsFiniteSet(A) /\ Cardinality(A) \in Nat
  <2>1. A \in SUBSET Slots  BY DEF Of, In
  <2> QED  BY <2>1, SubsetBound, ConstantsTyped
<1>4. Cardinality(A) # 0  BY <1>2, <1>3, FS_EmptySet
<1> HIDE DEF A
<1>5. Cardinality(A) > 0  BY <1>3, <1>4
<1> QED  BY <1>5 DEF A, Acquiring

\* An entry nobody watches has its timer, a lock goes with the last that needs it, and a
\* panel has one open socket at most, the one in its wsRef.
THEOREM NothingLeft == Spec => []NothingIsLeftBehind
<1>1. IInv => OneSocketPerPanel  BY DEF IInv, PanelInv, OneSocketPerPanel
<1>2. IInv => NothingIsLeftBehind  BY <1>1, Typed, Timed, LocksGo DEF NothingIsLeftBehind
<1> QED  BY <1>2, Invariant, PTL

-----------------------------------------------------------------------------
(* The registry implements the contract with a page *)

\* An acquire builds the hub of c.
Builds(c) == \E s \in Slots : sock[s].pc = "build" /\ Client(s) = c

\* What the contract sees of the sockets.
Seen == {"build", "serving"}
Unseen(t) ==
    sock[t].pc \in Seen \/ sock'[t].pc \in Seen =>
      sock'[t].pc = sock[t].pc /\ sock'[t].panel = sock[t].panel

LEMMA SameSockets ==
    ASSUME \A t \in Slots : Unseen(t)
    PROVE  \A c : (Builds(c)' <=> Builds(c)) /\ Serving(c)' = Serving(c)
BY DEF Unseen, Seen, Builds, Serving, Client

\* A step that the contract does not see.
LEMMA UnseenStep ==
    ASSUME \A t \in Slots : Unseen(t), UNCHANGED entries, (server' = "down") = (server = "down")
    PROVE  UNCHANGED Contract!contractVars
<1>1. \A c : (Builds(c)' <=> Builds(c)) /\ Serving(c)' = Serving(c)  BY SameSockets
<1>2. \A c \in Clients : Stage(c)' = Stage(c)  BY <1>1 DEF Stage, Builds
<1> QED  BY <1>1, <1>2 DEF Contract!contractVars, Serving

\* One socket moves: who else is built for, or served, stays.
LEMMA OthersAreSame ==
    ASSUME NEW s \in Slots, \A t \in Slots : t # s => sock'[t] = sock[t], NEW c,
           sock[s].pc \in Seen => Client(s) # c, sock'[s].pc \in Seen => Client(s)' # c
    PROVE  (Builds(c)' <=> Builds(c)) /\ Serving(c)' = Serving(c)
<1>1. \A t \in Slots : t # s => Client(t)' = Client(t)  BY DEF Client
<1> QED  BY <1>1 DEF Builds, Serving, Seen

\* The contract counts as the registry does.
LEMMA SameCount == ASSUME NEW S PROVE Contract!Cardinality(S) = Cardinality(S)
BY DEF Contract!Cardinality, Cardinality

\* The clients in use are no more than the hubs entered and being built.
LEMMA InUseIsCounted ==
    ASSUME Types
    PROVE  Contract!InUse \in Nat /\ Contract!InUse <= Live + Pending
<1> DEFINE U == {c \in Clients : Stage(c) # "none"}
           E == {c \in Clients : entries[c] # None}
           P == In(sock, {"build"})
           g == [s \in Slots |-> Client(s)]
           B == {g[s] : s \in P}
<1>1. Contract!InUse = Cardinality(U)
  <2>1. U = {c \in Clients : [d \in Clients |-> Stage(d)][c] # "none"}  OBVIOUS
  <2>2. Contract!InUse = Contract!Cardinality({c \in Clients : [d \in Clients |-> Stage(d)][c] # "none"})
    BY DEF Contract!InUse
  <2> QED  BY <2>1, <2>2, SameCount
<1>2. IsFiniteSet(E) /\ Cardinality(E) = Live
  <2>1. E \in SUBSET Clients  OBVIOUS
  <2> QED  BY <2>1, SubsetBound, ConstantsTyped DEF Live
<1>3. IsFiniteSet(P) /\ Cardinality(P) = Pending
  <2>1. P \in SUBSET Slots  BY DEF In
  <2> QED  BY <2>1, SubsetBound, ConstantsTyped DEF Pending
<1>4. U \subseteq E \cup B  BY DEF Stage, In
<1> HIDE DEF U, E, P, g
<1>5. IsFiniteSet(B) /\ Cardinality(B) \in Nat /\ Cardinality(B) <= Cardinality(P) /\ Cardinality(P) \in Nat
  BY <1>3, ImageBound
<1> HIDE DEF B
<1>6. /\ IsFiniteSet(E \cup B) /\ Cardinality(E \cup B) \in Nat /\ Cardinality(E) \in Nat
      /\ Cardinality(E \cup B) <= Cardinality(E) + Cardinality(B)
  BY <1>2, <1>5, UnionBound
<1>7. Cardinality(U) \in Nat /\ Cardinality(U) <= Cardinality(E \cup B)
  BY <1>4, <1>6, SubsetBound
<1> QED  BY <1>1, <1>2, <1>3, <1>5, <1>6, <1>7

LEMMA ReserveImplements ==
    ASSUME IInv, NEW s \in Slots,
           (sock[s].pc = "wait" /\ ~Held(sock[s].lock)) \/ sock[s].pc = "room",
           entries[Client(s)] = None, Reserve(s), UNCHANGED <<server, orphans, panel, budgets>>
    PROVE  \E c \in Clients : Contract!Begin(c)
<1> DEFINE o == sock[s]
<1>0. PICK c \in Clients : c = Client(s)  BY AtTheDoor
<1>1. PICK h : h = FreshHub  OBVIOUS
<1> DEFINE r == [o EXCEPT !.pc = "build", !.hub = h]
<1>2. ~Full /\ sock' = [sock EXCEPT ![s] = r] /\ UNCHANGED <<server, entries>>
  BY <1>1 DEF Reserve
<1>3. /\ o \in Socket /\ o.pc \in {"wait", "room"}
      /\ \A t \in Slots : t # s /\ sock[t].pc \in PastLock => Client(t) # c
  BY <1>0, AtTheDoor
<1>4. r.pc = "build" /\ r.panel = o.panel
  <2> HIDE DEF o
  <2> QED  BY <1>3 DEF Socket
<1> HIDE DEF r
<1>5. sock'[s] = r /\ \A t \in Slots : t # s => sock'[t] = sock[t]  BY <1>2 DEF IInv, Types
<1>6. Client(s)' = c  BY <1>0, <1>4, <1>5 DEF Client
<1>7. ~Builds(c)  BY <1>3 DEF Builds, PastLock
<1>8. Builds(c)'  BY <1>4, <1>5, <1>6 DEF Builds
<1>9. \A d \in Clients : d # c => (Builds(d)' <=> Builds(d))
  <2>1. sock[s].pc \notin Seen  BY <1>3 DEF Seen
  <2> QED  BY <1>5, <1>6, <2>1, OthersAreSame
<1>10. \A d \in Clients : Serving(d)' = Serving(d)
  BY <1>3, <1>4, <1>5 DEF Serving, Client
<1>11. Stage(c) = "none" /\ Stage(c)' = "building"  BY <1>0, <1>2, <1>7, <1>8 DEF Stage, Builds
<1>12. \A d \in Clients : d # c => Stage(d)' = Stage(d)  BY <1>2, <1>9 DEF Stage, Builds
<1>13. Contract!InUse < Cap
  <2>1. Live + Pending < Cap
    <3>1. ~(Live + Pending >= Cap)  BY <1>2 DEF Full
    <3>2. Live \in Nat /\ Pending \in Nat
      <4>1. {d \in Clients : entries[d] # None} \in SUBSET Clients /\ In(sock, {"build"}) \in SUBSET Slots
        BY DEF In
      <4> QED  BY <4>1, SubsetBound, ConstantsTyped DEF Live, Pending
    <3> QED  BY <3>1, <3>2, ConstantsTyped
  <2>2. Contract!InUse \in Nat /\ Contract!InUse <= Live + Pending  BY InUseIsCounted DEF IInv
  <2>3. Live + Pending \in Int
    <3>1. {d \in Clients : entries[d] # None} \in SUBSET Clients /\ In(sock, {"build"}) \in SUBSET Slots
      BY DEF In
    <3>2. Live \in Nat /\ Pending \in Nat  BY <3>1, SubsetBound, ConstantsTyped DEF Live, Pending
    <3> QED  BY <3>2
  <2> QED  BY <2>1, <2>2, <2>3, ConstantsTyped
<1>14. Contract!Begin(c)
  BY <1>2, <1>10, <1>11, <1>12, <1>13 DEF Contract!Begin, Contract!Moves, Serving
<1> QED  BY <1>14

\* A socket whose acquire ends without a hub is not seen from then on.
LEMMA FailedSocket ==
    ASSUME IInv, NEW s \in Slots, sock[s].pc # "free", NEW code \in Nat, Fail(s, code)
    PROVE  \E r : sock' = [sock EXCEPT ![s] = r] /\ r.pc \in {"free", "ended"}
<1> DEFINE o == sock[s]
           q == [o EXCEPT !.pc = "ended", !.lock = 0, !.hub = 0, !.code = code]
           r == Settled(q)
<1>1. sock' = [sock EXCEPT ![s] = r]  BY DEF Fail
<1>2. o \in Socket  BY SocketFacts DEF IInv, Types
<1>3. q \in Socket /\ q.pc = "ended"
  <2> HIDE DEF o
  <2> QED  BY <1>2 DEF Socket
<1> HIDE DEF q
<1>4. r.pc \in {"free", "ended"}  BY <1>3, SettledFacts
<1> HIDE DEF r
<1> QED  BY <1>1, <1>4

LEMMA BuildFailsImplements ==
    ASSUME IInv, NEW s \in Slots, BuildFails(s)
    PROVE  \E c \in Clients : Contract!Fail(c)
<1>1. sock[s].pc = "build" /\ Fail(s, 1011) /\ UNCHANGED <<server, entries>>
  BY DEF BuildFails
<1>2. PICK c \in Clients : c = Client(s)  BY <1>1, SocketFacts DEF IInv, Types, Client
<1>3. entries[c] = None /\ \A t \in Slots : t # s /\ sock[t].pc \in PastLock => Client(t) # c
  BY <1>1, <1>2 DEF IInv, LockInv, PastLock
<1>4. sock[s].pc # "free" /\ 1011 \in Nat  BY <1>1
<1>5. PICK r : sock' = [sock EXCEPT ![s] = r] /\ r.pc \in {"free", "ended"}
  BY <1>1, <1>4, FailedSocket
<1>6. sock'[s] = r /\ \A t \in Slots : t # s => sock'[t] = sock[t]  BY <1>5 DEF IInv, Types
<1>7. ~Builds(c)'
  <2> SUFFICES ASSUME NEW t \in Slots, sock'[t].pc = "build", Client(t)' = c PROVE FALSE  BY DEF Builds
  <2>1. t # s /\ sock'[t] = sock[t]  BY <1>5, <1>6
  <2>2. sock[t].pc \in PastLock /\ Client(t) = c  BY <2>1 DEF PastLock, Client
  <2> QED  BY <1>3, <2>1, <2>2
<1>8. Builds(c)  BY <1>1, <1>2 DEF Builds
<1>9. \A d \in Clients : d # c => (Builds(d)' <=> Builds(d))
  BY <1>2, <1>5, <1>6, OthersAreSame DEF Seen
<1>10. \A d \in Clients : Serving(d)' = Serving(d)
  BY <1>1, <1>5, <1>6 DEF Serving, Client
<1>11. Stage(c) = "building" /\ Stage(c)' = "none"  BY <1>1, <1>3, <1>7, <1>8 DEF Stage, Builds
<1>12. \A d \in Clients : d # c => Stage(d)' = Stage(d)  BY <1>1, <1>9 DEF Stage, Builds
<1>13. Contract!Fail(c)
  BY <1>1, <1>10, <1>11, <1>12, ZenonT(60) DEF Contract!Fail, Contract!Moves, Serving
<1> QED  BY <1>13

\* Socket s, that was not served, is served from c's hub.
LEMMA ServedImplements ==
    ASSUME NEW s \in Slots, NEW c \in Clients, Client(s) = c, Client(s)' = c,
           sock[s].pc # "serving", sock'[s].pc = "serving",
           \A t \in Slots : t # s => sock'[t] = sock[t]
    PROVE  Contract!Holds(s, c)
<1>1. \A d \in Clients : s \notin Serving(d)  BY DEF Serving
<1>2. \A d \in Clients : Serving(d)' = IF d = c THEN Serving(d) \cup {s} ELSE Serving(d)
  BY DEF Serving, Client
<1> DEFINE H == [d \in Clients |-> Serving(d)]
<1>3. H' = [H EXCEPT ![c] = H[c] \cup {s}] /\ \A d \in Clients : s \notin H[d]  BY <1>1, <1>2
<1> QED  BY <1>3 DEF Contract!Holds, Serving

LEMMA BuiltImplements ==
    ASSUME IInv, NEW s \in Slots, Built(s)
    PROVE  \E c \in Clients : Contract!Ready(c, s)
<1>0. PICK c \in Clients : c = Client(s)
  <2>1. sock[s].pc # "free"  BY DEF Built
  <2> QED  BY <2>1, SocketFacts DEF IInv, Types, Client
<1> DEFINE o == sock[s]
           r == [o EXCEPT !.pc = "serving", !.lock = 0]
           en == [hub |-> o.hub, sockets |-> 1, timer |-> 0]
<1>1. /\ o.pc = "build" /\ sock' = [sock EXCEPT ![s] = r] /\ entries' = [entries EXCEPT ![c] = en]
      /\ UNCHANGED server
  BY <1>0 DEF Built
<1>2. o \in Socket  BY <1>1, SocketFacts DEF IInv, Types
<1>3. entries[c] = None /\ \A t \in Slots : t # s /\ sock[t].pc \in PastLock => Client(t) # c
  BY <1>0, <1>1 DEF IInv, LockInv, PastLock
<1>4. r.pc = "serving" /\ r.panel = o.panel
  <2> HIDE DEF o
  <2> QED  BY <1>2 DEF Socket
<1>5. en # None  BY DEF None
<1> HIDE DEF r, en
<1>6. sock'[s] = r /\ \A t \in Slots : t # s => sock'[t] = sock[t]  BY <1>1 DEF IInv, Types
<1>7. Client(s)' = c  BY <1>0, <1>4, <1>6 DEF Client
<1>8. entries'[c] # None /\ \A d \in Clients : d # c => entries'[d] = entries[d]
  BY <1>1, <1>2, <1>5 DEF IInv, Types
<1>9. Stage(c) = "building"  BY <1>0, <1>1, <1>3 DEF Stage
<1>10. \A d \in Clients : d = c => Stage(d)' = "live"  BY <1>8 DEF Stage
<1>11. \A d \in Clients : d # c => (Builds(d)' <=> Builds(d))
  BY <1>0, <1>6, <1>7, OthersAreSame
<1>12. \A d \in Clients : d # c => Stage(d)' = Stage(d)  BY <1>8, <1>11 DEF Stage, Builds
<1>13. Contract!Holds(s, c)  BY <1>0, <1>1, <1>4, <1>6, <1>7, ServedImplements
<1>14. Contract!Ready(c, s)
  BY <1>1, <1>9, <1>10, <1>12, <1>13 DEF Contract!Ready, Contract!Moves
<1> QED  BY <1>14

LEMMA JoinImplements ==
    ASSUME IInv, NEW s \in Slots, sock[s].pc = "wait", ~Held(sock[s].lock), Join(s), UNCHANGED server
    PROVE  \E c \in Clients : Contract!Join(c, s)
<1> DEFINE o == sock[s]
<1>0. PICK c \in Clients : c = Client(s)  BY AtTheDoor
<1>1. PICK h : h = entries[c].hub  OBVIOUS
<1> DEFINE r == [o EXCEPT !.pc = "serving", !.lock = 0, !.hub = h]
           en == [entries[c] EXCEPT !.timer = 0, !.sockets = @ + 1]
<1>2. /\ entries[c] # None /\ sock' = [sock EXCEPT ![s] = r] /\ entries' = [entries EXCEPT ![c] = en]
  BY <1>0, <1>1 DEF Join
<1>3. o \in Socket  BY AtTheDoor
<1>4. r.pc = "serving" /\ r.panel = o.panel
  <2> HIDE DEF o
  <2> QED  BY <1>3 DEF Socket
<1>5. en # None
  <2> DEFINE x == entries[c]
             n == x.sockets + 1
  <2>1. x \in Entry  BY <1>2, <1>3, EntryFacts DEF IInv, Types
  <2>2. en = [x EXCEPT !.timer = 0, !.sockets = n]  OBVIOUS
  <2> HIDE DEF x, n
  <2>3. en.timer = 0 /\ DOMAIN en = {"hub", "sockets", "timer"}  BY <2>1, <2>2 DEF Entry
  <2> QED  BY <2>3 DEF None
<1> HIDE DEF r, en
<1>6. sock'[s] = r /\ \A t \in Slots : t # s => sock'[t] = sock[t]  BY <1>2 DEF IInv, Types
<1>7. Client(s)' = c  BY <1>0, <1>4, <1>6 DEF Client
<1>8. entries'[c] # None /\ \A d \in Clients : d # c => entries'[d] = entries[d]
  BY <1>2, <1>3, <1>5 DEF IInv, Types
<1>9. Stage(c) = "live" /\ \A d \in Clients : d = c => Stage(d)' = Stage(d)
  BY <1>2, <1>8 DEF Stage
<1>10. \A d \in Clients : d # c => (Builds(d)' <=> Builds(d))
  BY <1>0, <1>6, <1>7, OthersAreSame
<1>11. \A d \in Clients : d # c => Stage(d)' = Stage(d)  BY <1>8, <1>10 DEF Stage, Builds
<1>12. Contract!Holds(s, c)
  <2>1. sock[s].pc # "serving"  OBVIOUS
  <2> QED  BY <1>0, <1>4, <1>6, <1>7, <2>1, ServedImplements
<1>13. \A d \in Clients : Stage(d)' = Stage(d)  BY <1>9, <1>11
<1>14. Contract!Join(c, s)  BY <1>9, <1>12, <1>13 DEF Contract!Join
<1> QED  BY <1>14

\* The last socket out leaves the entry where it is.
LEMMA ReleaseKeepsEntries ==
    ASSUME IInv, NEW s \in Slots, Release(s)
    PROVE  \A d \in Clients : entries'[d] # None <=> entries[d] # None
<1>1. PICK c \in Clients : c = Client(s)
  <2>1. sock[s].pc # "free"  BY DEF Release
  <2> QED  BY <2>1, SocketFacts DEF IInv, Types, Client
<1>2. entries[c] # None  BY <1>1 DEF Release, IInv, ServeInv
<1>3. entries[c] \in Entry  BY <1>2, EntryFacts DEF IInv, Types
<1>4. PICK n, e : entries' = [entries EXCEPT ![c].sockets = n, ![c].timer = e]
  BY <1>1, <1>2, Zenon DEF Release
<1> DEFINE x == entries[c]
           en == [x EXCEPT !.sockets = n, !.timer = e]
<1>5. entries' = [entries EXCEPT ![c] = en]  BY <1>4
<1>6. en # None
  <2> HIDE DEF x
  <2>1. x \in Entry  BY <1>3 DEF x
  <2>2. en.sockets = n /\ DOMAIN en = {"hub", "sockets", "timer"}  BY <2>1 DEF Entry
  <2> QED  BY <2>2 DEF None
<1> HIDE DEF en
<1> QED  BY <1>2, <1>5, <1>6 DEF IInv, Types

LEMMA ReleaseImplements ==
    ASSUME IInv, NEW s \in Slots, Release(s)
    PROVE  \E c \in Clients : Contract!Leave(c, s)
<1> DEFINE o == sock[s]
           q == [o EXCEPT !.pc = "ended"]
           r == Settled(q)
<1>1. o.pc = "serving" /\ sock' = [sock EXCEPT ![s] = r] /\ UNCHANGED server
  BY DEF Release
<1>2. o \in Socket  BY <1>1, SocketFacts DEF IInv, Types
<1> PICK c \in Clients : c = Client(s)  BY <1>1, SocketFacts DEF IInv, Types, Client
<1>3. q \in Socket /\ q.pc = "ended"
  <2> HIDE DEF o
  <2> QED  BY <1>2 DEF Socket
<1> HIDE DEF q
<1>4. r.pc \in {"free", "ended"}  BY <1>3, SettledFacts
<1> HIDE DEF r
<1>5. sock'[s] = r /\ \A t \in Slots : t # s => sock'[t] = sock[t]  BY <1>1 DEF IInv, Types
<1>6. \A d \in Clients : entries'[d] # None <=> entries[d] # None  BY <1>1, ReleaseKeepsEntries
<1>7. \A d \in Clients : Builds(d)' <=> Builds(d)  BY <1>1, <1>4, <1>5 DEF Builds, Client
<1>8. \A d \in Clients : Stage(d)' = Stage(d)  BY <1>6, <1>7 DEF Stage, Builds
<1>9. s \in Serving(c)  BY <1>1 DEF Serving
<1>10. \A d \in Clients : Serving(d)' = IF d = c THEN Serving(d) \ {s} ELSE Serving(d)
  BY <1>1, <1>4, <1>5 DEF Serving, Client
<1> DEFINE H == [d \in Clients |-> Serving(d)]
<1>11. s \in H[c] /\ H' = [H EXCEPT ![c] = H[c] \ {s}]  BY <1>9, <1>10
<1>12. Contract!Leave(c, s)  BY <1>1, <1>8, <1>11 DEF Contract!Leave, Serving
<1> QED  BY <1>12

\* An eviction takes the entry of a client of whom no socket is served.
LEMMA EvictionImplements ==
    ASSUME IInv, NEW v \in Idle, entries' = [entries EXCEPT ![v] = None], UNCHANGED server,
           \A t \in Slots : Unseen(t)
    PROVE  Contract!Evict(v) /\ v \in Clients
<1>1. v \in Clients /\ entries[v] # None /\ entries[v].sockets = 0  BY DEF Idle
<1>2. entries'[v] = None /\ \A d \in Clients : d # v => entries'[d] = entries[d]
  BY <1>1 DEF IInv, Types
<1>3. \A d : (Builds(d)' <=> Builds(d)) /\ Serving(d)' = Serving(d)  BY SameSockets
<1>4. ~Builds(v)  BY <1>1 DEF Builds, IInv, LockInv, PastLock
<1>5. Serving(v) = {}
  <2>1. Cardinality(Serving(v)) = 0  BY <1>1 DEF IInv, ServeInv
  <2> QED  BY <2>1, ServingFacts, FS_EmptySet
<1>6. Stage(v) = "live"  BY <1>1 DEF Stage
<1>7. \A d \in Clients : d = v => Stage(d)' = "none"  BY <1>2, <1>3, <1>4 DEF Stage, Builds
<1>8. \A d \in Clients : d # v => Stage(d)' = Stage(d)  BY <1>2, <1>3 DEF Stage, Builds
<1> QED  BY <1>1, <1>3, <1>5, <1>6, <1>7, <1>8 DEF Contract!Evict, Contract!Moves, Serving

LEMMA StopAllImplements ==
    ASSUME IInv, StopAll PROVE Contract!StopAll
<1>1. /\ server = "closing" /\ In(sock, {"free", "ended"}) = Slots /\ server' = "down" /\ UNCHANGED sock
      /\ entries' = [c \in Clients |-> None]
  BY DEF StopAll
<1>2. \A t \in Slots : sock[t].pc \in {"free", "ended"}  BY <1>1 DEF In
<1>3. \A c \in Clients : Stage(c)' = IF Stage(c) = "live" THEN "none" ELSE Stage(c)
  BY <1>1, <1>2 DEF Stage
<1>4. \A c \in Clients : Serving(c)' = Serving(c)  BY <1>1 DEF Serving, Client
<1> QED  BY <1>1, <1>3, <1>4 DEF Contract!StopAll, Serving

\* A socket moves between states that the contract does not see.
LEMMA MoveIsUnseen ==
    ASSUME IInv, NEW s \in Slots, NEW r, sock' = [sock EXCEPT ![s] = r],
           sock[s].pc \notin Seen, r.pc \notin Seen
    PROVE  \A t \in Slots : Unseen(t)
<1>1. sock'[s] = r /\ \A t \in Slots : t # s => sock'[t] = sock[t]  BY DEF IInv, Types
<1> QED  BY <1>1 DEF Unseen

\* Whoever is refused was not seen, nor is whoever has ended.
LEMMA RefusalIsUnseen ==
    ASSUME IInv, NEW s \in Slots, sock[s].pc \in {"wait", "room"}, Refuse(s)
    PROVE  (\A t \in Slots : Unseen(t)) /\ UNCHANGED entries
<1>1. Fail(s, 1013) /\ UNCHANGED entries /\ sock[s].pc # "free" /\ 1013 \in Nat  BY DEF Refuse
<1>2. PICK r : sock' = [sock EXCEPT ![s] = r] /\ r.pc \in {"free", "ended"}  BY <1>1, FailedSocket
<1>3. r.pc \notin Seen /\ sock[s].pc \notin Seen  BY <1>2 DEF Seen
<1> QED  BY <1>1, <1>2, <1>3, MoveIsUnseen, ZenonT(60)

\* Whoever makes room by stopping a hub is not seen yet; the hub's client is.
LEMMA EvictOtherImplements ==
    ASSUME IInv, NEW s \in Slots, sock[s].pc \in {"wait", "room"}, EvictOther(s), UNCHANGED server
    PROVE  \E v \in Clients : Contract!Evict(v)
<1> DEFINE o == sock[s]
<1>1. PICK v \in Idle : /\ entries' = [entries EXCEPT ![v] = None]
                       /\ sock' = [sock EXCEPT ![s].pc = "evict", ![s].hub = entries[v].hub]
  BY DEF EvictOther
<1>2. PICK h : h = entries[v].hub  OBVIOUS
<1> DEFINE r == [o EXCEPT !.pc = "evict", !.hub = h]
<1>3. sock' = [sock EXCEPT ![s] = r]  BY <1>1, <1>2
<1>4. o \in Socket  BY SocketFacts DEF IInv, Types
<1>5. r.pc = "evict"
  <2> HIDE DEF o
  <2> QED  BY <1>4 DEF Socket
<1> HIDE DEF r
<1>6. r.pc \notin Seen /\ sock[s].pc \notin Seen  BY <1>5 DEF Seen
<1>7. \A t \in Slots : Unseen(t)  BY <1>3, <1>6, MoveIsUnseen
<1> QED  BY <1>1, <1>7, EvictionImplements

LEMMA MakeRoomImplements ==
    ASSUME IInv, NEW s \in Slots,
           (sock[s].pc = "wait" /\ ~Held(sock[s].lock)) \/ sock[s].pc = "room",
           entries[Client(s)] = None, MakeRoom(s), UNCHANGED <<server, orphans, panel, budgets>>
    PROVE  [Contract!Next]_Contract!contractVars
<1>1. sock[s].pc \in {"wait", "room"} /\ UNCHANGED server  OBVIOUS
<1>2. CASE Reserve(s)
  <2>1. \E c \in Clients : Contract!Begin(c)  BY <1>2, ReserveImplements
  <2> QED  BY <2>1 DEF Contract!Next
<1>3. CASE EvictOther(s)
  <2>1. \E v \in Clients : Contract!Evict(v)  BY <1>1, <1>3, EvictOtherImplements
  <2> QED  BY <2>1 DEF Contract!Next
<1>4. CASE Refuse(s)
  <2>1. (\A t \in Slots : Unseen(t)) /\ UNCHANGED entries  BY <1>1, <1>4, RefusalIsUnseen
  <2> QED  BY <1>1, <2>1, UnseenStep
<1> QED  BY <1>2, <1>3, <1>4 DEF MakeRoom

LEMMA EnterImplements ==
    ASSUME IInv, NEW s \in Slots, Enter(s)
    PROVE  [Contract!Next]_Contract!contractVars
<1>1. sock[s].pc = "wait" /\ ~Held(sock[s].lock) /\ UNCHANGED <<server, orphans, panel, budgets>>
  BY DEF Enter
<1>2. CASE entries[Client(s)] # None
  <2>1. Join(s) /\ UNCHANGED server  BY <1>1, <1>2 DEF Enter
  <2>2. \E c \in Clients : Contract!Join(c, s)  BY <1>1, <2>1, JoinImplements
  <2> QED  BY <2>2 DEF Contract!Next
<1>3. CASE entries[Client(s)] = None
  <2>1. MakeRoom(s)  BY <1>3 DEF Enter
  <2> QED  BY <1>1, <1>3, <2>1, MakeRoomImplements
<1> QED  BY <1>2, <1>3

LEMMA TryAgainImplements ==
    ASSUME IInv, NEW s \in Slots, TryAgain(s)
    PROVE  [Contract!Next]_Contract!contractVars
<1>1. sock[s].pc = "room" /\ MakeRoom(s) /\ UNCHANGED <<server, orphans, panel, budgets>>
  BY DEF TryAgain
<1>2. entries[Client(s)] = None  BY <1>1 DEF IInv, LockInv, PastLock
<1> QED  BY <1>1, <1>2, MakeRoomImplements

LEMMA TimerEntersImplements ==
    ASSUME IInv, NEW e \in Timers, TimerEnters(e)
    PROVE  [Contract!Next]_Contract!contractVars
<1> DEFINE c == timers[e].client
<1>1. UNCHANGED <<server, sock>>  BY DEF TimerEnters
<1>2. \A t \in Slots : Unseen(t)  BY <1>1 DEF Unseen
<1>3. CASE c \notin Idle
  <2>1. UNCHANGED entries  BY <1>3 DEF TimerEnters
  <2> QED  BY <1>1, <1>2, <2>1, UnseenStep
<1>4. CASE c \in Idle
  <2>1. entries' = [entries EXCEPT ![c] = None]  BY <1>4 DEF TimerEnters
  <2>2. PICK v \in Idle : v = c  BY <1>4
  <2>3. Contract!Evict(v) /\ v \in Clients  BY <1>1, <1>2, <2>1, <2>2, EvictionImplements
  <2> QED  BY <2>3 DEF Contract!Next
<1> QED  BY <1>3, <1>4

\* A browser's socket that begins, and one whose close it hears of, are not seen.
LEMMA ConnectIsUnseen ==
    ASSUME IInv, NEW p \in Panels, Connect(p)
    PROVE  \A t \in Slots : Unseen(t)
<1> DEFINE free == {s \in Slots : sock[s] = NoSocket}
           m == Min(free)
<1>1. PICK l : sock' = [sock EXCEPT ![m] =
                 [pc |-> "wait", panel |-> p, lock |-> l, hub |-> 0, code |-> 0,
                  up |-> TRUE, seen |-> FALSE, disposed |-> FALSE]]
  BY DEF Connect
<1>2. free # {}  BY DEF Connect
<1>3. PICK s \in Slots : s = m /\ sock[s] = NoSocket
  <2>1. free \in SUBSET Nat  BY ConstantsTyped
  <2> HIDE DEF free
  <2>2. m \in free  BY <1>2, <2>1, LeastNumber
  <2> QED  BY <2>2 DEF free
<1> HIDE DEF free, m
<1>4. sock[s].pc \notin Seen  BY <1>3 DEF NoSocket, Seen
<1> QED  BY <1>1, <1>3, <1>4, MoveIsUnseen DEF Seen

LEMMA OnCloseIsUnseen ==
    ASSUME IInv, NEW s \in Slots, OnClose(s)
    PROVE  \A t \in Slots : Unseen(t)
<1> DEFINE o == sock[s]
           q == [o EXCEPT !.seen = TRUE, !.up = FALSE]
           r == Settled(q)
<1>1. o.pc # "free" /\ sock' = [sock EXCEPT ![s] = r]  BY DEF OnClose
<1>2. o \in Socket  BY <1>1, SocketFacts DEF IInv, Types
<1>3. q \in Socket /\ q.pc = o.pc /\ q.panel = o.panel
  <2> HIDE DEF o
  <2> QED  BY <1>2 DEF Socket
<1> HIDE DEF q
<1>4. (r.pc = o.pc /\ r.panel = o.panel) \/ (o.pc = "ended" /\ r.pc = "free")
  BY <1>1, <1>3 DEF Settled, NoSocket
<1> HIDE DEF r
<1>5. sock'[s] = r /\ \A t \in Slots : t # s => sock'[t] = sock[t]  BY <1>1 DEF IInv, Types
<1> QED  BY <1>4, <1>5 DEF Unseen, Seen

LEMMA LinkLostIsUnseen ==
    ASSUME IInv, NEW s \in Slots, LinkLost(s)
    PROVE  \A t \in Slots : Unseen(t)
<1> DEFINE o == sock[s]
           r == [o EXCEPT !.up = FALSE]
<1>1. o \in Socket /\ sock' = [sock EXCEPT ![s] = r]  BY SocketFacts DEF IInv, Types, LinkLost
<1>2. r.pc = o.pc /\ r.panel = o.panel
  <2> HIDE DEF o
  <2> QED  BY <1>1 DEF Socket
<1> HIDE DEF r
<1>3. sock'[s] = r /\ \A t \in Slots : t # s => sock'[t] = sock[t]  BY <1>1 DEF IInv, Types
<1> QED  BY <1>2, <1>3 DEF Unseen

LEMMA UnmountIsUnseen ==
    ASSUME IInv, NEW p \in Panels, Unmount(p)
    PROVE  \A t \in Slots : Unseen(t)
<1> SUFFICES ASSUME NEW t \in Slots PROVE Unseen(t)  OBVIOUS
<1> DEFINE o == sock[t]
           a == o.up /\ t # panel[p].ref
           r == [o EXCEPT !.disposed = TRUE, !.up = a]
<1>1. sock'[t] = IF o.pc = "free" \/ o.panel # p THEN o ELSE r  BY DEF Unmount
<1>2. o.pc # "free" => o \in Socket  BY SocketFacts DEF IInv, Types
<1> HIDE DEF a
<1>3. o.pc # "free" => r.pc = o.pc /\ r.panel = o.panel
  <2> HIDE DEF o
  <2> QED  BY <1>2 DEF Socket
<1> HIDE DEF r
<1>4. sock'[t].pc = o.pc /\ sock'[t].panel = o.panel  BY <1>1, <1>3
<1> QED  BY <1>4 DEF Unseen

LEMMA ShutdownIsUnseen ==
    ASSUME IInv, Shutdown
    PROVE  \A t \in Slots : Unseen(t)
<1> SUFFICES ASSUME NEW t \in Slots PROVE Unseen(t)  OBVIOUS
<1> DEFINE o == sock[t]
           r == [o EXCEPT !.up = FALSE]
<1>1. sock'[t] = IF o.pc = "free" THEN o ELSE r  BY DEF Shutdown
<1>2. o.pc # "free" => o \in Socket  BY SocketFacts DEF IInv, Types
<1>3. o.pc # "free" => r.pc = o.pc /\ r.panel = o.panel
  <2> HIDE DEF o
  <2> QED  BY <1>2 DEF Socket
<1> HIDE DEF r
<1>4. sock'[t].pc = o.pc /\ sock'[t].panel = o.panel  BY <1>1, <1>3
<1> QED  BY <1>4 DEF Unseen

LEMMA EvictedIsUnseen ==
    ASSUME IInv, NEW s \in Slots, Evicted(s)
    PROVE  \A t \in Slots : Unseen(t)
<1> DEFINE o == sock[s]
           r == [o EXCEPT !.pc = "room", !.hub = 0]
<1>1. o.pc = "evict" /\ o \in Socket /\ sock' = [sock EXCEPT ![s] = r]
  BY SocketFacts DEF IInv, Types, Evicted
<1>2. r.pc = "room"
  <2> HIDE DEF o
  <2> QED  BY <1>1 DEF Socket
<1> HIDE DEF r
<1>3. r.pc \notin Seen /\ sock[s].pc \notin Seen  BY <1>1, <1>2 DEF Seen
<1> QED  BY <1>1, <1>3, MoveIsUnseen

\* The steps a page does not see: calls that wait, timers, threads that end, closes.
LEMMA MostStepsAreUnseen ==
    ASSUME IInv,
           \/ \E s \in Slots : Evicted(s) \/ OnClose(s) \/ LinkLost(s)
           \/ \E e \in Timers : TimerFires(e) \/ TimerDone(e)
           \/ \E p \in Panels : Connect(p) \/ Mount(p) \/ Unmount(p)
           \/ StopAllEnds \/ Shutdown \/ Terminated \/ UNCHANGED vars
    PROVE  UNCHANGED Contract!contractVars
<1>1. UNCHANGED entries
  BY DEF Evicted, OnClose, LinkLost, TimerFires, TimerDone, Connect, Mount, Unmount, StopAllEnds,
         Shutdown, Terminated, vars
<1>2. (server' = "down") = (server = "down")
  <2>1. CASE Shutdown  BY <2>1 DEF Shutdown
  <2>2. CASE ~Shutdown
    <3>1. UNCHANGED server
      BY <2>2 DEF Evicted, OnClose, LinkLost, TimerFires, TimerDone, Connect, Mount, Unmount,
                  StopAllEnds, Terminated, vars
    <3> QED  BY <3>1
  <2> QED  BY <2>1, <2>2
<1>3. \A t \in Slots : Unseen(t)
  <2>1. CASE \E s \in Slots : Evicted(s) \/ OnClose(s) \/ LinkLost(s)
    BY <2>1, EvictedIsUnseen, OnCloseIsUnseen, LinkLostIsUnseen
  <2>2. CASE \E p \in Panels : Connect(p) \/ Unmount(p)  BY <2>2, ConnectIsUnseen, UnmountIsUnseen
  <2>3. CASE Shutdown  BY <2>3, ShutdownIsUnseen
  <2>4. CASE UNCHANGED sock  BY <2>4 DEF Unseen
  <2>5. (\E e \in Timers : TimerFires(e) \/ TimerDone(e)) \/ (\E p \in Panels : Mount(p))
          \/ StopAllEnds \/ Terminated \/ UNCHANGED vars => UNCHANGED sock
    BY DEF TimerFires, TimerDone, Mount, StopAllEnds, Terminated, vars
  <2> QED  BY <2>1, <2>2, <2>3, <2>4, <2>5
<1> QED  BY <1>1, <1>2, <1>3, UnseenStep

LEMMA InitImplements == Init => Contract!Init
<1> SUFFICES ASSUME Init PROVE Contract!Init  OBVIOUS
<1>1. \A s \in Slots : sock[s].pc = "free"  BY DEF Init, NoSocket
<1>2. \A c \in Clients : Stage(c) = "none" /\ Serving(c) = {}  BY <1>1 DEF Init, Stage, Serving
<1> QED  BY <1>2 DEF Contract!Init, Init, Serving

LEMMA StepImplements == IInv /\ [Next]_vars => [Contract!Next]_Contract!contractVars
<1> SUFFICES ASSUME IInv, [Next]_vars PROVE [Contract!Next]_Contract!contractVars  OBVIOUS
<1>1. ASSUME NEW s \in Slots, BuildFails(s) \/ Built(s) \/ Release(s)
      PROVE  Contract!Next
  <2>1. CASE BuildFails(s)
    <3>1. \E c \in Clients : Contract!Fail(c)  BY <2>1, BuildFailsImplements
    <3> QED  BY <3>1 DEF Contract!Next
  <2>2. CASE Built(s)
    <3>1. \E c \in Clients : Contract!Ready(c, s)  BY <2>2, BuiltImplements
    <3> QED  BY <3>1 DEF Contract!Next
  <2>3. CASE Release(s)
    <3>1. \E c \in Clients : Contract!Leave(c, s)  BY <2>3, ReleaseImplements
    <3> QED  BY <3>1 DEF Contract!Next
  <2> QED  BY <1>1, <2>1, <2>2, <2>3
<1>2. CASE \E s \in Slots : Enter(s) \/ TryAgain(s)  BY <1>2, EnterImplements, TryAgainImplements
<1>3. CASE \E e \in Timers : TimerEnters(e)  BY <1>3, TimerEntersImplements
<1>4. CASE StopAll  BY <1>4, StopAllImplements DEF Contract!Next
<1> QED  BY <1>1, <1>2, <1>3, <1>4, MostStepsAreUnseen DEF Next, Progress

\* The registry implements what a page relies on (hub.py, HubRegistry and connected_hub):
\* a client's hub is started once, when there is room, and joined by its other sockets; it
\* stays while one of them is served, and the hubs in use never exceed the cap.
THEOREM Implements == Spec => ImplementsContract
<1>1. Init => Contract!Init  BY InitImplements
<1>2. IInv /\ [Next]_vars => [Contract!Next]_Contract!contractVars  BY StepImplements
<1> QED  BY <1>1, <1>2, Invariant, PTL DEF Spec, ImplementsContract, Contract!Spec

=============================================================================
