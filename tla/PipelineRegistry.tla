-------------------------- MODULE PipelineRegistry --------------------------
(***************************************************************************)
(* PipelineRegistry of core/src/pswamp_core/pipeline.py: it hands out one  *)
(* pipeline run per key (one per client of the web server), caps how many  *)
(* there are, and evicts the ones nobody watches.                          *)
(*                                                                         *)
(* The registry lives on one asyncio event loop.  What a coroutine does    *)
(* between two suspensions is atomic: `loop` names the task that holds the *)
(* event loop, so a segment may be written as several actions and still    *)
(* nobody runs in between.  NoTask: every task is suspended.               *)
(*                                                                         *)
(* A task is a client's acquire() (its socket handler) or an idle timer    *)
(* (_evict_when_idle).  Lock objects have an identity, because the code    *)
(* forgets and recreates them.                                             *)
(***************************************************************************)
EXTENDS Naturals, FiniteSets, Sequences, SequencesExt

CONSTANTS
    Keys,       \* what runs are kept under: one per browser client
    Clients,    \* socket handlers; several may hold the same key
    Timers,     \* idle-timer tasks; a bound on how many exist at once
    Locks,      \* asyncio.Lock objects; a bound on how many exist at once
    MaxRuns,    \* max_runs
    IdleTicks,  \* idle_seconds, in clock ticks
    NoKey, NoLock, NoTask

Tasks == Clients \cup Timers

ASSUME RegistryAssumption ==
    /\ IsFiniteSet(Keys) /\ IsFiniteSet(Clients)
    /\ Clients \cap Timers = {}
    /\ MaxRuns \in Nat \ {0}
    /\ IdleTicks \in Nat \ {0}
    /\ NoKey \notin Keys
    /\ NoLock \notin Locks
    /\ NoTask \notin Tasks

VARIABLES
    live,       \* the keys of _entries
    sockets,    \* entry.sockets
    timerOf,    \* entry.evict_task
    age,        \* ticks since the entry's last socket was released
    older,      \* <<j, k>>: j was last used before k (entry.last_used)
    lockOf,     \* _locks
    holder,     \* per lock object: the task that holds it
    waiters,    \* per lock object: the tasks queued on it, in order
    acquiring,  \* _acquiring
    pending,    \* _pending
    pc,         \* where each task is
    key,        \* the key a task is about
    lock,       \* the lock object a task waits for or holds
    left,       \* ticks an idle timer still sleeps
    loop,       \* the task that holds the event loop
    down        \* stop_all has run

entryVars == <<live, sockets, timerOf, age, older>>
lockVars  == <<lockOf, holder, waiters>>
taskVars  == <<pc, key, lock>>
vars == <<entryVars, lockVars, acquiring, pending, taskVars, left, loop, down>>

\* "out": no session, or a timer that ended.  "lock": at `async with lock`.
\* "evict": awaiting the stop of an evicted run.  "start": awaiting run.start().
\* "abort": awaiting run.stop() after a failed start.  "in": holds a session.
\* "sleep": a timer asleep.  "cancelled": a timer cancelled while queued.
PC == {"out", "lock", "evict", "start", "abort", "in", "sleep", "cancelled"}

InFlight(c) == pc[c] \in {"lock", "evict", "start", "abort"}
Building(c) == pc[c] \in {"start", "abort"}

-----------------------------------------------------------------------------
(* Locks, the LRU order and the entries. *)

FreeLocks == {l \in Locks : /\ holder[l] = NoTask /\ waiters[l] = <<>>
                            /\ \A k \in Keys : lockOf[k] # l}
FreeTimers == {t \in Timers : pc[t] = "out" /\ \A k \in Keys : timerOf[k] # t}

\* asyncio.Lock.acquire: at once when it is free, queued (and suspended) otherwise.
Enqueue(t, l) ==
    IF holder[l] = NoTask
    THEN /\ holder' = [holder EXCEPT ![l] = t]
         /\ loop' = t
         /\ UNCHANGED waiters
    ELSE /\ waiters' = [waiters EXCEPT ![l] = Append(@, t)]
         /\ loop' = NoTask
         /\ UNCHANGED holder

\* The queue s once task t stepped out of it (a task queues at most once).
Without(s, t) == IF \E i \in 1..Len(s) : s[i] = t
                 THEN RemoveAt(s, CHOOSE i \in 1..Len(s) : s[i] = t) ELSE s

\* Task t leaves lock l: asyncio.Lock.release hands it to the first in line; a
\* task still in line just steps out of it.
Leave(t, l) ==
    IF holder[l] = t
    THEN /\ holder' = [holder EXCEPT ![l] =
                          IF waiters[l] = <<>> THEN NoTask ELSE Head(waiters[l])]
         /\ waiters' = [waiters EXCEPT ![l] = IF @ = <<>> THEN @ ELSE Tail(@)]
    ELSE /\ waiters' = [waiters EXCEPT ![l] = Without(@, t)]
         /\ UNCHANGED holder

\* Mutant: the lock is dropped although other acquires of the key are in flight.
DropLockInFlight(k, n, alive) ==
    lockOf' = IF k \notin alive THEN [lockOf EXCEPT ![k] = NoLock] ELSE lockOf

\* Mutant: the lock is never dropped.
DropLockNever(k, n, alive) == UNCHANGED lockOf

\* _drop_lock_if_unused, with n acquires in flight and `alive` the entries' keys.
DropLockIfUnused(k, n, alive) ==
    lockOf' = IF n = 0 /\ k \notin alive THEN [lockOf EXCEPT ![k] = NoLock] ELSE lockOf

Touch(k) == older' = {p \in older : p[1] # k} \cup {<<j, k>> : j \in live \ {k}}

\* _evict up to its await: the entry is gone, its idle timer is left alone.
EvictEntry(k) ==
    /\ live' = live \ {k}
    /\ sockets' = [sockets EXCEPT ![k] = 0]
    /\ timerOf' = [timerOf EXCEPT ![k] = NoTask]
    /\ age' = [age EXCEPT ![k] = 0]
    /\ older' = {p \in older : p[1] # k /\ p[2] # k}
    /\ DropLockIfUnused(k, acquiring[k], live')

\* task.cancel() on an idle timer: asleep it ends, queued on a lock it will step out.
AfterCancel(state) == CASE state = "sleep" -> "out"
                        [] state = "lock" -> "cancelled"
                        [] OTHER -> state

\* A task may run when nobody holds the event loop, or when it holds it itself.
Runs(t) == loop \in {NoTask, t}
HasLock(t) == pc[t] = "lock" /\ holder[lock[t]] = t

\* The end of acquire: the lock is released, then the finally block.
LeaveAcquire(c, state) ==
    /\ Leave(c, lock[c])
    /\ acquiring' = [acquiring EXCEPT ![key[c]] = @ - 1]
    /\ DropLockIfUnused(key[c], acquiring[key[c]] - 1, live')
    /\ lock' = [lock EXCEPT ![c] = NoLock]
    /\ key' = [key EXCEPT ![c] = IF state = "out" THEN NoKey ELSE @]
    /\ loop' = NoTask

-----------------------------------------------------------------------------
(* acquire *)

\* The call: counted before the lock is taken (setdefault makes the lock).
Acquire(c, k) ==
    /\ loop = NoTask /\ ~down /\ pc[c] = "out"
    /\ lockOf[k] = NoLock => FreeLocks # {}
    /\ \E l \in Locks :
          /\ l = IF lockOf[k] = NoLock THEN CHOOSE f \in FreeLocks : TRUE ELSE lockOf[k]
          /\ lockOf' = [lockOf EXCEPT ![k] = l]
          /\ lock' = [lock EXCEPT ![c] = l]
          /\ Enqueue(c, l)
    /\ acquiring' = [acquiring EXCEPT ![k] = @ + 1]
    /\ pc' = [pc EXCEPT ![c] = "lock"]
    /\ key' = [key EXCEPT ![c] = k]
    /\ UNCHANGED <<entryVars, pending, left, down>>

\* Mutant: the cancelled idle timer is left in the entry.
JoinKeepingTimer(c) ==
    /\ Runs(c) /\ HasLock(c) /\ key[c] \in live
    /\ pc' = [u \in Tasks |-> IF u = c THEN "in"
                              ELSE IF u = timerOf[key[c]] THEN AfterCancel(pc[u]) ELSE pc[u]]
    /\ sockets' = [sockets EXCEPT ![key[c]] = @ + 1]
    /\ age' = [age EXCEPT ![key[c]] = 0]
    /\ Touch(key[c])
    /\ live' = live
    /\ LeaveAcquire(c, "in")
    /\ UNCHANGED <<timerOf, pending, left, down>>

\* Under the lock, the key has a run: stop its idle timer and join it.
Join(c) ==
    /\ Runs(c) /\ HasLock(c) /\ key[c] \in live
    /\ LET k == key[c]
           t == timerOf[k]
       IN  /\ pc' = [u \in Tasks |-> IF u = c THEN "in"
                                     ELSE IF u = t THEN AfterCancel(pc[u]) ELSE pc[u]]
           /\ timerOf' = [timerOf EXCEPT ![k] = NoTask]
           /\ sockets' = [sockets EXCEPT ![k] = @ + 1]
           /\ age' = [age EXCEPT ![k] = 0]
           /\ Touch(k)
    /\ live' = live
    /\ LeaveAcquire(c, "in")
    /\ UNCHANGED <<pending, left, down>>

\* _make_room's loop: entered under the lock when the key has no run, and again
\* each time the stop of an evicted run returns.
AtMakeRoom(c) ==
    \/ Runs(c) /\ HasLock(c) /\ key[c] \notin live
    \/ loop = NoTask /\ pc[c] = "evict"

\* Mutant: the runs still being built are not counted.
FullOfLive == Cardinality(live) >= MaxRuns

Full == Cardinality(live) + pending >= MaxRuns

\* Mutant: whether somebody watches a run is not looked at.
AnyKeys == live

IdleKeys == {k \in live : sockets[k] = 0}

\* Room: reserve the slot and await run.start().
Build(c) ==
    /\ c \in Clients /\ AtMakeRoom(c) /\ ~Full
    /\ pending' = pending + 1
    /\ pc' = [pc EXCEPT ![c] = "start"]
    /\ loop' = NoTask
    /\ UNCHANGED <<entryVars, lockVars, acquiring, key, lock, left, down>>

\* No room: evict the least recently used run nobody watches, and await its stop.
MakeRoom(c) ==
    /\ c \in Clients /\ AtMakeRoom(c) /\ Full
    /\ \E v \in IdleKeys :
          /\ \A k \in IdleKeys \ {v} : <<v, k>> \in older
          /\ EvictEntry(v)
    /\ pc' = [pc EXCEPT ![c] = "evict"]
    /\ loop' = NoTask
    /\ UNCHANGED <<holder, waiters, acquiring, pending, key, lock, left, down>>

\* No room and every run is watched: CapacityError.
Refuse(c) ==
    /\ c \in Clients /\ AtMakeRoom(c) /\ Full /\ IdleKeys = {}
    /\ live' = live
    /\ LeaveAcquire(c, "out")
    /\ pc' = [pc EXCEPT ![c] = "out"]
    /\ UNCHANGED <<sockets, timerOf, age, older, pending, left, down>>

\* run.start() returned: the run is registered with one socket.
Started(c) ==
    /\ loop = NoTask /\ pc[c] = "start"
    /\ LET k == key[c]
       IN  /\ live' = live \cup {k}
           /\ sockets' = [sockets EXCEPT ![k] = 1]
           /\ timerOf' = [timerOf EXCEPT ![k] = NoTask]
           /\ age' = [age EXCEPT ![k] = 0]
           /\ Touch(k)
    /\ pending' = pending - 1
    /\ LeaveAcquire(c, "in")
    /\ pc' = [pc EXCEPT ![c] = "in"]
    /\ UNCHANGED <<left, down>>

\* run.start() raised, or the task was cancelled in it: await run.stop().
StartFails(c) ==
    /\ loop = NoTask /\ pc[c] = "start"
    /\ pc' = [pc EXCEPT ![c] = "abort"]
    /\ UNCHANGED <<entryVars, lockVars, acquiring, pending, key, lock, left, loop, down>>

\* The failed run is stopped: the slot is given back and acquire raises.
Aborted(c) ==
    /\ loop = NoTask /\ pc[c] = "abort"
    /\ pending' = pending - 1
    /\ live' = live
    /\ LeaveAcquire(c, "out")
    /\ pc' = [pc EXCEPT ![c] = "out"]
    /\ UNCHANGED <<sockets, timerOf, age, older, left, down>>

\* The socket handler is cancelled while queued on the lock, or while it awaits an
\* eviction (whose stop runs to its end first).
AcquireCancelled(c) ==
    /\ loop = NoTask /\ c \in Clients /\ pc[c] \in {"lock", "evict"}
    /\ live' = live
    /\ LeaveAcquire(c, "out")
    /\ pc' = [pc EXCEPT ![c] = "out"]
    /\ UNCHANGED <<sockets, timerOf, age, older, pending, left, down>>

-----------------------------------------------------------------------------
(* release, the idle timer, stop_all *)

\* The last socket of a run starts its idle timer.
Release(c) ==
    /\ loop = NoTask /\ pc[c] = "in"
    /\ LET k == key[c]
           n == IF sockets[k] = 0 THEN 0 ELSE sockets[k] - 1
       IN  \/ /\ k \in live /\ n = 0 /\ timerOf[k] = NoTask
              /\ \E t \in FreeTimers :
                    /\ t = CHOOSE f \in FreeTimers : TRUE
                    /\ pc' = [pc EXCEPT ![c] = "out", ![t] = "sleep"]
                    /\ key' = [key EXCEPT ![c] = NoKey, ![t] = k]
                    /\ left' = [left EXCEPT ![t] = IdleTicks]
                    /\ timerOf' = [timerOf EXCEPT ![k] = t]
              /\ sockets' = [sockets EXCEPT ![k] = n]
              /\ Touch(k)
           \/ /\ k \in live /\ ~(n = 0 /\ timerOf[k] = NoTask)
              /\ sockets' = [sockets EXCEPT ![k] = n]
              /\ Touch(k)
              /\ pc' = [pc EXCEPT ![c] = "out"]
              /\ key' = [key EXCEPT ![c] = NoKey]
              /\ UNCHANGED <<left, timerOf>>
           \/ /\ k \notin live
              /\ pc' = [pc EXCEPT ![c] = "out"]
              /\ key' = [key EXCEPT ![c] = NoKey]
              /\ UNCHANGED <<left, timerOf, sockets, older>>
    /\ UNCHANGED <<live, age, lockVars, acquiring, pending, lock, loop, down>>

\* The timer wakes: it queues on the key's current lock, or ends if there is none.
IdleTimeout(t) ==
    /\ loop = NoTask /\ pc[t] = "sleep" /\ left[t] = 0
    /\ IF lockOf[key[t]] = NoLock
       THEN /\ pc' = [pc EXCEPT ![t] = "out"]
            /\ key' = [key EXCEPT ![t] = NoKey]
            /\ UNCHANGED <<holder, waiters, lock, loop>>
       ELSE /\ pc' = [pc EXCEPT ![t] = "lock"]
            /\ lock' = [lock EXCEPT ![t] = lockOf[key[t]]]
            /\ Enqueue(t, lockOf[key[t]])
            /\ UNCHANGED key
    /\ UNCHANGED <<entryVars, lockOf, acquiring, pending, left, down>>

\* Under the lock, nobody watches the run: evict it and await its stop.
IdleEvict(t) ==
    /\ t \in Timers /\ Runs(t) /\ HasLock(t) /\ key[t] \in IdleKeys
    /\ EvictEntry(key[t])
    /\ pc' = [pc EXCEPT ![t] = "evict"]
    /\ loop' = NoTask
    /\ UNCHANGED <<holder, waiters, acquiring, pending, key, lock, left, down>>

\* The timer ends: there is nothing to evict, its evicted run has stopped, or it
\* was cancelled in the queue.
TimerEnds(t) ==
    /\ \/ Runs(t) /\ HasLock(t) /\ key[t] \notin IdleKeys
       \/ loop = NoTask /\ pc[t] \in {"evict", "cancelled"}
    /\ Leave(t, lock[t])
    /\ pc' = [pc EXCEPT ![t] = "out"]
    /\ key' = [key EXCEPT ![t] = NoKey]
    /\ lock' = [lock EXCEPT ![t] = NoLock]
    /\ loop' = NoTask
    /\ UNCHANGED <<entryVars, lockOf, acquiring, pending, left, down>>

\* Shutdown: every entry and lock is forgotten and the idle timers are cancelled
\* (each run's stop is then awaited).
StopAll ==
    /\ loop = NoTask /\ ~down
    /\ down' = TRUE
    /\ live' = {}
    /\ lockOf' = [k \in Keys |-> NoLock]
    /\ pc' = [u \in Tasks |-> IF \E k \in live : timerOf[k] = u
                              THEN AfterCancel(pc[u]) ELSE pc[u]]
    /\ sockets' = [k \in Keys |-> 0]
    /\ timerOf' = [k \in Keys |-> NoTask]
    /\ age' = [k \in Keys |-> 0]
    /\ older' = {}
    /\ UNCHANGED <<holder, waiters, acquiring, pending, key, lock, left, loop>>

\* Time passes for the sleeping timers and for the runs nobody watches.
Tick ==
    /\ loop = NoTask
    /\ \E t \in Timers : pc[t] = "sleep" /\ left[t] > 0
    /\ left' = [t \in Timers |-> IF pc[t] = "sleep" /\ left[t] > 0 THEN left[t] - 1 ELSE left[t]]
    /\ age' = [k \in Keys |-> IF k \in IdleKeys /\ age[k] < IdleTicks THEN age[k] + 1 ELSE age[k]]
    /\ UNCHANGED <<live, sockets, timerOf, older, lockVars, acquiring, pending, taskVars, loop, down>>

-----------------------------------------------------------------------------

Init ==
    /\ live = {} /\ older = {} /\ pending = 0 /\ loop = NoTask /\ down = FALSE
    /\ sockets = [k \in Keys |-> 0]
    /\ timerOf = [k \in Keys |-> NoTask]
    /\ age = [k \in Keys |-> 0]
    /\ lockOf = [k \in Keys |-> NoLock]
    /\ holder = [l \in Locks |-> NoTask]
    /\ waiters = [l \in Locks |-> <<>>]
    /\ acquiring = [k \in Keys |-> 0]
    /\ pc = [u \in Tasks |-> "out"]
    /\ key = [u \in Tasks |-> NoKey]
    /\ lock = [u \in Tasks |-> NoLock]
    /\ left = [t \in Timers |-> 0]

\* What acquire does by itself once it was called.
AcquireStep(c) ==
    Join(c) \/ Build(c) \/ MakeRoom(c) \/ Refuse(c) \/ Started(c) \/ StartFails(c) \/ Aborted(c)

TimerStep(t) == IdleTimeout(t) \/ IdleEvict(t) \/ TimerEnds(t)

\* After shutdown nothing more need happen.
Terminated == down /\ (\A u \in Tasks : pc[u] = "out") /\ UNCHANGED vars

Next ==
    \/ \E c \in Clients : \/ \E k \in Keys : Acquire(c, k)
                          \/ AcquireStep(c) \/ AcquireCancelled(c) \/ Release(c)
    \/ \E t \in Timers : TimerStep(t)
    \/ StopAll \/ Tick \/ Terminated

Spec == Init /\ [][Next]_vars

\* The event loop runs every task that can run, and time passes.  Nothing makes a
\* client connect, leave or be cancelled, or the server shut down.
Fairness ==
    /\ \A c \in Clients : WF_vars(AcquireStep(c))
    /\ \A t \in Timers : WF_vars(TimerStep(t))
    /\ WF_vars(Tick)

FairSpec == Spec /\ Fairness

-----------------------------------------------------------------------------

TypeOK ==
    /\ live \in SUBSET Keys
    /\ sockets \in [Keys -> Nat]
    /\ timerOf \in [Keys -> Timers \cup {NoTask}]
    /\ age \in [Keys -> 0..IdleTicks]
    /\ older \in SUBSET (Keys \X Keys)
    /\ lockOf \in [Keys -> Locks \cup {NoLock}]
    /\ holder \in [Locks -> Tasks \cup {NoTask}]
    /\ waiters \in [Locks -> Seq(Tasks)]
    /\ acquiring \in [Keys -> Nat]
    /\ pending \in Nat
    /\ pc \in [Tasks -> PC]
    /\ key \in [Tasks -> Keys \cup {NoKey}]
    /\ lock \in [Tasks -> Locks \cup {NoLock}]
    /\ left \in [Timers -> 0..IdleTicks]
    /\ loop \in Tasks \cup {NoTask}
    /\ down \in BOOLEAN

\* "Never more than max_runs, even mid-build": the registered runs and the ones
\* being built fit the cap, whatever acquires, evictions and failures overlap.
NeverMoreThanMaxRuns == Cardinality(live) + pending <= MaxRuns

\* "One run per key, however many sockets": two acquires of one key never build (or
\* make room to build) at once, although the lock object may be dropped and remade,
\* and a build never lands on a registered run, which would be orphaned.
OneRunPerKey ==
    /\ \A c, d \in Clients :
          /\ pc[c] \in {"evict", "start", "abort"} /\ pc[d] \in {"evict", "start", "abort"}
          /\ key[c] = key[d]
          => c = d
    /\ \A c \in Clients : pc[c] \in {"evict", "start", "abort"} => key[c] \notin live

\* A run with a session is never evicted, and its socket count is the number of its
\* sessions: no release is lost, and none is booked on another run of the key.
WatchedRunIsKept ==
    ~down => \A k \in Keys :
                LET sessions == {c \in Clients : pc[c] = "in" /\ key[c] = k}
                IN  /\ sessions # {} => k \in live
                    /\ sockets[k] = Cardinality(sessions)

\* What the contract sees of a key.
Stage(k) == IF k \in live THEN "live"
            ELSE IF \E c \in Clients : Building(c) /\ key[c] = k THEN "building"
            ELSE "none"

Contract == INSTANCE RegistryContract WITH
    Users <- Clients, Cap <- MaxRuns, closed <- down,
    stage <- [k \in Keys |-> Stage(k)],
    holders <- [k \in Keys |-> {c \in Clients : pc[c] = "in" /\ key[c] = k}]

\* What PipelineRegistry says of itself, for whoever acquires a run: the key's run is
\* built once and joined, stays while somebody holds it, and fits the cap.
ImplementsContract == Contract!Spec

\* The registry keeps no lock for a key that has no run and that nobody is acquiring
\* (it would leak one per client id ever seen), and a run always has its key's lock.
LocksAreReclaimed ==
    ~down => \A k \in Keys :
                lockOf[k] # NoLock <=> (k \in live \/ \E c \in Clients : InFlight(c) /\ key[c] = k)

\* A run nobody watches is eventually joined again or stopped: its idle timer is
\* started, is not lost when it is cancelled and restarted, and gets the lock.
IdleRunIsReclaimed ==
    \A k \in Keys : (~down /\ k \in IdleKeys) ~> (down \/ k \notin IdleKeys)

\* "A run outlives its last socket by idle_seconds": an idle eviction finds a run
\* whose last socket left idle_seconds ago.
OutlivesItsLastSocket ==
    [][\A t \in Timers : IdleEvict(t) => age[key[t]] = IdleTicks]_vars

\* One run of a key, and no more than the cap of all, those being built included.
OneRunWithinCap == NeverMoreThanMaxRuns /\ OneRunPerKey

\* A watched run is kept, and no lock outlives its last use: the type invariant
\* and the two named parts together, over every overlap of timers, evictions and acquires.
NothingLostOrLeft ==
  /\ TypeOK
  /\ WatchedRunIsKept
  /\ LocksAreReclaimed

=============================================================================
