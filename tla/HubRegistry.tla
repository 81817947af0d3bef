----------------------------- MODULE HubRegistry -----------------------------
(***************************************************************************)
(* The hubs of the web server and who holds them: HubRegistry and          *)
(* connected_hub (hub.py), the idle timers it starts, and the browser's    *)
(* panels with their sockets (useServerSocket.ts).                         *)
(*                                                                         *)
(* The registry runs on the event loop: code between two awaits is one     *)
(* step.  Hub.start and Hub.stop run in threads, so between their begin    *)
(* and their end anything else may happen.  The order in which waiters get *)
(* a lock, which idle hub is the victim (the one least recently used) and  *)
(* how long a timer sleeps are left open.                                  *)
(***************************************************************************)
EXTENDS Integers, FiniteSets, Functions, FiniteSetsExt

CONSTANTS Clients, Panels,
          ClientOf,   \* the client (browser) a panel belongs to
          Cap,        \* max_pipelines
          MaxSockets, \* bound: socket handlers at a time
          MaxTimers,  \* bound: idle timers at a time
          MaxMounts,  \* bound: panels mounted, all in all
          MaxFaults   \* bound: links lost and hubs that fail to start

ASSUME RegistryAssumption ==
  /\ ClientOf \in [Panels -> Clients] /\ Cap \in Nat \ {0}
  /\ MaxSockets \in Nat \ {0} /\ MaxTimers \in Nat \ {0}
  /\ MaxMounts \in Nat /\ MaxFaults \in Nat
  /\ IsFiniteSet(Clients)

VARIABLES
  server,   \* "up", "closing" (no new sockets) or "down"
  entries,  \* _entries: a client's [hub, sockets, timer], or None
  locks,    \* _locks: a client's lock, 0 if it has none
  hubs,     \* every hub's state; "none" is an unused name
  orphans,  \* hubs that stop_all is stopping
  sock,     \* sockets: the handler's side and the browser's
  timers,   \* idle timers: _evict_when_idle
  panel,    \* a panel's [pc, ref]: ref is its socket, wsRef
  mounts, faults

vars == <<server, entries, locks, hubs, orphans, sock, timers, panel,
          mounts, faults>>
budgets == <<mounts, faults>>

Slots == 1..MaxSockets
Timers == 1..MaxTimers
HubIds == 1..(Cap + MaxSockets + MaxTimers)

None == [hub |-> 0]
NoSocket == [pc |-> "free"]
NoTimer == [pc |-> "free"]

Init ==
  /\ server = "up" /\ orphans = {}
  /\ entries = [c \in Clients |-> None] /\ locks = [c \in Clients |-> 0]
  /\ hubs = [x \in HubIds |-> "none"]
  /\ sock = [s \in Slots |-> NoSocket]
  /\ timers = [e \in Timers |-> NoTimer]
  /\ panel = [p \in Panels |-> [pc |-> "off", ref |-> 0]]
  /\ mounts = 0 /\ faults = 0

-----------------------------------------------------------------------------
(* What the registry's fields say *)

Client(s) == ClientOf[sock[s].panel]
In(ss, pcs) == {s \in Slots : ss[s].pc \in pcs}
Of(ss, c, pcs) == {s \in In(ss, pcs) : ClientOf[ss[s].panel] = c}

\* _acquiring and _pending count the acquire calls in flight, and those that
\* have a slot but no entry yet.
Acquiring(ss, c) == Cardinality(Of(ss, c, {"wait", "room", "evict", "build"}))
Pending == Cardinality(In(sock, {"build"}))
Live == Cardinality({c \in Clients : entries[c] # None})

\* A lock is held from the check of the entry to the end of the acquire, and
\* by a timer while it evicts.
Held(l) ==
  \/ \E s \in In(sock, {"room", "evict", "build"}) : sock[s].lock = l
  \/ \E e \in Timers : timers[e].pc = "stop" /\ timers[e].lock = l

LocksInUse ==
  Range(locks)
    \cup {sock[s].lock : s \in In(sock, {"wait", "room", "evict", "build"})}
    \cup {timers[e].lock : e \in {f \in Timers : timers[f].pc = "stop"
                                              \/ timers[f].pc = "wait"}}
FreshLock == Min(1..(MaxSockets + MaxTimers + Cardinality(Clients) + 1)
                   \ LocksInUse)
FreshHub == Min({x \in HubIds : hubs[x] = "none"})

\* _drop_lock_if_unused: no acquire in flight and no hub.
DropLock(ls, ents, ss, c) ==
  IF ents[c] = None /\ Acquiring(ss, c) = 0 THEN [ls EXCEPT ![c] = 0] ELSE ls

\* A socket whose handler has ended and whose close the browser has seen.
Settled(s) == IF s.pc = "ended" /\ s.seen THEN NoSocket ELSE s

\* acquire ends without a hub, and connected_hub closes with a code.
Fail(s, code) ==
  /\ sock' = [sock EXCEPT ![s] = Settled([@ EXCEPT
                !.pc = "ended", !.lock = 0, !.hub = 0, !.code = code])]
  /\ locks' = DropLock(locks, entries, sock', Client(s))

-----------------------------------------------------------------------------
(* acquire *)

\* Mutant: an entry that once had a timer gets no other.
JoinKeepsTimer(s) ==
  LET c == Client(s)
  IN  /\ entries[c] # None
      /\ timers' = IF entries[c].timer = 0 THEN timers
                   ELSE [timers EXCEPT ![entries[c].timer] = NoTimer]
      /\ entries' = [entries EXCEPT ![c].sockets = @ + 1]
      /\ sock' = [sock EXCEPT ![s].pc = "serving", ![s].lock = 0,
                              ![s].hub = entries[c].hub]
      /\ UNCHANGED <<locks, hubs>>

\* An entry: its timer is cancelled, wherever it is, and the socket counted.
Join(s) ==
  LET c == Client(s)
  IN  /\ entries[c] # None
      /\ timers' = IF entries[c].timer = 0 THEN timers
                   ELSE [timers EXCEPT ![entries[c].timer] = NoTimer]
      /\ entries' = [entries EXCEPT ![c].timer = 0, ![c].sockets = @ + 1]
      /\ sock' = [sock EXCEPT ![s].pc = "serving", ![s].lock = 0,
                              ![s].hub = entries[c].hub]
      /\ UNCHANGED <<locks, hubs>>

\* Mutant: hubs under construction do not count.
FullOfLive == Live >= Cap

Full == Live + Pending >= Cap

\* Room: the slot is reserved, and a thread starts the hub.
Reserve(s) ==
  /\ ~Full
  /\ sock' = [sock EXCEPT ![s].pc = "build", ![s].hub = FreshHub]
  /\ hubs' = [hubs EXCEPT ![FreshHub] = "starting"]
  /\ UNCHANGED <<entries, locks, timers>>

Idle == {c \in Clients : entries[c] # None /\ entries[c].sockets = 0}

\* No room: an idle hub of another client is stopped.  Its timer sleeps on.
EvictOther(s) ==
  \E c \in Idle :
    /\ Full
    /\ entries' = [entries EXCEPT ![c] = None]
    /\ hubs' = [hubs EXCEPT ![entries[c].hub] = "stopping"]
    /\ sock' = [sock EXCEPT ![s].pc = "evict", ![s].hub = entries[c].hub]
    /\ locks' = DropLock(locks, entries', sock', c)
    /\ UNCHANGED timers

\* CapacityError, 1013: no room and nothing idle.
Refuse(s) ==
  /\ Full /\ Idle = {}
  /\ Fail(s, 1013)
  /\ UNCHANGED <<entries, hubs, timers>>

MakeRoom(s) == Reserve(s) \/ EvictOther(s) \/ Refuse(s)

\* The lock is free: the entry is looked up, then made.
Enter(s) ==
  /\ sock[s].pc = "wait" /\ ~Held(sock[s].lock)
  /\ IF entries[Client(s)] # None THEN Join(s) ELSE MakeRoom(s)
  /\ UNCHANGED <<server, orphans, panel, budgets>>

\* The victim's threads are joined; then the count is looked at again.
Evicted(s) ==
  /\ sock[s].pc = "evict"
  /\ hubs' = [hubs EXCEPT ![sock[s].hub] = "none"]
  /\ sock' = [sock EXCEPT ![s].pc = "room", ![s].hub = 0]
  /\ UNCHANGED <<server, entries, locks, orphans, timers, panel, budgets>>

TryAgain(s) ==
  /\ sock[s].pc = "room"
  /\ MakeRoom(s)
  /\ UNCHANGED <<server, orphans, panel, budgets>>

Built(s) ==
  /\ sock[s].pc = "build"
  /\ hubs' = [hubs EXCEPT ![sock[s].hub] = "running"]
  /\ entries' = [entries EXCEPT ![Client(s)] =
                   [hub |-> sock[s].hub, sockets |-> 1, timer |-> 0]]
  /\ sock' = [sock EXCEPT ![s].pc = "serving", ![s].lock = 0]
  /\ UNCHANGED <<server, locks, orphans, timers, panel, budgets>>

\* start failed and has stopped what it started: 1011.
BuildFails(s) ==
  /\ sock[s].pc = "build" /\ faults < MaxFaults
  /\ faults' = faults + 1
  /\ hubs' = [hubs EXCEPT ![sock[s].hub] = "none"]
  /\ Fail(s, 1011)
  /\ UNCHANGED <<server, entries, orphans, timers, panel, mounts>>

-----------------------------------------------------------------------------
(* release, the idle timers and stop_all *)

\* The receive loop ends: the last socket out starts the entry's timer.
Release(s) ==
  LET c == Client(s)
      free == {e \in Timers : timers[e] = NoTimer}
      last == entries[c] # None /\ entries[c].sockets = 1
              /\ entries[c].timer = 0
  IN  /\ sock[s].pc = "serving" /\ ~sock[s].up
      /\ last => free # {}
      /\ timers' = IF last THEN [timers EXCEPT ![Min(free)] =
                                   [pc |-> "sleep", client |-> c]]
                   ELSE timers
      /\ entries' = IF entries[c] = None THEN entries
                    ELSE [entries EXCEPT ![c].sockets = Max({0, @ - 1}),
                                         ![c].timer = IF last THEN Min(free)
                                                      ELSE @]
      /\ sock' = [sock EXCEPT ![s] = Settled([@ EXCEPT !.pc = "ended"])]
      /\ UNCHANGED <<server, locks, hubs, orphans, panel, budgets>>

\* The sleep is over: wait for the client's lock, if it still has one.
TimerFires(e) ==
  /\ timers[e].pc = "sleep"
  /\ LET c == timers[e].client
     IN  timers' = [timers EXCEPT ![e] =
           IF locks[c] = 0 THEN NoTimer
           ELSE [pc |-> "wait", client |-> c, lock |-> locks[c]]]
  /\ UNCHANGED <<server, entries, locks, hubs, orphans, sock, panel, budgets>>

\* Mutant: a client that came back meanwhile is not looked for.
TimerEntersBlindly(e) ==
  LET c == timers[e].client
  IN  /\ timers[e].pc = "wait" /\ ~Held(timers[e].lock)
      /\ entries[c] # None
      /\ entries' = [entries EXCEPT ![c] = None]
      /\ hubs' = [hubs EXCEPT ![entries[c].hub] = "stopping"]
      /\ timers' = [timers EXCEPT ![e] = [pc |-> "stop", client |-> c,
                                    lock |-> @.lock, hub |-> entries[c].hub]]
      /\ locks' = DropLock(locks, entries', sock, c)
      /\ UNCHANGED <<server, orphans, sock, panel, budgets>>

\* With the lock: an entry nobody watches goes, and its lock with it.
TimerEnters(e) ==
  LET c == timers[e].client
  IN  /\ timers[e].pc = "wait" /\ ~Held(timers[e].lock)
      /\ IF c \notin Idle
         THEN /\ timers' = [timers EXCEPT ![e] = NoTimer]
              /\ UNCHANGED <<entries, locks, hubs>>
         ELSE /\ entries' = [entries EXCEPT ![c] = None]
              /\ hubs' = [hubs EXCEPT ![entries[c].hub] = "stopping"]
              /\ timers' = [timers EXCEPT ![e] =
                   [pc |-> "stop", client |-> c, lock |-> @.lock,
                    hub |-> entries[c].hub]]
              /\ locks' = DropLock(locks, entries', sock, c)
      /\ UNCHANGED <<server, orphans, sock, panel, budgets>>

TimerDone(e) ==
  /\ timers[e].pc = "stop"
  /\ hubs' = [hubs EXCEPT ![timers[e].hub] = "none"]
  /\ timers' = [timers EXCEPT ![e] = NoTimer]
  /\ UNCHANGED <<server, entries, locks, orphans, sock, panel, budgets>>

\* The server closes its sockets and takes no more; when the last handler has
\* ended the lifespan does, and stops every hub at once.
Shutdown ==
  /\ server = "up" /\ server' = "closing"
  /\ sock' = [s \in Slots |-> IF sock[s].pc = "free" THEN sock[s]
                              ELSE [sock[s] EXCEPT !.up = FALSE]]
  /\ UNCHANGED <<entries, locks, hubs, orphans, timers, panel, budgets>>

Registered == {c \in Clients : entries[c] # None}

StopAll ==
  LET attached == {entries[c].timer : c \in Registered}
  IN  /\ server = "closing" /\ In(sock, {"free", "ended"}) = Slots
      /\ server' = "down"
      /\ orphans' = {entries[c].hub : c \in Registered}
      /\ hubs' = [x \in HubIds |-> IF x \in orphans' THEN "stopping"
                                   ELSE hubs[x]]
      /\ timers' = [e \in Timers |-> IF e \in attached THEN NoTimer
                                     ELSE timers[e]]
      /\ entries' = [c \in Clients |-> None]
      /\ locks' = [c \in Clients |-> 0]
      /\ UNCHANGED <<sock, panel, budgets>>

StopAllEnds ==
  \E x \in orphans :
    /\ orphans' = orphans \ {x}
    /\ hubs' = [hubs EXCEPT ![x] = "none"]
    /\ UNCHANGED <<server, entries, locks, sock, timers, panel, budgets>>

-----------------------------------------------------------------------------
(* The browser *)

\* A panel appears: its first connect is a microtask away.
Mount(p) ==
  /\ panel[p].pc = "off" /\ mounts < MaxMounts
  /\ mounts' = mounts + 1
  /\ panel' = [panel EXCEPT ![p].pc = "due"]
  /\ UNCHANGED <<server, entries, locks, hubs, orphans, sock, timers, faults>>

\* The effect's cleanup: disposed, no reconnect, the socket in wsRef closed.
Unmount(p) ==
  /\ panel[p].pc # "off"
  /\ panel' = [panel EXCEPT ![p] = [pc |-> "off", ref |-> 0]]
  /\ sock' = [s \in Slots |->
       IF sock[s].pc = "free" \/ sock[s].panel # p THEN sock[s]
       ELSE [sock[s] EXCEPT !.disposed = TRUE,
                            !.up = @ /\ s # panel[p].ref]]
  /\ UNCHANGED <<server, entries, locks, hubs, orphans, timers, budgets>>

\* A socket: its handler accepts it and asks for the client's hub.
Connect(p) ==
  LET free == {s \in Slots : sock[s] = NoSocket}
      c == ClientOf[p]
      lock == IF locks[c] = 0 THEN FreshLock ELSE locks[c]
  IN  /\ panel[p].pc = "due" /\ server = "up" /\ free # {}
      /\ panel' = [panel EXCEPT ![p] = [pc |-> "live", ref |-> Min(free)]]
      /\ locks' = [locks EXCEPT ![c] = lock]
      /\ sock' = [sock EXCEPT ![Min(free)] =
           [pc |-> "wait", panel |-> p, lock |-> lock, hub |-> 0, code |-> 0,
            up |-> TRUE, seen |-> FALSE, disposed |-> FALSE]]
      /\ UNCHANGED <<server, entries, hubs, orphans, timers, budgets>>

Terminal == {1008, 1013}

\* Mutant: whichever socket closes, wsRef is cleared.
AfterCloseUnguarded(p, s) == 0

\* wsRef is cleared by the socket it points at only.
AfterClose(p, s) == IF panel[p].ref = s THEN 0 ELSE panel[p].ref

\* Mutant: a connection that was lost is not made again.
NextTryNever(s) == "live"

\* After a refusal that was meant a panel stays down; else it tries again.
NextTry(s) == IF sock[s].up /\ sock[s].code \in Terminal THEN "refused"
              ELSE "due"

\* onclose.
OnClose(s) ==
  /\ sock[s].pc # "free" /\ ~sock[s].seen
  /\ ~sock[s].up \/ sock[s].code # 0
  /\ LET p == sock[s].panel
     IN  panel' = [panel EXCEPT ![p].ref = AfterClose(p, s),
                                ![p].pc = IF sock[s].disposed THEN @
                                          ELSE NextTry(s)]
  /\ sock' = [sock EXCEPT ![s] = Settled([@ EXCEPT !.seen = TRUE,
                                                   !.up = FALSE])]
  /\ UNCHANGED <<server, entries, locks, hubs, orphans, timers, budgets>>

\* The network drops a connection; both sides find out in their own time.
LinkLost(s) ==
  /\ sock[s].pc # "free" /\ sock[s].up /\ faults < MaxFaults
  /\ faults' = faults + 1
  /\ sock' = [sock EXCEPT ![s].up = FALSE]
  /\ UNCHANGED <<server, entries, locks, hubs, orphans, timers, panel, mounts>>

-----------------------------------------------------------------------------
\* What the loop, the threads and the browser will do by themselves.
Progress ==
  \/ \E e \in Timers : TimerFires(e) \/ TimerDone(e) \/ TimerEnters(e)
  \/ \E s \in Slots : \/ Evicted(s) \/ Built(s) \/ OnClose(s)
                      \/ Release(s) \/ TryAgain(s) \/ Enter(s)
  \/ \E p \in Panels : Connect(p)
  \/ StopAll \/ StopAllEnds

\* Not a step of the code: the server is gone and its panels keep trying.
Terminated ==
  /\ server = "down" /\ orphans = {}
  /\ In(sock, {"free"}) = Slots /\ \A e \in Timers : timers[e] = NoTimer
  /\ UNCHANGED vars

Next ==
  \/ Progress
  \/ \E s \in Slots : BuildFails(s) \/ LinkLost(s)
  \/ \E p \in Panels : Mount(p) \/ Unmount(p)
  \/ Shutdown \/ Terminated

Spec == Init /\ [][Next]_vars /\ WF_vars(Progress)

-----------------------------------------------------------------------------
TypeOK ==
  /\ server \in {"up", "closing", "down"}
  /\ entries \in [Clients -> {None} \cup [hub : HubIds, sockets : 0..MaxSockets,
                                          timer : {0} \cup Timers]]
  /\ hubs \in [HubIds -> {"none", "starting", "running", "stopping"}]
  /\ orphans \subseteq HubIds
  /\ \A s \in Slots : sock[s].pc \in {"free", "wait", "room", "evict", "build",
                                      "serving", "ended"}
  /\ \A e \in Timers : timers[e].pc \in {"free", "sleep", "wait", "stop"}
  /\ panel \in [Panels -> [pc : {"off", "due", "live", "refused"},
                           ref : {0} \cup Slots]]
  /\ mounts \in 0..MaxMounts /\ faults \in 0..MaxFaults

\* A client has one hub: one entry, or one acquire that builds it.
OneHubPerClient ==
  \A c \in Clients :
    Cardinality(Of(sock, c, {"build"}))
      + (IF entries[c] = None THEN 0 ELSE 1) <= 1

\* Every hub has exactly one owner that will stop it: an entry, the acquire
\* that starts it, whoever evicts it, or stop_all.
EveryHubIsOwned ==
  \A x \in HubIds :
    LET owners == Cardinality({c \in Registered : entries[c].hub = x})
                  + Cardinality({s \in In(sock, {"build", "evict"}) :
                                   sock[s].hub = x})
                  + Cardinality({e \in Timers : timers[e].pc = "stop"
                                                /\ timers[e].hub = x})
                  + (IF x \in orphans THEN 1 ELSE 0)
    IN  owners = (IF hubs[x] = "none" THEN 0 ELSE 1)

\* A socket is served from its client's own hub, which runs, and a hub knows
\* how many it serves.
ServedHubRuns ==
  /\ \A s \in In(sock, {"serving"}) :
       /\ entries[Client(s)].hub = sock[s].hub
       /\ hubs[sock[s].hub] = "running"
  /\ \A c \in Registered :
       entries[c].sockets = Cardinality(Of(sock, c, {"serving"}))

\* What the contract sees of a client.
Stage(c) == IF entries[c] # None THEN "live"
            ELSE IF \E s \in Slots : sock[s].pc = "build" /\ Client(s) = c THEN "building"
            ELSE "none"

Contract == INSTANCE RegistryContract WITH
  Keys <- Clients, Users <- Slots, closed <- (server = "down"),
  stage <- [c \in Clients |-> Stage(c)],
  holders <- [c \in Clients |-> {s \in Slots : sock[s].pc = "serving" /\ Client(s) = c}]

\* What HubRegistry says of itself, for the pages that hold a hub: a client's hub is
\* built once and joined, stays while a socket is served, and fits the cap.
ImplementsContract == Contract!Spec

\* Never more hubs than the cap, those under construction included, although
\* whoever makes room waits before it takes it.
WithinCap == Live + Pending <= Cap

\* However sockets come together, timers fire late, evictions overlap and
\* locks are dropped and made anew: no client has two hubs, no hub is
\* stopped under a socket, none is forgotten, and all fit the cap.
HubsAreOwned == OneHubPerClient /\ EveryHubIsOwned /\ ServedHubRuns /\ WithinCap

\* An entry nobody watches has a timer that has not ended.
IdleIsTimed ==
  \A c \in Idle : /\ entries[c].timer # 0
                  /\ timers[entries[c].timer] # NoTimer
                  /\ timers[entries[c].timer].client = c

\* A client has a lock only while it has a hub or an acquire in flight.
LocksAreReclaimed ==
  \A c \in Clients :
    locks[c] # 0 => entries[c] # None \/ Acquiring(sock, c) > 0

\* A panel has one open socket at most, and one that was unmounted none.
OneSocketPerPanel ==
  \A s \in Slots :
    (sock[s].pc # "free" /\ sock[s].up) => panel[sock[s].panel].ref = s

\* Nothing is left behind: an entry nobody watches will be looked at again,
\* a lock goes with the last that needs it, and a panel that goes closes its
\* socket, however late the closes of its earlier ones are heard of.
NothingIsLeftBehind ==
  TypeOK /\ IdleIsTimed /\ LocksAreReclaimed /\ OneSocketPerPanel

Served(p) == panel[p].ref # 0 /\ sock[panel[p].ref].pc = "serving"
                              /\ sock[panel[p].ref].up

\* When links hold and hubs start again, a panel that stays is served in the
\* end, unless it was refused at the cap.
PanelsSettle ==
  <>[](server = "up") =>
    <>[](\A p \in Panels : panel[p].pc \in {"off", "refused"} \/ Served(p))

\* A hub nobody watches is stopped in the end, and a server that shuts down
\* leaves none running.
HubsStop ==
  /\ \A c \in Clients : c \in Idle ~> c \notin Idle
  /\ server = "closing" ~> (\A x \in HubIds : hubs[x] = "none")
=============================================================================
