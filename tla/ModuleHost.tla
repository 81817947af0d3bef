----------------------------- MODULE ModuleHost -----------------------------
(***************************************************************************)
(* The host of a module, core/src/pswamp_core/host.py: the instances it    *)
(* builds, feeds, resets, replaces and drops for the messages of one run   *)
(* key (the host treats its keys alike), and the calls into an instance    *)
(* (modules.py).                                                           *)
(*                                                                         *)
(* A key carries the run's id and its stream number.  Topics lag behind    *)
(* each other and may lose messages, so a key of any age may come at any   *)
(* time.  A call into a blocking module runs in a thread, which no         *)
(* cancellation stops.  Each action is the code from one await to the next.*)
(***************************************************************************)
EXTENDS Naturals, Sequences, FiniteSets

CONSTANTS
    Topics,         \* the topics the host reads
    Kind,           \* per topic: "input", "observed", "command" or "closed"
    Blocking,       \* whether the module's calls run in threads
    Keys,           \* the runs and streams that messages are published under
    MaxInstances,   \* bound on the instances built
    MaxDeliveries,  \* bound on the messages delivered
    MaxQueue,       \* maxsize of an instance's input queue
    NoStream

Runs == {k.run : k \in Keys}
Streams == {k.stream : k \in Keys}

ASSUME ModuleHostAssumption ==
    /\ Kind \in [Topics -> {"input", "observed", "command", "closed"}]
    /\ Blocking \in BOOLEAN /\ MaxQueue \in Nat \ {0}
    /\ Keys \subseteq [run : Nat, stream : Nat] /\ NoStream \notin Streams /\ MaxInstances \in Nat /\ MaxDeliveries \in Nat

Instances == 1..MaxInstances
None == 0

VARIABLES
    delivered,  \* messages delivered so far
    phase,      \* of the host: "serving", "stopping", "stopped"
    built,      \* instances built so far
    serving,    \* _slots: the instance in service, or None
    retired,    \* _retired
    backedOff,  \* the time is before _retry_at
    slot,       \* per instance: its run, its newest stream and what is queued for it
    work,       \* per instance: where its task is, and what its module holds
    calls,      \* per instance: the lock, the command inbox, the threads running
    life        \* per instance: whether set up, and how far its drop is

hostVars == <<built, serving, retired, backedOff>>
instVars == <<slot, work, calls, life>>
vars == <<delivered, phase, hostVars, instVars>>

\* Where an instance's task is: in setup, waiting for an input, about to reset or to
\* call with one (waiting for the lock when it is held), in a call's thread; ended.
Pcs == {"setup", "idle", "reset", "resetting", "call", "calling", "ended"}

\* _drop: not begun, stopping the inbox, the tasks, in teardown and closing, done.
DropStages == {"no", "inbox", "tasks", "closing", "done"}

Running(i) == i <= built /\ life[i].drop \in {"no", "inbox"}
Dropping(who) == \E i \in Instances : life[i].by = who /\ life[i].drop \notin {"no", "done"}
LockFree(i) == calls[i].lock = "free"

-----------------------------------------------------------------------------
(* What a message does to a slot *)

\* Mutant: the queue is not emptied.
NewStreamKeeping(r, k) == [r EXCEPT !.stream = k.stream, !.joined = NoStream, !.due = TRUE]

NewStream(r, k) == [r EXCEPT !.stream = k.stream, !.queue = <<>>, !.joined = NoStream, !.due = TRUE]

\* A full queue drops its oldest.
Offer(q, k) == Append(IF Len(q) = MaxQueue THEN Tail(q) ELSE q, k.stream)

Received(r, kind, k) ==
    IF kind = "command" THEN [r EXCEPT !.asked = @ + 1]
    ELSE IF k.stream < r.stream THEN r
    ELSE LET c == IF k.stream > r.stream THEN NewStream(r, k) ELSE r
         IN  IF kind = "observed" THEN [c EXCEPT !.joined = k.stream]
             ELSE [c EXCEPT !.queue = Offer(@, k)]

NewSlot(k) == [run |-> k.run, stream |-> k.stream, due |-> FALSE, queue |-> <<>>, joined |-> NoStream, asked |-> 0]

-----------------------------------------------------------------------------
(* The feeds *)

\* A message comes, of whichever run and stream.
Arrives == phase = "serving" /\ delivered < MaxDeliveries /\ delivered' = delivered + 1 /\ UNCHANGED phase

\* To the instance of its run.
DeliverToSlot(t, k) ==
    /\ Kind[t] # "closed" /\ serving # None /\ slot[serving].run = k.run
    /\ Arrives
    /\ slot' = [slot EXCEPT ![serving] = Received(@, Kind[t], k)]
    /\ UNCHANGED <<hostVars, work, calls, life>>

\* A late message of an older run, or of a run left alone after a failure.
DeliverToNone(t, k) ==
    /\ Kind[t] # "closed"
    /\ Arrives
    /\ \/ serving # None /\ k.run < slot[serving].run /\ UNCHANGED <<serving, retired>>
       \/ serving = None /\ backedOff /\ UNCHANGED <<serving, retired>>
       \/ /\ serving # None /\ k.run > slot[serving].run /\ backedOff
          /\ serving' = None /\ retired' = Append(retired, serving)
    /\ UNCHANGED <<built, backedOff, instVars>>

\* The first of its run: a new instance, in place of an older run's.
DeliverToNew(t, k) ==
    /\ Kind[t] # "closed" /\ ~backedOff /\ built < MaxInstances
    /\ serving # None => k.run > slot[serving].run
    /\ Arrives
    /\ built' = built + 1 /\ serving' = built + 1
    /\ retired' = IF serving = None THEN retired ELSE Append(retired, serving)
    /\ slot' = [slot EXCEPT ![built + 1] = Received(NewSlot(k), Kind[t], k)]
    /\ work' = [work EXCEPT ![built + 1].pc = "setup"]
    /\ UNCHANGED <<backedOff, calls, life>>

\* _evict, and _drop up to its first await.
StartDrop(i, who) ==
    life' = [life EXCEPT ![i].drop = IF calls[i].inbox = "none" THEN "tasks" ELSE "inbox", ![i].by = who]

Evict(who) ==
    /\ serving # None
    /\ serving' = None
    /\ StartDrop(serving, who)
    /\ UNCHANGED <<built, retired, backedOff, slot, work, calls>>

\* PipelineClosed: it evicts its run's instance, or an older one, and waits for that.
DeliverClosed(t, k) ==
    /\ Kind[t] = "closed" /\ k.stream = 0 /\ ~Dropping("closed")
    /\ Arrives
    /\ IF serving # None /\ k.run >= slot[serving].run
       THEN Evict("closed")
       ELSE UNCHANGED <<hostVars, instVars>>

\* Mutant: only an instance that was set up is swept.
SweepReady == serving # None /\ life[serving].setUp

\* The instance has been idle long enough.
Sweepable == serving # None

Sweep ==
    /\ phase = "serving" /\ ~Dropping("sweep") /\ Sweepable
    /\ Evict("sweep")
    /\ UNCHANGED <<delivered, phase>>

\* The time to leave the run alone is over.
RetryOver ==
    /\ backedOff /\ backedOff' = FALSE
    /\ UNCHANGED <<delivered, phase, built, serving, retired, instVars>>

-----------------------------------------------------------------------------
(* An instance's task: _run, _start and serve_module *)

Retire(i) ==
    /\ serving' = IF serving = i THEN None ELSE serving
    /\ retired' = Append(retired, i)

\* setup returns; the inbox of a module with commands starts.
SetUp(i) ==
    /\ Running(i) /\ work[i].pc = "setup"
    /\ work' = [work EXCEPT ![i].pc = "idle"]
    /\ life' = [life EXCEPT ![i].setUp = TRUE]
    /\ calls' = [calls EXCEPT ![i].inbox = IF \E t \in Topics : Kind[t] = "command" THEN "idle" ELSE "none"]
    /\ UNCHANGED <<delivered, phase, hostVars, slot>>

SetUpFails(i) ==
    /\ Running(i) /\ work[i].pc = "setup"
    /\ work' = [work EXCEPT ![i].pc = "ended"]
    /\ backedOff' = TRUE
    /\ Retire(i)
    /\ UNCHANGED <<delivered, phase, built, slot, calls, life>>

\* The next input, with the slot's key as the one its outputs go under.
TakeInput(i) ==
    /\ Running(i) /\ work[i].pc = "idle" /\ slot[i].queue # <<>>
    /\ slot' = [slot EXCEPT ![i].queue = Tail(@), ![i].due = FALSE]
    /\ work' = [work EXCEPT ![i].pc = IF slot[i].due THEN "reset" ELSE "call",
                            ![i].input = Head(slot[i].queue), ![i].key = slot[i].stream]
    /\ UNCHANGED <<delivered, phase, hostVars, calls, life>>

\* areset, under the lock (a reset that raises is the module's own loss).
Reset(i) ==
    /\ Running(i) /\ work[i].pc = "reset" /\ LockFree(i)
    /\ work' = [work EXCEPT ![i].pc = IF Blocking THEN "resetting" ELSE "call", ![i].memory = {}]
    /\ calls' = IF Blocking THEN [calls EXCEPT ![i].lock = "serve", ![i].threads = @ \cup {"serve"}] ELSE calls
    /\ UNCHANGED <<delivered, phase, hostVars, slot, life>>

Idle(w) == [w EXCEPT !.pc = "idle", !.input = 0, !.key = 0, !.joined = NoStream]

\* arun, under the lock: the call, with what is joined now.
Call(i) ==
    /\ Running(i) /\ work[i].pc = "call" /\ LockFree(i)
    /\ LET w == [work[i] EXCEPT !.pc = "calling", !.memory = @ \cup {work[i].input}, !.joined = slot[i].joined]
       IN  work' = [work EXCEPT ![i] = IF Blocking THEN w ELSE Idle(w)]
    /\ calls' = IF Blocking THEN [calls EXCEPT ![i].lock = "serve", ![i].threads = @ \cup {"serve"}] ELSE calls
    /\ UNCHANGED <<delivered, phase, hostVars, slot, life>>

\* Mutant: the reset is no longer due once it has run.
CallReturnsLate(i) ==
    /\ Running(i) /\ work[i].pc \in {"resetting", "calling"}
    /\ slot' = IF work[i].pc = "resetting" THEN [slot EXCEPT ![i].due = FALSE] ELSE slot
    /\ work' = [work EXCEPT ![i] = IF @.pc = "resetting" THEN [@ EXCEPT !.pc = "call"] ELSE Idle(@)]
    /\ calls' = [calls EXCEPT ![i].lock = "free", ![i].threads = @ \ {"serve"}]
    /\ UNCHANGED <<delivered, phase, hostVars, life>>

\* The thread of a reset or a call ends, and its task goes on.
CallReturns(i) ==
    /\ Running(i) /\ work[i].pc \in {"resetting", "calling"}
    /\ work' = [work EXCEPT ![i] = IF @.pc = "resetting" THEN [@ EXCEPT !.pc = "call"] ELSE Idle(@)]
    /\ calls' = [calls EXCEPT ![i].lock = "free", ![i].threads = @ \ {"serve"}]
    /\ UNCHANGED <<delivered, phase, hostVars, slot, life>>

-----------------------------------------------------------------------------
(* An instance's command inbox *)

InboxRuns(i) == i <= built /\ life[i].drop = "no"

TakeCommand(i) ==
    /\ InboxRuns(i) /\ calls[i].inbox = "idle" /\ slot[i].asked > 0
    /\ slot' = [slot EXCEPT ![i].asked = @ - 1]
    /\ calls' = [calls EXCEPT ![i].inbox = "waiting"]
    /\ UNCHANGED <<delivered, phase, hostVars, work, life>>

Handle(i) ==
    /\ InboxRuns(i) /\ calls[i].inbox = "waiting" /\ LockFree(i)
    /\ calls' = [calls EXCEPT ![i].inbox = "handling", ![i].lock = "inbox",
                              ![i].threads = IF Blocking THEN @ \cup {"inbox"} ELSE @]
    /\ UNCHANGED <<delivered, phase, hostVars, slot, work, life>>

Handled(i) ==
    /\ InboxRuns(i) /\ calls[i].inbox = "handling"
    /\ calls' = [calls EXCEPT ![i].inbox = "idle", ![i].lock = "free", ![i].threads = @ \ {"inbox"}]
    /\ UNCHANGED <<delivered, phase, hostVars, slot, work, life>>

\* A thread whose caller was cancelled comes to its end.
ThreadEnds(i) ==
    /\ \E who \in calls[i].threads :
          /\ \/ who = "inbox" /\ calls[i].inbox = "ended"
             \/ who = "serve" /\ work[i].pc = "ended"
          /\ calls' = [calls EXCEPT ![i].threads = @ \ {who}]
    /\ UNCHANGED <<delivered, phase, hostVars, slot, work, life>>

-----------------------------------------------------------------------------
(* _drop *)

Released(c, who) == IF c.lock = who THEN [c EXCEPT !.lock = "free"] ELSE c

InboxStops(i) ==
    /\ life[i].drop = "inbox"
    /\ life' = [life EXCEPT ![i].drop = "tasks"]
    /\ calls' = [calls EXCEPT ![i] = Released([@ EXCEPT !.inbox = "ended"], "inbox")]
    /\ UNCHANGED <<delivered, phase, hostVars, slot, work>>

\* The task has ended, the queues are closed, and teardown is called on what was set up
\* (a failure of it is logged).
TasksEnd(i) ==
    /\ life[i].drop = "tasks"
    /\ life' = [life EXCEPT ![i].drop = "closing", ![i].torn = IF life[i].setUp THEN @ + 1 ELSE @]
    /\ work' = [work EXCEPT ![i] = [Idle(@) EXCEPT !.pc = "ended"]]
    /\ slot' = [slot EXCEPT ![i].queue = <<>>, ![i].asked = 0]
    /\ calls' = [calls EXCEPT ![i] = Released(@, "serve")]
    /\ UNCHANGED <<delivered, phase, hostVars>>

\* teardown has returned, and the outbox and the sources are closed.
Dropped(i) ==
    /\ life[i].drop = "closing"
    /\ life' = [life EXCEPT ![i].drop = "done", ![i].by = "none"]
    /\ UNCHANGED <<delivered, phase, hostVars, slot, work, calls>>

\* The next one retired is dropped, unless it is already.
Reap(who) ==
    /\ retired # <<>> /\ ~Dropping(who)
    /\ retired' = Tail(retired)
    /\ IF life[Head(retired)].drop = "no" THEN StartDrop(Head(retired), who) ELSE UNCHANGED life
    /\ UNCHANGED <<built, serving, backedOff, slot, work, calls>>

ReapOne == phase = "serving" /\ Reap("reap") /\ UNCHANGED <<delivered, phase>>

\* The host is cancelled: its tasks finish the drops they are in and end.
Stop ==
    /\ phase = "serving" /\ phase' = "stopping"
    /\ UNCHANGED <<delivered, hostVars, instVars>>

TasksStopped == phase = "stopping" /\ ~\E who \in {"closed", "sweep", "reap", "stop"} : Dropping(who)

\* Then it drops the instance in service, and those retired.
StopOne ==
    /\ TasksStopped
    /\ IF serving # None THEN Evict("stop") ELSE Reap("stop")
    /\ UNCHANGED <<delivered, phase>>

Stopped ==
    /\ TasksStopped /\ serving = None /\ retired = <<>>
    /\ phase' = "stopped"
    /\ UNCHANGED <<delivered, hostVars, instVars>>

-----------------------------------------------------------------------------

Init ==
    /\ delivered = 0 /\ phase = "serving" /\ built = 0 /\ serving = None /\ retired = <<>> /\ backedOff = FALSE
    /\ slot = [i \in Instances |-> NewSlot([run |-> 0, stream |-> 0])]
    /\ work = [i \in Instances |-> [pc |-> "ended", input |-> 0, key |-> 0, memory |-> {}, joined |-> NoStream]]
    /\ calls = [i \in Instances |-> [lock |-> "free", inbox |-> "none", threads |-> {}]]
    /\ life = [i \in Instances |-> [setUp |-> FALSE, drop |-> "no", by |-> "none", torn |-> 0]]

Deliver(t, k) == DeliverToSlot(t, k) \/ DeliverToNone(t, k) \/ DeliverToNew(t, k) \/ DeliverClosed(t, k)

TaskStep(i) == TakeInput(i) \/ Reset(i) \/ Call(i) \/ CallReturns(i)
InboxStep(i) == TakeCommand(i) \/ Handle(i) \/ Handled(i)
DropStep(i) == InboxStops(i) \/ TasksEnd(i) \/ Dropped(i)
StopStep == StopOne \/ Stopped

Terminated == phase = "stopped" /\ UNCHANGED vars

Next ==
    \/ \E t \in Topics, k \in Keys : Deliver(t, k)
    \/ Sweep \/ RetryOver \/ ReapOne \/ Stop \/ StopStep \/ Terminated
    \/ \E i \in Instances : SetUp(i) \/ SetUpFails(i) \/ TaskStep(i) \/ InboxStep(i) \/ ThreadEnds(i) \/ DropStep(i)

Spec == Init /\ [][Next]_vars

\* The event loop runs every task.  What is fair of the module is its calls and its
\* teardown; its setup may hang.  Deliveries are bounded, so each instance comes to
\* be idle and the sweep reaches it.
Fairness ==
    /\ WF_vars(Sweep) /\ WF_vars(ReapOne) /\ WF_vars(StopStep)
    /\ \A i \in Instances : WF_vars(TaskStep(i)) /\ WF_vars(InboxStep(i)) /\ WF_vars(DropStep(i))

FairSpec == Spec /\ Fairness

-----------------------------------------------------------------------------

TypeOK ==
    /\ delivered \in 0..MaxDeliveries
    /\ phase \in {"serving", "stopping", "stopped"}
    /\ built \in 0..MaxInstances /\ serving \in 0..built /\ backedOff \in BOOLEAN
    /\ retired \in Seq(1..built)
    /\ slot \in [Instances -> [run : Runs \cup {0}, stream : Streams \cup {0}, due : BOOLEAN, queue : Seq(Streams),
                               joined : Streams \cup {NoStream}, asked : Nat]]
    /\ work \in [Instances -> [pc : Pcs, input : Streams \cup {0}, key : Streams \cup {0}, memory : SUBSET Streams,
                               joined : Streams \cup {NoStream}]]
    /\ calls \in [Instances -> [lock : {"free", "serve", "inbox"}, inbox : {"none", "idle", "waiting", "handling", "ended"},
                                threads : SUBSET {"serve", "inbox"}]]
    /\ life \in [Instances -> [setUp : BOOLEAN, drop : DropStages, by : {"none", "closed", "sweep", "reap", "stop"},
                               torn : Nat]]
    /\ serving # None => life[serving].drop = "no"

\* "The queue holds only the slot's current stream, so its key now is the input's"
\* (serve_module): also while new streams arrive between the awaits of a call.
OutputsUnderTheirKey ==
    \A i \in 1..built :
        /\ \A n \in 1..Len(slot[i].queue) : slot[i].queue[n] = slot[i].stream
        /\ work[i].pc \in {"reset", "resetting", "call", "calling"} => work[i].key = work[i].input

\* "One call at a time": no two threads are in an instance's module before its drop.
OneCallAtATime == \A i \in 1..built : life[i].drop = "no" => Cardinality(calls[i].threads) <= 1

\* Every instance that was set up is torn down, once, whichever of PipelineClosed, the
\* sweep, a failure, a newer run or the host's end takes it out of service, and when the
\* host has ended none is left.
TornDownOnce ==
    \A i \in 1..built :
        /\ life[i].torn <= 1
        /\ life[i].drop = "done" => (life[i].torn = 1 <=> life[i].setUp)
        /\ phase = "stopped" => life[i].drop = "done"

\* Every instance is dropped in the end, also when its setup hangs, PipelineClosed was
\* lost, or a late message of a run that has closed built it again.
EveryInstanceGoes == \A i \in Instances : i <= built ~> life[i].drop = "done"

\* The contract with the module's author: see ModuleContract.
Stage(i) ==
    IF life[i].torn > 0 THEN "torn"
    ELSE IF life[i].setUp THEN "ready"
    ELSE IF life[i].drop \in {"closing", "done"} THEN "gone" ELSE "new"

Contract == INSTANCE ModuleContract WITH
    stage <- [i \in Instances |-> Stage(i)], memory <- [i \in Instances |-> work[i].memory]

ImplementsContract == Contract!Spec

\* teardown is called "after its last call".
\* It does not hold: see the README, section 4.
TeardownAfterLastCall == \A i \in 1..built : life[i].torn = 1 => calls[i].threads = {}

\* "reset is called before the first input of the new stream": an input joined with
\* a trigger is of the trigger's stream.
\* It does not hold: see the README, section 4.
JoinsOneStream ==
    \A i \in 1..built : work[i].pc = "calling" => work[i].joined \in {NoStream, work[i].input}

\* What a host keeps of every instance: outputs under the key of their input,
\* one call at a time, one teardown.
InstancesAreServed ==
  /\ TypeOK
  /\ OutputsUnderTheirKey
  /\ OneCallAtATime
  /\ TornDownOnce

=============================================================================
