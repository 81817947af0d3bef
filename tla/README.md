# p-SWAMP: TLA+ verification

p-SWAMP streams phasor measurements (live feeds and recordings) to analysis modules and
to a web page.  This directory models in TLA+ the concurrent core of it
(`core/src/pswamp_core`, with its Kafka transport) and the concurrent parts of the web
server, of the desktop applications it runs and of the browser's client: TLC checks each
component on a small instance, TLAPS proves the most important properties for every
instance.  All paths below are relative to the repository.

    tlc -config MCOutbox.cfg MCOutbox         # one run of the model checker
    tlapm PipelineRegistryProofs.tla          # a module of proofs

`PROJECT.json` is the index: the components, the runs, the mutant that each property
catches, the source lines behind each definition, the hazards, the findings and the theorems.

## 1. The system

A browser opens a socket with its client id.  The web server acquires that client's
*pipeline run* from the registry.  A run owns a *source set*, drives one active source at a
time, and publishes each frame under a key `(pipeline, run id, stream)` on a transport (in
memory, or Kafka).  Workers run *module hosts*: a host builds one module instance per run,
feeds it that run's frames in order, and publishes its results and errors under the key of
the input.  The run takes the results back and the web server pushes them to the sockets.
Commands (play, seek, switch source, module settings) go from the page to the run, which
applies them itself or publishes them to a module's command topic.

    browser ── socket ── web server ── PipelineRegistry ── PipelineRun ── ActiveSource ── Playable
                                             │                 │  CommandInbox    └─ pump of a feed
                                             │              Outbox
                                             │                 │
                                             │             Transport (memory | Kafka)
                                             │                 │  Subscription
                                             └─ idle timers    └─ ModuleHost ── instance ── Outbox

Everything in the core runs on asyncio event loops.  There are no data races inside a
process; what is hard is what may happen at an `await`: a cancellation, a newer command, a
newer stream, another task that changes what was just checked.  Between processes messages
of different topics have no order, data may be lost, and an acknowledgement may be lost.
A blocking module's calls run in threads.

The web server's grid pages still run on an older pipeline of their own, which has threads:
a *hub* per client replays a recording through the desktop's analysis applications.

    browser panel ── socket ── HubRegistry ── Hub ──┬── RecordingPlayer (thread) ── RecordedIO queue
       buffer                    timers, locks      ├── applications (threads) ── time window
                                                    └── MessageBus ── stores (alarms, islands, status)
                                                            │
                                            pump of a page ─┘── socket

| Component (source) | State | Operations | Talks to | What is hard | Correct when |
|---|---|---|---|---|---|
| PipelineRegistry (`pipeline.py` 564-721) | entries, one lock per key, acquires in flight, builds pending, idle timers, LRU | acquire, release, idle timeout, evict, stop_all | web server (calls), PipelineRun (start, stop) | lock objects are dropped and remade; a build or stop suspends under a lock; cancellation at each await | one run per key, never above the cap, watched runs kept, idle runs and locks reclaimed |
| PipelineRun and shared live runs (`pipeline.py` 259-561) | stream number and mark, followed run, latest results, sticky settings | publish, follow, unfollow, receive, dispatch, resend settings | ActiveSource, Outbox, transport | results of an old stream arrive late; data of a side just left is still queued | what is shown belongs to the source shown |
| Outbox (`transport/__init__.py` 212-359) | queue, number of data in it, message being sent, backoff | publish, the sending task, close | transport (await), error reports (callback) | data makes room in the middle of a queue whose head is retried | order, bounded data, every control message taken or reported |
| ActiveSource, CommandInbox (`active_source.py`, `command_routing.py`) | active source, its player or pump, command in progress, waiting commands | read ahead, supersede, cancel, apply a switch, pump, reopen a feed, stop | Playable (queue and future), SourceSet, the run (callbacks) | a switch cancels another at any await of it | one source feeds the run, every command has a fate |
| Playable (`playable.py`) | stream and read in flight, held frame, cursor, paused/ended/error, commands | start, stop, play, pause, speed, seek, step, pacing, loop, end, fail | a provider (reads), the run (publish) | a command arrives while a frame is held or read | each frame once, pauses and chunks respected, commands answered |
| ModuleHost (`host.py`, `modules.py`) | instance in service, retired ones, back-off; per instance: queue, join, lock, drop | deliver, build, serve, reset, handle, drop, reap, sweep, stop | subscriptions, module code (threads), Outbox | four feeds, two callers, cancellation that does not stop a thread | reset before a new stream, outputs under their key, one teardown |
| Subscription, in-memory transport (`subscription.py`, `transport/__init__.py`) | bounded queue, overflow count | offer, read, detach | hosts, runs | drop-oldest beside a reader | fan-out keeps order |
| KafkaTransport (`transport/kafka.py`) | created topics, one consumer, its assignment and positions, what is ready | publish, create topic, subscribe, assign, fetch, check topics, reopen | a broker | a failure between two steps of an assignment; topics that vanish; restart resumes control topics, joins data at the end; records that expire meanwhile | delivered in the order sent and once, nothing of a joined control topic skipped that is retained; a position that expired breaks both (section 4) |
| Joins, keep-up (`inputs.py`, `keep_up.py`) | latest inputs with age; lag statistics | observe, join, report | ModuleHost | ages across streams | stale inputs are not joined |
| SourceSet, settings (`sources.py`, `settings.py`, ...) | active source, open streams | switch, consume, close | ActiveSource | closing a stream that is being read | sequential |
| Hub registry (`pswamp_web/hub.py`, `__init__.py`) | entries, locks, acquires in flight, idle timers | acquire, release, evict, idle timeout, stop_all | sockets, Hub (in threads) | an older copy of the registry's algorithm: a client's lock goes before its hub has stopped | one hub per client, the cap, none stopped under a socket, none forgotten |
| Hub, recorded stream (`hub.py`, `recorded_io.py`, `replay.py`, `time_window/api.py`) | player's cursor, reader's queue, window and its counter, a page's session | start, stop, play a row, read, append, slice for a page | player and application threads, the event loop | prefill and live rows share a bounded queue; the counter is read without the lock of the window | history whole, newest kept, time forward, page level with the window |
| Bus, stores, pumps (`bus.py`, `stores.py`, `pump.py`, `islanding/api.py`) | alarms, islands, status rows, a page's event queue | publish from a thread, deliver, acknowledge, push | applications, pages | a thread that outlives its hub; a notification that is dropped | stores agree with the application and each other |
| Web client (`app/client-web`) | a panel's socket, the time window's buffer | connect, retry, apply a slice | web server | reconnect beside unmount | one socket per panel, retries stop on a terminal code |
| Desktop (`desktop`) | time windows, alarm life cycles, Qt windows | read a stream, detect, alarm | brokers | an alarm that clears and rises again | one open alarm per application; numerics and windows are out of reach |
| Models, tools, example modules, deployment | | | | | no concurrent state |

## 2. What is modelled

One atomic step of a model is what a coroutine does between two awaits: asyncio gives
control away nowhere else.  Where such a segment does several things it is one action, or
several actions between which no other task can move (`loop` in `PipelineRegistry`, `pc =
"top"` in `Playable`).  A cancellation may land at every await, and does what the code's
`finally` and `except` blocks do there.

**`PipelineRegistry`** – every operation of the class.  `live`, `sockets`, `timerOf`, `age`
and `older` are `_entries` (with `last_used` kept as the order it induces); `lockOf` is
`_locks`, `acquiring` and `pending` are the two counters.  Lock *objects* have identities
(`holder`, `waiters`), since the code drops a key's lock and makes a new one.
A task is a client's `acquire` or an idle timer, and `pc` names the await it is in.
`acquire` is `Acquire`, then `Join`, or `MakeRoom`* `Build` `Started`, with the exits
`Refuse` (CapacityError), `StartFails`/`Aborted` and `AcquireCancelled`.  `EvictEntry` is
`_evict` up to its await, shared by the capacity eviction and the timer's `IdleEvict`.
`StopAll` is shutdown.  Left out: what a run is; its start and stop are awaits that return
or raise.

**`RegistryContract`** is what both registries (this one and the older `HubRegistry`) promise a page, in a page: the run
of a key is built once, when there is room, is joined by whoever comes later, stays while somebody holds it, and never more
are in use than the cap.  `Stage` says what it sees of a key.  Both are shown to implement it (`ImplementsContract`).

**`Outbox`** – `Publish` with the drop for room and the report of it, which `keep_up` publishes as a control
message into the same outbox, in front of the message that came (`ReportsDrops`: at once, then at most every `ReportEvery`); `Take`, `Taken`, `Refused`, `BackedOff` are
`_run`, `_send` and `_attempt` for both classes of message; `Close`, `TaskCancelled`,
`Flushed`, `FlushTimeout` are `close`.  A refused message may have reached the broker
(`unanswered`).  `arrived`, `dropped` and `reported` record each message's fate.  Time is
ticks of the deadline, the backoff and the close timeout; a timer may fire late.

**`Playable`** – the player task.  `pc` is its await.  `Pops`/`Refuse`/`Play`/`Pause`/`Speed`/
`Seek`/`StepBack`/`Step` are `_pl_apply`; `BeginOpen`, `Opened`, `OpenFails` are `_pl_open`;
`Park`, `Wake`, `Due` are `_pl_run` and `_pl_wait`; `FrameRead`, `LoopBack`, `Finish`,
`ReadFails` are `_pl_next` with `_pl_end` and `_pl_fail`.  Callers and the provider are tasks
that move at its awaits.  `origin` and `shown` are history variables.  Abstracted: when a
held frame is due (`_pl_due`; speed therefore changes nothing) – pacing only delays a frame.

**`ActiveSource`** – the preempting inbox (`Arrive` is its read-ahead: supersede what waits,
cancel what is applied; `Serve`, `Served` the loop that applies), the router's handlers
(`Refuse`, `HandOver`, `Switch`, `Stopped`, `Started`, `Opened`, `Cancelled`), its pump and
the stop of the run, during which the inbox reads on until what it was applying has ended.  A recording's player is seen as a task that answers what it is handed;
`Playable` is its detail.

**`PipelineRun`** – a client's run.  `publish` is `PublishFrame` and, for a status,
`Numbered` with `Follow` (`_follow`, `_unfollow`): the stream number goes up with the first
message under a new stream mark, whichever it is.  `Switch`, `Opened`, `Seek`, `Cut`,
`Play`, `LoopsBack` are what `ActiveSource` and `Playable` do to the mark, in the order in
which they publish.  `Receive` is `_receive`, `ReceiveFollowed` is `_receive_followed` with the
queue of each subscription ever made to follow a live run, since an old reader may still have messages.
`LiveFrame`, `LiveResult`, `LiveTurns`, `RepeatStatus` are what the shared runs publish.
Its commands are in `ActiveSource` and `ModuleSettings`.

**`ModuleSettings`** – the way of a sticky setting.  `Dispatch` and `Hear` are `dispatch` and
`_resend_settings`; `Send` (whose answer may be lost, so that the setting is sent again) and
`GiveUp` are the outbox with the broker; `Feed`, `InputBuilds`, `SetUp`, `Fails`, `SweptIdle`
are the host as far as settings go (`ModuleHost` is its detail); `Apply` is the inbox, which
refuses what is late and what the module's `validate` refuses; `Crash` and `Restart` are the
worker's process, whose fresh consumer reads from the end of the command topic.  A message
has the age of its stamp and that of its place in the queue, in ticks up to just past the deadline.

**`ModuleHost`** – deliveries on the four kinds of topic for any key, in any order
(`DeliverToSlot`, `DeliverToNone`, `DeliverToNew`, `DeliverClosed`), the instance's task
(`SetUp`, `TakeInput`, `Reset`, `Call`, `CallReturns`), its command inbox, `_drop` in its
three stages, and the tasks that drop: `PipelineClosed`, the sweep, the reaper, the host's
end.  `Blocking` selects `asyncio.to_thread`: then a call stays in a thread although its
caller was cancelled.  **`ModuleContract`** is what the host promises the author of a
module, in a page: an instance is set up, called on one stream at a time with a reset in
between, and torn down.  `ModuleHost` is shown to implement it (`ImplementsContract`).

**`KafkaConsumer`** – `PublishRecord`, `Create`, `Send` are the publishing half: a topic is made once and
again when the broker no longer knows it; an answer may be lost, so that the record is sent twice.
`Subscribe` is `_watch`, `Open` and `Fail` the life of the one consumer, `AssignBegin`, `AskStarts`
(`beginning_offsets`), `AssignResumed` (`end_offsets` and the seeks), `AssignEnd`, `AssignFails` are `_assign` between
its awaits, `Fetch` is one batch with its records put in the order they were sent in, `CheckTopics` is `_check_topics`.
The broker is external: a topic is a log with a start, `Expire` is retention, `LoseTopics` a broker that comes back
empty.  One fetch brings all there is on the topics held, and a request about a topic that is gone times out.

Retention may take any record at any step, with one exception (`Coming`): a record sent since the consumer was opened
is read in time, for retention is a minute and polls are fractions of a second.  What was sent *before* that may be old:
it can go between the question for the start of a log and the first fetch.  The position is then out of range and the fetch
sets it to the end (`auto_offset_reset`), past records that are retained, which `passed` collects, while `_resume_at` stays
behind.  `SubscriptionsHold` and `ControlArrives` say exactly what is left of the promises then; section 4 has what the
docstring says.  The exception of `Coming` matters to `ControlArrives` only: the proofs make no use of it.

**`HubRegistry`** – `Enter` with `Join`, `Reserve`, `EvictOther`, `Refuse`, then `Evicted`, `TryAgain`,
`Built`, `BuildFails` are `acquire` and `_make_room`; `Release`, `TimerFires`, `TimerEnters`, `TimerDone`
are `release` and `_evict_when_idle`; `Shutdown`, `StopAll`, `StopAllEnds` are the lifespan.  A hub
starts and stops in a thread, so between begin and end anything else moves.  The browser's half is `useServerSocket`:
`Mount`, `Connect`, `OnClose`, `Unmount`, with the links lost in between.  The order of a lock's waiters, the victim
of an eviction (the least recently used in the code) and the length of a timer are left open, so what is checked holds
for any of them.  `stop_all` comes after uvicorn has let every handler end.  The
refusal of a socket without a client id (1008) happens before the registry is asked and is left out.

**`RecordedStream`** – three threads: the player (`PlayRow`, `PutDropping`, `PlayerEnds`), an
application (`ReadRow`, `AppendRow`, `CountRow`, `EndOfStream`, `AppDies`) and the event loop with the hub's
`start` and `stop` (`StartPlayer`, `StopHub`) and one page (`Connect`, `SelectChannels`, `Resync`, `Tick`).  A row is its absolute index, so
passes of the loop and the history before row 0 keep apart.  `Receive` is the browser's buffer.  Pacing is left out: a row may be played at any time.

**`HubAlarms`** – a frame of an islanding application's thread is three steps, `ReadFrame`, `ReportStatus` and
`RaiseAlarm`: the result, the status report and the event of the `AlarmHandler` cross to the event loop one by one.  Between any two of them the
loop may deliver, and the thread may die (`AppDies`).  `Deliver` is the bus on the loop with the stores (`AlarmStore.handle`, `IslandStore`,
`AppStatusStore`) and the page's bounded queue; `PushOpening` and `PushUpdate` are the page's pump; `Annotate` is an
operator's command; `Stop`, `FinishStop` let the thread outlive the stop.

The `MC...` modules give the constants that a `.cfg` cannot write.

## 3. What the runs check

| Run | Properties | Shows |
|---|---|---|
| `registry` | `NothingLostOrLeft` (`TypeOK`, `WatchedRunIsKept`, `LocksAreReclaimed`), `OneRunWithinCap` (`NeverMoreThanMaxRuns`, `OneRunPerKey`), `ImplementsContract`, `IdleRunIsReclaimed` | two clients, two keys, a cap of one, two timers, three lock objects: every overlap of acquires, evictions, failed starts, cancellations and shutdown |
| `outbox` | `EveryMessageCounted` (`TypeOK`, `DataIsCounted`, `ControlIsAccountedFor`), `OrderIsKept` (`OldestGivesWay`, `ArriveInOrder`), `ControlSettles` | five messages of either class, the reports of drops among them, room for two data, a transport that takes, refuses or answers late |
| `playable` | `FramesAreShownOnce` (`TypeOK`, `EachFrameOnce`), `PlaysWhatWasAsked` (`ChunkStopsThere`, `PauseHolds`), `CommandsAreAnswered` | two callers with ten commands on a looping recording of three frames with a hole |
| `active_source` | `OneSourceAtATime` (`TypeOK`, `NeverTwoSources`, `NothingRunsOn`), `CommandsInOrder` (`NoneForgotten`, `AppliedInOrder`), `SwitchIsServed`, `CommandsSettle` | three commands of any kind over two recordings, a live feed and a plain history |
| `module_host` | `InstancesAreServed` (`TypeOK`, `OutputsUnderTheirKey`, `OneCallAtATime`, `TornDownOnce`), `EveryInstanceGoes`, `ImplementsContract` | three deliveries for two runs and two streams, two instances, calls in threads |
| `module_settings` | `SettingsAreKept` (`TypeOK`, `SettingsArrive`), `SettingsSettle` (`SettingsNeverGoBack`, `SettingsConverge`) | three settings, one of which the module refuses, three instances that fail, idle out or die with their worker, lost acknowledgements: an instance ends up with the newest setting, unless it was refused or reported as held up |
| `pipeline_run` | `ResultIsOfTheView`, `FrameIsOfTheFollowed`, `OneStreamPerNumber`, `LiveNeverGoesBack`, `OutageIsHeard` | a recording and two shared live runs, four openings, two times following: late results, queues of the side just left, lost statuses |
| `kafka_consumer` | `SubscriptionsHold` (`ConsumerTypeOK`, `HeardAsSent`, `HeardOnce`, `ReadyIsHeld`), `ControlArrives`, `ConsumerReturns` | three records on two control topics, subscribed to one after another while a consumer fails twice and reopens, in the middle of an assignment too, answers get lost, records expire between any two steps and the broker comes back empty; a consumer that was reset past what is retained is reopened, and goes back to it |
| `hub_registry` | `HubsAreOwned` (`OneHubPerClient`, `EveryHubIsOwned`, `ServedHubRuns`, `WithinCap`), `NothingIsLeftBehind` (`TypeOK`, `IdleIsTimed`, `LocksAreReclaimed`, `OneSocketPerPanel`), `ImplementsContract`, `PanelsSettle`, `HubsStop` | panels of two browsers that mount, lose their links, reconnect and unmount against a cap of one hub, with timers that fire late and a shutdown |
| `recorded_stream` | `StreamIsWhole` (`StreamTypeOK`, `PrefillIsWhole`, `NewestIsKept`), `TimeMovesForward`, `BufferIsOfItsChannels` (`BufferShowsItsChannels`, `BufferWithinOneRow`), `StreamSettles` (`ViewCatchesUp`, `ThreadsEnd`) | a looping and a single replay through a queue that overflows, with a page that connects, changes its channels, resyncs and leaves |
| `hub_alarms` | `AlarmsAreOne` (`AlarmsTypeOK`, `OneOpenAlarm`, `StoresAgree`), `RestIsCurrent`, `StoresOnlyMoveForward` (`AlarmsNeverGoBack`, `StoppedStoresRest`), `StatusesSettle` (`RunningAppReports`, `DeadAppTurnsStale`, `AlarmEnds`) | three alarms in a store of two, a page with a queue of one event, an operator, an application that dies in the middle of a frame, a hub that stops |

A property in front of brackets is the conjunction of the named parts in them; a module's type invariant is one of
the parts, except in `pipeline_run`, where it is proved instead.  Each property is paired in `PROJECT.json` with a
mutant: a plausible bug in a definition that makes TLC find the property violated under the
same configuration.

### Bounds, and why they are enough

- *Registry*: with a cap of one, two keys are enough to make every acquire compete for
  room, and two clients can be on the same key or on different ones.  Two timers let the timer
  of an evicted run survive beside the timer of the key's next run.  Three lock objects let
  a key's lock be dropped and remade while the old one still has a holder.  `Acquire` and
  `Release` wait for a free lock or timer object when the bound is reached, which only removes
  longer chains of the same kind.  The proofs remove all of these bounds for the properties they cover.
- *Outbox*: `MaxMessages` 5 with `MaxSize` 2 puts a control message in front
  of, between and behind data that gives way, and lets a second drop come too soon after the report of the first.  `Deadline` 2 with a first retry of 1 gives a
  refused message a retry before it is given up.
- *Playable*: frames {0, 1, 3} of 0..4: a first frame, neighbours, a hole, an end after the
  last frame.  Streams are counted modulo `MaxStreams`; the properties compare only a stream and its successor.
- *ActiveSource*: `MaxCommands` 3: one being applied, one that preempts it, one behind or one that
  preempts the preempting one.
- *ModuleHost*: `MaxDeliveries` 3 and `MaxInstances` 2: old stream, new stream, then a newer run or
  a closing.  `MaxQueue` 2 with drop-oldest.
- *PipelineRun*: `MaxMarks` 4 with `MaxFollows` 2 lets the run go recording, live, recording, the same
  live or the other, with messages of the first stay still queued.  `MaxQueue` 1 makes
  every second message give way.  `MaxLiveFrames` 2 gives an older and a newer picture.
- *ModuleSettings*: `MaxSettings` 3, the second refused: an older good one, one that replaces it and is
  refused, and one after.  `MaxInstances` 3 lets an instance be rebuilt, and rebuilt again while the first
  announcement is still under way.  `MaxWaiting` 1 limits only what is between broker and inbox; what
  waits in the run's outbox is not limited.

- *KafkaConsumer*: two control topics, three records and two faults are what it takes for a consumer to go back: a record at the position expires, one
  behind it is passed over by the reset, one of the other topic is delivered, and the consumer fails again.  They also hold the case that needs the sort
  (an earlier and a later record on different topics).  A fault is a failure, a lost answer or a lost broker, anywhere.  With a data topic
  beside the two, two records and one fault the same properties pass as well (538,000 states); the proof is for any topics.
- *HubRegistry*: a cap of one makes every build compete; two sockets and two timers at a time are an acquire beside
  another and a timer that survives its entry.  `MaxMounts` 2 and `MaxFaults` 1 let a panel come again, and a link or a start fail once.
  Names of hubs and locks are reused when nobody holds them.
- *RecordedStream*: a recording of two rows, a window of three and a queue of one: the history wraps around the
  recording and is longer than the queue, so that each live row finds it full.  One slice in flight: the browser may be as late as it likes, the next slice waits.
- *HubAlarms*: `Hold` 1 lets an emergency end, come back within the hold time, or after it.  `Limit` 2 with three alarms drops the oldest; `QueueMax` 1 drops notifications.
  `MaxPosted` 3 lets all messages of one frame wait, or those of two frames.

`CHECK_DEADLOCK` is on everywhere: where the system may stop, `Terminated` says so.

### Fairness, and why the code justifies it

Weak fairness only, of steps that the event loop takes by itself: asyncio runs every task
that can run.  Time passes.  In `Outbox` the transport answers every publish (aiokafka has a
request timeout).  In `Playable` a provider answers each read in the end; in `ActiveSource`
that is *not* assumed for `SwitchIsServed` (a switch away from a hung source must be
served), only for `CommandsSettle`, which states it as its hypothesis.  In `ModuleHost` a module's calls and its teardown return, but
its setup may hang.  In `PipelineRun` the readers run, and a shared run repeats its
status while its feed is down (a timer), so that one repetition arrives in the end.
In `ModuleSettings` the broker need not answer: time passes (`Tick`), so that what it does not
acknowledge is given up, and `WF` of an acknowledged send is the answer after a finite number of losses.  In `KafkaConsumer` the outbox retries a publish and the consumer's task
runs on; faults are bounded, which stands for a broker that stays up long enough.  In `HubRegistry` the loop, the threads that start and stop a hub (each joins its threads for a bounded time)
and the browser's event loop go on, timers fire, and what is owed to a panel is owed only while links hold.  In `RecordedStream` and `HubAlarms` the threads run,
the loop delivers, ticks and pushes, and time passes; an application's death is not fair.
Nothing is fair that a user, a client or a peer does: connecting,
leaving, commanding, publishing, closing.

## 4. Disagreements between the code and what is said of it

`registry_idle_seconds` is a run whose only property, `OutlivesItsLastSocket`, states a sentence of the
code, and which TLC violates: `_make_room` evicts a run and leaves its idle timer asleep; the timer then
evicts the key's *next* run, less than `idle_seconds` after its last socket (`pipeline.py` 584, 695).

Six more are stated in their modules and have no run of their own.  TLC finds each violated under the constants named here.

| Property | Seen with | What happens |
|---|---|---|
| `LiveFeedIsReopened` (`ActiveSource`) | `Sources = {rec, pmu}`, `Late = FALSE`, `MaxCommands = 2`, `AnsweringSpec` | A live feed whose first opening fails is not tried again (`active_source.py` 26, 212). |
| `JoinsOneStream` (`ModuleHost`) | `Topics = {"input", "observed", "command", "closed"}`, `Spec` | A trigger of the old stream that waits for the instance's lock is joined with an input of the new one (`host.py` 27, 119). |
| `TeardownAfterLastCall` (`ModuleHost`) | the same | A call in a thread outlives the cancellation of its task; teardown comes beside it (`modules.py` 255, `host.py` 415). |
| `RecoveryIsHeard` (`PipelineRun`) | `Lives = {live}`, `MaxMarks = 2`, `MaxFollows = 1` | The status that says a followed feed is back is data and is not repeated (`_repeat_status` repeats errors only): lost once, a viewer shows the outage for good (`pipeline.py` 540-547, 343). |
| `StillArrives` (`KafkaConsumer`) | `Control = {a, b}`, `Data = {}`, `MaxRecords = 2`, `MaxFaults = 1` | "It resumes each control topic where it was, so what was published meanwhile still arrives" (`kafka.py` 23): a consumer fails; a second record is sent while it is down; reopened, it asks for the start of the log (252); the first record, at which it would resume, expires; it seeks there (255).  The fetch is out of range and is reset to the end (207), so the second record, which is retained, is not read. |
| `AppliedAsSent` (`KafkaConsumer`) | the same, `MaxRecords = 3`, `MaxFaults = 2` | "So commands of different classes apply as sent, also when a reconnect fetches everything sent meanwhile at once" (`kafka.py` 31): after that reset `_resume_at` is where it was, for only `_decode` moves it (307).  A third record, of another topic, is delivered; the consumer fails again; the old offset no longer fits, the topic is resumed at its start, and the second record is delivered after the third. |

Also noticed, in the core: Play on a provider that cannot be opened ends unpaused, with an error,
although "a provider failure stops the stream" (`playable.py` 48, 253); an instance's outbox that gives up
its `ModuleStarted` reports to nobody, so that the settings are not sent again (`host.py` 191, the
exception `unheard` in `SettingsArrive`); a setting the module refuses takes the place of the one it
accepted, so that a rebuilt instance is back at its default (`pipeline.py` 444, `Unfit` there); `Outbox.close` cancels the send it finds, and that message is
neither sent nor reported (`transport/__init__.py` 293-297); an outbox never reports that it caught up, although "the run's outbox reports
the same way" (`keep_up.py` 10), since only drops are noted; a switch that is itself refused,
or too old, has already cut short the switch in progress, so that no source runs
(`command_routing.py` 138); after a switch to a recording that cannot be opened the last frame
of the source before stays on the page, since only following a live run clears it (`pipeline.py` 384);
`_ensure_open` looks at `_is_open` before it awaits `aopen`, so that two callers open a source twice
(`sources.py` 330); a topic that the broker lost and the publisher made again under a consumer that is up is read from its end, so what
came in between is lost, and a control topic that has grown past the old offset is resumed in its middle
(`broken` in `KafkaConsumer`, which exempts such records from `ControlArrives`).

In the web server and the desktop: the counter of appended rows is raised after the window's lock is released (`replay.py`
76-79), so "the two describe the same instant" (`replay.py` 84) does not hold: a page may get a row twice or miss one
(`BufferWithinOneRow` is what does hold); "a lost notification costs latency and never content" (`pump.py` 134) is not so for the
islanding result, which only its event carries (`lost` in `RestIsCurrent`); "it holds this lock and we waited for it" (`hub.py` 371) is not so once the
eviction has dropped the lock, so that a client's new hub may start while its old one stops, uncounted by the cap;
an eviction for room leaves the victim's timer asleep as in `PipelineRegistry`, and who evicted another's hub may
still be refused; the desktop's `AlarmSender`, other than `AlarmHandler`, never closes its first alarm
when an emergency returns just after the hold time; an outage of the first channel alone is not reported, since `any` of the index array `[0]` is
false (`line_outage_detection.py` 52).

## 5. What is proved

TLAPS proves, for every value of the constants, all 26 safety properties that the runs check, the
refinements of `ModuleContract` and, twice, of `RegistryContract` among them.  Each module of proofs rests on the assumptions named in its component's
module and on nothing else; TLC evaluates them in every run.

| Module | Theorems | Properties |
|---|---|---|
| `PipelineRegistryProofs` | `TypeCorrect`, `CapHolds`, `OneRun`, `WatchedRuns`, `OneRunFits`, `Reclaimed`, `LosesAndLeavesNothing`, `Implements` | `OneRunWithinCap`, `NothingLostOrLeft`, `ImplementsContract` |
| `PipelineRunProofs` | `Invariant`, `TypeCorrect`, `ResultsAreOfTheView`, `FramesAreOfTheFollowed`, `StreamsAreTold`, `LiveGoesOn` | `ResultIsOfTheView`, `FrameIsOfTheFollowed`, `OneStreamPerNumber`, `LiveNeverGoesBack` |
| `ActiveSourceProofs` | `Invariant`, `OneSource`, `InOrder` | `OneSourceAtATime`, `CommandsInOrder` |
| `TransportProofs` | `Invariant`, `NoMessageLost`, `Ordered` of `Outbox`; `ConsumerInvariant`, `SubscriptionsKept` of `KafkaConsumer` | `EveryMessageCounted`, `OrderIsKept`, `SubscriptionsHold` |
| `PlaybackProofs` | `Invariant`, `FramesShown`, `PlaysAsAsked` of `Playable`; `ReplayInvariant`, `StreamWhole`, `TimeGoesUp`, `BufferFollows` of `RecordedStream` | `FramesAreShownOnce`, `PlaysWhatWasAsked`, `StreamIsWhole`, `TimeMovesForward`, `BufferIsOfItsChannels` |
| `ModuleHostProofs` | `Invariant`, `InstancesServed`, `Implements` | `InstancesAreServed`, `ImplementsContract` |
| `PageProofs` | `Invariant`, `SettingsKept`, `NeverGoesBack` of `ModuleSettings`; `AlarmsInvariant`, `OneAlarm`, `PageIsCurrent`, `AlarmsGoForward` of `HubAlarms` | `SettingsAreKept`, the safety half of `SettingsSettle`, `AlarmsAreOne`, `RestIsCurrent`, `StoresOnlyMoveForward` |
| `HubRegistryProofs` | `Invariant`, `HubsOwned`, `CapHolds`, `NothingLeft`, `Implements` | `HubsAreOwned` (with `WithinCap`), `NothingIsLeftBehind`, `ImplementsContract` |

Three modules of proofs extend two components each.  The second of the two therefore gives its specification, its type
invariant and a few actions names of their own (`ConsumerSpec`, `StreamSpec`, `AlarmsSpec`, `PublishRecord`, `StopHub`); the theorems about
one component use nothing of the other.

### PipelineRegistry

For every number of clients, keys, timers and locks, every cap and every `idle_seconds`, from `RegistryAssumption` (the
keys and clients are finite sets, the cap and the idle time are positive, the "none" values
are not members of the sets).

*Types.*  `TypeOK` alone is not inductive: an action that decrements `pending` or
`acquiring[k]` stays in `Nat` only because somebody is counted there.  `TypeInv` adds
`WellFormed` (a task in flight has a key and a lock; only clients build), `PendingCounts`
(`pending` is the number of clients in `"start"` or `"abort"`) and `AcquiringCounts`
(`acquiring[k]` is the number of clients in flight for `k`).  Two lemmas on how one client's
step moves such a cardinality (`OneClientMoves`, `CountsOfAClientStep`) carry every action.

*The cap.*  `TypeInv` and the cap together are inductive: `Build` checks the sum of the two
terms, `Started` moves one unit from the second to the first, and the other
actions take away.  `LiveCounts` gives the cardinalities.

*One run.*  Mutual exclusion by a lock that may be replaced needs to say why there is only
one lock in use.  `LockInv`: whoever is past the lock holds it (`HoldersHold`); two clients
in flight on one key have the same lock object (`SameLock`); that object is the one in
`_locks` (`CurrentLock`, unless the registry was stopped); and nobody builds for a
registered key (`NotRegistered`).  The hard steps are the
two that drop a lock: an ending acquire and an eviction.  `LastInFlight` shows that when
`acquiring[k]` falls to 0 nobody else is in flight for `k`, from `AcquiringCounts`.
After `stop_all` no new acquire starts, so the in-flight ones keep sharing the lock they had.

*Nothing lost or left.*  Both halves are inductive beside the invariants above, for different reasons.  `WatchedRuns`
needs `LockInv`: an eviction takes an entry without sockets, and a join that
would raise the count waits behind the lock whose holder evicts.  `Reclaimed` needs `AcquiringCounts`: that a lock stays
while an acquire of its key is in flight is known from a count, so that the last one to end must be shown to be the last.

*The contract.*  `Implements` maps each step to one of `RegistryContract` or a stutter.  `Build` is its `Begin`: `BuildsAlone`, from
`LockInv`, says that nobody else builds for the key, and `InUseIsCounted` that the keys in use are no more than the runs
registered and the acquires that count as pending, so that a check of a sum of counters is one of a set of keys.  An eviction takes a run that
nobody holds because its `sockets` count sessions (`WatchedRunIsKept`).

### PipelineRun

For any bounds and any set of shared live runs.

`IInv` is `TypeOK` with `PhaseInv` (where the router is says whether a live run is followed; without it
`TypeOK` is not inductive), `NumberInv` (what was sent last under which number, against the mark the run
has seen and the router's), `OrderInv` (the queued frames of every subscription are sorted and no
newer than what its live run made; those of the one followed are no older than the frame shown; a
subscription not yet made is empty) and the two invariants of the view.  The hard step is
`ReceiveFollowed`, where a reader of a subscription that was left still takes messages: `OrderInv` speaks
of all of them, and the guard lets only the newest one's through.

### ActiveSource

For any sources and any number of commands.

`TypeOK` is not inductive alone: what a switch makes active is a source only because `at = "stopping"`
says that the command being applied is a switch (`SwitchInv`).  That two players, or a player and a pump, never run at once
needs to know what each step of a switch has let go of already: nothing plays and no pump
runs at `"starting"` and `"opening"` (`SwitchInv`), and a player that runs is the router's own,
beside no pump (`PlayerInv`).  For the fates, `QueueInv` says that the queue rises and
ends before what comes next, and `FateInv` where a command of each fate is and that a switch in
progress is only cancelled for one that preempts it.  The hard step is `Arrive` of a switch, which reports all
that waits and leaves only the switch that came last.

### Outbox

For any number of messages, room and deadlines.

`IInv` is `TypeOK` and `ControlIsAccountedFor` with the order of the messages at each place they
can be: what waits rises, behind what is being sent (`QueueInv`); what the transport has is older than all of it
(`ArrivedInv`); what made room is older than the data that waits (`DroppedInv`).  Order is also what
makes the count right: since the queue rises, its places are its messages (`PlacesAreMessages`, a bijection), so that
`_data` can be compared with a set of messages, from which one is taken at a time (`CountInv`).
`LeastNumber` gives `_drop_oldest_data` a place to find, and `PublishFacts`
says of the whole of `publish`, the report included, that it either admits a message or displaces the oldest data.

### Playable

For any recording (any finite set of times, any end), any callers and any commands of the five kinds
(`CommandsAssumption` says what a command carries: a step a number of either sign or 0, a seek a time).

`EachFrameOnce` speaks of what a stream has shown before its last frame.  That is not inductive: the next frame may be held over a
wait, and a step or a seek may come meanwhile.  `StreamInv` says it for the first frame that is not shown yet, which is the held one or
the first one that is not read; `TaskInv` says at which awaits a frame may be held at all (over a pause, never over a read, so that `take`
never loses one), and that a stream being opened has shown nothing; `AskedInv` that a
command applied across an opening was checked before it.  The hard steps are the reads (`FrameRead`, `LoopBack`), where the set of frames shown grows by
exactly the one held, and need `NextFrameIsFirst`, that the frame a read gives is the first one ahead.

### ModuleHost

For any topics, keys, messages and instances, whether calls block in threads or not.

`StreamInv` says of every instance that its queue, the input in hand and what the module remembers are of one stream, unless a reset
is due; `CallInv` that whoever is in the module holds the lock, with what a cancelled task may leave in a thread; `DropInv` that how
far a drop is says whether teardown was called, and `ServingInv` that an instance nobody drops is
reachable, in service or retired.  `FreshInv` keeps a new instance clean.  The hard steps are the
deliveries, each of which may retire an instance, build another and leave a third to a drop that is already waiting.

`Implements` shows that each step maps to a step of `ModuleContract` or a stutter.  Four actions are seen (`SetUp`, `Reset`,
`Call`, `TasksEnd`); `MostStepsAreUnseen` covers the rest.  A call of the host is one of the contract only because `StreamInv` gives that
what the module remembers is of the input's stream.

### ModuleSettings

For any number of settings and instances, any deadline and any room.

`SettingsArrive` speaks only of moments when nothing is under way, so it says nothing of the steps between.  `NewestInv` says what
an instance without the newest setting waits for: its own announcement, or the setting in the outbox, on the topic or among its commands.
That the one on its way is not overtaken needs `OrderInv`: settings rise along all three queues
and across them, although an unanswered send is sent again.  `AgeInv` says that a
setting sent again is stamped anew, which is why one that is still in time in its queue is not refused as late.

### HubRegistry

For any browsers and panels, any cap and any number of sockets and timers, from `RegistryAssumption` (which takes the set of clients to be finite).

The invariant has ten parts.  Unlike in `PipelineRegistry` a client's lock goes while its hub still stops, so one hub per
client rests on entries, and what stops has to be owned by somebody else: by the acquire that evicts, by a timer or by `stop_all`.  `StateInv` says what state the
hub of each owner is in, `OwnInv` that no two own the same one, `KnownInv` that every hub has an owner;
`ServeInv` counts sockets, `TimerInv` ties an entry to its timer, `PanelInv` a socket to the panel that listens to it.  `LockInv` serializes the
acquires of a client.  The cap is a sum of two cardinalities of state-dependent sets, of which one step
may change both (an eviction for room); `FewerFit` bounds it.  Names of hubs, sockets and timers are reused: that a free one is free is part of
`Types`, `KnownInv` and `OwnInv`.

`Implements` needs no more than this: `ServeInv` makes the holders of an entry a number, which is 0 when it is evicted; `LockInv` makes the
one who builds alone; and `FailedSocket` and `MoveIsUnseen` cover the sockets that wait, are refused or end.  The two registries differ in
their locks, threads and shutdown, and implement one contract.

### KafkaConsumer

For any finite sets of control and data topics, any number of records and any number of failures, whatever expires and whenever.

`HeardAsSent` and `HeardOnce` need to know where reading goes on.  `GoesOn` says it of every topic that the broker has not lost
under a consumer: every record from the position on, and from the offset to resume at on, is newer than what was heard of the topic, and newer than all
that was heard unless a reset passed it over (`NewerFrom`); and what lies between the offset and the position was passed over (`PassedFrom`).  Records may expire at any step
in this argument; `AskedHold` says what is left of the starts that were asked for when the consumer seeks.  `TakenOn` says at which awaits of `_assign` a
topic that was assigned before may be missing from the consumer: on its way into it, or given back to be assigned again.  The hard steps are `Fetch`, where several logs are
merged into one order, and `AssignEnd`, where data topics start from their end.  The order of a batch is written with ranks: the
record in place *i* is the one with *i* records up to it (`InOrder`).  That every place has one is that ranks are a bijection (`OrderRises`).

### RecordedStream

For any recording, window, queue depth and selection of channels, looping or not.

Rows have absolute indices, so that every claim is one about numbers.  `RowOrder` has them rise from the window over the row in hand and the queue to the
row that the player reads next; `WindowInv` numbers the rows of the window up to the counter, or one past it between the
append and the count.  `NewestInv` says where the row played last is: dropping the *oldest* of a full queue is why it is never lost.
`PrefillInv` is the count that makes the history whole (a count of rows: a live row may take the place of one of history in a full queue): what the window has taken and what waits are together a window's worth, whatever is dropped, because a queue that
drops is full.  For the browser, `ChainInv` says of each slice on its way how it follows the one before, with
the errors it may have (a row twice or one missing), and `PageInv` ties the last one to what the page believes it has sent.  That errors do not add up is
`PageInv`'s bound: the page compares counters, not slices.  What remains is `BufferInv`, over the rows a slice appends and the ones that fall out.

### HubAlarms

For any hold time, reporting period and number of alarms, any room in the store, on the bus and in a page's queue.

`OneOpenAlarm` speaks of the store alone and is not inductive: an event still on its way could open a second alarm, or end one that is no longer kept.
The invariant numbers the events: the application's alarm *k* is opened by event *2k - 1* and ended by *2k*.
`EventsSent` and `EventsTaken` read the number reached off the application's handler and off the store's newest record, and
`EventsInv` says that the events on the bus are exactly those in between, in order and each once.  So the next event to arrive opens an alarm
that the store does not know, behind one that has ended, or ends the newest, which is open; `StoreInv` (the records kept are of consecutive
alarms, all but the last ended) follows, over the eviction of the oldest, and with it that no alarm goes back.  Operators' commands change
neither number.  `ResultsInv` says that the newest result on its way, or else the store's, is what the status is of.
When nothing is on its way, the two numbers are the same, and the stores agree on the alarm.  That a split grid has one needs `HandlerInv`: an emergency has an alarm
except between `ReadFrame` and `RaiseAlarm` of the frame that saw it, or where the thread died in between, which is the exception `StoresAgree` names.
Each of the three steps of a frame publishes one message or none (`ReadPublishes`, `ReportPublishes`, `AlarmPublishes`), which is all the other parts need to know of it.
`ShownInv` says what a page with events in its queue still lacks: a full queue drops events but is not empty, so that one push is still
to come, and it takes the alarms from the store; only a result is lost for good.  An open page keeps its hub from being stopped (the guard of `Stop`).

### Only model-checked

Liveness under fairness (`IdleRunIsReclaimed`, `ControlSettles`, `CommandsAreAnswered`, `SwitchIsServed`, `CommandsSettle`,
`EveryInstanceGoes`, `OutageIsHeard`, `ControlArrives`, `ConsumerReturns`, `PanelsSettle`, `HubsStop`, `StreamSettles`, `StatusesSettle`,
and that settings converge): out of the prover's reach, with `ENABLED`.

## 6. What is not modelled, and why

- The fan-out of the in-memory transport, ages of joined inputs, the `SourceSet`: one coroutine without
  an await, or called by one coroutine at a time.
- Pacing (`_pl_due`, the player's clock), ages of inputs, detection, identification: arithmetic in floating point.
- The store of line outages and the pumps of the other pages repeat the scheme of alarms and islanding.
- The desktop's own alarm sender and monitor, its broker clients, Qt windows: separate processes and I/O.
- Message models, JSON forms, TOML and class loading, tools, deployment, the pages' rendering: no concurrent state.
- Running out of memory, the cancellation of a cancellation, and a module that
  never returns from a call are left out.

## 7. Plan

What is left, in this order.

1. *Joins and keep-up*: the ages of the inputs a call joins, and a module's own reports of lag
   (the reports of an outbox's drops are in `Outbox`).
2. *Desktop alarms*: the sender's life cycle against the monitor's, with the hold time, beside `AlarmHandler`.
3. *Pacing* over small integers.
