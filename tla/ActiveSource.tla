---------------------------- MODULE ActiveSource ----------------------------
(***************************************************************************)
(* The commands of a pipeline run's player: the preempting CommandInbox of *)
(* core/src/pswamp_core/command_routing.py and the receiver it drives, the *)
(* ActiveSource router of core/src/pswamp_core/active_source.py.           *)
(*                                                                         *)
(* Commands are numbered as they arrive.  The inbox reads ahead; one task  *)
(* at a time applies a command, and `at` is the await it is in.  A         *)
(* recording's own player (module Playable) is a task of its own that      *)
(* answers the commands handed to it; a pumped source is another.          *)
(***************************************************************************)
EXTENDS Naturals, Sequences, FiniteSets

CONSTANTS
    Sources,        \* the run's sources
    Kind,           \* per source: "playable", "live" or "history"
    First,          \* the source active at the start, a playable one
    FollowLive,     \* follow_live
    Late,           \* whether a command may arrive past its deadline
    MaxCommands,    \* bound on the commands that ever arrive
    Playback,       \* any playback command
    Unknown,        \* a source the run does not have
    NoSource

ASSUME ActiveSourceAssumption ==
    /\ Kind \in [Sources -> {"playable", "live", "history"}]
    /\ First \in Sources /\ Kind[First] = "playable"
    /\ FollowLive \in BOOLEAN /\ Late \in BOOLEAN /\ MaxCommands \in Nat
    /\ Unknown \notin Sources /\ NoSource \notin Sources
    /\ Playback \notin Sources \cup {Unknown}

Ids == 1..MaxCommands
None == 0

VARIABLES
    arrived,    \* commands received so far
    command,    \* per command: Playback, or the source to switch to
    late,       \* per command: issued more than `deadline` ago
    fate,       \* per command: what became of it
    waiting,    \* the inbox's deque
    applying,   \* _applying
    preempted,  \* _preempted_by
    at,         \* the await of the task that applies
    active,     \* the SourceSet's active source
    playable,   \* _playable
    playing,    \* the sources whose player task runs
    handed,     \* the command a player was handed and has not answered
    pump,       \* _pump
    stream,     \* _stream is open
    error,      \* the router's own error
    phase       \* the run's: "running", "stopping", "stopped"

inboxVars == <<arrived, command, late>>
sourceVars == <<active, playable, playing, handed>>
pumpVars == <<pump, stream, error>>
vars == <<inboxVars, fate, waiting, applying, preempted, at, sourceVars, pumpVars, phase>>

\* "created": the task has not run yet.  "player": in the player's ahandle.
\* "stopping", "starting", "opening": in _stop_active, source.start, consume.
\* "done", "cancelled": the task has ended; the inbox has not seen it yet.
At == {"none", "created", "player", "stopping", "starting", "opening", "done", "cancelled"}

IsSwitch(i) == command[i] # Playback
Busy == at \in {"created", "player", "stopping", "starting", "opening"}

-----------------------------------------------------------------------------
(* CommandInbox *)

\* The inbox reads ahead until it stops and what it was applying has ended.
Reading == phase = "running" \/ (phase = "stopping" /\ applying # None)

\* Mutant: a switch supersedes what waits without a report.
ArriveUnreported(c, isLate) ==
    /\ Reading /\ arrived < MaxCommands
    /\ arrived' = arrived + 1
    /\ command' = [command EXCEPT ![arrived'] = c]
    /\ late' = [late EXCEPT ![arrived'] = isLate]
    /\ waiting' = IF c # Playback THEN <<arrived'>> ELSE Append(waiting, arrived')
    /\ fate' = [fate EXCEPT ![arrived'] = "waiting"]
    /\ preempted' = IF c # Playback /\ applying # None THEN arrived' ELSE preempted
    /\ UNCHANGED <<applying, at, sourceVars, pumpVars, phase>>

\* Mutant: a switch waits its turn.
ArriveQueued(c, isLate) ==
    /\ Reading /\ arrived < MaxCommands
    /\ arrived' = arrived + 1
    /\ command' = [command EXCEPT ![arrived'] = c]
    /\ late' = [late EXCEPT ![arrived'] = isLate]
    /\ waiting' = Append(waiting, arrived')
    /\ fate' = [fate EXCEPT ![arrived'] = "waiting"]
    /\ UNCHANGED <<preempted, applying, at, sourceVars, pumpVars, phase>>

\* read(): a switch supersedes what waits, and cancels what is being applied.
Arrive(c, isLate) ==
    /\ Reading /\ arrived < MaxCommands
    /\ LET n == arrived + 1
       IN  /\ arrived' = n
           /\ command' = [command EXCEPT ![n] = c]
           /\ late' = [late EXCEPT ![n] = isLate]
           /\ waiting' = IF c # Playback THEN <<n>> ELSE Append(waiting, n)
           /\ fate' = [i \in Ids |-> IF i = n THEN "waiting"
                                     ELSE IF c # Playback /\ fate[i] = "waiting" THEN "reported" ELSE fate[i]]
           /\ preempted' = IF c # Playback /\ applying # None THEN n ELSE preempted
    /\ UNCHANGED <<applying, at, sourceVars, pumpVars, phase>>

\* Mutant: the newest command is served first.
ServeNewest ==
    /\ phase = "running" /\ applying = None /\ waiting # <<>>
    /\ applying' = waiting[Len(waiting)] /\ waiting' = SubSeq(waiting, 1, Len(waiting) - 1)
    /\ fate' = [fate EXCEPT ![applying'] = "applying"]
    /\ at' = "created"
    /\ UNCHANGED <<inboxVars, preempted, sourceVars, pumpVars, phase>>

\* The next command gets a task.
Serve ==
    /\ phase = "running" /\ applying = None /\ waiting # <<>>
    /\ applying' = Head(waiting) /\ waiting' = Tail(waiting)
    /\ fate' = [fate EXCEPT ![Head(waiting)] = "applying"]
    /\ at' = "created"
    /\ UNCHANGED <<inboxVars, preempted, sourceVars, pumpVars, phase>>

\* The inbox sees the task ended; one that a switch cancelled is reported, unless
\* the inbox is being stopped itself.
Served ==
    /\ at \in {"done", "cancelled"}
    /\ fate' = IF at = "cancelled" /\ preempted # None /\ phase = "running"
             THEN [fate EXCEPT ![applying] = "reported"] ELSE fate
    /\ applying' = None /\ preempted' = None /\ at' = "none"
    /\ UNCHANGED <<inboxVars, waiting, sourceVars, pumpVars, phase>>

\* A cancelled task makes no progress but to end.
Free == preempted = None /\ phase = "running"

Finish(outcome) ==
    /\ at' = "done"
    /\ fate' = [fate EXCEPT ![applying] = outcome]

-----------------------------------------------------------------------------
(* ActiveSource *)

\* validate: a switch needs a known source, a playback command a playable one
\* (whose own validate is module Playable's).
Applies(i) == IF IsSwitch(i) THEN command[i] \in Sources ELSE playable # NoSource

\* Too old, refused, or (a player whose task has ended) not running: reported.
Refuse ==
    /\ at = "created" /\ Free
    /\ \/ late[applying] \/ ~Applies(applying)
       \/ ~IsSwitch(applying) /\ playable \notin playing
    /\ Finish("reported")
    /\ UNCHANGED <<inboxVars, waiting, applying, preempted, sourceVars, pumpVars, phase>>

\* A playback command is queued for the player.
HandOver ==
    /\ at = "created" /\ Free
    /\ ~late[applying] /\ ~IsSwitch(applying) /\ playable \in playing
    /\ handed' = handed \cup {applying}
    /\ at' = "player"
    /\ UNCHANGED <<inboxVars, fate, waiting, applying, preempted, active, playable, playing, pumpVars, phase>>

\* The player applied or refused one; whoever still awaits it goes on.
PlayerAnswers(i, outcome) ==
    /\ i \in handed /\ \A j \in handed : i <= j
    /\ handed' = handed \ {i}
    /\ IF at = "player" /\ applying = i /\ Free
       THEN Finish(outcome)
       ELSE UNCHANGED <<at, fate>>
    /\ UNCHANGED <<inboxVars, waiting, applying, preempted, active, playable, playing, pumpVars, phase>>

\* A switch: _stop_active begins.
Switch ==
    /\ at = "created" /\ Free
    /\ ~late[applying] /\ IsSwitch(applying) /\ Applies(applying)
    /\ at' = "stopping"
    /\ UNCHANGED <<inboxVars, fate, waiting, applying, preempted, sourceVars, pumpVars, phase>>

\* What _stop_active does before its awaits return.
StopsPlaying ==
    /\ playing' = playing \ {playable}
    /\ handed' = {}
    /\ pump' = "none"

CloseStream == stream' = FALSE

\* It is done; the set switches and _activate runs to its await: source.start() of
\* a recording, the opening of a pumped source, or none for a followed live source.
Stopped ==
    /\ at = "stopping" /\ Free
    /\ StopsPlaying /\ CloseStream
    /\ LET to == command[applying]
           opens == Kind[to] # "live" \/ ~FollowLive
       IN  /\ active' = to
           /\ playable' = IF Kind[to] = "playable" THEN to ELSE NoSource
           /\ IF Kind[to] = "playable"
              THEN at' = "starting" /\ UNCHANGED <<error, fate>>
              ELSE /\ error' = FALSE
                   /\ IF opens THEN at' = "opening" /\ UNCHANGED fate ELSE Finish("applied")
    /\ UNCHANGED <<inboxVars, waiting, applying, preempted, phase>>

\* source.start() returned: its player's task runs (it never raises).
Started ==
    /\ at = "starting" /\ Free
    /\ playing' = playing \cup {playable}
    /\ Finish("applied")
    /\ UNCHANGED <<inboxVars, waiting, applying, preempted, active, playable, handed, pumpVars, phase>>

\* consume() returned or raised.
Opened(ok) ==
    /\ at = "opening" /\ Free
    /\ pump' = IF ok THEN "reading" ELSE "none"
    /\ stream' = ok /\ error' = ~ok
    /\ Finish("applied")
    /\ UNCHANGED <<inboxVars, waiting, applying, preempted, sourceVars, phase>>

\* Mutant: a switch cancelled while it stops a player leaves the player running.
CancelledMidStop ==
    /\ Busy /\ ~Free
    /\ at' = "cancelled"
    /\ IF at = "stopping"
       THEN /\ playable' = NoSource /\ pump' = "none"
            /\ UNCHANGED <<active, playing, handed, stream, error>>
       ELSE UNCHANGED <<sourceVars, pumpVars>>
    /\ UNCHANGED <<inboxVars, fate, waiting, applying, preempted, phase>>

\* The cancellation of the task that applies (a switch came, or the inbox stops)
\* lands.  In _stop_active it is held until the player or pump has ended, and skips
\* the closing; a player that was starting stays without a task.
Cancelled ==
    /\ Busy /\ ~Free
    /\ at' = "cancelled"
    /\ IF at = "stopping"
       THEN StopsPlaying /\ UNCHANGED <<active, playable, stream, error>>
       ELSE UNCHANGED <<sourceVars, pumpVars>>
    /\ UNCHANGED <<inboxVars, fate, waiting, applying, preempted, phase>>

-----------------------------------------------------------------------------
(* The pump *)

\* A frame came: a feed that was down is back.
PumpFrame ==
    /\ pump = "reading" /\ error
    /\ error' = FALSE
    /\ UNCHANGED <<inboxVars, fate, waiting, applying, preempted, at, sourceVars, pump, stream, phase>>

\* The stream failed or ended: a live feed is closed and reopened after a wait.
PumpStops(failed) ==
    /\ pump = "reading"
    /\ IF Kind[active] = "live"
       THEN pump' = "down" /\ error' = TRUE /\ stream' = FALSE
       ELSE pump' = "ended" /\ error' = failed /\ UNCHANGED stream
    /\ UNCHANGED <<inboxVars, fate, waiting, applying, preempted, at, sourceVars, phase>>

\* The wait is over and the feed can be opened again (when not, it waits on).
Reopened ==
    /\ pump = "down"
    /\ pump' = "reading" /\ stream' = TRUE
    /\ UNCHANGED <<inboxVars, fate, waiting, applying, preempted, at, sourceVars, error, phase>>

-----------------------------------------------------------------------------
(* The run stops: the inbox first, then the router. *)

Stop ==
    /\ phase = "running"
    /\ phase' = "stopping"
    /\ UNCHANGED <<inboxVars, fate, waiting, applying, preempted, at, sourceVars, pumpVars>>

RouterStops ==
    /\ phase = "stopping" /\ applying = None
    /\ StopsPlaying /\ CloseStream
    /\ phase' = "stopped"
    /\ UNCHANGED <<inboxVars, fate, waiting, applying, preempted, at, active, playable, error>>

-----------------------------------------------------------------------------

\* The router has been started: the first source's player runs.
Init ==
    /\ arrived = 0 /\ command = [i \in Ids |-> Playback] /\ late = [i \in Ids |-> FALSE]
    /\ fate = [i \in Ids |-> "none"] /\ waiting = <<>> /\ applying = None /\ preempted = None
    /\ at = "none" /\ active = First /\ playable = First /\ playing = {First} /\ handed = {}
    /\ pump = "none" /\ stream = FALSE /\ error = FALSE /\ phase = "running"

InboxStep == Serve \/ Served \/ Refuse \/ HandOver \/ Switch \/ Cancelled

\* The awaits of a switch: they end when the sources let them.
SwitchStep == Stopped \/ Started \/ \E ok \in BOOLEAN : Opened(ok)

PlayerStep == \E i \in Ids, outcome \in {"applied", "reported"} : PlayerAnswers(i, outcome)

PumpStep == PumpFrame \/ Reopened \/ \E failed \in BOOLEAN : PumpStops(failed)

Terminated == phase = "stopped" /\ UNCHANGED vars

Next ==
    \/ \E c \in Sources \cup {Playback, Unknown}, isLate \in {FALSE, Late} : Arrive(c, isLate)
    \/ InboxStep \/ SwitchStep \/ PlayerStep \/ PumpStep
    \/ Stop \/ RouterStops \/ Terminated

Spec == Init /\ [][Next]_vars

\* The event loop runs the inbox and what it cancels.  A source may hang: neither a
\* player's answer nor the awaits of a switch are certain.
FairSpec == Spec /\ WF_vars(InboxStep)

\* The sources answer as well, and a feed can be opened in the end.
Answering == WF_vars(SwitchStep) /\ WF_vars(PlayerStep) /\ WF_vars(Reopened)

AnsweringSpec == FairSpec /\ Answering

-----------------------------------------------------------------------------

TypeOK ==
    /\ arrived \in 0..MaxCommands
    /\ command \in [Ids -> Sources \cup {Playback, Unknown}] /\ late \in [Ids -> BOOLEAN]
    /\ fate \in [Ids -> {"none", "waiting", "applying", "applied", "reported"}]
    /\ waiting \in Seq(Ids) /\ applying \in Ids \cup {None} /\ preempted \in Ids \cup {None}
    /\ at \in At /\ (applying = None <=> at = "none")
    /\ active \in Sources /\ playable \in Sources \cup {NoSource}
    /\ playing \in SUBSET Sources /\ handed \in SUBSET Ids
    /\ pump \in {"none", "reading", "down", "ended"}
    /\ stream \in BOOLEAN /\ error \in BOOLEAN
    /\ phase \in {"running", "stopping", "stopped"}

\* "A run drives one source at a time": however switches are cut short by switches,
\* two players, or a player and a pump, never feed the run at once.
NeverTwoSources ==
    /\ Cardinality(playing) <= 1
    /\ playing # {} => pump = "none" /\ playing = {playable}

\* Once the run has stopped nothing runs on, and no stream is left open.
NothingRunsOn == phase = "stopped" => playing = {} /\ pump \in {"none", "ended"} /\ ~stream

\* Each command that came has one fate: it waits its turn, is being applied, or was
\* applied or reported; none is forgotten when a switch sweeps the queue.
NoneForgotten ==
    phase = "running" =>
        \A i \in 1..arrived :
            /\ fate[i] = "waiting" <=> \E k \in 1..Len(waiting) : waiting[k] = i
            /\ fate[i] = "applying" => applying = i
            /\ fate[i] # "none"

\* A command is begun only when all that came before it are settled, so their
\* effects come in the order they were sent, and none that a switch superseded
\* takes effect after it.
AppliedInOrder ==
    [][\A i \in Ids : fate[i] # "applying" /\ fate'[i] = "applying" =>
          \A j \in 1..(i - 1) : fate[j] \in {"applied", "reported"}]_vars

\* A switch goes "away from a source that hangs": it is begun, or superseded by a
\* later one, although the source never answers the command in progress.
SwitchIsServed ==
    \A i \in Ids : (fate[i] = "waiting" /\ IsSwitch(i)) ~> (fate[i] # "waiting" \/ phase # "running")

\* Every command is settled in the end when the sources answer.
CommandsSettle ==
    Answering =>
        \A i \in Ids : fate[i] = "waiting" ~> (fate[i] \in {"applied", "reported"} \/ phase # "running")

Quiet == phase = "running" /\ applying = None /\ waiting = <<>>

\* "A live feed that fails or ends is reported and reopened".
\* It does not hold: see the README, section 4.
LiveFeedIsReopened ==
    [](Quiet /\ Kind[active] = "live" => <>(stream \/ ~Quiet))

\* At most one source feeds the run, and what was stopped does not run on,
\* wherever a switch was cut short.
OneSourceAtATime ==
  /\ TypeOK
  /\ NeverTwoSources
  /\ NothingRunsOn

\* No command is forgotten, and those applied are applied in the order they
\* were sent in, whatever preempts what.
CommandsInOrder ==
  /\ []NoneForgotten
  /\ AppliedInOrder

=============================================================================
