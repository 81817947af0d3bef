------------------------------ MODULE Playable ------------------------------
(***************************************************************************)
(* Playable of core/src/pswamp_core/playable.py: a recording that is its   *)
(* own player.  One task reads the stream, paces the frames and applies    *)
(* the commands callers queue for it; `pc` is the await it is in.  At      *)
(* "top" it holds the event loop, so nobody else moves there.              *)
(*                                                                         *)
(* Time in the recording is 0..CoverageEnd (where the coverage ends), with *)
(* one interval a unit.  When a held frame is due is left open: pacing     *)
(* only delays.                                                            *)
(***************************************************************************)
EXTENDS Integers, FiniteSets, Sequences, FiniteSetsExt

CONSTANTS
    Callers,    \* who awaits ahandle(); each has one command at a time
    Commands,   \* the commands they send: [name, n] or [name, at, until, play]
    Frames,     \* the timestamps that have a frame
    CoverageEnd, \* coverage.end; coverage.start is 0
    Loop,       \* loop
    MaxStreams, \* streams is counted modulo this
    NoTime,     \* None, for a time
    NoCommand,
    Starter,    \* who runs start()
    Nobody

ASSUME PlayableAssumption ==
    /\ CoverageEnd \in Nat \ {0} /\ Frames \subseteq 0..(CoverageEnd - 1)
    /\ Loop \in BOOLEAN /\ MaxStreams \in Nat \ {0}
    /\ NoTime \notin Int /\ NoCommand \notin Commands
    /\ Starter \notin Callers /\ Nobody \notin Callers \cup {Starter}

ASSUME CommandsAssumption == \A command \in Commands :
    /\ command.name \in {"play", "pause", "speed", "step", "seek"}
    /\ command.name = "step" => command.n \in Int
    /\ command.name = "seek" => command.at \in Int /\ command.until \in Int \cup {NoTime}

VARIABLES
    pc,         \* the await the player is in
    stream,     \* _pl_stream is open
    pos,        \* the earliest time its iterator has left
    rangeEnd,   \* _pl_range_end
    read,       \* _pl_read
    held,       \* _pl_held
    played,     \* _pl_played_since_open
    known,      \* _pl_coverage is known
    interval,   \* _pl_interval is known
    cursor, lastFrame, paused, ended, error, streams,
    queue,      \* _pl_queue: the callers, in order
    asked,      \* per caller: the command whose answer it awaits
    applying,   \* whose command is being applied
    steps,      \* frames a step has left to show
    origin,     \* history: where the stream was opened
    shown       \* history: frames published from it

streamVars == <<stream, pos, rangeEnd, read, held, played>>
frameVars == <<interval, cursor, lastFrame, shown>>
stateVars == <<paused, ended, error>>
openVars == <<known, streams, origin>>
commandVars == <<queue, asked, applying, steps>>
vars == <<pc, streamVars, frameVars, stateVars, openVars, commandVars>>

\* "off": no task.  "top": the top of _pl_run's loop.  "idle", "reading", "pacing":
\* in _pl_wait for a command, a read, or a frame's time.  "opening": in _pl_open.
\* "next": a command (or start) awaits a read.
PC == {"off", "top", "idle", "reading", "pacing", "opening", "next"}

-----------------------------------------------------------------------------
(* The stream. *)

End == IF rangeEnd = NoTime THEN CoverageEnd ELSE rangeEnd
Ahead == {f \in Frames : pos <= f /\ f < End}
NextFrame == CHOOSE f \in Ahead : \A g \in Ahead : f <= g

\* Mutant: the frame that was held while pacing survives the close.
CloseKeepingHeld ==
    /\ stream' = FALSE /\ read' = "none"
    /\ UNCHANGED held

\* _pl_close: the read in flight is cancelled, the held frame dropped.
CloseStream ==
    /\ stream' = FALSE /\ read' = "none" /\ held' = NoTime

\* _pl_open up to its awaits, wanting the time `at`.
BeginOpen(at) ==
    /\ pc' = "opening"
    /\ CloseStream
    /\ streams' = (streams + 1) % MaxStreams
    /\ error' = FALSE /\ ended' = FALSE /\ lastFrame' = NoTime
    /\ played' = FALSE /\ rangeEnd' = NoTime
    /\ pos' = (IF at = NoTime \/ (at # NoTime /\ at < 0) THEN 0 ELSE at)
    /\ origin' = pos' /\ shown' = 0

\* _pl_emit: the frame at the cursor is published.
Emit(f) ==
    /\ cursor' = f /\ lastFrame' = f /\ interval' = TRUE
    /\ shown' = shown + 1

\* The command being applied is answered, or start() is done: back to the loop.
Answered ==
    /\ pc' = "top"
    /\ asked' = [c \in Callers |-> IF c = applying THEN NoCommand ELSE asked[c]]
    /\ applying' = Nobody /\ steps' = 0

Is(name) == applying \in Callers /\ asked[applying].name = name

\* _pl_open is done: whoever awaited it goes on.
AfterOpen(opened, nowPaused) ==
    /\ paused' = \/ applying = Starter
                 \/ /\ nowPaused /\ ~Is("play")
                    /\ Is("seek") => ~asked[applying].play
    /\ IF opened /\ (applying = Starter \/ (Is("seek") /\ paused') \/ steps > 0)
       THEN pc' = "next" /\ read' = "running" /\ UNCHANGED <<asked, applying, steps>>
       ELSE Answered /\ UNCHANGED read
    /\ UNCHANGED <<pos, held, played, interval, lastFrame, shown, streams, origin, queue>>

Opened ==
    /\ pc = "opening"
    /\ stream' = TRUE /\ known' = TRUE /\ cursor' = pos
    /\ rangeEnd' = IF Is("seek") /\ asked[applying].until # NoTime /\ asked[applying].until < CoverageEnd
                   THEN asked[applying].until ELSE NoTime
    /\ AfterOpen(TRUE, paused)
    /\ UNCHANGED <<ended, error>>

\* The provider cannot be opened, or asked, or holds nothing.
OpenFails(holdsNothing) ==
    /\ pc = "opening"
    /\ known' = (known /\ ~holdsNothing)
    /\ error' = TRUE /\ ended' = TRUE
    /\ AfterOpen(FALSE, TRUE)
    /\ UNCHANGED <<stream, rangeEnd, cursor>>

-----------------------------------------------------------------------------
(* The callers and the provider: other tasks, while the player awaits. *)

Elsewhere == pc \notin {"off", "top"}

\* ahandle: refused at once unless the task runs.
Ask(c, command) ==
    /\ Elsewhere /\ applying # Starter /\ asked[c] = NoCommand
    /\ asked' = [asked EXCEPT ![c] = command]
    /\ queue' = Append(queue, c)
    /\ UNCHANGED <<pc, streamVars, frameVars, stateVars, openVars, applying, steps>>

ReadReturns(outcome) ==
    /\ Elsewhere /\ read = "running"
    /\ read' = outcome
    /\ UNCHANGED <<pc, stream, pos, rangeEnd, held, played, frameVars, stateVars, openVars, commandVars>>

Start ==
    /\ pc = "off"
    /\ applying' = Starter /\ interval' = FALSE /\ known' = FALSE
    /\ BeginOpen(NoTime)
    /\ UNCHANGED <<cursor, paused, queue, asked, steps>>

\* Whoever is queued is refused; a command that is being applied gets no answer
\* (its caller was cancelled before: see CommandInbox).
Stop ==
    /\ Elsewhere
    /\ pc' = "off"
    /\ CloseStream
    /\ queue' = <<>> /\ applying' = Nobody /\ steps' = 0
    /\ asked' = [c \in Callers |-> NoCommand]
    /\ UNCHANGED <<pos, rangeEnd, played, frameVars, stateVars, openVars>>

-----------------------------------------------------------------------------
(* The task's loop: a command first. *)

Pops(c, name) ==
    /\ pc = "top" /\ queue # <<>> /\ c = Head(queue)
    /\ asked[c].name = name
    /\ queue' = Tail(queue)

\* validate, again: a seek needs a coverage, and must lie in it.
Applies(command) ==
    /\ command.name = "seek" => /\ known /\ command.at < CoverageEnd
                                /\ command.until # NoTime => command.until > 0
    /\ command.name = "step" /\ command.n < 0 => known

\* Answer c at once.
AnswerNow(c) ==
    /\ asked' = [asked EXCEPT ![c] = NoCommand]
    /\ UNCHANGED <<pc, applying, steps>>

Refuse(c) ==
    /\ Pops(c, asked[c].name) /\ ~Applies(asked[c])
    /\ AnswerNow(c)
    /\ UNCHANGED <<streamVars, frameVars, stateVars, openVars>>

\* Play starts over after the end, or at the cursor after a failure.
Play(c) ==
    /\ Pops(c, "play")
    /\ IF stream
       THEN /\ AnswerNow(c)
            /\ paused' = FALSE
            /\ UNCHANGED <<streamVars, frameVars, ended, error, openVars>>
       ELSE /\ applying' = c
            /\ BeginOpen(IF error THEN cursor ELSE NoTime)
            /\ UNCHANGED <<interval, cursor, paused, known, asked, steps>>

Pause(c) ==
    /\ Pops(c, "pause")
    /\ AnswerNow(c)
    /\ paused' = TRUE
    /\ UNCHANGED <<streamVars, frameVars, ended, error, openVars>>

\* Its effect is on pacing only.
Speed(c) ==
    /\ Pops(c, "speed")
    /\ AnswerNow(c)
    /\ UNCHANGED <<streamVars, frameVars, stateVars, openVars>>

Seek(c) ==
    /\ Pops(c, "seek") /\ Applies(asked[c])
    /\ applying' = c
    /\ BeginOpen(asked[c].at)
    /\ UNCHANGED <<interval, cursor, paused, known, asked, steps>>

\* Back: reopen n intervals before the cursor and show the frame there.
StepBack(c) ==
    /\ Pops(c, "step") /\ asked[c].n < 0 /\ Applies(asked[c])
    /\ IF cursor = NoTime \/ ~interval
       THEN AnswerNow(c) /\ UNCHANGED <<streamVars, frameVars, stateVars, openVars>>
       ELSE /\ applying' = c /\ steps' = 1
            /\ BeginOpen(cursor + asked[c].n)
            /\ UNCHANGED <<interval, cursor, paused, known, asked>>

\* Forward: the held frame, then as many as the stream has.  A step of 0 shows nothing.
Step(c) ==
    /\ Pops(c, "step") /\ asked[c].n >= 0
    /\ LET shows == held # NoTime /\ asked[c].n > 0
           left == asked[c].n - IF shows THEN 1 ELSE 0
       IN  /\ IF shows THEN Emit(held) /\ held' = NoTime ELSE UNCHANGED <<frameVars, held>>
           /\ IF left > 0 /\ stream
              THEN /\ pc' = "next" /\ applying' = c /\ steps' = left
                   /\ read' = IF read = "none" THEN "running" ELSE read
                   /\ UNCHANGED asked
              ELSE AnswerNow(c) /\ UNCHANGED read
    /\ UNCHANGED <<stream, pos, rangeEnd, played, stateVars, openVars>>

\* Mutant: whether it is paused is looked at only when no frame is held.
ParkHeldFirst ==
    /\ pc = "top" /\ queue = <<>>
    /\ pc' = IF held # NoTime THEN "pacing" ELSE IF paused \/ ~stream THEN "idle" ELSE "reading"
    /\ read' = IF pc' = "reading" /\ read = "none" THEN "running" ELSE read
    /\ UNCHANGED <<stream, pos, rangeEnd, held, played, frameVars, stateVars, openVars, commandVars>>

\* Then wait: for a command only, for a read, or for the held frame's time.
Park ==
    /\ pc = "top" /\ queue = <<>>
    /\ pc' = IF paused \/ ~stream THEN "idle" ELSE IF held = NoTime THEN "reading" ELSE "pacing"
    /\ read' = IF pc' = "reading" /\ read = "none" THEN "running" ELSE read
    /\ UNCHANGED <<stream, pos, rangeEnd, held, played, frameVars, stateVars, openVars, commandVars>>

\* A command ends any wait; what was read or held stays.
Wake ==
    /\ pc \in {"idle", "reading", "pacing"} /\ queue # <<>>
    /\ pc' = "top"
    /\ UNCHANGED <<streamVars, frameVars, stateVars, openVars, commandVars>>

\* The held frame's time has come.
Due ==
    /\ pc = "pacing" /\ queue = <<>>
    /\ Emit(held)
    /\ held' = NoTime /\ pc' = "top"
    /\ UNCHANGED <<stream, pos, rangeEnd, read, played, stateVars, openVars, commandVars>>

-----------------------------------------------------------------------------
(* _pl_next: what became of a read, for the loop or for a command. *)

Consumes(outcome) ==
    /\ read = outcome
    /\ \/ pc = "next"
       \/ pc = "reading" /\ queue = <<>>

\* The loop holds the frame until it is due; a command shows it.
FrameRead ==
    /\ Consumes("ok") /\ Ahead # {}
    /\ pos' = NextFrame + 1 /\ played' = TRUE
    /\ IF pc = "reading"
       THEN /\ held' = NextFrame /\ read' = "none" /\ pc' = "top"
            /\ UNCHANGED <<frameVars, asked, applying, steps>>
       ELSE /\ Emit(NextFrame)
            /\ IF steps > 1
               THEN steps' = steps - 1 /\ read' = "running" /\ UNCHANGED <<pc, asked, applying>>
               ELSE Answered /\ read' = "none"
            /\ UNCHANGED held
    /\ UNCHANGED <<stream, rangeEnd, stateVars, openVars, queue>>

\* Only a whole recording loops, and only one that had a frame.
Loops == Loop /\ rangeEnd = NoTime /\ played

LoopBack ==
    /\ Consumes("ok") /\ Ahead = {} /\ Loops
    /\ BeginOpen(NoTime)
    /\ steps' = 0
    /\ UNCHANGED <<interval, cursor, paused, known, queue, asked, applying>>

Finish ==
    /\ Consumes("ok") /\ Ahead = {} /\ ~Loops
    /\ CloseStream
    /\ ended' = TRUE /\ paused' = TRUE
    /\ Answered
    /\ UNCHANGED <<pos, rangeEnd, played, frameVars, error, openVars, queue>>

\* Mutant: the command that met the failure gets no answer.
ReadFailsSilently ==
    /\ Consumes("failed")
    /\ CloseStream
    /\ error' = TRUE /\ ended' = TRUE /\ paused' = TRUE
    /\ pc' = "top" /\ applying' = Nobody /\ steps' = 0
    /\ UNCHANGED <<pos, rangeEnd, played, frameVars, openVars, queue, asked>>

ReadFails ==
    /\ Consumes("failed")
    /\ CloseStream
    /\ error' = TRUE /\ ended' = TRUE /\ paused' = TRUE
    /\ Answered
    /\ UNCHANGED <<pos, rangeEnd, played, frameVars, openVars, queue>>

-----------------------------------------------------------------------------

Init ==
    /\ pc = "off" /\ stream = FALSE /\ pos = 0 /\ rangeEnd = NoTime /\ read = "none"
    /\ held = NoTime /\ played = FALSE /\ known = FALSE /\ interval = FALSE
    /\ cursor = NoTime /\ lastFrame = NoTime /\ streams = 0
    /\ paused = TRUE /\ ended = FALSE /\ error = FALSE
    /\ queue = <<>> /\ asked = [c \in Callers |-> NoCommand]
    /\ applying = Nobody /\ steps = 0 /\ origin = 0 /\ shown = 0

Apply(c) == Refuse(c) \/ Play(c) \/ Pause(c) \/ Speed(c) \/ Seek(c) \/ StepBack(c) \/ Step(c)

PlayerStep ==
    \/ \E c \in Callers : Apply(c)
    \/ Park \/ Wake \/ Due \/ FrameRead \/ LoopBack \/ Finish \/ ReadFails
    \/ Opened \/ \E holdsNothing \in BOOLEAN : OpenFails(holdsNothing)

ProviderStep == \E outcome \in {"ok", "failed"} : ReadReturns(outcome)

Next ==
    \/ PlayerStep \/ ProviderStep
    \/ \E c \in Callers, command \in Commands : Ask(c, command)
    \/ Start \/ Stop

Spec == Init /\ [][Next]_vars

\* The event loop runs the player, and a provider answers each read in the end.
FairSpec == Spec /\ WF_vars(PlayerStep) /\ WF_vars(ProviderStep)

-----------------------------------------------------------------------------

Time == 0..CoverageEnd

TypeOK ==
    /\ pc \in PC
    /\ stream \in BOOLEAN /\ played \in BOOLEAN /\ known \in BOOLEAN /\ interval \in BOOLEAN
    /\ paused \in BOOLEAN /\ ended \in BOOLEAN /\ error \in BOOLEAN
    /\ pos \in Time /\ origin \in Time /\ rangeEnd \in Time \cup {NoTime}
    /\ read \in {"none", "running", "ok", "failed"}
    /\ held \in Frames \cup {NoTime} /\ lastFrame \in Frames \cup {NoTime}
    /\ cursor \in Time \cup {NoTime}
    /\ streams \in 0..(MaxStreams - 1) /\ shown \in 0..Cardinality(Frames)
    /\ queue \in Seq(Callers) /\ asked \in [Callers -> Commands \cup {NoCommand}]
    /\ applying \in Callers \cup {Starter, Nobody} /\ steps \in Nat

\* "A stream only moves forward": whatever was held, in flight, stepped over or
\* cancelled, a stream has shown each frame from where it was opened to its last one
\* once, and nothing of an earlier stream.
EachFrameOnce ==
    /\ lastFrame = NoTime => shown = 0
    /\ lastFrame # NoTime =>
         shown = Cardinality({f \in Frames : origin <= f /\ f <= lastFrame})

\* "A seek with an end plays that chunk and stops there, without looping": only a
\* command (or start) opens a stream after a chunk.
ChunkStopsThere ==
    [][rangeEnd # NoTime /\ streams' # streams => applying' # Nobody]_vars

\* A pause holds: no frame goes out while paused but by a command that shows one.
\* The frame held when the pause came stays held.
PauseHolds ==
    [][shown' > shown => ~paused \/ applying # Nobody \/ queue' # queue]_vars

\* Every command is answered: applied, refused or failed, also when the source ends,
\* fails or loops under it (until the player is stopped).
CommandsAreAnswered ==
    \A c \in Callers : asked[c] # NoCommand ~> (asked[c] = NoCommand \/ pc = "off")

\* Well typed, and each frame of a stream is shown once and in its order.
FramesAreShownOnce ==
  /\ TypeOK
  /\ EachFrameOnce

\* A chunk ends where it was to end, and nothing moves while paused.
PlaysWhatWasAsked ==
  /\ ChunkStopsThere
  /\ PauseHolds

=============================================================================
