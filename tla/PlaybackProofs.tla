--------------------------- MODULE PlaybackProofs ---------------------------
(***************************************************************************)
(* Recordings that are played, for every value of their constants.         *)
(*                                                                         *)
(* Playable: each frame of a stream is shown once and in order, a chunk    *)
(* ends where it was to, and a pause holds, for any recording and any      *)
(* callers.  The inductive invariant says what a stream has shown when a   *)
(* frame of it is held (StreamInv), what each await of the task holds      *)
(* (TaskInv), and which commands wait beside the one applied (AskedInv).   *)
(*                                                                         *)
(* RecordedStream: what the web server hands an application of a recording *)
(* is whole and in order, and what a browser shows of its window is within *)
(* a row of it, for any recording, any window and any queue (ReplayInv).   *)
(***************************************************************************)
EXTENDS Playable, RecordedStream, FiniteSetTheorems, SequenceTheorems, WellFoundedInduction,
        TLAPS

-----------------------------------------------------------------------------
(* The inductive invariant *)

\* The first time whose frame is still to be shown: the held frame's, if one is held.
FirstUnshown == IF held = NoTime THEN pos ELSE held

ShownOfStream == {f \in Frames : origin <= f /\ f < FirstUnshown}

\* What is held is the last frame that was read; what was shown is all before it.
StreamInv ==
    /\ held # NoTime => held < pos /\ \A f \in Frames : held < f => pos <= f
    /\ stream =>
         /\ origin <= FirstUnshown
         /\ shown = Cardinality(ShownOfStream)
         /\ lastFrame = NoTime => ShownOfStream = {}
         /\ lastFrame # NoTime =>
              /\ lastFrame \in ShownOfStream
              /\ \A f \in ShownOfStream : f <= lastFrame

\* A frame is held over a wait, but never over a read; a command is applied in
\* "opening" and "next" only.
TaskInv ==
    /\ pc = "off" => ~stream
    /\ held # NoTime => stream /\ pc \in {"top", "idle", "pacing"}
    /\ pc \in {"reading", "pacing", "next"} => stream
    /\ pc = "pacing" => held # NoTime /\ ~paused
    /\ pc = "opening" => ~stream /\ lastFrame = NoTime /\ shown = 0 /\ origin = pos
    /\ pc \in {"off", "top", "idle", "reading", "pacing"} => applying = Nobody
    /\ pc = "next" => applying # Nobody
    /\ steps > 0 => applying \in Callers

\* What c waits for, when it is applied: a seek was checked before it opened.
Applied(c) ==
    /\ asked[c] # NoCommand
    /\ asked[c].name = "seek" => asked[c].until = NoTime \/ asked[c].until > 0

\* Each caller that is queued waits for one answer, and is not the one served now.
AskedInv ==
    /\ \A i, j \in 1..Len(queue) : queue[i] = queue[j] => i = j
    /\ \A i \in 1..Len(queue) : asked[queue[i]] # NoCommand /\ queue[i] # applying
    /\ applying \in Callers => Applied(applying)

IInv == TypeOK /\ EachFrameOnce /\ StreamInv /\ TaskInv /\ AskedInv

-----------------------------------------------------------------------------
(* Numbers and frames *)

\* Every set of numbers has a least one.
LEMMA LeastNumber ==
    ASSUME NEW T \in SUBSET Nat, T # {}
    PROVE  \E x \in T : \A y \in T : x <= y
<1> DEFINE U == {1..x : x \in T}
<1>1. U \subseteq FiniteSubsetsOf(Nat)
  <2> SUFFICES ASSUME NEW x \in T PROVE 1..x \in FiniteSubsetsOf(Nat)  OBVIOUS
  <2>1. IsFiniteSet(1..x)  BY FS_Interval
  <2> QED  BY <2>1 DEF FiniteSubsetsOf
<1>2. PICK u \in U : \A v \in U : <<v, u>> \notin StrictSubsetOrdering(Nat)
  <2>1. IsWellFoundedOn(StrictSubsetOrdering(Nat), FiniteSubsetsOf(Nat))
    BY FS_StrictSubsetOrderingWellFounded
  <2>2. U # {}  OBVIOUS
  <2> HIDE DEF U
  <2>3. \E u \in U : \A v \in U : ~(<<v, u>> \in StrictSubsetOrdering(Nat))
    BY <1>1, <2>1, <2>2, WFMin, Zenon
  <2> QED  BY <2>3
<1>3. PICK x \in T : u = 1..x  OBVIOUS
<1>4. ASSUME NEW y \in T PROVE x <= y
  <2> SUFFICES ASSUME y < x PROVE FALSE  OBVIOUS
  <2>1. 1..y \subseteq 1..x /\ x \in 1..x /\ x \notin 1..y /\ 1..x \subseteq Nat  OBVIOUS
  <2>2. <<1..y, u>> \in StrictSubsetOrdering(Nat)
    BY <1>3, <2>1 DEF StrictSubsetOrdering
  <2> QED  BY <1>2, <2>2
<1> QED  BY <1>4

\* A recording has finitely many frames, within its coverage.
LEMMA FramesFinite ==
    /\ IsFiniteSet(Frames) /\ Frames \subseteq Nat /\ Frames \subseteq Time
    /\ NoTime \notin Time /\ NoTime \notin Frames
    /\ \A f \in Frames : f + 1 \in Time
<1>1. CoverageEnd \in Nat /\ Frames \subseteq 0..(CoverageEnd - 1) /\ NoTime \notin Int  BY PlayableAssumption
<1>2. IsFiniteSet(0..(CoverageEnd - 1))  BY <1>1, FS_Interval
<1>3. IsFiniteSet(Frames)  BY <1>1, <1>2, FS_Subset
<1>4. NoTime \notin Time /\ Frames \subseteq Time /\ Frames \subseteq Nat  BY <1>1 DEF Time
<1>5. \A f \in Frames : f + 1 \in Time  BY <1>1 DEF Time
<1> QED  BY <1>3, <1>4, <1>5

\* The frame a read gives is the first one the stream has left.
LEMMA NextFrameIsFirst ==
    ASSUME Ahead # {}
    PROVE  NextFrame \in Ahead /\ \A g \in Ahead : NextFrame <= g
<1>1. Ahead \in SUBSET Nat  BY FramesFinite DEF Ahead
<1>2. \E f \in Ahead : \A g \in Ahead : f <= g  BY <1>1, LeastNumber
<1> QED  BY <1>2 DEF NextFrame

LEMMA StreamsCounted ==
    ASSUME NEW n \in 0..(MaxStreams - 1)
    PROVE  (n + 1) % MaxStreams \in 0..(MaxStreams - 1)
BY PlayableAssumption

-----------------------------------------------------------------------------
(* What the parts of the invariant rest on *)

\* What was shown of an open stream, up to its last frame.
LEMMA ShownUpToTheLast ==
    ASSUME TypeOK, StreamInv, stream
    PROVE  EachFrameOnce /\ shown \in 0..Cardinality(Frames)
<1>1. ShownOfStream \in SUBSET Frames  BY DEF ShownOfStream
<1>2. /\ Cardinality(ShownOfStream) \in Nat
      /\ Cardinality(ShownOfStream) <= Cardinality(Frames) /\ Cardinality(Frames) \in Nat
  BY <1>1, FramesFinite, FS_Subset, FS_CardinalityType
<1>3. CASE lastFrame = NoTime  BY <1>2, <1>3, FS_EmptySet DEF StreamInv, EachFrameOnce
<1>4. CASE lastFrame # NoTime
  <2>1. lastFrame \in ShownOfStream /\ \A f \in ShownOfStream : f <= lastFrame
    BY <1>4 DEF StreamInv
  <2>2. /\ origin \in Int /\ FirstUnshown \in Int /\ \A f \in Frames : f \in Int
    BY FramesFinite DEF FirstUnshown, TypeOK, Time
  <2>3. \A f \in Frames : f \in ShownOfStream <=> origin <= f /\ f <= lastFrame
    BY <2>1, <2>2 DEF ShownOfStream
  <2>4. ShownOfStream = {f \in Frames : origin <= f /\ f <= lastFrame}
    BY <1>1, <2>3
  <2> QED  BY <1>2, <1>4, <2>4 DEF StreamInv, EachFrameOnce
<1> QED  BY <1>3, <1>4

\* Steps that neither read, hold nor show a frame.
LEMMA SameStream ==
    ASSUME StreamInv, EachFrameOnce, UNCHANGED <<stream, pos, held, lastFrame, shown, origin>>
    PROVE  StreamInv' /\ EachFrameOnce'
BY DEF StreamInv, EachFrameOnce, ShownOfStream, FirstUnshown

\* A closed stream shows nothing, and holds nothing.
LEMMA ClosedStream ==
    ASSUME EachFrameOnce, stream' = FALSE, held' = NoTime, UNCHANGED <<lastFrame, shown, origin>>
    PROVE  StreamInv' /\ EachFrameOnce'
BY DEF StreamInv, EachFrameOnce

\* Opening begins a stream at `at`, of which nothing was shown.
LEMMA BeginningAStream ==
    ASSUME TypeOK, NEW at \in Int \cup {NoTime}, at # NoTime => at < CoverageEnd \/ at \in Time, BeginOpen(at)
    PROVE  /\ pc' = "opening" /\ read' = "none" /\ held' = NoTime /\ ~stream'
           /\ lastFrame' = NoTime /\ shown' = 0 /\ origin' = pos' /\ rangeEnd' = NoTime
           /\ pos' \in Time /\ streams' \in 0..(MaxStreams - 1)
           /\ shown' \in 0..Cardinality(Frames)
           /\ played' \in BOOLEAN /\ error' \in BOOLEAN /\ ended' \in BOOLEAN
           /\ StreamInv' /\ EachFrameOnce'
<1>1. pos' \in Time  BY PlayableAssumption DEF BeginOpen, Time
<1>2. streams' \in 0..(MaxStreams - 1)  BY StreamsCounted DEF BeginOpen, TypeOK
<1>3. shown' \in 0..Cardinality(Frames)  BY FramesFinite, FS_CardinalityType DEF BeginOpen
<1>4. StreamInv' /\ EachFrameOnce'  BY DEF BeginOpen, CloseStream, StreamInv, EachFrameOnce
<1> QED  BY <1>1, <1>2, <1>3, <1>4 DEF BeginOpen, CloseStream

\* Showing the first unshown frame f, when nothing is held after it and `later` is
\* where the next one is to be looked for.
LEMMA ShowingAFrame ==
    ASSUME TypeOK, StreamInv, stream, stream', NEW f \in Frames, Emit(f),
           held' = NoTime, pos' \in Time, f < pos', UNCHANGED origin,
           FirstUnshown <= f,
           \A g \in Frames : (FirstUnshown <= g /\ g < pos') => g = f
    PROVE  StreamInv' /\ EachFrameOnce' /\ shown' \in 0..Cardinality(Frames)
<1>0. /\ origin \in Int /\ pos' \in Int /\ FirstUnshown \in Int /\ f \in Int
      /\ \A g \in Frames : g \in Int /\ g # NoTime
  BY FramesFinite DEF TypeOK, Time, FirstUnshown
<1>1. FirstUnshown' = pos'  BY DEF FirstUnshown
<1>2. ShownOfStream' = ShownOfStream \cup {f} /\ f \notin ShownOfStream
  <2>1. \A g \in Frames : (origin <= g /\ g < pos') <=> (g = f \/ (origin <= g /\ g < FirstUnshown))
    BY <1>0 DEF StreamInv
  <2>2. \A g \in Frames : g \in ShownOfStream' <=> g = f \/ g \in ShownOfStream
    BY <1>1, <2>1 DEF ShownOfStream
  <2>3. ShownOfStream' \subseteq Frames /\ ShownOfStream \subseteq Frames  BY DEF ShownOfStream
  <2>4. f \notin ShownOfStream  BY <1>0 DEF ShownOfStream
  <2> QED  BY <2>2, <2>3, <2>4
<1>3. ShownOfStream \in SUBSET Frames /\ ShownOfStream' \in SUBSET Frames  BY DEF ShownOfStream
<1>4. IsFiniteSet(ShownOfStream) /\ Cardinality(ShownOfStream) \in Nat
  BY <1>3, FramesFinite, FS_Subset, FS_CardinalityType
<1>5. Cardinality(ShownOfStream') = Cardinality(ShownOfStream) + 1  BY <1>2, <1>4, FS_AddElement
<1>6. Cardinality(ShownOfStream') <= Cardinality(Frames) /\ Cardinality(Frames) \in Nat
  BY <1>3, FramesFinite, FS_Subset, FS_CardinalityType
<1>7. shown' = Cardinality(ShownOfStream') /\ lastFrame' = f  BY <1>5 DEF Emit, StreamInv
<1>8. lastFrame' \in ShownOfStream' /\ \A g \in ShownOfStream' : g <= lastFrame'
  BY <1>0, <1>2, <1>7 DEF ShownOfStream
<1>9. StreamInv'
  BY <1>0, <1>1, <1>7, <1>8 DEF StreamInv, ShownOfStream
<1>10. ShownOfStream' = {g \in Frames : origin' <= g /\ g <= lastFrame'}
  <2>1. \A g \in Frames : g \in ShownOfStream' <=> origin' <= g /\ g <= lastFrame'
    BY <1>0, <1>1, <1>7, <1>8 DEF ShownOfStream
  <2> QED  BY <1>3, <2>1
<1>11. EachFrameOnce'  BY <1>0, <1>7, <1>10 DEF EachFrameOnce
<1> QED  BY <1>4, <1>5, <1>6, <1>7, <1>9, <1>11

\* The caller at the head waits for its answer, and everyone behind it for another.
LEMMA PoppingTheHead ==
    ASSUME TypeOK, AskedInv, NEW c \in Callers, NEW name, Pops(c, name)
    PROVE  /\ queue' \in Seq(Callers) /\ pc = "top" /\ asked[c] \in Commands
           /\ \A i, j \in 1..Len(queue') : queue'[i] = queue'[j] => i = j
           /\ \A i \in 1..Len(queue') : /\ queue'[i] \in Callers /\ queue'[i] # c
                                        /\ asked[queue'[i]] # NoCommand
<1>1. queue \in Seq(Callers) /\ queue # <<>> /\ c = Head(queue) /\ queue' = Tail(queue) /\ pc = "top"
  BY DEF Pops, TypeOK
<1>2. /\ Len(queue') = Len(queue) - 1 /\ queue' \in Seq(Callers) /\ Len(queue) \in Nat /\ Len(queue) > 0
      /\ \A i \in 1..Len(queue') : queue'[i] = queue[i + 1]
      /\ c = queue[1]
  BY <1>1
<1>3. asked[c] \in Commands  BY <1>2 DEF AskedInv, TypeOK
<1>4. \A i \in 1..Len(queue') : i + 1 \in 1..Len(queue) /\ i + 1 # 1  BY <1>2
<1>5. \A i, j \in 1..Len(queue') : queue'[i] = queue'[j] => i = j
  BY <1>2, <1>4 DEF AskedInv
<1>6. 1 \in 1..Len(queue)  BY <1>2
<1>7. ASSUME NEW i \in 1..Len(queue')
      PROVE  queue'[i] \in Callers /\ queue'[i] # c /\ asked[queue'[i]] # NoCommand
  BY <1>1, <1>2, <1>4, <1>6 DEF AskedInv
<1> QED  BY <1>1, <1>2, <1>3, <1>5, <1>7

\* The caller at the head has its answer at once.
LEMMA AnsweredAtOnce ==
    ASSUME TypeOK, TaskInv, AskedInv, NEW c \in Callers, NEW name, Pops(c, name), AnswerNow(c)
    PROVE  /\ AskedInv' /\ queue' \in Seq(Callers) /\ pc = "top" /\ pc' = "top"
           /\ asked' \in [Callers -> Commands \cup {NoCommand}]
           /\ applying' = Nobody /\ applying = Nobody /\ steps' = steps
<1>1. /\ queue' \in Seq(Callers) /\ pc = "top"
      /\ \A i, j \in 1..Len(queue') : queue'[i] = queue'[j] => i = j
      /\ \A i \in 1..Len(queue') : /\ queue'[i] \in Callers /\ queue'[i] # c
                                   /\ asked[queue'[i]] # NoCommand
  BY PoppingTheHead
<1>2. applying = Nobody /\ applying' = Nobody /\ Nobody \notin Callers /\ pc' = "top" /\ steps' = steps
  BY <1>1, PlayableAssumption DEF TaskInv, AnswerNow
<1>3. /\ asked' \in [Callers -> Commands \cup {NoCommand}]
      /\ \A d \in Callers : d # c => asked'[d] = asked[d]
  BY DEF AnswerNow, TypeOK
<1>4. AskedInv'  BY <1>1, <1>2, <1>3 DEF AskedInv
<1> QED  BY <1>1, <1>2, <1>3, <1>4

\* The caller at the head is served now.
LEMMA ServedNow ==
    ASSUME TypeOK, AskedInv, NEW c \in Callers, NEW name, Pops(c, name), Applied(c),
           applying' = c, UNCHANGED asked
    PROVE  /\ AskedInv' /\ queue' \in Seq(Callers)
           /\ asked' \in [Callers -> Commands \cup {NoCommand}]
           /\ applying' \in Callers \cup {Starter, Nobody}
<1>1. /\ queue' \in Seq(Callers)
      /\ \A i, j \in 1..Len(queue') : queue'[i] = queue'[j] => i = j
      /\ \A i \in 1..Len(queue') : /\ queue'[i] \in Callers /\ queue'[i] # c
                                   /\ asked[queue'[i]] # NoCommand
  BY PoppingTheHead
<1>2. Applied(c)'  BY DEF Applied
<1> QED  BY <1>1, <1>2 DEF AskedInv, Applied, TypeOK

\* Whoever was served has its answer.
LEMMA AnsweredAtLast ==
    ASSUME TypeOK, AskedInv, Answered, UNCHANGED queue
    PROVE  /\ AskedInv' /\ asked' \in [Callers -> Commands \cup {NoCommand}]
           /\ pc' = "top" /\ applying' = Nobody /\ steps' = 0
<1>1. /\ asked' \in [Callers -> Commands \cup {NoCommand}]
      /\ \A d \in Callers : d # applying => asked'[d] = asked[d]
  BY DEF Answered, TypeOK
<1>2. \A i \in 1..Len(queue) : queue[i] \in Callers  BY DEF TypeOK
<1>3. applying' = Nobody /\ Nobody \notin Callers /\ pc' = "top" /\ steps' = 0
  BY PlayableAssumption DEF Answered
<1>4. AskedInv'  BY <1>1, <1>2, <1>3 DEF AskedInv
<1> QED  BY <1>1, <1>3, <1>4

LEMMA SameAsked ==
    ASSUME AskedInv, UNCHANGED <<queue, asked, applying>>
    PROVE  AskedInv'
BY DEF AskedInv, Applied

-----------------------------------------------------------------------------
(* The initial state, and each step *)

LEMMA InitHolds ==
    ASSUME Init
    PROVE  IInv
<1>1. FALSE \in BOOLEAN /\ TRUE \in BOOLEAN /\ 0 \in Time /\ 0 \in 0..(MaxStreams - 1)
  BY PlayableAssumption DEF Time
<1>2. 0 \in 0..Cardinality(Frames)  BY FramesFinite, FS_CardinalityType
<1>3. queue \in Seq(Callers) /\ asked \in [Callers -> Commands \cup {NoCommand}]  BY DEF Init
<1>4. TypeOK  BY <1>1, <1>2, <1>3 DEF Init, TypeOK, PC
<1>5. EachFrameOnce /\ StreamInv  BY DEF Init, EachFrameOnce, StreamInv
<1>6. TaskInv  BY DEF Init, TaskInv
<1>7. AskedInv  BY PlayableAssumption DEF Init, AskedInv
<1> QED  BY <1>4, <1>5, <1>6, <1>7 DEF IInv

LEMMA AskKeeps ==
    ASSUME IInv, NEW c \in Callers, NEW command \in Commands, Ask(c, command)
    PROVE  IInv'
<1> USE DEF streamVars, frameVars, stateVars, openVars
<1>1. TypeOK'  BY DEF IInv, TypeOK, Ask
<1>2. EachFrameOnce' /\ StreamInv'  BY SameStream DEF IInv, Ask
<1>3. TaskInv'  BY DEF IInv, TaskInv, Ask
<1>4. AskedInv'
  <2>1. queue \in Seq(Callers) /\ asked \in [Callers -> Commands \cup {NoCommand}]  BY DEF IInv, TypeOK
  <2>2. /\ asked[c] = NoCommand /\ command # NoCommand /\ applying' = applying
        /\ asked'[c] = command /\ \A d \in Callers : d # c => asked'[d] = asked[d]
    BY <2>1, PlayableAssumption DEF Ask
  <2>3. /\ Len(queue') = Len(queue) + 1 /\ Len(queue) \in Nat /\ queue'[Len(queue) + 1] = c
        /\ \A i \in 1..Len(queue) : queue'[i] = queue[i] /\ queue[i] \in Callers
    BY <2>1 DEF Ask
  <2>4. \A i \in 1..Len(queue) : asked[queue[i]] # NoCommand /\ queue[i] # applying /\ queue[i] # c
    BY <2>2 DEF IInv, AskedInv
  <2>5. applying # c  BY <2>2 DEF IInv, AskedInv, Applied
  <2>6. \A i \in 1..Len(queue') : i \in 1..Len(queue) \/ i = Len(queue) + 1  BY <2>3
  <2>7. \A i, j \in 1..Len(queue') : queue'[i] = queue'[j] => i = j
    BY <2>3, <2>4, <2>6 DEF IInv, AskedInv
  <2>8. \A i \in 1..Len(queue') : asked'[queue'[i]] # NoCommand /\ queue'[i] # applying'
    BY <2>2, <2>3, <2>4, <2>5, <2>6
  <2>9. applying' \in Callers => Applied(applying)'
    BY <2>2, <2>5 DEF IInv, AskedInv, Applied
  <2> QED  BY <2>7, <2>8, <2>9 DEF AskedInv
<1> QED  BY <1>1, <1>2, <1>3, <1>4 DEF IInv

LEMMA ReadReturnsKeeps ==
    ASSUME IInv, NEW outcome \in {"ok", "failed"}, ReadReturns(outcome)
    PROVE  IInv'
<1> USE DEF frameVars, stateVars, openVars, commandVars
<1>1. TypeOK'  BY DEF IInv, TypeOK, ReadReturns
<1>2. EachFrameOnce' /\ StreamInv'  BY SameStream DEF IInv, ReadReturns
<1>3. TaskInv'  BY DEF IInv, TaskInv, ReadReturns
<1>4. AskedInv'  BY SameAsked DEF IInv, ReadReturns
<1> QED  BY <1>1, <1>2, <1>3, <1>4 DEF IInv

LEMMA StartKeeps ==
    ASSUME IInv, Start
    PROVE  IInv'
<1>1. /\ pc' = "opening" /\ read' = "none" /\ held' = NoTime /\ ~stream'
      /\ lastFrame' = NoTime /\ shown' = 0 /\ origin' = pos' /\ rangeEnd' = NoTime
      /\ pos' \in Time /\ streams' \in 0..(MaxStreams - 1)
      /\ shown' \in 0..Cardinality(Frames)
      /\ played' \in BOOLEAN /\ error' \in BOOLEAN /\ ended' \in BOOLEAN
      /\ StreamInv' /\ EachFrameOnce'
  BY BeginningAStream DEF IInv, Start
<1>2. stream' \in BOOLEAN  BY DEF Start, BeginOpen, CloseStream
<1>3. TypeOK'  BY <1>1, <1>2 DEF IInv, TypeOK, Start, PC
<1>4. TaskInv'
  <2>1. steps = 0 /\ steps' = 0  BY PlayableAssumption DEF IInv, TypeOK, TaskInv, Start
  <2> QED  BY <1>1, <2>1, PlayableAssumption DEF TaskInv, Start
<1>5. AskedInv'
  <2>1. applying' = Starter /\ Starter \notin Callers /\ UNCHANGED <<queue, asked>>
    BY PlayableAssumption DEF Start
  <2>2. \A i \in 1..Len(queue) : queue[i] \in Callers  BY DEF IInv, TypeOK
  <2> QED  BY <2>1, <2>2 DEF IInv, AskedInv
<1> QED  BY <1>1, <1>3, <1>4, <1>5 DEF IInv

LEMMA StopKeeps ==
    ASSUME IInv, Stop
    PROVE  IInv'
<1> USE DEF frameVars, stateVars, openVars, CloseStream
<1>1. TypeOK'
  <2>1. queue' \in Seq(Callers) /\ asked' \in [Callers -> Commands \cup {NoCommand}]  BY DEF Stop
  <2> QED  BY <2>1, ZenonT(60) DEF IInv, TypeOK, Stop, PC
<1>2. EachFrameOnce' /\ StreamInv'  BY ClosedStream DEF IInv, Stop
<1>3. TaskInv'  BY DEF IInv, TaskInv, Stop
<1>4. AskedInv'  BY PlayableAssumption DEF AskedInv, Stop
<1> QED  BY <1>1, <1>2, <1>3, <1>4 DEF IInv

\* A command that is answered at once and leaves the stream and its frames alone.
LEMMA AnsweringKeeps ==
    ASSUME IInv, NEW c \in Callers, NEW name, Pops(c, name), AnswerNow(c),
           UNCHANGED <<streamVars, frameVars, ended, error, openVars>>, paused' \in BOOLEAN
    PROVE  IInv'
<1> USE DEF streamVars, frameVars, openVars
<1>1. /\ AskedInv' /\ queue' \in Seq(Callers) /\ pc = "top" /\ pc' = "top"
      /\ asked' \in [Callers -> Commands \cup {NoCommand}]
      /\ applying' = Nobody /\ applying = Nobody /\ steps' = steps
  BY AnsweredAtOnce DEF IInv
<1>2. TypeOK'  BY <1>1 DEF IInv, TypeOK
<1>3. EachFrameOnce' /\ StreamInv'  BY SameStream DEF IInv
<1>4. TaskInv'  BY <1>1 DEF IInv, TaskInv
<1> QED  BY <1>1, <1>2, <1>3, <1>4 DEF IInv

\* A command that opens a stream is being applied from then on.
LEMMA OpeningKeeps ==
    ASSUME IInv, NEW c \in Callers, NEW name, Pops(c, name), Applied(c), applying' = c,
           NEW at \in Int \cup {NoTime}, at # NoTime => at < CoverageEnd \/ at \in Time, BeginOpen(at),
           UNCHANGED <<interval, cursor, paused, known, asked>>, steps' \in Nat
    PROVE  IInv'
<1>1. /\ pc' = "opening" /\ read' = "none" /\ held' = NoTime /\ ~stream'
      /\ lastFrame' = NoTime /\ shown' = 0 /\ origin' = pos' /\ rangeEnd' = NoTime
      /\ pos' \in Time /\ streams' \in 0..(MaxStreams - 1)
      /\ shown' \in 0..Cardinality(Frames)
      /\ played' \in BOOLEAN /\ error' \in BOOLEAN /\ ended' \in BOOLEAN
      /\ StreamInv' /\ EachFrameOnce'
  BY BeginningAStream DEF IInv
<1>2. /\ AskedInv' /\ queue' \in Seq(Callers)
      /\ asked' \in [Callers -> Commands \cup {NoCommand}]
      /\ applying' \in Callers \cup {Starter, Nobody}
  BY ServedNow DEF IInv
<1>3. stream' \in BOOLEAN  BY DEF BeginOpen, CloseStream
<1>4. TypeOK'  BY <1>1, <1>2, <1>3 DEF IInv, TypeOK, PC
<1>5. TaskInv'  BY <1>1 DEF IInv, TaskInv
<1> QED  BY <1>1, <1>2, <1>4, <1>5 DEF IInv

LEMMA RefuseKeeps ==
    ASSUME IInv, NEW c \in Callers, Refuse(c)
    PROVE  IInv'
<1>1. paused' \in BOOLEAN  BY DEF IInv, TypeOK, Refuse, stateVars
<1> QED  BY <1>1, AnsweringKeeps DEF Refuse, stateVars

LEMMA PlayKeeps ==
    ASSUME IInv, NEW c \in Callers, Play(c)
    PROVE  IInv'
<1>1. CASE stream
  <2>1. paused' \in BOOLEAN  BY <1>1 DEF Play
  <2> QED  BY <1>1, <2>1, AnsweringKeeps DEF Play
<1>2. CASE ~stream
  <2>1. asked[c] \in Commands /\ asked[c].name = "play"
    BY PoppingTheHead DEF IInv, Play, Pops
  <2>2. Applied(c)  BY <2>1, PlayableAssumption DEF Applied
  <2> DEFINE at == IF error THEN cursor ELSE NoTime
  <2>3. at \in Int \cup {NoTime} /\ (at # NoTime => at < CoverageEnd \/ at \in Time)
    BY DEF IInv, TypeOK, Time
  <2>4. BeginOpen(at) /\ applying' = c /\ UNCHANGED <<interval, cursor, paused, known, asked, steps>>
    BY <1>2 DEF Play
  <2>5. steps' \in Nat  BY <2>4 DEF IInv, TypeOK
  <2>6. Pops(c, "play")  BY DEF Play
  <2> HIDE DEF at
  <2> QED  BY <2>2, <2>3, <2>4, <2>5, <2>6, OpeningKeeps
<1> QED  BY <1>1, <1>2

LEMMA PauseKeeps ==
    ASSUME IInv, NEW c \in Callers, Pause(c)
    PROVE  IInv'
<1>1. paused' \in BOOLEAN  BY DEF Pause
<1> QED  BY <1>1, AnsweringKeeps DEF Pause

LEMMA SpeedKeeps ==
    ASSUME IInv, NEW c \in Callers, Speed(c)
    PROVE  IInv'
<1>1. paused' \in BOOLEAN  BY DEF IInv, TypeOK, Speed, stateVars
<1> QED  BY <1>1, AnsweringKeeps DEF Speed, stateVars

LEMMA SeekKeeps ==
    ASSUME IInv, NEW c \in Callers, Seek(c)
    PROVE  IInv'
<1>1. asked[c] \in Commands /\ asked[c].name = "seek"
  BY PoppingTheHead DEF IInv, Seek, Pops
<1>2. asked[c].at \in Int /\ asked[c].at < CoverageEnd /\ asked[c].until \in Int \cup {NoTime}
  BY <1>1, CommandsAssumption DEF Seek, Applies
<1>3. Applied(c)  BY <1>1, PlayableAssumption DEF Applied, Seek, Applies
<1>4. steps' \in Nat  BY DEF IInv, TypeOK, Seek
<1>5. Pops(c, "seek") /\ BeginOpen(asked[c].at) /\ applying' = c
      /\ UNCHANGED <<interval, cursor, paused, known, asked>>
  BY DEF Seek
<1> DEFINE at == asked[c].at
<1>6. at \in Int \cup {NoTime} /\ (at # NoTime => at < CoverageEnd \/ at \in Time) /\ BeginOpen(at)
  BY <1>2, <1>5
<1> HIDE DEF at
<1> QED  BY <1>3, <1>4, <1>5, <1>6, OpeningKeeps

LEMMA StepBackKeeps ==
    ASSUME IInv, NEW c \in Callers, StepBack(c)
    PROVE  IInv'
<1>1. asked[c] \in Commands /\ asked[c].name = "step"
  BY PoppingTheHead DEF IInv, StepBack, Pops
<1>2. CASE cursor = NoTime \/ ~interval
  <2>1. paused' \in BOOLEAN  BY <1>2 DEF IInv, TypeOK, StepBack, stateVars
  <2> QED  BY <1>2, <2>1, AnsweringKeeps DEF StepBack, stateVars
<1>3. CASE ~(cursor = NoTime \/ ~interval)
  <2> DEFINE at == cursor + asked[c].n
  <2>1. asked[c].n \in Int /\ asked[c].n < 0  BY <1>1, CommandsAssumption DEF StepBack
  <2>2. cursor \in 0..CoverageEnd  BY <1>3 DEF IInv, TypeOK, Time
  <2>3. at \in Int \cup {NoTime} /\ (at # NoTime => at < CoverageEnd \/ at \in Time)
    BY <2>1, <2>2, PlayableAssumption
  <2>4. Applied(c)  BY <1>1, PlayableAssumption DEF Applied
  <2>5. /\ Pops(c, "step") /\ BeginOpen(at) /\ applying' = c /\ steps' \in Nat
        /\ UNCHANGED <<interval, cursor, paused, known, asked>>
    BY <1>3 DEF StepBack
  <2> HIDE DEF at
  <2> QED  BY <2>3, <2>4, <2>5, OpeningKeeps
<1> QED  BY <1>2, <1>3

LEMMA ParkKeeps ==
    ASSUME IInv, Park
    PROVE  IInv'
<1> USE DEF frameVars, stateVars, openVars, commandVars
<1>1. TypeOK'  BY DEF IInv, TypeOK, Park, PC
<1>2. EachFrameOnce' /\ StreamInv'  BY SameStream DEF IInv, Park
<1>3. TaskInv'  BY DEF IInv, TaskInv, Park
<1>4. AskedInv'  BY SameAsked DEF IInv, Park
<1> QED  BY <1>1, <1>2, <1>3, <1>4 DEF IInv

LEMMA WakeKeeps ==
    ASSUME IInv, Wake
    PROVE  IInv'
<1> USE DEF streamVars, frameVars, stateVars, openVars, commandVars
<1>1. TypeOK'  BY DEF IInv, TypeOK, Wake, PC
<1>2. EachFrameOnce' /\ StreamInv'  BY SameStream DEF IInv, Wake
<1>3. TaskInv'  BY DEF IInv, TaskInv, Wake
<1>4. AskedInv'  BY SameAsked DEF IInv, Wake
<1> QED  BY <1>1, <1>2, <1>3, <1>4 DEF IInv

\* The held frame goes out.
LEMMA ShowingTheHeld ==
    ASSUME IInv, held # NoTime, Emit(held), held' = NoTime, UNCHANGED <<stream, pos, origin>>
    PROVE  /\ StreamInv' /\ EachFrameOnce' /\ shown' \in 0..Cardinality(Frames)
           /\ cursor' \in Time \cup {NoTime} /\ lastFrame' \in Frames \cup {NoTime}
           /\ interval' \in BOOLEAN
<1>1. held \in Frames /\ stream /\ pos \in Time  BY DEF IInv, TypeOK, TaskInv
<1>2. FirstUnshown = held  BY DEF FirstUnshown
<1>3. held < pos /\ \A f \in Frames : held < f => pos <= f  BY DEF IInv, StreamInv
<1>4. \A f \in Frames : f \in Int  BY FramesFinite
<1>5. pos \in Int  BY <1>1 DEF Time
<1>6. \A g \in Frames : (FirstUnshown <= g /\ g < pos') => g = held  BY <1>1, <1>2, <1>3, <1>4, <1>5
<1>7. FirstUnshown <= held  BY <1>1, <1>2, <1>4
<1>8. StreamInv' /\ EachFrameOnce' /\ shown' \in 0..Cardinality(Frames)
  BY <1>1, <1>3, <1>6, <1>7, ShowingAFrame DEF IInv
<1> QED  BY <1>1, <1>8, FramesFinite DEF Emit

LEMMA DueKeeps ==
    ASSUME IInv, Due
    PROVE  IInv'
<1> USE DEF stateVars, openVars, commandVars
<1>1. held # NoTime /\ stream  BY DEF IInv, TaskInv, Due
<1>2. /\ StreamInv' /\ EachFrameOnce' /\ shown' \in 0..Cardinality(Frames)
      /\ cursor' \in Time \cup {NoTime} /\ lastFrame' \in Frames \cup {NoTime}
      /\ interval' \in BOOLEAN
  BY <1>1, ShowingTheHeld DEF Due
<1>3. TypeOK'  BY <1>2 DEF IInv, TypeOK, Due, PC
<1>4. TaskInv'  BY <1>1 DEF IInv, TaskInv, Due
<1>5. AskedInv'  BY SameAsked DEF IInv, Due
<1> QED  BY <1>2, <1>3, <1>4, <1>5 DEF IInv

LEMMA StepKeeps ==
    ASSUME IInv, NEW c \in Callers, Step(c)
    PROVE  IInv'
<1> DEFINE shows == held # NoTime /\ asked[c].n > 0
           left == asked[c].n - IF shows THEN 1 ELSE 0
<1>1. asked[c] \in Commands /\ asked[c].name = "step" /\ pc = "top"
  BY PoppingTheHead DEF IInv, Step, Pops
<1>2. asked[c].n \in Nat /\ left \in Int  BY <1>1, CommandsAssumption DEF Step
<1>3. /\ IF shows THEN Emit(held) /\ held' = NoTime ELSE UNCHANGED <<frameVars, held>>
      /\ IF left > 0 /\ stream
         THEN /\ pc' = "next" /\ applying' = c /\ steps' = left
              /\ read' = IF read = "none" THEN "running" ELSE read
              /\ UNCHANGED asked
         ELSE AnswerNow(c) /\ UNCHANGED read
      /\ UNCHANGED <<stream, pos, rangeEnd, played, stateVars, openVars>>
  BY DEF Step
<1>4. /\ StreamInv' /\ EachFrameOnce' /\ shown' \in 0..Cardinality(Frames)
      /\ cursor' \in Time \cup {NoTime} /\ lastFrame' \in Frames \cup {NoTime}
      /\ interval' \in BOOLEAN /\ held' \in Frames \cup {NoTime}
  <2>1. CASE shows  BY <1>3, <2>1, ShowingTheHeld DEF openVars
  <2>2. CASE ~shows
    <3>1. UNCHANGED <<stream, pos, held, lastFrame, shown, origin, cursor, interval>>
      BY <1>3, <2>2 DEF openVars, frameVars
    <3> QED  BY <3>1, SameStream DEF IInv, TypeOK
  <2> QED  BY <2>1, <2>2
<1>5. held' # NoTime => held' = held /\ asked[c].n = 0
  BY <1>2, <1>3 DEF frameVars
<1> HIDE DEF shows, left
<1>6. CASE left > 0 /\ stream
  <2>1. Applied(c)  BY <1>1, PlayableAssumption DEF Applied
  <2>2. Pops(c, "step")  BY DEF Step
  <2>3. /\ AskedInv' /\ queue' \in Seq(Callers)
        /\ asked' \in [Callers -> Commands \cup {NoCommand}]
        /\ applying' \in Callers \cup {Starter, Nobody}
    BY <1>3, <1>6, <2>1, <2>2, ServedNow DEF IInv
  <2>4. held' = NoTime  BY <1>2, <1>5, <1>6 DEF left
  <2>5. steps' \in Nat  BY <1>2, <1>3, <1>6
  <2>6. TypeOK'  BY <1>3, <1>4, <1>6, <2>3, <2>5 DEF IInv, TypeOK, PC, stateVars, openVars
  <2>7. TaskInv'  BY <1>3, <1>6, <2>4, PlayableAssumption DEF IInv, TaskInv, stateVars, openVars
  <2> QED  BY <1>4, <2>3, <2>6, <2>7 DEF IInv
<1>7. CASE ~(left > 0 /\ stream)
  <2>1. /\ AskedInv' /\ queue' \in Seq(Callers) /\ pc' = "top"
        /\ asked' \in [Callers -> Commands \cup {NoCommand}]
        /\ applying' = Nobody /\ applying = Nobody /\ steps' = steps
    BY <1>3, <1>7, AnsweredAtOnce DEF IInv, Step
  <2>2. TypeOK'  BY <1>3, <1>4, <1>7, <2>1 DEF IInv, TypeOK, PC, stateVars, openVars
  <2>3. TaskInv'  BY <1>1, <1>3, <1>5, <1>7, <2>1 DEF IInv, TaskInv, stateVars, openVars
  <2> QED  BY <1>4, <2>1, <2>2, <2>3 DEF IInv
<1> QED  BY <1>6, <1>7

\* Whoever awaited the opening goes on: to a read, or to the top with its answer.
LEMMA AfterOpenKeeps ==
    ASSUME IInv, pc = "opening", NEW opened \in BOOLEAN, NEW nowPaused \in BOOLEAN,
           AfterOpen(opened, nowPaused), stream' = opened, known' \in BOOLEAN,
           ended' \in BOOLEAN, error' \in BOOLEAN,
           cursor' \in Time \cup {NoTime}, rangeEnd' \in Time \cup {NoTime}
    PROVE  IInv'
<1>1. /\ ~stream /\ lastFrame = NoTime /\ shown = 0 /\ origin = pos /\ held = NoTime
      /\ (steps > 0 => applying \in Callers) /\ pos \in Int
  BY DEF IInv, TaskInv, TypeOK, Time
<1>2. /\ UNCHANGED <<pos, held, played, interval, lastFrame, shown, streams, origin, queue>>
      /\ paused' \in BOOLEAN
  BY DEF AfterOpen
<1>3. ShownOfStream' = {}
  <2>1. \A f \in Frames : f \in Int  BY FramesFinite
  <2>2. \A f \in Frames : ~(origin <= f /\ f < pos)  BY <1>1, <2>1
  <2>3. FirstUnshown' = pos /\ origin' = origin  BY <1>1, <1>2 DEF FirstUnshown
  <2> QED  BY <2>2, <2>3 DEF ShownOfStream
<1>4. StreamInv' /\ EachFrameOnce'
  <2>1. origin' <= FirstUnshown'  BY <1>1, <1>2 DEF FirstUnshown
  <2> QED  BY <1>1, <1>2, <1>3, <2>1, FS_EmptySet DEF StreamInv, EachFrameOnce
<1> DEFINE goesOn == opened /\ (applying = Starter \/ (Is("seek") /\ paused') \/ steps > 0)
<1>5. CASE goesOn
  <2>1. pc' = "next" /\ read' = "running" /\ UNCHANGED <<asked, applying, steps>> /\ opened
    BY <1>5 DEF AfterOpen
  <2>2. applying # Nobody  BY <1>1, <1>5, PlayableAssumption DEF Is
  <2>3. TypeOK'  BY <1>2, <2>1 DEF IInv, TypeOK, PC
  <2>4. TaskInv'  BY <1>1, <1>2, <2>1, <2>2 DEF TaskInv
  <2>5. AskedInv'  BY <1>2, <2>1, SameAsked DEF IInv
  <2> QED  BY <1>4, <2>3, <2>4, <2>5 DEF IInv
<1>6. CASE ~goesOn
  <2>1. Answered /\ UNCHANGED read  BY <1>6 DEF AfterOpen
  <2>2. /\ AskedInv' /\ asked' \in [Callers -> Commands \cup {NoCommand}]
        /\ pc' = "top" /\ applying' = Nobody /\ steps' = 0
    BY <1>2, <2>1, AnsweredAtLast DEF IInv
  <2>3. TypeOK'  BY <1>2, <2>1, <2>2 DEF IInv, TypeOK, PC
  <2>4. TaskInv'  BY <1>1, <1>2, <2>2 DEF TaskInv
  <2> QED  BY <1>4, <2>2, <2>3, <2>4 DEF IInv
<1> QED  BY <1>5, <1>6

LEMMA OpenedKeeps ==
    ASSUME IInv, Opened
    PROVE  IInv'
<1>1. rangeEnd' \in Time \cup {NoTime}
  <2>1. CASE Is("seek") /\ asked[applying].until # NoTime /\ asked[applying].until < CoverageEnd
    <3>1. applying \in Callers /\ asked[applying].name = "seek"  BY <2>1 DEF Is
    <3>2. asked[applying] \in Commands /\ asked[applying].until > 0
      BY <2>1, <3>1 DEF IInv, TypeOK, AskedInv, Applied
    <3>3. asked[applying].until \in Int  BY <2>1, <3>1, <3>2, CommandsAssumption
    <3> QED  BY <2>1, <3>2, <3>3, PlayableAssumption DEF Opened, Time
  <2>2. CASE ~(Is("seek") /\ asked[applying].until # NoTime /\ asked[applying].until < CoverageEnd)
    BY <2>2 DEF Opened
  <2> QED  BY <2>1, <2>2
<1>2. /\ pc = "opening" /\ stream' = TRUE /\ AfterOpen(TRUE, paused) /\ known' \in BOOLEAN
      /\ cursor' \in Time \cup {NoTime} /\ paused \in BOOLEAN
      /\ ended' \in BOOLEAN /\ error' \in BOOLEAN
  BY DEF Opened, IInv, TypeOK
<1> QED  BY <1>1, <1>2, AfterOpenKeeps

LEMMA OpenFailsKeeps ==
    ASSUME IInv, NEW holdsNothing \in BOOLEAN, OpenFails(holdsNothing)
    PROVE  IInv'
<1>1. stream = FALSE  BY DEF IInv, TypeOK, TaskInv, OpenFails
<1>2. /\ pc = "opening" /\ stream' = FALSE /\ AfterOpen(FALSE, TRUE)
      /\ known' \in BOOLEAN /\ ended' \in BOOLEAN /\ error' \in BOOLEAN
      /\ cursor' \in Time \cup {NoTime} /\ rangeEnd' \in Time \cup {NoTime}
  BY <1>1 DEF OpenFails, IInv, TypeOK
<1> QED  BY <1>2, AfterOpenKeeps

LEMMA FrameReadKeeps ==
    ASSUME IInv, FrameRead
    PROVE  IInv'
<1> USE DEF stateVars, openVars
<1>1. pc \in {"next", "reading"} /\ stream /\ held = NoTime  BY DEF IInv, TaskInv, FrameRead, Consumes
<1>2. NextFrame \in Ahead /\ \A g \in Ahead : NextFrame <= g  BY NextFrameIsFirst DEF FrameRead
<1> DEFINE f == NextFrame
<1>3. /\ pos' = f + 1 /\ played' = TRUE
      /\ UNCHANGED <<stream, rangeEnd, paused, ended, error, known, streams, origin, queue>>
  BY DEF FrameRead
<1>4. f \in Frames /\ pos <= f /\ f < End /\ \A g \in Frames : (pos <= g /\ g < f) => FALSE
  <2>1. f \in Frames /\ pos <= f /\ f < End  BY <1>2 DEF Ahead
  <2>2. pos \in Int /\ End \in Int /\ \A g \in Frames : g \in Int
    BY FramesFinite, PlayableAssumption DEF IInv, TypeOK, End, Time
  <2>3. ASSUME NEW g \in Frames, pos <= g, g < f PROVE FALSE
    <3>1. g \in Ahead  BY <2>1, <2>2, <2>3 DEF Ahead
    <3> QED  BY <1>2, <2>1, <2>2, <2>3, <3>1
  <2> QED  BY <2>1, <2>3
<1>5. f \in Int /\ pos' \in Time /\ pos' \in Int /\ pos \in Int /\ \A g \in Frames : g \in Int
  BY <1>3, <1>4, FramesFinite DEF IInv, TypeOK, Time
<1> HIDE DEF f
<1>6. CASE pc = "reading"
  <2>1. /\ held' = f /\ read' = "none" /\ pc' = "top"
        /\ UNCHANGED <<interval, cursor, lastFrame, shown, asked, applying, steps>>
    BY <1>6 DEF FrameRead, frameVars, f
  <2>2. f # NoTime  BY <1>4, FramesFinite
  <2>3. ShownOfStream' = ShownOfStream
    <3>1. \A g \in Frames : (g < pos) <=> (g < f)  BY <1>4, <1>5
    <3> QED  BY <1>1, <1>3, <2>1, <2>2, <3>1 DEF ShownOfStream, FirstUnshown
  <2>4. origin \in Int /\ origin <= pos  BY <1>1 DEF IInv, TypeOK, StreamInv, FirstUnshown, Time
  <2>5. StreamInv'
    <3>1. held' < pos' /\ \A g \in Frames : held' < g => pos' <= g  BY <1>3, <1>5, <2>1
    <3>2. origin' <= FirstUnshown'  BY <1>3, <1>4, <1>5, <2>1, <2>2, <2>4 DEF FirstUnshown
    <3> QED  BY <1>1, <1>3, <2>1, <2>3, <3>1, <3>2 DEF IInv, StreamInv
  <2>6. EachFrameOnce'  BY <1>3, <2>1 DEF IInv, EachFrameOnce
  <2>7. TypeOK'  BY <1>3, <1>4, <1>5, <2>1 DEF IInv, TypeOK, PC
  <2>8. TaskInv'  BY <1>1, <1>3, <1>6, <2>1 DEF IInv, TaskInv
  <2>9. AskedInv'  BY <1>3, <2>1, SameAsked DEF IInv
  <2> QED  BY <2>5, <2>6, <2>7, <2>8, <2>9 DEF IInv
<1>7. CASE pc = "next"
  <2>1. /\ Emit(f) /\ held' = NoTime
        /\ IF steps > 1
           THEN steps' = steps - 1 /\ read' = "running" /\ UNCHANGED <<pc, asked, applying>>
           ELSE Answered /\ read' = "none"
    BY <1>1, <1>7 DEF FrameRead, f
  <2>2. FirstUnshown = pos  BY <1>1 DEF FirstUnshown
  <2>3. \A g \in Frames : (FirstUnshown <= g /\ g < pos') => g = f  BY <1>3, <1>4, <1>5, <2>2
  <2>4. f < pos' /\ FirstUnshown <= f /\ stream'  BY <1>1, <1>3, <1>4, <1>5, <2>2
  <2>5. StreamInv' /\ EachFrameOnce' /\ shown' \in 0..Cardinality(Frames)
    BY <1>1, <1>3, <1>4, <1>5, <2>1, <2>3, <2>4, ShowingAFrame DEF IInv
  <2>6. /\ cursor' \in Time \cup {NoTime} /\ lastFrame' \in Frames \cup {NoTime}
        /\ interval' \in BOOLEAN
    BY <1>4, <2>1, FramesFinite DEF Emit
  <2>7. CASE steps > 1
    <3>1. steps' = steps - 1 /\ steps' \in Nat /\ read' = "running" /\ UNCHANGED <<pc, asked, applying>>
      BY <2>1, <2>7 DEF IInv, TypeOK
    <3>2. TypeOK'  BY <1>3, <1>5, <2>1, <2>5, <2>6, <3>1 DEF IInv, TypeOK
    <3>3. TaskInv'  BY <1>3, <1>7, <2>1, <2>7, <3>1 DEF IInv, TypeOK, TaskInv
    <3>4. AskedInv'  BY <1>3, <3>1, SameAsked DEF IInv
    <3> QED  BY <2>5, <3>2, <3>3, <3>4 DEF IInv
  <2>8. CASE ~(steps > 1)
    <3>1. Answered /\ read' = "none"  BY <2>1, <2>8
    <3>2. /\ AskedInv' /\ asked' \in [Callers -> Commands \cup {NoCommand}]
          /\ pc' = "top" /\ applying' = Nobody /\ steps' = 0
      BY <1>3, <3>1, AnsweredAtLast DEF IInv
    <3>3. TypeOK'  BY <1>3, <1>5, <2>1, <2>5, <2>6, <3>1, <3>2 DEF IInv, TypeOK, PC
    <3>4. TaskInv'  BY <2>1, <3>2 DEF TaskInv
    <3> QED  BY <2>5, <3>2, <3>3, <3>4 DEF IInv
  <2> QED  BY <2>7, <2>8
<1> QED  BY <1>1, <1>6, <1>7

LEMMA LoopBackKeeps ==
    ASSUME IInv, LoopBack
    PROVE  IInv'
<1>1. NoTime \in Int \cup {NoTime} /\ BeginOpen(NoTime)  BY DEF LoopBack
<1>2. /\ pc' = "opening" /\ read' = "none" /\ held' = NoTime /\ ~stream'
      /\ lastFrame' = NoTime /\ shown' = 0 /\ origin' = pos' /\ rangeEnd' = NoTime
      /\ pos' \in Time /\ streams' \in 0..(MaxStreams - 1)
      /\ shown' \in 0..Cardinality(Frames)
      /\ played' \in BOOLEAN /\ error' \in BOOLEAN /\ ended' \in BOOLEAN
      /\ StreamInv' /\ EachFrameOnce'
  BY <1>1, BeginningAStream DEF IInv
<1>3. stream' \in BOOLEAN  BY <1>1 DEF BeginOpen, CloseStream
<1>4. steps' = 0 /\ UNCHANGED <<interval, cursor, paused, known, queue, asked, applying>>
  BY DEF LoopBack
<1>5. TypeOK'  BY <1>2, <1>3, <1>4 DEF IInv, TypeOK, PC
<1>6. TaskInv'  BY <1>2, <1>4 DEF TaskInv
<1>7. AskedInv'  BY <1>4, SameAsked DEF IInv
<1> QED  BY <1>2, <1>5, <1>6, <1>7 DEF IInv

\* The stream is closed at its end or by a failure, and whoever met that has its answer.
LEMMA ClosingKeeps ==
    ASSUME IInv, CloseStream, Answered, paused' \in BOOLEAN, ended' \in BOOLEAN, error' \in BOOLEAN,
           UNCHANGED <<pos, rangeEnd, played, frameVars, openVars, queue>>
    PROVE  IInv'
<1> USE DEF frameVars, openVars, CloseStream
<1>1. /\ AskedInv' /\ asked' \in [Callers -> Commands \cup {NoCommand}]
      /\ pc' = "top" /\ applying' = Nobody /\ steps' = 0
  BY AnsweredAtLast DEF IInv
<1>2. TypeOK'  BY <1>1 DEF IInv, TypeOK, PC
<1>3. EachFrameOnce' /\ StreamInv'  BY ClosedStream DEF IInv
<1>4. TaskInv'  BY <1>1 DEF TaskInv
<1> QED  BY <1>1, <1>2, <1>3, <1>4 DEF IInv

LEMMA NextKeeps ==
    ASSUME IInv, [Next]_vars
    PROVE  IInv'
<1>1. ASSUME NEW c \in Callers, Apply(c) PROVE IInv'
  BY <1>1, RefuseKeeps, PlayKeeps, PauseKeeps, SpeedKeeps, SeekKeeps, StepBackKeeps, StepKeeps
  DEF Apply
<1>2. CASE Finish
  <2>1. paused' \in BOOLEAN /\ ended' \in BOOLEAN /\ error' \in BOOLEAN
    BY <1>2 DEF Finish, IInv, TypeOK
  <2> QED  BY <1>2, <2>1, ClosingKeeps DEF Finish
<1>3. CASE ReadFails
  <2>1. paused' \in BOOLEAN /\ ended' \in BOOLEAN /\ error' \in BOOLEAN  BY <1>3 DEF ReadFails
  <2> QED  BY <1>3, <2>1, ClosingKeeps DEF ReadFails
<1>4. CASE PlayerStep
  BY <1>1, <1>2, <1>3, <1>4, ParkKeeps, WakeKeeps, DueKeeps, FrameReadKeeps, LoopBackKeeps,
     OpenedKeeps, OpenFailsKeeps DEF PlayerStep
<1>5. CASE ProviderStep  BY <1>5, ReadReturnsKeeps DEF ProviderStep
<1>6. ASSUME NEW c \in Callers, NEW command \in Commands, Ask(c, command) PROVE IInv'
  BY <1>6, AskKeeps
<1>7. CASE UNCHANGED vars
  <2> USE <1>7 DEF vars, streamVars, frameVars, stateVars, openVars, commandVars
  <2>1. TypeOK'  BY DEF IInv, TypeOK
  <2>2. EachFrameOnce' /\ StreamInv'  BY SameStream DEF IInv
  <2>3. TaskInv'  BY DEF IInv, TaskInv
  <2>4. AskedInv'  BY SameAsked DEF IInv
  <2> QED  BY <2>1, <2>2, <2>3, <2>4 DEF IInv
<1> QED  BY <1>4, <1>5, <1>6, <1>7, StartKeeps, StopKeeps DEF Next

\* The inductive invariant of the player: what each await of its task holds, what its
\* stream has shown, and who waits for which answer.
THEOREM Invariant == Spec => []IInv
<1>1. Init => IInv  BY InitHolds
<1>2. IInv /\ [Next]_vars => IInv'  BY NextKeeps
<1> QED  BY <1>1, <1>2, PTL DEF Spec

-----------------------------------------------------------------------------
(* What the runs check *)

\* "A stream only moves forward" (playable.py): for any recording and any commands, a
\* stream has shown each frame from where it was opened to its last one once, in order,
\* whatever was held, stepped over, in flight or cancelled meanwhile.
THEOREM FramesShown == Spec => []FramesAreShownOnce
<1>1. IInv => FramesAreShownOnce  BY DEF IInv, FramesAreShownOnce
<1> QED  BY <1>1, Invariant, PTL

\* A step that opens a stream while a chunk is set is a command's, or start()'s.
LEMMA OnlyCommandsOpen ==
    ASSUME IInv, [Next]_vars, rangeEnd # NoTime, streams' # streams
    PROVE  applying' # Nobody
<1>1. ASSUME NEW c \in Callers, Apply(c) PROVE applying' # Nobody
  BY <1>1, PlayableAssumption
  DEF Apply, Refuse, Play, Pause, Speed, Seek, StepBack, Step, openVars
<1>2. CASE PlayerStep
  BY <1>1, <1>2
  DEF PlayerStep, Park, Wake, Due, FrameRead, LoopBack, Loops, Finish, ReadFails, Opened, OpenFails,
      AfterOpen, openVars
<1>3. CASE ProviderStep  BY <1>3 DEF ProviderStep, ReadReturns, openVars
<1>4. CASE \E c \in Callers, command \in Commands : Ask(c, command)  BY <1>4 DEF Ask, openVars
<1>5. CASE Start  BY <1>5, PlayableAssumption DEF Start
<1>6. CASE Stop  BY <1>6 DEF Stop, openVars
<1>7. CASE UNCHANGED vars  BY <1>7 DEF vars, openVars
<1> QED  BY <1>2, <1>3, <1>4, <1>5, <1>6, <1>7 DEF Next

\* A frame that goes out while paused was asked for.
LEMMA OnlyCommandsShow ==
    ASSUME IInv, [Next]_vars, shown' > shown
    PROVE  ~paused \/ applying # Nobody \/ queue' # queue
<1>0. shown \in Nat  BY FramesFinite, FS_CardinalityType DEF IInv, TypeOK
<1>1. ASSUME NEW c \in Callers, NEW name, Pops(c, name) PROVE queue' # queue
  <2>1. Len(queue') = Len(queue) - 1 /\ Len(queue) \in Nat
    BY <1>1 DEF Pops, IInv, TypeOK
  <2> QED  BY <2>1
<1>2. ASSUME NEW c \in Callers, Apply(c) PROVE queue' # queue
  BY <1>1, <1>2 DEF Apply, Refuse, Play, Pause, Speed, Seek, StepBack, Step
<1>3. CASE Due  BY <1>3 DEF Due, IInv, TaskInv
<1>4. CASE FrameRead
  <2>1. CASE pc = "reading"  BY <1>0, <1>4, <2>1 DEF FrameRead, frameVars
  <2>2. CASE pc = "next"  BY <2>2 DEF IInv, TaskInv
  <2> QED  BY <1>4, <2>1, <2>2 DEF FrameRead, Consumes
<1>5. CASE LoopBack  BY <1>0, <1>5 DEF LoopBack, BeginOpen
<1>6. CASE Start  BY <1>0, <1>6 DEF Start, BeginOpen
<1>7. CASE Park \/ Wake \/ Finish \/ ReadFails \/ Opened \/ Stop
           \/ \E holdsNothing \in BOOLEAN : OpenFails(holdsNothing)
  <2>1. shown' = shown
    BY <1>7 DEF Park, Wake, Finish, ReadFails, Opened, Stop, OpenFails, AfterOpen, frameVars
  <2> QED  BY <1>0, <2>1
<1>8. CASE ProviderStep  BY <1>0, <1>8 DEF ProviderStep, ReadReturns, frameVars
<1>9. CASE \E c \in Callers, command \in Commands : Ask(c, command)  BY <1>0, <1>9 DEF Ask, frameVars
<1>10. CASE UNCHANGED vars  BY <1>0, <1>10 DEF vars, frameVars
<1> QED  BY <1>2, <1>3, <1>4, <1>5, <1>6, <1>7, <1>8, <1>9, <1>10 DEF Next, PlayerStep

\* "A seek with an end plays that chunk and stops there, without looping", and a pause
\* holds: only a command opens a stream after a chunk, and only a command shows a frame
\* while paused.
THEOREM PlaysAsAsked == Spec => PlaysWhatWasAsked
<1>1. IInv /\ [Next]_vars => [rangeEnd # NoTime /\ streams' # streams => applying' # Nobody]_vars
  BY OnlyCommandsOpen
<1>2. IInv /\ [Next]_vars => [shown' > shown => ~paused \/ applying # Nobody \/ queue' # queue]_vars
  BY OnlyCommandsShow
<1> QED  BY <1>1, <1>2, Invariant, PTL DEF Spec, PlaysWhatWasAsked, ChunkStopsThere, PauseHolds

(***************************************************************************)
(* RecordedStream: types and phases                                        *)
(***************************************************************************)

Rows == Seq([k : Int, i : Int])
HubTyped == hub \in {"new", "built", "apps", "running", "stopping", "stopped"}
PlayerTyped ==
  player \in [pc : {"off", "play", "full", "done"}, loop : BOOLEAN, cursor : 0..MaxRow, stop : BOOLEAN]
ReaderTyped ==
  /\ readerQueue \in [items : Seq(Int), max : Nat \ {0}]
  /\ Len(readerQueue.items) <= readerQueue.max
AppTyped ==
  app \in [pc : {"off", "read", "row", "appended", "done", "dead"}, row : Int, stopped : BOOLEAN]
WinTyped == win \in [rows : Rows, appended : Nat] /\ Len(win.rows) = NWin
PageTyped == \/ page = NoPage
             \/ page \in [open : {TRUE}, sel : Selections, last : Nat, full : BOOLEAN]
WireTyped == wire \in Seq(Slice)
BufTyped ==
  /\ buf \in [rows : Seq([k : Int, sel : Selections]), sel : Selections \cup {{}}, cap : {0, NWin}]
  /\ Len(buf.rows) <= NWin

\* Types, with the buffer's list of channels and its capacity.
StreamTypes ==
  /\ HubTyped /\ PlayerTyped /\ ReaderTyped /\ AppTyped /\ WinTyped
  /\ PageTyped /\ WireTyped /\ BufTyped /\ ops \in 0..MaxOps

\* Nothing is read before the applications are built, nothing is played before
\* they run, and a row that is being put is within the bound.
PhaseInv ==
  /\ hub = "new" => readerQueue.items = <<>>
  /\ hub \in {"new", "built"} => app.pc = "off" /\ win.appended = 0
  /\ hub \in {"new", "built", "apps"} => player.pc = "off"
  /\ player.pc = "off" => player.cursor = 0
  /\ player.pc = "full" => player.cursor < MaxRow

LEMMA WindowPositive == NWin \in Nat \ {0} /\ NRec \in Nat \ {0} /\ QueueDepth \in Nat \ {0}
                        /\ MaxRow \in Nat /\ MaxOps \in Nat /\ MaxWire \in Nat \ {0}
BY StreamAssumption

\* The last rows of a sequence.
LEMMA NewestRowsAre ==
  ASSUME NEW S, NEW s \in Seq(S), NEW n \in Nat
  PROVE  /\ Newest(s, n) \in Seq(S)
         /\ Len(Newest(s, n)) = IF Len(s) > n THEN n ELSE Len(s)
         /\ \A j \in 1..Len(Newest(s, n)) :
              Newest(s, n)[j] = s[Len(s) - Len(Newest(s, n)) + j]
<1>1. CASE Len(s) > n
  <2>1. Newest(s, n) = SubSeq(s, Len(s) - n + 1, Len(s))  BY <1>1 DEF Newest
  <2> DEFINE from == Len(s) - n + 1
  <2>2. from \in Int /\ 1 <= from /\ from <= Len(s) + 1 /\ Len(s) \in Nat  BY <1>1
  <2>3. SubSeq(s, from, Len(s)) \in Seq(S)
    <3>1. \A j \in from..Len(s) : s[j] \in S  BY <2>2
    <3> QED  BY <3>1, <2>2
  <2>4. Len(SubSeq(s, from, Len(s))) = n  BY <1>1, <2>2
  <2>5. \A j \in 1..n : SubSeq(s, from, Len(s))[j] = s[from + j - 1]  BY <1>1, <2>2
  <2>6. \A j \in 1..n : from + j - 1 = Len(s) - n + j  BY <2>2
  <2> QED  BY <1>1, <2>1, <2>3, <2>4, <2>5, <2>6
<1>2. CASE ~(Len(s) > n)
  <2>1. Newest(s, n) = SubSeq(s, 1, Len(s))  BY <1>2 DEF Newest
  <2>2. SubSeq(s, 1, Len(s)) = s  OBVIOUS
  <2>3. Len(s) \in Nat  OBVIOUS
  <2>4. \A j \in 1..Len(s) : Len(s) - Len(s) + j = j  BY <2>3
  <2> QED  BY <1>2, <2>1, <2>2, <2>3, <2>4
<1> QED  BY <1>1, <1>2

LEMMA RowsAre ==
  ASSUME NEW rows \in Rows, Len(rows) = NWin, NEW a \in 1..NWin
  PROVE  rows[a] \in [k : Int, i : Int] /\ rows[a].k \in Int /\ rows[a].i \in Int
<1>1. \A S : \A s \in Seq(S) : \A j \in 1..Len(s) : s[j] \in S  OBVIOUS
<1>2. rows \in Seq([k : Int, i : Int]) /\ a \in 1..Len(rows)  BY DEF Rows
<1>3. rows[a] \in [k : Int, i : Int]  BY <1>1, <1>2
<1> QED  BY <1>3

LEMMA AppendedRowsAre ==
  ASSUME NEW rows \in Rows, Len(rows) = NWin, NEW i \in Int
  PROVE  /\ Appended(rows, i) \in Rows
         /\ Len(Appended(rows, i)) = NWin
         /\ \A j \in 1..NWin : j < NWin => Appended(rows, i)[j] = rows[j + 1]
         /\ Appended(rows, i)[NWin] = [k |-> rows[NWin].k + 1, i |-> i]
<1>1. NWin \in Nat \ {0} /\ rows \in Seq([k : Int, i : Int])  BY WindowPositive DEF Rows
<1>2. Last(rows) = rows[NWin]  BY DEF Last
<1>3. rows[NWin] \in [k : Int, i : Int]
  <2>1. \A S : \A s \in Seq(S) : \A j \in 1..Len(s) : s[j] \in S  OBVIOUS
  <2>2. NWin \in 1..Len(rows)  BY <1>1
  <2> QED  BY <2>1, <2>2, <1>1
<1> DEFINE new == [k |-> rows[NWin].k + 1, i |-> i]
<1>4. new \in [k : Int, i : Int]  BY <1>3
<1>5. Appended(rows, i) = Append(Tail(rows), new)  BY <1>2 DEF Appended
<1> HIDE DEF new
<1>6. Tail(rows) \in Seq([k : Int, i : Int]) /\ Len(Tail(rows)) = NWin - 1
      /\ \A j \in 1..(NWin - 1) : Tail(rows)[j] = rows[j + 1]
  BY <1>1
<1>7. Append(Tail(rows), new) \in Seq([k : Int, i : Int]) /\ Len(Append(Tail(rows), new)) = NWin
  BY <1>6, <1>4, <1>1
<1>8. Append(Tail(rows), new)[NWin] = new  BY <1>6, <1>4, <1>1
<1>9. \A j \in 1..NWin : j < NWin => Append(Tail(rows), new)[j] = rows[j + 1]  BY <1>6, <1>4, <1>1
<1> QED  BY <1>5, <1>7, <1>8, <1>9 DEF new, Rows

\* The steps of the hub, the player and the application; the page's leave
\* their state alone.
LEMMA HubSteps ==
  ASSUME [StreamNext]_replayVars
  PROVE  \/ BuildApps \/ RunApps \/ StartPlayer \/ StopHub \/ FinishStop
         \/ PlayRow \/ PutDropping \/ PlayerEnds
         \/ ReadRow \/ EndOfStream \/ AppendRow \/ CountRow \/ AppDies
         \/ UNCHANGED HubVars
BY DEF StreamNext, HubNext, PlayerNext, AppNext, PageNext, Terminated, replayVars, HubVars,
       Connect, Disconnect, SelectChannels, Resync, Tick, Receive

\* The steps of the page; the others leave its state alone.
LEMMA PageSteps ==
  ASSUME [StreamNext]_replayVars
  PROVE  \/ Connect \/ Disconnect \/ SelectChannels \/ Resync \/ Tick \/ Receive
         \/ UNCHANGED PageVars
BY DEF StreamNext, HubNext, PlayerNext, AppNext, PageNext, Terminated, replayVars, PageVars,
       BuildApps, RunApps, StartPlayer, StopHub, FinishStop, Played, PlayRow, PutDropping,
       PlayerEnds, AppStep, ReadRow, EndOfStream, AppendRow, CountRow, AppDies

\* The player at each of its steps.
LEMMA PlayerMoves ==
  ASSUME StreamTypes, PhaseInv, [StreamNext]_replayVars
  PROVE  /\ PlayerTyped'
         /\ player' # player =>
              /\ player'.loop = player.loop
              /\ \/ player'.cursor = player.cursor
                 \/ (PlayRow \/ PutDropping) /\ player'.cursor = player.cursor + 1
                      /\ player.cursor < MaxRow /\ player'.pc = "play"
<1> USE DEF StreamTypes, PlayerTyped
<1>1. MaxRow \in Nat  BY WindowPositive
<1>2. CASE StartPlayer \/ StopHub \/ PlayerEnds  BY <1>2 DEF StartPlayer, StopHub, PlayerEnds
<1>3. CASE PlayRow  BY <1>1, <1>3 DEF PlayRow, PhaseInv
<1>4. CASE PutDropping
  <2>1. player.cursor \in 0..MaxRow /\ player.cursor < MaxRow  BY <1>4 DEF PutDropping, PhaseInv
  <2>2. player.cursor + 1 \in 0..MaxRow  BY <2>1, <1>1
  <2>3. player' = [pc |-> "play", loop |-> player.loop, cursor |-> player.cursor + 1, stop |-> player.stop]
    BY <1>4 DEF PutDropping
  <2> QED  BY <2>1, <2>2, <2>3, <1>4
<1>5. CASE BuildApps \/ RunApps \/ FinishStop  BY <1>5 DEF BuildApps, RunApps, FinishStop
<1>6. CASE ReadRow \/ EndOfStream \/ AppendRow \/ CountRow \/ AppDies
  BY <1>6 DEF ReadRow, EndOfStream, AppendRow, CountRow, AppDies, AppStep
<1>7. CASE UNCHANGED HubVars  BY <1>7 DEF HubVars
<1> QED  BY HubSteps, <1>2, <1>3, <1>4, <1>5, <1>6, <1>7

\* What the queue holds after each step that changes it.
LEMMA BuildReads ==
  ASSUME StreamTypes, PhaseInv, BuildApps
  PROVE  /\ readerQueue'.items \in Seq(Int)
         /\ readerQueue'.max \in Nat \ {0} /\ readerQueue' \in [items : Seq(Int), max : Nat \ {0}]
         /\ Len(readerQueue'.items) <= readerQueue'.max
         /\ Len(readerQueue'.items) = IF player.loop THEN NWin ELSE 0
         /\ \A j \in 1..Len(readerQueue'.items) : readerQueue'.items[j] = j - 1 - NWin
<1> DEFINE n == IF player.loop THEN NWin ELSE 0
           past == History(NWin)
<1>1. player.cursor = 0 /\ readerQueue.items = <<>> /\ NWin \in Nat \ {0} /\ player.loop \in BOOLEAN
  BY WindowPositive DEF PhaseInv, BuildApps, StreamTypes, PlayerTyped
<1>2. past = [j \in 1..n |-> 0 - n + j - 1]
  <2>1. CASE player.loop
    <3>1. past = [j \in 1..(0 - (0 - NWin)) |-> (0 - NWin) + j - 1]  BY <1>1, <2>1 DEF History
    <3>2. 0 - (0 - NWin) = NWin  BY <1>1
    <3> QED  BY <3>1, <3>2, <2>1, <1>1
  <2>2. CASE ~player.loop
    <3>1. past = [j \in 1..(0 - 0) |-> 0 + j - 1]  BY <1>1, <2>2 DEF History
    <3> QED  BY <3>1, <2>2, <1>1
  <2> QED  BY <2>1, <2>2, <1>1
<1>3. n \in Nat  BY <1>1
<1>4. past \in Seq(Int) /\ Len(past) = n
  <2>1. \A m \in Nat : [j \in 1..m |-> 0 - m + j - 1] \in [1..m -> Int]  OBVIOUS
  <2>2. \A S, s, m : m \in Nat /\ s \in [1..m -> S] => s \in Seq(S) /\ Len(s) = m
    BY SeqDef
  <2> QED  BY <2>1, <2>2, <1>2, <1>3
<1>5. readerQueue'.items = <<>> \o past
      /\ readerQueue' = [items |-> <<>> \o past, max |-> Max({readerQueue.max, Len(<<>>) + Len(past)})]
  BY <1>1 DEF BuildApps, Prefilled, PushHistory
<1>6. <<>> \o past = past  BY <1>4
<1>7. Max({readerQueue.max, n}) \in Nat \ {0} /\ n <= Max({readerQueue.max, n})
  <2>1. readerQueue.max \in Nat \ {0}  BY DEF StreamTypes, ReaderTyped
  <2>2. \A a, b \in Nat : Max({a, b}) = IF a < b THEN b ELSE a
    <3> TAKE a, b \in Nat
    <3> DEFINE c == IF a < b THEN b ELSE a
    <3>1. c \in {a, b} /\ \A y \in {a, b} : c >= y  OBVIOUS
    <3>2. \A x \in {a, b} : (\A y \in {a, b} : x >= y) => x = c  OBVIOUS
    <3> HIDE DEF c
    <3>3. Max({a, b}) = c  BY <3>1, <3>2 DEF Max
    <3> QED  BY <3>3 DEF c
  <2> QED  BY <2>1, <2>2, <1>3
<1>8. Len(<<>>) + Len(past) = n  BY <1>3, <1>4
<1>9. \A j \in 1..n : past[j] = j - 1 - NWin
  BY <1>2, <1>1
<1> HIDE DEF past, n
<1>10. readerQueue' = [items |-> past, max |-> Max({readerQueue.max, n})]
  BY <1>5, <1>6, <1>8
<1>11. readerQueue'.items = past /\ readerQueue'.max = Max({readerQueue.max, n})
       /\ readerQueue' \in [items : Seq(Int), max : Nat \ {0}]
  BY <1>10, <1>7, <1>4
<1> QED  BY <1>11, <1>9, <1>4, <1>7 DEF n

LEMMA PlayReads ==
  ASSUME StreamTypes, PlayRow, readerQueue' # readerQueue
  PROVE  /\ readerQueue' = [items |-> Append(readerQueue.items, player.cursor), max |-> readerQueue.max]
         /\ Len(readerQueue.items) < readerQueue.max
         /\ player'.cursor = player.cursor + 1 /\ player'.loop = player.loop
BY DEF StreamTypes, ReaderTyped, PlayerTyped, PlayRow, Put

LEMMA DropReads ==
  ASSUME StreamTypes, PutDropping
  PROVE  /\ readerQueue' =
              [items |-> Append(IF readerQueue.items = <<>> THEN <<>> ELSE Tail(readerQueue.items),
                                player.cursor),
               max |-> readerQueue.max]
         /\ player'.cursor = player.cursor + 1 /\ player'.loop = player.loop
BY DEF StreamTypes, ReaderTyped, PlayerTyped, PutDropping, MakeRoom

LEMMA ReadReads ==
  ASSUME StreamTypes, ReadRow
  PROVE  /\ readerQueue' = [items |-> Tail(readerQueue.items), max |-> readerQueue.max]
         /\ readerQueue.items # <<>>
         /\ app.pc = "read" /\ app' = [pc |-> "row", row |-> Head(readerQueue.items), stopped |-> app.stopped]
BY DEF StreamTypes, ReaderTyped, AppTyped, ReadRow

LEMMA AppendReads ==
  ASSUME StreamTypes, AppendRow
  PROVE  /\ win' = [rows |-> Appended(win.rows, app.row), appended |-> win.appended]
         /\ app.pc = "row" /\ app' = [pc |-> "appended", row |-> app.row, stopped |-> app.stopped]
         /\ app.row \in Int
BY DEF StreamTypes, WinTyped, AppTyped, AppendRow

LEMMA CountReads ==
  ASSUME StreamTypes, CountRow
  PROVE  /\ win' = [rows |-> win.rows, appended |-> win.appended + 1]
         /\ app.pc = "appended" /\ app' = [pc |-> app'.pc, row |-> app.row, stopped |-> app.stopped]
         /\ app'.pc \in {"done", "read"}
BY DEF StreamTypes, WinTyped, AppTyped, CountRow

\* The window's rows are numbered one after the other, up to the row that is
\* counted or about to be.
NewestRow == win.rows[NWin].k
WindowInv ==
  /\ \A j \in 1..NWin : win.rows[j].k = NewestRow - (NWin - j)
  /\ NewestRow = win.appended + IF app.pc = "appended" THEN 1 ELSE 0

LEMMA ReaderStaysTyped ==
  ASSUME StreamTypes, PhaseInv, [StreamNext]_replayVars
  PROVE  ReaderTyped'
<1> USE DEF StreamTypes, ReaderTyped
<1>1. CASE BuildApps  BY <1>1, BuildReads
<1>2. CASE PlayRow
  <2>1. CASE readerQueue' = readerQueue  BY <2>1
  <2>2. CASE readerQueue' # readerQueue
    <3>1. player.cursor \in Int  BY WindowPositive DEF PlayerTyped
    <3>2. Append(readerQueue.items, player.cursor) \in Seq(Int)
          /\ Len(Append(readerQueue.items, player.cursor)) = Len(readerQueue.items) + 1
      BY <3>1
    <3>3. readerQueue' = [items |-> Append(readerQueue.items, player.cursor), max |-> readerQueue.max]
          /\ Len(readerQueue.items) < readerQueue.max
      BY PlayReads, <1>2, <2>2
    <3> QED  BY <3>2, <3>3
  <2> QED  BY <2>1, <2>2
<1>3. CASE PutDropping
  <2> DEFINE left == IF readerQueue.items = <<>> THEN <<>> ELSE Tail(readerQueue.items)
  <2>1. player.cursor \in Int  BY WindowPositive DEF PlayerTyped
  <2>2. left \in Seq(Int) /\ Len(left) + 1 <= readerQueue.max
    <3>1. CASE readerQueue.items = <<>>  BY <3>1
    <3>2. CASE readerQueue.items # <<>>  BY <3>2
    <3> QED  BY <3>1, <3>2
  <2> HIDE DEF left
  <2>3. Append(left, player.cursor) \in Seq(Int) /\ Len(Append(left, player.cursor)) = Len(left) + 1
    BY <2>1, <2>2
  <2>4. readerQueue' = [items |-> Append(left, player.cursor), max |-> readerQueue.max]
    BY DropReads, <1>3 DEF left
  <2> QED  BY <2>2, <2>3, <2>4
<1>4. CASE ReadRow
  <2>1. Tail(readerQueue.items) \in Seq(Int) /\ Len(Tail(readerQueue.items)) = Len(readerQueue.items) - 1
    BY ReadReads, <1>4
  <2>2. readerQueue' = [items |-> Tail(readerQueue.items), max |-> readerQueue.max]
    BY ReadReads, <1>4
  <2> QED  BY <2>1, <2>2
<1>5. CASE UNCHANGED readerQueue  BY <1>5
<1> QED
  BY HubSteps, <1>1, <1>2, <1>3, <1>4, <1>5
  DEF RunApps, StartPlayer, StopHub, FinishStop, PlayerEnds, EndOfStream, AppendRow, CountRow,
      AppDies, HubVars

LEMMA AppStaysTyped ==
  ASSUME StreamTypes, [StreamNext]_replayVars
  PROVE  AppTyped' /\ HubTyped'
<1> USE DEF StreamTypes, AppTyped, HubTyped
<1>1. CASE ReadRow
  <2>1. Head(readerQueue.items) \in Int  BY ReadReads, <1>1 DEF ReaderTyped
  <2> QED  BY <2>1, ReadReads, <1>1 DEF ReadRow, AppStep
<1>2. CASE RunApps \/ StopHub  BY <1>2 DEF RunApps, StopHub
<1>3. CASE EndOfStream \/ AppendRow \/ CountRow \/ AppDies
  BY <1>3 DEF EndOfStream, AppendRow, CountRow, AppDies, AppStep
<1>4. CASE BuildApps \/ StartPlayer \/ FinishStop  BY <1>4 DEF BuildApps, StartPlayer, FinishStop
<1>5. CASE PlayRow \/ PutDropping \/ PlayerEnds
  BY <1>5 DEF PlayRow, PutDropping, PlayerEnds, Played
<1>6. CASE UNCHANGED HubVars  BY <1>6 DEF HubVars
<1> QED  BY HubSteps, <1>1, <1>2, <1>3, <1>4, <1>5, <1>6

\* Only two steps change the window.
LEMMA WindowSteps ==
  ASSUME [StreamNext]_replayVars
  PROVE  AppendRow \/ CountRow \/ win' = win
BY HubSteps
DEF BuildApps, RunApps, StartPlayer, StopHub, FinishStop, PlayRow, PutDropping, PlayerEnds, Played,
    ReadRow, EndOfStream, AppDies, HubVars

LEMMA WindowStaysTyped ==
  ASSUME StreamTypes, [StreamNext]_replayVars
  PROVE  WinTyped'
<1>1. WinTyped /\ win.rows \in Rows /\ Len(win.rows) = NWin /\ win.appended \in Nat
  BY DEF StreamTypes, WinTyped
<1>2. CASE AppendRow
  <2>1. Appended(win.rows, app.row) \in Rows /\ Len(Appended(win.rows, app.row)) = NWin
    BY <1>1, <1>2, AppendReads, AppendedRowsAre
  <2>2. win' = [rows |-> Appended(win.rows, app.row), appended |-> win.appended]
    BY AppendReads, <1>2
  <2> QED  BY <2>1, <2>2, <1>1 DEF WinTyped
<1>3. CASE CountRow  BY <1>1, <1>3, CountReads DEF WinTyped
<1>4. CASE win' = win  BY <1>1, <1>4 DEF WinTyped
<1> QED  BY WindowSteps, <1>2, <1>3, <1>4

LEMMA WindowStep ==
  ASSUME StreamTypes, PhaseInv, WindowInv, [StreamNext]_replayVars
  PROVE  WindowInv'
<1>1. win.rows \in Rows /\ Len(win.rows) = NWin /\ win.appended \in Nat /\ NWin \in Nat \ {0}
  BY WindowPositive DEF StreamTypes, WinTyped
<1>2. \A j \in 1..NWin : win.rows[j].k = win.rows[NWin].k - (NWin - j)  BY DEF WindowInv, NewestRow
<1>3. win.rows[NWin].k = win.appended + IF app.pc = "appended" THEN 1 ELSE 0
  BY DEF WindowInv, NewestRow
<1>4. CASE AppendRow
  <2> DEFINE rows == Appended(win.rows, app.row)
  <2>1. win'.rows = rows /\ win'.appended = win.appended /\ app.pc = "row" /\ app'.pc = "appended"
        /\ app.row \in Int
    BY AppendReads, <1>4
  <2>2. /\ \A j \in 1..NWin : j < NWin => rows[j] = win.rows[j + 1]
        /\ rows[NWin] = [k |-> win.rows[NWin].k + 1, i |-> app.row]
    BY <1>1, <2>1, AppendedRowsAre
  <2>3. rows[NWin].k = win.rows[NWin].k + 1  BY <2>2
  <2> HIDE DEF rows
  <2>4. ASSUME NEW j \in 1..NWin  PROVE rows[j].k = rows[NWin].k - (NWin - j)
    <3>1. CASE j = NWin  BY <3>1, <2>3, <1>3, <1>1
    <3>2. CASE j < NWin
      <4>1. rows[j].k = win.rows[j + 1].k  BY <3>2, <2>2
      <4>2. win.rows[j + 1].k = win.rows[NWin].k - (NWin - (j + 1))  BY <1>2, <3>2, <1>1
      <4> QED  BY <4>1, <4>2, <2>3, <1>3, <1>1, SMTT(30)
    <3> QED  BY <3>1, <3>2, <1>1
  <2>5. NewestRow' = rows[NWin].k  BY <2>1 DEF NewestRow
  <2>6. NewestRow' = win'.appended + IF app'.pc = "appended" THEN 1 ELSE 0
    BY <2>1, <2>3, <2>5, <1>3, <1>1
  <2>7. \A j \in 1..NWin : win'.rows[j].k = NewestRow' - (NWin - j)  BY <2>1, <2>4, <2>5
  <2> QED  BY <2>6, <2>7 DEF WindowInv
<1>5. CASE CountRow
  BY <1>1, <1>2, <1>3, <1>5, CountReads, SMTT(30) DEF WindowInv, NewestRow
<1>6. CASE win' = win
  <2>1. CASE app.pc = "appended"
    <3>1. app'.pc = "appended" \/ CountRow
      BY <2>1, HubSteps
      DEF BuildApps, RunApps, StartPlayer, StopHub, FinishStop, PlayRow, PutDropping, PlayerEnds,
          Played, ReadRow, EndOfStream, AppendRow, AppDies, HubVars, StreamTypes, AppTyped, PhaseInv
    <3> QED  BY <3>1, <1>5, <1>6, <2>1, <1>2, <1>3 DEF WindowInv, NewestRow
  <2>2. CASE app.pc # "appended"
    <3>1. app'.pc # "appended" \/ AppendRow
      BY <2>2, HubSteps
      DEF BuildApps, RunApps, StartPlayer, StopHub, FinishStop, PlayRow, PutDropping, PlayerEnds,
          Played, ReadRow, EndOfStream, CountRow, AppDies, HubVars, StreamTypes, AppTyped
    <3> QED  BY <3>1, <1>4, <1>6, <2>2, <1>2, <1>3 DEF WindowInv, NewestRow
  <2> QED  BY <2>1, <2>2
<1> QED  BY WindowSteps, <1>4, <1>5, <1>6

LEMMA PhaseStep ==
  ASSUME StreamTypes, PhaseInv, [StreamNext]_replayVars
  PROVE  PhaseInv'
<1> USE DEF StreamTypes, HubTyped, PlayerTyped, AppTyped
<1>1. CASE BuildApps \/ RunApps \/ StartPlayer \/ StopHub \/ FinishStop
  BY <1>1, PlayerMoves DEF PhaseInv, BuildApps, RunApps, StartPlayer, StopHub, FinishStop
<1>2. CASE PlayRow \/ PutDropping \/ PlayerEnds
  <2>1. PhaseInv'
    BY <1>2, PlayerMoves DEF PhaseInv, PlayRow, PutDropping, PlayerEnds, Played
  <2> QED  BY <2>1
<1>3. CASE ReadRow \/ EndOfStream \/ AppendRow \/ CountRow \/ AppDies
  BY <1>3 DEF PhaseInv, ReadRow, EndOfStream, AppendRow, CountRow, AppDies, AppStep
<1>4. CASE UNCHANGED HubVars  BY <1>4 DEF PhaseInv, HubVars
<1> QED  BY HubSteps, <1>1, <1>2, <1>3, <1>4

(***************************************************************************)
(* RecordedStream: the rows on their way to the window                     *)
(***************************************************************************)

\* Rows rise: in the window, from there to the row in hand, and on to the
\* queue; all are older than the row to be played next.
InRowOrder(rows, inHand, row, items, next) ==
  /\ \A a, b \in 1..NWin : a < b /\ rows[a].k > 0 => rows[a].i < rows[b].i
  /\ \A a \in 1..NWin : rows[a].k > 0 =>
       /\ rows[a].i < next
       /\ inHand => rows[a].i < row
       /\ \A q \in 1..Len(items) : rows[a].i < items[q]
  /\ inHand => /\ row < next
               /\ \A q \in 1..Len(items) : row < items[q]
  /\ \A p, q \in 1..Len(items) : p < q => items[p] < items[q]
  /\ \A q \in 1..Len(items) : items[q] < next

RowOrder == InRowOrder(win.rows, app.pc = "row", app.row, readerQueue.items, player.cursor)

\* A row is played: behind what waits, of which the oldest may give way.
LEMMA PlayedInOrder ==
  ASSUME NEW rows \in Rows, Len(rows) = NWin, NEW inHand \in BOOLEAN, NEW row \in Int,
         NEW items \in Seq(Int), NEW next \in Int,
         InRowOrder(rows, inHand, row, items, next)
  PROVE  /\ InRowOrder(rows, inHand, row, Append(items, next), next + 1)
         /\ InRowOrder(rows, inHand, row,
                       Append(IF items = <<>> THEN <<>> ELSE Tail(items), next), next + 1)
<1>1. \A a \in 1..NWin : rows[a].i \in Int /\ rows[a].k \in Int  BY RowsAre
<1>2. ASSUME NEW left \in Seq(Int), NEW d \in 0..1, Len(left) = Len(items) - d,
             \A q \in 1..Len(left) : left[q] = items[q + d]
      PROVE  InRowOrder(rows, inHand, row, Append(left, next), next + 1)
  <2> DEFINE queued == Append(left, next)
  <2>1. Len(queued) = Len(left) + 1 /\ queued[Len(left) + 1] = next
        /\ \A q \in 1..Len(left) : queued[q] = left[q]
    BY <1>2
  <2>2. \A q \in 1..Len(left) : queued[q] = items[q + d] /\ q + d \in 1..Len(items) /\ items[q + d] \in Int
    <3> SUFFICES ASSUME NEW q \in 1..Len(left)
                 PROVE  queued[q] = items[q + d] /\ q + d \in 1..Len(items) /\ items[q + d] \in Int
      OBVIOUS
    <3>1. queued[q] = left[q] /\ left[q] = items[q + d]  BY <2>1, <1>2
    <3> HIDE DEF queued
    <3>2. q + d \in 1..Len(items)
      <4>1. Len(left) \in Nat /\ Len(items) \in Nat /\ Len(left) = Len(items) - d  BY <1>2, SMTT(30)
      <4> QED  BY <4>1
    <3>3. items[q + d] \in Int  BY <3>2
    <3> QED  BY <3>1, <3>2, <3>3
  <2>3. Len(left) \in Nat  OBVIOUS
  <2> HIDE DEF queued
  <2>4. \A q \in 1..Len(queued) : q \in 1..Len(left) \/ q = Len(left) + 1  BY <2>1, <2>3
  <2>5. \A q \in 1..Len(queued) : queued[q] < next + 1
    <3>1. \A q \in 1..Len(items) : items[q] < next  BY DEF InRowOrder
    <3> SUFFICES ASSUME NEW q \in 1..Len(queued)  PROVE queued[q] < next + 1
      OBVIOUS
    <3>2. CASE q \in 1..Len(left)
      <4>1. queued[q] = items[q + d] /\ q + d \in 1..Len(items) /\ items[q + d] \in Int  BY <3>2, <2>2
      <4>2. items[q + d] < next  BY <4>1, <3>1
      <4> QED  BY <4>1, <4>2
    <3>3. CASE q = Len(left) + 1
      <4>1. queued[q] = next  BY <3>3, <2>1
      <4> QED  BY <4>1
    <3> QED  BY <3>2, <3>3, <2>4
  <2>6. \A p, q \in 1..Len(queued) : p < q => queued[p] < queued[q]
    <3> SUFFICES ASSUME NEW p \in 1..Len(queued), NEW q \in 1..Len(queued), p < q
                 PROVE  queued[p] < queued[q]
      OBVIOUS
    <3>1. p \in 1..Len(left)  BY <2>1, <2>3
    <3>2. CASE q \in 1..Len(left)  BY <3>1, <3>2, <2>2 DEF InRowOrder
    <3>3. CASE q = Len(left) + 1  BY <3>1, <3>3, <2>1, <2>2 DEF InRowOrder
    <3> QED  BY <3>2, <3>3, <2>4
  <2>7. ASSUME inHand  PROVE row < next + 1 /\ \A q \in 1..Len(queued) : row < queued[q]
    <3>1. row < next /\ \A q \in 1..Len(items) : row < items[q]  BY <2>7 DEF InRowOrder
    <3>2. \A q \in 1..Len(left) : row < queued[q]  BY <3>1, <2>2
    <3> QED  BY <3>1, <3>2, <2>1, <2>4
  <2>8. \A a \in 1..NWin : rows[a].k > 0 =>
          /\ rows[a].i < next + 1
          /\ inHand => rows[a].i < row
          /\ \A q \in 1..Len(queued) : rows[a].i < queued[q]
    <3> SUFFICES ASSUME NEW a \in 1..NWin, rows[a].k > 0
                 PROVE  /\ rows[a].i < next + 1
                        /\ inHand => rows[a].i < row
                        /\ \A q \in 1..Len(queued) : rows[a].i < queued[q]
      OBVIOUS
    <3>1. rows[a].i < next /\ \A q \in 1..Len(items) : rows[a].i < items[q]  BY DEF InRowOrder
    <3>2. inHand => rows[a].i < row  BY DEF InRowOrder
    <3>3. \A q \in 1..Len(left) : rows[a].i < queued[q]  BY <3>1, <2>2
    <3>4. rows[a].i \in Int  BY <1>1
    <3>5. \A q \in 1..Len(queued) : rows[a].i < queued[q]  BY <3>1, <3>3, <2>1, <2>4
    <3>6. rows[a].i < next + 1  BY <3>1, <3>4
    <3> QED  BY <3>2, <3>5, <3>6
  <2> QED  BY <2>5, <2>6, <2>7, <2>8 DEF InRowOrder, queued
<1>3. InRowOrder(rows, inHand, row, Append(items, next), next + 1)
  <2>1. \A q \in 1..Len(items) : items[q] = items[q + 0]  OBVIOUS
  <2> QED  BY <2>1, <1>2
<1>4. CASE items = <<>>  BY <1>3, <1>4
<1>5. CASE items # <<>>
  <2>1. Tail(items) \in Seq(Int) /\ Len(Tail(items)) = Len(items) - 1
        /\ \A q \in 1..Len(Tail(items)) : Tail(items)[q] = items[q + 1]
    BY <1>5
  <2> DEFINE left == Tail(items)
  <2>2. left \in Seq(Int) /\ 1 \in 0..1 /\ Len(left) = Len(items) - 1
        /\ \A q \in 1..Len(left) : left[q] = items[q + 1]
    BY <2>1
  <2> HIDE DEF left
  <2>3. InRowOrder(rows, inHand, row, Append(left, next), next + 1)  BY <2>2, <1>2
  <2> QED  BY <2>3, <1>3, <1>5 DEF left
<1> QED  BY <1>3, <1>4, <1>5

\* The application takes the oldest row that waits.
LEMMA ReadInOrder ==
  ASSUME NEW rows \in Rows, Len(rows) = NWin, NEW row \in Int,
         NEW items \in Seq(Int), items # <<>>, NEW next \in Int,
         InRowOrder(rows, FALSE, row, items, next)
  PROVE  InRowOrder(rows, TRUE, Head(items), Tail(items), next)
<1>1. Len(Tail(items)) = Len(items) - 1 /\ Head(items) = items[1] /\ Len(items) \in Nat \ {0}
      /\ \A q \in 1..Len(Tail(items)) : Tail(items)[q] = items[q + 1] /\ q + 1 \in 1..Len(items)
  OBVIOUS
<1>2. 1 \in 1..Len(items)  BY <1>1
<1> QED  BY <1>1, <1>2 DEF InRowOrder

\* The row in hand becomes the window's newest.
LEMMA AppendedInOrder ==
  ASSUME NEW rows \in Rows, Len(rows) = NWin, NEW row \in Int,
         \A j \in 1..NWin : rows[j].k = rows[NWin].k - (NWin - j),
         NEW items \in Seq(Int), NEW next \in Int,
         InRowOrder(rows, TRUE, row, items, next)
  PROVE  InRowOrder(Appended(rows, row), FALSE, row, items, next)
<1> DEFINE new == Appended(rows, row)
<1>1. /\ \A j \in 1..NWin : j < NWin => new[j] = rows[j + 1]
      /\ new[NWin] = [k |-> rows[NWin].k + 1, i |-> row]
  BY AppendedRowsAre
<1>2. new[NWin].i = row  BY <1>1
<1>3. NWin \in Nat \ {0}  BY WindowPositive
<1> HIDE DEF new
<1>4. \A a \in 1..NWin : a = NWin \/ (a < NWin /\ a + 1 \in 1..NWin /\ new[a] = rows[a + 1])
  BY <1>1, <1>3
<1>5. \A a, b \in 1..NWin : a < b /\ new[a].k > 0 => new[a].i < new[b].i
  <2> SUFFICES ASSUME NEW a \in 1..NWin, NEW b \in 1..NWin, a < b, new[a].k > 0
               PROVE  new[a].i < new[b].i
    OBVIOUS
  <2>1. a < NWin /\ a + 1 \in 1..NWin /\ new[a] = rows[a + 1]  BY <1>4, <1>3
  <2>2. CASE b = NWin  BY <2>1, <2>2, <1>2 DEF InRowOrder
  <2>3. CASE b < NWin
    <3>1. b + 1 \in 1..NWin /\ new[b] = rows[b + 1] /\ a + 1 < b + 1  BY <2>3, <1>4, <1>3
    <3> QED  BY <3>1, <2>1 DEF InRowOrder
  <2> QED  BY <2>2, <2>3, <1>3
<1>6. \A a \in 1..NWin : new[a].k > 0 =>
        new[a].i < next /\ \A q \in 1..Len(items) : new[a].i < items[q]
  BY <1>2, <1>4 DEF InRowOrder
<1> QED  BY <1>5, <1>6 DEF InRowOrder, new

LEMMA OrderStep ==
  ASSUME StreamTypes, PhaseInv, WindowInv, RowOrder, [StreamNext]_replayVars
  PROVE  RowOrder'
<1> DEFINE rows == win.rows
           items == readerQueue.items
           next == player.cursor
           inHand == app.pc = "row"
<1>1. rows \in Rows /\ Len(rows) = NWin /\ items \in Seq(Int) /\ next \in Int /\ app.row \in Int
      /\ inHand \in BOOLEAN
  BY WindowPositive DEF StreamTypes, WinTyped, ReaderTyped, PlayerTyped, AppTyped
<1>2. InRowOrder(rows, inHand, app.row, items, next)  BY DEF RowOrder
<1>3. SUFFICES InRowOrder(win'.rows, app'.pc = "row", app'.row, readerQueue'.items, player'.cursor)
  BY DEF RowOrder
<1>4. CASE BuildApps
  <2>1. app' = app /\ win' = win /\ player' = player /\ app.pc = "off" /\ next = 0 /\ NewestRow = 0
    BY <1>4 DEF BuildApps, PhaseInv, WindowInv
  <2>2. \A a \in 1..NWin : rows[a].k <= 0
    BY <2>1, WindowPositive DEF WindowInv
  <2>3. \A j \in 1..Len(readerQueue'.items) : readerQueue'.items[j] = j - 1 - NWin
        /\ readerQueue'.items[j] < 0
    BY BuildReads, <1>4, WindowPositive
  <2>4. \A a \in 1..NWin : ~(rows[a].k > 0)  BY <2>2, RowsAre, <1>1
  <2>5. \A p, q \in 1..Len(readerQueue'.items) : p < q => readerQueue'.items[p] < readerQueue'.items[q]
    BY <2>3, WindowPositive
  <2>6. ~(app'.pc = "row") /\ win'.rows = rows /\ player'.cursor = 0  BY <2>1
  <2> QED  BY <2>3, <2>4, <2>5, <2>6 DEF InRowOrder
<1>5. CASE PlayRow
  <2>1. CASE readerQueue' = readerQueue
    <3>1. player'.cursor = next
      BY <1>5, <2>1 DEF PlayRow, Put, StreamTypes, PlayerTyped, ReaderTyped
    <3> QED  BY <3>1, <2>1, <1>2, <1>5 DEF PlayRow, Played
  <2>2. CASE readerQueue' # readerQueue
    <3>1. InRowOrder(rows, inHand, app.row, Append(items, next), next + 1)
      BY <1>1, <1>2, PlayedInOrder
    <3>2. readerQueue'.items = Append(items, next) /\ player'.cursor = next + 1
      BY <1>5, <2>2, PlayReads
    <3> QED  BY <3>1, <3>2, <1>5 DEF PlayRow, Played
  <2> QED  BY <2>1, <2>2
<1>6. CASE PutDropping
  <2>1. InRowOrder(rows, inHand, app.row,
                   Append(IF items = <<>> THEN <<>> ELSE Tail(items), next), next + 1)
    BY <1>1, <1>2, PlayedInOrder
  <2>2. readerQueue'.items = Append(IF items = <<>> THEN <<>> ELSE Tail(items), next)
        /\ player'.cursor = next + 1
    BY <1>6, DropReads
  <2> QED  BY <2>1, <2>2, <1>6 DEF PutDropping, Played
<1>7. CASE ReadRow
  <2>1. items # <<>> /\ app.pc = "read" /\ app'.pc = "row" /\ app'.row = Head(items)
        /\ readerQueue'.items = Tail(items) /\ win' = win /\ player' = player
    BY <1>7, ReadReads DEF ReadRow, AppStep
  <2>2. InRowOrder(rows, FALSE, app.row, items, next)  BY <1>2, <2>1
  <2>3. InRowOrder(rows, TRUE, Head(items), Tail(items), next)  BY <1>1, <2>1, <2>2, ReadInOrder
  <2> QED  BY <2>1, <2>3
<1>8. CASE AppendRow
  <2>1. win'.rows = Appended(rows, app.row) /\ app.pc = "row" /\ app'.pc = "appended"
        /\ app'.row = app.row /\ readerQueue' = readerQueue /\ player' = player
    BY <1>8, AppendReads DEF AppendRow, AppStep
  <2>2. InRowOrder(rows, TRUE, app.row, items, next)  BY <1>2, <2>1
  <2>3. \A j \in 1..NWin : rows[j].k = rows[NWin].k - (NWin - j)  BY DEF WindowInv, NewestRow
  <2>4. InRowOrder(Appended(rows, app.row), FALSE, app.row, items, next)
    BY <1>1, <2>2, <2>3, AppendedInOrder
  <2> QED  BY <2>1, <2>4
<1>9. ASSUME win'.rows = rows, readerQueue' = readerQueue, player'.cursor = next, app'.row = app.row,
             app'.pc = "row" => inHand
      PROVE  InRowOrder(win'.rows, app'.pc = "row", app'.row, readerQueue'.items, player'.cursor)
  BY <1>9, <1>2 DEF InRowOrder
<1>10. CASE StartPlayer \/ StopHub \/ FinishStop \/ PlayerEnds \/ RunApps
  <2>1. win' = win /\ readerQueue' = readerQueue /\ player'.cursor = next
    BY <1>10
    DEF StartPlayer, StopHub, FinishStop, PlayerEnds, RunApps, Played, StreamTypes, PlayerTyped
  <2>2. app'.row = app.row /\ (app'.pc = "row" => inHand)
    BY <1>10
    DEF StartPlayer, StopHub, FinishStop, PlayerEnds, RunApps, Played, StreamTypes, AppTyped
  <2> QED  BY <1>9, <2>1, <2>2
<1>11. CASE EndOfStream \/ CountRow \/ AppDies
  <2>1. win'.rows = win.rows /\ readerQueue' = readerQueue /\ player' = player
    BY <1>11 DEF EndOfStream, CountRow, AppDies, AppStep, StreamTypes, WinTyped
  <2>2. app'.row = app.row /\ (app'.pc = "row" => inHand)
    BY <1>11 DEF EndOfStream, CountRow, AppDies, StreamTypes, AppTyped
  <2> QED  BY <1>9, <2>1, <2>2
<1>12. CASE UNCHANGED HubVars  BY <1>9, <1>12 DEF HubVars
<1> QED  BY HubSteps, <1>4, <1>5, <1>6, <1>7, <1>8, <1>10, <1>11, <1>12

\* The row played last is the newest of the queue, or the one in hand when the
\* queue is empty, or the newest of the window.
NewestInv ==
  (player.cursor > 0 /\ app.pc # "dead") =>
    IF readerQueue.items # <<>> THEN readerQueue.items[Len(readerQueue.items)] = player.cursor - 1
    ELSE IF app.pc = "row" THEN app.row = player.cursor - 1
    ELSE NewestRow > 0 /\ win.rows[NWin].i = player.cursor - 1

LEMMA NewestStep ==
  ASSUME StreamTypes, PhaseInv, WindowInv, NewestInv, [StreamNext]_replayVars
  PROVE  NewestInv'
<1> DEFINE items == readerQueue.items
           next == player.cursor
<1>1. win.rows \in Rows /\ Len(win.rows) = NWin /\ items \in Seq(Int) /\ next \in Nat /\ app.row \in Int
      /\ win.appended \in Nat /\ NWin \in Nat \ {0}
  BY WindowPositive DEF StreamTypes, WinTyped, ReaderTyped, PlayerTyped, AppTyped
<1>2. CASE BuildApps
  <2>1. player'.cursor = 0  BY <1>2 DEF BuildApps, PhaseInv
  <2> QED  BY <2>1 DEF NewestInv
<1>3. ASSUME NEW left \in Seq(Int), readerQueue'.items = Append(left, next), player'.cursor = next + 1
      PROVE  NewestInv'
  <2>1. Len(left) \in Nat /\ next \in Int  BY <1>1
  <2>2. Append(left, next) # <<>> /\ Len(Append(left, next)) = Len(left) + 1
        /\ Append(left, next)[Len(left) + 1] = next
    BY <2>1
  <2>3. readerQueue'.items # <<>> /\ readerQueue'.items[Len(readerQueue'.items)] = next
    BY <2>2, <1>3
  <2> QED  BY <2>3, <1>3, <1>1 DEF NewestInv
<1>4. CASE PlayRow
  <2>1. CASE readerQueue' = readerQueue
    <3>1. player'.cursor = next
      BY <1>4, <2>1 DEF PlayRow, Put, StreamTypes, PlayerTyped, ReaderTyped
    <3> QED  BY <3>1, <2>1, <1>4 DEF PlayRow, Played, NewestInv, NewestRow
  <2>2. CASE readerQueue' # readerQueue
    <3>1. readerQueue'.items = Append(items, next) /\ player'.cursor = next + 1
      BY <1>4, <2>2, PlayReads
    <3> QED  BY <3>1, <1>1, <1>3
  <2> QED  BY <2>1, <2>2
<1>5. CASE PutDropping
  <2> DEFINE left == IF items = <<>> THEN <<>> ELSE Tail(items)
  <2>1. left \in Seq(Int)
    <3>1. items # <<>> => Tail(items) \in Seq(Int)  BY <1>1
    <3> QED  BY <3>1
  <2>2. readerQueue'.items = Append(left, next) /\ player'.cursor = next + 1
    BY <1>5, DropReads
  <2> HIDE DEF left
  <2> QED  BY <2>1, <2>2, <1>3
<1>6. CASE ReadRow
  <2>1. items # <<>> /\ app.pc = "read" /\ app'.pc = "row" /\ app'.row = Head(items)
        /\ readerQueue'.items = Tail(items) /\ player' = player
    BY <1>6, ReadReads DEF ReadRow, AppStep
  <2>2. next > 0 => items[Len(items)] = next - 1  BY <2>1 DEF NewestInv
  <2>3. Len(Tail(items)) = Len(items) - 1 /\ Head(items) = items[1] /\ Len(items) \in Nat \ {0}
        /\ \A q \in 1..Len(Tail(items)) : Tail(items)[q] = items[q + 1]
    BY <2>1, <1>1
  <2>4. CASE Tail(items) = <<>>
    <3> DEFINE rest == Tail(items)
    <3>1. Len(<<>>) = 0 /\ rest = <<>>  BY <2>4
    <3> HIDE DEF rest
    <3>2. Len(rest) = 0  BY <3>1
    <3>3. Len(items) = 1  BY <2>3, <3>2 DEF rest
    <3> QED  BY <3>3, <2>1, <2>2, <2>3, <2>4 DEF NewestInv
  <2>5. CASE Tail(items) # <<>>
    <3>1. Tail(items) \in Seq(Int)  BY <2>1, <1>1
    <3>2. Len(items) - 1 \in 1..Len(Tail(items))  BY <2>3, <2>5, <3>1
    <3>3. Tail(items)[Len(items) - 1] = items[Len(items)]  BY <2>3, <3>2
    <3> QED  BY <3>3, <2>1, <2>2, <2>3, <2>5 DEF NewestInv
  <2> QED  BY <2>4, <2>5
<1>7. CASE AppendRow
  <2>1. win'.rows = Appended(win.rows, app.row) /\ app.pc = "row" /\ app'.pc = "appended"
        /\ app'.row = app.row /\ readerQueue' = readerQueue /\ player' = player
    BY <1>7, AppendReads DEF AppendRow, AppStep
  <2>2. win'.rows[NWin] = [k |-> win.rows[NWin].k + 1, i |-> app.row]
    BY <2>1, <1>1, AppendedRowsAre
  <2>3. win'.rows[NWin].k = win.rows[NWin].k + 1 /\ win'.rows[NWin].i = app.row  BY <2>2
  <2>4. win.rows[NWin].k = win.appended  BY <2>1, <1>1 DEF WindowInv, NewestRow
  <2>5. NewestRow' = NewestRow + 1 /\ NewestRow' > 0  BY <2>3, <2>4, <1>1 DEF NewestRow
  <2> QED  BY <2>1, <2>3, <2>5 DEF NewestInv
<1>8. CASE AppDies
  <2>1. app'.pc = "dead"  BY <1>8 DEF AppDies, StreamTypes, AppTyped
  <2> QED  BY <2>1 DEF NewestInv
<1>9. ASSUME win'.rows = win.rows, readerQueue' = readerQueue, player'.cursor = next, app'.row = app.row,
             app'.pc = "row" <=> app.pc = "row", app'.pc = "dead" <=> app.pc = "dead"
      PROVE  NewestInv'
  BY <1>9 DEF NewestInv, NewestRow
<1>10. CASE StartPlayer \/ StopHub \/ FinishStop \/ PlayerEnds \/ RunApps
  <2>1. win' = win /\ readerQueue' = readerQueue /\ player'.cursor = next
    BY <1>10
    DEF StartPlayer, StopHub, FinishStop, PlayerEnds, RunApps, Played, StreamTypes, PlayerTyped
  <2>2. app'.row = app.row /\ (app'.pc = "row" <=> app.pc = "row") /\ (app'.pc = "dead" <=> app.pc = "dead")
    BY <1>10
    DEF StartPlayer, StopHub, FinishStop, PlayerEnds, RunApps, Played, StreamTypes, AppTyped, PhaseInv
  <2> QED  BY <1>9, <2>1, <2>2
<1>11. CASE EndOfStream \/ CountRow
  <2>1. win'.rows = win.rows /\ readerQueue' = readerQueue /\ player' = player
    BY <1>11 DEF EndOfStream, CountRow, AppStep, StreamTypes, WinTyped
  <2>2. app'.row = app.row /\ (app'.pc = "row" <=> app.pc = "row") /\ (app'.pc = "dead" <=> app.pc = "dead")
    BY <1>11 DEF EndOfStream, CountRow, StreamTypes, AppTyped
  <2> QED  BY <1>9, <2>1, <2>2
<1>12. CASE UNCHANGED HubVars  BY <1>9, <1>12 DEF HubVars
<1> QED  BY HubSteps, <1>2, <1>4, <1>5, <1>6, <1>7, <1>8, <1>10, <1>11, <1>12

\* How many rows the window holds, and how many there are with those on their
\* way to it.
Appends == IF NewestRow < NWin THEN NewestRow ELSE NWin
OnTheWay == (IF app.pc = "row" THEN 1 ELSE 0) + Len(readerQueue.items)

\* Until the hub stops, an application that replays a loop never has less than
\* a window before it, and its queue keeps room for one.
PrefillInv ==
  (player.loop /\ hub \in {"built", "apps", "running"} /\ app.pc # "dead") =>
    NWin <= readerQueue.max /\ NWin <= Appends + OnTheWay

LEMMA PrefillStep ==
  ASSUME StreamTypes, PhaseInv, WindowInv, PrefillInv, [StreamNext]_replayVars
  PROVE  PrefillInv'
<1> DEFINE items == readerQueue.items
<1>1. win.rows \in Rows /\ Len(win.rows) = NWin /\ items \in Seq(Int) /\ Len(items) \in Nat
      /\ app.row \in Int /\ win.appended \in Nat /\ NWin \in Nat \ {0} /\ readerQueue.max \in Nat
      /\ NewestRow \in Nat
  <2>1. win.rows \in Rows /\ Len(win.rows) = NWin /\ items \in Seq(Int) /\ readerQueue.max \in Nat
        /\ win.appended \in Nat /\ app.row \in Int
    BY DEF StreamTypes, WinTyped, ReaderTyped, AppTyped
  <2>2. NewestRow \in Nat  BY <2>1 DEF WindowInv
  <2> QED  BY <2>1, <2>2, WindowPositive
<1>2. CASE BuildApps
  <2>1. NWin <= Len(readerQueue'.items) \/ ~player.loop  BY <1>2, BuildReads, <1>1
  <2>2. Len(readerQueue'.items) <= readerQueue'.max /\ readerQueue'.items \in Seq(Int)
        /\ readerQueue'.max \in Nat
    BY <1>2, BuildReads
  <2>3. player' = player /\ win' = win /\ app' = app  BY <1>2 DEF BuildApps
  <2>4. NewestRow' = NewestRow /\ app'.pc # "row"  BY <2>3, <1>2 DEF NewestRow, BuildApps, PhaseInv
  <2>5. Len(readerQueue'.items) \in Nat  BY <2>2
  <2>6. Appends' \in Nat  BY <2>4, <1>1 DEF Appends
  <2>7. OnTheWay' = Len(readerQueue'.items)  BY <2>4, <2>5 DEF OnTheWay
  <2>8. player.loop => NWin <= readerQueue'.max /\ NWin <= Appends' + OnTheWay'
    BY <2>1, <2>2, <2>5, <2>6, <2>7, <1>1, SMTT(30)
  <2> QED  BY <2>3, <2>8 DEF PrefillInv
<1>3. ASSUME readerQueue'.max = readerQueue.max, readerQueue'.items \in Seq(Int),
             Len(items) <= Len(readerQueue'.items), win'.rows = win.rows, app' = app, hub' = hub,
             player'.loop = player.loop
      PROVE  PrefillInv'
  <2>1. Len(readerQueue'.items) \in Nat  BY <1>3
  <2>2. Appends' = Appends /\ Appends \in Nat  BY <1>3, <1>1 DEF Appends, NewestRow
  <2> DEFINE inHand == IF app.pc = "row" THEN 1 ELSE 0
  <2>3. inHand \in Nat /\ OnTheWay = inHand + Len(items)
        /\ OnTheWay' = inHand + Len(readerQueue'.items)
    BY <1>3 DEF OnTheWay
  <2> HIDE DEF inHand
  <2>4. \A n, a, h, x, y \in Nat : x <= y /\ n <= a + (h + x) => n <= a + (h + y)  OBVIOUS
  <2>5. NWin <= Appends + OnTheWay => NWin <= Appends' + OnTheWay'
    <3>1. NWin \in Nat /\ Len(items) \in Nat  BY <1>1
    <3> QED  BY <2>1, <2>2, <2>3, <2>4, <3>1, <1>3
  <2> QED  BY <2>5, <1>3 DEF PrefillInv
<1>4. CASE PlayRow
  <2>1. CASE readerQueue' = readerQueue
    <3>1. player'.loop = player.loop
      BY <1>4 DEF PlayRow, StreamTypes, PlayerTyped
    <3> QED  BY <3>1, <2>1, <1>1, <1>3, <1>4 DEF PlayRow, Played
  <2>2. CASE readerQueue' # readerQueue
    <3>1. readerQueue' = [items |-> Append(items, player.cursor), max |-> readerQueue.max]
          /\ player'.loop = player.loop
      BY <1>4, <2>2, PlayReads
    <3>2. player.cursor \in Int  BY WindowPositive DEF StreamTypes, PlayerTyped
    <3>3. Append(items, player.cursor) \in Seq(Int)
          /\ Len(items) <= Len(Append(items, player.cursor))
      BY <3>2, <1>1
    <3> QED  BY <3>1, <3>3, <1>3, <1>4 DEF PlayRow, Played
  <2> QED  BY <2>1, <2>2
<1>5. CASE PutDropping
  <2> DEFINE left == IF items = <<>> THEN <<>> ELSE Tail(items)
  <2>1. left \in Seq(Int) /\ Len(items) <= Len(left) + 1
    <3>1. CASE items = <<>>  BY <3>1, <1>1
    <3>2. CASE items # <<>>  BY <3>2, <1>1
    <3> QED  BY <3>1, <3>2
  <2>2. readerQueue' = [items |-> Append(left, player.cursor), max |-> readerQueue.max]
        /\ player'.loop = player.loop
    BY <1>5, DropReads
  <2>3. player.cursor \in Int  BY WindowPositive DEF StreamTypes, PlayerTyped
  <2> HIDE DEF left
  <2>4. Append(left, player.cursor) \in Seq(Int) /\ Len(Append(left, player.cursor)) = Len(left) + 1
    BY <2>1, <2>3
  <2> QED  BY <2>1, <2>2, <2>4, <1>3, <1>5 DEF PutDropping, Played
<1>6. CASE ReadRow
  <2>1. items # <<>> /\ app.pc = "read" /\ app'.pc = "row" /\ readerQueue'.items = Tail(items)
        /\ readerQueue'.max = readerQueue.max /\ player' = player /\ win' = win /\ hub' = hub
    BY <1>6, ReadReads DEF ReadRow, AppStep
  <2>2. Len(Tail(items)) = Len(items) - 1  BY <2>1, <1>1
  <2> QED  BY <2>1, <2>2, <1>1 DEF PrefillInv, Appends, OnTheWay, NewestRow
<1>7. CASE AppendRow
  <2>1. win'.rows = Appended(win.rows, app.row) /\ app.pc = "row" /\ app'.pc = "appended"
        /\ readerQueue' = readerQueue /\ player' = player /\ hub' = hub
    BY <1>7, AppendReads DEF AppendRow, AppStep
  <2>2. win'.rows[NWin] = [k |-> win.rows[NWin].k + 1, i |-> app.row]
    BY <2>1, <1>1, AppendedRowsAre
  <2>3. NewestRow' = NewestRow + 1  BY <2>2 DEF NewestRow
  <2>4. OnTheWay = Len(items) + 1 /\ OnTheWay' = Len(items)  BY <2>1, <1>1 DEF OnTheWay
  <2>5. \A n, k, x \in Nat :
          n <= (IF k < n THEN k ELSE n) + (x + 1) => n <= (IF k + 1 < n THEN k + 1 ELSE n) + x
    OBVIOUS
  <2>6. Appends = (IF NewestRow < NWin THEN NewestRow ELSE NWin)
        /\ Appends' = (IF NewestRow + 1 < NWin THEN NewestRow + 1 ELSE NWin)
    BY <2>3 DEF Appends
  <2>7. NWin <= Appends + OnTheWay => NWin <= Appends' + OnTheWay'
    <3>1. NWin \in Nat /\ Len(items) \in Nat /\ NewestRow \in Nat  BY <1>1
    <3> QED  BY <2>4, <2>5, <2>6, <3>1
  <2> QED  BY <2>1, <2>7, <1>1 DEF PrefillInv, StreamTypes, AppTyped
<1>8. CASE AppDies
  <2>1. app'.pc = "dead"  BY <1>8 DEF AppDies, StreamTypes, AppTyped
  <2> QED  BY <2>1 DEF PrefillInv
<1>9. ASSUME win'.rows = win.rows, readerQueue' = readerQueue, player'.loop = player.loop,
             app'.pc = "row" <=> app.pc = "row", app'.pc = "dead" <=> app.pc = "dead",
             hub' \in {"built", "apps", "running"} => hub \in {"built", "apps", "running"}
      PROVE  PrefillInv'
  BY <1>9 DEF PrefillInv, Appends, OnTheWay, NewestRow
<1>10. CASE StartPlayer \/ StopHub \/ FinishStop \/ PlayerEnds \/ RunApps
  <2>1. win' = win /\ readerQueue' = readerQueue /\ player'.loop = player.loop
    BY <1>10
    DEF StartPlayer, StopHub, FinishStop, PlayerEnds, RunApps, Played, StreamTypes, PlayerTyped
  <2>2. (app'.pc = "row" <=> app.pc = "row") /\ (app'.pc = "dead" <=> app.pc = "dead")
    BY <1>10
    DEF StartPlayer, StopHub, FinishStop, PlayerEnds, RunApps, Played, StreamTypes, AppTyped, PhaseInv
  <2>3. hub' \in {"built", "apps", "running"} => hub \in {"built", "apps", "running"}
    BY <1>10 DEF StartPlayer, StopHub, FinishStop, PlayerEnds, RunApps, Played
  <2> QED  BY <1>9, <2>1, <2>2, <2>3
<1>11. CASE EndOfStream \/ CountRow
  <2>1. win'.rows = win.rows /\ readerQueue' = readerQueue /\ player' = player /\ hub' = hub
    BY <1>11 DEF EndOfStream, CountRow, AppStep, StreamTypes, WinTyped
  <2>2. (app'.pc = "row" <=> app.pc = "row") /\ (app'.pc = "dead" <=> app.pc = "dead")
    BY <1>11 DEF EndOfStream, CountRow, StreamTypes, AppTyped
  <2> QED  BY <1>9, <2>1, <2>2
<1>12. CASE UNCHANGED HubVars  BY <1>9, <1>12 DEF HubVars
<1> QED  BY HubSteps, <1>2, <1>4, <1>5, <1>6, <1>7, <1>8, <1>10, <1>11, <1>12

-----------------------------------------------------------------------------
(* What is on its way, as one sequence *)

Rises(s) == \A i, j \in 1..Len(s) : i < j => s[i] < s[j]

LEMMA JoinedRises ==
  ASSUME NEW s \in Seq(Int), NEW t \in Seq(Int), Rises(s), Rises(t),
         \A i \in 1..Len(s), j \in 1..Len(t) : s[i] < t[j]
  PROVE  s \o t \in Seq(Int) /\ Len(s \o t) = Len(s) + Len(t) /\ Rises(s \o t)
<1> DEFINE st == s \o t
<1>1. st \in Seq(Int) /\ Len(st) = Len(s) + Len(t) /\ Len(s) \in Nat /\ Len(t) \in Nat  OBVIOUS
<1>2. /\ \A i \in 1..Len(s) : st[i] = s[i]
      /\ \A i \in 1..Len(st) : i > Len(s) => st[i] = t[i - Len(s)] /\ i - Len(s) \in 1..Len(t)
  OBVIOUS
<1> HIDE DEF st
<1>3. ASSUME NEW i \in 1..Len(st), NEW j \in 1..Len(st), i < j  PROVE st[i] < st[j]
  <2>1. CASE j <= Len(s)
    <3>1. i \in 1..Len(s) /\ j \in 1..Len(s)  BY <2>1, <1>3, <1>1
    <3> QED  BY <3>1, <1>2, <1>3 DEF Rises
  <2>2. CASE i <= Len(s) /\ j > Len(s)
    <3>1. i \in 1..Len(s) /\ j - Len(s) \in 1..Len(t) /\ st[j] = t[j - Len(s)]  BY <2>2, <1>1, <1>2
    <3>2. st[i] = s[i]  BY <3>1, <1>2
    <3>3. s[i] < t[j - Len(s)]  BY <3>1
    <3> QED  BY <3>1, <3>2, <3>3
  <2>3. CASE i > Len(s)
    <3>1. j > Len(s)  BY <2>3, <1>3, <1>1
    <3>2. st[i] = t[i - Len(s)] /\ i - Len(s) \in 1..Len(t)  BY <2>3, <1>2
    <3>3. st[j] = t[j - Len(s)] /\ j - Len(s) \in 1..Len(t)  BY <3>1, <1>2
    <3>4. i - Len(s) < j - Len(s)  BY <1>3, <1>1
    <3>5. t[i - Len(s)] < t[j - Len(s)]  BY <3>2, <3>3, <3>4 DEF Rises
    <3> QED  BY <3>2, <3>3, <3>5
  <2>4. i \in Int /\ j \in Int  BY <1>1
  <2>5. j <= Len(s) \/ (i <= Len(s) /\ j > Len(s)) \/ i > Len(s)  BY <2>4, <1>1, SMTT(30)
  <2> QED  BY <2>1, <2>2, <2>3, <2>5, Zenon
<1> QED  BY <1>1, <1>3 DEF st, Rises

LEMMA ArrivedIs ==
  ASSUME StreamTypes, WindowInv
  PROVE  /\ Appends \in Nat /\ Appends <= NWin /\ Len(Arrived) = Appends
         /\ \A j \in 1..Appends :
              /\ NWin - Appends + j \in 1..NWin
              /\ Arrived[j] = win.rows[NWin - Appends + j]
              /\ win.rows[NWin - Appends + j].k > 0
         /\ Arrived \in Rows
<1>1. win.rows \in Seq([k : Int, i : Int]) /\ Len(win.rows) = NWin /\ NWin \in Nat \ {0}
      /\ win.appended \in Nat
  BY WindowPositive DEF StreamTypes, WinTyped, Rows
<1>2. NewestRow \in Nat  BY <1>1, SMTT(30) DEF WindowInv
<1>3. Last(win.rows).k = NewestRow  BY <1>1 DEF Last, NewestRow
<1>4. Arrived = Newest(win.rows, NewestRow)  BY <1>3 DEF Arrived
<1> HIDE DEF NewestRow
<1>5. /\ Arrived \in Seq([k : Int, i : Int])
      /\ Len(Arrived) = IF NWin > NewestRow THEN NewestRow ELSE NWin
      /\ \A j \in 1..Len(Arrived) : Arrived[j] = win.rows[NWin - Len(Arrived) + j]
  BY <1>1, <1>2, <1>4, NewestRowsAre, ZenonT(60)
<1>6. Len(Arrived) = Appends /\ Appends \in Nat /\ Appends <= NWin /\ Appends <= NewestRow
  BY <1>5, <1>1, <1>2 DEF Appends
<1>7. ASSUME NEW j \in 1..Appends
      PROVE  NWin - Appends + j \in 1..NWin /\ win.rows[NWin - Appends + j].k > 0
  <2> DEFINE a == NWin - Appends + j
  <2>1. a \in 1..NWin /\ NWin - a = Appends - j  BY <1>6, <1>1
  <2>2. win.rows[a].k = NewestRow - (NWin - a)  BY <2>1 DEF WindowInv
  <2>3. win.rows[a].k > 0  BY <2>1, <2>2, <1>6, <1>2
  <2> QED  BY <2>1, <2>3
<1> QED  BY <1>5, <1>6, <1>7 DEF Rows

\* What is coming: the rows of the window, the row in hand and the queue.
WindowPart == [j \in DOMAIN Arrived |-> Arrived[j].i]
HandPart == IF app.pc = "row" THEN <<app.row>> ELSE <<>>

LEMMA PartsAre ==
  ASSUME StreamTypes, WindowInv
  PROVE  /\ WindowPart \in Seq(Int) /\ Len(WindowPart) = Appends
         /\ \A j \in 1..Appends : WindowPart[j] = win.rows[NWin - Appends + j].i
         /\ HandPart \in Seq(Int) /\ Len(HandPart) = IF app.pc = "row" THEN 1 ELSE 0
         /\ app.pc = "row" => HandPart[1] = app.row
         /\ readerQueue.items \in Seq(Int)
<1>1. DOMAIN Arrived = 1..Appends
  BY ArrivedIs DEF Rows
<1>2. \A j \in 1..Appends : WindowPart[j] = win.rows[NWin - Appends + j].i /\ WindowPart[j] \in Int
  <2>1. win.rows \in Rows /\ Len(win.rows) = NWin  BY DEF StreamTypes, WinTyped
  <2> QED  BY <1>1, <2>1, ArrivedIs, RowsAre DEF WindowPart
<1>3. WindowPart = [j \in 1..Appends |-> Arrived[j].i]  BY <1>1 DEF WindowPart
<1>4. WindowPart \in [1..Appends -> Int]  BY <1>2, <1>3
<1>5. \A S, s, m : m \in Nat /\ s \in [1..m -> S] => s \in Seq(S) /\ Len(s) = m  BY SeqDef
<1>6. WindowPart \in Seq(Int) /\ Len(WindowPart) = Appends  BY <1>4, <1>5, ArrivedIs
<1>7. app.row \in Int /\ readerQueue.items \in Seq(Int)  BY DEF StreamTypes, AppTyped, ReaderTyped
<1>8. HandPart \in Seq(Int) /\ Len(HandPart) = (IF app.pc = "row" THEN 1 ELSE 0)
      /\ (app.pc = "row" => HandPart[1] = app.row)
  BY <1>7 DEF HandPart
<1> QED  BY <1>2, <1>6, <1>7, <1>8

LEMMA ComingRises ==
  ASSUME StreamTypes, WindowInv, RowOrder
  PROVE  /\ Coming \in Seq(Int)
         /\ Len(Coming) = Appends + OnTheWay
         /\ Rises(Coming)
<1> DEFINE first == WindowPart \o HandPart
<1>1. /\ WindowPart \in Seq(Int) /\ Len(WindowPart) = Appends /\ Appends \in Nat
      /\ HandPart \in Seq(Int) /\ Len(HandPart) = (IF app.pc = "row" THEN 1 ELSE 0)
      /\ readerQueue.items \in Seq(Int)
  BY PartsAre, ArrivedIs
<1>2. \A j \in 1..Appends : /\ NWin - Appends + j \in 1..NWin
                            /\ WindowPart[j] = win.rows[NWin - Appends + j].i
                            /\ win.rows[NWin - Appends + j].k > 0
  BY PartsAre, ArrivedIs
<1>3. NWin \in Nat  BY WindowPositive
<1>4. Rises(WindowPart)
  <2> SUFFICES ASSUME NEW i \in 1..Appends, NEW j \in 1..Appends, i < j
               PROVE  WindowPart[i] < WindowPart[j]
    BY <1>1 DEF Rises
  <2>1. NWin - Appends + i < NWin - Appends + j  BY <1>1, <1>3
  <2> QED  BY <2>1, <1>2 DEF RowOrder, InRowOrder
<1>5. Rises(HandPart)  BY <1>1 DEF Rises
<1>6. \A i \in 1..Len(WindowPart), j \in 1..Len(HandPart) : WindowPart[i] < HandPart[j]
  <2> SUFFICES ASSUME NEW i \in 1..Appends, NEW j \in 1..Len(HandPart)
               PROVE  WindowPart[i] < HandPart[j]
    BY <1>1
  <2>1. app.pc = "row" /\ j = 1 /\ HandPart[1] = app.row  BY <1>1, PartsAre
  <2> QED  BY <2>1, <1>2 DEF RowOrder, InRowOrder
<1>7. first \in Seq(Int) /\ Len(first) = Len(WindowPart) + Len(HandPart) /\ Rises(first)
  BY <1>1, <1>4, <1>5, <1>6, JoinedRises
<1>8. Rises(readerQueue.items)  BY DEF RowOrder, InRowOrder, Rises
<1>9. \A i \in 1..Len(first), j \in 1..Len(readerQueue.items) : first[i] < readerQueue.items[j]
  <2> SUFFICES ASSUME NEW i \in 1..Len(first), NEW j \in 1..Len(readerQueue.items)
               PROVE  first[i] < readerQueue.items[j]
    OBVIOUS
  <2>1. CASE i \in 1..Appends
    <3>1. first[i] = WindowPart[i]  BY <2>1, <1>1
    <3> QED  BY <3>1, <2>1, <1>2 DEF RowOrder, InRowOrder
  <2>2. CASE i \notin 1..Appends
    <3>1. app.pc = "row" /\ i = Appends + 1  BY <2>2, <1>1, <1>7
    <3>2. ASSUME NEW s \in Seq(Int), NEW t \in Seq(Int), Len(t) = 1
          PROVE  (s \o t)[Len(s) + 1] = t[1]
      <4>1. Len(s) \in Nat /\ Len(s) + 1 \in 1..(Len(s) + Len(t)) /\ Len(s) + 1 > Len(s)  BY <3>2
      <4>2. \A k \in 1..(Len(s) + Len(t)) : k > Len(s) => (s \o t)[k] = t[k - Len(s)]  OBVIOUS
      <4>3. (Len(s) + 1) - Len(s) = 1  BY <4>1
      <4> QED  BY <4>1, <4>2, <4>3
    <3>3. Len(HandPart) = 1  BY <3>1, <1>1
    <3>4. first[i] = HandPart[1]  BY <3>1, <3>2, <3>3, <1>1
    <3>5. first[i] = app.row  BY <3>1, <3>4, PartsAre
    <3> QED  BY <3>1, <3>5 DEF RowOrder, InRowOrder
  <2> QED  BY <2>1, <2>2
<1>10. Coming = first \o readerQueue.items  BY DEF Coming, WindowPart, HandPart
<1> HIDE DEF first
<1>11. first \o readerQueue.items \in Seq(Int) /\ Rises(first \o readerQueue.items)
       /\ Len(first \o readerQueue.items) = Len(first) + Len(readerQueue.items)
  BY <1>1, <1>7, <1>8, <1>9, JoinedRises
<1>12. Len(Coming) = Appends + OnTheWay
  <2>1. Len(readerQueue.items) \in Nat /\ Len(HandPart) \in Nat  BY <1>1
  <2>2. OnTheWay = Len(HandPart) + Len(readerQueue.items)  BY <1>1 DEF OnTheWay
  <2>3. \A a, h, q \in Nat : (a + h) + q = a + (h + q)  OBVIOUS
  <2>4. Len(Coming) = (Appends + Len(HandPart)) + Len(readerQueue.items)  BY <1>1, <1>7, <1>10, <1>11
  <2> QED  BY <2>1, <2>2, <2>3, <2>4, <1>1, ZenonT(60)
<1> QED  BY <1>10, <1>11, <1>12

\* Time goes by twice the index: whole passes count.
LEMMA TimeIs == ASSUME NEW i \in Int  PROVE TimeAt(i) = 2 * i
<1>1. NRec \in Nat \ {0}  BY WindowPositive
<1>2. \A j \in Int, n \in Nat \ {0} : j = (n * (j \div n)) + (j % n)  BY SMT
<1>3. i \div NRec \in Int /\ i % NRec \in Int  BY <1>1
<1>4. TimeAt(i) = (i \div NRec) * (2 * (NRec - 1) + 2) + 2 * (i % NRec)
  BY DEF TimeAt, Duration, RecTime
<1>5. \A q, r, n \in Int : q * (2 * (n - 1) + 2) + 2 * r = 2 * ((n * q) + r)  BY SMT
<1>6. i = (NRec * (i \div NRec)) + (i % NRec)  BY <1>1, <1>2
<1>7. PICK q \in Int, r \in Int : q = i \div NRec /\ r = i % NRec  BY <1>3
<1>8. TimeAt(i) = 2 * ((NRec * q) + r)
  <2>1. TimeAt(i) = q * (2 * (NRec - 1) + 2) + 2 * r  BY <1>4, <1>7
  <2>2. NRec \in Int  BY <1>1
  <2> QED  BY <2>1, <2>2, <1>5
<1> QED  BY <1>6, <1>7, <1>8

LEMMA TimeFollows ==
  ASSUME StreamTypes, WindowInv, RowOrder
  PROVE  TimeMovesForward
<1> SUFFICES ASSUME NEW j \in 1..(Len(Coming) - 1)
             PROVE  TimeAt(Coming[j]) < TimeAt(Coming[j + 1])
  BY DEF TimeMovesForward
<1>1. Coming \in Seq(Int) /\ Rises(Coming)  BY ComingRises
<1>2. j \in 1..Len(Coming) /\ j + 1 \in 1..Len(Coming) /\ j < j + 1  BY <1>1
<1>3. Coming[j] < Coming[j + 1] /\ Coming[j] \in Int /\ Coming[j + 1] \in Int  BY <1>1, <1>2 DEF Rises
<1>4. TimeAt(Coming[j]) = 2 * Coming[j] /\ TimeAt(Coming[j + 1]) = 2 * Coming[j + 1]  BY <1>3, TimeIs
<1> QED  BY <1>3, <1>4

LEMMA PrefillFollows ==
  ASSUME StreamTypes, WindowInv, RowOrder, PrefillInv
  PROVE  PrefillIsWhole
BY ComingRises DEF PrefillInv, PrefillIsWhole

LEMMA NewestFollows ==
  ASSUME StreamTypes, WindowInv, RowOrder, NewestInv
  PROVE  NewestIsKept
<1> SUFFICES ASSUME player.cursor > 0, app.pc # "dead"  PROVE Last(Coming) = player.cursor - 1
  BY DEF NewestIsKept
<1> DEFINE first == WindowPart \o HandPart
<1>1. /\ WindowPart \in Seq(Int) /\ Len(WindowPart) = Appends /\ Appends \in Nat
      /\ HandPart \in Seq(Int) /\ Len(HandPart) = (IF app.pc = "row" THEN 1 ELSE 0)
      /\ readerQueue.items \in Seq(Int)
  BY PartsAre, ArrivedIs
<1>2. Coming = first \o readerQueue.items  BY DEF Coming, WindowPart, HandPart
<1>3. \A s, t \in Seq(Int) : t # <<>> => Last(s \o t) = t[Len(t)]
  BY DEF Last
<1>4. \A s, t \in Seq(Int) : t = <<>> => s \o t = s  OBVIOUS
<1>5. first \in Seq(Int)  BY <1>1
<1>6. CASE readerQueue.items # <<>>
  BY <1>1, <1>2, <1>3, <1>5, <1>6 DEF NewestInv
<1>7. CASE readerQueue.items = <<>> /\ app.pc = "row"
  <2>1. Coming = first  BY <1>1, <1>2, <1>4, <1>5, <1>7
  <2>2. HandPart # <<>> /\ HandPart[Len(HandPart)] = app.row
    <3>1. Len(HandPart) = 1  BY <1>1, <1>7
    <3>2. HandPart[1] = app.row  BY <1>7, PartsAre
    <3>3. HandPart # <<>>  BY <3>1
    <3> QED  BY <3>1, <3>2, <3>3
  <2>3. Last(first) = app.row  BY <2>2, <1>1, <1>3
  <2> QED  BY <2>1, <2>3, <1>7 DEF NewestInv
<1>8. CASE readerQueue.items = <<>> /\ app.pc # "row"
  <2>1. HandPart = <<>>  BY <1>8 DEF HandPart
  <2>2. Coming = WindowPart  BY <2>1, <1>1, <1>2, <1>4, <1>5, <1>8
  <2>3. NewestRow > 0 /\ win.rows[NWin].i = player.cursor - 1  BY <1>8 DEF NewestInv
  <2>4. Appends \in 1..NWin
    BY <2>3, <1>1, ArrivedIs, WindowPositive DEF Appends
  <2>5. WindowPart[Appends] = win.rows[NWin - Appends + Appends].i  BY <2>4, PartsAre
  <2>6. NWin - Appends + Appends = NWin  BY <2>4, WindowPositive
  <2> QED  BY <2>2, <2>3, <2>5, <2>6, <1>1 DEF Last
<1> QED  BY <1>6, <1>7, <1>8

(***************************************************************************)
(* RecordedStream: the page's slices and the browser's buffer              *)
(***************************************************************************)

BufferRow == [k : Int, sel : Selections]
NewestOf(rows) == rows[Len(rows)].k
Steady(rows) == \A j \in 1..(Len(rows) - 1) : rows[j + 1].k - rows[j].k \in 0..2
OfChannels(rows, sel) == \A j \in 1..Len(rows) : rows[j].sel = sel

\* A slice: some rows of a window, in a row.
GoodSlice(m) ==
  /\ Len(m.rows) \in 1..NWin
  /\ \A j \in 1..(Len(m.rows) - 1) : m.rows[j + 1].k = m.rows[j].k + 1
SlicesInv == \A j \in 1..Len(wire) : GoodSlice(wire[j])

\* What the browser shows after slice j: the channels, and the newest row.
SelSeen(j) == IF j = 0 THEN buf.sel ELSE wire[j].sel
RowSeen(j) == IF j = 0 THEN NewestOf(buf.rows) ELSE NewestOf(wire[j].rows)

\* A slice that is not a full one goes on from the one before, or from the
\* buffer, which holds something.
ChainInv ==
  \A j \in 1..Len(wire) : ~wire[j].full =>
    /\ j = 1 => buf.rows # <<>>
    /\ wire[j].sel = SelSeen(j - 1)
    /\ wire[j].rows[1].k - RowSeen(j - 1) \in 0..2

\* A page that is to be sent no full slice next was sent the rows counted so
\* far, and at most one more.
PageInv ==
  /\ ~page.open => wire = <<>>
  /\ page.open => page.last <= win.appended
  /\ page.open /\ ~page.full =>
       /\ wire = <<>> => buf.rows # <<>>
       /\ page.sel = SelSeen(Len(wire))
       /\ RowSeen(Len(wire)) - page.last \in 0..1

BufferInv ==
  /\ buf.rows # <<>> => buf.cap = NWin
  /\ OfChannels(buf.rows, buf.sel)
  /\ Steady(buf.rows)

LEMMA PageIs ==
  ASSUME StreamTypes, page.open
  PROVE  /\ page.sel \in Selections /\ page.last \in Nat /\ page.full \in BOOLEAN
         /\ page \in [open : {TRUE}, sel : Selections, last : Nat, full : BOOLEAN]
<1>1. page \in [open : {TRUE}, sel : Selections, last : Nat, full : BOOLEAN]
  <2>1. page = NoPage \/ page \in [open : {TRUE}, sel : Selections, last : Nat, full : BOOLEAN]
    BY DEF StreamTypes, PageTyped
  <2>2. NoPage.open = FALSE  BY DEF NoPage
  <2> QED  BY <2>1, <2>2
<1> QED  BY <1>1

LEMMA SlicesAre ==
  ASSUME StreamTypes, NEW j \in 1..Len(wire)
  PROVE  /\ wire[j] \in Slice /\ wire[j].full \in BOOLEAN /\ wire[j].sel \in Selections
         /\ wire[j].rows \in Rows
<1>1. \A S : \A s \in Seq(S) : \A i \in 1..Len(s) : s[i] \in S  OBVIOUS
<1>2. wire[j] \in Slice  BY <1>1 DEF StreamTypes, WireTyped
<1> QED  BY <1>2 DEF Slice, Rows

LEMMA RowsAreRows ==
  ASSUME NEW rows \in Rows, NEW a \in 1..Len(rows)
  PROVE  rows[a] \in [k : Int, i : Int] /\ rows[a].k \in Int /\ rows[a].i \in Int
<1>1. \A S : \A s \in Seq(S) : \A j \in 1..Len(s) : s[j] \in S  OBVIOUS
<1>2. rows[a] \in [k : Int, i : Int]  BY <1>1 DEF Rows
<1> QED  BY <1>2

\* What a tick sends: the window's newest rows, the whole of it or as many as
\* were counted since the last slice.
LEMMA NextSliceIs ==
  ASSUME StreamTypes, WindowInv, PageInv, page.open, SendFull \/ NewRows > 0
  PROVE  /\ NextSlice \in Slice /\ NextSlice.sel = page.sel /\ NextSlice.full = SendFull
         /\ GoodSlice(NextSlice)
         /\ NewestOf(NextSlice.rows) = NewestRow
         /\ ~SendFull => NextSlice.rows[1].k = NewestRow - NewRows + 1
<1> DEFINE n == IF SendFull THEN NWin ELSE NewRows
           rows == Newest(win.rows, n)
<1>1. /\ win.rows \in Rows /\ win.rows \in Seq([k : Int, i : Int]) /\ Len(win.rows) = NWin
      /\ win.appended \in Nat /\ NWin \in Nat \ {0}
  BY WindowPositive DEF StreamTypes, WinTyped, Rows
<1>2. page.last \in Nat /\ page.last <= win.appended /\ page.sel \in Selections
      /\ page.full \in BOOLEAN
  BY PageIs DEF PageInv
<1>3. NewRows \in Nat  BY <1>1, <1>2 DEF NewRows
<1>4. n \in 1..NWin
  <2>1. CASE SendFull  BY <2>1, <1>1
  <2>2. CASE ~SendFull
    <3>1. NewRows > 0 /\ ~(NewRows >= NWin)  BY <2>2 DEF SendFull
    <3> QED  BY <3>1, <2>2, <1>1, <1>3
  <2> QED  BY <2>1, <2>2
<1>5. NextSlice = [full |-> SendFull, sel |-> page.sel, rows |-> rows]
  BY DEF NextSlice, NewestRows
<1>6. SendFull \in BOOLEAN  BY DEF SendFull
<1>7. ~SendFull => n = NewRows  OBVIOUS
<1> HIDE DEF n
<1>8. /\ rows \in Seq([k : Int, i : Int]) /\ Len(rows) = n
      /\ \A j \in 1..n : rows[j] = win.rows[NWin - n + j]
  <2>1. n \in Nat /\ n <= NWin  BY <1>4, <1>1
  <2>2. /\ rows \in Seq([k : Int, i : Int]) /\ Len(rows) = (IF NWin > n THEN n ELSE NWin)
        /\ \A j \in 1..Len(rows) : rows[j] = win.rows[NWin - Len(rows) + j]
    <3>1. /\ Newest(win.rows, n) \in Seq([k : Int, i : Int])
          /\ Len(Newest(win.rows, n)) = (IF Len(win.rows) > n THEN n ELSE Len(win.rows))
          /\ \A j \in 1..Len(Newest(win.rows, n)) :
               Newest(win.rows, n)[j] = win.rows[Len(win.rows) - Len(Newest(win.rows, n)) + j]
      <4>1. win.rows \in Seq([k : Int, i : Int]) /\ n \in Nat  BY <1>1, <2>1
      <4> HIDE DEF rows
      <4> QED  BY <4>1, NewestRowsAre
    <3>2. rows = Newest(win.rows, n)  BY DEF rows
    <3> HIDE DEF rows
    <3> QED  BY <3>1, <3>2, <1>1
  <2>3. Len(rows) = n  BY <2>1, <2>2, <1>1
  <2> QED  BY <2>2, <2>3
<1> HIDE DEF rows
<1>9. NewestRow \in Int  BY <1>1 DEF WindowInv
<1>10. \A j \in 1..n : rows[j].k = NewestRow - n + j
  <2> TAKE j \in 1..n
  <2> DEFINE a == NWin - n + j
  <2>1. a \in 1..NWin /\ NWin - a = n - j
    <3>1. \A w, l \in Nat : \A i \in 1..l : l <= w => w - l + i \in 1..w /\ w - (w - l + i) = l - i
      OBVIOUS
    <3> QED  BY <3>1, <1>4, <1>1
  <2>2. win.rows[a].k = NewestRow - (NWin - a)  BY <2>1 DEF WindowInv
  <2>3. rows[j] = win.rows[a]  BY <1>8
  <2> HIDE DEF a
  <2> QED  BY <2>1, <2>2, <2>3, <1>9, <1>4
<1>11. NextSlice \in Slice
  <2>1. rows \in Seq([k : Int, i : Int])  BY <1>8
  <2> QED  BY <2>1, <1>2, <1>5, <1>6 DEF Slice
<1>12. NextSlice.rows = rows /\ NextSlice.sel = page.sel /\ NextSlice.full = SendFull  BY <1>5
<1>13. \A j \in 1..(n - 1) : rows[j + 1].k = rows[j].k + 1
  <2> TAKE j \in 1..(n - 1)
  <2>1. j \in 1..n /\ j + 1 \in 1..n  BY <1>4
  <2> QED  BY <2>1, <1>10, <1>9, <1>4
<1>14. GoodSlice(NextSlice)  BY <1>4, <1>8, <1>12, <1>13 DEF GoodSlice
<1>15. rows[n].k = NewestRow /\ rows[1].k = NewestRow - n + 1
  <2>1. n \in 1..n /\ 1 \in 1..n  BY <1>4
  <2>2. rows[n].k = NewestRow - n + n /\ rows[1].k = NewestRow - n + 1  BY <2>1, <1>10
  <2> QED  BY <2>2, <1>4, <1>9
<1> QED  BY <1>7, <1>8, <1>11, <1>12, <1>14, <1>15 DEF NewestOf

\* A slice as the buffer's rows.
LEMMA ShownIs ==
  ASSUME NEW m \in Slice, GoodSlice(m)
  PROVE  /\ Shown(m) \in Seq(BufferRow) /\ Len(Shown(m)) = Len(m.rows) /\ Shown(m) # <<>>
         /\ \A j \in 1..Len(m.rows) : Shown(m)[j].k = m.rows[j].k /\ Shown(m)[j].sel = m.sel
         /\ OfChannels(Shown(m), m.sel)
         /\ Steady(Shown(m))
         /\ NewestOf(Shown(m)) = NewestOf(m.rows)
<1> DEFINE n == Len(m.rows)
           shownRows == Shown(m)
<1>1. m.rows \in Rows /\ m.rows \in Seq([k : Int, i : Int]) /\ m.sel \in Selections /\ n \in Nat
      /\ DOMAIN m.rows = 1..n
  BY DEF Slice, Rows
<1>2. n \in 1..NWin /\ \A j \in 1..(n - 1) : m.rows[j + 1].k = m.rows[j].k + 1
  BY DEF GoodSlice
<1>3. \A j \in 1..n : m.rows[j].k \in Int  BY <1>1, RowsAreRows
<1>4. shownRows = [j \in 1..n |-> [k |-> m.rows[j].k, sel |-> m.sel]]  BY <1>1 DEF Shown
<1> HIDE DEF shownRows, n
<1>5. \A j \in 1..n : shownRows[j].k = m.rows[j].k /\ shownRows[j].sel = m.sel
                      /\ shownRows[j] \in BufferRow
  BY <1>1, <1>3, <1>4 DEF BufferRow
<1>6. shownRows \in [1..n -> BufferRow]  BY <1>4, <1>5
<1>7. \A S, s, l : l \in Nat /\ s \in [1..l -> S] => s \in Seq(S) /\ Len(s) = l  BY SeqDef
<1>8. shownRows \in Seq(BufferRow) /\ Len(shownRows) = n  BY <1>1, <1>6, <1>7
<1>9. shownRows # <<>>  BY <1>2, <1>8
<1>10. Steady(shownRows)
  <2> SUFFICES ASSUME NEW j \in 1..(n - 1)  PROVE shownRows[j + 1].k - shownRows[j].k \in 0..2
    BY <1>8 DEF Steady
  <2>1. j \in 1..n /\ j + 1 \in 1..n  BY <1>1
  <2> QED  BY <2>1, <1>2, <1>3, <1>5
<1>11. NewestOf(shownRows) = NewestOf(m.rows)
  <2>1. n \in 1..n  BY <1>2
  <2> QED  BY <2>1, <1>5, <1>8 DEF NewestOf, n
<1> QED  BY <1>5, <1>8, <1>9, <1>10, <1>11 DEF OfChannels, n, shownRows

\* A slice of new rows added behind the buffer, cut to its capacity.
LEMMA AddedIs ==
  ASSUME NEW s \in Seq(BufferRow), NEW t \in Seq(BufferRow), NEW sel, s # <<>>, t # <<>>,
         OfChannels(s, sel), OfChannels(t, sel), Steady(s), Steady(t),
         t[1].k - NewestOf(s) \in 0..2
  PROVE  /\ Newest(s \o t, NWin) \in Seq(BufferRow) /\ Newest(s \o t, NWin) # <<>>
         /\ Len(Newest(s \o t, NWin)) <= NWin
         /\ OfChannels(Newest(s \o t, NWin), sel)
         /\ Steady(Newest(s \o t, NWin))
         /\ NewestOf(Newest(s \o t, NWin)) = NewestOf(t)
<1> DEFINE st == s \o t
           new == Newest(st, NWin)
<1>1. st \in Seq(BufferRow) /\ Len(st) = Len(s) + Len(t) /\ Len(s) \in Nat \ {0} /\ Len(t) \in Nat \ {0}
  OBVIOUS
<1>2. /\ \A j \in 1..Len(s) : st[j] = s[j]
      /\ \A j \in 1..Len(st) : j > Len(s) => st[j] = t[j - Len(s)] /\ j - Len(s) \in 1..Len(t)
  OBVIOUS
<1>3. NWin \in Nat \ {0}  BY WindowPositive
<1> HIDE DEF st
<1>4. \A j \in 1..Len(st) : st[j].sel = sel
  <2> TAKE j \in 1..Len(st)
  <2>1. CASE j <= Len(s)
    <3>1. j \in 1..Len(s)  BY <2>1, <1>1
    <3> QED  BY <3>1, <1>2 DEF OfChannels
  <2>2. CASE j > Len(s)  BY <2>2, <1>2 DEF OfChannels
  <2> QED  BY <2>1, <2>2, <1>1
<1>5. \A j \in 1..(Len(st) - 1) : st[j + 1].k - st[j].k \in 0..2
  <2> TAKE j \in 1..(Len(st) - 1)
  <2>1. CASE j < Len(s)
    <3>1. j \in 1..(Len(s) - 1) /\ st[j] = s[j] /\ st[j + 1] = s[j + 1]  BY <2>1, <1>1, <1>2
    <3> QED  BY <3>1 DEF Steady
  <2>2. CASE j = Len(s)
    <3>1. st[j] = s[Len(s)]  BY <2>2, <1>1, <1>2
    <3>2. j + 1 \in 1..Len(st) /\ j + 1 > Len(s) /\ (j + 1) - Len(s) = 1  BY <2>2, <1>1
    <3>3. st[j + 1] = t[1]  BY <3>2, <1>2
    <3> QED  BY <3>1, <3>3 DEF NewestOf
  <2>3. CASE j > Len(s)
    <3> DEFINE i == j - Len(s)
    <3>1. i \in 1..(Len(t) - 1) /\ (j + 1) - Len(s) = i + 1 /\ j \in 1..Len(st) /\ j + 1 \in 1..Len(st)
          /\ j + 1 > Len(s)
      BY <2>3, <1>1
    <3>2. st[j] = t[i] /\ st[j + 1] = t[i + 1]
      <4>1. st[j] = t[j - Len(s)]  BY <3>1, <2>3, <1>2
      <4>2. st[j + 1] = t[(j + 1) - Len(s)]  BY <3>1, <1>2
      <4> QED  BY <3>1, <4>1, <4>2
    <3> HIDE DEF i
    <3> QED  BY <3>1, <3>2 DEF Steady
  <2> QED  BY <2>1, <2>2, <2>3, <1>1
<1>6. NewestOf(st) = NewestOf(t)
  <2>1. Len(st) \in 1..Len(st) /\ Len(st) > Len(s) /\ Len(st) - Len(s) = Len(t)  BY <1>1
  <2> QED  BY <2>1, <1>2 DEF NewestOf
<1>7. /\ new \in Seq(BufferRow)
      /\ Len(new) = IF Len(st) > NWin THEN NWin ELSE Len(st)
      /\ \A j \in 1..Len(new) : new[j] = st[Len(st) - Len(new) + j]
  BY <1>1, <1>3, NewestRowsAre, ZenonT(60)
<1> HIDE DEF new
<1>8. Len(new) \in Nat \ {0} /\ Len(new) <= NWin /\ Len(new) <= Len(st)  BY <1>1, <1>3, <1>7
<1>9. new # <<>>  BY <1>7, <1>8
<1>10. \A j \in 1..Len(new) : Len(st) - Len(new) + j \in 1..Len(st)  BY <1>1, <1>8
<1>11. OfChannels(new, sel)  BY <1>4, <1>7, <1>10 DEF OfChannels
<1>12. Steady(new)
  <2> SUFFICES ASSUME NEW j \in 1..(Len(new) - 1)  PROVE new[j + 1].k - new[j].k \in 0..2
    BY DEF Steady
  <2> DEFINE i == Len(st) - Len(new) + j
  <2>1. j \in 1..Len(new) /\ j + 1 \in 1..Len(new) /\ i \in 1..(Len(st) - 1)
        /\ Len(st) - Len(new) + (j + 1) = i + 1
    BY <1>1, <1>8
  <2>2. new[j] = st[i] /\ new[j + 1] = st[i + 1]
    <3>1. new[j] = st[Len(st) - Len(new) + j]  BY <2>1, <1>7
    <3>2. new[j + 1] = st[Len(st) - Len(new) + (j + 1)]  BY <2>1, <1>7
    <3> QED  BY <2>1, <3>1, <3>2
  <2> HIDE DEF i
  <2> QED  BY <2>1, <2>2, <1>5
<1>13. NewestOf(new) = NewestOf(st)
  <2>1. Len(new) \in 1..Len(new) /\ Len(st) - Len(new) + Len(new) = Len(st)  BY <1>1, <1>8
  <2> QED  BY <2>1, <1>7 DEF NewestOf
<1> QED  BY <1>6, <1>7, <1>8, <1>9, <1>11, <1>12, <1>13 DEF new, st

PageParts == SlicesInv /\ ChainInv /\ PageInv /\ BufferInv
PageTypes == PageTyped /\ WireTyped /\ BufTyped /\ ops \in 0..MaxOps

\* The counter never goes back.
LEMMA CounterGrows ==
  ASSUME StreamTypes, [StreamNext]_replayVars
  PROVE  win.appended \in Nat /\ win'.appended \in Nat /\ win.appended <= win'.appended
<1>1. win.appended \in Nat  BY DEF StreamTypes, WinTyped
<1>2. CASE AppendRow  BY <1>1, <1>2, AppendReads
<1>3. CASE CountRow  BY <1>1, <1>3, CountReads
<1> QED  BY WindowSteps, <1>1, <1>2, <1>3

\* A tick: the slice goes on from what the browser shows by then.
LEMMA TickStep ==
  ASSUME StreamTypes, WindowInv, PageParts, Tick
  PROVE  PageTypes' /\ PageParts'
<1> DEFINE m == NextSlice
           n == Len(wire)
<1>1. page.open /\ (SendFull \/ NewRows > 0)  BY DEF Tick
<1>2. wire \in Seq(Slice) /\ n \in Nat  BY DEF StreamTypes, WireTyped
<1>3. /\ m \in Slice /\ m.sel = page.sel /\ m.full = SendFull /\ GoodSlice(m)
      /\ NewestOf(m.rows) = NewestRow
      /\ ~SendFull => m.rows[1].k = NewestRow - NewRows + 1
  BY <1>1, NextSliceIs DEF PageParts
<1>4. wire' = Append(wire, m) /\ buf' = buf /\ win' = win /\ ops' = ops /\ app' = app
  BY DEF Tick, HubVars
<1>5. /\ page.sel \in Selections /\ page.last \in Nat /\ page.full \in BOOLEAN
      /\ page \in [open : {TRUE}, sel : Selections, last : Nat, full : BOOLEAN]
  BY <1>1, PageIs
<1>6. page' = [open |-> TRUE, sel |-> page.sel, last |-> win.appended, full |-> FALSE]
  <2>1. page' = [page EXCEPT !.full = FALSE, !.last = win.appended]  BY DEF Tick
  <2> QED  BY <2>1, <1>5
<1>7. win.appended \in Nat /\ NewestRow \in Int /\ NewestRow - win.appended \in 0..1
  <2>1. win.appended \in Nat  BY DEF StreamTypes, WinTyped
  <2> QED  BY <2>1 DEF WindowInv
<1> HIDE DEF m
<1>8. /\ wire' \in Seq(Slice) /\ Len(wire') = n + 1 /\ wire'[n + 1] = m /\ wire' # <<>>
      /\ \A j \in 1..n : wire'[j] = wire[j]
  BY <1>2, <1>3, <1>4
<1>9. PageTypes'
  <2>1. page' \in [open : {TRUE}, sel : Selections, last : Nat, full : BOOLEAN]
    BY <1>5, <1>6, <1>7
  <2>2. PageTyped'  BY <2>1 DEF PageTyped
  <2>3. BufTyped' /\ ops' \in 0..MaxOps  BY <1>4 DEF StreamTypes, BufTyped
  <2> QED  BY <2>2, <2>3, <1>8 DEF PageTypes, WireTyped
<1>10. \A j \in 1..(n + 1) : j \in 1..n \/ j = n + 1  BY <1>2
<1>11. SlicesInv'
  <2> SUFFICES ASSUME NEW j \in 1..(n + 1)  PROVE GoodSlice(wire'[j])
    BY <1>8 DEF SlicesInv
  <2>1. CASE j \in 1..n  BY <2>1, <1>8 DEF PageParts, SlicesInv
  <2>2. CASE j = n + 1  BY <2>2, <1>8, <1>3
  <2> QED  BY <2>1, <2>2, <1>10
<1>12. \A j \in 0..n : SelSeen(j)' = SelSeen(j) /\ RowSeen(j)' = RowSeen(j)
  BY <1>2, <1>4, <1>8 DEF SelSeen, RowSeen
<1>13. ~SendFull => /\ (n = 0 => buf.rows # <<>>)
                    /\ page.sel = SelSeen(n) /\ RowSeen(n) - page.last \in 0..1
  <2>1. ~SendFull => ~page.full  BY DEF SendFull
  <2>2. n = 0 => wire = <<>>  BY <1>2
  <2> QED  BY <2>1, <2>2, <1>1 DEF PageParts, PageInv
<1>14. ChainInv'
  <2> SUFFICES ASSUME NEW j \in 1..(n + 1), ~wire'[j].full
               PROVE  /\ j = 1 => buf'.rows # <<>>
                      /\ wire'[j].sel = SelSeen(j - 1)'
                      /\ wire'[j].rows[1].k - RowSeen(j - 1)' \in 0..2
    BY <1>8 DEF ChainInv
  <2>1. j - 1 \in 0..n /\ SelSeen(j - 1)' = SelSeen(j - 1) /\ RowSeen(j - 1)' = RowSeen(j - 1)
    BY <1>2, <1>12
  <2>2. CASE j \in 1..n
    <3>1. ~wire[j].full /\ wire'[j] = wire[j]  BY <2>2, <1>8
    <3> QED  BY <3>1, <2>1, <2>2, <1>4 DEF PageParts, ChainInv
  <2>3. CASE j = n + 1
    <3>1. j - 1 = n /\ wire'[j] = m /\ ~SendFull  BY <2>3, <1>2, <1>3, <1>8
    <3>2. m.rows[1].k = NewestRow - (win.appended - page.last) + 1  BY <3>1, <1>3 DEF NewRows
    <3>3. m.rows[1].k - RowSeen(n) \in 0..2
      <4>1. RowSeen(n) - page.last \in 0..1  BY <3>1, <1>13
      <4>2. RowSeen(n) \in Int
        <5>1. CASE n = 0
          <6>1. buf.rows # <<>> /\ buf.rows \in Seq(BufferRow)
            BY <5>1, <3>1, <1>13 DEF StreamTypes, BufTyped, BufferRow
          <6>2. \A S : \A s \in Seq(S) : s # <<>> => s[Len(s)] \in S  OBVIOUS
          <6>3. buf.rows[Len(buf.rows)] \in BufferRow  BY <6>1, <6>2
          <6> QED  BY <6>3, <5>1 DEF RowSeen, NewestOf, BufferRow
        <5>2. CASE n # 0
          <6>1. n \in 1..Len(wire)  BY <5>2, <1>2
          <6>2. wire[n].rows \in Rows /\ Len(wire[n].rows) \in 1..NWin
            BY <6>1, SlicesAre DEF PageParts, SlicesInv, GoodSlice
          <6>3. Len(wire[n].rows) \in 1..Len(wire[n].rows)  BY <6>2
          <6>4. wire[n].rows[Len(wire[n].rows)].k \in Int  BY <6>2, <6>3, RowsAreRows
          <6> QED  BY <6>4, <5>2 DEF RowSeen, NewestOf
        <5> QED  BY <5>1, <5>2
      <4>3. \A a, b, r, l \in Int : a - b \in 0..1 /\ r - l \in 0..1 => (a - (b - l) + 1) - r \in 0..2
        OBVIOUS
      <4>4. (NewestRow - (win.appended - page.last) + 1) - RowSeen(n) \in 0..2
        <5> DEFINE a == NewestRow
                   b == win.appended
                   r == RowSeen(n)
                   l == page.last
        <5>1. a \in Int /\ b \in Int /\ r \in Int /\ l \in Int  BY <4>2, <1>5, <1>7
        <5>2. a - b \in 0..1 /\ r - l \in 0..1  BY <4>1, <1>7
        <5> HIDE DEF a, b, r, l
        <5>3. (a - (b - l) + 1) - r \in 0..2  BY <5>1, <5>2, <4>3
        <5> QED  BY <5>3 DEF a, b, r, l
      <4> QED  BY <4>4, <3>2
    <3> QED  BY <3>1, <3>3, <2>1, <2>3, <1>3, <1>4, <1>13
  <2> QED  BY <2>2, <2>3, <1>10
<1>15. PageInv'
  <2>1. Len(wire') = n + 1 /\ n + 1 # 0 /\ wire'[n + 1] = m  BY <1>2, <1>8
  <2>2. SelSeen(Len(wire))' = page.sel  BY <2>1, <1>3 DEF SelSeen
  <2>3. RowSeen(Len(wire))' = NewestRow  BY <2>1, <1>3 DEF RowSeen, NewestOf
  <2>4. page'.open /\ page'.sel = page.sel /\ page'.last = win.appended  BY <1>6
  <2> QED  BY <2>2, <2>3, <2>4, <1>4, <1>7, <1>8 DEF PageInv
<1>16. BufferInv'  BY <1>4 DEF PageParts, BufferInv
<1> QED  BY <1>9, <1>11, <1>14, <1>15, <1>16 DEF PageParts

\* The browser applies a slice: it shows what was seen after that slice.
LEMMA ReceiveStep ==
  ASSUME StreamTypes, PageParts, Receive
  PROVE  PageTypes' /\ PageParts'
<1> DEFINE m == Head(wire)
           n == Len(wire)
<1>1. /\ wire \in Seq(Slice) /\ wire # <<>> /\ n \in Nat \ {0} /\ m = wire[1] /\ 1 \in 1..n
      /\ wire' = Tail(wire) /\ page' = page /\ ops' = ops /\ win' = win
  BY DEF StreamTypes, WireTyped, Receive, HubVars
<1>2. /\ wire' \in Seq(Slice) /\ Len(wire') = n - 1
      /\ \A j \in 1..(n - 1) : wire'[j] = wire[j + 1] /\ j + 1 \in 1..n
  BY <1>1
<1>3. m \in Slice /\ m.sel \in Selections /\ m.full \in BOOLEAN /\ GoodSlice(m)
  BY <1>1, SlicesAre DEF PageParts, SlicesInv
<1>4. /\ buf \in [rows : Seq(BufferRow), sel : Selections \cup {{}}, cap : {0, NWin}]
      /\ NWin \in Nat \ {0}
  BY WindowPositive DEF StreamTypes, BufTyped, BufferRow
<1>5. buf' = IF m.full THEN [rows |-> Shown(m), sel |-> m.sel, cap |-> NWin]
             ELSE IF buf.cap = 0 THEN buf
             ELSE [buf EXCEPT !.rows = Newest(@ \o Shown(m), buf.cap)]
  BY DEF Receive
<1> HIDE DEF m
<1>6. /\ Shown(m) \in Seq(BufferRow) /\ Shown(m) # <<>> /\ Len(Shown(m)) = Len(m.rows)
      /\ Len(m.rows) \in 1..NWin
      /\ \A j \in 1..Len(m.rows) : Shown(m)[j].k = m.rows[j].k
      /\ OfChannels(Shown(m), m.sel) /\ Steady(Shown(m)) /\ NewestOf(Shown(m)) = NewestOf(m.rows)
  BY <1>3, ShownIs DEF GoodSlice
<1>7. \E rows \in Seq(BufferRow) :
        /\ buf' = [rows |-> rows, sel |-> m.sel, cap |-> NWin] /\ rows # <<>> /\ Len(rows) <= NWin
        /\ OfChannels(rows, m.sel) /\ Steady(rows) /\ NewestOf(rows) = NewestOf(m.rows)
  <2>1. CASE m.full
    <3>1. Len(Shown(m)) <= NWin  BY <1>4, <1>6
    <3> QED  BY <2>1, <3>1, <1>5, <1>6
  <2>2. CASE ~m.full
    <3>1. buf.rows # <<>> /\ m.sel = buf.sel /\ m.rows[1].k - NewestOf(buf.rows) \in 0..2
      <4>1. ~wire[1].full  BY <2>2, <1>1
      <4>2. buf.rows # <<>> /\ wire[1].sel = SelSeen(1 - 1) /\ wire[1].rows[1].k - RowSeen(1 - 1) \in 0..2
        BY <4>1, <1>1 DEF PageParts, ChainInv
      <4> QED  BY <4>2, <1>1 DEF SelSeen, RowSeen
    <3>2. buf.cap = NWin /\ OfChannels(buf.rows, m.sel) /\ Steady(buf.rows) /\ buf.cap # 0
          /\ buf.rows \in Seq(BufferRow)
      BY <3>1, <1>4 DEF PageParts, BufferInv
    <3>3. Shown(m)[1].k - NewestOf(buf.rows) \in 0..2
      <4>1. 1 \in 1..Len(m.rows)  BY <1>6
      <4>2. Shown(m)[1].k = m.rows[1].k  BY <4>1, <1>6
      <4> QED  BY <4>2, <3>1
    <3> DEFINE new == Newest(buf.rows \o Shown(m), NWin)
    <3>4. /\ new \in Seq(BufferRow) /\ new # <<>> /\ Len(new) <= NWin /\ OfChannels(new, m.sel)
          /\ Steady(new) /\ NewestOf(new) = NewestOf(Shown(m))
      BY <3>1, <3>2, <3>3, <1>6, AddedIs
    <3>5. buf' = [buf EXCEPT !.rows = new]  BY <2>2, <3>2, <1>5
    <3> HIDE DEF new
    <3>6. buf' = [rows |-> new, sel |-> m.sel, cap |-> NWin]
      <4>1. buf = [rows |-> buf.rows, sel |-> buf.sel, cap |-> buf.cap]  BY <1>4
      <4> QED  BY <4>1, <3>1, <3>2, <3>5
    <3> QED  BY <3>4, <3>6, <1>6
  <2> QED  BY <2>1, <2>2
<1>8. PICK rows \in Seq(BufferRow) :
        /\ buf' = [rows |-> rows, sel |-> m.sel, cap |-> NWin] /\ rows # <<>> /\ Len(rows) <= NWin
        /\ OfChannels(rows, m.sel) /\ Steady(rows) /\ NewestOf(rows) = NewestOf(m.rows)
  BY <1>7
<1>9. buf'.rows = rows /\ buf'.sel = m.sel /\ buf'.cap = NWin  BY <1>8
<1>10. PageTypes'
  <2>1. buf' \in [rows : Seq(BufferRow), sel : Selections \cup {{}}, cap : {0, NWin}]
    BY <1>3, <1>8
  <2>2. BufTyped'  BY <2>1, <1>8, <1>9 DEF BufTyped, BufferRow
  <2>3. PageTyped' /\ ops' \in 0..MaxOps  BY <1>1 DEF StreamTypes, PageTyped
  <2> QED  BY <2>2, <2>3, <1>2 DEF PageTypes, WireTyped
<1>11. SlicesInv'
  BY <1>2 DEF PageParts, SlicesInv
<1>12. BufferInv'  BY <1>8, <1>9 DEF BufferInv
<1>13. \A j \in 0..(n - 1) : SelSeen(j)' = SelSeen(j + 1) /\ RowSeen(j)' = RowSeen(j + 1)
  <2> TAKE j \in 0..(n - 1)
  <2>1. CASE j = 0
    <3>1. SelSeen(j)' = buf'.sel /\ RowSeen(j)' = NewestOf(buf'.rows)  BY <2>1 DEF SelSeen, RowSeen, NewestOf
    <3>2. SelSeen(j + 1) = wire[1].sel /\ RowSeen(j + 1) = NewestOf(wire[1].rows)
      BY <2>1 DEF SelSeen, RowSeen
    <3> QED  BY <3>1, <3>2, <1>1, <1>8, <1>9
  <2>2. CASE j # 0
    <3>1. j \in 1..(n - 1) /\ j + 1 # 0  BY <2>2, <1>1
    <3>2. wire'[j] = wire[j + 1]  BY <3>1, <1>2
    <3> QED  BY <3>1, <3>2, <2>2 DEF SelSeen, RowSeen, NewestOf
  <2> QED  BY <2>1, <2>2
<1>14. ChainInv'
  <2> SUFFICES ASSUME NEW j \in 1..(n - 1), ~wire'[j].full
               PROVE  /\ j = 1 => buf'.rows # <<>>
                      /\ wire'[j].sel = SelSeen(j - 1)'
                      /\ wire'[j].rows[1].k - RowSeen(j - 1)' \in 0..2
    BY <1>2 DEF ChainInv
  <2>1. wire'[j] = wire[j + 1] /\ j + 1 \in 1..n /\ ~wire[j + 1].full  BY <1>2
  <2>2. j - 1 \in 0..(n - 1) /\ (j - 1) + 1 = j /\ (j + 1) - 1 = j  BY <1>1
  <2>3. SelSeen(j - 1)' = SelSeen(j) /\ RowSeen(j - 1)' = RowSeen(j)
    BY <2>2, <1>13
  <2>4. wire[j + 1].sel = SelSeen(j) /\ wire[j + 1].rows[1].k - RowSeen(j) \in 0..2
    BY <2>1, <2>2 DEF PageParts, ChainInv
  <2> QED  BY <2>1, <2>3, <2>4, <1>8, <1>9
<1>15. PageInv'
  <2>1. page.open  BY <1>1 DEF PageParts, PageInv
  <2>2. page.last <= win.appended  BY <2>1 DEF PageParts, PageInv
  <2>3. ASSUME ~page.full
        PROVE  page.sel = SelSeen(Len(wire))' /\ RowSeen(Len(wire))' - page.last \in 0..1
    <3>1. PICK k \in 0..(n - 1) : k = n - 1 /\ k + 1 = n /\ Len(wire') = k
      <4>1. n - 1 \in 0..(n - 1) /\ (n - 1) + 1 = n  BY <1>1
      <4>2. Len(wire') = n - 1  BY <1>2
      <4> QED  BY <4>1, <4>2
    <3>2. SelSeen(k)' = SelSeen(n) /\ RowSeen(k)' = RowSeen(n)  BY <3>1, <1>13
    <3>3. SelSeen(Len(wire))' = SelSeen(k)' /\ RowSeen(Len(wire))' = RowSeen(k)'
      BY <3>1 DEF SelSeen, RowSeen, NewestOf
    <3>4. page.sel = SelSeen(n) /\ RowSeen(n) - page.last \in 0..1
      BY <2>1, <2>3 DEF PageParts, PageInv
    <3> QED  BY <3>2, <3>3, <3>4
  <2> QED  BY <2>1, <2>2, <2>3, <1>1, <1>8, <1>9 DEF PageInv
<1> QED  BY <1>10, <1>11, <1>12, <1>14, <1>15 DEF PageParts

LEMMA PageStep ==
  ASSUME StreamTypes, WindowInv, PageParts, [StreamNext]_replayVars
  PROVE  PageTypes' /\ PageParts'
<1>1. win.appended \in Nat /\ win'.appended \in Nat /\ win.appended <= win'.appended  BY CounterGrows
<1>2. ASSUME wire' = wire, buf' = buf, ops' \in 0..MaxOps, PageTyped', page.open \/ page'.open,
             page'.open /\ page'.full, page'.last <= win'.appended
      PROVE  PageTypes' /\ PageParts'
  <2>1. PageTypes'  BY <1>2 DEF PageTypes, StreamTypes, WireTyped, BufTyped
  <2>2. SlicesInv' /\ BufferInv'  BY <1>2 DEF PageParts, SlicesInv, BufferInv
  <2>3. ChainInv'  BY <1>2 DEF PageParts, ChainInv, SelSeen, RowSeen
  <2>4. PageInv'  BY <1>2 DEF PageInv
  <2> QED  BY <2>1, <2>2, <2>3, <2>4 DEF PageParts
<1>3. CASE Connect
  <2>1. PICK sel \in Selections :
          page' = [open |-> TRUE, sel |-> sel, last |-> win.appended, full |-> TRUE]
    BY <1>3 DEF Connect
  <2>2. PageTyped'  BY <2>1, <1>1 DEF PageTyped
  <2>3. win' = win /\ wire' = wire /\ buf' = buf /\ ops' = ops /\ ops \in 0..MaxOps
    BY <1>3 DEF Connect, HubVars, StreamTypes
  <2> QED  BY <2>1, <2>2, <2>3, <1>1, <1>2
<1>4. CASE Disconnect
  <2>1. page' = NoPage /\ wire' = <<>> /\ buf' = buf /\ ~page'.open
    BY <1>4 DEF Disconnect, NoPage
  <2>2. ops' \in 0..MaxOps
    <3>1. ops \in 0..MaxOps /\ ops < MaxOps /\ ops' = ops + 1 /\ MaxOps \in Nat
      BY <1>4, WindowPositive DEF Disconnect, StreamTypes
    <3> QED  BY <3>1
  <2>3. PageTypes'
    BY <2>1, <2>2 DEF PageTypes, PageTyped, WireTyped, BufTyped, StreamTypes
  <2>4. Len(wire') = 0  BY <2>1
  <2>5. SlicesInv' /\ ChainInv'  BY <2>4 DEF SlicesInv, ChainInv
  <2>6. PageInv' /\ BufferInv'  BY <2>1 DEF PageInv, BufferInv, PageParts
  <2> QED  BY <2>3, <2>5, <2>6 DEF PageParts
<1>5. CASE SelectChannels \/ Resync
  <2>1. page.open /\ wire' = wire /\ buf' = buf /\ win' = win /\ ops < MaxOps /\ ops' = ops + 1
    BY <1>5 DEF SelectChannels, Resync, HubVars
  <2>2. ops' \in 0..MaxOps
    <3>1. ops \in 0..MaxOps /\ MaxOps \in Nat  BY WindowPositive DEF StreamTypes
    <3> QED  BY <3>1, <2>1
  <2>3. /\ page.sel \in Selections /\ page.last \in Nat
        /\ page \in [open : {TRUE}, sel : Selections, last : Nat, full : BOOLEAN]
    BY <2>1, PageIs
  <2>4. \E sel \in Selections :
          page' = [open |-> TRUE, sel |-> sel, last |-> page.last, full |-> TRUE]
    <3>1. CASE SelectChannels
      <4>1. PICK sel \in Selections : page' = [page EXCEPT !.sel = sel, !.full = TRUE]
        BY <3>1 DEF SelectChannels
      <4> QED  BY <4>1, <2>3
    <3>2. CASE Resync  BY <3>2, <2>3 DEF Resync
    <3> QED  BY <1>5, <3>1, <3>2
  <2>5. PageTyped' /\ page'.open /\ page'.full /\ page'.last = page.last
    BY <2>3, <2>4 DEF PageTyped
  <2>6. page.last <= win.appended  BY <2>1 DEF PageParts, PageInv
  <2> QED  BY <2>1, <2>2, <2>5, <2>6, <1>2
<1>6. CASE Tick  BY <1>6, TickStep
<1>7. CASE Receive  BY <1>7, ReceiveStep
<1>8. CASE UNCHANGED PageVars
  <2>1. page' = page /\ wire' = wire /\ buf' = buf /\ ops' = ops  BY <1>8 DEF PageVars
  <2>2. PageTypes'
    BY <2>1 DEF PageTypes, PageTyped, WireTyped, BufTyped, StreamTypes
  <2>3. SlicesInv' /\ BufferInv'  BY <2>1 DEF PageParts, SlicesInv, BufferInv
  <2>4. ChainInv'  BY <2>1 DEF PageParts, ChainInv, SelSeen, RowSeen
  <2>5. PageInv'
    <3>1. page.open => page.last <= win'.appended
      <4>1. page.open => page.last \in Nat /\ page.last <= win.appended
        BY PageIs DEF PageParts, PageInv
      <4> QED  BY <4>1, <1>1
    <3> QED  BY <3>1, <2>1 DEF PageParts, PageInv, SelSeen, RowSeen
  <2> QED  BY <2>2, <2>3, <2>4, <2>5 DEF PageParts
<1> QED  BY PageSteps, <1>3, <1>4, <1>5, <1>6, <1>7, <1>8

-----------------------------------------------------------------------------
(* RecordedStream: the theorems *)

ReplayInv ==
  /\ StreamTypes /\ PhaseInv /\ WindowInv /\ RowOrder /\ NewestInv /\ PrefillInv
  /\ SlicesInv /\ ChainInv /\ PageInv /\ BufferInv

LEMMA StreamInitHolds == StreamInit => ReplayInv
<1> SUFFICES ASSUME StreamInit  PROVE ReplayInv  OBVIOUS
<1>1. NWin \in Nat \ {0} /\ QueueDepth \in Nat \ {0} /\ MaxRow \in Nat /\ MaxOps \in Nat
  BY WindowPositive
<1> DEFINE rows == [j \in 1..NWin |-> [k |-> j - NWin, i |-> 0]]
<1>2. rows \in Seq([k : Int, i : Int]) /\ Len(rows) = NWin
  <2>1. rows \in [1..NWin -> [k : Int, i : Int]]  BY <1>1
  <2>2. \A S, s, l : l \in Nat /\ s \in [1..l -> S] => s \in Seq(S) /\ Len(s) = l  BY SeqDef
  <2> QED  BY <2>1, <2>2, <1>1
<1>3. \A j \in 1..NWin : rows[j].k = j - NWin  OBVIOUS
<1>4. win = [rows |-> rows, appended |-> 0]  BY DEF StreamInit, EmptyWindow
<1> HIDE DEF rows
<1>5. win.rows = rows /\ win.appended = 0  BY <1>4
<1>6. /\ hub = "new" /\ readerQueue = [items |-> <<>>, max |-> QueueDepth]
      /\ app = [pc |-> "off", row |-> 0, stopped |-> FALSE]
      /\ page = NoPage /\ wire = <<>> /\ ops = 0
      /\ buf = [rows |-> <<>>, sel |-> {}, cap |-> 0]
  BY DEF StreamInit, NewQueue, EmptyBuffer
<1>7. PICK loop \in BOOLEAN : player = [pc |-> "off", loop |-> loop, cursor |-> 0, stop |-> FALSE]
  BY DEF StreamInit, NewPlayer
<1>8. StreamTypes
  <2>1. HubTyped /\ AppTyped /\ ops \in 0..MaxOps /\ PageTyped /\ WireTyped
    BY <1>1, <1>6 DEF HubTyped, AppTyped, PageTyped, WireTyped
  <2>2. PlayerTyped  BY <1>1, <1>7 DEF PlayerTyped
  <2>3. ReaderTyped  BY <1>1, <1>6 DEF ReaderTyped
  <2>4. WinTyped  BY <1>2, <1>4, <1>5 DEF WinTyped, Rows
  <2>5. BufTyped
    <3>1. Len(buf.rows) = 0  BY <1>6
    <3> QED  BY <3>1, <1>1, <1>6 DEF BufTyped
  <2> QED  BY <2>1, <2>2, <2>3, <2>4, <2>5 DEF StreamTypes
<1>9. PhaseInv  BY <1>5, <1>6, <1>7 DEF PhaseInv
<1>10. NewestRow = 0  BY <1>1, <1>3, <1>5 DEF NewestRow
<1>11. WindowInv
  <2>1. \A j \in 1..NWin : win.rows[j].k = NewestRow - (NWin - j)  BY <1>1, <1>3, <1>5, <1>10
  <2>2. app.pc # "appended"  BY <1>6
  <2> QED  BY <2>1, <2>2, <1>5, <1>10 DEF WindowInv
<1>12. RowOrder
  <2>1. \A a \in 1..NWin : ~(win.rows[a].k > 0)  BY <1>1, <1>3, <1>5
  <2>2. Len(readerQueue.items) = 0 /\ app.pc # "row"  BY <1>6
  <2> QED  BY <2>1, <2>2 DEF RowOrder, InRowOrder
<1>13. NewestInv  BY <1>7 DEF NewestInv
<1>14. PrefillInv  BY <1>6 DEF PrefillInv
<1>15. Len(wire) = 0 /\ ~page.open /\ buf.rows = <<>> /\ Len(buf.rows) = 0  BY <1>6 DEF NoPage
<1>16. SlicesInv /\ ChainInv  BY <1>15 DEF SlicesInv, ChainInv
<1>17. PageInv /\ BufferInv  BY <1>6, <1>15 DEF PageInv, BufferInv, OfChannels, Steady
<1> QED  BY <1>8, <1>9, <1>11, <1>12, <1>13, <1>14, <1>16, <1>17 DEF ReplayInv

\* The invariant of one client's replay.
THEOREM ReplayInvariant == StreamSpec => []ReplayInv
<1>1. ReplayInv /\ [StreamNext]_replayVars => ReplayInv'
  <2> SUFFICES ASSUME ReplayInv, [StreamNext]_replayVars  PROVE ReplayInv'  OBVIOUS
  <2> USE DEF ReplayInv
  <2>1. PlayerTyped' /\ ReaderTyped' /\ AppTyped' /\ HubTyped' /\ WinTyped'
    BY PlayerMoves, ReaderStaysTyped, AppStaysTyped, WindowStaysTyped
  <2>2. PageTypes' /\ PageParts'  BY PageStep DEF PageParts
  <2>3. StreamTypes'  BY <2>1, <2>2 DEF StreamTypes, PageTypes
  <2>4. PhaseInv' /\ WindowInv'  BY PhaseStep, WindowStep
  <2>5. RowOrder' /\ NewestInv' /\ PrefillInv'  BY OrderStep, NewestStep, PrefillStep
  <2> QED  BY <2>2, <2>3, <2>4, <2>5 DEF PageParts
<1> QED  BY StreamInitHolds, <1>1, PTL DEF StreamSpec

LEMMA TypesFollow == StreamTypes => StreamTypeOK
<1> SUFFICES ASSUME StreamTypes  PROVE StreamTypeOK  OBVIOUS
<1> USE DEF StreamTypes
<1>1. hub \in {"new", "built", "apps", "running", "stopping", "stopped"}  BY DEF HubTyped
<1>2. player \in [pc : {"off", "play", "full", "done"}, loop : BOOLEAN,
                  cursor : 0..MaxRow, stop : BOOLEAN]
  BY DEF PlayerTyped
<1>3. readerQueue.items \in Seq(Int) /\ readerQueue.max \in Nat
      /\ Len(readerQueue.items) <= readerQueue.max
  BY DEF ReaderTyped
<1>4. app \in [pc : {"off", "read", "row", "appended", "done", "dead"}, row : Int, stopped : BOOLEAN]
  BY DEF AppTyped
<1>5. win \in [rows : Seq([k : Int, i : Int]), appended : Nat] /\ Len(win.rows) = NWin
  BY DEF WinTyped, Rows
<1>6. page = NoPage \/ page \in [open : {TRUE}, sel : Selections, last : Nat, full : BOOLEAN]
  BY DEF PageTyped
<1>7. wire \in Seq(Slice) /\ ops \in 0..MaxOps  BY DEF WireTyped
<1>8. buf.rows \in Seq([k : Int, sel : Selections]) /\ Len(buf.rows) <= NWin  BY DEF BufTyped
<1> QED  BY <1>1, <1>2, <1>3, <1>4, <1>5, <1>6, <1>7, <1>8 DEF StreamTypeOK

\* The application is handed a stream that is whole: a window of history,
\* however slow its thread is, and always the row that was played last.
THEOREM StreamWhole == StreamSpec => []StreamIsWhole
<1>1. ReplayInv => StreamIsWhole
  BY TypesFollow, PrefillFollows, NewestFollows DEF ReplayInv, StreamIsWhole
<1> QED  BY ReplayInvariant, <1>1, PTL

\* Time goes up from row to row all along the way, across the seam of the loop
\* and over every row that was dropped.
THEOREM TimeGoesUp == StreamSpec => []TimeMovesForward
<1>1. ReplayInv => TimeMovesForward  BY TimeFollows DEF ReplayInv
<1> QED  BY ReplayInvariant, <1>1, PTL

\* The browser's buffer is of the channels it lists, and each of its rows is at
\* most two behind the next: the errors of slices do not add up.
THEOREM BufferFollows == StreamSpec => []BufferIsOfItsChannels
<1>1. ReplayInv => BufferIsOfItsChannels
  <2> SUFFICES ASSUME ReplayInv  PROVE BufferIsOfItsChannels  OBVIOUS
  <2>1. buf.rows \in Seq([k : Int, sel : Selections])
    BY DEF ReplayInv, StreamTypes, BufTyped
  <2>2. DOMAIN buf.rows = 1..Len(buf.rows)  BY <2>1
  <2> QED
    BY <2>2
    DEF ReplayInv, BufferInv, OfChannels, Steady, BufferIsOfItsChannels, BufferShowsItsChannels,
        BufferWithinOneRow
<1> QED  BY ReplayInvariant, <1>1, PTL

=============================================================================
