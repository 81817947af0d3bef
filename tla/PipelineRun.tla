---------------------------- MODULE PipelineRun ----------------------------
(***************************************************************************)
(* PipelineRun of core/src/pswamp_core/pipeline.py, a client's: what it    *)
(* publishes under which stream number, and what it shows (the frame, the  *)
(* newest result, the feed's error) as it plays a recording, follows the   *)
(* shared run of a live source, and goes from one to the other.            *)
(*                                                                         *)
(* The router (module ActiveSource) switches, opens and seeks; the shared  *)
(* live runs and the run's own modules publish on their own; each reader   *)
(* takes messages from its subscription, a queue that drops its oldest.    *)
(***************************************************************************)
EXTENDS Naturals, Sequences

CONSTANTS
    Recordings, Lives,  \* the run's sources
    MaxMarks,           \* bound on the times a stream starts over
    MaxFollows,         \* bound on the live runs ever followed
    MaxLiveFrames,      \* bound on the frames of a live source
    MaxQueue,           \* maxsize of a subscription
    Nothing

ASSUME PipelineRunAssumption ==
    /\ Recordings \cap Lives = {} /\ Recordings # {}
    /\ MaxMarks \in Nat \ {0} /\ MaxFollows \in Nat /\ MaxLiveFrames \in Nat /\ MaxQueue \in Nat \ {0}
    /\ Nothing \notin Recordings \cup Lives

Follows == 1..MaxFollows
None == 0

VARIABLES
    source,     \* the source the router is on
    phase,      \* the router: "steady", "starting" or "seeking" (in an await), "cut"
    mark,       \* router.stream_mark, as a count of its changes
    seen,       \* _mark
    stream,     \* _stream
    following,  \* _following, or None
    follows,    \* subscriptions made to follow a live run so far
    followed,   \* per such subscription: the source and what is queued
    frame,      \* frame: its source and, of a live one, its number
    result,     \* the newest result: whose it is, and whether it was asked for
    feedError,  \* the error of _followed_status
    produced,   \* per live source: frames so far
    down,       \* per live source: its feed is down
    sent        \* history: the stream and the mark of the last frame published

routerVars == <<source, phase, mark>>
numberVars == <<seen, stream, sent>>
followVars == <<following, follows, followed, feedError>>
liveVars == <<produced, down>>
vars == <<routerVars, numberVars, followVars, frame, result, liveVars>>

Offer(q, m) == Append(IF Len(q) = MaxQueue THEN Tail(q) ELSE q, m)

-----------------------------------------------------------------------------
(* publish, _follow and _unfollow *)

\* The stream number goes up with the first message under a new mark.
Numbered(newMark) ==
    /\ stream' = IF newMark # seen THEN stream + 1 ELSE stream
    /\ seen' = newMark

Followed == IF following = None THEN Nothing ELSE followed[following].source

\* Mutant: the frame of the other side stays.
FrameKept(f) == f

\* The frame shown when the run begins to follow a live run, f being there before.
FrameOnFollow(f) == Nothing

\* What a status from the source `to` does, f being the frame by then.
Follow(to, f) ==
    /\ frame' = IF to \in Lives /\ Followed # to THEN FrameOnFollow(f) ELSE f
    /\ IF Followed = to \/ (Followed = Nothing /\ to \notin Lives)
       THEN UNCHANGED <<followVars, result>>
       ELSE /\ result' = Nothing /\ feedError' = FALSE
            /\ IF to \in Lives
               THEN /\ follows < MaxFollows
                    /\ follows' = follows + 1 /\ following' = follows + 1
                    /\ followed' = [followed EXCEPT ![follows + 1].source = to]
               ELSE following' = None /\ UNCHANGED <<follows, followed>>

OwnFrame == [source |-> source, n |-> 0]

-----------------------------------------------------------------------------
(* The router *)

\* A switch leaves the old source and activates the new: a followed one publishes its
\* status at once, a recording has to be opened.
Switch(to) ==
    /\ mark < MaxMarks
    /\ source' = to /\ mark' = mark + 1
    /\ IF to \in Lives
       THEN /\ phase' = "steady" /\ Numbered(mark + 1) /\ Follow(to, frame) /\ UNCHANGED sent
       ELSE /\ phase' = "starting" /\ UNCHANGED <<numberVars, followVars, frame, result>>
    /\ UNCHANGED <<liveVars>>

\* A seek or a step back opens the stream anew.
Seek ==
    /\ phase = "steady" /\ source \in Recordings /\ mark < MaxMarks
    /\ mark' = mark + 1 /\ phase' = "seeking"
    /\ UNCHANGED <<source, numberVars, followVars, frame, result, liveVars>>

\* Mutant: only a status raises the stream number.
PublishFrameUnnumbered ==
    /\ frame' = OwnFrame
    /\ UNCHANGED <<stream, seen>>
    /\ sent' = [stream |-> stream', mark |-> mark]

PublishFrame ==
    /\ frame' = OwnFrame
    /\ Numbered(mark)
    /\ sent' = [stream |-> stream', mark |-> mark]

\* The source is open: with the frame there (`shows`), or without one (it plays on,
\* failed, or holds none), and then its status.
Opened(shows) ==
    /\ phase \in {"starting", "seeking"}
    /\ phase' = "steady"
    /\ Numbered(mark)
    /\ sent' = IF shows THEN [stream |-> stream', mark |-> mark] ELSE sent
    /\ Follow(source, IF shows THEN OwnFrame ELSE frame)
    /\ UNCHANGED <<source, mark, liveVars>>

\* A command that preempts a switch cancels its await, and may then be refused.
Cut ==
    /\ phase = "starting" /\ phase' = "cut"
    /\ UNCHANGED <<source, mark, numberVars, followVars, frame, result, liveVars>>

\* A frame plays; at its end a recording starts over without a status.
Play ==
    /\ phase = "steady" /\ source \in Recordings
    /\ PublishFrame
    /\ UNCHANGED <<routerVars, followVars, result, liveVars>>

LoopsBack ==
    /\ phase = "steady" /\ source \in Recordings /\ mark < MaxMarks
    /\ mark' = mark + 1
    /\ UNCHANGED <<source, phase, numberVars, followVars, frame, result, liveVars>>

-----------------------------------------------------------------------------
(* The run's own results *)

\* Results lag behind the frames: of a stream of this run or of an earlier run of the
\* same key, whose stream numbers may be any.
OwnResults ==
    {r \in [of : {"run", "earlier run"}, n : 1..MaxMarks, asked : BOOLEAN] :
        IF r.of = "run" THEN r.n <= sent.stream ELSE ~r.asked}

\* Mutant: a result of a stream that is over is taken.
TakesAny(r) == r.of = "run"

\* _receive: of this run, and not of a stream that is over unless it was asked for.
Takes(r) == r.of = "run" /\ (r.asked \/ r.n >= stream)

Receive(r) ==
    /\ result' = IF Takes(r) THEN [of |-> r.of, asked |-> r.asked] ELSE result
    /\ UNCHANGED <<routerVars, numberVars, followVars, frame, liveVars>>

-----------------------------------------------------------------------------
(* The shared live runs, and the reader of the one that is followed *)

\* What the shared run of l publishes reaches the subscription that follows it.
Delivers(l, m) ==
    followed' = [s \in Follows |->
                    IF s = following /\ followed[s].source = l
                    THEN [followed[s] EXCEPT !.queue = Offer(@, m)] ELSE followed[s]]

LiveFrame(l) ==
    /\ ~down[l] /\ produced[l] < MaxLiveFrames
    /\ produced' = [produced EXCEPT ![l] = @ + 1]
    /\ Delivers(l, [is |-> "frame", n |-> produced[l] + 1])
    /\ UNCHANGED <<routerVars, numberVars, following, follows, feedError, frame, result, down>>

\* Its modules publish results as its frames come.
LiveResult(l) ==
    /\ ~down[l] /\ produced[l] > 0
    /\ Delivers(l, [is |-> "result", n |-> 0])
    /\ UNCHANGED <<routerVars, numberVars, following, follows, feedError, frame, result, liveVars>>

\* The feed goes down or is back: a status says so (and is data: it may be lost).
LiveTurns(l, lost) ==
    /\ down' = [down EXCEPT ![l] = ~@]
    /\ IF lost THEN UNCHANGED followed ELSE Delivers(l, [is |-> "status", n |-> IF down[l] THEN 0 ELSE 1])
    /\ UNCHANGED <<routerVars, numberVars, following, follows, feedError, frame, result, produced>>

\* Mutant: the status is repeated while all is well.
RepeatStatusWhenUp(l) ==
    /\ ~down[l]
    /\ Delivers(l, [is |-> "status", n |-> 0])
    /\ UNCHANGED <<routerVars, numberVars, following, follows, feedError, frame, result, liveVars>>

\* _repeat_status of the shared run.
RepeatStatus(l) ==
    /\ down[l]
    /\ Delivers(l, [is |-> "status", n |-> 1])
    /\ UNCHANGED <<routerVars, numberVars, following, follows, feedError, frame, result, liveVars>>

\* Mutant: a subscription counts as the followed one when it is of the same source.
IsFollowedBySource(s) == following # None /\ followed[s].source = followed[following].source

IsFollowed(s) == s = following

\* _receive_followed: what is queued when the run has left belongs to the live run.
ReceiveFollowed(s) ==
    /\ followed[s].queue # <<>>
    /\ LET m == Head(followed[s].queue)
           l == followed[s].source
       IN  IF IsFollowed(s)
           THEN /\ followed' = [followed EXCEPT ![s].queue = Tail(@)]
                /\ frame' = IF m.is = "frame" THEN [source |-> l, n |-> m.n] ELSE frame
                /\ result' = IF m.is = "result" THEN [of |-> l, asked |-> FALSE] ELSE result
                /\ feedError' = IF m.is = "status" THEN m.n = 1 ELSE feedError
           ELSE /\ followed' = [followed EXCEPT ![s].queue = <<>>]
                /\ UNCHANGED <<frame, result, feedError>>
    /\ UNCHANGED <<routerVars, numberVars, following, follows, liveVars>>

-----------------------------------------------------------------------------

\* start(): the router is about to open the first source.
Init ==
    /\ source \in Recordings /\ phase = "starting" /\ mark = 1 /\ seen = 0 /\ stream = 0
    /\ sent = [stream |-> 0, mark |-> 0]
    /\ following = None /\ follows = 0 /\ feedError = FALSE
    /\ followed = [s \in Follows |-> [source |-> Nothing, queue |-> <<>>]]
    /\ frame = Nothing /\ result = Nothing
    /\ produced = [l \in Lives |-> 0] /\ down = [l \in Lives |-> FALSE]

RouterStep ==
    \/ \E to \in Recordings \cup Lives : Switch(to)
    \/ Seek \/ Cut \/ Play \/ LoopsBack
    \/ \E shows \in BOOLEAN : Opened(shows)

LiveStep ==
    \E l \in Lives : LiveFrame(l) \/ LiveResult(l) \/ RepeatStatus(l) \/ \E lost \in BOOLEAN : LiveTurns(l, lost)

Next ==
    \/ RouterStep \/ LiveStep
    \/ \E r \in OwnResults : Receive(r)
    \/ \E s \in Follows : ReceiveFollowed(s)

Spec == Init /\ [][Next]_vars

\* The event loop runs the readers; a shared run repeats its status, and the transport
\* does not lose every one.
FairSpec ==
    /\ Spec
    /\ \A s \in Follows : WF_vars(ReceiveFollowed(s))
    /\ \A l \in Lives : WF_vars(RepeatStatus(l))

-----------------------------------------------------------------------------

Views == [source : Recordings \cup Lives, n : Nat]
Results == [of : Lives \cup {"run"}, asked : BOOLEAN]

TypeOK ==
    /\ source \in Recordings \cup Lives /\ phase \in {"steady", "starting", "seeking", "cut"}
    /\ mark \in 1..MaxMarks /\ seen \in 0..MaxMarks /\ stream \in Nat
    /\ sent \in [stream : Nat, mark : 0..MaxMarks]
    /\ follows \in 0..MaxFollows /\ following \in 0..follows /\ feedError \in BOOLEAN
    /\ followed \in [Follows -> [source : Lives \cup {Nothing},
                                 queue : Seq([is : {"frame", "result", "status"}, n : Nat])]]
    /\ frame \in Views \cup {Nothing} /\ result \in Results \cup {Nothing}
    /\ produced \in [Lives -> Nat] /\ down \in [Lives -> BOOLEAN]

\* A module host tells streams apart by the number in their key: the frames of two
\* openings (a seek, a loop, a switch) never go under one number, and a later opening
\* has a higher one, however switches are cut and whichever of frame and status comes first.
OneStreamPerNumber ==
    [][/\ sent'.mark = sent.mark => sent'.stream = sent.stream
       /\ sent'.mark > sent.mark => sent'.stream > sent.stream]_vars

\* "Results from the other side of the switch are not about what comes next": what was
\* not asked for is of the live run that is followed, or of this run when none is.
ResultIsOfTheView ==
    result # Nothing /\ ~result.asked =>
        result.of = IF following = None THEN "run" ELSE followed[following].source

\* While the run follows a live source, the frame it shows is of that source.
FrameIsOfTheFollowed ==
    following # None /\ frame # Nothing => frame.source = followed[following].source

\* A live picture never goes back in time, also when the run leaves the source and comes
\* back while messages of the first stay are still queued.
LiveNeverGoesBack ==
    [][\A l \in Lives : frame # Nothing /\ frame' # Nothing /\ frame.source = l /\ frame'.source = l
                            => frame.n <= frame'.n]_vars

\* "A viewer who switches to it later hears it too": who follows a feed that is down
\* comes to see its error, also when the status that said so went by before.
OutageIsHeard ==
    \A l \in Lives :
        (Followed = l /\ down[l]) ~> (Followed # l \/ ~down[l] \/ feedError)

\* The status a viewer sees is "its router's, with the shared live run's error and end
\* while following one": an error that is over goes away.
\* It does not hold: see the README, section 4.
RecoveryIsHeard ==
    \A l \in Lives :
        (Followed = l /\ ~down[l]) ~> (Followed # l \/ down[l] \/ ~feedError)

=============================================================================
