------------------------- MODULE PipelineRunProofs -------------------------
(***************************************************************************)
(* PipelineRun for every set of sources and every bound: the stream        *)
(* numbers it gives, and that what it shows belongs to the view.           *)
(***************************************************************************)
EXTENDS PipelineRun, SequenceTheorems, TLAPS

\* Where the router is says whether a live run is followed.
PhaseInv ==
    /\ phase # "steady" => source \in Recordings
    /\ phase = "steady" /\ source \in Recordings => following = None
    /\ following # None => followed[following].source \in Lives

\* The number of the last frame published, beside the run's and the router's mark.
NumberInv ==
    /\ sent.mark <= seen /\ seen <= mark
    /\ sent.mark = seen => sent.stream = stream
    /\ sent.mark < seen => sent.stream < stream
    /\ following # None => sent.mark < seen

Message == [is : {"frame", "result", "status"}, n : Nat]
Subscription == [source : Lives \cup {Nothing}, queue : Seq(Message)]

-----------------------------------------------------------------------------
(* Types *)

LEMMA OfferType ==
    ASSUME NEW q \in Seq(Message), NEW m \in Message
    PROVE  Offer(q, m) \in Seq(Message)
<1>1. CASE q = <<>>
  <2>1. Len(q) # MaxQueue  BY <1>1, PipelineRunAssumption
  <2> QED  BY <2>1 DEF Offer
<1>2. CASE q # <<>>
  <2>1. Tail(q) \in Seq(Message)  BY <1>2
  <2> QED  BY <2>1 DEF Offer
<1> QED  BY <1>1, <1>2

\* What is taken from a subscription's queue, and what stays.
LEMMA QueueType ==
    ASSUME NEW q \in Seq(Message), q # <<>>
    PROVE  Head(q) \in Message /\ Tail(q) \in Seq(Message)
OBVIOUS

LEMMA EmptyQueueType == <<>> \in Seq(Message)
OBVIOUS

LEMMA InitType == Init => TypeOK
<1> SUFFICES ASSUME Init PROVE TypeOK  OBVIOUS
<1> USE DEF Init, None
<1>1. followed \in [Follows -> Subscription]  BY DEF Subscription
<1>2. source \in Recordings \cup Lives /\ phase \in {"steady", "starting", "seeking", "cut"}  OBVIOUS
<1>3. mark \in 1..MaxMarks /\ seen \in 0..MaxMarks /\ stream \in Nat  BY PipelineRunAssumption
<1>4. sent \in [stream : Nat, mark : 0..MaxMarks]  BY PipelineRunAssumption
<1>5. follows \in 0..MaxFollows /\ following \in 0..follows  BY PipelineRunAssumption
<1>6. feedError \in BOOLEAN /\ frame \in Views \cup {Nothing} /\ result \in Results \cup {Nothing}  OBVIOUS
<1>7. produced \in [Lives -> Nat] /\ down \in [Lives -> BOOLEAN]  OBVIOUS
<1> QED  BY <1>1, <1>2, <1>3, <1>4, <1>5, <1>6, <1>7 DEF TypeOK, Subscription, Message

\* What a live run publishes leaves the subscriptions well typed.
LEMMA DeliversType ==
    ASSUME TypeOK, NEW l \in Lives, NEW m \in Message, Delivers(l, m)
    PROVE  followed' \in [Follows -> Subscription]
<1> SUFFICES ASSUME NEW s \in Follows
             PROVE  (IF s = following /\ followed[s].source = l
                     THEN [followed[s] EXCEPT !.queue = Offer(@, m)] ELSE followed[s]) \in Subscription
  BY DEF Delivers
<1>1. followed[s] \in Subscription  BY DEF TypeOK, Subscription, Message
<1>2. Offer(followed[s].queue, m) \in Seq(Message)  BY <1>1, OfferType DEF Subscription
<1> QED  BY <1>1, <1>2 DEF Subscription

LEMMA NumberedType ==
    ASSUME TypeOK, NEW m \in 1..MaxMarks, Numbered(m)
    PROVE  stream' \in Nat /\ seen' \in 0..MaxMarks
BY PipelineRunAssumption DEF TypeOK, Numbered

LEMMA FollowType ==
    ASSUME TypeOK, NEW to \in Recordings \cup Lives, NEW f \in Views \cup {Nothing}, Follow(to, f)
    PROVE  /\ follows' \in 0..MaxFollows /\ following' \in 0..follows' /\ feedError' \in BOOLEAN
           /\ followed' \in [Follows -> Subscription]
           /\ frame' \in Views \cup {Nothing} /\ result' \in Results \cup {Nothing}
<1>1. frame' \in Views \cup {Nothing}  BY DEF Follow, FrameOnFollow
<1>2. CASE Followed = to \/ (Followed = Nothing /\ to \notin Lives)
  BY <1>1, <1>2 DEF Follow, followVars, TypeOK, Subscription, Message
<1>3. CASE ~(Followed = to \/ (Followed = Nothing /\ to \notin Lives))
  <2>1. result' = Nothing /\ feedError' = FALSE  BY <1>3 DEF Follow
  <2>2. CASE to \in Lives
    <3>1. /\ follows < MaxFollows /\ follows' = follows + 1 /\ following' = follows + 1
          /\ followed' = [followed EXCEPT ![follows + 1].source = to]
      BY <1>3, <2>2 DEF Follow
    <3>2. follows + 1 \in Follows  BY <3>1, PipelineRunAssumption DEF Follows, TypeOK
    <3>3. followed' \in [Follows -> Subscription]
      BY <2>2, <3>1, <3>2, ZenonT(60) DEF TypeOK, Subscription, Message
    <3>4. follows' \in 0..MaxFollows /\ following' \in 0..follows'
      BY <3>1, PipelineRunAssumption DEF TypeOK
    <3> QED  BY <1>1, <2>1, <3>3, <3>4
  <2>3. CASE to \notin Lives
    <3>1. following' = None /\ UNCHANGED <<follows, followed>>  BY <1>3, <2>3 DEF Follow
    <3>2. follows' \in 0..MaxFollows /\ following' \in 0..follows'
      BY <3>1, PipelineRunAssumption DEF TypeOK, None
    <3>3. followed' \in [Follows -> Subscription]  BY <3>1 DEF TypeOK, Subscription, Message
    <3> QED  BY <1>1, <2>1, <3>2, <3>3
  <2> QED  BY <2>2, <2>3
<1> QED  BY <1>2, <1>3

LEMMA OwnFrameType ==
    ASSUME TypeOK
    PROVE  OwnFrame \in Views
BY DEF TypeOK, OwnFrame, Views

\* A step keeps every variable in its type.
LEMMA TypeStep == TypeOK /\ PhaseInv /\ [Next]_vars => TypeOK'
<1> SUFFICES ASSUME TypeOK, PhaseInv, [Next]_vars PROVE TypeOK'  OBVIOUS
<1> USE DEF Subscription, Message
<1>1. ASSUME NEW to \in Recordings \cup Lives, Switch(to) PROVE TypeOK'
  <2>1. mark' \in 1..MaxMarks /\ mark + 1 \in 1..MaxMarks
    BY <1>1, PipelineRunAssumption DEF Switch, TypeOK
  <2>2. CASE to \in Lives
    <3>1. Numbered(mark + 1) /\ Follow(to, frame)  BY <1>1, <2>2 DEF Switch
    <3>2. stream' \in Nat /\ seen' \in 0..MaxMarks  BY <2>1, <3>1, NumberedType
    <3>3. frame \in Views \cup {Nothing}  BY DEF TypeOK
    <3>4. /\ follows' \in 0..MaxFollows /\ following' \in 0..follows' /\ feedError' \in BOOLEAN
          /\ followed' \in [Follows -> Subscription]
          /\ frame' \in Views \cup {Nothing} /\ result' \in Results \cup {Nothing}
      BY <3>1, <3>3, FollowType
    <3> QED  BY <1>1, <2>1, <2>2, <3>2, <3>4 DEF Switch, TypeOK, liveVars
  <2>3. CASE to \notin Lives
    BY <1>1, <2>1, <2>3 DEF Switch, TypeOK, liveVars, numberVars, followVars
  <2> QED  BY <2>2, <2>3
<1>2. CASE Seek
  BY <1>2, PipelineRunAssumption DEF Seek, TypeOK, liveVars, numberVars, followVars
<1>3. CASE Cut
  BY <1>3 DEF Cut, TypeOK, liveVars, numberVars, followVars
<1>4. CASE Play
  <2>1. mark \in 1..MaxMarks /\ mark \in 0..MaxMarks  BY PipelineRunAssumption DEF TypeOK
  <2>2. stream' \in Nat /\ seen' \in 0..MaxMarks
    BY <1>4, <2>1, NumberedType DEF Play, PublishFrame
  <2>3. sent' \in [stream : Nat, mark : 0..MaxMarks]
    BY <1>4, <2>1, <2>2 DEF Play, PublishFrame
  <2>4. frame' \in Views \cup {Nothing}
    BY <1>4, OwnFrameType DEF Play, PublishFrame
  <2> QED
    BY <1>4, <2>2, <2>3, <2>4 DEF Play, TypeOK, liveVars, routerVars, followVars
<1>5. CASE LoopsBack
  BY <1>5, PipelineRunAssumption DEF LoopsBack, TypeOK, liveVars, numberVars, followVars
<1>6. ASSUME NEW shows \in BOOLEAN, Opened(shows) PROVE TypeOK'
  <2> DEFINE f == IF shows THEN OwnFrame ELSE frame
  <2>1. mark \in 1..MaxMarks /\ mark \in 0..MaxMarks  BY PipelineRunAssumption DEF TypeOK
  <2>2. stream' \in Nat /\ seen' \in 0..MaxMarks
    BY <1>6, <2>1, NumberedType DEF Opened
  <2>3. sent' \in [stream : Nat, mark : 0..MaxMarks]
    BY <1>6, <2>1, <2>2 DEF Opened, TypeOK
  <2>4. f \in Views \cup {Nothing}  BY OwnFrameType DEF TypeOK
  <2>5. source \in Recordings \cup Lives  BY DEF TypeOK
  <2>6. Follow(source, f)  BY <1>6 DEF Opened
  <2> HIDE DEF f
  <2>7. /\ follows' \in 0..MaxFollows /\ following' \in 0..follows' /\ feedError' \in BOOLEAN
        /\ followed' \in [Follows -> Subscription]
        /\ frame' \in Views \cup {Nothing} /\ result' \in Results \cup {Nothing}
    BY <2>4, <2>5, <2>6, FollowType
  <2> QED  BY <1>6, <2>2, <2>3, <2>7 DEF Opened, TypeOK, liveVars
<1>7. ASSUME NEW l \in Lives, LiveFrame(l) PROVE TypeOK'
  <2>1. [is |-> "frame", n |-> produced[l] + 1] \in Message  BY DEF TypeOK
  <2>2. followed' \in [Follows -> Subscription]  BY <1>7, <2>1, DeliversType DEF LiveFrame
  <2>3. produced' \in [Lives -> Nat]  BY <1>7 DEF LiveFrame, TypeOK
  <2> QED  BY <1>7, <2>2, <2>3 DEF LiveFrame, TypeOK, routerVars, numberVars
<1>8. ASSUME NEW l \in Lives, LiveResult(l) PROVE TypeOK'
  <2>1. [is |-> "result", n |-> 0] \in Message  OBVIOUS
  <2>2. followed' \in [Follows -> Subscription]  BY <1>8, <2>1, DeliversType DEF LiveResult
  <2> QED  BY <1>8, <2>2 DEF LiveResult, TypeOK, routerVars, numberVars, liveVars
<1>9. ASSUME NEW l \in Lives, RepeatStatus(l) PROVE TypeOK'
  <2>1. [is |-> "status", n |-> 1] \in Message  OBVIOUS
  <2>2. followed' \in [Follows -> Subscription]  BY <1>9, <2>1, DeliversType DEF RepeatStatus
  <2> QED  BY <1>9, <2>2 DEF RepeatStatus, TypeOK, routerVars, numberVars, liveVars
<1>10. ASSUME NEW l \in Lives, NEW lost \in BOOLEAN, LiveTurns(l, lost) PROVE TypeOK'
  <2>1. [is |-> "status", n |-> IF down[l] THEN 0 ELSE 1] \in Message  OBVIOUS
  <2>2. followed' \in [Follows -> Subscription]
    <3>1. CASE lost  BY <1>10, <3>1 DEF LiveTurns, TypeOK
    <3>2. CASE ~lost  BY <1>10, <2>1, <3>2, DeliversType DEF LiveTurns
    <3> QED  BY <3>1, <3>2
  <2>3. down' \in [Lives -> BOOLEAN]  BY <1>10 DEF LiveTurns, TypeOK
  <2> QED  BY <1>10, <2>2, <2>3 DEF LiveTurns, TypeOK, routerVars, numberVars
<1>11. ASSUME NEW r \in OwnResults, Receive(r) PROVE TypeOK'
  <2>1. r.asked \in BOOLEAN  BY DEF OwnResults
  <2>2. result' \in Results \cup {Nothing}
    <3>1. CASE Takes(r)  BY <1>11, <2>1, <3>1 DEF Receive, Takes, Results
    <3>2. CASE ~Takes(r)  BY <1>11, <3>2 DEF Receive, TypeOK
    <3> QED  BY <3>1, <3>2
  <2> QED  BY <1>11, <2>2 DEF Receive, TypeOK, routerVars, numberVars, followVars, liveVars
<1>12. ASSUME NEW s \in Follows, ReceiveFollowed(s) PROVE TypeOK'
  <2> DEFINE q == followed[s].queue
             m == Head(q)
             l == followed[s].source
  <2>1. followed[s] \in Subscription /\ q # <<>>
    BY <1>12 DEF ReceiveFollowed, TypeOK
  <2>2. q \in Seq(Message)  BY <2>1
  <2>3. m \in Message /\ Tail(q) \in Seq(Message)
    BY <2>1, <2>2, QueueType
  <2>4. CASE IsFollowed(s)
    <3>1. l \in Lives  BY <2>4 DEF IsFollowed, PhaseInv, Follows, None
    <3>2. followed' = [followed EXCEPT ![s].queue = Tail(q)]  BY <1>12, <2>4 DEF ReceiveFollowed
    <3>3. followed' \in [Follows -> Subscription]
      <4> HIDE DEF q
      <4> QED  BY <2>3, <3>2, ZenonT(60) DEF TypeOK
    <3>4. frame' \in Views \cup {Nothing}
      BY <1>12, <2>3, <2>4, <3>1 DEF ReceiveFollowed, TypeOK, Views
    <3>5. result' \in Results \cup {Nothing}
      <4>1. [of |-> l, asked |-> FALSE] \in Results  BY <3>1 DEF Results
      <4>2. result' = IF m.is = "result" THEN [of |-> l, asked |-> FALSE] ELSE result
        BY <1>12, <2>4 DEF ReceiveFollowed
      <4> QED  BY <4>1, <4>2 DEF TypeOK
    <3>6. feedError' \in BOOLEAN  BY <1>12, <2>4 DEF ReceiveFollowed, TypeOK
    <3> QED  BY <1>12, <3>3, <3>4, <3>5, <3>6 DEF ReceiveFollowed, TypeOK, routerVars, numberVars, liveVars
  <2>5. CASE ~IsFollowed(s)
    <3>1. followed' = [followed EXCEPT ![s].queue = <<>>] /\ UNCHANGED <<frame, result, feedError>>
      BY <1>12, <2>5 DEF ReceiveFollowed
    <3>2. followed' \in [Follows -> Subscription]  BY <3>1, EmptyQueueType DEF TypeOK
    <3> QED  BY <1>12, <3>1, <3>2 DEF ReceiveFollowed, TypeOK, routerVars, numberVars, liveVars
  <2> QED  BY <2>4, <2>5
<1>13. CASE UNCHANGED vars
  BY <1>13 DEF vars, TypeOK, routerVars, numberVars, followVars, liveVars
<1> QED
  BY <1>1, <1>2, <1>3, <1>4, <1>5, <1>6, <1>7, <1>8, <1>9, <1>10, <1>11, <1>12, <1>13
  DEF Next, RouterStep, LiveStep

-----------------------------------------------------------------------------
(* Which side is followed, and under which number frames go *)

\* After a status the run follows the source it came from, or none; when that is what it
\* did before nothing else changes, otherwise results are forgotten.
LEMMA FollowOutcome ==
    ASSUME TypeOK, PhaseInv, NEW to \in Recordings \cup Lives, NEW f, Follow(to, f)
    PROVE  /\ to \in Lives => following' # None /\ followed'[following'].source = to
           /\ to \notin Lives => following' = None
           /\ \/ UNCHANGED <<followVars, result>>
              \/ result' = Nothing
           /\ \/ frame' = f /\ (to \in Lives => UNCHANGED followVars)
              \/ frame' = Nothing
<1>1. CASE Followed = to \/ (Followed = Nothing /\ to \notin Lives)
  <2>1. UNCHANGED <<followVars, result>>  BY <1>1 DEF Follow
  <2>2. frame' = f \/ frame' = Nothing  BY <1>1 DEF Follow, FrameOnFollow
  <2>3. following # None => Followed \in Lives  BY DEF PhaseInv, Followed
  <2>4. following = None => Followed = Nothing  BY DEF Followed
  <2>5. to # Nothing  BY PipelineRunAssumption
  <2>6. to \in Lives => following # None /\ followed[following].source = to
    BY <1>1, <2>4, <2>5 DEF Followed
  <2>7. to \notin Lives => following = None  BY <1>1, <2>3, PipelineRunAssumption
  <2> QED  BY <2>1, <2>2, <2>6, <2>7 DEF followVars
<1>2. CASE ~(Followed = to \/ (Followed = Nothing /\ to \notin Lives))
  <2>1. result' = Nothing  BY <1>2 DEF Follow
  <2>2. CASE to \in Lives
    <3>1. /\ follows < MaxFollows /\ following' = follows + 1
          /\ followed' = [followed EXCEPT ![follows + 1].source = to]
      BY <1>2, <2>2 DEF Follow
    <3>2. follows + 1 \in Follows /\ follows + 1 # None
      BY <3>1, PipelineRunAssumption DEF Follows, TypeOK, None
    <3>3. followed'[following'].source = to  BY <3>1, <3>2 DEF TypeOK
    <3>4. frame' = Nothing  BY <1>2, <2>2 DEF Follow, FrameOnFollow
    <3> QED  BY <2>1, <2>2, <3>1, <3>2, <3>3, <3>4
  <2>3. CASE to \notin Lives
    <3>1. following' = None /\ frame' = f  BY <1>2, <2>3 DEF Follow
    <3> QED  BY <2>1, <2>3, <3>1
  <2> QED  BY <2>2, <2>3
<1> QED  BY <1>1, <1>2

\* What the live runs publish and the readers take leaves alone what the run follows and
\* all of the router and of the numbers.
LEMMA OthersKeep ==
    ASSUME TypeOK,
           LiveStep \/ (\E r \in OwnResults : Receive(r)) \/ (\E s \in Follows : ReceiveFollowed(s))
    PROVE  /\ UNCHANGED <<routerVars, numberVars, following, follows>>
           /\ \A s \in Follows : followed'[s].source = followed[s].source
<1> DEFINE Kept == \A t \in Follows : followed'[t].source = followed[t].source
<1>1. ASSUME NEW l, NEW m, Delivers(l, m) PROVE Kept
  BY <1>1 DEF Delivers, TypeOK
<1>2. ASSUME NEW l \in Lives, LiveFrame(l)
      PROVE  UNCHANGED <<routerVars, numberVars, following, follows>> /\ Kept
  BY <1>1, <1>2 DEF LiveFrame
<1>3. ASSUME NEW l \in Lives, LiveResult(l) \/ RepeatStatus(l)
      PROVE  UNCHANGED <<routerVars, numberVars, following, follows>> /\ Kept
  BY <1>1, <1>3 DEF LiveResult, RepeatStatus
<1>4. ASSUME NEW l \in Lives, NEW lost \in BOOLEAN, LiveTurns(l, lost)
      PROVE  UNCHANGED <<routerVars, numberVars, following, follows>> /\ Kept
  BY <1>1, <1>4 DEF LiveTurns
<1>5. ASSUME NEW r, Receive(r)
      PROVE  UNCHANGED <<routerVars, numberVars, following, follows>> /\ Kept
  BY <1>5 DEF Receive, followVars
<1>6. ASSUME NEW s \in Follows, ReceiveFollowed(s)
      PROVE  UNCHANGED <<routerVars, numberVars, following, follows>> /\ Kept
  <2>1. UNCHANGED <<routerVars, numberVars, following, follows>>  BY <1>6 DEF ReceiveFollowed
  <2>2. \E q : followed' = [followed EXCEPT ![s].queue = q]  BY <1>6 DEF ReceiveFollowed
  <2>3. Kept  BY <2>2 DEF TypeOK
  <2> QED  BY <2>1, <2>3
<1> QED  BY <1>2, <1>3, <1>4, <1>5, <1>6 DEF LiveStep

LEMMA PhaseStep == TypeOK /\ PhaseInv /\ [Next]_vars => PhaseInv'
<1> SUFFICES ASSUME TypeOK, PhaseInv, [Next]_vars PROVE PhaseInv'  OBVIOUS
<1>1. ASSUME NEW to \in Recordings \cup Lives, Switch(to) PROVE PhaseInv'
  <2>1. CASE to \in Lives
    <3>1. Follow(to, frame) /\ source' = to /\ phase' = "steady"  BY <1>1, <2>1 DEF Switch
    <3>2. following' # None /\ followed'[following'].source = to  BY <2>1, <3>1, FollowOutcome
    <3> QED  BY <2>1, <3>1, <3>2, PipelineRunAssumption DEF PhaseInv
  <2>2. CASE to \notin Lives
    BY <1>1, <2>2 DEF Switch, PhaseInv, followVars
  <2> QED  BY <2>1, <2>2
<1>2. CASE Seek \/ Cut \/ Play \/ LoopsBack
  BY <1>2 DEF Seek, Cut, Play, LoopsBack, PhaseInv, followVars, routerVars
<1>3. ASSUME NEW shows \in BOOLEAN, Opened(shows) PROVE PhaseInv'
  <2>1. /\ Follow(source, IF shows THEN OwnFrame ELSE frame)
        /\ phase' = "steady" /\ source' = source /\ phase # "steady"
    BY <1>3 DEF Opened
  <2>2. source \in Recordings \cup Lives /\ source \notin Lives
    BY <2>1, PipelineRunAssumption DEF PhaseInv
  <2>3. following' = None  BY <2>1, <2>2, FollowOutcome
  <2> QED  BY <2>1, <2>3 DEF PhaseInv
<1>4. CASE LiveStep \/ (\E r \in OwnResults : Receive(r)) \/ (\E s \in Follows : ReceiveFollowed(s))
  <2>1. UNCHANGED <<routerVars, following>> /\ \A s \in Follows : followed'[s].source = followed[s].source
    BY <1>4, OthersKeep
  <2>2. following # None => following \in Follows
    BY PipelineRunAssumption DEF TypeOK, None, Follows
  <2> QED  BY <2>1, <2>2 DEF PhaseInv, routerVars
<1>5. CASE UNCHANGED vars
  BY <1>5 DEF vars, PhaseInv, routerVars, followVars
<1> QED  BY <1>1, <1>2, <1>3, <1>4, <1>5 DEF Next, RouterStep

\* The frame that a message publishes under its number comes after all earlier ones.
LEMMA NumberedOutcome ==
    ASSUME TypeOK, NumberInv, NEW m \in Nat, m >= mark, Numbered(m)
    PROVE  /\ seen' = m /\ sent.stream <= stream' /\ sent.mark <= m
           /\ sent.mark = m => sent.stream = stream' /\ seen = m
           /\ sent.mark < m => sent.stream < stream'
<1>1. seen \in Nat /\ mark \in Nat /\ stream \in Nat /\ sent.mark \in Nat /\ sent.stream \in Nat
  BY DEF TypeOK
<1>2. CASE m = seen  BY <1>1, <1>2 DEF Numbered, NumberInv
<1>3. CASE m # seen  BY <1>1, <1>3 DEF Numbered, NumberInv
<1> QED  BY <1>2, <1>3

LEMMA NumberStep == TypeOK /\ PhaseInv /\ NumberInv /\ [Next]_vars => NumberInv'
<1> SUFFICES ASSUME TypeOK, PhaseInv, NumberInv, [Next]_vars PROVE NumberInv'  OBVIOUS
<1>a. seen \in Nat /\ mark \in Nat /\ stream \in Nat /\ sent.mark \in Nat /\ sent.stream \in Nat
  BY DEF TypeOK
<1>1. ASSUME NEW to \in Recordings \cup Lives, Switch(to) PROVE NumberInv'
  <2>1. mark' = mark + 1 /\ sent' = sent  BY <1>1 DEF Switch, numberVars
  <2>2. CASE to \in Lives
    <3>1. Numbered(mark + 1)  BY <1>1, <2>2 DEF Switch
    <3>2. /\ seen' = mark + 1 /\ sent.mark < mark + 1
          /\ sent.mark < mark + 1 => sent.stream < stream'
      BY <1>a, <3>1, NumberedOutcome DEF NumberInv
    <3> QED  BY <1>a, <2>1, <3>2 DEF NumberInv
  <2>3. CASE to \notin Lives
    BY <1>1, <1>a, <2>1, <2>3 DEF Switch, NumberInv, numberVars, followVars
  <2> QED  BY <2>2, <2>3
<1>2. CASE Seek \/ Cut \/ LoopsBack
  BY <1>2, <1>a DEF Seek, Cut, LoopsBack, NumberInv, followVars, numberVars
<1>3. CASE Play
  <2>1. /\ Numbered(mark) /\ sent' = [stream |-> stream', mark |-> mark]
        /\ mark' = mark /\ following' = following /\ following = None
    BY <1>3 DEF Play, PublishFrame, routerVars, followVars, PhaseInv
  <2>2. seen' = mark  BY <2>1 DEF Numbered
  <2> QED  BY <1>a, <2>1, <2>2 DEF NumberInv
<1>4. ASSUME NEW shows \in BOOLEAN, Opened(shows) PROVE NumberInv'
  <2>1. /\ Numbered(mark) /\ Follow(source, IF shows THEN OwnFrame ELSE frame)
        /\ sent' = IF shows THEN [stream |-> stream', mark |-> mark] ELSE sent
        /\ mark' = mark /\ phase # "steady"
    BY <1>4 DEF Opened
  <2>2. source \in Recordings \cup Lives /\ source \notin Lives
    BY <2>1, PipelineRunAssumption DEF PhaseInv
  <2>3. following' = None  BY <2>1, <2>2, FollowOutcome
  <2>4. /\ seen' = mark
        /\ sent.mark <= mark
        /\ sent.mark = mark => sent.stream = stream'
        /\ sent.mark < mark => sent.stream < stream'
    BY <1>a, <2>1, NumberedOutcome DEF NumberInv
  <2>5. CASE shows  BY <1>a, <2>1, <2>3, <2>4, <2>5 DEF NumberInv
  <2>6. CASE ~shows  BY <1>a, <2>1, <2>3, <2>4, <2>6 DEF NumberInv
  <2> QED  BY <2>5, <2>6
<1>5. CASE LiveStep \/ (\E r \in OwnResults : Receive(r)) \/ (\E s \in Follows : ReceiveFollowed(s))
  <2>1. UNCHANGED <<routerVars, numberVars, following>>  BY <1>5, OthersKeep
  <2> QED  BY <2>1 DEF NumberInv, routerVars, numberVars
<1>6. CASE UNCHANGED vars
  BY <1>6 DEF vars, NumberInv, routerVars, numberVars, followVars
<1> QED  BY <1>1, <1>2, <1>3, <1>4, <1>5, <1>6 DEF Next, RouterStep

-----------------------------------------------------------------------------
(* What is shown is of the view *)

\* Only a run that follows none publishes frames, so none of its own results is in time
\* for a run that follows.
LEMMA ResultStep ==
    TypeOK /\ PhaseInv /\ NumberInv /\ ResultIsOfTheView /\ [Next]_vars => ResultIsOfTheView'
<1> SUFFICES ASSUME TypeOK, PhaseInv, NumberInv, ResultIsOfTheView, [Next]_vars
             PROVE  ResultIsOfTheView'
  OBVIOUS
<1>a. following # None => following \in Follows
  BY PipelineRunAssumption DEF TypeOK, None, Follows
<1>1. ASSUME NEW to \in Recordings \cup Lives, NEW f, Follow(to, f) PROVE ResultIsOfTheView'
  <2>1. UNCHANGED <<followVars, result>> \/ result' = Nothing  BY <1>1, FollowOutcome
  <2> QED  BY <2>1 DEF ResultIsOfTheView, followVars
<1>2. ASSUME NEW to \in Recordings \cup Lives, Switch(to) PROVE ResultIsOfTheView'
  <2>1. CASE to \in Lives  BY <1>1, <1>2, <2>1 DEF Switch
  <2>2. CASE to \notin Lives  BY <1>2, <2>2 DEF Switch, ResultIsOfTheView, followVars
  <2> QED  BY <2>1, <2>2
<1>3. ASSUME NEW shows \in BOOLEAN, Opened(shows) PROVE ResultIsOfTheView'
  BY <1>1, <1>3 DEF Opened, TypeOK
<1>4. CASE Seek \/ Cut \/ Play \/ LoopsBack
  BY <1>4 DEF Seek, Cut, Play, LoopsBack, ResultIsOfTheView, followVars
<1>5. ASSUME NEW l \in Lives,
             LiveFrame(l) \/ LiveResult(l) \/ RepeatStatus(l) \/ \E lost \in BOOLEAN : LiveTurns(l, lost)
      PROVE  ResultIsOfTheView'
  <2>1. UNCHANGED <<following, result>>
    BY <1>5 DEF LiveFrame, LiveResult, RepeatStatus, LiveTurns
  <2>2. \A s \in Follows : followed'[s].source = followed[s].source
    BY <1>5, OthersKeep DEF LiveStep
  <2> QED  BY <1>a, <2>1, <2>2 DEF ResultIsOfTheView
<1>6. ASSUME NEW r \in OwnResults, Receive(r) PROVE ResultIsOfTheView'
  <2>1. UNCHANGED followVars  BY <1>6 DEF Receive
  <2>2. CASE ~Takes(r) \/ r.asked
    <3>1. CASE ~Takes(r)  BY <1>6, <2>1, <3>1 DEF Receive, ResultIsOfTheView, followVars
    <3>2. CASE Takes(r) /\ r.asked
      BY <1>6, <3>2 DEF Receive, ResultIsOfTheView
    <3> QED  BY <2>2, <3>1, <3>2
  <2>3. CASE Takes(r) /\ ~r.asked
    <3>1. r.of = "run" /\ r.n >= stream  BY <2>3 DEF Takes
    <3>2. r.n <= sent.stream  BY <3>1 DEF OwnResults
    <3>6. r.n \in 1..MaxMarks  BY DEF OwnResults
    <3>5. r.n \in Nat  BY <3>6
    <3>3. following = None  BY <3>5, <3>1, <3>2 DEF NumberInv, TypeOK
    <3>4. result' = [of |-> r.of, asked |-> r.asked]  BY <1>6, <2>3 DEF Receive
    <3> QED  BY <2>1, <3>1, <3>3, <3>4 DEF ResultIsOfTheView, followVars
  <2> QED  BY <2>2, <2>3
<1>7. ASSUME NEW s \in Follows, ReceiveFollowed(s) PROVE ResultIsOfTheView'
  <2>1. following' = following  BY <1>7 DEF ReceiveFollowed
  <2>2. \A t \in Follows : followed'[t].source = followed[t].source  BY <1>7, OthersKeep
  <2>3. CASE result' = result  BY <1>a, <2>1, <2>2, <2>3 DEF ResultIsOfTheView
  <2>4. CASE result' # result
    <3>1. s = following /\ result' = [of |-> followed[s].source, asked |-> FALSE]
      BY <1>7, <2>4 DEF ReceiveFollowed, IsFollowed
    <3>2. following # None  BY <3>1 DEF Follows, None
    <3> QED  BY <2>1, <2>2, <3>1, <3>2 DEF ResultIsOfTheView
  <2> QED  BY <2>3, <2>4
<1>8. CASE UNCHANGED vars
  BY <1>8 DEF vars, ResultIsOfTheView, followVars
<1> QED  BY <1>2, <1>3, <1>4, <1>5, <1>6, <1>7, <1>8 DEF Next, RouterStep, LiveStep

LEMMA FrameStep ==
    TypeOK /\ PhaseInv /\ FrameIsOfTheFollowed /\ [Next]_vars => FrameIsOfTheFollowed'
<1> SUFFICES ASSUME TypeOK, PhaseInv, FrameIsOfTheFollowed, [Next]_vars
             PROVE  FrameIsOfTheFollowed'
  OBVIOUS
<1>a. following # None => following \in Follows
  BY PipelineRunAssumption DEF TypeOK, None, Follows
<1>1. ASSUME NEW to \in Recordings \cup Lives, Switch(to) PROVE FrameIsOfTheFollowed'
  <2>1. CASE to \in Lives
    <3>1. Follow(to, frame)  BY <1>1, <2>1 DEF Switch
    <3>2. (frame' = frame /\ UNCHANGED followVars) \/ frame' = Nothing  BY <2>1, <3>1, FollowOutcome
    <3> QED  BY <3>2 DEF FrameIsOfTheFollowed, followVars
  <2>2. CASE to \notin Lives  BY <1>1, <2>2 DEF Switch, FrameIsOfTheFollowed, followVars
  <2> QED  BY <2>1, <2>2
<1>2. ASSUME NEW shows \in BOOLEAN, Opened(shows) PROVE FrameIsOfTheFollowed'
  <2>1. Follow(source, IF shows THEN OwnFrame ELSE frame) /\ phase # "steady"  BY <1>2 DEF Opened
  <2>2. source \in Recordings \cup Lives /\ source \notin Lives
    BY <2>1, PipelineRunAssumption DEF PhaseInv
  <2>3. following' = None  BY <2>1, <2>2, FollowOutcome
  <2> QED  BY <2>3 DEF FrameIsOfTheFollowed
<1>3. CASE Play
  BY <1>3 DEF Play, PhaseInv, FrameIsOfTheFollowed, followVars
<1>4. CASE Seek \/ Cut \/ LoopsBack
  BY <1>4 DEF Seek, Cut, LoopsBack, FrameIsOfTheFollowed, followVars
<1>5. CASE LiveStep \/ \E r \in OwnResults : Receive(r)
  <2>1. following' = following /\ \A s \in Follows : followed'[s].source = followed[s].source
    BY <1>5, OthersKeep
  <2>2. frame' = frame
    BY <1>5 DEF LiveStep, LiveFrame, LiveResult, RepeatStatus, LiveTurns, Receive
  <2> QED  BY <1>a, <2>1, <2>2 DEF FrameIsOfTheFollowed
<1>6. ASSUME NEW s \in Follows, ReceiveFollowed(s) PROVE FrameIsOfTheFollowed'
  <2>1. following' = following /\ \A t \in Follows : followed'[t].source = followed[t].source
    BY <1>6, OthersKeep
  <2>2. frame' = frame \/ (s = following /\ frame'.source = followed[s].source)
    BY <1>6 DEF ReceiveFollowed, IsFollowed
  <2> QED  BY <1>a, <2>1, <2>2 DEF FrameIsOfTheFollowed
<1>7. CASE UNCHANGED vars
  BY <1>7 DEF vars, FrameIsOfTheFollowed, followVars
<1> QED  BY <1>1, <1>2, <1>3, <1>4, <1>5, <1>6, <1>7 DEF Next, RouterStep

-----------------------------------------------------------------------------
(* A live picture never goes back *)

IsFrame(m) == m.is = "frame"

\* What is queued of a followed run: its frames in order, and none above or below n.
Sorted(q) == \A i, j \in 1..Len(q) : i <= j /\ IsFrame(q[i]) /\ IsFrame(q[j]) => q[i].n <= q[j].n
AtMost(q, n) == \A i \in 1..Len(q) : IsFrame(q[i]) => q[i].n <= n
AtLeast(q, n) == \A i \in 1..Len(q) : IsFrame(q[i]) => n <= q[i].n

OrderInv ==
    /\ \A s \in Follows : Sorted(followed[s].queue)
    /\ \A s \in Follows : s > follows => followed[s].queue = <<>>
    /\ \A s \in Follows : followed[s].source \in Lives =>
                            AtMost(followed[s].queue, produced[followed[s].source])
    /\ following # None /\ frame # Nothing =>
            /\ AtLeast(followed[following].queue, frame.n)
            /\ frame.n <= produced[frame.source]

LEMMA TailKeepsOrder ==
    ASSUME NEW q \in Seq(Message), q # <<>>, NEW n \in Nat
    PROVE  /\ Sorted(q) => Sorted(Tail(q))
           /\ AtMost(q, n) => AtMost(Tail(q), n)
           /\ AtLeast(q, n) => AtLeast(Tail(q), n)
           /\ Sorted(q) /\ IsFrame(Head(q)) => AtLeast(Tail(q), Head(q).n)
<1>1. /\ Len(Tail(q)) = Len(q) - 1 /\ Len(q) \in Nat \ {0}
      /\ \A i \in 1..Len(Tail(q)) : Tail(q)[i] = q[i + 1]
  BY HeadTailProperties, EmptySeq
<1>2. Head(q) = q[1]  OBVIOUS
<1>3. \A i \in 1..Len(Tail(q)) : i + 1 \in 1..Len(q)  BY <1>1
<1>4. Sorted(q) => Sorted(Tail(q))  BY <1>1, <1>3 DEF Sorted
<1>5. AtMost(q, n) => AtMost(Tail(q), n)  BY <1>1, <1>3 DEF AtMost
<1>6. AtLeast(q, n) => AtLeast(Tail(q), n)  BY <1>1, <1>3 DEF AtLeast
<1>7. Sorted(q) /\ IsFrame(Head(q)) => AtLeast(Tail(q), Head(q).n)
  BY <1>1, <1>2, <1>3 DEF Sorted, AtLeast
<1> QED  BY <1>4, <1>5, <1>6, <1>7

LEMMA AppendKeepsOrder ==
    ASSUME NEW q \in Seq(Message), NEW m \in Message, NEW n \in Nat
    PROVE  /\ Sorted(q) /\ (IsFrame(m) => AtMost(q, m.n)) => Sorted(Append(q, m))
           /\ AtMost(q, n) /\ (IsFrame(m) => m.n <= n) => AtMost(Append(q, m), n)
           /\ AtLeast(q, n) /\ (IsFrame(m) => n <= m.n) => AtLeast(Append(q, m), n)
<1>1. /\ Len(Append(q, m)) = Len(q) + 1 /\ Len(q) \in Nat
      /\ \A i \in 1..Len(q) : Append(q, m)[i] = q[i]
      /\ Append(q, m)[Len(q) + 1] = m
  OBVIOUS
<1>2. \A i \in 1..Len(q) + 1 : i \in 1..Len(q) \/ i = Len(q) + 1  BY <1>1
<1>3. Sorted(q) /\ (IsFrame(m) => AtMost(q, m.n)) => Sorted(Append(q, m))
  <2> SUFFICES ASSUME Sorted(q), IsFrame(m) => AtMost(q, m.n),
                      NEW i \in 1..Len(q) + 1, NEW j \in 1..Len(q) + 1, i <= j,
                      IsFrame(Append(q, m)[i]), IsFrame(Append(q, m)[j])
               PROVE  Append(q, m)[i].n <= Append(q, m)[j].n
    BY <1>1 DEF Sorted
  <2>1. CASE j \in 1..Len(q)  BY <1>1, <2>1 DEF Sorted
  <2>2. CASE j = Len(q) + 1 /\ i \in 1..Len(q)  BY <1>1, <2>2 DEF AtMost
  <2>3. CASE j = Len(q) + 1 /\ i = Len(q) + 1
    <3>1. m.n \in Nat  BY DEF Message
    <3> QED  BY <1>1, <2>3, <3>1
  <2> QED  BY <1>2, <2>1, <2>2, <2>3
<1>4. AtMost(q, n) /\ (IsFrame(m) => m.n <= n) => AtMost(Append(q, m), n)  BY <1>1, <1>2 DEF AtMost
<1>5. AtLeast(q, n) /\ (IsFrame(m) => n <= m.n) => AtLeast(Append(q, m), n)  BY <1>1, <1>2 DEF AtLeast
<1> QED  BY <1>3, <1>4, <1>5

LEMMA OfferKeepsOrder ==
    ASSUME NEW q \in Seq(Message), NEW m \in Message, NEW n \in Nat
    PROVE  /\ Sorted(q) /\ (IsFrame(m) => AtMost(q, m.n)) => Sorted(Offer(q, m))
           /\ AtMost(q, n) /\ (IsFrame(m) => m.n <= n) => AtMost(Offer(q, m), n)
           /\ AtLeast(q, n) /\ (IsFrame(m) => n <= m.n) => AtLeast(Offer(q, m), n)
<1>1. CASE Len(q) # MaxQueue  BY <1>1, AppendKeepsOrder DEF Offer
<1>2. CASE Len(q) = MaxQueue
  <2>1. q # <<>> /\ Tail(q) \in Seq(Message)  BY <1>2, PipelineRunAssumption
  <2>2. m.n \in Nat  BY DEF Message
  <2>3. Offer(q, m) = Append(Tail(q), m)  BY <1>2 DEF Offer
  <2>4. IsFrame(m) /\ AtMost(q, m.n) => AtMost(Tail(q), m.n)  BY <2>1, <2>2, TailKeepsOrder
  <2> QED  BY <2>1, <2>3, <2>4, TailKeepsOrder, AppendKeepsOrder
<1> QED  BY <1>1, <1>2

\* What a live run publishes comes after what it published before.
LEMMA DeliversKeepsOrder ==
    ASSUME TypeOK, PhaseInv, FrameIsOfTheFollowed, OrderInv,
           NEW l \in Lives, NEW m \in Message, Delivers(l, m),
           UNCHANGED <<following, follows, frame>>,
           \/ ~IsFrame(m) /\ produced' = produced
           \/ IsFrame(m) /\ m.n = produced[l] + 1 /\ produced' = [produced EXCEPT ![l] = @ + 1]
    PROVE  OrderInv'
<1> DEFINE q(s) == followed[s].queue
           to(s) == s = following /\ followed[s].source = l
<1>1. \A s \in Follows : q(s) \in Seq(Message)  BY DEF TypeOK, Message
<1>2. \A s \in Follows : followed'[s].source = followed[s].source
  BY DEF Delivers, TypeOK
<1>3. \A s \in Follows : followed'[s].queue = IF to(s) THEN Offer(q(s), m) ELSE q(s)
  BY DEF Delivers, TypeOK
<1>4. \A k \in Lives : produced[k] \in Nat /\ produced'[k] \in Nat /\ produced[k] <= produced'[k]
  BY DEF TypeOK
<1>5. IsFrame(m) => m.n = produced[l] + 1 /\ produced'[l] = produced[l] + 1
  BY DEF TypeOK
<1>a. following # None => following \in Follows
  BY PipelineRunAssumption DEF TypeOK, None, Follows
<1> HIDE DEF q
<1>6. \A s \in Follows : \A k \in Lives : AtMost(q(s), produced[k]) => AtMost(q(s), produced'[k])
  <2> SUFFICES ASSUME NEW s \in Follows, NEW k \in Lives, AtMost(q(s), produced[k]),
                      NEW i \in 1..Len(q(s)), IsFrame(q(s)[i])
               PROVE  q(s)[i].n <= produced'[k]
    BY DEF AtMost
  <2>1. q(s)[i] \in Message  BY <1>1
  <2>2. q(s)[i].n \in Nat  BY <2>1 DEF Message
  <2>3. q(s)[i].n <= produced[k]  BY DEF AtMost
  <2> QED  BY <1>4, <2>2, <2>3
<1>7. ASSUME NEW s \in Follows
      PROVE  /\ Sorted(followed'[s].queue)
             /\ followed'[s].source \in Lives => AtMost(followed'[s].queue, produced'[followed'[s].source])
  <2>1. Sorted(q(s)) /\ (followed[s].source \in Lives => AtMost(q(s), produced[followed[s].source]))
    BY DEF OrderInv, q
  <2>2. CASE ~to(s)  BY <1>2, <1>3, <1>6, <2>1, <2>2
  <2>3. CASE to(s)
    <3>1. AtMost(q(s), produced'[l]) /\ AtMost(q(s), produced[l])  BY <1>6, <2>1, <2>3
    <3>2. IsFrame(m) => AtMost(q(s), m.n)  BY <1>5, <3>1
    <3>3. Sorted(Offer(q(s), m))  BY <1>1, <1>4, <2>1, <3>2, OfferKeepsOrder
    <3>4. IsFrame(m) => m.n <= produced'[l]  BY <1>4, <1>5
    <3>5. AtMost(Offer(q(s), m), produced'[l])  BY <1>1, <1>4, <3>1, <3>4, OfferKeepsOrder
    <3> QED  BY <1>2, <1>3, <2>3, <3>3, <3>5
  <2> QED  BY <2>2, <2>3
<1>8. ASSUME NEW s \in Follows, s > follows PROVE followed'[s].queue = <<>>
  <2>1. s # following  BY <1>8 DEF TypeOK, Follows
  <2> QED  BY <1>3, <1>8, <2>1 DEF OrderInv, q
<1>9. ASSUME following # None, frame # Nothing
      PROVE  AtLeast(followed'[following].queue, frame.n) /\ frame.n <= produced'[frame.source]
  <2>1. /\ AtLeast(q(following), frame.n) /\ frame.n <= produced[frame.source]
        /\ frame.source = followed[following].source /\ frame.source \in Lives
    BY <1>9 DEF OrderInv, FrameIsOfTheFollowed, PhaseInv, q
  <2>2. frame.n \in Nat  BY <1>9 DEF TypeOK, Views
  <2>3. frame.n <= produced'[frame.source]  BY <1>4, <2>1, <2>2
  <2>4. CASE to(following)
    <3>1. IsFrame(m) => frame.n <= m.n  BY <1>4, <1>5, <2>1, <2>2, <2>4
    <3>2. AtLeast(Offer(q(following), m), frame.n)
      BY <1>1, <1>9, <1>a, <2>1, <2>2, <3>1, OfferKeepsOrder
    <3> QED  BY <1>3, <1>9, <1>a, <2>3, <2>4, <3>2
  <2>5. CASE ~to(following)  BY <1>3, <1>9, <1>a, <2>1, <2>3, <2>5
  <2> QED  BY <2>4, <2>5
<1> QED  BY <1>7, <1>8, <1>9 DEF OrderInv

LEMMA FollowKeepsOrder ==
    ASSUME TypeOK, PhaseInv, OrderInv, NEW to \in Lives,
           Follow(to, frame), produced' = produced
    PROVE  OrderInv'
<1>1. CASE Followed = to
  <2>1. UNCHANGED followVars /\ frame' = frame  BY <1>1 DEF Follow
  <2> QED  BY <2>1 DEF OrderInv, followVars
<1>2. CASE Followed # to
  <2>1. /\ follows < MaxFollows /\ follows' = follows + 1
        /\ followed' = [followed EXCEPT ![follows + 1].source = to]
        /\ frame' = Nothing
    BY <1>2 DEF Follow, FrameOnFollow
  <2>2. follows \in Nat /\ follows + 1 \in Follows
    BY <2>1, PipelineRunAssumption DEF TypeOK, Follows
  <2>3. followed[follows + 1].queue = <<>>  BY <2>2 DEF OrderInv
  <2>4. \A s \in Follows : followed'[s].queue = followed[s].queue  BY <2>1 DEF TypeOK
  <2>5. \A s \in Follows : s # follows + 1 => followed'[s].source = followed[s].source
    BY <2>1 DEF TypeOK
  <2>6. \A n : AtMost(<<>>, n)  BY DEF AtMost
  <2>7. \A s \in Follows : followed'[s].source \in Lives =>
                            AtMost(followed'[s].queue, produced[followed'[s].source])
    <3> SUFFICES ASSUME NEW s \in Follows, followed'[s].source \in Lives
                 PROVE  AtMost(followed'[s].queue, produced[followed'[s].source])
      OBVIOUS
    <3>1. CASE s = follows + 1  BY <2>3, <2>4, <2>6, <3>1
    <3>2. CASE s # follows + 1  BY <2>4, <2>5, <3>2 DEF OrderInv
    <3> QED  BY <3>1, <3>2
  <2>8. \A s \in Follows : s > follows' => followed'[s].queue = <<>>
    BY <2>1, <2>2, <2>4 DEF OrderInv, Follows
  <2>9. \A s \in Follows : Sorted(followed'[s].queue)  BY <2>4 DEF OrderInv
  <2> QED  BY <2>1, <2>7, <2>8, <2>9 DEF OrderInv
<1> QED  BY <1>1, <1>2

\* The reader takes the oldest message of the queue, or drops a queue of the side just left.
LEMMA ReceiveKeepsOrder ==
    ASSUME TypeOK, PhaseInv, OrderInv, NEW s \in Follows, ReceiveFollowed(s)
    PROVE  OrderInv'
<1> DEFINE q == followed[s].queue
           m == Head(q)
<1>1. q \in Seq(Message) /\ q # <<>>  BY DEF TypeOK, Message, ReceiveFollowed
<1>2. UNCHANGED <<following, follows, produced>>  BY DEF ReceiveFollowed, liveVars
<1>3. \A t \in Follows : followed'[t].source = followed[t].source  BY OthersKeep
<1>4. \A t \in Follows : t # s => followed'[t].queue = followed[t].queue
  BY DEF ReceiveFollowed, TypeOK
<1>5. m \in Message  BY <1>1, QueueType
<1>6. m.n \in Nat  BY <1>5 DEF Message
<1>a. following # None => following \in Follows
  BY PipelineRunAssumption DEF TypeOK, None, Follows
<1>b. \A k \in Lives : produced[k] \in Nat  BY DEF TypeOK
<1>c. s > follows => FALSE  BY <1>1 DEF OrderInv
<1>7. CASE ~IsFollowed(s)
  <2>1. followed'[s].queue = <<>> /\ frame' = frame  BY <1>7 DEF ReceiveFollowed, TypeOK
  <2>2. Sorted(<<>>) /\ \A n : AtMost(<<>>, n)  BY DEF Sorted, AtMost
  <2>3. s # following  BY <1>7 DEF IsFollowed
  <2>4. \A t \in Follows : Sorted(followed'[t].queue)  BY <1>4, <2>1, <2>2 DEF OrderInv
  <2>5. \A t \in Follows : followed'[t].source \in Lives =>
                            AtMost(followed'[t].queue, produced[followed'[t].source])
    BY <1>3, <1>4, <2>1, <2>2 DEF OrderInv
  <2>6. \A t \in Follows : t > follows => followed'[t].queue = <<>>  BY <1>4, <2>1 DEF OrderInv
  <2>7. following # None /\ frame # Nothing =>
            AtLeast(followed'[following].queue, frame.n) /\ frame.n <= produced[frame.source]
    BY <1>4, <1>a, <2>3 DEF OrderInv
  <2> QED  BY <1>2, <2>1, <2>4, <2>5, <2>6, <2>7 DEF OrderInv
<1>8. CASE IsFollowed(s)
  <2>1. followed'[s].queue = Tail(q)  BY <1>8 DEF ReceiveFollowed, TypeOK
  <2>2. s = following /\ followed[s].source \in Lives
    BY <1>8 DEF IsFollowed, PhaseInv, Follows, None
  <2>3. Sorted(q) /\ AtMost(q, produced[followed[s].source])  BY <2>2 DEF OrderInv
  <2> HIDE DEF q
  <2>4. Sorted(Tail(q)) /\ AtMost(Tail(q), produced[followed[s].source])
    BY <1>1, <1>b, <2>2, <2>3, TailKeepsOrder
  <2>5. \A t \in Follows : Sorted(followed'[t].queue)  BY <1>4, <2>1, <2>4 DEF OrderInv
  <2>6. \A t \in Follows : followed'[t].source \in Lives =>
                            AtMost(followed'[t].queue, produced[followed'[t].source])
    <3> SUFFICES ASSUME NEW t \in Follows, followed'[t].source \in Lives
                 PROVE  AtMost(followed'[t].queue, produced[followed'[t].source])
      OBVIOUS
    <3>1. CASE t = s  BY <1>3, <2>1, <2>4, <3>1
    <3>2. CASE t # s  BY <1>3, <1>4, <3>2 DEF OrderInv
    <3> QED  BY <3>1, <3>2
  <2>7. \A t \in Follows : t > follows => followed'[t].queue = <<>>  BY <1>4, <1>c DEF OrderInv
  <2>8. ASSUME frame' # Nothing
        PROVE  AtLeast(Tail(q), frame'.n) /\ frame'.n <= produced[frame'.source]
    <3>1. CASE IsFrame(m)
      <4>1. frame' = [source |-> followed[s].source, n |-> m.n]
        BY <1>8, <3>1 DEF ReceiveFollowed, IsFrame, q
      <4>2. m.n <= produced[followed[s].source]
        <5>1. 1 \in 1..Len(q) /\ q[1] = m  BY <1>1, EmptySeq
        <5> QED  BY <2>3, <3>1, <5>1 DEF AtMost
      <4>3. AtLeast(Tail(q), m.n)  BY <1>1, <2>3, <3>1, TailKeepsOrder
      <4> QED  BY <4>1, <4>2, <4>3
    <3>2. CASE ~IsFrame(m)
      <4>1. frame' = frame  BY <1>8, <3>2 DEF ReceiveFollowed, IsFrame, q
      <4>2. following # None  BY <2>2 DEF Follows, None
      <4>3. AtLeast(q, frame.n) /\ frame.n <= produced[frame.source]
        BY <2>2, <2>8, <4>1, <4>2 DEF OrderInv, q
      <4>4. frame.n \in Nat  BY <2>8, <4>1 DEF TypeOK, Views
      <4> QED  BY <1>1, <4>1, <4>3, <4>4, TailKeepsOrder
    <3> QED  BY <3>1, <3>2
  <2> QED  BY <1>2, <2>1, <2>2, <2>5, <2>6, <2>7, <2>8 DEF OrderInv
<1> QED  BY <1>7, <1>8

LEMMA OrderStep ==
    TypeOK /\ PhaseInv /\ FrameIsOfTheFollowed /\ OrderInv /\ [Next]_vars => OrderInv'
<1> SUFFICES ASSUME TypeOK, PhaseInv, FrameIsOfTheFollowed, OrderInv, [Next]_vars
             PROVE  OrderInv'
  OBVIOUS
<1>a. UNCHANGED <<following, follows, followed, frame, produced>> => OrderInv'
  BY DEF OrderInv
<1>1. ASSUME NEW to \in Recordings \cup Lives, Switch(to) PROVE OrderInv'
  <2>1. CASE to \in Lives  BY <1>1, <2>1, FollowKeepsOrder DEF Switch, liveVars
  <2>2. CASE to \notin Lives  BY <1>1, <1>a, <2>2 DEF Switch, followVars, liveVars
  <2> QED  BY <2>1, <2>2
<1>2. CASE Seek \/ Cut \/ LoopsBack
  BY <1>2, <1>a DEF Seek, Cut, LoopsBack, followVars, liveVars
<1>3. CASE Play
  <2>1. following = None /\ UNCHANGED <<following, follows, followed, produced>>
    BY <1>3 DEF Play, PhaseInv, followVars, liveVars
  <2> QED  BY <2>1 DEF OrderInv
<1>4. ASSUME NEW shows \in BOOLEAN, Opened(shows) PROVE OrderInv'
  <2>1. /\ Follow(source, IF shows THEN OwnFrame ELSE frame)
        /\ phase # "steady" /\ produced' = produced
    BY <1>4 DEF Opened, liveVars
  <2>2. source \in Recordings \cup Lives /\ source \notin Lives
    BY <2>1, PipelineRunAssumption DEF PhaseInv
  <2>3. following' = None  BY <2>1, <2>2, FollowOutcome
  <2>4. UNCHANGED <<follows, followed>>  BY <2>1, <2>2 DEF Follow, followVars
  <2> QED  BY <2>1, <2>3, <2>4 DEF OrderInv
<1>5. ASSUME NEW l \in Lives, LiveFrame(l) PROVE OrderInv'
  <2>1. [is |-> "frame", n |-> produced[l] + 1] \in Message  BY DEF TypeOK, Message
  <2> QED  BY <1>5, <2>1, DeliversKeepsOrder DEF LiveFrame, IsFrame
<1>6. ASSUME NEW l \in Lives, LiveResult(l) PROVE OrderInv'
  <2>1. [is |-> "result", n |-> 0] \in Message  BY DEF Message
  <2> QED  BY <1>6, <2>1, DeliversKeepsOrder DEF LiveResult, IsFrame, liveVars
<1>7. ASSUME NEW l \in Lives, RepeatStatus(l) PROVE OrderInv'
  <2>1. [is |-> "status", n |-> 1] \in Message  BY DEF Message
  <2> QED  BY <1>7, <2>1, DeliversKeepsOrder DEF RepeatStatus, IsFrame, liveVars
<1>8. ASSUME NEW l \in Lives, NEW lost \in BOOLEAN, LiveTurns(l, lost) PROVE OrderInv'
  <2>1. CASE lost  BY <1>8, <1>a, <2>1 DEF LiveTurns
  <2>2. CASE ~lost
    <3>1. [is |-> "status", n |-> IF down[l] THEN 0 ELSE 1] \in Message  BY DEF Message
    <3> QED  BY <1>8, <2>2, <3>1, DeliversKeepsOrder DEF LiveTurns, IsFrame
  <2> QED  BY <2>1, <2>2
<1>9. ASSUME NEW r \in OwnResults, Receive(r) PROVE OrderInv'
  BY <1>9, <1>a DEF Receive, followVars, liveVars
<1>10. ASSUME NEW s \in Follows, ReceiveFollowed(s) PROVE OrderInv'
  BY <1>10, ReceiveKeepsOrder
<1>11. CASE UNCHANGED vars
  BY <1>11, <1>a DEF vars, followVars, liveVars
<1> QED  BY <1>1, <1>2, <1>3, <1>4, <1>5, <1>6, <1>7, <1>8, <1>9, <1>10, <1>11 DEF Next, RouterStep, LiveStep

-----------------------------------------------------------------------------
(* The theorems *)

IInv ==
    /\ TypeOK /\ PhaseInv /\ NumberInv /\ OrderInv
    /\ ResultIsOfTheView /\ FrameIsOfTheFollowed

LEMMA InitInv == Init => IInv
<1> SUFFICES ASSUME Init PROVE IInv  OBVIOUS
<1>1. TypeOK  BY InitType
<1>2. PhaseInv /\ NumberInv /\ ResultIsOfTheView /\ FrameIsOfTheFollowed
  BY DEF Init, PhaseInv, NumberInv, ResultIsOfTheView, FrameIsOfTheFollowed
<1>3. OrderInv  BY DEF Init, OrderInv, Sorted, AtMost, None
<1> QED  BY <1>1, <1>2, <1>3 DEF IInv

LEMMA StepInv == IInv /\ [Next]_vars => IInv'
BY TypeStep, PhaseStep, NumberStep, OrderStep, ResultStep, FrameStep DEF IInv

THEOREM Invariant == Spec => []IInv
BY InitInv, StepInv, PTL DEF Spec

\* PipelineRun's variables stay in their types, for every set of sources and every bound.
THEOREM TypeCorrect == Spec => []TypeOK
<1>1. IInv => TypeOK  BY DEF IInv
<1> QED  BY <1>1, Invariant, PTL

\* _receive and _follow: a result that nobody asked for is always of the side that is shown.
THEOREM ResultsAreOfTheView == Spec => []ResultIsOfTheView
<1>1. IInv => ResultIsOfTheView  BY DEF IInv
<1> QED  BY <1>1, Invariant, PTL

\* _follow and _receive_followed: the frame shown while following is of the followed source.
THEOREM FramesAreOfTheFollowed == Spec => []FrameIsOfTheFollowed
<1>1. IInv => FrameIsOfTheFollowed  BY DEF IInv
<1> QED  BY <1>1, Invariant, PTL

\* publish: frames of two openings never go under one stream number, and the numbers rise.
THEOREM StreamsAreTold == Spec => OneStreamPerNumber
<1> DEFINE Told == /\ sent'.mark = sent.mark => sent'.stream = sent.stream
                   /\ sent'.mark > sent.mark => sent'.stream > sent.stream
<1>1. ASSUME IInv, [Next]_vars PROVE [Told]_vars
  <2>1. CASE sent' = sent  BY <1>1, <2>1 DEF IInv, TypeOK
  <2>2. CASE sent' # sent
    <3>1. Play \/ \E shows \in BOOLEAN : Opened(shows)
      <4>1. CASE LiveStep \/ (\E r \in OwnResults : Receive(r)) \/ (\E s \in Follows : ReceiveFollowed(s))
        BY <1>1, <2>2, <4>1, OthersKeep DEF IInv, numberVars
      <4>2. CASE Seek \/ Cut \/ LoopsBack \/ \E to \in Recordings \cup Lives : Switch(to)
        BY <2>2, <4>2 DEF Seek, Cut, LoopsBack, Switch, numberVars
      <4>3. CASE UNCHANGED vars  BY <2>2, <4>3 DEF vars, numberVars
      <4> QED  BY <1>1, <4>1, <4>2, <4>3 DEF Next, RouterStep
    <3>2. Numbered(mark) /\ sent' = [stream |-> stream', mark |-> mark]
      BY <2>2, <3>1 DEF Play, PublishFrame, Opened
    <3>3. mark \in Nat  BY <1>1 DEF IInv, TypeOK
    <3> QED  BY <1>1, <3>2, <3>3, NumberedOutcome DEF IInv
  <2> QED  BY <2>1, <2>2
<1> QED  BY <1>1, Invariant, PTL DEF Spec, OneStreamPerNumber

\* _receive_followed: a frame of a live source is only replaced by a newer one of it, also
\* when the run left the source and came back.
THEOREM LiveGoesOn == Spec => LiveNeverGoesBack
<1> DEFINE On == \A l \in Lives :
                     frame # Nothing /\ frame' # Nothing /\ frame.source = l /\ frame'.source = l
                         => frame.n <= frame'.n
<1>1. ASSUME IInv, [Next]_vars PROVE [On]_vars
  <2> SUFFICES ASSUME NEW l \in Lives, frame # Nothing, frame' # Nothing,
                      frame.source = l, frame'.source = l
               PROVE  frame.n <= frame'.n
    OBVIOUS
  <2> USE <1>1 DEF IInv
  <2>1. frame.n \in Nat  BY DEF TypeOK, Views
  <2>2. CASE frame' = frame  BY <2>1, <2>2
  <2>3. ASSUME NEW s \in Follows, ReceiveFollowed(s) PROVE frame.n <= frame'.n
    <3>1. CASE frame' # frame
      <4> DEFINE q == followed[s].queue
      <4>1. /\ s = following /\ q # <<>> /\ IsFrame(Head(q))
            /\ frame' = [source |-> followed[s].source, n |-> Head(q).n]
        BY <2>3, <3>1 DEF ReceiveFollowed, IsFollowed, IsFrame
      <4>2. following # None  BY <4>1 DEF Follows, None
      <4>3. AtLeast(q, frame.n)  BY <4>1, <4>2 DEF OrderInv
      <4>4. q \in Seq(Message)  BY DEF TypeOK, Message
      <4> HIDE DEF q
      <4>5. 1 \in 1..Len(q) /\ q[1] = Head(q)  BY <4>1, <4>4, EmptySeq
      <4> QED  BY <4>1, <4>3, <4>5 DEF AtLeast
    <3> QED  BY <2>2, <3>1
  <2>4. ASSUME NEW to \in Recordings \cup Lives, Switch(to) PROVE frame.n <= frame'.n
    <3>1. frame' = frame \/ frame' = Nothing  BY <2>4 DEF Switch, Follow, FrameOnFollow
    <3> QED  BY <2>2, <3>1
  <2>5. ASSUME NEW shows \in BOOLEAN, Opened(shows) PROVE frame.n <= frame'.n
    <3>1. source \in Recordings  BY <2>5 DEF Opened, PhaseInv
    <3>2. source \in Recordings \cup Lives  BY <3>1
    <3>3. frame' = (IF shows THEN OwnFrame ELSE frame) \/ frame' = Nothing
      BY <2>5, <3>2, FollowOutcome DEF Opened
    <3>4. OwnFrame.source # l  BY <3>1, PipelineRunAssumption DEF OwnFrame
    <3> QED  BY <2>2, <3>3, <3>4
  <2>6. CASE Play
    <3>1. frame'.source \in Recordings  BY <2>6 DEF Play, PublishFrame, OwnFrame
    <3> QED  BY <3>1, PipelineRunAssumption
  <2>7. CASE Seek \/ Cut \/ LoopsBack \/ LiveStep \/ (\E r \in OwnResults : Receive(r))
    BY <2>2, <2>7 DEF Seek, Cut, LoopsBack, LiveStep, LiveFrame, LiveResult, RepeatStatus, LiveTurns, Receive
  <2>8. CASE UNCHANGED vars  BY <2>2, <2>8 DEF vars
  <2> QED  BY <1>1, <2>3, <2>4, <2>5, <2>6, <2>7, <2>8 DEF Next, RouterStep
<1> QED  BY <1>1, Invariant, PTL DEF Spec, LiveNeverGoesBack

=============================================================================
