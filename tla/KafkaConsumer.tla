---------------------------- MODULE KafkaConsumer ----------------------------
(***************************************************************************)
(* KafkaTransport (transport/kafka.py): a process that publishes through   *)
(* its Outbox, the broker's topics, and the one consumer of another        *)
(* process, which fails and is reopened, while topics are subscribed to,   *)
(* records expire and the broker loses its topics.                         *)
(*                                                                         *)
(* The broker (external) is modelled by what kafka.py relies on: a topic   *)
(* is a log whose records have offsets, an old record may be gone, also    *)
(* between two requests of an assignment, and a position that is out of    *)
(* range is set to the end.  A record is the time it was sent at.  One     *)
(* fetch brings all there is on the topics held.                           *)
(***************************************************************************)
EXTENDS Integers, Sequences, FiniteSets, FiniteSetsExt, SequencesExt

CONSTANTS Control, Data, \* topics of control messages, and of data
          MaxRecords,    \* bound: messages published
          MaxFaults      \* bound: failures, lost answers and lost topics

Topics == Control \cup Data

ASSUME ConsumerAssumption ==
  /\ Control \cap Data = {} /\ IsFiniteSet(Topics)
  /\ MaxRecords \in Nat /\ MaxFaults \in Nat

VARIABLES
  log,      \* the broker's topics: [exists, start, recs]
  pub,      \* the publisher: [topic, count, created], topic in flight or None
  sent,     \* records taken so far: the clock
  con,      \* the consumer: [pc, new, pos, starts, since]: topics being
            \* assigned, positions, start offsets asked for, time it was opened
  watched,  \* topics subscribed to (the keys of _ready)
  unassigned, ready, resume,
  heard,    \* the newest record heard before this fetch, and its records
  newest,   \* the last record heard of each topic
  passed,   \* records a reset to the end passed over
  owed,     \* records of a control topic joined and not lost
  broken,   \* topics lost, whose offsets here are still of the lost log
  faults

consumerVars == <<log, pub, sent, con, watched, unassigned, ready, resume,
                  heard, newest, passed, owed, broken, faults>>
history == <<heard, newest, passed>>
receiver == <<watched, ready, resume, history>>

NoTopic == "none"
Unknown == -1
Fresh == [exists |-> TRUE, start |-> 0, recs |-> <<>>]
Absent == [exists |-> FALSE, start |-> 0, recs |-> <<>>]
End(t) == log[t].start + Len(log[t].recs)
Held == DOMAIN con.pos
NoConsumer == [pc |-> "down", new |-> {}, pos |-> <<>>, starts |-> <<>>,
               since |-> 0]

ConsumerInit ==
  /\ log = [t \in Topics |-> Absent]
  /\ pub = [topic |-> NoTopic, count |-> 0, created |-> {}] /\ sent = 0
  /\ con = NoConsumer
  /\ watched = {} /\ unassigned = {} /\ ready = {}
  /\ resume = [t \in Topics |-> Unknown]
  /\ heard = <<0>> /\ newest = [t \in Topics |-> 0] /\ passed = {}
  /\ owed = {} /\ broken = {} /\ faults = 0

Fault == faults < MaxFaults /\ faults' = faults + 1

-----------------------------------------------------------------------------
(* The publisher *)

PublishRecord(t) ==
  /\ pub.topic = NoTopic /\ pub.count < MaxRecords
  /\ pub' = [pub EXCEPT !.topic = t, !.count = @ + 1]
  /\ UNCHANGED <<log, sent, con, receiver, unassigned, owed, broken, faults>>

\* _create: a topic this process did not make or find yet.
Create ==
  /\ pub.topic # NoTopic /\ pub.topic \notin pub.created
  /\ log' = [log EXCEPT ![pub.topic] = IF @.exists THEN @ ELSE Fresh]
  /\ pub' = [pub EXCEPT !.created = @ \cup {pub.topic}]
  /\ UNCHANGED <<sent, con, receiver, unassigned, owed, broken, faults>>

\* The broker takes the record.  It is owed to a receiver that had joined.
RecordTaken(t) ==
  /\ log[t].exists
  /\ log' = [log EXCEPT ![t].recs = Append(@, sent + 1)]
  /\ sent' = sent + 1
  /\ owed' = IF t \in Control \ broken /\ resume[t] # Unknown
             THEN owed \cup {sent + 1} ELSE owed

Send ==
  LET t == pub.topic
  IN  /\ t # NoTopic /\ t \in pub.created
      /\ \/ /\ RecordTaken(t)
            /\ pub' = [pub EXCEPT !.topic = NoTopic]
            /\ UNCHANGED faults
         \/ /\ RecordTaken(t) /\ Fault     \* the answer is lost: it is sent again
            /\ pub' = [pub EXCEPT !.created = @ \ {t}]
         \/ /\ ~log[t].exists
            /\ pub' = [pub EXCEPT !.created = @ \ {t}]
            /\ UNCHANGED <<log, sent, owed, faults>>
      /\ UNCHANGED <<con, receiver, unassigned, broken>>

-----------------------------------------------------------------------------
(* The broker *)

\* The oldest record of t was sent since the consumer was opened, and it is
\* still to be read.
Coming(t) ==
  /\ con.pc # "down" /\ Head(log[t].recs) > con.since
  /\ IF t \in Held THEN log[t].start >= con.pos[t] ELSE resume[t] # Unknown

\* Retention, a minute: what is sent while a consumer is up is read by then.
\* What was sent before it was opened may be gone at any of its steps.
Expire(t) ==
  /\ log[t].recs # <<>> /\ ~Coming(t)
  /\ log' = [log EXCEPT ![t].start = @ + 1, ![t].recs = Tail(@)]
  /\ owed' = owed \ {Head(log[t].recs)}
  /\ UNCHANGED <<pub, sent, con, receiver, unassigned, broken, faults>>

\* A new broker, with no volume.
LoseTopics ==
  /\ Fault
  /\ log' = [t \in Topics |-> Absent]
  /\ owed' = {}
  /\ broken' = watched
  /\ UNCHANGED <<pub, sent, con, receiver, unassigned>>

-----------------------------------------------------------------------------
(* The consumer *)

\* _watch.
Subscribe(t) ==
  /\ t \notin watched
  /\ watched' = watched \cup {t} /\ unassigned' = unassigned \cup {t}
  /\ UNCHANGED <<log, pub, sent, con, ready, resume, history, owed,
                 broken, faults>>

\* Mutant: a reopened consumer takes on only what was not yet assigned.
OnlyTheUnassigned == unassigned

\* A fresh consumer holds nothing yet: all that is watched is to be assigned.
ToAssign == unassigned \cup watched

Open ==
  /\ con.pc = "down" /\ watched # {}
  /\ con' = [NoConsumer EXCEPT !.pc = "poll", !.since = sent]
  /\ unassigned' = ToAssign
  /\ UNCHANGED <<log, pub, sent, watched, ready, resume, history,
                 owed, broken, faults>>

\* The consumer is stopped, and nothing is ready until it has been reopened.
Down ==
  /\ con' = NoConsumer
  /\ ready' = {}

\* Any request may fail.
Fail ==
  /\ con.pc # "down" /\ Fault
  /\ Down
  /\ UNCHANGED <<log, pub, sent, watched, unassigned, resume, history,
                 owed, broken>>

\* The broker is asked which topics exist; the others are made.
Missing(new) == {t \in new : ~log[t].exists}

AssignBegin ==
  /\ con.pc = "poll" /\ unassigned # {}
  /\ log' = [t \in Topics |->
               IF t \in Missing(unassigned) THEN Fresh ELSE log[t]]
  /\ con' = [con EXCEPT !.pc = "start", !.new = unassigned]
  /\ unassigned' = {}
  /\ UNCHANGED <<pub, sent, watched, ready, resume, history, owed, broken,
                 faults>>

Resumed == {t \in con.new \ Held : resume[t] # Unknown}

\* The broker is asked where the logs of those start (beginning_offsets).
AskStarts ==
  /\ con.pc = "start"
  /\ \A t \in Resumed : log[t].exists
  /\ con' = [con EXCEPT !.pc = "seek",
              !.starts = [t \in Resumed |-> log[t].start]]
  /\ UNCHANGED <<log, pub, sent, receiver, unassigned, owed, broken, faults>>

\* Mutant: a consumer that reopens is at the end of every topic.
ResumeAtEnd(t) == End(t)

\* Mutant: a consumer that reopens reads all that is kept.
ResumeAtStart(t) == con.starts[t]

\* Where a control topic is resumed: where it was, if that offset still fits
\* the start that was asked for and the end that is (end_offsets).
ResumeAt(t) ==
  IF con.starts[t] <= resume[t] /\ resume[t] <= End(t) THEN resume[t]
  ELSE con.starts[t]

\* Positions for the topics of ts, the others kept.
Placed(ts, at) ==
  [t \in Held \cup ts |-> IF t \in ts THEN at[t] ELSE con.pos[t]]

\* Those that go on where they were; `held` topics keep their position.
AssignResumed ==
  /\ con.pc = "seek"
  /\ \A t \in Resumed : log[t].exists
  /\ con' = [con EXCEPT !.pc = "end", !.starts = <<>>,
              !.pos = Placed(Resumed, [t \in Resumed |-> ResumeAt(t)])]
  /\ UNCHANGED <<log, pub, sent, receiver, unassigned, owed, broken, faults>>

\* The others start at their end; a control topic remembers where that is.
AssignEnd ==
  LET fresh == con.new \ Held
  IN  /\ con.pc = "end"
      /\ \A t \in fresh : log[t].exists
      /\ con' = [con EXCEPT !.pc = "poll", !.new = {},
                  !.pos = Placed(fresh, [t \in fresh |-> End(t)])]
      /\ resume' = [t \in Topics |-> IF t \in fresh \cap Control THEN End(t)
                                     ELSE resume[t]]
      /\ broken' = broken \ fresh
      /\ ready' = ready \cup con.new
      /\ UNCHANGED <<log, pub, sent, watched, unassigned, history,
                     owed, faults>>

\* A request about a topic that is gone again times out.
AssignFails ==
  /\ \/ con.pc \in {"start", "seek"} /\ \E t \in Resumed : ~log[t].exists
     \/ con.pc = "end" /\ \E t \in con.new \ Held : ~log[t].exists
  /\ Down
  /\ UNCHANGED <<log, pub, sent, watched, unassigned, resume, history,
                 owed, broken, faults>>

\* The records of t from its position on.
Batch(t) == {log[t].recs[i] :
             i \in {j \in DOMAIN log[t].recs : log[t].start + j > con.pos[t]}}

\* Records by when each was sent.
InOrder(rs) ==
  [i \in 1..Cardinality(rs) |->
     CHOOSE r \in rs : Cardinality({q \in rs : q <= r}) = i]

\* Mutant: a fetch is delivered topic after topic, as it lists them.
OneByOne(ts) == FlattenSeq(SetToSeq({InOrder(Batch(t)) : t \in ts}))

\* One fetch, the topics interleaved by when each record was sent.
SentOrder(ts) == InOrder(UNION {Batch(t) : t \in ts})

\* The positions of a fetch: at the end of what it read; reset to the end,
\* with nothing read, when there is no such offset (auto_offset_reset).
InRange(t) == log[t].start <= con.pos[t] /\ con.pos[t] <= End(t)

\* The next offset of each control topic records came from.
ResumeAfter(ts) ==
  [t \in Topics |-> IF t \in ts \cap Control THEN End(t) ELSE resume[t]]

\* The last record of each topic that was read.
NewestOf(ts) == [t \in Topics |-> IF t \in ts THEN Last(log[t].recs) ELSE newest[t]]

Fetch ==
  LET there == {t \in Held : log[t].exists}
      read == {t \in there : InRange(t) /\ con.pos[t] < End(t)}
      reset == {t \in there \ broken : ~InRange(t)}
  IN  /\ con.pc = "poll"
      /\ \E t \in there : con.pos[t] # End(t)
      /\ con' = [con EXCEPT !.pos = Placed(there, [t \in there |-> End(t)])]
      /\ resume' = ResumeAfter(read)
      /\ heard' = <<Max(ToSet(heard))>> \o SentOrder(read \ broken)
      /\ newest' = NewestOf(read)
      /\ passed' = passed \cup UNION {Batch(t) : t \in reset}
      /\ owed' = owed \ UNION {Batch(t) : t \in read}
      /\ broken' = broken \ read
      /\ UNCHANGED <<log, pub, sent, watched, unassigned, ready,
                     faults>>

\* _check_topics.
CheckTopics ==
  LET missing == {t \in Held : ~log[t].exists}
  IN  /\ con.pc = "poll" /\ missing # {}
      /\ Down
      /\ UNCHANGED <<log, pub, sent, watched, unassigned, resume, history, owed,
                     broken, faults>>

-----------------------------------------------------------------------------
\* All that was published is delivered or gone, and every topic is held.
AllDelivered ==
  /\ pub.topic = NoTopic /\ pub.count = MaxRecords
  /\ watched = Topics /\ ready = Topics /\ unassigned = {}
  /\ \A t \in Held : log[t].exists /\ con.pos[t] = End(t)
  /\ UNCHANGED consumerVars

Publisher == Create \/ Send
Consumer == \/ Open \/ AssignBegin \/ AskStarts \/ AssignResumed
            \/ AssignEnd \/ AssignFails \/ Fetch \/ CheckTopics

ConsumerNext ==
  \/ \E t \in Topics : PublishRecord(t) \/ Expire(t) \/ Subscribe(t)
  \/ Publisher \/ Consumer \/ Fail \/ LoseTopics
  \/ AllDelivered

\* The outbox retries a publish, and the consumer's task runs on; failures
\* are bounded, so each is given its turn in the end.
ConsumerFairness ==
  /\ WF_consumerVars(Publisher)
  /\ WF_consumerVars(\/ Open \/ AskStarts \/ AssignResumed \/ AssignEnd
                     \/ AssignFails \/ CheckTopics)
  /\ WF_consumerVars(AssignBegin) /\ WF_consumerVars(Fetch)

ConsumerSpec == ConsumerInit /\ [][ConsumerNext]_consumerVars /\ ConsumerFairness

-----------------------------------------------------------------------------
(* Properties *)

ConsumerTypeOK ==
  /\ \A t \in Topics : log[t].start \in Nat /\ log[t].recs \in Seq(1..sent)
  /\ pub.topic \in Topics \cup {NoTopic}
  /\ con.pc \in {"down", "poll", "start", "seek", "end"}
  /\ Held \cup con.new \cup unassigned \cup ready \cup broken \subseteq watched
  /\ \A t \in Data : resume[t] = Unknown
  /\ \A i \in DOMAIN heard : heard[i] \in 0..sent

\* What is delivered comes in the order it was sent in, over all topics and
\* over every failure and reopening: a pause and the play after it are of
\* different topics (_decode, _assign).  Only what a reset to the end passed
\* over, retained, can come late, when a later consumer resumes (_assign).
HeardAsSent ==
  \A i, j \in DOMAIN heard :
    i < j => heard[i] < heard[j] \/ (i = 1 /\ heard[j] \in passed)

\* What the consumer would read next of a topic was sent after all that was
\* read of it: in a topic order is kept and nothing comes twice, also past a
\* reset, and wherever the topic was resumed.
HeardOnce ==
  \A t \in Held \ broken : \A r \in Batch(t) : newest[t] < r

\* A topic that is ready is held by a consumer that is up, so what is sent on
\* it from now on is heard (what wait_ready promises).
ReadyIsHeld == ready \subseteq Held

\* The subscriber's view of the transport, of four named parts.
SubscriptionsHold == ConsumerTypeOK /\ HeardAsSent /\ HeardOnce /\ ReadyIsHeld

\* A control message sent on a topic this process has joined is delivered,
\* also when the consumer fails and reopens meanwhile, unless retention or a
\* broker that starts anew took it first, or a reset passed over it: again and
\* again nothing else is owed (publishing is bounded, none is owed twice).
ControlArrives == []<>(owed \subseteq passed)

\* What the module's docstring says of reconnecting: what was published
\* meanwhile still arrives.  A reset passes over what is retained, so this
\* does not hold.
StillArrives == []<>(owed = {})

\* What the module's docstring says of order: commands of different classes
\* apply as sent, also when a reconnect fetches everything at once.  What a
\* reset passed over comes late, so this does not hold either.
AppliedAsSent == \A i, j \in DOMAIN heard : i < j => heard[i] < heard[j]

\* Every topic is taken on in the end, after failures and after the broker
\* lost them all.
ConsumerReturns == []<>(ready = watched)
=============================================================================
