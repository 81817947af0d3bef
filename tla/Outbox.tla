------------------------------- MODULE Outbox -------------------------------
(***************************************************************************)
(* Outbox of core/src/pswamp_core/transport/__init__.py: the synchronous   *)
(* sink a pipeline run and a module slot publish through.  publish() only  *)
(* queues; one task sends in order.  Data gives way when the queue is full *)
(* or the transport refuses it; control messages (commands, their answers, *)
(* errors, PipelineClosed) are retried until a deadline, then reported.    *)
(*                                                                         *)
(* Messages are numbered in the order they were published.  Time is in     *)
(* ticks; asyncio.sleep and asyncio.timeout may fire late, never early.    *)
(***************************************************************************)
EXTENDS Naturals, FiniteSets, Sequences, SequencesExt

CONSTANTS
    MaxMessages,    \* bound on the messages ever published
    MaxSize,        \* maxsize: data messages that may wait
    Deadline,       \* deadline, in ticks
    FirstRetry,     \* _RETRY_S, in ticks
    LastRetry,      \* _MAX_RETRY_S, in ticks
    CloseTicks,     \* the timeout of close(), in ticks
    ReportEvery     \* keep_up.report_every_s, in ticks; 0 for no keep_up

ASSUME OutboxAssumption ==
    /\ MaxMessages \in Nat /\ MaxSize \in Nat \ {0}
    /\ Deadline \in Nat \ {0} /\ CloseTicks \in Nat \ {0}
    /\ FirstRetry \in Nat \ {0} /\ LastRetry \in Nat \ {0}
    /\ ReportEvery \in Nat

Ids == 1..MaxMessages
None == 0

VARIABLES
    count,      \* messages published so far
    control,    \* per message: _is_control
    queue,      \* _queue
    data,       \* _data
    reportIn,   \* ticks until monitor may report a drop again
    left,       \* per control message that waits: ticks to give_up_at
    sender,     \* what the sending coroutine is doing
    sending,    \* the message it has popped
    wait,       \* the next backoff
    asleep,     \* ticks of the backoff left
    phase,      \* how far close() is
    closeLeft,  \* ticks of close()'s timeout left
    arrived,    \* messages the transport took
    dropped,    \* data dropped for room
    reported    \* messages handed to on_undelivered

queueVars == <<count, control, queue, data, reportIn>>
sendVars == <<sender, sending, wait, asleep>>
closeVars == <<phase, closeLeft>>
fates == <<arrived, dropped, reported>>
vars == <<queueVars, left, sendVars, closeVars, fates>>

Smaller(a, b) == IF a < b THEN a ELSE b

-----------------------------------------------------------------------------
(* publish *)

DataAt(q) == {i \in 1..Len(q) : ~control[q[i]]}

\* Mutant: the oldest message makes room, whatever it is.
DropOldestOfAny(q) == 1

\* _drop_oldest_data: the place of the data message that makes room.
DropOldestData(q) == CHOOSE i \in DataAt(q) : \A j \in DataAt(q) : i <= j

\* KeepUpMonitor.note of a drop: it reports the first, and then one when the last
\* report is old enough.  Only drops are noted, so an episode of lag never ends.
ReportsDrops == ReportEvery # 0 /\ reportIn = 0

\* Only data makes room, and only for data.  A drop may be reported: monitor.note,
\* called between the drop and the queueing, publishes an ErrorEvent, a control
\* message, into this same outbox.
Publish(isControl) ==
    LET full == ~isControl /\ data >= MaxSize
        reports == full /\ ReportsDrops
        i == DropOldestData(queue)
        e == count + 1
        n == IF reports THEN count + 2 ELSE count + 1
        room == IF full THEN RemoveAt(queue, i) ELSE queue
    IN  /\ n <= MaxMessages
        /\ count' = n
        /\ control' = [control EXCEPT ![e] = TRUE, ![n] = isControl]
        /\ left' = [left EXCEPT ![e] = Deadline, ![n] = IF isControl THEN Deadline ELSE 0]
        /\ queue' = Append(IF reports THEN Append(room, e) ELSE room, n)
        /\ data' = data + IF isControl \/ full THEN 0 ELSE 1
        /\ reportIn' = IF reports THEN ReportEvery ELSE reportIn
        /\ dropped' = IF full THEN dropped \cup {queue[i]} ELSE dropped
        /\ UNCHANGED <<sendVars, closeVars, arrived, reported>>

-----------------------------------------------------------------------------
(* _run, _send, _attempt: the same coroutine in the task and in close() *)

Start ==
    /\ phase = "open" /\ sender = "unstarted"
    /\ sender' = "idle"
    /\ UNCHANGED <<queueVars, left, sending, wait, asleep, closeVars, fates>>

\* The task when it is not being cancelled, or close() itself while it flushes.
Sends == phase \in {"open", "flushing"}

\* Pop the head: data and a control message in time go to the transport; a
\* control message past its deadline is given up untried.
Take ==
    /\ Sends /\ sender = "idle" /\ queue # <<>>
    /\ LET n == Head(queue)
           late == control[n] /\ left[n] = 0
       IN  /\ queue' = Tail(queue)
           /\ data' = data - IF control[n] THEN 0 ELSE 1
           /\ sender' = IF late THEN "idle" ELSE "publishing"
           /\ sending' = IF late THEN None ELSE n
           /\ reported' = IF late THEN reported \cup {n} ELSE reported
    /\ wait' = FirstRetry
    /\ UNCHANGED <<count, control, reportIn, left, asleep, closeVars, arrived, dropped>>

\* A message that no longer waits has no deadline.
Settled(n) == [left EXCEPT ![n] = 0]

\* transport.publish returned.
Taken ==
    /\ Sends /\ sender = "publishing"
    /\ arrived' = arrived \cup {sending}
    /\ left' = Settled(sending)
    /\ sender' = "idle" /\ sending' = None
    /\ UNCHANGED <<queueVars, wait, asleep, closeVars, dropped, reported>>

\* Mutant: a refused message goes to the end of the queue instead of a backoff.
RefusedRequeuing(unanswered) ==
    /\ Sends /\ sender = "publishing"
    /\ arrived' = IF unanswered THEN arrived \cup {sending} ELSE arrived
    /\ queue' = IF control[sending] THEN Append(queue, sending) ELSE queue
    /\ sender' = "idle" /\ sending' = None
    /\ UNCHANGED <<count, control, data, reportIn, wait, asleep, left, closeVars, dropped, reported>>

\* transport.publish raised (the broker may have the message all the same:
\* `unanswered`).  Data is lost; a control message backs off, at most until its
\* deadline.
Refused(unanswered) ==
    /\ Sends /\ sender = "publishing"
    /\ arrived' = IF unanswered THEN arrived \cup {sending} ELSE arrived
    /\ IF control[sending]
       THEN /\ sender' = "backoff"
            /\ asleep' = Smaller(wait, left[sending])
            /\ wait' = Smaller(wait * 2, LastRetry)
            /\ UNCHANGED sending
       ELSE /\ sender' = "idle" /\ sending' = None
            /\ UNCHANGED <<wait, asleep>>
    /\ UNCHANGED <<queueVars, left, closeVars, dropped, reported>>

\* Mutant: the deadline is not looked at again after a backoff.
BackedOffForever ==
    /\ Sends /\ sender = "backoff" /\ asleep = 0
    /\ sender' = "publishing"
    /\ UNCHANGED <<queueVars, left, sending, wait, asleep, closeVars, fates>>

\* The backoff is over: publish again, or give the message up at its deadline.
BackedOff ==
    /\ Sends /\ sender = "backoff" /\ asleep = 0
    /\ LET late == left[sending] = 0
       IN  /\ sender' = IF late THEN "idle" ELSE "publishing"
           /\ sending' = IF late THEN None ELSE sending
           /\ reported' = IF late THEN reported \cup {sending} ELSE reported
    /\ UNCHANGED <<queueVars, left, wait, asleep, closeVars, arrived, dropped>>

-----------------------------------------------------------------------------
(* close *)

Close ==
    /\ phase = "open"
    /\ phase' = IF sender = "unstarted" THEN "flushing" ELSE "cancelling"
    /\ closeLeft' = CloseTicks
    /\ sender' = IF sender = "unstarted" THEN "idle" ELSE sender
    /\ UNCHANGED <<queueVars, left, sending, wait, asleep, fates>>

\* The task ends at the await it is in.  A message it has popped goes with it (a
\* publish that was under way may still have reached the broker).
TaskCancelled(reached) ==
    /\ phase = "cancelling"
    /\ reached => sender = "publishing"
    /\ arrived' = IF reached THEN arrived \cup {sending} ELSE arrived
    /\ phase' = "flushing"
    /\ left' = Settled(sending)
    /\ sender' = "idle" /\ sending' = None /\ asleep' = 0
    /\ UNCHANGED <<queueVars, wait, closeLeft, dropped, reported>>

Flushed ==
    /\ phase = "flushing" /\ sender = "idle" /\ queue = <<>>
    /\ phase' = "closed"
    /\ UNCHANGED <<queueVars, left, sendVars, closeLeft, fates>>

\* The timeout cancels the send it finds; what is still queued stays there.
FlushTimeout ==
    /\ phase = "flushing" /\ sender # "idle" /\ closeLeft = 0
    /\ phase' = "closed"
    /\ left' = Settled(sending)
    /\ sender' = "idle" /\ sending' = None /\ asleep' = 0
    /\ UNCHANGED <<queueVars, wait, closeLeft, fates>>

-----------------------------------------------------------------------------

Waiting(n) == n = sending \/ \E i \in 1..Len(queue) : queue[i] = n

\* What time runs out for: control messages not settled, a backoff, the flush, the
\* pause between two reports.
Tick ==
    /\ \/ \E n \in Ids : left[n] > 0 /\ Waiting(n) /\ control[n]
       \/ asleep > 0
       \/ phase = "flushing" /\ closeLeft > 0
       \/ reportIn > 0
    /\ left' = [n \in Ids |-> IF left[n] > 0 /\ Waiting(n) THEN left[n] - 1 ELSE left[n]]
    /\ asleep' = IF asleep > 0 THEN asleep - 1 ELSE 0
    /\ closeLeft' = IF phase = "flushing" /\ closeLeft > 0 THEN closeLeft - 1 ELSE closeLeft
    /\ reportIn' = IF reportIn > 0 THEN reportIn - 1 ELSE 0
    /\ UNCHANGED <<count, control, queue, data, sender, sending, wait, phase, fates>>

Init ==
    /\ count = 0 /\ queue = <<>> /\ data = 0 /\ reportIn = 0
    /\ control = [n \in Ids |-> FALSE]
    /\ left = [n \in Ids |-> 0]
    /\ sender = "unstarted" /\ sending = None /\ wait = FirstRetry /\ asleep = 0
    /\ phase = "open" /\ closeLeft = 0
    /\ arrived = {} /\ dropped = {} /\ reported = {}

SendStep == \/ Take \/ Taken \/ (\E unanswered \in BOOLEAN : Refused(unanswered)) \/ BackedOff

CloseStep == (\E reached \in BOOLEAN : TaskCancelled(reached)) \/ Flushed \/ FlushTimeout

\* A closed outbox sends no more; publish() may still be called, up to the bound.
Terminated == phase = "closed" /\ count = MaxMessages /\ UNCHANGED vars

Next ==
    \/ \E isControl \in BOOLEAN : Publish(isControl)
    \/ Start \/ SendStep \/ Close \/ CloseStep \/ Tick \/ Terminated

Spec == Init /\ [][Next]_vars

\* The event loop runs the sender, the transport answers each publish (aiokafka
\* has a request timeout), and time passes.  Nothing makes anybody publish or close.
Fairness == WF_vars(SendStep) /\ WF_vars(CloseStep) /\ WF_vars(Tick)

FairSpec == Spec /\ Fairness

-----------------------------------------------------------------------------

TypeOK ==
    /\ count \in 0..MaxMessages
    /\ control \in [Ids -> BOOLEAN]
    /\ queue \in Seq(Ids)
    /\ data \in Nat /\ reportIn \in 0..ReportEvery
    /\ left \in [Ids -> 0..Deadline]
    /\ sender \in {"unstarted", "idle", "publishing", "backoff"}
    /\ sending \in Ids \cup {None}
    /\ sending # None <=> sender \in {"publishing", "backoff"}
    /\ wait \in Nat /\ asleep \in 0..Deadline
    /\ phase \in {"open", "cancelling", "flushing", "closed"}
    /\ closeLeft \in 0..CloseTicks
    /\ arrived \in SUBSET Ids /\ dropped \in SUBSET Ids /\ reported \in SUBSET Ids

\* _data counts the data messages that wait (a drift would drop for nothing or grow
\* without bound), and they are at most maxsize.
DataIsCounted == data = Cardinality(DataAt(queue)) /\ data <= MaxSize

\* "Control messages are never dropped for room", nor lost on the way: while the
\* outbox is open, each one waits, is being sent, was taken, or was reported.
ControlIsAccountedFor ==
    phase = "open" =>
        \A n \in 1..count : control[n] => Waiting(n) \/ n \in arrived \cup reported

\* The oldest data gives way: data dropped for room is older than all that waits.
OldestGivesWay ==
    \A n \in dropped : \A i \in DataAt(queue) : n < queue[i]

\* Messages reach the transport in the order they were published, whatever was
\* refused, retried, dropped or flushed in between.
ArriveInOrder ==
    [][\A n \in arrived' \ arrived : \A m \in arrived : m < n]_vars

\* A control message is eventually taken by the transport or reported (unless the
\* outbox is closed under it), also behind others that are refused until their
\* deadlines.
ControlSettles ==
    \A n \in Ids :
        (sender # "unstarted" /\ n <= count /\ control[n])
            ~> (n \in arrived \cup reported \/ phase # "open")

\* Nothing is lost track of: a control message is queued, sending, arrived or
\* reported, and the count of data is the data queued (its named parts).
EveryMessageCounted ==
  /\ TypeOK
  /\ DataIsCounted
  /\ ControlIsAccountedFor

\* What gives way is the oldest data, and the rest arrives in the order it was
\* published in, retries included.
OrderIsKept ==
  /\ []OldestGivesWay
  /\ ArriveInOrder

=============================================================================
