------------------------------ MODULE HubAlarms ------------------------------
(***************************************************************************)
(* Alarms and status of one hub: the islanding application on its thread   *)
(* (desktop islanding.py, status_reporting.py), the bus that carries what  *)
(* it publishes to the event loop (bus.py), the stores kept there          *)
(* (stores.py), the push task of the islanding page (pump.py,              *)
(* islanding/api.py) with the operator's commands, and the browser's copy. *)
(*                                                                         *)
(* The application's thread, the event loop and the browser interleave.    *)
(* A frame is three steps of the thread, for what it publishes crosses to  *)
(* the loop message by message: the result, the status report, the alarm   *)
(* event.  Between any two of them the loop may deliver, and the thread    *)
(* may die.  Data time passes by one per frame; the wall clock, which only *)
(* the status table reads, ticks on its own.                               *)
(***************************************************************************)
EXTENDS Integers, Sequences, SequencesExt

CONSTANTS Hold,        \* alarm_time_threshold: quiet time before an alarm ends
          Period,      \* frames between two status reports
          StaleAfter,  \* wall clock after which a status is stale
          Limit,       \* alarms an AlarmStore keeps
          QueueMax,    \* events a page's queue holds
          MaxAlarms,   \* bound: alarms issued
          MaxPosted,   \* bound: messages waiting for the event loop
          MaxSockets,  \* bound: sockets opened
          MaxCommands  \* bound: operator commands

ASSUME AlarmsAssumption ==
  /\ Hold \in Nat /\ Period \in Nat \ {0} /\ StaleAfter \in Nat
  /\ Limit \in Nat \ {0} /\ QueueMax \in Nat \ {0}
  /\ MaxAlarms \in Nat /\ MaxPosted \in Nat \ {0}
  /\ MaxSockets \in Nat /\ MaxCommands \in Nat

VARIABLES
  hub,      \* "running", "stopping" or "stopped"
  app,      \* the thread: [pc, status, id, issued, quiet, due]
  posted,   \* call_soon_threadsafe: messages the loop has yet to deliver
  alarms,   \* AlarmStore: records, oldest first
  islands,  \* IslandStore: what the last result said of the grid
  row,      \* AppStatusStore: [known, age] of the application's status
  page,     \* the socket's queue and push task, or NoPage
  view,     \* what the browser shows; a message sent is one received
  ops

alarmsVars == <<hub, app, posted, alarms, islands, row, page, view, ops>>
storeVars == <<alarms, islands, row>>
pageVars == <<page, view, ops>>

Grid == {"whole", "split"}
Result(g) == [topic |-> "result", grid |-> g]
Status == [topic |-> "status"]
AlarmEvent(id, type) == [topic |-> "alarms", id |-> id, type |-> type]
Nudge == [topic |-> "none"]

NoPage == [pc |-> "closed"]

AlarmsInit ==
  /\ hub = "running"
  /\ app = [pc |-> "run", status |-> "Undefined", id |-> 0, issued |-> 0,
            quiet |-> Hold + 1, due |-> 0]
  /\ posted = <<>>
  /\ alarms = <<>> /\ islands = "none" /\ row = [known |-> FALSE, age |-> 0]
  /\ page = NoPage /\ ops = [sockets |-> 0, commands |-> 0]
  /\ view = [grid |-> "none", alarms |-> <<>>]

-----------------------------------------------------------------------------
(* The application's thread *)

\* Status of the grid the detector saw; no result leaves it as it was.
NewStatus(res) ==
  CASE res = "split" -> "Emergency"
    [] res = "whole" -> "OK"
    [] OTHER -> app.status

\* A frame later; quiet is the time since the last frame in an emergency.
Later(q) == IF q > Hold THEN q ELSE q + 1

\* Mutant: a new alarm whenever an emergency follows a quiet frame.
HandlerByFrame(a) ==
  IF a.status = "Emergency"
  THEN IF a.quiet = 0 THEN a
       ELSE [a EXCEPT !.quiet = 0, !.id = a.issued + 1, !.issued = @ + 1]
  ELSE IF a.id # 0 /\ Later(a.quiet) > Hold
       THEN [a EXCEPT !.id = 0, !.quiet = Later(@)]
       ELSE [a EXCEPT !.quiet = Later(@)]

\* Mutant: the hold time starts anew with every quiet frame.
HandlerNeverReady(a) ==
  IF a.status = "Emergency"
  THEN IF a.id # 0 THEN [a EXCEPT !.quiet = 0]
       ELSE [a EXCEPT !.quiet = 0, !.id = a.issued + 1, !.issued = @ + 1]
  ELSE [a EXCEPT !.quiet = 1]

\* AlarmHandler.update: an emergency opens one alarm and keeps it open; it is
\* closed when the emergency has been over for longer than Hold.
Handler(a) ==
  IF a.status = "Emergency"
  THEN IF a.id # 0 THEN [a EXCEPT !.quiet = 0]
       ELSE [a EXCEPT !.quiet = 0, !.id = a.issued + 1, !.issued = @ + 1]
  ELSE IF a.id # 0 /\ Later(a.quiet) > Hold
       THEN [a EXCEPT !.id = 0, !.quiet = Later(@)]
       ELSE [a EXCEPT !.quiet = Later(@)]

\* Mutant: every frame of an emergency is an alarm event of its own.
HandlerEventsEachFrame(a, b) ==
  IF b.quiet = 0 /\ b.id # 0 THEN <<AlarmEvent(b.id, "init")>>
  ELSE IF b.id # a.id THEN <<AlarmEvent(a.id, "not_critical")>>
  ELSE <<>>

\* What the handler hands to handle_output.
HandlerEvents(a, b) ==
  IF b.id = a.id THEN <<>>
  ELSE IF b.id # 0 THEN <<AlarmEvent(b.id, "init")>>
  ELSE <<AlarmEvent(a.id, "not_critical")>>

\* communicate_status: a report, and the time of the next one.
NextReport(due) == IF due = 0 THEN Period - 1 ELSE due - 1

\* publish_threadsafe: nothing before the loop is bound, or after.  It never
\* raises.  What waits for the loop is bounded by MaxPosted.
Post(ms) ==
  /\ Len(posted) + Len(ms) <= MaxPosted
  /\ posted' = IF hub = "stopped" THEN posted ELSE posted \o ms

\* A frame is read and analysed: the status is set, then the result is
\* published.  No frame is read whose alarm would exceed MaxAlarms.
ReadFrame(res) ==
  LET seen == [app EXCEPT !.pc = "report", !.status = NewStatus(res)]
  IN  /\ app.pc = "run"
      /\ Handler(seen).issued <= MaxAlarms
      /\ app' = seen
      /\ Post(IF res = "none" THEN <<>> ELSE <<Result(res)>>)
      /\ UNCHANGED <<hub, storeVars, pageVars>>

\* The first callback: a status report, when one is due.
ReportStatus ==
  /\ app.pc = "report"
  /\ app' = [app EXCEPT !.pc = "alarm", !.due = NextReport(@)]
  /\ Post(IF app.due = 0 THEN <<Status>> ELSE <<>>)
  /\ UNCHANGED <<hub, storeVars, pageVars>>

\* The second: the alarm handler, which decides and then publishes.
RaiseAlarm ==
  LET b == Handler(app)
  IN  /\ app.pc = "alarm"
      /\ b.issued <= MaxAlarms
      /\ app' = [b EXCEPT !.pc = "run"]
      /\ Post(HandlerEvents(app, b))
      /\ UNCHANGED <<hub, storeVars, pageVars>>

AppFrame == \/ \E res \in Grid \cup {"none"} : ReadFrame(res)
            \/ ReportStatus
            \/ RaiseAlarm

\* The thread is in its loop: before a frame, or in the middle of one.
Alive == app.pc \in {"run", "report", "alarm"}

\* An exception ends the thread, also in the middle of a frame; nothing says
\* so but the reports that stop.
AppDies ==
  /\ Alive
  /\ app' = [app EXCEPT !.pc = "dead"]
  /\ UNCHANGED <<hub, posted, storeVars, pageVars>>

\* Stopped, the loop of run ends at its top.
AppEnds ==
  /\ app.pc = "run" /\ hub # "running"
  /\ app' = [app EXCEPT !.pc = "done"]
  /\ UNCHANGED <<hub, posted, storeVars, pageVars>>

-----------------------------------------------------------------------------
(* The event loop: the bus and the stores *)

Known(store, id) == \E j \in DOMAIN store : store[j].id = id

\* The oldest alarms go when there are more than Limit.
Keep(store) == SubSeq(store, IF Len(store) > Limit THEN Len(store) - Limit + 1
                             ELSE 1, Len(store))

Transition(a, type) ==
  CASE type = "init"         -> [a EXCEPT !.status = "unseen"]
    [] type = "not_critical" -> [a EXCEPT !.status = "not_critical",
                                          !.ended = TRUE]
    [] type = "acknowledge"  -> [a EXCEPT !.status = "acknowledged"]
    [] type = "silence"      -> [a EXCEPT !.status = "silenced"]
    [] OTHER                 -> a

\* AlarmStore.handle: an unknown alarm is opened, whatever the event.
Handle(store, id, type) ==
  LET opened == IF Known(store, id) THEN store
                ELSE Keep(Append(store, [id |-> id, status |-> "unseen",
                                         ended |-> FALSE]))
  IN  [j \in DOMAIN opened |->
         IF opened[j].id = id THEN Transition(opened[j], type) ELSE opened[j]]

\* offer: a queue that is full drops the event.  A page's result is carried
\* by its event alone: lost says that the newest one was dropped.
Offer(p, e) ==
  LET fits == Len(p.queue) < QueueMax
  IN  [p EXCEPT !.queue = IF fits THEN Append(@, e) ELSE @,
                !.lost = IF e.topic = "result" THEN ~fits ELSE @]

Listening(m) == page.pc # "closed" /\ m.topic \in {"result", "alarms"}

\* The stores' listeners are on the bus until stop detaches them.
Attached == hub # "stopped"

\* _deliver, of one message: the stores' listeners first, then the page's.
Deliver ==
  /\ posted # <<>>
  /\ LET m == Head(posted)
     IN  /\ alarms' = IF Attached /\ m.topic = "alarms"
                      THEN Handle(alarms, m.id, m.type) ELSE alarms
         /\ islands' = IF Attached /\ m.topic = "result"
                       THEN m.grid ELSE islands
         /\ row' = IF Attached /\ m.topic = "status"
                   THEN [known |-> TRUE, age |-> 0] ELSE row
         /\ page' = IF Listening(m) THEN Offer(page, m) ELSE page
  /\ posted' = Tail(posted)
  /\ UNCHANGED <<hub, app, view, ops>>

\* Wall clock: a status grows old, and stale after StaleAfter.
Clock ==
  /\ row.known /\ row.age <= StaleAfter
  /\ row' = [row EXCEPT !.age = @ + 1]
  /\ UNCHANGED <<hub, app, posted, alarms, islands, pageVars>>

Stale == row.age > StaleAfter

\* Hub.stop, when no socket uses the hub: the application is told, its thread
\* is joined for a while, then the stores are detached and the bus unbound.
Stop ==
  /\ hub = "running" /\ page.pc = "closed"
  /\ hub' = "stopping"
  /\ UNCHANGED <<app, posted, storeVars, pageVars>>

FinishStop ==
  /\ hub = "stopping"
  /\ hub' = "stopped"
  /\ UNCHANGED <<app, posted, storeVars, pageVars>>

-----------------------------------------------------------------------------
(* The islanding page *)

\* A socket: its queue listens, and the opening message is due.
Connect ==
  /\ page.pc = "closed" /\ hub = "running" /\ ops.sockets < MaxSockets
  /\ page' = [pc |-> "opening", queue |-> <<>>, latest |-> "none",
              lost |-> FALSE]
  /\ ops' = [ops EXCEPT !.sockets = @ + 1]
  /\ UNCHANGED <<hub, app, posted, storeVars, view>>

Disconnect ==
  /\ page.pc # "closed"
  /\ page' = NoPage
  /\ UNCHANGED <<hub, app, posted, storeVars, view, ops>>

\* build: the alarms as the store has them now, the result as last carried.
AlarmMessage(latest) == [grid |-> latest, alarms |-> alarms]

\* The push task: an opening message, then one per event.
PushOpening ==
  /\ page.pc = "opening"
  /\ view' = AlarmMessage("none")
  /\ page' = [page EXCEPT !.pc = "serving"]
  /\ UNCHANGED <<hub, app, posted, storeVars, ops>>

PushUpdate ==
  /\ page.pc = "serving" /\ page.queue # <<>>
  /\ LET e == Head(page.queue)
         result == e.topic = "result"
         latest == IF result THEN e.grid ELSE page.latest
     IN  /\ view' = AlarmMessage(latest)
         /\ page' = [page EXCEPT !.queue = Tail(@), !.latest = latest]
  /\ UNCHANGED <<hub, app, posted, storeVars, ops>>

\* Mutant: a command does not wake the open views.
AnnotateQuietly(id, type) ==
  /\ hub = "running" /\ ops.commands < MaxCommands
  /\ Known(view.alarms, id)
  /\ alarms' = IF Known(alarms, id) THEN Handle(alarms, id, type) ELSE alarms
  /\ ops' = [ops EXCEPT !.commands = @ + 1]
  /\ UNCHANGED <<hub, app, posted, islands, row, page, view>>

\* An operator acts on an alarm the browser shows.  One the store no longer
\* has is a 404; else the event is recorded and the open view is woken.
Annotate(id, type) ==
  /\ hub = "running" /\ ops.commands < MaxCommands
  /\ Known(view.alarms, id)
  /\ alarms' = IF Known(alarms, id) THEN Handle(alarms, id, type) ELSE alarms
  /\ page' = IF Known(alarms, id) /\ page.pc # "closed"
             THEN Offer(page, Nudge) ELSE page
  /\ ops' = [ops EXCEPT !.commands = @ + 1]
  /\ UNCHANGED <<hub, app, posted, islands, row, view>>

Command == \E id \in 1..MaxAlarms, type \in {"acknowledge", "silence",
                                                   "user_message"} :
             Annotate(id, type)

-----------------------------------------------------------------------------
Push == PushOpening \/ PushUpdate

\* Not a step of the code: the hub is gone and its thread with it.
HubGone == hub = "stopped" /\ ~Alive /\ UNCHANGED alarmsVars

AlarmsNext == AppFrame \/ AppDies \/ AppEnds \/ Deliver \/ Clock \/ Stop
        \/ FinishStop \/ Connect \/ Disconnect \/ Push \/ Command
        \/ HubGone

\* The thread reads on, the loop delivers and pushes, and time passes.
Fairness ==
  /\ WF_alarmsVars(AppFrame) /\ WF_alarmsVars(AppEnds)
  /\ WF_alarmsVars(FinishStop)
  /\ WF_alarmsVars(Deliver) /\ WF_alarmsVars(Clock)
  /\ WF_alarmsVars(Push)

AlarmsSpec == AlarmsInit /\ [][AlarmsNext]_alarmsVars /\ Fairness

-----------------------------------------------------------------------------
AlarmRecord == [id : 1..MaxAlarms, ended : BOOLEAN,
                status : {"unseen", "acknowledged", "silenced",
                          "not_critical"}]
AlarmsShown == [grid : Grid \cup {"none"}, alarms : Seq(AlarmRecord)]

AlarmsTypeOK ==
  /\ hub \in {"running", "stopping", "stopped"}
  /\ app \in [pc : {"run", "report", "alarm", "dead", "done"},
              id : 0..MaxAlarms,
              status : {"Undefined", "OK", "Emergency"},
              issued : 0..MaxAlarms, quiet : 0..(Hold + 1),
              due : 0..Period]
  /\ Len(posted) <= MaxPosted
  /\ alarms \in Seq(AlarmRecord) /\ Len(alarms) <= Limit
  /\ islands \in Grid \cup {"none"}
  /\ row \in [known : BOOLEAN, age : 0..(StaleAfter + 1)]
  /\ page = NoPage \/ Len(page.queue) <= QueueMax
  /\ view \in AlarmsShown
  /\ ops \in [sockets : 0..MaxSockets, commands : 0..MaxCommands]

Open(store) == {j \in DOMAIN store : ~store[j].ended}

\* However an emergency comes and goes, operators act and old alarms are
\* dropped from the store, one application has at most one alarm that has
\* not ended, and it is the newest.
OneOpenAlarm == Open(alarms) \subseteq {Len(alarms)}

\* When all that was published is delivered, the alarm the application holds is
\* open in the store and no other is.  A grid that is shown split has an open
\* alarm too, with one exception: the result crosses to the loop before the
\* alarm does, so the thread may be in the very frame that saw the split, or
\* have died in it.
StoresAgree ==
  (posted = <<>> /\ hub = "running") =>
     /\ {alarms[j].id : j \in Open(alarms)}
          = (IF app.id = 0 THEN {} ELSE {app.id})
     /\ islands = "split" =>
          \/ app.id # 0
          \/ app.pc \in {"report", "alarm", "dead"} /\ app.status = "Emergency"

\* An alarm that was seen never shows as unseen again, and one that has ended
\* never as open, as long as the store keeps it.
AlarmsNeverGoBack ==
  [][\A j \in DOMAIN alarms, k \in DOMAIN alarms' :
       alarms[j].id = alarms'[k].id =>
         /\ alarms[j].status # "unseen" => alarms'[k].status # "unseen"
         /\ alarms[j].ended => alarms'[k].ended]_alarmsVars

\* Nothing on its way and the page open: the browser shows the alarms as they
\* are, although notifications may have been dropped; and the result that
\* was published last, unless it was the one dropped.
RestIsCurrent ==
  (/\ posted = <<>>
   /\ page.pc = "serving" /\ page.queue = <<>>)
    => /\ view.alarms = alarms
       /\ (page.latest # "none" /\ ~page.lost) => view.grid = islands

\* Once stop has returned, late messages of a thread that was not joined in
\* time change no store.
StoppedStoresRest ==
  [][hub = "stopped" => UNCHANGED <<alarms, islands>>]_alarmsVars

\* An application that runs is reported again and again.
RunningAppReports == []<>(row.age = 0 \/ ~Alive \/ hub # "running")

\* An application that died turns stale in the table.
DeadAppTurnsStale == (app.pc = "dead" /\ row.known) ~> Stale

\* An emergency that is over ends its alarm, also in the store.
AlarmEnds ==
  <>[](app.status = "OK" /\ Alive /\ hub = "running")
    => <>[](Open(alarms) = {})

\* One alarm at a time, and the two stores agree on it once all is delivered.
AlarmsAreOne ==
  /\ AlarmsTypeOK
  /\ OneOpenAlarm
  /\ StoresAgree

\* An alarm's life only goes forward, and stores of a stopped hub do not change.
StoresOnlyMoveForward ==
  /\ AlarmsNeverGoBack
  /\ StoppedStoresRest

\* An app that runs reports, one that died is seen to be stale, and an alarm
\* whose cause is gone ends.
StatusesSettle ==
  /\ RunningAppReports
  /\ DeadAppTurnsStale
  /\ AlarmEnds

=============================================================================
