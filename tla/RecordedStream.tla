--------------------------- MODULE RecordedStream ---------------------------
(***************************************************************************)
(* One client's replay in the web server: the thread that plays a          *)
(* recording (recorded_io.py RecordingPlayer), the queue of one reader     *)
(* (RecordedIO), the thread of the application that fills the measurement  *)
(* window (snapshot_app.py, time_window_app.py, replay.py), the hub that   *)
(* starts and stops them (hub.py Hub), and a page that is sent the window  *)
(* in slices (time_window/api.py) and keeps a copy of it in the browser    *)
(* (useTimeWindowSocket.ts).                                               *)
(*                                                                         *)
(* Three threads and the browser interleave: the player, the application   *)
(* and the event loop, which runs the hub's and the page's actions.  A row *)
(* of the recording is its absolute index; a row of the window is its      *)
(* ordinal among the rows appended and the index it came from.             *)
(***************************************************************************)
EXTENDS Integers, Sequences, SequencesExt, FiniteSetsExt

CONSTANTS NRec,         \* rows in the recording
          NWin,         \* rows in the window
          QueueDepth,   \* depth of a reader's queue for live frames
          Selections,   \* channel selections a page may ask for
          MaxRow,       \* bound: rows played before the model stops
          MaxOps,       \* bound: commands and disconnects of the page
          MaxWire       \* bound: slices in flight to the browser

ASSUME StreamAssumption ==
  /\ NRec \in Nat \ {0} /\ NWin \in Nat \ {0} /\ QueueDepth \in Nat \ {0}
  /\ MaxRow \in Nat /\ MaxOps \in Nat /\ MaxWire \in Nat \ {0}
  /\ Selections # {}

VARIABLES hub,         \* phase of Hub.start and Hub.stop
          player,      \* [pc, loop, cursor, stop]: the RecordingPlayer
          readerQueue, \* [items, max]: the reader's queue of rows not yet read
          app,         \* [pc, row, stopped]: the application's thread
          win,         \* [rows, appended]: the window, and its counter n_appended
          page,        \* the page's ClientState on the server, or NoPage
          wire,        \* slices sent and not yet received
          buf,         \* [rows, sel, cap]: the browser's WindowBuffer
          ops          \* commands and disconnects so far

replayVars == <<hub, player, readerQueue, app, win, page, wire, buf, ops>>

NoPage == [open |-> FALSE]

RecTime(j) == 2 * j
Duration == RecTime(NRec - 1) + 2

\* Mutant: the pass is not counted.
TimeInPass(i) == RecTime(i % NRec)

\* Time stamp of a row (time_at): whole passes count, also before row 0.
TimeAt(i) == (i \div NRec) * Duration + RecTime(i % NRec)

-----------------------------------------------------------------------------
(* Hub: start and stop *)

\* A window of NWin rows that hold nothing yet: ordinals up to 0.
EmptyWindow == [rows |-> [j \in 1..NWin |-> [k |-> j - NWin, i |-> 0]],
                appended |-> 0]

NewPlayer(loop) == [pc |-> "off", loop |-> loop, cursor |-> 0, stop |-> FALSE]
NewQueue == [items |-> <<>>, max |-> QueueDepth]
EmptyBuffer == [rows |-> <<>>, sel |-> {}, cap |-> 0]

StreamInit ==
  /\ hub = "new"
  /\ \E loop \in BOOLEAN : player = NewPlayer(loop)
  /\ readerQueue = NewQueue
  /\ app = [pc |-> "off", row |-> 0, stopped |-> FALSE]
  /\ win = EmptyWindow
  /\ page = NoPage /\ wire = <<>> /\ buf = EmptyBuffer /\ ops = 0

PageVars == <<page, wire, buf, ops>>

\* The rows before the cursor that fill a window, or none of them when the
\* recording does not loop: there is nothing before its first row.
History(n) ==
  LET start == IF player.loop THEN player.cursor - n ELSE 0
  IN  [j \in 1..(player.cursor - start) |-> start + j - 1]

Newest(s, n) == SubSeq(s, IF Len(s) > n THEN Len(s) - n + 1 ELSE 1, Len(s))

\* Mutant: history goes through the live path, which drops the oldest.
OfferHistory(q, rows) == [q EXCEPT !.items = Newest(@ \o rows, q.max)]

\* _push_history: the queue grows rather than lose any of them.
PushHistory(q, rows) ==
  [items |-> q.items \o rows, max |-> Max({q.max, Len(q.items) + Len(rows)})]

\* Construction of the application asks its reader for a window of history.
Prefilled(q) == PushHistory(q, History(NWin))

BuildApps ==
  /\ hub = "new"
  /\ hub' = "built"
  /\ readerQueue' = Prefilled(readerQueue)
  /\ UNCHANGED <<player, app, win, PageVars>>

\* The application's thread first, so that it drains its history.
RunApps ==
  /\ hub = "built"
  /\ hub' = "apps"
  /\ app' = [app EXCEPT !.pc = "read"]
  /\ UNCHANGED <<player, readerQueue, win, PageVars>>

StartPlayer ==
  /\ hub = "apps"
  /\ hub' = "running"
  /\ player' = [player EXCEPT !.pc = "play"]
  /\ UNCHANGED <<readerQueue, app, win, PageVars>>

\* Mutant: stop does not stop the player.
StopAppsOnly ==
  /\ hub \in {"new", "built", "apps", "running"}
  /\ hub' = "stopping"
  /\ app' = [app EXCEPT !.stopped = TRUE]
  /\ UNCHANGED <<player, readerQueue, win, PageVars>>

\* stop, or a start that raised: the flags of the application and the player.
StopHub ==
  /\ hub \in {"new", "built", "apps", "running"}
  /\ hub' = "stopping"
  /\ app' = [app EXCEPT !.stopped = TRUE]
  /\ player' = [player EXCEPT !.stop = TRUE]
  /\ UNCHANGED <<readerQueue, win, PageVars>>

\* Both threads are joined for two seconds at most, so this waits for nothing.
FinishStop ==
  /\ hub = "stopping"
  /\ hub' = "stopped"
  /\ UNCHANGED <<player, readerQueue, app, win, PageVars>>

-----------------------------------------------------------------------------
(* The player's thread *)

Played == UNCHANGED <<hub, app, win, PageVars>>

Put(q, row) == [q EXCEPT !.items = Append(@, row)]

\* One row: into the queue, or the queue is found full (_offer).
PlayRow ==
  /\ player.pc = "play" /\ ~player.stop /\ player.cursor < MaxRow
  /\ player.loop \/ player.cursor < NRec
  /\ IF Len(readerQueue.items) < readerQueue.max
     THEN /\ readerQueue' = Put(readerQueue, player.cursor)
          /\ player' = [player EXCEPT !.cursor = @ + 1]
     ELSE /\ player' = [player EXCEPT !.pc = "full"]
          /\ UNCHANGED readerQueue
  /\ Played

\* A full queue gives up its oldest row, which the application may meanwhile
\* have taken: then the one after it goes.
MakeRoom(q, row) ==
  [q EXCEPT !.items = Append(IF @ = <<>> THEN <<>> ELSE Tail(@), row)]

PutDropping ==
  /\ player.pc = "full"
  /\ readerQueue' = MakeRoom(readerQueue, player.cursor)
  /\ player' = [player EXCEPT !.pc = "play", !.cursor = @ + 1]
  /\ Played

\* Stopped, or past the last row of a recording that does not loop.
PlayerEnds ==
  /\ player.pc = "play"
  /\ player.stop \/ (~player.loop /\ player.cursor >= NRec)
  /\ player' = [player EXCEPT !.pc = "done", !.stop = TRUE]
  /\ UNCHANGED readerQueue /\ Played

-----------------------------------------------------------------------------
(* The application's thread: run, update, append *)

AppStep == UNCHANGED <<hub, player, PageVars>>

ReadRow ==
  /\ app.pc = "read" /\ readerQueue.items # <<>>
  /\ app' = [app EXCEPT !.pc = "row", !.row = Head(readerQueue.items)]
  /\ readerQueue' = [readerQueue EXCEPT !.items = Tail(@)]
  /\ UNCHANGED win /\ AppStep

\* The queue stays empty and the player has stopped: StopIteration.
EndOfStream ==
  /\ app.pc = "read" /\ readerQueue.items = <<>>
  /\ player.stop
  /\ app' = [app EXCEPT !.pc = "done", !.stopped = TRUE]
  /\ UNCHANGED <<readerQueue, win>> /\ AppStep

\* TimeWindow.append: the newest row takes the place of the oldest.
Appended(rows, i) == Append(Tail(rows), [k |-> Last(rows).k + 1, i |-> i])

\* update_storage, under the window's lock.
AppendRow ==
  /\ app.pc = "row"
  /\ win' = [win EXCEPT !.rows = Appended(@, app.row)]
  /\ app' = [app EXCEPT !.pc = "appended"]
  /\ UNCHANGED readerQueue /\ AppStep

\* CountingTimeWindowLabeled.append counts the row after the lock is released;
\* then the loop of run looks whether the application was stopped.
CountRow ==
  /\ app.pc = "appended"
  /\ win' = [win EXCEPT !.appended = @ + 1]
  /\ app' = [app EXCEPT !.pc = IF app.stopped THEN "done" ELSE "read"]
  /\ UNCHANGED readerQueue /\ AppStep

\* An exception while a row is stored or, after that, analysed: the thread
\* ends, and nothing is logged.
AppDies ==
  /\ app.pc \in {"row", "read"}
  /\ app' = [app EXCEPT !.pc = "dead"]
  /\ UNCHANGED <<readerQueue, win>> /\ AppStep

-----------------------------------------------------------------------------
(* The page: a socket, its ClientState, and the browser's buffer *)

HubVars == <<hub, player, readerQueue, app, win>>

\* A socket opens: the counter is the baseline, the first slice a full one.
Connect ==
  /\ ~page.open /\ hub = "running"
  /\ \E sel \in Selections :
       page' = [open |-> TRUE, sel |-> sel, last |-> win.appended,
                full |-> TRUE]
  /\ UNCHANGED <<HubVars, wire, buf, ops>>

\* The socket closes: the session goes, slices in flight are lost and the
\* browser keeps its buffer.
Disconnect ==
  /\ page.open /\ ops < MaxOps
  /\ page' = NoPage /\ wire' = <<>> /\ ops' = ops + 1
  /\ UNCHANGED <<HubVars, buf>>

\* Mutant: a new selection goes on appending.
SelectAndAppend ==
  /\ page.open /\ ops < MaxOps
  /\ \E sel \in Selections : page' = [page EXCEPT !.sel = sel]
  /\ ops' = ops + 1
  /\ UNCHANGED <<HubVars, wire, buf>>

\* POST /selection: other channels, so the next slice is a full one.
SelectChannels ==
  /\ page.open /\ ops < MaxOps
  /\ \E sel \in Selections :
       page' = [page EXCEPT !.sel = sel, !.full = TRUE]
  /\ ops' = ops + 1
  /\ UNCHANGED <<HubVars, wire, buf>>

\* POST /resync
Resync ==
  /\ page.open /\ ops < MaxOps
  /\ page' = [page EXCEPT !.full = TRUE]
  /\ ops' = ops + 1
  /\ UNCHANGED <<HubVars, wire, buf>>

NewRows == win.appended - page.last
SendFull == page.full \/ NewRows >= NWin

NewestRows(n) == Newest(win.rows, n)

\* build_message: the whole window, or as many rows as the counter says are
\* new.
NextSlice ==
  [full |-> SendFull, sel |-> page.sel,
   rows |-> NewestRows(IF SendFull THEN NWin ELSE NewRows)]

\* A tick of serve_ticks sends a slice, or nothing when nothing is new.
Tick ==
  /\ page.open /\ Len(wire) < MaxWire
  /\ SendFull \/ NewRows > 0
  /\ wire' = Append(wire, NextSlice)
  /\ page' = [page EXCEPT !.full = FALSE, !.last = win.appended]
  /\ UNCHANGED <<HubVars, buf, ops>>

\* A row in the buffer, with the channels its values are of.
Shown(m) == [j \in DOMAIN m.rows |-> [k |-> m.rows[j].k, sel |-> m.sel]]

\* apply: a full slice replaces the buffer, an append is added and the buffer
\* cut to its capacity from the front.
Receive ==
  /\ wire # <<>>
  /\ LET m == Head(wire) IN
       buf' = IF m.full
              THEN [rows |-> Shown(m), sel |-> m.sel, cap |-> NWin]
              ELSE IF buf.cap = 0 THEN buf
              ELSE [buf EXCEPT !.rows = Newest(@ \o Shown(m), buf.cap)]
  /\ wire' = Tail(wire)
  /\ UNCHANGED <<HubVars, page, ops>>

-----------------------------------------------------------------------------
PlayerNext == PlayRow \/ PutDropping \/ PlayerEnds
AppNext == ReadRow \/ EndOfStream \/ AppendRow \/ CountRow
HubNext == BuildApps \/ RunApps \/ StartPlayer
PageNext == Connect \/ Disconnect \/ SelectChannels \/ Resync

\* The hub has stopped, its threads have ended and no page is open.
Terminated ==
  /\ hub = "stopped" /\ app.pc # "row" /\ UNCHANGED replayVars

StreamNext == \/ HubNext \/ StopHub \/ FinishStop
        \/ PlayerNext \/ AppNext \/ AppDies
        \/ PageNext \/ Tick \/ Receive
        \/ Terminated

\* Threads run on, and the event loop serves what is due; commands, failures
\* and the end of a hub are free to happen or not.
Fairness ==
  /\ WF_replayVars(HubNext) /\ WF_replayVars(FinishStop)
  /\ WF_replayVars(PlayerNext) /\ WF_replayVars(AppNext)
  /\ WF_replayVars(Tick) /\ WF_replayVars(Receive)

StreamSpec == StreamInit /\ [][StreamNext]_replayVars /\ Fairness

-----------------------------------------------------------------------------
Slice == [full : BOOLEAN, sel : Selections, rows : Seq([k : Int, i : Int])]

StreamTypeOK ==
  /\ hub \in {"new", "built", "apps", "running", "stopping", "stopped"}
  /\ player \in [pc : {"off", "play", "full", "done"}, loop : BOOLEAN,
                 cursor : 0..MaxRow, stop : BOOLEAN]
  /\ readerQueue.items \in Seq(Int) /\ readerQueue.max \in Nat
  /\ Len(readerQueue.items) <= readerQueue.max
  /\ app \in [pc : {"off", "read", "row", "appended", "done", "dead"},
              row : Int, stopped : BOOLEAN]
  /\ win \in [rows : Seq([k : Int, i : Int]), appended : Nat]
  /\ Len(win.rows) = NWin
  /\ \/ page = NoPage
     \/ page \in [open : {TRUE}, sel : Selections, last : Nat, full : BOOLEAN]
  /\ wire \in Seq(Slice) /\ ops \in 0..MaxOps
  /\ buf.rows \in Seq([k : Int, sel : Selections]) /\ Len(buf.rows) <= NWin

\* The rows the window holds, as many as were appended, and those on their way
\* to it, oldest first.
Arrived == Newest(win.rows, Last(win.rows).k)
Coming ==
  [j \in DOMAIN Arrived |-> Arrived[j].i]
    \o (IF app.pc = "row" THEN <<app.row>> ELSE <<>>) \o readerQueue.items

\* A window's worth of history reaches an application that replays a loop,
\* however slow its thread is and however many live rows the player pushes
\* behind it (_push_history, RecordedIO._offer).
PrefillIsWhole ==
  (player.loop /\ hub \in {"built", "apps", "running"} /\ app.pc # "dead")
    => Len(Coming) >= NWin

\* A reader that falls behind is dropped forward to the newest data: the row
\* played last is in the window, in hand or queued, whatever was dropped.
NewestIsKept ==
  (player.cursor > 0 /\ app.pc # "dead") => Last(Coming) = player.cursor - 1

\* Time goes up from row to row, in the window and in the queue, also across
\* the seam of the loop and from the history to the rows that are played.
TimeMovesForward ==
  \A j \in 1..(Len(Coming) - 1) : TimeAt(Coming[j]) < TimeAt(Coming[j + 1])

\* The values in the browser's buffer are of the channels it lists.
BufferShowsItsChannels == \A j \in DOMAIN buf.rows : buf.rows[j].sel = buf.sel

\* The browser's copy is the window but for the one row that is appended and
\* not yet counted when a slice is built: at such a slice one row is repeated
\* or left out, and errors of several slices do not add up.
BufferWithinOneRow ==
  \A j \in 1..(Len(buf.rows) - 1) :
    buf.rows[j + 1].k - buf.rows[j].k \in 0..2

\* However far an open page falls behind, its buffer comes level with the
\* window again: the row counted last is in it.
ViewCatchesUp ==
  []<>(page.open => buf.rows # <<>> /\ Last(buf.rows).k >= win.appended)

\* After a stop, the application's thread ends although it may be blocked on
\* its queue, and the player's thread ends.
ThreadsEnd ==
  (hub = "stopped") ~> (app.pc \in {"off", "done", "dead"}
                        /\ player.pc \in {"off", "done"})

\* What the application is handed is whole: the prefill in full, and the newest
\* row whatever its queue dropped.
StreamIsWhole ==
  /\ StreamTypeOK
  /\ PrefillIsWhole
  /\ NewestIsKept

\* The browser's buffer is of the channels it lists, and within one row of the
\* window on the server.
BufferIsOfItsChannels ==
  /\ BufferShowsItsChannels
  /\ BufferWithinOneRow

\* A page comes level with the window again, and the threads end after a stop.
StreamSettles ==
  /\ ViewCatchesUp
  /\ ThreadsEnd

=============================================================================
