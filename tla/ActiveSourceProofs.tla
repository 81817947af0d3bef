------------------------- MODULE ActiveSourceProofs -------------------------
(***************************************************************************)
(* ActiveSource for every set of sources and every number of commands: one *)
(* source at a time feeds the run, and commands are applied in order.      *)
(***************************************************************************)
EXTENDS ActiveSource, FiniteSetTheorems, TLAPS

\* Commands wait in the order they came in.
QueueInv ==
    /\ applying <= arrived
    /\ \A k \in 1..Len(waiting) : waiting[k] <= arrived
    /\ \A k, l \in 1..Len(waiting) : k < l => waiting[k] < waiting[l]

\* Where a switch is says what the router has let go of already.
SwitchInv ==
    /\ at = "stopping" => command[applying] \in Sources
    /\ at = "starting" => playable \in Sources
    /\ at \in {"starting", "opening"} => playing = {} /\ pump = "none"

\* The player that runs is the router's own, beside no pump.
PlayerInv == playing # {} => pump = "none" /\ playing = {playable}

\* The inbox has ended before the router stops, and both stay so.
StoppedInv ==
    phase = "stopped" =>
        applying = None /\ playing = {} /\ pump \in {"none", "ended"} /\ ~stream

SourceInv == SwitchInv /\ PlayerInv /\ StoppedInv

\* A command's fate says where it is.
FateInv ==
    /\ \A i \in Ids : fate[i] = "none" <=> i > arrived
    /\ \A i \in Ids : fate[i] = "waiting" <=> \E k \in 1..Len(waiting) : waiting[k] = i
    /\ phase = "running" => \A i \in Ids : fate[i] = "applying" => applying = i
    /\ at = "done" => fate[applying] \in {"applied", "reported"}
    /\ at \notin {"none", "done"} => fate[applying] = "applying"
    /\ phase = "running" /\ at = "cancelled" => preempted # None

IInv == TypeOK /\ QueueInv /\ SourceInv /\ FateInv

-----------------------------------------------------------------------------
(* The queue *)

\* The next command, and what is left of the queue.
LEMMA QueueHead ==
    ASSUME NEW s \in Seq(Ids), s # <<>>
    PROVE  /\ Head(s) \in Ids /\ Tail(s) \in Seq(Ids)
           /\ Head(s) = s[1] /\ Len(s) \in Nat /\ Len(s) >= 1
           /\ Len(Tail(s)) = Len(s) - 1
           /\ \A k \in 1..(Len(s) - 1) : Tail(s)[k] = s[k + 1]
OBVIOUS

\* A new command is in the type of commands, and last in the queue.
LEMMA QueueEnd ==
    ASSUME NEW s \in Seq(Ids), NEW n \in Ids
    PROVE  /\ Append(s, n) \in Seq(Ids) /\ <<n>> \in Seq(Ids)
           /\ Len(s) \in Nat
           /\ Len(Append(s, n)) = Len(s) + 1
           /\ Append(s, n)[Len(s) + 1] = n
           /\ \A k \in 1..Len(s) : Append(s, n)[k] = s[k]
OBVIOUS

LEMMA CountsCommands == TypeOK => arrived \in Nat /\ arrived \in 0..MaxCommands
BY ActiveSourceAssumption DEF TypeOK

LEMMA ArriveType ==
    ASSUME TypeOK, NEW c \in Sources \cup {Playback, Unknown}, NEW isLate \in BOOLEAN,
           Arrive(c, isLate)
    PROVE  TypeOK' /\ arrived' = arrived + 1 /\ arrived' \in Ids
<1>1. arrived + 1 \in Ids /\ arrived' = arrived + 1
  BY ActiveSourceAssumption DEF TypeOK, Arrive, Reading, Ids
<1>2. waiting' \in Seq(Ids)
  BY <1>1, QueueEnd DEF TypeOK, Arrive, Reading
<1>3. fate' \in [Ids -> {"none", "waiting", "applying", "applied", "reported"}]
  BY DEF TypeOK, Arrive, Reading
<1>4. arrived' \in 0..MaxCommands
  BY <1>1, ActiveSourceAssumption DEF Ids
<1>5. /\ command' \in [Ids -> Sources \cup {Playback, Unknown}]
      /\ late' \in [Ids -> BOOLEAN]
  BY DEF TypeOK, Arrive, Reading
<1>6. preempted' \in Ids \cup {None}
  BY <1>1 DEF TypeOK, Arrive, Reading
<1> QED
  BY <1>1, <1>2, <1>3, <1>4, <1>5, <1>6 DEF TypeOK, Arrive, Reading, sourceVars, pumpVars

\* What Serve takes from the queue, and its fate.
LEMMA ServeFacts ==
    ASSUME TypeOK, QueueInv, Serve
    PROVE  /\ waiting # <<>> /\ applying' = Head(waiting) /\ waiting' = Tail(waiting)
           /\ applying' \in Ids /\ applying' <= arrived /\ applying' # None
           /\ applying' = waiting[1]
           /\ at' = "created"
           /\ fate' = [fate EXCEPT ![applying'] = "applying"]
<1>1. waiting \in Seq(Ids) /\ waiting # <<>>  BY DEF TypeOK, Serve
<1>2. Head(waiting) \in Ids /\ Head(waiting) = waiting[1] /\ 1 \in 1..Len(waiting)
  BY <1>1, QueueHead
<1> QED  BY <1>1, <1>2 DEF Serve, QueueInv, Ids, None

-----------------------------------------------------------------------------
(* Types, and the order of what waits *)

LEMMA InitHolds == Init => IInv
<1> SUFFICES ASSUME Init PROVE IInv  OBVIOUS
<1> USE DEF Init, None, Ids
<1>1. TypeOK
  <2>1. arrived \in 0..MaxCommands  BY ActiveSourceAssumption
  <2>2. /\ command \in [Ids -> Sources \cup {Playback, Unknown}]
        /\ late \in [Ids -> BOOLEAN]
        /\ fate \in [Ids -> {"none", "waiting", "applying", "applied", "reported"}]
    OBVIOUS
  <2>3. waiting \in Seq(Ids)  OBVIOUS
  <2>4. /\ active \in Sources /\ playable \in Sources \cup {NoSource}
        /\ playing \in SUBSET Sources /\ handed \in SUBSET Ids
    BY ActiveSourceAssumption
  <2> QED  BY <2>1, <2>2, <2>3, <2>4 DEF TypeOK, At
<1>2. QueueInv  BY DEF QueueInv
<1>3. SourceInv  BY DEF SourceInv, SwitchInv, PlayerInv, StoppedInv
<1>4. FateInv  BY DEF FateInv
<1> QED  BY <1>1, <1>2, <1>3, <1>4 DEF IInv

\* A step keeps every variable in its type.
LEMMA TypeStep == TypeOK /\ QueueInv /\ SourceInv /\ [Next]_vars => TypeOK'
<1> SUFFICES ASSUME TypeOK, QueueInv, SourceInv, [Next]_vars PROVE TypeOK'  OBVIOUS
<1> USE DEF inboxVars, sourceVars, pumpVars, None, Free, Busy, At
<1>1. ASSUME NEW c \in Sources \cup {Playback, Unknown}, NEW isLate \in {FALSE, Late},
             Arrive(c, isLate)
      PROVE  TypeOK'
  <2>1. isLate \in BOOLEAN  BY ActiveSourceAssumption
  <2> QED  BY <1>1, <2>1, ArriveType
<1>2. CASE Serve
  <2>1. Tail(waiting) \in Seq(Ids)  BY <1>2, QueueHead DEF Serve, TypeOK
  <2> QED  BY <1>2, <2>1, ServeFacts DEF Serve, TypeOK
<1>3. CASE Served
  BY <1>3 DEF Served, TypeOK, SourceInv, SwitchInv
<1>4. CASE Refuse
  BY <1>4 DEF Refuse, Finish, TypeOK, SourceInv, SwitchInv
<1>5. CASE HandOver
  BY <1>5 DEF HandOver, TypeOK, SourceInv, SwitchInv
<1>6. CASE Switch
  BY <1>6 DEF Switch, Applies, IsSwitch, TypeOK, SourceInv, SwitchInv
<1>7. CASE Cancelled
  BY <1>7 DEF Cancelled, StopsPlaying, TypeOK, SourceInv, SwitchInv
<1>8. CASE Stopped
  BY <1>8 DEF Stopped, StopsPlaying, CloseStream, Finish, TypeOK, SourceInv, SwitchInv
<1>9. CASE Started
  BY <1>9 DEF Started, Finish, TypeOK, SourceInv, SwitchInv
<1>10. ASSUME NEW ok \in BOOLEAN, Opened(ok) PROVE TypeOK'
  BY <1>10 DEF Opened, Finish, TypeOK, SourceInv, SwitchInv
<1>11. ASSUME NEW i \in Ids, NEW outcome \in {"applied", "reported"}, PlayerAnswers(i, outcome)
      PROVE  TypeOK'
  BY <1>11 DEF PlayerAnswers, Finish, TypeOK, SourceInv, SwitchInv
<1>12. CASE PumpFrame
  BY <1>12 DEF PumpFrame, TypeOK, SourceInv, SwitchInv
<1>13. ASSUME NEW failed \in BOOLEAN, PumpStops(failed) PROVE TypeOK'
  BY <1>13 DEF PumpStops, TypeOK, SourceInv, SwitchInv
<1>14. CASE Reopened
  BY <1>14 DEF Reopened, TypeOK, SourceInv, SwitchInv
<1>15. CASE Stop
  BY <1>15 DEF Stop, TypeOK, SourceInv, SwitchInv
<1>16. CASE RouterStops
  BY <1>16 DEF RouterStops, StopsPlaying, CloseStream, TypeOK, SourceInv, SwitchInv
<1>17. CASE Terminated
  BY <1>17 DEF Terminated, vars, TypeOK, SourceInv, SwitchInv
<1>18. CASE UNCHANGED vars
  BY <1>18 DEF vars, TypeOK, SourceInv, SwitchInv
<1> QED
  BY <1>1, <1>2, <1>3, <1>4, <1>5, <1>6, <1>7, <1>8, <1>9, <1>10,
     <1>11, <1>12, <1>13, <1>14, <1>15, <1>16, <1>17, <1>18
     DEF Next, InboxStep, SwitchStep, PlayerStep, PumpStep

\* What waits stays in the order it came in.
LEMMA QueueStep == TypeOK /\ QueueInv /\ [Next]_vars => QueueInv'
<1> SUFFICES ASSUME TypeOK, QueueInv, [Next]_vars PROVE QueueInv'  OBVIOUS
<1> USE DEF inboxVars, sourceVars, pumpVars, None, Free, Busy
<1>1. ASSUME NEW c \in Sources \cup {Playback, Unknown}, NEW isLate \in {FALSE, Late},
             Arrive(c, isLate)
      PROVE  QueueInv'
  <2>1. isLate \in BOOLEAN  BY ActiveSourceAssumption
  <2>2. arrived' = arrived + 1 /\ arrived' \in Ids /\ arrived \in Nat
    BY <1>1, <2>1, ArriveType, CountsCommands
  <2>3. waiting \in Seq(Ids)  BY DEF TypeOK
  <2>4. CASE waiting' = <<arrived'>>
    BY <1>1, <2>2, <2>4, SMTT(30) DEF Arrive, Reading, QueueInv, TypeOK, Ids
  <2>5. CASE waiting' = Append(waiting, arrived')
    <3>1. /\ Len(waiting') = Len(waiting) + 1 /\ Len(waiting) \in Nat
          /\ waiting'[Len(waiting) + 1] = arrived'
          /\ \A k \in 1..Len(waiting) : waiting'[k] = waiting[k] /\ waiting[k] \in Ids
      BY <2>2, <2>3, <2>5, QueueEnd
    <3> QED  BY <1>1, <2>2, <3>1 DEF Arrive, Reading, QueueInv, TypeOK, Ids
  <2> QED  BY <1>1, <2>2, <2>4, <2>5 DEF Arrive, Reading
<1>2. CASE Serve
  <2>1. waiting \in Seq(Ids) /\ waiting # <<>>  BY <1>2 DEF Serve, TypeOK
  <2>2. /\ Len(waiting) \in Nat /\ Len(Tail(waiting)) = Len(waiting) - 1
        /\ \A k \in 1..(Len(waiting) - 1) : Tail(waiting)[k] = waiting[k + 1]
    BY <2>1, QueueHead
  <2>3. \A k \in 1..Len(waiting) : waiting[k] \in Ids  BY <2>1
  <2> QED  BY <1>2, <2>2, <2>3, ServeFacts DEF Serve, QueueInv, Ids
<1>3. CASE Served
  BY <1>3 DEF Served, TypeOK, QueueInv, Ids
<1>4. CASE Refuse
  BY <1>4 DEF Refuse, Finish, TypeOK, QueueInv, Ids
<1>5. CASE HandOver
  BY <1>5 DEF HandOver, TypeOK, QueueInv, Ids
<1>6. CASE Switch
  BY <1>6 DEF Switch, Applies, IsSwitch, TypeOK, QueueInv, Ids
<1>7. CASE Cancelled
  BY <1>7 DEF Cancelled, StopsPlaying, TypeOK, QueueInv, Ids
<1>8. CASE Stopped
  BY <1>8 DEF Stopped, StopsPlaying, CloseStream, Finish, TypeOK, QueueInv, Ids
<1>9. CASE Started
  BY <1>9 DEF Started, Finish, TypeOK, QueueInv, Ids
<1>10. ASSUME NEW ok \in BOOLEAN, Opened(ok) PROVE QueueInv'
  BY <1>10 DEF Opened, Finish, TypeOK, QueueInv, Ids
<1>11. ASSUME NEW i \in Ids, NEW outcome \in {"applied", "reported"}, PlayerAnswers(i, outcome)
      PROVE  QueueInv'
  BY <1>11 DEF PlayerAnswers, Finish, TypeOK, QueueInv, Ids
<1>12. CASE PumpFrame
  BY <1>12 DEF PumpFrame, TypeOK, QueueInv, Ids
<1>13. ASSUME NEW failed \in BOOLEAN, PumpStops(failed) PROVE QueueInv'
  BY <1>13 DEF PumpStops, TypeOK, QueueInv, Ids
<1>14. CASE Reopened
  BY <1>14 DEF Reopened, TypeOK, QueueInv, Ids
<1>15. CASE Stop
  BY <1>15 DEF Stop, TypeOK, QueueInv, Ids
<1>16. CASE RouterStops
  BY <1>16 DEF RouterStops, StopsPlaying, CloseStream, TypeOK, QueueInv, Ids
<1>17. CASE Terminated
  BY <1>17 DEF Terminated, vars, TypeOK, QueueInv, Ids
<1>18. CASE UNCHANGED vars
  BY <1>18 DEF vars, TypeOK, QueueInv, Ids
<1> QED
  BY <1>1, <1>2, <1>3, <1>4, <1>5, <1>6, <1>7, <1>8, <1>9, <1>10,
     <1>11, <1>12, <1>13, <1>14, <1>15, <1>16, <1>17, <1>18
     DEF Next, InboxStep, SwitchStep, PlayerStep, PumpStep

-----------------------------------------------------------------------------
(* One source at a time *)

\* A step leaves no player or pump beside another.
LEMMA SourceStep == TypeOK /\ QueueInv /\ SourceInv /\ [Next]_vars => SourceInv'
<1> SUFFICES ASSUME TypeOK, QueueInv, SourceInv, [Next]_vars PROVE SourceInv'  OBVIOUS
<1> USE DEF inboxVars, sourceVars, pumpVars, None, Free, Busy
<1>1. ASSUME NEW c \in Sources \cup {Playback, Unknown}, NEW isLate \in {FALSE, Late},
             Arrive(c, isLate)
      PROVE  SourceInv'
  <2>1. at # "none" => command'[applying] = command[applying]
    BY <1>1 DEF Arrive, Reading, TypeOK, QueueInv, Ids
  <2> QED  BY <1>1, <2>1 DEF Arrive, Reading, SourceInv, SwitchInv, PlayerInv, StoppedInv
<1>2. CASE Serve
  BY <1>2, ServeFacts DEF Serve, SourceInv, SwitchInv, PlayerInv, StoppedInv
<1>3. CASE Served
  BY <1>3 DEF Served, TypeOK, SourceInv, SwitchInv, PlayerInv, StoppedInv
<1>4. CASE Refuse
  BY <1>4 DEF Refuse, Finish, TypeOK, SourceInv, SwitchInv, PlayerInv, StoppedInv
<1>5. CASE HandOver
  BY <1>5 DEF HandOver, TypeOK, SourceInv, SwitchInv, PlayerInv, StoppedInv
<1>6. CASE Switch
  BY <1>6 DEF Switch, Applies, IsSwitch, TypeOK, SourceInv, SwitchInv, PlayerInv, StoppedInv
<1>7. CASE Cancelled
  BY <1>7 DEF Cancelled, StopsPlaying, TypeOK, SourceInv, SwitchInv, PlayerInv, StoppedInv
<1>8. CASE Stopped
  BY <1>8 DEF Stopped, StopsPlaying, CloseStream, Finish, TypeOK, SourceInv, SwitchInv, PlayerInv, StoppedInv
<1>9. CASE Started
  BY <1>9 DEF Started, Finish, TypeOK, SourceInv, SwitchInv, PlayerInv, StoppedInv
<1>10. ASSUME NEW ok \in BOOLEAN, Opened(ok) PROVE SourceInv'
  BY <1>10 DEF Opened, Finish, TypeOK, SourceInv, SwitchInv, PlayerInv, StoppedInv
<1>11. ASSUME NEW i \in Ids, NEW outcome \in {"applied", "reported"}, PlayerAnswers(i, outcome)
      PROVE  SourceInv'
  BY <1>11 DEF PlayerAnswers, Finish, TypeOK, SourceInv, SwitchInv, PlayerInv, StoppedInv
<1>12. CASE PumpFrame
  BY <1>12 DEF PumpFrame, TypeOK, SourceInv, SwitchInv, PlayerInv, StoppedInv
<1>13. ASSUME NEW failed \in BOOLEAN, PumpStops(failed) PROVE SourceInv'
  BY <1>13 DEF PumpStops, TypeOK, SourceInv, SwitchInv, PlayerInv, StoppedInv
<1>14. CASE Reopened
  BY <1>14 DEF Reopened, TypeOK, SourceInv, SwitchInv, PlayerInv, StoppedInv
<1>15. CASE Stop
  BY <1>15 DEF Stop, TypeOK, SourceInv, SwitchInv, PlayerInv, StoppedInv
<1>16. CASE RouterStops
  BY <1>16 DEF RouterStops, StopsPlaying, CloseStream, TypeOK, SourceInv, SwitchInv, PlayerInv, StoppedInv
<1>17. CASE Terminated
  BY <1>17 DEF Terminated, vars, TypeOK, SourceInv, SwitchInv, PlayerInv, StoppedInv
<1>18. CASE UNCHANGED vars
  BY <1>18 DEF vars, TypeOK, SourceInv, SwitchInv, PlayerInv, StoppedInv
<1> QED
  BY <1>1, <1>2, <1>3, <1>4, <1>5, <1>6, <1>7, <1>8, <1>9, <1>10,
     <1>11, <1>12, <1>13, <1>14, <1>15, <1>16, <1>17, <1>18
     DEF Next, InboxStep, SwitchStep, PlayerStep, PumpStep

-----------------------------------------------------------------------------
(* The fate of each command *)

\* A step forgets no command, and settles none twice.
LEMMA FateStep == TypeOK /\ QueueInv /\ SourceInv /\ FateInv /\ [Next]_vars => FateInv'
<1> SUFFICES ASSUME TypeOK, QueueInv, SourceInv, FateInv, [Next]_vars PROVE FateInv'  OBVIOUS
<1> USE DEF inboxVars, sourceVars, pumpVars, None, Free, Busy
<1>1. ASSUME NEW c \in Sources \cup {Playback, Unknown}, NEW isLate \in {FALSE, Late},
             Arrive(c, isLate)
      PROVE  FateInv'
  <2>1. isLate \in BOOLEAN  BY ActiveSourceAssumption
  <2>2. arrived' = arrived + 1 /\ arrived' \in Ids /\ arrived \in Nat
    BY <1>1, <2>1, ArriveType, CountsCommands
  <2>3. waiting \in Seq(Ids)  BY DEF TypeOK
  <2>4. fate[arrived'] = "none"  BY <2>2 DEF FateInv, Ids
  <2>5. CASE c # Playback
    <3>1. waiting' = <<arrived'>>  BY <1>1, <2>2, <2>5 DEF Arrive, Reading
    <3>2. fate' = [i \in Ids |-> IF i = arrived' THEN "waiting"
                                 ELSE IF fate[i] = "waiting" THEN "reported" ELSE fate[i]]
      BY <1>1, <2>2, <2>5 DEF Arrive, Reading
    <3>3. \A i \in Ids : fate'[i] = "waiting" <=> \E k \in 1..Len(waiting') : waiting'[k] = i
      BY <2>2, <3>1, <3>2
    <3>4. \A i \in Ids : fate'[i] = "none" <=> i > arrived'
      BY <2>2, <2>4, <3>2 DEF FateInv, Ids
    <3>5. at # "none" => applying \in Ids /\ applying # arrived'
      BY <2>2 DEF TypeOK, QueueInv
    <3>6. /\ phase = "running" => \A i \in Ids : fate'[i] = "applying" => applying = i
          /\ at = "done" => fate'[applying] \in {"applied", "reported"}
          /\ at \notin {"none", "done"} => fate'[applying] = "applying"
      BY <3>2, <3>5 DEF FateInv, At, TypeOK
    <3>7. applying' = applying /\ at' = at /\ phase' = phase
      BY <1>1 DEF Arrive, Reading
    <3>8. phase' = "running" /\ at' = "cancelled" => preempted' # None
      BY <1>1, <2>2 DEF Arrive, Reading, FateInv, Ids
    <3> QED  BY <3>3, <3>4, <3>6, <3>7, <3>8 DEF FateInv
  <2>6. CASE c = Playback
    <3>1. waiting' = Append(waiting, arrived')  BY <1>1, <2>2, <2>6 DEF Arrive, Reading
    <3>2. fate' = [i \in Ids |-> IF i = arrived' THEN "waiting" ELSE fate[i]]
      BY <1>1, <2>2, <2>6 DEF Arrive, Reading
    <3>3. /\ Len(waiting') = Len(waiting) + 1 /\ Len(waiting) \in Nat
          /\ waiting'[Len(waiting) + 1] = arrived'
          /\ \A k \in 1..Len(waiting) : waiting'[k] = waiting[k]
      BY <2>2, <2>3, <3>1, QueueEnd
    <3>4. ASSUME NEW i \in Ids
          PROVE  fate'[i] = "waiting" <=> \E k \in 1..Len(waiting') : waiting'[k] = i
      <4>1. (\E k \in 1..Len(waiting') : waiting'[k] = i)
              <=> (i = arrived' \/ \E k \in 1..Len(waiting) : waiting[k] = i)
        BY <3>3
      <4>2. fate[i] = "waiting" <=> \E k \in 1..Len(waiting) : waiting[k] = i
        BY DEF FateInv
      <4> QED  BY <2>4, <3>2, <4>1, <4>2
    <3>5. \A i \in Ids : fate'[i] = "none" <=> i > arrived'
      BY <2>2, <2>4, <3>2 DEF FateInv, Ids
    <3>6. at # "none" => applying \in Ids /\ applying # arrived'
      BY <2>2 DEF TypeOK, QueueInv
    <3>7. /\ phase = "running" => \A i \in Ids : fate'[i] = "applying" => applying = i
          /\ at = "done" => fate'[applying] \in {"applied", "reported"}
          /\ at \notin {"none", "done"} => fate'[applying] = "applying"
      BY <3>2, <3>6 DEF FateInv, At, TypeOK
    <3>8. applying' = applying /\ at' = at /\ phase' = phase /\ preempted' = preempted
      BY <1>1, <2>6 DEF Arrive, Reading
    <3> QED  BY <3>4, <3>5, <3>7, <3>8 DEF FateInv
  <2> QED  BY <2>5, <2>6
<1>2. CASE Serve
  <2>1. waiting \in Seq(Ids) /\ waiting # <<>>  BY <1>2 DEF Serve, TypeOK
  <2>2. /\ Len(waiting) \in Nat /\ Len(waiting) >= 1
        /\ Len(waiting') = Len(waiting) - 1
        /\ \A k \in 1..(Len(waiting) - 1) : waiting'[k] = waiting[k + 1]
    BY <1>2, <2>1, QueueHead, ServeFacts
  <2>3. ASSUME NEW i \in Ids
        PROVE  fate'[i] = "waiting" <=> \E k \in 1..Len(waiting') : waiting'[k] = i
    <3>1. CASE i = applying'
      <4>1. \A k \in 1..Len(waiting') : waiting'[k] > i
        BY <1>2, <2>1, <2>2, <3>1, ServeFacts DEF QueueInv, Ids
      <4>2. fate'[i] = "applying"  BY <1>2, <3>1, ServeFacts DEF TypeOK
      <4>3. \A k \in 1..Len(waiting') : waiting'[k] # i  BY <4>1 DEF Ids
      <4> QED  BY <4>2, <4>3
    <3>2. CASE i # applying'
      <4>1. fate'[i] = fate[i]  BY <1>2, <3>2, ServeFacts DEF TypeOK
      <4>2. fate[i] = "waiting" <=> \E k \in 1..Len(waiting) : waiting[k] = i
        BY DEF FateInv
      <4>3. waiting[1] # i  BY <1>2, <3>2, ServeFacts
      <4>4. ASSUME NEW k \in 1..Len(waiting), waiting[k] = i
            PROVE  \E j \in 1..Len(waiting') : waiting'[j] = i
        <5>1. k - 1 \in 1..Len(waiting') /\ waiting'[k - 1] = i
          BY <2>2, <4>3, <4>4
        <5> QED  BY <5>1
      <4>5. ASSUME NEW k \in 1..Len(waiting'), waiting'[k] = i
            PROVE  \E j \in 1..Len(waiting) : waiting[j] = i
        <5>1. k + 1 \in 1..Len(waiting) /\ waiting[k + 1] = i
          BY <2>2, <4>5
        <5> QED  BY <5>1
      <4> QED  BY <4>1, <4>2, <4>4, <4>5
    <3> QED  BY <3>1, <3>2
  <2>4. \A i \in Ids : fate'[i] = "none" <=> i > arrived'
    <3>1. arrived' = arrived /\ arrived \in Nat  BY <1>2, CountsCommands DEF Serve
    <3>2. applying' \in Ids /\ applying' <= arrived /\ fate' = [fate EXCEPT ![applying'] = "applying"]
      BY <1>2, ServeFacts
    <3>3. ~(applying' > arrived)  BY <3>1, <3>2 DEF Ids
    <3> QED  BY <3>1, <3>2, <3>3 DEF FateInv, TypeOK
  <2>5. phase' = phase /\ phase = "running" /\ applying = None  BY <1>2 DEF Serve
  <2>6. \A i \in Ids : fate[i] # "applying"  BY <2>5 DEF FateInv, Ids
  <2>7. \A i \in Ids : fate'[i] = "applying" => applying' = i
    BY <1>2, <2>6, ServeFacts DEF TypeOK
  <2>8. at' = "created" /\ fate'[applying'] = "applying"
    BY <1>2, ServeFacts DEF TypeOK
  <2> QED  BY <2>3, <2>4, <2>7, <2>8 DEF FateInv
<1>3. CASE Served
  BY <1>3 DEF Served, TypeOK, QueueInv, SourceInv, SwitchInv, FateInv, At
<1>4. CASE Refuse
  BY <1>4 DEF Refuse, Finish, TypeOK, QueueInv, SourceInv, SwitchInv, FateInv, At
<1>5. CASE HandOver
  BY <1>5 DEF HandOver, TypeOK, QueueInv, SourceInv, SwitchInv, FateInv, At
<1>6. CASE Switch
  BY <1>6 DEF Switch, Applies, IsSwitch, TypeOK, QueueInv, SourceInv, SwitchInv, FateInv, At
<1>7. CASE Cancelled
  BY <1>7 DEF Cancelled, StopsPlaying, TypeOK, QueueInv, SourceInv, SwitchInv, FateInv, At
<1>8. CASE Stopped
  BY <1>8 DEF Stopped, StopsPlaying, CloseStream, Finish, TypeOK, QueueInv, SourceInv, SwitchInv, FateInv, At
<1>9. CASE Started
  BY <1>9 DEF Started, Finish, TypeOK, QueueInv, SourceInv, SwitchInv, FateInv, At
<1>10. ASSUME NEW ok \in BOOLEAN, Opened(ok) PROVE FateInv'
  BY <1>10 DEF Opened, Finish, TypeOK, QueueInv, SourceInv, SwitchInv, FateInv, At
<1>11. ASSUME NEW i \in Ids, NEW outcome \in {"applied", "reported"}, PlayerAnswers(i, outcome)
      PROVE  FateInv'
  BY <1>11 DEF PlayerAnswers, Finish, TypeOK, QueueInv, SourceInv, SwitchInv, FateInv, At
<1>12. CASE PumpFrame
  BY <1>12 DEF PumpFrame, TypeOK, QueueInv, SourceInv, SwitchInv, FateInv, At
<1>13. ASSUME NEW failed \in BOOLEAN, PumpStops(failed) PROVE FateInv'
  BY <1>13 DEF PumpStops, TypeOK, QueueInv, SourceInv, SwitchInv, FateInv, At
<1>14. CASE Reopened
  BY <1>14 DEF Reopened, TypeOK, QueueInv, SourceInv, SwitchInv, FateInv, At
<1>15. CASE Stop
  BY <1>15 DEF Stop, TypeOK, QueueInv, SourceInv, SwitchInv, FateInv, At
<1>16. CASE RouterStops
  BY <1>16 DEF RouterStops, StopsPlaying, CloseStream, TypeOK, QueueInv, SourceInv, SwitchInv, FateInv, At
<1>17. CASE Terminated
  BY <1>17 DEF Terminated, vars, TypeOK, QueueInv, SourceInv, SwitchInv, FateInv, At
<1>18. CASE UNCHANGED vars
  BY <1>18 DEF vars, TypeOK, QueueInv, SourceInv, SwitchInv, FateInv, At
<1> QED
  BY <1>1, <1>2, <1>3, <1>4, <1>5, <1>6, <1>7, <1>8, <1>9, <1>10,
     <1>11, <1>12, <1>13, <1>14, <1>15, <1>16, <1>17, <1>18
     DEF Next, InboxStep, SwitchStep, PlayerStep, PumpStep

-----------------------------------------------------------------------------
(* The theorems *)

\* The inductive invariant: types, what waits, what runs and what became of each command.
THEOREM Invariant == Spec => []IInv
<1>1. IInv /\ [Next]_vars => IInv'
  BY TypeStep, QueueStep, SourceStep, FateStep DEF IInv
<1> QED  BY InitHolds, <1>1, PTL DEF Spec

\* No two players, and no player and pump, feed the run at once; nothing runs on after
\* the stop, wherever switches were cut short.
THEOREM OneSource == Spec => []OneSourceAtATime
<1>1. ASSUME IInv PROVE OneSourceAtATime
  <2>1. TypeOK /\ PlayerInv /\ StoppedInv  BY <1>1 DEF IInv, SourceInv
  <2>2. Cardinality(playing) <= 1
    <3>1. CASE playing = {}  BY <3>1, FS_EmptySet
    <3>2. CASE playing = {playable}  BY <3>2, FS_Singleton
    <3> QED  BY <2>1, <3>1, <3>2 DEF PlayerInv
  <2>3. NeverTwoSources  BY <2>1, <2>2 DEF PlayerInv, NeverTwoSources
  <2>4. NothingRunsOn  BY <2>1 DEF StoppedInv, NothingRunsOn
  <2> QED  BY <2>1, <2>3, <2>4 DEF OneSourceAtATime
<1> QED  BY Invariant, <1>1, PTL

\* Commands are applied in the order they were sent in, and none is forgotten.
THEOREM InOrder == Spec => CommandsInOrder
<1>1. ASSUME IInv PROVE NoneForgotten
  <2>1. TypeOK /\ FateInv  BY <1>1 DEF IInv
  <2>2. \A i \in 1..arrived : i \in Ids /\ ~(i > arrived)
    BY <2>1, ActiveSourceAssumption DEF TypeOK, Ids
  <2> QED  BY <2>1, <2>2 DEF FateInv, NoneForgotten
<1>2. ASSUME IInv, [Next]_vars
      PROVE  [\A i \in Ids : fate[i] # "applying" /\ fate'[i] = "applying" =>
                 \A j \in 1..(i - 1) : fate[j] \in {"applied", "reported"}]_vars
  <2> SUFFICES ASSUME NEW i \in Ids, fate[i] # "applying", fate'[i] = "applying",
                      NEW j \in 1..(i - 1)
               PROVE  fate[j] \in {"applied", "reported"}
    OBVIOUS
  <2>1. TypeOK /\ QueueInv /\ FateInv  BY <1>2 DEF IInv
  <2>2. Serve
    <3> USE DEF TypeOK, FateInv, inboxVars, sourceVars, pumpVars
    <3>1. CASE UNCHANGED vars  BY <1>2, <2>1, <3>1 DEF vars
    <3>2. ASSUME NEW c \in Sources \cup {Playback, Unknown}, NEW isLate \in {FALSE, Late},
                 Arrive(c, isLate)
          PROVE  FALSE
      BY <1>2, <2>1, <3>2 DEF Arrive, Reading
    <3>3. CASE Served  BY <1>2, <2>1, <3>3 DEF Served
    <3>4. CASE Refuse \/ HandOver \/ Switch \/ Cancelled
      BY <1>2, <2>1, <3>4 DEF Refuse, HandOver, Switch, Cancelled, Finish
    <3>5. CASE SwitchStep  BY <1>2, <2>1, <3>5 DEF SwitchStep, Stopped, Started, Opened, Finish
    <3>6. CASE PlayerStep  BY <1>2, <2>1, <3>6 DEF PlayerStep, PlayerAnswers, Finish
    <3>7. CASE PumpStep  BY <1>2, <2>1, <3>7 DEF PumpStep, PumpFrame, PumpStops, Reopened
    <3>8. CASE Stop \/ RouterStops \/ Terminated
      BY <1>2, <2>1, <3>8 DEF Stop, RouterStops, Terminated, vars
    <3> QED
      BY <1>2, <3>1, <3>2, <3>3, <3>4, <3>5, <3>6, <3>7, <3>8 DEF Next, InboxStep
  <2>3. i = applying' /\ applying' = waiting[1] /\ applying' <= arrived
    BY <2>1, <2>2, ServeFacts DEF TypeOK
  <2>4. j \in Ids /\ j < i /\ ~(j > arrived)
    <3>1. i \in Nat /\ j \in Nat /\ j >= 1 /\ j < i  BY DEF Ids
    <3>2. arrived \in Nat /\ i <= arrived  BY <2>1, <2>3, CountsCommands
    <3> QED  BY <3>1, <3>2, ActiveSourceAssumption DEF Ids
  <2>5. \A k \in 1..Len(waiting) : waiting[k] # j
    <3>1. waiting \in Seq(Ids) /\ Len(waiting) \in Nat  BY <2>1 DEF TypeOK
    <3>2. \A k \in 1..Len(waiting) : waiting[k] \in Ids /\ (k = 1 \/ waiting[1] < waiting[k])
      BY <2>1, <3>1 DEF QueueInv
    <3> QED  BY <2>3, <2>4, <3>2 DEF Ids
  <2>6. fate[j] # "waiting" /\ fate[j] # "none"  BY <2>1, <2>4, <2>5 DEF FateInv
  <2>7. fate[j] # "applying"  BY <2>1, <2>2, <2>4 DEF FateInv, Serve, Ids, None
  <2> QED  BY <2>1, <2>4, <2>6, <2>7 DEF TypeOK
<1>3. Spec => []NoneForgotten  BY Invariant, <1>1, PTL
<1>4. Spec => AppliedInOrder
  BY Invariant, <1>2, PTL DEF Spec, AppliedInOrder
<1> QED  BY <1>3, <1>4 DEF CommandsInOrder
=============================================================================
