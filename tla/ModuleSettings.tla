--------------------------- MODULE ModuleSettings ---------------------------
(***************************************************************************)
(* The sticky settings of a module, from a run to its module instance and  *)
(* back into a rebuilt one: dispatch and _resend_settings of               *)
(* core/src/pswamp_core/pipeline.py, the outboxes on both sides (their     *)
(* detail is module Outbox), the command topic, the host that builds an    *)
(* instance and announces it (detail: ModuleHost), and the inbox that      *)
(* applies a command or refuses it as late.                                *)
(*                                                                         *)
(* Settings are numbered in the order the run dispatched them.  A message  *)
(* has two ages in ticks: since it was stamped (what the inbox looks at)   *)
(* and since it was queued (what the outbox looks at).                     *)
(***************************************************************************)
EXTENDS Naturals, Sequences, SequencesExt

CONSTANTS
    MaxSettings,    \* bound on the settings dispatched
    Unfit,          \* settings the module's validate refuses
    Deadline,       \* CONTROL_DEADLINE_S, in ticks
    MaxInstances,   \* bound on the instances built
    MaxWaiting      \* bound on the commands waiting on the topic, and in the instance's queue

ASSUME ModuleSettingsAssumption ==
    /\ MaxSettings \in Nat /\ Deadline \in Nat \ {0} /\ MaxInstances \in Nat /\ MaxWaiting \in Nat \ {0}
    /\ Unfit \subseteq 1..MaxSettings

Default == 0    \* what an instance has before any setting

VARIABLES
    sticky,     \* _sticky: the newest setting dispatched
    outbox,     \* the run's outbox: commands that wait, the head being sent
    topic,      \* records the worker's consumer has not taken
    worker,     \* the worker's process is up and its consumer assigned
    instance,   \* "none", "setup" or "ready"
    backoff,    \* _retry_at is in the future
    built,      \* instances built so far
    setting,    \* the instance's setting
    commands,   \* slot.commands
    announced,  \* the ModuleStarted messages under way: of which instance, and how old
    heldUp,     \* history: settings given up, or refused, after waiting past the deadline
    unheard     \* history: the newest instance's ModuleStarted was given up

runVars == <<sticky, outbox>>
slotVars == <<instance, setting, commands>>
hostVars == <<worker, backoff, built>>
fates == <<heldUp, unheard>>
vars == <<runVars, topic, slotVars, hostVars, announced, fates>>

Stamped(v) == [setting |-> v, stamped |-> 0, queued |-> 0]

-----------------------------------------------------------------------------
(* The run *)

\* dispatch: remember the setting and publish it.
Dispatch ==
    /\ sticky < MaxSettings
    /\ sticky' = sticky + 1
    /\ outbox' = Append(outbox, Stamped(sticky + 1))
    /\ UNCHANGED <<topic, slotVars, hostVars, announced, fates>>

\* Mutant: the setting is sent again as it was stamped (long ago, at worst).
ResendStale(v) == [setting |-> v, stamped |-> Deadline + 1, queued |-> 0]

\* What is sent again: the newest setting, stamped now.
Resend(v) == Stamped(v)

\* Mutant: only the first instance is sent the settings.
HearOnce ==
    /\ announced # <<>>
    /\ announced' = Tail(announced)
    /\ outbox' = IF sticky = Default \/ built > 1 THEN outbox ELSE Append(outbox, Resend(sticky))
    /\ UNCHANGED <<sticky, topic, slotVars, hostVars, fates>>

\* _resend_settings: an instance started.
Hear ==
    /\ announced # <<>>
    /\ announced' = Tail(announced)
    /\ outbox' = IF sticky = Default THEN outbox ELSE Append(outbox, Resend(sticky))
    /\ UNCHANGED <<sticky, topic, slotVars, hostVars, fates>>

\* The broker takes the head of the outbox; without its answer the outbox sends it again.
\* A worker that is down reads the topic from its end once it is back.
Send(answered) ==
    /\ outbox # <<>> /\ Head(outbox).queued < Deadline /\ Len(topic) < MaxWaiting
    /\ topic' = IF worker THEN Append(topic, Head(outbox)) ELSE topic
    /\ outbox' = IF answered THEN Tail(outbox) ELSE outbox
    /\ UNCHANGED <<sticky, slotVars, hostVars, announced, fates>>

\* _give_up, which reports the command.
GiveUp ==
    /\ outbox # <<>> /\ Head(outbox).queued >= Deadline
    /\ outbox' = Tail(outbox)
    /\ heldUp' = heldUp \cup {Head(outbox).setting}
    /\ UNCHANGED <<sticky, topic, slotVars, hostVars, announced, unheard>>

-----------------------------------------------------------------------------
(* The worker's host *)

Builds(waiting) ==
    /\ built < MaxInstances
    /\ instance' = "setup" /\ setting' = Default /\ commands' = waiting
    /\ built' = built + 1 /\ unheard' = FALSE

\* An input arrives for a run that has no instance, and is not left alone.
InputBuilds ==
    /\ worker /\ instance = "none" /\ ~backoff
    /\ Builds(<<>>)
    /\ UNCHANGED <<runVars, topic, worker, backoff, announced, heldUp>>

\* _feed of the commands: to the instance, built for it if need be; while the run is
\* left alone after a failure the command is dropped.
Feed ==
    /\ worker /\ topic # <<>> /\ Len(commands) < MaxWaiting
    /\ topic' = Tail(topic)
    /\ IF instance # "none"
       THEN /\ commands' = Append(commands, Head(topic))
            /\ UNCHANGED <<instance, setting, built, unheard>>
       ELSE IF backoff
            THEN UNCHANGED <<slotVars, built, unheard>>
            ELSE Builds(<<Head(topic)>>)
    /\ UNCHANGED <<runVars, worker, backoff, announced, heldUp>>

\* Mutant: an instance is announced when it is built.
SetUpUnannounced ==
    /\ instance = "setup" /\ instance' = "ready"
    /\ UNCHANGED <<runVars, topic, setting, commands, hostVars, announced, fates>>

\* _start: set up, its inbox started, and announced.
SetUp ==
    /\ instance = "setup" /\ instance' = "ready"
    /\ announced' = Append(announced, [of |-> built, queued |-> 0])
    /\ UNCHANGED <<runVars, topic, setting, commands, hostVars, fates>>

\* Mutant: a refused command is tried again.
ApplyRetrying ==
    /\ instance = "ready" /\ commands # <<>>
    /\ LET c == Head(commands)
           late == c.stamped > Deadline
           refused == ~late /\ c.setting \in Unfit
       IN  /\ commands' = IF refused THEN Append(Tail(commands), Stamped(c.setting)) ELSE Tail(commands)
           /\ setting' = IF late \/ refused THEN setting ELSE c.setting
           /\ heldUp' = IF late /\ c.queued > Deadline THEN heldUp \cup {c.setting} ELSE heldUp
    /\ UNCHANGED <<runVars, topic, instance, hostVars, announced, unheard>>

\* The inbox applies a command, or reports it: as late, or refused by the module.
Apply ==
    /\ instance = "ready" /\ commands # <<>>
    /\ commands' = Tail(commands)
    /\ LET c == Head(commands)
           late == c.stamped > Deadline
       IN  /\ setting' = IF late \/ c.setting \in Unfit THEN setting ELSE c.setting
           /\ heldUp' = IF late /\ c.queued > Deadline THEN heldUp \cup {c.setting} ELSE heldUp
    /\ UNCHANGED <<runVars, topic, instance, hostVars, announced, unheard>>

Gone == instance' = "none" /\ setting' = Default /\ commands' = <<>>

\* The instance fails, setting up or later; what it has queued goes with it.
Fails ==
    /\ instance # "none" /\ built < MaxInstances
    /\ Gone /\ backoff' = TRUE
    /\ UNCHANGED <<runVars, topic, worker, built, announced, fates>>

BackoffOver ==
    /\ backoff /\ backoff' = FALSE
    /\ UNCHANGED <<runVars, topic, slotVars, worker, built, announced, fates>>

\* No message came for idle_seconds; what is still queued goes with the instance.
SweptIdle ==
    /\ instance # "none" /\ built < MaxInstances
    /\ Gone
    /\ UNCHANGED <<runVars, topic, hostVars, announced, fates>>

\* The worker's process ends; what its outboxes held may be lost.
Crash(kept) ==
    /\ worker /\ worker' = FALSE /\ built < MaxInstances
    /\ Gone /\ topic' = <<>> /\ backoff' = FALSE
    /\ announced' = IF kept THEN announced ELSE <<>>
    /\ UNCHANGED <<runVars, built, fates>>

Restart ==
    /\ ~worker /\ worker' = TRUE
    /\ UNCHANGED <<runVars, topic, slotVars, backoff, built, announced, fates>>

\* The instance's outbox gives up on the announcement, and reports to nobody.
AnnouncementGivenUp ==
    /\ announced # <<>> /\ Head(announced).queued >= Deadline
    /\ announced' = Tail(announced)
    /\ unheard' = (unheard \/ Head(announced).of = built)
    /\ UNCHANGED <<runVars, topic, slotVars, hostVars, heldUp>>

-----------------------------------------------------------------------------

Older(a) == IF a > Deadline THEN a ELSE a + 1
Aged(q) == [i \in DOMAIN q |-> [q[i] EXCEPT !.stamped = Older(@), !.queued = Older(@)]]

Tick ==
    /\ outbox # <<>> \/ topic # <<>> \/ commands # <<>> \/ announced # <<>>
    /\ outbox' = Aged(outbox) /\ topic' = Aged(topic) /\ commands' = Aged(commands)
    /\ announced' = [i \in DOMAIN announced |-> [announced[i] EXCEPT !.queued = Older(@)]]
    /\ UNCHANGED <<sticky, instance, setting, hostVars, fates>>

Init ==
    /\ sticky = Default /\ outbox = <<>> /\ topic = <<>>
    /\ worker = TRUE /\ backoff = FALSE /\ built = 0
    /\ instance = "none" /\ setting = Default /\ commands = <<>>
    /\ announced = <<>> /\ heldUp = {} /\ unheard = FALSE

\* Nothing is under way between the run and an instance that is up.
Settled == instance = "ready" /\ outbox = <<>> /\ topic = <<>> /\ commands = <<>> /\ announced = <<>>

RunStep == Hear \/ GiveUp \/ \E answered \in BOOLEAN : Send(answered)
HostStep == Feed \/ SetUp \/ Apply \/ AnnouncementGivenUp

\* The run has said all, and every instance but the last has gone.
Terminated == Settled /\ sticky = MaxSettings /\ built = MaxInstances /\ UNCHANGED vars

Next ==
    \/ Dispatch \/ RunStep \/ HostStep \/ InputBuilds
    \/ Fails \/ BackoffOver \/ SweptIdle \/ Restart \/ Tick
    \/ (\E kept \in BOOLEAN : Crash(kept)) \/ Terminated

Spec == Init /\ [][Next]_vars

\* The event loops run both sides, the transport answers in the end, and time passes.
FairSpec ==
    /\ Spec
    /\ WF_vars(Hear) /\ WF_vars(GiveUp) /\ WF_vars(Send(TRUE)) /\ WF_vars(HostStep)
    /\ WF_vars(Tick)

-----------------------------------------------------------------------------

Message == [setting : 1..MaxSettings, stamped : 0..Deadline + 1, queued : 0..Deadline + 1]

TypeOK ==
    /\ sticky \in 0..MaxSettings /\ outbox \in Seq(Message) /\ topic \in Seq(Message)
    /\ worker \in BOOLEAN /\ backoff \in BOOLEAN /\ built \in 0..MaxInstances
    /\ instance \in {"none", "setup", "ready"} /\ setting \in 0..MaxSettings
    /\ commands \in Seq(Message) /\ announced \in Seq([of : 1..MaxInstances, queued : 0..Deadline + 1])
    /\ heldUp \subseteq 1..MaxSettings /\ unheard \in BOOLEAN

\* "A rebuilt instance has lost them": however instances fail, workers restart and
\* commands are dropped on the way, an instance ends up with the newest setting of its
\* run, unless the module refused it or it was held up past the deadline (and reported).
Arrived == setting = sticky \/ sticky \in Unfit \cup heldUp \/ unheard

SettingsArrive == Settled => Arrived

\* An instance never goes back to an older setting, whatever is sent twice.
SettingsNeverGoBack ==
    [][built' = built /\ instance = "ready" /\ instance' = "ready" => setting <= setting']_vars

\* Once nobody dispatches and nothing fails any more, an instance that is up has the
\* setting for good: resending, retrying and refusing come to an end.
SettingsConverge == <>[](instance = "ready" => Arrived)

\* An instance has the newest setting it can have, whenever nothing about it
\* is under way.
SettingsAreKept ==
  /\ TypeOK
  /\ SettingsArrive

\* An instance never goes back to an older setting, and comes to the newest.
SettingsSettle ==
  /\ SettingsNeverGoBack
  /\ SettingsConverge

=============================================================================
