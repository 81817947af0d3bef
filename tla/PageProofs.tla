----------------------------- MODULE PageProofs -----------------------------
(***************************************************************************)
(* What is sent to a page and from it, for every value of the constants.   *)
(*                                                                         *)
(* ModuleSettings: an instance about which nothing is under way has the    *)
(* newest setting it can have, and never goes back to an older one, for    *)
(* any number of settings and instances, any deadline and any room on the  *)
(* way.  The inductive invariant says that settings are in order all along *)
(* their way (OrderInv), and what the newest one is still waiting for      *)
(* (NewestInv).                                                            *)
(*                                                                         *)
(* HubAlarms: the alarms of the application, of the store and of the       *)
(* browser are the same ones, for any number of alarms, any hold time and  *)
(* any room in the store and the queues.  The inductive invariant numbers  *)
(* the events of the alarms and says that those on their way are the ones  *)
(* the store has not taken yet (AlarmsInv).                                *)
(***************************************************************************)
EXTENDS ModuleSettings, HubAlarms, SequenceTheorems, TLAPS


-----------------------------------------------------------------------------
(* ModuleSettings: the inductive invariant *)

Rising(q) == \A i, j \in 1..Len(q) : i <= j => q[i].setting <= q[j].setting
Precedes(q, r) == \A i \in 1..Len(q), j \in 1..Len(r) : q[i].setting <= r[j].setting
Has(q, v) == \E i \in 1..Len(q) : q[i].setting = v
From(q, v) == \A i \in 1..Len(q) : v <= q[i].setting
UpTo(q, v) == \A i \in 1..Len(q) : q[i].setting <= v
AgedAlike(q) == \A i \in 1..Len(q) : q[i].stamped = q[i].queued

\* What an instance has is older than all on its way to it: first its commands, then
\* the topic, then the outbox of the run.
OrderInv ==
    /\ Rising(outbox) /\ Rising(topic) /\ Rising(commands)
    /\ Precedes(commands, topic) /\ Precedes(topic, outbox) /\ Precedes(commands, outbox)
    /\ From(outbox, setting) /\ From(topic, setting) /\ From(commands, setting)
    /\ UpTo(outbox, sticky) /\ UpTo(topic, sticky) /\ UpTo(commands, sticky) /\ setting <= sticky

\* A setting that is sent again is stamped anew.
AgeInv == AgedAlike(outbox) /\ AgedAlike(topic) /\ AgedAlike(commands)

InstanceInv ==
    /\ ~worker => instance = "none"
    /\ instance # "none" => built > 0
    /\ instance = "none" => setting = Default /\ commands = <<>>

Announced == \E i \in 1..Len(announced) : announced[i].of = built

\* An instance that lacks the newest setting is still to be announced, or the setting
\* is on its way.
NewestInv ==
    \/ sticky = Default \/ Arrived \/ instance # "ready" \/ Announced
    \/ Has(outbox, sticky) \/ Has(topic, sticky) \/ Has(commands, sticky)

IInv == TypeOK /\ OrderInv /\ AgeInv /\ InstanceInv /\ NewestInv

-----------------------------------------------------------------------------
(* Queues of settings *)

Announcement == [of : 1..MaxInstances, queued : 0..Deadline + 1]

LEMMA AppendedTo ==
    ASSUME NEW S, NEW q \in Seq(S), NEW m \in S
    PROVE  /\ Append(q, m) \in Seq(S) /\ Len(Append(q, m)) = Len(q) + 1 /\ Len(q) \in Nat
           /\ \A i \in 1..Len(q) : Append(q, m)[i] = q[i] /\ q[i] \in S
           /\ Append(q, m)[Len(q) + 1] = m
           /\ \A i \in 1..Len(Append(q, m)) : i \in 1..Len(q) \/ i = Len(q) + 1
OBVIOUS

LEMMA TailOf ==
    ASSUME NEW S, NEW q \in Seq(S), q # <<>>
    PROVE  /\ Tail(q) \in Seq(S) /\ Head(q) \in S /\ Head(q) = q[1] /\ Len(q) \in Nat /\ Len(q) > 0
           /\ Len(Tail(q)) = Len(q) - 1
           /\ \A i \in 1..Len(Tail(q)) : Tail(q)[i] = q[i + 1] /\ i + 1 \in 1..Len(q)
           /\ \A i \in 1..Len(q) : i = 1 \/ (i - 1 \in 1..Len(Tail(q)) /\ q[i] = Tail(q)[i - 1])
OBVIOUS

\* A message queued behind the others.
LEMMA AppendSettings ==
    ASSUME NEW q \in Seq(Message), NEW m \in Message
    PROVE  /\ Append(q, m) \in Seq(Message)
           /\ \A v \in Nat : Has(Append(q, m), v) <=> Has(q, v) \/ m.setting = v
           /\ \A v \in Nat : From(Append(q, m), v) <=> From(q, v) /\ v <= m.setting
           /\ \A v \in Nat : UpTo(Append(q, m), v) <=> UpTo(q, v) /\ m.setting <= v
           /\ AgedAlike(Append(q, m)) <=> AgedAlike(q) /\ m.stamped = m.queued
           /\ Rising(q) /\ UpTo(q, m.setting) => Rising(Append(q, m))
           /\ \A r \in Seq(Message) :
                /\ Precedes(q, r) /\ From(r, m.setting) => Precedes(Append(q, m), r)
                /\ Precedes(r, q) /\ UpTo(r, m.setting) => Precedes(r, Append(q, m))
<1> DEFINE a == Append(q, m)
<1>1. /\ a \in Seq(Message) /\ Len(a) = Len(q) + 1 /\ Len(q) \in Nat
      /\ \A i \in 1..Len(q) : a[i] = q[i] /\ q[i] \in Message
      /\ a[Len(q) + 1] = m
      /\ \A i \in 1..Len(a) : i \in 1..Len(q) \/ i = Len(q) + 1
  BY AppendedTo
<1>2. Len(q) + 1 \in 1..Len(a) /\ \A i \in 1..Len(q) : i \in 1..Len(a)  BY <1>1
<1>3. m.setting \in Nat  BY DEF Message
<1> HIDE DEF a
<1>4. \A v \in Nat : Has(a, v) <=> Has(q, v) \/ m.setting = v  BY <1>1, <1>2 DEF Has
<1>5. \A v \in Nat : From(a, v) <=> From(q, v) /\ v <= m.setting  BY <1>1, <1>2 DEF From
<1>6. \A v \in Nat : UpTo(a, v) <=> UpTo(q, v) /\ m.setting <= v  BY <1>1, <1>2 DEF UpTo
<1>7. AgedAlike(a) <=> AgedAlike(q) /\ m.stamped = m.queued  BY <1>1, <1>2 DEF AgedAlike
<1>8. Rising(q) /\ UpTo(q, m.setting) => Rising(a)
  <2> SUFFICES ASSUME Rising(q), UpTo(q, m.setting), NEW i \in 1..Len(a), NEW j \in 1..Len(a), i <= j
               PROVE  a[i].setting <= a[j].setting
    BY DEF Rising
  <2>1. CASE j \in 1..Len(q)
    <3>1. i \in 1..Len(q)  BY <1>1, <2>1
    <3> QED  BY <1>1, <2>1, <3>1 DEF Rising
  <2>2. CASE j = Len(q) + 1 /\ i \in 1..Len(q)  BY <1>1, <2>2 DEF UpTo
  <2>3. CASE j = Len(q) + 1 /\ i = Len(q) + 1  BY <1>1, <1>3, <2>3
  <2> QED  BY <1>1, <2>1, <2>2, <2>3
<1>9. ASSUME NEW r \in Seq(Message)
      PROVE  /\ Precedes(q, r) /\ From(r, m.setting) => Precedes(a, r)
             /\ Precedes(r, q) /\ UpTo(r, m.setting) => Precedes(r, a)
  BY <1>1, <1>2 DEF Precedes, From, UpTo
<1> QED  BY <1>1, <1>4, <1>5, <1>6, <1>7, <1>8, <1>9 DEF a

\* The first message taken.
LEMMA TailSettings ==
    ASSUME NEW q \in Seq(Message), q # <<>>
    PROVE  /\ Tail(q) \in Seq(Message) /\ Head(q) \in Message
           /\ \A v \in Nat : Has(q, v) <=> Head(q).setting = v \/ Has(Tail(q), v)
           /\ \A v \in Nat : From(q, v) <=> v <= Head(q).setting /\ From(Tail(q), v)
           /\ \A v \in Nat : UpTo(q, v) <=> Head(q).setting <= v /\ UpTo(Tail(q), v)
           /\ AgedAlike(q) <=> Head(q).stamped = Head(q).queued /\ AgedAlike(Tail(q))
           /\ Rising(q) => Rising(Tail(q)) /\ From(Tail(q), Head(q).setting)
           /\ \A r \in Seq(Message) :
                /\ Precedes(q, r) => Precedes(Tail(q), r) /\ From(r, Head(q).setting)
                /\ Precedes(r, q) => Precedes(r, Tail(q)) /\ UpTo(r, Head(q).setting)
<1> DEFINE t == Tail(q)  h == Head(q)
<1>1. /\ t \in Seq(Message) /\ h \in Message /\ h = q[1] /\ Len(q) \in Nat /\ Len(q) > 0
      /\ Len(t) = Len(q) - 1
      /\ \A i \in 1..Len(t) : t[i] = q[i + 1] /\ i + 1 \in 1..Len(q)
      /\ \A i \in 1..Len(q) : i = 1 \/ (i - 1 \in 1..Len(t) /\ q[i] = t[i - 1])
  BY TailOf
<1>2. 1 \in 1..Len(q)  BY <1>1
<1> HIDE DEF t, h
<1>3. \A v \in Nat : Has(q, v) <=> h.setting = v \/ Has(t, v)  BY <1>1, <1>2, ZenonT(60) DEF Has
<1>4. \A v \in Nat : From(q, v) <=> v <= h.setting /\ From(t, v)  BY <1>1, <1>2 DEF From
<1>5. \A v \in Nat : UpTo(q, v) <=> h.setting <= v /\ UpTo(t, v)  BY <1>1, <1>2 DEF UpTo
<1>6. AgedAlike(q) <=> h.stamped = h.queued /\ AgedAlike(t)  BY <1>1, <1>2 DEF AgedAlike
<1>7. Rising(q) => Rising(t) /\ From(t, h.setting)
  <2> SUFFICES ASSUME Rising(q) PROVE Rising(t) /\ From(t, h.setting)  OBVIOUS
  <2>1. ASSUME NEW i \in 1..Len(t), NEW j \in 1..Len(t), i <= j PROVE t[i].setting <= t[j].setting
    <3>1. i + 1 <= j + 1 /\ i + 1 \in 1..Len(q) /\ j + 1 \in 1..Len(q)  BY <1>1, <2>1
    <3> QED  BY <1>1, <3>1 DEF Rising
  <2>2. ASSUME NEW i \in 1..Len(t) PROVE h.setting <= t[i].setting
    <3>1. 1 <= i + 1 /\ i + 1 \in 1..Len(q)  BY <1>1
    <3> QED  BY <1>1, <1>2, <3>1 DEF Rising
  <2> QED  BY <2>1, <2>2 DEF Rising, From
<1>8. ASSUME NEW r \in Seq(Message)
      PROVE  /\ Precedes(q, r) => Precedes(t, r) /\ From(r, h.setting)
             /\ Precedes(r, q) => Precedes(r, t) /\ UpTo(r, h.setting)
  BY <1>1, <1>2 DEF Precedes, From, UpTo
<1> QED  BY <1>1, <1>3, <1>4, <1>5, <1>6, <1>7, <1>8 DEF t, h

LEMMA NoSettings ==
    /\ <<>> \in Seq(Message) /\ Rising(<<>>) /\ AgedAlike(<<>>)
    /\ \A v \in Nat : ~Has(<<>>, v) /\ From(<<>>, v) /\ UpTo(<<>>, v)
    /\ \A r \in Seq(Message) : Precedes(<<>>, r) /\ Precedes(r, <<>>)
BY DEF Rising, AgedAlike, Has, From, UpTo, Precedes

LEMMA StampedNow ==
    ASSUME NEW v \in 1..MaxSettings
    PROVE  Stamped(v) \in Message /\ Stamped(v).setting = v /\ Stamped(v).stamped = Stamped(v).queued
BY ModuleSettingsAssumption DEF Stamped, Message

\* Time ages what waits, and changes nothing else about it.
LEMMA AgedSettings ==
    ASSUME NEW q \in Seq(Message)
    PROVE  /\ Aged(q) \in Seq(Message) /\ Len(Aged(q)) = Len(q)
           /\ \A i \in 1..Len(q) : Aged(q)[i].setting = q[i].setting
           /\ AgedAlike(q) => AgedAlike(Aged(q))
<1> DEFINE a == Aged(q)
<1>1. Deadline \in Nat  BY ModuleSettingsAssumption
<1>2. \A n \in 0..Deadline + 1 : Older(n) \in 0..Deadline + 1  BY <1>1 DEF Older
<1>3. DOMAIN q = 1..Len(q) /\ Len(q) \in Nat /\ \A i \in 1..Len(q) : q[i] \in Message  OBVIOUS
<1>4. DOMAIN a = 1..Len(q)
      /\ \A i \in 1..Len(q) : a[i] = [q[i] EXCEPT !.stamped = Older(@), !.queued = Older(@)]
  BY <1>3 DEF Aged
<1>5. ASSUME NEW i \in 1..Len(q)
      PROVE  /\ a[i] \in Message /\ a[i].setting = q[i].setting
             /\ a[i].stamped = Older(q[i].stamped) /\ a[i].queued = Older(q[i].queued)
  <2> DEFINE m == q[i]
             o == [m EXCEPT !.stamped = Older(@), !.queued = Older(@)]
  <2>1. m \in Message  BY <1>3
  <2>2. m.stamped \in 0..Deadline + 1 /\ m.queued \in 0..Deadline + 1  BY <2>1 DEF Message
  <2>3. Older(m.stamped) \in 0..Deadline + 1 /\ Older(m.queued) \in 0..Deadline + 1  BY <1>2, <2>2
  <2>4. a[i] = o  BY <1>4
  <2> HIDE DEF m, a
  <2>5. o \in Message /\ o.setting = m.setting /\ o.stamped = Older(m.stamped) /\ o.queued = Older(m.queued)
    BY <2>1, <2>3 DEF Message
  <2> QED  BY <2>4, <2>5 DEF m
<1>6. a = [i \in 1..Len(q) |-> a[i]]  BY <1>3 DEF Aged
<1> HIDE DEF a
<1>7. a \in Seq(Message) /\ Len(a) = Len(q)
  <2>1. a \in [1..Len(q) -> Message]  BY <1>5, <1>6
  <2> QED  BY <1>3, <2>1
<1>8. AgedAlike(q) => AgedAlike(a)  BY <1>5, <1>7 DEF AgedAlike
<1> QED  BY <1>5, <1>7, <1>8 DEF a

LEMMA Wider ==
    ASSUME NEW q \in Seq(Message), NEW v \in Nat, NEW w \in Nat, v <= w
    PROVE  (From(q, w) => From(q, v)) /\ (UpTo(q, v) => UpTo(q, w))
<1>1. \A i \in 1..Len(q) : q[i].setting \in Nat
  <2>1. \A i \in 1..Len(q) : q[i] \in Message  OBVIOUS
  <2> QED  BY <2>1 DEF Message
<1> QED  BY <1>1 DEF From, UpTo

\* Time leaves the order of settings alone.
LEMMA AgedOrder ==
    ASSUME NEW q \in Seq(Message), NEW r \in Seq(Message)
    PROVE  /\ Rising(q) => Rising(Aged(q))
           /\ Precedes(q, r) => Precedes(Aged(q), Aged(r))
           /\ \A v \in Nat : (From(q, v) => From(Aged(q), v)) /\ (UpTo(q, v) => UpTo(Aged(q), v))
           /\ \A v \in Nat : Has(q, v) => Has(Aged(q), v)
<1>1. Len(Aged(q)) = Len(q) /\ \A i \in 1..Len(q) : Aged(q)[i].setting = q[i].setting
  BY AgedSettings
<1>2. Len(Aged(r)) = Len(r) /\ \A i \in 1..Len(r) : Aged(r)[i].setting = r[i].setting
  BY AgedSettings
<1>3. (Rising(q) => Rising(Aged(q))) /\ (Precedes(q, r) => Precedes(Aged(q), Aged(r)))
  BY <1>1, <1>2 DEF Rising, Precedes
<1>4. \A v \in Nat : (From(q, v) => From(Aged(q), v)) /\ (UpTo(q, v) => UpTo(Aged(q), v))
  BY <1>1 DEF From, UpTo
<1>5. \A v \in Nat : Has(q, v) => Has(Aged(q), v)  BY <1>1 DEF Has
<1> QED  BY <1>3, <1>4, <1>5

-----------------------------------------------------------------------------
(* The initial state, and each step *)

\* What the parts of the invariant say of the types.
LEMMA Typed ==
    ASSUME TypeOK
    PROVE  /\ outbox \in Seq(Message) /\ topic \in Seq(Message) /\ commands \in Seq(Message)
           /\ announced \in Seq(Announcement)
           /\ sticky \in Nat /\ setting \in Nat /\ built \in Nat
           /\ MaxSettings \in Nat /\ MaxInstances \in Nat /\ Deadline \in Nat
           /\ \A m \in Message : /\ m.setting \in 1..MaxSettings /\ m.setting \in Nat
                                 /\ m.stamped \in Nat /\ m.queued \in Nat
BY ModuleSettingsAssumption DEF TypeOK, Announcement, Message

LEMMA InitHolds ==
    ASSUME Init
    PROVE  IInv
<1>1. MaxSettings \in Nat /\ MaxInstances \in Nat  BY ModuleSettingsAssumption
<1>2. TypeOK
  <2>1. <<>> \in Seq(Message) /\ <<>> \in Seq(Announcement)  OBVIOUS
  <2>2. /\ outbox \in Seq(Message) /\ topic \in Seq(Message) /\ commands \in Seq(Message)
        /\ announced \in Seq(Announcement)
    BY <2>1 DEF Init
  <2>3. sticky \in 0..MaxSettings /\ setting \in 0..MaxSettings /\ built \in 0..MaxInstances
    BY <1>1 DEF Init, Default
  <2>4. /\ worker \in BOOLEAN /\ backoff \in BOOLEAN /\ unheard \in BOOLEAN
        /\ instance \in {"none", "setup", "ready"} /\ heldUp \subseteq 1..MaxSettings
    BY DEF Init
  <2> QED  BY <2>2, <2>3, <2>4 DEF TypeOK, Announcement
<1>3. OrderInv /\ AgeInv
  <2>1. Default \in Nat /\ Default <= Default  BY DEF Default
  <2> QED  BY <2>1, NoSettings DEF Init, OrderInv, AgeInv
<1>4. InstanceInv /\ NewestInv  BY DEF Init, InstanceInv, NewestInv, Default
<1> QED  BY <1>2, <1>3, <1>4 DEF IInv

LEMMA DispatchKeeps ==
    ASSUME IInv, Dispatch
    PROVE  IInv'
<1> USE DEF slotVars, hostVars, fates
<1> DEFINE m == Stamped(sticky + 1)
<1>1. /\ sticky' = sticky + 1 /\ outbox' = Append(outbox, m) /\ sticky < MaxSettings
      /\ UNCHANGED <<topic, slotVars, hostVars, announced, fates>>
  BY DEF Dispatch
<1>2. m \in Message /\ m.setting = sticky + 1 /\ m.stamped = m.queued
  BY <1>1, StampedNow, Typed, SMTT(30) DEF IInv
<1> HIDE DEF m
<1>3. TypeOK'  BY <1>1, <1>2, AppendSettings, Typed, SMTT(30) DEF IInv, TypeOK
<1>4. OrderInv'
  <2>1. /\ UpTo(outbox, sticky + 1) /\ UpTo(topic, sticky + 1) /\ UpTo(commands, sticky + 1)
    BY Wider, Typed DEF IInv, OrderInv
  <2>2. sticky + 1 \in Nat /\ setting <= sticky + 1  BY Typed DEF IInv, OrderInv
  <2> QED  BY <1>1, <1>2, <2>1, <2>2, AppendSettings, Typed, SMTT(30) DEF IInv, OrderInv
<1>5. AgeInv'  BY <1>1, <1>2, AppendSettings, Typed DEF IInv, AgeInv
<1>6. InstanceInv'  BY <1>1 DEF IInv, InstanceInv
<1>7. NewestInv'
  <2>1. Has(outbox', sticky')  BY <1>1, <1>2, AppendSettings, Typed, SMTT(30) DEF IInv
  <2> QED  BY <2>1 DEF NewestInv
<1> QED  BY <1>3, <1>4, <1>5, <1>6, <1>7 DEF IInv

LEMMA HearKeeps ==
    ASSUME IInv, Hear
    PROVE  IInv'
<1> USE DEF slotVars, hostVars, fates
<1> DEFINE m == Resend(sticky)
<1>1. /\ announced # <<>> /\ announced' = Tail(announced)
      /\ outbox' = IF sticky = Default THEN outbox ELSE Append(outbox, m)
      /\ UNCHANGED <<sticky, topic, slotVars, hostVars, fates>>
  BY DEF Hear
<1>2. announced' \in Seq(Announcement)  BY <1>1, TailOf, Typed DEF IInv
<1>3. CASE sticky = Default
  <2>1. UNCHANGED outbox  BY <1>1, <1>3
  <2>2. TypeOK'  BY <1>1, <1>2, <2>1 DEF IInv, TypeOK, Announcement
  <2> QED  BY <1>1, <1>3, <2>1, <2>2 DEF IInv, OrderInv, AgeInv, InstanceInv, NewestInv
<1>4. CASE sticky # Default
  <2>1. sticky \in 1..MaxSettings  BY <1>4, Typed DEF IInv, TypeOK, Default
  <2>2. m \in Message /\ m.setting = sticky /\ m.stamped = m.queued
    BY <2>1, StampedNow DEF Resend
  <2>3. outbox' = Append(outbox, m)  BY <1>1, <1>4
  <2> HIDE DEF m
  <2>4. TypeOK'  BY <1>1, <1>2, <2>2, <2>3, AppendSettings, Typed DEF IInv, TypeOK, Announcement
  <2>5. OrderInv'  BY <1>1, <2>2, <2>3, AppendSettings, Typed, SMTT(30) DEF IInv, OrderInv
  <2>6. AgeInv'  BY <1>1, <2>2, <2>3, AppendSettings, Typed, SMTT(30) DEF IInv, AgeInv
  <2>7. InstanceInv'  BY <1>1 DEF IInv, InstanceInv
  <2>8. Has(outbox', sticky')  BY <1>1, <2>2, <2>3, AppendSettings, Typed, SMTT(30) DEF IInv
  <2> QED  BY <2>4, <2>5, <2>6, <2>7, <2>8 DEF IInv, NewestInv
<1> QED  BY <1>3, <1>4

LEMMA SendKeeps ==
    ASSUME IInv, NEW answered \in BOOLEAN, Send(answered)
    PROVE  IInv'
<1> USE DEF slotVars, hostVars, fates
<1> DEFINE m == Head(outbox)
<1>1. /\ outbox # <<>>
      /\ topic' = IF worker THEN Append(topic, m) ELSE topic
      /\ outbox' = IF answered THEN Tail(outbox) ELSE outbox
      /\ UNCHANGED <<sticky, slotVars, hostVars, announced, fates>>
  BY DEF Send
<1>2. /\ Tail(outbox) \in Seq(Message) /\ m \in Message /\ m.setting \in Nat
      /\ \A v \in Nat : Has(outbox, v) <=> m.setting = v \/ Has(Tail(outbox), v)
      /\ \A v \in Nat : From(outbox, v) <=> v <= m.setting /\ From(Tail(outbox), v)
      /\ \A v \in Nat : UpTo(outbox, v) <=> m.setting <= v /\ UpTo(Tail(outbox), v)
      /\ AgedAlike(outbox) <=> m.stamped = m.queued /\ AgedAlike(Tail(outbox))
      /\ Rising(outbox) => Rising(Tail(outbox)) /\ From(Tail(outbox), m.setting)
      /\ \A r \in Seq(Message) :
           Precedes(r, outbox) => Precedes(r, Tail(outbox)) /\ UpTo(r, m.setting)
  BY <1>1, TailSettings, Typed DEF IInv
<1>3. From(outbox, m.setting)  BY <1>2 DEF IInv, OrderInv
<1> HIDE DEF m
<1>4. /\ outbox' \in Seq(Message) /\ Rising(outbox') /\ From(outbox', m.setting)
      /\ From(outbox', setting) /\ UpTo(outbox', sticky) /\ AgedAlike(outbox')
      /\ Precedes(topic, outbox') /\ Precedes(commands, outbox')
  BY <1>1, <1>2, <1>3, Typed DEF IInv, OrderInv, AgeInv
<1>5. m.setting <= sticky /\ setting <= m.setting /\ UpTo(topic, m.setting) /\ UpTo(commands, m.setting)
  BY <1>2, Typed DEF IInv, OrderInv
<1>6. /\ topic' \in Seq(Message) /\ Rising(topic') /\ Precedes(commands, topic') /\ Precedes(topic', outbox')
      /\ From(topic', setting) /\ UpTo(topic', sticky) /\ AgedAlike(topic')
  BY <1>1, <1>2, <1>4, <1>5, AppendSettings, Typed DEF IInv, OrderInv, AgeInv
<1>7. TypeOK'  BY <1>1, <1>4, <1>6 DEF IInv, TypeOK
<1>8. OrderInv'  BY <1>1, <1>4, <1>6 DEF IInv, OrderInv
<1>9. AgeInv'  BY <1>1, <1>4, <1>6 DEF IInv, AgeInv
<1>10. InstanceInv'  BY <1>1 DEF IInv, InstanceInv
<1>11. NewestInv'
  <2>1. CASE worker
    <3>1. Has(outbox, sticky) => Has(outbox', sticky) \/ Has(topic', sticky)
      BY <1>1, <1>2, <2>1, AppendSettings, Typed DEF IInv
    <3>2. Has(topic, sticky) => Has(topic', sticky)
      BY <1>1, <1>2, <2>1, AppendSettings, Typed DEF IInv
    <3> QED  BY <1>1, <3>1, <3>2 DEF IInv, NewestInv, Arrived, Announced
  <2>2. CASE ~worker  BY <1>1, <2>2 DEF IInv, InstanceInv, NewestInv
  <2> QED  BY <2>1, <2>2
<1> QED  BY <1>7, <1>8, <1>9, <1>10, <1>11 DEF IInv

LEMMA GiveUpKeeps ==
    ASSUME IInv, GiveUp
    PROVE  IInv'
<1> USE DEF slotVars, hostVars
<1> DEFINE m == Head(outbox)
<1>1. /\ outbox # <<>> /\ outbox' = Tail(outbox) /\ heldUp' = heldUp \cup {m.setting}
      /\ UNCHANGED <<sticky, topic, slotVars, hostVars, announced, unheard>>
  BY DEF GiveUp
<1>2. /\ Tail(outbox) \in Seq(Message) /\ m \in Message
      /\ \A v \in Nat : Has(outbox, v) <=> m.setting = v \/ Has(Tail(outbox), v)
      /\ From(outbox, setting) => From(Tail(outbox), setting)
      /\ UpTo(outbox, sticky) => UpTo(Tail(outbox), sticky)
      /\ AgedAlike(outbox) => AgedAlike(Tail(outbox))
      /\ Rising(outbox) => Rising(Tail(outbox))
      /\ \A r \in Seq(Message) : Precedes(r, outbox) => Precedes(r, Tail(outbox))
  BY <1>1, TailSettings, Typed DEF IInv
<1> HIDE DEF m
<1>3. TypeOK'  BY <1>1, <1>2, Typed DEF IInv, TypeOK
<1>4. OrderInv' /\ AgeInv'  BY <1>1, <1>2, Typed DEF IInv, OrderInv, AgeInv
<1>5. InstanceInv'  BY <1>1 DEF IInv, InstanceInv
<1>6. NewestInv'  BY <1>1, <1>2, Typed DEF IInv, NewestInv, Arrived, Announced
<1> QED  BY <1>3, <1>4, <1>5, <1>6 DEF IInv

\* An instance that is being set up has nothing yet but what it was built for.
LEMMA BuildsKeeps ==
    ASSUME IInv, instance = "none", worker, NEW waiting \in Seq(Message), Builds(waiting),
           Rising(waiting), AgedAlike(waiting), UpTo(waiting, sticky), From(waiting, Default),
           topic' \in Seq(Message), Rising(topic'), AgedAlike(topic'), UpTo(topic', sticky),
           From(topic', Default), Precedes(waiting, topic'), Precedes(waiting, outbox),
           Precedes(topic', outbox),
           UNCHANGED <<runVars, worker, backoff, announced, heldUp>>
    PROVE  IInv'
<1> USE DEF runVars
<1>1. /\ built < MaxInstances /\ instance' = "setup" /\ setting' = Default /\ commands' = waiting
      /\ built' = built + 1 /\ unheard' = FALSE
  BY DEF Builds
<1>2. TypeOK'
  <2>1. built' \in 0..MaxInstances /\ Default \in 0..MaxSettings  BY <1>1, Typed, SMTT(30) DEF IInv, Default
  <2> QED  BY <1>1, <2>1 DEF IInv, TypeOK
<1>3. OrderInv'
  <2>1. setting = Default  BY DEF IInv, InstanceInv
  <2>2. From(outbox, Default) /\ Default <= sticky  BY <2>1 DEF IInv, OrderInv
  <2> QED  BY <1>1, <2>2 DEF IInv, OrderInv
<1>4. AgeInv'  BY <1>1 DEF IInv, AgeInv
<1>5. InstanceInv'  BY <1>1, Typed DEF IInv, InstanceInv
<1>6. NewestInv'  BY <1>1 DEF NewestInv
<1> QED  BY <1>2, <1>3, <1>4, <1>5, <1>6 DEF IInv

LEMMA InputBuildsKeeps ==
    ASSUME IInv, InputBuilds
    PROVE  IInv'
<1>1. setting = Default /\ Default \in Nat  BY DEF IInv, InstanceInv, InputBuilds, Default
<1>2. /\ topic' = topic /\ topic \in Seq(Message) /\ Rising(topic) /\ AgedAlike(topic)
      /\ UpTo(topic, sticky) /\ From(topic, Default) /\ Precedes(topic, outbox)
      /\ outbox \in Seq(Message) /\ sticky \in Nat
  BY <1>1, Typed DEF IInv, OrderInv, AgeInv, InputBuilds
<1> QED  BY <1>1, <1>2, BuildsKeeps, NoSettings DEF InputBuilds

\* A single message is in order with itself.
LEMMA OneSetting ==
    ASSUME NEW m \in Message
    PROVE  /\ <<m>> \in Seq(Message) /\ Rising(<<m>>) /\ (m.stamped = m.queued => AgedAlike(<<m>>))
           /\ \A v \in Nat : /\ v <= m.setting => From(<<m>>, v)
                             /\ m.setting <= v => UpTo(<<m>>, v)
           /\ \A r \in Seq(Message) : From(r, m.setting) => Precedes(<<m>>, r)
<1>1. Len(<<m>>) = 1 /\ <<m>>[1] = m /\ m.setting \in Nat
  BY ModuleSettingsAssumption DEF Message
<1> QED  BY <1>1 DEF Rising, AgedAlike, From, UpTo, Precedes

LEMMA FeedKeeps ==
    ASSUME IInv, Feed
    PROVE  IInv'
<1> USE DEF runVars, slotVars
<1> DEFINE m == Head(topic)
<1>1. /\ topic # <<>> /\ topic' = Tail(topic) /\ worker
      /\ UNCHANGED <<runVars, worker, backoff, announced, heldUp>>
  BY DEF Feed
<1>2. /\ Tail(topic) \in Seq(Message) /\ m \in Message /\ m.setting \in Nat
      /\ \A v \in Nat : Has(topic, v) <=> m.setting = v \/ Has(Tail(topic), v)
      /\ \A v \in Nat : From(topic, v) <=> v <= m.setting /\ From(Tail(topic), v)
      /\ \A v \in Nat : UpTo(topic, v) <=> m.setting <= v /\ UpTo(Tail(topic), v)
      /\ AgedAlike(topic) <=> m.stamped = m.queued /\ AgedAlike(Tail(topic))
      /\ Rising(topic) => Rising(Tail(topic)) /\ From(Tail(topic), m.setting)
      /\ \A r \in Seq(Message) :
           /\ Precedes(topic, r) => Precedes(Tail(topic), r) /\ From(r, m.setting)
           /\ Precedes(r, topic) => Precedes(r, Tail(topic)) /\ UpTo(r, m.setting)
  BY <1>1, TailSettings, Typed DEF IInv
<1>3. CASE instance # "none"
  <2>1. commands' = Append(commands, m) /\ UNCHANGED <<instance, setting, built, unheard>>
    BY <1>3 DEF Feed
  <2> HIDE DEF m
  <2>2. /\ commands' \in Seq(Message) /\ Rising(commands') /\ AgedAlike(commands')
        /\ Precedes(commands', topic') /\ Precedes(commands', outbox)
        /\ From(commands', setting) /\ UpTo(commands', sticky)
    BY <1>1, <1>2, <2>1, AppendSettings, Typed DEF IInv, OrderInv, AgeInv
  <2>3. /\ topic' \in Seq(Message) /\ Rising(topic') /\ AgedAlike(topic') /\ Precedes(topic', outbox)
        /\ From(topic', setting) /\ UpTo(topic', sticky)
    BY <1>1, <1>2, Typed DEF IInv, OrderInv, AgeInv
  <2>4. TypeOK'  BY <1>1, <2>1, <2>2, <2>3 DEF IInv, TypeOK
  <2>5. OrderInv' /\ AgeInv'  BY <1>1, <2>1, <2>2, <2>3 DEF IInv, OrderInv, AgeInv
  <2>6. InstanceInv'  BY <1>1, <1>3, <2>1 DEF IInv, InstanceInv
  <2>7. NewestInv'
    <3>1. Has(topic, sticky) => Has(topic', sticky) \/ Has(commands', sticky)
      BY <1>1, <1>2, <2>1, AppendSettings, Typed DEF IInv
    <3>2. Has(commands, sticky) => Has(commands', sticky)
      BY <1>2, <2>1, AppendSettings, Typed DEF IInv
    <3> QED  BY <1>1, <2>1, <3>1, <3>2 DEF IInv, NewestInv, Arrived, Announced
  <2> QED  BY <2>4, <2>5, <2>6, <2>7 DEF IInv
<1>4. CASE instance = "none" /\ backoff
  <2>1. UNCHANGED <<instance, setting, commands, built, unheard>>  BY <1>4 DEF Feed
  <2> HIDE DEF m
  <2>2. TypeOK'  BY <1>1, <1>2, <2>1 DEF IInv, TypeOK
  <2>3. OrderInv' /\ AgeInv'  BY <1>1, <1>2, <2>1, Typed DEF IInv, OrderInv, AgeInv
  <2> QED  BY <1>1, <1>4, <2>1, <2>2, <2>3 DEF IInv, InstanceInv, NewestInv
<1>5. CASE instance = "none" /\ ~backoff
  <2>1. Builds(<<m>>)  BY <1>5 DEF Feed
  <2> HIDE DEF m
  <2>2. setting = Default /\ Default \in Nat  BY <1>5 DEF IInv, InstanceInv, Default
  <2>3. /\ topic' \in Seq(Message) /\ Rising(topic') /\ AgedAlike(topic') /\ UpTo(topic', sticky)
        /\ From(topic', Default) /\ Precedes(topic', outbox) /\ From(topic', m.setting)
        /\ From(outbox, m.setting) /\ Default <= m.setting /\ m.setting <= sticky
        /\ m.stamped = m.queued /\ outbox \in Seq(Message) /\ sticky \in Nat
    BY <1>1, <1>2, <2>2, Typed DEF IInv, OrderInv, AgeInv
  <2>4. /\ <<m>> \in Seq(Message) /\ Rising(<<m>>) /\ AgedAlike(<<m>>) /\ From(<<m>>, Default)
        /\ UpTo(<<m>>, sticky) /\ Precedes(<<m>>, topic') /\ Precedes(<<m>>, outbox)
    BY <1>2, <2>2, <2>3, OneSetting
  <2> QED  BY <1>1, <1>5, <2>1, <2>3, <2>4, BuildsKeeps
<1> QED  BY <1>3, <1>4, <1>5

LEMMA SetUpKeeps ==
    ASSUME IInv, SetUp
    PROVE  IInv'
<1> USE DEF runVars, hostVars, fates
<1> DEFINE a == [of |-> built, queued |-> 0]
<1>1. /\ instance = "setup" /\ instance' = "ready" /\ announced' = Append(announced, a)
      /\ UNCHANGED <<runVars, topic, setting, commands, hostVars, fates>>
  BY DEF SetUp
<1>2. built > 0  BY <1>1 DEF IInv, InstanceInv
<1>3. a \in Announcement  BY <1>2, Typed, SMTT(30) DEF IInv, TypeOK, Announcement
<1>4. a.of = built  OBVIOUS
<1> HIDE DEF a
<1>5. /\ announced' \in Seq(Announcement) /\ Len(announced') = Len(announced) + 1
      /\ Len(announced) \in Nat /\ announced'[Len(announced) + 1] = a
  BY <1>1, <1>3, AppendedTo, Typed DEF IInv
<1>6. TypeOK'  BY <1>1, <1>5 DEF IInv, TypeOK, Announcement
<1>7. Announced'
  <2>1. Len(announced) + 1 \in 1..Len(announced')  BY <1>5
  <2> QED  BY <1>1, <1>4, <1>5, <2>1 DEF Announced
<1> QED  BY <1>1, <1>2, <1>6, <1>7 DEF IInv, OrderInv, AgeInv, InstanceInv, NewestInv

LEMMA ApplyKeeps ==
    ASSUME IInv, Apply
    PROVE  IInv' /\ setting <= setting'
<1> USE DEF runVars, hostVars
<1> DEFINE m == Head(commands)
           late == m.stamped > Deadline
<1>1. /\ instance = "ready" /\ commands # <<>> /\ commands' = Tail(commands)
      /\ setting' = IF late \/ m.setting \in Unfit THEN setting ELSE m.setting
      /\ heldUp' = IF late /\ m.queued > Deadline THEN heldUp \cup {m.setting} ELSE heldUp
      /\ UNCHANGED <<runVars, topic, instance, hostVars, announced, unheard>>
  BY DEF Apply
<1>2. /\ Tail(commands) \in Seq(Message) /\ m \in Message /\ m.setting \in 1..MaxSettings /\ m.setting \in Nat
      /\ m.stamped = m.queued /\ AgedAlike(Tail(commands))
      /\ \A v \in Nat : Has(commands, v) <=> m.setting = v \/ Has(Tail(commands), v)
      /\ setting <= m.setting /\ From(Tail(commands), setting)
      /\ m.setting <= sticky /\ UpTo(Tail(commands), sticky)
      /\ Rising(Tail(commands)) /\ From(Tail(commands), m.setting)
      /\ Precedes(Tail(commands), topic) /\ From(topic, m.setting)
      /\ Precedes(Tail(commands), outbox) /\ From(outbox, m.setting)
  BY <1>1, TailSettings, Typed DEF IInv, OrderInv, AgeInv
<1> HIDE DEF m
<1>3. setting <= setting' /\ setting' \in Nat /\ setting' <= sticky /\ setting' \in 0..MaxSettings
  BY <1>1, <1>2, Typed DEF IInv, OrderInv, TypeOK
<1>4. heldUp' \subseteq 1..MaxSettings  BY <1>1, <1>2 DEF IInv, TypeOK
<1>5. TypeOK'  BY <1>1, <1>2, <1>3, <1>4 DEF IInv, TypeOK
<1>6. OrderInv'
  <2>1. CASE setting' = setting  BY <1>1, <1>2, <2>1 DEF IInv, OrderInv
  <2>2. CASE setting' = m.setting  BY <1>1, <1>2, <2>2 DEF IInv, OrderInv
  <2> QED  BY <1>1, <2>1, <2>2
<1>7. AgeInv'  BY <1>1, <1>2 DEF IInv, AgeInv
<1>8. InstanceInv'  BY <1>1 DEF IInv, InstanceInv
<1>9. NewestInv'
  <2>1. CASE m.setting = sticky
    <3>1. Arrived'  BY <1>1, <1>2, <2>1 DEF Arrived
    <3> QED  BY <3>1 DEF NewestInv
  <2>2. CASE m.setting # sticky
    <3>1. Has(commands, sticky) => Has(commands', sticky)  BY <1>1, <1>2, <2>2, Typed DEF IInv
    <3>2. setting = sticky => m.setting = sticky  BY <1>2, Typed DEF IInv
    <3> QED  BY <1>1, <2>2, <3>1, <3>2 DEF IInv, NewestInv, Arrived, Announced
  <2> QED  BY <2>1, <2>2
<1> QED  BY <1>3, <1>5, <1>6, <1>7, <1>8, <1>9 DEF IInv

\* The instance goes, and what it has queued with it.
LEMMA GoneKeeps ==
    ASSUME IInv, Gone, topic' = topic \/ topic' = <<>>, announced' = announced \/ announced' = <<>>,
           worker' \in BOOLEAN, backoff' \in BOOLEAN, UNCHANGED <<runVars, built, fates>>
    PROVE  IInv'
<1> USE DEF runVars, fates
<1>1. instance' = "none" /\ setting' = Default /\ commands' = <<>>  BY DEF Gone
<1>2. /\ topic' \in Seq(Message) /\ Rising(topic') /\ Precedes(topic', outbox) /\ From(topic', setting)
      /\ UpTo(topic', sticky) /\ AgedAlike(topic')
  BY NoSettings, Typed DEF IInv, OrderInv, AgeInv
<1>3. announced' \in Seq(Announcement)
  <2>1. announced \in Seq(Announcement) /\ <<>> \in Seq(Announcement)  BY Typed DEF IInv
  <2> QED  BY <2>1
<1>4. TypeOK'  BY <1>1, <1>2, <1>3, NoSettings, Typed DEF IInv, TypeOK, Announcement, Default
<1>5. OrderInv'
  <2>1. Default \in Nat /\ Default <= setting /\ Default <= sticky  BY Typed DEF IInv, Default
  <2>2. From(outbox, Default) /\ From(topic', Default)
    BY <1>2, <2>1, Wider, Typed DEF IInv, OrderInv
  <2> QED  BY <1>1, <1>2, <2>1, <2>2, NoSettings, Typed DEF IInv, OrderInv
<1>6. AgeInv'  BY <1>1, <1>2, NoSettings DEF IInv, AgeInv
<1>7. InstanceInv' /\ NewestInv'  BY <1>1 DEF InstanceInv, NewestInv
<1> QED  BY <1>4, <1>5, <1>6, <1>7 DEF IInv

LEMMA AnnouncementGivenUpKeeps ==
    ASSUME IInv, AnnouncementGivenUp
    PROVE  IInv'
<1> USE DEF runVars, slotVars, hostVars
<1>1. /\ announced # <<>> /\ announced' = Tail(announced)
      /\ unheard' = (unheard \/ Head(announced).of = built)
      /\ UNCHANGED <<runVars, topic, slotVars, hostVars, heldUp>>
  BY DEF AnnouncementGivenUp
<1>2. /\ announced' \in Seq(Announcement) /\ Head(announced) = announced[1]
      /\ \A i \in 1..Len(announced) : i = 1 \/ (i - 1 \in 1..Len(announced') /\ announced[i] = announced'[i - 1])
  BY <1>1, TailOf, Typed DEF IInv
<1>3. TypeOK'  BY <1>1, <1>2 DEF IInv, TypeOK, Announcement
<1>4. Announced => Announced' \/ unheard'  BY <1>1, <1>2 DEF Announced
<1> QED  BY <1>1, <1>3, <1>4 DEF IInv, OrderInv, AgeInv, InstanceInv, NewestInv, Arrived

LEMMA TickKeeps ==
    ASSUME IInv, Tick
    PROVE  IInv'
<1> USE DEF hostVars, fates
<1>1. /\ outbox' = Aged(outbox) /\ topic' = Aged(topic) /\ commands' = Aged(commands)
      /\ announced' = [i \in DOMAIN announced |-> [announced[i] EXCEPT !.queued = Older(@)]]
      /\ UNCHANGED <<sticky, instance, setting, hostVars, fates>>
  BY DEF Tick
<1>2. /\ announced' \in Seq(Announcement) /\ Len(announced') = Len(announced)
      /\ \A i \in 1..Len(announced) : announced'[i].of = announced[i].of
  <2>1. DOMAIN announced = 1..Len(announced) /\ Len(announced) \in Nat
        /\ \A i \in 1..Len(announced) : announced[i] \in Announcement
    BY Typed DEF IInv
  <2>2. \A n \in 0..Deadline + 1 : Older(n) \in 0..Deadline + 1  BY Typed, SMTT(30) DEF IInv, Older
  <2>3. ASSUME NEW a \in Announcement
        PROVE  /\ [a EXCEPT !.queued = Older(@)] \in Announcement
               /\ [a EXCEPT !.queued = Older(@)].of = a.of
    BY <2>2 DEF Announcement
  <2>4. \A i \in 1..Len(announced) : announced'[i] = [announced[i] EXCEPT !.queued = Older(@)]
    BY <1>1, <2>1
  <2>5. \A i \in 1..Len(announced) : announced'[i] \in Announcement /\ announced'[i].of = announced[i].of
    BY <2>1, <2>3, <2>4
  <2>6. announced' = [i \in 1..Len(announced) |-> announced'[i]]  BY <1>1, <2>1
  <2>7. announced' \in [1..Len(announced) -> Announcement]  BY <2>5, <2>6
  <2> QED  BY <2>1, <2>5, <2>7
<1>3. outbox' \in Seq(Message) /\ topic' \in Seq(Message) /\ commands' \in Seq(Message)
  BY <1>1, AgedSettings, Typed DEF IInv
<1>4. TypeOK'  BY <1>1, <1>2, <1>3 DEF IInv, TypeOK, Announcement
<1>5. OrderInv'  BY <1>1, AgedOrder, Typed DEF IInv, OrderInv
<1>6. AgeInv'  BY <1>1, AgedSettings, Typed DEF IInv, AgeInv
<1>7. InstanceInv'
  <2>1. commands = <<>> => commands' = <<>>
    <3>1. Len(commands') = Len(commands)  BY <1>1, AgedSettings, Typed DEF IInv
    <3> QED  BY <1>3, <3>1
  <2> QED  BY <1>1, <2>1 DEF IInv, InstanceInv
<1>8. NewestInv'
  <2>1. Announced => Announced'  BY <1>1, <1>2 DEF Announced
  <2>2. /\ Has(outbox, sticky) => Has(outbox', sticky)
        /\ Has(topic, sticky) => Has(topic', sticky)
        /\ Has(commands, sticky) => Has(commands', sticky)
    BY <1>1, AgedOrder, Typed DEF IInv
  <2> QED  BY <1>1, <2>1, <2>2 DEF IInv, NewestInv, Arrived
<1> QED  BY <1>4, <1>5, <1>6, <1>7, <1>8 DEF IInv

LEMMA NextKeeps ==
    ASSUME IInv, [Next]_vars
    PROVE  IInv'
<1> USE DEF runVars, slotVars, hostVars, fates
<1>1. CASE RunStep  BY <1>1, HearKeeps, GiveUpKeeps, SendKeeps DEF RunStep
<1>2. CASE HostStep  BY <1>2, FeedKeeps, SetUpKeeps, ApplyKeeps, AnnouncementGivenUpKeeps DEF HostStep
<1>3. CASE Fails
  <2>1. worker' \in BOOLEAN /\ backoff' \in BOOLEAN  BY <1>3 DEF Fails, IInv, TypeOK
  <2> QED  BY <1>3, <2>1, GoneKeeps DEF Fails
<1>4. CASE SweptIdle
  <2>1. worker' \in BOOLEAN /\ backoff' \in BOOLEAN  BY <1>4 DEF SweptIdle, IInv, TypeOK
  <2> QED  BY <1>4, <2>1, GoneKeeps DEF SweptIdle
<1>5. ASSUME NEW kept \in BOOLEAN, Crash(kept) PROVE IInv'
  <2>1. worker' \in BOOLEAN /\ backoff' \in BOOLEAN  BY <1>5 DEF Crash
  <2>2. announced' = announced \/ announced' = <<>>  BY <1>5 DEF Crash
  <2>3. Gone /\ topic' = <<>> /\ UNCHANGED <<runVars, built, fates>>  BY <1>5 DEF Crash
  <2> QED  BY <2>1, <2>2, <2>3, GoneKeeps
<1>6. CASE BackoffOver
  BY <1>6 DEF BackoffOver, IInv, TypeOK, OrderInv, AgeInv, InstanceInv, NewestInv, Arrived, Announced
<1>7. CASE Restart
  BY <1>7 DEF Restart, IInv, TypeOK, OrderInv, AgeInv, InstanceInv, NewestInv, Arrived, Announced
<1>8. CASE UNCHANGED vars
  BY <1>8 DEF vars, IInv, TypeOK, OrderInv, AgeInv, InstanceInv, NewestInv, Arrived, Announced
<1>9. CASE Terminated  BY <1>8, <1>9 DEF Terminated
<1> QED
  BY <1>1, <1>2, <1>3, <1>4, <1>5, <1>6, <1>7, <1>8, <1>9, DispatchKeeps, InputBuildsKeeps, TickKeeps
  DEF Next

\* The inductive invariant of a module's settings: in order all along their way, and
\* what an instance without the newest one still waits for.
THEOREM Invariant == Spec => []IInv
<1>1. Init => IInv  BY InitHolds
<1>2. IInv /\ [Next]_vars => IInv'  BY NextKeeps
<1> QED  BY <1>1, <1>2, PTL DEF Spec

-----------------------------------------------------------------------------
(* What the runs check *)

\* "A rebuilt instance has lost them" (pipeline.py), and is sent them again: whatever
\* fails, restarts or is dropped on the way, an instance about which nothing is under
\* way has the newest setting, unless it was refused or held up past the deadline.
THEOREM SettingsKept == Spec => []SettingsAreKept
<1>1. IInv => SettingsAreKept
  <2> SUFFICES ASSUME IInv, Settled PROVE Arrived
    BY DEF IInv, SettingsAreKept, SettingsArrive
  <2>1. ~Has(outbox, sticky) /\ ~Has(topic, sticky) /\ ~Has(commands, sticky)
    BY NoSettings, Typed DEF IInv, Settled
  <2>2. ~Announced
    <3>1. Len(announced) = 0  BY DEF Settled
    <3> QED  BY <3>1 DEF Announced
  <2>3. CASE sticky = Default  BY <2>3, Typed DEF IInv, OrderInv, Arrived, Default
  <2> QED  BY <2>1, <2>2, <2>3 DEF IInv, NewestInv, Settled
<1> QED  BY <1>1, Invariant, PTL

\* An instance never goes back to an older setting, whatever the outbox sends twice and
\* whenever the run sends its settings again.
THEOREM NeverGoesBack == Spec => SettingsNeverGoBack
<1>1. IInv /\ [Next]_vars =>
        [built' = built /\ instance = "ready" /\ instance' = "ready" => setting <= setting']_vars
  <2> SUFFICES ASSUME IInv, [Next]_vars, built' = built, instance = "ready", instance' = "ready"
               PROVE  setting <= setting'
    OBVIOUS
  <2> USE DEF runVars, slotVars, hostVars, fates
  <2>1. CASE Apply  BY <2>1, ApplyKeeps
  <2>2. CASE UNCHANGED setting  BY <2>2, Typed DEF IInv
  <2>3. ASSUME NEW waiting, Builds(waiting) PROVE FALSE  BY <2>3 DEF Builds
  <2>4. ~Gone  BY DEF Gone
  <2>5. UNCHANGED setting \/ Apply
    BY <2>3, <2>4
    DEF Next, RunStep, HostStep, Dispatch, Hear, Send, GiveUp, InputBuilds, Feed, SetUp, Fails,
        BackoffOver, SweptIdle, Crash, Restart, AnnouncementGivenUp, Tick, Terminated, vars
  <2> QED  BY <2>1, <2>2, <2>5
<1> QED  BY <1>1, Invariant, PTL DEF Spec, SettingsNeverGoBack

-----------------------------------------------------------------------------
(* HubAlarms: the inductive invariant *)

Messages == {Result(g) : g \in Grid} \cup {Status}
              \cup {AlarmEvent(id, type) : id \in 1..MaxAlarms, type \in {"init", "not_critical"}}
Events == Messages \cup {Nudge}

AppType == [pc : {"run", "report", "alarm", "dead", "done"}, id : 0..MaxAlarms,
            status : {"Undefined", "OK", "Emergency"},
            issued : 0..MaxAlarms, quiet : 0..(Hold + 1), due : 0..Period]
PageType == [pc : {"opening", "serving"}, queue : Seq(Events), latest : Grid \cup {"none"},
             lost : BOOLEAN]

ThreadTyped == hub \in {"running", "stopping", "stopped"} /\ app \in AppType
PostedTyped == posted \in Seq(Messages) /\ Len(posted) <= MaxPosted
StoresTyped ==
  /\ alarms \in Seq(AlarmRecord) /\ Len(alarms) <= Limit
  /\ islands \in Grid \cup {"none"}
  /\ row \in [known : BOOLEAN, age : 0..(StaleAfter + 1)]
SocketTyped == page = NoPage \/ (page \in PageType /\ Len(page.queue) <= QueueMax)
ViewTyped == view \in AlarmsShown /\ ops \in [sockets : 0..MaxSockets, commands : 0..MaxCommands]

AlarmTypes == ThreadTyped /\ PostedTyped /\ StoresTyped /\ SocketTyped /\ ViewTyped

\* The alarm that is open was issued last.  An emergency has one, but in the
\* frame that saw it, before the handler runs, and when the thread died there.
HandlerInv ==
  /\ app.id # 0 => app.id = app.issued
  /\ app.status = "Emergency" => app.id # 0 \/ app.pc \in {"report", "alarm", "dead"}

\* Alarm events are numbered: alarm k is opened by event 2k - 1 and ended by 2k.
EventNumber(m) == IF m.type = "init" THEN 2 * m.id - 1 ELSE 2 * m.id
\* How many of them the application has sent, and the store has taken.
EventsSent == 2 * app.issued - IF app.id # 0 THEN 1 ELSE 0
Taken(s) == IF s = <<>> THEN 0 ELSE 2 * s[Len(s)].id - IF s[Len(s)].ended THEN 0 ELSE 1
EventsTaken == Taken(alarms)

\* In q every alarm event has a number after lo, up to hi; they are in order
\* and none is missing.
InFlight(q, lo, hi) ==
  /\ \A i \in 1..Len(q) : q[i].topic = "alarms" => EventNumber(q[i]) \in (lo + 1)..hi
  /\ \A i, j \in 1..Len(q) :
       i < j /\ q[i].topic = "alarms" /\ q[j].topic = "alarms" =>
         EventNumber(q[i]) < EventNumber(q[j])
  /\ \A n \in (lo + 1)..hi :
       \E i \in 1..Len(q) : q[i].topic = "alarms" /\ EventNumber(q[i]) = n

\* The events on their way are those the store has not taken yet, in order.
EventsInv ==
  hub # "stopped" => EventsTaken <= EventsSent /\ InFlight(posted, EventsTaken, EventsSent)

\* The store holds the alarms issued last, one after the other, and only the
\* last of them may be open.
Chained(s) ==
  /\ \A j \in 1..Len(s) : s[j].id = s[Len(s)].id - (Len(s) - j)
  /\ \A j \in 1..Len(s) : j < Len(s) => s[j].ended
StoreInv == Chained(alarms)

\* The newest result on its way, or the store's when there is none, is what the
\* status is of.
LastResult(q, i) == q[i].topic = "result" /\ \A j \in 1..Len(q) : i < j => q[j].topic # "result"
NoResult(q) == \A i \in 1..Len(q) : q[i].topic # "result"
ResultsInv ==
  hub # "stopped" =>
    /\ \A i \in 1..Len(posted) :
         LastResult(posted, i) /\ posted[i].grid = "split" => app.status = "Emergency"
    /\ NoResult(posted) /\ islands = "split" => app.status = "Emergency"

\* What an open page was sent, and what it will be.
ShownInv ==
  page.pc # "closed" =>
    /\ hub = "running"
    /\ page.pc = "opening" => page.latest = "none"
    /\ page.pc = "serving" /\ page.queue = <<>> => view.alarms = alarms
    /\ page.pc = "serving" /\ page.latest # "none" => view.grid = page.latest
    /\ ~page.lost =>
         /\ \A i \in 1..Len(page.queue) : LastResult(page.queue, i) => page.queue[i].grid = islands
         /\ NoResult(page.queue) /\ page.latest # "none" => page.latest = islands


AlarmsInv ==
  AlarmTypes /\ HandlerInv /\ EventsInv /\ StoreInv /\ ResultsInv /\ ShownInv

-----------------------------------------------------------------------------
(* Messages and sequences *)

\* What a message is, by its topic.
LEMMA MessageIs ==
  ASSUME NEW m \in Messages
  PROVE  /\ m.topic \in {"result", "status", "alarms"}
         /\ m.topic = "result" => m.grid \in Grid
         /\ m.topic = "alarms" => m.id \in 1..MaxAlarms /\ m.type \in {"init", "not_critical"}
BY DEF Messages, Result, Status, AlarmEvent

\* A message that is none of the bus wakes the page.
LEMMA EventIs ==
  ASSUME NEW e \in Events
  PROVE  /\ e.topic \in {"result", "status", "alarms", "none"}
         /\ e.topic = "result" => e.grid \in Grid
BY MessageIs DEF Events, Nudge

\* Elements of a sequence.
LEMMA ElementOf ==
  ASSUME NEW S, NEW q \in Seq(S)
  PROVE  Len(q) \in Nat /\ \A i \in 1..Len(q) : q[i] \in S
OBVIOUS

\* One sequence behind another.
LEMMA JoinedAre ==
  ASSUME NEW S, NEW q \in Seq(S), NEW ms \in Seq(S)
  PROVE  /\ q \o ms \in Seq(S) /\ Len(q \o ms) = Len(q) + Len(ms)
         /\ \A i \in 1..Len(q) : (q \o ms)[i] = q[i]
         /\ \A i \in 1..Len(ms) : (q \o ms)[Len(q) + i] = ms[i]
         /\ \A i \in 1..(Len(q) + Len(ms)) : i > Len(q) =>
              i - Len(q) \in 1..Len(ms) /\ (q \o ms)[i] = ms[i - Len(q)]
OBVIOUS

\* A sequence with one element more.
LEMMA AppendedIs ==
  ASSUME NEW S, NEW q \in Seq(S), NEW e \in S
  PROVE  /\ Append(q, e) \in Seq(S) /\ Len(Append(q, e)) = Len(q) + 1
         /\ \A i \in 1..Len(q) : Append(q, e)[i] = q[i]
         /\ Append(q, e)[Len(q) + 1] = e
OBVIOUS

\* A sequence without its first element.
LEMMA TailIs ==
  ASSUME NEW S, NEW q \in Seq(S), q # <<>>
  PROVE  /\ Tail(q) \in Seq(S) /\ Len(q) >= 1 /\ Len(Tail(q)) = Len(q) - 1
         /\ Head(q) = q[1] /\ Head(q) \in S
         /\ \A i \in 1..(Len(q) - 1) : Tail(q)[i] = q[i + 1]
OBVIOUS

-----------------------------------------------------------------------------
(* The events on their way *)

\* Nothing is added to the events by messages that are no alarm events.
LEMMA OthersJoin ==
  ASSUME NEW q \in Seq(Messages), NEW ms \in Seq(Messages), NEW lo \in Int, NEW hi \in Int,
         InFlight(q, lo, hi), \A i \in 1..Len(ms) : ms[i].topic # "alarms"
  PROVE  InFlight(q \o ms, lo, hi)
<1> DEFINE r == q \o ms
<1>1. /\ Len(q) \in Nat /\ Len(ms) \in Nat /\ Len(r) = Len(q) + Len(ms)
      /\ \A i \in 1..Len(q) : r[i] = q[i]
      /\ \A i \in 1..Len(r) : i > Len(q) => r[i].topic # "alarms"
  BY JoinedAre
<1> HIDE DEF r
<1>2. \A i \in 1..Len(r) : r[i].topic = "alarms" => i \in 1..Len(q) /\ r[i] = q[i]
  BY <1>1
<1>3. \A i \in 1..Len(q) : i \in 1..Len(r)
  BY <1>1
<1>4. \A i \in 1..Len(r) : r[i].topic = "alarms" => EventNumber(r[i]) \in (lo + 1)..hi
  BY <1>2 DEF InFlight
<1>5. \A i, j \in 1..Len(r) : i < j /\ r[i].topic = "alarms" /\ r[j].topic = "alarms" =>
        EventNumber(r[i]) < EventNumber(r[j])
  BY <1>2 DEF InFlight
<1>6. \A n \in (lo + 1)..hi :
        \E i \in 1..Len(r) : r[i].topic = "alarms" /\ EventNumber(r[i]) = n
  BY <1>1, <1>3 DEF InFlight
<1> QED
  BY <1>4, <1>5, <1>6 DEF InFlight, r

\* Messages of which the last is the next event.
LEMMA EventJoins ==
  ASSUME NEW q \in Seq(Messages), NEW ms \in Seq(Messages), NEW lo \in Int, NEW hi \in Int,
         lo <= hi, InFlight(q, lo, hi), Len(ms) >= 1,
         \A i \in 1..Len(ms) : ms[i].topic = "alarms" <=> i = Len(ms),
         EventNumber(ms[Len(ms)]) = hi + 1
  PROVE  InFlight(q \o ms, lo, hi + 1)
<1> DEFINE r == q \o ms
<1>1. /\ Len(q) \in Nat /\ Len(ms) \in Nat /\ Len(r) = Len(q) + Len(ms)
      /\ \A i \in 1..Len(q) : r[i] = q[i]
      /\ \A i \in 1..Len(r) : i > Len(q) => i - Len(q) \in 1..Len(ms) /\ r[i] = ms[i - Len(q)]
  BY JoinedAre
<1> HIDE DEF r
<1>2. \A i \in 1..Len(r) : r[i].topic = "alarms" =>
        (i \in 1..Len(q) /\ r[i] = q[i]) \/ (i = Len(r) /\ EventNumber(r[i]) = hi + 1)
  <2> SUFFICES ASSUME NEW i \in 1..Len(r), r[i].topic = "alarms", i > Len(q)
               PROVE  i = Len(r) /\ EventNumber(r[i]) = hi + 1
    BY <1>1
  <2>1. i - Len(q) = Len(ms) /\ r[i] = ms[i - Len(q)]
    BY <1>1
  <2>2. i = Len(r)
    <3>1. \A a, b, c, d \in Int : a - b = c /\ d = b + c => a = d
      OBVIOUS
    <3>2. Len(r) \in Int /\ Len(q) \in Int /\ Len(ms) \in Int /\ i \in Int
      BY <1>1
    <3> QED
      BY <2>1, <1>1, <3>1, <3>2
  <2>3. r[i] = ms[Len(ms)]
    BY <2>1
  <2> QED
    BY <2>2, <2>3
<1>3. Len(r) \in 1..Len(r) /\ Len(r) > Len(q)
  BY <1>1
<1>4. r[Len(r)].topic = "alarms" /\ EventNumber(r[Len(r)]) = hi + 1
  BY <1>1, <1>3
<1>5. \A i \in 1..Len(q) : i \in 1..Len(r) /\ i < Len(r)
  BY <1>1, <1>3
<1>6. \A i \in 1..Len(q) : q[i].topic = "alarms" => EventNumber(q[i]) \in (lo + 1)..hi
  BY DEF InFlight
<1>7. \A i \in 1..Len(r) : r[i].topic = "alarms" => EventNumber(r[i]) \in (lo + 1)..(hi + 1)
  <2> SUFFICES ASSUME NEW i \in 1..Len(r), r[i].topic = "alarms"
               PROVE  EventNumber(r[i]) \in (lo + 1)..(hi + 1)
    OBVIOUS
  <2>1. CASE i \in 1..Len(q) /\ r[i] = q[i]
    <3>1. EventNumber(r[i]) \in (lo + 1)..hi
      BY <2>1, <1>6
    <3> QED
      BY <3>1
  <2>2. CASE EventNumber(r[i]) = hi + 1
    BY <2>2
  <2> QED
    BY <2>1, <2>2, <1>2
<1>8. \A i, j \in 1..Len(r) : i < j /\ r[i].topic = "alarms" /\ r[j].topic = "alarms" =>
        EventNumber(r[i]) < EventNumber(r[j])
  <2> SUFFICES ASSUME NEW i \in 1..Len(r), NEW j \in 1..Len(r), i < j,
                      r[i].topic = "alarms", r[j].topic = "alarms"
               PROVE  EventNumber(r[i]) < EventNumber(r[j])
    OBVIOUS
  <2>1. i \in 1..Len(q) /\ r[i] = q[i]
    BY <1>1, <1>2
  <2>2. CASE j \in 1..Len(q) /\ r[j] = q[j]
    BY <2>1, <2>2 DEF InFlight
  <2>3. CASE EventNumber(r[j]) = hi + 1
    <3>1. EventNumber(r[i]) \in (lo + 1)..hi
      BY <2>1, <1>6
    <3> QED
      BY <2>3, <3>1
  <2> QED
    BY <2>2, <2>3, <1>2
<1>9. \A n \in (lo + 1)..(hi + 1) :
        \E i \in 1..Len(r) : r[i].topic = "alarms" /\ EventNumber(r[i]) = n
  <2> SUFFICES ASSUME NEW n \in (lo + 1)..(hi + 1)
               PROVE  \E i \in 1..Len(r) : r[i].topic = "alarms" /\ EventNumber(r[i]) = n
    OBVIOUS
  <2>1. CASE n = hi + 1
    BY <2>1, <1>3, <1>4
  <2>2. CASE n # hi + 1
    <3>1. n \in (lo + 1)..hi
      BY <2>2
    <3>2. PICK i \in 1..Len(q) : q[i].topic = "alarms" /\ EventNumber(q[i]) = n
      BY <3>1 DEF InFlight
    <3> QED
      BY <3>2, <1>1, <1>5
  <2> QED
    BY <2>1, <2>2
<1> QED
  BY <1>7, <1>8, <1>9 DEF InFlight, r

\* A message that is no event is taken off.
LEMMA OtherLeaves ==
  ASSUME NEW q \in Seq(Messages), NEW lo \in Int, NEW hi \in Int, q # <<>>,
         InFlight(q, lo, hi), Head(q).topic # "alarms"
  PROVE  InFlight(Tail(q), lo, hi)
<1> DEFINE r == Tail(q)
<1>1. /\ Len(q) \in Nat /\ Len(q) >= 1 /\ Len(r) = Len(q) - 1 /\ q[1].topic # "alarms"
      /\ \A i \in 1..Len(r) : r[i] = q[i + 1]
  BY TailIs
<1> HIDE DEF r
<1>2. \A i \in 1..Len(r) : i + 1 \in 1..Len(q) /\ r[i] = q[i + 1]
  BY <1>1
<1>3. \A i \in 1..Len(q) : q[i].topic = "alarms" => i - 1 \in 1..Len(r) /\ r[i - 1] = q[i]
  <2> SUFFICES ASSUME NEW i \in 1..Len(q), q[i].topic = "alarms"
               PROVE  i - 1 \in 1..Len(r) /\ r[i - 1] = q[i]
    OBVIOUS
  <2>1. i # 1
    BY <1>1
  <2>2. i - 1 \in 1..Len(r) /\ (i - 1) + 1 = i
    BY <1>1, <2>1
  <2> QED
    BY <1>2, <2>2
<1>4. \A i \in 1..Len(r) : r[i].topic = "alarms" => EventNumber(r[i]) \in (lo + 1)..hi
  BY <1>2 DEF InFlight
<1>5. \A i, j \in 1..Len(r) : i < j /\ r[i].topic = "alarms" /\ r[j].topic = "alarms" =>
        EventNumber(r[i]) < EventNumber(r[j])
  <2> SUFFICES ASSUME NEW i \in 1..Len(r), NEW j \in 1..Len(r), i < j,
                      r[i].topic = "alarms", r[j].topic = "alarms"
               PROVE  EventNumber(r[i]) < EventNumber(r[j])
    OBVIOUS
  <2>1. i + 1 < j + 1
    OBVIOUS
  <2> QED
    BY <1>2, <2>1, ZenonT(60) DEF InFlight
<1>6. \A n \in (lo + 1)..hi :
        \E i \in 1..Len(r) : r[i].topic = "alarms" /\ EventNumber(r[i]) = n
  BY <1>3 DEF InFlight
<1> QED
  BY <1>4, <1>5, <1>6 DEF InFlight, r

\* The event that is taken off is the next one.
LEMMA EventLeaves ==
  ASSUME NEW q \in Seq(Messages), NEW lo \in Int, NEW hi \in Int, q # <<>>,
         InFlight(q, lo, hi), Head(q).topic = "alarms"
  PROVE  EventNumber(Head(q)) = lo + 1 /\ lo + 1 <= hi /\ InFlight(Tail(q), lo + 1, hi)
<1> DEFINE r == Tail(q)
<1>1. /\ Len(q) \in Nat /\ Len(q) >= 1 /\ Len(r) = Len(q) - 1
      /\ Head(q) = q[1] /\ q[1].topic = "alarms"
      /\ \A i \in 1..Len(r) : r[i] = q[i + 1]
  BY TailIs
<1> HIDE DEF r
<1>2. \A i \in 1..Len(r) : i + 1 \in 1..Len(q) /\ r[i] = q[i + 1]
  BY <1>1
<1>3. 1 \in 1..Len(q)
  BY <1>1
<1>4. EventNumber(q[1]) \in (lo + 1)..hi
  BY <1>1, <1>3 DEF InFlight
<1>5. PICK a \in Int : a = EventNumber(q[1])
  BY <1>4
<1>6. a >= lo + 1 /\ a <= hi /\ lo + 1 \in (lo + 1)..hi
  BY <1>4, <1>5
<1>7. PICK k \in 1..Len(q) : q[k].topic = "alarms" /\ EventNumber(q[k]) = lo + 1
  BY <1>6 DEF InFlight
<1>8. k # 1 => EventNumber(q[1]) < EventNumber(q[k])
  BY <1>1, <1>3, <1>7 DEF InFlight
<1>9. a = lo + 1
  <2>1. CASE k = 1
    BY <2>1, <1>5, <1>7
  <2>2. CASE k # 1
    BY <2>2, <1>5, <1>6, <1>7, <1>8
  <2> QED
    BY <2>1, <2>2
<1>10. \A i \in 1..Len(q) : q[i].topic = "alarms" /\ i # 1 =>
         EventNumber(q[i]) \in (lo + 1)..hi /\ lo + 1 < EventNumber(q[i])
  BY <1>1, <1>3, <1>5, <1>9 DEF InFlight
<1>11. \A i \in 1..Len(r) : r[i].topic = "alarms" => EventNumber(r[i]) \in (lo + 1 + 1)..hi
  <2> SUFFICES ASSUME NEW i \in 1..Len(r), r[i].topic = "alarms"
               PROVE  EventNumber(r[i]) \in (lo + 1 + 1)..hi
    OBVIOUS
  <2>1. EventNumber(r[i]) \in (lo + 1)..hi /\ lo + 1 < EventNumber(r[i])
    BY <1>2, <1>10
  <2> QED
    BY <2>1
<1>12. \A i, j \in 1..Len(r) : i < j /\ r[i].topic = "alarms" /\ r[j].topic = "alarms" =>
        EventNumber(r[i]) < EventNumber(r[j])
  <2> SUFFICES ASSUME NEW i \in 1..Len(r), NEW j \in 1..Len(r), i < j,
                      r[i].topic = "alarms", r[j].topic = "alarms"
               PROVE  EventNumber(r[i]) < EventNumber(r[j])
    OBVIOUS
  <2>1. i + 1 < j + 1
    OBVIOUS
  <2> QED
    BY <1>2, <2>1, ZenonT(60) DEF InFlight
<1>13. \A n \in (lo + 1 + 1)..hi :
        \E i \in 1..Len(r) : r[i].topic = "alarms" /\ EventNumber(r[i]) = n
  <2> SUFFICES ASSUME NEW n \in (lo + 1 + 1)..hi
               PROVE  \E i \in 1..Len(r) : r[i].topic = "alarms" /\ EventNumber(r[i]) = n
    OBVIOUS
  <2>1. n \in (lo + 1)..hi /\ n # lo + 1
    OBVIOUS
  <2>2. PICK i \in 1..Len(q) : q[i].topic = "alarms" /\ EventNumber(q[i]) = n
    BY <2>1 DEF InFlight
  <2>3. i # 1
    BY <2>1, <2>2, <1>5, <1>9
  <2>4. i - 1 \in 1..Len(r) /\ (i - 1) + 1 = i
    BY <1>1, <2>3
  <2> QED
    BY <2>2, <2>4, <1>2
<1> QED
  BY <1>1, <1>5, <1>6, <1>9, <1>11, <1>12, <1>13 DEF InFlight, r

-----------------------------------------------------------------------------
(* The newest result of a queue *)

\* Messages that are no results leave it as it is.
LEMMA NoResultJoins ==
  ASSUME NEW S, NEW q \in Seq(S), NEW ms \in Seq(S), NoResult(ms)
  PROVE  /\ \A i \in 1..Len(q \o ms) : LastResult(q \o ms, i) =>
              i \in 1..Len(q) /\ LastResult(q, i) /\ (q \o ms)[i] = q[i]
         /\ NoResult(q \o ms) => NoResult(q)
<1> DEFINE r == q \o ms
<1>1. /\ Len(q) \in Nat /\ Len(ms) \in Nat /\ Len(r) = Len(q) + Len(ms)
      /\ \A i \in 1..Len(q) : r[i] = q[i]
      /\ \A i \in 1..Len(r) : i > Len(q) => i - Len(q) \in 1..Len(ms) /\ r[i] = ms[i - Len(q)]
  BY JoinedAre
<1> HIDE DEF r
<1>2. \A i \in 1..Len(r) : r[i].topic = "result" => i \in 1..Len(q) /\ r[i] = q[i]
  BY <1>1 DEF NoResult
<1>3. \A i \in 1..Len(q) : i \in 1..Len(r)
  BY <1>1
<1>4. \A i \in 1..Len(r) : LastResult(r, i) => i \in 1..Len(q) /\ LastResult(q, i) /\ r[i] = q[i]
  BY <1>1, <1>2, <1>3 DEF LastResult
<1>5. NoResult(r) => NoResult(q)
  BY <1>1, <1>3 DEF NoResult
<1> QED
  BY <1>4, <1>5 DEF r

\* One that is a result is the newest.
LEMMA ResultJoins ==
  ASSUME NEW S, NEW q \in Seq(S), NEW ms \in Seq(S), Len(ms) >= 1, ms[1].topic = "result",
         \A i \in 1..Len(ms) : i # 1 => ms[i].topic # "result"
  PROVE  /\ \A i \in 1..Len(q \o ms) : LastResult(q \o ms, i) => (q \o ms)[i] = ms[1]
         /\ ~NoResult(q \o ms)
<1> DEFINE r == q \o ms
<1>1. /\ Len(q) \in Nat /\ Len(ms) \in Nat /\ Len(r) = Len(q) + Len(ms)
      /\ \A i \in 1..Len(ms) : r[Len(q) + i] = ms[i]
      /\ \A i \in 1..Len(r) : i > Len(q) => i - Len(q) \in 1..Len(ms) /\ r[i] = ms[i - Len(q)]
  BY JoinedAre
<1> HIDE DEF r
<1>2. Len(q) + 1 \in 1..Len(r) /\ r[Len(q) + 1] = ms[1]
  BY <1>1
<1>3. \A i \in 1..Len(r) : LastResult(r, i) => r[i] = ms[1]
  <2> SUFFICES ASSUME NEW i \in 1..Len(r), LastResult(r, i)
               PROVE  r[i] = ms[1]
    OBVIOUS
  <2>1. i >= Len(q) + 1
    BY <1>1, <1>2 DEF LastResult
  <2>2. i - Len(q) \in 1..Len(ms) /\ r[i] = ms[i - Len(q)]
    BY <1>1, <2>1
  <2>3. i - Len(q) = 1
    BY <2>2 DEF LastResult
  <2> QED
    BY <2>2, <2>3
<1> QED
  BY <1>2, <1>3 DEF NoResult, r

\* What is newest once the head is taken off was so before; and a queue that
\* has none then had none, or its head was the newest.
LEMMA ResultLeaves ==
  ASSUME NEW S, NEW q \in Seq(S), q # <<>>
  PROVE  /\ \A i \in 1..Len(Tail(q)) : LastResult(Tail(q), i) =>
              i + 1 \in 1..Len(q) /\ LastResult(q, i + 1) /\ Tail(q)[i] = q[i + 1]
         /\ NoResult(Tail(q)) => IF Head(q).topic = "result" THEN LastResult(q, 1)
                                                             ELSE NoResult(q)
<1> DEFINE r == Tail(q)
<1>1. /\ Len(q) \in Nat /\ Len(q) >= 1 /\ Len(r) = Len(q) - 1 /\ Head(q) = q[1]
      /\ \A i \in 1..Len(r) : r[i] = q[i + 1]
  BY TailIs
<1> HIDE DEF r
<1>2. \A i \in 1..Len(r) : i + 1 \in 1..Len(q) /\ r[i] = q[i + 1]
  BY <1>1
<1>3. \A i \in 1..Len(q) : i # 1 => i - 1 \in 1..Len(r) /\ r[i - 1] = q[i]
  <2> SUFFICES ASSUME NEW i \in 1..Len(q), i # 1
               PROVE  i - 1 \in 1..Len(r) /\ r[i - 1] = q[i]
    OBVIOUS
  <2>1. i - 1 \in 1..Len(r) /\ (i - 1) + 1 = i
    BY <1>1
  <2> QED
    BY <1>2, <2>1
<1>4. \A i \in 1..Len(r) : LastResult(r, i) => LastResult(q, i + 1)
  <2> SUFFICES ASSUME NEW i \in 1..Len(r), LastResult(r, i)
               PROVE  LastResult(q, i + 1)
    OBVIOUS
  <2>1. q[i + 1].topic = "result"
    BY <1>2 DEF LastResult
  <2>2. ASSUME NEW j \in 1..Len(q), i + 1 < j
        PROVE  q[j].topic # "result"
    <3>1. j # 1 /\ i < j - 1
      BY <2>2
    <3>2. j - 1 \in 1..Len(r) /\ r[j - 1] = q[j]
      BY <1>3, <3>1
    <3> QED
      BY <3>1, <3>2 DEF LastResult
  <2> QED
    BY <2>1, <2>2 DEF LastResult
<1>5. ASSUME NoResult(r)
      PROVE  IF Head(q).topic = "result" THEN LastResult(q, 1) ELSE NoResult(q)
  <2>1. \A i \in 1..Len(q) : i # 1 => q[i].topic # "result"
    BY <1>3, <1>5 DEF NoResult
  <2> QED
    BY <1>1, <2>1 DEF NoResult, LastResult
<1> QED
  BY <1>2, <1>4, <1>5 DEF r

\* The queue of one message.
LEMMA OneJoins ==
  ASSUME NEW S, NEW q \in Seq(S), NEW e \in S
  PROVE  /\ e.topic = "result" =>
              /\ \A i \in 1..Len(Append(q, e)) : LastResult(Append(q, e), i) => Append(q, e)[i] = e
              /\ ~NoResult(Append(q, e))
         /\ e.topic # "result" =>
              /\ \A i \in 1..Len(Append(q, e)) : LastResult(Append(q, e), i) =>
                   i \in 1..Len(q) /\ LastResult(q, i) /\ Append(q, e)[i] = q[i]
              /\ NoResult(Append(q, e)) => NoResult(q)
<1> DEFINE one == <<e>>
<1>1. one \in Seq(S) /\ Len(one) = 1 /\ one[1] = e /\ Append(q, e) = q \o one
      /\ \A i \in 1..Len(one) : i = 1 /\ one[i] = e
  OBVIOUS
<1> HIDE DEF one
<1>2. CASE e.topic = "result"
  <2>1. \A i \in 1..Len(one) : i # 1 => one[i].topic # "result"
    BY <1>1
  <2>2. Len(one) >= 1 /\ one[1].topic = "result"
    BY <1>1, <1>2
  <2> QED
    BY <1>1, <1>2, <2>1, <2>2, ResultJoins
<1>3. CASE e.topic # "result"
  <2>1. NoResult(one)
    BY <1>1, <1>3 DEF NoResult
  <2> QED
    BY <1>1, <1>3, <2>1, NoResultJoins
<1> QED
  BY <1>2, <1>3

-----------------------------------------------------------------------------
(* The store *)

\* What is assumed of the constants, one by one.
LEMMA AlarmBounds ==
  /\ Hold \in Nat /\ Period \in Nat /\ Period # 0 /\ StaleAfter \in Nat
  /\ Limit \in Nat /\ Limit # 0 /\ QueueMax \in Nat /\ QueueMax # 0
  /\ MaxAlarms \in Nat /\ MaxPosted \in Nat /\ MaxSockets \in Nat /\ MaxCommands \in Nat
BY AlarmsAssumption

\* A function of indices is a sequence.
LEMMA IndexedIs ==
  ASSUME NEW S, NEW m \in Nat, NEW s \in [1..m -> S]
  PROVE  s \in Seq(S) /\ Len(s) = m
BY SeqDef

Changes == {"init", "not_critical", "acknowledge", "silence", "user_message"}

\* An event changes a record's status, and never its alarm.
LEMMA Changed ==
  ASSUME NEW a \in AlarmRecord, NEW type \in Changes
  PROVE  /\ Transition(a, type) \in AlarmRecord
         /\ Transition(a, type).id = a.id
         /\ a.ended => Transition(a, type).ended
         /\ type # "not_critical" => Transition(a, type).ended = a.ended
         /\ type = "not_critical" => Transition(a, type).ended
         /\ type # "init" /\ a.status # "unseen" => Transition(a, type).status # "unseen"
<1>1. a = [id |-> a.id, ended |-> a.ended, status |-> a.status]
      /\ a.id \in 1..MaxAlarms /\ a.ended \in BOOLEAN
  BY DEF AlarmRecord
<1>2. type = "init" => Transition(a, type) = [id |-> a.id, ended |-> a.ended, status |-> "unseen"]
  BY <1>1 DEF Transition
<1>3. type = "not_critical" =>
        Transition(a, type) = [id |-> a.id, ended |-> TRUE, status |-> "not_critical"]
  BY <1>1 DEF Transition
<1>4. type = "acknowledge" =>
        Transition(a, type) = [id |-> a.id, ended |-> a.ended, status |-> "acknowledged"]
  BY <1>1 DEF Transition
<1>5. type = "silence" =>
        Transition(a, type) = [id |-> a.id, ended |-> a.ended, status |-> "silenced"]
  BY <1>1 DEF Transition
<1>6. type = "user_message" => Transition(a, type) = a
  BY DEF Transition
<1>7. CASE type = "init"
  BY <1>1, <1>2, <1>7 DEF AlarmRecord
<1>8. CASE type = "not_critical"
  <2> DEFINE r == [id |-> a.id, ended |-> TRUE, status |-> "not_critical"]
  <2>1. r \in AlarmRecord /\ r.id = a.id /\ r.ended = TRUE /\ r.status # "unseen"
    BY <1>1 DEF AlarmRecord
  <2>2. Transition(a, type) = r
    BY <1>3, <1>8
  <2> HIDE DEF r
  <2> QED
    BY <2>1, <2>2, <1>8
<1>9. CASE type = "acknowledge"
  BY <1>1, <1>4, <1>9 DEF AlarmRecord
<1>10. CASE type = "silence"
  BY <1>1, <1>5, <1>10 DEF AlarmRecord
<1>11. CASE type = "user_message"
  BY <1>1, <1>6, <1>11
<1> QED
  BY <1>7, <1>8, <1>9, <1>10, <1>11 DEF Changes

\* An event of a known alarm changes its record in its place.
LEMMA HandlesKnown ==
  ASSUME NEW s \in Seq(AlarmRecord), NEW id, NEW type \in Changes, Known(s, id)
  PROVE  /\ Handle(s, id, type) \in Seq(AlarmRecord)
         /\ Len(Handle(s, id, type)) = Len(s)
         /\ \A j \in 1..Len(s) : Handle(s, id, type)[j] =
              IF s[j].id = id THEN Transition(s[j], type) ELSE s[j]
<1> DEFINE t == [j \in 1..Len(s) |-> IF s[j].id = id THEN Transition(s[j], type) ELSE s[j]]
<1>1. Len(s) \in Nat /\ DOMAIN s = 1..Len(s) /\ \A j \in 1..Len(s) : s[j] \in AlarmRecord
  BY ElementOf
<1>2. Handle(s, id, type) = t
  BY <1>1 DEF Handle
<1>3. t \in [1..Len(s) -> AlarmRecord]
  BY <1>1, Changed
<1>4. \A j \in 1..Len(s) : t[j] = IF s[j].id = id THEN Transition(s[j], type) ELSE s[j]
  OBVIOUS
<1> HIDE DEF t
<1> QED
  BY <1>1, <1>2, <1>3, <1>4, IndexedIs

\* An event of an alarm that is not known opens it, behind those that are kept.
LEMMA HandlesNew ==
  ASSUME NEW s \in Seq(AlarmRecord), Len(s) <= Limit, NEW id \in 1..MaxAlarms,
         NEW type \in Changes, ~Known(s, id)
  PROVE  \E d \in {0, 1} :
           /\ Handle(s, id, type) \in Seq(AlarmRecord)
           /\ Len(Handle(s, id, type)) = Len(s) + 1 - d
           /\ Len(Handle(s, id, type)) \in 1..Limit
           /\ \A j \in 1..(Len(s) - d) :
                j + d \in 1..Len(s) /\ Handle(s, id, type)[j] = s[j + d]
           /\ Handle(s, id, type)[Len(s) + 1 - d] =
                Transition([id |-> id, status |-> "unseen", ended |-> FALSE], type)
<1> DEFINE new == [id |-> id, status |-> "unseen", ended |-> FALSE]
           u == Append(s, new)
           n == Len(s)
           d == IF n + 1 > Limit THEN 1 ELSE 0
           o == Keep(u)
           t == Handle(s, id, type)
<1>1. n \in Nat /\ \A j \in 1..n : s[j] \in AlarmRecord /\ s[j].id # id
  BY ElementOf DEF Known
<1>2. new \in AlarmRecord /\ new.id = id
  BY DEF AlarmRecord
<1>3. u \in Seq(AlarmRecord) /\ Len(u) = n + 1 /\ (\A j \in 1..n : u[j] = s[j]) /\ u[n + 1] = new
  BY <1>2
<1>4. t = [j \in DOMAIN o |-> IF o[j].id = id THEN Transition(o[j], type) ELSE o[j]]
  BY DEF Handle
<1> HIDE DEF new, u, t
<1>5. d \in {0, 1} /\ n + 1 - d \in 1..Limit /\ d <= n
  BY <1>1, AlarmBounds
<1>6. o = SubSeq(u, 1 + d, n + 1)
  <2>1. n + 1 > Limit => n = Limit
    BY <1>1, AlarmBounds
  <2>2. n + 1 > Limit => o = SubSeq(u, 2, n + 1)
    <3>1. n + 1 > Limit => (n + 1) - Limit + 1 = 2
      BY <1>1, <2>1, AlarmBounds
    <3>2. n + 1 > Limit => o = SubSeq(u, (n + 1) - Limit + 1, n + 1)
      BY <1>3 DEF Keep
    <3> QED
      BY <3>1, <3>2
  <2>3. ~(n + 1 > Limit) => o = SubSeq(u, 1, n + 1)
    BY <1>3 DEF Keep
  <2> QED
    BY <2>2, <2>3
<1> HIDE DEF o, d
<1>7. /\ o \in Seq(AlarmRecord) /\ Len(o) = n + 1 - d
      /\ \A j \in 1..(n + 1 - d) : j + d \in 1..(n + 1) /\ o[j] = u[j + d]
  BY <1>1, <1>3, <1>5, <1>6
<1>8. \A j \in 1..(n - d) : j + d \in 1..n /\ j \in 1..(n + 1 - d) /\ o[j] = s[j + d]
  BY <1>1, <1>3, <1>5, <1>7
<1>9. n + 1 - d \in 1..(n + 1 - d) /\ o[n + 1 - d] = new
  BY <1>1, <1>3, <1>5, <1>7
<1>10. \A j \in 1..(n + 1 - d) : o[j] \in AlarmRecord
  BY <1>7
<1>11. t \in [1..(n + 1 - d) -> AlarmRecord] /\ n + 1 - d \in Nat
  BY <1>4, <1>5, <1>7, <1>10, Changed
<1>12. t \in Seq(AlarmRecord) /\ Len(t) = n + 1 - d
  BY <1>11, IndexedIs
<1>13. \A j \in 1..(n - d) : t[j] = s[j + d]
  BY <1>1, <1>4, <1>7, <1>8
<1>14. t[n + 1 - d] = Transition(new, type)
  BY <1>2, <1>4, <1>7, <1>9
<1> QED
  BY <1>5, <1>8, <1>12, <1>13, <1>14 DEF new, t

-----------------------------------------------------------------------------
(* One frame of the application's thread *)

\* The handler opens the next alarm, ends the one it holds, or does neither.
LEMMA HandlerMoves ==
  ASSUME ThreadTyped, HandlerInv, Handler(app).issued <= MaxAlarms
  PROVE  LET b == Handler(app)
         IN  /\ b \in AppType /\ b.status = app.status /\ b.due = app.due
             /\ app.status = "Emergency" => b.id # 0
             /\ b.id # 0 => b.id = b.issued
             /\ \/ b.id = app.id /\ b.issued = app.issued
                \/ app.id = 0 /\ b.id = app.issued + 1 /\ b.issued = app.issued + 1
                \/ app.id # 0 /\ b.id = 0 /\ b.issued = app.issued
<1> DEFINE b == Handler(app)
<1>1. app = [pc |-> app.pc, id |-> app.id, status |-> app.status, issued |-> app.issued,
             quiet |-> app.quiet, due |-> app.due]
  BY DEF ThreadTyped, AppType
<1>2. /\ app.pc \in {"run", "report", "alarm", "dead", "done"} /\ app.id \in 0..MaxAlarms
      /\ app.status \in {"Undefined", "OK", "Emergency"} /\ app.issued \in 0..MaxAlarms
      /\ app.quiet \in 0..(Hold + 1) /\ app.due \in 0..Period
  BY DEF ThreadTyped, AppType
<1>3. Later(app.quiet) \in 0..(Hold + 1) /\ 0 \in 0..(Hold + 1) /\ 0 \in 0..MaxAlarms
  BY <1>2, AlarmBounds DEF Later
<1>4. app.id # 0 => app.id = app.issued
  BY DEF HandlerInv
<1>5. CASE app.status = "Emergency" /\ app.id # 0
  <2>1. b = [pc |-> app.pc, id |-> app.id, status |-> app.status, issued |-> app.issued,
             quiet |-> 0, due |-> app.due]
    BY <1>1, <1>5 DEF Handler
  <2> HIDE DEF b
  <2> QED
    BY <2>1, <1>2, <1>3, <1>4, <1>5 DEF AppType, b
<1>6. CASE app.status = "Emergency" /\ app.id = 0
  <2>1. b = [pc |-> app.pc, id |-> app.issued + 1, status |-> app.status,
             issued |-> app.issued + 1, quiet |-> 0, due |-> app.due]
    BY <1>1, <1>6 DEF Handler
  <2> HIDE DEF b
  <2>2. app.issued + 1 \in 0..MaxAlarms /\ app.issued + 1 # 0
    BY <2>1, <1>2, AlarmBounds DEF b
  <2> QED
    BY <2>1, <2>2, <1>2, <1>3, <1>6 DEF AppType, b
<1>7. CASE app.status # "Emergency" /\ app.id # 0 /\ Later(app.quiet) > Hold
  <2>1. b = [pc |-> app.pc, id |-> 0, status |-> app.status, issued |-> app.issued,
             quiet |-> Later(app.quiet), due |-> app.due]
    BY <1>1, <1>7 DEF Handler
  <2> HIDE DEF b
  <2> QED
    BY <2>1, <1>2, <1>3, <1>7 DEF AppType, b
<1>8. CASE app.status # "Emergency" /\ ~(app.id # 0 /\ Later(app.quiet) > Hold)
  <2>1. b = [pc |-> app.pc, id |-> app.id, status |-> app.status, issued |-> app.issued,
             quiet |-> Later(app.quiet), due |-> app.due]
    BY <1>1, <1>8 DEF Handler
  <2> HIDE DEF b
  <2> QED
    BY <2>1, <1>2, <1>3, <1>4, <1>8 DEF AppType, b
<1> QED
  BY <1>5, <1>6, <1>7, <1>8

\* A step of the thread that publishes ms: at most one result, of the status it
\* leaves, and at most one event, the next of the alarms.
Publishes(ms) ==
  /\ posted' = IF hub = "stopped" THEN posted ELSE posted \o ms
  /\ Len(posted) + Len(ms) <= MaxPosted
  /\ app' \in AppType
  /\ app'.id # 0 => app'.id = app'.issued
  /\ app'.status = "Emergency" => app'.id # 0 \/ app'.pc \in {"report", "alarm", "dead"}
  /\ \/ EventsSent' = EventsSent /\ \A i \in 1..Len(ms) : ms[i].topic # "alarms"
     \/ /\ EventsSent' = EventsSent + 1 /\ Len(ms) >= 1
        /\ \A i \in 1..Len(ms) : ms[i].topic = "alarms" <=> i = Len(ms)
        /\ EventNumber(ms[Len(ms)]) = EventsSent + 1
  /\ \/ NoResult(ms) /\ app'.status = app.status
     \/ /\ Len(ms) >= 1 /\ ms[1].topic = "result"
        /\ ms[1].grid = "split" => app'.status = "Emergency"
        /\ \A i \in 1..Len(ms) : i # 1 => ms[i].topic # "result"

\* A sequence of one message.
LEMMA OneMessage ==
  ASSUME NEW m \in Messages
  PROVE  <<m>> \in Seq(Messages) /\ Len(<<m>>) = 1 /\ \A i \in 1..Len(<<m>>) : i = 1 /\ <<m>>[i] = m
OBVIOUS

\* A frame that is read publishes its result, when it has one, and that alone.
LEMMA ReadPublishes ==
  ASSUME ThreadTyped, HandlerInv, NEW res \in Grid \cup {"none"}, ReadFrame(res)
  PROVE  \E ms \in Seq(Messages) : Publishes(ms)
<1> DEFINE status == NewStatus(res)
           ms == IF res = "none" THEN <<>> ELSE <<Result(res)>>
<1>1. /\ app = [pc |-> app.pc, id |-> app.id, status |-> app.status, issued |-> app.issued,
                quiet |-> app.quiet, due |-> app.due]
      /\ app.id \in 0..MaxAlarms /\ app.status \in {"Undefined", "OK", "Emergency"}
      /\ app.issued \in 0..MaxAlarms /\ app.quiet \in 0..(Hold + 1) /\ app.due \in 0..Period
      /\ app.id # 0 => app.id = app.issued
  BY DEF ThreadTyped, AppType, HandlerInv
<1>2. /\ status \in {"Undefined", "OK", "Emergency"}
      /\ res = "none" => status = app.status
      /\ res = "split" => status = "Emergency"
  BY <1>1 DEF NewStatus, Grid
<1>3. posted' = (IF hub = "stopped" THEN posted ELSE posted \o ms)
      /\ Len(posted) + Len(ms) <= MaxPosted
  BY DEF ReadFrame, Post
<1>4. app' = [app EXCEPT !.pc = "report", !.status = status]
  BY DEF ReadFrame
<1> HIDE DEF status
<1>5. app' = [pc |-> "report", id |-> app.id, status |-> status, issued |-> app.issued,
              quiet |-> app.quiet, due |-> app.due]
  BY <1>1, <1>4
<1>6. /\ app' \in AppType /\ app'.pc = "report" /\ app'.status = status
      /\ app'.id = app.id /\ app'.issued = app.issued
  BY <1>1, <1>2, <1>5 DEF AppType
<1>7. EventsSent' = EventsSent
  BY <1>6 DEF EventsSent
<1>8. /\ ms \in Seq(Messages)
      /\ \A i \in 1..Len(ms) : ms[i].topic # "alarms"
      /\ \/ NoResult(ms) /\ app'.status = app.status
         \/ /\ Len(ms) >= 1 /\ ms[1].topic = "result"
            /\ ms[1].grid = "split" => app'.status = "Emergency"
            /\ \A i \in 1..Len(ms) : i # 1 => ms[i].topic # "result"
  <2>1. CASE res = "none"
    <3>1. ms = <<>> /\ <<>> \in Seq(Messages) /\ \A i \in 1..Len(<<>>) : FALSE
      BY <2>1
    <3> QED
      BY <3>1, <2>1, <1>2, <1>6 DEF NoResult
  <2>2. CASE res # "none"
    <3>1. Result(res) \in Messages /\ Result(res).topic = "result" /\ Result(res).grid = res
      BY <2>2 DEF Messages, Result
    <3>2. ms = <<Result(res)>>
      BY <2>2
    <3>3. /\ ms \in Seq(Messages) /\ Len(ms) = 1
          /\ \A i \in 1..Len(ms) : i = 1 /\ ms[i] = Result(res)
      BY <3>1, <3>2, OneMessage
    <3> HIDE DEF ms
    <3>4. 1 \in 1..Len(ms)
      BY <3>3
    <3> QED
      BY <3>1, <3>3, <3>4, <1>2, <1>6
  <2> QED
    BY <2>1, <2>2
<1> HIDE DEF ms
<1>9. Publishes(ms)
  BY <1>1, <1>3, <1>6, <1>7, <1>8 DEF Publishes
<1> QED
  BY <1>8, <1>9

\* The first callback publishes a status report, or nothing.
LEMMA ReportPublishes ==
  ASSUME ThreadTyped, HandlerInv, ReportStatus
  PROVE  \E ms \in Seq(Messages) : Publishes(ms)
<1> DEFINE ms == IF app.due = 0 THEN <<Status>> ELSE <<>>
<1>1. /\ app = [pc |-> app.pc, id |-> app.id, status |-> app.status, issued |-> app.issued,
                quiet |-> app.quiet, due |-> app.due]
      /\ app.id \in 0..MaxAlarms /\ app.status \in {"Undefined", "OK", "Emergency"}
      /\ app.issued \in 0..MaxAlarms /\ app.quiet \in 0..(Hold + 1) /\ app.due \in 0..Period
      /\ app.id # 0 => app.id = app.issued
  BY DEF ThreadTyped, AppType, HandlerInv
<1>2. posted' = (IF hub = "stopped" THEN posted ELSE posted \o ms)
      /\ Len(posted) + Len(ms) <= MaxPosted
  BY DEF ReportStatus, Post
<1>3. app' = [pc |-> "alarm", id |-> app.id, status |-> app.status, issued |-> app.issued,
              quiet |-> app.quiet, due |-> NextReport(app.due)]
  BY <1>1 DEF ReportStatus
<1>4. NextReport(app.due) \in 0..Period
  BY <1>1, AlarmBounds DEF NextReport
<1>5. /\ app' \in AppType /\ app'.pc = "alarm" /\ app'.status = app.status
      /\ app'.id = app.id /\ app'.issued = app.issued
  BY <1>1, <1>3, <1>4 DEF AppType
<1>6. EventsSent' = EventsSent
  BY <1>5 DEF EventsSent
<1>7. ms \in Seq(Messages) /\ NoResult(ms) /\ \A i \in 1..Len(ms) : ms[i].topic # "alarms"
  <2>1. CASE app.due # 0
    <3>1. ms = <<>> /\ <<>> \in Seq(Messages) /\ \A i \in 1..Len(<<>>) : FALSE
      BY <2>1
    <3> QED
      BY <3>1 DEF NoResult
  <2>2. CASE app.due = 0
    <3>1. Status \in Messages /\ Status.topic = "status"
      BY DEF Messages, Status
    <3>2. ms = <<Status>>
      BY <2>2
    <3>3. ms \in Seq(Messages) /\ \A i \in 1..Len(ms) : ms[i] = Status
      BY <3>1, <3>2, OneMessage
    <3> QED
      BY <3>1, <3>3 DEF NoResult
  <2> QED
    BY <2>1, <2>2
<1> HIDE DEF ms
<1>8. Publishes(ms)
  BY <1>1, <1>2, <1>5, <1>6, <1>7 DEF Publishes
<1> QED
  BY <1>7, <1>8

\* The second publishes the next event of the alarms, or nothing; after it an
\* emergency has an alarm.
LEMMA AlarmPublishes ==
  ASSUME ThreadTyped, HandlerInv, RaiseAlarm
  PROVE  \E ms \in Seq(Messages) : Publishes(ms)
<1> DEFINE b == Handler(app)
           c == HandlerEvents(app, b)
<1>1. /\ posted' = (IF hub = "stopped" THEN posted ELSE posted \o c)
      /\ Len(posted) + Len(c) <= MaxPosted /\ b.issued <= MaxAlarms
      /\ app' = [b EXCEPT !.pc = "run"]
  BY DEF RaiseAlarm, Post
<1>2. /\ b \in AppType /\ b.status = app.status /\ b.due = app.due
      /\ app.status = "Emergency" => b.id # 0
      /\ b.id # 0 => b.id = b.issued
      /\ \/ b.id = app.id /\ b.issued = app.issued
         \/ app.id = 0 /\ b.id = app.issued + 1 /\ b.issued = app.issued + 1
         \/ app.id # 0 /\ b.id = 0 /\ b.issued = app.issued
  BY <1>1, HandlerMoves
<1> HIDE DEF b
<1>3. b.id \in 0..MaxAlarms /\ b.issued \in 0..MaxAlarms /\ app.id \in 0..MaxAlarms
      /\ app.issued \in 0..MaxAlarms /\ MaxAlarms \in Nat
  BY <1>2, AlarmBounds DEF ThreadTyped, AppType
<1>4. /\ app' \in AppType /\ app'.status = app.status
      /\ app'.id = b.id /\ app'.issued = b.issued
  <2>1. b = [pc |-> b.pc, id |-> b.id, status |-> b.status, issued |-> b.issued,
             quiet |-> b.quiet, due |-> b.due]
    BY <1>2 DEF AppType
  <2>2. app' = [pc |-> "run", id |-> b.id, status |-> b.status, issued |-> b.issued,
                quiet |-> b.quiet, due |-> b.due]
    BY <1>1, <2>1
  <2> QED
    BY <2>2, <1>2 DEF AppType
<1>5. app'.id # 0 => app'.id = app'.issued
  BY <1>2, <1>4
<1>6. app'.status = "Emergency" => app'.id # 0
  BY <1>2, <1>4
<1>7. EventsSent' = 2 * b.issued - (IF b.id # 0 THEN 1 ELSE 0)
  BY <1>4 DEF EventsSent
<1>8. \/ c = <<>> /\ EventsSent' = EventsSent
      \/ \E m \in Messages : /\ c = <<m>> /\ m.topic = "alarms"
                             /\ EventNumber(m) = EventsSent + 1 /\ EventsSent' = EventsSent + 1
  <2>1. CASE b.id = app.id /\ b.issued = app.issued
    BY <2>1, <1>7 DEF HandlerEvents, EventsSent
  <2>2. CASE app.id = 0 /\ b.id = app.issued + 1 /\ b.issued = app.issued + 1
    <3> DEFINE m == AlarmEvent(b.id, "init")
    <3>1. b.id \in 1..MaxAlarms /\ b.id # app.id
      BY <2>2, <1>3
    <3>2. c = <<m>>
      BY <2>2, <3>1 DEF HandlerEvents
    <3>3. m \in Messages /\ m.topic = "alarms" /\ m.id = b.id /\ m.type = "init"
      BY <3>1 DEF Messages, AlarmEvent
    <3> HIDE DEF m
    <3>4. EventNumber(m) = 2 * b.id - 1
      BY <3>3 DEF EventNumber
    <3>5. EventsSent = 2 * app.issued
      BY <2>2, <1>3 DEF EventsSent
    <3>6. EventsSent' = 2 * (app.issued + 1) - 1
      BY <2>2, <1>7, <3>1
    <3> HIDE DEF c
    <3>7. EventNumber(m) = EventsSent + 1 /\ EventsSent' = EventsSent + 1
      BY <2>2, <3>4, <3>5, <3>6, <1>3
    <3> QED
      BY <3>2, <3>3, <3>7
  <2>3. CASE app.id # 0 /\ b.id = 0 /\ b.issued = app.issued
    <3> DEFINE m == AlarmEvent(app.id, "not_critical")
    <3>1. app.id \in 1..MaxAlarms /\ b.id # app.id /\ app.id = app.issued
      BY <2>3, <1>3 DEF HandlerInv
    <3>2. c = <<m>>
      BY <2>3, <3>1 DEF HandlerEvents
    <3>3. m \in Messages /\ m.topic = "alarms" /\ m.id = app.id /\ m.type = "not_critical"
      BY <3>1 DEF Messages, AlarmEvent
    <3> HIDE DEF m
    <3>4. EventNumber(m) = 2 * app.id
      BY <3>3 DEF EventNumber
    <3>5. EventsSent = 2 * app.issued - 1
      BY <2>3, <1>3 DEF EventsSent
    <3>6. EventsSent' = 2 * app.issued
      BY <2>3, <1>7, <1>3
    <3> HIDE DEF c
    <3>7. EventNumber(m) = EventsSent + 1 /\ EventsSent' = EventsSent + 1
      BY <3>1, <3>4, <3>5, <3>6, <1>3
    <3> QED
      BY <3>2, <3>3, <3>7
  <2> QED
    BY <2>1, <2>2, <2>3, <1>2
<1> HIDE DEF c
<1>9. CASE c = <<>> /\ EventsSent' = EventsSent
  <2>1. <<>> \in Seq(Messages) /\ \A i \in 1..Len(<<>>) : FALSE
    OBVIOUS
  <2>2. c \in Seq(Messages) /\ NoResult(c) /\ \A i \in 1..Len(c) : c[i].topic # "alarms"
    BY <1>9, <2>1 DEF NoResult
  <2> QED
    BY <1>1, <1>4, <1>5, <1>6, <1>9, <2>2 DEF Publishes
<1>10. ASSUME NEW m \in Messages, c = <<m>>, m.topic = "alarms",
              EventNumber(m) = EventsSent + 1, EventsSent' = EventsSent + 1
       PROVE  \E ms \in Seq(Messages) : Publishes(ms)
  <2>1. c \in Seq(Messages) /\ Len(c) = 1 /\ \A i \in 1..Len(c) : i = 1 /\ c[i] = m
    BY <1>10, OneMessage
  <2>2. c[1] = m
    BY <2>1
  <2>3. NoResult(c)
    BY <1>10, <2>1 DEF NoResult
  <2>4. /\ Len(c) >= 1 /\ EventNumber(c[Len(c)]) = EventsSent + 1
        /\ \A i \in 1..Len(c) : c[i].topic = "alarms" <=> i = Len(c)
    BY <1>10, <2>1, <2>2
  <2> QED
    BY <1>1, <1>4, <1>5, <1>6, <1>10, <2>1, <2>3, <2>4 DEF Publishes
<1> QED
  BY <1>8, <1>9, <1>10

\* So does every step of the thread.
LEMMA FrameMoves ==
  ASSUME ThreadTyped, HandlerInv, AppFrame
  PROVE  \E ms \in Seq(Messages) : Publishes(ms)
BY ReadPublishes, ReportPublishes, AlarmPublishes DEF AppFrame

\* It changes nothing but the thread and what is on its way.
LEMMA FrameKeeps ==
  ASSUME AppFrame
  PROVE  /\ hub' = hub /\ alarms' = alarms /\ islands' = islands /\ row' = row
         /\ page' = page /\ view' = view /\ ops' = ops
BY DEF AppFrame, ReadFrame, ReportStatus, RaiseAlarm, storeVars, pageVars

-----------------------------------------------------------------------------
(* What an event does to the store *)

\* No record of s has gone back in t.
Forward(s, t) ==
  \A j \in 1..Len(s), k \in 1..Len(t) :
    s[j].id = t[k].id => /\ s[j].status # "unseen" => t[k].status # "unseen"
                         /\ s[j].ended => t[k].ended

\* The records of a store.
LEMMA RecordIs ==
  ASSUME NEW s \in Seq(AlarmRecord)
  PROVE  /\ Len(s) \in Nat /\ DOMAIN s = 1..Len(s)
         /\ s = <<>> <=> Len(s) = 0
         /\ \A j \in 1..Len(s) : /\ s[j] \in AlarmRecord /\ s[j].id \in Nat /\ s[j].id # 0
                                 /\ s[j].ended \in BOOLEAN
<1>1. Len(s) \in Nat /\ DOMAIN s = 1..Len(s) /\ (s = <<>> <=> Len(s) = 0)
  OBVIOUS
<1>2. \A j \in 1..Len(s) : s[j] \in AlarmRecord
  BY ElementOf
<1>3. \A a \in AlarmRecord : a.id \in 1..MaxAlarms /\ a.ended \in BOOLEAN
  BY DEF AlarmRecord
<1>4. \A i \in 1..MaxAlarms : i \in Nat /\ i # 0
  BY AlarmBounds
<1> QED
  BY <1>1, <1>2, <1>3, <1>4

\* The records of a chained store are of different alarms.
LEMMA ChainedApart ==
  ASSUME NEW s \in Seq(AlarmRecord), Chained(s)
  PROVE  /\ \A j, k \in 1..Len(s) : s[j].id = s[k].id => j = k
         /\ \A j \in 1..Len(s) : s[j].id <= s[Len(s)].id
<1>1. Len(s) \in Nat /\ \A j \in 1..Len(s) : s[j].id \in Nat
  BY RecordIs
<1>2. \A j \in 1..Len(s) : s[j].id = s[Len(s)].id - (Len(s) - j)
  BY DEF Chained
<1>3. Len(s) >= 1 => s[Len(s)].id \in Nat
  BY <1>1
<1> QED
  BY <1>1, <1>2, <1>3, SMTT(30)

\* What a store has taken, by its newest alarm.
LEMMA TakenIs ==
  ASSUME NEW s \in Seq(AlarmRecord)
  PROVE  /\ Taken(s) \in Nat
         /\ s # <<>> => /\ Len(s) \in 1..Len(s)
                        /\ s[Len(s)].ended => Taken(s) = 2 * s[Len(s)].id
                        /\ ~s[Len(s)].ended => Taken(s) = 2 * s[Len(s)].id - 1
         /\ s = <<>> => Taken(s) = 0
<1>1. CASE s = <<>>
  BY <1>1 DEF Taken
<1>2. CASE s # <<>>
  <2>1. Len(s) \in 1..Len(s)
    BY <1>2, RecordIs
  <2>2. s[Len(s)].id \in Nat /\ s[Len(s)].id # 0
    BY <2>1, RecordIs
  <2>3. CASE s[Len(s)].ended
    BY <1>2, <2>1, <2>2, <2>3 DEF Taken
  <2>4. CASE ~s[Len(s)].ended
    BY <1>2, <2>1, <2>2, <2>4 DEF Taken
  <2> QED
    BY <2>3, <2>4
<1> QED
  BY <1>1, <1>2

\* An event of a known alarm that does not open it.
LEMMA KnownKeeps ==
  ASSUME NEW s \in Seq(AlarmRecord), Chained(s), NEW id, NEW type \in Changes, type # "init",
         Known(s, id)
  PROVE  LET t == Handle(s, id, type)
         IN  /\ t \in Seq(AlarmRecord) /\ Len(t) = Len(s)
             /\ Chained(t) /\ Forward(s, t)
             /\ type # "not_critical" => Taken(t) = Taken(s)
             /\ type = "not_critical" /\ id = s[Len(s)].id => Taken(t) = 2 * id
<1> DEFINE t == Handle(s, id, type)
           n == Len(s)
<1>1. /\ t \in Seq(AlarmRecord) /\ Len(t) = n
      /\ \A j \in 1..n : t[j] = IF s[j].id = id THEN Transition(s[j], type) ELSE s[j]
  BY HandlesKnown
<1> HIDE DEF t
<1>2. n \in Nat /\ n >= 1 /\ n \in 1..n
  BY RecordIs DEF Known
<1>3. \A j \in 1..n : s[j] \in AlarmRecord
  BY RecordIs
<1>4. \A j \in 1..n : t[j].id = s[j].id
  BY <1>1, <1>3, Changed
<1>5. \A j \in 1..n : s[j].ended => t[j].ended
  BY <1>1, <1>3, Changed
<1>6. \A j \in 1..n : s[j].status # "unseen" => t[j].status # "unseen"
  BY <1>1, <1>3, Changed
<1>7. Chained(t)
  BY <1>1, <1>2, <1>4, <1>5 DEF Chained
<1>8. Forward(s, t)
  <2>1. \A j, k \in 1..n : s[j].id = t[k].id => j = k
    BY <1>4, ChainedApart
  <2> QED
    BY <2>1, <1>1, <1>5, <1>6 DEF Forward
<1>9. s # <<>> /\ t # <<>>
  BY <1>1, <1>2
<1>10. ASSUME type # "not_critical"
       PROVE  Taken(t) = Taken(s)
  <2>1. t[n].ended = s[n].ended /\ t[n].id = s[n].id
    BY <1>1, <1>2, <1>3, <1>10, Changed
  <2> QED
    BY <2>1, <1>1, <1>9 DEF Taken
<1>11. ASSUME type = "not_critical", id = s[n].id
       PROVE  Taken(t) = 2 * id
  <2>1. t[n].ended /\ t[n].id = id
    BY <1>1, <1>2, <1>3, <1>11, Changed
  <2> QED
    BY <2>1, <1>1, <1>9, TakenIs
<1> QED
  BY <1>1, <1>7, <1>8, <1>10, <1>11 DEF t

\* The event that opens the next alarm.
LEMMA OpeningKeeps ==
  ASSUME NEW s \in Seq(AlarmRecord), Chained(s), Len(s) <= Limit, NEW id \in 1..MaxAlarms,
         2 * id - 1 = Taken(s) + 1
  PROVE  LET t == Handle(s, id, "init")
         IN  /\ t \in Seq(AlarmRecord) /\ Len(t) <= Limit
             /\ Chained(t) /\ Forward(s, t) /\ Taken(t) = 2 * id - 1
<1> DEFINE t == Handle(s, id, "init")
           n == Len(s)
           new == Transition([id |-> id, status |-> "unseen", ended |-> FALSE], "init")
<1>1. /\ n \in Nat /\ \A j \in 1..n : s[j].id \in Nat /\ s[j].ended \in BOOLEAN
  BY RecordIs
<1>2. id \in Nat /\ id # 0
  BY AlarmBounds
<1>3. n >= 1 => s[n].id = id - 1 /\ s[n].ended
  <2> SUFFICES ASSUME n >= 1 PROVE s[n].id = id - 1 /\ s[n].ended
    OBVIOUS
  <2>1. s # <<>> /\ n \in 1..n /\ s[n].id \in Nat
    BY <1>1, RecordIs
  <2>2. CASE s[n].ended
    <3>1. 2 * id - 1 = 2 * s[n].id + 1
      BY <2>1, <2>2, TakenIs
    <3>2. \A a, b \in Nat : 2 * a - 1 = 2 * b + 1 => b = a - 1
      OBVIOUS
    <3> QED
      BY <3>1, <3>2, <2>1, <2>2, <1>2
  <2>3. CASE ~s[n].ended
    <3>1. 2 * id - 1 = 2 * s[n].id
      BY <2>1, <2>3, TakenIs
    <3>2. \A a, b \in Nat : 2 * a - 1 # 2 * b
      OBVIOUS
    <3> QED
      BY <3>1, <3>2, <2>1, <1>2
  <2> QED
    BY <2>2, <2>3
<1>4. n = 0 => id = 1
  <2>1. n = 0 => Taken(s) = 0
    BY RecordIs, TakenIs
  <2> QED
    BY <2>1, <1>2
<1>5. \A j \in 1..n : s[j].id < id
  <2> SUFFICES ASSUME NEW j \in 1..n PROVE s[j].id < id
    OBVIOUS
  <2>1. n >= 1 /\ s[j].id <= s[n].id
    BY <1>1, ChainedApart
  <2> QED
    BY <2>1, <1>1, <1>2, <1>3
<1>6. ~Known(s, id)
  BY <1>1, <1>2, <1>5, RecordIs DEF Known
<1>7. PICK d \in {0, 1} :
        /\ t \in Seq(AlarmRecord) /\ Len(t) = n + 1 - d /\ Len(t) \in 1..Limit
        /\ \A j \in 1..(n - d) : j + d \in 1..n /\ t[j] = s[j + d]
        /\ t[n + 1 - d] = new
  BY <1>6, HandlesNew DEF Changes
<1> HIDE DEF t
<1>8. new = [id |-> id, status |-> "unseen", ended |-> FALSE]
  BY DEF Transition
<1>9. new.id = id /\ new.ended = FALSE
  BY <1>8
<1> HIDE DEF new
<1>10. \A j \in 1..Len(t) : j = Len(t) \/ (j \in 1..(n - d) /\ j + d \in 1..n)
  BY <1>1, <1>7
<1>11. \A j \in 1..(n - d) : s[j + d].ended
  <2> SUFFICES ASSUME NEW j \in 1..(n - d) PROVE s[j + d].ended
    OBVIOUS
  <2>1. j + d \in 1..n /\ n >= 1
    BY <1>1, <1>7
  <2>2. CASE j + d = n
    BY <2>1, <2>2, <1>3
  <2>3. CASE j + d # n
    <3>1. j + d < n
      BY <2>1, <2>3, <1>1
    <3> QED
      BY <2>1, <3>1 DEF Chained
  <2> QED
    BY <2>2, <2>3
<1>12. \A j \in 1..Len(t) : t[j].id = t[Len(t)].id - (Len(t) - j)
  <2> SUFFICES ASSUME NEW j \in 1..Len(t) PROVE t[j].id = t[Len(t)].id - (Len(t) - j)
    OBVIOUS
  <2>1. t[Len(t)].id = id
    BY <1>7, <1>9
  <2>2. CASE j = Len(t)
    BY <2>1, <2>2, <1>2, <1>7
  <2>3. CASE j \in 1..(n - d) /\ j + d \in 1..n
    <3>1. t[j].id = s[j + d].id
      BY <2>3, <1>7
    <3>2. s[j + d].id = s[n].id - (n - (j + d))
      BY <2>3 DEF Chained
    <3>3. n >= 1
      BY <2>3, <1>1
    <3>4. s[j + d].id = (id - 1) - (n - (j + d))
      BY <3>2, <3>3, <1>3
    <3>5. Len(t) = n + 1 - d
      BY <1>7
    <3>6. (id - 1) - (n - (j + d)) = id - ((n + 1 - d) - j)
      BY <1>1, <1>2
    <3> QED
      BY <3>1, <3>4, <3>5, <3>6, <2>1
  <2> QED
    BY <2>2, <2>3, <1>10
<1>13. Chained(t)
  <2>1. \A j \in 1..Len(t) : j < Len(t) => t[j].ended
    BY <1>7, <1>10, <1>11, SMTT(30)
  <2> QED
    BY <2>1, <1>12 DEF Chained
<1>14. Forward(s, t)
  <2> SUFFICES ASSUME NEW j \in 1..n, NEW k \in 1..Len(t), s[j].id = t[k].id
               PROVE  t[k] = s[j]
    BY DEF Forward
  <2>1. k # Len(t)
    BY <1>1, <1>2, <1>5, <1>7, <1>9, SMTT(30)
  <2>2. k \in 1..(n - d) /\ k + d \in 1..n /\ t[k] = s[k + d]
    BY <2>1, <1>7, <1>10
  <2>3. j = k + d
    BY <2>2, ChainedApart
  <2> QED
    BY <2>2, <2>3
<1>15. Taken(t) = 2 * id - 1
  <2>1. t # <<>> /\ t[Len(t)].id = id /\ ~t[Len(t)].ended
    BY <1>7, <1>9
  <2> QED
    BY <2>1, <1>7, TakenIs
<1> QED
  BY <1>7, <1>13, <1>14, <1>15 DEF t

\* The event that ends an alarm is of the newest, which is open.
LEMMA EndingIsKnown ==
  ASSUME NEW s \in Seq(AlarmRecord), NEW id \in 1..MaxAlarms, 2 * id = Taken(s) + 1
  PROVE  Known(s, id) /\ id = s[Len(s)].id
<1>1. id \in Nat /\ id # 0 /\ DOMAIN s = 1..Len(s)
  BY AlarmBounds, RecordIs
<1>2. s # <<>>
  <2>1. s = <<>> => Taken(s) = 0
    BY TakenIs
  <2>2. s = <<>> => 2 * id = 1
    BY <2>1
  <2>3. \A a \in Nat : 2 * a # 1
    OBVIOUS
  <2> QED
    BY <2>2, <2>3, <1>1
<1>3. Len(s) \in 1..Len(s)
  BY <1>2, TakenIs
<1>4. s[Len(s)].id \in Nat
  BY <1>3, RecordIs
<1>5. ~s[Len(s)].ended
  <2>1. s[Len(s)].ended => 2 * id = 2 * s[Len(s)].id + 1
    BY <1>2, TakenIs
  <2>2. \A a, b \in Nat : 2 * a # 2 * b + 1
    OBVIOUS
  <2> QED
    BY <2>1, <2>2, <1>1, <1>4
<1>6. 2 * id = 2 * s[Len(s)].id
  <2>1. Taken(s) = 2 * s[Len(s)].id - 1
    BY <1>2, <1>5, TakenIs
  <2> QED
    BY <2>1, <1>4, <1>1
<1>7. id = s[Len(s)].id
  BY <1>6, <1>4, <1>1
<1> QED
  BY <1>1, <1>3, <1>7 DEF Known

-----------------------------------------------------------------------------
(* Steps *)

\* Every step is one of these.
LEMMA AlarmSteps ==
  ASSUME [AlarmsNext]_alarmsVars
  PROVE  \/ AppFrame
         \/ AppDies \/ AppEnds \/ Deliver \/ Clock \/ Stop \/ FinishStop
         \/ Connect \/ Disconnect \/ PushOpening \/ PushUpdate
         \/ \E id \in 1..MaxAlarms, type \in {"acknowledge", "silence", "user_message"} :
              Annotate(id, type)
         \/ UNCHANGED alarmsVars
BY DEF AlarmsNext, Push, Command, HubGone

\* The number of events sent.
LEMMA SentIs ==
  ASSUME ThreadTyped
  PROVE  EventsSent \in Int
<1>1. app.id \in 0..MaxAlarms /\ app.issued \in 0..MaxAlarms
  BY DEF ThreadTyped, AppType
<1> QED
  BY <1>1, AlarmBounds DEF EventsSent

\* The thread and the hub.
LEMMA ThreadStep ==
  ASSUME ThreadTyped, HandlerInv, [AlarmsNext]_alarmsVars
  PROVE  ThreadTyped' /\ HandlerInv'
<1>1. CASE AppFrame
  <2>1. /\ app' \in AppType
        /\ app'.id # 0 => app'.id = app'.issued
        /\ app'.status = "Emergency" => app'.id # 0 \/ app'.pc \in {"report", "alarm", "dead"}
    BY <1>1, FrameMoves DEF Publishes
  <2>2. hub' = hub
    BY <1>1, FrameKeeps
  <2> QED
    BY <2>1, <2>2 DEF ThreadTyped, HandlerInv
<1>2. CASE AppDies \/ AppEnds
  BY <1>2 DEF AppDies, AppEnds, Alive, ThreadTyped, HandlerInv, AppType
<1>3. CASE Stop \/ FinishStop
  BY <1>3 DEF Stop, FinishStop, ThreadTyped, HandlerInv
<1>4. ASSUME app' = app, hub' = hub
      PROVE  ThreadTyped' /\ HandlerInv'
  BY <1>4 DEF ThreadTyped, HandlerInv
<1>5. CASE Deliver \/ Clock \/ Connect \/ Disconnect
  BY <1>4, <1>5 DEF Deliver, Clock, Connect, Disconnect
<1>6. CASE PushOpening \/ PushUpdate \/ UNCHANGED alarmsVars
  BY <1>4, <1>6 DEF PushOpening, PushUpdate, alarmsVars
<1>7. ASSUME NEW id, NEW type, Annotate(id, type)
      PROVE  ThreadTyped' /\ HandlerInv'
  BY <1>4, <1>7 DEF Annotate
<1> QED
  BY AlarmSteps, <1>1, <1>2, <1>3, <1>5, <1>6, <1>7

\* The messages on their way change with a frame and a delivery.
LEMMA PostedStep ==
  ASSUME ThreadTyped, HandlerInv, PostedTyped, [AlarmsNext]_alarmsVars
  PROVE  PostedTyped'
<1>1. CASE AppFrame
  <2>2. PICK ms \in Seq(Messages) :
          /\ posted' = IF hub = "stopped" THEN posted ELSE posted \o ms
          /\ Len(posted) + Len(ms) <= MaxPosted
    BY <1>1, FrameMoves DEF Publishes
  <2>3. posted \o ms \in Seq(Messages) /\ Len(posted \o ms) = Len(posted) + Len(ms)
    BY JoinedAre DEF PostedTyped
  <2> QED
    BY <2>2, <2>3 DEF PostedTyped
<1>2. CASE Deliver
  <2>1. posted # <<>> /\ posted' = Tail(posted)
    BY <1>2 DEF Deliver
  <2>2. Tail(posted) \in Seq(Messages) /\ Len(Tail(posted)) = Len(posted) - 1 /\ Len(posted) \in Nat
    BY <2>1, TailIs DEF PostedTyped
  <2> QED
    BY <2>1, <2>2, AlarmBounds DEF PostedTyped
<1>3. ASSUME posted' = posted
      PROVE  PostedTyped'
  BY <1>3 DEF PostedTyped
<1>4. CASE AppDies \/ AppEnds \/ Clock \/ Stop \/ FinishStop
  BY <1>3, <1>4 DEF AppDies, AppEnds, Clock, Stop, FinishStop
<1>5. CASE Connect \/ Disconnect \/ PushOpening \/ PushUpdate \/ UNCHANGED alarmsVars
  BY <1>3, <1>5 DEF Connect, Disconnect, PushOpening, PushUpdate, alarmsVars
<1>6. ASSUME NEW id, NEW type, Annotate(id, type)
      PROVE  PostedTyped'
  BY <1>3, <1>6 DEF Annotate
<1> QED
  BY AlarmSteps, <1>1, <1>2, <1>4, <1>5, <1>6

\* The store stays as it is, or an event is taken: the next one of the
\* application, or an operator's of an alarm that is known.
LEMMA StoreMoves ==
  ASSUME ThreadTyped, PostedTyped, StoresTyped, EventsInv, StoreInv, [AlarmsNext]_alarmsVars
  PROVE  \/ alarms' = alarms /\ (Deliver /\ hub # "stopped" => Head(posted).topic # "alarms")
         \/ /\ hub # "stopped"
            /\ alarms' \in Seq(AlarmRecord) /\ Len(alarms') <= Limit
            /\ Chained(alarms') /\ Forward(alarms, alarms')
            /\ \/ Deliver /\ Head(posted).topic = "alarms" /\ Taken(alarms') = Taken(alarms) + 1
               \/ /\ Taken(alarms') = Taken(alarms)
                  /\ \E id \in 1..MaxAlarms, type \in {"acknowledge", "silence", "user_message"} :
                       Annotate(id, type) /\ Known(alarms, id)
<1>1. alarms \in Seq(AlarmRecord) /\ Len(alarms) <= Limit /\ Chained(alarms)
  BY DEF StoresTyped, StoreInv
<1>2. CASE Deliver /\ hub # "stopped" /\ Head(posted).topic = "alarms"
  <2> DEFINE m == Head(posted)
  <2>1. posted # <<>> /\ Attached /\ m.topic = "alarms" /\ alarms' = Handle(alarms, m.id, m.type)
    BY <1>2 DEF Deliver, Attached
  <2>2. posted \in Seq(Messages) /\ m \in Messages
    BY <2>1, TailIs DEF PostedTyped
  <2>3. m.id \in 1..MaxAlarms /\ m.type \in {"init", "not_critical"}
    BY <2>1, <2>2, MessageIs
  <2>4. hub # "stopped" /\ InFlight(posted, EventsTaken, EventsSent) /\ EventsTaken <= EventsSent
    BY <2>1 DEF Attached, EventsInv
  <2>5. EventsTaken = Taken(alarms) /\ Taken(alarms) \in Nat
    BY <1>1, TakenIs DEF EventsTaken
  <2>8. EventNumber(m) = Taken(alarms) + 1
    <3>1. ASSUME NEW lo \in Int, NEW hi \in Int, InFlight(posted, lo, hi)
          PROVE  EventNumber(m) = lo + 1
      BY <2>1, <2>2, <3>1, EventLeaves
    <3> QED
      BY <2>4, <2>5, <3>1, SentIs
  <2> HIDE DEF m
  <2>9. CASE m.type = "init"
    <3>1. 2 * m.id - 1 = Taken(alarms) + 1
      BY <2>8, <2>9 DEF EventNumber
    <3>2. LET t == Handle(alarms, m.id, "init")
          IN  /\ t \in Seq(AlarmRecord) /\ Len(t) <= Limit
              /\ Chained(t) /\ Forward(alarms, t) /\ Taken(t) = 2 * m.id - 1
      BY <1>1, <2>3, <3>1, OpeningKeeps
    <3> QED
      BY <1>2, <2>1, <2>4, <2>9, <3>1, <3>2 DEF m
  <2>10. CASE m.type = "not_critical"
    <3>1. 2 * m.id = Taken(alarms) + 1
      BY <2>8, <2>10 DEF EventNumber
    <3>2. Known(alarms, m.id) /\ m.id = alarms[Len(alarms)].id
      BY <1>1, <2>3, <3>1, EndingIsKnown
    <3>3. LET t == Handle(alarms, m.id, "not_critical")
          IN  /\ t \in Seq(AlarmRecord) /\ Len(t) = Len(alarms)
              /\ Chained(t) /\ Forward(alarms, t) /\ Taken(t) = 2 * m.id
      BY <1>1, <3>2, KnownKeeps DEF Changes
    <3> QED
      BY <1>1, <1>2, <2>1, <2>4, <2>10, <3>1, <3>3 DEF m
  <2> QED
    BY <2>3, <2>9, <2>10
<1>3. ASSUME NEW id \in 1..MaxAlarms, NEW type \in {"acknowledge", "silence", "user_message"},
             Annotate(id, type), alarms' # alarms
      PROVE  /\ hub # "stopped" /\ Known(alarms, id)
             /\ alarms' \in Seq(AlarmRecord) /\ Len(alarms') <= Limit
             /\ Chained(alarms') /\ Forward(alarms, alarms') /\ Taken(alarms') = Taken(alarms)
  <2>1. hub # "stopped" /\ Known(alarms, id) /\ alarms' = Handle(alarms, id, type)
    BY <1>3 DEF Annotate
  <2>2. type \in Changes /\ type # "init" /\ type # "not_critical"
    BY DEF Changes
  <2>3. LET t == Handle(alarms, id, type)
        IN  /\ t \in Seq(AlarmRecord) /\ Len(t) = Len(alarms)
            /\ Chained(t) /\ Forward(alarms, t) /\ Taken(t) = Taken(alarms)
    BY <1>1, <2>1, <2>2, KnownKeeps
  <2> QED
    BY <1>1, <2>1, <2>3
<1>4. CASE Deliver /\ ~(hub # "stopped" /\ Head(posted).topic = "alarms")
  BY <1>4 DEF Deliver, Attached
<1>5. ASSUME AppFrame
      PROVE  alarms' = alarms
  BY <1>5, FrameKeeps
<1>6. ASSUME AppDies \/ AppEnds \/ Clock \/ Stop \/ FinishStop
      PROVE  alarms' = alarms
  BY <1>6 DEF AppDies, AppEnds, Clock, Stop, FinishStop, storeVars
<1>7. ASSUME Connect \/ Disconnect \/ PushOpening \/ PushUpdate \/ UNCHANGED alarmsVars
      PROVE  alarms' = alarms
  BY <1>7 DEF Connect, Disconnect, PushOpening, PushUpdate, alarmsVars, storeVars
<1>8. CASE ~Deliver
  BY AlarmSteps, <1>3, <1>5, <1>6, <1>7, <1>8
<1> QED
  BY <1>2, <1>4, <1>8

\* The stores keep their types, and the alarms their order.
LEMMA StoresStep ==
  ASSUME ThreadTyped, PostedTyped, StoresTyped, EventsInv, StoreInv, [AlarmsNext]_alarmsVars
  PROVE  StoresTyped' /\ StoreInv'
<1>1. /\ alarms' \in Seq(AlarmRecord) /\ Len(alarms') <= Limit /\ Chained(alarms')
  BY StoreMoves DEF StoresTyped, StoreInv
<1>2. StoreInv'
  BY <1>1 DEF StoreInv
<1>3. islands' \in Grid \cup {"none"} /\ row' \in [known : BOOLEAN, age : 0..(StaleAfter + 1)]
  <2>1. CASE Deliver
    <3>1. Head(posted) \in Messages
      BY <2>1, TailIs DEF Deliver, PostedTyped
    <3>2. [known |-> TRUE, age |-> 0] \in [known : BOOLEAN, age : 0..(StaleAfter + 1)]
      BY AlarmBounds
    <3> QED
      BY <2>1, <3>1, <3>2, MessageIs DEF Deliver, StoresTyped
  <2>2. CASE Clock
    <3>1. row = [known |-> row.known, age |-> row.age] /\ row.known \in BOOLEAN
          /\ row.age \in 0..(StaleAfter + 1)
      BY DEF StoresTyped
    <3>2. row' = [known |-> row.known, age |-> row.age + 1]
      BY <2>2, <3>1 DEF Clock
    <3>3. row.age + 1 \in 0..(StaleAfter + 1)
      BY <2>2, <3>1, AlarmBounds DEF Clock
    <3> QED
      BY <2>2, <3>1, <3>2, <3>3 DEF Clock, StoresTyped
  <2>3. ASSUME islands' = islands, row' = row
        PROVE  islands' \in Grid \cup {"none"} /\ row' \in [known : BOOLEAN, age : 0..(StaleAfter + 1)]
    BY <2>3 DEF StoresTyped
  <2>4. CASE AppFrame
    BY <2>3, <2>4, FrameKeeps
  <2>5. CASE AppDies \/ AppEnds \/ Stop \/ FinishStop
    BY <2>3, <2>5 DEF AppDies, AppEnds, Stop, FinishStop, storeVars
  <2>6. CASE Connect \/ Disconnect \/ PushOpening \/ PushUpdate \/ UNCHANGED alarmsVars
    BY <2>3, <2>6 DEF Connect, Disconnect, PushOpening, PushUpdate, alarmsVars, storeVars
  <2>7. ASSUME NEW id, NEW type, Annotate(id, type)
        PROVE  islands' = islands /\ row' = row
    BY <2>7 DEF Annotate
  <2> QED
    BY AlarmSteps, <2>1, <2>2, <2>3, <2>4, <2>5, <2>6, <2>7
<1> QED
  BY <1>1, <1>2, <1>3 DEF StoresTyped

\* A frame sends the next event or none, a delivery takes the first of those on
\* their way, and no other step touches them.
LEMMA EventsStep ==
  ASSUME ThreadTyped, PostedTyped, StoresTyped, HandlerInv, EventsInv, StoreInv,
         [AlarmsNext]_alarmsVars
  PROVE  EventsInv'
<1> SUFFICES ASSUME hub' # "stopped"
             PROVE  EventsTaken' <= EventsSent' /\ InFlight(posted', EventsTaken', EventsSent')
  BY DEF EventsInv
<1>1. /\ EventsTaken \in Int /\ EventsSent \in Int /\ posted \in Seq(Messages)
      /\ EventsTaken = Taken(alarms) /\ EventsTaken' = Taken(alarms')
  BY SentIs, TakenIs DEF EventsTaken, StoresTyped, PostedTyped
<1>2. ASSUME hub # "stopped"
      PROVE  EventsTaken <= EventsSent /\ InFlight(posted, EventsTaken, EventsSent)
  BY <1>2 DEF EventsInv
<1>3. CASE AppFrame
  <2>2. hub # "stopped" /\ EventsTaken' = EventsTaken
    BY <1>3, FrameKeeps DEF EventsTaken
  <2>3. PICK ms \in Seq(Messages) :
          /\ posted' = IF hub = "stopped" THEN posted ELSE posted \o ms
          /\ \/ EventsSent' = EventsSent /\ \A i \in 1..Len(ms) : ms[i].topic # "alarms"
             \/ /\ EventsSent' = EventsSent + 1 /\ Len(ms) >= 1
                /\ \A i \in 1..Len(ms) : ms[i].topic = "alarms" <=> i = Len(ms)
                /\ EventNumber(ms[Len(ms)]) = EventsSent + 1
    BY <1>3, FrameMoves DEF Publishes
  <2>4. posted' = posted \o ms
    BY <2>2, <2>3
  <2>5. CASE EventsSent' = EventsSent /\ \A i \in 1..Len(ms) : ms[i].topic # "alarms"
    BY <1>1, <1>2, <2>2, <2>4, <2>5, OthersJoin
  <2>6. CASE /\ EventsSent' = EventsSent + 1 /\ Len(ms) >= 1
             /\ \A i \in 1..Len(ms) : ms[i].topic = "alarms" <=> i = Len(ms)
             /\ EventNumber(ms[Len(ms)]) = EventsSent + 1
    <3>1. InFlight(posted \o ms, EventsTaken, EventsSent + 1)
      BY <1>1, <1>2, <2>2, <2>6, EventJoins
    <3>2. EventsTaken <= EventsSent + 1
      BY <1>1, <1>2, <2>2
    <3> QED
      BY <2>2, <2>4, <2>6, <3>1, <3>2
  <2> QED
    BY <2>3, <2>5, <2>6
<1>4. CASE Deliver
  <2>1. hub # "stopped" /\ posted # <<>> /\ posted' = Tail(posted) /\ EventsSent' = EventsSent
    BY <1>4 DEF Deliver, EventsSent
  <2>2. CASE Head(posted).topic = "alarms"
    <3>1. \/ EventsTaken' = EventsTaken + 1
          \/ \E id \in 1..MaxAlarms, type \in {"acknowledge", "silence", "user_message"} :
               Annotate(id, type)
      BY <1>1, <2>1, <2>2, <1>4, StoreMoves
    <3>2. ASSUME NEW id, NEW type, Annotate(id, type)
          PROVE  FALSE
      <4>1. Tail(posted) = posted
        BY <3>2, <2>1 DEF Annotate
      <4>2. Len(Tail(posted)) = Len(posted) - 1 /\ Len(posted) \in Nat
        BY <1>1, <2>1, TailIs
      <4> QED
        BY <4>1, <4>2
    <3>3. EventsTaken' = EventsTaken + 1
      BY <3>1, <3>2
    <3>4. EventsTaken + 1 <= EventsSent /\ InFlight(Tail(posted), EventsTaken + 1, EventsSent)
      BY <1>1, <1>2, <2>1, <2>2, EventLeaves
    <3> QED
      BY <2>1, <3>3, <3>4
  <2>3. CASE Head(posted).topic # "alarms"
    <3>1. EventsTaken' = EventsTaken
      BY <1>4, <2>3 DEF Deliver, EventsTaken
    <3>2. InFlight(Tail(posted), EventsTaken, EventsSent)
      BY <1>1, <1>2, <2>1, <2>3, OtherLeaves
    <3> QED
      BY <1>2, <2>1, <3>1, <3>2
  <2> QED
    BY <2>2, <2>3
<1>5. ASSUME hub # "stopped", posted' = posted, app'.id = app.id, app'.issued = app.issued,
             EventsTaken' = EventsTaken
      PROVE  EventsTaken' <= EventsSent' /\ InFlight(posted', EventsTaken', EventsSent')
  <2>1. EventsSent' = EventsSent
    BY <1>5 DEF EventsSent
  <2> QED
    BY <1>2, <1>5, <2>1
<1>6. CASE AppDies \/ AppEnds
  <2>1. hub # "stopped" /\ posted' = posted /\ EventsTaken' = EventsTaken
    BY <1>6 DEF AppDies, AppEnds, storeVars, EventsTaken
  <2>2. app'.id = app.id /\ app'.issued = app.issued
    BY <1>6 DEF AppDies, AppEnds, ThreadTyped, AppType
  <2> QED
    BY <2>1, <2>2, <1>5
<1>7. CASE Clock \/ Stop \/ FinishStop
  BY <1>5, <1>7 DEF Clock, Stop, FinishStop, storeVars, EventsTaken
<1>8. CASE Connect \/ Disconnect \/ PushOpening \/ PushUpdate \/ UNCHANGED alarmsVars
  BY <1>5, <1>8 DEF Connect, Disconnect, PushOpening, PushUpdate, alarmsVars, storeVars, EventsTaken
<1>9. ASSUME NEW id \in 1..MaxAlarms, NEW type \in {"acknowledge", "silence", "user_message"},
             Annotate(id, type)
      PROVE  EventsTaken' <= EventsSent' /\ InFlight(posted', EventsTaken', EventsSent')
  <2>1. hub # "stopped" /\ posted' = posted /\ app' = app
    BY <1>9 DEF Annotate
  <2>2. EventsTaken' = EventsTaken \/ Deliver
    BY <1>1, StoreMoves
  <2> QED
    BY <2>1, <2>2, <1>4, <1>5
<1> QED
  BY AlarmSteps, <1>3, <1>4, <1>6, <1>7, <1>8, <1>9

\* The status is of the newest result that was sent.
LEMMA ResultsStep ==
  ASSUME ThreadTyped, PostedTyped, HandlerInv, ResultsInv, [AlarmsNext]_alarmsVars
  PROVE  ResultsInv'
<1> SUFFICES ASSUME hub' # "stopped"
             PROVE  /\ \A i \in 1..Len(posted') :
                         LastResult(posted', i) /\ posted'[i].grid = "split" =>
                           app'.status = "Emergency"
                    /\ NoResult(posted') /\ islands' = "split" => app'.status = "Emergency"
  BY DEF ResultsInv
<1>1. posted \in Seq(Messages)
  BY DEF PostedTyped
<1>2. ASSUME hub # "stopped"
      PROVE  /\ \A i \in 1..Len(posted) :
                  LastResult(posted, i) /\ posted[i].grid = "split" => app.status = "Emergency"
             /\ NoResult(posted) /\ islands = "split" => app.status = "Emergency"
  BY <1>2 DEF ResultsInv
<1>3. CASE AppFrame
  <2>2. hub # "stopped" /\ islands' = islands
    BY <1>3, FrameKeeps
  <2>3. PICK ms \in Seq(Messages) :
          /\ posted' = IF hub = "stopped" THEN posted ELSE posted \o ms
          /\ \/ NoResult(ms) /\ app'.status = app.status
             \/ /\ Len(ms) >= 1 /\ ms[1].topic = "result"
                /\ ms[1].grid = "split" => app'.status = "Emergency"
                /\ \A i \in 1..Len(ms) : i # 1 => ms[i].topic # "result"
    BY <1>3, FrameMoves DEF Publishes
  <2>4. posted' = posted \o ms
    BY <2>2, <2>3
  <2>5. CASE NoResult(ms) /\ app'.status = app.status
    BY <1>1, <1>2, <2>2, <2>4, <2>5, NoResultJoins
  <2>6. CASE /\ Len(ms) >= 1 /\ ms[1].topic = "result"
             /\ ms[1].grid = "split" => app'.status = "Emergency"
             /\ \A i \in 1..Len(ms) : i # 1 => ms[i].topic # "result"
    BY <1>1, <2>4, <2>6, ResultJoins
  <2> QED
    BY <2>3, <2>5, <2>6
<1>4. CASE Deliver
  <2>1. hub # "stopped" /\ posted # <<>> /\ posted' = Tail(posted) /\ app' = app
    BY <1>4 DEF Deliver
  <2>2. /\ \A i \in 1..Len(Tail(posted)) : LastResult(Tail(posted), i) =>
             i + 1 \in 1..Len(posted) /\ LastResult(posted, i + 1)
               /\ Tail(posted)[i] = posted[i + 1]
        /\ NoResult(Tail(posted)) => IF Head(posted).topic = "result" THEN LastResult(posted, 1)
                                                                      ELSE NoResult(posted)
    BY <1>1, <2>1, ResultLeaves
  <2>3. Head(posted) = posted[1] /\ 1 \in 1..Len(posted)
    BY <1>1, <2>1, TailIs
  <2>4. islands' = IF Head(posted).topic = "result" THEN Head(posted).grid ELSE islands
    BY <1>4, <2>1 DEF Deliver, Attached
  <2> QED
    BY <1>2, <2>1, <2>2, <2>3, <2>4
<1>5. ASSUME hub # "stopped", posted' = posted, app'.status = app.status, islands' = islands
      PROVE  /\ \A i \in 1..Len(posted') :
                  LastResult(posted', i) /\ posted'[i].grid = "split" => app'.status = "Emergency"
             /\ NoResult(posted') /\ islands' = "split" => app'.status = "Emergency"
  BY <1>2, <1>5
<1>6. CASE AppDies \/ AppEnds
  <2>1. hub # "stopped" /\ posted' = posted /\ islands' = islands
    BY <1>6 DEF AppDies, AppEnds, storeVars
  <2>2. app'.status = app.status
    BY <1>6 DEF AppDies, AppEnds, ThreadTyped, AppType
  <2> QED
    BY <2>1, <2>2, <1>5
<1>7. CASE Clock \/ Stop \/ FinishStop
  BY <1>5, <1>7 DEF Clock, Stop, FinishStop, storeVars
<1>8. CASE Connect \/ Disconnect \/ PushOpening \/ PushUpdate \/ UNCHANGED alarmsVars
  BY <1>5, <1>8 DEF Connect, Disconnect, PushOpening, PushUpdate, alarmsVars, storeVars
<1>9. ASSUME NEW id, NEW type, Annotate(id, type)
      PROVE  hub # "stopped" /\ posted' = posted /\ app'.status = app.status /\ islands' = islands
  BY <1>9 DEF Annotate
<1> QED
  BY AlarmSteps, <1>3, <1>4, <1>5, <1>6, <1>7, <1>8, <1>9

-----------------------------------------------------------------------------
(* The page *)

\* A page that is open, field by field.
LEMMA OpenPage ==
  ASSUME SocketTyped, page.pc # "closed"
  PROVE  /\ page \in PageType /\ Len(page.queue) <= QueueMax
         /\ page.queue \in Seq(Events) /\ page.lost \in BOOLEAN
         /\ page = [pc |-> page.pc, queue |-> page.queue, latest |-> page.latest,
                    lost |-> page.lost]
<1>1. page # NoPage
  BY DEF NoPage
<1> QED
  BY <1>1 DEF SocketTyped, PageType

\* What an event makes of a page's queue.
LEMMA OfferMoves ==
  ASSUME NEW p \in PageType, Len(p.queue) <= QueueMax, NEW e \in Events
  PROVE  LET q == Offer(p, e)
         IN  /\ q \in PageType /\ Len(q.queue) <= QueueMax
             /\ q.pc = p.pc /\ q.latest = p.latest /\ q.queue # <<>>
             /\ \/ q.queue = Append(p.queue, e)
                     /\ IF e.topic = "result" THEN ~q.lost ELSE q.lost = p.lost
                \/ q.queue = p.queue
                     /\ IF e.topic = "result" THEN q.lost ELSE q.lost = p.lost
<1> DEFINE q == Offer(p, e)
<1>1. /\ p = [pc |-> p.pc, queue |-> p.queue, latest |-> p.latest, lost |-> p.lost]
      /\ p.pc \in {"opening", "serving"} /\ p.queue \in Seq(Events)
      /\ p.latest \in Grid \cup {"none"} /\ p.lost \in BOOLEAN
  BY DEF PageType
<1>2. /\ Len(p.queue) \in Nat
      /\ Append(p.queue, e) \in Seq(Events) /\ Len(Append(p.queue, e)) = Len(p.queue) + 1
  BY <1>1, AppendedIs
<1>3. CASE Len(p.queue) < QueueMax
  <2>1. /\ e.topic = "result" => q = [pc |-> p.pc, queue |-> Append(p.queue, e),
                                      latest |-> p.latest, lost |-> FALSE]
        /\ e.topic # "result" => q = [pc |-> p.pc, queue |-> Append(p.queue, e),
                                      latest |-> p.latest, lost |-> p.lost]
    <3>1. (~(Len(p.queue) < QueueMax)) = FALSE
      BY <1>3
    <3>2. q = [p EXCEPT !.queue = IF Len(p.queue) < QueueMax THEN Append(@, e) ELSE @,
                        !.lost = IF e.topic = "result" THEN FALSE ELSE @]
      BY <3>1, Zenon DEF Offer
    <3> HIDE DEF q
    <3> QED
      BY <1>1, <1>3, <3>2
  <2>2. Len(Append(p.queue, e)) <= QueueMax /\ Append(p.queue, e) # <<>>
    BY <1>2, <1>3, AlarmBounds
  <2> HIDE DEF q
  <2>3. CASE e.topic = "result"
    <3> DEFINE r == [pc |-> p.pc, queue |-> Append(p.queue, e), latest |-> p.latest, lost |-> FALSE]
    <3>1. q.lost = FALSE /\ q.pc = p.pc /\ q.latest = p.latest /\ q.queue = Append(p.queue, e)
      BY <2>1, <2>3
    <3>2. q \in PageType
      <4>1. r \in PageType
        BY <1>1, <1>2 DEF PageType
      <4>2. q = r
        BY <2>1, <2>3
      <4> QED
        BY <4>1, <4>2, Zenon
    <3>3. q.lost <=> FALSE
      BY <3>1
    <3> QED
      BY <2>2, <2>3, <3>1, <3>2, <3>3, <1>2, Zenon DEF q
  <2>4. CASE e.topic # "result"
    BY <2>1, <2>2, <2>4, <1>1, <1>2, SMTT(30) DEF PageType, q
  <2> QED
    BY <2>3, <2>4
<1>4. CASE ~(Len(p.queue) < QueueMax)
  <2>1. /\ e.topic = "result" => q = [pc |-> p.pc, queue |-> p.queue,
                                      latest |-> p.latest, lost |-> TRUE]
        /\ e.topic # "result" => q = [pc |-> p.pc, queue |-> p.queue,
                                      latest |-> p.latest, lost |-> p.lost]
    <3>1. (~(Len(p.queue) < QueueMax)) = TRUE
      BY <1>4
    <3>2. q = [p EXCEPT !.queue = IF Len(p.queue) < QueueMax THEN Append(@, e) ELSE @,
                        !.lost = IF e.topic = "result" THEN TRUE ELSE @]
      BY <3>1, Zenon DEF Offer
    <3> HIDE DEF q
    <3> QED
      BY <1>1, <1>4, <3>2
  <2>2. p.queue # <<>>
    BY <1>1, <1>2, <1>4, AlarmBounds
  <2> HIDE DEF q
  <2>3. CASE e.topic = "result"
    <3> DEFINE r == [pc |-> p.pc, queue |-> p.queue, latest |-> p.latest, lost |-> TRUE]
    <3>1. q.lost = TRUE /\ q.pc = p.pc /\ q.latest = p.latest /\ q.queue = p.queue
      BY <2>1, <2>3
    <3>2. q \in PageType
      <4>1. r \in PageType
        BY <1>1, <1>2 DEF PageType
      <4>2. q = r
        BY <2>1, <2>3
      <4> QED
        BY <4>1, <4>2, Zenon
    <3>3. q.lost <=> TRUE
      BY <3>1
    <3> QED
      BY <2>2, <2>3, <3>1, <3>2, <3>3, <1>2, Zenon DEF q
  <2>4. CASE e.topic # "result"
    BY <2>1, <2>2, <2>4, <1>1, <1>2 DEF PageType, q
  <2> QED
    BY <2>3, <2>4
<1> QED
  BY <1>3, <1>4

\* What a push makes of the page and the browser.
LEMMA PushMoves ==
  ASSUME SocketTyped, PushUpdate
  PROVE  /\ page.pc = "serving" /\ page.queue # <<>> /\ page.queue \in Seq(Events)
         /\ Head(page.queue) \in Events
         /\ page' \in PageType /\ page'.pc = "serving" /\ page'.lost = page.lost
         /\ page'.queue = Tail(page.queue) /\ Len(page'.queue) <= QueueMax
         /\ page'.latest = (IF Head(page.queue).topic = "result" THEN Head(page.queue).grid
                                                                 ELSE page.latest)
         /\ view' = [grid |-> page'.latest, alarms |-> alarms]
<1> DEFINE e == Head(page.queue)
           latest == IF e.topic = "result" THEN e.grid ELSE page.latest
<1>1. page.pc = "serving" /\ page.queue # <<>>
  BY DEF PushUpdate
<1>2. /\ page \in PageType /\ Len(page.queue) <= QueueMax
      /\ page.queue \in Seq(Events) /\ page.lost \in BOOLEAN
      /\ page = [pc |-> page.pc, queue |-> page.queue, latest |-> page.latest,
                 lost |-> page.lost]
  BY <1>1, OpenPage
<1>3. page.latest \in Grid \cup {"none"}
  BY <1>2 DEF PageType
<1>4. e \in Events /\ Tail(page.queue) \in Seq(Events) /\ Len(Tail(page.queue)) <= QueueMax
  BY <1>1, <1>2, TailIs, AlarmBounds
<1>5. latest \in Grid \cup {"none"}
  BY <1>3, <1>4, EventIs
<1>6. view' = AlarmMessage(latest) /\ page' = [page EXCEPT !.queue = Tail(@), !.latest = latest]
  BY DEF PushUpdate
<1> HIDE DEF latest
<1>7. page' = [pc |-> page.pc, queue |-> Tail(page.queue), latest |-> latest, lost |-> page.lost]
  BY <1>2, <1>6
<1>8. page' \in PageType
  BY <1>1, <1>2, <1>4, <1>5, <1>7 DEF PageType
<1> QED
  BY <1>1, <1>2, <1>4, <1>6, <1>7, <1>8 DEF latest, AlarmMessage

\* A delivery and a command offer the open page an event, or leave it alone.
LEMMA DeliveryOffers ==
  ASSUME PostedTyped, Deliver
  PROVE  /\ posted # <<>> /\ Head(posted) \in Messages /\ Head(posted) \in Events
         /\ page' = IF page.pc # "closed" /\ Head(posted).topic \in {"result", "alarms"}
                    THEN Offer(page, Head(posted)) ELSE page
BY TailIs DEF PostedTyped, Deliver, Listening, Events

\* An operator's command wakes the open page.
LEMMA CommandOffers ==
  ASSUME NEW id, NEW type, Annotate(id, type)
  PROVE  page' = IF Known(alarms, id) /\ page.pc # "closed" THEN Offer(page, Nudge) ELSE page
BY DEF Annotate

\* A page's queue stays within its bound.
LEMMA SocketStep ==
  ASSUME PostedTyped, SocketTyped, [AlarmsNext]_alarmsVars
  PROVE  SocketTyped'
<1>1. ASSUME page' = page
      PROVE  SocketTyped'
  BY <1>1 DEF SocketTyped, NoPage
<1>2. ASSUME page' \in PageType, Len(page'.queue) <= QueueMax
      PROVE  SocketTyped'
  BY <1>2 DEF SocketTyped
<1>3. ASSUME NEW e \in Events, page.pc # "closed", page' = Offer(page, e)
      PROVE  SocketTyped'
  <2>1. page' \in PageType /\ Len(page'.queue) <= QueueMax
    BY <1>3, OpenPage, OfferMoves
  <2> QED
    BY <2>1, <1>2
<1>4. CASE Deliver
  BY <1>1, <1>3, <1>4, DeliveryOffers
<1>5. ASSUME NEW id, NEW type, Annotate(id, type)
      PROVE  SocketTyped'
  <2>1. Nudge \in Events
    BY DEF Events
  <2> QED
    BY <2>1, <1>1, <1>3, <1>5, CommandOffers
<1>6. CASE Connect
  <2>1. page' = [pc |-> "opening", queue |-> <<>>, latest |-> "none", lost |-> FALSE]
    BY <1>6 DEF Connect
  <2>2. <<>> \in Seq(Events) /\ Len(<<>>) = 0
    OBVIOUS
  <2>3. page' \in PageType /\ Len(page'.queue) <= QueueMax
    BY <2>1, <2>2, AlarmBounds DEF PageType
  <2> QED
    BY <2>3, <1>2
<1>7. CASE Disconnect
  BY <1>7 DEF Disconnect, SocketTyped, NoPage
<1>8. CASE PushOpening
  <2>1. page.pc = "opening" /\ page' = [page EXCEPT !.pc = "serving"]
    BY <1>8 DEF PushOpening
  <2>2. page \in PageType /\ Len(page.queue) <= QueueMax
    BY <2>1, OpenPage
  <2>3. page' \in PageType /\ page'.queue = page.queue
    BY <2>1, <2>2 DEF PageType
  <2> QED
    BY <2>2, <2>3, <1>2
<1>9. CASE PushUpdate
  BY <1>2, <1>9, PushMoves
<1>10. CASE AppFrame
  BY <1>1, <1>10, FrameKeeps
<1>11. CASE AppDies \/ AppEnds \/ Clock \/ Stop \/ FinishStop \/ UNCHANGED alarmsVars
  BY <1>1, <1>11 DEF AppDies, AppEnds, Clock, Stop, FinishStop, pageVars, alarmsVars
<1> QED
  BY AlarmSteps, <1>4, <1>5, <1>6, <1>7, <1>8, <1>9, <1>10, <1>11

\* The browser shows records of the store.
LEMMA ViewStep ==
  ASSUME StoresTyped, SocketTyped, ViewTyped, [AlarmsNext]_alarmsVars
  PROVE  ViewTyped'
<1>1. /\ ops = [sockets |-> ops.sockets, commands |-> ops.commands]
      /\ ops.sockets \in 0..MaxSockets /\ ops.commands \in 0..MaxCommands
      /\ alarms \in Seq(AlarmRecord)
  BY DEF ViewTyped, StoresTyped
<1>2. ASSUME view' = view, ops' = ops
      PROVE  ViewTyped'
  BY <1>2 DEF ViewTyped
<1>3. ASSUME NEW g \in Grid \cup {"none"}, view' = [grid |-> g, alarms |-> alarms], ops' = ops
      PROVE  ViewTyped'
  BY <1>1, <1>3 DEF ViewTyped, AlarmsShown
<1>4. CASE PushOpening
  BY <1>3, <1>4 DEF PushOpening, AlarmMessage
<1>5. CASE PushUpdate
  <2>1. page'.latest \in Grid \cup {"none"} /\ view' = [grid |-> page'.latest, alarms |-> alarms]
    BY <1>5, PushMoves DEF PageType
  <2>2. ops' = ops
    BY <1>5 DEF PushUpdate
  <2> QED
    BY <2>1, <2>2, <1>3
<1>6. CASE Connect
  <2>1. ops' = [sockets |-> ops.sockets + 1, commands |-> ops.commands] /\ view' = view
    BY <1>1, <1>6 DEF Connect
  <2>2. ops.sockets + 1 \in 0..MaxSockets
    BY <1>1, <1>6, AlarmBounds, SMTT(30) DEF Connect
  <2> QED
    BY <1>1, <2>1, <2>2 DEF ViewTyped
<1>7. ASSUME NEW id, NEW type, Annotate(id, type)
      PROVE  ViewTyped'
  <2>1. ops' = [sockets |-> ops.sockets, commands |-> ops.commands + 1] /\ view' = view
    BY <1>1, <1>7 DEF Annotate
  <2>2. ops.commands + 1 \in 0..MaxCommands
    BY <1>1, <1>7, AlarmBounds, SMTT(30) DEF Annotate
  <2> QED
    BY <1>1, <2>1, <2>2 DEF ViewTyped
<1>8. CASE AppFrame
  BY <1>2, <1>8, FrameKeeps
<1>9. CASE AppDies \/ AppEnds \/ Clock \/ Stop \/ FinishStop
  BY <1>2, <1>9 DEF AppDies, AppEnds, Clock, Stop, FinishStop, pageVars
<1>10. CASE Deliver \/ Disconnect \/ UNCHANGED alarmsVars
  BY <1>2, <1>10 DEF Deliver, Disconnect, alarmsVars
<1> QED
  BY AlarmSteps, <1>4, <1>5, <1>6, <1>7, <1>8, <1>9, <1>10

\* What an open page shows, and will: an event that is offered, a push, a socket
\* that opens, and the steps that leave it alone.
LEMMA OfferedShown ==
  ASSUME SocketTyped, ShownInv, page.pc # "closed", NEW e \in Events, page' = Offer(page, e),
         view' = view, hub' = hub, islands' = IF e.topic = "result" THEN e.grid ELSE islands
  PROVE  ShownInv'
<1>1. /\ page \in PageType /\ Len(page.queue) <= QueueMax /\ page.queue \in Seq(Events)
  BY OpenPage
<1>2. /\ page'.pc = page.pc /\ page'.latest = page.latest /\ page'.queue # <<>>
      /\ \/ page'.queue = Append(page.queue, e)
              /\ IF e.topic = "result" THEN ~page'.lost ELSE page'.lost = page.lost
         \/ page'.queue = page.queue
              /\ IF e.topic = "result" THEN page'.lost ELSE page'.lost = page.lost
  BY <1>1, OfferMoves
<1>3. /\ hub = "running"
      /\ page.pc = "opening" => page.latest = "none"
      /\ page.pc = "serving" /\ page.latest # "none" => view.grid = page.latest
      /\ ~page.lost =>
           /\ \A i \in 1..Len(page.queue) : LastResult(page.queue, i) => page.queue[i].grid = islands
           /\ NoResult(page.queue) /\ page.latest # "none" => page.latest = islands
  BY DEF ShownInv
<1>4. ASSUME ~page'.lost
      PROVE  /\ \A i \in 1..Len(page'.queue) :
                  LastResult(page'.queue, i) => page'.queue[i].grid = islands'
             /\ NoResult(page'.queue) /\ page'.latest # "none" => page'.latest = islands'
  <2>1. CASE e.topic = "result"
    <3>1. page'.queue = Append(page.queue, e) /\ islands' = e.grid
      BY <2>1, <1>2, <1>4
    <3> QED
      BY <2>1, <3>1, <1>1, OneJoins
  <2>2. CASE e.topic # "result"
    <3>1. ~page.lost /\ islands' = islands
      BY <2>2, <1>2, <1>4
    <3>2. CASE page'.queue = page.queue
      BY <3>1, <3>2, <1>2, <1>3
    <3>3. CASE page'.queue = Append(page.queue, e)
      BY <2>2, <3>1, <3>3, <1>1, <1>2, <1>3, OneJoins
    <3> QED
      BY <3>2, <3>3, <1>2
  <2> QED
    BY <2>1, <2>2
<1> QED
  BY <1>2, <1>3, <1>4 DEF ShownInv

\* What an open page shows and is still to be sent, at every step.
LEMMA ShownStep ==
  ASSUME PostedTyped, SocketTyped, ShownInv, [AlarmsNext]_alarmsVars
  PROVE  ShownInv'
<1>1. ASSUME page' = page, view' = view, alarms' = alarms, islands' = islands,
             hub' = hub \/ page.pc = "closed"
      PROVE  ShownInv'
  BY <1>1 DEF ShownInv
<1>2. CASE Deliver
  <2>1. Head(posted) \in Events /\ Head(posted) \in Messages /\ view' = view /\ hub' = hub
    BY <1>2, DeliveryOffers DEF Deliver
  <2>2. page.pc # "closed" => hub = "running"
    BY DEF ShownInv
  <2>3. CASE page.pc # "closed" /\ Head(posted).topic \in {"result", "alarms"}
    <3>1. page' = Offer(page, Head(posted))
      BY <1>2, <2>3, DeliveryOffers
    <3>2. islands' = IF Head(posted).topic = "result" THEN Head(posted).grid ELSE islands
      BY <1>2, <2>2, <2>3 DEF Deliver, Attached
    <3> QED
      BY <2>1, <2>3, <3>1, <3>2, OfferedShown
  <2>4. CASE page.pc # "closed" /\ Head(posted).topic \notin {"result", "alarms"}
    <3>1. page' = page
      BY <1>2, <2>4, DeliveryOffers
    <3>2. alarms' = alarms /\ islands' = islands
      BY <1>2, <2>4 DEF Deliver
    <3> QED
      BY <2>1, <3>1, <3>2, <1>1
  <2>5. CASE page.pc = "closed"
    <3>1. page' = page
      BY <1>2, <2>5, DeliveryOffers
    <3> QED
      BY <2>5, <3>1 DEF ShownInv
  <2> QED
    BY <2>3, <2>4, <2>5
<1>3. ASSUME NEW id, NEW type, Annotate(id, type)
      PROVE  ShownInv'
  <2>1. hub' = hub /\ view' = view /\ islands' = islands
    BY <1>3 DEF Annotate
  <2>2. Nudge \in Events /\ Nudge.topic # "result"
    BY DEF Events, Nudge
  <2>3. CASE Known(alarms, id) /\ page.pc # "closed"
    BY <1>3, <2>1, <2>2, <2>3, CommandOffers, OfferedShown
  <2>4. CASE ~Known(alarms, id)
    BY <1>1, <1>3, <2>1, <2>4, CommandOffers DEF Annotate
  <2>5. CASE page.pc = "closed"
    <3>1. page' = page
      BY <1>3, <2>5, CommandOffers
    <3> QED
      BY <2>5, <3>1 DEF ShownInv
  <2> QED
    BY <2>3, <2>4, <2>5
<1>4. CASE Connect
  <2>1. page' = [pc |-> "opening", queue |-> <<>>, latest |-> "none", lost |-> FALSE]
        /\ hub' = "running"
    BY <1>4 DEF Connect
  <2>2. \A i \in 1..Len(<<>>) : FALSE
    OBVIOUS
  <2> QED
    BY <2>1, <2>2 DEF ShownInv
<1>5. CASE Disconnect
  BY <1>5 DEF Disconnect, ShownInv, NoPage
<1>6. CASE PushOpening
  <2>1. /\ page.pc = "opening" /\ page' = [page EXCEPT !.pc = "serving"]
        /\ view' = [grid |-> "none", alarms |-> alarms]
        /\ hub' = hub /\ alarms' = alarms /\ islands' = islands
    BY <1>6 DEF PushOpening, AlarmMessage, storeVars
  <2>2. page' = [pc |-> "serving", queue |-> page.queue, latest |-> page.latest,
                 lost |-> page.lost]
    BY <2>1, OpenPage
  <2> QED
    BY <2>1, <2>2 DEF ShownInv
<1>7. CASE PushUpdate
  <2>1. /\ page.pc = "serving" /\ page.queue # <<>> /\ page.queue \in Seq(Events)
        /\ page'.pc = "serving" /\ page'.lost = page.lost /\ page'.queue = Tail(page.queue)
        /\ page'.latest = (IF Head(page.queue).topic = "result" THEN Head(page.queue).grid
                                                                ELSE page.latest)
        /\ view' = [grid |-> page'.latest, alarms |-> alarms]
    BY <1>7, PushMoves
  <2>2. hub' = hub /\ alarms' = alarms /\ islands' = islands
    BY <1>7 DEF PushUpdate, storeVars
  <2>3. ASSUME ~page'.lost
        PROVE  /\ \A i \in 1..Len(page'.queue) :
                    LastResult(page'.queue, i) => page'.queue[i].grid = islands'
               /\ NoResult(page'.queue) /\ page'.latest # "none" => page'.latest = islands'
    <3>1. /\ \A i \in 1..Len(page.queue) : LastResult(page.queue, i) => page.queue[i].grid = islands
          /\ NoResult(page.queue) /\ page.latest # "none" => page.latest = islands
      BY <2>1, <2>3 DEF ShownInv
    <3>2. /\ \A i \in 1..Len(Tail(page.queue)) : LastResult(Tail(page.queue), i) =>
               i + 1 \in 1..Len(page.queue) /\ LastResult(page.queue, i + 1)
                 /\ Tail(page.queue)[i] = page.queue[i + 1]
          /\ NoResult(Tail(page.queue)) =>
               IF Head(page.queue).topic = "result" THEN LastResult(page.queue, 1)
                                                    ELSE NoResult(page.queue)
      BY <2>1, ResultLeaves
    <3>3. Head(page.queue) = page.queue[1] /\ 1 \in 1..Len(page.queue)
      BY <2>1, TailIs
    <3> QED
      BY <2>1, <2>2, <3>1, <3>2, <3>3
  <2>4. hub = "running"
    BY <2>1 DEF ShownInv
  <2> QED
    BY <2>1, <2>2, <2>3, <2>4 DEF ShownInv
<1>8. CASE AppFrame
  BY <1>1, <1>8, FrameKeeps
<1>9. CASE AppDies \/ AppEnds \/ Clock \/ Stop
  BY <1>1, <1>9 DEF AppDies, AppEnds, Clock, Stop, storeVars, pageVars
<1>10. CASE FinishStop
  <2>1. page.pc = "closed"
    BY <1>10 DEF FinishStop, ShownInv
  <2> QED
    BY <1>1, <1>10, <2>1 DEF FinishStop, storeVars, pageVars
<1>11. CASE UNCHANGED alarmsVars
  BY <1>1, <1>11 DEF alarmsVars
<1> QED
  BY AlarmSteps, <1>2, <1>3, <1>4, <1>5, <1>6, <1>7, <1>8, <1>9, <1>10, <1>11

-----------------------------------------------------------------------------
(* The theorems *)

\* The first state.
LEMMA AlarmsInitHolds ==
  ASSUME AlarmsInit
  PROVE  AlarmsInv
<1> USE DEF AlarmsInit
<1>1. ThreadTyped
  BY AlarmBounds DEF ThreadTyped, AppType
<1>2. PostedTyped
  <2>1. <<>> \in Seq(Messages) /\ Len(<<>>) = 0
    OBVIOUS
  <2> QED
    BY <2>1, AlarmBounds DEF PostedTyped
<1>3. <<>> \in Seq(AlarmRecord) /\ Len(<<>>) = 0
  OBVIOUS
<1>4. StoresTyped
  BY <1>3, AlarmBounds DEF StoresTyped
<1>5. SocketTyped
  BY DEF SocketTyped
<1>6. ViewTyped
  BY <1>3, AlarmBounds DEF ViewTyped, AlarmsShown
<1>7. HandlerInv
  BY DEF HandlerInv
<1>8. EventsInv
  <2>1. EventsTaken = 0 /\ EventsSent = 0
    BY DEF EventsTaken, Taken, EventsSent
  <2>2. InFlight(<<>>, 0, 0)
    BY <1>3 DEF InFlight
  <2> QED
    BY <2>1, <2>2 DEF EventsInv
<1>9. StoreInv
  BY <1>3 DEF StoreInv, Chained
<1>10. ResultsInv
  BY <1>3 DEF ResultsInv
<1>11. ShownInv
  BY DEF ShownInv, NoPage
<1> QED
  BY <1>1, <1>2, <1>4, <1>5, <1>6, <1>7, <1>8, <1>9, <1>10, <1>11 DEF AlarmsInv, AlarmTypes

\* The inductive invariant holds in every state.
THEOREM AlarmsInvariant == AlarmsSpec => []AlarmsInv
<1>1. AlarmsInit => AlarmsInv
  BY AlarmsInitHolds
<1>2. AlarmsInv /\ [AlarmsNext]_alarmsVars => AlarmsInv'
  <2> SUFFICES ASSUME AlarmsInv, [AlarmsNext]_alarmsVars
               PROVE  AlarmsInv'
    OBVIOUS
  <2> USE DEF AlarmsInv, AlarmTypes
  <2>1. ThreadTyped' /\ HandlerInv'
    BY ThreadStep
  <2>2. PostedTyped'
    BY PostedStep
  <2>3. StoresTyped' /\ StoreInv'
    BY StoresStep
  <2>4. SocketTyped'
    BY SocketStep
  <2>5. ViewTyped'
    BY ViewStep
  <2>6. EventsInv'
    BY EventsStep
  <2>7. ResultsInv'
    BY ResultsStep
  <2>8. ShownInv'
    BY ShownStep
  <2> QED
    BY <2>1, <2>2, <2>3, <2>4, <2>5, <2>6, <2>7, <2>8
<1> QED
  BY <1>1, <1>2, PTL DEF AlarmsSpec

\* With nothing on its way, the store has taken what was sent: its newest alarm
\* is open exactly when the application holds it.
LEMMA DeliveredAgree ==
  ASSUME AlarmsInv, posted = <<>>, hub = "running"
  PROVE  StoresAgree
<1>1. /\ alarms \in Seq(AlarmRecord) /\ Chained(alarms)
      /\ app.id \in 0..MaxAlarms /\ app.issued \in 0..MaxAlarms
      /\ EventsTaken = Taken(alarms) /\ Taken(alarms) \in Nat
  BY TakenIs DEF AlarmsInv, AlarmTypes, StoresTyped, ThreadTyped, AppType, StoreInv, EventsTaken
<1>2. EventsSent \in Int /\ (app.id # 0 => app.id = app.issued)
  BY SentIs DEF AlarmsInv, AlarmTypes, HandlerInv
<1>3. EventsTaken <= EventsSent /\ InFlight(<<>>, EventsTaken, EventsSent)
  BY DEF AlarmsInv, EventsInv
<1>4. Taken(alarms) = EventsSent
  <2>1. \A n \in (EventsTaken + 1)..EventsSent : FALSE
    <3>1. \A i \in 1..Len(<<>>) : FALSE
      OBVIOUS
    <3> QED
      BY <1>3, <3>1 DEF InFlight
  <2> QED
    BY <2>1, <1>1, <1>2, <1>3
<1>5. Open(alarms) = {j \in 1..Len(alarms) : ~alarms[j].ended}
  BY <1>1, RecordIs DEF Open
<1>6. {alarms[j].id : j \in Open(alarms)} = (IF app.id = 0 THEN {} ELSE {app.id})
  <2>1. CASE alarms = <<>>
    <3>1. EventsSent = 0
      BY <1>1, <1>4, <2>1, TakenIs
    <3>2. app.id = 0
      BY <3>1, <1>1, <1>2, AlarmBounds DEF EventsSent
    <3>3. Open(alarms) = {}
      BY <2>1, <1>5
    <3> QED
      BY <3>2, <3>3
  <2>2. CASE alarms # <<>>
    <3>1. /\ Len(alarms) \in 1..Len(alarms)
          /\ alarms[Len(alarms)].id \in Nat
          /\ \A j \in 1..Len(alarms) : j # Len(alarms) => alarms[j].ended
      BY <1>1, <2>2, TakenIs, RecordIs DEF Chained
    <3>2. CASE alarms[Len(alarms)].ended
      <4>1. EventsSent = 2 * alarms[Len(alarms)].id
        BY <1>1, <1>4, <2>2, <3>2, TakenIs
      <4>2. app.id = 0
        <5>1. app.id # 0 => EventsSent = 2 * app.issued - 1
          BY DEF EventsSent
        <5>2. \A a, b \in Nat : 2 * a # 2 * b - 1
          OBVIOUS
        <5> QED
          BY <4>1, <5>1, <5>2, <3>1, <1>1, AlarmBounds, SMTT(30)
      <4>3. Open(alarms) = {}
        BY <1>5, <3>1, <3>2
      <4> QED
        BY <4>2, <4>3
    <3>3. CASE ~alarms[Len(alarms)].ended
      <4>1. EventsSent = 2 * alarms[Len(alarms)].id - 1
        BY <1>1, <1>4, <2>2, <3>3, TakenIs
      <4>2. app.id # 0
        <5>1. app.id = 0 => EventsSent = 2 * app.issued
          BY <1>1 DEF EventsSent
        <5>2. \A a, b \in Nat : 2 * a - 1 # 2 * b
          OBVIOUS
        <5> QED
          BY <4>1, <5>1, <5>2, <3>1, <1>1, AlarmBounds, SMTT(30)
      <4>3. alarms[Len(alarms)].id = app.id
        <5>1. EventsSent = 2 * app.id - 1
          BY <4>2, <1>1, <1>2 DEF EventsSent
        <5> QED
          BY <4>1, <5>1, <3>1, <1>1, AlarmBounds, SMTT(30)
      <4>4. Open(alarms) = {Len(alarms)}
        BY <1>5, <3>1, <3>3
      <4> QED
        BY <4>2, <4>3, <4>4
    <3> QED
      BY <3>2, <3>3
  <2> QED
    BY <2>1, <2>2
<1>7. islands = "split" => \/ app.id # 0
                           \/ app.pc \in {"report", "alarm", "dead"} /\ app.status = "Emergency"
  <2>1. NoResult(<<>>)
    BY DEF NoResult
  <2> QED
    BY <2>1 DEF AlarmsInv, ResultsInv, HandlerInv
<1> QED
  BY <1>6, <1>7 DEF StoresAgree

\* One alarm is open at a time, the newest.  Once what was sent has arrived, the
\* alarm open in the store is the application's, and a grid shown split has one,
\* unless the thread is in the frame that saw the split or died there.
THEOREM OneAlarm == AlarmsSpec => []AlarmsAreOne
<1>1. ASSUME AlarmsInv
      PROVE  AlarmsAreOne
  <2>1. AlarmsTypeOK
    <3>1. page = NoPage \/ Len(page.queue) <= QueueMax
      BY <1>1 DEF AlarmsInv, AlarmTypes, SocketTyped
    <3> QED
      BY <1>1, <3>1
      DEF AlarmsInv, AlarmTypes, AlarmsTypeOK, ThreadTyped, PostedTyped, StoresTyped, ViewTyped,
          AppType
  <2>2. OneOpenAlarm
    <3>1. alarms \in Seq(AlarmRecord) /\ Chained(alarms)
      BY <1>1 DEF AlarmsInv, AlarmTypes, StoresTyped, StoreInv
    <3>2. \A j \in Open(alarms) : j \in 1..Len(alarms) /\ ~(j < Len(alarms)) /\ Len(alarms) \in Nat
      BY <3>1, RecordIs DEF Open, Chained
    <3>3. \A j \in Open(alarms) : j = Len(alarms)
      BY <3>2
    <3> QED
      BY <3>3 DEF OneOpenAlarm
  <2>3. StoresAgree
    <3>1. CASE posted = <<>> /\ hub = "running"
      BY <1>1, <3>1, DeliveredAgree
    <3>2. CASE ~(posted = <<>> /\ hub = "running")
      BY <3>2 DEF StoresAgree
    <3> QED
      BY <3>1, <3>2
  <2> QED
    BY <2>1, <2>2, <2>3 DEF AlarmsAreOne
<1> QED
  BY <1>1, AlarmsInvariant, PTL

\* A browser at rest shows the alarms that the store has, and the newest result
\* unless that one was dropped.
THEOREM PageIsCurrent == AlarmsSpec => []RestIsCurrent
<1>1. ASSUME AlarmsInv
      PROVE  RestIsCurrent
  <2> SUFFICES ASSUME page.pc = "serving", page.queue = <<>>
               PROVE  /\ view.alarms = alarms
                      /\ (page.latest # "none" /\ ~page.lost) => view.grid = islands
    BY DEF RestIsCurrent
  <2>1. NoResult(page.queue)
    BY DEF NoResult
  <2> QED
    BY <1>1, <2>1 DEF AlarmsInv, ShownInv
<1> QED
  BY <1>1, AlarmsInvariant, PTL

\* No step takes an alarm back to a state it has left, and none changes the
\* stores of a hub that has stopped.
THEOREM AlarmsGoForward == AlarmsSpec => StoresOnlyMoveForward
<1>1. ASSUME AlarmsInv, [AlarmsNext]_alarmsVars
      PROVE  [\A j \in DOMAIN alarms, k \in DOMAIN alarms' :
                alarms[j].id = alarms'[k].id =>
                  /\ alarms[j].status # "unseen" => alarms'[k].status # "unseen"
                  /\ alarms[j].ended => alarms'[k].ended]_alarmsVars
  <2>1. alarms \in Seq(AlarmRecord) /\ alarms' \in Seq(AlarmRecord) /\ Chained(alarms)
    BY <1>1, StoresStep DEF AlarmsInv, AlarmTypes, StoresTyped, StoreInv
  <2>2. DOMAIN alarms = 1..Len(alarms) /\ DOMAIN alarms' = 1..Len(alarms')
    BY <2>1, RecordIs
  <2>3. alarms' = alarms \/ Forward(alarms, alarms')
    BY <1>1, StoreMoves DEF AlarmsInv, AlarmTypes
  <2>4. Forward(alarms, alarms')
    <3>1. \A j, k \in 1..Len(alarms) : alarms[j].id = alarms[k].id => j = k
      BY <2>1, ChainedApart
    <3>2. Forward(alarms, alarms)
      BY <3>1 DEF Forward
    <3> QED
      BY <2>3, <3>2
  <2> QED
    BY <2>2, <2>4 DEF Forward
<1>2. ASSUME AlarmsInv, [AlarmsNext]_alarmsVars
      PROVE  [hub = "stopped" => UNCHANGED <<alarms, islands>>]_alarmsVars
  <2> SUFFICES ASSUME hub = "stopped"
               PROVE  alarms' = alarms /\ islands' = islands
    OBVIOUS
  <2>1. alarms' = alarms
    BY <1>2, StoreMoves DEF AlarmsInv, AlarmTypes
  <2>2. CASE Deliver
    BY <2>1, <2>2 DEF Deliver, Attached
  <2>3. CASE AppFrame
    BY <2>1, <2>3, FrameKeeps
  <2>4. CASE AppDies \/ AppEnds \/ Clock \/ Stop \/ FinishStop
    BY <2>1, <2>4 DEF AppDies, AppEnds, Clock, Stop, FinishStop, storeVars
  <2>5. CASE Connect \/ Disconnect \/ PushOpening \/ PushUpdate \/ UNCHANGED alarmsVars
    BY <2>1, <2>5 DEF Connect, Disconnect, PushOpening, PushUpdate, alarmsVars, storeVars
  <2>6. ASSUME NEW id, NEW type, Annotate(id, type)
        PROVE  islands' = islands
    BY <2>6 DEF Annotate
  <2> QED
    BY <1>2, AlarmSteps, <2>1, <2>2, <2>3, <2>4, <2>5, <2>6
<1> QED
  BY <1>1, <1>2, AlarmsInvariant, PTL
  DEF AlarmsSpec, StoresOnlyMoveForward, AlarmsNeverGoBack, StoppedStoresRest

=============================================================================
