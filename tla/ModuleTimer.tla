----------------------------- MODULE ModuleTimer -----------------------------
(***************************************************************************)
(* The timers of one module (util/Module.cpp).  Setting and killing a      *)
(* timer posts a message to the module's own queue, and so does a timer    *)
(* that is due.  After every batch of messages the module's thread goes    *)
(* through its list of timers and works out how long it may sleep.         *)
(*                                                                         *)
(* The queue is the FIFO of ModuleFifo, with room for everything here.     *)
(* The list of timers is a set: its order is only that of the ticks posted *)
(* in one round, which is left open.                                       *)
(* Time is an unsigned integer that wraps; the difference of two times is  *)
(* taken as a signed one.                                                  *)
(***************************************************************************)
EXTENDS Integers, Sequences, FiniteSets, FiniteSetsExt, Functions

CONSTANTS
  Obj,        \* objects that have timers (CMsgTarget)
  Id,         \* their timer ids
  Setting,    \* pairs of period and count used with SetTimer
  Wrap,       \* 2^32: an unsigned int is 0 .. Wrap - 1
  MinEscape,  \* shortest period SetTimer takes
  MaxSleep,   \* longest sleep ProcTimer asks for
  MaxLate,    \* bound: how long a round of the thread takes
  MaxCall     \* bound: calls of SetTimer and KillTimer

Word == 0 .. Wrap - 1
Forever == Wrap - 1  \* 0xFFFFFFFF: as unTimes without end, as unTimerId all

\* A period and a late round take less than half the range of time, which is
\* 24 days in the code.
ASSUME TimerAssumption ==
  /\ Wrap \in Nat \ {0}
  /\ MinEscape \in Nat /\ MaxLate \in Nat /\ MaxCall \in Nat
  /\ MaxSleep \in Nat
  /\ Setting \subseteq [escape : Word, times : Word]
  /\ Id \subseteq Word \ {Forever}
  /\ \A s \in Setting : 2 * (s.escape + 2 * MaxLate + MaxSleep) < Wrap

Key == [obj : Obj, id : Id]

Entry == [obj : Obj, id : Id, escape : Word, time : Word, times : Word]

Message == [kind : {"SETTIMER", "KILLTIMER", "ONTIMER"},
            mt : [obj : Obj, id : Id \cup {Forever}, escape : Word,
                  time : Word, times : Word]]

VARIABLES
  timers,  \* m_lstMT
  queue,   \* messages posted
  batch,   \* messages of this round still to be handled
  pc,      \* where the thread is in Run
  sleep,   \* time left to sleep
  now,     \* CAoTime::CurrentTick
  late,    \* time passed since the thread could go on
  calls,   \* calls of SetTimer and KillTimer so far
  asked,   \* history: count a timer was set with, 0 once killed
  fired    \* history: ticks posted since it was set

tVars == <<timers, queue, batch, pc, sleep, now, late, calls, asked, fired>>

TimerTypeOK ==
  /\ timers \subseteq Entry /\ IsFiniteSet(timers)
  /\ queue \in Seq(Message)
  /\ batch \in Seq(Message)
  /\ pc \in {"wait", "handle"}
  /\ sleep \in 0 .. MaxSleep
  /\ now \in Word
  /\ late \in 0 .. MaxLate
  /\ calls \in 0 .. MaxCall
  /\ asked \in [Key -> Word]
  /\ fired \in [Key -> Nat]

TimerInit ==
  /\ timers = {}
  /\ queue = <<>>
  /\ batch = <<>>
  /\ pc = "wait"
  /\ sleep = MaxSleep
  /\ now \in Word
  /\ late = 0
  /\ calls = 0
  /\ asked = [k \in Key |-> 0]
  /\ fired = [k \in Key |-> 0]
-----------------------------------------------------------------------------
KeyOf(t) == [obj |-> t.obj, id |-> t.id]

\* (int)(unTime + unEscape - now): time left, negative when overdue.
Left(t) ==
  LET d == (t.time + t.escape + Wrap - now) % Wrap
  IN  IF 2 * d < Wrap THEN d ELSE d - Wrap

Call(kind, t) ==
  /\ calls < MaxCall
  /\ calls' = calls + 1
  /\ queue' = Append(queue, [kind |-> kind, mt |-> t])
  /\ UNCHANGED <<timers, batch, pc, sleep, now, late, asked, fired>>

SetTimer(k, s) ==
  /\ s.escape >= MinEscape
  /\ Call("SETTIMER", [obj |-> k.obj, id |-> k.id, escape |-> s.escape,
                       time |-> now, times |-> s.times])

\* For one timer, or with Forever as its id for all timers of the object.
KillTimer(o, id) ==
  Call("KILLTIMER", [obj |-> o, id |-> id, escape |-> 0, time |-> now,
                     times |-> 0])
-----------------------------------------------------------------------------
\* Handlers; each takes the timer the message carries.

\* Mutant of OnSetTimer: a timer that runs already is added again.
OnSetTimerTwice(t) ==
  /\ timers' = timers \cup {t}
  /\ asked' = [asked EXCEPT ![KeyOf(t)] = t.times]
  /\ fired' = [fired EXCEPT ![KeyOf(t)] = 0]

\* A timer with the same key is given new values.
OnSetTimer(t) ==
  /\ timers' = {e \in timers : KeyOf(e) # KeyOf(t)} \cup {t}
  /\ asked' = [asked EXCEPT ![KeyOf(t)] = t.times]
  /\ fired' = [fired EXCEPT ![KeyOf(t)] = 0]

\* Mutant of Kills: no id stands for all timers of an object.
KillsOne(t, k) == t.obj = k.obj /\ t.id = k.id

Kills(t, k) == t.obj = k.obj /\ t.id \in {k.id, Forever}

OnKillTimer(t) ==
  /\ timers' = {e \in timers : ~Kills(t, KeyOf(e))}
  /\ asked' = [k \in Key |->
                 IF t.obj = k.obj /\ t.id \in {k.id, Forever} THEN 0
                 ELSE asked[k]]
  /\ UNCHANGED fired

Handle ==
  /\ pc = "handle"
  /\ batch # <<>>
  /\ LET msg == Head(batch)
     IN  \/ msg.kind = "SETTIMER" /\ OnSetTimer(msg.mt)
         \/ msg.kind = "KILLTIMER" /\ OnKillTimer(msg.mt)
         \/ msg.kind = "ONTIMER" /\ UNCHANGED <<timers, asked, fired>>
  /\ batch' = Tail(batch)
  /\ UNCHANGED <<queue, pc, sleep, now, late, calls>>
-----------------------------------------------------------------------------
\* The count of an endless timer becomes the time: unTimes is given unTime
\* where it should stay as it is.
Fired(t) ==
  [t EXCEPT !.time = now,
            !.times = IF t.times # Forever THEN t.times - 1 ELSE now]

\* Mutant of Rest: a whole period, whenever it began.
RestWhole(t) == t.escape

\* Mutant of Rest: the negative time left of an overdue timer.
RestOverdue(t) == Left(t)

\* How long the thread may sleep for t.
Rest(t) == IF Left(t) <= 0 THEN t.escape ELSE Left(t)

Live == {t \in timers : t.times # 0}
Due == {t \in Live : Left(t) <= 0}

\* Ticks of the timers in order, one after the other.
Ticks(order) == [i \in DOMAIN order |-> [kind |-> "ONTIMER", mt |-> order[i]]]

\* After the batch; then the thread waits.
ProcTimer ==
  /\ pc = "handle"
  /\ batch = <<>>
  /\ timers' = (Live \ Due) \cup {Fired(t) : t \in Due}
  /\ \E order \in Bijection(1 .. Cardinality(Due), Due) :
       queue' = queue \o Ticks(order)
  /\ sleep' = Min({MaxSleep} \cup {Rest(t) : t \in Live})
  /\ fired' = [k \in Key |->
                 fired[k] + Cardinality({t \in Due : KeyOf(t) = k})]
  /\ late' = 0
  /\ pc' = "wait"
  /\ UNCHANGED <<batch, now, calls, asked>>

\* Mutant of Wake: only a post ends the wait.
WakePosted ==
  /\ pc = "wait"
  /\ queue # <<>>
  /\ batch' = queue
  /\ queue' = <<>>
  /\ pc' = "handle"
  /\ UNCHANGED <<timers, sleep, now, late, calls, asked, fired>>

\* The wait ends and the buffers are swapped.
Wake ==
  /\ pc = "wait"
  /\ queue # <<>> \/ sleep = 0
  /\ batch' = queue
  /\ queue' = <<>>
  /\ pc' = "handle"
  /\ UNCHANGED <<timers, sleep, now, late, calls, asked, fired>>

Asleep == pc = "wait" /\ sleep > 0 /\ queue = <<>>

\* Time passes: while the thread sleeps, or because it is slow.
TimePasses ==
  /\ now' = (now + 1) % Wrap
  /\ IF Asleep THEN UNCHANGED late ELSE late < MaxLate /\ late' = late + 1
  /\ sleep' = IF pc = "wait" /\ sleep > 0 THEN sleep - 1 ELSE sleep
  /\ UNCHANGED <<timers, queue, batch, pc, calls, asked, fired>>

Thread == Wake \/ Handle \/ ProcTimer

TimerNext ==
  \/ Thread
  \/ TimePasses
  \/ \E k \in Key, s \in Setting : SetTimer(k, s)
  \/ \E o \in Obj, id \in Id \cup {Forever} : KillTimer(o, id)

TimerSpec == TimerInit /\ [][TimerNext]_tVars

\* The thread goes on whenever it may; time passes.
FairTimerSpec == TimerSpec /\ WF_tVars(Thread) /\ WF_tVars(TimePasses)
-----------------------------------------------------------------------------
Running(k) == \E t \in Live : KeyOf(t) = k

\* A timer never has two ticks waiting, whether the thread is slow or the timer
\* is set again and again (OnSetTimer, Module.cpp:161-169; aods sets its timer
\* on every authentication).
OneTick ==
  \A k \in Key :
    LET ticks(s) == {i \in DOMAIN s : s[i].kind = "ONTIMER" /\ KeyOf(s[i].mt) = k}
    IN  Cardinality(ticks(batch)) + Cardinality(ticks(queue)) <= 1

\* The thread does not sleep past the end of any period, also of those that
\* have just begun anew (ProcTimer, Module.cpp:138-146).
NeverOversleeps ==
  Asleep => \A t \in Live : sleep <= Left(t)

\* Nothing is posted for a timer after its kill was handled: not for one that
\* was due by then, nor after a kill of all timers of its object
\* (OnKillTimer, Module.cpp:174-186).
KilledStaysSilent ==
  [][\A k \in Key : asked[k] = 0 => fired'[k] <= fired[k]]_tVars

\* A timer that was set ticks, unless it is killed first, although times wrap
\* (Module.cpp:138).
SetTicks ==
  \A k \in Key : Running(k) /\ fired[k] = 0 ~> fired[k] > 0 \/ ~Running(k)

\* A timer set without end goes on until it is killed, as ProcTimer's exception
\* for 0xFFFFFFFF means it to (Module.cpp:144).
EndlessGoesOn == \A k \in Key : asked[k] = Forever => Running(k)
=============================================================================
