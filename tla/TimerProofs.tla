----------------------------- MODULE TimerProofs -----------------------------
(***************************************************************************)
(* Proofs about ModuleTimer, for every set of objects, ids and settings,   *)
(* every width of the clock and every lateness of the thread.              *)
(***************************************************************************)
EXTENDS ModuleTimer, TLAPS, FiniteSetTheorems, WellFoundedInduction

IsTick(m) == m.kind = "ONTIMER"

\* A timer is in the list once.
Unique == \A a, b \in timers : KeyOf(a) = KeyOf(b) => a = b

\* Of each timer there is one tick among the messages s.
TickOnce(s) ==
  \A i, j \in DOMAIN s :
    (IsTick(s[i]) /\ IsTick(s[j]) /\ KeyOf(s[i].mt) = KeyOf(s[j].mt)) => i = j

\* The ticks of one round are handled before the next are posted.
Rounds ==
  /\ pc = "wait" => batch = <<>>
  /\ pc = "handle" => \A i \in DOMAIN queue : ~IsTick(queue[i])

\* A period less than half the range of time.
Short(t) == 2 * t.escape < Wrap

\* Only a kill names all timers of an object.
Posted(s) ==
  \A i \in DOMAIN s : s[i].kind = "SETTIMER" => s[i].mt.id \in Id /\ Short(s[i].mt)

Periods == \A t \in timers : Short(t)

\* No period ends before the thread is to wake, whatever has been posted since.
Rested == (pc = "wait" /\ sleep > 0) => \A t \in Live : sleep <= Left(t)

\* What runs was set and not killed.
Asked == \A t \in Live : asked[KeyOf(t)] # 0

Good(s) == s \in Seq(Message) /\ TickOnce(s) /\ Posted(s)

TimerInv ==
  /\ TimerTypeOK /\ Unique /\ Periods /\ Rounds
  /\ Good(queue) /\ Good(batch)
  /\ Rested /\ Asked
-----------------------------------------------------------------------------
(* Numbers. *)

\* The least of some natural numbers.
LEMMA MinOf ==
  ASSUME NEW S, S \subseteq Nat, S # {}
  PROVE  Min(S) \in S /\ \A n \in S : Min(S) <= n
<1> DEFINE R == {ss \in Nat \X Nat : ss[1] < ss[2]}
<1>1. IsWellFoundedOn(R, Nat)
  BY NatLessThanWellFounded, Zenon DEF OpToRel
<1> HIDE DEF R
<1>2. PICK m \in S : \A n \in S : ~(<<n, m>> \in R)
  BY <1>1, WFMin, Zenon
<1>3. \A n \in S : m <= n
  <2> SUFFICES ASSUME NEW n \in S, n < m PROVE FALSE
    OBVIOUS
  <2>1. <<n, m>> \in R
    BY DEF R
  <2> QED
    BY <1>2, <2>1
<1> QED
  BY <1>2, <1>3 DEF Min

\* The remainder of what is less than three times the divisor.
LEMMA Remainder ==
  ASSUME NEW n \in Nat, NEW w \in Nat \ {0}, n < 3 * w
  PROVE  n % w = IF n < w THEN n ELSE IF n < 2 * w THEN n - w ELSE n - 2 * w
OBVIOUS

\* A clock that ticks brings every end nearer by one.
LEMMA Nearer ==
  ASSUME NEW w \in Nat \ {0}, NEW end \in Nat, end < 2 * w,
         NEW n \in 0 .. w - 1, (end + w - n) % w > 0
  PROVE  (end + w - ((n + 1) % w)) % w = ((end + w - n) % w) - 1
<1> DEFINE last == end + w - n
           this == end + w - ((n + 1) % w)
<1>1. (n + 1) % w = IF n + 1 < w THEN n + 1 ELSE 0
  <2> DEFINE next == n + 1
  <2>1. next \in Nat /\ next < 3 * w /\ next <= w
    OBVIOUS
  <2> HIDE DEF next
  <2>2. next % w = IF next < w THEN next
                   ELSE IF next < 2 * w THEN next - w ELSE next - 2 * w
    BY <2>1, Remainder
  <2>3. next % w = IF next < w THEN next ELSE 0
    BY <2>1, <2>2
  <2> QED
    BY <2>3 DEF next
<1>2. /\ last \in Nat /\ last < 3 * w
      /\ this \in Nat /\ this < 3 * w
      /\ \/ this = last - 1
         \/ n + 1 = w /\ last = end + 1 /\ this = end + w
  BY <1>1
<1> HIDE DEF last, this
<1>3. last % w = IF last < w THEN last
                 ELSE IF last < 2 * w THEN last - w ELSE last - 2 * w
  BY <1>2, Remainder
<1>4. this % w = IF this < w THEN this
                 ELSE IF this < 2 * w THEN this - w ELSE this - 2 * w
  BY <1>2, Remainder
<1>5. last % w > 0
  BY DEF last
<1>6. this % w = (last % w) - 1
  BY <1>2, <1>3, <1>4, <1>5
<1> QED
  BY <1>6 DEF last, this

LEMMA EntryFields ==
  ASSUME NEW t \in Entry
  PROVE  /\ t.id \in Id /\ KeyOf(t) \in Key
         /\ t.escape \in Word /\ t.time \in Word /\ t.times \in Word
         /\ Word \subseteq Nat
BY TimerAssumption DEF Entry, Key, KeyOf, Word

\* What is left is a number, and less than half the range when positive.
LEMMA LeftType ==
  ASSUME NEW t \in Entry, now \in Word
  PROVE  Left(t) \in Int /\ 2 * Left(t) < Wrap
<1>1. /\ Wrap \in Nat \ {0} /\ now \in 0 .. Wrap - 1
      /\ t.time \in 0 .. Wrap - 1 /\ t.escape \in 0 .. Wrap - 1
  BY TimerAssumption, EntryFields DEF Word
<1>2. (t.time + t.escape + Wrap - now) % Wrap \in 0 .. Wrap - 1
  BY <1>1
<1> QED
  BY <1>1, <1>2 DEF Left

\* While time passes.
LEMMA LeftPasses ==
  ASSUME NEW t \in Entry, now \in Word, now' = (now + 1) % Wrap, Left(t) > 0
  PROVE  Left(t)' = Left(t) - 1
<1> DEFINE end == t.time + t.escape
           d == (end + Wrap - now) % Wrap
           e == (end + Wrap - now') % Wrap
<1>1. /\ Wrap \in Nat \ {0} /\ now \in 0 .. Wrap - 1
      /\ end \in Nat /\ end < 2 * Wrap
  BY TimerAssumption, EntryFields DEF Word
<1>2. d \in 0 .. Wrap - 1
  BY <1>1
<1>3. Left(t) = (IF 2 * d < Wrap THEN d ELSE d - Wrap)
      /\ Left(t)' = (IF 2 * e < Wrap THEN e ELSE e - Wrap)
  BY DEF Left
<1>4. d > 0 /\ 2 * d < Wrap /\ Left(t) = d
  <2> HIDE DEF d, e, end
  <2> QED
    BY <1>1, <1>2, <1>3
<1>5. e = d - 1
  <2> HIDE DEF end
  <2> QED
    BY <1>1, <1>4, Nearer
<1> HIDE DEF d, e, end
<1> QED
  BY <1>1, <1>2, <1>3, <1>4, <1>5

\* A timer that has just ticked has its whole period before it.
LEMMA LeftFired ==
  ASSUME NEW t \in Entry, now \in Word, Short(t)
  PROVE  Fired(t) \in Entry => Left(Fired(t)) = t.escape
<1> SUFFICES ASSUME Fired(t) \in Entry PROVE Left(Fired(t)) = t.escape
  OBVIOUS
<1>1. Fired(t).time = now /\ Fired(t).escape = t.escape
  BY DEF Fired, Entry
<1>2. /\ Wrap \in Nat \ {0} /\ now \in Nat
      /\ t.escape \in Nat /\ t.escape < Wrap
  BY TimerAssumption, EntryFields DEF Word
<1>3. (now + t.escape + Wrap - now) % Wrap = t.escape
  <2>1. /\ now + t.escape + Wrap - now = t.escape + Wrap
        /\ t.escape + Wrap \in Nat /\ t.escape + Wrap < 3 * Wrap
    BY <1>2
  <2> DEFINE n == t.escape + Wrap
  <2>2. /\ n \in Nat /\ n < 3 * Wrap /\ n - Wrap = t.escape
        /\ ~(n < Wrap) /\ n < 2 * Wrap
    BY <1>2
  <2> HIDE DEF n
  <2>3. n % Wrap = n - Wrap
    BY <1>2, <2>2, Remainder
  <2> QED
    BY <2>1, <2>2, <2>3 DEF n
<1> QED
  BY <1>1, <1>3 DEF Left, Short
-----------------------------------------------------------------------------
(* Sequences of messages. *)

LEMMA SeqElements ==
  ASSUME NEW S, NEW s \in Seq(S)
  PROVE  /\ Len(s) \in Nat /\ DOMAIN s = 1 .. Len(s)
         /\ \A i \in DOMAIN s : s[i] \in S
OBVIOUS

\* A message posted last that is no tick.
LEMMA AppendGood ==
  ASSUME NEW s, Good(s), NEW m \in Message, ~IsTick(m),
         m.kind = "SETTIMER" => m.mt.id \in Id /\ Short(m.mt)
  PROVE  /\ Good(Append(s, m))
         /\ (\A i \in DOMAIN s : ~IsTick(s[i])) =>
              \A i \in DOMAIN Append(s, m) : ~IsTick(Append(s, m)[i])
<1> DEFINE r == Append(s, m)
<1>1. /\ s \in Seq(Message) /\ r \in Seq(Message)
      /\ Len(s) \in Nat /\ Len(r) = Len(s) + 1
      /\ \A i \in 1 .. Len(r) : r[i] = IF i <= Len(s) THEN s[i] ELSE m
  BY DEF Good
<1>2. DOMAIN s = 1 .. Len(s) /\ DOMAIN r = 1 .. Len(r)
  BY <1>1, SeqElements
<1> HIDE DEF r
<1>3. \A i \in DOMAIN r : (i \in DOMAIN s /\ r[i] = s[i]) \/ r[i] = m
  BY <1>1, <1>2
<1>4. TickOnce(r) /\ Posted(r)
  BY <1>3 DEF Good, TickOnce, Posted
<1>5. (\A i \in DOMAIN s : ~IsTick(s[i])) => \A i \in DOMAIN r : ~IsTick(r[i])
  BY <1>3
<1> QED
  BY <1>1, <1>4, <1>5 DEF Good, r

\* The messages behind the first.
LEMMA TailGood ==
  ASSUME NEW s, Good(s), s # <<>>
  PROVE  Good(Tail(s)) /\ Head(s) \in Message
         /\ (Head(s).kind = "SETTIMER" =>
               Head(s).mt.id \in Id /\ Short(Head(s).mt))
<1> DEFINE r == Tail(s)
<1>1. /\ s \in Seq(Message) /\ r \in Seq(Message)
      /\ Len(s) \in Nat /\ Len(s) > 0 /\ Len(r) = Len(s) - 1
      /\ \A i \in 1 .. Len(r) : r[i] = s[i + 1]
      /\ Head(s) = s[1]
  BY DEF Good
<1>2. DOMAIN s = 1 .. Len(s) /\ DOMAIN r = 1 .. Len(r) /\ s[1] \in Message
  BY <1>1, SeqElements
<1> HIDE DEF r
<1>3. \A i \in DOMAIN r : i + 1 \in DOMAIN s /\ r[i] = s[i + 1] /\ i \in Nat
  BY <1>1, <1>2
<1>4. TickOnce(r)
  <2> SUFFICES ASSUME NEW i \in DOMAIN r, NEW j \in DOMAIN r,
                      IsTick(r[i]), IsTick(r[j]),
                      KeyOf(r[i].mt) = KeyOf(r[j].mt)
               PROVE  i = j
    BY DEF TickOnce
  <2>1. i + 1 = j + 1
    BY <1>3 DEF Good, TickOnce
  <2> QED
    BY <1>3, <2>1
<1>5. Posted(r)
  BY <1>3 DEF Good, Posted
<1>6. 1 \in DOMAIN s
  BY <1>1, <1>2
<1> QED
  BY <1>1, <1>2, <1>4, <1>5, <1>6 DEF Good, Posted, r

\* The ticks of one round, in any order, behind messages that are none.
LEMMA TicksGood ==
  ASSUME NEW s, Good(s), \A i \in DOMAIN s : ~IsTick(s[i]),
         NEW D, D \subseteq Entry, IsFiniteSet(D),
         \A a, b \in D : KeyOf(a) = KeyOf(b) => a = b,
         NEW order \in Bijection(1 .. Cardinality(D), D)
  PROVE  Good(s \o Ticks(order))
<1> DEFINE n == Cardinality(D)
           q == Ticks(order)
           r == s \o q
<1>1. n \in Nat
  BY FS_CardinalityType
<1>2. /\ order \in [1 .. n -> D]
      /\ \A i, j \in 1 .. n : order[i] = order[j] => i = j
  BY DEF Bijection, Injection, IsInjective
<1>3. q = [i \in 1 .. n |-> [kind |-> "ONTIMER", mt |-> order[i]]]
  BY <1>2 DEF Ticks
<1>4. \A i \in 1 .. n : [kind |-> "ONTIMER", mt |-> order[i]] \in Message
  <2> TAKE i \in 1 .. n
  <2>1. order[i] \in Entry
    BY <1>2
  <2>2. order[i] \in [obj : Obj, id : Id \cup {Forever}, escape : Word,
                      time : Word, times : Word]
    BY <2>1 DEF Entry
  <2> QED
    BY <2>2 DEF Message
<1> HIDE DEF n
<1>5. /\ q \in Seq(Message) /\ Len(q) = n
      /\ \A i \in 1 .. n : IsTick(q[i]) /\ q[i].mt = order[i]
  BY <1>1, <1>3, <1>4 DEF IsTick
<1> HIDE DEF q
<1>6. /\ s \in Seq(Message) /\ r \in Seq(Message)
      /\ Len(s) \in Nat /\ Len(r) = Len(s) + n
      /\ \A i \in 1 .. Len(r) : r[i] = IF i <= Len(s) THEN s[i] ELSE q[i - Len(s)]
  BY <1>1, <1>5 DEF Good
<1>7. DOMAIN s = 1 .. Len(s) /\ DOMAIN r = 1 .. Len(r)
  BY <1>6, SeqElements
<1> HIDE DEF r
<1>8. \A i \in DOMAIN r :
        \/ i \in DOMAIN s /\ r[i] = s[i]
        \/ /\ i - Len(s) \in 1 .. n /\ i \in Nat
           /\ IsTick(r[i]) /\ r[i].mt = order[i - Len(s)]
  BY <1>1, <1>5, <1>6, <1>7
<1>9. TickOnce(r)
  <2> SUFFICES ASSUME NEW i \in DOMAIN r, NEW j \in DOMAIN r,
                      IsTick(r[i]), IsTick(r[j]),
                      KeyOf(r[i].mt) = KeyOf(r[j].mt)
               PROVE  i = j
    BY DEF TickOnce
  <2>1. /\ i - Len(s) \in 1 .. n /\ r[i].mt = order[i - Len(s)] /\ i \in Nat
        /\ j - Len(s) \in 1 .. n /\ r[j].mt = order[j - Len(s)] /\ j \in Nat
    BY <1>8
  <2>2. order[i - Len(s)] = order[j - Len(s)]
    BY <1>2, <2>1
  <2>3. i - Len(s) = j - Len(s)
    BY <1>2, <2>1, <2>2
  <2> QED
    BY <1>6, <2>1, <2>3
<1>10. Posted(r)
  BY <1>8 DEF Good, Posted, IsTick
<1> QED
  BY <1>6, <1>9, <1>10 DEF Good, r, q
-----------------------------------------------------------------------------
LEMMA TimerStart == TimerInit => TimerInv
<1> SUFFICES ASSUME TimerInit PROVE TimerInv
  OBVIOUS
<1>1. TimerTypeOK
  <2>1. MaxSleep \in 0 .. MaxSleep /\ 0 \in 0 .. MaxLate /\ 0 \in 0 .. MaxCall
        /\ 0 \in Word
    BY TimerAssumption DEF Word
  <2> QED
    BY <2>1, FS_EmptySet DEF TimerInit, TimerTypeOK
<1>2. Good(<<>>)
  BY DEF Good, TickOnce, Posted
<1>3. Rounds /\ Unique /\ Periods /\ Rested /\ Asked
  BY DEF TimerInit, Rounds, Unique, Periods, Rested, Asked, Live
<1> QED
  BY <1>1, <1>2, <1>3 DEF TimerInit, TimerInv

\* SetTimer and KillTimer post a message that is no tick.
LEMMA CallKeeps ==
  ASSUME TimerInv, NEW kind, NEW t, Call(kind, t),
         [kind |-> kind, mt |-> t] \in Message, kind # "ONTIMER",
         kind = "SETTIMER" => t.id \in Id /\ Short(t)
  PROVE  TimerInv'
<1> DEFINE m == [kind |-> kind, mt |-> t]
<1>1. m \in Message /\ ~IsTick(m) /\ m.kind = kind /\ m.mt = t
  BY DEF IsTick
<1>2. queue' = Append(queue, m)
      /\ UNCHANGED <<timers, batch, pc, sleep, now, late, asked, fired>>
  BY DEF Call
<1> HIDE DEF m
<1>3. Good(queue')
      /\ (pc = "handle" => \A i \in DOMAIN queue' : ~IsTick(queue'[i]))
  BY <1>1, <1>2, AppendGood DEF TimerInv, Rounds
<1>4. TimerTypeOK'
  <2>1. calls' \in 0 .. MaxCall
    BY TimerAssumption DEF TimerInv, TimerTypeOK, Call
  <2> QED
    BY <1>2, <1>3, <2>1 DEF TimerInv, TimerTypeOK, Good
<1>5. Good(batch)' /\ Good(queue)'
  BY <1>2, <1>3 DEF TimerInv, Good, TickOnce, Posted
<1>6. Unique' /\ Periods' /\ Rested' /\ Asked'
  BY <1>2 DEF TimerInv, Unique, Periods, Rested, Asked, Live, Left
<1>7. Rounds'
  BY <1>2, <1>3 DEF TimerInv, Rounds
<1> QED
  BY <1>4, <1>5, <1>6, <1>7 DEF TimerInv

LEMMA SetKeeps ==
  ASSUME TimerInv, NEW k \in Key, NEW s \in Setting, SetTimer(k, s)
  PROVE  TimerInv'
<1> DEFINE t == [obj |-> k.obj, id |-> k.id, escape |-> s.escape,
                 time |-> now, times |-> s.times]
<1>1. s.escape \in Word /\ s.times \in Word /\ now \in Word
      /\ k.obj \in Obj /\ k.id \in Id
  BY TimerAssumption DEF TimerInv, TimerTypeOK, Key
<1>2. Short(t)
  <2>1. /\ 2 * (s.escape + 2 * MaxLate + MaxSleep) < Wrap /\ s.escape \in Nat
        /\ MaxLate \in Nat /\ MaxSleep \in Nat /\ Wrap \in Nat
    BY <1>1, TimerAssumption DEF Word
  <2> QED
    BY <2>1 DEF Short
<1>3. [kind |-> "SETTIMER", mt |-> t] \in Message /\ t.id \in Id
  BY <1>1 DEF Message
<1>4. Call("SETTIMER", t)
  BY DEF SetTimer
<1> HIDE DEF t
<1> QED
  BY <1>2, <1>3, <1>4, CallKeeps

LEMMA KillKeeps ==
  ASSUME TimerInv, NEW o \in Obj, NEW id \in Id \cup {Forever}, KillTimer(o, id)
  PROVE  TimerInv'
<1> DEFINE t == [obj |-> o, id |-> id, escape |-> 0, time |-> now, times |-> 0]
<1>1. 0 \in Word /\ now \in Word
  BY TimerAssumption DEF TimerInv, TimerTypeOK, Word
<1>2. [kind |-> "KILLTIMER", mt |-> t] \in Message
  BY <1>1 DEF Message
<1>3. Call("KILLTIMER", t)
  BY DEF KillTimer
<1> HIDE DEF t
<1> QED
  BY <1>2, <1>3, CallKeeps

\* The wait ends.
LEMMA WakeKeeps == TimerInv /\ Wake => TimerInv'
<1> SUFFICES ASSUME TimerInv, Wake PROVE TimerInv'
  OBVIOUS
<1>1. /\ batch' = queue /\ queue' = <<>> /\ pc' = "handle"
      /\ UNCHANGED <<timers, sleep, now, late, calls, asked, fired>>
  BY DEF Wake
<1>2. Good(<<>>)
  BY DEF Good, TickOnce, Posted
<1>3. Good(batch') /\ Good(queue')
  BY <1>1, <1>2 DEF TimerInv
<1>4. Good(batch)' /\ Good(queue)'
  BY <1>3 DEF Good, TickOnce, Posted
<1>5. TimerTypeOK'
  BY <1>1, <1>3 DEF TimerInv, TimerTypeOK, Good
<1>6. Unique' /\ Periods' /\ Asked' /\ Rested' /\ Rounds'
  BY <1>1 DEF TimerInv, Unique, Periods, Asked, Rested, Rounds, Live
<1> QED
  BY <1>4, <1>5, <1>6 DEF TimerInv

\* While time passes the sleep grows shorter by as much as what is left.
LEMMA PassKeeps == TimerInv /\ TimePasses => TimerInv'
<1> SUFFICES ASSUME TimerInv, TimePasses PROVE TimerInv'
  OBVIOUS
<1>1. /\ now' = (now + 1) % Wrap
      /\ sleep' = IF pc = "wait" /\ sleep > 0 THEN sleep - 1 ELSE sleep
      /\ UNCHANGED <<timers, queue, batch, pc, calls, asked, fired>>
  BY DEF TimePasses
<1>2. /\ timers \subseteq Entry /\ now \in Word /\ sleep \in 0 .. MaxSleep
      /\ MaxSleep \in Nat /\ MaxLate \in Nat
      /\ now \in Nat /\ Wrap \in Nat \ {0} /\ late \in 0 .. MaxLate
  BY TimerAssumption DEF TimerInv, TimerTypeOK, Word
<1>3. now' \in Word
  BY <1>1, <1>2 DEF Word
<1>4. sleep' \in 0 .. MaxSleep
  BY <1>1, <1>2
<1>5. late' \in 0 .. MaxLate
  BY <1>2 DEF TimePasses
<1>6. TimerTypeOK'
  BY <1>1, <1>3, <1>4, <1>5 DEF TimerInv, TimerTypeOK
<1>7. Rested'
  <2>1. SUFFICES ASSUME pc' = "wait", sleep' > 0, NEW t \in Live'
                 PROVE  sleep' <= Left(t)'
    BY DEF Rested
  <2>2. pc = "wait" /\ sleep > 0 /\ sleep' = sleep - 1 /\ sleep \in Nat
        /\ t \in Live /\ t \in Entry
    BY <1>1, <1>2, <2>1 DEF Live
  <2>3. sleep <= Left(t) /\ Left(t) \in Int
    BY <1>2, <2>2, LeftType DEF TimerInv, Rested
  <2>4. Left(t)' = Left(t) - 1
    BY <1>1, <1>2, <2>2, <2>3, LeftPasses
  <2> QED
    BY <2>2, <2>3, <2>4
<1>8. Unique' /\ Periods' /\ Asked' /\ Rounds'
  BY <1>1 DEF TimerInv, Unique, Periods, Asked, Rounds, Live
<1>9. Good(batch)' /\ Good(queue)'
  BY <1>1 DEF TimerInv, Good, TickOnce, Posted
<1> QED
  BY <1>6, <1>7, <1>8, <1>9 DEF TimerInv
-----------------------------------------------------------------------------
\* What the handlers leave of the list, with asked, keeps it what it is.
TimersGood ==
  /\ timers \subseteq Entry /\ IsFiniteSet(timers) /\ Unique /\ Periods /\ Asked
  /\ asked \in [Key -> Word] /\ fired \in [Key -> Nat]

LEMMA AskedIs ==
  Asked' <=> \A e \in timers' : e.times # 0 => asked'[KeyOf(e)] # 0
BY DEF Asked, Live

LEMMA OnSetKeeps ==
  ASSUME TimersGood, NEW t \in Entry, Short(t), OnSetTimer(t)
  PROVE  TimersGood'
<1> DEFINE kept == {e \in timers : KeyOf(e) # KeyOf(t)}
<1>1. /\ timers' = kept \cup {t}
      /\ asked' = [asked EXCEPT ![KeyOf(t)] = t.times]
      /\ fired' = [fired EXCEPT ![KeyOf(t)] = 0]
  BY DEF OnSetTimer
<1>2. KeyOf(t) \in Key /\ t.times \in Word
  BY EntryFields
<1>3. asked' \in [Key -> Word] /\ fired' \in [Key -> Nat]
  BY <1>1, <1>2 DEF TimersGood
<1>4. timers' \subseteq Entry /\ IsFiniteSet(timers')
  <2>1. IsFiniteSet(kept) /\ IsFiniteSet({t})
    BY FS_Subset, FS_Singleton DEF TimersGood
  <2> QED
    BY <1>1, <2>1, FS_Union DEF TimersGood
<1>5. Unique' /\ Periods'
  BY <1>1 DEF TimersGood, Unique, Periods, Short, KeyOf
<1>6. Asked'
  <2>1. SUFFICES ASSUME NEW e \in timers', e.times # 0
                 PROVE  asked'[KeyOf(e)] # 0
    BY AskedIs
  <2>2. CASE e = t
    BY <1>1, <1>2, <2>1, <2>2 DEF TimersGood
  <2>3. CASE e \in timers /\ KeyOf(e) # KeyOf(t)
    <3>1. asked[KeyOf(e)] # 0
      BY <2>1, <2>3 DEF TimersGood, Asked, Live
    <3>2. KeyOf(e) \in Key
      BY <2>3, EntryFields DEF TimersGood
    <3> QED
      BY <1>1, <2>3, <3>1, <3>2 DEF TimersGood
  <2> QED
    BY <1>1, <2>1, <2>2, <2>3
<1> QED
  BY <1>3, <1>4, <1>5, <1>6 DEF TimersGood

LEMMA OnKillKeeps ==
  ASSUME TimersGood, NEW t, OnKillTimer(t)
  PROVE  TimersGood'
<1>1. /\ timers' = {e \in timers : ~Kills(t, KeyOf(e))}
      /\ asked' = [k \in Key |->
                     IF t.obj = k.obj /\ t.id \in {k.id, Forever} THEN 0
                     ELSE asked[k]]
      /\ fired' = fired
  BY DEF OnKillTimer
<1>2. asked' \in [Key -> Word]
  BY <1>1, TimerAssumption DEF TimersGood, Word
<1>3. timers' \subseteq timers /\ IsFiniteSet(timers')
  BY <1>1, FS_Subset DEF TimersGood
<1>4. Unique' /\ Periods'
  BY <1>3 DEF TimersGood, Unique, Periods, Short, KeyOf
<1>5. Asked'
  <2>1. SUFFICES ASSUME NEW e \in timers', e.times # 0
                 PROVE  asked'[KeyOf(e)] # 0
    BY AskedIs
  <2>2. e \in timers /\ ~Kills(t, KeyOf(e)) /\ KeyOf(e) \in Key
    BY <1>1, EntryFields DEF TimersGood
  <2>3. asked[KeyOf(e)] # 0
    BY <2>1, <2>2 DEF TimersGood, Asked, Live
  <2> QED
    BY <1>1, <2>2, <2>3 DEF Kills
<1> QED
  BY <1>1, <1>2, <1>3, <1>4, <1>5 DEF TimersGood

LEMMA HandleKeeps == TimerInv /\ Handle => TimerInv'
<1> SUFFICES ASSUME TimerInv, Handle PROVE TimerInv'
  OBVIOUS
<1> DEFINE msg == Head(batch)
<1>1. /\ pc = "handle" /\ batch # <<>> /\ batch' = Tail(batch)
      /\ UNCHANGED <<queue, pc, sleep, now, late, calls>>
      /\ \/ msg.kind = "SETTIMER" /\ OnSetTimer(msg.mt)
         \/ msg.kind = "KILLTIMER" /\ OnKillTimer(msg.mt)
         \/ UNCHANGED <<timers, asked, fired>>
  BY DEF Handle
<1>2. /\ Good(batch') /\ msg \in Message
      /\ msg.kind = "SETTIMER" => msg.mt.id \in Id /\ Short(msg.mt)
  BY <1>1, TailGood DEF TimerInv
<1> HIDE DEF msg
<1>3. TimersGood
  BY DEF TimerInv, TimerTypeOK, TimersGood
<1>4. TimersGood'
  <2>1. CASE msg.kind = "SETTIMER" /\ OnSetTimer(msg.mt)
    <3>1. msg.mt \in Entry
      BY <1>2, <2>1 DEF Message, Entry
    <3> QED
      BY <1>2, <1>3, <2>1, <3>1, OnSetKeeps
  <2>2. CASE msg.kind = "KILLTIMER" /\ OnKillTimer(msg.mt)
    BY <1>3, <2>2, OnKillKeeps
  <2>3. CASE UNCHANGED <<timers, asked, fired>>
    BY <1>3, <2>3 DEF TimersGood, Unique, Periods, Asked, Live
  <2> QED
    BY <1>1, <2>1, <2>2, <2>3
<1>5. TimerTypeOK'
  BY <1>1, <1>2, <1>4 DEF TimerInv, TimerTypeOK, TimersGood, Good
<1>6. Good(batch)' /\ Good(queue)'
  BY <1>1, <1>2 DEF TimerInv, Good, TickOnce, Posted
<1>7. Rounds' /\ Rested'
  BY <1>1 DEF TimerInv, Rounds, Rested
<1> QED
  BY <1>4, <1>5, <1>6, <1>7 DEF TimerInv, TimersGood
-----------------------------------------------------------------------------
\* A timer that ticks stays in the list, its period begun anew.
LEMMA FiredEntry ==
  ASSUME NEW t \in Entry, now \in Word, t.times # 0
  PROVE  /\ Fired(t) \in Entry /\ KeyOf(Fired(t)) = KeyOf(t)
         /\ Fired(t).escape = t.escape
<1>1. t.times \in Word /\ (t.times # Forever => t.times - 1 \in Word)
  BY EntryFields, TimerAssumption DEF Word
<1> DEFINE again == [t EXCEPT !.time = now]
           left == IF t.times # Forever THEN t.times - 1 ELSE now
<1>2. again \in Entry /\ again.obj = t.obj /\ again.id = t.id
      /\ again.escape = t.escape
  BY DEF Entry
<1>3. Fired(t) = [again EXCEPT !.times = left]
  BY DEF Fired
<1>4. left \in Word
  BY <1>1
<1> HIDE DEF again, left
<1> QED
  BY <1>2, <1>3, <1>4 DEF Entry, KeyOf

\* The thread is to wake no later than any period ends.
LEMMA RestLeft ==
  ASSUME TimersGood, now \in Word, NEW t \in Live
  PROVE  Rest(t) \in Nat
<1>1. t \in Entry /\ t.escape \in Nat
  BY EntryFields DEF TimersGood, Live
<1> QED
  BY <1>1, LeftType DEF Rest

LEMMA ProcKeeps == TimerInv /\ ProcTimer => TimerInv'
<1> SUFFICES ASSUME TimerInv, ProcTimer PROVE TimerInv'
  OBVIOUS
<1> DEFINE rests == {MaxSleep} \cup {Rest(t) : t \in Live}
<1>1. /\ pc = "handle" /\ batch = <<>> /\ pc' = "wait" /\ late' = 0
      /\ timers' = (Live \ Due) \cup {Fired(t) : t \in Due}
      /\ sleep' = Min(rests)
      /\ fired' = [k \in Key |->
                     fired[k] + Cardinality({t \in Due : KeyOf(t) = k})]
      /\ UNCHANGED <<batch, now, calls, asked>>
  BY DEF ProcTimer
<1>2. PICK order \in Bijection(1 .. Cardinality(Due), Due) :
        queue' = queue \o Ticks(order)
  BY DEF ProcTimer
<1>3. TimersGood /\ now \in Word /\ now' = now
  BY <1>1 DEF TimerInv, TimerTypeOK, TimersGood
<1>4. /\ Live \subseteq timers /\ Due \subseteq Live /\ timers \subseteq Entry
      /\ IsFiniteSet(Live) /\ IsFiniteSet(Due)
      /\ \A t \in Live : t \in Entry /\ t.times # 0
  BY <1>3, FS_Subset DEF Live, Due, TimersGood
<1>5. \A t \in Due : /\ Fired(t) \in Entry /\ KeyOf(Fired(t)) = KeyOf(t)
                     /\ Fired(t).escape = t.escape /\ t \in Live /\ t \in Entry
  BY <1>3, <1>4, FiredEntry
<1>6. \A a, b \in Live : KeyOf(a) = KeyOf(b) => a = b
  BY <1>4 DEF TimerInv, Unique
<1>7. Good(queue')
  <2>1. Due \subseteq Entry /\ \A a, b \in Due : KeyOf(a) = KeyOf(b) => a = b
    BY <1>4, <1>6
  <2>2. \A i \in DOMAIN queue : ~IsTick(queue[i])
    BY <1>1 DEF TimerInv, Rounds
  <2> QED
    BY <1>2, <1>4, <2>1, <2>2, TicksGood DEF TimerInv
<1>8. sleep' \in 0 .. MaxSleep /\ \A t \in Live : sleep' <= Rest(t)
  <2>1. \A t \in Live : Rest(t) \in Nat
    BY <1>3, RestLeft
  <2>2. rests \subseteq Nat /\ rests # {} /\ MaxSleep \in rests
    BY <2>1, TimerAssumption
  <2>3. \A t \in Live : Rest(t) \in rests
    OBVIOUS
  <2> HIDE DEF rests
  <2>4. Min(rests) \in rests /\ \A n \in rests : Min(rests) <= n
    BY <2>2, MinOf
  <2>5. sleep' \in Nat /\ sleep' <= MaxSleep /\ MaxSleep \in Nat
    BY <1>1, <2>2, <2>4, TimerAssumption
  <2>6. \A t \in Live : sleep' <= Rest(t)
    BY <1>1, <2>3, <2>4
  <2> QED
    BY <2>5, <2>6
<1>9. \A e \in timers' :
        \/ e \in Live /\ Left(e) > 0
        \/ \E t \in Due : e = Fired(t)
  <2>1. \A t \in Live : Left(t) \in Int
    BY <1>3, <1>4, LeftType
  <2>2. \A t \in Live : t \notin Due => Left(t) > 0
    BY <2>1 DEF Due
  <2> QED
    BY <1>1, <2>2
<1>10. timers' \subseteq Entry /\ IsFiniteSet(timers')
  <2>1. IsFiniteSet({Fired(t) : t \in Due}) /\ IsFiniteSet(Live \ Due)
    <3> DEFINE fire == [t \in Due |-> Fired(t)]
               T == {Fired(t) : t \in Due}
    <3>1. fire \in Surjection(Due, T)
      BY DEF Surjection
    <3> HIDE DEF fire, T
    <3>2. IsFiniteSet(T)
      BY <1>4, <3>1, FS_Surjection
    <3> QED
      BY <1>4, <3>2, FS_Subset DEF T
  <2>2. IsFiniteSet((Live \ Due) \cup {Fired(t) : t \in Due})
    BY <2>1, FS_Union
  <2> QED
    BY <1>1, <1>4, <1>5, <2>2
<1>11. fired' \in [Key -> Nat]
  <2>1. \A k \in Key : Cardinality({t \in Due : KeyOf(t) = k}) \in Nat
    BY <1>4, FS_Subset, FS_CardinalityType
  <2>2. \A k \in Key :
          fired[k] + Cardinality({t \in Due : KeyOf(t) = k}) \in Nat
    BY <2>1 DEF TimerInv, TimerTypeOK
  <2> QED
    BY <1>1, <2>2
<1>12. TimerTypeOK'
  <2>1. 0 \in 0 .. MaxLate
    BY TimerAssumption
  <2> QED
    BY <1>1, <1>7, <1>8, <1>10, <1>11, <2>1 DEF TimerInv, TimerTypeOK, Good
<1>13. Unique'
  <2>1. SUFFICES ASSUME NEW a \in timers', NEW b \in timers',
                        KeyOf(a) = KeyOf(b)
                 PROVE  a = b
    BY DEF Unique, KeyOf
  <2>2. \A e \in timers' :
          \/ e \in Live /\ e \notin Due
          \/ \E t \in Due : e = Fired(t) /\ KeyOf(e) = KeyOf(t) /\ t \in Live
    BY <1>1, <1>5
  <2> QED
    BY <1>6, <2>1, <2>2
<1>14. \A e \in timers' : Short(e)
  BY <1>4, <1>5, <1>9 DEF TimerInv, Periods, Short
<1>15. Periods'
  BY <1>14 DEF Periods, Short
<1>16. Rested'
  <2>1. SUFFICES ASSUME NEW e \in timers' PROVE sleep' <= Left(e)'
    BY DEF Rested, Live
  <2>2. Left(e)' = Left(e)
    BY <1>1 DEF Left
  <2>3. CASE e \in Live /\ Left(e) > 0
    <3>1. Rest(e) = Left(e)
      BY <1>3, <1>4, <2>3, LeftType DEF Rest
    <3> QED
      BY <1>8, <2>2, <2>3, <3>1
  <2>4. ASSUME NEW t \in Due, e = Fired(t) PROVE sleep' <= Left(e)
    <3>1. Left(Fired(t)) = t.escape
      BY <1>3, <1>4, <1>5, LeftFired DEF TimerInv, Periods
    <3>2. Rest(t) = t.escape
      BY DEF Rest, Due
    <3> QED
      BY <1>5, <1>8, <2>4, <3>1, <3>2
  <2> QED
    BY <1>9, <2>2, <2>3, <2>4
<1>17. Asked'
  <2>1. SUFFICES ASSUME NEW e \in timers', e.times # 0
                 PROVE  asked[KeyOf(e)] # 0
    BY <1>1, AskedIs
  <2> QED
    BY <1>5, <1>9 DEF TimerInv, Asked
<1>18. Good(batch)' /\ Good(queue)'
  BY <1>1, <1>7 DEF TimerInv, Good, TickOnce, Posted
<1>19. Rounds'
  BY <1>1 DEF Rounds
<1> QED
  BY <1>12, <1>13, <1>15, <1>16, <1>17, <1>18, <1>19 DEF TimerInv
-----------------------------------------------------------------------------
LEMMA TimerStep == TimerInv /\ [TimerNext]_tVars => TimerInv'
<1> SUFFICES ASSUME TimerInv, [TimerNext]_tVars PROVE TimerInv'
  OBVIOUS
<1>1. CASE Thread
  BY <1>1, WakeKeeps, HandleKeeps, ProcKeeps DEF Thread
<1>2. CASE TimePasses
  BY <1>2, PassKeeps
<1>3. ASSUME NEW k \in Key, NEW s \in Setting, SetTimer(k, s) PROVE TimerInv'
  BY <1>3, SetKeeps
<1>4. ASSUME NEW o \in Obj, NEW id \in Id \cup {Forever}, KillTimer(o, id)
      PROVE  TimerInv'
  BY <1>4, KillKeeps
<1>5. CASE UNCHANGED tVars
  <2>1. UNCHANGED <<timers, queue, batch, pc, sleep, now, late, calls, asked, fired>>
    BY <1>5 DEF tVars
  <2>2. TimerTypeOK' /\ Unique' /\ Periods' /\ Rounds'
    BY <2>1 DEF TimerInv, TimerTypeOK, Unique, Periods, Rounds
  <2>3. Rested' /\ Asked'
    BY <2>1 DEF TimerInv, Rested, Asked, Live, Left
  <2>4. Good(queue)' /\ Good(batch)'
    BY <2>1 DEF TimerInv, Good, TickOnce, Posted
  <2> QED
    BY <2>2, <2>3, <2>4 DEF TimerInv
<1> QED
  BY <1>1, <1>2, <1>3, <1>4, <1>5 DEF TimerNext

LEMMA TimerAlways == TimerSpec => []TimerInv
BY TimerStart, TimerStep, PTL DEF TimerSpec

\* Timers, messages, sleep and counts stay what they are meant to be: what
\* ProcTimer returns is never negative, however late the thread was
\* (Module.cpp:138-146), and every tick counted off an entry was in its count.
THEOREM TimerTypeCorrect == TimerSpec => []TimerTypeOK
<1>1. TimerInv => TimerTypeOK
  BY DEF TimerInv
<1> QED
  BY <1>1, TimerAlways, PTL

\* A set of which no two members differ.
LEMMA AtMostOne ==
  ASSUME NEW S, \A a, b \in S : a = b
  PROVE  Cardinality(S) \in {0, 1} /\ (S = {} => Cardinality(S) = 0)
<1>1. CASE S = {}
  BY <1>1, FS_EmptySet
<1>2. ASSUME NEW a \in S PROVE Cardinality(S) = 1 /\ S # {}
  <2>1. S = {a}
    OBVIOUS
  <2> QED
    BY <2>1, FS_Singleton
<1> QED
  BY <1>1, <1>2

\* Of no timer two ticks wait, however often it is set and however slow the
\* thread is (OnSetTimer, Module.cpp:157-173).
THEOREM TicksAreSingle == TimerSpec => []OneTick
<1>1. TimerInv => OneTick
  <2> SUFFICES ASSUME TimerInv, NEW k \in Key
               PROVE  LET ticks(s) == {i \in DOMAIN s : s[i].kind = "ONTIMER"
                                                       /\ KeyOf(s[i].mt) = k}
                      IN  Cardinality(ticks(batch)) + Cardinality(ticks(queue)) <= 1
    BY DEF OneTick
  <2> DEFINE ticks(s) == {i \in DOMAIN s : s[i].kind = "ONTIMER"
                                           /\ KeyOf(s[i].mt) = k}
             A == ticks(batch)
             B == ticks(queue)
  <2>1. (\A i, j \in A : i = j) /\ (\A i, j \in B : i = j)
    BY DEF TimerInv, Good, TickOnce, IsTick
  <2>2. A = {} \/ B = {}
    BY DEF TimerInv, TimerTypeOK, Rounds, IsTick
  <2> HIDE DEF A, B
  <2>3. Cardinality(A) + Cardinality(B) <= 1
    <3>1. /\ Cardinality(A) \in {0, 1} /\ (A = {} => Cardinality(A) = 0)
          /\ Cardinality(B) \in {0, 1} /\ (B = {} => Cardinality(B) = 0)
      BY <2>1, AtMostOne
    <3> QED
      BY <2>2, <3>1
  <2> QED
    BY <2>3 DEF A, B
<1> QED
  BY <1>1, TimerAlways, PTL

\* Whenever the thread sleeps, it is to wake no later than the next period ends,
\* also when time has wrapped since the period began (ProcTimer,
\* Module.cpp:138-146).
THEOREM SleepsNoLonger == TimerSpec => []NeverOversleeps
<1>1. TimerInv => NeverOversleeps
  BY DEF TimerInv, Rested, NeverOversleeps, Asleep
<1> QED
  BY <1>1, TimerAlways, PTL

\* After a kill was handled no round posts a tick of that timer, until it is
\* set again (OnKillTimer, Module.cpp:174-186).
THEOREM KilledAreSilent == TimerSpec => KilledStaysSilent
<1>1. TimerInv /\ [TimerNext]_tVars =>
        [\A k \in Key : asked[k] = 0 => fired'[k] <= fired[k]]_tVars
  <2> SUFFICES ASSUME TimerInv, [TimerNext]_tVars, NEW k \in Key, asked[k] = 0
               PROVE  fired'[k] <= fired[k]
    OBVIOUS
  <2>1. fired \in [Key -> Nat] /\ timers \subseteq Entry /\ fired[k] \in Nat
    BY DEF TimerInv, TimerTypeOK
  <2>2. CASE ProcTimer
    <3>1. {t \in Due : KeyOf(t) = k} = {}
      BY DEF TimerInv, Asked, Due
    <3>2. Cardinality({t \in Due : KeyOf(t) = k}) = 0
      BY <3>1, FS_EmptySet
    <3> QED
      BY <2>1, <2>2, <3>2 DEF ProcTimer
  <2>3. CASE Handle
    <3>1. CASE fired' = fired
      BY <2>1, <3>1
    <3>2. ASSUME NEW t, fired' = [fired EXCEPT ![KeyOf(t)] = 0]
          PROVE  fired'[k] <= fired[k]
      BY <2>1, <3>2
    <3> QED
      BY <2>3, <3>1, <3>2 DEF Handle, OnSetTimer, OnKillTimer
  <2>4. CASE fired' = fired
    BY <2>1, <2>4
  <2> QED
    BY <2>2, <2>3, <2>4
       DEF TimerNext, Thread, Wake, TimePasses, SetTimer, KillTimer, Call, tVars
<1> QED
  BY <1>1, TimerAlways, PTL DEF TimerSpec, KilledStaysSilent
=============================================================================
