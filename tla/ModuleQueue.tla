----------------------------- MODULE ModuleQueue -----------------------------
(***************************************************************************)
(* The message queue of one module (util/Module.cpp, util/ModuleData.cpp): *)
(* two byte buffers.  Posting threads append to one under the lock of the  *)
(* module; its own thread handles the other from end to end and then swaps *)
(* them.                                                                   *)
(*                                                                         *)
(* A buffer has a fixed size.  A message is appended in two parts, header  *)
(* and data, and the second append may fail when the first has not; the    *)
(* header stays, and names more data than follows.                         *)
(*                                                                         *)
(* Lengths are in units of which a header has HeadSize.  A unit holds the  *)
(* header that begins there or Junk.  Emptying a buffer resets its length  *)
(* only, so what it held before remains behind it.                         *)
(***************************************************************************)
EXTENDS Naturals, Sequences

CONSTANTS
  Poster,      \* threads that post to the module
  HeadSize,    \* EN_MT_MSG_HEAD_SIZE
  Capacity,    \* size of a buffer
  DataSize,    \* lengths of data posted
  MaxPost,     \* bound: messages posted
  Semaphore,   \* m_evWait is a semaphore (Linux) or auto-reset event (Windows)
  Junk         \* no header begins here

ASSUME QueueAssumption ==
  /\ HeadSize \in Nat \ {0}
  /\ Capacity \in Nat
  /\ DataSize \subseteq Nat
  /\ MaxPost \in Nat
  /\ Semaphore \in BOOLEAN

\* id tells posts apart and is no part of the code; exit: the message is
\* EN_AO_MSG_EXIT.
Header == [id : 1 .. MaxPost, len : DataSize \cup {0}, exit : BOOLEAN]

ASSUME JunkAssumption == Junk \notin Header

Unit == 0 .. Capacity - 1

Buffer == [len : 0 .. Capacity, unit : [Unit -> Header \cup {Junk}]]

VARIABLES
  product,  \* m_pProductMD: the buffer appended to
  cus,      \* m_pCusMD: the buffer being handled
  off,      \* unOffset in cus
  pc,       \* where the module's thread is in Run
  posting,  \* posting[p]: where poster p is in PostMsg
  event,    \* m_evWait
  run,      \* m_bRun
  posted,   \* number of posts, to name them
  handled,  \* history: ids handled, and whether all their data was there
  ahead,    \* history: where in cus Run will find headers, from off on
  behind    \* history: where in product it will

qVars == <<product, cus, off, pc, posting, event, run, posted, handled,
           ahead, behind>>

QueueTypeOK ==
  /\ product \in Buffer
  /\ cus \in Buffer
  /\ off \in Nat
  /\ pc \in {"wait", "swap", "handle", "timer", "done"}
  /\ posting \in [Poster -> {"idle", "append", "signal"}]
  /\ event \in Nat
  /\ run \in BOOLEAN
  /\ posted \in 0 .. MaxPost
  /\ handled \in Seq([id : 1 .. MaxPost, whole : BOOLEAN])
  /\ ahead \in Seq(Unit) /\ behind \in Seq(Unit)

Empty == [len |-> 0, unit |-> [u \in Unit |-> Junk]]

QueueInit ==
  /\ product = Empty
  /\ cus = Empty
  /\ off = 0
  /\ pc = "wait"
  /\ posting = [p \in Poster |-> "idle"]
  /\ event = IF Semaphore THEN 2 ELSE 0
  /\ run = TRUE
  /\ posted = 0
  /\ handled = <<>>
  /\ ahead = <<>> /\ behind = <<>>
-----------------------------------------------------------------------------
\* CModuleData::AppendData.
Room(buf, n) == buf.len + n <= Capacity

\* n units appended to buf, the first of them holding first.
AppendData(buf, first, n) ==
  [len  |-> buf.len + n,
   unit |-> [u \in Unit |->
               IF u = buf.len /\ n > 0 THEN first
               ELSE IF u \in buf.len .. buf.len + n - 1 THEN Junk
               ELSE buf.unit[u]]]

\* Mutant of AppendMsg: room is tested for the header only.
AppendMsgUnchecked(buf, h) ==
  IF ~Room(buf, HeadSize) THEN buf
  ELSE AppendData(AppendData(buf, h, HeadSize), Junk, h.len)

\* What PostMsg makes of the buffer: nothing, a header without its data, or
\* the whole message.
AppendMsg(buf, h) ==
  IF ~Room(buf, HeadSize) THEN buf
  ELSE LET begun == AppendData(buf, h, HeadSize)
       IN  IF Room(begun, h.len) THEN AppendData(begun, Junk, h.len) ELSE begun

\* Mutant of Following: past the header only.
FollowingHead(h, o) == o + HeadSize

Following(h, o) == o + HeadSize + h.len

\* Where the walk over buf arrives behind the headers at.
Reached(buf, at) ==
  IF at = <<>> THEN 0 ELSE Following(buf.unit[at[Len(at)]], at[Len(at)])

Signalled == IF Semaphore THEN event + 1 ELSE 1

AppendNext ==
  /\ posted < MaxPost
  /\ posted' = posted + 1
  /\ \E n \in DataSize \cup {0}, exit \in BOOLEAN :
       /\ exit => n = 0
       /\ product' = AppendMsg(product,
                               [id |-> posted + 1, len |-> n, exit |-> exit])
  /\ behind' = IF product'.len > product.len
                  /\ Reached(product, behind) = product.len
               THEN Append(behind, product.len) ELSE behind

\* PostMsg of another thread.  m_bRun is tested before the lock is taken.
PostBegin(p) ==
  /\ posting[p] = "idle"
  /\ posted < MaxPost
  /\ run
  /\ posting' = [posting EXCEPT ![p] = "append"]
  /\ UNCHANGED <<product, cus, off, pc, event, run, posted, handled,
                 ahead, behind>>

PostAppend(p) ==
  /\ posting[p] = "append"
  /\ AppendNext
  /\ posting' = [posting EXCEPT ![p] = "signal"]
  /\ UNCHANGED <<cus, off, pc, event, run, handled, ahead>>

\* Mutant of PostSignal: no signal for a thread that is not waiting.
PostSignalIfWaiting(p) ==
  /\ posting[p] = "signal"
  /\ event' = IF pc = "wait" THEN Signalled ELSE event
  /\ posting' = [posting EXCEPT ![p] = "idle"]
  /\ UNCHANGED <<product, cus, off, pc, run, posted, handled,
                 ahead, behind>>

PostSignal(p) ==
  /\ posting[p] = "signal"
  /\ event' = Signalled
  /\ posting' = [posting EXCEPT ![p] = "idle"]
  /\ UNCHANGED <<product, cus, off, pc, run, posted, handled,
                 ahead, behind>>

\* PostMsg of the module's own thread: by a handler (SetTimer, KillTimer) or
\* by ProcTimer (EN_AO_MSG_ONTIMER).  Between append and signal it does not
\* wait, so they are one step.
PostOwn ==
  /\ pc \in {"handle", "timer"}
  /\ run
  /\ AppendNext
  /\ event' = Signalled
  /\ UNCHANGED <<cus, off, pc, posting, run, handled, ahead>>
-----------------------------------------------------------------------------
\* CModule::Run.
Wait ==
  /\ pc = "wait"
  /\ event > 0
  /\ event' = event - 1
  /\ pc' = "swap"
  /\ UNCHANGED <<product, cus, off, posting, run, posted, handled,
                 ahead, behind>>

\* The wait ends after the time ProcTimer returned.
WaitTimeout ==
  /\ pc = "wait"
  /\ pc' = "swap"
  /\ UNCHANGED <<product, cus, off, posting, event, run, posted, handled,
                 ahead, behind>>

\* Mutant of Swap: the buffer handed back keeps its length.
SwapNoReset ==
  /\ pc = "swap"
  /\ cus' = product
  /\ product' = cus
  /\ off' = 0
  /\ ahead' = behind /\ behind' = <<>>
  /\ pc' = "handle"
  /\ UNCHANGED <<posting, event, run, posted, handled>>

Swap ==
  /\ pc = "swap"
  /\ cus' = product
  /\ product' = [cus EXCEPT !.len = 0]
  /\ off' = 0
  /\ ahead' = behind /\ behind' = <<>>
  /\ pc' = "handle"
  /\ UNCHANGED <<posting, event, run, posted, handled>>

DoMsg ==
  /\ pc = "handle"
  /\ off < cus.len
  /\ run
  /\ LET h == cus.unit[off]
     IN  /\ off' = Following(h, off)
         /\ run' = ~h.exit
         /\ handled' = Append(handled,
              [id |-> h.id, whole |-> Following(h, off) <= cus.len])
  /\ ahead' = SubSeq(ahead, 2, Len(ahead))
  /\ UNCHANGED <<product, cus, pc, posting, event, posted, behind>>

EndBatch ==
  /\ pc = "handle"
  /\ ~(off < cus.len /\ run)
  /\ pc' = "timer"
  /\ UNCHANGED <<product, cus, off, posting, event, run, posted, handled,
                 ahead, behind>>

\* ProcTimer has returned.
EndRound ==
  /\ pc = "timer"
  /\ pc' = IF run THEN "wait" ELSE "done"
  /\ UNCHANGED <<product, cus, off, posting, event, run, posted, handled,
                 ahead, behind>>

Run == Wait \/ Swap \/ DoMsg \/ EndBatch \/ EndRound

PostMsg(p) == PostBegin(p) \/ PostAppend(p) \/ PostSignal(p)

QueueNext == Run \/ WaitTimeout \/ PostOwn \/ \E p \in Poster : PostMsg(p)

QueueSpec == QueueInit /\ [][QueueNext]_qVars

\* The loop of Run goes on, and a thread inside PostMsg leaves it; no message
\* depends on a wait that times out.
QueueFairness ==
  /\ WF_qVars(Run)
  /\ \A p \in Poster : WF_qVars(PostAppend(p) \/ PostSignal(p))

FairQueueSpec == QueueSpec /\ QueueFairness
-----------------------------------------------------------------------------
\* Where the thread reads a header, one was written: a header without its data
\* (Module.cpp:75-78) and what earlier rounds left in the buffer never make
\* Run (58-61) take data for a header.
Aligned == (pc = "handle" /\ off < cus.len) => cus.unit[off] # Junk

\* No message is handled twice or before one posted earlier, although a buffer
\* is only reset in length and handed back for reuse (Module.cpp:50-55).
InOrder ==
  \A i, j \in DOMAIN handled : i < j => handled[i].id < handled[j].id
-----------------------------------------------------------------------------
\* The messages whose headers are at those places of buf.
Messages(buf, at) ==
  [i \in DOMAIN at |->
     LET h == buf.unit[at[i]]
     IN  [id |-> h.id, exit |-> h.exit,
          whole |-> Following(h, at[i]) <= buf.len]]

\* The last header to be found in buf lacks its data.
Spoilt(buf, at) == Reached(buf, at) # buf.len

Fifo == INSTANCE ModuleFifo WITH
  pending <- Messages(cus, ahead) \o Messages(product, behind),
  spoilt  <- Spoilt(product, behind),
  running <- run,
  served  <- handled

\* The buffers, the lock, the event and the loop of Run together are a FIFO
\* that loses posts only behind a torn one (Module.cpp:41-82).
FifoOrder == Fifo!Init /\ [][Fifo!Next]_(Fifo!vars)

\* And one that serves whatever is posted while the module runs: no signal is
\* missed (Module.cpp:49, 81), and no buffer stays spoilt (50-54).
FifoServes == Fifo!Fairness
=============================================================================
