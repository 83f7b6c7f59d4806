---------------------------- MODULE UpdateProofs ----------------------------
(***************************************************************************)
(* What the updating of a machine guarantees, for any modules and any      *)
(* number of publications, failures, lost messages, crashes and restarts.  *)
(*                                                                         *)
(* Offers of a version, downloads and their results wait in five queues.   *)
(* Followed from the controller to the files they form one line, in which  *)
(* the versions of a module never fall: that is why the files never go     *)
(* back, although no handler compares versions.                            *)
(***************************************************************************)
EXTENDS UpdateModuleMgr, TLAPS, SequenceTheorems, FiniteSetTheorems

\* While a package is installed its module is managed, and the controller
\* sends nothing but updates.
Typed ==
  /\ ManagerTypeOK
  /\ job # Idle => pm \in [Mod -> Version]
  /\ \A i \in DOMAIN down : down[i].kind = "UPDATE"

\* A result that says success is one of a package unpacked to the end.
Real(r) == r.kind = "RESULT" /\ r.rlt = "SUC" => r.ver \in installed[r.mod]

UpReal == \A i \in DOMAIN up : Real(up[i])

JobReal ==
  job # Idle /\ job.step # "unpack" /\ job.rlt = "SUC" => job.ver \in installed[job.mod]

Reported == UpReal /\ JobReal /\ SuccessIsReal
-----------------------------------------------------------------------------
(* The line from the files to the controller. *)

Stage == 0 .. 6

Result_(x, m, v) == x.kind = "RESULT" /\ x.mod = m /\ x.ver = v

Offer(x, m, v) == x.kind = "UPDATE" /\ x.mod = m /\ x.ver = v

\* Version v of module m is in place p of stage k: on the disk, as a result of
\* a download, taken by the thread, as a task, offered, on the way, the target.
In(k, p, m, v) ==
  \/ k = 0 /\ v = disk[m]
  \/ k = 1 /\ p \in DOMAIN inbox /\ Result_(inbox[p], m, v)
  \/ k = 2 /\ p \in DOMAIN taken /\ taken[p].mod = m /\ taken[p].ver = v
  \/ k = 3 /\ p \in DOMAIN tasks /\ tasks[p].mod = m /\ tasks[p].ver = v
  \/ k = 4 /\ p \in DOMAIN inbox /\ Offer(inbox[p], m, v)
  \/ k = 5 /\ p \in DOMAIN down /\ Offer(down[p], m, v)
  \/ k = 6 /\ v = target[m]

Before(k, p, l, q) == k < l \/ (k = l /\ p <= q)

\* Who is nearer to the files is no later version.
Rising ==
  \A m \in Mod : \A k, l \in Stage : \A p, q \in Nat : \A v, w \in Version :
    In(k, p, m, v) /\ In(l, q, m, w) /\ Before(k, p, l, q) => v <= w
-----------------------------------------------------------------------------
(* Types. *)

\* The part of the type of a sequence its elements share.
LEMMA QueueOps ==
  ASSUME NEW T, NEW s \in Seq(T)
  PROVE  /\ \A e \in T : Append(s, e) \in Seq(T) /\ <<e>> \in Seq(T) /\ s \o <<e>> \in Seq(T)
         /\ s # <<>> => Head(s) \in T /\ Tail(s) \in Seq(T)
         /\ <<>> \in Seq(T) /\ DOMAIN s = 1 .. Len(s) /\ Len(s) \in Nat
<1>1. \A e \in T : <<e>> \in Seq(T)
  OBVIOUS
<1>2. \A e \in T : s \o <<e>> \in Seq(T)
  BY <1>1, ConcatProperties
<1> QED BY <1>1, <1>2

\* What a broken connection leaves of a queue.
LEMMA PartOf ==
  ASSUME NEW T, NEW s \in Seq(T), NEW n \in 0 .. Len(s)
  PROVE  /\ SubSeq(s, 1, n) \in Seq(T)
         /\ \A i \in DOMAIN SubSeq(s, 1, n) : i \in DOMAIN s /\ SubSeq(s, 1, n)[i] = s[i]
         /\ SubSeq(s, n + 1, Len(s)) \in Seq(T)
         /\ \A i \in DOMAIN SubSeq(s, n + 1, Len(s)) :
              i \in Nat /\ i + n \in DOMAIN s /\ SubSeq(s, n + 1, Len(s))[i] = s[i + n]
<1>1. Len(s) \in Nat /\ n \in Nat /\ n <= Len(s) /\ DOMAIN s = 1 .. Len(s)
  OBVIOUS
<1>2. /\ SubSeq(s, 1, n) \in Seq(T)
      /\ \A i \in DOMAIN SubSeq(s, 1, n) : i \in DOMAIN s /\ SubSeq(s, 1, n)[i] = s[i]
  BY <1>1
<1>3. /\ SubSeq(s, n + 1, Len(s)) \in Seq(T)
      /\ \A i \in DOMAIN SubSeq(s, n + 1, Len(s)) :
           i \in Nat /\ i + n \in DOMAIN s /\ SubSeq(s, n + 1, Len(s))[i] = s[i + n]
  BY <1>1
<1> QED BY <1>2, <1>3

\* What the messages of the update module are made of.
LEMMA MessageOf ==
  /\ \A x \in Message :
       /\ x.kind \in {"UPDATE", "UMI", "RESULT"} => x.mod \in Mod /\ x.ver \in Version
       /\ x.kind = "RESULT" => x.rlt \in Result
  /\ \A k \in {"AUTHSUC", "FREED", "ONTIMER"} : [kind |-> k] \in Message
  /\ \A m \in Mod, v \in Version :
       /\ Update(m, v) \in Message /\ Update(m, v).kind = "UPDATE"
       /\ [kind |-> "UMI", mod |-> m, ver |-> v] \in Message
       /\ \A r \in Result : UdrOf(m, v, r) \in Message
BY DEF Message, Update, UdrOf

\* The list of modules, in some order.
LEMMA ModInOrder == SetToSeq(Mod) \in Seq(Mod)
<1>1. IsFiniteSet(Mod)
  BY ManagerAssumption
<1>2. /\ Cardinality(Mod) \in Nat
      /\ ExistsBijection(1 .. Cardinality(Mod), Mod)
  BY <1>1, FS_CardinalityType
<1>3. \E f \in [1 .. Cardinality(Mod) -> Mod] : IsInjective(f)
  BY <1>2 DEF ExistsBijection, Bijection, Injection
<1>4. SetToSeq(Mod) \in [1 .. Cardinality(Mod) -> Mod]
  BY <1>3 DEF SetToSeq
<1> QED BY <1>2, <1>4

\* A report of the installed versions.
LEMMA StartUmiSynTyped ==
  ASSUME ManagerTypeOK, StartUmiSyn
  PROVE  /\ pm' = pm \/ (pm' = db /\ db \in [Mod -> Version])
         /\ \/ up' = up
            \/ \E s \in Seq(Message) :
                 up' = up \o s /\ \A i \in DOMAIN s : s[i].kind = "UMI"
<1>1. CASE db = Torn
  BY <1>1 DEF StartUmiSyn
<1>2. CASE db # Torn
  <2> DEFINE order == SetToSeq(Mod)
             s == [i \in DOMAIN order |-> [kind |-> "UMI", mod |-> order[i], ver |-> db[order[i]]]]
  <2>1. db \in [Mod -> Version]
    BY <1>2 DEF ManagerTypeOK
  <2>2. pm' = db /\ Report2Aodc(s)
    BY <1>2 DEF StartUmiSyn
  <2>3. order \in Seq(Mod)
    BY ModInOrder
  <2> HIDE DEF order
  <2>4. DOMAIN order = 1 .. Len(order) /\ Len(order) \in Nat /\ \A i \in DOMAIN order : order[i] \in Mod
    BY <2>3
  <2>5. \A i \in DOMAIN s : s[i] \in Message /\ s[i].kind = "UMI"
    BY <2>1, <2>4, MessageOf
  <2>6. s \in Seq(Message)
    <3>1. s \in [1 .. Len(order) -> Message]
      BY <2>4, <2>5
    <3> QED BY <2>4, <3>1
  <2> HIDE DEF s
  <2> QED BY <2>1, <2>2, <2>5, <2>6 DEF Report2Aodc
<1> QED BY <1>1, <1>2

\* A handler of the update module keeps the types.
LEMMA HandlerTyped ==
  ASSUME Typed, Handler
  PROVE  Typed'
<1> USE DEF Typed, diskVars, ctrlVars, linkVars, Taken
<1>1. /\ inbox \in Seq(Message) /\ up \in Seq(Message) /\ tasks \in Seq(Task)
      /\ job = Idle /\ inbox # <<>> /\ MaxFault \in Nat
  BY ManagerAssumption
     DEF ManagerTypeOK, Handler, OnAuthSuc, OnChannelFreed, OnTimer, OnRecvUmi,
         OnDownloadFailed, OnPackageUseless, OnDownloadResult, Ready
<1>2. Head(inbox) \in Message /\ Tail(inbox) \in Seq(Message)
  BY <1>1, QueueOps
<1>3. CASE OnAuthSuc \/ OnTimer
  <2>1. StartUmiSyn
    BY <1>3 DEF OnAuthSuc, OnTimer
  <2>2. up' \in Seq(Message) /\ pm' \in [Mod -> Version] \cup [{} -> Version]
    <3>1. \A s \in Seq(Message) : up \o s \in Seq(Message)
      BY <1>1, ConcatProperties
    <3>2. up' \in Seq(Message)
      BY <1>1, <2>1, <3>1, StartUmiSynTyped
    <3>3. pm' = pm \/ (pm' = db /\ db \in [Mod -> Version])
      BY <2>1, StartUmiSynTyped
    <3> QED BY <3>2, <3>3 DEF ManagerTypeOK
  <2>3. /\ inbox' = Tail(inbox) /\ timer' \in BOOLEAN /\ job' = Idle
        /\ UNCHANGED <<tasks, taken, diskVars, ctrlVars, linkVars, faults>>
    BY <1>1, <1>3 DEF OnAuthSuc, OnTimer, ManagerTypeOK
  <2> QED BY <1>2, <2>2, <2>3 DEF ManagerTypeOK
<1>4. CASE OnChannelFreed
  BY <1>1, <1>2, <1>4 DEF OnChannelFreed, ManagerTypeOK
<1>5. CASE OnRecvUmi
  <2>1. [mod |-> Head(inbox).mod, ver |-> Head(inbox).ver] \in Task
    BY <1>2, <1>5, MessageOf DEF OnRecvUmi, Ready, Task
  <2>2. \/ tasks' = tasks
        \/ tasks' = Append(tasks, [mod |-> Head(inbox).mod, ver |-> Head(inbox).ver])
    BY <1>5 DEF OnRecvUmi, AppendDownloadTask
  <2>3. tasks' \in Seq(Task)
    BY <1>1, <2>1, <2>2
  <2> QED BY <1>1, <1>2, <1>5, <2>3 DEF OnRecvUmi, ManagerTypeOK
<1>6. CASE OnDownloadFailed
  <2>1. up' \in Seq(Message)
    BY <1>1, <1>2, <1>6, QueueOps DEF OnDownloadFailed, Report2Aodc
  <2> QED BY <1>1, <1>2, <1>6, <2>1 DEF OnDownloadFailed, ManagerTypeOK
<1>7. CASE OnPackageUseless
  BY <1>1, <1>2, <1>7 DEF OnPackageUseless, ManagerTypeOK, Fault, NoFault
<1>8. CASE OnDownloadResult
  <2>1. /\ Head(inbox).mod \in Mod /\ Head(inbox).ver \in Version
        /\ Head(inbox).mod \in DOMAIN pm
    BY <1>2, <1>8, MessageOf DEF OnDownloadResult, Ready
  <2>2. /\ job' \in Job /\ disk' \in [Mod -> Version] /\ pm' = pm
    BY <1>8, <2>1 DEF OnDownloadResult, Job, Result, ManagerTypeOK
  <2>3. pm \in [Mod -> Version]
    BY <2>1 DEF ManagerTypeOK
  <2> QED BY <1>2, <1>8, <2>2, <2>3 DEF OnDownloadResult, ManagerTypeOK
<1> QED BY <1>3, <1>4, <1>5, <1>6, <1>7, <1>8 DEF Handler

\* What is left when the process ends.
LEMMA RestartTyped ==
  ASSUME Typed, ProcessRestarts, faults' \in 0 .. MaxFault
  PROVE  Typed'
<1>1. up \in Seq(Message) /\ down \in Seq(Message)
  BY DEF Typed, ManagerTypeOK
<1>2. up' \in Seq(Message) /\ down' \in Seq(Message) /\ \A i \in DOMAIN down' : down'[i].kind = "UPDATE"
  <2>1. PICK n \in 0 .. Len(up) : up' = SubSeq(up, 1, n)
    BY DEF ProcessRestarts, LosesSome
  <2>2. PICK k \in 0 .. Len(down) : down' = SubSeq(down, k + 1, Len(down))
    BY DEF ProcessRestarts, LosesSome
  <2>3. up' \in Seq(Message)
    BY <1>1, <2>1, PartOf
  <2>4. /\ down' \in Seq(Message)
        /\ \A i \in DOMAIN down' : i + k \in DOMAIN down /\ down'[i] = down[i + k]
    BY <1>1, <2>2, PartOf
  <2> QED BY <2>3, <2>4 DEF Typed
<1>3. /\ link' = FALSE /\ answers' = 0 /\ timer' = FALSE /\ inbox' = <<>> /\ pm' = Nothing
      /\ job' = Idle /\ tasks' = <<>> /\ taken' = <<>> /\ UNCHANGED <<diskVars, ctrlVars>>
  BY DEF ProcessRestarts
<1>4. pm' \in [{} -> Version]
  BY <1>3 DEF Nothing
<1>5. /\ inbox' \in Seq(Message) /\ tasks' \in Seq(Task) /\ taken' \in Seq(Task)
      /\ answers' \in 0 .. 1
  BY <1>3
<1>6. /\ cmd' \in [Mod -> Command] /\ db' \in [Mod -> Version] \cup {Torn}
      /\ disk' \in [Mod -> Version] /\ target' \in [Mod -> Version]
      /\ log' \in [Mod -> [Version -> Result \cup {"none"}]]
      /\ installed' \in [Mod -> SUBSET Version]
  BY <1>3 DEF Typed, ManagerTypeOK, diskVars, ctrlVars
<1>7. ManagerTypeOK'
  BY <1>2, <1>3, <1>4, <1>5, <1>6 DEF ManagerTypeOK
<1> QED BY <1>2, <1>3, <1>7 DEF Typed

\* A step of an installation keeps the types.
LEMMA InstallTyped ==
  ASSUME Typed, Install
  PROVE  Typed'
<1> USE DEF Typed, diskVars, ctrlVars, linkVars, Then, Fault, NoFault
<1>1. job \in Job /\ job # Idle /\ pm \in [Mod -> Version] /\ MaxFault \in Nat
      /\ job.mod \in Mod /\ job.ver \in Version /\ job.rlt \in Result
  <2>1. job \in Job /\ job # Idle
    BY DEF Install, Unpack, UnpackFails, RunCommand, SaveCfg, SaveCfgWrite, ReportResult,
           RestartSelf, At, Idle, ManagerTypeOK
  <2> QED BY <2>1, ManagerAssumption DEF Job
<1>2. \A s \in {"command", "open", "write", "report", "restart"} :
        /\ [job EXCEPT !.step = s] \in Job
        /\ \A r \in Result : [job EXCEPT !.step = s, !.rlt = r] \in Job
  BY <1>1 DEF Job
<1>3. CASE Unpack
  BY <1>1, <1>2, <1>3 DEF Unpack, ManagerTypeOK
<1>4. CASE UnpackFails \/ RunCommand
  <2>1. job' \in Job
    BY <1>2, <1>4 DEF UnpackFails, RunCommand, Result
  <2>2. faults' \in 0 .. MaxFault
    BY <1>1, <1>4 DEF UnpackFails, RunCommand, ManagerTypeOK
  <2>3. UNCHANGED <<timer, inbox, pm, tasks, taken, diskVars, ctrlVars, linkVars, up>>
    BY <1>4 DEF UnpackFails, RunCommand
  <2> QED BY <1>1, <2>1, <2>2, <2>3 DEF ManagerTypeOK
<1>5. CASE SaveCfg \/ SaveCfgWrite
  <2>1. job' \in Job /\ db' \in [Mod -> Version] \cup {Torn}
    BY <1>1, <1>2, <1>5 DEF SaveCfg, SaveCfgWrite, ManagerTypeOK
  <2>2. pm' \in [Mod -> Version]
    BY <1>1, <1>5 DEF SaveCfg, SaveCfgWrite
  <2>3. faults' \in 0 .. MaxFault
    BY <1>1, <1>5 DEF SaveCfg, SaveCfgWrite, ManagerTypeOK
  <2>4. UNCHANGED <<timer, inbox, tasks, taken, cmd, disk, installed, ctrlVars, linkVars, up>>
    BY <1>5 DEF SaveCfg, SaveCfgWrite
  <2> QED BY <2>1, <2>2, <2>3, <2>4 DEF ManagerTypeOK
<1>6. CASE ReportResult
  <2>1. up' \in Seq(Message)
    <3>1. UdrOf(job.mod, job.ver, job.rlt) \in Message
      BY <1>1, MessageOf
    <3>2. up \in Seq(Message)
      BY DEF ManagerTypeOK
    <3> QED BY <1>6, <3>1, <3>2, QueueOps DEF ReportResult, Report2Aodc
  <2> QED BY <1>1, <1>2, <1>6, <2>1 DEF ReportResult, ManagerTypeOK
<1>7. CASE RestartSelf
  <2>1. CASE ProcessRestarts /\ NoFault
    BY <2>1, RestartTyped DEF ManagerTypeOK
  <2>2. CASE Fault /\ job' = Idle
             /\ UNCHANGED <<timer, inbox, pm, tasks, taken, diskVars, ctrlVars, linkVars, up>>
    BY <1>1, <2>2 DEF ManagerTypeOK
  <2> QED BY <1>7, <2>1, <2>2 DEF RestartSelf
<1> QED BY <1>3, <1>4, <1>5, <1>6, <1>7 DEF Install

\* So do the download thread, the connection, the timer and the controller.
LEMMA OtherTyped ==
  ASSUME Typed,
         \/ DownloadThread \/ Accepted \/ AnnounceAuthSuc \/ Tick \/ Deliver \/ Controller
         \/ LinkLost \/ Crash \/ (\E m \in Mod : DealPublish(m))
  PROVE  Typed'
<1> USE DEF Typed, threadVars, diskVars, ctrlVars, linkVars, Fault, NoFault
<1>1. /\ inbox \in Seq(Message) /\ up \in Seq(Message) /\ down \in Seq(Message)
      /\ tasks \in Seq(Task) /\ taken \in Seq(Task) /\ MaxFault \in Nat /\ MaxVersion \in Nat
      /\ target \in [Mod -> Version]
  BY ManagerAssumption DEF ManagerTypeOK
<1>2. CASE TakeTasks
  BY <1>2 DEF TakeTasks, ManagerTypeOK
<1>3. CASE Download
  <2>1. Head(taken) \in Task /\ Tail(taken) \in Seq(Task)
    BY <1>1, <1>3, QueueOps DEF Download
  <2>2. inbox' \in Seq(Message)
    <3>1. \A r \in {"SUC", "DFA"} : UdrOf(Head(taken).mod, Head(taken).ver, r) \in Message
      BY <2>1, MessageOf DEF Task, Result
    <3>2. \E r \in {"SUC", "DFA"} :
            inbox' = Append(inbox, UdrOf(Head(taken).mod, Head(taken).ver, r))
      BY <1>3 DEF Download
    <3> QED BY <1>1, <3>1, <3>2
  <2> QED BY <1>1, <1>3, <2>1, <2>2 DEF Download, ManagerTypeOK
<1>4. CASE Accepted
  BY <1>4 DEF Accepted, ManagerTypeOK
<1>5. CASE AnnounceAuthSuc \/ Tick
  <2>1. inbox' \in Seq(Message)
    <3>1. \E k \in {"AUTHSUC", "ONTIMER"} : inbox' = Append(inbox, [kind |-> k])
      BY <1>5 DEF AnnounceAuthSuc, Tick
    <3>2. \A k \in {"AUTHSUC", "ONTIMER"} : [kind |-> k] \in Message
      BY MessageOf
    <3> QED BY <1>1, <3>1, <3>2
  <2> QED BY <1>5, <2>1 DEF AnnounceAuthSuc, Tick, ManagerTypeOK
<1>6. CASE Deliver
  <2>1. Head(down) \in Message /\ Tail(down) \in Seq(Message)
    BY <1>1, <1>6, QueueOps DEF Deliver
  <2>2. inbox' \in Seq(Message)
    BY <1>1, <1>6, <2>1, QueueOps DEF Deliver
  <2>3. \A i \in DOMAIN Tail(down) : i + 1 \in DOMAIN down /\ Tail(down)[i] = down[i + 1]
    BY <1>1, <1>6 DEF Deliver
  <2>4. \A i \in DOMAIN down' : down'[i].kind = "UPDATE"
    BY <1>6, <2>3 DEF Deliver
  <2> QED BY <1>6, <2>1, <2>2, <2>4 DEF Deliver, ManagerTypeOK
<1>7. ASSUME NEW m \in Mod, NEW v \in Version, down' = Append(down, Update(m, v))
      PROVE  down' \in Seq(Message) /\ \A i \in DOMAIN down' : down'[i].kind = "UPDATE"
  <2>1. Update(m, v) \in Message /\ Update(m, v).kind = "UPDATE"
    BY <1>7, MessageOf
  <2>2. down' \in Seq(Message)
    BY <1>1, <1>7, <2>1
  <2>3. \A i \in DOMAIN down' : (i \in DOMAIN down /\ down'[i] = down[i]) \/ down'[i] = Update(m, v)
    BY <1>1, <1>7, <2>1
  <2> QED BY <2>1, <2>2, <2>3
<1>8. CASE DealUpdateCheck
  <2>1. Head(up) \in Message /\ Tail(up) \in Seq(Message) /\ Head(up).mod \in Mod
    <3>1. Head(up) \in Message /\ Tail(up) \in Seq(Message) /\ Head(up).kind = "UMI"
      BY <1>1, <1>8, QueueOps DEF DealUpdateCheck
    <3> QED BY <3>1, MessageOf
  <2>2. down' = down \/ down' = Append(down, Update(Head(up).mod, target[Head(up).mod]))
    BY <1>8 DEF DealUpdateCheck
  <2>3. down' \in Seq(Message) /\ \A i \in DOMAIN down' : down'[i].kind = "UPDATE"
    BY <1>1, <1>7, <2>1, <2>2
  <2> QED BY <1>8, <2>1, <2>3 DEF DealUpdateCheck, ManagerTypeOK
<1>9. CASE DealUpdateResult
  <2>1. Head(up) \in Message /\ Tail(up) \in Seq(Message) /\ Head(up).kind = "RESULT"
    BY <1>1, <1>9, QueueOps DEF DealUpdateResult
  <2>2. Head(up).mod \in Mod /\ Head(up).ver \in Version /\ Head(up).rlt \in Result
    BY <2>1, MessageOf
  <2>3. log' \in [Mod -> [Version -> Result \cup {"none"}]]
    BY <1>9, <2>2 DEF DealUpdateResult, ManagerTypeOK
  <2> QED BY <1>9, <2>1, <2>3 DEF DealUpdateResult, ManagerTypeOK
<1>10. ASSUME NEW m \in Mod, DealPublish(m) PROVE Typed'
  <2>1. target[m] + 1 \in Version /\ target' = [target EXCEPT ![m] = target[m] + 1]
        /\ target'[m] = target[m] + 1
    BY <1>1, <1>10 DEF DealPublish, Version
  <2>2. down' \in Seq(Message) /\ \A i \in DOMAIN down' : down'[i].kind = "UPDATE"
    BY <1>7, <1>10, <2>1 DEF DealPublish
  <2> QED BY <1>10, <2>1, <2>2 DEF DealPublish, ManagerTypeOK
<1>11. CASE LinkLost
  <2>1. PICK n \in 0 .. Len(up) : up' = SubSeq(up, 1, n)
    BY <1>11 DEF LinkLost, LosesSome
  <2>2. PICK k \in 0 .. Len(down) : down' = SubSeq(down, k + 1, Len(down))
    BY <1>11 DEF LinkLost, LosesSome
  <2>3. up' \in Seq(Message)
    BY <1>1, <2>1, PartOf
  <2>4. /\ down' \in Seq(Message)
        /\ \A i \in DOMAIN down' : i + k \in DOMAIN down /\ down'[i] = down[i + k]
    BY <1>1, <2>2, PartOf
  <2>5. \A i \in DOMAIN down' : down'[i].kind = "UPDATE"
    BY <2>4
  <2>6. inbox' \in Seq(Message)
    BY <1>1, <1>11, MessageOf, QueueOps DEF LinkLost
  <2>7. /\ link' \in BOOLEAN /\ faults' \in 0 .. MaxFault
        /\ UNCHANGED <<answers, timer, pm, job, tasks, taken, diskVars, ctrlVars>>
    <3>1. faults \in 0 .. MaxFault
      BY DEF ManagerTypeOK
    <3>2. faults' \in 0 .. MaxFault
      BY <1>1, <1>11, <3>1 DEF LinkLost
    <3> QED BY <1>11, <3>2 DEF LinkLost
  <2>8. ManagerTypeOK'
    BY <2>3, <2>4, <2>6, <2>7 DEF ManagerTypeOK
  <2> QED BY <2>5, <2>7, <2>8
<1>12. CASE Crash
  BY <1>1, <1>12, RestartTyped DEF Crash, ManagerTypeOK
<1> QED BY <1>2, <1>3, <1>4, <1>5, <1>6, <1>8, <1>9, <1>10, <1>11, <1>12
        DEF DownloadThread, Controller

\* The state of a machine and of its controller keeps its type.
THEOREM TypedAlways == ManagerSpec => []Typed
<1>1. ManagerInit => Typed
  <2> SUFFICES ASSUME ManagerInit PROVE Typed
    OBVIOUS
  <2>1. 0 \in Version /\ 0 \in 0 .. MaxFault /\ 0 \in 0 .. 1
    BY ManagerAssumption DEF Version
  <2>2. /\ pm \in [{} -> Version] /\ db \in [Mod -> Version] /\ disk \in [Mod -> Version]
        /\ target \in [Mod -> Version] /\ installed \in [Mod -> SUBSET Version]
        /\ log \in [Mod -> [Version -> Result \cup {"none"}]]
    BY <2>1 DEF ManagerInit, Nothing
  <2>3. /\ inbox = <<>> /\ up = <<>> /\ down = <<>> /\ tasks = <<>> /\ taken = <<>>
        /\ job = Idle /\ link = FALSE /\ timer = FALSE /\ answers = 0 /\ faults = 0
        /\ cmd \in [Mod -> Command]
    BY DEF ManagerInit
  <2>4. /\ inbox \in Seq(Message) /\ up \in Seq(Message) /\ down \in Seq(Message)
        /\ tasks \in Seq(Task) /\ taken \in Seq(Task)
    BY <2>3
  <2>5. ManagerTypeOK
    BY <2>1, <2>2, <2>3, <2>4 DEF ManagerTypeOK
  <2> QED BY <2>3, <2>5 DEF Typed
<1>2. Typed /\ [ManagerNext]_mVars => Typed'
  <2> SUFFICES ASSUME Typed, [ManagerNext]_mVars PROVE Typed'
    OBVIOUS
  <2>1. CASE UNCHANGED mVars
    <3>1. ManagerTypeOK'
      BY <2>1 DEF mVars, threadVars, diskVars, ctrlVars, linkVars, Typed, ManagerTypeOK
    <3>2. UNCHANGED <<job, pm, down>>
      BY <2>1 DEF mVars, threadVars, linkVars
    <3> QED BY <3>1, <3>2 DEF Typed
  <2> QED BY <2>1, HandlerTyped, InstallTyped, OtherTyped DEF ManagerNext
<1> QED BY <1>1, <1>2, PTL DEF ManagerSpec

\* The module, its thread, the connection and the controller never hold a
\* message, task, installation or version of another form than theirs.
THEOREM ManagerTypeAlways == ManagerSpec => []ManagerTypeOK
<1>1. Typed => ManagerTypeOK
  BY DEF Typed
<1> QED BY <1>1, TypedAlways, PTL
-----------------------------------------------------------------------------
(* What the controller is told.                                            *)

\* Packages once installed stay installed.
Grows == \A r \in Message : Real(r) => Real(r)'

LEMMA InstalledGrows ==
  ASSUME Typed, installed' = installed \/ Unpack
  PROVE  /\ Grows
         /\ \A m \in Mod, v \in Version : v \in installed[m] => v \in installed'[m]
<1>1. \A m \in Mod, v \in Version : v \in installed[m] => v \in installed'[m]
  <2>1. CASE Unpack
    <3>1. installed' = [installed EXCEPT ![job.mod] = @ \cup {job.ver}]
      BY <2>1 DEF Unpack
    <3> QED BY <3>1 DEF Typed, ManagerTypeOK
  <2> QED BY <2>1
<1>2. ASSUME NEW r \in Message, Real(r) PROVE Real(r)'
  BY <1>1, <1>2, MessageOf DEF Real
<1> QED BY <1>1, <1>2 DEF Grows

\* The queue to the controller loses its first or its last messages, or is
\* extended by what the machine reports.
LEMMA UpStays ==
  ASSUME Typed, UpReal, Grows,
         \/ up' = up
         \/ up # <<>> /\ up' = Tail(up)
         \/ \E n \in 0 .. Len(up) : up' = SubSeq(up, 1, n)
         \/ \E s \in Seq(Message) : up' = up \o s /\ \A i \in DOMAIN s : Real(s[i])'
  PROVE  UpReal'
<1>1. up \in Seq(Message) /\ \A i \in DOMAIN up : \A r : r = up[i] => Real(r)'
  <2>1. up \in Seq(Message) /\ \A i \in DOMAIN up : up[i] \in Message
    BY DEF Typed, ManagerTypeOK
  <2> QED BY <2>1 DEF UpReal, Grows
<1>2. CASE up' = up
  BY <1>1, <1>2 DEF UpReal, Real
<1>3. CASE up # <<>> /\ up' = Tail(up)
  <2>1. \A i \in DOMAIN up' : i + 1 \in DOMAIN up /\ up'[i] = up[i + 1]
    BY <1>1, <1>3
  <2> QED BY <1>1, <2>1 DEF UpReal, Real
<1>4. ASSUME NEW n \in 0 .. Len(up), up' = SubSeq(up, 1, n) PROVE UpReal'
  <2>1. \A i \in DOMAIN up' : i \in DOMAIN up /\ up'[i] = up[i]
    BY <1>1, <1>4, PartOf
  <2> QED BY <1>1, <2>1 DEF UpReal, Real
<1>5. ASSUME NEW s \in Seq(Message), up' = up \o s, \A i \in DOMAIN s : Real(s[i])'
      PROVE  UpReal'
  <2>1. \A i \in DOMAIN up' :
          \/ i \in DOMAIN up /\ up'[i] = up[i]
          \/ i - Len(up) \in DOMAIN s /\ up'[i] = s[i - Len(up)]
    BY <1>1, <1>5
  <2> QED BY <1>1, <1>5, <2>1 DEF UpReal, Real
<1> QED BY <1>2, <1>3, <1>4, <1>5

\* A report of one result, which may be lost.
LEMMA ReportOne ==
  ASSUME Typed, UpReal, Grows, NEW r \in Message, Real(r), Report2Aodc(<<r>>)
  PROVE  UpReal'
<1>1. Real(r)'
  BY DEF Grows
<1>2. <<r>> \in Seq(Message) /\ \A i \in DOMAIN <<r>> : <<r>>[i] = r
  OBVIOUS
<1>3. \A i \in DOMAIN <<r>> : Real(<<r>>[i])'
  BY <1>1, <1>2 DEF Real
<1>4. up' = up \/ up' = up \o <<r>>
  BY DEF Report2Aodc
<1> QED BY <1>2, <1>3, <1>4, UpStays

\* Every step: what is reported as a success was unpacked to the end.
LEMMA StepReports ==
  ASSUME Typed, Reported, [ManagerNext]_mVars
  PROVE  Reported'
<1> USE DEF Reported, threadVars, diskVars, ctrlVars, linkVars, Then
<1>1. /\ inbox \in Seq(Message) /\ up \in Seq(Message) /\ down \in Seq(Message)
      /\ log \in [Mod -> [Version -> Result \cup {"none"}]]
      /\ installed \in [Mod -> SUBSET Version]
  BY DEF Typed, ManagerTypeOK
<1>2. ASSUME UNCHANGED <<installed, log>> PROVE SuccessIsReal'
  BY <1>2 DEF SuccessIsReal
<1>3. ASSUME UNCHANGED installed PROVE Grows
  BY <1>3, InstalledGrows
<1>4. ASSUME UNCHANGED <<installed, log>>, UNCHANGED up \/ LosesSome,
             UNCHANGED job \/ job' = Idle \/ job'.step = "unpack"
      PROVE  Reported'
  <2>1. UpReal'
    BY <1>3, <1>4, UpStays DEF LosesSome
  <2> QED BY <1>2, <1>4, <2>1 DEF JobReal
<1>5. CASE OnAuthSuc \/ OnTimer
  <2>1. StartUmiSyn /\ UNCHANGED <<installed, log, job>>
    BY <1>5 DEF OnAuthSuc, OnTimer
  <2>2. up' = up \/ \E s \in Seq(Message) : up' = up \o s /\ \A i \in DOMAIN s : Real(s[i])'
    <3>1. \A x : x.kind = "UMI" => Real(x)'
      BY DEF Real
    <3> QED BY <2>1, <3>1, StartUmiSynTyped DEF Typed
  <2> QED BY <1>2, <1>3, <2>1, <2>2, UpStays DEF JobReal
<1>6. CASE OnDownloadFailed
  <2>1. Head(inbox) \in Message
    BY <1>1, <1>6 DEF OnDownloadFailed, Ready
  <2>2. Real(Head(inbox)) /\ Report2Aodc(<<Head(inbox)>>) /\ UNCHANGED <<installed, log, job>>
    BY <1>6 DEF OnDownloadFailed, Real
  <2> QED BY <1>2, <1>3, <2>1, <2>2, ReportOne DEF JobReal
<1>7. CASE OnChannelFreed \/ OnRecvUmi \/ OnPackageUseless
  BY <1>4, <1>7 DEF OnChannelFreed, OnRecvUmi, OnPackageUseless
<1>8. CASE OnDownloadResult
  BY <1>4, <1>8 DEF OnDownloadResult
<1>9. CASE Unpack
  <2>1. job \in Job
    BY <1>9 DEF Typed, ManagerTypeOK, Unpack, At, Idle
  <2>2. job'.ver \in installed'[job'.mod]
    BY <1>1, <1>9, <2>1 DEF Unpack, Job
  <2>3. UpReal'
    BY <1>9, InstalledGrows, UpStays DEF Unpack
  <2>4. SuccessIsReal'
    BY <1>9, InstalledGrows DEF Unpack, SuccessIsReal
  <2> QED BY <2>2, <2>3, <2>4 DEF JobReal
<1>10. CASE UnpackFails \/ RunCommand \/ SaveCfg \/ SaveCfgWrite
  <2>1. job \in Job /\ job # Idle
    BY <1>10 DEF Typed, ManagerTypeOK, UnpackFails, RunCommand, SaveCfg, SaveCfgWrite, At, Idle
  <2>2. UNCHANGED <<installed, log, up>>
    BY <1>10 DEF UnpackFails, RunCommand, SaveCfg, SaveCfgWrite
  <2>3. /\ job'.mod = job.mod /\ job'.ver = job.ver
        /\ job'.rlt = "SUC" => job.rlt = "SUC" /\ job.step # "unpack"
    BY <1>10, <2>1 DEF UnpackFails, RunCommand, SaveCfg, SaveCfgWrite, At, Job
  <2>4. UpReal'
    BY <1>3, <2>2, UpStays
  <2> QED BY <1>2, <2>1, <2>2, <2>3, <2>4 DEF JobReal
<1>11. CASE ReportResult
  <2>1. job \in Job /\ job # Idle
    BY <1>11 DEF Typed, ManagerTypeOK, ReportResult, At, Idle
  <2>2. UdrOf(job.mod, job.ver, job.rlt) \in Message
    BY <2>1, MessageOf DEF Job
  <2>3. Real(UdrOf(job.mod, job.ver, job.rlt))
    BY <1>11, <2>1 DEF ReportResult, At, UdrOf, Real, JobReal
  <2>4. UpReal'
    BY <1>3, <1>11, <2>2, <2>3, ReportOne DEF ReportResult
  <2>5. JobReal'
    BY <1>11, <2>1 DEF ReportResult, At, Job, JobReal
  <2> QED BY <1>2, <1>11, <2>4, <2>5 DEF ReportResult
<1>12. CASE RestartSelf \/ Crash
  BY <1>4, <1>12 DEF RestartSelf, Crash, ProcessRestarts
<1>13. CASE DownloadThread \/ Accepted \/ AnnounceAuthSuc \/ Tick \/ Deliver \/ LinkLost
            \/ (\E m \in Mod : DealPublish(m)) \/ UNCHANGED mVars
  BY <1>4, <1>13
     DEF DownloadThread, TakeTasks, Download, Accepted, AnnounceAuthSuc, Tick, Deliver,
         LinkLost, DealPublish, mVars
<1>14. CASE DealUpdateCheck
  <2>1. UpReal'
    BY <1>3, <1>14, UpStays DEF DealUpdateCheck
  <2> QED BY <1>2, <1>14, <2>1 DEF DealUpdateCheck, JobReal
<1>15. CASE DealUpdateResult
  <2>1. UpReal'
    BY <1>3, <1>15, UpStays DEF DealUpdateResult
  <2>2. Head(up) \in Message /\ Real(Head(up)) /\ Head(up).kind = "RESULT"
    <3>1. 1 \in DOMAIN up /\ Head(up) = up[1]
      BY <1>1, <1>15 DEF DealUpdateResult
    <3> QED BY <1>1, <1>15, <3>1 DEF DealUpdateResult, UpReal
  <2>3. Head(up).mod \in Mod /\ Head(up).ver \in Version
    BY <2>2, MessageOf
  <2>4. SuccessIsReal'
    <3>1. ASSUME NEW m \in Mod, NEW v \in Version, log'[m][v] = "SUC" PROVE v \in installed[m]
      <4>1. CASE m = Head(up).mod /\ v = Head(up).ver
        BY <1>1, <1>15, <2>2, <2>3, <3>1, <4>1 DEF DealUpdateResult, Real
      <4>2. CASE ~(m = Head(up).mod /\ v = Head(up).ver)
        <5>1. log'[m][v] = log[m][v]
          BY <1>1, <1>15, <2>3, <4>2 DEF DealUpdateResult
        <5> QED BY <3>1, <5>1 DEF SuccessIsReal
      <4> QED BY <4>1, <4>2
    <3> QED BY <1>15, <3>1 DEF SuccessIsReal, DealUpdateResult
  <2> QED BY <1>15, <2>1, <2>4 DEF DealUpdateResult, JobReal
<1> QED BY <1>5, <1>6, <1>7, <1>8, <1>9, <1>10, <1>11, <1>12, <1>13, <1>14, <1>15
        DEF ManagerNext, Handler, Install, Controller

\* A version the controller has logged as updated was unpacked to the end
\* (OnDownloadResult, UpdateModuleMgr.cpp:96-162), whatever was lost, repeated
\* or cut short by a crash between the package and the log.
THEOREM SuccessAlways == ManagerSpec => []SuccessIsReal
<1>1. ManagerInit => Reported
  BY DEF ManagerInit, Reported, UpReal, JobReal, SuccessIsReal
<1>2. Reported => SuccessIsReal
  BY DEF Reported
<1> QED BY <1>1, <1>2, TypedAlways, StepReports, PTL DEF ManagerSpec
-----------------------------------------------------------------------------
(* The line stays in order.                                                *)

\* Places and contents of the line, and the order of two of them.
LEMMA OrderOf ==
  ASSUME Rising, NEW m \in Mod, NEW k \in Stage, NEW l \in Stage, NEW p \in Nat, NEW q \in Nat,
         NEW v \in Version, NEW w \in Version,
         In(k, p, m, v), In(l, q, m, w), Before(k, p, l, q)
  PROVE  v <= w
BY DEF Rising

\* The queues lose messages at their ends, and the inbox is given some that
\* neither offer nor report a version.
LEMMA LineShrinks ==
  ASSUME Rising, NEW a \in Nat, NEW b \in Nat,
         \A p \in DOMAIN inbox' :
           \/ p + a \in DOMAIN inbox /\ inbox'[p] = inbox[p + a]
           \/ inbox'[p].kind \notin {"UPDATE", "RESULT"},
         \A p \in DOMAIN down' : p + b \in DOMAIN down /\ down'[p] = down[p + b],
         \A p \in DOMAIN tasks' : p \in DOMAIN tasks /\ tasks'[p] = tasks[p],
         \A p \in DOMAIN taken' : p \in DOMAIN taken /\ taken'[p] = taken[p],
         UNCHANGED <<disk, target>>
  PROVE  Rising'
<1> SUFFICES ASSUME NEW m \in Mod, NEW k \in Stage, NEW l \in Stage, NEW p \in Nat, NEW q \in Nat,
                    NEW v \in Version, NEW w \in Version,
                    In(k, p, m, v)', In(l, q, m, w)', Before(k, p, l, q)
             PROVE  v <= w
  BY DEF Rising, Before
<1> DEFINE P(i, x) == IF i \in {1, 4} THEN x + a ELSE IF i = 5 THEN x + b ELSE x
<1>1. \A i \in Stage, x \in Nat, u \in Version :
        In(i, x, m, u)' => In(i, P(i, x), m, u)
  BY DEF In, Result_, Offer
<1>2. Before(k, P(k, p), l, P(l, q)) /\ P(k, p) \in Nat /\ P(l, q) \in Nat
  BY DEF Before, Stage
<1>3. In(k, P(k, p), m, v) /\ In(l, P(l, q), m, w)
  BY <1>1
<1> QED BY <1>2, <1>3, OrderOf

\* An offer becomes a task.
LEMMA OfferQueued ==
  ASSUME Typed, Rising, OnRecvUmi, tasks' # tasks
  PROVE  Rising'
<1> SUFFICES ASSUME NEW m \in Mod, NEW k \in Stage, NEW l \in Stage, NEW p \in Nat, NEW q \in Nat,
                    NEW v \in Version, NEW w \in Version,
                    In(k, p, m, v)', In(l, q, m, w)', Before(k, p, l, q)
             PROVE  v <= w
  BY DEF Rising, Before
<1> DEFINE K(i, x) == IF i = 3 /\ x = Len(tasks) + 1 THEN 4 ELSE i
           P(i, x) == IF i = 3 /\ x = Len(tasks) + 1 THEN 1 ELSE IF i \in {1, 4} THEN x + 1 ELSE x
<1>1. /\ inbox \in Seq(Message) /\ inbox # <<>> /\ inbox' = Tail(inbox)
      /\ tasks \in Seq(Task) /\ Len(tasks) \in Nat
  BY DEF Typed, ManagerTypeOK, OnRecvUmi, Ready, Taken
<1>2. 1 \in DOMAIN inbox /\ Head(inbox) = inbox[1] /\ inbox[1].kind = "UPDATE"
  BY <1>1 DEF OnRecvUmi, Ready
<1>3. \A x \in DOMAIN inbox' : x + 1 \in DOMAIN inbox /\ inbox'[x] = inbox[x + 1]
  BY <1>1
<1>4. \A x \in DOMAIN tasks' :
        \/ x \in 1 .. Len(tasks) /\ x \in DOMAIN tasks /\ tasks'[x] = tasks[x]
        \/ x = Len(tasks) + 1 /\ tasks'[x] = [mod |-> inbox[1].mod, ver |-> inbox[1].ver]
  BY <1>1, <1>2 DEF OnRecvUmi, AppendDownloadTask
<1>5. UNCHANGED <<taken, down, disk, target>>
  BY DEF OnRecvUmi, diskVars, ctrlVars, linkVars
<1>6. \A i \in Stage, x \in Nat, u \in Version :
        In(i, x, m, u)' => In(K(i, x), P(i, x), m, u) /\ (i = 3 => x <= Len(tasks) + 1)
  <2>1. \A x \in Nat, u \in Version :
          In(3, x, m, u)' => In(K(3, x), P(3, x), m, u) /\ x <= Len(tasks) + 1
    BY <1>1, <1>2, <1>4 DEF In, Result_, Offer
  <2>2. \A i \in Stage \ {3}, x \in Nat, u \in Version :
          In(i, x, m, u)' => In(K(i, x), P(i, x), m, u)
    BY <1>1, <1>2, <1>3, <1>4, <1>5 DEF In, Result_, Offer
  <2> HIDE DEF K, P
  <2> QED BY <2>1, <2>2
<1>7. /\ In(K(k, p), P(k, p), m, v) /\ In(K(l, q), P(l, q), m, w)
      /\ (k = 3 => p <= Len(tasks) + 1) /\ (l = 3 => q <= Len(tasks) + 1)
  BY <1>6
<1>8. K(k, p) \in Stage /\ K(l, q) \in Stage /\ P(k, p) \in Nat /\ P(l, q) \in Nat
  BY <1>1 DEF Stage
<1>9. Before(K(k, p), P(k, p), K(l, q), P(l, q))
  BY <1>1, <1>7 DEF Before, Stage
<1> HIDE DEF K, P
<1> QED BY <1>7, <1>8, <1>9, OrderOf

\* A package is unpacked over the files.
LEMMA PackageOpened ==
  ASSUME Typed, Rising, OnDownloadResult
  PROVE  Rising'
<1> SUFFICES ASSUME NEW m \in Mod, NEW k \in Stage, NEW l \in Stage, NEW p \in Nat, NEW q \in Nat,
                    NEW v \in Version, NEW w \in Version,
                    In(k, p, m, v)', In(l, q, m, w)', Before(k, p, l, q)
             PROVE  v <= w
  BY DEF Rising, Before
<1> DEFINE K(i, x) == IF i = 0 /\ m = inbox[1].mod THEN 1 ELSE i
           P(i, x) == IF i = 0 /\ m = inbox[1].mod THEN 1 ELSE IF i \in {1, 4} THEN x + 1 ELSE x
<1>1. inbox \in Seq(Message) /\ inbox # <<>> /\ inbox' = Tail(inbox) /\ disk \in [Mod -> Version]
  BY DEF Typed, ManagerTypeOK, OnDownloadResult, Ready, Taken
<1>2. 1 \in DOMAIN inbox /\ Head(inbox) = inbox[1] /\ inbox[1].kind = "RESULT"
  BY <1>1 DEF OnDownloadResult, Ready
<1>3. \A x \in DOMAIN inbox' : x + 1 \in DOMAIN inbox /\ inbox'[x] = inbox[x + 1]
  BY <1>1
<1>4. disk'[m] = IF m = inbox[1].mod THEN inbox[1].ver ELSE disk[m]
  BY <1>1, <1>2 DEF OnDownloadResult
<1>5. UNCHANGED <<tasks, taken, down, target>>
  BY DEF OnDownloadResult, diskVars, ctrlVars, linkVars
<1>6. \A i \in Stage, x \in Nat, u \in Version :
        In(i, x, m, u)' => In(K(i, x), P(i, x), m, u)
  BY <1>1, <1>2, <1>3, <1>4, <1>5 DEF In, Result_, Offer
<1>7. /\ In(K(k, p), P(k, p), m, v) /\ In(K(l, q), P(l, q), m, w)
  BY <1>6
<1>8. K(k, p) \in Stage /\ K(l, q) \in Stage /\ P(k, p) \in Nat /\ P(l, q) \in Nat
  BY SMT DEF Stage
<1>9. Before(K(k, p), P(k, p), K(l, q), P(l, q))
  BY <1>7 DEF Before, Stage
<1> HIDE DEF K, P
<1> QED BY <1>7, <1>8, <1>9, OrderOf

\* The thread takes its tasks.
LEMMA TasksTaken ==
  ASSUME Typed, Rising, TakeTasks
  PROVE  Rising'
<1> SUFFICES ASSUME NEW m \in Mod, NEW k \in Stage, NEW l \in Stage, NEW p \in Nat, NEW q \in Nat,
                    NEW v \in Version, NEW w \in Version,
                    In(k, p, m, v)', In(l, q, m, w)', Before(k, p, l, q)
             PROVE  v <= w
  BY DEF Rising, Before
<1> DEFINE K(i, x) == IF i = 2 THEN 3 ELSE i
           P(i, x) == x
<1>1. taken' = tasks /\ DOMAIN tasks' = {} /\ UNCHANGED <<inbox, down, disk, target>>
  BY DEF TakeTasks, diskVars, ctrlVars, linkVars
<1>2. \A i \in Stage, x \in Nat, u \in Version :
        In(i, x, m, u)' => In(K(i, x), P(i, x), m, u) /\ i # 3
  BY <1>1 DEF In, Result_, Offer
<1>3. /\ In(K(k, p), P(k, p), m, v) /\ In(K(l, q), P(l, q), m, w)
      /\ k # 3 /\ l # 3
  BY <1>2
<1>4. K(k, p) \in Stage /\ K(l, q) \in Stage /\ P(k, p) \in Nat /\ P(l, q) \in Nat
  BY SMT DEF Stage
<1>5. Before(K(k, p), P(k, p), K(l, q), P(l, q))
  BY <1>3 DEF Before, Stage
<1> HIDE DEF K, P
<1> QED BY <1>3, <1>4, <1>5, OrderOf

\* A task ends with its result.
LEMMA TaskEnds ==
  ASSUME Typed, Rising, Download
  PROVE  Rising'
<1> SUFFICES ASSUME NEW m \in Mod, NEW k \in Stage, NEW l \in Stage, NEW p \in Nat, NEW q \in Nat,
                    NEW v \in Version, NEW w \in Version,
                    In(k, p, m, v)', In(l, q, m, w)', Before(k, p, l, q)
             PROVE  v <= w
  BY DEF Rising, Before
<1> DEFINE K(i, x) == IF i = 1 /\ x = Len(inbox) + 1 THEN 2 ELSE i
           P(i, x) == IF i = 1 /\ x = Len(inbox) + 1 THEN 1 ELSE IF i = 2 THEN x + 1 ELSE x
<1>1. /\ taken \in Seq(Task) /\ taken # <<>> /\ taken' = Tail(taken)
      /\ inbox \in Seq(Message) /\ Len(inbox) \in Nat
  BY DEF Typed, ManagerTypeOK, Download
<1>2. 1 \in DOMAIN taken /\ Head(taken) = taken[1]
  BY <1>1
<1>3. \A x \in DOMAIN taken' : x + 1 \in DOMAIN taken /\ taken'[x] = taken[x + 1]
  BY <1>1
<1>4. \E r \in {"SUC", "DFA"} : inbox' = Append(inbox, UdrOf(taken[1].mod, taken[1].ver, r))
  BY <1>2 DEF Download
<1>5. \E r \in {"SUC", "DFA"} :
      \A x \in DOMAIN inbox' :
          \/ x \in 1 .. Len(inbox) /\ x \in DOMAIN inbox /\ inbox'[x] = inbox[x]
          \/ x = Len(inbox) + 1 /\ inbox'[x] = UdrOf(taken[1].mod, taken[1].ver, r)
  BY <1>1, <1>4
<1>6. UNCHANGED <<tasks, down, disk, target>>
  BY DEF Download, diskVars, ctrlVars, linkVars
<1>7. \A i \in Stage, x \in Nat, u \in Version :
        In(i, x, m, u)' => In(K(i, x), P(i, x), m, u) /\ (i = 1 => x <= Len(inbox) + 1)
  BY <1>1, <1>2, <1>3, <1>4, <1>5, <1>6 DEF In, Result_, Offer, UdrOf
<1>8. /\ In(K(k, p), P(k, p), m, v) /\ In(K(l, q), P(l, q), m, w)
      /\ (k = 1 => p <= Len(inbox) + 1) /\ (l = 1 => q <= Len(inbox) + 1)
  BY <1>7
<1>9. K(k, p) \in Stage /\ K(l, q) \in Stage /\ P(k, p) \in Nat /\ P(l, q) \in Nat
  BY <1>1 DEF Stage
<1>10. Before(K(k, p), P(k, p), K(l, q), P(l, q))
  BY <1>1, <1>8 DEF Before, Stage
<1> HIDE DEF K, P
<1> QED BY <1>8, <1>9, <1>10, OrderOf

\* An offer reaches the machine.
LEMMA OfferDelivered ==
  ASSUME Typed, Rising, Deliver, link
  PROVE  Rising'
<1> SUFFICES ASSUME NEW m \in Mod, NEW k \in Stage, NEW l \in Stage, NEW p \in Nat, NEW q \in Nat,
                    NEW v \in Version, NEW w \in Version,
                    In(k, p, m, v)', In(l, q, m, w)', Before(k, p, l, q)
             PROVE  v <= w
  BY DEF Rising, Before
<1> DEFINE K(i, x) == IF i = 4 /\ x = Len(inbox) + 1 THEN 5 ELSE i
           P(i, x) == IF i = 4 /\ x = Len(inbox) + 1 THEN 1 ELSE IF i = 5 THEN x + 1 ELSE x
<1>1. /\ down \in Seq(Message) /\ down # <<>> /\ down' = Tail(down)
      /\ inbox \in Seq(Message) /\ Len(inbox) \in Nat
  BY DEF Typed, ManagerTypeOK, Deliver
<1>2. 1 \in DOMAIN down /\ Head(down) = down[1] /\ down[1].kind = "UPDATE"
  BY <1>1 DEF Typed
<1>3. \A x \in DOMAIN down' : x + 1 \in DOMAIN down /\ down'[x] = down[x + 1]
  BY <1>1
<1>4. \A x \in DOMAIN inbox' :
        \/ x \in 1 .. Len(inbox) /\ x \in DOMAIN inbox /\ inbox'[x] = inbox[x]
        \/ x = Len(inbox) + 1 /\ inbox'[x] = down[1]
  BY <1>1, <1>2 DEF Deliver
<1>5. UNCHANGED <<tasks, taken, disk, target>>
  BY DEF Deliver, diskVars, ctrlVars, linkVars
<1>6. \A i \in Stage, x \in Nat, u \in Version :
        In(i, x, m, u)' => In(K(i, x), P(i, x), m, u) /\ (i = 4 => x <= Len(inbox) + 1)
  <2>1. \A x \in Nat, u \in Version :
          In(4, x, m, u)' => In(K(4, x), P(4, x), m, u) /\ x <= Len(inbox) + 1
    BY <1>1, <1>2, <1>4 DEF In, Result_, Offer
  <2>2. \A i \in Stage \ {4}, x \in Nat, u \in Version :
          In(i, x, m, u)' => In(K(i, x), P(i, x), m, u)
    BY <1>1, <1>2, <1>3, <1>4, <1>5 DEF In, Result_, Offer
  <2> HIDE DEF K, P
  <2> QED BY <2>1, <2>2
<1>7. /\ In(K(k, p), P(k, p), m, v) /\ In(K(l, q), P(l, q), m, w)
      /\ (k = 4 => p <= Len(inbox) + 1) /\ (l = 4 => q <= Len(inbox) + 1)
  BY <1>6
<1>8. K(k, p) \in Stage /\ K(l, q) \in Stage /\ P(k, p) \in Nat /\ P(l, q) \in Nat
  BY <1>1 DEF Stage
<1>9. Before(K(k, p), P(k, p), K(l, q), P(l, q))
  BY <1>1, <1>7 DEF Before, Stage
<1> HIDE DEF K, P
<1> QED BY <1>7, <1>8, <1>9, OrderOf

\* The controller answers a check with its last publication.
LEMMA OfferMade ==
  ASSUME Typed, Rising, DealUpdateCheck, down' # down
  PROVE  Rising'
<1> SUFFICES ASSUME NEW m \in Mod, NEW k \in Stage, NEW l \in Stage, NEW p \in Nat, NEW q \in Nat,
                    NEW v \in Version, NEW w \in Version,
                    In(k, p, m, v)', In(l, q, m, w)', Before(k, p, l, q)
             PROVE  v <= w
  BY DEF Rising, Before
<1> DEFINE K(i, x) == IF i = 5 /\ x = Len(down) + 1 THEN 6 ELSE i
           P(i, x) == IF i = 5 /\ x = Len(down) + 1 THEN 0 ELSE x
<1>1. down \in Seq(Message) /\ Len(down) \in Nat
  BY DEF Typed, ManagerTypeOK
<1>2. down' = Append(down, Update(Head(up).mod, target[Head(up).mod]))
  BY DEF DealUpdateCheck
<1>3. \A x \in DOMAIN down' :
        \/ x \in 1 .. Len(down) /\ x \in DOMAIN down /\ down'[x] = down[x]
        \/ x = Len(down) + 1 /\ down'[x] = Update(Head(up).mod, target[Head(up).mod])
  BY <1>1, <1>2
<1>4. UNCHANGED <<inbox, tasks, taken, disk, target>>
  BY DEF DealUpdateCheck, threadVars, diskVars, ctrlVars
<1>5. \A i \in Stage, x \in Nat, u \in Version :
        In(i, x, m, u)' => In(K(i, x), P(i, x), m, u) /\ (i = 5 => x <= Len(down) + 1)
  BY <1>1, <1>2, <1>3, <1>4 DEF In, Result_, Offer, Update
<1>6. /\ In(K(k, p), P(k, p), m, v) /\ In(K(l, q), P(l, q), m, w)
      /\ (k = 5 => p <= Len(down) + 1) /\ (l = 5 => q <= Len(down) + 1)
  BY <1>5
<1>7. K(k, p) \in Stage /\ K(l, q) \in Stage /\ P(k, p) \in Nat /\ P(l, q) \in Nat
  BY <1>1 DEF Stage
<1>8. Before(K(k, p), P(k, p), K(l, q), P(l, q))
  BY <1>1, <1>6 DEF Before, Stage
<1> HIDE DEF K, P
<1> QED BY <1>6, <1>7, <1>8, OrderOf

\* A publication is later than all there was of its module.
LEMMA Published ==
  ASSUME Typed, Rising, NEW n \in Mod, DealPublish(n)
  PROVE  Rising'
<1> SUFFICES ASSUME NEW m \in Mod, NEW k \in Stage, NEW l \in Stage, NEW p \in Nat, NEW q \in Nat,
                    NEW v \in Version, NEW w \in Version,
                    In(k, p, m, v)', In(l, q, m, w)', Before(k, p, l, q)
             PROVE  v <= w
  BY DEF Rising, Before
<1> DEFINE New(i, x) == m = n /\ (i = 6 \/ (i = 5 /\ x = Len(down) + 1))
<1>1. /\ down \in Seq(Message) /\ Len(down) \in Nat /\ MaxVersion \in Nat
      /\ target \in [Mod -> Version] /\ target[m] \in Version
  BY ManagerAssumption DEF Typed, ManagerTypeOK
<1>2. /\ target' = [target EXCEPT ![n] = target[n] + 1] /\ target'[n] = target[n] + 1
      /\ UNCHANGED <<inbox, tasks, taken, disk>>
  BY <1>1 DEF DealPublish, threadVars, diskVars
<1>3. down' = Append(down, Update(n, target[n] + 1))
  BY <1>2 DEF DealPublish
<1>4. \A x \in DOMAIN down' :
        \/ x \in 1 .. Len(down) /\ x \in DOMAIN down /\ down'[x] = down[x]
        \/ x = Len(down) + 1 /\ down'[x] = Update(n, target[n] + 1)
  BY <1>1, <1>3
<1>5. \A x \in Nat, u \in Version : In(5, x, m, u)' =>
        /\ x <= Len(down) + 1
        /\ IF New(5, x) THEN u = target[m] + 1 ELSE In(5, x, m, u) /\ x <= Len(down)
  BY <1>1, <1>4 DEF In, Offer, Update
<1>6. \A x \in Nat, u \in Version : In(6, x, m, u)' =>
        IF New(6, x) THEN u = target[m] + 1 ELSE In(6, x, m, u)
  BY <1>1, <1>2 DEF In
<1>7. \A i \in 0 .. 4, x \in Nat, u \in Version : In(i, x, m, u)' => In(i, x, m, u) /\ ~New(i, x)
  BY <1>2 DEF In
<1>8. \A i \in Stage, x \in Nat, u \in Version : In(i, x, m, u)' =>
        IF New(i, x) THEN u = target[m] + 1
        ELSE In(i, x, m, u) /\ u <= target[m] /\ (i = 5 /\ m = n => x <= Len(down))
  <2> TAKE i \in Stage, x \in Nat, u \in Version
  <2> HAVE In(i, x, m, u)'
  <2>1. CASE New(i, x)
    BY <1>5, <1>6, <2>1
  <2>2. CASE ~New(i, x)
    <3>1. In(i, x, m, u) /\ (i = 5 => x <= Len(down))
      <4>1. CASE i = 5
        BY <1>5, <2>2, <4>1
      <4>2. CASE i = 6
        BY <1>6, <2>2, <4>2
      <4>3. CASE i \in 0 .. 4
        BY <1>7, <4>3
      <4> QED BY <4>1, <4>2, <4>3 DEF Stage
    <3>2. In(6, x, m, target[m]) /\ Before(i, x, 6, x) /\ 6 \in Stage
      BY DEF In, Before, Stage
    <3>3. u <= target[m]
      BY <1>1, <3>1, <3>2, OrderOf
    <3> QED BY <2>2, <3>1, <3>3
  <2> QED BY <2>1, <2>2
<1>9. CASE New(k, p)
  <2>1. New(l, q)
    BY <1>8, <1>9 DEF Before, Stage
  <2>2. v = target[m] + 1 /\ w = target[m] + 1
    BY <1>8, <1>9, <2>1
  <2> HIDE DEF New
  <2> QED BY <1>1, <2>2 DEF Version
<1>10. CASE ~New(k, p) /\ New(l, q)
  BY <1>1, <1>8, <1>10 DEF Version
<1>11. CASE ~New(k, p) /\ ~New(l, q)
  BY <1>8, <1>11, OrderOf
<1> QED BY <1>9, <1>10, <1>11

\* Every step keeps the line in order.
LEMMA StepKeepsOrder ==
  ASSUME Typed, Rising, [ManagerNext]_mVars
  PROVE  Rising'
<1> USE DEF threadVars, diskVars, ctrlVars, linkVars
<1>1. inbox \in Seq(Message) /\ down \in Seq(Message) /\ tasks \in Seq(Task) /\ taken \in Seq(Task)
  BY DEF Typed, ManagerTypeOK
<1>2. CASE UNCHANGED <<inbox, down, tasks, taken, disk, target>>
  <2>1. /\ \A p \in DOMAIN inbox' : p + 0 \in DOMAIN inbox /\ inbox'[p] = inbox[p + 0]
        /\ \A p \in DOMAIN down' : p + 0 \in DOMAIN down /\ down'[p] = down[p + 0]
    BY <1>1, <1>2
  <2>2. 0 \in Nat
    OBVIOUS
  <2> QED BY <1>2, <2>1, <2>2, LineShrinks
<1>3. CASE inbox # <<>> /\ Taken /\ UNCHANGED <<down, tasks, taken, disk, target>>
  <2>1. \A p \in DOMAIN inbox' : p + 1 \in DOMAIN inbox /\ inbox'[p] = inbox[p + 1]
    BY <1>1, <1>3 DEF Taken
  <2>2. \A p \in DOMAIN down' : p + 0 \in DOMAIN down /\ down'[p] = down[p + 0]
    BY <1>1, <1>3
  <2> QED BY <1>3, <2>1, <2>2, LineShrinks
<1>4. ASSUME NEW b \in 0 .. Len(down), down' = SubSeq(down, b + 1, Len(down)),
             \/ inbox' = inbox \/ inbox' = <<>>
             \/ \E c \in {"AUTHSUC", "FREED", "ONTIMER"} : inbox' = Append(inbox, [kind |-> c]),
             \/ UNCHANGED <<tasks, taken>>
             \/ tasks' = <<>> /\ taken' = <<>>,
             UNCHANGED <<disk, target>>
      PROVE  Rising'
  <2>1. \A p \in DOMAIN down' : p + b \in DOMAIN down /\ down'[p] = down[p + b]
    BY <1>1, <1>4, PartOf
  <2>2. \A p \in DOMAIN inbox' : \/ p + 0 \in DOMAIN inbox /\ inbox'[p] = inbox[p + 0]
                                 \/ inbox'[p].kind \notin {"UPDATE", "RESULT"}
    <3>1. CASE inbox' = inbox \/ inbox' = <<>>
      BY <1>1, <3>1
    <3>2. ASSUME NEW c \in {"AUTHSUC", "FREED", "ONTIMER"}, inbox' = Append(inbox, [kind |-> c])
          PROVE  \A p \in DOMAIN inbox' : \/ p + 0 \in DOMAIN inbox /\ inbox'[p] = inbox[p + 0]
                                          \/ inbox'[p].kind = c
      BY <1>1, <3>2
    <3> QED BY <1>4, <3>1, <3>2
  <2>3. /\ \A p \in DOMAIN tasks' : p \in DOMAIN tasks /\ tasks'[p] = tasks[p]
        /\ \A p \in DOMAIN taken' : p \in DOMAIN taken /\ taken'[p] = taken[p]
    BY <1>4
  <2>4. b \in Nat /\ 0 \in Nat
    BY <1>1
  <2> QED BY <1>4, <2>1, <2>2, <2>3, <2>4, LineShrinks
<1>5. SubSeq(down, 0 + 1, Len(down)) = down /\ 0 \in 0 .. Len(down)
  BY <1>1
<1>6. CASE Handler
  <2>1. inbox # <<>> /\ Taken
    BY <1>6 DEF Handler, OnAuthSuc, OnChannelFreed, OnTimer, OnRecvUmi,
                OnDownloadFailed, OnPackageUseless, OnDownloadResult, Ready
  <2>2. CASE OnRecvUmi \/ OnDownloadResult
    <3>1. CASE OnRecvUmi /\ tasks' = tasks
      BY <1>3, <2>1, <3>1 DEF OnRecvUmi
    <3> QED BY <2>2, <3>1, OfferQueued, PackageOpened
  <2> QED BY <1>3, <1>6, <2>1, <2>2
          DEF Handler, OnAuthSuc, OnChannelFreed, OnTimer, OnDownloadFailed, OnPackageUseless
<1>7. ASSUME ProcessRestarts PROVE Rising'
  BY <1>4, <1>7 DEF ProcessRestarts, LosesSome
<1>8. CASE Install
  BY <1>2, <1>7, <1>8
     DEF Install, Unpack, UnpackFails, RunCommand, SaveCfg, SaveCfgWrite, ReportResult, RestartSelf
<1>9. CASE Crash \/ LinkLost
  BY <1>4, <1>7, <1>9 DEF Crash, LinkLost, LosesSome
<1>10. CASE Accepted \/ AnnounceAuthSuc \/ Tick
  BY <1>4, <1>5, <1>10 DEF Accepted, AnnounceAuthSuc, Tick
<1>11. CASE Deliver
  <2>1. CASE ~link
    <3>1. down' = SubSeq(down, 1 + 1, Len(down)) /\ 1 \in 0 .. Len(down)
      BY <1>1, <1>11 DEF Deliver
    <3> QED BY <1>4, <1>11, <2>1, <3>1 DEF Deliver
  <2> QED BY <1>11, <2>1, OfferDelivered
<1>12. CASE Controller
  <2>1. CASE UNCHANGED down
    BY <1>2, <1>12, <2>1 DEF Controller, DealUpdateCheck, DealUpdateResult
  <2> QED BY <1>12, <2>1, OfferMade DEF Controller, DealUpdateResult
<1>13. CASE UNCHANGED mVars
  BY <1>2, <1>13 DEF mVars
<1> QED BY <1>6, <1>8, <1>9, <1>10, <1>11, <1>12, <1>13, TasksTaken, TaskEnds, Published
        DEF ManagerNext, DownloadThread

\* Whatever is offered twice, overtaken, lost, repeated or cut short by the end
\* of the process, the files of a module never go back to an earlier
\* publication: OnRecvUmi (UpdateModuleMgr.cpp:228-237) need not look at what is
\* under way, because nothing on the line to the files is earlier than they are.
THEOREM FilesNeverBack == ManagerSpec => NeverBack
<1>1. ManagerInit => Rising
  <2> SUFFICES ASSUME ManagerInit, NEW m \in Mod, NEW k \in Stage, NEW l \in Stage,
                      NEW p \in Nat, NEW q \in Nat, NEW v \in Version, NEW w \in Version,
                      In(k, p, m, v), In(l, q, m, w), Before(k, p, l, q)
               PROVE  v <= w
    BY DEF Rising
  <2>1. disk[m] = 0 /\ target[m] = 0
    BY DEF ManagerInit
  <2>2. DOMAIN inbox = {} /\ DOMAIN taken = {} /\ DOMAIN tasks = {} /\ DOMAIN down = {}
    BY DEF ManagerInit
  <2>3. v = 0 /\ w = 0
    BY <2>1, <2>2 DEF In
  <2> QED BY <2>3
<1>2. ASSUME Typed, Rising, [ManagerNext]_mVars
      PROVE  [\A m \in Mod : disk'[m] >= disk[m]]_mVars
  <2> SUFFICES ASSUME ManagerNext, NEW m \in Mod PROVE disk'[m] >= disk[m]
    BY <1>2
  <2>1. disk \in [Mod -> Version] /\ disk[m] \in Nat
    BY <1>2, ManagerAssumption DEF Typed, ManagerTypeOK, Version
  <2>2. CASE UNCHANGED disk
    BY <2>1, <2>2
  <2>3. CASE OnDownloadResult
    <3> DEFINE h == inbox[1]
    <3>1. /\ inbox \in Seq(Message) /\ inbox # <<>> /\ h = Head(inbox) /\ 1 \in DOMAIN inbox
          /\ h \in Message /\ h.kind = "RESULT"
      BY <1>2, <2>3 DEF Typed, ManagerTypeOK, OnDownloadResult, Ready
    <3>2. h.mod \in Mod /\ h.ver \in Version
      BY <3>1, MessageOf
    <3>3. disk'[m] = IF m = h.mod THEN h.ver ELSE disk[m]
      BY <2>1, <2>3, <3>1 DEF OnDownloadResult
    <3>4. ASSUME m = h.mod PROVE disk[m] <= h.ver
      <4>1. In(0, 1, m, disk[m]) /\ In(1, 1, m, h.ver) /\ Before(0, 1, 1, 1)
        BY <3>1, <3>4 DEF In, Result_, Before
      <4>2. disk[m] \in Version /\ 0 \in Stage /\ 1 \in Stage
        BY <2>1 DEF Stage
      <4> QED BY <1>2, <3>2, <4>1, <4>2, OrderOf
    <3> HIDE DEF h
    <3> QED BY <2>1, <3>2, <3>3, <3>4 DEF Version
  <2> QED BY <2>2, <2>3
          DEF ManagerNext, Handler, Install, DownloadThread, Controller, OnAuthSuc,
              OnChannelFreed, OnTimer, OnRecvUmi, OnDownloadFailed, OnPackageUseless, Unpack,
              UnpackFails, RunCommand, SaveCfg, SaveCfgWrite, ReportResult, RestartSelf,
              ProcessRestarts, TakeTasks, Download, Accepted, AnnounceAuthSuc, Tick, Deliver,
              DealUpdateCheck, DealUpdateResult, LinkLost, Crash, DealPublish, diskVars
<1> QED BY <1>1, <1>2, TypedAlways, StepKeepsOrder, PTL DEF ManagerSpec, NeverBack
=============================================================================
