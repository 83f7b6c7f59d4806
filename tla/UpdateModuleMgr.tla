-------------------------- MODULE UpdateModuleMgr --------------------------
(***************************************************************************)
(* The updating of one machine by its aods service: the update module      *)
(* (aods/UpdateModuleMgr.cpp), which confirms versions, queues downloads   *)
(* and installs them, its download thread (aods/DownloadThread.cpp), and   *)
(* what they see of the connection to aodc and of the controller.          *)
(*                                                                         *)
(* A version is the number of its publication, 0 before the first.  An     *)
(* installation is a sequence of steps, between which the process may die: *)
(*                                                                         *)
(*   unpack -> command -> open -> write -> report             (others)     *)
(*   unpack -> open -> write -> report -> restart             (aods itself)*)
(***************************************************************************)
EXTENDS Naturals, Sequences, SequencesExt

CONSTANTS
  Mod,         \* modules listed in data/aodsumi.db
  Command,     \* what the list gives as restart commands: "none", a command
               \* of the "module", or one that restarts "aods", this process
  MaxVersion,  \* bound: publications of a module
  MaxFault,    \* bound: failures of any kind
  MaxBacklog,  \* bound: messages and tasks under way when the timer ticks
  Torn         \* the list file was opened for writing, and is empty

ASSUME ManagerAssumption ==
  /\ IsFiniteSet(Mod)
  /\ Command \subseteq {"none", "module", "aods"}
  /\ MaxVersion \in Nat /\ MaxFault \in Nat /\ MaxBacklog \in Nat

Version == 0 .. MaxVersion

\* EN_DR_SUC, a failed download (DFA, SFA, CFA), UFA, RFA.
Result == {"SUC", "DFA", "UFA", "RFA"}

VARIABLES
  link,       \* the connection is up and aodc has accepted the machine
  answers,    \* acceptances the authentication module has not yet announced
  timer,      \* EN_TIMER_TI is set
  inbox,      \* messages of the update module
  pm,         \* m_mapPM: versions of the modules managed
  job,        \* installation under way
  tasks,      \* m_lstDi of the download thread
  taken,      \* its lstTempDi
  cmd,        \* restart commands of the modules, in the list and in m_mapPM
  db,         \* data/aodsumi.db
  disk,       \* version of the last package unpacked over a module's files
  target,     \* the controller: last publication
  log,        \* the controller: last result reported for a version
  up,         \* on the way to the controller
  down,       \* on the way from it
  faults,     \* failures so far
  installed   \* history: versions unpacked to the end, as far as noticed

threadVars == <<timer, inbox, pm, job, tasks, taken>>
diskVars == <<cmd, db, disk, installed>>
ctrlVars == <<target, log>>
linkVars == <<link, answers, down>>
mVars == <<threadVars, diskVars, ctrlVars, linkVars, up, faults>>

Idle == [step |-> "idle"]

Job == [step : {"unpack", "command", "open", "write", "report", "restart"},
        mod : Mod, ver : Version, rlt : Result]

Message == [kind : {"AUTHSUC", "FREED", "ONTIMER"}]
           \cup [kind : {"UPDATE", "UMI"}, mod : Mod, ver : Version]
           \cup [kind : {"RESULT"}, mod : Mod, ver : Version, rlt : Result]

Task == [mod : Mod, ver : Version]

ManagerTypeOK ==
  /\ link \in BOOLEAN /\ timer \in BOOLEAN
  /\ answers \in 0 .. 1
  /\ inbox \in Seq(Message) /\ up \in Seq(Message) /\ down \in Seq(Message)
  /\ pm \in [Mod -> Version] \cup [{} -> Version]
  /\ job \in Job \cup {Idle}
  /\ tasks \in Seq(Task) /\ taken \in Seq(Task)
  /\ cmd \in [Mod -> Command]
  /\ db \in [Mod -> Version] \cup {Torn}
  /\ disk \in [Mod -> Version]
  /\ target \in [Mod -> Version]
  /\ log \in [Mod -> [Version -> Result \cup {"none"}]]
  /\ faults \in 0 .. MaxFault
  /\ installed \in [Mod -> SUBSET Version]

Nothing == [m \in {} |-> 0]

ManagerInit ==
  /\ link = FALSE /\ answers = 0 /\ timer = FALSE
  /\ inbox = <<>> /\ up = <<>> /\ down = <<>>
  /\ pm = Nothing
  /\ job = Idle /\ tasks = <<>> /\ taken = <<>>
  /\ cmd \in [Mod -> Command]
  /\ db = [m \in Mod |-> 0]
  /\ disk = [m \in Mod |-> 0]
  /\ target = [m \in Mod |-> 0]
  /\ log = [m \in Mod |-> [v \in Version |-> "none"]]
  /\ faults = 0
  /\ installed = [m \in Mod |-> {0}]

Fault ==
  /\ faults < MaxFault
  /\ faults' = faults + 1

NoFault == UNCHANGED faults
-----------------------------------------------------------------------------
(* Reports.                                                                *)

\* Report2Aodc: what is sent while the connection is down is lost.
Report2Aodc(msgs) == up' = IF link THEN up \o msgs ELSE up

\* Mutant of StartUmiSyn: the list is used without a test.
StartUmiSynUnchecked == pm' = db /\ Report2Aodc(<<>>)

\* Unless the list cannot be read, it replaces m_mapPM, and every version in
\* it is confirmed to the controller.
StartUmiSyn ==
  IF db = Torn THEN UNCHANGED <<pm, up>>
  ELSE /\ pm' = db
       /\ LET order == SetToSeq(Mod)
          IN  Report2Aodc([i \in DOMAIN order |->
                [kind |-> "UMI", mod |-> order[i], ver |-> db[order[i]]]])
-----------------------------------------------------------------------------
(* The handlers of the update module.                                      *)

Ready(kind) == job = Idle /\ inbox # <<>> /\ Head(inbox).kind = kind

Taken == inbox' = Tail(inbox)

\* Mutant of OnAuthSuc: the check is not repeated.
OnAuthSucOnce ==
  /\ Ready("AUTHSUC") /\ Taken
  /\ StartUmiSyn
  /\ UNCHANGED <<timer, job, tasks, taken, diskVars, ctrlVars, linkVars, faults>>

OnAuthSuc ==
  /\ Ready("AUTHSUC") /\ Taken
  /\ StartUmiSyn
  /\ timer' = TRUE
  /\ UNCHANGED <<job, tasks, taken, diskVars, ctrlVars, linkVars, faults>>

OnChannelFreed ==
  /\ Ready("FREED") /\ Taken
  /\ timer' = FALSE
  /\ UNCHANGED <<pm, job, tasks, taken, diskVars, ctrlVars, linkVars, up, faults>>

OnTimer ==
  /\ Ready("ONTIMER") /\ Taken
  /\ StartUmiSyn
  /\ UNCHANGED <<timer, job, tasks, taken, diskVars, ctrlVars, linkVars, faults>>

\* Mutant of AppendDownloadTask: the newest task first.
AppendDownloadTaskFirst(t) == tasks' = <<t>> \o tasks

\* There is one download thread (EN_DT_NUM).
AppendDownloadTask(t) == tasks' = Append(tasks, t)

\* Every update of a managed module is downloaded, whatever is under way.
OnRecvUmi ==
  /\ Ready("UPDATE") /\ Taken
  /\ IF Head(inbox).mod \in DOMAIN pm
     THEN AppendDownloadTask([mod |-> Head(inbox).mod, ver |-> Head(inbox).ver])
     ELSE UNCHANGED tasks
  /\ UNCHANGED <<timer, pm, job, taken, diskVars, ctrlVars, linkVars, up, faults>>

UdrOf(m, v, rlt) == [kind |-> "RESULT", mod |-> m, ver |-> v, rlt |-> rlt]

\* OnDownloadResult up to the opening of the package.
OnDownloadFailed ==
  /\ Ready("RESULT") /\ Taken
  /\ Head(inbox).rlt # "SUC"
  /\ Report2Aodc(<<Head(inbox)>>)
  /\ UNCHANGED <<timer, pm, job, tasks, taken, diskVars, ctrlVars, linkVars, faults>>

\* The module is no longer managed, or its package does not open: no report.
OnPackageUseless ==
  /\ Ready("RESULT") /\ Taken
  /\ Head(inbox).rlt = "SUC"
  /\ IF Head(inbox).mod \in DOMAIN pm THEN Fault ELSE NoFault
  /\ UNCHANGED <<timer, pm, job, tasks, taken, diskVars, ctrlVars, linkVars, up>>

OnDownloadResult ==
  /\ Ready("RESULT") /\ Taken
  /\ Head(inbox).rlt = "SUC"
  /\ Head(inbox).mod \in DOMAIN pm
  /\ LET m == Head(inbox).mod
         v == Head(inbox).ver
     IN  /\ job' = [step |-> "unpack", mod |-> m, ver |-> v, rlt |-> "SUC"]
         /\ disk' = [disk EXCEPT ![m] = v]
  /\ UNCHANGED <<timer, pm, tasks, taken, cmd, db, installed, ctrlVars, linkVars, up, faults>>
-----------------------------------------------------------------------------
(* The rest of OnDownloadResult.                                           *)

At(step) == job.step = step

Then(step) == job' = [job EXCEPT !.step = step]

\* The package was gone through without an error that is noticed: that a write
\* fails (AoUnzip.cpp:29), or why there is no next entry (UpdateModuleMgr.cpp:98,
\* 136), is not looked at.
Unpack ==
  /\ At("unpack")
  /\ installed' = [installed EXCEPT ![job.mod] = @ \cup {job.ver}]
  /\ Then(IF cmd[job.mod] = "module" THEN "command" ELSE "open")
  /\ UNCHANGED <<timer, inbox, pm, tasks, taken, cmd, db, disk, ctrlVars, linkVars, up, faults>>

\* Mutant of UnpackFails: the result stays as it was.
UnpackFailsUnnoticed ==
  /\ At("unpack")
  /\ Fault
  /\ Then("open")
  /\ UNCHANGED <<timer, inbox, pm, tasks, taken, diskVars, ctrlVars, linkVars, up>>

\* A file could not be written: the rest of the package is left out.
UnpackFails ==
  /\ At("unpack")
  /\ Fault
  /\ job' = [job EXCEPT !.step = "report", !.rlt = "UFA"]
  /\ UNCHANGED <<timer, inbox, pm, tasks, taken, diskVars, ctrlVars, linkVars, up>>

RunCommand ==
  /\ At("command")
  /\ \/ Then("open") /\ NoFault
     \/ job' = [job EXCEPT !.step = "open", !.rlt = "RFA"] /\ Fault
  /\ UNCHANGED <<timer, inbox, pm, tasks, taken, diskVars, ctrlVars, linkVars, up>>

\* Mutant of SaveCfg: the list is not saved when the process is restarted.
SaveCfgOthers ==
  /\ At("open")
  /\ pm' = [pm EXCEPT ![job.mod] = job.ver]
  /\ IF cmd[job.mod] = "aods" THEN Then("report") /\ NoFault /\ UNCHANGED db
     ELSE db' = Torn /\ Then("write") /\ NoFault
  /\ UNCHANGED <<timer, inbox, tasks, taken, cmd, disk, installed, ctrlVars, linkVars, up>>

\* The version is entered, and SaveCfg opens the list, which empties it.  That
\* it cannot be opened goes unnoticed.
SaveCfg ==
  /\ At("open")
  /\ pm' = [pm EXCEPT ![job.mod] = job.ver]
  /\ \/ db' = Torn /\ Then("write") /\ NoFault
     \/ UNCHANGED db /\ Then("report") /\ Fault
  /\ UNCHANGED <<timer, inbox, tasks, taken, cmd, disk, installed, ctrlVars, linkVars, up>>

SaveCfgWrite ==
  /\ At("write")
  /\ db' = pm
  /\ Then("report")
  /\ UNCHANGED <<timer, inbox, pm, tasks, taken, cmd, disk, installed, ctrlVars, linkVars, up, faults>>

ReportResult ==
  /\ At("report")
  /\ Report2Aodc(<<UdrOf(job.mod, job.ver, job.rlt)>>)
  /\ IF cmd[job.mod] = "aods" /\ job.rlt = "SUC" THEN Then("restart") ELSE job' = Idle
  /\ UNCHANGED <<timer, inbox, pm, tasks, taken, diskVars, ctrlVars, linkVars, faults>>

\* The last messages sent and the next to be received go with a connection.
LosesSome ==
  /\ \E n \in 0 .. Len(up) : up' = SubSeq(up, 1, n)
  /\ \E n \in 0 .. Len(down) : down' = SubSeq(down, n + 1, Len(down))

\* The process ends and starts again: all but the files is lost.
ProcessRestarts ==
  /\ link' = FALSE /\ answers' = 0 /\ timer' = FALSE
  /\ inbox' = <<>> /\ pm' = Nothing
  /\ job' = Idle /\ tasks' = <<>> /\ taken' = <<>>
  /\ LosesSome
  /\ UNCHANGED <<diskVars, ctrlVars>>

\* The command of aods itself ends this process, or fails.
RestartSelf ==
  /\ At("restart")
  /\ \/ ProcessRestarts /\ NoFault
     \/ /\ Fault /\ job' = Idle
        /\ UNCHANGED <<timer, inbox, pm, tasks, taken, diskVars, ctrlVars, linkVars, up>>

Crash == Fault /\ ProcessRestarts
-----------------------------------------------------------------------------
(* The download thread.                                                    *)

\* Run takes the whole list under the lock.
TakeTasks ==
  /\ taken = <<>> /\ tasks # <<>>
  /\ taken' = tasks /\ tasks' = <<>>
  /\ UNCHANGED <<timer, inbox, pm, job, diskVars, ctrlVars, linkVars, up, faults>>

\* A task ends, after at most three tries, with its result.
Download ==
  /\ taken # <<>>
  /\ taken' = Tail(taken)
  /\ \E rlt \in {"SUC", "DFA"} :
       /\ IF rlt = "SUC" THEN NoFault ELSE Fault
       /\ inbox' = Append(inbox, UdrOf(Head(taken).mod, Head(taken).ver, rlt))
  /\ UNCHANGED <<timer, pm, job, tasks, diskVars, ctrlVars, linkVars, up>>
-----------------------------------------------------------------------------
(* The connection, the timer and the controller.                           *)

\* aodc has accepted the machine; its answer reaches the authentication module.
Accepted ==
  /\ ~link /\ answers = 0
  /\ link' = TRUE /\ answers' = 1
  /\ UNCHANGED <<threadVars, diskVars, ctrlVars, down, up, faults>>

\* The authentication module announces it; the connection may be gone by then.
AnnounceAuthSuc ==
  /\ answers = 1
  /\ answers' = 0
  /\ inbox' = Append(inbox, [kind |-> "AUTHSUC"])
  /\ UNCHANGED <<timer, pm, job, tasks, taken, diskVars, ctrlVars, link, down, up, faults>>

LinkLost ==
  /\ link
  /\ Fault
  /\ link' = FALSE
  /\ inbox' = Append(inbox, [kind |-> "FREED"])
  /\ LosesSome
  /\ UNCHANGED <<answers, timer, pm, job, tasks, taken, diskVars, ctrlVars>>

\* A timer has at most one tick waiting (OneTick of ModuleTimer).
Tick ==
  /\ timer
  /\ Len(inbox) + Len(tasks) + Len(taken) + Len(up) + Len(down) < MaxBacklog
  /\ \A i \in DOMAIN inbox : inbox[i].kind # "ONTIMER"
  /\ inbox' = Append(inbox, [kind |-> "ONTIMER"])
  /\ UNCHANGED <<timer, pm, job, tasks, taken, diskVars, ctrlVars, linkVars, up, faults>>

\* aodc sends an update on the connection of that moment.
Deliver ==
  /\ down # <<>>
  /\ down' = Tail(down)
  /\ inbox' = IF link THEN Append(inbox, Head(down)) ELSE inbox
  /\ UNCHANGED <<timer, pm, job, tasks, taken, diskVars, ctrlVars, link, answers, up, faults>>

Update(m, v) == [kind |-> "UPDATE", mod |-> m, ver |-> v]

DealUpdateCheck ==
  /\ up # <<>> /\ Head(up).kind = "UMI"
  /\ up' = Tail(up)
  /\ LET m == Head(up).mod
     IN  down' = IF target[m] \notin {0, Head(up).ver}
                 THEN Append(down, Update(m, target[m])) ELSE down
  /\ UNCHANGED <<threadVars, diskVars, ctrlVars, link, answers, faults>>

DealUpdateResult ==
  /\ up # <<>> /\ Head(up).kind = "RESULT"
  /\ up' = Tail(up)
  /\ log' = [log EXCEPT ![Head(up).mod][Head(up).ver] = Head(up).rlt]
  /\ UNCHANGED <<threadVars, diskVars, target, linkVars, faults>>

DealPublish(m) ==
  /\ target[m] < MaxVersion
  /\ target' = [target EXCEPT ![m] = @ + 1]
  /\ down' = Append(down, Update(m, target'[m]))
  /\ UNCHANGED <<threadVars, diskVars, log, link, answers, up, faults>>
-----------------------------------------------------------------------------
Handler ==
  \/ OnAuthSuc \/ OnChannelFreed \/ OnTimer \/ OnRecvUmi
  \/ OnDownloadFailed \/ OnPackageUseless \/ OnDownloadResult

Install ==
  \/ Unpack \/ UnpackFails \/ RunCommand \/ SaveCfg \/ SaveCfgWrite
  \/ ReportResult \/ RestartSelf

DownloadThread == TakeTasks \/ Download

Controller == DealUpdateCheck \/ DealUpdateResult

ManagerNext ==
  \/ Handler \/ Install \/ DownloadThread
  \/ Accepted \/ AnnounceAuthSuc \/ Tick \/ Deliver \/ Controller
  \/ LinkLost \/ Crash
  \/ \E m \in Mod : DealPublish(m)

ManagerSpec == ManagerInit /\ [][ManagerNext]_mVars

\* Threads go on, the machine connects again and is accepted, its timer ticks,
\* and the controller works through its topic.
ManagerFairness ==
  /\ WF_mVars(Handler \/ Install) /\ WF_mVars(DownloadThread)
  /\ WF_mVars(Accepted) /\ WF_mVars(AnnounceAuthSuc) /\ WF_mVars(Tick)
  /\ WF_mVars(Deliver) /\ WF_mVars(Controller)

FairManagerSpec == ManagerSpec /\ ManagerFairness
-----------------------------------------------------------------------------
\* However often a version is offered, downloaded twice or overtaken by the
\* next one, and whenever the process dies: the files of a module never go back
\* to an earlier publication (OnRecvUmi queues without looking what is under
\* way, UpdateModuleMgr.cpp:228-237).
NeverBack == [][\A m \in Mod : disk'[m] >= disk[m]]_mVars

\* A version the controller has logged as updated was unpacked to the end, with
\* no error noticed, and not only offered, downloaded or begun
\* (OnDownloadResult, UpdateModuleMgr.cpp:96-162).
SuccessIsReal ==
  \A m \in Mod, v \in Version : log[m][v] = "SUC" => v \in installed[m]

\* Once publications and failures end, the machine records and has installed
\* the last publication, unless its list was torn by a crash: repeated checks
\* make up for failed downloads, lost messages and restarts.
Converges ==
  \A m \in Mod :
    <>[](db = Torn \/ (db[m] = target[m] /\ disk[m] = target[m]))

\* The machine comes to rest: neither repeated checks nor restarts after an
\* update of aods itself keep it downloading, installing or restarting for ever
\* (it is why the list is saved before the restart, UpdateModuleMgr.cpp:140).
ComesToRest == <>[](job = Idle /\ tasks = <<>> /\ taken = <<>>)
=============================================================================
