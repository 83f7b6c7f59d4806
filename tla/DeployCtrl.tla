---------------------------- MODULE DeployCtrl ----------------------------
(***************************************************************************)
(* The controller of one segment (PrjDeployCtrl/DeployCtrl.py) beside the  *)
(* REST service: the machines and the target version it keeps in memory,   *)
(* what it reads from the databases when it starts, and the two topics it  *)
(* consumes.                                                               *)
(*                                                                         *)
(* The load at the start reads redis key by key, beside the service, and   *)
(* nothing is consumed before it ends.  An exception in it is swallowed,   *)
(* and the process goes on with what it has read.                          *)
(*                                                                         *)
(* The consumer belongs to a group whose offsets are committed on a timer, *)
(* so a controller that starts again is given again whatever it had        *)
(* handled since the last commit.                                          *)
(***************************************************************************)
EXTENDS DbEngine

CONSTANTS
  Index,        \* the segment, as the controller is started and as installed
  MaxRequest    \* bound: requests the machines send

ASSUME CtrlAssumption == Index \in Segments /\ MaxRequest \in Nat

VARIABLES
  phase,    \* of the process: not there, loading, or consuming
  srvs,     \* memory: what is known of a machine
  target,   \* memory: publish[pk], its version and its time
  srvKeys,  \* load: machines listed and not yet read; never, once it was broken off
  pubKeys,  \* load: publications listed and not yet read, likewise
  asks,     \* the topic deploy_u
  pos,      \* messages of each topic handled by this process
  com,      \* offsets committed
  down,     \* messages produced on deploy_d
  seen,     \* history: announcements ever handled
  from      \* history: announcements committed when this process started

loadVars == <<phase, srvKeys, pubKeys>>
ctrlVars == <<loadVars, srvs, target, asks, pos, com, down, seen, from>>
cVars == <<dbVars, ctrlVars>>

\* The deploy entry of the module: none, the pair last reported, or the list
\* json makes of a pair, which equals none.
NoEntry == "none"
ListEntry == "list"
Unknown == [state |-> "unknown"]
Allotted == [state |-> "allotted"]
Active(entry) == [state |-> "active", entry |-> entry]
Server == {Unknown, Allotted}
          \cup {Active(e) : e \in Version \cup {NoEntry, ListEntry}}

NoTarget == [dt |-> 0]

\* "blind": consuming, but the load ended before publish was assigned.
Phase == {"down", "servers", "publications", "up", "blind"}
running == phase \in {"up", "blind"}

Ask == [kind : {"active"}, uuid : 1 .. MaxRequest, index : Segments]
       \cup [kind : {"active_suc"}, rid : Rid]
       \cup [kind : {"auth"}, rid : Rid, good : BOOLEAN]
       \cup [kind : {"check_update"}, rid : Rid, ver : Version]

Answer == [kind : {"active_ack"}, uuid : 1 .. MaxRequest, rid : Rid]
          \cup [kind : {"auth_ack"}, rid : Rid, ack : {0, 1}]
          \cup [kind : {"update"}, rid : Rid, ver : Version]

CtrlTypeOK ==
  /\ DbTypeOK
  /\ phase \in Phase
  /\ srvs \in [Rid -> Server]
  /\ target \in [ver : Version, dt : Time] \cup {NoTarget}
  /\ srvKeys \subseteq Rid
  /\ pubKeys \subseteq DOMAIN dbPub
  /\ asks \in Seq(Ask) /\ Len(asks) <= MaxRequest
  /\ pos \in [asks : 0 .. Len(asks), topic : 0 .. Len(topic)]
  /\ com \in [asks : 0 .. pos.asks, topic : 0 .. pos.topic]
  /\ down \subseteq Answer
  /\ seen \in pos.topic .. Len(topic)
  /\ from \in 0 .. com.topic

\* A fresh system, its controller waiting for the first message.
CtrlInit ==
  /\ DbInit
  /\ phase = "up"
  /\ srvs = [r \in Rid |-> Unknown]
  /\ target = NoTarget
  /\ srvKeys = {} /\ pubKeys = {}
  /\ asks = <<>>
  /\ pos = [asks |-> 0, topic |-> 0]
  /\ com = [asks |-> 0, topic |-> 0]
  /\ down = {}
  /\ seen = 0 /\ from = 0
-----------------------------------------------------------------------------
(***************************************************************************)
(* The byte a segment is for each of those who name it.                    *)
(***************************************************************************)
\* DeployCtrl.__init__: the segment this controller answers for.
CtrlIndex == Index % 255

\* Mutant: segments counted from zero.
ActiveIndexFromZero(index) == index - 1

\* __dealActive: the byte of the request, as it is.
ActiveIndex(index) == index

\* __dealPublish
PublishIndex(index) == index % 255

-----------------------------------------------------------------------------
(***************************************************************************)
(* Handlers of OnConsume.  An answer that the producer gives up is lost.   *)
(***************************************************************************)
Produce(msgs) ==
  \/ down' = down \cup msgs /\ UNCHANGED faults
  \/ msgs # {} /\ Fault /\ UNCHANGED down

Silent == UNCHANGED <<down, faults>>

\* __generalRid: 40 random bits, taken never to repeat.
Fresh(r) ==
  /\ srvs[r] = Unknown /\ r \notin dbMgr
  /\ \A a \in down : a.rid # r

DealActive(ask) ==
  \/ /\ CtrlIndex # ActiveIndex(ask.index)
     /\ Silent /\ UNCHANGED <<srvs, dbMgr, owed>>
  \/ /\ CtrlIndex = ActiveIndex(ask.index)
     /\ \E r \in Rid :
          /\ Fresh(r)
          /\ srvs' = [srvs EXCEPT ![r] = Allotted]
          /\ Produce({[kind |-> "active_ack", uuid |-> ask.uuid, rid |-> r]})
     /\ UNCHANGED <<dbMgr, owed>>

\* Mutant: the confirmation is kept in memory only.
DealActiveSucMemory(ask) ==
  /\ srvs' = [srvs EXCEPT ![ask.rid] = IF @ = Unknown THEN @ ELSE Active(NoEntry)]
  /\ owed' = IF srvs[ask.rid] = Unknown THEN owed ELSE owed \cup {ask.rid}
  /\ Silent /\ UNCHANGED dbMgr

DealActiveSuc(ask) ==
  \/ /\ srvs[ask.rid] = Unknown
     /\ Silent /\ UNCHANGED <<srvs, dbMgr, owed>>
  \/ /\ srvs[ask.rid] # Unknown
     /\ srvs' = [srvs EXCEPT ![ask.rid] = Active(NoEntry)]
     /\ dbMgr' = dbMgr \cup {ask.rid}
     /\ owed' = owed \cup {ask.rid}
     /\ Silent

\* The verdict on a machine; an allotted one raises a KeyError and gets none.
Verdict(r, good) ==
  {ack \in {0, 1} : \/ srvs[r] = Unknown /\ ack = 1
                    \/ srvs[r].state = "active" /\ ack = IF good THEN 0 ELSE 1}

DealAuthen(ask) ==
  /\ Produce({[kind |-> "auth_ack", rid |-> ask.rid, ack |-> a] :
              a \in Verdict(ask.rid, ask.good)})
  /\ UNCHANGED <<srvs, dbMgr, owed>>

\* A new version of the machine is stored with its record; another than the
\* target is answered with the target, where there is one and publish exists.
DealUpdateCheck(ask) ==
  \/ /\ srvs[ask.rid].state # "active"
     /\ Silent /\ UNCHANGED <<srvs, dbMgr, owed>>
  \/ /\ srvs[ask.rid].state = "active"
     /\ srvs' = [srvs EXCEPT ![ask.rid] = Active(ask.ver)]
     /\ dbMgr' = IF srvs[ask.rid].entry = ask.ver THEN dbMgr ELSE dbMgr \cup {ask.rid}
     /\ Produce(IF target = NoTarget \/ target.ver = ask.ver THEN {}
                ELSE {[kind |-> "update", rid |-> ask.rid, ver |-> target.ver]})
     /\ UNCHANGED owed

\* The machines known are all told, those not yet confirmed included.  Without
\* publish it raises, and the announcement is lost.
DealPublish(p) ==
  \/ /\ \/ CtrlIndex \notin {PublishIndex(i) : i \in p.indexes}
        \/ phase = "blind" \/ target.dt > p.dt
     /\ Silent /\ UNCHANGED target
  \/ /\ CtrlIndex \in {PublishIndex(i) : i \in p.indexes}
     /\ phase = "up" /\ target.dt <= p.dt
     /\ target' = [ver |-> p.ver, dt |-> p.dt]
     /\ Produce({[kind |-> "update", rid |-> r, ver |-> p.ver] :
                 r \in {r \in Rid : srvs[r] # Unknown}})

\* OnConsume of a message of deploy_u, and of one of "publish".
OnAsk ==
  /\ running /\ pos.asks < Len(asks)
  /\ LET ask == asks[pos.asks + 1] IN
       \/ ask.kind = "active" /\ DealActive(ask)
       \/ ask.kind = "active_suc" /\ DealActiveSuc(ask)
       \/ ask.kind = "auth" /\ DealAuthen(ask)
       \/ ask.kind = "check_update" /\ DealUpdateCheck(ask)
  /\ pos' = [pos EXCEPT !.asks = @ + 1]
  /\ UNCHANGED <<dbPub, clock, jobs, begun, topic, loadVars, target, asks, com, seen, from>>

OnPublish ==
  /\ running /\ pos.topic < Len(topic)
  /\ DealPublish(topic[pos.topic + 1])
  /\ pos' = [pos EXCEPT !.topic = @ + 1]
  /\ seen' = IF seen = pos.topic THEN seen + 1 ELSE seen
  /\ UNCHANGED <<dbMgr, dbPub, clock, jobs, begun, topic, owed,
                 loadVars, srvs, asks, com, from>>
-----------------------------------------------------------------------------
(***************************************************************************)
(* The process and its consumer.                                           *)
(***************************************************************************)
\* Mutant: the offsets fetched are committed, not those handled.
CommitFetched ==
  /\ running /\ com # pos
  /\ com' = [asks |-> Len(asks), topic |-> Len(topic)]
  /\ UNCHANGED <<dbVars, loadVars, srvs, target, asks, pos, down, seen, from>>

Commit ==
  /\ running /\ com # pos
  /\ com' = pos
  /\ UNCHANGED <<dbVars, loadVars, srvs, target, asks, pos, down, seen, from>>

\* The process ends, while it consumes or while it loads.
Crash ==
  /\ phase # "down" /\ Fault
  /\ phase' = "down"
  /\ srvs' = [r \in Rid |-> Unknown]
  /\ target' = NoTarget
  /\ srvKeys' = {} /\ pubKeys' = {}
  /\ pos' = com /\ from' = com.topic
  /\ UNCHANGED <<dbMgr, dbPub, clock, jobs, begun, topic, owed, asks, com, down, seen>>
-----------------------------------------------------------------------------
(***************************************************************************)
(* InitDb: the load, a call of redis at a time.                            *)
(***************************************************************************)
consumed == <<asks, pos, com, down, seen, from>>

\* Keys of this segment in db 2.
Published == {k \in DOMAIN dbPub : k[1] = CtrlIndex /\ dbPub[k] # 0}

\* Machines are listed, once.
ListServers ==
  /\ phase = "down"
  /\ srvKeys' = dbMgr
  /\ \/ phase' = "servers" /\ UNCHANGED faults
     \/ phase' = "blind" /\ Fault
  /\ UNCHANGED <<dbMgr, dbPub, clock, jobs, begun, topic, owed,
                 srvs, target, pubKeys, consumed>>

\* One record is read; of one deleted since the list was made json.loads(None)
\* raises, and the load is over.
LoadServer == phase = "servers" /\ \E r \in srvKeys :
  /\ \/ /\ r \in dbMgr
        /\ srvs' = [srvs EXCEPT ![r] = Active(ListEntry)]
        /\ srvKeys' = srvKeys \ {r}
        /\ UNCHANGED phase
     \/ /\ r \notin dbMgr
        /\ phase' = "blind"
        /\ UNCHANGED <<srvs, srvKeys>>
  /\ UNCHANGED <<dbVars, target, pubKeys, consumed>>

\* publish is empty, and the keys of the segment are listed, once.
ListPublications ==
  /\ phase = "servers" /\ srvKeys = {}
  /\ pubKeys' = Published
  /\ \/ phase' = "publications" /\ UNCHANGED faults
     \/ phase' = "up" /\ Fault
  /\ UNCHANGED <<dbMgr, dbPub, clock, jobs, begun, topic, owed,
                 srvs, target, srvKeys, consumed>>

\* Mutant: the oldest publication is kept.
LoadPublicationOldest == phase = "publications" /\ \E k \in pubKeys :
  /\ target' = IF target = NoTarget \/ dbPub[k] < target.dt
               THEN [ver |-> k[2], dt |-> dbPub[k]] ELSE target
  /\ pubKeys' = pubKeys \ {k}
  /\ UNCHANGED <<dbVars, phase, srvs, srvKeys, consumed>>

\* One publication is read, with the time it has by now; a newer one replaces
\* the target, one of the same second does not.
LoadPublication == phase = "publications" /\ \E k \in pubKeys :
  /\ target' = IF target.dt < dbPub[k] THEN [ver |-> k[2], dt |-> dbPub[k]] ELSE target
  /\ pubKeys' = pubKeys \ {k}
  /\ UNCHANGED <<dbVars, phase, srvs, srvKeys, consumed>>

\* Redis fails at a read.
LoadFails ==
  /\ Fault
  /\ \/ phase = "servers" /\ srvKeys # {} /\ phase' = "blind"
     \/ phase = "publications" /\ pubKeys # {} /\ phase' = "up"
  /\ UNCHANGED <<dbMgr, dbPub, clock, jobs, begun, topic, owed,
                 srvs, target, srvKeys, pubKeys, consumed>>

Loaded ==
  /\ phase = "publications" /\ pubKeys = {}
  /\ phase' = "up"
  /\ UNCHANGED <<dbVars, srvs, target, srvKeys, pubKeys, consumed>>

InitDb ==
  \/ ListServers \/ LoadServer
  \/ ListPublications \/ LoadPublication \/ Loaded
  \/ LoadFails

(***************************************************************************)
(* The machines, behind aodc: an id is confirmed by the machine it was     *)
(* given to; later it authenticates and reports its version.               *)
(***************************************************************************)
Given == {a.rid : a \in {a \in down : a.kind = "active_ack"}}

Send(ask) ==
  /\ Len(asks) < MaxRequest
  /\ asks' = Append(asks, ask)
  /\ UNCHANGED <<dbVars, loadVars, srvs, target, pos, com, down, seen, from>>

Machines ==
  \/ \E i \in Segments : Send([kind |-> "active", uuid |-> Len(asks) + 1, index |-> i])
  \/ \E r \in Given :
       \/ Send([kind |-> "active_suc", rid |-> r])
       \/ \E good \in BOOLEAN : Send([kind |-> "auth", rid |-> r, good |-> good])
       \/ \E ver \in Version : Send([kind |-> "check_update", rid |-> r, ver |-> ver])

Serve == DbNext /\ UNCHANGED ctrlVars

CtrlNext == Serve \/ Machines \/ OnAsk \/ OnPublish \/ Commit \/ Crash \/ InitDb

CtrlSpec == CtrlInit /\ [][CtrlNext]_cVars
-----------------------------------------------------------------------------
(***************************************************************************)
(* Properties.                                                             *)
(***************************************************************************)
Ours(i) == CtrlIndex \in {PublishIndex(j) : j \in topic[i].indexes}

\* This process knows of publication i: it handled the announcement, or its
\* load read the key.
Told(i) ==
  /\ Ours(i)
  /\ <<CtrlIndex, topic[i].ver>> \notin pubKeys \/ i \in from + 1 .. pos.topic

\* A controller that consumes never aims at a version older than one whose
\* announcement was handled, though announcements come in any order, are
\* handled again after a restart, and its memory is what the keys give back
\* (__dealPublish's "not the newest, ignore it", InitDb's dt2 < dt).  Excepted
\* is what a load that was broken off did not read, until it is announced
\* again; a blind controller aims at nothing.
TargetNeverOlder ==
  phase = "up" => \A i \in 1 .. seen : Told(i) => topic[i].dt <= target.dt

\* A machine whose confirmation was stored, and which nobody deleted since,
\* is accepted with its code, over restarts of the controller and while the
\* REST service edits and deletes records, a load in progress included; except
\* the machines a load that was broken off had not read yet (__dealAuthen,
\* __dealActiveSuc, InitDb, updateServer).
ConfirmedAccepted ==
  running => \A r \in owed \ srvKeys : Verdict(r, TRUE) = {0}

\* Without failures every activation request of this segment that was handled
\* was given an id.  "valid installation segments [1,255]" (install/main.cpp)
\* and "the segment maintained, the same as that of the aods clients" (README)
\* promise it of each segment the tools accept.
ActivationServed ==
  faults = 0 => \A i \in 1 .. pos.asks :
    asks[i].kind = "active" /\ asks[i].index = Index =>
      \E a \in down : a.kind = "active_ack" /\ a.uuid = asks[i].uuid
=============================================================================
