---------------------------- MODULE CtrlProofs ----------------------------
(***************************************************************************)
(* Proofs about the controller and the REST service, for any number of     *)
(* machines, threads, segments, versions, publications and failures.       *)
(*                                                                         *)
(* That a restarted controller does not aim at an older version rests on   *)
(* the database: a key never gets an older time, and every announcement    *)
(* was written before it was made.  The first holds because only one       *)
(* thread publishes a version at a time and takes the time when it begins. *)
(* It is why a load that reads key by key, while others are written, needs *)
(* no snapshot: what it has read can only be too new.                      *)
(***************************************************************************)
EXTENDS DeployCtrl, TLAPS

Publishing(t) == jobs[t].op = "publish"

\* A publication is the only one of its version, and no key of that version
\* is younger.
JobsInOrder ==
  \A t \in Thread : Publishing(t) =>
    /\ jobs[t].dt <= clock
    /\ \A g \in Segments : dbPub[<<g, jobs[t].ver>>] <= jobs[t].dt
    /\ \A g \in jobs[t].indexes : jobs[t].dt <= dbPub[<<g, jobs[t].ver>>]
    /\ \A u \in Thread : Publishing(u) /\ jobs[u].ver = jobs[t].ver => u = t

KeysPast == \A g \in Segments, v \in Version : dbPub[<<g, v>>] <= clock

AnnouncedWritten ==
  \A i \in 1 .. Len(topic) : \A g \in topic[i].indexes :
    topic[i].dt <= dbPub[<<g, topic[i].ver>>]

\* Whoever was confirmed and not deleted since has its record, and is known to
\* the controller or still to be read.
OwedKnown ==
  /\ owed \subseteq dbMgr
  /\ phase # "down" => \A r \in owed \ srvKeys : srvs[r].state = "active"

\* The target is as new as what was told, during the load too; and a process
\* that has not consumed yet stands where it started.
TargetKnown ==
  /\ phase \in {"publications", "up"} =>
       \A i \in 1 .. seen : Told(i) => topic[i].dt <= target.dt
  /\ phase \in {"down", "servers", "publications"} => pos.topic = from

OrderInv == JobsInOrder /\ KeysPast /\ AnnouncedWritten
-----------------------------------------------------------------------------
(***************************************************************************)
(* Types.                                                                  *)
(***************************************************************************)
\* What a request of a thread holds.
LEMMA JobFields ==
  ASSUME DbTypeOK, NEW t \in Thread
  PROVE  /\ Publishing(t) =>
              /\ jobs[t] \in [op : {"publish"}, ver : Version, dt : Time,
                              gids : SUBSET Segments, indexes : SUBSET Segments]
              /\ jobs[t].ver \in Version /\ jobs[t].dt \in Time
              /\ jobs[t].gids \subseteq Segments /\ jobs[t].indexes \subseteq Segments
         /\ jobs[t].op = "update" => jobs[t].rid \in Rid
<1>1. jobs[t] \in Job \cup {Idle}
  BY DEF DbTypeOK
<1>2. QED
  BY <1>1 DEF Job, Idle, Publishing

LEMMA TypedDb ==
  ASSUME DbTypeOK, DbNext
  PROVE  DbTypeOK'
<1> USE DbAssumption
<1>1. ASSUME NEW t \in Thread, Publish(t)
      PROVE  DbTypeOK'
  <2>1. PICK ver \in Version, gids \in SUBSET Segments \ {{}} :
          /\ begun < MaxPublish
          /\ jobs' = [jobs EXCEPT ![t] =
               [op |-> "publish", ver |-> ver, dt |-> clock, gids |-> gids, indexes |-> {}]]
          /\ begun' = begun + 1
          /\ UNCHANGED <<dbMgr, dbPub, clock, topic, faults, owed>>
    BY <1>1 DEF Publish
  <2>2. [op |-> "publish", ver |-> ver, dt |-> clock, gids |-> gids, indexes |-> {}] \in Job
    BY DEF Job, DbTypeOK
  <2>3. jobs' \in [Thread -> Job \cup {Idle}]
    BY <2>1, <2>2 DEF DbTypeOK
  <2>4. QED
    BY <2>1, <2>3 DEF DbTypeOK
<1>2. ASSUME NEW t \in Thread, SetPublication(t)
      PROVE  DbTypeOK'
  <2>1. PICK gid \in jobs[t].gids :
          /\ dbPub' = [dbPub EXCEPT ![<<gid, jobs[t].ver>>] = jobs[t].dt]
          /\ jobs' = [jobs EXCEPT ![t] =
               [jobs[t] EXCEPT !.gids = @ \ {gid}, !.indexes = @ \cup {gid}]]
    BY <1>2 DEF SetPublication, KeyIndex, DbTypeOK
  <2>2. Publishing(t)
    BY <1>2 DEF SetPublication, Publishing
  <2>3. [jobs[t] EXCEPT !.gids = @ \ {gid}, !.indexes = @ \cup {gid}] \in Job
    BY <2>2, JobFields DEF Job
  <2>4. jobs' \in [Thread -> Job \cup {Idle}]
    BY <2>1, <2>3 DEF DbTypeOK
  <2>5. dbPub' \in [Segments \X Version -> Time \cup {0}]
    BY <2>1, <2>2, JobFields DEF DbTypeOK
  <2>6. UNCHANGED <<dbMgr, clock, begun, topic, faults, owed>>
    BY <1>2 DEF SetPublication
  <2>7. QED
    BY <2>4, <2>5, <2>6 DEF DbTypeOK
<1>3. ASSUME NEW t \in Thread, Announce(t)
      PROVE  DbTypeOK'
  <2>1. Publishing(t)
    BY <1>3 DEF Announce, Publishing
  <2>2. [indexes |-> jobs[t].indexes, ver |-> jobs[t].ver, dt |-> jobs[t].dt] \in Publication
    BY <2>1, JobFields DEF Publication
  <2>3. topic' \in Seq(Publication)
    BY <1>3, <2>2 DEF Announce, DbTypeOK
  <2>4. QED
    BY <1>3, <2>3 DEF Announce, Finish, DbTypeOK
<1>4. ASSUME NEW t \in Thread, PublishFails(t) \/ GetServer(t) \/ SetServer(t)
      PROVE  DbTypeOK'
  <2>1. CASE PublishFails(t)
    BY <2>1 DEF PublishFails, Finish, Fault, DbTypeOK
  <2>2. CASE GetServer(t)
    <3>1. PICK r \in dbMgr : jobs' = [jobs EXCEPT ![t] = [op |-> "update", rid |-> r]]
      BY <2>2 DEF GetServer
    <3>2. [op |-> "update", rid |-> r] \in Job
      BY DEF Job, DbTypeOK
    <3>3. QED
      BY <2>2, <3>1, <3>2 DEF GetServer, DbTypeOK
  <2>3. CASE SetServer(t)
    BY <2>3, JobFields DEF SetServer, Finish, DbTypeOK
  <2>4. QED
    BY <1>4, <2>1, <2>2, <2>3
<1>5. ASSUME NEW r \in Rid, DeleteServers(r)
      PROVE  DbTypeOK'
  BY <1>5 DEF DeleteServers, DbTypeOK
<1>6. CASE Tick
  BY <1>6 DEF Tick, DbTypeOK, Time
<1>7. QED
  BY <1>1, <1>2, <1>3, <1>4, <1>5, <1>6 DEF DbNext

\* What the messages of the topics hold.
LEMMA AskFields ==
  ASSUME CtrlTypeOK, NEW ask \in Ask
  PROVE  /\ ask.kind = "active" => ask.uuid \in 1 .. MaxRequest
         /\ ask.kind \in {"active_suc", "auth", "check_update"} => ask.rid \in Rid
         /\ ask.kind = "check_update" => ask.ver \in Version
BY DEF Ask

LEMMA Servers ==
  /\ Unknown \in Server /\ Allotted \in Server
  /\ Active(NoEntry) \in Server /\ Active(ListEntry) \in Server
  /\ \A v \in Version : Active(v) \in Server
  /\ \A s \in Server : s \in {Unknown, Allotted} \/ s.state = "active"
  /\ Unknown.state = "unknown" /\ Allotted.state = "allotted"
  /\ \A e : Active(e).state = "active"
<1>1. /\ Unknown.state = "unknown" /\ Allotted.state = "allotted"
      /\ \A e : Active(e).state = "active"
  BY DEF Unknown, Allotted, Active
<1>2. QED
  BY <1>1 DEF Server

\* Sending messages leaves down a set of messages.
LEMMA TypedProduce ==
  ASSUME CtrlTypeOK, NEW msgs \in SUBSET Answer, Produce(msgs) \/ Silent
  PROVE  down' \subseteq Answer /\ faults' \in 0 .. MaxFault
BY DbAssumption DEF Produce, Silent, Fault, CtrlTypeOK, DbTypeOK

LEMMA TypedActive ==
  ASSUME CtrlTypeOK, NEW ask \in Ask, ask.kind = "active", DealActive(ask)
  PROVE  /\ down' \subseteq Answer /\ faults' \in 0 .. MaxFault
         /\ srvs' \in [Rid -> Server] /\ dbMgr' = dbMgr /\ owed' = owed
<1>1. CASE Silent /\ UNCHANGED <<srvs, dbMgr, owed>>
  BY <1>1 DEF Silent, CtrlTypeOK, DbTypeOK
<1>2. ASSUME NEW r \in Rid, srvs' = [srvs EXCEPT ![r] = Allotted],
             Produce({[kind |-> "active_ack", uuid |-> ask.uuid, rid |-> r]}),
             UNCHANGED <<dbMgr, owed>>
      PROVE  /\ down' \subseteq Answer /\ faults' \in 0 .. MaxFault
             /\ srvs' \in [Rid -> Server] /\ dbMgr' = dbMgr /\ owed' = owed
  <2>1. {[kind |-> "active_ack", uuid |-> ask.uuid, rid |-> r]} \subseteq Answer
    BY AskFields DEF Answer
  <2>2. srvs' \in [Rid -> Server]
    BY <1>2, Servers DEF CtrlTypeOK
  <2>3. QED
    BY <1>2, <2>1, <2>2, TypedProduce
<1>3. QED
  BY <1>1, <1>2 DEF DealActive

LEMMA TypedActiveSuc ==
  ASSUME CtrlTypeOK, NEW ask \in Ask, ask.kind = "active_suc", DealActiveSuc(ask)
  PROVE  /\ down' \subseteq Answer /\ faults' \in 0 .. MaxFault
         /\ srvs' \in [Rid -> Server] /\ dbMgr' \subseteq Rid /\ owed' \subseteq Rid
<1>1. ask.rid \in Rid
  BY AskFields
<1>2. down' \subseteq Answer /\ faults' \in 0 .. MaxFault
  BY DEF DealActiveSuc, Silent, CtrlTypeOK, DbTypeOK
<1>3. srvs' \in [Rid -> Server]
  BY Servers DEF DealActiveSuc, CtrlTypeOK
<1>4. QED
  BY <1>1, <1>2, <1>3 DEF DealActiveSuc, CtrlTypeOK, DbTypeOK

LEMMA TypedAuthen ==
  ASSUME CtrlTypeOK, NEW ask \in Ask, ask.kind = "auth", DealAuthen(ask)
  PROVE  /\ down' \subseteq Answer /\ faults' \in 0 .. MaxFault
         /\ srvs' = srvs /\ dbMgr' = dbMgr /\ owed' = owed
<1>1. ask.rid \in Rid
  BY AskFields
<1>2. Verdict(ask.rid, ask.good) \subseteq {0, 1}
  BY DEF Verdict
<1>3. \A a \in Verdict(ask.rid, ask.good) :
        [kind |-> "auth_ack", rid |-> ask.rid, ack |-> a] \in Answer
  BY <1>1, <1>2 DEF Answer
<1> DEFINE msgs == {[kind |-> "auth_ack", rid |-> ask.rid, ack |-> a] :
                    a \in Verdict(ask.rid, ask.good)}
<1>4. msgs \in SUBSET Answer
  BY <1>3
<1>5. Produce(msgs)
  BY DEF DealAuthen
<1>6. down' \subseteq Answer /\ faults' \in 0 .. MaxFault
  <2> HIDE DEF msgs
  <2>1. QED
    BY <1>4, <1>5, TypedProduce
<1>7. QED
  BY <1>6 DEF DealAuthen

LEMMA TypedUpdateCheck ==
  ASSUME CtrlTypeOK, NEW ask \in Ask, ask.kind = "check_update", DealUpdateCheck(ask)
  PROVE  /\ down' \subseteq Answer /\ faults' \in 0 .. MaxFault
         /\ srvs' \in [Rid -> Server] /\ dbMgr' \subseteq Rid /\ owed' = owed
<1>1. ask.rid \in Rid /\ ask.ver \in Version
  BY AskFields
<1>2. srvs' \in [Rid -> Server]
  BY <1>1, Servers DEF DealUpdateCheck, CtrlTypeOK
<1>3. dbMgr' \subseteq Rid /\ owed' = owed
  BY <1>1 DEF DealUpdateCheck, CtrlTypeOK, DbTypeOK
<1> DEFINE msgs == IF target = NoTarget \/ target.ver = ask.ver THEN {}
                   ELSE {[kind |-> "update", rid |-> ask.rid, ver |-> target.ver]}
<1>4. msgs \in SUBSET Answer
  <2>1. target = NoTarget \/ target.ver \in Version
    BY DEF CtrlTypeOK
  <2>2. QED
    BY <1>1, <2>1 DEF Answer
<1>5. Produce(msgs) \/ Silent
  BY DEF DealUpdateCheck
<1>6. down' \subseteq Answer /\ faults' \in 0 .. MaxFault
  <2> HIDE DEF msgs
  <2>1. QED
    BY <1>4, <1>5, TypedProduce
<1>7. QED
  BY <1>2, <1>3, <1>6

LEMMA TypedAsk ==
  ASSUME CtrlTypeOK, OnAsk
  PROVE  CtrlTypeOK'
<1> DEFINE ask == asks[pos.asks + 1]
<1>1. ask \in Ask /\ pos.asks \in Nat /\ pos.asks + 1 \in 1 .. Len(asks)
  BY DEF OnAsk, CtrlTypeOK
<1>2. /\ down' \subseteq Answer /\ faults' \in 0 .. MaxFault
      /\ srvs' \in [Rid -> Server] /\ dbMgr' \subseteq Rid /\ owed' \subseteq Rid
  <2>1. \/ ask.kind = "active" /\ DealActive(ask)
        \/ ask.kind = "active_suc" /\ DealActiveSuc(ask)
        \/ ask.kind = "auth" /\ DealAuthen(ask)
        \/ ask.kind = "check_update" /\ DealUpdateCheck(ask)
    BY DEF OnAsk
  <2>2. srvs \in [Rid -> Server] /\ dbMgr \subseteq Rid /\ owed \subseteq Rid
    BY DEF CtrlTypeOK, DbTypeOK
  <2> HIDE DEF ask
  <2>3. QED
    BY <1>1, <2>1, <2>2, TypedActive, TypedActiveSuc, TypedAuthen, TypedUpdateCheck
<1>3. pos' \in [asks : 0 .. Len(asks), topic : 0 .. Len(topic)]
  BY <1>1 DEF OnAsk, CtrlTypeOK
<1>4. com' \in [asks : 0 .. pos'.asks, topic : 0 .. pos'.topic]
  BY <1>1 DEF OnAsk, CtrlTypeOK
<1>5. seen' \in pos'.topic .. Len(topic')
  BY DEF OnAsk, CtrlTypeOK
<1>6. DbTypeOK'
  BY <1>2 DEF OnAsk, CtrlTypeOK, DbTypeOK
<1>7. QED
  BY <1>2, <1>3, <1>4, <1>5, <1>6 DEF OnAsk, CtrlTypeOK, loadVars

\* An announcement of the topic.
LEMMA PublicationFields ==
  ASSUME DbTypeOK, NEW i \in 1 .. Len(topic)
  PROVE  /\ topic[i] \in Publication /\ topic[i].indexes \subseteq Segments
         /\ topic[i].ver \in Version /\ topic[i].dt \in Time
<1>1. topic[i] \in Publication
  BY DEF DbTypeOK
<1>2. QED
  BY <1>1 DEF Publication

LEMMA TypedPublish ==
  ASSUME CtrlTypeOK, OnPublish
  PROVE  CtrlTypeOK'
<1> DEFINE i == pos.topic + 1
<1>1. i \in 1 .. Len(topic) /\ pos.topic \in Nat /\ Len(topic) \in Nat
  BY DEF OnPublish, CtrlTypeOK, DbTypeOK
<1> DEFINE p == topic[i]
<1>2. p.ver \in Version /\ p.dt \in Time
  BY <1>1, PublicationFields DEF CtrlTypeOK
<1>3. DealPublish(p)
  BY DEF OnPublish
<1> DEFINE msgs == {[kind |-> "update", rid |-> r, ver |-> p.ver] :
                    r \in {r \in Rid : srvs[r] # Unknown}}
<1>4. msgs \in SUBSET Answer
  BY <1>2 DEF Answer
<1>5. target' \in [ver : Version, dt : Time] \cup {NoTarget}
  <2> HIDE DEF p
  <2>1. QED
    BY <1>2, <1>3 DEF DealPublish, CtrlTypeOK
<1>6. Produce(msgs) \/ Silent
  BY <1>3 DEF DealPublish
<1>7. down' \subseteq Answer /\ faults' \in 0 .. MaxFault
  <2> HIDE DEF msgs
  <2>1. QED
    BY <1>4, <1>6, TypedProduce
<1>8. pos' \in [asks : 0 .. Len(asks), topic : 0 .. Len(topic)]
  BY <1>1 DEF OnPublish, CtrlTypeOK
<1>9. com' \in [asks : 0 .. pos'.asks, topic : 0 .. pos'.topic]
  BY <1>1 DEF OnPublish, CtrlTypeOK
<1>10. seen' \in pos'.topic .. Len(topic')
  BY <1>1 DEF OnPublish, CtrlTypeOK
<1>11. DbTypeOK'
  BY <1>7 DEF OnPublish, CtrlTypeOK, DbTypeOK
<1>12. QED
  BY <1>5, <1>7, <1>8, <1>9, <1>10, <1>11 DEF OnPublish, CtrlTypeOK, loadVars

LEMMA TypedProcess ==
  ASSUME CtrlTypeOK, Commit \/ Crash
  PROVE  CtrlTypeOK'
<1>1. CASE Commit
  <2>1. from' \in 0 .. com'.topic
    BY <1>1 DEF Commit, CtrlTypeOK, DbTypeOK
  <2>2. QED
    BY <1>1, <2>1 DEF Commit, CtrlTypeOK, dbVars, loadVars, DbTypeOK
<1>2. CASE Crash
  <2>1. com \in [asks : 0 .. Len(asks), topic : 0 .. Len(topic)]
        /\ com.topic \in 0 .. seen
    BY DEF CtrlTypeOK, DbTypeOK
  <2>2. DbTypeOK'
    BY <1>2, DbAssumption DEF Crash, Fault, CtrlTypeOK, DbTypeOK
  <2>3. srvs' \in [Rid -> Server]
    BY <1>2, Servers DEF Crash
  <2>4. seen' \in pos'.topic .. Len(topic')
    BY <1>2, <2>1 DEF Crash, CtrlTypeOK
  <2>5. com \in [asks : 0 .. com.asks, topic : 0 .. com.topic]
    BY DEF CtrlTypeOK, DbTypeOK
  <2>6. pos' = com /\ com' = com
    BY <1>2 DEF Crash
  <2>7. com' \in [asks : 0 .. pos'.asks, topic : 0 .. pos'.topic]
    BY <2>5, <2>6
  <2>8. pos' \in [asks : 0 .. Len(asks'), topic : 0 .. Len(topic')]
    BY <1>2, <2>1, <2>6 DEF Crash
  <2>9. from' \in 0 .. com'.topic
    BY <1>2, <2>1, <2>6 DEF Crash
  <2>10. QED
    BY <1>2, <2>2, <2>3, <2>4, <2>7, <2>8, <2>9 DEF Crash, Phase, CtrlTypeOK
<1>3. QED
  BY <1>1, <1>2

\* The steps of the load write neither to the databases nor to the topics.
LEMMA LoadOnlyReads ==
  ASSUME CtrlTypeOK, InitDb
  PROVE  /\ UNCHANGED <<dbMgr, dbPub, clock, jobs, begun, topic, owed, consumed>>
         /\ faults' \in {faults, faults + 1} /\ faults' \in 0 .. MaxFault
BY DbAssumption DEF InitDb, ListServers, LoadServer, ListPublications, LoadPublication,
   Loaded, LoadFails, Fault, consumed, dbVars, CtrlTypeOK, DbTypeOK

LEMMA TypedLoad ==
  ASSUME CtrlTypeOK, InitDb
  PROVE  CtrlTypeOK'
<1>1. /\ UNCHANGED <<dbMgr, dbPub, clock, jobs, begun, topic, owed, consumed>>
      /\ faults' \in 0 .. MaxFault
  BY LoadOnlyReads
<1>2. DbTypeOK'
  BY <1>1 DEF CtrlTypeOK, DbTypeOK
<1>3. \A k \in DOMAIN dbPub : k[2] \in Version /\ dbPub[k] \in Time \cup {0}
  BY DEF CtrlTypeOK, DbTypeOK
<1>4. target' \in [ver : Version, dt : Time] \cup {NoTarget}
  <2>1. CASE LoadPublication
    <3>1. PICK k \in pubKeys :
            target' = IF target.dt < dbPub[k] THEN [ver |-> k[2], dt |-> dbPub[k]] ELSE target
      BY <2>1 DEF LoadPublication
    <3>2. k[2] \in Version /\ dbPub[k] \in Time \cup {0}
      BY <1>3 DEF CtrlTypeOK
    <3>3. target.dt \in Nat
      BY DEF CtrlTypeOK, NoTarget, Time
    <3>4. target.dt < dbPub[k] => dbPub[k] \in Time
      BY <3>2, <3>3
    <3>5. QED
      BY <3>1, <3>2, <3>4 DEF CtrlTypeOK
  <2>2. CASE ~LoadPublication
    BY <2>2 DEF InitDb, ListServers, LoadServer, ListPublications, Loaded, LoadFails, CtrlTypeOK
  <2>3. QED
    BY <2>1, <2>2
<1>5. srvs' \in [Rid -> Server]
  BY Servers DEF InitDb, ListServers, LoadServer, ListPublications, LoadPublication, Loaded,
                 LoadFails, CtrlTypeOK
<1>6. phase' \in Phase /\ srvKeys' \subseteq Rid /\ pubKeys' \subseteq DOMAIN dbPub
  BY DEF InitDb, ListServers, LoadServer, ListPublications, LoadPublication, Loaded,
         LoadFails, Published, Phase, CtrlTypeOK, DbTypeOK
<1>7. QED
  BY <1>1, <1>2, <1>4, <1>5, <1>6 DEF consumed, CtrlTypeOK

LEMMA TypedSend ==
  ASSUME CtrlTypeOK, Machines
  PROVE  CtrlTypeOK'
<1>1. Given \subseteq Rid
  BY DEF Given, CtrlTypeOK, Answer
<1>2. ASSUME NEW ask \in Ask, Send(ask)
      PROVE  CtrlTypeOK'
  <2>1. asks' \in Seq(Ask) /\ Len(asks') = Len(asks) + 1
    BY <1>2 DEF Send, CtrlTypeOK
  <2>2. Len(asks') <= MaxRequest
    BY <1>2, <2>1, CtrlAssumption DEF Send, CtrlTypeOK
  <2>3. pos \in [asks : 0 .. Len(asks'), topic : 0 .. Len(topic)]
    BY <2>1 DEF CtrlTypeOK
  <2>4. QED
    BY <1>2, <2>1, <2>2, <2>3 DEF Send, CtrlTypeOK, dbVars, loadVars, DbTypeOK
<1>3. ASSUME NEW i \in Segments, Send([kind |-> "active", uuid |-> Len(asks) + 1, index |-> i])
      PROVE  CtrlTypeOK'
  <2>1. Len(asks) + 1 \in 1 .. MaxRequest
    BY <1>3, CtrlAssumption DEF Send, CtrlTypeOK
  <2>2. [kind |-> "active", uuid |-> Len(asks) + 1, index |-> i] \in Ask
    BY <2>1 DEF Ask
  <2>3. QED
    BY <1>2, <1>3, <2>2
<1>4. ASSUME NEW r \in Given, Send([kind |-> "active_suc", rid |-> r])
      PROVE  CtrlTypeOK'
  <2>1. [kind |-> "active_suc", rid |-> r] \in Ask
    BY <1>1 DEF Ask
  <2>2. QED
    BY <1>2, <1>4, <2>1
<1>5. ASSUME NEW r \in Given, NEW good \in BOOLEAN,
             Send([kind |-> "auth", rid |-> r, good |-> good])
      PROVE  CtrlTypeOK'
  <2>1. [kind |-> "auth", rid |-> r, good |-> good] \in Ask
    BY <1>1 DEF Ask
  <2>2. QED
    BY <1>2, <1>5, <2>1
<1>6. ASSUME NEW r \in Given, NEW ver \in Version,
             Send([kind |-> "check_update", rid |-> r, ver |-> ver])
      PROVE  CtrlTypeOK'
  <2>1. [kind |-> "check_update", rid |-> r, ver |-> ver] \in Ask
    BY <1>1 DEF Ask
  <2>2. QED
    BY <1>2, <1>6, <2>1
<1>7. QED
  BY <1>3, <1>4, <1>5, <1>6 DEF Machines

LEMMA TypedInit == CtrlInit => CtrlTypeOK
<1> SUFFICES ASSUME CtrlInit PROVE CtrlTypeOK
  OBVIOUS
<1>1. DbTypeOK
  BY DbAssumption DEF CtrlInit, DbInit, DbTypeOK, Time
<1>2. srvs \in [Rid -> Server]
  BY Servers DEF CtrlInit
<1>3. QED
  BY <1>1, <1>2, CtrlAssumption DEF CtrlInit, CtrlTypeOK, Phase

LEMMA TypedStep ==
  ASSUME CtrlTypeOK, [CtrlNext]_cVars
  PROVE  CtrlTypeOK'
<1>1. CASE Serve
  <2>1. DbTypeOK'
    BY <1>1, TypedDb DEF Serve, CtrlTypeOK
  <2>2. Len(topic) \in Nat /\ Len(topic') \in Nat /\ Len(topic') >= Len(topic)
    <3>1. \/ topic' = topic
          \/ \E t \in Thread : Announce(t)
      BY <1>1 DEF Serve, DbNext, Publish, SetPublication, PublishFails, GetServer,
                  SetServer, DeleteServers, Tick
    <3>2. CASE \E t \in Thread : Announce(t)
      <4>1. PICK p : topic' = Append(topic, p)
        BY <3>2 DEF Announce
      <4>2. QED
        BY <2>1, <4>1 DEF CtrlTypeOK, DbTypeOK
    <3>3. QED
      BY <3>1, <3>2 DEF CtrlTypeOK, DbTypeOK
  <2>3. pos \in [asks : 0 .. Len(asks), topic : 0 .. Len(topic')]
        /\ seen \in pos.topic .. Len(topic')
    BY <2>2 DEF CtrlTypeOK
  <2>4. pubKeys \subseteq DOMAIN dbPub'
    BY <2>1 DEF CtrlTypeOK, DbTypeOK
  <2>5. QED
    BY <1>1, <2>1, <2>3, <2>4 DEF Serve, ctrlVars, loadVars, CtrlTypeOK
<1>2. CASE UNCHANGED cVars
  BY <1>2 DEF cVars, dbVars, ctrlVars, loadVars, CtrlTypeOK, DbTypeOK
<1>3. QED
  BY <1>1, <1>2, TypedAsk, TypedPublish, TypedProcess, TypedLoad, TypedSend DEF CtrlNext
-----------------------------------------------------------------------------
(***************************************************************************)
(* The machines that were confirmed.                                       *)
(***************************************************************************)
LEMMA OwedStep ==
  ASSUME CtrlTypeOK, OwedKnown, [CtrlNext]_cVars
  PROVE  OwedKnown'
<1> USE Servers
<1>1. CASE Serve
  <2>1. UNCHANGED <<phase, srvKeys, srvs>>
    BY <1>1 DEF Serve, ctrlVars, loadVars
  <2>2. /\ owed' \subseteq owed
        /\ owed' \subseteq dbMgr'
    BY <1>1 DEF Serve, DbNext, Publish, SetPublication, Announce, PublishFails, GetServer,
                SetServer, DeleteServers, Tick, OwedKnown
  <2>3. QED
    BY <2>1, <2>2 DEF OwedKnown
<1>2. CASE Machines \/ OnPublish \/ Commit \/ UNCHANGED cVars
  <2>1. UNCHANGED <<dbMgr, owed, phase, srvKeys, srvs>>
    BY <1>2 DEF Machines, Send, OnPublish, Commit, cVars, ctrlVars, loadVars, dbVars
  <2>2. QED
    BY <2>1 DEF OwedKnown
<1>3. CASE OnAsk
  <2> DEFINE ask == asks[pos.asks + 1]
  <2>1. ask \in Ask /\ phase # "down" /\ UNCHANGED <<phase, srvKeys>>
    BY <1>3 DEF OnAsk, running, loadVars, CtrlTypeOK
  <2>2. \/ ask.kind = "active" /\ DealActive(ask)
        \/ ask.kind = "active_suc" /\ DealActiveSuc(ask)
        \/ ask.kind = "auth" /\ DealAuthen(ask)
        \/ ask.kind = "check_update" /\ DealUpdateCheck(ask)
    BY <1>3 DEF OnAsk
  <2>3. srvs \in [Rid -> Server] /\ owed \subseteq Rid
    BY DEF CtrlTypeOK, DbTypeOK
  <2> HIDE DEF ask
  <2>4. CASE ask.kind = "active" /\ DealActive(ask)
    <3>1. CASE UNCHANGED <<srvs, dbMgr, owed>>
      BY <2>1, <3>1 DEF OwedKnown
    <3>2. ASSUME NEW r \in Rid, Fresh(r), srvs' = [srvs EXCEPT ![r] = Allotted],
                 UNCHANGED <<dbMgr, owed>>
          PROVE  OwedKnown'
      <4>1. r \notin owed
        BY <3>2 DEF Fresh, OwedKnown
      <4>2. QED
        BY <2>1, <2>3, <3>2, <4>1 DEF OwedKnown
    <3>3. QED
      BY <2>4, <3>1, <3>2 DEF DealActive
  <2>5. CASE ask.kind = "active_suc" /\ DealActiveSuc(ask)
    <3>1. ask.rid \in Rid
      BY <2>1, <2>5, AskFields
    <3>2. CASE UNCHANGED <<srvs, dbMgr, owed>>
      BY <2>1, <3>2 DEF OwedKnown
    <3>3. CASE /\ srvs' = [srvs EXCEPT ![ask.rid] = Active(NoEntry)]
               /\ dbMgr' = dbMgr \cup {ask.rid} /\ owed' = owed \cup {ask.rid}
      BY <2>1, <2>3, <3>1, <3>3 DEF OwedKnown
    <3>4. QED
      BY <2>5, <3>2, <3>3 DEF DealActiveSuc
  <2>6. CASE ask.kind = "auth" /\ DealAuthen(ask)
    BY <2>1, <2>6 DEF DealAuthen, OwedKnown
  <2>7. CASE ask.kind = "check_update" /\ DealUpdateCheck(ask)
    BY <2>1, <2>3, <2>7 DEF DealUpdateCheck, OwedKnown
  <2>8. QED
    BY <2>2, <2>4, <2>5, <2>6, <2>7
<1>4. CASE Crash
  BY <1>4 DEF Crash, OwedKnown
<1>5. CASE InitDb
  <2>1. UNCHANGED <<dbMgr, owed>> /\ owed \subseteq Rid
    BY <1>5, LoadOnlyReads DEF CtrlTypeOK, DbTypeOK
  <2>2. CASE ListServers
    BY <2>1, <2>2 DEF ListServers, OwedKnown
  <2>3. CASE LoadServer
    <3>1. PICK r \in srvKeys :
            \/ /\ srvs' = [srvs EXCEPT ![r] = Active(ListEntry)]
               /\ srvKeys' = srvKeys \ {r}
            \/ UNCHANGED <<srvs, srvKeys>>
      BY <2>3 DEF LoadServer
    <3>2. phase # "down"
      BY <2>3 DEF LoadServer
    <3>3. QED
      BY <2>1, <3>1, <3>2 DEF OwedKnown, CtrlTypeOK
  <2>4. CASE ListPublications \/ LoadPublication \/ Loaded \/ LoadFails
    <3>1. phase # "down" /\ UNCHANGED <<srvs, srvKeys>>
      BY <2>4 DEF ListPublications, LoadPublication, Loaded, LoadFails
    <3>2. QED
      BY <2>1, <3>1 DEF OwedKnown
  <2>5. QED
    BY <1>5, <2>2, <2>3, <2>4 DEF InitDb
<1>6. QED
  BY <1>1, <1>2, <1>3, <1>4, <1>5 DEF CtrlNext

LEMMA KnownIsAccepted ==
  ASSUME CtrlTypeOK, OwedKnown
  PROVE  ConfirmedAccepted
<1> SUFFICES ASSUME running, NEW r \in owed \ srvKeys
             PROVE  Verdict(r, TRUE) = {0}
  BY DEF ConfirmedAccepted
<1>1. srvs[r].state = "active" /\ srvs[r] # Unknown
  BY Servers DEF OwedKnown, running
<1>2. QED
  BY <1>1 DEF Verdict

-----------------------------------------------------------------------------
(***************************************************************************)
(* The order of publications.                                              *)
(***************************************************************************)
\* dbPub and the clock, as numbers.
LEMMA Times ==
  ASSUME DbTypeOK
  PROVE  /\ clock \in Nat
         /\ \A g \in Segments, v \in Version : dbPub[<<g, v>>] \in Nat
         /\ \A t \in Thread : Publishing(t) => jobs[t].dt \in Nat
         /\ \A i \in 1 .. Len(topic) : topic[i].dt \in Nat /\ topic[i].dt >= 1
<1>1. \A t \in Thread : Publishing(t) => jobs[t].dt \in Nat
  BY JobFields DEF Time
<1>2. \A i \in 1 .. Len(topic) : topic[i].dt \in Nat /\ topic[i].dt >= 1
  BY PublicationFields DEF Time
<1>3. QED
  BY <1>1, <1>2 DEF DbTypeOK, Time

\* A key never gets an older time, and the clock does not go back.
LEMMA KeysGrow ==
  ASSUME DbTypeOK, JobsInOrder, DbNext
  PROVE  /\ clock <= clock'
         /\ \A g \in Segments, v \in Version : dbPub[<<g, v>>] <= dbPub'[<<g, v>>]
<1>1. CASE \E t \in Thread : SetPublication(t)
  <2>1. PICK t \in Thread : SetPublication(t)
    BY <1>1
  <2>2. Publishing(t)
    BY <2>1 DEF SetPublication, Publishing
  <2>3. PICK gid \in jobs[t].gids : dbPub' = [dbPub EXCEPT ![<<gid, jobs[t].ver>>] = jobs[t].dt]
    BY <2>1 DEF SetPublication, KeyIndex
  <2>4. dbPub[<<gid, jobs[t].ver>>] <= jobs[t].dt
    BY <2>2, <2>3, JobFields DEF JobsInOrder
  <2>5. clock' = clock /\ clock \in Nat
    BY <2>1, Times DEF SetPublication
  <2>6. ASSUME NEW g \in Segments, NEW v \in Version
        PROVE  dbPub[<<g, v>>] <= dbPub'[<<g, v>>]
    <3>1. dbPub[<<g, v>>] \in Nat /\ dbPub \in [Segments \X Version -> Time \cup {0}]
      BY Times DEF DbTypeOK
    <3>2. CASE g = gid /\ v = jobs[t].ver
      BY <2>3, <2>4, <3>1, <3>2
    <3>3. CASE ~(g = gid /\ v = jobs[t].ver)
      BY <2>3, <3>1, <3>3
    <3>4. QED
      BY <3>2, <3>3
  <2>7. QED
    BY <2>5, <2>6
<1>2. CASE ~ \E t \in Thread : SetPublication(t)
  <2>1. dbPub' = dbPub /\ (clock' = clock \/ clock' = clock + 1)
    BY <1>2 DEF DbNext, Publish, Announce, PublishFails, GetServer, SetServer,
                DeleteServers, Tick
  <2>2. clock \in Nat /\ \A g \in Segments, v \in Version : dbPub[<<g, v>>] \in Nat
    BY Times
  <2>3. ASSUME NEW g \in Segments, NEW v \in Version
        PROVE  dbPub[<<g, v>>] <= dbPub'[<<g, v>>]
    BY <2>1, <2>2
  <2>4. QED
    BY <2>1, <2>2, <2>3
<1>3. QED
  BY <1>1, <1>2

\* No key is younger than the clock, after a step of the service.
LEMMA KeysOrdered ==
  ASSUME DbTypeOK, DbTypeOK', OrderInv, DbNext
  PROVE  KeysPast'
<1> SUFFICES ASSUME NEW g \in Segments, NEW v \in Version
             PROVE  dbPub'[<<g, v>>] <= clock'
  BY DEF KeysPast
<1> USE DEF OrderInv
<1>1. /\ dbPub[<<g, v>>] <= clock /\ clock <= clock'
      /\ dbPub[<<g, v>>] \in Nat /\ clock \in Nat /\ clock' \in Nat
  BY KeysGrow, Times DEF KeysPast, DbTypeOK, Time
<1>2. CASE dbPub'[<<g, v>>] = dbPub[<<g, v>>]
  BY <1>1, <1>2
<1>3. CASE \E t \in Thread : SetPublication(t)
  <2>1. PICK t \in Thread : SetPublication(t)
    BY <1>3
  <2>2. Publishing(t) /\ clock' = clock
    BY <2>1 DEF SetPublication, Publishing
  <2>3. PICK gid \in jobs[t].gids : dbPub' = [dbPub EXCEPT ![<<gid, jobs[t].ver>>] = jobs[t].dt]
    BY <2>1 DEF SetPublication, KeyIndex
  <2>4. jobs[t].dt <= clock
    BY <2>2 DEF JobsInOrder
  <2>5. dbPub'[<<g, v>>] \in {dbPub[<<g, v>>], jobs[t].dt}
    BY <2>2, <2>3, JobFields DEF DbTypeOK
  <2>6. QED
    BY <1>1, <2>2, <2>4, <2>5
<1>4. QED
  BY <1>2, <1>3 DEF DbNext, Publish, Announce, PublishFails, GetServer, SetServer,
                    DeleteServers, Tick

LEMMA AnnouncedOrdered ==
  ASSUME DbTypeOK, DbTypeOK', OrderInv, DbNext
  PROVE  AnnouncedWritten'
<1> USE DEF OrderInv
<1>1. \A g \in Segments, v \in Version :
        /\ dbPub[<<g, v>>] <= dbPub'[<<g, v>>]
        /\ dbPub[<<g, v>>] \in Nat /\ dbPub'[<<g, v>>] \in Nat
  <2>1. \A g \in Segments, v \in Version :
          dbPub[<<g, v>>] \in Nat /\ dbPub'[<<g, v>>] \in Nat
    BY DEF DbTypeOK, Time
  <2>2. QED
    BY <2>1, KeysGrow
<1>2. ASSUME NEW i \in 1 .. Len(topic), NEW g \in topic[i].indexes
      PROVE  topic[i].dt <= dbPub'[<<g, topic[i].ver>>]
  BY <1>1, PublicationFields DEF AnnouncedWritten, Time
<1>3. CASE topic' = topic
  BY <1>2, <1>3 DEF AnnouncedWritten
<1>4. CASE \E t \in Thread : Announce(t)
  <2>1. PICK t \in Thread : Announce(t)
    BY <1>4
  <2>2. Publishing(t) /\ dbPub' = dbPub
    BY <2>1 DEF Announce, Publishing
  <2> DEFINE p == [indexes |-> jobs[t].indexes, ver |-> jobs[t].ver, dt |-> jobs[t].dt]
  <2>3. topic' = Append(topic, p) /\ topic \in Seq(Publication)
    BY <2>1 DEF Announce, DbTypeOK
  <2>4. \A g \in p.indexes : p.dt <= dbPub'[<<g, p.ver>>]
    BY <2>2 DEF JobsInOrder
  <2>5. ASSUME NEW i \in 1 .. Len(topic')
        PROVE  \/ i \in 1 .. Len(topic) /\ topic'[i] = topic[i]
               \/ topic'[i] = p
    <3> HIDE DEF p
    <3>1. QED
      BY <2>3
  <2>6. QED
    BY <1>2, <2>4, <2>5 DEF AnnouncedWritten
<1>5. QED
  BY <1>3, <1>4 DEF DbNext, Publish, SetPublication, PublishFails, GetServer, SetServer,
                    DeleteServers, Tick

LEMMA JobsOrdered ==
  ASSUME DbTypeOK, DbTypeOK', OrderInv, DbNext
  PROVE  JobsInOrder'
<1> USE DEF OrderInv
<1>1. /\ clock \in Nat /\ clock' \in Nat /\ clock <= clock'
      /\ jobs \in [Thread -> Job \cup {Idle}]
  BY KeysGrow DEF DbTypeOK, Time
<1>2. \A t \in Thread : Publishing(t) => jobs[t].dt \in Nat
  BY Times
\* Requests that only end, or are no publications.
<1>3. ASSUME dbPub' = dbPub,
             \A t \in Thread : jobs'[t] = jobs[t] \/ jobs'[t].op # "publish"
      PROVE  JobsInOrder'
  <2>1. ASSUME NEW t \in Thread, jobs'[t].op = "publish"
        PROVE  jobs'[t] = jobs[t] /\ Publishing(t)
    BY <1>3, <2>1 DEF Publishing
  <2>2. ASSUME NEW t \in Thread, jobs'[t].op = "publish"
        PROVE  jobs'[t].dt <= clock'
    BY <1>1, <1>2, <2>1, <2>2 DEF JobsInOrder
  <2>3. QED
    BY <1>3, <2>1, <2>2 DEF JobsInOrder, Publishing
<1>4. ASSUME NEW t \in Thread, Publish(t)
      PROVE  JobsInOrder'
  <2>1. PICK ver \in Version, gids \in SUBSET Segments :
          /\ Unpublished(ver)
          /\ jobs' = [jobs EXCEPT ![t] =
               [op |-> "publish", ver |-> ver, dt |-> clock, gids |-> gids, indexes |-> {}]]
          /\ UNCHANGED <<dbPub, clock>>
    BY <1>4 DEF Publish
  <2>2. /\ jobs'[t].ver = ver /\ jobs'[t].dt = clock /\ jobs'[t].indexes = {}
        /\ \A u \in Thread \ {t} : jobs'[u] = jobs[u]
    BY <1>1, <2>1
  <2>3. ASSUME NEW u \in Thread \ {t}, Publishing(u)
        PROVE  jobs[u].ver # ver
    BY <2>1, <2>3 DEF Unpublished, Publishing
  <2>4. \A g \in Segments : dbPub[<<g, ver>>] <= clock
    BY DEF KeysPast
  <2>5. ASSUME NEW u \in Thread, jobs'[u].op = "publish"
        PROVE  /\ jobs'[u].dt <= clock'
               /\ \A g \in Segments : dbPub'[<<g, jobs'[u].ver>>] <= jobs'[u].dt
               /\ \A g \in jobs'[u].indexes : jobs'[u].dt <= dbPub'[<<g, jobs'[u].ver>>]
    <3>1. CASE u = t
      BY <1>1, <2>1, <2>2, <2>4, <3>1
    <3>2. CASE u # t
      BY <2>1, <2>2, <2>5, <3>2 DEF JobsInOrder, Publishing
    <3>3. QED
      BY <3>1, <3>2
  <2>6. ASSUME NEW u \in Thread, NEW w \in Thread, jobs'[u].op = "publish",
               jobs'[w].op = "publish", jobs'[u].ver = jobs'[w].ver
        PROVE  u = w
    BY <2>2, <2>3, <2>6 DEF JobsInOrder, Publishing
  <2>7. QED
    BY <2>5, <2>6 DEF JobsInOrder, Publishing
<1>5. ASSUME NEW t \in Thread, SetPublication(t)
      PROVE  JobsInOrder'
  <2>1. Publishing(t) /\ clock' = clock
    BY <1>5 DEF SetPublication, Publishing
  <2>2. PICK gid \in jobs[t].gids :
          /\ dbPub' = [dbPub EXCEPT ![<<gid, jobs[t].ver>>] = jobs[t].dt]
          /\ jobs' = [jobs EXCEPT ![t] =
               [jobs[t] EXCEPT !.gids = @ \ {gid}, !.indexes = @ \cup {gid}]]
    BY <1>5 DEF SetPublication, KeyIndex, DbTypeOK
  <2>3. /\ gid \in Segments /\ jobs[t].ver \in Version /\ jobs[t].indexes \subseteq Segments
        /\ jobs[t].dt \in Nat /\ dbPub \in [Segments \X Version -> Time \cup {0}]
    BY <1>2, <2>1, <2>2, JobFields DEF DbTypeOK
  <2>4. /\ jobs'[t].op = jobs[t].op /\ jobs'[t].ver = jobs[t].ver
        /\ jobs'[t].dt = jobs[t].dt /\ jobs'[t].indexes = jobs[t].indexes \cup {gid}
        /\ \A u \in Thread \ {t} : jobs'[u] = jobs[u]
    <3>1. jobs[t] \in [op : {"publish"}, ver : Version, dt : Time,
                       gids : SUBSET Segments, indexes : SUBSET Segments]
      BY <2>1, JobFields
    <3>2. QED
      BY <1>1, <2>2, <3>1
  <2>5. \A g \in Segments, v \in Version :
          dbPub'[<<g, v>>] = IF g = gid /\ v = jobs[t].ver THEN jobs[t].dt
                             ELSE dbPub[<<g, v>>]
    BY <2>2, <2>3
  <2>6. ASSUME NEW u \in Thread, jobs'[u].op = "publish"
        PROVE  Publishing(u) /\ jobs'[u].ver = jobs[u].ver /\ jobs'[u].dt = jobs[u].dt
    BY <2>1, <2>4, <2>6 DEF Publishing
  <2>7. ASSUME NEW u \in Thread, jobs'[u].op = "publish"
        PROVE  /\ jobs'[u].dt <= clock'
               /\ \A g \in Segments : dbPub'[<<g, jobs'[u].ver>>] <= jobs'[u].dt
               /\ \A g \in jobs'[u].indexes : jobs'[u].dt <= dbPub'[<<g, jobs'[u].ver>>]
    <3>1. CASE u = t
      BY <2>1, <2>3, <2>4, <2>5, <3>1 DEF JobsInOrder
    <3>2. CASE u # t
      <4>1. /\ Publishing(u) /\ jobs[u].ver # jobs[t].ver /\ jobs[u].ver \in Version
            /\ jobs[u].indexes \subseteq Segments /\ jobs'[u] = jobs[u]
        BY <2>1, <2>4, <2>6, <2>7, <3>2, JobFields DEF JobsInOrder
      <4>2. \A g \in Segments : dbPub'[<<g, jobs[u].ver>>] = dbPub[<<g, jobs[u].ver>>]
        BY <2>5, <4>1
      <4>3. QED
        BY <2>1, <4>1, <4>2 DEF JobsInOrder
    <3>3. QED
      BY <3>1, <3>2
  <2>8. QED
    BY <2>6, <2>7 DEF JobsInOrder, Publishing
<1>6. CASE \E t \in Thread : Announce(t) \/ PublishFails(t) \/ GetServer(t) \/ SetServer(t)
  <2>1. PICK t \in Thread : Announce(t) \/ PublishFails(t) \/ GetServer(t) \/ SetServer(t)
    BY <1>6
  <2>2. dbPub' = dbPub /\ \E j : jobs' = [jobs EXCEPT ![t] = j] /\ j.op # "publish"
    <3>1. CASE GetServer(t)
      <4>1. PICK r \in dbMgr : jobs' = [jobs EXCEPT ![t] = [op |-> "update", rid |-> r]]
        BY <3>1 DEF GetServer
      <4>2. [op |-> "update", rid |-> r].op # "publish"
        OBVIOUS
      <4>3. QED
        BY <3>1, <4>1, <4>2 DEF GetServer
    <3>2. CASE Announce(t) \/ PublishFails(t) \/ SetServer(t)
      <4>1. Idle.op # "publish"
        BY DEF Idle
      <4>2. QED
        BY <3>2, <4>1 DEF Announce, PublishFails, SetServer, Finish
    <3>3. QED
      BY <2>1, <3>1, <3>2
  <2>3. \A u \in Thread : jobs'[u] = jobs[u] \/ jobs'[u].op # "publish"
    BY <1>1, <2>2
  <2>4. QED
    BY <1>3, <2>2, <2>3
<1>7. CASE Tick \/ \E r \in Rid : DeleteServers(r)
  <2>1. UNCHANGED <<dbPub, jobs>>
    BY <1>7 DEF Tick, DeleteServers
  <2>2. QED
    BY <1>3, <2>1
<1>8. QED
  BY <1>4, <1>5, <1>6, <1>7 DEF DbNext

LEMMA OrderStep ==
  ASSUME CtrlTypeOK, CtrlTypeOK', OrderInv, [CtrlNext]_cVars
  PROVE  OrderInv'
<1>1. CASE Serve
  BY <1>1, KeysOrdered, AnnouncedOrdered, JobsOrdered DEF Serve, OrderInv, CtrlTypeOK
<1>2. CASE ~Serve
  <2>1. UNCHANGED <<dbPub, clock, jobs, topic>>
    BY <1>2, LoadOnlyReads DEF CtrlNext, Machines, Send, OnAsk, OnPublish, Commit, Crash,
                               cVars, dbVars
  <2>2. QED
    BY <2>1 DEF OrderInv, JobsInOrder, KeysPast, AnnouncedWritten, Publishing
<1>3. QED
  BY <1>1, <1>2

\* All but the last segment are the same byte for everybody.
LEMMA SameByte ==
  ASSUME Index # 255, NEW j \in Segments, CtrlIndex = PublishIndex(j)
  PROVE  j = CtrlIndex /\ CtrlIndex \in Segments
<1>1. Index \in 1 .. 254 /\ j \in 1 .. 255
  BY DbAssumption, CtrlAssumption
<1>2. Index % 255 = Index
  BY <1>1
<1>3. j = 255 => j % 255 = 0
  OBVIOUS
<1>4. j # 255 => j % 255 = j
  BY <1>1
<1>5. QED
  BY <1>1, <1>2, <1>3, <1>4, CtrlAssumption DEF CtrlIndex, PublishIndex

\* A publication that was announced to this segment is under its key.
LEMMA AnnouncedIsPublished ==
  ASSUME Index # 255, DbTypeOK, AnnouncedWritten, NEW i \in 1 .. Len(topic), Ours(i)
  PROVE  /\ <<CtrlIndex, topic[i].ver>> \in Published
         /\ topic[i].dt <= dbPub[<<CtrlIndex, topic[i].ver>>]
<1>1. PICK j \in topic[i].indexes : CtrlIndex = PublishIndex(j)
  BY DEF Ours
<1>2. CtrlIndex = j /\ CtrlIndex \in Segments
  BY <1>1, PublicationFields, SameByte
<1> DEFINE k == <<CtrlIndex, topic[i].ver>>
<1>3. /\ topic[i].dt <= dbPub[k] /\ k \in Segments \X Version
      /\ topic[i].dt \in Nat /\ topic[i].dt >= 1 /\ dbPub[k] \in Nat
  BY <1>1, <1>2, PublicationFields, Times DEF AnnouncedWritten
<1>4. QED
  BY <1>3 DEF Published, DbTypeOK

\* The load: what it has not read yet is among the keys it has left.
LEMMA TargetAtLoad ==
  ASSUME Index # 255, CtrlTypeOK, OrderInv, TargetKnown, InitDb
  PROVE  TargetKnown'
<1> USE DEF OrderInv
<1>1. /\ UNCHANGED <<dbPub, topic, pos, seen, from>> /\ DbTypeOK
      /\ \A i \in 1 .. seen : i \in 1 .. Len(topic)
      /\ pos.topic \in Nat
  BY LoadOnlyReads DEF consumed, CtrlTypeOK, DbTypeOK
<1>2. \A i : Ours(i)' = Ours(i)
  BY <1>1 DEF Ours
<1>3. phase \in {"down", "servers", "publications"} => from + 1 .. pos.topic = {}
  BY <1>1 DEF TargetKnown
<1>4. CASE ListServers \/ LoadServer
  BY <1>1, <1>4 DEF ListServers, LoadServer, TargetKnown
<1>5. CASE ListPublications
  <2>1. ASSUME NEW i \in 1 .. seen, Told(i)'
        PROVE  FALSE
    <3>1. <<CtrlIndex, topic[i].ver>> \in Published /\ pubKeys' = Published
      BY <1>1, <1>2, <1>5, <2>1, AnnouncedIsPublished DEF ListPublications, Told
    <3>2. i \notin from + 1 .. pos.topic
      BY <1>3, <1>5 DEF ListPublications
    <3>3. QED
      BY <1>1, <2>1, <3>1, <3>2 DEF Told
  <2>2. QED
    BY <1>1, <1>5, <2>1 DEF ListPublications, TargetKnown
<1>6. CASE LoadPublication
  <2>1. PICK k \in pubKeys :
          /\ target' = IF target.dt < dbPub[k] THEN [ver |-> k[2], dt |-> dbPub[k]] ELSE target
          /\ pubKeys' = pubKeys \ {k}
    BY <1>6 DEF LoadPublication
  <2>2. target.dt \in Nat /\ dbPub[k] \in Nat
    BY DEF CtrlTypeOK, DbTypeOK, NoTarget, Time
  <2>3. target'.dt \in Nat /\ target.dt <= target'.dt /\ dbPub[k] <= target'.dt
    BY <2>1, <2>2
  <2>4. ASSUME NEW i \in 1 .. seen, Told(i)'
        PROVE  topic[i].dt <= target'.dt
    <3>1. topic[i].dt \in Nat
      BY <1>1, Times
    <3>2. CASE Told(i)
      <4>1. topic[i].dt <= target.dt
        BY <1>6, <3>2 DEF LoadPublication, TargetKnown
      <4>2. QED
        BY <2>2, <2>3, <3>1, <4>1
    <3>3. CASE ~Told(i)
      <4>1. Ours(i) /\ <<CtrlIndex, topic[i].ver>> = k
        BY <1>1, <1>2, <2>1, <2>4, <3>3 DEF Told
      <4>2. topic[i].dt <= dbPub[k]
        BY <1>1, <4>1, AnnouncedIsPublished
      <4>3. QED
        BY <2>2, <2>3, <3>1, <4>2
    <3>4. QED
      BY <3>2, <3>3
  <2>5. QED
    BY <1>1, <1>6, <2>4 DEF LoadPublication, TargetKnown
<1>7. CASE Loaded \/ LoadFails
  <2>1. \A i : Told(i)' = Told(i)
    BY <1>1, <1>2, <1>7 DEF Loaded, LoadFails, Told
  <2>2. QED
    BY <1>1, <1>7, <2>1 DEF Loaded, LoadFails, TargetKnown
<1>8. QED
  BY <1>4, <1>5, <1>6, <1>7 DEF InitDb

LEMMA TargetAtPublish ==
  ASSUME CtrlTypeOK, TargetKnown, OnPublish
  PROVE  TargetKnown'
<1> DEFINE n == pos.topic + 1
<1>1. /\ UNCHANGED <<topic, phase, pubKeys, from>> /\ running /\ DbTypeOK
      /\ n \in 1 .. Len(topic) /\ pos.topic \in Nat /\ seen \in Nat /\ Len(topic) \in Nat
      /\ seen >= pos.topic /\ seen <= Len(topic) /\ from \in Nat
      /\ seen' = IF seen = pos.topic THEN seen + 1 ELSE seen
      /\ pos'.topic = n
  BY DEF OnPublish, CtrlTypeOK, DbTypeOK, loadVars
<1>2. /\ target.dt \in Nat
      /\ \A i \in 1 .. Len(topic) : topic[i].dt \in Nat
  BY <1>1, Times DEF CtrlTypeOK, NoTarget, Time
<1> SUFFICES ASSUME phase = "up", NEW i \in 1 .. seen', Told(i)'
             PROVE  topic[i].dt <= target'.dt
  BY <1>1 DEF TargetKnown, running
<1>3. \/ target' = target /\ (~Ours(n) \/ target.dt > topic[n].dt)
      \/ target'.dt = topic[n].dt /\ target.dt <= topic[n].dt
  BY <1>1 DEF OnPublish, DealPublish, Ours
<1>4. target'.dt \in Nat /\ target.dt <= target'.dt /\ (Ours(n) => topic[n].dt <= target'.dt)
  BY <1>1, <1>2, <1>3
<1>5. Ours(i)
  BY <1>1 DEF Told, Ours
<1>6. i = n \/ (i \in 1 .. seen /\ Told(i))
  BY <1>1, <1>5 DEF Told
<1>7. CASE i \in 1 .. seen /\ Told(i)
  <2>1. topic[i].dt <= target.dt
    BY <1>7 DEF TargetKnown
  <2>2. QED
    BY <1>1, <1>2, <1>4, <1>7, <2>1
<1>8. QED
  BY <1>4, <1>5, <1>6, <1>7

LEMMA TargetStep ==
  ASSUME Index # 255, CtrlTypeOK, CtrlTypeOK', OrderInv, TargetKnown, [CtrlNext]_cVars
  PROVE  TargetKnown'
<1>1. CASE Serve
  <2>1. UNCHANGED <<phase, pubKeys, target, pos, seen, from>>
    BY <1>1 DEF Serve, ctrlVars, loadVars
  <2>2. \A i \in 1 .. seen : topic'[i] = topic[i]
    <3>1. topic' = topic \/ \E p \in Publication : topic' = Append(topic, p)
      <4>1. ASSUME NEW t \in Thread, Announce(t)
            PROVE  \E p \in Publication : topic' = Append(topic, p)
        <5>1. Publishing(t)
          BY <4>1 DEF Announce, Publishing
        <5>2. [indexes |-> jobs[t].indexes, ver |-> jobs[t].ver, dt |-> jobs[t].dt]
                \in Publication
          BY <5>1, JobFields DEF CtrlTypeOK, Publication
        <5>3. QED
          BY <4>1, <5>2 DEF Announce
      <4>2. QED
        BY <1>1, <4>1 DEF Serve, DbNext, Publish, SetPublication, PublishFails, GetServer,
                          SetServer, DeleteServers, Tick
    <3>2. topic \in Seq(Publication) /\ \A i \in 1 .. seen : i \in 1 .. Len(topic)
      BY DEF CtrlTypeOK, DbTypeOK
    <3>3. QED
      BY <3>1, <3>2
  <2>3. \A i \in 1 .. seen : Told(i)' = Told(i)
    BY <2>1, <2>2 DEF Told, Ours
  <2>4. QED
    BY <2>1, <2>2, <2>3 DEF TargetKnown
<1>2. CASE Machines \/ OnAsk \/ Commit \/ UNCHANGED cVars
  <2>1. UNCHANGED <<topic, phase, pubKeys, target, seen, from>> /\ pos'.topic = pos.topic
    BY <1>2 DEF Machines, Send, OnAsk, Commit, cVars, ctrlVars, loadVars, dbVars, CtrlTypeOK
  <2>2. \A i : Told(i)' = Told(i)
    BY <2>1 DEF Told, Ours
  <2>3. QED
    BY <2>1, <2>2 DEF TargetKnown
<1>3. CASE Crash
  BY <1>3 DEF Crash, TargetKnown
<1>4. QED
  BY <1>1, <1>2, <1>3, TargetAtLoad, TargetAtPublish DEF CtrlNext
-----------------------------------------------------------------------------
(***************************************************************************)
(* The activation requests.                                                *)
(***************************************************************************)
\* Failures are only ever added up.
LEMMA FaultsCount ==
  ASSUME CtrlTypeOK, [CtrlNext]_cVars
  PROVE  /\ faults \in Nat /\ faults' \in {faults, faults + 1}
         /\ Crash => faults' # 0
<1>1. faults \in Nat
  BY DbAssumption DEF CtrlTypeOK, DbTypeOK
<1>2. Fault => faults' = faults + 1
  BY DEF Fault
<1>3. Crash => faults' = faults + 1
  BY <1>2 DEF Crash
<1>4. OnAsk \/ OnPublish => faults' \in {faults, faults + 1}
  BY <1>2 DEF OnAsk, DealActive, DealActiveSuc, DealAuthen, DealUpdateCheck, OnPublish,
              DealPublish, Produce, Silent
<1>5. Serve => faults' \in {faults, faults + 1}
  BY <1>2 DEF Serve, DbNext, Publish, SetPublication, Announce, PublishFails, GetServer,
              SetServer, DeleteServers, Tick
<1>6. Machines \/ Commit \/ UNCHANGED cVars => faults' = faults
  BY DEF Machines, Send, Commit, cVars, dbVars
<1>7. QED
  BY <1>1, <1>3, <1>4, <1>5, <1>6, LoadOnlyReads DEF CtrlNext

\* A request of the segment is given an id, unless the answer is lost.
LEMMA ServedAtAsk ==
  ASSUME Index # 255, CtrlTypeOK, ActivationServed, OnAsk, faults = 0, faults' = 0
  PROVE  ActivationServed'
<1> DEFINE n == pos.asks + 1
<1>1. /\ pos.asks \in Nat /\ n \in 1 .. Len(asks) /\ pos'.asks = n /\ asks' = asks
  BY DEF OnAsk, CtrlTypeOK
<1>2. down \subseteq down'
  BY DEF OnAsk, DealActive, DealActiveSuc, DealAuthen, DealUpdateCheck, Produce, Silent
<1>3. ASSUME asks[n].kind = "active", asks[n].index = Index
      PROVE  \E a \in down' : a.kind = "active_ack" /\ a.uuid = asks[n].uuid
  <2>1. CtrlIndex = ActiveIndex(asks[n].index)
    BY <1>3, DbAssumption, CtrlAssumption DEF CtrlIndex, ActiveIndex
  <2>2. DealActive(asks[n])
    BY <1>3 DEF OnAsk
  <2>3. PICK r \in Rid :
          Produce({[kind |-> "active_ack", uuid |-> asks[n].uuid, rid |-> r]})
    BY <2>1, <2>2 DEF DealActive
  <2> DEFINE a == [kind |-> "active_ack", uuid |-> asks[n].uuid, rid |-> r]
  <2>4. a.kind = "active_ack" /\ a.uuid = asks[n].uuid
    OBVIOUS
  <2>5. a \in down'
    BY <2>3 DEF Produce, Fault
  <2> HIDE DEF a
  <2>6. QED
    BY <2>4, <2>5
<1>4. \A i \in 1 .. n : i \in 1 .. pos.asks \/ i = n
  BY <1>1
<1>5. QED
  BY <1>1, <1>2, <1>3, <1>4 DEF ActivationServed

LEMMA ServedStep ==
  ASSUME Index # 255, CtrlTypeOK, ActivationServed, [CtrlNext]_cVars
  PROVE  ActivationServed'
<1>1. CASE faults' # 0
  BY <1>1 DEF ActivationServed
<1>2. CASE faults' = 0 /\ OnAsk
  BY <1>2, FaultsCount, ServedAtAsk
<1>3. CASE faults' = 0 /\ ~OnAsk
  <2>1. faults = 0 /\ ~Crash
    BY <1>3, FaultsCount
  <2>2. pos'.asks = pos.asks /\ down \subseteq down'
    <3>1. CASE OnPublish
      BY <3>1 DEF OnPublish, DealPublish, Produce, Silent, CtrlTypeOK
    <3>2. CASE ~OnPublish
      BY <1>3, <2>1, <3>2, LoadOnlyReads DEF CtrlNext, Serve, Machines, Send, Commit, consumed,
                                             cVars, ctrlVars
    <3>3. QED
      BY <3>1, <3>2
  <2>3. \A i \in 1 .. pos.asks : asks'[i] = asks[i]
    <3>1. asks' = asks \/ \E ask : asks' = Append(asks, ask)
      BY <1>3, <2>1, LoadOnlyReads DEF CtrlNext, Serve, Machines, Send, OnPublish, Commit,
                                       consumed, cVars, ctrlVars
    <3>2. asks \in Seq(Ask) /\ \A i \in 1 .. pos.asks : i \in 1 .. Len(asks)
      BY DEF CtrlTypeOK
    <3>3. QED
      BY <3>1, <3>2
  <2>4. QED
    BY <2>1, <2>2, <2>3 DEF ActivationServed
<1>4. QED
  BY <1>1, <1>2, <1>3
-----------------------------------------------------------------------------
(***************************************************************************)
(* Theorems.                                                               *)
(***************************************************************************)
\* CtrlTypeOK: variables of the service and of the controller hold what the
\* code puts there; offsets committed are never ahead of those handled.
THEOREM CtrlTypeCorrect == CtrlSpec => []CtrlTypeOK
<1>1. CtrlTypeOK /\ [CtrlNext]_cVars => CtrlTypeOK'
  BY TypedStep
<1>2. QED
  BY TypedInit, <1>1, PTL DEF CtrlSpec

\* ConfirmedAccepted: __dealAuthen accepts every machine whose confirmation
\* was stored and whom nobody deleted, whatever restarts and edits come, and
\* whatever is deleted while InitDb reads; but for those a load that broke off
\* had not read.
THEOREM ConfirmedAreAccepted == CtrlSpec => []ConfirmedAccepted
<1>1. CtrlInit => OwedKnown
  BY DEF CtrlInit, DbInit, OwedKnown
<1>2. CtrlTypeOK /\ OwedKnown /\ [CtrlNext]_cVars => OwedKnown'
  BY OwedStep
<1>3. CtrlTypeOK /\ OwedKnown => ConfirmedAccepted
  BY KnownIsAccepted
<1>4. QED
  BY <1>1, <1>2, <1>3, CtrlTypeCorrect, PTL DEF CtrlSpec

\* What the service wrote is in order: keys only get newer, and nothing is
\* announced that was not written.
THEOREM WrittenInOrder == CtrlSpec => []OrderInv
<1>1. CtrlInit => OrderInv
  <2> SUFFICES ASSUME CtrlInit PROVE OrderInv
    OBVIOUS
  <2>1. \A t \in Thread : jobs[t].op # "publish"
    BY DEF CtrlInit, DbInit, Idle
  <2>2. QED
    BY <2>1 DEF CtrlInit, DbInit, OrderInv, JobsInOrder, KeysPast, AnnouncedWritten, Publishing
<1>2. CtrlTypeOK /\ CtrlTypeOK' /\ OrderInv /\ [CtrlNext]_cVars => OrderInv'
  BY OrderStep
<1>3. QED
  BY <1>1, <1>2, CtrlTypeCorrect, PTL DEF CtrlSpec

\* TargetNeverOlder: __dealPublish and InitDb together never take a version
\* back, though the keys are read one by one while others are written; when
\* the load breaks off, none that it has read or that is announced after it.
\* On every segment but 255, which InitDb looks for under other keys than
\* publish writes.
THEOREM TargetIsNeverOlder ==
  ASSUME Index # 255
  PROVE  CtrlSpec => []TargetNeverOlder
<1>1. CtrlInit => TargetKnown
  BY DEF CtrlInit, TargetKnown
<1>2. CtrlTypeOK /\ CtrlTypeOK' /\ OrderInv /\ TargetKnown /\ [CtrlNext]_cVars
        => TargetKnown'
  BY TargetStep
<1>3. TargetKnown => TargetNeverOlder
  BY DEF TargetKnown, TargetNeverOlder
<1>4. QED
  BY <1>1, <1>2, <1>3, CtrlTypeCorrect, WrittenInOrder, PTL DEF CtrlSpec

\* ActivationServed: as long as nothing fails, every activation request of the
\* controller's segment that was handled was given an id (__dealActive), on
\* every segment but 255, whose byte is not the controller's remainder.
THEOREM ActivationIsServed ==
  ASSUME Index # 255
  PROVE  CtrlSpec => []ActivationServed
<1>1. CtrlInit => ActivationServed
  BY DEF CtrlInit, ActivationServed
<1>2. CtrlTypeOK /\ ActivationServed /\ [CtrlNext]_cVars => ActivationServed'
  BY ServedStep
<1>3. QED
  BY <1>1, <1>2, CtrlTypeCorrect, PTL DEF CtrlSpec
=============================================================================
