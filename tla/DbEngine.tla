----------------------------- MODULE DbEngine -----------------------------
(***************************************************************************)
(* The REST service of the user interface and of the publishing tools      *)
(* (PrjRestfulApiService/DbEngine.py), seen as what its threads do to the  *)
(* two databases it shares with the controllers, and to the topic          *)
(* "publish".  ThreadingTCPServer runs each request in a thread of its     *)
(* own, so two requests interleave between their calls of redis.           *)
(*                                                                         *)
(* One project and one module are modelled: every key names them, and the  *)
(* keys of two modules never meet.                                         *)
(***************************************************************************)
EXTENDS Naturals, Sequences

CONSTANTS
  Rid,           \* resource ids
  Thread,        \* requests the service works on at once
  Segments,      \* segments (groups) an operator publishes to
  Version,       \* version names
  MaxClock,      \* bound: seconds the clock shows
  MaxPublish,    \* bound: publications begun
  MaxFault       \* bound: failures and restarts

ASSUME DbAssumption ==
  /\ Segments \subseteq 1 .. 255
  /\ MaxClock \in Nat \ {0} /\ MaxPublish \in Nat /\ MaxFault \in Nat

VARIABLES
  dbMgr,   \* db 1: machines with a record
  dbPub,   \* db 2: time of the publication under a key, 0 without one
  clock,   \* datetime.now, to the second
  jobs,    \* requests under way
  begun,   \* publications begun
  topic,   \* the topic "publish"
  faults,  \* failures and restarts so far
  owed     \* history: machines recorded and not deleted since

dbVars == <<dbMgr, dbPub, clock, jobs, begun, topic, faults, owed>>

Time == 1 .. MaxClock

Key == (0 .. 255) \X Version

Publication == [indexes : SUBSET Segments, ver : Version, dt : Time]

Idle == [op |-> "idle"]

Job == [op : {"publish"}, ver : Version, dt : Time, gids : SUBSET Segments,
        indexes : SUBSET Segments]
       \cup [op : {"update"}, rid : Rid]

DbTypeOK ==
  /\ dbMgr \subseteq Rid
  /\ dbPub \in [Segments \X Version -> Time \cup {0}]
  /\ clock \in Time
  /\ jobs \in [Thread -> Job \cup {Idle}]
  /\ begun \in 0 .. MaxPublish
  /\ topic \in Seq(Publication)
  /\ faults \in 0 .. MaxFault
  /\ owed \subseteq Rid

DbInit ==
  /\ dbMgr = {}
  /\ dbPub = [k \in Segments \X Version |-> 0]
  /\ clock = 1
  /\ jobs = [t \in Thread |-> Idle]
  /\ begun = 0
  /\ topic = <<>>
  /\ faults = 0
  /\ owed = {}
-----------------------------------------------------------------------------
\* '%02x#...' % gid: the segment of a key.
KeyIndex(gid) == gid

Finish(t) == jobs' = [jobs EXCEPT ![t] = Idle]

Fault == faults < MaxFault /\ faults' = faults + 1

\* Not two publications of one version at once.
Unpublished(ver) == \A t \in Thread : jobs[t].op = "publish" => jobs[t].ver # ver

\* publish: the time is taken once, before the first write.
Publish(t) == \E ver \in Version, gids \in SUBSET Segments \ {{}} :
  /\ jobs[t] = Idle /\ begun < MaxPublish /\ Unpublished(ver)
  /\ jobs' = [jobs EXCEPT ![t] =
       [op |-> "publish", ver |-> ver, dt |-> clock, gids |-> gids, indexes |-> {}]]
  /\ begun' = begun + 1
  /\ UNCHANGED <<dbMgr, dbPub, clock, topic, faults, owed>>

\* publish: one write for each segment.
SetPublication(t) == jobs[t].op = "publish" /\ \E gid \in jobs[t].gids :
  /\ dbPub' = [dbPub EXCEPT ![<<KeyIndex(gid), jobs[t].ver>>] = jobs[t].dt]
  /\ jobs' = [jobs EXCEPT ![t].gids = @ \ {gid}, ![t].indexes = @ \cup {gid}]
  /\ UNCHANGED <<dbMgr, clock, begun, topic, faults, owed>>

\* publish: the announcement, once all is written.
Announce(t) ==
  /\ jobs[t].op = "publish" /\ jobs[t].gids = {}
  /\ topic' = Append(topic,
       [indexes |-> jobs[t].indexes, ver |-> jobs[t].ver, dt |-> jobs[t].dt])
  /\ Finish(t)
  /\ UNCHANGED <<dbMgr, dbPub, clock, begun, faults, owed>>

\* publish: an exception ends it with part of the keys written (redis, or a
\* record deleted while the records are listed; both are counted), or Produce
\* fails, whose result is ignored.
PublishFails(t) ==
  /\ jobs[t].op = "publish" /\ Fault /\ Finish(t)
  /\ UNCHANGED <<dbMgr, dbPub, clock, begun, topic, owed>>

\* updateServer: the record is read; a machine without one is refused.
GetServer(t) == \E r \in dbMgr :
  /\ jobs[t] = Idle
  /\ jobs' = [jobs EXCEPT ![t] = [op |-> "update", rid |-> r]]
  /\ UNCHANGED <<dbMgr, dbPub, clock, begun, topic, faults, owed>>

\* updateServer: and written back whole, whatever happened to it meanwhile.
SetServer(t) ==
  /\ jobs[t].op = "update"
  /\ dbMgr' = dbMgr \cup {jobs[t].rid}
  /\ Finish(t)
  /\ UNCHANGED <<dbPub, clock, begun, topic, faults, owed>>

\* deleteServers, of one machine: the threads of several deletions are those
\* of one each.
DeleteServers(r) ==
  /\ r \in dbMgr
  /\ dbMgr' = dbMgr \ {r}
  /\ owed' = owed \ {r}
  /\ UNCHANGED <<dbPub, clock, jobs, begun, topic, faults>>

Tick ==
  /\ clock < MaxClock
  /\ clock' = clock + 1
  /\ UNCHANGED <<dbMgr, dbPub, jobs, begun, topic, faults, owed>>

DbNext ==
  \/ \E t \in Thread : Publish(t) \/ SetPublication(t) \/ Announce(t) \/ PublishFails(t)
                       \/ GetServer(t) \/ SetServer(t)
  \/ \E r \in Rid : DeleteServers(r)
  \/ Tick
=============================================================================
