-------------------------------- MODULE Aodc --------------------------------
(***************************************************************************)
(* The aodc process, its hosts and its controller, composed.  Every module *)
(* of aodc is a thread; so is the select loop.                             *)
(***************************************************************************)
EXTENDS Hosts, AodsAuthModule, UpdateModule, AodsActiveModule, KafkaLink

vars == <<busVars, commuVars, netVars, hostVars, authVars, updVars, actVars,
          kafkaVars>>

TypeOK ==
  /\ BusTypeOK /\ CommuTypeOK /\ HostTypeOK /\ AuthTypeOK /\ UpdTypeOK
  /\ ActTypeOK /\ KafkaTypeOK

Init ==
  /\ BusInit /\ CommuInit /\ HostInit /\ AuthInit /\ UpdInit /\ ActInit
  /\ KafkaInit
-----------------------------------------------------------------------------
\* One step of each thread of aodc.
CommuStep ==
  /\ CommuHandler
  /\ UNCHANGED <<hostVars, authVars, updVars, actVars, kafkaVars>>

SelectStep(c) ==
  /\ ReadData(c) \/ OnDel(c)
  /\ UNCHANGED <<hostVars, authVars, updVars, actVars, kafkaVars>>

AuthStep ==
  /\ AuthHandler
  /\ UNCHANGED <<commuVars, netVars, hostVars, updVars, actVars, kafkaVars>>

UpdateStep ==
  /\ UpdateHandler
  /\ UNCHANGED <<commuVars, netVars, hostVars, authVars, actVars, kafkaVars>>

ActiveStep ==
  /\ ActiveHandler
  /\ UNCHANGED <<commuVars, netVars, hostVars, authVars, updVars, kafkaVars>>

PostStep(m) ==
  /\ Dispatch(m)
  /\ UNCHANGED <<commuVars, netVars, hostVars, authVars, updVars, actVars,
                 kafkaVars>>

TimerStep ==
  /\ OnTimer
  /\ UNCHANGED <<commuVars, netVars, hostVars, authVars, actVars, kafkaVars>>

\* The environment.
HostStep(h) ==
  /\ \/ Connect(h) \/ Disconnect(h) \/ SeeClosed(h) \/ HostReceive(h)
  /\ UNCHANGED <<authVars, updVars, actVars, kafkaVars>>

GiveUpStep(c) ==
  /\ GiveUp(c)
  /\ UNCHANGED <<authVars, updVars, actVars, kafkaVars>>

KafkaStep ==
  /\ KafkaConsume \/ KafkaFault \/ \E r \in Rid : DealPublish(r)
  /\ UNCHANGED <<commuVars, netVars, hostVars, authVars, updVars, actVars>>

Next ==
  \/ CommuStep \/ AuthStep \/ UpdateStep \/ ActiveStep \/ TimerStep
  \/ \E m \in Module : PostStep(m)
  \/ \E c \in Channel : SelectStep(c) \/ GiveUpStep(c)
  \/ \E h \in Host : HostStep(h)
  \/ KafkaStep

Spec == Init /\ [][Next]_vars
-----------------------------------------------------------------------------
\* A thread of aodc makes its next post or takes its next message; the select
\* loop goes on.  Only the threads that serve connections need to run.
ThreadFairness ==
  /\ WF_vars(CommuStep \/ PostStep("COMMU"))
  /\ WF_vars(AuthStep \/ PostStep("AUTH"))
  /\ WF_vars(\E c \in Channel : SelectStep(c))

ThreadSpec == Spec /\ ThreadFairness
=============================================================================
