----------------------------- MODULE KafkaLink -----------------------------
(***************************************************************************)
(* What lies beyond the kafka module of aodc: its producer, the topics     *)
(* deploy_u and deploy_d, the controller DeployCtrl.py, and the consumer   *)
(* thread that broadcasts what comes back.  Each topic has one partition,  *)
(* so the whole way up and down is one FIFO, queue["KAFKA"]; the           *)
(* controller answers its head.                                            *)
(*                                                                         *)
(* A message may be lost (a producer gives up; aodc consumes from the end  *)
(* of the topic; the controller swallows the exceptions of its handlers)   *)
(* and an answer repeated (both producers retry).                          *)
(***************************************************************************)
EXTENDS Dispatcher

CONSTANTS
  Registered,  \* resource ids the controller accepts
  MaxFault,    \* bound: messages lost or answers repeated
  MaxPublish   \* bound: updates pushed by a publication

ASSUME KafkaAssumption ==
  /\ Registered \subseteq Rid
  /\ MaxFault \in Nat
  /\ MaxPublish \in Nat

VARIABLES
  reported,  \* activations whose code the controller has stored
  faults,    \* messages lost or answers repeated so far
  published  \* updates pushed so far

kafkaVars == <<reported, faults, published>>

KafkaTypeOK ==
  /\ reported \in SUBSET Uuid
  /\ faults \in 0 .. MaxFault
  /\ published \in 0 .. MaxPublish

KafkaInit ==
  /\ reported = {}
  /\ faults = 0
  /\ published = 0
-----------------------------------------------------------------------------
Request(body) ==
  /\ queue["KAFKA"] # <<>>
  /\ Current("KAFKA").body = body

\* The consumer thread broadcasts an answer; one module acts on it.  rest is
\* what remains of the way.
Answer(m, body, rest) ==
  /\ queue' = [queue EXCEPT !["KAFKA"] = rest,
                 ![m] = Append(@, Json("RCVKAFKA", body, Current("KAFKA").key))]
  /\ UNCHANGED out

Consume ==
  /\ queue' = [queue EXCEPT !["KAFKA"] = Tail(@)]
  /\ UNCHANGED out

\* DeployCtrl.__dealAuthen
DealAuthen(rest) ==
  /\ Request("auth")
  /\ Answer("AUTH",
       IF Current("KAFKA").key \in Registered THEN "auth_ack" ELSE "auth_nak",
       rest)

\* DeployCtrl.__dealActive.  The ack code is 0 there; aodc takes any.
DealActive(rest) ==
  /\ Request("active")
  /\ \E body \in {"active_ack", "active_nak"} : Answer("ACTIVE", body, rest)

\* DeployCtrl.__dealUpdateCheck: an update when the versions differ.
DealUpdateCheck(rest) ==
  /\ Request("check_update")
  /\ Answer("UPDATE", "update", rest)

KafkaAnswer ==
  /\ LET rest == Tail(queue["KAFKA"])
     IN  DealAuthen(rest) \/ DealActive(rest) \/ DealUpdateCheck(rest)
  /\ UNCHANGED kafkaVars

\* The answer is repeated: the request counts as still to be answered.
KafkaRepeat ==
  /\ faults < MaxFault
  /\ faults' = faults + 1
  /\ LET rest == queue["KAFKA"]
     IN  DealAuthen(rest) \/ DealActive(rest) \/ DealUpdateCheck(rest)
  /\ UNCHANGED <<reported, published>>

KafkaLose ==
  /\ faults < MaxFault
  /\ faults' = faults + 1
  /\ queue["KAFKA"] # <<>>
  /\ Consume
  /\ UNCHANGED <<reported, published>>

\* No update is due: DeployCtrl.__dealUpdateCheck finds the versions equal.
UpToDate ==
  /\ Request("check_update")
  /\ Consume
  /\ UNCHANGED kafkaVars

\* DeployCtrl.__dealActiveSuc stores the code; __dealUpdateResult only logs.
DealActiveSuc ==
  /\ Request("active_suc")
  /\ Consume
  /\ reported' = reported \cup {Current("KAFKA").key}
  /\ UNCHANGED <<faults, published>>

DealUpdateResult ==
  /\ Request("update_result")
  /\ Consume
  /\ UNCHANGED kafkaVars

\* DeployCtrl.__dealPublish: an update for every id it knows.
DealPublish(r) ==
  /\ published < MaxPublish
  /\ r \in Registered
  /\ published' = published + 1
  /\ PostMsg("UPDATE", Json("RCVKAFKA", "update", r))
  /\ UNCHANGED <<reported, faults>>

KafkaConsume == KafkaAnswer \/ UpToDate \/ DealActiveSuc \/ DealUpdateResult
KafkaFault == KafkaRepeat \/ KafkaLose
=============================================================================
