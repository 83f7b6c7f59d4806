-------------------------- MODULE AodsActiveModule --------------------------
(***************************************************************************)
(* aodc/AodsActiveModule.cpp: activation of a new host by install.         *)
(*                                                                         *)
(* A request gets a uuid under which the controller answers it.  The       *)
(* resource id the controller allots with its answer is unique to the      *)
(* request, so it is written as the uuid here; so is the activation code,  *)
(* a function of the resource id and of what the host sent.                *)
(***************************************************************************)
EXTENDS Dispatcher

VARIABLES
  ca,     \* channels with an address in m_mapCA
  cu,     \* m_mapCu: channel -> uuid of its request
  uai,    \* m_mapUai: uuid -> channel
  issued  \* uuids CAoHelper::GetUuid has produced

actVars == <<ca, cu, uai, issued>>

ActTypeOK ==
  /\ ca \in SUBSET Channel
  /\ cu \in [Channel -> Uuid \cup {None}]
  /\ uai \in [Uuid -> Channel \cup {None}]
  /\ issued \in SUBSET Uuid

ActInit ==
  /\ ca = {}
  /\ cu = [c \in Channel |-> None]
  /\ uai = [u \in Uuid |-> None]
  /\ issued = {}
-----------------------------------------------------------------------------
\* OnChannelBuilded: remember the address of every channel, whatever it is
\* going to be used for.
OnChannelBuilded ==
  /\ Ready("ACTIVE", "BUILDED")
  /\ ca' = ca \cup {Current("ACTIVE").ch}
  /\ Handle("ACTIVE", <<>>)
  /\ UNCHANGED <<cu, uai, issued>>

\* OnRecvAodsChannel: file the request under a new uuid and pass it on; without
\* an address for the channel the host is answered "busy" instead.
OnActiveRequest ==
  LET c == Current("ACTIVE").ch
  IN  /\ Ready("ACTIVE", "RECV")
      /\ IF c \in ca
         THEN \E u \in Uuid \ issued :
                /\ uai' = [uai EXCEPT ![u] = c]
                /\ cu' = [cu EXCEPT ![c] = u]
                /\ issued' = issued \cup {u}
                /\ Handle("ACTIVE",
                          <<To("KAFKA", Json("SND2KAFKA", "active", u))>>)
         ELSE /\ Handle("ACTIVE",
                        <<To("COMMU", Frame("SEND", c, "ACTV_ERR", None))>>)
              /\ UNCHANGED <<cu, uai, issued>>
      /\ UNCHANGED ca

\* Mutant: the host is answered before the controller is told.
ResultHostFirst(m, c) ==
  (IF m.body = "active_ack"
   THEN <<To("COMMU", Frame("SEND", c, "ACTV_SUC", m.key)),
          To("KAFKA", Json("SND2KAFKA", "active_suc", m.key))>>
   ELSE <<To("COMMU", Frame("SEND", c, "ACTV_ERR", None))>>)
  \o <<To("COMMU", Notice("FREE", c))>>

\* What the handler posts on an answer for the request of channel c.
Result(m, c) ==
  (IF m.body = "active_ack"
   THEN <<To("KAFKA", Json("SND2KAFKA", "active_suc", m.key)),
          To("COMMU", Frame("SEND", c, "ACTV_SUC", m.key))>>
   ELSE <<To("COMMU", Frame("SEND", c, "ACTV_ERR", None))>>)
  \o <<To("COMMU", Notice("FREE", c))>>

\* Mutant: the request stays on file.
OnActiveAckKeep ==
  LET m == Current("ACTIVE")
      c == uai[m.key]
  IN  /\ Ready("ACTIVE", "RCVKAFKA")
      /\ c # None
      /\ Handle("ACTIVE", Result(m, c))
      /\ ca' = ca \ {c}
      /\ UNCHANGED <<cu, uai, issued>>

\* OnRecvFromKafka: answer the host, on success after telling the controller
\* the activation code; then forget the request and disconnect.
OnActiveAck ==
  LET m == Current("ACTIVE")
      c == uai[m.key]
  IN  /\ Ready("ACTIVE", "RCVKAFKA")
      /\ c # None
      /\ Handle("ACTIVE", Result(m, c))
      /\ ca' = ca \ {c}
      /\ cu' = [cu EXCEPT ![c] = None]
      /\ uai' = [uai EXCEPT ![m.key] = None]
      /\ UNCHANGED issued

\* OnRecvFromKafka: the request is gone, the answer is out of date.
OnActiveAckStale ==
  /\ Ready("ACTIVE", "RCVKAFKA")
  /\ uai[Current("ACTIVE").key] = None
  /\ Handle("ACTIVE", <<>>)
  /\ UNCHANGED actVars

\* OnSendChannelDataFail: for every channel, not only those in its maps, this
\* module asks for the disconnection.
ActOnSendChannelDataFail ==
  /\ Ready("ACTIVE", "FAIL")
  /\ Handle("ACTIVE", <<To("COMMU", Notice("FREE", Current("ACTIVE").ch))>>)
  /\ UNCHANGED actVars

\* Mutant: the request stays on file under its uuid.
ActForgetChannelOnly ==
  LET c == Current("ACTIVE").ch
  IN  /\ Ready("ACTIVE", "FREED")
      /\ ca' = IF cu[c] = None THEN ca ELSE ca \ {c}
      /\ cu' = [cu EXCEPT ![c] = None]
      /\ Handle("ACTIVE", <<>>)
      /\ UNCHANGED <<uai, issued>>

\* OnChannelFreed: forget the request of the channel and its address.  A
\* channel without a request returns early.
ActOnChannelFreed ==
  LET c == Current("ACTIVE").ch
  IN  /\ Ready("ACTIVE", "FREED")
      /\ ca' = IF cu[c] = None THEN ca ELSE ca \ {c}
      /\ uai' = [u \in Uuid |-> IF u = cu[c] THEN None ELSE uai[u]]
      /\ cu' = [cu EXCEPT ![c] = None]
      /\ Handle("ACTIVE", <<>>)
      /\ UNCHANGED issued

ActiveHandler ==
  \/ OnChannelBuilded \/ OnActiveRequest \/ OnActiveAck
  \/ OnActiveAckStale
  \/ ActOnSendChannelDataFail \/ ActOnChannelFreed
=============================================================================
