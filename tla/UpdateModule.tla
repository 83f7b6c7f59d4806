---------------------------- MODULE UpdateModule ----------------------------
(***************************************************************************)
(* aodc/UpdateModule.cpp: routes between the controller, which knows       *)
(* resource ids, and the authenticated channels.  m_mapRuo finds the       *)
(* channel an update for an id goes to; m_mapCuo says on whose behalf a    *)
(* channel reports, and which channels are kept alive.                     *)
(***************************************************************************)
EXTENDS Dispatcher

CONSTANT MaxRound  \* bound: rounds of probes

ASSUME UpdateAssumption == MaxRound \in Nat

VARIABLES
  ruo,       \* m_mapRuo: rid -> channel
  cuo,       \* m_mapCuo: channel -> rid
  keepalive, \* channels the running OnTimer has still to send a probe to
  rounds     \* rounds of probes so far

routeVars == <<ruo, cuo>>
updVars == <<routeVars, keepalive, rounds>>

UpdTypeOK ==
  /\ ruo \in [Rid -> Channel \cup {None}]
  /\ cuo \in [Channel -> Rid \cup {None}]
  /\ keepalive \in SUBSET Channel
  /\ rounds \in 0 .. MaxRound

UpdInit ==
  /\ ruo = [r \in Rid |-> None]
  /\ cuo = [c \in Channel |-> None]
  /\ keepalive = {}
  /\ rounds = 0
-----------------------------------------------------------------------------
UpdReady(kind) == Ready("UPDATE", kind) /\ keepalive = {}

\* Mutant: the two names in the message are read in the wrong order.
OnAuthSucSwapped ==
  LET m == Current("UPDATE")
  IN  /\ UpdReady("AUTH_SUC")
      /\ ruo' = [ruo EXCEPT ![m.key] = m.key]
      /\ cuo' = [cuo EXCEPT ![m.ch] = m.ch]
      /\ Handle("UPDATE", <<>>)
      /\ UNCHANGED <<keepalive, rounds>>

\* OnAuthSuc: both maps get the pair; another channel of the same id only
\* causes a warning in the log.
OnAuthSuc ==
  LET m == Current("UPDATE")
  IN  /\ UpdReady("AUTH_SUC")
      /\ ruo' = [ruo EXCEPT ![m.key] = m.ch]
      /\ cuo' = [cuo EXCEPT ![m.ch] = m.key]
      /\ Handle("UPDATE", <<>>)
      /\ UNCHANGED <<keepalive, rounds>>

\* Mutant: the entry of m_mapRuo stays.
UpdForgetChannelOnly(c) ==
  /\ cuo' = [cuo EXCEPT ![c] = None]
  /\ UNCHANGED ruo

\* The channel's entry goes, and the entry of its id, whichever channel that
\* one names.
UpdForget(c) ==
  /\ ruo' = [r \in Rid |-> IF r = cuo[c] THEN None ELSE ruo[r]]
  /\ cuo' = [cuo EXCEPT ![c] = None]

UpdOnSendChannelDataFail ==
  /\ UpdReady("FAIL")
  /\ UpdForget(Current("UPDATE").ch)
  /\ Handle("UPDATE", <<>>)
  /\ UNCHANGED <<keepalive, rounds>>

UpdOnChannelFreed ==
  /\ UpdReady("FREED")
  /\ UpdForget(Current("UPDATE").ch)
  /\ Handle("UPDATE", <<>>)
  /\ UNCHANGED <<keepalive, rounds>>

\* OnRecvFromKafka: an update for an id without a route is dropped.
OnUpdateFromKafka ==
  LET m == Current("UPDATE")
  IN  /\ UpdReady("RCVKAFKA")
      /\ Handle("UPDATE",
           IF ruo[m.key] = None THEN <<>>
           ELSE <<To("COMMU", Frame("SEND", ruo[m.key], "UMI", m.key))>>)
      /\ UNCHANGED updVars

\* OnRecvAodsData: a report is passed on under the id of its channel; one from
\* a channel without an entry is unauthenticated and ignored.
OnRecvAodsData ==
  LET m == Current("UPDATE")
  IN  /\ UpdReady("RECV")
      /\ Handle("UPDATE",
           IF cuo[m.ch] = None THEN <<>>
           ELSE <<To("KAFKA", Json("SND2KAFKA",
                    IF m.body = "UMI" THEN "check_update" ELSE "update_result",
                    cuo[m.ch]))>>)
      /\ UNCHANGED updVars

\* OnTimer, every 50 seconds: a probe to each channel of m_mapCuo.
OnTimer ==
  /\ out["UPDATE"] = <<>>
  /\ keepalive = {}
  /\ rounds < MaxRound
  /\ \E c \in Channel : cuo[c] # None
  /\ keepalive' = {c \in Channel : cuo[c] # None}
  /\ rounds' = rounds + 1
  /\ UNCHANGED <<routeVars, busVars>>

SendKeepAlive(c) ==
  /\ c \in keepalive
  /\ keepalive' = keepalive \ {c}
  /\ PostMsg("COMMU", Frame("SEND", c, "KEEPALIVE", None))
  /\ UNCHANGED <<routeVars, rounds>>

UpdateHandler ==
  \/ OnAuthSuc \/ UpdOnSendChannelDataFail \/ UpdOnChannelFreed
  \/ OnUpdateFromKafka \/ OnRecvAodsData
  \/ \E c \in Channel : SendKeepAlive(c)
=============================================================================
