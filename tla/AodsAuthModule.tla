--------------------------- MODULE AodsAuthModule ---------------------------
(***************************************************************************)
(* aodc/AodsAuthModule.cpp: authentication of the hosts that connect.      *)
(*                                                                         *)
(* m_mapRC gives the channel and the addresses under which a resource id   *)
(* is (being) authenticated; it is what refuses a second machine with the  *)
(* same id.  m_mapCR is its reverse.  The verdict itself comes from the    *)
(* controller, through kafka, and names the resource id only.              *)
(***************************************************************************)
EXTENDS Dispatcher

VARIABLES
  rcCh,  \* m_mapRC[rid].strChannelName
  rcIp,  \* m_mapRC[rid].unIpAddr
  cr     \* m_mapCR: channel -> rid

authVars == <<rcCh, rcIp, cr>>

AuthTypeOK ==
  /\ rcCh \in [Rid -> Channel \cup {None}]
  /\ rcIp \in [Rid -> Ip \cup {None}]
  /\ cr \in [Channel -> Rid \cup {None}]

AuthInit ==
  /\ rcCh = [r \in Rid |-> None]
  /\ rcIp = [r \in Rid |-> None]
  /\ cr = [c \in Channel |-> None]
-----------------------------------------------------------------------------
Free(c) == To("COMMU", Notice("FREE", c))
Send(c, body, key) == To("COMMU", Frame("SEND", c, body, key))
ToKafka(body, key) == To("KAFKA", Json("SND2KAFKA", body, key))

AuthRequest(bodies) ==
  /\ Ready("AUTH", "RECV")
  /\ Current("AUTH").body \in bodies

\* OnRecvAodsMsg: the activation code does not match the host's data.
RejectCode ==
  /\ AuthRequest({"AUTH_BADCODE"})
  /\ Handle("AUTH", <<Free(Current("AUTH").ch)>>)
  /\ UNCHANGED authVars

\* OnRecvAodsMsg: the id is bound to a channel of a machine with other
\* addresses, "possibly a clone": refused, the holder is left alone.
RejectOther ==
  LET m == Current("AUTH")
  IN  /\ AuthRequest({"AUTH"})
      /\ rcCh[m.key] # None
      /\ rcIp[m.key] # m.ip
      /\ Handle("AUTH", <<Send(m.ch, "AUTH_DIF", m.key), Free(m.ch)>>)
      /\ UNCHANGED authVars

\* Mutant: only the connection just made is freed.
DropNew ==
  LET m == Current("AUTH")
  IN  /\ AuthRequest({"AUTH"})
      /\ rcCh[m.key] # None
      /\ rcIp[m.key] = m.ip
      /\ Handle("AUTH", <<Free(m.ch)>>)
      /\ UNCHANGED authVars

\* Mutant: only the connection that holds the id is freed.
DropHolder ==
  LET m == Current("AUTH")
  IN  /\ AuthRequest({"AUTH"})
      /\ rcCh[m.key] # None
      /\ rcIp[m.key] = m.ip
      /\ Handle("AUTH", <<Free(rcCh[m.key])>>)
      /\ UNCHANGED authVars

\* OnRecvAodsMsg: same machine on a second channel, the first one perhaps not
\* yet noticed dead: both are told to disconnect and the host will retry.
DropBoth ==
  LET m == Current("AUTH")
  IN  /\ AuthRequest({"AUTH"})
      /\ rcCh[m.key] # None
      /\ rcIp[m.key] = m.ip
      /\ Handle("AUTH", <<Free(rcCh[m.key]), Free(m.ch)>>)
      /\ UNCHANGED authVars

\* Mutant: whoever asks last gets the id.
BindAlways ==
  LET m == Current("AUTH")
  IN  /\ AuthRequest({"AUTH"})
      /\ rcCh' = [rcCh EXCEPT ![m.key] = m.ch]
      /\ rcIp' = [rcIp EXCEPT ![m.key] = m.ip]
      /\ cr' = [cr EXCEPT ![m.ch] = m.key]
      /\ Handle("AUTH", <<ToKafka("auth", m.key)>>)

\* OnRecvAodsMsg: bind the id to the channel and ask the controller.
BindChannel ==
  LET m == Current("AUTH")
  IN  /\ AuthRequest({"AUTH"})
      /\ rcCh[m.key] = None
      /\ rcCh' = [rcCh EXCEPT ![m.key] = m.ch]
      /\ rcIp' = [rcIp EXCEPT ![m.key] = m.ip]
      /\ cr' = [cr EXCEPT ![m.ch] = m.key]
      /\ Handle("AUTH", <<ToKafka("auth", m.key)>>)

\* Mutant: the host is answered before its route is announced.
AnswerFirst ==
  LET m == Current("AUTH")
      c == rcCh[m.key]
  IN  /\ Ready("AUTH", "RCVKAFKA")
      /\ Handle("AUTH",
           IF c = None THEN <<>>
           ELSE IF m.body = "auth_ack"
           THEN <<Send(c, "AUTH_SUC", m.key),
                  To("UPDATE", Frame("AUTH_SUC", c, "-", m.key))>>
           ELSE <<Send(c, "AUTH_FAI", m.key)>>)
      /\ UNCHANGED authVars

\* Mutant: the route is announced whatever the verdict.
AnnounceAny ==
  LET m == Current("AUTH")
      c == rcCh[m.key]
  IN  /\ Ready("AUTH", "RCVKAFKA")
      /\ Handle("AUTH",
           IF c = None THEN <<>>
           ELSE <<To("UPDATE", Frame("AUTH_SUC", c, "-", m.key)),
                  Send(c, IF m.body = "auth_ack" THEN "AUTH_SUC" ELSE "AUTH_FAI",
                       m.key)>>)
      /\ UNCHANGED authVars

\* OnRecvFromKafka: the controller's verdict goes to whichever channel the id
\* is bound to now.  A good one is announced to the update module first.
OnAuthAck ==
  LET m == Current("AUTH")
      c == rcCh[m.key]
  IN  /\ Ready("AUTH", "RCVKAFKA")
      /\ Handle("AUTH",
           IF c = None THEN <<>>
           ELSE IF m.body = "auth_ack"
           THEN <<To("UPDATE", Frame("AUTH_SUC", c, "-", m.key)),
                  Send(c, "AUTH_SUC", m.key)>>
           ELSE <<Send(c, "AUTH_FAI", m.key)>>)
      /\ UNCHANGED authVars

\* Mutant: the entry of m_mapRC stays.
ForgetChannelOnly(c) ==
  /\ cr' = [cr EXCEPT ![c] = None]
  /\ UNCHANGED <<rcCh, rcIp>>

\* Both maps forget channel c and the id it is bound to.
AuthForget(c) ==
  /\ rcCh' = [r \in Rid |-> IF r = cr[c] THEN None ELSE rcCh[r]]
  /\ rcIp' = [r \in Rid |-> IF r = cr[c] THEN None ELSE rcIp[r]]
  /\ cr' = [cr EXCEPT ![c] = None]

AuthOnSendChannelDataFail ==
  /\ Ready("AUTH", "FAIL")
  /\ AuthForget(Current("AUTH").ch)
  /\ Handle("AUTH", <<>>)

AuthOnChannelFreed ==
  /\ Ready("AUTH", "FREED")
  /\ AuthForget(Current("AUTH").ch)
  /\ Handle("AUTH", <<>>)

AuthHandler ==
  \/ RejectCode \/ RejectOther \/ DropBoth \/ BindChannel \/ OnAuthAck
  \/ AuthOnSendChannelDataFail \/ AuthOnChannelFreed
=============================================================================
