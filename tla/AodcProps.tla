----------------------------- MODULE AodcProps -----------------------------
(***************************************************************************)
(* What the modules of aodc promise together.  Each keeps a map of its own *)
(* about the same channels and learns of a channel's end at a moment of    *)
(* its own, so most of what follows relates one module's map to the life   *)
(* of the channel or to the messages still on their way.                   *)
(***************************************************************************)
EXTENDS Aodc

\* A message to module m, in its queue or about to be posted by module s.
Coming(s, m, msg) ==
  \/ \E i \in DOMAIN queue[m] : queue[m][i] = msg
  \/ \E i \in DOMAIN out[s] : out[s][i] = To(m, msg)

\* Module m is going to be told that channel c is gone or cannot be written.
ReleaseComing(m, c) ==
  Coming("COMMU", m, Notice("FREED", c)) \/ Coming("COMMU", m, Notice("FAIL", c))

\* Something is going to be sent to channel c, and will fail if c is gone.
SendComing(s, c) ==
  \/ \E i \in DOMAIN queue["COMMU"] :
       queue["COMMU"][i].kind = "SEND" /\ queue["COMMU"][i].ch = c
  \/ \E i \in DOMAIN out[s] : out[s][i].msg.kind = "SEND" /\ out[s][i].msg.ch = c

MachineOf(c) == {h \in Host : cur[h] = c}
-----------------------------------------------------------------------------
(* Authentication.                                                         *)

\* m_mapRC and m_mapCR of the authentication module are inverse to each other:
\* its handlers for a lost channel find the id by the channel and erase both
\* entries, and an id whose reverse entry is missing would stay bound for ever.
OwnerMapsInverse == \A r \in Rid, c \in Channel : rcCh[r] = c <=> cr[c] = r

\* No resource id is locked out: the channel it is bound to lives, or the
\* release of that channel is on its way to the authentication module.  A
\* binding may be made after the channel has gone, since the request and the
\* release come from different threads.
NoLockout ==
  \A r \in Rid, c \in Channel :
    rcCh[r] = c => c \in mapAC \/ ReleaseComing("AUTH", c)

\* A channel holds an id only for a machine whose data carry that id.
OwnerHasRid ==
  \A r \in Rid : rcCh[r] # None =>
    \A h \in MachineOf(rcCh[r]) : h \in Aods /\ RidOf[h] = r

\* The holder of an id is displaced only by its own end: a clone, and even the
\* same machine on a new connection, never takes an id over in one step.
OwnerKeptUntilReleased ==
  [][\A r \in Rid :
       rcCh[r] # None /\ rcCh'[r] # rcCh[r]
         => /\ rcCh'[r] = None
            /\ Ready("AUTH", "FREED") \/ Ready("AUTH", "FAIL")
            /\ Current("AUTH").ch = rcCh[r]]_vars

\* A binding that stands in the way is released: that of a connection the other
\* end has closed, and that of a half-open connection, of which aodc gets no
\* sign, once the same machine asks again on another connection ("both channels
\* are disconnected, wait for the client to reconnect").
BindingReleased ==
  LET AsksAgain(r, c) ==
        \E i \in DOMAIN queue["AUTH"] :
          LET m == queue["AUTH"][i]
          IN  m.body = "AUTH" /\ m.key = r /\ m.ch # c /\ m.ip = rcIp[r]
  IN  \A r \in Rid, c \in Channel :
        (rcCh[r] = c /\ (peer[c] = "fin" \/ AsksAgain(r, c))) ~> (rcCh[r] # c)

\* No request for authentication is forgotten while kafka loses nothing: a
\* machine that waits for its answer has its request, the verdict for its id
\* or an answer still on the way, or aodc ends its connection.  The verdict
\* names the id only, so it has to find the id bound to that connection.
NeverForgotten ==
  faults = 0 =>
    \A h \in Aods, c \in Channel : cur[h] = c /\ hst[h] = "conn" =>
      \/ wire[c] # <<>> \/ inbox[c] # <<>> \/ sock[c] = "closed"
      \/ SendComing("AUTH", c) \/ Coming("AUTH", "COMMU", Notice("FREE", c))
      \/ \E i \in DOMAIN queue["AUTH"] :
           queue["AUTH"][i].kind = "RECV" /\ queue["AUTH"][i].ch = c
      \/ /\ rcCh[RidOf[h]] = c
         /\ \E m \in {"KAFKA", "AUTH"} : \E i \in DOMAIN queue[m] :
              /\ queue[m][i].body \in {"auth", "auth_ack", "auth_nak"}
              /\ queue[m][i].key = RidOf[h]
-----------------------------------------------------------------------------
(* Routes of the update module.                                            *)

\* An entry of m_mapRuo names a channel whose own entry names the id.
RouteSound == \A r \in Rid, c \in Channel : ruo[r] = c => cuo[c] = r

\* An update is never written to the connection of a machine of another id.
PushToRightHost ==
  \A c \in Channel : \A i \in DOMAIN inbox[c] :
    inbox[c][i].body = "UMI" =>
      \A h \in MachineOf(c) : h \in Aods /\ RidOf[h] = inbox[c][i].key

\* Only machines of ids the controller accepts get a route, and only they are
\* told that they are authenticated.
OnlyAccepted ==
  \A c \in Channel :
    /\ cuo[c] # None => cuo[c] \in Registered
    /\ \A i \in DOMAIN inbox[c] :
         inbox[c][i].body = "AUTH_SUC" => inbox[c][i].key \in Registered

\* An entry of m_mapCuo for a channel that is gone does not last: the release
\* is on its way, or the answer to the host is, whose sending will fail.  It
\* is the second that covers an entry made after the release was handled, and
\* only because the entry is announced before the answer is sent.
StaleRouteHeals ==
  \A c \in Channel : cuo[c] # None =>
    c \in mapAC \/ ReleaseComing("UPDATE", c) \/ SendComing("AUTH", c)

\* m_mapRuo and m_mapCuo hold the same update objects, one by resource id and
\* one by channel: while a channel reports for an id, the id has a route.
RouteComplete ==
  \A c \in Channel : cuo[c] # None => ruo[cuo[c]] # None
-----------------------------------------------------------------------------
(* Activation.                                                             *)

\* m_mapCu and m_mapUai of the activation module are inverse: the handler of
\* the controller's answer dereferences what it finds in m_mapCu unchecked, and
\* that of a lost channel erases what it finds in m_mapUai unchecked.
RequestMapsInverse == \A u \in Uuid, c \in Channel : uai[u] = c <=> cu[c] = u

\* A request is answered once at most, whatever the controller repeats.
AnsweredOnce ==
  \A c \in Channel :
    LET Answers(s, msg(_)) ==
          {i \in DOMAIN s : msg(s[i]).ch = c /\ msg(s[i]).body \in {"ACTV_SUC", "ACTV_ERR"}}
        Self(m) == m
        MsgOf(p) == p.msg
    IN  Cardinality(Answers(queue["COMMU"], Self))
        + Cardinality(Answers(out["ACTIVE"], MsgOf))
        + Cardinality(Answers(inbox[c], Self)) <= 1

\* While kafka loses nothing, a machine that has stored its activation is known
\* to the controller before anything else it may ask: its code is stored or is
\* on the way, ahead of any request for authentication.
ActivatedIsReported ==
  faults = 0 =>
    \A h \in Install : act[h] # None =>
      \/ act[h] \in reported
      \/ \E i \in DOMAIN queue["KAFKA"] :
           queue["KAFKA"][i].body = "active_suc" /\ queue["KAFKA"][i].key = act[h]
=============================================================================
