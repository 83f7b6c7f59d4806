---------------------------- MODULE AodcAnswers ----------------------------
(***************************************************************************)
(* What the controller decides reaches the right machine, once.            *)
(*                                                                         *)
(* A good verdict names an id the controller has registered wherever it    *)
(* is: in a queue, in a post, at the host, as a route.  A request for      *)
(* activation is in one place at a time: on the wire, in the queue of the  *)
(* activation module, on file, and then its answer, about to be posted,    *)
(* posted, at the host.  So a channel has one request on file, the maps    *)
(* that file it stay inverse, and no answer is given twice.                *)
(*                                                                         *)
(* While kafka loses nothing, a host is told its activation only after the *)
(* controller is, and no request for authentication is forgotten: the id   *)
(* it names stays bound to the connection it came over, until it is        *)
(* answered or the connection is closed.                                   *)
(***************************************************************************)
EXTENDS AodcRelease, FiniteSetTheorems

\* Good verdicts about ids that are not registered.
Forged ==
  {m \in Msg :
     /\ \/ m.kind = "AUTH_SUC"
        \/ m.kind = "SEND" /\ m.body = "AUTH_SUC"
        \/ m.kind = "RCVKAFKA" /\ m.body = "auth_ack"
     /\ m.key \notin Registered}

Genuine ==
  /\ \A m \in Module : Lacks(queue[m], Forged)
  /\ \A i \in DOMAIN out["AUTH"] : out["AUTH"][i].msg \notin Forged
  /\ \A c \in Channel : /\ Lacks(inbox[c], Forged)
                        /\ cuo[c] # None => cuo[c] \in Registered
-----------------------------------------------------------------------------
(* The way of a request for activation. *)

\* A request and the answers to that of channel c, as messages and as posts.
Actv == {m \in Msg : m.body = "ACTV"}

Replies(c) == {m \in Msg : m.ch = c /\ ActvFrame(m)}

ReplyPosts(c) == {p \in Post : p.msg \in Replies(c)}

Places == {"wire", "queue", "file", "post", "commu", "host"}

\* The request of channel c, or its answer, is in place p.
At(p, c) ==
  CASE p = "wire"  -> ~Lacks(wire[c], Actv)
    [] p = "queue" -> ~Lacks(queue["ACTIVE"], Asks(c))
    [] p = "file"  -> cu[c] # None
    [] p = "post"  -> ~Lacks(out["ACTIVE"], ReplyPosts(c))
    [] p = "commu" -> ~Lacks(queue["COMMU"], Replies(c))
    [] p = "host"  -> ~Lacks(inbox[c], Replies(c))

\* It is there once.
Single(c) ==
  /\ Once(wire[c], Actv) /\ Once(queue["ACTIVE"], Asks(c))
  /\ Once(out["ACTIVE"], ReplyPosts(c)) /\ Once(queue["COMMU"], Replies(c))
  /\ Once(inbox[c], Replies(c))

\* And nowhere else.
OnePlace(c) == \E s \in Places : \A p \in Places : At(p, c) => p = s

OneRequest(c) ==
  Single(c) /\ OnePlace(c) /\ (c >= ullIndex => \A p \in Places : ~At(p, c))

\* Uuids are used once.
FiledOnce ==
  /\ RequestMapsInverse
  /\ \A u \in Uuid : u \notin issued => uai[u] = None

Filed == FiledOnce /\ \A c \in Channel : OneRequest(c)
-----------------------------------------------------------------------------
(* The way of the code to the controller. *)

\* The controller knows activation u, or is going to be told.
Tells(u) == {m \in Msg : m.body = "active_suc" /\ m.key = u}

Told(u) == u \in reported \/ ~Lacks(queue["KAFKA"], Tells(u))

\* A good answer is told to the controller before it is given.
Early == {m \in Msg : ActvFrame(m) /\ m.key # None /\ ~Told(m.key)}

ReportFirst ==
  faults = 0 =>
    /\ \A i \in DOMAIN out["ACTIVE"] : out["ACTIVE"][i].msg \notin Early
    /\ Lacks(queue["COMMU"], Early)
    /\ \A c \in Channel : Lacks(inbox[c], Early)
    /\ \A h \in Install : act[h] # None => Told(act[h])
-----------------------------------------------------------------------------
(* Steps seen from the queues. *)

\* What every module but the activation module adds to a queue is no answer to
\* a request; what every one but the authentication module adds is no verdict.
Silent == {m \in Inner : ~ActvFrame(m)}

Sincere == Inner \ Forged

\* The modules' mail.
LEMMA MailIsSilent ==
  /\ \A m \in Module : m # "ACTIVE" => MailOf(m) \subseteq Silent
  /\ \A m \in Module : m # "AUTH" => MailOf(m) \subseteq Sincere
  /\ \A m \in Module : \A p \in LaterPost(m) : p.msg \in MailOf(m)
  /\ Answers \subseteq Silent /\ Answers \subseteq Sincere
<1>1. \A p \in GoodPost : p.msg \in Msg
  BY DEF GoodPost, Post
<1>2. \A m \in Module : m # "ACTIVE" => MailOf(m) \subseteq Silent
  BY <1>1 DEF MailOf, MayPost, Outside, Inner, Silent
<1>3. \A m \in Module : m # "AUTH" => MailOf(m) \subseteq Sincere
  BY <1>1 DEF MailOf, MayPost, Outside, Inner, Sincere, Forged
<1>4. \A m \in Module : \A p \in LaterPost(m) : p.msg \in MailOf(m)
  BY DEF MailOf, LaterPost
<1>5. Answers \subseteq Silent /\ Answers \subseteq Sincere
  BY DEF Answers, Silent, Sincere, Inner, Forged, ActvFrame
<1> QED BY <1>2, <1>3, <1>4, <1>5

LEMMA SincereIsGenuine == Sincere \cap Forged = {}
BY DEF Sincere

\* Every queue may lose its head and get a message of E.
AllGet(E) == \A n \in Module : Gets(n, E)

LEMMA CommuStepGets ==
  ASSUME Typed, PostsAllowed, CommuStep
  PROVE  AllGet(Silent) /\ AllGet(Sincere) /\ \A n \in Module : n # "COMMU" => out'[n] = out[n]
<1>1. TypedBus /\ "COMMU" \in Module
  BY DEF Typed, Module
<1> QED BY <1>1, CommuActs, ActsGets, MailIsSilent DEF AllGet, Gets

LEMMA AuthStepGets ==
  ASSUME Typed, PostsAllowed, AuthStep
  PROVE  AllGet(Silent) /\ \A n \in Module : n # "AUTH" => out'[n] = out[n]
<1>1. TypedBus /\ "AUTH" \in Module
  BY DEF Typed, Module
<1> QED BY <1>1, AuthActs, ActsGets, MailIsSilent DEF AllGet, Gets

LEMMA UpdateStepGets ==
  ASSUME Typed, PostsAllowed, UpdateStep
  PROVE  AllGet(Silent) /\ AllGet(Sincere) /\ \A n \in Module : n # "UPDATE" => out'[n] = out[n]
<1>1. TypedBus /\ "UPDATE" \in Module /\ "COMMU" \in Module
  BY DEF Typed, Module
<1>2. CASE \A c \in Channel : ~SendKeepAlive(c)
  <2>1. Acts("UPDATE")
    BY <1>2, UpdateActs
  <2>2. /\ \A n \in Module : Gets(n, MailOf("UPDATE"))
        /\ \A n \in Module : n # "UPDATE" => out'[n] = out[n]
    BY <1>1, <2>1, ActsGets
  <2>3. MailOf("UPDATE") \subseteq Silent /\ MailOf("UPDATE") \subseteq Sincere
    BY <1>1, MailIsSilent
  <2> QED BY <2>2, <2>3 DEF AllGet, Gets
<1>3. ASSUME NEW c \in Channel, SendKeepAlive(c)
      PROVE  AllGet(Silent) /\ AllGet(Sincere) /\ out' = out
  <2> DEFINE f == Frame("SEND", c, "KEEPALIVE", None)
  <2>1. f \in Silent /\ f \in Sincere
    BY DEF Frame, Silent, Sincere, Forged, Inner, Msg, Kind, Body, ActvFrame
  <2>2. PostMsg("COMMU", f)
    BY <1>3 DEF SendKeepAlive
  <2> HIDE DEF f
  <2> QED BY <1>1, <2>1, <2>2, PostMsgGets DEF AllGet
<1>4. CASE \E c \in Channel : SendKeepAlive(c)
  <2>1. AllGet(Silent) /\ AllGet(Sincere) /\ out' = out
    BY <1>3, <1>4
  <2> QED BY <2>1
<1> QED BY <1>2, <1>4

LEMMA ActiveStepGets ==
  ASSUME Typed, PostsAllowed, ActiveStep
  PROVE  /\ AllGet(Sincere) /\ AllGet(Inner)
         /\ \A n \in Module : n # "ACTIVE" => out'[n] = out[n]
<1>1. TypedBus /\ "ACTIVE" \in Module
  BY DEF Typed, Module
<1>2. MailOf("ACTIVE") \subseteq Inner
  BY <1>1, MailIsInner
<1> QED BY <1>1, <1>2, ActiveActs, ActsGets, MailIsSilent DEF AllGet, Gets

LEMMA KafkaStepGets ==
  ASSUME Typed, PostsAllowed, KafkaStep
  PROVE  AllGet(Silent) /\ AllGet(Sincere) /\ out' = out
BY KafkaGets, MailIsSilent DEF AllGet, Gets

LEMMA PostStepGets ==
  ASSUME Typed, PostsAllowed, NEW m \in Module, PostStep(m)
  PROVE  /\ m # "ACTIVE" => AllGet(Silent)
         /\ m # "AUTH" => AllGet(Sincere)
         /\ \A n \in Module : n # m => out'[n] = out[n]
         /\ out'[m] = Tail(out[m]) /\ out[m] # <<>>
<1>1. TypedBus /\ Dispatch(m)
  BY DEF Typed, PostStep
<1>2. /\ \A n \in Module : Gets(n, MailOf(m))
      /\ out' = [out EXCEPT ![m] = Tail(out[m])]
  BY <1>1, DispatchGets
<1> QED BY <1>1, <1>2, MailIsSilent DEF AllGet, Gets, TypedBus, Dispatch
-----------------------------------------------------------------------------
(* Verdicts. *)

\* A step that adds no forged verdict to a queue and none to what is posted.
LEMMA GenuineKept ==
  ASSUME Typed, Genuine, NEW E, AllGet(E), E \cap Forged = {},
         out'["AUTH"] = out["AUTH"] \/ (out["AUTH"] # <<>> /\ out'["AUTH"] = Tail(out["AUTH"])),
         \A c \in Channel : Lacks(inbox'[c], Forged),
         \A c \in Channel : cuo'[c] # None => cuo'[c] \in Registered
  PROVE  Genuine'
<1>1. TypedBus /\ "AUTH" \in Module
  BY DEF Typed, Module
<1>2. \A m \in Module : Lacks(queue'[m], Forged)
  BY <1>1, GetsKeeps DEF Genuine, AllGet
<1>3. \A i \in DOMAIN out'["AUTH"] : out'["AUTH"][i].msg \notin Forged
  <2>1. out["AUTH"] \in Seq(GoodPost)
    BY <1>1 DEF TypedBus
  <2>2. out["AUTH"] # <<>> =>
          \A i \in DOMAIN Tail(out["AUTH"]) :
            i + 1 \in DOMAIN out["AUTH"] /\ Tail(out["AUTH"])[i] = out["AUTH"][i + 1]
    BY <2>1, TailAt
  <2> QED BY <2>2 DEF Genuine
<1> QED BY <1>2, <1>3 DEF Genuine

\* What a host is sent was in the queue of the communication module.
LEMMA CommuStepInbox ==
  ASSUME Typed, CommuStep, NEW c \in Channel
  PROVE  /\ queue["COMMU"] # <<>> /\ Current("COMMU") = queue["COMMU"][1]
         /\ 1 \in DOMAIN queue["COMMU"] /\ inbox[c] \in Seq(CommuMsg)
         /\ \/ inbox'[c] = inbox[c]
            \/ /\ Current("COMMU").ch = c /\ Current("COMMU").kind = "SEND"
               /\ inbox'[c] = Append(inbox[c], Current("COMMU"))
<1>1. TypedBus /\ queue["COMMU"] # <<>> /\ inbox \in [Channel -> Seq(CommuMsg)]
      /\ "COMMU" \in Module
  BY CommuActs DEF Acts, Typed, TypedNet, Module
<1>2. queue["COMMU"] \in Seq(Msg)
  BY <1>1 DEF TypedBus
<1>3. Current("COMMU") = queue["COMMU"][1] /\ 1 \in DOMAIN queue["COMMU"]
  BY <1>1, <1>2 DEF Current
<1>4. inbox[c] \in Seq(CommuMsg)
  BY <1>1
<1>5. CASE SendData2Channel
  <2>1. /\ Current("COMMU").kind = "SEND"
        /\ inbox' = [inbox EXCEPT ![Current("COMMU").ch] =
             IF peer[Current("COMMU").ch] = "up" THEN Append(@, Current("COMMU")) ELSE @]
    BY <1>5 DEF SendData2Channel, Ready
  <2> QED BY <1>1, <1>3, <1>4, <2>1
<1>6. CASE ~SendData2Channel
  BY <1>1, <1>3, <1>4, <1>6
     DEF CommuStep, CommuHandler, OnNewChannel, OnNewChannelFull, OnDelChannel,
         OnFreeChannel, SendDataFail, netVars
<1> QED BY <1>5, <1>6

\* Each step keeps the verdicts genuine.
LEMMA CommuStepGenuine ==
  ASSUME Typed, PostsAllowed, Genuine, CommuStep
  PROVE  Genuine'
<1>1. "COMMU" \in Module /\ "AUTH" \in Module /\ cuo' = cuo
  BY DEF Module, CommuStep, updVars, routeVars
<1>2. ASSUME NEW c \in Channel PROVE Lacks(inbox'[c], Forged)
  <2>1. Lacks(queue["COMMU"], Forged) /\ Lacks(inbox[c], Forged)
    BY <1>1 DEF Genuine
  <2>2. Current("COMMU") \notin Forged
    BY <2>1, CommuStepInbox DEF Lacks
  <2>3. CASE inbox'[c] = inbox[c]
    BY <2>1, <2>3
  <2>4. CASE inbox'[c] = Append(inbox[c], Current("COMMU"))
    <3>1. inbox[c] \in Seq(CommuMsg)
      BY CommuStepInbox
    <3>2. Lacks(Append(inbox[c], Current("COMMU")), Forged)
      BY <2>1, <2>2, <3>1, AppendKeeps
    <3> QED BY <2>4, <3>2
  <2> QED BY <2>3, <2>4, CommuStepInbox
<1>3. Sincere \cap Forged = {} /\ AllGet(Sincere) /\ out'["AUTH"] = out["AUTH"]
  BY <1>1, CommuStepGets, SincereIsGenuine
<1> QED BY <1>1, <1>2, <1>3, GenuineKept DEF Genuine

LEMMA AuthStepGenuine ==
  ASSUME Typed, PostsAllowed, Genuine, AuthStep
  PROVE  Genuine'
<1>1. /\ TypedBus /\ queue["AUTH"] # <<>> /\ UNCHANGED <<inbox, cuo>>
      /\ "AUTH" \in Module /\ "UPDATE" \in Module
  BY AuthPosts DEF Typed, Module, AuthStep, updVars, routeVars, netVars
<1>2. \A p \in QuietPost : p.msg \in Sincere
  <2>1. \A p \in GoodPost : p.msg \in Msg
    BY DEF GoodPost, Post
  <2> QED BY <2>1 DEF QuietPost, LaterPost, MayPost, Outside, Sincere, Inner, Forged
<1>3. ASSUME NEW posts \in Seq(QuietPost), Handle("AUTH", posts)
      PROVE  Genuine'
  <2>1. /\ \A n \in Module :
             queue'[n] = Left("AUTH", n)
             \/ (posts # <<>> /\ queue'[n] = Append(Left("AUTH", n), Head(posts).msg))
        /\ out' = out \/ (posts # <<>> /\ out' = [out EXCEPT !["AUTH"] = Tail(posts)])
    BY <1>1, <1>3, HandleEffect
  <2>2. posts # <<>> => Head(posts).msg \in Sincere /\ Tail(posts) \in Seq(QuietPost)
    BY <1>2
  <2>3. AllGet(Sincere)
    BY <1>1, <2>1, <2>2, LeftIs DEF AllGet, Gets
  <2>4. \A m \in Module : Lacks(queue'[m], Forged)
    <3>1. Sincere \cap Forged = {}
      BY DEF Sincere
    <3> QED BY <1>1, <2>3, <3>1, GetsKeeps DEF Genuine, AllGet
  <2>5. \A i \in DOMAIN out'["AUTH"] : out'["AUTH"][i].msg \notin Forged
    <3>1. CASE out' = out
      BY <3>1 DEF Genuine
    <3>2. CASE posts # <<>> /\ out' = [out EXCEPT !["AUTH"] = Tail(posts)]
      <4>1. out'["AUTH"] = Tail(posts) /\ Tail(posts) \in Seq(QuietPost)
        BY <1>1, <2>2, <3>2 DEF TypedBus
      <4>2. \A i \in DOMAIN Tail(posts) : Tail(posts)[i].msg \in Sincere
        BY <1>2, <4>1
      <4> QED BY <4>1, <4>2 DEF Sincere
    <3> QED BY <2>1, <3>1, <3>2
  <2> QED BY <1>1, <2>4, <2>5 DEF Genuine
<1>4. ASSUME NEW d \in Channel, NEW r \in Rid, Handle("AUTH", Accepted(d, r)),
             Current("AUTH").kind = "RCVKAFKA", Current("AUTH").body = "auth_ack",
             Current("AUTH").key = r
      PROVE  Genuine'
  <2>1. queue["AUTH"] \in Seq(Msg)
    BY <1>1 DEF TypedBus
  <2>2. Current("AUTH") \notin Forged /\ Current("AUTH") \in Msg
    BY <1>1, <2>1, TailAt DEF Current, Genuine, Lacks
  <2>3. r \in Registered
    BY <1>4, <2>2 DEF Forged
  <2> DEFINE e == Frame("AUTH_SUC", d, "-", r)
             p == Send(d, "AUTH_SUC", r)
  <2>4. e \notin Forged /\ p.msg \notin Forged
    BY <2>3 DEF Forged, Frame, Send, To
  <2>5. /\ queue'["UPDATE"] = Append(queue["UPDATE"], e)
        /\ queue'["AUTH"] = Tail(queue["AUTH"])
        /\ \A n \in Module \ {"AUTH", "UPDATE"} : queue'[n] = queue[n]
        /\ out' = [out EXCEPT !["AUTH"] = <<p>>]
    BY <1>1, <1>4, AcceptedEffect
  <2> HIDE DEF e, p
  <2>6. Lacks(Append(queue["UPDATE"], e), Forged) /\ Lacks(Tail(queue["AUTH"]), Forged)
    <3>1. queue["UPDATE"] \in Seq(Msg)
      BY <1>1 DEF TypedBus
    <3>2. Lacks(queue["UPDATE"], Forged) /\ Lacks(queue["AUTH"], Forged)
      BY <1>1 DEF Genuine
    <3>3. Lacks(Append(queue["UPDATE"], e), Forged)
      BY <2>4, <3>1, <3>2, AppendKeeps
    <3>4. Lacks(Tail(queue["AUTH"]), Forged)
      BY <1>1, <2>1, <3>2, TailKeeps
    <3> QED BY <3>3, <3>4
  <2>7. \A m \in Module : Lacks(queue'[m], Forged)
    BY <2>5, <2>6 DEF Genuine
  <2>8. \A i \in DOMAIN out'["AUTH"] : out'["AUTH"][i].msg \notin Forged
    <3>1. out'["AUTH"] = <<p>>
      BY <1>1, <2>5 DEF TypedBus
    <3> QED BY <2>4, <3>1
  <2> QED BY <1>1, <2>7, <2>8 DEF Genuine
<1> QED BY <1>3, <1>4, AuthPosts

\* A route is made for the id of the announcement that is handled.
LEMMA UpdateStepGenuine ==
  ASSUME Typed, PostsAllowed, Genuine, UpdateStep
  PROVE  Genuine'
<1> DEFINE m == Current("UPDATE")
<1>1. /\ "AUTH" \in Module /\ "UPDATE" \in Module /\ TypedBus /\ inbox' = inbox
      /\ Sincere \cap Forged = {} /\ AllGet(Sincere) /\ out'["AUTH"] = out["AUTH"]
  BY UpdateStepGets, SincereIsGenuine DEF Module, Typed, UpdateStep, netVars
<1>2. ASSUME NEW c \in Channel, cuo'[c] # None
      PROVE  cuo'[c] \in Registered
  <2>1. CASE OnAuthSuc
    <3>1. /\ m.kind = "AUTH_SUC" /\ queue["UPDATE"] # <<>>
          /\ cuo' = [cuo EXCEPT ![m.ch] = m.key]
      BY <2>1 DEF OnAuthSuc, UpdReady, Ready
    <3>2. queue["UPDATE"] \in Seq(Msg) /\ Lacks(queue["UPDATE"], Forged)
      BY <1>1 DEF TypedBus, Genuine
    <3>3. m \in Msg /\ m \notin Forged
      BY <3>1, <3>2, TailAt DEF Current, Lacks
    <3>4. m.key \in Registered
      BY <3>1, <3>3 DEF Forged
    <3> QED BY <1>2, <3>1, <3>4 DEF Genuine, Typed, UpdTypeOK
  <2>2. CASE UpdOnSendChannelDataFail \/ UpdOnChannelFreed
    BY <1>2, <2>2 DEF UpdOnSendChannelDataFail, UpdOnChannelFreed, UpdForget, Genuine,
                      Typed, UpdTypeOK
  <2>3. CASE OnUpdateFromKafka \/ OnRecvAodsData \/ \E d \in Channel : SendKeepAlive(d)
    BY <1>2, <2>3 DEF OnUpdateFromKafka, OnRecvAodsData, SendKeepAlive, Genuine, updVars,
                      routeVars
  <2> QED BY <2>1, <2>2, <2>3 DEF UpdateStep, UpdateHandler
<1> QED BY <1>1, <1>2, GenuineKept DEF Genuine

\* The activation module and the controller give no verdict on authentication
\* but the controller's own.
LEMMA OtherStepGenuine ==
  ASSUME Typed, PostsAllowed, Genuine, ActiveStep \/ KafkaStep
  PROVE  Genuine'
<1>1. UNCHANGED <<inbox, cuo>>
  BY DEF ActiveStep, KafkaStep, netVars, updVars, routeVars
<1>2. Sincere \cap Forged = {} /\ AllGet(Sincere) /\ out'["AUTH"] = out["AUTH"]
  BY ActiveStepGets, KafkaStepGets, SincereIsGenuine DEF Module
<1> QED BY <1>1, <1>2, GenuineKept DEF Genuine

\* What was still to be posted is posted.
LEMMA PostStepGenuine ==
  ASSUME Typed, PostsAllowed, Genuine, NEW m \in Module, PostStep(m)
  PROVE  Genuine'
<1>1. UNCHANGED <<inbox, cuo>> /\ TypedBus /\ Dispatch(m)
  BY DEF PostStep, netVars, updVars, routeVars, Typed
<1>2. CASE m # "AUTH"
  <2>1. Sincere \cap Forged = {} /\ AllGet(Sincere) /\ out'["AUTH"] = out["AUTH"]
    BY <1>2, PostStepGets, SincereIsGenuine DEF Module
  <2> QED BY <1>1, <2>1, GenuineKept DEF Genuine
<1>3. CASE m = "AUTH"
  <2> DEFINE e == Head(out["AUTH"]).msg
  <2>1. out["AUTH"] # <<>> /\ out'["AUTH"] = Tail(out["AUTH"])
    BY <1>3, PostStepGets
  <2>2. {e} \cap Forged = {}
    <3>1. out["AUTH"] \in Seq(GoodPost)
      BY <1>1, <1>3 DEF TypedBus
    <3>2. Head(out["AUTH"]) = out["AUTH"][1] /\ 1 \in DOMAIN out["AUTH"]
      BY <2>1, <3>1, TailAt
    <3> QED BY <3>2 DEF Genuine
  <2>3. \A n \in Module : Adds(n, {e})
    BY <1>1, <1>3, DispatchGets
  <2> HIDE DEF e
  <2>4. AllGet({e})
    BY <2>3 DEF Adds, Gets, AllGet
  <2> QED BY <1>1, <2>1, <2>2, <2>4, GenuineKept DEF Genuine
<1> QED BY <1>2, <1>3
-----------------------------------------------------------------------------
(* The network. *)

\* A host takes a frame, or the end of its connection takes all.
Shrinks(s, t) == t = s \/ t = <<>> \/ (s # <<>> /\ t = Tail(s))

LEMMA ShrinksKeeps ==
  ASSUME NEW T, NEW s \in Seq(T), NEW t, Shrinks(s, t), NEW A
  PROVE  /\ Lacks(s, A) => Lacks(t, A)
         /\ Once(s, A) => Once(t, A)
<1>1. CASE t = s
  BY <1>1
<1>2. CASE t = <<>>
  BY <1>2 DEF Lacks, Once
<1>3. CASE s # <<>> /\ t = Tail(s)
  BY <1>3, TailKeeps
<1> QED BY <1>1, <1>2, <1>3 DEF Shrinks

LEMMA HostStepShrinks ==
  ASSUME Typed, NEW h \in Host, HostStep(h)
  PROVE  \A c \in Channel : inbox[c] \in Seq(CommuMsg) /\ Shrinks(inbox[c], inbox'[c])
<1>1. inbox \in [Channel -> Seq(CommuMsg)] /\ HostTypeOK
  BY DEF Typed, TypedNet
<1>2. CASE Connect(h)
  BY <1>1, <1>2, ConnectAdds DEF Shrinks
<1>3. CASE Disconnect(h) \/ SeeClosed(h) \/ OnAuthRefused(h) \/ OnActivated(h)
  <2>1. inbox' = [inbox EXCEPT ![cur[h]] = <<>>]
    BY <1>3 DEF Disconnect, SeeClosed, OnAuthRefused, OnActivated, Leave
  <2> QED BY <1>1, <2>1 DEF Shrinks
<1>4. CASE OnAuthSucceeded(h) \/ OnUpdate(h) \/ OnKeepAlive(h)
  <2>1. inbox' = [inbox EXCEPT ![cur[h]] = Tail(inbox[cur[h]])] /\ inbox[cur[h]] # <<>>
    BY <1>4 DEF OnAuthSucceeded, OnUpdate, OnKeepAlive, Reply, Answered
  <2> QED BY <1>1, <2>1 DEF Shrinks
<1>5. CASE ReportResult(h)
  BY <1>1, <1>5 DEF ReportResult, Shrinks
<1> QED BY <1>2, <1>3, <1>4, <1>5 DEF HostStep, HostReceive

\* The select loop and the hosts give no verdicts.
LEMMA NetStepGenuine ==
  ASSUME Typed, PostsAllowed, Genuine,
         (\E d \in Channel : SelectStep(d)) \/ (\E h \in Host : HostStep(h))
  PROVE  Genuine'
<1>1. ASSUME NEW e, \A n \in Module : queue'[n] = queue[n] \/ queue'[n] = Append(queue[n], e),
             e.kind \in {"NEW", "DEL", "RECV"}, UNCHANGED <<out, cuo>>,
             \A c \in Channel : Lacks(inbox'[c], Forged)
      PROVE  Genuine'
  <2>1. AllGet({e})
    BY <1>1 DEF AllGet, Gets
  <2>2. {e} \cap Forged = {}
    BY <1>1 DEF Forged
  <2> QED BY <1>1, <2>1, <2>2, GenuineKept DEF Genuine
<1>2. ASSUME NEW d \in Channel, SelectStep(d)
      PROVE  Genuine'
  <2>1. UNCHANGED <<inbox, cuo>>
    BY <1>2 DEF SelectStep, ReadData, OnDel, netVars, updVars, routeVars
  <2>2. CASE ReadData(d)
    BY <1>1, <2>1, <2>2, ReadDataAdds DEF Genuine
  <2>3. CASE OnDel(d)
    <3>1. Notice("DEL", d).kind = "DEL"
      BY DEF Notice
    <3> QED BY <1>1, <2>1, <2>3, <3>1, OnDelAdds DEF Genuine
  <2> QED BY <1>2, <2>2, <2>3 DEF SelectStep
<1>3. ASSUME NEW h \in Host, HostStep(h)
      PROVE  Genuine'
  <2>1. \A c \in Channel : Lacks(inbox'[c], Forged)
    BY <1>3, HostStepShrinks, ShrinksKeeps DEF Genuine
  <2>2. cuo' = cuo
    BY <1>3 DEF HostStep, updVars, routeVars
  <2>3. CASE Connect(h)
    <3>1. Notice("NEW", ullIndex).kind = "NEW"
      BY DEF Notice
    <3> QED BY <1>1, <2>1, <2>2, <2>3, <3>1, ConnectAdds
  <2>4. CASE ~Connect(h)
    <3>1. UNCHANGED <<queue, out>>
      BY <1>3, <2>4, HostStepReports DEF busVars
    <3> QED BY <2>1, <2>2, <3>1 DEF Genuine
  <2> QED BY <2>3, <2>4
<1> QED BY <1>2, <1>3

\* Every step keeps the verdicts genuine.
LEMMA NextGenuine == Typed /\ PostsAllowed /\ Genuine /\ [Next]_vars => Genuine'
<1> SUFFICES ASSUME Typed, PostsAllowed, Genuine, [Next]_vars PROVE Genuine'
  OBVIOUS
<1>1. CASE TimerStep \/ (\E d \in Channel : GiveUpStep(d)) \/ UNCHANGED vars
  <2>1. UNCHANGED <<queue, out, inbox, cuo>>
    BY <1>1 DEF TimerStep, OnTimer, GiveUpStep, GiveUp, vars, busVars, netVars, updVars,
                routeVars
  <2> QED BY <2>1 DEF Genuine
<1> QED BY <1>1, CommuStepGenuine, AuthStepGenuine, UpdateStepGenuine, OtherStepGenuine,
           PostStepGenuine, NetStepGenuine DEF Next

\* Good verdicts are the controller's own.
THEOREM GenuineAlways == Spec => []Genuine
<1>1. Init => Genuine
  <2> SUFFICES ASSUME Init PROVE Genuine
    OBVIOUS
  <2>1. /\ \A m \in Module : queue[m] = <<>> /\ out[m] = <<>>
        /\ \A c \in Channel : inbox[c] = <<>> /\ cuo[c] = None
        /\ "AUTH" \in Module
    BY DEF Init, BusInit, CommuInit, UpdInit, Module
  <2> QED BY <2>1 DEF Genuine, Lacks
<1>2. ReleaseInv => PostsAllowed
  BY DEF ReleaseInv
<1> QED BY <1>1, <1>2, NextGenuine, TypedAlways, ReleaseAlways, PTL DEF Spec

\* Only machines of ids the controller accepts get a route, and only they are
\* told that they are authenticated, although the verdict names an id and no
\* connection.
THEOREM OnlyAcceptedAlways == Spec => []OnlyAccepted
<1>1. Typed /\ OwnerInv /\ Genuine => OnlyAccepted
  <2> SUFFICES ASSUME Typed, OwnerInv, Genuine, NEW c \in Channel
               PROVE  /\ cuo[c] # None => cuo[c] \in Registered
                      /\ \A i \in DOMAIN inbox[c] :
                           inbox[c][i].body = "AUTH_SUC" => inbox[c][i].key \in Registered
    BY DEF OnlyAccepted
  <2>1. ASSUME NEW i \in DOMAIN inbox[c], inbox[c][i].body = "AUTH_SUC"
        PROVE  inbox[c][i].key \in Registered
    <3>1. inbox[c] \in Seq(CommuMsg)
      BY DEF Typed, TypedNet
    <3>2. inbox[c][i] \in Msg
      BY <2>1, <3>1 DEF CommuMsg, Kinds, OnChannel
    <3>3. inbox[c][i].kind = "SEND"
      BY <2>1 DEF OwnerInv, Delivered, Range
    <3>4. inbox[c][i] \notin Forged
      BY <2>1 DEF Genuine, Lacks
    <3> QED BY <2>1, <3>2, <3>3, <3>4 DEF Forged
  <2> QED BY <2>1 DEF Genuine
<1> QED BY <1>1, TypedAlways, OwnerAlways, GenuineAlways, PTL
-----------------------------------------------------------------------------
(* The handlers of the activation module. *)

\* The first post of a handler, to another module.
LEMMA HandleFirst ==
  ASSUME TypedBus, NEW m \in Module, queue[m] # <<>>, NEW T, NEW posts \in Seq(T),
         posts # <<>>, Head(posts).to \in Module \ {m}, Handle(m, posts)
  PROVE  /\ queue'[m] = Tail(queue[m])
         /\ queue'[Head(posts).to] = Append(queue[Head(posts).to], Head(posts).msg)
         /\ \A n \in Module : n # m /\ n # Head(posts).to => queue'[n] = queue[n]
         /\ out'[m] = Tail(posts)
<1>1. /\ out' = [out EXCEPT ![m] = Tail(posts)]
      /\ \A n \in Module :
           queue'[n] = IF n = Head(posts).to THEN Append(Left(m, n), Head(posts).msg)
                       ELSE Left(m, n)
  BY HandleEffect
<1> QED BY <1>1 DEF Left, TypedBus

LEMMA HandleNothing ==
  ASSUME TypedBus, NEW m \in Module, queue[m] # <<>>, Handle(m, <<>>)
  PROVE  /\ queue'[m] = Tail(queue[m])
         /\ \A n \in Module : n # m => queue'[n] = queue[n]
         /\ out' = out
BY DEF Handle, TypedBus

LEMMA HandleOne ==
  ASSUME TypedBus, NEW m \in Module, queue[m] # <<>>, NEW p, p.to \in Module \ {m},
         Handle(m, <<p>>)
  PROVE  /\ queue'[m] = Tail(queue[m])
         /\ queue'[p.to] = Append(queue[p.to], p.msg)
         /\ \A n \in Module : n # m /\ n # p.to => queue'[n] = queue[n]
         /\ out'[m] = <<>>
<1> DEFINE s == <<p>>
<1>1. s \in Seq({p}) /\ s # <<>> /\ Head(s) = p /\ Tail(s) = <<>> /\ Handle(m, s)
  OBVIOUS
<1> HIDE DEF s
<1> QED BY <1>1, HandleFirst

\* A short sequence of posts, put together.
LEMMA TwoAndOne ==
  ASSUME NEW x, NEW y, NEW z
  PROVE  <<x, y>> \o <<z>> = <<x, y, z>>
<1> DEFINE T == {x, y, z}
           s == <<x, y>>
           t == <<x, y, z>>
<1>1. /\ s \in Seq(T) /\ Len(s) = 2 /\ s[1] = x /\ s[2] = y
      /\ t \in Seq(T) /\ Len(t) = 3 /\ t[1] = x /\ t[2] = y /\ t[3] = z
      /\ z \in T
  OBVIOUS
<1> HIDE DEF s, t, T
<1>2. s \o <<z>> = Append(s, z)
  BY <1>1, AppendIsConcat
<1>3. /\ Append(s, z) \in Seq(T) /\ Len(Append(s, z)) = Len(s) + 1
      /\ \A i \in 1 .. Len(s) : Append(s, z)[i] = s[i]
      /\ Append(s, z)[Len(s) + 1] = z
  <2>1. s \in Seq(T) /\ z \in T
    BY <1>1
  <2> QED BY ONLY <2>1, AppendProperties
<1>4. Append(s, z)[1] = x /\ Append(s, z)[2] = y /\ Append(s, z)[3] = z
  BY <1>1, <1>3
<1>5. \A i \in 1 .. 3 : i = 1 \/ i = 2 \/ i = 3
  OBVIOUS
<1>6. Append(s, z) = t
  BY <1>1, <1>3, <1>4, <1>5, SeqEqual
<1> QED BY <1>2, <1>6 DEF s, t

LEMMA OneAndOne ==
  ASSUME NEW x, NEW z
  PROVE  <<x>> \o <<z>> = <<x, z>>
<1> DEFINE T == {x, z}
           s == <<x>>
           t == <<x, z>>
<1>1. /\ s \in Seq(T) /\ Len(s) = 1 /\ s[1] = x
      /\ t \in Seq(T) /\ Len(t) = 2 /\ t[1] = x /\ t[2] = z
      /\ z \in T
  OBVIOUS
<1> HIDE DEF s, t, T
<1>2. s \o <<z>> = Append(s, z)
  BY <1>1, AppendIsConcat
<1>3. /\ Append(s, z) \in Seq(T) /\ Len(Append(s, z)) = Len(s) + 1
      /\ \A i \in 1 .. Len(s) : Append(s, z)[i] = s[i]
      /\ Append(s, z)[Len(s) + 1] = z
  <2>1. s \in Seq(T) /\ z \in T
    BY <1>1
  <2> QED BY ONLY <2>1, AppendProperties
<1>4. Append(s, z)[1] = x /\ Append(s, z)[2] = z
  BY <1>1, <1>3
<1>5. \A i \in 1 .. 2 : i = 1 \/ i = 2
  OBVIOUS
<1>6. Append(s, z) = t
  BY <1>1, <1>3, <1>4, <1>5, SeqEqual
<1> QED BY <1>2, <1>6 DEF s, t

\* A request is filed or refused.
LEMMA RequestEffect ==
  ASSUME Typed, OnActiveRequest, NEW d, d = Current("ACTIVE").ch
  PROVE  /\ d \in Channel /\ Current("ACTIVE") \in Asks(d) /\ queue["ACTIVE"] # <<>>
         /\ queue'["ACTIVE"] = Tail(queue["ACTIVE"])
         /\ out["ACTIVE"] = <<>> /\ out'["ACTIVE"] = <<>>
         /\ \/ /\ queue'["COMMU"] = queue["COMMU"]
               /\ \E u \in Uuid \ issued :
                    /\ cu' = [cu EXCEPT ![d] = u] /\ uai' = [uai EXCEPT ![u] = d]
                    /\ issued' = issued \cup {u}
            \/ /\ queue'["COMMU"] = Append(queue["COMMU"], Frame("SEND", d, "ACTV_ERR", None))
               /\ UNCHANGED <<cu, uai, issued>>
<1>1. /\ TypedBus /\ queue["ACTIVE"] # <<>> /\ out["ACTIVE"] = <<>>
      /\ Current("ACTIVE").kind = "RECV"
      /\ "ACTIVE" \in Module /\ "COMMU" \in Module /\ "KAFKA" \in Module
  BY DEF Typed, OnActiveRequest, Ready, Module
<1>2. d \in Channel
  BY <1>1, ActiveCurrent
<1>3. Current("ACTIVE") \in Asks(d)
  <2>1. queue["ACTIVE"] \in Seq(Msg)
    BY <1>1 DEF TypedBus
  <2>2. Current("ACTIVE") \in Msg
    BY <1>1, <2>1 DEF Current
  <2> QED BY <1>1, <2>2 DEF Asks
<1>4. ASSUME NEW u \in Uuid \ issued,
             Handle("ACTIVE", <<To("KAFKA", Json("SND2KAFKA", "active", u))>>)
      PROVE  /\ queue'["ACTIVE"] = Tail(queue["ACTIVE"])
             /\ out'["ACTIVE"] = <<>> /\ queue'["COMMU"] = queue["COMMU"]
  <2> DEFINE p == To("KAFKA", Json("SND2KAFKA", "active", u))
  <2>1. p.to = "KAFKA" /\ Handle("ACTIVE", <<p>>)
    BY <1>4 DEF To
  <2> HIDE DEF p
  <2> QED BY <1>1, <2>1, HandleOne
<1>5. ASSUME Handle("ACTIVE", <<To("COMMU", Frame("SEND", d, "ACTV_ERR", None))>>)
      PROVE  /\ queue'["ACTIVE"] = Tail(queue["ACTIVE"])
             /\ out'["ACTIVE"] = <<>>
             /\ queue'["COMMU"] = Append(queue["COMMU"], Frame("SEND", d, "ACTV_ERR", None))
  <2> DEFINE p == To("COMMU", Frame("SEND", d, "ACTV_ERR", None))
  <2>1. p.to = "COMMU" /\ p.msg = Frame("SEND", d, "ACTV_ERR", None) /\ Handle("ACTIVE", <<p>>)
    BY <1>5 DEF To
  <2> HIDE DEF p
  <2> QED BY <1>1, <2>1, HandleOne
<1>6. CASE d \in ca
  BY <1>1, <1>2, <1>3, <1>4, <1>6 DEF OnActiveRequest
<1>7. CASE d \notin ca
  BY <1>1, <1>2, <1>3, <1>5, <1>7 DEF OnActiveRequest
<1> QED BY <1>6, <1>7

\* An answer of the controller is given, a good one after the controller is told.
LEMMA AckEffect ==
  ASSUME Typed, OnActiveAck, NEW u, u = Current("ACTIVE").key, NEW d, d = uai[u]
  PROVE  /\ u \in Uuid /\ d \in Channel /\ queue["ACTIVE"] # <<>>
         /\ queue'["ACTIVE"] = Tail(queue["ACTIVE"]) /\ out["ACTIVE"] = <<>>
         /\ cu' = [cu EXCEPT ![d] = None] /\ uai' = [uai EXCEPT ![u] = None]
         /\ issued' = issued
         /\ \/ /\ queue'["COMMU"] = queue["COMMU"]
               /\ queue'["KAFKA"] = Append(queue["KAFKA"], Json("SND2KAFKA", "active_suc", u))
               /\ out'["ACTIVE"] = <<To("COMMU", Frame("SEND", d, "ACTV_SUC", u)),
                                     To("COMMU", Notice("FREE", d))>>
            \/ /\ queue'["COMMU"] = Append(queue["COMMU"], Frame("SEND", d, "ACTV_ERR", None))
               /\ out'["ACTIVE"] = <<To("COMMU", Notice("FREE", d))>>
<1>1. /\ TypedBus /\ queue["ACTIVE"] # <<>> /\ out["ACTIVE"] = <<>>
      /\ Current("ACTIVE").kind = "RCVKAFKA" /\ d # None
      /\ cu' = [cu EXCEPT ![d] = None] /\ uai' = [uai EXCEPT ![u] = None]
      /\ issued' = issued
      /\ "ACTIVE" \in Module /\ "COMMU" \in Module /\ "KAFKA" \in Module
  BY DEF Typed, OnActiveAck, Ready, Module
<1>2. u \in Uuid
  BY <1>1, ActiveCurrent
<1>3. d \in Channel
  BY <1>1, <1>2 DEF Typed, ActTypeOK
<1> DEFINE j == To("KAFKA", Json("SND2KAFKA", "active_suc", u))
           suc == To("COMMU", Frame("SEND", d, "ACTV_SUC", u))
           err == To("COMMU", Frame("SEND", d, "ACTV_ERR", None))
           free == To("COMMU", Notice("FREE", d))
<1>4. /\ j.to = "KAFKA" /\ j.msg = Json("SND2KAFKA", "active_suc", u)
      /\ err.to = "COMMU" /\ err.msg = Frame("SEND", d, "ACTV_ERR", None)
  BY DEF To
<1>5. Handle("ACTIVE", (IF Current("ACTIVE").body = "active_ack" THEN <<j, suc>> ELSE <<err>>)
                        \o <<free>>)
  BY DEF OnActiveAck, Result
<1> HIDE DEF j, suc, err, free
<1>6. <<j, suc>> \o <<free>> = <<j, suc, free>> /\ <<err>> \o <<free>> = <<err, free>>
  BY TwoAndOne, OneAndOne
<1>7. CASE Current("ACTIVE").body = "active_ack"
  <2> DEFINE s == <<j, suc, free>>
  <2>1. s \in Seq({j, suc, free}) /\ s # <<>> /\ Head(s) = j /\ Tail(s) = <<suc, free>>
    OBVIOUS
  <2>2. Handle("ACTIVE", s)
    BY <1>5, <1>6, <1>7
  <2> HIDE DEF s
  <2>3. /\ queue'["ACTIVE"] = Tail(queue["ACTIVE"]) /\ queue'["COMMU"] = queue["COMMU"]
        /\ queue'["KAFKA"] = Append(queue["KAFKA"], j.msg) /\ out'["ACTIVE"] = <<suc, free>>
    BY <1>1, <1>4, <2>1, <2>2, HandleFirst
  <2> QED BY <1>1, <1>2, <1>3, <1>4, <2>3 DEF suc, free
<1>8. CASE Current("ACTIVE").body # "active_ack"
  <2> DEFINE s == <<err, free>>
  <2>1. s \in Seq({err, free}) /\ s # <<>> /\ Head(s) = err /\ Tail(s) = <<free>>
    OBVIOUS
  <2>2. Handle("ACTIVE", s)
    BY <1>5, <1>6, <1>8
  <2> HIDE DEF s
  <2>3. /\ queue'["ACTIVE"] = Tail(queue["ACTIVE"])
        /\ queue'["COMMU"] = Append(queue["COMMU"], err.msg) /\ out'["ACTIVE"] = <<free>>
    BY <1>1, <1>4, <2>1, <2>2, HandleFirst
  <2> QED BY <1>1, <1>2, <1>3, <1>4, <2>3 DEF free
<1> QED BY <1>7, <1>8

\* The other handlers give no answer.
LEMMA ActiveOtherEffect ==
  ASSUME Typed, ActiveStep, ~OnActiveRequest, ~OnActiveAck
  PROVE  /\ queue["ACTIVE"] # <<>> /\ queue'["ACTIVE"] = Tail(queue["ACTIVE"])
         /\ out["ACTIVE"] = <<>> /\ out'["ACTIVE"] = <<>>
         /\ \/ queue'["COMMU"] = queue["COMMU"]
            \/ \E d \in Channel : queue'["COMMU"] = Append(queue["COMMU"], Notice("FREE", d))
         /\ \/ UNCHANGED <<cu, uai, issued>>
            \/ \E d \in Channel :
                 /\ uai' = [u \in Uuid |-> IF u = cu[d] THEN None ELSE uai[u]]
                 /\ cu' = [cu EXCEPT ![d] = None] /\ issued' = issued
<1> DEFINE d == Current("ACTIVE").ch
<1>1. /\ TypedBus /\ queue["ACTIVE"] # <<>> /\ out["ACTIVE"] = <<>>
      /\ "ACTIVE" \in Module /\ "COMMU" \in Module
  BY DEF Typed, ActiveStep, ActiveHandler, OnChannelBuilded, OnActiveAckStale,
         ActOnSendChannelDataFail, ActOnChannelFreed, Ready, Module
<1>2. CASE OnChannelBuilded \/ OnActiveAckStale
  BY <1>1, <1>2, HandleNothing DEF OnChannelBuilded, OnActiveAckStale, actVars
<1>3. CASE ActOnChannelFreed
  <2>1. d \in Channel
    BY <1>1, <1>3, ActiveCurrent DEF ActOnChannelFreed, Ready
  <2>2. Handle("ACTIVE", <<>>)
    BY <1>3 DEF ActOnChannelFreed
  <2>3. /\ uai' = [u \in Uuid |-> IF u = cu[d] THEN None ELSE uai[u]]
        /\ cu' = [cu EXCEPT ![d] = None] /\ issued' = issued
    BY <1>3 DEF ActOnChannelFreed
  <2> HIDE DEF d
  <2>4. /\ queue'["ACTIVE"] = Tail(queue["ACTIVE"]) /\ out'["ACTIVE"] = <<>>
        /\ queue'["COMMU"] = queue["COMMU"]
    BY <1>1, <2>2, HandleNothing
  <2> QED BY <1>1, <2>1, <2>3, <2>4
<1>4. CASE ActOnSendChannelDataFail
  <2>1. d \in Channel
    BY <1>1, <1>4, ActiveCurrent DEF ActOnSendChannelDataFail, Ready
  <2> DEFINE p == To("COMMU", Notice("FREE", d))
  <2>2. p.to = "COMMU" /\ p.msg = Notice("FREE", d) /\ Handle("ACTIVE", <<p>>)
    BY <1>4 DEF ActOnSendChannelDataFail, To
  <2>3. UNCHANGED <<cu, uai, issued>>
    BY <1>4 DEF ActOnSendChannelDataFail, actVars
  <2> HIDE DEF p, d
  <2>4. /\ queue'["ACTIVE"] = Tail(queue["ACTIVE"]) /\ out'["ACTIVE"] = <<>>
        /\ queue'["COMMU"] = Append(queue["COMMU"], p.msg)
    BY <1>1, <2>2, HandleOne
  <2> QED BY <1>1, <2>1, <2>2, <2>3, <2>4
<1> QED BY <1>2, <1>3, <1>4 DEF ActiveStep, ActiveHandler
-----------------------------------------------------------------------------
(* Requests are in one place. *)

\* What the places are.
LEMMA AtIs ==
  ASSUME NEW c \in Channel
  PROVE  /\ At("wire", c) <=> ~Lacks(wire[c], Actv)
         /\ At("queue", c) <=> ~Lacks(queue["ACTIVE"], Asks(c))
         /\ At("file", c) <=> cu[c] # None
         /\ At("post", c) <=> ~Lacks(out["ACTIVE"], ReplyPosts(c))
         /\ At("commu", c) <=> ~Lacks(queue["COMMU"], Replies(c))
         /\ At("host", c) <=> ~Lacks(inbox[c], Replies(c))
         /\ At("wire", c)' <=> ~Lacks(wire'[c], Actv)
         /\ At("queue", c)' <=> ~Lacks(queue'["ACTIVE"], Asks(c))
         /\ At("file", c)' <=> cu'[c] # None
         /\ At("post", c)' <=> ~Lacks(out'["ACTIVE"], ReplyPosts(c))
         /\ At("commu", c)' <=> ~Lacks(queue'["COMMU"], Replies(c))
         /\ At("host", c)' <=> ~Lacks(inbox'[c], Replies(c))
BY DEF At, Lacks

\* A sequence gets none of the elements in A.
Keeps(s, t, A) == (Lacks(s, A) => Lacks(t, A)) /\ (Once(s, A) => Once(t, A))

\* Nothing about channel c comes to a place but to those in S.
Still(c, S) ==
  /\ "wire" \in S \/ Keeps(wire[c], wire'[c], Actv)
  /\ "queue" \in S \/ Keeps(queue["ACTIVE"], queue'["ACTIVE"], Asks(c))
  /\ "file" \in S \/ (cu'[c] # None => cu[c] # None)
  /\ "post" \in S \/ Keeps(out["ACTIVE"], out'["ACTIVE"], ReplyPosts(c))
  /\ "commu" \in S \/ Keeps(queue["COMMU"], queue'["COMMU"], Replies(c))
  /\ "host" \in S \/ Keeps(inbox[c], inbox'[c], Replies(c))

LEMMA RequestStays ==
  ASSUME NEW c \in Channel, OneRequest(c), Still(c, {}), ullIndex <= ullIndex',
         ullIndex \in Nat, ullIndex' \in Nat
  PROVE  OneRequest(c)'
<1>1. Single(c)'
  BY DEF OneRequest, Single, Still, Keeps
<1>2. \A p \in Places : At(p, c)' => At(p, c)
  BY AtIs DEF Still, Keeps, Places
<1>3. PICK s \in Places : \A p \in Places : At(p, c) => p = s
  BY DEF OneRequest, OnePlace
<1>4. OnePlace(c)'
  BY <1>2, <1>3 DEF OnePlace
<1>5. c \in Nat
  BY DEF Channel
<1>6. c >= ullIndex' => \A p \in Places : ~At(p, c)'
  BY <1>2, <1>5 DEF OneRequest
<1> QED BY <1>1, <1>4, <1>6 DEF OneRequest

\* A request moves on from x to y.
LEMMA RequestMoves ==
  ASSUME NEW c \in Channel, OneRequest(c), NEW x \in Places, NEW y \in Places, x # y,
         Still(c, {x, y}), At(x, c), ~At(x, c)', ~At(y, c) => Single(c)', ullIndex' = ullIndex
  PROVE  OneRequest(c)'
<1>1. \A p \in Places : At(p, c) => p = x
  BY DEF OneRequest, OnePlace
<1>2. \A p \in Places \ {x, y} : At(p, c)' => At(p, c)
  BY AtIs DEF Still, Keeps, Places
<1>3. \A p \in Places : At(p, c)' => p = y
  BY <1>1, <1>2
<1>4. Single(c)' /\ ~(c >= ullIndex')
  BY <1>1 DEF OneRequest
<1> QED BY <1>3, <1>4 DEF OneRequest, OnePlace

\* Steps that add nothing of A.
LEMMA GetsStill ==
  ASSUME TypedBus, NEW c \in Channel
  PROVE  /\ AllGet(Silent) => Keeps(queue["COMMU"], queue'["COMMU"], Replies(c))
         /\ AllGet(Silent) \/ AllGet(Inner)
              => Keeps(queue["ACTIVE"], queue'["ACTIVE"], Asks(c))
         /\ \A s, A : Keeps(s, s, A)
<1>1. Silent \cap Replies(c) = {} /\ Silent \cap Asks(c) = {} /\ Inner \cap Asks(c) = {}
  BY DEF Silent, Replies, Inner, Asks
<1>2. "COMMU" \in Module /\ "ACTIVE" \in Module
  BY DEF Module
<1>3. ASSUME AllGet(Silent) PROVE Keeps(queue["COMMU"], queue'["COMMU"], Replies(c))
  <2>1. Gets("COMMU", Silent)
    BY <1>2, <1>3 DEF AllGet
  <2> QED BY <1>1, <1>2, <2>1, GetsKeeps DEF Keeps
<1>4. ASSUME NEW E \in {Silent, Inner}, AllGet(E)
      PROVE  Keeps(queue["ACTIVE"], queue'["ACTIVE"], Asks(c))
  <2>1. Gets("ACTIVE", E) /\ E \cap Asks(c) = {}
    BY <1>1, <1>2, <1>4 DEF AllGet
  <2> QED BY <1>2, <2>1, GetsKeeps DEF Keeps
<1> QED BY <1>3, <1>4 DEF Keeps

\* Threads that neither ask nor answer.
LEMMA SilentStepOne ==
  ASSUME Typed, PostsAllowed, NEW c \in Channel, OneRequest(c),
         \/ AuthStep \/ UpdateStep \/ KafkaStep \/ TimerStep
         \/ (\E m \in Module : m # "ACTIVE" /\ PostStep(m))
         \/ (\E d \in Channel : GiveUpStep(d)) \/ UNCHANGED vars
  PROVE  OneRequest(c)'
<1>1. UNCHANGED <<wire, inbox, cu, ullIndex>>
  BY DEF AuthStep, UpdateStep, KafkaStep, TimerStep, PostStep, GiveUpStep, GiveUp, vars,
         netVars, commuVars, actVars
<1>2. TypedBus /\ ullIndex \in Nat /\ "ACTIVE" \in Module
  BY DispatcherAssumption DEF Typed, CommuTypeOK, Module
<1>3. (AllGet(Silent) \/ UNCHANGED queue) /\ out'["ACTIVE"] = out["ACTIVE"]
  <2>1. CASE AuthStep
    BY <1>2, <2>1, AuthStepGets
  <2>2. CASE UpdateStep
    BY <1>2, <2>2, UpdateStepGets
  <2>3. CASE KafkaStep
    BY <2>3, KafkaStepGets
  <2>4. CASE \E m \in Module : m # "ACTIVE" /\ PostStep(m)
    BY <1>2, <2>4, PostStepGets
  <2>5. CASE TimerStep \/ (\E d \in Channel : GiveUpStep(d)) \/ UNCHANGED vars
    BY <2>5 DEF TimerStep, OnTimer, GiveUpStep, GiveUp, vars, busVars
  <2> QED BY <2>1, <2>2, <2>3, <2>4, <2>5
<1>4. Still(c, {})
  BY <1>1, <1>2, <1>3, GetsStill DEF Still
<1> QED BY <1>1, <1>2, <1>4, RequestStays

\* A queue whose only message in A is taken.
LEMMA ActsTakesOnly ==
  ASSUME TypedBus, NEW m \in Module, Acts(m), NEW A, MailOf(m) \cap A = {},
         Once(queue[m], A), Current(m) \in A
  PROVE  Lacks(queue'[m], A)
<1> DEFINE t == Tail(queue[m])
<1>1. queue[m] \in Seq(Msg) /\ queue[m] # <<>>
  BY DEF TypedBus, Acts
<1>2. t \in Seq(Msg)
  BY <1>1
<1>3. Lacks(t, A)
  BY <1>1, TailKeeps DEF Current
<1>4. PICK posts \in Seq(MayPost(m)) : Handle(m, posts)
  BY DEF Acts
<1>5. \/ queue'[m] = t
      \/ posts # <<>> /\ queue'[m] = Append(t, Head(posts).msg)
  BY <1>1, <1>4, HandleEffect DEF Left
<1> HIDE DEF t
<1>6. posts # <<>> => Head(posts).msg \notin A
  <2>1. posts # <<>> => Head(posts) \in MayPost(m)
    BY <1>4
  <2> QED BY <2>1 DEF MailOf
<1>7. CASE posts # <<>> /\ queue'[m] = Append(t, Head(posts).msg)
  <2>1. Lacks(Append(t, Head(posts).msg), A)
    BY <1>2, <1>3, <1>6, <1>7, AppendKeeps
  <2> QED BY <1>7, <2>1
<1> QED BY <1>3, <1>5, <1>7

\* What is added to a sequence is no element of A, or the only one.
LEMMA AppendStill ==
  ASSUME NEW T, NEW s \in Seq(T), NEW e, NEW A
  PROVE  /\ e \notin A => Keeps(s, Append(s, e), A)
         /\ Lacks(s, A) => Once(Append(s, e), A)
<1>1. e \notin A /\ Lacks(s, A) => Lacks(Append(s, e), A)
  BY AppendKeeps
<1>2. Once(s, A) /\ (e \notin A \/ Lacks(s, A)) => Once(Append(s, e), A)
  BY AppendKeeps
<1>3. Lacks(s, A) => Once(s, A)
  BY DEF Lacks, Once
<1> QED BY <1>1, <1>2, <1>3 DEF Keeps

LEMMA TailStill ==
  ASSUME NEW T, NEW s \in Seq(T), s # <<>>, NEW A
  PROVE  /\ Keeps(s, Tail(s), A)
         /\ Once(s, A) /\ Head(s) \in A => Lacks(Tail(s), A)
         /\ Head(s) \in A => ~Lacks(s, A)
<1>1. Once(s, A) /\ Head(s) \in A => Lacks(Tail(s), A)
  BY TailKeeps
<1>2. Keeps(s, Tail(s), A)
  BY TailKeeps DEF Keeps
<1>3. Head(s) = s[1] /\ 1 \in DOMAIN s
  BY TailAt
<1>4. Head(s) \in A => ~Lacks(s, A)
  BY <1>3 DEF Lacks
<1> QED BY <1>1, <1>2, <1>4

LEMMA LacksOnce == \A s, A : Lacks(s, A) => Once(s, A)
BY DEF Lacks, Once

\* The communication module writes the answer to the connection, or drops it.
LEMMA CommuStepOne ==
  ASSUME Typed, PostsAllowed, NEW c \in Channel, OneRequest(c), CommuStep
  PROVE  OneRequest(c)'
<1> DEFINE m == Current("COMMU")
<1>1. /\ UNCHANGED <<wire, cu, ullIndex>> /\ TypedBus /\ ullIndex \in Nat
      /\ "ACTIVE" \in Module /\ "COMMU" \in Module
  BY DispatcherAssumption
     DEF CommuStep, CommuHandler, OnNewChannel, OnNewChannelFull, OnDelChannel,
         OnFreeChannel, SendData2Channel, SendDataFail, commuVars, netVars, actVars,
         Typed, CommuTypeOK, Module
<1>2. AllGet(Silent) /\ out'["ACTIVE"] = out["ACTIVE"]
  BY <1>1, CommuStepGets
<1>3. inbox[c] \in Seq(CommuMsg) /\ (inbox'[c] = inbox[c] \/ inbox'[c] = Append(inbox[c], m))
  BY CommuStepInbox
<1>4. CASE m \notin Replies(c)
  <2>1. Keeps(inbox[c], inbox'[c], Replies(c))
    BY <1>1, <1>3, <1>4, AppendStill, GetsStill
  <2>2. Still(c, {})
    BY <1>1, <1>2, <2>1, GetsStill DEF Still
  <2> QED BY <1>1, <2>2, RequestStays
<1>5. CASE m \in Replies(c)
  <2>1. ~Lacks(queue["COMMU"], Replies(c))
    BY <1>5, CommuStepInbox DEF Lacks
  <2>2. Lacks(queue'["COMMU"], Replies(c))
    <3>1. MailOf("COMMU") \cap Replies(c) = {}
      BY <1>1, MailIsSilent DEF Silent, Replies
    <3>2. Once(queue["COMMU"], Replies(c))
      BY DEF OneRequest, Single
    <3> QED BY <1>1, <1>5, <3>1, <3>2, CommuActs, ActsTakesOnly
  <2>3. Still(c, {"commu", "host"})
    BY <1>1, <1>2, GetsStill DEF Still
  <2>4. Lacks(inbox[c], Replies(c)) => Once(inbox'[c], Replies(c))
    BY <1>3, AppendStill, LacksOnce
  <2>5. ~At("host", c) => Single(c)'
    <3>1. Once(queue'["COMMU"], Replies(c))
      BY <2>2, LacksOnce
    <3> QED BY <1>1, <2>3, <2>4, <3>1, AtIs DEF OneRequest, Single, Still, Keeps
  <2> QED BY <1>1, <2>1, <2>2, <2>3, <2>5, AtIs, RequestMoves DEF Places
<1> QED BY <1>4, <1>5

\* The select loop passes the request to the activation module.
LEMMA SelectStepOne ==
  ASSUME Typed, NEW c \in Channel, OneRequest(c), NEW d \in Channel, OneLife(d), SelectStep(d)
  PROVE  OneRequest(c)'
<1>1. /\ UNCHANGED <<inbox, cu, ullIndex>> /\ TypedBus /\ ullIndex \in Nat
      /\ "ACTIVE" \in Module /\ "COMMU" \in Module
  BY DispatcherAssumption
     DEF SelectStep, ReadData, OnDel, netVars, commuVars, actVars, Typed, CommuTypeOK, Module
<1>2. queue["COMMU"] \in Seq(Msg) /\ queue["ACTIVE"] \in Seq(Msg)
      /\ wire \in [Channel -> Seq(WireMsg)]
  BY <1>1 DEF TypedBus, Typed, TypedNet
<1>3. CASE OnDel(d)
  <2>1. Notice("DEL", d) \notin Replies(c)
    BY DEF Notice, Replies, ActvFrame
  <2>2. Keeps(queue["COMMU"], queue'["COMMU"], Replies(c))
    <3>1. queue'["COMMU"] = Append(queue["COMMU"], Notice("DEL", d))
      BY <1>3, OnDelAdds
    <3> QED BY <1>2, <2>1, <3>1, AppendStill
  <2>3. UNCHANGED <<wire, out>> /\ queue'["ACTIVE"] = queue["ACTIVE"]
    BY <1>1, <1>3, OnDelAdds
  <2>4. Still(c, {})
    BY <1>1, <2>2, <2>3, GetsStill DEF Still
  <2> QED BY <1>1, <2>4, RequestStays
<1>4. CASE ReadData(d)
  <2> DEFINE f == Head(wire[d])
  <2>1. /\ wire[d] # <<>> /\ f = wire[d][1] /\ f.kind = "RECV" /\ f \in Msg
        /\ Reader(f) = "ACTIVE" <=> f.body = "ACTV"
        /\ Reader(f) \in {"AUTH", "ACTIVE", "UPDATE"}
        /\ out' = out
        /\ queue'[Reader(f)] = Append(queue[Reader(f)], f)
        /\ \A n \in Module : n # Reader(f) => queue'[n] = queue[n]
        /\ wire' = [wire EXCEPT ![d] = Tail(wire[d])]
    BY <1>4, ReadDataAdds
  <2>2. wire[d] \in Seq(WireMsg) /\ 1 \in DOMAIN wire[d]
    BY <1>2, <2>1, TailAt
  <2>3. f.ch = d
    BY <2>1, <2>2 DEF OneLife
  <2>4. queue'["COMMU"] = queue["COMMU"] /\ out'["ACTIVE"] = out["ACTIVE"]
        /\ wire'[d] = Tail(wire[d]) /\ (c # d => wire'[c] = wire[c])
    BY <1>1, <1>2, <2>1
  <2> HIDE DEF f
  <2>5. CASE c = d /\ f.body = "ACTV"
    <3>1. f \in Actv /\ f \in Asks(c) /\ queue'["ACTIVE"] = Append(queue["ACTIVE"], f)
      BY <2>1, <2>3, <2>5 DEF Actv, Asks
    <3>2. ~Lacks(wire[c], Actv) /\ Lacks(wire'[c], Actv)
      BY <2>1, <2>2, <2>4, <2>5, <3>1, TailStill DEF OneRequest, Single, f
    <3>3. Lacks(queue["ACTIVE"], Asks(c)) => Once(queue'["ACTIVE"], Asks(c))
      BY <1>2, <3>1, AppendStill
    <3>4. Still(c, {"wire", "queue"})
      BY <1>1, <2>4, GetsStill DEF Still
    <3>5. ~At("queue", c) => Single(c)'
      <4>1. Once(wire'[c], Actv)
        BY <3>2, LacksOnce
      <4> QED BY <1>1, <3>3, <3>4, <4>1, AtIs DEF OneRequest, Single, Still, Keeps
    <3> QED BY <1>1, <3>2, <3>4, <3>5, AtIs, RequestMoves DEF Places
  <2>6. CASE ~(c = d /\ f.body = "ACTV")
    <3>1. Keeps(wire[c], wire'[c], Actv)
      <4>1. CASE c = d
        BY <2>1, <2>2, <2>4, <4>1, TailStill
      <4>2. CASE c # d
        BY <1>1, <2>4, <4>2, GetsStill
      <4> QED BY <4>1, <4>2
    <3>2. Keeps(queue["ACTIVE"], queue'["ACTIVE"], Asks(c))
      <4>1. CASE f.body = "ACTV"
        <5>1. f \notin Asks(c) /\ queue'["ACTIVE"] = Append(queue["ACTIVE"], f)
          BY <2>1, <2>3, <2>6, <4>1 DEF Asks
        <5> QED BY <1>2, <5>1, AppendStill
      <4>2. CASE f.body # "ACTV"
        <5>1. queue'["ACTIVE"] = queue["ACTIVE"]
          BY <1>1, <2>1, <4>2
        <5> QED BY <1>1, <5>1, GetsStill
      <4> QED BY <4>1, <4>2
    <3>3. Still(c, {})
      BY <1>1, <2>4, <3>1, <3>2, GetsStill DEF Still
    <3> QED BY <1>1, <3>3, RequestStays
  <2> QED BY <2>5, <2>6
<1> QED BY <1>3, <1>4 DEF SelectStep

\* A new connection carries one request at most; a host takes its answer, or
\* loses it with its connection.
LEMMA HostStepOne ==
  ASSUME Typed, NEW c \in Channel, OneRequest(c), NEW h \in Host, HostStep(h)
  PROVE  OneRequest(c)'
<1>1. /\ UNCHANGED cu /\ TypedBus /\ ullIndex \in Nat
      /\ "ACTIVE" \in Module /\ "COMMU" \in Module
      /\ wire \in [Channel -> Seq(WireMsg)] /\ queue["COMMU"] \in Seq(Msg)
  BY DispatcherAssumption
     DEF HostStep, actVars, Typed, TypedBus, TypedNet, CommuTypeOK, Module
<1>2. CASE Connect(h)
  <2>1. /\ ullIndex \in Channel /\ ullIndex' = ullIndex + 1
        /\ queue'["COMMU"] = Append(queue["COMMU"], Notice("NEW", ullIndex))
        /\ \A n \in Module : n # "COMMU" => queue'[n] = queue[n]
        /\ UNCHANGED <<out, inbox>>
    BY <1>2, ConnectAdds
  <2>2. PICK ip \in IpOf[h] :
          wire' = [wire EXCEPT ![ullIndex] = <<FirstFrame(h, ullIndex, ip)>>]
    BY <1>2, ConnectAdds
  <2>3. Notice("NEW", ullIndex) \notin Replies(c)
    BY DEF Notice, Replies, ActvFrame
  <2>4. Keeps(queue["COMMU"], queue'["COMMU"], Replies(c))
    BY <1>1, <2>1, <2>3, AppendStill
  <2>5. UNCHANGED <<out, inbox>> /\ queue'["ACTIVE"] = queue["ACTIVE"]
    BY <1>1, <2>1
  <2>6. CASE c # ullIndex
    <3>1. wire'[c] = wire[c]
      BY <1>1, <2>2, <2>6
    <3>2. Still(c, {})
      BY <1>1, <2>4, <2>5, <3>1, GetsStill DEF Still
    <3> QED BY <1>1, <2>1, <3>2, RequestStays
  <2>7. CASE c = ullIndex
    <3> DEFINE f == FirstFrame(h, ullIndex, ip)
    <3>1. wire'[c] = <<f>>
      BY <1>1, <2>2, <2>7
    <3> HIDE DEF f
    <3>2. Once(wire'[c], Actv)
      BY <3>1 DEF Once
    <3>3. \A p \in Places : ~At(p, c)
      BY <1>1, <2>7 DEF OneRequest
    <3>4. Still(c, {"wire"})
      BY <1>1, <2>4, <2>5, GetsStill DEF Still
    <3>5. \A p \in Places : At(p, c)' => p = "wire"
      BY <3>3, <3>4, AtIs DEF Still, Keeps, Places
    <3>6. Single(c)'
      BY <3>2, <3>4 DEF OneRequest, Single, Still, Keeps
    <3>7. ~(c >= ullIndex')
      BY <1>1, <2>1, <2>7
    <3>8. "wire" \in Places
      BY DEF Places
    <3> QED BY <3>5, <3>6, <3>7, <3>8 DEF OneRequest, OnePlace
  <2> QED BY <2>6, <2>7
<1>3. CASE ~Connect(h)
  <2>1. Reports(h) /\ UNCHANGED <<queue, out, ullIndex>>
    BY <1>3, HostStepReports DEF busVars, commuVars
  <2>2. Keeps(inbox[c], inbox'[c], Replies(c))
    <3>1. inbox[c] \in Seq(CommuMsg) /\ Shrinks(inbox[c], inbox'[c])
      BY HostStepShrinks
    <3> QED BY <3>1, ShrinksKeeps DEF Keeps
  <2>3. Keeps(wire[c], wire'[c], Actv)
    <3>1. CASE wire' = wire
      BY <1>1, <3>1, GetsStill
    <3>2. ASSUME NEW b \in {"UMI", "UDR"}, cur[h] \in Channel,
                 wire' = [wire EXCEPT ![cur[h]] =
                            Append(wire[cur[h]], Frame("RECV", cur[h], b, None))]
          PROVE  Keeps(wire[c], wire'[c], Actv)
      <4> DEFINE f == Frame("RECV", cur[h], b, None)
      <4>1. f \notin Actv
        BY DEF Frame, Actv
      <4>2. wire'[c] = wire[c] \/ wire'[c] = Append(wire[c], f)
        BY <1>1, <3>2
      <4> HIDE DEF f
      <4>3. wire[c] \in Seq(WireMsg)
        BY <1>1
      <4>4. Keeps(wire[c], Append(wire[c], f), Actv) /\ Keeps(wire[c], wire[c], Actv)
        BY <1>1, <4>1, <4>3, AppendStill, GetsStill
      <4> QED BY <4>2, <4>4
    <3> QED BY <2>1, <3>1, <3>2 DEF Reports
  <2>4. Still(c, {})
    BY <1>1, <2>1, <2>2, <2>3, GetsStill DEF Still
  <2> QED BY <1>1, <2>1, <2>4, RequestStays
<1> QED BY <1>2, <1>3

\* The activation module posts the answer.
LEMMA ActivePostOne ==
  ASSUME Typed, PostsAllowed, NEW c \in Channel, OneRequest(c), PostStep("ACTIVE")
  PROVE  OneRequest(c)'
<1> DEFINE p == Head(out["ACTIVE"])
<1>1. /\ UNCHANGED <<wire, inbox, cu, ullIndex>> /\ TypedBus /\ ullIndex \in Nat
      /\ "ACTIVE" \in Module /\ "COMMU" \in Module /\ Dispatch("ACTIVE")
  BY DispatcherAssumption
     DEF PostStep, netVars, commuVars, actVars, Typed, CommuTypeOK, Module
<1>2. /\ p \in LaterPost("ACTIVE") /\ out' = [out EXCEPT !["ACTIVE"] = Tail(out["ACTIVE"])]
      /\ \A n \in Module :
           queue'[n] = IF n = p.to THEN Append(queue[n], p.msg) ELSE queue[n]
      /\ \A n \in Module : Gets(n, MailOf("ACTIVE"))
  BY <1>1, DispatchGets
<1>3. /\ out["ACTIVE"] # <<>> /\ out["ACTIVE"] \in Seq(GoodPost)
      /\ out'["ACTIVE"] = Tail(out["ACTIVE"]) /\ queue["COMMU"] \in Seq(Msg)
  BY <1>1, <1>2 DEF Dispatch, TypedBus
<1>4. /\ Keeps(out["ACTIVE"], out'["ACTIVE"], ReplyPosts(c))
      /\ Once(out["ACTIVE"], ReplyPosts(c)) /\ p \in ReplyPosts(c)
           => Lacks(out'["ACTIVE"], ReplyPosts(c))
      /\ p \in ReplyPosts(c) => ~Lacks(out["ACTIVE"], ReplyPosts(c))
  BY <1>3, TailStill
<1>5. AllGet(Inner)
  <2>1. MailOf("ACTIVE") \subseteq Inner
    BY <1>1, MailIsInner
  <2> QED BY <1>2, <2>1 DEF AllGet, Gets
<1>6. p \in Post
  BY <1>2 DEF LaterPost, MayPost, GoodPost
<1> HIDE DEF p
<1>7. CASE p.to = "COMMU" /\ p.msg \in Replies(c)
  <2>1. p \in ReplyPosts(c)
    BY <1>6, <1>7 DEF ReplyPosts
  <2>2. ~Lacks(out["ACTIVE"], ReplyPosts(c)) /\ Lacks(out'["ACTIVE"], ReplyPosts(c))
    BY <1>4, <2>1 DEF OneRequest, Single
  <2>3. Lacks(queue["COMMU"], Replies(c)) => Once(queue'["COMMU"], Replies(c))
    BY <1>1, <1>2, <1>3, <1>7, AppendStill
  <2>4. Still(c, {"post", "commu"})
    BY <1>1, <1>5, GetsStill DEF Still
  <2>5. ~At("commu", c) => Single(c)'
    <3>1. Once(out'["ACTIVE"], ReplyPosts(c))
      BY <2>2, LacksOnce
    <3> QED BY <1>1, <2>3, <2>4, <3>1, AtIs DEF OneRequest, Single, Still, Keeps
  <2> QED BY <1>1, <2>2, <2>4, <2>5, AtIs, RequestMoves DEF Places
<1>8. CASE ~(p.to = "COMMU" /\ p.msg \in Replies(c))
  <2>1. Keeps(queue["COMMU"], queue'["COMMU"], Replies(c))
    <3>1. CASE p.to = "COMMU"
      <4>1. queue'["COMMU"] = Append(queue["COMMU"], p.msg) /\ p.msg \notin Replies(c)
        BY <1>1, <1>2, <1>8, <3>1
      <4> QED BY <1>3, <4>1, AppendStill
    <3>2. CASE p.to # "COMMU"
      <4>1. queue'["COMMU"] = queue["COMMU"]
        BY <1>1, <1>2, <3>2
      <4> QED BY <1>1, <4>1, GetsStill
    <3> QED BY <3>1, <3>2
  <2>2. Still(c, {})
    BY <1>1, <1>4, <1>5, <2>1, GetsStill DEF Still
  <2> QED BY <1>1, <2>2, RequestStays
<1> QED BY <1>7, <1>8

\* An answer over channel d.
LEMMA ReplyTo ==
  ASSUME NEW c \in Channel, NEW d \in Channel
  PROVE  /\ \A u : d # c => Frame("SEND", d, "ACTV_ERR", u) \notin Replies(c)
         /\ Notice("FREE", d) \notin Replies(c)
         /\ \A u : d # c => To("COMMU", Frame("SEND", d, "ACTV_SUC", u)) \notin ReplyPosts(c)
         /\ To("COMMU", Notice("FREE", d)) \notin ReplyPosts(c)
BY DEF Frame, Notice, Replies, ReplyPosts, ActvFrame, To

\* A pair of posts of which the second is no answer.
LEMMA FirstOnce ==
  ASSUME NEW x, NEW y, NEW A, y \notin A
  PROVE  /\ Once(<<x, y>>, A) /\ Once(<<y>>, A) /\ Lacks(<<y>>, A) /\ Once(<<>>, A)
         /\ Lacks(<<>>, A) /\ (x \notin A => Lacks(<<x, y>>, A))
<1>1. /\ DOMAIN <<x, y>> = {1, 2} /\ <<x, y>>[1] = x /\ <<x, y>>[2] = y
      /\ DOMAIN <<y>> = {1} /\ <<y>>[1] = y
      /\ DOMAIN <<>> = {}
  OBVIOUS
<1>2. Once(<<x, y>>, A)
  BY <1>1 DEF Once
<1>3. x \notin A => Lacks(<<x, y>>, A)
  BY <1>1 DEF Lacks
<1>4. Lacks(<<y>>, A) /\ Once(<<y>>, A) /\ Lacks(<<>>, A) /\ Once(<<>>, A)
  BY <1>1 DEF Lacks, Once
<1> QED BY <1>2, <1>3, <1>4

\* The activation module files a request or refuses it, answers it or forgets it.
LEMMA RequestStepOne ==
  ASSUME Typed, PostsAllowed, NEW c \in Channel, OneRequest(c), ActiveStep, OnActiveRequest
  PROVE  OneRequest(c)'
<1> DEFINE m == Current("ACTIVE")
           d == m.ch
           err == Frame("SEND", d, "ACTV_ERR", None)
<1>1. /\ UNCHANGED <<wire, inbox, ullIndex>> /\ TypedBus /\ ullIndex \in Nat
      /\ "ACTIVE" \in Module /\ "COMMU" \in Module
      /\ cu \in [Channel -> Uuid \cup {None}] /\ None \notin Uuid
  BY DispatcherAssumption
     DEF ActiveStep, netVars, commuVars, Typed, CommuTypeOK, ActTypeOK, Module
<1>2. /\ d \in Channel /\ m \in Asks(d) /\ queue["ACTIVE"] # <<>>
      /\ queue'["ACTIVE"] = Tail(queue["ACTIVE"])
      /\ out["ACTIVE"] = <<>> /\ out'["ACTIVE"] = <<>>
  BY RequestEffect
<1>3. \/ /\ queue'["COMMU"] = queue["COMMU"]
         /\ \E u \in Uuid : cu' = [cu EXCEPT ![d] = u]
      \/ /\ queue'["COMMU"] = Append(queue["COMMU"], err)
         /\ cu' = cu
  BY RequestEffect
<1>4. /\ Keeps(queue["ACTIVE"], queue'["ACTIVE"], Asks(c))
      /\ Once(queue["ACTIVE"], Asks(c)) /\ m \in Asks(c) => Lacks(queue'["ACTIVE"], Asks(c))
      /\ m \in Asks(c) => ~Lacks(queue["ACTIVE"], Asks(c))
  <2>1. queue["ACTIVE"] \in Seq(Msg)
    BY <1>1 DEF TypedBus
  <2> QED BY <1>2, <2>1, TailStill DEF Current
<1>5. queue["COMMU"] \in Seq(Msg)
  BY <1>1 DEF TypedBus
<1>6. d # c => err \notin Replies(c)
  BY <1>2, ReplyTo
<1> HIDE DEF m, d, err
<1>7. Keeps(queue["COMMU"], Append(queue["COMMU"], err), Replies(c)) \/ d = c
  BY <1>5, <1>6, AppendStill
<1>8. CASE d # c
  <2>1. Still(c, {})
    BY <1>1, <1>2, <1>3, <1>4, <1>7, <1>8, GetsStill DEF Still
  <2> QED BY <1>1, <2>1, RequestStays
<1>9. CASE d = c
  <2>1. Lacks(queue'["ACTIVE"], Asks(c)) /\ ~Lacks(queue["ACTIVE"], Asks(c))
    BY <1>2, <1>4, <1>9 DEF OneRequest, Single
  <2>2. Once(queue'["ACTIVE"], Asks(c))
    BY <2>1, LacksOnce
  <2>3. CASE queue'["COMMU"] = queue["COMMU"]
    <3>1. Still(c, {"queue", "file"})
      BY <1>1, <1>2, <2>3, GetsStill DEF Still
    <3>2. Single(c)'
      BY <2>2, <3>1 DEF OneRequest, Single, Still, Keeps
    <3> QED BY <1>1, <2>1, <3>1, <3>2, AtIs, RequestMoves DEF Places
  <2>4. CASE queue'["COMMU"] = Append(queue["COMMU"], err) /\ cu' = cu
    <3>1. Still(c, {"queue", "commu"})
      BY <1>1, <1>2, <2>4, GetsStill DEF Still
    <3>2. Lacks(queue["COMMU"], Replies(c)) => Once(queue'["COMMU"], Replies(c))
      BY <1>5, <2>4, AppendStill
    <3>3. ~At("commu", c) => Single(c)'
      BY <2>2, <3>1, <3>2, AtIs DEF OneRequest, Single, Still, Keeps
    <3> QED BY <1>1, <2>1, <3>1, <3>3, AtIs, RequestMoves DEF Places
  <2> QED BY <1>3, <2>3, <2>4
<1> QED BY <1>8, <1>9

LEMMA AckStepOne ==
  ASSUME Typed, PostsAllowed, FiledOnce, NEW c \in Channel, OneRequest(c), ActiveStep,
         OnActiveAck
  PROVE  OneRequest(c)'
<1> DEFINE u == Current("ACTIVE").key
           d == uai[u]
           err == Frame("SEND", d, "ACTV_ERR", None)
           suc == To("COMMU", Frame("SEND", d, "ACTV_SUC", u))
           free == To("COMMU", Notice("FREE", d))
<1>1. /\ UNCHANGED <<wire, inbox, ullIndex>> /\ TypedBus /\ ullIndex \in Nat
      /\ "ACTIVE" \in Module /\ "COMMU" \in Module
      /\ cu \in [Channel -> Uuid \cup {None}] /\ None \notin Uuid
  BY DispatcherAssumption
     DEF ActiveStep, netVars, commuVars, Typed, CommuTypeOK, ActTypeOK, Module
<1>2. /\ u \in Uuid /\ d \in Channel /\ queue["ACTIVE"] # <<>>
      /\ queue'["ACTIVE"] = Tail(queue["ACTIVE"]) /\ out["ACTIVE"] = <<>>
      /\ cu' = [cu EXCEPT ![d] = None]
  BY AckEffect
<1>3. \/ queue'["COMMU"] = queue["COMMU"] /\ out'["ACTIVE"] = <<suc, free>>
      \/ queue'["COMMU"] = Append(queue["COMMU"], err) /\ out'["ACTIVE"] = <<free>>
  BY AckEffect
<1>4. cu[d] = u
  BY <1>2 DEF FiledOnce, RequestMapsInverse
<1>5. /\ d # c => err \notin Replies(c) /\ suc \notin ReplyPosts(c)
      /\ free \notin ReplyPosts(c)
  BY <1>2, ReplyTo
<1>6. Keeps(queue["ACTIVE"], queue'["ACTIVE"], Asks(c))
  <2>1. queue["ACTIVE"] \in Seq(Msg)
    BY <1>1 DEF TypedBus
  <2> QED BY <1>2, <2>1, TailStill
<1>7. queue["COMMU"] \in Seq(Msg)
  BY <1>1 DEF TypedBus
<1> HIDE DEF d, u, err, suc, free
<1>8. /\ Once(<<suc, free>>, ReplyPosts(c)) /\ Lacks(<<free>>, ReplyPosts(c))
      /\ Once(<<free>>, ReplyPosts(c))
      /\ d # c => Lacks(<<suc, free>>, ReplyPosts(c))
  BY <1>5, FirstOnce
<1>9. /\ d # c => Keeps(queue["COMMU"], Append(queue["COMMU"], err), Replies(c))
      /\ Lacks(queue["COMMU"], Replies(c)) => Once(Append(queue["COMMU"], err), Replies(c))
  BY <1>5, <1>7, AppendStill
<1>10. CASE d # c
  <2>1. Keeps(out["ACTIVE"], out'["ACTIVE"], ReplyPosts(c))
    BY <1>3, <1>8, <1>10 DEF Keeps
  <2>2. Keeps(queue["COMMU"], queue'["COMMU"], Replies(c))
    BY <1>1, <1>3, <1>9, <1>10, GetsStill
  <2>3. Still(c, {})
    BY <1>1, <1>2, <1>6, <1>10, <2>1, <2>2, GetsStill DEF Still
  <2> QED BY <1>1, <2>3, RequestStays
<1>11. CASE d = c
  <2>1. cu[c] # None /\ cu'[c] = None
    BY <1>1, <1>2, <1>4, <1>11
  <2>2. CASE queue'["COMMU"] = queue["COMMU"] /\ out'["ACTIVE"] = <<suc, free>>
    <3>1. Still(c, {"file", "post"})
      BY <1>1, <1>6, <2>2, GetsStill DEF Still
    <3>2. Single(c)'
      BY <1>8, <2>2, <3>1 DEF OneRequest, Single, Still, Keeps
    <3> QED BY <1>1, <2>1, <3>1, <3>2, AtIs, RequestMoves DEF Places
  <2>3. CASE queue'["COMMU"] = Append(queue["COMMU"], err) /\ out'["ACTIVE"] = <<free>>
    <3>1. Keeps(out["ACTIVE"], out'["ACTIVE"], ReplyPosts(c))
      BY <1>8, <2>3 DEF Keeps
    <3>2. Still(c, {"file", "commu"})
      BY <1>1, <1>6, <3>1, GetsStill DEF Still
    <3>3. ~At("commu", c) => Single(c)'
      BY <1>9, <2>3, <3>2, AtIs DEF OneRequest, Single, Still, Keeps
    <3> QED BY <1>1, <2>1, <3>2, <3>3, AtIs, RequestMoves DEF Places
  <2> QED BY <1>3, <2>2, <2>3
<1> QED BY <1>10, <1>11

LEMMA ActiveStepOne ==
  ASSUME Typed, PostsAllowed, FiledOnce, NEW c \in Channel, OneRequest(c), ActiveStep
  PROVE  OneRequest(c)'
<1>1. /\ UNCHANGED <<wire, inbox, ullIndex>> /\ TypedBus /\ ullIndex \in Nat
      /\ "ACTIVE" \in Module /\ "COMMU" \in Module
      /\ cu \in [Channel -> Uuid \cup {None}]
  BY DispatcherAssumption
     DEF ActiveStep, netVars, commuVars, Typed, CommuTypeOK, ActTypeOK, Module
<1>2. CASE ~OnActiveRequest /\ ~OnActiveAck
  <2>1. /\ queue["ACTIVE"] # <<>> /\ queue'["ACTIVE"] = Tail(queue["ACTIVE"])
        /\ out["ACTIVE"] = <<>> /\ out'["ACTIVE"] = <<>>
        /\ cu'[c] = cu[c] \/ cu'[c] = None
    BY <1>1, <1>2, ActiveOtherEffect
  <2>2. \/ queue'["COMMU"] = queue["COMMU"]
        \/ \E d \in Channel : queue'["COMMU"] = Append(queue["COMMU"], Notice("FREE", d))
    BY <1>2, ActiveOtherEffect
  <2>3. queue["ACTIVE"] \in Seq(Msg) /\ queue["COMMU"] \in Seq(Msg)
    BY <1>1 DEF TypedBus
  <2>4. Keeps(queue["COMMU"], queue'["COMMU"], Replies(c))
    <3>1. ASSUME NEW d \in Channel, queue'["COMMU"] = Append(queue["COMMU"], Notice("FREE", d))
          PROVE  Keeps(queue["COMMU"], queue'["COMMU"], Replies(c))
      <4>1. Notice("FREE", d) \notin Replies(c)
        BY ReplyTo
      <4> QED BY <2>3, <3>1, <4>1, AppendStill
    <3> QED BY <1>1, <2>2, <3>1, GetsStill
  <2>5. Keeps(queue["ACTIVE"], queue'["ACTIVE"], Asks(c))
    BY <2>1, <2>3, TailStill
  <2>6. Still(c, {})
    BY <1>1, <2>1, <2>4, <2>5, GetsStill DEF Still
  <2> QED BY <1>1, <2>6, RequestStays
<1> QED BY <1>2, RequestStepOne, AckStepOne

\* A uuid is filed under one channel, once.
LEMMA ActiveStepFiled ==
  ASSUME Typed, FiledOnce, \A c \in Channel : OneRequest(c), ActiveStep
  PROVE  FiledOnce'
<1>1. /\ cu \in [Channel -> Uuid \cup {None}] /\ uai \in [Uuid -> Channel \cup {None}]
      /\ None \notin Uuid /\ None \notin Channel /\ issued \in SUBSET Uuid
  BY DispatcherAssumption DEF Typed, ActTypeOK, Channel
<1>2. /\ \A u \in Uuid, c \in Channel : uai[u] = c <=> cu[c] = u
      /\ \A u \in Uuid : u \notin issued => uai[u] = None
  BY DEF FiledOnce, RequestMapsInverse
<1>3. CASE OnActiveRequest
  <2> DEFINE d == Current("ACTIVE").ch
  <2>1. /\ d \in Channel /\ ~Lacks(queue["ACTIVE"], Asks(d))
        /\ \/ \E u \in Uuid \ issued :
                /\ cu' = [cu EXCEPT ![d] = u] /\ uai' = [uai EXCEPT ![u] = d]
                /\ issued' = issued \cup {u}
           \/ UNCHANGED <<cu, uai, issued>>
    <3>1. /\ Current("ACTIVE") \in Asks(d) /\ queue["ACTIVE"] # <<>>
      BY <1>3, RequestEffect
    <3>2. queue["ACTIVE"] \in Seq(Msg)
      BY DEF Typed, TypedBus, Module
    <3>3. ~Lacks(queue["ACTIVE"], Asks(d))
      BY <3>1, <3>2, TailStill DEF Current
    <3> QED BY <1>3, <3>3, RequestEffect
  <2> HIDE DEF d
  <2>2. cu[d] = None
    <3>1. OneRequest(d)
      BY <2>1
    <3> QED BY <2>1, <3>1, AtIs DEF OneRequest, OnePlace, Places
  <2>3. ASSUME NEW u \in Uuid \ issued, cu' = [cu EXCEPT ![d] = u],
               uai' = [uai EXCEPT ![u] = d], issued' = issued \cup {u}
        PROVE  FiledOnce'
    <3>1. \A v \in Uuid, c \in Channel : uai'[v] = c <=> cu'[c] = v
      BY <1>1, <1>2, <2>1, <2>2, <2>3
    <3>2. \A v \in Uuid : v \notin issued' => uai'[v] = None
      BY <1>1, <1>2, <2>3
    <3> QED BY <3>1, <3>2 DEF FiledOnce, RequestMapsInverse
  <2> QED BY <1>2, <2>1, <2>3 DEF FiledOnce, RequestMapsInverse
<1>4. CASE OnActiveAck
  <2> DEFINE u == Current("ACTIVE").key
             d == uai[u]
  <2>1. /\ u \in Uuid /\ d \in Channel /\ cu' = [cu EXCEPT ![d] = None]
        /\ uai' = [uai EXCEPT ![u] = None] /\ issued' = issued
    BY <1>4, AckEffect
  <2>2. cu[d] = u
    BY <1>2, <2>1
  <2> HIDE DEF u, d
  <2>3. \A v \in Uuid, c \in Channel : uai'[v] = c <=> cu'[c] = v
    BY <1>1, <1>2, <2>1, <2>2
  <2>4. \A v \in Uuid : v \notin issued' => uai'[v] = None
    BY <1>1, <1>2, <2>1
  <2> QED BY <2>3, <2>4 DEF FiledOnce, RequestMapsInverse
<1>5. CASE ~OnActiveRequest /\ ~OnActiveAck
  <2>1. ASSUME NEW d \in Channel, cu' = [cu EXCEPT ![d] = None],
               uai' = [u \in Uuid |-> IF u = cu[d] THEN None ELSE uai[u]],
               issued' = issued
        PROVE  FiledOnce'
    <3>1. \A v \in Uuid, c \in Channel : uai'[v] = c <=> cu'[c] = v
      BY <1>1, <1>2, <2>1
    <3>2. \A v \in Uuid : v \notin issued' => uai'[v] = None
      BY <1>1, <1>2, <2>1
    <3> QED BY <3>1, <3>2 DEF FiledOnce, RequestMapsInverse
  <2>2. CASE UNCHANGED <<cu, uai, issued>>
    BY <2>2 DEF FiledOnce, RequestMapsInverse
  <2> QED BY <1>5, <2>1, <2>2, ActiveOtherEffect
<1> QED BY <1>3, <1>4, <1>5

\* Every step keeps requests in one place and filed once.
LEMMA NextFiled == Typed /\ ReleaseInv /\ Filed /\ [Next]_vars => Filed'
<1> SUFFICES ASSUME Typed, ReleaseInv, Filed, [Next]_vars PROVE Filed'
  OBVIOUS
<1>1. /\ PostsAllowed /\ FiledOnce
      /\ \A c \in Channel : OneLife(c) /\ OneRequest(c)
  BY DEF ReleaseInv, Filed
<1>2. CASE ActiveStep
  <2>1. FiledOnce'
    BY <1>1, <1>2, ActiveStepFiled
  <2>2. \A c \in Channel : OneRequest(c)'
    BY <1>1, <1>2, ActiveStepOne
  <2> QED BY <2>1, <2>2 DEF Filed
<1>3. CASE ~ActiveStep
  <2>1. UNCHANGED <<cu, uai, issued>>
    BY <1>3 DEF Next, CommuStep, SelectStep, AuthStep, UpdateStep, PostStep, TimerStep,
                HostStep, GiveUpStep, KafkaStep, vars, actVars
  <2>2. FiledOnce'
    BY <1>1, <2>1 DEF FiledOnce, RequestMapsInverse
  <2>3. ASSUME NEW c \in Channel PROVE OneRequest(c)'
    <3>1. CASE CommuStep
      BY <1>1, <3>1, CommuStepOne
    <3>2. CASE \E d \in Channel : SelectStep(d)
      BY <1>1, <3>2, SelectStepOne
    <3>3. CASE \E h \in Host : HostStep(h)
      BY <1>1, <3>3, HostStepOne
    <3>4. CASE PostStep("ACTIVE")
      BY <1>1, <3>4, ActivePostOne
    <3>5. CASE \/ AuthStep \/ UpdateStep \/ KafkaStep \/ TimerStep
               \/ (\E m \in Module : m # "ACTIVE" /\ PostStep(m))
               \/ (\E d \in Channel : GiveUpStep(d)) \/ UNCHANGED vars
      BY <1>1, <3>5, SilentStepOne
    <3> QED BY <1>3, <3>1, <3>2, <3>3, <3>4, <3>5 DEF Next
  <2> QED BY <2>2, <2>3 DEF Filed
<1> QED BY <1>2, <1>3

\* A request for activation, or its answer, is in one place at a time.
THEOREM FiledAlways == Spec => []Filed
<1>1. Init => Filed
  <2> SUFFICES ASSUME Init PROVE Filed
    OBVIOUS
  <2>1. /\ \A m \in Module : queue[m] = <<>> /\ out[m] = <<>>
        /\ \A c \in Channel : inbox[c] = <<>> /\ wire[c] = <<>> /\ cu[c] = None
        /\ \A u \in Uuid : uai[u] = None
        /\ "ACTIVE" \in Module /\ "COMMU" \in Module
        /\ None \notin Uuid /\ None \notin Channel
    BY DispatcherAssumption DEF Init, BusInit, CommuInit, ActInit, Module, Channel
  <2>2. FiledOnce
    BY <2>1 DEF FiledOnce, RequestMapsInverse
  <2>3. \A A : Lacks(<<>>, A) /\ Once(<<>>, A)
    BY DEF Lacks, Once
  <2>4. ASSUME NEW c \in Channel PROVE OneRequest(c)
    <3>1. Single(c)
      BY <2>1, <2>3 DEF Single
    <3>2. \A p \in Places : ~At(p, c)
      BY <2>1, <2>3, AtIs DEF Places
    <3>3. OnePlace(c)
      BY <3>2 DEF OnePlace, Places
    <3> QED BY <3>1, <3>2, <3>3 DEF OneRequest
  <2> QED BY <2>2, <2>4 DEF Filed
<1> QED BY <1>1, NextFiled, TypedAlways, ReleaseAlways, PTL DEF Spec

\* m_mapCu and m_mapUai are inverse, whatever order the answers of the
\* controller and the ends of the channels come in: both handlers may use what
\* they find in one map in the other, unchecked.
THEOREM RequestMapsAlways == Spec => []RequestMapsInverse
<1>1. Filed => RequestMapsInverse
  BY DEF Filed, FiledOnce
<1> QED BY <1>1, FiledAlways, PTL
-----------------------------------------------------------------------------
(* Answers are counted. *)

\* What is there once is counted once.
LEMMA OnceCounts ==
  ASSUME NEW s, NEW A
  PROVE  LET n == Cardinality({i \in DOMAIN s : s[i] \in A})
         IN  /\ Lacks(s, A) => n = 0
             /\ Once(s, A) => n \in {0, 1}
<1> DEFINE S == {i \in DOMAIN s : s[i] \in A}
<1>1. ASSUME Lacks(s, A) PROVE Cardinality(S) = 0
  <2>1. S = {}
    BY <1>1 DEF Lacks
  <2> QED BY <2>1, FS_EmptySet
<1>2. ASSUME Once(s, A), ~Lacks(s, A) PROVE Cardinality(S) = 1
  <2>1. PICK i \in DOMAIN s : s[i] \in A
    BY <1>2 DEF Lacks
  <2>2. S = {i}
    BY <1>2, <2>1 DEF Once
  <2> QED BY <2>2, FS_Singleton
<1> QED BY <1>1, <1>2

\* A request is answered once at most: however often the controller's answer is
\* repeated, one answer is about to be posted, posted or at the host.
THEOREM AnsweredOnceAlways == Spec => []AnsweredOnce
<1>1. Typed /\ Filed => AnsweredOnce
  <2> SUFFICES ASSUME Typed, Filed PROVE AnsweredOnce
    OBVIOUS
  <2> DEFINE Waiting(c) == {i \in DOMAIN queue["COMMU"] :
                              /\ queue["COMMU"][i].ch = c
                              /\ queue["COMMU"][i].body \in {"ACTV_SUC", "ACTV_ERR"}}
             Later(c) == {i \in DOMAIN out["ACTIVE"] :
                            /\ out["ACTIVE"][i].msg.ch = c
                            /\ out["ACTIVE"][i].msg.body \in {"ACTV_SUC", "ACTV_ERR"}}
             AtHost(c) == {i \in DOMAIN inbox[c] :
                             /\ inbox[c][i].ch = c
                             /\ inbox[c][i].body \in {"ACTV_SUC", "ACTV_ERR"}}
  <2>1. SUFFICES \A c \in Channel :
          Cardinality(Waiting(c)) + Cardinality(Later(c)) + Cardinality(AtHost(c)) <= 1
    BY DEF AnsweredOnce
  <2> SUFFICES ASSUME NEW c \in Channel
               PROVE  Cardinality(Waiting(c)) + Cardinality(Later(c))
                      + Cardinality(AtHost(c)) <= 1
    OBVIOUS
  <2>2. /\ queue["COMMU"] \in Seq(Msg) /\ out["ACTIVE"] \in Seq(GoodPost)
        /\ inbox[c] \in Seq(CommuMsg)
    BY DEF Typed, TypedBus, TypedNet, Module
  <2>3. Waiting(c) = {i \in DOMAIN queue["COMMU"] : queue["COMMU"][i] \in Replies(c)}
    <3>1. \A i \in DOMAIN queue["COMMU"] : queue["COMMU"][i] \in Msg
      BY <2>2
    <3> QED BY <3>1 DEF Replies, ActvFrame
  <2>4. Later(c) = {i \in DOMAIN out["ACTIVE"] : out["ACTIVE"][i] \in ReplyPosts(c)}
    <3>1. \A i \in DOMAIN out["ACTIVE"] : out["ACTIVE"][i] \in GoodPost
      BY <2>2
    <3>2. \A i \in DOMAIN out["ACTIVE"] :
            out["ACTIVE"][i] \in Post /\ out["ACTIVE"][i].msg \in Msg
      BY <3>1 DEF GoodPost, Post
    <3> QED BY <3>2 DEF ReplyPosts, Replies, ActvFrame
  <2>5. AtHost(c) = {i \in DOMAIN inbox[c] : inbox[c][i] \in Replies(c)}
    <3>1. \A i \in DOMAIN inbox[c] : inbox[c][i] \in Msg
      BY <2>2 DEF CommuMsg, Kinds, OnChannel
    <3> QED BY <3>1 DEF Replies, ActvFrame
  <2> HIDE DEF Waiting, Later, AtHost
  <2>6. Single(c) /\ OnePlace(c)
    BY DEF Filed, OneRequest
  <2>7. /\ Cardinality(Waiting(c)) \in {0, 1} /\ Cardinality(Later(c)) \in {0, 1}
        /\ Cardinality(AtHost(c)) \in {0, 1}
    <3>1. /\ Once(queue["COMMU"], Replies(c)) /\ Once(out["ACTIVE"], ReplyPosts(c))
          /\ Once(inbox[c], Replies(c))
      BY <2>6 DEF Single
    <3>2. Cardinality(Waiting(c)) \in {0, 1}
      BY <2>3, <3>1, OnceCounts
    <3>3. Cardinality(Later(c)) \in {0, 1}
      BY <2>4, <3>1, OnceCounts
    <3>4. Cardinality(AtHost(c)) \in {0, 1}
      BY <2>5, <3>1, OnceCounts
    <3> QED BY <3>2, <3>3, <3>4
  <2>8. /\ ~At("commu", c) => Cardinality(Waiting(c)) = 0
        /\ ~At("post", c) => Cardinality(Later(c)) = 0
        /\ ~At("host", c) => Cardinality(AtHost(c)) = 0
    BY <2>3, <2>4, <2>5, AtIs, OnceCounts
  <2>9. /\ ~At("commu", c) \/ ~At("post", c)
        /\ ~At("commu", c) \/ ~At("host", c)
        /\ ~At("post", c) \/ ~At("host", c)
    BY <2>6 DEF OnePlace, Places
  <2> QED BY <2>7, <2>8, <2>9
<1> QED BY <1>1, TypedAlways, FiledAlways, PTL
-----------------------------------------------------------------------------
(* The controller is told first. *)

\* What is said of the next state.
LEMMA ToldIs ==
  \A u : Told(u)' <=> u \in reported' \/ ~Lacks(queue'["KAFKA"], Tells(u))
BY DEF Told, Lacks

LEMMA ReportFirstIs ==
  ReportFirst' <=>
    (faults' = 0 =>
       /\ \A i \in DOMAIN out'["ACTIVE"] : out'["ACTIVE"][i].msg \notin Early'
       /\ Lacks(queue'["COMMU"], Early')
       /\ \A c \in Channel : Lacks(inbox'[c], Early')
       /\ \A h \in Install :
            act'[h] # None =>
              act'[h] \in reported' \/ ~Lacks(queue'["KAFKA"], Tells(act'[h])))
BY DEF Told, ReportFirst, Lacks, Tells

\* The controller takes its next message.
LEMMA ConsumeTells ==
  ASSUME TypedBus, queue["KAFKA"] # <<>>, queue'["KAFKA"] = Tail(queue["KAFKA"]), NEW u,
         ~Lacks(queue["KAFKA"], Tells(u))
  PROVE  \/ ~Lacks(queue'["KAFKA"], Tells(u))
         \/ Current("KAFKA").body = "active_suc" /\ Current("KAFKA").key = u
<1>1. queue["KAFKA"] \in Seq(Msg)
  BY DEF TypedBus, Module
<1>2. Head(queue["KAFKA"]) \notin Tells(u) => ~Lacks(Tail(queue["KAFKA"]), Tells(u))
  BY <1>1, TailKeeps
<1> QED BY <1>2 DEF Current, Tells

LEMMA KafkaStepTold ==
  ASSUME Typed, KafkaStep, faults' = 0, NEW u, Told(u)
  PROVE  Told(u)'
<1>1. /\ TypedBus /\ faults \in Nat /\ "KAFKA" \in Module
      /\ queue \in [Module -> Seq(Msg)] /\ reported \subseteq reported'
  BY KafkaAssumption
     DEF Typed, TypedBus, KafkaTypeOK, Module, KafkaStep, KafkaConsume, KafkaAnswer,
         UpToDate, DealActiveSuc, DealUpdateResult, KafkaFault, KafkaRepeat, KafkaLose,
         DealPublish, kafkaVars
<1>2. SUFFICES ASSUME ~Lacks(queue["KAFKA"], Tells(u))
               PROVE  u \in reported' \/ ~Lacks(queue'["KAFKA"], Tells(u))
  BY <1>1, ToldIs DEF Told
<1>3. CASE KafkaAnswer
  <2>1. ASSUME NEW m \in {"AUTH", "ACTIVE", "UPDATE"}, NEW body,
               Answer(m, body, Tail(queue["KAFKA"]))
        PROVE  queue'["KAFKA"] = Tail(queue["KAFKA"])
    BY <1>1, <2>1 DEF Answer
  <2>2. /\ queue["KAFKA"] # <<>> /\ Current("KAFKA").body # "active_suc"
        /\ queue'["KAFKA"] = Tail(queue["KAFKA"])
    BY <1>3, <2>1 DEF KafkaAnswer, DealAuthen, DealActive, DealUpdateCheck, Request
  <2> QED BY <1>1, <1>2, <2>2, ConsumeTells
<1>4. CASE UpToDate \/ DealUpdateResult
  <2>1. /\ queue["KAFKA"] # <<>> /\ Current("KAFKA").body # "active_suc"
        /\ queue'["KAFKA"] = Tail(queue["KAFKA"])
    BY <1>1, <1>4 DEF UpToDate, DealUpdateResult, Request, Consume
  <2> QED BY <1>1, <1>2, <2>1, ConsumeTells
<1>5. CASE DealActiveSuc
  <2>1. /\ queue["KAFKA"] # <<>> /\ reported' = reported \cup {Current("KAFKA").key}
        /\ queue'["KAFKA"] = Tail(queue["KAFKA"])
    BY <1>1, <1>5 DEF DealActiveSuc, Request, Consume
  <2> QED BY <1>1, <1>2, <2>1, ConsumeTells
<1>6. CASE KafkaFault
  BY <1>1, <1>6 DEF KafkaFault, KafkaRepeat, KafkaLose
<1>7. CASE \E r \in Rid : DealPublish(r)
  <2>1. queue'["KAFKA"] = queue["KAFKA"]
    BY <1>1, <1>7 DEF DealPublish, PostMsg, Posted, To
  <2> QED BY <1>2, <2>1
<1> QED BY <1>3, <1>4, <1>5, <1>6, <1>7 DEF KafkaStep, KafkaConsume

\* What the controller knows or is going to be told stays so.
LEMMA ToldKept ==
  ASSUME Typed, PostsAllowed, [Next]_vars, faults' = 0, NEW u, Told(u)
  PROVE  Told(u)'
<1>1. TypedBus /\ "KAFKA" \in Module
  BY DEF Typed, Module
<1>2. ASSUME NEW E, Adds("KAFKA", E), UNCHANGED reported
      PROVE  Told(u)'
  <2>1. ~Lacks(queue["KAFKA"], Tells(u)) => ~Lacks(queue'["KAFKA"], Tells(u))
    <3>1. E \cap {} = {}
      OBVIOUS
    <3> QED BY <1>1, <1>2, <3>1, AddsKeeps
  <2> QED BY <1>2, <2>1, ToldIs DEF Told
<1>3. CASE KafkaStep
  BY <1>3, KafkaStepTold
<1>4. CASE CommuStep \/ AuthStep \/ UpdateStep \/ ActiveStep \/ \E m \in Module : PostStep(m)
  <2>1. UNCHANGED reported
    BY <1>4 DEF CommuStep, AuthStep, UpdateStep, ActiveStep, PostStep, kafkaVars
  <2>2. Adds("KAFKA", Plain) \/ Adds("KAFKA", Inner)
    <3>1. CASE CommuStep \/ UpdateStep \/ ActiveStep
      BY <1>1, <3>1, CommuStepPlain, UpdateStepPlain, ActiveStepPlain DEF PlainStep
    <3>2. CASE AuthStep
      BY <1>1, <3>2, AuthStepInner
    <3>3. CASE \E m \in Module : PostStep(m)
      <4>1. PlainStep("COMMU")
        BY <3>3, PostStepPlain DEF Module
      <4> QED BY <1>1, <4>1 DEF PlainStep
    <3> QED BY <1>4, <3>1, <3>2, <3>3
  <2> QED BY <1>2, <2>1, <2>2
<1>5. CASE \/ TimerStep \/ (\E d \in Channel : SelectStep(d) \/ GiveUpStep(d))
           \/ (\E h \in Host : HostStep(h)) \/ UNCHANGED vars
  <2>1. UNCHANGED reported
    BY <1>5 DEF TimerStep, SelectStep, GiveUpStep, HostStep, vars, kafkaVars
  <2>2. queue'["KAFKA"] = queue["KAFKA"]
    <3>1. ASSUME NEW d \in Channel, SelectStep(d) PROVE queue'["KAFKA"] = queue["KAFKA"]
      BY <1>1, <3>1, ReadDataAdds, OnDelAdds DEF SelectStep
    <3>2. ASSUME NEW h \in Host, HostStep(h) PROVE queue'["KAFKA"] = queue["KAFKA"]
      BY <1>1, <3>2, ConnectAdds, HostStepReports DEF busVars
    <3>3. CASE TimerStep \/ (\E d \in Channel : GiveUpStep(d)) \/ UNCHANGED vars
      BY <3>3 DEF TimerStep, OnTimer, GiveUpStep, GiveUp, vars, busVars
    <3> QED BY <1>5, <3>1, <3>2, <3>3
  <2>3. Adds("KAFKA", {})
    BY <2>2 DEF Adds
  <2> QED BY <1>2, <2>1, <2>3
<1> QED BY <1>3, <1>4, <1>5 DEF Next

\* No answer becomes early.
LEMMA EarlyShrinks ==
  ASSUME Typed, PostsAllowed, [Next]_vars, faults' = 0
  PROVE  /\ faults = 0 /\ Early' \subseteq Early
         /\ \A s : Lacks(s, Early) => Lacks(s, Early')
<1>1. \A m \in Msg : Told(m.key) => Told(m.key)'
  BY ToldKept
<1>2. Early' = {m \in Msg : ActvFrame(m) /\ m.key # None /\ ~Told(m.key)'}
  BY DEF Early, ActvFrame
<1>3. Early' \subseteq Early
  BY <1>1, <1>2 DEF Early
<1>4. faults = 0
  <2>1. faults \in Nat
    BY KafkaAssumption DEF Typed, KafkaTypeOK
  <2> QED BY <2>1 DEF Next, CommuStep, SelectStep, AuthStep, UpdateStep, ActiveStep, PostStep,
                      TimerStep, HostStep, GiveUpStep, KafkaStep, KafkaConsume, KafkaAnswer,
                      UpToDate, DealActiveSuc, DealUpdateResult, KafkaFault, KafkaRepeat,
                      KafkaLose, DealPublish, kafkaVars, vars
<1> QED BY <1>3, <1>4 DEF Lacks

\* A step that gives no early answer.
LEMMA ReportFirstKept ==
  ASSUME Typed, PostsAllowed, ReportFirst, [Next]_vars,
         faults = 0 =>
           /\ \A i \in DOMAIN out'["ACTIVE"] : out'["ACTIVE"][i].msg \notin Early
           /\ Lacks(queue'["COMMU"], Early)
           /\ \A c \in Channel : Lacks(inbox'[c], Early)
           /\ \A h \in Install : act'[h] # None => Told(act'[h])
  PROVE  ReportFirst'
<1> SUFFICES ASSUME faults' = 0
             PROVE  /\ \A i \in DOMAIN out'["ACTIVE"] : out'["ACTIVE"][i].msg \notin Early'
                    /\ Lacks(queue'["COMMU"], Early')
                    /\ \A c \in Channel : Lacks(inbox'[c], Early')
                    /\ \A h \in Install :
                         act'[h] # None =>
                           \/ act'[h] \in reported'
                           \/ ~Lacks(queue'["KAFKA"], Tells(act'[h]))
  BY ReportFirstIs
<1>1. /\ faults = 0 /\ Early' \subseteq Early
      /\ \A s : Lacks(s, Early) => Lacks(s, Early')
  BY EarlyShrinks
<1>2. ASSUME NEW u, Told(u)
      PROVE  u \in reported' \/ ~Lacks(queue'["KAFKA"], Tells(u))
  BY <1>2, ToldKept, ToldIs
<1>3. \A i \in DOMAIN out'["ACTIVE"] : out'["ACTIVE"][i].msg \notin Early'
  BY <1>1
<1>4. Lacks(queue'["COMMU"], Early') /\ \A c \in Channel : Lacks(inbox'[c], Early')
  BY <1>1
<1>5. \A h \in Install :
        act'[h] # None =>
          \/ act'[h] \in reported'
          \/ ~Lacks(queue'["KAFKA"], Tells(act'[h]))
  BY <1>1, <1>2
<1> QED BY <1>3, <1>4, <1>5

\* Threads that give no answer.
LEMMA SilentStepFirst ==
  ASSUME Typed, PostsAllowed, ReportFirst, [Next]_vars,
         \/ CommuStep \/ AuthStep \/ UpdateStep \/ KafkaStep \/ TimerStep
         \/ (\E m \in Module : m # "ACTIVE" /\ PostStep(m))
         \/ (\E d \in Channel : SelectStep(d) \/ GiveUpStep(d)) \/ UNCHANGED vars
  PROVE  ReportFirst'
<1>1. /\ act' = act /\ TypedBus /\ "ACTIVE" \in Module /\ "COMMU" \in Module
      /\ queue["COMMU"] \in Seq(Msg)
  BY DEF CommuStep, AuthStep, UpdateStep, KafkaStep, TimerStep, PostStep, SelectStep,
         GiveUpStep, GiveUp, vars, hostVars, Typed, TypedBus, Module
<1>2. /\ AllGet(Silent) \/ UNCHANGED queue \/ \E d \in Channel : SelectStep(d)
      /\ out'["ACTIVE"] = out["ACTIVE"]
  <2>1. CASE CommuStep
    BY <1>1, <2>1, CommuStepGets
  <2>2. CASE AuthStep
    BY <1>1, <2>2, AuthStepGets
  <2>3. CASE UpdateStep
    BY <1>1, <2>3, UpdateStepGets
  <2>4. CASE KafkaStep
    BY <2>4, KafkaStepGets
  <2>5. CASE \E m \in Module : m # "ACTIVE" /\ PostStep(m)
    BY <1>1, <2>5, PostStepGets
  <2>6. CASE \E d \in Channel : SelectStep(d)
    BY <2>6, ReadDataAdds, OnDelAdds DEF SelectStep
  <2>7. CASE TimerStep \/ (\E d \in Channel : GiveUpStep(d)) \/ UNCHANGED vars
    BY <2>7 DEF TimerStep, OnTimer, GiveUpStep, GiveUp, vars, busVars
  <2> QED BY <2>1, <2>2, <2>3, <2>4, <2>5, <2>6, <2>7
<1>3. ASSUME faults = 0 PROVE Lacks(queue'["COMMU"], Early)
  <2>1. Lacks(queue["COMMU"], Early)
    BY <1>3 DEF ReportFirst
  <2>2. CASE AllGet(Silent)
    <3>1. Silent \cap Early = {} /\ Gets("COMMU", Silent)
      BY <1>1, <2>2 DEF Silent, Early, AllGet
    <3> QED BY <1>1, <2>1, <3>1, GetsKeeps
  <2>3. ASSUME NEW d \in Channel, SelectStep(d) PROVE Lacks(queue'["COMMU"], Early)
    <3>1. CASE ReadData(d)
      <4>1. queue'["COMMU"] = queue["COMMU"]
        BY <1>1, <3>1, ReadDataAdds
      <4> QED BY <2>1, <4>1
    <3>2. CASE OnDel(d)
      <4>1. queue'["COMMU"] = Append(queue["COMMU"], Notice("DEL", d))
        BY <3>2, OnDelAdds
      <4>2. Notice("DEL", d) \notin Early
        BY DEF Notice, Early, ActvFrame
      <4> QED BY <1>1, <2>1, <4>1, <4>2, AppendKeeps
    <3> QED BY <2>3, <3>1, <3>2 DEF SelectStep
  <2> QED BY <1>2, <2>1, <2>2, <2>3
<1>4. ASSUME faults = 0, NEW c \in Channel PROVE Lacks(inbox'[c], Early)
  <2>1. Lacks(inbox[c], Early) /\ Lacks(queue["COMMU"], Early)
    BY <1>4 DEF ReportFirst
  <2>2. CASE CommuStep
    <3>1. /\ Current("COMMU") \notin Early /\ inbox[c] \in Seq(CommuMsg)
          /\ inbox'[c] = inbox[c] \/ inbox'[c] = Append(inbox[c], Current("COMMU"))
      BY <2>1, <2>2, CommuStepInbox DEF Lacks
    <3>2. Lacks(Append(inbox[c], Current("COMMU")), Early)
      BY <2>1, <3>1, AppendKeeps
    <3> QED BY <2>1, <3>1, <3>2
  <2>3. CASE ~CommuStep
    <3>1. inbox' = inbox
      BY <2>3 DEF AuthStep, UpdateStep, KafkaStep, TimerStep, PostStep, SelectStep, ReadData,
                  OnDel, GiveUpStep, GiveUp, vars, netVars
    <3> QED BY <2>1, <3>1
  <2> QED BY <2>2, <2>3
<1> QED BY <1>1, <1>2, <1>3, <1>4, ReportFirstKept DEF ReportFirst

\* A host stores the code it is given.
LEMMA HostStepFirst ==
  ASSUME Typed, PostsAllowed, ReportFirst, [Next]_vars, NEW h \in Host, HostStep(h)
  PROVE  ReportFirst'
<1>1. /\ TypedBus /\ "ACTIVE" \in Module /\ "COMMU" \in Module
      /\ queue["COMMU"] \in Seq(Msg) /\ act \in [Install -> Uuid \cup {None}]
      /\ inbox \in [Channel -> Seq(CommuMsg)] /\ cur \in [Host -> Channel \cup {None}]
  BY DEF Typed, TypedBus, TypedNet, HostTypeOK, Module
<1>2. ASSUME faults = 0
      PROVE  /\ \A i \in DOMAIN out'["ACTIVE"] : out'["ACTIVE"][i].msg \notin Early
             /\ Lacks(queue'["COMMU"], Early)
  <2>1. Lacks(queue["COMMU"], Early)
    BY <1>2 DEF ReportFirst
  <2>2. CASE Connect(h)
    <3>1. queue'["COMMU"] = Append(queue["COMMU"], Notice("NEW", ullIndex)) /\ out' = out
      BY <2>2, ConnectAdds
    <3>2. Notice("NEW", ullIndex) \notin Early
      BY DEF Notice, Early, ActvFrame
    <3>3. Lacks(Append(queue["COMMU"], Notice("NEW", ullIndex)), Early)
      BY <1>1, <2>1, <3>2, AppendKeeps
    <3> QED BY <1>2, <3>1, <3>3 DEF ReportFirst
  <2>3. CASE ~Connect(h)
    <3>1. UNCHANGED <<queue, out>>
      BY <2>3, HostStepReports DEF busVars
    <3> QED BY <1>2, <3>1 DEF ReportFirst
  <2> QED BY <2>2, <2>3
<1>3. ASSUME faults = 0, NEW c \in Channel PROVE Lacks(inbox'[c], Early)
  <2>1. Lacks(inbox[c], Early)
    BY <1>3 DEF ReportFirst
  <2> QED BY <2>1, HostStepShrinks, ShrinksKeeps
<1>4. ASSUME faults = 0, NEW g \in Install, act'[g] # None PROVE Told(act'[g])
  <2>1. CASE act' = act
    BY <1>4, <2>1 DEF ReportFirst
  <2>2. CASE OnActivated(h)
    <3> DEFINE m == Head(inbox[cur[h]])
    <3>1. /\ cur[h] \in Channel /\ inbox[cur[h]] # <<>> /\ ActvFrame(m)
          /\ act' = [act EXCEPT ![h] = m.key]
      BY <1>1, <2>2 DEF OnActivated, Answered, ActvFrame
    <3>2. inbox[cur[h]] \in Seq(CommuMsg) /\ Lacks(inbox[cur[h]], Early)
      BY <1>1, <1>4, <3>1 DEF ReportFirst
    <3>3. m \in Msg /\ m \notin Early
      <4>1. m \in CommuMsg
        BY <3>1, <3>2
      <4>2. m \notin Early
        BY <3>1, <3>2, TailKeeps
      <4> QED BY <4>1, <4>2 DEF CommuMsg, Kinds, OnChannel
    <3> HIDE DEF m
    <3>4. m.key # None => Told(m.key)
      BY <3>1, <3>3 DEF Early
    <3> QED BY <1>1, <1>4, <3>1, <3>4 DEF ReportFirst
  <2>3. CASE ~OnActivated(h)
    <3>1. act' = act
      BY <2>3 DEF HostStep, HostReceive, Connect, Disconnect, SeeClosed, OnAuthSucceeded,
                  OnUpdate, ReportResult, OnKeepAlive, OnAuthRefused, Reply
    <3> QED BY <2>1, <3>1
  <2> QED BY <2>2, <2>3
<1> QED BY <1>2, <1>3, <1>4, ReportFirstKept

\* The activation module posts the answer.
LEMMA ActivePostFirst ==
  ASSUME Typed, PostsAllowed, ReportFirst, [Next]_vars, PostStep("ACTIVE")
  PROVE  ReportFirst'
<1> DEFINE p == Head(out["ACTIVE"])
<1>1. /\ UNCHANGED <<inbox, act>> /\ TypedBus /\ Dispatch("ACTIVE")
      /\ "ACTIVE" \in Module /\ "COMMU" \in Module
      /\ queue["COMMU"] \in Seq(Msg) /\ out["ACTIVE"] \in Seq(GoodPost) /\ out["ACTIVE"] # <<>>
  BY DEF PostStep, Dispatch, netVars, hostVars, Typed, TypedBus, Module
<1>2. /\ out'["ACTIVE"] = Tail(out["ACTIVE"])
      /\ queue'["COMMU"] = queue["COMMU"] \/ queue'["COMMU"] = Append(queue["COMMU"], p.msg)
  BY <1>1, DispatchGets DEF TypedBus
<1>3. /\ p = out["ACTIVE"][1] /\ 1 \in DOMAIN out["ACTIVE"]
      /\ \A i \in DOMAIN Tail(out["ACTIVE"]) :
           i + 1 \in DOMAIN out["ACTIVE"] /\ Tail(out["ACTIVE"])[i] = out["ACTIVE"][i + 1]
  BY <1>1, TailAt
<1> HIDE DEF p
<1>4. ASSUME faults = 0
      PROVE  /\ \A i \in DOMAIN out'["ACTIVE"] : out'["ACTIVE"][i].msg \notin Early
             /\ Lacks(queue'["COMMU"], Early)
  <2>1. Lacks(queue["COMMU"], Early) /\ p.msg \notin Early
    BY <1>3, <1>4 DEF ReportFirst
  <2>2. Lacks(Append(queue["COMMU"], p.msg), Early)
    BY <1>1, <2>1, AppendKeeps
  <2>3. \A i \in DOMAIN out'["ACTIVE"] : out'["ACTIVE"][i].msg \notin Early
    BY <1>2, <1>3, <1>4 DEF ReportFirst
  <2> QED BY <1>2, <2>1, <2>2, <2>3
<1> QED BY <1>1, <1>4, ReportFirstKept DEF ReportFirst

\* The code goes to the controller before the answer goes to the host.
LEMMA ActiveStepFirst ==
  ASSUME Typed, PostsAllowed, ReportFirst, [Next]_vars, ActiveStep
  PROVE  ReportFirst'
<1>1. /\ UNCHANGED <<inbox, act>> /\ TypedBus /\ "KAFKA" \in Module
      /\ queue["COMMU"] \in Seq(Msg) /\ queue["KAFKA"] \in Seq(Msg)
  BY DEF ActiveStep, netVars, hostVars, Typed, TypedBus, Module
<1>2. \A d \in Channel : /\ Frame("SEND", d, "ACTV_ERR", None) \notin Early
                         /\ Notice("FREE", d) \notin Early
  BY DEF Frame, Notice, Early, ActvFrame
<1>3. ASSUME NEW e, e \notin Early, faults = 0,
             queue'["COMMU"] = queue["COMMU"] \/ queue'["COMMU"] = Append(queue["COMMU"], e)
      PROVE  Lacks(queue'["COMMU"], Early)
  <2>1. Lacks(queue["COMMU"], Early)
    BY <1>3 DEF ReportFirst
  <2>2. Lacks(Append(queue["COMMU"], e), Early)
    BY <1>1, <1>3, <2>1, AppendKeeps
  <2> QED BY <1>3, <2>1, <2>2
<1>4. CASE ~OnActiveAck
  <2>1. /\ out'["ACTIVE"] = <<>>
        /\ \/ queue'["COMMU"] = queue["COMMU"]
           \/ \E d \in Channel :
                \/ queue'["COMMU"] = Append(queue["COMMU"], Frame("SEND", d, "ACTV_ERR", None))
                \/ queue'["COMMU"] = Append(queue["COMMU"], Notice("FREE", d))
    BY <1>4, RequestEffect, ActiveOtherEffect
  <2>2. faults = 0 => Lacks(queue'["COMMU"], Early)
    <3>1. CASE queue'["COMMU"] = queue["COMMU"]
      BY <3>1 DEF ReportFirst
    <3> QED BY <1>2, <1>3, <2>1, <3>1
  <2> QED BY <1>1, <2>1, <2>2, ReportFirstKept DEF ReportFirst
<1>5. CASE OnActiveAck
  <2>1. PICK u \in Uuid, d \in Channel : u = Current("ACTIVE").key /\ d = uai[u]
    BY <1>5, AckEffect
  <2> DEFINE err == Frame("SEND", d, "ACTV_ERR", None)
             suc == Frame("SEND", d, "ACTV_SUC", u)
             free == Notice("FREE", d)
             told == Json("SND2KAFKA", "active_suc", u)
  <2>2. \/ /\ queue'["COMMU"] = queue["COMMU"]
           /\ queue'["KAFKA"] = Append(queue["KAFKA"], told)
           /\ out'["ACTIVE"] = <<To("COMMU", suc), To("COMMU", free)>>
        \/ /\ queue'["COMMU"] = Append(queue["COMMU"], err)
           /\ out'["ACTIVE"] = <<To("COMMU", free)>>
    BY <1>5, <2>1, AckEffect
  <2>3. /\ told \in Tells(u) /\ suc.key = u /\ err \notin Early /\ free \notin Early
    BY <1>2 DEF Json, Tells, Msg, Kind, Body, Frame
  <2> HIDE DEF err, suc, free, told
  <2>4. /\ To("COMMU", free).msg = free /\ To("COMMU", suc).msg = suc
    BY DEF To
  <2>5. CASE queue'["COMMU"] = Append(queue["COMMU"], err) /\ out'["ACTIVE"] = <<To("COMMU", free)>>
    <3>1. \A i \in DOMAIN out'["ACTIVE"] : out'["ACTIVE"][i].msg \notin Early
      <4>1. \A i \in DOMAIN <<To("COMMU", free)>> : <<To("COMMU", free)>>[i] = To("COMMU", free)
        OBVIOUS
      <4> QED BY <2>3, <2>4, <2>5, <4>1
    <3>2. faults = 0 => Lacks(queue'["COMMU"], Early)
      BY <1>3, <2>3, <2>5
    <3> QED BY <1>1, <3>1, <3>2, ReportFirstKept DEF ReportFirst
  <2>6. CASE /\ queue'["COMMU"] = queue["COMMU"]
             /\ queue'["KAFKA"] = Append(queue["KAFKA"], told)
             /\ out'["ACTIVE"] = <<To("COMMU", suc), To("COMMU", free)>>
    <3>1. SUFFICES ASSUME faults' = 0
                   PROVE  /\ \A i \in DOMAIN out'["ACTIVE"] : out'["ACTIVE"][i].msg \notin Early'
                          /\ Lacks(queue'["COMMU"], Early')
                          /\ \A c \in Channel : Lacks(inbox'[c], Early')
                          /\ \A h \in Install :
                               act'[h] # None =>
                                 \/ act'[h] \in reported'
                                 \/ ~Lacks(queue'["KAFKA"], Tells(act'[h]))
      BY ReportFirstIs
    <3>2. /\ faults = 0 /\ Early' \subseteq Early
          /\ \A s : Lacks(s, Early) => Lacks(s, Early')
      BY <3>1, EarlyShrinks
    <3>3. suc \notin Early'
      <4> DEFINE s == queue["KAFKA"]
      <4>1. s \in Seq(Msg) /\ queue'["KAFKA"] = Append(s, told)
        BY <1>1, <2>6
      <4> HIDE DEF s
      <4>2. ~Lacks(queue'["KAFKA"], Tells(u))
        <5>1. ~Lacks(Append(s, told), Tells(u))
          BY <2>3, <4>1, AppendKeeps
        <5> QED BY <4>1, <5>1
      <4>3. Told(u)'
        BY <4>2, ToldIs
      <4>4. Early' = {m \in Msg : ActvFrame(m) /\ m.key # None /\ ~Told(m.key)'}
        BY DEF Early, ActvFrame
      <4> QED BY <2>3, <4>3, <4>4
    <3>4. \A i \in DOMAIN out'["ACTIVE"] : out'["ACTIVE"][i].msg \notin Early'
      <4>1. \A i \in DOMAIN <<To("COMMU", suc), To("COMMU", free)>> :
              <<To("COMMU", suc), To("COMMU", free)>>[i]
                \in {To("COMMU", suc), To("COMMU", free)}
        OBVIOUS
      <4>2. \A q \in {To("COMMU", suc), To("COMMU", free)} : q.msg \notin Early'
        BY <2>3, <2>4, <3>2, <3>3
      <4> QED BY <2>6, <4>1, <4>2
    <3>5. /\ Lacks(queue'["COMMU"], Early')
          /\ \A c \in Channel : Lacks(inbox'[c], Early')
      BY <1>1, <2>6, <3>2 DEF ReportFirst
    <3>6. ASSUME NEW h \in Install, act'[h] # None
          PROVE  act'[h] \in reported' \/ ~Lacks(queue'["KAFKA"], Tells(act'[h]))
      <4>1. Told(act[h])
        BY <1>1, <3>2, <3>6 DEF ReportFirst
      <4> QED BY <1>1, <3>1, <4>1, ToldKept, ToldIs
    <3> QED BY <3>4, <3>5, <3>6
  <2> QED BY <2>2, <2>5, <2>6
<1> QED BY <1>4, <1>5

\* A machine that has stored its activation is known to the controller, or its
\* code is on the way there, while kafka loses nothing: the activation module
\* tells the controller first, and the way of the code is never overtaken by
\* the way of the answer.
THEOREM ActivatedIsReportedAlways == Spec => []ActivatedIsReported
<1>1. Init => ReportFirst
  <2> SUFFICES ASSUME Init PROVE ReportFirst
    OBVIOUS
  <2>1. /\ out["ACTIVE"] = <<>> /\ queue["COMMU"] = <<>>
        /\ \A c \in Channel : inbox[c] = <<>>
        /\ \A h \in Install : act[h] = None
    BY DEF Init, BusInit, CommuInit, HostInit, Module
  <2> QED BY <2>1 DEF ReportFirst, Lacks
<1>2. Typed /\ ReleaseInv /\ ReportFirst /\ [Next]_vars => ReportFirst'
  <2> SUFFICES ASSUME Typed, ReleaseInv, ReportFirst, [Next]_vars PROVE ReportFirst'
    OBVIOUS
  <2>1. PostsAllowed
    BY DEF ReleaseInv
  <2>2. CASE ActiveStep
    BY <2>1, <2>2, ActiveStepFirst
  <2>3. CASE PostStep("ACTIVE")
    BY <2>1, <2>3, ActivePostFirst
  <2>4. CASE \E h \in Host : HostStep(h)
    BY <2>1, <2>4, HostStepFirst
  <2>5. CASE \/ CommuStep \/ AuthStep \/ UpdateStep \/ KafkaStep \/ TimerStep
             \/ (\E m \in Module : m # "ACTIVE" /\ PostStep(m))
             \/ (\E d \in Channel : SelectStep(d) \/ GiveUpStep(d)) \/ UNCHANGED vars
    BY <2>1, <2>5, SilentStepFirst
  <2> QED BY <2>2, <2>3, <2>4, <2>5 DEF Next
<1>3. ReportFirst => ActivatedIsReported
  <2> SUFFICES ASSUME ReportFirst, faults = 0, NEW h \in Install, act[h] # None
               PROVE  \/ act[h] \in reported
                      \/ \E i \in DOMAIN queue["KAFKA"] :
                           /\ queue["KAFKA"][i].body = "active_suc"
                           /\ queue["KAFKA"][i].key = act[h]
    BY DEF ActivatedIsReported
  <2> QED BY DEF ReportFirst, Told, Lacks, Tells
<1> QED BY <1>1, <1>2, <1>3, TypedAlways, ReleaseAlways, PTL DEF Spec
-----------------------------------------------------------------------------
(* The way of a request for authentication. *)

\* The communication module knows channel c, or has closed it.
Entered(c) == c \in mapAC \/ sock[c] = "closed"

\* Messages about c but the one that makes it, and posts of other messages.
Of(c) == {m \in Msg : m.ch = c /\ m.kind \notin {"NEW", "RCVKAFKA"}}

Elsewhere(c) == {p \in Post : p.msg.ch # c}

\* No message is about c, and no map leads to it.
NoMail(c) ==
  /\ \A m \in Module : Lacks(queue[m], Of(c))
  /\ \A m \in Module : \A i \in DOMAIN out[m] : out[m][i].msg.ch # c

NoEntry(c) ==
  /\ \A r \in Rid : rcCh[r] # c /\ ruo[r] # c
  /\ \A u \in Uuid : uai[u] # c
  /\ cuo[c] = None /\ c \notin keepalive

\* A channel leaves its first trace when it is entered.
Fresh ==
  \A c \in Channel :
    /\ ~Entered(c) => NoMail(c) /\ NoEntry(c)
    /\ sock[c] = "none" <=> c >= ullIndex

\* A machine and its connection have each other.
Linked ==
  \A h \in Host, c \in Channel : cur[h] = c =>
    /\ peer[c] = "up" /\ c < ullIndex
    /\ \A g \in Host : cur[g] = c => g = h

\* The authentication module hears the end of a channel that has ended.
Ended(c) == {m \in Msg : m.kind \in {"FREED", "FAIL"} /\ m.ch = c}

EndsAreReal ==
  \A c \in Channel :
    ~Lacks(queue["AUTH"], Ended(c)) \/ Posting("COMMU", "AUTH", Ended(c)) =>
      sock[c] = "closed" \/ peer[c] # "up"

\* A request for authentication, the question and the decision about an id, what
\* goes to the machine, and what ends its connection instead.
Asking == {m \in Msg : m.kind = "RECV" /\ m.body \in {"AUTH", "AUTH_BADCODE"}}

Wants(r) == {m \in Msg : m.body = "auth" /\ m.key = r}

Decided(r) ==
  {m \in Msg : m.kind = "RCVKAFKA" /\ m.body \in {"auth_ack", "auth_nak"} /\ m.key = r}

Verdicts(c) ==
  {m \in Msg : m.kind = "SEND" /\ m.ch = c /\ m.body \in {"AUTH_SUC", "AUTH_FAI", "AUTH_DIF"}}

Replied(c) == Verdicts(c) \cup {Notice("FREE", c)}

\* The request that machine h has sent over c is under way.
Attended(h, c) ==
  \/ sock[c] = "closed"
  \/ ~Lacks(wire[c], Asking)
  \/ ~Lacks(queue["AUTH"], Asks(c))
  \/ /\ rcCh[RidOf[h]] = c
     /\ ~Lacks(queue["KAFKA"], Wants(RidOf[h])) \/ ~Lacks(queue["AUTH"], Decided(RidOf[h]))
  \/ ~Lacks(queue["COMMU"], Replied(c)) \/ Posting("AUTH", "COMMU", Replied(c))
  \/ ~Lacks(inbox[c], Verdicts(c))

NoneForgotten ==
  faults = 0 =>
    \A h \in Aods, c \in Channel : cur[h] = c /\ hst[h] = "conn" => Attended(h, c)

\* Posts about another channel, or about none.
LEMMA ElsewhereIs ==
  ASSUME NEW c \in Channel, NEW d \in Channel, c # d
  PROVE  /\ To("ACTIVE", Notice("BUILDED", d)) \in Elsewhere(c)
         /\ \A k \in {"FREED", "FAIL"} : Broadcast(Notice(k, d)) \in Seq(Elsewhere(c))
         /\ To("COMMU", Notice("FREE", d)) \in Elsewhere(c) /\ Free(d) \in Elsewhere(c)
         /\ To("COMMU", Frame("SEND", d, "ACTV_ERR", None)) \in Elsewhere(c)
         /\ \A u \in Uuid :
              /\ To("COMMU", Frame("SEND", d, "ACTV_SUC", u)) \in Elsewhere(c)
              /\ \A b \in {"active", "active_suc"} :
                   To("KAFKA", Json("SND2KAFKA", b, u)) \in Elsewhere(c)
         /\ \A r \in Rid :
              /\ \A b \in {"AUTH_SUC", "AUTH_FAI", "AUTH_DIF"} : Send(d, b, r) \in Elsewhere(c)
              /\ ToKafka("auth", r) \in Elsewhere(c)
              /\ To("UPDATE", Frame("AUTH_SUC", d, "-", r)) \in Elsewhere(c)
              /\ To("COMMU", Frame("SEND", d, "UMI", r)) \in Elsewhere(c)
              /\ \A b \in {"check_update", "update_result"} :
                   To("KAFKA", Json("SND2KAFKA", b, r)) \in Elsewhere(c)
<1>1. \A m : \A p \in MayPost(m) : p \in Post /\ (p.msg.ch # c => p \in Elsewhere(c))
  BY DEF MayPost, GoodPost, Elsewhere
<1>2. c # None
  BY DispatcherAssumption DEF Channel
<1>3. \A m : LaterPost(m) \subseteq MayPost(m)
  BY DEF LaterPost
<1>4. \A n : /\ \A k : To(n, Notice(k, d)).msg.ch = d
             /\ \A k, b, r : To(n, Frame(k, d, b, r)).msg.ch = d
             /\ \A k, b, r : To(n, Json(k, b, r)).msg.ch = None
  BY DEF To, Notice, Frame, Json
<1>5. Free(d) \in Elsewhere(c) /\ To("COMMU", Notice("FREE", d)) \in Elsewhere(c)
  BY <1>1, <1>3, <1>4, PostsMayBe DEF Free
<1>6. \A r \in Rid :
        /\ \A b \in {"AUTH_SUC", "AUTH_FAI", "AUTH_DIF"} : Send(d, b, r) \in Elsewhere(c)
        /\ ToKafka("auth", r) \in Elsewhere(c)
  <2> SUFFICES ASSUME NEW r \in Rid
               PROVE  /\ \A b \in {"AUTH_SUC", "AUTH_FAI", "AUTH_DIF"} :
                           Send(d, b, r) \in Elsewhere(c)
                      /\ ToKafka("auth", r) \in Elsewhere(c)
    OBVIOUS
  <2>1. /\ \A b \in {"AUTH_SUC", "AUTH_FAI", "AUTH_DIF"} :
             Send(d, b, r) \in MayPost("AUTH") /\ Send(d, b, r).msg.ch = d
        /\ ToKafka("auth", r) \in MayPost("AUTH") /\ ToKafka("auth", r).msg.ch = None
    BY <1>3, <1>4, PostsMayBe DEF Send, ToKafka
  <2> QED BY <1>1, <1>2, <2>1
<1>7. \A k \in {"FREED", "FAIL"}, n \in {"ACTIVE", "AUTH", "UPDATE"} :
        To(n, Notice(k, d)) \in Elsewhere(c)
  BY <1>1, <1>3, <1>4, PostsMayBe
<1>8. \A k \in {"FREED", "FAIL"} : Broadcast(Notice(k, d)) \in Seq(Elsewhere(c))
  BY <1>7 DEF Broadcast
<1>9. /\ To("ACTIVE", Notice("BUILDED", d)) \in Elsewhere(c)
      /\ To("COMMU", Frame("SEND", d, "ACTV_ERR", None)) \in Elsewhere(c)
  BY <1>1, <1>3, <1>4, PostsMayBe
<1>10. \A u \in Uuid :
         /\ To("COMMU", Frame("SEND", d, "ACTV_SUC", u)) \in Elsewhere(c)
         /\ \A b \in {"active", "active_suc"} :
              To("KAFKA", Json("SND2KAFKA", b, u)) \in Elsewhere(c)
  BY <1>1, <1>2, <1>3, <1>4, PostsMayBe
<1>11. \A r \in Rid :
         /\ To("UPDATE", Frame("AUTH_SUC", d, "-", r)) \in Elsewhere(c)
         /\ To("COMMU", Frame("SEND", d, "UMI", r)) \in Elsewhere(c)
         /\ \A b \in {"check_update", "update_result"} :
              To("KAFKA", Json("SND2KAFKA", b, r)) \in Elsewhere(c)
  BY <1>1, <1>2, <1>3, <1>4, PostsMayBe
<1> QED BY <1>5, <1>6, <1>8, <1>9, <1>10, <1>11

\* A handler that takes a message has one about another channel.
LEMMA CurrentElsewhere ==
  ASSUME TypedBus, NEW c \in Channel, NoMail(c), NEW m \in Module, queue[m] # <<>>,
         Current(m).kind \notin {"NEW", "RCVKAFKA"}
  PROVE  Current(m).ch # c
<1>1. queue[m] \in Seq(Msg)
  BY DEF TypedBus
<1>2. Current(m) = queue[m][1] /\ Current(m) \in Msg /\ 1 \in DOMAIN queue[m]
  BY <1>1 DEF Current
<1> QED BY <1>2 DEF NoMail, Lacks, Of

\* What handlers and other threads post about other channels leaves no mail.
LEMMA HandleNoMail ==
  ASSUME TypedBus, NEW c \in Channel, NoMail(c), NEW m \in Module, queue[m] # <<>>,
         NEW posts \in Seq(Elsewhere(c)), Handle(m, posts)
  PROVE  NoMail(c)'
<1> DEFINE E == {p.msg : p \in Elsewhere(c)}
<1>1. E \cap Of(c) = {}
  BY DEF Elsewhere, Of
<1>2. posts # <<>> => Head(posts).msg \in E /\ Tail(posts) \in Seq(Elsewhere(c))
  OBVIOUS
<1>3. \A n \in Module : Gets(n, E)
  <2> SUFFICES ASSUME NEW n \in Module PROVE Gets(n, E)
    OBVIOUS
  <2>1. \/ queue'[n] = Left(m, n)
        \/ posts # <<>> /\ queue'[n] = Append(Left(m, n), Head(posts).msg)
    BY HandleEffect
  <2> QED BY <1>2, <2>1, LeftIs DEF Gets
<1> HIDE DEF E
<1>4. \A n \in Module : Lacks(queue'[n], Of(c))
  BY <1>1, <1>3, GetsKeeps DEF NoMail
<1>5. out' = out \/ (posts # <<>> /\ out' = [out EXCEPT ![m] = Tail(posts)])
  BY HandleEffect
<1>6. posts # <<>> => \A i \in DOMAIN Tail(posts) : Tail(posts)[i].msg.ch # c
  <2>1. posts # <<>> => \A i \in DOMAIN Tail(posts) : Tail(posts)[i] \in Elsewhere(c)
    BY <1>2
  <2> QED BY <2>1 DEF Elsewhere
<1>7. \A n \in Module : \A i \in DOMAIN out'[n] : out'[n][i].msg.ch # c
  BY <1>5, <1>6 DEF NoMail, TypedBus
<1> QED BY <1>4, <1>7 DEF NoMail, Lacks, Of

LEMMA DispatchNoMail ==
  ASSUME TypedBus, PostsAllowed, NEW c \in Channel, NoMail(c), NEW m \in Module, Dispatch(m)
  PROVE  NoMail(c)'
<1>1. /\ out[m] # <<>> /\ out[m] \in Seq(LaterPost(m))
      /\ out' = [out EXCEPT ![m] = Tail(out[m])]
      /\ \A n \in Module : Adds(n, {Head(out[m]).msg})
  BY DispatchGets DEF PostsAllowed, Dispatch
<1>2. /\ Head(out[m]) = out[m][1] /\ 1 \in DOMAIN out[m]
      /\ \A i \in DOMAIN Tail(out[m]) : i + 1 \in DOMAIN out[m] /\ Tail(out[m])[i] = out[m][i + 1]
  BY <1>1, TailAt
<1>3. {Head(out[m]).msg} \cap Of(c) = {}
  BY <1>2 DEF NoMail, Of
<1>4. \A n \in Module : Lacks(queue'[n], Of(c))
  BY <1>1, <1>3, GetsKeeps DEF NoMail, Adds, Gets
<1>5. \A n \in Module : \A i \in DOMAIN out'[n] : out'[n][i].msg.ch # c
  BY <1>1, <1>2 DEF NoMail, TypedBus
<1> QED BY <1>4, <1>5 DEF NoMail, Lacks, Of

LEMMA GetsNoMail ==
  ASSUME TypedBus, NEW c \in Channel, NoMail(c), NEW E, E \cap Of(c) = {},
         \A n \in Module : Gets(n, E), out' = out
  PROVE  NoMail(c)'
<1>1. \A n \in Module : Lacks(queue'[n], Of(c))
  BY GetsKeeps DEF NoMail
<1> QED BY <1>1 DEF NoMail, Lacks, Of

\* Nothing tells of channel c.
Unknown(c) == NoMail(c) /\ NoEntry(c)

\* Each step that does not enter channel c leaves it unknown.
LEMMA CommuStepUnknown ==
  ASSUME Typed, NEW c \in Channel, Unknown(c), CommuStep, ~Entered(c)'
  PROVE  Unknown(c)'
<1> DEFINE d == Current("COMMU").ch
           built == To("ACTIVE", Notice("BUILDED", d))
<1>1. /\ TypedBus /\ "COMMU" \in Module /\ queue["COMMU"] # <<>> /\ d \in Channel
      /\ NoMail(c) /\ UNCHANGED <<rcCh, ruo, cuo, uai, keepalive>>
  BY CommuActs, CommuCurrent
     DEF Typed, Acts, Unknown, CommuStep, authVars, updVars, routeVars, actVars
<1>2. d # c
  <2>1. CASE OnNewChannel
    BY <1>1, <2>1 DEF OnNewChannel, Entered
  <2>2. CASE OnNewChannelFull
    <3>1. sock' = [sock EXCEPT ![d] = "closed"] /\ sock \in [Channel -> {"none", "open", "closed"}]
      BY <2>2 DEF OnNewChannelFull, Typed, CommuTypeOK
    <3> QED BY <1>1, <3>1 DEF Entered
  <2>3. CASE Current("COMMU").kind \notin {"NEW", "RCVKAFKA"}
    BY <1>1, <2>3, CurrentElsewhere
  <2> QED BY <2>1, <2>2, <2>3
          DEF CommuStep, CommuHandler, OnDelChannel, OnFreeChannel, SendData2Channel,
              SendDataFail, Ready
<1>3. /\ built \in Elsewhere(c) /\ Broadcast(Notice("FREED", d)) \in Seq(Elsewhere(c))
      /\ Broadcast(Notice("FAIL", d)) \in Seq(Elsewhere(c)) /\ <<>> \in Seq(Elsewhere(c))
  BY <1>1, <1>2, ElsewhereIs
<1>4. <<built>> \in Seq(Elsewhere(c))
  BY <1>3
<1>5. <<built>> \o Broadcast(Notice("FREED", d)) \in Seq(Elsewhere(c))
  BY <1>3, <1>4, ConcatProperties
<1>6. \E posts \in Seq(Elsewhere(c)) : Handle("COMMU", posts)
  <2>1. \/ Handle("COMMU", <<>>) \/ Handle("COMMU", <<built>>)
        \/ Handle("COMMU", <<built>> \o Broadcast(Notice("FREED", d)))
        \/ Handle("COMMU", Broadcast(Notice("FREED", d)))
        \/ Handle("COMMU", Broadcast(Notice("FAIL", d)))
    BY DEF CommuStep, CommuHandler, OnNewChannel, OnNewChannelFull, OnDelChannel,
           OnFreeChannel, SendData2Channel, SendDataFail
  <2> HIDE DEF built, d
  <2> QED BY <1>3, <1>4, <1>5, <2>1
<1>7. NoMail(c)'
  BY <1>1, <1>6, HandleNoMail
<1> QED BY <1>1, <1>7 DEF Unknown, NoEntry

LEMMA AuthStepUnknown ==
  ASSUME Typed, NEW c \in Channel, Unknown(c), AuthStep
  PROVE  Unknown(c)'
<1> DEFINE m == Current("AUTH")
           d == rcCh[m.key]
<1>1. /\ TypedBus /\ "AUTH" \in Module /\ queue["AUTH"] # <<>> /\ NoMail(c) /\ c # None
      /\ UNCHANGED <<ruo, cuo, uai, keepalive>> /\ rcCh \in [Rid -> Channel \cup {None}]
  BY AuthPosts, DispatcherAssumption
     DEF Typed, Unknown, AuthStep, updVars, routeVars, actVars, Module, AuthTypeOK, Channel
<1>2. /\ m.kind = "RECV" => m.ch \in Channel /\ m.ch # c
      /\ m.kind \in {"FAIL", "FREED"} => m.ch \in Channel
      /\ m.kind = "RECV" /\ m.body = "AUTH" => m.key \in Rid
      /\ m.kind = "RCVKAFKA" => m.key \in Rid
      /\ m.key \in Rid /\ d # None => d \in Channel /\ d # c
  BY <1>1, AuthCurrent, CurrentElsewhere DEF Unknown, NoEntry
<1> HIDE DEF d
<1>3. ASSUME NEW posts \in Seq(Elsewhere(c)), Handle("AUTH", posts), \A r \in Rid : rcCh'[r] # c
      PROVE  Unknown(c)'
  <2>1. NoMail(c)'
    BY <1>1, <1>3, HandleNoMail
  <2> QED BY <1>1, <1>3, <2>1 DEF Unknown, NoEntry
<1>4. rcCh' = rcCh => \A r \in Rid : rcCh'[r] # c
  BY DEF Unknown, NoEntry
<1>5. CASE RejectCode
  <2>1. m.kind = "RECV" /\ Handle("AUTH", <<Free(m.ch)>>) /\ rcCh' = rcCh
    BY <1>5 DEF RejectCode, AuthRequest, Ready, authVars
  <2>2. <<Free(m.ch)>> \in Seq(Elsewhere(c))
    BY <1>2, <2>1, ElsewhereIs
  <2> QED BY <1>3, <1>4, <2>1, <2>2
<1>6. CASE RejectOther
  <2> DEFINE p == Send(m.ch, "AUTH_DIF", m.key)
             q == Free(m.ch)
  <2>1. m.kind = "RECV" /\ m.body = "AUTH" /\ Handle("AUTH", <<p, q>>) /\ rcCh' = rcCh
    BY <1>6 DEF RejectOther, AuthRequest, Ready, authVars
  <2>2. p \in Elsewhere(c) /\ q \in Elsewhere(c)
    BY <1>2, <2>1, ElsewhereIs
  <2> HIDE DEF p, q
  <2>3. <<p, q>> \in Seq(Elsewhere(c))
    BY <2>2
  <2> QED BY <1>3, <1>4, <2>1, <2>3
<1>7. CASE DropBoth
  <2> DEFINE p == Free(d)
             q == Free(m.ch)
  <2>1. /\ m.kind = "RECV" /\ m.body = "AUTH" /\ d # None
        /\ Handle("AUTH", <<p, q>>) /\ rcCh' = rcCh
    BY <1>7 DEF DropBoth, AuthRequest, Ready, authVars, d
  <2>2. p \in Elsewhere(c) /\ q \in Elsewhere(c)
    BY <1>2, <2>1, ElsewhereIs
  <2> HIDE DEF p, q
  <2>3. <<p, q>> \in Seq(Elsewhere(c))
    BY <2>2
  <2> QED BY <1>3, <1>4, <2>1, <2>3
<1>8. CASE BindChannel
  <2>1. /\ m.kind = "RECV" /\ m.body = "AUTH" /\ Handle("AUTH", <<ToKafka("auth", m.key)>>)
        /\ rcCh' = [rcCh EXCEPT ![m.key] = m.ch]
    BY <1>8 DEF BindChannel, AuthRequest, Ready
  <2>2. ToKafka("auth", m.key) \in Elsewhere(c)
    BY <1>2, <2>1, ElsewhereIs
  <2>3. <<ToKafka("auth", m.key)>> \in Seq(Elsewhere(c))
    BY <2>2
  <2>4. \A r \in Rid : rcCh'[r] # c
    BY <1>1, <1>2, <2>1 DEF Unknown, NoEntry
  <2> QED BY <1>3, <2>1, <2>3, <2>4
<1>9. CASE OnAuthAck
  <2> DEFINE p == To("UPDATE", Frame("AUTH_SUC", d, "-", m.key))
             q == Send(d, "AUTH_SUC", m.key)
             s == Send(d, "AUTH_FAI", m.key)
  <2>1. /\ m.kind = "RCVKAFKA" /\ rcCh' = rcCh
        /\ \/ Handle("AUTH", <<>>)
           \/ d # None /\ (Handle("AUTH", <<p, q>>) \/ Handle("AUTH", <<s>>))
    BY <1>9 DEF OnAuthAck, Ready, authVars, d
  <2>2. d # None => p \in Elsewhere(c) /\ q \in Elsewhere(c) /\ s \in Elsewhere(c)
    BY <1>2, <2>1, ElsewhereIs
  <2> HIDE DEF p, q, s
  <2>3. <<>> \in Seq(Elsewhere(c)) /\ (d # None => <<p, q>> \in Seq(Elsewhere(c)) /\ <<s>> \in Seq(Elsewhere(c)))
    BY <2>2
  <2> QED BY <1>3, <1>4, <2>1, <2>3
<1>10. CASE AuthOnSendChannelDataFail \/ AuthOnChannelFreed
  <2>1. Handle("AUTH", <<>>) /\ AuthForget(m.ch)
    BY <1>10 DEF AuthOnSendChannelDataFail, AuthOnChannelFreed
  <2>2. <<>> \in Seq(Elsewhere(c))
    OBVIOUS
  <2>3. \A r \in Rid : rcCh'[r] # c
    BY <1>1, <2>1 DEF AuthForget, Unknown, NoEntry
  <2> QED BY <1>3, <2>1, <2>2, <2>3
<1> QED BY <1>5, <1>6, <1>7, <1>8, <1>9, <1>10 DEF AuthStep, AuthHandler

LEMMA UpdateStepUnknown ==
  ASSUME Typed, NEW c \in Channel, Unknown(c), UpdateStep \/ TimerStep
  PROVE  Unknown(c)'
<1> DEFINE m == Current("UPDATE")
<1>1. /\ TypedBus /\ "UPDATE" \in Module /\ "COMMU" \in Module /\ NoMail(c) /\ c # None
      /\ UNCHANGED <<rcCh, uai>>
      /\ ruo \in [Rid -> Channel \cup {None}] /\ cuo \in [Channel -> Rid \cup {None}]
  BY DispatcherAssumption
     DEF Typed, Unknown, UpdateStep, TimerStep, authVars, actVars, Module, UpdTypeOK, Channel
<1>2. ASSUME queue["UPDATE"] # <<>>
      PROVE  /\ m.kind \in {"AUTH_SUC", "RECV", "FAIL", "FREED"} => m.ch \in Channel /\ m.ch # c
             /\ m.kind \in {"AUTH_SUC", "RCVKAFKA"} => m.key \in Rid
             /\ m.key \in Rid /\ ruo[m.key] # None => ruo[m.key] \in Channel /\ ruo[m.key] # c
  BY <1>1, <1>2, UpdateCurrent, CurrentElsewhere DEF Unknown, NoEntry
<1>3. ASSUME queue["UPDATE"] # <<>>, NEW posts \in Seq(Elsewhere(c)), Handle("UPDATE", posts),
             keepalive' = keepalive, cuo'[c] = None, \A r \in Rid : ruo'[r] # c
      PROVE  Unknown(c)'
  <2>1. NoMail(c)'
    BY <1>1, <1>3, HandleNoMail
  <2> QED BY <1>1, <1>3, <2>1 DEF Unknown, NoEntry
<1>4. routeVars' = routeVars => cuo'[c] = None /\ \A r \in Rid : ruo'[r] # c
  BY DEF routeVars, Unknown, NoEntry
<1>5. <<>> \in Seq(Elsewhere(c))
  OBVIOUS
<1>6. CASE OnAuthSuc
  <2>1. /\ queue["UPDATE"] # <<>> /\ m.kind = "AUTH_SUC" /\ Handle("UPDATE", <<>>)
        /\ ruo' = [ruo EXCEPT ![m.key] = m.ch] /\ cuo' = [cuo EXCEPT ![m.ch] = m.key]
        /\ keepalive' = keepalive
    BY <1>6 DEF OnAuthSuc, UpdReady, Ready
  <2>2. cuo'[c] = None /\ \A r \in Rid : ruo'[r] # c
    BY <1>1, <1>2, <2>1 DEF Unknown, NoEntry
  <2> QED BY <1>3, <1>5, <2>1, <2>2
<1>7. CASE UpdOnSendChannelDataFail \/ UpdOnChannelFreed
  <2>1. /\ queue["UPDATE"] # <<>> /\ Handle("UPDATE", <<>>) /\ UpdForget(m.ch)
        /\ keepalive' = keepalive /\ m.kind \in {"FAIL", "FREED"}
    BY <1>7 DEF UpdOnSendChannelDataFail, UpdOnChannelFreed, UpdReady, Ready
  <2>2. cuo'[c] = None /\ \A r \in Rid : ruo'[r] # c
    BY <1>1, <1>2, <2>1 DEF UpdForget, Unknown, NoEntry
  <2> QED BY <1>3, <1>5, <2>1, <2>2
<1>8. CASE OnUpdateFromKafka
  <2> DEFINE p == To("COMMU", Frame("SEND", ruo[m.key], "UMI", m.key))
  <2>1. /\ queue["UPDATE"] # <<>> /\ m.kind = "RCVKAFKA" /\ routeVars' = routeVars
        /\ keepalive' = keepalive
        /\ Handle("UPDATE", <<>>) \/ (ruo[m.key] # None /\ Handle("UPDATE", <<p>>))
    BY <1>8 DEF OnUpdateFromKafka, UpdReady, Ready, updVars
  <2>2. ruo[m.key] # None => p \in Elsewhere(c)
    BY <1>2, <2>1, ElsewhereIs
  <2> HIDE DEF p
  <2>3. ruo[m.key] # None => <<p>> \in Seq(Elsewhere(c))
    BY <2>2
  <2> QED BY <1>3, <1>4, <1>5, <2>1, <2>3
<1>9. CASE OnRecvAodsData
  <2> DEFINE b == IF m.body = "UMI" THEN "check_update" ELSE "update_result"
             p == To("KAFKA", Json("SND2KAFKA", b, cuo[m.ch]))
  <2>1. /\ queue["UPDATE"] # <<>> /\ m.kind = "RECV" /\ routeVars' = routeVars
        /\ keepalive' = keepalive
        /\ Handle("UPDATE", <<>>) \/ (cuo[m.ch] # None /\ Handle("UPDATE", <<p>>))
    BY <1>9 DEF OnRecvAodsData, UpdReady, Ready, updVars
  <2>2. cuo[m.ch] # None => cuo[m.ch] \in Rid
    BY <1>1, <1>2, <2>1
  <2>3. m.ch \in Channel /\ c # m.ch
    BY <1>2, <2>1
  <2>4. cuo[m.ch] # None => p \in Elsewhere(c)
    BY <2>2, <2>3, ElsewhereIs
  <2> HIDE DEF p
  <2>5. cuo[m.ch] # None => <<p>> \in Seq(Elsewhere(c))
    BY <2>4
  <2> QED BY <1>3, <1>4, <1>5, <2>1, <2>5
<1>10. ASSUME NEW d \in Channel, SendKeepAlive(d)
       PROVE  Unknown(c)'
  <2> DEFINE f == Frame("SEND", d, "KEEPALIVE", None)
  <2>1. /\ d \in keepalive /\ keepalive' = keepalive \ {d} /\ routeVars' = routeVars
        /\ PostMsg("COMMU", f)
    BY <1>10 DEF SendKeepAlive
  <2>2. {f} \cap Of(c) = {}
    BY <2>1 DEF Unknown, NoEntry, Frame, Of
  <2> HIDE DEF f
  <2>3. out' = out /\ \A n \in Module : Gets(n, {f})
    BY <1>1, <2>1, PostMsgGets
  <2>4. NoMail(c)'
    BY <1>1, <2>2, <2>3, GetsNoMail
  <2> QED BY <1>1, <1>4, <2>1, <2>4 DEF Unknown, NoEntry
<1>11. CASE TimerStep
  <2>1. /\ UNCHANGED <<queue, out, ruo, cuo>>
        /\ keepalive' = {d \in Channel : cuo[d] # None}
    BY <1>11 DEF TimerStep, OnTimer, routeVars, busVars
  <2> QED BY <1>1, <2>1 DEF Unknown, NoEntry, NoMail, Lacks, Of
<1> QED BY <1>6, <1>7, <1>8, <1>9, <1>10, <1>11 DEF UpdateStep, UpdateHandler

LEMMA ActiveStepUnknown ==
  ASSUME Typed, NEW c \in Channel, Unknown(c), ActiveStep
  PROVE  Unknown(c)'
<1> DEFINE m == Current("ACTIVE")
           d == uai[m.key]
           free(x) == To("COMMU", Notice("FREE", x))
           err(x) == To("COMMU", Frame("SEND", x, "ACTV_ERR", None))
           suc(x, u) == To("COMMU", Frame("SEND", x, "ACTV_SUC", u))
           json(b, u) == To("KAFKA", Json("SND2KAFKA", b, u))
<1>1. /\ TypedBus /\ "ACTIVE" \in Module /\ queue["ACTIVE"] # <<>> /\ NoMail(c) /\ c # None
      /\ UNCHANGED <<rcCh, ruo, cuo, keepalive>> /\ uai \in [Uuid -> Channel \cup {None}]
  BY ActiveActs, DispatcherAssumption
     DEF Acts, Typed, Unknown, ActiveStep, authVars, updVars, routeVars, Module, ActTypeOK, Channel
<1>2. /\ m.kind \in {"BUILDED", "RECV", "FAIL", "FREED"} => m.ch \in Channel /\ m.ch # c
      /\ m.kind = "RCVKAFKA" => m.key \in Uuid
      /\ m.key \in Uuid /\ d # None => d \in Channel /\ d # c
  BY <1>1, ActiveCurrent, CurrentElsewhere DEF Unknown, NoEntry
<1> HIDE DEF d
<1>3. ASSUME NEW posts \in Seq(Elsewhere(c)), Handle("ACTIVE", posts), \A u \in Uuid : uai'[u] # c
      PROVE  Unknown(c)'
  <2>1. NoMail(c)'
    BY <1>1, <1>3, HandleNoMail
  <2> QED BY <1>1, <1>3, <2>1 DEF Unknown, NoEntry
<1>4. uai' = uai => \A u \in Uuid : uai'[u] # c
  BY DEF Unknown, NoEntry
<1>5. <<>> \in Seq(Elsewhere(c))
  OBVIOUS
<1>6. ASSUME NEW x \in Channel, x # c
      PROVE  /\ <<free(x)>> \in Seq(Elsewhere(c)) /\ <<err(x)>> \in Seq(Elsewhere(c))
             /\ \A u \in Uuid : /\ <<json("active", u)>> \in Seq(Elsewhere(c))
                                /\ <<json("active_suc", u), suc(x, u)>> \in Seq(Elsewhere(c))
  <2>1. /\ free(x) \in Elsewhere(c) /\ err(x) \in Elsewhere(c)
        /\ \A u \in Uuid : /\ suc(x, u) \in Elsewhere(c)
                           /\ \A b \in {"active", "active_suc"} : json(b, u) \in Elsewhere(c)
    BY <1>6, ElsewhereIs
  <2> HIDE DEF free, err, suc, json
  <2> QED BY <2>1
<1>7. CASE OnChannelBuilded \/ OnActiveAckStale
  <2>1. Handle("ACTIVE", <<>>) /\ uai' = uai
    BY <1>7 DEF OnChannelBuilded, OnActiveAckStale, actVars
  <2> QED BY <1>3, <1>4, <1>5, <2>1
<1>8. CASE OnActiveRequest
  <2>1. /\ m.kind = "RECV"
        /\ \/ \E u \in Uuid : /\ uai' = [uai EXCEPT ![u] = m.ch]
                              /\ Handle("ACTIVE", <<json("active", u)>>)
           \/ uai' = uai /\ Handle("ACTIVE", <<err(m.ch)>>)
    BY <1>8 DEF OnActiveRequest, Ready
  <2>2. \A u \in Uuid : uai' = [uai EXCEPT ![u] = m.ch] => \A v \in Uuid : uai'[v] # c
    BY <1>1, <1>2, <2>1 DEF Unknown, NoEntry
  <2>3. <<err(m.ch)>> \in Seq(Elsewhere(c)) /\ \A u \in Uuid : <<json("active", u)>> \in Seq(Elsewhere(c))
    BY <1>2, <1>6, <2>1
  <2> HIDE DEF free, err, suc, json
  <2> QED BY <1>3, <1>4, <2>1, <2>2, <2>3
<1>9. CASE OnActiveAck
  <2>1. /\ m.kind = "RCVKAFKA" /\ d # None /\ Handle("ACTIVE", Result(m, d))
        /\ uai' = [uai EXCEPT ![m.key] = None]
    BY <1>9 DEF OnActiveAck, Ready, d
  <2>2. \/ Result(m, d) = <<json("active_suc", m.key), suc(d, m.key)>> \o <<free(d)>>
        \/ Result(m, d) = <<err(d)>> \o <<free(d)>>
    BY DEF Result
  <2>3. /\ <<json("active_suc", m.key), suc(d, m.key)>> \in Seq(Elsewhere(c))
        /\ <<err(d)>> \in Seq(Elsewhere(c)) /\ <<free(d)>> \in Seq(Elsewhere(c))
    BY <1>2, <1>6, <2>1
  <2> HIDE DEF free, err, suc, json
  <2>4. Result(m, d) \in Seq(Elsewhere(c))
    BY <2>2, <2>3, ConcatProperties
  <2>5. \A u \in Uuid : uai'[u] # c
    BY <1>1, <2>1 DEF Unknown, NoEntry
  <2> QED BY <1>3, <2>1, <2>4, <2>5
<1>10. CASE ActOnSendChannelDataFail
  <2>1. m.kind = "FAIL" /\ Handle("ACTIVE", <<free(m.ch)>>) /\ uai' = uai
    BY <1>10 DEF ActOnSendChannelDataFail, Ready, actVars
  <2>2. <<free(m.ch)>> \in Seq(Elsewhere(c))
    BY <1>2, <1>6, <2>1
  <2> QED BY <1>3, <1>4, <2>1, <2>2
<1>11. CASE ActOnChannelFreed
  <2>1. Handle("ACTIVE", <<>>) /\ \A u \in Uuid : uai'[u] \in {None, uai[u]}
    BY <1>11 DEF ActOnChannelFreed
  <2>2. \A u \in Uuid : uai'[u] # c
    BY <1>1, <2>1 DEF Unknown, NoEntry
  <2> QED BY <1>3, <1>5, <2>1, <2>2
<1> QED BY <1>7, <1>8, <1>9, <1>10, <1>11 DEF ActiveStep, ActiveHandler

LEMMA OtherStepUnknown ==
  ASSUME Typed, ReleaseInv, NEW c \in Channel, ~Entered(c), Unknown(c),
         \/ KafkaStep \/ (\E m \in Module : PostStep(m))
         \/ (\E d \in Channel : SelectStep(d) \/ GiveUpStep(d))
         \/ (\E h \in Host : HostStep(h)) \/ UNCHANGED vars
  PROVE  Unknown(c)'
<1>1. /\ TypedBus /\ PostsAllowed /\ NoMail(c) /\ NoEntry(c)
      /\ UNCHANGED <<rcCh, ruo, cuo, uai, keepalive>>
  BY DEF Typed, ReleaseInv, Unknown, KafkaStep, PostStep, SelectStep, GiveUpStep, HostStep, vars,
         authVars, updVars, routeVars, actVars
<1>2. SUFFICES NoMail(c)'
  BY <1>1 DEF Unknown, NoEntry
<1>3. ASSUME NEW e, \A n \in Module : queue'[n] = queue[n] \/ queue'[n] = Append(queue[n], e),
             out' = out, e \notin Of(c)
      PROVE  NoMail(c)'
  <2>1. \A n \in Module : Gets(n, {e})
    BY <1>3 DEF Gets
  <2>2. {e} \cap Of(c) = {}
    BY <1>3
  <2> QED BY <1>1, <1>3, <2>1, <2>2, GetsNoMail
<1>4. CASE KafkaStep
  <2>1. Answers \cap Of(c) = {}
    BY DEF Answers, Of
  <2> QED BY <1>1, <1>4, <2>1, KafkaGets, GetsNoMail
<1>5. CASE \E m \in Module : PostStep(m)
  BY <1>1, <1>5, DispatchNoMail DEF PostStep
<1>6. ASSUME NEW d \in Channel, SelectStep(d)
      PROVE  NoMail(c)'
  <2>1. d \in group => d # c
    BY DEF ReleaseInv, OneLife, Entered
  <2>2. CASE ReadData(d)
    <3>1. Head(wire[d]).ch = d
      <4>1. wire[d] # <<>> /\ wire[d] \in Seq(WireMsg)
        BY <2>2, ReadDataAdds DEF Typed, TypedNet
      <4>2. Head(wire[d]) = wire[d][1] /\ 1 \in DOMAIN wire[d]
        BY <4>1, TailAt
      <4> QED BY <4>2 DEF ReleaseInv, OneLife
    <3>2. Head(wire[d]) \notin Of(c)
      BY <2>1, <2>2, <3>1, ReadDataAdds DEF Of
    <3> QED BY <1>3, <2>2, <3>2, ReadDataAdds
  <2>3. CASE OnDel(d)
    <3>1. Notice("DEL", d) \notin Of(c)
      BY <2>1, <2>3, OnDelAdds DEF Of, Notice
    <3> QED BY <1>3, <2>3, <3>1, OnDelAdds
  <2> QED BY <1>6, <2>2, <2>3 DEF SelectStep
<1>7. ASSUME NEW h \in Host, HostStep(h)
      PROVE  NoMail(c)'
  <2>1. CASE Connect(h)
    <3>1. Notice("NEW", ullIndex) \notin Of(c)
      BY DEF Of, Notice
    <3> QED BY <1>3, <2>1, <3>1, ConnectAdds
  <2>2. CASE ~Connect(h)
    <3>1. UNCHANGED <<queue, out>>
      BY <1>7, <2>2, HostStepReports DEF busVars
    <3> QED BY <1>1, <3>1 DEF NoMail, Lacks, Of
  <2> QED BY <2>1, <2>2
<1>8. CASE (\E d \in Channel : GiveUpStep(d)) \/ UNCHANGED vars
  <2>1. UNCHANGED <<queue, out>>
    BY <1>8 DEF GiveUpStep, GiveUp, vars, busVars
  <2> QED BY <1>1, <2>1 DEF NoMail, Lacks, Of
<1> QED BY <1>4, <1>5, <1>6, <1>7, <1>8

\* A closed socket is not opened again, and an entered channel stays entered.
LEMMA SocketsClose ==
  ASSUME Typed, ReleaseInv, Fresh, [Next]_vars, NEW c \in Channel
  PROVE  /\ sock[c] = "closed" => sock'[c] = "closed"
         /\ Entered(c) => Entered(c)'
         /\ sock'[c] = "none" <=> c >= ullIndex'
<1>1. /\ sock \in [Channel -> {"none", "open", "closed"}] /\ ullIndex \in Nat /\ c \in Nat
      /\ sock[c] = "none" <=> c >= ullIndex
      /\ \A d \in Channel : d >= ullIndex => d \notin mapAC /\ Lacks(queue["COMMU"], Lives(d))
  BY DispatcherAssumption DEF Typed, CommuTypeOK, Channel, Fresh, ReleaseInv, OneLife
<1>2. CASE CommuStep
  <2> DEFINE d == Current("COMMU").ch
  <2>1. /\ d \in Channel /\ d \in Nat /\ ullIndex' = ullIndex
        /\ queue["COMMU"] # <<>> /\ queue["COMMU"] \in Seq(Msg) /\ TypedBus
    BY <1>2, CommuCurrent, CommuStepInbox
       DEF CommuStep, CommuHandler, OnNewChannel, OnNewChannelFull, OnDelChannel, OnFreeChannel,
           SendData2Channel, SendDataFail, Typed, TypedBus, Module, commuVars, Channel
  <2>2. Current("COMMU") = queue["COMMU"][1] /\ 1 \in DOMAIN queue["COMMU"]
        /\ Current("COMMU") \in Msg
    BY <2>1 DEF Current
  <2>3. Current("COMMU").kind = "NEW" => d < ullIndex
    <3>1. Current("COMMU").kind = "NEW" => Current("COMMU") \in Lives(d)
      BY <2>2 DEF Lives
    <3> QED BY <1>1, <2>1, <2>2, <3>1 DEF Lacks
  <2>4. d \in mapAC => d < ullIndex
    BY <1>1, <2>1
  <2> HIDE DEF d
  <2>5. \/ sock' = sock
        \/ d < ullIndex /\ sock' = [sock EXCEPT ![d] = "closed"]
    BY <1>1, <1>2, <2>3, <2>4
       DEF CommuStep, CommuHandler, OnNewChannel, OnNewChannelFull, OnDelChannel, OnFreeChannel,
           SendData2Channel, SendDataFail, Ready, commuVars, d
  <2>6. \/ mapAC \subseteq mapAC'
        \/ mapAC' = mapAC \ {d} /\ (d \in mapAC => sock'[d] = "closed")
    BY <1>1, <1>2, <2>1
       DEF CommuStep, CommuHandler, OnNewChannel, OnNewChannelFull, OnDelChannel, OnFreeChannel,
           SendData2Channel, SendDataFail, commuVars, d
  <2> QED BY <1>1, <2>1, <2>5, <2>6 DEF Entered
<1>3. CASE \E h \in Host : Connect(h)
  <2>1. /\ sock' = [sock EXCEPT ![ullIndex] = "open"] /\ ullIndex' = ullIndex + 1
        /\ mapAC' = mapAC
    BY <1>3 DEF Connect, Accept
  <2> QED BY <1>1, <2>1 DEF Entered
<1>4. CASE ~CommuStep /\ \A h \in Host : ~Connect(h)
  <2>1. UNCHANGED <<mapAC, sock, ullIndex>>
    <3>1. ASSUME NEW h \in Host, HostStep(h) PROVE UNCHANGED <<mapAC, sock, ullIndex>>
      BY <1>4, <3>1, HostStepReports DEF commuVars
    <3>2. ASSUME NEW d \in Channel, SelectStep(d) \/ GiveUpStep(d)
          PROVE  UNCHANGED <<mapAC, sock, ullIndex>>
      BY <3>2 DEF SelectStep, GiveUpStep, GiveUp, ReadData, OnDel, commuVars
    <3> QED BY <1>4, <3>1, <3>2
            DEF Next, AuthStep, UpdateStep, ActiveStep, TimerStep, PostStep, KafkaStep,
                commuVars, vars
  <2> QED BY <1>1, <2>1 DEF Entered
<1> QED BY <1>2, <1>3, <1>4

LEMMA NextFresh == Typed /\ ReleaseInv /\ Fresh /\ [Next]_vars => Fresh'
<1> SUFFICES ASSUME Typed, ReleaseInv, Fresh, [Next]_vars, NEW c \in Channel
             PROVE  /\ ~Entered(c)' => Unknown(c)'
                    /\ sock'[c] = "none" <=> c >= ullIndex'
  BY DEF Fresh, Unknown
<1>1. sock'[c] = "none" <=> c >= ullIndex'
  BY SocketsClose
<1>2. ASSUME ~Entered(c)'
      PROVE  Unknown(c)'
  <2>1. ~Entered(c) /\ Unknown(c)
    BY <1>2, SocketsClose DEF Fresh, Unknown
  <2> QED BY <1>2, <2>1, CommuStepUnknown, AuthStepUnknown, UpdateStepUnknown, ActiveStepUnknown,
             OtherStepUnknown DEF Next
<1> QED BY <1>1, <1>2

LEMMA InitFresh == Init => Fresh
<1> SUFFICES ASSUME Init, NEW c \in Channel
             PROVE  /\ NoMail(c) /\ NoEntry(c)
                    /\ sock[c] = "none" <=> c >= ullIndex
  BY DEF Fresh
<1>1. sock[c] = "none" /\ ullIndex = 0 /\ c \in Nat
  BY DispatcherAssumption DEF Init, CommuInit, Channel
<1>2. NoMail(c)
  BY DEF Init, BusInit, NoMail, Lacks
<1>3. NoEntry(c)
  <2>1. c # None
    BY DispatcherAssumption DEF Channel
  <2> QED BY <2>1 DEF Init, AuthInit, UpdInit, ActInit, NoEntry
<1> QED BY <1>1, <1>2, <1>3

\* A machine gets the next channel when it connects, and gives its channel up
\* when it leaves.
LEMMA NextLinked == Typed /\ Linked /\ [Next]_vars => Linked'
<1> SUFFICES ASSUME Typed, Linked, [Next]_vars
             PROVE  Linked'
  OBVIOUS
<1>1. /\ cur \in [Host -> Channel \cup {None}] /\ peer \in [Channel -> {"none", "up", "fin", "gone"}]
      /\ ullIndex \in Nat /\ \A c \in Channel : c \in Nat /\ c # None
  BY DispatcherAssumption DEF Typed, CommuTypeOK, HostTypeOK, Channel
<1>2. ASSUME NEW h \in Host, Connect(h)
      PROVE  Linked'
  <2>1. /\ peer' = [peer EXCEPT ![ullIndex] = "up"] /\ ullIndex' = ullIndex + 1
        /\ cur' = [cur EXCEPT ![h] = ullIndex]
    BY <1>2 DEF Connect, Accept
  <2> QED BY <1>1, <2>1 DEF Linked
<1>3. ASSUME NEW h \in Host, NEW how, NEW state, Leave(h, how, state)
      PROVE  Linked'
  <2>1. /\ cur[h] \in Channel /\ peer' = [peer EXCEPT ![cur[h]] = how] /\ ullIndex' = ullIndex
        /\ cur' = [cur EXCEPT ![h] = None]
    BY <1>1, <1>3 DEF Leave, commuVars
  <2>2. ASSUME NEW g \in Host, NEW c \in Channel, cur'[g] = c
        PROVE  /\ peer'[c] = "up" /\ c < ullIndex'
               /\ \A i \in Host : cur'[i] = c => i = g
    <3>1. g # h /\ cur[g] = c /\ c # cur[h]
      BY <1>1, <2>1, <2>2 DEF Linked
    <3> QED BY <1>1, <2>1, <3>1 DEF Linked
  <2> QED BY <2>2 DEF Linked
<1>4. ASSUME UNCHANGED <<cur, ullIndex>>,
             peer' = peer \/ \E d \in Channel : GiveUp(d)
      PROVE  Linked'
  <2>1. \A c \in Channel : peer[c] = "up" => peer'[c] = "up"
    BY <1>1, <1>4 DEF GiveUp
  <2> QED BY <1>4, <2>1 DEF Linked
<1>5. ASSUME NEW h \in Host, HostStep(h)
      PROVE  Linked'
  <2>1. CASE Disconnect(h) \/ SeeClosed(h) \/ OnAuthRefused(h) \/ OnActivated(h)
    BY <1>3, <2>1 DEF Disconnect, SeeClosed, OnAuthRefused, OnActivated
  <2>2. CASE OnAuthSucceeded(h) \/ OnUpdate(h) \/ ReportResult(h) \/ OnKeepAlive(h)
    BY <1>4, <2>2 DEF OnAuthSucceeded, OnUpdate, ReportResult, OnKeepAlive, Reply, commuVars
  <2> QED BY <1>2, <1>5, <2>1, <2>2 DEF HostStep, HostReceive
<1>6. ASSUME NEW d \in Channel, SelectStep(d) \/ GiveUpStep(d)
      PROVE  Linked'
  BY <1>4, <1>6 DEF SelectStep, ReadData, OnDel, GiveUpStep, GiveUp, commuVars, netVars, hostVars
<1>7. CASE CommuStep
  <2>1. UNCHANGED <<cur, ullIndex, peer>>
    BY <1>7 DEF CommuStep, CommuHandler, OnNewChannel, OnNewChannelFull, OnDelChannel,
                OnFreeChannel, SendData2Channel, SendDataFail, commuVars, netVars, hostVars
  <2> QED BY <1>4, <2>1
<1>8. CASE \/ AuthStep \/ UpdateStep \/ ActiveStep \/ TimerStep \/ KafkaStep
           \/ (\E m \in Module : PostStep(m)) \/ UNCHANGED vars
  <2>1. UNCHANGED <<cur, ullIndex, peer>>
    BY <1>8 DEF AuthStep, UpdateStep, ActiveStep, TimerStep, KafkaStep, PostStep, vars,
                commuVars, netVars, hostVars
  <2> QED BY <1>4, <2>1
<1> QED BY <1>5, <1>6, <1>7, <1>8 DEF Next

\* The end of a channel is told only when its socket is closed or its other end
\* is gone, and it does not come back.
LEMMA EndedStays ==
  ASSUME Typed, ReleaseInv, Fresh, [Next]_vars, NEW c \in Channel,
         sock[c] = "closed" \/ (peer[c] # "up" /\ c < ullIndex)
  PROVE  sock'[c] = "closed" \/ peer'[c] # "up"
<1>1. /\ cur \in [Host -> Channel \cup {None}] /\ peer \in [Channel -> {"none", "up", "fin", "gone"}]
      /\ ullIndex \in Nat /\ c \in Nat
  BY DispatcherAssumption DEF Typed, CommuTypeOK, HostTypeOK, Channel
<1>2. sock[c] = "closed" => sock'[c] = "closed"
  BY SocketsClose
<1>3. SUFFICES ASSUME peer[c] # "up", c < ullIndex
               PROVE  peer'[c] # "up"
  BY <1>2
<1>4. ASSUME NEW h \in Host, HostStep(h)
      PROVE  peer'[c] # "up"
  <2>1. CASE Connect(h)
    <3>1. peer' = [peer EXCEPT ![ullIndex] = "up"]
      BY <2>1 DEF Connect, Accept
    <3> QED BY <1>1, <1>3, <3>1
  <2>2. CASE Disconnect(h) \/ SeeClosed(h) \/ OnAuthRefused(h) \/ OnActivated(h)
    <3>1. \E how \in {"fin", "gone"} : \E state : Leave(h, how, state)
      BY <2>2, HostsAssumption DEF Disconnect, SeeClosed, OnAuthRefused, OnActivated
    <3>2. PICK how \in {"fin", "gone"} : peer' = [peer EXCEPT ![cur[h]] = how]
      BY <3>1 DEF Leave
    <3> QED BY <1>1, <1>3, <3>2
  <2>3. CASE OnAuthSucceeded(h) \/ OnUpdate(h) \/ ReportResult(h) \/ OnKeepAlive(h)
    BY <1>3, <2>3 DEF OnAuthSucceeded, OnUpdate, ReportResult, OnKeepAlive, Reply
  <2> QED BY <1>4, <2>1, <2>2, <2>3 DEF HostStep, HostReceive
<1>5. ASSUME NEW d \in Channel, SelectStep(d) \/ GiveUpStep(d)
      PROVE  peer'[c] # "up"
  <2>1. peer' = peer \/ peer' = [peer EXCEPT ![d] = "fin"]
    BY <1>5 DEF SelectStep, ReadData, OnDel, GiveUpStep, GiveUp, netVars
  <2> QED BY <1>1, <1>3, <2>1
<1>6. CASE CommuStep
  BY <1>3, <1>6 DEF CommuStep, CommuHandler, OnNewChannel, OnNewChannelFull, OnDelChannel,
              OnFreeChannel, SendData2Channel, SendDataFail, commuVars, netVars, hostVars
<1>7. CASE \/ AuthStep \/ UpdateStep \/ ActiveStep \/ TimerStep \/ KafkaStep
           \/ (\E m \in Module : PostStep(m)) \/ UNCHANGED vars
  BY <1>3, <1>7 DEF AuthStep, UpdateStep, ActiveStep, TimerStep, KafkaStep, PostStep, vars,
              netVars
<1> QED BY <1>4, <1>5, <1>6, <1>7 DEF Next

\* News of the end of a channel.
Farewells == {m \in Msg : m.kind \in {"FREED", "FAIL"}}

\* The authentication module has it, or is going to.
Heard(c) == ~Lacks(queue["AUTH"], Ended(c)) \/ Posting("COMMU", "AUTH", Ended(c))

\* It comes from the communication module.
LEMMA NoFarewells ==
  ASSUME TypedBus, NEW c \in Channel, NEW E, Gets("AUTH", E), E \cap Farewells = {},
         out'["COMMU"] = out["COMMU"], Heard(c)'
  PROVE  Heard(c)
<1>1. E \cap Ended(c) = {} /\ "AUTH" \in Module
  BY DEF Ended, Farewells, Module
<1>2. Lacks(queue["AUTH"], Ended(c)) => Lacks(queue'["AUTH"], Ended(c))
  BY <1>1, GetsKeeps
<1> QED BY <1>2 DEF Heard, Posting, Lacks, Ended

LEMMA SilentStepHeard ==
  ASSUME Typed, PostsAllowed, NEW c \in Channel, Heard(c)',
         \/ AuthStep \/ UpdateStep \/ ActiveStep \/ KafkaStep \/ TimerStep
         \/ (\E m \in Module : m # "COMMU" /\ PostStep(m))
         \/ (\E d \in Channel : SelectStep(d) \/ GiveUpStep(d))
         \/ (\E h \in Host : HostStep(h)) \/ UNCHANGED vars
  PROVE  Heard(c)
<1>1. TypedBus /\ {"AUTH", "COMMU", "UPDATE", "ACTIVE"} \subseteq Module
  BY DEF Typed, Module
<1>2. \A m \in Module : m # "COMMU" => MailOf(m) \cap Farewells = {}
  BY DEF MailOf, MayPost, Farewells
<1>3. ASSUME NEW m \in {"AUTH", "UPDATE", "ACTIVE"}, Acts(m)
      PROVE  Heard(c)
  <2>1. Gets("AUTH", MailOf(m)) /\ out'["COMMU"] = out["COMMU"]
    BY <1>1, <1>3, ActsGets
  <2> QED BY <1>1, <1>2, <2>1, NoFarewells
<1>4. ASSUME NEW e, queue'["AUTH"] = queue["AUTH"] \/ queue'["AUTH"] = Append(queue["AUTH"], e),
             e \notin Farewells, out'["COMMU"] = out["COMMU"]
      PROVE  Heard(c)
  <2>1. Gets("AUTH", {e}) /\ {e} \cap Farewells = {}
    BY <1>4 DEF Gets
  <2> QED BY <1>1, <1>4, <2>1, NoFarewells
<1>5. CASE UpdateStep
  <2>1. CASE \A d \in Channel : ~SendKeepAlive(d)
    BY <1>3, <1>5, <2>1, UpdateActs
  <2>2. ASSUME NEW d \in Channel, SendKeepAlive(d)
        PROVE  Heard(c)
    <3>1. queue'["AUTH"] = queue["AUTH"] /\ out' = out
      BY <1>1, <2>2, PostMsgGets DEF SendKeepAlive
    <3>2. Heard(c)' <=> Heard(c)
      BY <3>1 DEF Heard, Posting, Lacks, Ended
    <3> QED BY <3>2
  <2> QED BY <2>1, <2>2
<1>6. CASE KafkaStep
  <2>1. Answers \cap Farewells = {}
    BY DEF Answers, Farewells
  <2> QED BY <1>1, <1>6, <2>1, KafkaGets, NoFarewells
<1>7. ASSUME NEW m \in Module, m # "COMMU", PostStep(m)
      PROVE  Heard(c)
  <2>1. Gets("AUTH", MailOf(m)) /\ out'["COMMU"] = out["COMMU"]
    BY <1>1, <1>7, DispatchGets DEF PostStep, TypedBus
  <2> QED BY <1>1, <1>2, <1>7, <2>1, NoFarewells
<1>8. ASSUME NEW d \in Channel, SelectStep(d)
      PROVE  Heard(c)
  <2>1. CASE ReadData(d)
    <3>1. Head(wire[d]) \notin Farewells
      BY <2>1, ReadDataAdds DEF Farewells
    <3> QED BY <1>1, <1>4, <2>1, <3>1, ReadDataAdds
  <2>2. CASE OnDel(d)
    <3>1. queue'["AUTH"] = queue["AUTH"] /\ out' = out
      BY <1>1, <2>2, OnDelAdds
    <3>2. Heard(c)' <=> Heard(c)
      BY <3>1 DEF Heard, Posting, Lacks, Ended
    <3> QED BY <3>2
  <2> QED BY <1>8, <2>1, <2>2 DEF SelectStep
<1>9. CASE \/ TimerStep \/ (\E d \in Channel : GiveUpStep(d))
           \/ (\E h \in Host : HostStep(h)) \/ UNCHANGED vars
  <2>1. queue'["AUTH"] = queue["AUTH"] /\ out' = out
    <3>1. ASSUME NEW h \in Host, HostStep(h) PROVE queue'["AUTH"] = queue["AUTH"] /\ out' = out
      BY <1>1, <3>1, ConnectAdds, HostStepReports DEF busVars
    <3> QED BY <1>9, <3>1 DEF TimerStep, OnTimer, GiveUpStep, GiveUp, vars, busVars
  <2>2. Heard(c)' <=> Heard(c)
    BY <2>1 DEF Heard, Posting, Lacks, Ended
  <2> QED BY <2>2
<1> QED BY <1>3, <1>5, <1>6, <1>7, <1>8, <1>9, AuthActs, ActiveActs

LEMMA CommuPostHeard ==
  ASSUME Typed, PostsAllowed, NEW c \in Channel, Heard(c)', PostStep("COMMU")
  PROVE  Heard(c)
<1> DEFINE s == out["COMMU"]
<1>1. /\ TypedBus /\ s # <<>> /\ s \in Seq(LaterPost("COMMU")) /\ out'["COMMU"] = Tail(s)
      /\ queue'["AUTH"] = IF "AUTH" = Head(s).to THEN Append(queue["AUTH"], Head(s).msg)
                          ELSE queue["AUTH"]
      /\ queue["AUTH"] \in Seq(Msg)
  BY DispatchGets DEF Typed, TypedBus, PostStep, Dispatch, PostsAllowed, Module
<1>2. /\ Head(s) = s[1] /\ 1 \in DOMAIN s
      /\ \A i \in DOMAIN Tail(s) : i + 1 \in DOMAIN s /\ Tail(s)[i] = s[i + 1]
  BY <1>1, TailAt
<1>3. Posting("COMMU", "AUTH", Ended(c))' => Heard(c)
  BY <1>1, <1>2 DEF Posting, Ended, Heard
<1>4. ASSUME Head(s).to = "AUTH" => Head(s).msg \notin Ended(c)
      PROVE  Lacks(queue["AUTH"], Ended(c)) => Lacks(queue'["AUTH"], Ended(c))
  <2> DEFINE e == Head(s).msg
             q == queue["AUTH"]
  <2>1. queue'["AUTH"] = q \/ (Head(s).to = "AUTH" /\ queue'["AUTH"] = Append(q, e))
    BY <1>1
  <2>2. q \in Seq(Msg) /\ (Head(s).to = "AUTH" => e \notin Ended(c))
    BY <1>1, <1>4
  <2> HIDE DEF e, q
  <2>3. Lacks(q, Ended(c)) /\ e \notin Ended(c) => Lacks(Append(q, e), Ended(c))
    BY <2>2, AppendKeeps
  <2>4. Lacks(q, Ended(c)) => Lacks(queue'["AUTH"], Ended(c))
    BY <2>1, <2>2, <2>3
  <2> QED BY <2>4 DEF q
<1>5. Head(s).to = "AUTH" /\ Head(s).msg \in Ended(c) => Heard(c)
  BY <1>2 DEF Heard, Posting
<1> QED BY <1>3, <1>4, <1>5 DEF Heard, Lacks, Ended

\* A channel with messages is or was known, so its number has been given.
LEMMA KnownChannel ==
  ASSUME Typed, ReleaseInv, Fresh, NEW c \in Channel, ~Unknown(c)
  PROVE  c < ullIndex /\ (c \in mapAC \/ sock[c] = "closed")
<1>1. Entered(c) /\ (c >= ullIndex => sock[c] = "none")
  BY DEF Fresh, Unknown
<1>2. c >= ullIndex => c \notin mapAC
  BY DEF ReleaseInv, OneLife
<1>3. c \in Nat /\ ullIndex \in Nat
  BY DispatcherAssumption DEF Typed, CommuTypeOK, Channel
<1> QED BY <1>1, <1>2, <1>3 DEF Entered

LEMMA OneAndMore ==
  ASSUME NEW T, NEW w \in T, NEW t \in Seq(T)
  PROVE  <<w>> \o t \in Seq(T) /\ <<w>> \o t # <<>> /\ Head(<<w>> \o t) = w
<1>1. <<w>> \in Seq(T) /\ Len(<<w>>) = 1 /\ <<w>>[1] = w
  OBVIOUS
<1> DEFINE s == <<w>>
<1> HIDE DEF s
<1>2. s \o t \in Seq(T) /\ Len(s \o t) = 1 + Len(t) /\ (s \o t)[1] = s[1]
  BY <1>1, ConcatProperties DEF s
<1>3. s \o t # <<>> /\ Head(s \o t) = (s \o t)[1]
  BY <1>2
<1> QED BY <1>1, <1>2, <1>3 DEF s

LEMMA CommuStepHeard ==
  ASSUME Typed, ReleaseInv, Fresh, CommuStep, NEW c \in Channel, Heard(c)'
  PROVE  Heard(c) \/ sock'[c] = "closed" \/ peer'[c] # "up"
<1> DEFINE m == Current("COMMU")
           d == m.ch
           built == To("ACTIVE", Notice("BUILDED", d))
           x(k) == To("ACTIVE", Notice(k, d))
           y(k) == To("AUTH", Notice(k, d))
           z(k) == To("UPDATE", Notice(k, d))
<1>1. /\ TypedBus /\ queue["COMMU"] # <<>> /\ {"COMMU", "ACTIVE"} \subseteq Module /\ d \in Channel
      /\ out["COMMU"] = <<>> /\ sock \in [Channel -> {"none", "open", "closed"}]
      /\ m = queue["COMMU"][1] /\ 1 \in DOMAIN queue["COMMU"] /\ m \in Msg
      /\ ullIndex \in Nat /\ d \in Nat
  <2>1. TypedBus /\ PostsAllowed /\ CommuTypeOK /\ {"COMMU", "ACTIVE"} \subseteq Module
    BY DEF Typed, ReleaseInv, Module
  <2>2. /\ queue["COMMU"] # <<>> /\ queue["COMMU"] \in Seq(Msg) /\ out["COMMU"] = <<>>
        /\ m = queue["COMMU"][1] /\ 1 \in DOMAIN queue["COMMU"]
    BY <2>1, CommuStepInbox, CommuStepPlain DEF TypedBus
  <2>3. d \in Channel
    BY <2>1, <2>2, CommuCurrent
  <2>4. m \in Msg
    BY <2>2
  <2>5. d \in Nat /\ ullIndex \in Nat /\ sock \in [Channel -> {"none", "open", "closed"}]
    BY <2>1, <2>3, DispatcherAssumption DEF CommuTypeOK, Channel
  <2> QED BY <2>1, <2>2, <2>3, <2>4, <2>5
<1>2. /\ \A k : x(k).to = "ACTIVE" /\ x(k).msg.ch = d /\ y(k).msg.ch = d /\ z(k).msg.ch = d
      /\ built.to = "ACTIVE" /\ built.msg.ch = d
      /\ \A k : Broadcast(Notice(k, d)) = <<x(k), y(k), z(k)>>
  BY DEF To, Notice, Broadcast
<1>3. \/ Handle("COMMU", <<>>) \/ Handle("COMMU", <<built>>)
      \/ /\ Handle("COMMU", <<built>> \o Broadcast(Notice("FREED", d)))
         /\ sock'[d] = "closed"
      \/ /\ Handle("COMMU", Broadcast(Notice("FREED", d)))
         /\ sock'[d] = "closed"
      \/ /\ Handle("COMMU", Broadcast(Notice("FAIL", d)))
         /\ m.kind = "SEND" /\ (d \notin mapAC \/ sock[d] # "open" \/ peer[d] # "up")
         /\ UNCHANGED <<sock, peer>>
  BY <1>1 DEF CommuStep, CommuHandler, OnNewChannel, OnNewChannelFull, OnDelChannel,
         OnFreeChannel, SendData2Channel, SendDataFail, Ready, commuVars, netVars
<1> HIDE DEF m
<1> HIDE DEF d, built, x, y, z
<1>4. ASSUME NEW T, NEW posts \in Seq(T), Handle("COMMU", posts), posts # <<>>,
             Head(posts).to = "ACTIVE", \A i \in DOMAIN posts : posts[i].msg.ch = d, Heard(c)'
      PROVE  Heard(c) \/ (c = d /\ Tail(posts) # <<>>)
  <2>1. queue'["AUTH"] = queue["AUTH"] /\ out'["COMMU"] = Tail(posts)
    BY <1>1, <1>4, HandleFirst DEF Module
  <2>2. \A i \in DOMAIN Tail(posts) : Tail(posts)[i].msg.ch = d
    <3>1. \A i \in DOMAIN Tail(posts) : i + 1 \in DOMAIN posts /\ Tail(posts)[i] = posts[i + 1]
      BY <1>4, TailAt
    <3> QED BY <1>4, <3>1
  <2>3. CASE Posting("COMMU", "AUTH", Ended(c))'
    <3>1. PICK i \in DOMAIN Tail(posts) : Tail(posts)[i].msg \in Ended(c)
      BY <2>1, <2>3 DEF Posting, Ended
    <3>2. c = d
      BY <2>2, <3>1 DEF Ended
    <3>3. Tail(posts) # <<>>
      BY <1>4, <3>1, TailAt
    <3> QED BY <3>2, <3>3
  <2>4. CASE ~Lacks(queue["AUTH"], Ended(c))
    BY <2>4 DEF Heard
  <2> QED BY <1>4, <2>1, <2>3, <2>4 DEF Heard, Lacks, Ended
<1>5. CASE Handle("COMMU", <<>>)
  <2>1. queue'["AUTH"] = queue["AUTH"] /\ out' = out
    BY <1>1, <1>5, HandleNothing DEF Module
  <2>2. Heard(c)' <=> Heard(c)
    BY <2>1 DEF Heard, Posting, Lacks, Ended
  <2> QED BY <2>2
<1>6. CASE Handle("COMMU", <<built>>)
  <2>1. /\ <<built>> \in Seq({built}) /\ <<built>> # <<>> /\ Head(<<built>>) = built
        /\ Tail(<<built>>) = <<>> /\ \A i \in DOMAIN <<built>> : <<built>>[i] = built
    OBVIOUS
  <2> DEFINE posts == <<built>>
  <2>2. \A i \in DOMAIN posts : posts[i].msg.ch = d
    BY <1>2, <2>1
  <2>3. /\ posts \in Seq({built}) /\ posts # <<>> /\ Head(posts).to = "ACTIVE"
        /\ Tail(posts) = <<>> /\ Handle("COMMU", posts)
    BY <1>2, <1>6, <2>1
  <2> HIDE DEF posts
  <2> QED BY <1>4, <2>2, <2>3
<1>7. ASSUME NEW k, Handle("COMMU", Broadcast(Notice(k, d)))
      PROVE  Heard(c) \/ c = d
  <2> DEFINE posts == <<x(k), y(k), z(k)>>
  <2>1. /\ posts \in Seq({x(k), y(k), z(k)}) /\ posts # <<>> /\ Head(posts) = x(k)
        /\ \A i \in DOMAIN posts : posts[i] \in {x(k), y(k), z(k)}
    OBVIOUS
  <2>2. /\ Handle("COMMU", posts) /\ Head(posts).to = "ACTIVE"
        /\ \A i \in DOMAIN posts : posts[i].msg.ch = d
    BY <1>2, <1>7, <2>1
  <2> HIDE DEF posts
  <2> QED BY <1>4, <2>1, <2>2
<1>8. ASSUME Handle("COMMU", <<built>> \o Broadcast(Notice("FREED", d)))
      PROVE  Heard(c) \/ c = d
  <2> DEFINE T == {p \in {built, x("FREED"), y("FREED"), z("FREED")} : p.msg.ch = d}
             posts == <<built>> \o Broadcast(Notice("FREED", d))
  <2>1. built \in T /\ x("FREED") \in T /\ y("FREED") \in T /\ z("FREED") \in T
    BY <1>2
  <2>2. \A p \in T : p.msg.ch = d
    OBVIOUS
  <2> HIDE DEF T
  <2>3. Broadcast(Notice("FREED", d)) \in Seq(T)
    <3>1. <<x("FREED"), y("FREED"), z("FREED")>> \in Seq(T)
      BY <2>1
    <3>2. Broadcast(Notice("FREED", d)) = <<x("FREED"), y("FREED"), z("FREED")>>
      BY <1>2
    <3> QED BY <3>1, <3>2
  <2>4. posts \in Seq(T) /\ posts # <<>> /\ Head(posts).to = "ACTIVE" /\ Handle("COMMU", posts)
    BY <1>2, <1>8, <2>1, <2>3, OneAndMore
  <2> HIDE DEF posts
  <2>5. \A i \in DOMAIN posts : posts[i].msg.ch = d
    BY <2>2, <2>4
  <2> QED BY <1>4, <2>4, <2>5
<1>9. ASSUME m.kind = "SEND", d \notin mapAC \/ sock[d] # "open" \/ peer[d] # "up"
      PROVE  sock[d] = "closed" \/ peer[d] # "up"
  <2>1. ~Unknown(d)
    <3>1. m \in Of(d)
      BY <1>1, <1>9 DEF Of, d
    <3> QED BY <1>1, <3>1 DEF Unknown, NoMail, Lacks
  <2>2. d < ullIndex /\ (d \in mapAC \/ sock[d] = "closed")
    BY <1>1, <2>1, KnownChannel
  <2>3. sock[d] # "none"
    BY <1>1, <2>2 DEF Fresh
  <2> QED BY <1>1, <1>9, <2>2, <2>3
<1> QED BY <1>3, <1>5, <1>6, <1>7, <1>8, <1>9

LEMMA NextEnds ==
  Typed /\ ReleaseInv /\ Fresh /\ EndsAreReal /\ [Next]_vars => EndsAreReal'
<1> SUFFICES ASSUME Typed, ReleaseInv, Fresh, EndsAreReal, [Next]_vars,
                    NEW c \in Channel, Heard(c)'
             PROVE  sock'[c] = "closed" \/ peer'[c] # "up"
  BY DEF EndsAreReal, Heard, Ended, Lacks, Posting
<1>1. ASSUME Heard(c)
      PROVE  sock'[c] = "closed" \/ peer'[c] # "up"
  <2>1. ~Unknown(c)
    <3>1. \A e \in Ended(c) : e \in Of(c) /\ e.ch = c
      BY DEF Ended, Of
    <3> QED BY <1>1, <3>1 DEF Heard, Unknown, NoMail, Lacks, Posting, Module
  <2>2. c < ullIndex
    BY <2>1, KnownChannel
  <2>3. sock[c] = "closed" \/ peer[c] # "up"
    BY <1>1 DEF EndsAreReal, Heard
  <2> QED BY <2>2, <2>3, EndedStays
<1>2. CASE CommuStep
  BY <1>1, <1>2, CommuStepHeard
<1>3. CASE ~CommuStep
  <2>1. PostsAllowed
    BY DEF ReleaseInv
  <2> QED BY <1>1, <1>3, <2>1, SilentStepHeard, CommuPostHeard DEF Next
<1> QED BY <1>2, <1>3

LEMMA AttendedIs ==
  ASSUME NEW h, NEW c
  PROVE  Attended(h, c)' <=>
           \/ sock'[c] = "closed"
           \/ ~Lacks(wire'[c], Asking)
           \/ ~Lacks(queue'["AUTH"], Asks(c))
           \/ /\ rcCh'[RidOf[h]] = c
              /\ \/ ~Lacks(queue'["KAFKA"], Wants(RidOf[h]))
                 \/ ~Lacks(queue'["AUTH"], Decided(RidOf[h]))
           \/ ~Lacks(queue'["COMMU"], Replied(c))
           \/ \E i \in DOMAIN out'["AUTH"] :
                out'["AUTH"][i].to = "COMMU" /\ out'["AUTH"][i].msg \in Replied(c)
           \/ ~Lacks(inbox'[c], Verdicts(c))
BY DEF Attended, Posting, Lacks, Asking, Asks, Wants, Decided, Replied, Verdicts, Notice

\* A step that takes nothing of it.
LEMMA AttendedStays ==
  ASSUME TypedBus, NEW h, NEW c \in Channel, Attended(h, c),
         sock[c] = "closed" => sock'[c] = "closed",
         ~Lacks(wire[c], Asking) => ~Lacks(wire'[c], Asking),
         ~Lacks(inbox[c], Verdicts(c)) => ~Lacks(inbox'[c], Verdicts(c)),
         rcCh' = rcCh, out'["AUTH"] = out["AUTH"],
         NEW E, Adds("AUTH", E), Adds("KAFKA", E), Adds("COMMU", E)
  PROVE  Attended(h, c)'
<1>1. \A n \in {"AUTH", "KAFKA", "COMMU"} : \A B : ~Lacks(queue[n], B) => ~Lacks(queue'[n], B)
  <2>1. E \cap {} = {} /\ {"AUTH", "KAFKA", "COMMU"} \subseteq Module
    BY DEF Module
  <2> QED BY <2>1, AddsKeeps
<1> QED BY <1>1, AttendedIs DEF Attended, Posting

LEMMA QuietStepAttended ==
  ASSUME Typed, PostsAllowed, NEW h, NEW c \in Channel, Attended(h, c),
         \/ UpdateStep \/ ActiveStep \/ TimerStep
         \/ (\E m \in Module : m # "AUTH" /\ PostStep(m))
         \/ (\E d \in Channel : (OnDel(d) /\ SelectStep(d)) \/ GiveUpStep(d)) \/ UNCHANGED vars
  PROVE  Attended(h, c)'
<1>1. /\ TypedBus /\ {"AUTH", "KAFKA", "COMMU"} \subseteq Module
      /\ UNCHANGED <<sock, wire, inbox, rcCh>>
  BY DEF Typed, Module, UpdateStep, ActiveStep, TimerStep, PostStep, SelectStep, OnDel, GiveUpStep,
         GiveUp, vars, commuVars, netVars, authVars
<1>2. /\ out'["AUTH"] = out["AUTH"]
      /\ \E E : Adds("AUTH", E) /\ Adds("KAFKA", E) /\ Adds("COMMU", E)
  <2>1. CASE UpdateStep \/ ActiveStep
    BY <1>1, <2>1, UpdateStepPlain, ActiveStepPlain DEF PlainStep
  <2>2. ASSUME NEW m \in Module, m # "AUTH", PostStep(m)
        PROVE  /\ out'["AUTH"] = out["AUTH"]
               /\ Adds("AUTH", {Head(out[m]).msg}) /\ Adds("KAFKA", {Head(out[m]).msg})
               /\ Adds("COMMU", {Head(out[m]).msg})
    BY <1>1, <2>2, DispatchGets DEF PostStep, TypedBus
  <2>3. ASSUME NEW d \in Channel, OnDel(d)
        PROVE  /\ out'["AUTH"] = out["AUTH"]
               /\ \A n \in Module : Adds(n, {Notice("DEL", d)})
    BY <1>1, <2>3, OnDelAdds DEF Adds
  <2>4. CASE TimerStep \/ (\E d \in Channel : GiveUpStep(d)) \/ UNCHANGED vars
    <3>1. UNCHANGED busVars
      BY <2>4 DEF TimerStep, OnTimer, GiveUpStep, GiveUp, vars, busVars
    <3> QED BY <3>1 DEF busVars, Adds
  <2> QED BY <1>1, <2>1, <2>2, <2>3, <2>4
<1> QED BY <1>1, <1>2, AttendedStays

\* The verdict is on the connection or has ended it.
LEMMA CommuStepAttended ==
  ASSUME Typed, ReleaseInv, Fresh, CommuStep, NEW h, NEW c \in Channel, Attended(h, c),
         peer[c] = "up", sock[c] = "closed" => sock'[c] = "closed"
  PROVE  Attended(h, c)'
<1> DEFINE m == Current("COMMU")
<1>1. /\ TypedBus /\ {"AUTH", "KAFKA", "COMMU"} \subseteq Module /\ PostsAllowed
      /\ UNCHANGED <<wire, rcCh>>
  BY DEF Typed, ReleaseInv, Module, CommuStep, CommuHandler, OnNewChannel, OnNewChannelFull,
         OnDelChannel, OnFreeChannel, SendData2Channel, SendDataFail, netVars, authVars
<1>2. /\ queue["COMMU"] # <<>> /\ m = queue["COMMU"][1] /\ 1 \in DOMAIN queue["COMMU"]
      /\ inbox[c] \in Seq(CommuMsg)
      /\ inbox'[c] = inbox[c] \/ inbox'[c] = Append(inbox[c], m)
  BY CommuStepInbox
<1>3. /\ out'["AUTH"] = out["AUTH"]
      /\ Adds("AUTH", Plain) /\ Adds("KAFKA", Plain)
  BY <1>1, CommuStepPlain DEF PlainStep
<1>4. ~Lacks(inbox[c], Verdicts(c)) => ~Lacks(inbox'[c], Verdicts(c))
  <2>1. ~Lacks(inbox[c], Verdicts(c)) => ~Lacks(Append(inbox[c], m), Verdicts(c))
    BY <1>2, AppendKeeps
  <2> QED BY <1>2, <2>1
<1>5. \A B : m \notin B /\ ~Lacks(queue["COMMU"], B) => ~Lacks(queue'["COMMU"], B)
  BY <1>1, CommuActs, ActsTakes
<1>6. CASE m \notin Replied(c)
  <2>1. \A n \in {"AUTH", "KAFKA"} : \A B : ~Lacks(queue[n], B) => ~Lacks(queue'[n], B)
    <3>1. Plain \cap {} = {}
      OBVIOUS
    <3> QED BY <1>1, <1>3, <3>1, AddsKeeps
  <2>2. ~Lacks(queue["COMMU"], Replied(c)) => ~Lacks(queue'["COMMU"], Replied(c))
    BY <1>5, <1>6
  <2> QED BY <1>1, <1>3, <1>4, <2>1, <2>2, AttendedIs DEF Attended, Posting
<1>7. CASE m \in Replied(c)
  <2>1. m.ch = c /\ m.kind \in {"SEND", "FREE"}
    BY <1>7 DEF Replied, Verdicts, Notice
  <2>2. c < ullIndex /\ (c \in mapAC \/ sock[c] = "closed")
    <3>1. m \in Of(c)
      <4>1. queue["COMMU"] \in Seq(Msg)
        BY <1>1 DEF TypedBus
      <4>2. m \in Msg
        BY <1>2, <4>1
      <4> QED BY <2>1, <4>2 DEF Of
    <3>2. ~Unknown(c)
      BY <1>1, <1>2, <3>1 DEF Unknown, NoMail, Lacks
    <3> QED BY <3>2, KnownChannel
  <2>3. sock[c] \in {"open", "closed"}
    <3>1. ullIndex \in Nat /\ c \in Nat /\ sock[c] \in {"none", "open", "closed"}
      BY DispatcherAssumption DEF Typed, CommuTypeOK, Channel
    <3> QED BY <2>2, <3>1 DEF Fresh
  <2>4. CASE sock[c] = "closed"
    BY <2>4, AttendedIs
  <2>5. CASE sock[c] = "open" /\ m.kind = "FREE"
    <3>1. sock' = [sock EXCEPT ![c] = "closed"]
      BY <2>1, <2>2, <2>5
         DEF CommuStep, CommuHandler, OnNewChannel, OnNewChannelFull, OnDelChannel, OnFreeChannel,
             SendData2Channel, SendDataFail, Ready
    <3> QED BY <3>1, AttendedIs DEF Typed, CommuTypeOK
  <2>6. CASE sock[c] = "open" /\ m.kind = "SEND"
    <3>1. m \in Verdicts(c)
      BY <1>7, <2>6 DEF Replied, Notice
    <3>2. inbox' = [inbox EXCEPT ![c] = Append(@, m)]
      BY <2>1, <2>2, <2>6
         DEF CommuStep, CommuHandler, OnNewChannel, OnNewChannelFull, OnDelChannel, OnFreeChannel,
             SendData2Channel, SendDataFail, Ready
    <3>3. inbox'[c] = Append(inbox[c], m)
      BY <3>2 DEF Typed, TypedNet
    <3>4. ~Lacks(Append(inbox[c], m), Verdicts(c))
      BY <1>2, <3>1, AppendKeeps
    <3> QED BY <3>3, <3>4, AttendedIs
  <2> QED BY <2>1, <2>3, <2>4, <2>5, <2>6
<1> QED BY <1>6, <1>7

\* The select loop hands a request to the authentication module.
LEMMA ReadStepAttended ==
  ASSUME Typed, ReleaseInv, NEW h, NEW c \in Channel, Attended(h, c), NEW d \in Channel,
         SelectStep(d), ReadData(d)
  PROVE  Attended(h, c)'
<1> DEFINE f == Head(wire[d])
<1>1. /\ TypedBus /\ {"AUTH", "KAFKA", "COMMU"} \subseteq Module
      /\ UNCHANGED <<sock, inbox, rcCh, out>> /\ wire \in [Channel -> Seq(WireMsg)]
      /\ wire[d] # <<>> /\ wire' = [wire EXCEPT ![d] = Tail(wire[d])]
      /\ queue'[Reader(f)] = Append(queue[Reader(f)], f) /\ f \in Msg /\ f.kind = "RECV"
      /\ \A n \in Module : n # Reader(f) => queue'[n] = queue[n]
  BY ReadDataAdds DEF Typed, TypedNet, Module, SelectStep, ReadData, commuVars, authVars
<1>2. f.ch = d
  <2>1. f = wire[d][1] /\ 1 \in DOMAIN wire[d]
    BY <1>1, TailAt
  <2> QED BY <2>1 DEF ReleaseInv, OneLife
<1> HIDE DEF f
<1>3. \A n \in Module : Adds(n, {f})
  BY <1>1 DEF Adds
<1>4. CASE d # c \/ f \notin Asking
  <2>1. ~Lacks(wire[c], Asking) => ~Lacks(wire'[c], Asking)
    <3>1. wire[d] \in Seq(WireMsg)
      BY <1>1
    <3>2. ~Lacks(wire[d], Asking) /\ f \notin Asking => ~Lacks(Tail(wire[d]), Asking)
      BY <1>1, <3>1, TailKeeps DEF f
    <3> QED BY <1>1, <1>4, <3>2
  <2> QED BY <1>1, <1>3, <2>1, AttendedStays
<1>5. CASE d = c /\ f \in Asking
  <2>1. Reader(f) = "AUTH" /\ f \in Asks(c)
    BY <1>1, <1>2, <1>5 DEF Asking, Asks, Reader
  <2>2. ~Lacks(Append(queue["AUTH"], f), Asks(c))
    <3>1. queue["AUTH"] \in Seq(Msg)
      BY <1>1 DEF TypedBus
    <3> QED BY <2>1, <3>1, AppendKeeps
  <2> QED BY <1>1, <2>1, <2>2, AttendedIs
<1> QED BY <1>4, <1>5

\* The controller decides.
LEMMA KafkaStepAttended ==
  ASSUME Typed, KafkaStep, faults' = 0, NEW h, NEW c \in Channel, Attended(h, c),
         RidOf[h] \in Rid
  PROVE  Attended(h, c)'
<1> DEFINE r == RidOf[h]
           q == queue["KAFKA"]
<1>1. /\ TypedBus /\ {"AUTH", "KAFKA", "COMMU"} \subseteq Module
      /\ UNCHANGED <<sock, wire, inbox, rcCh>> /\ faults \in Nat
      /\ queue \in [Module -> Seq(Msg)] /\ q \in Seq(Msg) /\ queue["AUTH"] \in Seq(Msg)
  BY KafkaAssumption
     DEF Typed, TypedBus, KafkaTypeOK, Module, KafkaStep, commuVars, netVars, authVars
<1>2. out' = out /\ Adds("AUTH", Answers) /\ Adds("COMMU", Answers)
  BY <1>1, KafkaGets
<1>3. \A n \in {"AUTH", "COMMU"} : \A B : ~Lacks(queue[n], B) => ~Lacks(queue'[n], B)
  <2>1. Answers \cap {} = {}
    OBVIOUS
  <2> QED BY <1>1, <1>2, <2>1, AddsKeeps
<1>4. SUFFICES ASSUME ~Lacks(q, Wants(r))
               PROVE  ~Lacks(queue'["KAFKA"], Wants(r)) \/ ~Lacks(queue'["AUTH"], Decided(r))
  BY <1>1, <1>2, <1>3, AttendedIs DEF Attended, Posting
<1>5. ASSUME q # <<>>, queue'["KAFKA"] = Tail(q), Current("KAFKA") \notin Wants(r)
      PROVE  ~Lacks(queue'["KAFKA"], Wants(r))
  BY <1>1, <1>4, <1>5, TailKeeps DEF Current
<1>6. CASE KafkaAnswer /\ ~DealAuthen(Tail(q))
  <2>1. ASSUME NEW m \in {"AUTH", "ACTIVE", "UPDATE"}, NEW body, Answer(m, body, Tail(q))
        PROVE  queue'["KAFKA"] = Tail(q)
    BY <1>1, <2>1 DEF Answer
  <2>2. q # <<>> /\ Current("KAFKA").body # "auth" /\ queue'["KAFKA"] = Tail(q)
    BY <1>6, <2>1 DEF KafkaAnswer, DealActive, DealUpdateCheck, Request
  <2> QED BY <1>5, <2>2 DEF Wants
<1>7. CASE DealAuthen(Tail(q))
  <2>1. q # <<>>
    BY <1>7 DEF DealAuthen, Request
  <2>2. PICK body \in {"auth_ack", "auth_nak"} : Answer("AUTH", body, Tail(q))
    BY <1>7 DEF DealAuthen
  <2> DEFINE e == Json("RCVKAFKA", body, Current("KAFKA").key)
  <2>3. queue'["KAFKA"] = Tail(q) /\ queue'["AUTH"] = Append(queue["AUTH"], e)
    BY <1>1, <2>2 DEF Answer
  <2>4. CASE Current("KAFKA") \in Wants(r)
    <3>1. e \in Decided(r)
      <4>1. Current("KAFKA").key = r
        BY <2>4 DEF Wants
      <4>2. e \in Msg
        BY <4>1 DEF Json, Msg, Kind, Body
      <4> QED BY <4>1, <4>2 DEF Decided, Json
    <3> HIDE DEF e
    <3>2. ~Lacks(Append(queue["AUTH"], e), Decided(r))
      BY <1>1, <3>1, AppendKeeps
    <3> QED BY <2>3, <3>2
  <2> QED BY <1>5, <2>1, <2>3, <2>4
<1>8. CASE UpToDate \/ DealUpdateResult \/ DealActiveSuc
  <2>1. q # <<>> /\ Current("KAFKA").body # "auth" /\ queue'["KAFKA"] = Tail(q)
    BY <1>1, <1>8 DEF UpToDate, DealUpdateResult, DealActiveSuc, Request, Consume
  <2> QED BY <1>5, <2>1 DEF Wants
<1>9. CASE KafkaFault
  BY <1>1, <1>9 DEF KafkaFault, KafkaRepeat, KafkaLose
<1>10. CASE \E s \in Rid : DealPublish(s)
  <2>1. queue'["KAFKA"] = q
    BY <1>1, <1>10 DEF DealPublish, PostMsg, Posted, To
  <2> QED BY <1>4, <2>1
<1> QED BY <1>6, <1>7, <1>8, <1>9, <1>10 DEF KafkaStep, KafkaConsume

LEMMA AuthPostAttended ==
  ASSUME Typed, PostsAllowed, PostStep("AUTH"), NEW h, NEW c \in Channel, Attended(h, c)
  PROVE  Attended(h, c)'
<1>1. /\ TypedBus /\ {"AUTH", "KAFKA", "COMMU"} \subseteq Module /\ Dispatch("AUTH")
      /\ UNCHANGED <<sock, wire, inbox, rcCh>>
  BY DEF Typed, Module, PostStep, commuVars, netVars, authVars
<1>2. \A n \in Module : Adds(n, {Head(out["AUTH"]).msg})
  BY <1>1, DispatchGets
<1>3. \A n \in {"AUTH", "KAFKA", "COMMU"} : \A B : ~Lacks(queue[n], B) => ~Lacks(queue'[n], B)
  <2>1. {Head(out["AUTH"]).msg} \cap {} = {}
    OBVIOUS
  <2> QED BY <1>1, <1>2, <2>1, AddsKeeps
<1>4. Posting("AUTH", "COMMU", Replied(c)) =>
        \/ \E i \in DOMAIN out'["AUTH"] :
             out'["AUTH"][i].to = "COMMU" /\ out'["AUTH"][i].msg \in Replied(c)
        \/ ~Lacks(queue'["COMMU"], Replied(c))
  <2>1. {} \cap Replied(c) = {}
    OBVIOUS
  <2> QED BY <1>1, <2>1, PostingMoves
<1> QED BY <1>1, <1>3, <1>4, AttendedIs DEF Attended

\* The authentication module asks about the id, refuses it, frees the channel or
\* passes the verdict on.
LEMMA AuthStepAttended ==
  ASSUME Typed, OwnerInv, ReleaseInv, EndsAreReal, AuthStep, NEW h \in Aods, NEW c \in Channel,
         cur[h] = c, peer[c] = "up", Attended(h, c)
  PROVE  Attended(h, c)'
<1> DEFINE m == Current("AUTH")
           r == RidOf[h]
           q == queue["AUTH"]
<1>1. /\ TypedBus /\ PostsAllowed /\ {"AUTH", "KAFKA", "COMMU"} \subseteq Module /\ r \in Rid
      /\ UNCHANGED <<sock, wire, inbox>> /\ q # <<>> /\ q \in Seq(Msg)
      /\ m = q[1] /\ 1 \in DOMAIN q /\ m \in Msg /\ c # None
      /\ queue["COMMU"] \in Seq(Msg) /\ queue["KAFKA"] \in Seq(Msg)
  <2>1. TypedBus /\ PostsAllowed /\ {"AUTH", "KAFKA", "COMMU"} \subseteq Module
    BY DEF Typed, ReleaseInv, Module
  <2>2. q # <<>> /\ q \in Seq(Msg) /\ queue["COMMU"] \in Seq(Msg) /\ queue["KAFKA"] \in Seq(Msg)
    BY <2>1, AuthPosts DEF TypedBus
  <2>3. m = q[1] /\ 1 \in DOMAIN q
    BY <2>2, TailAt DEF Current
  <2>4. UNCHANGED <<sock, wire, inbox>>
    BY DEF AuthStep, commuVars, netVars
  <2>5. r \in Rid /\ c # None
    BY HostsAssumption, DispatcherAssumption DEF Channel
  <2> QED BY <2>1, <2>2, <2>3, <2>4, <2>5
<1>2. /\ out["AUTH"] = <<>> /\ Acts("AUTH")
      /\ \A n \in {"KAFKA", "COMMU"} : \A B : ~Lacks(queue[n], B) => ~Lacks(queue'[n], B)
      /\ \A B : ~Lacks(q, B) /\ m \notin B => ~Lacks(queue'["AUTH"], B)
  <2>1. out["AUTH"] = <<>> /\ Acts("AUTH") /\ Adds("KAFKA", Inner) /\ Adds("COMMU", Inner)
    BY <1>1, AuthStepInner, AuthActs
  <2>2. Inner \cap {} = {}
    OBVIOUS
  <2> QED BY <1>1, <2>1, <2>2, AddsKeeps, ActsTakes
<1>3. ~Posting("AUTH", "COMMU", Replied(c))
  BY <1>2 DEF Posting
<1>4. /\ m.kind = "RECV" /\ m.body = "AUTH" /\ m.ch = c => m.key = r
      /\ m.kind = "RECV" /\ m.body = "AUTH" => m.key \in Rid /\ rcCh \in [Rid -> Channel \cup {None}]
  <2>1. m.kind = "RECV" /\ m.body = "AUTH" => m.key \in Rid /\ rcCh \in [Rid -> Channel \cup {None}]
    BY <1>1, AuthCurrent DEF Typed, AuthTypeOK
  <2>2. m \in Mail
    BY <1>1 DEF Mail, Queued, Range
  <2>3. m.kind = "RECV" /\ m.body = "AUTH" /\ m.ch = c => Says(c, m.key)
    BY <2>2 DEF Says, Names
  <2> QED BY <2>1, <2>3 DEF OwnerInv, IdOfHost, Host
<1> HIDE DEF m
\* What c asks for is answered in this step.
<1>5. CASE m \in Asks(c)
  <2>1. m.kind = "RECV" /\ m.ch = c
    BY <1>5 DEF Asks
  <2>2. CASE RejectCode
    <3>1. Handle("AUTH", <<Free(c)>>)
      BY <2>1, <2>2 DEF RejectCode, m
    <3>2. Free(c).to = "COMMU" /\ Free(c).msg \in Replied(c)
      BY DEF Free, To, Replied
    <3> DEFINE p == Free(c)
    <3> HIDE DEF p
    <3>3. queue'["COMMU"] = Append(queue["COMMU"], p.msg)
      BY <1>1, <3>1, <3>2, HandleOne DEF Module, p
    <3>4. ~Lacks(Append(queue["COMMU"], p.msg), Replied(c))
      BY <1>1, <3>2, AppendKeeps DEF p
    <3> QED BY <3>3, <3>4, AttendedIs
  <2>3. CASE RejectOther
    <3> DEFINE p == Send(c, "AUTH_DIF", m.key)
               f == Free(c)
    <3>1. Handle("AUTH", <<p, f>>) /\ m.body = "AUTH"
      BY <2>1, <2>3 DEF RejectOther, AuthRequest, m
    <3>2. p.to = "COMMU" /\ p.msg \in Replied(c)
      BY <1>4, <2>1, <3>1 DEF Send, To, Frame, Replied, Verdicts, Msg, Kind, Body
    <3> HIDE DEF p, f
    <3>3. queue'["COMMU"] = Append(queue["COMMU"], p.msg)
      <4>1. <<p, f>> \in Seq({p, f}) /\ <<p, f>> # <<>> /\ Head(<<p, f>>) = p
        OBVIOUS
      <4> DEFINE posts == <<p, f>>
      <4>2. posts \in Seq({p, f}) /\ posts # <<>> /\ Head(posts) = p /\ Handle("AUTH", posts)
        BY <3>1, <4>1
      <4> HIDE DEF posts
      <4> QED BY <1>1, <3>2, <4>2, HandleFirst DEF Module
    <3>4. ~Lacks(Append(queue["COMMU"], p.msg), Replied(c))
      BY <1>1, <3>2, AppendKeeps
    <3> QED BY <3>3, <3>4, AttendedIs
  <2>4. CASE DropBoth
    <3> DEFINE p == Free(rcCh[m.key])
               f == Free(c)
    <3>1. Handle("AUTH", <<p, f>>)
      BY <2>1, <2>4 DEF DropBoth, m
    <3>2. f.to = "COMMU" /\ f.msg \in Replied(c) /\ p.to = "COMMU"
      BY DEF Free, To, Replied
    <3> HIDE DEF p, f
    <3>3. out'["AUTH"] = <<f>>
      <4>1. <<p, f>> \in Seq({p, f}) /\ <<p, f>> # <<>> /\ Head(<<p, f>>) = p /\ Tail(<<p, f>>) = <<f>>
        OBVIOUS
      <4> DEFINE posts == <<p, f>>
      <4>2. posts \in Seq({p, f}) /\ posts # <<>> /\ Head(posts) = p /\ Handle("AUTH", posts)
            /\ Tail(posts) = <<f>>
        BY <3>1, <4>1
      <4> HIDE DEF posts
      <4> QED BY <1>1, <3>2, <4>2, HandleFirst DEF Module
    <3>4. 1 \in DOMAIN <<f>> /\ <<f>>[1] = f
      OBVIOUS
    <3> QED BY <3>2, <3>3, <3>4, AttendedIs
  <2>5. CASE BindChannel
    <3> DEFINE p == ToKafka("auth", m.key)
    <3>1. /\ Handle("AUTH", <<p>>) /\ m.body = "AUTH" /\ rcCh' = [rcCh EXCEPT ![m.key] = c]
      BY <2>1, <2>5 DEF BindChannel, AuthRequest, m
    <3>2. m.key = r /\ rcCh'[r] = c
      BY <1>1, <1>4, <2>1, <3>1
    <3>3. p.to = "KAFKA" /\ p.msg \in Wants(r)
      BY <1>1, <3>2 DEF ToKafka, To, Json, Wants, Msg, Kind, Body
    <3> HIDE DEF p
    <3>4. queue'["KAFKA"] = Append(queue["KAFKA"], p.msg)
      BY <1>1, <3>1, <3>3, HandleOne DEF Module
    <3>5. ~Lacks(Append(queue["KAFKA"], p.msg), Wants(r))
      BY <1>1, <3>3, AppendKeeps
    <3> QED BY <3>2, <3>4, <3>5, AttendedIs
  <2> QED BY <2>1, <2>2, <2>3, <2>4, <2>5
          DEF AuthStep, AuthHandler, OnAuthAck, AuthOnSendChannelDataFail, AuthOnChannelFreed,
              Ready, m
\* The verdict for the id is passed on to c.
<1>6. CASE m \in Decided(r) /\ rcCh[r] = c
  <2>1. m.kind = "RCVKAFKA" /\ m.key = r /\ m.body \in {"auth_ack", "auth_nak"}
    BY <1>6 DEF Decided
  <2> DEFINE a == To("UPDATE", Frame("AUTH_SUC", c, "-", r))
             p == Send(c, "AUTH_SUC", r)
             n == Send(c, "AUTH_FAI", r)
  <2>2. /\ OnAuthAck
        /\ \/ Handle("AUTH", <<a, p>>) \/ Handle("AUTH", <<n>>)
    BY <1>1, <1>6, <2>1
       DEF AuthStep, AuthHandler, RejectCode, RejectOther, DropBoth, BindChannel, OnAuthAck,
           AuthRequest, AuthOnSendChannelDataFail, AuthOnChannelFreed, Ready, m
  <2>3. /\ a.to = "UPDATE" /\ p.to = "COMMU" /\ n.to = "COMMU"
        /\ p.msg \in Replied(c) /\ n.msg \in Replied(c)
    BY <1>1 DEF Send, To, Frame, Replied, Verdicts, Msg, Kind, Body
  <2> HIDE DEF a, p, n
  <2>4. CASE Handle("AUTH", <<a, p>>)
    <3>1. out'["AUTH"] = <<p>>
      <4>1. <<a, p>> \in Seq({a, p}) /\ <<a, p>> # <<>> /\ Head(<<a, p>>) = a /\ Tail(<<a, p>>) = <<p>>
        OBVIOUS
      <4> DEFINE posts == <<a, p>>
      <4>2. posts \in Seq({a, p}) /\ posts # <<>> /\ Head(posts) = a /\ Handle("AUTH", posts)
            /\ Tail(posts) = <<p>>
        BY <2>4, <4>1
      <4> HIDE DEF posts
      <4> QED BY <1>1, <2>3, <4>2, HandleFirst DEF Module
    <3>2. 1 \in DOMAIN <<p>> /\ <<p>>[1] = p
      OBVIOUS
    <3> QED BY <2>3, <3>1, <3>2, AttendedIs
  <2>5. CASE Handle("AUTH", <<n>>)
    <3>1. queue'["COMMU"] = Append(queue["COMMU"], n.msg)
      BY <1>1, <2>3, <2>5, HandleOne DEF Module
    <3>2. ~Lacks(Append(queue["COMMU"], n.msg), Replied(c))
      BY <1>1, <2>3, AppendKeeps
    <3> QED BY <3>1, <3>2, AttendedIs
  <2> QED BY <2>2, <2>4, <2>5
\* Another message: the id stays bound to c, unless c has ended.
<1>7. CASE m \notin Asks(c) /\ ~(m \in Decided(r) /\ rcCh[r] = c)
  <2>1. rcCh[r] = c => rcCh'[r] = c \/ sock[c] = "closed"
    <3>1. CASE AuthForget(m.ch) /\ m.kind \in {"FREED", "FAIL"}
      <4>1. ASSUME rcCh[r] = c, rcCh'[r] # c
            PROVE  m \in Ended(c)
        <5>1. m.ch \in Channel /\ cr[c] = r
          BY <1>1, <3>1, <4>1, AuthCurrent DEF OwnerInv, OwnerMapsInverse, m
        <5>2. r = cr[m.ch]
          BY <1>1, <3>1, <4>1 DEF AuthForget
        <5>3. rcCh[r] = m.ch
          BY <1>1, <5>1, <5>2 DEF OwnerInv, OwnerMapsInverse
        <5> QED BY <1>1, <3>1, <4>1, <5>3 DEF Ended
      <4>2. m \in Ended(c) => sock[c] = "closed"
        BY <1>1 DEF EndsAreReal, Lacks
      <4> QED BY <4>1, <4>2
    <3>2. CASE BindChannel
      BY <1>1, <1>4, <3>2 DEF BindChannel, AuthRequest, Ready, m
    <3>3. CASE ~BindChannel /\ ~(AuthForget(m.ch) /\ m.kind \in {"FREED", "FAIL"})
      <4>1. rcCh' = rcCh
        BY <3>3 DEF AuthStep, AuthHandler, RejectCode, RejectOther, DropBoth, OnAuthAck, authVars,
                    AuthOnSendChannelDataFail, AuthOnChannelFreed, Ready, m
      <4> QED BY <4>1
    <3> QED BY <3>1, <3>2, <3>3
  <2>2. rcCh[r] = c /\ ~Lacks(q, Decided(r)) => ~Lacks(queue'["AUTH"], Decided(r))
    BY <1>2, <1>7
  <2>3. ~Lacks(q, Asks(c)) => ~Lacks(queue'["AUTH"], Asks(c))
    BY <1>2, <1>7
  <2> QED BY <1>1, <1>2, <1>3, <2>1, <2>2, <2>3, AttendedIs DEF Attended
<1> QED BY <1>5, <1>6, <1>7

\* A machine takes no verdict while it waits.
LEMMA HostStepAttended ==
  ASSUME Typed, Linked, NEW g \in Host, HostStep(g), NEW h \in Aods, NEW c \in Channel,
         cur[h] = c, cur'[h] = c, hst'[h] = "conn", Attended(h, c),
         sock[c] = "closed" => sock'[c] = "closed"
  PROVE  Attended(h, c)'
<1>1. /\ TypedBus /\ {"AUTH", "KAFKA", "COMMU"} \subseteq Module /\ HostTypeOK /\ h \in Host
      /\ wire \in [Channel -> Seq(WireMsg)] /\ inbox \in [Channel -> Seq(CommuMsg)]
      /\ rcCh' = rcCh /\ c # None /\ c \in Nat /\ ullIndex \in Nat
  BY DispatcherAssumption
     DEF Typed, TypedNet, Module, Host, HostStep, authVars, Channel, CommuTypeOK
<1>2. CASE Connect(g)
  <2>1. c # ullIndex
    BY <1>1 DEF Linked
  <2>2. /\ wire'[c] = wire[c] /\ inbox' = inbox /\ out' = out
        /\ Adds("AUTH", {Notice("NEW", ullIndex)}) /\ Adds("KAFKA", {Notice("NEW", ullIndex)})
        /\ Adds("COMMU", {Notice("NEW", ullIndex)})
    BY <1>1, <1>2, <2>1, ConnectAdds DEF Adds
  <2> QED BY <1>1, <2>2, AttendedStays
<1>3. CASE ~Connect(g)
  <2>1. UNCHANGED <<queue, out>> /\ Reports(g)
    BY <1>3, HostStepReports DEF busVars
  <2>2. ~Lacks(wire[c], Asking) => ~Lacks(wire'[c], Asking)
    <3>1. wire'[c] = wire[c] \/ \E e : wire'[c] = Append(wire[c], e)
      BY <1>1, <2>1 DEF Reports
    <3>2. wire[c] \in Seq(WireMsg)
      BY <1>1
    <3> QED BY <3>1, <3>2, AppendKeeps
  <2>3. ~Lacks(inbox[c], Verdicts(c)) => ~Lacks(inbox'[c], Verdicts(c))
    <3>1. CASE g # h
      <4>1. cur[g] # c
        BY <1>1, <3>1 DEF Linked
      <4>2. inbox'[c] = inbox[c]
        BY <1>1, <1>3, <4>1
           DEF HostStep, Disconnect, SeeClosed, HostReceive, OnAuthSucceeded, OnUpdate,
               ReportResult, OnKeepAlive, OnAuthRefused, OnActivated, Leave, Reply
      <4> QED BY <4>2
    <3>2. CASE g = h
      <4>1. OnUpdate(h) \/ OnKeepAlive(h) \/ ReportResult(h)
        <5>1. \A how, state : ~Leave(h, how, state)
          BY <1>1 DEF Leave, HostTypeOK
        <5>2. ~OnAuthSucceeded(h)
          BY <1>1 DEF OnAuthSucceeded, HostTypeOK
        <5> QED BY <1>3, <3>2, <5>1, <5>2
                DEF HostStep, Disconnect, SeeClosed, HostReceive, OnAuthRefused, OnActivated
      <4>2. CASE ReportResult(h)
        BY <4>2 DEF ReportResult
      <4>3. CASE OnUpdate(h) \/ OnKeepAlive(h)
        <5>1. /\ inbox[c] # <<>> /\ Head(inbox[c]).body \in {"UMI", "KEEPALIVE"}
              /\ inbox'[c] = Tail(inbox[c]) /\ inbox[c] \in Seq(CommuMsg)
          BY <1>1, <4>3 DEF OnUpdate, OnKeepAlive, Answered, Reply
        <5>2. Head(inbox[c]) \notin Verdicts(c)
          BY <5>1 DEF Verdicts
        <5> QED BY <5>1, <5>2, TailKeeps
      <4> QED BY <4>1, <4>2, <4>3
    <3> QED BY <3>1, <3>2
  <2>4. Adds("AUTH", {}) /\ Adds("KAFKA", {}) /\ Adds("COMMU", {})
    BY <2>1 DEF Adds
  <2> QED BY <1>1, <2>1, <2>2, <2>3, <2>4, AttendedStays
<1> QED BY <1>2, <1>3

\* A machine that starts to wait has just connected and sent its request.
LEMMA WaitStarts ==
  ASSUME Typed, [Next]_vars, NEW h \in Aods, NEW c \in Channel,
         cur'[h] = c, hst'[h] = "conn", ~(cur[h] = c /\ hst[h] = "conn")
  PROVE  Attended(h, c)'
<1>1. h \in Host /\ HostTypeOK /\ c # None
  BY DispatcherAssumption DEF Host, Typed, Channel
<1>2. Connect(h)
  <2>1. PICK g \in Host : HostStep(g)
    BY DEF Next, CommuStep, AuthStep, UpdateStep, ActiveStep, TimerStep, PostStep, SelectStep,
           GiveUpStep, GiveUp, KafkaStep, hostVars, vars
  <2>2. \A how : ~Leave(g, how, "idle") /\ ~Leave(g, how, "stopped")
    BY <1>1 DEF Leave, HostTypeOK
  <2>3. ~OnAuthSucceeded(g) /\ ~OnUpdate(g) /\ ~OnKeepAlive(g) /\ ~ReportResult(g)
    BY <1>1 DEF OnAuthSucceeded, OnUpdate, OnKeepAlive, ReportResult, Reply, HostTypeOK
  <2>4. Connect(g)
    BY <2>1, <2>2, <2>3
       DEF HostStep, Disconnect, SeeClosed, HostReceive, OnAuthRefused, OnActivated
  <2> QED BY <1>1, <2>4 DEF Connect, HostTypeOK
<1>3. c = ullIndex
  BY <1>1, <1>2 DEF Connect, HostTypeOK
<1>4. PICK ip \in IpOf[h] : wire' = [wire EXCEPT ![c] = <<FirstFrame(h, c, ip)>>]
  BY <1>1, <1>2, <1>3, ConnectAdds
<1> DEFINE f == FirstFrame(h, c, ip)
<1>5. f \in Asking
  <2>1. f \in WireMsg
    BY <1>1, FirstFrameGood
  <2>2. f.kind = "RECV" /\ f.body \in {"AUTH", "AUTH_BADCODE"}
    BY HostsAssumption DEF FirstFrame
  <2>3. WireMsg \subseteq Msg
    BY DEF WireMsg, Kinds, OnChannel
  <2> QED BY <2>1, <2>2, <2>3 DEF Asking
<1> HIDE DEF f
<1>6. wire'[c] = <<f>>
  BY <1>4 DEF Typed, TypedNet, f
<1>7. ~Lacks(<<f>>, Asking)
  BY <1>5 DEF Lacks
<1> QED BY <1>6, <1>7, AttendedIs

LEMMA NextForgotten ==
  ASSUME Typed, OwnerInv, ReleaseInv, Fresh, Linked, EndsAreReal, NoneForgotten, [Next]_vars
  PROVE  NoneForgotten'
<1> SUFFICES ASSUME faults' = 0, NEW h \in Aods, NEW c \in Channel, cur'[h] = c, hst'[h] = "conn"
             PROVE  Attended(h, c)'
  BY DEF NoneForgotten
<1>1. /\ PostsAllowed /\ h \in Host /\ RidOf[h] \in Rid
      /\ sock[c] = "closed" => sock'[c] = "closed"
  BY SocketsClose, HostsAssumption DEF ReleaseInv, Host
<1>2. faults = 0
  BY <1>1, EarlyShrinks
<1>3. CASE ~(cur[h] = c /\ hst[h] = "conn")
  BY <1>3, WaitStarts
<1>4. CASE cur[h] = c /\ hst[h] = "conn"
  <2>1. Attended(h, c) /\ peer[c] = "up"
    BY <1>1, <1>2, <1>4 DEF NoneForgotten, Linked
  <2>2. CASE CommuStep
    BY <1>1, <2>1, <2>2, CommuStepAttended
  <2>3. CASE AuthStep
    BY <1>4, <2>1, <2>3, AuthStepAttended
  <2>4. CASE KafkaStep
    BY <1>1, <2>1, <2>4, KafkaStepAttended
  <2>5. CASE PostStep("AUTH")
    BY <1>1, <2>1, <2>5, AuthPostAttended
  <2>6. ASSUME NEW d \in Channel, SelectStep(d), ReadData(d)
        PROVE  Attended(h, c)'
    BY <2>1, <2>6, ReadStepAttended
  <2>7. ASSUME NEW g \in Host, HostStep(g)
        PROVE  Attended(h, c)'
    BY <1>1, <1>4, <2>1, <2>7, HostStepAttended
  <2>8. CASE \/ UpdateStep \/ ActiveStep \/ TimerStep
             \/ (\E m \in Module : m # "AUTH" /\ PostStep(m))
             \/ (\E d \in Channel : (OnDel(d) /\ SelectStep(d)) \/ GiveUpStep(d)) \/ UNCHANGED vars
    BY <1>1, <2>1, <2>8, QuietStepAttended
  <2> QED BY <2>2, <2>3, <2>4, <2>5, <2>6, <2>7, <2>8 DEF Next, SelectStep
<1> QED BY <1>3, <1>4

\* No request for authentication is forgotten: a machine that waits for its
\* answer, on a connection that aodc has not closed, has its request in the
\* queue of CAodsAuthModule, its id bound to this connection and a question or a
\* verdict about it under way, or its answer or its disconnection.
THEOREM NeverForgottenAlways == Spec => []NeverForgotten
<1> DEFINE I == Fresh /\ Linked /\ EndsAreReal /\ NoneForgotten
<1>1. Init => I
  <2> SUFFICES ASSUME Init PROVE I
    OBVIOUS
  <2>1. \A h \in Host, c \in Channel : cur[h] # c
    BY DispatcherAssumption DEF Init, HostInit, Channel
  <2>2. Linked /\ NoneForgotten
    BY <2>1 DEF Linked, NoneForgotten, Host
  <2>3. EndsAreReal
    BY DEF Init, BusInit, EndsAreReal, Lacks, Posting, Module
  <2> QED BY <2>2, <2>3, InitFresh
<1>2. Typed /\ OwnerInv /\ ReleaseInv /\ I /\ [Next]_vars => I'
  BY NextFresh, NextLinked, NextEnds, NextForgotten
<1>3. Typed /\ I => NeverForgotten
  <2> SUFFICES ASSUME Typed, I, faults = 0, NEW h \in Aods, NEW c \in Channel, cur[h] = c, hst[h] = "conn"
               PROVE  \/ wire[c] # <<>> \/ inbox[c] # <<>> \/ sock[c] = "closed"
                      \/ SendComing("AUTH", c) \/ Coming("AUTH", "COMMU", Notice("FREE", c))
                      \/ \E i \in DOMAIN queue["AUTH"] :
                           queue["AUTH"][i].kind = "RECV" /\ queue["AUTH"][i].ch = c
                      \/ /\ rcCh[RidOf[h]] = c
                         /\ \E m \in {"KAFKA", "AUTH"} : \E i \in DOMAIN queue[m] :
                              /\ queue[m][i].body \in {"auth", "auth_ack", "auth_nak"}
                              /\ queue[m][i].key = RidOf[h]
    BY DEF NeverForgotten
  <2>1. Attended(h, c)
    BY DEF NoneForgotten
  <2>2. wire[c] = <<>> => Lacks(wire[c], Asking)
    BY DEF Lacks
  <2>3. inbox[c] = <<>> => Lacks(inbox[c], Verdicts(c))
    BY DEF Lacks
  <2>4. ASSUME ~Lacks(queue["COMMU"], Replied(c)) \/ Posting("AUTH", "COMMU", Replied(c))
        PROVE  SendComing("AUTH", c) \/ Coming("AUTH", "COMMU", Notice("FREE", c))
    <3>1. \A i \in DOMAIN out["AUTH"] : out["AUTH"][i] \in Post
      BY DEF Typed, TypedBus, GoodPost, Module
    <3>2. \A p \in Post : p = To(p.to, p.msg)
      BY DEF Post, To
    <3>3. \A m \in Replied(c) : (m.kind = "SEND" /\ m.ch = c) \/ m = Notice("FREE", c)
      BY DEF Replied, Verdicts
    <3> QED BY <2>4, <3>1, <3>2, <3>3 DEF Lacks, Posting, SendComing, Coming
  <2>5. ~Lacks(queue["AUTH"], Asks(c)) =>
          \E i \in DOMAIN queue["AUTH"] :
            queue["AUTH"][i].kind = "RECV" /\ queue["AUTH"][i].ch = c
    BY DEF Lacks, Asks
  <2>6. ~Lacks(queue["KAFKA"], Wants(RidOf[h])) \/ ~Lacks(queue["AUTH"], Decided(RidOf[h])) =>
          \E m \in {"KAFKA", "AUTH"} : \E i \in DOMAIN queue[m] :
            /\ queue[m][i].body \in {"auth", "auth_ack", "auth_nak"}
            /\ queue[m][i].key = RidOf[h]
    BY DEF Lacks, Wants, Decided
  <2> QED BY <2>1, <2>2, <2>3, <2>4, <2>5, <2>6 DEF Attended
<1> QED BY <1>1, <1>2, <1>3, TypedAlways, OwnerAlways, ReleaseAlways, PTL DEF Spec
=============================================================================
