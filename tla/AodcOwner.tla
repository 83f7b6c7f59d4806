----------------------------- MODULE AodcOwner -----------------------------
(***************************************************************************)
(* Types of the aodc process, and one connection, one resource id: for any *)
(* number of hosts and connections.                                        *)
(*                                                                         *)
(* TypeOK is not inductive: a handler takes the channel, the id or the     *)
(* uuid from a message, so Typed also says which fields the messages of    *)
(* each queue have.                                                        *)
(*                                                                         *)
(* The maps of the authentication module and of the update module are      *)
(* changed by different threads at different moments.  That each is        *)
(* consistent, and that an update reaches a machine it is meant for, has   *)
(* one reason: whatever names an id for a channel, a map entry, a request  *)
(* not yet read or handled, an announcement or an update on its way, names *)
(* the id of the one machine behind the channel.                           *)
(***************************************************************************)
EXTENDS AodcProps, TLAPS, SequenceTheorems, Functions

OnChannel == {m \in Msg : m.ch \in Channel}

\* Messages about a channel, by the kind they have.
Kinds(ks) == {m \in OnChannel : m.kind \in ks}

\* A frame that install takes for the answer to its request.
ActvFrame(m) == m.body \in {"ACTV_SUC", "ACTV_ERR"}

CommuMsg == {m \in Kinds({"NEW", "DEL", "FREE", "SEND"}) :
               /\ ActvFrame(m) => m.key \in Uuid \cup {None}
               /\ m.body = "UMI" => m.key \in Rid}

\* A frame on the wire: its reader and what the reader takes from it.
WireMsg == {m \in Kinds({"RECV"}) :
              m.body = "AUTH" => m.key \in Rid /\ m.ip \in Ip}

AuthMsg == {m \in WireMsg : m.body \in {"AUTH", "AUTH_BADCODE"}}
           \cup Kinds({"FAIL", "FREED"})
           \cup {m \in Msg : m.kind = "RCVKAFKA" /\ m.key \in Rid}

UpdateMsg == Kinds({"RECV", "FAIL", "FREED"})
             \cup {m \in Kinds({"AUTH_SUC"}) : m.key \in Rid}
             \cup {m \in Msg : m.kind = "RCVKAFKA" /\ m.key \in Rid}

ActiveMsg == Kinds({"BUILDED", "RECV", "FAIL", "FREED"})
             \cup {m \in Msg : m.kind = "RCVKAFKA" /\ m.key \in Uuid}

KafkaMsg == {m \in Msg :
  /\ m.body \in {"auth", "check_update", "update_result"} => m.key \in Rid
  /\ m.body \in {"active", "active_suc"} => m.key \in Uuid}

MsgFor(m) == CASE m = "COMMU"  -> CommuMsg
               [] m = "AUTH"   -> AuthMsg
               [] m = "UPDATE" -> UpdateMsg
               [] m = "ACTIVE" -> ActiveMsg
               [] m = "KAFKA"  -> KafkaMsg

GoodPost == {p \in Post : p.msg \in MsgFor(p.to)}

TypedBus ==
  /\ queue \in [Module -> Seq(Msg)]
  /\ \A m \in Module : queue[m] \in Seq(MsgFor(m))
  /\ out \in [Module -> Seq(GoodPost)]

TypedNet ==
  /\ wire \in [Channel -> Seq(WireMsg)]
  /\ inbox \in [Channel -> Seq(CommuMsg)]

\* Typed implies TypeOK and is inductive.
Typed == TypedBus /\ CommuTypeOK /\ TypedNet /\ HostTypeOK /\ AuthTypeOK
         /\ UpdTypeOK /\ ActTypeOK /\ KafkaTypeOK
-----------------------------------------------------------------------------
(* Messages. *)

\* Every message has a place in Msg.
LEMMA MsgForInMsg == \A m \in Module : MsgFor(m) \subseteq Msg
BY DEF Module, MsgFor, CommuMsg, WireMsg, AuthMsg, UpdateMsg, ActiveMsg,
       KafkaMsg, Kinds, OnChannel

\* Posting a message of the right kind keeps the queues typed.
LEMMA PostedTyped ==
  ASSUME NEW q \in [Module -> Seq(Msg)], \A m \in Module : q[m] \in Seq(MsgFor(m)),
         NEW p \in GoodPost
  PROVE  /\ Posted(q, p) \in [Module -> Seq(Msg)]
         /\ \A m \in Module : Posted(q, p)[m] \in Seq(MsgFor(m))
<1>1. p.to \in Module /\ p.msg \in Msg /\ p.msg \in MsgFor(p.to)
  BY DEF GoodPost, Post
<1>2. Posted(q, p) = [q EXCEPT ![p.to] = Append(q[p.to], p.msg)]
  BY DEF Posted
<1>3. /\ Append(q[p.to], p.msg) \in Seq(Msg)
      /\ Append(q[p.to], p.msg) \in Seq(MsgFor(p.to))
  BY <1>1
<1> QED BY <1>1, <1>2, <1>3

\* The message a module takes, and what it leaves, have the types of its queue.
LEMMA CurrentTyped ==
  ASSUME TypedBus, NEW m \in Module, queue[m] # <<>>
  PROVE  /\ Current(m) \in MsgFor(m)
         /\ Tail(queue[m]) \in Seq(Msg)
         /\ Tail(queue[m]) \in Seq(MsgFor(m))
BY DEF TypedBus, Current

\* A handler with posts of the right kinds keeps the queues typed.
LEMMA HandleTyped ==
  ASSUME TypedBus, NEW m \in Module, queue[m] # <<>>,
         NEW posts \in Seq(GoodPost), Handle(m, posts)
  PROVE  TypedBus'
<1> DEFINE rest == [queue EXCEPT ![m] = Tail(@)]
<1>1. rest \in [Module -> Seq(Msg)] /\ \A n \in Module : rest[n] \in Seq(MsgFor(n))
  BY CurrentTyped DEF TypedBus
<1>2. CASE posts = <<>>
  BY <1>1, <1>2 DEF Handle, TypedBus
<1>3. CASE posts # <<>>
  <2>1. Head(posts) \in GoodPost /\ Tail(posts) \in Seq(GoodPost)
    BY <1>3
  <2>2. queue' = Posted(rest, Head(posts)) /\ out' = [out EXCEPT ![m] = Tail(posts)]
    BY <1>3 DEF Handle
  <2>3. out' \in [Module -> Seq(GoodPost)]
    BY <2>1, <2>2 DEF TypedBus
  <2> HIDE DEF rest
  <2> QED BY <1>1, <2>1, <2>2, <2>3, PostedTyped DEF TypedBus
<1> QED BY <1>2, <1>3

\* So does a thread that posts one message of the right kind.
LEMMA PostMsgTyped ==
  ASSUME TypedBus, NEW m \in Module, NEW msg \in MsgFor(m), PostMsg(m, msg)
  PROVE  TypedBus'
<1>1. To(m, msg) \in GoodPost
  BY MsgForInMsg DEF To, GoodPost, Post
<1> QED BY <1>1, PostedTyped DEF TypedBus, PostMsg

\* So does a later post of a handler, whose posts were typed before.
LEMMA DispatchTyped ==
  ASSUME TypedBus, NEW m \in Module, Dispatch(m)
  PROVE  TypedBus'
<1>1. Head(out[m]) \in GoodPost /\ Tail(out[m]) \in Seq(GoodPost)
  BY DEF TypedBus, Dispatch
<1> QED BY <1>1, PostedTyped DEF TypedBus, Dispatch

\* Notices about a channel have the types of the modules they are for.
LEMMA NoticeGood ==
  ASSUME NEW c \in Channel
  PROVE  /\ \A k \in {"NEW", "DEL", "FREE"} : Notice(k, c) \in CommuMsg
         /\ Notice("BUILDED", c) \in ActiveMsg
         /\ \A k \in {"FREED", "FAIL"} :
              Notice(k, c) \in ActiveMsg /\ Notice(k, c) \in AuthMsg
              /\ Notice(k, c) \in UpdateMsg
BY DEF Notice, CommuMsg, ActiveMsg, AuthMsg, UpdateMsg, Kinds, OnChannel, Msg,
       Kind, Body, ActvFrame

\* A message of the right kind makes a post of the right type.
LEMMA ToGood ==
  ASSUME NEW m \in Module, NEW msg \in MsgFor(m)
  PROVE  To(m, msg) \in GoodPost
BY MsgForInMsg DEF To, GoodPost, Post

\* The posts of a broadcast have the right types.
LEMMA BroadcastGood ==
  ASSUME NEW c \in Channel, NEW k \in {"FREED", "FAIL"}
  PROVE  Broadcast(Notice(k, c)) \in Seq(GoodPost)
<1>1. To("ACTIVE", Notice(k, c)) \in GoodPost
  BY NoticeGood, ToGood DEF MsgFor, Module
<1>2. To("AUTH", Notice(k, c)) \in GoodPost
  BY NoticeGood, ToGood DEF MsgFor, Module
<1>3. To("UPDATE", Notice(k, c)) \in GoodPost
  BY NoticeGood, ToGood DEF MsgFor, Module
<1> QED BY <1>1, <1>2, <1>3 DEF Broadcast
-----------------------------------------------------------------------------
(* The communication module and the select loop. *)

\* The message at the head of the queue of the communication module.
LEMMA CommuCurrent ==
  ASSUME TypedBus, queue["COMMU"] # <<>>
  PROVE  /\ Current("COMMU") \in CommuMsg
         /\ Current("COMMU").ch \in Channel
         /\ "COMMU" \in Module
<1>1. "COMMU" \in Module
  BY DEF Module
<1>2. Current("COMMU") \in CommuMsg
  BY <1>1, CurrentTyped DEF MsgFor
<1> QED BY <1>1, <1>2 DEF CommuMsg, Kinds, OnChannel

\* Each handler of the communication module keeps the types.
LEMMA CommuStepTyped ==
  ASSUME Typed, CommuStep
  PROVE  Typed'
<1> USE DEF Typed
<1> DEFINE c == Current("COMMU").ch
<1>1. queue["COMMU"] # <<>>
  BY DEF CommuStep, CommuHandler, OnNewChannel, OnNewChannelFull, OnDelChannel,
         OnFreeChannel, SendData2Channel, SendDataFail, Ready
<1>2. Current("COMMU") \in CommuMsg /\ c \in Channel /\ "COMMU" \in Module
  BY <1>1, CommuCurrent
<1>3. HostTypeOK' /\ AuthTypeOK' /\ UpdTypeOK' /\ ActTypeOK' /\ KafkaTypeOK'
  BY DEF CommuStep, HostTypeOK, AuthTypeOK, UpdTypeOK, ActTypeOK, KafkaTypeOK,
         hostVars, authVars, updVars, routeVars, actVars, kafkaVars
<1>4. <<>> \in Seq(GoodPost) /\ <<To("ACTIVE", Notice("BUILDED", c))>> \in Seq(GoodPost)
  <2>1. To("ACTIVE", Notice("BUILDED", c)) \in GoodPost
    BY <1>2, NoticeGood, ToGood DEF MsgFor, Module
  <2> QED BY <2>1
<1>5. \A k \in {"FREED", "FAIL"} : Broadcast(Notice(k, c)) \in Seq(GoodPost)
  BY <1>2, BroadcastGood
<1> HIDE DEF c
<1>6. TypedBus'
  <2>1. CASE OnNewChannel
    BY <1>1, <1>2, <1>4, <2>1, HandleTyped DEF OnNewChannel, c
  <2>2. CASE OnNewChannelFull
    <3>1. <<To("ACTIVE", Notice("BUILDED", c))>> \o Broadcast(Notice("FREED", c))
            \in Seq(GoodPost)
      BY <1>4, <1>5, ConcatProperties
    <3> QED BY <1>1, <1>2, <2>2, <3>1, HandleTyped DEF OnNewChannelFull, c
  <2>3. CASE OnDelChannel
    BY <1>1, <1>2, <1>4, <1>5, <2>3, HandleTyped DEF OnDelChannel, c
  <2>4. CASE OnFreeChannel
    BY <1>1, <1>2, <1>4, <2>4, HandleTyped DEF OnFreeChannel
  <2>5. CASE SendData2Channel
    BY <1>1, <1>2, <1>4, <2>5, HandleTyped DEF SendData2Channel
  <2>6. CASE SendDataFail
    BY <1>1, <1>2, <1>5, <2>6, HandleTyped DEF SendDataFail, c
  <2> QED BY <2>1, <2>2, <2>3, <2>4, <2>5, <2>6 DEF CommuStep, CommuHandler
<1>7. CommuTypeOK' /\ TypedNet'
  <2>1. CASE OnNewChannel
    BY <1>2, <2>1 DEF OnNewChannel, CommuTypeOK, TypedNet, c
  <2>2. CASE OnNewChannelFull
    BY <1>2, <2>2 DEF OnNewChannelFull, CommuTypeOK, TypedNet, c
  <2>3. CASE OnDelChannel
    BY <1>2, <2>3 DEF OnDelChannel, CommuTypeOK, TypedNet, c
  <2>4. CASE OnFreeChannel
    BY <1>2, <2>4 DEF OnFreeChannel, CommuTypeOK, TypedNet, c
  <2>5. CASE SendData2Channel
    <3>1. inbox' \in [Channel -> Seq(CommuMsg)]
      BY <1>2, <2>5 DEF SendData2Channel, TypedNet, c
    <3>2. inbox' \in [Channel -> Seq(Msg)]
      BY <1>2, <2>5 DEF SendData2Channel, CommuTypeOK, CommuMsg, Kinds, OnChannel, c
    <3> QED BY <2>5, <3>1, <3>2 DEF SendData2Channel, CommuTypeOK, TypedNet
  <2>6. CASE SendDataFail
    BY <2>6 DEF SendDataFail, CommuTypeOK, TypedNet, commuVars, netVars
  <2> QED BY <2>1, <2>2, <2>3, <2>4, <2>5, <2>6 DEF CommuStep, CommuHandler
<1> QED BY <1>3, <1>6, <1>7

\* Each step of the select loop keeps the types.
LEMMA SelectStepTyped ==
  ASSUME Typed, NEW c \in Channel, SelectStep(c)
  PROVE  Typed'
<1> USE DEF Typed
<1>1. HostTypeOK' /\ AuthTypeOK' /\ UpdTypeOK' /\ ActTypeOK' /\ KafkaTypeOK'
  BY DEF SelectStep, HostTypeOK, AuthTypeOK, UpdTypeOK, ActTypeOK, KafkaTypeOK,
         hostVars, authVars, updVars, routeVars, actVars, kafkaVars
<1>2. CASE ReadData(c)
  <2> DEFINE f == Head(wire[c])
  <2>1. f \in WireMsg /\ Tail(wire[c]) \in Seq(WireMsg)
    BY <1>2 DEF ReadData, TypedNet
  <2>2. f \in MsgFor(Reader(f)) /\ Reader(f) \in Module
    BY <2>1 DEF Reader, MsgFor, Module, WireMsg, AuthMsg, UpdateMsg, ActiveMsg, Kinds
  <2>3. TypedBus'
    BY <1>2, <2>2, PostMsgTyped DEF ReadData
  <2>4. CommuTypeOK' /\ TypedNet'
    BY <1>2, <2>1 DEF ReadData, CommuTypeOK, TypedNet, commuVars
  <2> QED BY <1>1, <2>3, <2>4
<1>3. CASE OnDel(c)
  <2>1. TypedBus'
    BY <1>3, NoticeGood, PostMsgTyped DEF OnDel, MsgFor, Module
  <2>2. CommuTypeOK' /\ TypedNet'
    BY <1>3 DEF OnDel, CommuTypeOK, TypedNet, netVars
  <2> QED BY <1>1, <2>1, <2>2
<1> QED BY <1>2, <1>3 DEF SelectStep
-----------------------------------------------------------------------------
(* The modules of aodc/. *)

\* What the authentication module posts has the type of its target.
LEMMA AuthPostsGood ==
  ASSUME NEW c \in Channel, NEW r \in Rid
  PROVE  /\ Free(c) \in GoodPost
         /\ \A b \in {"AUTH_SUC", "AUTH_FAI", "AUTH_DIF"} : Send(c, b, r) \in GoodPost
         /\ ToKafka("auth", r) \in GoodPost
         /\ To("UPDATE", Frame("AUTH_SUC", c, "-", r)) \in GoodPost
<1>1. Free(c) \in GoodPost
  BY NoticeGood, ToGood DEF Free, MsgFor, Module
<1>2. \A b \in {"AUTH_SUC", "AUTH_FAI", "AUTH_DIF"} : Frame("SEND", c, b, r) \in CommuMsg
  BY DEF Frame, CommuMsg, Kinds, OnChannel, Msg, Kind, Body, ActvFrame
<1>3. \A b \in {"AUTH_SUC", "AUTH_FAI", "AUTH_DIF"} : Send(c, b, r) \in GoodPost
  BY <1>2, ToGood DEF Send, MsgFor, Module
<1>4. Json("SND2KAFKA", "auth", r) \in KafkaMsg
  BY DEF Json, KafkaMsg, Msg, Kind, Body
<1>5. ToKafka("auth", r) \in GoodPost
  BY <1>4, ToGood DEF ToKafka, MsgFor, Module
<1>6. Frame("AUTH_SUC", c, "-", r) \in UpdateMsg
  BY DEF Frame, UpdateMsg, Kinds, OnChannel, Msg, Kind, Body
<1>7. To("UPDATE", Frame("AUTH_SUC", c, "-", r)) \in GoodPost
  BY <1>6, ToGood DEF MsgFor, Module
<1> QED BY <1>1, <1>3, <1>5, <1>7

\* The message at the head of the queue of the authentication module.
LEMMA AuthCurrent ==
  ASSUME TypedBus, queue["AUTH"] # <<>>
  PROVE  /\ Current("AUTH") \in AuthMsg
         /\ Current("AUTH").kind \in {"RECV", "FAIL", "FREED"}
              => Current("AUTH").ch \in Channel
         /\ Current("AUTH").kind = "RECV"
              => Current("AUTH").body \in {"AUTH", "AUTH_BADCODE"}
         /\ Current("AUTH").kind = "RECV" /\ Current("AUTH").body = "AUTH"
              => Current("AUTH").key \in Rid /\ Current("AUTH").ip \in Ip
         /\ Current("AUTH").kind = "RCVKAFKA" => Current("AUTH").key \in Rid
         /\ "AUTH" \in Module
<1>1. "AUTH" \in Module
  BY DEF Module
<1>2. Current("AUTH") \in AuthMsg
  BY <1>1, CurrentTyped DEF MsgFor
<1> QED BY <1>1, <1>2 DEF AuthMsg, WireMsg, Kinds, OnChannel

\* Each handler of the authentication module keeps the types.
LEMMA AuthStepTyped ==
  ASSUME Typed, AuthStep
  PROVE  Typed'
<1> USE DEF Typed
<1> DEFINE m == Current("AUTH")
<1>1. queue["AUTH"] # <<>>
  BY DEF AuthStep, AuthHandler, RejectCode, RejectOther, DropBoth, BindChannel,
         OnAuthAck, AuthOnSendChannelDataFail, AuthOnChannelFreed, AuthRequest,
         Ready
<1>2. CommuTypeOK' /\ TypedNet' /\ HostTypeOK' /\ UpdTypeOK' /\ ActTypeOK' /\ KafkaTypeOK'
  BY DEF AuthStep, HostTypeOK, CommuTypeOK, TypedNet, UpdTypeOK, ActTypeOK,
         KafkaTypeOK, hostVars, commuVars, netVars, updVars, routeVars, actVars,
         kafkaVars
<1>3. <<>> \in Seq(GoodPost) /\ "AUTH" \in Module
  BY DEF Module
<1>4. CASE RejectCode
  <2>1. <<Free(m.ch)>> \in Seq(GoodPost)
    BY <1>1, <1>4, AuthCurrent, NoticeGood, ToGood
       DEF RejectCode, AuthRequest, Ready, Free, MsgFor, Module
  <2>2. TypedBus'
    BY <1>1, <1>3, <1>4, <2>1, HandleTyped DEF RejectCode
  <2> QED BY <1>2, <1>4, <2>2 DEF RejectCode, AuthTypeOK, authVars
<1>5. CASE RejectOther
  <2>1. m.ch \in Channel /\ m.key \in Rid
    BY <1>1, <1>5, AuthCurrent DEF RejectOther, AuthRequest, Ready
  <2>2. <<Send(m.ch, "AUTH_DIF", m.key), Free(m.ch)>> \in Seq(GoodPost)
    BY <2>1, AuthPostsGood
  <2>3. TypedBus'
    BY <1>1, <1>3, <1>5, <2>2, HandleTyped DEF RejectOther
  <2> QED BY <1>2, <1>5, <2>3 DEF RejectOther, AuthTypeOK, authVars
<1>6. CASE DropBoth
  <2>1. m.ch \in Channel /\ m.key \in Rid
    BY <1>1, <1>6, AuthCurrent DEF DropBoth, AuthRequest, Ready
  <2>2. rcCh[m.key] \in Channel
    BY <1>6, <2>1 DEF DropBoth, AuthTypeOK
  <2>3. <<Free(rcCh[m.key]), Free(m.ch)>> \in Seq(GoodPost)
    BY <2>1, <2>2, AuthPostsGood
  <2>4. TypedBus'
    BY <1>1, <1>3, <1>6, <2>3, HandleTyped DEF DropBoth
  <2> QED BY <1>2, <1>6, <2>4 DEF DropBoth, AuthTypeOK, authVars
<1>7. CASE BindChannel
  <2>1. m.ch \in Channel /\ m.key \in Rid /\ m.ip \in Ip
    BY <1>1, <1>7, AuthCurrent DEF BindChannel, AuthRequest, Ready
  <2>2. <<ToKafka("auth", m.key)>> \in Seq(GoodPost)
    BY <2>1, AuthPostsGood
  <2>3. TypedBus'
    BY <1>1, <1>3, <1>7, <2>2, HandleTyped DEF BindChannel
  <2>4. AuthTypeOK'
    BY <1>7, <2>1 DEF BindChannel, AuthTypeOK
  <2> QED BY <1>2, <2>3, <2>4
<1>8. CASE OnAuthAck
  <2>1. m.key \in Rid
    BY <1>1, <1>8, AuthCurrent DEF OnAuthAck, Ready
  <2> DEFINE c == rcCh[m.key]
             posts == IF c = None THEN <<>>
                      ELSE IF m.body = "auth_ack"
                      THEN <<To("UPDATE", Frame("AUTH_SUC", c, "-", m.key)),
                             Send(c, "AUTH_SUC", m.key)>>
                      ELSE <<Send(c, "AUTH_FAI", m.key)>>
  <2>2. c = None \/ c \in Channel
    BY <2>1 DEF AuthTypeOK
  <2>3. posts \in Seq(GoodPost)
    <3>1. CASE c = None
      BY <1>3, <3>1
    <3>2. CASE c \in Channel
      <4>1. /\ To("UPDATE", Frame("AUTH_SUC", c, "-", m.key)) \in GoodPost
            /\ Send(c, "AUTH_SUC", m.key) \in GoodPost
            /\ Send(c, "AUTH_FAI", m.key) \in GoodPost
        BY <2>1, <3>2, AuthPostsGood
      <4> HIDE DEF c, m
      <4> QED BY <1>3, <4>1
    <3> QED BY <2>2, <3>1, <3>2
  <2>4. Handle("AUTH", posts)
    BY <1>8 DEF OnAuthAck
  <2> HIDE DEF posts
  <2>5. TypedBus'
    BY <1>1, <1>3, <2>3, <2>4, HandleTyped
  <2> QED BY <1>2, <1>8, <2>5 DEF OnAuthAck, AuthTypeOK, authVars
<1>9. CASE AuthOnSendChannelDataFail \/ AuthOnChannelFreed
  <2>1. Handle("AUTH", <<>>) /\ AuthForget(m.ch) /\ m.ch \in Channel
    BY <1>1, <1>9, AuthCurrent
       DEF AuthOnSendChannelDataFail, AuthOnChannelFreed, Ready
  <2>2. TypedBus'
    BY <1>1, <1>3, <2>1, HandleTyped
  <2>3. AuthTypeOK'
    BY <2>1 DEF AuthForget, AuthTypeOK
  <2> QED BY <1>2, <2>2, <2>3
<1> QED BY <1>4, <1>5, <1>6, <1>7, <1>8, <1>9 DEF AuthStep, AuthHandler

\* The message at the head of the queue of the update module.
LEMMA UpdateCurrent ==
  ASSUME TypedBus, queue["UPDATE"] # <<>>
  PROVE  /\ Current("UPDATE").kind \in {"AUTH_SUC", "RECV", "FAIL", "FREED"}
              => Current("UPDATE").ch \in Channel
         /\ Current("UPDATE").kind \in {"AUTH_SUC", "RCVKAFKA"}
              => Current("UPDATE").key \in Rid
         /\ "UPDATE" \in Module
<1>1. "UPDATE" \in Module
  BY DEF Module
<1>2. Current("UPDATE") \in UpdateMsg
  BY <1>1, CurrentTyped DEF MsgFor
<1> QED BY <1>1, <1>2 DEF UpdateMsg, Kinds, OnChannel

\* What the update module posts has the type of its target.
LEMMA UpdatePostsGood ==
  ASSUME NEW c \in Channel, NEW r \in Rid
  PROVE  /\ To("COMMU", Frame("SEND", c, "UMI", r)) \in GoodPost
         /\ Frame("SEND", c, "KEEPALIVE", None) \in CommuMsg
         /\ \A b \in {"check_update", "update_result"} :
              To("KAFKA", Json("SND2KAFKA", b, r)) \in GoodPost
<1>1. Frame("SEND", c, "UMI", r) \in CommuMsg
  BY DEF Frame, CommuMsg, Kinds, OnChannel, Msg, Kind, Body, ActvFrame
<1>2. Frame("SEND", c, "KEEPALIVE", None) \in CommuMsg
  BY DEF Frame, CommuMsg, Kinds, OnChannel, Msg, Kind, Body, ActvFrame
<1>3. \A b \in {"check_update", "update_result"} : Json("SND2KAFKA", b, r) \in KafkaMsg
  BY DEF Json, KafkaMsg, Msg, Kind, Body
<1> QED BY <1>1, <1>2, <1>3, ToGood DEF MsgFor, Module

\* A probe to a channel keeps the types.
LEMMA KeepAliveTyped ==
  ASSUME Typed, NEW c \in Channel, SendKeepAlive(c)
  PROVE  TypedBus' /\ UpdTypeOK'
<1>1. Frame("SEND", c, "KEEPALIVE", None) \in MsgFor("COMMU") /\ "COMMU" \in Module
  BY DEF Frame, CommuMsg, Kinds, OnChannel, Msg, Kind, Body, ActvFrame, MsgFor, Module
<1>2. TypedBus'
  BY <1>1, PostMsgTyped DEF SendKeepAlive, Typed
<1>3. UpdTypeOK'
  BY DEF SendKeepAlive, Typed, UpdTypeOK, routeVars
<1> QED BY <1>2, <1>3

\* Each handler of the update module keeps the types.
LEMMA UpdateStepTyped ==
  ASSUME Typed, UpdateStep
  PROVE  Typed'
<1> USE DEF Typed
<1> DEFINE m == Current("UPDATE")
<1>1. CommuTypeOK' /\ TypedNet' /\ HostTypeOK' /\ AuthTypeOK' /\ ActTypeOK' /\ KafkaTypeOK'
  BY DEF UpdateStep, HostTypeOK, CommuTypeOK, TypedNet, AuthTypeOK, ActTypeOK,
         KafkaTypeOK, hostVars, commuVars, netVars, authVars, actVars, kafkaVars
<1>2. <<>> \in Seq(GoodPost) /\ "UPDATE" \in Module
  BY DEF Module
<1>3. CASE OnAuthSuc
  <2>1. queue["UPDATE"] # <<>> /\ m.ch \in Channel /\ m.key \in Rid
    BY <1>3, UpdateCurrent DEF OnAuthSuc, UpdReady, Ready
  <2>2. TypedBus'
    BY <1>2, <1>3, <2>1, HandleTyped DEF OnAuthSuc
  <2>3. UpdTypeOK'
    BY <1>3, <2>1 DEF OnAuthSuc, UpdTypeOK
  <2> QED BY <1>1, <2>2, <2>3
<1>4. CASE UpdOnSendChannelDataFail \/ UpdOnChannelFreed
  <2>1. /\ queue["UPDATE"] # <<>>
        /\ Handle("UPDATE", <<>>)
        /\ UpdForget(m.ch)
        /\ m.ch \in Channel
        /\ UNCHANGED <<keepalive, rounds>>
    BY <1>4, UpdateCurrent
       DEF UpdOnSendChannelDataFail, UpdOnChannelFreed, UpdReady, Ready
  <2>2. TypedBus'
    BY <1>2, <2>1, HandleTyped
  <2>3. UpdTypeOK'
    BY <2>1 DEF UpdForget, UpdTypeOK
  <2> QED BY <1>1, <2>2, <2>3
<1>5. CASE OnUpdateFromKafka
  <2>1. queue["UPDATE"] # <<>> /\ m.key \in Rid
    BY <1>5, UpdateCurrent DEF OnUpdateFromKafka, UpdReady, Ready
  <2> DEFINE posts == IF ruo[m.key] = None THEN <<>>
                      ELSE <<To("COMMU", Frame("SEND", ruo[m.key], "UMI", m.key))>>
  <2>2. posts \in Seq(GoodPost)
    <3>1. CASE ruo[m.key] = None
      BY <1>2, <3>1
    <3>2. CASE ruo[m.key] \in Channel
      <4>1. To("COMMU", Frame("SEND", ruo[m.key], "UMI", m.key)) \in GoodPost
        BY <2>1, <3>2, UpdatePostsGood
      <4> QED BY <1>2, <4>1
    <3> QED BY <2>1, <3>1, <3>2 DEF UpdTypeOK
  <2>3. Handle("UPDATE", posts)
    BY <1>5 DEF OnUpdateFromKafka
  <2> HIDE DEF posts
  <2>4. TypedBus'
    BY <1>2, <2>1, <2>2, <2>3, HandleTyped
  <2>5. UpdTypeOK'
    BY <1>5 DEF OnUpdateFromKafka, UpdTypeOK, updVars, routeVars
  <2> QED BY <1>1, <2>4, <2>5
<1>6. CASE OnRecvAodsData
  <2>1. queue["UPDATE"] # <<>> /\ m.ch \in Channel
    BY <1>6, UpdateCurrent DEF OnRecvAodsData, UpdReady, Ready
  <2> DEFINE b == IF m.body = "UMI" THEN "check_update" ELSE "update_result"
             posts == IF cuo[m.ch] = None THEN <<>>
                      ELSE <<To("KAFKA", Json("SND2KAFKA", b, cuo[m.ch]))>>
  <2>2. posts \in Seq(GoodPost)
    <3>1. CASE cuo[m.ch] = None
      BY <1>2, <3>1
    <3>2. CASE cuo[m.ch] \in Rid
      <4>1. To("KAFKA", Json("SND2KAFKA", b, cuo[m.ch])) \in GoodPost
        BY <2>1, <3>2, UpdatePostsGood
      <4> QED BY <1>2, <4>1
    <3> QED BY <2>1, <3>1, <3>2 DEF UpdTypeOK
  <2>3. Handle("UPDATE", posts)
    BY <1>6 DEF OnRecvAodsData
  <2> HIDE DEF posts
  <2>4. TypedBus'
    BY <1>2, <2>1, <2>2, <2>3, HandleTyped
  <2>5. UpdTypeOK'
    BY <1>6 DEF OnRecvAodsData, UpdTypeOK, updVars, routeVars
  <2> QED BY <1>1, <2>4, <2>5
<1>7. CASE \E c \in Channel : SendKeepAlive(c)
  BY <1>1, <1>7, KeepAliveTyped
<1> QED BY <1>3, <1>4, <1>5, <1>6, <1>7 DEF UpdateStep, UpdateHandler

\* The message at the head of the queue of the activation module.
LEMMA ActiveCurrent ==
  ASSUME TypedBus, queue["ACTIVE"] # <<>>
  PROVE  /\ Current("ACTIVE").kind \in {"BUILDED", "RECV", "FAIL", "FREED"}
              => Current("ACTIVE").ch \in Channel
         /\ Current("ACTIVE").kind = "RCVKAFKA" => Current("ACTIVE").key \in Uuid
         /\ "ACTIVE" \in Module
<1>1. "ACTIVE" \in Module
  BY DEF Module
<1>2. Current("ACTIVE") \in ActiveMsg
  BY <1>1, CurrentTyped DEF MsgFor
<1> QED BY <1>1, <1>2 DEF ActiveMsg, Kinds, OnChannel

\* What the activation module posts has the type of its target.
LEMMA ActivePostsGood ==
  ASSUME NEW c \in Channel
  PROVE  /\ To("COMMU", Notice("FREE", c)) \in GoodPost
         /\ To("COMMU", Frame("SEND", c, "ACTV_ERR", None)) \in GoodPost
         /\ \A u \in Uuid :
              /\ To("COMMU", Frame("SEND", c, "ACTV_SUC", u)) \in GoodPost
              /\ \A b \in {"active", "active_suc"} :
                   To("KAFKA", Json("SND2KAFKA", b, u)) \in GoodPost
<1>1. Notice("FREE", c) \in CommuMsg
  BY NoticeGood
<1>2. Frame("SEND", c, "ACTV_ERR", None) \in CommuMsg
  BY DEF Frame, CommuMsg, Kinds, OnChannel, Msg, Kind, Body, ActvFrame
<1>3. ASSUME NEW u \in Uuid
      PROVE  /\ Frame("SEND", c, "ACTV_SUC", u) \in CommuMsg
             /\ \A b \in {"active", "active_suc"} : Json("SND2KAFKA", b, u) \in KafkaMsg
  BY DEF Frame, Json, CommuMsg, KafkaMsg, Kinds, OnChannel, Msg, Kind, Body, ActvFrame
<1> QED BY <1>1, <1>2, <1>3, ToGood DEF MsgFor, Module

\* The answer to a request is made of posts of the right types.
LEMMA ResultGood ==
  ASSUME NEW c \in Channel, NEW m, m.key \in Uuid
  PROVE  Result(m, c) \in Seq(GoodPost)
<1>1. <<To("COMMU", Notice("FREE", c))>> \in Seq(GoodPost)
  BY ActivePostsGood
<1>2. <<To("KAFKA", Json("SND2KAFKA", "active_suc", m.key)),
        To("COMMU", Frame("SEND", c, "ACTV_SUC", m.key))>> \in Seq(GoodPost)
  BY ActivePostsGood
<1>3. <<To("COMMU", Frame("SEND", c, "ACTV_ERR", None))>> \in Seq(GoodPost)
  BY ActivePostsGood
<1> QED BY <1>1, <1>2, <1>3, ConcatProperties DEF Result

\* Each handler of the activation module keeps the types.
LEMMA ActiveStepTyped ==
  ASSUME Typed, ActiveStep
  PROVE  Typed'
<1> USE DEF Typed
<1> DEFINE m == Current("ACTIVE")
           c == m.ch
<1>1. CommuTypeOK' /\ TypedNet' /\ HostTypeOK' /\ AuthTypeOK' /\ UpdTypeOK' /\ KafkaTypeOK'
  BY DEF ActiveStep, HostTypeOK, CommuTypeOK, TypedNet, AuthTypeOK, UpdTypeOK,
         KafkaTypeOK, hostVars, commuVars, netVars, authVars, updVars, routeVars,
         kafkaVars
<1>2. <<>> \in Seq(GoodPost) /\ "ACTIVE" \in Module
  BY DEF Module
<1>3. CASE OnChannelBuilded
  <2>1. queue["ACTIVE"] # <<>> /\ c \in Channel
    BY <1>3, ActiveCurrent DEF OnChannelBuilded, Ready
  <2>2. TypedBus'
    BY <1>2, <1>3, <2>1, HandleTyped DEF OnChannelBuilded
  <2>3. ActTypeOK'
    BY <1>3, <2>1 DEF OnChannelBuilded, ActTypeOK
  <2> QED BY <1>1, <2>2, <2>3
<1>4. CASE OnActiveRequest
  <2>1. queue["ACTIVE"] # <<>> /\ c \in Channel
    BY <1>4, ActiveCurrent DEF OnActiveRequest, Ready
  <2>2. CASE c \in ca
    <3>1. PICK u \in Uuid \ issued :
            /\ uai' = [uai EXCEPT ![u] = c]
            /\ cu' = [cu EXCEPT ![c] = u]
            /\ issued' = issued \cup {u}
            /\ Handle("ACTIVE", <<To("KAFKA", Json("SND2KAFKA", "active", u))>>)
            /\ UNCHANGED ca
      BY <1>4, <2>2 DEF OnActiveRequest
    <3>2. <<To("KAFKA", Json("SND2KAFKA", "active", u))>> \in Seq(GoodPost)
      BY <2>1, <3>1, ActivePostsGood
    <3>3. TypedBus'
      BY <1>2, <2>1, <3>1, <3>2, HandleTyped
    <3>4. ActTypeOK'
      BY <2>1, <3>1 DEF ActTypeOK
    <3> QED BY <1>1, <3>3, <3>4
  <2>3. CASE c \notin ca
    <3>1. <<To("COMMU", Frame("SEND", c, "ACTV_ERR", None))>> \in Seq(GoodPost)
      BY <2>1, ActivePostsGood
    <3>2. TypedBus'
      BY <1>2, <1>4, <2>1, <2>3, <3>1, HandleTyped DEF OnActiveRequest
    <3>3. ActTypeOK'
      BY <1>4, <2>3 DEF OnActiveRequest, ActTypeOK
    <3> QED BY <1>1, <3>2, <3>3
  <2> QED BY <2>2, <2>3
<1>5. CASE OnActiveAck
  <2>1. queue["ACTIVE"] # <<>> /\ m.key \in Uuid
    BY <1>5, ActiveCurrent DEF OnActiveAck, Ready
  <2>2. uai[m.key] \in Channel
    BY <1>5, <2>1 DEF OnActiveAck, ActTypeOK
  <2>3. Result(m, uai[m.key]) \in Seq(GoodPost)
    BY <2>1, <2>2, ResultGood
  <2>4. TypedBus'
    BY <1>2, <1>5, <2>1, <2>3, HandleTyped DEF OnActiveAck
  <2>5. ActTypeOK'
    BY <1>5, <2>1 DEF OnActiveAck, ActTypeOK
  <2> QED BY <1>1, <2>4, <2>5
<1>6. CASE OnActiveAckStale
  <2>1. TypedBus'
    BY <1>2, <1>6, HandleTyped DEF OnActiveAckStale, Ready
  <2> QED BY <1>1, <1>6, <2>1 DEF OnActiveAckStale, ActTypeOK, actVars
<1>7. CASE ActOnSendChannelDataFail
  <2>1. queue["ACTIVE"] # <<>> /\ c \in Channel
    BY <1>7, ActiveCurrent DEF ActOnSendChannelDataFail, Ready
  <2>2. <<To("COMMU", Notice("FREE", c))>> \in Seq(GoodPost)
    BY <2>1, ActivePostsGood
  <2>3. TypedBus'
    BY <1>2, <1>7, <2>1, <2>2, HandleTyped DEF ActOnSendChannelDataFail
  <2> QED BY <1>1, <1>7, <2>3 DEF ActOnSendChannelDataFail, ActTypeOK, actVars
<1>8. CASE ActOnChannelFreed
  <2>1. queue["ACTIVE"] # <<>> /\ c \in Channel
    BY <1>8, ActiveCurrent DEF ActOnChannelFreed, Ready
  <2>2. TypedBus'
    BY <1>2, <1>8, <2>1, HandleTyped DEF ActOnChannelFreed
  <2>3. ActTypeOK'
    BY <1>8, <2>1 DEF ActOnChannelFreed, ActTypeOK
  <2> QED BY <1>1, <2>2, <2>3
<1> QED BY <1>3, <1>4, <1>5, <1>6, <1>7, <1>8 DEF ActiveStep, ActiveHandler

\* The timer of the update module and a post of any module keep the types.
LEMMA BusStepTyped ==
  ASSUME Typed, TimerStep \/ \E m \in Module : PostStep(m)
  PROVE  Typed'
<1> USE DEF Typed
<1>1. CASE TimerStep
  <2>1. TypedBus' /\ UpdTypeOK'
    BY <1>1, UpdateAssumption
       DEF TimerStep, OnTimer, TypedBus, UpdTypeOK, routeVars, busVars
  <2> QED BY <1>1, <2>1
          DEF TimerStep, HostTypeOK, CommuTypeOK, TypedNet, AuthTypeOK, ActTypeOK,
              KafkaTypeOK, hostVars, commuVars, netVars, authVars, actVars, kafkaVars
<1>2. ASSUME NEW m \in Module, PostStep(m)
      PROVE  Typed'
  <2>1. TypedBus'
    BY <1>2, DispatchTyped DEF PostStep
  <2> QED BY <1>2, <2>1
          DEF PostStep, HostTypeOK, CommuTypeOK, TypedNet, AuthTypeOK, UpdTypeOK,
              ActTypeOK, KafkaTypeOK, hostVars, commuVars, netVars, authVars,
              updVars, routeVars, actVars, kafkaVars
<1> QED BY <1>1, <1>2
-----------------------------------------------------------------------------
(* The hosts and the controller. *)

\* What a host sends first can be read by aodc.
LEMMA FirstFrameGood ==
  ASSUME NEW h \in Host, NEW c \in Channel, NEW ip \in IpOf[h]
  PROVE  FirstFrame(h, c, ip) \in WireMsg
<1>1. ip \in Ip
  BY HostsAssumption
<1>2. h \notin Install => RidOf[h] \in Rid
  BY HostsAssumption DEF Host
<1> QED BY <1>1, <1>2 DEF FirstFrame, WireMsg, Kinds, OnChannel, Msg, Kind, Body

\* The connection of a host changes the state of the network and of the hosts.
LEMMA ConnectTyped ==
  ASSUME Typed, NEW h \in Host, Connect(h)
  PROVE  TypedBus' /\ CommuTypeOK' /\ TypedNet' /\ HostTypeOK'
<1> USE DEF Typed
<1>1. PICK ip \in IpOf[h] : Accept(FirstFrame(h, ullIndex, ip))
  BY DEF Connect
<1>2. ullIndex \in Channel /\ ullIndex + 1 \in 0 .. MaxChannel
  BY <1>1, DispatcherAssumption DEF Accept, CommuTypeOK, Channel
<1> DEFINE f == FirstFrame(h, ullIndex, ip)
<1>3. f \in WireMsg /\ f \in Msg
  BY <1>2, FirstFrameGood DEF WireMsg, Kinds, OnChannel
<1>4. TypedBus'
  BY <1>1, <1>2, NoticeGood, PostMsgTyped DEF Accept, MsgFor, Module
<1>5. <<f>> \in Seq(WireMsg) /\ <<f>> \in Seq(Msg)
  BY <1>3
<1>6. wire' = [wire EXCEPT ![ullIndex] = <<f>>]
  BY <1>1 DEF Accept
<1> HIDE DEF f
<1>7. CommuTypeOK' /\ TypedNet'
  BY <1>1, <1>2, <1>5, <1>6 DEF Accept, CommuTypeOK, TypedNet
<1>8. HostTypeOK'
  BY <1>2 DEF Connect, HostTypeOK
<1> QED BY <1>4, <1>7, <1>8

\* The end of a connection at the host.
LEMMA LeaveTyped ==
  ASSUME Typed, NEW h \in Host, NEW how \in {"fin", "gone"},
         NEW state \in {"idle", "stopped"}, Leave(h, how, state)
  PROVE  /\ CommuTypeOK' /\ TypedNet'
         /\ hst' \in [Host -> {"idle", "conn", "authed", "stopped"}]
         /\ cur' \in [Host -> Channel \cup {None}]
         /\ loading' \in SUBSET Host
<1> USE DEF Typed
<1>1. cur[h] \in Channel
  BY DEF Leave, HostTypeOK
<1>2. inbox' \in [Channel -> Seq(CommuMsg)] /\ inbox' \in [Channel -> Seq(Msg)]
  BY <1>1 DEF Leave, CommuTypeOK, TypedNet
<1>3. CommuTypeOK' /\ TypedNet'
  BY <1>1, <1>2 DEF Leave, CommuTypeOK, TypedNet, commuVars
<1>4. /\ hst' \in [Host -> {"idle", "conn", "authed", "stopped"}]
      /\ cur' \in [Host -> Channel \cup {None}]
      /\ loading' \in SUBSET Host
  BY DEF Leave, HostTypeOK
<1> QED BY <1>3, <1>4

\* A report of a host can be read by aodc.
LEMMA ReportGood ==
  ASSUME NEW c \in Channel, NEW b \in {"UMI", "UDR"}
  PROVE  Frame("RECV", c, b, None) \in WireMsg /\ Frame("RECV", c, b, None) \in Msg
BY DEF Frame, WireMsg, Kinds, OnChannel, Msg, Kind, Body

\* A host takes a frame and perhaps sends one.
LEMMA ReplyTyped ==
  ASSUME Typed, NEW h \in Host, cur[h] # None, inbox[cur[h]] # <<>>,
         NEW b \in {"-", "UMI"}, Reply(h, b)
  PROVE  TypedBus' /\ CommuTypeOK' /\ TypedNet'
<1> USE DEF Typed
<1>1. cur[h] \in Channel
  BY DEF HostTypeOK
<1> DEFINE c == cur[h]
           f == Frame("RECV", c, b, None)
<1>2. inbox' \in [Channel -> Seq(CommuMsg)] /\ inbox' \in [Channel -> Seq(Msg)]
  <2>1. Tail(inbox[c]) \in Seq(CommuMsg) /\ Tail(inbox[c]) \in Seq(Msg)
    BY <1>1 DEF TypedNet, CommuTypeOK
  <2> QED BY <1>1, <2>1 DEF Reply, TypedNet, CommuTypeOK
<1>3. wire' \in [Channel -> Seq(WireMsg)] /\ wire' \in [Channel -> Seq(Msg)]
  <2>1. CASE b = "-"
    BY <1>1, <2>1 DEF Reply, TypedNet, CommuTypeOK
  <2>2. CASE b = "UMI"
    <3>1. f \in WireMsg /\ f \in Msg
      BY <1>1, <2>2, ReportGood
    <3> HIDE DEF f
    <3>2. Append(wire[c], f) \in Seq(WireMsg) /\ Append(wire[c], f) \in Seq(Msg)
      BY <1>1, <3>1 DEF TypedNet, CommuTypeOK
    <3>3. wire' = [wire EXCEPT ![c] = Append(wire[c], f)]
      BY <2>2 DEF Reply, f
    <3> QED BY <1>1, <3>2, <3>3 DEF TypedNet, CommuTypeOK
  <2> QED BY <2>1, <2>2
<1>4. TypedBus'
  BY DEF Reply, TypedBus, busVars
<1> QED BY <1>2, <1>3, <1>4 DEF Reply, TypedNet, CommuTypeOK, commuVars

\* The result of a download goes out on the connection of the moment.
LEMMA ReportResultTyped ==
  ASSUME Typed, NEW h \in Host, ReportResult(h)
  PROVE  TypedBus' /\ CommuTypeOK' /\ TypedNet' /\ HostTypeOK'
<1> USE DEF Typed
<1>1. wire' \in [Channel -> Seq(WireMsg)] /\ wire' \in [Channel -> Seq(Msg)]
  <2>1. CASE cur[h] = None
    BY <2>1 DEF ReportResult, TypedNet, CommuTypeOK
  <2>2. CASE cur[h] # None
    <3>1. cur[h] \in Channel
      BY <2>2 DEF HostTypeOK
    <3> DEFINE f == Frame("RECV", cur[h], "UDR", None)
    <3>2. f \in WireMsg /\ f \in Msg
      BY <3>1, ReportGood
    <3>3. wire' = [wire EXCEPT ![cur[h]] = Append(wire[cur[h]], f)]
      BY <2>2 DEF ReportResult
    <3> HIDE DEF f
    <3>4. /\ Append(wire[cur[h]], f) \in Seq(WireMsg)
          /\ Append(wire[cur[h]], f) \in Seq(Msg)
      BY <3>1, <3>2 DEF TypedNet, CommuTypeOK
    <3> QED BY <3>1, <3>3, <3>4 DEF TypedNet, CommuTypeOK
  <2> QED BY <2>1, <2>2
<1>2. CommuTypeOK' /\ TypedNet'
  BY <1>1 DEF ReportResult, CommuTypeOK, TypedNet, commuVars
<1>3. TypedBus' /\ HostTypeOK'
  BY DEF ReportResult, TypedBus, busVars, HostTypeOK
<1> QED BY <1>2, <1>3

\* What a host does with a frame keeps the types.
LEMMA HostReceiveTyped ==
  ASSUME Typed, NEW h \in Host, HostReceive(h)
  PROVE  TypedBus' /\ CommuTypeOK' /\ TypedNet' /\ HostTypeOK'
<1> USE DEF Typed
<1>1. CASE OnAuthSucceeded(h)
  <2>1. PICK b \in {"-", "UMI"} : Reply(h, b)
    BY <1>1 DEF OnAuthSucceeded
  <2>2. TypedBus' /\ CommuTypeOK' /\ TypedNet'
    BY <1>1, <2>1, ReplyTyped DEF OnAuthSucceeded, Answered
  <2>3. HostTypeOK'
    BY <1>1 DEF OnAuthSucceeded, Reply, HostTypeOK
  <2> QED BY <2>2, <2>3
<1>2. CASE OnUpdate(h) \/ OnKeepAlive(h)
  <2>1. Reply(h, "-") /\ cur[h] # None /\ inbox[cur[h]] # <<>>
    BY <1>2 DEF OnUpdate, OnKeepAlive, Answered
  <2>2. TypedBus' /\ CommuTypeOK' /\ TypedNet'
    BY <2>1, ReplyTyped
  <2>3. HostTypeOK'
    BY <1>2 DEF OnUpdate, OnKeepAlive, Reply, HostTypeOK
  <2> QED BY <2>2, <2>3
<1>3. CASE ReportResult(h)
  BY <1>3, ReportResultTyped
<1>4. CASE OnAuthRefused(h)
  <2>1. TypedBus' /\ Leave(h, "fin", "stopped") /\ act' = act
    BY <1>4 DEF OnAuthRefused, TypedBus, busVars
  <2> QED BY <2>1, LeaveTyped DEF HostTypeOK
<1>5. CASE OnActivated(h)
  <2>1. TypedBus' /\ Leave(h, "fin", "stopped") /\ cur[h] \in Channel
    BY <1>5 DEF OnActivated, Answered, TypedBus, busVars, HostTypeOK
  <2>2. Head(inbox[cur[h]]) \in CommuMsg
    BY <1>5, <2>1 DEF OnActivated, Answered, TypedNet
  <2>3. Head(inbox[cur[h]]).key \in Uuid \cup {None}
    BY <1>5, <2>2 DEF OnActivated, Answered, CommuMsg, ActvFrame
  <2>4. act' \in [Install -> Uuid \cup {None}]
    BY <1>5, <2>3 DEF OnActivated, HostTypeOK
  <2> QED BY <2>1, <2>4, LeaveTyped DEF HostTypeOK
<1> QED BY <1>1, <1>2, <1>3, <1>4, <1>5 DEF HostReceive

\* Each step of a host, and the end of a half-open connection, keeps the types.
LEMMA HostStepTyped ==
  ASSUME Typed, (\E h \in Host : HostStep(h)) \/ (\E c \in Channel : GiveUpStep(c))
  PROVE  Typed'
<1> USE DEF Typed
<1>1. AuthTypeOK' /\ UpdTypeOK' /\ ActTypeOK' /\ KafkaTypeOK'
  BY DEF HostStep, GiveUpStep, AuthTypeOK, UpdTypeOK, ActTypeOK, KafkaTypeOK,
         authVars, updVars, routeVars, actVars, kafkaVars
<1>2. ASSUME NEW h \in Host, HostStep(h)
      PROVE  TypedBus' /\ CommuTypeOK' /\ TypedNet' /\ HostTypeOK'
  <2>1. CASE Disconnect(h)
    <3>1. PICK how \in {"fin", "gone"} : Leave(h, how, "idle")
      BY <2>1, HostsAssumption DEF Disconnect
    <3>2. TypedBus' /\ act' = act
      BY <2>1 DEF Disconnect, TypedBus, busVars
    <3> QED BY <3>1, <3>2, LeaveTyped DEF HostTypeOK
  <2>2. CASE SeeClosed(h)
    <3>1. Leave(h, "fin", "idle") /\ TypedBus' /\ act' = act
      BY <2>2 DEF SeeClosed, TypedBus, busVars
    <3> QED BY <3>1, LeaveTyped DEF HostTypeOK
  <2> QED BY <1>2, <2>1, <2>2, ConnectTyped, HostReceiveTyped DEF HostStep
<1>3. ASSUME NEW c \in Channel, GiveUpStep(c)
      PROVE  TypedBus' /\ CommuTypeOK' /\ TypedNet' /\ HostTypeOK'
  BY <1>3 DEF GiveUpStep, GiveUp, TypedBus, CommuTypeOK, TypedNet, HostTypeOK,
              busVars, commuVars, hostVars
<1> QED BY <1>1, <1>2, <1>3

\* An answer of the controller has the type of its target.
LEMMA AnswerTyped ==
  ASSUME TypedBus, NEW m \in {"AUTH", "UPDATE", "ACTIVE"}, NEW body \in Body,
         queue["KAFKA"] # <<>>,
         m \in {"AUTH", "UPDATE"} => Current("KAFKA").key \in Rid,
         m = "ACTIVE" => Current("KAFKA").key \in Uuid,
         NEW rest \in {queue["KAFKA"], Tail(queue["KAFKA"])},
         Answer(m, body, rest)
  PROVE  TypedBus'
<1> DEFINE j == Json("RCVKAFKA", body, Current("KAFKA").key)
<1>1. m \in Module /\ "KAFKA" \in Module /\ m # "KAFKA"
  BY DEF Module
<1>2. j \in Msg /\ j.kind = "RCVKAFKA" /\ j.key = Current("KAFKA").key
  BY DEF Json, Msg, Kind
<1>3. j \in MsgFor(m)
  <2> HIDE DEF j
  <2>1. CASE m = "AUTH"
    BY <1>2, <2>1 DEF MsgFor, AuthMsg
  <2>2. CASE m = "UPDATE"
    BY <1>2, <2>2 DEF MsgFor, UpdateMsg
  <2>3. CASE m = "ACTIVE"
    BY <1>2, <2>3 DEF MsgFor, ActiveMsg
  <2> QED BY <2>1, <2>2, <2>3
<1>4. rest \in Seq(Msg) /\ rest \in Seq(MsgFor("KAFKA"))
  BY <1>1, CurrentTyped DEF TypedBus
<1>5. queue' = [queue EXCEPT !["KAFKA"] = rest, ![m] = Append(queue[m], j)]
  BY <1>1 DEF Answer
<1> HIDE DEF j
<1>6. Append(queue[m], j) \in Seq(Msg) /\ Append(queue[m], j) \in Seq(MsgFor(m))
  BY <1>1, <1>2, <1>3 DEF TypedBus
<1>7. UNCHANGED out
  BY DEF Answer
<1> QED BY <1>1, <1>4, <1>5, <1>6, <1>7 DEF TypedBus

\* The controller consumes a message without an answer.
LEMMA ConsumeTyped ==
  ASSUME TypedBus, queue["KAFKA"] # <<>>, Consume
  PROVE  TypedBus'
<1>1. "KAFKA" \in Module
  BY DEF Module
<1>2. /\ Tail(queue["KAFKA"]) \in Seq(Msg)
      /\ Tail(queue["KAFKA"]) \in Seq(MsgFor("KAFKA"))
  BY <1>1, CurrentTyped
<1> QED BY <1>1, <1>2 DEF Consume, TypedBus

\* The message the controller takes next.
LEMMA KafkaCurrent ==
  ASSUME TypedBus, queue["KAFKA"] # <<>>
  PROVE  Current("KAFKA") \in KafkaMsg
BY CurrentTyped DEF MsgFor, Module

\* A handler of the controller that answers keeps the types.
LEMMA DealTyped ==
  ASSUME TypedBus, NEW rest \in {queue["KAFKA"], Tail(queue["KAFKA"])},
         DealAuthen(rest) \/ DealActive(rest) \/ DealUpdateCheck(rest)
  PROVE  TypedBus'
<1>1. queue["KAFKA"] # <<>>
  BY DEF DealAuthen, DealActive, DealUpdateCheck, Request
<1>2. Current("KAFKA") \in KafkaMsg
  BY <1>1, KafkaCurrent
<1>3. CASE DealAuthen(rest)
  <2>1. PICK body \in {"auth_ack", "auth_nak"} : Answer("AUTH", body, rest)
    BY <1>3 DEF DealAuthen
  <2>2. Current("KAFKA").key \in Rid
    BY <1>2, <1>3 DEF DealAuthen, Request, KafkaMsg
  <2> QED BY <1>1, <2>1, <2>2, AnswerTyped DEF Body
<1>4. CASE DealActive(rest)
  <2>1. PICK body \in {"active_ack", "active_nak"} : Answer("ACTIVE", body, rest)
    BY <1>4 DEF DealActive
  <2>2. Current("KAFKA").key \in Uuid
    BY <1>2, <1>4 DEF DealActive, Request, KafkaMsg
  <2> QED BY <1>1, <2>1, <2>2, AnswerTyped DEF Body
<1>5. CASE DealUpdateCheck(rest)
  <2>1. Answer("UPDATE", "update", rest)
    BY <1>5 DEF DealUpdateCheck
  <2>2. Current("KAFKA").key \in Rid
    BY <1>2, <1>5 DEF DealUpdateCheck, Request, KafkaMsg
  <2> QED BY <1>1, <2>1, <2>2, AnswerTyped DEF Body
<1> QED BY <1>3, <1>4, <1>5

\* Each step of the controller, or of the way to it, keeps the types.
LEMMA KafkaStepTyped ==
  ASSUME Typed, KafkaStep
  PROVE  Typed'
<1> USE DEF Typed
<1>1. CommuTypeOK' /\ TypedNet' /\ HostTypeOK' /\ AuthTypeOK' /\ UpdTypeOK' /\ ActTypeOK'
  BY DEF KafkaStep, CommuTypeOK, TypedNet, HostTypeOK, AuthTypeOK, UpdTypeOK,
         ActTypeOK, commuVars, netVars, hostVars, authVars, updVars, routeVars,
         actVars
<1>2. CASE KafkaAnswer
  <2>1. TypedBus'
    BY <1>2, DealTyped DEF KafkaAnswer
  <2> QED BY <1>1, <1>2, <2>1 DEF KafkaAnswer, KafkaTypeOK, kafkaVars
<1>3. CASE KafkaRepeat
  <2>1. TypedBus'
    BY <1>3, DealTyped DEF KafkaRepeat
  <2> QED BY <1>1, <1>3, <2>1, KafkaAssumption DEF KafkaRepeat, KafkaTypeOK
<1>4. CASE KafkaLose
  <2>1. TypedBus'
    BY <1>4, ConsumeTyped DEF KafkaLose
  <2> QED BY <1>1, <1>4, <2>1, KafkaAssumption DEF KafkaLose, KafkaTypeOK
<1>5. CASE UpToDate \/ DealUpdateResult
  <2>1. TypedBus'
    BY <1>5, ConsumeTyped DEF UpToDate, DealUpdateResult, Request
  <2> QED BY <1>1, <1>5, <2>1 DEF UpToDate, DealUpdateResult, KafkaTypeOK, kafkaVars
<1>6. CASE DealActiveSuc
  <2>1. TypedBus'
    BY <1>6, ConsumeTyped DEF DealActiveSuc, Request
  <2>2. Current("KAFKA").key \in Uuid
    BY <1>6, KafkaCurrent DEF DealActiveSuc, Request, KafkaMsg
  <2> QED BY <1>1, <1>6, <2>1, <2>2 DEF DealActiveSuc, KafkaTypeOK
<1>7. ASSUME NEW r \in Rid, DealPublish(r)
      PROVE  TypedBus' /\ KafkaTypeOK'
  <2> DEFINE j == Json("RCVKAFKA", "update", r)
  <2>1. j \in UpdateMsg
    BY DEF Json, UpdateMsg, Msg, Kind, Body
  <2>2. j \in MsgFor("UPDATE") /\ "UPDATE" \in Module
    BY <2>1 DEF MsgFor, Module
  <2>3. PostMsg("UPDATE", j)
    BY <1>7 DEF DealPublish
  <2> HIDE DEF j
  <2>4. TypedBus'
    BY <2>2, <2>3, PostMsgTyped
  <2> QED BY <1>7, <2>4, KafkaAssumption DEF DealPublish, KafkaTypeOK
<1> QED BY <1>1, <1>2, <1>3, <1>4, <1>5, <1>6, <1>7
        DEF KafkaStep, KafkaConsume, KafkaFault
-----------------------------------------------------------------------------
\* The initial states are typed.
LEMMA InitTyped == Init => Typed
<1> SUFFICES ASSUME Init PROVE Typed
  OBVIOUS
<1>1. \A S : <<>> \in Seq(S)
  OBVIOUS
<1>2. TypedBus
  BY <1>1 DEF Init, BusInit, TypedBus
<1>3. CommuTypeOK /\ TypedNet
  BY <1>1, DispatcherAssumption DEF Init, CommuInit, CommuTypeOK, TypedNet
<1>4. HostTypeOK
  BY DEF Init, HostInit, HostTypeOK
<1>5. AuthTypeOK /\ UpdTypeOK /\ ActTypeOK
  BY UpdateAssumption
     DEF Init, AuthInit, UpdInit, ActInit, AuthTypeOK, UpdTypeOK, ActTypeOK
<1>6. KafkaTypeOK
  BY KafkaAssumption DEF Init, KafkaInit, KafkaTypeOK
<1> QED BY <1>2, <1>3, <1>4, <1>5, <1>6 DEF Typed

\* Every step of the system keeps the types.
LEMMA NextTyped == Typed /\ [Next]_vars => Typed'
<1> SUFFICES ASSUME Typed, [Next]_vars PROVE Typed'
  OBVIOUS
<1>1. CASE UNCHANGED vars
  BY <1>1 DEF vars, Typed, TypedBus, CommuTypeOK, TypedNet, HostTypeOK, AuthTypeOK,
              UpdTypeOK, ActTypeOK, KafkaTypeOK, busVars, commuVars, netVars,
              hostVars, authVars, updVars, routeVars, actVars, kafkaVars
<1>2. CASE CommuStep
  BY <1>2, CommuStepTyped
<1>3. CASE AuthStep
  BY <1>3, AuthStepTyped
<1>4. CASE UpdateStep
  BY <1>4, UpdateStepTyped
<1>5. CASE ActiveStep
  BY <1>5, ActiveStepTyped
<1>6. CASE TimerStep \/ \E m \in Module : PostStep(m)
  BY <1>6, BusStepTyped
<1>7. CASE \E c \in Channel : SelectStep(c)
  BY <1>7, SelectStepTyped
<1>8. CASE (\E h \in Host : HostStep(h)) \/ (\E c \in Channel : GiveUpStep(c))
  BY <1>8, HostStepTyped
<1>9. CASE KafkaStep
  BY <1>9, KafkaStepTyped
<1> QED BY <1>1, <1>2, <1>3, <1>4, <1>5, <1>6, <1>7, <1>8, <1>9 DEF Next

\* The queues and maps of aodc hold what their readers expect: a handler never
\* takes a channel, an id or a request from a message that does not have one.
THEOREM TypedAlways == Spec => []Typed
BY InitTyped, NextTyped, PTL DEF Spec

\* Type correctness of the whole system, for any number of hosts, ids,
\* connections and requests.
THEOREM TypeCorrect == Spec => []TypeOK
<1>1. Typed => TypeOK
  <2> SUFFICES ASSUME Typed PROVE BusTypeOK
    BY DEF Typed, TypeOK
  <2>1. \A S, T : S \subseteq T => Seq(S) \subseteq Seq(T)
    OBVIOUS
  <2>2. GoodPost \subseteq Post
    BY DEF GoodPost
  <2>3. out \in [Module -> Seq(Post)]
    BY <2>1, <2>2 DEF Typed, TypedBus
  <2> QED BY <2>3 DEF Typed, TypedBus, BusTypeOK
<1> QED BY <1>1, TypedAlways, PTL
-----------------------------------------------------------------------------
\* Messages that name a resource id for a channel.
Names(m) ==
  \/ m.kind = "AUTH_SUC"
  \/ m.kind = "RECV" /\ m.body = "AUTH"
  \/ m.kind = "SEND" /\ m.body = "UMI"

\* Messages in the queues, on the way to aodc and on the way to the hosts.
Queued == UNION {Range(queue[m]) : m \in Module}
Mail == Queued \cup UNION {Range(wire[c]) \cup Range(inbox[c]) : c \in Channel}

\* Something names id r for channel c.
Says(c, r) ==
  \/ cr[c] = r
  \/ cuo[c] = r
  \/ \E m \in Mail : Names(m) /\ m.ch = c /\ m.key = r

\* Whatever names an id for a channel names the same one.
OneId == \A c \in Channel, r, s \in Rid : Says(c, r) /\ Says(c, s) => r = s

\* It is the id of the machine behind the channel.
IdOfHost ==
  \A h \in Host, c \in Channel, r \in Rid :
    cur[h] = c /\ Says(c, r) => h \in Aods /\ RidOf[h] = r

\* A channel not yet accepted has left no trace.
Untouched ==
  \A c \in Channel : c >= ullIndex =>
    (\A r \in Rid : ~Says(c, r)) /\ (\A h \in Host : cur[h] # c)

\* What a handler posts after its first post names no id.
QuietPosts == \A m \in Module : \A p \in Range(out[m]) : ~Names(p.msg)

\* A frame is delivered to the channel it is addressed to.
Delivered ==
  \A c \in Channel : \A m \in Range(inbox[c]) : m.kind = "SEND" /\ m.ch = c

OwnerInv ==
  OneId /\ IdOfHost /\ Untouched /\ QuietPosts /\ Delivered
  /\ OwnerMapsInverse /\ RouteSound
-----------------------------------------------------------------------------
(* Sequences of messages. *)

\* What a queue holds after a message is added to it.
LEMMA RangeAppend ==
  ASSUME NEW S, NEW s \in Seq(S), NEW e
  PROVE  Range(Append(s, e)) = Range(s) \cup {e}
<1>1. s \in Seq(S \cup {e}) /\ e \in S \cup {e}
  OBVIOUS
<1>2. /\ DOMAIN Append(s, e) = 1 .. Len(s) + 1
      /\ \A i \in 1 .. Len(s) : Append(s, e)[i] = s[i]
      /\ Append(s, e)[Len(s) + 1] = e
      /\ DOMAIN s = 1 .. Len(s) /\ Len(s) \in Nat
  BY <1>1
<1> QED BY <1>2 DEF Range

\* What a queue holds after its first message is taken.
LEMMA RangeTail ==
  ASSUME NEW S, NEW s \in Seq(S), s # <<>>
  PROVE  Range(Tail(s)) \subseteq Range(s) /\ Head(s) \in Range(s)
<1>1. /\ DOMAIN Tail(s) = 1 .. Len(s) - 1
      /\ \A i \in 1 .. Len(s) - 1 : Tail(s)[i] = s[i + 1]
      /\ DOMAIN s = 1 .. Len(s) /\ Len(s) \in Nat \ {0}
      /\ Head(s) = s[1]
  OBVIOUS
<1> QED BY <1>1 DEF Range

\* What a post adds to the queues.
LEMMA QueuedPosted ==
  ASSUME NEW q, DOMAIN q = Module, \A m \in Module : q[m] \in Seq(Msg), NEW p
  PROVE  /\ DOMAIN Posted(q, p) = Module
         /\ \A m \in Module :
              Range(Posted(q, p)[m]) \subseteq Range(q[m]) \cup {p.msg}
<1>1. Posted(q, p) = [q EXCEPT ![p.to] = Append(q[p.to], p.msg)]
  BY DEF Posted
<1>2. \A m \in Module : Range(Append(q[m], p.msg)) = Range(q[m]) \cup {p.msg}
  BY RangeAppend
<1> QED BY <1>1, <1>2

\* A handler leaves in the queues what was there and its first post.
LEMMA HandleQueued ==
  ASSUME TypedBus, QuietPosts, NEW m \in Module, queue[m] # <<>>,
         NEW S, NEW posts \in Seq(S), Handle(m, posts),
         posts # <<>> => \A p \in Range(Tail(posts)) : ~Names(p.msg)
  PROVE  /\ QuietPosts'
         /\ \A x \in Queued' : x \in Queued \/ (posts # <<>> /\ x = Head(posts).msg)
<1> DEFINE rest == [queue EXCEPT ![m] = Tail(@)]
<1>1. /\ DOMAIN rest = Module
      /\ \A n \in Module : rest[n] \in Seq(Msg) /\ Range(rest[n]) \subseteq Range(queue[n])
  BY CurrentTyped, RangeTail DEF TypedBus
<1> HIDE DEF rest
<1>2. CASE posts = <<>>
  <2>1. queue' = rest /\ out' = out
    BY <1>2 DEF Handle, rest
  <2> QED BY <1>1, <2>1, <1>2 DEF QuietPosts, Queued
<1>3. CASE posts # <<>>
  <2>1. queue' = Posted(rest, Head(posts)) /\ out' = [out EXCEPT ![m] = Tail(posts)]
    BY <1>3 DEF Handle, rest
  <2>2. QuietPosts'
    BY <1>3, <2>1 DEF QuietPosts, TypedBus
  <2>3. \A n \in Module : Range(queue'[n]) \subseteq Range(queue[n]) \cup {Head(posts).msg}
    BY <1>1, <2>1, QueuedPosted
  <2> QED BY <1>3, <2>2, <2>3 DEF Queued
<1> QED BY <1>2, <1>3

\* A handler whose posts name no id adds nothing that does.
LEMMA HandleQuiet ==
  ASSUME TypedBus, QuietPosts, NEW m \in Module, queue[m] # <<>>,
         NEW S, NEW posts \in Seq(S), Handle(m, posts),
         \A p \in Range(posts) : ~Names(p.msg)
  PROVE  QuietPosts' /\ \A x \in Queued' : Names(x) => x \in Queued
<1>1. posts # <<>> => /\ \A p \in Range(Tail(posts)) : ~Names(p.msg)
                      /\ ~Names(Head(posts).msg)
  BY RangeTail
<1> QED BY <1>1, HandleQueued

\* So does a single post.
LEMMA PostMsgQueued ==
  ASSUME TypedBus, QuietPosts, NEW m, NEW msg, PostMsg(m, msg)
  PROVE  QuietPosts' /\ \A x \in Queued' : x \in Queued \/ x = msg
<1>1. To(m, msg).msg = msg
  BY DEF To
<1>2. \A n \in Module : Range(queue'[n]) \subseteq Range(queue[n]) \cup {msg}
  BY <1>1, QueuedPosted DEF PostMsg, TypedBus
<1>3. QuietPosts'
  BY DEF PostMsg, QuietPosts
<1> QED BY <1>2, <1>3 DEF Queued

\* And a later post of a handler.
LEMMA DispatchQueued ==
  ASSUME TypedBus, QuietPosts, NEW m \in Module, Dispatch(m)
  PROVE  QuietPosts' /\ \A x \in Queued' : Names(x) => x \in Queued
<1>1. /\ out[m] # <<>>
      /\ queue' = Posted(queue, Head(out[m]))
      /\ out' = [out EXCEPT ![m] = Tail(out[m])]
  BY DEF Dispatch
<1>2. Range(Tail(out[m])) \subseteq Range(out[m]) /\ Head(out[m]) \in Range(out[m])
  BY <1>1, RangeTail DEF TypedBus
<1>3. \A n \in Module : Range(queue'[n]) \subseteq Range(queue[n]) \cup {Head(out[m]).msg}
  BY <1>1, QueuedPosted DEF TypedBus
<1>4. QuietPosts'
  BY <1>1, <1>2 DEF QuietPosts, TypedBus
<1> QED BY <1>2, <1>3, <1>4 DEF Queued, QuietPosts
-----------------------------------------------------------------------------
(* Steps that name no id anew. *)

\* Nothing names an id for a channel that was not named for it before.
NoNewName == \A c \in Channel, r \in Rid : Says(c, r)' => Says(c, r)

\* Whatever names an id in the mail was there, or is backed by what was.
MailBacked == \A x \in Mail' : Names(x) => x \in Mail \/ Says(x.ch, x.key)

\* Enough to look at the maps and at the mail.
LEMMA NoNewNameLemma ==
  ASSUME MailBacked,
         \A c \in Channel, r \in Rid : cr'[c] = r => Says(c, r),
         \A c \in Channel, r \in Rid : cuo'[c] = r => Says(c, r)
  PROVE  NoNewName
<1> SUFFICES ASSUME NEW c \in Channel, NEW r \in Rid, Says(c, r)'
             PROVE  Says(c, r)
  BY DEF NoNewName
<1>1. CASE \E m \in Mail' : Names(m) /\ m.ch = c /\ m.key = r
  BY <1>1 DEF MailBacked, Says
<1> QED BY <1>1 DEF Says

\* A step that leaves both maps alone.
LEMMA SameMaps ==
  ASSUME MailBacked, UNCHANGED <<cr, cuo>>
  PROVE  NoNewName
BY NoNewNameLemma DEF Says

\* A step that leaves the connections alone.
LEMMA SameNet ==
  ASSUME UNCHANGED netVars,
         \A x \in Queued' : Names(x) => x \in Queued \/ Says(x.ch, x.key)
  PROVE  MailBacked
BY DEF MailBacked, Mail, netVars

\* Then the invariants about names hold on.
LEMMA NamesKept ==
  ASSUME OneId, IdOfHost, Untouched, NoNewName, ullIndex' = ullIndex,
         \A h \in Host : cur'[h] \in {cur[h], None}
  PROVE  OneId' /\ IdOfHost' /\ Untouched'
<1>1. None \notin Channel
  BY DispatcherAssumption DEF Channel
<1>2. OneId'
  BY DEF OneId, NoNewName
<1>3. IdOfHost'
  BY <1>1 DEF IdOfHost, NoNewName
<1>4. Untouched'
  BY <1>1 DEF Untouched, NoNewName
<1> QED BY <1>2, <1>3, <1>4

\* What the communication module posts names no id.
LEMMA CommuPostsQuiet ==
  ASSUME NEW c
  PROVE  /\ \A k \in {"NEW", "DEL", "FREE", "BUILDED", "FREED", "FAIL"} :
              ~Names(Notice(k, c)) /\ To("COMMU", Notice(k, c)).msg = Notice(k, c)
         /\ \E S : <<To("ACTIVE", Notice("BUILDED", c))>> \in Seq(S)
         /\ \A p \in Range(<<To("ACTIVE", Notice("BUILDED", c))>>) : ~Names(p.msg)
         /\ \A k \in {"FREED", "FAIL"} :
              \A p \in Range(Broadcast(Notice(k, c))) : ~Names(p.msg)
<1>1. \A k \in {"NEW", "DEL", "FREE", "BUILDED", "FREED", "FAIL"} : ~Names(Notice(k, c))
  BY DEF Names, Notice
<1>2. \A m, x : To(m, x).msg = x
  BY DEF To
<1>3. \A p : Range(<<p>>) = {p}
  BY DEF Range
<1>4. \A p, q, s : Range(<<p, q, s>>) = {p, q, s}
  BY DEF Range
<1>5. \A p : <<p>> \in Seq({p})
  OBVIOUS
<1> QED BY <1>1, <1>2, <1>3, <1>4, <1>5 DEF Broadcast

\* The handlers of the communication module name no id anew: a frame they
\* send was in their queue.
LEMMA CommuStepOwner ==
  ASSUME Typed, OwnerInv, CommuStep
  PROVE  OwnerInv'
<1> USE DEF OwnerInv
<1> DEFINE m == Current("COMMU")
           c == Current("COMMU").ch
<1>1. queue["COMMU"] # <<>>
  BY DEF CommuStep, CommuHandler, OnNewChannel, OnNewChannelFull, OnDelChannel,
         OnFreeChannel, SendData2Channel, SendDataFail, Ready
<1>2. TypedBus /\ c \in Channel /\ "COMMU" \in Module
  BY <1>1, CommuCurrent DEF Typed
<1>3. \E posts \in Seq(GoodPost) :
        Handle("COMMU", posts) /\ \A p \in Range(posts) : ~Names(p.msg)
  <2> DEFINE built == <<To("ACTIVE", Notice("BUILDED", c))>>
  <2>1. \A k \in {"FREED", "FAIL"} :
          /\ Broadcast(Notice(k, c)) \in Seq(GoodPost)
          /\ \A p \in Range(Broadcast(Notice(k, c))) : ~Names(p.msg)
    BY <1>2, BroadcastGood, CommuPostsQuiet
  <2>2. built \in Seq(GoodPost) /\ \A p \in Range(built) : ~Names(p.msg)
    <3>1. To("ACTIVE", Notice("BUILDED", c)) \in GoodPost
      BY <1>2, NoticeGood, ToGood DEF MsgFor, Module
    <3>2. \A p \in Range(built) : ~Names(p.msg)
      BY CommuPostsQuiet
    <3> QED BY <3>1, <3>2
  <2>3. <<>> \in Seq(GoodPost) /\ \A p \in Range(<<>>) : ~Names(p.msg)
    BY DEF Range
  <2>4. \/ Handle("COMMU", <<>>)
        \/ Handle("COMMU", built)
        \/ Handle("COMMU", built \o Broadcast(Notice("FREED", c)))
        \/ \E k \in {"FREED", "FAIL"} : Handle("COMMU", Broadcast(Notice(k, c)))
    BY DEF CommuStep, CommuHandler, OnNewChannel, OnNewChannelFull, OnDelChannel,
           OnFreeChannel, SendData2Channel, SendDataFail
  <2> HIDE DEF built
  <2>5. /\ built \o Broadcast(Notice("FREED", c)) \in Seq(GoodPost)
        /\ \A p \in Range(built \o Broadcast(Notice("FREED", c))) : ~Names(p.msg)
    BY <2>1, <2>2, ConcatProperties, RangeConcatenation
  <2> QED BY <2>1, <2>2, <2>3, <2>4, <2>5
<1>4. QuietPosts' /\ \A x \in Queued' : Names(x) => x \in Queued
  BY <1>1, <1>2, <1>3, HandleQuiet
<1>5. m \in Queued
  BY <1>1, <1>2, RangeTail DEF Queued, Current, TypedBus
<1>6. /\ \A d \in Channel : wire'[d] = wire[d]
      /\ \A d \in Channel : \/ inbox'[d] = inbox[d]
                            \/ d = c /\ m.kind = "SEND" /\ inbox'[d] = Append(inbox[d], m)
  BY <1>2 DEF CommuStep, CommuHandler, OnNewChannel, OnNewChannelFull, OnDelChannel,
         OnFreeChannel, SendData2Channel, SendDataFail, netVars, Ready, Typed, TypedNet
<1> HIDE DEF m, c
<1>7. \A d \in Channel : \/ Range(inbox'[d]) = Range(inbox[d])
                         \/ /\ d = c /\ m.kind = "SEND"
                            /\ Range(inbox'[d]) = Range(inbox[d]) \cup {m}
  BY <1>6, RangeAppend DEF Typed, TypedNet
<1>8. MailBacked
  BY <1>4, <1>5, <1>6, <1>7 DEF MailBacked, Mail
<1>9. Delivered'
  BY <1>7 DEF Delivered, m, c
<1>10. /\ UNCHANGED <<cr, cuo, rcCh, ruo, cur>>
       /\ ullIndex' = ullIndex
  BY DEF CommuStep, CommuHandler, OnNewChannel, OnNewChannelFull, OnDelChannel,
         OnFreeChannel, SendData2Channel, SendDataFail, commuVars, hostVars,
         authVars, updVars, routeVars
<1>11. OneId' /\ IdOfHost' /\ Untouched'
  BY <1>8, <1>10, SameMaps, NamesKept
<1>12. OwnerMapsInverse' /\ RouteSound'
  BY <1>10 DEF OwnerMapsInverse, RouteSound
<1> QED BY <1>4, <1>9, <1>11, <1>12

\* The select loop moves a request from the connection to a queue.
LEMMA SelectStepOwner ==
  ASSUME Typed, OwnerInv, NEW c \in Channel, SelectStep(c)
  PROVE  OwnerInv'
<1> USE DEF OwnerInv
<1>1. TypedBus /\ \A d \in Channel : wire[d] \in Seq(WireMsg)
  BY DEF Typed, TypedNet
<1>2. QuietPosts' /\ MailBacked /\ UNCHANGED inbox
  <2>1. CASE ReadData(c)
    <3> DEFINE f == Head(wire[c])
    <3>1. /\ PostMsg(Reader(f), f)
          /\ wire[c] # <<>>
          /\ wire' = [wire EXCEPT ![c] = Tail(wire[c])]
          /\ UNCHANGED inbox
      BY <2>1 DEF ReadData
    <3>2. f \in Range(wire[c]) /\ Range(Tail(wire[c])) \subseteq Range(wire[c])
      BY <1>1, <3>1, RangeTail
    <3>3. QuietPosts' /\ \A x \in Queued' : x \in Queued \/ x = f
      BY <1>1, <3>1, PostMsgQueued
    <3> HIDE DEF f
    <3>4. \A d \in Channel : Range(wire'[d]) \subseteq Range(wire[d])
      BY <1>1, <3>1, <3>2 DEF Typed, TypedNet
    <3> QED BY <3>1, <3>2, <3>3, <3>4 DEF MailBacked, Mail
  <2>2. CASE OnDel(c)
    <3>1. PostMsg("COMMU", Notice("DEL", c)) /\ UNCHANGED netVars
      BY <2>2 DEF OnDel
    <3>2. ~Names(Notice("DEL", c))
      BY CommuPostsQuiet
    <3>3. QuietPosts' /\ \A x \in Queued' : Names(x) => x \in Queued
      BY <1>1, <3>1, <3>2, PostMsgQueued
    <3> QED BY <3>1, <3>3, SameNet DEF netVars
  <2> QED BY <2>1, <2>2 DEF SelectStep
<1>3. UNCHANGED <<cr, cuo, rcCh, ruo, cur, ullIndex>>
  BY DEF SelectStep, ReadData, OnDel, commuVars, hostVars, authVars, updVars, routeVars
<1>4. OneId' /\ IdOfHost' /\ Untouched'
  BY <1>2, <1>3, SameMaps, NamesKept
<1>5. Delivered' /\ OwnerMapsInverse' /\ RouteSound'
  BY <1>2, <1>3 DEF Delivered, OwnerMapsInverse, RouteSound
<1> QED BY <1>2, <1>4, <1>5

\* The authentication module forgets a channel in both maps.
LEMMA AuthForgetInverse ==
  ASSUME Typed, OwnerMapsInverse, NEW c \in Channel, AuthForget(c)
  PROVE  /\ OwnerMapsInverse'
         /\ \A d \in Channel, r \in Rid : cr'[d] = r => cr[d] = r
         /\ \A r \in Rid : rcCh'[r] # rcCh[r] => rcCh'[r] = None /\ rcCh[r] = c
<1>1. None \notin Channel /\ None \notin Rid
  BY DispatcherAssumption DEF Channel
<1>2. /\ rcCh' = [r \in Rid |-> IF r = cr[c] THEN None ELSE rcCh[r]]
      /\ cr' = [cr EXCEPT ![c] = None]
  BY DEF AuthForget
<1>3. cr \in [Channel -> Rid \cup {None}]
  BY DEF Typed, AuthTypeOK
<1> QED BY <1>1, <1>2, <1>3 DEF OwnerMapsInverse

\* The update module forgets a channel and the route of its id.
LEMMA UpdForgetSound ==
  ASSUME Typed, RouteSound, NEW c \in Channel, UpdForget(c)
  PROVE  RouteSound' /\ \A d \in Channel, r \in Rid : cuo'[d] = r => cuo[d] = r
<1>1. None \notin Channel /\ None \notin Rid
  BY DispatcherAssumption DEF Channel
<1>2. cuo \in [Channel -> Rid \cup {None}]
  BY DEF Typed, UpdTypeOK
<1> QED BY <1>1, <1>2 DEF UpdForget, RouteSound

\* A binding makes the two maps name each other: the id was free, and so was
\* the channel, since a channel bound already would be bound to the same id.
LEMMA BindInverse ==
  ASSUME Typed, OneId, OwnerMapsInverse, BindChannel
  PROVE  /\ OwnerMapsInverse'
         /\ \A d \in Channel, r \in Rid : cr'[d] = r => Says(d, r)
         /\ \A r \in Rid : rcCh'[r] # rcCh[r] => rcCh[r] = None
<1> DEFINE m == Current("AUTH")
<1>1. /\ queue["AUTH"] # <<>> /\ m.kind = "RECV" /\ m.body = "AUTH"
      /\ rcCh[m.key] = None
      /\ rcCh' = [rcCh EXCEPT ![m.key] = m.ch]
      /\ cr' = [cr EXCEPT ![m.ch] = m.key]
  BY DEF BindChannel, AuthRequest, Ready
<1>2. m.ch \in Channel /\ m.key \in Rid /\ None \notin Channel /\ None \notin Rid
  BY <1>1, AuthCurrent, DispatcherAssumption DEF Typed, Channel
<1>3. m \in Mail
  BY <1>1, RangeTail DEF Mail, Queued, Module, Current, Typed, TypedBus
<1> HIDE DEF m
<1>4. Says(m.ch, m.key)
  BY <1>1, <1>3 DEF Says, Names
<1>5. \A r \in Rid : Says(m.ch, r) => r = m.key
  BY <1>2, <1>4 DEF OneId
<1>6. \A r \in Rid : cr[m.ch] = r => r = m.key
  BY <1>5 DEF Says
<1>7. cr \in [Channel -> Rid \cup {None}] /\ rcCh \in [Rid -> Channel \cup {None}]
  BY DEF Typed, AuthTypeOK
<1>8. \A d \in Channel, r \in Rid : cr'[d] = r => Says(d, r)
  BY <1>1, <1>2, <1>4, <1>7 DEF Says
<1>9. OwnerMapsInverse'
  BY <1>1, <1>2, <1>6, <1>7 DEF OwnerMapsInverse
<1> QED BY <1>1, <1>8, <1>9, <1>7

\* Posts of the authentication and activation modules that name no id.
LEMMA QuietFrames ==
  /\ \A c : ~Names(Free(c).msg)
  /\ \A c, b, k : b # "UMI" => ~Names(Send(c, b, k).msg)
  /\ \A b, k : ~Names(ToKafka(b, k).msg)
BY DEF Names, Free, Send, ToKafka, To, Notice, Frame, Json

\* What one-, two- and three-element sequences hold.
LEMMA RangeOfTuple ==
  /\ Range(<<>>) = {} /\ <<>> \in Seq({})
  /\ \A p : Range(<<p>>) = {p} /\ <<p>> \in Seq({p})
  /\ \A p, q : Range(<<p, q>>) = {p, q} /\ <<p, q>> \in Seq({p, q})
BY DEF Range

\* The handlers of the authentication module name an id for a channel only as
\* the request or m_mapCR did.
LEMMA AuthStepOwner ==
  ASSUME Typed, OwnerInv, AuthStep
  PROVE  OwnerInv'
<1> USE DEF OwnerInv
<1> DEFINE m == Current("AUTH")
<1>1. queue["AUTH"] # <<>>
  BY DEF AuthStep, AuthHandler, RejectCode, RejectOther, DropBoth, BindChannel,
         OnAuthAck, AuthOnSendChannelDataFail, AuthOnChannelFreed, AuthRequest,
         Ready
<1>2. TypedBus /\ "AUTH" \in Module
  BY DEF Typed, Module
<1>3. UNCHANGED <<netVars, cuo, ruo, cur, ullIndex>>
  BY DEF AuthStep, netVars, hostVars, updVars, routeVars, commuVars
<1>4. CASE RejectCode \/ RejectOther \/ DropBoth
  <2>1. QuietPosts' /\ \A x \in Queued' : Names(x) => x \in Queued
    <3>1. PICK p, q : /\ ~Names(p.msg) /\ ~Names(q.msg)
                      /\ Handle("AUTH", <<p>>) \/ Handle("AUTH", <<p, q>>)
      <4>1. CASE RejectCode
        <5>1. ~Names(Free(m.ch).msg) /\ Handle("AUTH", <<Free(m.ch)>>)
          BY <4>1, QuietFrames DEF RejectCode
        <5> QED BY <5>1
      <4>2. CASE RejectOther
        <5>1. /\ ~Names(Send(m.ch, "AUTH_DIF", m.key).msg) /\ ~Names(Free(m.ch).msg)
              /\ Handle("AUTH", <<Send(m.ch, "AUTH_DIF", m.key), Free(m.ch)>>)
          BY <4>2, QuietFrames DEF RejectOther
        <5> QED BY <5>1
      <4>3. CASE DropBoth
        <5>1. /\ ~Names(Free(rcCh[m.key]).msg) /\ ~Names(Free(m.ch).msg)
              /\ Handle("AUTH", <<Free(rcCh[m.key]), Free(m.ch)>>)
          BY <4>3, QuietFrames DEF DropBoth
        <5> QED BY <5>1
      <4> QED BY <1>4, <4>1, <4>2, <4>3
    <3>2. /\ <<p>> \in Seq({p}) /\ \A x \in Range(<<p>>) : ~Names(x.msg)
          /\ <<p, q>> \in Seq({p, q}) /\ \A x \in Range(<<p, q>>) : ~Names(x.msg)
      BY <3>1, RangeOfTuple
    <3>3. CASE Handle("AUTH", <<p>>)
      BY <1>1, <1>2, <3>2, <3>3, HandleQuiet
    <3>4. CASE Handle("AUTH", <<p, q>>)
      BY <1>1, <1>2, <3>2, <3>4, HandleQuiet
    <3> QED BY <3>1, <3>3, <3>4
  <2>2. UNCHANGED <<cr, rcCh>>
    BY <1>4 DEF RejectCode, RejectOther, DropBoth, authVars
  <2>3. OneId' /\ IdOfHost' /\ Untouched'
    BY <1>3, <2>1, <2>2, SameNet, SameMaps, NamesKept
  <2> QED BY <1>3, <2>1, <2>2, <2>3
          DEF Delivered, OwnerMapsInverse, RouteSound, netVars
<1>5. CASE BindChannel
  <2>1. QuietPosts' /\ \A x \in Queued' : Names(x) => x \in Queued
    <3>1. Handle("AUTH", <<ToKafka("auth", m.key)>>)
      BY <1>5 DEF BindChannel
    <3>2. \A p \in Range(<<ToKafka("auth", m.key)>>) : ~Names(p.msg)
      BY RangeOfTuple, QuietFrames
    <3>3. <<ToKafka("auth", m.key)>> \in Seq({ToKafka("auth", m.key)})
      BY RangeOfTuple
    <3> QED BY <1>1, <1>2, <3>1, <3>2, <3>3, HandleQuiet
  <2>2. MailBacked
    BY <1>3, <2>1, SameNet
  <2>3. OwnerMapsInverse' /\ NoNewName
    BY <1>3, <1>5, <2>2, BindInverse, NoNewNameLemma DEF Says
  <2>4. OneId' /\ IdOfHost' /\ Untouched'
    BY <1>3, <2>3, NamesKept
  <2> QED BY <1>3, <2>1, <2>3, <2>4 DEF Delivered, RouteSound, netVars
<1>6. CASE OnAuthAck
  <2> DEFINE c == rcCh[m.key]
             a == To("UPDATE", Frame("AUTH_SUC", c, "-", m.key))
             posts == IF c = None THEN <<>>
                      ELSE IF m.body = "auth_ack"
                      THEN <<a, Send(c, "AUTH_SUC", m.key)>>
                      ELSE <<Send(c, "AUTH_FAI", m.key)>>
  <2>1. m.key \in Rid /\ Handle("AUTH", posts) /\ UNCHANGED authVars
    BY <1>1, <1>2, <1>6, AuthCurrent DEF OnAuthAck, Ready
  <2>2. c \in Channel \cup {None} /\ (c # None => Says(c, m.key))
    BY <2>1 DEF Typed, AuthTypeOK, OwnerMapsInverse, Says
  <2>3. ~Names(Send(c, "AUTH_SUC", m.key).msg) /\ ~Names(Send(c, "AUTH_FAI", m.key).msg)
    BY QuietFrames
  <2>4. a.msg.ch = c /\ a.msg.key = m.key
    BY DEF To, Frame
  <2>5. /\ \E S : posts \in Seq(S)
        /\ posts # <<>> => \A p \in Range(Tail(posts)) : ~Names(p.msg)
        /\ posts # <<>> => \/ ~Names(Head(posts).msg)
                           \/ c # None /\ Head(posts) = a
    <3> HIDE DEF a, c
    <3>1. CASE posts = <<>>
      BY <3>1, RangeOfTuple
    <3>2. CASE posts = <<Send(c, "AUTH_FAI", m.key)>>
      <4>1. Tail(posts) = <<>> /\ Head(posts) = Send(c, "AUTH_FAI", m.key)
        BY <3>2
      <4> QED BY <2>3, <3>2, <4>1, RangeOfTuple
    <3>3. CASE c # None /\ posts = <<a, Send(c, "AUTH_SUC", m.key)>>
      <4>1. Tail(posts) = <<Send(c, "AUTH_SUC", m.key)>> /\ Head(posts) = a
        BY <3>3
      <4> QED BY <2>3, <3>3, <4>1, RangeOfTuple
    <3> QED BY <3>1, <3>2, <3>3
  <2> HIDE DEF posts, a, c
  <2>6. /\ QuietPosts'
        /\ \A x \in Queued' : x \in Queued \/ (posts # <<>> /\ x = Head(posts).msg)
    BY <1>1, <1>2, <2>1, <2>5, HandleQueued
  <2>7. \A x \in Queued' : Names(x) => x \in Queued \/ Says(x.ch, x.key)
    BY <2>2, <2>4, <2>5, <2>6
  <2>8. UNCHANGED <<cr, rcCh>>
    BY <2>1 DEF authVars
  <2>9. OneId' /\ IdOfHost' /\ Untouched'
    BY <1>3, <2>7, <2>8, SameNet, SameMaps, NamesKept
  <2> QED BY <1>3, <2>6, <2>8, <2>9
          DEF Delivered, OwnerMapsInverse, RouteSound, netVars
<1>7. CASE AuthOnSendChannelDataFail \/ AuthOnChannelFreed
  <2>1. Handle("AUTH", <<>>) /\ AuthForget(m.ch) /\ m.ch \in Channel
    BY <1>1, <1>2, <1>7, AuthCurrent
       DEF AuthOnSendChannelDataFail, AuthOnChannelFreed, Ready
  <2>2. QuietPosts' /\ \A x \in Queued' : Names(x) => x \in Queued
    BY <1>1, <1>2, <2>1, RangeOfTuple, HandleQuiet
  <2>3. /\ OwnerMapsInverse'
        /\ \A d \in Channel, r \in Rid : cr'[d] = r => Says(d, r)
    BY <2>1, AuthForgetInverse DEF Says
  <2>4. MailBacked
    BY <1>3, <2>2, SameNet
  <2>5. NoNewName
    BY <1>3, <2>3, <2>4, NoNewNameLemma DEF Says
  <2>6. OneId' /\ IdOfHost' /\ Untouched'
    BY <1>3, <2>5, NamesKept
  <2> QED BY <1>3, <2>2, <2>3, <2>6 DEF Delivered, RouteSound, netVars
<1> QED BY <1>4, <1>5, <1>6, <1>7 DEF AuthStep, AuthHandler

\* An announcement makes both maps of the update module name the same pair, and
\* leaves no other id with a route to the channel.
LEMMA AuthSucSound ==
  ASSUME Typed, OneId, RouteSound, OnAuthSuc
  PROVE  RouteSound' /\ \A d \in Channel, r \in Rid : cuo'[d] = r => Says(d, r)
<1> DEFINE m == Current("UPDATE")
<1>1. /\ queue["UPDATE"] # <<>> /\ m.kind = "AUTH_SUC"
      /\ ruo' = [ruo EXCEPT ![m.key] = m.ch]
      /\ cuo' = [cuo EXCEPT ![m.ch] = m.key]
  BY DEF OnAuthSuc, UpdReady, Ready
<1>2. m.ch \in Channel /\ m.key \in Rid /\ None \notin Channel /\ None \notin Rid
  BY <1>1, UpdateCurrent, DispatcherAssumption DEF Typed, Channel
<1>3. m \in Mail
  BY <1>1, RangeTail DEF Mail, Queued, Module, Current, Typed, TypedBus
<1> HIDE DEF m
<1>4. Says(m.ch, m.key)
  BY <1>1, <1>3 DEF Says, Names
<1>5. \A r \in Rid : Says(m.ch, r) => r = m.key
  BY <1>2, <1>4 DEF OneId
<1>6. \A r \in Rid : cuo[m.ch] = r => r = m.key
  BY <1>5 DEF Says
<1>7. cuo \in [Channel -> Rid \cup {None}] /\ ruo \in [Rid -> Channel \cup {None}]
  BY DEF Typed, UpdTypeOK
<1>8. \A d \in Channel, r \in Rid : cuo'[d] = r => Says(d, r)
  BY <1>1, <1>2, <1>4, <1>7 DEF Says
<1>9. RouteSound'
  BY <1>1, <1>2, <1>6, <1>7 DEF RouteSound
<1> QED BY <1>8, <1>9

\* The handlers of the update module name an id for a channel only as the
\* announcement or m_mapCuo did.
LEMMA UpdateStepOwner ==
  ASSUME Typed, OwnerInv, UpdateStep
  PROVE  OwnerInv'
<1> USE DEF OwnerInv
<1> DEFINE m == Current("UPDATE")
<1>1. TypedBus /\ "UPDATE" \in Module
  BY DEF Typed, Module
<1>2. UNCHANGED <<netVars, cr, rcCh, cur, ullIndex>>
  BY DEF UpdateStep, netVars, hostVars, authVars, commuVars
<1>3. /\ QuietPosts'
      /\ \A x \in Queued' : Names(x) => x \in Queued \/ Says(x.ch, x.key)
  <2>1. CASE OnAuthSuc \/ UpdOnSendChannelDataFail \/ UpdOnChannelFreed
    <3>1. Handle("UPDATE", <<>>) /\ queue["UPDATE"] # <<>>
      BY <2>1 DEF OnAuthSuc, UpdOnSendChannelDataFail, UpdOnChannelFreed, UpdReady, Ready
    <3> QED BY <1>1, <3>1, RangeOfTuple, HandleQuiet
  <2>2. CASE OnUpdateFromKafka
    <3> DEFINE c == ruo[m.key]
               p == To("COMMU", Frame("SEND", c, "UMI", m.key))
    <3>1. /\ queue["UPDATE"] # <<>> /\ m.key \in Rid
          /\ \/ Handle("UPDATE", <<>>)
             \/ c # None /\ Handle("UPDATE", <<p>>)
      BY <1>1, <2>2, UpdateCurrent DEF OnUpdateFromKafka, UpdReady, Ready
    <3>2. c # None => Says(c, m.key)
      BY <3>1 DEF Typed, UpdTypeOK, RouteSound, Says
    <3>3. p.msg.ch = c /\ p.msg.key = m.key
      BY DEF To, Frame
    <3>4. Head(<<p>>) = p /\ Tail(<<p>>) = <<>> /\ <<p>> # <<>>
      OBVIOUS
    <3> HIDE DEF p, c
    <3>5. <<p>> \in Seq({p}) /\ \A x \in Range(Tail(<<p>>)) : ~Names(x.msg)
      BY <3>4, RangeOfTuple
    <3>6. CASE Handle("UPDATE", <<>>)
      BY <1>1, <3>1, <3>6, RangeOfTuple, HandleQuiet
    <3>7. CASE c # None /\ Handle("UPDATE", <<p>>)
      <4>1. QuietPosts' /\ \A x \in Queued' : x \in Queued \/ x = p.msg
        BY <1>1, <3>1, <3>4, <3>5, <3>7, HandleQueued
      <4> QED BY <3>2, <3>3, <3>7, <4>1
    <3> QED BY <3>1, <3>6, <3>7
  <2>3. CASE OnRecvAodsData
    <3> DEFINE p == To("KAFKA", Json("SND2KAFKA",
                      IF m.body = "UMI" THEN "check_update" ELSE "update_result",
                      cuo[m.ch]))
    <3>1. /\ queue["UPDATE"] # <<>>
          /\ Handle("UPDATE", <<>>) \/ Handle("UPDATE", <<p>>)
      BY <2>3 DEF OnRecvAodsData, UpdReady, Ready
    <3>2. ~Names(p.msg)
      BY DEF Names, To, Json
    <3> HIDE DEF p
    <3>3. /\ <<>> \in Seq({}) /\ \A x \in Range(<<>>) : ~Names(x.msg)
          /\ <<p>> \in Seq({p}) /\ \A x \in Range(<<p>>) : ~Names(x.msg)
      BY <3>2, RangeOfTuple
    <3>4. CASE Handle("UPDATE", <<>>)
      BY <1>1, <3>1, <3>3, <3>4, HandleQuiet
    <3>5. CASE Handle("UPDATE", <<p>>)
      BY <1>1, <3>1, <3>3, <3>5, HandleQuiet
    <3> QED BY <3>1, <3>4, <3>5
  <2>4. CASE \E c \in Channel : SendKeepAlive(c)
    <3>1. PICK c \in Channel : PostMsg("COMMU", Frame("SEND", c, "KEEPALIVE", None))
      BY <2>4 DEF SendKeepAlive
    <3>2. ~Names(Frame("SEND", c, "KEEPALIVE", None))
      BY DEF Names, Frame
    <3> QED BY <1>1, <3>1, <3>2, PostMsgQueued
  <2> QED BY <2>1, <2>2, <2>3, <2>4 DEF UpdateStep, UpdateHandler
<1>4. RouteSound' /\ \A d \in Channel, r \in Rid : cuo'[d] = r => Says(d, r)
  <2>1. CASE OnAuthSuc
    BY <2>1, AuthSucSound
  <2>2. CASE UpdOnSendChannelDataFail \/ UpdOnChannelFreed
    <3>1. UpdForget(m.ch) /\ m.ch \in Channel
      BY <1>1, <2>2, UpdateCurrent
         DEF UpdOnSendChannelDataFail, UpdOnChannelFreed, UpdReady, Ready
    <3> QED BY <3>1, UpdForgetSound DEF Says
  <2>3. CASE UNCHANGED routeVars
    BY <2>3 DEF RouteSound, Says, routeVars
  <2> QED BY <2>1, <2>2, <2>3
          DEF UpdateStep, UpdateHandler, OnUpdateFromKafka, OnRecvAodsData,
              SendKeepAlive, updVars
<1>5. MailBacked
  BY <1>2, <1>3, SameNet
<1>6. NoNewName
  BY <1>2, <1>4, <1>5, NoNewNameLemma DEF Says
<1>7. OneId' /\ IdOfHost' /\ Untouched'
  BY <1>2, <1>6, NamesKept
<1>8. OwnerMapsInverse' /\ Delivered'
  BY <1>2 DEF OwnerMapsInverse, Delivered, netVars
<1> QED BY <1>3, <1>4, <1>7, <1>8

\* The answer to an activation names no id.
LEMMA ResultQuiet ==
  ASSUME NEW m, NEW c
  PROVE  \E S : Result(m, c) \in Seq(S) /\ \A p \in Range(Result(m, c)) : ~Names(p.msg)
<1> DEFINE free == To("COMMU", Notice("FREE", c))
           suc == To("KAFKA", Json("SND2KAFKA", "active_suc", m.key))
           good == To("COMMU", Frame("SEND", c, "ACTV_SUC", m.key))
           bad == To("COMMU", Frame("SEND", c, "ACTV_ERR", None))
           S == {free, suc, good, bad}
<1>1. \A p \in S : ~Names(p.msg)
  BY DEF Names, To, Notice, Json, Frame
<1>2. Result(m, c) = (IF m.body = "active_ack" THEN <<suc, good>> ELSE <<bad>>) \o <<free>>
  BY DEF Result
<1> HIDE DEF free, suc, good, bad
<1>3. <<suc, good>> \in Seq(S) /\ <<bad>> \in Seq(S) /\ <<free>> \in Seq(S)
  OBVIOUS
<1>4. Result(m, c) \in Seq(S)
  BY <1>2, <1>3, ConcatProperties
<1>5. Range(Result(m, c)) \subseteq S
  BY <1>4, RangeOfSeq
<1> QED BY <1>1, <1>4, <1>5

\* The activation module names no id for a channel.
LEMMA ActiveStepOwner ==
  ASSUME Typed, OwnerInv, ActiveStep
  PROVE  OwnerInv'
<1> USE DEF OwnerInv
<1>1. TypedBus /\ "ACTIVE" \in Module
  BY DEF Typed, Module
<1>2. UNCHANGED <<netVars, cr, rcCh, cuo, ruo, cur, ullIndex>>
  BY DEF ActiveStep, netVars, hostVars, authVars, commuVars, updVars, routeVars
<1>3. QuietPosts' /\ \A x \in Queued' : Names(x) => x \in Queued
  <2>1. queue["ACTIVE"] # <<>>
    BY DEF ActiveStep, ActiveHandler, OnChannelBuilded, OnActiveRequest, OnActiveAck,
           OnActiveAckStale, ActOnSendChannelDataFail, ActOnChannelFreed, Ready
  <2>2. CASE Handle("ACTIVE", <<>>)
    BY <1>1, <2>1, <2>2, RangeOfTuple, HandleQuiet
  <2>3. ASSUME NEW p, ~Names(p.msg), Handle("ACTIVE", <<p>>)
        PROVE  QuietPosts' /\ \A x \in Queued' : Names(x) => x \in Queued
    <3>1. <<p>> \in Seq({p}) /\ \A x \in Range(<<p>>) : ~Names(x.msg)
      BY <2>3, RangeOfTuple
    <3> QED BY <1>1, <2>1, <2>3, <3>1, HandleQuiet
  <2>4. CASE \E m, c : Handle("ACTIVE", Result(m, c))
    BY <1>1, <2>1, <2>4, ResultQuiet, HandleQuiet
  <2>5. CASE OnActiveRequest
    <3> DEFINE c == Current("ACTIVE").ch
               err == To("COMMU", Frame("SEND", c, "ACTV_ERR", None))
               ask(u) == To("KAFKA", Json("SND2KAFKA", "active", u))
    <3>1. Handle("ACTIVE", <<err>>) \/ \E u \in Uuid : Handle("ACTIVE", <<ask(u)>>)
      BY <2>5 DEF OnActiveRequest
    <3>2. ~Names(err.msg) /\ \A u \in Uuid : ~Names(ask(u).msg)
      BY DEF Names, To, Json, Frame
    <3> HIDE DEF err, ask
    <3> QED BY <2>3, <3>1, <3>2
  <2>6. CASE ActOnSendChannelDataFail
    <3> DEFINE p == To("COMMU", Notice("FREE", Current("ACTIVE").ch))
    <3>1. Handle("ACTIVE", <<p>>)
      BY <2>6 DEF ActOnSendChannelDataFail
    <3>2. ~Names(p.msg)
      BY DEF Names, To, Notice
    <3> HIDE DEF p
    <3> QED BY <2>3, <3>1, <3>2
  <2> QED BY <2>2, <2>4, <2>5, <2>6
          DEF ActiveStep, ActiveHandler, OnChannelBuilded, OnActiveAck,
              OnActiveAckStale, ActOnChannelFreed
<1>4. OneId' /\ IdOfHost' /\ Untouched'
  BY <1>2, <1>3, SameNet, SameMaps, NamesKept
<1> QED BY <1>2, <1>3, <1>4
        DEF Delivered, OwnerMapsInverse, RouteSound, netVars

\* Nor do the timer, a later post of a handler, or the controller.
LEMMA BusStepOwner ==
  ASSUME Typed, OwnerInv, TimerStep \/ KafkaStep \/ \E m \in Module : PostStep(m)
  PROVE  OwnerInv'
<1> USE DEF OwnerInv
<1>1. TypedBus
  BY DEF Typed
<1>2. UNCHANGED <<netVars, cr, rcCh, cuo, ruo, cur, ullIndex>>
  BY DEF TimerStep, OnTimer, KafkaStep, PostStep, netVars, hostVars, authVars,
         commuVars, updVars, routeVars
<1>3. QuietPosts' /\ \A x \in Queued' : Names(x) => x \in Queued
  <2>1. CASE TimerStep
    BY <2>1 DEF TimerStep, OnTimer, busVars, QuietPosts, Queued
  <2>2. CASE \E m \in Module : PostStep(m)
    BY <1>1, <2>2, DispatchQueued DEF PostStep
  <2>3. ASSUME NEW rest, NEW m, NEW body, queue["KAFKA"] # <<>>,
               rest \in {queue["KAFKA"], Tail(queue["KAFKA"])}, Answer(m, body, rest),
               m \in {"AUTH", "UPDATE", "ACTIVE"}
        PROVE  QuietPosts' /\ \A x \in Queued' : Names(x) => x \in Queued
    <3> DEFINE j == Json("RCVKAFKA", body, Current("KAFKA").key)
    <3>1. /\ queue' = [queue EXCEPT !["KAFKA"] = rest, ![m] = Append(queue[m], j)]
          /\ out' = out
      BY <2>3 DEF Answer
    <3>2. ~Names(j)
      BY DEF Names, Json
    <3> HIDE DEF j
    <3>3. Range(rest) \subseteq Range(queue["KAFKA"])
      BY <1>1, <2>3, RangeTail DEF TypedBus, Module
    <3>4. Range(Append(queue[m], j)) = Range(queue[m]) \cup {j}
      BY <1>1, <2>3, RangeAppend DEF TypedBus, Module
    <3>5. \A n \in Module : Range(queue'[n]) \subseteq Range(queue[n]) \cup {j}
      BY <1>1, <2>3, <3>1, <3>3, <3>4 DEF TypedBus
    <3> QED BY <3>1, <3>2, <3>5 DEF QuietPosts, Queued
  <2>4. ASSUME queue["KAFKA"] # <<>>, Consume
        PROVE  QuietPosts' /\ \A x \in Queued' : Names(x) => x \in Queued
    <3>1. Range(Tail(queue["KAFKA"])) \subseteq Range(queue["KAFKA"])
      BY <1>1, <2>4, RangeTail DEF TypedBus, Module
    <3>2. \A n \in Module : Range(queue'[n]) \subseteq Range(queue[n])
      BY <1>1, <2>4, <3>1 DEF Consume, TypedBus
    <3> QED BY <2>4, <3>2 DEF Consume, QuietPosts, Queued
  <2>5. ASSUME NEW r \in Rid, DealPublish(r)
        PROVE  QuietPosts' /\ \A x \in Queued' : Names(x) => x \in Queued
    <3>1. ~Names(Json("RCVKAFKA", "update", r))
      BY DEF Names, Json
    <3> QED BY <1>1, <2>5, <3>1, PostMsgQueued DEF DealPublish
  <2>6. CASE KafkaAnswer \/ KafkaRepeat
    BY <2>3, <2>6 DEF KafkaAnswer, KafkaRepeat, DealAuthen, DealActive,
                      DealUpdateCheck, Request
  <2>7. CASE KafkaLose \/ UpToDate \/ DealActiveSuc \/ DealUpdateResult
    BY <2>4, <2>7 DEF KafkaLose, UpToDate, DealActiveSuc, DealUpdateResult, Request
  <2> QED BY <2>1, <2>2, <2>5, <2>6, <2>7 DEF KafkaStep, KafkaConsume, KafkaFault
<1>4. OneId' /\ IdOfHost' /\ Untouched'
  BY <1>2, <1>3, SameNet, SameMaps, NamesKept
<1> QED BY <1>2, <1>3, <1>4
        DEF Delivered, OwnerMapsInverse, RouteSound, netVars
-----------------------------------------------------------------------------
(* Steps of the hosts. *)

\* A new connection: the only step that names an id anew, the id of the machine
\* that connects, for a channel that nothing has been said of.
LEMMA ConnectOwner ==
  ASSUME Typed, OwnerInv, NEW h \in Host, Connect(h), UNCHANGED <<authVars, updVars>>
  PROVE  OwnerInv'
<1> USE DEF OwnerInv
<1>1. TypedBus
  BY DEF Typed
<1>2. PICK ip \in IpOf[h] : Accept(FirstFrame(h, ullIndex, ip))
  BY DEF Connect
<1> DEFINE f == FirstFrame(h, ullIndex, ip)
<1>3. /\ ullIndex \in Channel /\ ullIndex' = ullIndex + 1
      /\ wire' = [wire EXCEPT ![ullIndex] = <<f>>]
      /\ inbox' = inbox
      /\ cur' = [cur EXCEPT ![h] = ullIndex]
      /\ PostMsg("COMMU", Notice("NEW", ullIndex))
  <2>1. ullIndex \in Channel
    BY <1>2, DispatcherAssumption DEF Accept, Typed, CommuTypeOK, Channel
  <2>2. cur' = [cur EXCEPT ![h] = ullIndex]
    BY DEF Connect
  <2> QED BY <1>2, <2>1, <2>2 DEF Accept
<1>4. f.ch = ullIndex /\ (Names(f) => h \in Aods /\ f.key = RidOf[h])
  BY DEF FirstFrame, Names, Host
<1>5. UNCHANGED <<cr, cuo, rcCh, ruo>>
  BY DEF authVars, updVars, routeVars
<1> HIDE DEF f
<1>6. QuietPosts' /\ \A x \in Queued' : Names(x) => x \in Queued
  BY <1>1, <1>3, PostMsgQueued, CommuPostsQuiet
<1>7. Range(<<f>>) = {f}
  BY RangeOfTuple
<1>8. \A c \in Channel : Range(wire'[c]) \subseteq Range(wire[c]) \cup {f}
  BY <1>3, <1>7 DEF Typed, TypedNet
<1>9. \A x \in Mail' : Names(x) => x \in Mail \/ x = f
  BY <1>3, <1>6, <1>8 DEF Mail
<1>10. \A c \in Channel, r \in Rid :
         Says(c, r)' => Says(c, r) \/ (c = ullIndex /\ h \in Aods /\ r = RidOf[h])
  BY <1>4, <1>5, <1>9 DEF Says
<1>11. \A r \in Rid : ~Says(ullIndex, r)
  BY <1>3 DEF Untouched, Channel
<1>12. \A g \in Host : cur[g] # ullIndex
  BY <1>3 DEF Untouched, Channel
<1>13. OneId'
  BY <1>10, <1>11 DEF OneId
<1>14. IdOfHost'
  <2> SUFFICES ASSUME NEW g \in Host, NEW c \in Channel, NEW r \in Rid,
                      cur'[g] = c, Says(c, r)'
               PROVE  g \in Aods /\ RidOf[g] = r
    BY DEF IdOfHost
  <2>1. cur \in [Host -> Channel \cup {None}]
    BY DEF Typed, HostTypeOK
  <2>2. CASE g = h
    BY <1>3, <1>10, <1>11, <2>1, <2>2
  <2>3. CASE g # h
    <3>1. cur[g] = c /\ c # ullIndex
      BY <1>3, <1>12, <2>1, <2>3
    <3> QED BY <1>10, <3>1 DEF IdOfHost
  <2> QED BY <2>2, <2>3
<1>15. Untouched'
  <2> SUFFICES ASSUME NEW c \in Channel, c >= ullIndex + 1
               PROVE  (\A r \in Rid : ~Says(c, r)') /\ \A g \in Host : cur'[g] # c
    BY <1>3 DEF Untouched
  <2>1. c >= ullIndex /\ c # ullIndex
    BY <1>3 DEF Channel
  <2>2. \A r \in Rid : ~Says(c, r)'
    BY <1>10, <2>1 DEF Untouched
  <2>3. \A g \in Host : cur'[g] # c
    BY <1>3, <2>1 DEF Untouched, Typed, HostTypeOK
  <2> QED BY <2>2, <2>3
<1>16. Delivered' /\ OwnerMapsInverse' /\ RouteSound'
  BY <1>3, <1>5 DEF Delivered, OwnerMapsInverse, RouteSound
<1> QED BY <1>6, <1>13, <1>14, <1>15, <1>16

\* What a step of a host other than a connection does to the connections.
NetShrinks ==
  /\ UNCHANGED <<busVars, ullIndex>>
  /\ \A h \in Host : cur'[h] \in {cur[h], None}
  /\ \A c \in Channel : Range(inbox'[c]) \subseteq Range(inbox[c])
  /\ \A c \in Channel : \A x \in Range(wire'[c]) : Names(x) => x \in Range(wire[c])

\* Such a step names no id anew.
LEMMA ShrinkOwner ==
  ASSUME OwnerInv, NetShrinks, UNCHANGED <<authVars, updVars>>
  PROVE  OwnerInv'
<1> USE DEF OwnerInv
<1>1. UNCHANGED <<queue, out, cr, cuo, rcCh, ruo, ullIndex>>
  BY DEF NetShrinks, busVars, authVars, updVars, routeVars
<1>2. MailBacked
  BY <1>1 DEF MailBacked, Mail, Queued, NetShrinks
<1>3. OneId' /\ IdOfHost' /\ Untouched'
  BY <1>1, <1>2, SameMaps, NamesKept DEF NetShrinks
<1> QED BY <1>1, <1>3
        DEF QuietPosts, Delivered, OwnerMapsInverse, RouteSound, NetShrinks

\* The end of a connection at the host.
LEMMA LeaveShrinks ==
  ASSUME Typed, NEW h \in Host, NEW how, NEW state, Leave(h, how, state),
         UNCHANGED busVars
  PROVE  NetShrinks
<1>1. /\ inbox' = [inbox EXCEPT ![cur[h]] = <<>>]
      /\ cur' = [cur EXCEPT ![h] = None]
      /\ UNCHANGED <<wire, ullIndex>>
  BY DEF Leave, commuVars
<1>2. \A c \in Channel : Range(inbox'[c]) \subseteq Range(inbox[c])
  BY <1>1, RangeOfTuple DEF Typed, TypedNet
<1>3. \A g \in Host : cur'[g] \in {cur[g], None}
  BY <1>1 DEF Typed, HostTypeOK
<1> QED BY <1>1, <1>2, <1>3 DEF NetShrinks

\* A host takes a frame, or reports: what it sends names no id.
LEMMA ReportShrinks ==
  ASSUME Typed, NEW h \in Host,
         \/ cur[h] # None /\ inbox[cur[h]] # <<>> /\ \E b \in {"-", "UMI"} : Reply(h, b)
         \/ ReportResult(h)
  PROVE  NetShrinks
<1>1. /\ UNCHANGED <<busVars, ullIndex, cur>>
      /\ \/ wire' = wire
         \/ \E b \in {"UMI", "UDR"} :
              wire' = [wire EXCEPT ![cur[h]] =
                         Append(wire[cur[h]], Frame("RECV", cur[h], b, None))]
      /\ inbox' \in {inbox, [inbox EXCEPT ![cur[h]] = Tail(inbox[cur[h]])]}
  <2>1. CASE \E b \in {"-", "UMI"} : Reply(h, b)
    BY <2>1 DEF Reply, commuVars, Typed, TypedNet
  <2>2. CASE ReportResult(h)
    BY <2>2 DEF ReportResult, commuVars
  <2> QED BY <2>1, <2>2
<1>2. \A c \in Channel : Range(inbox'[c]) \subseteq Range(inbox[c])
  <2>1. CASE ReportResult(h)
    BY <2>1 DEF ReportResult
  <2>2. CASE cur[h] # None /\ inbox[cur[h]] # <<>>
    <3>1. cur[h] \in Channel
      BY <2>2 DEF Typed, HostTypeOK
    <3>2. Range(Tail(inbox[cur[h]])) \subseteq Range(inbox[cur[h]])
      BY <2>2, <3>1, RangeTail DEF Typed, TypedNet
    <3> QED BY <1>1, <3>1, <3>2 DEF Typed, TypedNet
  <2> QED BY <2>1, <2>2
<1>3. \A c \in Channel : \A x \in Range(wire'[c]) : Names(x) => x \in Range(wire[c])
  <2>1. CASE wire' = wire
    BY <2>1
  <2>2. ASSUME NEW b \in {"UMI", "UDR"},
               wire' = [wire EXCEPT ![cur[h]] =
                          Append(wire[cur[h]], Frame("RECV", cur[h], b, None))]
        PROVE  \A c \in Channel : \A x \in Range(wire'[c]) :
                 Names(x) => x \in Range(wire[c])
    <3> DEFINE f == Frame("RECV", cur[h], b, None)
    <3>1. ~Names(f)
      BY DEF Names, Frame
    <3>2. wire' = [wire EXCEPT ![cur[h]] = Append(wire[cur[h]], f)]
      BY <2>2
    <3> HIDE DEF f
    <3>3. \A c \in Channel : Range(Append(wire[c], f)) = Range(wire[c]) \cup {f}
      BY RangeAppend DEF Typed, TypedNet
    <3> QED BY <3>1, <3>2, <3>3 DEF Typed, TypedNet
  <2> QED BY <1>1, <2>1, <2>2
<1> QED BY <1>1, <1>2, <1>3 DEF NetShrinks

\* Each step of a host, and the end of a half-open connection.
LEMMA HostStepOwner ==
  ASSUME Typed, OwnerInv,
         (\E h \in Host : HostStep(h)) \/ (\E c \in Channel : GiveUpStep(c))
  PROVE  OwnerInv'
<1>1. ASSUME NEW h \in Host, HostStep(h)
      PROVE  OwnerInv'
  <2>1. UNCHANGED <<authVars, updVars>>
    BY <1>1 DEF HostStep
  <2>2. CASE Connect(h)
    BY <2>1, <2>2, ConnectOwner
  <2>3. CASE Disconnect(h) \/ SeeClosed(h)
    BY <2>1, <2>3, LeaveShrinks, ShrinkOwner DEF Disconnect, SeeClosed
  <2>4. CASE OnAuthRefused(h) \/ OnActivated(h)
    BY <2>1, <2>4, LeaveShrinks, ShrinkOwner DEF OnAuthRefused, OnActivated
  <2>5. CASE OnAuthSucceeded(h) \/ OnUpdate(h) \/ OnKeepAlive(h) \/ ReportResult(h)
    <3>1. \/ cur[h] # None /\ inbox[cur[h]] # <<>> /\ \E b \in {"-", "UMI"} : Reply(h, b)
          \/ ReportResult(h)
      BY <2>5 DEF OnAuthSucceeded, OnUpdate, OnKeepAlive, Answered
    <3> QED BY <2>1, <3>1, ReportShrinks, ShrinkOwner
  <2> QED BY <1>1, <2>2, <2>3, <2>4, <2>5 DEF HostStep, HostReceive
<1>2. ASSUME NEW c \in Channel, GiveUpStep(c)
      PROVE  OwnerInv'
  <2>1. NetShrinks
    BY <1>2 DEF GiveUpStep, GiveUp, NetShrinks, commuVars, hostVars
  <2> QED BY <1>2, <2>1, ShrinkOwner DEF GiveUpStep
<1> QED BY <1>1, <1>2
-----------------------------------------------------------------------------
(* The theorems. *)

\* Nothing is said of any channel at the start.
LEMMA InitOwner == Init => OwnerInv
<1> SUFFICES ASSUME Init PROVE OwnerInv
  OBVIOUS
<1>1. None \notin Rid /\ None \notin Channel
  BY DispatcherAssumption DEF Channel
<1>2. /\ \A m \in Module : Range(queue[m]) = {} /\ Range(out[m]) = {}
      /\ \A c \in Channel : Range(wire[c]) = {} /\ Range(inbox[c]) = {}
  BY RangeOfTuple DEF Init, BusInit, CommuInit
<1>3. Mail = {}
  BY <1>2 DEF Mail, Queued
<1>4. /\ \A c \in Channel : cr[c] = None /\ cuo[c] = None
      /\ \A r \in Rid : rcCh[r] = None /\ ruo[r] = None
      /\ \A h \in Host : cur[h] = None
  BY DEF Init, AuthInit, UpdInit, HostInit
<1>5. \A c \in Channel, r \in Rid : ~Says(c, r)
  BY <1>1, <1>3, <1>4 DEF Says
<1> QED BY <1>1, <1>2, <1>4, <1>5
        DEF OwnerInv, OneId, IdOfHost, Untouched, QuietPosts, Delivered,
            OwnerMapsInverse, RouteSound

\* Every step of the system keeps the invariant.
LEMMA NextOwner == Typed /\ OwnerInv /\ [Next]_vars => OwnerInv'
<1> SUFFICES ASSUME Typed, OwnerInv, [Next]_vars PROVE OwnerInv'
  OBVIOUS
<1>1. CASE UNCHANGED vars
  <2>1. NetShrinks /\ UNCHANGED <<authVars, updVars>>
    BY <1>1 DEF vars, NetShrinks, commuVars, netVars, hostVars
  <2> QED BY <2>1, ShrinkOwner
<1>2. CASE CommuStep
  BY <1>2, CommuStepOwner
<1>3. CASE AuthStep
  BY <1>3, AuthStepOwner
<1>4. CASE UpdateStep
  BY <1>4, UpdateStepOwner
<1>5. CASE ActiveStep
  BY <1>5, ActiveStepOwner
<1>6. CASE TimerStep \/ KafkaStep \/ \E m \in Module : PostStep(m)
  BY <1>6, BusStepOwner
<1>7. CASE \E c \in Channel : SelectStep(c)
  BY <1>7, SelectStepOwner
<1>8. CASE (\E h \in Host : HostStep(h)) \/ (\E c \in Channel : GiveUpStep(c))
  BY <1>8, HostStepOwner
<1> QED BY <1>1, <1>2, <1>3, <1>4, <1>5, <1>6, <1>7, <1>8 DEF Next

\* Whatever names an id for a channel, in any map or message of aodc, names the
\* id of the machine behind it.
THEOREM OwnerAlways == Spec => []OwnerInv
BY InitOwner, NextOwner, TypedAlways, PTL DEF Spec

\* m_mapRC and m_mapCR of the authentication module are always inverse to each
\* other: the release of a channel finds and erases every binding to it.
THEOREM OwnerMapsAgree == Spec => []OwnerMapsInverse
<1>1. OwnerInv => OwnerMapsInverse
  BY DEF OwnerInv
<1> QED BY <1>1, OwnerAlways, PTL

\* A route of the update module always leads to a channel that reports for the
\* same id, although m_mapRuo and m_mapCuo may disagree the other way round.
THEOREM RoutesAgree == Spec => []RouteSound
<1>1. OwnerInv => RouteSound
  BY DEF OwnerInv
<1> QED BY <1>1, OwnerAlways, PTL

\* A channel holds an id only for a machine that has it.
THEOREM OwnersAreGenuine == Spec => []OwnerHasRid
<1>1. Typed /\ OwnerInv => OwnerHasRid
  <2> SUFFICES ASSUME Typed, OwnerInv, NEW r \in Rid, rcCh[r] # None,
                      NEW h \in MachineOf(rcCh[r])
               PROVE  h \in Aods /\ RidOf[h] = r
    BY DEF OwnerHasRid
  <2>1. rcCh[r] \in Channel /\ h \in Host /\ cur[h] = rcCh[r]
    BY DEF Typed, AuthTypeOK, MachineOf
  <2>2. Says(rcCh[r], r)
    BY <2>1 DEF OwnerInv, OwnerMapsInverse, Says
  <2> QED BY <2>1, <2>2 DEF OwnerInv, IdOfHost
<1> QED BY <1>1, TypedAlways, OwnerAlways, PTL

\* An update that is written to a connection is for the machine behind it, even
\* when the route was taken from the map long before.
THEOREM UpdatesReachTheirHost == Spec => []PushToRightHost
<1>1. Typed /\ OwnerInv => PushToRightHost
  <2> SUFFICES ASSUME Typed, OwnerInv, NEW c \in Channel, NEW i \in DOMAIN inbox[c],
                      inbox[c][i].body = "UMI", NEW h \in MachineOf(c)
               PROVE  h \in Aods /\ RidOf[h] = inbox[c][i].key
    BY DEF PushToRightHost
  <2> DEFINE m == inbox[c][i]
  <2>1. m \in Range(inbox[c]) /\ h \in Host /\ cur[h] = c
    BY DEF Range, MachineOf
  <2>2. m.kind = "SEND" /\ m.ch = c /\ m \in Mail
    BY <2>1 DEF OwnerInv, Delivered, Mail
  <2>3. Says(c, m.key)
    BY <2>2 DEF Says, Names
  <2>4. m.key \in Rid
    <3>1. inbox[c] \in Seq(CommuMsg)
      BY DEF Typed, TypedNet
    <3>2. m \in CommuMsg
      BY <3>1
    <3> QED BY <3>2 DEF CommuMsg
  <2> QED BY <2>1, <2>3, <2>4 DEF OwnerInv, IdOfHost
<1> QED BY <1>1, TypedAlways, OwnerAlways, PTL

\* The holder of an id is displaced only when the end of its channel is handled:
\* no request, of a clone or of the machine itself, takes the id over.
THEOREM OwnerKept == Spec => OwnerKeptUntilReleased
<1> DEFINE Kept ==
      \A r \in Rid :
        rcCh[r] # None /\ rcCh'[r] # rcCh[r]
          => /\ rcCh'[r] = None
             /\ Ready("AUTH", "FREED") \/ Ready("AUTH", "FAIL")
             /\ Current("AUTH").ch = rcCh[r]
<1>1. Typed /\ OwnerInv /\ [Next]_vars => [Kept]_vars
  <2> SUFFICES ASSUME Typed, OwnerInv, Next, NEW r \in Rid,
                      rcCh[r] # None, rcCh'[r] # rcCh[r]
               PROVE  /\ rcCh'[r] = None
                      /\ Ready("AUTH", "FREED") \/ Ready("AUTH", "FAIL")
                      /\ Current("AUTH").ch = rcCh[r]
    OBVIOUS
  <2>1. AuthStep
    BY DEF Next, CommuStep, UpdateStep, ActiveStep, TimerStep, PostStep, SelectStep,
           GiveUpStep, HostStep, KafkaStep, authVars
  <2>2. ~BindChannel
    BY BindInverse DEF OwnerInv
  <2>3. AuthOnSendChannelDataFail \/ AuthOnChannelFreed
    BY <2>1, <2>2 DEF AuthStep, AuthHandler, RejectCode, RejectOther, DropBoth,
                      OnAuthAck, authVars
  <2>4. /\ AuthForget(Current("AUTH").ch)
        /\ Ready("AUTH", "FREED") \/ Ready("AUTH", "FAIL")
    BY <2>3 DEF AuthOnSendChannelDataFail, AuthOnChannelFreed
  <2>5. Current("AUTH").ch \in Channel
    BY <2>4, AuthCurrent DEF Ready, Typed
  <2> QED BY <2>4, <2>5, AuthForgetInverse DEF OwnerInv
<1> QED BY <1>1, TypedAlways, OwnerAlways, PTL DEF Spec, OwnerKeptUntilReleased
=============================================================================
