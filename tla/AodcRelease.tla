---------------------------- MODULE AodcRelease ----------------------------
(***************************************************************************)
(* No entry outlives its channel for good.                                 *)
(*                                                                         *)
(* A module learns of the end of a channel from a message, FREED or FAIL,  *)
(* and may make an entry for the channel later than the communication      *)
(* module has dropped it.  What saves the maps is the order of messages: a *)
(* request is put in a queue while the channel is in the select group, so  *)
(* the message about its end comes behind it in the same queue; and an     *)
(* announcement of an authenticated channel is posted ahead of an answer   *)
(* whose sending fails when the channel is gone.                           *)
(***************************************************************************)
EXTENDS AodcOwner

\* No element of s is in S.
Lacks(s, S) == \A i \in DOMAIN s : s[i] \notin S

\* At most one element of s is in S.
Once(s, S) == \A i, j \in DOMAIN s : s[i] \in S /\ s[j] \in S => i = j

\* Behind every element of s in A comes one in B.
Closes(s, A, B) ==
  \A i \in DOMAIN s : s[i] \in A => \E j \in DOMAIN s : j > i /\ s[j] \in B
-----------------------------------------------------------------------------
(* What posts are made. *)

\* Messages that only a thread outside the modules makes.
Outside == {"NEW", "DEL", "RECV", "RCVKAFKA"}

\* What module m may post.
MayPost(m) ==
  {p \in GoodPost :
     /\ p.msg.kind \notin Outside
     /\ p.msg.kind = "AUTH_SUC" \/ p.msg.body = "AUTH_SUC" => m = "AUTH"
     /\ p.msg.kind \in {"FREED", "FAIL"} => m = "COMMU"
     /\ ActvFrame(p.msg) => m = "ACTIVE"}

\* What a handler posts after its first post is no announcement.
LaterPost(m) == {p \in MayPost(m) : p.msg.kind # "AUTH_SUC"}

PostsAllowed == \A m \in Module : out[m] \in Seq(LaterPost(m))

\* What is left of queue n when module m has taken its message.
Left(m, n) == IF n = m THEN Tail(queue[n]) ELSE queue[n]

\* Queue n may lose its head and get one of the messages in E.
Gets(n, E) ==
  \E s \in {queue[n]} \cup (IF queue[n] = <<>> THEN {} ELSE {Tail(queue[n])}) :
    queue'[n] = s \/ \E e \in E : queue'[n] = Append(s, e)

\* Queue n may get one of the messages in E.
Adds(n, E) == queue'[n] = queue[n] \/ \E e \in E : queue'[n] = Append(queue[n], e)
-----------------------------------------------------------------------------
(* Sequences. *)

\* Positions of a sequence whose head is taken.
LEMMA TailAt ==
  ASSUME NEW T, NEW s \in Seq(T), s # <<>>
  PROVE  /\ Tail(s) \in Seq(T) /\ Head(s) = s[1]
         /\ DOMAIN s = 1 .. Len(s) /\ Len(s) \in Nat \ {0}
         /\ DOMAIN Tail(s) = 1 .. Len(s) - 1
         /\ \A i \in 1 .. Len(s) - 1 : Tail(s)[i] = s[i + 1]
OBVIOUS

\* Positions of a sequence to which an element is added.
LEMMA AppendAt ==
  ASSUME NEW T, NEW s \in Seq(T), NEW e
  PROVE  /\ DOMAIN s = 1 .. Len(s) /\ Len(s) \in Nat
         /\ DOMAIN Append(s, e) = 1 .. Len(s) + 1
         /\ \A i \in 1 .. Len(s) : Append(s, e)[i] = s[i]
         /\ Append(s, e)[Len(s) + 1] = e
<1>1. s \in Seq(T \cup {e}) /\ e \in T \cup {e}
  OBVIOUS
<1> QED BY <1>1

\* What taking the head of a sequence keeps and what it tells of the rest.
LEMMA TailKeeps ==
  ASSUME NEW T, NEW s \in Seq(T), s # <<>>, NEW A, NEW B
  PROVE  /\ Lacks(s, A) => Lacks(Tail(s), A) /\ Head(s) \notin A
         /\ Once(s, A) => Once(Tail(s), A)
         /\ Once(s, A) /\ Head(s) \in A => Lacks(Tail(s), A)
         /\ Closes(s, A, B) => Closes(Tail(s), A, B)
         /\ Closes(s, A, B) /\ Head(s) \in A => ~Lacks(Tail(s), B)
         /\ ~Lacks(s, A) /\ Head(s) \notin A => ~Lacks(Tail(s), A)
<1> DEFINE t == Tail(s)
<1>1. /\ Head(s) = s[1]
      /\ DOMAIN s = 1 .. Len(s) /\ Len(s) \in Nat \ {0}
      /\ DOMAIN t = 1 .. Len(s) - 1
      /\ \A i \in 1 .. Len(s) - 1 : t[i] = s[i + 1]
  BY TailAt
<1> HIDE DEF t
<1>2. \A i \in DOMAIN t : i + 1 \in DOMAIN s /\ t[i] = s[i + 1]
  BY <1>1
<1>3. \A i \in DOMAIN s : i = 1 \/ (i - 1 \in DOMAIN t /\ t[i - 1] = s[i])
  BY <1>1
<1>4. Lacks(s, A) => Lacks(t, A) /\ Head(s) \notin A
  BY <1>1, <1>2 DEF Lacks
<1>5. Once(s, A) => Once(t, A)
  BY <1>1, <1>2 DEF Once
<1>6. Once(s, A) /\ Head(s) \in A => Lacks(t, A)
  BY <1>1, <1>2 DEF Once, Lacks
<1>7. Closes(s, A, B) => Closes(t, A, B)
  <2> SUFFICES ASSUME Closes(s, A, B), NEW i \in DOMAIN t, t[i] \in A
               PROVE  \E j \in DOMAIN t : j > i /\ t[j] \in B
    BY DEF Closes
  <2>1. PICK j \in DOMAIN s : j > i + 1 /\ s[j] \in B
    BY <1>2 DEF Closes
  <2> QED BY <1>1, <1>3, <2>1
<1>8. Closes(s, A, B) /\ Head(s) \in A => ~Lacks(t, B)
  <2> SUFFICES ASSUME Closes(s, A, B), s[1] \in A PROVE ~Lacks(t, B)
    BY <1>1
  <2>1. PICK j \in DOMAIN s : j > 1 /\ s[j] \in B
    BY <1>1 DEF Closes
  <2> QED BY <1>1, <1>3, <2>1 DEF Lacks
<1>9. ~Lacks(s, A) /\ Head(s) \notin A => ~Lacks(t, A)
  BY <1>1, <1>3 DEF Lacks
<1> QED BY <1>4, <1>5, <1>6, <1>7, <1>8, <1>9 DEF t

\* What adding an element to a sequence keeps.
LEMMA AppendKeeps ==
  ASSUME NEW T, NEW s \in Seq(T), NEW e, NEW A, NEW B
  PROVE  /\ Lacks(s, A) /\ e \notin A => Lacks(Append(s, e), A)
         /\ ~Lacks(s, A) \/ e \in A => ~Lacks(Append(s, e), A)
         /\ Once(s, A) /\ (e \notin A \/ Lacks(s, A)) => Once(Append(s, e), A)
         /\ Closes(s, A, B) /\ e \notin A => Closes(Append(s, e), A, B)
         /\ e \in B /\ e \notin A => Closes(Append(s, e), A, B)
<1> DEFINE t == Append(s, e)
<1>1. /\ DOMAIN s = 1 .. Len(s) /\ Len(s) \in Nat
      /\ DOMAIN t = 1 .. Len(s) + 1
      /\ \A i \in 1 .. Len(s) : t[i] = s[i]
      /\ t[Len(s) + 1] = e
  BY AppendAt
<1> HIDE DEF t
<1>2. \A i \in DOMAIN t : t[i] = e \/ (i \in DOMAIN s /\ t[i] = s[i])
  BY <1>1
<1>3. \A i \in DOMAIN s : i \in DOMAIN t /\ t[i] = s[i] /\ Len(s) + 1 > i
  BY <1>1
<1>4. Len(s) + 1 \in DOMAIN t
  BY <1>1
<1>5. Lacks(s, A) /\ e \notin A => Lacks(t, A)
  BY <1>2 DEF Lacks
<1>6. ~Lacks(s, A) \/ e \in A => ~Lacks(t, A)
  BY <1>1, <1>3, <1>4 DEF Lacks
<1>7. Once(s, A) /\ (e \notin A \/ Lacks(s, A)) => Once(t, A)
  BY <1>1 DEF Once, Lacks
<1>8. Closes(s, A, B) /\ e \notin A => Closes(t, A, B)
  BY <1>1, <1>2, <1>3 DEF Closes
<1>9. e \in B /\ e \notin A => Closes(t, A, B)
  <2> SUFFICES ASSUME e \in B, e \notin A, NEW i \in DOMAIN t, t[i] \in A
               PROVE  \E j \in DOMAIN t : j > i /\ t[j] \in B
    BY DEF Closes
  <2>1. i \in DOMAIN s
    BY <1>2
  <2> QED BY <1>1, <1>3, <1>4, <2>1
<1> QED BY <1>5, <1>6, <1>7, <1>8, <1>9 DEF t

\* The same for a set of which a sequence has one element at most.
LEMMA AppendOnce ==
  ASSUME NEW T, NEW s \in Seq(T), NEW e, NEW A, Once(s, A), e \notin A \/ Lacks(s, A)
  PROVE  /\ Once(Append(s, e), A)
         /\ e \notin A /\ Lacks(s, A) => Lacks(Append(s, e), A)
BY AppendKeeps
-----------------------------------------------------------------------------
(* The bus. *)

\* A queue that gets none of the messages in A keeps what is said of A.
LEMMA GetsKeeps ==
  ASSUME TypedBus, NEW n \in Module, NEW E, Gets(n, E), NEW A, NEW B, E \cap A = {}
  PROVE  /\ Lacks(queue[n], A) => Lacks(queue'[n], A)
         /\ Once(queue[n], A) => Once(queue'[n], A)
         /\ Closes(queue[n], A, B) => Closes(queue'[n], A, B)
<1>1. queue[n] \in Seq(Msg)
  BY DEF TypedBus
<1>2. PICK s \in {queue[n]} \cup (IF queue[n] = <<>> THEN {} ELSE {Tail(queue[n])}) :
        queue'[n] = s \/ \E e \in E : queue'[n] = Append(s, e)
  BY DEF Gets
<1>3. s = queue[n] \/ (queue[n] # <<>> /\ s = Tail(queue[n]))
  BY <1>2
<1>4. /\ s \in Seq(Msg)
      /\ Lacks(queue[n], A) => Lacks(s, A)
      /\ Once(queue[n], A) => Once(s, A)
      /\ Closes(queue[n], A, B) => Closes(s, A, B)
  <2>1. CASE s = queue[n]
    BY <1>1, <2>1
  <2>2. CASE queue[n] # <<>> /\ s = Tail(queue[n])
    <3>1. Tail(queue[n]) \in Seq(Msg)
      BY <1>1, <2>2
    <3> QED BY <1>1, <2>2, <3>1, TailKeeps
  <2> QED BY <1>3, <2>1, <2>2
<1>5. CASE queue'[n] = s
  BY <1>4, <1>5
<1>6. ASSUME NEW e \in E, queue'[n] = Append(s, e)
      PROVE  /\ Lacks(s, A) => Lacks(queue'[n], A)
             /\ Once(s, A) => Once(queue'[n], A)
             /\ Closes(s, A, B) => Closes(queue'[n], A, B)
  <2>1. e \notin A
    BY <1>6
  <2> QED BY <1>4, <1>6, <2>1, AppendKeeps
<1> QED BY <1>2, <1>4, <1>5, <1>6

\* What a handler makes of the queues and of its posts.
LEMMA HandleEffect ==
  ASSUME TypedBus, NEW m \in Module, queue[m] # <<>>, NEW T, NEW posts \in Seq(T),
         Handle(m, posts)
  PROVE  /\ posts = <<>> =>
              out' = out /\ \A n \in Module : queue'[n] = Left(m, n)
         /\ posts # <<>> =>
              /\ out' = [out EXCEPT ![m] = Tail(posts)]
              /\ \A n \in Module :
                   queue'[n] = IF n = Head(posts).to
                               THEN Append(Left(m, n), Head(posts).msg)
                               ELSE Left(m, n)
<1> DEFINE rest == [queue EXCEPT ![m] = Tail(@)]
<1>1. DOMAIN rest = Module /\ \A n \in Module : rest[n] = Left(m, n)
  BY DEF TypedBus, Left
<1>2. /\ posts = <<>> => queue' = rest /\ out' = out
      /\ posts # <<>> => queue' = Posted(rest, Head(posts))
                         /\ out' = [out EXCEPT ![m] = Tail(posts)]
  BY DEF Handle
<1> HIDE DEF rest
<1>3. posts # <<>> =>
        queue' = [rest EXCEPT ![Head(posts).to] =
                    Append(rest[Head(posts).to], Head(posts).msg)]
  BY <1>2 DEF Posted
<1> QED BY <1>1, <1>2, <1>3

\* What a queue is left with.
LEMMA LeftIs ==
  ASSUME TypedBus, NEW m \in Module, queue[m] # <<>>, NEW n \in Module
  PROVE  /\ Left(m, n) \in Seq(Msg)
         /\ Left(m, n) \in {queue[n]} \cup (IF queue[n] = <<>> THEN {} ELSE {Tail(queue[n])})
<1>1. queue[n] \in Seq(Msg)
  BY DEF TypedBus
<1>2. queue[n] # <<>> => Tail(queue[n]) \in Seq(Msg)
  BY <1>1
<1> QED BY <1>1, <1>2 DEF Left

\* The messages module m posts.
MailOf(m) == {p.msg : p \in MayPost(m)}

\* A handler that posts what its module may keeps the queues within bounds.
LEMMA HandleGets ==
  ASSUME TypedBus, PostsAllowed, NEW m \in Module, queue[m] # <<>>,
         NEW posts \in Seq(MayPost(m)), posts # <<>> => Tail(posts) \in Seq(LaterPost(m)),
         Handle(m, posts)
  PROVE  /\ PostsAllowed'
         /\ \A n \in Module : Gets(n, MailOf(m)) /\ (n # m => Adds(n, MailOf(m)))
         /\ \A n \in Module : n # m => out'[n] = out[n]
<1>1. posts # <<>> => Head(posts).msg \in MailOf(m)
  BY DEF MailOf
<1>2. PostsAllowed'
  <2>1. out' = out \/ (posts # <<>> /\ out' = [out EXCEPT ![m] = Tail(posts)])
    BY HandleEffect
  <2> QED BY <2>1 DEF PostsAllowed, TypedBus
<1>3. ASSUME NEW n \in Module
      PROVE  Gets(n, MailOf(m)) /\ (n # m => Adds(n, MailOf(m)) /\ out'[n] = out[n])
  <2>1. \/ queue'[n] = Left(m, n)
        \/ posts # <<>> /\ queue'[n] = Append(Left(m, n), Head(posts).msg)
    BY HandleEffect
  <2>2. n # m => Left(m, n) = queue[n]
    BY DEF Left
  <2>3. out' = out \/ out' = [out EXCEPT ![m] = Tail(posts)]
    BY HandleEffect
  <2>4. n # m => out'[n] = out[n]
    BY <2>3 DEF TypedBus
  <2> QED BY <1>1, <2>1, <2>2, <2>4, LeftIs DEF Gets, Adds
<1> QED BY <1>2, <1>3

\* So does a later post.
LEMMA DispatchGets ==
  ASSUME TypedBus, PostsAllowed, NEW m \in Module, Dispatch(m)
  PROVE  /\ PostsAllowed'
         /\ Head(out[m]) \in LaterPost(m)
         /\ out' = [out EXCEPT ![m] = Tail(out[m])]
         /\ \A n \in Module :
              queue'[n] = IF n = Head(out[m]).to THEN Append(queue[n], Head(out[m]).msg)
                          ELSE queue[n]
         /\ \A n \in Module : Gets(n, MailOf(m)) /\ Adds(n, {Head(out[m]).msg})
<1>1. /\ out[m] # <<>> /\ out[m] \in Seq(LaterPost(m))
      /\ queue' = Posted(queue, Head(out[m]))
      /\ out' = [out EXCEPT ![m] = Tail(out[m])]
  BY DEF Dispatch, PostsAllowed
<1>2. Head(out[m]) \in LaterPost(m) /\ Tail(out[m]) \in Seq(LaterPost(m))
  BY <1>1
<1>3. PostsAllowed'
  BY <1>1, <1>2 DEF PostsAllowed, TypedBus
<1>4. \A n \in Module :
        queue'[n] = IF n = Head(out[m]).to THEN Append(queue[n], Head(out[m]).msg)
                    ELSE queue[n]
  BY <1>1 DEF Posted, TypedBus
<1>5. Head(out[m]).msg \in MailOf(m)
  BY <1>2 DEF MailOf, LaterPost
<1> QED BY <1>1, <1>2, <1>3, <1>4, <1>5 DEF Gets, Adds

\* And a message from a thread that is no module.
LEMMA PostMsgGets ==
  ASSUME TypedBus, NEW m \in Module, NEW msg, PostMsg(m, msg)
  PROVE  /\ out' = out
         /\ queue'[m] = Append(queue[m], msg)
         /\ \A n \in Module : n # m => queue'[n] = queue[n]
         /\ \A n \in Module : \A E : msg \in E => Gets(n, E) /\ Adds(n, E)
<1>1. /\ out' = out
      /\ queue' = [queue EXCEPT ![m] = Append(queue[m], msg)]
  BY DEF PostMsg, Posted, To
<1>2. /\ queue'[m] = Append(queue[m], msg)
      /\ \A n \in Module : n # m => queue'[n] = queue[n]
  BY <1>1 DEF TypedBus
<1> QED BY <1>1, <1>2 DEF Gets, Adds
-----------------------------------------------------------------------------
(* What each module posts. *)

\* The handler of module m posts what it may.
Acts(m) ==
  /\ queue[m] # <<>>
  /\ \E posts \in Seq(MayPost(m)) :
       /\ Handle(m, posts)
       /\ posts # <<>> => Tail(posts) \in Seq(LaterPost(m))

\* Then the queues stay within bounds.
LEMMA ActsGets ==
  ASSUME TypedBus, PostsAllowed, NEW m \in Module, Acts(m)
  PROVE  /\ PostsAllowed'
         /\ \A n \in Module : Gets(n, MailOf(m)) /\ (n # m => Adds(n, MailOf(m)))
         /\ \A n \in Module : n # m => out'[n] = out[n]
BY HandleGets DEF Acts

\* A handler that announces nothing.
LEMMA ActsLater ==
  ASSUME NEW m, queue[m] # <<>>, NEW posts \in Seq(LaterPost(m)), Handle(m, posts)
  PROVE  Acts(m)
<1>1. LaterPost(m) \subseteq MayPost(m)
  BY DEF LaterPost
<1>2. posts \in Seq(MayPost(m)) /\ (posts # <<>> => Tail(posts) \in Seq(LaterPost(m)))
  BY <1>1, SeqMonotonic
<1> QED BY <1>2 DEF Acts

\* The posts of the modules.
LEMMA PostsMayBe ==
  ASSUME NEW c \in Channel
  PROVE  /\ To("ACTIVE", Notice("BUILDED", c)) \in LaterPost("COMMU")
         /\ \A k \in {"FREED", "FAIL"}, n \in {"ACTIVE", "AUTH", "UPDATE"} :
              To(n, Notice(k, c)) \in LaterPost("COMMU")
         /\ \A m : To("COMMU", Notice("FREE", c)) \in LaterPost(m)
         /\ To("COMMU", Frame("SEND", c, "ACTV_ERR", None)) \in LaterPost("ACTIVE")
         /\ \A u \in Uuid :
              /\ To("COMMU", Frame("SEND", c, "ACTV_SUC", u)) \in LaterPost("ACTIVE")
              /\ \A b \in {"active", "active_suc"} :
                   To("KAFKA", Json("SND2KAFKA", b, u)) \in LaterPost("ACTIVE")
         /\ \A r \in Rid :
              /\ \A b \in {"AUTH_SUC", "AUTH_FAI", "AUTH_DIF"} :
                   Send(c, b, r) \in LaterPost("AUTH")
              /\ ToKafka("auth", r) \in LaterPost("AUTH")
              /\ To("UPDATE", Frame("AUTH_SUC", c, "-", r)) \in MayPost("AUTH")
              /\ To("COMMU", Frame("SEND", c, "UMI", r)) \in LaterPost("UPDATE")
              /\ \A b \in {"check_update", "update_result"} :
                   To("KAFKA", Json("SND2KAFKA", b, r)) \in LaterPost("UPDATE")
<1> USE DEF LaterPost, MayPost, To, Notice, Frame, Json, Outside, ActvFrame
<1>1. To("ACTIVE", Notice("BUILDED", c)) \in LaterPost("COMMU")
  BY NoticeGood, ToGood DEF MsgFor, Module
<1>2. \A k \in {"FREED", "FAIL"}, n \in {"ACTIVE", "AUTH", "UPDATE"} :
        To(n, Notice(k, c)) \in LaterPost("COMMU")
  <2>1. \A k \in {"FREED", "FAIL"}, n \in {"ACTIVE", "AUTH", "UPDATE"} :
          Notice(k, c) \in MsgFor(n) /\ n \in Module
    <3> HIDE DEF Notice
    <3> QED BY NoticeGood DEF MsgFor, Module
  <2> QED BY <2>1, ToGood
<1>3. \A m : To("COMMU", Notice("FREE", c)) \in LaterPost(m)
  BY ActivePostsGood
<1>4. To("COMMU", Frame("SEND", c, "ACTV_ERR", None)) \in LaterPost("ACTIVE")
  BY ActivePostsGood
<1>5. \A u \in Uuid :
        /\ To("COMMU", Frame("SEND", c, "ACTV_SUC", u)) \in LaterPost("ACTIVE")
        /\ \A b \in {"active", "active_suc"} :
             To("KAFKA", Json("SND2KAFKA", b, u)) \in LaterPost("ACTIVE")
  BY ActivePostsGood
<1>6. \A r \in Rid :
        /\ \A b \in {"AUTH_SUC", "AUTH_FAI", "AUTH_DIF"} :
             Send(c, b, r) \in LaterPost("AUTH")
        /\ ToKafka("auth", r) \in LaterPost("AUTH")
        /\ To("UPDATE", Frame("AUTH_SUC", c, "-", r)) \in MayPost("AUTH")
  BY AuthPostsGood DEF Send, ToKafka
<1>7. \A r \in Rid :
        /\ To("COMMU", Frame("SEND", c, "UMI", r)) \in LaterPost("UPDATE")
        /\ \A b \in {"check_update", "update_result"} :
             To("KAFKA", Json("SND2KAFKA", b, r)) \in LaterPost("UPDATE")
  BY UpdatePostsGood
<1> QED BY <1>1, <1>2, <1>3, <1>4, <1>5, <1>6, <1>7

\* The communication module announces channels, their ends and failed sends.
LEMMA CommuActs ==
  ASSUME Typed, CommuStep
  PROVE  Acts("COMMU")
<1> DEFINE c == Current("COMMU").ch
           built == To("ACTIVE", Notice("BUILDED", c))
<1>1. queue["COMMU"] # <<>>
  BY DEF CommuStep, CommuHandler, OnNewChannel, OnNewChannelFull, OnDelChannel,
         OnFreeChannel, SendData2Channel, SendDataFail, Ready
<1>2. c \in Channel
  BY <1>1, CommuCurrent DEF Typed
<1>3. /\ Broadcast(Notice("FREED", c)) \in Seq(LaterPost("COMMU"))
      /\ Broadcast(Notice("FAIL", c)) \in Seq(LaterPost("COMMU"))
      /\ <<built>> \in Seq(LaterPost("COMMU"))
  <2>1. ASSUME NEW k \in {"FREED", "FAIL"}
        PROVE  Broadcast(Notice(k, c)) \in Seq(LaterPost("COMMU"))
    <3>1. /\ To("ACTIVE", Notice(k, c)) \in LaterPost("COMMU")
          /\ To("AUTH", Notice(k, c)) \in LaterPost("COMMU")
          /\ To("UPDATE", Notice(k, c)) \in LaterPost("COMMU")
      BY <1>2, PostsMayBe
    <3> QED BY <3>1 DEF Broadcast
  <2>2. built \in LaterPost("COMMU")
    BY <1>2, PostsMayBe
  <2>3. <<built>> \in Seq(LaterPost("COMMU"))
    BY <2>2
  <2> QED BY <2>1, <2>3
<1>4. \/ Handle("COMMU", <<>>)
      \/ Handle("COMMU", <<built>>)
      \/ Handle("COMMU", <<built>> \o Broadcast(Notice("FREED", c)))
      \/ Handle("COMMU", Broadcast(Notice("FREED", c)))
      \/ Handle("COMMU", Broadcast(Notice("FAIL", c)))
  BY DEF CommuStep, CommuHandler, OnNewChannel, OnNewChannelFull, OnDelChannel,
         OnFreeChannel, SendData2Channel, SendDataFail
<1> HIDE DEF built, c
<1>5. <<built>> \o Broadcast(Notice("FREED", c)) \in Seq(LaterPost("COMMU"))
  BY <1>3, ConcatProperties
<1>6. <<>> \in Seq(LaterPost("COMMU"))
  OBVIOUS
<1> QED BY <1>1, <1>3, <1>4, <1>5, <1>6, ActsLater

\* What the authentication module posts about no accepted id.
QuietPost == {p \in LaterPost("AUTH") : p.msg.body # "AUTH_SUC" /\ p.to # "UPDATE"}

\* An announcement, and the answer to the host behind it.
Accepted(d, r) ==
  <<To("UPDATE", Frame("AUTH_SUC", d, "-", r)), Send(d, "AUTH_SUC", r)>>

\* The authentication module refuses and asks, or it handles the good verdict for
\* an id and announces the channel the id is bound to.
LEMMA AuthPosts ==
  ASSUME Typed, AuthStep
  PROVE  /\ queue["AUTH"] # <<>>
         /\ \/ \E posts \in Seq(QuietPost) : Handle("AUTH", posts)
            \/ \E d \in Channel, r \in Rid :
                 /\ Handle("AUTH", Accepted(d, r))
                 /\ Current("AUTH").kind = "RCVKAFKA" /\ Current("AUTH").body = "auth_ack"
                 /\ Current("AUTH").key = r
<1> DEFINE m == Current("AUTH")
<1>1. queue["AUTH"] # <<>>
  BY DEF AuthStep, AuthHandler, RejectCode, RejectOther, DropBoth, BindChannel,
         OnAuthAck, AuthOnSendChannelDataFail, AuthOnChannelFreed, AuthRequest, Ready
<1>2. /\ TypedBus
      /\ \A c \in Channel : Free(c) \in QuietPost
      /\ \A c \in Channel, r \in Rid :
           /\ Send(c, "AUTH_DIF", r) \in QuietPost /\ Send(c, "AUTH_FAI", r) \in QuietPost
           /\ ToKafka("auth", r) \in QuietPost
  <2>1. TypedBus
    BY DEF Typed
  <2>2. \A c \in Channel : Free(c) \in LaterPost("AUTH")
    BY PostsMayBe DEF Free
  <2>3. \A c \in Channel, r \in Rid :
          /\ Send(c, "AUTH_DIF", r) \in LaterPost("AUTH")
          /\ Send(c, "AUTH_FAI", r) \in LaterPost("AUTH")
          /\ ToKafka("auth", r) \in LaterPost("AUTH")
    BY PostsMayBe
  <2> QED BY <2>1, <2>2, <2>3 DEF QuietPost, Free, Send, ToKafka, To, Notice, Frame, Json
<1>3. CASE RejectCode
  <2>1. m.ch \in Channel /\ Handle("AUTH", <<Free(m.ch)>>)
    BY <1>1, <1>2, <1>3, AuthCurrent DEF RejectCode, AuthRequest, Ready
  <2>2. <<Free(m.ch)>> \in Seq(QuietPost)
    BY <1>2, <2>1
  <2> QED BY <1>1, <2>1, <2>2
<1>4. CASE RejectOther
  <2>1. /\ m.ch \in Channel /\ m.key \in Rid
        /\ Handle("AUTH", <<Send(m.ch, "AUTH_DIF", m.key), Free(m.ch)>>)
    BY <1>1, <1>2, <1>4, AuthCurrent DEF RejectOther, AuthRequest, Ready
  <2>2. Free(m.ch) \in QuietPost /\ Send(m.ch, "AUTH_DIF", m.key) \in QuietPost
    BY <1>2, <2>1
  <2>3. <<Send(m.ch, "AUTH_DIF", m.key), Free(m.ch)>> \in Seq(QuietPost)
    BY <2>2
  <2> QED BY <1>1, <2>1, <2>3
<1>5. CASE DropBoth
  <2>1. /\ m.ch \in Channel /\ m.key \in Rid /\ rcCh[m.key] # None
        /\ Handle("AUTH", <<Free(rcCh[m.key]), Free(m.ch)>>)
    BY <1>1, <1>2, <1>5, AuthCurrent DEF DropBoth, AuthRequest, Ready
  <2>2. rcCh[m.key] \in Channel
    BY <2>1 DEF Typed, AuthTypeOK
  <2>3. Free(rcCh[m.key]) \in QuietPost /\ Free(m.ch) \in QuietPost
    BY <1>2, <2>1, <2>2
  <2>4. <<Free(rcCh[m.key]), Free(m.ch)>> \in Seq(QuietPost)
    BY <2>3
  <2> QED BY <1>1, <2>1, <2>4
<1>6. CASE BindChannel
  <2>1. m.key \in Rid /\ m.ch \in Channel /\ Handle("AUTH", <<ToKafka("auth", m.key)>>)
    BY <1>1, <1>2, <1>6, AuthCurrent DEF BindChannel, AuthRequest, Ready
  <2>2. ToKafka("auth", m.key) \in QuietPost
    BY <1>2, <2>1
  <2>3. <<ToKafka("auth", m.key)>> \in Seq(QuietPost)
    BY <2>2
  <2> QED BY <1>1, <2>1, <2>3
<1>7. CASE OnAuthAck
  <2> DEFINE c == rcCh[m.key]
             bad == Send(c, "AUTH_FAI", m.key)
  <2>1. m.key \in Rid /\ m.kind = "RCVKAFKA"
    BY <1>1, <1>2, <1>7, AuthCurrent DEF OnAuthAck, Ready
  <2>2. c # None => c \in Channel
    BY <2>1 DEF Typed, AuthTypeOK
  <2>3. \/ Handle("AUTH", <<>>)
        \/ c # None /\ Handle("AUTH", <<bad>>)
        \/ c # None /\ m.body = "auth_ack" /\ Handle("AUTH", Accepted(c, m.key))
    BY <1>7 DEF OnAuthAck, Accepted
  <2>4. c # None => bad \in QuietPost
    BY <1>2, <2>1, <2>2
  <2> HIDE DEF bad
  <2>5. c # None => <<bad>> \in Seq(QuietPost)
    BY <2>4
  <2>6. <<>> \in Seq(QuietPost)
    OBVIOUS
  <2> QED BY <1>1, <2>1, <2>2, <2>3, <2>5, <2>6
<1>8. CASE AuthOnSendChannelDataFail \/ AuthOnChannelFreed
  <2>1. Handle("AUTH", <<>>) /\ <<>> \in Seq(QuietPost)
    BY <1>8 DEF AuthOnSendChannelDataFail, AuthOnChannelFreed
  <2> QED BY <1>1, <2>1
<1> QED BY <1>3, <1>4, <1>5, <1>6, <1>7, <1>8 DEF AuthStep, AuthHandler

\* What an announcement does.
LEMMA AcceptedEffect ==
  ASSUME TypedBus, NEW d \in Channel, NEW r \in Rid, queue["AUTH"] # <<>>,
         Handle("AUTH", Accepted(d, r))
  PROVE  /\ Accepted(d, r) \in Seq(MayPost("AUTH"))
         /\ Tail(Accepted(d, r)) \in Seq(LaterPost("AUTH"))
         /\ queue'["UPDATE"] = Append(queue["UPDATE"], Frame("AUTH_SUC", d, "-", r))
         /\ queue'["AUTH"] = Tail(queue["AUTH"])
         /\ \A n \in Module \ {"AUTH", "UPDATE"} : queue'[n] = queue[n]
         /\ out' = [out EXCEPT !["AUTH"] = <<Send(d, "AUTH_SUC", r)>>]
<1> DEFINE a == To("UPDATE", Frame("AUTH_SUC", d, "-", r))
           good == Send(d, "AUTH_SUC", r)
           s == <<a, good>>
<1>1. /\ a \in MayPost("AUTH") /\ good \in LaterPost("AUTH") /\ good \in MayPost("AUTH")
      /\ a.to = "UPDATE" /\ a.msg = Frame("AUTH_SUC", d, "-", r)
      /\ "AUTH" \in Module /\ "UPDATE" \in Module
  BY PostsMayBe DEF LaterPost, To, Module
<1>2. Accepted(d, r) = s
  BY DEF Accepted
<1> HIDE DEF a, good
<1>3. /\ s \in Seq(MayPost("AUTH")) /\ s # <<>> /\ Head(s) = a /\ Tail(s) = <<good>>
      /\ <<good>> \in Seq(LaterPost("AUTH"))
  BY <1>1
<1>4. Handle("AUTH", s)
  BY <1>2
<1> HIDE DEF s
<1>5. /\ out' = [out EXCEPT !["AUTH"] = Tail(s)]
      /\ \A n \in Module :
           queue'[n] = IF n = Head(s).to THEN Append(Left("AUTH", n), Head(s).msg)
                       ELSE Left("AUTH", n)
  BY <1>1, <1>3, <1>4, HandleEffect
<1>6. /\ queue'["UPDATE"] = Append(queue["UPDATE"], a.msg)
      /\ queue'["AUTH"] = Tail(queue["AUTH"])
      /\ \A n \in Module \ {"AUTH", "UPDATE"} : queue'[n] = queue[n]
  BY <1>1, <1>3, <1>5 DEF Left
<1>7. out' = [out EXCEPT !["AUTH"] = <<good>>]
  BY <1>3, <1>5
<1> QED BY <1>1, <1>2, <1>3, <1>6, <1>7 DEF good

\* Either way the authentication module posts what it may.
LEMMA AuthActs ==
  ASSUME Typed, AuthStep
  PROVE  Acts("AUTH")
<1>1. queue["AUTH"] # <<>> /\ TypedBus
  BY AuthPosts DEF Typed
<1>2. ASSUME NEW posts \in Seq(QuietPost), Handle("AUTH", posts)
      PROVE  Acts("AUTH")
  <2>1. QuietPost \subseteq LaterPost("AUTH")
    BY DEF QuietPost
  <2>2. posts \in Seq(LaterPost("AUTH"))
    BY <2>1, SeqMonotonic
  <2> QED BY <1>1, <1>2, <2>2, ActsLater
<1>3. ASSUME NEW d \in Channel, NEW r \in Rid, Handle("AUTH", Accepted(d, r))
      PROVE  Acts("AUTH")
  BY <1>1, <1>3, AcceptedEffect DEF Acts
<1> QED BY <1>2, <1>3, AuthPosts

\* The update module writes updates and passes reports on.
LEMMA UpdateActs ==
  ASSUME Typed, UpdateStep, \A c \in Channel : ~SendKeepAlive(c)
  PROVE  Acts("UPDATE")
<1> DEFINE m == Current("UPDATE")
<1>1. queue["UPDATE"] # <<>> /\ TypedBus
  BY DEF UpdateStep, UpdateHandler, OnAuthSuc, UpdOnSendChannelDataFail,
         UpdOnChannelFreed, OnUpdateFromKafka, OnRecvAodsData, UpdReady, Ready, Typed
<1>2. CASE Handle("UPDATE", <<>>)
  <2>1. <<>> \in Seq(LaterPost("UPDATE"))
    OBVIOUS
  <2> QED BY <1>1, <1>2, <2>1, ActsLater
<1>3. CASE OnUpdateFromKafka
  <2> DEFINE p == To("COMMU", Frame("SEND", ruo[m.key], "UMI", m.key))
  <2>1. m.key \in Rid
    BY <1>1, <1>3, UpdateCurrent DEF OnUpdateFromKafka, UpdReady, Ready
  <2>2. Handle("UPDATE", <<>>) \/ (ruo[m.key] # None /\ Handle("UPDATE", <<p>>))
    BY <1>3 DEF OnUpdateFromKafka
  <2>3. ruo[m.key] # None => ruo[m.key] \in Channel
    BY <2>1 DEF Typed, UpdTypeOK
  <2>4. ruo[m.key] # None => p \in LaterPost("UPDATE")
    BY <2>1, <2>3, PostsMayBe
  <2> HIDE DEF p
  <2>5. ruo[m.key] # None => <<p>> \in Seq(LaterPost("UPDATE"))
    BY <2>4
  <2> QED BY <1>1, <1>2, <2>2, <2>5, ActsLater
<1>4. CASE OnRecvAodsData
  <2> DEFINE b == IF m.body = "UMI" THEN "check_update" ELSE "update_result"
             p == To("KAFKA", Json("SND2KAFKA", b, cuo[m.ch]))
  <2>1. m.ch \in Channel
    BY <1>1, <1>4, UpdateCurrent DEF OnRecvAodsData, UpdReady, Ready
  <2>2. Handle("UPDATE", <<>>) \/ (cuo[m.ch] # None /\ Handle("UPDATE", <<p>>))
    BY <1>4 DEF OnRecvAodsData
  <2>3. cuo[m.ch] # None => cuo[m.ch] \in Rid
    BY <2>1 DEF Typed, UpdTypeOK
  <2>4. cuo[m.ch] # None => p \in LaterPost("UPDATE")
    BY <2>1, <2>3, PostsMayBe
  <2> HIDE DEF p
  <2>5. cuo[m.ch] # None => <<p>> \in Seq(LaterPost("UPDATE"))
    BY <2>4
  <2> QED BY <1>1, <1>2, <2>2, <2>5, ActsLater
<1> QED BY <1>2, <1>3, <1>4
        DEF UpdateStep, UpdateHandler, OnAuthSuc, UpdOnSendChannelDataFail,
            UpdOnChannelFreed

\* The activation module asks, answers and disconnects.
LEMMA ActiveActs ==
  ASSUME Typed, ActiveStep
  PROVE  Acts("ACTIVE")
<1> DEFINE m == Current("ACTIVE")
           free(c) == To("COMMU", Notice("FREE", c))
           err(c) == To("COMMU", Frame("SEND", c, "ACTV_ERR", None))
           suc(c, u) == To("COMMU", Frame("SEND", c, "ACTV_SUC", u))
           json(b, u) == To("KAFKA", Json("SND2KAFKA", b, u))
<1>1. queue["ACTIVE"] # <<>> /\ TypedBus
  BY DEF ActiveStep, ActiveHandler, OnChannelBuilded, OnActiveRequest, OnActiveAck,
         OnActiveAckStale, ActOnSendChannelDataFail, ActOnChannelFreed, Ready, Typed
<1>2. CASE Handle("ACTIVE", <<>>)
  <2>1. <<>> \in Seq(LaterPost("ACTIVE"))
    OBVIOUS
  <2> QED BY <1>1, <1>2, <2>1, ActsLater
<1>3. ASSUME NEW p \in LaterPost("ACTIVE"), Handle("ACTIVE", <<p>>)
      PROVE  Acts("ACTIVE")
  <2>1. <<p>> \in Seq(LaterPost("ACTIVE"))
    BY <1>3
  <2> QED BY <1>1, <1>3, <2>1, ActsLater
<1>4. CASE OnActiveRequest
  <2>1. m.ch \in Channel
    BY <1>1, <1>4, ActiveCurrent DEF OnActiveRequest, Ready
  <2>2. \/ Handle("ACTIVE", <<err(m.ch)>>)
        \/ \E u \in Uuid : Handle("ACTIVE", <<json("active", u)>>)
    BY <1>4 DEF OnActiveRequest
  <2>3. /\ err(m.ch) \in LaterPost("ACTIVE")
        /\ \A u \in Uuid : json("active", u) \in LaterPost("ACTIVE")
    BY <2>1, PostsMayBe
  <2> HIDE DEF err, json
  <2> QED BY <1>3, <2>2, <2>3
<1>5. CASE OnActiveAck
  <2> DEFINE c == uai[m.key]
  <2>1. m.key \in Uuid /\ c # None /\ Handle("ACTIVE", Result(m, c))
    BY <1>1, <1>5, ActiveCurrent DEF OnActiveAck, Ready
  <2>2. c \in Channel
    BY <2>1 DEF Typed, ActTypeOK
  <2>3. /\ free(c) \in LaterPost("ACTIVE") /\ err(c) \in LaterPost("ACTIVE")
        /\ suc(c, m.key) \in LaterPost("ACTIVE")
        /\ json("active_suc", m.key) \in LaterPost("ACTIVE")
    BY <2>1, <2>2, PostsMayBe
  <2>4. Result(m, c) = (IF m.body = "active_ack"
                        THEN <<json("active_suc", m.key), suc(c, m.key)>>
                        ELSE <<err(c)>>) \o <<free(c)>>
    BY DEF Result
  <2> HIDE DEF free, err, suc, json, c
  <2>5. /\ <<free(c)>> \in Seq(LaterPost("ACTIVE")) /\ <<err(c)>> \in Seq(LaterPost("ACTIVE"))
        /\ <<json("active_suc", m.key), suc(c, m.key)>> \in Seq(LaterPost("ACTIVE"))
    BY <2>3
  <2>6. Result(m, c) \in Seq(LaterPost("ACTIVE"))
    BY <2>4, <2>5, ConcatProperties
  <2> QED BY <1>1, <2>1, <2>6, ActsLater
<1>6. CASE ActOnSendChannelDataFail
  <2>1. m.ch \in Channel /\ Handle("ACTIVE", <<free(m.ch)>>)
    BY <1>1, <1>6, ActiveCurrent DEF ActOnSendChannelDataFail, Ready
  <2>2. free(m.ch) \in LaterPost("ACTIVE")
    BY <2>1, PostsMayBe
  <2> QED BY <1>3, <2>1, <2>2
<1> QED BY <1>2, <1>4, <1>5, <1>6
        DEF ActiveStep, ActiveHandler, OnChannelBuilded, OnActiveAckStale,
            ActOnChannelFreed

\* The answers of the controller, which accepts the ids it has registered.
Answers ==
  {m \in Msg : /\ m.kind = "RCVKAFKA"
               /\ m.body \in {"auth_ack", "auth_nak", "active_ack", "active_nak", "update"}
               /\ m.body = "auth_ack" => m.key \in Registered}

\* The controller and the topics add answers to the queues, and no posts.
LEMMA KafkaGets ==
  ASSUME Typed, KafkaStep
  PROVE  out' = out /\ \A n \in Module : Gets(n, Answers) /\ (n # "KAFKA" => Adds(n, Answers))
<1>1. TypedBus /\ TypedBus'
  BY KafkaStepTyped DEF Typed
<1>2. ASSUME NEW rest, NEW m \in {"AUTH", "UPDATE", "ACTIVE"}, NEW body,
             queue["KAFKA"] # <<>>,
             rest \in {queue["KAFKA"], Tail(queue["KAFKA"])}, Answer(m, body, rest),
             body \in {"auth_ack", "auth_nak", "active_ack", "active_nak", "update"},
             body = "auth_ack" => Current("KAFKA").key \in Registered
      PROVE  out' = out /\ \A n \in Module : Gets(n, Answers) /\ (n # "KAFKA" => Adds(n, Answers))
  <2> DEFINE j == Json("RCVKAFKA", body, Current("KAFKA").key)
  <2>1. /\ queue' = [queue EXCEPT !["KAFKA"] = rest, ![m] = Append(queue[m], j)]
        /\ out' = out
    BY <1>2 DEF Answer
  <2>2. /\ j.kind = "RCVKAFKA"
        /\ j.body \in {"auth_ack", "auth_nak", "active_ack", "active_nak", "update"}
        /\ j.body = "auth_ack" => j.key \in Registered
    BY <1>2 DEF Json
  <2> HIDE DEF j
  <2>3. /\ queue'[m] = Append(queue[m], j) /\ queue'["KAFKA"] = rest /\ m \in Module
        /\ \A n \in Module \ {m, "KAFKA"} : queue'[n] = queue[n]
    BY <1>1, <1>2, <2>1 DEF TypedBus, Module
  <2>4. queue'[m] \in Seq(Msg) /\ Append(queue[m], j)[Len(queue[m]) + 1] = j
        /\ DOMAIN Append(queue[m], j) = 1 .. Len(queue[m]) + 1 /\ Len(queue[m]) \in Nat
    <3>1. queue[m] \in Seq(Msg) /\ queue'[m] \in Seq(Msg)
      BY <1>1, <2>3 DEF TypedBus
    <3> QED BY <3>1, AppendAt
  <2>5. j \in Answers
    <3>1. Len(queue[m]) + 1 \in DOMAIN queue'[m]
      BY <2>3, <2>4
    <3>2. queue'[m][Len(queue[m]) + 1] \in Msg
      BY <2>4, <3>1
    <3> QED BY <2>2, <2>3, <2>4, <3>2 DEF Answers
  <2> QED BY <1>2, <2>1, <2>3, <2>5 DEF Gets, Adds
<1>3. ASSUME queue["KAFKA"] # <<>>, Consume
      PROVE  out' = out /\ \A n \in Module : Gets(n, Answers) /\ (n # "KAFKA" => Adds(n, Answers))
  <2>1. /\ queue'["KAFKA"] = Tail(queue["KAFKA"]) /\ out' = out
        /\ \A n \in Module \ {"KAFKA"} : queue'[n] = queue[n]
    BY <1>1, <1>3 DEF Consume, TypedBus, Module
  <2> QED BY <1>3, <2>1 DEF Gets, Adds
<1>4. ASSUME NEW r \in Rid, DealPublish(r)
      PROVE  out' = out /\ \A n \in Module : Gets(n, Answers) /\ (n # "KAFKA" => Adds(n, Answers))
  <2>1. Json("RCVKAFKA", "update", r) \in Answers
    BY DEF Answers, Json, Msg, Kind, Body
  <2>2. "UPDATE" \in Module
    BY DEF Module
  <2> QED BY <1>1, <1>4, <2>1, <2>2, PostMsgGets DEF DealPublish
<1>5. CASE KafkaAnswer \/ KafkaRepeat
  BY <1>2, <1>5 DEF KafkaAnswer, KafkaRepeat, DealAuthen, DealActive,
                    DealUpdateCheck, Request
<1>6. CASE KafkaLose \/ UpToDate \/ DealActiveSuc \/ DealUpdateResult
  BY <1>3, <1>6 DEF KafkaLose, UpToDate, DealActiveSuc, DealUpdateResult, Request
<1> QED BY <1>4, <1>5, <1>6 DEF KafkaStep, KafkaConsume, KafkaFault
-----------------------------------------------------------------------------
(* The order of the messages about a channel. *)

\* What a thread outside the modules and the select loop may add to a queue,
\* and what any module but the authentication module may.
Inner == {m \in Msg : m.kind \notin {"NEW", "DEL", "RECV"}}

Plain == {m \in Inner : m.kind # "AUTH_SUC"}

\* The messages that make and end channel c, those a host sends over it, those
\* that announce it as authenticated, those sent over it.
Lives(c) == {m \in Msg : m.kind \in {"NEW", "DEL"} /\ m.ch = c}

Asks(c) == {m \in Msg : m.kind = "RECV" /\ m.ch = c}

Announces(c) == {m \in Msg : m.kind = "AUTH_SUC" /\ m.ch = c}

Sends(c) == {m \in Msg : m.kind = "SEND" /\ m.ch = c}

\* The messages by which a module learns that c is gone.
Freed(c) == {Notice("FREED", c)}

Gone(c) == {Notice("FREED", c), Notice("FAIL", c)}

\* The handler of module s has still to post one of the messages in S to n.
Posting(s, n, S) == \E i \in DOMAIN out[s] : out[s][i].to = n /\ out[s][i].msg \in S

\* A name is given once: a channel is in the select group from its NEW on, until
\* its DEL is posted.
OneLife(c) ==
  /\ Once(queue["COMMU"], Lives(c))
  /\ c \in group => c \in mapAC /\ Lacks(queue["COMMU"], Lives(c))
  /\ c >= ullIndex => c \notin mapAC \cup group /\ Lacks(queue["COMMU"], Lives(c))
  /\ \A i \in DOMAIN wire[c] : wire[c][i].ch = c

\* Once c is gone and FREED is posted to the authentication module, it is behind
\* every request that came over c, and in the queue while an id is bound to c.
RequestsClosed(c) ==
  c \in mapAC \/ Posting("COMMU", "AUTH", Freed(c))
  \/ /\ Closes(queue["AUTH"], Asks(c), Freed(c))
     /\ \A r \in Rid : rcCh[r] = c => ~Lacks(queue["AUTH"], Freed(c))

\* Something is sent over c.
Answering(c) == ~Lacks(queue["COMMU"], Sends(c)) \/ Posting("AUTH", "COMMU", Sends(c))

\* The same for the update module, unless something is still sent over c.
AnnouncesClosed(c) ==
  c \in mapAC \/ Posting("COMMU", "UPDATE", Gone(c)) \/ Answering(c)
  \/ /\ Closes(queue["UPDATE"], Announces(c), Gone(c))
     /\ cuo[c] # None => ~Lacks(queue["UPDATE"], Gone(c))

ReleaseInv ==
  PostsAllowed /\ \A c \in Channel : OneLife(c) /\ RequestsClosed(c) /\ AnnouncesClosed(c)

\* What the modules and the controller add to a queue.
LEMMA MailIsInner ==
  /\ \A m \in Module : MailOf(m) \subseteq Inner /\ (m # "AUTH" => MailOf(m) \subseteq Plain)
  /\ \A m \in Module : \A p \in LaterPost(m) : p.msg \in Plain
  /\ Answers \subseteq Plain /\ Plain \subseteq Inner
<1>1. \A p \in GoodPost : p.msg \in Msg
  BY DEF GoodPost, Post
<1> QED BY <1>1 DEF MailOf, MayPost, LaterPost, Outside, Inner, Plain, Answers

\* The handler of a module but the authentication module.
LEMMA ActsPlain ==
  ASSUME TypedBus, PostsAllowed, NEW m \in Module, m # "AUTH", Acts(m)
  PROVE  /\ PostsAllowed'
         /\ \A n \in Module : Gets(n, Plain) /\ (n # m => Adds(n, Plain) /\ out'[n] = out[n])
<1>1. MailOf(m) \subseteq Plain
  BY MailIsInner
<1> QED BY <1>1, ActsGets DEF Gets, Adds

\* A probe of the update module, which its timer has set out.
LEMMA KeepAlivePlain ==
  ASSUME Typed, PostsAllowed, NEW c \in Channel, SendKeepAlive(c)
  PROVE  PostsAllowed' /\ out' = out /\ \A n \in Module : Gets(n, Plain) /\ Adds(n, Plain)
<1>1. Frame("SEND", c, "KEEPALIVE", None) \in Plain
  BY DEF Frame, Plain, Inner, Msg, Kind, Body
<1>2. "COMMU" \in Module /\ TypedBus
  BY DEF Module, Typed
<1>3. out' = out /\ \A n \in Module : Gets(n, Plain) /\ Adds(n, Plain)
  BY <1>1, <1>2, PostMsgGets DEF SendKeepAlive
<1> QED BY <1>3 DEF PostsAllowed

\* Every step but those of the authentication module, of the select loop and of
\* a new connection adds plain messages to the queues; the queue of a module
\* other than the one that acts loses nothing.
PlainStep(m) ==
  /\ PostsAllowed'
  /\ \A n \in Module : Gets(n, Plain)
  /\ \A n \in Module : n # m => Adds(n, Plain)

LEMMA UpdateStepPlain ==
  ASSUME Typed, PostsAllowed, UpdateStep
  PROVE  PlainStep("UPDATE") /\ out'["COMMU"] = out["COMMU"] /\ out'["AUTH"] = out["AUTH"]
<1>1. TypedBus /\ "UPDATE" \in Module /\ "COMMU" \in Module /\ "AUTH" \in Module
  BY DEF Typed, Module
<1>2. CASE \E c \in Channel : SendKeepAlive(c)
  BY <1>2, KeepAlivePlain DEF PlainStep
<1>3. CASE \A c \in Channel : ~SendKeepAlive(c)
  BY <1>1, <1>3, UpdateActs, ActsPlain DEF PlainStep
<1> QED BY <1>2, <1>3

LEMMA ActiveStepPlain ==
  ASSUME Typed, PostsAllowed, ActiveStep
  PROVE  PlainStep("ACTIVE") /\ out'["COMMU"] = out["COMMU"] /\ out'["AUTH"] = out["AUTH"]
<1>1. TypedBus /\ "ACTIVE" \in Module /\ "COMMU" \in Module /\ "AUTH" \in Module
  BY DEF Typed, Module
<1> QED BY <1>1, ActiveActs, ActsPlain DEF PlainStep

LEMMA CommuStepPlain ==
  ASSUME Typed, PostsAllowed, CommuStep
  PROVE  PlainStep("COMMU") /\ out["COMMU"] = <<>> /\ out'["AUTH"] = out["AUTH"]
<1>1. TypedBus /\ "COMMU" \in Module /\ "AUTH" \in Module
  BY DEF Typed, Module
<1>2. out["COMMU"] = <<>>
  BY DEF CommuStep, CommuHandler, OnNewChannel, OnNewChannelFull, OnDelChannel,
         OnFreeChannel, SendData2Channel, SendDataFail, Ready
<1> QED BY <1>1, <1>2, CommuActs, ActsPlain DEF PlainStep

LEMMA KafkaStepPlain ==
  ASSUME Typed, PostsAllowed, KafkaStep
  PROVE  PlainStep("KAFKA") /\ out' = out
<1>1. /\ out' = out /\ Answers \subseteq Plain
      /\ \A n \in Module : Gets(n, Answers) /\ (n # "KAFKA" => Adds(n, Answers))
  BY KafkaGets, MailIsInner
<1> QED BY <1>1 DEF PlainStep, PostsAllowed, Gets, Adds

LEMMA PostStepPlain ==
  ASSUME Typed, PostsAllowed, NEW m \in Module, PostStep(m)
  PROVE  \A n \in Module : PlainStep(n) /\ (n # m => out'[n] = out[n])
<1>1. TypedBus /\ Dispatch(m)
  BY DEF Typed, PostStep
<1>2. /\ PostsAllowed' /\ Head(out[m]).msg \in Plain
      /\ \A n \in Module : Adds(n, {Head(out[m]).msg})
      /\ \A n \in Module : n # m => out'[n] = out[n]
  BY <1>1, DispatchGets, MailIsInner DEF TypedBus
<1> QED BY <1>2 DEF PlainStep, Adds, Gets

\* The authentication module also announces channels.
LEMMA AuthStepInner ==
  ASSUME Typed, PostsAllowed, AuthStep
  PROVE  /\ PostsAllowed' /\ \A n \in Module : Gets(n, Inner)
         /\ \A n \in Module : n # "AUTH" => Adds(n, Inner) /\ out'[n] = out[n]
         /\ out["AUTH"] = <<>>
<1>1. TypedBus /\ "AUTH" \in Module
  BY DEF Typed, Module
<1>2. MailOf("AUTH") \subseteq Inner
  BY <1>1, MailIsInner
<1>3. out["AUTH"] = <<>>
  BY DEF AuthStep, AuthHandler, RejectCode, RejectOther, DropBoth, BindChannel,
         OnAuthAck, AuthOnSendChannelDataFail, AuthOnChannelFreed, AuthRequest, Ready
<1> QED BY <1>1, <1>2, <1>3, AuthActs, ActsGets DEF Gets, Adds

\* The timer and the hosts leave the bus alone.
LEMMA BusSame ==
  ASSUME PostsAllowed, UNCHANGED busVars
  PROVE  \A n \in Module : PlainStep(n) /\ out'[n] = out[n]
BY DEF busVars, PlainStep, PostsAllowed, Gets, Adds
-----------------------------------------------------------------------------
(* What is on its way stays on its way. *)

\* A queue that loses nothing keeps what it holds, and its order.
LEMMA AddsKeeps ==
  ASSUME TypedBus, NEW n \in Module, NEW E, Adds(n, E), NEW A, NEW B, E \cap A = {}
  PROVE  /\ Closes(queue[n], A, B) => Closes(queue'[n], A, B)
         /\ ~Lacks(queue[n], B) => ~Lacks(queue'[n], B)
<1>1. queue[n] \in Seq(Msg)
  BY DEF TypedBus
<1>2. CASE queue'[n] = queue[n]
  BY <1>2
<1>3. ASSUME NEW e \in E, queue'[n] = Append(queue[n], e)
      PROVE  /\ Closes(queue[n], A, B) => Closes(queue'[n], A, B)
             /\ ~Lacks(queue[n], B) => ~Lacks(queue'[n], B)
  <2>1. e \notin A
    BY <1>3
  <2>2. /\ ~Lacks(queue[n], B) \/ e \in B => ~Lacks(Append(queue[n], e), B)
        /\ Closes(queue[n], A, B) /\ e \notin A => Closes(Append(queue[n], e), A, B)
    BY <1>1, AppendKeeps
  <2> QED BY <1>3, <2>1, <2>2
<1> QED BY <1>2, <1>3 DEF Adds

\* A message still to be posted is so afterwards, or it is in the queue, behind
\* all that was there.
LEMMA PostingMoves ==
  ASSUME TypedBus, PostsAllowed, NEW m \in Module, Dispatch(m),
         NEW s \in Module, NEW n \in Module, NEW S, NEW A, A \cap S = {}, Posting(s, n, S)
  PROVE  \/ \E i \in DOMAIN out'[s] : out'[s][i].to = n /\ out'[s][i].msg \in S
         \/ Closes(queue'[n], A, S) /\ ~Lacks(queue'[n], S)
<1>1. /\ out[m] # <<>> /\ out[m] \in Seq(LaterPost(m))
      /\ out' = [out EXCEPT ![m] = Tail(out[m])]
      /\ queue'[Head(out[m]).to] = Append(queue[Head(out[m]).to], Head(out[m]).msg)
         \/ Head(out[m]).to \notin Module
  BY DispatchGets DEF PostsAllowed, Dispatch
<1>2. PICK i \in DOMAIN out[s] : out[s][i].to = n /\ out[s][i].msg \in S
  BY DEF Posting
<1>3. CASE s # m
  BY <1>1, <1>2, <1>3 DEF TypedBus
<1>4. CASE s = m
  <2>1. /\ Head(out[m]) = out[m][1]
        /\ DOMAIN out[m] = 1 .. Len(out[m]) /\ Len(out[m]) \in Nat \ {0}
        /\ DOMAIN Tail(out[m]) = 1 .. Len(out[m]) - 1
        /\ \A j \in 1 .. Len(out[m]) - 1 : Tail(out[m])[j] = out[m][j + 1]
    BY <1>1, TailAt
  <2>2. CASE i = 1
    <3>1. /\ queue'[n] = Append(queue[n], Head(out[m]).msg)
          /\ Head(out[m]).msg \in S /\ Head(out[m]).msg \notin A
      BY <1>1, <1>2, <1>4, <2>1, <2>2
    <3> DEFINE e == Head(out[m]).msg
    <3>2. queue[n] \in Seq(Msg)
      BY DEF TypedBus
    <3> HIDE DEF e
    <3>3. e \in S => ~Lacks(Append(queue[n], e), S)
      BY <3>2, AppendKeeps
    <3>4. e \in S /\ e \notin A => Closes(Append(queue[n], e), A, S)
      BY <3>2, AppendKeeps
    <3> QED BY <3>1, <3>3, <3>4 DEF e
  <2>3. CASE i # 1
    <3>1. out'[s] = Tail(out[m])
      BY <1>1, <1>4 DEF TypedBus
    <3>2. i - 1 \in DOMAIN out'[s] /\ out'[s][i - 1] = out[s][i]
      BY <1>2, <1>4, <2>1, <2>3, <3>1
    <3> QED BY <1>2, <3>2
  <2> QED BY <2>2, <2>3
<1> QED BY <1>3, <1>4
-----------------------------------------------------------------------------
(* One life for each name. *)

\* Only the select loop and a new connection make the messages of a life.
LEMMA LifeKept ==
  ASSUME Typed, NEW c \in Channel, OneLife(c), Gets("COMMU", Inner),
         UNCHANGED <<mapAC, group, ullIndex, wire>>
  PROVE  OneLife(c)'
<1>1. Inner \cap Lives(c) = {} /\ TypedBus /\ "COMMU" \in Module
  BY DEF Inner, Lives, Typed, Module
<1>2. /\ Lacks(queue["COMMU"], Lives(c)) => Lacks(queue'["COMMU"], Lives(c))
      /\ Once(queue["COMMU"], Lives(c)) => Once(queue'["COMMU"], Lives(c))
  BY <1>1, GetsKeeps
<1> QED BY <1>2 DEF OneLife

\* The communication module enters a channel in its maps with NEW and takes it
\* out with DEL.
LEMMA CommuStepLife ==
  ASSUME Typed, PostsAllowed, NEW c \in Channel, OneLife(c), CommuStep
  PROVE  OneLife(c)'
<1> DEFINE m == Current("COMMU")
<1>1. /\ TypedBus /\ queue["COMMU"] # <<>> /\ "COMMU" \in Module
      /\ m \in CommuMsg /\ m.ch \in Channel /\ m \in Msg
      /\ queue["COMMU"] \in Seq(Msg)
  <2>1. TypedBus /\ queue["COMMU"] # <<>>
    BY DEF Typed, CommuStep, CommuHandler, OnNewChannel, OnNewChannelFull, OnDelChannel,
           OnFreeChannel, SendData2Channel, SendDataFail, Ready
  <2>2. CommuMsg \subseteq Msg
    BY DEF CommuMsg, Kinds, OnChannel
  <2> QED BY <2>1, <2>2, CommuCurrent DEF TypedBus
<1>2. /\ Gets("COMMU", Plain)
      /\ Plain \cap Lives(c) = {}
  BY <1>1, CommuStepPlain DEF PlainStep, Plain, Inner, Lives
<1>3. /\ Lacks(queue["COMMU"], Lives(c)) => Lacks(queue'["COMMU"], Lives(c))
      /\ Once(queue["COMMU"], Lives(c)) => Once(queue'["COMMU"], Lives(c))
  BY <1>1, <1>2, GetsKeeps
<1>4. UNCHANGED <<ullIndex, wire>>
  BY DEF CommuStep, CommuHandler, OnNewChannel, OnNewChannelFull, OnDelChannel,
         OnFreeChannel, SendData2Channel, SendDataFail, commuVars, netVars
<1>5. CASE UNCHANGED <<mapAC, group>>
  BY <1>3, <1>4, <1>5 DEF OneLife
<1>6. CASE ~UNCHANGED <<mapAC, group>>
  <2>1. /\ m.kind \in {"NEW", "DEL"}
        /\ m.kind = "NEW" => mapAC' = mapAC \cup {m.ch} /\ group' = group \cup {m.ch}
        /\ m.kind = "DEL" => mapAC' = mapAC \ {m.ch} /\ group' = group
    BY <1>6 DEF CommuStep, CommuHandler, OnNewChannel, OnNewChannelFull, OnDelChannel,
         OnFreeChannel, SendData2Channel, SendDataFail, commuVars, Ready
  <2>2. CASE m.ch # c
    BY <1>3, <1>4, <2>1, <2>2 DEF OneLife
  <2>3. CASE m.ch = c
    <3>1. m \in Lives(c) /\ m = Head(queue["COMMU"])
      BY <1>1, <2>1, <2>3 DEF Lives, Current
    <3>2. ~Lacks(queue["COMMU"], Lives(c))
      BY <1>1, <3>1, TailKeeps
    <3>3. Lacks(Tail(queue["COMMU"]), Lives(c))
      BY <1>1, <3>1, TailKeeps DEF OneLife
    <3>4. Lacks(queue'["COMMU"], Lives(c))
      <4>1. Acts("COMMU")
        BY CommuActs
      <4>2. PICK posts \in Seq(MayPost("COMMU")) : Handle("COMMU", posts)
        BY <4>1 DEF Acts
      <4>3. \/ queue'["COMMU"] = Tail(queue["COMMU"])
            \/ posts # <<>> /\ queue'["COMMU"] = Append(Tail(queue["COMMU"]), Head(posts).msg)
        BY <1>1, <4>2, HandleEffect DEF Left
      <4>4. posts # <<>> => Head(posts).msg \in MailOf("COMMU")
        BY DEF MailOf
      <4>5. posts # <<>> => Head(posts).msg \notin Lives(c)
        BY <1>1, <1>2, <4>4, MailIsInner
      <4>6. Tail(queue["COMMU"]) \in Seq(Msg)
        BY <1>1
      <4> QED BY <3>3, <4>3, <4>5, <4>6, AppendKeeps
    <3>5. Once(queue'["COMMU"], Lives(c))
      BY <3>4 DEF Lacks, Once
    <3> QED BY <1>4, <2>1, <2>3, <3>2, <3>4, <3>5 DEF OneLife
  <2> QED BY <2>2, <2>3
<1> QED BY <1>5, <1>6

\* What the select loop reads goes to the module that acts on it.
LEMMA ReadDataAdds ==
  ASSUME Typed, NEW d \in Channel, ReadData(d)
  PROVE  LET f == Head(wire[d])
         IN  /\ d \in group /\ wire[d] # <<>> /\ f \in WireMsg /\ f = wire[d][1]
             /\ f.kind = "RECV" /\ f \in Msg
             /\ Reader(f) \in {"AUTH", "ACTIVE", "UPDATE"}
             /\ Reader(f) = "ACTIVE" <=> f.body = "ACTV"
             /\ out' = out
             /\ queue'[Reader(f)] = Append(queue[Reader(f)], f)
             /\ \A n \in Module : n # Reader(f) => queue'[n] = queue[n]
             /\ wire' = [wire EXCEPT ![d] = Tail(wire[d])]
             /\ UNCHANGED <<mapAC, group, ullIndex>>
<1> DEFINE f == Head(wire[d])
<1>1. /\ d \in group /\ wire[d] # <<>> /\ PostMsg(Reader(f), f)
      /\ wire' = [wire EXCEPT ![d] = Tail(wire[d])]
      /\ UNCHANGED <<mapAC, group, ullIndex>>
  BY DEF ReadData, commuVars
<1>2. wire[d] \in Seq(WireMsg) /\ TypedBus
  BY DEF Typed, TypedNet
<1>3. f \in WireMsg /\ f = wire[d][1]
  BY <1>1, <1>2
<1>4. f.kind = "RECV" /\ f \in Msg
  BY <1>3 DEF WireMsg, Kinds, OnChannel
<1>5. /\ Reader(f) \in {"AUTH", "ACTIVE", "UPDATE"} /\ Reader(f) \in Module
      /\ Reader(f) = "ACTIVE" <=> f.body = "ACTV"
  BY DEF Reader, Module
<1> HIDE DEF f
<1> QED BY <1>1, <1>2, <1>3, <1>4, <1>5, PostMsgGets DEF f

\* The end of a connection is announced to the communication module.
LEMMA OnDelAdds ==
  ASSUME Typed, NEW d \in Channel, OnDel(d)
  PROVE  /\ d \in group /\ group' = group \ {d}
         /\ queue'["COMMU"] = Append(queue["COMMU"], Notice("DEL", d))
         /\ \A n \in Module : n # "COMMU" => queue'[n] = queue[n]
         /\ UNCHANGED <<out, mapAC, ullIndex, wire>>
<1>1. /\ d \in group /\ group' = group \ {d} /\ PostMsg("COMMU", Notice("DEL", d))
      /\ UNCHANGED <<mapAC, ullIndex, wire>>
  BY DEF OnDel, netVars
<1>2. TypedBus /\ "COMMU" \in Module
  BY DEF Typed, Module
<1> QED BY <1>1, <1>2, PostMsgGets

\* So is a new one.
LEMMA ConnectAdds ==
  ASSUME Typed, NEW h \in Host, Connect(h)
  PROVE  /\ ullIndex \in Channel /\ ullIndex' = ullIndex + 1
         /\ \E ip \in IpOf[h] :
              wire' = [wire EXCEPT ![ullIndex] = <<FirstFrame(h, ullIndex, ip)>>]
         /\ queue'["COMMU"] = Append(queue["COMMU"], Notice("NEW", ullIndex))
         /\ \A n \in Module : n # "COMMU" => queue'[n] = queue[n]
         /\ UNCHANGED <<out, mapAC, group, inbox>>
<1>1. PICK ip \in IpOf[h] : Accept(FirstFrame(h, ullIndex, ip))
  BY DEF Connect
<1>2. /\ ullIndex < MaxChannel /\ ullIndex' = ullIndex + 1
      /\ wire' = [wire EXCEPT ![ullIndex] = <<FirstFrame(h, ullIndex, ip)>>]
      /\ PostMsg("COMMU", Notice("NEW", ullIndex))
      /\ UNCHANGED <<mapAC, group, inbox>>
  BY <1>1 DEF Accept
<1>3. TypedBus /\ "COMMU" \in Module
  BY DEF Typed, Module
<1>4. ullIndex \in Channel
  BY <1>2, DispatcherAssumption DEF Typed, CommuTypeOK, Channel
<1> QED BY <1>2, <1>3, <1>4, PostMsgGets

\* A machine that does not connect may add a report to what it sends.
Reports(h) ==
  \/ wire' = wire
  \/ /\ cur[h] \in Channel
     /\ \E b \in {"UMI", "UDR"} :
          wire' = [wire EXCEPT ![cur[h]] =
                     Append(wire[cur[h]], Frame("RECV", cur[h], b, None))]

LEMMA HostStepReports ==
  ASSUME Typed, NEW h \in Host, HostStep(h), ~Connect(h)
  PROVE  Reports(h) /\ UNCHANGED <<busVars, commuVars>>
<1>1. HostTypeOK
  BY DEF Typed
<1>2. CASE Disconnect(h) \/ SeeClosed(h) \/ OnAuthRefused(h) \/ OnActivated(h)
  BY <1>2 DEF Disconnect, SeeClosed, OnAuthRefused, OnActivated, Leave, Reports
<1>3. CASE OnAuthSucceeded(h) \/ OnUpdate(h) \/ OnKeepAlive(h)
  <2>1. cur[h] # None /\ (Reply(h, "-") \/ Reply(h, "UMI"))
    BY <1>3 DEF OnAuthSucceeded, OnUpdate, OnKeepAlive, Answered
  <2>2. cur[h] \in Channel
    BY <1>1, <2>1 DEF HostTypeOK
  <2>3. CASE Reply(h, "-")
    <3>1. wire' = [wire EXCEPT ![cur[h]] = wire[cur[h]]] /\ UNCHANGED <<busVars, commuVars>>
      BY <2>3 DEF Reply
    <3> QED BY <2>2, <3>1 DEF Typed, TypedNet, Reports
  <2>4. CASE Reply(h, "UMI")
    BY <2>2, <2>4 DEF Reply, Reports
  <2> QED BY <2>1, <2>3, <2>4
<1>4. CASE ReportResult(h)
  BY <1>1, <1>4 DEF ReportResult, Reports, HostTypeOK
<1> QED BY <1>2, <1>3, <1>4 DEF HostStep, HostReceive

\* The select loop takes a channel off its list with DEL.
LEMMA SelectStepLife ==
  ASSUME Typed, NEW c \in Channel, OneLife(c), NEW d \in Channel, SelectStep(d)
  PROVE  OneLife(c)'
<1>1. CASE ReadData(d)
  <2>1. /\ UNCHANGED <<mapAC, group, ullIndex>> /\ queue'["COMMU"] = queue["COMMU"]
        /\ wire[d] # <<>> /\ wire' = [wire EXCEPT ![d] = Tail(wire[d])]
    BY <1>1, ReadDataAdds DEF Module
  <2>2. wire \in [Channel -> Seq(WireMsg)]
    BY DEF Typed, TypedNet
  <2>3. wire[d] \in Seq(WireMsg)
    BY <2>2
  <2>4. d = c => \A i \in DOMAIN Tail(wire[c]) :
                   i + 1 \in DOMAIN wire[c] /\ Tail(wire[c])[i] = wire[c][i + 1]
    BY <2>1, <2>3, TailAt
  <2>5. \A i \in DOMAIN wire'[c] : wire'[c][i].ch = c
    <3>1. CASE d = c
      <4>1. wire'[c] = Tail(wire[c])
        BY <2>1, <2>2, <3>1
      <4> QED BY <2>4, <3>1, <4>1 DEF OneLife
    <3>2. CASE d # c
      BY <2>1, <2>2, <3>2 DEF OneLife
    <3> QED BY <3>1, <3>2
  <2> QED BY <2>1, <2>5 DEF OneLife
<1>2. CASE OnDel(d)
  <2> DEFINE e == Notice("DEL", d)
  <2>1. /\ d \in group /\ group' = group \ {d}
        /\ queue'["COMMU"] = Append(queue["COMMU"], e)
        /\ UNCHANGED <<mapAC, ullIndex, wire>>
    BY <1>2, OnDelAdds
  <2>2. queue["COMMU"] \in Seq(Msg)
    BY DEF Typed, TypedBus, Module
  <2>3. d # c => e \notin Lives(c)
    BY DEF Notice, Lives
  <2>4. c \in group => Lacks(queue["COMMU"], Lives(c))
    BY DEF OneLife
  <2> HIDE DEF e
  <2>5. Once(queue["COMMU"], Lives(c)) /\ (e \notin Lives(c) \/ Lacks(queue["COMMU"], Lives(c)))
    BY <2>1, <2>3, <2>4 DEF OneLife
  <2>6. /\ Once(queue'["COMMU"], Lives(c))
        /\ e \notin Lives(c) /\ Lacks(queue["COMMU"], Lives(c))
             => Lacks(queue'["COMMU"], Lives(c))
    BY <2>1, <2>2, <2>5, AppendOnce
  <2> QED BY <2>1, <2>3, <2>6 DEF OneLife
<1> QED BY <1>1, <1>2 DEF SelectStep

\* A host comes with a name that was never given, and what it sends is read from
\* its own connection.
LEMMA HostStepLife ==
  ASSUME Typed, NEW c \in Channel, OneLife(c), NEW h \in Host, HostStep(h)
  PROVE  OneLife(c)'
<1>1. wire \in [Channel -> Seq(WireMsg)] /\ ullIndex \in Nat
  BY DEF Typed, TypedNet, CommuTypeOK
<1>2. CASE Connect(h)
  <2> DEFINE e == Notice("NEW", ullIndex)
  <2>1. /\ ullIndex \in Channel /\ ullIndex' = ullIndex + 1
        /\ queue'["COMMU"] = Append(queue["COMMU"], e)
        /\ UNCHANGED <<mapAC, group>>
    BY <1>2, ConnectAdds
  <2>2. queue["COMMU"] \in Seq(Msg)
    BY DEF Typed, TypedBus, Module
  <2>3. ullIndex # c => e \notin Lives(c)
    BY DEF Notice, Lives
  <2>4. ullIndex = c => Lacks(queue["COMMU"], Lives(c)) /\ c \notin mapAC \cup group
    BY <1>1 DEF OneLife
  <2> HIDE DEF e
  <2>5. Once(queue["COMMU"], Lives(c)) /\ (e \notin Lives(c) \/ Lacks(queue["COMMU"], Lives(c)))
    BY <2>1, <2>3, <2>4 DEF OneLife
  <2>6. /\ Once(queue'["COMMU"], Lives(c))
        /\ e \notin Lives(c) /\ Lacks(queue["COMMU"], Lives(c))
             => Lacks(queue'["COMMU"], Lives(c))
    BY <2>1, <2>2, <2>5, AppendOnce
  <2>7. c >= ullIndex + 1 => c >= ullIndex /\ c # ullIndex
    BY <1>1 DEF Channel
  <2>8. \A i \in DOMAIN wire'[c] : wire'[c][i].ch = c
    <3>1. PICK ip \in IpOf[h] :
            wire' = [wire EXCEPT ![ullIndex] = <<FirstFrame(h, ullIndex, ip)>>]
      BY <1>2, ConnectAdds
    <3> DEFINE f == FirstFrame(h, ullIndex, ip)
    <3>2. f.ch = ullIndex
      BY DEF FirstFrame
    <3> HIDE DEF f
    <3>3. CASE c = ullIndex
      <4>1. wire'[c] = <<f>>
        BY <1>1, <3>1, <3>3 DEF f
      <4> QED BY <3>2, <3>3, <4>1
    <3>4. CASE c # ullIndex
      BY <1>1, <3>1, <3>4 DEF OneLife
    <3> QED BY <3>3, <3>4
  <2> QED BY <2>1, <2>3, <2>4, <2>6, <2>7, <2>8 DEF OneLife
<1>3. CASE ~Connect(h)
  <2>1. Reports(h) /\ UNCHANGED <<mapAC, group, ullIndex, queue>>
    BY <1>3, HostStepReports DEF busVars, commuVars
  <2>2. CASE wire' = wire
    BY <2>1, <2>2 DEF OneLife
  <2>3. ASSUME cur[h] \in Channel, NEW b \in {"UMI", "UDR"},
               wire' = [wire EXCEPT ![cur[h]] =
                          Append(wire[cur[h]], Frame("RECV", cur[h], b, None))]
        PROVE  OneLife(c)'
    <3> DEFINE f == Frame("RECV", cur[h], b, None)
    <3>1. f.ch = cur[h]
      BY DEF Frame
    <3>2. wire' = [wire EXCEPT ![cur[h]] = Append(wire[cur[h]], f)]
      BY <2>3
    <3> HIDE DEF f
    <3>3. wire[c] \in Seq(WireMsg)
      BY <1>1
    <3>4. \A i \in DOMAIN Append(wire[c], f) :
            Append(wire[c], f)[i] = f
            \/ (i \in DOMAIN wire[c] /\ Append(wire[c], f)[i] = wire[c][i])
      BY <3>3, AppendAt
    <3>5. \A i \in DOMAIN wire'[c] : wire'[c][i].ch = c
      <4>1. CASE cur[h] = c
        <5>1. wire'[c] = Append(wire[c], f)
          BY <1>1, <3>2, <4>1
        <5> QED BY <3>1, <3>4, <4>1, <5>1 DEF OneLife
      <4>2. CASE cur[h] # c
        BY <1>1, <2>3, <3>2, <4>2 DEF OneLife
      <4> QED BY <4>1, <4>2
    <3> QED BY <2>1, <3>5 DEF OneLife
  <2> QED BY <2>1, <2>2, <2>3 DEF Reports
<1> QED BY <1>2, <1>3
-----------------------------------------------------------------------------
(* No request and no announcement comes behind the end of its channel. *)

\* What is left of the queue of a module whose handler runs.
LEMMA ActsTakes ==
  ASSUME TypedBus, NEW m \in Module, Acts(m), NEW A, NEW B
  PROVE  /\ ~Lacks(queue[m], B) /\ Current(m) \notin B => ~Lacks(queue'[m], B)
         /\ Closes(queue[m], A, B) /\ Current(m) \in A => ~Lacks(queue'[m], B)
<1> DEFINE t == Tail(queue[m])
<1>1. queue[m] \in Seq(Msg) /\ queue[m] # <<>>
  BY DEF TypedBus, Acts
<1>2. t \in Seq(Msg)
  BY <1>1
<1>3. /\ ~Lacks(queue[m], B) /\ Current(m) \notin B => ~Lacks(t, B)
      /\ Closes(queue[m], A, B) /\ Current(m) \in A => ~Lacks(t, B)
  BY <1>1, TailKeeps DEF Current
<1>4. PICK posts \in Seq(MayPost(m)) : Handle(m, posts)
  BY DEF Acts
<1>5. \/ queue'[m] = t
      \/ queue'[m] = Append(t, Head(posts).msg)
  BY <1>1, <1>4, HandleEffect DEF Left
<1> HIDE DEF t
<1>6. \A e : ~Lacks(t, B) => ~Lacks(Append(t, e), B)
  BY <1>2, AppendKeeps
<1> QED BY <1>3, <1>5, <1>6

\* Any step but one of the authentication module.
LEMMA RequestsKept ==
  ASSUME TypedBus, NEW c \in Channel, RequestsClosed(c),
         NEW E, E \cap Asks(c) = {}, Adds("AUTH", E), rcCh' = rcCh,
         c \in mapAC => c \in mapAC' \/ Posting("COMMU", "AUTH", Freed(c))',
         Posting("COMMU", "AUTH", Freed(c)) =>
           \/ Posting("COMMU", "AUTH", Freed(c))'
           \/ Closes(queue'["AUTH"], Asks(c), Freed(c)) /\ ~Lacks(queue'["AUTH"], Freed(c))
  PROVE  RequestsClosed(c)'
<1>1. "AUTH" \in Module
  BY DEF Module
<1>2. /\ Closes(queue["AUTH"], Asks(c), Freed(c)) => Closes(queue'["AUTH"], Asks(c), Freed(c))
      /\ ~Lacks(queue["AUTH"], Freed(c)) => ~Lacks(queue'["AUTH"], Freed(c))
  BY <1>1, AddsKeeps
<1>3. Freed(c)' = Freed(c) /\ Asks(c)' = Asks(c)
  OBVIOUS
<1> QED BY <1>2, <1>3 DEF RequestsClosed

\* Any step but one of the update module.
LEMMA AnnouncesKept ==
  ASSUME TypedBus, NEW c \in Channel, AnnouncesClosed(c),
         NEW E, E \cap Announces(c) = {}, Adds("UPDATE", E), cuo' = cuo,
         c \in mapAC => c \in mapAC' \/ Posting("COMMU", "UPDATE", Gone(c))',
         Answering(c) =>
           c \in mapAC' \/ Answering(c)' \/ Posting("COMMU", "UPDATE", Gone(c))',
         Posting("COMMU", "UPDATE", Gone(c)) =>
           \/ Posting("COMMU", "UPDATE", Gone(c))'
           \/ /\ Closes(queue'["UPDATE"], Announces(c), Gone(c))
              /\ ~Lacks(queue'["UPDATE"], Gone(c))
  PROVE  AnnouncesClosed(c)'
<1>1. "UPDATE" \in Module
  BY DEF Module
<1>2. /\ Closes(queue["UPDATE"], Announces(c), Gone(c))
           => Closes(queue'["UPDATE"], Announces(c), Gone(c))
      /\ ~Lacks(queue["UPDATE"], Gone(c)) => ~Lacks(queue'["UPDATE"], Gone(c))
  BY <1>1, AddsKeeps
<1> QED BY <1>2 DEF AnnouncesClosed

\* What a step does not touch stays to be posted.
LEMMA PostingStays ==
  ASSUME NEW s, NEW n, NEW S, out'[s] = out[s], Posting(s, n, S)
  PROVE  Posting(s, n, S)'
BY DEF Posting

\* The two invariants about the order of messages.
Ordered(c) == RequestsClosed(c) /\ AnnouncesClosed(c)

\* A step that leaves the maps and the posts of both posting modules alone.
LEMMA OrderKept ==
  ASSUME TypedBus, NEW c \in Channel, Ordered(c),
         NEW E, E \cap Asks(c) = {}, E \cap Announces(c) = {},
         Adds("AUTH", E), Adds("UPDATE", E), NEW F, Adds("COMMU", F),
         UNCHANGED <<rcCh, cuo, mapAC>>,
         out'["COMMU"] = out["COMMU"], out'["AUTH"] = out["AUTH"]
  PROVE  Ordered(c)'
<1>1. RequestsClosed(c)'
  BY RequestsKept, PostingStays DEF Ordered
<1>2. Answering(c) => Answering(c)'
  <2>1. "COMMU" \in Module /\ F \cap {} = {}
    BY DEF Module
  <2>2. ~Lacks(queue["COMMU"], Sends(c)) => ~Lacks(queue'["COMMU"], Sends(c))
    BY <2>1, AddsKeeps
  <2> QED BY <2>2, PostingStays DEF Answering
<1>3. AnnouncesClosed(c)'
  BY <1>2, AnnouncesKept, PostingStays DEF Ordered
<1> QED BY <1>1, <1>3 DEF Ordered

\* Messages a module or the controller adds are no requests; only the
\* authentication module adds announcements.
LEMMA PlainIsNo ==
  ASSUME NEW c \in Channel
  PROVE  /\ Plain \cap Asks(c) = {} /\ Plain \cap Announces(c) = {}
         /\ Inner \cap Asks(c) = {}
         /\ Asks(c) \cap Freed(c) = {} /\ Announces(c) \cap Gone(c) = {}
BY DEF Plain, Inner, Asks, Announces, Freed, Gone, Notice

\* The select loop reads a request while its channel is in the group.
LEMMA SelectStepOrder ==
  ASSUME Typed, NEW c \in Channel, OneLife(c), Ordered(c),
         NEW d \in Channel, OneLife(d), SelectStep(d)
  PROVE  Ordered(c)'
<1>1. /\ UNCHANGED <<rcCh, cuo>> /\ TypedBus
      /\ "AUTH" \in Module /\ "UPDATE" \in Module /\ "COMMU" \in Module
  BY DEF SelectStep, authVars, updVars, routeVars, Typed, Module
<1>2. CASE ReadData(d)
  <2> DEFINE f == Head(wire[d])
  <2>1. /\ f.kind = "RECV" /\ UNCHANGED <<mapAC, out>> /\ f = wire[d][1] /\ wire[d] # <<>>
        /\ d \in group
        /\ queue'[Reader(f)] = Append(queue[Reader(f)], f)
        /\ \A n \in Module : n # Reader(f) => queue'[n] = queue[n]
    BY <1>2, ReadDataAdds
  <2>2. f.ch = d /\ d \in mapAC
    <3>1. wire[d] \in Seq(WireMsg)
      BY DEF Typed, TypedNet
    <3>2. 1 \in DOMAIN wire[d]
      BY <2>1, <3>1
    <3> QED BY <2>1, <3>2 DEF OneLife
  <2> HIDE DEF f
  <2>3. \A n \in Module : Adds(n, {f})
    BY <2>1 DEF Adds
  <2>4. {f} \cap Announces(c) = {} /\ (d # c => {f} \cap Asks(c) = {})
    BY <2>1, <2>2 DEF Announces, Asks
  <2>5. CASE d # c
    BY <1>1, <2>1, <2>3, <2>4, <2>5, OrderKept
  <2>6. CASE d = c
    BY <2>1, <2>2, <2>6 DEF Ordered, RequestsClosed, AnnouncesClosed
  <2> QED BY <2>5, <2>6
<1>3. CASE OnDel(d)
  <2>1. /\ queue'["COMMU"] = Append(queue["COMMU"], Notice("DEL", d))
        /\ \A n \in Module : n # "COMMU" => queue'[n] = queue[n]
        /\ UNCHANGED <<out, mapAC>>
    BY <1>3, OnDelAdds
  <2>2. Adds("AUTH", {}) /\ Adds("UPDATE", {}) /\ Adds("COMMU", {Notice("DEL", d)})
    BY <1>1, <2>1 DEF Adds
  <2>3. {} \cap Asks(c) = {} /\ {} \cap Announces(c) = {}
    OBVIOUS
  <2> QED BY <1>1, <2>1, <2>2, <2>3, OrderKept
<1> QED BY <1>2, <1>3 DEF SelectStep

\* A host adds to the queue of the communication module only.
LEMMA HostStepOrder ==
  ASSUME Typed, NEW c \in Channel, Ordered(c), NEW h \in Host, HostStep(h)
  PROVE  Ordered(c)'
<1>1. UNCHANGED <<rcCh, cuo>> /\ TypedBus /\ {} \cap Asks(c) = {} /\ {} \cap Announces(c) = {}
  BY DEF HostStep, authVars, updVars, routeVars, Typed
<1>2. CASE Connect(h)
  <2>1. /\ queue'["COMMU"] = Append(queue["COMMU"], Notice("NEW", ullIndex))
        /\ \A n \in Module : n # "COMMU" => queue'[n] = queue[n]
        /\ UNCHANGED <<out, mapAC>>
    BY <1>2, ConnectAdds
  <2>2. Adds("AUTH", {}) /\ Adds("UPDATE", {}) /\ Adds("COMMU", {Notice("NEW", ullIndex)})
    BY <2>1 DEF Adds, Module
  <2> QED BY <1>1, <2>1, <2>2, OrderKept
<1>3. CASE ~Connect(h)
  <2>1. UNCHANGED <<queue, out, mapAC>>
    BY <1>3, HostStepReports DEF busVars, commuVars
  <2>2. Adds("AUTH", {}) /\ Adds("UPDATE", {}) /\ Adds("COMMU", {})
    BY <2>1 DEF Adds
  <2> QED BY <1>1, <2>1, <2>2, OrderKept
<1> QED BY <1>2, <1>3

\* So do the activation module, the controller, the timer, and time itself: they
\* make neither requests nor announcements.
LEMMA OtherStepOrder ==
  ASSUME Typed, PostsAllowed, NEW c \in Channel, Ordered(c),
         \/ ActiveStep \/ KafkaStep \/ TimerStep
         \/ (\E d \in Channel : GiveUpStep(d)) \/ UNCHANGED vars
  PROVE  Ordered(c)'
<1>1. /\ UNCHANGED <<rcCh, cuo, mapAC>> /\ TypedBus
      /\ "AUTH" \in Module /\ "UPDATE" \in Module /\ "COMMU" \in Module
  BY DEF ActiveStep, KafkaStep, TimerStep, OnTimer, GiveUpStep, GiveUp, vars, authVars,
         updVars, routeVars, commuVars, Typed, Module
<1>2. /\ Adds("AUTH", Plain) /\ Adds("UPDATE", Plain) /\ Adds("COMMU", Plain)
      /\ out'["COMMU"] = out["COMMU"] /\ out'["AUTH"] = out["AUTH"]
  <2>1. CASE ActiveStep
    BY <1>1, <2>1, ActiveStepPlain DEF PlainStep
  <2>2. CASE KafkaStep
    BY <1>1, <2>2, KafkaStepPlain DEF PlainStep
  <2>3. CASE TimerStep \/ (\E d \in Channel : GiveUpStep(d)) \/ UNCHANGED vars
    BY <2>3 DEF TimerStep, OnTimer, GiveUpStep, GiveUp, vars, busVars, Adds
  <2> QED BY <2>1, <2>2, <2>3
<1> QED BY <1>1, <1>2, PlainIsNo, OrderKept

\* A later post brings what was announced to the end of its queue.
LEMMA PostStepOrder ==
  ASSUME Typed, PostsAllowed, NEW c \in Channel, Ordered(c), NEW m \in Module, PostStep(m)
  PROVE  Ordered(c)'
<1>1. /\ UNCHANGED <<rcCh, cuo, mapAC>> /\ TypedBus /\ Dispatch(m)
      /\ "AUTH" \in Module /\ "UPDATE" \in Module /\ "COMMU" \in Module
  BY DEF PostStep, authVars, updVars, routeVars, commuVars, Typed, Module
<1>2. \A n \in Module : Adds(n, Plain)
  <2> SUFFICES ASSUME NEW n \in Module PROVE Adds(n, Plain)
    OBVIOUS
  <2>1. PICK k \in Module : k # n
    BY <1>1
  <2> QED BY <2>1, PostStepPlain DEF PlainStep
<1>3. RequestsClosed(c)'
  <2>1. Posting("COMMU", "AUTH", Freed(c)) =>
          \/ Posting("COMMU", "AUTH", Freed(c))'
          \/ Closes(queue'["AUTH"], Asks(c), Freed(c)) /\ ~Lacks(queue'["AUTH"], Freed(c))
    BY <1>1, PlainIsNo, PostingMoves DEF Posting
  <2> QED BY <1>1, <1>2, <2>1, PlainIsNo, RequestsKept DEF Ordered
<1>4. Answering(c) => Answering(c)'
  <2>1. Plain \cap {} = {} /\ {} \cap Sends(c) = {}
    OBVIOUS
  <2>2. ~Lacks(queue["COMMU"], Sends(c)) => ~Lacks(queue'["COMMU"], Sends(c))
    BY <1>1, <1>2, <2>1, AddsKeeps
  <2>3. Posting("AUTH", "COMMU", Sends(c)) =>
          Posting("AUTH", "COMMU", Sends(c))' \/ ~Lacks(queue'["COMMU"], Sends(c))
    BY <1>1, <2>1, PostingMoves DEF Posting
  <2> QED BY <2>2, <2>3 DEF Answering
<1>5. AnnouncesClosed(c)'
  <2>1. Posting("COMMU", "UPDATE", Gone(c)) =>
          \/ Posting("COMMU", "UPDATE", Gone(c))'
          \/ /\ Closes(queue'["UPDATE"], Announces(c), Gone(c))
             /\ ~Lacks(queue'["UPDATE"], Gone(c))
    BY <1>1, PlainIsNo, PostingMoves DEF Posting
  <2> QED BY <1>1, <1>2, <1>4, <2>1, PlainIsNo, AnnouncesKept DEF Ordered
<1> QED BY <1>3, <1>5 DEF Ordered

\* When the communication module drops a channel or fails to send to it, the
\* news for both modules are what it posts next.
LEMMA CommuStepOrder ==
  ASSUME Typed, PostsAllowed, NEW c \in Channel, Ordered(c), CommuStep
  PROVE  Ordered(c)'
<1> DEFINE m == Current("COMMU")
<1>1. /\ UNCHANGED <<rcCh, cuo>> /\ TypedBus /\ Acts("COMMU") /\ queue["COMMU"] # <<>>
      /\ "AUTH" \in Module /\ "UPDATE" \in Module /\ "COMMU" \in Module
      /\ out["COMMU"] = <<>> /\ out'["AUTH"] = out["AUTH"]
      /\ Adds("AUTH", Plain) /\ Adds("UPDATE", Plain)
  <2>1. UNCHANGED <<rcCh, cuo>>
    BY DEF CommuStep, authVars, updVars, routeVars
  <2>2. TypedBus /\ "AUTH" \in Module /\ "UPDATE" \in Module /\ "COMMU" \in Module
    BY DEF Typed, Module
  <2>3. PlainStep("COMMU") /\ out["COMMU"] = <<>> /\ out'["AUTH"] = out["AUTH"]
    BY CommuStepPlain
  <2>4. Acts("COMMU")
    BY CommuActs
  <2> QED BY <2>1, <2>2, <2>3, <2>4 DEF PlainStep, Acts
<1>2. \A n, S : ~Posting("COMMU", n, S)
  BY <1>1 DEF Posting
<1>3. ASSUME NEW k \in {"FREED", "FAIL"}, Handle("COMMU", Broadcast(Notice(k, c)))
      PROVE  /\ Posting("COMMU", "UPDATE", Gone(c))'
             /\ k = "FREED" => Posting("COMMU", "AUTH", Freed(c))'
  <2> DEFINE a == To("AUTH", Notice(k, c))
             u == To("UPDATE", Notice(k, c))
             x == To("ACTIVE", Notice(k, c))
  <2>1. /\ a.to = "AUTH" /\ u.to = "UPDATE" /\ u.msg \in Gone(c)
        /\ k = "FREED" => a.msg \in Freed(c)
        /\ Broadcast(Notice(k, c)) = <<x, a, u>>
    BY <1>3 DEF To, Gone, Freed, Broadcast
  <2> HIDE DEF a, u, x
  <2>2. <<x, a, u>> \in Seq({x, a, u}) /\ <<x, a, u>> # <<>> /\ Tail(<<x, a, u>>) = <<a, u>>
    OBVIOUS
  <2> DEFINE posts == <<x, a, u>>
  <2>6. posts \in Seq({x, a, u}) /\ posts # <<>> /\ Tail(posts) = <<a, u>>
        /\ Handle("COMMU", posts)
    BY <1>3, <2>1, <2>2
  <2> HIDE DEF posts
  <2>7. out' = [out EXCEPT !["COMMU"] = Tail(posts)]
    BY <1>1, <2>6, HandleEffect
  <2>3. out' = [out EXCEPT !["COMMU"] = <<a, u>>]
    BY <2>6, <2>7
  <2>4. out'["COMMU"] = <<a, u>>
    BY <1>1, <2>3 DEF TypedBus
  <2>5. 1 \in DOMAIN <<a, u>> /\ 2 \in DOMAIN <<a, u>> /\ <<a, u>>[1] = a /\ <<a, u>>[2] = u
    OBVIOUS
  <2> QED BY <2>1, <2>4, <2>5 DEF Posting
<1>4. c \in mapAC => c \in mapAC' \/ (/\ Posting("COMMU", "UPDATE", Gone(c))'
                                      /\ Posting("COMMU", "AUTH", Freed(c))')
  <2> SUFFICES ASSUME c \in mapAC, c \notin mapAC'
               PROVE  /\ Posting("COMMU", "UPDATE", Gone(c))'
                      /\ Posting("COMMU", "AUTH", Freed(c))'
    OBVIOUS
  <2>1. Handle("COMMU", Broadcast(Notice("FREED", c)))
    BY DEF CommuStep, CommuHandler, OnNewChannel, OnNewChannelFull, OnDelChannel,
           OnFreeChannel, SendData2Channel, SendDataFail, commuVars
  <2> QED BY <1>3, <2>1
<1>5. Answering(c) =>
        c \in mapAC' \/ Answering(c)' \/ Posting("COMMU", "UPDATE", Gone(c))'
  <2>1. CASE m \notin Sends(c)
    <3>1. ~Lacks(queue["COMMU"], Sends(c)) => ~Lacks(queue'["COMMU"], Sends(c))
      BY <1>1, <2>1, ActsTakes
    <3> QED BY <1>1, <3>1, PostingStays DEF Answering
  <2>2. CASE m \in Sends(c)
    <3>1. m.kind = "SEND" /\ m.ch = c
      BY <2>2 DEF Sends
    <3>2. SendData2Channel \/ SendDataFail
      BY <3>1 DEF CommuStep, CommuHandler, OnNewChannel, OnNewChannelFull, OnDelChannel,
                  OnFreeChannel, Ready
    <3>3. CASE SendData2Channel
      BY <3>1, <3>3 DEF SendData2Channel
    <3>4. CASE SendDataFail
      BY <1>3, <3>1, <3>4 DEF SendDataFail
    <3> QED BY <3>2, <3>3, <3>4
  <2> QED BY <2>1, <2>2
<1>6. RequestsClosed(c)'
  BY <1>1, <1>2, <1>4, PlainIsNo, RequestsKept DEF Ordered
<1>7. AnnouncesClosed(c)'
  BY <1>1, <1>2, <1>4, <1>5, PlainIsNo, AnnouncesKept DEF Ordered
<1> QED BY <1>6, <1>7 DEF Ordered

\* The authentication module adds an announcement to the queue of the update
\* module, ahead of the answer it has still to post, or nothing.
LEMMA AuthAnnounces ==
  ASSUME Typed, AuthStep
  PROVE  \/ queue'["UPDATE"] = queue["UPDATE"]
         \/ \E d \in Channel, r \in Rid :
              /\ queue'["UPDATE"] = Append(queue["UPDATE"], Frame("AUTH_SUC", d, "-", r))
              /\ out'["AUTH"] = <<Send(d, "AUTH_SUC", r)>>
<1>1. /\ TypedBus /\ queue["AUTH"] # <<>> /\ "AUTH" \in Module /\ "UPDATE" \in Module
  BY AuthPosts DEF Typed, Module
<1>2. ASSUME NEW posts \in Seq(QuietPost), Handle("AUTH", posts)
      PROVE  queue'["UPDATE"] = queue["UPDATE"]
  <2>1. posts # <<>> => Head(posts).to # "UPDATE"
    BY DEF QuietPost
  <2>2. queue'["UPDATE"] = Left("AUTH", "UPDATE")
    BY <1>1, <1>2, <2>1, HandleEffect
  <2> QED BY <2>2 DEF Left
<1>3. ASSUME NEW d \in Channel, NEW r \in Rid, Handle("AUTH", Accepted(d, r))
      PROVE  /\ queue'["UPDATE"] = Append(queue["UPDATE"], Frame("AUTH_SUC", d, "-", r))
             /\ out'["AUTH"] = <<Send(d, "AUTH_SUC", r)>>
  <2>1. /\ queue'["UPDATE"] = Append(queue["UPDATE"], Frame("AUTH_SUC", d, "-", r))
        /\ out' = [out EXCEPT !["AUTH"] = <<Send(d, "AUTH_SUC", r)>>]
    BY <1>1, <1>3, AcceptedEffect
  <2> QED BY <1>1, <2>1 DEF TypedBus
<1> QED BY <1>2, <1>3, AuthPosts

\* An id is bound to the channel of the request that is handled, so the end of
\* that channel is still to be handled; and an announcement goes ahead of an
\* answer over the channel announced.
LEMMA AuthStepOrder ==
  ASSUME Typed, PostsAllowed, OwnerMapsInverse, NEW c \in Channel, Ordered(c), AuthStep
  PROVE  Ordered(c)'
<1> DEFINE m == Current("AUTH")
<1>1. /\ UNCHANGED <<mapAC, cuo>> /\ TypedBus
      /\ "AUTH" \in Module /\ "UPDATE" \in Module /\ "COMMU" \in Module
  BY DEF AuthStep, updVars, routeVars, commuVars, Typed, Module
<1>2. /\ Gets("AUTH", Inner) /\ Adds("UPDATE", Inner) /\ Adds("COMMU", Inner)
      /\ out'["COMMU"] = out["COMMU"] /\ out["AUTH"] = <<>>
      /\ Acts("AUTH")
  BY <1>1, AuthStepInner, AuthActs
<1>3. RequestsClosed(c)'
  <2>1. c \in mapAC \/ Posting("COMMU", "AUTH", Freed(c)) => RequestsClosed(c)'
    BY <1>1, <1>2, PostingStays DEF RequestsClosed
  <2>2. CASE /\ Closes(queue["AUTH"], Asks(c), Freed(c))
             /\ \A r \in Rid : rcCh[r] = c => ~Lacks(queue["AUTH"], Freed(c))
    <3>1. Closes(queue'["AUTH"], Asks(c), Freed(c))
      BY <1>1, <1>2, <2>2, PlainIsNo, GetsKeeps
    <3>2. ASSUME NEW r \in Rid, rcCh'[r] = c
          PROVE  ~Lacks(queue'["AUTH"], Freed(c))
      <4>1. CASE m \in Freed(c)
        <5>1. m.kind = "FREED" /\ m.ch = c
          BY <4>1 DEF Freed, Notice
        <5>2. AuthForget(c)
          BY <5>1 DEF AuthStep, AuthHandler, RejectCode, RejectOther, DropBoth, BindChannel,
                      OnAuthAck, AuthOnSendChannelDataFail, AuthOnChannelFreed, AuthRequest,
                      Ready
        <5>3. None \notin Channel
          BY DispatcherAssumption DEF Channel
        <5> QED BY <3>2, <5>2, <5>3 DEF AuthForget, OwnerMapsInverse
      <4>2. CASE m \notin Freed(c) /\ rcCh[r] = c
        BY <1>1, <1>2, <2>2, <4>2, ActsTakes
      <4>3. CASE rcCh[r] # c
        <5>1. BindChannel
          <6>1. None \notin Channel
            BY DispatcherAssumption DEF Channel
          <6> QED BY <3>2, <4>3, <6>1
                  DEF AuthStep, AuthHandler, RejectCode, RejectOther, DropBoth,
                      OnAuthAck, AuthOnSendChannelDataFail, AuthOnChannelFreed, AuthForget,
                      authVars
        <5>2. m.kind = "RECV" /\ m.ch = c
          BY <3>2, <4>3, <5>1 DEF BindChannel, AuthRequest, Ready, Typed, AuthTypeOK
        <5>3. m \in Msg
          <6>1. queue["AUTH"] # <<>> /\ queue["AUTH"] \in Seq(Msg)
            BY <1>1, <1>2 DEF TypedBus, Acts
          <6> QED BY <6>1 DEF Current
        <5>4. m \in Asks(c)
          BY <5>2, <5>3 DEF Asks
        <5> QED BY <1>1, <1>2, <2>2, <5>4, ActsTakes
      <4> QED BY <4>1, <4>2, <4>3
    <3> QED BY <3>1, <3>2 DEF RequestsClosed
  <2> QED BY <2>1, <2>2 DEF Ordered, RequestsClosed
<1>4. Answering(c) => Answering(c)'
  <2>1. Inner \cap {} = {}
    OBVIOUS
  <2>2. ~Lacks(queue["COMMU"], Sends(c)) => ~Lacks(queue'["COMMU"], Sends(c))
    BY <1>1, <1>2, <2>1, AddsKeeps
  <2>3. ~Posting("AUTH", "COMMU", Sends(c))
    BY <1>2 DEF Posting
  <2> QED BY <2>2, <2>3 DEF Answering
<1>5. Adds("UPDATE", Inner \ Announces(c)) \/ Answering(c)'
  <2>1. CASE queue'["UPDATE"] = queue["UPDATE"]
    BY <2>1 DEF Adds
  <2>2. ASSUME NEW d \in Channel, NEW r \in Rid,
               queue'["UPDATE"] = Append(queue["UPDATE"], Frame("AUTH_SUC", d, "-", r)),
               out'["AUTH"] = <<Send(d, "AUTH_SUC", r)>>
        PROVE  Adds("UPDATE", Inner \ Announces(c)) \/ Answering(c)'
    <3> DEFINE e == Frame("AUTH_SUC", d, "-", r)
               p == Send(d, "AUTH_SUC", r)
    <3>1. e \in Inner /\ e.ch = d
      BY DEF Frame, Inner, Msg, Kind, Body
    <3>2. p.to = "COMMU" /\ p.msg \in Sends(d)
      BY DEF Send, To, Frame, Sends, Msg, Kind, Body
    <3> HIDE DEF e, p
    <3>3. CASE d # c
      <4>1. e \in Inner \ Announces(c)
        BY <3>1, <3>3 DEF Announces
      <4> QED BY <2>2, <4>1 DEF Adds, e
    <3>4. CASE d = c
      <4>1. out'["AUTH"] = <<p>> /\ 1 \in DOMAIN <<p>> /\ <<p>>[1] = p
        BY <2>2 DEF p
      <4> QED BY <3>2, <3>4, <4>1 DEF Answering, Posting
    <3> QED BY <3>3, <3>4
  <2> QED BY <2>1, <2>2, AuthAnnounces
<1>6. AnnouncesClosed(c)'
  BY <1>1, <1>2, <1>4, <1>5, PostingStays, AnnouncesKept DEF Ordered, AnnouncesClosed
<1> QED BY <1>3, <1>6 DEF Ordered

\* An entry is made for the channel of the announcement that is handled, so the
\* end of that channel is still to be handled.
LEMMA UpdateStepOrder ==
  ASSUME Typed, PostsAllowed, NEW c \in Channel, Ordered(c), UpdateStep
  PROVE  Ordered(c)'
<1> DEFINE m == Current("UPDATE")
<1>1. /\ UNCHANGED <<mapAC, rcCh>> /\ TypedBus /\ {} \cap Asks(c) = {} /\ Plain \cap {} = {}
      /\ "AUTH" \in Module /\ "UPDATE" \in Module /\ "COMMU" \in Module
  BY DEF UpdateStep, authVars, commuVars, Typed, Module
<1>2. /\ Gets("UPDATE", Plain) /\ Adds("AUTH", Plain) /\ Adds("COMMU", Plain)
      /\ out'["COMMU"] = out["COMMU"] /\ out'["AUTH"] = out["AUTH"]
  BY <1>1, UpdateStepPlain DEF PlainStep
<1>3. RequestsClosed(c)'
  BY <1>1, <1>2, PlainIsNo, PostingStays, RequestsKept DEF Ordered
<1>4. Answering(c) => Answering(c)'
  <2>1. ~Lacks(queue["COMMU"], Sends(c)) => ~Lacks(queue'["COMMU"], Sends(c))
    BY <1>1, <1>2, AddsKeeps
  <2> QED BY <1>2, <2>1, PostingStays DEF Answering
<1>5. AnnouncesClosed(c)'
  <2>1. c \in mapAC \/ Posting("COMMU", "UPDATE", Gone(c)) \/ Answering(c)
          => AnnouncesClosed(c)'
    BY <1>1, <1>2, <1>4, PostingStays DEF AnnouncesClosed
  <2>2. CASE \E d \in Channel : SendKeepAlive(d)
    <3>1. Adds("UPDATE", Plain) /\ cuo' = cuo
      BY <2>2, KeepAlivePlain, <1>1 DEF Ordered, SendKeepAlive, routeVars
    <3> QED BY <1>1, <1>2, <1>4, <3>1, PlainIsNo, PostingStays, AnnouncesKept DEF Ordered
  <2>3. CASE /\ \A d \in Channel : ~SendKeepAlive(d)
             /\ Closes(queue["UPDATE"], Announces(c), Gone(c))
             /\ cuo[c] # None => ~Lacks(queue["UPDATE"], Gone(c))
    <3>1. Closes(queue'["UPDATE"], Announces(c), Gone(c))
      BY <1>1, <1>2, <2>3, PlainIsNo, GetsKeeps
    <3>2. Acts("UPDATE")
      BY <2>3, UpdateActs
    <3>3. ASSUME cuo'[c] # None
          PROVE  ~Lacks(queue'["UPDATE"], Gone(c))
      <4>1. CASE m \in Gone(c)
        <5>1. m.kind \in {"FREED", "FAIL"} /\ m.ch = c
          BY <4>1 DEF Gone, Notice
        <5>2. UpdForget(c)
          BY <2>3, <5>1 DEF UpdateStep, UpdateHandler, OnAuthSuc, UpdOnSendChannelDataFail,
               UpdOnChannelFreed, OnUpdateFromKafka, OnRecvAodsData, UpdReady, Ready
        <5> QED BY <3>3, <5>2 DEF UpdForget, Typed, UpdTypeOK
      <4>2. CASE m \notin Gone(c) /\ cuo[c] # None
        BY <1>1, <2>3, <3>2, <4>2, ActsTakes
      <4>3. CASE cuo[c] = None
        <5>1. OnAuthSuc
          BY <2>3, <3>3, <4>3
             DEF UpdateStep, UpdateHandler, UpdOnSendChannelDataFail, UpdOnChannelFreed,
                 UpdForget, OnUpdateFromKafka, OnRecvAodsData, updVars, routeVars, Typed,
                 UpdTypeOK
        <5>2. m.kind = "AUTH_SUC" /\ m.ch = c
          BY <3>3, <4>3, <5>1 DEF OnAuthSuc, UpdReady, Ready, Typed, UpdTypeOK
        <5>3. m \in Msg
          <6>1. queue["UPDATE"] # <<>> /\ queue["UPDATE"] \in Seq(Msg)
            BY <1>1, <3>2 DEF TypedBus, Acts
          <6> QED BY <6>1 DEF Current
        <5>4. m \in Announces(c)
          BY <5>2, <5>3 DEF Announces
        <5> QED BY <1>1, <2>3, <3>2, <5>4, ActsTakes
      <4> QED BY <4>1, <4>2, <4>3
    <3> QED BY <3>1, <3>3 DEF AnnouncesClosed
  <2> QED BY <2>1, <2>2, <2>3 DEF Ordered, AnnouncesClosed
<1> QED BY <1>3, <1>5 DEF Ordered
-----------------------------------------------------------------------------
(* The theorems. *)

\* Nothing is on its way at the start.
LEMMA InitRelease == Init => ReleaseInv
<1> SUFFICES ASSUME Init PROVE ReleaseInv
  OBVIOUS
<1>1. /\ \A m \in Module : queue[m] = <<>> /\ out[m] = <<>>
      /\ \A c \in Channel : wire[c] = <<>> /\ cuo[c] = None
      /\ \A r \in Rid : rcCh[r] = None
      /\ mapAC = {} /\ group = {}
      /\ "AUTH" \in Module /\ "UPDATE" \in Module /\ "COMMU" \in Module
  BY DEF Init, BusInit, CommuInit, AuthInit, UpdInit, Module
<1>2. None \notin Channel
  BY DispatcherAssumption DEF Channel
<1>3. DOMAIN <<>> = {}
  OBVIOUS
<1>4. PostsAllowed
  <2>1. \A m : <<>> \in Seq(LaterPost(m))
    OBVIOUS
  <2> QED BY <1>1, <2>1 DEF PostsAllowed
<1>5. \A A, B : Lacks(<<>>, A) /\ Once(<<>>, A) /\ Closes(<<>>, A, B)
  BY <1>3 DEF Lacks, Once, Closes
<1>6. ASSUME NEW c \in Channel PROVE OneLife(c)
  BY <1>1, <1>3, <1>5 DEF OneLife
<1>7. ASSUME NEW c \in Channel PROVE RequestsClosed(c) /\ AnnouncesClosed(c)
  BY <1>1, <1>2, <1>5 DEF RequestsClosed, AnnouncesClosed
<1> QED BY <1>4, <1>6, <1>7 DEF ReleaseInv

\* Every step of the system keeps the invariant.
LEMMA NextRelease == Typed /\ OwnerMapsInverse /\ ReleaseInv /\ [Next]_vars => ReleaseInv'
<1> SUFFICES ASSUME Typed, OwnerMapsInverse, ReleaseInv, [Next]_vars PROVE ReleaseInv'
  OBVIOUS
<1>1. PostsAllowed /\ \A c \in Channel : OneLife(c) /\ Ordered(c)
  BY DEF ReleaseInv, Ordered
<1>2. SUFFICES PostsAllowed' /\ \A c \in Channel : OneLife(c)' /\ Ordered(c)'
  BY DEF ReleaseInv, Ordered
<1>3. "COMMU" \in Module /\ "AUTH" \in Module /\ "UPDATE" \in Module /\ "ACTIVE" \in Module
  BY DEF Module
<1>4. ASSUME Gets("COMMU", Plain) \/ Gets("COMMU", Inner),
             UNCHANGED <<mapAC, group, ullIndex, wire>>
      PROVE  \A c \in Channel : OneLife(c)'
  <2>1. Gets("COMMU", Inner)
    BY <1>4, MailIsInner DEF Gets
  <2> QED BY <1>1, <1>4, <2>1, LifeKept
<1>5. CASE CommuStep
  BY <1>1, <1>5, CommuStepPlain, CommuStepLife, CommuStepOrder DEF PlainStep
<1>6. CASE AuthStep
  <2>1. UNCHANGED <<mapAC, group, ullIndex, wire>>
    BY <1>6 DEF AuthStep, commuVars, netVars
  <2> QED BY <1>1, <1>3, <1>4, <1>6, <2>1, AuthStepInner, AuthStepOrder
<1>7. CASE UpdateStep
  <2>1. UNCHANGED <<mapAC, group, ullIndex, wire>>
    BY <1>7 DEF UpdateStep, commuVars, netVars
  <2> QED BY <1>1, <1>3, <1>4, <1>7, <2>1, UpdateStepPlain, UpdateStepOrder DEF PlainStep
<1>8. CASE ActiveStep
  <2>1. UNCHANGED <<mapAC, group, ullIndex, wire>>
    BY <1>8 DEF ActiveStep, commuVars, netVars
  <2> QED BY <1>1, <1>3, <1>4, <1>8, <2>1, ActiveStepPlain, OtherStepOrder DEF PlainStep
<1>9. CASE KafkaStep
  <2>1. UNCHANGED <<mapAC, group, ullIndex, wire>>
    BY <1>9 DEF KafkaStep, commuVars, netVars
  <2> QED BY <1>1, <1>3, <1>4, <1>9, <2>1, KafkaStepPlain, OtherStepOrder DEF PlainStep
<1>10. CASE \E m \in Module : PostStep(m)
  <2>1. UNCHANGED <<mapAC, group, ullIndex, wire>>
    BY <1>10 DEF PostStep, commuVars, netVars
  <2> QED BY <1>1, <1>3, <1>4, <1>10, <2>1, PostStepPlain, PostStepOrder DEF PlainStep
<1>11. CASE TimerStep \/ (\E d \in Channel : GiveUpStep(d)) \/ UNCHANGED vars
  <2>1. UNCHANGED <<mapAC, group, ullIndex, wire, busVars>>
    BY <1>11 DEF TimerStep, OnTimer, GiveUpStep, GiveUp, vars, commuVars, netVars, busVars
  <2> QED BY <1>1, <1>3, <1>4, <1>11, <2>1, BusSame, OtherStepOrder DEF PlainStep
<1>12. CASE \E d \in Channel : SelectStep(d)
  <2>1. PICK d \in Channel : SelectStep(d)
    BY <1>12
  <2>2. out' = out
    BY <2>1, ReadDataAdds, OnDelAdds DEF SelectStep
  <2> QED BY <1>1, <2>1, <2>2, SelectStepLife, SelectStepOrder DEF PostsAllowed
<1>13. CASE \E h \in Host : HostStep(h)
  <2>1. PICK h \in Host : HostStep(h)
    BY <1>13
  <2>2. out' = out
    BY <2>1, ConnectAdds, HostStepReports DEF busVars
  <2> QED BY <1>1, <2>1, <2>2, HostStepLife, HostStepOrder DEF PostsAllowed
<1> QED BY <1>5, <1>6, <1>7, <1>8, <1>9, <1>10, <1>11, <1>12, <1>13 DEF Next

\* The messages about a channel keep their order: its end is always behind the
\* requests that came over it and behind its announcement.
THEOREM ReleaseAlways == Spec => []ReleaseInv
<1>1. OwnerInv => OwnerMapsInverse
  BY DEF OwnerInv
<1> QED BY <1>1, InitRelease, NextRelease, TypedAlways, OwnerAlways, PTL DEF Spec

\* A message that a queue does not lack, or that is to be posted, is coming.
LEMMA GoneIsComing ==
  ASSUME NEW c \in Channel, NEW m, NEW S \in {Freed(c), Gone(c)},
         Posting("COMMU", m, S) \/ ~Lacks(queue[m], S), Typed
  PROVE  ReleaseComing(m, c)
<1>1. \A x \in S : x \in {Notice("FREED", c), Notice("FAIL", c)}
  BY DEF Freed, Gone
<1>2. CASE Posting("COMMU", m, S)
  <2>1. PICK i \in DOMAIN out["COMMU"] :
          out["COMMU"][i].to = m /\ out["COMMU"][i].msg \in S
    BY <1>2 DEF Posting
  <2>2. out["COMMU"][i] \in Post
    <3>1. out["COMMU"] \in Seq(GoodPost)
      BY DEF Typed, TypedBus, Module
    <3> QED BY <2>1, <3>1 DEF GoodPost
  <2>3. out["COMMU"][i] = To(m, out["COMMU"][i].msg)
    BY <2>1, <2>2 DEF To, Post
  <2> QED BY <1>1, <2>1, <2>3 DEF ReleaseComing, Coming
<1>3. CASE ~Lacks(queue[m], S)
  BY <1>1, <1>3 DEF Lacks, ReleaseComing, Coming
<1> QED BY <1>2, <1>3

\* No resource id is locked out: while an id is bound to a channel that is gone,
\* the release of that channel is on its way to the authentication module.
THEOREM NoIdLockedOut == Spec => []NoLockout
<1>1. Typed /\ ReleaseInv => NoLockout
  <2> SUFFICES ASSUME Typed, ReleaseInv, NEW r \in Rid, NEW c \in Channel, rcCh[r] = c,
                      c \notin mapAC
               PROVE  ReleaseComing("AUTH", c)
    BY DEF NoLockout
  <2>1. Posting("COMMU", "AUTH", Freed(c)) \/ ~Lacks(queue["AUTH"], Freed(c))
    BY DEF ReleaseInv, RequestsClosed
  <2> QED BY <2>1, GoneIsComing
<1> QED BY <1>1, TypedAlways, ReleaseAlways, PTL

\* An entry of m_mapCuo for a channel that is gone does not last, although the
\* channel may be gone before it is announced.
THEOREM StaleRoutesHeal == Spec => []StaleRouteHeals
<1>1. Typed /\ ReleaseInv => StaleRouteHeals
  <2> SUFFICES ASSUME Typed, ReleaseInv, NEW c \in Channel, cuo[c] # None, c \notin mapAC
               PROVE  ReleaseComing("UPDATE", c) \/ SendComing("AUTH", c)
    BY DEF StaleRouteHeals
  <2>1. \/ Posting("COMMU", "UPDATE", Gone(c)) \/ ~Lacks(queue["UPDATE"], Gone(c))
        \/ Answering(c)
    BY DEF ReleaseInv, AnnouncesClosed
  <2>2. Answering(c) => SendComing("AUTH", c)
    BY DEF Answering, Posting, Lacks, Sends, SendComing
  <2> QED BY <2>1, <2>2, GoneIsComing
<1> QED BY <1>1, TypedAlways, ReleaseAlways, PTL
=============================================================================
