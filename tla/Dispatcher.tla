----------------------------- MODULE Dispatcher -----------------------------
(***************************************************************************)
(* The module framework of util/ as the aodc process uses it: every module *)
(* is a thread with a message queue (CModule), and CModuleDispatcher posts *)
(* to one queue or, for a broadcast, to each queue in turn.                *)
(*                                                                         *)
(* A handler runs to its end before its thread takes the next message, but *)
(* the posts it makes are separate critical sections: other threads run    *)
(* between two of them.  out[m] holds the posts the handler of module m    *)
(* has still to make, in program order.  What a handler does up to its     *)
(* first post is seen by no other thread, so that one belongs to its step. *)
(*                                                                         *)
(* A queue is unbounded here.  What happens at the capacity of a module's  *)
(* buffer is the subject of module ModuleQueue.                            *)
(***************************************************************************)
EXTENDS Naturals, Sequences

CONSTANTS
  MaxChannel,  \* bound: connections accepted in one run of aodc
  Rid,         \* resource ids of the activated hosts
  Uuid,        \* request ids of activations
  Ip,          \* what a host reports as its set of addresses
  None         \* "no entry": end() of a map, an empty field

ASSUME DispatcherAssumption ==
  /\ MaxChannel \in Nat \ {0}
  /\ None \notin Nat \cup Rid \cup Uuid \cup Ip

Channel == 0 .. MaxChannel - 1

Module == {"COMMU", "ACTIVE", "AUTH", "UPDATE", "KAFKA"}

Kind == {"NEW", "DEL", "FREE", "SEND", "BUILDED", "RECV", "FAIL", "FREED",
         "AUTH_SUC", "SND2KAFKA", "RCVKAFKA"}

\* Frames between aodc and the hosts, then JSON objects on the kafka topics.
Body == {"-", "AUTH", "AUTH_BADCODE", "AUTH_SUC", "AUTH_FAI", "AUTH_DIF",
         "ACTV", "ACTV_SUC", "ACTV_ERR", "UMI", "UDR", "KEEPALIVE",
         "auth", "auth_ack", "auth_nak", "active", "active_ack",
         "active_nak", "active_suc", "check_update", "update",
         "update_result"}

Msg == [kind : Kind,
        ch   : Channel \cup {None},     \* channel name
        body : Body,
        key  : Rid \cup Uuid \cup {None},
        ip   : Ip \cup {None}]

Post == [to : Module, msg : Msg]

VARIABLES
  queue,  \* queue[m]: messages posted to module m, not yet handled
  out     \* out[m]: posts the running handler of module m has still to make

busVars == <<queue, out>>

BusTypeOK ==
  /\ queue \in [Module -> Seq(Msg)]
  /\ out \in [Module -> Seq(Post)]

BusInit ==
  /\ queue = [m \in Module |-> <<>>]
  /\ out = [m \in Module |-> <<>>]
-----------------------------------------------------------------------------
\* Messages.
Notice(kind, c) ==
  [kind |-> kind, ch |-> c, body |-> "-", key |-> None, ip |-> None]

Frame(kind, c, body, key) ==
  [kind |-> kind, ch |-> c, body |-> body, key |-> key, ip |-> None]

Json(kind, body, key) ==
  [kind |-> kind, ch |-> None, body |-> body, key |-> key, ip |-> None]

To(m, msg) == [to |-> m, msg |-> msg]

\* Posts of a broadcast, in the order of the module ids.  A module whose
\* message map has no entry for the message is left out: it would discard it.
Broadcast(msg) == <<To("ACTIVE", msg), To("AUTH", msg), To("UPDATE", msg)>>
-----------------------------------------------------------------------------
\* The message the thread of module m takes next.
Current(m) == Head(queue[m])

\* Module m has a message of kind k at the head and no handler running.
Ready(m, k) ==
  /\ out[m] = <<>>
  /\ queue[m] # <<>>
  /\ Current(m).kind = k

\* What post p makes of the queues q.
Posted(q, p) == [q EXCEPT ![p.to] = Append(@, p.msg)]

\* The handler of module m consumes its message and makes the first of these
\* posts.
Handle(m, posts) ==
  LET rest == [queue EXCEPT ![m] = Tail(@)]
  IN  IF posts = <<>>
      THEN queue' = rest /\ UNCHANGED out
      ELSE /\ queue' = Posted(rest, Head(posts))
           /\ out' = [out EXCEPT ![m] = Tail(posts)]

\* A thread that is not a module posts one message.
PostMsg(m, msg) ==
  /\ queue' = Posted(queue, To(m, msg))
  /\ UNCHANGED out

\* The running handler of module m makes its next post.
Dispatch(m) ==
  /\ out[m] # <<>>
  /\ queue' = Posted(queue, Head(out[m]))
  /\ out' = [out EXCEPT ![m] = Tail(@)]
=============================================================================
