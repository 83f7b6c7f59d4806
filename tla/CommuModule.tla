---------------------------- MODULE CommuModule ----------------------------
(***************************************************************************)
(* Server-side connections of aodc: the listening thread (CAoTcpServer),   *)
(* the communication module with its map of channels (CCommuModule), the   *)
(* select thread that reads sockets and notices dead ones                  *)
(* (CAoIoSelectGroup), and the TCP connection under a channel.             *)
(*                                                                         *)
(* Life of channel c: accepted (NEW posted) -> entered in mapAC and in the *)
(* select group, BUILDED announced -> its socket closed, by FREE or by the *)
(* other end -> dropped from the group by the select thread, DEL posted    *)
(* -> deleted from mapAC, FREED announced.  Names are never reused.        *)
(***************************************************************************)
EXTENDS Dispatcher, FiniteSets

\* Machines outside the model may fill the select groups (20 of 1024 sockets).
CONSTANT Crowded

ASSUME CommuAssumption == Crowded \in BOOLEAN

VARIABLES
  ullIndex,  \* index in the name of the next accepted channel
  mapAC,     \* channels with an entry in CCommuModule::m_mapAC
  group,     \* channels on the list of the select thread
  sock,      \* socket of a channel: "none", "open", "closed"
  peer,      \* other end: "none", "up", "fin" (closed), "gone" (no more
             \* packets from it: power or network lost)
  wire,      \* frames sent by the other end, not yet read
  inbox      \* frames sent to the other end, not yet read

netVars == <<peer, wire, inbox>>
commuVars == <<ullIndex, mapAC, group, sock>>

CommuTypeOK ==
  /\ ullIndex \in 0 .. MaxChannel
  /\ mapAC \in SUBSET Channel
  /\ group \in SUBSET Channel
  /\ sock \in [Channel -> {"none", "open", "closed"}]
  /\ peer \in [Channel -> {"none", "up", "fin", "gone"}]
  /\ wire \in [Channel -> Seq(Msg)]
  /\ inbox \in [Channel -> Seq(Msg)]

CommuInit ==
  /\ ullIndex = 0
  /\ mapAC = {}
  /\ group = {}
  /\ sock = [c \in Channel |-> "none"]
  /\ peer = [c \in Channel |-> "none"]
  /\ wire = [c \in Channel |-> <<>>]
  /\ inbox = [c \in Channel |-> <<>>]
-----------------------------------------------------------------------------
\* Mutant: the index of a listening socket wraps, names are used again.
AcceptWrap(frame) ==
  /\ ullIndex < MaxChannel
  /\ ullIndex' = (ullIndex + 1) % MaxChannel
  /\ sock' = [sock EXCEPT ![ullIndex] = "open"]
  /\ peer' = [peer EXCEPT ![ullIndex] = "up"]
  /\ wire' = [wire EXCEPT ![ullIndex] = <<frame>>]
  /\ PostMsg("COMMU", Notice("NEW", ullIndex))
  /\ UNCHANGED <<mapAC, group, inbox>>

\* CAoTcpServer::Run: a host connects and sends its first frame; the accepted
\* socket gets the next name and is handed to the communication module.
Accept(frame) ==
  /\ ullIndex < MaxChannel
  /\ ullIndex' = ullIndex + 1
  /\ sock' = [sock EXCEPT ![ullIndex] = "open"]
  /\ peer' = [peer EXCEPT ![ullIndex] = "up"]
  /\ wire' = [wire EXCEPT ![ullIndex] = <<frame>>]
  /\ PostMsg("COMMU", Notice("NEW", ullIndex))
  /\ UNCHANGED <<mapAC, group, inbox>>

\* CCommuModule::OnNewChannel.  Only the activation module has a handler for
\* BUILDED, so its broadcast is one post.  It precedes the entry in the select
\* group, hence any RECV of the channel.
OnNewChannel ==
  LET c == Current("COMMU").ch
  IN  /\ Ready("COMMU", "NEW")
      /\ mapAC' = mapAC \cup {c}
      /\ group' = group \cup {c}
      /\ Handle("COMMU", <<To("ACTIVE", Notice("BUILDED", c))>>)
      /\ UNCHANGED <<ullIndex, sock, peer, wire, inbox>>

\* The same when every select group is full: the channel is announced,
\* deleted again and its destructor announces that it is gone.
OnNewChannelFull ==
  LET c == Current("COMMU").ch
  IN  /\ Ready("COMMU", "NEW")
      /\ Crowded
      /\ sock' = [sock EXCEPT ![c] = "closed"]
      /\ Handle("COMMU", <<To("ACTIVE", Notice("BUILDED", c))>>
                           \o Broadcast(Notice("FREED", c)))
      /\ UNCHANGED <<ullIndex, mapAC, group, peer, wire, inbox>>

\* Mutant: the channel is deleted without a word.
OnDelChannelSilent ==
  LET c == Current("COMMU").ch
  IN  /\ Ready("COMMU", "DEL")
      /\ mapAC' = mapAC \ {c}
      /\ sock' = [sock EXCEPT ![c] = IF c \in mapAC THEN "closed" ELSE @]
      /\ Handle("COMMU", <<>>)
      /\ UNCHANGED <<ullIndex, group, peer, wire, inbox>>

\* CCommuModule::OnDelChannel: the destructor closes the socket and
\* broadcasts FREED; an unknown channel is ignored.
OnDelChannel ==
  LET c == Current("COMMU").ch
  IN  /\ Ready("COMMU", "DEL")
      /\ mapAC' = mapAC \ {c}
      /\ IF c \in mapAC
         THEN /\ sock' = [sock EXCEPT ![c] = "closed"]
              /\ Handle("COMMU", Broadcast(Notice("FREED", c)))
         ELSE /\ Handle("COMMU", <<>>)
              /\ UNCHANGED sock
      /\ UNCHANGED <<ullIndex, group, peer, wire, inbox>>

\* CCommuModule::OnFreeChannel: close the socket, keep the channel.
OnFreeChannel ==
  LET c == Current("COMMU").ch
  IN  /\ Ready("COMMU", "FREE")
      /\ sock' = [sock EXCEPT ![c] = IF c \in mapAC THEN "closed" ELSE @]
      /\ Handle("COMMU", <<>>)
      /\ UNCHANGED <<ullIndex, mapAC, group, peer, wire, inbox>>

\* CCommuModule::SendData2Channel, the send succeeds.  A frame for an end
\* that has closed or vanished may still be accepted by the local TCP stack.
SendData2Channel ==
  LET m == Current("COMMU")
  IN  /\ Ready("COMMU", "SEND")
      /\ m.ch \in mapAC
      /\ sock[m.ch] = "open"
      /\ inbox' = [inbox EXCEPT ![m.ch] =
                     IF peer[m.ch] = "up" THEN Append(@, m) ELSE @]
      /\ Handle("COMMU", <<>>)
      /\ UNCHANGED <<ullIndex, mapAC, group, sock, peer, wire>>

\* CCommuModule::SendData2Channel, no such channel or the send fails: the
\* failure is broadcast, the channel stays as it is.
SendDataFail ==
  LET c == Current("COMMU").ch
  IN  /\ Ready("COMMU", "SEND")
      /\ c \notin mapAC \/ sock[c] # "open" \/ peer[c] # "up"
      /\ Handle("COMMU", Broadcast(Notice("FAIL", c)))
      /\ UNCHANGED <<commuVars, netVars>>
-----------------------------------------------------------------------------
\* The module whose handler acts on a frame; the others return at its code.
Reader(frame) ==
  CASE frame.body \in {"AUTH", "AUTH_BADCODE"} -> "AUTH"
    [] frame.body = "ACTV" -> "ACTIVE"
    [] OTHER -> "UPDATE"

\* CAoIoSelectGroup::Run: a readable socket; one complete frame is announced.
ReadData(c) ==
  /\ c \in group
  /\ sock[c] = "open"
  /\ wire[c] # <<>>
  /\ PostMsg(Reader(Head(wire[c])), Head(wire[c]))
  /\ wire' = [wire EXCEPT ![c] = Tail(@)]
  /\ UNCHANGED <<commuVars, peer, inbox>>

\* CAoIoSelectGroup::Run: the socket was closed by OnFreeChannel, or the other
\* end closed; what it sent before is lost if it answered with a reset.  The
\* channel leaves the list.
OnDel(c) ==
  /\ c \in group
  /\ sock[c] = "closed" \/ peer[c] = "fin"
  /\ group' = group \ {c}
  /\ PostMsg("COMMU", Notice("DEL", c))
  /\ UNCHANGED <<ullIndex, mapAC, sock, netVars>>
-----------------------------------------------------------------------------
CommuHandler ==
  \/ OnNewChannel \/ OnNewChannelFull \/ OnDelChannel \/ OnFreeChannel
  \/ SendData2Channel \/ SendDataFail
=============================================================================
