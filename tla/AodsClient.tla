----------------------------- MODULE AodsClient -----------------------------
(***************************************************************************)
(* A machine's side of the connection to aodc: the channel that keeps      *)
(* connecting (util/AoSockTcpChannel.cpp) and reads (AoSockChannel), the   *)
(* communication thread that sends (util/CommuModule.cpp,                  *)
(* util/AoSockChannel.cpp), and the module that speaks with aodc: the      *)
(* authentication of aods (aods/AodsAuthModule.cpp) or the activation of   *)
(* install (install/AodsActiveModule.cpp).                                 *)
(*                                                                         *)
(* aodc appears as this machine meets it: a decoder per connection, the    *)
(* binding of the machine to one connection (aodc/AodsAuthModule.cpp), and *)
(* answers that come when the controller has been asked.  The numbers of   *)
(* connections are used again once nothing remembers them.                 *)
(***************************************************************************)
EXTENDS AoSockChannel, FiniteSets

CONSTANTS
  Conn,      \* numbers of connections
  Addr,      \* addresses
  Addrs,     \* m_lstAddr, the configured ones
  Parses,    \* addresses ParseAddr can read
  Default,   \* address used when the configured one cannot be read
  Up,        \* addresses an aodc listens at
  Program,   \* programs the machine may run: "aods", "install"
  Verdict,   \* what the controller may say of the machine: "SUC", "FAI"
  MaxSent,   \* bound: frames aodc sends on a connection
  MaxFault   \* bound: failures of the network

Number == Conn \cup {0}

\* What aodc's frames say: its verdict, a probe, or the code for a request's
\* serial.
Text0 == [kind : {"SUC", "FAI", "KEEPALIVE"}, serial : {0}]
         \cup [kind : {"CODE"}, serial : Number]

ASSUME ClientAssumption ==
  /\ Conn \subseteq Nat \ {0}
  /\ Addrs \in Seq(Addr) /\ Default \in Addr
  /\ Parses \subseteq Addr /\ Up \subseteq Addr
  /\ Program \subseteq {"aods", "install"}
  /\ Verdict \subseteq {"SUC", "FAI"}
  /\ MaxSent \in Nat /\ MaxFault \in Nat
  /\ Text = Text0

VARIABLES
  prog,     \* program of the machine
  verdict,  \* what the controller says of it
  running,  \* m_bRunning
  itCur,    \* m_itCurAddr
  addr,     \* address to connect to
  sock,     \* m_nSocket: "none", "connecting", "up"
  conn,     \* the current connection, 0 before the first
  ended,    \* nothing more will arrive on it
  comm,     \* where the communication thread is
  snd,      \* the frame it sends: its key, then what aodc will read
  failing,  \* history: it has reported a failed send since conn was built
  late,     \* history: it has sent a request on another connection than the
            \* one it was made for
  commQ,    \* its messages
  modQ,     \* messages of the module
  bActived, \* install: m_bActived, it has been answered
  authed,   \* aods: authentication announced, connection not freed since
  serial,   \* install: m_ucRDSerial, named by the connection it was drawn for
  stored,   \* install: data/aoauth.db, the serial and the one of the code
  cl,       \* the client's end of a connection, as aodc's system sees it
  cs,       \* what has been sent to aodc on it
  srv,      \* aodc's end of it
  bound,    \* aodc: connection of the machine in m_mapRC, 0 none
  pend,     \* aodc: requests the controller has not answered
  faults    \* failures so far

chanVars == <<prog, verdict, itCur, addr>>
modVars == <<bActived, authed, serial, stored>>
srvVars == <<cl, cs, srv, bound, pend>>
commVars == <<comm, snd, failing, late>>
vars == <<readVars, chanVars, running, sock, conn, ended, commVars, commQ, modQ,
          modVars, srvVars, faults>>

\* A request: AUTH of aods, ACTV of install; or the echo of a probe.
Message == [kind : {"REQUEST", "ECHO"}, serial : Number]

\* What reaches aodc: whole frames, or the rest of one that began elsewhere.
Rest == [kind |-> "REST"]

Notice == [kind : {"BUILDED"}, serial : Number]
          \cup [kind : {"FREED"}] \cup [kind : {"RECV"}, text : Text \cup {Junk}]

ClientTypeOK ==
  /\ ReadTypeOK
  /\ prog \in Program /\ verdict \in Verdict
  /\ running \in BOOLEAN /\ ended \in BOOLEAN
  /\ bActived \in BOOLEAN /\ authed \in BOOLEAN
  /\ failing \in BOOLEAN /\ late \in BOOLEAN
  /\ itCur \in 1 .. Len(Addrs) + 1
  /\ addr \in Addr
  /\ sock \in {"none", "connecting", "up"}
  /\ conn \in Number /\ serial \in Number /\ bound \in Number
  /\ comm \in {"idle", "encode", "send", "rest", "fail", "join", "ended"}
  /\ snd \in [key : Key] \cup [msg : Message \cup {Junk}]
  /\ commQ \in Seq(Message \cup [kind : {"EXIT"}])
  /\ modQ \in Seq(Notice)
  /\ stored \in {<<>>} \cup (Number \X Number)
  /\ cl \in [Conn -> {"none", "open", "fin", "gone"}]
  /\ cs \in [Conn -> Seq(Message \cup {Junk, Rest})]
  /\ srv \in [Conn -> {"none", "open", "closed"}]
  /\ pend \in Seq([conn : Conn, serial : Number])
  /\ faults \in 0 .. MaxFault

ClientInit ==
  /\ ReadInit
  /\ prog \in Program
  /\ verdict \in Verdict
  /\ running = TRUE /\ ended = FALSE
  /\ bActived = FALSE /\ authed = FALSE
  /\ failing = FALSE /\ late = FALSE
  /\ itCur = 1 /\ addr = Default /\ sock = "none" /\ conn = 0
  /\ comm = "idle" /\ snd = [msg |-> Junk] /\ commQ = <<>> /\ modQ = <<>>
  /\ serial = 0 /\ stored = <<>>
  /\ cl = [c \in Conn |-> "none"] /\ srv = [c \in Conn |-> "none"]
  /\ cs = [c \in Conn |-> <<>>]
  /\ bound = 0 /\ pend = <<>>
  /\ faults = 0

Fault == faults < MaxFault /\ faults' = faults + 1
-----------------------------------------------------------------------------
(* The thread of the channel, CAoSockTcpChannel::Run.                      *)

\* Mutant of GetNextAddr: an address that cannot be read is not passed over.
GetNextAddrStuck ==
  LET i == IF itCur = Len(Addrs) + 1 THEN 1 ELSE itCur
  IN  IF Addrs # <<>> /\ Addrs[i] \in Parses
      THEN itCur' = i + 1 /\ addr' = Addrs[i]
      ELSE itCur' = i /\ addr' = Default

\* The next configured address, from the first again after the last.
GetNextAddr ==
  LET i == IF itCur = Len(Addrs) + 1 THEN 1 ELSE itCur
  IN  IF Addrs = <<>> THEN addr' = Default /\ UNCHANGED itCur
      ELSE /\ itCur' = i + 1
           /\ addr' = IF Addrs[i] \in Parses THEN Addrs[i] ELSE Default

\* The client's end of the current connection is closed.
HangUp ==
  cl' = IF conn # 0 /\ cl[conn] = "open" THEN [cl EXCEPT ![conn] = "fin"] ELSE cl

\* A socket that was closed while the thread waits in recv stays open, and the
\* thread goes on waiting.
Blocked == run = "recv" /\ conn # 0 /\ cl[conn] = "open" /\ sock = "none"

\* recv returns.
Wake == IF Blocked THEN HangUp ELSE UNCHANGED cl

\* The head of the loop up to the new socket: after at least five seconds, of
\* which nothing is kept here, the old one is closed.
TryNext ==
  /\ run = "next" /\ running
  /\ GetNextAddr
  /\ HangUp
  /\ sock' = "connecting" /\ conn' = 0
  /\ run' = "connect"
  /\ UNCHANGED <<netVars, hi, cacheVars, aeKey, tmp, got, fresh, prog, verdict,
                 running, ended, commVars, commQ, modQ, modVars, cs, srv, bound,
                 pend, faults>>

\* Nothing remembers connection c.
Unused(c) ==
  /\ c # conn /\ c # bound /\ c # serial
  /\ cl[c] # "open" /\ srv[c] # "open"
  /\ \A i \in DOMAIN pend : c \notin {pend[i].conn, pend[i].serial}
  /\ \A i \in DOMAIN commQ : commQ[i].kind # "EXIT" => commQ[i].serial # c
  /\ \A i \in DOMAIN modQ :
       /\ modQ[i].kind = "BUILDED" => modQ[i].serial # c
       /\ modQ[i].kind = "RECV" /\ modQ[i].text # Junk => modQ[i].text.serial # c
  /\ \A d \in Conn : \A i \in DOMAIN cs[d] :
       cs[d][i] \notin {Junk, Rest} => cs[d][i].serial # c

Connect ==
  /\ run = "connect"
  /\ addr \in Up
  /\ \E c \in Conn :
       /\ Unused(c)
       /\ \A d \in Conn : Unused(d) => c <= d
       /\ conn' = c
       /\ cl' = [cl EXCEPT ![c] = IF running THEN "open" ELSE "fin"]
       /\ srv' = [srv EXCEPT ![c] = "open"]
       /\ cs' = [cs EXCEPT ![c] = <<>>]
  /\ sock' = IF running THEN "up" ELSE sock
  /\ NewStream
  /\ ended' = FALSE
  /\ run' = "built"
  /\ UNCHANGED <<chanVars, running, commVars, commQ, modQ, modVars, bound, pend,
                 faults>>

\* Nobody listens, or the network fails.
ConnectFails ==
  /\ run = "connect"
  /\ IF addr \in Up THEN Fault ELSE UNCHANGED faults
  /\ sock' = "none"
  /\ run' = "next"
  /\ UNCHANGED <<netVars, hi, cacheVars, aeKey, tmp, got, fresh, chanVars, running,
                 conn, ended, commVars, commQ, modQ, modVars, srvVars>>

OnBuiled ==
  /\ run = "built"
  /\ modQ' = Append(modQ, [kind |-> "BUILDED", serial |-> conn])
  /\ tmp' = Junk
  /\ failing' = FALSE
  /\ run' = "recv"
  /\ UNCHANGED <<netVars, hi, cacheVars, aeKey, got, fresh, chanVars, running, sock,
                 conn, ended, comm, snd, late, commQ, modVars, srvVars, faults>>

\* ReadData finds nothing more to come, or the loop is to stop.
OnFreed ==
  /\ run = "recv"
  /\ (~running /\ ~Blocked) \/ (ended /\ hi = w)
  /\ modQ' = Append(modQ, [kind |-> "FREED"])
  /\ run' = "next"
  /\ Wake
  /\ UNCHANGED <<netVars, hi, cacheVars, aeKey, tmp, got, fresh, chanVars, running,
                 sock, conn, ended, commVars, commQ, modVars, cs, srv, bound,
                 pend, faults>>

RunEnds ==
  /\ run = "next" /\ ~running
  /\ run' = "ended"
  /\ UNCHANGED <<netVars, hi, cacheVars, aeKey, tmp, got, fresh, chanVars, running,
                 sock, conn, ended, commVars, commQ, modQ, modVars, srvVars, faults>>

\* ReadData.
ReadStep ==
  /\ Recv \/ GetContent \/ DecodeContent
  /\ Wake
  /\ UNCHANGED <<chanVars, running, sock, conn, ended, commVars, commQ, modQ,
                 modVars, cs, srv, bound, pend, faults>>

Announce ==
  /\ PostContent
  /\ modQ' = Append(modQ, [kind |-> "RECV", text |-> tmp])
  /\ UNCHANGED <<chanVars, running, sock, conn, ended, commVars, commQ, modVars,
                 srvVars, faults>>
-----------------------------------------------------------------------------
(* The communication thread.                                               *)

\* SendData2Channel and EncodeMsg up to SetKey.
TakeSend ==
  /\ comm = "idle" /\ commQ # <<>> /\ Head(commQ).kind # "EXIT"
  /\ aeKey' \in Key
  /\ snd' = [key |-> aeKey']
  /\ comm' = "encode"
  /\ UNCHANGED <<netVars, hi, cacheVars, run, tmp, got, fresh, chanVars, running,
                 sock, conn, ended, failing, late, commQ, modQ, modVars, srvVars,
                 faults>>

\* What aodc makes of a message encoded with the key of the moment.
Encoded(m) ==
  LET b == ByteOf["REQUEST"]
  IN  IF Decode(snd.key, Encode(aeKey, b)) = b THEN m ELSE Junk

EncodeMsg ==
  /\ comm = "encode"
  /\ snd' = [msg |-> Encoded(Head(commQ))]
  /\ comm' = "send"
  /\ UNCHANGED <<readVars, chanVars, running, sock, conn, ended, failing, late,
                 commQ, modQ, modVars, srvVars, faults>>

\* What goes to a socket whose other end is gone is lost.
PutOnWire(m) ==
  cs' = IF conn # 0 /\ cl[conn] = "open" /\ srv[conn] = "open"
        THEN [cs EXCEPT ![conn] = Append(@, m)] ELSE cs

Sent ==
  /\ comm' = "idle" /\ commQ' = Tail(commQ)
  /\ late' = (late \/ (Head(commQ).kind = "REQUEST" /\ Head(commQ).serial # conn))

\* The whole frame.  While a connection is being set up, Send waits.
SendAll ==
  /\ comm = "send" /\ sock = "up"
  /\ PutOnWire(snd.msg)
  /\ Sent
  /\ UNCHANGED <<readVars, chanVars, running, sock, conn, ended, snd, failing,
                 modQ, modVars, cl, srv, bound, pend, faults>>

\* Only a part, since the network has failed.
SendPart ==
  /\ comm = "send" /\ sock = "up"
  /\ conn # 0 /\ cl[conn] # "open"
  /\ comm' = "rest"
  /\ UNCHANGED <<readVars, chanVars, running, sock, conn, ended, snd, failing,
                 late, commQ, modQ, modVars, srvVars, faults>>

\* The rest, through the socket of that moment.
SendRest ==
  /\ comm = "rest" /\ sock = "up"
  /\ PutOnWire(Rest)
  /\ Sent
  /\ UNCHANGED <<readVars, chanVars, running, sock, conn, ended, snd, failing,
                 modQ, modVars, cl, srv, bound, pend, faults>>

SendFails ==
  /\ comm \in {"send", "rest"}
  /\ sock = "none" \/ (sock = "up" /\ ended)
  /\ comm' = "fail"
  /\ UNCHANGED <<readVars, chanVars, running, sock, conn, ended, snd, failing,
                 late, commQ, modQ, modVars, srvVars, faults>>

\* OnSendDataFailed puts the message in m_pucTempBuf, from whichever thread;
\* neither program does anything about the announcement.
OnSendDataFailed ==
  /\ comm = "fail"
  /\ tmp' = Junk
  /\ failing' = TRUE
  /\ comm' = "idle" /\ commQ' = Tail(commQ)
  /\ UNCHANGED <<netVars, hi, cacheVars, run, aeKey, got, fresh, chanVars, running,
                 sock, conn, ended, snd, late, modQ, modVars, srvVars, faults>>

\* CCommuModule::OnStop: the channel is told to stop, its socket is closed, and
\* its thread is waited for.  If that waits in recv, the connection stays.
OnStop ==
  /\ comm = "idle" /\ commQ # <<>> /\ Head(commQ).kind = "EXIT"
  /\ running' = FALSE
  /\ sock' = "none"
  /\ HangUp \/ (run = "recv" /\ UNCHANGED cl)
  /\ comm' = "join" /\ commQ' = Tail(commQ)
  /\ UNCHANGED <<readVars, chanVars, conn, ended, snd, failing, late, modQ,
                 modVars, cs, srv, bound, pend, faults>>

Join ==
  /\ comm = "join" /\ run = "ended"
  /\ comm' = "ended"
  /\ UNCHANGED <<readVars, chanVars, running, sock, conn, ended, snd, failing,
                 late, commQ, modQ, modVars, srvVars, faults>>
-----------------------------------------------------------------------------
(* The module that speaks with aodc.                                       *)

NoticeIs(kind) == modQ # <<>> /\ Head(modQ).kind = kind

Told(kinds) ==
  NoticeIs("RECV") /\ Head(modQ).text # Junk /\ Head(modQ).text.kind \in kinds

ModuleStep ==
  /\ modQ' = Tail(modQ)
  /\ UNCHANGED <<readVars, chanVars, running, sock, conn, ended, commVars, srvVars,
                 faults>>

Ask(c) == commQ' = Append(commQ, [kind |-> "REQUEST", serial |-> c])

\* Mutant of OnChannelBuild: install keeps the first serial in m_ucRDSerial.
OnChannelBuildKeeps ==
  /\ NoticeIs("BUILDED")
  /\ IF bActived THEN UNCHANGED <<commQ, serial>>
     ELSE /\ Ask(Head(modQ).serial)
          /\ serial' = IF prog = "install" /\ serial = 0 THEN Head(modQ).serial
                       ELSE serial
  /\ ModuleStep
  /\ UNCHANGED <<bActived, authed, stored>>

\* aods asks to be authenticated (OnAuthen).  install draws a new serial and
\* asks to be activated, unless it has been answered (m_bActived).
OnChannelBuild ==
  /\ NoticeIs("BUILDED")
  /\ IF bActived THEN UNCHANGED <<commQ, serial>>
     ELSE /\ Ask(Head(modQ).serial)
          /\ serial' = IF prog = "install" THEN Head(modQ).serial ELSE serial
  /\ ModuleStep
  /\ UNCHANGED <<bActived, authed, stored>>

\* Mutant of OnKeepAlive: a probe is taken for a reason to authenticate anew.
OnKeepAliveAsks ==
  /\ Told({"KEEPALIVE"})
  /\ IF prog = "aods" /\ conn # 0 THEN Ask(conn) ELSE UNCHANGED commQ
  /\ ModuleStep
  /\ UNCHANGED modVars

OnKeepAlive ==
  /\ Told({"KEEPALIVE"})
  /\ commQ' = IF prog = "aods"
              THEN Append(commQ, [kind |-> "ECHO", serial |-> 0]) ELSE commQ
  /\ ModuleStep
  /\ UNCHANGED modVars

\* The update module, which is told of it, sets its timer.
OnAuthSuc ==
  /\ Told({"SUC"})
  /\ authed' = TRUE
  /\ ModuleStep
  /\ UNCHANGED <<commQ, bActived, serial, stored>>

\* Refused: every module is told to exit.
OnRefused ==
  /\ Told({"FAI"})
  /\ bActived' = (prog = "install")
  /\ commQ' = Append(commQ, [kind |-> "EXIT"])
  /\ ModuleStep
  /\ UNCHANGED <<authed, serial, stored>>

\* SaveActive writes the serial at hand and the code received; then install
\* exits.
OnActived ==
  /\ Told({"CODE"})
  /\ bActived' = TRUE
  /\ stored' = <<serial, Head(modQ).text.serial>>
  /\ commQ' = Append(commQ, [kind |-> "EXIT"])
  /\ ModuleStep
  /\ UNCHANGED <<authed, serial>>

\* The update module stops its timer.
OnChannelFreed ==
  /\ NoticeIs("FREED")
  /\ authed' = FALSE
  /\ ModuleStep
  /\ UNCHANGED <<commQ, bActived, serial, stored>>

\* Data of no known code.
OnJunk ==
  /\ NoticeIs("RECV") /\ Head(modQ).text = Junk
  /\ ModuleStep
  /\ UNCHANGED <<commQ, modVars>>

ModuleHandler ==
  \/ OnChannelBuild \/ OnKeepAlive \/ OnAuthSuc \/ OnRefused \/ OnActived
  \/ OnChannelFreed \/ OnJunk
-----------------------------------------------------------------------------
(* aodc.                                                                   *)

\* aodc closes connections; what it has written to them arrives, unless it
\* leaves something unread (the peer is then sent a reset).
Free(S) ==
  /\ srv' = [c \in Conn |-> IF c \in S /\ srv[c] = "open" THEN "closed" ELSE srv[c]]
  /\ IF conn \in S /\ srv[conn] = "open"
     THEN ended' = TRUE /\ IF cs'[conn] = <<>> THEN UNCHANGED netVars ELSE CutStream
     ELSE UNCHANGED <<ended, netVars>>

\* A request is handled (OnRecvAodsMsg, OnRecvAodsChannel): one that finds the
\* machine bound to a connection frees that and its own.
Request(c, m) ==
  IF prog = "aods" /\ bound # 0
  THEN Free({c, bound}) /\ UNCHANGED <<bound, pend>>
  ELSE /\ bound' = IF prog = "aods" THEN c ELSE bound
       /\ pend' = Append(pend, [conn |-> c, serial |-> m.serial])
       /\ UNCHANGED <<ended, srv, netVars>>

\* aodc takes what comes next on a connection.
Takes(c) ==
  /\ srv[c] = "open" /\ cs[c] # <<>>
  /\ cs' = [cs EXCEPT ![c] = Tail(@)]
  /\ UNCHANGED <<hi, cacheVars, run, aeKey, tmp, got, fresh, chanVars, running, sock,
                 conn, commVars, commQ, modQ, modVars, cl, faults>>

ServerRead(c) ==
  /\ Takes(c)
  /\ Head(cs[c]) # Rest
  /\ IF Head(cs[c]) # Junk /\ Head(cs[c]).kind = "REQUEST" THEN Request(c, Head(cs[c]))
     ELSE UNCHANGED <<ended, srv, bound, pend, netVars>>

\* The rest of a frame that began on another connection is taken for a frame of
\* its own, or for the header of one that is never complete.
ServerMisreads(c) ==
  /\ Takes(c)
  /\ Head(cs[c]) = Rest
  /\ UNCHANGED <<ended, srv, bound, pend, netVars>>

\* There is nothing more aodc will read on a connection.
ReadOut(c) == cs[c] # <<>> => Head(cs[c]) = Rest

\* The controller's answer: to the connection the machine is bound to by now,
\* or to the one that asked for the activation.
Answer ==
  /\ pend # <<>>
  /\ pend' = Tail(pend)
  /\ LET c == IF prog = "aods" THEN bound ELSE Head(pend).conn
         t == IF prog = "aods" \/ verdict = "FAI" THEN [kind |-> verdict, serial |-> 0]
              ELSE [kind |-> "CODE", serial |-> Head(pend).serial]
     IN  IF c # 0 /\ c = conn /\ srv[c] = "open" /\ ~ended THEN SendFrame(t)
         ELSE UNCHANGED netVars
  /\ UNCHANGED <<hi, cacheVars, run, aeKey, tmp, got, fresh, chanVars, running, sock,
                 conn, ended, commVars, commQ, modQ, modVars, cl, cs, srv, bound,
                 faults>>

\* Probes go to the connection the machine is bound to.
Probe ==
  /\ prog = "aods" /\ verdict = "SUC"
  /\ conn # 0 /\ bound = conn /\ srv[conn] = "open" /\ ~ended
  /\ sent # <<>> /\ Len(sent) < MaxSent
  /\ SendFrame([kind |-> "KEEPALIVE", serial |-> 0])
  /\ UNCHANGED <<hi, cacheVars, run, aeKey, tmp, got, fresh, chanVars, running, sock,
                 conn, ended, commVars, commQ, modQ, modVars, srvVars, faults>>

\* aodc reads the end of what the machine sent.
ServerSeesEnd(c) ==
  /\ srv[c] = "open" /\ cl[c] = "fin"
  /\ ReadOut(c)
  /\ srv' = [srv EXCEPT ![c] = "closed"]
  /\ cs' = [cs EXCEPT ![c] = <<>>]
  /\ UNCHANGED <<readVars, chanVars, running, sock, conn, ended, commVars, commQ,
                 modQ, modVars, cl, bound, pend, faults>>

\* The authentication module is told that a channel is gone.
Release ==
  /\ bound # 0 /\ srv[bound] = "closed"
  /\ bound' = 0
  /\ UNCHANGED <<readVars, chanVars, running, sock, conn, ended, commVars, commQ,
                 modQ, modVars, cl, cs, srv, pend, faults>>
-----------------------------------------------------------------------------
(* The network.                                                            *)

\* The connection breaks: the machine notices, and aodc does or does not.
Break ==
  /\ conn # 0 /\ cl[conn] = "open" /\ ~ended
  /\ Fault
  /\ \E how \in {"fin", "gone"} : cl' = [cl EXCEPT ![conn] = how]
  /\ \E n \in 0 .. Len(cs[conn]) : cs' = [cs EXCEPT ![conn] = SubSeq(@, 1, n)]
  /\ ended' = TRUE
  /\ CutStream
  /\ UNCHANGED <<hi, cacheVars, run, aeKey, tmp, got, fresh, chanVars, running, sock,
                 conn, commVars, commQ, modQ, modVars, srv, bound, pend>>

\* aodc probes the connection.
Probed == prog = "aods" /\ verdict = "SUC" /\ bound = conn

\* Nothing is under way between the machine and aodc.
Silent ==
  /\ hi = w /\ modQ = <<>> /\ pend = <<>>
  /\ comm = "join" \/ commQ = <<>>
  /\ ~Probed
  /\ ReadOut(conn)

\* Sixty seconds without data: Recv times out.
RecvTimeout ==
  /\ run = "recv" /\ conn # 0 /\ ~ended
  /\ Silent
  /\ ended' = TRUE
  /\ UNCHANGED <<readVars, chanVars, running, sock, conn, commVars, commQ, modQ,
                 modVars, srvVars, faults>>
-----------------------------------------------------------------------------
RunThread ==
  \/ TryNext \/ Connect \/ ConnectFails \/ OnBuiled \/ ReadStep \/ Announce
  \/ OnFreed \/ RunEnds

CommThread ==
  \/ TakeSend \/ EncodeMsg \/ SendAll \/ SendPart \/ SendRest \/ SendFails
  \/ OnSendDataFailed \/ OnStop \/ Join

AodcStep ==
  \/ \E c \in Conn : ServerRead(c) \/ ServerMisreads(c) \/ ServerSeesEnd(c)
  \/ Answer \/ Probe \/ Release

ClientNext ==
  \/ RunThread \/ CommThread \/ ModuleHandler \/ AodcStep \/ Break \/ RecvTimeout

ClientSpec == ClientInit /\ [][ClientNext]_vars

\* The threads go on, aodc reads, answers and closes what has ended, and a
\* silent connection times out.
ClientFairness ==
  /\ WF_vars(RunThread) /\ WF_vars(CommThread) /\ WF_vars(ModuleHandler)
  /\ \A c \in Conn : WF_vars(ServerRead(c)) /\ WF_vars(ServerSeesEnd(c))
  /\ WF_vars(Answer) /\ WF_vars(Release) /\ WF_vars(RecvTimeout)

FairClientSpec == ClientSpec /\ ClientFairness
-----------------------------------------------------------------------------
(* What can be relied on.                                                  *)

\* The modules are told what aodc has sent on the connection, in order and each
\* frame once, if the decoder was empty when the connection was built and no
\* send has failed since.  The first is not sure because Run builds connection
\* after connection and never resets the decoder, the second because
\* OnSendDataFailed of the sending thread writes to m_pucTempBuf while the
\* reading thread announces from it.
RecvIntact ==
  fresh /\ ~failing =>
    /\ Len(got) <= Len(sent)
    /\ \A i \in DOMAIN got : got[i] = sent[i].text

\* What install has stored belongs together: the code is the one for the serial
\* in the file, however often it had to connect and ask again.  The file is
\* checked when aods starts, and install does not ask twice (SaveActive,
\* m_ucRDSerial drawn anew in OnChannelBuild).
StoredChecks == stored # <<>> /\ ~late => stored[1] = stored[2]

\* Where a request made for connection c, or for its activation, may be: with
\* the module's messages, on the way to aodc, with the controller.
Asking(c) == {i \in DOMAIN commQ : commQ[i].kind = "REQUEST" /\ commQ[i].serial = c}

OnWire(c) ==
  {i \in DOMAIN cs[c] : cs[c][i] \notin {Junk, Rest} /\ cs[c][i].kind = "REQUEST"}

Pending(c) == {i \in DOMAIN pend : pend[i].conn = c}

\* Requests of connection c, from the module's message to the answer, the
\* binding that stays included.
RequestsOf(c) ==
  Cardinality(Asking(c)) + Cardinality(OnWire(c)) + Cardinality(Pending(c))
  + (IF bound = c /\ Pending(c) = {} THEN 1 ELSE 0)

\* A machine asks once per connection: aodc, which takes a second request for a
\* clone's and frees the connection (OnRecvAodsMsg), never frees a machine's
\* only connection.
AsksOnce == ~late => \A c \in Conn : RequestsOf(c) <= 1

\* A machine that aodc serves: bound to the current connection, authenticated
\* and listening.
Served ==
  /\ conn # 0 /\ bound = conn /\ srv[conn] = "open" /\ ~ended
  /\ authed /\ run \in Reading

\* Once the network stays up, a machine the controller accepts is served for
\* good, whatever half-open connection or stale binding the failures left; aods
\* refused and install answered stop.  Bytes left over in the decoder are
\* excepted: they can swallow what follows.
Converges ==
  IF prog = "aods" /\ verdict = "SUC"
  THEN <>[]Served \/ <>(old > 0)
  ELSE <>[](comm = "ended") \/ <>(old > 0)
=============================================================================
