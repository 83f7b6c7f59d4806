------------------------------- MODULE Hosts -------------------------------
(***************************************************************************)
(* The machines that connect to aodc, as aodc sees them: aods, which       *)
(* authenticates (aods/AodsAuthModule.cpp over the reconnecting client     *)
(* channel util/AoSockTcpChannel.cpp), and install, which activates        *)
(* (install/AodsActiveModule.cpp).                                         *)
(*                                                                         *)
(* Two machines may carry the same resource id (a cloned disk), a machine  *)
(* may report other addresses after a reboot, and its file of activation   *)
(* data may be damaged.                                                    *)
(***************************************************************************)
EXTENDS CommuModule

CONSTANTS
  Aods,     \* machines running aods
  Install,  \* machines running install
  Damaged,  \* machines of Aods whose activation data does not check
  Managing, \* machines of Aods with modules to keep up to date
  RidOf,    \* RidOf[h]: resource id in the data of h \in Aods
  Ends,     \* ways in which a machine ends a connection by itself
  IpOf      \* IpOf[h]: the address sets h may report

Host == Aods \cup Install

ASSUME HostsAssumption ==
  /\ Aods \cap Install = {}
  /\ Damaged \subseteq Aods
  /\ Managing \subseteq Aods
  /\ RidOf \in [Aods -> Rid]
  /\ Ends \subseteq {"fin", "gone"}
  /\ IpOf \in [Host -> SUBSET Ip]

VARIABLES
  hst,  \* "idle", "conn" (waits for its answer), "authed", "stopped"
  cur,  \* channel a host is connected through
  act,  \* activation a machine has stored, named by its request
  loading \* machines that download an update they were sent

hostVars == <<hst, cur, act, loading>>

HostTypeOK ==
  /\ hst \in [Host -> {"idle", "conn", "authed", "stopped"}]
  /\ cur \in [Host -> Channel \cup {None}]
  /\ act \in [Install -> Uuid \cup {None}]
  /\ loading \in SUBSET Host

HostInit ==
  /\ hst = [h \in Host |-> "idle"]
  /\ cur = [h \in Host |-> None]
  /\ act = [h \in Install |-> None]
  /\ loading = {}
-----------------------------------------------------------------------------
\* What a host sends when its connection is built.
FirstFrame(h, c, ip) ==
  [kind |-> "RECV", ch |-> c,
   body |-> CASE h \in Install -> "ACTV"
              [] h \in Damaged -> "AUTH_BADCODE"
              [] OTHER         -> "AUTH",
   key  |-> IF h \in Install THEN None ELSE RidOf[h],
   ip   |-> ip]

Connect(h) ==
  /\ hst[h] = "idle"
  /\ \E ip \in IpOf[h] : Accept(FirstFrame(h, ullIndex, ip))
  /\ hst' = [hst EXCEPT ![h] = "conn"]
  /\ cur' = [cur EXCEPT ![h] = ullIndex]
  /\ UNCHANGED <<act, loading>>

\* The host's end of its connection ends in the given way.
Leave(h, how, state) ==
  /\ cur[h] # None
  /\ peer' = [peer EXCEPT ![cur[h]] = how]
  /\ inbox' = [inbox EXCEPT ![cur[h]] = <<>>]
  /\ cur' = [cur EXCEPT ![h] = None]
  /\ hst' = [hst EXCEPT ![h] = state]
  /\ UNCHANGED <<commuVars, wire, loading>>

\* By itself: it closes ("fin": no data for 60 seconds, service restart), or it
\* loses power or network and aodc is not told ("gone").
Disconnect(h) ==
  /\ \E how \in Ends : Leave(h, how, "idle")
  /\ UNCHANGED <<act, busVars>>

\* It reads the end of the stream after aodc has closed the socket.
SeeClosed(h) ==
  /\ cur[h] # None
  /\ sock[cur[h]] = "closed"
  /\ inbox[cur[h]] = <<>>
  /\ Leave(h, "fin", "idle")
  /\ UNCHANGED <<act, busVars>>

\* What aodc sent to a vanished host stays unanswered until the TCP stack of
\* aodc gives the connection up and reports it as failed.
GiveUp(c) ==
  /\ peer[c] = "gone"
  /\ peer' = [peer EXCEPT ![c] = "fin"]
  /\ UNCHANGED <<commuVars, wire, inbox, hostVars, busVars>>

\* Frames aodc has sent.  A probe and its answer, which aodc ignores, change
\* nothing.  After its authentication aods reports its modules, if it has any
\* (UMI); it ignores updates for other modules.
Answered(h, bodies) ==
  /\ cur[h] # None
  /\ inbox[cur[h]] # <<>>
  /\ Head(inbox[cur[h]]).body \in bodies

Reply(h, body) ==
  /\ inbox' = [inbox EXCEPT ![cur[h]] = Tail(@)]
  /\ wire' = [wire EXCEPT ![cur[h]] =
                IF body = "-" THEN @
                ELSE Append(@, Frame("RECV", cur[h], body, None))]
  /\ UNCHANGED <<commuVars, peer, cur, act, busVars>>

OnAuthSucceeded(h) ==
  /\ Answered(h, {"AUTH_SUC"})
  /\ Reply(h, IF h \in Managing THEN "UMI" ELSE "-")
  /\ hst' = [hst EXCEPT ![h] = "authed"]
  /\ UNCHANGED loading

OnUpdate(h) ==
  /\ Answered(h, {"UMI"})
  /\ Reply(h, "-")
  /\ loading' = loading \cup ({h} \cap Managing)
  /\ UNCHANGED hst

\* The download thread is done, well or not: the result (UDR) goes out on the
\* connection of that moment, and is lost when there is none.
ReportResult(h) ==
  /\ h \in loading
  /\ loading' = loading \ {h}
  /\ wire' = IF cur[h] = None THEN wire
             ELSE [wire EXCEPT ![cur[h]] =
                     Append(@, Frame("RECV", cur[h], "UDR", None))]
  /\ UNCHANGED <<commuVars, peer, inbox, hst, cur, act, busVars>>

OnKeepAlive(h) ==
  /\ Answered(h, {"KEEPALIVE"})
  /\ Reply(h, "-")
  /\ UNCHANGED <<hst, loading>>

\* Refused, as unknown or as a clone: the service stops for good.
OnAuthRefused(h) ==
  /\ Answered(h, {"AUTH_FAI", "AUTH_DIF"})
  /\ Leave(h, "fin", "stopped")
  /\ UNCHANGED <<act, busVars>>

\* install stores a good answer and ends after any.
OnActivated(h) ==
  /\ Answered(h, {"ACTV_SUC", "ACTV_ERR"})
  /\ act' = [act EXCEPT ![h] = Head(inbox[cur[h]]).key]
  /\ Leave(h, "fin", "stopped")
  /\ UNCHANGED busVars

HostReceive(h) ==
  \/ OnAuthSucceeded(h) \/ OnUpdate(h) \/ ReportResult(h) \/ OnKeepAlive(h)
  \/ OnAuthRefused(h) \/ OnActivated(h)
=============================================================================
