----------------------------- MODULE ModuleFifo -----------------------------
(***************************************************************************)
(* What the queue of a module promises whoever posts to it, whatever its   *)
(* buffers do: messages are handled one by one in the order posted, until  *)
(* the module stops.  A post may be refused.  It may also go wrong at the  *)
(* end of a full buffer: then the message is handled without its data, and *)
(* posts are lost, unnoticed, until the module has emptied that buffer.    *)
(***************************************************************************)
EXTENDS Naturals, Sequences

CONSTANTS MaxPost  \* bound: messages posted

VARIABLES
  pending,  \* messages still to be handled
  spoilt,   \* posts are being lost
  running,  \* the module has not been told to stop
  served    \* history: messages handled

vars == <<pending, spoilt, running, served>>

Message == [id : 1 .. MaxPost, exit : BOOLEAN, whole : BOOLEAN]

Init ==
  /\ pending = <<>>
  /\ spoilt = FALSE
  /\ running = TRUE
  /\ served = <<>>

Post ==
  /\ ~spoilt
  /\ \E m \in Message :
       /\ pending' = Append(pending, m)
       /\ spoilt' = ~m.whole
  /\ UNCHANGED <<running, served>>

\* The buffer that was spoilt has been taken by the module.
Renew ==
  /\ spoilt
  /\ spoilt' = FALSE
  /\ UNCHANGED <<pending, running, served>>

Serve ==
  /\ running
  /\ pending # <<>>
  /\ LET m == Head(pending)
     IN  /\ served' = Append(served, [id |-> m.id, whole |-> m.whole])
         /\ running' = ~m.exit
  /\ pending' = Tail(pending)
  /\ UNCHANGED spoilt

Next == Post \/ Renew \/ Serve

\* What is pending is served while the module runs, and a spoilt buffer is
\* taken.
Fairness ==
  /\ WF_vars(Serve)
  /\ WF_vars(Renew /\ running)

Spec == Init /\ [][Next]_vars /\ Fairness
=============================================================================
