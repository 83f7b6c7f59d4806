------------------------------- MODULE MCAodc -------------------------------
(***************************************************************************)
(* Instances of the aodc process for TLC.                                  *)
(***************************************************************************)
EXTENDS AodcProps, Functions, TLC

CONSTANTS h1, h2, r1, r2, i1, i2, u1, u2

\* Two machines with one resource id at different addresses: a clone.
CloneRid == [h \in {h1, h2} |-> r1]
CloneIp == [h \in {h1, h2} |-> IF h = h1 THEN {i1} ELSE {i2}]

\* One machine, whose addresses may change between two connections.
SameRid == [h \in {h1} |-> r1]
OneIp == [h \in {h1} |-> {i1}]

\* Two machines with ids of their own behind the same address.
OwnRid == [h \in {h1, h2} |-> IF h = h1 THEN r1 ELSE r2]
AllIp == [h \in {h1, h2} |-> {i1}]

\* Bound of the search: messages on their way inside aodc and on the topics.
CONSTANT MaxBacklog
Backlog ==
  SumFunction([m \in Module |-> Len(queue[m]) + Len(out[m])]) <= MaxBacklog

\* Nothing tells one uuid from another.
Alike == Permutations(Uuid)
=============================================================================
