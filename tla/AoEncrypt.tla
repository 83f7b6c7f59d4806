----------------------------- MODULE AoEncrypt -----------------------------
(***************************************************************************)
(* The byte substitution that every frame, the package files and the file  *)
(* of activation data go through (util/AoEncrypt.cpp).  A byte is replaced *)
(* by an entry of a table of 256 rows, and the row is chosen by a byte of  *)
(* the key.  Nothing calls SetSkDict, so the table is the default one.     *)
(***************************************************************************)
EXTENDS Integers

CONSTANT Key  \* key bytes in use

Byte == 0 .. 255

ASSUME KeyAssumption == Key # {} /\ Key \subseteq Byte

\* Mutant of EnSkDict: a table whose rows differ.
EnSkDictByRow == [k \in Key |-> [b \in Byte |-> (256 * k + b + 10 + k) % 256]]

\* Default(): entry n is the low byte of n + 10, the row being the high byte
\* of n.
EnSkDict == [k \in Key |-> [b \in Byte |-> (256 * k + b + 10) % 256]]

\* The inverse of each row.
DeSkDict ==
  [k \in Key |-> [c \in Byte |-> CHOOSE b \in Byte : EnSkDict[k][b] = c]]

Encode(k, b) == EnSkDict[k][b]

Decode(k, c) == DeSkDict[k][c]
=============================================================================
