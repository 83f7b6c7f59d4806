----------------------------- MODULE QueueProofs -----------------------------
(***************************************************************************)
(* Proofs about ModuleQueue, for every size of buffers, headers and data:  *)
(* the thread of a module never takes data for a header, handles messages  *)
(* at most once and in the order posted, and the queue as a whole is the   *)
(* FIFO of ModuleFifo.                                                     *)
(*                                                                         *)
(* None of these is inductive.  The headers of a buffer form a chain: each *)
(* is followed by another one, by the end of what is filled, or, when it   *)
(* lacks its data, by nothing that can be filled at all.  Along the chain, *)
(* and from what was handled over the buffer being handled to the buffer   *)
(* being filled, the numbers of the posts grow.  The chain is what Run     *)
(* walks along, and what the FIFO shows as pending.                        *)
(***************************************************************************)
EXTENDS ModuleQueue, TLAPS

Heads(buf) == {o \in 0 .. buf.len - 1 : buf.unit[o] # Junk}

Chained(buf) ==
  /\ buf.len > 0 => 0 \in Heads(buf)
  /\ \A o \in Heads(buf) :
       LET next == Following(buf.unit[o], o)
       IN  next \in Heads(buf) \/ next = buf.len \/ next > Capacity

Sorted(buf) ==
  \A o, p \in Heads(buf) : o < p => buf.unit[o].id < buf.unit[p].id

\* The thread is at a header or past the last.
Cursor == pc = "handle" => (off \in Heads(cus) \/ off >= cus.len)

Named ==
  /\ \A o \in Heads(product) : product.unit[o].id <= posted
  /\ \A o \in Heads(cus) : cus.unit[o].id <= posted
  /\ \A i \in DOMAIN handled : handled[i].id <= posted

\* What was handled comes before what is in cus, and that before product.
Later ==
  /\ \A o \in Heads(cus), p \in Heads(product) :
       cus.unit[o].id < product.unit[p].id
  /\ \A i \in DOMAIN handled, p \in Heads(product) :
       handled[i].id < product.unit[p].id
  /\ pc = "handle" =>
       \A i \in DOMAIN handled, o \in Heads(cus) :
         o >= off => handled[i].id < cus.unit[o].id

QueueInv ==
  /\ QueueTypeOK
  /\ Chained(product) /\ Sorted(product)
  /\ Chained(cus) /\ Sorted(cus)
  /\ Cursor /\ Named /\ Later /\ InOrder
-----------------------------------------------------------------------------
\* Elements of a sequence.
LEMMA SeqElements ==
  ASSUME NEW S, NEW s \in Seq(S)
  PROVE  /\ Len(s) \in Nat /\ DOMAIN s = 1 .. Len(s)
         /\ \A i \in DOMAIN s : s[i] \in S
OBVIOUS

LEMMA AppendElements ==
  ASSUME NEW S, NEW s \in Seq(S), NEW e \in S
  PROVE  /\ Append(s, e) \in Seq(S)
         /\ DOMAIN Append(s, e) = DOMAIN s \cup {Len(s) + 1}
         /\ Append(s, e)[Len(s) + 1] = e
         /\ \A i \in DOMAIN s : Append(s, e)[i] = s[i]
<1>1. /\ Append(s, e) \in Seq(S) /\ Len(s) \in Nat
      /\ Len(Append(s, e)) = Len(s) + 1
  OBVIOUS
<1>2. DOMAIN s = 1 .. Len(s) /\ DOMAIN Append(s, e) = 1 .. Len(s) + 1
  BY <1>1, SeqElements
<1> QED
  BY <1>1, <1>2

\* What is left of a sequence behind its first element.
LEMMA BehindFirst ==
  ASSUME NEW S, NEW s \in Seq(S)
  PROVE  /\ SubSeq(s, 2, Len(s)) \in Seq(S)
         /\ s # <<>> => SubSeq(s, 2, Len(s)) = Tail(s)
OBVIOUS

\* The fields of a header.
LEMMA HeaderFields ==
  ASSUME NEW h \in Header
  PROVE  h.len \in Nat /\ h.id \in Nat /\ h.id \in 1 .. MaxPost /\ h # Junk
<1>1. h.len \in DataSize \cup {0} /\ h.id \in 1 .. MaxPost
  BY DEF Header
<1>2. DataSize \cup {0} \subseteq Nat /\ 1 .. MaxPost \subseteq Nat
  BY QueueAssumption
<1>3. h # Junk
  BY JunkAssumption
<1> QED
  BY <1>1, <1>2, <1>3

\* A buffer with n > 0 units appended is a buffer, filled further.
LEMMA AppendDataType ==
  ASSUME NEW buf \in Buffer, NEW first \in Header \cup {Junk}, NEW n \in Nat,
         Room(buf, n)
  PROVE  /\ AppendData(buf, first, n) \in Buffer
         /\ AppendData(buf, first, n).len = buf.len + n
         /\ \A u \in Unit :
              AppendData(buf, first, n).unit[u] =
                IF u = buf.len /\ n > 0 THEN first
                ELSE IF u \in buf.len .. buf.len + n - 1 THEN Junk
                ELSE buf.unit[u]
<1>1. buf.len \in 0 .. Capacity /\ Capacity \in Nat
  BY QueueAssumption DEF Buffer
<1>2. buf.len + n \in 0 .. Capacity
  BY <1>1 DEF Room
<1>3. [u \in Unit |->
         IF u = buf.len /\ n > 0 THEN first
         ELSE IF u \in buf.len .. buf.len + n - 1 THEN Junk
         ELSE buf.unit[u]] \in [Unit -> Header \cup {Junk}]
  BY DEF Buffer
<1> QED
  BY <1>2, <1>3 DEF AppendData, Buffer

\* What PostMsg does to a buffer with room for a header: the header is appended,
\* and the data when there is room for it too.
LEMMA AppendMsgIs ==
  ASSUME NEW buf \in Buffer, NEW h \in Header, Room(buf, HeadSize)
  PROVE  LET new == AppendMsg(buf, h)
         IN  /\ new \in Buffer
             /\ new.len \in Nat /\ new.len <= Capacity
             /\ new.len >= buf.len + HeadSize
             /\ new.len = buf.len + HeadSize + h.len
                \/ buf.len + HeadSize + h.len > Capacity
             /\ \A u \in 0 .. new.len - 1 : new.unit[u] =
                  IF u = buf.len THEN h
                  ELSE IF u < buf.len THEN buf.unit[u] ELSE Junk
<1> DEFINE new == AppendMsg(buf, h)
           begun == AppendData(buf, h, HeadSize)
           whole == AppendData(begun, Junk, h.len)
<1>0. /\ HeadSize \in Nat /\ HeadSize > 0 /\ Capacity \in Nat
      /\ h.len \in Nat /\ buf.len \in 0 .. Capacity
  BY HeaderFields, QueueAssumption DEF Buffer
<1>1. /\ begun \in Buffer
      /\ begun.len = buf.len + HeadSize
      /\ \A u \in Unit : begun.unit[u] =
           IF u = buf.len THEN h
           ELSE IF u \in buf.len .. buf.len + HeadSize - 1 THEN Junk
           ELSE buf.unit[u]
  BY <1>0, AppendDataType
<1>2. /\ new \in Buffer
      /\ new.len \in Nat /\ new.len <= Capacity
      /\ new.len >= buf.len + HeadSize
      /\ new.len = buf.len + HeadSize + h.len
         \/ buf.len + HeadSize + h.len > Capacity
      /\ \A u \in 0 .. new.len - 1 : new.unit[u] =
           IF u = buf.len THEN h
           ELSE IF u < buf.len THEN buf.unit[u] ELSE Junk
  <2>1. CASE Room(begun, h.len)
    <3>1. new = whole
      BY <2>1 DEF AppendMsg
    <3>2. /\ whole \in Buffer
          /\ whole.len = begun.len + h.len
          /\ \A u \in Unit : whole.unit[u] =
               IF u = begun.len /\ h.len > 0 THEN Junk
               ELSE IF u \in begun.len .. begun.len + h.len - 1 THEN Junk
               ELSE begun.unit[u]
      <4>1. h.len \in Nat /\ Junk \in Header \cup {Junk}
        BY <1>0
      <4> HIDE DEF begun
      <4> QED
        BY <1>1, <2>1, <4>1, AppendDataType
    <3>3. whole.len <= Capacity /\ whole.len = buf.len + HeadSize + h.len
      BY <1>0, <1>1, <2>1, <3>2 DEF Room
    <3>4. \A u \in 0 .. whole.len - 1 : whole.unit[u] =
            IF u = buf.len THEN h
            ELSE IF u < buf.len THEN buf.unit[u] ELSE Junk
      BY <1>0, <1>1, <3>2, <3>3 DEF Unit
    <3> QED
      BY <1>0, <3>1, <3>2, <3>3, <3>4
  <2>2. CASE ~Room(begun, h.len)
    <3>1. new = begun
      BY <2>2 DEF AppendMsg
    <3>2. begun.len <= Capacity /\ begun.len + h.len > Capacity
      BY <1>0, <1>1, <2>2 DEF Room
    <3>3. \A u \in 0 .. begun.len - 1 : begun.unit[u] =
            IF u = buf.len THEN h
            ELSE IF u < buf.len THEN buf.unit[u] ELSE Junk
      BY <1>0, <1>1, <3>2 DEF Unit
    <3> QED
      BY <1>0, <1>1, <3>1, <3>2, <3>3
  <2> QED
    BY <2>1, <2>2
<1> QED
  BY <1>2

\* What PostMsg does to a buffer: it may add one header, at the end of what was
\* filled, and the chain stays a chain.
LEMMA AppendKeeps ==
  ASSUME NEW buf \in Buffer, NEW h \in Header,
         Chained(buf), Sorted(buf),
         \A o \in Heads(buf) : buf.unit[o].id < h.id
  PROVE  LET new == AppendMsg(buf, h)
         IN  /\ new \in Buffer
             /\ Chained(new) /\ Sorted(new)
             /\ \A o \in Heads(new) :
                  \/ new.unit[o] = h
                  \/ o \in Heads(buf) /\ new.unit[o] = buf.unit[o]
<1> DEFINE new == AppendMsg(buf, h)
<1>0. /\ HeadSize \in Nat /\ HeadSize > 0 /\ Capacity \in Nat
      /\ h.len \in Nat /\ h.id \in Nat /\ h # Junk
      /\ buf.len \in 0 .. Capacity
      /\ \A o \in Heads(buf) : buf.unit[o] \in Header
  <2>1. /\ h.len \in Nat /\ h.id \in Nat /\ h # Junk
    BY HeaderFields
  <2>2. \A o \in Heads(buf) : buf.unit[o] \in Header
    <3>1. buf.len \in 0 .. Capacity /\ Capacity \in Nat
          /\ \A u \in Unit : buf.unit[u] \in Header \cup {Junk}
      BY QueueAssumption DEF Buffer
    <3>2. Heads(buf) \subseteq Unit
      BY <3>1 DEF Heads, Unit
    <3> QED
      BY <3>1, <3>2 DEF Heads
  <2> QED
    BY <2>1, <2>2, QueueAssumption DEF Buffer
<1>1. CASE ~Room(buf, HeadSize)
  BY <1>1 DEF AppendMsg
<1>2. CASE Room(buf, HeadSize)
  <2>2. /\ new \in Buffer
        /\ new.len \in Nat /\ new.len <= Capacity
        /\ new.len >= buf.len + HeadSize
        /\ new.len = buf.len + HeadSize + h.len
           \/ buf.len + HeadSize + h.len > Capacity
        /\ \A u \in 0 .. new.len - 1 : new.unit[u] =
             IF u = buf.len THEN h
             ELSE IF u < buf.len THEN buf.unit[u] ELSE Junk
    BY <1>2, AppendMsgIs
  <2> HIDE DEF new
  <2>3. Heads(new) = Heads(buf) \cup {buf.len}
    BY <1>0, <2>2 DEF Heads
  <2>4. /\ new.unit[buf.len] = h
        /\ \A o \in Heads(buf) : o < buf.len /\ o \in Nat
                                 /\ new.unit[o] = buf.unit[o]
    BY <1>0, <2>2 DEF Heads
  <2>5. Chained(new)
    <3>1. 0 \in Heads(new)
      BY <1>0, <2>3 DEF Chained
    <3>2. ASSUME NEW o \in Heads(buf)
          PROVE  LET next == Following(new.unit[o], o)
                 IN  next \in Heads(new) \/ next = new.len \/ next > Capacity
      BY <2>3, <2>4 DEF Chained
    <3>3. LET next == Following(new.unit[buf.len], buf.len)
          IN  next = new.len \/ next > Capacity
      BY <1>0, <2>2, <2>4 DEF Following
    <3> QED
      BY <2>3, <3>1, <3>2, <3>3 DEF Chained
  <2>6. Sorted(new)
    BY <1>0, <2>3, <2>4 DEF Sorted
  <2> QED
    BY <2>2, <2>3, <2>4, <2>5, <2>6 DEF new
<1> QED
  BY <1>1, <1>2
-----------------------------------------------------------------------------
LEMMA QueueStart == QueueInit => QueueInv
<1> SUFFICES ASSUME QueueInit PROVE QueueInv
  OBVIOUS
<1>1. Empty \in Buffer /\ Empty.len = 0 /\ Heads(Empty) = {}
  BY QueueAssumption DEF Empty, Buffer, Heads
<1>2. QueueTypeOK
  BY <1>1, QueueAssumption DEF QueueInit, QueueTypeOK
<1> QED
  BY <1>1, <1>2 DEF QueueInit, QueueInv, Chained, Sorted, Cursor, Named,
                    Later, InOrder

\* A post leaves everything ahead of it as it was.
LEMMA PostKeeps ==
  ASSUME QueueInv, AppendNext, UNCHANGED <<cus, off, pc, run, handled, ahead>>,
         posting' \in [Poster -> {"idle", "append", "signal"}],
         event' \in Nat
  PROVE  QueueInv'
<1>1. PICK n \in DataSize \cup {0}, exit \in BOOLEAN :
        product' = AppendMsg(product,
                             [id |-> posted + 1, len |-> n, exit |-> exit])
  BY DEF AppendNext
<1> DEFINE h == [id |-> posted + 1, len |-> n, exit |-> exit]
<1>2. /\ posted \in Nat /\ posted' = posted + 1 /\ posted' \in 0 .. MaxPost
      /\ h \in Header /\ h.id = posted + 1
  BY QueueAssumption DEF QueueInv, QueueTypeOK, AppendNext, Header
<1>3. \A o \in Heads(product) :
        product.unit[o].id \in Nat /\ product.unit[o].id <= posted
  <2>1. \A o \in Heads(product) : product.unit[o] \in Header
    BY QueueAssumption DEF QueueInv, QueueTypeOK, Heads, Buffer, Unit
  <2> QED
    BY <2>1 DEF Header, QueueInv, Named
<1> HIDE DEF h
<1>4. /\ product' \in Buffer
      /\ Chained(product') /\ Sorted(product')
      /\ \A o \in Heads(product') :
           \/ product'.unit[o] = h
           \/ o \in Heads(product) /\ product'.unit[o] = product.unit[o]
  <2>1. \A o \in Heads(product) : product.unit[o].id < h.id
    BY <1>2, <1>3
  <2>2. product' = AppendMsg(product, h)
    BY <1>1 DEF h
  <2> QED
    BY <1>2, <2>1, <2>2, AppendKeeps DEF QueueInv, QueueTypeOK
<1>5. /\ \A o \in Heads(cus) : cus.unit[o].id \in Nat
      /\ \A i \in DOMAIN handled : handled[i].id \in Nat
  <2>1. \A o \in Heads(cus) : cus.unit[o] \in Header
    BY QueueAssumption DEF QueueInv, QueueTypeOK, Heads, Buffer, Unit
  <2>2. \A i \in DOMAIN handled : handled[i] \in [id : 1 .. MaxPost, whole : BOOLEAN]
    BY SeqElements DEF QueueInv, QueueTypeOK
  <2> QED
    BY <2>1, <2>2, QueueAssumption DEF Header
<1>6. Named'
  BY <1>2, <1>3, <1>4, <1>5 DEF QueueInv, Named
<1>7. Later'
  BY <1>2, <1>3, <1>4, <1>5 DEF QueueInv, Later, Named
<1>8. QueueTypeOK'
  <2>1. product.len < product'.len => product.len \in Unit
    BY <1>4, QueueAssumption DEF QueueInv, QueueTypeOK, Buffer, Unit
  <2>2. behind \in Seq(Unit)
    BY DEF QueueInv, QueueTypeOK
  <2>3. behind' \in Seq(Unit)
    <3>1. product'.len > product.len <=> product.len < product'.len
      BY <1>4, QueueAssumption DEF QueueInv, QueueTypeOK, Buffer
    <3> QED
      BY <2>1, <2>2, <3>1, AppendElements DEF AppendNext
  <2> QED
    BY <1>2, <1>4, <2>3 DEF QueueInv, QueueTypeOK
<1> QED
  BY <1>4, <1>6, <1>7, <1>8
     DEF QueueInv, Chained, Sorted, Heads, Cursor, InOrder

\* Swap: what was being filled is next to be handled, and nothing is filled.
LEMMA SwapKeeps == QueueInv /\ Swap => QueueInv'
<1> SUFFICES ASSUME QueueInv, Swap PROVE QueueInv'
  OBVIOUS
<1>1. /\ cus' = product /\ product' \in Buffer /\ product'.len = 0
      /\ Heads(product') = {}
  <2>1. cus \in Buffer /\ cus' = product /\ product' = [cus EXCEPT !.len = 0]
    BY DEF QueueInv, QueueTypeOK, Swap
  <2>2. product' \in Buffer /\ product'.len = 0
    BY <2>1, QueueAssumption DEF Buffer
  <2> QED
    BY <2>1, <2>2 DEF Heads
<1>2. QueueTypeOK'
  BY <1>1 DEF QueueInv, QueueTypeOK, Swap
<1>3. Heads(cus') = Heads(product)
  BY <1>1
<1>4. Chained(product') /\ Sorted(product') /\ Chained(cus') /\ Sorted(cus')
  BY <1>1 DEF QueueInv, Chained, Sorted
<1>5. Cursor'
  <2>1. product.len \in Nat
    BY QueueAssumption DEF QueueInv, QueueTypeOK, Buffer
  <2> QED
    BY <1>1, <1>3, <2>1 DEF QueueInv, Chained, Cursor, Swap
<1>6. Named' /\ Later' /\ InOrder'
  BY <1>1, <1>3 DEF QueueInv, Named, Later, InOrder, Swap
<1> QED
  BY <1>2, <1>4, <1>5, <1>6 DEF QueueInv

\* DoMsg: the message handled comes after all handled before, and the thread
\* goes on along the chain.
LEMMA DoMsgKeeps == QueueInv /\ DoMsg => QueueInv'
<1> SUFFICES ASSUME QueueInv, DoMsg PROVE QueueInv'
  OBVIOUS
<1> DEFINE h == cus.unit[off]
           rec == [id |-> h.id, whole |-> Following(h, off) <= cus.len]
<1>1. /\ off \in Heads(cus) /\ off \in Nat
      /\ cus.len \in Nat /\ cus.len <= Capacity /\ Capacity \in Nat
      /\ HeadSize \in Nat /\ HeadSize > 0
      /\ handled' = Append(handled, rec) /\ off' = Following(h, off)
      /\ pc = "handle" /\ pc' = "handle"
      /\ UNCHANGED <<product, cus, posting, event, posted>>
  BY QueueAssumption DEF QueueInv, QueueTypeOK, Buffer, Cursor, DoMsg
<1>2. \A o \in Heads(cus) : cus.unit[o] \in Header
  BY <1>1 DEF QueueInv, QueueTypeOK, Heads, Buffer, Unit
<1>3. /\ \A o \in Heads(cus) : cus.unit[o].id \in Nat
      /\ h \in Header /\ h.len \in Nat /\ h.id \in 1 .. MaxPost
      /\ rec \in [id : 1 .. MaxPost, whole : BOOLEAN]
  <2>1. h \in Header
    BY <1>1, <1>2
  <2>2. h.len \in Nat /\ h.id \in 1 .. MaxPost
    BY <2>1, HeaderFields
  <2>3. \A o \in Heads(cus) : cus.unit[o].id \in Nat
    BY <1>2, QueueAssumption DEF Header
  <2> QED
    BY <2>1, <2>2, <2>3
<1>4. handled \in Seq([id : 1 .. MaxPost, whole : BOOLEAN])
  BY DEF QueueInv, QueueTypeOK
<1>5. /\ DOMAIN handled' = DOMAIN handled \cup {Len(handled) + 1}
      /\ DOMAIN handled = 1 .. Len(handled) /\ Len(handled) \in Nat
      /\ handled'[Len(handled) + 1] = rec /\ rec.id = h.id
      /\ \A i \in DOMAIN handled : handled'[i] = handled[i]
                                   /\ handled[i].id \in Nat
  <2>1. /\ Len(handled) \in Nat /\ DOMAIN handled = 1 .. Len(handled)
        /\ \A i \in DOMAIN handled : handled[i] \in [id : 1 .. MaxPost, whole : BOOLEAN]
    BY <1>4, SeqElements
  <2>2. \A i \in DOMAIN handled : handled[i].id \in Nat
    <3>1. 1 .. MaxPost \subseteq Nat
      BY QueueAssumption
    <3> QED
      BY <2>1, <3>1
  <2>3. rec.id = h.id
    OBVIOUS
  <2> HIDE DEF rec
  <2>4. /\ DOMAIN handled' = DOMAIN handled \cup {Len(handled) + 1}
        /\ handled'[Len(handled) + 1] = rec
        /\ \A i \in DOMAIN handled : handled'[i] = handled[i]
    BY <1>1, <1>3, <1>4, AppendElements
  <2> QED
    BY <2>1, <2>2, <2>3, <2>4
<1>6. off' \in Nat /\ off' > off
      /\ (off' \in Heads(cus) \/ off' >= cus.len)
  BY <1>1, <1>3 DEF QueueInv, Chained, Following
<1>7. QueueTypeOK'
  <2>1. run' \in BOOLEAN
    BY <1>3 DEF DoMsg, Header
  <2>2. handled' \in Seq([id : 1 .. MaxPost, whole : BOOLEAN])
    BY <1>1, <1>3, <1>4
  <2>3. ahead' \in Seq(Unit) /\ behind' \in Seq(Unit)
    BY BehindFirst DEF DoMsg, QueueInv, QueueTypeOK
  <2> QED
    BY <1>1, <1>6, <2>1, <2>2, <2>3 DEF QueueInv, QueueTypeOK
<1> HIDE DEF rec
<1>8. \A i \in DOMAIN handled : handled[i].id < h.id
  BY <1>1 DEF QueueInv, Later
<1>9. InOrder'
  BY <1>3, <1>5, <1>8 DEF QueueInv, InOrder
<1>10. Named'
  <2>1. h.id <= posted
    BY <1>1 DEF QueueInv, Named
  <2> QED
    BY <1>1, <1>5, <2>1 DEF QueueInv, Named, Heads
<1>11. Later'
  <2>1. \A p \in Heads(product) : h.id < product.unit[p].id
    BY <1>1 DEF QueueInv, Later
  <2>2. \A o \in Heads(cus) : o >= off' => h.id < cus.unit[o].id
    <3>1. \A o \in Heads(cus) : o >= off' => off < o
      BY <1>1, <1>6 DEF Heads
    <3> QED
      BY <1>1, <3>1 DEF QueueInv, Sorted
  <2>3. \A o \in Heads(cus), i \in DOMAIN handled :
          o >= off' => handled[i].id < cus.unit[o].id
    <3>1. \A o \in Heads(cus) : o >= off' => o >= off
      BY <1>1, <1>6 DEF Heads
    <3> QED
      BY <1>1, <3>1 DEF QueueInv, Later
  <2>4. /\ Heads(cus') = Heads(cus) /\ Heads(product') = Heads(product)
        /\ cus' = cus /\ product' = product
    BY <1>1
  <2> QED
    BY <1>1, <1>5, <2>1, <2>2, <2>3, <2>4 DEF QueueInv, Later
<1> QED
  BY <1>1, <1>6, <1>7, <1>9, <1>10, <1>11
     DEF QueueInv, Cursor, Chained, Sorted, Heads

LEMMA QueueStep == QueueInv /\ [QueueNext]_qVars => QueueInv'
<1> SUFFICES ASSUME QueueInv, [QueueNext]_qVars PROVE QueueInv'
  OBVIOUS
<1> USE DEF QueueInv, QueueTypeOK
<1>1. CASE Swap
  BY <1>1, SwapKeeps
<1>2. CASE DoMsg
  BY <1>2, DoMsgKeeps
<1>3. event + 1 \in Nat /\ Signalled \in Nat
  BY DEF Signalled
<1>4. CASE PostOwn
  BY <1>3, <1>4, PostKeeps DEF PostOwn
<1>5. ASSUME NEW p \in Poster, PostAppend(p) PROVE QueueInv'
  <2>1. posting' \in [Poster -> {"idle", "append", "signal"}] /\ event' \in Nat
    BY <1>5 DEF PostAppend
  <2> QED
    BY <1>5, <2>1, PostKeeps DEF PostAppend
<1> DEFINE Quiet == /\ UNCHANGED <<product, cus, off, run, posted, handled,
                                  ahead, behind>>
                    /\ pc' # "handle" \/ pc' = pc
                    /\ pc' \in {"wait", "swap", "handle", "timer", "done"}
                    /\ posting' \in [Poster -> {"idle", "append", "signal"}]
                    /\ event' \in Nat
<1>6. CASE Quiet
  <2>1. QueueTypeOK'
    BY <1>6
  <2>2. Cursor' /\ Named' /\ Later' /\ InOrder'
    BY <1>6 DEF Cursor, Named, Later, InOrder, Heads
  <2>3. Chained(product') /\ Sorted(product') /\ Chained(cus') /\ Sorted(cus')
    BY <1>6 DEF Chained, Sorted, Heads
  <2> QED
    BY <2>1, <2>2, <2>3
<1>7. ASSUME Wait \/ WaitTimeout \/ EndBatch \/ EndRound \/ UNCHANGED qVars
             \/ \E p \in Poster : PostBegin(p) \/ PostSignal(p)
      PROVE  Quiet
  <2>1. CASE Wait
    <3>1. event - 1 \in Nat
      BY <2>1 DEF Wait
    <3> QED
      BY <2>1, <3>1 DEF Wait
  <2>2. CASE WaitTimeout \/ EndBatch \/ EndRound \/ UNCHANGED qVars
    BY <2>2 DEF WaitTimeout, EndBatch, EndRound, qVars
  <2>3. ASSUME NEW p \in Poster, PostBegin(p) \/ PostSignal(p) PROVE Quiet
    BY <1>3, <2>3 DEF PostBegin, PostSignal
  <2> QED
    BY <1>7, <2>1, <2>2, <2>3
<1> QED
  BY <1>1, <1>2, <1>4, <1>5, <1>6, <1>7 DEF QueueNext, Run, PostMsg

LEMMA QueueAlways == QueueSpec => []QueueInv
BY QueueStart, QueueStep, PTL DEF QueueSpec

\* The thread reads a header wherever it reads one (Module.cpp:58-61), whatever
\* the sizes, and however often a header was left without its data.
THEOREM NeverMisaligned == QueueSpec => []Aligned
<1>1. QueueInv => Aligned
  <2> SUFFICES ASSUME QueueInv, pc = "handle", off < cus.len
               PROVE  cus.unit[off] # Junk
    BY DEF Aligned
  <2>1. off \in Nat /\ cus.len \in Nat
    BY QueueAssumption DEF QueueInv, QueueTypeOK, Buffer
  <2> QED
    BY <2>1 DEF QueueInv, Cursor, Heads
<1> QED
  BY <1>1, QueueAlways, PTL

\* Messages are handled at most once and in the order of their posts
\* (Module.cpp:49-61, 74-80).
THEOREM HandledInOrder == QueueSpec => []InOrder
<1>1. QueueInv => InOrder
  BY DEF QueueInv
<1> QED
  BY <1>1, QueueAlways, PTL

\* Buffers, position and history stay what they are meant to be: what PostMsg
\* appends never goes past the end of a buffer (CModuleData::AppendData), and
\* what the thread handles are messages posted.
THEOREM QueueTypeCorrect == QueueSpec => []QueueTypeOK
<1>1. QueueInv => QueueTypeOK
  BY DEF QueueInv
<1> QED
  BY <1>1, QueueAlways, PTL
-----------------------------------------------------------------------------
(* The queue is a FIFO.  The headers at which the walk over a buffer stops *)
(* are found by following one to the next, from where it begins to where   *)
(* the buffer ends: the history variables name exactly those.              *)

\* Where the walk goes on from the i-th header of at.
After(buf, at, i) == Following(buf.unit[at[i]], at[i])

\* The walk over buf from o on stops at the headers at, and at no others.
Reaches(buf, o, at) ==
  /\ \A i \in DOMAIN at : at[i] \in Heads(buf)
  /\ at = <<>> => o >= buf.len
  /\ at # <<>> => at[1] = o /\ After(buf, at, Len(at)) >= buf.len
  /\ \A i \in DOMAIN at : i < Len(at) => at[i + 1] = After(buf, at, i)

\* A buffer is handed back only when all of it was handled.
Turned ==
  /\ pc \in {"wait", "swap"} => run
  /\ (pc \in {"timer", "wait", "swap"} /\ run) => off >= cus.len

FifoInv ==
  /\ QueueInv
  /\ Reaches(product, 0, behind) /\ Reaches(cus, off, ahead)
  /\ Turned

FifoMsg == [id : 1 .. MaxPost, exit : BOOLEAN, whole : BOOLEAN]

LEMMA ConcatAppend ==
  ASSUME NEW S, NEW a \in Seq(S), NEW b \in Seq(S), NEW e \in S
  PROVE  a \o Append(b, e) = Append(a \o b, e)
OBVIOUS

LEMMA ConcatTail ==
  ASSUME NEW S, NEW a \in Seq(S), NEW b \in Seq(S), a # <<>>
  PROVE  /\ a \o b # <<>> /\ Head(a \o b) = Head(a)
         /\ Tail(a \o b) = Tail(a) \o b
OBVIOUS

\* The headers of a walk, and where each of them leads.
LEMMA WalkFacts ==
  ASSUME NEW buf \in Buffer, NEW o, NEW at \in Seq(Unit), Reaches(buf, o, at)
  PROVE  /\ Len(at) \in Nat /\ DOMAIN at = 1 .. Len(at)
         /\ \A i \in DOMAIN at :
              /\ at[i] \in Nat /\ at[i] < buf.len /\ at[i] \in Heads(buf)
              /\ buf.unit[at[i]] \in Header
              /\ After(buf, at, i) \in Nat /\ After(buf, at, i) > at[i]
<1>1. Len(at) \in Nat /\ DOMAIN at = 1 .. Len(at)
  BY SeqElements
<1>2. \A p \in Heads(buf) : p \in Nat /\ p < buf.len /\ buf.unit[p] \in Header
  BY QueueAssumption DEF Heads, Buffer, Unit
<1>3. \A p \in Heads(buf) : /\ Following(buf.unit[p], p) \in Nat
                            /\ Following(buf.unit[p], p) > p
  BY <1>2, HeaderFields, QueueAssumption DEF Following
<1> QED
  BY <1>1, <1>2, <1>3 DEF Reaches, After

LEMMA MessagesType ==
  ASSUME NEW buf \in Buffer, NEW o, NEW at \in Seq(Unit), Reaches(buf, o, at)
  PROVE  /\ Messages(buf, at) \in Seq(FifoMsg)
         /\ Len(Messages(buf, at)) = Len(at)
         /\ \A i \in 1 .. Len(at) : Messages(buf, at)[i] =
              [id |-> buf.unit[at[i]].id, exit |-> buf.unit[at[i]].exit,
               whole |-> After(buf, at, i) <= buf.len]
<1> DEFINE n == Len(at)
           f(i) == [id |-> buf.unit[at[i]].id, exit |-> buf.unit[at[i]].exit,
                    whole |-> After(buf, at, i) <= buf.len]
<1>1. n \in Nat /\ DOMAIN at = 1 .. n
  BY WalkFacts
<1>2. \A i \in 1 .. n : f(i) \in FifoMsg
  <2> TAKE i \in 1 .. n
  <2>1. buf.unit[at[i]] \in Header
    BY <1>1, WalkFacts
  <2> QED
    BY <2>1 DEF Header, FifoMsg
<1>3. Messages(buf, at) = [i \in 1 .. n |-> f(i)]
  BY <1>1 DEF Messages, After
<1> HIDE DEF f, n
<1>4. /\ Messages(buf, at) \in Seq(FifoMsg) /\ Len(Messages(buf, at)) = n
      /\ \A i \in 1 .. n : Messages(buf, at)[i] = f(i)
  BY <1>1, <1>2, <1>3
<1> QED
  BY <1>4 DEF f, n

\* The walk over a buffer ends where it is filled, or behind all that could be.
LEMMA WalkEnds ==
  ASSUME NEW buf \in Buffer, Chained(buf), NEW at \in Seq(Unit),
         Reaches(buf, 0, at)
  PROVE  /\ Reached(buf, at) \in Nat
         /\ Reached(buf, at) = buf.len \/ Reached(buf, at) > Capacity
         /\ \A i \in DOMAIN at :
              After(buf, at, i) <= buf.len <=>
                (i < Len(at) \/ Reached(buf, at) = buf.len)
<1>1. /\ buf.len \in Nat /\ Capacity \in Nat /\ buf.len <= Capacity
      /\ Len(at) \in Nat /\ DOMAIN at = 1 .. Len(at)
  BY WalkFacts, QueueAssumption DEF Buffer
<1>2. CASE at = <<>>
  <2>1. buf.len = 0 /\ Reached(buf, at) = 0 /\ DOMAIN at = {}
    BY <1>1, <1>2 DEF Reaches, Reached
  <2> QED
    BY <2>1
<1>3. CASE at # <<>>
  <2>1. Len(at) \in DOMAIN at
    BY <1>1, <1>3
  <2>2. Reached(buf, at) = After(buf, at, Len(at))
    BY <1>3 DEF Reached, After
  <2>3. /\ at[Len(at)] \in Heads(buf) /\ Reached(buf, at) \in Nat
        /\ Reached(buf, at) >= buf.len
    BY <1>3, <2>1, <2>2, WalkFacts DEF Reaches
  <2>4. Reached(buf, at) = buf.len \/ Reached(buf, at) > Capacity
    BY <1>1, <2>2, <2>3 DEF Chained, After, Heads
  <2>5. \A i \in DOMAIN at : i < Len(at) => After(buf, at, i) < buf.len
    <3> TAKE i \in DOMAIN at
    <3> HAVE i < Len(at)
    <3>1. i + 1 \in DOMAIN at /\ at[i + 1] = After(buf, at, i)
      BY <1>1 DEF Reaches
    <3> QED
      BY <3>1, WalkFacts
  <2>6. \A i \in DOMAIN at : i < Len(at) \/ i = Len(at)
    BY <1>1
  <2>7. \A i \in DOMAIN at : After(buf, at, i) \in Nat
    BY WalkFacts
  <2> QED
    BY <1>1, <2>2, <2>3, <2>4, <2>5, <2>6, <2>7
<1> QED
  BY <1>2, <1>3

LEMMA ReachedIs ==
  ASSUME NEW buf, NEW at
  PROVE  /\ at = <<>> => Reached(buf, at) = 0
         /\ at # <<>> => Reached(buf, at) = After(buf, at, Len(at))
BY DEF Reached, After

\* A post adds a message to those the walk will find, or none, and none behind
\* one that lacks its data.
Extended(buf, at, h, new, next) ==
  \/ /\ Messages(new, next) = Messages(buf, at)
     /\ Spoilt(new, next) <=> Spoilt(buf, at)
  \/ /\ ~Spoilt(buf, at)
     /\ \E whole \in BOOLEAN :
          /\ Messages(new, next) =
               Append(Messages(buf, at),
                      [id |-> h.id, exit |-> h.exit, whole |-> whole])
          /\ Spoilt(new, next) <=> ~whole

LEMMA PostWalk ==
  ASSUME NEW buf \in Buffer, Chained(buf), NEW at \in Seq(Unit),
         Reaches(buf, 0, at), NEW h \in Header,
         NEW new, new = AppendMsg(buf, h),
         NEW end, end = Reached(buf, at),
         NEW next, next = IF new.len > buf.len /\ end = buf.len
                          THEN Append(at, buf.len) ELSE at
  PROVE  /\ new \in Buffer /\ next \in Seq(Unit) /\ Reaches(new, 0, next)
         /\ Extended(buf, at, h, new, next)
<1> USE DEF Extended
<1>1. /\ buf.len \in Nat /\ Capacity \in Nat /\ buf.len <= Capacity
      /\ HeadSize \in Nat /\ HeadSize > 0 /\ h.len \in Nat /\ h # Junk
      /\ Len(at) \in Nat /\ DOMAIN at = 1 .. Len(at)
  BY WalkFacts, HeaderFields, QueueAssumption DEF Buffer
<1> DEFINE n == Len(at)
<1>2. /\ end \in Nat /\ (end = buf.len \/ end > Capacity)
      /\ at = <<>> => end = 0
      /\ at # <<>> => end = After(buf, at, n)
  <2>1. /\ Reached(buf, at) \in Nat
        /\ (Reached(buf, at) = buf.len \/ Reached(buf, at) > Capacity)
    BY WalkEnds
  <2> QED
    BY <2>1, ReachedIs
<1>3. CASE ~Room(buf, HeadSize)
  <2>1. new = buf
    BY <1>3 DEF AppendMsg
  <2>2. ~(new.len > buf.len)
    BY <1>1, <2>1
  <2>3. next = at
    BY <2>2
  <2> QED
    BY <2>1, <2>3
<1>4. CASE Room(buf, HeadSize)
  <2>1. /\ new \in Buffer
        /\ new.len \in Nat /\ new.len <= Capacity
        /\ new.len >= buf.len + HeadSize
        /\ new.len = buf.len + HeadSize + h.len
           \/ buf.len + HeadSize + h.len > Capacity
        /\ \A u \in 0 .. new.len - 1 : new.unit[u] =
             IF u = buf.len THEN h
             ELSE IF u < buf.len THEN buf.unit[u] ELSE Junk
    BY <1>4, AppendMsgIs
  <2>2. /\ new.len > buf.len /\ new.unit[buf.len] = h
        /\ buf.len \in Heads(new) /\ buf.len \in Unit
        /\ \A p \in Heads(buf) : p \in Heads(new) /\ new.unit[p] = buf.unit[p]
    <3>1. new.len > buf.len /\ buf.len \in 0 .. new.len - 1
      BY <1>1, <2>1
    <3>2. new.unit[buf.len] = h
      BY <2>1, <3>1
    <3>3. buf.len \in Unit
      BY <1>1, <2>1, <3>1 DEF Unit
    <3>4. ASSUME NEW p \in Heads(buf)
          PROVE  p \in Heads(new) /\ new.unit[p] = buf.unit[p]
      <4>1. p \in Nat /\ p < buf.len /\ buf.unit[p] # Junk
        BY <1>1 DEF Heads
      <4>2. p \in 0 .. new.len - 1 /\ p # buf.len
        BY <1>1, <2>1, <3>1, <4>1
      <4> QED
        BY <2>1, <4>1, <4>2 DEF Heads
    <3> QED
      BY <1>1, <3>1, <3>2, <3>3, <3>4 DEF Heads
  <2>6. new.len \in Nat /\ new.len <= Capacity /\ buf.len < new.len
    BY <1>1, <2>1, <2>2
  <2>3. \A i \in DOMAIN at :
          /\ at[i] \in Heads(new) /\ new.unit[at[i]] = buf.unit[at[i]]
          /\ After(new, at, i) = After(buf, at, i)
          /\ After(buf, at, i) \in Nat
    BY <2>2, WalkFacts DEF Reaches, After
  <2>4. CASE end # buf.len
    <3>0. next = at
      BY <2>4
    <3>1. end > Capacity /\ end \in Nat
      BY <1>2, <2>4
    <3>2. at # <<>> /\ Len(at) \in DOMAIN at
      <4>1. at # <<>>
        BY <1>1, <1>2, <3>1
      <4> QED
        BY <1>1, <4>1
    <3>3. Reached(new, at) = end /\ end = After(buf, at, Len(at))
          /\ end = After(new, at, Len(at))
      BY <1>2, <2>3, <3>2, ReachedIs
    <3>4. \A i \in DOMAIN at :
            After(new, at, i) <= new.len <=> After(buf, at, i) <= buf.len
      <4> TAKE i \in DOMAIN at
      <4>1. CASE i < Len(at)
        <5>1. After(buf, at, i) <= buf.len
          BY <4>1, WalkEnds
        <5>2. After(new, at, i) = After(buf, at, i) /\ After(buf, at, i) \in Nat
          BY <2>3
        <5> QED
          BY <1>1, <2>6, <5>1, <5>2
      <4>2. CASE i = Len(at)
        <5>1. After(new, at, i) > Capacity /\ After(buf, at, i) > Capacity
          BY <2>3, <3>1, <3>2, <3>3, <4>2
        <5>2. After(new, at, i) \in Nat /\ After(buf, at, i) \in Nat
          BY <2>3
        <5> QED
          BY <1>1, <2>6, <5>1, <5>2
      <4> QED
        BY <1>1, <4>1, <4>2
    <3>5. Reaches(new, 0, at)
      <4>1. After(new, at, Len(at)) >= new.len
        BY <1>1, <2>6, <3>1, <3>3
      <4> QED
        BY <2>3, <3>2, <4>1 DEF Reaches
    <3>6. Messages(new, at) = Messages(buf, at)
      BY <2>3, <3>4 DEF Messages, After
    <3>7. Spoilt(new, at) /\ Spoilt(buf, at)
      <4>1. end # new.len
        BY <1>1, <2>6, <3>1
      <4> QED
        BY <2>4, <3>3, <4>1 DEF Spoilt
    <3> QED
      BY <2>1, <3>0, <3>5, <3>6, <3>7
  <2>5. CASE end = buf.len
    <3> DEFINE whole == buf.len + HeadSize + h.len <= new.len
               m == [id |-> h.id, exit |-> h.exit, whole |-> whole]
    <3>1. next = Append(at, buf.len)
      BY <2>2, <2>5
    <3>2. /\ next \in Seq(Unit) /\ Len(next) = n + 1
          /\ DOMAIN next = 1 .. n + 1
          /\ next[n + 1] = buf.len
          /\ \A i \in DOMAIN at : next[i] = at[i]
      BY <1>1, <2>2, <3>1, AppendElements
    <3>3. /\ \A i \in DOMAIN at : After(new, next, i) = After(buf, at, i)
          /\ After(new, next, n + 1) = buf.len + HeadSize + h.len
          /\ Reached(new, next) = buf.len + HeadSize + h.len
      <4>1. next # <<>>
        BY <1>1, <3>2
      <4>2. \A i \in DOMAIN at : After(new, next, i) = After(buf, at, i)
        BY <2>3, <3>2 DEF After
      <4>3. After(new, next, n + 1) = buf.len + HeadSize + h.len
        BY <2>2, <3>2 DEF After, Following
      <4>4. Reached(new, next) = After(new, next, n + 1)
        BY <3>2, <4>1, ReachedIs
      <4> QED
        BY <4>2, <4>3, <4>4
    <3>4. Reaches(new, 0, next)
      <4>1. \A i \in DOMAIN next : next[i] \in Heads(new)
        BY <1>1, <2>2, <2>3, <3>2
      <4>2. next # <<>> /\ next[1] = 0
        <5>1. CASE at = <<>>
          BY <1>1, <1>2, <2>5, <3>2, <5>1
        <5>2. CASE at # <<>>
          BY <1>1, <3>2, <5>2 DEF Reaches
        <5> QED
          BY <5>1, <5>2
      <4>3. After(new, next, Len(next)) >= new.len
        BY <1>1, <2>1, <3>2, <3>3
      <4>4. \A i \in DOMAIN next : i < Len(next) => next[i + 1] = After(new, next, i)
        <5> TAKE i \in DOMAIN next
        <5> HAVE i < Len(next)
        <5>1. i \in DOMAIN at /\ i \in 1 .. n
          BY <1>1, <3>2
        <5>2. CASE i < n
          <6>1. i + 1 \in DOMAIN at
            BY <1>1, <5>1, <5>2
          <6> QED
            BY <3>2, <3>3, <5>1, <5>2, <6>1 DEF Reaches
        <5>3. CASE i = n
          <6>1. After(buf, at, n) = end
            BY <1>1, <1>2, <5>1, <5>3
          <6> QED
            BY <2>5, <3>2, <3>3, <5>1, <5>3, <6>1
        <5> QED
          BY <1>1, <5>1, <5>2, <5>3
      <4> QED
        BY <4>1, <4>2, <4>3, <4>4 DEF Reaches
    <3>5. Messages(new, next) = Append(Messages(buf, at), m)
      <4> DEFINE M == Messages(buf, at)
                 N == Messages(new, next)
      <4>1. /\ M \in Seq(FifoMsg) /\ Len(M) = n
            /\ \A i \in 1 .. n : M[i] =
                 [id |-> buf.unit[at[i]].id, exit |-> buf.unit[at[i]].exit,
                  whole |-> After(buf, at, i) <= buf.len]
        BY MessagesType
      <4>2. /\ N \in Seq(FifoMsg) /\ Len(N) = n + 1
            /\ \A i \in 1 .. n + 1 : N[i] =
                 [id |-> new.unit[next[i]].id, exit |-> new.unit[next[i]].exit,
                  whole |-> After(new, next, i) <= new.len]
        <5>1. new \in Buffer /\ next \in Seq(Unit) /\ Len(next) = n + 1
          BY <2>1, <3>2
        <5>2. /\ N \in Seq(FifoMsg) /\ Len(N) = Len(next)
              /\ \A i \in 1 .. Len(next) : N[i] =
                   [id |-> new.unit[next[i]].id, exit |-> new.unit[next[i]].exit,
                    whole |-> After(new, next, i) <= new.len]
          BY <3>4, <5>1, MessagesType, Zenon
        <5> HIDE DEF N, n
        <5> QED
          BY <5>1, <5>2
      <4>3. m \in FifoMsg
        BY DEF Header, FifoMsg
      <4>4. N[n + 1] = m
        <5>1. n + 1 \in 1 .. n + 1 /\ new.unit[next[n + 1]] = h
          BY <1>1, <2>2, <3>2
        <5> HIDE DEF N
        <5> QED
          BY <3>3, <4>2, <5>1
      <4>5. \A i \in 1 .. n : N[i] = M[i]
        <5> TAKE i \in 1 .. n
        <5>1. i \in DOMAIN at /\ i \in 1 .. n + 1
          BY <1>1
        <5> HIDE DEF M, N
        <5>2. After(buf, at, i) <= buf.len /\ After(new, next, i) <= new.len
          <6>1. After(buf, at, i) <= buf.len
            BY <2>5, <5>1, WalkEnds
          <6>2. /\ After(new, next, i) = After(buf, at, i)
                /\ After(buf, at, i) \in Nat
            BY <2>3, <3>3, <5>1
          <6> QED
            BY <1>1, <2>6, <6>1, <6>2
        <5>3. new.unit[next[i]] = buf.unit[at[i]]
          BY <2>3, <3>2, <5>1
        <5> QED
          BY <4>1, <4>2, <5>1, <5>2, <5>3
      <4> HIDE DEF M, N, m
      <4> QED
        BY <1>1, <4>1, <4>2, <4>3, <4>4, <4>5 DEF M, N
    <3>6. Spoilt(new, next) <=> ~whole
      BY <1>1, <2>1, <3>3 DEF Spoilt
    <3>7. ~Spoilt(buf, at) /\ whole \in BOOLEAN
      BY <2>5 DEF Spoilt
    <3> QED
      BY <2>1, <3>2, <3>4, <3>5, <3>6, <3>7
  <2> QED
    BY <2>4, <2>5
<1> QED
  BY <1>3, <1>4

LEMMA TailElements ==
  ASSUME NEW S, NEW s \in Seq(S), s # <<>>
  PROVE  LET t == SubSeq(s, 2, Len(s))
         IN  /\ t \in Seq(S) /\ t = Tail(s) /\ Len(s) \in Nat \ {0}
             /\ Len(t) = Len(s) - 1 /\ DOMAIN t = 1 .. Len(s) - 1
             /\ \A i \in 1 .. Len(s) - 1 : t[i] = s[i + 1]
<1>1. SubSeq(s, 2, Len(s)) = Tail(s)
  BY BehindFirst
<1>2. /\ Tail(s) \in Seq(S) /\ Len(s) \in Nat \ {0}
      /\ Len(Tail(s)) = Len(s) - 1 /\ DOMAIN Tail(s) = 1 .. Len(s) - 1
      /\ \A i \in 1 .. Len(s) - 1 : Tail(s)[i] = s[i + 1]
  OBVIOUS
<1> QED
  BY <1>1, <1>2

\* Handling the first message leaves the walk over the others.
LEMMA StepWalk ==
  ASSUME NEW buf \in Buffer, NEW o \in Nat, o < buf.len,
         NEW at \in Seq(Unit), Reaches(buf, o, at)
  PROVE  LET next == SubSeq(at, 2, Len(at))
             h == buf.unit[o]
             M == Messages(buf, at)
         IN  /\ Reaches(buf, Following(h, o), next)
             /\ M # <<>> /\ Tail(M) = Messages(buf, next)
             /\ Head(M) = [id |-> h.id, exit |-> h.exit,
                           whole |-> Following(h, o) <= buf.len]
<1> DEFINE next == SubSeq(at, 2, Len(at))
           n == Len(at)
           h == buf.unit[o]
           M == Messages(buf, at)
           N == Messages(buf, next)
<1>1. /\ n \in Nat /\ DOMAIN at = 1 .. n /\ buf.len \in Nat
      /\ \A i \in 1 .. n : After(buf, at, i) \in Nat
  BY WalkFacts, QueueAssumption DEF Buffer
<1>2. at # <<>> /\ at[1] = o /\ n > 0
  <2>1. at # <<>>
    BY <1>1 DEF Reaches
  <2> QED
    BY <1>1, <2>1 DEF Reaches
<1>3. /\ next \in Seq(Unit) /\ Len(next) = n - 1 /\ DOMAIN next = 1 .. n - 1
      /\ \A i \in 1 .. n - 1 : next[i] = at[i + 1]
  BY <1>2, TailElements, Zenon
<1> HIDE DEF next
<1>4. \A i \in 1 .. n - 1 : After(buf, next, i) = After(buf, at, i + 1)
  BY <1>3 DEF After
<1>5. After(buf, at, 1) = Following(h, o)
  BY <1>2 DEF After
<1>6. Reaches(buf, Following(h, o), next)
  <2>1. \A i \in DOMAIN next : next[i] \in Heads(buf)
    <3> TAKE i \in DOMAIN next
    <3>1. i + 1 \in DOMAIN at /\ next[i] = at[i + 1]
      BY <1>1, <1>3
    <3> QED
      BY <3>1 DEF Reaches
  <2>2. CASE n = 1
    <3>1. next = <<>> /\ DOMAIN next = {}
      BY <1>3, <2>2
    <3>2. Following(h, o) >= buf.len
      BY <1>2, <1>5, <2>2 DEF Reaches
    <3> QED
      BY <3>1, <3>2 DEF Reaches
  <2>3. CASE n > 1
    <3>1. next # <<>> /\ n - 1 \in 1 .. n - 1 /\ 1 \in 1 .. n - 1
      BY <1>1, <1>3, <2>3
    <3>2. next[1] = Following(h, o)
      <4>1. at[2] = After(buf, at, 1)
        BY <1>1, <2>3 DEF Reaches
      <4> QED
        BY <1>3, <1>5, <3>1, <4>1
    <3>3. After(buf, next, Len(next)) >= buf.len
      <4>1. After(buf, next, n - 1) = After(buf, at, n)
        BY <1>1, <1>4, <3>1
      <4>2. After(buf, at, n) >= buf.len
        BY <1>2 DEF Reaches
      <4> QED
        BY <1>3, <4>1, <4>2
    <3>4. \A i \in DOMAIN next :
            i < Len(next) => next[i + 1] = After(buf, next, i)
      <4> TAKE i \in DOMAIN next
      <4> HAVE i < Len(next)
      <4>1. /\ i \in 1 .. n - 1 /\ i + 1 \in 1 .. n - 1
            /\ i + 1 \in DOMAIN at /\ i + 1 < n
        BY <1>1, <1>3
      <4>2. at[(i + 1) + 1] = After(buf, at, i + 1)
        BY <4>1 DEF Reaches
      <4> QED
        BY <1>3, <1>4, <4>1, <4>2
    <3> QED
      BY <2>1, <3>1, <3>2, <3>3, <3>4 DEF Reaches
  <2> QED
    BY <1>1, <1>2, <2>2, <2>3
<1> HIDE DEF M, N, n, h
<1>7. /\ M \in Seq(FifoMsg) /\ Len(M) = n
      /\ \A i \in 1 .. n : M[i] =
           [id |-> buf.unit[at[i]].id, exit |-> buf.unit[at[i]].exit,
            whole |-> After(buf, at, i) <= buf.len]
  BY MessagesType DEF M, n
<1>8. /\ N \in Seq(FifoMsg) /\ Len(N) = Len(next)
      /\ \A i \in 1 .. Len(next) : N[i] =
           [id |-> buf.unit[next[i]].id, exit |-> buf.unit[next[i]].exit,
            whole |-> After(buf, next, i) <= buf.len]
  BY <1>3, <1>6, MessagesType DEF N
<1>9. M # <<>> /\ Head(M) = M[1] /\ M[1] = [id |-> h.id, exit |-> h.exit,
                           whole |-> Following(h, o) <= buf.len]
  <2>1. M # <<>> /\ Head(M) = M[1] /\ 1 \in 1 .. n
    BY <1>1, <1>2, <1>7
  <2> QED
    BY <1>2, <1>5, <1>7, <2>1 DEF h
<1>10. Tail(M) = N
  <2>1. Tail(M) \in Seq(FifoMsg) /\ Len(Tail(M)) = n - 1
        /\ \A i \in 1 .. n - 1 : Tail(M)[i] = M[i + 1]
    BY <1>1, <1>2, <1>7, <1>9
  <2>2. \A i \in 1 .. n - 1 : N[i] = M[i + 1]
    <3> TAKE i \in 1 .. n - 1
    <3>1. i + 1 \in 1 .. n /\ i \in 1 .. Len(next)
      BY <1>1, <1>3
    <3> QED
      BY <1>3, <1>4, <1>7, <1>8, <3>1
  <2> QED
    BY <1>1, <1>3, <1>8, <2>1, <2>2
<1> QED
  BY <1>6, <1>9, <1>10 DEF next, h, M, N
-----------------------------------------------------------------------------
\* What the queue shows as a FIFO, before and after a step.
LEMMA PendingPrime ==
  /\ (Messages(cus, ahead) \o Messages(product, behind))' =
       Messages(cus', ahead') \o Messages(product', behind')
  /\ Spoilt(product, behind)' = Spoilt(product', behind')
  /\ Reaches(cus, off, ahead)' <=> Reaches(cus', off', ahead')
  /\ Reaches(product, 0, behind)' <=> Reaches(product', 0, behind')
<1>1. /\ Messages(cus, ahead)' = Messages(cus', ahead')
      /\ Messages(product, behind)' = Messages(product', behind')
  BY DEF Messages, Following
<1>2. Spoilt(product, behind)' = Spoilt(product', behind')
  BY DEF Spoilt, Reached, Following
<1>3. /\ Reaches(cus, off, ahead)' <=> Reaches(cus', off', ahead')
      /\ Reaches(product, 0, behind)' <=> Reaches(product', 0, behind')
  BY DEF Reaches, Heads, After, Following
<1> QED
  BY <1>1, <1>2, <1>3

\* Where the FIFO stands after a step of the queue, and that it stutters when
\* nothing of it has changed.
LEMMA FifoStutters ==
  ASSUME Messages(cus', ahead') \o Messages(product', behind') =
           Messages(cus, ahead) \o Messages(product, behind),
         Spoilt(product', behind') = Spoilt(product, behind),
         run' = run, handled' = handled
  PROVE  [Fifo!Next]_(Fifo!vars)
BY PendingPrime DEF Fifo!vars

\* Appending a message posts it, at the end of all that is pending.
LEMMA PostFifo ==
  ASSUME FifoInv, AppendNext, UNCHANGED <<cus, off, run, handled, ahead>>
  PROVE  /\ Reaches(product', 0, behind')
         /\ [Fifo!Next]_(Fifo!vars)
<1>1. PICK n \in DataSize \cup {0}, exit \in BOOLEAN :
        product' = AppendMsg(product,
                             [id |-> posted + 1, len |-> n, exit |-> exit])
  BY DEF AppendNext
<1> DEFINE h == [id |-> posted + 1, len |-> n, exit |-> exit]
<1>2. h \in Header
  BY QueueAssumption DEF FifoInv, QueueInv, QueueTypeOK, AppendNext, Header
<1>3. /\ product \in Buffer /\ Chained(product)
      /\ cus \in Buffer /\ ahead \in Seq(Unit) /\ behind \in Seq(Unit)
      /\ Reaches(product, 0, behind) /\ Reaches(cus, off, ahead)
  BY DEF FifoInv, QueueInv, QueueTypeOK
<1> DEFINE A  == Messages(cus, ahead)
           B  == Messages(product, behind)
           B2 == Messages(product', behind')
<1>4. /\ Reaches(product', 0, behind')
      /\ \/ /\ B2 = B
            /\ Spoilt(product', behind') <=> Spoilt(product, behind)
         \/ /\ ~Spoilt(product, behind)
            /\ \E whole \in BOOLEAN :
                 /\ B2 = Append(B, [id |-> h.id, exit |-> h.exit, whole |-> whole])
                 /\ Spoilt(product', behind') <=> ~whole
  <2>1. behind' = IF product'.len > product.len
                     /\ Reached(product, behind) = product.len
                  THEN Append(behind, product.len) ELSE behind
    BY DEF AppendNext
  <2>2. product' = AppendMsg(product, h)
    BY <1>1
  <2> HIDE DEF h
  <2>3. /\ Reaches(product', 0, behind')
        /\ Extended(product, behind, h, product', behind')
    BY <1>2, <1>3, <2>1, <2>2, PostWalk
  <2> QED
    BY <2>3 DEF Extended
<1>5. A \in Seq(FifoMsg) /\ B \in Seq(FifoMsg)
  BY <1>3, MessagesType
<1>6. Messages(cus', ahead') = A /\ run' = run /\ handled' = handled
  OBVIOUS
<1> HIDE DEF A, B, B2
<1>7. CASE /\ B2 = B
           /\ Spoilt(product', behind') <=> Spoilt(product, behind)
  <2>1. Spoilt(product', behind') = Spoilt(product, behind)
    BY <1>7 DEF Spoilt
  <2> QED
    BY <1>4, <1>6, <1>7, <2>1, FifoStutters DEF A, B, B2
<1>8. ASSUME ~Spoilt(product, behind), NEW whole \in BOOLEAN,
             B2 = Append(B, [id |-> h.id, exit |-> h.exit, whole |-> whole]),
             Spoilt(product', behind') <=> ~whole
      PROVE  Fifo!Next
  <2> DEFINE m == [id |-> h.id, exit |-> h.exit, whole |-> whole]
  <2>1. m \in FifoMsg /\ m.whole = whole
    BY <1>2 DEF Header, FifoMsg
  <2>2. m \in Fifo!Message
    BY <2>1 DEF FifoMsg, Fifo!Message
  <2>3. A \o B2 = Append(A \o B, m)
    BY <1>5, <1>8, <2>1, ConcatAppend
  <2>4. Spoilt(product', behind') = ~m.whole
    BY <1>8, <2>1 DEF Spoilt
  <2>5. /\ (Messages(cus, ahead) \o Messages(product, behind))' =
             Append(Messages(cus, ahead) \o Messages(product, behind), m)
        /\ Spoilt(product, behind)' = ~m.whole
    BY <1>6, <2>3, <2>4, PendingPrime DEF A, B, B2
  <2> HIDE DEF m
  <2>6. Fifo!Post
    BY <1>6, <1>8, <2>2, <2>5, Zenon DEF Fifo!Post
  <2> QED
    BY <2>6 DEF Fifo!Next
<1> QED
  BY <1>4, <1>7, <1>8

\* Swapping the buffers leaves what is pending, and ends the loss of posts.
LEMMA SwapFifo ==
  ASSUME FifoInv, Swap
  PROVE  /\ Reaches(product', 0, behind') /\ Reaches(cus', off', ahead')
         /\ [Fifo!Next]_(Fifo!vars)
<1>1. /\ product \in Buffer /\ cus \in Buffer /\ off \in Nat
      /\ ahead \in Seq(Unit) /\ behind \in Seq(Unit)
      /\ Reaches(product, 0, behind) /\ Reaches(cus, off, ahead)
  BY DEF FifoInv, QueueInv, QueueTypeOK
<1>2. /\ cus' = product /\ product' = [cus EXCEPT !.len = 0] /\ off' = 0
      /\ ahead' = behind /\ behind' = <<>> /\ run' = run /\ handled' = handled
      /\ pc = "swap"
  BY DEF Swap
<1>3. product'.len = 0 /\ cus.len \in Nat
  BY <1>1, <1>2, QueueAssumption DEF Buffer
<1>4. ahead = <<>>
  <2>1. off >= cus.len
    BY <1>2 DEF FifoInv, Turned
  <2>2. ASSUME ahead # <<>> PROVE FALSE
    <3>1. 1 \in DOMAIN ahead /\ ahead[1] = off
      BY <1>1, <2>2 DEF Reaches
    <3>2. off < cus.len
      BY <1>1, <3>1, WalkFacts
    <3> QED
      BY <1>1, <1>3, <2>1, <3>2
  <2> QED
    BY <2>2
<1>5. Reaches(product', 0, behind') /\ Reaches(cus', off', ahead')
  <2>1. Reaches(product', 0, <<>>)
    BY <1>3 DEF Reaches
  <2> QED
    BY <1>1, <1>2, <2>1
<1>6. Messages(cus', ahead') \o Messages(product', behind') =
        Messages(cus, ahead) \o Messages(product, behind)
  <2> DEFINE B == Messages(product, behind)
  <2>1. B \in Seq(FifoMsg)
    BY <1>1, MessagesType
  <2>2. Messages(cus, ahead) = <<>> /\ Messages(product', behind') = <<>>
    BY <1>2, <1>4 DEF Messages
  <2>3. Messages(cus', ahead') = B
    BY <1>2
  <2> HIDE DEF B
  <2>4. B \o <<>> = B /\ <<>> \o B = B
    BY <2>1
  <2> QED
    BY <2>2, <2>3, <2>4 DEF B
<1>7. Spoilt(product', behind') = FALSE
  BY <1>2, <1>3 DEF Spoilt, Reached
<1>8. CASE Spoilt(product, behind)
  <2>1. Fifo!Renew
    BY <1>2, <1>6, <1>7, <1>8, PendingPrime DEF Fifo!Renew
  <2> QED
    BY <1>5, <2>1 DEF Fifo!Next
<1>9. CASE ~Spoilt(product, behind)
  <2>1. Spoilt(product', behind') = Spoilt(product, behind)
    BY <1>7, <1>9 DEF Spoilt
  <2> QED
    BY <1>2, <1>5, <1>6, <2>1, FifoStutters
<1> QED
  BY <1>8, <1>9

\* Handling a message serves the first that is pending.
LEMMA DoMsgFifo ==
  ASSUME FifoInv, DoMsg
  PROVE  /\ Reaches(product', 0, behind') /\ Reaches(cus', off', ahead')
         /\ [Fifo!Next]_(Fifo!vars)
<1> DEFINE h == cus.unit[off]
           A == Messages(cus, ahead)
           B == Messages(product, behind)
           whole == Following(h, off) <= cus.len
<1>1. /\ product \in Buffer /\ cus \in Buffer /\ off \in Nat
      /\ ahead \in Seq(Unit) /\ behind \in Seq(Unit)
      /\ Reaches(product, 0, behind) /\ Reaches(cus, off, ahead)
  BY DEF FifoInv, QueueInv, QueueTypeOK
<1>2. /\ off < cus.len /\ run /\ off' = Following(h, off) /\ run' = ~h.exit
      /\ handled' = Append(handled, [id |-> h.id, whole |-> whole])
      /\ ahead' = SubSeq(ahead, 2, Len(ahead))
      /\ product' = product /\ cus' = cus /\ behind' = behind
  BY DEF DoMsg
<1>3. /\ Reaches(cus, off', ahead')
      /\ A # <<>> /\ Tail(A) = Messages(cus, ahead')
      /\ Head(A) = [id |-> h.id, exit |-> h.exit, whole |-> whole]
  BY <1>1, <1>2, StepWalk
<1>4. Reaches(product', 0, behind') /\ Reaches(cus', off', ahead')
  BY <1>1, <1>2, <1>3
<1>5. A \in Seq(FifoMsg) /\ B \in Seq(FifoMsg)
  BY <1>1, MessagesType
<1>6. /\ Messages(cus', ahead') = Tail(A) /\ Messages(product', behind') = B
      /\ Spoilt(product', behind') = Spoilt(product, behind)
  BY <1>2, <1>3
<1> HIDE DEF A, B, h, whole
<1>7. A \o B # <<>> /\ Head(A \o B) = Head(A) /\ Tail(A \o B) = Tail(A) \o B
  BY <1>3, <1>5, ConcatTail
<1>8. Head(A).id = h.id /\ Head(A).exit = h.exit /\ Head(A).whole = whole
  BY <1>3
<1>9. Fifo!Serve
  <2>1. /\ Messages(cus, ahead) \o Messages(product, behind) = A \o B
        /\ (Messages(cus, ahead) \o Messages(product, behind))' = Tail(A \o B)
        /\ Spoilt(product, behind)' = Spoilt(product, behind)
    BY <1>6, <1>7, PendingPrime DEF A, B
  <2>2. /\ handled' = Append(handled, [id |-> Head(A \o B).id,
                                       whole |-> Head(A \o B).whole])
        /\ run' = ~Head(A \o B).exit
    BY <1>2, <1>7, <1>8
  <2> QED
    BY <1>2, <1>7, <2>1, <2>2, Zenon DEF Fifo!Serve
<1> QED
  BY <1>4, <1>9 DEF Fifo!Next

LEMMA FifoStart == QueueInit => FifoInv /\ Fifo!Init
<1> SUFFICES ASSUME QueueInit PROVE FifoInv /\ Fifo!Init
  OBVIOUS
<1>1. /\ product = Empty /\ cus = Empty /\ off = 0 /\ pc = "wait"
      /\ run = TRUE /\ handled = <<>> /\ ahead = <<>> /\ behind = <<>>
      /\ Empty.len = 0
  BY DEF QueueInit, Empty
<1>2. Reaches(product, 0, behind) /\ Reaches(cus, off, ahead) /\ Turned
  BY <1>1 DEF Reaches, Turned
<1>3. Messages(cus, ahead) = <<>> /\ Messages(product, behind) = <<>>
  BY <1>1 DEF Messages
<1>4. Spoilt(product, behind) = FALSE
  BY <1>1 DEF Spoilt, Reached
<1>5. Messages(cus, ahead) \o Messages(product, behind) = <<>>
  BY <1>3
<1> QED
  BY <1>1, <1>2, <1>4, <1>5, QueueStart DEF FifoInv, Fifo!Init

\* Every step of the queue is one of the FIFO or leaves it as it is.
LEMMA FifoStep ==
  FifoInv /\ [QueueNext]_qVars => FifoInv' /\ [Fifo!Next]_(Fifo!vars)
<1> SUFFICES ASSUME FifoInv, [QueueNext]_qVars
             PROVE  FifoInv' /\ [Fifo!Next]_(Fifo!vars)
  OBVIOUS
<1>1. QueueInv'
  BY QueueStep DEF FifoInv
<1>2. /\ Reaches(product, 0, behind) /\ Reaches(cus, off, ahead) /\ Turned
      /\ off \in Nat /\ cus.len \in Nat
  BY QueueAssumption DEF FifoInv, QueueInv, QueueTypeOK, Buffer
<1> DEFINE Goal == /\ Reaches(product', 0, behind')
                   /\ Reaches(cus', off', ahead')
                   /\ [Fifo!Next]_(Fifo!vars)
           Quiet == UNCHANGED <<product, cus, off, run, handled, ahead, behind>>
<1>3. CASE Swap
  <2>1. Turned'
    BY <1>3 DEF Swap, Turned
  <2> QED
    BY <1>1, <1>3, <2>1, SwapFifo, PendingPrime DEF FifoInv
<1>4. CASE DoMsg
  <2>1. Turned'
    BY <1>4 DEF DoMsg, Turned
  <2> QED
    BY <1>1, <1>4, <2>1, DoMsgFifo, PendingPrime DEF FifoInv
<1>5. ASSUME AppendNext, UNCHANGED <<cus, off, pc, run, handled, ahead>>
      PROVE  FifoInv' /\ [Fifo!Next]_(Fifo!vars)
  <2>1. Turned'
    BY <1>2, <1>5 DEF Turned
  <2>2. Reaches(cus', off', ahead')
    BY <1>2, <1>5
  <2> QED
    BY <1>1, <1>5, <2>1, <2>2, PostFifo, PendingPrime DEF FifoInv
<1>6. ASSUME Quiet, Turned' PROVE FifoInv' /\ [Fifo!Next]_(Fifo!vars)
  <2>1. Reaches(product', 0, behind') /\ Reaches(cus', off', ahead')
    BY <1>2, <1>6
  <2>2. [Fifo!Next]_(Fifo!vars)
    BY <1>6, FifoStutters
  <2> QED
    BY <1>1, <1>6, <2>1, <2>2, PendingPrime DEF FifoInv
<1>7. CASE Wait \/ WaitTimeout \/ EndBatch \/ EndRound \/ UNCHANGED qVars
           \/ \E p \in Poster : PostBegin(p) \/ PostSignal(p)
  <2>1. CASE Wait \/ WaitTimeout \/ EndRound
    BY <1>2, <1>6, <2>1 DEF Wait, WaitTimeout, EndRound, Turned
  <2>2. CASE EndBatch
    BY <1>2, <1>6, <2>2 DEF EndBatch, Turned
  <2>3. CASE UNCHANGED qVars
    BY <1>2, <1>6, <2>3 DEF qVars, Turned
  <2>4. ASSUME NEW p \in Poster, PostBegin(p) \/ PostSignal(p)
        PROVE  FifoInv' /\ [Fifo!Next]_(Fifo!vars)
    BY <1>2, <1>6, <2>4 DEF PostBegin, PostSignal, Turned
  <2> QED
    BY <1>7, <2>1, <2>2, <2>3, <2>4
<1>8. CASE PostOwn
  BY <1>5, <1>8 DEF PostOwn
<1>9. ASSUME NEW p \in Poster, PostAppend(p)
      PROVE  FifoInv' /\ [Fifo!Next]_(Fifo!vars)
  BY <1>5, <1>9 DEF PostAppend
<1> QED
  BY <1>3, <1>4, <1>7, <1>8, <1>9 DEF QueueNext, Run, PostMsg

\* The buffers, the lock, the event and the loop of Run together are a FIFO
\* that loses posts only behind one that found no room for its data
\* (Module.cpp:41-82), for every size of buffer and data and any number of
\* posting threads.
THEOREM QueueImplementsFifo == QueueSpec => FifoOrder
BY FifoStart, FifoStep, PTL DEF QueueSpec, FifoOrder
=============================================================================
