---------------------------- MODULE ClientProofs ----------------------------
(***************************************************************************)
(* What the client's channel guarantees, for frames of any length, any     *)
(* keys, addresses and numbers of connections, and whatever the two        *)
(* threads that share the channel interleave: its state keeps its type,    *)
(* and what aodc sends is announced whole and in order.                    *)
(***************************************************************************)
EXTENDS AodsClient, TLAPS, SequenceTheorems, FiniteSetTheorems

\* util/AoEncrypt.cpp, Default: decoding undoes encoding, even with another key
\* than the one it was encoded with: the rows of the default table are alike.
THEOREM KeyDoesNotMatter ==
  \A k1, k2 \in Key : \A b \in Byte : Decode(k1, Encode(k2, b)) = b
<1> SUFFICES ASSUME NEW k1 \in Key, NEW k2 \in Key, NEW b \in Byte
             PROVE  Decode(k1, Encode(k2, b)) = b
  OBVIOUS
<1>1. \A k \in Key, x \in Byte : EnSkDict[k][x] = (x + 10) % 256
  <2> SUFFICES ASSUME NEW k \in Key, NEW x \in Byte
               PROVE  (256 * k + x + 10) % 256 = (x + 10) % 256
    BY DEF EnSkDict
  <2>1. k \in Nat /\ x \in Nat
    BY KeyAssumption DEF Byte
  <2> QED
    BY <2>1
<1>2. \A x, y \in Byte : (x + 10) % 256 = (y + 10) % 256 => x = y
  BY DEF Byte
<1>3. (b + 10) % 256 \in Byte
  BY DEF Byte
<1>4. Decode(k1, Encode(k2, b)) = CHOOSE x \in Byte : EnSkDict[k1][x] = (b + 10) % 256
  BY <1>1, <1>3 DEF Decode, Encode, DeSkDict
<1>5. \A x \in Byte : EnSkDict[k1][x] = (b + 10) % 256 <=> x = b
  BY <1>1, <1>2
<1> QED
  BY <1>4, <1>5
-----------------------------------------------------------------------------
(* The invariant.  Types come in one part for each thread that owns the    *)
(* variables; the stream of the connection in another.                     *)

TypedMachine ==
  /\ prog \in Program /\ verdict \in Verdict
  /\ running \in BOOLEAN /\ ended \in BOOLEAN
  /\ itCur \in 1 .. Len(Addrs) + 1
  /\ addr \in Addr
  /\ sock \in {"none", "connecting", "up"}
  /\ conn \in Number

\* While the communication thread is at a message, that is the first.
TypedComm ==
  /\ comm \in {"idle", "encode", "send", "rest", "fail", "join", "ended"}
  /\ snd \in [key : Key] \cup [msg : Message \cup {Junk}]
  /\ comm = "send" => snd \in [msg : Message \cup {Junk}]
  /\ failing \in BOOLEAN /\ late \in BOOLEAN
  /\ commQ \in Seq(Message \cup [kind : {"EXIT"}])
  /\ comm \in {"encode", "send", "rest", "fail"} =>
       commQ # <<>> /\ Head(commQ) \in Message

TypedModule ==
  /\ modQ \in Seq(Notice)
  /\ bActived \in BOOLEAN /\ authed \in BOOLEAN
  /\ serial \in Number
  /\ stored \in {<<>>} \cup (Number \X Number)

TypedAodc ==
  /\ cl \in [Conn -> {"none", "open", "fin", "gone"}]
  /\ cs \in [Conn -> Seq(Message \cup {Junk, Rest})]
  /\ srv \in [Conn -> {"none", "open", "closed"}]
  /\ bound \in Number
  /\ pend \in Seq([conn : Conn, serial : Number])
  /\ faults \in 0 .. MaxFault

TypedClient == TypedMachine /\ TypedComm /\ TypedModule /\ TypedAodc

\* Where frame n of the stream begins; the one to come included.
Start(n) == IF n = 1 THEN 0 ELSE End(sent[n - 1])

\* Frames follow each other without gaps.
Chained ==
  /\ sent # <<>> => sent[1].at = 0
  /\ \A i \in DOMAIN sent : i > 1 => sent[i].at = End(sent[i - 1])
  /\ \A i, j \in DOMAIN sent : i < j => End(sent[i]) <= sent[j].at
  /\ \A i \in DOMAIN sent : sent[i].at \in Nat /\ End(sent[i]) <= Total

\* The frame at the front of the decoder is there to its end.
Whole ==
  IF Aligned THEN LenOf[FrontFrame.text.kind] <= Buffered
  ELSE told \in Nat \ {0} /\ told <= Buffered

StreamInv ==
  /\ ReadTypeOK
  /\ Chained
  /\ lo <= hi /\ hi <= w /\ w <= Total
  /\ told # 0 => HeadLen <= Buffered
  /\ run \in {"decode", "post"} => Whole
  /\ run = "decode" => frKey \in Key
  /\ run = "built" => got = <<>>

\* A decoder that began empty stays in step with the frames.
FreshInv ==
  fresh => /\ old = 0
           /\ Len(got) <= Len(sent)
           /\ lo = Start(Len(got) + 1)

IntactInv ==
  fresh /\ ~failing =>
    /\ \A i \in DOMAIN got : got[i] = sent[i].text
    /\ run = "post" => tmp = sent[Len(got) + 1].text

ChannelInv == StreamInv /\ FreshInv /\ IntactInv
-----------------------------------------------------------------------------
(* The stream.                                                             *)

\* Frames have a length, and begin at different positions.
LEMMA Frames ==
  ASSUME StreamInv
  PROVE  /\ Len(sent) \in Nat /\ DOMAIN sent = 1 .. Len(sent)
         /\ \A i \in DOMAIN sent :
              /\ sent[i].text \in Text
              /\ LenOf[sent[i].text.kind] \in Nat
              /\ LenOf[sent[i].text.kind] > HeadLen
              /\ sent[i].at \in Nat
              /\ End(sent[i]) = sent[i].at + LenOf[sent[i].text.kind]
         /\ \A i, j \in DOMAIN sent : sent[i].at = sent[j].at => i = j
         /\ Total \in Nat
         /\ HeadLen \in Nat \ {0} /\ MaxLen \in Nat
<1>1. /\ Len(sent) \in Nat /\ DOMAIN sent = 1 .. Len(sent)
      /\ \A i \in DOMAIN sent : sent[i] \in Frame
  BY LenProperties, ElementOfSeq DEF StreamInv, ReadTypeOK
<1>2. \A f \in Frame : /\ f.text \in Text /\ f.at \in Nat
                       /\ LenOf[f.text.kind] \in HeadLen + 1 .. MaxLen
  BY ChannelAssumption DEF Frame
<1>3. HeadLen \in Nat \ {0} /\ MaxLen \in Nat
  BY ChannelAssumption
<1>4. \A i \in DOMAIN sent :
        /\ sent[i].text \in Text /\ sent[i].at \in Nat
        /\ LenOf[sent[i].text.kind] \in Nat
        /\ LenOf[sent[i].text.kind] > HeadLen
        /\ End(sent[i]) = sent[i].at + LenOf[sent[i].text.kind]
  BY <1>1, <1>2, <1>3 DEF End
<1>5. \A i, j \in DOMAIN sent : i < j => sent[i].at < sent[j].at
  <2> SUFFICES ASSUME NEW i \in DOMAIN sent, NEW j \in DOMAIN sent, i < j
               PROVE  sent[i].at < sent[j].at
    OBVIOUS
  <2>1. End(sent[i]) <= sent[j].at
    BY DEF StreamInv, Chained
  <2> QED
    BY <2>1, <1>3, <1>4
<1>6. \A i, j \in DOMAIN sent : sent[i].at = sent[j].at => i = j
  <2> SUFFICES ASSUME NEW i \in DOMAIN sent, NEW j \in DOMAIN sent,
                      sent[i].at = sent[j].at, i # j
               PROVE  FALSE
    OBVIOUS
  <2>1. i < j \/ j < i
    BY <1>1
  <2> QED
    BY <2>1, <1>4, <1>5
<1>7. Total \in Nat
  <2>1. CASE sent = <<>>
    BY <2>1 DEF Total
  <2>2. CASE sent # <<>>
    <3>1. Len(sent) \in DOMAIN sent
      BY <2>2, <1>1, EmptySeq DEF StreamInv, ReadTypeOK
    <3> QED
      BY <2>2, <3>1, <1>4 DEF Total
  <2> QED
    BY <2>1, <2>2
<1> QED
  BY <1>1, <1>3, <1>4, <1>6, <1>7

\* The frame that begins at lo is the one in front.
LEMMA FrontIs ==
  ASSUME StreamInv, NEW i \in DOMAIN sent, sent[i].at = lo
  PROVE  AtFront = {i} /\ FrontFrame = sent[i]
<1>1. AtFront = {i}
  BY Frames DEF AtFront
<1>2. (CHOOSE x \in AtFront : TRUE) = i
  BY <1>1
<1> QED
  BY <1>1, <1>2 DEF FrontFrame

\* A frame in front is one that was sent.
LEMMA FrontSent ==
  ASSUME StreamInv, Aligned
  PROVE  \E i \in DOMAIN sent : sent[i].at = lo /\ FrontFrame = sent[i]
<1>1. PICK i \in DOMAIN sent : sent[i].at = lo
  BY DEF Aligned, AtFront
<1> QED
  BY <1>1, FrontIs

\* A decoder in step has the next frame in front when it holds a whole one.
LEMMA NextInFront ==
  ASSUME StreamInv, FreshInv, fresh, Whole
  PROVE  /\ Aligned
         /\ Len(got) + 1 \in DOMAIN sent
         /\ FrontFrame = sent[Len(got) + 1]
<1>1. /\ Len(got) \in Nat /\ lo \in Nat /\ hi \in Nat /\ w \in Nat /\ old = 0
      /\ Len(got) <= Len(sent) /\ lo = Start(Len(got) + 1)
      /\ lo <= hi /\ hi <= w /\ w <= Total
  BY LenProperties DEF FreshInv, StreamInv, ReadTypeOK
<1>2. Len(got) < Len(sent)
  <2> SUFFICES ASSUME Len(got) = Len(sent) PROVE FALSE
    BY <1>1, Frames
  <2>1. lo = Total
    <3>1. CASE sent = <<>>
      BY <3>1, <1>1 DEF Start, Total
    <3>2. CASE sent # <<>>
      <4>1. Len(sent) # 0
        BY <3>2, EmptySeq DEF StreamInv, ReadTypeOK
      <4> QED
        BY <3>2, <4>1, <1>1, Frames DEF Start, Total
    <3> QED
      BY <3>1, <3>2
  <2>2. Buffered = 0
    BY <2>1, <1>1, Frames DEF Buffered
  <2>3. CASE Aligned
    <3>1. PICK i \in DOMAIN sent : FrontFrame = sent[i]
      BY <2>3, FrontSent
    <3> QED
      BY <2>2, <2>3, <3>1, Frames DEF Whole
  <2>4. CASE ~Aligned
    BY <2>2, <2>4 DEF Whole
  <2> QED
    BY <2>3, <2>4
<1>3. Len(got) + 1 \in DOMAIN sent
  BY <1>1, <1>2, Frames
<1>4. sent[Len(got) + 1].at = lo
  <2>1. CASE Len(got) = 0
    BY <2>1, <1>1, <1>3, Frames, EmptySeq DEF Start, StreamInv, Chained
  <2>2. CASE Len(got) # 0
    BY <2>2, <1>1, <1>3 DEF Start, StreamInv, Chained
  <2> QED
    BY <2>1, <2>2
<1>5. AtFront = {Len(got) + 1} /\ FrontFrame = sent[Len(got) + 1]
  BY <1>3, <1>4, FrontIs
<1> QED
  BY <1>1, <1>3, <1>5 DEF Aligned
-----------------------------------------------------------------------------
(* What a step does to the stream and the decoder.                         *)

\* A step that is none of the reading, the sending or the network.
Quiet ==
  /\ UNCHANGED <<netVars, hi, cacheVars, got, fresh>>
  /\ aeKey' \in Key
  /\ tmp' \in {tmp, Junk}
  /\ run' = run \/ run' \in {"next", "connect", "recv", "ended"}
  /\ failing' \in BOOLEAN
  /\ \/ failing'
     \/ ~failing /\ (tmp' = tmp \/ run' # "post")
     \/ run = "built" /\ run' = "recv"


LEMMA QuietKeeps ==
  ASSUME ChannelInv, Quiet
  PROVE  ChannelInv'
<1>1. UNCHANGED <<sent, w, hi, lo, old, told, frKey, got, fresh>>
  BY DEF Quiet, netVars, cacheVars
<1>2. UNCHANGED <<Buffered, Total, AtFront>>
  BY <1>1 DEF Buffered, Total, AtFront, End
<1>3. UNCHANGED <<Aligned, FrontFrame>>
  BY <1>1, <1>2 DEF Aligned, FrontFrame
<1>4. Whole' = Whole
  BY <1>1, <1>2, <1>3 DEF Whole
<1>5. ReadTypeOK'
  BY <1>1 DEF ChannelInv, StreamInv, ReadTypeOK, Quiet, Reading
<1>6. Chained'
  BY <1>1, <1>2 DEF ChannelInv, StreamInv, Chained, End
<1>7. run' \in {"decode", "post", "built"} => run = run'
  BY DEF Quiet
<1>8. StreamInv'
  BY <1>1, <1>2, <1>4, <1>5, <1>6, <1>7 DEF ChannelInv, StreamInv
<1>9. FreshInv'
  BY <1>1 DEF ChannelInv, FreshInv, Start, End
<1>10. IntactInv'
  <2>1. CASE failing'
    BY <2>1 DEF IntactInv
  <2>2. CASE ~failing /\ (tmp' = tmp \/ run' # "post")
    BY <2>2, <1>1, <1>7 DEF ChannelInv, IntactInv
  <2>3. CASE run = "built" /\ run' = "recv"
    BY <2>3, <1>1 DEF ChannelInv, StreamInv, IntactInv
  <2> QED
    BY <2>1, <2>2, <2>3 DEF Quiet
<1> QED
  BY <1>8, <1>9, <1>10 DEF ChannelInv

LEMMA RecvKeeps ==
  ASSUME ChannelInv, Recv, failing' = failing
  PROVE  ChannelInv'
<1>1. /\ UNCHANGED <<sent, w, lo, old, told, frKey, aeKey, tmp, got, fresh>>
      /\ run' = "parse" /\ hi' \in hi + 1 .. w
  BY DEF Recv, netVars, cacheVars
<1>2. hi \in Nat /\ w \in Nat /\ lo \in Nat /\ old \in Nat
  BY DEF ChannelInv, StreamInv, ReadTypeOK
<1>3. ReadTypeOK'
  BY <1>1, <1>2 DEF ChannelInv, StreamInv, ReadTypeOK, Reading
<1>4. Chained'
  BY <1>1 DEF ChannelInv, StreamInv, Chained, End, Total
<1>5. Total' = Total
  BY <1>1 DEF Total, End
<1>6. lo <= hi' /\ hi' <= w /\ Buffered < Buffered'
  <2>1. hi' \in Int /\ hi < hi' /\ hi' <= w
    BY <1>1, <1>2
  <2>2. lo <= hi'
    BY <2>1, <1>2 DEF ChannelInv, StreamInv
  <2>3. Buffered' = old + hi' - lo
    BY <1>1 DEF Buffered
  <2> QED
    BY <2>1, <2>2, <2>3, <1>2 DEF Buffered
<1>7. StreamInv'
  <2>1. HeadLen \in Nat /\ Buffered \in Int /\ Buffered' \in Int
    BY <1>1, <1>2, ChannelAssumption DEF Buffered
  <2> QED
    BY <2>1, <1>1, <1>3, <1>4, <1>5, <1>6 DEF ChannelInv, StreamInv
<1>8. FreshInv'
  BY <1>1 DEF ChannelInv, FreshInv, Start, End
<1>9. IntactInv'
  BY <1>1 DEF ChannelInv, IntactInv
<1> QED
  BY <1>7, <1>8, <1>9 DEF ChannelInv

LEMMA GetContentKeeps ==
  ASSUME ChannelInv, GetContent, failing' = failing
  PROVE  ChannelInv'
<1>1. UNCHANGED <<sent, w, hi, lo, old, tmp, got, fresh>>
  BY DEF GetContent, netVars
<1>2. UNCHANGED <<Buffered, Total, AtFront>>
  BY <1>1 DEF Buffered, Total, AtFront, End
<1>3. UNCHANGED <<Aligned, FrontFrame>>
  BY <1>1, <1>2 DEF Aligned, FrontFrame
<1>4. Chained'
  BY <1>1, <1>2 DEF ChannelInv, StreamInv, Chained, End
<1>5. FreshInv'
  BY <1>1 DEF ChannelInv, FreshInv, Start, End
<1>6. IntactInv'
  BY <1>1 DEF ChannelInv, IntactInv, GetContent
<1>7. Buffered \in Int /\ HeadLen \in Nat \ {0} /\ MaxLen \in Nat
  BY ChannelAssumption DEF ChannelInv, StreamInv, ReadTypeOK, Buffered
<1>8. CASE Buffered < HeadLen
  <2>1. run' = "recv" /\ UNCHANGED <<told, aeKey, frKey>>
    BY <1>8 DEF GetContent
  <2>2. ReadTypeOK'
    BY <2>1, <1>1 DEF ChannelInv, StreamInv, ReadTypeOK, Reading
  <2>3. StreamInv'
    BY <2>1, <2>2, <1>1, <1>2, <1>4 DEF ChannelInv, StreamInv
  <2> QED
    BY <2>3, <1>5, <1>6 DEF ChannelInv
<1>9. CASE ~(Buffered < HeadLen)
  <2>1. PICK n \in Lengths :
          /\ told' = IF Aligned THEN 0 ELSE n
          /\ IF n = Bad \/ n > Buffered
             THEN run' = "recv" /\ UNCHANGED <<aeKey, frKey>>
             ELSE run' = "decode" /\ SetFrameKey
    BY <1>9 DEF GetContent
  <2>2. Aligned => n = LenOf[FrontFrame.text.kind]
    BY DEF Lengths
  <2>3. ~Aligned => n \in {Bad} \cup (HeadLen .. MaxLen)
    BY DEF Lengths, ChannelInv, StreamInv, ReadTypeOK
  <2>4. aeKey' \in Key /\ frKey' \in Key \cup {NoKey}
    BY <2>1 DEF SetFrameKey, ChannelInv, StreamInv, ReadTypeOK
  <2>5. told' \in {Bad, 0} \cup (HeadLen .. MaxLen)
    BY <2>1, <2>3
  <2>6. run' \in {"recv", "decode"}
    BY <2>1
  <2>7. ReadTypeOK'
    BY <2>4, <2>5, <2>6, <1>1 DEF ChannelInv, StreamInv, ReadTypeOK, Reading
  <2>8. run' = "decode" => Whole' /\ frKey' \in Key
    <3> SUFFICES ASSUME run' = "decode" PROVE Whole' /\ frKey' \in Key
      OBVIOUS
    <3>1. n # Bad /\ ~(n > Buffered) /\ frKey' \in Key
      BY <2>1 DEF SetFrameKey
    <3>2. CASE Aligned
      <4>1. PICK i \in DOMAIN sent : FrontFrame = sent[i]
        BY <3>2, FrontSent DEF ChannelInv
      <4>2. n \in Nat
        BY <4>1, <2>2, <3>2, Frames DEF ChannelInv
      <4>3. LenOf[FrontFrame.text.kind] <= Buffered
        BY <4>2, <3>1, <2>2, <3>2, <1>7
      <4> QED
        BY <4>3, <3>1, <3>2, <1>2, <1>3 DEF Whole
    <3>3. CASE ~Aligned
      <4>1. n \in Nat \ {0} /\ n <= Buffered /\ told' = n
        BY <3>1, <3>3, <2>1, <2>3, <1>7
      <4> QED
        BY <4>1, <3>1, <3>3, <1>2, <1>3 DEF Whole
    <3> QED
      BY <3>2, <3>3
  <2>9. HeadLen <= Buffered
    BY <1>7, <1>9
  <2>10. StreamInv'
    BY <2>6, <2>7, <2>8, <2>9, <1>1, <1>2, <1>4 DEF ChannelInv, StreamInv
  <2> QED
    BY <2>10, <1>5, <1>6 DEF ChannelInv
<1> QED
  BY <1>8, <1>9

\* Decoding with any key gives what was encoded, so no race for the key of the
\* cipher does harm.
LEMMA DecodeContentKeeps ==
  ASSUME ChannelInv, DecodeContent, failing' = failing
  PROVE  ChannelInv'
<1>1. /\ UNCHANGED <<sent, w, hi, lo, old, told, aeKey, got, fresh>>
      /\ run = "decode" /\ run' = "post" /\ frKey' = NoKey
      /\ tmp' = IF Aligned THEN Decoded(FrontFrame) ELSE Junk
  BY DEF DecodeContent, netVars
<1>2. UNCHANGED <<Buffered, Total, AtFront>>
  BY <1>1 DEF Buffered, Total, AtFront, End
<1>3. UNCHANGED <<Aligned, FrontFrame>>
  BY <1>1, <1>2 DEF Aligned, FrontFrame
<1>4. Whole /\ Whole'
  BY <1>1, <1>2, <1>3 DEF Whole, ChannelInv, StreamInv
<1>5. Chained'
  BY <1>1, <1>2 DEF ChannelInv, StreamInv, Chained, End
<1>6. Aligned => Decoded(FrontFrame) = FrontFrame.text /\ FrontFrame.text \in Text
  <2> SUFFICES ASSUME Aligned
               PROVE  Decoded(FrontFrame) = FrontFrame.text /\ FrontFrame.text \in Text
    OBVIOUS
  <2>1. FrontFrame.text \in Text
    BY FrontSent, Frames DEF ChannelInv
  <2>2. ByteOf[FrontFrame.text.kind] \in Byte
    BY <2>1, ChannelAssumption
  <2>3. aeKey \in Key /\ frKey \in Key
    BY <1>1 DEF ChannelInv, StreamInv, ReadTypeOK
  <2>4. Decode(aeKey, Encode(frKey, ByteOf[FrontFrame.text.kind]))
          = ByteOf[FrontFrame.text.kind]
    BY <2>2, <2>3, KeyDoesNotMatter
  <2> QED
    BY <2>1, <2>4 DEF Decoded
<1>7. ReadTypeOK'
  BY <1>1, <1>6 DEF ChannelInv, StreamInv, ReadTypeOK, Reading
<1>8. StreamInv'
  BY <1>1, <1>2, <1>4, <1>5, <1>7 DEF ChannelInv, StreamInv
<1>9. FreshInv'
  BY <1>1 DEF ChannelInv, FreshInv, Start, End
<1>10. IntactInv'
  <2>1. fresh => Aligned /\ FrontFrame = sent[Len(got) + 1]
    BY <1>4, NextInFront DEF ChannelInv
  <2>2. fresh => tmp' = sent[Len(got) + 1].text
    BY <2>1, <1>1, <1>6
  <2> QED
    BY <2>2, <1>1 DEF ChannelInv, IntactInv
<1> QED
  BY <1>8, <1>9, <1>10 DEF ChannelInv

LEMMA PostContentKeeps ==
  ASSUME ChannelInv, PostContent, failing' = failing
  PROVE  ChannelInv'
<1>1. /\ UNCHANGED <<sent, w, hi, frKey, aeKey, tmp, fresh>>
      /\ run = "post" /\ run' = "parse" /\ got' = Append(got, tmp)
  BY DEF PostContent, netVars
<1>2. PICK n \in Lengths : RemoveData(n)
  BY DEF PostContent
<1>3. Whole
  BY <1>1 DEF ChannelInv, StreamInv
<1>4. /\ hi \in Nat /\ lo \in Nat /\ old \in Nat /\ w \in Nat
      /\ got \in Seq(Text \cup {Junk}) /\ tmp \in Text \cup {Junk}
  BY DEF ChannelInv, StreamInv, ReadTypeOK
<1>5. n \in Nat /\ n > 0 /\ n <= Buffered
  <2>1. CASE Aligned
    <3>1. PICK i \in DOMAIN sent : FrontFrame = sent[i]
      BY <2>1, FrontSent DEF ChannelInv
    <3>2. n = LenOf[sent[i].text.kind]
      BY <2>1, <3>1 DEF Lengths
    <3>3. n <= Buffered
      BY <2>1, <3>1, <3>2, <1>3 DEF Whole
    <3> QED
      BY <3>2, <3>3, Frames DEF ChannelInv
  <2>2. CASE ~Aligned
    BY <2>2, <1>3 DEF Lengths, Whole
  <2> QED
    BY <2>1, <2>2
<1>6. /\ old' \in Nat /\ lo' \in Nat /\ lo' <= hi' /\ told' = 0
      /\ old = 0 => old' = 0 /\ lo' = lo + n
  BY <1>1, <1>2, <1>4, <1>5 DEF RemoveData, Buffered, ChannelInv, StreamInv
<1>7. got' \in Seq(Text \cup {Junk})
  BY <1>1, <1>4, AppendProperties
<1>8. ReadTypeOK'
  BY <1>1, <1>6, <1>7 DEF ChannelInv, StreamInv, ReadTypeOK, Reading
<1>9. Chained' /\ Total' = Total
  BY <1>1 DEF ChannelInv, StreamInv, Chained, End, Total
<1>10. StreamInv'
  BY <1>1, <1>6, <1>8, <1>9 DEF ChannelInv, StreamInv
<1>11. fresh => /\ Aligned /\ FrontFrame = sent[Len(got) + 1]
                /\ Len(got) + 1 \in DOMAIN sent
  BY <1>3, NextInFront DEF ChannelInv
<1>12. /\ Len(got) \in Nat /\ Len(got') = Len(got) + 1 /\ got'[Len(got) + 1] = tmp
       /\ \A i \in 1 .. Len(got) : got'[i] = got[i]
       /\ DOMAIN got = 1 .. Len(got) /\ DOMAIN got' = 1 .. Len(got) + 1
  BY <1>1, <1>4, <1>7, AppendProperties, LenProperties
<1>13. FreshInv'
  <2> SUFFICES ASSUME fresh
               PROVE  /\ old' = 0 /\ Len(got') <= Len(sent')
                      /\ lo' = Start(Len(got) + 1)'
    BY <1>1 DEF FreshInv
  <2>1. old = 0
    BY DEF ChannelInv, FreshInv
  <2>2. n = LenOf[sent[Len(got) + 1].text.kind]
    BY <1>11 DEF Lengths
  <2>3. sent[Len(got) + 1].at = lo
    BY <1>11, FrontSent, Frames DEF ChannelInv
  <2>4. lo' = End(sent[Len(got) + 1])
    BY <2>1, <2>2, <2>3, <1>6 DEF End
  <2>5. Start(Len(got) + 1)' = End(sent[Len(got) + 1])
    BY <1>1, <1>12 DEF Start, End
  <2>6. Len(got') <= Len(sent')
    BY <1>1, <1>11, <1>12, Frames DEF ChannelInv
  <2> QED
    BY <2>1, <2>4, <2>5, <2>6, <1>6
<1>14. IntactInv'
  <2> SUFFICES ASSUME fresh, ~failing
               PROVE  \A i \in DOMAIN got' : got'[i] = sent[i].text
    BY <1>1 DEF IntactInv
  <2>1. tmp = sent[Len(got) + 1].text /\ \A i \in DOMAIN got : got[i] = sent[i].text
    BY <1>1 DEF ChannelInv, IntactInv
  <2>2. \A i \in 1 .. Len(got) + 1 : i \in 1 .. Len(got) \/ i = Len(got) + 1
    BY <1>12
  <2> QED
    BY <2>1, <2>2, <1>12
<1> QED
  BY <1>10, <1>13, <1>14 DEF ChannelInv

LEMMA SendFrameKeeps ==
  ASSUME ChannelInv, NEW t \in Text, SendFrame(t),
         UNCHANGED <<hi, cacheVars, run, aeKey, tmp, got, fresh, failing>>
  PROVE  ChannelInv'
<1> DEFINE n == Len(sent) + 1
<1>1. UNCHANGED <<hi, lo, old, told, frKey, run, aeKey, tmp, got, fresh, failing>>
  BY DEF cacheVars
<1>2. /\ sent' = Append(sent, [text |-> t, at |-> Total])
      /\ w' = Total + LenOf[t.kind]
  BY DEF SendFrame
<1>3. /\ LenOf[t.kind] \in Nat /\ LenOf[t.kind] > HeadLen
      /\ HeadLen \in Nat /\ Total \in Nat
  BY ChannelAssumption, Frames DEF ChannelInv
<1>4. [text |-> t, at |-> Total] \in Frame /\ sent \in Seq(Frame)
  BY <1>3 DEF Frame, ChannelInv, StreamInv, ReadTypeOK
<1>5. /\ sent' \in Seq(Frame) /\ sent' # <<>> /\ Len(sent') = n
      /\ \A i \in DOMAIN sent : sent'[i] = sent[i]
      /\ sent'[n] = [text |-> t, at |-> Total]
      /\ DOMAIN sent = 1 .. Len(sent) /\ DOMAIN sent' = 1 .. n /\ Len(sent) \in Nat
  BY <1>2, <1>4, AppendProperties, LenProperties
<1>6. /\ End(sent'[n]) = w' /\ Total' = w' /\ w' \in Nat
      /\ sent'[n].at = Total
  BY <1>2, <1>3, <1>5 DEF End, Total
<1>7. \A i \in DOMAIN sent' : i \in DOMAIN sent \/ i = n
  BY <1>5
<1>8. \A i \in DOMAIN sent : sent[i].at \in Nat /\ End(sent[i]) \in Nat /\ End(sent[i]) <= Total
  BY Frames DEF ChannelInv, StreamInv, Chained
<1>9. Chained'
  <2>1. sent'[1].at = 0
    <3>1. CASE sent = <<>>
      BY <3>1, <1>5, <1>6, EmptySeq DEF Total
    <3>2. CASE sent # <<>>
      <4>1. 1 \in DOMAIN sent
        BY <3>2, <1>4, <1>5, EmptySeq
      <4> QED
        BY <3>2, <4>1, <1>5 DEF ChannelInv, StreamInv, Chained
    <3> QED
      BY <3>1, <3>2
  <2>2. ASSUME NEW i \in DOMAIN sent', i > 1
        PROVE  sent'[i].at = End(sent'[i - 1])
    <3>1. CASE i \in DOMAIN sent
      <4>1. i - 1 \in DOMAIN sent
        BY <3>1, <2>2, <1>5
      <4> QED
        BY <3>1, <4>1, <2>2, <1>5 DEF ChannelInv, StreamInv, Chained, End
    <3>2. CASE i = n
      <4>1. sent # <<>> /\ i - 1 = Len(sent) /\ i - 1 \in DOMAIN sent
        BY <3>2, <2>2, <1>4, <1>5, EmptySeq
      <4> QED
        BY <3>2, <4>1, <1>5, <1>6 DEF Total, End
    <3> QED
      BY <3>1, <3>2, <1>7
  <2>3. ASSUME NEW i \in DOMAIN sent', NEW j \in DOMAIN sent', i < j
        PROVE  End(sent'[i]) <= sent'[j].at
    <3>1. i \in DOMAIN sent
      BY <2>3, <1>5
    <3>2. CASE j \in DOMAIN sent
      BY <3>1, <3>2, <2>3, <1>5 DEF ChannelInv, StreamInv, Chained, End
    <3>3. CASE j = n
      BY <3>1, <3>3, <1>5, <1>6, <1>8 DEF End
    <3> QED
      BY <3>2, <3>3, <1>7
  <2>4. ASSUME NEW i \in DOMAIN sent'
        PROVE  sent'[i].at \in Nat /\ End(sent'[i]) <= Total'
    <3>1. CASE i \in DOMAIN sent
      <4>1. sent'[i] = sent[i] /\ End(sent'[i]) = End(sent[i])
        BY <3>1, <1>5 DEF End
      <4> QED
        BY <3>1, <4>1, <1>2, <1>3, <1>6, <1>8
    <3>2. CASE i = n
      BY <3>2, <1>3, <1>6
    <3> QED
      BY <3>1, <3>2, <1>7
  <2>5. /\ \A i \in DOMAIN sent' : i > 1 => sent'[i].at = End(sent'[i - 1])
        /\ \A i, j \in DOMAIN sent' : i < j => End(sent'[i]) <= sent'[j].at
        /\ \A i \in DOMAIN sent' : sent'[i].at \in Nat /\ End(sent'[i]) <= Total'
    BY <2>2, <2>3, <2>4
  <2> QED
    BY <2>1, <2>5 DEF Chained, End
<1>10. ReadTypeOK'
  BY <1>1, <1>5, <1>6 DEF ChannelInv, StreamInv, ReadTypeOK
<1>11. Buffered' = Buffered
  BY <1>1 DEF Buffered
<1>12. /\ w \in Nat /\ hi \in Nat /\ lo \in Nat /\ old \in Nat
       /\ lo <= hi /\ hi <= w /\ w <= Total
  BY DEF ChannelInv, StreamInv, ReadTypeOK
<1>13. Whole => Whole'
  <2> SUFFICES ASSUME Whole PROVE Whole'
    OBVIOUS
  <2>1. CASE Aligned
    <3>1. PICK i \in DOMAIN sent : sent[i].at = lo /\ FrontFrame = sent[i]
      BY <2>1, FrontSent DEF ChannelInv
    <3>2. lo # Total
      BY <3>1, <1>8, <1>3, Frames DEF ChannelInv
    <3>3. AtFront = {i}
      BY <3>1, FrontIs DEF ChannelInv
    <3>4. AtFront' = {i}
      <4>1. i \in AtFront'
        BY <3>1, <1>1, <1>5 DEF AtFront
      <4>2. ASSUME NEW j \in AtFront' PROVE j = i
        <5>1. j \in DOMAIN sent' /\ sent'[j].at = lo
          BY <1>1 DEF AtFront
        <5>2. j \in DOMAIN sent
          BY <5>1, <3>2, <1>6, <1>7
        <5> QED
          BY <5>1, <5>2, <3>3, <1>5 DEF AtFront
      <4> QED
        BY <4>1, <4>2
    <3>5. FrontFrame' = sent[i]
      <4>1. (CHOOSE x \in AtFront' : TRUE) = i
        BY <3>4
      <4> QED
        BY <4>1, <1>5 DEF FrontFrame
    <3>6. Aligned'
      BY <2>1, <3>4, <1>1 DEF Aligned
    <3> QED
      BY <2>1, <3>1, <3>5, <3>6, <1>11 DEF Whole
  <2>2. CASE ~Aligned
    <3>1. told \in Nat \ {0} /\ told <= Buffered
      BY <2>2 DEF Whole
    <3>2. ~Aligned'
      <4> SUFFICES ASSUME Aligned' PROVE FALSE
        OBVIOUS
      <4>1. old = 0 /\ AtFront = {}
        BY <2>2, <1>1 DEF Aligned
      <4>2. PICK j \in DOMAIN sent' : sent'[j].at = lo
        BY <1>1 DEF Aligned, AtFront
      <4>3. j = n
        BY <4>1, <4>2, <1>5, <1>7 DEF AtFront
      <4>4. lo = Total
        BY <4>2, <4>3, <1>6
      <4> QED
        BY <4>1, <4>4, <3>1, <1>12 DEF Buffered
    <3> QED
      BY <3>1, <3>2, <1>1, <1>11 DEF Whole
  <2> QED
    BY <2>1, <2>2
<1>14. StreamInv'
  <2>1. lo <= hi' /\ hi' <= w' /\ w' <= Total'
    BY <1>1, <1>2, <1>3, <1>6, <1>12
  <2> QED
    BY <2>1, <1>1, <1>9, <1>10, <1>11, <1>13 DEF ChannelInv, StreamInv
<1>15. FreshInv'
  <2> SUFFICES ASSUME fresh
               PROVE  /\ old = 0 /\ Len(got) <= Len(sent')
                      /\ lo = Start(Len(got) + 1)'
    BY <1>1 DEF FreshInv
  <2>1. old = 0 /\ Len(got) <= Len(sent) /\ lo = Start(Len(got) + 1)
    BY DEF ChannelInv, FreshInv
  <2>2. Len(got) \in Nat
    BY LenProperties DEF ChannelInv, StreamInv, ReadTypeOK
  <2>3. Start(Len(got) + 1)' = Start(Len(got) + 1)
    <3>1. CASE Len(got) = 0
      BY <3>1, <1>1 DEF Start
    <3>2. CASE Len(got) # 0
      <4>1. Len(got) \in DOMAIN sent
        BY <3>2, <2>1, <2>2, <1>5
      <4> QED
        BY <3>2, <4>1, <2>2, <1>1, <1>5 DEF Start, End
    <3> QED
      BY <3>1, <3>2
  <2> QED
    BY <2>1, <2>2, <2>3, <1>5
<1>16. IntactInv'
  <2> SUFFICES ASSUME fresh, ~failing
               PROVE  /\ \A i \in DOMAIN got : got[i] = sent'[i].text
                      /\ run = "post" => tmp = sent'[Len(got) + 1].text
    BY <1>1 DEF IntactInv
  <2>1. /\ \A i \in DOMAIN got : got[i] = sent[i].text
        /\ run = "post" => tmp = sent[Len(got) + 1].text
    BY DEF ChannelInv, IntactInv
  <2>2. DOMAIN got \subseteq DOMAIN sent
    BY <1>5, LenProperties DEF ChannelInv, FreshInv, StreamInv, ReadTypeOK
  <2>3. run = "post" => Len(got) + 1 \in DOMAIN sent
    BY NextInFront DEF ChannelInv, StreamInv
  <2> QED
    BY <2>1, <2>2, <2>3, <1>5
<1> QED
  BY <1>14, <1>15, <1>16 DEF ChannelInv

LEMMA CutStreamKeeps ==
  ASSUME ChannelInv, CutStream,
         UNCHANGED <<hi, cacheVars, run, aeKey, tmp, got, fresh, failing>>
  PROVE  ChannelInv'
<1>1. /\ UNCHANGED <<sent, hi, lo, old, told, frKey, run, aeKey, tmp, got, fresh, failing>>
      /\ w' \in hi .. w
  BY DEF CutStream, cacheVars
<1>2. UNCHANGED <<Buffered, Total, AtFront>>
  BY <1>1 DEF Buffered, Total, AtFront, End
<1>3. UNCHANGED <<Aligned, FrontFrame>>
  BY <1>1, <1>2 DEF Aligned, FrontFrame
<1>4. Whole' = Whole
  BY <1>1, <1>2, <1>3 DEF Whole
<1>5. w' \in Nat /\ hi' <= w' /\ w' <= Total'
  <2>1. hi \in Nat /\ w \in Nat /\ Total \in Nat /\ w <= Total
    BY Frames DEF ChannelInv, StreamInv, ReadTypeOK
  <2> QED
    BY <2>1, <1>1, <1>2
<1>6. ReadTypeOK'
  BY <1>1, <1>5 DEF ChannelInv, StreamInv, ReadTypeOK
<1>7. Chained'
  BY <1>1, <1>2 DEF ChannelInv, StreamInv, Chained, End
<1>8. StreamInv'
  BY <1>1, <1>2, <1>4, <1>5, <1>6, <1>7 DEF ChannelInv, StreamInv
<1>9. FreshInv' /\ IntactInv'
  BY <1>1 DEF ChannelInv, FreshInv, IntactInv, Start, End
<1> QED
  BY <1>8, <1>9 DEF ChannelInv

LEMMA NewStreamKeeps ==
  ASSUME ChannelInv, NewStream, run' = "built", failing' = failing
  PROVE  ChannelInv'
<1>1. /\ sent' = <<>> /\ w' = 0 /\ hi' = 0 /\ lo' = 0 /\ got' = <<>>
      /\ fresh' = (Buffered = 0)
      /\ UNCHANGED <<frKey, aeKey, tmp>>
  BY DEF NewStream
<1>2. /\ old' = IF told = Bad THEN HeadLen ELSE Buffered
      /\ told' = IF Aligned /\ Buffered >= HeadLen
                 THEN LenOf[FrontFrame.text.kind] ELSE told
  BY DEF NewStream
<1>3. /\ Buffered \in Nat /\ HeadLen \in Nat \ {0} /\ MaxLen \in Nat
      /\ told # 0 => HeadLen <= Buffered
  BY Frames DEF ChannelInv, StreamInv, ReadTypeOK, Buffered
<1>4. old' \in Nat /\ (told' # 0 => HeadLen <= old')
  <2>1. old' \in Nat
    BY <1>2, <1>3
  <2>2. CASE told = Bad
    BY <2>2, <1>2, <1>3
  <2>3. CASE told # Bad
    BY <2>3, <1>2, <1>3
  <2> QED
    BY <2>1, <2>2, <2>3
<1>5. told' \in {Bad, 0} \cup (HeadLen .. MaxLen)
  <2>1. CASE Aligned
    <3>1. PICK i \in DOMAIN sent : FrontFrame = sent[i]
      BY <2>1, FrontSent DEF ChannelInv
    <3>2. LenOf[FrontFrame.text.kind] \in HeadLen .. MaxLen
      BY <3>1, <1>3, Frames, ChannelAssumption DEF ChannelInv
    <3> QED
      BY <3>2, <1>2 DEF ChannelInv, StreamInv, ReadTypeOK
  <2>2. CASE ~Aligned
    BY <2>2, <1>2 DEF ChannelInv, StreamInv, ReadTypeOK
  <2> QED
    BY <2>1, <2>2
<1>6. sent' \in Seq(Frame) /\ got' \in Seq(Text \cup {Junk}) /\ Len(sent') = 0
      /\ Len(got') = 0 /\ DOMAIN sent' = {} /\ DOMAIN got' = {}
  BY <1>1, EmptySeq
<1>7. ReadTypeOK'
  BY <1>1, <1>4, <1>5, <1>6 DEF ChannelInv, StreamInv, ReadTypeOK
<1>8. Chained'
  BY <1>1, <1>6 DEF Chained
<1>9. Total' = 0 /\ Buffered' = old'
  <2>1. Total' = 0
    BY <1>1 DEF Total
  <2>2. Buffered' = old' + hi' - lo'
    BY DEF Buffered
  <2>3. hi' = 0 /\ lo' = 0
    BY <1>1
  <2>4. Buffered' = old' + 0 - 0
    BY <2>2, <2>3
  <2>5. \A n \in Nat : n + 0 - 0 = n
    OBVIOUS
  <2>6. Buffered' = old'
    BY <2>4, <2>5, <1>4
  <2> QED
    BY <2>1, <2>6
<1>10. StreamInv'
  BY <1>1, <1>4, <1>7, <1>8, <1>9 DEF StreamInv
<1>11. FreshInv'
  <2>1. Buffered = 0 => told # Bad
    BY <1>3 DEF Bad
  <2>2. fresh' => old' = 0
    BY <2>1, <1>1, <1>2
  <2>3. Start(Len(got) + 1)' = 0
    BY <1>6 DEF Start
  <2> QED
    BY <2>2, <2>3, <1>1, <1>6 DEF FreshInv
<1>12. IntactInv'
  BY <1>6 DEF IntactInv
<1> QED
  BY <1>10, <1>11, <1>12 DEF ChannelInv
-----------------------------------------------------------------------------
(* Every step.                                                             *)

LEMMA RunThreadStream ==
  ASSUME TypedClient, ChannelInv, RunThread
  PROVE  ChannelInv'
<1>1. aeKey \in Key /\ failing \in BOOLEAN
  BY DEF ChannelInv, StreamInv, ReadTypeOK, TypedClient, TypedComm
<1>2. CASE TryNext
  BY <1>1, <1>2, QuietKeeps DEF TryNext, Quiet, commVars
<1>3. CASE Connect
  BY <1>3, NewStreamKeeps DEF Connect, commVars
<1>4. CASE ConnectFails
  BY <1>1, <1>4, QuietKeeps DEF ConnectFails, Quiet, commVars
<1>5. CASE OnBuiled
  BY <1>1, <1>5, QuietKeeps DEF OnBuiled, Quiet
<1>6. CASE ReadStep
  BY <1>6, RecvKeeps, GetContentKeeps, DecodeContentKeeps DEF ReadStep, commVars
<1>7. CASE Announce
  BY <1>7, PostContentKeeps DEF Announce, commVars
<1>8. CASE OnFreed
  BY <1>1, <1>8, QuietKeeps DEF OnFreed, Quiet, commVars
<1>9. CASE RunEnds
  BY <1>1, <1>9, QuietKeeps DEF RunEnds, Quiet, commVars
<1> QED
  BY <1>2, <1>3, <1>4, <1>5, <1>6, <1>7, <1>8, <1>9 DEF RunThread

\* Nothing that has to do with the stream changes.
LEMMA StillKeeps ==
  ASSUME TypedClient, ChannelInv, UNCHANGED <<readVars, failing>>
  PROVE  ChannelInv'
<1>1. aeKey \in Key /\ failing \in BOOLEAN
  BY DEF ChannelInv, StreamInv, ReadTypeOK, TypedClient, TypedComm
<1> QED
  BY <1>1, QuietKeeps DEF readVars, Quiet

LEMMA CommThreadStream ==
  ASSUME TypedClient, ChannelInv, CommThread
  PROVE  ChannelInv'
<1>1. failing \in BOOLEAN
  BY DEF TypedClient, TypedComm
<1>2. CASE TakeSend
  BY <1>1, <1>2, QuietKeeps DEF TakeSend, Quiet
<1>3. CASE EncodeMsg
  BY <1>3, StillKeeps DEF EncodeMsg
<1>4. CASE SendAll \/ SendPart \/ SendRest \/ SendFails
  BY <1>4, StillKeeps DEF SendAll, SendPart, SendRest, SendFails
<1>5. CASE OnSendDataFailed
  <2>1. aeKey' \in Key
    BY <1>5 DEF OnSendDataFailed, ChannelInv, StreamInv, ReadTypeOK
  <2> QED
    BY <1>5, <2>1, QuietKeeps DEF OnSendDataFailed, Quiet
<1>6. CASE OnStop \/ Join
  BY <1>6, StillKeeps DEF OnStop, Join
<1> QED
  BY <1>2, <1>3, <1>4, <1>5, <1>6 DEF CommThread

LEMMA ModuleStream ==
  ASSUME TypedClient, ChannelInv, ModuleHandler
  PROVE  ChannelInv'
<1>1. ModuleStep
  BY DEF ModuleHandler, OnChannelBuild, OnKeepAlive, OnAuthSuc, OnRefused,
         OnActived, OnChannelFreed, OnJunk
<1> QED
  BY <1>1, StillKeeps DEF ModuleStep, commVars

\* A step of aodc that closes connections may cut the stream.
LEMMA ServerReadStream ==
  ASSUME TypedClient, ChannelInv, NEW c \in Conn, ServerRead(c) \/ ServerMisreads(c)
  PROVE  ChannelInv'
<1>1. UNCHANGED <<hi, cacheVars, run, aeKey, tmp, got, fresh, failing>>
  BY DEF ServerRead, ServerMisreads, Takes, commVars
<1>2. CutStream \/ UNCHANGED netVars
  BY DEF ServerRead, ServerMisreads, Request, Free
<1>3. CASE CutStream
  BY <1>1, <1>3, CutStreamKeeps
<1>4. CASE UNCHANGED netVars
  BY <1>1, <1>4, StillKeeps DEF readVars
<1> QED
  BY <1>2, <1>3, <1>4

\* What aodc may answer with.
LEMMA AnswerText ==
  /\ \A v \in Verdict \cup {"KEEPALIVE"} : [kind |-> v, serial |-> 0] \in Text
  /\ \A s \in Number : [kind |-> "CODE", serial |-> s] \in Text
<1>1. Verdict \subseteq {"SUC", "FAI"} /\ Text = Text0
  BY ClientAssumption
<1> QED
  BY <1>1 DEF Text0

LEMMA AnswerStream ==
  ASSUME TypedClient, ChannelInv, Answer
  PROVE  ChannelInv'
<1>1. UNCHANGED <<hi, cacheVars, run, aeKey, tmp, got, fresh, failing>>
  BY DEF Answer, commVars
<1> DEFINE t == IF prog = "aods" \/ verdict = "FAI" THEN [kind |-> verdict, serial |-> 0]
                ELSE [kind |-> "CODE", serial |-> Head(pend).serial]
<1>2. SendFrame(t) \/ UNCHANGED netVars
  BY DEF Answer
<1>3. t \in Text
  <2>1. Head(pend) \in [conn : Conn, serial : Number]
    BY HeadTailProperties DEF Answer, TypedClient, TypedAodc
  <2>2. verdict \in Verdict
    BY DEF TypedClient, TypedMachine
  <2> QED
    BY <2>1, <2>2, AnswerText
<1> HIDE DEF t
<1>4. CASE SendFrame(t)
  BY <1>1, <1>3, <1>4, SendFrameKeeps
<1>5. CASE UNCHANGED netVars
  BY <1>1, <1>5, StillKeeps DEF readVars
<1> QED
  BY <1>2, <1>4, <1>5

LEMMA StreamKept ==
  ASSUME TypedClient, ChannelInv, [ClientNext]_vars
  PROVE  ChannelInv'
<1>1. CASE AodcStep
  <2>1. CASE \E c \in Conn : ServerRead(c) \/ ServerMisreads(c)
    BY <2>1, ServerReadStream
  <2>2. CASE \E c \in Conn : ServerSeesEnd(c)
    BY <2>2, StillKeeps DEF ServerSeesEnd, commVars
  <2>3. CASE Answer
    BY <2>3, AnswerStream
  <2>4. CASE Probe
    <3>1. SendFrame([kind |-> "KEEPALIVE", serial |-> 0])
      BY <2>4 DEF Probe
    <3>2. UNCHANGED <<hi, cacheVars, run, aeKey, tmp, got, fresh, failing>>
      BY <2>4 DEF Probe, commVars
    <3> QED
      BY <3>1, <3>2, AnswerText, SendFrameKeeps
  <2>5. CASE Release
    BY <2>5, StillKeeps DEF Release, commVars
  <2> QED
    BY <1>1, <2>1, <2>2, <2>3, <2>4, <2>5 DEF AodcStep
<1>2. CASE Break
  BY <1>2, CutStreamKeeps DEF Break, commVars
<1>3. CASE RecvTimeout
  BY <1>3, StillKeeps DEF RecvTimeout, commVars
<1>4. CASE UNCHANGED vars
  BY <1>4, StillKeeps DEF vars, commVars
<1> QED
  BY <1>1, <1>2, <1>3, <1>4, RunThreadStream, CommThreadStream, ModuleStream
     DEF ClientNext
-----------------------------------------------------------------------------
(* Types.                                                                  *)

CommMsg == Message \cup [kind : {"EXIT"}]

WireItem == Message \cup {Junk, Rest}

LEMMA Numbers ==
  /\ Conn \subseteq Number /\ 0 \in Number /\ 0 \notin Conn
  /\ \A s \in Number : [kind |-> "REQUEST", serial |-> s] \in Message
  /\ \A s \in Number : [kind |-> "ECHO", serial |-> s] \in Message
BY ClientAssumption DEF Number, Message

\* The ends of the communication thread's queue.
LEMMA CommQueue ==
  ASSUME TypedClient
  PROVE  /\ \A m \in CommMsg :
              /\ Append(commQ, m) \in Seq(CommMsg)
              /\ Append(commQ, m) # <<>>
              /\ commQ # <<>> => Head(Append(commQ, m)) = Head(commQ)
         /\ commQ # <<>> => Head(commQ) \in CommMsg /\ Tail(commQ) \in Seq(CommMsg)
<1>1. commQ \in Seq(CommMsg)
  BY DEF TypedClient, TypedComm, CommMsg
<1> QED
  BY <1>1, AppendProperties, HeadTailProperties, HeadTailAppend

\* The ends of the module's queue.
LEMMA ModuleQueueEnds ==
  ASSUME TypedClient
  PROVE  /\ \A m \in Notice : Append(modQ, m) \in Seq(Notice)
         /\ modQ # <<>> => Head(modQ) \in Notice /\ Tail(modQ) \in Seq(Notice)
BY AppendProperties, HeadTailProperties DEF TypedClient, TypedModule

LEMMA WireEnds ==
  ASSUME TypedClient, NEW c \in Conn
  PROVE  /\ cs[c] \in Seq(WireItem)
         /\ \A m \in WireItem : Append(cs[c], m) \in Seq(WireItem)
         /\ cs[c] # <<>> => Head(cs[c]) \in WireItem /\ Tail(cs[c]) \in Seq(WireItem)
         /\ \A n \in 0 .. Len(cs[c]) : SubSeq(cs[c], 1, n) \in Seq(WireItem)
<1>1. cs[c] \in Seq(WireItem)
  BY DEF TypedClient, TypedAodc, WireItem
<1>2. \A n \in 0 .. Len(cs[c]) : SubSeq(cs[c], 1, n) \in Seq(WireItem)
  <2> TAKE n \in 0 .. Len(cs[c])
  <2>1. Len(cs[c]) \in Nat /\ n \in Int /\ 1 \in Int
    BY <1>1, LenProperties
  <2>2. \A i \in 1 .. n : cs[c][i] \in WireItem
    BY <1>1, <2>1, ElementOfSeq
  <2> QED
    BY <2>1, <2>2, SubSeqProperties
<1> QED
  BY <1>1, <1>2, AppendProperties, HeadTailProperties

LEMMA RunThreadTypes ==
  ASSUME TypedClient, ChannelInv, RunThread
  PROVE  TypedClient'
<1>1. conn \in Number /\ tmp \in Text \cup {Junk}
  BY DEF TypedClient, TypedMachine, ChannelInv, StreamInv, ReadTypeOK
<1>2. /\ [kind |-> "BUILDED", serial |-> conn] \in Notice
      /\ [kind |-> "FREED"] \in Notice
      /\ [kind |-> "RECV", text |-> tmp] \in Notice
  BY <1>1 DEF Notice
<1>3. HangUp => cl' \in [Conn -> {"none", "open", "fin", "gone"}]
  BY DEF HangUp, TypedClient, TypedAodc
<1>4. CASE TryNext
  <2>1. TypedMachine'
    <3>1. Addrs \in Seq(Addr) /\ Len(Addrs) \in Nat /\ Default \in Addr
      BY ClientAssumption, LenProperties
    <3>2. itCur' \in 1 .. Len(Addrs) + 1 /\ addr' \in Addr
      <4>1. CASE Addrs = <<>>
        BY <4>1, <3>1, <1>4 DEF TryNext, GetNextAddr, TypedClient, TypedMachine
      <4>2. CASE Addrs # <<>>
        <5> DEFINE i == IF itCur = Len(Addrs) + 1 THEN 1 ELSE itCur
        <5>1. itCur' = i + 1 /\ addr' = IF Addrs[i] \in Parses THEN Addrs[i] ELSE Default
          BY <4>2, <1>4 DEF TryNext, GetNextAddr
        <5>2. Len(Addrs) # 0
          BY <4>2, <3>1, EmptySeq
        <5>3. i \in 1 .. Len(Addrs)
          BY <5>2, <3>1 DEF TypedClient, TypedMachine
        <5>4. Addrs[i] \in Addr
          BY <5>3, <3>1, ElementOfSeq
        <5> QED
          BY <5>1, <5>3, <5>4, <3>1
      <4> QED
        BY <4>1, <4>2
    <3> QED
      BY <3>2, <1>4, Numbers DEF TryNext, TypedClient, TypedMachine
  <2>2. TypedComm' /\ TypedModule'
    BY <1>4 DEF TryNext, commVars, modVars, TypedClient, TypedComm, TypedModule
  <2>3. TypedAodc'
    BY <1>3, <1>4 DEF TryNext, TypedClient, TypedAodc
  <2> QED
    BY <2>1, <2>2, <2>3 DEF TypedClient
<1>5. CASE Connect
  <2>1. PICK c \in Conn :
          /\ conn' = c
          /\ cl' = [cl EXCEPT ![c] = IF running THEN "open" ELSE "fin"]
          /\ srv' = [srv EXCEPT ![c] = "open"]
          /\ cs' = [cs EXCEPT ![c] = <<>>]
    BY <1>5 DEF Connect
  <2>2. TypedMachine'
    BY <2>1, <1>5, Numbers DEF Connect, chanVars, TypedClient, TypedMachine
  <2>3. TypedComm' /\ TypedModule'
    BY <1>5 DEF Connect, commVars, modVars, TypedClient, TypedComm, TypedModule
  <2>4. <<>> \in Seq(WireItem)
    BY EmptySeq
  <2>5. TypedAodc'
    BY <2>1, <2>4, <1>5 DEF Connect, TypedClient, TypedAodc, WireItem
  <2> QED
    BY <2>2, <2>3, <2>5 DEF TypedClient
<1>6. CASE ConnectFails
  <2>1. faults' \in 0 .. MaxFault
    BY <1>6, ClientAssumption DEF ConnectFails, Fault, TypedClient, TypedAodc
  <2>2. TypedMachine' /\ TypedComm' /\ TypedModule'
    BY <1>6 DEF ConnectFails, chanVars, commVars, modVars, TypedClient, TypedMachine,
                TypedComm, TypedModule
  <2> QED
    BY <2>1, <2>2, <1>6 DEF ConnectFails, srvVars, TypedClient, TypedAodc
<1>7. CASE OnBuiled
  <2>1. modQ' \in Seq(Notice)
    BY <1>2, <1>7, ModuleQueueEnds DEF OnBuiled
  <2>2. TypedMachine' /\ TypedComm' /\ TypedAodc'
    BY <1>7 DEF OnBuiled, chanVars, srvVars, TypedClient, TypedMachine, TypedComm, TypedAodc
  <2> QED
    BY <2>1, <2>2, <1>7 DEF OnBuiled, modVars, TypedClient, TypedModule
<1>8. CASE ReadStep
  <2>1. cl' \in [Conn -> {"none", "open", "fin", "gone"}]
    BY <1>3, <1>8 DEF ReadStep, Wake, TypedClient, TypedAodc
  <2>2. TypedMachine' /\ TypedComm' /\ TypedModule'
    BY <1>8 DEF ReadStep, chanVars, commVars, modVars, TypedClient, TypedMachine,
                TypedComm, TypedModule
  <2> QED
    BY <2>1, <2>2, <1>8 DEF ReadStep, TypedClient, TypedAodc
<1>9. CASE Announce
  <2>1. modQ' \in Seq(Notice)
    BY <1>2, <1>9, ModuleQueueEnds DEF Announce
  <2>2. TypedMachine' /\ TypedComm' /\ TypedAodc'
    BY <1>9 DEF Announce, chanVars, commVars, srvVars, TypedClient, TypedMachine,
                TypedComm, TypedAodc
  <2> QED
    BY <2>1, <2>2, <1>9 DEF Announce, modVars, TypedClient, TypedModule
<1>10. CASE OnFreed
  <2>1. modQ' \in Seq(Notice)
    BY <1>2, <1>10, ModuleQueueEnds DEF OnFreed
  <2>2. cl' \in [Conn -> {"none", "open", "fin", "gone"}]
    BY <1>3, <1>10 DEF OnFreed, Wake, TypedClient, TypedAodc
  <2>3. TypedMachine' /\ TypedComm'
    BY <1>10 DEF OnFreed, chanVars, commVars, TypedClient, TypedMachine, TypedComm
  <2>4. TypedAodc'
    BY <2>2, <1>10 DEF OnFreed, TypedClient, TypedAodc
  <2> QED
    BY <2>1, <2>3, <2>4, <1>10 DEF OnFreed, modVars, TypedClient, TypedModule
<1>11. CASE RunEnds
  BY <1>11 DEF RunEnds, chanVars, commVars, modVars, srvVars, TypedClient,
               TypedMachine, TypedComm, TypedModule, TypedAodc
<1> QED
  BY <1>4, <1>5, <1>6, <1>7, <1>8, <1>9, <1>10, <1>11 DEF RunThread

\* What the communication thread puts on a connection is a frame or a rest.
LEMMA WireTypes ==
  ASSUME TypedClient, NEW m \in WireItem, PutOnWire(m)
  PROVE  cs' \in [Conn -> Seq(WireItem)]
<1>1. cs \in [Conn -> Seq(WireItem)] /\ (conn # 0 => conn \in Conn)
  BY DEF TypedClient, TypedMachine, TypedAodc, WireItem, Number
<1>2. CASE cs' = cs
  BY <1>1, <1>2
<1>3. CASE conn \in Conn /\ cs' = [cs EXCEPT ![conn] = Append(@, m)]
  <2>1. Append(cs[conn], m) \in Seq(WireItem)
    BY <1>3, WireEnds
  <2> QED
    BY <1>1, <1>3, <2>1
<1> QED
  BY <1>1, <1>2, <1>3 DEF PutOnWire

LEMMA CommThreadTypes ==
  ASSUME TypedClient, ChannelInv, CommThread
  PROVE  TypedClient'
<1> USE DEF commVars, modVars, srvVars, chanVars
<1>1. commQ # <<>> => Head(commQ) \in CommMsg /\ Tail(commQ) \in Seq(CommMsg)
  BY CommQueue
<1>2. CASE TakeSend
  <2>1. snd' \in [key : Key]
    BY <1>2 DEF TakeSend
  <2>2. Head(commQ) \in Message /\ commQ # <<>>
    BY <1>1, <1>2 DEF TakeSend, CommMsg
  <2>3. TypedComm'
    BY <2>1, <2>2, <1>2 DEF TakeSend, TypedClient, TypedComm
  <2> QED
    BY <2>3, <1>2 DEF TakeSend, TypedClient, TypedMachine, TypedModule, TypedAodc
<1>3. CASE EncodeMsg
  <2>1. Head(commQ) \in Message /\ commQ # <<>>
    BY <1>3 DEF EncodeMsg, TypedClient, TypedComm
  <2>2. snd' \in [msg : Message \cup {Junk}]
    BY <2>1, <1>3 DEF EncodeMsg, Encoded
  <2>3. TypedComm'
    BY <2>1, <2>2, <1>3 DEF EncodeMsg, TypedClient, TypedComm
  <2> QED
    BY <2>3, <1>3 DEF EncodeMsg, TypedClient, TypedMachine, TypedModule, TypedAodc
<1>4. ASSUME comm \in {"send", "rest", "fail"}
      PROVE  Tail(commQ) \in Seq(CommMsg)
  BY <1>1, <1>4 DEF TypedClient, TypedComm
<1>5. CASE SendAll
  <2>1. snd.msg \in WireItem
    BY <1>5 DEF SendAll, TypedClient, TypedComm, WireItem
  <2>2. cs' \in [Conn -> Seq(WireItem)]
    BY <2>1, <1>5, WireTypes DEF SendAll
  <2>3. TypedComm'
    BY <1>4, <1>5 DEF SendAll, Sent, TypedClient, TypedComm, CommMsg
  <2>4. TypedAodc'
    BY <2>2, <1>5 DEF SendAll, TypedClient, TypedAodc, WireItem
  <2> QED
    BY <2>3, <2>4, <1>5 DEF SendAll, TypedClient, TypedMachine, TypedModule
<1>6. CASE SendRest
  <2>1. Rest \in WireItem
    BY DEF WireItem
  <2>2. cs' \in [Conn -> Seq(WireItem)]
    BY <2>1, <1>6, WireTypes DEF SendRest
  <2>3. TypedComm'
    BY <1>4, <1>6 DEF SendRest, Sent, TypedClient, TypedComm, CommMsg
  <2>4. TypedAodc'
    BY <2>2, <1>6 DEF SendRest, TypedClient, TypedAodc, WireItem
  <2> QED
    BY <2>3, <2>4, <1>6 DEF SendRest, TypedClient, TypedMachine, TypedModule
<1>7. CASE SendPart
  BY <1>7 DEF SendPart, TypedClient, TypedMachine, TypedComm, TypedModule, TypedAodc
<1>8. CASE SendFails
  BY <1>8 DEF SendFails, TypedClient, TypedMachine, TypedComm, TypedModule, TypedAodc
<1>9. CASE OnSendDataFailed
  <2>1. TypedComm'
    BY <1>4, <1>9 DEF OnSendDataFailed, TypedClient, TypedComm, CommMsg
  <2> QED
    BY <2>1, <1>9 DEF OnSendDataFailed, TypedClient, TypedMachine, TypedModule, TypedAodc
<1>10. CASE OnStop
  <2>1. TypedComm'
    BY <1>1, <1>10 DEF OnStop, TypedClient, TypedComm, CommMsg
  <2>2. cl' \in [Conn -> {"none", "open", "fin", "gone"}]
    BY <1>10 DEF OnStop, HangUp, TypedClient, TypedAodc
  <2> QED
    BY <2>1, <2>2, <1>10 DEF OnStop, TypedClient, TypedMachine, TypedModule, TypedAodc
<1>11. CASE Join
  BY <1>11 DEF Join, TypedClient, TypedMachine, TypedComm, TypedModule, TypedAodc
<1> QED
  BY <1>2, <1>3, <1>5, <1>6, <1>7, <1>8, <1>9, <1>10, <1>11 DEF CommThread

\* A handler takes a notice, and may post a message to the communication
\* thread behind those it has.
LEMMA PostsOne ==
  ASSUME TypedClient, ModuleHandler
  PROVE  /\ ModuleStep
         /\ modQ # <<>> /\ Head(modQ) \in Notice /\ Tail(modQ) \in Seq(Notice)
         /\ NoticeIs("BUILDED") => Head(modQ).serial \in Number
         /\ commQ' = commQ \/ \E m \in CommMsg : commQ' = Append(commQ, m)
<1>1. ModuleStep
  BY DEF ModuleHandler, OnChannelBuild, OnKeepAlive, OnAuthSuc, OnRefused,
         OnActived, OnChannelFreed, OnJunk
<1>2. modQ # <<>> /\ Head(modQ) \in Notice /\ Tail(modQ) \in Seq(Notice)
  BY ModuleQueueEnds DEF ModuleHandler, OnChannelBuild, OnKeepAlive, OnAuthSuc,
     OnRefused, OnActived, OnChannelFreed, OnJunk, Told, NoticeIs
<1>3. NoticeIs("BUILDED") => Head(modQ).serial \in Number
  BY <1>2 DEF NoticeIs, Notice
<1>4. commQ' = commQ \/ \E m \in CommMsg : commQ' = Append(commQ, m)
  <2>1. CASE OnChannelBuild
    BY <2>1, <1>3, Numbers DEF OnChannelBuild, Ask, CommMsg
  <2>2. CASE OnKeepAlive
    BY <2>2, Numbers DEF OnKeepAlive, CommMsg
  <2>3. CASE OnRefused \/ OnActived
    BY <2>3 DEF OnRefused, OnActived, CommMsg
  <2>4. CASE OnAuthSuc \/ OnChannelFreed \/ OnJunk
    BY <2>4 DEF OnAuthSuc, OnChannelFreed, OnJunk
  <2> QED
    BY <2>1, <2>2, <2>3, <2>4 DEF ModuleHandler
<1> QED
  BY <1>1, <1>2, <1>3, <1>4

LEMMA ModuleTypes ==
  ASSUME TypedClient, ModuleHandler
  PROVE  TypedClient'
<1>1. /\ ModuleStep
      /\ modQ # <<>> /\ Head(modQ) \in Notice /\ Tail(modQ) \in Seq(Notice)
      /\ NoticeIs("BUILDED") => Head(modQ).serial \in Number
      /\ commQ' = commQ \/ \E m \in CommMsg : commQ' = Append(commQ, m)
  BY PostsOne
<1>2. Told({"CODE"}) => Head(modQ).text.serial \in Number
  <2> SUFFICES ASSUME Told({"CODE"}) PROVE Head(modQ).text.serial \in Number
    OBVIOUS
  <2>1. Head(modQ).text \in Text0 /\ Head(modQ).text.kind = "CODE"
    BY <1>1, ClientAssumption DEF Told, NoticeIs, Notice
  <2> QED
    BY <2>1 DEF Text0
<1>3. commQ \in Seq(CommMsg)
  BY DEF TypedClient, TypedComm, CommMsg
<1>4. /\ commQ' \in Seq(CommMsg)
      /\ commQ # <<>> => commQ' # <<>> /\ Head(commQ') = Head(commQ)
  BY <1>1, <1>3, CommQueue
<1>5. TypedComm'
  BY <1>1, <1>4 DEF ModuleStep, commVars, TypedClient, TypedComm, CommMsg
<1>6. TypedMachine' /\ TypedAodc'
  BY <1>1 DEF ModuleStep, chanVars, srvVars, TypedClient, TypedMachine, TypedAodc
<1>7. /\ bActived' \in BOOLEAN /\ authed' \in BOOLEAN /\ serial' \in Number
      /\ stored' \in {<<>>} \cup (Number \X Number)
  <2>1. CASE OnChannelBuild
    BY <2>1, <1>1 DEF OnChannelBuild, TypedClient, TypedModule
  <2>2. CASE OnKeepAlive \/ OnAuthSuc \/ OnRefused \/ OnChannelFreed \/ OnJunk
    BY <2>2 DEF OnKeepAlive, OnAuthSuc, OnRefused, OnChannelFreed, OnJunk,
                modVars, TypedClient, TypedModule
  <2>3. CASE OnActived
    BY <2>3, <1>2 DEF OnActived, TypedClient, TypedModule
  <2> QED
    BY <2>1, <2>2, <2>3 DEF ModuleHandler
<1>8. TypedModule'
  BY <1>1, <1>7 DEF ModuleStep, TypedModule
<1> QED
  BY <1>5, <1>6, <1>8 DEF TypedClient

\* aodc, the network and time touch the connections only.
LEMMA ServerTypes ==
  ASSUME TypedClient, AodcStep \/ Break \/ RecvTimeout
  PROVE  TypedClient'
<1> USE DEF commVars, modVars, srvVars, chanVars
<1>1. /\ srv \in [Conn -> {"none", "open", "closed"}]
      /\ cs \in [Conn -> Seq(WireItem)]
      /\ pend \in Seq([conn : Conn, serial : Number])
  BY DEF TypedClient, TypedAodc, WireItem
<1>2. ASSUME NEW S, Free(S)
      PROVE  ended' \in BOOLEAN /\ srv' \in [Conn -> {"none", "open", "closed"}]
  BY <1>1, <1>2 DEF Free, TypedClient, TypedMachine
<1>3. ASSUME NEW c \in Conn, Takes(c)
      PROVE  /\ cs' \in [Conn -> Seq(WireItem)]
             /\ Head(cs[c]) \in WireItem
  <2>1. Head(cs[c]) \in WireItem /\ Tail(cs[c]) \in Seq(WireItem)
    BY <1>3, WireEnds DEF Takes
  <2> QED
    BY <1>1, <1>3, <2>1 DEF Takes
<1>4. ASSUME NEW c \in Conn, ServerRead(c) \/ ServerMisreads(c)
      PROVE  TypedClient'
  <2>1. Takes(c)
    BY <1>4 DEF ServerRead, ServerMisreads
  <2>2. /\ ended' \in BOOLEAN /\ srv' \in [Conn -> {"none", "open", "closed"}]
        /\ bound' \in Number /\ pend' \in Seq([conn : Conn, serial : Number])
    <3>1. CASE UNCHANGED <<ended, srv, bound, pend, netVars>>
      BY <3>1 DEF TypedClient, TypedMachine, TypedAodc
    <3>2. CASE /\ Head(cs[c]) # Junk /\ Head(cs[c]) # Rest
               /\ Head(cs[c]).kind = "REQUEST" /\ Request(c, Head(cs[c]))
      <4>1. Head(cs[c]).serial \in Number
        BY <3>2, <1>3, <2>1 DEF WireItem, Message
      <4>2. CASE Free({c, bound}) /\ UNCHANGED <<bound, pend>>
        BY <4>2, <1>2 DEF TypedClient, TypedAodc
      <4>3. CASE /\ bound' = IF prog = "aods" THEN c ELSE bound
                 /\ pend' = Append(pend, [conn |-> c, serial |-> Head(cs[c]).serial])
                 /\ UNCHANGED <<ended, srv, netVars>>
        <5>1. [conn |-> c, serial |-> Head(cs[c]).serial] \in [conn : Conn, serial : Number]
          BY <4>1
        <5>2. pend' \in Seq([conn : Conn, serial : Number])
          BY <4>3, <5>1, <1>1, AppendProperties
        <5> QED
          BY <4>3, <5>2, Numbers DEF TypedClient, TypedMachine, TypedAodc
      <4> QED
        BY <3>2, <4>2, <4>3 DEF Request
    <3> QED
      BY <3>1, <3>2, <1>4 DEF ServerRead, ServerMisreads
  <2>3. TypedMachine' /\ TypedComm' /\ TypedModule'
    BY <2>1, <2>2 DEF Takes, TypedClient, TypedMachine, TypedComm, TypedModule
  <2>4. TypedAodc'
    BY <2>1, <2>2, <1>3 DEF Takes, TypedClient, TypedAodc, WireItem
  <2> QED
    BY <2>3, <2>4 DEF TypedClient
<1>5. ASSUME NEW c \in Conn, ServerSeesEnd(c)
      PROVE  TypedClient'
  <2>1. <<>> \in Seq(WireItem)
    BY EmptySeq
  <2>2. TypedAodc'
    BY <2>1, <1>1, <1>5 DEF ServerSeesEnd, TypedClient, TypedAodc, WireItem
  <2> QED
    BY <2>2, <1>5 DEF ServerSeesEnd, TypedClient, TypedMachine, TypedComm, TypedModule
<1>6. CASE Answer
  <2>1. pend' \in Seq([conn : Conn, serial : Number])
    BY <1>1, <1>6, HeadTailProperties DEF Answer
  <2>2. TypedAodc'
    BY <2>1, <1>6 DEF Answer, TypedClient, TypedAodc
  <2> QED
    BY <2>2, <1>6 DEF Answer, TypedClient, TypedMachine, TypedComm, TypedModule
<1>7. CASE Probe
  BY <1>7 DEF Probe, TypedClient, TypedMachine, TypedComm, TypedModule, TypedAodc
<1>8. CASE Release
  BY <1>8, Numbers DEF Release, TypedClient, TypedMachine, TypedComm, TypedModule, TypedAodc
<1>9. CASE Break
  <2>1. conn \in Conn
    BY <1>9 DEF Break, TypedClient, TypedMachine, Number
  <2>2. cl' \in [Conn -> {"none", "open", "fin", "gone"}]
    BY <1>9 DEF Break, TypedClient, TypedAodc
  <2>3. PICK n \in 0 .. Len(cs[conn]) : cs' = [cs EXCEPT ![conn] = SubSeq(@, 1, n)]
    BY <1>9 DEF Break
  <2>4. SubSeq(cs[conn], 1, n) \in Seq(WireItem)
    BY <2>1, WireEnds
  <2>5. cs' \in [Conn -> Seq(WireItem)]
    BY <1>1, <2>3, <2>4
  <2>6. faults' \in 0 .. MaxFault
    BY <1>9, ClientAssumption DEF Break, Fault, TypedClient, TypedAodc
  <2>7. TypedAodc'
    BY <2>2, <2>5, <2>6, <1>9 DEF Break, TypedClient, TypedAodc, WireItem
  <2> QED
    BY <2>7, <1>9 DEF Break, TypedClient, TypedMachine, TypedComm, TypedModule
<1>10. CASE RecvTimeout
  BY <1>10 DEF RecvTimeout, TypedClient, TypedMachine, TypedComm, TypedModule, TypedAodc
<1> QED
  BY <1>4, <1>5, <1>6, <1>7, <1>8, <1>9, <1>10 DEF AodcStep
-----------------------------------------------------------------------------
(* The theorems.                                                           *)

LEMMA InitHolds == ClientInit => TypedClient /\ ChannelInv
<1> SUFFICES ASSUME ClientInit PROVE TypedClient /\ ChannelInv
  OBVIOUS
<1>1. ReadInit
  BY DEF ClientInit
<1>2. /\ \A S : <<>> \in Seq(S) /\ Len(<<>>) = 0 /\ DOMAIN <<>> = {}
      /\ Len(Addrs) \in Nat /\ Default \in Addr /\ MaxFault \in Nat
  BY ClientAssumption, EmptySeq, LenProperties
<1>3. ReadTypeOK
  BY <1>1, <1>2 DEF ReadInit, ReadTypeOK
<1>4. Chained /\ Total = 0 /\ Buffered = 0
  BY <1>1, <1>2 DEF ReadInit, Chained, Total, Buffered
<1>5. StreamInv
  BY <1>1, <1>3, <1>4 DEF ReadInit, StreamInv
<1>6. FreshInv /\ IntactInv
  BY <1>1, <1>2 DEF ReadInit, FreshInv, IntactInv, Start
<1>7. TypedMachine
  <2>1. \A n \in Nat : 1 \in 1 .. n + 1
    OBVIOUS
  <2>2. itCur \in 1 .. Len(Addrs) + 1 /\ addr \in Addr
    BY <2>1, <1>2 DEF ClientInit
  <2> QED
    BY <2>2, Numbers DEF ClientInit, TypedMachine
<1>8. TypedComm
  <2>1. commQ \in Seq(Message \cup [kind : {"EXIT"}])
    BY <1>2 DEF ClientInit
  <2>2. snd \in [key : Key] \cup [msg : Message \cup {Junk}]
    BY DEF ClientInit
  <2> QED
    BY <2>1, <2>2 DEF ClientInit, TypedComm
<1>9. TypedModule
  <2>1. modQ \in Seq(Notice)
    BY <1>2 DEF ClientInit
  <2> QED
    BY <2>1, Numbers DEF ClientInit, TypedModule
<1>10. TypedAodc
  BY <1>2, Numbers DEF ClientInit, TypedAodc
<1> QED
  BY <1>5, <1>6, <1>7, <1>8, <1>9, <1>10 DEF ChannelInv, TypedClient

LEMMA StepHolds == TypedClient /\ ChannelInv /\ [ClientNext]_vars => (TypedClient /\ ChannelInv)'
<1> SUFFICES ASSUME TypedClient, ChannelInv, [ClientNext]_vars
             PROVE  TypedClient' /\ ChannelInv'
  OBVIOUS
<1>1. ChannelInv'
  BY StreamKept
<1>2. CASE UNCHANGED vars
  <2>1. TypedMachine' /\ TypedAodc'
    BY <1>2 DEF vars, chanVars, srvVars, TypedClient, TypedMachine, TypedAodc
  <2>2. TypedComm' /\ TypedModule'
    BY <1>2 DEF vars, commVars, modVars, TypedClient, TypedComm, TypedModule
  <2> QED
    BY <2>1, <2>2, <1>1 DEF TypedClient
<1>3. TypedClient'
  BY <1>2, RunThreadTypes, CommThreadTypes, ModuleTypes, ServerTypes DEF ClientNext
<1> QED
  BY <1>1, <1>3

\* What the threads, the decoder and the connections hold keeps its type.
THEOREM ClientTypeCorrect == ClientSpec => []ClientTypeOK
<1>1. TypedClient /\ ChannelInv => ClientTypeOK
  BY DEF TypedClient, TypedMachine, TypedComm, TypedModule, TypedAodc, ChannelInv,
         StreamInv, ClientTypeOK
<1> QED
  BY <1>1, InitHolds, StepHolds, PTL DEF ClientSpec

\* The modules are told what aodc has sent, in order and each frame once, if the
\* decoder was empty when the connection was built and no send has failed since
\* (CAoSockChannel::ReadData, CAoCommuProtocol): wherever the stream is cut into
\* pieces, and whatever keys the sending thread sets in between.
THEOREM FramesIntact == ClientSpec => []RecvIntact
<1>1. ChannelInv => RecvIntact
  BY DEF ChannelInv, FreshInv, IntactInv, RecvIntact
<1> QED
  BY <1>1, InitHolds, StepHolds, PTL DEF ClientSpec

\* The decoder never takes more from its cache than that holds (MoveNext,
\* CAoMemCache::Remove): a frame it hands on is there to its end, in step with
\* the stream or not.
THEOREM DecoderNeverOverruns == ClientSpec => [](run \in {"decode", "post"} => Whole)
<1>1. ChannelInv => (run \in {"decode", "post"} => Whole)
  BY DEF ChannelInv, StreamInv
<1> QED
  BY <1>1, InitHolds, StepHolds, PTL DEF ClientSpec
-----------------------------------------------------------------------------
(* Requests.  Each connection is announced once to the module, which makes *)
(* one request of it; that goes through the queue of the communication     *)
(* thread and over the connection to the controller, and is nowhere else   *)
(* while it is in one of these places.  This holds until a request is sent *)
(* on another connection than the one it was made for.                     *)

\* Connection c has been announced, and the module does not know it yet.
Built(c) == {i \in DOMAIN modQ : modQ[i].kind = "BUILDED" /\ modQ[i].serial = c}

AtMostOne(S) == \A i, j \in S : i = j

\* No request has been made for connection c.
Unasked(c) == Asking(c) = {} /\ OnWire(c) = {} /\ Pending(c) = {} /\ bound # c

\* What is sent is the first message or nothing aodc can read; the thread of
\* the channel has a connection when it announces or reads one, and announces
\* what has been sent on it or nothing a module knows.
Sending ==
  /\ comm = "send" => snd.msg \in {Head(commQ), Junk}
  /\ run \in Reading \cup {"built"} => conn # 0
  /\ run = "post" => tmp = Junk \/ \E i \in DOMAIN sent : tmp = sent[i].text

\* A connection is announced once, and asked for once.
OnePerConn ==
  \A c \in Conn :
    /\ AtMostOne(Built(c)) /\ AtMostOne(Asking(c))
    /\ AtMostOne(OnWire(c)) /\ AtMostOne(Pending(c))
    /\ Built(c) # {} => Unasked(c)
    /\ Asking(c) # {} => OnWire(c) = {} /\ Pending(c) = {} /\ bound # c
    /\ OnWire(c) # {} => Pending(c) = {} /\ bound # c

\* Nothing remembers a connection that is only now built.
NewConn ==
  \A c \in Conn : run = "built" /\ c = conn => Built(c) = {} /\ Unasked(c) /\ serial # c

\* A request that is under way or with the controller is one of its connection.
OwnSerial ==
  /\ \A c \in Conn : \A i \in OnWire(c) : cs[c][i].serial = c
  /\ \A i \in DOMAIN pend : pend[i].serial = pend[i].conn

IsCode(t) == t # Junk /\ t.kind = "CODE"

Code(x) == x.kind = "RECV" /\ IsCode(x.text)

NoneBuilt == \A i \in DOMAIN modQ : modQ[i].kind # "BUILDED"

\* When install has asked on the connection of the moment, its serial is that
\* of this connection; so is the code of an answer.
Asked ==
  \A c \in Conn : c = conn =>
    /\ prog = "install" /\ ~(Asking(c) = {} /\ OnWire(c) = {} /\ Pending(c) = {}) =>
         serial = c /\ NoneBuilt
    /\ \A i \in DOMAIN sent : IsCode(sent[i].text) =>
         serial = c /\ NoneBuilt /\ sent[i].text.serial = c
    /\ \A i, j \in DOMAIN modQ :
         i < j /\ modQ[i].kind = "BUILDED" /\ modQ[j].kind = "BUILDED" => modQ[i].serial # c

\* A code waits for the module in front of the next connection, and is the one
\* for its serial.
CodesFit ==
  \A i \in DOMAIN modQ : Code(modQ[i]) =>
    /\ modQ[i].text.serial = serial
    /\ \A j \in DOMAIN modQ : j < i => modQ[j].kind # "BUILDED"

AskedOnce == OnePerConn /\ NewConn /\ OwnSerial /\ Asked /\ CodesFit /\ StoredChecks

AskInv == Sending /\ (~late => AskedOnce)

\* There are no more requests than before.
FewerAsking ==
  \A c \in Conn : /\ Asking(c) = {} => Asking(c)' = {}
                  /\ AtMostOne(Asking(c)) => AtMostOne(Asking(c))'

FewerOnWire ==
  \A c \in Conn : /\ OnWire(c) = {} => OnWire(c)' = {}
                  /\ AtMostOne(OnWire(c)) => AtMostOne(OnWire(c))'

FewerPending ==
  \A c \in Conn : /\ Pending(c) = {} => Pending(c)' = {}
                  /\ AtMostOne(Pending(c)) => AtMostOne(Pending(c))'

\* A step that makes no request, announces no connection and has no code keeps
\* the order of the requests.
LEMMA NothingAsked ==
  ASSUME TypedClient, AskedOnce, FewerAsking, FewerOnWire, FewerPending,
         bound' \in {bound, 0}, OwnSerial', UNCHANGED <<serial, prog>>,
         conn' \in {conn, 0}, run' = "built" => run = "built" /\ conn' = conn,
         NEW a \in Nat,
         \A i \in DOMAIN modQ' :
           i \in Nat /\ (\/ i + a \in DOMAIN modQ /\ modQ'[i] = modQ[i + a]
                         \/ modQ'[i].kind = "FREED"),
         \A i \in DOMAIN sent' :
           \/ i \in DOMAIN sent /\ sent'[i] = sent[i]
           \/ ~IsCode(sent'[i].text)
           \/ \A c \in Conn : c = conn' => serial = c /\ NoneBuilt /\ sent'[i].text.serial = c,
         StoredChecks'
  PROVE  AskedOnce'
<1>1. NoneBuilt => NoneBuilt'
  BY DEF NoneBuilt
<1>2. \A c \in Conn : /\ Built(c) = {} => Built(c)' = {}
                      /\ AtMostOne(Built(c)) => AtMostOne(Built(c))'
  BY DEF Built, AtMostOne
<1>3. bound \in Number /\ conn \in Number /\ 0 \notin Conn
  BY Numbers DEF TypedClient, TypedMachine, TypedAodc
<1>4. \A c \in Conn : Unasked(c) => Unasked(c)'
  BY <1>3 DEF Unasked, FewerAsking, FewerOnWire, FewerPending
<1>5. OnePerConn'
  BY <1>2, <1>3, <1>4 DEF AskedOnce, OnePerConn, FewerAsking, FewerOnWire, FewerPending
<1>6. NewConn'
  BY <1>2, <1>4 DEF AskedOnce, NewConn
<1>7. Asked'
  <2> SUFFICES ASSUME NEW c \in Conn, c = conn'
               PROVE  /\ prog' = "install" /\ ~(Asking(c) = {} /\ OnWire(c) = {} /\ Pending(c) = {})' =>
                           serial' = c /\ NoneBuilt'
                      /\ \A i \in DOMAIN sent' : IsCode(sent'[i].text) =>
                           serial' = c /\ NoneBuilt' /\ sent'[i].text.serial = c
                      /\ \A i, j \in DOMAIN modQ' :
                           i < j /\ modQ'[i].kind = "BUILDED" /\ modQ'[j].kind = "BUILDED" =>
                             modQ'[i].serial # c
    BY DEF Asked
  <2>1. c = conn
    BY <1>3
  <2>2. prog' = "install" /\ ~(Asking(c) = {} /\ OnWire(c) = {} /\ Pending(c) = {})' =>
          serial' = c /\ NoneBuilt'
    BY <1>1, <2>1 DEF AskedOnce, Asked, FewerAsking, FewerOnWire, FewerPending
  <2>3. \A i \in DOMAIN sent' : IsCode(sent'[i].text) =>
          serial' = c /\ NoneBuilt' /\ sent'[i].text.serial = c
    BY <1>1, <2>1 DEF AskedOnce, Asked
  <2>4. \A i, j \in DOMAIN modQ' :
          i < j /\ modQ'[i].kind = "BUILDED" /\ modQ'[j].kind = "BUILDED" => modQ'[i].serial # c
    BY <2>1 DEF AskedOnce, Asked
  <2> QED BY <2>2, <2>3, <2>4
<1>8. CodesFit'
  BY DEF AskedOnce, CodesFit, Code
<1> QED BY <1>5, <1>6, <1>7, <1>8 DEF AskedOnce

\* Of sequence s, a part is left in t, with more elements of E behind it.
Shrunk(s, t, E) ==
  \E a \in Nat : \A i \in DOMAIN t :
    i \in Nat /\ (\/ i + a \in DOMAIN s /\ t[i] = s[i + a]
                  \/ t[i] \in E)

LEMMA Shrinking ==
  ASSUME NEW T, NEW s \in Seq(T), NEW E
  PROVE  /\ Shrunk(s, s, E)
         /\ Shrunk(s, <<>>, E)
         /\ s # <<>> => Shrunk(s, Tail(s), E)
         /\ \A n \in 0 .. Len(s) : Shrunk(s, SubSeq(s, 1, n), E)
         /\ \A e \in T \cap E : Shrunk(s, Append(s, e), E)
<1>1. DOMAIN s = 1 .. Len(s) /\ Len(s) \in Nat /\ 0 \in Nat /\ 1 \in Nat
  BY LenProperties
<1>2. Shrunk(s, s, E)
  <2>1. \A i \in DOMAIN s : i \in Nat /\ i + 0 \in DOMAIN s /\ s[i] = s[i + 0]
    BY <1>1
  <2> QED BY <1>1, <2>1 DEF Shrunk
<1>3. Shrunk(s, <<>>, E)
  BY <1>1 DEF Shrunk
<1>4. s # <<>> => Shrunk(s, Tail(s), E)
  <2>1. s # <<>> => \A i \in DOMAIN Tail(s) : i \in Nat /\ i + 1 \in DOMAIN s /\ Tail(s)[i] = s[i + 1]
    BY <1>1
  <2> QED BY <1>1, <2>1 DEF Shrunk
<1>5. ASSUME NEW n \in 0 .. Len(s) PROVE Shrunk(s, SubSeq(s, 1, n), E)
  <2>1. \A i \in DOMAIN SubSeq(s, 1, n) :
          i \in Nat /\ i + 0 \in DOMAIN s /\ SubSeq(s, 1, n)[i] = s[i + 0]
    BY <1>1
  <2> QED BY <1>1, <2>1 DEF Shrunk
<1>6. ASSUME NEW e \in T \cap E PROVE Shrunk(s, Append(s, e), E)
  <2>1. \A i \in DOMAIN Append(s, e) :
          i \in Nat /\ (\/ i + 0 \in DOMAIN s /\ Append(s, e)[i] = s[i + 0]
                        \/ Append(s, e)[i] = e)
    BY <1>1
  <2> QED BY <1>1, <2>1 DEF Shrunk
<1> QED BY <1>2, <1>3, <1>4, <1>5, <1>6

NoRequest == {m \in CommMsg : m.kind # "REQUEST"}

Unread == {Junk, Rest} \cup {m \in Message : m.kind # "REQUEST"}

LEMMA CommShrinks ==
  ASSUME Shrunk(commQ, commQ', NoRequest)
  PROVE  FewerAsking
<1>1. PICK a \in Nat : \A i \in DOMAIN commQ' :
        i \in Nat /\ (\/ i + a \in DOMAIN commQ /\ commQ'[i] = commQ[i + a]
                      \/ commQ'[i] \in NoRequest)
  BY DEF Shrunk
<1> QED BY <1>1 DEF FewerAsking, Asking, AtMostOne, NoRequest

LEMMA WiresShrink ==
  ASSUME \A c \in Conn : Shrunk(cs[c], cs'[c], Unread)
  PROVE  /\ FewerOnWire
         /\ (\A c \in Conn : \A i \in OnWire(c) : cs[c][i].serial = c) =>
              \A c \in Conn : \A i \in OnWire(c)' : cs'[c][i].serial = c
<1> SUFFICES ASSUME NEW c \in Conn
             PROVE  /\ OnWire(c) = {} => OnWire(c)' = {}
                    /\ AtMostOne(OnWire(c)) => AtMostOne(OnWire(c))'
                    /\ (\A i \in OnWire(c) : cs[c][i].serial = c) =>
                         \A i \in OnWire(c)' : cs'[c][i].serial = c
  BY DEF FewerOnWire
<1>1. PICK a \in Nat : \A i \in DOMAIN cs'[c] :
        i \in Nat /\ (\/ i + a \in DOMAIN cs[c] /\ cs'[c][i] = cs[c][i + a]
                      \/ cs'[c][i] \in Unread)
  BY DEF Shrunk
<1>2. \A i \in OnWire(c)' : i \in Nat /\ i + a \in OnWire(c) /\ cs'[c][i] = cs[c][i + a]
  BY <1>1 DEF OnWire, Unread
<1> QED BY <1>2 DEF AtMostOne

LEMMA PendShrinks ==
  ASSUME TypedClient, pend' = pend \/ (pend # <<>> /\ pend' = Tail(pend))
  PROVE  /\ FewerPending
         /\ (\A i \in DOMAIN pend : pend[i].serial = pend[i].conn) =>
              \A i \in DOMAIN pend' : pend'[i].serial = pend'[i].conn
<1>1. pend \in Seq([conn : Conn, serial : Number])
  BY DEF TypedClient, TypedAodc
<1>2. Shrunk(pend, pend', {})
  BY <1>1, Shrinking
<1>3. PICK a \in Nat : \A i \in DOMAIN pend' :
        i \in Nat /\ i + a \in DOMAIN pend /\ pend'[i] = pend[i + a]
  BY <1>2 DEF Shrunk
<1>4. \A c \in Conn : \A i \in Pending(c)' : i \in Nat /\ i + a \in Pending(c)
  BY <1>3 DEF Pending
<1>5. FewerPending
  BY <1>4 DEF FewerPending, AtMostOne
<1>6. (\A i \in DOMAIN pend : pend[i].serial = pend[i].conn) =>
        \A i \in DOMAIN pend' : pend'[i].serial = pend'[i].conn
  BY <1>3
<1> QED BY <1>5, <1>6

\* What aodc sends comes behind what it has sent; only the answer to install's
\* request is a code.
LEMMA SentGrows ==
  ASSUME ChannelInv, AodcStep \/ Break \/ RecvTimeout \/ UNCHANGED vars
  PROVE  /\ \A i \in DOMAIN sent : i \in DOMAIN sent' /\ sent'[i] = sent[i]
         /\ \A i \in DOMAIN sent' :
              \/ i \in DOMAIN sent /\ sent'[i] = sent[i]
              \/ Answer \/ ~IsCode(sent'[i].text)
<1>1. sent \in Seq(Frame)
  BY DEF ChannelInv, StreamInv, ReadTypeOK
<1>2. CASE UNCHANGED sent
  BY <1>2
<1>3. ASSUME NEW t, SendFrame(t), Answer \/ ~IsCode(t)
      PROVE  /\ \A i \in DOMAIN sent : i \in DOMAIN sent' /\ sent'[i] = sent[i]
             /\ \A i \in DOMAIN sent' :
                  \/ i \in DOMAIN sent /\ sent'[i] = sent[i]
                  \/ Answer \/ ~IsCode(sent'[i].text)
  <2> DEFINE f == [text |-> t, at |-> Total]
  <2>1. sent' = Append(sent, f) /\ f.text = t
    BY <1>3 DEF SendFrame
  <2> HIDE DEF f
  <2>2. /\ \A i \in DOMAIN sent : i \in DOMAIN sent' /\ sent'[i] = sent[i]
        /\ \A i \in DOMAIN sent' : (i \in DOMAIN sent /\ sent'[i] = sent[i]) \/ sent'[i] = f
    BY <1>1, <2>1
  <2> QED BY <1>3, <2>1, <2>2
<1>4. CASE Answer
  BY <1>2, <1>3, <1>4 DEF Answer, netVars
<1>5. CASE Probe
  <2>1. ~IsCode([kind |-> "KEEPALIVE", serial |-> 0])
    BY DEF IsCode
  <2> QED BY <1>3, <1>5, <2>1 DEF Probe
<1>6. CASE AodcStep /\ ~Answer /\ ~Probe
  BY <1>2, <1>6 DEF AodcStep, ServerRead, ServerMisreads, Request, Free, CutStream,
                    ServerSeesEnd, Release, readVars, netVars
<1>7. CASE Break \/ RecvTimeout \/ UNCHANGED vars
  BY <1>2, <1>7 DEF Break, CutStream, RecvTimeout, vars, readVars, netVars
<1> QED BY <1>4, <1>5, <1>6, <1>7

\* The threads of the machine keep their side of it.
LEMMA SendingKept ==
  ASSUME TypedClient, ChannelInv, Sending, [ClientNext]_vars
  PROVE  Sending'
<1> USE DEF chanVars, commVars, modVars, srvVars
<1>1. comm' = "send" => snd'.msg \in {Head(commQ'), Junk}
  <2>1. CASE UNCHANGED <<comm, snd>> /\ (commQ' = commQ \/ \E m \in CommMsg : commQ' = Append(commQ, m))
    <3>1. comm = "send" => Head(commQ') = Head(commQ)
      BY <2>1, CommQueue DEF TypedClient, TypedComm
    <3> QED BY <2>1, <3>1 DEF Sending
  <2>2. CASE CommThread
    <3>1. CASE EncodeMsg
      <4>1. snd' = [msg |-> Encoded(Head(commQ))] /\ commQ' = commQ
        BY <3>1 DEF EncodeMsg
      <4> QED BY <4>1 DEF Encoded
    <3>2. CASE ~EncodeMsg
      <4>1. comm' # "send"
        BY <2>2, <3>2 DEF CommThread, TakeSend, SendAll, SendPart, SendRest, Sent, SendFails,
                          OnSendDataFailed, OnStop, Join
      <4> QED BY <4>1
    <3> QED BY <3>1, <3>2
  <2>3. CASE RunThread
    BY <2>1, <2>3 DEF RunThread, TryNext, Connect, ConnectFails, OnBuiled, ReadStep, Announce,
                      OnFreed, RunEnds
  <2>4. CASE ModuleHandler
    BY <2>1, <2>4, PostsOne DEF ModuleStep
  <2>5. CASE AodcStep \/ Break \/ RecvTimeout \/ UNCHANGED vars
    BY <2>1, <2>5 DEF AodcStep, ServerRead, ServerMisreads, Takes, ServerSeesEnd, Answer, Probe,
                      Release, Break, RecvTimeout, vars
  <2> QED BY <2>2, <2>3, <2>4, <2>5 DEF ClientNext
<1>2. /\ run' \in Reading \cup {"built"} => conn' # 0
      /\ run' = "post" => tmp' = Junk \/ \E i \in DOMAIN sent' : tmp' = sent'[i].text
  <2>1. CASE UNCHANGED <<run, conn>> /\ tmp' \in {tmp, Junk}
             /\ \A i \in DOMAIN sent : i \in DOMAIN sent' /\ sent'[i] = sent[i]
    BY <2>1 DEF Sending
  <2>2. CASE RunThread
    <3>1. CASE TryNext \/ Connect \/ ConnectFails \/ OnBuiled \/ OnFreed \/ RunEnds
      BY <3>1, Numbers DEF TryNext, Connect, ConnectFails, OnBuiled, OnFreed, RunEnds, Reading,
                           Sending
    <3>2. CASE Announce
      BY <3>2 DEF Announce, PostContent, Reading, Sending
    <3>3. CASE ReadStep
      <4>1. conn' = conn
        BY <3>3 DEF ReadStep
      <4>2. CASE Recv \/ GetContent
        BY <4>1, <4>2 DEF Recv, GetContent, Reading, Sending
      <4>3. CASE DecodeContent
        <5>1. Aligned => \E i \in DOMAIN sent : FrontFrame = sent[i]
          BY DEF Aligned, FrontFrame, AtFront
        <5>2. tmp' = Junk \/ \E i \in DOMAIN sent' : tmp' = sent'[i].text
          BY <4>3, <5>1 DEF DecodeContent, Decoded, netVars
        <5> QED BY <4>1, <4>3, <5>2 DEF DecodeContent, Reading, Sending
      <4> QED BY <3>3, <4>2, <4>3 DEF ReadStep
    <3> QED BY <2>2, <3>1, <3>2, <3>3 DEF RunThread
  <2>3. CASE CommThread
    BY <2>1, <2>3 DEF CommThread, TakeSend, EncodeMsg, SendAll, SendPart, SendRest, SendFails,
                      OnSendDataFailed, OnStop, Join, readVars, netVars
  <2>4. CASE ModuleHandler
    BY <2>1, <2>4, PostsOne DEF ModuleStep, readVars, netVars
  <2>5. CASE AodcStep \/ Break \/ RecvTimeout \/ UNCHANGED vars
    <3>1. UNCHANGED <<run, conn, tmp>>
      BY <2>5 DEF AodcStep, ServerRead, ServerMisreads, Takes, ServerSeesEnd, Answer, Probe,
                  Release, Break, RecvTimeout, vars, readVars
    <3>2. \A i \in DOMAIN sent : i \in DOMAIN sent' /\ sent'[i] = sent[i]
      BY <2>5, SentGrows
    <3> QED BY <2>1, <3>1, <3>2
  <2> QED BY <2>2, <2>3, <2>4, <2>5 DEF ClientNext
<1> QED BY <1>1, <1>2 DEF Sending

Freed == [kind |-> "FREED"]

\* What the queues keep when they are left alone, lose their first element or
\* get one that matters to no request.
LEMMA QueuesShrink ==
  ASSUME TypedClient
  PROVE  /\ UNCHANGED commQ => Shrunk(commQ, commQ', NoRequest)
         /\ commQ # <<>> /\ commQ' = Tail(commQ) => Shrunk(commQ, commQ', NoRequest)
         /\ \A m \in NoRequest : commQ' = Append(commQ, m) => Shrunk(commQ, commQ', NoRequest)
         /\ UNCHANGED modQ => Shrunk(modQ, modQ', {Freed})
         /\ modQ # <<>> /\ modQ' = Tail(modQ) => Shrunk(modQ, modQ', {Freed})
         /\ modQ' = Append(modQ, Freed) => Shrunk(modQ, modQ', {Freed})
         /\ UNCHANGED cs => \A c \in Conn : Shrunk(cs[c], cs'[c], Unread)
<1>1. commQ \in Seq(CommMsg) /\ NoRequest \subseteq CommMsg
  BY DEF TypedClient, TypedComm, CommMsg, NoRequest
<1>2. modQ \in Seq(Notice) /\ Freed \in Notice
  BY DEF TypedClient, TypedModule, Notice, Freed
<1>3. /\ UNCHANGED commQ => Shrunk(commQ, commQ', NoRequest)
      /\ commQ # <<>> /\ commQ' = Tail(commQ) => Shrunk(commQ, commQ', NoRequest)
      /\ \A m \in NoRequest : commQ' = Append(commQ, m) => Shrunk(commQ, commQ', NoRequest)
  <2>1. \A m \in NoRequest : m \in CommMsg \cap NoRequest
    BY <1>1
  <2> QED BY <1>1, <2>1, Shrinking
<1>4. /\ UNCHANGED modQ => Shrunk(modQ, modQ', {Freed})
      /\ modQ # <<>> /\ modQ' = Tail(modQ) => Shrunk(modQ, modQ', {Freed})
      /\ modQ' = Append(modQ, Freed) => Shrunk(modQ, modQ', {Freed})
  <2>1. Freed \in Notice \cap {Freed}
    BY <1>2
  <2> QED BY <1>2, <2>1, Shrinking
<1>5. UNCHANGED cs => \A c \in Conn : Shrunk(cs[c], cs'[c], Unread)
  BY WireEnds, Shrinking
<1> QED BY <1>3, <1>4, <1>5

LEMMA RequestsVanish ==
  ASSUME TypedClient, AskedOnce, ~late, ~late',
         Shrunk(commQ, commQ', NoRequest),
         \A c \in Conn : Shrunk(cs[c], cs'[c], Unread),
         pend' = pend \/ (pend # <<>> /\ pend' = Tail(pend)),
         Shrunk(modQ, modQ', {Freed}),
         bound' \in {bound, 0}, UNCHANGED <<serial, prog>>, UNCHANGED stored \/ StoredChecks',
         conn' \in {conn, 0}, run' = "built" => run = "built" /\ conn' = conn,
         \A i \in DOMAIN sent' :
           \/ i \in DOMAIN sent /\ sent'[i] = sent[i]
           \/ ~IsCode(sent'[i].text)
           \/ \A c \in Conn : c = conn' => serial = c /\ NoneBuilt /\ sent'[i].text.serial = c
  PROVE  AskedOnce'
<1>1. FewerAsking /\ FewerOnWire /\ FewerPending
  BY CommShrinks, WiresShrink, PendShrinks
<1>2. OwnSerial'
  BY WiresShrink, PendShrinks DEF AskedOnce, OwnSerial
<1>3. StoredChecks'
  BY DEF AskedOnce, StoredChecks
<1>4. PICK a \in Nat : \A i \in DOMAIN modQ' :
        i \in Nat /\ (\/ i + a \in DOMAIN modQ /\ modQ'[i] = modQ[i + a]
                      \/ modQ'[i] \in {Freed})
  BY DEF Shrunk
<1>5. \A i \in DOMAIN modQ' :
        i \in Nat /\ (\/ i + a \in DOMAIN modQ /\ modQ'[i] = modQ[i + a]
                      \/ modQ'[i].kind = "FREED")
  BY <1>4 DEF Freed
<1> QED BY <1>1, <1>2, <1>3, <1>5, NothingAsked

\* A connection is set up under a number nothing remembers.
LEMMA ConnectAsks ==
  ASSUME TypedClient, AskedOnce, ~late, Connect
  PROVE  AskedOnce'
<1>1. PICK c \in Conn : Unused(c) /\ conn' = c /\ cs' = [cs EXCEPT ![c] = <<>>]
  BY DEF Connect
<1>2. /\ UNCHANGED <<commQ, modQ, pend, bound, serial, stored, prog, late>>
      /\ DOMAIN sent' = {}
  BY DEF Connect, chanVars, commVars, modVars, NewStream
<1>3. cs \in [Conn -> Seq(WireItem)]
  BY DEF TypedClient, TypedAodc, WireItem
<1>4. /\ \A d \in Conn : \A i \in OnWire(d)' : i \in OnWire(d) /\ cs'[d][i] = cs[d][i]
      /\ OnWire(c)' = {}
  BY <1>1, <1>3 DEF OnWire
<1>5. \A d \in Conn : Asking(d)' = Asking(d) /\ Pending(d)' = Pending(d) /\ Built(d)' = Built(d)
  BY <1>2 DEF Asking, Pending, Built
<1>6. /\ Built(c) = {} /\ Asking(c) = {} /\ Pending(c) = {} /\ bound # c /\ serial # c
      /\ \A i \in DOMAIN modQ : modQ[i].kind = "BUILDED" => modQ[i].serial # c
  BY <1>1 DEF Unused, Built, Asking, Pending
<1>7. Unasked(c)'
  BY <1>2, <1>4, <1>5, <1>6 DEF Unasked
<1>8. OnePerConn'
  <2> SUFFICES ASSUME NEW d \in Conn
               PROVE  /\ AtMostOne(Built(d))' /\ AtMostOne(Asking(d))'
                      /\ AtMostOne(OnWire(d))' /\ AtMostOne(Pending(d))'
                      /\ Built(d)' # {} => Unasked(d)'
                      /\ Asking(d)' # {} => OnWire(d)' = {} /\ Pending(d)' = {} /\ bound' # d
                      /\ OnWire(d)' # {} => Pending(d)' = {} /\ bound' # d
    BY DEF OnePerConn
  <2> QED BY <1>2, <1>4, <1>5 DEF AskedOnce, OnePerConn, Unasked, AtMostOne
<1>9. NewConn'
  BY <1>1, <1>2, <1>5, <1>6, <1>7 DEF NewConn
<1>10. OwnSerial'
  BY <1>2, <1>4 DEF AskedOnce, OwnSerial
<1>11. Asked'
  BY <1>1, <1>2, <1>4, <1>5, <1>6 DEF Asked
<1>12. CodesFit' /\ StoredChecks'
  BY <1>2 DEF AskedOnce, CodesFit, Code, StoredChecks
<1> QED BY <1>8, <1>9, <1>10, <1>11, <1>12 DEF AskedOnce

\* It is announced to the module behind all that came before.
LEMMA BuildedAsks ==
  ASSUME TypedClient, Sending, AskedOnce, ~late, OnBuiled
  PROVE  AskedOnce'
<1> DEFINE b == [kind |-> "BUILDED", serial |-> conn]
<1>1. modQ \in Seq(Notice) /\ Len(modQ) \in Nat /\ DOMAIN modQ = 1 .. Len(modQ)
  BY LenProperties DEF TypedClient, TypedModule
<1>2. modQ' = Append(modQ, b) /\ b.kind = "BUILDED" /\ b.serial = conn
  BY DEF OnBuiled
<1> HIDE DEF b
<1>3. /\ DOMAIN modQ' = 1 .. Len(modQ) + 1
      /\ \A i \in DOMAIN modQ : i \in DOMAIN modQ' /\ modQ'[i] = modQ[i]
      /\ modQ'[Len(modQ) + 1] = b
  BY <1>1, <1>2
<1>4. /\ UNCHANGED <<commQ, cs, pend, bound, serial, stored, prog, late, conn, sent>>
      /\ run = "built" /\ run' = "recv"
  BY DEF OnBuiled, chanVars, modVars, srvVars, netVars
<1>5. conn \in Conn
  BY <1>4 DEF TypedClient, TypedMachine, Number, Sending
<1>6. PICK c \in Conn : c = conn
  BY <1>5
<1>7. Built(c) = {} /\ Unasked(c) /\ serial # c
  BY <1>4, <1>6 DEF AskedOnce, NewConn
<1>8. \A d \in Conn : Asking(d)' = Asking(d) /\ Pending(d)' = Pending(d) /\ OnWire(d)' = OnWire(d)
                      /\ Unasked(d)' = Unasked(d)
  BY <1>4 DEF Asking, Pending, OnWire, Unasked
<1>9. \A d \in Conn : Built(d)' = IF d = c THEN {Len(modQ) + 1} ELSE Built(d)
  <2>1. \A d \in Conn : \A i \in DOMAIN modQ' :
          i \in Built(d)' <=> i \in Built(d) \/ (i = Len(modQ) + 1 /\ d = c)
    BY <1>1, <1>2, <1>3, <1>6 DEF Built
  <2>2. \A d \in Conn : Built(d)' \subseteq DOMAIN modQ' /\ Built(d) \subseteq DOMAIN modQ'
    BY <1>3 DEF Built
  <2>3. Len(modQ) + 1 \in DOMAIN modQ'
    BY <1>1, <1>3
  <2>4. \A d \in Conn : \A i : i \in Built(d)' <=> i \in (IF d = c THEN {Len(modQ) + 1} ELSE Built(d))
    BY <1>7, <2>1, <2>2, <2>3
  <2> QED BY <2>4
<1>10. OnePerConn'
  BY <1>4, <1>7, <1>8, <1>9 DEF AskedOnce, OnePerConn, Unasked, AtMostOne
<1>11. NewConn'
  BY <1>4 DEF NewConn
<1>12. OwnSerial'
  BY <1>4, <1>8 DEF AskedOnce, OwnSerial
<1>13. Asked'
  <2>1. \A i \in DOMAIN sent : ~IsCode(sent[i].text)
    BY <1>6, <1>7 DEF AskedOnce, Asked
  <2>2. \A i \in DOMAIN modQ : modQ[i].kind = "BUILDED" => modQ[i].serial # c
    BY <1>7 DEF Built
  <2>3. \A i, j \in DOMAIN modQ' :
          i < j /\ modQ'[i].kind = "BUILDED" /\ modQ'[j].kind = "BUILDED" => modQ'[i].serial # c
    BY <1>1, <1>3, <2>2
  <2>4. Asking(c)' = {} /\ OnWire(c)' = {} /\ Pending(c)' = {}
    BY <1>7, <1>8 DEF Unasked
  <2> QED BY <1>4, <1>6, <2>1, <2>3, <2>4 DEF Asked
<1>14. CodesFit'
  <2>1. \A i \in DOMAIN modQ' : Code(modQ'[i]) => i \in DOMAIN modQ
    BY <1>1, <1>2, <1>3 DEF Code
  <2>2. \A i, j \in DOMAIN modQ' : i \in DOMAIN modQ /\ j < i => j \in DOMAIN modQ
    BY <1>1, <1>3
  <2> QED BY <1>3, <1>4, <2>1, <2>2 DEF AskedOnce, CodesFit, Code
<1>15. StoredChecks'
  BY <1>4 DEF AskedOnce, StoredChecks
<1> QED BY <1>10, <1>11, <1>12, <1>13, <1>14, <1>15 DEF AskedOnce

\* A code that is announced is one for the serial of the module.
LEMMA AnnounceAsks ==
  ASSUME TypedClient, Sending, AskedOnce, ~late, Announce
  PROVE  AskedOnce'
<1> DEFINE b == [kind |-> "RECV", text |-> tmp]
<1>1. modQ \in Seq(Notice) /\ Len(modQ) \in Nat /\ DOMAIN modQ = 1 .. Len(modQ)
  BY LenProperties DEF TypedClient, TypedModule
<1>2. modQ' = Append(modQ, b) /\ b.kind = "RECV" /\ b.text = tmp
  BY DEF Announce
<1> HIDE DEF b
<1>3. /\ DOMAIN modQ' = 1 .. Len(modQ) + 1
      /\ \A i \in DOMAIN modQ : i \in DOMAIN modQ' /\ modQ'[i] = modQ[i]
      /\ modQ'[Len(modQ) + 1] = b
  BY <1>1, <1>2
<1>4. /\ UNCHANGED <<commQ, cs, pend, bound, serial, stored, prog, late, conn, sent>>
      /\ run = "post" /\ run' = "parse"
  BY DEF Announce, PostContent, chanVars, commVars, modVars, srvVars, netVars
<1>5. \A d \in Conn : /\ Asking(d)' = Asking(d) /\ Pending(d)' = Pending(d)
                      /\ OnWire(d)' = OnWire(d) /\ Unasked(d)' = Unasked(d)
  BY <1>4 DEF Asking, Pending, OnWire, Unasked
<1>6. \A i \in DOMAIN modQ' : modQ'[i].kind = "BUILDED" => i \in DOMAIN modQ
  BY <1>1, <1>2, <1>3
<1>7. \A d \in Conn : Built(d)' = Built(d)
  BY <1>3, <1>6 DEF Built
<1>8. OnePerConn' /\ OwnSerial'
  BY <1>4, <1>5, <1>7 DEF AskedOnce, OnePerConn, OwnSerial, AtMostOne
<1>9. NewConn' /\ StoredChecks'
  BY <1>4 DEF NewConn, AskedOnce, StoredChecks
<1>10. NoneBuilt => NoneBuilt'
  BY <1>6, <1>3 DEF NoneBuilt
<1>11. Asked'
  BY <1>3, <1>4, <1>5, <1>6, <1>10 DEF AskedOnce, Asked
<1>12. CodesFit'
  <2>1. IsCode(tmp) => tmp.serial = serial /\ NoneBuilt
    <3> SUFFICES ASSUME IsCode(tmp) PROVE tmp.serial = serial /\ NoneBuilt
      OBVIOUS
    <3>1. PICK i \in DOMAIN sent : tmp = sent[i].text
      BY <1>4 DEF Sending, IsCode
    <3>2. conn \in Conn
      BY <1>4 DEF TypedClient, TypedMachine, Number, Sending, Reading
    <3> QED BY <3>1, <3>2 DEF AskedOnce, Asked
  <2> SUFFICES ASSUME NEW i \in DOMAIN modQ', Code(modQ'[i])
               PROVE  /\ modQ'[i].text.serial = serial
                      /\ \A j \in DOMAIN modQ' : j < i => modQ'[j].kind # "BUILDED"
    BY <1>4 DEF CodesFit, Code
  <2>2. CASE i \in DOMAIN modQ
    <3>1. \A j \in DOMAIN modQ' : j < i => j \in DOMAIN modQ
      BY <1>1, <1>3, <2>2
    <3> QED BY <1>3, <2>2, <3>1 DEF AskedOnce, CodesFit
  <2>3. CASE i \notin DOMAIN modQ
    <3>1. modQ'[i] = b
      BY <1>1, <1>3, <2>3
    <3> QED BY <1>2, <1>6, <1>3, <2>1, <3>1 DEF Code, NoneBuilt
  <2> QED BY <2>2, <2>3
<1> QED BY <1>8, <1>9, <1>11, <1>12 DEF AskedOnce

LEMMA RunThreadAsks ==
  ASSUME TypedClient, ChannelInv, Sending, AskedOnce, ~late, ~late', RunThread
  PROVE  AskedOnce'
<1> USE DEF chanVars, commVars, modVars, srvVars, netVars
<1>1. CASE TryNext \/ ConnectFails \/ OnFreed \/ RunEnds
  <2>1. UNCHANGED <<commQ, cs, pend, bound, serial, stored, prog, sent>> /\ run' # "built"
    BY <1>1 DEF TryNext, ConnectFails, OnFreed, RunEnds
  <2>2. conn' \in {conn, 0} /\ (UNCHANGED modQ \/ modQ' = Append(modQ, Freed))
    BY <1>1 DEF TryNext, ConnectFails, OnFreed, RunEnds, Freed
  <2> QED BY <2>1, <2>2, QueuesShrink, RequestsVanish
<1>2. CASE ReadStep
  <2>1. /\ UNCHANGED <<commQ, cs, pend, bound, serial, stored, prog, sent, modQ, conn>>
        /\ run' # "built"
    BY <1>2 DEF ReadStep, Recv, GetContent, DecodeContent
  <2> QED BY <2>1, QueuesShrink, RequestsVanish
<1> QED BY <1>1, <1>2, ConnectAsks, BuildedAsks, AnnounceAsks DEF RunThread

\* A message is taken from the queue; a request, if it is sent on its own
\* connection, is on the way from then on.
LEMMA SentAsks ==
  ASSUME TypedClient, Sending, AskedOnce, ~late, ~late', SendAll
  PROVE  AskedOnce'
<1> DEFINE m == Head(commQ)
<1>1. commQ \in Seq(CommMsg) /\ commQ # <<>> /\ m \in Message /\ commQ' = Tail(commQ)
      /\ m = commQ[1] /\ 1 \in DOMAIN commQ
  <2>1. commQ \in Seq(CommMsg) /\ commQ # <<>> /\ m \in Message /\ commQ' = Tail(commQ)
    BY DEF SendAll, Sent, TypedClient, TypedComm, CommMsg
  <2> QED BY <2>1
<1>2. /\ m.kind = "REQUEST" => m.serial = conn
      /\ PutOnWire(snd.msg) /\ snd.msg \in {m, Junk}
      /\ UNCHANGED <<modQ, pend, bound, serial, stored, prog, sent, conn, run>>
  <2>1. m.kind = "REQUEST" => m.serial = conn
    <3>1. late' = (late \/ (m.kind = "REQUEST" /\ m.serial # conn))
      BY DEF SendAll, Sent
    <3> QED BY <3>1, Zenon
  <2>2. PutOnWire(snd.msg) /\ snd.msg \in {m, Junk}
    BY DEF SendAll, Sending
  <2>3. UNCHANGED <<modQ, pend, bound, serial, stored, prog, sent, conn, run>>
    BY DEF SendAll, readVars, netVars, chanVars, modVars
  <2> QED BY <2>1, <2>2, <2>3
<1> HIDE DEF m
<1>3. CASE \A c \in Conn : Shrunk(cs[c], cs'[c], Unread)
  BY <1>1, <1>2, <1>3, QueuesShrink, RequestsVanish
<1>4. CASE ~ \A c \in Conn : Shrunk(cs[c], cs'[c], Unread)
  <2>1. conn \in Conn /\ cs' = [cs EXCEPT ![conn] = Append(cs[conn], snd.msg)]
    BY <1>2, <1>4, QueuesShrink DEF PutOnWire, TypedClient, TypedMachine, Number
  <2>2. cs \in [Conn -> Seq(WireItem)]
    BY DEF TypedClient, TypedAodc, WireItem
  <2>3. snd.msg = m /\ m.kind = "REQUEST" /\ m.serial = conn
    <3>1. ASSUME snd.msg \in WireItem \cap Unread PROVE FALSE
      <4>1. Shrunk(cs[conn], Append(cs[conn], snd.msg), Unread)
        BY <2>1, <2>2, <3>1, WireEnds, Shrinking
      <4>2. \A c \in Conn : Shrunk(cs[c], cs[c], Unread)
        BY WireEnds, Shrinking
      <4> QED BY <1>4, <2>1, <2>2, <4>1, <4>2
    <3>2. snd.msg \in WireItem
      BY <1>1, <1>2 DEF WireItem
    <3> QED BY <1>1, <1>2, <3>1, <3>2 DEF Unread
  <2>4. PICK c \in Conn : c = conn
    BY <2>1
  <2>5. 1 \in Asking(c)
    BY <1>1, <2>3, <2>4 DEF Asking
  <2>6. OnWire(c) = {} /\ Pending(c) = {} /\ bound # c /\ Built(c) = {}
    BY <2>5 DEF AskedOnce, OnePerConn, Unasked
  <2>7. FewerAsking /\ Asking(c)' = {}
    <3>1. FewerAsking
      BY <1>1, QueuesShrink, CommShrinks
    <3>2. \A i \in DOMAIN commQ' : i + 1 \in DOMAIN commQ /\ commQ'[i] = commQ[i + 1] /\ i + 1 # 1
      BY <1>1
    <3>3. \A i \in Asking(c)' : i + 1 \in Asking(c) /\ i + 1 # 1
      BY <3>2 DEF Asking
    <3> QED BY <2>5, <3>1, <3>3 DEF AskedOnce, OnePerConn, AtMostOne
  <2>8. /\ \A d \in Conn : d # c => OnWire(d)' = OnWire(d)
        /\ \A i \in OnWire(c)' : i = Len(cs[c]) + 1 /\ cs'[c][i] = m
    <3>1. cs'[c] = Append(cs[c], m) /\ cs[c] \in Seq(WireItem)
      BY <2>1, <2>2, <2>3, <2>4
    <3>2. \A i \in DOMAIN cs'[c] : \/ i \in DOMAIN cs[c] /\ cs'[c][i] = cs[c][i]
                                   \/ i = Len(cs[c]) + 1 /\ cs'[c][i] = m
      BY <3>1
    <3>3. \A d \in Conn : d # c => cs'[d] = cs[d]
      BY <2>1, <2>2, <2>4
    <3> QED BY <2>6, <3>2, <3>3 DEF OnWire
  <2>9. \A d \in Conn : Pending(d)' = Pending(d) /\ Built(d)' = Built(d)
    BY <1>2 DEF Pending, Built
  <2>10. OnePerConn'
    <3> SUFFICES ASSUME NEW d \in Conn
                 PROVE  /\ AtMostOne(Built(d))' /\ AtMostOne(Asking(d))'
                        /\ AtMostOne(OnWire(d))' /\ AtMostOne(Pending(d))'
                        /\ Built(d)' # {} => Unasked(d)'
                        /\ Asking(d)' # {} => OnWire(d)' = {} /\ Pending(d)' = {} /\ bound' # d
                        /\ OnWire(d)' # {} => Pending(d)' = {} /\ bound' # d
      BY DEF OnePerConn
    <3>1. CASE d = c
      BY <1>2, <2>6, <2>7, <2>8, <2>9, <3>1 DEF AskedOnce, OnePerConn, Unasked, AtMostOne
    <3>2. CASE d # c
      BY <1>2, <2>7, <2>8, <2>9, <3>2 DEF AskedOnce, OnePerConn, Unasked, AtMostOne, FewerAsking
    <3> QED BY <3>1, <3>2
  <2>11. NewConn'
    <3>1. run # "built"
      BY <2>4, <2>5 DEF AskedOnce, NewConn, Unasked
    <3> QED BY <1>2, <3>1 DEF NewConn
  <2>12. OwnSerial'
    <3>1. \A d \in Conn : d # c => cs'[d] = cs[d]
      BY <2>1, <2>2, <2>4
    <3> QED BY <1>2, <2>3, <2>4, <2>8, <3>1 DEF AskedOnce, OwnSerial
  <2>13. Asked'
    <3>1. NoneBuilt' = NoneBuilt
      BY <1>2 DEF NoneBuilt
    <3> QED BY <1>2, <2>4, <2>5, <3>1 DEF AskedOnce, Asked
  <2>14. CodesFit' /\ StoredChecks'
    BY <1>2 DEF AskedOnce, CodesFit, Code, StoredChecks
  <2> QED BY <2>10, <2>11, <2>12, <2>13, <2>14 DEF AskedOnce
<1> QED BY <1>3, <1>4

\* One connection keeps a part of what was on it, and perhaps gets what aodc
\* will not take for a request.
LEMMA OneWireShrinks ==
  ASSUME TypedClient, NEW c \in Conn, NEW t, cs' = [cs EXCEPT ![c] = t],
         Shrunk(cs[c], t, Unread)
  PROVE  \A d \in Conn : Shrunk(cs[d], cs'[d], Unread)
<1>1. cs \in [Conn -> Seq(WireItem)]
  BY DEF TypedClient, TypedAodc, WireItem
<1>2. \A d \in Conn : Shrunk(cs[d], cs[d], Unread)
  BY WireEnds, Shrinking
<1>3. \A d \in Conn : cs'[d] = IF d = c THEN t ELSE cs[d]
  BY <1>1
<1> QED BY <1>2, <1>3

LEMMA CommThreadAsks ==
  ASSUME TypedClient, Sending, AskedOnce, ~late, ~late', CommThread
  PROVE  AskedOnce'
<1> USE DEF readVars, chanVars, commVars, modVars, srvVars, netVars
<1>1. CASE TakeSend \/ EncodeMsg \/ SendPart \/ SendFails \/ Join
  <2>1. UNCHANGED <<commQ, cs, pend, modQ, bound, serial, stored, prog, conn, sent, run>>
    BY <1>1 DEF TakeSend, EncodeMsg, SendPart, SendFails, Join
  <2> QED BY <2>1, QueuesShrink, RequestsVanish
<1>2. CASE OnSendDataFailed \/ OnStop
  <2>1. UNCHANGED <<cs, pend, modQ, bound, serial, stored, prog, conn, sent, run>>
    BY <1>2 DEF OnSendDataFailed, OnStop
  <2>2. commQ # <<>> /\ commQ' = Tail(commQ)
    BY <1>2 DEF OnSendDataFailed, OnStop, TypedClient, TypedComm
  <2> QED BY <2>1, <2>2, QueuesShrink, RequestsVanish
<1>3. CASE SendRest
  <2>1. UNCHANGED <<pend, modQ, bound, serial, stored, prog, conn, sent, run>>
    BY <1>3 DEF SendRest
  <2>2. commQ # <<>> /\ commQ' = Tail(commQ)
    BY <1>3 DEF SendRest, Sent, TypedClient, TypedComm
  <2>3. \A c \in Conn : Shrunk(cs[c], cs'[c], Unread)
    <3>1. CASE cs' = cs
      BY <3>1, QueuesShrink
    <3>2. CASE conn # 0 /\ cs' = [cs EXCEPT ![conn] = Append(cs[conn], Rest)]
      <4>1. PICK c \in Conn : c = conn
        BY <3>2 DEF TypedClient, TypedMachine, Number
      <4>2. Shrunk(cs[c], Append(cs[c], Rest), Unread)
        <5>1. Rest \in WireItem \cap Unread /\ cs[c] \in Seq(WireItem)
          BY WireEnds DEF WireItem, Unread
        <5> QED BY <5>1, Shrinking
      <4> QED BY <3>2, <4>1, <4>2, OneWireShrinks
    <3> QED BY <1>3, <3>1, <3>2 DEF SendRest, PutOnWire
  <2> QED BY <2>1, <2>2, <2>3, QueuesShrink, RequestsVanish
<1> QED BY <1>1, <1>2, <1>3, SentAsks DEF CommThread

\* The module learns of a connection and asks: it is the last one announced, if
\* it is the one of the moment.
LEMMA BuildAsks ==
  ASSUME TypedClient, AskedOnce, ~late, OnChannelBuild, ~bActived
  PROVE  AskedOnce'
<1>0. PICK s : s = Head(modQ).serial
  OBVIOUS
<1>01. PICK r : r = [kind |-> "REQUEST", serial |-> s]
  OBVIOUS
<1>1. /\ modQ \in Seq(Notice) /\ modQ # <<>> /\ modQ' = Tail(modQ)
      /\ modQ[1].kind = "BUILDED" /\ modQ[1].serial = s /\ 1 \in DOMAIN modQ
  <2>1. modQ \in Seq(Notice) /\ modQ # <<>> /\ modQ' = Tail(modQ) /\ Head(modQ).kind = "BUILDED"
    BY DEF OnChannelBuild, NoticeIs, ModuleStep, TypedClient, TypedModule
  <2> QED BY <1>0, <2>1
<1>2. commQ' = Append(commQ, r) /\ commQ \in Seq(CommMsg) /\ Len(commQ) \in Nat
  BY <1>0, <1>01 DEF OnChannelBuild, Ask, TypedClient, TypedComm, CommMsg
<1>3. serial' = IF prog = "install" THEN s ELSE serial
  BY <1>0 DEF OnChannelBuild
<1>4. UNCHANGED <<cs, pend, bound, stored, prog, late, conn, sent, run>>
  BY DEF OnChannelBuild, ModuleStep, readVars, netVars, chanVars, commVars, srvVars
<1>5. r.kind = "REQUEST" /\ r.serial = s
  BY <1>01
<1>6. \A i \in DOMAIN modQ' : i \in Nat /\ i + 1 \in DOMAIN modQ /\ modQ'[i] = modQ[i + 1] /\ i + 1 > 1
  BY <1>1
<1>7. \A c \in Conn : Pending(c)' = Pending(c) /\ OnWire(c)' = OnWire(c)
  BY <1>4 DEF Pending, OnWire
<1>8. \A c \in Conn : Asking(c)' = IF c = s THEN Asking(c) \cup {Len(commQ) + 1} ELSE Asking(c)
  <2>1. \A i : i \in DOMAIN commQ' <=> i \in DOMAIN commQ \/ i = Len(commQ) + 1
    BY <1>2
  <2>2. /\ \A i \in DOMAIN commQ : commQ'[i] = commQ[i] /\ i # Len(commQ) + 1
        /\ commQ'[Len(commQ) + 1] = r
    BY <1>2
  <2>3. \A c \in Conn : \A i : i \in Asking(c)' <=> i \in Asking(c) \/ (c = s /\ i = Len(commQ) + 1)
    BY <1>5, <2>1, <2>2 DEF Asking
  <2>4. \A c \in Conn : \A i :
          i \in Asking(c)' <=> i \in (IF c = s THEN Asking(c) \cup {Len(commQ) + 1} ELSE Asking(c))
    BY <2>3
  <2> QED BY <2>4
<1>9. ASSUME s \in Conn PROVE Unasked(s) /\ Built(s)' = {}
  <2>1. 1 \in Built(s)
    BY <1>1 DEF Built
  <2>2. Built(s)' = {}
    <3>1. \A i \in Built(s)' : i + 1 \in Built(s) /\ i + 1 # 1
      BY <1>6 DEF Built
    <3> QED BY <1>9, <2>1, <3>1 DEF AskedOnce, OnePerConn, AtMostOne
  <2> QED BY <1>9, <2>1, <2>2 DEF AskedOnce, OnePerConn
<1>10. \A c \in Conn : /\ Built(c) = {} => Built(c)' = {}
                       /\ AtMostOne(Built(c)) => AtMostOne(Built(c))'
  <2>1. \A c \in Conn : \A i \in Built(c)' : i \in Nat /\ i + 1 \in Built(c)
    BY <1>6 DEF Built
  <2> QED BY <2>1 DEF AtMostOne
<1>11. OnePerConn'
  <2> SUFFICES ASSUME NEW d \in Conn
               PROVE  /\ AtMostOne(Built(d))' /\ AtMostOne(Asking(d))'
                      /\ AtMostOne(OnWire(d))' /\ AtMostOne(Pending(d))'
                      /\ Built(d)' # {} => Unasked(d)'
                      /\ Asking(d)' # {} => OnWire(d)' = {} /\ Pending(d)' = {} /\ bound' # d
                      /\ OnWire(d)' # {} => Pending(d)' = {} /\ bound' # d
    BY DEF OnePerConn
  <2>1. CASE d = s
    BY <1>4, <1>7, <1>8, <1>9, <1>10, <2>1 DEF AskedOnce, OnePerConn, Unasked, AtMostOne
  <2>2. CASE d # s
    BY <1>4, <1>7, <1>8, <1>10, <2>2 DEF AskedOnce, OnePerConn, Unasked, AtMostOne
  <2> QED BY <2>1, <2>2
<1>12. NewConn'
  <2> SUFFICES ASSUME NEW c \in Conn, run = "built", c = conn
               PROVE  Built(c)' = {} /\ Unasked(c)' /\ serial' # c
    BY <1>4 DEF NewConn
  <2>1. Built(c) = {} /\ Unasked(c) /\ serial # c
    BY DEF AskedOnce, NewConn
  <2>2. c # s
    BY <1>1, <2>1 DEF Built
  <2> QED BY <1>3, <1>4, <1>7, <1>8, <1>10, <2>1, <2>2 DEF Unasked
<1>13. OwnSerial' /\ StoredChecks'
  BY <1>4, <1>7 DEF AskedOnce, OwnSerial, StoredChecks
<1>14. ~NoneBuilt
  BY <1>1 DEF NoneBuilt
<1>15. Asked'
  <2> SUFFICES ASSUME NEW c \in Conn, c = conn
               PROVE  /\ prog = "install" /\ ~(Asking(c) = {} /\ OnWire(c) = {} /\ Pending(c) = {})' =>
                           serial' = c /\ NoneBuilt'
                      /\ \A i \in DOMAIN sent : ~IsCode(sent[i].text)
                      /\ \A i, j \in DOMAIN modQ' :
                           i < j /\ modQ'[i].kind = "BUILDED" /\ modQ'[j].kind = "BUILDED" =>
                             modQ'[i].serial # c
    BY <1>4 DEF Asked
  <2>1. /\ \A i \in DOMAIN sent : ~IsCode(sent[i].text)
        /\ prog = "install" => Asking(c) = {} /\ OnWire(c) = {} /\ Pending(c) = {}
    BY <1>14 DEF AskedOnce, Asked
  <2>2. c = s => NoneBuilt'
    <3>1. ASSUME c = s, NEW i \in DOMAIN modQ', modQ'[i].kind = "BUILDED" PROVE FALSE
      <4>1. i \in Nat /\ i + 1 \in DOMAIN modQ /\ modQ[i + 1].kind = "BUILDED" /\ 1 < i + 1
        BY <1>6, <3>1
      <4> QED BY <1>1, <3>1, <4>1 DEF AskedOnce, Asked
    <3> QED BY <3>1 DEF NoneBuilt
  <2>3. prog = "install" /\ ~(Asking(c) = {} /\ OnWire(c) = {} /\ Pending(c) = {})' => c = s
    BY <1>7, <1>8, <2>1
  <2>4. \A i, j \in DOMAIN modQ' :
          i < j /\ modQ'[i].kind = "BUILDED" /\ modQ'[j].kind = "BUILDED" => modQ'[i].serial # c
    <3>1. \A i, j \in DOMAIN modQ' : i < j => i + 1 < j + 1
      BY <1>6
    <3> QED BY <1>6, <3>1 DEF AskedOnce, Asked
  <2> QED BY <1>3, <2>1, <2>2, <2>3, <2>4
<1>16. CodesFit'
  <2>1. \A i \in DOMAIN modQ' : ~Code(modQ'[i])
    BY <1>1, <1>6 DEF AskedOnce, CodesFit
  <2> QED BY <2>1 DEF CodesFit, Code
<1> QED BY <1>11, <1>12, <1>13, <1>15, <1>16 DEF AskedOnce

LEMMA ModuleAsks ==
  ASSUME TypedClient, AskedOnce, ~late, ModuleHandler
  PROVE  AskedOnce'
<1>1. ModuleStep /\ modQ # <<>> /\ modQ' = Tail(modQ)
  BY PostsOne DEF ModuleStep
<1>2. /\ UNCHANGED <<cs, pend, bound, prog, conn, sent, run>> /\ late' = late
  BY <1>1 DEF ModuleStep, readVars, netVars, chanVars, commVars, srvVars
<1>3. ASSUME UNCHANGED serial, UNCHANGED stored \/ StoredChecks',
             commQ' = commQ \/ \E m \in NoRequest : commQ' = Append(commQ, m)
      PROVE  AskedOnce'
  BY <1>1, <1>2, <1>3, QueuesShrink, RequestsVanish
<1>4. CASE OnChannelBuild /\ bActived
  BY <1>3, <1>4 DEF OnChannelBuild
<1>5. /\ [kind |-> "EXIT"] \in NoRequest
      /\ [kind |-> "ECHO", serial |-> 0] \in NoRequest
  BY Numbers DEF NoRequest, CommMsg
<1>6. CASE OnKeepAlive \/ OnAuthSuc \/ OnRefused \/ OnChannelFreed \/ OnJunk
  BY <1>3, <1>5, <1>6
     DEF OnKeepAlive, OnAuthSuc, OnRefused, OnChannelFreed, OnJunk, modVars
<1>7. CASE OnActived
  <2>1. modQ \in Seq(Notice) /\ Head(modQ) = modQ[1] /\ 1 \in DOMAIN modQ
    <3>1. modQ \in Seq(Notice)
      BY DEF TypedClient, TypedModule
    <3> QED BY <1>1, <3>1
  <2>2. Code(modQ[1])
    BY <1>7, <2>1 DEF OnActived, Told, NoticeIs, Code, IsCode
  <2>3. stored' = <<serial, Head(modQ).text.serial>> /\ Head(modQ).text.serial = serial
    BY <1>7, <2>1, <2>2 DEF OnActived, AskedOnce, CodesFit
  <2>4. StoredChecks'
    BY <2>3 DEF StoredChecks
  <2> QED BY <1>3, <1>5, <1>7, <2>4 DEF OnActived
<1> QED BY <1>4, <1>6, <1>7, BuildAsks DEF ModuleHandler

\* aodc takes a request to the controller: the connection is on the list of
\* those it has asked for, and on the way there is none behind it.
LEMMA TakenAsks ==
  ASSUME TypedClient, AskedOnce, ~late, NEW c \in Conn, ServerRead(c),
         Head(cs[c]) # Junk, Head(cs[c]).kind = "REQUEST",
         ~(prog = "aods" /\ bound # 0)
  PROVE  AskedOnce'
<1> USE DEF chanVars, commVars, modVars, netVars
<1>1. cs \in [Conn -> Seq(WireItem)] /\ pend \in Seq([conn : Conn, serial : Number])
  BY DEF TypedClient, TypedAodc, WireItem
<1>2. /\ cs[c] # <<>> /\ Head(cs[c]) # Rest /\ cs' = [cs EXCEPT ![c] = Tail(cs[c])]
      /\ UNCHANGED <<commQ, modQ, serial, stored, prog, conn, run, late>>
  BY DEF ServerRead, Takes
<1>3. /\ bound' \in {c, bound} /\ UNCHANGED sent
      /\ pend' = Append(pend, [conn |-> c, serial |-> Head(cs[c]).serial])
  BY DEF ServerRead, Request
<1>4. /\ 1 \in DOMAIN cs[c] /\ Head(cs[c]) = cs[c][1]
      /\ \A i \in DOMAIN cs'[c] : i \in Nat /\ i + 1 \in DOMAIN cs[c] /\ i + 1 # 1
                                  /\ cs'[c][i] = cs[c][i + 1]
  <2>1. PICK q \in Seq(WireItem) : q = cs[c]
    BY <1>1
  <2>2. q # <<>> /\ cs'[c] = Tail(q)
    BY <1>1, <1>2, <2>1
  <2>3. /\ 1 \in DOMAIN q /\ Head(q) = q[1]
        /\ \A i \in DOMAIN Tail(q) : i \in Nat /\ i + 1 \in DOMAIN q /\ i + 1 # 1
                                     /\ Tail(q)[i] = q[i + 1]
    BY <2>2
  <2> QED BY <2>1, <2>2, <2>3
<1>5. \A d \in Conn : d # c => cs'[d] = cs[d]
  BY <1>1, <1>2
<1>6. 1 \in OnWire(c)
  BY <1>2, <1>4 DEF OnWire
<1>7. Head(cs[c]).serial = c
  BY <1>4, <1>6 DEF AskedOnce, OwnSerial
<1>8. /\ Built(c) = {} /\ Asking(c) = {} /\ Pending(c) = {} /\ bound # c
      /\ run = "built" => c # conn
  BY <1>6 DEF AskedOnce, OnePerConn, NewConn, Unasked
<1>9. OnWire(c)' = {} /\ \A d \in Conn : d # c => OnWire(d)' = OnWire(d)
  <2>1. \A i \in OnWire(c)' : i + 1 \in OnWire(c) /\ i + 1 # 1
    BY <1>4 DEF OnWire
  <2>2. \A d \in Conn : d # c => OnWire(d)' = OnWire(d)
    BY <1>5 DEF OnWire
  <2> QED BY <1>6, <2>1, <2>2 DEF AskedOnce, OnePerConn, AtMostOne
<1>10. \A d \in Conn : Built(d)' = Built(d) /\ Asking(d)' = Asking(d)
  BY <1>2 DEF Built, Asking
<1>11. PICK q : q = [conn |-> c, serial |-> c]
  OBVIOUS
<1>12. \A i \in DOMAIN pend' : \/ i \in DOMAIN pend /\ pend'[i] = pend[i]
                               \/ i = Len(pend) + 1 /\ pend'[i] = q
  BY <1>1, <1>3, <1>7, <1>11
<1>13. \A i \in DOMAIN pend : i \in DOMAIN pend' /\ pend'[i] = pend[i]
  BY <1>1, <1>3, <1>7, <1>11
<1>14. q.conn = c /\ q.serial = c
  BY <1>11
<1>15. /\ \A d \in Conn : d # c => Pending(d)' = Pending(d)
       /\ AtMostOne(Pending(c))'
  <2>1. \A d \in Conn : d # c => \A i : i \in Pending(d)' <=> i \in Pending(d)
    BY <1>12, <1>13, <1>14 DEF Pending
  <2>2. \A i \in Pending(c)' : i = Len(pend) + 1
    BY <1>8, <1>12, <1>13, <1>14 DEF Pending
  <2> QED BY <2>1, <2>2 DEF AtMostOne
<1>16. OnePerConn'
  <2> SUFFICES ASSUME NEW d \in Conn
               PROVE  /\ AtMostOne(Built(d))' /\ AtMostOne(Asking(d))'
                      /\ AtMostOne(OnWire(d))' /\ AtMostOne(Pending(d))'
                      /\ Built(d)' # {} => Unasked(d)'
                      /\ Asking(d)' # {} => OnWire(d)' = {} /\ Pending(d)' = {} /\ bound' # d
                      /\ OnWire(d)' # {} => Pending(d)' = {} /\ bound' # d
    BY DEF OnePerConn
  <2>1. CASE d = c
    BY <1>8, <1>9, <1>10, <1>15, <2>1 DEF AtMostOne
  <2>2. CASE d # c
    BY <1>3, <1>9, <1>10, <1>15, <2>2 DEF AskedOnce, OnePerConn, Unasked, AtMostOne
  <2> QED BY <2>1, <2>2
<1>17. NewConn'
  <2> SUFFICES ASSUME NEW d \in Conn, run = "built", d = conn
               PROVE  Built(d)' = {} /\ Unasked(d)' /\ serial # d
    BY <1>2 DEF NewConn
  <2>1. d # c
    BY <1>8
  <2> QED BY <1>3, <1>9, <1>10, <1>15, <2>1 DEF AskedOnce, NewConn, Unasked
<1>18. OwnSerial'
  <2>1. \A d \in Conn : \A i \in OnWire(d)' : cs'[d][i].serial = d
    BY <1>5, <1>9 DEF AskedOnce, OwnSerial
  <2>2. \A i \in DOMAIN pend' : pend'[i].serial = pend'[i].conn
    BY <1>12, <1>14 DEF AskedOnce, OwnSerial
  <2> QED BY <2>1, <2>2 DEF OwnSerial
<1>19. Asked'
  <2>1. NoneBuilt' = NoneBuilt
    BY <1>2 DEF NoneBuilt
  <2>2. \A d \in Conn : (Asking(d) = {} /\ OnWire(d) = {} /\ Pending(d) = {}) =>
                          (Asking(d) = {} /\ OnWire(d) = {} /\ Pending(d) = {})'
    BY <1>6, <1>9, <1>10, <1>15
  <2> QED BY <1>2, <1>3, <2>1, <2>2 DEF AskedOnce, Asked
<1>20. CodesFit' /\ StoredChecks'
  BY <1>2 DEF AskedOnce, CodesFit, Code, StoredChecks
<1> QED BY <1>16, <1>17, <1>18, <1>19, <1>20 DEF AskedOnce

\* The controller's answer: a code is the one for the connection it goes to,
\* which is the one of the moment and the last the module has asked on.
LEMMA AnswerAsks ==
  ASSUME TypedClient, ChannelInv, AskedOnce, ~late, Answer
  PROVE  AskedOnce'
<1> USE DEF chanVars, commVars, modVars, netVars
<1>1. /\ UNCHANGED <<commQ, cs, modQ, bound, serial, stored, prog, conn, run, late>>
      /\ pend # <<>> /\ pend' = Tail(pend)
  BY DEF Answer
<1>2. pend \in Seq([conn : Conn, serial : Number]) /\ prog \in {"aods", "install"}
  BY ClientAssumption DEF TypedClient, TypedAodc, TypedMachine
<1>3. 1 \in DOMAIN pend /\ Head(pend) = pend[1]
  BY <1>1, <1>2
<1>4. sent \in Seq(Frame)
  BY DEF ChannelInv, StreamInv, ReadTypeOK
<1> DEFINE code == [kind |-> "CODE", serial |-> Head(pend).serial]
<1>5. \/ UNCHANGED sent
      \/ \E t : SendFrame(t) /\ ~IsCode(t)
      \/ prog = "install" /\ conn # 0 /\ Head(pend).conn = conn /\ SendFrame(code)
  <2>1. verdict \in {"SUC", "FAI"}
    BY ClientAssumption DEF TypedClient, TypedMachine
  <2>2. ~IsCode([kind |-> verdict, serial |-> 0])
    BY <2>1 DEF IsCode
  <2> QED BY <1>2, <2>2 DEF Answer
<1>6. \A i \in DOMAIN sent' :
        \/ i \in DOMAIN sent /\ sent'[i] = sent[i]
        \/ ~IsCode(sent'[i].text)
        \/ \A c \in Conn : c = conn' => serial = c /\ NoneBuilt /\ sent'[i].text.serial = c
  <2>1. CASE UNCHANGED sent
    BY <2>1
  <2>2. ASSUME NEW t, SendFrame(t) PROVE \A i \in DOMAIN sent' :
          \/ i \in DOMAIN sent /\ sent'[i] = sent[i]
          \/ sent'[i].text = t
    <3> DEFINE f == [text |-> t, at |-> Total]
    <3>1. sent' = Append(sent, f) /\ f.text = t
      BY <2>2 DEF SendFrame
    <3> HIDE DEF f
    <3> QED BY <1>4, <3>1
  <2>3. ASSUME prog = "install", conn # 0, Head(pend).conn = conn, SendFrame(code),
               NEW c \in Conn, c = conn
        PROVE  serial = c /\ NoneBuilt /\ code.serial = c
    <3>1. 1 \in Pending(c)
      BY <1>3, <2>3 DEF Pending
    <3>2. pend[1].serial = c
      BY <1>3, <2>3 DEF AskedOnce, OwnSerial
    <3> QED BY <1>3, <2>3, <3>1, <3>2 DEF AskedOnce, Asked
  <2> HIDE DEF code
  <2> QED BY <1>1, <1>5, <2>1, <2>2, <2>3
<1> QED BY <1>1, <1>6, QueuesShrink, RequestsVanish

\* aodc, the network and the time-out: besides, requests are only lost.
LEMMA AodcAsks ==
  ASSUME TypedClient, ChannelInv, AskedOnce, ~late, ~late',
         AodcStep \/ Break \/ RecvTimeout \/ UNCHANGED vars
  PROVE  AskedOnce'
<1> USE DEF chanVars, commVars, modVars, srvVars, netVars, readVars
<1>1. UNCHANGED <<commQ, modQ, serial, stored, prog, conn, run>>
  BY DEF AodcStep, ServerRead, ServerMisreads, Takes, ServerSeesEnd, Answer, Probe, Release,
         Break, RecvTimeout, vars
<1>2. CASE Answer
  BY <1>2, AnswerAsks
<1>3. ASSUME ~Answer, \A c \in Conn : Shrunk(cs[c], cs'[c], Unread), UNCHANGED pend,
             bound' \in {bound, 0}
      PROVE  AskedOnce'
  BY <1>1, <1>3, SentGrows, QueuesShrink, RequestsVanish
<1>4. ASSUME ~Answer, NEW c \in Conn, ServerRead(c) \/ ServerMisreads(c) \/ ServerSeesEnd(c)
      PROVE  AskedOnce'
  <2>1. \E t : cs' = [cs EXCEPT ![c] = t] /\ Shrunk(cs[c], t, Unread)
    <3>1. cs[c] \in Seq(WireItem)
      BY WireEnds
    <3>2. cs' = [cs EXCEPT ![c] = <<>>] \/ (cs[c] # <<>> /\ cs' = [cs EXCEPT ![c] = Tail(cs[c])])
      BY <1>4 DEF ServerRead, ServerMisreads, ServerSeesEnd, Takes
    <3> QED BY <3>1, <3>2, Shrinking
  <2>2. \A d \in Conn : Shrunk(cs[d], cs'[d], Unread)
    BY <2>1, OneWireShrinks
  <2>3. UNCHANGED <<pend, bound>> \/ (/\ ServerRead(c) /\ ~(prog = "aods" /\ bound # 0)
                                      /\ Head(cs[c]) # Junk /\ Head(cs[c]).kind = "REQUEST")
    BY <1>4 DEF ServerRead, ServerMisreads, ServerSeesEnd, Request
  <2> QED BY <1>3, <1>4, <2>2, <2>3, TakenAsks
<1>5. CASE (Probe \/ Release \/ RecvTimeout \/ UNCHANGED vars) /\ ~Answer
  <2>1. UNCHANGED <<cs, pend>> /\ bound' \in {bound, 0}
    BY <1>5 DEF Probe, Release, RecvTimeout, vars
  <2> QED BY <1>3, <1>5, <2>1, QueuesShrink
<1>6. CASE Break /\ ~Answer
  <2>1. UNCHANGED <<pend, bound>> /\ conn # 0
    BY <1>6 DEF Break
  <2>2. PICK c \in Conn : c = conn
    BY <2>1 DEF TypedClient, TypedMachine, Number
  <2>3. PICK n \in 0 .. Len(cs[c]) : cs' = [cs EXCEPT ![c] = SubSeq(cs[c], 1, n)]
    BY <1>6, <2>2 DEF Break
  <2>4. Shrunk(cs[c], SubSeq(cs[c], 1, n), Unread)
    BY WireEnds, Shrinking
  <2> QED BY <1>3, <1>6, <2>1, <2>3, <2>4, OneWireShrinks
<1> QED BY <1>2, <1>4, <1>5, <1>6 DEF AodcStep
-----------------------------------------------------------------------------
LEMMA InitAsks == ClientInit => AskInv
<1> SUFFICES ASSUME ClientInit PROVE AskInv
  OBVIOUS
<1>1. /\ commQ = <<>> /\ modQ = <<>> /\ pend = <<>> /\ cs = [c \in Conn |-> <<>>] /\ bound = 0
      /\ sent = <<>> /\ run = "next" /\ conn = 0 /\ serial = 0 /\ stored = <<>> /\ comm = "idle"
  BY DEF ClientInit, ReadInit
<1>2. \A c \in Conn : Built(c) = {} /\ Asking(c) = {} /\ OnWire(c) = {} /\ Pending(c) = {}
  BY <1>1 DEF Built, Asking, OnWire, Pending
<1>3. Sending
  BY <1>1 DEF Sending, Reading
<1>4. OnePerConn
  BY <1>1, <1>2, Numbers DEF OnePerConn, AtMostOne, Unasked
<1>5. NewConn /\ OwnSerial /\ Asked /\ CodesFit /\ StoredChecks
  BY <1>1, <1>2, Numbers DEF NewConn, OwnSerial, Asked, CodesFit, StoredChecks
<1> QED BY <1>3, <1>4, <1>5 DEF AskInv, AskedOnce

\* Once a request has gone astray, nothing is claimed any more: late stays.
LEMMA LateStays ==
  ASSUME [ClientNext]_vars, late
  PROVE  late'
<1> USE DEF chanVars, commVars, modVars, srvVars
<1>1. CASE RunThread
  BY <1>1 DEF RunThread, TryNext, Connect, ConnectFails, OnBuiled, ReadStep, Announce,
              OnFreed, RunEnds
<1>2. CASE CommThread
  <2>1. CASE SendAll \/ SendRest
    <3>1. Sent
      BY <2>1 DEF SendAll, SendRest
    <3> QED BY <3>1, Zenon DEF Sent
  <2>2. CASE ~(SendAll \/ SendRest)
    <3>1. UNCHANGED late
      BY <1>2, <2>2 DEF CommThread, TakeSend, EncodeMsg, SendPart, SendFails, OnSendDataFailed,
                        OnStop, Join
    <3> QED BY <3>1
  <2> QED BY <2>1, <2>2
<1>3. CASE ModuleHandler
  <2>1. UNCHANGED late
    BY <1>3 DEF ModuleHandler, OnChannelBuild, OnKeepAlive, OnAuthSuc, OnRefused, OnActived,
                OnChannelFreed, OnJunk, ModuleStep
  <2> QED BY <2>1
<1>4. CASE AodcStep \/ Break \/ RecvTimeout \/ UNCHANGED vars
  <2>1. UNCHANGED late
    BY <1>4 DEF AodcStep, ServerRead, ServerMisreads, Takes, ServerSeesEnd, Answer, Probe,
                Release, Break, RecvTimeout, vars
  <2> QED BY <2>1
<1> QED BY <1>1, <1>2, <1>3, <1>4 DEF ClientNext

LEMMA StepAsks ==
  ASSUME TypedClient, ChannelInv, AskInv, [ClientNext]_vars
  PROVE  AskInv'
<1>1. Sending'
  BY SendingKept DEF AskInv
<1>2. ASSUME ~late' PROVE AskedOnce'
  <2>1. ~late /\ AskedOnce /\ Sending
    BY <1>2, LateStays DEF AskInv
  <2>2. CASE RunThread
    BY <1>2, <2>1, <2>2, RunThreadAsks
  <2>3. CASE CommThread
    BY <1>2, <2>1, <2>3, CommThreadAsks
  <2>4. CASE ModuleHandler
    BY <2>1, <2>4, ModuleAsks
  <2>5. CASE AodcStep \/ Break \/ RecvTimeout \/ UNCHANGED vars
    BY <1>2, <2>1, <2>5, AodcAsks
  <2> QED BY <2>2, <2>3, <2>4, <2>5 DEF ClientNext
<1> QED BY <1>1, <1>2 DEF AskInv

\* The order of the requests, in every state.
THEOREM RequestsInOrder == ClientSpec => [](TypedClient /\ ChannelInv /\ AskInv)
<1>1. ClientInit => TypedClient /\ ChannelInv /\ AskInv
  BY InitHolds, InitAsks
<1>2. TypedClient /\ ChannelInv /\ AskInv /\ [ClientNext]_vars =>
        (TypedClient /\ ChannelInv /\ AskInv)'
  BY StepHolds, StepAsks
<1> QED BY <1>1, <1>2, PTL DEF ClientSpec

\* What install stores belongs together (StoredChecks): the code SaveActive
\* writes is the one for the serial it writes with it, however often the channel
\* had to connect, for every number of connections, addresses and failures.
THEOREM StoredTogether == ClientSpec => []StoredChecks
<1>1. TypedClient /\ ChannelInv /\ AskInv => StoredChecks
  BY DEF AskInv, AskedOnce, StoredChecks
<1> QED BY <1>1, RequestsInOrder, PTL

LEMMA OneAtMost ==
  ASSUME NEW S, AtMostOne(S)
  PROVE  IF S = {} THEN Cardinality(S) = 0 ELSE Cardinality(S) = 1
<1>1. CASE S = {}
  BY <1>1, FS_EmptySet
<1>2. CASE S # {}
  <2>1. PICK x : S = {x}
    BY <1>2 DEF AtMostOne
  <2> QED BY <1>2, <2>1, FS_Singleton
<1> QED BY <1>1, <1>2

\* A machine asks once per connection (AsksOnce): as long as no request has been
\* sent on another connection than its own, aodc never finds two of one, and so
\* never frees a machine's only connection as that of a clone.
THEOREM AskedOnceAlways == ClientSpec => []AsksOnce
<1>1. TypedClient /\ ChannelInv /\ AskInv => AsksOnce
  <2> SUFFICES ASSUME AskInv, ~late, NEW c \in Conn
               PROVE  RequestsOf(c) <= 1
    BY DEF AsksOnce
  <2>1. /\ AtMostOne(Asking(c)) /\ AtMostOne(OnWire(c)) /\ AtMostOne(Pending(c))
        /\ Asking(c) # {} => OnWire(c) = {} /\ Pending(c) = {} /\ bound # c
        /\ OnWire(c) # {} => Pending(c) = {} /\ bound # c
    BY DEF AskInv, AskedOnce, OnePerConn
  <2>2. /\ IF Asking(c) = {} THEN Cardinality(Asking(c)) = 0 ELSE Cardinality(Asking(c)) = 1
        /\ IF OnWire(c) = {} THEN Cardinality(OnWire(c)) = 0 ELSE Cardinality(OnWire(c)) = 1
        /\ IF Pending(c) = {} THEN Cardinality(Pending(c)) = 0 ELSE Cardinality(Pending(c)) = 1
    BY <2>1, OneAtMost
  <2> QED BY <2>1, <2>2 DEF RequestsOf
<1> QED BY <1>1, RequestsInOrder, PTL
=============================================================================
