--------------------------- MODULE AoSockChannel ---------------------------
(***************************************************************************)
(* The receiving half of the client's channel to aodc: the reading thread  *)
(* (util/AoSockChannel.cpp, ReadData), the decoder that cuts the stream of *)
(* a connection into frames (util/AoCommuProtocol.cpp over                 *)
(* util/AoMemCache.cpp) and the announcing of each frame to the modules    *)
(* (util/AoChannel.cpp, SendOutMsg).                                       *)
(*                                                                         *)
(* Bytes are counted, not spelled out.  The stream of a connection is what *)
(* aodc has sent on it: its frames, each with the position at which it     *)
(* begins.  The decoder holds `old` bytes of earlier connections, followed *)
(* by the bytes of this connection from position lo up to hi.              *)
(*                                                                         *)
(* The channel object lives as long as the process.  Its decoder is never  *)
(* reset, its cipher (m_ae) serves the reading thread and the sending      *)
(* thread, and so does the buffer announcements are put together in        *)
(* (m_pucTempBuf).                                                         *)
(***************************************************************************)
EXTENDS AoEncrypt, Sequences

CONSTANTS
  Text,    \* what frames say, records with a field kind
  Kind,    \* their kinds
  LenOf,   \* LenOf[k]: length of a frame of kind k, its header included
  ByteOf,  \* ByteOf[k]: a byte of what it says
  HeadLen, \* EN_AO_MSG_SIZE
  MaxLen,  \* bound: longest length a misread header tells, EN_MAX_PROTOCOL_LEN
  Junk     \* what is read out of place

ASSUME ChannelAssumption ==
  /\ HeadLen \in Nat \ {0}
  /\ MaxLen \in Nat
  /\ LenOf \in [Kind -> HeadLen + 1 .. MaxLen]
  /\ ByteOf \in [Kind -> Byte]
  /\ \A t \in Text : t.kind \in Kind
  /\ Junk \notin Text

VARIABLES
  sent,   \* frames aodc has sent on the current connection
  w,      \* length of what arrives of them
  hi,     \* length of what has been received
  lo,     \* position of the first byte of this connection in the decoder
  old,    \* bytes of earlier connections in the decoder
  told,   \* length told by a front header that is not one of this connection:
          \* 0 not read yet, Bad out of range
  run,    \* where the thread of the channel is
  aeKey,  \* key of m_ae
  frKey,  \* key of the frame being decoded, NoKey when there is none
  tmp,    \* m_pucTempBuf
  got,    \* history: what was announced of this connection
  fresh   \* history: the decoder was empty when it was built

cacheVars == <<lo, old, told, frKey>>
netVars == <<sent, w>>
readVars == <<netVars, hi, cacheVars, run, aeKey, tmp, got, fresh>>

Bad == -1
NoKey == -1

Frame == [text : Text, at : Nat]

End(f) == f.at + LenOf[f.text.kind]

\* Length of all that was sent.
Total == IF sent = <<>> THEN 0 ELSE End(sent[Len(sent)])

Reading == {"recv", "parse", "decode", "post"}

ReadTypeOK ==
  /\ sent \in Seq(Frame)
  /\ w \in Nat /\ hi \in Nat /\ lo \in Nat
  /\ old \in Nat
  /\ told \in {Bad, 0} \cup (HeadLen .. MaxLen)
  /\ run \in Reading \cup {"next", "connect", "built", "freed", "ended"}
  /\ aeKey \in Key /\ frKey \in Key \cup {NoKey}
  /\ tmp \in Text \cup {Junk}
  /\ got \in Seq(Text \cup {Junk})
  /\ fresh \in BOOLEAN

ReadInit ==
  /\ sent = <<>> /\ w = 0 /\ hi = 0
  /\ lo = 0 /\ old = 0 /\ told = 0
  /\ run = "next"
  /\ aeKey \in Key /\ frKey = NoKey
  /\ tmp = Junk
  /\ got = <<>> /\ fresh = TRUE
-----------------------------------------------------------------------------
(* The decoder.                                                            *)

\* CurDataLen().
Buffered == old + hi - lo

\* The frame that begins where the decoder's bytes of this connection begin.
AtFront == {i \in DOMAIN sent : sent[i].at = lo}

\* The decoder begins with a frame of this connection.
Aligned == old = 0 /\ AtFront # {}

FrontFrame == sent[CHOOSE i \in AtFront : TRUE]

\* The length the front header tells.  Out of place it may be any, and stays
\* the same as long as the header is the front one.
Lengths ==
  IF Aligned THEN {LenOf[FrontFrame.text.kind]}
  ELSE IF told # 0 THEN {told}
  ELSE {Bad} \cup (HeadLen .. MaxLen)

\* CAoMemCache::RemoveData(0, n).
RemoveData(n) ==
  /\ IF n <= old THEN old' = old - n /\ lo' = lo
     ELSE old' = 0 /\ lo' = lo + n - old
  /\ told' = 0

\* SetKey with the key in the header of the front frame.  Keys are drawn when
\* frames are encoded; as nothing tells them apart before, here.
SetFrameKey == aeKey' \in Key /\ frKey' = aeKey'

\* What decoding with the key of the moment makes of a frame.
Decoded(f) ==
  LET b == ByteOf[f.text.kind]
  IN  IF Decode(aeKey, Encode(frKey, b)) = b THEN f.text ELSE Junk
-----------------------------------------------------------------------------
(* ReadData.                                                               *)

\* Recv, and AppendDecodeData.
Recv ==
  /\ run = "recv"
  /\ \E n \in hi + 1 .. w : hi' = n
  /\ run' = "parse"
  /\ UNCHANGED <<netVars, cacheVars, aeKey, tmp, got, fresh>>

\* Mutant of GetContent: a frame is taken as soon as its header is there.
GetContentEarly ==
  /\ run = "parse"
  /\ IF Buffered < HeadLen THEN run' = "recv" /\ UNCHANGED <<told, aeKey, frKey>>
     ELSE \E n \in Lengths :
            /\ told' = IF Aligned THEN 0 ELSE n
            /\ IF n = Bad THEN run' = "recv" /\ UNCHANGED <<aeKey, frKey>>
               ELSE run' = "decode" /\ SetFrameKey
  /\ UNCHANGED <<netVars, hi, lo, old, tmp, got, fresh>>

\* GetContent up to SetKey.  A length out of range is reported as an error
\* that nobody looks at: the header stays in front, and the next data are
\* appended behind it.
GetContent ==
  /\ run = "parse"
  /\ IF Buffered < HeadLen THEN run' = "recv" /\ UNCHANGED <<told, aeKey, frKey>>
     ELSE \E n \in Lengths :
            /\ told' = IF Aligned THEN 0 ELSE n
            /\ IF n = Bad \/ n > Buffered
               THEN run' = "recv" /\ UNCHANGED <<aeKey, frKey>>
               ELSE run' = "decode" /\ SetFrameKey
  /\ UNCHANGED <<netVars, hi, lo, old, tmp, got, fresh>>

\* Its Decode, and OnRecvedData up to the copy in m_pucTempBuf.
DecodeContent ==
  /\ run = "decode"
  /\ tmp' = IF Aligned THEN Decoded(FrontFrame) ELSE Junk
  /\ frKey' = NoKey
  /\ run' = "post"
  /\ UNCHANGED <<netVars, hi, lo, old, told, aeKey, got, fresh>>

\* Mutant of PostContent: a byte of the frame stays in the decoder.
PostContentShort ==
  /\ run = "post"
  /\ got' = Append(got, tmp)
  /\ \E n \in Lengths : RemoveData(n - 1)
  /\ run' = "parse"
  /\ UNCHANGED <<netVars, hi, frKey, aeKey, tmp, fresh>>

\* The rest of OnRecvedData, and MoveNext.
PostContent ==
  /\ run = "post"
  /\ got' = Append(got, tmp)
  /\ \E n \in Lengths : RemoveData(n)
  /\ run' = "parse"
  /\ UNCHANGED <<netVars, hi, frKey, aeKey, tmp, fresh>>
-----------------------------------------------------------------------------
(* What the rest of the system does to the stream and the decoder.         *)

\* aodc sends a frame on the connection.
SendFrame(t) ==
  /\ sent' = Append(sent, [text |-> t, at |-> Total])
  /\ w' = Total + LenOf[t.kind]

\* The connection breaks: of what was not received, some never arrives.
CutStream == w' \in hi .. w /\ UNCHANGED sent

\* A connection is built.  The decoder keeps what it holds.
NewStream ==
  /\ sent' = <<>> /\ w' = 0 /\ hi' = 0 /\ lo' = 0
  /\ got' = <<>>
  /\ old' = IF told = Bad THEN HeadLen ELSE Buffered
  /\ told' = IF Aligned /\ Buffered >= HeadLen
             THEN LenOf[FrontFrame.text.kind] ELSE told
  /\ fresh' = (Buffered = 0)
  /\ UNCHANGED <<frKey, aeKey, tmp>>
=============================================================================
