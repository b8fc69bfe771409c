------------------------- MODULE StreamServerProofs -------------------------
(***************************************************************************)
(* What the clients of a server see: theorems about StreamServer, for any   *)
(* clients, any stored GOPs, any course of the store and any bounds.        *)
(***************************************************************************)
EXTENDS StreamServer, FrameCodecProofs

Write_ == [session : Nat, item : Nat, part : Nat]

\* The counters are numbers within their bounds, and whoever is served is of a
\* session.
Counters ==
    /\ kind \in {"json", "video"}
    /\ published \in 1 .. MAX_ITEMS
    /\ next \in 1 .. published
    /\ item \in 0 .. MAX_ITEMS
    /\ part \in Nat
    /\ session \in Nat
    /\ misread \subseteq 1 .. session
    /\ pc \in {"handshake", "fetch", "write", "shutdown"} => session >= 1
    /\ client \in Clients /\ queue \in Seq(Clients)
    /\ link \in [Clients -> {"away", "waiting", "served", "gone"}]
    /\ out \in Seq(Write_)

Last == out[Len(out)]

\* The last item written, if it was to the client being served, is the one before
\* the next, and the client has all of it.
Complete(i) == Last.item = i - 1 /\ Last.part = Writes(i - 1)

\* Where the server is between two items, or in one.  Until something is misread
\* it only goes forward.
Course ==
    /\ out # <<>> => Last.session <= session
    /\ pc = "handshake" /\ out # <<>> => Last.session < session
    /\ misread = {} => item < next /\ (out # <<>> => Last.item < next)
    /\ pc = "write" /\ item > 0 =>
          IF part = 0 THEN misread = {} /\ out # <<>> => Last.item < item
          ELSE link[client] = "served" =>
                  out # <<>> /\ Last = [session |-> session, item |-> item, part |-> part]
    /\ pc = "write" /\ item > 0 /\ session \notin misread =>
          next = item + 1 /\ Len(buffers) = Writes(item)
    /\ Serving /\ link[client] = "served" /\ session \notin misread
       /\ out # <<>> /\ Last.session = session =>
          IF pc = "write" /\ item > 0 THEN part = 0 => Complete(item) ELSE Complete(next)

RunInv == Counters /\ Course /\ EachClientSeesARun

(***************************************************************************)
(* Lemmas about what is written.                                           *)
(***************************************************************************)

\* The video server makes one write of each frame, its bytes.
LEMMA FrameBuffersTyped ==
    ASSUME NEW gop \in Seq(Frame)
    PROVE  /\ FrameBuffers(gop) \in Seq(Seq(Byte)) /\ Len(FrameBuffers(gop)) = Len(gop)
           /\ FrameBuffers(gop) = <<>> => Len(gop) = 0
           /\ \A k \in 1 .. Len(gop) : FrameBuffers(gop)[k] = SerializeFrame(gop[k])
<1>. DEFINE n == Len(gop)
            S == Seq(Byte)
<1>1. n \in Nat /\ DOMAIN gop = 1 .. n
  BY LenProperties
<1>2. \A k \in 1 .. n : SerializeFrame(gop[k]) \in S
  BY ElementOfSeq, FrameBytes
<1>3. FrameBuffers(gop) = [k \in 1 .. n |-> SerializeFrame(gop[k])]
  BY <1>1 DEF FrameBuffers
<1>. HIDE DEF n, S
<1>4. FrameBuffers(gop) \in [1 .. n -> S]
  BY <1>2, <1>3
<1>5. FrameBuffers(gop) \in Seq(S) /\ Len(FrameBuffers(gop)) = n
  BY <1>1, <1>4
<1>. QED BY <1>1, <1>3, <1>5 DEF n, S

\* The json server's are letters and '|'s.
LEMMA MessageTyped ==
    ASSUME NEW i \in 0 .. MAX_ITEMS
    PROVE  Message(i) \in Seq(Letters)
<1>1. Letter(i) \in Letters /\ Delimiter(i) \in Letters
  BY DEF Letter, Delimiter, Letters
<1>2. Text(i) \in Seq(Letters) /\ <<Delimiter(i)>> \in Seq(Letters)
  BY <1>1 DEF Text
<1>. QED BY <1>2, ConcatProperties DEF Message

\* A header that was not set is a header.
LEMMA UnsetTyped == NoHeader \in HeaderStruct /\ UnsetHeaders \subseteq HeaderStruct
<1>1. 0 \in UInt /\ 0 \in Byte /\ 1 \in Byte
  <2>1. BYTE \in Nat /\ BYTE >= 2
    BY ByteAssumption
  <2>2. \A x \in Nat : x >= 2 => x * x >= 1
    OBVIOUS
  <2>. QED BY <2>1, <2>2 DEF UInt, Byte
<1>. QED BY <1>1 DEF NoHeader, UnsetHeaders, HeaderStruct, TRUE_FLAG

\* GetNextData finds in the bytes of a stored GOP the frames that were saved.
LEMMA StoredReadBack == ReadsBack
<1>. SUFFICES ASSUME NEW i \in 1 .. MAX_ITEMS PROVE GopRead[i] = StoredGops[i]
  BY DEF ReadsBack
<1>. DEFINE gop == StoredGops[i]
<1>1. gop \in Seq(Frame)
  BY ServerAssumption
<1>2. \A n \in 1 .. Len(gop) : Whole(gop[n])
  <2>1. DOMAIN gop = 1 .. Len(gop)
    BY <1>1, LenProperties
  <2>2. \A n \in 1 .. Len(gop) : gop[n] \in Frame
    BY <1>1, ElementOfSeq
  <2>3. \A n \in DOMAIN gop : gop[n].header.bodySize = Len(gop[n].body)
    BY ServerAssumption
  <2>. HIDE DEF gop
  <2>. QED BY <2>1, <2>2, <2>3 DEF Whole
<1>. HIDE DEF gop
<1>3. FramesIn(SerializeGop(gop), NoHeader) = gop
  BY <1>1, <1>2, UnsetTyped, GopRoundTrip
<1>. QED BY <1>3 DEF GopRead, gop

\* Misread bytes are those of two items.
LEMMA MisreadBytesTyped ==
    ASSUME NEW S, NEW raw \in Seq(S), NEW other \in Seq(S), NEW b \in MisreadBytes(raw, other)
    PROVE  b \in Seq(S)
<1>1. Len(raw) \in Nat /\ DOMAIN raw = 1 .. Len(raw) /\ \A k \in 1 .. Len(raw) : raw[k] \in S
  BY LenProperties, ElementOfSeq
<1>2. /\ Len(other) \in Nat /\ DOMAIN other = 1 .. Len(other)
      /\ \A k \in 1 .. Len(other) : other[k] \in S
  BY LenProperties, ElementOfSeq
<1>3. ASSUME NEW n \in 0 .. Len(raw) PROVE SubSeq(raw, 1, n) \in Seq(S)
  <2>1. \A k \in 1 .. n : raw[k] \in S
    BY <1>1
  <2>. QED BY <2>1, SubSeqProperties
<1>4. ASSUME NEW n \in DOMAIN raw \cap DOMAIN other PROVE Overwritten(raw, other, n) \in Seq(S)
  <2>1. \A k \in 1 .. Len(raw) : (IF k <= n THEN other[k] ELSE raw[k]) \in S
    BY <1>1, <1>2
  <2>2. Overwritten(raw, other, n) = [k \in 1 .. Len(raw) |-> IF k <= n THEN other[k] ELSE raw[k]]
    BY <1>1 DEF Overwritten
  <2>. DEFINE len == Len(raw)
  <2>. HIDE DEF len
  <2>3. Overwritten(raw, other, n) \in [1 .. len -> S]
    BY <2>1, <2>2 DEF len
  <2>. QED BY <1>1, <2>3 DEF len
<1>5. \/ b \in {SubSeq(raw, 1, n) : n \in 0 .. Len(raw)}
      \/ b \in {Overwritten(raw, other, n) : n \in DOMAIN raw \cap DOMAIN other}
  BY DEF MisreadBytes
<1>6. CASE b \in {SubSeq(raw, 1, n) : n \in 0 .. Len(raw)}
  BY <1>3, <1>6
<1>7. CASE b \in {Overwritten(raw, other, n) : n \in DOMAIN raw \cap DOMAIN other}
  BY <1>4, <1>7
<1>. QED BY <1>5, <1>6, <1>7

\* What comes of the misread bytes of GOPs are frames all the same.
LEMMA MisreadTyped ==
    ASSUME NEW i \in 1 .. MAX_ITEMS, NEW j \in 1 .. MAX_ITEMS, NEW gop \in MisreadGops[i][j]
    PROVE  gop \in Seq(Frame)
<1>1. SerializeGop(StoredGops[i]) \in Seq(Byte) /\ SerializeGop(StoredGops[j]) \in Seq(Byte)
  BY ServerAssumption, GopBytes
<1>. DEFINE bytes == MisreadBytes(SerializeGop(StoredGops[i]), SerializeGop(StoredGops[j]))
<1>2. \A b \in bytes : b \in Seq(Byte)
  BY <1>1, MisreadBytesTyped
<1>3. gop \in {FramesIn(b, unset) : b \in bytes, unset \in UnsetHeaders}
  BY DEF MisreadGops
<1>. HIDE DEF bytes
<1>4. PICK b \in bytes, unset \in UnsetHeaders : gop = FramesIn(b, unset)
  BY <1>3
<1>. QED BY <1>2, <1>4, UnsetTyped, FramesFound

\* The items GetNextData may come upon are within the bound.
LEMMA InFileTyped ==
    ASSUME Counters
    PROVE  InFile \subseteq 1 .. MAX_ITEMS
BY ServerAssumption DEF Counters, InFile

\* What is misread for a client of the json server is text and a '|'.
LEMMA JsonMisread ==
    ASSUME Counters, MisreadJson
    PROVE  /\ kind = "json"
           /\ \E i \in 1 .. MAX_ITEMS, bufs \in Seq(Seq(Letters)) : Misread(i, bufs)
<1>1. PICK i \in InFile, j \in InFile :
         \E text \in MisreadBytes(Text(i), Text(j)) \ {<<>>} :
            Misread(i, <<text \o <<Delimiter(i)>>>>)
  BY DEF MisreadJson
<1>2. PICK text \in MisreadBytes(Text(i), Text(j)) : Misread(i, <<text \o <<Delimiter(i)>>>>)
  BY <1>1
<1>3. i \in 1 .. MAX_ITEMS /\ j \in 1 .. MAX_ITEMS
  BY InFileTyped
<1>4. ASSUME NEW n \in 1 .. MAX_ITEMS
      PROVE  Text(n) \in Seq(Letters) /\ <<Delimiter(n)>> \in Seq(Letters)
  <2>1. Letter(n) \in Letters /\ Delimiter(n) \in Letters
    BY <1>4 DEF Letter, Delimiter, Letters
  <2>. QED BY <2>1 DEF Text
<1>5. text \in Seq(Letters)
  BY <1>3, <1>4, MisreadBytesTyped
<1>6. text \o <<Delimiter(i)>> \in Seq(Letters)
  BY <1>3, <1>4, <1>5, ConcatProperties
<1>7. <<text \o <<Delimiter(i)>>>> \in Seq(Seq(Letters))
  BY <1>6
<1>. QED BY <1>2, <1>3, <1>7 DEF MisreadJson

\* What is misread for a client of the video server is the bytes of frames.
LEMMA GopMisread ==
    ASSUME Counters, MisreadGop
    PROVE  /\ kind = "video"
           /\ \E i \in 1 .. MAX_ITEMS, bufs \in Seq(Seq(Byte)) : Misread(i, bufs)
<1>1. PICK i \in InFile, j \in InFile :
         \E gop \in MisreadGops[i][j] : Misread(i, FrameBuffers(gop))
  BY DEF MisreadGop
<1>2. PICK gop \in MisreadGops[i][j] : Misread(i, FrameBuffers(gop))
  BY <1>1
<1>3. i \in 1 .. MAX_ITEMS /\ j \in 1 .. MAX_ITEMS
  BY InFileTyped
<1>4. FrameBuffers(gop) \in Seq(Seq(Byte))
  BY <1>3, MisreadTyped, FrameBuffersTyped
<1>. QED BY <1>2, <1>3, <1>4 DEF MisreadGop

\* Either way something is to be written, if anything, and next is anywhere; the
\* session is one in which it was misread.
LEMMA Misreads ==
    ASSUME Counters, MisreadJson \/ MisreadGop
    PROVE  \E i \in 1 .. MAX_ITEMS, bufs \in Seq(Bytes), n \in 1 .. published :
              /\ Fetches(i, bufs, n)
              /\ misread' = misread \cup {session}
              /\ misreads < MAX_MISREADS /\ misreads' = misreads + 1
<1>1. \E i \in 1 .. MAX_ITEMS, bufs \in Seq(Bytes) : Misread(i, bufs)
  <2>1. CASE MisreadJson
    BY <2>1, JsonMisread DEF Bytes
  <2>2. CASE MisreadGop
    BY <2>2, GopMisread DEF Bytes
  <2>. QED BY <2>1, <2>2
<1>. QED BY <1>1 DEF Misread

\* A write is appended to those received.
LEMMA WriteAppended ==
    ASSUME NEW w \in Write_, out \in Seq(Write_), out' = Append(out, w)
    PROVE  /\ out' \in Seq(Write_) /\ out' # <<>> /\ Len(out') = Len(out) + 1
           /\ Len(out) \in Nat /\ (out # <<>> <=> Len(out) > 0)
           /\ Last' = w
           /\ \A k \in 1 .. Len(out) : out'[k] = out[k] /\ out[k] \in Write_
           /\ DOMAIN out = 1 .. Len(out) /\ DOMAIN out' = 1 .. Len(out) + 1
<1>1. /\ out' \in Seq(Write_) /\ out' # <<>> /\ Len(out') = Len(out) + 1
      /\ \A k \in 1 .. Len(out) : out'[k] = out[k]
      /\ out'[Len(out) + 1] = w
  BY AppendProperties
<1>2. Len(out) \in Nat /\ DOMAIN out = 1 .. Len(out)
  BY LenProperties
<1>3. \A k \in 1 .. Len(out) : out[k] \in Write_
  BY ElementOfSeq
<1>4. out # <<>> <=> Len(out) > 0
  BY <1>2, EmptySeq
<1>5. DOMAIN out' = 1 .. Len(out')
  BY <1>1, LenProperties
<1>. QED BY <1>1, <1>2, <1>3, <1>4, <1>5 DEF Last

\* The last write has the fields of a write.
LEMMA LastTyped ==
    ASSUME out \in Seq(Write_), out # <<>>
    PROVE  Last \in Write_
<1>1. Len(out) \in Nat /\ Len(out) > 0
  BY LenProperties, EmptySeq
<1>. QED BY <1>1, ElementOfSeq DEF Last

(***************************************************************************)
(* The counters.                                                           *)
(***************************************************************************)

\* The counters are right at the start.
LEMMA CountersInit == Init => Counters
<1>. SUFFICES ASSUME Init PROVE Counters
  OBVIOUS
<1>1. queue \in Seq(Clients) /\ out \in Seq(Write_)
  BY EmptySeq DEF Init
<1>. QED BY <1>1, ServerAssumption DEF Init, Counters

\* Every step of the server and of the world keeps them right.
LEMMA CountersStep == Counters /\ [Next]_vars => Counters'
<1>. SUFFICES ASSUME Counters, [Next]_vars PROVE Counters'
  OBVIOUS
<1>. USE DEF clientVars, store, writing, seen
<1>0. MAX_ITEMS \in Nat \ {0} /\ published \in Nat /\ next \in Nat /\ item \in Nat
  BY ServerAssumption DEF Counters
<1>1. CASE UNCHANGED vars
  BY <1>1 DEF vars, Counters
<1>2. CASE Publish
  BY <1>0, <1>2 DEF Publish, Counters
<1>3. CASE Disturb
  BY <1>3 DEF Disturb, Counters
<1>4. ASSUME NEW c \in Clients, ClientConnects(c) PROVE Counters'
  <2>1. queue' \in Seq(Clients)
    BY <1>4, AppendProperties DEF ClientConnects, Counters
  <2>. QED BY <1>4, <2>1 DEF ClientConnects, Counters
<1>5. ASSUME NEW c \in Clients, ClientLeaves(c) PROVE Counters'
  BY <1>5 DEF ClientLeaves, Counters
<1>6. CASE Reset
  BY <1>6 DEF Reset, Serving, Counters
<1>7. CASE Setup \/ SetupFails \/ HandshakeFails
  BY <1>7 DEF Setup, SetupFails, HandshakeFails, Counters
<1>8. CASE Accept
  <2>1. client' \in Clients /\ queue' \in Seq(Clients)
    BY <1>8, HeadTailProperties DEF Accept, Counters
  <2>2. misread' \subseteq 1 .. session'
    BY <1>8 DEF Accept, Counters
  <2>. QED BY <1>8, <2>1, <2>2 DEF Accept, Counters
<1>9. CASE Handshake
  BY <1>0, <1>9 DEF Handshake, Counters
<1>10. CASE GetNextJson \/ GetNextGop
  <2>1. PICK bufs : FetchesNext(bufs)
    BY <1>10 DEF GetNextJson, GetNextGop
  <2>. QED BY <1>0, <2>1 DEF FetchesNext, Fetches, Counters
<1>11. CASE MisreadJson \/ MisreadGop
  <2>1. PICK i \in 1 .. MAX_ITEMS, bufs \in Seq(Bytes), n \in 1 .. published :
           Fetches(i, bufs, n) /\ misread' = misread \cup {session}
    BY <1>11, Misreads
  <2>2. misread' \subseteq 1 .. session
    BY <2>1 DEF Fetches, Counters
  <2>. QED BY <1>0, <2>1, <2>2 DEF Fetches, Counters
<1>12. CASE NoNextData \/ GetNextDataThrows
  <2>1. CASE NoNextData
    BY <1>0, <2>1 DEF NoNextData, Counters
  <2>2. CASE GetNextDataThrows
    BY <1>0, <2>2 DEF GetNextDataThrows, Counters
  <2>. QED BY <1>12, <2>1, <2>2
<1>13. CASE Write
  <2>1. CASE item = 0
    BY <1>13, <2>1 DEF Write, Written, Counters
  <2>2. CASE item # 0
    <3>1. [session |-> session, item |-> item, part |-> part'] \in Write_
      BY <1>0, <1>13 DEF Write, Written, Counters, Write_
    <3>2. out' \in Seq(Write_)
      <4>. DEFINE w == [session |-> session, item |-> item, part |-> part']
      <4>1. out' = Append(out, w) /\ out \in Seq(Write_)
        BY <1>13, <2>2 DEF Write, Counters
      <4>. HIDE DEF w
      <4>. QED BY <3>1, <4>1, AppendProperties DEF w
    <3>. QED BY <1>13, <3>2 DEF Write, Written, Counters
  <2>. QED BY <2>1, <2>2
<1>14. CASE WriteLost
  BY <1>14 DEF WriteLost, Written, Counters
<1>15. CASE WriteFails \/ WriteKills \/ Shutdown
  BY <1>15 DEF WriteFails, WriteKills, Shutdown, Counters
<1>. QED
  BY <1>1, <1>2, <1>3, <1>4, <1>5, <1>6, <1>7, <1>8, <1>9, <1>10, <1>11, <1>12, <1>13,
     <1>14, <1>15 DEF Next, Server

(***************************************************************************)
(* Types.                                                                  *)
(***************************************************************************)

\* What clients receive is within the bounds, and a write is of a buffer there is.
TypeInv ==
    /\ Counters
    /\ TypeOK
    /\ pc = "write" => part < Len(buffers)

\* The types are right at the start.
LEMMA TypeInit == Init => TypeInv
<1>. SUFFICES ASSUME Init PROVE TypeInv
  OBVIOUS
<1>1. Counters
  BY CountersInit
<1>2. <<>> \in Seq(Byte) /\ <<>> \in Seq(Letters) /\ <<>> \in Seq(Bytes) /\ Len(<<>>) = 0
  BY EmptySeq
<1>. DEFINE W == [session : 1 .. MAX_SESSIONS, item : 1 .. MAX_ITEMS, part : Nat \ {0}]
<1>3. <<>> \in Seq(Clients) /\ <<>> \in Seq(W) /\ <<>> \in Bytes
  BY <1>2, EmptySeq DEF Bytes
<1>4. TypeOK
  <2>1. queue \in Seq(Clients) /\ Len(queue) <= BACK_LOG + 1
    BY <1>2, <1>3, ServerAssumption DEF Init
  <2>2. buffers \in Seq(Bytes) /\ part \in 0 .. Len(buffers) /\ received \in Bytes
    BY <1>2, <1>3 DEF Init
  <2>3. out \in Seq(W) /\ before \in 0 .. Len(out)
    BY <1>2, <1>3 DEF Init
  <2>. HIDE DEF W
  <2>4. session \in 0 .. MAX_SESSIONS /\ misread \subseteq 1 .. session
    BY ServerAssumption DEF Init
  <2>5. /\ published \in 1 .. MAX_ITEMS /\ next \in 1 .. published /\ item \in 0 .. MAX_ITEMS
        /\ misreads \in 0 .. MAX_MISREADS
    BY ServerAssumption DEF Init
  <2>. QED BY <2>1, <2>2, <2>3, <2>4, <2>5 DEF Init, TypeOK, W
<1>. QED BY <1>1, <1>4 DEF TypeInv, Init

\* The bytes of the server's kind stay what they are.
LEMMA BytesStay ==
    ASSUME kind' = kind
    PROVE  Bytes' = Bytes
BY DEF Bytes

\* GetNextData returns something to write.
LEMMA TypeFetches ==
    ASSUME TypeInv, Counters', NEW i \in 1 .. MAX_ITEMS, NEW bufs \in Seq(Bytes),
           NEW n \in 1 .. published, Fetches(i, bufs, n), misreads' \in 0 .. MAX_MISREADS
    PROVE  TypeInv'
<1>. USE DEF clientVars, seen
<1>1. /\ pc = "fetch" /\ item' = i /\ next' = n
      /\ buffers' = bufs /\ part' = 0 /\ pc' = (IF bufs = <<>> THEN "fetch" ELSE "write")
      /\ UNCHANGED <<kind, client, queue, link, reset, published, disturbed, session,
                     received, out, before>>
  BY DEF Fetches
<1>2. Bytes' = Bytes
  BY <1>1, BytesStay
<1>3. Len(bufs) \in Nat /\ (bufs # <<>> => Len(bufs) > 0)
  BY LenProperties, EmptySeq
<1>4. misread' \subseteq 1 .. session' /\ i \in 0 .. MAX_ITEMS
  BY DEF Counters
<1>5. TypeOK'
  BY <1>1, <1>2, <1>3, <1>4 DEF TypeInv, TypeOK
<1>. QED BY <1>1, <1>3, <1>5 DEF TypeInv

\* A client receives what is written to it.
LEMMA TypeWrite ==
    ASSUME TypeInv, Counters', Write
    PROVE  TypeInv'
<1>. USE DEF clientVars, store
<1>1. /\ pc = "write" /\ part' = part + 1
      /\ pc' = (IF part' = Len(buffers) THEN "fetch" ELSE "write")
      /\ UNCHANGED <<kind, client, queue, link, reset, published, next, disturbed, misread,
                     misreads, item, buffers, session, before>>
  BY DEF Write, Written
<1>2. Bytes' = Bytes
  BY <1>1, BytesStay
<1>3. /\ buffers \in Seq(Bytes) /\ part \in Nat /\ part < Len(buffers) /\ Len(buffers) \in Nat
      /\ received \in Bytes /\ session >= 1 /\ session \in Nat /\ session <= MAX_SESSIONS
  BY <1>1, LenProperties DEF TypeInv, TypeOK, Counters
<1>4. part' \in 1 .. Len(buffers) /\ part' \in Nat \ {0}
  BY <1>1, <1>3
<1>5. received' \in Bytes
  <2>1. buffers[part'] \in Bytes
    BY <1>3, <1>4, ElementOfSeq
  <2>2. \E S : Bytes = Seq(S)
    BY DEF Bytes
  <2>3. received \o buffers[part'] \in Bytes /\ <<>> \in Bytes
    BY <1>3, <2>1, <2>2, ConcatProperties, EmptySeq
  <2>. QED BY <1>3, <2>3 DEF Write, Recorded
<1>. DEFINE W == [session : 1 .. MAX_SESSIONS, item : 1 .. MAX_ITEMS, part : Nat \ {0}]
<1>6. out \in Seq(W) /\ before \in 0 .. Len(out)
  BY DEF TypeInv, TypeOK
<1>7. out' \in Seq(W) /\ before' \in 0 .. Len(out')
  <2>1. CASE item = 0
    BY <1>1, <1>6, <2>1 DEF Write
  <2>2. CASE item # 0
    <3>. DEFINE w == [session |-> session, item |-> item, part |-> part']
    <3>1. item \in 1 .. MAX_ITEMS
      BY <2>2, ServerAssumption DEF TypeInv, TypeOK, Counters
    <3>2. w \in W
      BY <1>3, <1>4, <3>1, ServerAssumption
    <3>3. out' = Append(out, w)
      BY <2>2 DEF Write
    <3>. HIDE DEF w, W
    <3>4. out' \in Seq(W) /\ Len(out') = Len(out) + 1
      BY <1>6, <3>2, <3>3, AppendProperties
    <3>5. Len(out) \in Nat
      BY <1>6, LenProperties
    <3>. QED BY <1>1, <1>6, <3>4, <3>5
  <2>. QED BY <2>1, <2>2
<1>8. TypeOK'
  BY <1>1, <1>2, <1>4, <1>5, <1>7 DEF TypeInv, TypeOK
<1>. QED BY <1>1, <1>3, <1>4, <1>8 DEF TypeInv

\* Every step of the server and of the world keeps the types.
LEMMA TypeStep == TypeInv /\ [Next]_vars => TypeInv'
<1>. SUFFICES ASSUME TypeInv, [Next]_vars PROVE TypeInv'
  OBVIOUS
<1>. USE DEF clientVars, store, writing, seen
<1>0. Counters' /\ Counters
  BY CountersStep DEF TypeInv
<1>1. CASE UNCHANGED vars
  BY <1>0, <1>1, BytesStay DEF vars, TypeInv, TypeOK
<1>2. CASE Publish \/ Disturb \/ Reset
  <2>1. CASE Publish
    <3>1. published' \in 1 .. MAX_ITEMS /\ next' \in 1 .. published'
      BY <1>0 DEF Counters
    <3>. QED BY <1>0, <2>1, <3>1, BytesStay DEF Publish, TypeInv, TypeOK
  <2>2. CASE Disturb
    BY <1>0, <2>2, BytesStay DEF Disturb, TypeInv, TypeOK
  <2>3. CASE Reset
    BY <1>0, <2>3, BytesStay DEF Reset, TypeInv, TypeOK, Serving
  <2>. QED BY <1>2, <2>1, <2>2, <2>3
<1>3. ASSUME NEW c \in Clients, ClientConnects(c) PROVE TypeInv'
  <2>1. queue' \in Seq(Clients) /\ Len(queue') = Len(queue) + 1 /\ Len(queue) \in Nat
    BY <1>3, AppendProperties, LenProperties DEF ClientConnects, TypeInv, TypeOK
  <2>2. Len(queue') <= BACK_LOG + 1
    BY <1>3, <2>1, ServerAssumption DEF ClientConnects
  <2>. QED BY <1>0, <1>3, <2>1, <2>2, BytesStay DEF ClientConnects, TypeInv, TypeOK
<1>4. ASSUME NEW c \in Clients, ClientLeaves(c) PROVE TypeInv'
  BY <1>0, <1>4, BytesStay DEF ClientLeaves, TypeInv, TypeOK
<1>5. CASE Setup \/ SetupFails \/ HandshakeFails \/ GetNextDataThrows
  BY <1>0, <1>5, BytesStay DEF Setup, SetupFails, HandshakeFails, GetNextDataThrows, TypeInv, TypeOK
<1>6. CASE WriteFails \/ WriteKills \/ Shutdown
  BY <1>0, <1>6, BytesStay DEF WriteFails, WriteKills, Shutdown, TypeInv, TypeOK
<1>7. CASE Accept
  <2>1. client' \in Clients /\ queue' \in Seq(Clients) /\ Len(queue') = Len(queue) - 1
    BY <1>7, HeadTailProperties DEF Accept, TypeInv, TypeOK
  <2>2. session \in 0 .. MAX_SESSIONS /\ session' \in 0 .. MAX_SESSIONS /\ session' >= 1
    BY <1>7, ServerAssumption DEF Accept, TypeInv, TypeOK
  <2>3. Len(queue) \in Nat /\ Len(queue') <= BACK_LOG + 1
    BY <2>1, ServerAssumption, LenProperties DEF TypeInv, TypeOK
  <2>4. received' \in Bytes /\ Bytes' = Bytes
    BY <1>7, EmptySeq, BytesStay DEF Accept, Bytes
  <2>5. before' \in 0 .. Len(out')
    BY <1>7, LenProperties DEF Accept, TypeInv, TypeOK
  <2>6. misread' \subseteq 1 .. session'
    BY <1>7, <2>2 DEF Accept, TypeInv, TypeOK
  <2>7. link' \in [Clients -> {"away", "waiting", "served", "gone"}]
    BY <1>0 DEF Counters
  <2>. QED BY <1>0, <1>7, <2>1, <2>2, <2>3, <2>4, <2>5, <2>6, <2>7 DEF Accept, TypeInv, TypeOK
<1>8. CASE Handshake
  <2>1. <<>> \in Seq(Bytes) /\ Len(<<>>) = 0 /\ Bytes' = Bytes
    BY <1>8, EmptySeq, BytesStay DEF Handshake
  <2>. QED BY <1>0, <1>8, <2>1 DEF Handshake, TypeInv, TypeOK, Counters
<1>9. CASE GetNextJson
  <2>1. /\ Fetches(next, <<Message(next)>>, next + 1) /\ next < published /\ kind = "json"
        /\ misreads' = misreads
    BY <1>9 DEF GetNextJson, FetchesNext
  <2>2. next \in 1 .. MAX_ITEMS /\ next \in 0 .. MAX_ITEMS /\ next + 1 \in 1 .. published
    BY <1>0, <2>1, ServerAssumption DEF Counters
  <2>3. Message(next) \in Bytes
    BY <2>1, <2>2, MessageTyped DEF Bytes
  <2>4. <<Message(next)>> \in Seq(Bytes) /\ misreads' \in 0 .. MAX_MISREADS
    BY <2>1, <2>3 DEF TypeInv, TypeOK
  <2>. QED BY <1>0, <2>1, <2>2, <2>4, TypeFetches
<1>10. CASE GetNextGop
  <2>1. /\ Fetches(next, FrameBuffers(GopRead[next]), next + 1) /\ next < published
        /\ kind = "video" /\ misreads' = misreads
    BY <1>10 DEF GetNextGop, FetchesNext
  <2>2. next \in 1 .. MAX_ITEMS /\ next + 1 \in 1 .. published
    BY <1>0, <2>1, ServerAssumption DEF Counters
  <2>3. GopRead[next] \in Seq(Frame)
    BY <2>2, ServerAssumption, StoredReadBack DEF ReadsBack
  <2>4. FrameBuffers(GopRead[next]) \in Seq(Bytes) /\ misreads' \in 0 .. MAX_MISREADS
    BY <2>1, <2>3, FrameBuffersTyped DEF Bytes, TypeInv, TypeOK
  <2>. QED BY <1>0, <2>1, <2>2, <2>4, TypeFetches
<1>11. CASE MisreadJson \/ MisreadGop
  <2>1. PICK i \in 1 .. MAX_ITEMS, bufs \in Seq(Bytes), n \in 1 .. published :
           /\ Fetches(i, bufs, n)
           /\ misreads < MAX_MISREADS /\ misreads' = misreads + 1
    BY <1>0, <1>11, Misreads
  <2>2. misreads' \in 0 .. MAX_MISREADS
    BY <2>1, ServerAssumption DEF TypeInv, TypeOK
  <2>. QED BY <1>0, <2>1, <2>2, TypeFetches
<1>12. CASE NoNextData
  <2>1. 0 \in 0 .. MAX_ITEMS
    BY ServerAssumption
  <2>2. Message(0) \in Bytes /\ Bytes' = Bytes
    BY <1>12, <2>1, MessageTyped, BytesStay DEF NoNextData, Bytes
  <2>3. <<Message(0)>> \in Seq(Bytes) /\ Len(<<Message(0)>>) = 1
    BY <2>2
  <2>. QED BY <1>0, <1>12, <2>2, <2>3 DEF NoNextData, TypeInv, TypeOK, Counters
<1>13. CASE Write
  BY <1>0, <1>13, TypeWrite
<1>14. CASE WriteLost
  <2>1. Len(buffers) \in Nat /\ part \in Nat /\ part < Len(buffers)
    BY <1>14, LenProperties DEF WriteLost, TypeInv, TypeOK
  <2>. QED BY <1>0, <1>14, <2>1, BytesStay DEF WriteLost, Written, TypeInv, TypeOK
<1>. QED
  BY <1>1, <1>2, <1>3, <1>4, <1>5, <1>6, <1>7, <1>8, <1>9, <1>10, <1>11, <1>12, <1>13, <1>14
  DEF Next, Server

(***************************************************************************)
(* The course of the server.                                               *)
(***************************************************************************)

\* At the start nothing has been written.
LEMMA CourseInit == Init => Course /\ EachClientSeesARun
BY DEF Init, Course, EachClientSeesARun, Serving

\* What was seen stays a run, also when more is known to have been misread.
LEMMA RunStays ==
    ASSUME EachClientSeesARun, UNCHANGED <<kind, out>>, misread \subseteq misread'
    PROVE  EachClientSeesARun'
<1>1. \A i : Writes(i)' = Writes(i)
  BY DEF Writes
<1>2. \A v, w : (Follows(v, w) => Follows(v, w)') /\ (Begins(v, w) => Begins(v, w)')
  BY <1>1 DEF Follows, Begins
<1>. QED BY <1>2 DEF EachClientSeesARun

\* Nothing of the server's changes, and no client comes to be served.
LEMMA CourseOutside ==
    ASSUME Counters, Course, EachClientSeesARun,
           UNCHANGED <<kind, pc, client, next, item, buffers, part, session, misread, out>>,
           link'[client] = "served" => link[client] = "served"
    PROVE  Course' /\ EachClientSeesARun'
<1>1. EachClientSeesARun'
  BY RunStays
<1>. QED BY <1>1 DEF Course, Complete, Last, Serving, Writes

\* The server is not at an item any more.
LEMMA CourseBetween ==
    ASSUME Counters, Course, EachClientSeesARun,
           pc' \notin {"handshake", "fetch", "write"},
           UNCHANGED <<kind, next, item, session, misread, out>>
    PROVE  Course' /\ EachClientSeesARun'
<1>1. EachClientSeesARun'
  BY RunStays
<1>. QED BY <1>1 DEF Course, Last, Serving

\* GetNextData returns an item: all the writes of the one that comes next, or what
\* was misread.
LEMMA CourseFetches ==
    ASSUME Counters, Course, EachClientSeesARun,
           NEW i \in 1 .. MAX_ITEMS, NEW bufs, NEW n \in 1 .. published,
           Fetches(i, bufs, n), misread \subseteq misread',
           \/ session \in misread'
           \/ /\ i = next /\ n = next + 1 /\ bufs # <<>> /\ Len(bufs) = Writes(next)
              /\ misread' = misread
    PROVE  Course' /\ EachClientSeesARun'
<1>1. EachClientSeesARun'
  BY RunStays DEF Fetches, seen
<1>2. /\ pc = "fetch" /\ pc' \in {"fetch", "write"} /\ item' = i /\ next' = n /\ part' = 0
      /\ buffers' = bufs /\ (pc' = "fetch" => bufs = <<>>)
      /\ UNCHANGED <<kind, client, link, session, out>>
  BY DEF Fetches, clientVars, seen
<1>3. next \in Nat /\ 1 <= next /\ n \in Nat /\ i \in Nat /\ i > 0
  BY DEF Counters
<1>4. out # <<>> => Last.session \in Nat /\ Last.item \in Nat /\ Last.part \in Nat
  BY LastTyped DEF Counters, Write_
<1>5. Last' = Last /\ \A j : Writes(j)' = Writes(j)
  BY <1>2 DEF Last, Writes
<1>6. Course'
  <2>1. CASE session \in misread'
    BY <1>2, <1>3, <1>4, <1>5, <2>1 DEF Course, Serving
  <2>2. CASE /\ i = next /\ n = next + 1 /\ bufs # <<>> /\ Len(bufs) = Writes(next)
             /\ misread' = misread
    BY <1>2, <1>3, <1>4, <1>5, <2>2 DEF Course, Complete, Serving
  <2>. QED BY <2>1, <2>2
<1>. QED BY <1>1, <1>6

\* A client receives a write of an item: the one that follows the last.
LEMMA CourseWrites ==
    ASSUME Counters, Course, EachClientSeesARun, Write, item # 0
    PROVE  Course' /\ EachClientSeesARun'
<1>. DEFINE w == [session |-> session, item |-> item, part |-> part']
<1>1. /\ pc = "write" /\ link[client] = "served" /\ part' = part + 1
      /\ pc' = (IF part' = Len(buffers) THEN "fetch" ELSE "write")
      /\ UNCHANGED <<kind, client, link, next, misread, item, buffers, session>>
      /\ out' = Append(out, w)
  BY DEF Write, Written, clientVars, store
<1>2. /\ item \in Nat /\ item > 0 /\ next \in Nat /\ part \in Nat /\ session \in Nat
      /\ out \in Seq(Write_)
  BY ServerAssumption DEF Counters
<1>3. w \in Write_
  BY <1>1, <1>2 DEF Write_
<1>4. w.session = session /\ w.item = item /\ w.part = part + 1
  BY <1>1
<1>. HIDE DEF w
<1>5. /\ out' # <<>> /\ Last' = w /\ Len(out) \in Nat /\ (out # <<>> <=> Len(out) > 0)
      /\ \A k \in 1 .. Len(out) : out'[k] = out[k] /\ out[k] \in Write_
      /\ DOMAIN out = 1 .. Len(out) /\ DOMAIN out' = 1 .. Len(out) + 1
      /\ Len(out') = Len(out) + 1
  BY <1>1, <1>2, <1>3, WriteAppended
<1>6. \A i : Writes(i)' = Writes(i)
  BY <1>1 DEF Writes
<1>7. Course'
  <2>1. Last'.session <= session' /\ (misread' = {} => item' < next' /\ Last'.item < next')
    BY <1>1, <1>2, <1>4, <1>5 DEF Course
  <2>2. pc' # "handshake" /\ part' # 0 /\ item' > 0
    BY <1>1, <1>2
  <2>3. pc' = "write" => Last' = [session |-> session', item |-> item', part |-> part']
    BY <1>1, <1>5 DEF w
  <2>4. session' \notin misread' => (next = item + 1 /\ Len(buffers) = Writes(item))'
    BY <1>1, <1>2 DEF Course, Writes
  <2>5. session' \notin misread' /\ pc' = "fetch" => Complete(next)'
    <3>1. SUFFICES ASSUME session \notin misread, part + 1 = Len(buffers) PROVE Complete(next)'
      BY <1>1, <1>2
    <3>2. next = item + 1 /\ Len(buffers) = Writes(item)
      BY <1>1, <1>2, <3>1 DEF Course
    <3>3. next - 1 = item
      BY <1>2, <3>2
    <3>4. Writes(next - 1)' = Writes(item)
      BY <1>1, <1>6, <3>3
    <3>. QED BY <1>1, <1>4, <1>5, <3>1, <3>2, <3>3, <3>4 DEF Complete
  <2>. QED BY <1>1, <1>5, <2>1, <2>2, <2>3, <2>4, <2>5 DEF Course, Serving
<1>8. EachClientSeesARun'
  <2>. DEFINE L == Len(out)
              May(v, u) == IF u.session = v.session THEN Follows(v, u) ELSE Begins(v, u)
  <2>1. out # <<>> => out[1].part = 1 /\ \A k \in 2 .. L : May(out[k - 1], out[k])
    BY DEF EachClientSeesARun
  <2>2. IF out = <<>> THEN w.part = 1 ELSE May(Last, w)
    <3>1. CASE out = <<>>
      <4>1. part = 0
        BY <1>1, <1>2, <3>1 DEF Course
      <4>. QED BY <1>2, <1>4, <3>1, <4>1
    <3>2. CASE out # <<>> /\ part # 0
      BY <1>1, <1>2, <1>4, <3>2 DEF Course, Follows
    <3>3. CASE out # <<>> /\ part = 0
      <4>1. Last.item \in Nat
        BY <1>2, <3>3, LastTyped DEF Write_
      <4>2. CASE Last.session = session /\ session \notin misread
        <5>1. Last.item = item - 1 /\ Last.part = Writes(item - 1)
          BY <1>1, <1>2, <3>3, <4>2 DEF Course, Serving, Complete
        <5>2. item = Last.item + 1
          BY <1>2, <4>1, <5>1
        <5>. QED BY <1>4, <1>2, <3>3, <4>2, <5>1, <5>2 DEF Follows
      <4>3. CASE Last.session = session /\ session \in misread
        BY <1>2, <1>4, <3>3, <4>3 DEF Follows
      <4>4. CASE Last.session # session
        <5>1. (\A t \in misread : t > session) => misread = {}
          BY <1>2 DEF Counters
        <5>2. misread = {} => Last.item < item
          BY <1>1, <1>2, <3>3 DEF Course
        <5>. QED BY <1>2, <1>4, <3>3, <4>4, <5>1, <5>2 DEF Begins
      <4>. QED BY <4>2, <4>3, <4>4
    <3>. QED BY <3>1, <3>2, <3>3
  <2>3. out'[1].part = 1
    <3>1. CASE out = <<>>
      BY <1>5, <2>2, <3>1 DEF Last
    <3>2. CASE out # <<>>
      BY <1>5, <2>1, <3>2
    <3>. QED BY <3>1, <3>2
  <2>4. ASSUME NEW k \in 2 .. L + 1 PROVE May(out'[k - 1], out'[k])
    <3>. HIDE DEF May
    <3>1. CASE k <= L
      <4>1. k \in 2 .. L /\ k \in 1 .. L /\ k - 1 \in 1 .. L /\ out # <<>>
        BY <1>5, <3>1
      <4>2. out'[k] = out[k] /\ out'[k - 1] = out[k - 1]
        BY <1>5, <4>1
      <4>. QED BY <2>1, <4>1, <4>2
    <3>2. CASE k = L + 1
      <4>1. out'[k] = w /\ k - 1 = L /\ L \in 1 .. L /\ out # <<>>
        BY <1>5, <3>2 DEF Last
      <4>2. out'[k - 1] = Last
        BY <1>5, <4>1 DEF Last
      <4>. QED BY <2>2, <4>1, <4>2
    <3>. QED BY <1>5, <3>1, <3>2
  <2>5. \A v, u : (Follows(v, u) => Follows(v, u)') /\ (Begins(v, u) => Begins(v, u)')
    BY <1>1, <1>6 DEF Follows, Begins
  <2>. QED BY <1>5, <2>3, <2>4, <2>5 DEF EachClientSeesARun
<1>. QED BY <1>7, <1>8

\* Every step keeps the course, and the run of items each client sees.
LEMMA CourseStep == RunInv /\ [Next]_vars => Course' /\ EachClientSeesARun'
<1>. SUFFICES ASSUME RunInv, [Next]_vars PROVE Course' /\ EachClientSeesARun'
  OBVIOUS
<1>. USE DEF clientVars, store, writing, seen
<1>0. Counters /\ Course /\ EachClientSeesARun
  BY DEF RunInv
<1>1. CASE UNCHANGED vars
  BY <1>0, <1>1, CourseOutside DEF vars
<1>2. CASE Publish \/ Disturb \/ Reset
  BY <1>0, <1>2, CourseOutside DEF Publish, Disturb, Reset
<1>3. ASSUME NEW c \in Clients, ClientConnects(c) \/ ClientLeaves(c)
      PROVE  Course' /\ EachClientSeesARun'
  <2>1. link'[client] = "served" => link[client] = "served"
    BY <1>0, <1>3 DEF ClientConnects, ClientLeaves, Counters
  <2>. QED BY <1>0, <1>3, <2>1, CourseOutside DEF ClientConnects, ClientLeaves
<1>4. CASE Setup \/ SetupFails \/ HandshakeFails \/ GetNextDataThrows
  BY <1>0, <1>4, CourseBetween DEF Setup, SetupFails, HandshakeFails, GetNextDataThrows
<1>5. CASE WriteFails \/ WriteKills \/ Shutdown
  BY <1>0, <1>5, CourseBetween DEF WriteFails, WriteKills, Shutdown
<1>6. CASE Accept
  <2>1. session' = session + 1 /\ pc' = "handshake" /\ UNCHANGED <<kind, store, item, out>>
    BY <1>6 DEF Accept
  <2>2. out # <<>> => Last.session < session' /\ Last.session <= session'
    BY <1>0, <2>1, LastTyped DEF Course, Counters, Write_
  <2>3. EachClientSeesARun'
    BY <1>0, <2>1, RunStays
  <2>. QED BY <1>0, <2>1, <2>2, <2>3 DEF Course, Last, Serving
<1>7. CASE Handshake
  <2>1. pc = "handshake" /\ pc' = "fetch" /\ item' = 0 /\ 0 < next
        /\ UNCHANGED <<kind, store, session, out>>
    BY <1>0, <1>7 DEF Handshake, Counters
  <2>2. out # <<>> => Last.session # session
    BY <1>0, <2>1, LastTyped DEF Course, Counters, Write_
  <2>3. EachClientSeesARun'
    BY <1>0, <2>1, RunStays
  <2>. QED BY <1>0, <2>1, <2>2, <2>3 DEF Course, Last, Serving
<1>8. CASE GetNextJson
  <2>1. /\ Fetches(next, <<Message(next)>>, next + 1) /\ next < published /\ kind = "json"
        /\ misread' = misread
    BY <1>8 DEF GetNextJson, FetchesNext
  <2>2. <<Message(next)>> # <<>> /\ Len(<<Message(next)>>) = Writes(next)
    BY <2>1 DEF Writes
  <2>3. next \in 1 .. MAX_ITEMS /\ next + 1 \in 1 .. published
    BY <1>0, <2>1, ServerAssumption DEF Counters
  <2>. QED BY <1>0, <2>1, <2>2, <2>3, CourseFetches
<1>9. CASE GetNextGop
  <2>1. /\ Fetches(next, FrameBuffers(GopRead[next]), next + 1) /\ next < published
        /\ kind = "video" /\ misread' = misread
    BY <1>9 DEF GetNextGop, FetchesNext
  <2>2. next \in 1 .. MAX_ITEMS /\ next + 1 \in 1 .. published
    BY <1>0, <2>1, ServerAssumption DEF Counters
  <2>3. GopRead[next] \in Seq(Frame) /\ Len(GopRead[next]) > 0
    BY <2>2, ServerAssumption, StoredReadBack DEF ReadsBack
  <2>4. /\ FrameBuffers(GopRead[next]) # <<>>
        /\ Len(FrameBuffers(GopRead[next])) = Writes(next)
    BY <2>1, <2>3, FrameBuffersTyped DEF Writes
  <2>. QED BY <1>0, <2>1, <2>2, <2>4, CourseFetches
<1>10. CASE MisreadJson \/ MisreadGop
  <2>1. PICK i \in 1 .. MAX_ITEMS, bufs \in Seq(Bytes), n \in 1 .. published :
           Fetches(i, bufs, n) /\ misread' = misread \cup {session}
    BY <1>0, <1>10, Misreads
  <2>2. session \in misread' /\ misread \subseteq misread'
    BY <2>1
  <2>. QED BY <1>0, <2>1, <2>2, CourseFetches
<1>11. CASE NoNextData
  <2>1. /\ pc = "fetch" /\ pc' = "write" /\ item' = 0 /\ part' = 0 /\ 0 < next
        /\ UNCHANGED <<kind, client, link, store, session, out>>
    BY <1>0, <1>11 DEF NoNextData, Counters
  <2>2. EachClientSeesARun'
    BY <1>0, <2>1, RunStays
  <2>. QED BY <1>0, <2>1, <2>2 DEF Course, Last, Serving, Complete, Writes
<1>12. CASE Write
  <2>1. CASE item = 0
    <3>1. /\ pc = "write" /\ pc' \in {"fetch", "write"} /\ item' = 0
          /\ UNCHANGED <<kind, client, link, store, session, out>>
      BY <1>12, <2>1 DEF Write, Written
    <3>2. EachClientSeesARun'
      BY <1>0, <3>1, RunStays
    <3>. QED BY <1>0, <2>1, <3>1, <3>2 DEF Course, Last, Serving, Complete, Writes
  <2>2. CASE item # 0
    BY <1>0, <1>12, <2>2, CourseWrites
  <2>. QED BY <2>1, <2>2
<1>13. CASE WriteLost
  <2>1. /\ pc = "write" /\ pc' \in {"fetch", "write"} /\ part' = part + 1
        /\ link'[client'] = "gone"
        /\ UNCHANGED <<kind, client, link, store, item, buffers, session, out>>
    BY <1>13 DEF WriteLost, Written
  <2>2. EachClientSeesARun'
    BY <1>0, <2>1, RunStays
  <2>3. part' # 0
    BY <1>0, <2>1 DEF Counters
  <2>. QED BY <1>0, <2>1, <2>2, <2>3 DEF Course, Last, Writes
<1>. QED
  BY <1>1, <1>2, <1>3, <1>4, <1>5, <1>6, <1>7, <1>8, <1>9, <1>10, <1>11, <1>12, <1>13
  DEF Next, Server

(***************************************************************************)
(* Theorems.                                                               *)
(***************************************************************************)

\* Every client is sent a run of items, from the first frame of one and without a
\* gap or a repetition but where something was misread in its own session: for any
\* number of clients, however they come and go.
THEOREM EachSeesARun == Spec => []EachClientSeesARun
<1>1. Init => RunInv
  BY CountersInit, CourseInit DEF RunInv
<1>2. RunInv /\ [Next]_vars => RunInv'
  BY CountersStep, CourseStep DEF RunInv
<1>3. RunInv => EachClientSeesARun
  BY DEF RunInv
<1>. QED BY <1>1, <1>2, <1>3, PTL DEF Spec

\* The types are right, whoever comes and goes and whatever is misread: a write is
\* of bytes of the server's kind, within the buffer.
THEOREM TypeCorrect == Spec => []TypeOK
<1>1. Init => TypeInv
  BY TypeInit
<1>2. TypeInv /\ [Next]_vars => TypeInv'
  BY TypeStep
<1>3. TypeInv => TypeOK
  BY DEF TypeInv
<1>. QED BY <1>1, <1>2, <1>3, PTL DEF Spec

(***************************************************************************)
(* What a client receives.                                                 *)
(***************************************************************************)

WholeFrames == {f \in Frame : Whole(f)}

\* The frame of write w.
FrameOfWrite(w) == StoredGops[w.item][w.part]

\* As long as nothing is misread for it, a client of the video server has
\* received the bytes of the frames written to it, and the next ones are those
\* of the item at hand.
FramesInv ==
    kind = "video" /\ session \notin misread =>
       /\ FramesWritten \in Seq(WholeFrames)
       /\ received = SerializeGop(FramesWritten)
       /\ pc = "write" => item \in 1 .. MAX_ITEMS /\ buffers = FrameBuffers(StoredGops[item])

\* One write more is the last of those of the session.
LEMMA CurrentGrows ==
    ASSUME NEW S, out \in Seq(S), NEW w \in S, out' = Append(out, w),
           before \in 0 .. Len(out), before' = before
    PROVE  Current \in Seq(S) /\ Current' = Append(Current, w)
<1>. DEFINE L == Len(out)
            b == before
            c == SubSeq(out, b + 1, L)
            new == out'
            M == L + 1
            d == SubSeq(new, b + 1, M)
<1>1. L \in Nat /\ b \in Nat /\ b <= L
  BY LenProperties
<1>2. \A k \in 1 .. L : out[k] \in S
  BY ElementOfSeq
<1>3. /\ Len(new) = M /\ \A k \in 1 .. L : new[k] = out[k]
      /\ new[M] = w
  BY AppendProperties
<1>. HIDE DEF L, b, new
<1>4. \A k \in 1 .. M : new[k] \in S
  BY <1>1, <1>2, <1>3
<1>5. /\ c \in Seq(S) /\ Len(c) = L - b
      /\ \A k \in 1 .. L - b : c[k] = out[b + k]
  <2>1. \A k \in b + 1 .. L : out[k] \in S
    BY <1>1, <1>2
  <2>2. /\ c \in Seq(S) /\ Len(c) = (IF b + 1 <= L THEN L - (b + 1) + 1 ELSE 0)
        /\ \A k \in 1 .. L - (b + 1) + 1 : c[k] = out[(b + 1) + k - 1]
    <3>1. b + 1 \in Int /\ L \in Int
      BY <1>1
    <3>. QED BY <2>1, <3>1, SubSeqProperties, SMTT(30)
  <2>. QED BY <1>1, <2>2
<1>6. /\ d \in Seq(S) /\ Len(d) = M - b
      /\ \A k \in 1 .. M - b : d[k] = new[b + k]
  <2>1. \A k \in b + 1 .. M : new[k] \in S
    BY <1>1, <1>4
  <2>0. M = L + 1 /\ M \in Int
    BY <1>1
  <2>. HIDE DEF M
  <2>2. /\ d \in Seq(S) /\ Len(d) = (IF b + 1 <= M THEN M - (b + 1) + 1 ELSE 0)
        /\ \A k \in 1 .. M - (b + 1) + 1 : d[k] = new[(b + 1) + k - 1]
    <3>1. b + 1 \in Int
      BY <1>1
    <3>. QED BY <2>0, <2>1, <3>1, SubSeqProperties, SMTT(30)
  <2>. QED BY <1>1, <2>0, <2>2
<1>. HIDE DEF c, d
<1>. DEFINE e == Append(c, w)
<1>7. /\ e \in Seq(S) /\ Len(e) = (L - b) + 1
      /\ \A k \in 1 .. L - b : e[k] = c[k]
      /\ e[(L - b) + 1] = w
  BY <1>5, AppendProperties
<1>. HIDE DEF e
<1>8. \A k \in 1 .. (L - b) + 1 : d[k] = e[k]
  <2>. SUFFICES ASSUME NEW k \in 1 .. (L - b) + 1 PROVE d[k] = e[k]
    OBVIOUS
  <2>1. CASE k = (L - b) + 1
    BY <1>1, <1>3, <1>6, <1>7, <2>1
  <2>2. CASE k # (L - b) + 1
    <3>1. k \in 1 .. L - b /\ b + k \in 1 .. L
      BY <1>1, <2>2
    <3>2. d[k] = new[b + k] /\ new[b + k] = out[b + k]
      BY <1>1, <1>3, <1>6, <3>1
    <3>3. e[k] = c[k] /\ c[k] = out[b + k]
      BY <1>5, <1>7, <3>1
    <3>. QED BY <3>2, <3>3
  <2>. QED BY <2>1, <2>2
<1>9. d = e
  <2>1. Len(d) = Len(e) /\ Len(d) = (L - b) + 1
    BY <1>1, <1>6, <1>7
  <2>2. \A k \in 1 .. Len(d) : d[k] = e[k]
    BY <1>8, <2>1
  <2>. HIDE DEF M
  <2>. QED BY <1>6, <1>7, <2>1, <2>2, SeqEqual
<1>. QED BY <1>3, <1>5, <1>9 DEF Current, L, b, c, d, e, new

\* At the beginning of a session nothing has been written.
LEMMA CurrentEmpty ==
    ASSUME before = Len(out), Len(out) \in Nat
    PROVE  Current = <<>> /\ FramesWritten = <<>>
<1>1. Current = <<>>
  BY SubSeqEmpty DEF Current
<1>. QED BY <1>1 DEF FramesWritten

\* The frames of a session are those of its writes.
LEMMA FramesWrittenParts ==
    ASSUME NEW n \in Nat, Len(Current) = n, DOMAIN Current = 1 .. n
    PROVE  FramesWritten = [k \in 1 .. n |-> FrameOfWrite(Current[k])]
BY DEF FramesWritten, FrameOfWrite

\* A saved frame announces the body it has.
LEMMA StoredWhole ==
    ASSUME NEW i \in 1 .. MAX_ITEMS, NEW k \in 1 .. Len(StoredGops[i])
    PROVE  StoredGops[i][k] \in WholeFrames
<1>. DEFINE gop == StoredGops[i]
<1>1. gop \in Seq(Frame)
  BY ServerAssumption
<1>2. k \in DOMAIN gop /\ gop[k] \in Frame
  <2>. HIDE DEF gop
  <2>1. k \in 1 .. Len(gop)
    BY DEF gop
  <2>. QED BY <1>1, <2>1, LenProperties, ElementOfSeq
<1>3. gop[k].header.bodySize = Len(gop[k].body)
  BY <1>2, ServerAssumption
<1>. QED BY <1>2, <1>3 DEF WholeFrames, Whole

\* A client receives a frame more, and its bytes.
LEMMA FramesWriteStep ==
    ASSUME TypeInv, FramesInv, Write, kind = "video", session \notin misread
    PROVE  FramesInv'
<1>. DEFINE W == [session : 1 .. MAX_SESSIONS, item : 1 .. MAX_ITEMS, part : Nat \ {0}]
            w == [session |-> session, item |-> item, part |-> part']
            gop == StoredGops[item]
            f == gop[part']
<1>1. /\ FramesWritten \in Seq(WholeFrames) /\ received = SerializeGop(FramesWritten)
      /\ item \in 1 .. MAX_ITEMS /\ buffers = FrameBuffers(gop) /\ pc = "write"
  BY DEF FramesInv, Write
<1>2. gop \in Seq(Frame) /\ Len(gop) \in Nat
  BY <1>1, ServerAssumption, LenProperties
<1>. HIDE DEF gop
<1>3. Len(buffers) = Len(gop)
  BY <1>1, <1>2, FrameBuffersTyped
<1>4. /\ part' = part + 1 /\ part \in Nat /\ part < Len(buffers)
  BY <1>1 DEF TypeInv, Counters, Write, Written
<1>5. part' \in 1 .. Len(gop)
  BY <1>2, <1>3, <1>4
<1>6. buffers[part'] = SerializeFrame(f)
  BY <1>1, <1>2, <1>5, FrameBuffersTyped
<1>7. f \in WholeFrames /\ f \in Frame
  BY <1>1, <1>5, StoredWhole DEF gop, WholeFrames
<1>8. received' = received \o SerializeFrame(f) /\ out' = Append(out, w)
  <2>1. item # 0
    BY <1>1
  <2>. QED BY <1>1, <1>6, <2>1 DEF Write, Recorded
<1>9. /\ UNCHANGED <<kind, item, buffers, session, before, misread>>
  BY DEF Write, store
<1>10. out \in Seq(W) /\ before \in 0 .. Len(out) /\ w \in W
  <2>1. session \in 1 .. MAX_SESSIONS
    BY <1>1 DEF TypeInv, TypeOK, Counters
  <2>. QED BY <1>1, <1>4, <2>1 DEF TypeInv, TypeOK
<1>11. FrameOfWrite(w) = f
  BY DEF FrameOfWrite, gop
<1>. HIDE DEF W, w, f
<1>12. Current \in Seq(W) /\ Current' = Append(Current, w)
  BY <1>8, <1>9, <1>10, CurrentGrows
<1>. DEFINE n == Len(Current)
<1>13. n \in Nat /\ DOMAIN Current = 1 .. n
  BY <1>12, LenProperties
<1>14. /\ Current' \in Seq(W) /\ Len(Current') = n + 1
       /\ \A k \in 1 .. n : Current'[k] = Current[k]
       /\ Current'[n + 1] = w
  BY <1>10, <1>12, AppendProperties
<1>15. DOMAIN Current' = 1 .. n + 1
  BY <1>14, LenProperties
<1>. HIDE DEF n
<1>16. FramesWritten = [k \in 1 .. n |-> FrameOfWrite(Current[k])]
  BY <1>13, FramesWrittenParts DEF n
<1>17. FramesWritten' = [k \in 1 .. n + 1 |-> FrameOfWrite(Current'[k])]
  BY <1>9, <1>13, <1>15 DEF FramesWritten, FrameOfWrite
<1>18. FramesWritten' = Append(FramesWritten, f)
  <2>. DEFINE old == FramesWritten
              new == FramesWritten'
              longer == Append(old, f)
  <2>1. old \in Seq(WholeFrames) /\ Len(old) = n
    BY <1>1, <1>13, <1>16
  <2>2. /\ longer \in Seq(WholeFrames) /\ Len(longer) = n + 1
        /\ \A k \in 1 .. n : longer[k] = old[k]
        /\ longer[n + 1] = f
    <3>. HIDE DEF old
    <3>. QED BY <1>7, <2>1, AppendProperties
  <2>. HIDE DEF longer
  <2>3. \A k \in 1 .. n + 1 : new[k] = longer[k] /\ longer[k] \in WholeFrames
    <3>. SUFFICES ASSUME NEW k \in 1 .. n + 1
                  PROVE  new[k] = longer[k] /\ longer[k] \in WholeFrames
      OBVIOUS
    <3>1. new[k] = FrameOfWrite(Current'[k])
      BY <1>17
    <3>2. longer[k] \in WholeFrames
      BY <2>2, ElementOfSeq
    <3>3. CASE k = n + 1
      BY <1>11, <1>14, <2>2, <3>1, <3>2, <3>3
    <3>4. CASE k # n + 1
      <4>1. k \in 1 .. n
        BY <1>13, <3>4
      <4>. QED BY <1>14, <1>16, <2>2, <3>1, <3>2, <4>1
    <3>. QED BY <3>3, <3>4
  <2>4. longer = [k \in 1 .. n + 1 |-> longer[k]]
    BY <2>2
  <2>5. new = [k \in 1 .. n + 1 |-> new[k]]
    BY <1>17
  <2>6. new = longer
    <3>. HIDE DEF old, new
    <3>. QED BY <2>3, <2>4, <2>5
  <2>. QED BY <2>6 DEF longer
<1>19. FramesWritten' \in Seq(WholeFrames)
  <2>. DEFINE old == FramesWritten
  <2>. HIDE DEF old
  <2>1. old \in Seq(WholeFrames)
    BY <1>1 DEF old
  <2>2. Append(old, f) \in Seq(WholeFrames)
    BY <1>7, <2>1, AppendProperties
  <2>. QED BY <1>18, <2>2 DEF old
<1>20. SerializeGop(FramesWritten') = SerializeGop(FramesWritten) \o SerializeFrame(f)
  <2>. DEFINE old == FramesWritten
  <2>1. old \in Seq(Frame)
    BY <1>1, SeqMonotonic DEF WholeFrames
  <2>. HIDE DEF old
  <2>2. SerializeGop(Append(old, f)) = SerializeGop(old) \o SerializeFrame(f)
    BY <1>7, <2>1, GopOfOneMore
  <2>. QED BY <1>18, <2>2 DEF old
<1>21. received' = SerializeGop(FramesWritten')
  BY <1>1, <1>8, <1>20
<1>22. SerializeGop(FramesWritten)' = SerializeGop(FramesWritten')
  BY DEF SerializeGop
<1>. QED BY <1>1, <1>9, <1>19, <1>21, <1>22 DEF FramesInv, gop

\* Nothing is written to a client, and nothing new is to be.
LEMMA FramesStay ==
    ASSUME FramesInv, UNCHANGED <<kind, session, received, out, before>>,
           misread \subseteq misread',
           pc' = "write" => pc = "write" /\ UNCHANGED <<item, buffers>>
    PROVE  FramesInv'
<1>1. FramesWritten' = FramesWritten
  BY DEF FramesWritten, Current
<1>2. SerializeGop(FramesWritten)' = SerializeGop(FramesWritten)
  BY <1>1 DEF SerializeGop
<1>. QED BY <1>1, <1>2 DEF FramesInv

\* Every step keeps what the clients have received.
LEMMA FramesStep == TypeInv /\ FramesInv /\ [Next]_vars => FramesInv'
<1>. SUFFICES ASSUME TypeInv, FramesInv, [Next]_vars PROVE FramesInv'
  OBVIOUS
<1>. USE DEF clientVars, store, writing, seen
<1>1. CASE UNCHANGED vars
  BY <1>1, FramesStay DEF vars
<1>2. CASE \/ Publish \/ Disturb \/ Reset
           \/ \E c \in Clients : ClientConnects(c) \/ ClientLeaves(c)
  BY <1>2, FramesStay DEF Publish, Disturb, Reset, ClientConnects, ClientLeaves
<1>3. CASE Setup \/ SetupFails \/ Handshake \/ HandshakeFails \/ GetNextDataThrows
  BY <1>3, FramesStay DEF Setup, SetupFails, Handshake, HandshakeFails, GetNextDataThrows
<1>4. CASE WriteFails \/ WriteKills \/ Shutdown
  BY <1>4, FramesStay DEF WriteFails, WriteKills, Shutdown
<1>5. CASE WriteLost
  <2>1. pc = "write"
    BY <1>5 DEF WriteLost
  <2>. QED BY <1>5, <2>1, FramesStay DEF WriteLost, Written
<1>6. CASE GetNextJson \/ NoNextData
  <2>1. kind' = "json"
    BY <1>6 DEF GetNextJson, FetchesNext, Fetches, NoNextData
  <2>. QED BY <2>1 DEF FramesInv
<1>7. CASE Accept
  <2>1. /\ before' = Len(out') /\ Len(out') \in Nat /\ received' = <<>> /\ pc' = "handshake"
    BY <1>7, LenProperties DEF Accept, TypeInv, TypeOK
  <2>2. FramesWritten' = <<>>
    <3>1. Current' = <<>>
      BY <2>1, SubSeqEmpty DEF Current
    <3>. QED BY <3>1 DEF FramesWritten
  <2>3. FramesWritten' \in Seq(WholeFrames)
    BY <2>2, EmptySeq
  <2>4. SerializeGop(FramesWritten)' = <<>>
    <3>1. SerializeGop(FramesWritten)' = SerializeGop(FramesWritten')
      BY DEF SerializeGop
    <3>. QED BY <2>2, <3>1, GopOfNone
  <2>. QED BY <2>1, <2>3, <2>4 DEF FramesInv
<1>8. CASE GetNextGop
  <2>1. /\ Fetches(next, FrameBuffers(GopRead[next]), next + 1) /\ kind = "video"
        /\ misread' = misread
    BY <1>8 DEF GetNextGop, FetchesNext
  <2>2. next \in 1 .. MAX_ITEMS
    BY ServerAssumption DEF TypeInv, TypeOK, Counters
  <2>3. GopRead[next] = StoredGops[next]
    BY <2>2, StoredReadBack DEF ReadsBack
  <2>4. item' = next /\ buffers' = FrameBuffers(StoredGops[item'])
    BY <2>1, <2>3 DEF Fetches
  <2>5. UNCHANGED <<kind, session, received, out, before, misread>>
    BY <2>1 DEF Fetches
  <2>6. FramesWritten' = FramesWritten
    BY <2>5 DEF FramesWritten, Current
  <2>7. SerializeGop(FramesWritten)' = SerializeGop(FramesWritten)
    BY <2>6 DEF SerializeGop
  <2>8. FrameBuffers(StoredGops[item])' = FrameBuffers(StoredGops[item'])
    BY DEF FrameBuffers, SerializeFrame
  <2>. QED BY <2>2, <2>4, <2>5, <2>6, <2>7, <2>8 DEF FramesInv
<1>9. CASE MisreadJson \/ MisreadGop
  <2>1. PICK i \in 1 .. MAX_ITEMS, bufs \in Seq(Bytes), n \in 1 .. published :
           Fetches(i, bufs, n) /\ misread' = misread \cup {session}
    BY <1>9, Misreads DEF TypeInv
  <2>2. session' \in misread'
    BY <2>1 DEF Fetches
  <2>. QED BY <2>2 DEF FramesInv
<1>10. CASE Write
  <2>1. CASE kind = "video" /\ session \notin misread
    BY <1>10, <2>1, FramesWriteStep
  <2>2. CASE ~ (kind = "video" /\ session \notin misread)
    <3>1. UNCHANGED <<kind, session, misread>>
      BY <1>10 DEF Write
    <3>. QED BY <2>2, <3>1 DEF FramesInv
  <2>. QED BY <2>1, <2>2
<1>. QED
  BY <1>1, <1>2, <1>3, <1>4, <1>5, <1>6, <1>7, <1>8, <1>9, <1>10 DEF Next, Server

\* What a client of the video server receives falls into the frames written to
\* it, as they were saved, as long as nothing was misread for it: whatever was
\* misread for others, and however many clients came before it and went in the
\* middle of a GOP.
THEOREM FramesAreSaved == Spec => []FramesArrive
<1>1. Init => TypeInv /\ FramesInv
  <2>. SUFFICES ASSUME Init PROVE TypeInv /\ FramesInv
    OBVIOUS
  <2>1. before = Len(out) /\ Len(out) \in Nat /\ received = <<>> /\ pc = "setup"
    BY EmptySeq DEF Init
  <2>2. FramesWritten = <<>>
    BY <2>1, CurrentEmpty
  <2>3. FramesWritten \in Seq(WholeFrames) /\ SerializeGop(FramesWritten) = <<>>
    BY <2>2, EmptySeq, GopOfNone
  <2>. QED BY <2>1, <2>3, TypeInit DEF FramesInv
<1>2. TypeInv /\ FramesInv /\ [Next]_vars => (TypeInv /\ FramesInv)'
  BY TypeStep, FramesStep
<1>3. TypeInv /\ FramesInv => FramesArrive
  <2>. SUFFICES ASSUME FramesInv, kind = "video", session \notin misread
                PROVE  FramesIn(received, NoHeader) = FramesWritten
    BY DEF FramesArrive
  <2>. DEFINE gop == FramesWritten
  <2>1. gop \in Seq(WholeFrames) /\ received = SerializeGop(gop)
    BY DEF FramesInv
  <2>. HIDE DEF gop
  <2>2. gop \in Seq(Frame) /\ \A n \in 1 .. Len(gop) : Whole(gop[n])
    <3>1. \A n \in 1 .. Len(gop) : gop[n] \in WholeFrames
      BY <2>1, ElementOfSeq
    <3>2. WholeFrames \subseteq Frame /\ \A f \in WholeFrames : Whole(f)
      BY DEF WholeFrames
    <3>. QED BY <2>1, <3>1, <3>2, SeqMonotonic
  <2>3. FramesIn(SerializeGop(gop), NoHeader) = gop
    BY <2>2, UnsetTyped, GopRoundTrip
  <2>. QED BY <2>1, <2>3 DEF gop
<1>. QED BY <1>1, <1>2, <1>3, PTL DEF Spec

(***************************************************************************)
(* What a client of the json server makes of it.                           *)
(***************************************************************************)

Texts   == Seq(Seq(Letters))
Reading == [texts : Texts, rest : Seq(Letters)]
AtFirst == [texts |-> <<>>, rest |-> <<>>]

\* What the client has found so far has the type it should.
LEMMA TakeTyped ==
    /\ AtFirst \in Reading
    /\ \A c \in Reading, b \in Letters : Take(c, b) \in Reading
<1>1. <<>> \in Seq(Letters) /\ <<>> \in Texts
  BY EmptySeq DEF Texts
<1>2. ASSUME NEW c \in Reading, NEW b \in Letters PROVE Take(c, b) \in Reading
  <2>1. c.texts \in Texts /\ c.rest \in Seq(Letters)
    BY DEF Reading
  <2>2. Append(c.rest, b) \in Seq(Letters) /\ Append(c.texts, c.rest) \in Texts
    BY <2>1, AppendProperties DEF Texts
  <2>. QED BY <1>1, <2>1, <2>2 DEF Take, Reading
<1>. QED BY <1>1, <1>2 DEF AtFirst, Reading

TakeStep == [c \in Reading |-> [b \in Letters |-> Take(c, b)]]

\* The client takes one byte after the other.
LEMMA CutFolds ==
    ASSUME NEW bytes \in Seq(Letters)
    PROVE  \E f : Folds(f, Reading, AtFirst, TakeStep, bytes) /\ Cut(bytes) = f[Len(bytes)]
<1>. DEFINE N == Len(bytes)
<1>1. N \in Nat /\ \A n \in 1 .. N : bytes[n] \in Letters
  BY LenProperties, ElementOfSeq
<1>2. \A c \in Reading, b \in Letters : TakeStep[c][b] = Take(c, b) /\ TakeStep[c][b] \in Reading
  BY TakeTyped DEF TakeStep
<1>3. PICK f : Folds(f, Reading, AtFirst, TakeStep, bytes)
  BY <1>2, TakeTyped, Folding
<1>4. /\ f \in [0 .. N -> Reading] /\ f[0] = AtFirst
      /\ \A n \in 1 .. N : f[n] = Take(f[n - 1], bytes[n])
  <2>1. ASSUME NEW n \in 1 .. N PROVE f[n] = Take(f[n - 1], bytes[n])
    <3>1. n - 1 \in 0 .. N /\ bytes[n] \in Letters
      BY <1>1
    <3>2. f[n - 1] \in Reading /\ f[n] = TakeStep[f[n - 1]][bytes[n]]
      BY <1>3, <3>1 DEF Folds
    <3>. QED BY <1>2, <3>1, <3>2
  <2>. QED BY <1>3, <2>1 DEF Folds
<1>. HIDE DEF N
<1>5. f = [n \in 0 .. N |-> IF n = 0 THEN AtFirst ELSE Take(f[n - 1], bytes[n])]
  <2>1. \A n \in 0 .. N : n # 0 => n \in 1 .. N
    BY <1>1
  <2>. QED BY <1>4, <2>1
<1>. DEFINE cut[n \in 0 .. N] == IF n = 0 THEN AtFirst ELSE Take(cut[n - 1], bytes[n])
<1>6. cut = [n \in 0 .. N |-> IF n = 0 THEN AtFirst ELSE Take(cut[n - 1], bytes[n])]
  BY <1>5, Zenon
<1>7. Cut(bytes) = cut[N]
  BY Zenon DEF Cut, AtFirst, N
<1>. HIDE DEF cut
<1>8. DOMAIN cut = 0 .. N
  BY <1>6, Zenon
<1>9. \A n \in 0 .. N : cut[n] = IF n = 0 THEN AtFirst ELSE Take(cut[n - 1], bytes[n])
  BY <1>6, Zenon
<1>10. cut[0] = AtFirst
  BY <1>1, <1>9
<1>11. \A n \in 1 .. N : cut[n - 1] \in Reading => cut[n] = TakeStep[cut[n - 1]][bytes[n]]
  <2>. SUFFICES ASSUME NEW n \in 1 .. N, cut[n - 1] \in Reading
                PROVE  cut[n] = TakeStep[cut[n - 1]][bytes[n]]
    OBVIOUS
  <2>1. n \in 0 .. N /\ n # 0 /\ bytes[n] \in Letters
    BY <1>1
  <2>. QED BY <1>2, <1>9, <2>1
<1>12. cut[N] = f[N]
  <2>1. FoldsInto(cut, Reading, AtFirst, TakeStep, bytes)
    BY <1>8, <1>10, <1>11, Zenon DEF FoldsInto, N
  <2>2. Len(bytes) \in Nat
    BY <1>1, Zenon DEF N
  <2>. QED BY <1>3, <2>1, <2>2, FoldingUnique DEF N
<1>13. Cut(bytes) = f[N]
  BY <1>7, <1>12, Zenon
<1>. QED BY <1>3, <1>13, Zenon DEF N

\* Of no bytes it has found nothing.
LEMMA CutOfNone == Cut(<<>>) = AtFirst
<1>. DEFINE bytes == <<>>
<1>1. bytes \in Seq(Letters) /\ Len(bytes) = 0
  BY EmptySeq
<1>. HIDE DEF bytes
<1>2. PICK f : Folds(f, Reading, AtFirst, TakeStep, bytes) /\ Cut(bytes) = f[Len(bytes)]
  BY <1>1, CutFolds
<1>. QED BY <1>1, <1>2 DEF Folds, bytes

\* One byte more.
LEMMA CutOfOneMore ==
    ASSUME NEW bytes \in Seq(Letters), NEW b \in Letters
    PROVE  /\ Append(bytes, b) \in Seq(Letters) /\ Cut(bytes) \in Reading
           /\ Cut(Append(bytes, b)) = Take(Cut(bytes), b)
<1>. DEFINE more == Append(bytes, b)
<1>1. more \in Seq(Letters) /\ Len(more) = Len(bytes) + 1
  BY AppendProperties
<1>2. PICK f : Folds(f, Reading, AtFirst, TakeStep, bytes) /\ Cut(bytes) = f[Len(bytes)]
  BY CutFolds
<1>3. PICK g : Folds(g, Reading, AtFirst, TakeStep, more) /\ Cut(more) = g[Len(more)]
  BY <1>1, CutFolds
<1>4. f[Len(bytes)] \in Reading /\ g[Len(bytes) + 1] = TakeStep[f[Len(bytes)]][b]
  BY <1>2, <1>3, FoldingGrows
<1>. QED BY <1>1, <1>2, <1>3, <1>4 DEF TakeStep

\* A sequence of which one element more is behind another.
LEMMA ConcatAppend ==
    ASSUME NEW S, NEW s \in Seq(S), NEW t \in Seq(S), NEW e \in S
    PROVE  s \o Append(t, e) = Append(s \o t, e)
<1>1. <<e>> \in Seq(S) /\ s \o t \in Seq(S)
  BY ConcatProperties
<1>2. s \o (t \o <<e>>) = (s \o t) \o <<e>>
  BY <1>1, ConcatAssociative
<1>3. Append(t, e) = t \o <<e>> /\ Append(s \o t, e) = (s \o t) \o <<e>>
  BY <1>1, AppendIsConcat
<1>. QED BY <1>2, <1>3

\* Two bytes more, and three.
LEMMA CutOfMore ==
    ASSUME NEW bytes \in Seq(Letters), NEW x \in Letters, NEW y \in Letters, NEW z \in Letters
    PROVE  /\ bytes \o <<x, y>> \in Seq(Letters)
           /\ Cut(bytes \o <<x, y>>) = Take(Take(Cut(bytes), x), y)
           /\ bytes \o <<x, y, z>> \in Seq(Letters)
           /\ Cut(bytes \o <<x, y, z>>) = Take(Take(Take(Cut(bytes), x), y), z)
<1>1. /\ <<x>> \in Seq(Letters) /\ <<x, y>> \in Seq(Letters)
      /\ <<x, y>> = Append(<<x>>, y) /\ <<x, y, z>> = Append(<<x, y>>, z)
  OBVIOUS
<1>. DEFINE one == bytes \o <<x>>
            two == bytes \o <<x, y>>
            three == bytes \o <<x, y, z>>
<1>2. one \in Seq(Letters) /\ Cut(one) = Take(Cut(bytes), x)
  <2>1. one = Append(bytes, x)
    BY AppendIsConcat
  <2>. HIDE DEF one
  <2>. QED BY <2>1, CutOfOneMore
<1>3. two = Append(one, y)
  BY <1>1, ConcatAppend
<1>4. three = Append(two, z)
  BY <1>1, ConcatAppend
<1>. HIDE DEF one, two, three
<1>5. two \in Seq(Letters) /\ Cut(two) = Take(Cut(one), y)
  BY <1>2, <1>3, CutOfOneMore
<1>6. three \in Seq(Letters) /\ Cut(three) = Take(Cut(two), z)
  BY <1>4, <1>5, CutOfOneMore
<1>. QED BY <1>2, <1>5, <1>6 DEF two, three

\* A client that is between two messages takes a message, and finds its item if
\* it is one without a '|'.
LEMMA CutMessage ==
    ASSUME NEW bytes \in Seq(Letters), Cut(bytes).rest = <<>>, NEW i \in 0 .. MAX_ITEMS
    PROVE  Cut(bytes \o Message(i)) =
              [texts |-> IF i = 0 \/ i \in Escaped THEN Cut(bytes).texts
                         ELSE Append(Cut(bytes).texts, Text(i)),
               rest  |-> <<>>]
<1>. DEFINE l == Letter(i)
            d == Delimiter(i)
            c == Cut(bytes)
            read == bytes \o Text(i)
<1>1. l \in Letters /\ d \in Letters /\ ~ l.delimiter /\ d.delimiter /\ l.item = i
  BY DEF Letter, Delimiter, Letters
<1>2. c.rest = <<>>
  OBVIOUS
<1>3. \A t \in ItemTexts : Len(t) = 3 \/ Len(t) = 2
  BY DEF ItemTexts, Text
<1>4. <<l>> \notin ItemTexts
  <2>1. SUFFICES ASSUME NEW t \in ItemTexts PROVE t # <<l>>
    OBVIOUS
  <2>2. Len(<<l>>) = 1
    OBVIOUS
  <2>3. Len(t) = 3 \/ Len(t) = 2
    BY <1>3
  <2>4. Len(t) # 1
    <3>. DEFINE n == Len(t)
    <3>1. n = 3 \/ n = 2
      BY <2>3, Zenon
    <3>2. n # 1
      <4>. HIDE DEF n
      <4>. QED BY <3>1
    <3>. QED BY <3>2, Zenon
  <2>. QED BY <2>2, <2>4, Zenon
<1>5. Text(i) \in Seq(Letters)
  BY <1>1 DEF Text
<1>6. read \in Seq(Letters) => Cut(bytes \o Message(i)) = Take(Cut(read), d)
  <2>1. Message(i) = Append(Text(i), d)
    <3>. DEFINE t == Text(i)
    <3>. HIDE DEF t, d
    <3>1. Append(t, d) = t \o <<d>>
      BY <1>1, <1>5, AppendIsConcat DEF t
    <3>. QED BY <3>1 DEF Message, t, d
  <2>2. bytes \o Append(Text(i), d) = Append(bytes \o Text(i), d)
    BY <1>1, <1>5, ConcatAppend
  <2>3. bytes \o Message(i) = Append(read, d)
    BY <2>1, <2>2
  <2>. HIDE DEF read, d
  <2>. QED BY <1>1, <2>3, CutOfOneMore
<1>7. Take(c, l) = [texts |-> c.texts, rest |-> <<l>>]
  <2>. HIDE DEF c, l
  <2>. QED BY <1>1, <1>2 DEF Take
<1>8. Take([texts |-> c.texts, rest |-> <<l>>], d) = [texts |-> c.texts, rest |-> <<>>]
  <2>. HIDE DEF c, l, d
  <2>. QED BY <1>1, <1>4 DEF Take
<1>9. CASE i \in Escaped
  <2>1. Text(i) = <<l, d, l>>
    BY <1>9 DEF Text
  <2>. HIDE DEF l, d
  <2>2. Cut(read) = Take(Take(Take(c, l), d), l) /\ read \in Seq(Letters)
    <3>1. /\ Cut(bytes \o <<l, d, l>>) = Take(Take(Take(Cut(bytes), l), d), l)
          /\ bytes \o <<l, d, l>> \in Seq(Letters)
      BY <1>1, CutOfMore
    <3>. QED BY <2>1, <3>1
  <2>3. Take([texts |-> c.texts, rest |-> <<>>], l) = [texts |-> c.texts, rest |-> <<l>>]
    BY <1>1 DEF Take
  <2>. HIDE DEF c, read
  <2>4. Cut(bytes \o Message(i)) = [texts |-> c.texts, rest |-> <<>>]
    BY <1>6, <1>7, <1>8, <2>2, <2>3
  <2>. QED BY <1>9, <2>4 DEF c
<1>10. CASE i \notin Escaped
  <2>1. Text(i) = <<l, l>>
    BY <1>10 DEF Text
  <2>2. Text(i) \in ItemTexts <=> i # 0
    <3>1. i # 0 => Text(i) \in ItemTexts
      BY ServerAssumption DEF ItemTexts
    <3>2. ASSUME NEW j \in 1 .. MAX_ITEMS, <<l, l>> = Text(j) PROVE i # 0
      <4>1. Text(j)[1] = Letter(j)
        BY DEF Text
      <4>2. l = Letter(j)
        <5>. HIDE DEF l
        <5>. QED BY <3>2, <4>1
      <4>3. l.item = i /\ Letter(j).item = j
        BY DEF Letter
      <4>. QED BY <4>2, <4>3
    <3>. HIDE DEF l
    <3>. QED BY <2>1, <3>1, <3>2 DEF ItemTexts
  <2>. HIDE DEF l, d
  <2>3. Cut(read) = Take(Take(c, l), l) /\ read \in Seq(Letters)
    <3>1. /\ Cut(bytes \o <<l, l>>) = Take(Take(Cut(bytes), l), l)
          /\ bytes \o <<l, l>> \in Seq(Letters)
      BY <1>1, CutOfMore
    <3>. QED BY <2>1, <3>1
  <2>4. Take([texts |-> c.texts, rest |-> <<l>>], l) = [texts |-> c.texts, rest |-> Text(i)]
    BY <1>1, <2>1 DEF Take
  <2>5. Take([texts |-> c.texts, rest |-> Text(i)], d) =
          [texts |-> IF i # 0 THEN Append(c.texts, Text(i)) ELSE c.texts, rest |-> <<>>]
    BY <1>1, <2>2 DEF Take
  <2>. HIDE DEF c, read
  <2>6. Cut(bytes \o Message(i)) =
          [texts |-> IF i # 0 THEN Append(c.texts, Text(i)) ELSE c.texts, rest |-> <<>>]
    BY <1>6, <1>7, <2>3, <2>4, <2>5
  <2>. QED BY <1>10, <2>6 DEF c
<1>. QED BY <1>9, <1>10

(***************************************************************************)
(* The texts of the items written.                                         *)
(***************************************************************************)

Items == [item : 1 .. MAX_ITEMS, session : Nat, part : Nat]
TextStep ==
    [t \in Texts |-> [w \in Items |-> IF w.item \in Escaped THEN t ELSE Append(t, Text(w.item))]]

\* A text is letters and '|'s.
LEMMA TextTyped ==
    ASSUME NEW i \in 1 .. MAX_ITEMS
    PROVE  Text(i) \in Seq(Letters)
<1>1. Letter(i) \in Letters /\ Delimiter(i) \in Letters
  BY DEF Letter, Delimiter, Letters
<1>. QED BY <1>1 DEF Text

\* One text comes after the other.
LEMMA TextsFold ==
    ASSUME NEW writes \in Seq(Items)
    PROVE  \E f : Folds(f, Texts, <<>>, TextStep, writes) /\ TextsOf(writes) = f[Len(writes)]
<1>. DEFINE N == Len(writes)
            With(t, w) == IF w.item \in Escaped THEN t ELSE Append(t, Text(w.item))
            nothing == <<>>
<1>1. N \in Nat /\ \A n \in 1 .. N : writes[n] \in Items
  BY LenProperties, ElementOfSeq
<1>2. \A t \in Texts, w \in Items : TextStep[t][w] = With(t, w) /\ TextStep[t][w] \in Texts
  <2>. SUFFICES ASSUME NEW t \in Texts, NEW w \in Items
                PROVE  TextStep[t][w] = With(t, w) /\ With(t, w) \in Texts
    OBVIOUS
  <2>1. Text(w.item) \in Seq(Letters)
    BY TextTyped DEF Items
  <2>2. Append(t, Text(w.item)) \in Texts
    BY <2>1, AppendProperties DEF Texts
  <2>. QED BY <2>2 DEF TextStep
<1>3. nothing \in Texts
  BY EmptySeq DEF Texts
<1>. HIDE DEF nothing
<1>4. PICK f : Folds(f, Texts, nothing, TextStep, writes)
  BY <1>2, <1>3, Folding
<1>. HIDE DEF With
<1>5. /\ f \in [0 .. N -> Texts] /\ f[0] = nothing
      /\ \A n \in 1 .. N : f[n] = With(f[n - 1], writes[n])
  <2>1. ASSUME NEW n \in 1 .. N PROVE f[n] = With(f[n - 1], writes[n])
    <3>1. n - 1 \in 0 .. N /\ writes[n] \in Items
      BY <1>1
    <3>2. f[n - 1] \in Texts /\ f[n] = TextStep[f[n - 1]][writes[n]]
      BY <1>4, <3>1 DEF Folds
    <3>. QED BY <1>2, <3>1, <3>2
  <2>. QED BY <1>4, <2>1 DEF Folds
<1>. HIDE DEF N
<1>6. f = [n \in 0 .. N |-> IF n = 0 THEN nothing ELSE With(f[n - 1], writes[n])]
  <2>1. \A n \in 0 .. N : n # 0 => n \in 1 .. N
    BY <1>1
  <2>. QED BY <1>5, <2>1
<1>. DEFINE texts[n \in 0 .. N] == IF n = 0 THEN nothing ELSE With(texts[n - 1], writes[n])
<1>7. texts = [n \in 0 .. N |-> IF n = 0 THEN nothing ELSE With(texts[n - 1], writes[n])]
  BY <1>6, Zenon
<1>8. TextsOf(writes) = texts[N]
  BY Zenon DEF TextsOf, With, nothing, N
<1>. HIDE DEF texts
<1>9. DOMAIN texts = 0 .. N
  BY <1>7, Zenon
<1>10. \A n \in 0 .. N : texts[n] = IF n = 0 THEN nothing ELSE With(texts[n - 1], writes[n])
  BY <1>7, Zenon
<1>11. texts[0] = nothing
  BY <1>1, <1>10
<1>12. \A n \in 1 .. N : texts[n - 1] \in Texts => texts[n] = TextStep[texts[n - 1]][writes[n]]
  <2>. SUFFICES ASSUME NEW n \in 1 .. N, texts[n - 1] \in Texts
                PROVE  texts[n] = TextStep[texts[n - 1]][writes[n]]
    OBVIOUS
  <2>1. n \in 0 .. N /\ n # 0 /\ writes[n] \in Items
    BY <1>1
  <2>. QED BY <1>2, <1>10, <2>1
<1>13. texts[N] = f[N]
  <2>1. FoldsInto(texts, Texts, nothing, TextStep, writes)
    BY <1>9, <1>11, <1>12, Zenon DEF FoldsInto, N
  <2>2. Len(writes) \in Nat
    BY <1>1, Zenon DEF N
  <2>. QED BY <1>4, <2>1, <2>2, FoldingUnique DEF N
<1>14. TextsOf(writes) = f[N]
  BY <1>8, <1>13, Zenon
<1>. QED BY <1>4, <1>14, Zenon DEF N, nothing

\* Of no writes there are no texts.
LEMMA TextsOfNone == TextsOf(<<>>) = <<>>
<1>. DEFINE writes == <<>>
<1>1. writes \in Seq(Items) /\ Len(writes) = 0
  BY EmptySeq
<1>. HIDE DEF writes
<1>2. PICK f : Folds(f, Texts, <<>>, TextStep, writes) /\ TextsOf(writes) = f[Len(writes)]
  BY <1>1, TextsFold
<1>. QED BY <1>1, <1>2 DEF Folds, writes

\* One write more is one text more, unless the item has a '|'.
LEMMA TextsOfOneMore ==
    ASSUME NEW writes \in Seq(Items), NEW w \in Items
    PROVE  TextsOf(Append(writes, w)) =
              IF w.item \in Escaped THEN TextsOf(writes)
              ELSE Append(TextsOf(writes), Text(w.item))
<1>. DEFINE more == Append(writes, w)
<1>1. more \in Seq(Items) /\ Len(more) = Len(writes) + 1
  BY AppendProperties
<1>2. PICK f : Folds(f, Texts, <<>>, TextStep, writes) /\ TextsOf(writes) = f[Len(writes)]
  BY TextsFold
<1>3. PICK g : Folds(g, Texts, <<>>, TextStep, more) /\ TextsOf(more) = g[Len(more)]
  BY <1>1, TextsFold
<1>4. f[Len(writes)] \in Texts /\ g[Len(writes) + 1] = TextStep[f[Len(writes)]][w]
  BY <1>2, <1>3, FoldingGrows
<1>. QED BY <1>1, <1>2, <1>3, <1>4 DEF TextStep

\* As long as nothing is misread for it, a client of the json server has found,
\* between two messages, the texts of the items written to it, and what is at hand
\* is a message.
MessagesInv ==
    kind = "json" /\ session \notin misread =>
       /\ Cut(received) = [texts |-> TextsOf(Current), rest |-> <<>>]
       /\ pc = "write" => item \in 0 .. MAX_ITEMS /\ buffers = <<Message(item)>>

\* Nothing is written to a client, and nothing new is to be.
LEMMA MessagesStay ==
    ASSUME MessagesInv, UNCHANGED <<kind, session, received, out, before>>,
           misread \subseteq misread',
           pc' = "write" => pc = "write" /\ UNCHANGED <<item, buffers>>
    PROVE  MessagesInv'
<1>1. Current' = Current
  BY DEF Current
<1>2. TextsOf(Current)' = TextsOf(Current) /\ Cut(received)' = Cut(received)
  BY <1>1 DEF TextsOf, Cut, Take
<1>. QED BY <1>1, <1>2 DEF MessagesInv

\* A client receives a message.
LEMMA MessagesWriteStep ==
    ASSUME TypeInv, MessagesInv, Write, kind = "json", session \notin misread
    PROVE  MessagesInv'
<1>. USE DEF store, clientVars
<1>1. /\ Cut(received) = [texts |-> TextsOf(Current), rest |-> <<>>]
      /\ item \in 0 .. MAX_ITEMS /\ buffers = <<Message(item)>>
  BY DEF MessagesInv, Write
<1>2. received \in Seq(Letters)
  BY DEF TypeInv, TypeOK, Bytes
<1>3. part' = 1 /\ pc' = "fetch" /\ buffers[part'] = Message(item)
  <2>1. Len(buffers) = 1 /\ part \in Nat /\ part < 1 /\ part' = part + 1
    BY <1>1 DEF TypeInv, TypeOK, Counters, Write, Written
  <2>. QED BY <1>1, <2>1 DEF Write, Written
<1>4. UNCHANGED <<kind, item, session, before, misread>>
  BY DEF Write
<1>5. Cut(received \o Message(item)) =
        [texts |-> IF item = 0 \/ item \in Escaped THEN TextsOf(Current)
                   ELSE Append(TextsOf(Current), Text(item)),
         rest  |-> <<>>]
  BY <1>1, <1>2, CutMessage
<1>6. \A bytes : Cut(bytes)' = Cut(bytes)
  BY DEF Cut, Take
<1>7. CASE item = 0
  <2>1. out' = out /\ (received' = received \/ received' = received \o Message(item))
    BY <1>3, <1>7 DEF Write, Recorded
  <2>2. Current' = Current
    BY <1>4, <2>1 DEF Current
  <2>3. Cut(received') = [texts |-> TextsOf(Current'), rest |-> <<>>]
    BY <1>1, <1>5, <1>7, <2>1, <2>2
  <2>. QED BY <1>3, <2>3 DEF MessagesInv
<1>8. CASE item # 0
  <2>. DEFINE w == [session |-> session, item |-> item, part |-> part']
              W == [session : 1 .. MAX_SESSIONS, item : 1 .. MAX_ITEMS, part : Nat \ {0}]
  <2>1. w \in W /\ w \in Items /\ W \subseteq Items
    <3>1. session \in 1 .. MAX_SESSIONS /\ item \in 1 .. MAX_ITEMS
      BY <1>1, <1>8, ServerAssumption DEF TypeInv, TypeOK, Counters, Write
    <3>. QED BY <1>3, <3>1, ServerAssumption DEF Items
  <2>2. out \in Seq(W) /\ before \in 0 .. Len(out) /\ out' = Append(out, w)
    BY <1>8 DEF TypeInv, TypeOK, Write
  <2>3. w.item = item
    OBVIOUS
  <2>. HIDE DEF w, W
  <2>4. Current \in Seq(W) /\ Current' = Append(Current, w)
    BY <1>4, <2>1, <2>2, CurrentGrows
  <2>5. Current \in Seq(Items)
    BY <2>1, <2>4, SeqMonotonic
  <2>6. TextsOf(Current') = IF item \in Escaped THEN TextsOf(Current)
                            ELSE Append(TextsOf(Current), Text(item))
    BY <2>1, <2>3, <2>4, <2>5, TextsOfOneMore
  <2>7. received' = received \o Message(item)
    BY <1>3, <1>8 DEF Write, Recorded
  <2>8. Cut(received') = [texts |-> TextsOf(Current'), rest |-> <<>>]
    BY <1>5, <1>8, <2>6, <2>7
  <2>. QED BY <1>3, <2>8 DEF MessagesInv
<1>. QED BY <1>7, <1>8

\* Every step keeps what the clients have found.
LEMMA MessagesStep == TypeInv /\ MessagesInv /\ [Next]_vars => MessagesInv'
<1>. SUFFICES ASSUME TypeInv, MessagesInv, [Next]_vars PROVE MessagesInv'
  OBVIOUS
<1>. USE DEF clientVars, store, writing, seen
<1>1. CASE UNCHANGED vars
  BY <1>1, MessagesStay DEF vars
<1>2. CASE \/ Publish \/ Disturb \/ Reset
           \/ \E c \in Clients : ClientConnects(c) \/ ClientLeaves(c)
  BY <1>2, MessagesStay DEF Publish, Disturb, Reset, ClientConnects, ClientLeaves
<1>3. CASE Setup \/ SetupFails \/ Handshake \/ HandshakeFails \/ GetNextDataThrows
  BY <1>3, MessagesStay DEF Setup, SetupFails, Handshake, HandshakeFails, GetNextDataThrows
<1>4. CASE WriteFails \/ WriteKills \/ Shutdown
  BY <1>4, MessagesStay DEF WriteFails, WriteKills, Shutdown
<1>5. CASE WriteLost
  <2>1. pc = "write"
    BY <1>5 DEF WriteLost
  <2>. QED BY <1>5, <2>1, MessagesStay DEF WriteLost, Written
<1>6. CASE GetNextGop
  <2>1. kind' = "video"
    BY <1>6 DEF GetNextGop, FetchesNext, Fetches
  <2>. QED BY <2>1 DEF MessagesInv
<1>7. CASE Accept
  <2>1. /\ before' = Len(out') /\ Len(out') \in Nat /\ received' = <<>> /\ pc' = "handshake"
    BY <1>7, LenProperties DEF Accept, TypeInv, TypeOK
  <2>2. Current' = <<>>
    BY <2>1, SubSeqEmpty DEF Current
  <2>. QED BY <2>1, <2>2, CutOfNone, TextsOfNone DEF MessagesInv, AtFirst
<1>8. CASE GetNextJson \/ NoNextData
  <2>1. /\ item' \in 0 .. MAX_ITEMS /\ buffers' = <<Message(item')>>
        /\ UNCHANGED <<kind, session, received, out, before, misread>>
    <3>1. CASE GetNextJson
      <4>1. /\ item' = next /\ buffers' = <<Message(next)>> /\ next < published
            /\ UNCHANGED <<kind, session, received, out, before, misread>>
        BY <3>1 DEF GetNextJson, FetchesNext, Fetches, seen
      <4>2. next \in Nat /\ 1 <= next /\ published \in Nat /\ published <= MAX_ITEMS
        BY DEF TypeInv, TypeOK, Counters
      <4>. QED BY <4>1, <4>2, ServerAssumption
    <3>2. CASE NoNextData
      <4>1. /\ item' = 0 /\ buffers' = <<Message(0)>>
            /\ UNCHANGED <<kind, session, received, out, before, misread>>
        BY <3>2 DEF NoNextData, store, seen
      <4>. QED BY <4>1, ServerAssumption
    <3>. QED BY <1>8, <3>1, <3>2
  <2>2. Current' = Current
    BY <2>1 DEF Current
  <2>3. \/ Cut(received') = [texts |-> TextsOf(Current'), rest |-> <<>>]
        \/ kind' # "json" \/ session' \in misread'
    BY <2>1, <2>2 DEF MessagesInv
  <2>. QED BY <2>1, <2>3 DEF MessagesInv, Message, Text, Letter, Delimiter
<1>9. CASE Write
  <2>1. CASE kind = "json" /\ session \notin misread
    BY <1>9, <2>1, MessagesWriteStep
  <2>2. CASE ~ (kind = "json" /\ session \notin misread)
    <3>1. UNCHANGED <<kind, session, misread>>
      BY <1>9 DEF Write
    <3>. QED BY <2>2, <3>1 DEF MessagesInv
  <2>. QED BY <2>1, <2>2
<1>10. CASE MisreadJson \/ MisreadGop
  <2>1. PICK i \in 1 .. MAX_ITEMS, bufs \in Seq(Bytes), n \in 1 .. published :
           Fetches(i, bufs, n) /\ misread' = misread \cup {session}
    BY <1>10, Misreads DEF TypeInv
  <2>2. session' \in misread'
    BY <2>1 DEF Fetches
  <2>. QED BY <2>2 DEF MessagesInv
<1>. QED
  BY <1>1, <1>2, <1>3, <1>4, <1>5, <1>6, <1>7, <1>8, <1>9, <1>10 DEF Next, Server

\* A client of the json server that cuts what it receives at each '|' finds the
\* items written to it that have none in a string, each of them and in order, as
\* long as nothing was misread for it: whatever "null"s and other items lie between
\* them.
THEOREM MessagesAreItems == Spec => []MessagesArrive
<1>1. Init => TypeInv /\ MessagesInv
  <2>. SUFFICES ASSUME Init PROVE TypeInv /\ MessagesInv
    OBVIOUS
  <2>1. before = Len(out) /\ Len(out) \in Nat /\ received = <<>> /\ pc = "setup"
    BY EmptySeq DEF Init
  <2>2. Current = <<>>
    BY <2>1, CurrentEmpty
  <2>. QED BY <2>1, <2>2, TypeInit, CutOfNone, TextsOfNone DEF MessagesInv, AtFirst
<1>2. TypeInv /\ MessagesInv /\ [Next]_vars => (TypeInv /\ MessagesInv)'
  BY TypeStep, MessagesStep
<1>3. TypeInv /\ MessagesInv => MessagesArrive
  BY DEF MessagesInv, MessagesArrive
<1>. QED BY <1>1, <1>2, <1>3, PTL DEF Spec
=============================================================================
