-------------------------- MODULE FrameCodecProofs --------------------------
(***************************************************************************)
(* A frame survives its way into an item and out of it, and one that is cut *)
(* short does not come out as a frame with a body: theorems about           *)
(* FrameCodec, for every number of values of a byte, every frame and        *)
(* whatever follows it.                                                     *)
(***************************************************************************)
EXTENDS FrameCodec, SequenceTheorems, Recursion

(***************************************************************************)
(* Two sequences of known lengths, one after the other.                    *)
(***************************************************************************)

\* The length and the elements of a concatenation.
LEMMA ConcatParts ==
    ASSUME NEW S, NEW s \in Seq(S), NEW t \in Seq(S), NEW m \in Nat, NEW n \in Nat,
           Len(s) = m, Len(t) = n
    PROVE  /\ s \o t \in Seq(S) /\ Len(s \o t) = m + n
           /\ \A i \in 1 .. m : (s \o t)[i] = s[i] /\ (s \o t)[i] \in S
           /\ \A i \in 1 .. n : (s \o t)[m + i] = t[i] /\ (s \o t)[m + i] \in S
<1>1. /\ s \o t \in Seq(S) /\ Len(s \o t) = m + n
      /\ \A i \in 1 .. m + n : (s \o t)[i] = IF i <= m THEN s[i] ELSE t[i - m]
  BY ConcatProperties
<1>2. \A i \in 1 .. m : s[i] \in S
  BY ElementOfSeq
<1>3. \A i \in 1 .. n : t[i] \in S
  BY ElementOfSeq
<1>4. ASSUME NEW i \in 1 .. m PROVE (s \o t)[i] = s[i]
  BY <1>1
<1>5. ASSUME NEW i \in 1 .. n PROVE (s \o t)[m + i] = t[i]
  <2>1. m + i \in 1 .. m + n /\ ~ (m + i <= m) /\ (m + i) - m = i
    OBVIOUS
  <2>. QED BY <1>1, <2>1
<1>. QED BY <1>1, <1>2, <1>3, <1>4, <1>5

\* The two parts of a concatenation can be cut out of it again.
LEMMA CutConcat ==
    ASSUME NEW S, NEW s \in Seq(S), NEW t \in Seq(S), NEW m \in Nat, NEW n \in Nat,
           Len(s) = m, Len(t) = n
    PROVE  SubSeq(s \o t, 1, m) = s /\ SubSeq(s \o t, m + 1, m + n) = t
<1>. DEFINE u     == s \o t
            first == SubSeq(u, 1, m)
            rest  == SubSeq(u, m + 1, m + n)
<1>1. /\ \A i \in 1 .. m : u[i] = s[i] /\ u[i] \in S
      /\ \A i \in 1 .. n : u[m + i] = t[i] /\ u[m + i] \in S
  <2>. HIDE DEF u, first, rest
  <2>1. /\ s \o t \in Seq(S) /\ Len(s \o t) = m + n
        /\ \A i \in 1 .. m : (s \o t)[i] = s[i] /\ (s \o t)[i] \in S
        /\ \A i \in 1 .. n : (s \o t)[m + i] = t[i] /\ (s \o t)[m + i] \in S
    BY ConcatParts, SMTT(30)
  <2>. QED BY <2>1 DEF u
<1>. HIDE DEF u
<1>2. first \in Seq(S) /\ Len(first) = m /\ \A i \in 1 .. m : first[i] = u[i]
  BY <1>1, SubSeqProperties
<1>3. \A i \in m + 1 .. m + n : u[i] \in S
  <2>1. ASSUME NEW i \in m + 1 .. m + n PROVE u[i] \in S
    <3>1. i - m \in 1 .. n /\ m + (i - m) = i
      OBVIOUS
    <3>. QED BY <1>1, <3>1
  <2>. QED BY <2>1
<1>4. rest \in Seq(S) /\ Len(rest) = n /\ \A i \in 1 .. n : rest[i] = u[m + i]
  <2>. DEFINE a == m + 1
              b == m + n
  <2>1. a \in Int /\ b \in Int /\ b - a + 1 = n /\ (a <= b <=> n > 0)
    OBVIOUS
  <2>2. \A i \in 1 .. n : (a + i) - 1 = m + i
    OBVIOUS
  <2>3. \A i \in a .. b : u[i] \in S
    BY <1>3
  <2>. HIDE DEF a, b
  <2>4. /\ SubSeq(u, a, b) \in Seq(S)
        /\ Len(SubSeq(u, a, b)) = IF a <= b THEN b - a + 1 ELSE 0
        /\ \A i \in 1 .. b - a + 1 : SubSeq(u, a, b)[i] = u[(a + i) - 1]
    BY <2>1, <2>3, SubSeqProperties
  <2>5. SubSeq(u, a, b) \in Seq(S) /\ Len(SubSeq(u, a, b)) = n
    BY <2>1, <2>4
  <2>6. \A i \in 1 .. n : SubSeq(u, a, b)[i] = u[m + i]
    BY <2>1, <2>2, <2>4
  <2>. QED BY <2>5, <2>6 DEF a, b
<1>. HIDE DEF first, rest
<1>5. first = s
  BY <1>1, <1>2, SeqEqual
<1>6. rest = t
  BY <1>1, <1>4, SeqEqual
<1>. QED BY <1>5, <1>6 DEF u, first, rest

(***************************************************************************)
(* htonl and ntohl.                                                        *)
(***************************************************************************)

\* The two bytes of a number are bytes, and ntohl puts them together again.
LEMMA NtohlHtonl ==
    ASSUME NEW n \in UInt
    PROVE  /\ Htonl(n) \in Seq(Byte) /\ Len(Htonl(n)) = 2
           /\ n \div BYTE \in Byte /\ n % BYTE \in Byte
           /\ Ntohl(n \div BYTE, n % BYTE) = n
<1>1. BYTE \in Nat /\ BYTE > 0 /\ n \in Nat /\ n < BYTE * BYTE
  BY ByteAssumption DEF UInt
<1>2. n = BYTE * (n \div BYTE) + (n % BYTE) /\ n % BYTE \in 0 .. BYTE - 1 /\ n \div BYTE \in Int
  BY <1>1
<1>3. n \div BYTE >= 0
  BY <1>1
<1>4. n \div BYTE < BYTE
  <2>1. SUFFICES ASSUME n \div BYTE >= BYTE PROVE FALSE
    BY <1>1, <1>2
  <2>2. BYTE * (n \div BYTE) >= BYTE * BYTE
    BY <1>1, <1>2, <2>1
  <2>. QED BY <1>1, <1>2, <2>2
<1>. QED BY <1>1, <1>2, <1>3, <1>4 DEF Htonl, Ntohl, Byte

\* A serialised header has HEADER bytes, each field at its place.
LEMMA HeaderBytes ==
    ASSUME NEW h \in HeaderStruct
    PROVE  /\ SerializeHeader(h) \in Seq(Byte)
           /\ Len(SerializeHeader(h)) = HEADER
           /\ DeserializeHeader(SerializeHeader(h)) = h
<1>. DEFINE s == <<h.frameId \div BYTE, h.frameId % BYTE, h.bodySize \div BYTE,
                   h.bodySize % BYTE, h.gopStartFlag, h.gopSize>>
<1>1. h.frameId \in UInt /\ h.bodySize \in UInt /\ h.gopStartFlag \in Byte /\ h.gopSize \in Byte
  BY DEF HeaderStruct
<1>2. h = [frameId |-> h.frameId, bodySize |-> h.bodySize,
           gopStartFlag |-> h.gopStartFlag, gopSize |-> h.gopSize]
  BY DEF HeaderStruct
<1>3. SerializeHeader(h) = s
  <2>. DEFINE x == Htonl(h.frameId)
              y == Htonl(h.bodySize)
              z == <<h.gopStartFlag, h.gopSize>>
  <2>1. x \in Seq(Byte) /\ y \in Seq(Byte) /\ z \in Seq(Byte) /\ s \in Seq(Byte)
    BY <1>1, NtohlHtonl
  <2>2. Len(x) = 2 /\ Len(y) = 2 /\ Len(z) = 2 /\ Len(s) = 6
    BY DEF Htonl
  <2>3. /\ x \o y \in Seq(Byte) /\ Len(x \o y) = 4
        /\ \A k \in 1 .. 2 : (x \o y)[k] = x[k]
        /\ \A k \in 1 .. 2 : (x \o y)[2 + k] = y[k]
    <3>. HIDE DEF x, y
    <3>1. /\ x \o y \in Seq(Byte) /\ Len(x \o y) = Len(x) + Len(y)
          /\ \A k \in 1 .. Len(x) : (x \o y)[k] = x[k]
          /\ \A k \in 1 .. Len(y) : (x \o y)[Len(x) + k] = y[k]
      BY <2>1, ConcatParts, LenProperties
    <3>. QED BY <3>1, <2>2
  <2>4. /\ (x \o y) \o z \in Seq(Byte) /\ Len((x \o y) \o z) = 6
        /\ \A k \in 1 .. 4 : ((x \o y) \o z)[k] = (x \o y)[k]
        /\ \A k \in 1 .. 2 : ((x \o y) \o z)[4 + k] = z[k]
    <3>. DEFINE xy == x \o y
    <3>1. xy \in Seq(Byte) /\ Len(xy) = 4
      BY <2>3
    <3>0. z \in Seq(Byte) /\ Len(z) = 2
      BY <2>1, <2>2
    <3>. HIDE DEF xy, z
    <3>2. /\ xy \o z \in Seq(Byte) /\ Len(xy \o z) = 6
          /\ \A k \in 1 .. 4 : (xy \o z)[k] = xy[k]
          /\ \A k \in 1 .. 2 : (xy \o z)[4 + k] = z[k]
      <4>1. /\ xy \o z \in Seq(Byte) /\ Len(xy \o z) = Len(xy) + Len(z)
            /\ \A k \in 1 .. Len(xy) : (xy \o z)[k] = xy[k]
            /\ \A k \in 1 .. Len(z) : (xy \o z)[Len(xy) + k] = z[k]
        <5>1. xy \in Seq(Byte) /\ z \in Seq(Byte) /\ Len(xy) \in Nat /\ Len(z) \in Nat
          BY <3>1, <3>0
        <5>. QED BY <5>1, ConcatParts
      <4>. QED BY <4>1, <3>1, <3>0
    <3>. QED BY <3>2 DEF xy
  <2>5. \A k \in 1 .. 6 : ((x \o y) \o z)[k] = s[k]
    <3>1. x[1] = s[1] /\ x[2] = s[2] /\ y[1] = s[3] /\ y[2] = s[4] /\ z[1] = s[5] /\ z[2] = s[6]
      BY DEF Htonl
    <3>. DEFINE w == (x \o y) \o z
    <3>. HIDE DEF x, y, z, s
    <3>2. w[1] = s[1] /\ w[2] = s[2] /\ w[3] = s[3] /\ w[4] = s[4]
      BY <2>3, <2>4, <3>1
    <3>3. w[5] = s[5] /\ w[6] = s[6]
      BY <2>4, <3>1
    <3>. HIDE DEF w
    <3>4. \A k \in 1 .. 6 : k = 1 \/ k = 2 \/ k = 3 \/ k = 4 \/ k = 5 \/ k = 6
      OBVIOUS
    <3>5. \A k \in 1 .. 6 : w[k] = s[k]
      BY <3>2, <3>3, <3>4
    <3>. QED BY <3>5 DEF w
  <2>6. (x \o y) \o z = s
    <3>. HIDE DEF x, y, z, s
    <3>. QED BY <2>1, <2>2, <2>4, <2>5, SeqEqual
  <2>. QED BY <2>6 DEF SerializeHeader
<1>4. s \in Seq(Byte) /\ Len(s) = 6
  BY <1>1, NtohlHtonl
<1>5. DeserializeHeader(s) = h
  BY <1>1, <1>2, NtohlHtonl DEF DeserializeHeader
<1>. QED BY <1>3, <1>4, <1>5 DEF HEADER

(***************************************************************************)
(* Frames.                                                                 *)
(***************************************************************************)

\* A serialised frame takes the room its header says: the next frame of an item
\* is found GetSize further.
THEOREM SizeIsRoom ==
    ASSUME NEW f \in Frame, f.header.bodySize = Len(f.body)
    PROVE  SerializeFrame(f) \in Seq(Byte) /\ Len(SerializeFrame(f)) = GetSize(f)
<1>1. f.header \in HeaderStruct /\ f.body \in Seq(Byte)
  BY DEF Frame
<1>. DEFINE h == SerializeHeader(f.header)
            n == f.header.bodySize
<1>2. h \in Seq(Byte) /\ Len(h) = HEADER /\ HEADER \in Nat /\ n \in Nat
  BY <1>1, HeaderBytes, LenProperties DEF HEADER
<1>. HIDE DEF h, n
<1>3. h \o f.body \in Seq(Byte) /\ Len(h \o f.body) = HEADER + n
  BY <1>1, <1>2, ConcatParts DEF n
<1>. QED BY <1>3 DEF SerializeFrame, GetSize, h, n

\* Frame::Deserialize finds in a buffer the frame that Frame::Serialize put at
\* its start, whatever follows.
THEOREM FrameRoundTrip ==
    ASSUME NEW f \in Frame, f.header.bodySize = Len(f.body),
           NEW rest \in Seq(Byte), NEW unset
    PROVE  DeserializeFrame(SerializeFrame(f) \o rest, unset) = f
<1>. DEFINE h      == SerializeHeader(f.header)
            buffer == h \o (f.body \o rest)
            tail   == f.body \o rest
            end    == HEADER + Len(f.body)
<1>1. /\ f.header \in HeaderStruct /\ f.body \in Seq(Byte)
      /\ f = [header |-> f.header, body |-> f.body]
  BY DEF Frame
<1>2. h \in Seq(Byte) /\ Len(h) = HEADER /\ DeserializeHeader(h) = f.header
  BY <1>1, HeaderBytes
<1>3. tail \in Seq(Byte) /\ Len(tail) = Len(f.body) + Len(rest)
  BY <1>1, ConcatParts, LenProperties
<1>4. SerializeFrame(f) \o rest = buffer
  <2>1. SerializeFrame(f) \o rest = (h \o f.body) \o rest
    BY DEF SerializeFrame
  <2>. HIDE DEF h
  <2>2. (h \o f.body) \o rest = h \o (f.body \o rest)
    BY <1>1, <1>2, ConcatAssociative
  <2>. QED BY <2>1, <2>2
<1>5. SerializeFrame(f) \in Seq(Byte) /\ Len(SerializeFrame(f)) = end
  BY SizeIsRoom DEF GetSize
<1>6. buffer \in Seq(Byte) /\ Len(buffer) = end + Len(rest)
  <2>. HIDE DEF buffer, end
  <2>. QED BY <1>4, <1>5, ConcatProperties
<1>7. SubSeq(buffer, 1, HEADER) = h
  <2>. HIDE DEF h, tail
  <2>1. SubSeq(h \o tail, 1, Len(h)) = h
    BY <1>2, <1>3, CutConcat, LenProperties
  <2>. QED BY <2>1, <1>2 DEF tail
<1>8. SubSeq(buffer, HEADER + 1, end) = f.body
  <2>. DEFINE frame == SerializeFrame(f)
  <2>1. buffer = frame \o rest
    BY <1>4
  <2>2. SubSeq(frame, HEADER + 1, end) = f.body
    <3>. HIDE DEF h
    <3>1. /\ h \in Seq(Byte) /\ Len(h) \in Nat
          /\ f.body \in Seq(Byte) /\ Len(f.body) \in Nat
      BY <1>1, <1>2, LenProperties
    <3>2. SubSeq(h \o f.body, Len(h) + 1, Len(h) + Len(f.body)) = f.body
      BY <3>1, CutConcat
    <3>. QED BY <3>2, <1>2 DEF SerializeFrame, h
  <2>3. \A i \in HEADER + 1 .. end : buffer[i] = frame[i] /\ buffer[i] \in Byte
    <3>. HIDE DEF frame, buffer
    <3>0. end \in Nat
      BY <1>1, LenProperties DEF HEADER
    <3>. HIDE DEF end
    <3>1. frame \in Seq(Byte) /\ Len(frame) = end
      BY <1>5 DEF frame
    <3>2. \A i \in 1 .. end : (frame \o rest)[i] = frame[i] /\ (frame \o rest)[i] \in Byte
      BY <3>0, <3>1, ConcatParts, LenProperties
    <3>3. \A i \in HEADER + 1 .. end : i \in 1 .. end
      BY <3>0 DEF HEADER
    <3>. QED BY <3>2, <3>3, <2>1
  <2>4. SubSeq(buffer, HEADER + 1, end) = SubSeq(frame, HEADER + 1, end)
    <3>. HIDE DEF frame, buffer
    <3>1. HEADER + 1 \in Int /\ end \in Int
      BY <1>1, LenProperties DEF HEADER
    <3>2. \A i \in HEADER + 1 .. end : frame[i] \in Byte
      BY <2>3
    <3>. HIDE DEF end
    <3>3. /\ SubSeq(buffer, HEADER + 1, end) \in Seq(Byte)
          /\ SubSeq(frame, HEADER + 1, end) \in Seq(Byte)
          /\ Len(SubSeq(buffer, HEADER + 1, end)) = Len(SubSeq(frame, HEADER + 1, end))
          /\ Len(SubSeq(buffer, HEADER + 1, end)) =
                IF HEADER + 1 <= end THEN end - HEADER ELSE 0
          /\ \A i \in 1 .. end - HEADER :
                /\ SubSeq(buffer, HEADER + 1, end)[i] = buffer[HEADER + i]
                /\ SubSeq(frame, HEADER + 1, end)[i] = frame[HEADER + i]
      BY <3>1, <3>2, <2>3, SubSeqProperties DEF HEADER
    <3>. QED BY <3>1, <3>3, <2>3, SeqEqual DEF HEADER
  <2>. QED BY <2>2, <2>4
<1>9. ~ (Len(buffer) < HEADER) /\ ~ (Len(buffer) < end)
  BY <1>1, <1>6, LenProperties DEF HEADER
<1>10. DeserializeFrame(buffer, unset) = [header |-> f.header, body |-> f.body]
  <2>. HIDE DEF buffer
  <2>. QED BY <1>2, <1>7, <1>8, <1>9 DEF DeserializeFrame
<1>. QED BY <1>1, <1>4, <1>10

\* Of a frame that is cut short in its body, Frame::Deserialize makes one with
\* the whole header and no body, which takes more room than there is: it is the
\* last one found, and its header promises bytes that are not there.
THEOREM CutFrameLosesBody ==
    ASSUME NEW f \in Frame, f.header.bodySize = Len(f.body),
           NEW n \in HEADER .. HEADER + Len(f.body) - 1, NEW unset
    PROVE  LET cut   == SubSeq(SerializeFrame(f), 1, n)
               frame == DeserializeFrame(cut, unset)
           IN  frame = [header |-> f.header, body |-> <<>>] /\ GetSize(frame) > Len(cut)
<1>. DEFINE h   == SerializeHeader(f.header)
            s   == SerializeFrame(f)
            cut == SubSeq(s, 1, n)
<1>1. f.header \in HeaderStruct /\ f.body \in Seq(Byte) /\ Len(f.body) \in Nat
  BY LenProperties DEF Frame
<1>2. h \in Seq(Byte) /\ Len(h) = HEADER /\ DeserializeHeader(h) = f.header
  BY <1>1, HeaderBytes
<1>3. s \in Seq(Byte) /\ Len(s) = HEADER + Len(f.body)
  BY SizeIsRoom DEF GetSize
<1>4. HEADER \in Nat /\ HEADER = 6 /\ n \in Nat /\ HEADER <= n /\ n < Len(s)
  BY <1>1, <1>3 DEF HEADER
<1>5. cut \in Seq(Byte) /\ Len(cut) = n /\ \A i \in 1 .. n : cut[i] = s[i]
  <2>. HIDE DEF s
  <2>1. \A i \in 1 .. n : s[i] \in Byte
    BY <1>3, <1>4, ElementOfSeq
  <2>. QED BY <1>4, <2>1, SubSeqProperties
<1>6. \A i \in 1 .. HEADER : s[i] = h[i]
  <2>1. s = h \o f.body
    BY DEF SerializeFrame
  <2>. HIDE DEF h, s
  <2>2. Len(h) \in Nat /\ Len(f.body) \in Nat
    BY <1>1, <1>2, LenProperties
  <2>3. \A i \in 1 .. Len(h) : (h \o f.body)[i] = h[i]
    BY <1>1, <1>2, <2>2, ConcatParts
  <2>. QED BY <1>2, <2>1, <2>3
<1>7. SubSeq(cut, 1, HEADER) = h
  <2>. HIDE DEF cut, s, h
  <2>1. \A i \in 1 .. HEADER : cut[i] = h[i] /\ cut[i] \in Byte
    BY <1>2, <1>4, <1>5, <1>6, ElementOfSeq
  <2>2. /\ SubSeq(cut, 1, HEADER) \in Seq(Byte)
        /\ Len(SubSeq(cut, 1, HEADER)) = HEADER
        /\ \A i \in 1 .. HEADER : SubSeq(cut, 1, HEADER)[i] = cut[i]
    BY <1>4, <2>1, SubSeqProperties
  <2>. QED BY <1>2, <2>1, <2>2, SeqEqual
<1>8. DeserializeFrame(cut, unset) = [header |-> f.header, body |-> <<>>]
  <2>1. ~ (Len(cut) < HEADER) /\ Len(cut) < HEADER + f.header.bodySize
    BY <1>1, <1>3, <1>4, <1>5
  <2>. HIDE DEF cut, h, s
  <2>. QED BY <1>2, <1>7, <2>1 DEF DeserializeFrame
<1>. QED BY <1>3, <1>4, <1>5, <1>8 DEF GetSize

(***************************************************************************)
(* GOPs: SerializeGop and FramesIn are recursive functions, so each proof   *)
(* first shows that there is a function that satisfies the equation.        *)
(***************************************************************************)

\* A frame whose header announces the body it has.
Whole(f) == f \in Frame /\ f.header.bodySize = Len(f.body)

\* The bytes of a frame are bytes.
LEMMA FrameBytes ==
    ASSUME NEW f \in Frame
    PROVE  SerializeFrame(f) \in Seq(Byte)
<1>1. f.header \in HeaderStruct /\ f.body \in Seq(Byte)
  BY DEF Frame
<1>2. SerializeHeader(f.header) \in Seq(Byte)
  BY <1>1, HeaderBytes
<1>. QED BY <1>1, <1>2, ConcatProperties DEF SerializeFrame

\* data[n] are the bytes of the first n frames.
Prefixes(data, gop) ==
    /\ data \in [0 .. Len(gop) -> Seq(Byte)]
    /\ data[0] = <<>>
    /\ \A n \in 1 .. Len(gop) : data[n] = data[n - 1] \o SerializeFrame(gop[n])

\* The bytes of a GOP come frame after frame.
LEMMA GopParts ==
    ASSUME NEW gop \in Seq(Frame)
    PROVE  \E data : Prefixes(data, gop) /\ SerializeGop(gop) = data[Len(gop)]
<1>. DEFINE N == Len(gop)
            S == Seq(Byte)
            bytes(n) == SerializeFrame(gop[n])
            step == [n \in Nat |-> [x \in S |-> IF n + 1 <= N THEN x \o bytes(n + 1) ELSE x]]
<1>1. N \in Nat /\ DOMAIN gop = 1 .. N
  BY LenProperties
<1>2. \A n \in 1 .. N : bytes(n) \in S
  BY <1>1, ElementOfSeq, FrameBytes
<1>3. \A x \in S, n \in 1 .. N : x \o bytes(n) \in S
  BY <1>2, ConcatProperties
<1>4. <<>> \in S
  BY EmptySeq
<1>. HIDE DEF bytes, N, S
<1>5. \A n \in Nat, x \in S : step[n][x] = IF n + 1 <= N THEN x \o bytes(n + 1) ELSE x
  OBVIOUS
<1>. HIDE DEF step
<1>7. PICK F : Iterates(F, S, <<>>, step)
  <2>. DEFINE nothing == <<>>
  <2>1. nothing \in S /\ \A n \in Nat, x \in S : step[n][x] \in S
    BY <1>1, <1>3, <1>4, <1>5
  <2>. HIDE DEF nothing
  <2>2. \E F : Iterates(F, S, nothing, step)
    BY <2>1, Iteration, Zenon
  <2>. QED BY <2>2, Zenon DEF nothing
<1>8. ASSUME NEW n \in 1 .. N PROVE F[n] = F[n - 1] \o bytes(n)
  <2>1. n - 1 \in Nat /\ (n - 1) + 1 <= N /\ (n - 1) + 1 = n
    BY <1>1
  <2>2. F[n - 1] \in S /\ F[(n - 1) + 1] = step[n - 1][F[n - 1]]
    BY <1>7, <2>1 DEF Iterates
  <2>3. F[(n - 1) + 1] = F[n - 1] \o bytes((n - 1) + 1)
    BY <1>5, <2>1, <2>2, Zenon
  <2>. QED BY <2>1, <2>3
<1>. HIDE DEF bytes
<1>. DEFINE G == [n \in 0 .. N |-> F[n]]
<1>9. G = [n \in 0 .. N |-> IF n = 0 THEN <<>> ELSE G[n - 1] \o bytes(n)]
  <2>1. ASSUME NEW n \in 0 .. N, n # 0
        PROVE  n \in 1 .. N /\ n - 1 \in 0 .. N /\ G[n - 1] = F[n - 1]
    BY <1>1, <2>1
  <2>2. F[0] = <<>>
    BY <1>7 DEF Iterates
  <2>. QED BY <1>8, <2>1, <2>2
<1>. HIDE DEF G
<1>. DEFINE data[n \in 0 .. N] == IF n = 0 THEN <<>> ELSE data[n - 1] \o bytes(n)
<1>10. data = [n \in 0 .. N |-> IF n = 0 THEN <<>> ELSE data[n - 1] \o bytes(n)]
  BY <1>9, Zenon
<1>11. SerializeGop(gop) = data[N]
  BY DEF SerializeGop, bytes, N
<1>. HIDE DEF data
<1>12. \A n \in 0 .. N : data[n] = IF n = 0 THEN <<>> ELSE data[n - 1] \o bytes(n)
  BY <1>10, Zenon
<1>13. DOMAIN data = 0 .. N
  BY <1>10, Zenon
<1>14. data[0] = <<>> /\ \A n \in 1 .. N : data[n] = data[n - 1] \o bytes(n)
  <2>1. 0 \in 0 .. N /\ \A n \in 1 .. N : n \in 0 .. N /\ n # 0
    BY <1>1
  <2>. QED BY <1>12, <2>1, Zenon
<1>15. \A n \in 0 .. N : data[n] \in S
  <2>. DEFINE Typed == {n \in Nat : n <= N => data[n] \in S}
  <2>1. 0 \in Typed
    BY <1>4, <1>14
  <2>2. ASSUME NEW n \in Nat, n \in Typed PROVE n + 1 \in Typed
    <3>1. SUFFICES ASSUME n + 1 <= N PROVE data[n + 1] \in S
      OBVIOUS
    <3>2. n + 1 \in 1 .. N /\ (n + 1) - 1 = n /\ data[n] \in S
      BY <1>1, <2>2, <3>1
    <3>. QED BY <1>3, <1>14, <3>2
  <2>3. Nat \subseteq Typed
    <3>. HIDE DEF Typed
    <3>. QED BY <2>1, <2>2, Induction
  <2>. QED BY <1>1, <2>3
<1>16. data \in [0 .. N -> S]
  <2>1. data = [n \in 0 .. N |-> data[n]]
    BY <1>10, Zenon
  <2>. QED BY <1>15, <2>1
<1>17. Prefixes(data, gop)
  BY <1>14, <1>16 DEF Prefixes, N, S, bytes
<1>18. SerializeGop(gop) = data[Len(gop)]
  BY <1>11 DEF N
<1>. QED BY <1>17, <1>18, Zenon

\* The bytes of a GOP are bytes.
LEMMA GopBytes ==
    ASSUME NEW gop \in Seq(Frame)
    PROVE  SerializeGop(gop) \in Seq(Byte)
<1>1. PICK data : Prefixes(data, gop) /\ SerializeGop(gop) = data[Len(gop)]
  BY GopParts
<1>2. Len(gop) \in Nat
  BY LenProperties
<1>. QED BY <1>1, <1>2 DEF Prefixes

\* No frames, no bytes.
LEMMA GopOfNone == SerializeGop(<<>>) = <<>>
<1>1. <<>> \in Seq(Frame) /\ Len(<<>>) = 0
  OBVIOUS
<1>. DEFINE gop == <<>>
<1>2. gop \in Seq(Frame)
  BY <1>1
<1>. HIDE DEF gop
<1>3. PICK data : Prefixes(data, gop) /\ SerializeGop(gop) = data[Len(gop)]
  BY <1>2, GopParts
<1>. QED BY <1>1, <1>3 DEF Prefixes, gop

\* One frame more puts its bytes behind those of the others.
LEMMA GopOfOneMore ==
    ASSUME NEW gop \in Seq(Frame), NEW f \in Frame
    PROVE  SerializeGop(Append(gop, f)) = SerializeGop(gop) \o SerializeFrame(f)
<1>. DEFINE longer == Append(gop, f)
<1>1. /\ longer \in Seq(Frame) /\ Len(longer) = Len(gop) + 1 /\ Len(gop) \in Nat
      /\ \A n \in 1 .. Len(gop) : longer[n] = gop[n]
      /\ longer[Len(gop) + 1] = f
  BY AppendProperties, LenProperties
<1>. HIDE DEF longer
<1>2. PICK short : Prefixes(short, gop) /\ SerializeGop(gop) = short[Len(gop)]
  BY GopParts
<1>3. PICK long : Prefixes(long, longer) /\ SerializeGop(longer) = long[Len(longer)]
  BY <1>1, GopParts
<1>. DEFINE Same == {n \in Nat : n <= Len(gop) => long[n] = short[n]}
<1>4. 0 \in Same
  BY <1>2, <1>3 DEF Prefixes
<1>5. ASSUME NEW n \in Nat, n \in Same PROVE n + 1 \in Same
  <2>1. SUFFICES ASSUME n + 1 <= Len(gop) PROVE long[n + 1] = short[n + 1]
    OBVIOUS
  <2>2. n + 1 \in 1 .. Len(gop) /\ n + 1 \in 1 .. Len(longer) /\ (n + 1) - 1 = n
    BY <1>1, <2>1
  <2>3. short[n + 1] = short[n] \o SerializeFrame(gop[n + 1])
    BY <1>2, <2>2 DEF Prefixes
  <2>4. long[n + 1] = long[n] \o SerializeFrame(longer[n + 1])
    BY <1>3, <2>2 DEF Prefixes
  <2>5. long[n] = short[n] /\ longer[n + 1] = gop[n + 1]
    BY <1>1, <1>5, <2>1, <2>2
  <2>. QED BY <2>3, <2>4, <2>5
<1>6. Nat \subseteq Same
  <2>. HIDE DEF Same
  <2>. QED BY <1>4, <1>5, Induction
<1>7. long[Len(gop)] = short[Len(gop)]
  BY <1>1, <1>6
<1>8. long[Len(gop) + 1] = long[Len(gop)] \o SerializeFrame(longer[Len(gop) + 1])
  <2>1. Len(gop) + 1 \in 1 .. Len(longer) /\ (Len(gop) + 1) - 1 = Len(gop)
    BY <1>1
  <2>. QED BY <1>3, <2>1 DEF Prefixes
<1>. QED BY <1>1, <1>2, <1>3, <1>7, <1>8 DEF longer

\* What Frame::Deserialize makes of any bytes is a frame, and has a size.
LEMMA FrameFound ==
    ASSUME NEW buffer \in Seq(Byte), NEW unset \in HeaderStruct
    PROVE  /\ DeserializeFrame(buffer, unset) \in Frame
           /\ GetSize(DeserializeFrame(buffer, unset)) \in Nat
           /\ GetSize(DeserializeFrame(buffer, unset)) >= HEADER
<1>1. \A h \in HeaderStruct : h.bodySize \in Nat
  BY ByteAssumption DEF HeaderStruct, UInt
<1>2. HEADER = 6
  BY DEF HEADER
<1>3. SUFFICES DeserializeFrame(buffer, unset) \in Frame
  BY <1>1, <1>2 DEF GetSize, Frame
<1>4. CASE Len(buffer) < HEADER
  <2>1. DeserializeFrame(buffer, unset) = [header |-> unset, body |-> <<>>]
    BY <1>4 DEF DeserializeFrame
  <2>2. <<>> \in Seq(Byte)
    BY EmptySeq
  <2>. QED BY <2>1, <2>2 DEF Frame
<1>5. CASE ~ (Len(buffer) < HEADER)
  <2>. DEFINE start == SubSeq(buffer, 1, HEADER)
              header == DeserializeHeader(start)
              end == HEADER + header.bodySize
              body == IF Len(buffer) < end THEN <<>> ELSE SubSeq(buffer, HEADER + 1, end)
  <2>1. Len(buffer) \in Nat
    BY LenProperties
  <2>2. \A i \in 1 .. HEADER : buffer[i] \in Byte
    BY <1>2, <1>5, <2>1, ElementOfSeq
  <2>3. start \in Seq(Byte) /\ \A i \in 1 .. HEADER : start[i] = buffer[i]
    BY <1>2, <2>2, SubSeqProperties
  <2>4. \A i \in 1 .. 6 : start[i] \in Byte
    BY <1>2, <2>2, <2>3
  <2>. HIDE DEF start
  <2>5. \A x, y \in Byte : Ntohl(x, y) \in UInt
    <3>. SUFFICES ASSUME NEW x \in Byte, NEW y \in Byte PROVE Ntohl(x, y) \in UInt
      OBVIOUS
    <3>1. BYTE \in Nat /\ x \in Nat /\ x <= BYTE - 1 /\ y \in Nat /\ y < BYTE
      BY ByteAssumption DEF Byte
    <3>2. \A m, n, k \in Nat : n <= m - 1 => m * n + k \in Nat /\ m * n <= m * (m - 1)
      OBVIOUS
    <3>3. BYTE * x + y \in Nat /\ BYTE * x <= BYTE * (BYTE - 1)
      BY <3>1, <3>2
    <3>4. BYTE * (BYTE - 1) = BYTE * BYTE - BYTE
      BY <3>1
    <3>. QED BY <3>1, <3>3, <3>4 DEF Ntohl, UInt
  <2>6. header \in HeaderStruct
    BY <2>4, <2>5 DEF DeserializeHeader, HeaderStruct
  <2>. HIDE DEF header
  <2>7. end \in Nat
    BY <1>1, <1>2, <2>6
  <2>8. body \in Seq(Byte)
    <3>1. CASE Len(buffer) < end
      BY <3>1, EmptySeq
    <3>2. CASE ~ (Len(buffer) < end)
      <4>. HIDE DEF end
      <4>1. \A i \in HEADER + 1 .. end : buffer[i] \in Byte
        BY <1>2, <2>1, <2>7, <3>2, ElementOfSeq
      <4>2. SubSeq(buffer, HEADER + 1, end) \in Seq(Byte)
        BY <1>2, <2>7, <4>1, SubSeqProperties
      <4>. QED BY <3>2, <4>2
    <3>. QED BY <3>1, <3>2
  <2>9. DeserializeFrame(buffer, unset) = [header |-> header, body |-> body]
    BY <1>5 DEF DeserializeFrame, header, start
  <2>. HIDE DEF body
  <2>. QED BY <2>6, <2>8, <2>9 DEF Frame
<1>. QED BY <1>4, <1>5

\* The frames found from an offset on.
Found(from, rawData, unset) ==
    /\ DOMAIN from = Nat
    /\ \A offset \in Nat :
          from[offset] =
             IF offset >= Len(rawData) THEN <<>>
             ELSE LET frame == DeserializeFrame(SubSeq(rawData, offset + 1, Len(rawData)), unset)
                  IN  <<frame>> \o from[offset + GetSize(frame)]

\* FramesIn looks for one frame after the other.
LEMMA FramesParts ==
    ASSUME NEW rawData \in Seq(Byte), NEW unset \in HeaderStruct
    PROVE  \E from : Found(from, rawData, unset) /\ FramesIn(rawData, unset) = from[0]
<1>. DEFINE L == Len(rawData)
            frame(offset) == DeserializeFrame(SubSeq(rawData, offset + 1, L), unset)
            size(offset) == GetSize(frame(offset))
            Any == {frame(offset) : offset \in Nat}
            S == Seq(Any)
            next == [offset \in Nat |-> offset + size(offset)]
            join == [offset \in Nat |-> [x \in S |-> <<frame(offset)>> \o x]]
<1>1. L \in Nat
  BY LenProperties
<1>2. ASSUME NEW offset \in Nat PROVE size(offset) \in Nat /\ size(offset) > 0
  <2>. DEFINE rest == SubSeq(rawData, offset + 1, L)
  <2>1. \A i \in offset + 1 .. L : rawData[i] \in Byte
    BY <1>1, ElementOfSeq
  <2>2. rest \in Seq(Byte)
    BY <1>1, <2>1, SubSeqProperties
  <2>. HIDE DEF rest
  <2>3. GetSize(DeserializeFrame(rest, unset)) \in Nat
        /\ GetSize(DeserializeFrame(rest, unset)) >= HEADER
    BY <2>2, FrameFound
  <2>. QED BY <2>3 DEF HEADER, rest
<1>. HIDE DEF size
<1>3. ASSUME NEW offset \in Nat PROVE next[offset] \in Nat /\ next[offset] > offset
  <2>. DEFINE n == size(offset)
  <2>1. n \in Nat /\ n > 0
    BY <1>2
  <2>2. next[offset] = offset + n
    OBVIOUS
  <2>. HIDE DEF n
  <2>. QED
    <3>. HIDE DEF next
    <3>. QED BY <2>1, <2>2
<1>4. ASSUME NEW offset \in Nat, NEW x \in S PROVE <<frame(offset)>> \o x \in S
  <2>. DEFINE f == frame(offset)
  <2>1. f \in Any
    OBVIOUS
  <2>. HIDE DEF Any, f
  <2>2. <<f>> \in Seq(Any)
    BY <2>1
  <2>. QED BY <2>2, ConcatProperties DEF f
<1>5. <<>> \in S
  BY EmptySeq
<1>. HIDE DEF S, frame
<1>6. \A offset \in Nat, x \in S : join[offset][x] = <<frame(offset)>> \o x
  OBVIOUS
<1>7. \A offset \in Nat : next[offset] = offset + size(offset)
  OBVIOUS
<1>. HIDE DEF L, next, join
<1>8. PICK g : Descends(g, S, <<>>, L, next, join)
  <2>. DEFINE nothing == <<>>
  <2>1. /\ nothing \in S
        /\ \A offset \in Nat : offset < L => next[offset] \in Nat /\ next[offset] > offset
        /\ \A offset \in Nat, x \in S : join[offset][x] \in S
    BY <1>3, <1>4, <1>5, <1>6
  <2>. HIDE DEF nothing
  <2>2. \E g : Descends(g, S, nothing, L, next, join)
    BY <1>1, <2>1, Descent, Zenon
  <2>. QED BY <2>2, Zenon DEF nothing
<1>9. ASSUME NEW offset \in Nat
      PROVE  g[offset] = IF offset >= L THEN <<>>
                         ELSE <<frame(offset)>> \o g[offset + size(offset)]
  <2>1. g[offset] = IF offset >= L THEN <<>> ELSE join[offset][g[next[offset]]]
    BY <1>8 DEF Descends
  <2>2. g[next[offset]] \in S
    BY <1>3, <1>8 DEF Descends
  <2>. QED BY <1>6, <1>7, <2>1, <2>2
<1>10. g = [offset \in Nat |-> IF offset >= L THEN <<>>
                              ELSE <<frame(offset)>> \o g[offset + size(offset)]]
  <2>1. g = [offset \in Nat |-> g[offset]]
    BY <1>8 DEF Descends
  <2>. QED BY <1>9, <2>1
<1>. DEFINE from[offset \in Nat] == IF offset >= L THEN <<>>
                                   ELSE <<frame(offset)>> \o from[offset + size(offset)]
<1>11. from = [offset \in Nat |-> IF offset >= L THEN <<>>
                                 ELSE <<frame(offset)>> \o from[offset + size(offset)]]
  BY <1>10, Zenon
<1>12. FramesIn(rawData, unset) = from[0]
  BY Zenon DEF FramesIn, size, frame, L
<1>. HIDE DEF from
<1>13. DOMAIN from = Nat
  BY <1>11, Zenon
<1>14. \A offset \in Nat : from[offset] = IF offset >= L THEN <<>>
                              ELSE <<frame(offset)>> \o from[offset + size(offset)]
  BY <1>11, Zenon
<1>15. Found(from, rawData, unset)
  BY <1>13, <1>14 DEF Found, size, frame, L
<1>. QED BY <1>12, <1>15, Zenon

\* What is behind the first n frames of a GOP.
LEMMA GopRest ==
    ASSUME NEW gop \in Seq(Frame), NEW data, Prefixes(data, gop), NEW n \in 0 .. Len(gop)
    PROVE  \E t : t \in Seq(Byte) /\ data[Len(gop)] = data[n] \o t
<1>. DEFINE N == Len(gop)
            part == [k \in 1 .. N |-> SerializeFrame(gop[k])]
<1>1. N \in Nat /\ \A k \in 0 .. N : data[k] \in Seq(Byte)
  BY LenProperties DEF Prefixes
<1>2. \A k \in 1 .. N : SerializeFrame(gop[k]) \in Seq(Byte)
  BY ElementOfSeq, FrameBytes
<1>3. \A k \in 1 .. N : part[k] \in Seq(Byte) /\ data[k] = data[k - 1] \o part[k]
  BY <1>2 DEF Prefixes
<1>4. n \in 0 .. N
  OBVIOUS
<1>. HIDE DEF N, part
<1>5. Joins(data, part, N, Byte)
  BY <1>1, <1>3 DEF Joins
<1>6. \E t : t \in Seq(Byte) /\ data[N] = data[n] \o t
  BY <1>4, <1>5, SuffixesJoin
<1>. QED BY <1>6 DEF N

\* H264Item::Deserialize finds in the bytes of a GOP its frames, each of them and
\* in their order, if every header announces the body its frame has.
THEOREM GopRoundTrip ==
    ASSUME NEW gop \in Seq(Frame), \A n \in 1 .. Len(gop) : Whole(gop[n]),
           NEW unset \in HeaderStruct
    PROVE  FramesIn(SerializeGop(gop), unset) = gop
<1>. DEFINE N    == Len(gop)
            raw  == SerializeGop(gop)
            L    == Len(raw)
<1>1. PICK data : Prefixes(data, gop) /\ SerializeGop(gop) = data[Len(gop)]
  BY GopParts
<1>2. N \in Nat /\ \A k \in 0 .. N : data[k] \in Seq(Byte) /\ Len(data[k]) \in Nat
  <2>1. N \in Nat /\ \A k \in 0 .. N : data[k] \in Seq(Byte)
    BY <1>1, LenProperties DEF Prefixes
  <2>. QED BY <2>1, LenProperties
<1>3. raw \in Seq(Byte) /\ raw = data[N] /\ L \in Nat
  BY <1>1, <1>2
<1>. HIDE DEF raw
<1>4. PICK from : Found(from, raw, unset) /\ FramesIn(raw, unset) = from[0]
  BY <1>3, FramesParts
<1>. DEFINE Done == {k \in Nat : k <= N => from[Len(data[N - k])] = SubSeq(gop, (N - k) + 1, N)}
<1>5. 0 \in Done
  <2>1. Len(data[N - 0]) = L /\ L >= L
    BY <1>2, <1>3
  <2>2. from[L] = <<>>
    BY <1>3, <1>4, <2>1 DEF Found
  <2>3. SubSeq(gop, (N - 0) + 1, N) = <<>>
    BY <1>2, SubSeqEmpty
  <2>. QED BY <2>1, <2>2, <2>3
<1>6. ASSUME NEW k \in Nat, k \in Done PROVE k + 1 \in Done
  <2>1. SUFFICES ASSUME k + 1 <= N
                 PROVE  from[Len(data[N - (k + 1)])] = SubSeq(gop, (N - (k + 1)) + 1, N)
    OBVIOUS
  <2>. DEFINE m == N - k
              f == gop[m]
              b == SerializeFrame(f)
              before == data[m - 1]
              offset == Len(before)
  <2>2. /\ m \in 1 .. N /\ m \in 0 .. N /\ m - 1 \in 0 .. N /\ N - (k + 1) = m - 1
        /\ (m - 1) + 1 = m
    BY <1>2, <2>1
  <2>3. from[Len(data[m])] = SubSeq(gop, m + 1, N)
    BY <1>6, <2>1
  <2>. HIDE DEF m
  <2>4. f \in Frame /\ f.header.bodySize = Len(f.body)
    BY <2>2 DEF Whole
  <2>. HIDE DEF f
  <2>5. b \in Seq(Byte) /\ Len(b) = GetSize(f)
    BY <2>4, SizeIsRoom
  <2>6. GetSize(f) \in Nat /\ GetSize(f) > 0
    <3>1. Len(f.body) \in Nat
      BY <2>4, LenProperties DEF Frame
    <3>. QED BY <2>4, <3>1 DEF GetSize, HEADER
  <2>7. data[m] = before \o b
    BY <1>1, <2>2 DEF Prefixes, f
  <2>8. PICK t : t \in Seq(Byte) /\ data[N] = data[m] \o t
    BY <1>1, <2>2, GopRest
  <2>. HIDE DEF b, N
  <2>9. before \in Seq(Byte) /\ offset \in Nat
    BY <1>2, <2>2
  <2>. HIDE DEF before
  <2>10. b \o t \in Seq(Byte) /\ Len(b \o t) = GetSize(f) + Len(t) /\ Len(t) \in Nat
    BY <2>5, <2>8, ConcatProperties, LenProperties
  <2>11. raw = before \o (b \o t)
    <3>1. (before \o b) \o t = before \o (b \o t)
      BY <2>5, <2>8, <2>9, ConcatAssociative
    <3>. QED BY <1>3, <2>7, <2>8, <3>1
  <2>12. L = offset + Len(b \o t) /\ Len(b \o t) \in Nat
    BY <2>9, <2>10, <2>11, <2>6, ConcatProperties
  <2>13. SubSeq(raw, offset + 1, L) = b \o t
    <3>1. SubSeq(before \o (b \o t), Len(before) + 1, Len(before) + Len(b \o t)) = b \o t
      <4>. DEFINE after == b \o t
      <4>1. after \in Seq(Byte) /\ Len(after) \in Nat /\ Len(before) \in Nat
        BY <2>9, <2>10, <2>12
      <4>. HIDE DEF after, offset
      <4>2. SubSeq(before \o after, Len(before) + 1, Len(before) + Len(after)) = after
        BY <2>9, <4>1, CutConcat
      <4>. QED BY <4>2 DEF after
    <3>. QED BY <2>11, <2>12, <3>1
  <2>14. DeserializeFrame(SubSeq(raw, offset + 1, L), unset) = f
    BY <2>4, <2>8, <2>13, FrameRoundTrip DEF b
  <2>15. Len(data[m]) = offset + GetSize(f)
    BY <2>5, <2>7, <2>9, ConcatProperties
  <2>16. ~ (offset >= L)
    BY <2>6, <2>9, <2>10, <2>12
  <2>17. from[offset] = <<f>> \o from[offset + GetSize(f)]
    <3>. HIDE DEF offset, L
    <3>1. offset \in Nat
      BY <2>9
    <3>2. from[offset] =
            LET frame == DeserializeFrame(SubSeq(raw, offset + 1, L), unset)
            IN  <<frame>> \o from[offset + GetSize(frame)]
      BY <1>4, <2>16, <3>1 DEF Found, L
    <3>. QED BY <2>14, <3>2
  <2>18. SubSeq(gop, m, N) = <<f>> \o SubSeq(gop, m + 1, N)
    <3>1. m \in 1 .. Len(gop) /\ N \in m .. Len(gop)
      BY <1>2, <2>2 DEF N
    <3>2. SubSeq(gop, m, N) = <<gop[m]>> \o SubSeq(gop, m + 1, N)
      BY <3>1, SubSeqRecursiveFirst
    <3>. QED BY <3>2 DEF f
  <2>. QED BY <2>2, <2>3, <2>15, <2>17, <2>18 DEF before
<1>7. Nat \subseteq Done
  <2>. HIDE DEF Done
  <2>. QED BY <1>5, <1>6, Induction
<1>8. from[Len(data[0])] = SubSeq(gop, 1, N)
  <2>1. N \in Done /\ N <= N /\ N - N = 0
    BY <1>2, <1>7
  <2>. QED BY <2>1
<1>9. Len(data[0]) = 0
  BY <1>1 DEF Prefixes
<1>10. SubSeq(gop, 1, N) = gop
  BY SubSeqFull
<1>. QED BY <1>4, <1>8, <1>9, <1>10 DEF raw

\* What FramesIn finds in any bytes are frames.
LEMMA FramesFound ==
    ASSUME NEW rawData \in Seq(Byte), NEW unset \in HeaderStruct
    PROVE  FramesIn(rawData, unset) \in Seq(Frame)
<1>. DEFINE L == Len(rawData)
<1>1. PICK from : Found(from, rawData, unset) /\ FramesIn(rawData, unset) = from[0]
  BY FramesParts
<1>. DEFINE Typed == {k \in Nat : \A offset \in Nat :
                        offset + k >= L => from[offset] \in Seq(Frame)}
<1>2. L \in Nat
  BY LenProperties
<1>3. 0 \in Typed
  <2>1. ASSUME NEW offset \in Nat, offset + 0 >= L PROVE from[offset] \in Seq(Frame)
    <3>1. offset >= L
      BY <1>2, <2>1
    <3>2. from[offset] = <<>>
      BY <1>1, <3>1 DEF Found
    <3>. QED BY <3>2, EmptySeq
  <2>. QED BY <2>1
<1>4. ASSUME NEW k \in Nat, k \in Typed PROVE k + 1 \in Typed
  <2>1. ASSUME NEW offset \in Nat, offset + (k + 1) >= L PROVE from[offset] \in Seq(Frame)
    <3>. DEFINE rest == SubSeq(rawData, offset + 1, L)
                frame == DeserializeFrame(rest, unset)
    <3>1. CASE offset >= L
      <4>1. from[offset] = <<>>
        BY <1>1, <3>1 DEF Found
      <4>. QED BY <4>1, EmptySeq
    <3>2. CASE ~ (offset >= L)
      <4>1. \A i \in offset + 1 .. L : rawData[i] \in Byte
        BY <1>2, ElementOfSeq
      <4>2. rest \in Seq(Byte)
        BY <1>2, <4>1, SubSeqProperties
      <4>3. from[offset] = <<frame>> \o from[offset + GetSize(frame)]
        BY <1>1, <3>2 DEF Found
      <4>. HIDE DEF rest
      <4>4. frame \in Frame /\ GetSize(frame) \in Nat /\ GetSize(frame) > 0
        BY <4>2, FrameFound DEF HEADER
      <4>. HIDE DEF frame
      <4>5. offset + GetSize(frame) \in Nat /\ (offset + GetSize(frame)) + k >= L
        BY <1>2, <2>1, <4>4
      <4>6. from[offset + GetSize(frame)] \in Seq(Frame)
        BY <1>4, <4>5
      <4>. DEFINE others == from[offset + GetSize(frame)]
      <4>7. others \in Seq(Frame) /\ <<frame>> \in Seq(Frame)
        BY <4>4, <4>6
      <4>. HIDE DEF others
      <4>8. <<frame>> \o others \in Seq(Frame)
        BY <4>7, ConcatProperties
      <4>. QED BY <4>3, <4>8 DEF others
    <3>. QED BY <3>1, <3>2
  <2>. QED BY <2>1
<1>5. Nat \subseteq Typed
  <2>. HIDE DEF Typed
  <2>. QED BY <1>3, <1>4, Induction
<1>6. L \in Typed
  <2>. HIDE DEF L, Typed
  <2>. QED BY <1>2, <1>5
<1>7. from[0] \in Seq(Frame)
  <2>1. 0 \in Nat /\ 0 + L >= L
    BY <1>2
  <2>. HIDE DEF L
  <2>. QED BY <1>6, <2>1
<1>. QED BY <1>1, <1>7
=============================================================================
