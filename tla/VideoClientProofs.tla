------------------------- MODULE VideoClientProofs -------------------------
(***************************************************************************)
(* The GOPs the video client saves are those the camera sent: theorems      *)
(* about VideoClient, for any sizes of GOPs and of bodies, any number of    *)
(* frames and wherever in a GOP the client connects.                        *)
(***************************************************************************)
EXTENDS VideoClient, FiniteSetTheorems, Recursion

Unit   == [id : Nat, start : BOOLEAN, gopSize : Nat, bodySize : Nat]
Stream == Seq(Unit)

\* How many of the frames sent the client has taken, or dropped outside a GOP.
Taken == IF pc = "body" THEN header.id - 1 ELSE header.id

\* The starts among the first n frames.
StartsTo(n) == {s \in Starts : s <= n}

\* A GOP is a first frame that carries the flag and as many others as it says
\* without it; left is what is missing of the last one.
CameraInv ==
    /\ sent \in Seq(Headers) /\ left \in Nat
    /\ \A s \in Starts :
          /\ \A id \in s + 1 .. s + sent[s].count - 1 : id <= Len(sent) => ~ sent[id].start
          /\ Len(sent) < s + sent[s].count => left = s + sent[s].count - 1 - Len(sent)

\* Where the connection stands.
LinkInv ==
    /\ mbClosed \in BOOLEAN
    /\ pc \in {"start", "header", "body", "save", "ended", "died"}
    /\ peer \in {"up", "closed", "broken"}
    /\ header \in Unit /\ wire \in Stream /\ buffer \in Stream
    /\ Len(buffer) <= header.bodySize
    /\ pc \in {"header", "save"} => buffer = <<>>
    /\ pc \in {"start", "ended"} =>
          mbClosed /\ sent = <<>> /\ header = NoFrame /\ frames = <<>> /\ saved = <<>>
          /\ wire = <<>> /\ buffer = <<>>
    /\ pc = "body" => ~ mbClosed /\ header.bodySize > 0
    /\ pc \in {"header", "save"} /\ mbClosed => wire = <<>> /\ peer # "up"

\* The GOP being put together: frames in a row, from one with the flag to the
\* last one taken, and never more than its size says.
GopInv ==
    pc # "died" =>
    /\ Taken \in 0 .. Len(sent)
    /\ pc = "save" => frames # <<>>
    /\ frames # <<>> =>
          /\ frames[1].id \in Starts
          /\ frames[1].start
          /\ frames[1].gopSize = sent[frames[1].id].count % BYTE
          /\ Len(frames) = Taken - frames[1].id + 1
          /\ \A i \in 1 .. Len(frames) :
                /\ frames[i].id = frames[1].id + i - 1
                /\ frames[i].missing > 0 => mbClosed /\ i = Len(frames)
          /\ IF pc = "save" THEN frames[1].gopSize \in {0, Len(frames)}
                            ELSE Len(frames) < frames[1].gopSize
    /\ Cardinality(StartsTo(Taken)) = Len(saved) + (IF frames = <<>> THEN 0 ELSE 1)

\* gop is what the client is to save of the GOP that begins with frame first.
SavedOf(gop, first, k) ==
    /\ first \in Starts
    /\ Cardinality(StartsTo(first)) = k
    /\ Len(gop) = sent[first].count % BYTE
    /\ \A i \in DOMAIN gop :
          /\ gop[i].id = first + i - 1
          /\ gop[i].missing > 0 =>
                mbClosed /\ pc \in {"header", "died"} /\ k = Len(saved) /\ i = Len(gop)

SavedInv ==
    /\ saved \in Seq(Seq(Frame)) /\ frames \in Seq(Frame)
    /\ \A k \in DOMAIN saved : \E first \in Starts : SavedOf(saved[k], first, k)

\* What has been received of the frame that comes next.
Part == IF pc = "body" THEN <<header>> \o buffer ELSE <<>>

\* st[n] is the first n frames as the camera has put them on the connection.
Pieces       == [n \in 1 .. Len(sent) |-> Units(n, sent[n])]
Streamed(st) == st[0] = <<>> /\ Joins(st, Pieces, Len(sent), Unit)

\* The frames taken, the part of the next one, what is on its way and what was
\* lost with the connection are all that was sent.
AllThere(st, lost) ==
    /\ Streamed(st)
    /\ lost \in Stream
    /\ peer = "up" => lost = <<>>
    /\ st[Len(sent)] = st[Taken] \o (Part \o (wire \o lost))

StreamInv == Reading => \E st, lost : AllThere(st, lost)

Inv == CameraInv /\ LinkInv /\ GopInv /\ SavedInv /\ StreamInv

\* h is the header of a frame that was sent.
IsHeader(h) ==
    /\ h.id \in 1 .. Len(sent)
    /\ h.start = sent[h.id].start
    /\ h.gopSize = sent[h.id].count % BYTE
    /\ h.bodySize = sent[h.id].bodySize

-----------------------------------------------------------------------------
(* Sequences, numbers and sets. *)

\* Two ways to cut a sequence at the same place give the same parts.
LEMMA SameParts ==
    ASSUME NEW S, NEW a \in Seq(S), NEW b \in Seq(S), NEW c \in Seq(S), NEW d \in Seq(S),
           a \o b = c \o d, Len(a) = Len(c)
    PROVE  a = c /\ b = d
<1>1. Len(a) \in Nat /\ Len(b) \in Nat /\ Len(d) \in Nat
  BY LenProperties
<1>2. \A i \in 1 .. Len(a) : (a \o b)[i] = a[i]
  BY <1>1, ConcatProperties
<1>3. \A i \in 1 .. Len(a) : (c \o d)[i] = c[i]
  BY <1>1, ConcatProperties
<1>4. \A i \in 1 .. Len(a) : a[i] = c[i]
  BY <1>2, <1>3
<1>5. a = c
  BY <1>4, SeqEqual
<1>6. a \o b = a \o d
  BY <1>5
<1>. QED BY <1>5, <1>6, ConcatSimplifications

\* A sequence cut in two, as SSL_read and a lost connection cut it.
LEMMA CutInTwo ==
    ASSUME NEW S, NEW s \in Seq(S), NEW n \in 0 .. Len(s)
    PROVE  /\ SubSeq(s, 1, n) \in Seq(S) /\ SubSeq(s, n + 1, Len(s)) \in Seq(S)
           /\ Len(SubSeq(s, 1, n)) = n
           /\ s = SubSeq(s, 1, n) \o SubSeq(s, n + 1, Len(s))
<1>1. Len(s) \in Nat /\ \A i \in 1 .. Len(s) : s[i] \in S
  BY LenProperties, ElementOfSeq
<1>2. SubSeq(s, 1, n) \in Seq(S) /\ Len(SubSeq(s, 1, n)) = n
  <2>1. \A i \in 1 .. n : s[i] \in S
    BY <1>1
  <2>. QED BY <1>1, <2>1, SubSeqProperties
<1>3. SubSeq(s, n + 1, Len(s)) \in Seq(S)
  <2>1. \A i \in n + 1 .. Len(s) : s[i] \in S
    BY <1>1
  <2>. QED BY <1>1, <2>1, SubSeqProperties
<1>4. SubSeq(s, 1, n) \o SubSeq(s, n + 1, Len(s)) = SubSeq(s, 1, Len(s))
  <2>1. 1 \in 1 .. Len(s) + 1 /\ n \in 1 - 1 .. Len(s) /\ Len(s) \in n .. Len(s)
    BY <1>1
  <2>. QED BY <2>1, ConcatAdjacentSubSeq
<1>. QED BY <1>2, <1>3, <1>4, SubSeqFull

\* The first of a sequence, and the rest.
LEMMA HeadAndTail ==
    ASSUME NEW S, NEW s \in Seq(S), s # <<>>
    PROVE  Head(s) = s[1] /\ s[1] \in S /\ Tail(s) \in Seq(S) /\ s = <<s[1]>> \o Tail(s)
<1>1. Len(s) \in Nat /\ Len(s) # 0
  BY LenProperties, EmptySeq
<1>2. s[1] \in S /\ Tail(s) \in Seq(S) /\ Tail(s) = SubSeq(s, 2, Len(s))
  BY <1>1, ElementOfSeq, HeadTailProperties, TailIsSubSeq
<1>3. s = SubSeq(s, 1, Len(s)) /\ SubSeq(s, 1, Len(s)) = <<s[1]>> \o SubSeq(s, 1 + 1, Len(s))
  BY <1>1, SubSeqFull, SubSeqRecursiveFirst
<1>. QED BY <1>2, <1>3

\* A size in one byte is never more than the size, and 0 only for a GOP too
\* long for a byte.
LEMMA SizeInByte ==
    ASSUME NEW n \in Nat \ {0}
    PROVE  n % BYTE \in 0 .. n /\ (n % BYTE = 0 => n >= BYTE)
<1>1. BYTE \in Nat \ {0}
  BY VideoAssumption
<1>2. n % BYTE \in Nat /\ n % BYTE < BYTE
  BY <1>1
<1>3. n < BYTE => n % BYTE = n
  BY <1>1
<1>. QED BY <1>1, <1>2, <1>3

\* The starts up to a frame are one more than those up to the frame before if
\* the frame is a start, and the same if not.
LEMMA OneMoreStart ==
    ASSUME sent \in Seq(Headers), NEW n \in 0 .. Len(sent)
    PROVE  /\ IsFiniteSet(StartsTo(n)) /\ Cardinality(StartsTo(n)) \in Nat
           /\ n + 1 \in Starts => Cardinality(StartsTo(n + 1)) = Cardinality(StartsTo(n)) + 1
           /\ n + 1 \notin Starts => StartsTo(n + 1) = StartsTo(n)
<1>1. Len(sent) \in Nat /\ n \in Nat /\ \A s \in Starts : s \in 1 .. Len(sent)
  BY LenProperties DEF Starts
<1>2. IsFiniteSet(1 .. Len(sent)) /\ StartsTo(n) \in SUBSET (1 .. Len(sent))
  <2>1. IsFiniteSet(1 .. Len(sent))
    BY <1>1, FS_Interval
  <2>2. StartsTo(n) \in SUBSET (1 .. Len(sent))
    BY <1>1 DEF StartsTo
  <2>. QED BY <2>1, <2>2
<1>3. IsFiniteSet(StartsTo(n)) /\ Cardinality(StartsTo(n)) \in Nat
  BY <1>2, FS_Subset, FS_CardinalityType
<1>4. CASE n + 1 \in Starts
  <2>1. StartsTo(n + 1) = StartsTo(n) \cup {n + 1} /\ n + 1 \notin StartsTo(n)
    BY <1>1, <1>4 DEF StartsTo
  <2>. QED BY <1>3, <1>4, <2>1, FS_AddElement
<1>5. CASE n + 1 \notin Starts
  <2>1. StartsTo(n + 1) = StartsTo(n)
    BY <1>1, <1>5 DEF StartsTo
  <2>. QED BY <1>3, <1>5, <2>1
<1>. QED BY <1>4, <1>5

\* Of two starts the later one has more starts up to it: a GOP is known by how
\* many began before it.
LEMMA StartsDiffer ==
    ASSUME sent \in Seq(Headers), NEW a \in Starts, NEW b \in Starts,
           Cardinality(StartsTo(a)) = Cardinality(StartsTo(b))
    PROVE  a = b
<1>1. Len(sent) \in Nat /\ \A s \in Starts : s \in 1 .. Len(sent)
  BY LenProperties DEF Starts
<1>2. SUFFICES ASSUME NEW x \in Starts, NEW y \in Starts, x < y,
                      Cardinality(StartsTo(x)) = Cardinality(StartsTo(y))
               PROVE  FALSE
  BY <1>1
<1>3. IsFiniteSet(StartsTo(y))
  BY <1>1, OneMoreStart
<1>4. StartsTo(x) \in SUBSET StartsTo(y) /\ y \in StartsTo(y) /\ y \notin StartsTo(x)
  BY <1>1, <1>2 DEF StartsTo
<1>. QED BY <1>2, <1>3, <1>4, FS_Subset

-----------------------------------------------------------------------------
(* The stream. *)

\* What the camera puts on the connection for a frame.
LEMMA UnitsOfFrame ==
    ASSUME NEW id \in Nat, NEW h \in Headers
    PROVE  /\ Units(id, h) \in Stream
           /\ Len(Units(id, h)) = 1 + h.bodySize /\ h.bodySize \in Nat
           /\ Units(id, h)[1] = [id |-> id, start |-> h.start, gopSize |-> h.count % BYTE,
                                 bodySize |-> h.bodySize]
<1>1. h.bodySize \in Nat /\ h.count \in Nat \ {0} /\ h.start \in BOOLEAN
  BY VideoAssumption DEF Headers
<1>2. h.count % BYTE \in Nat
  BY <1>1, SizeInByte
<1>. DEFINE first == [id |-> id, start |-> h.start, gopSize |-> h.count % BYTE,
                     bodySize |-> h.bodySize]
            rest  == [NoFrame EXCEPT !.id = id]
            n     == 1 + h.bodySize
<1>3. first \in Unit /\ rest \in Unit
  BY <1>1, <1>2 DEF Unit, NoFrame
<1>4. n \in Nat /\ 1 \in 1 .. n
  BY <1>1
<1>5. Units(id, h) = [k \in 1 .. n |-> IF k = 1 THEN first ELSE rest]
  BY DEF Units
<1>. HIDE DEF n, first, rest
<1>6. \A k \in 1 .. n : (IF k = 1 THEN first ELSE rest) \in Unit
  BY <1>3
<1>7. Units(id, h) \in Seq(Unit) /\ Len(Units(id, h)) = n /\ Units(id, h)[1] = first
  BY <1>4, <1>5, <1>6, IsASeq
<1>. QED BY <1>1, <1>7 DEF n, first, Stream

\* What comes behind whole frames, if anything, is the next frame.
LEMMA NextFrame ==
    ASSUME sent \in Seq(Headers), NEW st, Streamed(st), NEW n \in 0 .. Len(sent),
           NEW y \in Stream, y # <<>>, st[Len(sent)] = st[n] \o y
    PROVE  /\ n + 1 \in 1 .. Len(sent)
           /\ \E r : /\ r \in Stream
                    /\ y = Units(n + 1, sent[n + 1]) \o r
                    /\ st[Len(sent)] = st[n + 1] \o r
<1>. DEFINE N == Len(sent)
            u == Units(n + 1, sent[n + 1])
<1>1. N \in Nat /\ n \in Nat /\ n <= N
  BY LenProperties
<1>2. \A k \in 0 .. N : st[k] \in Stream
  BY DEF Streamed, Joins, Stream
<1>3. n + 1 \in 1 .. N
  <2>1. SUFFICES ASSUME n = N PROVE FALSE
    BY <1>1
  <2>2. st[n] \in Stream /\ st[n] \o y = st[n]
    BY <1>2, <2>1
  <2>. QED BY <2>2, ConcatSimplifications DEF Stream
<1>4. u \in Stream /\ st[n + 1] = st[n] \o u
  <2>. DEFINE m == n + 1
  <2>1. m - 1 = n /\ Pieces[m] = u
    BY <1>1, <1>3 DEF Pieces
  <2>2. m \in 1 .. N
    BY <1>3
  <2>. HIDE DEF m, u
  <2>3. \A k \in 1 .. N : Pieces[k] \in Seq(Unit) /\ st[k] = st[k - 1] \o Pieces[k]
    BY DEF Streamed, Joins
  <2>4. Pieces[m] \in Seq(Unit) /\ st[m] = st[m - 1] \o Pieces[m]
    BY <2>2, <2>3
  <2>5. u \in Stream /\ st[m] = st[n] \o u
    BY <2>1, <2>4 DEF Stream
  <2>. QED BY <2>5 DEF m
<1>5. PICK r : r \in Stream /\ st[N] = st[n + 1] \o r
  <2>. DEFINE m == n + 1
  <2>1. m \in 0 .. N
    BY <1>1, <1>3
  <2>2. Joins(st, Pieces, N, Unit)
    BY DEF Streamed
  <2>. HIDE DEF N, m
  <2>3. \E r : r \in Seq(Unit) /\ st[N] = st[m] \o r
    BY <2>1, <2>2, SuffixesJoin
  <2>. QED BY <2>3 DEF Stream, m
<1>. HIDE DEF u
<1>6. st[n] \in Stream /\ u \o r \in Stream /\ st[n] \o y = st[n] \o (u \o r)
  <2>1. st[n] \in Stream
    BY <1>1, <1>2
  <2>2. u \o r \in Stream /\ (st[n] \o u) \o r = st[n] \o (u \o r)
    <3>. DEFINE a == st[n]
    <3>1. a \in Seq(Unit) /\ u \in Seq(Unit) /\ r \in Seq(Unit)
      BY <1>4, <1>5, <2>1 DEF Stream
    <3>. HIDE DEF a
    <3>2. u \o r \in Seq(Unit)
      BY <3>1, ConcatProperties, Zenon
    <3>3. (a \o u) \o r = a \o (u \o r)
      BY <3>1, ConcatAssociative, SMTT(30)
    <3>. QED BY <3>2, <3>3 DEF a, Stream
  <2>. QED BY <1>4, <1>5, <2>1, <2>2
<1>7. y = u \o r
  BY <1>6, ConcatSimplifications DEF Stream
<1>. QED BY <1>3, <1>5, <1>7 DEF u

\* The next unit on the connection is the header of the next frame, when the
\* client is at one.
LEMMA NextHeader ==
    ASSUME Inv, pc = "header", wire # <<>>
    PROVE  /\ ~ mbClosed /\ Head(wire) = wire[1] /\ wire[1] \in Unit
           /\ IsHeader(wire[1]) /\ wire[1].id = header.id + 1
           /\ Tail(wire) \in Stream
           /\ wire[1].bodySize = 0 =>
                \E st, lost : /\ Streamed(st) /\ lost \in Stream /\ (peer = "up" => lost = <<>>)
                             /\ st[Len(sent)] = st[header.id + 1] \o (Tail(wire) \o lost)
           /\ wire[1].bodySize > 0 =>
                \E st, lost : /\ Streamed(st) /\ lost \in Stream /\ (peer = "up" => lost = <<>>)
                             /\ st[Len(sent)] =
                                   st[header.id] \o (<<wire[1]>> \o (Tail(wire) \o lost))
<1>1. ~ mbClosed /\ wire \in Stream /\ sent \in Seq(Headers) /\ header.id \in 0 .. Len(sent)
  BY DEF Inv, LinkInv, CameraInv, GopInv, Taken
<1>2. /\ Head(wire) = wire[1] /\ wire[1] \in Unit
      /\ Tail(wire) \in Stream /\ wire = <<wire[1]>> \o Tail(wire)
  BY <1>1, HeadAndTail DEF Stream
<1>3. PICK st, lost : AllThere(st, lost)
  BY <1>1 DEF Inv, StreamInv, Reading
<1>. DEFINE w == <<wire[1]>>
            t == Tail(wire)
            n == header.id
            y == wire \o lost
<1>4. /\ Streamed(st) /\ lost \in Stream /\ (peer = "up" => lost = <<>>)
      /\ st[Len(sent)] = st[n] \o (<<>> \o y)
  BY <1>3 DEF AllThere, Taken, Part
<1>5. w \in Stream /\ t \in Stream /\ wire = w \o t /\ Len(w) = 1 /\ w[1] = wire[1]
  BY <1>2 DEF Stream
<1>. HIDE DEF w, t
<1>6. y = w \o (t \o lost) /\ t \o lost \in Stream
  <2>1. w \in Seq(Unit) /\ t \in Seq(Unit) /\ lost \in Seq(Unit) /\ y = (w \o t) \o lost
    BY <1>4, <1>5 DEF Stream
  <2>2. t \o lost \in Seq(Unit)
    BY <2>1, ConcatProperties
  <2>. HIDE DEF y
  <2>3. y = w \o (t \o lost)
    BY <2>1, ConcatAssociative
  <2>. QED BY <2>2, <2>3 DEF Stream
<1>7. /\ y \in Stream /\ y # <<>> /\ y[1] = wire[1] /\ <<>> \o y = y
  <2>. DEFINE z == t \o lost
  <2>. HIDE DEF z
  <2>0. w \in Seq(Unit) /\ z \in Seq(Unit) /\ Len(w) = 1 /\ Len(z) \in Nat
    BY <1>5, <1>6, LenProperties DEF Stream, z
  <2>1. w \o z \in Stream /\ Len(w \o z) = 1 + Len(z) /\ (w \o z)[1] = w[1] /\ Len(z) \in Nat
    BY <2>0, ConcatProperties DEF Stream
  <2>2. w \o z # <<>>
    BY <2>1, EmptySeq
  <2>. QED BY <1>5, <1>6, <2>1, <2>2, ConcatEmptySeq DEF z, Stream
<1>8. st[Len(sent)] = st[n] \o y
  BY <1>4, <1>7
<1>. HIDE DEF y
<1>9. /\ n + 1 \in 1 .. Len(sent)
      /\ \E r : /\ r \in Stream
               /\ y = Units(n + 1, sent[n + 1]) \o r
               /\ st[Len(sent)] = st[n + 1] \o r
  BY <1>1, <1>4, <1>7, <1>8, NextFrame
<1>10. PICK r : r \in Stream /\ y = Units(n + 1, sent[n + 1]) \o r
                /\ st[Len(sent)] = st[n + 1] \o r
  BY <1>9
<1>. DEFINE u == Units(n + 1, sent[n + 1])
            h == sent[n + 1]
<1>11. /\ u \in Stream /\ Len(u) = 1 + h.bodySize /\ h.bodySize \in Nat
       /\ u[1] = [id |-> n + 1, start |-> h.start, gopSize |-> h.count % BYTE,
                 bodySize |-> h.bodySize]
  <2>1. n + 1 \in Nat /\ h \in Headers
    BY <1>1, <1>9, ElementOfSeq
  <2>. QED BY <2>1, UnitsOfFrame
<1>. HIDE DEF u
<1>12. y = u \o r /\ y[1] = u[1]
  <2>1. y = u \o r
    BY <1>10 DEF u
  <2>2. u \in Seq(Unit) /\ r \in Seq(Unit)
    BY <1>10, <1>11 DEF Stream
  <2>3. \A i \in 1 .. Len(u) + Len(r) : (u \o r)[i] = IF i <= Len(u) THEN u[i] ELSE r[i - Len(u)]
    BY <2>2, ConcatProperties, SMTT(30)
  <2>4. Len(u) >= 1 /\ Len(u) \in Nat /\ Len(r) \in Nat
    BY <1>11, <2>2, LenProperties
  <2>5. (u \o r)[1] = u[1]
    BY <2>3, <2>4
  <2>. QED BY <2>1, <2>5
<1>13. IsHeader(wire[1]) /\ wire[1].id = n + 1 /\ wire[1].bodySize = h.bodySize
  <2>1. wire[1] = [id |-> n + 1, start |-> h.start, gopSize |-> h.count % BYTE,
                   bodySize |-> h.bodySize]
    BY <1>7, <1>11, <1>12
  <2>2. /\ wire[1].id = n + 1 /\ wire[1].start = h.start
        /\ wire[1].gopSize = h.count % BYTE /\ wire[1].bodySize = h.bodySize
    BY <2>1
  <2>. QED BY <1>9, <2>2 DEF IsHeader
<1>14. ASSUME wire[1].bodySize = 0 PROVE st[Len(sent)] = st[n + 1] \o (t \o lost)
  <2>1. Len(u) = Len(w) /\ w \o (t \o lost) = u \o r
    BY <1>5, <1>6, <1>11, <1>12, <1>13, <1>14
  <2>2. t \o lost = r
    BY <1>5, <1>6, <1>10, <1>11, <2>1, SameParts DEF Stream
  <2>. QED BY <1>10, <2>2
<1>15. st[Len(sent)] = st[n] \o (w \o (t \o lost))
  BY <1>6, <1>8
<1>. QED BY <1>1, <1>2, <1>4, <1>13, <1>14, <1>15, Zenon DEF w, t

\* The frame whose body is being received is the next one, and what is behind
\* it follows its body.
LEMMA NextBody ==
    ASSUME Inv, pc = "body"
    PROVE  /\ ~ mbClosed /\ IsHeader(header)
           /\ Len(buffer) = header.bodySize =>
                \E st, lost : /\ Streamed(st) /\ lost \in Stream /\ (peer = "up" => lost = <<>>)
                             /\ st[Len(sent)] = st[header.id] \o (wire \o lost)
<1>. DEFINE n == header.id - 1
            w == <<header>>
            p == w \o buffer
<1>1. /\ ~ mbClosed /\ wire \in Stream /\ buffer \in Stream /\ header \in Unit
      /\ sent \in Seq(Headers) /\ n \in 0 .. Len(sent) /\ n + 1 = header.id
  BY DEF Inv, LinkInv, CameraInv, GopInv, Taken, Unit
<1>2. PICK st, lost : AllThere(st, lost)
  BY <1>1 DEF Inv, StreamInv, Reading
<1>. DEFINE y == p \o (wire \o lost)
<1>3. /\ Streamed(st) /\ lost \in Stream /\ (peer = "up" => lost = <<>>)
      /\ st[Len(sent)] = st[n] \o y
  BY <1>2 DEF AllThere, Taken, Part
<1>4. w \in Stream /\ Len(w) = 1 /\ w[1] = header
  BY <1>1 DEF Stream
<1>. HIDE DEF n, w
<1>5. p \in Stream /\ Len(p) = 1 + Len(buffer) /\ p[1] = header /\ Len(buffer) \in Nat
  <2>1. w \in Seq(Unit) /\ buffer \in Seq(Unit) /\ Len(w) = 1 /\ Len(buffer) \in Nat
    BY <1>1, <1>4, LenProperties DEF Stream
  <2>2. p \in Stream /\ Len(p) = 1 + Len(buffer) /\ p[1] = w[1]
    BY <2>1, ConcatProperties DEF Stream
  <2>. QED BY <1>4, <2>1, <2>2
<1>6. wire \o lost \in Stream
  BY <1>1, <1>3, ConcatProperties DEF Stream
<1>. HIDE DEF p
<1>7. y \in Stream /\ y # <<>> /\ y[1] = header
  <2>. DEFINE z == wire \o lost
  <2>0. p \in Seq(Unit) /\ z \in Seq(Unit) /\ Len(p) \in Nat \ {0} /\ Len(z) \in Nat
    BY <1>5, <1>6, LenProperties DEF Stream
  <2>. HIDE DEF z
  <2>1. p \o z \in Stream /\ Len(p \o z) = Len(p) + Len(z) /\ (p \o z)[1] = p[1]
    BY <2>0, ConcatProperties DEF Stream
  <2>2. p \o z # <<>>
    BY <2>0, <2>1, EmptySeq
  <2>. QED BY <1>5, <2>1, <2>2 DEF z
<1>. HIDE DEF y
<1>8. /\ n + 1 \in 1 .. Len(sent)
      /\ \E r : /\ r \in Stream
               /\ y = Units(n + 1, sent[n + 1]) \o r
               /\ st[Len(sent)] = st[n + 1] \o r
  BY <1>1, <1>3, <1>7, NextFrame
<1>9. PICK r : r \in Stream /\ y = Units(n + 1, sent[n + 1]) \o r
                /\ st[Len(sent)] = st[n + 1] \o r
  BY <1>8
<1>. DEFINE u == Units(n + 1, sent[n + 1])
            h == sent[n + 1]
<1>10. /\ u \in Stream /\ Len(u) = 1 + h.bodySize /\ h.bodySize \in Nat
       /\ u[1] = [id |-> n + 1, start |-> h.start, gopSize |-> h.count % BYTE,
                 bodySize |-> h.bodySize]
  <2>1. n + 1 \in Nat /\ h \in Headers
    BY <1>1, <1>8, ElementOfSeq
  <2>. QED BY <2>1, UnitsOfFrame
<1>. HIDE DEF u
<1>11. y = u \o r /\ y[1] = u[1]
  <2>1. y = u \o r
    BY <1>9 DEF u
  <2>2. (u \o r)[1] = u[1]
    BY <1>9, <1>10, ConcatProperties, LenProperties DEF Stream
  <2>. QED BY <2>1, <2>2
<1>12. IsHeader(header) /\ header.id = n + 1 /\ header.bodySize = h.bodySize
  <2>1. header = [id |-> n + 1, start |-> h.start, gopSize |-> h.count % BYTE,
                  bodySize |-> h.bodySize]
    BY <1>7, <1>10, <1>11
  <2>2. /\ header.id = n + 1 /\ header.start = h.start
        /\ header.gopSize = h.count % BYTE /\ header.bodySize = h.bodySize
    BY <2>1
  <2>. QED BY <1>8, <2>2 DEF IsHeader
<1>13. ASSUME Len(buffer) = header.bodySize PROVE st[Len(sent)] = st[header.id] \o (wire \o lost)
  <2>1. Len(u) = Len(p) /\ p \o (wire \o lost) = u \o r
    BY <1>5, <1>10, <1>11, <1>12, <1>13 DEF y
  <2>2. wire \o lost = r
    BY <1>5, <1>6, <1>9, <1>10, <2>1, SameParts DEF Stream
  <2>. QED BY <1>9, <1>12, <2>2
<1>. QED BY <1>1, <1>3, <1>12, <1>13, Zenon

-----------------------------------------------------------------------------
(* The GOP put together. *)

\* No GOP begins among the other frames of one, and none of them is missing.
LEMMA FrameTaken ==
    ASSUME CameraInv, SavedInv, GopInv, pc \in {"header", "body"}, ~ mbClosed,
           NEW h \in Unit, IsHeader(h), h.id = Taken + 1, NEW got \in 0 .. h.bodySize,
           TakeFrame(h, got), header' = h, UNCHANGED <<sent, saved>>,
           mbClosed' \in BOOLEAN, got < h.bodySize => mbClosed'
    PROVE  GopInv' /\ frames' \in Seq(Frame) /\ pc' \in {"header", "save"}
<1>. DEFINE T     == Taken
            L     == Len(frames)
            frame == [id |-> h.id, start |-> h.start, gopSize |-> h.gopSize,
                      missing |-> h.bodySize - got]
<1>1. /\ Len(sent) \in Nat /\ T \in 0 .. Len(sent) /\ T + 1 \in 1 .. Len(sent)
      /\ h.start = sent[T + 1].start /\ h.gopSize = sent[T + 1].count % BYTE
  BY LenProperties DEF CameraInv, GopInv, IsHeader
<1>2. /\ frame \in Frame /\ frame.id = T + 1 /\ frame.start = h.start
      /\ frame.gopSize = sent[T + 1].count % BYTE
      /\ frame.missing > 0 => mbClosed'
  <2>1. h.id \in Nat /\ h.start \in BOOLEAN /\ h.gopSize \in Nat /\ h.bodySize - got \in Nat
    BY DEF Unit
  <2>2. frame \in Frame
    BY <2>1 DEF Frame
  <2>3. h.bodySize - got > 0 => mbClosed'
    BY DEF Unit
  <2>. QED BY <1>1, <2>2, <2>3
<1>3. /\ frames' = IF frames # <<>> \/ h.start THEN Append(frames, frame) ELSE <<>>
      /\ pc' = IF frames' # <<>> /\ Len(frames') >= frames'[1].gopSize THEN "save" ELSE "header"
  BY DEF TakeFrame
<1>. HIDE DEF T, frame
<1>4. Taken' = T + 1 /\ pc' \in {"header", "save"}
  <2>1. pc' \in {"header", "save"}
    BY <1>3
  <2>. QED BY <2>1 DEF Taken, T
<1>5. Starts' = Starts /\ StartsTo(Taken)' = StartsTo(T + 1)
  <2>1. Starts' = Starts
    BY DEF Starts
  <2>. QED BY <1>4, <2>1 DEF StartsTo
<1>6. frames \in Seq(Frame) /\ L \in Nat /\ Len(saved) \in Nat
  BY LenProperties DEF SavedInv
<1>7. T + 1 \in Starts <=> h.start
  BY <1>1 DEF Starts
<1>8. Taken' \in 0 .. Len(sent)
  BY <1>1, <1>4
<1>9. /\ T + 1 \in Starts => Cardinality(StartsTo(T + 1)) = Cardinality(StartsTo(T)) + 1
      /\ T + 1 \notin Starts => StartsTo(T + 1) = StartsTo(T)
  BY <1>1, OneMoreStart DEF CameraInv
<1>10. Cardinality(StartsTo(T)) = Len(saved) + (IF frames = <<>> THEN 0 ELSE 1)
  BY DEF GopInv, T
<1>11. CASE frames # <<>>
  <2>. DEFINE s == frames[1].id
              c == sent[s].count
  <2>1. /\ s \in Starts /\ frames[1].start /\ frames[1].gopSize = c % BYTE
        /\ L = T - s + 1 /\ L < c % BYTE
        /\ \A i \in 1 .. L : frames[i].id = s + i - 1 /\ frames[i].missing \in Nat /\ ~ (frames[i].missing > 0)
    <3>1. \A i \in 1 .. L : frames[i].missing \in Nat
      <4>1. \A i \in 1 .. L : frames[i] \in Frame
        BY <1>6, ElementOfSeq
      <4>. QED BY <4>1 DEF Frame
    <3>. QED BY <1>11, <3>1 DEF GopInv, T
  <2>2. s \in 1 .. Len(sent) /\ c \in Nat \ {0}
    <3>1. s \in 1 .. Len(sent)
      BY <2>1, LenProperties DEF CameraInv, Starts
    <3>2. sent[s] \in Headers
      BY <3>1, ElementOfSeq DEF CameraInv
    <3>. QED BY <3>1, <3>2, VideoAssumption DEF Headers
  <2>3. c % BYTE \in 0 .. c
    BY <2>2, SizeInByte
  <2>4. T + 1 \in s + 1 .. s + c - 1
    <3>1. L # 0
      BY <1>6, <1>11, EmptySeq
    <3>. DEFINE b == c % BYTE
    <3>2. L < b /\ b \in 0 .. c /\ L = T - s + 1
      BY <2>1, <2>3
    <3>3. T \in Nat /\ s \in Nat /\ c \in Nat
      BY <1>1, <2>2
    <3>. HIDE DEF b, s, c, L
    <3>4. L \in Nat
      BY <1>6
    <3>. QED BY <3>1, <3>2, <3>3, <3>4
  <2>5. ~ h.start
    <3>1. \A id \in s + 1 .. s + c - 1 : id <= Len(sent) => ~ sent[id].start
      BY <2>1 DEF CameraInv
    <3>. QED BY <1>1, <2>4, <3>1
  <2>. HIDE DEF s, c
  <2>6. /\ frames' \in Seq(Frame) /\ frames' # <<>> /\ Len(frames') = L + 1
        /\ \A i \in 1 .. L : frames'[i] = frames[i]
        /\ frames'[L + 1] = frame
    BY <1>2, <1>3, <1>6, <1>11, AppendProperties
  <2>7. L > 0
    BY <1>6, <1>11, EmptySeq
  <2>8. frames'[1] = frames[1]
    BY <1>6, <2>6, <2>7
  <2>9. IF pc' = "save" THEN frames'[1].gopSize \in {0, Len(frames')}
                        ELSE Len(frames') < frames'[1].gopSize
    BY <1>3, <1>6, <2>1, <2>2, <2>3, <2>6, <2>8
  <2>10. \A i \in 1 .. Len(frames') :
            /\ frames'[i].id = s + i - 1
            /\ frames'[i].missing > 0 => mbClosed' /\ i = Len(frames')
    <3>. TAKE i \in 1 .. Len(frames')
    <3>1. CASE i \in 1 .. L
      BY <1>6, <2>1, <2>6, <3>1
    <3>2. CASE i = L + 1
      <4>1. frames'[i] = frame /\ frame.id = s + i - 1
        BY <1>1, <1>2, <1>6, <2>1, <2>2, <2>6, <3>2
      <4>. QED BY <1>2, <2>6, <3>2, <4>1
    <3>. QED BY <1>6, <2>6, <3>1, <3>2
  <2>11. frames'[1].id = s /\ frames'[1].start /\ frames'[1].gopSize = sent'[s].count % BYTE
    BY <2>1, <2>8 DEF s, c
  <2>12. Len(frames') = Taken' - s + 1 /\ s \in Starts'
    BY <1>1, <1>4, <1>5, <1>6, <2>1, <2>2, <2>6
  <2>13. Cardinality(StartsTo(Taken)') = Len(saved') + 1
    BY <1>5, <1>7, <1>9, <1>10, <1>11, <2>5
  <2>. QED BY <1>4, <1>8, <2>6, <2>9, <2>10, <2>11, <2>12, <2>13 DEF GopInv
<1>12. CASE frames = <<>> /\ h.start
  <2>1. frames' \in Seq(Frame) /\ frames' # <<>> /\ Len(frames') = 1 /\ frames'[1] = frame
    <3>1. Len(frames) = 0
      BY <1>12, EmptySeq
    <3>. QED BY <1>2, <1>3, <1>6, <1>12, <3>1, AppendProperties
  <2>2. frames'[1].gopSize \in Nat
    BY <1>2, <2>1 DEF Frame
  <2>3. IF pc' = "save" THEN frames'[1].gopSize \in {0, Len(frames')}
                        ELSE Len(frames') < frames'[1].gopSize
    BY <1>3, <2>1, <2>2
  <2>4. frames'[1].id \in Starts' /\ frames'[1].id = T + 1 /\ frames'[1].start
    BY <1>2, <1>5, <1>7, <1>12, <2>1
  <2>5. frames'[1].gopSize = sent'[frames'[1].id].count % BYTE
    BY <1>2, <2>1
  <2>6. Len(frames') = Taken' - frames'[1].id + 1
    BY <1>1, <1>4, <2>1, <2>4
  <2>7. \A i \in 1 .. Len(frames') :
            /\ frames'[i].id = frames'[1].id + i - 1
            /\ frames'[i].missing > 0 => mbClosed' /\ i = Len(frames')
    BY <1>1, <1>2, <2>1, <2>4
  <2>8. Cardinality(StartsTo(Taken)') = Len(saved') + 1
    BY <1>5, <1>6, <1>7, <1>9, <1>10, <1>12
  <2>. QED BY <1>4, <1>8, <2>1, <2>3, <2>4, <2>5, <2>6, <2>7, <2>8 DEF GopInv
<1>13. CASE frames = <<>> /\ ~ h.start
  <2>1. frames' = <<>> /\ pc' = "header" /\ frames' \in Seq(Frame)
    BY <1>3, <1>13, EmptySeq
  <2>2. Cardinality(StartsTo(Taken)') = Len(saved')
    BY <1>5, <1>6, <1>7, <1>9, <1>10, <1>13
  <2>. QED BY <1>6, <1>8, <2>1, <2>2 DEF GopInv
<1>. QED BY <1>4, <1>11, <1>12, <1>13

\* What has been saved stays as it was sent.
LEMMA SavedKept ==
    ASSUME SavedInv, sent \in Seq(Headers), saved' = saved, frames' \in Seq(Frame),
           \/ sent' = sent
           \/ \E h : h \in Headers /\ sent' = Append(sent, h),
           mbClosed /\ pc \in {"header", "died"} => mbClosed' /\ pc' \in {"header", "died"}
    PROVE  SavedInv'
<1>1. Len(sent) \in Nat
  BY LenProperties
<1>2. \A first \in Starts :
         first \in Starts' /\ sent'[first] = sent[first] /\ StartsTo(first)' = StartsTo(first)
  <2>1. CASE sent' = sent
    <3>1. Starts' = Starts
      BY <2>1 DEF Starts
    <3>. QED BY <2>1, <3>1 DEF StartsTo
  <2>2. CASE \E h : h \in Headers /\ sent' = Append(sent, h)
    <3>1. PICK h : h \in Headers /\ sent' = Append(sent, h)
      BY <2>2
    <3>2. /\ Len(sent') = Len(sent) + 1 /\ sent' \in Seq(Headers)
          /\ \A i \in 1 .. Len(sent) : sent'[i] = sent[i]
      BY <3>1, AppendProperties
    <3>3. DOMAIN sent = 1 .. Len(sent) /\ DOMAIN sent' = 1 .. Len(sent) + 1
      BY <3>2, LenProperties
    <3>4. \A n \in 1 .. Len(sent) : n \in Starts' <=> n \in Starts
      BY <1>1, <3>2, <3>3 DEF Starts
    <3>5. \A n \in Starts : n \in 1 .. Len(sent)
      BY <3>3 DEF Starts
    <3>6. \A n \in Starts' : n \in 1 .. Len(sent) + 1
      BY <3>3 DEF Starts
    <3>7. ASSUME NEW first \in Starts PROVE StartsTo(first)' = StartsTo(first)
      BY <1>1, <3>4, <3>5, <3>6 DEF StartsTo
    <3>. QED BY <3>2, <3>4, <3>5, <3>7
  <2>. QED BY <2>1, <2>2
<1>3. ASSUME NEW k \in DOMAIN saved, NEW first \in Starts, SavedOf(saved[k], first, k)
      PROVE  first \in Starts' /\ SavedOf(saved[k], first, k)'
  <2>1. first \in Starts' /\ Cardinality(StartsTo(first)') = k
    BY <1>2, <1>3 DEF SavedOf
  <2>2. Len(saved'[k]) = sent'[first].count % BYTE
    BY <1>2, <1>3 DEF SavedOf
  <2>3. \A i \in DOMAIN saved'[k] :
          /\ saved'[k][i].id = first + i - 1
          /\ saved'[k][i].missing > 0 =>
                mbClosed' /\ pc' \in {"header", "died"} /\ k = Len(saved') /\ i = Len(saved'[k])
    BY <1>3 DEF SavedOf
  <2>. QED BY <2>1, <2>2, <2>3 DEF SavedOf
<1>4. \A k \in DOMAIN saved' : \E first \in Starts' : SavedOf(saved[k], first, k)'
  BY <1>3 DEF SavedInv
<1>. QED BY <1>4 DEF SavedInv

\* A GOP the constructor accepts is the next one that was sent.
LEMMA SaveGopKeeps ==
    ASSUME Inv, SaveGop
    PROVE  SavedInv' /\ GopInv'
<1>1. /\ pc = "save" /\ pc' = "header" /\ frames[1].start /\ WholeGop(frames)
      /\ saved' = Append(saved, frames) /\ frames' = <<>>
      /\ mbClosed' = mbClosed /\ sent' = sent /\ header' = header
  BY DEF SaveGop
<1>2. /\ saved \in Seq(Seq(Frame)) /\ frames \in Seq(Frame) /\ frames # <<>>
      /\ sent \in Seq(Headers) /\ Len(sent) \in Nat
  BY <1>1, LenProperties DEF Inv, SavedInv, GopInv, CameraInv
<1>3. /\ saved' \in Seq(Seq(Frame)) /\ Len(saved') = Len(saved) + 1 /\ Len(saved) \in Nat
      /\ \A i \in 1 .. Len(saved) : saved'[i] = saved[i]
      /\ saved'[Len(saved) + 1] = frames
  BY <1>1, <1>2, AppendProperties, LenProperties
<1>4. DOMAIN saved = 1 .. Len(saved) /\ DOMAIN saved' = 1 .. Len(saved) + 1
  BY <1>2, <1>3, LenProperties
<1>5. Starts' = Starts /\ \A n : StartsTo(n)' = StartsTo(n)
  <2>1. Starts' = Starts
    BY <1>1 DEF Starts
  <2>. QED BY <2>1 DEF StartsTo
<1>. DEFINE s == frames[1].id
            c == sent[s].count
            L == Len(frames)
            K == Len(saved) + 1
<1>6. /\ Taken \in 0 .. Len(sent)
      /\ s \in Starts /\ frames[1].gopSize = c % BYTE /\ L = Taken - s + 1
      /\ \A i \in 1 .. L :
            frames[i].id = s + i - 1 /\ (frames[i].missing > 0 => mbClosed /\ i = L)
      /\ Cardinality(StartsTo(Taken)) = K
  BY <1>1, <1>2 DEF Inv, GopInv
<1>7. L \in Nat /\ L = c % BYTE
  BY <1>1, <1>2, <1>6, LenProperties DEF WholeGop
<1>8. s \in 1 .. Len(sent) /\ c \in Nat \ {0} /\ c % BYTE \in 0 .. c
  <2>1. s \in 1 .. Len(sent)
    BY <1>2, <1>6, LenProperties DEF Starts
  <2>2. sent[s] \in Headers
    BY <1>2, <2>1, ElementOfSeq
  <2>. QED BY <2>1, <2>2, SizeInByte, VideoAssumption DEF Headers
<1>9. StartsTo(s) = StartsTo(Taken)
  <2>1. \A id \in s + 1 .. s + c - 1 : id <= Len(sent) => ~ sent[id].start
    BY <1>6 DEF Inv, CameraInv
  <2>2. Taken \in Nat /\ Taken <= s + c - 1 /\ Taken <= Len(sent) /\ s <= Taken
    <3>1. L # 0
      BY <1>2, EmptySeq
    <3>2. Taken \in 0 .. Len(sent) /\ L = Taken - s + 1
      BY <1>6
    <3>3. s \in Nat /\ c \in Nat
      <4>. HIDE DEF c
      <4>. QED BY <1>2, <1>8
    <3>. DEFINE b == c % BYTE
    <3>4. L = b /\ b \in 0 .. c
      BY <1>7, <1>8
    <3>. HIDE DEF b, s, c, L
    <3>. QED BY <1>2, <3>1, <3>2, <3>3, <3>4
  <2>3. \A n \in Starts : n \in 1 .. Len(sent) /\ sent[n].start
    BY <1>2, LenProperties DEF Starts
  <2>. HIDE DEF s, c
  <2>4. \A n \in Starts : n <= Taken <=> n <= s
    BY <1>8, <2>1, <2>2, <2>3
  <2>. QED BY <2>4 DEF StartsTo
<1>10. ASSUME NEW k, k = K, NEW first, first = s
       PROVE  first \in Starts' /\ SavedOf(saved[k], first, k)'
  <2>1. first \in Starts' /\ Cardinality(StartsTo(first)') = k
    BY <1>5, <1>6, <1>9, <1>10
  <2>2. DOMAIN frames = 1 .. L /\ saved'[k] = frames
    BY <1>2, <1>3, <1>10, LenProperties
  <2>3. Len(saved'[k]) = sent'[first].count % BYTE
    BY <1>1, <1>7, <1>10, <2>2
  <2>4. \A i \in DOMAIN saved'[k] :
          /\ saved'[k][i].id = first + i - 1
          /\ saved'[k][i].missing > 0 =>
                mbClosed' /\ pc' \in {"header", "died"} /\ k = Len(saved') /\ i = Len(saved'[k])
    BY <1>1, <1>3, <1>6, <1>10, <2>2
  <2>. QED BY <2>1, <2>3, <2>4 DEF SavedOf
<1>11. ASSUME NEW k \in 1 .. Len(saved)
       PROVE  \E first \in Starts' : SavedOf(saved[k], first, k)'
  <2>1. PICK first \in Starts : SavedOf(saved[k], first, k)
    BY <1>4 DEF Inv, SavedInv
  <2>2. SavedOf(saved[k], first, k)'
    BY <1>1, <1>3, <1>5, <2>1 DEF SavedOf
  <2>. QED BY <1>5, <2>2
<1>12. GopInv'
  <2>1. Taken' = Taken
    BY <1>1 DEF Taken
  <2>2. Cardinality(StartsTo(Taken)') = Len(saved')
    BY <1>3, <1>5, <1>6, <2>1
  <2>. QED BY <1>1, <1>3, <1>6, <2>1, <2>2 DEF GopInv
<1>13. SavedInv'
  <2>1. \A k \in DOMAIN saved' : \E first \in Starts' : SavedOf(saved[k], first, k)'
    <3>. TAKE k \in DOMAIN saved'
    <3>1. CASE k \in 1 .. Len(saved)
      BY <1>11, <3>1
    <3>2. CASE k = K
      BY <1>10, <3>2
    <3>. QED BY <1>3, <1>4, <3>1, <3>2
  <2>2. frames' \in Seq(Frame)
    BY <1>1, EmptySeq
  <2>. QED BY <1>3, <2>1, <2>2 DEF SavedInv
<1>. QED BY <1>12, <1>13

-----------------------------------------------------------------------------
(* The steps. *)

\* The invariant holds before the client connects.
LEMMA InitHolds == Init => Inv
<1>. SUFFICES ASSUME Init PROVE Inv
  OBVIOUS
<1>1. /\ mbClosed = TRUE /\ pc = "start" /\ peer = "up" /\ wire = <<>> /\ buffer = <<>>
      /\ header = NoFrame /\ frames = <<>> /\ sent = <<>> /\ saved = <<>>
      /\ left \in UNION {0 .. g - 1 : g \in GopSizes}
  BY DEF Init, ConnectionInit
<1>2. Starts = {} /\ Taken = 0 /\ StartsTo(Taken) = {}
  <2>1. Starts = {}
    BY <1>1 DEF Starts
  <2>. QED BY <1>1, <2>1 DEF StartsTo, Taken, NoFrame
<1>3. left \in Nat
  <2>1. PICK g \in GopSizes : left \in 0 .. g - 1
    BY <1>1
  <2>. QED BY <2>1
<1>4. CameraInv
  BY <1>1, <1>2, <1>3, EmptySeq DEF CameraInv
<1>5. LinkInv
  <2>1. header \in Unit /\ header.bodySize = 0
    BY <1>1 DEF NoFrame, Unit
  <2>. QED BY <1>1, <2>1, EmptySeq DEF LinkInv, Stream
<1>6. GopInv
  <2>1. Cardinality(StartsTo(Taken)) = 0
    BY <1>2, FS_EmptySet
  <2>. QED BY <1>1, <1>2, <2>1 DEF GopInv
<1>7. SavedInv
  BY <1>1, EmptySeq DEF SavedInv
<1>8. StreamInv
  BY <1>1 DEF StreamInv, Reading
<1>. QED BY <1>4, <1>5, <1>6, <1>7, <1>8 DEF Inv

\* The camera goes on with the GOP it owes, or begins one.
LEMMA CameraSendsKeeps ==
    ASSUME Inv, CameraSends
    PROVE  Inv'
<1>1. PICK h \in Headers :
         /\ h.start = (left = 0)
         /\ left' = (IF h.start THEN h.count ELSE left) - 1
         /\ sent' = Append(sent, h)
         /\ Send(Units(Len(sent) + 1, h))
  BY DEF CameraSends
<1>. DEFINE N == Len(sent)
            u == Units(N + 1, h)
<1>2. /\ ~ mbClosed /\ pc # "died" /\ peer = "up" /\ wire' = wire \o u
      /\ UNCHANGED <<mbClosed, pc, peer, buffer, header, frames, saved>>
  BY <1>1 DEF CameraSends, Send, Reading, own
<1>3. /\ sent \in Seq(Headers) /\ N \in Nat /\ left \in Nat
      /\ h.count \in Nat \ {0} /\ h.bodySize \in Nat
      /\ wire \in Stream /\ frames \in Seq(Frame)
  BY LenProperties, VideoAssumption DEF Inv, CameraInv, LinkInv, SavedInv, Headers
<1>4. /\ Len(sent') = N + 1 /\ sent' \in Seq(Headers)
      /\ \A i \in 1 .. N : sent'[i] = sent[i]
      /\ sent'[N + 1] = h
  BY <1>1, <1>3, AppendProperties
<1>5. u \in Stream /\ wire' \in Stream
  <2>1. u \in Stream
    <3>1. N + 1 \in Nat
      BY <1>3
    <3>. QED BY <3>1, UnitsOfFrame
  <2>. HIDE DEF u
  <2>. QED BY <1>2, <1>3, <2>1, ConcatProperties DEF Stream
<1>6. (left = 0 => h.start /\ left' = h.count - 1) /\ (left # 0 => ~ h.start /\ left' = left - 1)
  BY <1>1
<1>7. /\ \A n \in 1 .. N : n \in Starts' <=> n \in Starts
      /\ N + 1 \in Starts' <=> h.start
      /\ \A n \in Starts : n \in 1 .. N
      /\ \A n \in Starts' : n \in 1 .. N + 1
  <2>1. DOMAIN sent = 1 .. N /\ DOMAIN sent' = 1 .. N + 1
    BY <1>3, <1>4, LenProperties
  <2>. QED BY <1>3, <1>4, <2>1 DEF Starts
<1>. HIDE DEF N, u
<1>8. CameraInv'
  <2>1. left' \in Nat
    BY <1>3, <1>6
  <2>2. ASSUME NEW s \in Starts'
        PROVE  /\ \A id \in s + 1 .. s + sent'[s].count - 1 : id <= Len(sent') => ~ sent'[id].start
               /\ Len(sent') < s + sent'[s].count => left' = s + sent'[s].count - 1 - Len(sent')
    <3>1. CASE s \in 1 .. N
      <4>. DEFINE c == sent[s].count
      <4>1. s \in Starts /\ sent'[s] = sent[s]
        BY <1>4, <1>7, <3>1
      <4>2. c \in Nat
        <5>1. sent[s] \in Headers
          BY <1>3, <3>1, ElementOfSeq DEF N
        <5>. QED BY <5>1, VideoAssumption DEF Headers
      <4>3. /\ \A id \in s + 1 .. s + c - 1 : id <= N => ~ sent[id].start
            /\ N < s + c => left = s + c - 1 - N
        BY <4>1 DEF Inv, CameraInv, N
      <4>. HIDE DEF c
      <4>4. N + 1 < s + c => left # 0 /\ ~ h.start /\ left' = s + c - 1 - (N + 1)
        BY <1>3, <1>6, <3>1, <4>2, <4>3
      <4>5. ASSUME NEW id \in s + 1 .. s + c - 1, id <= N + 1 PROVE ~ sent'[id].start
        <5>1. CASE id <= N
          BY <1>3, <1>4, <3>1, <4>2, <4>3, <4>5, <5>1
        <5>2. CASE id = N + 1
          BY <1>3, <1>4, <3>1, <4>2, <4>4, <5>2
        <5>. QED BY <1>3, <3>1, <4>2, <4>5, <5>1, <5>2
      <4>. QED BY <1>4, <4>1, <4>4, <4>5 DEF c
    <3>2. CASE s = N + 1
      <4>1. h.start /\ sent'[s] = h
        BY <1>4, <1>7, <3>2
      <4>2. left' = s + h.count - 1 - (N + 1)
        BY <1>3, <1>6, <3>2, <4>1
      <4>3. \A id \in s + 1 .. s + h.count - 1 : ~ (id <= N + 1)
        BY <1>3, <3>2
      <4>. QED BY <1>4, <4>1, <4>2, <4>3
    <3>. QED BY <1>3, <1>7, <3>1, <3>2
  <2>. QED BY <1>4, <2>1, <2>2 DEF CameraInv
<1>9. LinkInv'
  BY <1>2, <1>5 DEF Inv, LinkInv
<1>10. GopInv'
  <2>1. Taken' = Taken /\ Taken \in 0 .. N
    BY <1>2 DEF Taken, Inv, GopInv, N
  <2>2. StartsTo(Taken)' = StartsTo(Taken)
    BY <1>3, <1>7, <2>1 DEF StartsTo
  <2>3. frames # <<>> => frames[1].id \in Starts' /\ sent'[frames[1].id] = sent[frames[1].id]
    BY <1>2, <1>4, <1>7 DEF Inv, GopInv
  <2>4. Taken' \in 0 .. Len(sent')
    BY <1>3, <1>4, <2>1
  <2>. QED BY <1>2, <2>1, <2>2, <2>3, <2>4 DEF Inv, GopInv
<1>11. SavedInv'
  <2>1. \E g : g \in Headers /\ sent' = Append(sent, g)
    BY <1>1
  <2>. QED BY <1>2, <1>3, <2>1, SavedKept DEF Inv
<1>12. StreamInv'
  <2>1. PICK st, lost : AllThere(st, lost)
    BY <1>2 DEF Inv, StreamInv, Reading
  <2>2. /\ Taken \in 0 .. N /\ lost = <<>> /\ Taken' = Taken /\ Part' = Part
        /\ st[N] = st[Taken] \o (Part \o (wire \o lost))
    BY <1>2, <2>1 DEF AllThere, Inv, GopInv, Taken, Part, N
  <2>3. PICK s2 : s2 = [n \in 0 .. N + 1 |-> IF n = N + 1 THEN st[N] \o u ELSE st[n]]
    OBVIOUS
  <2>4. /\ st[0] = <<>> /\ \A n \in 0 .. N : st[n] \in Seq(Unit)
        /\ \A n \in 1 .. N : Pieces[n] \in Seq(Unit) /\ st[n] = st[n - 1] \o Pieces[n]
    BY <2>1 DEF AllThere, Streamed, Joins, N
  <2>5. s2[N + 1] = st[N] \o u /\ \A n \in 0 .. N : s2[n] = st[n]
    BY <1>3, <2>3
  <2>6. Pieces'[N + 1] = u /\ \A n \in 1 .. N : Pieces'[n] = Pieces[n]
    BY <1>3, <1>4 DEF Pieces, u, N
  <2>7. s2[N + 1] \in Seq(Unit)
    <3>. DEFINE a == st[N]
    <3>1. a \in Seq(Unit) /\ u \in Seq(Unit) /\ s2[N + 1] = a \o u
      BY <1>3, <1>5, <2>4, <2>5 DEF Stream
    <3>. HIDE DEF a
    <3>. QED BY <3>1, ConcatProperties
  <2>8. ASSUME NEW n \in 0 .. N + 1 PROVE s2[n] \in Seq(Unit)
    <3>1. n \in 0 .. N \/ n = N + 1
      BY <1>3
    <3>. QED BY <2>4, <2>5, <2>7, <3>1
  <2>9. ASSUME NEW n \in 1 .. N + 1
        PROVE  Pieces'[n] \in Seq(Unit) /\ s2[n] = s2[n - 1] \o Pieces'[n]
    <3>1. CASE n \in 1 .. N
      <4>1. n - 1 \in 0 .. N /\ n \in 0 .. N
        BY <1>3, <3>1
      <4>. QED BY <2>4, <2>5, <2>6, <3>1, <4>1
    <3>2. CASE n = N + 1
      <4>1. s2[N] = st[N] /\ n - 1 = N
        BY <1>3, <2>5, <3>2
      <4>. QED BY <1>5, <2>5, <2>6, <3>2, <4>1 DEF Stream
    <3>3. n \in 1 .. N \/ n = N + 1
      BY <1>3
    <3>. QED BY <3>1, <3>2, <3>3
  <2>10. Streamed(s2)'
    <3>1. s2[0] = <<>> /\ N + 1 \in Nat
      BY <1>3, <2>4, <2>5
    <3>2. Joins(s2, Pieces', N + 1, Unit)
      BY <2>8, <2>9, <3>1 DEF Joins
    <3>. QED BY <1>4, <3>1, <3>2 DEF Streamed
  <2>11. s2[N + 1] = s2[Taken] \o (Part \o (wire' \o <<>>))
    <3>. DEFINE a == st[Taken]
                p == Part
    <3>1. a \in Seq(Unit) /\ p \in Seq(Unit) /\ wire \in Seq(Unit) /\ u \in Seq(Unit)
      <4>1. header \in Unit /\ buffer \in Seq(Unit)
        BY DEF Inv, LinkInv, Stream
      <4>2. <<header>> \in Seq(Unit) /\ <<>> \in Seq(Unit)
        BY <4>1
      <4>3. <<header>> \o buffer \in Seq(Unit)
        BY <4>1, <4>2, ConcatProperties
      <4>. QED BY <1>3, <1>5, <2>2, <2>4, <4>2, <4>3 DEF Stream, Part
    <3>2. st[N] = a \o (p \o (wire \o <<>>)) /\ s2[Taken] = a
      BY <2>2, <2>5
    <3>. HIDE DEF a, p
    <3>3. wire \o <<>> = wire /\ wire' \o <<>> = wire' /\ p \o wire \in Seq(Unit)
      BY <1>5, <3>1, ConcatEmptySeq, ConcatProperties DEF Stream
    <3>. DEFINE q == p \o wire
    <3>. HIDE DEF q
    <3>4. q \in Seq(Unit) /\ (a \o q) \o u = a \o (q \o u)
      <4>1. q \in Seq(Unit)
        BY <3>3 DEF q
      <4>. QED BY <3>1, <4>1, ConcatAssociative
    <3>5. q \o u = p \o (wire \o u)
      BY <3>1, ConcatAssociative DEF q
    <3>6. s2[N + 1] = a \o (p \o (wire \o u))
      BY <2>5, <3>2, <3>3, <3>4, <3>5 DEF q
    <3>. QED BY <1>2, <3>2, <3>3, <3>6 DEF p
  <2>12. AllThere(s2, <<>>)'
    <3>1. <<>> \in Stream
      BY EmptySeq DEF Stream
    <3>. QED BY <1>4, <2>2, <2>10, <2>11, <3>1 DEF AllThere
  <2>. QED BY <2>12 DEF StreamInv
<1>. QED BY <1>8, <1>9, <1>10, <1>11, <1>12 DEF Inv

\* What is lost with the connection is the end of what was on its way.
LEMMA LoseConnectionKeeps ==
    ASSUME Inv, LoseConnection, UNCHANGED <<own, sent, left, saved>>
    PROVE  Inv'
<1>1. PICK n \in 0 .. Len(wire) : wire' = SubSeq(wire, 1, n)
  BY DEF LoseConnection
<1>2. /\ ~ mbClosed /\ pc # "died" /\ peer = "up" /\ peer' \in {"closed", "broken"}
      /\ UNCHANGED <<mbClosed, pc, buffer, header, frames, sent, left, saved>>
  BY DEF LoseConnection, Reading, own
<1>. DEFINE tail == SubSeq(wire, n + 1, Len(wire))
<1>3. /\ wire \in Stream /\ wire' \in Stream /\ tail \in Stream /\ wire = wire' \o tail
  BY <1>1, CutInTwo DEF Inv, LinkInv, Stream
<1>. HIDE DEF tail
<1>4. /\ Starts' = Starts /\ Pieces' = Pieces /\ Taken' = Taken /\ Part' = Part
      /\ \A k : StartsTo(k)' = StartsTo(k)
  <2>1. Starts' = Starts
    BY <1>2 DEF Starts
  <2>. QED BY <1>2, <2>1 DEF Pieces, Taken, Part, StartsTo
<1>5. CameraInv'
  BY <1>2, <1>4 DEF Inv, CameraInv
<1>6. LinkInv'
  BY <1>2, <1>3 DEF Inv, LinkInv
<1>7. GopInv'
  BY <1>2, <1>4 DEF Inv, GopInv
<1>8. SavedInv'
  BY <1>2, SavedKept DEF Inv, CameraInv, SavedInv
<1>9. PICK st, lost : AllThere(st, lost)
  BY <1>2 DEF Inv, StreamInv, Reading
<1>10. lost = <<>> /\ st[Len(sent)] = st[Taken] \o (Part \o (wire \o lost)) /\ Streamed(st)
  BY <1>2, <1>9 DEF AllThere
<1>11. wire \o lost = wire' \o tail
  BY <1>3, <1>10, ConcatEmptySeq DEF Stream
<1>12. PICK t : t = tail
  OBVIOUS
<1>13. AllThere(st, t)'
  BY <1>2, <1>3, <1>4, <1>10, <1>11, <1>12 DEF AllThere, Streamed
<1>. QED BY <1>5, <1>6, <1>7, <1>8, <1>13 DEF Inv, StreamInv

\* The client connects, or cannot.
LEMMA ConnectionKeeps ==
    ASSUME Inv, Connected \/ NotConnected
    PROVE  Inv'
<1>1. /\ pc = "start" /\ pc' \in {"header", "ended", "died"}
      /\ mbClosed' \in BOOLEAN /\ (pc' = "ended" => mbClosed')
      /\ pc' = "header" => ~ mbClosed'
      /\ UNCHANGED <<peer, wire, buffer, header, frames, sent, left, saved>>
  BY DEF Connected, NotConnected, Connect, ConnectFails, own, Inv, LinkInv
<1>2. /\ mbClosed /\ sent = <<>> /\ header = NoFrame /\ frames = <<>> /\ saved = <<>>
      /\ wire = <<>> /\ buffer = <<>>
  BY <1>1 DEF Inv, LinkInv
<1>3. Starts' = Starts /\ Taken' = Taken /\ \A k : StartsTo(k)' = StartsTo(k)
  <2>1. Starts' = Starts
    BY <1>1 DEF Starts
  <2>. QED BY <1>1, <2>1 DEF Taken, StartsTo
<1>4. CameraInv'
  BY <1>1, <1>3 DEF Inv, CameraInv
<1>5. LinkInv'
  BY <1>1, <1>2 DEF Inv, LinkInv
<1>6. GopInv'
  BY <1>1, <1>2, <1>3 DEF Inv, GopInv
<1>7. SavedInv'
  <2>1. frames' \in Seq(Frame) /\ saved' \in Seq(Seq(Frame)) /\ DOMAIN saved' = {}
    BY <1>1, <1>2, EmptySeq
  <2>. QED BY <2>1 DEF SavedInv
<1>8. StreamInv'
  <2>. DEFINE st == [n \in {0} |-> <<>>]
  <2>1. Joins(st, Pieces', 0, Unit)
    BY EmptySeq DEF Joins
  <2>2. Streamed(st)'
    BY <1>1, <1>2, <2>1 DEF Streamed
  <2>3. (Taken' = 0 /\ Part' = <<>>) \/ ~ Reading'
    BY <1>1, <1>2 DEF Taken, Part, NoFrame, Reading
  <2>4. <<>> \o <<>> = <<>> /\ <<>> \in Stream
    BY EmptySeq, ConcatEmptySeq DEF Stream
  <2>5. Reading' => AllThere(st, <<>>)'
    BY <1>1, <1>2, <2>2, <2>3, <2>4 DEF AllThere
  <2>. QED BY <2>5 DEF StreamInv
<1>. QED BY <1>4, <1>5, <1>6, <1>7, <1>8 DEF Inv

\* The client takes the header of the next frame off the connection.
LEMMA ReceiveHeaderKeeps ==
    ASSUME Inv, ReceiveHeader
    PROVE  Inv'
<1>. DEFINE h == wire[1]
<1>1. /\ pc = "header" /\ wire # <<>> /\ header' = Head(wire) /\ wire' = Tail(wire)
      /\ UNCHANGED <<mbClosed, peer, buffer, sent, left, saved>>
      /\ header'.bodySize > 0 => pc' = "body" /\ frames' = frames
      /\ ~ (header'.bodySize > 0) => TakeFrame(header', 0)
  BY DEF ReceiveHeader
<1>2. /\ ~ mbClosed /\ header' = h /\ h \in Unit /\ IsHeader(h) /\ h.id = header.id + 1
      /\ wire' \in Stream /\ h.bodySize \in Nat /\ header.id \in Nat
  BY <1>1, NextHeader DEF Inv, LinkInv, Unit
<1>3. Taken = header.id /\ buffer = <<>> /\ Len(buffer) = 0 /\ frames \in Seq(Frame)
  BY <1>1, EmptySeq DEF Taken, Inv, LinkInv, SavedInv
<1>4. Starts' = Starts /\ Pieces' = Pieces /\ \A k : StartsTo(k)' = StartsTo(k)
  <2>1. Starts' = Starts
    BY <1>1 DEF Starts
  <2>. QED BY <1>1, <2>1 DEF Pieces, StartsTo
<1>5. CameraInv'
  BY <1>1, <1>4 DEF Inv, CameraInv
<1>6. CASE h.bodySize > 0
  <2>1. pc' = "body" /\ frames' = frames /\ Taken' = Taken
    BY <1>1, <1>2, <1>3, <1>6 DEF Taken
  <2>2. LinkInv'
    BY <1>1, <1>2, <1>3, <1>6, <2>1 DEF Inv, LinkInv
  <2>3. GopInv'
    BY <1>1, <1>4, <2>1 DEF Inv, GopInv
  <2>4. SavedInv'
    BY <1>1, <1>2, <1>3, <2>1, SavedKept DEF Inv, CameraInv
  <2>5. PICK st, lost :
          /\ Streamed(st) /\ lost \in Stream /\ (peer = "up" => lost = <<>>)
          /\ st[Len(sent)] = st[header.id] \o (<<h>> \o (wire' \o lost))
    BY <1>1, <1>6, NextHeader
  <2>6. Part' = <<h>>
    <3>1. <<h>> \in Seq(Unit) /\ Part' = <<h>> \o <<>>
      BY <1>1, <1>2, <1>3, <2>1 DEF Part
    <3>. QED BY <3>1, ConcatEmptySeq
  <2>7. AllThere(st, lost)'
    BY <1>1, <1>3, <1>4, <2>1, <2>5, <2>6 DEF AllThere, Streamed
  <2>. QED BY <1>5, <2>2, <2>3, <2>4, <2>7 DEF Inv, StreamInv
<1>7. CASE h.bodySize = 0
  <2>1. TakeFrame(h, 0) /\ 0 \in 0 .. h.bodySize /\ ~ (0 < h.bodySize)
    BY <1>1, <1>2, <1>7
  <2>2. GopInv' /\ frames' \in Seq(Frame) /\ pc' \in {"header", "save"}
    <3>1. /\ CameraInv /\ SavedInv /\ GopInv /\ pc \in {"header", "body"}
          /\ h.id = Taken + 1 /\ header' = h /\ UNCHANGED <<sent, saved>>
          /\ mbClosed' \in BOOLEAN
      BY <1>1, <1>2, <1>3 DEF Inv, LinkInv
    <3>. HIDE DEF h
    <3>. QED BY <1>2, <2>1, <3>1, FrameTaken
  <2>3. LinkInv'
    BY <1>1, <1>2, <1>3, <1>7, <2>2 DEF Inv, LinkInv
  <2>4. SavedInv'
    BY <1>1, <1>2, <2>2, SavedKept DEF Inv, CameraInv
  <2>5. PICK st, lost :
          /\ Streamed(st) /\ lost \in Stream /\ (peer = "up" => lost = <<>>)
          /\ st[Len(sent)] = st[header.id + 1] \o (wire' \o lost)
    BY <1>1, <1>7, NextHeader
  <2>6. Part' = <<>> /\ Taken' = header.id + 1
    BY <1>2, <2>2 DEF Part, Taken
  <2>7. <<>> \o (wire' \o lost) = wire' \o lost
    <3>1. wire' \o lost \in Seq(Unit)
      BY <1>2, <2>5, ConcatProperties DEF Stream
    <3>. QED BY <3>1, ConcatEmptySeq
  <2>8. AllThere(st, lost)'
    BY <1>1, <1>4, <2>5, <2>6, <2>7 DEF AllThere, Streamed
  <2>. QED BY <1>5, <2>2, <2>3, <2>4, <2>8 DEF Inv, StreamInv
<1>. QED BY <1>2, <1>6, <1>7

\* One SSL_read moves units from the connection to the buffer.
LEMMA ReadBodyKeeps ==
    ASSUME Inv, ReadBody
    PROVE  Inv'
<1>1. PICK n \in 1 .. Smaller(header.bodySize - Len(buffer), Len(wire)) :
         buffer' = buffer \o SubSeq(wire, 1, n) /\ wire' = SubSeq(wire, n + 1, Len(wire))
  BY DEF ReadBody, SslRead
<1>2. /\ pc = "body" /\ Len(buffer) < header.bodySize
      /\ UNCHANGED <<mbClosed, pc, peer, header, frames, sent, left, saved>>
  BY DEF ReadBody, SslRead, own
<1>3. /\ wire \in Stream /\ buffer \in Stream /\ header \in Unit
      /\ Len(wire) \in Nat /\ Len(buffer) \in Nat /\ header.bodySize \in Nat
  BY LenProperties DEF Inv, LinkInv, Unit, Stream
<1>4. n \in 0 .. Len(wire) /\ n <= header.bodySize - Len(buffer)
  BY <1>3 DEF Smaller
<1>. DEFINE piece == SubSeq(wire, 1, n)
<1>5. /\ piece \in Seq(Unit) /\ Len(piece) = n /\ wire' \in Seq(Unit) /\ wire = piece \o wire'
  BY <1>1, <1>3, <1>4, CutInTwo DEF Stream
<1>. HIDE DEF piece
<1>6. buffer' \in Stream /\ Len(buffer') <= header.bodySize
  <2>1. buffer' = buffer \o piece
    BY <1>1 DEF piece
  <2>2. buffer' \in Stream /\ Len(buffer') = Len(buffer) + n
    BY <1>3, <1>5, <2>1, ConcatProperties DEF Stream
  <2>. QED BY <1>3, <1>4, <2>2
<1>7. /\ Starts' = Starts /\ Pieces' = Pieces /\ Taken' = Taken
      /\ \A k : StartsTo(k)' = StartsTo(k)
  <2>1. Starts' = Starts
    BY <1>2 DEF Starts
  <2>. QED BY <1>2, <2>1 DEF Pieces, Taken, StartsTo
<1>8. CameraInv'
  BY <1>2, <1>7 DEF Inv, CameraInv
<1>9. LinkInv'
  BY <1>2, <1>5, <1>6 DEF Inv, LinkInv, Stream
<1>10. GopInv'
  BY <1>2, <1>7 DEF Inv, GopInv
<1>11. SavedInv'
  BY <1>2, SavedKept DEF Inv, CameraInv, SavedInv
<1>12. PICK st, lost : AllThere(st, lost)
  BY <1>2 DEF Inv, StreamInv, Reading, LinkInv
<1>13. Part \o (wire \o lost) = Part' \o (wire' \o lost)
  <2>. DEFINE w == <<header>>
  <2>1. w \in Seq(Unit) /\ lost \in Seq(Unit) /\ buffer \in Seq(Unit) /\ buffer' = buffer \o piece
    BY <1>1, <1>3, <1>12 DEF AllThere, Stream, piece
  <2>2. Part = w \o buffer /\ Part' = w \o (buffer \o piece)
    BY <1>1, <1>2 DEF Part, piece
  <2>. HIDE DEF w
  <2>. DEFINE z == wire' \o lost
              p == w \o buffer
  <2>3. z \in Seq(Unit) /\ p \in Seq(Unit)
    BY <1>5, <2>1, ConcatProperties
  <2>4. wire \o lost = piece \o z
    <3>1. piece \in Seq(Unit) /\ wire' \in Seq(Unit) /\ lost \in Seq(Unit)
      BY <1>5, <2>1
    <3>2. (piece \o wire') \o lost = piece \o (wire' \o lost)
      BY <3>1, ConcatAssociative
    <3>. QED BY <1>5, <3>2
  <2>5. w \o (buffer \o piece) = p \o piece
    <3>. HIDE DEF z, p
    <3>1. w \in Seq(Unit) /\ buffer \in Seq(Unit) /\ piece \in Seq(Unit)
      BY <1>5, <2>1
    <3>2. (w \o buffer) \o piece = w \o (buffer \o piece)
      BY <3>1, ConcatAssociative
    <3>. QED BY <3>2 DEF p
  <2>. HIDE DEF z, p
  <2>6. (p \o piece) \o z = p \o (piece \o z)
    BY <1>5, <2>3, ConcatAssociative
  <2>. QED BY <2>2, <2>4, <2>5, <2>6 DEF p, z
<1>14. AllThere(st, lost)'
  BY <1>2, <1>7, <1>12, <1>13 DEF AllThere, Streamed
<1>. QED BY <1>8, <1>9, <1>10, <1>11, <1>14 DEF Inv, StreamInv

\* The body is complete, or the camera has closed within it.
LEMMA ReceiveBodyKeeps ==
    ASSUME Inv, ReceiveBody \/ BodyCut
    PROVE  Inv'
<1>1. /\ pc = "body" /\ TakeFrame(header, Len(buffer)) /\ buffer' = <<>>
      /\ \/ Len(buffer) = header.bodySize /\ mbClosed' = mbClosed
         \/ wire = <<>> /\ peer = "closed" /\ mbClosed' = TRUE
      /\ UNCHANGED <<peer, wire, header, sent, left, saved>>
  BY DEF ReceiveBody, BodyCut, ReadsEnd
<1>2. ~ mbClosed /\ IsHeader(header) /\ header \in Unit /\ mbClosed \in BOOLEAN
  BY <1>1, NextBody DEF Inv, LinkInv
<1>3. \/ Len(buffer) = header.bodySize /\ ~ mbClosed'
      \/ wire' = <<>> /\ peer' = "closed" /\ mbClosed'
  <2>1. CASE Len(buffer) = header.bodySize /\ mbClosed' = mbClosed
    BY <1>2, <2>1, Zenon
  <2>2. CASE wire = <<>> /\ peer = "closed" /\ mbClosed' = TRUE
    <3>1. wire' = wire /\ peer' = peer
      BY <1>1
    <3>. QED BY <2>2, <3>1, Zenon
  <2>. QED BY <1>1, <2>1, <2>2, Zenon
<1>4. mbClosed' \in BOOLEAN
  BY <1>1, <1>2, Zenon
<1>5. /\ wire \in Stream /\ buffer \in Stream /\ frames \in Seq(Frame)
      /\ Len(buffer) \in 0 .. header.bodySize /\ header.id = Taken + 1
  BY <1>1, <1>2, LenProperties DEF Inv, LinkInv, SavedInv, Stream, Taken, Unit
<1>6. GopInv' /\ frames' \in Seq(Frame) /\ pc' \in {"header", "save"}
  <2>1. /\ CameraInv /\ SavedInv /\ GopInv /\ pc \in {"header", "body"}
        /\ header' = header /\ UNCHANGED <<sent, saved>> /\ mbClosed' \in BOOLEAN
        /\ Len(buffer) < header.bodySize => mbClosed'
    BY <1>1, <1>5, <1>3, <1>4 DEF Inv
  <2>. QED BY <1>1, <1>2, <1>5, <2>1, FrameTaken
<1>7. Starts' = Starts /\ Pieces' = Pieces
  BY <1>1 DEF Starts, Pieces
<1>8. CameraInv'
  BY <1>1, <1>7 DEF Inv, CameraInv
<1>9. LinkInv'
  <2>1. buffer' = <<>> /\ buffer' \in Stream /\ Len(buffer') = 0 /\ header.bodySize \in Nat
    BY <1>1, <1>2, EmptySeq DEF Stream, Unit
  <2>2. mbClosed' \in BOOLEAN /\ (mbClosed' => wire' = <<>> /\ peer' # "up")
    BY <1>3, <1>4
  <2>3. wire' \in Stream /\ header' \in Unit /\ peer' \in {"up", "closed", "broken"}
    BY <1>1, <1>2, <1>5 DEF Inv, LinkInv
  <2>. QED BY <1>1, <1>6, <2>1, <2>2, <2>3 DEF LinkInv
<1>10. SavedInv'
  BY <1>1, <1>6, SavedKept DEF Inv, CameraInv
<1>11. StreamInv'
  <2>1. SUFFICES ASSUME ~ mbClosed' PROVE \E st, lost : AllThere(st, lost)'
    BY DEF StreamInv, Reading
  <2>2. PICK st, lost :
          /\ Streamed(st) /\ lost \in Stream /\ (peer = "up" => lost = <<>>)
          /\ st[Len(sent)] = st[header.id] \o (wire \o lost)
    BY <1>1, <2>1, NextBody
  <2>3. Part' = <<>> /\ Taken' = header.id
    BY <1>1, <1>6 DEF Part, Taken
  <2>4. <<>> \o (wire \o lost) = wire \o lost
    <3>1. wire \o lost \in Seq(Unit)
      BY <1>5, <2>2, ConcatProperties DEF Stream
    <3>. QED BY <3>1, ConcatEmptySeq
  <2>5. AllThere(st, lost)'
    BY <1>1, <1>7, <2>2, <2>3, <2>4 DEF AllThere, Streamed
  <2>. QED BY <2>5
<1>. QED BY <1>6, <1>8, <1>9, <1>10, <1>11 DEF Inv

\* The client ends on an error.
LEMMA EndKeeps ==
    ASSUME Inv, ReceiveThrows \/ GopRefused \/ SaveThrows
    PROVE  Inv'
<1>1. /\ pc \in {"header", "body", "save"} /\ pc' = "died"
      /\ mbClosed' \in BOOLEAN /\ (mbClosed => mbClosed')
      /\ UNCHANGED <<peer, wire, buffer, header, frames, sent, left, saved>>
  BY DEF ReceiveThrows, GopRefused, SaveThrows, own, Inv, LinkInv
<1>2. Starts' = Starts
  BY <1>1 DEF Starts
<1>3. CameraInv' /\ LinkInv' /\ GopInv'
  BY <1>1, <1>2 DEF Inv, CameraInv, LinkInv, GopInv
<1>4. SavedInv'
  BY <1>1, SavedKept DEF Inv, CameraInv, SavedInv
<1>5. StreamInv'
  BY <1>1 DEF StreamInv, Reading
<1>. QED BY <1>3, <1>4, <1>5 DEF Inv

\* Every step keeps the invariant.
LEMMA StepKeeps == Inv /\ [Next]_vars => Inv'
<1>. SUFFICES ASSUME Inv, [Next]_vars PROVE Inv'
  OBVIOUS
<1>1. CASE SaveGop
  <2>1. /\ pc = "save" /\ pc' = "header"
        /\ UNCHANGED <<mbClosed, peer, wire, buffer, header, sent, left>>
    BY <1>1 DEF SaveGop
  <2>2. Starts' = Starts /\ Pieces' = Pieces /\ Taken' = Taken /\ Part' = Part
    BY <2>1 DEF Starts, Pieces, Taken, Part
  <2>3. CameraInv' /\ LinkInv'
    BY <2>1, <2>2 DEF Inv, CameraInv, LinkInv
  <2>4. StreamInv'
    BY <2>1, <2>2 DEF Inv, StreamInv, Reading, AllThere, Streamed
  <2>. QED BY <1>1, <2>3, <2>4, SaveGopKeeps DEF Inv
<1>2. CASE UNCHANGED vars
  <2>1. UNCHANGED <<mbClosed, pc, peer, wire, buffer, header, frames, sent, left, saved>>
    BY <1>2 DEF vars, connection, own
  <2>2. /\ Starts' = Starts /\ Pieces' = Pieces /\ Taken' = Taken /\ Part' = Part
        /\ \A k : StartsTo(k)' = StartsTo(k)
    <3>1. Starts' = Starts
      BY <2>1 DEF Starts
    <3>. QED BY <2>1, <3>1 DEF Pieces, Taken, Part, StartsTo
  <2>3. CameraInv' /\ LinkInv' /\ GopInv'
    BY <2>1, <2>2 DEF Inv, CameraInv, LinkInv, GopInv
  <2>4. SavedInv'
    BY <2>1, SavedKept DEF Inv, CameraInv, SavedInv
  <2>5. StreamInv'
    BY <2>1, <2>2 DEF Inv, StreamInv, Reading, AllThere, Streamed
  <2>. QED BY <2>3, <2>4, <2>5 DEF Inv
<1>. QED BY <1>1, <1>2, CameraSendsKeeps, LoseConnectionKeeps, ConnectionKeeps, ReceiveHeaderKeeps,
            ReadBodyKeeps, ReceiveBodyKeeps, EndKeeps DEF Next, Client

-----------------------------------------------------------------------------
(* The theorems. *)

\* The invariant holds in every state.
THEOREM Invariant == Spec => []Inv
<1>. QED BY InitHolds, StepKeeps, PTL DEF Spec

\* The client's variables have their types, and no body is ever received past
\* the size its header announces.
THEOREM TypeCorrect == Spec => []TypeOK
<1>1. Inv => TypeOK
  BY DEF Inv, LinkInv, SavedInv, TypeOK
<1>. QED BY <1>1, Invariant, PTL

\* The GOPs saved are the GOPs sent, whatever their sizes, however the stream is
\* cut into pieces and wherever in a GOP the client connects.
THEOREM SavesWhatIsSent == Spec => []SavedAsSent
<1>1. ASSUME Inv PROVE SavedAsSent
  <2>1. /\ sent \in Seq(Headers) /\ Len(sent) \in Nat /\ \A n \in Starts : n \in 1 .. Len(sent)
        /\ saved \in Seq(Seq(Frame)) /\ Len(saved) \in Nat /\ DOMAIN saved = 1 .. Len(saved)
    BY <1>1, LenProperties DEF Inv, CameraInv, SavedInv, Starts
  <2>2. StartsTo(Len(sent)) = Starts
    BY <2>1 DEF StartsTo
  <2>3. IsFiniteSet(Starts) /\ Cardinality(Starts) \in Nat
    BY <2>1, <2>2, OneMoreStart
  <2>4. ASSUME NEW k \in DOMAIN saved
        PROVE  FirstOf(k) \in Starts /\ SavedOf(saved[k], FirstOf(k), k)
    <3>1. PICK first \in Starts : SavedOf(saved[k], first, k)
      BY <1>1 DEF Inv, SavedInv
    <3>2. first \in Starts /\ Cardinality({s \in Starts : s <= first}) = k
      BY <3>1 DEF SavedOf, StartsTo
    <3>3. FirstOf(k) \in Starts /\ Cardinality({s \in Starts : s <= FirstOf(k)}) = k
      BY <3>2 DEF FirstOf
    <3>4. FirstOf(k) = first
      BY <2>1, <3>2, <3>3, StartsDiffer DEF StartsTo
    <3>. QED BY <3>1, <3>4
  <2>5. Len(saved) <= Cardinality(Starts)
    <3>1. CASE Len(saved) = 0
      BY <2>3, <3>1
    <3>2. CASE Len(saved) # 0
      <4>. DEFINE first == FirstOf(Len(saved))
      <4>1. Cardinality(StartsTo(first)) = Len(saved)
        <5>1. Len(saved) \in DOMAIN saved
          BY <2>1, <3>2
        <5>. QED BY <2>4, <5>1 DEF SavedOf
      <4>2. StartsTo(first) \in SUBSET Starts
        BY DEF StartsTo
      <4>. QED BY <2>3, <4>1, <4>2, FS_Subset
    <3>. QED BY <3>1, <3>2
  <2>6. ASSUME NEW k \in DOMAIN saved
        PROVE  /\ Len(saved[k]) = sent[FirstOf(k)].count % BYTE
               /\ \A i \in DOMAIN saved[k] :
                     /\ saved[k][i].id = FirstOf(k) + i - 1
                     /\ saved[k][i].missing > 0 => mbClosed /\ k = Len(saved) /\ i = Len(saved[k])
    BY <2>4 DEF SavedOf
  <2>. QED BY <2>5, <2>6 DEF SavedAsSent
<1>. QED BY <1>1, Invariant, PTL

\* Of all the GOPs the camera can send, the constructor refuses only one too
\* long for its size to fit in a byte.
THEOREM RefusesNoOther == Spec => []RefusesOnlyLongGops
<1>1. ASSUME Inv, pc = "save", ~ WholeGop(frames)
      PROVE  sent[frames[1].id].count >= BYTE
  <2>. DEFINE s == frames[1].id
  <2>1. /\ s \in Starts /\ frames[1].gopSize = sent[s].count % BYTE
        /\ frames[1].gopSize \in {0, Len(frames)}
    BY <1>1 DEF Inv, GopInv
  <2>2. sent[s].count % BYTE = 0
    BY <1>1, <2>1 DEF WholeGop
  <2>3. sent[s].count \in Nat \ {0}
    <3>1. sent[s] \in Headers
      BY <1>1, <2>1, ElementOfSeq, LenProperties DEF Inv, CameraInv, Starts
    <3>. QED BY <3>1, VideoAssumption DEF Headers
  <2>. QED BY <2>2, <2>3, SizeInByte
<1>2. Inv => RefusesOnlyLongGops
  BY <1>1 DEF RefusesOnlyLongGops
<1>. QED BY <1>2, Invariant, PTL

=============================================================================
