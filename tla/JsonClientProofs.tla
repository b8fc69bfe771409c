-------------------------- MODULE JsonClientProofs --------------------------
(***************************************************************************)
(* Theorems about JsonClient, for every size of block and messages: its     *)
(* types, that messages no shorter than a block do not pile up in it, and   *)
(* that each message is saved in its turn.                                 *)
(*                                                                         *)
(* A call takes one message out of the buffer, so what keeps a second one   *)
(* from staying behind is the distance between two delimiters, in all that  *)
(* has not left the client yet: in mDataBuffer, in the block that is being  *)
(* received and on the wire.  For the turns, the same bytes are laid out as *)
(* messages one behind the other.                                          *)
(***************************************************************************)
EXTENDS JsonClient, SequenceTheorems, Recursion

\* A byte of a message that was sent.
Sent == [id : DOMAIN sent, delimiter : BOOLEAN]

ClientTypes ==
    /\ sent \in Seq([length : Lengths, bar : Nat])
    /\ mDataBuffer \in Seq(Sent)
    /\ buffer \in Seq(Sent) /\ Len(buffer) <= BLOCK
    /\ wire \in Seq(Sent)
    /\ saved \in Seq(DOMAIN sent) /\ unsaved \subseteq DOMAIN sent
    /\ mbClosed \in BOOLEAN
    /\ pc \in {"start", "receive", "ended", "died"}
    /\ peer \in {"up", "closed", "broken"}

\* No delimiter; and delimiters that are at least a block apart.
Free(s) == \A i \in 1 .. Len(s) : ~ s[i].delimiter
Spaced(s) == \A i, j \in 1 .. Len(s) :
    i < j /\ s[i].delimiter /\ s[j].delimiter => i + BLOCK <= j

Apart == LongMessages => Spaced(Remaining) /\ Free(mDataBuffer)

-----------------------------------------------------------------------------
(* Sequences. *)

\* A part of a sequence is as far apart as the sequence.
LEMMA PartSpaced ==
    ASSUME NEW S, NEW s \in Seq(S), NEW t \in Seq(S), NEW p \in Nat, Spaced(s),
           Len(t) + p <= Len(s), \A k \in 1 .. Len(t) : t[k] = s[p + k]
    PROVE  Spaced(t)
<1> SUFFICES ASSUME NEW i \in 1 .. Len(t), NEW j \in 1 .. Len(t),
                    i < j, t[i].delimiter, t[j].delimiter
             PROVE  i + BLOCK <= j
  BY DEF Spaced
<1>1. Len(t) \in Nat /\ Len(s) \in Nat
  BY LenProperties
<1>2. p + i \in 1 .. Len(s) /\ p + j \in 1 .. Len(s) /\ p + i < p + j
  BY <1>1
<1>3. s[p + i].delimiter /\ s[p + j].delimiter
  OBVIOUS
<1>4. (p + i) + BLOCK <= p + j
  BY <1>2, <1>3 DEF Spaced
<1> QED BY <1>1, <1>4, JsonAssumption

\* What is read off the wire, and what is left there.
LEMMA Taken ==
    ASSUME NEW S, NEW w \in Seq(S), NEW n \in 1 .. Len(w)
    PROVE  LET u == SubSeq(w, 1, n)
               v == SubSeq(w, n + 1, Len(w))
           IN  u \in Seq(S) /\ Len(u) = n /\ v \in Seq(S)
<1>1. Len(w) \in Nat /\ \A i \in 1 .. Len(w) : w[i] \in S
  BY LenProperties, ElementOfSeq
<1>2. SubSeq(w, 1, n) \in Seq(S) /\ Len(SubSeq(w, 1, n)) = n
  BY <1>1, SubSeqProperties
<1>3. SubSeq(w, n + 1, Len(w)) \in Seq(S)
  BY <1>1, SubSeqProperties
<1> QED BY <1>2, <1>3

\* r is a, b and w, one after the other.
Joined(r, a, b, w) ==
    /\ Len(r) = Len(a) + Len(b) + Len(w)
    /\ \A i \in 1 .. Len(a) : r[i] = a[i]
    /\ \A i \in 1 .. Len(b) : r[Len(a) + i] = b[i]
    /\ \A i \in 1 .. Len(w) : r[(Len(a) + Len(b)) + i] = w[i]

\* The first part of w has been put behind b: b and w have become c and v.
Moved(b, w, c, v) ==
    /\ Len(c) >= Len(b) /\ Len(c) + Len(v) = Len(b) + Len(w)
    /\ \A i \in 1 .. Len(b) : c[i] = b[i]
    /\ \A i \in 1 .. Len(c) - Len(b) : c[Len(b) + i] = w[i]
    /\ \A i \in 1 .. Len(v) : v[i] = w[(Len(c) - Len(b)) + i]

\* Putting what is read off the wire behind what was read before moves nothing.
LEMMA Regroup ==
    ASSUME NEW a, NEW b, NEW w, NEW c, NEW v, NEW r, NEW t,
           Len(a) \in Nat, Len(b) \in Nat, Len(w) \in Nat, Len(c) \in Nat, Len(v) \in Nat,
           Joined(r, a, b, w), Joined(t, a, c, v), Moved(b, w, c, v)
    PROVE  Len(t) = Len(r) /\ \A k \in 1 .. Len(t) : t[k] = r[k]
<1> DEFINE la == Len(a)
           lb == Len(b)
           lw == Len(w)
           n == Len(c) - lb
<1>1. la \in Nat /\ lb \in Nat /\ lw \in Nat /\ n \in Nat /\ n <= lw
      /\ Len(c) = lb + n /\ Len(v) = lw - n
  BY DEF Moved
<1>5. /\ \A i \in 1 .. lb : c[i] = b[i]
      /\ \A i \in 1 .. n : c[lb + i] = w[i]
      /\ \A i \in 1 .. Len(v) : v[i] = w[n + i]
  BY DEF Moved
<1>2. Len(r) = la + lb + lw /\ Len(t) = la + (lb + n) + (lw - n)
  BY <1>1 DEF Joined
<1>6. /\ \A i \in 1 .. la : r[i] = a[i] /\ t[i] = a[i]
      /\ \A i \in 1 .. lb : r[la + i] = b[i]
      /\ \A i \in 1 .. lw : r[(la + lb) + i] = w[i]
      /\ \A i \in 1 .. lb + n : t[la + i] = c[i]
      /\ \A i \in 1 .. Len(v) : t[(la + (lb + n)) + i] = v[i]
  BY <1>1 DEF Joined
<1> HIDE DEF la, lb, lw, n
<1>3. Len(t) = Len(r)
  BY <1>1, <1>2
<1>4. ASSUME NEW k \in 1 .. Len(t) PROVE t[k] = r[k]
  <2>1. k \in 1 .. la + lb + lw
    BY <1>2, <1>3
  <2>2. CASE k <= la
    <3>1. k \in 1 .. la
      BY <1>1, <2>1, <2>2
    <3> QED BY <1>5, <1>6, <3>1
  <2>3. CASE ~ (k <= la) /\ k <= la + lb
    <3> DEFINE i == k - la
    <3>1. i \in 1 .. lb /\ i \in 1 .. lb + n /\ la + i = k
      BY <1>1, <2>1, <2>3
    <3> HIDE DEF i
    <3>2. r[la + i] = b[i] /\ t[la + i] = c[i] /\ c[i] = b[i]
      BY <1>5, <1>6, <3>1
    <3> QED BY <3>1, <3>2
  <2>4. CASE ~ (k <= la + lb) /\ k <= la + lb + n
    <3> DEFINE i == k - (la + lb)
    <3>1. i \in 1 .. n /\ i \in 1 .. lw /\ lb + i \in 1 .. lb + n /\ la + (lb + i) = k
          /\ (la + lb) + i = k
      BY <1>1, <2>1, <2>4
    <3> HIDE DEF i
    <3>2. r[(la + lb) + i] = w[i] /\ t[la + (lb + i)] = c[lb + i] /\ c[lb + i] = w[i]
      BY <1>5, <1>6, <3>1
    <3> QED BY <3>1, <3>2
  <2>5. CASE ~ (k <= la + lb + n)
    <3> DEFINE i == k - (la + lb + n)
    <3>1. i \in 1 .. Len(v) /\ n + i \in 1 .. lw /\ (la + (lb + n)) + i = k
          /\ (la + lb) + (n + i) = k
      BY <1>1, <2>1, <2>5
    <3> HIDE DEF i
    <3>2. r[(la + lb) + (n + i)] = w[n + i] /\ t[(la + (lb + n)) + i] = v[i] /\ v[i] = w[n + i]
      BY <1>5, <1>6, <3>1
    <3> QED BY <3>1, <3>2
  <2> QED BY <2>2, <2>3, <2>4, <2>5
<1> QED BY <1>3, <1>4

\* A function on 1 .. n is a sequence.
LEMMA FunctionIsSeq ==
    ASSUME NEW S, NEW n \in Nat, NEW f \in [1 .. n -> S]
    PROVE  f \in Seq(S) /\ Len(f) = n
OBVIOUS

\* The end of s that begins behind p.
LEMMA EndOfSeq ==
    ASSUME NEW S, NEW s \in Seq(S), NEW p \in 0 .. Len(s)
    PROVE  LET t == SubSeq(s, p + 1, Len(s))
           IN  /\ t \in Seq(S) /\ Len(t) = Len(s) - p
               /\ \A k \in 1 .. Len(t) : t[k] = s[p + k]
<1> DEFINE t == SubSeq(s, p + 1, Len(s))
<1>1. Len(s) \in Nat /\ \A i \in 1 .. Len(s) : s[i] \in S
  BY LenProperties, ElementOfSeq
<1>2. \A i \in p + 1 .. Len(s) : s[i] \in S
  BY <1>1
<1>3. /\ t \in Seq(S)
      /\ Len(t) = IF p + 1 <= Len(s) THEN Len(s) - (p + 1) + 1 ELSE 0
      /\ \A i \in 1 .. Len(s) - (p + 1) + 1 : t[i] = s[(p + 1) + i - 1]
  BY <1>1, <1>2, SubSeqProperties
<1> HIDE DEF t
<1>4. Len(t) = Len(s) - p
  BY <1>1, <1>3
<1>5. ASSUME NEW k \in 1 .. Len(t) PROVE t[k] = s[p + k]
  <2>1. k \in 1 .. Len(s) - (p + 1) + 1 /\ (p + 1) + k - 1 = p + k
    BY <1>1, <1>4
  <2> QED BY <1>3, <2>1
<1> QED BY <1>3, <1>4, <1>5 DEF t

\* The CHOOSE of Position has a witness: there is a first delimiter.
LEMMA FirstDelimiter ==
    ASSUME NEW S, NEW s \in Seq(S), HasDelimiter(s)
    PROVE  /\ Position(s) \in 1 .. Len(s) /\ s[Position(s)].delimiter
           /\ \A i \in Delimiters(s) : Position(s) <= i
<1> DEFINE D == Delimiters(s)
<1>1. Len(s) \in Nat /\ DOMAIN s = 1 .. Len(s)
  BY LenProperties
<1>2. D \subseteq Nat /\ D # {} /\ \A i \in D : i \in 1 .. Len(s) /\ s[i].delimiter
  BY <1>1 DEF Delimiters, HasDelimiter
<1> HIDE DEF D
<1>3. PICK n \in D : \A m \in D : n <= m
  BY <1>2, LeastOf
<1>4. Position(s) \in D /\ \A m \in D : Position(s) <= m
  BY <1>3 DEF Position, D
<1> QED BY <1>2, <1>4 DEF D

-----------------------------------------------------------------------------
(* The types. *)

\* A block behind what was received before, and the first delimiter in it.
LEMMA ReceivedTypes ==
    ASSUME ClientTypes
    PROVE  /\ Received \in Seq(Sent) /\ Len(Received) = Len(mDataBuffer) + Len(buffer)
           /\ HasDelimiter(Received) =>
                 /\ Rest(Received) \in Seq(Sent)
                 /\ Parses(Text(Received)) => Text(Received)[1].id \in DOMAIN sent
<1> USE DEF ClientTypes
<1>1. Received \in Seq(Sent) /\ Len(Received) = Len(mDataBuffer) + Len(buffer)
  BY ConcatProperties DEF Received
<1> SUFFICES ASSUME HasDelimiter(Received)
             PROVE  /\ Rest(Received) \in Seq(Sent)
                    /\ Parses(Text(Received)) => Text(Received)[1].id \in DOMAIN sent
  BY <1>1
<1> DEFINE R == Received
           p == Position(R)
<1>2. p \in 1 .. Len(R)
  BY <1>1, FirstDelimiter
<1>3. Len(R) \in Nat /\ \A i \in 1 .. Len(R) : R[i] \in Sent
  BY <1>1, LenProperties, ElementOfSeq
<1>4. Rest(R) \in Seq(Sent)
  <2>1. p \in 0 .. Len(R)
    BY <1>2, <1>3
  <2> HIDE DEF p
  <2>2. SubSeq(R, p + 1, Len(R)) \in Seq(Sent)
    BY <1>1, <2>1, EndOfSeq
  <2> QED BY <2>2 DEF Rest, p
<1>5. Text(R) \in Seq(Sent)
  <2>1. p - 1 \in Int /\ \A i \in 1 .. p - 1 : R[i] \in Sent
    BY <1>2, <1>3
  <2> QED BY <2>1, SubSeqProperties DEF Text
<1>6. ASSUME Parses(Text(R)) PROVE Text(R)[1].id \in DOMAIN sent
  <2>1. Text(R) # <<>>
    BY <1>6 DEF Parses
  <2>2. 1 \in 1 .. Len(Text(R))
    BY <1>5, <2>1, EmptySeq
  <2>3. Text(R)[1] \in Sent
    BY <1>5, <2>2, ElementOfSeq
  <2> QED BY <2>3 DEF Sent
<1> QED BY <1>4, <1>6

\* The bytes of a new message are bytes of a message that was sent.
LEMMA NewMessage ==
    ASSUME ClientTypes, NEW m \in [length : Lengths, bar : Nat], sent' = Append(sent, m)
    PROVE  /\ sent' \in Seq([length : Lengths, bar : Nat])
           /\ DOMAIN sent \subseteq DOMAIN sent' /\ Sent \subseteq Sent'
           /\ Len(sent) + 1 \in DOMAIN sent' /\ sent'[Len(sent) + 1] = m
           /\ Bytes(Len(sent) + 1, m) \in Seq(Sent') /\ Len(Bytes(Len(sent) + 1, m)) = m.length
<1> DEFINE M == [length : Lengths, bar : Nat]
<1>1. sent \in Seq(M) /\ Len(sent) \in Nat /\ DOMAIN sent = 1 .. Len(sent)
  BY LenProperties DEF ClientTypes
<1>2. sent' \in Seq(M) /\ Len(sent') = Len(sent) + 1 /\ sent'[Len(sent) + 1] = m
  BY <1>1, AppendProperties
<1>3. DOMAIN sent' = 1 .. Len(sent) + 1
  BY <1>2, LenProperties
<1>4. DOMAIN sent \subseteq DOMAIN sent' /\ Len(sent) + 1 \in DOMAIN sent'
  BY <1>1, <1>3
<1>5. Sent \subseteq Sent'
  BY <1>4 DEF Sent
<1>6. /\ Bytes(Len(sent) + 1, m) \in Seq(Sent')
      /\ Len(Bytes(Len(sent) + 1, m)) = m.length
  <2> DEFINE id == Len(sent) + 1
             D == DOMAIN sent'
             T == [id : D, delimiter : BOOLEAN]
             b == [k \in 1 .. m.length |-> [id |-> id, delimiter |-> k \in {m.bar, m.length}]]
  <2>1. id \in D /\ m.length \in Nat
    BY <1>4, JsonAssumption
  <2> HIDE DEF id, D
  <2>2. \A k \in 1 .. m.length : [id |-> id, delimiter |-> k \in {m.bar, m.length}] \in T
    BY <2>1
  <2>3. b \in [1 .. m.length -> T]
    BY <2>2
  <2> HIDE DEF T
  <2> HIDE DEF b
  <2>4. b \in Seq(T) /\ Len(b) = m.length
    BY <2>1, <2>3, FunctionIsSeq
  <2>5. Sent' = T
    BY DEF Sent, T, D
  <2> QED BY <2>4, <2>5 DEF Bytes, id, b
<1> QED BY <1>2, <1>4, <1>5, <1>6

\* What a call does with a block leaves bytes of messages that were sent.
LEMMA HandleTypes ==
    ASSUME ClientTypes, Incomplete \/ ParseFails \/ SaveMessage \/ SaveFails
    PROVE  ClientTypes'
<1> USE JsonAssumption DEF ClientTypes, HandleBlock
<1>1. Sent' = Sent
  BY DEF Incomplete, ParseFails, SaveMessage, SaveFails, Sent
<1>2. buffer' \in Seq(Sent) /\ Len(buffer') <= BLOCK
  <2>1. <<>> \in Seq(Sent) /\ Len(<<>>) <= BLOCK
    BY EmptySeq
  <2>2. buffer' = <<>>
    BY DEF Incomplete, ParseFails, SaveMessage, SaveFails
  <2> QED BY <2>1, <2>2
<1>3. mDataBuffer' \in Seq(Sent)
  BY ReceivedTypes DEF Incomplete, ParseFails, SaveMessage, SaveFails
<1>4. saved' \in Seq(DOMAIN sent)
  <2>1. CASE SaveMessage
    <3>1. Text(Received)[1].id \in DOMAIN sent
      BY <2>1, ReceivedTypes DEF SaveMessage
    <3> QED BY <2>1, <3>1, AppendProperties DEF SaveMessage
  <2>2. CASE ~ SaveMessage
    BY <2>2 DEF Incomplete, ParseFails, SaveFails
  <2> QED BY <2>1, <2>2
<1>5. unsaved' \subseteq DOMAIN sent
  <2>1. CASE SaveFails
    <3>1. Text(Received)[1].id \in DOMAIN sent
      BY <2>1, ReceivedTypes DEF SaveFails
    <3> QED BY <2>1, <3>1 DEF SaveFails
  <2>2. CASE ~ SaveFails
    BY <2>2 DEF Incomplete, ParseFails, SaveMessage
  <2> QED BY <2>1, <2>2
<1> QED BY <1>1, <1>2, <1>3, <1>4, <1>5 DEF Incomplete, ParseFails, SaveMessage, SaveFails

\* The types hold at the start, and every step keeps them.
LEMMA InitTypes == Init => ClientTypes
BY EmptySeq, JsonAssumption DEF Init, ConnectionInit, ClientTypes

\* Every step of the client and of the world keeps the types.
LEMMA StepTypes == ClientTypes /\ [Next]_vars => ClientTypes'
<1> SUFFICES ASSUME ClientTypes, [Next]_vars PROVE ClientTypes'
  OBVIOUS
<1> USE JsonAssumption
<1>1. CASE CameraSends
  <2>1. PICK m \in [length : Lengths, bar : Nat] :
            sent' = Append(sent, m) /\ Send(Bytes(Len(sent) + 1, m))
    BY <1>1 DEF CameraSends
  <2>2. /\ sent' \in Seq([length : Lengths, bar : Nat])
        /\ DOMAIN sent \subseteq DOMAIN sent' /\ Sent \subseteq Sent'
        /\ Bytes(Len(sent) + 1, m) \in Seq(Sent')
    BY <2>1, NewMessage
  <2>3. mDataBuffer \in Seq(Sent') /\ buffer \in Seq(Sent') /\ wire \in Seq(Sent')
    BY <2>2, SeqMonotonic DEF ClientTypes
  <2>4. wire' \in Seq(Sent')
    BY <2>1, <2>2, <2>3, ConcatProperties DEF Send
  <2>5. saved \in Seq(DOMAIN sent') /\ unsaved \subseteq DOMAIN sent'
    BY <2>2, SeqMonotonic DEF ClientTypes
  <2> QED BY <1>1, <2>1, <2>2, <2>3, <2>4, <2>5 DEF CameraSends, Send, ClientTypes
<1>2. CASE LoseConnection /\ UNCHANGED own
  <2>1. PICK n \in 0 .. Len(wire) : wire' = SubSeq(wire, 1, n)
    BY <1>2 DEF LoseConnection
  <2>2. \A i \in 1 .. n : wire[i] \in Sent
    BY LenProperties, ElementOfSeq DEF ClientTypes
  <2>3. wire' \in Seq(Sent)
    BY <2>1, <2>2, SubSeqProperties
  <2> QED BY <1>2, <2>3 DEF LoseConnection, own, ClientTypes, Sent
<1>3. CASE ReadBlock
  <2>1. PICK n \in 1 .. Smaller(BLOCK - Len(buffer), Len(wire)) :
            buffer' = buffer \o SubSeq(wire, 1, n) /\ wire' = SubSeq(wire, n + 1, Len(wire))
    BY <1>3 DEF ReadBlock, SslRead
  <2>2. Len(wire) \in Nat /\ Len(buffer) \in Nat
    BY LenProperties DEF ClientTypes
  <2>3. n \in 1 .. Len(wire) /\ n <= BLOCK - Len(buffer)
    BY <2>2 DEF Smaller
  <2>7. /\ SubSeq(wire, 1, n) \in Seq(Sent) /\ Len(SubSeq(wire, 1, n)) = n
        /\ wire' \in Seq(Sent)
    BY <2>1, <2>3, Taken DEF ClientTypes
  <2>4. buffer' \in Seq(Sent)
    BY <2>1, <2>7, ConcatProperties DEF ClientTypes
  <2>5. Len(buffer') = Len(buffer) + n
    BY <2>1, <2>7, ConcatProperties DEF ClientTypes
  <2>6. Len(buffer') <= BLOCK
    BY <2>2, <2>3, <2>5
  <2> QED BY <1>3, <2>4, <2>6, <2>7 DEF ReadBlock, SslRead, own, ClientTypes, Sent
<1>4. CASE Incomplete \/ ParseFails \/ SaveMessage \/ SaveFails
  BY <1>4, HandleTypes
<1>5. CASE ReceiveEnds \/ ReceiveFails
  <2>1. <<>> \in Seq(Sent) /\ Len(<<>>) <= BLOCK
    BY EmptySeq
  <2>2. Sent' = Sent /\ UNCHANGED <<own, wire, peer>> /\ buffer' = <<>>
    BY <1>5 DEF ReceiveEnds, ReceiveFails, own, Sent
  <2>3. mbClosed' \in BOOLEAN /\ pc' \in {"start", "receive", "ended", "died"}
    BY <1>5 DEF ReceiveEnds, ReceiveFails, ClientTypes
  <2>4. buffer' \in Seq(Sent) /\ Len(buffer') <= BLOCK
    BY <2>1, <2>2
  <2> QED BY <2>2, <2>3, <2>4 DEF own, ClientTypes
<1>6. CASE (Connect("receive") \/ ConnectFails) /\ UNCHANGED own
  BY <1>6 DEF Connect, ConnectFails, own, ClientTypes, Sent
<1>7. CASE UNCHANGED vars
  BY <1>7 DEF vars, connection, own, ClientTypes, Sent
<1> QED BY <1>1, <1>2, <1>3, <1>4, <1>5, <1>6, <1>7 DEF Next, Client

\* All bytes in the client and on the wire are bytes of messages that were
\* sent, and a block never overflows the array it is read into.
THEOREM ClientTypeCorrect == Spec => []TypeOK
<1>1. ClientTypes => TypeOK
  <2> SUFFICES ASSUME ClientTypes PROVE TypeOK
    OBVIOUS
  <2>1. DOMAIN sent \subseteq Nat \ {0}
    BY LenProperties DEF ClientTypes
  <2>2. Sent \subseteq Byte
    BY <2>1 DEF Sent, Byte
  <2>3. buffer \in Seq(Byte) /\ mDataBuffer \in Seq(Byte)
    BY <2>2, SeqMonotonic DEF ClientTypes
  <2> QED BY <2>3 DEF ClientTypes, TypeOK
<1> QED BY <1>1, InitTypes, StepTypes, PTL DEF Spec

-----------------------------------------------------------------------------
(* The distance between delimiters. *)

\* The lengths of what has not left the client, and where its bytes are.
LEMMA RemainingParts ==
    ASSUME ClientTypes
    PROVE  /\ Remaining \in Seq(Sent) /\ Remaining = Received \o wire
           /\ Len(Remaining) = Len(mDataBuffer) + Len(buffer) + Len(wire)
           /\ Len(mDataBuffer) \in Nat /\ Len(buffer) \in Nat /\ Len(wire) \in Nat
           /\ \A i \in 1 .. Len(mDataBuffer) : Remaining[i] = mDataBuffer[i]
           /\ \A i \in 1 .. Len(Received) : Remaining[i] = Received[i]
           /\ \A i \in 1 .. Len(wire) : Remaining[Len(Received) + i] = wire[i]
<1> USE DEF ClientTypes
<1>1. Len(mDataBuffer) \in Nat /\ Len(buffer) \in Nat /\ Len(wire) \in Nat
  BY LenProperties
<1>2. /\ Received \in Seq(Sent) /\ Len(Received) = Len(mDataBuffer) + Len(buffer)
      /\ \A i \in 1 .. Len(mDataBuffer) : Received[i] = mDataBuffer[i]
  BY <1>1, ConcatProperties DEF Received
<1>3. Remaining = Received \o wire
  BY DEF Remaining, Received
<1> DEFINE R == Received
<1>4. R \in Seq(Sent) /\ Len(R) \in Nat
  BY <1>1, <1>2
<1> HIDE DEF R
<1>5. /\ R \o wire \in Seq(Sent) /\ Len(R \o wire) = Len(R) + Len(wire)
      /\ \A i \in 1 .. Len(R) + Len(wire) :
            (R \o wire)[i] = IF i <= Len(R) THEN R[i] ELSE wire[i - Len(R)]
  BY <1>4, ConcatProperties
<1>6. \A i \in 1 .. Len(R) : (R \o wire)[i] = R[i]
  BY <1>1, <1>4, <1>5
<1>7. ASSUME NEW i \in 1 .. Len(wire) PROVE (R \o wire)[Len(R) + i] = wire[i]
  <2>1. Len(R) + i \in 1 .. Len(R) + Len(wire) /\ ~ (Len(R) + i <= Len(R))
        /\ (Len(R) + i) - Len(R) = i
    BY <1>1, <1>4
  <2> QED BY <1>5, <2>1
<1> QED BY <1>1, <1>2, <1>3, <1>4, <1>5, <1>6, <1>7 DEF R

\* What has not left the client, in its three parts.
LEMMA RemainingJoined ==
    ClientTypes => /\ mDataBuffer \in Seq(Sent) /\ buffer \in Seq(Sent) /\ wire \in Seq(Sent)
                   /\ Remaining \in Seq(Sent) /\ Joined(Remaining, mDataBuffer, buffer, wire)
<1> SUFFICES ASSUME ClientTypes
             PROVE  Remaining \in Seq(Sent) /\ Joined(Remaining, mDataBuffer, buffer, wire)
  BY DEF ClientTypes
<1>1. \A i \in 1 .. Len(buffer) : Remaining[Len(mDataBuffer) + i] = buffer[i]
  <2> TAKE i \in 1 .. Len(buffer)
  <2>1. /\ Received = mDataBuffer \o buffer /\ Len(Received) = Len(mDataBuffer) + Len(buffer)
        /\ \A k \in 1 .. Len(mDataBuffer) + Len(buffer) : Received[k] =
              IF k <= Len(mDataBuffer) THEN mDataBuffer[k] ELSE buffer[k - Len(mDataBuffer)]
    BY ConcatProperties DEF ClientTypes, Received
  <2> DEFINE k == Len(mDataBuffer) + i
  <2>2. /\ k \in 1 .. Len(Received) /\ ~ (k <= Len(mDataBuffer)) /\ k - Len(mDataBuffer) = i
        /\ k \in 1 .. Len(mDataBuffer) + Len(buffer)
    BY <2>1, RemainingParts
  <2> HIDE DEF k
  <2>3. Received[k] = buffer[i] /\ Remaining[k] = Received[k]
    BY <2>1, <2>2, RemainingParts
  <2> QED BY <2>3 DEF k
<1>2. Len(Received) = Len(mDataBuffer) + Len(buffer)
  BY ReceivedTypes
<1> QED BY <1>1, <1>2, RemainingParts DEF Joined

\* SSL_read moves bytes from the wire to the buffer; the stream stays as it is.
LEMMA ReadKeepsStream ==
    ASSUME ClientTypes, ReadBlock
    PROVE  Remaining' = Remaining /\ mDataBuffer' = mDataBuffer
<1>1. PICK n \in 1 .. Smaller(BLOCK - Len(buffer), Len(wire)) :
          buffer' = buffer \o SubSeq(wire, 1, n) /\ wire' = SubSeq(wire, n + 1, Len(wire))
  BY DEF ReadBlock, SslRead
<1>2. n \in 1 .. Len(wire)
  BY RemainingParts, JsonAssumption DEF Smaller
<1>3. mDataBuffer' = mDataBuffer
  BY DEF ReadBlock, own
<1> DEFINE u == SubSeq(wire, 1, n)
<1>4. u \in Seq(Sent) /\ Len(u) = n /\ \A i \in 1 .. n : u[i] = wire[i]
  <2>1. \A i \in 1 .. n : wire[i] \in Sent
    BY <1>2, LenProperties, ElementOfSeq DEF ClientTypes
  <2> QED BY <2>1, SubSeqProperties
<1>6. /\ Sent' = Sent /\ ClientTypes'
  BY StepTypes, Zenon DEF Sent, ReadBlock, own, Next, Client
<1>7. /\ Remaining' \in Seq(Sent) /\ Joined(Remaining', mDataBuffer, buffer', wire')
      /\ buffer' \in Seq(Sent) /\ wire' \in Seq(Sent)
  <2>1. (ClientTypes => /\ mDataBuffer \in Seq(Sent) /\ buffer \in Seq(Sent) /\ wire \in Seq(Sent)
                        /\ Remaining \in Seq(Sent)
                        /\ Joined(Remaining, mDataBuffer, buffer, wire))'
    BY RemainingJoined, PTL
  <2> QED BY <1>3, <1>6, <2>1
<1>8. Len(wire') = Len(wire) - n /\ \A i \in 1 .. Len(wire') : wire'[i] = wire[n + i]
  <2>1. wire \in Seq(Sent) /\ n \in 0 .. Len(wire)
    BY <1>2 DEF ClientTypes
  <2>2. LET t == SubSeq(wire, n + 1, Len(wire))
        IN  /\ t \in Seq(Sent) /\ Len(t) = Len(wire) - n
            /\ \A k \in 1 .. Len(t) : t[k] = wire[n + k]
    BY <2>1, EndOfSeq
  <2> QED BY <1>1, <2>2
<1>9. /\ Len(buffer') = Len(buffer) + n
      /\ \A i \in 1 .. Len(buffer) : buffer'[i] = buffer[i]
      /\ \A i \in 1 .. n : buffer'[Len(buffer) + i] = wire[i]
  <2>1. Len(buffer) \in Nat /\ buffer \in Seq(Sent)
    BY RemainingParts DEF ClientTypes
  <2>2. buffer' = buffer \o u
    BY <1>1
  <2> HIDE DEF u
  <2>5. /\ Len(buffer \o u) = Len(buffer) + n
        /\ \A i \in 1 .. Len(buffer) + n :
              (buffer \o u)[i] = IF i <= Len(buffer) THEN buffer[i] ELSE u[i - Len(buffer)]
    BY <1>4, <2>1, ConcatProperties
  <2>3. /\ Len(buffer') = Len(buffer) + n
        /\ \A i \in 1 .. Len(buffer) + n :
              buffer'[i] = IF i <= Len(buffer) THEN buffer[i] ELSE u[i - Len(buffer)]
    BY <2>2, <2>5
  <2>4. ASSUME NEW i \in 1 .. n PROVE buffer'[Len(buffer) + i] = wire[i]
    <3>1. /\ Len(buffer) + i \in 1 .. Len(buffer) + n /\ ~ (Len(buffer) + i <= Len(buffer))
          /\ (Len(buffer) + i) - Len(buffer) = i
      BY <2>1
    <3> QED BY <1>4, <2>3, <3>1
  <2> QED BY <2>1, <2>3, <2>4
<1>5. Remaining' = Remaining
  <2>1. /\ mDataBuffer \in Seq(Sent) /\ buffer \in Seq(Sent) /\ wire \in Seq(Sent)
        /\ Remaining \in Seq(Sent) /\ Joined(Remaining, mDataBuffer, buffer, wire)
    BY RemainingJoined
  <2>2. Moved(buffer, wire, buffer', wire')
    <3>1. Len(buffer) \in Nat /\ Len(wire) \in Nat
      BY <2>1, LenProperties
    <3>2. Len(buffer') - Len(buffer) = n
      BY <1>2, <1>9, <3>1
    <3> QED BY <1>2, <1>8, <1>9, <3>1, <3>2 DEF Moved
  <2>3. /\ Len(mDataBuffer) \in Nat /\ Len(buffer) \in Nat /\ Len(wire) \in Nat
        /\ Len(buffer') \in Nat /\ Len(wire') \in Nat
    BY <1>7, <2>1, LenProperties
  <2>4. /\ Len(Remaining') = Len(Remaining)
        /\ \A k \in 1 .. Len(Remaining') : Remaining'[k] = Remaining[k]
    BY <1>7, <2>1, <2>2, <2>3, Regroup
  <2> QED BY <1>7, <2>1, <2>4, SeqEqual
<1> QED BY <1>3, <1>5

\* A camera whose messages are long now has sent long messages all along.
LEMMA LongBefore ==
    ASSUME ClientTypes, NEW m \in [length : Lengths, bar : Nat], sent' = Append(sent, m),
           LongMessages'
    PROVE  LongMessages /\ m.bar = 0 /\ m.length >= BLOCK
<1> DEFINE M == [length : Lengths, bar : Nat]
<1>1. sent \in Seq(M) /\ Len(sent) \in Nat /\ DOMAIN sent = 1 .. Len(sent)
  BY LenProperties DEF ClientTypes
<1>2. \A id \in DOMAIN sent : id \in DOMAIN sent' /\ sent'[id] = sent[id]
  <2>1. DOMAIN sent \subseteq DOMAIN sent'
    BY NewMessage
  <2>2. \A id \in 1 .. Len(sent) : sent'[id] = sent[id]
    BY <1>1, AppendProperties
  <2> QED BY <1>1, <2>1, <2>2
<1>3. Len(sent) + 1 \in DOMAIN sent' /\ sent'[Len(sent) + 1] = m
  BY NewMessage
<1>4. Bars' = {} /\ \A id \in DOMAIN sent' : sent'[id].length >= BLOCK
  BY DEF LongMessages
<1>5. \A id \in DOMAIN sent' : ~ (sent'[id].bar > 0)
  BY <1>4 DEF Bars
<1>6. Bars = {}
  BY <1>2, <1>5 DEF Bars
<1>7. LongMessages
  BY <1>2, <1>4, <1>6 DEF LongMessages
<1>8. m.length >= BLOCK /\ ~ (m.bar > 0)
  BY <1>3, <1>4, <1>5
<1> QED BY <1>7, <1>8

\* A long message has its delimiter a block or more behind the one before it.
LEMMA MessageSpaced ==
    ASSUME NEW S, NEW s \in Seq(S), NEW id \in Nat, NEW m \in [length : Lengths, bar : Nat],
           m.bar = 0, m.length >= BLOCK, Spaced(s), Bytes(id, m) \in Seq(S)
    PROVE  Spaced(s \o Bytes(id, m))
<1> DEFINE l == Len(s)
           b == Bytes(id, m)
           t == s \o b
<1>1. l \in Nat /\ m.length \in Nat /\ BLOCK \in Nat
  BY LenProperties, JsonAssumption
<1>2. Len(b) = m.length
  BY <1>1, LenProperties DEF Bytes
<1>3. ASSUME NEW k \in 1 .. m.length, b[k].delimiter PROVE k = m.length
  <2>1. b[k] = [id |-> id, delimiter |-> k \in {m.bar, m.length}]
    BY <1>3 DEF Bytes
  <2>3. k \in {m.bar, m.length}
    <3> SUFFICES ASSUME ~ (k \in {m.bar, m.length}) PROVE FALSE
      OBVIOUS
    <3>1. (k \in {m.bar, m.length}) = FALSE
      OBVIOUS
    <3>2. b[k] = [id |-> id, delimiter |-> FALSE]
      BY <2>1, <3>1, Zenon
    <3> QED BY <1>3, <3>2
  <2> QED BY <1>1, <2>3
<1>6. b \in Seq(S)
  OBVIOUS
<1> HIDE DEF b
<1>7. /\ Len(t) = Len(s) + Len(b)
      /\ \A i \in 1 .. Len(s) + Len(b) : t[i] = IF i <= Len(s) THEN s[i] ELSE b[i - Len(s)]
  BY <1>6, ConcatProperties
<1>4. /\ Len(t) = l + m.length
      /\ \A i \in 1 .. l + m.length : t[i] = IF i <= l THEN s[i] ELSE b[i - l]
  BY <1>2, <1>7
<1> HIDE DEF t
<1>5. Spaced(t)
  <2> SUFFICES ASSUME NEW i \in 1 .. l + m.length, NEW j \in 1 .. l + m.length,
                      i < j, t[i].delimiter, t[j].delimiter
               PROVE  i + BLOCK <= j
    BY <1>4 DEF Spaced
  <2>1. CASE j <= l
    <3>1. i \in 1 .. l /\ j \in 1 .. l /\ s[i].delimiter /\ s[j].delimiter
      BY <1>1, <1>4, <2>1
    <3> QED BY <3>1 DEF Spaced
  <2>2. CASE ~ (j <= l)
    <3>1. j - l \in 1 .. m.length /\ b[j - l].delimiter
      BY <1>1, <1>4, <2>2
    <3>2. j = l + m.length
      BY <1>1, <1>3, <3>1
    <3>3. i <= l
      <4>1. SUFFICES ASSUME ~ (i <= l) PROVE FALSE
        OBVIOUS
      <4>2. i - l \in 1 .. m.length /\ b[i - l].delimiter
        BY <1>1, <1>4, <4>1
      <4>3. i = l + m.length
        BY <1>1, <1>3, <4>2
      <4> QED BY <1>1, <3>2, <4>3
    <3> QED BY <1>1, <3>2, <3>3
  <2> QED BY <2>1, <2>2
<1> QED BY <1>5 DEF t, b

\* A call that finds a delimiter takes out what is in front of it, and no more.
LEMMA CutKeepsRest ==
    ASSUME ClientTypes, HandleBlock, HasDelimiter(Received), mDataBuffer' = Rest(Received),
           NEW p, p = Position(Received)
    PROVE  /\ p \in 1 .. Len(Received) /\ Received[p].delimiter
           /\ \A i \in Delimiters(Received) : p <= i
           /\ Rest(Received) \in Seq(Sent) /\ Len(Rest(Received)) = Len(Received) - p
           /\ \A k \in 1 .. Len(Rest(Received)) : Rest(Received)[k] = Received[p + k]
           /\ Remaining' \in Seq(Sent) /\ Len(Remaining') = Len(Remaining) - p
           /\ \A k \in 1 .. Len(Remaining') : Remaining'[k] = Remaining[p + k]
<1> DEFINE R == Received
           rest == Rest(R)
           t == rest \o wire
<1>1. R \in Seq(Sent) /\ Len(R) \in Nat
  BY ReceivedTypes, LenProperties
<1>2. p \in 1 .. Len(R) /\ R[p].delimiter /\ \A i \in Delimiters(R) : p <= i
  BY <1>1, FirstDelimiter
<1>3. rest \in Seq(Sent) /\ Len(rest) = Len(R) - p /\ \A k \in 1 .. Len(rest) : rest[k] = R[p + k]
  <2>1. p \in 0 .. Len(R)
    BY <1>1, <1>2
  <2>2. rest = SubSeq(R, p + 1, Len(R))
    BY DEF Rest
  <2> HIDE DEF R, rest
  <2>3. LET s == SubSeq(R, p + 1, Len(R))
        IN  /\ s \in Seq(Sent) /\ Len(s) = Len(R) - p
            /\ \A k \in 1 .. Len(s) : s[k] = R[p + k]
    BY <1>1, <2>1, EndOfSeq
  <2> QED BY <2>2, <2>3
<1> HIDE DEF R, rest
<1>4. wire \in Seq(Sent) /\ Len(wire) \in Nat /\ Len(rest) \in Nat
  BY <1>3, LenProperties DEF ClientTypes
<1>5. /\ t \in Seq(Sent) /\ Len(t) = Len(rest) + Len(wire)
      /\ \A k \in 1 .. Len(rest) + Len(wire) :
            t[k] = IF k <= Len(rest) THEN rest[k] ELSE wire[k - Len(rest)]
  <2>1. /\ rest \o wire \in Seq(Sent) /\ Len(rest \o wire) = Len(rest) + Len(wire)
        /\ \A k \in 1 .. Len(rest) + Len(wire) :
              (rest \o wire)[k] = IF k <= Len(rest) THEN rest[k] ELSE wire[k - Len(rest)]
    BY <1>3, <1>4, ConcatProperties
  <2> QED BY <2>1
<1>6. Remaining' = t
  <2>1. mDataBuffer' = rest /\ buffer' = <<>> /\ wire' = wire
    BY DEF HandleBlock, rest, R
  <2>2. rest \o <<>> = rest
    BY <1>3, ConcatEmptySeq
  <2> QED BY <2>1, <2>2 DEF Remaining
<1> HIDE DEF t
<1>7. Len(t) = Len(Remaining) - p
  <2>1. Len(Remaining) = Len(R) + Len(wire)
    BY ReceivedTypes, RemainingParts DEF R
  <2> QED BY <1>1, <1>2, <1>3, <1>4, <1>5, <2>1
<1>8. ASSUME NEW k \in 1 .. Len(t) PROVE t[k] = Remaining[p + k]
  <2>1. CASE k <= Len(rest)
    <3>1. p + k \in 1 .. Len(R) /\ k \in 1 .. Len(rest)
      BY <1>1, <1>2, <1>3, <1>4, <2>1
    <3>2. Remaining[p + k] = R[p + k]
      BY <3>1, RemainingParts DEF R
    <3> QED BY <1>3, <1>5, <2>1, <3>1, <3>2
  <2>2. CASE ~ (k <= Len(rest))
    <3>0. p \in Nat /\ Len(rest) = Len(R) - p /\ k \in 1 .. Len(rest) + Len(wire)
      BY <1>1, <1>2, <1>3, <1>5
    <3>1. k - Len(rest) \in 1 .. Len(wire) /\ Len(R) + (k - Len(rest)) = p + k
      BY <1>1, <1>4, <2>2, <3>0
    <3>2. Remaining[p + k] = wire[k - Len(rest)]
      BY <3>1, RemainingParts DEF R
    <3> QED BY <1>5, <2>2, <3>2
  <2> QED BY <2>1, <2>2
<1> QED BY <1>2, <1>3, <1>5, <1>6, <1>7, <1>8 DEF R, rest

\* A block holds at most one delimiter: when the message in front of it has been
\* taken out none is left, and what remains is as far apart as before.
LEMMA HandleApart ==
    ASSUME ClientTypes, Spaced(Remaining), Free(mDataBuffer),
           Incomplete \/ ParseFails \/ SaveMessage \/ SaveFails
    PROVE  Spaced(Remaining') /\ Free(mDataBuffer')
<1> DEFINE R == Received
           p == Position(R)
           rest == Rest(R)
<1>1. Len(buffer) = BLOCK /\ buffer' = <<>> /\ wire' = wire /\ sent' = sent
  BY DEF Incomplete, ParseFails, SaveMessage, SaveFails, HandleBlock
<1>2. ClientTypes' /\ Sent' = Sent
  BY <1>1, HandleTypes DEF Sent
<1>3. R \in Seq(Sent) /\ Len(R) = Len(mDataBuffer) + Len(buffer) /\ Len(R) \in Nat
  BY ReceivedTypes, LenProperties
<1>4. Remaining' = mDataBuffer' \o wire
  <2>1. mDataBuffer' \in Seq(Sent)
    BY <1>2 DEF ClientTypes
  <2>2. mDataBuffer' \o <<>> = mDataBuffer'
    BY <2>1, ConcatEmptySeq
  <2> QED BY <1>1, <2>2 DEF Remaining
<1>5. CASE Incomplete
  <2>1. mDataBuffer' = R /\ ~ HasDelimiter(R)
    BY <1>5 DEF Incomplete
  <2>2. Remaining' = Remaining
    BY <1>4, <2>1, RemainingParts
  <2>3. Free(R)
    BY <1>3, <2>1, LenProperties DEF HasDelimiter, Delimiters, Free
  <2> QED BY <2>1, <2>2, <2>3
<1>6. CASE ParseFails \/ SaveMessage \/ SaveFails
  <2>1. mDataBuffer' = rest /\ HasDelimiter(R)
    BY <1>6 DEF ParseFails, SaveMessage, SaveFails
  <2>2. /\ p \in 1 .. Len(R) /\ R[p].delimiter
        /\ Len(rest) = Len(R) - p /\ \A k \in 1 .. Len(rest) : rest[k] = R[p + k]
        /\ rest \in Seq(Sent)
        /\ Remaining' \in Seq(Sent) /\ Len(Remaining') = Len(Remaining) - p
        /\ \A k \in 1 .. Len(Remaining') : Remaining'[k] = Remaining[p + k]
    <3>1. HandleBlock
      BY <1>6 DEF ParseFails, SaveMessage, SaveFails
    <3> QED BY <2>1, <3>1, CutKeepsRest
  <2>3. Len(rest) = Len(R) - p /\ \A k \in 1 .. Len(rest) : rest[k] = R[p + k]
    BY <2>2
  <2>4. p > Len(mDataBuffer)
    <3>1. SUFFICES ASSUME ~ (p > Len(mDataBuffer)) PROVE FALSE
      OBVIOUS
    <3>2. p \in 1 .. Len(R) /\ R[p].delimiter
      BY <2>2
    <3>3. p \in 1 .. Len(mDataBuffer)
      <4> HIDE DEF p, R
      <4> QED BY <1>3, <3>1, <3>2, RemainingParts
    <3>4. R[p] = mDataBuffer[p]
      <4>1. Remaining[p] = mDataBuffer[p] /\ Remaining[p] = R[p]
        <5> HIDE DEF p
        <5> QED BY <3>2, <3>3, RemainingParts
      <4> QED BY <4>1
    <3> QED BY <3>2, <3>3, <3>4 DEF Free
  <2> HIDE DEF R, p, rest
  <2>5. ASSUME NEW k \in 1 .. Len(rest), rest[k].delimiter PROVE FALSE
    <3>1. Len(rest) \in Nat /\ p + k \in 1 .. Len(R) /\ p \in 1 .. Len(R) /\ p < p + k
      BY <1>3, <2>2, <2>3
    <3>2. R[p + k].delimiter
      BY <2>3, <2>5
    <3>3. Remaining[p] = R[p] /\ Remaining[p + k] = R[p + k] /\ Len(R) <= Len(Remaining)
      BY <1>3, <3>1, RemainingParts DEF R
    <3>4. p \in 1 .. Len(Remaining) /\ p + k \in 1 .. Len(Remaining)
      BY <1>3, <3>1, <3>3, RemainingParts
    <3>5. p + BLOCK <= p + k
      BY <2>2, <3>1, <3>2, <3>3, <3>4 DEF Spaced
    <3>6. k <= Len(R) - p
      BY <1>3, <2>2, <2>3
    <3> QED BY <1>1, <1>3, <2>4, <3>1, <3>5, <3>6, RemainingParts, JsonAssumption
  <2>6. Free(rest)
    BY <2>5 DEF Free
  <2>7. Spaced(Remaining')
    <3>0. Remaining \in Seq(Sent) /\ Len(Remaining) \in Nat /\ p \in Nat
      BY <1>3, <2>2, RemainingParts, LenProperties
    <3>1. Len(Remaining') + p <= Len(Remaining) /\ p \in Nat
      BY <2>2, <3>0
    <3> DEFINE r == Remaining
               s == Remaining'
    <3>2. s \in Seq(Sent) /\ r \in Seq(Sent) /\ \A k \in 1 .. Len(s) : s[k] = r[p + k]
      BY <2>2, RemainingParts
    <3> HIDE DEF r, s
    <3>3. Spaced(r) /\ Len(s) + p <= Len(r)
      BY <3>1 DEF r, s
    <3>4. Spaced(s)
      BY <3>1, <3>2, <3>3, PartSpaced
    <3> QED BY <3>4 DEF s
  <2> QED BY <2>1, <2>6, <2>7 DEF rest
<1> QED BY <1>5, <1>6

\* Every step keeps the distance between the delimiters.
LEMMA StepApart == ClientTypes /\ Apart /\ [Next]_vars => Apart'
<1> SUFFICES ASSUME ClientTypes, Apart, [Next]_vars, LongMessages'
             PROVE  Spaced(Remaining') /\ Free(mDataBuffer')
  BY DEF Apart
<1> DEFINE Goal == Spaced(Remaining') /\ Free(mDataBuffer')
<1>0. CASE sent' = sent
  <2>1. Bars' = Bars
    BY <1>0 DEF Bars
  <2>2. LongMessages
    BY <1>0, <2>1 DEF LongMessages
  <2>3. Spaced(Remaining) /\ Free(mDataBuffer)
    BY <2>2 DEF Apart
  <2>4. CASE Incomplete \/ ParseFails \/ SaveMessage \/ SaveFails
    BY <2>3, <2>4, HandleApart
  <2>5. CASE ReadBlock
    <3>1. Remaining' = Remaining /\ mDataBuffer' = mDataBuffer
      BY <2>5, ReadKeepsStream
    <3> QED BY <2>3, <3>1
  <2>6. CASE LoseConnection /\ UNCHANGED own
    <3>1. PICK n \in 0 .. Len(wire) : wire' = SubSeq(wire, 1, n)
      BY <2>6 DEF LoseConnection
    <3>2. mDataBuffer' = mDataBuffer /\ buffer' = buffer /\ Received' = Received
      BY <2>6 DEF LoseConnection, own, Received
    <3> DEFINE u == SubSeq(wire, 1, n)
               R == Received
               t == R \o u
    <3>3. \A i \in 1 .. n : wire[i] \in Sent
      BY LenProperties, ElementOfSeq DEF ClientTypes
    <3>4. u \in Seq(Sent) /\ Len(u) = n /\ \A i \in 1 .. n : u[i] = wire[i]
      BY <3>3, SubSeqProperties
    <3>5. R \in Seq(Sent) /\ Len(R) \in Nat
      BY ReceivedTypes, LenProperties
    <3>6. Remaining' = t
      BY <3>1, <3>2 DEF Remaining, Received
    <3> HIDE DEF u, R
    <3>7. /\ t \in Seq(Sent) /\ Len(t) = Len(R) + n
          /\ \A k \in 1 .. Len(R) + n : t[k] = IF k <= Len(R) THEN R[k] ELSE u[k - Len(R)]
      BY <3>4, <3>5, ConcatProperties
    <3> HIDE DEF t
    <3>8. ASSUME NEW k \in 1 .. Len(t) PROVE t[k] = Remaining[0 + k]
      <4>1. CASE k <= Len(R)
        <5>1. k \in 1 .. Len(R)
          BY <3>5, <3>7, <4>1
        <5>2. Remaining[k] = R[k]
          BY <5>1, RemainingParts DEF R
        <5> QED BY <3>7, <4>1, <5>2
      <4>2. CASE ~ (k <= Len(R))
        <5>1. k - Len(R) \in 1 .. n /\ k - Len(R) \in 1 .. Len(wire)
          BY <3>5, <3>7, <4>2, RemainingParts
        <5>2. Remaining[Len(R) + (k - Len(R))] = wire[k - Len(R)]
          BY <5>1, RemainingParts DEF R
        <5>3. Len(R) + (k - Len(R)) = k
          BY <3>5
        <5> QED BY <3>4, <3>7, <4>2, <5>1, <5>2, <5>3
      <4> QED BY <4>1, <4>2
    <3>9. Len(t) + 0 <= Len(Remaining)
      BY <3>5, <3>7, RemainingParts, ReceivedTypes DEF R
    <3>10. Spaced(t)
      BY <2>3, <3>7, <3>8, <3>9, PartSpaced, RemainingParts
    <3> QED BY <2>3, <3>2, <3>6, <3>10
  <2>7. CASE ReceiveEnds \/ ReceiveFails
    <3>1. mDataBuffer' = mDataBuffer /\ buffer' = <<>> /\ wire' = <<>>
      BY <2>7 DEF ReceiveEnds, ReceiveFails, ReadsEnd, ReadsError, own
    <3>2. mDataBuffer \in Seq(Sent)
      BY DEF ClientTypes
    <3>3. Remaining' = mDataBuffer
      BY <3>1, <3>2, ConcatEmptySeq DEF Remaining
    <3>4. Spaced(mDataBuffer)
      BY <2>3 DEF Free, Spaced
    <3> QED BY <2>3, <3>1, <3>3, <3>4
  <2>8. CASE (Connect("receive") \/ ConnectFails) /\ UNCHANGED own
    BY <2>3, <2>8 DEF Connect, ConnectFails, own, Remaining
  <2>9. CASE UNCHANGED vars
    BY <2>3, <2>9 DEF vars, connection, own, Remaining
  <2>10. CASE CameraSends
    <3>1. FALSE
      <4>1. PICK m \in [length : Lengths, bar : Nat] : sent' = Append(sent, m)
        BY <2>10, JsonAssumption DEF CameraSends
      <4>2. Len(sent') = Len(sent) + 1 /\ Len(sent) \in Nat
        BY <4>1, AppendProperties, LenProperties DEF ClientTypes
      <4> QED BY <1>0, <4>2
    <3> QED BY <3>1
  <2> QED BY <2>4, <2>5, <2>6, <2>7, <2>8, <2>9, <2>10 DEF Next, Client
<1>1. CASE CameraSends
  <2>1. PICK m \in [length : Lengths, bar : Nat] :
            sent' = Append(sent, m) /\ Send(Bytes(Len(sent) + 1, m))
    BY <1>1, JsonAssumption DEF CameraSends
  <2>2. LongMessages /\ m.bar = 0 /\ m.length >= BLOCK
    BY <2>1, LongBefore
  <2>3. Spaced(Remaining) /\ Free(mDataBuffer)
    BY <2>2 DEF Apart
  <2> DEFINE b == Bytes(Len(sent) + 1, m)
             R == Received
  <2>4. mDataBuffer' = mDataBuffer /\ buffer' = buffer /\ wire' = wire \o b
    BY <1>1, <2>1 DEF CameraSends, Send
  <2>5. b \in Seq(Sent') /\ Sent \subseteq Sent'
    BY <2>1, NewMessage
  <2>6. wire \in Seq(Sent') /\ R \in Seq(Sent')
    BY <2>5, ReceivedTypes, SeqMonotonic DEF ClientTypes
  <2>7. Remaining = R \o wire /\ R \o wire \in Seq(Sent')
    BY <2>6, RemainingParts, ConcatProperties
  <2>8. Len(sent) + 1 \in Nat
    BY LenProperties DEF ClientTypes
  <2>9. Remaining' = R \o (wire \o b)
    BY <2>4 DEF Remaining, Received
  <2>10. R \o (wire \o b) = (R \o wire) \o b
    <3> HIDE DEF R, b
    <3> QED BY <2>5, <2>6
  <2>11. Spaced(Remaining \o b)
    BY <2>2, <2>3, <2>5, <2>7, <2>8, MessageSpaced
  <2> QED BY <2>3, <2>4, <2>7, <2>9, <2>10, <2>11
<1>2. sent' = sent \/ CameraSends
  BY DEF Next, Client, LoseConnection, own, ReadBlock, Incomplete, ParseFails, SaveMessage,
         SaveFails, HandleBlock, ReceiveEnds, ReceiveFails, vars
<1> QED BY <1>0, <1>1, <1>2

\* Messages that are no shorter than a block do not pile up in the client,
\* however the stream is cut and whatever the store refuses.
THEOREM MessagesDoNotPileUp == Spec => []NoBacklog
<1>1. Init => Apart
  BY EmptySeq DEF Init, ConnectionInit, Apart, Remaining, Spaced, Free
<1>2. ClientTypes /\ Apart => NoBacklog
  BY LenProperties DEF ClientTypes, Apart, NoBacklog, Free, HasDelimiter, Delimiters
<1> QED BY <1>1, <1>2, InitTypes, StepTypes, StepApart, PTL DEF Spec

-----------------------------------------------------------------------------
(* Every message in its turn.  What has not left the client is the end of    *)
(* the stream: the messages not yet taken, one behind the other, the first   *)
(* of them possibly without its part up to a '|' in its text.                *)

Message == [length : Lengths, bar : Nat]

\* Message id of m has its first byte behind the first at[id] bytes of r; the
\* bytes of r that at[id] < 0 would put in front of it are gone.
Laid(r, at, m) ==
    /\ at \in [DOMAIN m -> Int]
    /\ \A i, j \in DOMAIN m : i < j => at[i] + m[i].length <= at[j]
    /\ \A id \in DOMAIN m :
          /\ at[id] + m[id].length <= Len(r)
          /\ \/ at[id] >= 0
             \/ at[id] + m[id].length <= 0
             \/ m[id].bar > 0 /\ at[id] + m[id].bar <= 0
          /\ \A n \in 1 .. m[id].length : at[id] + n >= 1 => r[at[id] + n] = Bytes(id, m[id])[n]
    /\ \A k \in 1 .. Len(r) : \E id \in DOMAIN m : at[id] < k /\ k <= at[id] + m[id].length

\* The messages that have left the client completely.
Gone(at, m) == {id \in DOMAIN m : at[id] + m[id].length <= 0}

\* The bytes of a message carry its number; the last, and the bar, delimit.
LEMMA BytesOf ==
    ASSUME NEW id, NEW m \in Message
    PROVE  /\ m.length \in Nat /\ m.length >= 2 /\ m.bar \in Nat
           /\ DOMAIN Bytes(id, m) = 1 .. m.length
           /\ \A n \in 1 .. m.length :
                 /\ Bytes(id, m)[n].id = id
                 /\ Bytes(id, m)[n].delimiter <=> n = m.bar \/ n = m.length
<1>1. m.length \in Nat /\ m.length >= 2 /\ m.bar \in Nat
  <2>1. m.length \in Lengths /\ m.bar \in Nat
    BY DEF Message
  <2>2. m.length \in Nat /\ m.length # 0 /\ m.length # 1
    BY <2>1, JsonAssumption
  <2> QED BY <2>1, <2>2
<1>2. DOMAIN Bytes(id, m) = 1 .. m.length
  BY DEF Bytes
<1>3. ASSUME NEW n \in 1 .. m.length
      PROVE  /\ Bytes(id, m)[n].id = id
             /\ Bytes(id, m)[n].delimiter <=> n = m.bar \/ n = m.length
  <2>1. Bytes(id, m)[n] = [id |-> id, delimiter |-> n \in {m.bar, m.length}]
    BY <1>3 DEF Bytes
  <2>2. CASE n = m.bar \/ n = m.length
    <3>1. (n \in {m.bar, m.length}) = TRUE
      BY <2>2
    <3>2. Bytes(id, m)[n] = [id |-> id, delimiter |-> TRUE]
      BY <2>1, <3>1, Zenon
    <3> QED BY <2>2, <3>2
  <2>3. CASE ~ (n = m.bar \/ n = m.length)
    <3>1. (n \in {m.bar, m.length}) = FALSE
      BY <2>3
    <3>2. Bytes(id, m)[n] = [id |-> id, delimiter |-> FALSE]
      BY <2>1, <3>1, Zenon
    <3> QED BY <2>3, <3>2
  <2> QED BY <2>2, <2>3, Zenon
<1> QED BY <1>1, <1>2, <1>3

\* What the first byte tells: the messages gone are those before its own.
LEMMA LaidFirst ==
    ASSUME NEW m \in Seq(Message), NEW r, Len(r) \in Nat, NEW at, Laid(r, at, m)
    PROVE  /\ Len(r) = 0 => Gone(at, m) = DOMAIN m
           /\ Len(r) > 0 => /\ r[1].id \in DOMAIN m
                            /\ at[r[1].id] <= 0 /\ at[r[1].id] + m[r[1].id].length > 0
                            /\ Gone(at, m) = 1 .. r[1].id - 1
<1>1. \A id \in DOMAIN m : m[id] \in Message /\ at[id] \in Int
  BY ElementOfSeq, LenProperties DEF Laid
<1>2. \A id \in DOMAIN m : m[id].length \in Nat /\ m[id].length >= 2
  BY <1>1, BytesOf
<1>3. DOMAIN m = 1 .. Len(m) /\ Len(m) \in Nat
  BY LenProperties
<1>4. ASSUME Len(r) = 0 PROVE Gone(at, m) = DOMAIN m
  BY <1>4 DEF Gone, Laid
<1>5. ASSUME Len(r) > 0
      PROVE  /\ r[1].id \in DOMAIN m
             /\ at[r[1].id] <= 0 /\ at[r[1].id] + m[r[1].id].length > 0
             /\ Gone(at, m) = 1 .. r[1].id - 1
  <2>1. 1 \in 1 .. Len(r)
    BY <1>5
  <2>2. PICK f \in DOMAIN m : at[f] < 1 /\ 1 <= at[f] + m[f].length
    BY <2>1 DEF Laid
  <2>3. at[f] \in Int /\ m[f].length \in Nat /\ m[f] \in Message
    BY <1>1, <1>2
  <2>4. r[1].id = f
    <3> DEFINE n == 1 - at[f]
    <3>1. n \in 1 .. m[f].length /\ at[f] + n = 1
      BY <2>2, <2>3
    <3> HIDE DEF n
    <3>2. r[at[f] + n] = Bytes(f, m[f])[n]
      BY <3>1 DEF Laid
    <3>3. Bytes(f, m[f])[n].id = f
      BY <2>3, <3>1, BytesOf
    <3> QED BY <3>1, <3>2, <3>3
  <2>5. ASSUME NEW id \in DOMAIN m
        PROVE  at[id] + m[id].length <= 0 <=> id < f
    <3>1. at[id] \in Int /\ m[id].length \in Nat /\ id \in Nat /\ f \in Nat
      BY <1>1, <1>2, <1>3
    <3>2. CASE id < f
      <4>1. at[id] + m[id].length <= at[f]
        BY <3>2 DEF Laid
      <4> QED BY <2>2, <2>3, <3>1, <3>2, <4>1
    <3>3. CASE id = f
      BY <2>2, <2>3, <3>1, <3>3
    <3>4. CASE f < id
      <4>1. at[f] + m[f].length <= at[id]
        BY <3>4 DEF Laid
      <4> QED BY <2>2, <2>3, <3>1, <3>4, <4>1
    <3> QED BY <3>1, <3>2, <3>3, <3>4
  <2>6. Gone(at, m) = 1 .. f - 1
    <3>1. Gone(at, m) = {id \in DOMAIN m : id < f}
      BY <2>5 DEF Gone
    <3> QED BY <1>3, <3>1
  <2> QED BY <2>2, <2>3, <2>4, <2>6
<1> QED BY <1>4, <1>5

\* The first delimiter of r is at p, in message f; t is what is behind it.
Cut(r, p, f, t) ==
    /\ Len(r) \in Nat /\ p \in 1 .. Len(r) /\ f = r[1].id
    /\ r[p].delimiter /\ \A k \in 1 .. p - 1 : ~ r[k].delimiter
    /\ Len(t) = Len(r) - p /\ \A k \in 1 .. Len(t) : t[k] = r[p + k]

\* Places in bytes, and the same places when p bytes in front of them are gone.
LEMMA PlaceBetween ==
    ASSUME NEW a \in Int, NEW p \in Nat, NEW b, b = a - p, NEW n \in Nat, NEW k \in Nat,
           a < p + k, p + k <= a + n
    PROVE  b < k /\ k <= b + n
OBVIOUS

LEMMA PlaceBefore ==
    ASSUME NEW a \in Int, NEW p \in Nat, NEW b, b = a - p, NEW n \in Nat, NEW c \in Int,
           a + n <= c, c <= 0
    PROVE  a + n <= 0 /\ b + n <= 0
OBVIOUS

\* Taking out what is in front of the first delimiter, and the delimiter, takes the
\* first message out, or the part of it up to its bar.
LEMMA LaidCut ==
    ASSUME NEW m \in Seq(Message), NEW r, NEW at, Laid(r, at, m),
           NEW p, NEW f, NEW t, Cut(r, p, f, t)
    PROVE  /\ f \in DOMAIN m /\ Gone(at, m) = 1 .. f - 1
           /\ m[f].bar = 0 => at[f] = 0 /\ p = m[f].length
           /\ \E rest : /\ Laid(t, rest, m)
                        /\ \/ Gone(rest, m) = Gone(at, m) \cup {f}
                           \/ m[f].bar > 0 /\ Gone(rest, m) = Gone(at, m)
<1>1. \A id \in DOMAIN m : m[id] \in Message /\ at[id] \in Int
  BY ElementOfSeq, LenProperties DEF Laid
<1>2. \A id \in DOMAIN m : m[id].length \in Nat /\ m[id].length >= 2 /\ m[id].bar \in Nat
  BY <1>1, BytesOf
<1>3. DOMAIN m = 1 .. Len(m) /\ Len(m) \in Nat
  BY LenProperties
<1>4. /\ f \in DOMAIN m /\ at[f] <= 0 /\ at[f] + m[f].length > 0
      /\ Gone(at, m) = 1 .. f - 1
  <2>1. Len(r) \in Nat /\ Len(r) > 0 /\ f = r[1].id
    BY DEF Cut
  <2> QED BY <2>1, LaidFirst
<1>5. f \in Nat /\ p \in Nat /\ p >= 1 /\ m[f] \in Message /\ at[f] \in Int
      /\ m[f].length \in Nat /\ m[f].length >= 2 /\ m[f].bar \in Nat
      /\ Len(r) \in Nat /\ p <= Len(r) /\ Len(t) = Len(r) - p
  <2>1. p \in Nat /\ p >= 1 /\ Len(r) \in Nat /\ p <= Len(r) /\ Len(t) = Len(r) - p
    BY DEF Cut
  <2> QED BY <1>1, <1>2, <1>3, <1>4, <2>1
<1>6. \A n \in 1 .. m[f].length :
         at[f] + n >= 1 => (r[at[f] + n].delimiter <=> n = m[f].bar \/ n = m[f].length)
  <2>1. \A n \in 1 .. m[f].length : at[f] + n >= 1 => r[at[f] + n] = Bytes(f, m[f])[n]
    BY <1>4 DEF Laid
  <2>2. \A n \in 1 .. m[f].length :
           Bytes(f, m[f])[n].delimiter <=> n = m[f].bar \/ n = m[f].length
    BY <1>5, BytesOf
  <2> QED BY <2>1, <2>2
<1>7. p <= at[f] + m[f].length
  <2>1. SUFFICES ASSUME at[f] + m[f].length < p PROVE FALSE
    BY <1>5
  <2>2. m[f].length \in 1 .. m[f].length /\ at[f] + m[f].length \in 1 .. p - 1
    BY <1>4, <1>5, <2>1
  <2> QED BY <1>4, <1>6, <2>2 DEF Cut
<1>8. p = at[f] + m[f].length \/ (m[f].bar > 0 /\ p = at[f] + m[f].bar)
  <2> DEFINE n == p - at[f]
  <2>1. n \in 1 .. m[f].length /\ at[f] + n = p /\ p >= 1
    BY <1>4, <1>5, <1>7
  <2> HIDE DEF n
  <2>2. n = m[f].bar \/ n = m[f].length
    BY <1>6, <2>1 DEF Cut
  <2> QED BY <1>5, <2>1, <2>2
<1>9. m[f].bar = 0 => at[f] = 0 /\ p = m[f].length
  <2>1. \/ at[f] >= 0 \/ at[f] + m[f].length <= 0 \/ m[f].bar > 0
    BY <1>4 DEF Laid
  <2> QED BY <1>4, <1>5, <1>8, <2>1
<1> DEFINE rest == [id \in DOMAIN m |-> at[id] - p]
<1>10. \A id \in DOMAIN m : rest[id] = at[id] - p /\ rest[id] \in Int
  BY <1>1, <1>5
<1>11. rest \in [DOMAIN m -> Int]
  BY <1>10
<1> HIDE DEF rest
<1>12. ASSUME NEW i \in DOMAIN m, NEW j \in DOMAIN m, i < j
       PROVE  rest[i] + m[i].length <= rest[j]
  <2>1. at[i] + m[i].length <= at[j]
    BY <1>12 DEF Laid
  <2>2. /\ at[i] \in Int /\ at[j] \in Int /\ m[i].length \in Nat
        /\ rest[i] = at[i] - p /\ rest[j] = at[j] - p
    BY <1>1, <1>2, <1>10
  <2> QED BY <1>5, <2>1, <2>2
<1>13. ASSUME NEW id \in DOMAIN m
       PROVE  /\ id < f => at[id] + m[id].length <= at[f]
              /\ id > f => rest[id] >= 0
              /\ id < f \/ id = f \/ id > f
  <2>1. id \in Nat /\ at[id] \in Int /\ m[id].length \in Nat
    BY <1>1, <1>2, <1>3
  <2>2. id < f => at[id] + m[id].length <= at[f]
    BY <1>4 DEF Laid
  <2>3. ASSUME id > f PROVE rest[id] >= 0
    <3>1. at[f] + m[f].length <= at[id]
      BY <1>4, <1>5, <2>1, <2>3 DEF Laid
    <3>2. rest[id] = at[id] - p
      BY <1>10
    <3> QED BY <1>5, <1>7, <2>1, <3>1, <3>2
  <2> QED BY <1>5, <2>1, <2>2, <2>3
<1>14. ASSUME NEW id \in DOMAIN m
       PROVE  /\ rest[id] + m[id].length <= Len(t)
              /\ \/ rest[id] >= 0
                 \/ rest[id] + m[id].length <= 0
                 \/ m[id].bar > 0 /\ rest[id] + m[id].bar <= 0
              /\ \A n \in 1 .. m[id].length :
                    rest[id] + n >= 1 => t[rest[id] + n] = Bytes(id, m[id])[n]
  <2>1. at[id] \in Int /\ m[id].length \in Nat /\ m[id].bar \in Nat /\ rest[id] = at[id] - p
    BY <1>1, <1>2, <1>10
  <2>2. at[id] + m[id].length <= Len(r)
    BY DEF Laid
  <2>3. rest[id] + m[id].length <= Len(t)
    BY <1>5, <2>1, <2>2
  <2>4. \/ rest[id] >= 0
        \/ rest[id] + m[id].length <= 0
        \/ m[id].bar > 0 /\ rest[id] + m[id].bar <= 0
    <3>1. CASE id < f
      <4>1. at[id] + m[id].length <= at[f]
        BY <1>13, <3>1
      <4>2. at[f] <= 0
        BY <1>4
      <4>3. rest[id] + m[id].length <= 0
        BY <1>5, <2>1, <4>1, <4>2
      <4> QED BY <4>3
    <3>2. CASE id = f
      BY <1>5, <1>8, <2>1, <3>2
    <3>3. CASE id > f
      BY <1>13, <3>3
    <3> QED BY <1>13, <3>1, <3>2, <3>3
  <2>5. ASSUME NEW n \in 1 .. m[id].length, rest[id] + n >= 1
        PROVE  t[rest[id] + n] = Bytes(id, m[id])[n]
    <3>0. n \in Nat /\ n <= m[id].length /\ rest[id] \in Int /\ Len(t) \in Int
      BY <1>5, <2>1
    <3>1. /\ rest[id] + n \in 1 .. Len(t)
          /\ at[id] + n >= 1
          /\ p + (rest[id] + n) = at[id] + n
      <4>1. rest[id] + n <= Len(t)
        BY <2>1, <2>3, <3>0
      <4>2. at[id] + n >= 1 /\ p + (rest[id] + n) = at[id] + n
        <5>1. p \in Nat /\ at[id] \in Int /\ rest[id] = at[id] - p
          BY <1>5, <2>1
        <5>2. rest[id] + n >= 1
          BY <2>5
        <5> DEFINE a == at[id]
                   b == rest[id]
        <5>3. a + n >= 1 /\ p + (b + n) = a + n
          <6>1. a \in Int /\ b = a - p /\ b + n >= 1 /\ n \in Nat /\ p \in Nat
            BY <3>0, <5>1, <5>2
          <6> HIDE DEF a, b
          <6> QED BY <6>1
        <5> QED BY <5>3
      <4> QED BY <2>5, <3>0, <4>1, <4>2
    <3>2. t[rest[id] + n] = r[p + (rest[id] + n)]
      BY <3>1 DEF Cut
    <3>3. r[at[id] + n] = Bytes(id, m[id])[n]
      BY <3>1 DEF Laid
    <3> QED BY <3>1, <3>2, <3>3
  <2> QED BY <2>3, <2>4, <2>5
<1>15. ASSUME NEW k \in 1 .. Len(t)
       PROVE  \E id \in DOMAIN m : rest[id] < k /\ k <= rest[id] + m[id].length
  <2>1. p + k \in 1 .. Len(r)
    BY <1>5
  <2>2. PICK id \in DOMAIN m : at[id] < p + k /\ p + k <= at[id] + m[id].length
    BY <2>1 DEF Laid
  <2>3. rest[id] < k /\ k <= rest[id] + m[id].length
    <3>1. at[id] \in Int /\ m[id].length \in Nat /\ rest[id] = at[id] - p
      BY <1>1, <1>2, <1>10
    <3>2. p \in Nat /\ k \in Nat
      BY <1>5
    <3> QED BY <2>2, <3>1, <3>2, PlaceBetween
  <2> QED BY <2>3
<1>16. Laid(t, rest, m)
  BY <1>11, <1>12, <1>14, <1>15 DEF Laid
<1>17. ASSUME NEW id \in DOMAIN m, id # f
       PROVE  id \in Gone(rest, m) <=> id \in Gone(at, m)
  <2>1. at[id] \in Int /\ m[id].length \in Nat /\ m[id].length >= 2 /\ rest[id] = at[id] - p
    BY <1>1, <1>2, <1>10
  <2>2. id < f => at[id] + m[id].length <= 0 /\ rest[id] + m[id].length <= 0
    <3>1. id < f => at[id] + m[id].length <= at[f]
      BY <1>13
    <3>2. p \in Nat /\ at[f] \in Int /\ at[f] <= 0
      BY <1>4, <1>5
    <3> QED BY <2>1, <3>1, <3>2, PlaceBefore
  <2>3. id > f => ~ (at[id] + m[id].length <= 0) /\ ~ (rest[id] + m[id].length <= 0)
    <3>1. id > f => rest[id] >= 0
      BY <1>13
    <3> QED BY <1>5, <2>1, <3>1
  <2> QED BY <1>13, <1>17, <2>2, <2>3 DEF Gone
<1>18. f \notin Gone(at, m) /\ Gone(at, m) \subseteq DOMAIN m /\ Gone(rest, m) \subseteq DOMAIN m
  BY <1>4, <1>5 DEF Gone
<1>19. \/ Gone(rest, m) = Gone(at, m) \cup {f}
       \/ m[f].bar > 0 /\ Gone(rest, m) = Gone(at, m)
  <2>1. CASE f \in Gone(rest, m)
    BY <1>4, <1>17, <1>18, <2>1
  <2>2. CASE f \notin Gone(rest, m)
    <3>1. m[f].bar > 0
      <4>1. SUFFICES ASSUME p = at[f] + m[f].length PROVE FALSE
        BY <1>8
      <4>2. rest[f] + m[f].length <= 0
        <5>1. rest[f] = at[f] - p
          BY <1>4, <1>10
        <5> QED BY <1>5, <4>1, <5>1
      <4> QED BY <1>4, <2>2, <4>2 DEF Gone
    <3>2. \A id \in DOMAIN m : id \in Gone(rest, m) <=> id \in Gone(at, m)
      BY <1>17, <1>18, <2>2
    <3>3. Gone(rest, m) = Gone(at, m)
      BY <1>18, <3>2
    <3> QED BY <3>1, <3>3
  <2> QED BY <2>1, <2>2
<1> QED BY <1>4, <1>9, <1>16, <1>19

\* A message sent comes behind the others.
LEMMA LaidSend ==
    ASSUME NEW m \in Seq(Message), NEW r, Len(r) \in Nat, NEW at, Laid(r, at, m),
           NEW x \in Message, NEW t, Len(t) = Len(r) + x.length,
           \A k \in 1 .. Len(r) : t[k] = r[k],
           \A n \in 1 .. x.length : t[Len(r) + n] = Bytes(Len(m) + 1, x)[n]
    PROVE  /\ \E more : Laid(t, more, Append(m, x))
           /\ Len(t) > 0
           /\ t[1].id = IF Len(r) = 0 THEN Len(m) + 1 ELSE r[1].id
<1> DEFINE N    == Len(m)
           L    == Len(r)
           u    == Append(m, x)
           more == [id \in 1 .. N + 1 |-> IF id = N + 1 THEN L ELSE at[id]]
<1>1. N \in Nat /\ DOMAIN m = 1 .. N /\ L \in Nat
  BY LenProperties
<1>2. DOMAIN u = 1 .. N + 1 /\ u[N + 1] = x /\ \A id \in 1 .. N : u[id] = m[id]
  <2>1. u \in Seq(Message) /\ Len(u) = N + 1 /\ u[N + 1] = x /\ \A id \in 1 .. N : u[id] = m[id]
    BY AppendProperties
  <2>2. DOMAIN u = 1 .. Len(u)
    BY <2>1, LenProperties
  <2> QED BY <2>1, <2>2
<1>3. x.length \in Nat /\ x.length >= 2
  BY BytesOf
<1>4. \A id \in 1 .. N : m[id].length \in Nat /\ m[id].length >= 2 /\ at[id] \in Int
  <2>1. \A id \in 1 .. N : m[id] \in Message /\ at[id] \in Int
    BY <1>1, ElementOfSeq DEF Laid
  <2> QED BY <2>1, BytesOf
<1>5. more[N + 1] = L /\ \A id \in 1 .. N : more[id] = at[id]
  BY <1>1
<1>6. more \in [DOMAIN u -> Int]
  BY <1>1, <1>2, <1>4
<1> HIDE DEF more, u, N, L
<1>7. \A id \in 1 .. N : at[id] + m[id].length <= L
  BY <1>1 DEF Laid, L
<1>8. ASSUME NEW i \in DOMAIN u, NEW j \in DOMAIN u, i < j PROVE more[i] + u[i].length <= more[j]
  <2>1. i \in 1 .. N
    BY <1>1, <1>2, <1>8
  <2>2. CASE j \in 1 .. N
    <3>1. at[i] + m[i].length <= at[j]
      BY <1>1, <1>8, <2>1, <2>2 DEF Laid
    <3> QED BY <1>2, <1>5, <2>1, <2>2, <3>1
  <2>3. CASE j = N + 1
    BY <1>2, <1>5, <1>7, <2>1, <2>3
  <2> QED BY <1>1, <1>2, <2>2, <2>3
<1>9. ASSUME NEW id \in DOMAIN u
      PROVE  /\ more[id] + u[id].length <= Len(t)
             /\ \/ more[id] >= 0
                \/ more[id] + u[id].length <= 0
                \/ u[id].bar > 0 /\ more[id] + u[id].bar <= 0
             /\ \A n \in 1 .. u[id].length :
                   more[id] + n >= 1 => t[more[id] + n] = Bytes(id, u[id])[n]
  <2>1. CASE id \in 1 .. N
    <3>1. more[id] = at[id] /\ u[id] = m[id]
      BY <1>2, <1>5, <2>1
    <3>2. /\ at[id] + m[id].length <= L
          /\ \/ at[id] >= 0
             \/ at[id] + m[id].length <= 0
             \/ m[id].bar > 0 /\ at[id] + m[id].bar <= 0
          /\ \A n \in 1 .. m[id].length : at[id] + n >= 1 => r[at[id] + n] = Bytes(id, m[id])[n]
      BY <1>1, <2>1 DEF Laid, L
    <3>3. at[id] + m[id].length <= Len(t)
      BY <1>1, <1>3, <1>4, <2>1, <3>2 DEF L
    <3>4. ASSUME NEW n \in 1 .. m[id].length, at[id] + n >= 1
          PROVE  t[at[id] + n] = Bytes(id, m[id])[n]
      <4>1. at[id] + n \in 1 .. L
        BY <1>1, <1>4, <2>1, <3>2, <3>4
      <4> QED BY <3>2, <3>4, <4>1 DEF L
    <3> QED BY <3>1, <3>2, <3>3, <3>4
  <2>2. CASE id = N + 1
    <3>1. more[id] = L /\ u[id] = x
      BY <1>2, <1>5, <2>2
    <3>2. \A n \in 1 .. x.length : t[L + n] = Bytes(N + 1, x)[n]
      BY DEF L, N
    <3>3. L + x.length <= Len(t) /\ L >= 0
      BY <1>1, <1>3 DEF L
    <3> QED BY <2>2, <3>1, <3>2, <3>3
  <2> QED BY <1>1, <1>2, <2>1, <2>2
<1>10. ASSUME NEW k \in 1 .. Len(t)
       PROVE  \E id \in DOMAIN u : more[id] < k /\ k <= more[id] + u[id].length
  <2>1. CASE k <= L
    <3>1. PICK id \in DOMAIN m : at[id] < k /\ k <= at[id] + m[id].length
      BY <1>1, <2>1 DEF Laid, L
    <3>2. id \in DOMAIN u /\ more[id] = at[id] /\ u[id] = m[id]
      BY <1>1, <1>2, <1>5
    <3> QED BY <3>1, <3>2
  <2>2. CASE ~ (k <= L)
    <3>1. N + 1 \in DOMAIN u /\ L < k /\ k <= L + x.length
      BY <1>1, <1>2, <1>3, <2>2 DEF L
    <3> QED BY <1>2, <1>5, <3>1
  <2> QED BY <2>1, <2>2
<1>11. Laid(t, more, u)
  BY <1>6, <1>8, <1>9, <1>10 DEF Laid
<1>12. Len(t) > 0
  BY <1>1, <1>3 DEF L
<1>13. t[1].id = IF Len(r) = 0 THEN Len(m) + 1 ELSE r[1].id
  <2>1. CASE Len(r) = 0
    <3>1. 1 \in 1 .. x.length /\ Len(r) + 1 = 1
      BY <1>3, <2>1
    <3>2. t[1] = Bytes(Len(m) + 1, x)[1]
      BY <3>1
    <3>3. Bytes(Len(m) + 1, x)[1].id = Len(m) + 1
      BY <3>1, BytesOf
    <3> QED BY <2>1, <3>2, <3>3
  <2>2. CASE Len(r) # 0
    <3>1. 1 \in 1 .. Len(r)
      BY <2>2
    <3> QED BY <2>2, <3>1
  <2> QED BY <2>1, <2>2
<1> QED BY <1>11, <1>12, <1>13 DEF u

Ascending(s) == \A i, j \in DOMAIN s : i < j => s[i] < s[j]

TurnInv ==
    peer = "up" =>
       /\ \E at : Laid(Remaining, at, sent)
       /\ Ascending(saved)
       /\ Passed \ (unsaved \cup Bars) = ToSet(saved)
       /\ unsaved \subseteq Passed

\* Passed are the messages gone.
PassedAreGone ==
    \A at : Laid(Remaining, at, sent) => Passed = Gone(at, sent) /\ Passed \subseteq DOMAIN sent

\* Wherever the messages are laid, the first byte tells which ones have passed.
LEMMA PassedGone == ClientTypes => PassedAreGone
<1> SUFFICES ASSUME ClientTypes, NEW at, Laid(Remaining, at, sent)
             PROVE  Passed = Gone(at, sent) /\ Passed \subseteq DOMAIN sent
  BY DEF PassedAreGone
<1>1. sent \in Seq(Message) /\ Remaining \in Seq(Sent) /\ Len(Remaining) \in Nat
  BY RemainingParts, LenProperties DEF ClientTypes, Message
<1>2. Remaining = <<>> <=> Len(Remaining) = 0
  BY <1>1, EmptySeq
<1> DEFINE r == Remaining
<1>3. /\ Len(r) = 0 => Gone(at, sent) = DOMAIN sent
      /\ Len(r) > 0 => Gone(at, sent) = 1 .. r[1].id - 1
  <2>1. Laid(r, at, sent) /\ Len(r) \in Nat
    BY <1>1
  <2> HIDE DEF r
  <2> QED BY <1>1, <2>1, LaidFirst
<1>4. Passed = Gone(at, sent)
  <2>1. Len(r) = 0 \/ Len(r) > 0
    BY <1>1
  <2> QED BY <1>2, <1>3, <2>1 DEF Passed
<1> QED BY <1>4 DEF Gone

\* A message that is sent has not passed, and goes behind those that have not.
LEMMA SendInTurn ==
    ASSUME ClientTypes, TurnInv, CameraSends
    PROVE  TurnInv'
<1>1. PICK m \in Message :
          sent' = Append(sent, m) /\ Send(Bytes(Len(sent) + 1, m))
  BY JsonAssumption DEF CameraSends, Message
<1>2. /\ peer = "up" /\ peer' = "up" /\ wire' = wire \o Bytes(Len(sent) + 1, m)
      /\ mDataBuffer' = mDataBuffer /\ buffer' = buffer /\ saved' = saved /\ unsaved' = unsaved
  BY <1>1 DEF CameraSends, Send
<1> DEFINE b == Bytes(Len(sent) + 1, m)
           R == Received
           r == Remaining
           t == Remaining'
<1>3. /\ sent \in Seq(Message) /\ Len(sent) \in Nat /\ DOMAIN sent = 1 .. Len(sent)
      /\ DOMAIN sent' = 1 .. Len(sent) + 1 /\ sent'[Len(sent) + 1] = m
      /\ \A id \in 1 .. Len(sent) : sent'[id] = sent[id]
  <2>1. sent \in Seq(Message)
    BY DEF ClientTypes, Message
  <2>2. /\ sent' \in Seq(Message) /\ Len(sent') = Len(sent) + 1 /\ sent'[Len(sent) + 1] = m
        /\ \A id \in 1 .. Len(sent) : sent'[id] = sent[id]
    BY <1>1, <2>1, AppendProperties
  <2> QED BY <2>1, <2>2, LenProperties
<1>4. b \in Seq(Sent') /\ Len(b) = m.length /\ Sent \subseteq Sent'
  BY <1>1, NewMessage DEF Message
<1>5. wire \in Seq(Sent') /\ R \in Seq(Sent') /\ r = R \o wire
  BY <1>4, ReceivedTypes, RemainingParts, SeqMonotonic DEF ClientTypes
<1>6. t = r \o b
  <2>1. t = R \o (wire \o b)
    BY <1>2 DEF Remaining, Received
  <2> HIDE DEF R, b, r, t
  <2> QED BY <1>4, <1>5, <2>1
<1>7. r \in Seq(Sent') /\ Len(r) \in Nat
  BY <1>5, ConcatProperties, LenProperties
<1> HIDE DEF r, t, b
<1>8. /\ t \in Seq(Sent') /\ Len(t) = Len(r) + m.length
      /\ \A k \in 1 .. Len(r) : t[k] = r[k]
      /\ \A n \in 1 .. m.length : t[Len(r) + n] = b[n]
  <2>1. m.length \in Nat
    BY BytesOf
  <2>2. /\ r \o b \in Seq(Sent') /\ Len(r \o b) = Len(r) + m.length
        /\ \A k \in 1 .. Len(r) + m.length :
              (r \o b)[k] = IF k <= Len(r) THEN r[k] ELSE b[k - Len(r)]
    BY <1>4, <1>7, ConcatProperties
  <2>3. ASSUME NEW n \in 1 .. m.length PROVE t[Len(r) + n] = b[n]
    <3>1. /\ Len(r) + n \in 1 .. Len(r) + m.length /\ ~ (Len(r) + n <= Len(r))
          /\ (Len(r) + n) - Len(r) = n
      BY <1>7, <2>1
    <3> QED BY <1>6, <2>2, <3>1
  <2> QED BY <1>6, <1>7, <2>1, <2>2, <2>3
<1>9. PICK at : Laid(r, at, sent)
  BY <1>2 DEF TurnInv, r
<1>10. /\ \E more : Laid(t, more, Append(sent, m))
       /\ Len(t) > 0
       /\ t[1].id = IF Len(r) = 0 THEN Len(sent) + 1 ELSE r[1].id
  <2>1. \A n \in 1 .. m.length : t[Len(r) + n] = Bytes(Len(sent) + 1, m)[n]
    BY <1>8 DEF b
  <2> QED BY <1>3, <1>7, <1>8, <1>9, <2>1, LaidSend
<1>11. Passed' = Passed
  <2>1. Passed' = 1 .. t[1].id - 1
    <3>1. t # <<>>
      BY <1>8, <1>10, EmptySeq
    <3> QED BY <3>1 DEF Passed, t
  <2>2. CASE Len(r) = 0
    <3>1. r = <<>>
      BY <1>7, <2>2, EmptySeq
    <3>2. Passed = 1 .. Len(sent)
      BY <1>3, <3>1 DEF Passed, r
    <3>3. 1 .. (Len(sent) + 1) - 1 = 1 .. Len(sent)
      BY <1>3
    <3> QED BY <1>10, <2>1, <2>2, <3>2, <3>3
  <2>3. CASE Len(r) # 0
    <3>1. r # <<>>
      BY <2>3, EmptySeq
    <3>2. Passed = 1 .. r[1].id - 1
      BY <3>1 DEF Passed, r
    <3> QED BY <1>10, <2>1, <2>3, <3>2
  <2> QED BY <2>2, <2>3
<1>12. Passed \subseteq 1 .. Len(sent)
  BY <1>3, <1>9, PassedGone DEF PassedAreGone, r
<1>13. \A id \in 1 .. Len(sent) : id \in Bars' <=> id \in Bars
  BY <1>3 DEF Bars
<1>14. Passed' \ (unsaved' \cup Bars') = Passed \ (unsaved \cup Bars)
  BY <1>2, <1>11, <1>12, <1>13
<1> QED BY <1>1, <1>2, <1>10, <1>11, <1>14 DEF TurnInv, t

\* The bytes of a message are a sequence.
LEMMA BytesType ==
    ASSUME NEW id, NEW m \in Message
    PROVE  \E S : Bytes(id, m) \in Seq(S) /\ Len(Bytes(id, m)) = m.length
<1> DEFINE S == [id : {id}, delimiter : BOOLEAN]
           b == [k \in 1 .. m.length |-> [id |-> id, delimiter |-> k \in {m.bar, m.length}]]
<1>1. \A k \in 1 .. m.length : [id |-> id, delimiter |-> k \in {m.bar, m.length}] \in S
  OBVIOUS
<1>2. b \in [1 .. m.length -> S] /\ m.length \in Nat
  BY <1>1, BytesOf
<1> HIDE DEF S, b
<1>3. b \in Seq(S) /\ Len(b) = m.length
  BY <1>2, FunctionIsSeq
<1> QED BY <1>3 DEF Bytes, b

\* The text that is taken out parses if its message has no bar, and has its number.
LEMMA TextParses ==
    ASSUME ClientTypes, NEW at, Laid(Remaining, at, sent), NEW p \in 1 .. Len(Received),
           NEW f, f = Remaining[1].id, f \in DOMAIN sent, p = Position(Received),
           sent[f].bar = 0 => at[f] = 0 /\ p = sent[f].length
    PROVE  /\ Parses(Text(Received)) <=> sent[f].bar = 0
           /\ Parses(Text(Received)) => Text(Received)[1].id = f
<1> DEFINE R == Received
           x == Text(R)
           m == sent[f]
           c == SubSeq(Bytes(f, m), 1, m.length - 1)
<1>1. R \in Seq(Sent) /\ Len(R) \in Nat /\ \A i \in 1 .. Len(R) : R[i] \in Sent
  BY ReceivedTypes, LenProperties, ElementOfSeq
<1>2. m \in Message
  BY ElementOfSeq, LenProperties DEF ClientTypes, Message
<1>3. m.length \in Nat /\ m.length >= 2
  BY <1>2, BytesOf
<1>4. p \in Nat /\ p >= 1 /\ p <= Len(R)
  BY <1>1
<1>5. x \in Seq(Sent) /\ Len(x) = p - 1 /\ \A k \in 1 .. p - 1 : x[k] = R[k]
  <2>1. x = SubSeq(R, 1, p - 1)
    BY DEF Text
  <2> HIDE DEF R, x
  <2>2. p - 1 \in Int /\ \A i \in 1 .. p - 1 : R[i] \in Sent
    BY <1>1, <1>4
  <2>3. /\ SubSeq(R, 1, p - 1) \in Seq(Sent)
        /\ Len(SubSeq(R, 1, p - 1)) = IF 1 <= p - 1 THEN (p - 1) - 1 + 1 ELSE 0
        /\ \A i \in 1 .. (p - 1) - 1 + 1 : SubSeq(R, 1, p - 1)[i] = R[1 + i - 1]
    BY <2>2, SubSeqProperties
  <2>4. Len(x) = p - 1
    BY <1>4, <2>1, <2>3
  <2>5. ASSUME NEW k \in 1 .. p - 1 PROVE x[k] = R[k]
    <3>1. k \in 1 .. (p - 1) - 1 + 1 /\ 1 + k - 1 = k
      BY <1>4
    <3> QED BY <2>1, <2>3, <3>1
  <2> QED BY <2>1, <2>3, <2>4, <2>5
<1>6. \A k \in 1 .. p - 1 : x[k] = Remaining[k]
  <2>1. \A k \in 1 .. Len(R) : Remaining[k] = R[k]
    BY RemainingParts
  <2> HIDE DEF R, x
  <2> QED BY <1>1, <1>4, <1>5, <2>1
<1> HIDE DEF R, x, m, c
<1>7. ASSUME x # <<>> PROVE x[1].id = f
  <2>1. 1 \in 1 .. p - 1
    BY <1>4, <1>5, <1>7, EmptySeq
  <2> QED BY <1>6, <2>1
<1>8. ASSUME m.bar = 0 PROVE x # <<>> /\ x = c
  <2>1. at[f] = 0 /\ p = m.length
    BY <1>8 DEF m
  <2>2. x # <<>>
    BY <1>3, <1>5, <2>1, EmptySeq
  <2>3. PICK S : Bytes(f, m) \in Seq(S) /\ Len(Bytes(f, m)) = m.length
    BY <1>2, BytesType
  <2> DEFINE b == Bytes(f, m)
             n == m.length - 1
  <2>4. b \in Seq(S) /\ \A i \in 1 .. m.length : b[i] \in S
    BY <2>3, ElementOfSeq
  <2>5. n \in Nat /\ 1 <= n
    BY <1>3
  <2>6. \A i \in 1 .. n : b[i] \in S
    BY <1>3, <2>4
  <2>7. \A k \in 1 .. n : x[k] = b[k]
    <3> TAKE k \in 1 .. n
    <3>1. k \in 1 .. p - 1 /\ k \in 1 .. m.length /\ at[f] + k = k /\ at[f] + k >= 1
      BY <1>3, <2>1
    <3>2. Remaining[at[f] + k] = Bytes(f, m)[k]
      BY <3>1 DEF Laid, m
    <3> QED BY <1>6, <3>1, <3>2
  <2>8. c = SubSeq(b, 1, n)
    BY DEF c
  <2>9. Len(x) = n
    BY <1>5, <2>1
  <2> HIDE DEF b, n
  <2>10. /\ c \in Seq(S)
         /\ Len(c) = IF 1 <= n THEN n - 1 + 1 ELSE 0
         /\ \A i \in 1 .. n - 1 + 1 : c[i] = b[1 + i - 1]
    BY <2>5, <2>6, <2>8, SubSeqProperties
  <2>11. ASSUME NEW k \in 1 .. n PROVE c[k] = x[k]
    <3>1. k \in 1 .. n - 1 + 1 /\ 1 + k - 1 = k
      BY <2>5
    <3> QED BY <2>7, <2>10, <3>1
  <2>12. Len(c) = n
    BY <2>5, <2>10
  <2>13. x = c
    BY <1>5, <2>9, <2>10, <2>11, <2>12, SeqEqual
  <2> QED BY <2>2, <2>13
<1>9. Parses(x) <=> /\ x # <<>>
                    /\ sent[x[1].id].bar = 0
                    /\ x = SubSeq(Bytes(x[1].id, sent[x[1].id]), 1, sent[x[1].id].length - 1)
  BY DEF Parses
<1>10. Parses(x) <=> m.bar = 0
  <2>1. CASE m.bar = 0
    <3>1. x # <<>> /\ x[1].id = f /\ x = c
      BY <1>7, <1>8, <2>1
    <3> QED BY <1>9, <2>1, <3>1, Zenon DEF m, c
  <2>2. CASE m.bar # 0
    BY <1>7, <1>9, <2>2 DEF m
  <2> QED BY <2>1, <2>2
<1>11. Parses(x) => x[1].id = f
  BY <1>7, <1>9
<1> QED BY <1>10, <1>11 DEF x, R, m

\* A message that is saved comes behind those saved before.
LEMMA AppendAscends ==
    ASSUME NEW n \in Nat, NEW s \in Seq(1 .. n), Ascending(s), NEW f \in 1 .. n,
           \A x \in ToSet(s) : x < f
    PROVE  Ascending(Append(s, f)) /\ ToSet(Append(s, f)) = ToSet(s) \cup {f}
<1> DEFINE S == 1 .. n
           t == Append(s, f)
           N == Len(s)
<1>1. /\ N \in Nat /\ t \in Seq(S) /\ Len(t) = N + 1 /\ t[N + 1] = f
      /\ \A i \in 1 .. N : t[i] = s[i]
  <2> HIDE DEF S
  <2>1. s \in Seq(S) /\ f \in S
    BY DEF S
  <2> QED BY <2>1, AppendProperties, LenProperties
<1>2. DOMAIN s = 1 .. N /\ DOMAIN t = 1 .. N + 1
  BY <1>1, LenProperties
<1> HIDE DEF t, S, N
<1>3. \A i \in 1 .. N : s[i] < f
  BY <1>2 DEF ToSet
<1>4. Ascending(t)
  <2> SUFFICES ASSUME NEW i \in 1 .. N + 1, NEW j \in 1 .. N + 1, i < j PROVE t[i] < t[j]
    BY <1>2 DEF Ascending
  <2>1. i \in 1 .. N
    BY <1>1
  <2>2. CASE j \in 1 .. N
    <3>1. s[i] < s[j]
      BY <1>2, <2>1, <2>2 DEF Ascending
    <3> QED BY <1>1, <2>1, <2>2, <3>1
  <2>3. CASE j = N + 1
    BY <1>1, <1>3, <2>1, <2>3
  <2> QED BY <1>1, <2>2, <2>3
<1>5. ToSet(t) = ToSet(s) \cup {f}
  <2>1. \A x : x \in ToSet(t) <=> \E i \in 1 .. N + 1 : x = t[i]
    BY <1>2 DEF ToSet
  <2>2. \A x : x \in ToSet(s) <=> \E i \in 1 .. N : x = s[i]
    BY <1>2 DEF ToSet
  <2>3. \A i \in 1 .. N + 1 : i \in 1 .. N \/ i = N + 1
    BY <1>1
  <2>4. N + 1 \in 1 .. N + 1 /\ \A i \in 1 .. N : i \in 1 .. N + 1
    BY <1>1
  <2> QED BY <1>1, <2>1, <2>2, <2>3, <2>4
<1> QED BY <1>4, <1>5 DEF t

\* A call of handleData takes the first message out, in its turn.
LEMMA HandleInTurn ==
    ASSUME ClientTypes, TurnInv, peer = "up",
           Incomplete \/ ParseFails \/ SaveMessage \/ SaveFails
    PROVE  TurnInv'
<1> DEFINE R == Received
           r == Remaining
           t == Remaining'
           p == Position(R)
           f == r[1].id
<1>1. HandleBlock /\ sent' = sent /\ peer' = peer /\ Bars' = Bars
  BY DEF Incomplete, ParseFails, SaveMessage, SaveFails, HandleBlock, Bars
<1>2. /\ \E at : Laid(Remaining, at, sent)
      /\ Ascending(saved)
      /\ Passed \ (unsaved \cup Bars) = ToSet(saved)
      /\ unsaved \subseteq Passed
  BY DEF TurnInv
<1>3. CASE Incomplete
  <2>1. mDataBuffer' = R /\ buffer' = <<>> /\ wire' = wire /\ saved' = saved /\ unsaved' = unsaved
    BY <1>3 DEF Incomplete, HandleBlock
  <2>2. R \in Seq(Sent) /\ r = R \o wire
    BY ReceivedTypes, RemainingParts
  <2>3. t = r
    <3>1. t = (R \o <<>>) \o wire
      BY <2>1 DEF Remaining
    <3>2. R \o <<>> = R
      BY <2>2, ConcatEmptySeq
    <3> QED BY <2>2, <3>1, <3>2
  <2>4. Passed' = Passed
    BY <1>1, <2>3 DEF Passed
  <2> QED BY <1>1, <1>2, <2>1, <2>3, <2>4 DEF TurnInv
<1>4. CASE ~ Incomplete
  <2>1. HasDelimiter(R) /\ mDataBuffer' = Rest(R)
    BY <1>4 DEF ParseFails, SaveMessage, SaveFails
  <2>2. PICK at : Laid(r, at, sent)
    BY <1>2
  <2>3. /\ p \in 1 .. Len(R) /\ R[p].delimiter
        /\ \A i \in Delimiters(R) : p <= i
        /\ t \in Seq(Sent) /\ Len(t) = Len(r) - p
        /\ \A k \in 1 .. Len(t) : t[k] = r[p + k]
    BY <1>1, <2>1, CutKeepsRest
  <2>4. /\ R \in Seq(Sent) /\ Len(R) \in Nat /\ DOMAIN R = 1 .. Len(R)
        /\ r \in Seq(Sent) /\ Len(r) \in Nat /\ Len(R) <= Len(r)
        /\ \A i \in 1 .. Len(R) : r[i] = R[i]
    <3>1. R \in Seq(Sent) /\ Len(R) = Len(mDataBuffer) + Len(buffer)
      BY ReceivedTypes
    <3>2. Len(R) \in Nat /\ DOMAIN R = 1 .. Len(R)
      BY <3>1, LenProperties
    <3>3. /\ Len(r) = Len(mDataBuffer) + Len(buffer) + Len(wire)
          /\ Len(mDataBuffer) \in Nat /\ Len(buffer) \in Nat /\ Len(wire) \in Nat
          /\ r \in Seq(Sent) /\ \A i \in 1 .. Len(R) : r[i] = R[i]
      BY RemainingParts
    <3> QED BY <3>1, <3>2, <3>3
  <2> HIDE DEF p, f
  <2>5. Cut(r, p, f, t)
    <3> HIDE DEF R, r, t
    <3>1. p \in 1 .. Len(r) /\ r[p].delimiter
      BY <2>3, <2>4
    <3>2. ASSUME NEW k \in 1 .. p - 1 PROVE ~ r[k].delimiter
      <4>1. k \in 1 .. Len(R) /\ ~ (p <= k)
        BY <2>3, <2>4
      <4>2. k \notin Delimiters(R)
        BY <2>3, <4>1
      <4>3. ~ R[k].delimiter
        BY <2>4, <4>1, <4>2 DEF Delimiters
      <4> QED BY <2>4, <4>1, <4>3
    <3> QED BY <2>3, <2>4, <3>1, <3>2 DEF Cut, f
  <2>6. sent \in Seq(Message) /\ DOMAIN sent = 1 .. Len(sent) /\ Len(sent) \in Nat
    BY LenProperties DEF ClientTypes, Message
  <2>7. /\ f \in DOMAIN sent /\ Gone(at, sent) = 1 .. f - 1
        /\ sent[f].bar = 0 => at[f] = 0 /\ p = sent[f].length
        /\ \E rest : /\ Laid(t, rest, sent)
                     /\ \/ Gone(rest, sent) = Gone(at, sent) \cup {f}
                        \/ sent[f].bar > 0 /\ Gone(rest, sent) = Gone(at, sent)
    <3> HIDE DEF r, t
    <3> QED BY <2>2, <2>5, <2>6, LaidCut
  <2>8. PICK rest : /\ Laid(t, rest, sent)
                    /\ \/ Gone(rest, sent) = Gone(at, sent) \cup {f}
                       \/ sent[f].bar > 0 /\ Gone(rest, sent) = Gone(at, sent)
    BY <2>7
  <2>9. /\ Parses(Text(R)) <=> sent[f].bar = 0
        /\ Parses(Text(R)) => Text(R)[1].id = f
    <3>1. f = Remaining[1].id /\ p = Position(Received) /\ p \in 1 .. Len(Received)
      BY <2>3 DEF f, p
    <3> QED BY <2>2, <2>7, <3>1, TextParses
  <2>10. Passed = 1 .. f - 1
    BY <2>2, <2>7, PassedGone DEF PassedAreGone
  <2>11. Passed' = Gone(rest, sent)
    <3>1. ClientTypes'
      BY HandleTypes
    <3>2. (ClientTypes => PassedAreGone)'
      BY PassedGone, PTL
    <3>3. Laid(Remaining', rest, sent')
      BY <1>1, <2>8
    <3> QED BY <1>1, <3>1, <3>2, <3>3 DEF PassedAreGone
  <2>12. Passed' = Passed \cup {f} \/ (sent[f].bar > 0 /\ Passed' = Passed)
    BY <2>2, <2>7, <2>8, <2>10, <2>11
  <2>13. f \in Nat /\ f \notin Passed /\ f \notin unsaved /\ (f \in Bars <=> sent[f].bar > 0)
    BY <1>2, <2>6, <2>7, <2>10 DEF Bars
  <2>14. sent[f].bar \in Nat
    <3>1. sent[f] \in Message
      BY <2>6, <2>7, ElementOfSeq
    <3> QED BY <3>1, BytesOf
  <2> HIDE DEF r, t, R
  <2>15. CASE ParseFails
    <3>1. f \in Bars /\ saved' = saved /\ unsaved' = unsaved
      BY <2>9, <2>13, <2>14, <2>15 DEF ParseFails, R
    <3>2. Passed' \ (unsaved \cup Bars) = Passed \ (unsaved \cup Bars)
      BY <2>12, <3>1
    <3> QED BY <1>1, <1>2, <2>8, <2>12, <3>1, <3>2 DEF TurnInv, t
  <2>16. CASE SaveMessage
    <3>1. sent[f].bar = 0 /\ saved' = Append(saved, f) /\ unsaved' = unsaved
      BY <2>9, <2>16 DEF SaveMessage, R
    <3>2. Passed' = Passed \cup {f} /\ f \notin Bars
      BY <2>12, <2>13, <3>1
    <3>3. ToSet(saved) \subseteq 1 .. f - 1
      BY <1>2, <2>10
    <3>4. Ascending(saved') /\ ToSet(saved') = ToSet(saved) \cup {f}
      <4> DEFINE n == Len(sent)
      <4>1. n \in Nat /\ saved \in Seq(1 .. n) /\ f \in 1 .. n
        BY <2>6, <2>7 DEF ClientTypes
      <4>2. \A x \in ToSet(saved) : x < f
        BY <2>13, <3>3
      <4> HIDE DEF n
      <4> QED BY <1>2, <3>1, <4>1, <4>2, AppendAscends
    <3>5. Passed' \ (unsaved \cup Bars) = (Passed \ (unsaved \cup Bars)) \cup {f}
      BY <2>13, <3>2
    <3> QED BY <1>1, <1>2, <2>8, <3>1, <3>2, <3>4, <3>5 DEF TurnInv, t
  <2>17. CASE SaveFails
    <3>1. sent[f].bar = 0 /\ saved' = saved /\ unsaved' = unsaved \cup {f}
      BY <2>9, <2>17 DEF SaveFails, R
    <3>2. Passed' = Passed \cup {f}
      BY <2>12, <3>1
    <3>3. Passed' \ (unsaved' \cup Bars) = Passed \ (unsaved \cup Bars)
      BY <2>13, <3>1, <3>2
    <3> QED BY <1>1, <1>2, <2>8, <3>1, <3>2, <3>3 DEF TurnInv, t
  <2> QED BY <1>4, <2>15, <2>16, <2>17
<1> QED BY <1>3, <1>4

\* Every step keeps the messages in their turn.
LEMMA StepTurn == ClientTypes /\ TurnInv /\ [Next]_vars => TurnInv'
<1> SUFFICES ASSUME ClientTypes, TurnInv, [Next]_vars, peer' = "up"
             PROVE  TurnInv'
  BY DEF TurnInv
<1>1. CASE CameraSends
  BY <1>1, SendInTurn
<1>2. CASE Incomplete \/ ParseFails \/ SaveMessage \/ SaveFails
  <2>1. peer = "up"
    BY <1>2 DEF Incomplete, ParseFails, SaveMessage, SaveFails, HandleBlock
  <2> QED BY <1>2, <2>1, HandleInTurn
<1>3. ASSUME Remaining' = Remaining, UNCHANGED <<peer, sent, saved, unsaved>> PROVE TurnInv'
  BY <1>3 DEF TurnInv, Passed, Bars
<1>4. CASE ReadBlock
  BY <1>3, <1>4, ReadKeepsStream DEF ReadBlock, SslRead, own
<1>5. CASE (LoseConnection /\ UNCHANGED own) \/ ReceiveEnds \/ ReceiveFails
  BY <1>5 DEF LoseConnection, ReceiveEnds, ReceiveFails, ReadsEnd, ReadsError
<1>6. CASE (Connect("receive") \/ ConnectFails) /\ UNCHANGED own
  BY <1>3, <1>6 DEF Connect, ConnectFails, own, Remaining
<1>7. CASE UNCHANGED vars
  BY <1>3, <1>7 DEF vars, connection, own, Remaining
<1> QED BY <1>1, <1>2, <1>4, <1>5, <1>6, <1>7 DEF Next, Client

\* The client starts with nothing sent and nothing saved.
LEMMA InitTurn == Init => TurnInv
<1> SUFFICES ASSUME Init PROVE TurnInv
  OBVIOUS
<1>1. sent = <<>> /\ saved = <<>> /\ unsaved = {} /\ Remaining = <<>>
  BY ConcatEmptySeq, EmptySeq DEF Init, ConnectionInit, Remaining
<1>2. Len(<<>>) = 0 /\ DOMAIN <<>> = {}
  BY EmptySeq
<1>3. Laid(Remaining, [id \in {} |-> 0], sent)
  BY <1>1, <1>2 DEF Laid
<1>4. Passed = {} /\ ToSet(saved) = {} /\ Ascending(saved)
  BY <1>1, <1>2 DEF Passed, ToSet, Ascending
<1> QED BY <1>1, <1>3, <1>4 DEF TurnInv

\* While the connection lasts, however the stream is cut into blocks and wherever a
\* message holds a '|', the messages are saved in their order, each one that has
\* passed, but those that the store refused and those with a '|' in their text: no
\* other is lost and none is saved twice.
THEOREM MessagesInTheirTurn == Spec => []EachInItsTurn
<1>1. ClientTypes /\ TurnInv => EachInItsTurn
  BY DEF TurnInv, EachInItsTurn, Ascending
<1> QED BY <1>1, InitTypes, StepTypes, InitTurn, StepTurn, PTL DEF Spec
=============================================================================
