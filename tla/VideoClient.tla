---------------------------- MODULE VideoClient ----------------------------
(***************************************************************************)
(* The cctv video client (cctv/video/VideoClient.cpp): it reads frames off  *)
(* the camera's stream, puts them together to GOPs and saves each GOP as    *)
(* one item (SaveData, see StorageManager).                                 *)
(*                                                                         *)
(* A unit of the stream is a frame header or a part of a frame's body.  The *)
(* camera is external: it sends GOPs, each a first frame that carries the   *)
(* start flag and the number of frames, then the others; the client may     *)
(* connect in the middle of one.  The number of frames is one byte, which    *)
(* wraps for a GOP of BYTE frames or more.                                  *)
(***************************************************************************)
EXTENDS BaseClient, FiniteSets

CONSTANTS
    GopSizes,     \* numbers of frames of a GOP
    BodySizes,    \* sizes of a frame's body, in units
    BYTE,         \* number of values of a byte
    MAX_FRAMES    \* bound on the frames the camera sends

ASSUME VideoAssumption ==
    /\ GopSizes \subseteq Nat \ {0}
    /\ BodySizes \subseteq Nat
    /\ BYTE \in Nat \ {0}
    /\ MAX_FRAMES \in Nat

VARIABLES
    header,       \* the header of the frame being received
    frames,       \* the GOP being put together: its frames so far
    sent,         \* history: the frames the camera has sent, count being the frames
                  \* of the GOP
    left,         \* how many frames the camera still owes to its GOP
    saved         \* history: the GOPs saved

own  == <<header, frames>>
vars == <<connection, own, sent, left, saved>>

Headers == [start : BOOLEAN, count : GopSizes, bodySize : BodySizes]
NoFrame      == [id |-> 0, start |-> FALSE, gopSize |-> 0, bodySize |-> 0]

Init ==
    /\ ConnectionInit
    /\ header = NoFrame
    /\ frames = <<>>
    /\ sent = <<>>
    /\ left \in UNION {0 .. g - 1 : g \in GopSizes}
    /\ saved = <<>>

-----------------------------------------------------------------------------
(* The camera. *)

Units(id, h) ==
    [k \in 1 .. 1 + h.bodySize |->
        IF k = 1 THEN [id |-> id, start |-> h.start, gopSize |-> h.count % BYTE, bodySize |-> h.bodySize]
                 ELSE [NoFrame EXCEPT !.id = id]]

CameraSends ==
    /\ Len(sent) < MAX_FRAMES
    /\ \E h \in Headers :
          /\ h.start = (left = 0)
          /\ left' = (IF h.start THEN h.count ELSE left) - 1
          /\ sent' = Append(sent, h)
          /\ Send(Units(Len(sent) + 1, h))
    /\ UNCHANGED <<own, saved>>

-----------------------------------------------------------------------------
(* The client. *)

WholeGop(gop) == Len(gop) = gop[1].gopSize

\* mutant: one frame too few.
TakeFrameShort(h, got) ==
    LET frame == [id |-> h.id, start |-> h.start, gopSize |-> h.gopSize,
                  missing |-> h.bodySize - got]
    IN  /\ frames' = IF frames # <<>> \/ frame.start THEN Append(frames, frame) ELSE <<>>
        /\ pc' = IF frames' # <<>> /\ Len(frames') > frames'[1].gopSize THEN "save" ELSE "header"

\* The frame is taken into the GOP, or dropped outside one.  got units of its
\* body have been received.
TakeFrame(h, got) ==
    LET frame == [id |-> h.id, start |-> h.start, gopSize |-> h.gopSize,
                  missing |-> h.bodySize - got]
    IN  /\ frames' = IF frames # <<>> \/ frame.start THEN Append(frames, frame) ELSE <<>>
        /\ pc' = IF frames' # <<>> /\ Len(frames') >= frames'[1].gopSize THEN "save" ELSE "header"

Connected == Connect("header") /\ UNCHANGED <<own, sent, left, saved>>
NotConnected == ConnectFails /\ UNCHANGED <<own, sent, left, saved>>

\* receiveFrame has read a header, and the body if the frame has none.
ReceiveHeader ==
    /\ pc = "header"
    /\ wire # <<>>
    /\ header' = Head(wire)
    /\ wire' = Tail(wire)
    /\ IF header'.bodySize > 0 THEN pc' = "body" /\ UNCHANGED frames
                               ELSE TakeFrame(header', 0)
    /\ UNCHANGED <<mbClosed, peer, buffer, sent, left, saved>>

ReadBody ==
    /\ pc = "body"
    /\ SslRead(header.bodySize)
    /\ UNCHANGED <<own, sent, left, saved>>

\* mutant: what one SSL_read returned is taken for the whole body.
ReceiveBodyAtOnce ==
    /\ pc = "body"
    /\ buffer # <<>>
    /\ TakeFrame(header, header.bodySize)
    /\ buffer' = <<>>
    /\ UNCHANGED <<mbClosed, peer, wire, header, sent, left, saved>>

\* receiveData has returned the whole body.
ReceiveBody ==
    /\ pc = "body"
    /\ Len(buffer) = header.bodySize
    /\ TakeFrame(header, Len(buffer))
    /\ buffer' = <<>>
    /\ UNCHANGED <<mbClosed, peer, wire, header, sent, left, saved>>

\* The camera closes within a body: receiveData returns 0, which is not an
\* error for a body, and the frame is taken with what has been received.
BodyCut ==
    /\ pc = "body"
    /\ ReadsEnd(header.bodySize)
    /\ TakeFrame(header, Len(buffer))
    /\ mbClosed' = TRUE
    /\ buffer' = <<>>
    /\ UNCHANGED <<peer, wire, header, sent, left, saved>>

\* receiveFrame throws, and nothing catches it: at a header on the end of the
\* stream and on an error, at a body on an error only.
ReceiveThrows ==
    /\ \/ pc = "header" /\ (ReadsEnd(1) \/ ReadsError(1))
       \/ pc = "body" /\ ReadsError(header.bodySize)
    /\ mbClosed' = (mbClosed \/ peer = "closed")
    /\ pc' = "died"
    /\ UNCHANGED <<peer, wire, buffer, own, sent, left, saved>>

\* handleData: the GOP's constructor accepts the frames, and SaveData saves them.
SaveGop ==
    /\ pc = "save"
    /\ frames[1].start /\ WholeGop(frames)
    /\ saved' = Append(saved, frames)
    /\ frames' = <<>>
    /\ pc' = "header"
    /\ UNCHANGED <<mbClosed, peer, wire, buffer, header, sent, left>>

\* The GOP's constructor refuses the frames: the client ends.
GopRefused ==
    /\ pc = "save"
    /\ ~ (frames[1].start /\ WholeGop(frames))
    /\ pc' = "died"
    /\ UNCHANGED <<mbClosed, peer, wire, buffer, own, sent, left, saved>>

\* SaveData throws (StorageFile says when): the client ends.
SaveThrows ==
    /\ pc = "save"
    /\ frames[1].start /\ WholeGop(frames)
    /\ pc' = "died"
    /\ UNCHANGED <<mbClosed, peer, wire, buffer, own, sent, left, saved>>

Client ==
    \/ Connected \/ NotConnected
    \/ ReceiveHeader \/ ReadBody \/ ReceiveBody \/ BodyCut \/ ReceiveThrows
    \/ SaveGop \/ GopRefused \/ SaveThrows

Next ==
    \/ CameraSends
    \/ LoseConnection /\ UNCHANGED <<own, sent, left, saved>>
    \/ Client

Spec     == Init /\ [][Next]_vars
FairSpec == Spec /\ WF_vars(Client)

-----------------------------------------------------------------------------
(* Properties. *)

Frame == [id : Nat, start : BOOLEAN, gopSize : Nat, missing : Nat]
TypeOK ==
    /\ mbClosed \in BOOLEAN
    /\ pc \in {"start", "header", "body", "save", "ended", "died"}
    /\ peer \in {"up", "closed", "broken"}
    /\ Len(buffer) <= header.bodySize
    /\ frames \in Seq(Frame)
    /\ saved \in Seq(Seq(Frame))

\* The first frames of the GOPs sent, by their numbers.
Starts == {id \in DOMAIN sent : sent[id].start}

\* The k-th GOP that began after the client connected.
FirstOf(k) == CHOOSE id \in Starts : Cardinality({s \in Starts : s <= id}) = k

\* The GOPs saved are the GOPs sent, from the first that began after the client
\* connected, none left out: a frame is never mistaken for another, however the
\* stream is cut into pieces, and wherever in a GOP it begins.  Of a GOP too long
\* for its size to fit in a byte, as many frames are saved as the byte says.  All
\* frames are whole, but for the last frame of the last GOP if the camera has closed:
\* that body was cut, and is saved against the comment of line 76 of VideoClient.cpp.
SavedAsSent ==
    /\ Len(saved) <= Cardinality(Starts)
    /\ \A k \in DOMAIN saved :
          LET first == FirstOf(k)
          IN  /\ Len(saved[k]) = sent[first].count % BYTE
              /\ \A i \in DOMAIN saved[k] :
                    /\ saved[k][i].id = first + i - 1
                    /\ saved[k][i].missing > 0 => mbClosed /\ k = Len(saved) /\ i = Len(saved[k])

\* The client ends on a GOP its constructor refuses only if the GOP is too long
\* for its size to fit in a byte; it never puts another GOP together wrongly,
\* wherever in the stream it began.
RefusesOnlyLongGops ==
    pc = "save" /\ ~ WholeGop(frames) => sent[frames[1].id].count >= BYTE

\* A GOP that was sent completely is saved in the end, if the connection and
\* the store hold and no GOP is too long.
CompleteGop(k) ==
    /\ k <= Cardinality(Starts)
    /\ FirstOf(k) + sent[FirstOf(k)].count - 1 <= Len(sent)
SentIsSaved == \A k \in 1 .. MAX_FRAMES :
    CompleteGop(k) ~> (Len(saved) >= k \/ peer # "up" \/ pc \in {"died", "ended"})
=============================================================================
