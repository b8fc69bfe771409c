----------------------------- MODULE FrameCodec -----------------------------
(***************************************************************************)
(* Frames as bytes: common/frame (Header, Body, Frame, GOP) and the item    *)
(* of a GOP (storage/manager/database/H264Item.h).                         *)
(*                                                                         *)
(* A byte is one of BYTE values.  Of HeaderStruct the fields that decide    *)
(* how bytes are taken apart are kept: frameId and bodySize, of two bytes   *)
(* in place of four, and gopStartFlag and gopSize, of one byte as in the   *)
(* code.  The image's size and format, the timestamp and the padding are   *)
(* left out.                                                               *)
(***************************************************************************)
EXTENDS Integers, Sequences

CONSTANT BYTE   \* number of values of a byte

ASSUME ByteAssumption == BYTE \in Nat \ {0, 1}

Byte   == 0 .. BYTE - 1
UInt   == 0 .. BYTE * BYTE - 1
HEADER == 6                       \* sizeof(HeaderStruct)
TRUE_FLAG == 1                    \* GOP_START_FLAG::TRUE

HeaderStruct == [frameId : UInt, bodySize : UInt, gopStartFlag : Byte, gopSize : Byte]

\* A frame: mHeader and the bytes of mBody.
Frame == [header : HeaderStruct, body : Seq(Byte)]

-----------------------------------------------------------------------------
(* Header and Frame. *)

\* htonl, as the bytes it leaves in memory, and ntohl of such bytes.
Htonl(n)       == <<n \div BYTE, n % BYTE>>
Ntohl(b1, b2)  == BYTE * b1 + b2

SerializeHeader(h) ==
    Htonl(h.frameId) \o Htonl(h.bodySize) \o <<h.gopStartFlag, h.gopSize>>

DeserializeHeader(b) ==
    [frameId      |-> Ntohl(b[1], b[2]),
     bodySize     |-> Ntohl(b[3], b[4]),
     gopStartFlag |-> b[5],
     gopSize      |-> b[6]]

SerializeFrame(f) == SerializeHeader(f.header) \o f.body

\* The size of a frame is what its header says, whatever its body.
GetSize(f) == HEADER + f.header.bodySize

\* Frame::Deserialize.  A buffer too short for a header leaves the header as
\* the constructor left it, unset; one too short for the body leaves the body
\* empty, with a header that says otherwise.
DeserializeFrame(buffer, unset) ==
    IF Len(buffer) < HEADER THEN [header |-> unset, body |-> <<>>]
    ELSE LET header == DeserializeHeader(SubSeq(buffer, 1, HEADER))
             end    == HEADER + header.bodySize
         IN  [header |-> header,
              body   |-> IF Len(buffer) < end THEN <<>> ELSE SubSeq(buffer, HEADER + 1, end)]

-----------------------------------------------------------------------------
(* GOP and H264Item. *)

\* The constructor of GOP throws unless the frames are those the first one
\* announces.  Of no frames it reads a first one all the same.
IsGop(frames) ==
    /\ frames[1].header.gopStartFlag = TRUE_FLAG
    /\ frames[1].header.gopSize = Len(frames)

\* The item of a GOP: its frames one after the other.
SerializeGop(gop) ==
    LET data[n \in 0 .. Len(gop)] ==
          IF n = 0 THEN <<>> ELSE data[n - 1] \o SerializeFrame(gop[n])
    IN  data[Len(gop)]

\* H264Item::Deserialize up to the constructor of GOP: the frames found in
\* rawData, each at the offset where the size of the one before says.
FramesIn(rawData, unset) ==
    LET from[offset \in Nat] ==
          IF offset >= Len(rawData) THEN <<>>
          ELSE LET frame == DeserializeFrame(SubSeq(rawData, offset + 1, Len(rawData)), unset)
               IN  <<frame>> \o from[offset + GetSize(frame)]
    IN  from[0]
=============================================================================
