------------------------------ MODULE ViewerMC ------------------------------
(***************************************************************************)
(* A small store for the model checking of StreamServer: GOPs of one and of *)
(* two frames, with bodies of no byte or one, none alike.                   *)
(***************************************************************************)
EXTENDS StreamServer

FrameOf(id, size, flag, gopSize) ==
    [header |-> [frameId |-> id, bodySize |-> size, gopStartFlag |-> flag, gopSize |-> gopSize],
     body   |-> [k \in 1 .. size |-> (id + k) % BYTE]]

MCStoredGops ==
    << <<FrameOf(1, 1, 1, 2), FrameOf(2, 0, 0, 2)>>,
       <<FrameOf(3, 0, 1, 2), FrameOf(4, 1, 0, 2)>>,
       <<FrameOf(5, 1, 1, 1)>> >>
MCFirstGops == SubSeq(MCStoredGops, 1, MAX_ITEMS)

\* What SerializeGop writes, FramesIn takes apart into the same frames: every
\* GOP of one or two frames with bodies of up to two bytes.
SmallFrames(flag, gopSize) ==
    {[header |-> [frameId |-> id, bodySize |-> Len(body), gopStartFlag |-> flag, gopSize |-> gopSize],
      body |-> body] :
        id \in {0, BYTE - 1, BYTE, BYTE * BYTE - 1},
        body \in {<<>>} \cup {<<a>> : a \in Byte} \cup {<<a, b>> : a, b \in Byte}}
SmallGops ==
    {<<f>> : f \in SmallFrames(1, 1)} \cup
    {<<f, g>> : f \in SmallFrames(1, 2), g \in SmallFrames(0, 2)}
ASSUME RoundTrip == \A gop \in SmallGops : FramesIn(SerializeGop(gop), NoHeader) = gop
ASSUME StoreReadsBack == ReadsBack
=============================================================================
