---------------------------- MODULE StreamServer ----------------------------
(***************************************************************************)
(* The viewer's two servers: common/tcp/server/BaseServer.cpp with          *)
(* viewer/json/JsonServer.cpp or viewer/video/VideoServer.cpp.  A server    *)
(* takes one client after the other from its accept queue, and writes to it *)
(* what GetNextData returns until a write fails.                            *)
(*                                                                         *)
(* The store is what StorageManager finds of it: the items in order, never   *)
(* the newest; and, once the course is disturbed, any item, bytes that are   *)
(* no item's, or an exception.  The clients, the kernel and OpenSSL are      *)
(* external.                                                               *)
(***************************************************************************)
EXTENDS FrameCodec, FiniteSets

CONSTANTS
    Clients,
    StoredGops,     \* the GOPs of a video store, in the order they are saved
    Escaped,        \* the items of a json store that have a '|' in a string
    BACK_LOG,       \* what listen is given: one client more can wait
    MAX_ITEMS,      \* bound on the items published
    MAX_SESSIONS,   \* bound on the clients accepted
    MAX_MISREADS    \* bound on what GetNextData returns in place of the next item

\* What VideoClient saves: GOPs, each frame with the body its header announces.
ASSUME ServerAssumption ==
    /\ BACK_LOG \in Nat /\ MAX_ITEMS \in Nat \ {0} /\ MAX_SESSIONS \in Nat /\ MAX_MISREADS \in Nat
    /\ Escaped \subseteq 1 .. MAX_ITEMS
    /\ StoredGops \in [1 .. MAX_ITEMS -> Seq(Frame)]
    /\ \A i \in 1 .. MAX_ITEMS :
          /\ Len(StoredGops[i]) > 0 /\ IsGop(StoredGops[i])
          /\ \A k \in DOMAIN StoredGops[i] :
                StoredGops[i][k].header.bodySize = Len(StoredGops[i][k].body)

VARIABLES
    kind,        \* which server this is: "json" or "video"
    pc,          \* "setup", "accept", "handshake", "fetch", "write", "shutdown",
                 \* "deaf" (it has no socket and spins in accept), "dead", or "threw"
                 \* (dead of an exception of GetNextData)
    queue,       \* the accept queue
    client,      \* the client accepted last
    link,        \* each client: "away", "waiting", "served" or "gone"
    reset,       \* of a client that has gone: "none", "asked" (something was written
                 \* to its host) or "known" (the host has answered)
    published,   \* items in the store
    next,        \* mCurrentItemOffset: the item GetNextData returns next
    disturbed,   \* the store no longer keeps its promise (StorageManager says when)
    item,        \* the item being written, 0 for the json server's "null"
    buffers,     \* the bytes of each SSL_write it takes
    part,        \* writes of it done
    session,     \* history: clients accepted so far
    misread,     \* history: the sessions in which GetNextData returned something else
                 \* than the next item
    misreads,    \* how often it did
    received,    \* history: what the client of this session has received
    out,         \* history: the writes clients received: session, item and part
    before       \* history: of these, those received before this session

clientVars == <<queue, link, reset>>
store      == <<published, next, disturbed, misread, misreads>>
writing    == <<item, buffers, part>>
seen       == <<received, out, before>>
vars == <<kind, pc, client, clientVars, store, writing, session, seen>>

Init ==
    /\ kind \in {"json", "video"}
    /\ pc = "setup"
    /\ queue = <<>>
    /\ client \in Clients
    /\ link = [c \in Clients |-> "away"]
    /\ reset = "none"
    /\ published = 1 /\ next = 1
    /\ item = 0 /\ buffers = <<>> /\ part = 0
    /\ session = 0
    /\ disturbed = FALSE
    /\ misread = {} /\ misreads = 0
    /\ received = <<>>
    /\ out = <<>>
    /\ before = 0

Serving == pc \in {"fetch", "write"}
Ended   == pc \in {"dead", "threw"}

-----------------------------------------------------------------------------
(* The world. *)

Publish ==
    /\ published < MAX_ITEMS
    /\ published' = published + 1
    /\ UNCHANGED <<kind, pc, client, clientVars, next, disturbed, misread, misreads, writing,
                   session, seen>>

\* The writer comes round to the viewer, or one of the other things happens by
\* which StorageManager's viewer loses its course.
Disturb ==
    /\ ~ disturbed
    /\ disturbed' = TRUE
    /\ UNCHANGED <<kind, pc, client, clientVars, published, next, misread, misreads, writing,
                   session, seen>>

ClientConnects(c) ==
    /\ ~ Ended /\ pc \notin {"setup", "deaf"}
    /\ link[c] = "away"
    /\ Len(queue) <= BACK_LOG
    /\ queue' = Append(queue, c)
    /\ link' = [link EXCEPT ![c] = "waiting"]
    /\ UNCHANGED <<kind, pc, client, reset, store, writing, session, seen>>

\* A client goes, in the queue or while it is served: nobody tells the server.
ClientLeaves(c) ==
    /\ link[c] \in {"waiting", "served"}
    /\ link' = [link EXCEPT ![c] = "gone"]
    /\ UNCHANGED <<kind, pc, client, queue, reset, store, writing, session, seen>>

\* The host of a client that has gone answers what was written to it.
Reset ==
    /\ Serving \/ pc = "shutdown"
    /\ reset = "asked"
    /\ reset' = "known"
    /\ UNCHANGED <<kind, pc, client, queue, link, store, writing, session, seen>>

-----------------------------------------------------------------------------
(* Start: setupServer, accept, the handshake. *)

Setup ==
    /\ pc = "setup"
    /\ pc' = "accept"
    /\ UNCHANGED <<kind, client, clientVars, store, writing, session, seen>>

\* bind or listen fails: the socket is closed, and Start goes on to its loop,
\* where accept fails each time.
SetupFails ==
    /\ pc = "setup"
    /\ pc' = "deaf"
    /\ UNCHANGED <<kind, client, clientVars, store, writing, session, seen>>

\* accept returns the first client of the queue, even if it has gone.
Accept ==
    /\ pc = "accept"
    /\ queue # <<>>
    /\ session < MAX_SESSIONS
    /\ client' = Head(queue)
    /\ queue' = Tail(queue)
    /\ link' = [link EXCEPT ![client'] = IF @ = "waiting" THEN "served" ELSE @]
    /\ pc' = "handshake"
    /\ session' = session + 1
    /\ received' = <<>>
    /\ before' = Len(out)
    /\ UNCHANGED <<kind, reset, store, writing, out>>

\* mutant: goes on with the item the last client did not get.
HandshakeResumes ==
    /\ pc = "handshake"
    /\ link[client] = "served"
    /\ pc' = IF part < Len(buffers) THEN "write" ELSE "fetch"
    /\ UNCHANGED <<kind, client, clientVars, store, writing, session, seen>>

\* SSL_accept returns when the client has done its part, which it may never do.
\* handleData begins.
Handshake ==
    /\ pc = "handshake"
    /\ link[client] = "served"
    /\ pc' = "fetch"
    /\ item' = 0 /\ buffers' = <<>> /\ part' = 0
    /\ UNCHANGED <<kind, client, clientVars, store, session, seen>>

\* The handshake fails, for one because the client has gone: the server exits.
HandshakeFails ==
    /\ pc = "handshake"
    /\ pc' = "dead"
    /\ UNCHANGED <<kind, client, clientVars, store, writing, session, seen>>

-----------------------------------------------------------------------------
(* streaming: GetNextData. *)

\* mutant: the buffer is not cleared from one frame to the next.
FrameBuffersKept(gop) == [k \in DOMAIN gop |-> SerializeGop(SubSeq(gop, 1, k))]
\* The video server writes a frame at a time, each serialised on its own.
FrameBuffers(gop) == [k \in DOMAIN gop |-> SerializeFrame(gop[k])]

\* A byte of a json text is the item it belongs to, and whether it is a '|'.
Letter(i)    == [item |-> i, delimiter |-> FALSE]
Delimiter(i) == [item |-> i, delimiter |-> TRUE]

\* The text of an item, as dump() writes it: a '|' that was escaped in the text
\* that was parsed is written as it is.
Text(i) == IF i \in Escaped THEN <<Letter(i), Delimiter(i), Letter(i)>> ELSE <<Letter(i), Letter(i)>>

\* mutant: a message without its end.
MessageUndelimited(i) == Text(i)
Message(i) == Text(i) \o <<Delimiter(i)>>

\* GetNextData returns item i: bufs is to be written, and item n comes next.
Fetches(i, bufs, n) ==
    /\ pc = "fetch"
    /\ item' = i
    /\ next' = n
    /\ buffers' = bufs /\ part' = 0
    /\ pc' = IF bufs = <<>> THEN "fetch" ELSE "write"
    /\ UNCHANGED <<kind, client, clientVars, published, disturbed, session, seen>>

\* mutant: returns an item although none is new.
FetchesNextAlways(bufs) ==
    /\ Fetches(next, bufs, next + 1)
    /\ UNCHANGED <<misread, misreads>>

FetchesNext(bufs) ==
    /\ next < published
    /\ Fetches(next, bufs, next + 1)
    /\ UNCHANGED <<misread, misreads>>

GetNextJson == kind = "json" /\ FetchesNext(<<Message(next)>>)

NoHeader == [frameId |-> 0, bodySize |-> 0, gopStartFlag |-> 0, gopSize |-> 0]

\* A header that Frame's constructor left unset may hold anything; two cases
\* tell the outcomes apart.
UnsetHeaders ==
    {[NoHeader EXCEPT !.gopStartFlag = flag, !.gopSize = 1] : flag \in {0, TRUE_FLAG}}

\* The GOP that ItemFactory makes of the bytes of item i: the one that was saved.
GopRead == [i \in 1 .. MAX_ITEMS |-> FramesIn(SerializeGop(StoredGops[i]), NoHeader)]
ReadsBack == \A i \in 1 .. MAX_ITEMS : GopRead[i] = StoredGops[i]

GetNextGop ==
    /\ kind = "video"
    /\ FetchesNext(FrameBuffers(GopRead[next]))
    /\ IsGop(GopRead[next])

\* On a disturbed course GetNextData may come upon any item in the file, the one
\* that the header does not name yet included, and find it whole, cut, or with
\* its first n bytes those of another one.  The offset it computes then may be
\* that of an item of any age, the newest included, or of none: then it throws,
\* or comes upon an item again.
InFile == 1 .. IF published < MAX_ITEMS THEN published + 1 ELSE published
Overwritten(raw, other, n) == [k \in DOMAIN raw |-> IF k <= n THEN other[k] ELSE raw[k]]
MisreadBytes(raw, other) ==
    {SubSeq(raw, 1, n) : n \in 0 .. Len(raw)} \cup
    {Overwritten(raw, other, n) : n \in DOMAIN raw \cap DOMAIN other}

Misread(i, bufs) ==
    /\ disturbed
    /\ misreads < MAX_MISREADS
    /\ \E n \in 1 .. published : Fetches(i, bufs, n)
    /\ misread' = misread \cup {session}
    /\ misreads' = misreads + 1

\* Such bytes may be a text that parses.
MisreadJson ==
    /\ kind = "json"
    /\ \E i, j \in InFile : \E text \in MisreadBytes(Text(i), Text(j)) \ {<<>>} :
          Misread(i, <<text \o <<Delimiter(i)>>>>)

\* The GOPs that may come of such bytes without an exception.  Of no bytes at
\* all the constructor of GOP looks at a frame that is not there, and may
\* accept it.
MisreadGops ==
    [i \in 1 .. MAX_ITEMS |-> [j \in 1 .. MAX_ITEMS |->
        {gop \in {FramesIn(raw, unset) :
                    raw \in MisreadBytes(SerializeGop(StoredGops[i]), SerializeGop(StoredGops[j])),
                    unset \in UnsetHeaders} :
            gop # <<>> => IsGop(gop)}]]
MisreadGop ==
    /\ kind = "video"
    /\ \E i, j \in InFile : \E gop \in MisreadGops[i][j] : Misread(i, FrameBuffers(gop))

\* mutant: the json server sends nothing either.
NoNextDataSilent == FALSE /\ UNCHANGED vars

\* GetNextData has slept for a second and returns nothing: the json server sends
\* "null", the video server, with a GOP of no frames, nothing.
NoNextData ==
    /\ pc = "fetch"
    /\ next = published
    /\ kind = "json"
    /\ item' = 0 /\ buffers' = <<Message(0)>> /\ part' = 0
    /\ pc' = "write"
    /\ UNCHANGED <<kind, client, clientVars, store, session, seen>>

\* GetNextData throws: the server ends.
GetNextDataThrows ==
    /\ pc = "fetch"
    /\ disturbed
    /\ pc' = "threw"
    /\ UNCHANGED <<kind, client, clientVars, store, writing, session, seen>>

-----------------------------------------------------------------------------
(* streaming: SSL_write, and what Start does when it fails. *)

Written ==
    /\ part' = part + 1
    /\ pc' = IF part' = Len(buffers) THEN "fetch" ELSE "write"

\* What is recorded of the bytes a client receives: nothing of a "null" after a
\* "null", and nothing once something was misread for it.
Recorded(bytes) ==
    IF session \in misread THEN <<>>
    ELSE IF item = 0 /\ received # <<>> /\ received[Len(received)].item = 0 THEN received
    ELSE received \o bytes

\* SSL_write hands a frame, or a message, to a client that is there and reads.
Write ==
    /\ pc = "write"
    /\ link[client] = "served"
    /\ Written
    /\ received' = Recorded(buffers[part'])
    /\ out' = IF item = 0 THEN out
              ELSE Append(out, [session |-> session, item |-> item, part |-> part'])
    /\ UNCHANGED <<kind, client, clientVars, store, item, buffers, session, before>>

\* The client has gone, but SSL_write succeeds as long as nobody has said so.
WriteLost ==
    /\ pc = "write"
    /\ link[client] = "gone"
    /\ reset # "known"
    /\ Written
    /\ reset' = "asked"
    /\ UNCHANGED <<kind, client, queue, link, store, item, buffers, session, seen>>

\* SSL_write fails: handleData returns.
WriteFails ==
    /\ pc = "write"
    /\ link[client] = "gone"
    /\ pc' = "shutdown"
    /\ UNCHANGED <<kind, client, clientVars, store, writing, session, seen>>

\* SSL_write, or SSL_shutdown, on a connection that was reset raises SIGPIPE,
\* which nobody handles or ignores: the server ends.
WriteKills ==
    /\ \/ pc = "write" /\ link[client] = "gone" /\ reset = "known"
       \/ pc = "shutdown"
    /\ pc' = "dead"
    /\ UNCHANGED <<kind, client, clientVars, store, writing, session, seen>>

\* mutant: closes the listening socket instead of the client's.
ShutdownDeaf ==
    /\ pc = "shutdown"
    /\ link' = [link EXCEPT ![client] = "away"]
    /\ reset' = "none"
    /\ pc' = "deaf"
    /\ UNCHANGED <<kind, client, queue, store, writing, session, seen>>

\* SSL_shutdown, SSL_free, close: back to accept.
Shutdown ==
    /\ pc = "shutdown"
    /\ link' = [link EXCEPT ![client] = "away"]
    /\ reset' = "none"
    /\ pc' = "accept"
    /\ UNCHANGED <<kind, client, queue, store, writing, session, seen>>

Server ==
    \/ Setup \/ SetupFails
    \/ Accept \/ Handshake \/ HandshakeFails
    \/ GetNextJson \/ GetNextGop \/ MisreadJson \/ MisreadGop \/ NoNextData \/ GetNextDataThrows
    \/ Write \/ WriteLost \/ WriteFails \/ WriteKills \/ Shutdown

Next ==
    \/ Publish \/ Disturb
    \/ \E c \in Clients : ClientConnects(c) \/ ClientLeaves(c)
    \/ Reset
    \/ Server

Spec == Init /\ [][Next]_vars

\* The server's thread runs.  A client that is there need not do its part of the
\* handshake, nor read what is written to it.
WaitsForClient == pc \in {"handshake", "write"} /\ link[client] = "served"
FairSpec ==
    /\ Spec
    /\ WF_vars(~ WaitsForClient /\ Server)
    /\ WF_vars(Reset)

-----------------------------------------------------------------------------
(* Properties. *)

Letters == [item : 0 .. MAX_ITEMS, delimiter : BOOLEAN]
Bytes   == IF kind = "video" THEN Seq(Byte) ELSE Seq(Letters)
TypeOK ==
    /\ kind \in {"json", "video"}
    /\ pc \in {"setup", "accept", "handshake", "fetch", "write", "shutdown", "deaf", "dead", "threw"}
    /\ queue \in Seq(Clients) /\ Len(queue) <= BACK_LOG + 1
    /\ client \in Clients
    /\ link \in [Clients -> {"away", "waiting", "served", "gone"}]
    /\ reset \in {"none", "asked", "known"}
    /\ published \in 1 .. MAX_ITEMS /\ next \in 1 .. published
    /\ item \in 0 .. MAX_ITEMS
    /\ buffers \in Seq(Bytes) /\ part \in 0 .. Len(buffers)
    /\ session \in 0 .. MAX_SESSIONS
    /\ disturbed \in BOOLEAN
    /\ misread \subseteq 1 .. session /\ misreads \in 0 .. MAX_MISREADS
    /\ received \in Bytes
    /\ out \in Seq([session : 1 .. MAX_SESSIONS, item : 1 .. MAX_ITEMS, part : Nat \ {0}])
    /\ before \in 0 .. Len(out)

\* What one client receives begins with the first frame of an item and goes on
\* without a gap, whoever was served before and wherever that one went: a
\* client's decoder always has the start of the GOP.  An item that was misread
\* may leave a gap, or come again, in its session and in no other.  What the
\* clients of a server receive, taken together, is each item at most once and
\* in order, until one is misread.
Writes(i) == IF kind = "video" THEN Len(GopRead[i]) ELSE 1
Follows(v, w) ==
    \/ w.item = v.item /\ w.part = v.part + 1
    \/ w.item = v.item + 1 /\ w.part = 1 /\ v.part = Writes(v.item)
    \/ w.session \in misread /\ w.part = 1
Begins(v, w) ==
    /\ w.part = 1
    /\ (\A s \in misread : s > w.session) => v.item < w.item
EachClientSeesARun ==
    /\ out # <<>> => out[1].part = 1
    /\ \A k \in 2 .. Len(out) : IF out[k].session = out[k - 1].session
                                THEN Follows(out[k - 1], out[k])
                                ELSE Begins(out[k - 1], out[k])

\* The writes of the current session.
Current == SubSeq(out, before + 1, Len(out))

\* The bytes a client has received fall into the frames that were saved, one
\* after the other: the frames may be cut out of the stream by the sizes in
\* their headers alone, whatever the sessions before it did and whatever was
\* misread in those.
FramesWritten == [k \in DOMAIN Current |-> StoredGops[Current[k].item][Current[k].part]]
FramesArrive ==
    kind = "video" /\ session \notin misread => FramesIn(received, NoHeader) = FramesWritten

\* A client that cuts the stream at each '|', and takes what it finds if it is
\* an item, gets every item without a '|' in a string that was written in its
\* session, in order; an item with one costs itself only.
ItemTexts == {Text(i) : i \in 1 .. MAX_ITEMS}
Take(c, byte) ==
    IF ~ byte.delimiter THEN [texts |-> c.texts, rest |-> Append(c.rest, byte)]
    ELSE [texts |-> IF c.rest \in ItemTexts THEN Append(c.texts, c.rest) ELSE c.texts,
          rest  |-> <<>>]
Cut(bytes) ==
    LET cut[n \in 0 .. Len(bytes)] ==
          IF n = 0 THEN [texts |-> <<>>, rest |-> <<>>] ELSE Take(cut[n - 1], bytes[n])
    IN  cut[Len(bytes)]
TextsOf(writes) ==
    LET texts[n \in 0 .. Len(writes)] ==
          IF n = 0 THEN <<>>
          ELSE IF writes[n].item \in Escaped THEN texts[n - 1]
          ELSE Append(texts[n - 1], Text(writes[n].item))
    IN  texts[Len(writes)]
MessagesArrive ==
    kind = "json" /\ session \notin misread => Cut(received).texts = TextsOf(Current)

\* A client that goes is noticed: by the write of a message or of a "null" of the
\* json server, and by either server in the handshake.  The server goes on to the
\* next client, or ends: a second write may raise SIGPIPE (WriteKills), and a failed
\* handshake makes it exit.
LeaverNoticed ==
    (link[client] = "gone" /\ (pc = "handshake" \/ (kind = "json" /\ Serving)))
    ~> (pc = "accept" \/ Ended)

\* Nobody who waits for the json server waits for ever, unless a client that is
\* being served stays for ever or the server has died.
NobodyIsForgotten ==
    (\A c \in Clients : []<>(kind = "json" /\ link[c] # "served"))
    => \A c \in Clients :
         (link[c] = "waiting") ~> (link[c] # "waiting" \/ Ended \/ session = MAX_SESSIONS)
=============================================================================
