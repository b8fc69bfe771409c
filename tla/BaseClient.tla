----------------------------- MODULE BaseClient -----------------------------
(***************************************************************************)
(* The connection of a cctv client to its camera                           *)
(* (common/tcp/client/BaseClient.cpp): connectToServer, receiveData, and   *)
(* the two ways it can end.  VideoClient and JsonClient extend it.         *)
(*                                                                         *)
(* The stream is a sequence of units (bytes, or frame headers and parts of *)
(* frame bodies: what the client at hand tells apart).  TLS and TCP are    *)
(* external: they deliver in order what the camera sent, in pieces of any  *)
(* size, until the connection ends with a tail of it undelivered.          *)
(***************************************************************************)
EXTENDS Naturals, Sequences

VARIABLES
    mbClosed,   \* the client's flag; its loop in Start runs while it is FALSE
    pc,         \* "start", what the client is at while connected, "ended" or "died"
    peer,       \* the camera's end: "up", "closed" (SSL_read: 0) or "broken" (SSL_read: -1)
    wire,       \* units sent and not yet read
    buffer      \* units received so far by the current call of receiveData

connection == <<mbClosed, pc, peer, wire, buffer>>

ConnectionInit ==
    /\ mbClosed = TRUE
    /\ pc = "start"
    /\ peer = "up"
    /\ wire = <<>>
    /\ buffer = <<>>

\* The socket is connected and the TLS handshake done: Start goes on at handler.
Connect(handler) ==
    /\ pc = "start"
    /\ mbClosed' = FALSE
    /\ pc' = handler
    /\ UNCHANGED <<peer, wire, buffer>>

\* socket() or connect() fails: Start returns.  A failed handshake exits.
ConnectFails ==
    /\ pc = "start"
    /\ pc' \in {"ended", "died"}
    /\ UNCHANGED <<mbClosed, peer, wire, buffer>>

\* The client is connected and running; what happens on a connection after it
\* has gone does not matter.
Reading == ~ mbClosed /\ pc # "died"

\* The camera sends.
Send(units) ==
    /\ peer = "up"
    /\ Reading
    /\ wire' = wire \o units
    /\ UNCHANGED <<mbClosed, pc, peer, buffer>>

\* The connection ends, by the camera's close or by a failure; what was on its
\* way is delivered up to some point only.
LoseConnection ==
    /\ peer = "up"
    /\ Reading
    /\ peer' \in {"closed", "broken"}
    /\ \E n \in 0 .. Len(wire) : wire' = SubSeq(wire, 1, n)
    /\ UNCHANGED <<mbClosed, pc, buffer>>

Smaller(m, n) == IF m < n THEN m ELSE n

\* mutant: asks for as much as there is, whatever it still wants.
SslReadAny(size) ==
    /\ Len(buffer) < size
    /\ \E n \in 1 .. Len(wire) :
          /\ buffer' = buffer \o SubSeq(wire, 1, n)
          /\ wire' = SubSeq(wire, n + 1, Len(wire))
    /\ UNCHANGED <<mbClosed, pc, peer>>

\* One turn of receiveData(size): SSL_read returns some of the bytes wanted.
SslRead(size) ==
    /\ Len(buffer) < size
    /\ \E n \in 1 .. Smaller(size - Len(buffer), Len(wire)) :
          /\ buffer' = buffer \o SubSeq(wire, 1, n)
          /\ wire' = SubSeq(wire, n + 1, Len(wire))
    /\ UNCHANGED <<mbClosed, pc, peer>>

\* receiveData(size) is about to return 0, or -1, for want of bytes.
ReadsEnd(size)   == Len(buffer) < size /\ wire = <<>> /\ peer = "closed"
ReadsError(size) == Len(buffer) < size /\ wire = <<>> /\ peer = "broken"
=============================================================================
