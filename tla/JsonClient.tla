----------------------------- MODULE JsonClient -----------------------------
(***************************************************************************)
(* The cctv json client (cctv/json/JsonClient.cpp): it reads the camera's  *)
(* stream in blocks of a fixed size, appends each block to mDataBuffer, and *)
(* takes at most one message out of it, up to the first delimiter.          *)
(*                                                                         *)
(* A unit of the stream is a byte: the number of its message, and whether  *)
(* it is a delimiter.  A message ends with one; its text may hold one too   *)
(* (a '|' in a string), and is then cut into two texts that do not parse.   *)
(***************************************************************************)
EXTENDS BaseClient, FiniteSets, SequencesExt

CONSTANTS
    BLOCK,           \* sizeof(buffer) in handleData
    Lengths,         \* lengths of a message, its delimiter included
    MAX_MESSAGES,    \* bound on the messages the camera sends
    MAX_BARS,        \* bound on the messages with a delimiter in their text
    MAX_SAVE_FAILS   \* bound on the failures of SaveData

ASSUME JsonAssumption ==
    /\ BLOCK \in Nat \ {0}
    /\ Lengths \subseteq Nat \ {0, 1}
    /\ MAX_MESSAGES \in Nat /\ MAX_BARS \in Nat /\ MAX_SAVE_FAILS \in Nat

VARIABLES
    mDataBuffer,   \* bytes received and not yet taken as a message
    sent,          \* history: the messages sent: length, place of a '|' in the text (0: none)
    saved,         \* history: the messages saved, by their numbers
    unsaved        \* history: the messages parsed whose SaveData threw

own  == <<mDataBuffer, sent, saved, unsaved>>
vars == <<connection, own>>

Init ==
    /\ ConnectionInit
    /\ mDataBuffer = <<>>
    /\ sent = <<>>
    /\ saved = <<>>
    /\ unsaved = {}

Bytes(id, m) == [k \in 1 .. m.length |-> [id |-> id, delimiter |-> k \in {m.bar, m.length}]]

Bars == {id \in DOMAIN sent : sent[id].bar > 0}

CameraSends ==
    /\ Len(sent) < MAX_MESSAGES
    /\ \E length \in Lengths : \E bar \in 0 .. length - 1 :
          LET message == [length |-> length, bar |-> bar]
          IN  /\ bar > 0 => Cardinality(Bars) < MAX_BARS
              /\ sent' = Append(sent, message)
              /\ Send(Bytes(Len(sent) + 1, message))
    /\ UNCHANGED <<mDataBuffer, saved, unsaved>>

-----------------------------------------------------------------------------
(* The client. *)

\* handleData waits for a whole block.
ReadBlock ==
    /\ pc = "receive"
    /\ SslRead(BLOCK)
    /\ UNCHANGED own

Received == mDataBuffer \o buffer

Delimiters(bytes) == {k \in DOMAIN bytes : bytes[k].delimiter}
HasDelimiter(bytes) == Delimiters(bytes) # {}
Position(bytes) == CHOOSE k \in Delimiters(bytes) : \A j \in Delimiters(bytes) : k <= j

\* The text before the first delimiter, and what is kept after it.
Text(bytes) == SubSeq(bytes, 1, Position(bytes) - 1)
RestWithDelimiter(bytes) == SubSeq(bytes, Position(bytes), Len(bytes))  \* mutant: erase(0, pos)
NoRest(bytes) == <<>>                                                  \* mutant: clear()
Rest(bytes) == SubSeq(bytes, Position(bytes) + 1, Len(bytes))

\* The text is that of one message, from its first byte to its last.
Parses(text) ==
    /\ text # <<>>
    /\ sent[text[1].id].bar = 0
    /\ text = SubSeq(Bytes(text[1].id, sent[text[1].id]), 1, sent[text[1].id].length - 1)

\* A call of handleData that has received a block.
HandleBlock ==
    /\ pc = "receive"
    /\ Len(buffer) = BLOCK
    /\ buffer' = <<>>
    /\ UNCHANGED <<mbClosed, pc, peer, wire, sent>>

\* receiveJson throws: no delimiter yet.  handleData catches it.
Incomplete ==
    /\ HandleBlock
    /\ ~ HasDelimiter(Received)
    /\ mDataBuffer' = Received
    /\ UNCHANGED <<saved, unsaved>>

\* receiveJson throws: the text does not parse.  It has been taken out.
ParseFails ==
    /\ HandleBlock
    /\ HasDelimiter(Received)
    /\ ~ Parses(Text(Received))
    /\ mDataBuffer' = Rest(Received)
    /\ UNCHANGED <<saved, unsaved>>

SaveMessage ==
    /\ HandleBlock
    /\ HasDelimiter(Received)
    /\ Parses(Text(Received))
    /\ mDataBuffer' = Rest(Received)
    /\ saved' = Append(saved, Text(Received)[1].id)
    /\ UNCHANGED unsaved

\* SaveData throws (StorageFile says when); handleData catches it as well.
SaveFails ==
    /\ HandleBlock
    /\ HasDelimiter(Received)
    /\ Parses(Text(Received))
    /\ Cardinality(unsaved) < MAX_SAVE_FAILS
    /\ mDataBuffer' = Rest(Received)
    /\ unsaved' = unsaved \cup {Text(Received)[1].id}
    /\ UNCHANGED saved

\* mutant: the end of the connection is not noted.
ReceiveEndsOpen ==
    /\ pc = "receive"
    /\ ReadsEnd(BLOCK)
    /\ buffer' = <<>>
    /\ UNCHANGED <<mbClosed, pc, peer, wire, own>>

\* receiveData returns 0: the block is dropped, and Start's loop ends.
ReceiveEnds ==
    /\ pc = "receive"
    /\ ReadsEnd(BLOCK)
    /\ mbClosed' = TRUE
    /\ pc' = "ended"
    /\ buffer' = <<>>
    /\ UNCHANGED <<peer, wire, own>>

\* receiveData returns -1: the block is dropped, and Start's loop goes on.
ReceiveFails ==
    /\ pc = "receive"
    /\ ReadsError(BLOCK)
    /\ buffer' = <<>>
    /\ UNCHANGED <<mbClosed, pc, peer, wire, own>>

Client ==
    \/ Connect("receive") /\ UNCHANGED own
    \/ ConnectFails /\ UNCHANGED own
    \/ ReadBlock
    \/ Incomplete \/ ParseFails \/ SaveMessage \/ SaveFails
    \/ ReceiveEnds \/ ReceiveFails

Next ==
    \/ CameraSends
    \/ LoseConnection /\ UNCHANGED own
    \/ Client

Spec     == Init /\ [][Next]_vars
FairSpec == Spec /\ WF_vars(Client)

-----------------------------------------------------------------------------
(* Properties. *)

Byte == [id : Nat \ {0}, delimiter : BOOLEAN]
TypeOK ==
    /\ mbClosed \in BOOLEAN
    /\ pc \in {"start", "receive", "ended", "died"}
    /\ peer \in {"up", "closed", "broken"}
    /\ buffer \in Seq(Byte) /\ Len(buffer) <= BLOCK
    /\ mDataBuffer \in Seq(Byte)
    /\ saved \in Seq(DOMAIN sent)
    /\ unsaved \subseteq DOMAIN sent

\* What is left in the client and on the wire, and the first message that has
\* not gone past the client completely.
Remaining == mDataBuffer \o buffer \o wire
Passed    == IF Remaining = <<>> THEN DOMAIN sent ELSE 1 .. Remaining[1].id - 1

\* However the stream is cut into blocks, nothing is lost or mixed up: while the
\* connection lasts, each message that was sent is saved, in its turn, or was
\* refused by the store, or has a '|' in its text, or is still on its way.  A
\* message with a '|' costs itself only.
EachInItsTurn ==
    peer = "up" =>
       /\ \A i, j \in DOMAIN saved : i < j => saved[i] < saved[j]
       /\ Passed \ (unsaved \cup Bars) = ToSet(saved)

\* Messages no shorter than a block do not pile up: when a block has been
\* handled, no complete message waits in mDataBuffer, so the store is behind
\* the camera by less than a message and a block.
LongMessages == Bars = {} /\ \A id \in DOMAIN sent : sent[id].length >= BLOCK
NoBacklog == LongMessages => ~ HasDelimiter(mDataBuffer)

\* When the camera closes, the client ends.
EndsOnClose == (peer = "closed" /\ ~ mbClosed) ~> pc = "ended"

\* A message waits in the client for the block it ends in to fill up, so it may
\* wait for the next message; but not longer, if messages are no shorter than
\* a block and the connection lasts.
SavedOnceFollowed == \A id \in 1 .. MAX_MESSAGES :
    (id \in DOMAIN sent /\ id + 1 \in DOMAIN sent /\ LongMessages)
    ~> (id \in ToSet(saved) \cup unsaved \/ peer # "up" \/ pc = "ended" \/ ~ LongMessages)
=============================================================================
