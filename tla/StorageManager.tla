--------------------------- MODULE StorageManager ---------------------------
(***************************************************************************)
(* The ring file shared by two processes: a cctv client that appends       *)
(* (SaveData, which is StorageFile's AppendItem) and a viewer server that   *)
(* reads with GetNextData (storage/manager/StorageManager.h).  Nothing      *)
(* locks the file: each access of one process may fall between any two of  *)
(* the other's.                                                            *)
(*                                                                         *)
(* GetNextData is one action per access to the file: the header, the       *)
(* item's header, the item's data, the item header again for the next      *)
(* offset.  An exception of any of them is rethrown and nothing above      *)
(* catches it, so it ends the viewer.                                      *)
(***************************************************************************)
EXTENDS StorageFile

CONSTANT MAX_OPENS   \* bound on the starts of the viewer

ASSUME OpensAssumption == MAX_OPENS \in Nat

VARIABLES
    mCurrentItemOffset, \* the offset of the next item to deliver
    viewHeader,         \* the viewer's mFileHeaderStruct, read again at each look
    rpc,                \* where the viewer is in GetNextData; "dead" after a throw
    readId,             \* the item whose header ReadItem found (0: none)
    readSize,           \* the size it read there
    opens,              \* starts of the viewer so far
    opened,             \* history: how many items the header had taken in at its start
    delivered,          \* history: items GetNextData returned since, 0 for no item
    disturbed           \* history: since its start the reading was disturbed

viewer  == <<mCurrentItemOffset, viewHeader, rpc, readId, readSize, opens, opened, delivered>>
allVars == <<vars, viewer, disturbed>>

SystemInit ==
    /\ Init
    /\ mCurrentItemOffset = INVALID_OFFSET
    /\ viewHeader = EmptyHeader
    /\ rpc = "down"
    /\ readId = 0 /\ readSize = 0
    /\ opens = 0
    /\ opened = 0
    /\ delivered = <<>>
    /\ disturbed = TRUE

\* mutant: the viewer starts at FirstItemOffset.
OpenAtFirst ==
    /\ rpc \in {"down", "dead"}
    /\ opens < MAX_OPENS
    /\ opens' = opens + 1
    /\ viewHeader' = fileHeader
    /\ mCurrentItemOffset' = fileHeader.FirstItemOffset
    /\ rpc' = "idle"
    /\ readId' = 0 /\ readSize' = 0
    /\ opened' = named
    /\ delivered' = <<>>

\* The constructor: the viewer starts at the newest item.
Open ==
    /\ rpc \in {"down", "dead"}
    /\ opens < MAX_OPENS
    /\ opens' = opens + 1
    /\ viewHeader' = fileHeader
    /\ mCurrentItemOffset' = fileHeader.LastItemOffset
    /\ rpc' = "idle"
    /\ readId' = 0 /\ readSize' = 0
    /\ opened' = named
    /\ delivered' = <<>>

\* mutant: reads the newest item too.
LookAlways ==
    /\ rpc = "idle"
    /\ viewHeader' = fileHeader
    /\ rpc' = "header"
    /\ UNCHANGED <<mCurrentItemOffset, readId, readSize, opens, opened, delivered>>

\* mutant: does not read the header again.
LookCached ==
    /\ rpc = "idle"
    /\ rpc' = IF mCurrentItemOffset # viewHeader.LastItemOffset THEN "header" ELSE "idle"
    /\ UNCHANGED <<mCurrentItemOffset, viewHeader, readId, readSize, opens, opened, delivered>>

\* GetNextData looks at the header: without a newer item it sleeps and returns.
Look ==
    /\ rpc = "idle"
    /\ viewHeader' = fileHeader
    /\ rpc' = IF mCurrentItemOffset # fileHeader.LastItemOffset THEN "header" ELSE "idle"
    /\ UNCHANGED <<mCurrentItemOffset, readId, readSize, opens, opened, delivered>>

\* Where ReadItem reads: the place of the padding stands for offset 0.
ReadOffset ==
    IF mCurrentItemOffset = viewHeader.PaddingOffset THEN 0 ELSE mCurrentItemOffset

ReadItemHeader ==
    /\ rpc = "header"
    /\ Readable(ReadOffset)
    /\ readSize' \in ItemSizesAt(ReadOffset)
    /\ readId' = IF HeaderAt(ReadOffset) THEN data[ReadOffset].id ELSE 0
    /\ rpc' = "data"
    /\ UNCHANGED <<mCurrentItemOffset, viewHeader, opens, opened, delivered>>

DataReadable == ReadOffset + ITEM_HEADER + readSize <= dataEnd

\* The data read is the item's if all its bytes are still there.
ReadItemData ==
    /\ rpc = "data"
    /\ DataReadable
    /\ LET whole == \A i \in ITEM_HEADER .. ITEM_HEADER + readSize - 1 :
                       data[ReadOffset + i].id = readId /\ data[ReadOffset + i].at = i
       IN  readId' = IF whole THEN readId ELSE 0
    /\ rpc' = "next"
    /\ UNCHANGED <<mCurrentItemOffset, viewHeader, readSize, opens, opened, delivered>>

\* mutant: no bound on the offset of the next item.
DeliverUnchecked ==
    /\ rpc = "next"
    /\ Len(delivered) < MAX_CALLS
    /\ mCurrentItemOffset' \in NextOffsets(mCurrentItemOffset)
    /\ delivered' = Append(delivered, readId)
    /\ rpc' = "idle"
    /\ readId' = 0 /\ readSize' = 0
    /\ UNCHANGED <<viewHeader, opens, opened>>

\* The item is returned once the offset of the next is known.  (A viewer that has
\* lost its way may go on for ever: MAX_CALLS bounds what it delivers too.)
Deliver ==
    /\ rpc = "next"
    /\ Len(delivered) < MAX_CALLS
    /\ mCurrentItemOffset' \in GetNextItemOffset(mCurrentItemOffset)
    /\ delivered' = Append(delivered, readId)
    /\ rpc' = "idle"
    /\ readId' = 0 /\ readSize' = 0
    /\ UNCHANGED <<viewHeader, opens, opened>>

\* ReadItem throws on a short file, Deserialize on bytes that are no item,
\* GetNextItemOffset on the current offset.
Throws ==
    \/ rpc = "header" /\ ~ Readable(ReadOffset)
    \/ rpc = "data" /\ ~ DataReadable
    \/ rpc = "next" /\ (readId = 0 \/ GetNextItemOffsetThrows(mCurrentItemOffset))
Throw ==
    /\ Throws
    /\ rpc' = "dead"
    /\ UNCHANGED <<mCurrentItemOffset, viewHeader, readId, readSize, opens, opened, delivered>>

GetNextData == Look \/ ReadItemHeader \/ ReadItemData \/ Deliver \/ Throw

-----------------------------------------------------------------------------
(* The viewer's course, as history. *)

\* The item the viewer has to deliver next is log[Due], if it started on a
\* store that was not empty.
Due == opened + Len(delivered)

\* What may go wrong for the viewer: it started on an empty store; a fault
\* set the header and the items apart; the writer has overwritten the item it is
\* due to read, or soon may have; the ring went back to 0 since its start; an
\* item it has to read lies where an earlier lap left its padding.
\* (Behind: the bytes from that item to the end of the newest one, while the ring
\* has not gone back.)
Behind       == log[Len(log)].offset + log[Len(log)].size - log[Due].offset
TooClose     == Due <= Len(log) /\ Behind + 2 * LargestItem > MAX_DATA_OFFSET
WrappedSince == \E k \in opened + 1 .. Len(log) : log[k].offset = 0
AtPadding    == \E k \in opened .. Len(log) :
                   log[k].offset \in {viewHeader.PaddingOffset, fileHeader.PaddingOffset}
Disturbance  == opened = 0 \/ torn \/ TooClose \/ WrappedSince \/ AtPadding

\* disturbed remembers it until the viewer starts again.
Record == disturbed' = (Disturbance' \/ (disturbed /\ opens' = opens))

SystemNext ==
    /\ \/ Next /\ UNCHANGED viewer
       \/ (Open \/ GetNextData) /\ UNCHANGED vars
    /\ Record

SystemSpec == SystemInit /\ [][SystemNext]_allVars

\* The viewer's loop calls GetNextData again and again; the writer finishes
\* the call it is in.
FairSystemSpec ==
    /\ SystemSpec
    /\ WF_allVars(GetNextData /\ UNCHANGED vars /\ Record)
    /\ WF_allVars(Running /\ UNCHANGED viewer /\ Record)

-----------------------------------------------------------------------------
(* Properties. *)

ViewerTypeOK ==
    /\ mCurrentItemOffset \in Offsets
    /\ viewHeader \in FileHeaderStruct
    /\ rpc \in {"down", "idle", "header", "data", "next", "dead"}
    /\ readId \in 0 .. MAX_CALLS
    /\ readSize \in 0 .. UINT32 - 1
    /\ opens \in 0 .. MAX_OPENS
    /\ opened \in 0 .. named
    /\ delivered \in Seq(0 .. MAX_CALLS)
    /\ disturbed \in BOOLEAN

Ids(s) == [k \in DOMAIN s |-> s[k].id]

\* On an undisturbed course the viewer delivers the items in the order they
\* were published, each once and whole, from the one that was newest when it
\* started; it never dies, and never delivers the newest one.  The writer's
\* steps may fall anywhere between the viewer's, and the writer may crash.
DeliversInOrder ==
    ~ disturbed =>
       /\ Due <= named
       /\ delivered = Ids(SubSeq(log, opened, Due - 1))
       /\ rpc # "dead"
       /\ mCurrentItemOffset = log[Due].offset

\* The two processes and the file implement the log of ItemLog.
Log == INSTANCE ItemLog WITH
          Items <- 1 .. MAX_CALLS,
          published <- Ids(SubSeq(log, 1, named)),
          up <- rpc \notin {"down", "dead"}
ImplementsItemLog == Log!Spec

\* They go on: on an undisturbed course every published item but the newest is
\* delivered in the end.
ImplementsFairItemLog == Log!FairSpec

\* A viewer opened on an empty store survives the first items.
SurvivesEmptyStart == ~ torn /\ opened = 0 => rpc # "dead"

\* A viewer that started on a store with an item, and that the writer never
\* comes close to, survives the end of the ring.
SurvivesWrap ==
    opened > 0 /\ ~ torn /\ BytesFrom(opened) + 2 * LargestItem <= MAX_DATA_OFFSET
    => rpc # "dead"

\* Every published item is delivered in the end to a viewer whose course is
\* not disturbed.
NewestDelivered == \A k \in 1 .. MAX_CALLS :
    (~ disturbed /\ k \in opened .. named) ~> (disturbed \/ Due > k)
=============================================================================
