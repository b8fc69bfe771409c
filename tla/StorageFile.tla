---------------------------- MODULE StorageFile ----------------------------
(***************************************************************************)
(* The ring file of storage/manager/database/StorageFile.h, written by one *)
(* process (a cctv client) through AppendItem.                             *)
(*                                                                         *)
(* The file is a header of three offsets followed by a data area.  Items   *)
(* of different sizes are laid one after the other; when the next one does *)
(* not fit before the end, the place is recorded as PaddingOffset and the  *)
(* writer goes on at offset 0, over the oldest items.  A byte of the data  *)
(* area is abstracted to the item it belongs to, that item's size and its  *)
(* position in the item; Blank is a byte of the 0xFF fill of a new file.   *)
(*                                                                         *)
(* AppendItem is one action per access to the file that another process,   *)
(* or a crash, can see: the choice of the offset, each turn of the search  *)
(* for a new FirstItemOffset, the write of the item, the write of the      *)
(* header.  A short write stays in the buffer of AppendItem's ofstream     *)
(* until the end of the call, after UpdateFileHeader has written the       *)
(* header through a stream of its own; a long one goes to the file at once.*)
(***************************************************************************)
EXTENDS Integers, Sequences, FiniteSets

CONSTANTS
    MAX_DATA_OFFSET,  \* bytes of the data area (MAX_FILE_SIZE - 12)
    ITEM_HEADER,      \* sizeof(ItemHeaderStruct)
    UINT32,           \* number of values of a uint32_t
    ItemSizes,        \* values BaseItem::Size() takes, the item header included
    BufferedSizes,    \* those short enough to wait in the ofstream's buffer
    GarbageSizes,     \* what bytes that are not an item header may read as
    MAX_CALLS,        \* bound on the calls of AppendItem
    MAX_FAULTS        \* bound on crashes, failed writes and failed opens

ASSUME StorageAssumption ==
    /\ MAX_DATA_OFFSET \in Nat \ {0}
    /\ ITEM_HEADER \in Nat \ {0, 1}
    /\ UINT32 \in Nat
    /\ ItemSizes \subseteq Nat
    /\ \A s \in ItemSizes : ITEM_HEADER < s /\ MAX_DATA_OFFSET + s < UINT32
    /\ MAX_DATA_OFFSET + 1 < UINT32
    /\ BufferedSizes \subseteq ItemSizes
    /\ GarbageSizes \subseteq 0 .. UINT32 - 1
    /\ MAX_CALLS \in Nat
    /\ MAX_FAULTS \in Nat

VARIABLES
    fileHeader,         \* the header on the disk
    data,               \* the data area on the disk
    dataEnd,            \* its length: a write past the end makes it grow
    mFileHeaderStruct,  \* the writer's copy of the header
    pc,                 \* where the writer is in AppendItem
    size,               \* item.Size() of the item being appended
    itemInsertOffset,   \* where it goes
    itemOffset,         \* the search for the new FirstItemOffset
    calls,              \* calls of AppendItem so far; the item of a call has its number
    result,             \* how the last call that ended did: "ok" or "throw" (an item
                        \* may still be in its stream)
    faults,             \* crashes, failed writes and failed opens so far
    torn,               \* history: a fault left a header, in memory or on the disk,
                        \* and the items apart for good
    log,                \* history: the items placed in the file, oldest first
    named               \* history: how many of them the header on the disk has taken in

disk   == <<fileHeader, data, dataEnd>>
call   == <<size, itemInsertOffset, itemOffset>>
vars   == <<disk, mFileHeaderStruct, pc, call, calls, result, faults, torn, log, named>>

INVALID_OFFSET == MAX_DATA_OFFSET + 1
Offsets        == 0 .. INVALID_OFFSET

FileHeaderStruct ==
    [FirstItemOffset : Offsets, LastItemOffset : Offsets, PaddingOffset : Offsets]
EmptyHeader ==
    [FirstItemOffset |-> INVALID_OFFSET, LastItemOffset |-> INVALID_OFFSET,
     PaddingOffset |-> INVALID_OFFSET]

Blank == [id |-> 0, size |-> 0, at |-> 0]

-----------------------------------------------------------------------------
(* Reading the data area. *)

\* Offset o holds the first byte of an item.
StartsItem(o) == o < dataEnd /\ data[o].id # 0 /\ data[o].at = 0

\* The first n bytes of the item that starts at o are there.
FirstBytes(o, n) ==
    \A i \in 0 .. n - 1 :
       /\ o + i < dataEnd
       /\ data[o + i] = [id |-> data[o].id, size |-> data[o].size, at |-> i]

HeaderAt(o) == StartsItem(o) /\ FirstBytes(o, ITEM_HEADER)
Intact(o)   == StartsItem(o) /\ FirstBytes(o, data[o].size)

\* The four bytes of an item header can be read at o.
Readable(o) == o + ITEM_HEADER <= dataEnd

\* What they may read as: the ItemSize of the item that starts there,
\* 0xFFFFFFFF in the fill of a new file, anything elsewhere.
ItemSizesAt(o) ==
    IF HeaderAt(o) THEN {data[o].size - ITEM_HEADER}
    ELSE IF \A i \in 0 .. ITEM_HEADER - 1 : data[o + i] = Blank THEN {UINT32 - 1}
    ELSE GarbageSizes

\* What GetNextItemOffset(o) may return (a uint32_t): the empty set if it
\* must throw because the item header cannot be read.
NextOffsetsWithoutHeader(o) ==  \* mutant: adds ItemSize only
    IF Readable(o) THEN {(o + s) % UINT32 : s \in ItemSizesAt(o)} ELSE {}
NextOffsets(o) ==
    IF Readable(o) THEN {(o + ITEM_HEADER + s) % UINT32 : s \in ItemSizesAt(o)} ELSE {}

GetNextItemOffsetUnchecked(o) == NextOffsets(o)  \* mutant: no bound on the offset
GetNextItemOffset(o) == {n \in NextOffsets(o) : n <= MAX_DATA_OFFSET}
GetNextItemOffsetThrows(o) == ~ Readable(o) \/ \E n \in NextOffsets(o) : n > MAX_DATA_OFFSET

-----------------------------------------------------------------------------
Init ==
    /\ fileHeader = EmptyHeader
    /\ data = [o \in 0 .. MAX_DATA_OFFSET - 1 |-> Blank]
    /\ dataEnd = MAX_DATA_OFFSET
    /\ mFileHeaderStruct = EmptyHeader
    /\ pc = "idle"
    /\ size = 0 /\ itemInsertOffset = 0 /\ itemOffset = 0
    /\ calls = 0
    /\ result = "ok"
    /\ faults = 0
    /\ torn = FALSE
    /\ log = <<>>
    /\ named = 0

\* A call of AppendItem begins with an item of s bytes.
Call(s) ==
    /\ pc = "idle"
    /\ calls < MAX_CALLS
    /\ calls' = calls + 1
    /\ UNCHANGED <<disk, faults, torn, log, named>>

NoItem  == mFileHeaderStruct.LastItemOffset = INVALID_OFFSET
           /\ mFileHeaderStruct.FirstItemOffset = INVALID_OFFSET
OneItem == mFileHeaderStruct.LastItemOffset = 0
           /\ mFileHeaderStruct.FirstItemOffset = 0

\* The file was empty.
AppendToEmpty(s) ==
    /\ Call(s)
    /\ NoItem
    /\ size' = s /\ itemInsertOffset' = 0 /\ itemOffset' = 0
    /\ mFileHeaderStruct' =
          [mFileHeaderStruct EXCEPT !.FirstItemOffset = 0, !.LastItemOffset = 0]
    /\ pc' = "write"
    /\ UNCHANGED result

\* There was one item, that ends at n: the new one follows it, whatever its size.
PlaceSecond(s, n) ==
    /\ size' = s /\ itemInsertOffset' = n /\ itemOffset' = 0
    /\ mFileHeaderStruct' = [mFileHeaderStruct EXCEPT !.LastItemOffset = n]
    /\ pc' = "write"
AppendSecond(s) ==
    /\ Call(s)
    /\ OneItem
    /\ \E n \in GetNextItemOffset(mFileHeaderStruct.LastItemOffset) : PlaceSecond(s, n)
    /\ UNCHANGED result

WrapsAtEndOnly(n, s) == n >= MAX_DATA_OFFSET              \* mutant: forgets the item's size
WrapsTooEarly(n, s)  == n + s >= MAX_DATA_OFFSET \div 2   \* mutant: uses half of the file
WrapsAt(n, s) == n + s >= MAX_DATA_OFFSET

\* There were more, the last of which ends at n: the new one follows it, or
\* goes to 0 when the end is reached; FirstItemOffset has to move if it is in
\* the way.
PlaceFurther(s, n) ==
    LET ins     == IF WrapsAt(n, s) THEN 0 ELSE n
        padding == IF WrapsAt(n, s) THEN n ELSE mFileHeaderStruct.PaddingOffset
        search  == ins <= mFileHeaderStruct.FirstItemOffset
        last    == IF search THEN mFileHeaderStruct.LastItemOffset ELSE ins
    IN  /\ size' = s /\ itemInsertOffset' = ins
        /\ itemOffset' = IF search THEN mFileHeaderStruct.FirstItemOffset ELSE 0
        /\ mFileHeaderStruct' = [mFileHeaderStruct EXCEPT !.PaddingOffset = padding,
                                                          !.LastItemOffset = last]
        /\ pc' = IF search THEN "search" ELSE "write"
AppendFurther(s) ==
    /\ Call(s)
    /\ ~ NoItem /\ ~ OneItem
    /\ \E n \in GetNextItemOffset(mFileHeaderStruct.LastItemOffset) : PlaceFurther(s, n)
    /\ UNCHANGED result

\* GetNextItemOffset throws on the last item: AppendItem ends, nothing moved.
AppendThrows(s) ==
    /\ Call(s)
    /\ ~ NoItem
    /\ GetNextItemOffsetThrows(mFileHeaderStruct.LastItemOffset)
    /\ result' = "throw"
    /\ UNCHANGED <<mFileHeaderStruct, pc, call>>

InTheWayStart == itemInsertOffset > itemOffset  \* mutant: forgets the item's size
InTheWay == itemInsertOffset + size > itemOffset


\* One turn of the loop that looks for the new FirstItemOffset.
SearchFirst ==
    /\ pc = "search"
    /\ InTheWay
    /\ itemOffset' \in GetNextItemOffset(itemOffset)
    /\ UNCHANGED <<disk, mFileHeaderStruct, pc, size, itemInsertOffset,
                   calls, result, faults, torn, log, named>>

SearchFound ==
    /\ pc = "search"
    /\ ~ InTheWay
    /\ mFileHeaderStruct' = [mFileHeaderStruct EXCEPT !.FirstItemOffset = itemOffset,
                                                      !.LastItemOffset = itemInsertOffset]
    /\ pc' = "write"
    /\ UNCHANGED <<disk, call, calls, result, faults, torn, log, named>>

\* The search throws: PaddingOffset may have changed in memory only.
SearchThrows ==
    /\ pc = "search"
    /\ InTheWay
    /\ GetNextItemOffsetThrows(itemOffset)
    /\ result' = "throw"
    /\ pc' = "idle"
    /\ UNCHANGED <<disk, mFileHeaderStruct, call, calls, faults, torn, log, named>>

\* The data area with the first n bytes of this call's item at itemInsertOffset.
LongerOf(m, n) == IF m < n THEN n ELSE m
Write(n) ==
    /\ dataEnd' = LongerOf(dataEnd, itemInsertOffset + n)
    /\ data' = [o \in 0 .. dataEnd' - 1 |->
                  IF o \in itemInsertOffset .. itemInsertOffset + n - 1
                  THEN [id |-> calls, size |-> size, at |-> o - itemInsertOffset]
                  ELSE data[o]]
WriteItem == Write(size)

\* file.write of a long item reaches the file before the header.
WriteData ==
    /\ pc = "write"
    /\ size \notin BufferedSizes
    /\ WriteItem
    /\ pc' = "publish"
    /\ UNCHANGED <<fileHeader, mFileHeaderStruct, call, calls, result, faults, torn, log, named>>

\* file.write of a short item stays in the stream's buffer.
BufferData ==
    /\ pc = "write"
    /\ size \in BufferedSizes
    /\ pc' = "publishBuffered"
    /\ UNCHANGED <<disk, mFileHeaderStruct, call, calls, result, faults, torn, log, named>>

Published == [id |-> calls, offset |-> itemInsertOffset, size |-> size]

\* The item is in the file, or in the stream; what is left is the stream's end.
Placed ==
    /\ pc \in {"publish", "publishBuffered"}
    /\ log' = Append(log, Published)
    /\ pc' = IF pc = "publish" THEN "idle" ELSE "flush"
    /\ UNCHANGED <<data, dataEnd, mFileHeaderStruct, call, calls, torn>>

\* UpdateFileHeader, the last call of AppendItem.
UpdateFileHeader ==
    /\ Placed
    /\ fileHeader' = mFileHeaderStruct
    /\ named' = Len(log')
    /\ result' = "ok"
    /\ UNCHANGED faults

\* mutant: the header in memory is taken back.
HeaderLostRestores ==
    /\ pc \in {"publish", "publishBuffered"}
    /\ faults < MAX_FAULTS
    /\ faults' = faults + 1
    /\ log' = Append(log, Published)
    /\ mFileHeaderStruct' = fileHeader
    /\ pc' = IF pc = "publish" THEN "idle" ELSE "flush"
    /\ result' \in {"ok", "throw"}
    /\ UNCHANGED <<disk, call, calls, torn, named>>

\* The header does not get to the disk: UpdateFileHeader cannot open the file and
\* throws, or its 12 bytes fail in the stream's destructor, after they were
\* tested, and nobody hears of it.  The header in memory names the item.
HeaderLost ==
    /\ Placed
    /\ faults < MAX_FAULTS
    /\ faults' = faults + 1
    /\ result' \in {"ok", "throw"}
    /\ UNCHANGED <<fileHeader, named>>

\* The destructor of AppendItem's stream writes what it still holds.
FlushData ==
    /\ pc = "flush"
    /\ WriteItem
    /\ pc' = "idle"
    /\ UNCHANGED <<fileHeader, mFileHeaderStruct, call, calls, result, faults, torn, log, named>>

\* It cannot, and nobody hears of it.
FlushLost ==
    /\ pc = "flush"
    /\ faults < MAX_FAULTS
    /\ faults' = faults + 1
    /\ torn' = TRUE
    /\ pc' = "idle"
    /\ UNCHANGED <<disk, mFileHeaderStruct, call, calls, result, log, named>>

\* file.write fails, or the writer dies within it: part of the item may be in the
\* file.  If AppendItem throws, the header in memory already names the item.
WriteFails ==
    /\ pc = "write"
    /\ size \notin BufferedSizes
    /\ faults < MAX_FAULTS
    /\ faults' = faults + 1
    /\ \E n \in 0 .. size - 1 : Write(n)
    /\ torn' = TRUE
    /\ pc' \in {"idle", "down"}
    /\ result' = "throw"
    /\ UNCHANGED <<fileHeader, mFileHeaderStruct, call, calls, log, named>>

\* The file cannot be opened: by AppendItem, or by GetNextItemOffset at its start
\* or in a turn of the search, when PaddingOffset may have changed in memory.
OpenFails ==
    /\ faults < MAX_FAULTS
    /\ faults' = faults + 1
    /\ \/ pc = "idle" /\ calls < MAX_CALLS /\ calls' = calls + 1
       \/ pc = "search" /\ InTheWay /\ UNCHANGED calls
    /\ result' = "throw"
    /\ pc' = "idle"
    /\ UNCHANGED <<disk, mFileHeaderStruct, call, torn, log, named>>

\* The writer dies (an uncaught exception, a signal) between two accesses.
Crash ==
    /\ pc # "down"
    /\ faults < MAX_FAULTS
    /\ faults' = faults + 1
    /\ torn' = (torn \/ pc = "flush" \/ named < Len(log))
    /\ pc' = "down"
    /\ UNCHANGED <<disk, mFileHeaderStruct, call, calls, result, log, named>>

\* mutant: an existing file is taken for a new one.
RestartEmpty ==
    /\ pc = "down"
    /\ mFileHeaderStruct' = EmptyHeader
    /\ pc' = "idle"
    /\ UNCHANGED <<disk, call, calls, result, faults, torn, log, named>>

\* It is started again: the constructor of StorageManager reads the header.
Restart ==
    /\ pc = "down"
    /\ mFileHeaderStruct' = fileHeader
    /\ pc' = "idle"
    /\ UNCHANGED <<disk, call, calls, result, faults, torn, log, named>>

AppendItem ==
    \/ \E s \in ItemSizes :
          AppendToEmpty(s) \/ AppendSecond(s) \/ AppendFurther(s) \/ AppendThrows(s)
    \/ SearchFirst \/ SearchFound \/ SearchThrows
    \/ WriteData \/ BufferData \/ UpdateFileHeader \/ FlushData

Next == AppendItem \/ HeaderLost \/ FlushLost \/ WriteFails \/ OpenFails \/ Crash \/ Restart

Spec == Init /\ [][Next]_vars

\* A call that has begun goes on; nothing makes a caller begin one.
Running  == SearchFirst \/ SearchFound \/ SearchThrows
            \/ WriteData \/ BufferData \/ UpdateFileHeader \/ FlushData
FairSpec == Spec /\ WF_vars(Running)

-----------------------------------------------------------------------------
(* Properties. *)

\* Every variable stays in its domain: in particular no offset in the header,
\* or in the search, passes the end of the data area.
Byte == [id : 0 .. MAX_CALLS, size : {0} \cup ItemSizes, at : Nat]
TypeOK ==
    /\ fileHeader \in FileHeaderStruct
    /\ dataEnd \in Nat /\ MAX_DATA_OFFSET <= dataEnd
    /\ data \in [0 .. dataEnd - 1 -> Byte]
    /\ mFileHeaderStruct \in FileHeaderStruct
    /\ pc \in {"idle", "search", "write", "publish", "publishBuffered", "flush", "down"}
    /\ size \in {0} \cup ItemSizes
    /\ itemInsertOffset \in Offsets
    /\ itemOffset \in Offsets
    /\ calls \in 0 .. MAX_CALLS
    /\ result \in {"ok", "throw"}
    /\ faults \in 0 .. MAX_FAULTS
    /\ torn \in BOOLEAN
    /\ log \in Seq([id : 1 .. MAX_CALLS, offset : Offsets, size : ItemSizes])
    /\ named \in 0 .. Len(log)

\* What the file promises its readers: an item header that is still on the
\* disk heads a whole item.  AppendItem overwrites old items, but only from
\* their first byte on: none is left with its header and without its tail, at
\* any moment of a call, and after every fault that does not cut a write or
\* leave the header on the disk behind the items (torn).
IntactItems == ~ torn => \A o \in 0 .. dataEnd - 1 : StartsItem(o) => Intact(o)

\* The header on the disk names the last item it has taken in, also while it is
\* behind because a write of it was lost.  The newest item is at its place with
\* its bytes, whatever was interrupted before; only while the stream of a short
\* item is not yet closed does the header run ahead of the data.
NewestAtLast ==
    ~ torn /\ log # <<>> =>
       LET newest == log[Len(log)]
       IN  /\ named > 0 => fileHeader.LastItemOffset = log[named].offset
           /\ pc # "flush" => /\ StartsItem(newest.offset)
                              /\ data[newest.offset].id = newest.id
                              /\ data[newest.offset].size = newest.size

\* An item follows the one placed before it, or is at 0 because
\* it did not fit before the end: a reader that knows where one is can find
\* the next from the sizes alone.
LogIsChained ==
    ~ torn => \A k \in 1 .. Len(log) - 1 :
                LET end == log[k].offset + log[k].size
                IN  \/ log[k + 1].offset = end
                    \/ log[k + 1].offset = 0 /\ WrapsAt(end, log[k + 1].size)

\* The file never outgrows the size it was created with.
BoundedFile == ~ torn => dataEnd = MAX_DATA_OFFSET

\* FirstItemOffset names the oldest item that is still on the disk, until the
\* writer has gone once round the ring: from then on it points into the fill of
\* the new file that no item has reached yet.  It never points into an item, so
\* the search for its successor does not read bytes of data as an item header.
FirstIsOldestOrFill ==
    faults = 0 /\ log # <<>> /\ pc \notin {"publish", "flush"} =>
       LET first == fileHeader.FirstItemOffset
       IN  \/ /\ StartsItem(first)
              /\ \A o \in 0 .. dataEnd - 1 : StartsItem(o) => data[first].id <= data[o].id
           \/ \A o \in first .. dataEnd - 1 : data[o] = Blank

\* The ring keeps what it can: a published item is still there, whole, as long
\* as the items published since (itself included) leave room for the two
\* largest: one being written and one lost to the padding.
LargestItem == CHOOSE m \in ItemSizes : \A s \in ItemSizes : s <= m
SizeFrom(items, k) ==
    LET bytes[n \in 0 .. Len(items)] == IF n < k THEN 0 ELSE bytes[n - 1] + items[n].size
    IN  bytes[Len(items)]
BytesFrom(k) == SizeFrom(log, k)
RecentItemsSurvive ==
    ~ torn => \A k \in 1 .. Len(log) :
                BytesFrom(k) + 2 * LargestItem <= MAX_DATA_OFFSET
                /\ ~ (pc = "flush" /\ k = Len(log))
                => /\ StartsItem(log[k].offset)
                   /\ data[log[k].offset].id = log[k].id
                   /\ Intact(log[k].offset)

\* Without a fault every turn of the search moves on: what it reads is an item
\* header or the fill, whose 0xFFFFFFFF takes the sum of 32 bits one byte less
\* than an item header further; never data, where another value (0xFFFFFFFC)
\* would leave it in its place.
SearchAdvances ==
    [][faults = 0 /\ pc = "search" /\ pc' = "search" => itemOffset' > itemOffset]_vars

\* The search stands at bytes that are not the header of an item.
Astray ==
    /\ Readable(itemOffset)
    /\ ~ HeaderAt(itemOffset)
    /\ \E i \in 0 .. ITEM_HEADER - 1 : data[itemOffset + i] # Blank


\* Every AppendItem succeeds when no fault is injected.
AppendSucceeds == faults = 0 => result = "ok"
=============================================================================
