------------------------ MODULE StorageManagerProofs ------------------------
(***************************************************************************)
(* Theorems about the ring file shared by a writer and a viewer, for every *)
(* size of the file and of the items, and every interleaving of the two.   *)
(* They suppose SmallItems, as those of StorageFileProofs do.              *)
(***************************************************************************)
EXTENDS StorageManager, StorageFileProofs

-----------------------------------------------------------------------------
(* What the writer does to the log, as the viewer sees it. *)

\* The items of the log are at their places in the order of the log as long as
\* the ring has not gone back to 0 between them.
Ascends ==
    \A j, k \in 1 .. Len(log) :
       j < k /\ (\A i \in j + 1 .. k : log[i].offset # 0) => End(log[j]) <= log[k].offset

\* An item that the newest one follows without the ring having gone back, and
\* far enough from its end, is still there.
OneLap(k)  == \A i \in k + 1 .. Len(log) : log[i].offset # 0
Room(k)    == End(Newest) - log[k].offset + 2 * LargestItem <= MAX_DATA_OFFSET
RecentStay == \A k \in 1 .. Len(log) : OneLap(k) /\ Room(k) /\ Written(k) => There(k)

LapInv == RingInv /\ (~ torn => Ascends /\ RecentStay)

\* A step of the writer leaves the log, or makes it longer by one item; the
\* header on the disk never falls behind.
LEMMA LogGrows ==
  ASSUME TypeInv, [Next]_vars
  PROVE  /\ Len(log) \in Nat /\ Len(log') \in Nat /\ Len(log) <= Len(log')
         /\ \A k \in 1 .. Len(log) : log'[k] = log[k]
         /\ named \in Nat /\ named' \in Nat /\ named <= named' /\ named <= Len(log)
<1>1. Len(log) \in Nat /\ named \in Nat /\ named <= Len(log)
  BY LogLength DEF TypeInv
<1>2. CASE Placed /\ named' \in {named, Len(log')}
  BY <1>1, <1>2, PlacedType
<1>3. CASE UNCHANGED <<log, named>>
  BY <1>1, <1>3
<1>4. (Placed /\ named' \in {named, Len(log')}) \/ UNCHANGED <<log, named>>
  BY DEF Next, AppendItem, AppendToEmpty, AppendSecond, AppendFurther, AppendThrows, Call,
         SearchFirst, SearchFound, SearchThrows, WriteData, BufferData, UpdateFileHeader,
         HeaderLost, FlushData, FlushLost, WriteFails, OpenFails, Crash, Restart, vars
<1> QED BY <1>2, <1>3, <1>4

\* A write at a place for an item of the call spares every item that the newest
\* one follows within the lap, unless it ends too close to that place.
LEMMA WriteSpares ==
  ASSUME TypeInv, Ascends, NEW k \in 1 .. Len(log), OneLap(k), Room(k),
         size \in ItemSizes, itemInsertOffset \in Nat, Follows(itemInsertOffset, size)
  PROVE  log[k].offset \notin ItemBytes
<1> DEFINE off == log[k].offset
<1>1. Len(log) \in Nat /\ Len(log) \in 1 .. Len(log)
  BY LogLength DEF TypeInv
<1>2. /\ off \in Nat /\ Newest.offset \in Nat /\ Newest.size \in Nat /\ Newest.size > 0
      /\ End(Newest) = Newest.offset + Newest.size /\ Newest.size <= LargestItem
      /\ log[k].size \in Nat /\ End(log[k]) = off + log[k].size
  BY <1>1, LogItem, Largest DEF TypeInv, Newest
<1>3. size \in Nat /\ size > 0 /\ size <= LargestItem /\ LargestItem \in Nat
  BY ItemSize, Largest
<1>4. off <= Newest.offset
  <2>1. CASE k = Len(log)
    BY <2>1, <1>2 DEF Newest
  <2>2. CASE k < Len(log)
    <3>1. End(log[k]) <= Newest.offset
      BY <2>2, <1>1 DEF Ascends, OneLap, Newest
    <3> QED BY <3>1, <1>2
  <2> QED BY <2>1, <2>2, <1>1
<1>5. CASE itemInsertOffset = End(Newest)
  BY <1>2, <1>4, <1>5 DEF ItemBytes
<1>6. CASE itemInsertOffset = 0 /\ WrapsAt(End(Newest), size)
  <2>1. End(Newest) + size >= MAX_DATA_OFFSET
    BY <1>6 DEF WrapsAt
  <2>2. off >= size
    <3>1. End(Newest) - off + 2 * LargestItem <= MAX_DATA_OFFSET
      BY DEF Room
    <3>2. MAX_DATA_OFFSET \in Nat /\ End(Newest) \in Nat
      BY <1>2, Constants
    <3> HIDE DEF off
    <3> QED BY <2>1, <3>1, <3>2, <1>2, <1>3
  <2> QED BY <2>2, <1>2, <1>3, <1>6 DEF ItemBytes
<1> QED BY <1>5, <1>6 DEF Follows

\* Every item of the lap but the newest ends before the newest one begins.
LEMMA BeforeNewest ==
  ASSUME TypeInv, Ascends, NEW k \in 1 .. Len(log), OneLap(k), k < Len(log)
  PROVE  log[k].offset < Newest.offset
<1>1. Len(log) \in Nat /\ Len(log) \in 1 .. Len(log)
  BY LogLength DEF TypeInv
<1>2. End(log[k]) <= Newest.offset
  BY <1>1 DEF Ascends, OneLap, Newest
<1> QED
  BY <1>1, <1>2, LogItem DEF TypeInv, Newest

\* A step that leaves the data and the log alone, outside the time between the
\* header and the flush, keeps what LapInv says of them.
LEMMA SameLap ==
  ASSUME Ascends, RecentStay, UNCHANGED <<data, dataEnd, log>>, pc # "flush", pc' # "flush"
  PROVE  Ascends' /\ RecentStay'
<1>1. Newest' = Newest
  BY DEF Newest
<1>2. Ascends'
  BY DEF Ascends, End
<1>3. RecentStay'
  BY <1>1 DEF RecentStay, OneLap, Room, Written, There, StartsItem, End
<1> QED BY <1>2, <1>3

\* Placing an item: the older ones have no more room than before.
LEMMA PlacedLap ==
  ASSUME TypeInv, Ring, Ascends, RecentStay, Placed
  PROVE  Ascends' /\ RecentStay'
<1>1. /\ Len(log) \in Nat /\ Len(log') = Len(log) + 1
      /\ log'[Len(log) + 1] = Published
      /\ \A k \in 1 .. Len(log) : log'[k] = log[k]
  BY PlacedType
<1>2. /\ pc \in {"publish", "publishBuffered"}
      /\ pc' = IF pc = "publish" THEN "idle" ELSE "flush"
      /\ UNCHANGED <<data, dataEnd>>
  BY DEF Placed
<1>3. /\ Published.offset = itemInsertOffset /\ Published.id = calls /\ Published.size = size
      /\ itemInsertOffset \in Nat /\ size \in Nat /\ size > 0
      /\ End(Published) = itemInsertOffset + size
  BY <1>2, ItemSize, Constants DEF Published, TypeInv, TypeOK, Appending, End
<1>4. log # <<>> => Follows(itemInsertOffset, size)
  BY <1>2 DEF Ring, PlaceInv, GoodPlace
<1>5. Newest' = Published
  BY <1>1 DEF Newest
<1>6. ASSUME NEW k \in 1 .. Len(log), itemInsertOffset # 0
      PROVE  /\ itemInsertOffset = End(Newest) /\ End(Newest) \in Nat
             /\ Newest = log[Len(log)] /\ Len(log) \in 1 .. Len(log)
             /\ Newest.offset <= End(Newest)
  <2>1. Len(log) \in 1 .. Len(log) /\ log # <<>>
    BY <1>1, LogLength DEF TypeInv
  <2> QED BY <2>1, <1>4, <1>6, LogItem DEF Follows, Newest, TypeInv
<1>7. ASSUME NEW j \in 1 .. Len(log'), NEW k \in 1 .. Len(log'), j < k,
             \A i \in j + 1 .. k : log'[i].offset # 0
      PROVE  End(log'[j]) <= log'[k].offset
  <2>1. CASE k <= Len(log)
    <3>1. j \in 1 .. Len(log) /\ k \in 1 .. Len(log)
          /\ \A i \in j + 1 .. k : i \in 1 .. Len(log)
      BY <2>1, <1>1, <1>7
    <3>2. \A i \in j + 1 .. k : log[i].offset # 0
      BY <3>1, <1>1, <1>7
    <3> QED BY <3>1, <3>2, <1>1, <1>7 DEF Ascends
  <2>2. CASE k = Len(log) + 1
    <3>1. j \in 1 .. Len(log) /\ itemInsertOffset # 0
      BY <2>2, <1>1, <1>3, <1>7
    <3>2. CASE j = Len(log)
      BY <3>1, <3>2, <2>2, <1>1, <1>3, <1>6
    <3>3. CASE j < Len(log)
      <4>1. \A i \in j + 1 .. Len(log) : i \in 1 .. Len(log) /\ i \in j + 1 .. k
        BY <2>2, <1>1
      <4>2. \A i \in j + 1 .. Len(log) : log[i].offset # 0
        BY <4>1, <1>1, <1>7
      <4>3. End(log[j]) <= Newest.offset
        BY <4>2, <3>1, <3>3, <1>6 DEF Ascends
      <4>4. End(log[j]) \in Nat /\ Newest.offset \in Nat
        BY <3>1, <1>6, LogItem DEF TypeInv
      <4> QED BY <4>3, <4>4, <3>1, <2>2, <1>1, <1>3, <1>6
    <3> QED BY <3>1, <3>2, <3>3, <1>1
  <2> QED BY <2>1, <2>2, <1>1
<1>8. ASSUME NEW k \in 1 .. Len(log'), OneLap(k)', Room(k)', Written(k)'
      PROVE  There(k)'
  <2>1. CASE k = Len(log) + 1
    <3>1. pc' # "flush"
      BY <2>1, <1>1, <1>8 DEF Written
    <3>2. pc = "publish"
      BY <3>1, <1>2
    <3> QED BY <3>2, <2>1, <1>1, <1>2, <1>3 DEF Ring, PlaceInv, There, StartsItem
  <2>2. CASE k <= Len(log)
    <3>1. k \in 1 .. Len(log) /\ log'[k] = log[k]
      BY <2>2, <1>1
    <3>2. itemInsertOffset # 0
      <4>1. Len(log) + 1 \in k + 1 .. Len(log')
        BY <2>2, <1>1
      <4> QED BY <4>1, <1>1, <1>3, <1>8 DEF OneLap
    <3>3. OneLap(k)
      <4>1. \A i \in k + 1 .. Len(log) : i \in k + 1 .. Len(log') /\ i \in 1 .. Len(log)
        BY <3>1, <1>1
      <4> QED BY <4>1, <1>1, <1>8 DEF OneLap
    <3>4. Room(k)
      <4>1. End(Published) - log[k].offset + 2 * LargestItem <= MAX_DATA_OFFSET
        BY <3>1, <1>5, <1>8 DEF Room
      <4>2. log[k].offset \in Nat /\ LargestItem \in Nat
        BY <3>1, LogItem, Largest DEF TypeInv
      <4>3. End(Newest) <= End(Published) /\ End(Newest) \in Nat /\ End(Published) \in Nat
        BY <3>1, <3>2, <1>3, <1>6
      <4> QED BY <4>1, <4>2, <4>3, Constants DEF Room
    <3>5. There(k)
      BY <3>1, <3>3, <3>4, <1>2 DEF RecentStay, Written
    <3> QED BY <3>1, <3>5, <1>2 DEF There, StartsItem
  <2> QED BY <2>1, <2>2, <1>1
<1> QED BY <1>7, <1>8 DEF Ascends, RecentStay

\* A write of the item of the call leaves the other items of the lap there.
LEMMA WriteLap ==
  ASSUME TypeInv, AllIntact, dataEnd = MAX_DATA_OFFSET, Appending, WriteItem,
         itemInsertOffset + size <= MAX_DATA_OFFSET, NoneAcross(itemInsertOffset),
         UNCHANGED call, UNCHANGED log,
         NEW k \in 1 .. Len(log), There(k), log[k].offset \notin ItemBytes
  PROVE  There(k)'
<1>1. /\ dataEnd' = MAX_DATA_OFFSET
      /\ \A o \in 0 .. dataEnd - 1 : o \notin ItemBytes => data'[o] = data[o]
  BY WriteKeepsItems
<1>2. log[k].offset \in 0 .. dataEnd - 1
  BY LogItem, Constants DEF There, StartsItem, TypeInv
<1> QED BY <1>1, <1>2 DEF There, StartsItem

\* One step of the writer, or of a fault that leaves nothing torn.
LEMMA StepLap ==
  ASSUME SmallItems, TypeInv, TypeInv', Ring, Ring', Ascends, RecentStay, ~ torn', Next
  PROVE  Ascends' /\ RecentStay'
<1>1. CASE UNCHANGED <<data, dataEnd, log>> /\ pc # "flush" /\ pc' # "flush"
  BY <1>1, SameLap
<1>2. CASE WriteData
  <2>1. pc = "write" /\ pc' = "publish" /\ WriteItem /\ Appending
        /\ UNCHANGED log /\ UNCHANGED call
    BY <1>2 DEF WriteData, Appending
  <2>2. GoodPlace(itemInsertOffset, size)
    BY <2>1 DEF Ring, PlaceInv
  <2>3. size \in ItemSizes /\ itemInsertOffset \in Nat
    BY <2>1, Constants DEF TypeInv, TypeOK
  <2>4. Newest' = Newest
    BY <2>1 DEF Newest
  <2>5. Ascends'
    BY <2>1 DEF Ascends, End
  <2>6. ASSUME NEW k \in 1 .. Len(log'), OneLap(k)', Room(k)' PROVE There(k)'
    <3>1. k \in 1 .. Len(log) /\ OneLap(k) /\ Room(k) /\ Written(k)
      BY <2>1, <2>4, <2>6 DEF OneLap, Room, Written, End
    <3>2. log # <<>>
      BY <3>1, LogLength DEF TypeInv
    <3>3. log[k].offset \notin ItemBytes
      BY <3>1, <3>2, <2>2, <2>3, WriteSpares DEF GoodPlace
    <3>4. There(k)
      BY <3>1 DEF RecentStay
    <3> QED BY <3>1, <3>3, <3>4, <2>1, <2>2, WriteLap DEF GoodPlace, Ring
  <2> QED BY <2>5, <2>6 DEF RecentStay
<1>3. CASE FlushData
  <2>1. pc = "flush" /\ pc' = "idle" /\ WriteItem /\ Appending
        /\ UNCHANGED <<log, calls>> /\ UNCHANGED call
    BY <1>3 DEF FlushData, Appending
  <2>2. /\ itemInsertOffset + size <= MAX_DATA_OFFSET /\ NoneAcross(itemInsertOffset)
        /\ log # <<>> /\ Newest = Published /\ Newest.offset = itemInsertOffset
    BY <2>1 DEF Ring, PlaceInv, NewestInv, Published
  <2>3. size \in Nat /\ itemInsertOffset \in Nat
    BY <2>1, ItemSize, Constants DEF TypeInv, TypeOK
  <2>4. Newest' = Newest
    BY <2>1 DEF Newest
  <2>5. Ascends'
    BY <2>1 DEF Ascends, End
  <2>6. ASSUME NEW k \in 1 .. Len(log'), OneLap(k)', Room(k)' PROVE There(k)'
    <3>1. k \in 1 .. Len(log) /\ OneLap(k) /\ Room(k) /\ Len(log) \in Nat
      BY <2>1, <2>4, <2>6, LogLength DEF OneLap, Room, End, TypeInv
    <3>2. CASE k = Len(log)
      BY <2>1, <2>4, <3>2 DEF Ring, NewestInv, There, Newest
    <3>3. CASE k < Len(log)
      <4>1. There(k)
        BY <3>1, <3>3 DEF RecentStay, Written
      <4>2. log[k].offset < itemInsertOffset
        BY <3>1, <3>3, <2>2, BeforeNewest
      <4>3. log[k].offset \notin ItemBytes
        BY <4>2, <2>3, <3>1, LogItem DEF ItemBytes, TypeInv
      <4> QED BY <4>1, <4>3, <3>1, <2>1, <2>2, WriteLap DEF Ring
    <3> QED BY <3>1, <3>2, <3>3
  <2> QED BY <2>5, <2>6 DEF RecentStay
<1>4. CASE Placed
  BY <1>4, PlacedLap
<1>5. \/ UNCHANGED <<data, dataEnd, log>> /\ pc # "flush" /\ pc' # "flush"
      \/ WriteData \/ FlushData \/ Placed
  BY DEF Next, AppendItem, AppendToEmpty, AppendSecond, AppendFurther, AppendThrows, Call,
         PlaceSecond, PlaceFurther,
         SearchFirst, SearchFound, SearchThrows, BufferData, UpdateFileHeader,
         HeaderLost, FlushLost, WriteFails, OpenFails, Crash, Restart, disk
<1> QED BY <1>1, <1>2, <1>3, <1>4, <1>5

\* The items of the lap stay, in every ring file with room for three items.
THEOREM LapInvariant == SmallItems /\ Spec => []LapInv
<1> SUFFICES ASSUME SmallItems PROVE Spec => []LapInv
  OBVIOUS
<1>1. Init => Ascends /\ RecentStay
  BY DEF Init, Ascends, RecentStay
<1>2. /\ RingInv /\ RingInv' /\ [Next]_vars /\ (~ torn => Ascends /\ RecentStay)
      => (~ torn' => Ascends' /\ RecentStay')
  <2> SUFFICES ASSUME RingInv, RingInv', [Next]_vars, ~ torn => Ascends /\ RecentStay, ~ torn'
               PROVE  Ascends' /\ RecentStay'
    OBVIOUS
  <2>1. ~ torn
    BY TornStays
  <2>2. CASE Next
    BY <2>1, <2>2, StepLap DEF RingInv
  <2>3. CASE UNCHANGED vars
    <3>1. UNCHANGED <<data, dataEnd, log, pc>>
      BY <2>3 DEF vars, disk
    <3>2. Newest' = Newest
      BY <3>1 DEF Newest
    <3>3. Ascends' /\ RecentStay'
      BY <2>1, <3>1, <3>2 DEF Ascends, RecentStay, OneLap, Room, Written, There, StartsItem, End
    <3> QED BY <3>3
  <2> QED BY <2>2, <2>3
<1>3. RingInv /\ (~ torn => Ascends /\ RecentStay) <=> LapInv
  BY DEF LapInv
<1> QED BY RingInvariant, <1>1, <1>2, <1>3, PTL DEF Spec

-----------------------------------------------------------------------------
(* Type correctness of the viewer. *)

\* A byte of an item carries the item's size.
Sized == \A o \in 0 .. dataEnd - 1 : data[o].id # 0 => data[o].size \in ItemSizes

ViewerInv == TypeInv /\ Sized /\ ViewerTypeOK

\* What the four bytes at an offset may read as is a uint32_t.
LEMMA ItemSizesAreUint32 ==
  ASSUME TypeOK, Sized, NEW o \in Nat
  PROVE  ItemSizesAt(o) \subseteq 0 .. UINT32 - 1
<1>1. CASE HeaderAt(o)
  <2>1. o \in 0 .. dataEnd - 1 /\ data[o].id # 0
    BY <1>1 DEF HeaderAt, StartsItem, TypeOK
  <2>2. data[o].size \in ItemSizes
    BY <2>1 DEF Sized
  <2>3. \A s \in ItemSizes : s - ITEM_HEADER \in 0 .. UINT32 - 1
    BY Constants
  <2> QED BY <1>1, <2>2, <2>3 DEF ItemSizesAt
<1>2. CASE ~ HeaderAt(o)
  <2>1. GarbageSizes \subseteq 0 .. UINT32 - 1 /\ UINT32 - 1 \in 0 .. UINT32 - 1
    BY StorageAssumption, Constants
  <2> QED BY <1>2, <2>1 DEF ItemSizesAt
<1> QED BY <1>1, <1>2

\* The writer keeps Sized.
LEMMA StepSized ==
  ASSUME TypeInv, Sized, [Next]_vars
  PROVE  Sized'
<1>1. CASE UNCHANGED <<data, dataEnd>>
  BY <1>1 DEF Sized
<1>2. ASSUME NEW n \in 0 .. size, Write(n), pc \in {"write", "flush"} PROVE Sized'
  <2>1. size \in ItemSizes
    BY <1>2 DEF TypeInv, Appending
  <2>2. dataEnd \in Nat /\ itemInsertOffset \in Nat /\ size \in Nat
        /\ itemInsertOffset <= dataEnd
    BY <2>1, Constants DEF TypeInv, TypeOK
  <2>3. dataEnd' \in Nat /\ n \in Nat
        /\ (dataEnd' = dataEnd \/ dataEnd' = itemInsertOffset + n)
    BY <1>2, <2>2 DEF Write, LongerOf
  <2>4. ASSUME NEW o \in 0 .. dataEnd' - 1, data'[o].id # 0 PROVE data'[o].size \in ItemSizes
    <3>1. data'[o] = IF o \in itemInsertOffset .. itemInsertOffset + n - 1
                     THEN [id |-> calls, size |-> size, at |-> o - itemInsertOffset]
                     ELSE data[o]
      BY <1>2 DEF Write
    <3>2. CASE o \in itemInsertOffset .. itemInsertOffset + n - 1
      BY <2>1, <3>1, <3>2
    <3>3. CASE o \notin itemInsertOffset .. itemInsertOffset + n - 1
      <4>1. o \in Nat /\ o < dataEnd'
        BY <2>3, <2>4, BelowSize
      <4>2. o \in 0 .. dataEnd - 1
        BY <2>2, <2>3, <3>3, <4>1
      <4> QED BY <2>4, <3>1, <3>3, <4>2 DEF Sized
    <3> QED BY <3>2, <3>3
  <2> QED BY <2>4 DEF Sized
<1>3. CASE WriteItem /\ pc \in {"write", "flush"}
  <2>1. size \in 0 .. size
    BY <1>3, Constants DEF TypeInv, TypeOK, Appending
  <2> QED BY <1>2, <1>3, <2>1 DEF WriteItem
<1>4. CASE WriteFails
  <2>1. PICK n \in 0 .. size - 1 : Write(n)
    BY <1>4 DEF WriteFails
  <2>2. n \in 0 .. size /\ pc = "write"
    BY <1>4, <2>1, Constants DEF WriteFails, TypeInv, TypeOK
  <2> QED BY <1>2, <2>1, <2>2
<1>5. \/ UNCHANGED <<data, dataEnd>>
      \/ WriteItem /\ pc \in {"write", "flush"}
      \/ WriteFails
  BY DEF Next, AppendItem, AppendToEmpty, AppendSecond, AppendFurther, AppendThrows, Call,
         SearchFirst, SearchFound, SearchThrows, WriteData, BufferData, UpdateFileHeader, Placed,
         HeaderLost, FlushData, FlushLost, OpenFails, Crash, Restart, vars, disk
<1> QED BY <1>1, <1>3, <1>4, <1>5

\* Each step of the viewer, and each of the writer, keeps the viewer's types.
THEOREM StepViewerType == ViewerInv /\ [SystemNext]_allVars => ViewerInv'
<1> SUFFICES ASSUME ViewerInv, [SystemNext]_allVars PROVE ViewerInv'
  OBVIOUS
<1>1. [Next]_vars /\ TypeInv /\ TypeOK /\ Sized /\ ViewerTypeOK
  BY DEF SystemNext, allVars, ViewerInv, TypeInv
<1>2. TypeInv' /\ Sized'
  BY <1>1, StepType, StepSized
<1> SUFFICES ViewerTypeOK'
  BY <1>2 DEF ViewerInv
<1>3. named \in Nat /\ named' \in Nat /\ named <= named'
  BY <1>1, LogGrows
<1>4. CASE Next /\ UNCHANGED viewer /\ Record
  BY <1>1, <1>3, <1>4 DEF ViewerTypeOK, viewer, Record
<1>5. CASE Open /\ UNCHANGED vars /\ Record
  <2>1. /\ fileHeader \in FileHeaderStruct /\ fileHeader.LastItemOffset \in Offsets
    BY <1>1, HeaderUpdates DEF TypeOK
  <2>2. UINT32 - 1 \in Nat /\ <<>> \in Seq(0 .. MAX_CALLS)
    BY Constants
  <2>3. opens' \in 0 .. MAX_OPENS
    BY <1>1, <1>5, OpensAssumption DEF Open, ViewerTypeOK
  <2> QED BY <1>3, <1>5, <2>1, <2>2, <2>3, Constants DEF ViewerTypeOK, Open, Record, vars
<1>6. CASE GetNextData /\ UNCHANGED vars /\ Record
  <2>1. disturbed' \in BOOLEAN /\ named' = named /\ fileHeader \in FileHeaderStruct
    BY <1>1, <1>6 DEF Record, vars, TypeOK
  <2>2. CASE Look
    BY <1>1, <2>1, <2>2 DEF Look, ViewerTypeOK
  <2>3. CASE ReadItemHeader
    <3>1. ReadOffset \in Nat
      BY <1>1, Constants DEF ReadOffset, ViewerTypeOK
    <3>2. readSize' \in 0 .. UINT32 - 1
      BY <1>1, <2>3, <3>1, ItemSizesAreUint32 DEF ReadItemHeader
    <3>3. readId' \in 0 .. MAX_CALLS
      <4>1. HeaderAt(ReadOffset) => ReadOffset \in 0 .. dataEnd - 1
        BY <3>1, <1>1 DEF HeaderAt, StartsItem, TypeOK
      <4>2. 0 \in 0 .. MAX_CALLS
        BY Constants
      <4> QED BY <1>1, <2>3, <4>1, <4>2, ByteFields DEF ReadItemHeader
    <3> QED BY <1>1, <2>1, <2>3, <3>2, <3>3 DEF ReadItemHeader, ViewerTypeOK
  <2>4. CASE ReadItemData
    <3>1. readId' \in 0 .. MAX_CALLS
      BY <1>1, <2>4, Constants DEF ReadItemData, ViewerTypeOK
    <3> QED BY <1>1, <2>1, <2>4, <3>1 DEF ReadItemData, ViewerTypeOK
  <2>5. CASE Deliver
    <3>1. mCurrentItemOffset' \in Offsets
      BY <1>1, <2>5, NextIsOffset DEF Deliver, ViewerTypeOK
    <3>2. delivered' \in Seq(0 .. MAX_CALLS)
      BY <1>1, <2>5 DEF Deliver, ViewerTypeOK
    <3>3. readId' \in 0 .. MAX_CALLS /\ readSize' \in 0 .. UINT32 - 1
      BY <2>5, Constants DEF Deliver
    <3> QED BY <1>1, <2>1, <2>5, <3>1, <3>2, <3>3 DEF Deliver, ViewerTypeOK
  <2>6. CASE Throw
    BY <1>1, <2>1, <2>6 DEF Throw, ViewerTypeOK
  <2> QED BY <1>6, <2>2, <2>3, <2>4, <2>5, <2>6 DEF GetNextData
<1>7. CASE UNCHANGED allVars
  BY <1>1, <1>7 DEF ViewerTypeOK, allVars, viewer, vars
<1> QED BY <1>4, <1>5, <1>6, <1>7 DEF SystemNext

\* Whatever the sizes, the faults and the interleaving, the viewer's offsets stay in
\* the file, the size it has read is a uint32_t, and what it has read and delivered
\* are numbers of items, or 0.
THEOREM ViewerTypeCorrect == SystemSpec => []ViewerTypeOK
<1>1. SystemInit => ViewerInv
  <2> SUFFICES ASSUME SystemInit PROVE ViewerInv
    OBVIOUS
  <2>1. Init /\ TypeInv
    BY InitType DEF SystemInit
  <2>2. Sized
    BY <2>1 DEF Init, Sized, Blank
  <2>3. EmptyHeader \in FileHeaderStruct /\ INVALID_OFFSET \in Offsets
    BY Constants DEF EmptyHeader, FileHeaderStruct
  <2>4. UINT32 - 1 \in Nat /\ <<>> \in Seq(0 .. MAX_CALLS) /\ MAX_OPENS \in Nat
    BY Constants, OpensAssumption
  <2>5. named = 0
    BY <2>1 DEF Init
  <2>6. ViewerTypeOK
    BY <2>3, <2>4, <2>5, Constants DEF SystemInit, ViewerTypeOK
  <2> QED BY <2>1, <2>2, <2>6 DEF ViewerInv
<1>2. ViewerInv => ViewerTypeOK
  BY DEF ViewerInv
<1> QED BY StepViewerType, <1>1, <1>2, PTL DEF SystemSpec

-----------------------------------------------------------------------------
(* The viewer's course. *)

\* The viewer is not disturbed unless something has disturbed it; then it is
\* where the items it has delivered lead to, and what it has read so far of an
\* item is that item's.
CourseInv ==
    /\ Disturbance => disturbed
    /\ ~ disturbed =>
          /\ Due <= named
          /\ delivered = Ids(SubSeq(log, opened, Due - 1))
          /\ mCurrentItemOffset = log[Due].offset
          /\ rpc \in {"idle", "header", "data", "next"}
          /\ rpc # "idle" => Due < named
          /\ rpc = "data" => readId = log[Due].id /\ readSize = log[Due].size - ITEM_HEADER
          /\ rpc = "next" => readId = log[Due].id

SystemInv == LapInv /\ ViewerTypeOK /\ CourseInv

\* The writer is one of the system's processes.
LEMMA WriterRuns == SystemSpec => Spec
<1>1. SystemInit => Init
  BY DEF SystemInit
<1>2. [SystemNext]_allVars => [Next]_vars
  BY DEF SystemNext, allVars
<1> QED BY <1>1, <1>2, PTL DEF SystemSpec, Spec

\* What an undisturbed course tells of the item the viewer has to deliver: it is
\* in the log, there, whole, and readable, and where it ends the next one starts.
LEMMA DueItem ==
  ASSUME SmallItems, SystemInv, ~ disturbed, rpc # "idle"
  PROVE  /\ Due \in 1 .. Len(log) /\ Due + 1 \in 1 .. Len(log) /\ Due < named
         /\ mCurrentItemOffset = log[Due].offset /\ mCurrentItemOffset \in Nat
         /\ ReadOffset = mCurrentItemOffset
         /\ StartsItem(mCurrentItemOffset) /\ Intact(mCurrentItemOffset)
         /\ data[mCurrentItemOffset].id = log[Due].id
         /\ data[mCurrentItemOffset].size = log[Due].size
         /\ mCurrentItemOffset + log[Due].size <= dataEnd
         /\ GetNextItemOffset(mCurrentItemOffset) = {log[Due + 1].offset}
         /\ ~ GetNextItemOffsetThrows(mCurrentItemOffset)
         /\ log[Due].offset <= log[Due + 1].offset
<1> DEFINE off == mCurrentItemOffset
<1>1. ~ torn /\ ~ TooClose /\ ~ WrappedSince /\ ~ AtPadding /\ opened # 0
  BY DEF SystemInv, CourseInv, Disturbance
<1>2. RingInv /\ TypeInv /\ TypeOK /\ Ring /\ Ascends /\ RecentStay
  BY <1>1 DEF SystemInv, LapInv, RingInv, TypeInv
<1>3. Len(log) \in Nat /\ named \in Nat /\ named <= Len(log)
  BY <1>2, LogLength
<1>4. opened \in Nat /\ opened > 0 /\ Len(delivered) \in Nat /\ Due < named
      /\ Due = opened + Len(delivered) /\ off = log[Due].offset
  <2>1. opened \in Nat /\ Len(delivered) \in Nat
    BY <1>3 DEF SystemInv, ViewerTypeOK
  <2> QED BY <2>1, <1>1 DEF SystemInv, CourseInv, Due
<1>5. Due \in Nat /\ Due \in 1 .. Len(log) /\ Due + 1 \in 1 .. Len(log) /\ Due < Len(log)
  BY <1>3, <1>4
<1>6. OneLap(Due)
  <2>1. \A i \in Due + 1 .. Len(log) : i \in opened + 1 .. Len(log)
    BY <1>3, <1>4, <1>5
  <2> QED BY <2>1, <1>1 DEF WrappedSince, OneLap
<1>7. Room(Due)
  <2>1. ~ (Behind + 2 * LargestItem > MAX_DATA_OFFSET)
    BY <1>1, <1>3, <1>5 DEF TooClose
  <2>2. Len(log) \in 1 .. Len(log)
    BY <1>5
  <2>3. /\ log[Len(log)].offset \in Nat /\ log[Len(log)].size \in Nat
        /\ log[Due].offset \in Nat /\ log[Due].size \in ItemSizes
    BY <2>2, <1>2, <1>5, LogItem
  <2>4. End(Newest) - log[Due].offset = Behind
    BY <2>3 DEF Behind, Newest, End
  <2>5. Behind \in Int /\ LargestItem \in Nat
    BY <2>3, Largest DEF Behind
  <2> QED BY <2>1, <2>4, <2>5, Constants DEF Room
<1>8. There(Due)
  BY <1>2, <1>5, <1>6, <1>7 DEF RecentStay, Written
<1>9. /\ off \in Nat /\ log[Due].size \in ItemSizes /\ log[Due].size \in Nat
      /\ log[Due].size > 0 /\ End(log[Due]) = off + log[Due].size
  BY <1>2, <1>4, <1>5, LogItem
<1>10. StartsItem(off) /\ data[off].id = log[Due].id /\ data[off].size = log[Due].size
  BY <1>4, <1>8 DEF There
<1>11. dataEnd = MAX_DATA_OFFSET /\ Intact(off)
  <2>1. dataEnd = MAX_DATA_OFFSET
    BY <1>2 DEF Ring
  <2>2. off \in 0 .. dataEnd - 1
    BY <2>1, <1>9, <1>10, Constants DEF StartsItem
  <2> QED BY <2>1, <2>2, <1>2, <1>10 DEF Ring, AllIntact
<1>12. /\ off + log[Due].size <= MAX_DATA_OFFSET
       /\ GetNextItemOffset(off) = {End(log[Due])} /\ ~ GetNextItemOffsetThrows(off)
  BY <1>2, <1>9, <1>10, <1>11, NextOfItem
<1>13. log[Due + 1].offset = End(log[Due])
  <2>1. Due \in 1 .. Len(log) - 1 /\ Due + 1 \in Due + 1 .. Len(log)
    BY <1>3, <1>5
  <2>2. log[Due + 1].offset # 0
    BY <2>1, <1>6 DEF OneLap
  <2> QED BY <2>1, <2>2, <1>2 DEF Ring, Chained
<1>14. ReadOffset = off
  <2>1. Due \in opened .. Len(log)
    BY <1>3, <1>4, <1>5
  <2> QED BY <2>1, <1>1, <1>4 DEF AtPadding, ReadOffset
<1> QED
  BY <1>4, <1>5, <1>9, <1>10, <1>11, <1>12, <1>13, <1>14

\* A function on 1 .. n is a sequence.
LEMMA FunctionIsSeq ==
  ASSUME NEW S, NEW n \in Nat, NEW f \in [1 .. n -> S]
  PROVE  f \in Seq(S) /\ Len(f) = n
  OBVIOUS

\* The records a log is made of.
LogItems == [id : 1 .. MAX_CALLS, offset : Offsets, size : ItemSizes]

\* The ids of a part of a log.
LEMMA IdsOfPart ==
  ASSUME NEW s \in Seq(LogItems), NEW m \in 1 .. Len(s) + 1, NEW n \in 0 .. Len(s), m <= n + 1
  PROVE  /\ Ids(SubSeq(s, m, n)) \in Seq(1 .. MAX_CALLS)
         /\ Len(Ids(SubSeq(s, m, n))) = n - m + 1
         /\ \A i \in 1 .. n - m + 1 : Ids(SubSeq(s, m, n))[i] = s[m + i - 1].id
<1> DEFINE t == SubSeq(s, m, n)
<1>1. Len(s) \in Nat
  OBVIOUS
<1>2. \A i \in m .. n : i \in 1 .. Len(s)
  BY <1>1
<1>3. \A i \in m .. n : s[i] \in LogItems
  <2> QED BY <1>1, <1>2, ElementOfSeq
<1>4. t \in Seq(LogItems) /\ Len(t) = n - m + 1 /\ \A i \in 1 .. n - m + 1 : t[i] = s[m + i - 1]
  <2>1. m \in Int /\ n \in Int
    BY <1>1
  <2>2. (IF m <= n THEN n - m + 1 ELSE 0) = n - m + 1
    BY <1>1
  <2> QED BY <2>1, <2>2, <1>3, SubSeqProperties
<1>5. DOMAIN t = 1 .. n - m + 1 /\ n - m + 1 \in Nat
  <2> HIDE DEF t
  <2> QED BY <1>1, <1>4, LenProperties
<1>6. \A i \in 1 .. n - m + 1 : s[m + i - 1].id \in 1 .. MAX_CALLS
  <2>1. \A i \in 1 .. n - m + 1 : m + i - 1 \in m .. n
    BY <1>1
  <2>2. \A i \in m .. n : s[i].id \in 1 .. MAX_CALLS
    BY <1>3 DEF LogItems
  <2> QED BY <2>1, <2>2
<1>7. Ids(t) = [i \in 1 .. n - m + 1 |-> t[i].id]
  BY <1>5 DEF Ids
<1> HIDE DEF t
<1>8. \A i \in 1 .. n - m + 1 : Ids(t)[i] = s[m + i - 1].id
  BY <1>4, <1>7
<1>9. Ids(t) \in [1 .. n - m + 1 -> 1 .. MAX_CALLS]
  BY <1>4, <1>6, <1>7
<1>10. Ids(t) \in Seq(1 .. MAX_CALLS) /\ Len(Ids(t)) = n - m + 1
  BY <1>5, <1>9, FunctionIsSeq
<1> QED BY <1>8, <1>10 DEF t


\* A step of the writer takes the viewer nowhere else: what it has delivered, and
\* the item it is due, stay where they are in the log.
LEMMA WriterKeepsCourse ==
  ASSUME SystemInv, TypeInv', Next, UNCHANGED viewer, Record
  PROVE  CourseInv'
<1>1. TypeInv /\ ViewerTypeOK /\ CourseInv
  BY DEF SystemInv, LapInv, RingInv
<1>2. Disturbance' => disturbed'
  BY DEF Record
<1>3. SUFFICES ASSUME ~ disturbed'
               PROVE  /\ Due' <= named'
                      /\ delivered' = Ids(SubSeq(log, opened, Due - 1))'
                      /\ mCurrentItemOffset' = log'[Due'].offset
                      /\ rpc' \in {"idle", "header", "data", "next"}
                      /\ rpc' # "idle" => Due' < named'
                      /\ rpc' = "data" => readId' = log'[Due'].id
                                          /\ readSize' = log'[Due'].size - ITEM_HEADER
                      /\ rpc' = "next" => readId' = log'[Due'].id
  BY <1>2 DEF CourseInv
<1>4. ~ disturbed /\ opened # 0
  BY <1>1, <1>3 DEF Record, viewer, CourseInv, Disturbance
<1>5. Due' = Due
  BY DEF Due, viewer
<1>6. /\ Len(log) \in Nat /\ Len(log') \in Nat /\ Len(log) <= Len(log')
      /\ \A k \in 1 .. Len(log) : log'[k] = log[k]
      /\ named \in Nat /\ named' \in Nat /\ named <= named' /\ named <= Len(log)
  BY <1>1, LogGrows
<1>7. Due \in Nat /\ opened \in Nat /\ opened > 0 /\ opened <= Due /\ Due <= named
      /\ Due \in 1 .. Len(log)
  <2>1. opened \in Nat /\ Len(delivered) \in Nat
    BY <1>1, <1>6 DEF ViewerTypeOK
  <2> QED BY <2>1, <1>1, <1>4, <1>6 DEF CourseInv, Due
<1>8. Ids(SubSeq(log, opened, Due - 1))' = Ids(SubSeq(log, opened, Due - 1))
  <2> DEFINE s == Ids(SubSeq(log, opened, Due - 1))
             t == Ids(SubSeq(log', opened, Due - 1))
             n == Due - 1 - opened + 1
  <2>1. opened \in 1 .. Len(log) + 1 /\ Due - 1 \in 0 .. Len(log) /\ opened <= Due - 1 + 1
        /\ opened \in 1 .. Len(log') + 1 /\ Due - 1 \in 0 .. Len(log')
    BY <1>6, <1>7
  <2>2. s \in Seq(1 .. MAX_CALLS) /\ Len(s) = n
        /\ \A i \in 1 .. n : s[i] = log[opened + i - 1].id
    <3>1. log \in Seq(LogItems)
      BY <1>1 DEF TypeInv, TypeOK, LogItems
    <3> QED BY <2>1, <3>1, IdsOfPart
  <2>3. t \in Seq(1 .. MAX_CALLS) /\ Len(t) = n
        /\ \A i \in 1 .. n : t[i] = log'[opened + i - 1].id
    <3>1. log' \in Seq(LogItems)
      BY DEF TypeInv, TypeOK, LogItems
    <3> QED BY <2>1, <3>1, IdsOfPart
  <2>4. \A i \in 1 .. n : opened + i - 1 \in 1 .. Len(log)
    BY <2>1, <1>6, <1>7
  <2>5. \A i \in 1 .. n : s[i] = t[i]
    BY <2>2, <2>3, <2>4, <1>6
  <2>6. s = t
    <3> HIDE DEF s, t, n
    <3> QED BY <2>2, <2>3, <2>5, SeqEqual
  <2> QED BY <2>6, <1>5 DEF viewer
<1> QED
  BY <1>1, <1>4, <1>5, <1>6, <1>7, <1>8 DEF CourseInv, viewer

\* A start of the viewer: it is at the newest item the header has taken in.
LEMMA OpenStartsCourse ==
  ASSUME SystemInv, Open, UNCHANGED vars, Record
  PROVE  CourseInv'
<1>1. Disturbance' => disturbed'
  BY DEF Record
<1>2. SUFFICES ASSUME ~ disturbed', ~ Disturbance'
               PROVE  /\ Due' <= named'
                      /\ delivered' = Ids(SubSeq(log, opened, Due - 1))'
                      /\ mCurrentItemOffset' = log'[Due'].offset
                      /\ rpc' = "idle"
  BY <1>1 DEF CourseInv
<1>3. /\ opened' = named /\ opened' # 0 /\ ~ torn /\ delivered' = <<>> /\ rpc' = "idle"
      /\ mCurrentItemOffset' = fileHeader.LastItemOffset
      /\ UNCHANGED <<log, named>>
  BY <1>2 DEF Open, Disturbance, vars
<1>4. named \in Nat /\ named > 0 /\ named <= Len(log) /\ Len(log) \in Nat /\ TypeInv /\ Ring
  BY <1>3, LogLength DEF SystemInv, LapInv, RingInv, TypeInv
<1>5. Due' = named
  BY <1>3, <1>4 DEF Due
<1>6. fileHeader.LastItemOffset = log[named].offset
  BY <1>4 DEF Ring, NewestInv
<1>7. Ids(SubSeq(log, named, named - 1)) = <<>>
  <2>1. /\ Ids(SubSeq(log, named, named - 1)) \in Seq(1 .. MAX_CALLS)
        /\ Len(Ids(SubSeq(log, named, named - 1))) = named - 1 - named + 1
    <3>1. log \in Seq(LogItems)
      BY <1>4 DEF TypeInv, TypeOK, LogItems
    <3> QED BY <1>4, <3>1, IdsOfPart
  <2>2. named - 1 - named + 1 = 0
    BY <1>4
  <2> HIDE DEF Ids
  <2> QED BY <2>1, <2>2, EmptySeq
<1> QED BY <1>3, <1>4, <1>5, <1>6, <1>7

\* What GetNextData does on an undisturbed course: it does not throw, reads the
\* item it is due and delivers it, and is then due the next one.
LEMMA CourseStep ==
  ASSUME SmallItems, SystemInv, ~ disturbed, GetNextData
  PROVE  /\ ~ Throw
         /\ Look => (rpc' = "header" => fileHeader.LastItemOffset # log[Due].offset)
         /\ ReadItemHeader => readId' = log[Due].id /\ readSize' = log[Due].size - ITEM_HEADER
         /\ ReadItemData => readId' = log[Due].id
         /\ Deliver => /\ mCurrentItemOffset' = log[Due + 1].offset
                       /\ delivered' = Append(delivered, log[Due].id)
<1> DEFINE off == mCurrentItemOffset
<1>1. /\ TypeInv /\ TypeOK /\ ViewerTypeOK
      /\ off = log[Due].offset
      /\ rpc = "data" => readId = log[Due].id /\ readSize = log[Due].size - ITEM_HEADER
      /\ rpc = "next" => readId = log[Due].id
  BY DEF SystemInv, LapInv, RingInv, TypeInv, CourseInv
<1>2. CASE Look
  BY <1>1, <1>2 DEF Look, ReadItemHeader, ReadItemData, Deliver, Throw, Throws
<1>3. ASSUME rpc # "idle"
      PROVE  /\ HeaderAt(off) /\ Readable(off) /\ ReadOffset = off
             /\ ItemSizesAt(off) = {log[Due].size - ITEM_HEADER}
             /\ log[Due].id # 0
             /\ off \in Nat /\ log[Due].size \in Nat /\ ITEM_HEADER < log[Due].size
             /\ data[off].id = log[Due].id /\ FirstBytes(off, log[Due].size)
             /\ off + log[Due].size <= dataEnd
  <2>1. /\ Due \in 1 .. Len(log) /\ ReadOffset = off /\ off \in Nat
        /\ StartsItem(off) /\ Intact(off)
        /\ data[off].id = log[Due].id /\ data[off].size = log[Due].size
        /\ off + log[Due].size <= dataEnd
    BY <1>3, DueItem
  <2>2. log[Due].size \in Nat /\ ITEM_HEADER < log[Due].size /\ log[Due].id # 0
    BY <2>1, <1>1, LogItem, ItemSize
  <2>3. FirstBytes(off, log[Due].size)
    BY <2>1 DEF Intact
  <2>4. HeaderAt(off)
    <3>1. \A i \in 0 .. ITEM_HEADER - 1 : i \in 0 .. log[Due].size - 1
      BY <2>2, Constants
    <3> QED BY <2>1, <2>3, <3>1 DEF HeaderAt, FirstBytes
  <2>5. Readable(off)
    <3>1. dataEnd \in Nat
      BY <1>1 DEF TypeOK
    <3> QED BY <3>1, <2>1, <2>2, Constants DEF Readable
  <2>6. ItemSizesAt(off) = {log[Due].size - ITEM_HEADER}
    BY <2>1, <2>4 DEF ItemSizesAt
  <2> QED BY <2>1, <2>2, <2>3, <2>4, <2>5, <2>6
<1>4. CASE ReadItemHeader
  BY <1>1, <1>3, <1>4 DEF Look, ReadItemHeader, ReadItemData, Deliver, Throw, Throws
<1>5. CASE ReadItemData
  <2>1. rpc = "data"
    BY <1>5 DEF ReadItemData
  <2>2. ITEM_HEADER + readSize = log[Due].size /\ readId = log[Due].id
    BY <2>1, <1>1, <1>3, Constants
  <2>3. \A i \in ITEM_HEADER .. ITEM_HEADER + readSize - 1 :
           data[ReadOffset + i].id = readId /\ data[ReadOffset + i].at = i
    <3> TAKE i \in ITEM_HEADER .. ITEM_HEADER + readSize - 1
    <3>1. i \in 0 .. log[Due].size - 1
      <4>1. ITEM_HEADER + readSize - 1 = log[Due].size - 1 /\ ITEM_HEADER \in Nat
            /\ log[Due].size \in Nat
        BY <2>1, <1>1, <1>3, Constants
      <4> QED BY <4>1
    <3>2. data[off + i] = [id |-> data[off].id, size |-> data[off].size, at |-> i]
      BY <2>1, <3>1, <1>3 DEF FirstBytes
    <3> QED BY <2>1, <2>2, <3>2, <1>3
  <2>4. readId' = log[Due].id
    BY <1>5, <2>2, <2>3 DEF ReadItemData
  <2>5. DataReadable
    BY <1>5 DEF ReadItemData
  <2> QED BY <2>1, <2>4, <2>5 DEF Look, ReadItemHeader, Deliver, Throw, Throws
<1>6. CASE Deliver
  <2>1. rpc = "next"
    BY <1>6 DEF Deliver
  <2>2. /\ GetNextItemOffset(off) = {log[Due + 1].offset} /\ ~ GetNextItemOffsetThrows(off)
    BY <2>1, DueItem
  <2>3. readId = log[Due].id /\ readId # 0
    BY <2>1, <1>1, <1>3
  <2> QED BY <1>6, <2>1, <2>2, <2>3 DEF Look, ReadItemHeader, ReadItemData, Deliver, Throw, Throws
<1>7. CASE Throw
  <2>1. rpc # "idle"
    BY <1>7 DEF Throw, Throws
  <2>2. CASE rpc = "header"
    BY <2>1, <2>2, <1>3, <1>7 DEF Throw, Throws
  <2>3. CASE rpc = "data"
    <3>1. ReadOffset + ITEM_HEADER + readSize = off + log[Due].size
      BY <2>1, <2>3, <1>1, <1>3, Constants
    <3> QED BY <2>1, <2>3, <3>1, <1>3, <1>7 DEF Throw, Throws, DataReadable
  <2>4. CASE rpc = "next"
    <3>1. ~ GetNextItemOffsetThrows(off)
      BY <2>1, DueItem
    <3> QED BY <2>1, <2>4, <3>1, <1>1, <1>3, <1>7 DEF Throw, Throws
  <2> QED BY <2>2, <2>3, <2>4, <1>7 DEF Throw, Throws
<1> QED BY <1>2, <1>4, <1>5, <1>6, <1>7 DEF GetNextData

\* Delivering the item that is due makes the delivered part of the log longer by it.
LEMMA OneMoreDelivered ==
  ASSUME TypeOK, opened \in Nat, opened > 0, Due \in Nat, opened <= Due, Due <= Len(log),
         delivered = Ids(SubSeq(log, opened, Due - 1))
  PROVE  Append(delivered, log[Due].id) = Ids(SubSeq(log, opened, Due))
<1> DEFINE n == Due - opened
           s == Ids(SubSeq(log, opened, Due))
           t == Append(delivered, log[Due].id)
<1>1. log \in Seq(LogItems) /\ Len(log) \in Nat
  BY LogLength DEF TypeOK, LogItems
<1>2. /\ delivered \in Seq(1 .. MAX_CALLS) /\ Len(delivered) = n
      /\ \A i \in 1 .. n : delivered[i] = log[opened + i - 1].id
  <2>1. opened \in 1 .. Len(log) + 1 /\ Due - 1 \in 0 .. Len(log) /\ opened <= Due - 1 + 1
        /\ Due - 1 - opened + 1 = n
    BY <1>1
  <2> QED BY <2>1, <1>1, IdsOfPart
<1>3. /\ s \in Seq(1 .. MAX_CALLS) /\ Len(s) = n + 1
      /\ \A i \in 1 .. n + 1 : s[i] = log[opened + i - 1].id
  <2>1. opened \in 1 .. Len(log) + 1 /\ Due \in 0 .. Len(log) /\ opened <= Due + 1
        /\ Due - opened + 1 = n + 1
    BY <1>1
  <2> QED BY <2>1, <1>1, IdsOfPart
<1>4. log[Due].id \in 1 .. MAX_CALLS /\ n \in Nat /\ opened + (n + 1) - 1 = Due
  BY <1>1, LogItem
<1> HIDE DEF s, n
<1>5. t \in Seq(1 .. MAX_CALLS) /\ Len(t) = n + 1 /\ t[n + 1] = log[Due].id
      /\ \A i \in 1 .. n : t[i] = delivered[i]
  BY <1>2, <1>4
<1>6. \A i \in 1 .. n + 1 : t[i] = s[i]
  <2> HIDE DEF t
  <2>1. s[n + 1] = log[Due].id
    <3>1. n + 1 \in 1 .. n + 1
      BY <1>4
    <3> QED BY <3>1, <1>3, <1>4
  <2>2. \A i \in 1 .. n : t[i] = s[i]
    <3>1. \A i \in 1 .. n : i \in 1 .. n + 1
      BY <1>4
    <3> QED BY <3>1, <1>2, <1>3, <1>5
  <2> QED BY <2>1, <2>2, <1>4, <1>5
<1>7. t = s
  <2> HIDE DEF t
  <2> QED BY <1>3, <1>5, <1>6, SeqEqual
<1> QED BY <1>7 DEF s

\* A step of GetNextData leads the viewer along the log.
LEMMA GetNextDataKeepsCourse ==
  ASSUME SmallItems, SystemInv, GetNextData, UNCHANGED vars, Record
  PROVE  CourseInv'
<1>1. Disturbance' => disturbed'
  BY DEF Record
<1>2. /\ opened' = opened /\ opens' = opens /\ UNCHANGED <<log, named>>
  BY DEF GetNextData, Look, ReadItemHeader, ReadItemData, Deliver, Throw, vars
<1>3. SUFFICES ASSUME ~ disturbed'
               PROVE  /\ Due' <= named
                      /\ delivered' = Ids(SubSeq(log, opened, Due' - 1))
                      /\ mCurrentItemOffset' = log[Due'].offset
                      /\ rpc' \in {"idle", "header", "data", "next"}
                      /\ rpc' # "idle" => Due' < named
                      /\ rpc' = "data" => readId' = log[Due'].id
                                          /\ readSize' = log[Due'].size - ITEM_HEADER
                      /\ rpc' = "next" => readId' = log[Due'].id
  BY <1>1, <1>2 DEF CourseInv
<1>4. ~ disturbed
  BY <1>2, <1>3 DEF Record
<1>5. /\ TypeInv /\ TypeOK /\ ViewerTypeOK /\ CourseInv /\ ~ torn /\ opened # 0
  BY <1>4 DEF SystemInv, LapInv, RingInv, TypeInv, CourseInv, Disturbance
<1>6. /\ Len(log) \in Nat /\ named \in Nat /\ named <= Len(log)
      /\ opened \in Nat /\ opened > 0 /\ Len(delivered) \in Nat
      /\ Due = opened + Len(delivered) /\ Due <= named
      /\ delivered = Ids(SubSeq(log, opened, Due - 1))
      /\ mCurrentItemOffset = log[Due].offset
  BY <1>4, <1>5, LogLength DEF ViewerTypeOK, CourseInv, Due
<1>7. CASE Look
  <2>1. Due' = Due /\ delivered' = delivered /\ mCurrentItemOffset' = mCurrentItemOffset
        /\ rpc' \in {"idle", "header"}
    BY <1>2, <1>7 DEF Look, Due
  <2>2. rpc' = "header" => Due < named
    <3>1. fileHeader.LastItemOffset = log[named].offset
      BY <1>5, <1>6 DEF SystemInv, LapInv, RingInv, Ring, NewestInv
    <3> QED BY <3>1, <1>4, <1>6, <1>7, CourseStep
  <2> QED BY <2>1, <2>2, <1>6
<1>8. CASE ReadItemHeader
  <2>1. Due' = Due /\ delivered' = delivered /\ mCurrentItemOffset' = mCurrentItemOffset
        /\ rpc = "header" /\ rpc' = "data"
    BY <1>2, <1>8 DEF ReadItemHeader, Due
  <2>2. readId' = log[Due].id /\ readSize' = log[Due].size - ITEM_HEADER
    BY <1>4, <1>8, CourseStep
  <2> QED BY <2>1, <2>2, <1>4, <1>5, <1>6 DEF CourseInv
<1>9. CASE ReadItemData
  <2>1. Due' = Due /\ delivered' = delivered /\ mCurrentItemOffset' = mCurrentItemOffset
        /\ rpc = "data" /\ rpc' = "next"
    BY <1>2, <1>9 DEF ReadItemData, Due
  <2>2. readId' = log[Due].id
    BY <1>4, <1>9, CourseStep
  <2> QED BY <2>1, <2>2, <1>4, <1>5, <1>6 DEF CourseInv
<1>10. CASE Deliver
  <2>1. rpc = "next" /\ rpc' = "idle" /\ Due < named
    BY <1>4, <1>5, <1>10 DEF Deliver, CourseInv
  <2>2. mCurrentItemOffset' = log[Due + 1].offset /\ delivered' = Append(delivered, log[Due].id)
    BY <1>4, <1>10, CourseStep
  <2>3. Due' = Due + 1
    BY <1>2, <1>5, <1>6, <2>2 DEF Due, ViewerTypeOK
  <2>4. delivered' = Ids(SubSeq(log, opened, Due))
    BY <2>1, <2>2, <1>5, <1>6, OneMoreDelivered
  <2> QED BY <2>1, <2>2, <2>3, <2>4, <1>6
<1>11. CASE Throw
  BY <1>4, <1>11, CourseStep
<1> QED BY <1>7, <1>8, <1>9, <1>10, <1>11 DEF GetNextData

\* Every step of the two processes, in whatever order, keeps SystemInv.
LEMMA StepSystem ==
  ASSUME SmallItems, SystemInv, LapInv', ViewerTypeOK', [SystemNext]_allVars
  PROVE  SystemInv'
<1>1. CASE Next /\ UNCHANGED viewer /\ Record
  <2>1. TypeInv'
    BY DEF LapInv, RingInv
  <2> QED BY <1>1, <2>1, WriterKeepsCourse DEF SystemInv
<1>2. CASE Open /\ UNCHANGED vars /\ Record
  BY <1>2, OpenStartsCourse DEF SystemInv
<1>3. CASE GetNextData /\ UNCHANGED vars /\ Record
  BY <1>3, GetNextDataKeepsCourse DEF SystemInv
<1>4. CASE UNCHANGED allVars
  <2>1. UNCHANGED <<fileHeader, log, named, torn>> /\ UNCHANGED viewer /\ UNCHANGED disturbed
    BY <1>4 DEF allVars, vars, disk
  <2>2. Due' = Due
    BY <2>1 DEF Due, viewer
  <2>3. Disturbance' <=> Disturbance
    BY <2>1, <2>2 DEF Disturbance, TooClose, Behind, WrappedSince, AtPadding, viewer
  <2>4. CourseInv'
    BY <2>1, <2>2, <2>3 DEF SystemInv, CourseInv, Ids, viewer
  <2> QED BY <2>4 DEF SystemInv
<1> QED BY <1>1, <1>2, <1>3, <1>4 DEF SystemNext

\* The course of the viewer is what SystemInv says, in every reachable state.
THEOREM CourseInvariant == SmallItems /\ SystemSpec => []SystemInv
<1> SUFFICES ASSUME SmallItems PROVE SystemSpec => []SystemInv
  OBVIOUS
<1>1. SystemInit => CourseInv
  BY DEF SystemInit, CourseInv
<1>2. SystemInit /\ LapInv /\ ViewerTypeOK => SystemInv
  BY <1>1 DEF SystemInv
<1>3. SystemInv /\ LapInv' /\ ViewerTypeOK' /\ [SystemNext]_allVars => SystemInv'
  BY StepSystem
<1> QED BY WriterRuns, LapInvariant, ViewerTypeCorrect, <1>2, <1>3, PTL DEF SystemSpec

\* GetNextData hands an undisturbed viewer the published items in their order,
\* each once and whole, from the one that was newest when it started, and never
\* dies: for every size of the file and of the items, every interleaving with the
\* writer, and every crash and failed write of it.
THEOREM ViewerDeliversInOrder == SmallItems /\ SystemSpec => []DeliversInOrder
<1>1. SystemInv => DeliversInOrder
  BY DEF SystemInv, CourseInv, DeliversInOrder
<1> QED BY CourseInvariant, <1>1, PTL

-----------------------------------------------------------------------------
(* The refinement. *)

\* Items have the numbers of their calls, so a later one has a larger number.
IdsRise ==
    /\ \A j, k \in 1 .. Len(log) : j < k => log[j].id < log[k].id
    /\ \A k \in 1 .. Len(log) : log[k].id <= calls
    /\ pc \in {"search", "write", "publish", "publishBuffered"} =>
          \A k \in 1 .. Len(log) : log[k].id < calls

\* Every step of the writer keeps the items of the log numbered upwards.
LEMMA StepIds ==
  ASSUME TypeInv, IdsRise, [Next]_vars
  PROVE  IdsRise'
<1>1. Len(log) \in Nat /\ calls \in Nat /\ \A k \in 1 .. Len(log) : log[k].id \in Nat
  BY LogLength, LogItem DEF TypeInv, TypeOK
<1>2. CASE Placed
  <2>1. /\ Len(log') = Len(log) + 1 /\ log'[Len(log) + 1] = Published
        /\ \A k \in 1 .. Len(log) : log'[k] = log[k]
    BY <1>2, PlacedType
  <2>2. Published.id = calls /\ calls' = calls /\ pc' \in {"idle", "flush"}
        /\ \A k \in 1 .. Len(log) : log[k].id < calls
    BY <1>2 DEF Placed, Published, IdsRise
  <2> QED BY <1>1, <2>1, <2>2 DEF IdsRise
<1>3. CASE UNCHANGED log /\ calls' = calls + 1
  BY <1>1, <1>3 DEF IdsRise
<1>4. CASE /\ UNCHANGED <<log, calls>>
           /\ \/ pc' \in {"idle", "flush", "down"}
              \/ pc \in {"search", "write", "publish", "publishBuffered"}
              \/ pc' = pc
  BY <1>4 DEF IdsRise
<1>5. \/ Placed
      \/ UNCHANGED log /\ calls' = calls + 1
      \/ /\ UNCHANGED <<log, calls>>
         /\ \/ pc' \in {"idle", "flush", "down"}
            \/ pc \in {"search", "write", "publish", "publishBuffered"}
            \/ pc' = pc
  BY DEF Next, AppendItem, AppendToEmpty, AppendSecond, AppendFurther, AppendThrows, Call,
         SearchFirst, SearchFound, SearchThrows, WriteData, BufferData, UpdateFileHeader,
         HeaderLost, FlushData, FlushLost, WriteFails, OpenFails, Crash, Restart, vars
<1> QED BY <1>2, <1>3, <1>4, <1>5

\* The part of the log that is published, as ItemLog sees it.
PublishedIds == Ids(SubSeq(log, 1, named))

\* The numbers of the first n items of a log, as a sequence of that length.
LEMMA PublishedItems ==
  ASSUME NEW s \in Seq(LogItems), NEW n \in 0 .. Len(s)
  PROVE  /\ Ids(SubSeq(s, 1, n)) \in Seq(1 .. MAX_CALLS) /\ Len(Ids(SubSeq(s, 1, n))) = n
         /\ \A i \in 1 .. n : Ids(SubSeq(s, 1, n))[i] = s[i].id
<1> DEFINE t == Ids(SubSeq(s, 1, n))
<1>1. 1 \in 1 .. Len(s) + 1 /\ 1 <= n + 1 /\ n - 1 + 1 = n /\ \A i \in 1 .. n : 1 + i - 1 = i
  OBVIOUS
<1>2. /\ t \in Seq(1 .. MAX_CALLS) /\ Len(t) = n - 1 + 1
      /\ \A i \in 1 .. n - 1 + 1 : t[i] = s[1 + i - 1].id
  BY <1>1, IdsOfPart
<1> HIDE DEF t
<1>3. t \in Seq(1 .. MAX_CALLS) /\ Len(t) = n /\ \A i \in 1 .. n : t[i] = s[i].id
  BY <1>1, <1>2
<1> QED BY <1>3 DEF t

\* A step of the writer publishes items, or none, and may disturb the viewer.
LEMMA WriterPublishes ==
  ASSUME TypeInv, TypeInv', IdsRise', Next, UNCHANGED viewer, Record, disturbed' \in BOOLEAN,
         disturbed \in BOOLEAN
  PROVE  [Log!Next]_(Log!logVars)
<1> DEFINE p == PublishedIds
           q == PublishedIds'
<1>1. /\ UNCHANGED <<opened, delivered, rpc, opens>> /\ (disturbed => disturbed')
  BY DEF viewer, Record
<1>2. /\ p \in Seq(1 .. MAX_CALLS) /\ Len(p) = named /\ named \in Nat /\ named <= Len(log)
      /\ \A i \in 1 .. named : p[i] = log[i].id
  <2>1. log \in Seq(LogItems) /\ named \in 0 .. Len(log) /\ Len(log) \in Nat
    BY DEF TypeInv, TypeOK, LogItems
  <2>2. named \in Nat /\ named <= Len(log)
    BY <2>1
  <2> QED BY <2>1, <2>2, PublishedItems DEF PublishedIds
<1>3. /\ q \in Seq(1 .. MAX_CALLS) /\ Len(q) = named' /\ named' \in Nat /\ named' <= Len(log')
      /\ \A i \in 1 .. named' : q[i] = log'[i].id
  <2>1. log' \in Seq(LogItems) /\ named' \in 0 .. Len(log') /\ Len(log') \in Nat
    BY DEF TypeInv, TypeOK, LogItems
  <2>2. named' \in Nat /\ named' <= Len(log')
    BY <2>1
  <2> QED BY <2>1, <2>2, PublishedItems DEF PublishedIds
<1>4. named <= named' /\ \A k \in 1 .. Len(log) : log'[k] = log[k]
  BY LogGrows
<1>5. \A i \in 1 .. named : q[i] = p[i]
  BY <1>2, <1>3, <1>4
<1>6. CASE named' = named
  <2>1. q = p
    <3> HIDE DEF p, q
    <3> QED BY <1>2, <1>3, <1>5, <1>6, SeqEqual
  <2>2. CASE disturbed' = disturbed
    BY <2>1, <2>2, <1>1 DEF Log!logVars, PublishedIds
  <2>3. CASE disturbed' # disturbed
    BY <2>1, <2>3, <1>1 DEF Log!Next, Log!Disturb, PublishedIds
  <2> QED BY <2>2, <2>3
<1>7. CASE named' > named
  <2>1. \A k \in 1 .. Len(q) : q[k] \in 1 .. MAX_CALLS
    <3> HIDE DEF q
    <3> QED BY <1>3, ElementOfSeq
  <2>2. SubSeq(q, 1, Len(p)) = p
    <3> HIDE DEF p, q
    <3>1. 1 \in Int /\ named \in Int /\ \A i \in 1 .. named : q[i] \in 1 .. MAX_CALLS
      <4>1. \A i \in 1 .. named : i \in 1 .. Len(q)
        BY <1>2, <1>3, <1>4
      <4> QED BY <4>1, <2>1, <1>2
    <3>2. /\ SubSeq(q, 1, named) \in Seq(1 .. MAX_CALLS)
          /\ Len(SubSeq(q, 1, named)) = IF 1 <= named THEN named - 1 + 1 ELSE 0
          /\ \A i \in 1 .. named - 1 + 1 : SubSeq(q, 1, named)[i] = q[1 + i - 1]
      BY <3>1, SubSeqProperties
    <3>3. Len(SubSeq(q, 1, named)) = named
          /\ \A i \in 1 .. named : SubSeq(q, 1, named)[i] = p[i]
      BY <3>2, <1>2, <1>5
    <3> QED BY <3>2, <3>3, <1>2, SeqEqual
  <2>3. ASSUME NEW j \in 1 .. Len(q), NEW k \in 1 .. Len(q), q[j] = q[k] PROVE j = k
    <3>1. j \in 1 .. named' /\ k \in 1 .. named' /\ j \in 1 .. Len(log') /\ k \in 1 .. Len(log')
      BY <1>3
    <3>2. log'[j].id = log'[k].id /\ log'[j].id \in Nat
      BY <3>1, <2>1, <2>3, <1>3
    <3>3. ~ (j < k) /\ ~ (k < j)
      BY <3>1, <3>2 DEF IdsRise
    <3> QED BY <3>1, <3>3
  <2>4. DOMAIN q = 1 .. Len(q)
    <3> HIDE DEF q
    <3> QED BY <1>3, LenProperties
  <2>5. Len(q) > Len(p)
    BY <1>2, <1>3, <1>7
  <2>6. Log!Publish
    BY <2>1, <2>2, <2>3, <2>4, <2>5, <1>1 DEF Log!Publish, PublishedIds
  <2> QED BY <2>6 DEF Log!Next
<1> QED BY <1>2, <1>3, <1>4, <1>6, <1>7

\* What a step of the viewer is to ItemLog: a start, a delivery of the item that
\* is due, a stutter, or, once disturbed, anything.
LEMMA ViewerFollowsLog ==
  ASSUME SmallItems, SystemInv, Open \/ GetNextData, UNCHANGED vars, Record,
         disturbed' \in BOOLEAN
  PROVE  [Log!Next]_(Log!logVars)
<1> DEFINE p == PublishedIds
<1>1. /\ TypeInv /\ TypeOK /\ ViewerTypeOK /\ UNCHANGED <<log, named>> /\ disturbed \in BOOLEAN
  BY DEF SystemInv, LapInv, RingInv, TypeInv, ViewerTypeOK, vars
<1>2. /\ Len(p) = named /\ named \in Nat /\ named <= Len(log)
      /\ \A i \in 1 .. named : p[i] = log[i].id
  <2>1. log \in Seq(LogItems) /\ named \in 0 .. Len(log) /\ Len(log) \in Nat
    BY <1>1 DEF TypeOK, LogItems
  <2>2. named \in Nat /\ named <= Len(log)
    BY <2>1
  <2> QED BY <2>1, <2>2, PublishedItems DEF PublishedIds
<1>3. p' = p
  BY <1>1 DEF PublishedIds, Ids
<1>4. CASE Open
  <2>1. /\ rpc \in {"down", "dead"} /\ rpc' = "idle" /\ opened' = Len(p) /\ delivered' = <<>>
    BY <1>2, <1>4 DEF Open
  <2>2. Log!Start
    BY <2>1, <1>3 DEF Log!Start, PublishedIds
  <2> QED BY <2>2 DEF Log!Next
<1>5. CASE GetNextData /\ disturbed
  <2>1. disturbed' = disturbed /\ opened' = opened
    BY <1>1, <1>5 DEF Record, GetNextData, Look, ReadItemHeader, ReadItemData, Deliver, Throw
  <2>2. Log!Misread
    BY <2>1, <1>3, <1>5 DEF Log!Misread, PublishedIds
  <2> QED BY <2>2 DEF Log!Next
<1>6. CASE GetNextData /\ ~ disturbed /\ ~ Deliver
  <2>1. UNCHANGED <<opened, delivered>> /\ rpc \notin {"down", "dead"} /\ rpc' \notin {"down", "dead"}
    BY <1>6, CourseStep DEF GetNextData, Look, ReadItemHeader, ReadItemData
  <2>2. CASE ~ disturbed'
    BY <2>1, <2>2, <1>1, <1>3, <1>6 DEF Log!logVars, PublishedIds
  <2>3. CASE disturbed'
    BY <2>1, <2>3, <1>3 DEF Log!Next, Log!Disturb, PublishedIds
  <2> QED BY <2>2, <2>3
<1>7. CASE GetNextData /\ ~ disturbed /\ Deliver
  <2>1. /\ Due \in 1 .. Len(log) /\ Due + 1 \in 1 .. Len(log) /\ Due < named
        /\ rpc = "next" /\ rpc' = "idle"
        /\ delivered' = Append(delivered, log[Due].id) /\ opened' = opened /\ opens' = opens
        /\ log[Due].offset <= log[Due + 1].offset
    BY <1>7, CourseStep, DueItem DEF Deliver
  <2>2. log[Due].id = p[Due] /\ Due < Len(p)
    BY <2>1, <1>2
  <2>3. Due' = Due + 1
    BY <2>1, <1>1, <1>2 DEF Due, ViewerTypeOK
  <2>4. ~ Disturbance /\ ~ disturbed
    BY <1>7 DEF SystemInv, CourseInv
  <2>5. ~ TooClose'
    <3>1. /\ log[Due].offset \in Nat /\ log[Due + 1].offset \in Nat
          /\ log[Len(log)].offset \in Nat /\ log[Len(log)].size \in Nat
          /\ LargestItem \in Nat /\ MAX_DATA_OFFSET \in Nat
      <4>1. Len(log) \in 1 .. Len(log)
        BY <2>1
      <4> QED BY <2>1, <4>1, <1>1, LogItem, Largest, Constants
    <3>2. ~ (log[Len(log)].offset + log[Len(log)].size - log[Due].offset + 2 * LargestItem
             > MAX_DATA_OFFSET)
      BY <2>1, <2>4 DEF Disturbance, TooClose, Behind
    <3>3. ~ (log[Len(log)].offset + log[Len(log)].size - log[Due + 1].offset + 2 * LargestItem
             > MAX_DATA_OFFSET)
      <4> DEFINE a == log[Due].offset
                 b == log[Due + 1].offset
                 e == log[Len(log)].offset
                 z == log[Len(log)].size
      <4>1. a \in Nat /\ b \in Nat /\ e \in Nat /\ z \in Nat
        BY <3>1
      <4>2. a <= b
        BY <2>1
      <4>3. ~ (e + z - a + 2 * LargestItem > MAX_DATA_OFFSET)
        BY <3>2, Zenon
      <4>4. ~ (e + z - b + 2 * LargestItem > MAX_DATA_OFFSET)
        <5> HIDE DEF a, b, e, z
        <5> QED BY <3>1, <4>1, <4>2, <4>3
      <4> QED BY <4>4, Zenon
    <3> QED BY <3>3, <2>3, <1>1 DEF TooClose, Behind
  <2>6. ~ Disturbance'
    BY <2>1, <2>4, <2>5, <1>7 DEF Disturbance, WrappedSince, AtPadding, Deliver, vars, disk
  <2>7. disturbed' = disturbed
    <3>1. ~ disturbed'
      BY <2>4, <2>6, Zenon DEF Record
    <3> QED BY <3>1, <2>4, <1>1
  <2>8. Log!Deliver
    BY <2>1, <2>2, <2>7, <1>3, <1>7 DEF Log!Deliver, Log!Due, Due, PublishedIds
  <2> QED BY <2>8 DEF Log!Next
<1> QED BY <1>4, <1>5, <1>6, <1>7

\* The ring file with room for three items, its writer and its viewer implement the
\* log of ItemLog, for every size and every interleaving.
THEOREM RingImplementsLog == SmallItems /\ SystemSpec => ImplementsItemLog
<1> SUFFICES ASSUME SmallItems PROVE SystemSpec => ImplementsItemLog
  OBVIOUS
<1>1. SystemInit => Log!Init
  <2> SUFFICES ASSUME SystemInit PROVE Log!Init
    OBVIOUS
  <2>1. /\ log = <<>> /\ named = 0 /\ opened = 0 /\ delivered = <<>> /\ rpc = "down" /\ disturbed = TRUE
    BY DEF SystemInit, Init
  <2>2. Ids(SubSeq(log, 1, named)) = <<>>
    <3>1. log \in Seq(LogItems) /\ named \in 0 .. Len(log)
      BY <2>1
    <3>2. /\ Ids(SubSeq(log, 1, named)) \in Seq(1 .. MAX_CALLS)
          /\ Len(Ids(SubSeq(log, 1, named))) = 0
      BY <3>1, <2>1, PublishedItems
    <3> HIDE DEF Ids
    <3> QED BY <3>2, EmptySeq
  <2> QED BY <2>1, <2>2 DEF Log!Init
<1>2. SystemInit => IdsRise
  BY DEF SystemInit, Init, IdsRise
<1>3. /\ SystemInv /\ SystemInv' /\ IdsRise /\ [SystemNext]_allVars
      => IdsRise'
  <2> SUFFICES ASSUME SystemInv, IdsRise, [SystemNext]_allVars PROVE IdsRise'
    OBVIOUS
  <2>1. TypeInv /\ [Next]_vars
    BY DEF SystemInv, LapInv, RingInv, SystemNext, allVars
  <2> QED BY <2>1, StepIds
<1>4. /\ SystemInv /\ SystemInv' /\ IdsRise /\ IdsRise' /\ [SystemNext]_allVars
      => [Log!Next]_(Log!logVars)
  <2> SUFFICES ASSUME SystemInv, SystemInv', IdsRise', [SystemNext]_allVars
               PROVE  [Log!Next]_(Log!logVars)
    OBVIOUS
  <2>1. TypeInv /\ TypeInv' /\ disturbed \in BOOLEAN /\ disturbed' \in BOOLEAN
    BY DEF SystemInv, LapInv, RingInv, ViewerTypeOK
  <2>2. CASE Next /\ UNCHANGED viewer /\ Record
    BY <2>1, <2>2, WriterPublishes
  <2>3. CASE (Open \/ GetNextData) /\ UNCHANGED vars /\ Record
    BY <2>1, <2>3, ViewerFollowsLog
  <2>4. CASE UNCHANGED allVars
    BY <2>4 DEF allVars, vars, viewer, Log!logVars, Ids
  <2> QED BY <2>2, <2>3, <2>4 DEF SystemNext
<1> QED BY CourseInvariant, <1>1, <1>2, <1>3, <1>4, PTL DEF SystemSpec, ImplementsItemLog, Log!Spec
=============================================================================
