------------------------- MODULE StorageFileProofs -------------------------
(***************************************************************************)
(* Theorems about the ring file, for every size of the file and of the     *)
(* items.  The safety theorems suppose SmallItems: three items always fit  *)
(* in the data area.  They come in four parts, each with an invariant: the *)
(* types, the ring, the items it keeps, and the oldest of them.            *)
(***************************************************************************)
EXTENDS StorageFile, SequenceTheorems, Recursion

SmallItems == \A s \in ItemSizes : 3 * s <= MAX_DATA_OFFSET

\* AppendItem has been called and has chosen where the item goes.
Appending == pc \in {"search", "write", "publish", "publishBuffered", "flush"}

TypeInv ==
    /\ TypeOK
    /\ itemInsertOffset <= MAX_DATA_OFFSET
    /\ Appending => size \in ItemSizes /\ calls \in 1 .. MAX_CALLS

-----------------------------------------------------------------------------
(* GetNextItemOffset. *)

\* The constants as the provers need them: numbers, and the four named sets.
LEMMA Constants ==
    /\ MAX_DATA_OFFSET \in Nat \ {0}
    /\ ITEM_HEADER \in Nat \ {0, 1}
    /\ UINT32 \in Nat
    /\ ItemSizes \subseteq Nat
    /\ \A s \in ItemSizes : ITEM_HEADER < s /\ s \in Nat /\ MAX_DATA_OFFSET + s < UINT32
    /\ MAX_DATA_OFFSET + 1 < UINT32
    /\ MAX_CALLS \in Nat
    /\ MAX_FAULTS \in Nat
    /\ INVALID_OFFSET \in Nat
    /\ Offsets = 0 .. INVALID_OFFSET
    /\ INVALID_OFFSET = MAX_DATA_OFFSET + 1
  BY StorageAssumption DEF INVALID_OFFSET, Offsets

\* An item is longer than its header.
LEMMA ItemSize ==
  ASSUME NEW s \in ItemSizes
  PROVE  s \in Nat /\ s > 0 /\ ITEM_HEADER < s
  BY StorageAssumption

\* What TypeOK says of one byte of the data area.
LEMMA ByteFields ==
  ASSUME TypeOK, NEW o \in 0 .. dataEnd - 1
  PROVE  data[o].size \in Nat /\ data[o].id \in 0 .. MAX_CALLS
<1>1. data[o] \in Byte
  BY DEF TypeOK
<1>2. data[o].size \in {0} \cup ItemSizes /\ data[o].id \in 0 .. MAX_CALLS
  BY <1>1 DEF Byte
<1>3. {0} \cup ItemSizes \subseteq Nat
  BY Constants
<1> QED
  BY <1>2, <1>3

\* The bytes that follow the first one of a whole item belong to it.
LEMMA ByteOf ==
  ASSUME NEW o, NEW n, FirstBytes(o, n), NEW i \in 0 .. n - 1
  PROVE  data[o + i].at = i
<1>1. data[o + i] = [id |-> data[o].id, size |-> data[o].size, at |-> i]
  BY DEF FirstBytes
<1> QED BY <1>1

\* % UINT32 of what GetNextItemOffset computes: in range, and the identity in range.
LEMMA Modulo ==
  ASSUME NEW a \in Int
  PROVE  /\ a % UINT32 \in 0 .. UINT32 - 1
         /\ a \in 0 .. UINT32 - 1 => a % UINT32 = a
  BY Constants, SMT

\* What GetNextItemOffset returns is an offset in the data area or its end.
LEMMA NextIsOffset ==
  ASSUME TypeOK, NEW o \in Offsets, NEW n \in GetNextItemOffset(o)
  PROVE  n \in 0 .. MAX_DATA_OFFSET /\ n \in Offsets /\ o + ITEM_HEADER <= dataEnd
<1>1. ItemSizesAt(o) \subseteq Int
  <2>1. CASE HeaderAt(o)
    <3>1. o \in 0 .. dataEnd - 1
      BY <2>1, Constants DEF HeaderAt, StartsItem, TypeOK
    <3>2. data[o].size \in Nat
      BY <3>1, ByteFields
    <3> QED BY <2>1, <3>2, Constants DEF ItemSizesAt
  <2>2. CASE ~ HeaderAt(o)
    <3>1. GarbageSizes \subseteq Int /\ UINT32 - 1 \in Int
      BY StorageAssumption
    <3> QED BY <2>2, <3>1 DEF ItemSizesAt
  <2> QED BY <2>1, <2>2
<1>2. PICK s \in ItemSizesAt(o) : n = (o + ITEM_HEADER + s) % UINT32
  BY DEF GetNextItemOffset, NextOffsets
<1>3. n \in 0 .. UINT32 - 1
  <2>1. o + ITEM_HEADER + s \in Int
    BY <1>1, Constants
  <2> QED BY <1>2, <2>1, Modulo
<1> QED
  BY <1>3, Constants DEF GetNextItemOffset, NextOffsets, Readable

\* Of a whole item it returns the end.
LEMMA NextOfItem ==
  ASSUME TypeOK, dataEnd = MAX_DATA_OFFSET,
         NEW o \in Nat, Intact(o), data[o].size \in ItemSizes
  PROVE  /\ o + data[o].size <= MAX_DATA_OFFSET
         /\ GetNextItemOffset(o) = {o + data[o].size}
         /\ ~ GetNextItemOffsetThrows(o)
<1> DEFINE s == data[o].size
<1>1. s \in Nat /\ ITEM_HEADER < s
  BY Constants
<1>2. \A i \in 0 .. s - 1 : o + i < dataEnd
  BY DEF Intact, FirstBytes
<1>3. s - 1 \in 0 .. s - 1
  BY <1>1, Constants
<1>4. o + s <= MAX_DATA_OFFSET
  BY <1>1, <1>2, <1>3, Constants
<1>5. HeaderAt(o)
  <2>1. \A i \in 0 .. ITEM_HEADER - 1 : i \in 0 .. s - 1
    BY <1>1, Constants
  <2> QED BY <2>1 DEF HeaderAt, Intact, FirstBytes
<1>6. Readable(o)
  BY <1>1, <1>4, Constants DEF Readable
<1>7. ItemSizesAt(o) = {s - ITEM_HEADER}
  BY <1>5 DEF ItemSizesAt
<1>8. (o + ITEM_HEADER + (s - ITEM_HEADER)) % UINT32 = o + s
  <2>1. o + ITEM_HEADER + (s - ITEM_HEADER) = o + s
    BY <1>1, Constants
  <2>2. o + s \in 0 .. UINT32 - 1
    BY <1>1, <1>4, Constants
  <2> QED BY <2>1, <2>2, Modulo
<1>9. NextOffsets(o) = {o + s}
  BY <1>6, <1>7, <1>8 DEF NextOffsets
<1> QED
  BY <1>4, <1>6, <1>9, <1>1, Constants DEF GetNextItemOffset, GetNextItemOffsetThrows

-----------------------------------------------------------------------------
(* Type correctness. *)

\* AppendItem's assignments to the header in memory keep it a header of offsets.
LEMMA HeaderUpdates ==
  ASSUME NEW h \in FileHeaderStruct, NEW a \in Offsets, NEW b \in Offsets
  PROVE  /\ [h EXCEPT !.LastItemOffset = b] \in FileHeaderStruct
         /\ [h EXCEPT !.FirstItemOffset = a, !.LastItemOffset = b] \in FileHeaderStruct
         /\ [h EXCEPT !.PaddingOffset = a, !.LastItemOffset = b] \in FileHeaderStruct
         /\ h.FirstItemOffset \in Offsets
         /\ h.LastItemOffset \in Offsets
         /\ h.PaddingOffset \in Offsets
  BY DEF FileHeaderStruct

\* The places of an area of n bytes are numbers below n.
LEMMA BelowSize ==
  ASSUME NEW n \in Nat
  PROVE  \A o \in 0 .. n - 1 : o \in Nat /\ o < n
  OBVIOUS

\* The bytes of the item of a call.
ItemBytes == itemInsertOffset .. itemInsertOffset + size - 1

\* Writing the item of a call, or a part of it, keeps the data area a function of
\* bytes.
LEMMA WriteType ==
  ASSUME TypeInv, Appending, NEW n \in 0 .. size, Write(n)
  PROVE  /\ dataEnd' \in Nat /\ MAX_DATA_OFFSET <= dataEnd'
         /\ data' \in [0 .. dataEnd' - 1 -> Byte]
<1> USE DEF TypeInv, TypeOK
<1> DEFINE Part == itemInsertOffset .. itemInsertOffset + n - 1
<1>0. n \in Nat /\ itemInsertOffset \in Nat /\ dataEnd \in Nat /\ itemInsertOffset <= dataEnd
  BY Constants
<1>1. dataEnd' \in Nat /\ dataEnd <= dataEnd'
      /\ (dataEnd' = dataEnd \/ dataEnd' = itemInsertOffset + n)
  BY <1>0 DEF Write, LongerOf
<1>2. ASSUME NEW o \in 0 .. dataEnd' - 1
      PROVE  (IF o \in Part
              THEN [id |-> calls, size |-> size, at |-> o - itemInsertOffset]
              ELSE data[o]) \in Byte
  <2>0. o \in Nat /\ o < dataEnd'
    BY <1>1, BelowSize
  <2>1. CASE o \in Part
    <3>1. o - itemInsertOffset \in Nat
      BY <2>1, <1>0
    <3>2. size \in {0} \cup ItemSizes /\ calls \in 0 .. MAX_CALLS
      OBVIOUS
    <3> QED BY <2>1, <3>1, <3>2 DEF Byte
  <2>2. CASE o \notin Part
    <3>1. o \in 0 .. dataEnd - 1
      <4> HIDE DEF TypeInv, TypeOK
      <4> QED BY <1>0, <2>0, <2>2, <1>1
    <3> QED BY <2>2, <3>1
  <2> QED BY <2>1, <2>2
<1>3. data' = [o \in 0 .. dataEnd' - 1 |->
                 IF o \in Part
                 THEN [id |-> calls, size |-> size, at |-> o - itemInsertOffset]
                 ELSE data[o]]
  BY DEF Write
<1>4. data' \in [0 .. dataEnd' - 1 -> Byte]
  <2> HIDE DEF TypeInv, TypeOK, Part
  <2> QED BY <1>2, <1>3, Zenon
<1>5. MAX_DATA_OFFSET <= dataEnd'
  BY <1>1, Constants
<1> QED BY <1>1, <1>4, <1>5

\* Writing all of it.
LEMMA WriteItemType ==
  ASSUME TypeInv, Appending, WriteItem
  PROVE  /\ dataEnd' \in Nat /\ MAX_DATA_OFFSET <= dataEnd'
         /\ data' \in [0 .. dataEnd' - 1 -> Byte]
<1>1. size \in 0 .. size
  BY Constants DEF TypeInv, TypeOK
<1> QED BY <1>1, WriteType DEF WriteItem

\* The item of a call that has been placed joins the log.
LEMMA PlacedType ==
  ASSUME TypeInv, Placed
  PROVE  /\ log' \in Seq([id : 1 .. MAX_CALLS, offset : Offsets, size : ItemSizes])
         /\ Len(log') = Len(log) + 1
         /\ Len(log) \in Nat
         /\ log'[Len(log) + 1] = Published
         /\ \A k \in 1 .. Len(log) : log'[k] = log[k]
<1> DEFINE S == [id : 1 .. MAX_CALLS, offset : Offsets, size : ItemSizes]
<1>1. log \in Seq(S) /\ Published \in S /\ log' = Append(log, Published)
  BY DEF TypeInv, TypeOK, Appending, Placed, Published
<1> HIDE DEF S
<1>2. /\ log' \in Seq(S) /\ Len(log) \in Nat /\ Len(log') = Len(log) + 1
      /\ log'[Len(log) + 1] = Published
      /\ \A k \in 1 .. Len(log) : log'[k] = log[k]
  BY <1>1
<1> QED BY <1>2 DEF S

\* The new file is well typed.
THEOREM InitType == Init => TypeInv
<1> SUFFICES ASSUME Init PROVE TypeInv
  OBVIOUS
<1> USE DEF Init
<1>1. EmptyHeader \in FileHeaderStruct
  BY Constants DEF EmptyHeader, FileHeaderStruct
<1>2. Blank \in Byte
  BY Constants DEF Blank, Byte
<1>3. data \in [0 .. dataEnd - 1 -> Byte]
  BY <1>2
<1>4. Len(log) = 0 /\ log \in Seq([id : 1 .. MAX_CALLS, offset : Offsets, size : ItemSizes])
  BY EmptySeq
<1>5. named \in 0 .. Len(log)
  BY <1>4
<1>6. TypeOK
  <2>1. 0 \in Offsets /\ 0 \in Nat /\ MAX_DATA_OFFSET <= dataEnd /\ dataEnd \in Nat
        /\ calls \in 0 .. MAX_CALLS /\ faults \in 0 .. MAX_FAULTS
    BY Constants
  <2> QED BY <1>1, <1>3, <1>4, <1>5, <2>1 DEF TypeOK
<1> QED
  BY <1>6, Constants DEF TypeInv, Appending

\* Each step of AppendItem, each fault and each restart keeps the types.
THEOREM StepType == TypeInv /\ [Next]_vars => TypeInv'
<1> SUFFICES ASSUME TypeInv, [Next]_vars PROVE TypeInv'
  OBVIOUS
<1> USE DEF TypeInv, TypeOK, Appending, vars, disk, call
<1>1. ASSUME NEW s \in ItemSizes, AppendToEmpty(s) PROVE TypeInv'
  <2>1. 0 \in Offsets /\ 0 <= MAX_DATA_OFFSET
    BY Constants
  <2>2. mFileHeaderStruct' \in FileHeaderStruct
    BY <1>1, <2>1, HeaderUpdates DEF AppendToEmpty
  <2>3. /\ calls' = calls + 1 /\ calls < MAX_CALLS /\ size' = s
        /\ itemInsertOffset' = 0 /\ itemOffset' = 0 /\ pc' = "write"
        /\ UNCHANGED <<fileHeader, data, dataEnd, faults, torn, log, named, result>>
    BY <1>1 DEF AppendToEmpty, Call
  <2>4. calls' \in 0 .. MAX_CALLS /\ calls' \in 1 .. MAX_CALLS
    BY <2>3, Constants
  <2> QED BY <2>1, <2>2, <2>3, <2>4, Constants
<1>2. ASSUME NEW s \in ItemSizes, AppendSecond(s) PROVE TypeInv'
  <2>1. PICK n \in GetNextItemOffset(mFileHeaderStruct.LastItemOffset) : PlaceSecond(s, n)
    BY <1>2 DEF AppendSecond
  <2>2. n \in 0 .. MAX_DATA_OFFSET /\ n \in Offsets
    BY HeaderUpdates, NextIsOffset
  <2>3. mFileHeaderStruct' \in FileHeaderStruct
    BY <2>1, <2>2, HeaderUpdates DEF PlaceSecond
  <2>4. /\ itemInsertOffset' = n /\ itemOffset' = 0 /\ size' = s /\ pc' = "write"
        /\ 0 \in Offsets
    BY <2>1, Constants DEF PlaceSecond
  <2> QED BY <1>2, <2>2, <2>3, <2>4, Constants DEF AppendSecond, Call
<1>3. ASSUME NEW s \in ItemSizes, AppendFurther(s) PROVE TypeInv'
  <2>1. PICK n \in GetNextItemOffset(mFileHeaderStruct.LastItemOffset) : PlaceFurther(s, n)
    BY <1>3 DEF AppendFurther
  <2>2. n \in 0 .. MAX_DATA_OFFSET /\ n \in Offsets
    BY HeaderUpdates, NextIsOffset
  <2> HIDE DEF TypeInv
  <2>3. 0 \in Offsets /\ 0 <= MAX_DATA_OFFSET
    BY Constants
  <2> USE DEF TypeInv
  <2> DEFINE ins     == IF WrapsAt(n, s) THEN 0 ELSE n
             padding == IF WrapsAt(n, s) THEN n ELSE mFileHeaderStruct.PaddingOffset
             search  == ins <= mFileHeaderStruct.FirstItemOffset
             last    == IF search THEN mFileHeaderStruct.LastItemOffset ELSE ins
  <2>4. /\ mFileHeaderStruct.PaddingOffset \in Offsets
        /\ mFileHeaderStruct.LastItemOffset \in Offsets
        /\ mFileHeaderStruct.FirstItemOffset \in Offsets
    BY <2>2, HeaderUpdates
  <2>5. ins \in Offsets /\ ins <= MAX_DATA_OFFSET /\ padding \in Offsets /\ last \in Offsets
    <3> HIDE DEF TypeInv, TypeOK
    <3>1. ins \in Offsets /\ ins <= MAX_DATA_OFFSET /\ padding \in Offsets
      BY <2>2, <2>3, <2>4
    <3> HIDE DEF ins, search
    <3> QED BY <3>1, <2>4
  <2>6. [mFileHeaderStruct EXCEPT !.PaddingOffset = padding, !.LastItemOffset = last]
           \in FileHeaderStruct
    <3> HIDE DEF padding, last
    <3> QED BY <2>5, HeaderUpdates
  <2>7. mFileHeaderStruct' \in FileHeaderStruct /\ itemInsertOffset' \in Offsets
        /\ itemInsertOffset' <= MAX_DATA_OFFSET
        /\ itemOffset' \in Offsets /\ pc' \in {"search", "write"} /\ size' = s
    BY <2>1, <2>3, <2>5, <2>6, HeaderUpdates DEF PlaceFurther
  <2> QED BY <1>3, <2>7, Constants DEF AppendFurther, Call
<1>4. ASSUME NEW s \in ItemSizes, AppendThrows(s) PROVE TypeInv'
  BY <1>4, Constants DEF AppendThrows, Call
<1>5. CASE SearchFirst
  <2>1. itemOffset' \in Offsets
    BY <1>5, NextIsOffset DEF SearchFirst
  <2> QED BY <1>5, <2>1 DEF SearchFirst
<1>6. CASE SearchFound
  <2>1. mFileHeaderStruct' \in FileHeaderStruct
    BY <1>6, HeaderUpdates DEF SearchFound
  <2> QED BY <1>6, <2>1 DEF SearchFound
<1>7. CASE SearchThrows
  BY <1>7 DEF SearchThrows
<1>8. CASE WriteData
  <2>1. data' \in [0 .. dataEnd' - 1 -> Byte] /\ dataEnd' \in Nat /\ MAX_DATA_OFFSET <= dataEnd'
    BY <1>8, WriteItemType DEF WriteData
  <2> QED BY <1>8, <2>1 DEF WriteData
<1>9. CASE BufferData
  BY <1>9 DEF BufferData
<1>10. CASE UpdateFileHeader
  <2>1. log' \in Seq([id : 1 .. MAX_CALLS, offset : Offsets, size : ItemSizes])
        /\ Len(log') \in Nat
    BY <1>10, PlacedType DEF UpdateFileHeader
  <2> QED BY <1>10, <2>1 DEF UpdateFileHeader, Placed
<1>11. CASE FlushData
  <2>1. data' \in [0 .. dataEnd' - 1 -> Byte] /\ dataEnd' \in Nat /\ MAX_DATA_OFFSET <= dataEnd'
    BY <1>11, WriteItemType DEF FlushData
  <2> QED BY <1>11, <2>1 DEF FlushData
<1>12. CASE WriteFails
  <2>1. PICK n \in 0 .. size - 1 : Write(n)
    BY <1>12 DEF WriteFails
  <2>2. n \in 0 .. size
    BY <2>1, Constants
  <2>3. data' \in [0 .. dataEnd' - 1 -> Byte] /\ dataEnd' \in Nat /\ MAX_DATA_OFFSET <= dataEnd'
    BY <1>12, <2>1, <2>2, WriteType DEF WriteFails
  <2>4. faults' \in 0 .. MAX_FAULTS
    BY <1>12, Constants DEF WriteFails
  <2>5. /\ pc' \in {"idle", "down"} /\ result' = "throw" /\ torn' = TRUE
        /\ UNCHANGED <<fileHeader, mFileHeaderStruct, call, calls, log, named>>
    BY <1>12 DEF WriteFails
  <2> QED BY <2>3, <2>4, <2>5
<1>13. CASE Crash
  BY <1>13, Constants DEF Crash
<1>14. CASE Restart
  BY <1>14 DEF Restart
<1>15. CASE HeaderLost
  <2>1. log' \in Seq([id : 1 .. MAX_CALLS, offset : Offsets, size : ItemSizes])
        /\ Len(log') = Len(log) + 1 /\ Len(log) \in Nat
    BY <1>15, PlacedType DEF HeaderLost
  <2> QED BY <1>15, <2>1, Constants DEF HeaderLost, Placed
<1>16. CASE FlushLost
  BY <1>16, Constants DEF FlushLost
<1>17. CASE OpenFails
  <2>1. calls' \in 0 .. MAX_CALLS /\ faults' \in 0 .. MAX_FAULTS
    BY <1>17, Constants DEF OpenFails
  <2> QED BY <1>17, <2>1 DEF OpenFails
<1>18. CASE UNCHANGED vars
  BY <1>18
<1> QED
  BY <1>1, <1>2, <1>3, <1>4, <1>5, <1>6, <1>7, <1>8, <1>9, <1>10, <1>11, <1>12,
     <1>13, <1>14, <1>15, <1>16, <1>17, <1>18 DEF Next, AppendItem

\* TypeOK holds of every ring file, whatever the sizes and the faults.
THEOREM TypeCorrect == Spec => []TypeOK
<1>1. TypeInv => TypeOK
  BY DEF TypeInv
<1> QED
  BY InitType, StepType, <1>1, PTL DEF Spec

-----------------------------------------------------------------------------
(* The inductive invariant.  AppendItem finds the place of a new item from  *)
(* the size of the newest one, so everything rests on LastItemOffset naming *)
(* a whole item, on no older item reaching past that place, and on the new  *)
(* item leaving the newest one alone when the ring goes back to 0.          *)

Newest   == log[Len(log)]
End(item) == item.offset + item.size

\* LastItemOffset on the disk, which may be behind, and the log.
NewestInv ==
    /\ named = 0 => fileHeader.LastItemOffset = INVALID_OFFSET
    /\ named > 0 => fileHeader.LastItemOffset = log[named].offset
    /\ log # <<>> => /\ Newest.offset < MAX_DATA_OFFSET
                     /\ pc = "flush" => Newest = Published
                     /\ pc # "flush" => /\ StartsItem(Newest.offset)
                                        /\ data[Newest.offset].id = Newest.id
                                        /\ data[Newest.offset].size = Newest.size
    /\ pc = "flush" => log # <<>>

\* The writer's copy of LastItemOffset is never behind; it may be lost in a
\* crash only while the header on the disk is not behind either.
MemoryInv ==
    /\ pc \in {"idle", "search"} =>
          mFileHeaderStruct.LastItemOffset =
             IF log = <<>> THEN INVALID_OFFSET ELSE Newest.offset
    /\ pc = "down" => named = Len(log)
    /\ pc \in {"write", "publish", "publishBuffered", "flush"} =>
          mFileHeaderStruct.LastItemOffset = itemInsertOffset

\* No item that starts before offset n reaches past it.
NoneAcross(n) == \A o \in 0 .. n - 1 : StartsItem(o) => o + data[o].size <= n

\* Offset n is next to the newest item, or back at 0 because it must be.
Follows(n, s) == n = End(Newest) \/ (n = 0 /\ WrapsAt(End(Newest), s))

\* A place for an item of s bytes after, or around, the newest one.
GoodPlace(n, s) ==
    /\ n + s <= MAX_DATA_OFFSET
    /\ NoneAcross(n)
    /\ log # <<>> => Newest.offset \notin n .. n + s - 1 /\ Follows(n, s)

PlaceInv ==
    /\ pc \in {"search", "write", "publishBuffered"} => GoodPlace(itemInsertOffset, size)
    /\ pc = "publish" =>
          /\ StartsItem(itemInsertOffset)
          /\ data[itemInsertOffset].id = calls
          /\ data[itemInsertOffset].size = size
          /\ log # <<>> => Follows(itemInsertOffset, size)
    /\ pc = "flush" =>
          /\ itemInsertOffset + size <= MAX_DATA_OFFSET
          /\ NoneAcross(itemInsertOffset)

AllIntact == \A o \in 0 .. dataEnd - 1 : StartsItem(o) => Intact(o)
Chained ==
    \A k \in 1 .. Len(log) - 1 :
       \/ log[k + 1].offset = End(log[k])
       \/ log[k + 1].offset = 0 /\ WrapsAt(End(log[k]), log[k + 1].size)

Ring ==
    /\ dataEnd = MAX_DATA_OFFSET
    /\ AllIntact
    /\ Chained
    /\ NewestInv
    /\ MemoryInv
    /\ PlaceInv

RingInv == TypeInv /\ (~ torn => Ring)

\* The newest item of the log is a record of an item, at a place in the file.
LEMMA NewestType ==
  ASSUME TypeOK, log # <<>>
  PROVE  Newest \in [id : 1 .. MAX_CALLS, offset : Offsets, size : ItemSizes]
<1> DEFINE S == [id : 1 .. MAX_CALLS, offset : Offsets, size : ItemSizes]
<1>1. log \in Seq(S)
  BY DEF TypeOK
<1> HIDE DEF S
<1>2. Len(log) \in Nat /\ Len(log) # 0
  BY <1>1, EmptySeq
<1>3. Len(log) \in 1 .. Len(log)
  BY <1>2
<1>4. log[Len(log)] \in S
  BY <1>1, <1>3, ElementOfSeq
<1> QED
  BY <1>4 DEF Newest, S

\* The log is not shorter than the part of it the header has taken in.
LEMMA LogLength ==
  ASSUME TypeOK
  PROVE  /\ Len(log) \in Nat /\ named \in Nat /\ named <= Len(log)
         /\ log = <<>> <=> Len(log) = 0
<1> DEFINE S == [id : 1 .. MAX_CALLS, offset : Offsets, size : ItemSizes]
<1>1. log \in Seq(S) /\ named \in 0 .. Len(log)
  BY DEF TypeOK
<1> HIDE DEF S
<1> QED BY <1>1, EmptySeq

\* Facts about the newest item, and where GetNextItemOffset sends its successor.
LEMMA Successor ==
  ASSUME TypeInv, Ring, pc = "idle",
         NEW n \in GetNextItemOffset(mFileHeaderStruct.LastItemOffset)
  PROVE  /\ log # <<>>
         /\ Newest.offset = mFileHeaderStruct.LastItemOffset
         /\ Newest.offset \in Nat
         /\ Newest.size \in ItemSizes
         /\ n = End(Newest)
         /\ n <= MAX_DATA_OFFSET
         /\ NoneAcross(n)
<1> DEFINE L == mFileHeaderStruct.LastItemOffset
<1>1. log # <<>>
  <2> SUFFICES ASSUME log = <<>> PROVE FALSE
    OBVIOUS
  <2>1. L = INVALID_OFFSET
    BY DEF Ring, MemoryInv
  <2>2. L + ITEM_HEADER <= dataEnd
    BY <2>1, Constants, NextIsOffset DEF TypeInv
  <2> QED BY <2>1, <2>2, Constants DEF Ring
<1>2. Newest \in [id : 1 .. MAX_CALLS, offset : Offsets, size : ItemSizes]
  BY <1>1, NewestType DEF TypeInv
<1>3. L = Newest.offset /\ L \in Nat /\ L < MAX_DATA_OFFSET
      /\ Newest.size \in ItemSizes
  BY <1>1, <1>2, Constants DEF Ring, NewestInv, MemoryInv
<1>4. StartsItem(L) /\ data[L].size = Newest.size
  BY <1>1, <1>3 DEF Ring, NewestInv
<1>5. L \in 0 .. dataEnd - 1
  BY <1>3, Constants DEF Ring
<1>6. Intact(L)
  BY <1>4, <1>5 DEF Ring, AllIntact
<1>7. n = L + data[L].size /\ n <= MAX_DATA_OFFSET
  BY <1>3, <1>4, <1>6, NextOfItem DEF TypeInv, Ring
<1>8. ASSUME NEW o \in 0 .. n - 1, StartsItem(o) PROVE o + data[o].size <= n
  <2> DEFINE sl == data[L].size
  <2>1. sl \in Nat /\ n = L + sl /\ n \in Nat
    <3>1. sl \in Nat
      BY <1>3, <1>4, ItemSize
    <3> QED BY <3>1, <1>3, <1>7
  <2>2. o \in 0 .. dataEnd - 1 /\ o \in Nat
    BY <1>7, <2>1, Constants DEF Ring
  <2>3. data[o].size \in Nat
    BY <2>2, ByteFields DEF TypeInv
  <2>4. Intact(o)
    BY <1>8, <2>2 DEF Ring, AllIntact
  <2>5. CASE o < L
    <3>1. SUFFICES ASSUME o + data[o].size > n PROVE FALSE
      BY <2>1, <2>2, <2>3
    <3>2. L - o \in 0 .. data[o].size - 1 /\ L - o > 0
      BY <3>1, <2>1, <2>2, <2>3, <2>5, <1>3
    <3>3. \A i \in 0 .. data[o].size - 1 : data[o + i].at = i
      BY <2>4, ByteOf DEF Intact
    <3>4. data[o + (L - o)].at = L - o
      BY <3>2, <3>3, Zenon
    <3>5. o + (L - o) = L
      BY <2>2, <1>3
    <3> QED BY <3>2, <3>4, <3>5, <1>4 DEF StartsItem
  <2>6. CASE o = L
    BY <2>6, <2>1
  <2>7. CASE o > L
    <3>1. o - L \in 0 .. sl - 1 /\ o - L > 0
      BY <2>1, <2>2, <2>7, <1>3
    <3>2. \A i \in 0 .. sl - 1 : data[L + i].at = i
      BY <1>6, ByteOf DEF Intact
    <3>3. data[L + (o - L)].at = o - L
      BY <3>1, <3>2, Zenon
    <3>4. L + (o - L) = o
      BY <2>2, <1>3
    <3> QED BY <3>1, <3>3, <3>4, <1>8 DEF StartsItem
  <2> QED BY <2>5, <2>6, <2>7, <2>2, <1>3
<1> QED
  BY <1>1, <1>3, <1>4, <1>7, <1>8 DEF NoneAcross, End

\* Writing an item at a place nothing reaches past leaves every item whole.
LEMMA WriteKeepsItems ==
  ASSUME TypeInv, Appending, AllIntact, dataEnd = MAX_DATA_OFFSET,
         itemInsertOffset + size <= MAX_DATA_OFFSET,
         NoneAcross(itemInsertOffset), WriteItem, UNCHANGED call
  PROVE  /\ dataEnd' = MAX_DATA_OFFSET
         /\ \A o \in 0 .. dataEnd - 1 : o \notin ItemBytes => data'[o] = data[o]
         /\ StartsItem(itemInsertOffset)'
         /\ data'[itemInsertOffset].id = calls
         /\ data'[itemInsertOffset].size = size
         /\ AllIntact'
<1> DEFINE ins == itemInsertOffset
<1>0. ins' = ins /\ size' = size
  BY DEF call
<1>1. ins \in Nat /\ size \in Nat /\ size > 0 /\ size \in ItemSizes
      /\ calls \in Nat /\ calls # 0 /\ MAX_DATA_OFFSET \in Nat
  BY Constants DEF TypeInv, TypeOK
<1>2. dataEnd' = MAX_DATA_OFFSET
  BY <1>1 DEF WriteItem, Write, LongerOf
<1>3. \A o \in 0 .. MAX_DATA_OFFSET - 1 :
         data'[o] = IF o \in ItemBytes
                    THEN [id |-> calls, size |-> size, at |-> o - itemInsertOffset]
                    ELSE data[o]
  BY <1>2 DEF WriteItem, Write, ItemBytes
<1>4. ItemBytes \subseteq 0 .. MAX_DATA_OFFSET - 1 /\ ins \in ItemBytes
  BY <1>1 DEF ItemBytes
<1>5. \A o \in 0 .. dataEnd - 1 : o \notin ItemBytes => data'[o] = data[o]
  BY <1>3
<1>6. \A i \in 0 .. size - 1 : ins + i \in ItemBytes /\ (ins + i) - ins = i
  BY <1>1 DEF ItemBytes
<1>7. \A i \in 0 .. size - 1 : data'[ins + i] = [id |-> calls, size |-> size, at |-> i]
  BY <1>3, <1>4, <1>6
<1>8. /\ data'[ins] = [id |-> calls, size |-> size, at |-> 0]
      /\ data'[ins].id = calls /\ data'[ins].size = size /\ data'[ins].at = 0
  <2>1. 0 \in 0 .. size - 1 /\ ins + 0 = ins
    BY <1>1
  <2>2. data'[ins] = [id |-> calls, size |-> size, at |-> 0]
    BY <2>1, <1>7
  <2> QED BY <2>2
<1>9. StartsItem(ins)'
  <2>1. ins < dataEnd'
    BY <1>1, <1>2
  <2> QED BY <2>1, <1>0, <1>1, <1>8 DEF StartsItem
<1>10. ASSUME NEW o \in 0 .. MAX_DATA_OFFSET - 1, StartsItem(o)' PROVE Intact(o)'
  <2>1. CASE o = ins
    <3>1. \A i \in 0 .. size - 1 : ins + i < dataEnd'
      BY <1>1, <1>2
    <3>2. FirstBytes(ins, size)'
      BY <3>1, <1>0, <1>7, <1>8 DEF FirstBytes
    <3> QED BY <2>1, <3>2, <1>0, <1>8, <1>9 DEF Intact
  <2>2. CASE o \in ItemBytes /\ o # ins
    <3>1. data'[o] = [id |-> calls, size |-> size, at |-> o - itemInsertOffset]
      BY <2>2, <1>3
    <3>2. data'[o].at = o - ins
      BY <3>1
    <3>3. o - ins # 0
      BY <2>2, <1>1 DEF ItemBytes
    <3> QED BY <3>2, <3>3, <1>10 DEF StartsItem
  <2>3. CASE o \notin ItemBytes
    <3>1. data'[o] = data[o]
      BY <2>3, <1>3
    <3>2. StartsItem(o) /\ Intact(o)
      BY <3>1, <1>2, <1>10 DEF StartsItem, AllIntact
    <3>3. data[o].size \in Nat
      BY ByteFields DEF TypeInv
    <3>4. ASSUME NEW i \in 0 .. data[o].size - 1 PROVE data'[o + i] = data[o + i] /\ o + i < dataEnd'
      <4>3. o + i < dataEnd
        BY <3>2 DEF Intact, FirstBytes
      <4>1. o + i < MAX_DATA_OFFSET /\ o + i \in 0 .. MAX_DATA_OFFSET - 1
        BY <4>3, <3>3, <1>1
      <4>2. o + i \notin ItemBytes
        <5>1. CASE o < ins
          <6>1. o + data[o].size <= ins
            BY <5>1, <3>2, <1>1 DEF NoneAcross
          <6> QED BY <6>1, <3>3, <1>1 DEF ItemBytes
        <5>2. CASE o >= ins + size
          BY <5>2, <3>3, <1>1 DEF ItemBytes
        <5> QED BY <5>1, <5>2, <2>3, <1>1 DEF ItemBytes
      <4> QED BY <4>1, <4>2, <1>2, <1>3
    <3> QED BY <3>1, <3>2, <3>4, <1>10 DEF Intact, FirstBytes
  <2> QED BY <2>1, <2>2, <2>3
<1> QED
  BY <1>2, <1>5, <1>8, <1>9, <1>10 DEF AllIntact

\* A step that leaves the file and the log alone, outside the time between the
\* header and the flush, keeps what Ring says of the file.
LEMMA SameStore ==
  ASSUME Ring, UNCHANGED <<disk, log, named>>, pc # "flush", pc' # "flush"
  PROVE  /\ (dataEnd = MAX_DATA_OFFSET)' /\ AllIntact' /\ Chained' /\ NewestInv'
         /\ \A n : NoneAcross(n) => NoneAcross(n)'
         /\ Newest' = Newest
<1> USE DEF disk
<1>1. (dataEnd = MAX_DATA_OFFSET)'
  BY DEF Ring
<1>2. AllIntact'
  BY DEF Ring, AllIntact, StartsItem, Intact, FirstBytes
<1>3. Chained'
  BY DEF Ring, Chained, End, WrapsAt
<1>4. Newest' = Newest
  BY DEF Newest
<1>5. NewestInv'
  BY <1>4 DEF Ring, NewestInv, StartsItem
<1>6. \A n : NoneAcross(n) => NoneAcross(n)'
  BY DEF NoneAcross, StartsItem
<1> QED BY <1>1, <1>2, <1>3, <1>4, <1>5, <1>6

\* The new file has the ring's inductive invariant.
THEOREM InitRing == Init => RingInv
<1> SUFFICES ASSUME Init PROVE RingInv
  OBVIOUS
<1>1. TypeInv
  BY InitType
<1>2. \A o \in 0 .. dataEnd - 1 : ~ StartsItem(o)
  BY DEF Init, StartsItem, Blank
<1>3. NewestInv /\ MemoryInv /\ PlaceInv
  BY DEF Init, EmptyHeader, NewestInv, MemoryInv, PlaceInv
<1>4. Chained
  BY DEF Init, Chained
<1> QED
  BY <1>1, <1>2, <1>3, <1>4 DEF RingInv, Ring, AllIntact, Init

\* Placing an item that follows the newest one keeps the chain.
LEMMA PlacedChains ==
  ASSUME TypeInv, Chained, Placed,
         log # <<>> => Follows(itemInsertOffset, size)
  PROVE  log' # <<>> /\ Newest' = Published /\ Chained'
<1>1. Len(log') \in Nat /\ Len(log') = Len(log) + 1
  BY PlacedType
<1>2. /\ Len(log) \in Nat
      /\ log'[Len(log) + 1] = Published
      /\ \A k \in 1 .. Len(log) : log'[k] = log[k]
  BY PlacedType
<1>3. Newest' = Published /\ log' # <<>>
  <2>1. Len(<<>>) = 0
    BY EmptySeq
  <2> QED BY <1>1, <1>2, <2>1 DEF Newest
<1>4. ASSUME NEW k \in 1 .. Len(log') - 1
      PROVE  \/ log'[k + 1].offset = End(log'[k])
             \/ log'[k + 1].offset = 0 /\ WrapsAt(End(log'[k]), log'[k + 1].size)
  <2>1. CASE k < Len(log)
    <3>1. k \in 1 .. Len(log) - 1 /\ log'[k] = log[k] /\ log'[k + 1] = log[k + 1]
      BY <2>1, <1>2
    <3> QED BY <3>1 DEF Chained
  <2>2. CASE k = Len(log)
    <3>1. log'[k + 1] = Published /\ log'[k] = Newest
      BY <2>2, <1>2 DEF Newest
    <3>2. log # <<>>
      BY <2>2, EmptySeq
    <3>3. Published.offset = itemInsertOffset /\ Published.size = size
      BY DEF Published
    <3> QED BY <3>1, <3>2, <3>3 DEF Follows
  <2> QED BY <2>1, <2>2, <1>1, <1>2
<1> QED
  BY <1>3, <1>4 DEF Chained, WrapsAt, End

\* Once an item is placed the ring is as it has to be, whether its header has
\* reached the disk or not: that part is left to the two actions.
LEMMA PlacedRing ==
  ASSUME TypeInv, Ring, Placed
  PROVE  /\ (dataEnd = MAX_DATA_OFFSET)' /\ AllIntact' /\ Chained'
         /\ MemoryInv' /\ PlaceInv'
         /\ mFileHeaderStruct.LastItemOffset = Published.offset
         /\ log'[Len(log')] = Published /\ Len(log') > 0
         /\ log' # <<>> => /\ Newest'.offset < MAX_DATA_OFFSET
                           /\ pc' = "flush" => Newest' = Published'
                           /\ pc' # "flush" => /\ StartsItem(Newest.offset)'
                                               /\ data'[Newest'.offset].id = Newest'.id
                                               /\ data'[Newest'.offset].size = Newest'.size
         /\ log' # <<>>
<1>1. /\ pc \in {"publish", "publishBuffered"}
      /\ pc' = IF pc = "publish" THEN "idle" ELSE "flush"
      /\ UNCHANGED <<data, dataEnd, mFileHeaderStruct, calls>> /\ UNCHANGED call
  BY DEF Placed
<1>2. /\ itemInsertOffset' = itemInsertOffset /\ size' = size
      /\ Published' = Published
      /\ Published.offset = itemInsertOffset
      /\ Published.id = calls /\ Published.size = size
  BY <1>1 DEF call, Published
<1>3. /\ log # <<>> => Follows(itemInsertOffset, size)
      /\ itemInsertOffset < MAX_DATA_OFFSET
  <2>1. size \in Nat /\ size > 0 /\ itemInsertOffset \in Nat
    BY <1>1, ItemSize, Constants DEF TypeInv, TypeOK, Appending
  <2>2. CASE pc = "publish"
    BY <2>2 DEF Ring, PlaceInv, StartsItem
  <2>3. CASE pc = "publishBuffered"
    BY <2>1, <2>3, Constants DEF Ring, PlaceInv, GoodPlace
  <2> QED BY <1>1, <2>2, <2>3
<1>4. log' # <<>> /\ Newest' = Published /\ Chained'
  <2>1. Chained
    BY DEF Ring
  <2> QED BY <1>3, <2>1, PlacedChains
<1>5. (dataEnd = MAX_DATA_OFFSET)' /\ AllIntact'
  BY <1>1 DEF Ring, AllIntact, StartsItem, Intact, FirstBytes
<1>6. mFileHeaderStruct.LastItemOffset = itemInsertOffset
  BY <1>1 DEF Ring, MemoryInv
<1>7. log'[Len(log')] = Published /\ Len(log') > 0
  BY PlacedType
<1>8. pc' # "flush" => /\ StartsItem(Newest.offset)'
                      /\ data'[Newest'.offset].id = Newest'.id
                      /\ data'[Newest'.offset].size = Newest'.size
  BY <1>1, <1>2, <1>4 DEF Ring, PlaceInv, StartsItem
<1>9. MemoryInv'
  BY <1>1, <1>2, <1>4, <1>6 DEF MemoryInv
<1>10. PlaceInv'
  BY <1>1, <1>2 DEF Ring, PlaceInv, GoodPlace, NoneAcross, StartsItem
<1> QED BY <1>2, <1>3, <1>4, <1>5, <1>6, <1>7, <1>8, <1>9, <1>10

\* One step of AppendItem, or of a fault that leaves no torn header.
LEMMA StepRing ==
  ASSUME SmallItems, TypeInv, TypeInv', Ring, ~ torn', Next
  PROVE  Ring'
<1>1. ASSUME NEW s \in ItemSizes, AppendToEmpty(s) PROVE Ring'
  <2>1. /\ pc = "idle" /\ pc' = "write" /\ UNCHANGED <<disk, log, named>>
        /\ itemInsertOffset' = 0 /\ size' = s
    BY <1>1 DEF AppendToEmpty, Call
  <2>2. mFileHeaderStruct'.LastItemOffset = 0
    BY <1>1 DEF AppendToEmpty, TypeInv, TypeOK, FileHeaderStruct
  <2>3. log = <<>>
    <3>1. log # <<>> => Newest.offset = INVALID_OFFSET
      BY <1>1, <2>1 DEF AppendToEmpty, NoItem, Ring, MemoryInv
    <3>2. log # <<>> => Newest.offset < MAX_DATA_OFFSET
      BY DEF Ring, NewestInv
    <3> QED BY <3>1, <3>2, Constants
  <2>4. s <= MAX_DATA_OFFSET
    BY ItemSize, Constants DEF SmallItems
  <2>5. GoodPlace(itemInsertOffset, size)'
    BY <2>1, <2>3, <2>4, ItemSize DEF GoodPlace, NoneAcross
  <2> QED BY <2>1, <2>2, <2>5, SameStore DEF Ring, MemoryInv, PlaceInv
<1>2. ASSUME NEW s \in ItemSizes, AppendSecond(s) PROVE Ring'
  <2>1. PICK n \in GetNextItemOffset(mFileHeaderStruct.LastItemOffset) : PlaceSecond(s, n)
    BY <1>2 DEF AppendSecond
  <2>2. pc = "idle" /\ pc' = "write" /\ UNCHANGED <<disk, log, named>>
        /\ itemInsertOffset' = n /\ size' = s
    BY <1>2, <2>1 DEF AppendSecond, PlaceSecond, Call
  <2>3. mFileHeaderStruct'.LastItemOffset = n
    BY <2>1 DEF PlaceSecond, TypeInv, TypeOK, FileHeaderStruct
  <2>4. /\ Newest.offset = 0 /\ Newest.size \in ItemSizes
        /\ n = End(Newest) /\ NoneAcross(n)
    BY <1>2, <2>2, Successor DEF AppendSecond, OneItem
  <2>5. n = Newest.size /\ n \in Nat /\ n > 0 /\ s \in Nat /\ n + s <= MAX_DATA_OFFSET
    <3>1. n = Newest.size /\ n \in Nat /\ n > 0 /\ s \in Nat
      BY <2>4, ItemSize DEF End
    <3>2. 3 * n <= MAX_DATA_OFFSET /\ 3 * s <= MAX_DATA_OFFSET
      BY <2>4, <3>1 DEF SmallItems
    <3> QED BY <3>1, <3>2, Constants
  <2>6. GoodPlace(n, s)
    BY <2>4, <2>5 DEF GoodPlace, Follows
  <2>7. GoodPlace(itemInsertOffset, size)'
    BY <2>2, <2>6, SameStore DEF GoodPlace, WrapsAt, End, Follows
  <2> QED BY <2>2, <2>3, <2>7, SameStore DEF Ring, MemoryInv, PlaceInv
<1>3. ASSUME NEW s \in ItemSizes, AppendFurther(s) PROVE Ring'
  <2>1. PICK n \in GetNextItemOffset(mFileHeaderStruct.LastItemOffset) : PlaceFurther(s, n)
    BY <1>3 DEF AppendFurther
  <2> DEFINE ins == IF WrapsAt(n, s) THEN 0 ELSE n
  <2>2. /\ pc = "idle" /\ pc' \in {"search", "write"} /\ UNCHANGED <<disk, log, named>>
        /\ itemInsertOffset' = ins /\ size' = s
    BY <1>3, <2>1 DEF AppendFurther, PlaceFurther, Call
  <2>3. mFileHeaderStruct'.LastItemOffset =
           IF pc' = "search" THEN mFileHeaderStruct.LastItemOffset ELSE ins
    BY <2>1 DEF PlaceFurther, TypeInv, TypeOK, FileHeaderStruct
  <2>4. /\ log # <<>> /\ Newest.offset \in Nat /\ Newest.size \in ItemSizes
        /\ n = End(Newest) /\ n <= MAX_DATA_OFFSET /\ NoneAcross(n)
    BY <2>2, Successor
  <2>5. /\ n = Newest.offset + Newest.size /\ Newest.size \in Nat /\ Newest.size > 0
        /\ s \in Nat /\ s > 0
        /\ 3 * Newest.size <= MAX_DATA_OFFSET /\ 3 * s <= MAX_DATA_OFFSET
    BY <2>4, ItemSize DEF SmallItems, End
  <2>6. GoodPlace(ins, s)
    <3>1. CASE WrapsAt(n, s)
      <4>1. Newest.offset >= s
        BY <2>4, <2>5, <3>1, Constants DEF WrapsAt
      <4>2. s <= MAX_DATA_OFFSET
        BY <2>5, Constants
      <4>3. NoneAcross(0)
        BY DEF NoneAcross
      <4> QED BY <2>4, <2>5, <3>1, <4>1, <4>2, <4>3 DEF GoodPlace, Follows
    <3>2. CASE ~ WrapsAt(n, s)
      BY <2>4, <2>5, <3>2, Constants DEF GoodPlace, Follows, WrapsAt
    <3> QED BY <3>1, <3>2
  <2>7. GoodPlace(itemInsertOffset, size)'
    <3> HIDE DEF ins
    <3> QED BY <2>2, <2>6, SameStore DEF GoodPlace, WrapsAt, End, Follows
  <2>8. MemoryInv'
    <3> HIDE DEF ins
    <3> QED BY <2>2, <2>3, SameStore DEF Ring, MemoryInv
  <2> QED BY <2>2, <2>7, <2>8, SameStore DEF Ring, PlaceInv
<1>4. ASSUME NEW s \in ItemSizes, AppendThrows(s) PROVE Ring'
  <2>1. pc = "idle" /\ pc' = "idle" /\ UNCHANGED <<disk, log, named, mFileHeaderStruct>>
    BY <1>4 DEF AppendThrows, Call
  <2> QED BY <2>1, SameStore DEF Ring, MemoryInv, PlaceInv, disk
<1>5. CASE SearchFirst
  <2>1. pc = "search" /\ pc' = "search"
        /\ UNCHANGED <<disk, log, named, mFileHeaderStruct, itemInsertOffset, size>>
    BY <1>5 DEF SearchFirst
  <2>2. GoodPlace(itemInsertOffset, size)'
    BY <2>1, SameStore DEF Ring, PlaceInv, GoodPlace, WrapsAt, End, Follows
  <2> QED BY <2>1, <2>2, SameStore DEF Ring, MemoryInv, PlaceInv, disk
<1>6. CASE SearchFound
  <2>1. pc = "search" /\ pc' = "write" /\ UNCHANGED <<disk, log, named, itemInsertOffset, size>>
    BY <1>6 DEF SearchFound, call
  <2>2. mFileHeaderStruct'.LastItemOffset = itemInsertOffset
    BY <1>6 DEF SearchFound, TypeInv, TypeOK, FileHeaderStruct
  <2>3. GoodPlace(itemInsertOffset, size)'
    BY <2>1, SameStore DEF Ring, PlaceInv, GoodPlace, WrapsAt, End, Follows
  <2> QED BY <2>1, <2>2, <2>3, SameStore DEF Ring, MemoryInv, PlaceInv
<1>7. CASE SearchThrows
  <2>1. pc = "search" /\ pc' = "idle" /\ UNCHANGED <<disk, log, named, mFileHeaderStruct>>
    BY <1>7 DEF SearchThrows
  <2> QED BY <2>1, SameStore DEF Ring, MemoryInv, PlaceInv, disk
<1>8. CASE WriteData
  <2>1. pc = "write" /\ pc' = "publish" /\ WriteItem
        /\ UNCHANGED <<fileHeader, mFileHeaderStruct, log, named, calls>> /\ UNCHANGED call
    BY <1>8 DEF WriteData
  <2>2. itemInsertOffset' = itemInsertOffset /\ size' = size /\ Newest' = Newest
    BY <2>1 DEF call, Newest
  <2>3. GoodPlace(itemInsertOffset, size)
    BY <2>1 DEF Ring, PlaceInv
  <2>4. /\ dataEnd' = MAX_DATA_OFFSET
        /\ \A o \in 0 .. dataEnd - 1 : o \notin ItemBytes => data'[o] = data[o]
        /\ StartsItem(itemInsertOffset)'
        /\ data'[itemInsertOffset].id = calls
        /\ data'[itemInsertOffset].size = size
        /\ AllIntact'
    BY <2>1, <2>3, WriteKeepsItems DEF Ring, GoodPlace, Appending
  <2>5. Chained'
    BY <2>1 DEF Ring, Chained, End, WrapsAt
  <2>6. NewestInv'
    <3>1. SUFFICES ASSUME log # <<>>
                   PROVE  /\ StartsItem(Newest.offset)'
                          /\ data'[Newest.offset] = data[Newest.offset]
      BY <2>1, <2>2 DEF Ring, NewestInv
    <3>2. Newest.offset \in 0 .. MAX_DATA_OFFSET - 1 /\ Newest.offset \notin ItemBytes
      <4>1. Newest.offset \in Nat
        BY <3>1, NewestType, Constants DEF TypeInv
      <4>2. Newest.offset < MAX_DATA_OFFSET
        BY <3>1 DEF Ring, NewestInv
      <4>3. Newest.offset \notin ItemBytes
        BY <2>3, <3>1 DEF GoodPlace, ItemBytes
      <4> QED BY <4>1, <4>2, <4>3, Constants
    <3>3. data'[Newest.offset] = data[Newest.offset]
      BY <3>2, <2>4 DEF Ring
    <3>4. StartsItem(Newest.offset)
      BY <2>1, <3>1 DEF Ring, NewestInv
    <3> QED BY <3>3, <3>4, <2>2, <2>4 DEF StartsItem, Ring
  <2>7. MemoryInv' /\ PlaceInv'
    BY <2>1, <2>2, <2>3, <2>4 DEF Ring, MemoryInv, PlaceInv, GoodPlace, Follows, End, WrapsAt
  <2> QED BY <2>4, <2>5, <2>6, <2>7 DEF Ring
<1>9. CASE BufferData
  <2>1. pc = "write" /\ pc' = "publishBuffered"
        /\ UNCHANGED <<disk, log, named, mFileHeaderStruct, itemInsertOffset, size>>
    BY <1>9 DEF BufferData, call
  <2>2. GoodPlace(itemInsertOffset, size)'
    BY <2>1, SameStore DEF Ring, PlaceInv, GoodPlace, WrapsAt, End, Follows
  <2> QED BY <2>1, <2>2, SameStore DEF Ring, MemoryInv, PlaceInv
<1>10. CASE UpdateFileHeader
  <2>1. /\ Placed
        /\ fileHeader' = mFileHeaderStruct
        /\ named' = Len(log')
    BY <1>10 DEF UpdateFileHeader
  <2>2. /\ mFileHeaderStruct.LastItemOffset = Published.offset
        /\ log'[Len(log')] = Published /\ Len(log') > 0
    BY <2>1, PlacedRing
  <2> QED BY <2>1, <2>2, PlacedRing DEF Ring, NewestInv
<1>11. CASE FlushData
  <2>1. pc = "flush" /\ pc' = "idle" /\ WriteItem
        /\ UNCHANGED <<fileHeader, mFileHeaderStruct, log, named, calls>> /\ UNCHANGED call
    BY <1>11 DEF FlushData
  <2>2. itemInsertOffset' = itemInsertOffset /\ size' = size /\ Newest' = Newest
    BY <2>1 DEF call, Newest
  <2>3. /\ dataEnd' = MAX_DATA_OFFSET
        /\ StartsItem(itemInsertOffset)'
        /\ data'[itemInsertOffset].id = calls
        /\ data'[itemInsertOffset].size = size
        /\ AllIntact'
    BY <2>1, WriteKeepsItems DEF Ring, PlaceInv, Appending
  <2>4. Chained'
    BY <2>1 DEF Ring, Chained, End, WrapsAt
  <2>5. Newest = Published /\ Newest.offset = itemInsertOffset
        /\ Newest.id = calls /\ Newest.size = size /\ log # <<>>
    BY <2>1 DEF Ring, NewestInv, Published
  <2>6. NewestInv'
    BY <2>1, <2>2, <2>3, <2>5 DEF Ring, NewestInv
  <2>7. MemoryInv' /\ PlaceInv'
    BY <2>1, <2>2, <2>5 DEF Ring, MemoryInv, PlaceInv
  <2> QED BY <2>3, <2>4, <2>6, <2>7 DEF Ring
<1>12. CASE WriteFails
  BY <1>12 DEF WriteFails
<1>13. CASE Crash
  <2>1. pc # "flush" /\ pc' = "down" /\ UNCHANGED <<disk, log, named>>
    BY <1>13 DEF Crash
  <2>2. named = Len(log)
    <3>1. ~ (named < Len(log)) /\ TypeOK
      BY <1>13 DEF Crash, TypeInv
    <3> QED BY <3>1, LogLength
  <2> QED BY <2>1, <2>2, SameStore DEF Ring, MemoryInv, PlaceInv
<1>14. CASE Restart
  <2>1. pc = "down" /\ pc' = "idle" /\ UNCHANGED <<disk, log, named>>
        /\ mFileHeaderStruct' = fileHeader
    BY <1>14 DEF Restart
  <2>2. named = Len(log)
    BY <2>1 DEF Ring, MemoryInv
  <2>3. fileHeader.LastItemOffset = IF log = <<>> THEN INVALID_OFFSET ELSE Newest.offset
    BY <2>2, LogLength DEF Ring, NewestInv, Newest, TypeInv
  <2> QED BY <2>1, <2>3, SameStore DEF Ring, MemoryInv, PlaceInv
<1>15. CASE HeaderLost
  <2>1. Placed /\ UNCHANGED <<fileHeader, named>>
    BY <1>15 DEF HeaderLost
  <2>2. named > 0 => log'[named] = log[named]
    BY <2>1, PlacedType, LogLength DEF TypeInv
  <2> QED BY <2>1, <2>2, PlacedRing DEF Ring, NewestInv
<1>16. CASE FlushLost
  BY <1>16 DEF FlushLost
<1>17. CASE OpenFails
  <2>1. pc \in {"idle", "search"} /\ pc' = "idle"
        /\ UNCHANGED <<disk, log, named, mFileHeaderStruct>>
    BY <1>17 DEF OpenFails
  <2> QED BY <2>1, SameStore DEF Ring, MemoryInv, PlaceInv, disk
<1> QED
  BY <1>1, <1>2, <1>3, <1>4, <1>5, <1>6, <1>7, <1>8, <1>9, <1>10, <1>11, <1>12,
     <1>13, <1>14, <1>15, <1>16, <1>17 DEF Next, AppendItem

\* What a fault has torn stays torn.
LEMMA TornStays ==
  ASSUME [Next]_vars, torn
  PROVE  torn'
  BY DEF Next, AppendItem, AppendToEmpty, AppendSecond, AppendFurther, AppendThrows, Call,
         SearchFirst, SearchFound, SearchThrows, WriteData, BufferData, UpdateFileHeader,
         Placed, HeaderLost, FlushData, FlushLost, WriteFails, OpenFails, Crash, Restart, vars

\* The inductive invariant of the ring file holds of every file with room for
\* three items: the properties below follow from it.
THEOREM RingInvariant == SmallItems /\ Spec => []RingInv
<1> SUFFICES ASSUME SmallItems PROVE Spec => []RingInv
  OBVIOUS
<1>1. RingInv /\ [Next]_vars => RingInv'
  <2> SUFFICES ASSUME RingInv, [Next]_vars PROVE RingInv'
    OBVIOUS
  <2>1. TypeInv'
    BY StepType DEF RingInv
  <2>2. torn => torn'
    BY TornStays
  <2>3. CASE Next
    BY <2>1, <2>2, <2>3, StepRing DEF RingInv
  <2>4. CASE UNCHANGED vars
    <3>1. UNCHANGED <<pc, torn, mFileHeaderStruct, calls>> /\ UNCHANGED disk /\ UNCHANGED call
          /\ UNCHANGED <<log, named>>
      BY <2>4 DEF vars
    <3>2. Ring => Ring'
      BY <3>1 DEF Ring, AllIntact, Chained, NewestInv, MemoryInv, PlaceInv, GoodPlace, Follows, Newest,
                  NoneAcross, StartsItem, Intact, FirstBytes, End, WrapsAt, Published, disk, call
    <3> QED BY <2>1, <3>1, <3>2 DEF RingInv
  <2> QED BY <2>3, <2>4
<1> QED
  BY InitRing, <1>1, PTL DEF Spec

\* What the runs check of IntactItems, on small files, holds of every file that
\* is large enough for three items: no item header is ever left on the disk
\* without the whole of its item, wherever AppendItem is interrupted.
THEOREM ItemsStayIntact == SmallItems /\ Spec => []IntactItems
<1>1. RingInv => IntactItems
  BY DEF RingInv, Ring, AllIntact, IntactItems
<1> QED BY RingInvariant, <1>1, PTL

\* LastItemOffset names the newest item, except until the stream of a short
\* item is closed.
THEOREM LastNamesNewest == SmallItems /\ Spec => []NewestAtLast
<1>1. RingInv => NewestAtLast
  BY DEF RingInv, Ring, NewestInv, NewestAtLast, Newest
<1> QED BY RingInvariant, <1>1, PTL

\* Every published item is found from the size of the one before it.
THEOREM LogStaysChained == SmallItems /\ Spec => []LogIsChained
<1>1. RingInv => LogIsChained
  BY DEF RingInv, Ring, Chained, End, LogIsChained
<1> QED BY RingInvariant, <1>1, PTL

\* The file keeps the size it was created with.
THEOREM FileStaysBounded == SmallItems /\ Spec => []BoundedFile
<1>1. RingInv => BoundedFile
  BY DEF RingInv, Ring, BoundedFile
<1> QED BY RingInvariant, <1>1, PTL

-----------------------------------------------------------------------------
(* What the ring keeps. *)

Item == [id : 1 .. MAX_CALLS, offset : Offsets, size : ItemSizes]

Plus           == [x \in Nat |-> [n \in Nat |-> x + n]]
Sizes(items, k) == [n \in 1 .. Len(items) |-> IF n < k THEN 0 ELSE items[n].size]

\* SizeFrom adds up the sizes.
LEMMA SizeFolds ==
    ASSUME NEW items \in Seq(Item), NEW k \in Nat \ {0}
    PROVE  /\ Sizes(items, k) \in Seq(Nat) /\ Len(Sizes(items, k)) = Len(items)
           /\ \E f : Folds(f, Nat, 0, Plus, Sizes(items, k)) /\ SizeFrom(items, k) = f[Len(items)]
<1>. DEFINE N == Len(items)
            s == Sizes(items, k)
<1>1. N \in Nat /\ \A n \in 1 .. N : items[n].size \in Nat
  <2>1. \A n \in 1 .. N : items[n] \in Item
    BY ElementOfSeq
  <2>. QED BY <2>1, LenProperties, Constants DEF Item
<1>2. \A n \in 1 .. N : (IF n < k THEN 0 ELSE items[n].size) \in Nat
  BY <1>1
<1>3. s \in Seq(Nat) /\ Len(s) = N /\ \A n \in 1 .. N : s[n] = IF n < k THEN 0 ELSE items[n].size
  <2>. HIDE DEF N
  <2>1. s = [n \in 1 .. N |-> IF n < k THEN 0 ELSE items[n].size]
    BY DEF Sizes, N
  <2>. QED BY <1>1, <1>2, <2>1, IsASeq
<1>. HIDE DEF s
<1>4. \A x \in Nat, n \in Nat : Plus[x][n] = x + n /\ Plus[x][n] \in Nat
  BY DEF Plus
<1>5. PICK f : Folds(f, Nat, 0, Plus, s)
  BY <1>3, <1>4, Folding
<1>6. /\ f \in [0 .. N -> Nat] /\ f[0] = 0
      /\ \A n \in 1 .. N : f[n] = f[n - 1] + s[n]
  <2>1. ASSUME NEW n \in 1 .. N PROVE f[n] = f[n - 1] + s[n]
    <3>1. n - 1 \in 0 .. N /\ s[n] \in Nat
      BY <1>1, <1>2, <1>3
    <3>2. f[n - 1] \in Nat /\ f[n] = Plus[f[n - 1]][s[n]]
      BY <1>3, <1>5, <3>1 DEF Folds
    <3>. QED BY <1>4, <3>1, <3>2
  <2>. QED BY <1>3, <1>5, <2>1 DEF Folds
<1>. HIDE DEF N
<1>7. \A n \in 0 .. N : n < k => f[n] = 0
  <2>. DEFINE Zero == {n \in Nat : n <= N /\ n < k => f[n] = 0}
  <2>1. 0 \in Zero
    BY <1>6
  <2>2. ASSUME NEW n \in Nat, n \in Zero PROVE n + 1 \in Zero
    <3>1. SUFFICES ASSUME n + 1 <= N, n + 1 < k PROVE f[n + 1] = 0
      OBVIOUS
    <3>2. n + 1 \in 1 .. N /\ (n + 1) - 1 = n /\ f[n] = 0
      BY <1>1, <2>2, <3>1
    <3>3. f[n + 1] = f[n] + s[n + 1] /\ s[n + 1] = 0
      BY <1>3, <1>6, <3>1, <3>2
    <3>. QED BY <3>2, <3>3
  <2>3. Nat \subseteq Zero
    <3>. HIDE DEF Zero
    <3>. QED BY <2>1, <2>2, Induction
  <2>. QED BY <1>1, <2>3
<1>8. f = [n \in 0 .. N |-> IF n < k THEN 0 ELSE f[n - 1] + items[n].size]
  <2>1. ASSUME NEW n \in 0 .. N, ~ (n < k) PROVE f[n] = f[n - 1] + items[n].size
    <3>1. n \in 1 .. N
      BY <1>1, <2>1
    <3>. QED BY <1>3, <1>6, <2>1, <3>1
  <2>. QED BY <1>6, <1>7, <2>1
<1>. DEFINE bytes[n \in 0 .. N] == IF n < k THEN 0 ELSE bytes[n - 1] + items[n].size
<1>9. bytes = [n \in 0 .. N |-> IF n < k THEN 0 ELSE bytes[n - 1] + items[n].size]
  BY <1>8, Zenon
<1>10. SizeFrom(items, k) = bytes[N]
  BY Zenon DEF SizeFrom, N
<1>. HIDE DEF bytes
<1>11. DOMAIN bytes = 0 .. N
  BY <1>9, Zenon
<1>12. \A n \in 0 .. N : bytes[n] = IF n < k THEN 0 ELSE bytes[n - 1] + items[n].size
  BY <1>9, Zenon
<1>13. bytes[0] = 0
  BY <1>1, <1>12
<1>14. \A n \in 1 .. N : bytes[n - 1] \in Nat => bytes[n] = Plus[bytes[n - 1]][s[n]]
  <2>. SUFFICES ASSUME NEW n \in 1 .. N, bytes[n - 1] \in Nat
                PROVE  bytes[n] = Plus[bytes[n - 1]][s[n]]
    OBVIOUS
  <2>1. n \in 0 .. N /\ n - 1 \in 0 .. N /\ s[n] \in Nat
    BY <1>1, <1>2, <1>3
  <2>2. bytes[n] = bytes[n - 1] + s[n]
    <3>1. CASE n < k
      <4>1. s[n] = 0 /\ bytes[n] = 0
        BY <1>3, <1>12, <2>1, <3>1
      <4>2. bytes[n - 1] = 0
        BY <1>12, <2>1, <3>1
      <4>. QED BY <4>1, <4>2
    <3>2. CASE ~ (n < k)
      BY <1>3, <1>12, <2>1, <3>2
    <3>. QED BY <3>1, <3>2
  <2>. QED BY <1>4, <2>1, <2>2
<1>15. bytes[N] = f[N]
  <2>1. DOMAIN bytes = 0 .. Len(s)
    BY <1>3, <1>11
  <2>2. \A n \in 1 .. Len(s) : bytes[n - 1] \in Nat => bytes[n] = Plus[bytes[n - 1]][s[n]]
    BY <1>3, <1>14
  <2>3. FoldsInto(bytes, Nat, 0, Plus, s)
    BY <1>13, <2>1, <2>2, Zenon DEF FoldsInto
  <2>4. Len(s) \in Nat
    BY <1>1, <1>3
  <2>5. bytes[Len(s)] = f[Len(s)]
    BY <1>5, <2>3, <2>4, FoldingUnique
  <2>. QED BY <1>3, <2>5
<1>16. SizeFrom(items, k) = f[N]
  BY <1>1, <1>10, <1>15
<1>17. \E g : Folds(g, Nat, 0, Plus, s) /\ SizeFrom(items, k) = g[N]
  BY <1>5, <1>16, Zenon
<1>. QED BY <1>3, <1>17 DEF N, s

\* An item more adds its size.
LEMMA SizeGrows ==
    ASSUME NEW items \in Seq(Item), NEW item \in Item, NEW k \in 1 .. Len(items) + 1
    PROVE  /\ SizeFrom(items, k) \in Nat
           /\ SizeFrom(Append(items, item), k) = SizeFrom(items, k) + item.size
           /\ k = Len(items) + 1 => SizeFrom(items, k) = 0
<1>. DEFINE more == Append(items, item)
            s    == Sizes(items, k)
            t    == Sizes(more, k)
            N    == Len(items)
<1>1. /\ more \in Seq(Item) /\ Len(more) = N + 1 /\ N \in Nat
      /\ \A n \in 1 .. N : more[n] = items[n]
      /\ more[N + 1] = item
  BY AppendProperties, LenProperties
<1>2. k \in Nat \ {0} /\ item.size \in Nat
  <2>1. item.size \in ItemSizes
    BY DEF Item
  <2>2. k \in Nat \ {0}
    BY <1>1
  <2>3. item.size \in Nat
    BY <2>1, Constants
  <2>. QED BY <2>2, <2>3, Zenon
<1>. HIDE DEF more
<1>3. PICK f : s \in Seq(Nat) /\ Len(s) = N /\ Folds(f, Nat, 0, Plus, s) /\ SizeFrom(items, k) = f[N]
  BY <1>2, SizeFolds
<1>4. PICK g : t \in Seq(Nat) /\ Len(t) = N + 1 /\ Folds(g, Nat, 0, Plus, t) /\ SizeFrom(more, k) = g[N + 1]
  BY <1>1, <1>2, SizeFolds
<1>5. /\ s = [n \in 1 .. N |-> IF n < k THEN 0 ELSE items[n].size]
      /\ t = [n \in 1 .. N + 1 |-> IF n < k THEN 0 ELSE more[n].size]
  BY <1>1 DEF Sizes
<1>. HIDE DEF s, t, N
<1>6. t = Append(s, item.size)
  <2>. DEFINE u == Append(s, item.size)
  <2>1. /\ u \in Seq(Nat) /\ Len(u) = N + 1
        /\ \A n \in 1 .. N : u[n] = s[n]
        /\ u[N + 1] = item.size
    BY <1>2, <1>3, AppendProperties
  <2>2. ASSUME NEW n \in 1 .. N + 1 PROVE u[n] = t[n]
    <3>1. CASE n \in 1 .. N
      BY <1>1, <1>5, <2>1, <3>1
    <3>2. CASE n = N + 1
      <4>1. ~ (N + 1 < k)
        BY <1>1 DEF N
      <4>2. t[N + 1] = item.size
        BY <1>1, <1>5, <4>1
      <4>. QED BY <2>1, <3>2, <4>2
    <3>3. n \in 1 .. N \/ n = N + 1
      BY <1>1
    <3>. QED BY <3>1, <3>2, <3>3
  <2>. HIDE DEF u
  <2>3. u = t
    BY <1>4, <2>1, <2>2, SeqEqual
  <2>. QED BY <2>3 DEF u
<1>7. f[N] \in Nat /\ g[N + 1] = Plus[f[N]][item.size]
  <2>1. Folds(g, Nat, 0, Plus, Append(s, item.size))
    BY <1>4, <1>6
  <2>. QED BY <1>2, <1>3, <2>1, FoldingGrows
<1>8. g[N + 1] = f[N] + item.size
  BY <1>2, <1>7 DEF Plus
<1>9. k = N + 1 => SizeFrom(items, k) = 0
  <2>1. SUFFICES ASSUME k = N + 1 PROVE f[N] = 0
    BY <1>3
  <2>. DEFINE h == [n \in 0 .. N |-> 0]
  <2>2. \A x \in Nat, n \in Nat : Plus[x][n] = x + n
    BY DEF Plus
  <2>3. ASSUME NEW n \in 1 .. Len(s) PROVE h[n] = Plus[h[n - 1]][s[n]]
    <3>1. n \in 1 .. N /\ n \in 0 .. N /\ n - 1 \in 0 .. N
      BY <1>1, <1>3
    <3>2. n < k /\ h[n - 1] = 0 /\ h[n] = 0
      BY <1>1, <2>1, <3>1
    <3>3. s[n] = 0
      BY <1>5, <3>1, <3>2
    <3>4. Plus[0][0] = 0 + 0 /\ 0 + 0 = 0
      BY DEF Plus
    <3>. QED BY <3>2, <3>3, <3>4, Zenon
  <2>4. DOMAIN h = 0 .. Len(s) /\ h[0] = 0
    BY <1>1, <1>3
  <2>. HIDE DEF h
  <2>5. FoldsInto(h, Nat, 0, Plus, s)
    BY <2>3, <2>4, Zenon DEF FoldsInto
  <2>6. Folds(f, Nat, 0, Plus, s) /\ Len(s) = N /\ Len(s) \in Nat
    BY <1>1, <1>3
  <2>7. h[Len(s)] = f[Len(s)]
    BY <2>5, <2>6, FoldingUnique
  <2>8. N \in 0 .. N /\ h[N] = 0
    BY <1>1 DEF h
  <2>. QED BY <2>6, <2>7, <2>8
<1>. QED BY <1>3, <1>4, <1>7, <1>8, <1>9 DEF more, N

\* No item is larger than the largest: the CHOOSE has a witness.
LEMMA Largest ==
  ASSUME NEW s \in ItemSizes
  PROVE  /\ LargestItem \in ItemSizes /\ LargestItem \in Nat
         /\ \A t \in ItemSizes : t <= LargestItem
<1> DEFINE Gaps == {n \in Nat : \E t \in ItemSizes : n = UINT32 - t}
<1>1. \A t \in ItemSizes : t \in Nat /\ UINT32 - t \in Nat
  BY Constants
<1>2. PICK n \in Gaps : \A m \in Gaps : n <= m
  <2>1. Gaps \subseteq Nat /\ Gaps # {}
    BY <1>1
  <2> HIDE DEF Gaps
  <2> QED BY <2>1, LeastOf
<1>3. PICK t \in ItemSizes : n = UINT32 - t
  OBVIOUS
<1>4. \A r \in ItemSizes : r <= t
  <2> TAKE r \in ItemSizes
  <2>1. UINT32 - r \in Gaps
    BY <1>1
  <2>2. UINT32 - t <= UINT32 - r
    BY <2>1, <1>2, <1>3
  <2> QED BY <2>2, <1>1, Constants
<1>5. LargestItem \in ItemSizes /\ \A r \in ItemSizes : r <= LargestItem
  BY <1>3, <1>4 DEF LargestItem
<1> QED BY <1>5, Constants

\* Every item of the log is a record of an item, at a place in the file.
LEMMA LogItem ==
  ASSUME TypeOK, NEW k \in 1 .. Len(log)
  PROVE  /\ log[k].id \in 1 .. MAX_CALLS
         /\ log[k].offset \in Offsets /\ log[k].offset \in Nat
         /\ log[k].size \in ItemSizes /\ log[k].size \in Nat /\ log[k].size > 0
         /\ End(log[k]) = log[k].offset + log[k].size
<1> DEFINE S == [id : 1 .. MAX_CALLS, offset : Offsets, size : ItemSizes]
<1>1. log \in Seq(S)
  BY DEF TypeOK
<1>2. log[k] \in S
  <2> HIDE DEF S
  <2> QED BY <1>1, ElementOfSeq
<1>3. /\ log[k].id \in 1 .. MAX_CALLS /\ log[k].offset \in Offsets
      /\ log[k].size \in ItemSizes
  BY <1>2
<1>4. log[k].offset \in Nat
  BY <1>3, Constants
<1>5. log[k].size \in Nat /\ log[k].size > 0
  BY <1>3, ItemSize
<1> QED BY <1>3, <1>4, <1>5 DEF End

-----------------------------------------------------------------------------
(* A recent item is one with room for two largest items beside the items    *)
(* placed since.  Its invariant says where it is: either the ring has not   *)
(* gone back since, and the newest item ends as many bytes behind its start *)
(* as were placed; or it has, and leaves less than the largest item unused. *)

Recent(k)  == BytesFrom(k) + 2 * LargestItem <= MAX_DATA_OFFSET
Written(k) == k < Len(log) \/ pc # "flush"
There(k)   == /\ StartsItem(log[k].offset)
              /\ data[log[k].offset].id = log[k].id
              /\ data[log[k].offset].size = log[k].size
Ahead(p, bytes) ==
    \/ End(Newest) = p + bytes
    \/ End(Newest) + MAX_DATA_OFFSET <= p + bytes + LargestItem
RecentInv ==
    \A k \in 1 .. Len(log) :
       /\ log[k].size + (IF k < Len(log) THEN Newest.size ELSE 0) <= BytesFrom(k)
       /\ Recent(k) => Ahead(log[k].offset, BytesFrom(k)) /\ (Written(k) => There(k))

KeptInv == RingInv /\ (~ torn => RecentInv)

\* The next place for an item of s bytes is clear of a recent item at p: e is where
\* the newest one ends, b what was placed since p, l the largest item, m the file.
LEMMA NextPlaceClear ==
  ASSUME NEW p \in Nat, NEW b \in Nat, NEW e \in Nat, NEW n \in Nat, NEW s \in Nat,
         NEW l \in Nat, NEW m \in Nat,
         e = p + b \/ e + m <= p + b + l, b + 2 * l <= m, b > 0, p < m, s <= l,
         n = e \/ (n = 0 /\ e + s >= m)
  PROVE  p \notin n .. n + s - 1
  OBVIOUS

\* So is the place of the newest item itself, the bytes of which come after those
\* of the recent one.
LEMMA NewestClear ==
  ASSUME NEW p \in Nat, NEW b \in Nat, NEW n \in Nat, NEW s \in Nat,
         NEW l \in Nat, NEW m \in Nat,
         n + s = p + b \/ n + s + m <= p + b + l, b + 2 * l <= m, s < b
  PROVE  p \notin n .. n + s - 1
  OBVIOUS

\* Placing an item of s bytes behind the newest one, or around it, leaves the end
\* of the newest item where it has to be.
LEMMA StillAhead ==
  ASSUME NEW p \in Nat, NEW b \in Nat, NEW e \in Nat, NEW n \in Nat, NEW s \in Nat,
         NEW l \in Nat, NEW m \in Nat,
         e = p + b \/ e + m <= p + b + l, b + s + 2 * l <= m, p < m, s <= l,
         n = e \/ (n = 0 /\ e + s >= m)
  PROVE  n + s = p + (b + s) \/ n + s + m <= p + (b + s) + l
  OBVIOUS

\* What was placed from item k of the log on is a number of bytes.
LEMMA BytesFromType ==
  ASSUME TypeOK, NEW k \in 1 .. Len(log)
  PROVE  BytesFrom(k) \in Nat
<1>1. log \in Seq(Item)
  BY DEF TypeOK, Item
<1>2. Len(log) \in Nat /\ k \in 1 .. Len(log) + 1
  BY LogLength
<1>3. PICK item : item \in Item
  <2>1. log[k] \in Item
    BY <1>1, ElementOfSeq
  <2>. QED BY <2>1, Zenon
<1>. QED BY <1>1, <1>2, <1>3, SizeGrows DEF BytesFrom

\* The item placed adds its size to what was placed from each item on.
LEMMA BytesGrow ==
  ASSUME TypeInv, Placed
  PROVE  /\ \A k \in 1 .. Len(log) : BytesFrom(k)' = BytesFrom(k) + size
         /\ \A k : k = Len(log) + 1 => BytesFrom(k)' = size
<1>1. log \in Seq(Item)
  BY DEF TypeInv, TypeOK, Item
<1>2. Published \in Item /\ Published.size = size /\ size \in Nat /\ log' = Append(log, Published)
  <2>1. /\ itemInsertOffset \in Offsets /\ size \in ItemSizes /\ calls \in 1 .. MAX_CALLS
        /\ log' = Append(log, Published)
    BY DEF TypeInv, TypeOK, Appending, Placed
  <2>. QED BY <2>1, Constants DEF Published, Item
<1>3. Len(log) \in Nat
  BY LogLength DEF TypeInv
<1>. DEFINE N == Len(log)
<1>4. ASSUME NEW k \in 1 .. N + 1
      PROVE  /\ SizeFrom(log', k) = SizeFrom(log, k) + size
             /\ k = N + 1 => SizeFrom(log, k) = 0
  BY <1>1, <1>2, SizeGrows
<1>5. ASSUME NEW k \in 1 .. N PROVE SizeFrom(log', k) = SizeFrom(log, k) + size
  <2>1. k \in 1 .. N + 1
    BY <1>3
  <2>. QED BY <1>4, <2>1
<1>6. SizeFrom(log', N + 1) = size
  <2>1. N + 1 \in 1 .. N + 1
    BY <1>3
  <2>2. SizeFrom(log', N + 1) = 0 + size
    BY <1>4, <2>1
  <2>. QED BY <1>2, <2>2
<1>. QED BY <1>5, <1>6 DEF BytesFrom

\* A step that leaves the file and the log alone leaves the recent items there.
LEMMA SameRecent ==
  ASSUME RecentInv, UNCHANGED <<disk, log>>, pc # "flush", pc' # "flush"
  PROVE  RecentInv'
<1>1. data' = data /\ dataEnd' = dataEnd /\ log' = log
  BY DEF disk
<1>2. ASSUME NEW k
      PROVE  /\ BytesFrom(k)' = BytesFrom(k)
             /\ Recent(k)' <=> Recent(k)
             /\ There(k)' <=> There(k)
             /\ \A p, bytes : Ahead(p, bytes)' <=> Ahead(p, bytes)
  BY <1>1 DEF BytesFrom, Recent, There, StartsItem, Ahead, Newest, End
<1>. QED BY <1>1, <1>2 DEF RecentInv, Written, Newest

\* Writing the item of the call, at its place, spares the recent items.
LEMMA WriteKeepsRecent ==
  ASSUME TypeInv, Ring, RecentInv, pc \in {"write", "flush"}, WriteItem,
         UNCHANGED <<log, calls>>, UNCHANGED call, pc' # "flush"
  PROVE  RecentInv'
<1>. DEFINE ins == itemInsertOffset
            l   == LargestItem
            m   == MAX_DATA_OFFSET
<1>1. /\ ins \in Nat /\ size \in ItemSizes /\ size \in Nat /\ size > 0
      /\ m \in Nat /\ l \in Nat /\ size <= l
  <2>1. ins \in Nat /\ size \in ItemSizes /\ m \in Nat
    BY Constants DEF TypeInv, TypeOK, Appending
  <2>. QED BY <2>1, ItemSize, Largest
<1>2. /\ dataEnd = m /\ dataEnd' = m
      /\ \A o \in 0 .. m - 1 : o \notin ItemBytes => data'[o] = data[o]
      /\ StartsItem(ins)'
      /\ data'[ins].id = calls /\ data'[ins].size = size
  <2>1. ins + size <= m /\ NoneAcross(ins)
    BY DEF Ring, PlaceInv, GoodPlace
  <2>. QED BY <2>1, WriteKeepsItems DEF Ring, Appending
<1>3. log' = log /\ Newest' = Newest /\ \A k : BytesFrom(k)' = BytesFrom(k)
  BY DEF Newest, BytesFrom
<1>4. ASSUME NEW k \in 1 .. Len(log), Recent(k)
      PROVE  Ahead(log[k].offset, BytesFrom(k))' /\ There(k)'
  <2>. DEFINE p == log[k].offset
              b == BytesFrom(k)
              e == End(Newest)
  <2>1. /\ p \in Nat /\ b \in Nat /\ log[k].size \in Nat /\ log[k].size > 0
        /\ log[k].size + (IF k < Len(log) THEN Newest.size ELSE 0) <= b
        /\ Ahead(p, b) /\ (Written(k) => There(k))
    BY <1>4, LogItem, BytesFromType DEF TypeInv, RecentInv
  <2>2. log # <<>> /\ Len(log) \in Nat
    BY LogLength DEF TypeInv
  <2>3. Newest.offset \in Nat /\ Newest.size \in Nat /\ e = Newest.offset + Newest.size
    <3>1. Len(log) \in 1 .. Len(log)
      BY <2>2
    <3>. QED BY <3>1, LogItem DEF Newest, End, TypeInv
  <2>4. Ahead(p, b)'
    BY <1>3, <2>1 DEF Ahead, End
  <2>5. b + 2 * l <= m /\ (e = p + b \/ e + m <= p + b + l)
    BY <1>4, <2>1 DEF Recent, Ahead
  <2>. HIDE DEF p, b, e, l, m, ins
  <2>6. CASE Written(k)
    <3>1. p < m /\ p \in 0 .. m - 1
      BY <1>1, <1>2, <2>1, <2>6 DEF There, StartsItem, p
    <3>2. p \notin ins .. ins + size - 1
      <4>1. CASE pc = "write"
        <5>1. ins = e \/ (ins = 0 /\ e + size >= m)
          BY <2>2, <4>1 DEF Ring, PlaceInv, GoodPlace, Follows, WrapsAt, ins, e, m
        <5>2. b > 0 /\ e \in Nat
          BY <2>1, <2>3
        <5>. QED BY <1>1, <2>1, <2>5, <3>1, <5>1, <5>2, NextPlaceClear
      <4>2. CASE pc = "flush"
        <5>1. Newest.offset = ins /\ Newest.size = size
          BY <2>2, <4>2 DEF Ring, NewestInv, Published, ins
        <5>2. e = ins + size
          BY <2>3, <5>1
        <5>3. k < Len(log)
          BY <2>6, <4>2 DEF Written
        <5>4. size < b
          BY <1>1, <2>1, <5>1, <5>3
        <5>. QED BY <1>1, <2>1, <2>5, <5>2, <5>4, NewestClear
      <4>. QED BY <4>1, <4>2
    <3>3. data'[p] = data[p]
      BY <1>2, <3>1, <3>2 DEF ItemBytes, ins
    <3>4. There(k)'
      BY <1>2, <1>3, <2>1, <2>6, <3>3 DEF There, StartsItem, p
    <3>. QED BY <1>3, <2>4, <3>4 DEF p, b
  <2>7. CASE ~ Written(k)
    <3>1. pc = "flush" /\ k = Len(log)
      BY <2>2, <2>7 DEF Written
    <3>2. log[k] = Published
      BY <2>2, <3>1 DEF Ring, NewestInv, Newest
    <3>3. log[k].offset = ins /\ log[k].id = calls /\ log[k].size = size
      BY <3>2 DEF Published, ins
    <3>4. log'[k].offset = ins /\ log'[k].id = calls /\ log'[k].size = size
      BY <1>3, <3>3
    <3>5. StartsItem(ins)' /\ data'[ins].id = calls /\ data'[ins].size = size /\ ins' = ins
      BY <1>2 DEF call, ins
    <3>6. There(k)'
      BY <3>4, <3>5 DEF There, StartsItem
    <3>. QED BY <1>3, <2>4, <3>6 DEF p, b
  <2>. QED BY <2>6, <2>7
<1>5. ASSUME NEW k \in 1 .. Len(log)
      PROVE  log[k].size + (IF k < Len(log) THEN Newest.size ELSE 0) <= BytesFrom(k)
  BY DEF RecentInv
<1>6. ASSUME NEW k PROVE Recent(k)' <=> Recent(k)
  BY <1>3 DEF Recent
<1>. QED BY <1>3, <1>4, <1>5, <1>6 DEF RecentInv

\* Placing the item of the call, behind the newest one or around it, keeps what is
\* known of the recent items, and the item is one of them.
LEMMA PlacedKeepsRecent ==
  ASSUME TypeInv, Ring, RecentInv, Placed
  PROVE  RecentInv'
<1>. DEFINE ins == itemInsertOffset
            l   == LargestItem
            m   == MAX_DATA_OFFSET
            N   == Len(log)
<1>1. /\ ins \in Nat /\ size \in ItemSizes /\ size \in Nat /\ size > 0
      /\ m \in Nat /\ l \in Nat /\ size <= l
  <2>1. ins \in Nat /\ size \in ItemSizes /\ m \in Nat
    BY Constants DEF TypeInv, TypeOK, Appending, Placed
  <2>. QED BY <2>1, ItemSize, Largest
<1>2. /\ N \in Nat /\ Len(log') = N + 1
      /\ \A k \in 1 .. N : log'[k] = log[k]
      /\ log'[N + 1] = Published
  BY PlacedType
<1>3. Newest' = Published /\ End(Newest)' = ins + size
      /\ Published.offset = ins /\ Published.id = calls /\ Published.size = size
  BY <1>2 DEF Newest, Published, End
<1>4. /\ pc \in {"publish", "publishBuffered"}
      /\ pc' = IF pc = "publish" THEN "idle" ELSE "flush"
      /\ data' = data /\ dataEnd' = dataEnd
  BY DEF Placed
<1>5. /\ \A k \in 1 .. N : BytesFrom(k)' = BytesFrom(k) + size
      /\ \A k : k = N + 1 => BytesFrom(k)' = size
  BY BytesGrow
<1>6. log # <<>> => ins = End(Newest) \/ (ins = 0 /\ End(Newest) + size >= m)
  <2>1. log # <<>> => Follows(itemInsertOffset, size)
    BY <1>4 DEF Ring, PlaceInv, GoodPlace
  <2>. QED BY <2>1 DEF Follows, WrapsAt
<1>7. ASSUME NEW k \in 1 .. N
      PROVE  /\ (log[k].size + (IF k < Len(log) THEN Newest.size ELSE 0) <= BytesFrom(k))'
             /\ Recent(k)' => Ahead(log[k].offset, BytesFrom(k))' /\ There(k)'
  <2>. DEFINE p == log[k].offset
              b == BytesFrom(k)
              e == End(Newest)
  <2>1. /\ p \in Nat /\ b \in Nat /\ log[k].size \in Nat
        /\ log[k].size <= b
        /\ Recent(k) => Ahead(p, b) /\ There(k)
    <3>1. /\ log[k].size + (IF k < Len(log) THEN Newest.size ELSE 0) <= BytesFrom(k)
          /\ Recent(k) => Ahead(p, b) /\ There(k)
      BY <1>4 DEF RecentInv, Written
    <3>2. p \in Nat /\ log[k].size \in Nat /\ b \in Nat
      BY LogItem, BytesFromType DEF TypeInv
    <3>3. log[k].size <= b
      <4>1. CASE k < Len(log)
        <5>1. Len(log) \in 1 .. Len(log)
          BY <1>2
        <5>2. Newest.size \in Nat
          BY <5>1, LogItem DEF Newest, TypeInv
        <5>. QED BY <3>1, <3>2, <4>1, <5>2
      <4>2. CASE ~ (k < Len(log))
        BY <3>1, <3>2, <4>2
      <4>. QED BY <4>1, <4>2
    <3>. QED BY <3>1, <3>2, <3>3
  <2>2. log # <<>> /\ e \in Nat
    <3>1. Len(log) \in 1 .. Len(log) /\ log # <<>>
      BY <1>2, LogLength DEF TypeInv
    <3>2. Newest.offset \in Nat /\ Newest.size \in Nat
      BY <3>1, LogItem DEF Newest, TypeInv
    <3>. QED BY <3>1, <3>2 DEF End
  <2>3. log'[k] = log[k] /\ Len(log') = N + 1 /\ k < Len(log') /\ BytesFrom(k)' = b + size
    BY <1>2, <1>5
  <2>4. (log[k].size + (IF k < Len(log) THEN Newest.size ELSE 0) <= BytesFrom(k))'
    <3>1. Newest'.size = size
      BY <1>3
    <3>. HIDE DEF b
    <3>. QED BY <1>1, <2>1, <2>3, <3>1
  <2>5. ASSUME Recent(k)' PROVE Ahead(log[k].offset, BytesFrom(k))' /\ There(k)'
    <3>1. b + size + 2 * l <= m
      BY <2>3, <2>5 DEF Recent
    <3>2. Recent(k)
      <4>. HIDE DEF b, l, m
      <4>1. b + 2 * l <= m
        BY <1>1, <2>1, <3>1
      <4>. QED BY <4>1 DEF Recent, b, l, m
    <3>3. There(k) /\ (e = p + b \/ e + m <= p + b + l)
      BY <2>1, <3>2 DEF Ahead
    <3>4. p < m
      BY <3>3 DEF There, StartsItem, Ring
    <3>. HIDE DEF p, b, e, l, m, ins
    <3>5. ins + size = p + (b + size) \/ ins + size + m <= p + (b + size) + l
      BY <1>1, <1>6, <2>1, <2>2, <3>1, <3>3, <3>4, StillAhead DEF e
    <3>6. Ahead(log[k].offset, BytesFrom(k))'
      <4>1. End(Newest)' = ins + size /\ log'[k].offset = p
        BY <1>3, <2>3 DEF ins, p
      <4>. QED BY <2>3, <3>5, <4>1 DEF Ahead, m, l
    <3>7. There(k)'
      BY <1>4, <2>3, <3>3 DEF There, StartsItem
    <3>. QED BY <3>6, <3>7
  <2>. QED BY <2>4, <2>5
<1>8. ASSUME NEW k, k = N + 1
      PROVE  /\ (log[k].size + (IF k < Len(log) THEN Newest.size ELSE 0) <= BytesFrom(k))'
             /\ Ahead(log[k].offset, BytesFrom(k))' /\ (Written(k)' => There(k)')
  <2>1. log'[k] = Published /\ k = Len(log') /\ BytesFrom(k)' = size
    BY <1>2, <1>5, <1>8
  <2>2. ~ (k < Len(log'))
    BY <1>2, <1>8
  <2>3. (log[k].size + (IF k < Len(log) THEN Newest.size ELSE 0) <= BytesFrom(k))'
    <3>. HIDE DEF N
    <3>. QED BY <1>1, <1>3, <2>1, <2>2
  <2>4. Ahead(log[k].offset, BytesFrom(k))'
    BY <1>3, <2>1 DEF Ahead
  <2>5. ASSUME Written(k)' PROVE There(k)'
    <3>1. pc = "publish"
      BY <1>4, <2>2, <2>5 DEF Written
    <3>2. StartsItem(ins) /\ data[ins].id = calls /\ data[ins].size = size
      BY <3>1 DEF Ring, PlaceInv
    <3>. QED BY <1>3, <1>4, <2>1, <3>2 DEF There, StartsItem
  <2>. QED BY <2>3, <2>4, <2>5
<1>9. ASSUME NEW k \in 1 .. Len(log') PROVE k \in 1 .. N \/ k = N + 1
  BY <1>2
<1>. QED BY <1>7, <1>8, <1>9 DEF RecentInv

\* The recent items are in the file, at their places, at every moment of a call.
THEOREM RecentInvariant == SmallItems /\ Spec => []KeptInv
<1> SUFFICES ASSUME SmallItems PROVE Spec => []KeptInv
  OBVIOUS
<1>1. Init => RecentInv
  BY EmptySeq DEF Init, RecentInv
<1>2. RingInv /\ RingInv' /\ RecentInv /\ ~ torn' /\ [Next]_vars => RecentInv'
  <2>. SUFFICES ASSUME RingInv, RingInv', RecentInv, ~ torn', [Next]_vars
                PROVE  RecentInv'
    OBVIOUS
  <2>1. TypeInv /\ Ring /\ ~ torn
    BY TornStays DEF RingInv
  <2>2. CASE Placed
    BY <2>1, <2>2, PlacedKeepsRecent
  <2>3. CASE WriteData \/ FlushData
    <3>1. /\ pc \in {"write", "flush"} /\ WriteItem /\ pc' # "flush"
          /\ UNCHANGED <<log, calls>> /\ UNCHANGED call
      BY <2>3 DEF WriteData, FlushData
    <3>. QED BY <2>1, <3>1, WriteKeepsRecent
  <2>4. CASE UNCHANGED <<disk, log>> /\ pc # "flush" /\ pc' # "flush"
    BY <2>4, SameRecent
  <2>5. CASE UNCHANGED vars
    <3>1. data' = data /\ dataEnd' = dataEnd /\ log' = log /\ pc' = pc
      BY <2>5 DEF vars, disk
    <3>. QED BY <3>1 DEF RecentInv, Recent, Written, There, StartsItem, Ahead, BytesFrom,
                         Newest, End
  <2>6. Next => Placed \/ WriteData \/ FlushData
                \/ (UNCHANGED <<disk, log>> /\ pc # "flush" /\ pc' # "flush")
    BY <2>1 DEF Next, AppendItem, AppendToEmpty, AppendSecond, AppendFurther, AppendThrows, Call,
         PlaceSecond, PlaceFurther, SearchFirst, SearchFound, SearchThrows, BufferData,
         UpdateFileHeader, HeaderLost, FlushLost, WriteFails, OpenFails, Crash, Restart
  <2>. QED BY <2>2, <2>3, <2>4, <2>5, <2>6
<1>3. Init => KeptInv
  BY <1>1, InitRing DEF KeptInv
<1>4. KeptInv /\ RingInv' /\ [Next]_vars => KeptInv'
  BY <1>2, TornStays DEF KeptInv
<1> QED BY <1>3, <1>4, RingInvariant, PTL DEF Spec

\* What the runs check of RecentItemsSurvive holds of every file with room for
\* three items: AppendItem overwrites no item until those placed since leave less
\* room than two of the largest take.
THEOREM RecentItemsStay == SmallItems /\ Spec => []RecentItemsSurvive
<1>1. KeptInv => RecentItemsSurvive
  <2>. SUFFICES ASSUME KeptInv, ~ torn, NEW k \in 1 .. Len(log),
                       BytesFrom(k) + 2 * LargestItem <= MAX_DATA_OFFSET,
                       ~ (pc = "flush" /\ k = Len(log))
                PROVE  /\ StartsItem(log[k].offset)
                       /\ data[log[k].offset].id = log[k].id
                       /\ Intact(log[k].offset)
    BY DEF RecentItemsSurvive
  <2>1. Written(k) /\ Recent(k)
    <3>1. Len(log) \in Nat
      BY LogLength DEF KeptInv, RingInv, TypeInv
    <3>. QED BY <3>1 DEF Written, Recent
  <2>2. There(k)
    BY <2>1 DEF KeptInv, RecentInv
  <2>3. log[k].offset \in 0 .. dataEnd - 1
    <3>1. log[k].offset \in Nat
      BY LogItem DEF KeptInv, RingInv, TypeInv
    <3>2. log[k].offset < dataEnd
      BY <2>2 DEF There, StartsItem
    <3>3. dataEnd \in Nat
      BY DEF KeptInv, RingInv, TypeInv, TypeOK
    <3>. QED BY <3>1, <3>2, <3>3
  <2>. QED BY <2>2, <2>3 DEF There, KeptInv, RingInv, Ring, AllIntact
<1>. QED BY RecentInvariant, <1>1, PTL

-----------------------------------------------------------------------------
(* The oldest item.  The items from FirstItemOffset on stand next to each    *)
(* other, oldest first, up to the fill, and all others are newer.  The       *)
(* search goes from one to the next, so where it ends is an item again, or   *)
(* the fill, and what it has passed is overwritten.                          *)

BlankFrom(o) == \A p \in o .. dataEnd - 1 : data[p] = Blank
Heads(o)     == StartsItem(o) \/ BlankFrom(o)

\* From f on the items rise, and those before f are newer.
InOrder(f) == \A o \in f .. dataEnd - 1, p \in 0 .. dataEnd - 1 :
                 StartsItem(o) /\ StartsItem(p) /\ (o < p \/ p < f) => data[o].id < data[p].id
\* They leave no room between them.
Tight(f)   == \A o \in f .. dataEnd - 1 : StartsItem(o) => Heads(o + data[o].size)
Circle(f)  == f \in Nat /\ Heads(f) /\ InOrder(f) /\ Tight(f)

\* The newest item ends at e, before f, or on the first lap with the fill behind it.
RoomAt(f, e) == e <= f \/ (f = 0 /\ BlankFrom(e))

\* The search, begun at f, is at w.
Passed(f, w) ==
    /\ f <= w /\ itemInsertOffset <= f /\ Heads(w)
    /\ \A o \in f .. w - 1 : StartsItem(o) => o < itemInsertOffset + size

\* With first as FirstItemOffset the item may be written.
Ready(first) ==
    \/ /\ itemInsertOffset + size <= first
       /\ \E f \in Nat : Circle(f) /\ Passed(f, first)
    \/ /\ first = 0 /\ Circle(0) /\ BlankFrom(itemInsertOffset)
       /\ itemInsertOffset > 0 => data[itemInsertOffset - 1].id # 0

\* No byte is of a later call than this one, nor of an item without a size; and,
\* before this one's item is written, none is of it.
NoneNewer  == \A o \in 0 .. dataEnd - 1 :
                 data[o].id <= calls /\ (data[o].id # 0 => data[o].size \in ItemSizes)
IsNewer    == \A o \in 0 .. dataEnd - 1 : data[o].id < calls

Oldest ==
    /\ ~ torn /\ pc # "down" /\ NoneNewer
    /\ pc \in {"search", "write", "publishBuffered", "flush"} => IsNewer
    /\ pc # "publish" /\ log = <<>> => BlankFrom(0)
    /\ pc \in {"idle", "search", "flush"} =>
          mFileHeaderStruct.FirstItemOffset = fileHeader.FirstItemOffset
    /\ pc \notin {"publish", "flush"} /\ log # <<>> => Circle(fileHeader.FirstItemOffset)
    /\ pc \in {"idle", "search"} /\ log # <<>> => RoomAt(fileHeader.FirstItemOffset, End(Newest))
    /\ pc = "search" => log # <<>> /\ Passed(fileHeader.FirstItemOffset, itemOffset)
    /\ pc \in {"write", "publishBuffered", "flush"} => Ready(mFileHeaderStruct.FirstItemOffset)
    /\ pc = "publish" => /\ Circle(mFileHeaderStruct.FirstItemOffset)
                         /\ RoomAt(mFileHeaderStruct.FirstItemOffset, itemInsertOffset + size)

OldestInv == RingInv /\ (faults = 0 => Oldest)

\* In the fill the 0xFFFFFFFF of a header takes the search one byte less than an
\* item header on.
LEMMA NextInFill ==
  ASSUME TypeInv, Ring, NEW w \in Nat, w <= MAX_DATA_OFFSET, BlankFrom(w),
         NEW n \in GetNextItemOffset(w)
  PROVE  n = w + ITEM_HEADER - 1
<1>1. dataEnd = MAX_DATA_OFFSET /\ MAX_DATA_OFFSET \in Nat
  BY Constants DEF Ring
<1>2. w + ITEM_HEADER <= dataEnd
  BY <1>1, Constants DEF GetNextItemOffset, NextOffsets, Readable
<1>3. \A i \in 0 .. ITEM_HEADER - 1 : data[w + i] = Blank
  <2>. TAKE i \in 0 .. ITEM_HEADER - 1
  <2>1. w + i \in w .. dataEnd - 1
    BY <1>1, <1>2, Constants
  <2>. QED BY <2>1 DEF BlankFrom
<1>4. ~ HeaderAt(w)
  <2>1. data[w] = Blank
    BY <1>3, Constants
  <2>. QED BY <2>1 DEF HeaderAt, StartsItem, Blank
<1>5. ItemSizesAt(w) = {UINT32 - 1}
  BY <1>3, <1>4 DEF ItemSizesAt
<1>6. n = (w + ITEM_HEADER + (UINT32 - 1)) % UINT32
  BY <1>5 DEF GetNextItemOffset, NextOffsets
<1>. DEFINE a == w + ITEM_HEADER - 1
<1>7. a \in 0 .. UINT32 - 1 /\ n = (a + UINT32) % UINT32 /\ UINT32 \in Nat \ {0}
  BY <1>1, <1>2, <1>6, Constants
<1>8. (a + UINT32) % UINT32 = a
  <2>. HIDE DEF a
  <2>. QED BY <1>7, SMT
<1>. QED BY <1>7, <1>8

\* One turn of the search takes it from an item to the next, or on in the fill.
LEMMA SearchPasses ==
  ASSUME TypeInv, Ring, NoneNewer, pc = "search", InTheWay,
         NEW f \in Nat, Circle(f), Passed(f, itemOffset),
         NEW n \in GetNextItemOffset(itemOffset)
  PROVE  Passed(f, n)
<1>. DEFINE w == itemOffset
<1>1. w \in Nat /\ w \in Offsets /\ dataEnd = MAX_DATA_OFFSET /\ MAX_DATA_OFFSET \in Nat
      /\ itemInsertOffset \in Nat /\ size \in Nat /\ itemInsertOffset + size > w
      /\ f <= w /\ itemInsertOffset <= f
  BY Constants DEF TypeInv, TypeOK, Ring, InTheWay, Passed
<1>2. ASSUME Heads(n), n \in Nat, w <= n,
             \A o \in w .. n - 1 : StartsItem(o) => o = w
      PROVE  Passed(f, n)
  <2>1. ASSUME NEW o \in f .. n - 1, StartsItem(o) PROVE o < itemInsertOffset + size
    <3>1. CASE o < w
      <4>1. o \in f .. w - 1
        BY <1>1, <3>1
      <4>. QED BY <2>1, <4>1 DEF Passed
    <3>2. CASE ~ (o < w)
      <4>1. o \in w .. n - 1
        BY <1>1, <1>2, <3>2
      <4>. QED BY <1>1, <1>2, <2>1, <4>1
    <3>. QED BY <3>1, <3>2
  <2>2. f <= n
    BY <1>1, <1>2
  <2>. QED BY <1>1, <1>2, <2>1, <2>2 DEF Passed
<1>3. CASE StartsItem(w)
  <2>1. w \in 0 .. dataEnd - 1 /\ w \in f .. dataEnd - 1
    BY <1>1, <1>3 DEF StartsItem
  <2>2. Intact(w)
    BY <1>3, <2>1 DEF Ring, AllIntact
  <2>. DEFINE s == data[w].size
  <2>3. s \in ItemSizes /\ s \in Nat
    <3>1. s \in ItemSizes
      BY <1>3, <2>1 DEF NoneNewer, StartsItem
    <3>. QED BY <3>1, ItemSize
  <2>4. n = w + s
    BY <1>1, <2>2, <2>3, NextOfItem DEF TypeInv
  <2>5. Heads(n)
    BY <1>3, <2>1, <2>4 DEF Circle, Tight
  <2>6. ASSUME NEW o \in w .. n - 1, StartsItem(o) PROVE o = w
    <3>1. o - w \in 0 .. s - 1 /\ w + (o - w) = o
      BY <1>1, <2>3, <2>4
    <3>2. data[w + (o - w)].at = o - w
      BY <2>2, <3>1, ByteOf DEF Intact
    <3>3. o - w = 0
      BY <2>6, <3>1, <3>2 DEF StartsItem
    <3>. QED BY <1>1, <3>3
  <2>. QED BY <1>1, <1>2, <2>3, <2>4, <2>5, <2>6
<1>4. CASE BlankFrom(w)
  <2>1. n \in Nat /\ w + ITEM_HEADER <= dataEnd
    BY <1>1, NextIsOffset, Constants DEF TypeInv
  <2>2. n = w + ITEM_HEADER - 1
    BY <1>1, <1>4, <2>1, NextInFill, Constants
  <2>3. w <= n
    BY <1>1, <2>2, Constants
  <2>4. BlankFrom(n)
    BY <1>1, <1>4, <2>1, <2>3 DEF BlankFrom
  <2>5. ASSUME NEW o \in w .. n - 1, StartsItem(o) PROVE o = w
    <3>1. o \in w .. dataEnd - 1
      BY <1>1, <2>5 DEF StartsItem
    <3>2. data[o] = Blank
      BY <1>4, <3>1 DEF BlankFrom
    <3>. QED BY <2>5, <3>2 DEF StartsItem, Blank
  <2>. QED BY <1>2, <2>1, <2>3, <2>4, <2>5 DEF Heads
<1>. QED BY <1>3, <1>4 DEF Passed, Heads

\* What starts an item once the item of the call is written: that item, and those
\* it does not overwrite.
LEMMA StartsAfterWrite ==
  ASSUME TypeInv, Ring, pc \in {"write", "flush"}, WriteItem, UNCHANGED call
  PROVE  /\ itemInsertOffset \in Nat /\ size \in ItemSizes /\ size \in Nat /\ size > 0
         /\ itemInsertOffset + size <= MAX_DATA_OFFSET
         /\ MAX_DATA_OFFSET \in Nat /\ dataEnd = MAX_DATA_OFFSET /\ dataEnd' = MAX_DATA_OFFSET
         /\ \A o \in 0 .. MAX_DATA_OFFSET - 1 : o \notin ItemBytes => data'[o] = data[o]
         /\ \A o \in 0 .. MAX_DATA_OFFSET - 1 : o \in ItemBytes =>
               data'[o].id = calls /\ data'[o].size = size
         /\ StartsItem(itemInsertOffset)'
         /\ \A o \in 0 .. MAX_DATA_OFFSET - 1 :
               StartsItem(o)' <=> o = itemInsertOffset \/ (o \notin ItemBytes /\ StartsItem(o))
<1>. DEFINE ins == itemInsertOffset
            m   == MAX_DATA_OFFSET
<1>1. /\ ins \in Nat /\ size \in ItemSizes /\ size \in Nat /\ size > 0
      /\ m \in Nat /\ ins + size <= m /\ NoneAcross(ins)
  <2>1. ins \in Nat /\ size \in ItemSizes /\ m \in Nat
    BY Constants DEF TypeInv, TypeOK, Appending
  <2>2. ins + size <= m /\ NoneAcross(ins)
    BY DEF Ring, PlaceInv, GoodPlace
  <2>. QED BY <2>1, <2>2, ItemSize
<1>2. /\ dataEnd = m /\ dataEnd' = m
      /\ \A o \in 0 .. m - 1 : o \notin ItemBytes => data'[o] = data[o]
      /\ StartsItem(ins)'
  BY <1>1, WriteKeepsItems DEF Ring, Appending
<1>3. ASSUME NEW o \in 0 .. m - 1, o \in ItemBytes
      PROVE  data'[o].id = calls /\ data'[o].size = size /\ data'[o].at = o - ins
  <2>1. data'[o] = [id |-> calls, size |-> size, at |-> o - ins]
    BY <1>2, <1>3 DEF WriteItem, Write, ItemBytes
  <2>. QED BY <2>1
<1>4. ASSUME NEW o \in 0 .. m - 1
      PROVE  StartsItem(o)' <=> o = ins \/ (o \notin ItemBytes /\ StartsItem(o))
  <2>1. CASE o \notin ItemBytes
    <3>1. o # ins
      BY <1>1, <2>1 DEF ItemBytes
    <3>. QED BY <1>2, <2>1, <3>1 DEF StartsItem
  <2>2. CASE o = ins
    <3>1. StartsItem(o)'
      BY <1>2, <2>2 DEF StartsItem, call
    <3>. QED BY <2>2, <3>1
  <2>3. CASE o \in ItemBytes /\ o # ins
    <3>1. data'[o].at # 0
      BY <1>1, <1>3, <2>3 DEF ItemBytes
    <3>. QED BY <2>3, <3>1 DEF StartsItem
  <2>. QED BY <2>1, <2>2, <2>3
<1>. QED BY <1>1, <1>2, <1>3, <1>4

\* Writing the item of the call keeps the circle, with first where the call has
\* moved it to.
LEMMA WriteKeepsCircle ==
  ASSUME TypeInv, Ring, NoneNewer, IsNewer, pc \in {"write", "flush"}, WriteItem,
         UNCHANGED call, NEW first \in Nat, Ready(first)
  PROVE  Circle(first)' /\ RoomAt(first, itemInsertOffset + size)'
<1>. DEFINE ins == itemInsertOffset
            m   == MAX_DATA_OFFSET
<1>1. /\ ins \in Nat /\ size \in ItemSizes /\ size \in Nat /\ size > 0 /\ ins + size <= m
      /\ m \in Nat /\ dataEnd = m /\ dataEnd' = m
      /\ \A o \in 0 .. m - 1 : o \notin ItemBytes => data'[o] = data[o]
      /\ \A o \in 0 .. m - 1 : o \in ItemBytes => data'[o].id = calls /\ data'[o].size = size
      /\ StartsItem(ins)'
      /\ \A o \in 0 .. m - 1 :
            StartsItem(o)' <=> o = ins \/ (o \notin ItemBytes /\ StartsItem(o))
  BY StartsAfterWrite
<1>2. ins \in ItemBytes /\ \A o \in 0 .. m - 1 : o \in ItemBytes <=> ins <= o /\ o < ins + size
  BY <1>1 DEF ItemBytes
<1>3. \A o \in 0 .. m - 1 : data[o].id \in Nat /\ data[o].size \in Nat /\ data[o].id < calls
                            /\ calls \in Nat
  <2>1. calls \in Nat /\ TypeOK
    BY Constants DEF TypeInv, TypeOK
  <2>2. TAKE o \in 0 .. m - 1
  <2>3. data[o].size \in Nat /\ data[o].id \in Nat
    BY <1>1, <2>1, ByteFields, Constants
  <2>. QED BY <1>1, <2>1, <2>3 DEF IsNewer
<1>4. ASSUME NEW o \in Nat, o >= ins + size, Heads(o) PROVE Heads(o)'
  <2>1. CASE StartsItem(o)
    <3>1. o \in 0 .. m - 1
      BY <1>1, <2>1 DEF StartsItem
    <3>2. o \notin ItemBytes
      BY <1>1, <1>2, <1>4, <3>1
    <3>3. StartsItem(o)'
      BY <1>1, <2>1, <3>1, <3>2
    <3>. QED BY <3>3 DEF Heads
  <2>2. CASE BlankFrom(o)
    <3>1. ASSUME NEW p \in o .. m - 1 PROVE data'[p] = Blank
      <4>1. p \in 0 .. m - 1 /\ p \notin ItemBytes
        BY <1>1, <1>2, <1>4
      <4>. QED BY <1>1, <2>2, <4>1 DEF BlankFrom
    <3>2. BlankFrom(o)'
      BY <1>1, <3>1 DEF BlankFrom
    <3>. QED BY <3>2 DEF Heads
  <2>. QED BY <1>4, <2>1, <2>2 DEF Heads
<1>5. ASSUME ins + size <= first, NEW f \in Nat, Circle(f), Passed(f, first)
      PROVE  Circle(first)' /\ RoomAt(first, ins + size)'
  <2>1. f <= first /\ ins <= f /\ Heads(first)
        /\ \A o \in f .. first - 1 : StartsItem(o) => o < ins + size
    BY <1>5 DEF Passed
  <2>2. ASSUME NEW o \in first .. m - 1, StartsItem(o)'
        PROVE  o \in 0 .. m - 1 /\ o \in f .. m - 1 /\ StartsItem(o) /\ data'[o] = data[o]
    <3>1. o \in 0 .. m - 1 /\ o \in f .. m - 1
      BY <1>1, <2>1
    <3>2. o # ins
      BY <1>1, <1>5, <3>1
    <3>3. o \notin ItemBytes /\ StartsItem(o)
      BY <1>1, <2>2, <3>1, <3>2
    <3>. QED BY <1>1, <3>1, <3>3
  <2>3. ASSUME NEW o \in first .. m - 1, NEW p \in 0 .. m - 1, StartsItem(o)', StartsItem(p)',
               o < p \/ p < first
        PROVE  data'[o].id < data'[p].id
    <3>1. o \in 0 .. m - 1 /\ o \in f .. m - 1 /\ StartsItem(o) /\ data'[o] = data[o]
      BY <2>2, <2>3
    <3>2. CASE p = ins
      BY <1>1, <1>2, <1>3, <3>1, <3>2
    <3>3. CASE p # ins
      <4>1. p \notin ItemBytes /\ StartsItem(p) /\ data'[p] = data[p]
        BY <1>1, <2>3, <3>3
      <4>2. o < p \/ p < f
        <5>1. SUFFICES ASSUME p < first, f <= p PROVE FALSE
          BY <1>1, <2>3
        <5>2. p \in f .. first - 1
          BY <1>1, <5>1
        <5>3. p < ins + size /\ ins <= p
          BY <1>1, <2>1, <4>1, <5>1, <5>2
        <5>. QED BY <1>2, <4>1, <5>3
      <4>3. data[o].id < data[p].id
        BY <1>1, <1>5, <3>1, <4>1, <4>2 DEF Circle, InOrder
      <4>. QED BY <3>1, <4>1, <4>3
    <3>. QED BY <3>2, <3>3
  <2>4. ASSUME NEW o \in first .. m - 1, StartsItem(o)' PROVE Heads(o + data[o].size)'
    <3>1. o \in 0 .. m - 1 /\ o \in f .. m - 1 /\ StartsItem(o) /\ data'[o] = data[o]
      BY <2>2, <2>4
    <3>2. PICK e \in Nat : e = o + data[o].size
      BY <1>3, <3>1
    <3>3. Heads(e)
      BY <1>1, <1>5, <3>1, <3>2 DEF Circle, Tight
    <3>4. e >= ins + size
      BY <1>1, <1>3, <1>5, <3>1, <3>2
    <3>5. Heads(e)'
      BY <1>4, <3>3, <3>4
    <3>. QED BY <3>1, <3>2, <3>5
  <2>5. Circle(first)'
    <3>1. Heads(first)'
      BY <1>4, <1>5, <2>1
    <3>2. InOrder(first)'
      BY <1>1, <2>3 DEF InOrder
    <3>3. Tight(first)'
      BY <1>1, <2>4 DEF Tight
    <3>. QED BY <3>1, <3>2, <3>3 DEF Circle
  <2>6. RoomAt(first, ins + size)'
    BY <1>5 DEF RoomAt, call
  <2>. QED BY <2>5, <2>6
<1>6. ASSUME first = 0, Circle(0), BlankFrom(ins), ins > 0 => data[ins - 1].id # 0
      PROVE  Circle(first)' /\ RoomAt(first, ins + size)'
  <2>1. ASSUME NEW p \in ins + size .. m - 1 PROVE data'[p] = Blank
    <3>1. p \in 0 .. m - 1 /\ p \notin ItemBytes /\ p \in ins .. m - 1
      BY <1>1, <1>2
    <3>. QED BY <1>1, <1>6, <3>1 DEF BlankFrom
  <2>2. ASSUME NEW o \in 0 .. m - 1, StartsItem(o)'
        PROVE  o = ins \/ (o < ins /\ StartsItem(o) /\ data'[o] = data[o])
    <3>1. SUFFICES ASSUME o # ins PROVE o < ins /\ StartsItem(o) /\ data'[o] = data[o]
      OBVIOUS
    <3>2. o \notin ItemBytes /\ StartsItem(o) /\ data'[o] = data[o]
      BY <1>1, <2>2, <3>1
    <3>3. o < ins
      <4>1. SUFFICES ASSUME o >= ins PROVE FALSE
        BY <1>1
      <4>2. data[o] = Blank
        BY <1>1, <1>6, <4>1 DEF BlankFrom
      <4>. QED BY <3>2, <4>2 DEF StartsItem, Blank
    <3>. QED BY <3>2, <3>3
  <2>3. ASSUME NEW o \in 0 .. m - 1, o < ins, StartsItem(o), data'[o] = data[o]
        PROVE  StartsItem(o)'
    BY <1>1, <1>2, <2>3
  <2>4. Heads(0)'
    <3>1. CASE ins = 0
      BY <1>1, <3>1 DEF Heads, call
    <3>2. CASE ins # 0
      <4>1. ins - 1 \in 0 .. m - 1 /\ 0 \in 0 .. m - 1 /\ 0 \notin ItemBytes
        BY <1>1, <1>2, <3>2
      <4>2. ~ BlankFrom(0)
        BY <1>1, <1>6, <3>2, <4>1 DEF BlankFrom, Blank
      <4>3. StartsItem(0)'
        BY <1>1, <1>6, <4>1, <4>2 DEF Circle, Heads
      <4>. QED BY <4>3 DEF Heads
    <3>. QED BY <3>1, <3>2
  <2>5. ASSUME NEW o \in 0 .. m - 1, NEW p \in 0 .. m - 1, StartsItem(o)', StartsItem(p)', o < p
        PROVE  data'[o].id < data'[p].id
    <3>1. o < ins /\ StartsItem(o) /\ data'[o] = data[o]
      BY <1>1, <2>2, <2>5
    <3>2. CASE p = ins
      BY <1>1, <1>2, <1>3, <3>1, <3>2
    <3>3. CASE p # ins
      BY <1>1, <1>6, <2>2, <2>5, <3>1, <3>3 DEF Circle, InOrder
    <3>. QED BY <3>2, <3>3
  <2>6. ASSUME NEW o \in 0 .. m - 1, StartsItem(o)' PROVE Heads(o + data[o].size)'
    <3>1. CASE o = ins
      <4>1. data'[o].size = size
        BY <1>1, <1>2, <3>1
      <4>2. BlankFrom(ins + size)'
        BY <1>1, <2>1 DEF BlankFrom, call
      <4>. QED BY <3>1, <4>1, <4>2 DEF Heads, call
    <3>2. CASE o # ins
      <4>1. o < ins /\ StartsItem(o) /\ data'[o] = data[o]
        BY <2>2, <2>6, <3>2
      <4>. PICK e \in Nat : e = o + data[o].size
        BY <1>3
      <4>2. Heads(e)
        BY <1>1, <1>6, <4>1 DEF Circle, Tight
      <4>3. e <= ins
        <5>1. NoneAcross(ins)
          BY DEF Ring, PlaceInv, GoodPlace
        <5>2. o \in 0 .. ins - 1
          BY <1>1, <4>1
        <5>. QED BY <1>3, <4>1, <5>1, <5>2 DEF NoneAcross
      <4>4. StartsItem(e)'
        <5>1. CASE e = ins
          BY <1>1, <5>1 DEF call
        <5>2. CASE e # ins
          <6>1. e \in 0 .. m - 1 /\ e \notin ItemBytes /\ ins - 1 \in e .. m - 1
            BY <1>1, <1>2, <4>3, <5>2
          <6>2. ~ BlankFrom(e)
            BY <1>1, <1>6, <4>3, <5>2, <6>1 DEF BlankFrom, Blank
          <6>. QED BY <1>1, <4>2, <6>1, <6>2 DEF Heads
        <5>. QED BY <5>1, <5>2
      <4>. QED BY <4>1, <4>4 DEF Heads
    <3>. QED BY <3>1, <3>2
  <2>7. Circle(first)'
    <3>1. InOrder(0)'
      BY <1>1, <2>5 DEF InOrder
    <3>2. Tight(0)'
      BY <1>1, <2>6 DEF Tight
    <3>. QED BY <1>6, <2>4, <3>1, <3>2 DEF Circle
  <2>8. RoomAt(first, ins + size)'
    BY <1>1, <1>6, <2>1 DEF RoomAt, BlankFrom, call
  <2>. QED BY <2>7, <2>8
<1>. QED BY <1>5, <1>6 DEF Ready

\* What is said of the disk stays so as long as the disk does.
LEMMA SameDisk ==
  ASSUME UNCHANGED disk, NEW f
  PROVE  /\ BlankFrom(f)' <=> BlankFrom(f)
         /\ Circle(f)' <=> Circle(f)
         /\ \A e : RoomAt(f, e)' <=> RoomAt(f, e)
         /\ UNCHANGED <<itemInsertOffset, size>> =>
               /\ \A w : Passed(f, w)' <=> Passed(f, w)
               /\ Ready(f)' <=> Ready(f)
<1>1. data' = data /\ dataEnd' = dataEnd
  BY DEF disk
<1>2. \A o : (BlankFrom(o)' <=> BlankFrom(o)) /\ (StartsItem(o)' <=> StartsItem(o))
             /\ (Heads(o)' <=> Heads(o))
  BY <1>1 DEF BlankFrom, StartsItem, Heads
<1>3. \A g : Circle(g)' <=> Circle(g)
  BY <1>1, <1>2 DEF Circle, InOrder, Tight
<1>4. \A e : RoomAt(f, e)' <=> RoomAt(f, e)
  BY <1>2 DEF RoomAt
<1>5. ASSUME UNCHANGED <<itemInsertOffset, size>>
      PROVE  (\A g, w : Passed(g, w)' <=> Passed(g, w)) /\ (Ready(f)' <=> Ready(f))
  <2>1. \A g, w : Passed(g, w)' <=> Passed(g, w)
    BY <1>2, <1>5 DEF Passed
  <2>2. Ready(f)' <=> Ready(f)
    BY <1>1, <1>2, <1>3, <1>5, <2>1 DEF Ready
  <2>. QED BY <2>1, <2>2
<1>. QED BY <1>2, <1>3, <1>4, <1>5

\* The newest item is behind FirstItemOffset, or on the first lap with the fill behind
\* it: the place of the next, and where the search begins, are clear.
LEMMA CallIsReady ==
  ASSUME TypeInv, Ring, Oldest, log # <<>>, pc = "idle",
         NEW n \in GetNextItemOffset(mFileHeaderStruct.LastItemOffset)
  PROVE  LET f == fileHeader.FirstItemOffset
         IN  /\ n \in Nat /\ n > 0 /\ Circle(f) /\ f \in Nat
             /\ n <= f \/ (f = 0 /\ BlankFrom(n) /\ data[n - 1].id # 0)
<1>. DEFINE f == fileHeader.FirstItemOffset
            L == Newest.offset
<1>1. /\ L = mFileHeaderStruct.LastItemOffset /\ L \in Nat /\ Newest.size \in ItemSizes
      /\ n = End(Newest) /\ n <= MAX_DATA_OFFSET
  BY Successor
<1>2. Newest.size \in Nat /\ Newest.size > 0 /\ n = L + Newest.size
  BY <1>1, ItemSize DEF End
<1>3. Circle(f) /\ RoomAt(f, n) /\ f \in Nat
  BY <1>1 DEF Oldest, Circle
<1>4. data[n - 1].id # 0
  <2>1. StartsItem(L) /\ data[L].size = Newest.size
    BY DEF Ring, NewestInv
  <2>2. L \in 0 .. dataEnd - 1
    BY <1>1, <1>2, Constants DEF Ring
  <2>3. Intact(L)
    BY <2>1, <2>2 DEF Ring, AllIntact
  <2>4. Newest.size - 1 \in 0 .. data[L].size - 1 /\ L + (Newest.size - 1) = n - 1
    BY <1>1, <1>2, <2>1
  <2>5. data[n - 1] = [id |-> data[L].id, size |-> data[L].size, at |-> Newest.size - 1]
    BY <2>3, <2>4 DEF Intact, FirstBytes
  <2>. QED BY <2>1, <2>5 DEF StartsItem
<1>. QED BY <1>1, <1>2, <1>3, <1>4 DEF RoomAt

\* The calls of AppendItem.
LEMMA CallKeepsOldest ==
  ASSUME TypeInv, TypeInv', Ring, Oldest, NEW s \in ItemSizes,
         AppendToEmpty(s) \/ AppendSecond(s) \/ AppendFurther(s) \/ AppendThrows(s)
  PROVE  Oldest'
<1>. DEFINE f == fileHeader.FirstItemOffset
<1>1. /\ pc = "idle" /\ calls' = calls + 1 /\ UNCHANGED <<disk, torn, log>>
      /\ fileHeader' = fileHeader /\ data' = data /\ dataEnd' = dataEnd
      /\ mFileHeaderStruct.FirstItemOffset = f
  BY DEF AppendToEmpty, AppendSecond, AppendFurther, AppendThrows, Call, disk, Oldest
<1>2. NoneNewer' /\ IsNewer' /\ ~ torn'
  <2>1. ASSUME NEW o \in 0 .. dataEnd - 1
        PROVE  data[o].id < calls + 1 /\ data[o].id <= calls + 1
               /\ (data[o].id # 0 => data[o].size \in ItemSizes)
    <3>1. data[o].id <= calls /\ (data[o].id # 0 => data[o].size \in ItemSizes)
      BY DEF Oldest, NoneNewer
    <3>2. data[o].id \in Nat /\ calls \in Nat
      <4>1. TypeOK /\ calls \in Nat
        BY Constants DEF TypeInv, TypeOK
      <4>2. data[o].id \in 0 .. MAX_CALLS
        BY <4>1, ByteFields
      <4>. QED BY <4>1, <4>2
    <3>. QED BY <3>1, <3>2
  <2>. QED BY <1>1, <2>1 DEF NoneNewer, IsNewer, Oldest
<1>3. /\ log' = <<>> => BlankFrom(0)'
      /\ log' # <<>> => Circle(f)' /\ RoomAt(fileHeader.FirstItemOffset, End(Newest))'
  <2>1. Newest' = Newest /\ End(Newest)' = End(Newest)
    BY <1>1 DEF Newest, End
  <2>2. log # <<>> => RoomAt(fileHeader.FirstItemOffset, End(Newest))'
    BY <1>1, <2>1 DEF Oldest, RoomAt, BlankFrom
  <2>. QED BY <1>1, <2>2, SameDisk DEF Oldest
<1>4. pc' \in {"idle", "search"} => mFileHeaderStruct'.FirstItemOffset = f
  BY <1>1 DEF AppendToEmpty, AppendSecond, AppendFurther, AppendThrows, PlaceSecond, PlaceFurther,
              TypeInv, TypeOK, FileHeaderStruct
<1>5. CASE AppendToEmpty(s)
  <2>1. /\ pc' = "write" /\ itemInsertOffset' = 0
        /\ mFileHeaderStruct'.FirstItemOffset = 0
    BY <1>5 DEF AppendToEmpty, TypeInv, TypeOK, FileHeaderStruct
  <2>2. log = <<>>
    <3>1. log # <<>> => Newest.offset = INVALID_OFFSET
      BY <1>1, <1>5 DEF AppendToEmpty, NoItem, Ring, MemoryInv
    <3>2. log # <<>> => Newest.offset < MAX_DATA_OFFSET
      BY DEF Ring, NewestInv
    <3>. QED BY <3>1, <3>2, Constants
  <2>3. BlankFrom(0)'
    BY <1>1, <1>3, <2>2
  <2>4. Circle(0)'
    BY <2>3 DEF Circle, Heads, InOrder, Tight, BlankFrom, StartsItem, Blank
  <2>5. Ready(0)'
    BY <2>1, <2>3, <2>4 DEF Ready
  <2>6. Ready(mFileHeaderStruct.FirstItemOffset)'
    BY <2>1, <2>5 DEF Ready
  <2>. QED BY <1>1, <1>2, <1>3, <2>1, <2>2, <2>6 DEF Oldest
<1>6. ASSUME log # <<>>, NEW n \in GetNextItemOffset(mFileHeaderStruct.LastItemOffset),
             ~ (n <= f), pc' = "write", itemInsertOffset' = n,
             mFileHeaderStruct'.FirstItemOffset = f
      PROVE  Oldest'
  <2>1. n \in Nat /\ n > 0 /\ f = 0 /\ Circle(f) /\ BlankFrom(n) /\ data[n - 1].id # 0
    BY <1>1, <1>6, CallIsReady
  <2>2. Circle(0)' /\ BlankFrom(n)' /\ data'[n - 1].id # 0
    BY <1>1, <2>1, SameDisk
  <2>3. BlankFrom(itemInsertOffset)'
    BY <1>6, <2>2 DEF BlankFrom
  <2>4. Ready(mFileHeaderStruct.FirstItemOffset)'
    BY <1>6, <2>1, <2>2, <2>3 DEF Ready
  <2>. QED BY <1>1, <1>2, <1>3, <1>6, <2>4 DEF Oldest, Circle
<1>7. CASE AppendSecond(s)
  <2>1. PICK n \in GetNextItemOffset(mFileHeaderStruct.LastItemOffset) : PlaceSecond(s, n)
    BY <1>7 DEF AppendSecond
  <2>2. log # <<>>
    BY <1>1, <2>1, Successor
  <2>3. /\ pc' = "write" /\ itemInsertOffset' = n /\ f = 0
        /\ mFileHeaderStruct'.FirstItemOffset = f
    BY <1>1, <1>7, <2>1 DEF AppendSecond, OneItem, PlaceSecond, TypeInv, TypeOK, FileHeaderStruct
  <2>4. ~ (n <= f)
    <3>1. n \in Nat /\ n > 0
      BY <1>1, <2>2, CallIsReady
    <3>. QED BY <2>3, <3>1
  <2>. QED BY <1>6, <2>2, <2>3, <2>4
<1>8. CASE AppendFurther(s)
  <2>1. PICK n \in GetNextItemOffset(mFileHeaderStruct.LastItemOffset) : PlaceFurther(s, n)
    BY <1>8 DEF AppendFurther
  <2>2. log # <<>>
    BY <1>1, <2>1, Successor
  <2>3. n \in Nat /\ Circle(f) /\ f \in Nat
    BY <1>1, <2>2, CallIsReady
  <2>. DEFINE ins == IF WrapsAt(n, s) THEN 0 ELSE n
  <2>4. /\ itemInsertOffset' = ins /\ mFileHeaderStruct'.FirstItemOffset = f
        /\ pc' = IF ins <= f THEN "search" ELSE "write"
        /\ ins <= f => itemOffset' = f
    BY <1>1, <2>1 DEF PlaceFurther, TypeInv, TypeOK, FileHeaderStruct
  <2>5. CASE ins <= f
    <3>1. Heads(f)'
      BY <1>1, <2>3 DEF Circle, Heads, StartsItem, BlankFrom
    <3>2. Passed(f, f)'
      <4>1. /\ f' = f /\ itemInsertOffset' <= f /\ f <= f
            /\ \A o \in f .. f - 1 : FALSE
        BY <1>1, <2>3, <2>4, <2>5
      <4>. HIDE DEF f
      <4>. QED BY <3>1, <4>1 DEF Passed
    <3>3. Passed(fileHeader.FirstItemOffset, itemOffset)'
      BY <1>1, <2>4, <2>5, <3>2 DEF Passed
    <3>. QED BY <1>1, <1>2, <1>3, <2>2, <2>4, <2>5, <3>3 DEF Oldest, Circle
  <2>6. CASE ~ (ins <= f)
    <3>1. ins = n
      BY <2>3, <2>6
    <3>. QED BY <1>6, <2>1, <2>2, <2>4, <2>6, <3>1
  <2>. QED BY <2>5, <2>6
<1>9. CASE AppendThrows(s)
  <2>1. pc' = "idle" /\ mFileHeaderStruct' = mFileHeaderStruct
    BY <1>1, <1>9 DEF AppendThrows
  <2>. QED BY <1>1, <1>2, <1>3, <2>1 DEF Oldest, Circle
<1>. QED BY <1>5, <1>7, <1>8, <1>9

\* The turns of the search, and its end.
LEMMA SearchKeepsOldest ==
  ASSUME TypeInv, TypeInv', Ring, Oldest, SearchFirst \/ SearchFound \/ SearchThrows
  PROVE  Oldest'
<1>. DEFINE f == fileHeader.FirstItemOffset
<1>1. /\ pc = "search" /\ UNCHANGED <<disk, torn, log, calls, itemInsertOffset, size>>
      /\ fileHeader' = fileHeader /\ data' = data /\ dataEnd' = dataEnd
      /\ mFileHeaderStruct.FirstItemOffset = f
  BY DEF SearchFirst, SearchFound, SearchThrows, disk, call, Oldest
<1>2. NoneNewer' /\ IsNewer' /\ ~ torn' /\ log' # <<>>
  BY <1>1 DEF NoneNewer, IsNewer, Oldest
<1>3. Circle(f)' /\ Circle(f) /\ f \in Nat /\ Passed(f, itemOffset)
  BY <1>1, SameDisk DEF Oldest, Circle
<1>4. RoomAt(fileHeader.FirstItemOffset, End(Newest))'
  BY <1>1 DEF Oldest, RoomAt, BlankFrom, Newest, End
<1>5. CASE SearchFirst
  <2>1. PICK n \in GetNextItemOffset(itemOffset) : itemOffset' = n
    BY <1>5 DEF SearchFirst
  <2>2. pc' = "search" /\ mFileHeaderStruct' = mFileHeaderStruct /\ InTheWay
    BY <1>1, <1>5 DEF SearchFirst
  <2>3. Passed(f, n)
    BY <1>1, <1>3, <2>1, <2>2, SearchPasses DEF Oldest
  <2>4. Passed(f, n)'
    BY <1>1, <2>3, SameDisk
  <2>5. Passed(fileHeader.FirstItemOffset, itemOffset)'
    BY <1>1, <2>1, <2>4 DEF Passed
  <2>. QED BY <1>1, <1>2, <1>3, <1>4, <2>2, <2>5 DEF Oldest, Circle
<1>6. CASE SearchFound
  <2>1. /\ pc' = "write" /\ mFileHeaderStruct'.FirstItemOffset = itemOffset
        /\ itemOffset \in Nat /\ itemInsertOffset + size <= itemOffset
    <3>1. pc' = "write" /\ mFileHeaderStruct'.FirstItemOffset = itemOffset /\ ~ InTheWay
      BY <1>6 DEF SearchFound, TypeInv, TypeOK, FileHeaderStruct
    <3>2. itemOffset \in Nat /\ itemInsertOffset \in Nat /\ size \in Nat
      BY Constants DEF TypeInv, TypeOK
    <3>. QED BY <3>1, <3>2 DEF InTheWay
  <2>2. Ready(itemOffset)
    BY <1>3, <2>1 DEF Ready
  <2>3. Ready(mFileHeaderStruct.FirstItemOffset)'
    <3>1. PICK first : first = itemOffset
      OBVIOUS
    <3>2. Ready(first)'
      BY <1>1, <2>2, <3>1, SameDisk
    <3>. QED BY <2>1, <3>1, <3>2 DEF Ready
  <2>. QED BY <1>1, <1>2, <1>3, <2>1, <2>3 DEF Oldest, Circle
<1>7. CASE SearchThrows
  <2>1. pc' = "idle" /\ mFileHeaderStruct' = mFileHeaderStruct
    BY <1>7 DEF SearchThrows
  <2>. QED BY <1>1, <1>2, <1>3, <1>4, <2>1 DEF Oldest, Circle
<1>. QED BY <1>5, <1>6, <1>7

\* The item of the call reaches the file, and the log.
LEMMA PlacingKeepsOldest ==
  ASSUME TypeInv, TypeInv', Ring, Oldest,
         WriteData \/ BufferData \/ UpdateFileHeader \/ FlushData
  PROVE  Oldest'
<1>1. CASE WriteData \/ FlushData
  <2>1. /\ pc \in {"write", "flush"} /\ WriteItem /\ UNCHANGED call
        /\ UNCHANGED <<fileHeader, mFileHeaderStruct, torn, log, calls, itemInsertOffset, size>>
        /\ pc' = IF pc = "write" THEN "publish" ELSE "idle"
    BY <1>1 DEF WriteData, FlushData, call
  <2>2. PICK first \in Nat : first = mFileHeaderStruct.FirstItemOffset
    BY Constants DEF TypeInv, TypeOK, FileHeaderStruct
  <2>3. NoneNewer /\ IsNewer /\ Ready(first)
    BY <2>1, <2>2 DEF Oldest
  <2>4. Circle(first)' /\ RoomAt(first, itemInsertOffset + size)'
    BY <2>1, <2>3, WriteKeepsCircle
  <2>5. /\ Circle(mFileHeaderStruct.FirstItemOffset)'
        /\ RoomAt(mFileHeaderStruct.FirstItemOffset, itemInsertOffset + size)'
    BY <2>1, <2>2, <2>4 DEF Circle, Heads, InOrder, Tight, RoomAt
  <2>6. NoneNewer'
    <3>1. /\ dataEnd = MAX_DATA_OFFSET /\ dataEnd' = MAX_DATA_OFFSET /\ size \in ItemSizes
          /\ \A o \in 0 .. MAX_DATA_OFFSET - 1 : o \notin ItemBytes => data'[o] = data[o]
          /\ \A o \in 0 .. MAX_DATA_OFFSET - 1 : o \in ItemBytes =>
                data'[o].id = calls /\ data'[o].size = size
      BY <2>1, StartsAfterWrite
    <3>2. calls \in Nat
      BY Constants DEF TypeInv, TypeOK
    <3>. QED BY <2>1, <2>3, <3>1, <3>2 DEF NoneNewer
  <2>7. CASE pc = "write"
    BY <2>1, <2>5, <2>6, <2>7 DEF Oldest
  <2>8. CASE pc = "flush"
    <3>1. log # <<>> /\ Newest = Published
      BY <2>8 DEF Ring, NewestInv
    <3>2. End(Newest)' = (itemInsertOffset + size)'
      BY <2>1, <3>1 DEF Newest, Published, End
    <3>3. mFileHeaderStruct'.FirstItemOffset = fileHeader'.FirstItemOffset
      BY <2>1, <2>8 DEF Oldest
    <3>. QED BY <2>1, <2>5, <2>6, <2>8, <3>1, <3>2, <3>3 DEF Oldest, Circle, RoomAt
  <2>. QED BY <2>1, <2>7, <2>8
<1>2. CASE BufferData \/ UpdateFileHeader
  <2>. DEFINE m == mFileHeaderStruct.FirstItemOffset
  <2>1. /\ UNCHANGED <<mFileHeaderStruct, torn, calls, itemInsertOffset, size>>
        /\ data' = data /\ dataEnd' = dataEnd
    BY <1>2 DEF BufferData, UpdateFileHeader, Placed, disk, call
  <2>2. /\ NoneNewer' /\ (IsNewer => IsNewer') /\ ~ torn'
        /\ \A o : BlankFrom(o)' <=> BlankFrom(o)
        /\ \A o : Heads(o)' <=> Heads(o)
        /\ \A o : StartsItem(o)' <=> StartsItem(o)
    BY <2>1 DEF NoneNewer, IsNewer, Oldest, BlankFrom, Heads, StartsItem
  <2>3. ASSUME Ready(m) PROVE Ready(mFileHeaderStruct.FirstItemOffset)'
    BY <2>1, <2>2, <2>3 DEF Ready, Circle, InOrder, Tight, Passed
  <2>4. CASE BufferData
    <3>1. pc = "write" /\ pc' = "publishBuffered" /\ log' = log /\ fileHeader' = fileHeader
      BY <2>4 DEF BufferData, disk
    <3>2. log # <<>> => Circle(fileHeader.FirstItemOffset)'
      BY <2>1, <2>2, <3>1 DEF Oldest, Circle, InOrder, Tight
    <3>. QED BY <2>1, <2>2, <2>3, <3>1, <3>2 DEF Oldest
  <2>5. CASE UpdateFileHeader
    <3>1. /\ Placed /\ fileHeader' = mFileHeaderStruct
          /\ pc \in {"publish", "publishBuffered"}
          /\ pc' = IF pc = "publish" THEN "idle" ELSE "flush"
      BY <2>5 DEF UpdateFileHeader, Placed
    <3>2. log' # <<>> /\ Newest' = Published
      <4>1. log # <<>> => Follows(itemInsertOffset, size)
        BY <3>1 DEF Ring, PlaceInv, GoodPlace
      <4>. QED BY <3>1, <4>1, PlacedChains DEF Ring
    <3>3. CASE pc = "publish"
      <4>1. Circle(m) /\ RoomAt(m, itemInsertOffset + size)
        BY <3>3 DEF Oldest
      <4>2. Circle(fileHeader.FirstItemOffset)'
        BY <2>1, <2>2, <3>1, <4>1 DEF Circle, InOrder, Tight
      <4>3. End(Newest)' = itemInsertOffset + size
        BY <3>2 DEF End, Published
      <4>4. RoomAt(fileHeader.FirstItemOffset, End(Newest))'
        BY <2>1, <2>2, <3>1, <4>1, <4>3 DEF RoomAt
      <4>. QED BY <2>1, <2>2, <3>1, <3>2, <3>3, <4>2, <4>4 DEF Oldest
    <3>4. CASE pc = "publishBuffered"
      BY <2>1, <2>2, <2>3, <3>1, <3>2, <3>4 DEF Oldest
    <3>. QED BY <3>1, <3>3, <3>4
  <2>. QED BY <1>2, <2>4, <2>5
<1>. QED BY <1>1, <1>2

\* Without a fault FirstItemOffset is where it has to be, at every moment of a call.
THEOREM OldestInvariant == SmallItems /\ Spec => []OldestInv
<1>. SUFFICES ASSUME SmallItems PROVE Spec => []OldestInv
  OBVIOUS
<1>1. Init => OldestInv
  <2>. SUFFICES ASSUME Init PROVE Oldest
    BY InitRing DEF OldestInv
  <2>1. /\ ~ torn /\ pc = "idle" /\ log = <<>>
        /\ \A o \in 0 .. dataEnd - 1 : data[o] = Blank
        /\ mFileHeaderStruct.FirstItemOffset = fileHeader.FirstItemOffset
    BY DEF Init
  <2>2. NoneNewer /\ BlankFrom(0)
    BY <2>1 DEF NoneNewer, BlankFrom, Blank, Init
  <2>. QED BY <2>1, <2>2 DEF Oldest
<1>2. OldestInv /\ RingInv' /\ [Next]_vars => OldestInv'
  <2>. SUFFICES ASSUME OldestInv, RingInv', [Next]_vars, faults' = 0 PROVE Oldest'
    BY DEF OldestInv
  <2>1. TypeInv /\ TypeInv'
    BY DEF OldestInv, RingInv
  <2>2. faults \in Nat
    BY <2>1, Constants DEF TypeInv, TypeOK
  <2>3. CASE UNCHANGED vars
    <3>1. /\ faults = 0 /\ UNCHANGED <<data, dataEnd, fileHeader, mFileHeaderStruct, pc, size,
                itemInsertOffset, itemOffset, calls, torn, log>>
      BY <2>3 DEF vars, disk, call
    <3>2. Oldest
      BY <3>1 DEF OldestInv
    <3>. QED BY <3>1, <3>2 DEF Oldest, NoneNewer, IsNewer, BlankFrom, Heads, StartsItem, InOrder,
                  Tight, Circle, RoomAt, Passed, Ready, Newest, End
  <2>4. CASE Next
    <3>1. /\ faults = 0 /\ ~ (HeaderLost \/ FlushLost \/ WriteFails \/ OpenFails \/ Crash)
      BY <2>2, <2>4 DEF Next, AppendItem, AppendToEmpty, AppendSecond, AppendFurther,
           AppendThrows, Call, SearchFirst, SearchFound, SearchThrows, WriteData, BufferData,
           UpdateFileHeader, FlushData, HeaderLost, FlushLost, WriteFails, OpenFails, Crash,
           Restart
    <3>2. Oldest /\ Ring
      BY <3>1 DEF OldestInv, RingInv, Oldest
    <3>3. ~ Restart
      BY <3>2 DEF Restart, Oldest
    <3>. QED BY <2>1, <2>4, <3>1, <3>2, <3>3, CallKeepsOldest, SearchKeepsOldest,
                PlacingKeepsOldest DEF Next, AppendItem
  <2>. QED BY <2>3, <2>4
<1>. QED BY <1>1, <1>2, RingInvariant, PTL DEF Spec

\* What the runs check of FirstIsOldestOrFill holds of every file with room for
\* three items: without a fault FirstItemOffset names the oldest item that is still
\* on the disk, or the fill that no item has reached.
THEOREM FirstIsOldest == SmallItems /\ Spec => []FirstIsOldestOrFill
<1>1. OldestInv => FirstIsOldestOrFill
  <2>. DEFINE first == fileHeader.FirstItemOffset
  <2>. SUFFICES ASSUME OldestInv, faults = 0, log # <<>>, pc \notin {"publish", "flush"}
                PROVE  \/ /\ StartsItem(first)
                          /\ \A o \in 0 .. dataEnd - 1 :
                                StartsItem(o) => data[first].id <= data[o].id
                       \/ \A o \in first .. dataEnd - 1 : data[o] = Blank
    BY DEF FirstIsOldestOrFill
  <2>1. Circle(first)
    BY DEF OldestInv, Oldest
  <2>2. CASE BlankFrom(first)
    BY <2>2 DEF BlankFrom
  <2>3. CASE StartsItem(first)
    <3>1. ASSUME NEW o \in 0 .. dataEnd - 1, StartsItem(o) PROVE data[first].id <= data[o].id
      <4>1. dataEnd \in Nat /\ first \in Nat /\ first < dataEnd /\ first \in first .. dataEnd - 1
            /\ first \in 0 .. dataEnd - 1
        BY <2>1, <2>3 DEF Circle, StartsItem, OldestInv, RingInv, TypeInv, TypeOK
      <4>2. data[first].id \in Nat /\ data[o].id \in Nat
        BY <4>1, ByteFields, Constants DEF OldestInv, RingInv, TypeInv
      <4>3. CASE o = first
        BY <4>2, <4>3
      <4>4. CASE o # first
        <5>1. first < o \/ o < first
          BY <4>1, <4>4
        <5>2. data[first].id < data[o].id
          BY <2>1, <2>3, <3>1, <4>1, <5>1 DEF Circle, InOrder
        <5>. QED BY <4>2, <5>2
      <4>. QED BY <4>3, <4>4
    <3>. QED BY <2>3, <3>1
  <2>. QED BY <2>1, <2>2, <2>3 DEF Circle, Heads
<1>. QED BY OldestInvariant, <1>1, PTL

\* What the runs check of SearchAdvances holds of every file with room for three
\* items: without a fault no turn of the search stays where it is or goes back, since
\* it stands at an item or in the fill.
THEOREM SearchMovesOn == SmallItems /\ Spec => SearchAdvances
<1>1. OldestInv /\ [Next]_vars => [faults = 0 /\ pc = "search" /\ pc' = "search"
                                    => itemOffset' > itemOffset]_vars
  <2>. SUFFICES ASSUME OldestInv, Next, faults = 0, pc = "search", pc' = "search"
                PROVE  itemOffset' > itemOffset
    OBVIOUS
  <2>. DEFINE w == itemOffset
              n == itemOffset'
  <2>1. Oldest /\ TypeInv /\ Ring
    BY DEF OldestInv, RingInv, Oldest
  <2>2. n \in GetNextItemOffset(w)
    BY DEF Next, AppendItem, AppendToEmpty, AppendSecond, AppendFurther, AppendThrows, Call,
           SearchFirst, SearchFound, SearchThrows, WriteData, BufferData, UpdateFileHeader,
           Placed, HeaderLost, FlushData, FlushLost, WriteFails, OpenFails, Crash, Restart
  <2>3. w \in Nat /\ w <= MAX_DATA_OFFSET /\ dataEnd = MAX_DATA_OFFSET
    BY <2>1, <2>2, NextIsOffset, Constants
    DEF TypeInv, TypeOK, Ring, GetNextItemOffset, NextOffsets, Readable
  <2>4. Heads(w)
    BY <2>1 DEF Oldest, Passed
  <2>5. CASE BlankFrom(w)
    <3>1. n = w + ITEM_HEADER - 1
      BY <2>1, <2>2, <2>3, <2>5, NextInFill
    <3>. QED BY <2>3, <3>1, Constants
  <2>6. CASE StartsItem(w)
    <3>1. w \in 0 .. dataEnd - 1
      BY <2>3, <2>6, Constants DEF StartsItem
    <3>2. Intact(w) /\ data[w].size \in ItemSizes
      BY <2>1, <2>6, <3>1 DEF Ring, AllIntact, Oldest, NoneNewer, StartsItem
    <3>3. data[w].size \in Nat /\ data[w].size > 0
      BY <3>2, ItemSize
    <3>4. n = w + data[w].size
      BY <2>1, <2>2, <2>3, <3>1, <3>2, <3>3, NextOfItem DEF TypeInv
    <3>. QED BY <2>3, <3>3, <3>4
  <2>. QED BY <2>4, <2>5, <2>6 DEF Heads
<1>. QED BY <1>1, OldestInvariant, PTL DEF Spec, SearchAdvances

=============================================================================
