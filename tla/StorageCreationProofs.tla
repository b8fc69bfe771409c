----------------------- MODULE StorageCreationProofs -----------------------
(***************************************************************************)
(* Theorems about StorageCreation, for every number of chunks, items and    *)
(* failures: its types, and that an orderly store is never created twice    *)
(* and never mistaken for one that is not there.                            *)
(*                                                                         *)
(* The properties speak of processes past the constructor.  What makes them *)
(* hold at every step is Orderly: the store is not there, or one process is *)
(* creating it and the other is not past its look for the file, or it is    *)
(* complete and nobody is creating.                                         *)
(***************************************************************************)
EXTENDS StorageCreation, TLAPS

NoFile == header = Absent /\ items = {} /\ length = 0 /\ saves = 0
Complete == header = saves /\ items = 1 .. saves /\ length = CHUNKS

\* The headers of no file, of a short one and of the fill are no numbers.
LEMMA NoNumbers == Absent \notin Nat /\ Short \notin Nat /\ Filler \notin Nat
BY CreationAssumption

\* How far p is with the file it is creating.
Stage(p) ==
    /\ items = {} /\ saves = 0
    /\ \/ pc[p] = "create" /\ NoFile
       \/ pc[p] = "fill" /\ filled[p] = 0 /\ header = Short /\ length = 0
       \/ pc[p] = "fill" /\ filled[p] > 0 /\ header = Filler /\ length = filled[p]
       \/ pc[p] = "empty" /\ header = Filler /\ length = CHUNKS

\* What p is doing, and knows, when the store is complete.
Knows(p) ==
    /\ pc[p] \in {"exists", "read", "current", "ready"}
    /\ pc[p] \in {"current", "ready"} => mHeader[p] \in 0 .. saves

Orderly ==
    \/ NoFile /\ \A p \in Processes : pc[p] = "exists"
    \/ \E p \in Processes : Stage(p) /\ \A q \in Processes \ {p} : pc[q] = "exists"
    \/ Complete /\ \A p \in Processes : Knows(p)
CreationInv == TypeOK /\ (~ overlapped => Orderly)

-----------------------------------------------------------------------------
\* The types hold before the constructors run, on a new store or an old one.
LEMMA InitTypes == Init => TypeOK
<1> SUFFICES ASSUME Init PROVE TypeOK
  OBVIOUS
<1> USE CreationAssumption DEF Init
<1>1. header \in Headers /\ items \subseteq 1 .. MAX_ITEMS /\ length \in 0 .. CHUNKS
  BY DEF Headers
<1>2. saves \in 0 .. MAX_ITEMS /\ crashes \in 0 .. MAX_CRASHES
  OBVIOUS
<1>3. pc \in [Processes -> {"exists", "create", "fill", "empty", "read", "current",
                            "ready", "dead"}]
  OBVIOUS
<1>4. filled \in [Processes -> 0 .. CHUNKS] /\ mHeader \in [Processes -> Headers]
  BY DEF Headers
<1>5. overlapped \in BOOLEAN
  OBVIOUS
<1> QED BY <1>1, <1>2, <1>3, <1>4, <1>5 DEF TypeOK

\* The constructor's steps keep the types.
LEMMA ConstructorTypes ==
    ASSUME TypeOK, NEW p \in Processes, Constructor(p) PROVE TypeOK'
<1> USE CreationAssumption DEF TypeOK, Headers
<1>1. CASE Exists(p)            BY <1>1 DEF Exists, Goto
<1>2. CASE Create(p)            BY <1>2 DEF Create, Goto
<1>3. CASE Fill(p)
  <2>1. filled[p] \in Nat /\ filled[p] + 1 \in 0 .. CHUNKS BY <1>3 DEF Fill
  <2>2. filled' \in [Processes -> 0 .. CHUNKS] /\ filled'[p] \in 0 .. CHUNKS
    BY <1>3, <2>1 DEF Fill
  <2>3. length' \in 0 .. CHUNKS BY <1>3, <2>2 DEF Fill
  <2>4. header' \in Headers /\ items' \subseteq 1 .. MAX_ITEMS BY <1>3 DEF Fill
  <2>5. pc' \in [Processes -> {"exists", "create", "fill", "empty", "read", "current",
                               "ready", "dead"}]
    BY <1>3 DEF Fill, Goto
  <2>6. overlapped' \in BOOLEAN BY <1>3 DEF Fill, Goto
  <2> QED BY <1>3, <2>2, <2>3, <2>4, <2>5, <2>6 DEF Fill
<1>4. CASE WriteHeader(p)       BY <1>4 DEF WriteHeader, Goto
<1>5. CASE ReadHeader(p)        BY <1>5 DEF ReadHeader, Goto
<1>6. CASE ReadCurrent(p)       BY <1>6 DEF ReadCurrent, Goto
<1>7. CASE CreateFails(p)       BY <1>7 DEF CreateFails, Fault
<1>8. CASE FillFails(p)         BY <1>8 DEF FillFails, Fault
<1>9. CASE WriteHeaderFails(p)  BY <1>9 DEF WriteHeaderFails, Fault
<1> QED BY <1>1, <1>2, <1>3, <1>4, <1>5, <1>6, <1>7, <1>8, <1>9 DEF Constructor

\* Every step keeps the types.
LEMMA StepTypes == TypeOK /\ [Next]_vars => TypeOK'
<1> SUFFICES ASSUME TypeOK, [Next]_vars PROVE TypeOK'
  OBVIOUS
<1> USE CreationAssumption
<1>1. ASSUME NEW p \in Processes, Constructor(p) PROVE TypeOK'
  BY <1>1, ConstructorTypes
<1>2. ASSUME NEW p \in Processes, Crash(p) PROVE TypeOK'
  BY <1>2 DEF Crash, TypeOK, Headers
<1>3. CASE SaveData
  <2>1. saves' \in 1 .. MAX_ITEMS /\ saves' \in 0 .. MAX_ITEMS
    BY <1>3 DEF SaveData, TypeOK
  <2>2. items' \subseteq 1 .. MAX_ITEMS
    BY <1>3, <2>1 DEF SaveData, TypeOK
  <2> QED BY <1>3, <2>1, <2>2 DEF SaveData, TypeOK, Headers
<1>4. CASE SaveDataAstray
  <2>1. saves' \in 1 .. MAX_ITEMS /\ saves' \in 0 .. MAX_ITEMS
    BY <1>4 DEF SaveDataAstray, TypeOK
  <2>2. items' \subseteq 1 .. MAX_ITEMS
    BY <1>4, <2>1 DEF SaveDataAstray, TypeOK
  <2> QED BY <1>4, <2>1, <2>2 DEF SaveDataAstray, TypeOK, Headers
<1>5. CASE SaveDataThrows  BY <1>5 DEF SaveDataThrows, Goto, TypeOK, Headers
<1>6. CASE UNCHANGED vars  BY <1>6 DEF vars, TypeOK, Headers
<1> QED BY <1>1, <1>2, <1>3, <1>4, <1>5, <1>6 DEF Next

\* The store's variables stay inside their types, for every number of chunks:
\* no chunk is written past the end of the ring, whatever fails or is killed.
THEOREM StoreTypeCorrect == Spec => []TypeOK
BY InitTypes, StepTypes, PTL DEF Spec

-----------------------------------------------------------------------------
\* The look for the file: it is created only if nobody has begun to.
LEMMA ExistsOrderly ==
    ASSUME TypeOK, Orderly, NEW p \in Processes, Exists(p), ~ overlapped'
    PROVE  Orderly'
<1> USE CreationAssumption DEF Exists, Goto, Overlaps, Constructing, Creating, TypeOK
<1>1. CASE NoFile /\ \A q \in Processes : pc[q] = "exists"
  <2>1. Stage(p)' BY <1>1 DEF Stage, NoFile
  <2>2. \A q \in Processes \ {p} : pc'[q] = "exists" BY <1>1
  <2> QED BY <2>1, <2>2 DEF Orderly
<1>2. ASSUME NEW r \in Processes, Stage(r), \A q \in Processes \ {r} : pc[q] = "exists"
      PROVE  FALSE
  <2>1. pc[r] \in {"create", "fill", "empty"} BY <1>2 DEF Stage
  <2>2. r # p BY <2>1
  <2>3. overlapped' BY <2>1, <2>2
  <2> QED BY <2>3
<1>3. CASE Complete /\ \A q \in Processes : Knows(q)
  <2>1. header # Absent
    <3>1. header \in Nat BY <1>3 DEF Complete
    <3> QED BY <3>1, NoNumbers
  <2>2. Complete' BY <1>3 DEF Complete
  <2>3. \A q \in Processes : Knows(q)' BY <1>3, <2>1 DEF Knows
  <2> QED BY <2>2, <2>3 DEF Orderly
<1> QED BY <1>1, <1>2, <1>3 DEF Orderly

\* A process that is creating is the one of Orderly's second case.
LEMMA TheCreator ==
    ASSUME Orderly, NEW p \in Processes, Creating(p)
    PROVE  Stage(p) /\ \A q \in Processes \ {p} : pc[q] = "exists"
BY DEF Orderly, Creating, Knows, Stage

\* The creation, from the truncated file to the header.
LEMMA CreationOrderly ==
    ASSUME TypeOK, Orderly, NEW p \in Processes, Create(p) \/ Fill(p) \/ WriteHeader(p)
    PROVE  Orderly'
<1> USE CreationAssumption DEF TypeOK
<1>1. Creating(p) BY DEF Create, Fill, WriteHeader, Creating
<1>2. Stage(p) /\ \A q \in Processes \ {p} : pc[q] = "exists"
  BY <1>1, TheCreator
<1>3. \A q \in Processes \ {p} : pc'[q] = "exists"
  BY <1>2 DEF Create, Fill, WriteHeader, Goto
<1>4. CASE Create(p)
  <2>1. Stage(p)' BY <1>2, <1>4 DEF Create, Goto, Stage, NoFile
  <2> QED BY <1>3, <2>1 DEF Orderly
<1>5. CASE Fill(p)
  <2>1. length' = filled'[p] /\ filled'[p] > 0 BY <1>2, <1>5 DEF Fill, Stage
  <2>2. header' = Filler /\ items' = {} /\ saves' = 0 BY <1>2, <1>5 DEF Fill, Stage
  <2>3. pc'[p] = IF filled'[p] = CHUNKS THEN "empty" ELSE "fill" BY <1>5 DEF Fill, Goto
  <2>4. Stage(p)' BY <2>1, <2>2, <2>3 DEF Stage
  <2> QED BY <1>3, <2>4 DEF Orderly
<1>6. CASE WriteHeader(p)
  <2>1. Complete' BY <1>2, <1>6 DEF WriteHeader, Goto, Stage, Complete
  <2>2. Knows(p)' BY <1>2, <1>6 DEF WriteHeader, Goto, Stage, Knows
  <2>3. \A q \in Processes : Knows(q)' BY <1>3, <2>2 DEF Knows
  <2> QED BY <2>1, <2>3 DEF Orderly
<1> QED BY <1>4, <1>5, <1>6

\* A process that is past its look for the file, and does not create it, finds
\* a complete one.
LEMMA TheStore ==
    ASSUME Orderly, NEW p \in Processes, pc[p] \in {"read", "current", "ready", "dead"}
    PROVE  Complete /\ \A q \in Processes : Knows(q)
BY DEF Orderly, Stage

\* The other half of the constructor, and what is done with the store.
LEMMA UseOrderly ==
    ASSUME TypeOK, Orderly, NEW p \in Processes,
           ReadHeader(p) \/ ReadCurrent(p) \/ SaveData \/ SaveDataAstray \/ SaveDataThrows
    PROVE  Orderly'
<1> USE CreationAssumption DEF TypeOK
<1>1. Complete /\ \A q \in Processes : Knows(q)
  BY TheStore DEF ReadHeader, ReadCurrent, SaveData, SaveDataAstray, SaveDataThrows, Processes
<1>2. header \in Nat /\ header # Short BY <1>1, NoNumbers DEF Complete
<1>3. CASE ReadHeader(p)
  <2>1. Complete' BY <1>1, <1>3 DEF ReadHeader, Complete
  <2>2. \A q \in Processes : Knows(q)'
    BY <1>1, <1>2, <1>3 DEF ReadHeader, Goto, Complete, Knows
  <2> QED BY <2>1, <2>2 DEF Orderly
<1>4. CASE ReadCurrent(p)
  <2>1. Complete' BY <1>1, <1>4 DEF ReadCurrent, Complete
  <2>2. \A q \in Processes : Knows(q)'
    BY <1>1, <1>2, <1>4 DEF ReadCurrent, Goto, Complete, Knows
  <2> QED BY <2>1, <2>2 DEF Orderly
<1>5. CASE SaveData
  <2>1. saves' = saves + 1 /\ header' = saves' /\ length' = CHUNKS
    BY <1>1, <1>5 DEF SaveData, Complete
  <2>2. items' = 1 .. saves' BY <1>1, <1>5, <2>1 DEF SaveData, Complete
  <2>3. \A q \in Processes : Knows(q)'
    <3> SUFFICES ASSUME NEW q \in Processes PROVE Knows(q)'
      OBVIOUS
    <3>1. Knows(q) /\ pc' = pc BY <1>1, <1>5 DEF SaveData
    <3>2. mHeader'[q] = saves' \/ mHeader'[q] = mHeader[q] BY <1>5 DEF SaveData
    <3> QED BY <2>1, <3>1, <3>2 DEF Knows
  <2> QED BY <2>1, <2>2, <2>3 DEF Orderly, Complete
<1>6. ASSUME SaveDataAstray \/ SaveDataThrows PROVE FALSE
  <2>1. mHeader[Writer] \in Nat /\ Knows(Writer)
    BY <1>1, <1>6 DEF SaveDataAstray, SaveDataThrows, Knows, Processes
  <2> QED BY <1>6, <2>1 DEF SaveDataAstray, SaveDataThrows
<1> QED BY <1>3, <1>4, <1>5, <1>6

\* A crash outside a creation leaves the store as it is.
LEMMA CrashOrderly ==
    ASSUME TypeOK, Orderly, NEW p \in Processes, Crash(p), ~ overlapped'
    PROVE  Orderly'
<1>1. ~ Creating(p) BY DEF Crash
<1>2. CASE NoFile /\ \A q \in Processes : pc[q] = "exists"
  BY <1>2 DEF Crash, Orderly, NoFile, TypeOK
<1>3. ASSUME NEW r \in Processes, Stage(r), \A q \in Processes \ {r} : pc[q] = "exists"
      PROVE  Orderly'
  <2>1. r # p BY <1>1, <1>3 DEF Stage, Creating
  <2>2. Stage(r)' BY <1>3, <2>1 DEF Crash, Stage, NoFile, TypeOK
  <2>3. \A q \in Processes \ {r} : pc'[q] = "exists" BY <1>3 DEF Crash, TypeOK
  <2> QED BY <2>2, <2>3 DEF Orderly
<1>4. CASE Complete /\ \A q \in Processes : Knows(q)
  <2>1. Complete' BY <1>4 DEF Crash, Complete
  <2>2. \A q \in Processes : Knows(q)' BY <1>4 DEF Crash, Knows, TypeOK
  <2> QED BY <2>1, <2>2 DEF Orderly
<1> QED BY <1>2, <1>3, <1>4 DEF Orderly

\* CreationInv holds in every state, for every interleaving of the two
\* constructors, every crash and every access that fails.
THEOREM CreationInvariant == Spec => []CreationInv
<1>1. Init => CreationInv
  <2> SUFFICES ASSUME Init PROVE Orderly
    BY InitTypes DEF CreationInv
  <2>1. \A p \in Processes : pc[p] = "exists" BY DEF Init
  <2>2. \A p \in Processes : Knows(p) BY <2>1 DEF Knows
  <2>3. NoFile \/ Complete
    <3>1. {1} = 1 .. 1 OBVIOUS
    <3> QED BY <3>1 DEF Init, NoFile, Complete
  <2> QED BY <2>1, <2>2, <2>3 DEF Orderly
<1>2. CreationInv /\ [Next]_vars => CreationInv'
  <2> SUFFICES ASSUME CreationInv, [Next]_vars, ~ overlapped' PROVE Orderly'
    BY StepTypes DEF CreationInv
  <2> USE DEF CreationInv
  <2>1. ASSUME NEW p \in Processes, Constructor(p) PROVE Orderly'
    <3>1. ~ Fault /\ ~ CreateFails(p) /\ ~ FillFails(p) /\ ~ WriteHeaderFails(p)
      BY DEF Fault, CreateFails, FillFails, WriteHeaderFails
    <3>2. ~ overlapped
      BY <2>1, <3>1 DEF Constructor, Exists, Create, Fill, WriteHeader, ReadHeader, ReadCurrent, Goto
    <3>3. Orderly BY <3>2
    <3>4. CASE Exists(p) BY <3>3, <3>4, ExistsOrderly
    <3>5. CASE Create(p) \/ Fill(p) \/ WriteHeader(p) BY <3>3, <3>5, CreationOrderly
    <3>6. CASE ReadHeader(p) \/ ReadCurrent(p) BY <3>3, <3>6, UseOrderly
    <3> QED BY <2>1, <3>1, <3>4, <3>5, <3>6 DEF Constructor
  <2>2. ASSUME NEW p \in Processes, Crash(p) PROVE Orderly'
    <3>1. Orderly BY <2>2 DEF Crash
    <3> QED BY <2>2, <3>1, CrashOrderly
  <2>3. CASE SaveData \/ SaveDataAstray \/ SaveDataThrows
    <3>1. Orderly BY <2>3 DEF SaveData, SaveDataAstray, SaveDataThrows, Goto
    <3>2. Writer \in Processes BY DEF Processes
    <3> QED BY <2>3, <3>1, <3>2, UseOrderly
  <2>4. CASE UNCHANGED vars
    BY <2>4 DEF vars, Orderly, NoFile, Complete, Stage, Knows
  <2> QED BY <2>1, <2>2, <2>3, <2>4 DEF Next
<1> QED BY <1>1, <1>2, PTL DEF Spec

\* No start and no crash takes an item from a store that is complete.
THEOREM ItemsStay == Spec => []SavedItemsStay
<1>1. CreationInv => SavedItemsStay
  BY TheStore DEF CreationInv, SavedItemsStay, Complete
<1> QED BY <1>1, CreationInvariant, PTL

\* A process past the constructor knows of a header that was written, and none
\* is dead.
THEOREM ProcessesStartWell == Spec => []StartsWell
<1>1. CreationInv => StartsWell
  <2> SUFFICES ASSUME CreationInv, ~ overlapped, NEW p \in Processes
               PROVE  pc[p] # "dead" /\ (pc[p] = "ready" => mHeader[p] \in 0 .. saves)
    BY DEF StartsWell
  <2>1. Orderly BY DEF CreationInv
  <2>2. CASE pc[p] \in {"ready", "dead"}
    BY <2>1, <2>2, TheStore DEF Knows
  <2> QED BY <2>2
<1> QED BY <1>1, CreationInvariant, PTL
=============================================================================
