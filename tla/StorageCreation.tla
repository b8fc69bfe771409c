-------------------------- MODULE StorageCreation --------------------------
(***************************************************************************)
(* The constructor of StorageManager (storage/manager/StorageManager.h),    *)
(* run by the two processes that share a store: the first one creates the   *)
(* file, fills it and writes an empty header, the other one reads what it   *)
(* finds.  The Makefile's run target starts them at the same time.  A       *)
(* process may be killed at any step and started again.                     *)
(*                                                                         *)
(* The file is abstracted to what its header says, the items whose bytes    *)
(* are there (all in the first of the chunks the fill is written in), and   *)
(* its length in chunks.                                                    *)
(***************************************************************************)
EXTENDS Naturals

CONSTANTS
    Writer, Viewer,   \* the two processes
    Absent, Short, Filler,
                      \* header of no file, of one too short for it, of one not yet set
    CHUNKS,           \* writes of 1 MB that fill the file
    MAX_ITEMS,        \* bound on the items saved
    MAX_CRASHES       \* bound on the crashes and failed accesses

ASSUME CreationAssumption ==
    /\ Writer # Viewer
    /\ {Absent, Short, Filler} \cap Nat = {}
    /\ CHUNKS \in Nat \ {0} /\ MAX_ITEMS \in Nat \ {0} /\ MAX_CRASHES \in Nat

VARIABLES
    header,     \* the file's: Absent, Short, Filler, 0 (an empty store) or the last item
    items,      \* the items whose bytes are in the file
    length,     \* its length in chunks
    pc,         \* each process: "exists", "create", "fill", "empty", "read", "current",
                \* "ready" or "dead"
    filled,     \* chunks each process has written
    mHeader,    \* the header each has in memory (Absent: never set)
    saves,      \* items saved so far
    crashes,    \* crashes and failed accesses so far
    overlapped  \* history: a process was in the constructor while another created
                \* the file, or the creation was cut short or failed

vars == <<header, items, length, pc, filled, mHeader, saves, crashes, overlapped>>

Processes == {Writer, Viewer}

\* There is no file, or one that a former run has left with an item.
Init ==
    /\ \/ header = Absent /\ items = {} /\ length = 0 /\ saves = 0
       \/ header = 1 /\ items = {1} /\ length = CHUNKS /\ saves = 1
    /\ pc = [p \in Processes |-> "exists"]
    /\ filled = [p \in Processes |-> 0]
    /\ mHeader = [p \in Processes |-> Absent]
    /\ crashes = 0
    /\ overlapped = FALSE

Creating(p)     == pc[p] \in {"create", "fill", "empty"}
Constructing(p) == pc[p] \in {"create", "fill", "empty", "read", "current"}

\* overlapped after the step that takes p to the state s.
Overlaps(p, s) ==
    LET others == {q \in Processes \ {p} : Constructing(q)}
    IN  /\ s \in {"create", "read"}
        /\ \E q \in others : s = "create" \/ Creating(q)
Goto(p, s) ==
    /\ pc' = [pc EXCEPT ![p] = s]
    /\ overlapped' = (overlapped \/ Overlaps(p, s))

\* mutant: the existing file is not looked for.
ExistsNever(p) ==
    /\ pc[p] = "exists"
    /\ Goto(p, "create")
    /\ UNCHANGED <<header, items, length, filled, mHeader, saves, crashes>>

\* exists(mStorageFilePath)
Exists(p) ==
    /\ pc[p] = "exists"
    /\ Goto(p, IF header = Absent THEN "create" ELSE "read")
    /\ UNCHANGED <<header, items, length, filled, mHeader, saves, crashes>>

\* The ofstream truncates the file, whatever is in it by now.
Create(p) ==
    /\ pc[p] = "create"
    /\ header' = Short /\ items' = {} /\ length' = 0
    /\ filled' = [filled EXCEPT ![p] = 0]
    /\ Goto(p, "fill")
    /\ UNCHANGED <<mHeader, saves, crashes>>

\* An access of the creation fails.
Fault ==
    /\ crashes < MAX_CRASHES
    /\ crashes' = crashes + 1
    /\ overlapped' = TRUE

\* The directory cannot be made, which throws; or the file cannot be opened: the
\* constructor returns, with an object whose offsets nobody has set.
CreateFails(p) ==
    /\ pc[p] = "create"
    /\ Fault
    /\ pc' \in {[pc EXCEPT ![p] = s] : s \in {"dead", "ready"}}
    /\ mHeader' = [mHeader EXCEPT ![p] = Absent]
    /\ UNCHANGED <<header, items, length, filled, saves>>

\* mutant: one chunk too many.
FillPast(p) ==
    /\ pc[p] = "fill"
    /\ filled' = [filled EXCEPT ![p] = @ + 1]
    /\ IF filled[p] = 0 THEN header' = Filler /\ items' = {} ELSE UNCHANGED <<header, items>>
    /\ length' = IF length < filled'[p] THEN filled'[p] ELSE length
    /\ Goto(p, IF filled'[p] > CHUNKS THEN "empty" ELSE "fill")
    /\ UNCHANGED <<mHeader, saves, crashes>>

\* The next chunk of 0xFF; the first one covers the header and the first items.
Fill(p) ==
    /\ pc[p] = "fill"
    /\ filled[p] < CHUNKS
    /\ filled' = [filled EXCEPT ![p] = @ + 1]
    /\ IF filled[p] = 0 THEN header' = Filler /\ items' = {} ELSE UNCHANGED <<header, items>>
    /\ length' = IF length < filled'[p] THEN filled'[p] ELSE length
    /\ Goto(p, IF filled'[p] = CHUNKS THEN "empty" ELSE "fill")
    /\ UNCHANGED <<mHeader, saves, crashes>>

\* A chunk is not written; the stream's state is not looked at.
FillFails(p) ==
    /\ pc[p] = "fill"
    /\ Fault
    /\ filled' = [filled EXCEPT ![p] = CHUNKS]
    /\ pc' = [pc EXCEPT ![p] = "empty"]
    /\ UNCHANGED <<header, items, length, mHeader, saves>>

\* mutant: the header of the new file is set in memory only.
WriteHeaderInMemory(p) ==
    /\ pc[p] = "empty"
    /\ mHeader' = [mHeader EXCEPT ![p] = 0]
    /\ Goto(p, "current")
    /\ UNCHANGED <<header, items, length, filled, saves, crashes>>

\* UpdateFileHeader with the header of an empty store.
WriteHeader(p) ==
    /\ pc[p] = "empty"
    /\ header' = 0
    /\ mHeader' = [mHeader EXCEPT ![p] = 0]
    /\ Goto(p, "current")
    /\ UNCHANGED <<items, length, filled, saves, crashes>>

\* UpdateFileHeader throws, or its bytes fail in the stream's destructor.
WriteHeaderFails(p) ==
    /\ pc[p] = "empty"
    /\ Fault
    /\ mHeader' = [mHeader EXCEPT ![p] = 0]
    /\ pc' \in {[pc EXCEPT ![p] = s] : s \in {"dead", "current"}}
    /\ UNCHANGED <<header, items, length, filled, saves>>

\* ReadFileHeader, which throws on a file that is too short for a header.
ReadHeader(p) ==
    /\ pc[p] = "read"
    /\ IF header = Short
       THEN Goto(p, "dead") /\ UNCHANGED mHeader
       ELSE Goto(p, "current") /\ mHeader' = [mHeader EXCEPT ![p] = header]
    /\ UNCHANGED <<header, items, length, filled, saves, crashes>>

\* GetLastItemOffset reads the header once more, and does not notice if it cannot.
ReadCurrent(p) ==
    /\ pc[p] = "current"
    /\ mHeader' = IF header = Short THEN mHeader ELSE [mHeader EXCEPT ![p] = header]
    /\ Goto(p, "ready")
    /\ UNCHANGED <<header, items, length, filled, saves, crashes>>

\* SaveData: the item goes after the last one the writer knows of.
SaveData ==
    /\ pc[Writer] = "ready"
    /\ saves < MAX_ITEMS
    /\ mHeader[Writer] \notin {Absent, Filler}
    /\ saves' = saves + 1
    /\ items' = items \cup {saves'}
    /\ header' = saves'
    /\ mHeader' = [mHeader EXCEPT ![Writer] = saves']
    /\ UNCHANGED <<length, pc, filled, crashes, overlapped>>

\* With offsets that nobody has set the item goes over any of the others.
SaveDataAstray ==
    /\ pc[Writer] = "ready"
    /\ saves < MAX_ITEMS
    /\ mHeader[Writer] = Absent /\ header # Absent
    /\ saves' = saves + 1
    /\ items' \in {kept \cup {saves'} : kept \in SUBSET items}
    /\ header' = saves'
    /\ mHeader' = [mHeader EXCEPT ![Writer] = saves']
    /\ UNCHANGED <<length, pc, filled, crashes, overlapped>>

\* Without a file, with offsets of 0xFFFFFFFF, or with some that nobody has set,
\* AppendItem throws (the video client ends, the json client fails at every
\* message).
SaveDataThrows ==
    /\ pc[Writer] = "ready"
    /\ saves < MAX_ITEMS
    /\ mHeader[Writer] \in {Absent, Filler}
    /\ Goto(Writer, "dead")
    /\ UNCHANGED <<header, items, length, filled, mHeader, saves, crashes>>

\* A process dies, and is started again.
Crash(p) ==
    /\ crashes < MAX_CRASHES
    /\ crashes' = crashes + 1
    /\ pc' = [pc EXCEPT ![p] = "exists"]
    /\ overlapped' = (overlapped \/ Creating(p))
    /\ UNCHANGED <<header, items, length, filled, mHeader, saves>>

Constructor(p) ==
    \/ Exists(p) \/ Create(p) \/ Fill(p) \/ WriteHeader(p) \/ ReadHeader(p) \/ ReadCurrent(p)
    \/ CreateFails(p) \/ FillFails(p) \/ WriteHeaderFails(p)
Next ==
    \/ \E p \in Processes : Constructor(p) \/ Crash(p)
    \/ SaveData \/ SaveDataAstray \/ SaveDataThrows

Spec == Init /\ [][Next]_vars

-----------------------------------------------------------------------------
(* Properties. *)

Headers == {Absent, Short, Filler} \cup 0 .. MAX_ITEMS
TypeOK ==
    /\ header \in Headers
    /\ items \subseteq 1 .. MAX_ITEMS
    /\ length \in 0 .. CHUNKS
    /\ pc \in [Processes -> {"exists", "create", "fill", "empty", "read", "current",
                             "ready", "dead"}]
    /\ filled \in [Processes -> 0 .. CHUNKS]
    /\ mHeader \in [Processes -> Headers]
    /\ saves \in 0 .. MAX_ITEMS
    /\ crashes \in 0 .. MAX_CRASHES
    /\ overlapped \in BOOLEAN

\* A store that is complete is never created again: once a process is past the
\* constructor, with nobody creating beside it, no start and no crash of either
\* process truncates the file or takes an item that was saved, and the header
\* names the last of them.
SavedItemsStay ==
    ~ overlapped /\ (\E p \in Processes : pc[p] = "ready") =>
       /\ length = CHUNKS
       /\ items = 1 .. saves
       /\ header = saves

\* A process that is past the constructor knows of a header that was written,
\* not of the fill; and none is dead.
StartsWell == ~ overlapped => \A p \in Processes :
    /\ pc[p] # "dead"
    /\ pc[p] = "ready" => mHeader[p] \in 0 .. saves

\* The comment on the Makefile's run target: the programs are run one after the
\* other.  Without crashes no process dies on a half-made store, and no item
\* that was saved is taken by the other one's fill.
StartsSequentially == crashes = 0 =>
    /\ \A p \in Processes : pc[p] # "dead"
    /\ items = 1 .. saves
=============================================================================
