------------------------------ MODULE LazyRead ------------------------------
(***************************************************************************)
(* Reading single files of a chain of snapshots (internal/osix/            *)
(* lazy_read.go): the layers are searched newest first, and for encrypted  *)
(* snapshots the lazy index of the layer before the layer itself           *)
(* (lazy_encrypted.go).  A store that has pulled the chain lazily fetches  *)
(* what it reads, and builds the records of the indexes when they are      *)
(* first needed.  Restoring a chain of encrypted snapshots reads the files *)
(* of the recorded tree this way (restoreFromSnapshotTree, snapshot.go).   *)
(*                                                                         *)
(* A blob that was fetched is cached, which is left out: a fetch may fail  *)
(* whenever the store was pulled.  The content of a file is its entry.     *)
(***************************************************************************)
EXTENDS Trees, Sequences, SequencesExt

CONSTANTS
    Scans,          \* the file systems that a snapshot may find
    Size,           \* the number of bytes of each file entry
    ChunkSize,      \* encryptedLazyChunkSize
    MaxInt,         \* the largest int64
    NoPath,
    MaxChain,       \* bound on the length of the chain
    MaxDeaths       \* bound on readers that are killed

IsFile(e) == e # Absent /\ TypeOf[e] = "file"

(* What a read returns instead of an entry, or "none" yet. *)
Outcome == {"none", "deleted", "not a file", "not found", "unavailable", "extract"}

ASSUME LazyReadConstants ==
    /\ \A t \in Scans : t \in Tree /\ WellFormed(t)
    /\ Size \in [{e \in Entry : IsFile(e)} -> 0..MaxInt]
    /\ ChunkSize \in Nat \ {0} /\ MaxInt \in Nat
    /\ NoPath \notin Path /\ Outcome \cap Entry = {}
    /\ MaxChain \in Nat \ {0} /\ MaxDeaths \in Nat

VARIABLES
    chain,      \* the snapshots, oldest first
    pulled,     \* the store has pulled the chain lazily
    indexRefs,  \* snapshots whose lazy-encrypted-index ref the store has
    records,    \* the record file of the index of each snapshot
    sources,    \* snapshots for whose file blobs a remote source is recorded
    read,       \* the command that runs, and what it has returned
    deaths

store == <<chain, pulled, indexRefs>>
vars == <<store, records, sources, read, deaths>>

Snapshots == 1..Len(chain)
Idle == [pc |-> "idle", restore |-> FALSE, top |-> 0, level |-> 0,
         path |-> NoPath, value |-> "none"]

(* Types; only a snapshot with a ref has a record; and a command asks only *)
(* snapshots of the chain.                                                 *)
TypeOK ==
    /\ chain \in Seq([recorded : Tree, changed : SUBSET Path,
                      whiteouts : SUBSET Path, encrypted : BOOLEAN])
    /\ Len(chain) <= MaxChain
    /\ pulled \in BOOLEAN
    /\ indexRefs \subseteq Snapshots /\ sources \subseteq indexRefs
    /\ records \in [1..MaxChain -> {"none", "torn", "whole"}]
    /\ \A i \in 1..MaxChain : records[i] # "none" => i \in indexRefs
    /\ read \in [pc : {"idle", "index", "sources", "record", "lookup", "layer", "done"},
                 restore : BOOLEAN, top : 0..MaxChain, level : 0..MaxChain,
                 path : Path \cup {NoPath}, value : Outcome \cup Entry]
    /\ read.pc # "idle" => read.top \in Snapshots /\ read.level \in 1..read.top
    /\ deaths \in 0..MaxDeaths

Init ==
    /\ chain = <<>> /\ pulled = FALSE /\ indexRefs = {}
    /\ records = [i \in 1..MaxChain |-> "none"] /\ sources = {}
    /\ read = Idle /\ deaths = 0

-----------------------------------------------------------------------------
(* The tree that a snapshot records; the first one has no parent. *)
TreeAt(i) == IF i = 0 THEN Empty ELSE chain[i].recorded

(* createEncryptedLazyIndex writes no index that would be empty. *)
HasIndex(s) ==
    s.encrypted /\ s.whiteouts \cup {p \in s.changed : IsFile(s.recorded[p])} # {}

Snapshot(current, encrypted) ==
    LET parent == TreeAt(Len(chain))
        s      == [recorded  |-> redactedSnapshotTree(current),
                   changed   |-> ChangedEntries(parent, current),
                   whiteouts |-> diffWhiteouts(parent, current),
                   encrypted |-> encrypted]
        i      == Len(chain) + 1
    IN  /\ read.pc = "idle" /\ ~pulled
        /\ Len(chain) < MaxChain
        /\ chain' = Append(chain, s)
        /\ IF HasIndex(s)
           THEN /\ records' = [records EXCEPT ![i] = "whole"]
                /\ indexRefs' = indexRefs \cup {i}
           ELSE UNCHANGED <<records, indexRefs>>
        /\ UNCHANGED <<pulled, sources, read, deaths>>

(* Another store pulls the chain with --lazy, with its indexes or, from a  *)
(* registry that has lost the referrers, without them.                     *)
PullLazy(found) ==
    /\ read.pc = "idle" /\ ~pulled
    /\ chain # <<>>
    /\ pulled' = TRUE
    /\ indexRefs' = IF found THEN indexRefs ELSE {}
    /\ records' = [i \in 1..MaxChain |-> "none"]
    /\ UNCHANGED <<chain, sources, read, deaths>>

-----------------------------------------------------------------------------
Goto(pc) == read' = [read EXCEPT !.pc = pc]
Done(value) == read' = [read EXCEPT !.pc = "done", !.value = value]

(* ReadSnapshotFile, newest layer first. *)
Read(n, p) ==
    /\ read.pc = "idle"
    /\ read' = [Idle EXCEPT !.pc = "index", !.top = n, !.level = n, !.path = p]
    /\ UNCHANGED <<store, records, sources, deaths>>

(* restoreIntoTarget, which asks for the indexes oldest first. *)
Restore(n) ==
    /\ read.pc = "idle"
    /\ read' = [Idle EXCEPT !.pc = "index", !.restore = TRUE, !.top = n, !.level = 1]
    /\ UNCHANGED <<store, records, sources, deaths>>

(* The snapshot has no index here: a read goes on with the layer, and      *)
(* canRestoreFromEncryptedLazyIndexes returns false, so that the restore   *)
(* extracts the layers (LayerExtract).                                     *)
NoIndex ==
    /\ read.pc = "index"
    /\ read.level \notin indexRefs
    /\ IF read.path = NoPath THEN Done("extract") ELSE Goto("layer")
    /\ UNCHANGED <<store, records, sources, deaths>>

(* Mutant of restoreSourceDigestForEntry: the restored snapshot itself. *)
restoreSourceHead(n, p) == n

(* The newest snapshot whose tree has the entry and whose parent's has not. *)
restoreSourceDigestForEntry(n, p) ==
    CHOOSE i \in 1..n :
        /\ TreeAt(i)[p] = TreeAt(n)[p] /\ TreeAt(i - 1)[p] # TreeAt(n)[p]
        /\ \A j \in (i + 1)..n : TreeAt(j)[p] # TreeAt(n)[p] \/ TreeAt(j - 1)[p] = TreeAt(n)[p]

RecordedFiles(n) == {p \in Path : IsFile(chain[n].recorded[p])}

(* With the record at hand a read looks the file up.  A restore asks for   *)
(* the next index; then it reads each file of the tree, here any one.      *)
Indexed ==
    IF read.path # NoPath THEN Goto("lookup")
    ELSE IF read.level < read.top
    THEN read' = [read EXCEPT !.pc = "index", !.level = @ + 1]
    ELSE IF RecordedFiles(read.top) = {} THEN read' = Idle
    ELSE \E p \in RecordedFiles(read.top) :
            read' = [read EXCEPT !.pc = "index", !.path = p,
                                 !.level = restoreSourceDigestForEntry(read.top, p)]

(* ensureEncryptedLazyIndexRecord takes any file for the record; then      *)
(* parsing one that was cut off fails.  The restore only looks whether it  *)
(* exists, and fails when it reads.                                        *)
UseRecord ==
    /\ read.pc = "index"
    /\ records[read.level] # "none"
    /\ IF records[read.level] = "torn" /\ read.path # NoPath
       THEN Done("unavailable") ELSE Indexed
    /\ UNCHANGED <<store, records, sources, deaths>>

BuildRecord ==
    /\ read.pc = "index"
    /\ read.level \in indexRefs /\ records[read.level] = "none"
    /\ Goto("sources")
    /\ UNCHANGED <<store, records, sources, deaths>>

(* Mutant of WriteSources: the record is written first. *)
WriteSourcesLater ==
    /\ read.pc = "sources"
    /\ records' = [records EXCEPT ![read.level] = "whole"]
    /\ Goto("record")
    /\ UNCHANGED <<store, sources, deaths>>

(* The remote sources of the index's blobs, then the record. *)
WriteSources ==
    /\ read.pc = "sources"
    /\ sources' = sources \cup {read.level}
    /\ Goto("record")
    /\ UNCHANGED <<store, records, deaths>>

WriteRecord ==
    /\ read.pc = "record"
    /\ records' = [records EXCEPT ![read.level] = "whole"]
    /\ Indexed
    /\ UNCHANGED <<store, sources, deaths>>

(* The process is killed, perhaps while os.WriteFile writes the record. *)
Die ==
    /\ read.pc \notin {"idle", "done"}
    /\ deaths < MaxDeaths
    /\ deaths' = deaths + 1
    /\ read' = Idle
    /\ \/ UNCHANGED records
       \/ read.pc = "record" /\ records' = [records EXCEPT ![read.level] = "torn"]
    /\ UNCHANGED <<store, sources>>

-----------------------------------------------------------------------------
(* Mutant of LookupIndex: "deleted" sorts before "file". *)
LookupWhiteoutFirst(s, p) ==
    IF p \in s.whiteouts THEN "deleted"
    ELSE IF p \in s.changed /\ IsFile(s.recorded[p]) THEN s.recorded[p] ELSE "none"

(* The index lists files and whiteouts, a file before its whiteout. *)
LookupIndex(s, p) ==
    IF p \in s.changed /\ IsFile(s.recorded[p]) THEN s.recorded[p]
    ELSE IF p \in s.whiteouts THEN "deleted" ELSE "none"

(* Mutant of readFileFromLayer: whiteouts are passed over. *)
readFileIgnoringWhiteouts(s, p) ==
    IF p \notin s.changed THEN "none"
    ELSE IF TypeOf[s.recorded[p]] = "dir" THEN "not a file" ELSE s.recorded[p]

(* The layer has its whiteouts first; a symlink is read as its target. *)
readFileFromLayer(s, p) ==
    IF p \in s.whiteouts THEN "deleted"
    ELSE IF p \notin s.changed THEN "none"
    ELSE IF TypeOf[s.recorded[p]] = "dir" THEN "not a file" ELSE s.recorded[p]

(* readEncryptedLazyFile.  The file's blob is here or has a source. *)
LookupFile ==
    /\ read.pc = "lookup"
    /\ LET value == LookupIndex(chain[read.level], read.path) IN
       CASE value = "none" -> Goto("layer")
         [] value = "deleted" -> Done("deleted")
         [] OTHER -> IF pulled /\ read.level \notin sources
                     THEN Done("unavailable") ELSE Done(value)
    /\ UNCHANGED <<store, records, sources, deaths>>

ReadLayer ==
    /\ read.pc = "layer"
    /\ LET value == readFileFromLayer(chain[read.level], read.path) IN
       IF value # "none" THEN Done(value)
       ELSE IF read.level = 1 THEN Done("not found")
       ELSE read' = [read EXCEPT !.pc = "index", !.level = @ - 1]
    /\ UNCHANGED <<store, records, sources, deaths>>

(* fetchRemoteBlobFromSource fails. *)
FetchFails ==
    /\ read.pc \in {"lookup", "layer"} /\ pulled
    /\ Done("unavailable")
    /\ UNCHANGED <<store, records, sources, deaths>>

Return ==
    /\ read.pc = "done"
    /\ read' = Idle
    /\ UNCHANGED <<store, records, sources, deaths>>

Next ==
    \/ \E current \in Scans, encrypted \in BOOLEAN : Snapshot(current, encrypted)
    \/ \E found \in BOOLEAN : PullLazy(found)
    \/ \E n \in Snapshots : Restore(n) \/ \E p \in Path : Read(n, p)
    \/ NoIndex \/ UseRecord \/ BuildRecord \/ WriteSources \/ WriteRecord \/ Die
    \/ LookupFile \/ ReadLayer \/ FetchFails \/ Return

Spec == Init /\ [][Next]_vars

-----------------------------------------------------------------------------
(* Range reads.  Bytes(i, j) are the positions from i up to j, without j.  *)
Bytes(i, j) == [k \in 1..(j - i) |-> i + k - 1]
Least(i, j) == IF i < j THEN i ELSE j
Greatest(i, j) == IF i < j THEN j ELSE i

(* int64 addition *)
Add(i, j) == IF i + j > MaxInt THEN i + j - 2 * (MaxInt + 1) ELSE i + j

(* Go panics when a slice ends before it begins. *)
sliceRange(size, offset, length) ==
    IF offset >= size \/ length = 0 THEN <<>>
    ELSE LET end == Least(Add(offset, length), size)
         IN  IF end < offset THEN "panic" ELSE Bytes(offset, end)

(* An empty file has one empty chunk. *)
createEncryptedLazyChunks(size) ==
    [k \in 1..Greatest(1, (size + ChunkSize - 1) \div ChunkSize) |->
        [start |-> (k - 1) * ChunkSize, end |-> Least(k * ChunkSize, size)]]

(* Mutant of readEncryptedLazyChunks: the last chunk is taken whole. *)
readWholeLastChunk(chunks, offset, length) ==
    FlattenSeq([k \in DOMAIN chunks |->
        IF chunks[k].end <= offset \/ chunks[k].start >= offset + length THEN <<>>
        ELSE Bytes(Greatest(offset, chunks[k].start), chunks[k].end)])

readEncryptedLazyChunks(chunks, offset, length) ==
    FlattenSeq([k \in DOMAIN chunks |->
        IF chunks[k].end <= offset \/ chunks[k].start >= offset + length THEN <<>>
        ELSE Bytes(Greatest(offset, chunks[k].start), Least(offset + length, chunks[k].end))])

(* The length is cut at the end of the file. *)
readEncryptedLazyFileRange(size, offset, length) ==
    LET available == Least(length, Greatest(0, size - offset))
    IN  IF available = 0 THEN <<>>
        ELSE readEncryptedLazyChunks(createEncryptedLazyChunks(size), offset, available)

-----------------------------------------------------------------------------
Recorded == chain[read.top].recorded[read.path]
Returned == read.pc = "done" /\ read.path # NoPath

(* The layer that holds the entry also has its whiteout, because the type  *)
(* changed, and is read itself, as there is no index or the index has no   *)
(* symlinks: then the read takes the file for deleted.                     *)
Retyped ==
    LET s == chain[read.level] IN
    /\ read.path \in s.whiteouts \cap s.changed
    /\ read.level \notin indexRefs \/ ~IsFile(Recorded)

(* osix read returns what the snapshot's tree records for a file or a      *)
(* symlink, whichever of the layers, indexes and remote blobs it had to    *)
(* ask, and never takes it for missing, unless it is Retyped.              *)
ReadsRecorded ==
    Returned /\ Recorded # Absent /\ TypeOf[Recorded] # "dir" =>
        read.value \in {Recorded, "unavailable"} \cup (IF Retyped THEN {"deleted"} ELSE {})

(* A file that the snapshot's tree has not is not read from an older       *)
(* layer, unless it was deleted with a directory that it was in.           *)
DeletedUnread ==
    Returned /\ Recorded = Absent /\ read.value \in Entry =>
        \E i \in 1..read.top : Ancestors[read.path] \cap chain[i].whiteouts # {}

(* README.md: with the indexes "restore --decrypt can materialize the      *)
(* snapshot tree from encrypted lazy blobs without fetching the whole      *)
(* encrypted layer", and it gets what the tree records, also for files     *)
(* that changed type or came back.                                         *)
RestoresFromIndexes ==
    read.restore =>
        /\ read.pc # "layer"
        /\ Returned => read.value \in {Recorded, "unavailable"}

(* A record of a pulled index is never there without the remote sources of *)
(* its files, wherever the process that built it was killed: no later read *)
(* would record them.                                                      *)
RecordsHaveSources ==
    pulled => \A i \in 1..MaxChain : records[i] # "none" => i \in sources

(* A range read returns the bytes of the range that the file has, at any   *)
(* chunk boundary and for any int64; of an unencrypted file, where the end *)
(* of the range is no int64 overflow.                                      *)
RangesExact ==
    Returned /\ read.value \in Entry /\ IsFile(read.value) =>
        LET size == Size[read.value] IN
        \A offset, length \in 0..MaxInt :
            LET bytes == Bytes(Least(offset, size), Least(offset + length, size)) IN
            IF read.level \in indexRefs
            THEN readEncryptedLazyFileRange(size, offset, length) = bytes
            ELSE offset + length <= MaxInt => sliceRange(size, offset, length) = bytes
=============================================================================
