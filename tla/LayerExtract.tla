---------------------------- MODULE LayerExtract ----------------------------
(***************************************************************************)
(* Restoring a chain of snapshots (restoreIntoTarget): each snapshot's     *)
(* layer is the difference between the tree its parent recorded and the    *)
(* tree that was scanned, and extractLayer replays the layers, oldest      *)
(* first, into an empty stage.  The last step of a restore compares the    *)
(* stage with the recorded tree (verifyRestoredTree).                      *)
(***************************************************************************)
EXTENDS Trees

VARIABLES
    stage,      \* the file system that layers are extracted into
    scanned,    \* the tree the snapshot scanned when it made this layer
    recorded,   \* the tree its config records, the next snapshot's parent
    parent,     \* the tree its parent's config records
    whiteouts,  \* whiteouts of the layer that are still to be applied
    entries,    \* paths of the layer that are still to be extracted
    status      \* "extracting", "extracted" or "failed"

vars == <<stage, scanned, recorded, parent, whiteouts, entries, status>>

TypeOK ==
    /\ stage \in FileSystem
    /\ scanned \in FileSystem
    /\ recorded \in FileSystem
    /\ parent \in FileSystem
    /\ whiteouts \subseteq Path
    /\ entries \subseteq Path
    /\ status \in {"extracting", "extracted", "failed"}

(* Snapshot and makeLayer: any agent state may follow any other. *)
IsLayer(base, current) ==
    /\ scanned' = current
    /\ recorded' = redactedSnapshotTree(current)
    /\ parent' = base
    /\ whiteouts' = diffWhiteouts(base, current)
    /\ entries' = ChangedEntries(base, current)
    /\ status' = "extracting"

(* The first snapshot of a chain has no parent; the stage is empty. *)
Init ==
    /\ stage = Empty
    /\ scanned \in FileSystem
    /\ recorded = redactedSnapshotTree(scanned)
    /\ parent = Empty
    /\ whiteouts = diffWhiteouts(Empty, scanned)
    /\ entries = ChangedEntries(Empty, scanned)
    /\ status = "extracting"

(* The next layer of the chain. *)
NextLayer ==
    /\ status = "extracted"
    /\ \E current \in FileSystem : IsLayer(recorded, current)
    /\ UNCHANGED stage

-----------------------------------------------------------------------------
(* ensureNoSymlinkInPath: what exists of the path is directories. *)
ensureNoSymlinkInPath(paths) ==
    \A a \in paths : stage[a] # Absent => IsDir(stage, a)

(* entry is written at p; os.MkdirAll creates the missing directories      *)
(* above it as "made".                                                     *)
Created(p, entry, made) ==
    [q \in Path |-> IF q = p THEN entry
                    ELSE IF q \in Ancestors[p] /\ stage[q] = Absent THEN made
                    ELSE stage[q]]

(* Mutant of Removed: os.Remove instead of os.RemoveAll. *)
RemovedAlone(target) == [stage EXCEPT ![target] = Absent]

(* os.RemoveAll *)
Removed(target) ==
    [q \in Path |-> IF Within(q, target) THEN Absent ELSE stage[q]]

Fail == status' = "failed" /\ UNCHANGED <<stage, whiteouts, entries>>

ApplyWhiteout(w) ==
    /\ status = "extracting" /\ w \in whiteouts
    /\ IF ensureNoSymlinkInPath(Ancestors[w])
         THEN /\ stage' = Removed(w)
              /\ whiteouts' = whiteouts \ {w}
              /\ UNCHANGED <<entries, status>>
         ELSE Fail
    /\ UNCHANGED <<scanned, recorded, parent>>

(* Whiteouts come first in the archive, then the entries sorted by path,   *)
(* so that a directory comes before what it holds.                         *)
InOrder(p) ==
    /\ status = "extracting" /\ whiteouts = {}
    /\ p \in entries /\ Ancestors[p] \cap entries = {}

(* makeLayer writes the header and the redacted content of the entry. *)
LayerEntry(p) == redactedSnapshotTree(scanned)[p]

Extracted(p, tree) ==
    /\ stage' = tree
    /\ entries' = entries \ {p}
    /\ UNCHANGED <<whiteouts, status>>

(* tar.TypeDir *)
ExtractDir(p) ==
    /\ InOrder(p) /\ TypeOf[LayerEntry(p)] = "dir"
    /\ IF ensureNoSymlinkInPath(Ancestors[p] \cup {p})
         THEN Extracted(p, Created(p, LayerEntry(p), LayerEntry(p)))
         ELSE Fail
    /\ UNCHANGED <<scanned, recorded, parent>>

(* The file is opened for writing: there is no symlink or directory. *)
Writable(p) == stage[p] # Absent => TypeOf[stage[p]] = "file"

(* tar.TypeReg *)
ExtractFile(p) ==
    /\ InOrder(p) /\ TypeOf[LayerEntry(p)] = "file"
    /\ IF ensureNoSymlinkInPath(Ancestors[p]) /\ Writable(p)
         THEN Extracted(p, Created(p, LayerEntry(p), Dir0755))
         ELSE Fail
    /\ UNCHANGED <<scanned, recorded, parent>>

(* tar.TypeSymlink: whatever is at the path is removed. *)
ExtractSymlink(p) ==
    /\ InOrder(p) /\ TypeOf[LayerEntry(p)] = "symlink"
    /\ IF ensureNoSymlinkInPath(Ancestors[p])
         THEN Extracted(p, [q \in Path |->
                              IF p \in Ancestors[q] THEN Absent
                              ELSE Created(p, LayerEntry(p), Dir0755)[q]])
         ELSE Fail
    /\ UNCHANGED <<scanned, recorded, parent>>

(* tr.Next() returns io.EOF. *)
EndOfLayer ==
    /\ status = "extracting" /\ whiteouts = {} /\ entries = {}
    /\ status' = "extracted"
    /\ UNCHANGED <<stage, scanned, recorded, parent, whiteouts, entries>>

Next ==
    \/ NextLayer \/ EndOfLayer
    \/ \E p \in Path : \/ ApplyWhiteout(p) \/ ExtractDir(p) \/ ExtractFile(p)
                       \/ ExtractSymlink(p)

Spec == Init /\ [][Next]_vars

-----------------------------------------------------------------------------
(* extractLayer never refuses a layer that Snapshot made: it is never      *)
(* asked to go through a symlink or a file, or to write over a directory   *)
(* (snapshot.go 985, 996, 1002, 1022, 1447).                               *)
LayersAreExtractable == status # "failed"

(* After each layer the stage is exactly the tree that the snapshot's      *)
(* config records, so verifyRestoredTree accepts every restore.            *)
RestoredTreeMatches == status = "extracted" => stage = recorded
=============================================================================
