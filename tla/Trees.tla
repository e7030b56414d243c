-------------------------------- MODULE Trees -------------------------------
(***************************************************************************)
(* File trees as OSIx records them (TreeEntry, scanTree) and the layer     *)
(* that turns one tree into another: the entries that changed and the      *)
(* whiteouts that delete what is gone (internal/osix/snapshot.go).         *)
(***************************************************************************)
EXTENDS Integers

CONSTANTS
    Path,       \* relative paths that are not excluded from snapshots
    Ancestors,  \* the proper ancestor directories of each path
    Depth,      \* the number of components of each path
    Entry,      \* what a TreeEntry says of a path: type, mode, size, digest
    TypeOf,     \* the type of each entry
    Dir0755,    \* the directory that os.MkdirAll(_, 0755) creates
    Absent,     \* there is nothing at a path
    LogPath,    \* the paths whose content is redacted (shouldRedact)
    Redact      \* redactLog: the entry of a log file after redaction

(***************************************************************************)
(* Redaction changes the content of regular files only, and what it        *)
(* writes, [REDACTED], it writes again for itself.                         *)
(***************************************************************************)
ASSUME TreeConstants ==
    /\ Ancestors \in [Path -> SUBSET Path]
    /\ Depth \in [Path -> Nat]
    /\ \A p \in Path : \A a \in Ancestors[p] :
          Depth[a] < Depth[p] /\ Ancestors[a] \subseteq Ancestors[p]
    /\ TypeOf \in [Entry -> {"file", "dir", "symlink"}]
    /\ Dir0755 \in Entry /\ TypeOf[Dir0755] = "dir"
    /\ Absent \notin Entry
    /\ Redact \in [Entry -> Entry]
    /\ \A e \in Entry : /\ TypeOf[Redact[e]] = TypeOf[e]
                        /\ Redact[Redact[e]] = Redact[e]
                        /\ TypeOf[e] # "file" => Redact[e] = e

Tree == [Path -> Entry \cup {Absent}]

Empty == [p \in Path |-> Absent]

IsDir(tree, p) == tree[p] # Absent /\ TypeOf[tree[p]] = "dir"

(* What a walk of a file system can return: a path is in directories. *)
WellFormed(tree) ==
    \A p \in Path : tree[p] # Absent => \A a \in Ancestors[p] : IsDir(tree, a)

FileSystem == {tree \in Tree : WellFormed(tree)}

(* path is target, or starts with target + "/". *)
Within(p, target) == p = target \/ target \in Ancestors[p]

-----------------------------------------------------------------------------
(* The recorded tree: the content of log files after redaction. *)
redactedSnapshotTree(tree) ==
    [p \in Path |-> IF p \in LogPath /\ tree[p] # Absent THEN Redact[tree[p]]
                                                         ELSE tree[p]]

(* Entries of the current tree that are new, or differ from the parent's. *)
ChangedEntries(parent, current) ==
    {p \in Path : current[p] # Absent /\ parent[p] # current[p]}

(* Mutant of typeChangeWhiteouts: a changed entry keeps what it replaces. *)
noTypeChangeWhiteouts(parent, current, changed) == {}

typeChangeWhiteouts(parent, current, changed) ==
    {p \in changed : parent[p] # Absent /\ TypeOf[parent[p]] # TypeOf[current[p]]}

(* Mutant of mergeWhiteouts: a whiteout is also dropped for a descendant. *)
mergeDroppingAncestors(targets) ==
    {p \in targets : ~\E q \in targets : p \in Ancestors[q]}

(* A whiteout below another one is dropped. *)
mergeWhiteouts(targets) == {p \in targets : Ancestors[p] \cap targets = {}}

diffWhiteouts(parent, current) ==
    mergeWhiteouts({p \in Path : parent[p] # Absent /\ current[p] = Absent}
                   \cup typeChangeWhiteouts(parent, current,
                                            ChangedEntries(parent, current)))
=============================================================================
