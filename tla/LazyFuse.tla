------------------------------ MODULE LazyFuse ------------------------------
(***************************************************************************)
(* The native lazy FUSE mount (internal/osix/lazy_fuse_linux.go): a server *)
(* that shows a snapshot tree (lower_store.go) under a writable upper      *)
(* directory with .wh. whiteout files; the mount commands around it        *)
(* (runtime.go, runtime_dirs.go); and the snapshot that Snapshot takes of  *)
(* the upper directory (snapshot.go, the overlay branch).                  *)
(*                                                                         *)
(* The kernel looks up every component anew (no entry timeout) and holds   *)
(* the lock of the inode or of the parent directory around every request   *)
(* except OPEN.  So requests are atomic here, but for the copy-up of an    *)
(* OPEN.  Directories are only modelled at the top level; permissions are  *)
(* left out, and Setattr is a chmod or a truncation.                       *)
(***************************************************************************)
EXTENDS Trees

CONSTANTS
    Clients,        \* processes that use the mount; each opens one file
    Sources,        \* trees of the snapshots that may be mounted first
    DirEntry,       \* the entry of a directory
    NoData,         \* the entry of an empty file
    Old,            \* the entries of files that the first source has
    Written,        \* the entries that a client may write
    LinkEntry,      \* the entry of a symlink
    Base,           \* the last component of each path
    NoPath, NoTree, Unknown,
    MaxRequests,    \* bound on requests that change names or attributes
    MaxSnapshots    \* bound on snapshots of the upper directory

Data == {NoData} \cup Old \cup Written
Top == {p \in Path : Ancestors[p] = {}}

ASSUME LazyFuseConstants ==
    /\ \A t \in Sources : t \in Tree /\ WellFormed(t)
    /\ Data \subseteq {e \in Entry : TypeOf[e] = "file"}
    /\ DirEntry \in Entry /\ TypeOf[DirEntry] = "dir"
    /\ LinkEntry \in Entry /\ TypeOf[LinkEntry] = "symlink"
    /\ NoPath \notin Path /\ {NoTree, Unknown} \cap Tree = {}
    /\ \A p \in Path : \A a, b \in Ancestors[p] : a = b
    /\ \A r, s \in Path : Ancestors[r] = Ancestors[s] /\ Base[r] = Base[s] => r = s
    /\ \A t \in Sources, p \in Path : IsDir(t, p) => p \in Top
    /\ \A e \in Entry : TypeOf[e] = "dir" => e = DirEntry
    /\ \A p, q \in Top : {Base[r] : r \in {r \in Path : p \in Ancestors[r]}}
                        = {Base[r] : r \in {r \in Path : q \in Ancestors[r]}}
    /\ MaxRequests \in Nat /\ MaxSnapshots \in Nat

VARIABLES
    upper,      \* the upper directory: entries, and targets of .wh. files
    lower,      \* the tree that the server shows below it
    mnt,        \* the mount point: "none", "live", or "dead" (no server)
    source,     \* the tree of the snapshot that the mount record names
    open,       \* the path each client has open for writing, or NoPath
    copying,    \* where the OPEN of each client is
    file,       \* where the file is that an OPEN is writing, or NoPath
    last,       \* the tree of the last snapshot
    snapshots,  \* their number
    requests,   \* the number of requests that changed names or attributes
    posix       \* history: the tree that the requests amount to; Unknown once
                \* the server has got one wrong

vars == <<upper, lower, mnt, source, open, copying, file, last, snapshots, requests, posix>>
kept == <<lower, mnt, source, open, copying, last, snapshots>>
rest == <<lower, mnt, source, last, snapshots, requests>>

-----------------------------------------------------------------------------
(* lookupVisible: a whiteout, then the upper entry, then the lower one. *)
Found(u, p) ==
    IF p \in u.wh THEN Absent
    ELSE IF u.tree[p] # Absent THEN u.tree[p] ELSE lower[p]

(* What the kernel finds at a path, one component after the other. *)
Visible(u, p) ==
    IF \A a \in Ancestors[p] : Found(u, a) # Absent /\ TypeOf[Found(u, a)] = "dir"
    THEN Found(u, p) ELSE Absent

VisibleTree(u) == [p \in Path |-> Visible(u, p)]

InDir(tree, p) == \A a \in Ancestors[p] : IsDir(tree, a)

(* Mutant of ensureParentDir: the parent is taken to be there. *)
noParentDir(u, p) == u

(* ensureParentDir, copyUpMetadata: the directory appears in the upper. *)
ensureParentDir(u, p) ==
    [u EXCEPT !.tree = [q \in Path |-> IF q \in Ancestors[p] /\ @[q] = Absent
                                       THEN DirEntry ELSE @[q]]]

createWhiteout(u, p) ==
    [ensureParentDir(u, p) EXCEPT !.wh = @ \cup {p}]

(* An entry is written and the whiteout of its path removed. *)
Put(u, p, e) ==
    [ensureParentDir(u, p) EXCEPT !.tree[p] = e, !.wh = @ \ {p}]

(* copyUpFile, or copyUpMetadata for the rest: what lower has, unless the  *)
(* upper has something; a whiteout does not stop it.                       *)
CanCopyUp(u, p) ==
    \/ u.tree[p] # Absent
    \/ lower[p] # Absent /\ InDir(VisibleTree(u), p)

copyUp(u, p) == IF u.tree[p] # Absent THEN u ELSE Put(u, p, lower[p])

(* os.RemoveAll of an upper path, with the .wh. files in it. *)
RemoveAll(u, p) ==
    [tree |-> [q \in Path |-> IF Within(q, p) THEN Absent ELSE u.tree[q]],
     wh   |-> {q \in u.wh : p \notin Ancestors[q]}]

unlink(u, p) ==
    IF lower[p] # Absent THEN createWhiteout(RemoveAll(u, p), p)
                         ELSE RemoveAll(u, p)

(* From(p, q, r): where r, within q, was before p was renamed to q. *)
From(p, q, r) ==
    IF r = q THEN p
    ELSE LET origin == {s \in Path : p \in Ancestors[s] /\ Base[s] = Base[r]}
         IN  IF origin = {} THEN NoPath ELSE CHOOSE s \in origin : TRUE

Move(tree, p, q) ==
    [r \in Path |->
        IF Within(r, p) THEN Absent
        ELSE IF ~Within(r, q) THEN tree[r]
        ELSE IF From(p, q, r) = NoPath THEN Absent ELSE tree[From(p, q, r)]]

(* os.Rename in the upper: a directory takes its .wh. files along. *)
MoveUpper(u, p, q) ==
    [tree |-> Move(u.tree, p, q),
     wh   |-> {r \in u.wh : p \notin Ancestors[r]}
              \cup {r \in Path : q \in Ancestors[r] /\ From(p, q, r) \in u.wh}]

(* lazyFuseRename: copy up, make way, rename, hide what lower has. *)
MakeWay(u, p, q) ==
    LET copied == ensureParentDir(copyUp(u, p), q)
        freed  == IF Found(copied, q) # Absent THEN unlink(copied, q) ELSE copied
    IN  [freed EXCEPT !.wh = @ \ {q}]

(* Mutant of HideSource: the old name is not hidden. *)
hideNothing(u, p) == u

HideSource(u, p) == IF lower[p] # Absent THEN createWhiteout(u, p) ELSE u

Renamed(u, p, q) == HideSource(MoveUpper(MakeWay(u, p, q), p, q), p)

-----------------------------------------------------------------------------
(* Snapshot of the upper directory over the tree of the record's source.   *)
(* scanOverlayUpper: entries that no whiteout covers.                      *)
upperEntries(u) == {p \in Path : u.tree[p] # Absent /\ ~\E w \in u.wh : Within(p, w)}

changedOverlayEntries(parent, u) ==
    {p \in upperEntries(u) : u.tree[p] # parent[p]}

(* Mutant of effectiveOverlayWhiteouts: every .wh. file counts. *)
allOverlayWhiteouts(parent, u) == u.wh

effectiveOverlayWhiteouts(parent, u) == {p \in u.wh : parent[p] # Absent}

(* Mutant of mergeOverlayTree: a whiteout deletes its target alone. *)
mergeDeletingTargets(parent, u, changed, whiteouts) ==
    [p \in Path |-> IF p \in changed THEN u.tree[p]
                    ELSE IF p \in whiteouts THEN Absent ELSE parent[p]]

(* What whiteouts cover is deleted, changed entries are added, and with    *)
(* them the parent's directories they are in.                              *)
mergeOverlayTree(parent, u, changed, whiteouts) ==
    [p \in Path |->
        IF p \in changed THEN u.tree[p]
        ELSE IF \E w \in whiteouts : Within(p, w)
        THEN IF IsDir(parent, p) /\ \E c \in changed : p \in Ancestors[c]
             THEN parent[p] ELSE Absent
        ELSE parent[p]]

Recorded(u) ==
    LET changed   == changedOverlayEntries(source, u)
        whiteouts == mergeWhiteouts(effectiveOverlayWhiteouts(source, u)
                                    \cup typeChangeWhiteouts(source, u.tree, changed))
    IN  mergeOverlayTree(source, u, changed, whiteouts)

(* rebuildDirtyIndex: the paths of the index. *)
DirtyPaths(u) == changedOverlayEntries(source, u)
                 \cup effectiveOverlayWhiteouts(source, u)

(* lazyFuseReadDir fails where lower has no directory of that name. *)
Listable(p) == IsDir(lower, p)

-----------------------------------------------------------------------------
NoUpper == [tree |-> Empty, wh |-> {}]

(* Types; and .wh. files and entries are in directories of the upper. *)
TypeOK ==
    /\ upper \in [tree : Tree, wh : SUBSET Path]
    /\ \A p \in Path : upper.tree[p] # Absent \/ p \in upper.wh => InDir(upper.tree, p)
    /\ lower \in Tree \cup {NoTree} /\ last \in Tree \cup {NoTree}
    /\ mnt \in {"none", "live", "dead"}
    /\ source \in Tree \cup {NoTree}
    /\ open \in [Clients -> Path \cup {NoPath}] /\ file \in [Clients -> Path \cup {NoPath}]
    /\ copying \in [Clients -> {"no", "create", "fill", "unhide"}]
    /\ snapshots \in 0..MaxSnapshots /\ requests \in 0..MaxRequests
    /\ posix \in Tree \cup {NoTree, Unknown}

Init ==
    /\ upper = NoUpper /\ lower = NoTree /\ mnt = "none" /\ source = NoTree
    /\ open = [c \in Clients |-> NoPath] /\ copying = [c \in Clients |-> "no"]
    /\ file = [c \in Clients |-> NoPath]
    /\ last = NoTree /\ snapshots = 0 /\ requests = 0
    /\ posix = NoTree

Seen(p) == mnt = "live" /\ Visible(upper, p) # Absent
SeenType(p) == TypeOf[Visible(upper, p)]
Free(p) == mnt = "live" /\ Visible(upper, p) = Absent /\ InDir(VisibleTree(upper), p)
HasBelow(tree, p) == \E r \in Path : p \in Ancestors[r] /\ tree[r] # Absent
InUse(p) == \E c \in Clients : open[c] # NoPath /\ Within(open[c], p)
HalfCopied(p) == \E c \in Clients : copying[c] # "no" /\ open[c] = p

(* The requests amount to the tree, unless the server gets them wrong. *)
Amounts(tree, wrong) == posix' = IF posix = Unknown \/ wrong THEN Unknown ELSE tree

Counted == requests < MaxRequests /\ requests' = requests + 1

(* CREATE, SYMLINK and MKDIR.  A directory that was removed comes back     *)
(* with what lower has in it.  A file may be in the upper under the        *)
(* whiteout while an OPEN copies it up: then CREATE truncates it, and the  *)
(* others fail when the whiteout is gone.                                  *)
Make(p, e) ==
    /\ Counted
    /\ Free(p)
    /\ e \in {NoData, LinkEntry} \cup (IF p \in Top THEN {DirEntry} ELSE {})
    /\ upper' = IF upper.tree[p] # Absent /\ e # NoData
                THEN [upper EXCEPT !.wh = @ \ {p}] ELSE Put(upper, p, e)
    /\ Amounts([posix EXCEPT ![p] = e],
               InUse(p) \/ (e = DirEntry /\ HasBelow(lower, p)))
    /\ UNCHANGED <<kept, file>>

(* SETATTR: copy-up, and for a file the truncation. *)
Setattr(p, truncate) ==
    /\ Counted
    /\ Seen(p)
    /\ truncate => SeenType(p) = "file"
    /\ upper' = IF truncate THEN Put(copyUp(upper, p), p, NoData) ELSE copyUp(upper, p)
    /\ Amounts(IF truncate THEN [posix EXCEPT ![p] = NoData] ELSE posix, HalfCopied(p))
    /\ UNCHANGED <<kept, file>>

Follow(where) ==
    file' = [c \in Clients |-> IF file[c] = NoPath THEN NoPath ELSE where[file[c]]]

Gone(p, r) == IF Within(r, p) THEN NoPath ELSE r

(* UNLINK and RMDIR; RMDIR does not ask whether the directory is empty. *)
Unlink(p) ==
    /\ Counted
    /\ Seen(p)
    /\ upper' = unlink(upper, p)
    /\ Follow([r \in Path |-> Gone(p, r)])
    /\ Amounts([r \in Path |-> IF Within(r, p) THEN Absent ELSE posix[r]],
               InUse(p) \/ HasBelow(VisibleTree(upper), p))
    /\ UNCHANGED kept

(* What the kernel lets through: no directory into itself, or over a file. *)
CanRename(p, q) ==
    /\ Seen(p) /\ (Seen(q) \/ Free(q))
    /\ ~Within(p, q) /\ ~Within(q, p)
    /\ SeenType(p) = "dir" => q \in Top
    /\ Seen(q) => (SeenType(p) = "dir" <=> SeenType(q) = "dir")

(* Files in use, and directories of which lower has something. *)
RenameIsWrong(p, q) ==
    \/ InUse(p) \/ InUse(q)
    \/ SeenType(p) = "dir" /\ (HasBelow(lower, p) \/ HasBelow(lower, q)
                               \/ HasBelow(VisibleTree(upper), q))

To(p, q, r) ==
    IF Within(r, p) THEN CHOOSE s \in Path : Within(s, q) /\ From(p, q, s) = r
                    ELSE Gone(q, r)

(* os.Rename of a directory over a file that an OPEN has just made under   *)
(* the whiteout.                                                           *)
Blocked(p, q) == SeenType(p) = "dir" /\ MakeWay(upper, p, q).tree[q] # Absent

Rename(p, q) ==
    /\ Counted
    /\ CanRename(p, q) /\ ~Blocked(p, q)
    /\ upper' = Renamed(upper, p, q)
    /\ Follow([r \in Path |-> To(p, q, r)])
    /\ Amounts(Move(posix, p, q), RenameIsWrong(p, q))
    /\ UNCHANGED kept

RenameFails(p, q) ==
    /\ Counted
    /\ CanRename(p, q) /\ Blocked(p, q)
    /\ upper' = MakeWay(upper, p, q)
    /\ Amounts(posix, TRUE)
    /\ UNCHANGED <<kept, file>>

-----------------------------------------------------------------------------
(* OPEN for writing.  copyUpFile looks for the file in the upper, reads it *)
(* from lower and makes its parent directory; os.WriteFile truncates or    *)
(* creates, then writes; the whiteout of the path is removed.              *)
OpenStart(c, p) ==
    /\ open[c] = NoPath
    /\ Seen(p) /\ SeenType(p) = "file"
    /\ open' = [open EXCEPT ![c] = p]
    /\ IF upper.tree[p] # Absent
       THEN UNCHANGED <<upper, copying>>
       ELSE /\ upper' = ensureParentDir(upper, p)
            /\ copying' = [copying EXCEPT ![c] = "create"]
    /\ UNCHANGED <<rest, file, posix>>

OpenCreate(c) ==
    /\ copying[c] = "create"
    /\ LET p == open[c] IN
       IF InDir(upper.tree, p) /\ (upper.tree[p] # Absent => TypeOf[upper.tree[p]] = "file")
       THEN /\ upper' = [upper EXCEPT !.tree[p] = NoData]
            /\ copying' = [copying EXCEPT ![c] = "fill"]
            /\ file' = [file EXCEPT ![c] = p]
            /\ Amounts(posix, upper.tree[p] # Absent)
            /\ UNCHANGED open
       ELSE /\ copying' = [copying EXCEPT ![c] = "no"]
            /\ open' = [open EXCEPT ![c] = NoPath]
            /\ UNCHANGED <<upper, file, posix>>
    /\ UNCHANGED rest

(* The data goes where the file is by now. *)
OpenFill(c) ==
    /\ copying[c] = "fill"
    /\ upper' = IF file[c] = NoPath THEN upper
                ELSE [upper EXCEPT !.tree[file[c]] = lower[open[c]]]
    /\ copying' = [copying EXCEPT ![c] = "unhide"]
    /\ file' = [file EXCEPT ![c] = NoPath]
    /\ UNCHANGED <<rest, open, posix>>

OpenDone(c) ==
    /\ copying[c] = "unhide"
    /\ upper' = [upper EXCEPT !.wh = @ \ {open[c]}]
    /\ copying' = [copying EXCEPT ![c] = "no"]
    /\ UNCHANGED <<rest, open, file, posix>>

(* WRITE goes to the path that the node had when it was opened. *)
Write(c, e) ==
    /\ open[c] # NoPath /\ copying[c] = "no"
    /\ LET p == open[c] IN
       /\ CanCopyUp(upper, p)
       /\ TypeOf[copyUp(upper, p).tree[p]] = "file"
       /\ upper' = [copyUp(upper, p) EXCEPT !.tree[p] = e]
       /\ Amounts([posix EXCEPT ![p] = e], HalfCopied(p))
    /\ UNCHANGED <<rest, open, copying, file>>

Close(c) ==
    /\ open[c] # NoPath /\ copying[c] = "no"
    /\ open' = [open EXCEPT ![c] = NoPath]
    /\ UNCHANGED <<rest, upper, copying, file, posix>>

-----------------------------------------------------------------------------
(* lazyFuseMount.  The upper directory of the target is used again. *)
MountSource(t) ==
    /\ mnt = "none"
    /\ t \in (IF source = NoTree THEN Sources ELSE {source, last} \ {NoTree})
    /\ mnt' = "live" /\ lower' = t
    /\ UNCHANGED <<upper, open, copying, file, last, snapshots, requests>>

(* A snapshot that is older than the upper directory brings back what was  *)
(* deleted since.                                                          *)
Mount(t) ==
    /\ MountSource(t)
    /\ source' = t
    /\ IF source = NoTree THEN posix' = t ELSE Amounts(posix, t \notin {source, posix})

(* The command dies before it has written the record. *)
MountUnrecorded(t) ==
    /\ MountSource(t)
    /\ source # NoTree
    /\ Amounts(posix, t # source)
    /\ UNCHANGED source

(* fuseUnmount when no file is open, or the server is dead.  While a file  *)
(* is open fusermount fails, which is ignored: the record says unmounted,  *)
(* the server goes on, or with --force is killed.                          *)
Unmount ==
    /\ mnt # "none" /\ source # NoTree
    /\ \A c \in Clients : open[c] = NoPath
    /\ mnt' = "none" /\ lower' = NoTree
    /\ UNCHANGED <<upper, source, open, copying, file, last, snapshots, requests, posix>>

Killed(halfway) ==
    /\ mnt = "live"
    /\ mnt' = "dead" /\ lower' = NoTree
    /\ open' = [c \in Clients |-> NoPath]
    /\ copying' = [c \in Clients |-> "no"] /\ file' = [c \in Clients |-> NoPath]
    /\ Amounts(posix, halfway \/ \E c \in Clients : copying[c] = "fill")
    /\ UNCHANGED <<source, last, snapshots>>

ServerDies == Killed(FALSE) /\ UNCHANGED <<upper, requests>>

(* The server dies inside a rename, before or after the upper's rename. *)
RenameStops(p, q) ==
    /\ Counted
    /\ CanRename(p, q)
    /\ upper' \in {MakeWay(upper, p, q), MoveUpper(MakeWay(upper, p, q), p, q)}
    /\ Killed(TRUE)

(* Snapshot walks the target before it looks at the upper directory. *)
CanWalk ==
    CASE mnt = "none" -> TRUE
      [] mnt = "dead" -> FALSE
      [] mnt = "live" -> \A p \in Path : IsDir(VisibleTree(upper), p) => Listable(p)

Snapshot ==
    /\ source # NoTree
    /\ snapshots < MaxSnapshots
    /\ CanWalk
    /\ last' = Recorded(upper)
    /\ snapshots' = snapshots + 1
    /\ UNCHANGED <<upper, lower, mnt, source, open, copying, file, requests, posix>>

Request ==
    \/ \E p \in Path : \/ \E e \in Entry : Make(p, e)
                       \/ \E truncate \in BOOLEAN : Setattr(p, truncate)
                       \/ Unlink(p)
                       \/ \E q \in Path : Rename(p, q) \/ RenameFails(p, q)
    \/ \E c \in Clients : \/ \E p \in Path : OpenStart(c, p)
                          \/ OpenCreate(c) \/ OpenFill(c) \/ OpenDone(c)
                          \/ \E e \in Written : Write(c, e)
                          \/ Close(c)

Command ==
    \/ \E t \in Sources \cup {source, last} : Mount(t) \/ MountUnrecorded(t)
    \/ Unmount \/ Snapshot

Next ==
    \/ Request \/ Command
    \/ ServerDies \/ \E p, q \in Path : RenameStops(p, q)

Spec == Init /\ [][Next]_vars

-----------------------------------------------------------------------------
(* The tree that Snapshot records from the upper directory is the tree     *)
(* that the mount shows, after any sequence of requests, also while a file *)
(* is copied up and when the server has died in the middle of a rename.    *)
SnapshotSeesMount ==
    mnt = "live" /\ lower = source => Recorded(upper) = VisibleTree(upper)

(* A snapshot holds what the requests amount to, as in any file system,    *)
(* also when it is taken after an unmount, after the server has died, or   *)
(* on a mount of an earlier snapshot of the same upper directory; unless a *)
(* request was one that the server gets wrong (Amounts).                   *)
ChangesKept ==
    posix \notin {NoTree, Unknown} =>
        \A p \in Path : HalfCopied(p) \/ Recorded(upper)[p] = posix[p]

(* specs/06-fuse-overlay-runtime.md: "Dirty tracking matches a             *)
(* verification tree diff": the dirty index is empty exactly when the      *)
(* snapshot would be its parent.                                           *)
DirtyIndexExact ==
    source # NoTree => (DirtyPaths(upper) = {} <=> Recorded(upper) = source)
=============================================================================
