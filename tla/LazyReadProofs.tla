--------------------------- MODULE LazyReadProofs ---------------------------
(***************************************************************************)
(* Proofs about LazyRead, for every set of paths, every chain length and   *)
(* every file system that a snapshot may find: a read of a single file     *)
(* returns what the snapshot's tree records, through whichever layer or    *)
(* index it goes, and a restore from the indexes never needs a layer.      *)
(***************************************************************************)
EXTENDS LazyRead, WellFoundedInduction, TLAPS

-----------------------------------------------------------------------------
(* A recorded tree has its logs redacted, and redacting again is no change. *)
Redacted(tree) ==
    \A p \in Path : p \in LogPath /\ tree[p] # Absent => Redact[tree[p]] = tree[p]

(* What a snapshot says of its parent's tree.  The layer was made from the *)
(* tree before it was redacted, and the reads compare redacted trees.      *)
Link(old, s) ==
    /\ Redacted(s.recorded)
    /\ \A p \in s.changed : s.recorded[p] # Absent
    /\ \A p \in Path \ s.changed : s.recorded[p] # Absent => old[p] = s.recorded[p]
    /\ \A p \in s.whiteouts \ s.changed : s.recorded[p] = Absent
    /\ \A p \in Path : old[p] # Absent /\ s.recorded[p] = Absent =>
          \E w \in s.whiteouts : Within(p, w)

ChainInv == \A i \in Snapshots : Link(TreeAt(i - 1), chain[i])

(* Only a pulled store builds records, and it records the sources first. *)
StoreInv ==
    /\ RecordsHaveSources
    /\ ~pulled => sources = {} /\ \A i \in indexRefs : records[i] # "none"

(* Where the command stands: it was sent by an index to what it looks up,  *)
(* and writes records of a pulled store.                                   *)
StepInv ==
    /\ read.pc \in {"sources", "record", "lookup"} => read.level \in indexRefs
    /\ read.pc = "record" => read.level \in sources
    /\ read.pc \in {"sources", "record"} => pulled
    /\ read.pc \in {"lookup", "layer"} => read.path # NoPath
    /\ read.pc = "layer" => \/ read.level \notin indexRefs
                            \/ LookupIndex(chain[read.level], read.path) = "none"
    /\ read.pc # "idle" /\ ~read.restore => read.path # NoPath

DeletedAbove ==
    \E i \in 1..read.top : Ancestors[read.path] \cap chain[i].whiteouts # {}

(* The layers above the one that is asked have not changed the path: what  *)
(* the restored snapshot records is what the tree at this level records.   *)
LevelInv ==
    read.pc # "idle" /\ read.path # NoPath =>
        /\ Recorded # Absent => TreeAt(read.level)[read.path] = Recorded
        /\ Recorded = Absent /\ TreeAt(read.level)[read.path] # Absent => DeletedAbove

(* A restore has found the index of every level before it reads, and asks  *)
(* for a file where it came into the tree.                                 *)
RestoreInv ==
    read.pc # "idle" /\ read.restore =>
        /\ \A i \in 1..read.top : i < read.level \/ read.path # NoPath => i \in indexRefs
        /\ read.path # NoPath =>
              IsFile(Recorded) /\ TreeAt(read.level - 1)[read.path] # Recorded

ReadInv == StepInv /\ LevelInv /\ RestoreInv
Results == ReadsRecorded /\ DeletedUnread /\ RestoresFromIndexes

IInv == TypeOK /\ ChainInv /\ StoreInv /\ ReadInv /\ Results

-----------------------------------------------------------------------------
(* Every set of numbers has a least one. *)
LEMMA NatMinimum ==
    ASSUME NEW S \in SUBSET Nat, S # {}
    PROVE  \E n \in S : \A m \in S : n <= m
<1>1. PICK n \in S : \A m \in S : ~(<<m, n>> \in OpToRel(<, Nat))
  BY NatLessThanWellFounded, WFMin, Zenon
<1>2. ASSUME NEW m \in Nat, NEW k \in Nat, m < k
      PROVE  <<m, k>> \in OpToRel(<, Nat)
  BY <1>2 DEF OpToRel
<1>3. \A m \in S : ~(m < n)
  BY <1>1, <1>2, Zenon
<1> QED BY <1>3

(* And a bounded one has a greatest one. *)
LEMMA NatMaximum ==
    ASSUME NEW n \in Nat, NEW S \in SUBSET (0..n), S # {}
    PROVE  \E i \in S : \A j \in S : j <= i
<1> DEFINE D == {n - i : i \in S}
<1>1. D \in SUBSET Nat /\ D # {}
  <2>1. \A i \in S : i \in 0..n /\ n - i \in Nat
    OBVIOUS
  <2> QED BY <2>1
<1>2. PICK d \in D : \A m \in D : d <= m
  <2> HIDE DEF D
  <2> QED BY <1>1, NatMinimum
<1>3. PICK i \in S : d = n - i
  OBVIOUS
<1>4. \A j \in S : j <= i
  <2> TAKE j \in S
  <2>1. n - j \in D
    OBVIOUS
  <2>2. d <= n - j
    BY <1>2, <2>1
  <2> QED BY <1>3, <2>2
<1> QED BY <1>4

(* Dropping the whiteouts below other whiteouts deletes as much. *)
LEMMA MergeCovers ==
    ASSUME NEW S \in SUBSET Path, NEW s \in S
    PROVE  \E w \in mergeWhiteouts(S) : Within(s, w)
<1> DEFINE up == {w \in S : Within(s, w)}
           D == {Depth[w] : w \in up}
<1>1. up \in SUBSET Path /\ s \in up
  BY DEF Within
<1>2. D \in SUBSET Nat /\ D # {}
  BY <1>1, TreeConstants
<1>3. PICK d \in D : \A m \in D : d <= m
  <2> HIDE DEF D
  <2> QED BY <1>2, NatMinimum
<1>4. PICK w \in up : d = Depth[w]
  OBVIOUS
<1>5. \A a \in Ancestors[w] \cap S : a \in up /\ Depth[a] < Depth[w]
  BY <1>1, TreeConstants DEF Within
<1>6. \A a \in up : Depth[a] \in D /\ Depth[a] \in Nat
  BY <1>1, TreeConstants
<1>7. Ancestors[w] \cap S = {}
  <2> SUFFICES ASSUME NEW a \in Ancestors[w] \cap S
               PROVE  FALSE
    OBVIOUS
  <2> HIDE DEF up, D
  <2> QED BY <1>3, <1>4, <1>5, <1>6
<1> QED BY <1>4, <1>7 DEF mergeWhiteouts

(* A snapshot of any file system after a redacted tree.  Redaction comes   *)
(* after the diff: that it is idempotent keeps an unchanged log unchanged. *)
LEMMA SnapshotLinks ==
    ASSUME NEW old \in Tree, Redacted(old), NEW current \in Tree, NEW encrypted
    PROVE  LET s == [recorded  |-> redactedSnapshotTree(current),
                     changed   |-> ChangedEntries(old, current),
                     whiteouts |-> diffWhiteouts(old, current),
                     encrypted |-> encrypted]
           IN  /\ s.recorded \in Tree
               /\ s.changed \subseteq Path /\ s.whiteouts \subseteq Path
               /\ Link(old, s)
<1> DEFINE new     == redactedSnapshotTree(current)
           changed == ChangedEntries(old, current)
           white   == diffWhiteouts(old, current)
           targets == {p \in Path : old[p] # Absent /\ current[p] = Absent}
                      \cup typeChangeWhiteouts(old, current, changed)
<1>1. new \in Tree /\ changed \subseteq Path
  BY TreeConstants DEF Tree, redactedSnapshotTree, ChangedEntries
<1>2. targets \in SUBSET Path /\ white = mergeWhiteouts(targets)
  BY DEF diffWhiteouts, typeChangeWhiteouts, ChangedEntries
<1>3. white \subseteq targets
  BY <1>2 DEF mergeWhiteouts
<1>4. \A p \in Path : /\ new[p] = Absent <=> current[p] = Absent
                      /\ new[p] = IF p \in LogPath /\ current[p] # Absent
                                  THEN Redact[current[p]] ELSE current[p]
  <2> TAKE p \in Path
  <2>1. new[p] = IF p \in LogPath /\ current[p] # Absent
                 THEN Redact[current[p]] ELSE current[p]
    BY DEF redactedSnapshotTree
  <2>2. current[p] # Absent => Redact[current[p]] \in Entry /\ Absent \notin Entry
    BY TreeConstants DEF Tree
  <2> QED BY <2>1, <2>2
<1>5. Redacted(new)
  BY <1>4, TreeConstants DEF Redacted, Tree
<1>6. \A p \in changed : new[p] # Absent
  BY <1>4 DEF ChangedEntries
<1>7. \A p \in Path \ changed : new[p] # Absent => old[p] = new[p]
  BY <1>4 DEF ChangedEntries, Redacted
<1>8. \A p \in white \ changed : new[p] = Absent
  BY <1>3, <1>4 DEF typeChangeWhiteouts
<1>9. ASSUME NEW p \in Path, old[p] # Absent, new[p] = Absent
      PROVE  \E w \in white : Within(p, w)
  <2>1. p \in targets
    BY <1>4, <1>9
  <2> HIDE DEF targets
  <2> QED BY <1>2, <2>1, MergeCovers
<1> HIDE DEF new, changed, white, targets
<1>10. white \subseteq Path
  BY <1>2, <1>3
<1> QED BY <1>1, <1>5, <1>6, <1>7, <1>8, <1>9, <1>10 DEF Link, new, changed, white

-----------------------------------------------------------------------------
LEMMA ChainTypes ==
    ASSUME TypeOK
    PROVE  /\ Len(chain) \in Nat
           /\ \A i \in Snapshots : /\ i \in 1..MaxChain
                                   /\ chain[i].recorded \in Tree
                                   /\ chain[i].changed \subseteq Path
                                   /\ chain[i].whiteouts \subseteq Path
<1> DEFINE S == [recorded : Tree, changed : SUBSET Path,
                 whiteouts : SUBSET Path, encrypted : BOOLEAN]
<1>1. chain \in Seq(S) /\ Len(chain) <= MaxChain /\ MaxChain \in Nat
  BY LazyReadConstants DEF TypeOK
<1>2. \A s \in S : s.recorded \in Tree /\ s.changed \subseteq Path /\ s.whiteouts \subseteq Path
  OBVIOUS
<1> HIDE DEF S
<1>3. Len(chain) \in Nat /\ \A i \in 1..Len(chain) : chain[i] \in S /\ i \in 1..MaxChain
  BY <1>1
<1> QED BY <1>2, <1>3 DEF Snapshots

(* The trees of the chain, with the empty one before it. *)
LEMMA TreesOfChain ==
    ASSUME TypeOK, ChainInv
    PROVE  /\ Len(chain) \in Nat
           /\ \A i \in 0..Len(chain) : TreeAt(i) \in Tree /\ Redacted(TreeAt(i))
           /\ \A i \in Snapshots : TreeAt(i) = chain[i].recorded
<1>1. Len(chain) \in Nat /\ \A i \in Snapshots : chain[i].recorded \in Tree
  BY ChainTypes
<1>2. Empty \in Tree /\ Redacted(Empty)
  BY DEF Empty, Tree, Redacted
<1>3. \A i \in Snapshots : i # 0 /\ TreeAt(i) = chain[i].recorded
  BY <1>1 DEF Snapshots, TreeAt
<1>4. \A i \in Snapshots : Redacted(chain[i].recorded)
  BY DEF ChainInv, Link
<1>5. TreeAt(0) = Empty
  BY DEF TreeAt
<1>6. \A i \in 0..Len(chain) : i = 0 \/ i \in Snapshots
  BY <1>1 DEF Snapshots
<1> QED BY <1>1, <1>2, <1>3, <1>4, <1>5, <1>6

(* A file that a snapshot's tree records came into the tree at some        *)
(* snapshot: restoreSourceDigestForEntry never fails to find it.           *)
LEMMA SourceExists ==
    ASSUME TypeOK, ChainInv, NEW n \in Snapshots, NEW p \in Path,
           TreeAt(n)[p] # Absent
    PROVE  LET i == restoreSourceDigestForEntry(n, p)
           IN  /\ i \in 1..n
               /\ TreeAt(i)[p] = TreeAt(n)[p]
               /\ TreeAt(i - 1)[p] # TreeAt(n)[p]
<1> DEFINE v == TreeAt(n)[p]
           Holds == {i \in 0..n : TreeAt(i)[p] = v}
           Enters == {i \in 1..n : TreeAt(i)[p] = v /\ TreeAt(i - 1)[p] # v}
           Newest(i) == /\ TreeAt(i)[p] = v /\ TreeAt(i - 1)[p] # v
                        /\ \A j \in (i + 1)..n : TreeAt(j)[p] # v \/ TreeAt(j - 1)[p] = v
<1>1. n \in Nat /\ n >= 1
  BY TreesOfChain DEF Snapshots
<1>2. TreeAt(0)[p] = Absent
  BY DEF TreeAt, Empty
<1>3. Holds \in SUBSET Nat /\ n \in Holds
  BY <1>1
<1>4. PICK k \in Holds : \A m \in Holds : k <= m
  <2> HIDE DEF Holds
  <2> QED BY <1>3, NatMinimum
<1>5. k # 0 /\ k \in 1..n
  BY <1>1, <1>2
<1>6. k \in Enters
  <2>1. k - 1 \in 0..n /\ ~(k <= k - 1)
    BY <1>1, <1>5
  <2>2. TreeAt(k - 1)[p] # v
    BY <1>4, <2>1
  <2> QED BY <1>5, <2>2
<1>7. PICK i \in Enters : \A j \in Enters : j <= i
  <2>1. Enters \in SUBSET (0..n) /\ Enters # {}
    BY <1>1, <1>6
  <2> HIDE DEF Enters
  <2> QED BY <1>1, <2>1, NatMaximum
<1>8. \A j \in (i + 1)..n : j \in 1..n /\ ~(j <= i)
  BY <1>1, <1>7
<1>9. i \in 1..n /\ Newest(i)
  BY <1>7, <1>8
<1>10. restoreSourceDigestForEntry(n, p) = CHOOSE j \in 1..n : Newest(j)
  BY DEF restoreSourceDigestForEntry
<1> HIDE DEF Newest
<1>11. restoreSourceDigestForEntry(n, p) \in 1..n /\ Newest(restoreSourceDigestForEntry(n, p))
  BY <1>9, <1>10
<1> QED BY <1>11 DEF Newest

-----------------------------------------------------------------------------
(* The part of TypeOK that is about the command. *)
ReadType ==
    /\ read \in [pc : {"idle", "index", "sources", "record", "lookup", "layer", "done"},
                 restore : BOOLEAN, top : 0..MaxChain, level : 0..MaxChain,
                 path : Path \cup {NoPath}, value : Outcome \cup Entry]
    /\ read.pc # "idle" => read.top \in Snapshots /\ read.level \in 1..read.top

(* A step of the command alone leaves the store as it is. *)
LEMMA ReadOnly ==
    ASSUME IInv, UNCHANGED <<store, records, sources, deaths>>,
           ReadType', ReadInv', Results'
    PROVE  IInv'
<1>1. UNCHANGED <<chain, pulled, indexRefs>>
  BY DEF store
<1>2. TypeOK'
  BY <1>1 DEF IInv, TypeOK, ReadType, Snapshots
<1>3. ChainInv'
  BY <1>1 DEF IInv, ChainInv, Snapshots, TreeAt
<1>4. StoreInv'
  BY <1>1 DEF IInv, StoreInv, RecordsHaveSources
<1> QED BY <1>2, <1>3, <1>4 DEF IInv

(* An idle command has nothing to keep. *)
LEMMA IdleOK ==
    ASSUME IInv, read' = Idle
    PROVE  ReadType' /\ ReadInv' /\ Results'
<1>1. ReadType'
  <2>1. 0 \in 0..MaxChain
    BY LazyReadConstants
  <2>2. "none" \in Outcome
    BY DEF Outcome
  <2> QED BY <2>1, <2>2 DEF ReadType, Idle
<1>2. read'.pc = "idle" /\ read'.restore = FALSE
  BY DEF Idle
<1>3. ReadInv'
  BY <1>2 DEF ReadInv, StepInv, LevelInv, RestoreInv
<1>4. Results'
  BY <1>2 DEF Results, ReadsRecorded, DeletedUnread, RestoresFromIndexes, Returned
<1> QED BY <1>1, <1>3, <1>4

(* What is at the level that the command asks. *)
LEMMA ReadFacts ==
    ASSUME IInv, read.pc # "idle"
    PROVE  /\ read.top \in Snapshots /\ read.level \in 1..read.top
           /\ read.level \in Snapshots /\ read.level \in 1..MaxChain
           /\ read.level - 1 \in 0..Len(chain)
           /\ Link(TreeAt(read.level - 1), chain[read.level])
           /\ TreeAt(read.level) = chain[read.level].recorded
           /\ read.path # NoPath =>
                 /\ read.path \in Path
                 /\ TreeAt(read.level - 1)[read.path] \in Entry \cup {Absent}
                 /\ chain[read.level].recorded[read.path] \in Entry \cup {Absent}
                 /\ Recorded \in Entry \cup {Absent}
<1>1. read.top \in Snapshots /\ read.level \in 1..read.top
  BY DEF IInv, TypeOK
<1>2. Len(chain) \in Nat
  BY ChainTypes DEF IInv
<1>3. read.level \in Snapshots /\ read.level - 1 \in 0..Len(chain)
  BY <1>1, <1>2 DEF Snapshots
<1>4. read.level \in 1..MaxChain
  BY <1>3, ChainTypes DEF IInv
<1>5. Link(TreeAt(read.level - 1), chain[read.level])
  BY <1>3 DEF IInv, ChainInv
<1>6. /\ TreeAt(read.level) = chain[read.level].recorded
      /\ TreeAt(read.level - 1) \in Tree
      /\ chain[read.level].recorded \in Tree /\ chain[read.top].recorded \in Tree
  BY <1>1, <1>3, ChainTypes, TreesOfChain DEF IInv
<1>7. read.path # NoPath => read.path \in Path
  BY DEF IInv, TypeOK
<1>8. \A t \in Tree, p \in Path : t[p] \in Entry \cup {Absent}
  BY DEF Tree
<1> QED BY <1>1, <1>3, <1>4, <1>5, <1>6, <1>7, <1>8 DEF Recorded

(* The command goes on where it is. *)
LEMMA GotoKeeps ==
    ASSUME IInv, read.pc # "idle", UNCHANGED <<chain, indexRefs>>,
           NEW pc \in {"index", "sources", "record", "lookup", "layer"}, Goto(pc),
           pc = "layer" => ~read.restore
    PROVE  ReadType' /\ LevelInv' /\ RestoreInv' /\ Results'
<1>1. /\ read' = [read EXCEPT !.pc = pc]
      /\ read'.pc = pc /\ read'.restore = read.restore /\ read'.top = read.top
      /\ read'.level = read.level /\ read'.path = read.path
  BY DEF Goto, IInv, TypeOK
<1>2. ReadType'
  BY <1>1 DEF IInv, TypeOK, ReadType, Snapshots
<1>3. LevelInv'
  BY <1>1 DEF IInv, ReadInv, LevelInv, Recorded, DeletedAbove, TreeAt
<1>4. RestoreInv'
  BY <1>1 DEF IInv, ReadInv, RestoreInv, Recorded, IsFile, TreeAt
<1>5. Results'
  BY <1>1 DEF Results, ReadsRecorded, DeletedUnread, RestoresFromIndexes, Returned
<1> QED BY <1>2, <1>3, <1>4, <1>5

(* What a read may return. *)
Right(value) ==
    read.path # NoPath =>
        /\ Recorded # Absent /\ TypeOf[Recorded] # "dir" =>
              value \in {Recorded, "unavailable"} \cup (IF Retyped THEN {"deleted"} ELSE {})
        /\ Recorded = Absent /\ value \in Entry => DeletedAbove
        /\ read.restore => value \in {Recorded, "unavailable"}

LEMMA DoneKeeps ==
    ASSUME IInv, read.pc # "idle", UNCHANGED <<chain, indexRefs>>,
           NEW value \in Outcome \cup Entry, Done(value), Right(value)
    PROVE  ReadType' /\ ReadInv' /\ Results'
<1>1. /\ read' = [read EXCEPT !.pc = "done", !.value = value]
      /\ read'.pc = "done" /\ read'.restore = read.restore /\ read'.top = read.top
      /\ read'.level = read.level /\ read'.path = read.path /\ read'.value = value
  BY DEF Done, IInv, TypeOK
<1>2. ReadType'
  BY <1>1 DEF IInv, TypeOK, ReadType, Snapshots
<1>3. LevelInv'
  BY <1>1 DEF IInv, ReadInv, LevelInv, Recorded, DeletedAbove, TreeAt
<1>4. RestoreInv'
  BY <1>1 DEF IInv, ReadInv, RestoreInv, Recorded, IsFile, TreeAt
<1>5. StepInv'
  BY <1>1 DEF IInv, ReadInv, StepInv
<1>6. Recorded' = Recorded /\ Retyped' = Retyped /\ DeletedAbove' = DeletedAbove
  BY <1>1 DEF Recorded, Retyped, DeletedAbove, IsFile
<1>7. ReadsRecorded'
  BY <1>1, <1>6 DEF Right, ReadsRecorded, Returned
<1>8. DeletedUnread'
  BY <1>1, <1>6 DEF Right, DeletedUnread, Returned, DeletedAbove
<1>9. RestoresFromIndexes'
  BY <1>1, <1>6 DEF Right, RestoresFromIndexes, Returned
<1> QED BY <1>2, <1>3, <1>4, <1>5, <1>7, <1>8, <1>9 DEF ReadInv, Results

(* A fetch that fails says nothing of the file. *)
LEMMA UnavailableRight ==
    Right("unavailable")
<1>1. "unavailable" \in Outcome /\ Outcome \cap Entry = {}
  BY LazyReadConstants DEF Outcome
<1> QED BY <1>1 DEF Right

(* What the index says of a path is right when the tree at its level is.   *)
LEMMA LookupRight ==
    ASSUME IInv, read.pc = "lookup", NEW value,
           value = LookupIndex(chain[read.level], read.path), value # "none"
    PROVE  Right(value) /\ value \in {"deleted"} \cup Entry
<1> DEFINE s == chain[read.level]
           p == read.path
<1>1. /\ p # NoPath /\ p \in Path /\ Link(TreeAt(read.level - 1), s)
      /\ TreeAt(read.level) = s.recorded
      /\ s.recorded[p] \in Entry \cup {Absent}
      /\ TreeAt(read.level - 1)[p] \in Entry \cup {Absent}
      /\ Recorded \in Entry \cup {Absent} /\ Absent \notin Entry
  BY ReadFacts, TreeConstants DEF IInv, ReadInv, StepInv
<1>2. "deleted" \notin Entry
  BY LazyReadConstants DEF Outcome
<1>3. /\ Recorded # Absent => s.recorded[p] = Recorded
      /\ Recorded = Absent /\ s.recorded[p] # Absent => DeletedAbove
  BY <1>1 DEF IInv, ReadInv, LevelInv
<1>4. read.restore => IsFile(Recorded) /\ TreeAt(read.level - 1)[p] # Recorded
  BY <1>1 DEF IInv, ReadInv, RestoreInv
<1>5. /\ p \in s.changed => s.recorded[p] # Absent
      /\ p \notin s.changed /\ s.recorded[p] # Absent => TreeAt(read.level - 1)[p] = s.recorded[p]
      /\ p \in s.whiteouts /\ s.recorded[p] # Absent => p \in s.changed
  BY <1>1 DEF Link
<1>6. CASE p \in s.changed /\ IsFile(s.recorded[p])
  <2>1. value = s.recorded[p] /\ value \in Entry
    BY <1>1, <1>6 DEF LookupIndex, IsFile
  <2> QED BY <1>1, <1>3, <1>4, <1>5, <1>6, <2>1 DEF Right, IsFile
<1>7. CASE ~(p \in s.changed /\ IsFile(s.recorded[p]))
  <2>1. value = "deleted" /\ p \in s.whiteouts
    BY <1>7 DEF LookupIndex
  <2>2. ~read.restore
    BY <1>1, <1>3, <1>4, <1>5, <1>7 DEF IsFile
  <2>3. Recorded # Absent => Retyped
    BY <1>1, <1>3, <1>5, <1>7, <2>1 DEF Retyped
  <2> QED BY <1>1, <1>2, <2>1, <2>2, <2>3 DEF Right
<1> QED BY <1>6, <1>7

(* And so is what the layer says. *)
LEMMA LayerRight ==
    ASSUME IInv, read.pc = "layer", NEW value,
           value = readFileFromLayer(chain[read.level], read.path), value # "none"
    PROVE  Right(value) /\ value \in {"deleted", "not a file"} \cup Entry
<1> DEFINE s == chain[read.level]
           p == read.path
<1>1. /\ p # NoPath /\ p \in Path /\ Link(TreeAt(read.level - 1), s)
      /\ TreeAt(read.level) = s.recorded
      /\ s.recorded[p] \in Entry \cup {Absent}
      /\ Recorded \in Entry \cup {Absent} /\ Absent \notin Entry
  BY ReadFacts, TreeConstants DEF IInv, ReadInv, StepInv
<1>2. "deleted" \notin Entry /\ "not a file" \notin Entry
  BY LazyReadConstants DEF Outcome
<1>3. /\ Recorded # Absent => s.recorded[p] = Recorded
      /\ Recorded = Absent /\ s.recorded[p] # Absent => DeletedAbove
  BY <1>1 DEF IInv, ReadInv, LevelInv
<1>4. ~read.restore
  BY DEF IInv, Results, RestoresFromIndexes
<1>5. /\ p \in s.changed => s.recorded[p] # Absent
      /\ p \in s.whiteouts /\ s.recorded[p] # Absent => p \in s.changed
  BY <1>1 DEF Link
<1>6. read.level \notin indexRefs \/ ~(p \in s.changed /\ IsFile(s.recorded[p]))
  <2>1. ASSUME p \in s.changed /\ IsFile(s.recorded[p])
        PROVE  LookupIndex(s, p) # "none"
    <3>1. s.recorded[p] \in Entry /\ "none" \notin Entry
      BY <1>1, <2>1, LazyReadConstants DEF IsFile, Outcome
    <3> QED BY <2>1, <3>1 DEF LookupIndex
  <2> QED BY <2>1 DEF IInv, ReadInv, StepInv
<1>7. CASE p \in s.whiteouts
  <2>1. value = "deleted"
    BY <1>7 DEF readFileFromLayer
  <2>2. Recorded # Absent => Retyped
    BY <1>3, <1>5, <1>6, <1>7 DEF Retyped
  <2> QED BY <1>2, <1>4, <2>1, <2>2 DEF Right
<1>8. CASE p \notin s.whiteouts
  <2>1. p \in s.changed
    BY <1>8 DEF readFileFromLayer
  <2>2. s.recorded[p] \in Entry
    BY <1>1, <1>5, <2>1
  <2>3. CASE TypeOf[s.recorded[p]] = "dir"
    <3>1. value = "not a file"
      BY <1>8, <2>1, <2>3 DEF readFileFromLayer
    <3> QED BY <1>2, <1>3, <1>4, <2>3, <3>1 DEF Right
  <2>4. CASE TypeOf[s.recorded[p]] # "dir"
    <3>1. value = s.recorded[p]
      BY <1>8, <2>1, <2>4 DEF readFileFromLayer
    <3> QED BY <1>1, <1>3, <1>4, <2>2, <3>1 DEF Right
  <2> QED BY <2>3, <2>4
<1> QED BY <1>7, <1>8

-----------------------------------------------------------------------------
(* One lemma for each kind of step, the store's first. *)
LEMMA SnapshotStep ==
    ASSUME IInv, NEW current \in Scans, NEW encrypted \in BOOLEAN,
           Snapshot(current, encrypted)
    PROVE  IInv'
<1> DEFINE n == Len(chain)
           s == [recorded  |-> redactedSnapshotTree(current),
                 changed   |-> ChangedEntries(TreeAt(n), current),
                 whiteouts |-> diffWhiteouts(TreeAt(n), current),
                 encrypted |-> encrypted]
           S == [recorded : Tree, changed : SUBSET Path,
                 whiteouts : SUBSET Path, encrypted : BOOLEAN]
<1>1. /\ read.pc = "idle" /\ ~pulled /\ n < MaxChain
      /\ chain' = Append(chain, s)
      /\ UNCHANGED <<pulled, sources, read, deaths>>
      /\ \/ /\ records' = [records EXCEPT ![n + 1] = "whole"]
            /\ indexRefs' = indexRefs \cup {n + 1}
         \/ UNCHANGED <<records, indexRefs>>
  BY DEF Snapshot
<1>2. n \in Nat /\ TreeAt(n) \in Tree /\ Redacted(TreeAt(n)) /\ MaxChain \in Nat
  BY TreesOfChain, LazyReadConstants DEF IInv
<1>3. current \in Tree
  BY LazyReadConstants
<1>4. s \in S /\ Link(TreeAt(n), s)
  BY <1>2, <1>3, SnapshotLinks
<1>5. chain \in Seq(S)
  BY DEF IInv, TypeOK
<1> HIDE DEF s, S
<1>6. /\ chain' \in Seq(S) /\ Len(chain') = n + 1 /\ chain'[n + 1] = s
      /\ \A i \in 1..n : chain'[i] = chain[i]
  BY <1>1, <1>4, <1>5
<1> HIDE DEF n
<1>7. Snapshots' = 1..(n + 1) /\ Snapshots = 1..n /\ Len(chain') <= MaxChain
  BY <1>1, <1>2, <1>6 DEF Snapshots, n
<1>8. TypeOK'
  <2>1. /\ indexRefs \subseteq 1..n /\ sources \subseteq indexRefs
        /\ records \in [1..MaxChain -> {"none", "torn", "whole"}]
        /\ \A i \in 1..MaxChain : records[i] # "none" => i \in indexRefs
    BY <1>7 DEF IInv, TypeOK
  <2>2. n + 1 \in 1..MaxChain /\ 1..n \subseteq 1..(n + 1) /\ n + 1 \in 1..(n + 1)
    BY <1>1, <1>2
  <2>3. /\ indexRefs' \subseteq Snapshots' /\ sources' \subseteq indexRefs'
        /\ records' \in [1..MaxChain -> {"none", "torn", "whole"}]
        /\ \A i \in 1..MaxChain : records'[i] # "none" => i \in indexRefs'
    BY <1>1, <1>7, <2>1, <2>2
  <2> QED BY <1>1, <1>6, <1>7, <2>3 DEF IInv, TypeOK, S
<1>9. ASSUME NEW i \in 1..(n + 1)
      PROVE  Link(IF i - 1 = 0 THEN Empty ELSE chain'[i - 1].recorded, chain'[i])
  <2>1. (IF i - 1 = 0 THEN Empty ELSE chain'[i - 1].recorded) = TreeAt(i - 1)
    BY <1>2, <1>6 DEF TreeAt
  <2>2. CASE i = n + 1
    BY <1>2, <1>4, <1>6, <2>1, <2>2
  <2>3. CASE i # n + 1
    <3>1. i \in 1..n
      BY <1>2, <2>3
    <3> QED BY <1>6, <1>7, <2>1, <3>1 DEF IInv, ChainInv
  <2> QED BY <2>2, <2>3
<1>10. ChainInv'
  BY <1>7, <1>9 DEF ChainInv, TreeAt
<1>11. StoreInv'
  <2>1. /\ records \in [1..MaxChain -> {"none", "torn", "whole"}]
        /\ indexRefs \subseteq 1..n /\ n + 1 \in 1..MaxChain
        /\ \A i \in indexRefs : records[i] # "none" /\ i \in 1..MaxChain
        /\ sources = {}
    BY <1>1, <1>2, <1>7 DEF IInv, TypeOK, StoreInv
  <2>2. \A i \in indexRefs' : records'[i] # "none"
    BY <1>1, <2>1
  <2> QED BY <1>1, <2>1, <2>2 DEF StoreInv, RecordsHaveSources
<1>12. ReadInv'
  BY <1>1 DEF ReadInv, StepInv, LevelInv, RestoreInv
<1>13. Results'
  BY <1>1 DEF IInv, Results, ReadsRecorded, DeletedUnread, RestoresFromIndexes, Returned
<1> QED BY <1>8, <1>10, <1>11, <1>12, <1>13 DEF IInv

LEMMA PullLazyStep ==
    ASSUME IInv, NEW found \in BOOLEAN, PullLazy(found)
    PROVE  IInv'
<1>1. /\ read.pc = "idle" /\ ~pulled /\ pulled' = TRUE
      /\ indexRefs' \in {indexRefs, {}}
      /\ records' = [i \in 1..MaxChain |-> "none"]
      /\ UNCHANGED <<chain, sources, read, deaths>>
  BY DEF PullLazy
<1>2. sources = {}
  BY <1>1 DEF IInv, StoreInv
<1>3. TypeOK'
  BY <1>1, <1>2 DEF IInv, TypeOK, Snapshots
<1>4. ChainInv'
  BY <1>1 DEF IInv, ChainInv, Snapshots, TreeAt
<1>5. StoreInv'
  BY <1>1 DEF StoreInv, RecordsHaveSources
<1>6. ReadInv'
  BY <1>1 DEF ReadInv, StepInv, LevelInv, RestoreInv
<1>7. Results'
  BY <1>1 DEF IInv, Results, ReadsRecorded, DeletedUnread, RestoresFromIndexes, Returned
<1> QED BY <1>3, <1>4, <1>5, <1>6, <1>7 DEF IInv

LEMMA ReadStep ==
    ASSUME IInv, NEW n \in Snapshots, NEW p \in Path, Read(n, p)
    PROVE  IInv'
<1>1. /\ UNCHANGED <<store, records, sources, deaths>>
      /\ read' = [Idle EXCEPT !.pc = "index", !.top = n, !.level = n, !.path = p]
  BY DEF Read
<1>2. /\ read' = [pc |-> "index", restore |-> FALSE, top |-> n, level |-> n,
                  path |-> p, value |-> "none"]
      /\ UNCHANGED <<chain, indexRefs>>
  BY <1>1 DEF Idle, store
<1>3. n \in 1..MaxChain /\ n \in 1..n /\ n # 0 /\ n \in 0..MaxChain
  BY ChainTypes, LazyReadConstants DEF IInv, Snapshots
<1>4. p # NoPath /\ "none" \in Outcome
  BY LazyReadConstants DEF Outcome
<1>5. ReadType'
  BY <1>2, <1>3, <1>4 DEF ReadType, Snapshots
<1>6. StepInv' /\ LevelInv' /\ RestoreInv'
  BY <1>2, <1>3, <1>4 DEF StepInv, LevelInv, RestoreInv, Recorded, TreeAt
<1>7. Results'
  BY <1>2 DEF Results, ReadsRecorded, DeletedUnread, RestoresFromIndexes, Returned
<1> QED BY <1>1, <1>5, <1>6, <1>7, ReadOnly DEF ReadInv

LEMMA RestoreStep ==
    ASSUME IInv, NEW n \in Snapshots, Restore(n)
    PROVE  IInv'
<1>1. /\ UNCHANGED <<store, records, sources, deaths>>
      /\ read' = [Idle EXCEPT !.pc = "index", !.restore = TRUE, !.top = n, !.level = 1]
  BY DEF Restore
<1>2. /\ read' = [pc |-> "index", restore |-> TRUE, top |-> n, level |-> 1,
                  path |-> NoPath, value |-> "none"]
      /\ UNCHANGED <<chain, indexRefs>>
  BY <1>1 DEF Idle, store
<1>3. n \in 0..MaxChain /\ 1 \in 1..n /\ 1 \in 0..MaxChain
  BY ChainTypes, LazyReadConstants DEF IInv, Snapshots
<1>4. "none" \in Outcome
  BY DEF Outcome
<1>5. ReadType'
  BY <1>2, <1>3, <1>4 DEF ReadType, Snapshots
<1>6. StepInv' /\ LevelInv'
  BY <1>2 DEF StepInv, LevelInv
<1>7. RestoreInv'
  <2>1. \A i \in 1..n : ~(i < 1)
    BY <1>3
  <2> QED BY <1>2, <2>1 DEF RestoreInv
<1>8. Results'
  BY <1>2 DEF Results, ReadsRecorded, DeletedUnread, RestoresFromIndexes, Returned
<1> QED BY <1>1, <1>5, <1>6, <1>7, <1>8, ReadOnly DEF ReadInv

LEMMA NoIndexStep ==
    ASSUME IInv, NoIndex
    PROVE  IInv'
<1>1. /\ read.pc = "index" /\ read.level \notin indexRefs
      /\ UNCHANGED <<store, records, sources, deaths>>
      /\ UNCHANGED <<chain, indexRefs>>
  BY DEF NoIndex, store
<1>2. CASE read.path = NoPath
  <2>1. Done("extract") /\ "extract" \in Outcome \cup Entry /\ Right("extract")
    BY <1>2 DEF NoIndex, Outcome, Right
  <2> QED BY <1>1, <2>1, DoneKeeps, ReadOnly
<1>3. CASE read.path # NoPath
  <2>1. Goto("layer")
    BY <1>3 DEF NoIndex
  <2>2. ~read.restore
    BY <1>1, <1>3, ReadFacts DEF IInv, ReadInv, RestoreInv
  <2>3. ReadType' /\ LevelInv' /\ RestoreInv' /\ Results'
    BY <1>1, <2>1, <2>2, GotoKeeps
  <2>4. read'.pc = "layer" /\ read'.level = read.level /\ read'.path = read.path
    BY <2>1 DEF Goto, IInv, TypeOK
  <2>5. StepInv'
    BY <1>1, <1>3, <2>4 DEF StepInv
  <2> QED BY <1>1, <2>3, <2>5, ReadOnly DEF ReadInv
<1> QED BY <1>2, <1>3

(* With the record at hand.  A restore that has asked for every index      *)
(* reads a file from the snapshot where it came into the tree.             *)
LEMMA IndexedKeeps ==
    ASSUME IInv, read.pc \in {"index", "record"}, read.level \in indexRefs,
           UNCHANGED <<chain, indexRefs>>, Indexed
    PROVE  ReadType' /\ ReadInv' /\ Results'
<1>1. /\ read.top \in Snapshots /\ read.level \in 1..read.top /\ read.top \in Nat
      /\ read.top \in 1..MaxChain /\ MaxChain \in Nat
  BY ReadFacts, ChainTypes, LazyReadConstants DEF IInv, Snapshots
<1>2. CASE read.path # NoPath
  <2>1. Goto("lookup")
    BY <1>2 DEF Indexed
  <2>2. ReadType' /\ LevelInv' /\ RestoreInv' /\ Results'
    BY <2>1, GotoKeeps
  <2>3. read'.pc = "lookup" /\ read'.level = read.level /\ read'.path = read.path
    BY <2>1 DEF Goto, IInv, TypeOK
  <2>4. StepInv'
    BY <1>2, <2>3 DEF StepInv
  <2> QED BY <2>2, <2>4 DEF ReadInv
<1>3. ASSUME read.path = NoPath
      PROVE  /\ read.restore
             /\ \A i \in 1..read.top : i <= read.level => i \in indexRefs
  BY <1>1, <1>3 DEF IInv, ReadInv, StepInv, RestoreInv
<1>4. CASE read.path = NoPath /\ read.level < read.top
  <2>1. read' = [read EXCEPT !.pc = "index", !.level = @ + 1]
    BY <1>4 DEF Indexed
  <2>2. /\ read'.pc = "index" /\ read'.restore = read.restore /\ read'.top = read.top
        /\ read'.level = read.level + 1 /\ read'.path = NoPath
    BY <1>4, <2>1 DEF IInv, TypeOK
  <2>3. read.level + 1 \in 1..read.top /\ read.level + 1 \in 0..MaxChain
    BY <1>1, <1>4
  <2>4. ReadType'
    BY <1>1, <2>1, <2>2, <2>3 DEF IInv, TypeOK, ReadType, Snapshots
  <2>5. StepInv' /\ LevelInv'
    BY <1>3, <1>4, <2>2 DEF StepInv, LevelInv
  <2>6. RestoreInv'
    <3>1. \A i \in 1..read.top : i < read.level + 1 => i <= read.level
      BY <1>1
    <3> QED BY <1>3, <1>4, <2>2, <3>1 DEF RestoreInv
  <2>7. Results'
    BY <2>2 DEF Results, ReadsRecorded, DeletedUnread, RestoresFromIndexes, Returned
  <2> QED BY <2>4, <2>5, <2>6, <2>7 DEF ReadInv
<1>5. CASE read.path = NoPath /\ ~(read.level < read.top) /\ RecordedFiles(read.top) = {}
  BY <1>5, IdleOK DEF Indexed
<1>6. CASE read.path = NoPath /\ ~(read.level < read.top) /\ RecordedFiles(read.top) # {}
  <2>1. PICK p \in RecordedFiles(read.top) :
          read' = [read EXCEPT !.pc = "index", !.path = p,
                               !.level = restoreSourceDigestForEntry(read.top, p)]
    BY <1>6 DEF Indexed
  <2> DEFINE l == restoreSourceDigestForEntry(read.top, p)
  <2>2. /\ read'.pc = "index" /\ read'.restore = read.restore /\ read'.top = read.top
        /\ read'.level = l /\ read'.path = p
    BY <2>1 DEF IInv, TypeOK
  <2>3. /\ p \in Path /\ p # NoPath
        /\ IsFile(chain[read.top].recorded[p])
        /\ TreeAt(read.top) = chain[read.top].recorded
    BY <1>1, TreesOfChain, LazyReadConstants DEF RecordedFiles, IInv
  <2>4. /\ l \in 1..read.top
        /\ TreeAt(l)[p] = TreeAt(read.top)[p] /\ TreeAt(l - 1)[p] # TreeAt(read.top)[p]
    BY <1>1, <2>3, SourceExists DEF IInv, IsFile
  <2> HIDE DEF l
  <2>5. l \in 0..MaxChain
    BY <1>1, <2>4
  <2>6. ReadType'
    BY <1>1, <2>1, <2>2, <2>3, <2>4, <2>5 DEF IInv, TypeOK, ReadType, Snapshots, l
  <2>7. StepInv'
    BY <2>2, <2>3 DEF StepInv
  <2>8. LevelInv'
    BY <2>2, <2>3, <2>4 DEF LevelInv, Recorded, TreeAt, IsFile
  <2>9. RestoreInv'
    <3>1. \A i \in 1..read.top : i <= read.level
      BY <1>1, <1>6
    <3>2. \A i \in 1..read.top : i \in indexRefs
      BY <1>3, <1>6, <3>1
    <3> QED BY <2>2, <2>3, <2>4, <3>2 DEF RestoreInv, Recorded, TreeAt, IsFile
  <2>10. Results'
    BY <2>2 DEF Results, ReadsRecorded, DeletedUnread, RestoresFromIndexes, Returned
  <2> QED BY <2>6, <2>7, <2>8, <2>9, <2>10 DEF ReadInv
<1> QED BY <1>2, <1>4, <1>5, <1>6

LEMMA UseRecordStep ==
    ASSUME IInv, UseRecord
    PROVE  IInv'
<1>1. /\ read.pc = "index" /\ records[read.level] # "none"
      /\ UNCHANGED <<store, records, sources, deaths>>
      /\ UNCHANGED <<chain, indexRefs>>
  BY DEF UseRecord, store
<1>2. read.level \in indexRefs
  BY <1>1, ReadFacts DEF IInv, TypeOK
<1>3. CASE Done("unavailable")
  <2>1. "unavailable" \in Outcome \cup Entry
    BY DEF Outcome
  <2> QED BY <1>1, <1>3, <2>1, UnavailableRight, DoneKeeps, ReadOnly
<1>4. CASE Indexed
  BY <1>1, <1>2, <1>4, IndexedKeeps, ReadOnly
<1> QED BY <1>3, <1>4 DEF UseRecord

LEMMA BuildRecordStep ==
    ASSUME IInv, BuildRecord
    PROVE  IInv'
<1>1. /\ read.pc = "index" /\ read.level \in indexRefs /\ records[read.level] = "none"
      /\ UNCHANGED <<store, records, sources, deaths>>
      /\ UNCHANGED <<chain, pulled, indexRefs>>
      /\ Goto("sources")
  BY DEF BuildRecord, store
<1>2. pulled
  BY <1>1 DEF IInv, StoreInv
<1>3. ReadType' /\ LevelInv' /\ RestoreInv' /\ Results'
  BY <1>1, GotoKeeps
<1>4. /\ read'.pc = "sources" /\ read'.level = read.level /\ read'.path = read.path
      /\ read'.restore = read.restore
  BY <1>1 DEF Goto, IInv, TypeOK
<1>5. StepInv'
  BY <1>1, <1>2, <1>4 DEF IInv, ReadInv, StepInv
<1> QED BY <1>1, <1>3, <1>5, ReadOnly DEF ReadInv

LEMMA LookupFileStep ==
    ASSUME IInv, LookupFile
    PROVE  IInv'
<1> DEFINE value == LookupIndex(chain[read.level], read.path)
<1>1. /\ read.pc = "lookup"
      /\ UNCHANGED <<store, records, sources, deaths>>
      /\ UNCHANGED <<chain, indexRefs>>
  BY DEF LookupFile, store
<1>2. CASE value = "none"
  <2>1. Goto("layer")
    BY <1>2 DEF LookupFile
  <2>2. ~read.restore
    <3>1. /\ read.path # NoPath /\ read.path \in Path
          /\ Link(TreeAt(read.level - 1), chain[read.level])
          /\ TreeAt(read.level) = chain[read.level].recorded
          /\ chain[read.level].recorded[read.path] \in Entry \cup {Absent}
      BY <1>1, ReadFacts DEF IInv, ReadInv, StepInv
    <3>2. read.restore => /\ IsFile(Recorded) /\ Recorded # Absent
                          /\ TreeAt(read.level - 1)[read.path] # Recorded
                          /\ chain[read.level].recorded[read.path] = Recorded
      BY <1>1, <3>1 DEF IInv, ReadInv, RestoreInv, LevelInv, IsFile
    <3>3. read.restore => read.path \in chain[read.level].changed
      BY <3>1, <3>2 DEF Link
    <3>4. read.restore => value = Recorded /\ Recorded \in Entry
      BY <3>1, <3>2, <3>3 DEF LookupIndex
    <3>5. "none" \notin Entry
      BY LazyReadConstants DEF Outcome
    <3> QED BY <1>2, <3>4, <3>5
  <2>3. ReadType' /\ LevelInv' /\ RestoreInv' /\ Results'
    BY <1>1, <2>1, <2>2, GotoKeeps
  <2>4. /\ read'.pc = "layer" /\ read'.level = read.level /\ read'.path = read.path
    BY <2>1 DEF Goto, IInv, TypeOK
  <2>5. StepInv'
    BY <1>1, <1>2, <2>4 DEF IInv, ReadInv, StepInv, LookupIndex, IsFile
  <2> QED BY <1>1, <2>3, <2>5, ReadOnly DEF ReadInv
<1>3. CASE value # "none"
  <2>1. Right(value) /\ value \in {"deleted"} \cup Entry
    BY <1>1, <1>3, LookupRight
  <2>2. "unavailable" \in Outcome /\ "deleted" \in Outcome
    BY DEF Outcome
  <2>3. Done(value) \/ Done("unavailable")
    BY <1>3 DEF LookupFile
  <2> HIDE DEF value
  <2>4. CASE Done(value)
    BY <1>1, <2>1, <2>2, <2>4, DoneKeeps, ReadOnly
  <2>5. CASE Done("unavailable")
    BY <1>1, <2>2, <2>5, UnavailableRight, DoneKeeps, ReadOnly
  <2> QED BY <2>3, <2>4, <2>5
<1> QED BY <1>2, <1>3

LEMMA ReadLayerStep ==
    ASSUME IInv, ReadLayer
    PROVE  IInv'
<1> DEFINE value == readFileFromLayer(chain[read.level], read.path)
           s == chain[read.level]
           p == read.path
<1>1. /\ read.pc = "layer"
      /\ UNCHANGED <<store, records, sources, deaths>>
      /\ UNCHANGED <<chain, indexRefs>>
  BY DEF ReadLayer, store
<1>2. CASE value # "none"
  <2>1. Right(value) /\ value \in {"deleted", "not a file"} \cup Entry
    BY <1>1, <1>2, LayerRight
  <2>2. "not a file" \in Outcome /\ "deleted" \in Outcome
    BY DEF Outcome
  <2>3. Done(value)
    BY <1>2 DEF ReadLayer
  <2> HIDE DEF value
  <2> QED BY <1>1, <2>1, <2>2, <2>3, DoneKeeps, ReadOnly
<1>3. ASSUME value = "none"
      PROVE  /\ ~read.restore
             /\ Recorded # Absent => TreeAt(read.level - 1)[p] = Recorded
             /\ Recorded = Absent /\ TreeAt(read.level - 1)[p] # Absent => DeletedAbove
  <2>1. /\ p # NoPath /\ p \in Path /\ Link(TreeAt(read.level - 1), s)
        /\ TreeAt(read.level) = s.recorded /\ read.level \in 1..read.top
        /\ s.recorded[p] \in Entry \cup {Absent}
    BY <1>1, ReadFacts DEF IInv, ReadInv, StepInv
  <2>2. p \notin s.whiteouts /\ p \notin s.changed
    <3>1. s.recorded[p] # Absent => s.recorded[p] # "none"
      BY <2>1, LazyReadConstants DEF Outcome
    <3>2. p \in s.changed => s.recorded[p] # Absent
      BY <2>1 DEF Link
    <3> QED BY <1>3, <3>1, <3>2 DEF readFileFromLayer
  <2>3. /\ s.recorded[p] # Absent => TreeAt(read.level - 1)[p] = s.recorded[p]
        /\ TreeAt(read.level - 1)[p] # Absent /\ s.recorded[p] = Absent =>
              \E w \in s.whiteouts : Within(p, w)
    BY <2>1, <2>2 DEF Link
  <2>4. TreeAt(read.level - 1)[p] # Absent /\ s.recorded[p] = Absent => DeletedAbove
    BY <2>1, <2>2, <2>3 DEF Within, DeletedAbove
  <2>5. /\ Recorded # Absent => s.recorded[p] = Recorded
        /\ Recorded = Absent /\ s.recorded[p] # Absent => DeletedAbove
    BY <1>1, <2>1 DEF IInv, ReadInv, LevelInv
  <2>6. ~read.restore
    BY <1>1 DEF IInv, Results, RestoresFromIndexes
  <2> QED BY <2>3, <2>4, <2>5, <2>6
<1>4. CASE value = "none" /\ read.level = 1
  <2>1. Done("not found") /\ "not found" \in Outcome \cup Entry /\ "not found" \notin Entry
    BY <1>4, LazyReadConstants DEF ReadLayer, Outcome
  <2>2. TreeAt(read.level - 1) = Empty
    BY <1>4 DEF TreeAt
  <2>3. p # NoPath => Recorded = Absent
    BY <1>1, <1>3, <1>4, <2>2, ReadFacts DEF Empty
  <2>4. Right("not found")
    BY <1>3, <1>4, <2>1, <2>3 DEF Right
  <2> QED BY <1>1, <2>1, <2>4, DoneKeeps, ReadOnly
<1>5. CASE value = "none" /\ read.level # 1
  <2>1. read' = [read EXCEPT !.pc = "index", !.level = @ - 1]
    BY <1>5 DEF ReadLayer
  <2>2. /\ read'.pc = "index" /\ read'.restore = read.restore /\ read'.top = read.top
        /\ read'.level = read.level - 1 /\ read'.path = read.path
    BY <2>1 DEF IInv, TypeOK
  <2>3. /\ read.top \in Snapshots /\ read.top \in Nat /\ read.level \in 1..read.top
        /\ read.level \in 1..MaxChain /\ MaxChain \in Nat
    BY <1>1, ReadFacts, ChainTypes, LazyReadConstants DEF IInv, Snapshots
  <2>4. read.level - 1 \in 1..read.top /\ read.level - 1 \in 0..MaxChain
    BY <1>5, <2>3
  <2>5. ReadType'
    BY <1>1, <2>1, <2>2, <2>3, <2>4 DEF IInv, TypeOK, ReadType, Snapshots
  <2>6. StepInv'
    BY <1>1, <2>2 DEF IInv, ReadInv, StepInv
  <2>7. LevelInv'
    <3>1. TreeAt(read.level - 1) = (TreeAt(read.level))'
      BY <1>1, <2>2 DEF TreeAt
    <3>2. Recorded' = Recorded /\ DeletedAbove' = DeletedAbove
      BY <1>1, <2>2 DEF Recorded, DeletedAbove
    <3> QED BY <1>3, <1>5, <2>2, <3>1, <3>2 DEF LevelInv
  <2>8. RestoreInv'
    BY <1>3, <1>5, <2>2 DEF RestoreInv
  <2>9. Results'
    BY <2>2 DEF Results, ReadsRecorded, DeletedUnread, RestoresFromIndexes, Returned
  <2> QED BY <1>1, <2>5, <2>6, <2>7, <2>8, <2>9, ReadOnly DEF ReadInv
<1> QED BY <1>2, <1>4, <1>5

LEMMA FetchFailsStep ==
    ASSUME IInv, FetchFails
    PROVE  IInv'
<1>1. /\ read.pc # "idle" /\ Done("unavailable")
      /\ UNCHANGED <<store, records, sources, deaths>>
      /\ UNCHANGED <<chain, indexRefs>>
  BY DEF FetchFails, store
<1>2. "unavailable" \in Outcome \cup Entry
  BY DEF Outcome
<1> QED BY <1>1, <1>2, UnavailableRight, DoneKeeps, ReadOnly

LEMMA WriteSourcesStep ==
    ASSUME IInv, WriteSources
    PROVE  IInv'
<1>1. /\ read.pc = "sources" /\ sources' = sources \cup {read.level}
      /\ UNCHANGED <<chain, pulled, indexRefs, records, deaths>>
      /\ Goto("record")
  BY DEF WriteSources, store
<1>2. read.level \in indexRefs /\ pulled
  BY <1>1 DEF IInv, ReadInv, StepInv
<1>3. ReadType' /\ LevelInv' /\ RestoreInv' /\ Results'
  BY <1>1, GotoKeeps
<1>4. /\ read'.pc = "record" /\ read'.level = read.level /\ read'.path = read.path
      /\ read'.restore = read.restore
  BY <1>1 DEF Goto, IInv, TypeOK
<1>5. StepInv'
  BY <1>1, <1>2, <1>4 DEF IInv, ReadInv, StepInv
<1>6. TypeOK'
  BY <1>1, <1>2, <1>3 DEF IInv, TypeOK, ReadType, Snapshots
<1>7. ChainInv'
  BY <1>1 DEF IInv, ChainInv, Snapshots, TreeAt
<1>8. StoreInv'
  BY <1>1, <1>2 DEF IInv, StoreInv, RecordsHaveSources
<1> QED BY <1>3, <1>5, <1>6, <1>7, <1>8 DEF IInv, ReadInv

(* A record is written, or cut off, where its sources are. *)
LEMMA RecordKeeps ==
    ASSUME IInv, read.pc = "record", UNCHANGED <<store, sources>>,
           NEW r \in {"torn", "whole"}, records' = [records EXCEPT ![read.level] = r],
           deaths' \in 0..MaxDeaths, ReadType', ReadInv', Results'
    PROVE  IInv'
<1>1. UNCHANGED <<chain, pulled, indexRefs>>
  BY DEF store
<1>2. /\ read.level \in indexRefs /\ read.level \in sources /\ pulled
      /\ read.level \in 1..MaxChain
  BY ReadFacts DEF IInv, ReadInv, StepInv
<1>3. records \in [1..MaxChain -> {"none", "torn", "whole"}]
  BY DEF IInv, TypeOK
<1>4. /\ records' \in [1..MaxChain -> {"none", "torn", "whole"}]
      /\ \A i \in 1..MaxChain : i # read.level => records'[i] = records[i]
  BY <1>3
<1>5. \A i \in 1..MaxChain : records'[i] # "none" => i \in indexRefs
  BY <1>2, <1>4 DEF IInv, TypeOK
<1>6. TypeOK'
  BY <1>1, <1>4, <1>5 DEF IInv, TypeOK, ReadType, Snapshots
<1>7. ChainInv'
  BY <1>1 DEF IInv, ChainInv, Snapshots, TreeAt
<1>8. StoreInv'
  BY <1>1, <1>2, <1>4 DEF IInv, StoreInv, RecordsHaveSources
<1> QED BY <1>6, <1>7, <1>8 DEF IInv

LEMMA WriteRecordStep ==
    ASSUME IInv, WriteRecord
    PROVE  IInv'
<1>1. /\ read.pc = "record" /\ Indexed
      /\ records' = [records EXCEPT ![read.level] = "whole"]
      /\ UNCHANGED <<store, sources, deaths>> /\ UNCHANGED <<chain, indexRefs>>
  BY DEF WriteRecord, store
<1>2. read.level \in indexRefs /\ deaths \in 0..MaxDeaths
  BY <1>1 DEF IInv, ReadInv, StepInv, TypeOK
<1>3. ReadType' /\ ReadInv' /\ Results'
  BY <1>1, <1>2, IndexedKeeps
<1> QED BY <1>1, <1>2, <1>3, RecordKeeps

LEMMA DieStep ==
    ASSUME IInv, Die
    PROVE  IInv'
<1>1. /\ read' = Idle /\ deaths' = deaths + 1 /\ deaths < MaxDeaths
      /\ UNCHANGED <<store, sources>> /\ UNCHANGED <<chain, pulled, indexRefs>>
  BY DEF Die, store
<1>2. deaths' \in 0..MaxDeaths
  BY <1>1, LazyReadConstants DEF IInv, TypeOK
<1>3. ReadType' /\ ReadInv' /\ Results'
  BY <1>1, IdleOK
<1>4. CASE UNCHANGED records
  <2>1. TypeOK'
    BY <1>1, <1>2, <1>3, <1>4 DEF IInv, TypeOK, ReadType, Snapshots
  <2>2. ChainInv'
    BY <1>1 DEF IInv, ChainInv, Snapshots, TreeAt
  <2>3. StoreInv'
    BY <1>1, <1>4 DEF IInv, StoreInv, RecordsHaveSources
  <2> QED BY <1>3, <2>1, <2>2, <2>3 DEF IInv
<1>5. CASE read.pc = "record" /\ records' = [records EXCEPT ![read.level] = "torn"]
  BY <1>1, <1>2, <1>3, <1>5, RecordKeeps
<1> QED BY <1>4, <1>5 DEF Die

-----------------------------------------------------------------------------
LEMMA InitInv == Init => IInv
<1> SUFFICES ASSUME Init
             PROVE  IInv
  OBVIOUS
<1>1. /\ chain = <<>> /\ pulled = FALSE /\ indexRefs = {} /\ sources = {}
      /\ records = [i \in 1..MaxChain |-> "none"] /\ read = Idle /\ deaths = 0
  BY DEF Init
<1>2. 0 \in 0..MaxChain /\ 0 \in 0..MaxDeaths /\ MaxChain \in Nat
  BY LazyReadConstants
<1>3. Len(chain) = 0 /\ Snapshots = {}
  BY <1>1 DEF Snapshots
<1>4. TypeOK
  <2>1. "none" \in Outcome
    BY DEF Outcome
  <2>2. chain \in Seq([recorded : Tree, changed : SUBSET Path,
                       whiteouts : SUBSET Path, encrypted : BOOLEAN])
    BY <1>1
  <2>3. read \in [pc : {"idle", "index", "sources", "record", "lookup", "layer", "done"},
                  restore : BOOLEAN, top : 0..MaxChain, level : 0..MaxChain,
                  path : Path \cup {NoPath}, value : Outcome \cup Entry]
    BY <1>1, <1>2, <2>1 DEF Idle
  <2>4. read.pc = "idle"
    BY <1>1 DEF Idle
  <2>5. /\ records \in [1..MaxChain -> {"none", "torn", "whole"}]
        /\ \A i \in 1..MaxChain : records[i] = "none"
    BY <1>1
  <2>6. Len(chain) <= MaxChain
    BY <1>2, <1>3
  <2>7. /\ indexRefs \subseteq Snapshots /\ sources \subseteq indexRefs
        /\ pulled \in BOOLEAN /\ deaths \in 0..MaxDeaths
    BY <1>1, <1>2
  <2> QED BY <2>2, <2>3, <2>4, <2>5, <2>6, <2>7 DEF TypeOK
<1>5. ChainInv /\ StoreInv
  BY <1>1, <1>3 DEF ChainInv, StoreInv, RecordsHaveSources
<1>6. read.pc = "idle" /\ read.restore = FALSE
  BY <1>1 DEF Idle
<1>7. ReadInv
  BY <1>6 DEF ReadInv, StepInv, LevelInv, RestoreInv
<1>8. Results
  BY <1>6 DEF Results, ReadsRecorded, DeletedUnread, RestoresFromIndexes, Returned
<1> QED BY <1>4, <1>5, <1>7, <1>8 DEF IInv

LEMMA StepKeepsInv == IInv /\ [Next]_vars => IInv'
<1> SUFFICES ASSUME IInv, [Next]_vars
             PROVE  IInv'
  OBVIOUS
<1>1. CASE Next
  <2>1. CASE \E current \in Scans, encrypted \in BOOLEAN : Snapshot(current, encrypted)
    BY <2>1, SnapshotStep
  <2>2. CASE \E found \in BOOLEAN : PullLazy(found)
    BY <2>2, PullLazyStep
  <2>3. CASE \E n \in Snapshots : Restore(n) \/ \E p \in Path : Read(n, p)
    BY <2>3, RestoreStep, ReadStep
  <2>4. CASE Return
    <3>1. read' = Idle /\ UNCHANGED <<store, records, sources, deaths>>
      BY <2>4 DEF Return
    <3> QED BY <3>1, IdleOK, ReadOnly
  <2> QED BY <1>1, <2>1, <2>2, <2>3, <2>4, NoIndexStep, UseRecordStep, BuildRecordStep,
             WriteSourcesStep, WriteRecordStep, DieStep, LookupFileStep, ReadLayerStep,
             FetchFailsStep
          DEF Next
<1>2. CASE UNCHANGED vars
  <2>1. UNCHANGED <<chain, pulled, indexRefs, records, sources, read, deaths>>
    BY <1>2 DEF vars, store
  <2>2. UNCHANGED <<store, records, sources, deaths>>
    BY <2>1 DEF store
  <2>3. ReadType'
    BY <2>1 DEF IInv, TypeOK, ReadType, Snapshots
  <2>4. ReadInv'
    BY <2>1 DEF IInv, ReadInv, StepInv, LevelInv, RestoreInv, Recorded, DeletedAbove,
                TreeAt, IsFile, LookupIndex
  <2>5. Results'
    BY <2>1 DEF IInv, Results, ReadsRecorded, DeletedUnread, RestoresFromIndexes,
                Returned, Recorded, Retyped, IsFile
  <2> QED BY <2>2, <2>3, <2>4, <2>5, ReadOnly
<1> QED BY <1>1, <1>2

LEMMA InvariantHolds == Spec => []IInv
BY InitInv, StepKeepsInv, PTL DEF Spec

(* Commands ask only levels of the chain they read, and only a snapshot    *)
(* whose index the store knows has a record.                               *)
THEOREM TypeCorrect == Spec => []TypeOK
<1>1. IInv => TypeOK
  BY DEF IInv
<1> QED BY <1>1, InvariantHolds, PTL

(* osix read returns what the snapshot's tree records, or says that a blob *)
(* cannot be fetched: through any chain of plain and encrypted layers, for *)
(* any file systems and wherever an earlier reader was killed.  The one    *)
(* exception is a path that the layer holding it has retyped.              *)
THEOREM ReadsAreRecorded == Spec => []ReadsRecorded
<1>1. IInv => ReadsRecorded
  BY DEF IInv, Results
<1> QED BY <1>1, InvariantHolds, PTL

(* A read finds content of a deleted file only below a whiteout of one of  *)
(* its directories.                                                        *)
THEOREM DeletedStaysUnread == Spec => []DeletedUnread
<1>1. IInv => DeletedUnread
  BY DEF IInv, Results
<1> QED BY <1>1, InvariantHolds, PTL

(* A restore from the encrypted indexes finds every recorded file in the   *)
(* index of the snapshot that restoreSourceDigestForEntry names: it never  *)
(* goes on to a layer, nor takes a retyped file for deleted.               *)
THEOREM RestoreNeedsNoLayer == Spec => []RestoresFromIndexes
<1>1. IInv => RestoresFromIndexes
  BY DEF IInv, Results
<1> QED BY <1>1, InvariantHolds, PTL

(* However often readers are killed while they build records, a record     *)
(* never comes before the remote sources of its blobs.                     *)
THEOREM SourcesBeforeRecords == Spec => []RecordsHaveSources
<1>1. IInv => RecordsHaveSources
  BY DEF IInv, StoreInv
<1> QED BY <1>1, InvariantHolds, PTL

-----------------------------------------------------------------------------
(* Adjacent bytes. *)
LEMMA BytesJoin ==
    ASSUME NEW i \in Nat, NEW j \in Nat, NEW k \in Nat, i <= j, j <= k
    PROVE  Bytes(i, j) \o Bytes(j, k) = Bytes(i, k)
<1>1. Bytes(i, j) \in Seq(Nat) /\ Len(Bytes(i, j)) = j - i
  BY DEF Bytes
<1>2. Bytes(j, k) \in Seq(Nat) /\ Len(Bytes(j, k)) = k - j
  BY DEF Bytes
<1>3. Bytes(i, k) \in Seq(Nat) /\ Len(Bytes(i, k)) = k - i
  BY DEF Bytes
<1>4. Bytes(i, j) \o Bytes(j, k) \in Seq(Nat)
      /\ Len(Bytes(i, j) \o Bytes(j, k)) = k - i
  BY <1>1, <1>2
<1>5. ASSUME NEW x \in 1..(k - i)
      PROVE  (Bytes(i, j) \o Bytes(j, k))[x] = Bytes(i, k)[x]
  BY <1>1, <1>2 DEF Bytes
<1>6. ASSUME NEW s \in Seq(Nat), NEW t \in Seq(Nat), Len(s) = Len(t),
             \A x \in 1..Len(s) : s[x] = t[x]
      PROVE  s = t
  <2>1. PICK n \in Nat : n = Len(s)
    OBVIOUS
  <2>2. s \in [1..n -> Nat] /\ t \in [1..n -> Nat]
    BY <1>6, <2>1
  <2>3. s = [x \in 1..n |-> s[x]] /\ t = [x \in 1..n |-> t[x]]
    BY <2>2, Zenon
  <2>4. [x \in 1..n |-> s[x]] = [x \in 1..n |-> t[x]]
    BY <1>6, <2>1, Zenon
  <2> QED BY <2>3, <2>4, Zenon
<1> QED BY <1>3, <1>4, <1>5, <1>6

(* An empty range. *)
LEMMA NoBytes == ASSUME NEW i \in Nat PROVE Bytes(i, i) = <<>>
BY DEF Bytes

(* The loop over the chunks, as FlattenSeq states it. *)
LEMMA FlattenIs ==
    ASSUME NEW seqs, Len(seqs) # 0
    PROVE  FlattenSeq(seqs) =
             (CHOOSE f : f = [i \in 1..Len(seqs) |->
                              IF i = 1 THEN seqs[i] ELSE f[i - 1] \o seqs[i]])[Len(seqs)]
BY Zenon DEF FlattenSeq

LEMMA FlattenBytes ==
    ASSUME NEW n \in Nat \ {0}, NEW seqs, Len(seqs) = n, NEW b \in [0..n -> Nat],
           \A i \in 1..n : b[i - 1] <= b[i] /\ seqs[i] = Bytes(b[i - 1], b[i])
    PROVE  FlattenSeq(seqs) = Bytes(b[0], b[n])
<1> DEFINE Loop(f) == [i \in 1..n |-> IF i = 1 THEN seqs[i] ELSE f[i - 1] \o seqs[i]]
           g == [i \in 1..n |-> Bytes(b[0], b[i])]
           f == CHOOSE h : h = Loop(h)
<1>1. ASSUME NEW i \in 1..n PROVE b[0] <= b[i]
  <2> DEFINE S == {k \in 1..n : b[0] > b[k]}
  <2>1. ASSUME S # {} PROVE FALSE
    <3>1. S \in SUBSET Nat
      OBVIOUS
    <3>2. PICK k \in S : \A m \in S : k <= m
      <4> HIDE DEF S
      <4> QED BY <2>1, <3>1, NatMinimum
    <3>3. k - 1 \in 0..n /\ b[k - 1] \in Nat /\ b[k] \in Nat /\ b[0] \in Nat /\ b[k - 1] <= b[k]
      OBVIOUS
    <3>4. k - 1 \notin S
      BY <3>2
    <3> QED BY <3>3, <3>4
  <2>2. b[0] \in Nat /\ b[i] \in Nat
    OBVIOUS
  <2>3. i \notin S
    <3> HIDE DEF S
    <3> QED BY <2>1
  <2> QED BY <2>2, <2>3
<1>2. ASSUME NEW i \in 1..n, i # 1 PROVE g[i - 1] \o seqs[i] = g[i]
  <2>1. i - 1 \in 1..n /\ b[0] \in Nat /\ b[i - 1] \in Nat /\ b[i] \in Nat
    BY <1>2
  <2>2. Bytes(b[0], b[i - 1]) \o Bytes(b[i - 1], b[i]) = Bytes(b[0], b[i])
    BY <1>1, <2>1, BytesJoin
  <2> QED BY <2>1, <2>2
<1>3. g = Loop(g)
  <2>1. seqs[1] = g[1]
    OBVIOUS
  <2>2. \A i \in 1..n : g[i] = IF i = 1 THEN seqs[i] ELSE g[i - 1] \o seqs[i]
    BY <1>2, <2>1
  <2> QED BY <2>2
<1>4. f = Loop(f)
  <2>1. \E h : h = Loop(h)
    <3> HIDE DEF g, Loop
    <3> QED BY <1>3
  <2> HIDE DEF Loop
  <2> QED BY <2>1
<1>5. ASSUME NEW i \in 1..n PROVE f[i] = IF i = 1 THEN seqs[i] ELSE f[i - 1] \o seqs[i]
  <2> HIDE DEF f
  <2> QED BY <1>4
<1>6. f[n] = g[n]
  <2> DEFINE S == {k \in 1..n : f[k] # g[k]}
  <2>1. ASSUME S # {} PROVE FALSE
    <3>1. S \in SUBSET Nat
      OBVIOUS
    <3>2. PICK k \in S : \A m \in S : k <= m
      <4> HIDE DEF S
      <4> QED BY <2>1, <3>1, NatMinimum
    <3>3. k \in 1..n /\ f[k] # g[k]
      <4> HIDE DEF f, g
      <4> QED BY <3>2
    <3>7. k - 1 \notin S
      <4>1. k \in Nat
        BY <3>3
      <4> HIDE DEF S
      <4> QED BY <3>1, <3>2, <4>1
    <3>4. k = 1 \/ f[k - 1] = g[k - 1]
      <4> HIDE DEF f, g
      <4> QED BY <3>3, <3>7
    <3>5. g[k] = IF k = 1 THEN seqs[k] ELSE g[k - 1] \o seqs[k]
      <4> HIDE DEF g
      <4> QED BY <1>3, <3>3
    <3>6. f[k] = IF k = 1 THEN seqs[k] ELSE f[k - 1] \o seqs[k]
      BY <1>5, <3>3
    <3> HIDE DEF f, g
    <3> QED BY <3>3, <3>4, <3>5, <3>6
  <2>2. n \in 1..n
    OBVIOUS
  <2> HIDE DEF f, g
  <2> QED BY <2>1, <2>2
<1>7. FlattenSeq(seqs) = f[n]
  BY FlattenIs, Zenon
<1> QED BY <1>6, <1>7

(* Rounding up to whole chunks. *)
LEMMA DivBound ==
    ASSUME NEW size \in Nat, NEW n \in Nat, NEW C \in Nat \ {0}, n = (size + C - 1) \div C
    PROVE  size <= n * C /\ (size > 0 => n > 0 /\ (n - 1) * C < size) /\ (size = 0 => n = 0)
<1>1. PICK m : m = (size + C - 1) % C
  OBVIOUS
<1>2. m \in 0..(C - 1) /\ size + C - 1 = C * n + m
  BY <1>1
<1> QED BY <1>2

LEMMA Steps ==
    ASSUME NEW k \in Nat \ {0}, NEW C \in Nat
    PROVE  k * C \in Nat /\ (k - 1) * C \in Nat /\ k * C = (k - 1) * C + C
OBVIOUS

LEMMA Multiples ==
    ASSUME NEW k \in Nat, NEW n \in Nat, k <= n, NEW C \in Nat
    PROVE  k * C <= n * C
OBVIOUS

(* The chunks cover the file without gaps. *)
LEMMA ChunkBounds ==
    ASSUME NEW size \in Nat \ {0}, NEW n, n = Greatest(1, (size + ChunkSize - 1) \div ChunkSize)
    PROVE  /\ n \in Nat \ {0} /\ size <= n * ChunkSize
           /\ \A k \in 1..n :
                /\ k * ChunkSize \in Nat /\ (k - 1) * ChunkSize \in Nat
                /\ (k - 1) * ChunkSize < size
                /\ (k - 1) * ChunkSize <= k * ChunkSize
<1>0. ChunkSize \in Nat \ {0}
  BY LazyReadConstants
<1>1. PICK m : m = (size + ChunkSize - 1) \div ChunkSize
  OBVIOUS
<1>2. m \in Nat
  BY <1>0, <1>1
<1>3. size <= m * ChunkSize /\ m > 0 /\ (m - 1) * ChunkSize < size
  BY <1>0, <1>1, <1>2, DivBound
<1>4. n = m
  BY <1>1, <1>2, <1>3 DEF Greatest
<1>5. ASSUME NEW k \in 1..m
      PROVE  /\ k * ChunkSize \in Nat /\ (k - 1) * ChunkSize \in Nat
             /\ (k - 1) * ChunkSize < size
             /\ (k - 1) * ChunkSize <= k * ChunkSize
  <2>1. k \in Nat \ {0} /\ k - 1 \in Nat /\ m - 1 \in Nat /\ k - 1 <= m - 1
    BY <1>2
  <2>2. k * ChunkSize \in Nat /\ (k - 1) * ChunkSize \in Nat
        /\ k * ChunkSize = (k - 1) * ChunkSize + ChunkSize
    BY <1>0, <2>1, Steps
  <2>3. (k - 1) * ChunkSize <= (m - 1) * ChunkSize
    BY <1>0, <2>1, Multiples
  <2>4. (m - 1) * ChunkSize \in Nat
    BY <1>0, <2>1
  <2> QED BY <1>0, <1>3, <2>2, <2>3, <2>4
<1> QED BY <1>2, <1>3, <1>4, <1>5

(* Reading chunk by chunk returns the bytes of the range. *)
LEMMA ChunksExact ==
    ASSUME NEW size \in Nat \ {0}, NEW offset \in Nat, NEW length \in Nat \ {0},
           offset + length <= size
    PROVE  readEncryptedLazyChunks(createEncryptedLazyChunks(size), offset, length)
             = Bytes(offset, offset + length)
<1> DEFINE chunks == createEncryptedLazyChunks(size)
           last == offset + length
           End(k) == Least(k * ChunkSize, size)
           Cut(x) == Least(last, Greatest(offset, x))
           pieces == [k \in DOMAIN chunks |->
                        IF chunks[k].end <= offset \/ chunks[k].start >= last THEN <<>>
                        ELSE Bytes(Greatest(offset, chunks[k].start),
                                   Least(last, chunks[k].end))]
<1>1. PICK n : n = Greatest(1, (size + ChunkSize - 1) \div ChunkSize)
  OBVIOUS
<1>2. /\ n \in Nat \ {0} /\ size <= n * ChunkSize
      /\ \A k \in 1..n :
           /\ k * ChunkSize \in Nat /\ (k - 1) * ChunkSize \in Nat
           /\ (k - 1) * ChunkSize < size /\ (k - 1) * ChunkSize <= k * ChunkSize
  BY <1>1, ChunkBounds
<1>3. /\ DOMAIN chunks = 1..n
      /\ \A k \in 1..n : chunks[k].start = (k - 1) * ChunkSize /\ chunks[k].end = End(k)
  BY <1>1 DEF createEncryptedLazyChunks
<1> DEFINE b == [k \in 0..n |-> IF k = 0 THEN offset ELSE Cut(End(k))]
<1>4. last \in Nat /\ offset < last /\ last <= size
  OBVIOUS
<1>5. ASSUME NEW k \in 1..n
      PROVE  End(k) \in Nat /\ Cut(End(k)) \in Nat /\ Cut(End(k)) >= offset
  BY <1>2, <1>4 DEF Least, Greatest
<1>6. b \in [0..n -> Nat]
  BY <1>5
(* Each chunk begins where the one before it ends. *)
<1>7. ASSUME NEW k \in 1..n PROVE b[k - 1] = Cut((k - 1) * ChunkSize) /\ b[k] = Cut(End(k))
  <2>1. k \in 0..n /\ k # 0 /\ k - 1 \in 0..n
    BY <1>2
  <2>2. CASE k = 1
    <3>1. (k - 1) * ChunkSize = 0
      BY <2>2, LazyReadConstants
    <3>2. b[0] = offset /\ Cut(0) = offset
      BY <1>2, <1>4 DEF Least, Greatest
    <3> QED BY <2>1, <2>2, <3>1, <3>2
  <2>3. CASE k # 1
    <3>1. k - 1 \in 1..n /\ End(k - 1) = (k - 1) * ChunkSize
      BY <1>2, <2>3 DEF Least
    <3> QED BY <2>1, <3>1
  <2> QED BY <2>2, <2>3
<1>8. ASSUME NEW k \in 1..n
      PROVE  b[k - 1] <= b[k] /\ pieces[k] = Bytes(b[k - 1], b[k])
  <2>1. PICK start, end : start = (k - 1) * ChunkSize /\ end = End(k)
    OBVIOUS
  <2>2. start \in Nat /\ end \in Nat /\ start <= end /\ end <= size
    BY <1>2, <2>1 DEF Least
  <2>3. pieces[k] = IF end <= offset \/ start >= last THEN <<>>
                    ELSE Bytes(Greatest(offset, start), Least(last, end))
    BY <1>3, <2>1
  <2>4. b[k - 1] = Cut(start) /\ b[k] = Cut(end)
    BY <1>7, <2>1
  <2>5. Cut(start) \in Nat /\ Cut(end) \in Nat /\ Cut(start) <= Cut(end)
    BY <1>4, <2>2 DEF Least, Greatest
  <2>6. CASE end <= offset \/ start >= last
    <3>1. Cut(start) = Cut(end)
      BY <1>4, <2>2, <2>6 DEF Least, Greatest
    <3>2. Bytes(Cut(start), Cut(end)) = <<>>
      BY <2>5, <3>1, NoBytes
    <3> QED BY <2>3, <2>4, <2>5, <2>6, <3>2
  <2>7. CASE ~(end <= offset \/ start >= last)
    <3>1. Greatest(offset, start) = Cut(start) /\ Least(last, end) = Cut(end)
      BY <1>4, <2>2, <2>7 DEF Least, Greatest
    <3> QED BY <2>3, <2>4, <2>5, <2>7, <3>1
  <2> QED BY <2>6, <2>7
<1>9. Len(pieces) = n
  <2>1. pieces = [k \in 1..n |-> pieces[k]]
    BY <1>3
  <2> HIDE DEF pieces
  <2> QED BY <1>2, <2>1
<1>10. FlattenSeq(pieces) = Bytes(b[0], b[n])
  <2> HIDE DEF pieces, b
  <2> QED BY <1>2, <1>6, <1>8, <1>9, FlattenBytes
<1>11. b[0] = offset /\ b[n] = last
  <2>1. End(n) = size
    BY <1>2 DEF Least
  <2>2. Cut(size) = last
    BY <1>4 DEF Least, Greatest
  <2>3. n \in 0..n /\ 0 \in 0..n /\ n # 0
    BY <1>2
  <2> QED BY <2>1, <2>2, <2>3
<1>12. readEncryptedLazyChunks(chunks, offset, length) = FlattenSeq(pieces)
  BY Zenon DEF readEncryptedLazyChunks
<1> QED BY <1>10, <1>11, <1>12

(* Unencrypted files, which sliceRange cuts. *)
LEMMA SlicesExact ==
    ASSUME NEW size \in 0..MaxInt, NEW offset \in 0..MaxInt, NEW length \in 0..MaxInt,
           offset + length <= MaxInt
    PROVE  sliceRange(size, offset, length)
             = Bytes(Least(offset, size), Least(offset + length, size))
<1>0. MaxInt \in Nat
  BY LazyReadConstants
<1>1. CASE offset >= size \/ length = 0
  <2>1. Least(offset, size) = Least(offset + length, size) /\ Least(offset, size) \in Nat
    BY <1>0, <1>1 DEF Least
  <2>2. sliceRange(size, offset, length) = <<>>
    BY <1>1 DEF sliceRange
  <2> QED BY <2>1, <2>2, NoBytes
<1>2. CASE ~(offset >= size \/ length = 0)
  <2>1. /\ Add(offset, length) = offset + length /\ Least(offset, size) = offset
        /\ Least(offset + length, size) >= offset
    BY <1>0, <1>2 DEF Add, Least
  <2>2. ~(Least(offset + length, size) < offset)
    BY <1>0, <2>1 DEF Least
  <2> QED BY <1>2, <2>1, <2>2 DEF sliceRange
<1> QED BY <1>1, <1>2

(* Files of an encrypted snapshot with an index. *)
LEMMA IndexedExact ==
    ASSUME NEW size \in 0..MaxInt, NEW offset \in 0..MaxInt, NEW length \in 0..MaxInt
    PROVE  readEncryptedLazyFileRange(size, offset, length)
             = Bytes(Least(offset, size), Least(offset + length, size))
<1>0. MaxInt \in Nat
  BY LazyReadConstants
<1>1. PICK available : available = Least(length, Greatest(0, size - offset))
  OBVIOUS
<1>2. available \in Nat
  BY <1>0, <1>1 DEF Least, Greatest
<1>3. readEncryptedLazyFileRange(size, offset, length) =
        IF available = 0 THEN <<>>
        ELSE readEncryptedLazyChunks(createEncryptedLazyChunks(size), offset, available)
  BY <1>1 DEF readEncryptedLazyFileRange
<1>4. CASE available = 0
  <2>1. Least(offset, size) = Least(offset + length, size) /\ Least(offset, size) \in Nat
    BY <1>0, <1>1, <1>4 DEF Least, Greatest
  <2> QED BY <1>3, <1>4, <2>1, NoBytes
<1>5. CASE available # 0
  <2>1. /\ offset < size /\ offset + available <= size /\ size \in Nat \ {0} /\ offset \in Nat
        /\ Least(offset, size) = offset
        /\ Least(offset + length, size) = offset + available
    BY <1>0, <1>1, <1>5 DEF Least, Greatest
  <2>2. readEncryptedLazyChunks(createEncryptedLazyChunks(size), offset, available)
          = Bytes(offset, offset + available)
    BY <1>2, <1>5, <2>1, ChunksExact
  <2> QED BY <1>3, <1>5, <2>1, <2>2
<1> QED BY <1>4, <1>5

(* A range read returns exactly the bytes of the range that the file has,  *)
(* for files of any size, any chunk size and any int64 range: the chunks   *)
(* that readEncryptedLazyChunks puts together have neither gap nor overlap *)
(* nor bytes beyond the range.                                             *)
THEOREM RangesAreExact == Spec => []RangesExact
<1>1. RangesExact
  <2> SUFFICES ASSUME read.value \in Entry, IsFile(read.value),
                      NEW offset \in 0..MaxInt, NEW length \in 0..MaxInt
               PROVE  LET size  == Size[read.value]
                          bytes == Bytes(Least(offset, size), Least(offset + length, size)) IN
                      IF read.level \in indexRefs
                      THEN readEncryptedLazyFileRange(size, offset, length) = bytes
                      ELSE offset + length <= MaxInt => sliceRange(size, offset, length) = bytes
    BY DEF RangesExact
  <2>1. Size[read.value] \in 0..MaxInt
    BY LazyReadConstants
  <2> QED BY <2>1, IndexedExact, SlicesExact
<1> QED BY <1>1, PTL
=============================================================================
