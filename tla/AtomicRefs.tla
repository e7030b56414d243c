----------------------------- MODULE AtomicRefs -----------------------------
(***************************************************************************)
(* What the ref directory of a workspace promises its callers: a batch of  *)
(* ref updates takes effect as a whole or not at all, and an update that   *)
(* names an expected digest only replaces that digest (or a ref that does  *)
(* not exist).  RefTxn is the code; it is shown to implement this module.  *)
(***************************************************************************)
EXTENDS Naturals, Sequences

CONSTANTS
    Names,      \* ref names a caller may use
    Paths,      \* files under .osix/refs
    PathOf,     \* safeRefName: the file each name is stored in
    Digests,    \* well-formed digests
    NoRef,      \* content of a ref whose file does not exist
    Blank,      \* the blank name, which a batch may contain
    NoDigest,   \* an empty "expected" field: the update is unconditional
    Batches     \* the batches of updates that callers pass

(***************************************************************************)
(* Two names may share a file ("a/b" and "a:b" are both stored in a__b).   *)
(* The callers pass each name at most once (uniqueStrings in Snapshot,     *)
(* single-element batches elsewhere).                                      *)
(***************************************************************************)
ASSUME RefConstants ==
    /\ PathOf \in [Names -> Paths]
    /\ Blank \notin Names
    /\ NoRef \notin Digests
    /\ NoDigest \notin Digests /\ NoDigest # NoRef

VARIABLE refs

Content == Digests \cup {NoRef}

(* The updates of a batch that are not skipped. *)
Named(batch) == {k \in DOMAIN batch : batch[k].name # Blank}

Target(update) == PathOf[update.name]

(* One digest per file, all of them well formed. *)
WellFormed(batch) ==
    /\ \A k \in Named(batch) : batch[k].digest \in Digests
    /\ \A j, k \in Named(batch) :
          Target(batch[j]) = Target(batch[k]) => j = k

(* The compare half of the compare-and-swap; a missing ref always passes. *)
MatchesExpected(update, current) ==
    update.expected = NoDigest \/ current \in {update.expected, NoRef}

Init == refs \in [Paths -> Content]

Commit(batch) ==
    /\ WellFormed(batch)
    /\ \A k \in Named(batch) :
          MatchesExpected(batch[k], refs[Target(batch[k])])
    /\ refs' = [p \in Paths |->
                  IF \E k \in Named(batch) : Target(batch[k]) = p
                    THEN batch[CHOOSE k \in Named(batch) :
                                  Target(batch[k]) = p].digest
                    ELSE refs[p]]

Next == \E batch \in Batches : Commit(batch)

Spec == Init /\ [][Next]_refs
=============================================================================
