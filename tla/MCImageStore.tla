---------------------------- MODULE MCImageStore ----------------------------
(***************************************************************************)
(* Small instances of ImageStore.                                          *)
(***************************************************************************)
EXTENDS ImageStore

(* "main" is the branch, "ck" the tag of checkpoints. *)
MCNames == {"latest", "main", "v1", "ck"}
MCSeqTag == [k \in 1..(MaxSnapshots + 1) |-> "v1"]

Plain == [tag |-> Blank, alsoTag |-> Blank, sign |-> FALSE]
Branch == [tag |-> "v1", alsoTag |-> "main", sign |-> FALSE]
SignedTag == [tag |-> "v1", alsoTag |-> Blank, sign |-> TRUE]

(* osix compact --prune-local --keep-snapshots main *)
Manual == [squashEvery |-> 1, keep |-> {"main"}, preserveSigned |-> FALSE,
           pruneLocal |-> TRUE, pruneSource |-> FALSE, fromTarget |-> FALSE,
           checkpointTag |-> "ck", checkpointTags |-> {}]
(* osix watch --prune-local --preserve-signed *)
Watched == [squashEvery |-> 2, keep |-> {}, preserveSigned |-> TRUE,
            pruneLocal |-> TRUE, pruneSource |-> TRUE, fromTarget |-> TRUE,
            checkpointTag |-> "ck", checkpointTags |-> {"latest", "main"}]
(* osix watch --compact-every 1 --squash-every 1 --prune-local *)
Hourly == [Watched EXCEPT !.squashEvery = 1]
(* osix watch, without pruning *)
Retained == [Watched EXCEPT !.pruneLocal = FALSE, !.pruneSource = FALSE,
                            !.squashEvery = 1]

TwoRequests == {Branch, SignedTag}
PlainOnly == {Plain}
WatchedOnly == {Watched}
RetainedOnly == {Retained}
EagerPolicies == {Manual, Hourly}
=============================================================================
