----------------------------- MODULE MCRegistry -----------------------------
(* Two workspaces push to one repository: the first a snapshot with its    *)
(* parent and the checkpoint that replaces both, the second rolls the      *)
(* branch back to the parent, for which it has a bundle of its own.        *)
EXTENDS Registry

CONSTANTS p1, p2, root, child, checkpoint, main, latest

MCChain == [s \in Snapshots |-> IF s = child THEN <<root, child>> ELSE <<s>>]

Push(s, ts, expected, referrers, prune) ==
    [snap |-> s, tags |-> ts, expected |-> expected, referrers |-> referrers,
     prune |-> prune]

MCRequests == [p \in Pushers |->
    IF p = p1
    THEN <<Push(child, <<main, latest>>, None, {<<root, "sig">>, <<child, "cosign">>}, <<>>),
           Push(checkpoint, <<main, latest>>, child, {}, <<root, child>>)>>
    ELSE <<Push(root, <<main>>, child, {<<root, "att">>}, <<>>)>>]

ASSUME MCPrunesOwn == PrunesOwn
=============================================================================
