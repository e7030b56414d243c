------------------------------ MODULE MCRefTxn ------------------------------
(* RefTxn on small instances: a branch, the snapshot's own tag and a name   *)
(* that is stored in the branch's file.                                    *)
EXTENDS RefTxn, TLC

CONSTANTS d1, d2, main, alias, snap, mainFile, snapFile, p1

MCPathOf == (main :> mainFile) @@ (alias :> mainFile) @@ (snap :> snapFile)
OneProcess == [t \in Threads |-> p1]

Set(name, digest) == [name |-> name, digest |-> digest, expected |-> NoDigest]
Swap(name, digest, expected) ==
    [name |-> name, digest |-> digest, expected |-> expected]

(* What Snapshot passes: its own tag, then the branch with its parent. *)
Publish(new, parent) == <<Set(snap, new), Swap(main, new, parent)>>

MCBatches ==
    { Publish(d1, d2), Publish(d2, d1), <<Set(main, d2)>>,
      <<Set(main, d1), Set(Blank, d1), Set(snap, d2)>>,
      <<Set(snap, d1), Set(main, d1), Set(alias, d1)>>,
      <<Set(snap, d2), Set(main, NoDigest)>>, <<Set(Blank, d1)>> }
=============================================================================
