----------------------------- MODULE MCLazyFuse -----------------------------
(* Names d and e, each with a child f.  The first source has a directory d *)
(* with the file d/f, and a file e.                                        *)
EXTENDS LazyFuse, TLC

CONSTANTS d, df, e, ef, empty, old, new, dir, link

MCAncestors == (d :> {}) @@ (df :> {d}) @@ (e :> {}) @@ (ef :> {e})
MCDepth == (d :> 1) @@ (df :> 2) @@ (e :> 1) @@ (ef :> 2)
MCBase == (d :> "d") @@ (df :> "f") @@ (e :> "e") @@ (ef :> "f")
MCTypeOf == (empty :> "file") @@ (old :> "file") @@ (new :> "file")
            @@ (dir :> "dir") @@ (link :> "symlink")
MCRedact == [x \in Entry |-> x]

OneDir == (d :> dir) @@ (df :> old) @@ (e :> old) @@ (ef :> Absent)
MCSources == {OneDir}
Symmetry == Permutations(Clients)
=============================================================================
