--------------------------- MODULE MCLayerExtract ---------------------------
(* Paths d, d/e and d/e/f with every entry type; d/e/f is a log.           *)
EXTENDS LayerExtract, TLC

CONSTANTS d, e, f, file, secret, redacted, dir, dir0755, link

MCAncestors == (d :> {}) @@ (e :> {d}) @@ (f :> {d, e})
MCDepth == (d :> 1) @@ (e :> 2) @@ (f :> 3)
MCTypeOf == (file :> "file") @@ (secret :> "file") @@ (redacted :> "file")
            @@ (dir :> "dir") @@ (dir0755 :> "dir") @@ (link :> "symlink")
MCRedact == [x \in Entry |-> IF x = secret THEN redacted ELSE x]
=============================================================================
