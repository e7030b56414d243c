----------------------------- MODULE MCLazyRead -----------------------------
(* Names d and g, and a child d/f, which is a log.  d is absent, a file, a *)
(* symlink or a directory, and so is d/f within it; g comes and goes.      *)
EXTENDS LazyRead, TLC

CONSTANTS d, f, g, secret, redacted, empty, dir, link

MCAncestors == (d :> {}) @@ (f :> {d}) @@ (g :> {})
MCDepth == (d :> 1) @@ (f :> 2) @@ (g :> 1)
MCTypeOf == (secret :> "file") @@ (redacted :> "file") @@ (empty :> "file")
            @@ (dir :> "dir") @@ (link :> "symlink")
MCRedact == [x \in Entry |-> IF x = secret THEN redacted ELSE x]
MCSize == (secret :> 5) @@ (redacted :> 4) @@ (empty :> 0)

Scan(x, y, z) == (d :> x) @@ (f :> y) @@ (g :> z)
MCScans == {Scan(Absent, Absent, empty), Scan(secret, Absent, Absent),
            Scan(empty, Absent, empty), Scan(link, Absent, Absent),
            Scan(dir, Absent, empty), Scan(dir, link, Absent),
            Scan(dir, redacted, empty), Scan(dir, secret, empty),
            Scan(dir, secret, Absent)}
=============================================================================
