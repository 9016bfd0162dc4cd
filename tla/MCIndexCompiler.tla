--------------------------- MODULE MCIndexCompiler ---------------------------
(* IndexCompiler with two views, one overwritten in place (bm25) and one     *)
(* published by a rename (vector), and one or two compilers.                 *)
EXTENDS IndexCompiler, TLC

CONSTANTS bm25, vector, init, serve, all, tests, old, new

\* The onboarding command owns the policy and the newer builders; the server's
\* refresh inherits the policy and cannot build vectors.
TwoRegistered == (init :> View) @@ (serve :> {bm25})
TwoChosen == (init :> tests) @@ (serve :> Inherit)
TwoIdentities == (init :> new) @@ (serve :> old)

OneRegistered == init :> View
OneChosen == init :> Inherit
OneIdentity == init :> new
=============================================================================
