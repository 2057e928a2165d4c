----------------------------- MODULE MC_IsoCtxt -----------------------------
(* Model-checking instance of IsoCtxt: two closures, one registering two    *)
(* hooks and one registering none.                                         *)
EXTENDS IsoCtxt

CONSTANTS w1, w2, c1, c2, t1, t2, fA, fB, h1, h2

MC_HookRegs == (fA :> <<h1, h2>>) @@ (fB :> <<>>)

=============================================================================
