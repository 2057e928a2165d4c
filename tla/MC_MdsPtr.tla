----------------------------- MODULE MC_MdsPtr -----------------------------
(* Model-checking instance of MdsPtr: one mds_ptr<Base> variable, one        *)
(* mds_ptr<Derived> and two mds_ptr<mds_array<E>>.                         *)
EXTENDS MdsPtr

CONSTANTS a, c, d, e, v1, v2

MC_HType == (a :> Base) @@ (c :> Derived)
              @@ (d :> Array) @@ (e :> Array)

\* The two array handles are interchangeable, and so are the two values:
\* no property tells them apart.
MC_Symmetry == Permutations({d, e}) \cup Permutations({v1, v2})

=============================================================================
