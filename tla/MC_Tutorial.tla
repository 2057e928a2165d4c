---------------------------- MODULE MC_Tutorial ----------------------------
(* Model-checking instance of Tutorial: three makers and two sellers.     *)
EXTENDS Tutorial, TLC

CONSTANTS m1, m2, m3, s1, s2, s3, b1, b2

\* Every product costs 1 and is stocked with one unit, so that two sales
\* of one unit compete for it.
MC_PriceOf == [m \in {m1, m2, m3} |-> 1]
MC_StockOf == [m \in {m1, m2, m3} |-> 1]

\* Every product has its own sku.
MC_DistinctSkus == (m1 :> s1) @@ (m2 :> s2) @@ (m3 :> s3)

\* Two products are constructed with the same sku.
MC_SharedSku == (m1 :> s1) @@ (m2 :> s2) @@ (m3 :> s1)

=============================================================================
