---------------------------- MODULE MC_Inventory ----------------------------
(* Model-checking instance of Inventory: three names, three products.      *)
EXTENDS Inventory
=============================================================================
