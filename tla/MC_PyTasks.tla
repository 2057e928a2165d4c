----------------------------- MODULE MC_PyTasks -----------------------------
(* Model-checking instance of PyTasks.                                     *)
EXTENDS PyTasks

=============================================================================
