----------------------------- MODULE ResolveSpec -----------------------------
(***************************************************************************)
(* What resolving a publish result promises (spec section 4.3 and 7),     *)
(* with each phase as one atomic step.                                     *)
(*                                                                         *)
(* A resolution takes the redo tasks of the child in start-time order.     *)
(* Validation (registry lookups, prepare-for-redo hooks, the global        *)
(* prepare step) either fails, or is aborted by an exception, before any   *)
(* task is redone; once it passes, the tasks are redone one at a time in   *)
(* that order, and resolution succeeds when all are redone.  Only an       *)
(* exception out of a redone closure leaves a partial redo behind.  A      *)
(* resolution that starts always ends.                                     *)
(***************************************************************************)
EXTENDS Sequences, SequencesExt

CONSTANT Tasks        \* task identities of the child context

VARIABLES
  status,   \* "idle", "resolving", "replaying", "succeeded", "failed", "aborted"
  redo,     \* the redo tasks of the current resolution, by start time
  done      \* the tasks redone so far by the current resolution

avars == <<status, redo, done>>

Init == status = "idle" /\ redo = <<>> /\ done = <<>>

\* The caller resolves, first after the child's work and again after a
\* success when the retried publish fails.  No tasks: immediate success.
Begin ==
  /\ status \in {"idle", "succeeded"}
  /\ redo' \in Seq(Tasks) /\ IsInjective(redo')
  /\ done' = <<>>
  /\ status' = IF redo' = <<>> THEN "succeeded" ELSE "resolving"

\* Validation fails (a missing registry entry, a hook or the global step
\* returning false): nothing was redone.
Fail ==
  /\ status = "resolving"
  /\ status' = "failed"
  /\ UNCHANGED <<redo, done>>

\* A hook throws during validation: nothing was redone.
AbortValidation ==
  /\ status = "resolving"
  /\ status' = "aborted"
  /\ UNCHANGED <<redo, done>>

\* Validation passed: the redo phase begins.
Validate ==
  /\ status = "resolving"
  /\ status' = "replaying"
  /\ UNCHANGED <<redo, done>>

\* The next task in start-time order is redone.
Redo ==
  /\ status = "replaying"
  /\ Len(done) < Len(redo)
  /\ done' = Append(done, redo[Len(done) + 1])
  /\ UNCHANGED <<status, redo>>

\* Every task was redone.
Succeed ==
  /\ status = "replaying"
  /\ done = redo
  /\ status' = "succeeded"
  /\ UNCHANGED <<redo, done>>

\* A redone closure throws: the tasks redone so far stay redone.
AbortRedo ==
  /\ status = "replaying"
  /\ done # <<>>
  /\ status' = "aborted"
  /\ UNCHANGED <<redo, done>>

Step == Fail \/ AbortValidation \/ Validate \/ Redo \/ Succeed \/ AbortRedo

Next == Begin \/ Step

\* A resolution in progress runs to its end; starting one is up to the
\* caller.
Spec == Init /\ [][Next]_avars /\ WF_avars(Step)

=============================================================================
