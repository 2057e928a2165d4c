------------------------------ MODULE PyTasks ------------------------------
(***************************************************************************)
(* The task helpers of the Python binding,                                 *)
(* src/python-api/mds/include/helpers.h.                                   *)
(*                                                                         *)
(* Each thread has a thread_local flag already_initialized and a           *)
(* thread_local _current() task.  Every entry point that runs managed work *)
(* (TaskWrapper::default_task, TaskWrapper::run, run_in_iso_ctxt and the   *)
(* create_<T>_marray functions) first calls initialize_base_task, which    *)
(* installs the thread's base task through init_thread_base_task once per  *)
(* thread.  TaskWrapper::Establish is a scope: its constructor sets        *)
(* _current() to the task, its destructor sets _current() to               *)
(* task_handle::pop().  Scopes nest and end in LIFO order, as Python       *)
(* context managers do.                                                    *)
(*                                                                         *)
(* task_handle::pop() belongs to the core API (mds_core_api.h), which is   *)
(* not in the repository.  It pops the thread's task stack of the core.    *)
(* Nothing in the repository pushes onto that stack for a Python thread,   *)
(* so pop() yields the thread's base task, the default task.  The debug    *)
(* printf lines are left out.                                              *)
(***************************************************************************)
EXTENDS Naturals, Sequences, SequencesExt

CONSTANTS
  Threads,      \* Python threads calling into the binding
  Tasks,        \* task handles Python code may establish
  DefaultTask,  \* task_handle::default_task()
  MaxDepth      \* bound on nested Establish scopes per thread

ASSUME DefaultTask \notin Tasks /\ MaxDepth \in Nat

AllTasks == Tasks \cup {DefaultTask}

VARIABLES
  initialized,  \* initialized[th]: th's thread_local already_initialized
  baseInits,    \* baseInits[th]: init_thread_base_task calls made on th
  current,      \* current[th]: th's thread_local _current()
  scopes        \* scopes[th]: for each open Establish scope of th, the
                \* task current when it was entered (history)

vars == <<initialized, baseInits, current, scopes>>

-----------------------------------------------------------------------------
(* The core API.                                                           *)

\* task_handle::pop(): the thread's base task, nothing having been pushed.
pop(th) == DefaultTask

-----------------------------------------------------------------------------
(* initialize_base_task and the entry points that call it.                 *)

\* Mutant: the flag is never set, so every call installs the base task.
initialize_base_task_noflag(th) ==
  /\ UNCHANGED initialized
  /\ baseInits' = IF initialized[th] THEN baseInits
                  ELSE [baseInits EXCEPT ![th] = @ + 1]

\* initialize_base_task: on the thread's first call, install its base task
\* with init_thread_base_task and set the thread_local flag.
initialize_base_task(th) ==
  /\ initialized' = [initialized EXCEPT ![th] = TRUE]
  /\ baseInits' = IF initialized[th] THEN baseInits
                  ELSE [baseInits EXCEPT ![th] = @ + 1]

\* An entry point: initialize_base_task, then the managed work.
EntryPoint(th) ==
  /\ initialize_base_task(th)
  /\ UNCHANGED <<current, scopes>>

\* TaskWrapper::default_task()
default_task(th) == EntryPoint(th)

\* TaskWrapper::run(fn, arg): the callable runs on whatever task is current;
\* the wrapper's own _handle is not established.
run(th) == EntryPoint(th)

\* isoctxts::run_in_iso_ctxt(handle, fn, arg): fn runs without the context.
run_in_iso_ctxt(th) == EntryPoint(th)

\* types::create_<T>_marray(n), from _TYPE_WRAPPER_.
create_marray(th) == EntryPoint(th)

-----------------------------------------------------------------------------
(* TaskWrapper::Establish                                                  *)

\* Establish(t): _current() = t.
Establish(th, t) ==
  /\ Len(scopes[th]) < MaxDepth
  /\ scopes' = [scopes EXCEPT ![th] = Append(@, current[th])]
  /\ current' = [current EXCEPT ![th] = t]
  /\ UNCHANGED <<initialized, baseInits>>

\* ~Establish(): _current() = h_task_t::pop().
EndEstablish(th) ==
  /\ scopes[th] # <<>>
  /\ current' = [current EXCEPT ![th] = pop(th)]
  /\ scopes' = [scopes EXCEPT ![th] = Front(@)]
  /\ UNCHANGED <<initialized, baseInits>>

-----------------------------------------------------------------------------
Init ==
  /\ initialized = [th \in Threads |-> FALSE]
  /\ baseInits = [th \in Threads |-> 0]
  /\ current = [th \in Threads |-> DefaultTask]
  /\ scopes = [th \in Threads |-> <<>>]

Next ==
  \E th \in Threads :
    \/ default_task(th) \/ run(th) \/ run_in_iso_ctxt(th) \/ create_marray(th)
    \/ \E t \in Tasks : Establish(th, t)
    \/ EndEstablish(th)

Spec == Init /\ [][Next]_vars

-----------------------------------------------------------------------------
(* Properties.                                                             *)

\* Types, with init_thread_base_task run at most once per thread.
TypeOK ==
  /\ initialized \in [Threads -> BOOLEAN]
  /\ baseInits \in [Threads -> 0..1]
  /\ current \in [Threads -> AllTasks]
  /\ scopes \in [Threads -> Seq(AllTasks)]

\* Leaving an Establish scope restores the task that was current when the
\* scope was entered (spec section 5: the previous current task is always
\* restored on leaving a scope), so nested scopes unwind correctly.
EstablishRestoresPrevious ==
  [][\A th \in Threads :
       Len(scopes'[th]) < Len(scopes[th]) => current'[th] = Last(scopes[th])]_vars

=============================================================================
