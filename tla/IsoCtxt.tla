------------------------------- MODULE IsoCtxt -------------------------------
(***************************************************************************)
(* The task/redo registry and the publish-resolution protocol of           *)
(* src/cpp-api/src/iso_ctxt.cpp.                                           *)
(*                                                                         *)
(* Worker threads run tasks of isolation contexts through                  *)
(* task::remember_and_call, which records the closure in the context's     *)
(* task_func_map (establish_and_run is called only by resolve in this     *)
(* repository).  A running closure calls on_prepare_for_redo on the       *)
(* current task.  The Publisher thread later resolves the publish result  *)
(* of context Child:                                                       *)
(* pub_result::resolve looks the tasks up, runs their prepare-for-redo     *)
(* hooks under the child's top-level task, runs the global prepare step    *)
(* and replays the recorded closures in start-time order.  The caller      *)
(* resolves again each time the retried publish fails, up to MaxResolves.  *)
(*                                                                         *)
(* Closures and hooks are model values.  A closure is abstracted to the    *)
(* sequence of hooks it registers (HookRegs); it may throw at any point.   *)
(* A hook returns TRUE, FALSE or throws.                                   *)
(***************************************************************************)
EXTENDS Naturals, Sequences, SequencesExt, FiniteSets

CONSTANTS
  Workers,      \* threads running tasks
  Publisher,    \* the thread that publishes Child and resolves it
  Ctxts,        \* isolation contexts
  Child,        \* the context whose publish result is resolved
  TaskIds,      \* task identities a worker may run in any context
  TopLevel,     \* identity of a context's top-level task
  Closures,     \* task closures (task_fn_type)
  Hooks,        \* prepare-for-redo hooks (pfr_fn_type)
  HookRegs,     \* [Closures -> Seq(Hooks)]: hooks a closure registers, in order
  ReentrantHooks, \* hooks that, when run, register themselves again through
                \* task::on_prepare_for_redo on the current task
  MaxRuns,      \* bound on the number of task runs started by workers
  MaxResolves   \* bound on resolve attempts by the publishing caller

ASSUME /\ Child \in Ctxts
       /\ TopLevel \notin TaskIds
       /\ Publisher \notin Workers
       /\ HookRegs \in [Closures -> Seq(Hooks)]
       /\ ReentrantHooks \subseteq Hooks
       /\ MaxRuns \in Nat /\ MaxResolves \in Nat

Threads == Workers \cup {Publisher}

\* A task is named by its context and its identity within it.
Task == Ctxts \X (TaskIds \cup {TopLevel})

NoInfo == 0

VARIABLES
  ctm,        \* contexts that have a task_func_map in ctxt_task_map ctm
  tfm,        \* tfm[t]: index in infos of the task::info stored for t, or NoInfo
  infos,      \* every task::info ever made: [task, fn, hooks]
  stack,      \* stack[th]: tasks established on thread th (_establish)
  body,       \* body[th]: registrations the running closure has still to make
  pc,         \* program counter of each thread
  runs,       \* task runs started by workers
  started,    \* tasks of Child in the order they first started
  attempts,   \* resolve attempts made by the publisher
  rtasks,     \* resolve: tasks, the redo tasks by start time
  rinfos,     \* resolve: infos, the info index looked up for each task
  rsnap,      \* resolve: number of hooks of each info when it was looked up
  needPrep,   \* resolve: need_task_prepare
  ri,         \* resolve: index into tasks / infos of the current loop
  hj,         \* prepare_for_redo: index of the hook being run
  replayed,   \* history: tasks whose closure this attempt replayed
  passed,     \* history: <<info, hook index>> pairs this attempt ran with TRUE
  globalOK,   \* history: this attempt's global prepare_for_redo returned TRUE
  hookCalls   \* history: <<task, hook>> in the order this attempt ran them

vars == <<ctm, tfm, infos, stack, body, pc, runs, started, attempts, rtasks,
          rinfos, rsnap, needPrep, ri, hj, replayed, passed, globalOK,
          hookCalls>>
resolveVars == <<rtasks, rinfos, rsnap, needPrep, ri, hj>>
historyVars == <<replayed, passed, globalOK, hookCalls>>

WorkerPCs == {"idle", "call"}
PublisherPCs == {"idle", "lookup_ctxt", "lookup_tasks", "end_lookup",
                 "prepare", "global", "replay", "call",
                 "succeeded", "failed", "aborted", "blocked"}
Resolving == PublisherPCs \ {"idle", "succeeded", "failed", "aborted", "blocked"}
Info == [task : Task, fn : Closures, hooks : Seq(Hooks)]

-----------------------------------------------------------------------------
(* Registry lookups.                                                       *)

\* ctxt_task_map::lookup: the context has a task_func_map.
ctm_lookup(c) == c \in ctm

\* task_func_map::lookup: the info stored for the task, or nullptr.
tfm_lookup(t) == tfm[t]

\* ctxt_task_map::get: the context's task_func_map, made when absent.
ctm_get(c) == ctm \cup {c}

\* task_func_map::set: store the info for the task.
tfm_set(t, i) == [tfm EXCEPT ![t] = i]

\* task::info::on_prepare_for_redo: append the hook under the info's mutex.
info_on_prepare_for_redo(i, h) == [infos EXCEPT ![i].hooks = Append(@, h)]

\* task::lookup_info: never creates the context's map.
lookup_info(t) == IF ctm_lookup(t[1]) THEN tfm_lookup(t) ELSE NoInfo

\* task::info::needs_prepare_for_redo
needs_prepare_for_redo(i) == infos[i].hooks # <<>>

\* The current task of a thread: the innermost established one.
Current(th) == Last(stack[th])

\* A task is running when it is established on some thread.
Busy(t) == \E th \in Threads : \E k \in 1..Len(stack[th]) : stack[th][k] = t

\* Thread th is running a task of context c.
RunsIn(th, c) == \E k \in 1..Len(stack[th]) : stack[th][k][1] = c

\* The caller's contract: the child's tasks have finished when its publish
\* result is resolved (resolve_begin), and none starts afterwards.
MayRun(t) == t[1] = Child => attempts = 0

-----------------------------------------------------------------------------
(* Running closures.                                                       *)

\* _establish e(t); fn(): push t and start the closure's body.
Call(th, t, f) ==
  /\ stack' = [stack EXCEPT ![th] = Append(@, t)]
  /\ body' = [body EXCEPT ![th] = HookRegs[f]]

\* A worker starts a run of t: the run counts, and a first run of a task of
\* Child fixes its start time.
StartRun(w, t) ==
  /\ pc[w] = "idle"
  /\ runs < MaxRuns
  /\ ~Busy(t)
  /\ MayRun(t)
  /\ pc' = [pc EXCEPT ![w] = "call"]
  /\ runs' = runs + 1
  /\ started' = IF t[1] = Child /\ ~Contains(started, t)
                  THEN Append(started, t) ELSE started

\* task::remember_and_call: ctm.get creates the context's map if absent,
\* a new info replaces the stored one (hooks of the old info included), and
\* fn runs with the task established.
remember_and_call(w, t, f) ==
  /\ StartRun(w, t)
  /\ ctm' = ctm_get(t[1])
  /\ infos' = Append(infos, [task |-> t, fn |-> f, hooks |-> <<>>])
  /\ tfm' = tfm_set(t, Len(infos) + 1)
  /\ Call(w, t, f)
  /\ UNCHANGED <<attempts, resolveVars, replayed, passed, globalOK, hookCalls>>

\* A task run through the core's task API instead of remember_and_call (spec
\* section 7, RegistryMiss): the core records its start, so it may be a
\* redo task, but the registry holds no info for it and no closure of this
\* file runs.
core_run(w, t) ==
  /\ pc[w] = "idle"
  /\ runs < MaxRuns
  /\ ~Busy(t)
  /\ MayRun(t)
  /\ runs' = runs + 1
  /\ started' = IF t[1] = Child /\ ~Contains(started, t)
                  THEN Append(started, t) ELSE started
  /\ UNCHANGED <<ctm, tfm, infos, stack, body, pc, attempts, resolveVars,
                 historyVars>>

\* task::get_info on t by an idle worker: ctm.get creates the context's
\* map when absent, and task_func_map::get's operator[] stores a null info
\* for a task that has none (no change to tfm: a null entry and no entry
\* both look up as nullptr).  Once the map exists the call changes nothing
\* the model tells apart, so only the first call is a step.
get_info(w, t) ==
  /\ pc[w] = "idle"
  /\ ~ctm_lookup(t[1])
  /\ ctm' = ctm_get(t[1])
  /\ UNCHANGED <<tfm, infos, stack, body, pc, runs, started, attempts,
                 resolveVars, historyVars>>

\* task::on_prepare_for_redo, called by the running closure on the current
\* task: a no-op when the task has no info, else info::on_prepare_for_redo
\* appends the hook under the info's mutex.
on_prepare_for_redo(th) ==
  /\ body[th] # <<>>
  /\ LET i == lookup_info(Current(th)) IN
       infos' = IF i = NoInfo THEN infos
                ELSE info_on_prepare_for_redo(i, Head(body[th]))
  /\ body' = [body EXCEPT ![th] = Tail(@)]
  /\ UNCHANGED <<ctm, tfm, stack, pc, runs, started, attempts, resolveVars,
                 historyVars>>

\* Leaving a closure, normally or by an exception: ~_establish restores the
\* previous task.
LeaveClosure(th) ==
  /\ pc[th] = "call"
  /\ stack' = [stack EXCEPT ![th] = Front(@)]
  /\ body' = [body EXCEPT ![th] = <<>>]

\* The closure returns.  A worker goes idle; the publisher replays the next
\* task.
ClosureReturn(th) ==
  /\ body[th] = <<>>
  /\ LeaveClosure(th)
  /\ pc' = [pc EXCEPT ![th] = IF th = Publisher THEN "replay" ELSE "idle"]
  /\ ri' = IF th = Publisher THEN ri + 1 ELSE ri
  /\ UNCHANGED <<ctm, tfm, infos, runs, started, attempts, rtasks, rinfos,
                 rsnap, needPrep, hj, historyVars>>

\* Mutant: an exception out of a replayed closure is caught and reported
\* as a failed resolve.
ClosureThrow_asfail(th) ==
  /\ LeaveClosure(th)
  /\ pc' = [pc EXCEPT ![th] = IF th = Publisher THEN "failed" ELSE "idle"]
  /\ UNCHANGED <<ctm, tfm, infos, runs, started, attempts, resolveVars,
                 historyVars>>

\* The closure throws.  A worker's caller catches it; during replay the
\* exception leaves resolve, after the tasks replayed so far.
ClosureThrow(th) ==
  /\ LeaveClosure(th)
  /\ pc' = [pc EXCEPT ![th] = IF th = Publisher THEN "aborted" ELSE "idle"]
  /\ UNCHANGED <<ctm, tfm, infos, runs, started, attempts, resolveVars,
                 historyVars>>

-----------------------------------------------------------------------------
(* pub_result::resolve, one step per lock acquisition or callback.         *)

\* pub_result::redo_tasks_by_start_time copies the handle's redo tasks: some
\* of the tasks of Child, in the order they started.
RedoTasksByStartTime == { SelectSeq(started, LAMBDA t : t \in S) :
                          S \in SUBSET ToSet(started) }

SetPC(v) == pc' = [pc EXCEPT ![Publisher] = v]

\* Entry: fetch the redo tasks; an empty list succeeds at once.  The caller
\* resolves after the child's work is done, and again after a successful
\* resolve when the retried publish fails.
resolve_begin ==
  /\ pc[Publisher] \in {"idle", "succeeded"}
  /\ attempts < MaxResolves
  /\ ~\E w \in Workers : RunsIn(w, Child)
  /\ \E tasks \in RedoTasksByStartTime :
       /\ rtasks' = tasks
       /\ SetPC(IF tasks = <<>> THEN "succeeded" ELSE "lookup_ctxt")
  /\ attempts' = attempts + 1
  /\ rinfos' = <<>> /\ rsnap' = <<>> /\ needPrep' = FALSE /\ ri' = 1
  /\ replayed' = <<>> /\ passed' = {} /\ globalOK' = FALSE
  /\ hookCalls' = <<>>
  /\ UNCHANGED <<ctm, tfm, infos, stack, body, runs, started, hj>>

\* ctm.lookup(ctxt): no task_func_map means nothing can be redone.
resolve_lookup_ctxt ==
  /\ pc[Publisher] = "lookup_ctxt"
  /\ SetPC(IF ctm_lookup(Child) THEN "lookup_tasks" ELSE "failed")
  /\ UNCHANGED <<ctm, tfm, infos, stack, body, runs, started, attempts,
                 resolveVars, historyVars>>

\* Mutant: need_task_prepare = ti->needs_prepare_for_redo(), overwritten by
\* each task instead of accumulated.
resolve_lookup_task_overwrite ==
  /\ pc[Publisher] = "lookup_tasks"
  /\ LET i == tfm_lookup(rtasks[ri]) IN
       IF i = NoInfo
       THEN /\ SetPC("failed")
            /\ UNCHANGED <<rinfos, rsnap, needPrep, ri>>
       ELSE /\ rinfos' = Append(rinfos, i)
            /\ rsnap' = Append(rsnap, Len(infos[i].hooks))
            /\ needPrep' = needs_prepare_for_redo(i)
            /\ ri' = ri + 1
            /\ SetPC(IF ri = Len(rtasks) THEN "end_lookup" ELSE "lookup_tasks")
  /\ UNCHANGED <<ctm, tfm, infos, stack, body, runs, started, attempts,
                 rtasks, hj, historyVars>>

\* Mutant: the nullptr check on the task's info is missing.
resolve_lookup_task_nocheck ==
  /\ pc[Publisher] = "lookup_tasks"
  /\ LET i == tfm_lookup(rtasks[ri]) IN
       /\ rinfos' = Append(rinfos, i)
       /\ rsnap' = Append(rsnap, IF i = NoInfo THEN 0 ELSE Len(infos[i].hooks))
       /\ needPrep' = (needPrep \/ (i # NoInfo /\ needs_prepare_for_redo(i)))
       /\ ri' = ri + 1
       /\ SetPC(IF ri = Len(rtasks) THEN "end_lookup" ELSE "lookup_tasks")
  /\ UNCHANGED <<ctm, tfm, infos, stack, body, runs, started, attempts,
                 rtasks, hj, historyVars>>

\* First loop: look every task up, fail on the first one without an info.
resolve_lookup_task ==
  /\ pc[Publisher] = "lookup_tasks"
  /\ LET i == tfm_lookup(rtasks[ri]) IN
       IF i = NoInfo
       THEN /\ SetPC("failed")
            /\ UNCHANGED <<rinfos, rsnap, needPrep, ri>>
       ELSE /\ rinfos' = Append(rinfos, i)
            /\ rsnap' = Append(rsnap, Len(infos[i].hooks))
            /\ needPrep' = (needPrep \/ needs_prepare_for_redo(i))
            /\ ri' = ri + 1
            /\ SetPC(IF ri = Len(rtasks) THEN "end_lookup" ELSE "lookup_tasks")
  /\ UNCHANGED <<ctm, tfm, infos, stack, body, runs, started, attempts,
                 rtasks, hj, historyVars>>

\* After the first loop: enter the top-level task of the child context for
\* the per-task hooks, or skip straight to the global prepare step.
resolve_end_lookup ==
  /\ pc[Publisher] = "end_lookup"
  /\ IF needPrep
     THEN /\ stack' = [stack EXCEPT ![Publisher] = Append(@, <<Child, TopLevel>>)]
          /\ SetPC("prepare")
     ELSE /\ SetPC("global")
          /\ UNCHANGED stack
  /\ ri' = 1 /\ hj' = 1
  /\ UNCHANGED <<ctm, tfm, infos, body, runs, started, attempts, rtasks,
                 rinfos, rsnap, needPrep, historyVars>>

\* The hook being run of info i returns TRUE (the loop moves on), FALSE or
\* throws (the top-level task is left and resolve ends).
HookReturns(i) ==
  \E outcome \in {"true", "false", "throw"} :
    IF outcome = "true"
    THEN /\ passed' = passed \cup {<<i, hj>>}
         /\ hj' = hj + 1
         /\ UNCHANGED <<stack, pc, ri>>
    ELSE /\ stack' = [stack EXCEPT ![Publisher] = Front(@)]
         /\ SetPC(IF outcome = "false" THEN "failed" ELSE "aborted")
         /\ UNCHANGED <<passed, ri, hj>>

\* info::prepare_for_redo(t) for each info in turn: run its hooks in order
\* under its mutex and stop at the first that does not return TRUE.  A FALSE
\* makes resolve return false; a throw leaves resolve.  Either way
\* establish_and_run restores the stack.  A re-entrant hook calls
\* task::on_prepare_for_redo on the current task, the child's top-level
\* task: a no-op without an info, an append to another info, and, when it is
\* the info whose mutex this loop holds, a second lock of that std::mutex
\* on the same thread, which never returns.
resolve_prepare_hook ==
  /\ pc[Publisher] = "prepare"
  /\ ri <= Len(rinfos)
  /\ LET i == rinfos[ri]
         hooks == infos[i].hooks
         cur == lookup_info(Current(Publisher)) IN
       IF hj > Len(hooks)
       THEN /\ ri' = ri + 1 /\ hj' = 1
            /\ UNCHANGED <<stack, pc, hookCalls, passed, infos>>
       ELSE /\ hookCalls' = Append(hookCalls, <<rtasks[ri], hooks[hj]>>)
            /\ IF hooks[hj] \in ReentrantHooks /\ cur = i
               THEN /\ SetPC("blocked")
                    /\ UNCHANGED <<stack, passed, ri, hj, infos>>
               ELSE /\ infos' = IF hooks[hj] \in ReentrantHooks /\ cur # NoInfo
                                  THEN info_on_prepare_for_redo(cur, hooks[hj])
                                  ELSE infos
                    /\ HookReturns(i)
  /\ UNCHANGED <<ctm, tfm, body, runs, started, attempts, rtasks,
                 rinfos, rsnap, needPrep, replayed, globalOK>>

\* Every hook returned TRUE: leave the top-level task.
resolve_prepare_done ==
  /\ pc[Publisher] = "prepare"
  /\ ri > Len(rinfos)
  /\ stack' = [stack EXCEPT ![Publisher] = Front(@)]
  /\ SetPC("global")
  /\ UNCHANGED <<ctm, tfm, infos, body, runs, started, attempts,
                 resolveVars, historyVars>>

\* pub_result::prepare_for_redo, the global step: false fails the resolve.
resolve_global_prepare ==
  /\ pc[Publisher] = "global"
  /\ \E ok \in BOOLEAN :
       /\ globalOK' = ok
       /\ SetPC(IF ok THEN "replay" ELSE "failed")
  /\ ri' = 1
  /\ UNCHANGED <<ctm, tfm, infos, stack, body, runs, started, attempts,
                 rtasks, rinfos, rsnap, needPrep, hj, replayed, passed,
                 hookCalls>>

\* Second loop: t.establish_and_run(ti->function) for each task in order,
\* with the info captured by the first loop.
resolve_replay ==
  /\ pc[Publisher] = "replay"
  /\ IF ri <= Len(rinfos)
     THEN /\ Call(Publisher, rtasks[ri], infos[rinfos[ri]].fn)
          /\ replayed' = Append(replayed, rtasks[ri])
          /\ SetPC("call")
     ELSE /\ SetPC("succeeded")
          /\ UNCHANGED <<stack, body, replayed>>
  /\ UNCHANGED <<ctm, tfm, infos, runs, started, attempts, resolveVars,
                 passed, globalOK, hookCalls>>

-----------------------------------------------------------------------------
Init ==
  /\ ctm = {}
  /\ tfm = [t \in Task |-> NoInfo]
  /\ infos = <<>>
  /\ stack = [th \in Threads |-> <<>>]
  /\ body = [th \in Threads |-> <<>>]
  /\ pc = [th \in Threads |-> "idle"]
  /\ runs = 0 /\ started = <<>> /\ attempts = 0
  /\ rtasks = <<>> /\ rinfos = <<>> /\ rsnap = <<>> /\ needPrep = FALSE
  /\ ri = 1 /\ hj = 1
  /\ replayed = <<>> /\ passed = {} /\ globalOK = FALSE /\ hookCalls = <<>>

\* Tasks a worker may run: the top-level task of a context runs its body.
RunnableTask == Task

WorkerStep(w) ==
  \/ \E t \in RunnableTask, f \in Closures :
       remember_and_call(w, t, f)
  \/ \E t \in RunnableTask : core_run(w, t)
  \/ \E t \in RunnableTask : get_info(w, t)
  \/ on_prepare_for_redo(w)
  \/ ClosureReturn(w)
  \/ ClosureThrow(w)

PublisherStep ==
  \/ resolve_begin
  \/ resolve_lookup_ctxt
  \/ resolve_lookup_task
  \/ resolve_end_lookup
  \/ resolve_prepare_hook
  \/ resolve_prepare_done
  \/ resolve_global_prepare
  \/ resolve_replay
  \/ on_prepare_for_redo(Publisher)
  \/ ClosureReturn(Publisher)
  \/ ClosureThrow(Publisher)

\* Every thread is between operations and the publisher has stopped.
Finished ==
  /\ \A w \in Workers : pc[w] = "idle"
  /\ pc[Publisher] \in {"succeeded", "failed", "aborted"}
  /\ UNCHANGED vars

Next == (\E w \in Workers : WorkerStep(w)) \/ PublisherStep \/ Finished

\* The publishing thread runs resolve to its end: it waits only on mutexes
\* that other threads hold for a bounded time.
Fairness == WF_vars(PublisherStep)

Spec == Init /\ [][Next]_vars /\ Fairness

-----------------------------------------------------------------------------
(* Properties.                                                             *)

TypeOK ==
  /\ ctm \subseteq Ctxts
  /\ infos \in Seq(Info)
  /\ tfm \in [Task -> 0..Len(infos)]
  /\ stack \in [Threads -> Seq(Task)]
  /\ body \in [Threads -> Seq(Hooks)]
  /\ \A w \in Workers : pc[w] \in WorkerPCs
  /\ pc[Publisher] \in PublisherPCs
  /\ runs \in 0..MaxRuns /\ attempts \in 0..MaxResolves
  /\ started \in Seq(Task) /\ rtasks \in Seq(Task)
  /\ rinfos \in Seq(1..Len(infos)) /\ rsnap \in Seq(Nat)
  /\ needPrep \in BOOLEAN /\ globalOK \in BOOLEAN
  /\ ri \in Nat /\ hj \in Nat
  /\ replayed \in Seq(Task) /\ passed \subseteq (Nat \X Nat)
  /\ hookCalls \in Seq(Task \X Hooks)

\* No task is replayed unless the global prepare_for_redo returned true and
\* every prepare-for-redo hook its info held when resolve looked it up ran
\* in this attempt and returned true (need_task_prepare, the two loops).
ReplayGatedByHooks ==
  \A j \in 1..Len(replayed) :
    /\ globalOK
    /\ \A k \in 1..rsnap[j] : <<rinfos[j], k>> \in passed

\* pub_result::resolve implements what resolution promises (ResolveSpec):
\* all or nothing up to the replay phase, redo strictly in start-time order
\* (each redo task once on success), a partial redo only after an exception
\* out of a replayed closure, and every resolve that starts comes to an end.
\* The lookups, hooks and global step are the atomic validation of the
\* abstract spec; the worker steps are invisible to it.
AbstractStatus ==
  CASE pc[Publisher] \in {"lookup_ctxt", "lookup_tasks", "end_lookup",
                          "prepare", "global", "blocked"} -> "resolving"
    [] pc[Publisher] \in {"replay", "call"}   -> "replaying"
    [] OTHER                                   -> pc[Publisher]

Abstract == INSTANCE ResolveSpec
              WITH Tasks <- Task, status <- AbstractStatus,
                   redo <- rtasks, done <- replayed

ResolveRefined == Abstract!Spec

\* Within one resolve, no prepare-for-redo hook of a task is run twice: each
\* registration made by the task's recorded run is run once before the redo
\* (task::info, "invoked, in registration order, immediately before any
\* redo").  Closures register distinct hooks.
NoRepeatedHookCall ==
  \A j, k \in 1..Len(hookCalls) : j # k => hookCalls[j] # hookCalls[k]

=============================================================================
