# TLA+ models of the MDS C++ API

This directory holds TLA+ models of the code under `src/` in this repository. They are checked with TLC. The repository ships the C++ API of Managed Data Structures (`src/cpp-api`), its two example programs, and the Python binding helpers (`src/python-api/mds/include/helpers.h`). The MDS core is not in the repository: the managed heap, isolation contexts, publish, and task handles live behind `iso_ctxt.h`. Where the API code calls into the core, the model follows the behaviour `spec.md` describes. `PROJECT.json` marks those definitions `spec_modelled`.

## 1. Inventory of the system

| Part | Source | State | Operations that change state |
|---|---|---|---|
| Task info and registries | `iso_ctxt.cpp` 35-129 | For each context (`ctxt_task_map`), a map from task to `task::info`. Each info holds a closure and a vector of prepare-for-redo hooks guarded by a mutex. | `ctxt_task_map::get` (creates a map), `task_func_map::set`, `info::on_prepare_for_redo` |
| Task execution | `iso_ctxt.cpp` 131-150, `iso_ctxt.h` | The current task of each thread (`_establish` scopes) | `remember_and_call` (new info, establish, call), `establish_and_run` (establish, call; called only by `resolve`), `task::on_prepare_for_redo` |
| Publish resolution | `iso_ctxt.cpp` 153-230 | Locals of `pub_result::resolve` plus the registries | `resolve`: look up tasks, run hooks under the child's top-level task, global `prepare_for_redo`, replay closures in start order |
| Managed pointer | `mds_ptr.h` | `shared_ptr` ownership of managed objects | Construction, destruction, allocation, copy, move, null assignment, swap, static/dynamic/const casts, writes through `->`, equality, arrays (`size`, `at`/`[]`, `fill`; the reads `begin`/`end`/`empty`) |
| Inventory example | `tests/inventory/inventory.h`, `init.cpp` | A doubly linked list of products with a size, counts and sales | `add`, `append`, `remove`, `stock_in(_name)`, `order_out(_name)`, and the product loop of `init` |
| Tutorial example | `tests/tutorial/tutorial.h` | Products pushed onto a namespace-bound list, and a by-sku index | Constructor (isolated push, sku binding), `lookup`, `check`, `sell` |
| Python helpers | `helpers.h` | Thread-local init flag, the current task handle | `initialize_base_task` and the entry points that call it, `TaskWrapper::Establish` scopes |

**How the parts interact.** Workers run tasks of a context. A task's closure may register hooks on the current task through `task::on_prepare_for_redo`. When a publish of the child context conflicts, the caller calls `resolve` on the publish result. `resolve` walks the registries that the workers filled and calls back into the hooks and closures. The examples build their data with `mds_ptr` handles.

**Hard behaviours.** These are the behaviours a unit test would hardly reach:

- Replaying closures re-registers hooks.
- A hook or closure throws or fails part way through `resolve`.
- The hook vector is read without its mutex.
- Hooks run while the info mutex is held.
- Two sellers race between `check` and `sell`.
- The order of the product list disagrees with its search.

`PROJECT.json` lists each hazard under `hazards`, at the line where it bites.

## 2. Modules and correspondence to the code

### `IsoCtxt.tla` (with `MC_IsoCtxt.tla`)

This module models `iso_ctxt.cpp`.

**State.**

- `ctm` is the set of contexts with a `task_func_map`.
- `tfm[t]` is the index of task `t`'s info in `infos`, or `NoInfo`.
- `infos` is the sequence of every `task::info` ever made, as `[task, fn, hooks]`. A `shared_ptr` that resolve still holds stays readable after the registry replaces it.
- `stack[th]` is the chain of `_establish` scopes of thread `th`.
- `body[th]` holds the hooks the running closure still registers.

**Actions.**

- Worker actions: `remember_and_call` and `get_info`. In the repository only `resolve` calls `establish_and_run` (`iso_ctxt.cpp:189`, `:218`), so workers do not. `core_run` is a task run through the core's task API instead of `remember_and_call` (spec §7, RegistryMiss): the core lists it as a redo task and the registry has no info for it, which reaches resolve's null-info failure (`iso_ctxt.cpp:171`). `get_info` creates the context's map. Its null entry looks up like no entry, and no caller in the repository calls it.
- Closure actions: `on_prepare_for_redo`, `LeaveClosure`, `ClosureReturn` and `ClosureThrow`.
- Resolve has one action per step, in code order: `resolve_begin`, `resolve_lookup_ctxt`, `resolve_lookup_task`, `resolve_end_lookup`, `resolve_prepare_hook` (one hook per step), `resolve_prepare_done`, `resolve_global_prepare` and `resolve_replay`.
  - A hook returns true, returns false, or throws.
  - The global prepare step succeeds or fails.
  - A replayed closure returns or throws.
- The prepare phase establishes `<<Child, TopLevel>>`. That is `ctxt.top_level_task()`, where `ctxt` is the publish result's source context: the child.

**History variables.**

- `replayed`, `passed`, `globalOK` and `hookCalls` record what resolve did.

**Re-entrant hooks.** A hook in `ReentrantHooks` calls `task::on_prepare_for_redo` on the current task when it runs. During the prepare phase, the current task is the child's top-level task. If that task's info is the one whose mutex `prepare_for_redo` holds, the publisher moves to `"blocked"`, a second lock of the mutex that never returns. The main configuration has no re-entrant hooks.

**Top-level task.** Workers may run the child's top-level task as well as its other tasks. The top-level task runs the child's body, so it can be a recorded redo task with hooks of its own.

**Refinement.** `ResolveSpec.tla` states what resolution promises, with each phase as one atomic step:

- Begin, with the redo tasks in start order.
- Fail or abort during validation, with nothing redone.
- Validate.
- Redo the next task.
- Succeed once every task is redone.
- Abort after a closure exception, with a partial redo.

Weak fairness on the resolution steps makes every started resolution end. In `IsoCtxt`, `Abstract == INSTANCE ResolveSpec WITH ...` maps the abstract state as follows:

- `status` is the publisher's pc, grouped: the lookups, hooks and global step are `"resolving"`; replay and call are `"replaying"`.
- `redo` is `rtasks`.
- `done` is `replayed`.

The property `ResolveRefined` is `Abstract!Spec`.

**Caller's assumption.** A publish result is resolved after the child's work: resolve starts only when no worker is inside a task of the child context (`resolve_begin`), and no child task starts once resolution has begun (`MayRun`). Spec §4.3 resolves "a just-finished isolated sub-computation".

### `Inventory.tla` (with `MC_Inventory.tla`)

This module models the product list of `inventory.h`.

**State.** Products are allocated cells `prod[1..alloc]` with `name`, `count`, `nbr_sold`, `next` and `prev`. The list itself is `head` and `size`. The history variables are `linked` (what the code's return values report as in the list) and `supplied` (units brought into stock per name).

**Helpers.** `find_before`, `find_last` and `get` are RECURSIVE walks. Each has a fuel bound, so a cyclic list cannot hang TLC. The list operations are functions on a list state `[prod, head, size]`. They are composed exactly as the `Inventory` member functions compose them.

**Actions.** `Inventory_add`, `init_append` (the loop of `init.cpp`), `Inventory_remove`, `stock_in_name` and `order_out_name`.

**Abstracted data.** Prices and revenue are left out.

### `ResolveSpec.tla`

This is the abstract specification of resolution described above. It is written from spec §4.3 and §7, not from the code.

### `MdsPtr.tla` (with `MC_MdsPtr.tla`)

This module models `mds_ptr<T>`.

**State.** `scope` is the set of handle variables that exist, constructed and not yet destroyed. `ref[h]` is the object that handle `h` shares. `use[o]` is the `shared_ptr` use count. `live` is the set of objects not yet destroyed. `dyn` and `val` are each object's dynamic type and contents.

**Contents.** An object's contents are a sequence: one field for a record, and the elements for an array (type `Array`, that is `mds_ptr<mds_array<E>>`).

**Actions.**

- Construction and destruction: `construct_null`, `copy_construct`, `move_construct` and `destroy`. `destroy` is the implicit destructor, which destroys `_ptr` and releases its share.
- On handles in scope: `from_shared` (which may also construct its target), `copy_assign`, `move_assign`, `assign_null`, `swap`, `dynamic_pointer_cast`, `static_pointer_cast`, `const_pointer_cast` and `write`.

`use`, `live` and `scope` follow the `shared_ptr` counts, which are the standard library's and not checked. For array handles there are also `at` (`p.at(i) = v` and `p[i] = v`) and `fill`. `at` records in `access` how it ended: `"ok"`, `"out_of_range"` (thrown by `mds_array::at`), or `"undefined"` (through a null `_ptr`). `size`, `begin`/`cbegin`, `end`/`cend` and `empty` are operators. An iterator is its array and a position; `NoIter` is the value-initialized iterator that a null handle returns. The operators `Eq`, `EqNull` and `IsSet` are the comparisons.

### `PyTasks.tla` (with `MC_PyTasks.tla`)

This module models the task helpers of the Python binding (`helpers.h`).

**State.** Per thread:

- `initialized`: the thread_local `already_initialized` flag.
- `baseInits`: how many times `init_thread_base_task` was called on the thread.
- `current`: the thread_local `_current()`.
- `scopes`: history, the task that was current when each open `Establish` was entered.

**Actions.**

- The four entry points `default_task`, `run`, `run_in_iso_ctxt` and `create_marray`. Each calls `initialize_base_task`.
- `Establish` and `EndEstablish`, the constructor and destructor of `TaskWrapper::Establish`.

**The core's `pop()`.** `task_handle::pop()` is in the core, outside the repository. Nothing in the repository pushes onto the core's stack for a Python thread, so the model has `pop()` return the default task.

### `Tutorial.tla` (with `MC_Tutorial.tla`)

This module models the `Product` constructor of `tutorial.h`, and sales through `lookup`, `check` and `sell`.

**State.**

- `head` is the binding of `first_product_key` in `data_ns`.
- `next[m]` is the `next_product` field of the product made by thread `m`.
- `bySku` is the `by_sku` namespace.
- `snap[m]` is the head that `m`'s isolated block read.
- `n_in_stock`, `n_sold` and `revenue` are each product's fields. `price` never changes after construction, so it is the constant `PriceOf`.
- `order[s]` is the sku, quantity and price of seller `s`'s sale. `spc[s]` is where the seller is. `sread[s]` is the product it looked up and the fields its isolated block read.
- `unguarded` is a history variable: the products sold by a `check` and a `sell` made as separate calls.

**Actions.**

- `IsolatedBlock`: the lambda passed to `isolated`.
- `Publish`: `isolated`'s publish. When the head changed since the block read it, the publish fails and the block is redone; this is spec-modelled, since `isolated` is in the core.
- `BindSku`: the `by_sku` binding.
- Sales. The tutorial does not include the code that sells, so each seller starts in one of two modes:
  - `SaleBlock` and `SalePublish` make `lookup`, `check` and `sell` in one isolated block. The publish fails and the block is redone when the binding or the fields it read changed.
  - `CallCheck` then `CallSell` make the same calls separately on the parent.

  `CheckFails` is `check`'s two throws. `sell` is the three compound assignments, with unsigned wrap (`Unsigned`). TLC integers are 32-bit signed, so the modulus `UnsignedMod` is 2^16 in the configuration instead of 2^32. The wrap is the same: `0 - 1` is the largest value.

**Fairness.** Weak fairness per maker and per seller thread: each thread keeps executing its calls.

## 3. Runs

| Run | cfg | Expect | What it shows |
|---|---|---|---|
| iso_resolve | `MC_IsoCtxt.cfg` | pass | `IsoCtxt` refines `ResolveSpec`. Resolve is all-or-nothing up to replay, redoes in start order, leaves a partial redo only after an exception, and always ends. It never replays past a hook that did not pass |
| iso_reentrant_hook | `MC_IsoCtxt_reentrant.cfg` | violation | A hook of the top-level task that re-registers itself locks the info mutex that `prepare_for_redo` holds; resolve never ends (the liveness part of `ResolveRefined`) |
| iso_hook_dup | `MC_IsoCtxt_hookdup.cfg` | violation | Resolve's replay (`iso_ctxt.cpp:218`) runs the closure again under the same task, so its hooks accumulate on the same info; the next resolve of the same publish result calls a hook twice |
| inventory_list | `MC_Inventory.cfg` | pass | The list stays acyclic and exactly the reported products are linked; `order_out` never drives a count below zero |
| inventory_get | `MC_Inventory_GetFindsListed.cfg` | violation | `get` misses listed products, because `find_before`'s predicate assumes descending order |
| inventory_prev | `MC_Inventory_PrevLinks.cfg` | violation | `add` leaves a stale `prev` |
| mdsptr_null_at | `MC_MdsPtr_nullat.cfg` | violation | `at(i)` and `[]` on a null array handle dereference null, instead of reporting out_of_range as on an empty array (spec §3) |
| pytasks_base | `MC_PyTasks.cfg` | pass | No Python thread gets its base task installed twice (the type invariant), whatever order the threads call the entry points in |
| pytasks_restore | `MC_PyTasks_restore.cfg` | violation | Leaving the inner of two nested `Establish` scopes makes the default task current instead of the outer scope's task |
| tutorial_push | `MC_Tutorial.cfg` | pass | Concurrent constructors never lose or duplicate a list push. A sale that checks and sells in one isolated block keeps its product's stock, sales and revenue consistent (`SalesConsistent`); only separate `check` and `sell` calls oversell, wrapping `n_in_stock`. Every constructor and sale returns |
| mdsptr_ownership | `MC_MdsPtr.cfg` | pass | Casts keep handles well typed, and `==` is an equivalence consistent with null. For every array handle, `empty`, `size` and the `begin`..`end` range agree, null ones included (spec §8) |

Every property of a passing run has a mutant in `PROJECT.json`: a plausible bug in a mapped definition that TLC finds.

### Bounds

- **IsoCtxt:**
  - Two workers.
  - One context, with two task identities plus the top-level task. Workers run all three.
  - Closures: `fA` registers two hooks and `fB` none.
  - `MaxRuns = 3` task runs, so a task can run twice and both closure kinds occur.
  - `MaxResolves = 2`, so a failed resolve is retried, which the hook-duplication finding needs.
  - A second context only separated the registries and multiplied the states; its isolation is in the plan.
- **Inventory:**
  - Three names, three product cells, quantities 0..1, orders of 1 or 2 units.
  - `MaxCount = 2`, so an order asks for more than is in stock.
  - `MaxSupply = 2`.
  - Every counterexample above takes at most three steps.
- **MdsPtr:**
  - Four handles: `Base`, `Derived`, and two array handles.
  - Three objects, two values, and arrays of size 0 or 1.
  - Converting moves, failing downcasts, shared referents and value-equal distinct objects all occur.
  - Indices 0..1 reach an in-range access, `i = size`, and access through null.
  - Five handles took more than five minutes.
  - The two array handles are symmetric, and so are the two values (`MC_Symmetry`). No property tells them apart.
- **PyTasks:**
  - Two threads, two tasks plus the default task, and scopes nested two deep.
  - The restore violation needs two nested scopes.
  - The base-task property needs a second thread that calls in after the first.

- **Tutorial:**
  - Three makers, so two pushes can both conflict with a third.
  - Three distinct skus.
  - Two sellers each sell one unit of `s1`, at price 1 or 2 (1 is right), from a stock of one. Two sales compete for the last unit, a wrong price throws, and a sale that starts before `m1` binds `s1` throws `no_such_sku`.

### Fairness

`IsoCtxt` assumes weak fairness of the publisher's steps only. `resolve` is a sequential function on the calling thread: once it runs, nothing but its own progress is needed. Workers get no fairness because a worker may never run another task. `Tutorial` assumes weak fairness per maker and seller thread, because each thread runs its calls to completion, and a failed publish redoes the block on the same thread. The other models check safety only.

## 4. What is not modelled

- **`init.cpp` option parsing and all printing.** These are I/O.
- **Duplicate skus in `tutorial.h`.** The constructor binds `by_sku` unconditionally, outside the isolated block, and nothing throws the declared `sku_exists`. A second product with an existing sku therefore replaces the first in the index, and `lookup` no longer finds the first product. No caller in the repository constructs products, so this is left unchecked.
- **`size` in `inventory.h`.** `remove` unlinks a product without decrementing `size` (`inventory.h:214`), so `size` over-counts after any removal. A single add and remove show it, so no run checks it.
- **`stock_in` units in `inventory.h`.** `stock_in(units, p)` ignores `units` (`inventory.h:290`). It is a one-call defect that a unit test reaches, so no run checks it.
- **The rest of `tutorial.h`.** `exists` and `get_first_product` are reads that no modelled caller makes. `push_and_get_first` is never called. `Report` only copies values.
- **Debug counters and type aliases in `helpers.h`.** The `printf` counters and the type aliases are left out; the counters' data race only touches debug output.
- **Forwarding members of `mds_ptr.h`.** The `!=` operators are the negations of `==`. The `std::` functions forward to the members. `as_shared_ptr`, `operator<<`, `operator*` and `ptr_or_null` add no state change or condition of their own.
- **The torn read of the hook vector.** `needs_prepare_for_redo` reads `_prepare_for_redo` without the info mutex (`iso_ctxt.cpp:46`). Under the caller's assumption no registration on the child's infos overlaps resolve, so the race needs a caller that breaks it. Its torn outcomes depend on the library's `std::vector` and are not modelled.
- **Properties that only restate code outside `src/`.** Restoring the current task on every exit is the RAII of `_establish` in `iso_ctxt.h`, and the ownership counts are `std::shared_ptr`'s own. The model writes both, but no change to the repository's code could break them, so no property checks them.
- **Real closures and hooks.** They are opaque model values in `IsoCtxt`.

## 5. Plan

Done:

- The abstract `ResolveSpec`, with the refinement.
- The array access of `MdsPtr`.
- Re-entrant hooks.
- The Python `Establish` scopes.
- The tutorial `Product` constructor.
- Tutorial sales (`check`/`sell`) through an isolated or an unisolated caller, and the null-safe array reads of `MdsPtr`.

Left:

1. **Two contexts.** The model keys the registry by `<<context, id>>`, so isolation between contexts holds by the model's shape, and a second context only multiplies states; it took 3.5 minutes. A model with one map per context would make isolation checkable.
2. **The torn read** at `iso_ctxt.cpp:46` (section 4).
