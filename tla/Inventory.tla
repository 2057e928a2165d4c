------------------------------ MODULE Inventory ------------------------------
(***************************************************************************)
(* The product list of the inventory example,                              *)
(* src/cpp-api/tests/inventory/inventory.h: ListOfProducts, a linked list  *)
(* of Product records with next and prev fields, head and size, and the    *)
(* Inventory operations on it.  One thread drives the inventory, so every  *)
(* operation is one atomic step.                                           *)
(*                                                                         *)
(* Product records live in a heap indexed 1..MaxProducts (new_record hands *)
(* out the next index); Null is the null mds_ptr.  Names are numbers,      *)
(* compared the way the code compares mds_strings.  The fields value,      *)
(* sale and revenue fields and printing are left out: no property reads    *)
(* them.                                                                   *)
(***************************************************************************)
EXTENDS Integers, FiniteSets, FiniteSetsExt, TLC

CONSTANTS
  Names,        \* product names, totally ordered by <
  Quantities,   \* initial counts of products made by callers
  Units,        \* unit arguments of stock_in_name and order_out_name
  MaxProducts,  \* bound on new_record<Product> calls
  MaxCount,     \* bound on a product's count, capping stock_in
  MaxSupply     \* bound on the units brought in per name, capping stock_in

ASSUME /\ Names \subseteq Nat /\ Quantities \subseteq Nat
       /\ Units \subseteq Int /\ MaxProducts \in Nat /\ MaxCount \in Nat /\ MaxSupply \in Nat

Null == 0
Nodes == 1..MaxProducts
Ptr == Nodes \cup {Null}

Product == [name : Names, count : 0..MaxCount, nbr_sold : Nat, next : Ptr, prev : Ptr]

VARIABLES
  prod,      \* prod[p]: fields of Product record p, for p in 1..alloc
  alloc,     \* number of Product records made so far
  head,      \* ListOfProducts::head
  size,      \* ListOfProducts::size
  linked,    \* history: products linked by add/append and not yet removed
  supplied   \* history: supplied[n]: units of product name n brought in

vars == <<prod, alloc, head, size, linked, supplied>>

-----------------------------------------------------------------------------
(* Walking the list.  Each walk is cut off after MaxProducts nodes, which *)
(* only matters on a list with a cycle; ListWellFormed shows there is none.*)

\* ListOfProducts::find_before(fn) from current = cur with fn(p) being
\* p->name > target (find_before_name): the node before the first node for
\* which fn is false, or nullptr when the loop runs off the end.
RECURSIVE FindBeforeFrom(_, _, _, _, _)
FindBeforeFrom(pr, cur, prv, target, fuel) ==
  IF cur = Null \/ fuel = 0 THEN Null
  ELSE IF ~(pr[cur].name > target) THEN prv
  ELSE FindBeforeFrom(pr, pr[cur].next, cur, target, fuel - 1)

find_before_name(pr, hd, target) == FindBeforeFrom(pr, hd, Null, target, MaxProducts)

\* ListOfProducts::find_last
RECURSIVE LastFrom(_, _, _, _)
LastFrom(pr, cur, prv, fuel) ==
  IF cur = Null \/ fuel = 0 THEN prv ELSE LastFrom(pr, pr[cur].next, cur, fuel - 1)

find_last(pr, hd) == LastFrom(pr, hd, Null, MaxProducts)

\* ListOfProducts::get(name): the candidate after find_before_name, if it
\* has that name.
get(pr, hd, nm) ==
  LET pv == find_before_name(pr, hd, nm)
      cand == IF pv = Null THEN hd ELSE pr[pv].next
  IN IF cand # Null /\ pr[cand].name = nm THEN cand ELSE Null

\* The nodes reachable from hd through next, at most MaxProducts of them.
RECURSIVE ReachFrom(_, _, _)
ReachFrom(pr, cur, fuel) ==
  IF cur = Null \/ fuel = 0 THEN {} ELSE {cur} \cup ReachFrom(pr, pr[cur].next, fuel - 1)

Reachable == ReachFrom(prod, head, MaxProducts)

\* Walking MaxProducts + 1 steps from head reaches the end of the list.
RECURSIVE EndsWithin(_, _, _)
EndsWithin(pr, cur, fuel) ==
  IF cur = Null THEN TRUE ELSE IF fuel = 0 THEN FALSE
  ELSE EndsWithin(pr, pr[cur].next, fuel - 1)

-----------------------------------------------------------------------------
(* Operations on a list state L = [prod, head, size].                      *)

\* Mutant: inserting after prev leaves p->next unset.
add_nonext(L, p) ==
  LET pv == find_before_name(L.prod, L.head, L.prod[p].name)
      pr == [L.prod EXCEPT ![p].prev = pv]
  IN IF pv = Null
     THEN [prod |-> [pr EXCEPT ![p].next = L.head], head |-> p, size |-> L.size + 1]
     ELSE [prod |-> [pr EXCEPT ![pv].next = p], head |-> L.head, size |-> L.size + 1]

\* ListOfProducts::add(p): link p after find_before_name(p->name), or at
\* the head when that is nullptr; size++.
add(L, p) ==
  LET pv == find_before_name(L.prod, L.head, L.prod[p].name)
      pr == [L.prod EXCEPT ![p].prev = pv]
  IN IF pv = Null
     THEN [prod |-> [pr EXCEPT ![p].next = L.head], head |-> p, size |-> L.size + 1]
     ELSE [prod |-> [pr EXCEPT ![p].next = pr[pv].next, ![pv].next = p],
           head |-> L.head, size |-> L.size + 1]

\* ListOfProducts::append(p): link p after find_last(), which must not have
\* a greater name; on that failure p->prev is already set and nothing else
\* changes.  The result's ok field is append's return value.
append(L, p) ==
  LET pv == find_last(L.prod, L.head)
      pr == [L.prod EXCEPT ![p].prev = pv]
  IN CASE pv = Null ->
            [prod |-> [pr EXCEPT ![p].next = L.head], head |-> p,
             size |-> L.size + 1, ok |-> TRUE]
       [] pr[p].name >= pr[pv].name ->
            [prod |-> [pr EXCEPT ![pv].next = p], head |-> L.head,
             size |-> L.size + 1, ok |-> TRUE]
       [] OTHER -> [prod |-> pr, head |-> L.head, size |-> L.size, ok |-> FALSE]

\* ListOfProducts::remove(pname): unlink the candidate after
\* find_before_name if it has that name, and clear its links.  The result's
\* got field is the removed product or Null.
remove(L, nm) ==
  LET pv == find_before_name(L.prod, L.head, nm)
      cand == IF pv = Null THEN L.head ELSE L.prod[pv].next
      nx == IF cand = Null THEN Null ELSE L.prod[cand].next
      pr1 == IF pv = Null THEN L.prod ELSE [L.prod EXCEPT ![pv].next = nx]
      pr2 == IF nx = Null THEN pr1 ELSE [pr1 EXCEPT ![nx].prev = L.prod[cand].prev]
  IN IF cand = Null \/ L.prod[cand].name # nm
     THEN [prod |-> L.prod, head |-> L.head, size |-> L.size, got |-> Null]
     ELSE [prod |-> [pr2 EXCEPT ![cand].prev = Null, ![cand].next = Null],
           head |-> IF pv = Null THEN nx ELSE L.head,
           size |-> L.size, got |-> cand]

\* new_record<Product>(name, q, v): the next record of the heap.
new_product(nm, q) == [name |-> nm, count |-> q, nbr_sold |-> 0, next |-> Null, prev |-> Null]

\* Inventory::stock_in(units, p): p->count++.
stock_in(pr, units, p) == [pr EXCEPT ![p].count = @ + 1]

\* Mutant: order_out sells the units asked for without min(n_in_stock, units).
order_out_nomin(pr, units, p) ==
  IF p = Null THEN pr
  ELSE [pr EXCEPT ![p].count = @ - units, ![p].nbr_sold = @ + units]

\* Inventory::order_out(units, p): sell min(count, units) of p; nothing for a
\* null p.
order_out(pr, units, p) ==
  IF p = Null THEN pr
  ELSE LET n == IF pr[p].count < units THEN pr[p].count ELSE units
       IN [pr EXCEPT ![p].count = @ - n, ![p].nbr_sold = @ + n]

-----------------------------------------------------------------------------
(* Actions: the Inventory operations and the init.cpp loop body.          *)

List == [prod |-> prod, head |-> head, size |-> size]

\* prod extended with a new Product record made by new_record.
WithNew(nm, q) == prod @@ ((alloc + 1) :> new_product(nm, q))

Set(L) == prod' = L.prod /\ head' = L.head /\ size' = L.size

Supply(nm, q) == supplied' = [supplied EXCEPT ![nm] = @ + q]

\* Inventory::add(p) of a Product newly made with count q.
Inventory_add(nm, q) ==
  /\ alloc < MaxProducts
  /\ LET p == alloc + 1 IN
       /\ Set(add([List EXCEPT !.prod = WithNew(nm, q)], p))
       /\ linked' = linked \cup {p}
  /\ alloc' = alloc + 1
  /\ Supply(nm, q)

\* One iteration of init's loop: new_record<Product>(pname, q, v) and
\* inv->append(p), whose result Inventory::append drops.
init_append(nm, q) ==
  /\ alloc < MaxProducts
  /\ LET p == alloc + 1
         R == append([List EXCEPT !.prod = WithNew(nm, q)], p) IN
       /\ Set(R)
       /\ linked' = IF R.ok THEN linked \cup {p} ELSE linked
  /\ alloc' = alloc + 1
  /\ Supply(nm, q)

\* Inventory::remove(name).
Inventory_remove(nm) ==
  LET R == remove(List, nm) IN
    /\ Set(R)
    /\ linked' = linked \ {R.got}
    /\ UNCHANGED <<alloc, supplied>>

\* Inventory::stock_in_name(units, name): get(name); when that is nullptr,
\* a new Product with count 0 is made and added; then stock_in.
stock_in_name(units, nm) ==
  /\ supplied[nm] + units <= MaxSupply
  /\ LET p == get(prod, head, nm) IN
       IF p # Null
       THEN /\ prod[p].count < MaxCount
            /\ prod' = stock_in(prod, units, p)
            /\ UNCHANGED <<alloc, head, size, linked>>
       ELSE /\ alloc < MaxProducts
            /\ LET q == alloc + 1
                   R == add([List EXCEPT !.prod = WithNew(nm, 0)], q) IN
                 /\ Set([R EXCEPT !.prod = stock_in(R.prod, units, q)])
                 /\ linked' = linked \cup {q}
            /\ alloc' = alloc + 1
  /\ Supply(nm, units)

\* Inventory::order_out_name(units, name): order_out(units, get(name)).
order_out_name(units, nm) ==
  /\ prod' = order_out(prod, units, get(prod, head, nm))
  /\ UNCHANGED <<alloc, head, size, linked, supplied>>

Init ==
  /\ prod = << >>
  /\ alloc = 0
  /\ head = Null
  /\ size = 0
  /\ linked = {}
  /\ supplied = [n \in Names |-> 0]

Next ==
  \E nm \in Names :
    \/ \E q \in Quantities : Inventory_add(nm, q) \/ init_append(nm, q)
    \/ Inventory_remove(nm)
    \/ \E u \in Units : stock_in_name(u, nm) \/ order_out_name(u, nm)

Spec == Init /\ [][Next]_vars

-----------------------------------------------------------------------------
(* Properties.                                                             *)

TypeOK ==
  /\ alloc \in 0..MaxProducts
  /\ prod \in [1..alloc -> Product]
  /\ head \in 0..alloc
  /\ size \in Nat
  /\ linked \subseteq 1..alloc
  /\ supplied \in [Names -> 0..MaxSupply + Max(Quantities) * MaxProducts]

\* The list is a proper singly linked list of exactly the products that add
\* and append reported linked and remove has not returned: walking next
\* from head ends, it meets those products and no others, and every other
\* product has no successor.
ListWellFormed ==
  /\ EndsWithin(prod, head, MaxProducts)
  /\ Reachable = linked
  /\ \A p \in (1..alloc) \ linked : prod[p].next = Null

\* ListOfProducts::get finds every product in the list by its name, as
\* stock_in_name and order_out_name rely on: get(name) is nullptr only when
\* no listed product has that name.
GetFindsListed ==
  \A p \in Reachable : get(prod, head, prod[p].name) # Null

\* The prev fields mirror the next fields, as remove assumes when it sets
\* next->prev = candidate->prev: the head has no predecessor and the
\* successor of every listed product points back to it.
PrevLinks ==
  /\ head # Null => prod[head].prev = Null
  /\ \A p \in Reachable : prod[p].next # Null => prod[prod[p].next].prev = p

=============================================================================
