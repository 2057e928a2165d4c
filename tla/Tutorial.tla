------------------------------ MODULE Tutorial ------------------------------
(***************************************************************************)
(* Product construction of the tutorial example,                           *)
(* src/cpp-api/tests/tutorial/tutorial.h.                                  *)
(*                                                                         *)
(* Each maker thread constructs one Product.  The constructor pushes the   *)
(* new record onto the list headed by the binding first_product_key in    *)
(* data_ns, inside isolated(): it reads the head, sets next_product to it *)
(* and binds itself as the head.  It then binds itself under its sku in   *)
(* by_sku, outside the isolated block.                                     *)
(*                                                                         *)
(* isolated() belongs to the core (not in the repository).  As the spec    *)
(* describes it, the block runs in a child context, its effects are       *)
(* published to the parent, and when the parent changed what the block    *)
(* read the publish fails, and the block is redone against the parent's  *)
(* current state (pub_result::resolve replays it) before publishing again. *)
(* A product is named by the thread that makes it.                         *)
(*                                                                         *)
(* Seller threads sell a product: Product::lookup(sku), p->check(q, price) *)
(* and p->sell(q, price).  The tutorial leaves the caller out, so a seller *)
(* either makes the three calls inside one isolated block or as separate  *)
(* calls on the parent context.  The fields are unsigned (n_in_stock,     *)
(* n_sold) or float (price, revenue, whole numbers here, so exact).       *)
(***************************************************************************)
EXTENDS Integers, FiniteSets

CONSTANTS
  Makers,      \* threads, each constructing one Product (named by it)
  Skus,        \* sku strings
  SkuOf,       \* SkuOf[m]: the sku the product of m is constructed with
  NoProduct,   \* an unbound name, a null mds_ptr<Product>
  PriceOf,     \* PriceOf[m]: the price the product of m is constructed with
  StockOf,     \* StockOf[m]: the n the product of m is constructed with
  Sellers,     \* threads, each making one sale
  SaleSkus,    \* the skus a seller may ask for
  Qtys,        \* the quantities a seller may ask for
  Prices,      \* the prices a seller may offer
  UnsignedMod  \* 2^32, the range of unsigned (scaled down for TLC, whose
               \* integers are 32-bit signed)

ASSUME SkuOf \in [Makers -> Skus] /\ NoProduct \notin Makers
ASSUME PriceOf \in [Makers -> Prices] /\ StockOf \in [Makers -> Nat]

\* An order: the sku, quantity and price a seller passes to the calls.
Orders == [sku : SaleSkus, q : Qtys, p : Prices]

\* unsigned arithmetic
Unsigned(x) == x % UnsignedMod

Ptr == Makers \cup {NoProduct}

VARIABLES
  head,    \* the product bound to first_product_key in data_ns (parent)
  next,    \* next[m]: next_product of m's product
  bySku,   \* bySku[s]: the product bound to s in by_sku
  snap,    \* snap[m]: the head m's isolated block read
  pc,      \* where each constructor is
  n_in_stock, n_sold, revenue,  \* the fields of each product
  order,   \* order[s]: the sale seller s makes
  spc,     \* where each seller is
  sread,   \* sread[s]: the product s looked up and the fields it read
  unguarded  \* history: products sold by check and sell made as separate calls

saleVars == <<n_in_stock, n_sold, revenue, order, spc, sread, unguarded>>
vars == <<head, next, bySku, snap, pc, saleVars>>

-----------------------------------------------------------------------------
\* Product::lookup_in(ns, key): the bound product, or a null pointer.
lookup(ns, key) == ns[key]

\* The isolated block of the constructor, run (or redone) in a child
\* context: next_product = lookup_in(data_ns, first_product_key), then
\* THIS_RECORD->bind_in(data_ns, first_product_key), seen by the child only.
IsolatedBlock(m) ==
  /\ pc[m] = "block"
  /\ snap' = [snap EXCEPT ![m] = head]
  /\ next' = [next EXCEPT ![m] = head]
  /\ pc' = [pc EXCEPT ![m] = "publish"]
  /\ UNCHANGED <<head, bySku, saleVars>>

\* Mutant: the block's writes are published without checking its reads.
Publish_nocheck(m) ==
  /\ pc[m] = "publish"
  /\ head' = m
  /\ pc' = [pc EXCEPT ![m] = "bind_sku"]
  /\ UNCHANGED <<next, bySku, snap, saleVars>>

\* Mutant: a failed publish is retried without redoing the block.
Publish_noredo(m) ==
  /\ pc[m] = "publish"
  /\ IF head = snap[m]
     THEN /\ head' = m
          /\ pc' = [pc EXCEPT ![m] = "bind_sku"]
     ELSE UNCHANGED <<head, pc>>
  /\ UNCHANGED <<next, bySku, snap, saleVars>>

\* Publishing the child: when the head it read is still the parent's head,
\* the binding of the new head takes effect; otherwise the publish fails
\* and the block is redone.
Publish(m) ==
  /\ pc[m] = "publish"
  /\ IF head = snap[m]
     THEN /\ head' = m
          /\ pc' = [pc EXCEPT ![m] = "bind_sku"]
     ELSE /\ pc' = [pc EXCEPT ![m] = "block"]
          /\ UNCHANGED head
  /\ UNCHANGED <<next, bySku, snap, saleVars>>

\* THIS_RECORD->bind_in(by_sku, s), outside the isolated block.
BindSku(m) ==
  /\ pc[m] = "bind_sku"
  /\ bySku' = [bySku EXCEPT ![SkuOf[m]] = m]
  /\ pc' = [pc EXCEPT ![m] = "done"]
  /\ UNCHANGED <<head, next, snap, saleVars>>

\* Mutant: check tests the price only.
CheckFails_noqty(m, q, p) == PriceOf[m] /= p

\* Product::check(q, p) throws (wrong_price, insufficient_quantity).
CheckFails(m, q, p) == PriceOf[m] /= p \/ n_in_stock[m] < q

\* Product::sell(q, p): revenue += p*q; n_sold += q; n_in_stock -= q.
sell(m, q, p) ==
  /\ revenue' = [revenue EXCEPT ![m] = @ + p * q]
  /\ n_sold' = [n_sold EXCEPT ![m] = Unsigned(@ + q)]
  /\ n_in_stock' = [n_in_stock EXCEPT ![m] = Unsigned(@ - q)]

\* What a seller reads of product m.
Fields(m) == <<n_in_stock[m], n_sold[m], revenue[m]>>

\* Product::lookup throws no_such_sku on a null product, or check throws:
\* the sale ends with nothing written.
SaleThrows(s, m) ==
  m = NoProduct \/ CheckFails(m, order[s].q, order[s].p)

\* The sale's isolated block, run (or redone) in a child context:
\* lookup, check and sell.  A throw leaves the block with no writes.
SaleBlock(s) ==
  LET m == lookup(bySku, order[s].sku) IN
  /\ spc[s] = "block"
  /\ IF SaleThrows(s, m)
     THEN /\ spc' = [spc EXCEPT ![s] = "done"]
          /\ UNCHANGED sread
     ELSE /\ spc' = [spc EXCEPT ![s] = "publish"]
          /\ sread' = [sread EXCEPT ![s] = [prod |-> m, fields |-> Fields(m)]]
  /\ UNCHANGED <<head, next, bySku, snap, pc, n_in_stock, n_sold, revenue, order, unguarded>>

\* Publishing the sale: when the binding and the fields the block read are
\* still the parent's, its sell takes effect; otherwise the block is redone.
SalePublish(s) ==
  LET m == sread[s].prod IN
  /\ spc[s] = "publish"
  /\ IF lookup(bySku, order[s].sku) = m /\ Fields(m) = sread[s].fields
     THEN /\ sell(m, order[s].q, order[s].p)
          /\ spc' = [spc EXCEPT ![s] = "done"]
     ELSE /\ spc' = [spc EXCEPT ![s] = "block"]
          /\ UNCHANGED <<n_in_stock, n_sold, revenue>>
  /\ UNCHANGED <<head, next, bySku, snap, pc, order, sread, unguarded>>

\* lookup and check called on their own, on the parent context.
CallCheck(s) ==
  LET m == lookup(bySku, order[s].sku) IN
  /\ spc[s] = "call"
  /\ spc' = [spc EXCEPT ![s] = IF SaleThrows(s, m) THEN "done" ELSE "sell"]
  /\ sread' = [sread EXCEPT ![s] = [prod |-> m, fields |-> <<>>]]
  /\ UNCHANGED <<head, next, bySku, snap, pc, n_in_stock, n_sold, revenue, order, unguarded>>

\* sell called on its own, after the check.
CallSell(s) ==
  /\ spc[s] = "sell"
  /\ sell(sread[s].prod, order[s].q, order[s].p)
  /\ unguarded' = unguarded \cup {sread[s].prod}
  /\ spc' = [spc EXCEPT ![s] = "done"]
  /\ UNCHANGED <<head, next, bySku, snap, pc, order, sread>>

\* The steps of seller s.
Sale(s) == SaleBlock(s) \/ SalePublish(s) \/ CallCheck(s) \/ CallSell(s)

-----------------------------------------------------------------------------
Init ==
  /\ head = NoProduct
  /\ next = [m \in Makers |-> NoProduct]
  /\ bySku = [s \in Skus |-> NoProduct]
  /\ snap = [m \in Makers |-> NoProduct]
  /\ pc = [m \in Makers |-> "block"]
  /\ n_in_stock = StockOf
  /\ n_sold = [m \in Makers |-> 0]
  /\ revenue = [m \in Makers |-> 0]
  /\ order \in [Sellers -> Orders]
  /\ spc \in [Sellers -> {"block", "call"}]
  /\ sread = [s \in Sellers |-> [prod |-> NoProduct, fields |-> <<>>]]
  /\ unguarded = {}

\* Every constructor and every sale has returned.
Finished ==
  /\ \A m \in Makers : pc[m] = "done"
  /\ \A s \in Sellers : spc[s] = "done"
  /\ UNCHANGED vars

Next ==
  \/ \E m \in Makers : IsolatedBlock(m) \/ Publish(m) \/ BindSku(m)
  \/ \E s \in Sellers : Sale(s)
  \/ Finished

\* Each maker and seller thread keeps running its calls.
Fairness ==
  /\ \A m \in Makers : WF_vars(IsolatedBlock(m) \/ Publish(m) \/ BindSku(m))
  /\ \A s \in Sellers : WF_vars(Sale(s))

Spec == Init /\ [][Next]_vars /\ Fairness

-----------------------------------------------------------------------------
(* Properties.                                                             *)

\* The products reached from first_product_key through next_product, with
\* at most n steps.
RECURSIVE ListFrom(_, _)
ListFrom(p, n) == IF p = NoProduct \/ n = 0 THEN {} ELSE {p} \cup ListFrom(next[p], n - 1)

\* The walk from p ends at a null next_product within n steps.
RECURSIVE EndsFrom(_, _)
EndsFrom(p, n) == p = NoProduct \/ (n > 0 /\ EndsFrom(next[p], n - 1))

\* However the constructors interleave, the product list holds exactly the
\* products whose push was published, once each and without a cycle: a
\* push is never lost or duplicated by a concurrent one.
ListExact ==
  /\ EndsFrom(head, Cardinality(Makers))
  /\ ListFrom(head, Cardinality(Makers)) = {m \in Makers : pc[m] \in {"bind_sku", "done"}}

\* A sale made by check and sell in one isolated block keeps the product's
\* books: what is sold plus what is in stock is what it was constructed
\* with, and the revenue is its price times what is sold.  Only a product
\* some seller checked and sold by separate calls can be oversold, its
\* unsigned n_in_stock wrapping when a concurrent sale took the stock
\* between that seller's check and its sell.
SalesConsistent ==
  \A m \in Makers :
    /\ revenue[m] = PriceOf[m] * n_sold[m]
    /\ m \notin unguarded => n_in_stock[m] + n_sold[m] = StockOf[m]

\* Every constructor and every sale returns: a redone block eventually
\* publishes or throws.
AllReturn == <>(/\ \A m \in Makers : pc[m] = "done"
               /\ \A s \in Sellers : spc[s] = "done")

=============================================================================
