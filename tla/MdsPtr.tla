------------------------------- MODULE MdsPtr -------------------------------
(***************************************************************************)
(* The managed pointer of src/cpp-api/include/mds_ptr.h.                   *)
(*                                                                         *)
(* A program holds mds_ptr variables (Handles), each of a static pointee   *)
(* type; a variable comes into scope by a constructor and leaves it by    *)
(* the destructor, which releases what its _ptr shares.  Objects are made by the managed allocator (__from_shared of a    *)
(* fresh shared_ptr) with a dynamic type and a value.  Every operation of  *)
(* mds_ptr that changes what a handle refers to is an action; the shared   *)
(* use count of each object is kept the way std::shared_ptr keeps it, and  *)
(* an object is destroyed when its count drops to zero.  Equality is       *)
(* operator== of mds_ptr: same identity, or both non-null with equal       *)
(* referents.                                                              *)
(*                                                                         *)
(* Types are Base and Derived, where a Derived pointer converts to a Base *)
(* one, and Array, a managed array (mds_array).  An object's contents are  *)
(* a sequence: one field for a record, the elements for an array.          *)
(* Dereferencing a null record handle is left to the caller, as the       *)
(* header says: writes go through non-null handles only.  Element access  *)
(* through an array handle records how it ended in access.                *)
(***************************************************************************)
EXTENDS Integers, Sequences, FiniteSets, FiniteSetsExt, TLC

CONSTANTS
  Handles,     \* mds_ptr variables of the program
  HType,       \* HType[h]: the static pointee type T of handle h
  Base, Derived, Array,
  Vals,        \* values a field or an element can have
  ArrayLens,   \* sizes of the arrays the allocator makes
  MaxObjects   \* bound on objects made by the allocator

Types == {Base, Derived, Array}
ASSUME HType \in [Handles -> Types] /\ MaxObjects \in Nat
ASSUME ArrayLens \subseteq Nat

\* Contents a freshly made object of type Y can have.
Contents(Y) ==
  IF Y = Array THEN UNION {[1..n -> Vals] : n \in ArrayLens}
  ELSE {<<v>> : v \in Vals}

\* Index values tried with at() and operator[]: in range and one past.
Indices == 0..(IF ArrayLens = {} THEN 0 ELSE Max(ArrayLens))


Null == 0
Objs == 1..MaxObjects

NoAccess == [h |-> Null, i |-> 0, size |-> 0, outcome |-> "none"]

\* std::is_convertible<Y*, T*>: the enable_if guard of the converting
\* constructors and assignments, and what dynamic_pointer_cast checks.
Convertible(Y, T) == Y = T \/ (Y = Derived /\ T = Base)

VARIABLES
  ref,     \* ref[h]: the object handle h's _ptr shares, or Null
  use,     \* use[o]: the use count of o's shared_ptr control block
  live,    \* objects not yet destroyed
  dyn,     \* dyn[o]: dynamic type of object o
  val,     \* val[o]: contents of object o
  made,    \* objects made so far
  access,  \* the last element access: handle, index, size() and outcome
  scope    \* handles whose mds_ptr object exists (constructed, not destroyed)

vars == <<ref, use, live, dyn, val, made, access, scope>>

-----------------------------------------------------------------------------
(* Ownership bookkeeping of std::shared_ptr.                               *)

\* Counts after handle h stops sharing old and starts sharing new (one
\* shared_ptr assignment): the new referent gains one, the old loses one.
Retarget(u, old, new) ==
  [o \in Objs |-> u[o] + (IF o = new THEN 1 ELSE 0) - (IF o = old THEN 1 ELSE 0)]

\* Objects whose count reached zero are destroyed.
Survivors(u) == {o \in live : u[o] > 0}

\* Point handle h at object o (copy or converting assignment).
PointAt(h, o) ==
  LET u == Retarget(use, ref[h], o) IN
    /\ ref' = [ref EXCEPT ![h] = o]
    /\ use' = u
    /\ live' = Survivors(u)

-----------------------------------------------------------------------------
(* Operations.                                                             *)

\* Mutant: the allocator hands out the index it last used plus one without
\* recording it.
from_shared_nocount(h, Y, c) ==
  /\ made < MaxObjects
  /\ Convertible(Y, HType[h])
  /\ LET o == made + 1 IN
       /\ dyn' = [dyn EXCEPT ![o] = Y]
       /\ val' = [val EXCEPT ![o] = c]
       /\ made' = made
       /\ scope' = scope \cup {h}
       /\ LET u == [Retarget(use, ref[h], o) EXCEPT ![o] = 1] IN
            /\ ref' = [ref EXCEPT ![h] = o]
            /\ use' = u
            /\ live' = Survivors(u) \cup {o}
  /\ UNCHANGED access

\* mds_ptr<T>::__from_shared(make_shared<Y>(...)): h takes a fresh object
\* of type Y convertible to T, with contents c (h is constructed from the
\* result, or assigned it when already in scope).
from_shared(h, Y, c) ==
  /\ made < MaxObjects
  /\ Convertible(Y, HType[h])
  /\ LET o == made + 1 IN
       /\ dyn' = [dyn EXCEPT ![o] = Y]
       /\ val' = [val EXCEPT ![o] = c]
       /\ made' = o
       /\ scope' = scope \cup {h}
       /\ LET u == [Retarget(use, ref[h], o) EXCEPT ![o] = 1] IN
            /\ ref' = [ref EXCEPT ![h] = o]
            /\ use' = u
            /\ live' = Survivors(u) \cup {o}
  /\ UNCHANGED access

\* h = g, for mds_ptr<Y> g with Y* convertible to T* (the copy operator=
\* and its converting template).
copy_assign(h, g) ==
  /\ Convertible(HType[g], HType[h])
  /\ PointAt(h, ref[g])
  /\ UNCHANGED <<dyn, val, made, access, scope>>

\* h = std::move(g): h takes g's reference, g is left null; the referent's
\* count is unchanged and h's old referent loses one.
move_assign(h, g) ==
  /\ h # g
  /\ Convertible(HType[g], HType[h])
  /\ LET u == Retarget(use, ref[h], Null) IN
       /\ ref' = [ref EXCEPT ![h] = ref[g], ![g] = Null]
       /\ use' = u
       /\ live' = Survivors(u)
  /\ UNCHANGED <<dyn, val, made, access, scope>>

\* h = nullptr: _ptr.reset().
assign_null(h) ==
  /\ PointAt(h, Null)
  /\ UNCHANGED <<dyn, val, made, access, scope>>

\* h.swap(g) for handles of the same type.
swap(h, g) ==
  /\ HType[h] = HType[g]
  /\ ref' = [ref EXCEPT ![h] = ref[g], ![g] = ref[h]]
  /\ UNCHANGED <<use, live, dyn, val, made, access, scope>>

\* Mutant: the cast does not check the dynamic type (a static cast).
DynamicCast_nocheck(As, o) == o

\* dynamic_pointer_cast<As>(o), the object itself when its dynamic type
\* converts to As, else nullptr.
DynamicCast(As, o) == IF o # Null /\ Convertible(dyn[o], As) THEN o ELSE Null

\* h = g.dynamic_pointer_cast<T>(): a handle of T sharing g's object, or
\* null when the object is not a T.
dynamic_pointer_cast(h, g) ==
  /\ PointAt(h, DynamicCast(HType[h], ref[g]))
  /\ UNCHANGED <<dyn, val, made, access, scope>>

\* h = g.static_pointer_cast<T>(): the caller promises the object is a T
\* (a wrong static downcast is undefined behaviour, outside the model).
static_pointer_cast(h, g) ==
  /\ ref[g] # Null => Convertible(dyn[ref[g]], HType[h])
  /\ PointAt(h, ref[g])
  /\ UNCHANGED <<dyn, val, made, access, scope>>

\* h->field = v through operator->, on a non-null record handle.
write(h, v) ==
  /\ HType[h] # Array
  /\ ref[h] # Null
  /\ val' = [val EXCEPT ![ref[h]] = <<v>>]
  /\ UNCHANGED <<ref, use, live, dyn, made, access, scope>>

\* h = g.const_pointer_cast<T>(): cv-qualifiers are not modelled, so the
\* result shares g's object as a handle of the same type.
const_pointer_cast(h, g) ==
  /\ HType[h] = HType[g]
  /\ PointAt(h, ref[g])
  /\ UNCHANGED <<dyn, val, made, access, scope>>

-----------------------------------------------------------------------------
(* Construction and destruction of an mds_ptr variable.                   *)

\* mds_ptr() and mds_ptr(nullptr): a null handle comes into scope.
construct_null(h) ==
  /\ h \notin scope
  /\ scope' = scope \cup {h}
  /\ UNCHANGED <<ref, use, live, dyn, val, made, access>>

\* mds_ptr<T> h(g), for mds_ptr<Y> g with Y* convertible to T*: h shares
\* g's object, whose count gains one.
copy_construct(h, g) ==
  /\ h \notin scope
  /\ Convertible(HType[g], HType[h])
  /\ ref' = [ref EXCEPT ![h] = ref[g]]
  /\ use' = Retarget(use, Null, ref[g])
  /\ scope' = scope \cup {h}
  /\ UNCHANGED <<live, dyn, val, made, access>>

\* mds_ptr<T> h(std::move(g)): h takes g's reference, g is left null and
\* the count is unchanged.
move_construct(h, g) ==
  /\ h \notin scope
  /\ Convertible(HType[g], HType[h])
  /\ ref' = [ref EXCEPT ![h] = ref[g], ![g] = Null]
  /\ scope' = scope \cup {h}
  /\ UNCHANGED <<use, live, dyn, val, made, access>>

\* ~mds_ptr(): the implicit destructor destroys _ptr, releasing its share;
\* the object is destroyed with its last share.
destroy(h) ==
  /\ PointAt(h, Null)
  /\ scope' = scope \ {h}
  /\ UNCHANGED <<dyn, val, made, access>>

-----------------------------------------------------------------------------
(* Array handles (mds_ptr<mds_array<E>>).                                  *)

\* size(): 0 for a null handle, else the array's size.
size(h) == IF ref[h] = Null THEN 0 ELSE Len(val[ref[h]])

\* h.at(i) = v and h[i] = v: both call _ptr->at(i) with no null check.
\* mds_array::at checks the index and throws std::out_of_range; through a
\* null _ptr the call is undefined behaviour.
at(h, i, v) ==
  /\ HType[h] = Array
  /\ LET o == ref[h]
         outcome == CASE o = Null           -> "undefined"
                      [] i >= Len(val[o])   -> "out_of_range"
                      [] OTHER              -> "ok"
     IN /\ access' = [h |-> h, i |-> i, size |-> size(h), outcome |-> outcome]
        /\ val' = IF outcome = "ok" THEN [val EXCEPT ![o][i + 1] = v] ELSE val
  /\ UNCHANGED <<ref, use, live, dyn, made, scope>>

\* fill(v): every element becomes v; a null handle is left alone.
fill(h, v) ==
  /\ HType[h] = Array
  /\ val' = IF ref[h] = Null THEN val
            ELSE [val EXCEPT ![ref[h]] = [k \in DOMAIN @ |-> v]]
  /\ UNCHANGED <<ref, use, live, dyn, made, access, scope>>

\* An iterator of an array is its object and a position; NoIter is the
\* value-initialized iterator that begin() and end() of a null handle
\* return, which points into no array.
NoIter == [arr |-> Null, pos |-> -1]

\* Mutant: begin() goes through _ptr with no null check.
begin_nocheck(h) == [arr |-> ref[h], pos |-> 0]

\* cbegin() and begin(): NoIter for a null handle, else _ptr->begin().
begin(h) == IF ref[h] = Null THEN NoIter ELSE [arr |-> ref[h], pos |-> 0]

\* cend() and end(): NoIter for a null handle, else _ptr->end().
end(h) == IF ref[h] = Null THEN NoIter ELSE [arr |-> ref[h], pos |-> Len(val[ref[h]])]

\* empty(): true for a null handle, else _ptr->empty().
empty(h) == ref[h] = Null \/ Len(val[ref[h]]) = 0

-----------------------------------------------------------------------------
(* Comparisons.                                                            *)

\* explicit operator bool
IsSet(h) == ref[h] # Null

\* Mutant: contents only, without the identity test.
Eq_byvalue(h, g) == ref[h] # Null /\ ref[g] # Null /\ val[ref[h]] = val[ref[g]]

\* operator==(mds_ptr<T>, mds_ptr<U>): identity first, then contents.
Eq(h, g) == ref[h] = ref[g] \/ (ref[h] # Null /\ ref[g] # Null /\ val[ref[h]] = val[ref[g]])

\* operator==(mds_ptr<T>, nullptr_t)
EqNull(h) == ref[h] = Null

-----------------------------------------------------------------------------
Init ==
  /\ ref = [h \in Handles |-> Null]
  /\ use = [o \in Objs |-> 0]
  /\ live = {}
  /\ dyn = [o \in Objs |-> Base]
  /\ val = [o \in Objs |-> <<>>]
  /\ made = 0
  /\ access = NoAccess
  /\ scope = {}

\* Operations apply to handles in scope; a constructor makes one from a
\* handle in scope.
Next ==
  \/ \E h \in Handles, Y \in Types : \E c \in Contents(Y) : from_shared(h, Y, c)
  \/ \E h \in Handles \ scope :
       \/ construct_null(h)
       \/ \E g \in scope : copy_construct(h, g) \/ move_construct(h, g)
  \/ \E h, g \in scope :
       \/ copy_assign(h, g) \/ move_assign(h, g) \/ swap(h, g)
       \/ dynamic_pointer_cast(h, g) \/ static_pointer_cast(h, g)
       \/ const_pointer_cast(h, g)
  \/ \E h \in scope : assign_null(h) \/ destroy(h)
  \/ \E h \in scope, v \in Vals :
       \/ write(h, v) \/ fill(h, v)
       \/ \E i \in Indices : at(h, i, v)

Spec == Init /\ [][Next]_vars

-----------------------------------------------------------------------------
(* Properties.                                                             *)

TypeOK ==
  /\ ref \in [Handles -> Objs \cup {Null}]
  /\ use \in [Objs -> Nat]
  /\ live \subseteq 1..made
  /\ dyn \in [Objs -> Types] /\ val \in [Objs -> Seq(Vals)]
  /\ access \in [h : Handles \cup {Null}, i : Nat, size : Nat,
                 outcome : {"none", "ok", "out_of_range", "undefined"}]
  /\ made \in 0..MaxObjects
  /\ scope \subseteq Handles

\* Every handle refers to an object of its static type or a derived one, so
\* operator-> and operator* through it are well typed: the casts never
\* hand out a handle to an object of the wrong type.
HandlesWellTyped ==
  \A h \in Handles : IsSet(h) => Convertible(dyn[ref[h]], HType[h])

\* operator== is an equivalence on the program's handles and agrees with
\* the null comparison: null equals only null, and handles sharing an
\* object are equal whatever was written through either.  Records compare
\* with records and arrays with arrays (Comparable), as the code compiles.
Comparable(h, g) == (HType[h] = Array) = (HType[g] = Array)

EqualityCoherent ==
  \A h, g, k \in Handles :
    Comparable(h, g) /\ Comparable(g, k) =>
      /\ Eq(h, h)
      /\ Eq(h, g) = Eq(g, h)
      /\ (Eq(h, g) /\ Eq(g, k)) => Eq(h, k)
      /\ (EqNull(h) /\ Eq(h, g)) => EqNull(g)
      /\ EqNull(h) = ~IsSet(h)

\* Element access is bounds-checked and null-safe (spec section 3: a null
\* array handle behaves as a zero-length sequence): at(i) and operator[]
\* succeed exactly when i < size() of the handle, and otherwise report
\* std::out_of_range, as they would on an empty array.
ElementAccessBoundsChecked ==
  access.outcome # "none" =>
    access.outcome = IF access.i < access.size THEN "ok" ELSE "out_of_range"

\* Spec section 8, null-safe array ops: for every array handle in every
\* state, empty() holds exactly when size() is 0, and iterating from
\* begin() to end() visits size() elements; for a null handle begin() and
\* end() are equal value-initialized iterators, so the range is empty.
\* Distance is -1 for iterators that do not delimit a range.
Distance(b, e) ==
  CASE b = NoIter /\ e = NoIter -> 0
    [] b # NoIter /\ e # NoIter /\ b.arr = e.arr -> e.pos - b.pos
    [] OTHER -> -1

ArrayReadsAgree ==
  \A h \in Handles :
    HType[h] = Array =>
      /\ empty(h) = (size(h) = 0)
      /\ Distance(begin(h), end(h)) = size(h)

=============================================================================
