\* Handle a of mds_ptr<Base>, c of mds_ptr<Derived>, d and e of
\* mds_ptr<mds_array<E>>; two values, arrays of size 0 or 1, three objects.
CONSTANTS
  a = a  c = c  d = d  e = e  v1 = v1  v2 = v2
  Handles = {a, c, d, e}
  HType <- MC_HType
  Base = Base
  Derived = Derived
  Array = Array
  ArrayLens = {0, 1}
  Vals = {v1, v2}
  MaxObjects = 3

SPECIFICATION Spec

SYMMETRY MC_Symmetry

INVARIANTS
  TypeOK
  HandlesWellTyped
  EqualityCoherent
  ArrayReadsAgree
