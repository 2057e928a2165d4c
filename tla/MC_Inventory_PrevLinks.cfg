\* Three ordered names, three Product records, counts up to 2.
CONSTANTS
  Names = {1, 2, 3}
  Quantities = {0, 1}
  Units = {1, 2}
  MaxProducts = 3
  MaxCount = 2
  MaxSupply = 2

SPECIFICATION Spec

INVARIANT PrevLinks
