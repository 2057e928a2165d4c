\* Three makers constructing products with distinct skus, and two sellers
\* each selling one unit of s1 at price 1 or 2.
CONSTANTS
  m1 = m1  m2 = m2  m3 = m3  s1 = s1  s2 = s2  s3 = s3
  Makers = {m1, m2, m3}
  Skus = {s1, s2, s3}
  SkuOf <- MC_DistinctSkus
  NoProduct = null
  b1 = b1  b2 = b2
  Sellers = {b1, b2}
  SaleSkus = {s1}
  Qtys = {1}
  Prices = {1, 2}
  UnsignedMod = 65536
  PriceOf <- MC_PriceOf
  StockOf <- MC_StockOf

SPECIFICATION Spec

INVARIANTS
  ListExact
  SalesConsistent

PROPERTIES
  AllReturn
