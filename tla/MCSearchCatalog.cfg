\* Two callers, each indexing the same two products into one of two indexes, once more after a failure.
SPECIFICATION FairSpec
CONSTANTS
  Callers = {c1, c2}
  Products = {p1, p2}
  NoProduct = NoProduct
  Indexes = {products, other}
  DefaultIndex = products
  Unset = Unset
  MaxTries = 2
INVARIANTS DoneIsSearchable MappingNeverGuessed
PROPERTY ReindexReturns
CHECK_DEADLOCK FALSE
