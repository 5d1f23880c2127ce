\* Two callers that call EnsureIndex on the same missing index.
SPECIFICATION Spec
CONSTANTS
  Callers = {c1, c2}
  Products = {p1}
  NoProduct = NoProduct
  Indexes = {products, other}
  DefaultIndex = products
  Unset = Unset
  MaxTries = 1
INVARIANT EnsureIndexIdempotent
CHECK_DEADLOCK FALSE
