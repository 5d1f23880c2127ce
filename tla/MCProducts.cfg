\* Three requests, four statements, two rows.
SPECIFICATION Spec
CONSTANTS
  Requests = {r1, r2, r3}
  MaxId = 2
  MaxStatements = 4
  Codes = {k1, k2}
  Names = {n1, n2}
  Prices <- MCPrices
  MaxPrice = 999
  MaxInt = 100000
  Unset = Unset
  NoRow = NoRow
  NaN = NaN
SYMMETRY Symmetry
INVARIANTS TypeOK UniqueLiveCodes NoFieldLost DeleteToldOnce ReadsOwnWrites ReadersGetPrices
PROPERTIES DeletedCodesAreFree DeletedForGood ImplementsResourceTable
CHECK_DEADLOCK FALSE
