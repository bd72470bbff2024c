CONSTANTS
  Product = {p1}
  InitialStock <- TwoOfEach
  Sale = {s1,s2,s3}
  NoSale = noSale
  Order = {o1}
  NoOrder = noOrder
  Store = {st1}
  OrderStore <- SoleStore
  KeyPerStore = TRUE
  Job = {j1,j2}
  Pool = 3
  Carts <- CartsWithoutStock
  StockValues = {2}
SPECIFICATION Spec
CHECK_DEADLOCK FALSE
SYMMETRY SalesSymmetry
INVARIANTS NumbersGapFree SalesInv
PROPERTIES ImplementsTill
