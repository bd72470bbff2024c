CONSTANTS
  Product = {p1,p2}
  InitialStock <- FewOfEach
  Sale = {s1,s2}
  NoSale = noSale
  Order = {}
  NoOrder = noOrder
  Store = {st1}
  OrderStore <- SoleStore
  KeyPerStore = TRUE
  Job = {j1,j2}
  Pool = 3
  Carts <- MixedCarts
  StockValues = {}
SPECIFICATION FairSpec
CHECK_DEADLOCK FALSE
INVARIANTS StockMatchesSales
PROPERTIES HandlersEnd
