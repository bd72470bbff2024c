CONSTANTS
  Store = {t1,t2}
  NoStore = noStore
  Row = {1,2}
  NoRow = noRow
  Job = {j1,j2}
  Quantities = {1,2}
  MaxQuantity = 2
SPECIFICATION Spec
CHECK_DEADLOCK FALSE
INVARIANTS InventoryInv
PROPERTIES ReservedInStock ImplementsReservations
SYMMETRY InventorySymmetry
