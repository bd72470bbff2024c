CONSTANTS
  MaxOrders = 1
  MaxSales = 1
  Table = {t1}
  NoTable = noTable
  Job = {j1,j2}
  Dish = {d1,d2}
  MaxBill = 2
SPECIFICATION FairSpec
CHECK_DEADLOCK FALSE
INVARIANTS FnbInv BilledBeforeListed
PROPERTIES TablesSettle ImplementsTabs
VIEW View
