CONSTANTS
  Customer = {c1}
  NoCustomer = noCustomer
  Sale = {s1}
  NoSale = noSale
  Job = {j1,j2}
  Price = 2
  Rank <- TwoRanks
  Spending <- ServiceTable
  PageSpending <- PageTable
  Gift = 1
  Amounts = {1}
  Earnings = {1}
  MaxPoints = 1
SPECIFICATION FairSpec
CHECK_DEADLOCK FALSE
INVARIANTS AccountsInv
PROPERTIES TiersSettle
