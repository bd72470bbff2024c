CONSTANTS
  Company = {c1,c2}
  NoCompany = noCompany
  AddOn = {a1}
  NoAddOn = noAddOn
  Recurring = {a1}
  Row = {r1}
  NoRow = noRow
  Bill = {b1,b2}
  NoBill = noBill
  Job = {j1,j2}
SPECIFICATION FairSpec
CHECK_DEADLOCK FALSE
INVARIANTS AddOnInv
PROPERTIES LiftedForPayment 
