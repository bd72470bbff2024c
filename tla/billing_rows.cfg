CONSTANTS
  Company = {c1}
  MaxSubs = 2
  Owner <- SoleOwner
  Invoice = {i1,i2}
  NoInvoice = noInvoice
  Gateway = {g1}
  NoGateway = noGateway
  Job = {j1}
  Durations = {1}
  MonthDays = 1
  TrialDays = 0
  GraceDays = 1
  GatewayDays = 0
  RetryDays = 2
  BatchSize = 2
  MaxDay = 2
  MaxEnd = 2
  MaxMonths = 2
SPECIFICATION Spec
CHECK_DEADLOCK FALSE
SYMMETRY Symmetry
VIEW View
INVARIANTS TypeOK InvoiceBacked AccessBacked
PROPERTIES NoSecondTrial
