CONSTANTS
  Company = {c1}
  MaxSubs = 1
  Owner <- SoleOwner
  Invoice = {i1}
  NoInvoice = noInvoice
  Gateway = {g1}
  NoGateway = noGateway
  Job = {j1,j2}
  Durations = {1}
  MonthDays = 1
  TrialDays = 0
  GraceDays = 1
  GatewayDays = 0
  RetryDays = 2
  BatchSize = 2
  MaxDay = 4
  MaxEnd = 4
  MaxMonths = 1
SPECIFICATION Spec
CHECK_DEADLOCK FALSE
SYMMETRY Symmetry
VIEW View
INVARIANTS IInv
PROPERTIES ImplementsPaidAccess
