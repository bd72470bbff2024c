CONSTANTS
  Company = {c1}
  MaxSubs = 1
  Owner <- SoleOwner
  Invoice = {i1,i2}
  NoInvoice = noInvoice
  Gateway = {g1,g2}
  NoGateway = noGateway
  Job = {j1}
  Durations = {1}
  MonthDays = 1
  TrialDays = 0
  GraceDays = 1
  GatewayDays = 0
  RetryDays = 2
  BatchSize = 2
  MaxDay = 2
  MaxEnd = 4
  MaxMonths = 2
SPECIFICATION Spec
CHECK_DEADLOCK FALSE
PROPERTY RenewalPaidFor
