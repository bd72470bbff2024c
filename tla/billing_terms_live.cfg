CONSTANTS
  Company = {c1}
  MaxSubs = 2
  Owner <- SoleOwner
  Invoice = {}
  NoInvoice = noInvoice
  Gateway = {}
  NoGateway = noGateway
  Job = {j1}
  Durations = {1}
  MonthDays = 1
  TrialDays = 0
  GraceDays = 0
  GatewayDays = 0
  RetryDays = 2
  BatchSize = 2
  MaxDay = 4
  MaxEnd = 3
  MaxMonths = 1
SPECIFICATION FairSpec
CHECK_DEADLOCK FALSE
PROPERTIES OverdueExpires GraceEnds TrialEnds
