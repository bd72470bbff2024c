CONSTANTS
  Invoice = {i1,i2}
  Gateway = {g1,g2}
  NoGateway = noGateway
  Job = {j1}
  RetryDays = 2
  BatchSize = 1
  MaxDay = 3
SPECIFICATION FairSpec
CHECK_DEADLOCK FALSE
PROPERTIES PaidIsRecorded
