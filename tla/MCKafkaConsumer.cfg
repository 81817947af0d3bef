SPECIFICATION ConsumerSpec
CONSTANTS
  a = a
  b = b
  d = d
  Control <- MCControl
  Data <- MCNoData
  MaxRecords = 3
  MaxFaults = 2
INVARIANT SubscriptionsHold
PROPERTY ControlArrives
PROPERTY ConsumerReturns
