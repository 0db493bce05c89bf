CONSTANTS
  AlertIds = {0}
  Periods = {0, 1, 2}
  MaxPeriod = 2
  QueueBound = 2
SPECIFICATION Spec

PROPERTY ChangesWaitForPeriod
