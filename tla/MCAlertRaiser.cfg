CONSTANTS
  AlertIds = {0, 1}
  Periods = {0, 1, 2}
  MaxPeriod = 2
  QueueBound = 2
SPECIFICATION FairSpec
INVARIANTS TypeOK TimersServeCondition NotificationsMatchState
PROPERTIES ChangesOnlyTowardsCondition FreshChangesWaitForPeriod EventuallyFollowsCondition ImplementsLifecycle
