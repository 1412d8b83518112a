SPECIFICATION FairSpec
CONSTANTS
  Requests = {1}
  Rules <- PricedRules
  MaxAttempts = 3
  AttemptTime = 15
  TTL = 60
INVARIANT TypeOK
INVARIANT ServedOnlyIfAuthorized
INVARIANT SettledInOnePhase
INVARIANT BilledIsReported
INVARIANT KeptForEveryAttempt
PROPERTY BillDeletedOnlyWhenSettled
PROPERTY ServedIsBilled
CHECK_DEADLOCK FALSE
