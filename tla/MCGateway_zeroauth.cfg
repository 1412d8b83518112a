SPECIFICATION Spec
CONSTANTS
  Requests = {1}
  Rules <- AllRules
  MaxAttempts = 3
  AttemptTime = 15
  TTL = 60
PROPERTY BillDeletedOnlyWhenSettled
CHECK_DEADLOCK FALSE
