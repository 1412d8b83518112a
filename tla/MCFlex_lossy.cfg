SPECIFICATION Spec
CONSTANTS
  a1 = a1
  a2 = a2
  Expiry = 3
  Auths <- TwoAuths
  MaxAmount <- MCMaxAmount
  ExpiresAt <- MCExpireApart
  SettleAmounts = {1}
  Requests = {1}
  RefundTimeout = 4
  Grace = 2
  MinGrace = 2
  KeyExpiresAt = 4
  Buffer = 1
  SnapshotMaxAge = 1
  KeyCacheMaxAge = 2
  ConfirmWindow = 1
  MaxSubmitRetries = 2
  Jitter = 0
  MaxNow = 3
  Lossy = TRUE
PROPERTY SubmitsInTime
INVARIANT SettlesOnlyReportedAmounts
CHECK_DEADLOCK FALSE
