SPECIFICATION Spec
CONSTANTS
  a1 = a1
  a2 = a2
  Expiry = 2
  Auths <- TwoAuths
  MaxAmount <- MCMaxAmount
  ExpiresAt <- MCExpiresAt
  SettleAmounts = {1}
  Requests = {1}
  RefundTimeout = 2
  Grace = 3
  MinGrace = 2
  KeyExpiresAt = 20
  Buffer = 1
  SnapshotMaxAge = 1
  KeyCacheMaxAge = 1
  ConfirmWindow = 1
  MaxSubmitRetries = 2
  Jitter = 0
  MaxNow = 4
  Lossy = FALSE
PROPERTY DueHoldsAreFinalized
CHECK_DEADLOCK FALSE
