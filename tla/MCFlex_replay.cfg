SPECIFICATION Spec
CONSTANTS
  a1 = a1
  a2 = a2
  Expiry = 3
  Auths <- OneAuth
  MaxAmount <- MCMaxAmount
  ExpiresAt <- MCExpiresAt
  SettleAmounts = {1}
  Requests = {1}
  RefundTimeout = 3
  Grace = 3
  MinGrace = 2
  KeyExpiresAt = 20
  Buffer = 1
  SnapshotMaxAge = 1
  KeyCacheMaxAge = 1
  ConfirmWindow = 1
  MaxSubmitRetries = 2
  Jitter = 0
  MaxNow = 6
  Lossy = TRUE
PROPERTY NoReplay
CHECK_DEADLOCK FALSE
