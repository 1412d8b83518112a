SPECIFICATION FairSpec
CONSTANTS
  a1 = a1
  a2 = a2
  Expiry = 4
  Auths <- OneAuth
  MaxAmount <- MCMaxAmount
  ExpiresAt <- MCExpiresAt
  SettleAmounts = {1, 2}
  Requests = {1}
  RefundTimeout = 4
  Grace = 4
  MinGrace = 2
  KeyExpiresAt = 20
  Buffer = 2
  SnapshotMaxAge = 1
  KeyCacheMaxAge = 2
  ConfirmWindow = 2
  MaxSubmitRetries = 2
  Jitter = 0
  MaxNow = 6
  Lossy = FALSE
INVARIANT TypeOK
INVARIANT LastReceiptMatchesChain
PROPERTY NoReplay
PROPERTY FinalizesAfterRefundTimeout
PROPERTY SettledHoldsMoveOn
CHECK_DEADLOCK FALSE
