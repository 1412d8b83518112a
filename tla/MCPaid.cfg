SPECIFICATION Spec
CONSTANTS
  t1 = t1
  t2 = t2
  f1 = f1
  f2 = f2
  NoPayment = NoPayment
  Fetches = {f1, f2}
  RetryCount = 1
  Configs <- MCConfigs
  FixedMemo = TRUE
  Txs = {t1, t2}
  Valid = {t1, t2}
  Accounts = {}
  Born <- MCBorn
  Expires <- MCExpires
  Height <- MCHeight
  MaxAge = 2
  MaxRetries = 1
  DuplicateCheck = TRUE
  MaxBlock = 1
  MaxBuilt = 0
INVARIANT TypeOK
INVARIANT ServedIsPaid
PROPERTY PaysOneAtATime
PROPERTY ImplementsFacilitator
SYMMETRY Symmetry
CHECK_DEADLOCK FALSE
