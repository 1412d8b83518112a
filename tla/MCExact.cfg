SPECIFICATION Spec
CONSTANTS
  t1 = t1
  t2 = t2
  t3 = t3
  bad = bad
  a1 = a1
  Txs = {t1, t2, t3, bad}
  Valid = {t1, t2, t3}
  Accounts = {a1}
  Calls = {1, 2}
  Born <- MCBorn
  Expires <- MCExpires
  Height <- MCHeight
  MaxAge = 2
  MaxRetries = 2
  DuplicateCheck = TRUE
  MaxBlock = 3
  MaxBuilt = 2
INVARIANT TypeOK
INVARIANT OneReceiptPerPayment
INVARIANT SettlesOnlyPayments
CHECK_DEADLOCK FALSE
