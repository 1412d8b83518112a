SPECIFICATION FairSpec
CONSTANTS
  sol = sol
  usdc = usdc
  Prices = {sol, usdc}
  NativePrices = {sol}
  Wallets = {"w"}
  Hashes = {"h1"}
  Calls = {1, 2}
  PerSecond = 2
  Timeout = 2
  MaxRetries = 2
  MaxNow = 3
  MaxIssued = 2
INVARIANT TypeOK
INVARIANT OneReceiptPerChallenge
INVARIANT ReceiptsArePaid
INVARIANT SponsorsOnlyCharges
INVARIANT AcceptedUntilExpiry
PROPERTY EveryCallEnds
CHECK_DEADLOCK FALSE
