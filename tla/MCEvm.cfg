SPECIFICATION Spec
CONSTANTS
  e1 = e1
  e2 = e2
  s1 = s1
  NoWallet = NoWallet
  EvmKeys = {e1, e2}
  SolanaKeys = {s1}
  NetworkNames <- MCNetworkNames
  AssetNames <- MCAssetNames
  Wallets <- MCWallets
  OurId <- Base
  Requirements <- MCRequirements
  Accepts <- MCAccepts
  Assets <- MCAssets
  Balance <- MCBalance
  c1 = c1
  c2 = c2
  f1 = f1
  f2 = f2
  Calls = {c1, c2}
  Fetches = {f1, f2}
  Skew = 1
  MaxTimeout = 1
  MaxTime = 2
  MaxSigned = 2
  MaxFee = 2
INVARIANT TypeOK
INVARIANT SettledIsTransferred
INVARIANT OneSuccessPerAuthorization
INVARIANT PaysWithCoveredWallet
PROPERTY VerdictIsRight
SYMMETRY Symmetric
CHECK_DEADLOCK FALSE
