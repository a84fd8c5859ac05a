SPECIFICATION MCSpec
CONSTANTS
  MaxU64 = 99
  nvda = nvda
  m1 = m1
  alice = alice
  bob = bob
  carol = carol
  treasury = treasury
  k1 = k1
  k2 = k2
  Symbols = {nvda}
  MIN_MARKET_LEAD = 1
  MAX_OBSERVATION_WINDOW = 1
  MAX_SETTLEMENT_GRACE = 1
  MAX_SETTLEMENT_STALENESS = 2
  STALENESS_TO_WINDOW_RATIO = 1
  SETTLEMENT_REFUND_PRIORITY = 1
  MARKET_CLEANUP_BUFFER = 2
  NoQuoteAuthority = NoQuoteAuthority
  Buyers = {bob}
  Markets = {m1}
  Terms <- OneMarket
  POOL_UPDATE_TIMELOCK = 1
  QuoteAuthorities = {k1}
  LimitChoices <- TwoCaps
  EligibilityChoices = {FALSE, TRUE}
  EligibleUntil = {1}
  Providers = {alice, carol}
  Treasury = bob
  Supply <- Wealth
  Prices = {1,3,5}
  Quotes <- ThreeQuotes
  Buybacks = {1, 3}
  DepositAmounts = {1, 2, 3, 5}
  FeeChoices = {0, 1000}
  Cutoffs = {2}
  Switches = {}
  MaxVersions = 1
  MaxDonations = 2
  MaxTime = 8
INVARIANTS
  CountersMatchPositions
  UtilizationBounded
  QuoteFilledOnce
  OpenPositionsHaveMarkets
  LedgerIsBacked
  TokensAndSharesAddUp
PROPERTIES
  TradingNeverWipesOut
  SharesKeepTheirWorth
  DepositsKeepTheirValue
