SPECIFICATION Spec
CONSTANTS
  MaxU64 = 99
  nvda = nvda
  m1 = m1
  alice = alice
  bob = bob
  carol = carol
  treasury = treasury
  k1 = k1
  k2 = k2
  Symbols = {nvda}
  MIN_MARKET_LEAD = 1
  MAX_OBSERVATION_WINDOW = 1
  MAX_SETTLEMENT_GRACE = 1
  MAX_SETTLEMENT_STALENESS = 2
  STALENESS_TO_WINDOW_RATIO = 1
  SETTLEMENT_REFUND_PRIORITY = 1
  MARKET_CLEANUP_BUFFER = 2
  NoQuoteAuthority = NoQuoteAuthority
  Buyers = {bob}
  Markets = {m1}
  Terms <- OneMarket
  POOL_UPDATE_TIMELOCK = 1
  QuoteAuthorities = {k1}
  LimitChoices <- OneCap
  EligibilityChoices = {FALSE}
  EligibleUntil = {}
  Providers = {alice}
  Treasury = treasury
  Supply <- RichBuyer
  Prices = {3}
  Quotes <- OneQuote
  Buybacks = {0,2,3}
  DepositAmounts = {5}
  FeeChoices = {1000}
  Cutoffs = {2}
  Switches = {}
  MaxVersions = 0
  MaxDonations = 0
  MaxTime = 8
PROPERTIES
  EarlyCloseNeverDearer
