SPECIFICATION MCSpec
CONSTANTS
  Scripts = {"tables"}
  k1 = k1
  k2 = k2
  m1 = m1
  q1 = q1
  q2 = q2
  c1 = c1
  a = a
  b = b
  nvda = nvda
  p1 = p1
  p2 = p2
  i1 = i1
  i2 = i2
  Keepers = {k1, k2}
  SpotStrikes = {1, 2}
  FIFTEEN_MINUTES = 2
  ONE_HOUR = 4
  DAY = 8
  CUTOFF_15M = 1
  CUTOFF = 2
  KEEPER_MIN_LEAD = 0
  CREATE_AUTHORIZE_MARGIN = 1
  RUNGS = 2
  MaxPasses = 2
  MaxOthers = 1
  MaxClock = 1
  MIN_MARKET_LEAD = 1
  Markets = {m1}
  market = m1
  Symbols = {nvda}
  Terms <- MCTerms
  MaxU64 = 9
  MAX_OBSERVATION_WINDOW = 1
  MAX_SETTLEMENT_GRACE = 1
  MAX_SETTLEMENT_STALENESS = 3
  STALENESS_TO_WINDOW_RATIO = 3
  SETTLEMENT_REFUND_PRIORITY = 1
  MARKET_CLEANUP_BUFFER = 3
  Pools = {q1, q2}
  Cleaners = {c1}
  MAX_MARKETS_CLOSED_PER_RUN = 1
  MAX_RUN = 7
  MaxPositions = 1
  Instants = {0, 2, 3, 7, 9}
  Series = {a, b}
  Listed = {a}
  ExpiryOf <- MCExpiryOf
  KeeperPasses = {p1, p2}
  OBSERVATION_SECONDS = 1
  GRACE_SECONDS = 0
  STALENESS_SECONDS = 1
  ROTATION_ADDRESS_THRESHOLD = 1
  ALT_DEACTIVATION_COOLDOWN = 1
  TableCount = 3
  LastInstant = 3
  Seconds = {0, 1, 2, 3, 4, 5}
  Quotations <- MCQuotations
  SLACK = 1
  GAP_STEP = 2
  GAP_GROWTH = 2
  GAP_MAX = 3
  MAX_PROBES = 3
  listings <- MCListings
  schedule <- MCRungs
  Days = {1}
  LadderStrikes = {1, 2}
  MAX_ATTEMPTS = 2
  MaxRuns = 2
  Codes = {"15M"}
  Underlyings = {nvda}
  Tradable = {nvda}
  IntradayEligible = {nvda}
  Strikes = {3, 6}
  Spots = {5}
  LADDER_STEP = 2
  TRADE_LOCK = 1
  TRADE_LOCK_LONG = 2
  MIN_LEAD = 0
  Leads = {1}
  LastGridTime = 1
  MaxChanges = 3
  Instances = {i1, i2}
  LegacyFits = {TRUE, FALSE}
  LastTable = 2
  MaxTableLength = 1
  a1 = a1
  a2 = a2
  QuoteAuthorities <- TwoAuthorities
  NoQuoteAuthority = NoQuoteAuthority
  LimitChoices <- AllLimits
  POOL_UPDATE_TIMELOCK = 2
  MaxTime = 5
PROPERTIES
  TablesOutliveSettlements
CHECK_DEADLOCK FALSE
