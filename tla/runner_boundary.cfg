SPECIFICATION FairSpec
CONSTANTS
  MaxU64 = 9
  nvda = nvda
  m1 = m1
  m2 = m2
  p1 = p1
  p2 = p2
  Symbols = {nvda}
  MIN_MARKET_LEAD = 1
  MAX_OBSERVATION_WINDOW = 2
  MAX_SETTLEMENT_GRACE = 2
  MAX_SETTLEMENT_STALENESS = 3
  STALENESS_TO_WINDOW_RATIO = 2
  SETTLEMENT_REFUND_PRIORITY = 1
  MARKET_CLEANUP_BUFFER = 3
  Markets = {m1, m2}
  Terms <- TwoBoundaries
  Prices = {1}
  MaxTime = 13
  Positions = {p1, p2}
  MarketOf <- OnePositionEach
  PERIOD = 4
  BOUNDARY_WAKE_OFFSET = 1
  MAX_FAULTS = 2
  LAST_FAULT = 9
INVARIANTS
  DecisionsStayValid
  RefundHasACause
PROPERTIES
  PositionsResolveEventually
CHECK_DEADLOCK FALSE
