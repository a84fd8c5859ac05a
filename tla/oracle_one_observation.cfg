SPECIFICATION Spec
CONSTANTS
  MaxU64 = 9
  nvda = nvda
  m1 = m1
  m2 = m2
  Symbols = {nvda}
  MIN_MARKET_LEAD = 1
  MAX_OBSERVATION_WINDOW = 2
  MAX_SETTLEMENT_GRACE = 2
  MAX_SETTLEMENT_STALENESS = 3
  STALENESS_TO_WINDOW_RATIO = 2
  SETTLEMENT_REFUND_PRIORITY = 1
  MARKET_CLEANUP_BUFFER = 3
  CUSTOM_ORACLE_MAX_STALENESS = 2
  CUSTOM_OBSERVATION_MAX_CAPTURE_AGE = 1
  NoAuthority = NoAuthority
  Markets = {m1, m2}
  Terms <- TwoStrikes
  Authorities = {a1}
  Quotations <- NoQuotations
  CustomQuotations <- FeedQuotations
  Scales = {1}
  MaxPrints = 0
  MaxTime = 5
INVARIANTS
  OneObservationPerExpiry
