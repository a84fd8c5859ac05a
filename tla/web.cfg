SPECIFICATION MCSpec
CONSTANTS
  w1 = w1
  w2 = w2
  qa = qa
  Wallets = {w1, w2}
  Nonces = {n1, n2}
  Attempts = {f1, f2}
  Handlers = {h1, h2}
  AUTH_NONCE_TTL = 1
  NONCE_RETENTION = 0
  SESSION_TTL = 1
  LastNow = 1
  Callers = {c1, c2}
  SNAPSHOT_TTL = 1
  UNIVERSE_TTL = 2
  PAIR_TTL = 2
  BARS_TTL = 1
  STALE_BARS_TTL = 2
  VOLATILITY_TTL = 3
  STATUS_TTL = 2
  LOOKUP_TABLE_TTL = 1
  SNAPSHOT_BACKOFF = 1
  BARS_BACKOFF = 1
  LastClock = 4
  Users = {u1}
  QuoteHandlers = {h1, h2}
  Payouts = {1}
  MINUTE = 1
  HOUR = 2
  EXECUTABLE_QUOTES_PER_MINUTE_LIMIT = 1
  EXECUTABLE_QUOTES_PER_HOUR_LIMIT = 2
  QUOTE_TTL = 1
  ROW_RETENTION = 2
  LIMIT_WAIT = 1
  MIN_FILL_TIME = 0
  CutoffAt = 4
  BPS = 2
  MaxUtilizationBps = 2
  MaxPositionBps = 1
  PoolSize = 2
  LastQuoteTime = 4
  Owners = {w1, w2}
  Copies = {1, 2}
  Quotes = {qa}
  BuyerOf <- MCBuyerOf
  Senders = {s1, s2}
  Recorders = {r1, r2}
  Actions = {1, 2}
  MaxSenders = 2
  QUOTE_LIFE = 1
  MARKET_EXPIRY = 2
  LAUNCH_TRADE_LOCK = 1
  LAUNCH_MIN_LEAD = 0
  Moments = {0, 2}
  MAX_AUTO_REFRESHES = 1
  MaxEdits = 1
  MaxSwitches = 1
  MaxClamps = 1
  MaxSeq = 5
  Codes = {"15M", "7D"}
  Underlyings = {live, daily, soon}
  Tradable = {live, daily}
  IntradayEligible = {live}
  MIN_LEAD = 0
  Leads <- MCLeads
  FIFTEEN_MINUTES = 2
  ONE_HOUR = 4
  DAY = 8
  CUTOFF_15M = 1
  CUTOFF = 2
  TRADE_LOCK_LONG = 2
  Strikes = {2, 3}
  Spots = {2, 5}
  LADDER_STEP = 2
  TRADE_LOCK = 1
  LastGridTime = 1
  MaxChanges = 3
  Keys = {1, 2}
  NoKey = 0
  HEARTBEAT_INTERVAL = 3
  HEARTBEAT_MAX_AGE = 9
  CUSTOM_ORACLE_MAX_STALENESS = 3
  MaxPass = 1
  LastMoment = 20
  MaxStarts = 2
INVARIANTS
  SessionsAreProven
  AgesAreHonest
  ExecutableQuotesAreBounded
  RecordedPositionsAreFills
  ConfirmedActionsHappened
  SignedQuoteIsTheOneShown
  CatalogAgreesWithQuotes
  HeartbeatIsHonest
CHECK_DEADLOCK FALSE
