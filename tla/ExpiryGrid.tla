----------------------------- MODULE ExpiryGrid -----------------------------
(***************************************************************************)
(* The rolling grid of expiries, vsol/scripts/lib/expiry-grid.ts and its   *)
(* twin in app/lib/expiries.ts: five series whose boundaries are computed  *)
(* each on its own cadence and pushed forward until they are in order.     *)
(* There is no calendar: every boundary is a multiple of its cadence.      *)
(***************************************************************************)
EXTENDS Naturals

CONSTANTS
  FIFTEEN_MINUTES, ONE_HOUR, DAY,    \* the cadences
  CUTOFF_15M, CUTOFF                 \* how long before its expiry a series stops trading

ASSUME GridAssumption ==
  /\ FIFTEEN_MINUTES \in Nat \ {0} /\ ONE_HOUR \in Nat \ {0} /\ DAY \in Nat \ {0}
  /\ CUTOFF_15M \in Nat \ {0} /\ CUTOFF_15M <= FIFTEEN_MINUTES
  /\ CUTOFF \in Nat \ {0} /\ CUTOFF <= ONE_HOUR

SeriesCodes == {"15M", "1H", "EOD", "7D", "30D"}

ceilTo(t, step) == ((t + (step - 1)) \div step) * step

nextFixedBoundary(t, cadence) == ceilTo(t + cadence, cadence)

nextUtcMidnightAfter(t) == (t \div DAY + 1) * DAY

(* The while loop in closed form: as many whole steps as it takes.         *)
advanceUntilAfter(candidate, floor, step) ==
  IF candidate > floor THEN candidate
  ELSE candidate + ((floor - candidate) \div step + 1) * step

series(code, boundary, cutoff) ==
  [code |-> code, expiry |-> boundary, lastTradeAt |-> boundary - cutoff]

fifteen(t) == nextFixedBoundary(t, FIFTEEN_MINUTES)
oneHour(t) == advanceUntilAfter(nextFixedBoundary(t, ONE_HOUR), fifteen(t), ONE_HOUR)
eod(t) == advanceUntilAfter(nextUtcMidnightAfter(t), oneHour(t), DAY)
seven(t) == advanceUntilAfter(nextUtcMidnightAfter(t + 7 * DAY), eod(t), DAY)
thirty(t) == advanceUntilAfter(nextUtcMidnightAfter(t + 30 * DAY), seven(t), DAY)

rollingMarketSchedule(t) ==
  << series("15M", fifteen(t), CUTOFF_15M), series("1H", oneHour(t), CUTOFF),
     series("EOD", eod(t), CUTOFF), series("7D", seven(t), CUTOFF),
     series("30D", thirty(t), CUTOFF) >>

=============================================================================
