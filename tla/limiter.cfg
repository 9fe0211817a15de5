SPECIFICATION LimiterSpec
CONSTANTS
  k1 = k1
  k2 = k2
  Keys = {k1, k2}
  Window = 2
  Limit = 2
  Burst = 3
INVARIANTS TwiceAtMost CleanupInvisible
PROPERTY PoliteServed
