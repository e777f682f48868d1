\* A payee that stays up, and its tower, which lags behind.
CONSTANTS
  Funding = 2
  SettleDelay = 4
  Setups <- SmoothSetups
SPECIFICATION Spec
INVARIANT WatcherProtects
