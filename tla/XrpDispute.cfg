\* A payee with a tower, where payee and tower may die, or one without.
CONSTANTS
  Funding = 2
  SettleDelay = 2
  Setups <- DisputeSetups
SPECIFICATION Spec
INVARIANT TypeOK
INVARIANT HandoverIsTrue
INVARIANT TowerProtects
INVARIANT LoneWatcherProtects
 
