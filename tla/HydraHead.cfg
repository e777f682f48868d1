\* Two commands at a time, two or three heads one after the other.
CONSTANTS
  Thread = {t1, t2}
  MaxWire = 1
  Attempts = 2
  Setups <- HeadSetups
SPECIFICATION Spec
SYMMETRY Threads
INVARIANT TypeOK
PROPERTY CloseDelivers
INVARIANT NeverTooEarly
PROPERTY FinalIsFinal
PROPERTY DepositIsIn
CHECK_DEADLOCK FALSE
