\* The chain of the experiments: one forwarder on the leaf, one on the gateway.
CONSTANTS
  Hops = 2
  MaxBytes = 2
  Window = 0
SPECIFICATION Spec
INVARIANT TypeOK
INVARIANT InOrder
INVARIANT EndIsComplete
 
CHECK_DEADLOCK FALSE
