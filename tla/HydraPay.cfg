\* Everything may fail; two payments at a time.
CONSTANTS
  Thread = {t1, t2}
  Amount = {1}
  MinUtxo = 1
  Funds = 2
  PeerFunds = 0
  MaxDepth = 2
  MaxEvents = 2
  Cut = 2
  MaxWire = 1
  Faults = {"drop", "crash", "fail", "timeout", "pay", "other"}
  None = None
SPECIFICATION Spec
SYMMETRY Threads
INVARIANT TypeOK
INVARIANT ViewIsCurrent
INVARIANT WaiterSees
INVARIANT OkIsConfirmed
