\* Two pay commands at a time, nothing fails.
CONSTANTS
  Thread = {t1, t2}
  Amount = {1}
  MinUtxo = 1
  Funds = 2
  PeerFunds = 0
  MaxDepth = 2
  MaxEvents = 4
  Cut = 1
  MaxWire = 1
  Faults = {}
  None = None
SPECIFICATION Spec
INVARIANT PaidIsReceived
