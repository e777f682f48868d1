\* Two pay commands at the same time.
CONSTANTS
  OpenThread = {o1}
  PayThread = {p1, p2}
  Channel = {c1, c2}
  Funding = 2
  PayAmount = {1}
  MaxTotal = 3
  None = None
SPECIFICATION Spec
PROPERTY NeverSignsBelowAcked
