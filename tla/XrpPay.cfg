\* One open command and one payment at a time; requests of commands that gave
\* up are still on the link.
CONSTANTS
  OpenThread = {o1}
  PayThread = {p1}
  Channel = {c1, c2}
  Funding = 3
  PayAmount = {0, 1, 2}
  MaxTotal = 5
  None = None
SPECIFICATION Spec
SYMMETRY Channels
INVARIANT TypeOK
INVARIANT BestIsPayable
INVARIANT AckedIsKept
 
PROPERTY ImplementsClaims
PROPERTY NeverSignsBelowAcked
