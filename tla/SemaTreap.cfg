CONSTANTS
  s1 = s1
  s2 = s2
  s3 = s3
  s4 = s4
  Nil = Nil
  Sudog <- MCSudog
  Addr = {1, 2}
  MaskBit = 4
  Tickets <- MCTickets
SPECIFICATION Spec
SYMMETRY Symmetric
INVARIANT TreapShape
INVARIANT ReleasedClean
PROPERTY ImplementsQueue
