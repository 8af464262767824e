CONSTANTS
  p1 = p1
  p2 = p2
  p3 = p3
  Proc <- ThreeProcs
  Nil = Nil
  Half = 4
SPECIFICATION FairSpec
CHECK_DEADLOCK FALSE
INVARIANT NobodyLost
INVARIANT NoMissedNotification
PROPERTY SilentNotifyOwesNothing
PROPERTY ImplementsCond
PROPERTY NotifiedReturn
