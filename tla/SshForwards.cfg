SPECIFICATION FairSpec
CONSTANTS
  l1 = l1  r1 = r1  r2 = r2  b1 = b1  None = None
  Forwards = {l1, r1, r2}
  Remote = {r1, r2}
  Binds = {b1}
  BindOf <- OneBind
  ControlCap = 2
  EventCap = 1
  MaxAsked = 2
  MaxDrops = 2
INVARIANT
  TypeOK
  NoOrphanListener
  DeliveryIsCurrent
  RowsTellTruth
PROPERTY TakenForwardsReport
CHECK_DEADLOCK FALSE
