SPECIFICATION FairSpec
CONSTANTS
  Sessions = {s1, s2}
  Wedged = {s2}
  InputCap = 1
  PendingCap = 2
  MaxItems = 5
INVARIANT
  TypeOK
  LossIsMarked
PROPERTY
  KeysInOrder
  KeysAreQueued
  OthersAreServed
