SPECIFICATION FairSpec
CONSTANTS
  OutputCap = 1
  EventCap = 1
  ControlCap = 1
  InputCap = 1
  MaxSends = 2
  MaxPlugs = 3
  PtyBuf = 2
  MaxWrites = 2
INVARIANT
  TypeOK
  EndMeansReaped
PROPERTY
  DirectContract
  OutputIsShown
  BreakEnds
  LinesAreShown
  ClosedSessionsEnd
CHECK_DEADLOCK FALSE
