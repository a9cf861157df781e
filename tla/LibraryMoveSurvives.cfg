SPECIFICATION Spec
CONSTANTS
  s1 = s1  s2 = s2  p1 = p1  p2 = p2  general = general  sessions = sessions
  Ids = {s1, s2}
  Paths = {p1, p2}
  DefaultPath = p1
  Folders <- Nested
  Names = {general, sessions}
  General = general
  Legacy = sessions
  Index = Index  None = None  Missing = Missing  Corrupt = Corrupt
  MaxEntries = 2
  MaxOps = 3
INVARIANT SavedStay
