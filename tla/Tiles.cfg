SPECIFICATION Spec
CONSTANTS
  a = a  b = b  None = None
  Instances = {a, b}
  MaxTiles = 4
SYMMETRY Alike
INVARIANT
  TypeOK
  TreeIsSound
  InputStays
PROPERTY
  ForwardsAreAsked
