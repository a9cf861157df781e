SPECIFICATION FairSpec
CONSTANTS
  h1 = h1  h2 = h2   q1 = q1  q2 = q2  w1 = w1  i1 = i1
  s1 = s1  kA = kA  kB = kB  openssh = openssh  pem = pem  cred = cred  None = None
  Prompts = {h1, h2, q1, i1}
  Request <- Asked
  Slots = {s1}
  Keys = {kA, kB}
  Paths = {openssh, pem}
  Readable = {openssh}
  Credentials = {cred}
  MaxAsks = 1
  MaxRestarts = 1
INVARIANT
  TypeOK
  WaitingAreHeld
  KeysAreAccepted
PROPERTY
  EveryoneIsAnswered
CHECK_DEADLOCK FALSE
