SPECIFICATION FairSpec
CONSTANTS
  NumHops = 2
  AuthOf <- KeyThenInteractive
  Sizes = {s1, s2}
  InitialSize = s1
  EventCap = 2
  ControlCap = 1
  InputCap = 1
  OutputCap = 1
  ChannelCap = 1
  InitialBackoff = 1
  MaxBackoff = 2
INVARIANTS
  TypeOK
  HostKeyBeforeAuth
  WaitHasAnswerer
  RetryStartsShort
  TimeoutIsUnannounced
  DisconnectIsObeyed
  SizeAgrees
PROPERTIES
  LifecycleContract
  DropEnds
  DisconnectEnds
