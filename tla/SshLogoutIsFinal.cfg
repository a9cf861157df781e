SPECIFICATION Spec
CONSTANTS
  NumHops = 1
  AuthOf <- AgentOnly
  Sizes = {s1, s2}
  InitialSize = s1
  EventCap = 2
  ControlCap = 2
  InputCap = 1
  OutputCap = 1
  ChannelCap = 2
  InitialBackoff = 1
  MaxBackoff = 3
INVARIANT
  LogoutIsFinal
