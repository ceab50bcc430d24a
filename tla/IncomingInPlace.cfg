SPECIFICATION FairSpec
CONSTANTS
  Clients = {c1, c2}
  Agents = {c1, c2}
  Online = {c1, c2}
  WithMedia = {}
  Inc = Inc
  None = None
  InviteP = InviteP
  TimerP = TimerP
  CancelP = CancelP
  ByeP = ByeP
  PushTarget = FALSE
  Faults = FALSE
CHECK_DEADLOCK FALSE
INVARIANT DisconnectEndsCall
PROPERTY RingingResolves
