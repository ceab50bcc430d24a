SPECIFICATION Spec
CONSTANTS
  Clients = {c1, c2}
  Agents = {c1}
  Online = {c1}
  WithMedia = {}
  Inc = Inc
  None = None
  InviteP = InviteP
  TimerP = TimerP
  CancelP = CancelP
  ByeP = ByeP
  PushTarget = TRUE
  Faults = TRUE
CHECK_DEADLOCK FALSE
INVARIANT StopsRinging
