SPECIFICATION Spec
CONSTANTS
  Clients = {c1, c2}
  Agents = {c1, c2}
  Online = {c1, c2}
  WithMedia = {c1}
  Inc = Inc
  None = None
  InviteP = InviteP
  TimerP = TimerP
  CancelP = CancelP
  ByeP = ByeP
  PushTarget = FALSE
  Faults = FALSE
CHECK_DEADLOCK FALSE
INVARIANTS
  TerminalMutex
  RingEndersNeverKillAnswered
  OneFinalResponse
  LoserHangupSparesCall
  StaysFindable
  AnswererMayEnd
PROPERTY OutcomeSpec
