SPECIFICATION MediaSpec
CONSTANTS
  Packets <- MCPackets
  SeqNo <- MCSeqNo
  Reader = Reader
  N = 9
  M = 14
  W = 4
  Lag = 4
  Burst = 3
  Resets = TRUE
  Timers = {t1, t2}
  Notices = {"n1", "n2"}
  Target <- MCTarget
  Scenes <- MCScenes
  Debounce = 1
  Gap = 2
  PliMin = 1
  Coalesce = 3
  SipMin = 4
  Initial = 4
  Safety = 5
  Schedule <- MCSchedule
  RetryCap = 2
  Late = 1
  Calm = 7
  Horizon = 18
  Asking <- MCAsking
CHECK_DEADLOCK FALSE
INVARIANTS
  HeldInReach
  WrapFaithful
  RequestsAnswered
PROPERTIES
  DecidedWell
  GateSafe
  SatisfiedByNewPicture
