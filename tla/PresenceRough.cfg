SPECIFICATION PresenceSpec
CONSTANTS
  Agents = {a1, a2}
  Devices = {}
  AgentTrunks = {t1}
  DeviceTrunks = {}
  Contact <- MCContact
  Subject <- MCSubject
  Sids = {s1}
  None = None
  Shared = FALSE
  Parts = {"presence", "chat", "match"}
  Public = public
  Agent = agent
  Texts = {text}
  Window = 2
  MaxMarks = 1
  MaxMsgs = 2
  MaxRequests = 2
  MaxGen = 2
  MaxSent = 2
  Refresh = TRUE
  Heartbeat = TRUE
  Faults = TRUE
  Peers = TRUE
CHECK_DEADLOCK FALSE
INVARIANTS
  SweepSparesReplacement
  ChatOnce
  
SYMMETRY AgentSymmetry
