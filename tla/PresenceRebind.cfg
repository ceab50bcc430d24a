SPECIFICATION FairPresenceSpec
CONSTANTS
  Agents = {a1, a2}
  Devices = {}
  AgentTrunks = {t1, t2}
  DeviceTrunks = {}
  Contact <- MCContact
  Subject <- MCSubject
  Sids = {}
  None = None
  Shared = FALSE
  Parts = {"presence"}
  Public = public
  Agent = agent
  Texts = {text}
  Window = 2
  MaxMarks = 1
  MaxMsgs = 2
  MaxRequests = 2
  MaxGen = 2
  MaxSent = 2
  Refresh = FALSE
  Heartbeat = FALSE
  Faults = FALSE
  Peers = FALSE
CHECK_DEADLOCK FALSE
INVARIANT AgentTrunksTrue
PROPERTY PresenceSettles
