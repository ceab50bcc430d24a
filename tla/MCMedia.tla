------------------------------- MODULE MCMedia -------------------------------
(***************************************************************************)
(* The video path from the SIP side to the browser, in one run of TLC:     *)
(* which says whether this is a behaviour of the reorder buffer, of the    *)
(* gate of a switch or of the requests for key frames.  The other parts    *)
(* stay as they began.                                                     *)
(***************************************************************************)
EXTENDS ReorderBuffer, Sequences

CONSTANTS
  N,                                          \* length of the stream
  Notices, Target, Scenes,                    \* SwitchVideo: Handlers, Target, Worlds
  Debounce, Gap, PliMin, Coalesce, SipMin, Initial, Safety, Schedule, RetryCap, Late, Calm, Horizon,
  Asking                                      \* KeyframeRequests: its Lag is Late, its Worlds Asking

(* A burst asks at once, and then ever later. *)
ASSUME ScheduleAssumption ==
  /\ Len(Schedule) \in Nat \ {0} /\ Schedule \in [1 .. Len(Schedule) -> Nat]
  /\ Schedule[1] = 0

VARIABLES
  which,
  world, src, ses, gate, cache, rd, behind, norm, emitMu, w, hpc, tok, dec, door, fails,  \* SwitchVideo
  now, left, clk, inFlight, ts, pend, free, held, burstGen, bursts, retryGen, retryActive,
  retries, sends, wake, sleep, pic, need, vfu                                             \* KeyframeRequests

switchVars == <<world, src, ses, gate, cache, rd, behind, norm, emitMu, w, hpc, tok, dec, door, fails>>
requestVars == <<now, left, clk, inFlight, ts, pend, free, held, burstGen, bursts, retryGen, retryActive,
  retries, sends, wake, sleep, pic, need, vfu>>

Switch == INSTANCE SwitchVideo WITH
  Handlers <- Notices, Worlds <- Scenes, held <- behind

Requests == INSTANCE KeyframeRequests WITH Lag <- Late, Worlds <- Asking

MediaInit ==
  /\ which \in {"reorder", "switch", "requests"} /\ Init /\ Switch!Init /\ Requests!Init
  /\ which # "switch" => world = CHOOSE s \in Scenes : TRUE
  /\ which # "requests" => left = CHOOSE n \in Asking : TRUE

MediaNext ==
  \/ which = "reorder" /\ Next /\ UNCHANGED <<which, switchVars, requestVars>>
  \/ which = "switch" /\ Switch!Next /\ UNCHANGED <<which, vars, requestVars>>
  \/ which = "requests" /\ Requests!Next /\ UNCHANGED <<which, vars, switchVars>>

MediaSpec == MediaInit /\ [][MediaNext]_<<which, vars, switchVars, requestVars>>

-----------------------------------------------------------------------------
(* SwitchVideo: the gate does not stick, a reservation opens no other gate, and
   the decoder gets pictures it has the IDR of, IDRs in order, except through the
   doors PicturesDecodable and IDRsInOrder name (the gate failing open, late
   writes of the timer, stale generations). *)
GateSafe == Switch!GateSafe

(* KeyframeRequests: whoever needs a key frame is asked for one. *)
RequestsAnswered == Requests!RequestsAnswered

(* KeyframeRequests: the rest of an older picture does not satisfy a switch. *)
SatisfiedByNewPicture == Requests!SatisfiedByNewPicture
-----------------------------------------------------------------------------
(* The instance TLC runs. *)

(* The numbers of the stream wrap within it. *)
MCPackets == 1 .. N
MCSeqNo == [p \in MCPackets |-> (p + M - 5) % M]

(* An "@switch" message with a renegotiation or a blackout; one with a source
   whose clock jumps; one with a source that changes its SSRC and a write that
   fails; two of them for one agent. *)
MCTarget == [h \in Notices |-> "agent"]
MCScenes ==
  {[notices |-> {"n1"}, ssrc |-> <<1>>, follow |-> {"claim", "blackout"}, fails |-> 0],
   [notices |-> {"n1"}, ssrc |-> <<1, 1>>, follow |-> {"done"}, fails |-> 0],
   [notices |-> {"n1"}, ssrc |-> <<1, 2>>, follow |-> {"done"}, fails |-> 1],
   [notices |-> Notices, ssrc |-> <<1>>, follow |-> {"done"}, fails |-> 0]}

(* How many events of each kind come: a unit of time is 250 ms or more. *)
EventKinds == {"vfu", "rtcp", "notice", "page", "reinvite", "drop", "picture", "slice"}
Room(n) == [k \in EventKinds |-> IF k \in DOMAIN n THEN n[k] ELSE 0]
MCAsking == {Room([vfu |-> 2, picture |-> 1, slice |-> 1]),
             Room([vfu |-> 1, page |-> 1, picture |-> 1]),
             Room([page |-> 2, picture |-> 2]), Room([page |-> 1, picture |-> 1, slice |-> 1]),
             Room([rtcp |-> 2, notice |-> 1, picture |-> 1]),
             Room([vfu |-> 1, drop |-> 1, picture |-> 1]),
             Room([reinvite |-> 1, drop |-> 2, picture |-> 1])}
MCSchedule == <<0, 1, 2, 4>>
=============================================================================
