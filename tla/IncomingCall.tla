---------------------------- MODULE IncomingCall ----------------------------
(***************************************************************************)
(* One SIP call arriving on a trunk, from the INVITE to the moment no      *)
(* goroutine of the gateway works on it any more.  The call is presented   *)
(* to every available WebSocket client of the trunk; an accept, a reject,  *)
(* a hangup, the ring timeout, the caller's CANCEL, a disconnect or a      *)
(* refused admission ends the ringing, each in a goroutine of its own.     *)
(*                                                                         *)
(* A step is what a handler does between two points where another          *)
(* goroutine can get in: the session's mutex, the server's mutex, the      *)
(* session map and the INVITE transaction are separate locks, so what a    *)
(* handler read under one of them may be stale when it takes the next.     *)
(*                                                                         *)
(* Sources: api/ws_incoming.go, api/ws_call.go, api/ws_agent.go,           *)
(* api/ws_multicall.go, api/ws_notify.go, sip/handlers.go, sip/call.go,    *)
(* session/session.go, session/session_state.go, session/manager.go.       *)
(***************************************************************************)
EXTENDS Naturals, FiniteSets

CONSTANTS
  Clients,      \* WebSocket connections resolved to the trunk
  Agents,       \* those on /ws-agent: gated by ownership, hung up when they close
  Online,       \* those connected when the INVITE arrives; the others may join
  WithMedia,    \* those that already have a WebRTC session of their own
  Inc,          \* the session CreateSessionForIncoming makes for the INVITE
  None,         \* nobody, nothing
  InviteP, TimerP, CancelP, ByeP,  \* the goroutines that are not client readers
  PushTarget,   \* TRUE if the trunk has a device to wake when no client is there
  Faults        \* TRUE if a response can fail to be written and RTP ports run out

ASSUME ClientAssumption == Agents \cup Online \subseteq Clients /\ WithMedia \subseteq Online
ASSUME SwitchAssumption == PushTarget \in BOOLEAN /\ Faults \in BOOLEAN

System == {InviteP, TimerP, CancelP, ByeP}
Procs  == Clients \cup System

ASSUME NameAssumption ==
  /\ ({Inc, None} \cup System) \cap Clients = {}
  /\ Inc # None /\ {Inc, None} \cap System = {}
  /\ InviteP \notin {TimerP, CancelP, ByeP} /\ TimerP \notin {CancelP, ByeP} /\ CancelP # ByeP

(* The session a client made with its own offer is named by the client. *)
Sids == Clients \cup {Inc}

VARIABLES
  \* session.Session and session.Manager
  mgr,        \* ids in the manager's map
  state,      \* Session.State
  term,       \* TerminalAction, as the goroutine that set it (None: "")
  claim,      \* IncomingClaimedBy of Inc
  invite,     \* sessions that hold the stored INVITE transaction
  callID,     \* sessions whose SIPCallID is the call's
  dialog,     \* sessions with dialog state
  \* api.Server and api.WSClient
  conn,       \* wsConnections
  pending,    \* clients with Inc in pendingIncoming
  owned,      \* ownedSessionIDs
  cur,        \* WSClient.sessionID
  bound,      \* wsClients: session id -> client
  ui,         \* what the client was last told about the call
  \* the SIP side
  tx,         \* the INVITE server transaction
  caller,     \* the far end
  \* goroutines
  pc,         \* where each one is
  back,       \* where a client goes on once it has ended a session
  tgt,        \* the session it works on
  act,        \* what it picked from a state it read earlier
  todo,       \* clients still to be presented, sessions still to be ended
  \* history
  answeredBy, \* clients whose accept put a 200 on the transaction
  finals,     \* final responses the handlers gave the transaction, up to 2
  late        \* a client was presented the call while it was being ended

sessVars == <<mgr, state, term, claim, invite, callID, dialog>>
apiVars  == <<conn, pending, owned, cur, bound, ui>>
sipVars  == <<tx, caller>>
ctlVars  == <<pc, back, tgt, act, todo>>
histVars == <<answeredBy, finals, late>>
vars == <<sessVars, apiVars, sipVars, ctlVars, histVars>>

States == {"new", "incoming", "connecting", "active", "ended"}
Told   == {"none", "ringing", "stopped", "active"}

Init ==
  /\ mgr = WithMedia
  /\ state = [s \in Sids |-> IF s \in WithMedia THEN "connecting" ELSE "new"]
  /\ term = [s \in Sids |-> None]
  /\ claim = None
  /\ invite = {} /\ callID = {} /\ dialog = {}
  /\ conn = Online
  /\ pending = {}
  /\ owned = [c \in Clients |-> IF c \in WithMedia THEN {c} ELSE {}]
  /\ cur = [c \in Clients |-> IF c \in WithMedia THEN c ELSE None]
  /\ bound = [s \in Sids |-> IF s \in WithMedia THEN s ELSE None]
  /\ ui = [c \in Clients |-> "none"]
  /\ tx = "none" /\ caller = "none"
  /\ pc = [p \in Procs |-> IF p \in Clients \ Online THEN "off" ELSE "idle"]
  /\ back = [c \in Clients |-> "idle"]
  /\ tgt = [p \in Procs |-> None]
  /\ act = [p \in Procs |-> "none"]
  /\ todo = [p \in Procs |-> {}]
  /\ answeredBy = {} /\ finals = 0 /\ late = FALSE

-----------------------------------------------------------------------------
(* Guards and effects shared by the handlers *)

(* Mutant: the guard is not looked at. *)
CanBegin_NoGuard(s) == state[s] # "ended"

(* TryBeginTerminalAction: any state, as long as nobody holds the guard. *)
CanBegin(s) == term[s] = None

(* Mutants: the state read earlier is trusted; the guard is not looked at; a
   call claimed by an offer is spared. *)
CanBeginIncoming_StaleState(s) == term[s] = None
CanBeginIncoming_NoGuard(s) == state[s] = "incoming"
CanBeginIncoming_Unclaimed(s) == state[s] = "incoming" /\ term[s] = None /\ claim = None

(* TryBeginIncomingTerminalAction: the call must also still be ringing. *)
CanBeginIncoming(s) == state[s] = "incoming" /\ term[s] = None

(* Mutant: the guard is kept. *)
ClearTerminalAction_Keeps(s) == UNCHANGED term

ClearTerminalAction(s) == term' = [term EXCEPT ![s] = None]

(* Mutant: the last client wins. *)
CanClaim_LastWins(c) == TRUE

(* TryClaimIncoming: the first client, and that client again. *)
CanClaim(c) == claim \in {None, c}

(* Mutant: a claim that was answered no longer counts. *)
ClaimedByOther_Ringing(s, c) == s = Inc /\ state[s] = "incoming" /\ claim \notin {None, c}

(* incomingClaimedByOther *)
ClaimedByOther(s, c) == s = Inc /\ claim \notin {None, c}

(* agentClientCanAccessSession, checked before dispatch on /ws-agent only.
   Other sockets are not gated; a client knows the call's id once it was
   presented. *)
MayAnswer(c) ==
  IF c \in Agents THEN Inc \in owned[c] \/ c \in pending ELSE ui[c] # "none"

MayHangup(c, s) ==
  IF c \in Agents THEN s \in owned[c]
  ELSE s = cur[c] \/ (s = Inc /\ ui[c] # "none")

Goto(p, label) == pc' = [pc EXCEPT ![p] = label]

(* A goroutine that returns forgets what it worked on. *)
Return(p, label) ==
  /\ Goto(p, label)
  /\ tgt' = [tgt EXCEPT ![p] = None]
  /\ act' = [act EXCEPT ![p] = "none"]

(* sendWSMessage to each client of S that is still connected. *)
Tell(S, what) == ui' = [c \in Clients |-> IF c \in S \cap conn THEN what ELSE ui[c]]

(* Mutant: the raw state is passed on. *)
TellState_Raw(c) == Tell({c}, state[Inc])

(* The state message a loser gets instead: "connecting" changes nothing. *)
TellState(c) ==
  CASE state[Inc] = "active" -> Tell({c}, "active")
    [] state[Inc] = "ended"  -> Tell({c}, "stopped")
    [] OTHER                 -> UNCHANGED ui

(* bindClientSession; an unconditional overwrite of wsClients[s]. *)
Bind(c, s) ==
  /\ owned' = [owned EXCEPT ![c] = @ \cup {s}]
  /\ pending' = IF s = Inc THEN pending \ {c} ELSE pending
  /\ cur' = [cur EXCEPT ![c] = s]
  /\ bound' = [bound EXCEPT ![s] = c]

(* unbindClientSession; the client falls back to another session it owns. *)
Unbind(c, s) ==
  LET rest == owned[c] \ {s} IN
  /\ owned' = [owned EXCEPT ![c] = rest]
  /\ pending' = IF s = Inc THEN pending \ {c} ELSE pending
  /\ bound' = IF bound[s] = c THEN [bound EXCEPT ![s] = None] ELSE bound
  /\ \E t \in IF cur[c] # s THEN {cur[c]} ELSE IF rest # {} THEN rest ELSE {None} :
       cur' = [cur EXCEPT ![c] = t]

(* selectSIPMessageTargets: the bound client, unless that is an agent and
   another socket holds the session too; without one, whoever has it current. *)
Targets(s) ==
  LET others == {c \in conn \ Agents : s = cur[c] \/ s \in owned[c]} IN
  IF bound[s] = None THEN {c \in conn : cur[c] = s}
  ELSE IF bound[s] \in Agents /\ others # {} THEN others ELSE {bound[s]}

SetState(s, st) == state' = [state EXCEPT ![s] = st]

(* NotifySessionState: a client without the call does not take it for the call. *)
TellOf(s, c, what) == IF s \in callID THEN Tell({c}, what) ELSE UNCHANGED ui

(* SetState(ended), then NotifySessionState, which also unbinds the client. *)
EndAndNotify(s) ==
  /\ SetState(s, "ended")
  /\ \/ Targets(s) = {} /\ UNCHANGED <<owned, pending, cur, bound, ui>>
     \/ \E c \in Targets(s) : TellOf(s, c, "stopped") /\ Unbind(c, s)

ActivateAndNotify(s) ==
  /\ dialog' = dialog \cup {s}
  /\ SetState(s, "active")
  /\ \/ Targets(s) = {} /\ UNCHANGED ui
     \/ \E c \in Targets(s) : Tell({c}, "active")

(* DeleteSession: out of the map, then ended. *)
Delete(s) ==
  IF s \in mgr THEN mgr' = mgr \ {s} /\ SetState(s, "ended")
  ELSE UNCHANGED <<mgr, state>>

(* Mutant: only the client the session is bound to hears of the end. *)
Fanout_Bound(skip) ==
  /\ Tell({bound[Inc]} \ skip, "stopped")
  /\ pending' = pending \ conn

(* clearPendingIncoming together with the cancel message of the fan-out. *)
Fanout(skip) ==
  /\ Tell(conn \ skip, "stopped")
  /\ pending' = pending \ conn

(* tx.Respond with a final response: only the first one takes effect, the
   transaction reports "transaction terminated" for a later one. *)
Respond(final) ==
  /\ tx' = IF tx = "pending" THEN final ELSE tx
  /\ finals' = IF finals < 2 THEN finals + 1 ELSE finals

(* RejectCall: an error changes nothing, and there is one when no transaction
   is stored or the write fails; "transaction terminated" is taken as sent. *)
RejectFails(s) ==
  /\ s \notin invite \/ Faults
  /\ UNCHANGED <<state, invite, owned, pending, cur, bound, ui, tx, finals>>

RejectSent(s) ==
  /\ s \in invite
  /\ Respond("rejected")
  /\ EndAndNotify(s)
  /\ invite' = invite \ {s}

RejectCall(s) == RejectFails(s) \/ RejectSent(s)

-----------------------------------------------------------------------------
(* The INVITE handler: handleINVITE and NotifyIncomingCall *)

(* A new Call-ID on an owned trunk: session, call info, transaction. *)
InviteArrives ==
  /\ pc[InviteP] = "idle"
  /\ Goto(InviteP, "admit")
  /\ mgr' = mgr \cup {Inc} /\ SetState(Inc, "incoming")
  /\ invite' = invite \cup {Inc} /\ callID' = callID \cup {Inc}
  /\ tx' = "pending" /\ caller' = "calling"
  /\ UNCHANGED <<term, claim, dialog, apiVars, back, tgt, act, todo, histVars>>

(* The eligible clients are copied under the server's lock; client_state may
   have made any subset of them available. *)
Admit ==
  /\ pc[InviteP] = "admit"
  /\ \/ \E idle \in SUBSET conn \ {{}} :
          /\ todo' = [todo EXCEPT ![InviteP] = idle]
          /\ Goto(InviteP, "present")
     \/ /\ conn = {} /\ PushTarget
        /\ pc' = [pc EXCEPT ![InviteP] = "done", ![TimerP] = "armed"]
        /\ UNCHANGED todo
     \/ /\ conn # {} \/ ~PushTarget
        /\ Goto(InviteP, "refuse")
        /\ UNCHANGED todo
  /\ UNCHANGED <<sessVars, apiVars, sipVars, back, tgt, act, histVars>>

(* The copied clients are then told one by one, outside the lock. *)
Present(c) ==
  /\ pc[InviteP] = "present" /\ c \in todo[InviteP]
  /\ todo' = [todo EXCEPT ![InviteP] = @ \ {c}]
  /\ pending' = pending \cup {c}
  /\ Tell({c}, "ringing")
  /\ late' = (late \/ ~CanBeginIncoming(Inc))
  /\ UNCHANGED <<sessVars, conn, owned, cur, bound, sipVars, pc, back, tgt, act, answeredBy, finals>>

Presented ==
  /\ pc[InviteP] = "present" /\ todo[InviteP] = {}
  /\ pc' = [pc EXCEPT ![InviteP] = "done", ![TimerP] = "armed"]
  /\ UNCHANGED <<sessVars, apiVars, sipVars, back, tgt, act, todo, histVars>>

(* rejectIncomingSession: reads the state, then takes the guard without it. *)
Refuse ==
  /\ pc[InviteP] = "refuse"
  /\ Goto(InviteP, IF Inc \in mgr /\ state[Inc] \in {"incoming", "new"}
                   THEN "refuse_begin" ELSE "done")
  /\ UNCHANGED <<sessVars, apiVars, sipVars, back, tgt, act, todo, histVars>>

RefuseBegin ==
  /\ pc[InviteP] = "refuse_begin"
  /\ IF CanBegin(Inc)
     THEN term' = [term EXCEPT ![Inc] = InviteP] /\ Goto(InviteP, "refuse_send")
     ELSE Goto(InviteP, "done") /\ UNCHANGED term
  /\ UNCHANGED <<mgr, state, claim, invite, callID, dialog, apiVars, sipVars, back, tgt, act, todo, histVars>>

RefuseSend ==
  /\ pc[InviteP] = "refuse_send"
  /\ RejectCall(Inc) /\ Goto(InviteP, "refuse_delete")
  /\ UNCHANGED <<mgr, term, claim, callID, dialog, conn, caller, back, tgt, act, todo, answeredBy, late>>

RefuseDelete ==
  /\ pc[InviteP] = "refuse_delete"
  /\ Delete(Inc) /\ Goto(InviteP, "done")
  /\ UNCHANGED <<term, claim, invite, callID, dialog, apiVars, sipVars, back, tgt, act, todo, histVars>>

-----------------------------------------------------------------------------
(* A client connects late: trunk_resolve replays what is still ringing *)

Connect(c) ==
  /\ pc[c] = "off"
  /\ conn' = conn \cup {c}
  /\ Goto(c, IF c \notin Agents /\ Inc \in mgr /\ state[Inc] = "incoming"
             THEN "replay" ELSE "idle")
  /\ UNCHANGED <<sessVars, pending, owned, cur, bound, ui, sipVars, back, tgt, act, todo, histVars>>

Replay(c) ==
  /\ pc[c] = "replay"
  /\ pending' = pending \cup {c}
  /\ Tell({c}, "ringing")
  /\ late' = (late \/ ~CanBeginIncoming(Inc))
  /\ Goto(c, "idle")
  /\ UNCHANGED <<sessVars, conn, owned, cur, bound, sipVars, back, tgt, act, todo, answeredBy, finals>>

-----------------------------------------------------------------------------
(* handleWSoffer naming the incoming session: claim it and negotiate in place *)

Offer(c) ==
  /\ pc[c] = "idle" /\ c \in conn /\ MayAnswer(c) /\ Inc \in mgr
  /\ IF state[Inc] = "incoming" /\ ~CanClaim(c)
     THEN /\ Tell({c}, "stopped")
          /\ UNCHANGED <<claim, pending, owned, cur, bound, pc>>
     ELSE /\ claim' = IF state[Inc] = "incoming" THEN c ELSE claim
          /\ Bind(c, Inc)
          /\ Goto(c, "offered")
          /\ UNCHANGED ui
  /\ UNCHANGED <<mgr, state, term, invite, callID, dialog, conn, sipVars, back, tgt, act, todo, histVars>>

(* After ICE gathering: a session that is not ringing becomes "connecting". *)
Offered(c) ==
  /\ pc[c] = "offered"
  /\ Goto(c, "idle")
  /\ IF state[Inc] = "incoming" THEN UNCHANGED state ELSE SetState(Inc, "connecting")
  /\ UNCHANGED <<mgr, term, claim, invite, callID, dialog, apiVars, sipVars, back, tgt, act, todo, histVars>>

-----------------------------------------------------------------------------
(* handleWSAccept and AcceptCall *)

AcceptAsk(c) ==
  /\ pc[c] = "idle" /\ c \in conn /\ MayAnswer(c)
  /\ IF Inc \notin mgr \/ ClaimedByOther(Inc, c)
     THEN Tell({c}, "stopped") /\ UNCHANGED pc
     ELSE Goto(c, "acc_check") /\ UNCHANGED ui
  /\ UNCHANGED <<sessVars, conn, pending, owned, cur, bound, sipVars, back, tgt, act, todo, histVars>>

(* Still ringing, and the client has a WebRTC session: its own one, to which
   the call is transferred, or the incoming session it negotiated in place. *)
AcceptCheck(c) ==
  /\ pc[c] = "acc_check"
  /\ IF state[Inc] # "incoming"
     THEN TellState(c) /\ Goto(c, "idle") /\ UNCHANGED tgt
     ELSE /\ IF cur[c] \in mgr
             THEN tgt' = [tgt EXCEPT ![c] = cur[c]] /\ Goto(c, "acc_begin")
             ELSE Goto(c, "idle") /\ UNCHANGED tgt
          /\ UNCHANGED ui
  /\ UNCHANGED <<sessVars, conn, pending, owned, cur, bound, sipVars, back, act, todo, histVars>>

(* The guard alone: the state is not checked again. *)
AcceptBegin(c) ==
  /\ pc[c] = "acc_begin"
  /\ IF CanBegin(Inc)
     THEN term' = [term EXCEPT ![Inc] = c] /\ Goto(c, "acc_claim") /\ UNCHANGED <<ui, tgt, act>>
     ELSE /\ IF ClaimedByOther(Inc, c)
             THEN Tell({c}, "stopped") /\ Return(c, "idle")
             ELSE Goto(c, "acc_lost") /\ UNCHANGED <<ui, tgt, act>>
          /\ UNCHANGED term
  /\ UNCHANGED <<mgr, state, claim, invite, callID, dialog, conn, pending, owned, cur, bound,
                 sipVars, back, todo, histVars>>

AcceptLost(c) ==
  /\ pc[c] = "acc_lost"
  /\ TellState(c) /\ Return(c, "idle")
  /\ UNCHANGED <<sessVars, conn, pending, owned, cur, bound, sipVars, back, todo, histVars>>

(* TryClaimIncoming; a loser gives the guard back. *)
AcceptClaim(c) ==
  /\ pc[c] = "acc_claim"
  /\ IF CanClaim(c)
     THEN claim' = c /\ Goto(c, "acc_transfer") /\ UNCHANGED <<term, ui, tgt, act>>
     ELSE /\ ClearTerminalAction(Inc)
          /\ Tell({c}, "stopped") /\ Return(c, "idle")
          /\ UNCHANGED claim
  /\ UNCHANGED <<mgr, state, invite, callID, dialog, conn, pending, owned, cur, bound, sipVars,
                 back, todo, histVars>>

(* CopyIncomingInviteFrom and SetCallInfo: the source keeps its copy. *)
AcceptTransfer(c) ==
  LET w == tgt[c] IN
  /\ pc[c] = "acc_transfer"
  /\ invite' = IF Inc \in invite THEN invite \cup {w} ELSE invite \ {w}
  /\ callID' = callID \cup {w}
  /\ IF cur[c] # w \/ w \notin owned[c] THEN Bind(c, w) ELSE UNCHANGED <<pending, owned, cur, bound>>
  /\ Goto(c, "acc_200")
  /\ UNCHANGED <<mgr, state, term, claim, dialog, conn, ui, sipVars, back, tgt, act, todo, histVars>>

(* The 200; a 500 when no RTP port is free; nothing when the write fails. *)
Accept200(c) ==
  LET w == tgt[c] IN
  /\ pc[c] = "acc_200"
  /\ \/ /\ w \in invite
        /\ Respond("answered") /\ Goto(c, "acc_active")
        /\ answeredBy' = IF tx = "pending" THEN answeredBy \cup {c} ELSE answeredBy
     \/ /\ w \in invite /\ Faults
        /\ Respond("rejected") /\ Goto(c, "acc_finish")
        /\ UNCHANGED answeredBy
     \/ /\ w \notin invite \/ Faults
        /\ Goto(c, "acc_finish")
        /\ UNCHANGED <<tx, finals, answeredBy>>
  /\ UNCHANGED <<sessVars, apiVars, caller, back, tgt, act, todo, late>>

AcceptActive(c) ==
  /\ pc[c] = "acc_active"
  /\ ActivateAndNotify(tgt[c])
  /\ invite' = invite \ {tgt[c]}
  /\ Goto(c, "acc_finish")
  /\ UNCHANGED <<mgr, term, claim, callID, conn, pending, owned, cur, bound, sipVars,
                 back, tgt, act, todo, histVars>>

(* Whatever AcceptCall said: the presented session goes, the client is told
   "active", the guard of the session the call is now on is released. *)
AcceptFinish(c) ==
  LET w == tgt[c] IN
  /\ pc[c] = "acc_finish"
  /\ IF w # Inc THEN Delete(Inc) ELSE UNCHANGED <<mgr, state>>
  /\ Tell({c}, "active")
  /\ ClearTerminalAction(w)
  /\ Goto(c, "acc_fanout")
  /\ UNCHANGED <<claim, invite, callID, dialog, conn, pending, owned, cur, bound, sipVars,
                 back, tgt, act, todo, histVars>>

AcceptFanout(c) ==
  /\ pc[c] = "acc_fanout"
  /\ Fanout({c}) /\ Return(c, "idle")
  /\ UNCHANGED <<sessVars, conn, owned, cur, bound, sipVars, back, todo, histVars>>

-----------------------------------------------------------------------------
(* handleWSReject: the claim is not consulted *)

RejectAsk(c) ==
  /\ pc[c] = "idle" /\ c \in conn /\ MayAnswer(c) /\ Inc \in mgr
  /\ IF state[Inc] = "incoming"
     THEN Goto(c, "rej_begin") /\ UNCHANGED ui
     ELSE TellState(c) /\ UNCHANGED pc
  /\ UNCHANGED <<sessVars, conn, pending, owned, cur, bound, sipVars, back, tgt, act, todo, histVars>>

RejectBegin(c) ==
  /\ pc[c] = "rej_begin"
  /\ IF CanBeginIncoming(Inc)
     THEN term' = [term EXCEPT ![Inc] = c] /\ Goto(c, "rej_send") /\ UNCHANGED ui
     ELSE Tell({c}, "stopped") /\ Goto(c, "idle") /\ UNCHANGED term
  /\ UNCHANGED <<mgr, state, claim, invite, callID, dialog, conn, pending, owned, cur, bound,
                 sipVars, back, tgt, act, todo, histVars>>

(* A failed write returns an error to the client and leaves the guard held. *)
RejectSend(c) ==
  /\ pc[c] = "rej_send"
  /\ \/ RejectSent(Inc) /\ Goto(c, "rej_end")
     \/ RejectFails(Inc) /\ Goto(c, "idle")
  /\ UNCHANGED <<mgr, term, claim, callID, dialog, conn, caller, back, tgt, act, todo, answeredBy, late>>

(* The other ringing clients get no cancel. *)
RejectEnd(c) ==
  /\ pc[c] = "rej_end"
  /\ mgr' = mgr \ {Inc} /\ SetState(Inc, "ended")
  /\ pending' = pending \ conn
  /\ Tell({c}, "stopped") /\ Goto(c, "idle")
  /\ UNCHANGED <<term, claim, invite, callID, dialog, conn, owned, cur, bound, sipVars,
                 back, tgt, act, todo, histVars>>

-----------------------------------------------------------------------------
(* handleWSHangup, and forceEndSession when an agent's socket closes *)

(* Mutant: an answered session is dropped without a BYE. *)
ActionFor_NoBye(s) ==
  IF state[s] = "incoming" THEN "reject"
  ELSE IF state[s] = "connecting" THEN "cancel"
  ELSE "end"

(* The SIP action the state and the dialog call for, read without the guard. *)
ActionFor(s) ==
  IF state[s] = "incoming" THEN "reject"
  ELSE IF s \in dialog \/ state[s] = "active" THEN "bye"
  ELSE IF state[s] = "connecting" THEN "cancel"
  ELSE "end"

EndReturn(c) == Return(c, back[c]) /\ back' = [back EXCEPT ![c] = "idle"]

(* The client hears "ended" before anything is decided. *)
HangupAsk(c, s) ==
  /\ pc[c] = "idle" /\ c \in conn /\ MayHangup(c, s) /\ s \in mgr
  /\ TellOf(s, c, "stopped")
  /\ IF ClaimedByOther(s, c) THEN UNCHANGED <<pc, tgt>>
     ELSE tgt' = [tgt EXCEPT ![c] = s] /\ Goto(c, "hup_check")
  /\ UNCHANGED <<sessVars, conn, pending, owned, cur, bound, sipVars, back, act, todo, histVars>>

HangupCheck(c) ==
  /\ pc[c] = "hup_check"
  /\ act' = [act EXCEPT ![c] = ActionFor(tgt[c])]
  /\ Goto(c, "end_begin")
  /\ UNCHANGED <<sessVars, apiVars, sipVars, back, tgt, todo, histVars>>

EndBegin(c) ==
  /\ pc[c] = "end_begin"
  /\ IF CanBegin(tgt[c])
     THEN term' = [term EXCEPT ![tgt[c]] = c] /\ Goto(c, "end_send") /\ UNCHANGED <<back, tgt, act>>
     ELSE EndReturn(c) /\ UNCHANGED term
  /\ UNCHANGED <<mgr, state, claim, invite, callID, dialog, apiVars, sipVars, todo, histVars>>

(* Hangup sends the BYE and waits up to ten seconds before it ends the
   session; the far end only knows a dialog that has its tags. *)
EndSend(c) ==
  LET s == tgt[c] IN
  /\ pc[c] = "end_send"
  /\ \/ act[c] = "reject" /\ RejectCall(s) /\ Goto(c, "end_delete") /\ UNCHANGED caller
     \/ /\ act[c] = "bye"
        /\ caller' = IF s \in callID \cap dialog /\ tx = "answered" THEN "gone" ELSE caller
        /\ Goto(c, IF s \in callID THEN "end_bye" ELSE "end_delete")
        /\ UNCHANGED <<state, invite, owned, pending, cur, bound, ui, tx, finals>>
     \/ /\ act[c] = "cancel" /\ EndAndNotify(s) /\ Goto(c, "end_delete")
        /\ UNCHANGED <<invite, sipVars, finals>>
     \/ /\ act[c] = "end" /\ SetState(s, "ended") /\ Goto(c, "end_delete")
        /\ UNCHANGED <<invite, owned, pending, cur, bound, ui, sipVars, finals>>
  /\ UNCHANGED <<mgr, term, claim, callID, dialog, conn, back, tgt, act, todo, answeredBy, late>>

EndBye(c) ==
  /\ pc[c] = "end_bye"
  /\ EndAndNotify(tgt[c]) /\ Goto(c, "end_delete")
  /\ UNCHANGED <<mgr, term, claim, invite, callID, dialog, conn, sipVars, back, tgt, act, todo, histVars>>

EndDelete(c) ==
  /\ pc[c] = "end_delete"
  /\ Delete(tgt[c])
  /\ IF back[c] = "idle" THEN Unbind(c, tgt[c]) ELSE UNCHANGED <<owned, pending, bound, cur>>
  /\ EndReturn(c)
  /\ UNCHANGED <<term, claim, invite, callID, dialog, conn, ui, sipVars, todo, histVars>>

(* detachWSClient; an agent also gives up its sessions, then ends them. *)
Disconnect(c) ==
  /\ pc[c] = "idle" /\ c \in conn
  /\ conn' = conn \ {c}
  /\ bound' = [s \in Sids |-> IF bound[s] = c /\ (s \in owned[c] \/ s = cur[c]) THEN None ELSE bound[s]]
  /\ IF c \in Agents
     THEN /\ todo' = [todo EXCEPT ![c] = owned[c]] /\ Goto(c, "own")
          /\ owned' = [owned EXCEPT ![c] = {}]
          /\ cur' = [cur EXCEPT ![c] = None]
          /\ pending' = pending \ (IF Inc \in owned[c] THEN {c} ELSE {})
     ELSE Goto(c, "gone") /\ UNCHANGED <<todo, owned, cur, pending>>
  /\ ui' = [ui EXCEPT ![c] = "none"]
  /\ UNCHANGED <<sessVars, sipVars, back, tgt, act, histVars>>

(* forceEndSession: the next session of the snapshot, unless it is gone. *)
ForceEnd(c, s) ==
  /\ pc[c] \in {"own", "sweep"} /\ s \in todo[c]
  /\ todo' = [todo EXCEPT ![c] = @ \ {s}]
  /\ IF s \in mgr /\ state[s] # "ended"
     THEN /\ tgt' = [tgt EXCEPT ![c] = s]
          /\ act' = [act EXCEPT ![c] = ActionFor(s)]
          /\ back' = [back EXCEPT ![c] = pc[c]]
          /\ Goto(c, "end_begin")
     ELSE UNCHANGED <<pc, back, tgt, act>>
  /\ UNCHANGED <<sessVars, apiVars, sipVars, histVars>>

(* cleanupUnusedAgentTrunk: the last agent takes the trunk's calls with it. *)
Sweep(c) ==
  /\ pc[c] = "own" /\ todo[c] = {}
  /\ IF Agents \cap conn = {}
     THEN /\ todo' = [todo EXCEPT ![c] = {s \in mgr \cap callID : state[s] # "ended"}]
          /\ Goto(c, "sweep")
     ELSE Goto(c, "gone") /\ UNCHANGED todo
  /\ UNCHANGED <<sessVars, apiVars, sipVars, back, tgt, act, histVars>>

Swept(c) ==
  /\ pc[c] = "sweep" /\ todo[c] = {}
  /\ Goto(c, "gone")
  /\ UNCHANGED <<sessVars, apiVars, sipVars, back, tgt, act, todo, histVars>>

-----------------------------------------------------------------------------
(* startIncomingRingTimeout: the timer is never stopped, only ignored *)

TimerCheck ==
  /\ pc[TimerP] = "armed"
  /\ Goto(TimerP, IF Inc \in mgr /\ state[Inc] = "incoming" THEN "tmo_begin" ELSE "done")
  /\ UNCHANGED <<sessVars, apiVars, sipVars, back, tgt, act, todo, histVars>>

TimerBegin ==
  /\ pc[TimerP] = "tmo_begin"
  /\ IF CanBeginIncoming(Inc)
     THEN term' = [term EXCEPT ![Inc] = TimerP] /\ Goto(TimerP, "tmo_fanout")
     ELSE Goto(TimerP, "done") /\ UNCHANGED term
  /\ UNCHANGED <<mgr, state, claim, invite, callID, dialog, apiVars, sipVars, back, tgt, act, todo, histVars>>

TimerFanout ==
  /\ pc[TimerP] = "tmo_fanout"
  /\ Fanout({}) /\ Goto(TimerP, "tmo_send")
  /\ UNCHANGED <<sessVars, conn, owned, cur, bound, sipVars, back, tgt, act, todo, histVars>>

TimerSend ==
  /\ pc[TimerP] = "tmo_send"
  /\ RejectCall(Inc) /\ Goto(TimerP, "tmo_delete")
  /\ UNCHANGED <<mgr, term, claim, callID, dialog, conn, caller, back, tgt, act, todo, answeredBy, late>>

TimerDelete ==
  /\ pc[TimerP] = "tmo_delete"
  /\ Delete(Inc) /\ Goto(TimerP, "done")
  /\ UNCHANGED <<term, claim, invite, callID, dialog, apiVars, sipVars, back, tgt, act, todo, histVars>>

-----------------------------------------------------------------------------
(* The caller gives up: handleCANCEL and applyIncomingCallerCancel *)

(* sipgo matches the CANCEL to the pending transaction and answers 487
   itself, or hands it over unmatched and the Call-ID decides. *)
CallerCancels ==
  /\ pc[CancelP] = "idle" /\ caller = "calling"
  /\ caller' = "cancelled"
  /\ \/ /\ tx = "pending" /\ tx' = "cancelled"
        /\ tgt' = [tgt EXCEPT ![CancelP] = Inc]
        /\ act' = [act EXCEPT ![CancelP] = "matched"]
        /\ Goto(CancelP, "cxl_check")
     \/ /\ \E s \in mgr \cap callID : tgt' = [tgt EXCEPT ![CancelP] = s]
        /\ act' = [act EXCEPT ![CancelP] = "unmatched"]
        /\ Goto(CancelP, "cxl_check")
        /\ UNCHANGED tx
     \/ /\ mgr \cap callID = {} /\ Goto(CancelP, "done")
        /\ UNCHANGED <<tx, tgt, act>>
  /\ UNCHANGED <<sessVars, apiVars, back, todo, histVars>>

CancelCheck ==
  /\ pc[CancelP] = "cxl_check"
  /\ IF state[tgt[CancelP]] = "incoming" THEN Goto(CancelP, "cxl_begin") /\ UNCHANGED <<tgt, act>>
     ELSE Return(CancelP, "done")
  /\ UNCHANGED <<sessVars, apiVars, sipVars, back, todo, histVars>>

CancelBegin ==
  LET s == tgt[CancelP] IN
  /\ pc[CancelP] = "cxl_begin"
  /\ IF CanBeginIncoming(s)
     THEN /\ term' = [term EXCEPT ![s] = CancelP]
          /\ Goto(CancelP, IF act[CancelP] = "unmatched" THEN "cxl_487" ELSE "cxl_fanout")
          /\ UNCHANGED <<tgt, act>>
     ELSE Return(CancelP, "done") /\ UNCHANGED term
  /\ UNCHANGED <<mgr, state, claim, invite, callID, dialog, apiVars, sipVars, back, todo, histVars>>

(* tryRespondInviteTerminated; the stored transaction is kept. *)
Cancel487 ==
  /\ pc[CancelP] = "cxl_487"
  /\ IF tgt[CancelP] \in invite THEN Respond("cancelled") ELSE UNCHANGED <<tx, finals>>
  /\ Goto(CancelP, "cxl_fanout")
  /\ UNCHANGED <<sessVars, apiVars, caller, back, tgt, act, todo, answeredBy, late>>

CancelFanout ==
  /\ pc[CancelP] = "cxl_fanout"
  /\ Fanout({}) /\ Goto(CancelP, "cxl_end")
  /\ UNCHANGED <<sessVars, conn, owned, cur, bound, sipVars, back, tgt, act, todo, histVars>>

CancelEnd ==
  /\ pc[CancelP] = "cxl_end"
  /\ EndAndNotify(tgt[CancelP])
  /\ mgr' = mgr \ {tgt[CancelP]}
  /\ Return(CancelP, "done")
  /\ UNCHANGED <<term, claim, invite, callID, dialog, conn, sipVars, back, todo, histVars>>

-----------------------------------------------------------------------------
(* The caller confirms and later ends an answered call: handleACK, handleBYE.
   Both find the session by Call-ID; any that carries it may be the one. *)

CallerAcks ==
  /\ caller \in {"calling", "cancelled"} /\ tx = "answered"
  /\ caller' = "confirmed"
  /\ \/ \E s \in mgr \cap callID :
          IF s \in dialog THEN UNCHANGED <<dialog, state, ui>> ELSE ActivateAndNotify(s)
     \/ mgr \cap callID = {} /\ UNCHANGED <<dialog, state, ui>>
  /\ UNCHANGED <<mgr, term, claim, invite, callID, conn, pending, owned, cur, bound, tx, ctlVars, histVars>>

CallerByes ==
  /\ pc[ByeP] = "idle" /\ caller = "confirmed"
  /\ caller' = "gone"
  /\ \/ \E s \in mgr \cap callID :
          /\ EndAndNotify(s)
          /\ tgt' = [tgt EXCEPT ![ByeP] = s] /\ Goto(ByeP, "bye_delete")
     \/ /\ mgr \cap callID = {} /\ Goto(ByeP, "done")
        /\ UNCHANGED <<state, owned, pending, cur, bound, ui, tgt>>
  /\ UNCHANGED <<mgr, term, claim, invite, callID, dialog, conn, tx, back, act, todo, histVars>>

ByeDelete ==
  /\ pc[ByeP] = "bye_delete"
  /\ Delete(tgt[ByeP]) /\ Return(ByeP, "done")
  /\ UNCHANGED <<term, claim, invite, callID, dialog, apiVars, sipVars, back, todo, histVars>>

-----------------------------------------------------------------------------
(* A client's reader goroutine handles one message at a time. *)
ClientStarts(c) ==
  \/ Connect(c) \/ Offer(c) \/ AcceptAsk(c) \/ RejectAsk(c) \/ Disconnect(c)
  \/ \E s \in Sids : HangupAsk(c, s)

ClientRuns(c) ==
  \/ Replay(c) \/ Offered(c)
  \/ AcceptCheck(c) \/ AcceptBegin(c) \/ AcceptLost(c) \/ AcceptClaim(c)
  \/ AcceptTransfer(c) \/ Accept200(c) \/ AcceptActive(c) \/ AcceptFinish(c) \/ AcceptFanout(c)
  \/ RejectBegin(c) \/ RejectSend(c) \/ RejectEnd(c)
  \/ HangupCheck(c) \/ EndBegin(c) \/ EndSend(c) \/ EndBye(c) \/ EndDelete(c)
  \/ \E s \in Sids : ForceEnd(c, s)
  \/ Sweep(c) \/ Swept(c)

InviteRuns ==
  \/ Admit \/ Presented \/ Refuse \/ RefuseBegin \/ RefuseSend \/ RefuseDelete
  \/ \E c \in Clients : Present(c)

TimerRuns  == TimerCheck \/ TimerBegin \/ TimerFanout \/ TimerSend \/ TimerDelete
CancelRuns == CancelCheck \/ CancelBegin \/ Cancel487 \/ CancelFanout \/ CancelEnd
FarEnd     == InviteArrives \/ CallerCancels \/ CallerAcks \/ CallerByes

Next ==
  \/ FarEnd \/ InviteRuns \/ TimerRuns \/ CancelRuns \/ ByeDelete
  \/ \E c \in Clients : ClientStarts(c) \/ ClientRuns(c)

(* A goroutine that has started is scheduled until it returns and the ring
   timer expires; nobody has to call, answer or hang up. *)
Fairness ==
  /\ WF_vars(InviteRuns) /\ WF_vars(TimerRuns) /\ WF_vars(CancelRuns) /\ WF_vars(ByeDelete)
  /\ \A c \in Clients : WF_vars(ClientRuns(c))

Spec     == Init /\ [][Next]_vars
FairSpec == Spec /\ Fairness

-----------------------------------------------------------------------------
(* Properties *)

Labels ==
  {"off", "idle", "replay", "offered", "gone", "own", "sweep", "done"} \cup
  {"admit", "present", "refuse", "refuse_begin", "refuse_send", "refuse_delete"} \cup
  {"acc_check", "acc_begin", "acc_lost", "acc_claim", "acc_transfer", "acc_200",
   "acc_active", "acc_finish", "acc_fanout"} \cup
  {"rej_begin", "rej_send", "rej_end", "hup_check", "end_begin", "end_send", "end_bye",
   "end_delete"} \cup
  {"armed", "tmo_begin", "tmo_fanout", "tmo_send", "tmo_delete"} \cup
  {"cxl_check", "cxl_begin", "cxl_487", "cxl_fanout", "cxl_end", "bye_delete"}

(* Every variable keeps to its set: what the handlers of all the goroutines
   leave in the session, the server and the client structures. *)
TypeOK ==
  /\ mgr \subseteq Sids /\ state \in [Sids -> States]
  /\ term \in [Sids -> Procs \cup {None}]
  /\ claim \in Clients \cup {None}
  /\ invite \subseteq Sids /\ callID \subseteq Sids /\ dialog \subseteq Sids
  /\ conn \subseteq Clients /\ pending \subseteq Clients
  /\ owned \in [Clients -> SUBSET Sids]
  /\ cur \in [Clients -> Sids \cup {None}]
  /\ bound \in [Sids -> Clients \cup {None}]
  /\ ui \in [Clients -> Told]
  /\ tx \in {"none", "pending", "answered", "rejected", "cancelled"}
  /\ caller \in {"none", "calling", "cancelled", "confirmed", "gone"}
  /\ pc \in [Procs -> Labels]
  /\ back \in [Clients -> {"idle", "own", "sweep"}]
  /\ tgt \in [Procs -> Sids \cup {None}]
  /\ act \in [Procs -> {"none", "reject", "bye", "cancel", "end", "matched", "unmatched"}]
  /\ todo \in [Procs -> SUBSET Sids]
  /\ answeredBy \subseteq Clients /\ finals \in 0..2 /\ late \in BOOLEAN

(* Where a goroutine answers or ends the presented session. *)
OnInc == {"refuse_send", "refuse_delete", "acc_claim", "acc_transfer", "acc_200", "acc_active",
          "acc_finish", "rej_send", "rej_end", "tmo_fanout", "tmo_send", "tmo_delete"}
OnTgt == {"end_send", "end_bye", "end_delete", "cxl_487", "cxl_fanout", "cxl_end"}

Holding(p) == pc[p] \in OnInc \/ (pc[p] \in OnTgt /\ tgt[p] = Inc)

(* Whoever answers or ends the presented call holds its terminal guard, so no
   two of accept, reject, hangup, timeout, CANCEL and refusal overlap
   (TryBeginTerminalAction, TryBeginIncomingTerminalAction). *)
TerminalMutex == \A p \in Procs : Holding(p) => term[Inc] = p

(* A ring timeout, a reject or a caller's CANCEL that read "incoming" earlier
   never acts on a call an accept has answered since: the second look at the
   state, under the lock that also takes the guard. *)
EndsRinging(p) == pc[p] \in {"rej_send", "tmo_fanout", "tmo_send", "cxl_487", "cxl_fanout"}

RingEndersNeverKillAnswered == (\E p \in Procs : EndsRinging(p)) => tx # "answered"

(* What makes the two inductive: the session a goroutine works on, ... *)
Ending == {"end_begin", "end_send", "end_bye", "end_delete"}
Accepting == {"acc_begin", "acc_lost", "acc_claim", "acc_transfer", "acc_200", "acc_active",
              "acc_finish", "acc_fanout"}

Targeted ==
  /\ \A p \in Procs : pc[p] \in Accepting \cup Ending \cup OnTgt \cup {"hup_check", "cxl_check", "cxl_begin"}
                        => tgt[p] \in Sids
  /\ \A c \in Clients : act[c] = "reject" => tgt[c] = Inc /\ pc[c] \in Ending
  /\ \A p \in Procs : pc[p] \in {"cxl_487", "cxl_fanout", "cxl_end"} => tgt[p] = Inc

(* ... that only the presented session rings, while it is in the map, ... *)
OnlyIncRings == \A s \in Sids : state[s] = "incoming" => s = Inc /\ Inc \in mgr

(* ... that an answered call rings only while its accept is on the way, ... *)
AnsweredLeaves ==
  tx = "answered" /\ state[Inc] = "incoming" =>
    \E c \in Clients : pc[c] = "acc_active" \/ (pc[c] = "acc_finish" /\ tgt[c] # Inc)

(* ... that an accept answers for the claimant, and the INVITE comes once. *)
ClaimHeld == \A c \in Clients : pc[c] \in {"acc_transfer", "acc_200"} => claim = c
InviteOnce == pc[InviteP] = "idle" => tx = "none"

IInv ==
  /\ TypeOK /\ TerminalMutex /\ Targeted /\ OnlyIncRings /\ AnsweredLeaves
  /\ ClaimHeld /\ InviteOnce /\ RingEndersNeverKillAnswered

(* The handlers give the INVITE one final response, whatever they race with. *)
OneFinalResponse == finals <= 1

Quiescent == \A p \in Procs : pc[p] \in {"off", "idle", "gone", "done"}

(* Once the call is answered, has timed out or was cancelled and every
   goroutine is done, no connected client still rings - unless one was
   presented the call while it was being ended. *)
RingOver == answeredBy # {} \/ term[Inc] \in {TimerP, CancelP}
NobodyRings == \A c \in conn : ui[c] # "ringing"
StopsRinging == Quiescent /\ RingOver /\ ~late => NobodyRings

(* Why StopsRinging holds.  The client that answers holds the claim until its
   fan-out, an answer decides the transaction, the timer starts once, ... *)
ClaimKept ==
  \A c \in Clients : pc[c] \in {"acc_active", "acc_finish", "acc_fanout"} => claim = c
AnsweredTx == answeredBy # {} => tx = "answered"
TimerOnce == pc[InviteP] \in {"idle", "admit", "present"} => pc[TimerP] = "idle"
OffSilent == \A c \in Clients \ conn : ui[c] # "ringing"

(* ... and from the moment the ringing is over until nobody rings somebody is
   about to tell everybody; the client that an accept's fan-out leaves out was
   told before. *)
FanoutDue ==
  \/ pc[TimerP] = "tmo_fanout" \/ pc[CancelP] \in {"cxl_487", "cxl_fanout"}
  \/ answeredBy # {} /\ \E c \in Clients : pc[c] \in {"acc_active", "acc_finish", "acc_fanout"}
Fanned == RingOver /\ ~late => NobodyRings \/ FanoutDue
AnswererTold ==
  \A c \in conn : pc[c] = "acc_fanout" /\ answeredBy # {} /\ ~late => ui[c] # "ringing"

RingInv == ClaimKept /\ AnsweredTx /\ TimerOnce /\ OffSilent /\ Fanned /\ AnswererTold

(* The call a caller has confirmed has a session in the manager's map, with the
   Call-ID a BYE of the caller is looked up by. *)
NoOrphanDialog == Quiescent /\ caller = "confirmed" => mgr \cap callID # {}

(* A hangup that reaches the far end comes from the client that answered: a
   loser's hangup is stopped at the claim. *)
LoserHangupSparesCall ==
  \A c \in Clients : pc[c] = "end_bye" /\ back[c] = "idle" => answeredBy \subseteq {c}

(* Why a loser's hangup spares the call when every client is an agent: a client
   works on its own session and on the call, and only the claimant's session
   carries the call; ... *)
OwnSessions == \A c \in Clients : owned[c] \subseteq {c, Inc} /\ cur[c] \in {c, Inc, None}
OwnTargets ==
  \A c \in Clients : IF back[c] = "idle" THEN tgt[c] \in {c, Inc, None} ELSE pc[c] \in Ending
ClaimantCarries ==
  /\ answeredBy \subseteq {claim} /\ callID \cap Clients \subseteq {claim}
  /\ \A c \in Clients : pc[c] = "end_bye" => tgt[c] \in callID
  /\ tx = "answered" \/ caller = "confirmed" \/ pc[ByeP] = "bye_delete" => claim # None

(* ... and a call that stopped ringing without a claim is not answered later. *)
NewUnknown ==
  /\ pc[InviteP] = "idle" => state[Inc] = "new" /\ claim = None
  /\ state[Inc] = "new" => Inc \notin mgr /\ \A c \in Clients : pc[c] # "offered"
LostUnclaimed == claim = None /\ state[Inc] \notin {"new", "incoming"}
LostStays == LostUnclaimed => term[Inc] # None /\ \A c \in Clients : pc[c] # "acc_claim"
OwnersKnow == \A c \in Clients : Inc \in owned[c] => claim # None \/ LostUnclaimed
HangupsMine ==
  \A c \in Clients : back[c] = "idle" /\ tgt[c] = Inc =>
    /\ pc[c] \in {"hup_check", "end_begin"} => claim = c \/ LostUnclaimed
    /\ pc[c] \in {"end_send", "end_bye"} => claim = c
HangupInv ==
  /\ OwnSessions /\ OwnTargets /\ ClaimantCarries /\ NewUnknown /\ LostStays /\ OwnersKnow
  /\ HangupsMine

(* A guard that is left held when every goroutine is done belongs to a session
   that is gone: otherwise nothing could end the call any more. *)
NoGuardLeak == Quiescent /\ term[Inc] # None => Inc \notin mgr

(* Why there is one final response, and why no guard leaks, while every write
   of a response succeeds.  Before the INVITE nothing is known of the call. *)
BeforeInvite ==
  pc[InviteP] = "idle" =>
    /\ finals = 0 /\ invite = {} /\ Inc \notin mgr /\ term[Inc] = None
    /\ caller = "none" /\ pc[CancelP] = "idle"
    /\ \A c \in Clients : pc[c] \notin {"acc_check", "acc_begin", "rej_begin"} /\ tgt[c] # Inc

(* Who has the guard and may still answer the INVITE; while one may, with the
   transaction stored, or the guard is free, nobody has answered it. *)
Deciding(p) ==
  \/ pc[p] \in {"refuse_send", "acc_claim", "acc_transfer", "acc_200", "rej_send",
                "tmo_fanout", "tmo_send"}
  \/ pc[p] \in {"end_send", "cxl_487"} /\ tgt[p] = Inc
Undecided ==
  /\ Inc \in invite /\ term[Inc] = None => finals = 0
  /\ \A p \in Procs : Deciding(p) /\ Inc \in invite => finals = 0
  /\ \A c \in Clients : pc[c] = "acc_200" /\ tgt[c] \in invite => Inc \in invite
  /\ \A c \in Clients : pc[c] = "acc_finish" /\ tgt[c] = Inc /\ Inc \in invite => finals = 0
FinalInv == BeforeInvite /\ Undecided /\ OneFinalResponse

(* A ringing call has its transaction stored; the guard of a call that is in
   the map is held by a goroutine that is at work. *)
RingsStored ==
  /\ state[Inc] = "incoming" => Inc \in invite
  /\ \A c \in Clients : pc[c] = "rej_send" => Inc \in invite
HolderWorks == term[Inc] # None => Inc \notin mgr \/ Holding(term[Inc])
GuardInv == RingsStored /\ HolderWorks

(* When everything is quiet, the manager's map still has a session of a call the
   caller has confirmed, and nobody keeps a guard that would stop its end.
   Whether a connected client may end it is AnswererMayEnd. *)
StaysFindable == NoOrphanDialog /\ NoGuardLeak

(* A hangup of c now would pass the checks of the socket and of the claim, take
   the guard and send a BYE in a dialog the far end knows. *)
EndableBy(c) ==
  \E s \in mgr \cap callID \cap dialog :
    ActionFor(s) = "bye" /\ CanBegin(s) /\ MayHangup(c, s) /\ ~ClaimedByOther(s, c)

(* A client that answered a call, and is still connected, can hang it up as long
   as the caller is in it: whatever the losers, the ring timer or a disconnect
   did, the client owns the session, has the claim and finds the guard free. *)
AnswererMayEnd ==
  Quiescent /\ caller = "confirmed" => \A c \in conn \cap answeredBy : EndableBy(c)

(* The call an agent answered is over once that agent's socket has closed and
   its cleanup is done. *)
DisconnectEndsCall ==
  Quiescent => \A c \in answeredBy \cap Agents : pc[c] = "gone" => mgr \cap callID = {}

(* A call that rings stops ringing: it is answered or the ring timer ends it. *)
RingingResolves == state[Inc] = "incoming" ~> state[Inc] # "incoming"

(* What the INVITE's transaction, the guard and the claim do, seen alone. *)
Outcome == INSTANCE IncomingOutcome WITH
  outcome <- tx, holder <- term[Inc], owner <- claim

(* The handlers together keep the promise of IncomingOutcome. *)
OutcomeSpec == Outcome!Spec

(* ws-contract: clients that lost the claim "must not receive state: active".
   They may: README 7. *)
LoserNeverToldActive ==
  \A c, d \in Clients : ui[c] = "active" /\ ui[d] = "active" => c = d

(* handleWSoffer logs "already claimed; ignoring later offer": the session
   stays bound to the client that claimed it. It may not: README 7. *)
LaterOfferIgnored == answeredBy # {} /\ bound[Inc] # None => bound[Inc] = claim

(* ws-contract: the other clients "receive cancel ... and must stop ringing". One
   may not: README 7. *)
EveryRingerStops == Quiescent /\ answeredBy # {} => NobodyRings
=============================================================================
