---------------------------- MODULE OutboundCall ----------------------------
(***************************************************************************)
(* One outbound call: makeCall (sip/call.go) sends an INVITE and waits for *)
(* its answers, while websocket hangups, agent cleanups, the bridged peer, *)
(* REST hangups, the callee's BYE, ICE callbacks and the janitor end the   *)
(* session it works on.  They share the session: its state, its dialog,    *)
(* the stored INVITE that a CANCEL is built from, and the RTP sockets.     *)
(*                                                                         *)
(* makeCall's context follows the session's: the goroutine that watches    *)
(* sess.Done() is taken to run at once, but a select that has an answer    *)
(* ready as well may still take the answer.                                *)
(***************************************************************************)
EXTENDS Naturals, Sequences, FiniteSets

CONSTANTS Enders,        \* requests that end the call: hangups, cleanups, a bridged peer
          NoEnder,       \* nobody has won the terminal action
          MaxBlips,      \* how often ICE may lose the browser
          MaxLost        \* how many ACKs the network loses

ASSUME EndersAssumption == NoEnder \notin Enders
ASSUME BoundsAssumption == MaxBlips \in Nat /\ MaxLost \in Nat

VARIABLES
  maker,      \* where makeCall is
  state,      \* sess.State
  over,       \* the session's context is cancelled
  inMap,      \* the manager still has the session
  media,      \* the RTP and RTCP sockets are open
  peerConn,   \* the PeerConnection is attached: ICE callbacks count
  callID,     \* SIPCallID is set
  dialog,     \* the dialog (To tag) is stored
  invite,     \* the stored INVITE: "none", "first" (with its transaction) or "auth"
  cancelled,  \* PendingCancelRequested
  winner,     \* who took the terminal action
  ender,      \* where each ender is
  saw,        \* history: the enders that read a stored dialog
  missed,     \* history: the enders that read no stored INVITE, and NoEnder when
              \* makeCall could not send its CANCEL
  byeIn,      \* handleBYE has ended the session and not yet deleted it
  timedOut,   \* the 60 s of makeCall are over
  tx,         \* the first INVITE's client transaction
  up, down,   \* SIP messages on their way to the callee, and to the gateway
  callee,     \* the callee's side of the call
  cseq,       \* the INVITE it works on: 1, or 2 after its challenge
  blips, lost

session == <<state, over, inMap, media, peerConn, callID, dialog, invite, cancelled, winner>>
history == <<saw, missed>>
network == <<up, down, callee, cseq, lost>>
vars == <<maker, session, ender, byeIn, history, timedOut, tx, network, blips>>

MakerAt == {"new", "prime", "send", "store", "wait", "challenge", "auth", "ack", "activate",
            "cancelling", "failed", "ok", "returned"}
EnderAt == {"idle", "bye", "byeSent", "cancel", "cancelNone", "cancelSent", "drain", "clean",
            "release", "takeBye", "takeCancel", "takeEnd", "takePeer", "done"}
States == {"connecting", "ringing", "active", "reconnecting", "ended"}
Callees == {"none", "invited", "ringing", "challenged", "answered", "talking", "over"}
Bye == <<0, "bye">>
Ups == {"INVITE1", "INVITE2", "CANCEL1", "CANCEL2", "ACK", "BYE"}
Downs == {Bye} \cup (1..2) \X {"ringing", "ok", "auth", "refused"}

SessionOK ==
  /\ state \in States /\ invite \in {"none", "first", "auth"}
  /\ over \in BOOLEAN /\ inMap \in BOOLEAN /\ media \in BOOLEAN /\ peerConn \in BOOLEAN
  /\ callID \in BOOLEAN /\ dialog \in BOOLEAN /\ cancelled \in BOOLEAN
ProcessOK ==
  /\ maker \in MakerAt /\ tx \in {"none", "live", "gone"}
  /\ timedOut \in BOOLEAN /\ byeIn \in BOOLEAN
  /\ winner \in Enders \cup {NoEnder} /\ ender \in [Enders -> EnderAt]
  /\ saw \in SUBSET Enders /\ missed \in SUBSET (Enders \cup {NoEnder})
NetworkOK ==
  /\ up \in Seq(Ups) /\ down \in Seq(Downs)
  /\ callee \in Callees /\ cseq \in 0..2 /\ blips \in 0..MaxBlips /\ lost \in 0..MaxLost
TypeOK == SessionOK /\ ProcessOK /\ NetworkOK

(* handleWSCall has set connecting, bound the client and started runWSCall. *)
Init ==
  /\ maker = "new" /\ state = "connecting" /\ over = FALSE /\ inMap = TRUE
  /\ media = FALSE /\ peerConn = TRUE /\ callID = FALSE /\ dialog = FALSE
  /\ invite = "none" /\ cancelled = FALSE /\ winner = NoEnder
  /\ ender = [h \in Enders |-> "idle"] /\ saw = {} /\ missed = {} /\ byeIn = FALSE
  /\ timedOut = FALSE /\ tx = "none"
  /\ up = <<>> /\ down = <<>> /\ callee = "none" /\ cseq = 0 /\ blips = 0 /\ lost = 0

-----------------------------------------------------------------------------
(* The session. *)

(* Mutant: ended does not cancel the session's context. *)
SetState_NoCancel(s) == state' = s /\ UNCHANGED over

(* SetState writes any state over any other; ended also cancels the context. *)
SetState(s) ==
  /\ state' = s
  /\ over' = (over \/ s = "ended")

(* makeCall's context: its 60 s, or the end of the session. *)
CtxDone == timedOut \/ over

(* isTerminalCleanupState *)
TerminalCleanup == state = "ended" \/ winner # NoEnder

-----------------------------------------------------------------------------
(* makeCall, from runWSCall's goroutine. *)

makerOnly == <<inMap, peerConn, cancelled, winner, ender, byeIn, history, timedOut, callee, cseq,
               lost, blips>>

(* Close stale transports, open the RTP sockets; resolving the account or the
   listener may fail. *)
Open ==
  /\ maker = "new"
  /\ \/ maker' = "prime" /\ media' = TRUE
     \/ maker' = "failed" /\ UNCHANGED media
  /\ UNCHANGED <<makerOnly, state, over, callID, dialog, invite, tx, up, down>>

(* Mutant: the context is not looked at after priming. *)
Primed_NoCheck ==
  /\ maker = "prime" /\ maker' = "send" /\ SetState("connecting") /\ callID' = TRUE
  /\ UNCHANGED <<makerOnly, media, dialog, invite, tx, up, down>>

(* Priming the encoder waits; a context that ended meanwhile ends the call
   before anything was sent. *)
Primed ==
  /\ maker = "prime"
  /\ IF CtxDone
     THEN maker' = "failed" /\ UNCHANGED <<state, over, callID>>
     ELSE maker' = "send" /\ SetState("connecting") /\ callID' = TRUE
  /\ UNCHANGED <<makerOnly, media, dialog, invite, tx, up, down>>

SendInvite ==
  /\ maker = "send"
  /\ \/ /\ up' = Append(up, "INVITE1") /\ tx' = "live" /\ maker' = "store"
        /\ UNCHANGED <<state, over>>
     \/ /\ SetState("ended") /\ maker' = "failed"
        /\ UNCHANGED <<up, tx>>
  /\ UNCHANGED <<makerOnly, media, callID, dialog, invite, down>>

StoreInvite ==
  /\ maker = "store" /\ maker' = "wait" /\ invite' = "first"
  /\ UNCHANGED <<makerOnly, state, over, media, callID, dialog, tx, up, down>>

(* An answer to the first INVITE reaches whoever reads tx.Responses(). *)
Arrives(k, code) == down # <<>> /\ Head(down) = <<k, code>> /\ down' = Tail(down)

OnRinging ==
  /\ maker = "wait" /\ Arrives(1, "ringing")
  /\ SetState("ringing")
  /\ UNCHANGED <<makerOnly, maker, media, callID, dialog, invite, tx, up>>

OnOk ==
  /\ maker = "wait" /\ Arrives(1, "ok") /\ maker' = "ack" /\ tx' = "gone"
  /\ UNCHANGED <<makerOnly, state, over, media, callID, dialog, invite, up>>

OnRefused ==
  /\ maker = "wait" /\ Arrives(1, "refused") /\ maker' = "failed"
  /\ SetState("ended")
  /\ UNCHANGED <<makerOnly, media, callID, dialog, invite, tx, up>>

OnChallenge ==
  /\ maker = "wait" /\ Arrives(1, "auth") /\ maker' = "challenge" /\ tx' = "gone"
  /\ UNCHANGED <<makerOnly, state, over, media, callID, dialog, invite, up>>

(* handleInviteAuth gives up without a password and leaves the state alone;
   else it stores the authenticated INVITE, without a transaction. *)
SendAuth ==
  /\ maker = "challenge"
  /\ \/ maker' = "failed" /\ UNCHANGED <<invite, up>>
     \/ maker' = "auth" /\ invite' = "auth" /\ up' = Append(up, "INVITE2")
  /\ UNCHANGED <<makerOnly, state, over, media, callID, dialog, tx, down>>

(* DoDigestAuth waits for the final answer; no CANCEL is sent when the
   context ends it. *)
AuthRings ==
  /\ maker = "auth" /\ Arrives(2, "ringing")
  /\ UNCHANGED <<makerOnly, maker, state, over, media, callID, dialog, invite, tx, up>>

AuthOk ==
  /\ maker = "auth" /\ Arrives(2, "ok") /\ maker' = "ack"
  /\ UNCHANGED <<makerOnly, state, over, media, callID, dialog, invite, tx, up>>

(* Mutant: the authenticated INVITE waits on a context of its own. *)
AuthFails_NoContext ==
  /\ maker = "auth" /\ maker' = "failed"
  /\ Arrives(2, "refused")
  /\ SetState("ended")
  /\ UNCHANGED <<makerOnly, media, callID, dialog, invite, tx, up>>

AuthFails ==
  /\ maker = "auth" /\ maker' = "failed"
  /\ Arrives(2, "refused") \/ (CtxDone /\ UNCHANGED down)
  /\ SetState("ended")
  /\ UNCHANGED <<makerOnly, media, callID, dialog, invite, tx, up>>

(* completeOutboundInvite200: ACK and dialog first, active later, whatever
   has become of the session in between. *)
AckOk ==
  /\ maker = "ack" /\ maker' = "activate"
  /\ up' = Append(up, "ACK") /\ dialog' = TRUE
  /\ UNCHANGED <<makerOnly, state, over, media, callID, invite, tx, down>>

Activate ==
  /\ maker = "activate" /\ maker' = "ok"
  /\ SetState("active")
  /\ UNCHANGED <<makerOnly, media, callID, dialog, invite, tx, up, down>>

(* The transaction ends without a final answer for makeCall: with an error,
   or silently when CancelPendingCall read the answer. *)
TxDone ==
  /\ maker = "wait"
  /\ \/ /\ tx = "gone" /\ maker' = "ok" /\ UNCHANGED <<state, over, tx>>
     \/ /\ tx = "live" /\ callee = "none" /\ ~\E i \in 1..Len(up) : up[i] = "INVITE1"
        /\ maker' = "failed" /\ tx' = "gone" /\ SetState("ended")
  /\ UNCHANGED <<makerOnly, media, callID, dialog, invite, up, down>>

(* Mutant: the end of the context sends no CANCEL. *)
CtxEnds_NoCancel ==
  /\ maker = "wait" /\ CtxDone /\ maker' = "cancelling"
  /\ UNCHANGED <<makerOnly, state, over, media, callID, dialog, invite, tx, up, down>>

(* trySendCancel, unless a cancel has already cleared the stored INVITE; it may
   fail to send. *)
CtxEnds ==
  /\ maker = "wait" /\ CtxDone /\ maker' = "cancelling"
  /\ \/ invite = "none" /\ UNCHANGED <<up, missed>>
     \/ invite # "none" /\ up' = Append(up, "CANCEL1") /\ UNCHANGED missed
     \/ invite # "none" /\ missed' = missed \cup {NoEnder} /\ UNCHANGED up
  /\ UNCHANGED <<inMap, peerConn, cancelled, winner, ender, byeIn, saw, timedOut, callee, cseq,
                 lost, blips, state, over, media, callID, dialog, invite, tx, down>>

Cancelled ==
  /\ maker = "cancelling" /\ maker' = "failed"
  /\ SetState("ended")
  /\ UNCHANGED <<makerOnly, media, callID, dialog, invite, tx, up, down>>

(* Mutant: the transports are closed after a success, too. *)
Return_ClosesAlways ==
  /\ maker \in {"ok", "failed"} /\ maker' = "returned"
  /\ media' = FALSE
  /\ invite' = "none" /\ tx' = "gone"
  /\ UNCHANGED <<makerOnly, state, over, callID, dialog, up, down>>

(* The deferred calls: Terminate, ClearOutboundInvite and, after an error,
   CloseMediaTransports. *)
Return ==
  /\ maker \in {"ok", "failed"} /\ maker' = "returned"
  /\ media' = (media /\ maker = "ok")
  /\ invite' = "none" /\ tx' = "gone"
  /\ UNCHANGED <<makerOnly, state, over, callID, dialog, up, down>>

TimeOut ==
  /\ maker \notin {"new", "returned"} /\ ~timedOut /\ timedOut' = TRUE
  /\ UNCHANGED <<maker, session, ender, byeIn, history, tx, network, blips>>

-----------------------------------------------------------------------------
(* Those who end the call. *)

enderOnly == <<maker, timedOut, blips, callee, cseq, lost, byeIn>>
Go(h, where) == ender' = [ender EXCEPT ![h] = where]

(* handleWSHangup and forceEndSession choose by the state and the dialog. *)
Choice == IF dialog \/ state = "active" THEN "takeBye"
          ELSE IF state \in {"connecting", "ringing"} THEN "takeCancel"
          ELSE "takeEnd"

Hangup(h) ==
  /\ ender[h] = "idle" /\ inMap
  /\ Go(h, Choice) /\ saw' = IF dialog THEN saw \cup {h} ELSE saw
  /\ UNCHANGED <<enderOnly, session, missed, tx, up, down>>

(* hangupBridgedPeerSession, called by the other leg: not an ended session. *)
PeerHangup(h) ==
  /\ ender[h] = "idle" /\ inMap /\ state # "ended"
  /\ Go(h, "takePeer") /\ saw' = IF dialog THEN saw \cup {h} ELSE saw
  /\ UNCHANGED <<enderOnly, session, missed, tx, up, down>>

(* REST: Hangup and DeleteSession, without the terminal action. *)
RestHangup(h) ==
  /\ ender[h] = "idle" /\ inMap /\ Go(h, "bye")
  /\ UNCHANGED <<enderOnly, session, history, tx, up, down>>

(* TryBeginTerminalAction: the first one wins, the others return. *)
Take(h) ==
  /\ ender[h] \in {"takeBye", "takeCancel", "takeEnd", "takePeer"}
  /\ IF winner # NoEnder
     THEN Go(h, "done") /\ UNCHANGED winner
     ELSE /\ winner' = h
          /\ Go(h, CASE ender[h] = "takeBye" -> "bye"
                     [] ender[h] = "takeCancel" -> "cancel"
                     [] ender[h] = "takeEnd" -> "clean"
                     [] ender[h] = "takePeer" ->
                          IF dialog \/ state = "active" THEN "bye" ELSE "clean")
  /\ UNCHANGED <<enderOnly, state, over, inMap, media, peerConn, callID, dialog, invite,
                 cancelled, history, tx, up, down>>

(* hangup: nothing at all without a Call-ID, else a BYE and its answer. *)
SendBye(h) ==
  /\ ender[h] = "bye"
  /\ IF callID THEN Go(h, "byeSent") /\ up' = Append(up, "BYE")
               ELSE Go(h, "release") /\ UNCHANGED up
  /\ UNCHANGED <<enderOnly, session, history, tx, down>>

ByeSent(h) ==
  /\ ender[h] = "byeSent" /\ Go(h, "release")
  /\ SetState("ended") /\ media' = FALSE /\ peerConn' = FALSE
  /\ UNCHANGED <<enderOnly, inMap, callID, dialog, invite, cancelled, winner, history, tx, up, down>>

(* CancelPendingCall reads the stored INVITE once ... *)
Cancel(h) ==
  /\ ender[h] = "cancel" /\ cancelled' = TRUE
  /\ missed' = IF invite = "none" THEN missed \cup {h} ELSE missed
  /\ \/ invite = "none" /\ Go(h, "cancelNone") /\ UNCHANGED up
     \/ invite = "first" /\ Go(h, "drain") /\ up' = Append(up, "CANCEL1")
     \/ invite = "auth" /\ Go(h, "cancelSent") /\ up' = Append(up, "CANCEL2")
     \/ invite # "none" /\ Go(h, "release") /\ UNCHANGED up   \* it could not be sent
  /\ UNCHANGED <<enderOnly, state, over, inMap, media, peerConn, callID, dialog, invite, winner,
                 saw, tx, down>>

(* ... then reads one answer of the first INVITE itself, or waits 2 s ... *)
Drain(h) ==
  /\ ender[h] = "drain" /\ Go(h, "cancelSent")
  /\ \/ /\ tx = "live" /\ \E code \in {"ringing", "ok", "auth", "refused"} :
             /\ Arrives(1, code)
             /\ tx' = IF code = "ringing" THEN tx ELSE "gone"
     \/ UNCHANGED <<tx, down>>
  /\ UNCHANGED <<enderOnly, session, history, up>>

(* ... and forgets whatever is stored by then. *)
Forget(h) ==
  /\ ender[h] \in {"cancelNone", "cancelSent"} /\ Go(h, "release")
  /\ invite' = "none" /\ SetState("ended") /\ media' = FALSE
  /\ UNCHANGED <<enderOnly, inMap, peerConn, callID, dialog, cancelled, winner, history, tx, up, down>>

Clean(h) ==
  /\ ender[h] = "clean" /\ Go(h, "release") /\ SetState("ended")
  /\ UNCHANGED <<enderOnly, inMap, media, peerConn, callID, dialog, invite, cancelled, winner,
                 history, tx, up, down>>

(* DeleteSession does nothing for a session somebody else has removed. *)
Release(h) ==
  /\ ender[h] = "release" /\ Go(h, "done")
  /\ IF inMap THEN /\ SetState("ended") /\ inMap' = FALSE /\ media' = FALSE /\ peerConn' = FALSE
              ELSE UNCHANGED <<state, over, inMap, media, peerConn>>
  /\ UNCHANGED <<enderOnly, callID, dialog, invite, cancelled, winner, history, tx, up, down>>

(* handleBYE: the callee's BYE ends the session that has its Call-ID ... *)
ByeIn ==
  /\ down # <<>> /\ Head(down) = Bye /\ down' = Tail(down)
  /\ IF inMap /\ callID THEN byeIn' = TRUE /\ SetState("ended")
                        ELSE UNCHANGED <<byeIn, state, over>>
  /\ UNCHANGED <<maker, ender, timedOut, blips, callee, cseq, lost, inMap, media, peerConn, callID,
                 dialog, invite, cancelled, winner, history, tx, up>>

(* ... closes its transports and deletes it. *)
ByeClean ==
  /\ byeIn /\ byeIn' = FALSE
  /\ media' = FALSE /\ peerConn' = FALSE /\ inMap' = FALSE
  /\ IF inMap THEN SetState("ended") ELSE UNCHANGED <<state, over>>
  /\ UNCHANGED <<maker, ender, timedOut, blips, callee, cseq, lost, callID,
                 dialog, invite, cancelled, winner, history, tx, up, down>>

-----------------------------------------------------------------------------
(* The browser's ICE connection, and the janitor. *)

iceOnly == <<maker, inMap, peerConn, callID, dialog, invite, cancelled, winner, ender, byeIn,
             history, timedOut, tx, network>>

IceDown ==
  /\ peerConn /\ ~TerminalCleanup /\ state # "reconnecting" /\ blips < MaxBlips
  /\ state' = "reconnecting" /\ blips' = blips + 1
  /\ UNCHANGED <<iceOnly, over, media>>

IceUp ==
  /\ peerConn /\ state = "reconnecting" /\ state' = "active"
  /\ UNCHANGED <<iceOnly, over, media, blips>>

(* ICE failed: ended at once, without a word to the callee. *)
IceFails ==
  /\ peerConn /\ ~TerminalCleanup /\ blips < MaxBlips
  /\ SetState("ended") /\ media' = FALSE /\ blips' = blips + 1
  /\ UNCHANGED iceOnly

(* The 30 s of grace after it disconnected. *)
IceGraceEnds ==
  /\ state = "reconnecting" /\ ~over
  /\ SetState("ended") /\ media' = FALSE
  /\ UNCHANGED <<iceOnly, blips>>

(* cleanupEndedSessions, for a session ended more than 60 s ago: no wait of
   makeCall or of an ender is that long once the session has ended. *)
Janitor ==
  /\ state = "ended" /\ inMap /\ maker = "returned" /\ ~byeIn
  /\ \A h \in Enders : ender[h] \in {"idle", "done"}
  /\ inMap' = FALSE /\ media' = FALSE /\ peerConn' = FALSE
  /\ UNCHANGED <<maker, state, over, callID, dialog, invite, cancelled, winner, ender, byeIn,
                 history, timedOut, tx, network, blips>>

-----------------------------------------------------------------------------
(* The callee, as the gateway's use of it assumes, and the network. *)

calleeOnly == <<maker, session, ender, byeIn, history, timedOut, tx, blips>>
Sends(m) == down' = Append(down, m)

CalleeInvited(k) ==
  /\ callee' = "invited" /\ cseq' = k /\ UNCHANGED down

CalleeCancelled(k) ==
  IF callee \in {"invited", "ringing"} /\ cseq = k
  THEN callee' = "over" /\ Sends(<<k, "refused">>) /\ UNCHANGED cseq
  ELSE UNCHANGED <<callee, cseq, down>>

CalleeMoves(from, to) ==
  /\ callee' = IF callee \in from THEN to ELSE callee
  /\ UNCHANGED <<cseq, down>>

(* The callee reads the next message; it ignores what it cannot use. *)
CalleeReads ==
  /\ up # <<>> /\ up' = Tail(up)
  /\ CASE Head(up) = "INVITE1" -> CalleeInvited(1)
       [] Head(up) = "INVITE2" -> CalleeInvited(2)
       [] Head(up) = "CANCEL1" -> CalleeCancelled(1)
       [] Head(up) = "CANCEL2" -> CalleeCancelled(2)
       [] Head(up) = "ACK" -> CalleeMoves({"answered"}, "talking")
       [] Head(up) = "BYE" -> CalleeMoves({"answered", "talking"}, "over")
  /\ UNCHANGED <<calleeOnly, lost>>

(* An INVITE or an ACK is lost. *)
Loses ==
  /\ up # <<>> /\ Head(up) \in {"INVITE1", "ACK"} /\ lost < MaxLost
  /\ up' = Tail(up) /\ lost' = lost + 1
  /\ UNCHANGED <<calleeOnly, down, callee, cseq>>

CalleeSays(from, to, code) ==
  /\ callee \in from /\ callee' = to /\ Sends(<<cseq, code>>)
  /\ UNCHANGED <<calleeOnly, up, cseq, lost>>

CalleeRings == CalleeSays({"invited"}, "ringing", "ringing")
CalleeAnswers == CalleeSays({"invited", "ringing"}, "answered", "ok")
CalleeRefuses == CalleeSays({"invited", "ringing"}, "over", "refused")
CalleeChallenges == cseq = 1 /\ CalleeSays({"invited"}, "challenged", "auth")

(* No ACK is on its way: the 200 is sent again ... *)
CalleeRepeats ==
  /\ up = <<>> /\ down = <<>> /\ lost > 0
  /\ CalleeSays({"answered"}, "answered", "ok")

(* ... until the callee gives up, or it hangs up a call it has. *)
CalleeHangsUp ==
  /\ callee = "talking" \/ (callee = "answered" /\ up = <<>> /\ down = <<>>)
  /\ callee' = "over" /\ Sends(Bye)
  /\ UNCHANGED <<calleeOnly, up, cseq, lost>>

(* handleUnhandledSIPResponse: an answer whose transaction is gone.  A 200 is
   ACKed while its INVITE is stored and the session is there. *)
Unhandled ==
  /\ down # <<>> /\ Head(down) # Bye /\ down' = Tail(down)
  /\ ~(Head(down)[1] = 1 /\ tx = "live") /\ ~(Head(down)[1] = 2 /\ maker = "auth")
  /\ up' = IF Head(down)[2] = "ok" /\ invite # "none" /\ inMap /\ callID
           THEN Append(up, "ACK") ELSE up
  /\ UNCHANGED <<calleeOnly, callee, cseq, lost>>

-----------------------------------------------------------------------------
MakerStep ==
  \/ Open \/ Primed \/ SendInvite \/ StoreInvite
  \/ OnRinging \/ OnOk \/ OnRefused \/ OnChallenge \/ SendAuth \/ AuthRings \/ AuthOk
  \/ AuthFails \/ AckOk \/ Activate \/ TxDone \/ CtxEnds \/ Cancelled \/ Return

EnderStarts(h) == Hangup(h) \/ PeerHangup(h) \/ RestHangup(h)
EnderStep(h) ==
  Take(h) \/ SendBye(h) \/ ByeSent(h) \/ Cancel(h) \/ Drain(h) \/ Forget(h) \/ Clean(h) \/ Release(h)

IceStep == IceDown \/ IceUp \/ IceFails \/ IceGraceEnds
CalleeStep == CalleeRings \/ CalleeAnswers \/ CalleeRefuses \/ CalleeChallenges \/ CalleeRepeats
NetworkStep == CalleeReads \/ Unhandled \/ ByeIn \/ ByeClean

Next ==
  \/ MakerStep \/ TimeOut \/ IceStep \/ Janitor
  \/ \E h \in Enders : EnderStarts(h) \/ EnderStep(h)
  \/ CalleeStep \/ CalleeHangsUp \/ NetworkStep \/ Loses

Spec == Init /\ [][Next]_vars

(* Goroutines that can go on do, messages arrive, the 60 s pass; nobody has to
   hang up, ring, answer or lose anything. *)
Fairness ==
  /\ WF_vars(MakerStep) /\ WF_vars(TimeOut) /\ WF_vars(NetworkStep) /\ WF_vars(Janitor)
  /\ \A h \in Enders : WF_vars(EnderStep(h))

FairSpec == Spec /\ Fairness

-----------------------------------------------------------------------------
(* Whoever works on the call has finished and nothing is on its way. *)
EndersDone == \A h \in Enders : ender[h] \in {"idle", "done"}
Quiet == maker = "returned" /\ EndersDone /\ ~byeIn /\ up = <<>> /\ down = <<>>

(* When makeCall has returned and the session is gone, the RTP sockets are
   closed, whatever ended it: makeCall opens them after the hangup may have
   deleted the session, and keeps them open when it reports success. *)
MediaReleased == maker = "returned" /\ ~inMap => ~media

(* A call that is up, and that ICE has not troubled, has its RTP sockets. *)
LiveHasMedia == inMap /\ ~over /\ state = "active" /\ blips = 0 => media

(* The RTP sockets live as long as the call. *)
MediaFollowsCall == MediaReleased /\ LiveHasMedia

(* A callee that still rings when everything is over rings for one of three
   reasons: its INVITE was the authenticated one, which only CancelPendingCall
   cancels; the cancel came before makeCall had stored the INVITE; or makeCall's
   own CANCEL could not be sent. *)
RingsOnWithCause ==
  Quiet /\ callee \in {"invited", "ringing"} => cseq = 2 \/ missed # {}

(* A hangup that won after it had seen the dialog has sent the callee a BYE. *)
DialogHungUp ==
  \A h \in saw : winner = h /\ ender[h] = "done" =>
    callee = "over" \/ \E i \in 1..Len(up) : up[i] = "BYE"

(* Both: nobody is left on the line, ringing or talking, but for the three
   causes. *)
CalleeReleased == RingsOnWithCause /\ DialogHungUp

-----------------------------------------------------------------------------
(* The inductive invariant of the proofs. *)

Talked == {"answered", "talking", "over"}
In(m, s) == \E i \in 1..Len(s) : s[i] = m
Once(m, s) == \A i, j \in 1..Len(s) : s[i] = m /\ s[j] = m => i = j
InUp(m) == In(m, up)
InDown(m) == In(m, down)
OpenAt == {"prime", "send", "store", "wait", "challenge", "auth", "ack", "activate",
           "cancelling", "ok"}

(* Ended means cancelled; a session that is gone has ended; its sockets are
   open only where makeCall is about to close them. *)
MediaInv ==
  /\ state = "ended" \/ byeIn => over
  /\ ~inMap => over
  /\ ~inMap /\ media => maker \in {"prime", "failed"}

(* While the call lives its sockets are open, and it is active only when
   makeCall has got its answer or ICE has come back. *)
LiveInv ==
  /\ ~over /\ maker \in OpenAt => media
  /\ state = "reconnecting" => blips > 0
  /\ state = "active" /\ blips = 0 =>
       maker = "ok" \/ (maker = "returned" /\ (media \/ over))

(* The first INVITE comes before everything, the second after the answer to
   the first, and both before the dialog. *)
InviteInv ==
  /\ Once("INVITE1", up) /\ Once("INVITE2", up)
  /\ InUp("INVITE1") => callee = "none" /\ ~InUp("INVITE2") /\ down = <<>> /\ ~dialog /\ cseq = 0
  /\ maker \in {"new", "prime", "send"} =>
       callee = "none" /\ ~InUp("INVITE1") /\ ~InUp("INVITE2") /\ down = <<>> /\ ~dialog /\ cseq = 0
  /\ maker \in {"store", "wait", "challenge"} => ~InUp("INVITE2") /\ cseq < 2 /\ ~dialog
  /\ maker \in {"challenge", "auth", "ack", "activate"} => ~InUp("INVITE1")
  /\ InUp("INVITE2") => maker \in {"auth", "failed", "returned"} /\ ~dialog /\ cseq < 2

(* Answers come from a callee that has answered; a dialog is one's own. *)
AnswerInv ==
  /\ callee # "none" => cseq > 0
  /\ cseq < 2 => \A c \in {"ringing", "ok", "auth", "refused"} : ~InDown(<<2, c>>)
  /\ InDown(<<1, "ok">>) => callee \in Talked \/ cseq = 2
  /\ InDown(<<2, "ok">>) \/ dialog \/ maker \in {"ack", "activate"} => callee \in Talked

(* Who won after seeing the dialog sends a BYE. *)
HangupInv ==
  /\ \A h \in saw : dialog /\ ender[h] \notin {"idle", "takeCancel", "takeEnd"}
  /\ \A h \in Enders : winner = h =>
       ender[h] \notin {"idle", "takeBye", "takeCancel", "takeEnd", "takePeer"}
  /\ dialog \/ maker \in OpenAt \ {"prime"} => callID
  /\ \A h \in saw : winner = h =>
       \/ ender[h] = "bye"
       \/ ender[h] \in {"byeSent", "release", "done"} /\ (callee = "over" \/ InUp("BYE"))

(* What every reachable state satisfies, and what the theorems rest on. *)
IInv == TypeOK /\ MediaInv /\ LiveInv /\ InviteInv /\ AnswerInv /\ HangupInv

(* The first INVITE is still to be read, or it is what the callee rings for;
   and what will stop it: a CANCEL under way, unless an ender found no INVITE or
   makeCall's CANCEL could not be sent. *)
Rings == InUp("INVITE1") \/ (callee \in {"invited", "ringing"} /\ cseq = 1)
Stopped == InUp("CANCEL1") \/ missed # {}

(* A callee that rings for the first INVITE has given no final answer, and if
   nothing will stop it makeCall still waits, with the INVITE stored. *)
RingInv ==
  /\ \A i, j \in 1..Len(up) : up[i] = "INVITE1" /\ up[j] = "CANCEL1" => i < j
  /\ maker \in {"new", "prime", "send", "store"} =>
       /\ invite = "none" /\ ~InUp("CANCEL1")
       /\ \A h \in Enders : ender[h] \notin {"drain", "cancelSent"}
  /\ \A h \in Enders : ender[h] = "cancelNone" => h \in missed
  /\ Rings => \A c \in {"ok", "auth", "refused"} : ~InDown(<<1, c>>)
  /\ Rings /\ ~Stopped =>
       /\ maker \in {"store", "wait"} /\ tx = "live"
       /\ maker = "wait" => invite = "first"
       /\ \A h \in Enders : ender[h] \notin {"drain", "cancelSent"}

(* makeCall returns, however the callee, the browser and the hangups behave,
   and every request to end the call is answered. *)
Settles ==
  /\ <>(maker = "returned")
  /\ \A h \in Enders : ender[h] # "idle" ~> ender[h] = "done"

=============================================================================
