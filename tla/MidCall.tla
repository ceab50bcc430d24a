------------------------------ MODULE MidCall ------------------------------
(***************************************************************************)
(* One session while its PeerConnection is replaced.  An @switch MESSAGE   *)
(* asks the client for a new offer and parks the live PeerConnection until *)
(* the replacement is connected (make before break); a client that changed *)
(* its network resumes on a PeerConnection of its own; a re-INVITE or      *)
(* UPDATE negotiates on the SIP side; all that while ICE calls back, the   *)
(* negotiation times out and the call ends.  The session's lock is held    *)
(* for single critical sections only, each a step here.                    *)
(***************************************************************************)
EXTENDS Naturals, FiniteSets

CONSTANTS Gens,      \* generations of @switch, each one attempt of its own
          Sips,      \* re-INVITEs and UPDATEs
          Resumes,   \* resume requests
          PCs,       \* PeerConnections, each created once
          First,     \* the one the call began with
          None,
          MaxLoss,   \* how often ICE may lose a connection
          Worlds     \* the sets of events to consider together

Events == {"sip", "second", "overlap", "resume", "untimely", "loss"}
Ids == Gens \cup Sips       \* a negotiation is named after what began it

ASSUME NamesAssumption ==
  /\ Gens \subseteq Nat /\ PCs \subseteq Nat
  /\ First \in PCs /\ None \notin PCs \cup Ids
  /\ Gens \cap Sips = {} /\ Gens \cap Resumes = {}
ASSUME WorldsAssumption == Worlds \subseteq SUBSET Events /\ MaxLoss \in Nat

VARIABLES
  world,       \* what may happen in this behaviour
  state,       \* State of the session
  terminal,    \* TerminalAction # ""
  deleted,     \* the session left the manager
  answered,    \* history: the SIP side answered
  pending,     \* PendingMidCallRenegotiation: its ID
  claim,       \* SwitchVideoRenegotiateGeneration
  hold,        \* SwitchVideoRenegotiateHold
  ready,       \* switchReplacementPCReady
  pc,          \* PeerConnection
  legacy,      \* legacyPeerConnection
  video,       \* the PeerConnection that VideoTrack belongs to
  ice,         \* what became of each PeerConnection
  losses,
  callbacks,   \* ICE callbacks that found their PeerConnection current
  graces,      \* goroutines that wait out a grace period
  switch,      \* where each attempt is
  old,         \* the PeerConnection it found
  new,         \* the one an attempt or a resume created
  sip,         \* where each re-INVITE is
  resume,      \* where each resume is
  was,         \* the resumes that found the session reconnecting
  answer,      \* where the client's answer to each negotiation is
  onto,        \* the PeerConnection it applies its offer to
  timers,      \* negotiations whose timeout is armed
  aborts,      \* failed negotiations that have yet to call AbortMakeBeforeBreak
  verdicts     \* history: which negotiations were reported as ok, as timeout

signalling == <<state, terminal, deleted, answered>>
claims == <<claim, hold, ready>>
conns == <<pc, legacy, video, ice, losses, callbacks, graces>>
attempts == <<switch, old, new>>
vars == <<world, signalling, pending, claims, conns, attempts, sip, resume, was, answer, onto,
          timers, aborts, verdicts>>

States == {"ringing", "active", "reconnecting", "ended"}
IceAt == {"unused", "new", "offered", "connected", "lost", "failed", "closed"}
SwitchAt == {"idle", "claimed", "release", "notify", "read", "create", "store", "fail", "done"}
SipAt == {"idle", "validate", "respond", "client", "done"}
ResumeAt == {"idle", "swap", "create", "store", "set", "done"}
AnswerAt == {"none", "asked", "check", "wait", "take", "apply", "complete", "error", "done"}

TypeOK ==
  /\ world \in Worlds /\ state \in States /\ terminal \in BOOLEAN /\ deleted \in BOOLEAN
  /\ answered \in BOOLEAN /\ pending \in Ids \cup {None}
  /\ claim \in Gens \cup {None} /\ hold \in BOOLEAN /\ ready \in BOOLEAN
  /\ pc \in PCs \cup {None} /\ legacy \in PCs \cup {None} /\ video \in PCs
  /\ ice \in [PCs -> IceAt] /\ losses \in 0..MaxLoss /\ graces \in 0..MaxLoss
  /\ callbacks \subseteq PCs \X {"connected", "commit", "failed"}
  /\ switch \in [Gens -> SwitchAt] /\ old \in [Gens -> PCs \cup {None}]
  /\ new \in [Gens \cup Resumes -> PCs \cup {None}]
  /\ sip \in [Sips -> SipAt] /\ resume \in [Resumes -> ResumeAt] /\ was \subseteq Resumes
  /\ answer \in [Ids -> AnswerAt] /\ onto \in [Ids -> PCs \cup {None}]
  /\ timers \subseteq Ids /\ aborts \in Nat
  /\ verdicts \subseteq Ids \X {"ok", "timeout"}

May(event) == event \in world

Init ==
  /\ world \in Worlds
  /\ \/ state = "active" /\ answered = TRUE
     \/ May("resume") /\ state = "ringing" /\ answered = FALSE
  /\ terminal = FALSE /\ deleted = FALSE /\ pending = None
  /\ claim = None /\ hold = FALSE /\ ready = FALSE
  /\ pc = First /\ legacy = None /\ video = First
  /\ ice = [p \in PCs |-> IF p = First THEN "connected" ELSE "unused"]
  /\ losses = 0 /\ callbacks = {} /\ graces = 0
  /\ switch = [g \in Gens |-> "idle"] /\ old = [g \in Gens |-> None]
  /\ new = [x \in Gens \cup Resumes |-> None]
  /\ sip = [r \in Sips |-> "idle"] /\ resume = [r \in Resumes |-> "idle"] /\ was = {}
  /\ answer = [i \in Ids |-> "none"] /\ onto = [i \in Ids |-> None]
  /\ timers = {} /\ aborts = 0 /\ verdicts = {}

SwitchGoes(g, from, to) == switch[g] = from /\ switch' = [switch EXCEPT ![g] = to]
SipGoes(r, from, to) == sip[r] = from /\ sip' = [sip EXCEPT ![r] = to]
ResumeGoes(r, from, to) == resume[r] = from /\ resume' = [resume EXCEPT ![r] = to]
AnswerGoes(i, from, to) == answer[i] = from /\ answer' = [answer EXCEPT ![i] = to]
Tell(i, verdict) == verdicts' = verdicts \cup {<<i, verdict>>}
Becomes(ps, what) == [p \in PCs |-> IF p \in ps THEN what ELSE ice[p]]
Closes(ps) == ice' = Becomes(ps, "closed")

(* A new PeerConnection for an attempt or a resume. *)
Create(x) == \E p \in PCs : /\ ice[p] = "unused" /\ \A q \in PCs : ice[q] = "unused" => p <= q
                        /\ ice' = Becomes({p}, "new") /\ new' = [new EXCEPT ![x] = p]

-----------------------------------------------------------------------------
(* The pending negotiation. *)

MayBegin == ~terminal /\ pending = None

(* Mutant: the hold of a switch is never lifted. *)
Clear_KeepsHold(i) == pending' = None /\ UNCHANGED <<claim, hold, ready>>

(* CompleteMidCallRenegotiation and the first half of FailMidCallRenegotiation:
   only the negotiation that is pending, and only a switch lifts the hold. *)
Clear(i) == /\ pending' = None
            /\ hold' = (hold /\ i \notin Gens)
            /\ UNCHANGED <<claim, ready>>

(* Mutant: a late answer completes what has already timed out. *)
Complete_Late(i) == pending \in {i, None} /\ Clear(i)

Complete(i) == pending = i /\ Clear(i)

(* Mutant: the parked PeerConnection is forgotten when a negotiation fails. *)
Fail_KeepsParked(i) == \/ pending = i /\ Clear(i) /\ UNCHANGED aborts
                       \/ pending # i /\ UNCHANGED <<pending, claims, aborts>>

Fail(i) == \/ pending = i /\ Clear(i) /\ aborts' = aborts + 1
           \/ pending # i /\ UNCHANGED <<pending, claims, aborts>>

(* Mutant: the wrong one of the two is closed. *)
Restore_ClosesParked ==
  /\ pc' = legacy /\ video' = legacy /\ legacy' = None /\ ready' = FALSE
  /\ Closes({legacy}) /\ UNCHANGED <<claim, hold>>

(* Mutant: the tracks of the replacement stay in use. *)
Restore_KeepsTracks ==
  /\ pc' = legacy /\ legacy' = None /\ ready' = FALSE
  /\ Closes({pc} \ {None, legacy}) /\ UNCHANGED <<claim, hold, video>>

(* AbortMakeBeforeBreak: whoever failed, what is parked comes back. *)
Restore ==
  /\ pc' = legacy /\ video' = legacy /\ legacy' = None /\ ready' = FALSE
  /\ Closes({pc} \ {None, legacy})
  /\ UNCHANGED <<claim, hold>>

Abort ==
  /\ aborts > 0 /\ aborts' = aborts - 1
  /\ \/ legacy # None /\ Restore
     \/ legacy = None /\ UNCHANGED <<pc, video, legacy, ice, claims>>
  /\ UNCHANGED <<world, signalling, pending, losses, callbacks, graces, attempts, sip, resume, was,
                 answer, onto, timers, verdicts>>

(* The timer of a negotiation.  "untimely" lets it go off before the replacement
   is installed, and while an answer is being handled. *)
Installed(i) == i \in Gens => switch[i] = "done"
Timely(i) == Installed(i) /\ answer[i] \in {"none", "asked", "done"}
Timeout(i) ==
  /\ i \in timers /\ timers' = timers \ {i} /\ (Timely(i) \/ May("untimely"))
  /\ \/ ~deleted /\ pending = i /\ Fail(i) /\ Tell(i, "timeout")
     \/ (deleted \/ pending # i) /\ UNCHANGED <<pending, claims, aborts, verdicts>>
  /\ UNCHANGED <<world, signalling, conns, attempts, sip, resume, was, answer, onto>>

-----------------------------------------------------------------------------
(* StartSwitchVideoRenegotiation, a goroutine for each generation. *)

NoAttempt == \A g \in Gens : switch[g] \in {"idle", "done"}
NoNegotiation == NoAttempt /\ aborts = 0 /\ callbacks = {} /\ \A r \in Sips : sip[r] \in {"idle", "done"}

Claim(g) ==
  /\ ~deleted /\ ((legacy = None /\ NoNegotiation) \/ May("overlap"))
  /\ \A h \in Gens : h < g => switch[h] # "idle" /\ May("second")
  /\ \/ /\ MayBegin /\ claim # g /\ SwitchGoes(g, "idle", "claimed")
        /\ claim' = g /\ hold' = TRUE /\ ready' = FALSE
     \/ /\ ~(MayBegin /\ claim # g) /\ SwitchGoes(g, "idle", "done") /\ UNCHANGED claims
  /\ UNCHANGED <<world, signalling, pending, conns, old, new, sip, resume, was, answer, onto, timers,
                 aborts, verdicts>>

Begin(g) ==
  /\ \/ MayBegin /\ SwitchGoes(g, "claimed", "notify") /\ pending' = g
     \/ ~MayBegin /\ SwitchGoes(g, "claimed", "release") /\ UNCHANGED pending
  /\ UNCHANGED <<world, signalling, claims, conns, old, new, sip, resume, was, answer, onto, timers,
                 aborts, verdicts>>

(* ReleaseSwitchVideoRenegotiationClaim *)
Unclaim(g) ==
  \/ claim = g /\ claim' = None /\ hold' = FALSE /\ ready' = FALSE
  \/ claim # g /\ UNCHANGED claims

Release(g) ==
  /\ SwitchGoes(g, "release", "done") /\ Unclaim(g)
  /\ UNCHANGED <<world, signalling, pending, conns, old, new, sip, resume, was, answer, onto, timers,
                 aborts, verdicts>>

(* Mutant: no timer when no client is connected. *)
Ask_NoClientNoTimer(i) ==
  \/ timers' = timers \cup {i} /\ answer' = [answer EXCEPT ![i] = "asked"]
  \/ UNCHANGED <<timers, answer>>

(* NotifySwitchVideoRenegotiation and NotifyMidCallRenegotiation: the timer, and
   the client is asked if one is connected. *)
Ask(i) ==
  /\ timers' = timers \cup {i}
  /\ \/ answer' = [answer EXCEPT ![i] = "asked"]
     \/ UNCHANGED answer

Notify(g) ==
  /\ SwitchGoes(g, "notify", "read") /\ Ask(g)
  /\ UNCHANGED <<world, signalling, pending, claims, conns, old, new, sip, resume, was, onto, aborts,
                 verdicts>>

(* createReplacementPeerConnection keeping the existing one: it is read, ... *)
ReadOld(g) ==
  /\ SwitchGoes(g, "read", "create") /\ old' = [old EXCEPT ![g] = pc]
  /\ UNCHANGED <<world, signalling, pending, claims, conns, new, sip, resume, was, answer, onto,
                 timers, aborts, verdicts>>

(* ... and parked when the new one exists; the new tracks are in use at once. *)
Park(g) ==
  /\ SwitchGoes(g, "create", "store") /\ Create(g)
  /\ video' = new'[g] /\ legacy' = IF old[g] = None THEN legacy ELSE old[g]
  /\ old' = [old EXCEPT ![g] = None]
  /\ UNCHANGED <<world, signalling, pending, claims, pc, losses, callbacks, graces, sip, resume, was,
                 answer, onto, timers, aborts, verdicts>>

(* PrepareSwitchPeerConnection *)
Install(g) ==
  /\ SwitchGoes(g, "store", "done") /\ pc' = new[g] /\ ready' = TRUE
  /\ new' = [new EXCEPT ![g] = None]
  /\ UNCHANGED <<world, signalling, pending, claim, hold, legacy, video, ice, losses, callbacks,
                 graces, old, sip, resume, was, answer, onto, timers, aborts, verdicts>>

(* The PeerConnection could not be created. *)
PrepareFails(g) ==
  /\ May("untimely") /\ SwitchGoes(g, "create", "fail") /\ Fail(g)
  /\ UNCHANGED <<world, signalling, conns, old, new, sip, resume, was, answer, onto, timers, verdicts>>

Failed(g) ==
  /\ SwitchGoes(g, "fail", "done") /\ Unclaim(g)
  /\ UNCHANGED <<world, signalling, pending, conns, old, new, sip, resume, was, answer, onto, timers,
                 aborts, verdicts>>

-----------------------------------------------------------------------------
(* handleActiveReINVITE, handleUPDATE: the latter whatever the state is *)

Reinvite(r) ==
  /\ May("sip") /\ ~deleted /\ (NoAttempt \/ May("overlap"))
  /\ \/ MayBegin /\ SipGoes(r, "idle", "validate") /\ pending' = r
     \/ ~MayBegin /\ SipGoes(r, "idle", "done") /\ UNCHANGED pending     \* 491
  /\ UNCHANGED <<world, signalling, claims, conns, attempts, resume, was, answer, onto, timers, aborts,
                 verdicts>>

(* 488, or the answer cannot be sent *)
Refuse(r) ==
  /\ sip[r] \in {"validate", "respond", "client"}
  /\ sip' = [sip EXCEPT ![r] = "done"] /\ Fail(r)
  /\ UNCHANGED <<world, signalling, conns, attempts, resume, was, answer, onto, timers, verdicts>>

(* The offer is acceptable; when it adds or removes video the client is asked,
   and the negotiation stays pending after the 200. *)
Accept(r) ==
  /\ \/ SipGoes(r, "validate", "respond") /\ UNCHANGED <<answer, timers>>
     \/ SipGoes(r, "validate", "client") /\ Ask(r)
  /\ UNCHANGED <<world, signalling, pending, claims, conns, attempts, resume, was, onto, aborts,
                 verdicts>>

Respond(r) ==
  /\ \/ /\ SipGoes(r, "respond", "done")
        /\ Complete(r) \/ (pending # r /\ UNCHANGED <<pending, claims>>)
     \/ SipGoes(r, "client", "done") /\ UNCHANGED <<pending, claims>>
  /\ UNCHANGED <<world, signalling, conns, attempts, resume, was, answer, onto, timers, aborts,
                 verdicts>>

-----------------------------------------------------------------------------
(* handleWSRenegotiateAnswer *)

(* The client refuses. *)
ClientFails(i) ==
  /\ ~deleted /\ (Installed(i) \/ May("untimely")) /\ AnswerGoes(i, "asked", "done")
  /\ Fail(i)
  /\ UNCHANGED <<world, signalling, conns, attempts, sip, resume, was, onto, timers, verdicts>>

(* It answers: a switch with an offer to apply, a re-INVITE with nothing more. *)
ClientAnswers(i) ==
  /\ ~deleted
  /\ \/ pending = i /\ i \in Gens /\ AnswerGoes(i, "asked", "check")
     \/ pending = i /\ i \in Sips /\ AnswerGoes(i, "asked", "complete")
     \/ pending # i /\ AnswerGoes(i, "asked", "done")
  /\ UNCHANGED <<world, signalling, pending, claims, conns, attempts, sip, resume, was, onto, timers,
                 aborts, verdicts>>

(* waitForSwitchReplacementPeerConnectionIfNeeded: five seconds at most. *)
Await(i) ==
  /\ \/ AnswerGoes(i, "check", IF hold /\ ~ready THEN "wait" ELSE "take")
     \/ ready /\ AnswerGoes(i, "wait", "take")
     \/ ~ready /\ (Installed(i) \/ May("untimely")) /\ AnswerGoes(i, "wait", "error")
  /\ UNCHANGED <<world, signalling, pending, claims, conns, attempts, sip, resume, was, onto, timers,
                 aborts, verdicts>>

(* AnswerClientOffer on the PeerConnection it finds, which may be closed by the
   time the offer is applied; it may be refused as well. *)
TakePC(i) ==
  /\ AnswerGoes(i, "take", IF pc = None THEN "error" ELSE "apply")
  /\ onto' = [onto EXCEPT ![i] = pc]
  /\ UNCHANGED <<world, signalling, pending, claims, conns, attempts, sip, resume, was, timers, aborts,
                 verdicts>>

ApplyOffer(i) ==
  /\ \/ AnswerGoes(i, "apply", "complete") /\ ice[onto[i]] # "closed"
        /\ ice' = Becomes({onto[i]}, "offered")
     \/ AnswerGoes(i, "apply", "error") /\ UNCHANGED ice
  /\ onto' = [onto EXCEPT ![i] = None]
  /\ UNCHANGED <<world, signalling, pending, claims, pc, legacy, video, losses, callbacks, graces,
                 attempts, sip, resume, was, timers, aborts, verdicts>>

AnswerOk(i) ==
  /\ AnswerGoes(i, "complete", "done")
  /\ \/ Complete(i) /\ Tell(i, "ok")
     \/ pending # i /\ UNCHANGED <<pending, claims, verdicts>>
  /\ UNCHANGED <<world, signalling, conns, attempts, sip, resume, was, onto, timers, aborts>>

AnswerError(i) ==
  /\ AnswerGoes(i, "error", "done") /\ Fail(i)
  /\ UNCHANGED <<world, signalling, conns, attempts, sip, resume, was, onto, timers, verdicts>>

-----------------------------------------------------------------------------
(* handleWSResume and RenegotiatePeerConnection *)

Resumable == {"active", "ringing", "reconnecting"}

StartResume(r) ==
  /\ May("resume") /\ ~deleted
  /\ \/ state \in Resumable /\ ResumeGoes(r, "idle", "swap")
     \/ state \in Resumable /\ ResumeGoes(r, "idle", "set")            \* no SDP
     \/ state \notin Resumable /\ ResumeGoes(r, "idle", "done")
  /\ was' = IF state = "reconnecting" THEN was \cup {r} ELSE was
  /\ UNCHANGED <<world, signalling, pending, claims, conns, attempts, sip, answer, onto, timers, aborts,
                 verdicts>>

(* The PeerConnection is taken out and closed; what is parked is forgotten. *)
Swap(r) ==
  /\ ResumeGoes(r, "swap", "create") /\ Closes({pc} \ {None}) /\ pc' = None /\ legacy' = None
  /\ UNCHANGED <<world, signalling, pending, claims, video, losses, callbacks, graces, attempts, sip,
                 was, answer, onto, timers, aborts, verdicts>>

ResumeCreates(r) ==
  /\ \/ ResumeGoes(r, "create", "store") /\ Create(r) /\ video' = new'[r]
     \/ ResumeGoes(r, "create", "done") /\ UNCHANGED <<ice, new, video>>
  /\ UNCHANGED <<world, signalling, pending, claims, pc, legacy, losses, callbacks, graces, switch, old,
                 sip, was, answer, onto, timers, aborts, verdicts>>

(* The offer is applied, or refused and the new PeerConnection closed. *)
ResumeInstalls(r) ==
  /\ \/ ResumeGoes(r, "store", "set") /\ pc' = new[r] /\ ice' = Becomes({new[r]}, "offered")
     \/ ResumeGoes(r, "store", "done") /\ Closes({new[r]}) /\ UNCHANGED pc
  /\ new' = [new EXCEPT ![r] = None]
  /\ UNCHANGED <<world, signalling, pending, claims, legacy, video, losses, callbacks, graces, switch,
                 old, sip, was, answer, onto, timers, aborts, verdicts>>

Resumed(r) ==
  /\ ResumeGoes(r, "set", "done")
  /\ state' = IF r \in was THEN "active" ELSE state
  /\ was' = was \ {r}
  /\ UNCHANGED <<world, terminal, deleted, answered, pending, claims, conns, attempts, sip, answer, onto,
                 timers, aborts, verdicts>>

-----------------------------------------------------------------------------
(* ICE.  The first PeerConnection's callback works under the lock; that of a
   replacement looks whether it is the current one and goes on without. *)

CleaningUp == state = "ended" \/ terminal
Calls(p, event) == callbacks' = IF p = pc /\ p # First THEN callbacks \cup {<<p, event>>} ELSE callbacks

Connects(p) ==
  /\ ice[p] \in {"offered", "lost"} /\ ice' = Becomes({p}, "connected") /\ Calls(p, "connected")
  /\ state' = IF p = pc /\ p = First /\ state = "reconnecting" THEN "active" ELSE state
  /\ UNCHANGED <<world, terminal, deleted, answered, pending, claims, pc, legacy, video, losses, graces,
                 attempts, sip, resume, was, answer, onto, timers, aborts, verdicts>>

Loses(p) ==
  /\ May("loss") /\ losses < MaxLoss /\ losses' = losses + 1
  /\ ice[p] = "connected" /\ ice' = Becomes({p}, "lost")
  /\ \/ /\ p = pc /\ p = First /\ ~CleaningUp /\ state # "reconnecting"
        /\ state' = "reconnecting" /\ graces' = graces + 1
     \/ /\ ~(p = pc /\ p = First /\ ~CleaningUp /\ state # "reconnecting")
        /\ UNCHANGED <<state, graces>>
  /\ UNCHANGED <<world, terminal, deleted, answered, pending, claims, pc, legacy, video, callbacks,
                 attempts, sip, resume, was, answer, onto, timers, aborts, verdicts>>

FailsIce(p) ==
  /\ ice[p] \in {"offered", "lost"} /\ ice' = Becomes({p}, "failed") /\ Calls(p, "failed")
  /\ state' = IF p = pc /\ p = First /\ ~CleaningUp THEN "ended" ELSE state
  /\ UNCHANGED <<world, terminal, deleted, answered, pending, claims, pc, legacy, video, losses, graces,
                 attempts, sip, resume, was, answer, onto, timers, aborts, verdicts>>

(* SetState(StateActive), whatever the state is *)
OnConnected(p) ==
  /\ <<p, "connected">> \in callbacks
  /\ callbacks' = (callbacks \ {<<p, "connected">>}) \cup {<<p, "commit">>}
  /\ state' = "active"
  /\ UNCHANGED <<world, terminal, deleted, answered, pending, claims, pc, legacy, video, ice, losses,
                 graces, attempts, sip, resume, was, answer, onto, timers, aborts, verdicts>>

(* Mutant: what was parked is forgotten, not closed. *)
Commit_Forgets(p) ==
  /\ <<p, "commit">> \in callbacks /\ callbacks' = callbacks \ {<<p, "commit">>}
  /\ \/ legacy # None /\ pc = p /\ legacy' = None
     \/ (legacy = None \/ pc # p) /\ UNCHANGED legacy
  /\ UNCHANGED <<world, signalling, pending, claims, pc, video, ice, losses, graces, attempts, sip,
                 resume, was, answer, onto, timers, aborts, verdicts>>

(* commitMakeBeforeBreak *)
Commit(p) ==
  /\ <<p, "commit">> \in callbacks /\ callbacks' = callbacks \ {<<p, "commit">>}
  /\ \/ legacy # None /\ pc = p /\ legacy' = None /\ Closes({legacy} \ {p})
     \/ (legacy = None \/ pc # p) /\ UNCHANGED <<legacy, ice>>
  /\ UNCHANGED <<world, signalling, pending, claims, pc, video, losses, graces, attempts, sip, resume,
                 was, answer, onto, timers, aborts, verdicts>>

OnFailed(p) ==
  /\ <<p, "failed">> \in callbacks /\ callbacks' = callbacks \ {<<p, "failed">>}
  /\ \/ legacy # None /\ Restore /\ UNCHANGED state
     \/ legacy = None /\ state' = "ended" /\ UNCHANGED <<pc, legacy, video, ice, claims>>
  /\ UNCHANGED <<world, terminal, deleted, answered, pending, losses, graces, attempts, sip, resume,
                 was, answer, onto, timers, aborts, verdicts>>

(* reconnectGracePeriod is over for one of those who wait. *)
GraceOver ==
  /\ graces > 0 /\ graces' = graces - 1
  /\ state' = IF state = "reconnecting" THEN "ended" ELSE state
  /\ UNCHANGED <<world, terminal, deleted, answered, pending, claims, pc, legacy, video, ice, losses,
                 callbacks, attempts, sip, resume, was, answer, onto, timers, aborts, verdicts>>

-----------------------------------------------------------------------------
(* The call itself *)

Answered ==
  /\ ~answered /\ ~deleted /\ state # "ended" /\ answered' = TRUE /\ state' = "active"
  /\ UNCHANGED <<world, terminal, deleted, pending, claims, conns, attempts, sip, resume, was, answer,
                 onto, timers, aborts, verdicts>>

(* handleWSHangup: TryBeginTerminalAction, and what it asks of SIP *)
Hangup ==
  /\ ~terminal /\ ~deleted /\ terminal' = TRUE /\ pending' = None
  /\ UNCHANGED <<world, state, deleted, answered, claims, conns, attempts, sip, resume, was, answer,
                 onto, timers, aborts, verdicts>>

(* A BYE from the other side takes no terminal action. *)
Ends ==
  /\ ~deleted /\ state # "ended" /\ state' = "ended"
  /\ UNCHANGED <<world, terminal, deleted, answered, pending, claims, conns, attempts, sip, resume, was,
                 answer, onto, timers, aborts, verdicts>>

(* DetachPeerConnection and DeleteSession *)
Delete ==
  /\ ~deleted /\ state = "ended" /\ deleted' = TRUE
  /\ Closes({pc, legacy} \ {None}) /\ pc' = None /\ legacy' = None
  /\ UNCHANGED <<world, state, terminal, answered, pending, claims, video, losses, callbacks, graces,
                 attempts, sip, resume, was, answer, onto, timers, aborts, verdicts>>

SwitchStep(g) == Begin(g) \/ Release(g) \/ Notify(g) \/ ReadOld(g) \/ Park(g) \/ Install(g)
                 \/ PrepareFails(g) \/ Failed(g)
SipStep(r) == Refuse(r) \/ Accept(r) \/ Respond(r)
AnswerStep(i) == Await(i) \/ TakePC(i) \/ ApplyOffer(i) \/ AnswerOk(i) \/ AnswerError(i)
ResumeStep(r) == Swap(r) \/ ResumeCreates(r) \/ ResumeInstalls(r) \/ Resumed(r)
IceStep(p) == Connects(p) \/ FailsIce(p) \/ OnConnected(p) \/ Commit(p) \/ OnFailed(p)

Next ==
  \/ \E g \in Gens : Claim(g) \/ SwitchStep(g)
  \/ \E r \in Sips : Reinvite(r) \/ SipStep(r)
  \/ \E i \in Ids : ClientFails(i) \/ ClientAnswers(i) \/ AnswerStep(i) \/ Timeout(i)
  \/ \E r \in Resumes : StartResume(r) \/ ResumeStep(r)
  \/ \E p \in PCs : Loses(p) \/ IceStep(p)
  \/ Abort \/ GraceOver \/ Answered \/ Hangup \/ Ends \/ Delete

Spec == Init /\ [][Next]_vars

(* Goroutines, timers and ICE go on; who hangs up ends the call; nobody has to
   answer, and no client has to. *)
Fairness ==
  /\ \A g \in Gens : WF_vars(SwitchStep(g))
  /\ \A r \in Sips : WF_vars(SipStep(r))
  /\ \A i \in Ids : WF_vars(AnswerStep(i)) /\ WF_vars(Timeout(i))
  /\ \A r \in Resumes : WF_vars(ResumeStep(r))
  /\ \A p \in PCs : WF_vars(IceStep(p))
  /\ WF_vars(Abort) /\ WF_vars(terminal /\ Ends) /\ WF_vars(Delete)

FairSpec == Spec /\ Fairness

-----------------------------------------------------------------------------
(* Properties *)

Calm == world \subseteq {"sip", "second"}
Preparing == \E g \in Gens : switch[g] \in {"create", "store"}

(* Video is never held back for good: while SwitchVideoRenegotiateHold is set
   there is a switch negotiation pending, which will answer, fail or time out,
   or an attempt that has yet to begin one, or the call is being hung up.  Both
   flags are set, cleared and tested in different critical sections, by attempts
   that overlap. *)
HoldCovered ==
  hold => pending \in Gens \/ terminal \/ \E g \in Gens : switch[g] \in {"claimed", "release"}

(* A client that was told a negotiation has succeeded is never told it has timed
   out, nor the other way round, however its answer and the timer race. *)
VerdictOnce == \A i \in Ids : ~({<<i, "ok">>, <<i, "timeout">>} \subseteq verdicts)

(* A replacement never costs the call its media: an active call has a connected
   PeerConnection, in use or parked, at every point of a handover.  Only in calm
   worlds: attempts do not overlap, and a switch begins when no other has its
   PeerConnection parked (the guard of Claim without "overlap"); no resume, no
   ICE loss, no verdict before the replacement is installed. *)
MediaKept ==
  Calm /\ ~deleted /\ state # "ended" =>
    \E p \in {pc, legacy} \ {None} : ice[p] = "connected"

(* Video is written to the track of the PeerConnection that signalling uses,
   once no attempt is between the two. *)
TracksFollow == Calm /\ ~Preparing /\ pc # None => video = pc

(* Every PeerConnection that is neither closed nor failed is one the session
   will close when it ends. *)
NoLeak ==
  Calm => \A p \in PCs : ice[p] \in {"unused", "closed", "failed"} \/ p \in {pc, legacy}
                         \/ \E g \in Gens : new[g] = p /\ switch[g] = "store"

(* In use, parked or closed: a call loses no PeerConnection and no track. *)
CallKeepsMedia == MediaKept /\ TracksFollow /\ NoLeak

(* A negotiation is settled: somebody answers, somebody fails, or time runs out. *)
Settles == \A i \in Ids : (pending = i) ~> (pending # i \/ deleted)

(* The parked PeerConnection is closed or comes back. *)
HandoverEnds == (Calm /\ legacy # None) ~> (legacy = None \/ deleted)

(* Negotiations and handovers end. *)
NegotiationsEnd == Settles /\ HandoverEnds

(* "Call-progress state must follow SIP answer, not ICE readiness" (session.go) *)
ActiveAnswered == state = "active" => answered
=============================================================================
