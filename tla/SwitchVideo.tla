---------------------------- MODULE SwitchVideo ----------------------------
(***************************************************************************)
(* The SIP-to-browser video path of one call while the far end moves it    *)
(* from a queue to an agent: the complete-IDR gate                         *)
(* (internal/session/switch_video_gate.go, switch_target.go), the RTP      *)
(* reader that notices a new source by its SSRC or by a jump of the        *)
(* timestamp (internal/sip/rtp.go), the access units the reorder buffer    *)
(* lets go of from the reader or from its timer goroutine, the writer that *)
(* reserves, writes and commits, the replay of a cached IDR                *)
(* (sip_video_idr.go), and the goroutines that handle "@switch" messages   *)
(* (internal/sip/handlers.go).                                             *)
(*                                                                         *)
(* The unit is the access unit.  The source sends segments 1, 2, ... each  *)
(* on a clock of its own; world.ssrc says on which SSRC each comes.  A   *)
(* picture that is no IDR can be decoded only after an IDR of its segment. *)
(* A reservation is the token of the one writer that may hold it: its      *)
(* nonce is abstracted to "still there" or "cleared".                      *)
(***************************************************************************)
EXTENDS Naturals, Sequences

CONSTANTS
    Handlers,     \* the goroutines that may handle an "@switch" message
    Target,       \* Target[h]: the queue and agent message h names
    Worlds        \* the circumstances of a call, a set of records:
                  \*   notices: the handlers whose message arrives,
                  \*   ssrc: the SSRCs of the source's segments, in order,
                  \*   follow: what is configured to follow a notice: "claim"
                  \*     a renegotiation, a "blackout", or nothing ("done"),
                  \*   fails: how many writes to the video track may fail

Emitters == {"reader", "timer"}
None == [seg |-> 0, idr |-> FALSE]

VARIABLES
    world,     \* the circumstances, fixed
    src,       \* the segment the source sends
    ses,       \* the session's switch state, under its mutex
    gate,      \* the gate's fields
    cache,     \* the cached IDR and whether a replay is queued
    rd,        \* the reader goroutine
    held,      \* the access unit the reorder buffer keeps behind a gap
    norm,      \* the normalizer: generation, whether a clock step is due, and
               \* the segment of the access unit numbered last
    emitMu,    \* who writes
    w,         \* each emitter's batch and the access unit under way
    hpc, tok,  \* the handler goroutines and the generation each was given
    dec,       \* ghost: the segment of the last IDR written, 0 before one
    door,      \* ghost: the gate was passed by a door PicturesDecodable names
    fails      \* the writes that failed so far
gates == <<ses, gate, cache>>
vars == <<world, src, ses, gate, cache, rd, held, norm, emitMu, w, hpc, tok, dec, door, fails>>

NoGate == [active |-> FALSE, gen |-> 0, releasing |-> FALSE]
NoIDR == [seg |-> 0, gen |-> 0, pending |-> FALSE]
IdleWriter == [pc |-> "idle", batch |-> <<>>, res |-> FALSE, mine |-> FALSE, disc |-> FALSE, gen |-> 0]

Init ==
    /\ world \in Worlds
    /\ src = 1
    /\ ses = [gen |-> 0, accepted |-> 0, remote |-> 0, opened |-> 0, media |-> 0, target |-> "none",
              credit |-> FALSE, rec |-> FALSE, hold |-> FALSE, black |-> FALSE]
    /\ gate = NoGate
    /\ cache = NoIDR
    /\ rd = [pc |-> "idle", last |-> 0, prev |-> 0, pkt |-> None]
    /\ held = None
    /\ norm = [gen |-> 0, step |-> FALSE, seg |-> 0]
    /\ emitMu = "none"
    /\ w = [e \in Emitters |-> IdleWriter]
    /\ hpc = [h \in Handlers |-> "idle"]
    /\ tok = [h \in Handlers |-> 0]
    /\ dec = 0
    /\ door = FALSE
    /\ fails = 0

(***************************************************************************)
(* The gate (under the session's mutex).                                   *)
(***************************************************************************)
OpenedMatches == ses.opened # 0 /\ ses.opened = ses.remote

\* What noteOpenedVideoStreamLocked records of the SSRC.
Opened(s, ssrc) == IF ssrc = 0 THEN s ELSE [s EXCEPT !.opened = ssrc, !.media = ssrc]

\* The gate is another one, or none: no reservation made so far is for it.
Disown(ww) == [e \in Emitters |-> [ww[e] EXCEPT !.mine = FALSE]]

\* clearSwitchVideoGateLocked.
ClearGate == gate' = NoGate

\* startSwitchVideoGateLocked when nothing refuses: a new start.
ArmGate(gen) ==
    /\ gate' = [NoGate EXCEPT !.active = TRUE, !.gen = gen]
    /\ cache' = NoIDR

(***************************************************************************)
(* The "@switch" handlers.                                                 *)
(***************************************************************************)
Stay == UNCHANGED <<world, src, rd, held, norm, emitMu, dec, fails>>

Duplicate(h, within) == within /\ ses.target = Target[h] /\ ses.media = ses.remote

\* PrepareAndActivateSwitchVideoTarget: the target is a repetition ...
NoticeIgnored(h, within) ==
    /\ hpc[h] = "idle" /\ Duplicate(h, within)
    /\ hpc' = [hpc EXCEPT ![h] = "done"]
    /\ UNCHANGED <<gates, w, tok, door>> /\ Stay

\* ... or the stream is the one a gate has opened already ...
NoticeSameStream(h, within) ==
    /\ hpc[h] = "idle" /\ ~Duplicate(h, within) /\ OpenedMatches
    /\ ses' = [ses EXCEPT !.target = Target[h], !.media = ses.remote]
    /\ hpc' = [hpc EXCEPT ![h] = "done"]
    /\ UNCHANGED <<gate, cache, w, tok, door>> /\ Stay

\* ... or it is a new generation.
Honored(h, within) == hpc[h] = "idle" /\ ~Duplicate(h, within) /\ ~OpenedMatches
Noted(h) == [ses EXCEPT !.gen = @ + 1, !.target = Target[h], !.media = ses.remote]
Accept(h) ==
    /\ hpc' = [hpc EXCEPT ![h] = "recovery"]
    /\ tok' = [tok EXCEPT ![h] = ses.gen + 1]

NoticeArmsGate(h, within) ==
    /\ Honored(h, within) /\ ~ses.credit
    /\ ses' = Noted(h)
    /\ ArmGate(ses.gen + 1) /\ w' = Disown(w)
    /\ Accept(h) /\ UNCHANGED door /\ Stay

\* An IDR that followed a jump was written within the last 150 ms.
NoticeSatisfied(h, within) ==
    /\ Honored(h, within) /\ ses.credit
    /\ ses' = [Noted(h) EXCEPT !.accepted = ses.gen + 1, !.credit = FALSE]
    /\ ClearGate /\ w' = Disown(w)
    /\ door' = (door \/ dec # rd.prev)
    /\ Accept(h) /\ UNCHANGED cache /\ Stay

HandlerKeeps == UNCHANGED <<gate, cache, w, door>> /\ Stay

Goes(h, next) ==
    /\ hpc' = [hpc EXCEPT ![h] = next]
    /\ tok' = [tok EXCEPT ![h] = IF next = "done" THEN 0 ELSE @]

\* StartSwitchVideoRecoveryIfAuthoritative, and the goroutine that will
\* claim the renegotiation.
StartRecovery(h) ==
    /\ hpc[h] = "recovery"
    /\ LET authoritative == ses.gen = tok[h] IN
       /\ ses' = IF authoritative THEN [ses EXCEPT !.rec = TRUE] ELSE ses
       /\ \E next \in world.follow : Goes(h, IF authoritative THEN next ELSE "done")
    /\ HandlerKeeps

\* TryClaimSwitchVideoRenegotiation: one at a time (one per generation, too:
\* there is one handler for each).
Claim(h) ==
    /\ hpc[h] = "claim"
    /\ LET free == ~ses.hold IN
       /\ ses' = IF free THEN [ses EXCEPT !.hold = TRUE] ELSE ses
       /\ Goes(h, IF free THEN "answer" ELSE "done")
    /\ HandlerKeeps

\* The answer is applied, or the attempt fails and the claim is given back.
Answered(h) ==
    /\ hpc[h] = "answer"
    /\ ses' = [ses EXCEPT !.hold = FALSE]
    /\ Goes(h, "done")
    /\ HandlerKeeps

\* StartSwitchVideoTransitionHoldIfAuthoritative in blackout mode.
StartBlackout(h) ==
    /\ hpc[h] = "blackout"
    /\ ses' = IF ses.gen = tok[h] THEN [ses EXCEPT !.black = TRUE] ELSE ses
    /\ Goes(h, "done")
    /\ HandlerKeeps

Handler(h) ==
    \/ \E within \in BOOLEAN : \/ NoticeIgnored(h, within) \/ NoticeSameStream(h, within)
                                \/ NoticeArmsGate(h, within) \/ NoticeSatisfied(h, within)
    \/ StartRecovery(h) \/ Claim(h) \/ Answered(h) \/ StartBlackout(h)

(***************************************************************************)
(* Time: the windows that run out.                                        *)
(***************************************************************************)
TimePasses ==
    /\ \E f \in {"credit", "rec", "black"} : ses[f] /\ ses' = [ses EXCEPT ![f] = FALSE]
    /\ UNCHANGED <<gate, cache, w, hpc, tok, door>> /\ Stay

(***************************************************************************)
(* The source and the reader.                                              *)
(***************************************************************************)
\* (A segment of which no packet arrives is none.)
SourceMoves ==
    /\ src < Len(world.ssrc) /\ rd.prev = src
    /\ src' = src + 1
    /\ UNCHANGED <<world, gates, rd, held, norm, emitMu, w, hpc, tok, dec, door, fails>>

ReaderKeeps == UNCHANGED <<world, src, emitMu, hpc, tok, dec, fails>>

\* How the packet's source shows: a new generation resets the baseline of
\* the timestamps before they are compared.
Shows(prev) ==
    CASE ses.remote = 0 -> "first"
      [] ses.remote # 0 /\ ses.remote # world.ssrc[src] -> "ssrc"
      [] ses.remote = world.ssrc[src] /\ prev # 0 /\ prev # src -> "jump"
      [] OTHER -> "none"

\* A packet is read: the generation is looked up, queue and normalizer are
\* reset when it or the source is new.
Receive(idr) ==
    /\ rd.pc = "idle"
    /\ LET bumped == ses.gen # rd.last
           how == Shows(IF bumped THEN 0 ELSE rd.prev)
           reset == bumped \/ how \in {"ssrc", "jump"} IN
       /\ rd' = [pc |-> CASE how \in {"ssrc", "jump"} -> "check" [] how = "first" -> "learn" [] OTHER -> "push",
                 last |-> ses.gen, prev |-> src, pkt |-> [seg |-> src, idr |-> idr]]
       /\ held' = IF reset THEN None ELSE held
       /\ norm' = IF reset THEN [norm EXCEPT !.gen = ses.gen, !.step = TRUE] ELSE norm
       /\ door' = (door \/ (bumped /\ how = "none" /\ rd.prev \notin {0, src} /\ ~gate.active))
    /\ UNCHANGED <<gates, w>> /\ ReaderKeeps

\* IsSwitchVideoGateActive ...
CheckGate ==
    /\ rd.pc = "check"
    /\ rd' = [rd EXCEPT !.pc = IF gate.active THEN "learn" ELSE "start"]
    /\ UNCHANGED <<gates, held, norm, w, door>> /\ ReaderKeeps

\* ... and StartSwitchVideoGate with the generation read with the packet.
StartRefused == rd.last # ses.gen \/ rd.last < ses.accepted
StartGate ==
    /\ rd.pc = "start"
    /\ IF StartRefused \/ gate.active
       THEN /\ door' = (door \/ ~gate.active)
            /\ UNCHANGED <<gate, cache, w>>
       ELSE ArmGate(rd.last) /\ w' = Disown(w) /\ UNCHANGED door
    /\ rd' = [rd EXCEPT !.pc = "learn"]
    /\ UNCHANGED <<ses, held, norm>> /\ ReaderKeeps

\* SetRemoteVideoSSRC and NoteOpenedVideoStream.
Learn ==
    /\ rd.pc = "learn"
    /\ LET ssrc == world.ssrc[rd.pkt.seg] IN
       ses' = IF ses.remote = 0 THEN [ses EXCEPT !.remote = ssrc]
              ELSE Opened([ses EXCEPT !.remote = ssrc], ssrc)
    /\ rd' = [rd EXCEPT !.pc = "push"]
    /\ UNCHANGED <<gate, cache, held, norm, w, door>> /\ ReaderKeeps

(* Mutant: an old gate waits for the answer as the access units do. *)
FailOpen_Waits ==
    /\ rd.pc = "push" /\ gate.active /\ ~ses.hold
    /\ ses' = [ses EXCEPT !.accepted = IF gate.gen > @ THEN gate.gen ELSE @, !.black = FALSE]
    /\ ClearGate /\ w' = Disown(w)
    /\ door' = TRUE
    /\ UNCHANGED <<cache, held, norm, rd>> /\ ReaderKeeps

\* MaybeFailOpenSwitchVideoGate, every 300th packet: the gate is 3 s old and
\* holds a stream opened before, or 5 s old (time is not measured here).
FailOpen ==
    /\ rd.pc = "push" /\ gate.active
    /\ ses' = [ses EXCEPT !.accepted = IF gate.gen > @ THEN gate.gen ELSE @, !.black = FALSE]
    /\ ClearGate /\ w' = Disown(w)
    /\ door' = TRUE
    /\ UNCHANGED <<cache, held, norm, rd>> /\ ReaderKeeps

\* reorderBuf.Push: kept behind a gap, or let go of with what waited.
Hold ==
    /\ rd.pc = "push" /\ held = None
    /\ held' = rd.pkt
    /\ rd' = [rd EXCEPT !.pc = "idle", !.pkt = None]
    /\ UNCHANGED <<gates, norm, w, door>> /\ ReaderKeeps

LetGo ==
    /\ rd.pc = "push"
    /\ w' = [w EXCEPT !["reader"] = [IdleWriter EXCEPT !.pc = "lock",
                 !.batch = IF held = None THEN <<rd.pkt>> ELSE <<rd.pkt, held>>]]
    /\ held' = None
    /\ rd' = [rd EXCEPT !.pc = "emit", !.pkt = None]
    /\ UNCHANGED <<gates, norm, door>> /\ ReaderKeeps

ReaderStep == (\E idr \in BOOLEAN : Receive(idr)) \/ CheckGate \/ StartGate \/ Learn \/ FailOpen \/ Hold \/ LetGo

\* The timer gives the gap up: what it takes is decided here, written later.
TimerFires ==
    /\ held # None /\ w["timer"].pc = "idle"
    /\ w' = [w EXCEPT !["timer"] = [IdleWriter EXCEPT !.pc = "lock", !.batch = <<held>>]]
    /\ held' = None
    /\ UNCHANGED <<gates, norm, rd, door>> /\ ReaderKeeps

(***************************************************************************)
(* The writer: whoever holds emitMu, the reader or the timer goroutine.    *)
(***************************************************************************)
EmitterKeeps == UNCHANGED <<world, src, held, hpc, tok>>

AU(e) == Head(w[e].batch)

\* The next access unit of the batch, or the mutex is given back.
Advance(e, ww) ==
    LET rest == Tail(w[e].batch) IN
    IF rest # <<>>
    THEN /\ w' = [ww EXCEPT ![e] = [IdleWriter EXCEPT !.pc = "evaluate", !.batch = rest]]
         /\ UNCHANGED <<emitMu, rd>>
    ELSE /\ w' = [ww EXCEPT ![e] = IdleWriter]
         /\ emitMu' = "none"
         /\ rd' = IF e = "reader" THEN [rd EXCEPT !.pc = "idle"] ELSE rd

Lock(e) ==
    /\ w[e].pc = "lock" /\ emitMu = "none"
    /\ emitMu' = e
    /\ w' = [w EXCEPT ![e].pc = "evaluate"]
    /\ UNCHANGED <<gates, rd, norm, dec, door, fails>> /\ EmitterKeeps

(* Mutant: once the keyframe's window is over any picture passes. *)
Blocked_NotPictures(e) ==
    \/ ses.black \/ ses.hold \/ gate.releasing
    \/ norm.gen # gate.gen
    \/ ~AU(e).idr /\ ses.rec

\* The normalizer stamps the access unit with its generation when it is
\* pushed, and EvaluateSwitchVideoAccessUnit looks at the gate.
Blocked(e) ==
    \/ ses.black \/ ses.hold \/ gate.releasing
    \/ norm.gen # gate.gen
    \/ ~AU(e).idr
Dropped(e) == IF gate.active THEN Blocked(e) ELSE norm.gen < ses.accepted

Evaluate(e) ==
    /\ w[e].pc = "evaluate"
    /\ IF Dropped(e)
       THEN UNCHANGED gate /\ Advance(e, w)
       ELSE /\ gate' = [gate EXCEPT !.releasing = gate.active]
            /\ w' = [w EXCEPT ![e].pc = "number", ![e].res = gate.active, ![e].mine = gate.active, ![e].gen = norm.gen]
            /\ UNCHANGED <<emitMu, rd>>
    /\ UNCHANGED <<ses, cache, norm, dec, door, fails>> /\ EmitterKeeps

\* NumberSIPVideoAccessUnit: the clock steps when the source is a new one, but
\* not at the first access unit of all.  (Noted of an IDR only.)
Number(e) ==
    /\ w[e].pc = "number"
    /\ w' = [w EXCEPT ![e].pc = "write",
                 ![e].disc = AU(e).idr /\ norm.seg # 0 /\ (norm.step \/ norm.seg # AU(e).seg)]
    /\ norm' = [norm EXCEPT !.step = FALSE, !.seg = AU(e).seg]
    /\ UNCHANGED <<gates, rd, emitMu, dec, door, fails>> /\ EmitterKeeps

(* Mutant: whatever gate is shut is opened by the write that ends. *)
Reserved_AnyGate(e) == w[e].res /\ gate.active

\* Is the gate the one the reservation was made for (as the code asks)?
Reserved(e) == w[e].res /\ gate.active /\ gate.releasing /\ gate.gen = w[e].gen

\* RememberSIPVideoIDR.
Remember(e, delivered) ==
    cache' = IF AU(e).idr
             THEN [seg |-> AU(e).seg, gen |-> w[e].gen, pending |-> cache.pending \/ ~delivered]
             ELSE cache

(* Mutant: a failed write keeps its reservation. *)
WriteFails_KeepsReservation(e) ==
    /\ w[e].pc = "write" /\ fails < world.fails
    /\ fails' = fails + 1
    /\ Remember(e, FALSE)
    /\ UNCHANGED gate
    /\ Advance(e, w)
    /\ UNCHANGED <<ses, norm, dec, door>> /\ EmitterKeeps

\* A packet cannot be marshalled or written: AbortSwitchVideoGateRelease.
WriteFails(e) ==
    /\ w[e].pc = "write" /\ fails < world.fails
    /\ fails' = fails + 1
    /\ Remember(e, FALSE)
    /\ gate' = IF Reserved(e) THEN [gate EXCEPT !.releasing = FALSE] ELSE gate
    /\ Advance(e, w)
    /\ UNCHANGED <<ses, norm, dec, door>> /\ EmitterKeeps

\* Every packet is written.
Write(e) ==
    /\ w[e].pc = "write"
    /\ Remember(e, TRUE)
    /\ dec' = IF AU(e).idr THEN AU(e).seg ELSE dec
    /\ door' = IF AU(e).idr THEN AU(e).seg # rd.prev ELSE door
    /\ IF w[e].res
       THEN /\ w' = [w EXCEPT ![e].pc = "commit"]
            /\ UNCHANGED <<ses, emitMu, rd>>
       ELSE /\ ses' = [ses EXCEPT !.credit = @ \/ w[e].disc]
            /\ Advance(e, w)
    /\ UNCHANGED <<gate, norm, fails>> /\ EmitterKeeps

\* CommitSwitchVideoGateRelease, or what it refuses.
Commit(e) ==
    /\ w[e].pc = "commit"
    /\ IF Reserved(e)
       THEN /\ ses' = [Opened(ses, ses.remote) EXCEPT !.accepted = IF gate.gen > @ THEN gate.gen ELSE @,
                          !.black = FALSE, !.credit = @ \/ w[e].disc]
            /\ ClearGate
            /\ Advance(e, Disown(w))
       ELSE UNCHANGED <<ses, gate>> /\ Advance(e, w)
    /\ door' = (door \/ (Reserved(e) /\ AU(e).seg # rd.prev))
    /\ UNCHANGED <<cache, norm, dec, fails>> /\ EmitterKeeps

\* The browser asks for the cached IDR again, ICE is connected again.
Replayable == cache.seg # 0 /\ ~gate.active /\ ~ses.rec /\ ses.gen <= cache.gen

RequestReplay ==
    /\ Replayable /\ ~cache.pending
    /\ cache' = [cache EXCEPT !.pending = TRUE]
    /\ UNCHANGED <<ses, gate, rd, norm, emitMu, w, dec, door, fails>> /\ EmitterKeeps

\* WritePendingSIPVideoIDR, by the reader's loop or before an evaluation.
Replay ==
    /\ Replayable /\ cache.pending
    /\ rd.pc = "idle" \/ \E e \in Emitters : w[e].pc = "evaluate"
    /\ \/ /\ cache' = [cache EXCEPT !.pending = FALSE]
          /\ dec' = cache.seg
          /\ door' = (door \/ cache.seg # rd.prev)
          /\ UNCHANGED fails
       \/ /\ fails < world.fails /\ fails' = fails + 1
          /\ UNCHANGED <<cache, dec, door>>
    /\ UNCHANGED <<ses, gate, rd, norm, emitMu, w>> /\ EmitterKeeps

Emitter(e) == Lock(e) \/ Evaluate(e) \/ Number(e) \/ WriteFails(e) \/ Write(e) \/ Commit(e)

Next ==
    \/ \E h \in world.notices : Handler(h)
    \/ TimePasses \/ SourceMoves
    \/ ReaderStep \/ TimerFires
    \/ \E e \in Emitters : Emitter(e)
    \/ RequestReplay \/ Replay

Spec == Init /\ [][Next]_vars

(***************************************************************************)
(* Properties.                                                             *)
(***************************************************************************)
TypeOK ==
    /\ src \in 1..Len(world.ssrc) /\ dec \in 0..Len(world.ssrc) /\ fails \in 0..world.fails
    /\ gate.gen \in Nat /\ ses.accepted \in 0..ses.gen
    /\ rd.pc \in {"idle", "check", "start", "learn", "push", "emit"}
    /\ emitMu \in Emitters \cup {"none"}

\* The timer's goroutine with what it took before the source moved.
WritesLate(e) == e = "timer" /\ AU(e).seg < rd.prev

\* A picture that is no IDR is written only when the IDR written last was of
\* its segment.  Not claimed of the first segment before its first IDR, which
\* no gate guards, of what the timer's goroutine writes late, and of pictures
\* that follow one of the doors the code leaves open, until the next IDR of the
\* segment being read: the gate failed open; a late picture opened it; an
\* earlier segment's IDR was written or replayed, or "satisfied" a notice; or a
\* stale generation left the new segment without a gate.
PicturesDecodable ==
    [][\A e \in Emitters : Write(e) /\ ~AU(e).idr =>
          \/ AU(e).seg = dec
          \/ door
          \/ WritesLate(e)
          \/ dec = 0 /\ AU(e).seg = 1]_vars

\* IDRs are written in the order of their segments, but for those the timer's
\* goroutine writes late, or that are replayed when such a write failed.
IDRsInOrder == [][dec' < dec => (\E e \in Emitters : Write(e) /\ WritesLate(e)) \/ Replay]_vars

\* A gate that is "releasing" has a writer under way whose reservation is its
\* own: no writer that failed, lost its gate or finished leaves it shut for
\* good.
ReleasingIsOwned ==
    gate.releasing => \E e \in Emitters : w[e].res /\ w[e].mine /\ w[e].pc \in {"number", "write", "commit"}

\* A reservation opens only the gate it was made for, whatever gates were
\* stopped and started while the packets were being written.  (Which picture
\* made the reservation is what PicturesDecodable is about.)
OpensItsOwn ==
    [][\A e \in Emitters : Commit(e) /\ gate.active /\ ~gate'.active => w[e].mine]_vars

\* The gate does not stick, no reservation opens another gate, and the pictures
\* written can be decoded and their IDRs come in order, with the exceptions
\* PicturesDecodable and IDRsInOrder name.
GateSafe == []ReleasingIsOwned /\ OpensItsOwn /\ PicturesDecodable /\ IDRsInOrder

\* The IDR that "satisfies" a notice started the segment the reader has seen
\* begin (internal/session/switch_video_gate.go:27-30: "a discontinuity IDR
\* already started this segment").
SatisfiedByOwnPicture ==
    [][\A h \in Handlers, within \in BOOLEAN : NoticeSatisfied(h, within) => dec = rd.prev]_vars
=============================================================================
