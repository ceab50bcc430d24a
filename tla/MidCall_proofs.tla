--------------------------- MODULE MidCall_proofs ---------------------------
(***************************************************************************)
(* For any number of switches, re-INVITEs, resumes, PeerConnections: the   *)
(* hold on video is lifted by somebody, a negotiation is reported once     *)
(* (Inv), and a replacement costs the call none of its media as long as    *)
(* nothing untimely happens to it (CalmKept).                              *)
(***************************************************************************)
EXTENDS MidCall, TLAPS

Kinds ==
  /\ switch \in [Gens -> SwitchAt] /\ sip \in [Sips -> SipAt]
  /\ pending \in Ids \cup {None} /\ claim \in Gens \cup {None}

(* Who covers the hold: not any attempt, but the one that has the claim. *)
HoldKept ==
  hold => pending \in Gens \/ terminal \/ (claim \in Gens /\ switch[claim] \in {"claimed", "release"})

Begun(i) == \/ i \in Gens /\ switch[i] \notin {"idle", "claimed"}
            \/ i \in Sips /\ sip[i] # "idle"

PendingBegun == pending \in Ids => Begun(pending)

(* A negotiation with a verdict is over, and does not begin again. *)
VerdictKept == \A i \in Ids : <<i, "ok">> \in verdicts \/ <<i, "timeout">> \in verdicts
                              => pending # i /\ Begun(i)

Inv == Kinds /\ HoldKept /\ PendingBegun /\ VerdictKept /\ VerdictOnce

what == <<switch, sip, pending, claim, hold, terminal, verdicts>>

LEMMA Names == None \notin Ids /\ None \notin Gens /\ Gens \cap Sips = {} /\ Gens \subseteq Ids /\ Sips \subseteq Ids
                /\ Ids = Gens \cup Sips
  BY NamesAssumption DEF Ids

(* A step that touches none of it keeps it. *)
LEMMA Untouched == ASSUME Inv, UNCHANGED what PROVE Inv'
<1>1. /\ switch' = switch /\ sip' = sip /\ pending' = pending /\ claim' = claim /\ hold' = hold
      /\ terminal' = terminal /\ verdicts' = verdicts
  BY DEF what
<1>2. Kinds' /\ HoldKept'
  BY <1>1 DEF Inv, Kinds, HoldKept
<1>3. PendingBegun' /\ VerdictKept' /\ VerdictOnce'
  BY <1>1 DEF Inv, PendingBegun, VerdictKept, VerdictOnce, Begun
<1>4. QED
  BY <1>2, <1>3 DEF Inv

LEMMA AbortCalm == ASSUME Abort PROVE UNCHANGED what
  BY DEF Abort, Restore, claims, what, signalling, attempts, AnswerGoes, ResumeGoes

LEMMA ClientAnswersCalm == ASSUME NEW i \in Ids, ClientAnswers(i) PROVE UNCHANGED what
  BY DEF ClientAnswers, what, signalling, claims, attempts, AnswerGoes, ResumeGoes

LEMMA AwaitCalm == ASSUME NEW i \in Ids, Await(i) PROVE UNCHANGED what
  BY DEF Await, what, signalling, claims, attempts, AnswerGoes, ResumeGoes

LEMMA TakePCCalm == ASSUME NEW i \in Ids, TakePC(i) PROVE UNCHANGED what
  BY DEF TakePC, what, signalling, claims, attempts, AnswerGoes, ResumeGoes

LEMMA ApplyOfferCalm == ASSUME NEW i \in Ids, ApplyOffer(i) PROVE UNCHANGED what
  BY DEF ApplyOffer, what, signalling, claims, attempts, AnswerGoes, ResumeGoes

LEMMA StartResumeCalm == ASSUME NEW r \in Resumes, StartResume(r) PROVE UNCHANGED what
  BY DEF StartResume, what, signalling, claims, attempts, AnswerGoes, ResumeGoes

LEMMA SwapCalm == ASSUME NEW r \in Resumes, Swap(r) PROVE UNCHANGED what
  BY DEF Swap, what, signalling, claims, attempts, AnswerGoes, ResumeGoes

LEMMA ResumeCreatesCalm == ASSUME NEW r \in Resumes, ResumeCreates(r) PROVE UNCHANGED what
  BY DEF ResumeCreates, what, signalling, claims, attempts, AnswerGoes, ResumeGoes

LEMMA ResumeInstallsCalm == ASSUME NEW r \in Resumes, ResumeInstalls(r) PROVE UNCHANGED what
  BY DEF ResumeInstalls, what, signalling, claims, attempts, AnswerGoes, ResumeGoes

LEMMA ResumedCalm == ASSUME NEW r \in Resumes, Resumed(r) PROVE UNCHANGED what
  BY DEF Resumed, what, signalling, claims, attempts, AnswerGoes, ResumeGoes

LEMMA ConnectsCalm == ASSUME NEW p \in PCs, Connects(p) PROVE UNCHANGED what
  BY DEF Connects, what, signalling, claims, attempts, AnswerGoes, ResumeGoes

LEMMA LosesCalm == ASSUME NEW p \in PCs, Loses(p) PROVE UNCHANGED what
  BY DEF Loses, what, signalling, claims, attempts, AnswerGoes, ResumeGoes

LEMMA FailsIceCalm == ASSUME NEW p \in PCs, FailsIce(p) PROVE UNCHANGED what
  BY DEF FailsIce, what, signalling, claims, attempts, AnswerGoes, ResumeGoes

LEMMA OnConnectedCalm == ASSUME NEW p \in PCs, OnConnected(p) PROVE UNCHANGED what
  BY DEF OnConnected, what, signalling, claims, attempts, AnswerGoes, ResumeGoes

LEMMA CommitCalm == ASSUME NEW p \in PCs, Commit(p) PROVE UNCHANGED what
  BY DEF Commit, what, signalling, claims, attempts, AnswerGoes, ResumeGoes

LEMMA OnFailedCalm == ASSUME NEW p \in PCs, OnFailed(p) PROVE UNCHANGED what
  BY DEF OnFailed, Restore, claims, what, signalling, attempts, AnswerGoes, ResumeGoes

LEMMA GraceOverCalm == ASSUME GraceOver PROVE UNCHANGED what
  BY DEF GraceOver, what, signalling, claims, attempts, AnswerGoes, ResumeGoes

LEMMA AnsweredCalm == ASSUME Answered PROVE UNCHANGED what
  BY DEF Answered, what, signalling, claims, attempts, AnswerGoes, ResumeGoes

LEMMA EndsCalm == ASSUME Ends PROVE UNCHANGED what
  BY DEF Ends, what, signalling, claims, attempts, AnswerGoes, ResumeGoes

LEMMA DeleteCalm == ASSUME Delete PROVE UNCHANGED what
  BY DEF Delete, what, signalling, claims, attempts, AnswerGoes, ResumeGoes

(* A step that begins nothing: at most it settles what is pending, and a hold
   it leaves is covered as before. *)
LEMMA Advance ==
  ASSUME Inv, Kinds', pending' \in {pending, None}, terminal => terminal',
         hold' => \/ terminal'
                  \/ /\ hold /\ (pending' = pending \/ pending \notin Gens)
                     /\ claim \in Gens /\ switch[claim] \in {"claimed", "release"}
                          => claim' = claim /\ switch'[claim] \in {"claimed", "release"},
         \A i \in Ids : Begun(i) => Begun(i)',
         \/ verdicts' = verdicts
         \/ \E i \in Ids, v \in {"ok", "timeout"} :
              pending = i /\ pending' = None /\ verdicts' = verdicts \cup {<<i, v>>}
  PROVE  Inv'
<1>1. HoldKept'
  <2>1. HoldKept
    BY DEF Inv
  <2>2. QED
    BY <2>1, Names DEF HoldKept
<1>2. PendingBegun'
  <2>1. PendingBegun
    BY DEF Inv
  <2>2. QED
    BY <2>1, Names DEF PendingBegun
<1>3. CASE verdicts' = verdicts
  <2>1. VerdictKept /\ VerdictOnce
    BY DEF Inv
  <2>2. VerdictKept'
    BY <1>3, <2>1, Names DEF VerdictKept
  <2>3. VerdictOnce'
    BY <1>3, <2>1 DEF VerdictOnce
  <2>4. QED
    BY <1>1, <1>2, <2>2, <2>3 DEF Inv
<1>4. ASSUME NEW i \in Ids, NEW v \in {"ok", "timeout"}, pending = i, pending' = None,
             verdicts' = verdicts \cup {<<i, v>>}
      PROVE  Inv'
  <2>1. VerdictKept /\ VerdictOnce /\ PendingBegun
    BY DEF Inv
  <2>2. <<i, "ok">> \notin verdicts /\ <<i, "timeout">> \notin verdicts
    BY <1>4, <2>1 DEF VerdictKept
  <2>3. Begun(i)'
    BY <1>4, <2>1 DEF PendingBegun
  <2>4. ASSUME NEW j \in Ids, <<j, "ok">> \in verdicts' \/ <<j, "timeout">> \in verdicts'
        PROVE  pending' # j /\ Begun(j)'
    <3>1. CASE j = i
      BY <1>4, <2>3, <3>1, Names
    <3>2. CASE j # i
      <4>1. <<j, "ok">> \in verdicts \/ <<j, "timeout">> \in verdicts
        BY <1>4, <2>4, <3>2
      <4>2. Begun(j)
        BY <2>1, <4>1 DEF VerdictKept
      <4>3. QED
        BY <1>4, <4>2, Names
    <3>3. QED
      BY <3>1, <3>2
  <2>5. VerdictKept'
    BY <2>4 DEF VerdictKept
  <2>6. VerdictOnce'
    <3>1. SUFFICES ASSUME NEW j \in Ids, <<j, "ok">> \in verdicts', <<j, "timeout">> \in verdicts'
                   PROVE  FALSE
      BY DEF VerdictOnce
    <3>2. CASE j = i
      BY <1>4, <2>2, <3>1, <3>2
    <3>3. CASE j # i
      BY <1>4, <2>1, <3>1, <3>3 DEF VerdictOnce
    <3>4. QED
      BY <3>2, <3>3
  <2>7. QED
    BY <1>1, <1>2, <2>5, <2>6 DEF Inv
<1>5. QED
  BY <1>3, <1>4

(* An attempt goes on from where it has begun. *)
LEMMA Later ==
  ASSUME Kinds, NEW g \in Gens, NEW a \in SwitchAt \ {"idle", "claimed", "release"},
         NEW b \in SwitchAt \ {"idle", "claimed", "release"}, SwitchGoes(g, a, b), UNCHANGED sip
  PROVE  /\ switch' \in [Gens -> SwitchAt]
         /\ \A i \in Ids : Begun(i) => Begun(i)'
         /\ \A h \in Gens : switch[h] \in {"claimed", "release"} => switch'[h] = switch[h]
  BY Names DEF Kinds, SwitchGoes, Begun

LEMMA SipLater ==
  ASSUME Kinds, NEW r \in Sips, NEW b \in SipAt \ {"idle"}, sip' = [sip EXCEPT ![r] = b], UNCHANGED switch
  PROVE  /\ sip' \in [Sips -> SipAt]
         /\ \A i \in Ids : Begun(i) => Begun(i)'
  BY Names DEF Kinds, Begun

LEMMA Still == ASSUME UNCHANGED <<switch, sip>> PROVE \A i \in Ids : Begun(i) => Begun(i)'
  BY DEF Begun

(* Failing settles the negotiation, and only a switch lifts the hold. *)
LEMMA Clearing ==
  ASSUME NEW i \in Ids, Clear(i), pending = i
  PROVE  hold' => hold /\ pending \notin Gens
<1>1. hold' = (hold /\ i \notin Gens)
  BY DEF Clear
<1>2. SUFFICES ASSUME hold' PROVE hold /\ i \notin Gens
  OBVIOUS
<1>3. QED
  BY <1>1, <1>2, Zenon

LEMMA Failing ==
  ASSUME NEW i \in Ids, Fail(i)
  PROVE  /\ pending' \in {pending, None} /\ claim' = claim
         /\ hold' => hold /\ (pending' = pending \/ pending \notin Gens)
<1>1. CASE pending = i /\ Clear(i)
  <2>1. pending' = None /\ claim' = claim
    BY <1>1 DEF Clear
  <2>2. hold' => hold /\ pending \notin Gens
    BY <1>1, Clearing
  <2>3. QED
    BY <2>1, <2>2
<1>2. CASE UNCHANGED <<pending, claims>>
  BY <1>2 DEF claims
<1>3. QED
  BY <1>1, <1>2 DEF Fail

LEMMA Completing ==
  ASSUME NEW i \in Ids, Complete(i)
  PROVE  /\ pending = i /\ pending' = None /\ claim' = claim
         /\ hold' => hold /\ pending \notin Gens
<1>1. pending = i /\ pending' = None /\ claim' = claim /\ Clear(i)
  BY DEF Complete, Clear
<1>2. QED
  BY <1>1, Clearing

LEMMA SwitchSteps ==
  ASSUME Inv, NEW g \in Gens, Notify(g) \/ ReadOld(g) \/ Park(g) \/ Install(g) \/ PrepareFails(g)
  PROVE  Inv'
<1>1. Kinds
  BY DEF Inv
<1>2. g \in Ids
  BY Names
<1>3. ASSUME Notify(g) \/ ReadOld(g) \/ Park(g) \/ Install(g)
      PROVE  /\ UNCHANGED <<sip, pending, claim, hold, terminal, verdicts>>
             /\ \E a, b \in SwitchAt \ {"idle", "claimed", "release"} : SwitchGoes(g, a, b)
  BY <1>3 DEF Notify, ReadOld, Park, Install, signalling, claims, SwitchAt
<1>4. ASSUME PrepareFails(g)
      PROVE  /\ UNCHANGED <<sip, terminal, verdicts>> /\ Fail(g)
             /\ \E a, b \in SwitchAt \ {"idle", "claimed", "release"} : SwitchGoes(g, a, b)
  BY <1>4 DEF PrepareFails, signalling, SwitchAt
<1>5. /\ UNCHANGED <<sip, terminal, verdicts>>
      /\ pending' \in {pending, None} /\ claim' = claim
      /\ hold' => hold /\ (pending' = pending \/ pending \notin Gens)
      /\ \E a, b \in SwitchAt \ {"idle", "claimed", "release"} : SwitchGoes(g, a, b)
  BY <1>2, <1>3, <1>4, Failing
<1>6. /\ switch' \in [Gens -> SwitchAt]
      /\ \A i \in Ids : Begun(i) => Begun(i)'
      /\ \A h \in Gens : switch[h] \in {"claimed", "release"} => switch'[h] = switch[h]
  BY <1>1, <1>5, Later
<1>7. Kinds'
  BY <1>1, <1>5, <1>6 DEF Kinds
<1>8. QED
  BY <1>5, <1>6, <1>7, Advance

LEMMA ReleaseStep == ASSUME Inv, NEW g \in Gens, Release(g) \/ Failed(g) PROVE Inv'
<1>1. Kinds
  BY DEF Inv
<1>2. /\ UNCHANGED <<sip, pending, terminal, verdicts>>
      /\ Unclaim(g) /\ switch[g] \in {"release", "fail"} /\ switch' = [switch EXCEPT ![g] = "done"]
  BY DEF Release, Failed, SwitchGoes, signalling
<1>3. \/ claim = g /\ claim' = None /\ hold' = FALSE
      \/ claim # g /\ claim' = claim /\ hold' = hold
  BY <1>2 DEF Unclaim, claims
<1>4. switch' \in [Gens -> SwitchAt] /\ switch'[g] = "done" /\ \A h \in Gens \ {g} : switch'[h] = switch[h]
  BY <1>1, <1>2 DEF Kinds, SwitchAt
<1>5. Kinds'
  BY <1>1, <1>2, <1>3, <1>4 DEF Kinds
<1>6. \A i \in Ids : Begun(i) => Begun(i)'
  BY <1>2, <1>4, Names DEF Begun
<1>7. QED
  BY <1>2, <1>3, <1>4, <1>5, <1>6, Advance

LEMMA SipSteps == ASSUME Inv, NEW r \in Sips, Refuse(r) \/ Accept(r) \/ Respond(r) PROVE Inv'
<1>1. Kinds
  BY DEF Inv
<1>2. r \in Ids /\ r \notin Gens
  BY Names
<1>3. ASSUME Refuse(r)
      PROVE  UNCHANGED <<switch, terminal, verdicts>> /\ Fail(r) /\ sip' = [sip EXCEPT ![r] = "done"]
  BY <1>3 DEF Refuse, signalling, attempts
<1>4. ASSUME Accept(r)
      PROVE  /\ UNCHANGED <<switch, terminal, verdicts, pending, claim, hold>>
             /\ \E b \in {"respond", "client"} : sip' = [sip EXCEPT ![r] = b]
  BY <1>4 DEF Accept, SipGoes, signalling, attempts, claims
<1>5. ASSUME Respond(r)
      PROVE  /\ UNCHANGED <<switch, terminal, verdicts>> /\ sip' = [sip EXCEPT ![r] = "done"]
             /\ Complete(r) \/ UNCHANGED <<pending, claim, hold>>
  BY <1>5 DEF Respond, SipGoes, signalling, attempts, claims
<1>6. /\ UNCHANGED <<switch, terminal, verdicts>>
      /\ \E b \in SipAt \ {"idle"} : sip' = [sip EXCEPT ![r] = b]
      /\ pending' \in {pending, None} /\ claim' = claim
      /\ hold' => hold /\ (pending' = pending \/ pending \notin Gens)
  <2>1. CASE Refuse(r)
    BY <1>2, <1>3, <2>1, Failing DEF SipAt
  <2>2. CASE Accept(r)
    BY <1>4, <2>2 DEF SipAt
  <2>3. CASE Respond(r)
    BY <1>2, <1>5, <2>3, Completing DEF SipAt
  <2>4. QED
    BY <2>1, <2>2, <2>3
<1>7. /\ sip' \in [Sips -> SipAt]
      /\ \A i \in Ids : Begun(i) => Begun(i)'
  BY <1>1, <1>6, SipLater
<1>8. Kinds'
  BY <1>1, <1>6, <1>7 DEF Kinds
<1>9. QED
  BY <1>6, <1>7, <1>8, Advance

LEMMA AnswerSteps ==
  ASSUME Inv, NEW i \in Ids, ClientFails(i) \/ AnswerError(i) \/ AnswerOk(i) \/ Timeout(i) PROVE Inv'
<1>1. Kinds
  BY DEF Inv
<1>2. ASSUME ClientFails(i) \/ AnswerError(i)
      PROVE  UNCHANGED <<switch, sip, terminal, verdicts>> /\ Fail(i)
  BY <1>2 DEF ClientFails, AnswerError, signalling, attempts
<1>3. ASSUME AnswerOk(i)
      PROVE  /\ UNCHANGED <<switch, sip, terminal>>
             /\ \/ Complete(i) /\ verdicts' = verdicts \cup {<<i, "ok">>}
                \/ UNCHANGED <<pending, claim, hold, verdicts>>
  BY <1>3 DEF AnswerOk, Tell, signalling, attempts, claims
<1>4. ASSUME Timeout(i)
      PROVE  /\ UNCHANGED <<switch, sip, terminal>>
             /\ \/ pending = i /\ Fail(i) /\ verdicts' = verdicts \cup {<<i, "timeout">>}
                \/ UNCHANGED <<pending, claim, hold, verdicts>>
  BY <1>4 DEF Timeout, Tell, signalling, attempts, claims
<1>5. pending = i /\ Fail(i) => pending' = None
  BY DEF Fail, Clear
<1>6. /\ UNCHANGED <<switch, sip, terminal>>
      /\ pending' \in {pending, None} /\ claim' = claim
      /\ hold' => hold /\ (pending' = pending \/ pending \notin Gens)
  BY <1>2, <1>3, <1>4, Failing, Completing
<1>7. \/ verdicts' = verdicts
      \/ \E v \in {"ok", "timeout"} :
            pending = i /\ pending' = None /\ verdicts' = verdicts \cup {<<i, v>>}
  BY <1>2, <1>3, <1>4, <1>5, Completing
<1>8. Kinds'
  BY <1>1, <1>6 DEF Kinds
<1>9. \A j \in Ids : Begun(j) => Begun(j)'
  BY <1>6, Still
<1>10. QED
  BY <1>6, <1>7, <1>8, <1>9, Advance

LEMMA HangupStep == ASSUME Inv, Hangup PROVE Inv'
<1>1. /\ UNCHANGED <<switch, sip, claim, hold, verdicts>> /\ pending' = None /\ terminal' = TRUE
  BY DEF Hangup, attempts, claims
<1>2. Kinds'
  BY <1>1 DEF Inv, Kinds
<1>3. \A j \in Ids : Begun(j) => Begun(j)'
  BY <1>1, Still
<1>4. QED
  BY <1>1, <1>2, <1>3, Advance

(* The steps that begin something. *)
LEMMA ClaimStep == ASSUME Inv, NEW g \in Gens, Claim(g) PROVE Inv'
<1>1. Kinds /\ HoldKept
  BY DEF Inv
<1>2. UNCHANGED <<sip, pending, terminal, verdicts>> /\ switch[g] = "idle"
  BY DEF Claim, SwitchGoes, signalling
<1>3. CASE switch' = [switch EXCEPT ![g] = "claimed"] /\ claim' = g
  <2>1. switch' \in [Gens -> SwitchAt] /\ switch'[g] = "claimed" /\ \A h \in Gens \ {g} : switch'[h] = switch[h]
    BY <1>1, <1>3 DEF Kinds, SwitchAt
  <2>2. Kinds' /\ HoldKept'
    BY <1>1, <1>2, <1>3, <2>1 DEF Kinds, HoldKept
  <2>3. \A j \in Ids : Begun(j) => Begun(j)'
    BY <1>2, <2>1, Names DEF Begun
  <2>4. PendingBegun' /\ VerdictKept' /\ VerdictOnce'
    BY <1>2, <2>3 DEF Inv, PendingBegun, VerdictKept, VerdictOnce
  <2>5. QED
    BY <2>2, <2>4 DEF Inv
<1>4. CASE switch' = [switch EXCEPT ![g] = "done"] /\ UNCHANGED <<claim, hold>>
  <2>1. switch' \in [Gens -> SwitchAt] /\ switch'[g] = "done" /\ \A h \in Gens \ {g} : switch'[h] = switch[h]
    BY <1>1, <1>4 DEF Kinds, SwitchAt
  <2>2. Kinds'
    BY <1>1, <1>2, <1>4, <2>1 DEF Kinds
  <2>3. \A j \in Ids : Begun(j) => Begun(j)'
    BY <1>2, <2>1, Names DEF Begun
  <2>4. claim \in Gens /\ switch[claim] \in {"claimed", "release"} => switch'[claim] \in {"claimed", "release"}
    BY <1>2, <2>1
  <2>5. QED
    BY <1>2, <1>4, <2>2, <2>3, <2>4, Advance
<1>5. QED
  BY <1>3, <1>4 DEF Claim, SwitchGoes, claims

LEMMA BeginStep == ASSUME Inv, NEW g \in Gens, Begin(g) PROVE Inv'
<1>1. Kinds /\ HoldKept /\ PendingBegun /\ VerdictKept /\ VerdictOnce
  BY DEF Inv
<1>2. UNCHANGED <<sip, claim, hold, terminal, verdicts>> /\ switch[g] = "claimed"
  BY DEF Begin, SwitchGoes, signalling, claims
<1>3. ~Begun(g) /\ g \in Ids
  BY <1>2, Names DEF Begun
<1>4. CASE pending' = g /\ switch' = [switch EXCEPT ![g] = "notify"]
  <2>1. switch' \in [Gens -> SwitchAt] /\ switch'[g] = "notify" /\ \A h \in Gens \ {g} : switch'[h] = switch[h]
    BY <1>1, <1>4 DEF Kinds, SwitchAt
  <2>2. Kinds' /\ HoldKept'
    BY <1>1, <1>2, <1>3, <1>4, <2>1 DEF Kinds, HoldKept
  <2>3. \A j \in Ids : Begun(j) => Begun(j)'
    BY <1>2, <2>1, Names DEF Begun
  <2>4. Begun(g)'
    BY <2>1 DEF Begun
  <2>5. PendingBegun' /\ VerdictOnce'
    BY <1>1, <1>2, <1>4, <2>4 DEF PendingBegun, VerdictOnce
  <2>6. VerdictKept'
    BY <1>1, <1>2, <1>3, <1>4, <2>3 DEF VerdictKept
  <2>7. QED
    BY <2>2, <2>5, <2>6 DEF Inv
<1>5. CASE pending' = pending /\ switch' = [switch EXCEPT ![g] = "release"]
  <2>1. switch' \in [Gens -> SwitchAt] /\ switch'[g] = "release" /\ \A h \in Gens \ {g} : switch'[h] = switch[h]
    BY <1>1, <1>5 DEF Kinds, SwitchAt
  <2>2. Kinds'
    BY <1>1, <1>2, <1>5, <2>1 DEF Kinds
  <2>3. \A j \in Ids : Begun(j) => Begun(j)'
    BY <1>2, <2>1, Names DEF Begun
  <2>4. claim \in Gens /\ switch[claim] \in {"claimed", "release"} => switch'[claim] \in {"claimed", "release"}
    BY <2>1
  <2>5. QED
    BY <1>2, <1>5, <2>2, <2>3, <2>4, Advance
<1>6. QED
  BY <1>4, <1>5 DEF Begin, SwitchGoes

LEMMA ReinviteStep == ASSUME Inv, NEW r \in Sips, Reinvite(r) PROVE Inv'
<1>1. Kinds /\ HoldKept /\ PendingBegun /\ VerdictKept /\ VerdictOnce
  BY DEF Inv
<1>2. UNCHANGED <<switch, claim, hold, terminal, verdicts>> /\ sip[r] = "idle"
  BY DEF Reinvite, SipGoes, signalling, claims, attempts
<1>3. ~Begun(r) /\ r \in Ids /\ r \notin Gens
  BY <1>2, Names DEF Begun
<1>4. \/ MayBegin /\ pending' = r /\ sip' = [sip EXCEPT ![r] = "validate"]
      \/ pending' = pending /\ sip' = [sip EXCEPT ![r] = "done"]
  BY DEF Reinvite, SipGoes
<1>5. sip' \in [Sips -> SipAt] /\ \A i \in Ids : Begun(i) => Begun(i)'
  BY <1>1, <1>2, <1>4, SipLater DEF SipAt
<1>6. Kinds'
  BY <1>1, <1>2, <1>3, <1>4, <1>5 DEF Kinds
<1>7. CASE MayBegin /\ pending' = r /\ sip' = [sip EXCEPT ![r] = "validate"]
  <2>1. HoldKept'
    BY <1>1, <1>2, <1>7, Names DEF HoldKept, MayBegin
  <2>2. Begun(r)'
    BY <1>1, <1>7 DEF Begun, Kinds
  <2>3. PendingBegun' /\ VerdictOnce'
    BY <1>1, <1>2, <1>7, <2>2 DEF PendingBegun, VerdictOnce
  <2>4. VerdictKept'
    BY <1>1, <1>2, <1>3, <1>5, <1>7 DEF VerdictKept
  <2>5. QED
    BY <1>6, <2>1, <2>3, <2>4 DEF Inv
<1>8. CASE pending' = pending
  BY <1>2, <1>5, <1>6, <1>8, Advance
<1>9. QED
  BY <1>4, <1>7, <1>8

LEMMA InitInv == Init => Inv
  BY Names DEF Init, Inv, Kinds, HoldKept, PendingBegun, VerdictKept, VerdictOnce, SwitchAt, SipAt

LEMMA NextInv == Inv /\ [Next]_vars => Inv'
<1>1. SUFFICES ASSUME Inv, [Next]_vars PROVE Inv'
  OBVIOUS
<1>2. CASE UNCHANGED vars
  <2>1. UNCHANGED what
    BY <1>2 DEF vars, what, signalling, claims, attempts
  <2>2. QED
    BY <1>1, <2>1, Untouched
<1>3. ASSUME NEW g \in Gens, Claim(g) \/ SwitchStep(g) PROVE Inv'
  BY <1>1, <1>3, ClaimStep, BeginStep, ReleaseStep, SwitchSteps DEF SwitchStep
<1>4. ASSUME NEW r \in Sips, Reinvite(r) \/ SipStep(r) PROVE Inv'
  BY <1>1, <1>4, ReinviteStep, SipSteps DEF SipStep
<1>5. ASSUME NEW i \in Ids, ClientFails(i) \/ ClientAnswers(i) \/ AnswerStep(i) \/ Timeout(i) PROVE Inv'
  <2>1. CASE ClientFails(i) \/ AnswerError(i) \/ AnswerOk(i) \/ Timeout(i)
    BY <1>1, <2>1, AnswerSteps
  <2>2. CASE ClientAnswers(i) \/ Await(i) \/ TakePC(i) \/ ApplyOffer(i)
    <3>1. UNCHANGED what
      BY <2>2, ClientAnswersCalm, AwaitCalm, TakePCCalm, ApplyOfferCalm
    <3>2. QED
      BY <1>1, <3>1, Untouched
  <2>3. QED
    BY <1>5, <2>1, <2>2 DEF AnswerStep
<1>6. ASSUME NEW r \in Resumes, StartResume(r) \/ ResumeStep(r) PROVE Inv'
  <2>1. UNCHANGED what
    BY <1>6, StartResumeCalm, SwapCalm, ResumeCreatesCalm, ResumeInstallsCalm, ResumedCalm DEF ResumeStep
  <2>2. QED
    BY <1>1, <2>1, Untouched
<1>7. ASSUME NEW p \in PCs, Loses(p) \/ IceStep(p) PROVE Inv'
  <2>1. UNCHANGED what
    BY <1>7, LosesCalm, ConnectsCalm, FailsIceCalm, OnConnectedCalm, CommitCalm, OnFailedCalm DEF IceStep
  <2>2. QED
    BY <1>1, <2>1, Untouched
<1>8. ASSUME Abort \/ GraceOver \/ Answered \/ Ends \/ Delete PROVE Inv'
  <2>1. UNCHANGED what
    BY <1>8, AbortCalm, GraceOverCalm, AnsweredCalm, EndsCalm, DeleteCalm
  <2>2. QED
    BY <1>1, <2>1, Untouched
<1>9. QED
  BY <1>1, <1>2, <1>3, <1>4, <1>5, <1>6, <1>7, <1>8, HangupStep DEF Next

(* What the verdicts and the hold rest on is always so: who has the claim,
   which negotiation is pending and which have begun. *)
THEOREM Invariance == Spec => []Inv
  BY InitInv, NextInv, PTL DEF Spec

(* A hold on video always has somebody who will lift it. *)
THEOREM HoldIsCovered == Spec => []HoldCovered
<1>1. Inv => HoldCovered
  BY DEF Inv, HoldKept, HoldCovered
<1>2. QED
  BY Invariance, <1>1, PTL

(* However the client's answer and the timer race, it is told one of the two. *)
THEOREM OneVerdict == Spec => []VerdictOnce
<1>1. Inv => VerdictOnce
  BY DEF Inv
<1>2. QED
  BY Invariance, <1>1, PTL

-----------------------------------------------------------------------------
(* What a handover rests on while nothing untimely happens (Calm). *)

Busy(g) == switch[g] \notin {"idle", "done"}
Undecided(g) == (pending = g /\ answer[g] # "complete") \/ answer[g] \in {"check", "wait", "take", "apply", "error"}

(* Grace periods are those of losses. *)
Counted == graces <= losses

(* No resume and no loss. *)
NoEvents ==
  /\ \A r \in Resumes : resume[r] = "idle" /\ new[r] = None
  /\ \A p \in PCs : ice[p] # "lost"

(* Nothing is negotiated when the call is being hung up, and a client is asked
   for an offer by a switch only. *)
OverNoMore == terminal => pending = None
SipAnswers == \A r \in Sips : answer[r] \in {"none", "asked", "complete", "done"}

(* An attempt that has not begun has not asked, ... *)
NotBegun == \A g \in Gens : switch[g] = "idle" => answer[g] = "none" /\ pending # g

(* ... and begins when the one before has been decided. *)
OneSwitch == \A g, h \in Gens : (Busy(g) \/ Undecided(g)) /\ (Busy(h) \/ Undecided(h)) => g = h

(* While an attempt is at work nobody undoes it, and its client waits. *)
AtWork == \A g \in Gens : Busy(g) =>
  /\ switch[g] # "fail" /\ callbacks = {} /\ aborts = 0
  /\ pending \in {None, g} /\ answer[g] \in {"none", "asked", "check", "wait", "done"}
  /\ switch[g] \in {"claimed", "release"} => pending = None /\ answer[g] = "none"
  /\ switch[g] # "release" => hold /\ ~ready
  /\ deleted => pc = None
  /\ pc # None => ice[pc] = "connected"
  /\ switch[g] # "store" => legacy = None
  /\ switch[g] = "create" => IF deleted THEN old[g] = None \/ ice[old[g]] # "unused" ELSE old[g] = pc
  /\ switch[g] = "store" => deleted \/ legacy = pc

(* The replacement, before it is installed. *)
Replacing == \A g \in Gens :
  /\ switch[g] # "store" => new[g] = None
  /\ switch[g] = "store" => /\ new[g] \in PCs /\ ice[new[g]] = "new"
                            /\ new[g] \notin {pc, legacy} /\ video = new[g]

Known ==
  \A p \in PCs : ice[p] \in {"unused", "closed", "failed"} \/ p \in {pc, legacy}
                 \/ \E g \in Gens : new[g] = p /\ switch[g] = "store"

Tracks == pc # None /\ (\A g \in Gens : switch[g] # "store") => video = pc

(* The connection of the call: in use, or parked beside its replacement. *)
Connected == ~deleted =>
  /\ pc # None /\ ice[pc] \notin {"unused", "closed"}
  /\ legacy \in {None, pc} => ice[pc] = "connected"
  /\ legacy \notin {None, pc} => ice[legacy] = "connected"

(* Until the client's answer is in, the replacement has not been touched. *)
Fresh == \A g \in Gens : Undecided(g) =>
  /\ pending = g \/ terminal
  /\ Busy(g) \/ /\ switch[g] = "done" /\ callbacks = {} /\ aborts = 0
                /\ pc # None => ice[pc] = "new"
                /\ ~deleted => legacy # None

Applied == \A i \in Ids : onto[i] # None =>
  /\ i \in Gens /\ answer[i] = "apply"
  /\ ice[onto[i]] \in {"new", "closed"} /\ (~deleted => onto[i] = pc)

Reported == \A p \in PCs : <<p, "connected">> \in callbacks \/ <<p, "commit">> \in callbacks
                           => ice[p] \in {"connected", "closed"}

HandoverInv ==
  /\ NoEvents /\ OverNoMore /\ SipAnswers /\ NotBegun /\ OneSwitch /\ AtWork /\ Replacing /\ Known
  /\ Tracks /\ Connected /\ Fresh /\ Applied /\ Reported
CalmKept == Calm => HandoverInv

-----------------------------------------------------------------------------
(* Types *)

(* Every step keeps the types. *)
LEMMA TypeStep ==
  ASSUME TypeOK, Counted, [Next]_vars
  PROVE  TypeOK' /\ Counted'
<1> USE Names, NamesAssumption, WorldsAssumption
       DEF signalling, claims, conns, attempts
<1>1. ASSUME NEW g \in Gens, Claim(g) PROVE TypeOK' /\ Counted'
  BY <1>1, ZenonT(90) DEF TypeOK, Counted, States, IceAt, SwitchAt, SipAt, ResumeAt, AnswerAt, Claim,
      MayBegin, SwitchGoes, NoNegotiation, NoAttempt, May
<1>2. ASSUME NEW g \in Gens, Begin(g) PROVE TypeOK' /\ Counted'
  BY <1>2 DEF TypeOK, Counted, States, IceAt, SwitchAt, SipAt, ResumeAt, AnswerAt, Begin,
      SwitchGoes, MayBegin
<1>3. ASSUME NEW g \in Gens, Release(g) PROVE TypeOK' /\ Counted'
  <2>1. terminal' \in BOOLEAN /\ deleted' \in BOOLEAN /\ answered' \in BOOLEAN /\ world' = world
    BY <1>3 DEF TypeOK, Release, SwitchGoes, Unclaim, signalling, claims, conns, attempts
  <2>2. hold' \in BOOLEAN
    BY <1>3 DEF TypeOK, Release, SwitchGoes, Unclaim, signalling, claims, conns, attempts
  <2>3. ready' \in BOOLEAN
    BY <1>3 DEF TypeOK, Release, SwitchGoes, Unclaim, signalling, claims, conns, attempts
  <2>4. /\ switch' \in [Gens -> SwitchAt] /\ sip' \in [Sips -> SipAt] /\ resume' \in [Resumes -> ResumeAt]
        /\ answer' \in [Ids -> AnswerAt]
    BY <1>3 DEF TypeOK, SwitchAt, SipAt, ResumeAt, AnswerAt, Release, SwitchGoes, Unclaim, signalling, claims, conns, attempts
  <2>5. /\ state' \in States /\ pending' \in Ids \cup {None} /\ claim' \in Gens \cup {None}
        /\ losses' = losses /\ graces' = graces /\ timers' \subseteq Ids /\ was' \subseteq Resumes
    BY <1>3 DEF TypeOK, States, Release, SwitchGoes, Unclaim, signalling, claims, conns, attempts
  <2>6. aborts' \in Nat
    BY <1>3 DEF TypeOK, Release, SwitchGoes, Unclaim, signalling, claims, conns, attempts
  <2>7. verdicts' \subseteq Ids \X {"ok", "timeout"} /\ callbacks' = callbacks
    BY <1>3 DEF TypeOK, Release, SwitchGoes, Unclaim, signalling, claims, conns, attempts
  <2>8. /\ pc' \in PCs \cup {None} /\ legacy' \in PCs \cup {None} /\ video' \in PCs
        /\ ice' \in [PCs -> IceAt]
    BY <1>3 DEF TypeOK, IceAt, Release, SwitchGoes, Unclaim, signalling, claims, conns, attempts
  <2>9. /\ old' \in [Gens -> PCs \cup {None}] /\ new' \in [Gens \cup Resumes -> PCs \cup {None}]
        /\ onto' \in [Ids -> PCs \cup {None}]
    BY <1>3 DEF TypeOK, Release, SwitchGoes, Unclaim, signalling, claims, conns, attempts
  <2> QED
    BY <2>1, <2>2, <2>3, <2>4, <2>5, <2>6, <2>7, <2>8, <2>9 DEF TypeOK, Counted
<1>4. ASSUME NEW g \in Gens, Notify(g) PROVE TypeOK' /\ Counted'
  BY <1>4 DEF TypeOK, Counted, States, IceAt, SwitchAt, SipAt, ResumeAt, AnswerAt, Notify,
      SwitchGoes, Ask
<1>5. ASSUME NEW g \in Gens, ReadOld(g) PROVE TypeOK' /\ Counted'
  BY <1>5 DEF TypeOK, Counted, States, IceAt, SwitchAt, SipAt, ResumeAt, AnswerAt, ReadOld,
      SwitchGoes
<1>6. ASSUME NEW g \in Gens, Park(g) PROVE TypeOK' /\ Counted'
  BY <1>6 DEF TypeOK, Counted, States, IceAt, SwitchAt, SipAt, ResumeAt, AnswerAt, Park,
      SwitchGoes, Create, Becomes
<1>7. ASSUME NEW g \in Gens, Install(g) PROVE TypeOK' /\ Counted'
  BY <1>7 DEF TypeOK, Counted, States, IceAt, SwitchAt, SipAt, ResumeAt, AnswerAt, Install,
      SwitchGoes
<1>8. ASSUME NEW g \in Gens, PrepareFails(g) PROVE TypeOK' /\ Counted'
  <2>1. terminal' \in BOOLEAN /\ deleted' \in BOOLEAN /\ answered' \in BOOLEAN /\ world' = world
    BY <1>8 DEF TypeOK, PrepareFails, May, SwitchGoes, Fail, Clear, signalling, claims, conns, attempts
  <2>2. hold' \in BOOLEAN
    BY <1>8 DEF TypeOK, PrepareFails, May, SwitchGoes, Fail, Clear, signalling, claims, conns, attempts
  <2>3. ready' \in BOOLEAN
    BY <1>8 DEF TypeOK, PrepareFails, May, SwitchGoes, Fail, Clear, signalling, claims, conns, attempts
  <2>4. /\ switch' \in [Gens -> SwitchAt] /\ sip' \in [Sips -> SipAt] /\ resume' \in [Resumes -> ResumeAt]
        /\ answer' \in [Ids -> AnswerAt]
    BY <1>8 DEF TypeOK, SwitchAt, SipAt, ResumeAt, AnswerAt, PrepareFails, May, SwitchGoes, Fail, Clear, signalling, claims, conns, attempts
  <2>5. /\ state' \in States /\ pending' \in Ids \cup {None} /\ claim' \in Gens \cup {None}
        /\ losses' = losses /\ graces' = graces /\ timers' \subseteq Ids /\ was' \subseteq Resumes
    BY <1>8 DEF TypeOK, States, PrepareFails, May, SwitchGoes, Fail, Clear, signalling, claims, conns, attempts
  <2>6. aborts' \in Nat
    BY <1>8 DEF TypeOK, PrepareFails, May, SwitchGoes, Fail, Clear, signalling, claims, conns, attempts
  <2>7. verdicts' \subseteq Ids \X {"ok", "timeout"} /\ callbacks' = callbacks
    BY <1>8 DEF TypeOK, PrepareFails, May, SwitchGoes, Fail, Clear, signalling, claims, conns, attempts
  <2>8. /\ pc' \in PCs \cup {None} /\ legacy' \in PCs \cup {None} /\ video' \in PCs
        /\ ice' \in [PCs -> IceAt]
    BY <1>8 DEF TypeOK, IceAt, PrepareFails, May, SwitchGoes, Fail, Clear, signalling, claims, conns, attempts
  <2>9. /\ old' \in [Gens -> PCs \cup {None}] /\ new' \in [Gens \cup Resumes -> PCs \cup {None}]
        /\ onto' \in [Ids -> PCs \cup {None}]
    BY <1>8 DEF TypeOK, PrepareFails, May, SwitchGoes, Fail, Clear, signalling, claims, conns, attempts
  <2> QED
    BY <2>1, <2>2, <2>3, <2>4, <2>5, <2>6, <2>7, <2>8, <2>9 DEF TypeOK, Counted
<1>9. ASSUME NEW g \in Gens, Failed(g) PROVE TypeOK' /\ Counted'
  <2>1. terminal' \in BOOLEAN /\ deleted' \in BOOLEAN /\ answered' \in BOOLEAN /\ world' = world
    BY <1>9 DEF TypeOK, Failed, SwitchGoes, Unclaim, signalling, claims, conns, attempts
  <2>2. hold' \in BOOLEAN
    BY <1>9 DEF TypeOK, Failed, SwitchGoes, Unclaim, signalling, claims, conns, attempts
  <2>3. ready' \in BOOLEAN
    BY <1>9 DEF TypeOK, Failed, SwitchGoes, Unclaim, signalling, claims, conns, attempts
  <2>4. /\ switch' \in [Gens -> SwitchAt] /\ sip' \in [Sips -> SipAt] /\ resume' \in [Resumes -> ResumeAt]
        /\ answer' \in [Ids -> AnswerAt]
    BY <1>9 DEF TypeOK, SwitchAt, SipAt, ResumeAt, AnswerAt, Failed, SwitchGoes, Unclaim, signalling, claims, conns, attempts
  <2>5. /\ state' \in States /\ pending' \in Ids \cup {None} /\ claim' \in Gens \cup {None}
        /\ losses' = losses /\ graces' = graces /\ timers' \subseteq Ids /\ was' \subseteq Resumes
    BY <1>9 DEF TypeOK, States, Failed, SwitchGoes, Unclaim, signalling, claims, conns, attempts
  <2>6. aborts' \in Nat
    BY <1>9 DEF TypeOK, Failed, SwitchGoes, Unclaim, signalling, claims, conns, attempts
  <2>7. verdicts' \subseteq Ids \X {"ok", "timeout"} /\ callbacks' = callbacks
    BY <1>9 DEF TypeOK, Failed, SwitchGoes, Unclaim, signalling, claims, conns, attempts
  <2>8. /\ pc' \in PCs \cup {None} /\ legacy' \in PCs \cup {None} /\ video' \in PCs
        /\ ice' \in [PCs -> IceAt]
    BY <1>9 DEF TypeOK, IceAt, Failed, SwitchGoes, Unclaim, signalling, claims, conns, attempts
  <2>9. /\ old' \in [Gens -> PCs \cup {None}] /\ new' \in [Gens \cup Resumes -> PCs \cup {None}]
        /\ onto' \in [Ids -> PCs \cup {None}]
    BY <1>9 DEF TypeOK, Failed, SwitchGoes, Unclaim, signalling, claims, conns, attempts
  <2> QED
    BY <2>1, <2>2, <2>3, <2>4, <2>5, <2>6, <2>7, <2>8, <2>9 DEF TypeOK, Counted
<1>10. ASSUME NEW r \in Sips, Reinvite(r) PROVE TypeOK' /\ Counted'
  BY <1>10 DEF TypeOK, Counted, States, IceAt, SwitchAt, SipAt, ResumeAt, AnswerAt, Reinvite,
      May, NoAttempt, MayBegin, SipGoes
<1>11. ASSUME NEW r \in Sips, Refuse(r) PROVE TypeOK' /\ Counted'
  BY <1>11 DEF TypeOK, Counted, States, IceAt, SwitchAt, SipAt, ResumeAt, AnswerAt, Refuse,
      Fail, Clear
<1>12. ASSUME NEW r \in Sips, Accept(r) PROVE TypeOK' /\ Counted'
  <2>1. terminal' \in BOOLEAN /\ deleted' \in BOOLEAN /\ answered' \in BOOLEAN /\ world' = world
    BY <1>12 DEF TypeOK, Accept, SipGoes, Ask, signalling, claims, conns, attempts
  <2>2. hold' \in BOOLEAN
    BY <1>12 DEF TypeOK, Accept, SipGoes, Ask, signalling, claims, conns, attempts
  <2>3. ready' \in BOOLEAN
    BY <1>12 DEF TypeOK, Accept, SipGoes, Ask, signalling, claims, conns, attempts
  <2>4. /\ switch' \in [Gens -> SwitchAt] /\ sip' \in [Sips -> SipAt] /\ resume' \in [Resumes -> ResumeAt]
        /\ answer' \in [Ids -> AnswerAt]
    BY <1>12 DEF TypeOK, SwitchAt, SipAt, ResumeAt, AnswerAt, Accept, SipGoes, Ask, signalling, claims, conns, attempts
  <2>10. timers' = timers \/ timers' = timers \cup {r}
    BY <1>12 DEF Accept, Ask
  <2>11. UNCHANGED <<state, pending, claim, losses, graces, was>>
    BY <1>12 DEF Accept, signalling, claims, conns
  <2>5. /\ state' \in States /\ pending' \in Ids \cup {None} /\ claim' \in Gens \cup {None}
        /\ losses' = losses /\ graces' = graces /\ timers' \subseteq Ids /\ was' \subseteq Resumes
    BY <2>10, <2>11 DEF TypeOK
  <2>6. aborts' \in Nat
    BY <1>12 DEF TypeOK, Accept, SipGoes, Ask, signalling, claims, conns, attempts
  <2>7. verdicts' \subseteq Ids \X {"ok", "timeout"} /\ callbacks' = callbacks
    BY <1>12 DEF TypeOK, Accept, SipGoes, Ask, signalling, claims, conns, attempts
  <2>8. /\ pc' \in PCs \cup {None} /\ legacy' \in PCs \cup {None} /\ video' \in PCs
        /\ ice' \in [PCs -> IceAt]
    BY <1>12 DEF TypeOK, IceAt, Accept, SipGoes, Ask, signalling, claims, conns, attempts
  <2>9. /\ old' \in [Gens -> PCs \cup {None}] /\ new' \in [Gens \cup Resumes -> PCs \cup {None}]
        /\ onto' \in [Ids -> PCs \cup {None}]
    BY <1>12 DEF TypeOK, Accept, SipGoes, Ask, signalling, claims, conns, attempts
  <2> QED
    BY <2>1, <2>2, <2>3, <2>4, <2>5, <2>6, <2>7, <2>8, <2>9 DEF TypeOK, Counted
<1>13. ASSUME NEW r \in Sips, Respond(r) PROVE TypeOK' /\ Counted'
  BY <1>13 DEF TypeOK, Counted, States, IceAt, SwitchAt, SipAt, ResumeAt, AnswerAt, Respond,
      SipGoes, Complete, Clear
<1>14. ASSUME NEW i \in Ids, ClientFails(i) PROVE TypeOK' /\ Counted'
  BY <1>14 DEF TypeOK, Counted, States, IceAt, SwitchAt, SipAt, ResumeAt, AnswerAt, ClientFails,
      Installed, May, AnswerGoes, Fail, Clear
<1>15. ASSUME NEW i \in Ids, ClientAnswers(i) PROVE TypeOK' /\ Counted'
  BY <1>15 DEF TypeOK, Counted, States, IceAt, SwitchAt, SipAt, ResumeAt, AnswerAt,
      ClientAnswers, AnswerGoes
<1>16. ASSUME NEW i \in Ids, Await(i) PROVE TypeOK' /\ Counted'
  BY <1>16 DEF TypeOK, Counted, States, IceAt, SwitchAt, SipAt, ResumeAt, AnswerAt, Await,
      AnswerGoes, Installed, May
<1>17. ASSUME NEW i \in Ids, TakePC(i) PROVE TypeOK' /\ Counted'
  BY <1>17 DEF TypeOK, Counted, States, IceAt, SwitchAt, SipAt, ResumeAt, AnswerAt, TakePC,
      AnswerGoes
<1>18. ASSUME NEW i \in Ids, ApplyOffer(i) PROVE TypeOK' /\ Counted'
  BY <1>18 DEF TypeOK, Counted, States, IceAt, SwitchAt, SipAt, ResumeAt, AnswerAt, ApplyOffer,
      AnswerGoes, Becomes
<1>19. ASSUME NEW i \in Ids, AnswerOk(i) PROVE TypeOK' /\ Counted'
  <2>1. terminal' \in BOOLEAN /\ deleted' \in BOOLEAN /\ answered' \in BOOLEAN /\ world' = world
    BY <1>19 DEF TypeOK, AnswerOk, AnswerGoes, Complete, Clear, Tell, signalling, claims, conns, attempts
  <2>2. hold' \in BOOLEAN
    BY <1>19 DEF TypeOK, AnswerOk, AnswerGoes, Complete, Clear, Tell, signalling, claims, conns, attempts
  <2>3. ready' \in BOOLEAN
    BY <1>19 DEF TypeOK, AnswerOk, AnswerGoes, Complete, Clear, Tell, signalling, claims, conns, attempts
  <2>4. /\ switch' \in [Gens -> SwitchAt] /\ sip' \in [Sips -> SipAt] /\ resume' \in [Resumes -> ResumeAt]
        /\ answer' \in [Ids -> AnswerAt]
    BY <1>19 DEF TypeOK, SwitchAt, SipAt, ResumeAt, AnswerAt, AnswerOk, AnswerGoes, Complete, Clear, Tell, signalling, claims, conns, attempts
  <2>5. /\ state' \in States /\ pending' \in Ids \cup {None} /\ claim' \in Gens \cup {None}
        /\ losses' = losses /\ graces' = graces /\ timers' \subseteq Ids /\ was' \subseteq Resumes
    BY <1>19 DEF TypeOK, States, AnswerOk, AnswerGoes, Complete, Clear, Tell, signalling, claims, conns, attempts
  <2>6. aborts' \in Nat
    BY <1>19 DEF TypeOK, AnswerOk, AnswerGoes, Complete, Clear, Tell, signalling, claims, conns, attempts
  <2>7. verdicts' \subseteq Ids \X {"ok", "timeout"} /\ callbacks' = callbacks
    BY <1>19 DEF TypeOK, AnswerOk, AnswerGoes, Complete, Clear, Tell, signalling, claims, conns, attempts
  <2>8. /\ pc' \in PCs \cup {None} /\ legacy' \in PCs \cup {None} /\ video' \in PCs
        /\ ice' \in [PCs -> IceAt]
    BY <1>19 DEF TypeOK, IceAt, AnswerOk, AnswerGoes, Complete, Clear, Tell, signalling, claims, conns, attempts
  <2>9. /\ old' \in [Gens -> PCs \cup {None}] /\ new' \in [Gens \cup Resumes -> PCs \cup {None}]
        /\ onto' \in [Ids -> PCs \cup {None}]
    BY <1>19 DEF TypeOK, AnswerOk, AnswerGoes, Complete, Clear, Tell, signalling, claims, conns, attempts
  <2> QED
    BY <2>1, <2>2, <2>3, <2>4, <2>5, <2>6, <2>7, <2>8, <2>9 DEF TypeOK, Counted
<1>20. ASSUME NEW i \in Ids, AnswerError(i) PROVE TypeOK' /\ Counted'
  <2>1. terminal' \in BOOLEAN /\ deleted' \in BOOLEAN /\ answered' \in BOOLEAN /\ world' = world
    BY <1>20 DEF TypeOK, AnswerError, AnswerGoes, Fail, Clear, signalling, claims, conns, attempts
  <2>2. hold' \in BOOLEAN
    BY <1>20 DEF TypeOK, AnswerError, AnswerGoes, Fail, Clear, signalling, claims, conns, attempts
  <2>3. ready' \in BOOLEAN
    BY <1>20 DEF TypeOK, AnswerError, AnswerGoes, Fail, Clear, signalling, claims, conns, attempts
  <2>4. /\ switch' \in [Gens -> SwitchAt] /\ sip' \in [Sips -> SipAt] /\ resume' \in [Resumes -> ResumeAt]
        /\ answer' \in [Ids -> AnswerAt]
    BY <1>20 DEF TypeOK, SwitchAt, SipAt, ResumeAt, AnswerAt, AnswerError, AnswerGoes, Fail, Clear, signalling, claims, conns, attempts
  <2>5. /\ state' \in States /\ pending' \in Ids \cup {None} /\ claim' \in Gens \cup {None}
        /\ losses' = losses /\ graces' = graces /\ timers' \subseteq Ids /\ was' \subseteq Resumes
    BY <1>20 DEF TypeOK, States, AnswerError, AnswerGoes, Fail, Clear, signalling, claims, conns, attempts
  <2>6. aborts' \in Nat
    BY <1>20 DEF TypeOK, AnswerError, AnswerGoes, Fail, Clear, signalling, claims, conns, attempts
  <2>7. verdicts' \subseteq Ids \X {"ok", "timeout"} /\ callbacks' = callbacks
    BY <1>20 DEF TypeOK, AnswerError, AnswerGoes, Fail, Clear, signalling, claims, conns, attempts
  <2>8. /\ pc' \in PCs \cup {None} /\ legacy' \in PCs \cup {None} /\ video' \in PCs
        /\ ice' \in [PCs -> IceAt]
    BY <1>20 DEF TypeOK, IceAt, AnswerError, AnswerGoes, Fail, Clear, signalling, claims, conns, attempts
  <2>9. /\ old' \in [Gens -> PCs \cup {None}] /\ new' \in [Gens \cup Resumes -> PCs \cup {None}]
        /\ onto' \in [Ids -> PCs \cup {None}]
    BY <1>20 DEF TypeOK, AnswerError, AnswerGoes, Fail, Clear, signalling, claims, conns, attempts
  <2> QED
    BY <2>1, <2>2, <2>3, <2>4, <2>5, <2>6, <2>7, <2>8, <2>9 DEF TypeOK, Counted
<1>21. ASSUME NEW i \in Ids, Timeout(i) PROVE TypeOK' /\ Counted'
  BY <1>21 DEF TypeOK, Counted, States, IceAt, SwitchAt, SipAt, ResumeAt, AnswerAt, Timeout,
      Timely, Installed, May, Fail, Clear, Tell
<1>22. ASSUME NEW r \in Resumes, StartResume(r) PROVE TypeOK' /\ Counted'
  BY <1>22 DEF TypeOK, Counted, States, IceAt, SwitchAt, SipAt, ResumeAt, AnswerAt, StartResume,
      May, ResumeGoes, Resumable
<1>23. ASSUME NEW r \in Resumes, Swap(r) PROVE TypeOK' /\ Counted'
  BY <1>23 DEF TypeOK, Counted, States, IceAt, SwitchAt, SipAt, ResumeAt, AnswerAt, Swap,
      ResumeGoes, Closes, Becomes
<1>24. ASSUME NEW r \in Resumes, ResumeCreates(r) PROVE TypeOK' /\ Counted'
  <2>1. terminal' \in BOOLEAN /\ deleted' \in BOOLEAN /\ answered' \in BOOLEAN /\ world' = world
    BY <1>24 DEF TypeOK, ResumeCreates, ResumeGoes, Create, Becomes, signalling, claims, conns, attempts
  <2>2. hold' \in BOOLEAN
    BY <1>24 DEF TypeOK, ResumeCreates, ResumeGoes, Create, Becomes, signalling, claims, conns, attempts
  <2>3. ready' \in BOOLEAN
    BY <1>24 DEF TypeOK, ResumeCreates, ResumeGoes, Create, Becomes, signalling, claims, conns, attempts
  <2>4. /\ switch' \in [Gens -> SwitchAt] /\ sip' \in [Sips -> SipAt] /\ resume' \in [Resumes -> ResumeAt]
        /\ answer' \in [Ids -> AnswerAt]
    BY <1>24 DEF TypeOK, SwitchAt, SipAt, ResumeAt, AnswerAt, ResumeCreates, ResumeGoes, Create, Becomes, signalling, claims, conns, attempts
  <2>5. /\ state' \in States /\ pending' \in Ids \cup {None} /\ claim' \in Gens \cup {None}
        /\ losses' = losses /\ graces' = graces /\ timers' \subseteq Ids /\ was' \subseteq Resumes
    BY <1>24 DEF TypeOK, States, ResumeCreates, ResumeGoes, Create, Becomes, signalling, claims, conns, attempts
  <2>6. aborts' \in Nat
    BY <1>24 DEF TypeOK, ResumeCreates, ResumeGoes, Create, Becomes, signalling, claims, conns, attempts
  <2>7. verdicts' \subseteq Ids \X {"ok", "timeout"} /\ callbacks' = callbacks
    BY <1>24 DEF TypeOK, ResumeCreates, ResumeGoes, Create, Becomes, signalling, claims, conns, attempts
  <2>8. /\ pc' \in PCs \cup {None} /\ legacy' \in PCs \cup {None} /\ video' \in PCs
        /\ ice' \in [PCs -> IceAt]
    BY <1>24 DEF TypeOK, IceAt, ResumeCreates, ResumeGoes, Create, Becomes, signalling, claims, conns, attempts
  <2>10. new' = new \/ \E p \in PCs : new' = [new EXCEPT ![r] = p]
    BY <1>24 DEF ResumeCreates, Create
  <2>11. UNCHANGED <<old, onto>>
    BY <1>24 DEF ResumeCreates
  <2>9. /\ old' \in [Gens -> PCs \cup {None}] /\ new' \in [Gens \cup Resumes -> PCs \cup {None}]
        /\ onto' \in [Ids -> PCs \cup {None}]
    <3>1. new' \in [Gens \cup Resumes -> PCs \cup {None}]
      BY <2>10 DEF TypeOK
    <3> QED
      BY <2>11, <3>1 DEF TypeOK
  <2> QED
    BY <2>1, <2>2, <2>3, <2>4, <2>5, <2>6, <2>7, <2>8, <2>9 DEF TypeOK, Counted
<1>25. ASSUME NEW r \in Resumes, ResumeInstalls(r) PROVE TypeOK' /\ Counted'
  BY <1>25 DEF TypeOK, Counted, States, IceAt, SwitchAt, SipAt, ResumeAt, AnswerAt,
      ResumeInstalls, ResumeGoes, Closes, Becomes
<1>26. ASSUME NEW r \in Resumes, Resumed(r) PROVE TypeOK' /\ Counted'
  BY <1>26 DEF TypeOK, Counted, States, IceAt, SwitchAt, SipAt, ResumeAt, AnswerAt, Resumed,
      ResumeGoes
<1>27. ASSUME NEW p \in PCs, Loses(p) PROVE TypeOK' /\ Counted'
  BY <1>27 DEF TypeOK, Counted, States, IceAt, SwitchAt, SipAt, ResumeAt, AnswerAt, Loses, May,
      Becomes, CleaningUp
<1>28. ASSUME NEW p \in PCs, Connects(p) PROVE TypeOK' /\ Counted'
  BY <1>28 DEF TypeOK, Counted, States, IceAt, SwitchAt, SipAt, ResumeAt, AnswerAt, Connects,
      Becomes, Calls
<1>29. ASSUME NEW p \in PCs, FailsIce(p) PROVE TypeOK' /\ Counted'
  BY <1>29 DEF TypeOK, Counted, States, IceAt, SwitchAt, SipAt, ResumeAt, AnswerAt, FailsIce,
      Becomes, Calls, CleaningUp
<1>30. ASSUME NEW p \in PCs, OnConnected(p) PROVE TypeOK' /\ Counted'
  BY <1>30 DEF TypeOK, Counted, States, IceAt, SwitchAt, SipAt, ResumeAt, AnswerAt, OnConnected
<1>31. ASSUME NEW p \in PCs, Commit(p) PROVE TypeOK' /\ Counted'
  BY <1>31 DEF TypeOK, Counted, States, IceAt, SwitchAt, SipAt, ResumeAt, AnswerAt, Commit,
      Closes, Becomes
<1>32. ASSUME NEW p \in PCs, OnFailed(p) PROVE TypeOK' /\ Counted'
  BY <1>32, ZenonT(90) DEF TypeOK, Counted, States, IceAt, SwitchAt, SipAt, ResumeAt, AnswerAt, OnFailed,
      Restore, Closes, Becomes
<1>33. CASE Abort
  <2>1. terminal' \in BOOLEAN /\ deleted' \in BOOLEAN /\ answered' \in BOOLEAN /\ world' = world
    BY <1>33 DEF TypeOK, Abort, Restore, Closes, Becomes, signalling, claims, conns, attempts
  <2>2. hold' \in BOOLEAN
    BY <1>33 DEF TypeOK, Abort, Restore, Closes, Becomes, signalling, claims, conns, attempts
  <2>3. ready' \in BOOLEAN
    BY <1>33 DEF TypeOK, Abort, Restore, Closes, Becomes, signalling, claims, conns, attempts
  <2>4. /\ switch' \in [Gens -> SwitchAt] /\ sip' \in [Sips -> SipAt] /\ resume' \in [Resumes -> ResumeAt]
        /\ answer' \in [Ids -> AnswerAt]
    BY <1>33 DEF TypeOK, SwitchAt, SipAt, ResumeAt, AnswerAt, Abort, Restore, Closes, Becomes, signalling, claims, conns, attempts
  <2>5. /\ state' \in States /\ pending' \in Ids \cup {None} /\ claim' \in Gens \cup {None}
        /\ losses' = losses /\ graces' = graces /\ timers' \subseteq Ids /\ was' \subseteq Resumes
    BY <1>33 DEF TypeOK, States, Abort, Restore, Closes, Becomes, signalling, claims, conns, attempts
  <2>6. aborts' \in Nat
    BY <1>33 DEF TypeOK, Abort, Restore, Closes, Becomes, signalling, claims, conns, attempts
  <2>7. verdicts' \subseteq Ids \X {"ok", "timeout"} /\ callbacks' = callbacks
    BY <1>33 DEF TypeOK, Abort, Restore, Closes, Becomes, signalling, claims, conns, attempts
  <2>8. /\ pc' \in PCs \cup {None} /\ legacy' \in PCs \cup {None} /\ video' \in PCs
        /\ ice' \in [PCs -> IceAt]
    BY <1>33 DEF TypeOK, IceAt, Abort, Restore, Closes, Becomes, signalling, claims, conns, attempts
  <2>9. /\ old' \in [Gens -> PCs \cup {None}] /\ new' \in [Gens \cup Resumes -> PCs \cup {None}]
        /\ onto' \in [Ids -> PCs \cup {None}]
    BY <1>33 DEF TypeOK, Abort, Restore, Closes, Becomes, signalling, claims, conns, attempts
  <2> QED
    BY <2>1, <2>2, <2>3, <2>4, <2>5, <2>6, <2>7, <2>8, <2>9 DEF TypeOK, Counted
<1>34. CASE GraceOver
  BY <1>34 DEF TypeOK, Counted, States, IceAt, SwitchAt, SipAt, ResumeAt, AnswerAt, GraceOver
<1>35. CASE Answered
  BY <1>35 DEF TypeOK, Counted, States, IceAt, SwitchAt, SipAt, ResumeAt, AnswerAt, Answered
<1>36. CASE Hangup
  BY <1>36 DEF TypeOK, Counted, States, IceAt, SwitchAt, SipAt, ResumeAt, AnswerAt, Hangup
<1>37. CASE Ends
  BY <1>37 DEF TypeOK, Counted, States, IceAt, SwitchAt, SipAt, ResumeAt, AnswerAt, Ends
<1>38. CASE Delete
  BY <1>38 DEF TypeOK, Counted, States, IceAt, SwitchAt, SipAt, ResumeAt, AnswerAt, Delete,
      Closes, Becomes
<1>39. CASE UNCHANGED vars
  BY <1>39 DEF vars, TypeOK, Counted, States, IceAt, SwitchAt, SipAt, ResumeAt, AnswerAt
<1> QED
  BY <1>1, <1>2, <1>3, <1>4, <1>5, <1>6, <1>7, <1>8, <1>9, <1>10, <1>11, <1>12, <1>13, <1>14,
      <1>15, <1>16, <1>17, <1>18, <1>19, <1>20, <1>21, <1>22, <1>23, <1>24, <1>25, <1>26, <1>27,
      <1>28, <1>29, <1>30, <1>31, <1>32, <1>33, <1>34, <1>35, <1>36, <1>37, <1>38,
      <1>39 DEF Next, SwitchStep, SipStep, AnswerStep, ResumeStep, IceStep

-----------------------------------------------------------------------------
(* The inductive step, one lemma per part of HandoverInv *)

(* Nothing untimely: no event of another world. *)
LEMMA CalmMeans == Calm => ~May("overlap") /\ ~May("resume") /\ ~May("untimely") /\ ~May("loss")
  BY DEF Calm, May

(* No resume and no loss begins. *)
LEMMA NoEventsStep ==
  ASSUME TypeOK, Calm, NoEvents, [Next]_vars
  PROVE  NoEvents'
<1> USE Names, NamesAssumption, WorldsAssumption
       DEF signalling, claims, conns, attempts
<1>1. ASSUME NEW g \in Gens, Claim(g) PROVE NoEvents'
  BY <1>1, CalmMeans DEF TypeOK, NoEvents, Claim, MayBegin, SwitchGoes, NoNegotiation,
      NoAttempt, May
<1>2. ASSUME NEW g \in Gens, Begin(g) PROVE NoEvents'
  BY <1>2, CalmMeans DEF TypeOK, NoEvents, Begin, SwitchGoes, MayBegin
<1>3. ASSUME NEW g \in Gens, Release(g) PROVE NoEvents'
  BY <1>3, CalmMeans DEF TypeOK, NoEvents, Release, SwitchGoes, Unclaim
<1>4. ASSUME NEW g \in Gens, Notify(g) PROVE NoEvents'
  BY <1>4, CalmMeans DEF TypeOK, NoEvents, Notify, SwitchGoes, Ask
<1>5. ASSUME NEW g \in Gens, ReadOld(g) PROVE NoEvents'
  BY <1>5, CalmMeans DEF TypeOK, NoEvents, ReadOld, SwitchGoes
<1>6. ASSUME NEW g \in Gens, Park(g) PROVE NoEvents'
  BY <1>6, CalmMeans DEF TypeOK, NoEvents, Park, SwitchGoes, Create, Becomes
<1>7. ASSUME NEW g \in Gens, Install(g) PROVE NoEvents'
  BY <1>7, CalmMeans DEF TypeOK, NoEvents, Install, SwitchGoes
<1>8. ASSUME NEW g \in Gens, PrepareFails(g) PROVE NoEvents'
  BY <1>8, CalmMeans DEF TypeOK, NoEvents, PrepareFails, May, SwitchGoes, Fail, Clear
<1>9. ASSUME NEW g \in Gens, Failed(g) PROVE NoEvents'
  BY <1>9, CalmMeans DEF TypeOK, NoEvents, Failed, SwitchGoes, Unclaim
<1>10. ASSUME NEW r \in Sips, Reinvite(r) PROVE NoEvents'
  BY <1>10, CalmMeans DEF TypeOK, NoEvents, Reinvite, May, NoAttempt, MayBegin, SipGoes
<1>11. ASSUME NEW r \in Sips, Refuse(r) PROVE NoEvents'
  BY <1>11, CalmMeans DEF TypeOK, NoEvents, Refuse, Fail, Clear
<1>12. ASSUME NEW r \in Sips, Accept(r) PROVE NoEvents'
  BY <1>12, CalmMeans DEF TypeOK, NoEvents, Accept, SipGoes, Ask
<1>13. ASSUME NEW r \in Sips, Respond(r) PROVE NoEvents'
  BY <1>13, CalmMeans DEF TypeOK, NoEvents, Respond, SipGoes, Complete, Clear
<1>14. ASSUME NEW i \in Ids, ClientFails(i) PROVE NoEvents'
  BY <1>14, CalmMeans DEF TypeOK, NoEvents, ClientFails, Installed, May, AnswerGoes, Fail, Clear
<1>15. ASSUME NEW i \in Ids, ClientAnswers(i) PROVE NoEvents'
  BY <1>15, CalmMeans DEF TypeOK, NoEvents, ClientAnswers, AnswerGoes
<1>16. ASSUME NEW i \in Ids, Await(i) PROVE NoEvents'
  BY <1>16, CalmMeans DEF TypeOK, NoEvents, Await, AnswerGoes, Installed, May
<1>17. ASSUME NEW i \in Ids, TakePC(i) PROVE NoEvents'
  BY <1>17, CalmMeans DEF TypeOK, NoEvents, TakePC, AnswerGoes
<1>18. ASSUME NEW i \in Ids, ApplyOffer(i) PROVE NoEvents'
  BY <1>18, CalmMeans DEF TypeOK, NoEvents, ApplyOffer, AnswerGoes, Becomes
<1>19. ASSUME NEW i \in Ids, AnswerOk(i) PROVE NoEvents'
  BY <1>19, CalmMeans DEF TypeOK, NoEvents, AnswerOk, AnswerGoes, Complete, Clear, Tell
<1>20. ASSUME NEW i \in Ids, AnswerError(i) PROVE NoEvents'
  BY <1>20, CalmMeans DEF TypeOK, NoEvents, AnswerError, AnswerGoes, Fail, Clear
<1>21. ASSUME NEW i \in Ids, Timeout(i) PROVE NoEvents'
  BY <1>21, CalmMeans DEF TypeOK, NoEvents, Timeout, Timely, Installed, May, Fail, Clear, Tell
<1>22. ASSUME NEW r \in Resumes, StartResume(r) PROVE NoEvents'
  BY <1>22, CalmMeans DEF TypeOK, NoEvents, StartResume, May, ResumeGoes, Resumable
<1>23. ASSUME NEW r \in Resumes, Swap(r) PROVE NoEvents'
  BY <1>23, CalmMeans DEF TypeOK, NoEvents, Swap, ResumeGoes, Closes, Becomes
<1>24. ASSUME NEW r \in Resumes, ResumeCreates(r) PROVE NoEvents'
  BY <1>24, CalmMeans DEF TypeOK, NoEvents, ResumeCreates, ResumeGoes, Create, Becomes
<1>25. ASSUME NEW r \in Resumes, ResumeInstalls(r) PROVE NoEvents'
  BY <1>25, CalmMeans DEF TypeOK, NoEvents, ResumeInstalls, ResumeGoes, Closes, Becomes
<1>26. ASSUME NEW r \in Resumes, Resumed(r) PROVE NoEvents'
  BY <1>26, CalmMeans DEF TypeOK, NoEvents, Resumed, ResumeGoes
<1>27. ASSUME NEW p \in PCs, Loses(p) PROVE NoEvents'
  BY <1>27, CalmMeans DEF TypeOK, NoEvents, Loses, May, Becomes, CleaningUp
<1>28. ASSUME NEW p \in PCs, Connects(p) PROVE NoEvents'
  BY <1>28, CalmMeans DEF TypeOK, NoEvents, Connects, Becomes, Calls
<1>29. ASSUME NEW p \in PCs, FailsIce(p) PROVE NoEvents'
  BY <1>29, CalmMeans DEF TypeOK, NoEvents, FailsIce, Becomes, Calls, CleaningUp
<1>30. ASSUME NEW p \in PCs, OnConnected(p) PROVE NoEvents'
  BY <1>30, CalmMeans DEF TypeOK, NoEvents, OnConnected
<1>31. ASSUME NEW p \in PCs, Commit(p) PROVE NoEvents'
  BY <1>31, CalmMeans DEF TypeOK, NoEvents, Commit, Closes, Becomes
<1>32. ASSUME NEW p \in PCs, OnFailed(p) PROVE NoEvents'
  BY <1>32, CalmMeans DEF TypeOK, NoEvents, OnFailed, Restore, Closes, Becomes
<1>33. CASE Abort
  BY <1>33, CalmMeans DEF TypeOK, NoEvents, Abort, Restore, Closes, Becomes
<1>34. CASE GraceOver
  BY <1>34, CalmMeans DEF TypeOK, NoEvents, GraceOver
<1>35. CASE Answered
  BY <1>35, CalmMeans DEF TypeOK, NoEvents, Answered
<1>36. CASE Hangup
  BY <1>36, CalmMeans DEF TypeOK, NoEvents, Hangup
<1>37. CASE Ends
  BY <1>37, CalmMeans DEF TypeOK, NoEvents, Ends
<1>38. CASE Delete
  BY <1>38, CalmMeans DEF TypeOK, NoEvents, Delete, Closes, Becomes
<1>39. CASE UNCHANGED vars
  BY <1>39 DEF vars, TypeOK, Busy, Undecided, NoEvents
<1> QED
  BY <1>1, <1>2, <1>3, <1>4, <1>5, <1>6, <1>7, <1>8, <1>9, <1>10, <1>11, <1>12, <1>13, <1>14,
      <1>15, <1>16, <1>17, <1>18, <1>19, <1>20, <1>21, <1>22, <1>23, <1>24, <1>25, <1>26, <1>27,
      <1>28, <1>29, <1>30, <1>31, <1>32, <1>33, <1>34, <1>35, <1>36, <1>37, <1>38,
      <1>39 DEF Next, SwitchStep, SipStep, AnswerStep, ResumeStep, IceStep

(* Nothing begins when the call is being hung up. *)
LEMMA OverStep ==
  ASSUME TypeOK, Calm, OverNoMore, [Next]_vars
  PROVE  OverNoMore'
<1> USE Names, NamesAssumption, WorldsAssumption
       DEF signalling, claims, conns, attempts
<1>1. ASSUME NEW g \in Gens, Claim(g) PROVE OverNoMore'
  BY <1>1, CalmMeans DEF TypeOK, OverNoMore, Claim, MayBegin, SwitchGoes, NoNegotiation,
      NoAttempt, May
<1>2. ASSUME NEW g \in Gens, Begin(g) PROVE OverNoMore'
  BY <1>2, CalmMeans DEF TypeOK, OverNoMore, Begin, SwitchGoes, MayBegin
<1>3. ASSUME NEW g \in Gens, Release(g) PROVE OverNoMore'
  BY <1>3, CalmMeans DEF TypeOK, OverNoMore, Release, SwitchGoes, Unclaim
<1>4. ASSUME NEW g \in Gens, Notify(g) PROVE OverNoMore'
  BY <1>4, CalmMeans DEF TypeOK, OverNoMore, Notify, SwitchGoes, Ask
<1>5. ASSUME NEW g \in Gens, ReadOld(g) PROVE OverNoMore'
  BY <1>5, CalmMeans DEF TypeOK, OverNoMore, ReadOld, SwitchGoes
<1>6. ASSUME NEW g \in Gens, Park(g) PROVE OverNoMore'
  BY <1>6, CalmMeans DEF TypeOK, OverNoMore, Park, SwitchGoes, Create, Becomes
<1>7. ASSUME NEW g \in Gens, Install(g) PROVE OverNoMore'
  BY <1>7, CalmMeans DEF TypeOK, OverNoMore, Install, SwitchGoes
<1>8. ASSUME NEW g \in Gens, PrepareFails(g) PROVE OverNoMore'
  BY <1>8, CalmMeans DEF TypeOK, OverNoMore, PrepareFails, May, SwitchGoes, Fail, Clear
<1>9. ASSUME NEW g \in Gens, Failed(g) PROVE OverNoMore'
  BY <1>9, CalmMeans DEF TypeOK, OverNoMore, Failed, SwitchGoes, Unclaim
<1>10. ASSUME NEW r \in Sips, Reinvite(r) PROVE OverNoMore'
  BY <1>10, CalmMeans DEF TypeOK, OverNoMore, Reinvite, May, NoAttempt, MayBegin, SipGoes
<1>11. ASSUME NEW r \in Sips, Refuse(r) PROVE OverNoMore'
  BY <1>11, CalmMeans DEF TypeOK, OverNoMore, Refuse, Fail, Clear
<1>12. ASSUME NEW r \in Sips, Accept(r) PROVE OverNoMore'
  BY <1>12, CalmMeans DEF TypeOK, OverNoMore, Accept, SipGoes, Ask
<1>13. ASSUME NEW r \in Sips, Respond(r) PROVE OverNoMore'
  BY <1>13, CalmMeans DEF TypeOK, OverNoMore, Respond, SipGoes, Complete, Clear
<1>14. ASSUME NEW i \in Ids, ClientFails(i) PROVE OverNoMore'
  BY <1>14, CalmMeans DEF TypeOK, OverNoMore, ClientFails, Installed, May, AnswerGoes, Fail,
      Clear
<1>15. ASSUME NEW i \in Ids, ClientAnswers(i) PROVE OverNoMore'
  BY <1>15, CalmMeans DEF TypeOK, OverNoMore, ClientAnswers, AnswerGoes
<1>16. ASSUME NEW i \in Ids, Await(i) PROVE OverNoMore'
  BY <1>16, CalmMeans DEF TypeOK, OverNoMore, Await, AnswerGoes, Installed, May
<1>17. ASSUME NEW i \in Ids, TakePC(i) PROVE OverNoMore'
  BY <1>17, CalmMeans DEF TypeOK, OverNoMore, TakePC, AnswerGoes
<1>18. ASSUME NEW i \in Ids, ApplyOffer(i) PROVE OverNoMore'
  BY <1>18, CalmMeans DEF TypeOK, OverNoMore, ApplyOffer, AnswerGoes, Becomes
<1>19. ASSUME NEW i \in Ids, AnswerOk(i) PROVE OverNoMore'
  BY <1>19, CalmMeans DEF TypeOK, OverNoMore, AnswerOk, AnswerGoes, Complete, Clear, Tell
<1>20. ASSUME NEW i \in Ids, AnswerError(i) PROVE OverNoMore'
  BY <1>20, CalmMeans DEF TypeOK, OverNoMore, AnswerError, AnswerGoes, Fail, Clear
<1>21. ASSUME NEW i \in Ids, Timeout(i) PROVE OverNoMore'
  BY <1>21, CalmMeans DEF TypeOK, OverNoMore, Timeout, Timely, Installed, May, Fail, Clear, Tell
<1>22. ASSUME NEW r \in Resumes, StartResume(r) PROVE OverNoMore'
  BY <1>22, CalmMeans DEF TypeOK, OverNoMore, StartResume, May, ResumeGoes, Resumable
<1>23. ASSUME NEW r \in Resumes, Swap(r) PROVE OverNoMore'
  BY <1>23, CalmMeans DEF TypeOK, OverNoMore, Swap, ResumeGoes, Closes, Becomes
<1>24. ASSUME NEW r \in Resumes, ResumeCreates(r) PROVE OverNoMore'
  BY <1>24, CalmMeans DEF TypeOK, OverNoMore, ResumeCreates, ResumeGoes, Create, Becomes
<1>25. ASSUME NEW r \in Resumes, ResumeInstalls(r) PROVE OverNoMore'
  BY <1>25, CalmMeans DEF TypeOK, OverNoMore, ResumeInstalls, ResumeGoes, Closes, Becomes
<1>26. ASSUME NEW r \in Resumes, Resumed(r) PROVE OverNoMore'
  BY <1>26, CalmMeans DEF TypeOK, OverNoMore, Resumed, ResumeGoes
<1>27. ASSUME NEW p \in PCs, Loses(p) PROVE OverNoMore'
  BY <1>27, CalmMeans DEF TypeOK, OverNoMore, Loses, May, Becomes, CleaningUp
<1>28. ASSUME NEW p \in PCs, Connects(p) PROVE OverNoMore'
  BY <1>28, CalmMeans DEF TypeOK, OverNoMore, Connects, Becomes, Calls
<1>29. ASSUME NEW p \in PCs, FailsIce(p) PROVE OverNoMore'
  BY <1>29, CalmMeans DEF TypeOK, OverNoMore, FailsIce, Becomes, Calls, CleaningUp
<1>30. ASSUME NEW p \in PCs, OnConnected(p) PROVE OverNoMore'
  BY <1>30, CalmMeans DEF TypeOK, OverNoMore, OnConnected
<1>31. ASSUME NEW p \in PCs, Commit(p) PROVE OverNoMore'
  BY <1>31, CalmMeans DEF TypeOK, OverNoMore, Commit, Closes, Becomes
<1>32. ASSUME NEW p \in PCs, OnFailed(p) PROVE OverNoMore'
  BY <1>32, CalmMeans DEF TypeOK, OverNoMore, OnFailed, Restore, Closes, Becomes
<1>33. CASE Abort
  BY <1>33, CalmMeans DEF TypeOK, OverNoMore, Abort, Restore, Closes, Becomes
<1>34. CASE GraceOver
  BY <1>34, CalmMeans DEF TypeOK, OverNoMore, GraceOver
<1>35. CASE Answered
  BY <1>35, CalmMeans DEF TypeOK, OverNoMore, Answered
<1>36. CASE Hangup
  BY <1>36, CalmMeans DEF TypeOK, OverNoMore, Hangup
<1>37. CASE Ends
  BY <1>37, CalmMeans DEF TypeOK, OverNoMore, Ends
<1>38. CASE Delete
  BY <1>38, CalmMeans DEF TypeOK, OverNoMore, Delete, Closes, Becomes
<1>39. CASE UNCHANGED vars
  BY <1>39 DEF vars, TypeOK, Busy, Undecided, OverNoMore
<1> QED
  BY <1>1, <1>2, <1>3, <1>4, <1>5, <1>6, <1>7, <1>8, <1>9, <1>10, <1>11, <1>12, <1>13, <1>14,
      <1>15, <1>16, <1>17, <1>18, <1>19, <1>20, <1>21, <1>22, <1>23, <1>24, <1>25, <1>26, <1>27,
      <1>28, <1>29, <1>30, <1>31, <1>32, <1>33, <1>34, <1>35, <1>36, <1>37, <1>38,
      <1>39 DEF Next, SwitchStep, SipStep, AnswerStep, ResumeStep, IceStep

(* A re-INVITE asks for no offer. *)
LEMMA SipAnswersStep ==
  ASSUME TypeOK, Calm, SipAnswers, [Next]_vars
  PROVE  SipAnswers'
<1> USE Names, NamesAssumption, WorldsAssumption
       DEF signalling, claims, conns, attempts
<1>1. ASSUME NEW g \in Gens, Claim(g) PROVE SipAnswers'
  BY <1>1, CalmMeans DEF TypeOK, SipAnswers, Claim, MayBegin, SwitchGoes, NoNegotiation,
      NoAttempt, May
<1>2. ASSUME NEW g \in Gens, Begin(g) PROVE SipAnswers'
  BY <1>2, CalmMeans DEF TypeOK, SipAnswers, Begin, SwitchGoes, MayBegin
<1>3. ASSUME NEW g \in Gens, Release(g) PROVE SipAnswers'
  BY <1>3, CalmMeans DEF TypeOK, SipAnswers, Release, SwitchGoes, Unclaim
<1>4. ASSUME NEW g \in Gens, Notify(g) PROVE SipAnswers'
  BY <1>4, CalmMeans DEF TypeOK, SipAnswers, Notify, SwitchGoes, Ask
<1>5. ASSUME NEW g \in Gens, ReadOld(g) PROVE SipAnswers'
  BY <1>5, CalmMeans DEF TypeOK, SipAnswers, ReadOld, SwitchGoes
<1>6. ASSUME NEW g \in Gens, Park(g) PROVE SipAnswers'
  BY <1>6, CalmMeans DEF TypeOK, SipAnswers, Park, SwitchGoes, Create, Becomes
<1>7. ASSUME NEW g \in Gens, Install(g) PROVE SipAnswers'
  BY <1>7, CalmMeans DEF TypeOK, SipAnswers, Install, SwitchGoes
<1>8. ASSUME NEW g \in Gens, PrepareFails(g) PROVE SipAnswers'
  BY <1>8, CalmMeans DEF TypeOK, SipAnswers, PrepareFails, May, SwitchGoes, Fail, Clear
<1>9. ASSUME NEW g \in Gens, Failed(g) PROVE SipAnswers'
  BY <1>9, CalmMeans DEF TypeOK, SipAnswers, Failed, SwitchGoes, Unclaim
<1>10. ASSUME NEW r \in Sips, Reinvite(r) PROVE SipAnswers'
  BY <1>10, CalmMeans DEF TypeOK, SipAnswers, Reinvite, May, NoAttempt, MayBegin, SipGoes
<1>11. ASSUME NEW r \in Sips, Refuse(r) PROVE SipAnswers'
  BY <1>11, CalmMeans DEF TypeOK, SipAnswers, Refuse, Fail, Clear
<1>12. ASSUME NEW r \in Sips, Accept(r) PROVE SipAnswers'
  BY <1>12, CalmMeans DEF TypeOK, SipAnswers, Accept, SipGoes, Ask
<1>13. ASSUME NEW r \in Sips, Respond(r) PROVE SipAnswers'
  BY <1>13, CalmMeans DEF TypeOK, SipAnswers, Respond, SipGoes, Complete, Clear
<1>14. ASSUME NEW i \in Ids, ClientFails(i) PROVE SipAnswers'
  BY <1>14, CalmMeans DEF TypeOK, SipAnswers, ClientFails, Installed, May, AnswerGoes, Fail,
      Clear
<1>15. ASSUME NEW i \in Ids, ClientAnswers(i) PROVE SipAnswers'
  BY <1>15, CalmMeans DEF TypeOK, SipAnswers, ClientAnswers, AnswerGoes
<1>16. ASSUME NEW i \in Ids, Await(i) PROVE SipAnswers'
  BY <1>16, CalmMeans DEF TypeOK, SipAnswers, Await, AnswerGoes, Installed, May
<1>17. ASSUME NEW i \in Ids, TakePC(i) PROVE SipAnswers'
  BY <1>17, CalmMeans DEF TypeOK, SipAnswers, TakePC, AnswerGoes
<1>18. ASSUME NEW i \in Ids, ApplyOffer(i) PROVE SipAnswers'
  BY <1>18, CalmMeans DEF TypeOK, SipAnswers, ApplyOffer, AnswerGoes, Becomes
<1>19. ASSUME NEW i \in Ids, AnswerOk(i) PROVE SipAnswers'
  BY <1>19, CalmMeans DEF TypeOK, SipAnswers, AnswerOk, AnswerGoes, Complete, Clear, Tell
<1>20. ASSUME NEW i \in Ids, AnswerError(i) PROVE SipAnswers'
  BY <1>20, CalmMeans DEF TypeOK, SipAnswers, AnswerError, AnswerGoes, Fail, Clear
<1>21. ASSUME NEW i \in Ids, Timeout(i) PROVE SipAnswers'
  BY <1>21, CalmMeans DEF TypeOK, SipAnswers, Timeout, Timely, Installed, May, Fail, Clear, Tell
<1>22. ASSUME NEW r \in Resumes, StartResume(r) PROVE SipAnswers'
  BY <1>22, CalmMeans DEF TypeOK, SipAnswers, StartResume, May, ResumeGoes, Resumable
<1>23. ASSUME NEW r \in Resumes, Swap(r) PROVE SipAnswers'
  BY <1>23, CalmMeans DEF TypeOK, SipAnswers, Swap, ResumeGoes, Closes, Becomes
<1>24. ASSUME NEW r \in Resumes, ResumeCreates(r) PROVE SipAnswers'
  BY <1>24, CalmMeans DEF TypeOK, SipAnswers, ResumeCreates, ResumeGoes, Create, Becomes
<1>25. ASSUME NEW r \in Resumes, ResumeInstalls(r) PROVE SipAnswers'
  BY <1>25, CalmMeans DEF TypeOK, SipAnswers, ResumeInstalls, ResumeGoes, Closes, Becomes
<1>26. ASSUME NEW r \in Resumes, Resumed(r) PROVE SipAnswers'
  BY <1>26, CalmMeans DEF TypeOK, SipAnswers, Resumed, ResumeGoes
<1>27. ASSUME NEW p \in PCs, Loses(p) PROVE SipAnswers'
  BY <1>27, CalmMeans DEF TypeOK, SipAnswers, Loses, May, Becomes, CleaningUp
<1>28. ASSUME NEW p \in PCs, Connects(p) PROVE SipAnswers'
  BY <1>28, CalmMeans DEF TypeOK, SipAnswers, Connects, Becomes, Calls
<1>29. ASSUME NEW p \in PCs, FailsIce(p) PROVE SipAnswers'
  BY <1>29, CalmMeans DEF TypeOK, SipAnswers, FailsIce, Becomes, Calls, CleaningUp
<1>30. ASSUME NEW p \in PCs, OnConnected(p) PROVE SipAnswers'
  BY <1>30, CalmMeans DEF TypeOK, SipAnswers, OnConnected
<1>31. ASSUME NEW p \in PCs, Commit(p) PROVE SipAnswers'
  BY <1>31, CalmMeans DEF TypeOK, SipAnswers, Commit, Closes, Becomes
<1>32. ASSUME NEW p \in PCs, OnFailed(p) PROVE SipAnswers'
  BY <1>32, CalmMeans DEF TypeOK, SipAnswers, OnFailed, Restore, Closes, Becomes
<1>33. CASE Abort
  BY <1>33, CalmMeans DEF TypeOK, SipAnswers, Abort, Restore, Closes, Becomes
<1>34. CASE GraceOver
  BY <1>34, CalmMeans DEF TypeOK, SipAnswers, GraceOver
<1>35. CASE Answered
  BY <1>35, CalmMeans DEF TypeOK, SipAnswers, Answered
<1>36. CASE Hangup
  BY <1>36, CalmMeans DEF TypeOK, SipAnswers, Hangup
<1>37. CASE Ends
  BY <1>37, CalmMeans DEF TypeOK, SipAnswers, Ends
<1>38. CASE Delete
  BY <1>38, CalmMeans DEF TypeOK, SipAnswers, Delete, Closes, Becomes
<1>39. CASE UNCHANGED vars
  BY <1>39 DEF vars, TypeOK, Busy, Undecided, SipAnswers
<1> QED
  BY <1>1, <1>2, <1>3, <1>4, <1>5, <1>6, <1>7, <1>8, <1>9, <1>10, <1>11, <1>12, <1>13, <1>14,
      <1>15, <1>16, <1>17, <1>18, <1>19, <1>20, <1>21, <1>22, <1>23, <1>24, <1>25, <1>26, <1>27,
      <1>28, <1>29, <1>30, <1>31, <1>32, <1>33, <1>34, <1>35, <1>36, <1>37, <1>38,
      <1>39 DEF Next, SwitchStep, SipStep, AnswerStep, ResumeStep, IceStep

(* Who has not begun has not asked. *)
LEMMA NotBegunStep ==
  ASSUME TypeOK, Calm, NotBegun, [Next]_vars
  PROVE  NotBegun'
<1> USE Names, NamesAssumption, WorldsAssumption
       DEF signalling, claims, conns, attempts
<1>1. ASSUME NEW g \in Gens, Claim(g) PROVE NotBegun'
  BY <1>1, CalmMeans DEF TypeOK, NotBegun, Claim, MayBegin, SwitchGoes, NoNegotiation,
      NoAttempt, May
<1>2. ASSUME NEW g \in Gens, Begin(g) PROVE NotBegun'
  BY <1>2, CalmMeans DEF TypeOK, NotBegun, Begin, SwitchGoes, MayBegin
<1>3. ASSUME NEW g \in Gens, Release(g) PROVE NotBegun'
  BY <1>3, CalmMeans DEF TypeOK, NotBegun, Release, SwitchGoes, Unclaim
<1>4. ASSUME NEW g \in Gens, Notify(g) PROVE NotBegun'
  BY <1>4, CalmMeans DEF TypeOK, NotBegun, Notify, SwitchGoes, Ask
<1>5. ASSUME NEW g \in Gens, ReadOld(g) PROVE NotBegun'
  BY <1>5, CalmMeans DEF TypeOK, NotBegun, ReadOld, SwitchGoes
<1>6. ASSUME NEW g \in Gens, Park(g) PROVE NotBegun'
  BY <1>6, CalmMeans DEF TypeOK, NotBegun, Park, SwitchGoes, Create, Becomes
<1>7. ASSUME NEW g \in Gens, Install(g) PROVE NotBegun'
  BY <1>7, CalmMeans DEF TypeOK, NotBegun, Install, SwitchGoes
<1>8. ASSUME NEW g \in Gens, PrepareFails(g) PROVE NotBegun'
  BY <1>8, CalmMeans DEF TypeOK, NotBegun, PrepareFails, May, SwitchGoes, Fail, Clear
<1>9. ASSUME NEW g \in Gens, Failed(g) PROVE NotBegun'
  BY <1>9, CalmMeans DEF TypeOK, NotBegun, Failed, SwitchGoes, Unclaim
<1>10. ASSUME NEW r \in Sips, Reinvite(r) PROVE NotBegun'
  BY <1>10, CalmMeans DEF TypeOK, NotBegun, Reinvite, May, NoAttempt, MayBegin, SipGoes
<1>11. ASSUME NEW r \in Sips, Refuse(r) PROVE NotBegun'
  BY <1>11, CalmMeans DEF TypeOK, NotBegun, Refuse, Fail, Clear
<1>12. ASSUME NEW r \in Sips, Accept(r) PROVE NotBegun'
  BY <1>12, CalmMeans DEF TypeOK, NotBegun, Accept, SipGoes, Ask
<1>13. ASSUME NEW r \in Sips, Respond(r) PROVE NotBegun'
  BY <1>13, CalmMeans DEF TypeOK, NotBegun, Respond, SipGoes, Complete, Clear
<1>14. ASSUME NEW i \in Ids, ClientFails(i) PROVE NotBegun'
  BY <1>14, CalmMeans DEF TypeOK, NotBegun, ClientFails, Installed, May, AnswerGoes, Fail, Clear
<1>15. ASSUME NEW i \in Ids, ClientAnswers(i) PROVE NotBegun'
  BY <1>15, CalmMeans DEF TypeOK, NotBegun, ClientAnswers, AnswerGoes
<1>16. ASSUME NEW i \in Ids, Await(i) PROVE NotBegun'
  BY <1>16, CalmMeans DEF TypeOK, NotBegun, Await, AnswerGoes, Installed, May
<1>17. ASSUME NEW i \in Ids, TakePC(i) PROVE NotBegun'
  BY <1>17, CalmMeans DEF TypeOK, NotBegun, TakePC, AnswerGoes
<1>18. ASSUME NEW i \in Ids, ApplyOffer(i) PROVE NotBegun'
  BY <1>18, CalmMeans DEF TypeOK, NotBegun, ApplyOffer, AnswerGoes, Becomes
<1>19. ASSUME NEW i \in Ids, AnswerOk(i) PROVE NotBegun'
  BY <1>19, CalmMeans DEF TypeOK, NotBegun, AnswerOk, AnswerGoes, Complete, Clear, Tell
<1>20. ASSUME NEW i \in Ids, AnswerError(i) PROVE NotBegun'
  BY <1>20, CalmMeans DEF TypeOK, NotBegun, AnswerError, AnswerGoes, Fail, Clear
<1>21. ASSUME NEW i \in Ids, Timeout(i) PROVE NotBegun'
  BY <1>21, CalmMeans DEF TypeOK, NotBegun, Timeout, Timely, Installed, May, Fail, Clear, Tell
<1>22. ASSUME NEW r \in Resumes, StartResume(r) PROVE NotBegun'
  BY <1>22, CalmMeans DEF TypeOK, NotBegun, StartResume, May, ResumeGoes, Resumable
<1>23. ASSUME NEW r \in Resumes, Swap(r) PROVE NotBegun'
  BY <1>23, CalmMeans DEF TypeOK, NotBegun, Swap, ResumeGoes, Closes, Becomes
<1>24. ASSUME NEW r \in Resumes, ResumeCreates(r) PROVE NotBegun'
  BY <1>24, CalmMeans DEF TypeOK, NotBegun, ResumeCreates, ResumeGoes, Create, Becomes
<1>25. ASSUME NEW r \in Resumes, ResumeInstalls(r) PROVE NotBegun'
  BY <1>25, CalmMeans DEF TypeOK, NotBegun, ResumeInstalls, ResumeGoes, Closes, Becomes
<1>26. ASSUME NEW r \in Resumes, Resumed(r) PROVE NotBegun'
  BY <1>26, CalmMeans DEF TypeOK, NotBegun, Resumed, ResumeGoes
<1>27. ASSUME NEW p \in PCs, Loses(p) PROVE NotBegun'
  BY <1>27, CalmMeans DEF TypeOK, NotBegun, Loses, May, Becomes, CleaningUp
<1>28. ASSUME NEW p \in PCs, Connects(p) PROVE NotBegun'
  BY <1>28, CalmMeans DEF TypeOK, NotBegun, Connects, Becomes, Calls
<1>29. ASSUME NEW p \in PCs, FailsIce(p) PROVE NotBegun'
  BY <1>29, CalmMeans DEF TypeOK, NotBegun, FailsIce, Becomes, Calls, CleaningUp
<1>30. ASSUME NEW p \in PCs, OnConnected(p) PROVE NotBegun'
  BY <1>30, CalmMeans DEF TypeOK, NotBegun, OnConnected
<1>31. ASSUME NEW p \in PCs, Commit(p) PROVE NotBegun'
  BY <1>31, CalmMeans DEF TypeOK, NotBegun, Commit, Closes, Becomes
<1>32. ASSUME NEW p \in PCs, OnFailed(p) PROVE NotBegun'
  BY <1>32, CalmMeans DEF TypeOK, NotBegun, OnFailed, Restore, Closes, Becomes
<1>33. CASE Abort
  BY <1>33, CalmMeans DEF TypeOK, NotBegun, Abort, Restore, Closes, Becomes
<1>34. CASE GraceOver
  BY <1>34, CalmMeans DEF TypeOK, NotBegun, GraceOver
<1>35. CASE Answered
  BY <1>35, CalmMeans DEF TypeOK, NotBegun, Answered
<1>36. CASE Hangup
  BY <1>36, CalmMeans DEF TypeOK, NotBegun, Hangup
<1>37. CASE Ends
  BY <1>37, CalmMeans DEF TypeOK, NotBegun, Ends
<1>38. CASE Delete
  BY <1>38, CalmMeans DEF TypeOK, NotBegun, Delete, Closes, Becomes
<1>39. CASE UNCHANGED vars
  BY <1>39 DEF vars, TypeOK, Busy, Undecided, NotBegun
<1> QED
  BY <1>1, <1>2, <1>3, <1>4, <1>5, <1>6, <1>7, <1>8, <1>9, <1>10, <1>11, <1>12, <1>13, <1>14,
      <1>15, <1>16, <1>17, <1>18, <1>19, <1>20, <1>21, <1>22, <1>23, <1>24, <1>25, <1>26, <1>27,
      <1>28, <1>29, <1>30, <1>31, <1>32, <1>33, <1>34, <1>35, <1>36, <1>37, <1>38,
      <1>39 DEF Next, SwitchStep, SipStep, AnswerStep, ResumeStep, IceStep

(* One attempt at a time is undecided. *)
LEMMA OneSwitchStep ==
  ASSUME TypeOK, Calm, OverNoMore, NotBegun, OneSwitch, AtWork, Fresh, SipAnswers, [Next]_vars
  PROVE  OneSwitch'
<1> USE Names, NamesAssumption, WorldsAssumption
       DEF signalling, claims, conns, attempts
<1>1. ASSUME NEW g \in Gens, Claim(g) PROVE OneSwitch'
  BY <1>1, CalmMeans DEF TypeOK, OverNoMore, NotBegun, OneSwitch, AtWork, Fresh, SipAnswers,
      Claim, MayBegin, SwitchGoes, NoNegotiation, NoAttempt, May, Busy, Undecided
<1>2. ASSUME NEW g \in Gens, Begin(g) PROVE OneSwitch'
  BY <1>2, CalmMeans DEF TypeOK, OverNoMore, NotBegun, OneSwitch, AtWork, Fresh, SipAnswers,
      Begin, SwitchGoes, MayBegin, Busy, Undecided
<1>3. ASSUME NEW g \in Gens, Release(g) PROVE OneSwitch'
  BY <1>3, CalmMeans DEF TypeOK, OverNoMore, NotBegun, OneSwitch, AtWork, Fresh, SipAnswers,
      Release, SwitchGoes, Unclaim, Busy, Undecided
<1>4. ASSUME NEW g \in Gens, Notify(g) PROVE OneSwitch'
  BY <1>4, CalmMeans DEF TypeOK, OverNoMore, NotBegun, OneSwitch, AtWork, Fresh, SipAnswers,
      Notify, SwitchGoes, Ask, Busy, Undecided
<1>5. ASSUME NEW g \in Gens, ReadOld(g) PROVE OneSwitch'
  BY <1>5, CalmMeans DEF TypeOK, OverNoMore, NotBegun, OneSwitch, AtWork, Fresh, SipAnswers,
      ReadOld, SwitchGoes, Busy, Undecided
<1>6. ASSUME NEW g \in Gens, Park(g) PROVE OneSwitch'
  BY <1>6, CalmMeans DEF TypeOK, OverNoMore, NotBegun, OneSwitch, AtWork, Fresh, SipAnswers,
      Park, SwitchGoes, Create, Becomes, Busy, Undecided
<1>7. ASSUME NEW g \in Gens, Install(g) PROVE OneSwitch'
  BY <1>7, CalmMeans DEF TypeOK, OverNoMore, NotBegun, OneSwitch, AtWork, Fresh, SipAnswers,
      Install, SwitchGoes, Busy, Undecided
<1>8. ASSUME NEW g \in Gens, PrepareFails(g) PROVE OneSwitch'
  BY <1>8, CalmMeans DEF TypeOK, OverNoMore, NotBegun, OneSwitch, AtWork, Fresh, SipAnswers,
      PrepareFails, May, SwitchGoes, Fail, Clear, Busy, Undecided
<1>9. ASSUME NEW g \in Gens, Failed(g) PROVE OneSwitch'
  BY <1>9, CalmMeans DEF TypeOK, OverNoMore, NotBegun, OneSwitch, AtWork, Fresh, SipAnswers,
      Failed, SwitchGoes, Unclaim, Busy, Undecided
<1>10. ASSUME NEW r \in Sips, Reinvite(r) PROVE OneSwitch'
  BY <1>10, CalmMeans DEF TypeOK, OverNoMore, NotBegun, OneSwitch, AtWork, Fresh, SipAnswers,
      Reinvite, May, NoAttempt, MayBegin, SipGoes, Busy, Undecided
<1>11. ASSUME NEW r \in Sips, Refuse(r) PROVE OneSwitch'
  BY <1>11, CalmMeans DEF TypeOK, OverNoMore, NotBegun, OneSwitch, AtWork, Fresh, SipAnswers,
      Refuse, Fail, Clear, Busy, Undecided
<1>12. ASSUME NEW r \in Sips, Accept(r) PROVE OneSwitch'
  BY <1>12, CalmMeans DEF TypeOK, OverNoMore, NotBegun, OneSwitch, AtWork, Fresh, SipAnswers,
      Accept, SipGoes, Ask, Busy, Undecided
<1>13. ASSUME NEW r \in Sips, Respond(r) PROVE OneSwitch'
  BY <1>13, CalmMeans DEF TypeOK, OverNoMore, NotBegun, OneSwitch, AtWork, Fresh, SipAnswers,
      Respond, SipGoes, Complete, Clear, Busy, Undecided
<1>14. ASSUME NEW i \in Ids, ClientFails(i) PROVE OneSwitch'
  BY <1>14, CalmMeans DEF TypeOK, OverNoMore, NotBegun, OneSwitch, AtWork, Fresh, SipAnswers,
      ClientFails, Installed, May, AnswerGoes, Fail, Clear, Busy, Undecided
<1>15. ASSUME NEW i \in Ids, ClientAnswers(i) PROVE OneSwitch'
  BY <1>15, CalmMeans DEF TypeOK, OverNoMore, NotBegun, OneSwitch, AtWork, Fresh, SipAnswers,
      ClientAnswers, AnswerGoes, Busy, Undecided
<1>16. ASSUME NEW i \in Ids, Await(i) PROVE OneSwitch'
  BY <1>16, CalmMeans DEF TypeOK, OverNoMore, NotBegun, OneSwitch, AtWork, Fresh, SipAnswers,
      Await, AnswerGoes, Installed, May, Busy, Undecided
<1>17. ASSUME NEW i \in Ids, TakePC(i) PROVE OneSwitch'
  BY <1>17, CalmMeans DEF TypeOK, OverNoMore, NotBegun, OneSwitch, AtWork, Fresh, SipAnswers,
      TakePC, AnswerGoes, Busy, Undecided
<1>18. ASSUME NEW i \in Ids, ApplyOffer(i) PROVE OneSwitch'
  BY <1>18, CalmMeans DEF TypeOK, OverNoMore, NotBegun, OneSwitch, AtWork, Fresh, SipAnswers,
      ApplyOffer, AnswerGoes, Becomes, Busy, Undecided
<1>19. ASSUME NEW i \in Ids, AnswerOk(i) PROVE OneSwitch'
  BY <1>19, CalmMeans DEF TypeOK, OverNoMore, NotBegun, OneSwitch, AtWork, Fresh, SipAnswers,
      AnswerOk, AnswerGoes, Complete, Clear, Tell, Busy, Undecided
<1>20. ASSUME NEW i \in Ids, AnswerError(i) PROVE OneSwitch'
  BY <1>20, CalmMeans DEF TypeOK, OverNoMore, NotBegun, OneSwitch, AtWork, Fresh, SipAnswers,
      AnswerError, AnswerGoes, Fail, Clear, Busy, Undecided
<1>21. ASSUME NEW i \in Ids, Timeout(i) PROVE OneSwitch'
  BY <1>21, CalmMeans DEF TypeOK, OverNoMore, NotBegun, OneSwitch, AtWork, Fresh, SipAnswers,
      Timeout, Timely, Installed, May, Fail, Clear, Tell, Busy, Undecided
<1>22. ASSUME NEW r \in Resumes, StartResume(r) PROVE OneSwitch'
  BY <1>22, CalmMeans DEF TypeOK, OverNoMore, NotBegun, OneSwitch, AtWork, Fresh, SipAnswers,
      StartResume, May, ResumeGoes, Resumable, Busy, Undecided
<1>23. ASSUME NEW r \in Resumes, Swap(r) PROVE OneSwitch'
  BY <1>23, CalmMeans DEF TypeOK, OverNoMore, NotBegun, OneSwitch, AtWork, Fresh, SipAnswers,
      Swap, ResumeGoes, Closes, Becomes, Busy, Undecided
<1>24. ASSUME NEW r \in Resumes, ResumeCreates(r) PROVE OneSwitch'
  BY <1>24, CalmMeans DEF TypeOK, OverNoMore, NotBegun, OneSwitch, AtWork, Fresh, SipAnswers,
      ResumeCreates, ResumeGoes, Create, Becomes, Busy, Undecided
<1>25. ASSUME NEW r \in Resumes, ResumeInstalls(r) PROVE OneSwitch'
  BY <1>25, CalmMeans DEF TypeOK, OverNoMore, NotBegun, OneSwitch, AtWork, Fresh, SipAnswers,
      ResumeInstalls, ResumeGoes, Closes, Becomes, Busy, Undecided
<1>26. ASSUME NEW r \in Resumes, Resumed(r) PROVE OneSwitch'
  BY <1>26, CalmMeans DEF TypeOK, OverNoMore, NotBegun, OneSwitch, AtWork, Fresh, SipAnswers,
      Resumed, ResumeGoes, Busy, Undecided
<1>27. ASSUME NEW p \in PCs, Loses(p) PROVE OneSwitch'
  BY <1>27, CalmMeans DEF TypeOK, OverNoMore, NotBegun, OneSwitch, AtWork, Fresh, SipAnswers,
      Loses, May, Becomes, CleaningUp, Busy, Undecided
<1>28. ASSUME NEW p \in PCs, Connects(p) PROVE OneSwitch'
  BY <1>28, CalmMeans DEF TypeOK, OverNoMore, NotBegun, OneSwitch, AtWork, Fresh, SipAnswers,
      Connects, Becomes, Calls, Busy, Undecided
<1>29. ASSUME NEW p \in PCs, FailsIce(p) PROVE OneSwitch'
  BY <1>29, CalmMeans DEF TypeOK, OverNoMore, NotBegun, OneSwitch, AtWork, Fresh, SipAnswers,
      FailsIce, Becomes, Calls, CleaningUp, Busy, Undecided
<1>30. ASSUME NEW p \in PCs, OnConnected(p) PROVE OneSwitch'
  BY <1>30, CalmMeans DEF TypeOK, OverNoMore, NotBegun, OneSwitch, AtWork, Fresh, SipAnswers,
      OnConnected, Busy, Undecided
<1>31. ASSUME NEW p \in PCs, Commit(p) PROVE OneSwitch'
  BY <1>31, CalmMeans DEF TypeOK, OverNoMore, NotBegun, OneSwitch, AtWork, Fresh, SipAnswers,
      Commit, Closes, Becomes, Busy, Undecided
<1>32. ASSUME NEW p \in PCs, OnFailed(p) PROVE OneSwitch'
  BY <1>32, CalmMeans DEF TypeOK, OverNoMore, NotBegun, OneSwitch, AtWork, Fresh, SipAnswers,
      OnFailed, Restore, Closes, Becomes, Busy, Undecided
<1>33. CASE Abort
  BY <1>33, CalmMeans DEF TypeOK, OverNoMore, NotBegun, OneSwitch, AtWork, Fresh, SipAnswers,
      Abort, Restore, Closes, Becomes, Busy, Undecided
<1>34. CASE GraceOver
  BY <1>34, CalmMeans DEF TypeOK, OverNoMore, NotBegun, OneSwitch, AtWork, Fresh, SipAnswers,
      GraceOver, Busy, Undecided
<1>35. CASE Answered
  BY <1>35, CalmMeans DEF TypeOK, OverNoMore, NotBegun, OneSwitch, AtWork, Fresh, SipAnswers,
      Answered, Busy, Undecided
<1>36. CASE Hangup
  BY <1>36, CalmMeans DEF TypeOK, OverNoMore, NotBegun, OneSwitch, AtWork, Fresh, SipAnswers,
      Hangup, Busy, Undecided
<1>37. CASE Ends
  BY <1>37, CalmMeans DEF TypeOK, OverNoMore, NotBegun, OneSwitch, AtWork, Fresh, SipAnswers,
      Ends, Busy, Undecided
<1>38. CASE Delete
  BY <1>38, CalmMeans DEF TypeOK, OverNoMore, NotBegun, OneSwitch, AtWork, Fresh, SipAnswers,
      Delete, Closes, Becomes, Busy, Undecided
<1>39. CASE UNCHANGED vars
  BY <1>39 DEF vars, TypeOK, Busy, Undecided, OverNoMore, NotBegun, OneSwitch, AtWork, Fresh,
      SipAnswers
<1> QED
  BY <1>1, <1>2, <1>3, <1>4, <1>5, <1>6, <1>7, <1>8, <1>9, <1>10, <1>11, <1>12, <1>13, <1>14,
      <1>15, <1>16, <1>17, <1>18, <1>19, <1>20, <1>21, <1>22, <1>23, <1>24, <1>25, <1>26, <1>27,
      <1>28, <1>29, <1>30, <1>31, <1>32, <1>33, <1>34, <1>35, <1>36, <1>37, <1>38,
      <1>39 DEF Next, SwitchStep, SipStep, AnswerStep, ResumeStep, IceStep

(* Nobody undoes an attempt at work. *)
LEMMA AtWorkStep ==
  ASSUME TypeOK, Calm, NoEvents, OverNoMore, SipAnswers, NotBegun, OneSwitch, AtWork, Replacing,
         Connected, Fresh, Applied, [Next]_vars
  PROVE  AtWork'
<1> USE Names, NamesAssumption, WorldsAssumption
       DEF signalling, claims, conns, attempts
<1>1. ASSUME NEW g \in Gens, Claim(g) PROVE AtWork'
  BY <1>1, CalmMeans DEF TypeOK, NoEvents, OverNoMore, SipAnswers, NotBegun, OneSwitch, AtWork,
      Replacing, Connected, Fresh, Applied, Claim, MayBegin, SwitchGoes, NoNegotiation,
      NoAttempt, May, Busy, Undecided
<1>2. ASSUME NEW g \in Gens, Begin(g) PROVE AtWork'
  <2>1. \A h \in Gens : Busy(h)' => h = g
    BY <1>2 DEF TypeOK, OneSwitch, Busy, Begin, SwitchGoes
  <2>2. Busy(g) /\ switch[g] = "claimed" /\ switch'[g] \in {"notify", "release"}
    BY <1>2 DEF TypeOK, Busy, Begin, SwitchGoes
  <2>3. /\ callbacks' = callbacks /\ aborts' = aborts /\ answer' = answer /\ hold' = hold /\ ready' = ready
        /\ pc' = pc /\ ice' = ice /\ legacy' = legacy /\ deleted' = deleted
    BY <1>2 DEF Begin
  <2>4. switch'[g] = "release" => pending' = None
    BY <1>2, <2>2 DEF AtWork, Begin, SwitchGoes, TypeOK
  <2>5. pending' \in {None, g}
    BY <1>2, <2>2 DEF AtWork, Begin
  <2> QED
    BY <2>1, <2>2, <2>3, <2>4, <2>5 DEF AtWork
<1>3. ASSUME NEW g \in Gens, Release(g) PROVE AtWork'
  <2>1. switch[g] = "release" /\ switch' = [switch EXCEPT ![g] = "done"]
    BY <1>3 DEF Release, SwitchGoes
  <2>2. Busy(g) /\ (\A h \in Gens : Busy(h) => h = g)
    BY <2>1 DEF OneSwitch, Busy
  <2>3. \A h \in Gens : ~Busy(h)'
    BY <2>1, <2>2 DEF TypeOK, Busy
  <2> QED
    BY <2>3 DEF AtWork
<1>4. ASSUME NEW g \in Gens, Notify(g) PROVE AtWork'
  BY <1>4, CalmMeans DEF TypeOK, NoEvents, OverNoMore, SipAnswers, NotBegun, OneSwitch, AtWork,
      Replacing, Connected, Fresh, Applied, Notify, SwitchGoes, Ask, Busy, Undecided
<1>5. ASSUME NEW g \in Gens, ReadOld(g) PROVE AtWork'
  BY <1>5, CalmMeans DEF TypeOK, NoEvents, OverNoMore, SipAnswers, NotBegun, OneSwitch, AtWork,
      Replacing, Connected, Fresh, Applied, ReadOld, SwitchGoes, Busy, Undecided
<1>6. ASSUME NEW g \in Gens, Park(g) PROVE AtWork'
  BY <1>6, CalmMeans DEF TypeOK, NoEvents, OverNoMore, SipAnswers, NotBegun, OneSwitch, AtWork,
      Replacing, Connected, Fresh, Applied, Park, SwitchGoes, Create, Becomes, Busy, Undecided
<1>7. ASSUME NEW g \in Gens, Install(g) PROVE AtWork'
  <2>1. \A h \in Gens : ~Busy(h)'
    BY <1>7 DEF TypeOK, OneSwitch, Busy, Install, SwitchGoes
  <2> QED
    BY <2>1 DEF AtWork
<1>8. ASSUME NEW g \in Gens, PrepareFails(g) PROVE AtWork'
  BY <1>8, CalmMeans DEF TypeOK, NoEvents, OverNoMore, SipAnswers, NotBegun, OneSwitch, AtWork,
      Replacing, Connected, Fresh, Applied, PrepareFails, May, SwitchGoes, Fail, Clear, Busy,
      Undecided
<1>9. ASSUME NEW g \in Gens, Failed(g) PROVE AtWork'
  BY <1>9, CalmMeans DEF TypeOK, NoEvents, OverNoMore, SipAnswers, NotBegun, OneSwitch, AtWork,
      Replacing, Connected, Fresh, Applied, Failed, SwitchGoes, Unclaim, Busy, Undecided
<1>10. ASSUME NEW r \in Sips, Reinvite(r) PROVE AtWork'
  BY <1>10, CalmMeans DEF TypeOK, NoEvents, OverNoMore, SipAnswers, NotBegun, OneSwitch, AtWork,
      Replacing, Connected, Fresh, Applied, Reinvite, May, NoAttempt, MayBegin, SipGoes, Busy,
      Undecided
<1>11. ASSUME NEW r \in Sips, Refuse(r) PROVE AtWork'
  BY <1>11, CalmMeans DEF TypeOK, NoEvents, OverNoMore, SipAnswers, NotBegun, OneSwitch, AtWork,
      Replacing, Connected, Fresh, Applied, Refuse, Fail, Clear, Busy, Undecided
<1>12. ASSUME NEW r \in Sips, Accept(r) PROVE AtWork'
  BY <1>12, CalmMeans DEF TypeOK, NoEvents, OverNoMore, SipAnswers, NotBegun, OneSwitch, AtWork,
      Replacing, Connected, Fresh, Applied, Accept, SipGoes, Ask, Busy, Undecided
<1>13. ASSUME NEW r \in Sips, Respond(r) PROVE AtWork'
  BY <1>13, CalmMeans DEF TypeOK, NoEvents, OverNoMore, SipAnswers, NotBegun, OneSwitch, AtWork,
      Replacing, Connected, Fresh, Applied, Respond, SipGoes, Complete, Clear, Busy, Undecided
<1>14. ASSUME NEW i \in Ids, ClientFails(i) PROVE AtWork'
  BY <1>14, CalmMeans DEF TypeOK, NoEvents, OverNoMore, SipAnswers, NotBegun, OneSwitch, AtWork,
      Replacing, Connected, Fresh, Applied, ClientFails, Installed, May, AnswerGoes, Fail,
      Clear, Busy, Undecided
<1>15. ASSUME NEW i \in Ids, ClientAnswers(i) PROVE AtWork'
  BY <1>15, CalmMeans DEF TypeOK, NoEvents, OverNoMore, SipAnswers, NotBegun, OneSwitch, AtWork,
      Replacing, Connected, Fresh, Applied, ClientAnswers, AnswerGoes, Busy, Undecided
<1>16. ASSUME NEW i \in Ids, Await(i) PROVE AtWork'
  BY <1>16, CalmMeans DEF TypeOK, NoEvents, OverNoMore, SipAnswers, NotBegun, OneSwitch, AtWork,
      Replacing, Connected, Fresh, Applied, Await, AnswerGoes, Installed, May, Busy, Undecided
<1>17. ASSUME NEW i \in Ids, TakePC(i) PROVE AtWork'
  BY <1>17, CalmMeans DEF TypeOK, NoEvents, OverNoMore, SipAnswers, NotBegun, OneSwitch, AtWork,
      Replacing, Connected, Fresh, Applied, TakePC, AnswerGoes, Busy, Undecided
<1>18. ASSUME NEW i \in Ids, ApplyOffer(i) PROVE AtWork'
  BY <1>18, CalmMeans DEF TypeOK, NoEvents, OverNoMore, SipAnswers, NotBegun, OneSwitch, AtWork,
      Replacing, Connected, Fresh, Applied, ApplyOffer, AnswerGoes, Becomes, Busy, Undecided
<1>19. ASSUME NEW i \in Ids, AnswerOk(i) PROVE AtWork'
  BY <1>19, CalmMeans DEF TypeOK, NoEvents, OverNoMore, SipAnswers, NotBegun, OneSwitch, AtWork,
      Replacing, Connected, Fresh, Applied, AnswerOk, AnswerGoes, Complete, Clear, Tell, Busy,
      Undecided
<1>20. ASSUME NEW i \in Ids, AnswerError(i) PROVE AtWork'
  BY <1>20, CalmMeans DEF TypeOK, NoEvents, OverNoMore, SipAnswers, NotBegun, OneSwitch, AtWork,
      Replacing, Connected, Fresh, Applied, AnswerError, AnswerGoes, Fail, Clear, Busy,
      Undecided
<1>21. ASSUME NEW i \in Ids, Timeout(i) PROVE AtWork'
  BY <1>21, CalmMeans DEF TypeOK, NoEvents, OverNoMore, SipAnswers, NotBegun, OneSwitch, AtWork,
      Replacing, Connected, Fresh, Applied, Timeout, Timely, Installed, May, Fail, Clear, Tell,
      Busy, Undecided
<1>22. ASSUME NEW r \in Resumes, StartResume(r) PROVE AtWork'
  BY <1>22, CalmMeans DEF TypeOK, NoEvents, OverNoMore, SipAnswers, NotBegun, OneSwitch, AtWork,
      Replacing, Connected, Fresh, Applied, StartResume, May, ResumeGoes, Resumable, Busy,
      Undecided
<1>23. ASSUME NEW r \in Resumes, Swap(r) PROVE AtWork'
  BY <1>23, CalmMeans DEF TypeOK, NoEvents, OverNoMore, SipAnswers, NotBegun, OneSwitch, AtWork,
      Replacing, Connected, Fresh, Applied, Swap, ResumeGoes, Closes, Becomes, Busy, Undecided
<1>24. ASSUME NEW r \in Resumes, ResumeCreates(r) PROVE AtWork'
  BY <1>24, CalmMeans DEF TypeOK, NoEvents, OverNoMore, SipAnswers, NotBegun, OneSwitch, AtWork,
      Replacing, Connected, Fresh, Applied, ResumeCreates, ResumeGoes, Create, Becomes, Busy,
      Undecided
<1>25. ASSUME NEW r \in Resumes, ResumeInstalls(r) PROVE AtWork'
  BY <1>25, CalmMeans DEF TypeOK, NoEvents, OverNoMore, SipAnswers, NotBegun, OneSwitch, AtWork,
      Replacing, Connected, Fresh, Applied, ResumeInstalls, ResumeGoes, Closes, Becomes, Busy,
      Undecided
<1>26. ASSUME NEW r \in Resumes, Resumed(r) PROVE AtWork'
  BY <1>26, CalmMeans DEF TypeOK, NoEvents, OverNoMore, SipAnswers, NotBegun, OneSwitch, AtWork,
      Replacing, Connected, Fresh, Applied, Resumed, ResumeGoes, Busy, Undecided
<1>27. ASSUME NEW p \in PCs, Loses(p) PROVE AtWork'
  BY <1>27, CalmMeans DEF TypeOK, NoEvents, OverNoMore, SipAnswers, NotBegun, OneSwitch, AtWork,
      Replacing, Connected, Fresh, Applied, Loses, May, Becomes, CleaningUp, Busy, Undecided
<1>28. ASSUME NEW p \in PCs, Connects(p) PROVE AtWork'
  BY <1>28, CalmMeans DEF TypeOK, NoEvents, OverNoMore, SipAnswers, NotBegun, OneSwitch, AtWork,
      Replacing, Connected, Fresh, Applied, Connects, Becomes, Calls, Busy, Undecided
<1>29. ASSUME NEW p \in PCs, FailsIce(p) PROVE AtWork'
  BY <1>29, CalmMeans DEF TypeOK, NoEvents, OverNoMore, SipAnswers, NotBegun, OneSwitch, AtWork,
      Replacing, Connected, Fresh, Applied, FailsIce, Becomes, Calls, CleaningUp, Busy,
      Undecided
<1>30. ASSUME NEW p \in PCs, OnConnected(p) PROVE AtWork'
  BY <1>30, CalmMeans DEF TypeOK, NoEvents, OverNoMore, SipAnswers, NotBegun, OneSwitch, AtWork,
      Replacing, Connected, Fresh, Applied, OnConnected, Busy, Undecided
<1>31. ASSUME NEW p \in PCs, Commit(p) PROVE AtWork'
  BY <1>31, CalmMeans DEF TypeOK, NoEvents, OverNoMore, SipAnswers, NotBegun, OneSwitch, AtWork,
      Replacing, Connected, Fresh, Applied, Commit, Closes, Becomes, Busy, Undecided
<1>32. ASSUME NEW p \in PCs, OnFailed(p) PROVE AtWork'
  BY <1>32, CalmMeans DEF TypeOK, NoEvents, OverNoMore, SipAnswers, NotBegun, OneSwitch, AtWork,
      Replacing, Connected, Fresh, Applied, OnFailed, Restore, Closes, Becomes, Busy, Undecided
<1>33. CASE Abort
  BY <1>33, CalmMeans DEF TypeOK, NoEvents, OverNoMore, SipAnswers, NotBegun, OneSwitch, AtWork,
      Replacing, Connected, Fresh, Applied, Abort, Restore, Closes, Becomes, Busy, Undecided
<1>34. CASE GraceOver
  BY <1>34, CalmMeans DEF TypeOK, NoEvents, OverNoMore, SipAnswers, NotBegun, OneSwitch, AtWork,
      Replacing, Connected, Fresh, Applied, GraceOver, Busy, Undecided
<1>35. CASE Answered
  BY <1>35, CalmMeans DEF TypeOK, NoEvents, OverNoMore, SipAnswers, NotBegun, OneSwitch, AtWork,
      Replacing, Connected, Fresh, Applied, Answered, Busy, Undecided
<1>36. CASE Hangup
  BY <1>36, CalmMeans DEF TypeOK, NoEvents, OverNoMore, SipAnswers, NotBegun, OneSwitch, AtWork,
      Replacing, Connected, Fresh, Applied, Hangup, Busy, Undecided
<1>37. CASE Ends
  BY <1>37, CalmMeans DEF TypeOK, NoEvents, OverNoMore, SipAnswers, NotBegun, OneSwitch, AtWork,
      Replacing, Connected, Fresh, Applied, Ends, Busy, Undecided
<1>38. CASE Delete
  BY <1>38, CalmMeans DEF TypeOK, NoEvents, OverNoMore, SipAnswers, NotBegun, OneSwitch, AtWork,
      Replacing, Connected, Fresh, Applied, Delete, Closes, Becomes, Busy, Undecided
<1>39. CASE UNCHANGED vars
  BY <1>39 DEF vars, TypeOK, Busy, Undecided, NoEvents, OverNoMore, SipAnswers, NotBegun,
      OneSwitch, AtWork, Replacing, Connected, Fresh, Applied
<1> QED
  BY <1>1, <1>2, <1>3, <1>4, <1>5, <1>6, <1>7, <1>8, <1>9, <1>10, <1>11, <1>12, <1>13, <1>14,
      <1>15, <1>16, <1>17, <1>18, <1>19, <1>20, <1>21, <1>22, <1>23, <1>24, <1>25, <1>26, <1>27,
      <1>28, <1>29, <1>30, <1>31, <1>32, <1>33, <1>34, <1>35, <1>36, <1>37, <1>38,
      <1>39 DEF Next, SwitchStep, SipStep, AnswerStep, ResumeStep, IceStep

(* The replacement is untouched before it is installed. *)
LEMMA ReplacingStep ==
  ASSUME TypeOK, Calm, NoEvents, NotBegun, OneSwitch, AtWork, Replacing, Known, Connected,
         Fresh, Applied, SipAnswers, [Next]_vars
  PROVE  Replacing'
<1> USE Names, NamesAssumption, WorldsAssumption
       DEF signalling, claims, conns, attempts
<1>1. ASSUME NEW g \in Gens, Claim(g) PROVE Replacing'
  BY <1>1, CalmMeans DEF TypeOK, NoEvents, NotBegun, OneSwitch, AtWork, Replacing, Known,
      Connected, Fresh, Applied, SipAnswers, Claim, MayBegin, SwitchGoes, NoNegotiation,
      NoAttempt, May, Busy, Undecided
<1>2. ASSUME NEW g \in Gens, Begin(g) PROVE Replacing'
  BY <1>2, CalmMeans DEF TypeOK, NoEvents, NotBegun, OneSwitch, AtWork, Replacing, Known,
      Connected, Fresh, Applied, SipAnswers, Begin, SwitchGoes, MayBegin, Busy, Undecided
<1>3. ASSUME NEW g \in Gens, Release(g) PROVE Replacing'
  BY <1>3, CalmMeans DEF TypeOK, NoEvents, NotBegun, OneSwitch, AtWork, Replacing, Known,
      Connected, Fresh, Applied, SipAnswers, Release, SwitchGoes, Unclaim, Busy, Undecided
<1>4. ASSUME NEW g \in Gens, Notify(g) PROVE Replacing'
  BY <1>4, CalmMeans DEF TypeOK, NoEvents, NotBegun, OneSwitch, AtWork, Replacing, Known,
      Connected, Fresh, Applied, SipAnswers, Notify, SwitchGoes, Ask, Busy, Undecided
<1>5. ASSUME NEW g \in Gens, ReadOld(g) PROVE Replacing'
  BY <1>5, CalmMeans DEF TypeOK, NoEvents, NotBegun, OneSwitch, AtWork, Replacing, Known,
      Connected, Fresh, Applied, SipAnswers, ReadOld, SwitchGoes, Busy, Undecided
<1>6. ASSUME NEW g \in Gens, Park(g) PROVE Replacing'
  <2>1. PICK p \in PCs : ice[p] = "unused" /\ ice' = Becomes({p}, "new") /\ new' = [new EXCEPT ![g] = p]
    BY <1>6 DEF Park, Create
  <2>2. \A q \in PCs : ice'[q] = IF q = p THEN "new" ELSE ice[q]
    BY <2>1 DEF TypeOK, Becomes
  <2>3. /\ switch[g] = "create" /\ switch'[g] = "store" /\ new'[g] = p /\ pc' = pc
        /\ legacy' = (IF old[g] = None THEN legacy ELSE old[g]) /\ video' = p
        /\ \A h \in Gens : h # g => switch'[h] = switch[h] /\ new'[h] = new[h]
        /\ \A r \in Resumes : r \notin Gens => new'[r] = new[r]
    BY <1>6, <2>1 DEF Park, SwitchGoes, TypeOK
  <2>4. Busy(g) /\ (\A h \in Gens : switch[h] = "store" => h = g)
    BY <2>3 DEF Busy, OneSwitch
  <2>6. /\ deleted => pc = None
        /\ pc # None => ice[pc] = "connected"
        /\ legacy = None
        /\ IF deleted THEN old[g] = None \/ ice[old[g]] # "unused" ELSE old[g] = pc
    BY <2>3, <2>4 DEF AtWork
  <2>7. None \notin PCs /\ p \in PCs
    OBVIOUS
  <2>8. p # pc
    BY <2>1, <2>6, <2>7
  <2>9. p # legacy'
    <3>1. CASE old[g] = None
      BY <2>3, <2>6, <2>7, <3>1
    <3>2. CASE old[g] # None
      BY <2>1, <2>3, <2>6, <2>7, <2>8, <3>2
    <3> QED BY <3>1, <3>2
  <2>5. p \notin {pc', legacy'}
    BY <2>3, <2>8, <2>9
  <2> QED
    BY <2>2, <2>3, <2>4, <2>5 DEF Replacing
<1>7. ASSUME NEW g \in Gens, Install(g) PROVE Replacing'
  BY <1>7, CalmMeans DEF TypeOK, NoEvents, NotBegun, OneSwitch, AtWork, Replacing, Known,
      Connected, Fresh, Applied, SipAnswers, Install, SwitchGoes, Busy, Undecided
<1>8. ASSUME NEW g \in Gens, PrepareFails(g) PROVE Replacing'
  BY <1>8, CalmMeans DEF TypeOK, NoEvents, NotBegun, OneSwitch, AtWork, Replacing, Known,
      Connected, Fresh, Applied, SipAnswers, PrepareFails, May, SwitchGoes, Fail, Clear, Busy,
      Undecided
<1>9. ASSUME NEW g \in Gens, Failed(g) PROVE Replacing'
  BY <1>9, CalmMeans DEF TypeOK, NoEvents, NotBegun, OneSwitch, AtWork, Replacing, Known,
      Connected, Fresh, Applied, SipAnswers, Failed, SwitchGoes, Unclaim, Busy, Undecided
<1>10. ASSUME NEW r \in Sips, Reinvite(r) PROVE Replacing'
  BY <1>10, CalmMeans DEF TypeOK, NoEvents, NotBegun, OneSwitch, AtWork, Replacing, Known,
      Connected, Fresh, Applied, SipAnswers, Reinvite, May, NoAttempt, MayBegin, SipGoes, Busy,
      Undecided
<1>11. ASSUME NEW r \in Sips, Refuse(r) PROVE Replacing'
  BY <1>11, CalmMeans DEF TypeOK, NoEvents, NotBegun, OneSwitch, AtWork, Replacing, Known,
      Connected, Fresh, Applied, SipAnswers, Refuse, Fail, Clear, Busy, Undecided
<1>12. ASSUME NEW r \in Sips, Accept(r) PROVE Replacing'
  BY <1>12, CalmMeans DEF TypeOK, NoEvents, NotBegun, OneSwitch, AtWork, Replacing, Known,
      Connected, Fresh, Applied, SipAnswers, Accept, SipGoes, Ask, Busy, Undecided
<1>13. ASSUME NEW r \in Sips, Respond(r) PROVE Replacing'
  BY <1>13, CalmMeans DEF TypeOK, NoEvents, NotBegun, OneSwitch, AtWork, Replacing, Known,
      Connected, Fresh, Applied, SipAnswers, Respond, SipGoes, Complete, Clear, Busy, Undecided
<1>14. ASSUME NEW i \in Ids, ClientFails(i) PROVE Replacing'
  BY <1>14, CalmMeans DEF TypeOK, NoEvents, NotBegun, OneSwitch, AtWork, Replacing, Known,
      Connected, Fresh, Applied, SipAnswers, ClientFails, Installed, May, AnswerGoes, Fail,
      Clear, Busy, Undecided
<1>15. ASSUME NEW i \in Ids, ClientAnswers(i) PROVE Replacing'
  BY <1>15, CalmMeans DEF TypeOK, NoEvents, NotBegun, OneSwitch, AtWork, Replacing, Known,
      Connected, Fresh, Applied, SipAnswers, ClientAnswers, AnswerGoes, Busy, Undecided
<1>16. ASSUME NEW i \in Ids, Await(i) PROVE Replacing'
  BY <1>16, CalmMeans DEF TypeOK, NoEvents, NotBegun, OneSwitch, AtWork, Replacing, Known,
      Connected, Fresh, Applied, SipAnswers, Await, AnswerGoes, Installed, May, Busy, Undecided
<1>17. ASSUME NEW i \in Ids, TakePC(i) PROVE Replacing'
  BY <1>17, CalmMeans DEF TypeOK, NoEvents, NotBegun, OneSwitch, AtWork, Replacing, Known,
      Connected, Fresh, Applied, SipAnswers, TakePC, AnswerGoes, Busy, Undecided
<1>18. ASSUME NEW i \in Ids, ApplyOffer(i) PROVE Replacing'
  BY <1>18, CalmMeans DEF TypeOK, NoEvents, NotBegun, OneSwitch, AtWork, Replacing, Known,
      Connected, Fresh, Applied, SipAnswers, ApplyOffer, AnswerGoes, Becomes, Busy, Undecided
<1>19. ASSUME NEW i \in Ids, AnswerOk(i) PROVE Replacing'
  BY <1>19, CalmMeans DEF TypeOK, NoEvents, NotBegun, OneSwitch, AtWork, Replacing, Known,
      Connected, Fresh, Applied, SipAnswers, AnswerOk, AnswerGoes, Complete, Clear, Tell, Busy,
      Undecided
<1>20. ASSUME NEW i \in Ids, AnswerError(i) PROVE Replacing'
  BY <1>20, CalmMeans DEF TypeOK, NoEvents, NotBegun, OneSwitch, AtWork, Replacing, Known,
      Connected, Fresh, Applied, SipAnswers, AnswerError, AnswerGoes, Fail, Clear, Busy,
      Undecided
<1>21. ASSUME NEW i \in Ids, Timeout(i) PROVE Replacing'
  BY <1>21, CalmMeans DEF TypeOK, NoEvents, NotBegun, OneSwitch, AtWork, Replacing, Known,
      Connected, Fresh, Applied, SipAnswers, Timeout, Timely, Installed, May, Fail, Clear, Tell,
      Busy, Undecided
<1>22. ASSUME NEW r \in Resumes, StartResume(r) PROVE Replacing'
  BY <1>22, CalmMeans DEF TypeOK, NoEvents, NotBegun, OneSwitch, AtWork, Replacing, Known,
      Connected, Fresh, Applied, SipAnswers, StartResume, May, ResumeGoes, Resumable, Busy,
      Undecided
<1>23. ASSUME NEW r \in Resumes, Swap(r) PROVE Replacing'
  BY <1>23, CalmMeans DEF TypeOK, NoEvents, NotBegun, OneSwitch, AtWork, Replacing, Known,
      Connected, Fresh, Applied, SipAnswers, Swap, ResumeGoes, Closes, Becomes, Busy, Undecided
<1>24. ASSUME NEW r \in Resumes, ResumeCreates(r) PROVE Replacing'
  BY <1>24, CalmMeans DEF TypeOK, NoEvents, NotBegun, OneSwitch, AtWork, Replacing, Known,
      Connected, Fresh, Applied, SipAnswers, ResumeCreates, ResumeGoes, Create, Becomes, Busy,
      Undecided
<1>25. ASSUME NEW r \in Resumes, ResumeInstalls(r) PROVE Replacing'
  BY <1>25, CalmMeans DEF TypeOK, NoEvents, NotBegun, OneSwitch, AtWork, Replacing, Known,
      Connected, Fresh, Applied, SipAnswers, ResumeInstalls, ResumeGoes, Closes, Becomes, Busy,
      Undecided
<1>26. ASSUME NEW r \in Resumes, Resumed(r) PROVE Replacing'
  BY <1>26, CalmMeans DEF TypeOK, NoEvents, NotBegun, OneSwitch, AtWork, Replacing, Known,
      Connected, Fresh, Applied, SipAnswers, Resumed, ResumeGoes, Busy, Undecided
<1>27. ASSUME NEW p \in PCs, Loses(p) PROVE Replacing'
  BY <1>27, CalmMeans DEF TypeOK, NoEvents, NotBegun, OneSwitch, AtWork, Replacing, Known,
      Connected, Fresh, Applied, SipAnswers, Loses, May, Becomes, CleaningUp, Busy, Undecided
<1>28. ASSUME NEW p \in PCs, Connects(p) PROVE Replacing'
  BY <1>28, CalmMeans DEF TypeOK, NoEvents, NotBegun, OneSwitch, AtWork, Replacing, Known,
      Connected, Fresh, Applied, SipAnswers, Connects, Becomes, Calls, Busy, Undecided
<1>29. ASSUME NEW p \in PCs, FailsIce(p) PROVE Replacing'
  BY <1>29, CalmMeans DEF TypeOK, NoEvents, NotBegun, OneSwitch, AtWork, Replacing, Known,
      Connected, Fresh, Applied, SipAnswers, FailsIce, Becomes, Calls, CleaningUp, Busy,
      Undecided
<1>30. ASSUME NEW p \in PCs, OnConnected(p) PROVE Replacing'
  BY <1>30, CalmMeans, ZenonT(40) DEF TypeOK, NoEvents, NotBegun, OneSwitch, AtWork, Replacing, Known,
      Connected, Fresh, Applied, SipAnswers, OnConnected, Busy, Undecided
<1>31. ASSUME NEW p \in PCs, Commit(p) PROVE Replacing'
  BY <1>31, CalmMeans DEF TypeOK, NoEvents, NotBegun, OneSwitch, AtWork, Replacing, Known,
      Connected, Fresh, Applied, SipAnswers, Commit, Closes, Becomes, Busy, Undecided
<1>32. ASSUME NEW p \in PCs, OnFailed(p) PROVE Replacing'
  BY <1>32, CalmMeans DEF TypeOK, NoEvents, NotBegun, OneSwitch, AtWork, Replacing, Known,
      Connected, Fresh, Applied, SipAnswers, OnFailed, Restore, Closes, Becomes, Busy, Undecided
<1>33. CASE Abort
  BY <1>33, CalmMeans DEF TypeOK, NoEvents, NotBegun, OneSwitch, AtWork, Replacing, Known,
      Connected, Fresh, Applied, SipAnswers, Abort, Restore, Closes, Becomes, Busy, Undecided
<1>34. CASE GraceOver
  BY <1>34, CalmMeans DEF TypeOK, NoEvents, NotBegun, OneSwitch, AtWork, Replacing, Known,
      Connected, Fresh, Applied, SipAnswers, GraceOver, Busy, Undecided
<1>35. CASE Answered
  BY <1>35, CalmMeans DEF TypeOK, NoEvents, NotBegun, OneSwitch, AtWork, Replacing, Known,
      Connected, Fresh, Applied, SipAnswers, Answered, Busy, Undecided
<1>36. CASE Hangup
  BY <1>36, CalmMeans DEF TypeOK, NoEvents, NotBegun, OneSwitch, AtWork, Replacing, Known,
      Connected, Fresh, Applied, SipAnswers, Hangup, Busy, Undecided
<1>37. CASE Ends
  BY <1>37, CalmMeans DEF TypeOK, NoEvents, NotBegun, OneSwitch, AtWork, Replacing, Known,
      Connected, Fresh, Applied, SipAnswers, Ends, Busy, Undecided
<1>38. CASE Delete
  BY <1>38, CalmMeans DEF TypeOK, NoEvents, NotBegun, OneSwitch, AtWork, Replacing, Known,
      Connected, Fresh, Applied, SipAnswers, Delete, Closes, Becomes, Busy, Undecided
<1>39. CASE UNCHANGED vars
  BY <1>39 DEF vars, TypeOK, Busy, Undecided, NoEvents, NotBegun, OneSwitch, AtWork, Replacing,
      Known, Connected, Fresh, Applied, SipAnswers
<1> QED
  BY <1>1, <1>2, <1>3, <1>4, <1>5, <1>6, <1>7, <1>8, <1>9, <1>10, <1>11, <1>12, <1>13, <1>14,
      <1>15, <1>16, <1>17, <1>18, <1>19, <1>20, <1>21, <1>22, <1>23, <1>24, <1>25, <1>26, <1>27,
      <1>28, <1>29, <1>30, <1>31, <1>32, <1>33, <1>34, <1>35, <1>36, <1>37, <1>38,
      <1>39 DEF Next, SwitchStep, SipStep, AnswerStep, ResumeStep, IceStep

(* No PeerConnection is forgotten. *)
LEMMA KnownStep ==
  ASSUME TypeOK, Calm, NoEvents, OneSwitch, AtWork, Replacing, Known, Connected, Fresh, Applied,
         [Next]_vars
  PROVE  Known'
<1> USE Names, NamesAssumption, WorldsAssumption
       DEF signalling, claims, conns, attempts
<1>1. ASSUME NEW g \in Gens, Claim(g) PROVE Known'
  BY <1>1, CalmMeans DEF TypeOK, NoEvents, OneSwitch, AtWork, Replacing, Known, Connected,
      Fresh, Applied, Claim, MayBegin, SwitchGoes, NoNegotiation, NoAttempt, May, Busy,
      Undecided
<1>2. ASSUME NEW g \in Gens, Begin(g) PROVE Known'
  BY <1>2, CalmMeans DEF TypeOK, NoEvents, OneSwitch, AtWork, Replacing, Known, Connected,
      Fresh, Applied, Begin, SwitchGoes, MayBegin, Busy, Undecided
<1>3. ASSUME NEW g \in Gens, Release(g) PROVE Known'
  BY <1>3, CalmMeans DEF TypeOK, NoEvents, OneSwitch, AtWork, Replacing, Known, Connected,
      Fresh, Applied, Release, SwitchGoes, Unclaim, Busy, Undecided
<1>4. ASSUME NEW g \in Gens, Notify(g) PROVE Known'
  BY <1>4, CalmMeans DEF TypeOK, NoEvents, OneSwitch, AtWork, Replacing, Known, Connected,
      Fresh, Applied, Notify, SwitchGoes, Ask, Busy, Undecided
<1>5. ASSUME NEW g \in Gens, ReadOld(g) PROVE Known'
  BY <1>5, CalmMeans DEF TypeOK, NoEvents, OneSwitch, AtWork, Replacing, Known, Connected,
      Fresh, Applied, ReadOld, SwitchGoes, Busy, Undecided
<1>6. ASSUME NEW g \in Gens, Park(g) PROVE Known'
  <2>1. PICK p \in PCs : ice[p] = "unused" /\ ice' = Becomes({p}, "new") /\ new' = [new EXCEPT ![g] = p]
    BY <1>6 DEF Park, Create
  <2>2. \A q \in PCs : ice'[q] = IF q = p THEN "new" ELSE ice[q]
    BY <2>1 DEF TypeOK, Becomes
  <2>3. /\ switch[g] = "create" /\ switch'[g] = "store" /\ new'[g] = p /\ pc' = pc
        /\ legacy' = (IF old[g] = None THEN legacy ELSE old[g]) /\ video' = p
        /\ \A h \in Gens : h # g => switch'[h] = switch[h] /\ new'[h] = new[h]
        /\ \A r \in Resumes : r \notin Gens => new'[r] = new[r]
    BY <1>6, <2>1 DEF Park, SwitchGoes, TypeOK
  <2>4. Busy(g) /\ (\A h \in Gens : switch[h] = "store" => h = g)
    BY <2>3 DEF Busy, OneSwitch
  <2>5. legacy = None /\ (\A h \in Gens : switch[h] # "store")
    BY <2>3, <2>4 DEF AtWork
  <2>6. \A q \in PCs : ice[q] \in {"unused", "closed", "failed"} \/ q = pc
    BY <2>5 DEF Known
  <2> QED
    BY <2>2, <2>3, <2>6 DEF Known
<1>7. ASSUME NEW g \in Gens, Install(g) PROVE Known'
  <2>1. /\ switch[g] = "store" /\ pc' = new[g] /\ legacy' = legacy /\ ice' = ice
        /\ \A h \in Gens : h # g => switch'[h] = switch[h] /\ new'[h] = new[h]
    BY <1>7 DEF Install, SwitchGoes, TypeOK
  <2>2. \A h \in Gens : switch[h] = "store" => h = g
    BY <2>1 DEF OneSwitch, Busy
  <2>3. deleted \/ legacy = pc
    BY <2>1 DEF AtWork, Busy
  <2>4. deleted => pc = None
    BY <2>1 DEF AtWork, Busy
  <2> QED
    BY <2>1, <2>2, <2>3, <2>4 DEF Known
<1>8. ASSUME NEW g \in Gens, PrepareFails(g) PROVE Known'
  BY <1>8, CalmMeans DEF TypeOK, NoEvents, OneSwitch, AtWork, Replacing, Known, Connected,
      Fresh, Applied, PrepareFails, May, SwitchGoes, Fail, Clear, Busy, Undecided
<1>9. ASSUME NEW g \in Gens, Failed(g) PROVE Known'
  BY <1>9, CalmMeans DEF TypeOK, NoEvents, OneSwitch, AtWork, Replacing, Known, Connected,
      Fresh, Applied, Failed, SwitchGoes, Unclaim, Busy, Undecided
<1>10. ASSUME NEW r \in Sips, Reinvite(r) PROVE Known'
  BY <1>10, CalmMeans DEF TypeOK, NoEvents, OneSwitch, AtWork, Replacing, Known, Connected,
      Fresh, Applied, Reinvite, May, NoAttempt, MayBegin, SipGoes, Busy, Undecided
<1>11. ASSUME NEW r \in Sips, Refuse(r) PROVE Known'
  BY <1>11, CalmMeans DEF TypeOK, NoEvents, OneSwitch, AtWork, Replacing, Known, Connected,
      Fresh, Applied, Refuse, Fail, Clear, Busy, Undecided
<1>12. ASSUME NEW r \in Sips, Accept(r) PROVE Known'
  BY <1>12, CalmMeans DEF TypeOK, NoEvents, OneSwitch, AtWork, Replacing, Known, Connected,
      Fresh, Applied, Accept, SipGoes, Ask, Busy, Undecided
<1>13. ASSUME NEW r \in Sips, Respond(r) PROVE Known'
  BY <1>13, CalmMeans DEF TypeOK, NoEvents, OneSwitch, AtWork, Replacing, Known, Connected,
      Fresh, Applied, Respond, SipGoes, Complete, Clear, Busy, Undecided
<1>14. ASSUME NEW i \in Ids, ClientFails(i) PROVE Known'
  BY <1>14, CalmMeans DEF TypeOK, NoEvents, OneSwitch, AtWork, Replacing, Known, Connected,
      Fresh, Applied, ClientFails, Installed, May, AnswerGoes, Fail, Clear, Busy, Undecided
<1>15. ASSUME NEW i \in Ids, ClientAnswers(i) PROVE Known'
  BY <1>15, CalmMeans DEF TypeOK, NoEvents, OneSwitch, AtWork, Replacing, Known, Connected,
      Fresh, Applied, ClientAnswers, AnswerGoes, Busy, Undecided
<1>16. ASSUME NEW i \in Ids, Await(i) PROVE Known'
  BY <1>16, CalmMeans DEF TypeOK, NoEvents, OneSwitch, AtWork, Replacing, Known, Connected,
      Fresh, Applied, Await, AnswerGoes, Installed, May, Busy, Undecided
<1>17. ASSUME NEW i \in Ids, TakePC(i) PROVE Known'
  BY <1>17, CalmMeans DEF TypeOK, NoEvents, OneSwitch, AtWork, Replacing, Known, Connected,
      Fresh, Applied, TakePC, AnswerGoes, Busy, Undecided
<1>18. ASSUME NEW i \in Ids, ApplyOffer(i) PROVE Known'
  BY <1>18, CalmMeans DEF TypeOK, NoEvents, OneSwitch, AtWork, Replacing, Known, Connected,
      Fresh, Applied, ApplyOffer, AnswerGoes, Becomes, Busy, Undecided
<1>19. ASSUME NEW i \in Ids, AnswerOk(i) PROVE Known'
  BY <1>19, CalmMeans DEF TypeOK, NoEvents, OneSwitch, AtWork, Replacing, Known, Connected,
      Fresh, Applied, AnswerOk, AnswerGoes, Complete, Clear, Tell, Busy, Undecided
<1>20. ASSUME NEW i \in Ids, AnswerError(i) PROVE Known'
  BY <1>20, CalmMeans DEF TypeOK, NoEvents, OneSwitch, AtWork, Replacing, Known, Connected,
      Fresh, Applied, AnswerError, AnswerGoes, Fail, Clear, Busy, Undecided
<1>21. ASSUME NEW i \in Ids, Timeout(i) PROVE Known'
  BY <1>21, CalmMeans DEF TypeOK, NoEvents, OneSwitch, AtWork, Replacing, Known, Connected,
      Fresh, Applied, Timeout, Timely, Installed, May, Fail, Clear, Tell, Busy, Undecided
<1>22. ASSUME NEW r \in Resumes, StartResume(r) PROVE Known'
  BY <1>22, CalmMeans DEF TypeOK, NoEvents, OneSwitch, AtWork, Replacing, Known, Connected,
      Fresh, Applied, StartResume, May, ResumeGoes, Resumable, Busy, Undecided
<1>23. ASSUME NEW r \in Resumes, Swap(r) PROVE Known'
  BY <1>23, CalmMeans DEF TypeOK, NoEvents, OneSwitch, AtWork, Replacing, Known, Connected,
      Fresh, Applied, Swap, ResumeGoes, Closes, Becomes, Busy, Undecided
<1>24. ASSUME NEW r \in Resumes, ResumeCreates(r) PROVE Known'
  BY <1>24, CalmMeans DEF TypeOK, NoEvents, OneSwitch, AtWork, Replacing, Known, Connected,
      Fresh, Applied, ResumeCreates, ResumeGoes, Create, Becomes, Busy, Undecided
<1>25. ASSUME NEW r \in Resumes, ResumeInstalls(r) PROVE Known'
  BY <1>25, CalmMeans DEF TypeOK, NoEvents, OneSwitch, AtWork, Replacing, Known, Connected,
      Fresh, Applied, ResumeInstalls, ResumeGoes, Closes, Becomes, Busy, Undecided
<1>26. ASSUME NEW r \in Resumes, Resumed(r) PROVE Known'
  BY <1>26, CalmMeans DEF TypeOK, NoEvents, OneSwitch, AtWork, Replacing, Known, Connected,
      Fresh, Applied, Resumed, ResumeGoes, Busy, Undecided
<1>27. ASSUME NEW p \in PCs, Loses(p) PROVE Known'
  BY <1>27, CalmMeans DEF TypeOK, NoEvents, OneSwitch, AtWork, Replacing, Known, Connected,
      Fresh, Applied, Loses, May, Becomes, CleaningUp, Busy, Undecided
<1>28. ASSUME NEW p \in PCs, Connects(p) PROVE Known'
  BY <1>28, CalmMeans DEF TypeOK, NoEvents, OneSwitch, AtWork, Replacing, Known, Connected,
      Fresh, Applied, Connects, Becomes, Calls, Busy, Undecided
<1>29. ASSUME NEW p \in PCs, FailsIce(p) PROVE Known'
  BY <1>29, CalmMeans DEF TypeOK, NoEvents, OneSwitch, AtWork, Replacing, Known, Connected,
      Fresh, Applied, FailsIce, Becomes, Calls, CleaningUp, Busy, Undecided
<1>30. ASSUME NEW p \in PCs, OnConnected(p) PROVE Known'
  BY <1>30, CalmMeans DEF TypeOK, NoEvents, OneSwitch, AtWork, Replacing, Known, Connected,
      Fresh, Applied, OnConnected, Busy, Undecided
<1>31. ASSUME NEW p \in PCs, Commit(p) PROVE Known'
  BY <1>31, CalmMeans DEF TypeOK, NoEvents, OneSwitch, AtWork, Replacing, Known, Connected,
      Fresh, Applied, Commit, Closes, Becomes, Busy, Undecided
<1>32. ASSUME NEW p \in PCs, OnFailed(p) PROVE Known'
  BY <1>32, CalmMeans DEF TypeOK, NoEvents, OneSwitch, AtWork, Replacing, Known, Connected,
      Fresh, Applied, OnFailed, Restore, Closes, Becomes, Busy, Undecided
<1>33. CASE Abort
  BY <1>33, CalmMeans DEF TypeOK, NoEvents, OneSwitch, AtWork, Replacing, Known, Connected,
      Fresh, Applied, Abort, Restore, Closes, Becomes, Busy, Undecided
<1>34. CASE GraceOver
  BY <1>34, CalmMeans DEF TypeOK, NoEvents, OneSwitch, AtWork, Replacing, Known, Connected,
      Fresh, Applied, GraceOver, Busy, Undecided
<1>35. CASE Answered
  BY <1>35, CalmMeans DEF TypeOK, NoEvents, OneSwitch, AtWork, Replacing, Known, Connected,
      Fresh, Applied, Answered, Busy, Undecided
<1>36. CASE Hangup
  BY <1>36, CalmMeans DEF TypeOK, NoEvents, OneSwitch, AtWork, Replacing, Known, Connected,
      Fresh, Applied, Hangup, Busy, Undecided
<1>37. CASE Ends
  BY <1>37, CalmMeans DEF TypeOK, NoEvents, OneSwitch, AtWork, Replacing, Known, Connected,
      Fresh, Applied, Ends, Busy, Undecided
<1>38. CASE Delete
  BY <1>38, CalmMeans DEF TypeOK, NoEvents, OneSwitch, AtWork, Replacing, Known, Connected,
      Fresh, Applied, Delete, Closes, Becomes, Busy, Undecided
<1>39. CASE UNCHANGED vars
  BY <1>39 DEF vars, TypeOK, Busy, Undecided, NoEvents, OneSwitch, AtWork, Replacing, Known,
      Connected, Fresh, Applied
<1> QED
  BY <1>1, <1>2, <1>3, <1>4, <1>5, <1>6, <1>7, <1>8, <1>9, <1>10, <1>11, <1>12, <1>13, <1>14,
      <1>15, <1>16, <1>17, <1>18, <1>19, <1>20, <1>21, <1>22, <1>23, <1>24, <1>25, <1>26, <1>27,
      <1>28, <1>29, <1>30, <1>31, <1>32, <1>33, <1>34, <1>35, <1>36, <1>37, <1>38,
      <1>39 DEF Next, SwitchStep, SipStep, AnswerStep, ResumeStep, IceStep

(* The tracks follow. *)
LEMMA TracksStep ==
  ASSUME TypeOK, Calm, NoEvents, NotBegun, OneSwitch, AtWork, Replacing, Tracks, Fresh,
         [Next]_vars
  PROVE  Tracks'
<1> USE Names, NamesAssumption, WorldsAssumption
       DEF signalling, claims, conns, attempts
<1>1. ASSUME NEW g \in Gens, Claim(g) PROVE Tracks'
  BY <1>1, CalmMeans DEF TypeOK, NoEvents, NotBegun, OneSwitch, AtWork, Replacing, Tracks,
      Fresh, Claim, MayBegin, SwitchGoes, NoNegotiation, NoAttempt, May, Busy, Undecided
<1>2. ASSUME NEW g \in Gens, Begin(g) PROVE Tracks'
  BY <1>2, CalmMeans DEF TypeOK, NoEvents, NotBegun, OneSwitch, AtWork, Replacing, Tracks,
      Fresh, Begin, SwitchGoes, MayBegin, Busy, Undecided
<1>3. ASSUME NEW g \in Gens, Release(g) PROVE Tracks'
  BY <1>3, CalmMeans DEF TypeOK, NoEvents, NotBegun, OneSwitch, AtWork, Replacing, Tracks,
      Fresh, Release, SwitchGoes, Unclaim, Busy, Undecided
<1>4. ASSUME NEW g \in Gens, Notify(g) PROVE Tracks'
  BY <1>4, CalmMeans DEF TypeOK, NoEvents, NotBegun, OneSwitch, AtWork, Replacing, Tracks,
      Fresh, Notify, SwitchGoes, Ask, Busy, Undecided
<1>5. ASSUME NEW g \in Gens, ReadOld(g) PROVE Tracks'
  BY <1>5, CalmMeans DEF TypeOK, NoEvents, NotBegun, OneSwitch, AtWork, Replacing, Tracks,
      Fresh, ReadOld, SwitchGoes, Busy, Undecided
<1>6. ASSUME NEW g \in Gens, Park(g) PROVE Tracks'
  BY <1>6, CalmMeans DEF TypeOK, NoEvents, NotBegun, OneSwitch, AtWork, Replacing, Tracks,
      Fresh, Park, SwitchGoes, Create, Becomes, Busy, Undecided
<1>7. ASSUME NEW g \in Gens, Install(g) PROVE Tracks'
  BY <1>7, CalmMeans DEF TypeOK, NoEvents, NotBegun, OneSwitch, AtWork, Replacing, Tracks,
      Fresh, Install, SwitchGoes, Busy, Undecided
<1>8. ASSUME NEW g \in Gens, PrepareFails(g) PROVE Tracks'
  BY <1>8, CalmMeans DEF TypeOK, NoEvents, NotBegun, OneSwitch, AtWork, Replacing, Tracks,
      Fresh, PrepareFails, May, SwitchGoes, Fail, Clear, Busy, Undecided
<1>9. ASSUME NEW g \in Gens, Failed(g) PROVE Tracks'
  BY <1>9, CalmMeans DEF TypeOK, NoEvents, NotBegun, OneSwitch, AtWork, Replacing, Tracks,
      Fresh, Failed, SwitchGoes, Unclaim, Busy, Undecided
<1>10. ASSUME NEW r \in Sips, Reinvite(r) PROVE Tracks'
  BY <1>10, CalmMeans DEF TypeOK, NoEvents, NotBegun, OneSwitch, AtWork, Replacing, Tracks,
      Fresh, Reinvite, May, NoAttempt, MayBegin, SipGoes, Busy, Undecided
<1>11. ASSUME NEW r \in Sips, Refuse(r) PROVE Tracks'
  BY <1>11, CalmMeans DEF TypeOK, NoEvents, NotBegun, OneSwitch, AtWork, Replacing, Tracks,
      Fresh, Refuse, Fail, Clear, Busy, Undecided
<1>12. ASSUME NEW r \in Sips, Accept(r) PROVE Tracks'
  BY <1>12, CalmMeans DEF TypeOK, NoEvents, NotBegun, OneSwitch, AtWork, Replacing, Tracks,
      Fresh, Accept, SipGoes, Ask, Busy, Undecided
<1>13. ASSUME NEW r \in Sips, Respond(r) PROVE Tracks'
  BY <1>13, CalmMeans DEF TypeOK, NoEvents, NotBegun, OneSwitch, AtWork, Replacing, Tracks,
      Fresh, Respond, SipGoes, Complete, Clear, Busy, Undecided
<1>14. ASSUME NEW i \in Ids, ClientFails(i) PROVE Tracks'
  BY <1>14, CalmMeans DEF TypeOK, NoEvents, NotBegun, OneSwitch, AtWork, Replacing, Tracks,
      Fresh, ClientFails, Installed, May, AnswerGoes, Fail, Clear, Busy, Undecided
<1>15. ASSUME NEW i \in Ids, ClientAnswers(i) PROVE Tracks'
  BY <1>15, CalmMeans DEF TypeOK, NoEvents, NotBegun, OneSwitch, AtWork, Replacing, Tracks,
      Fresh, ClientAnswers, AnswerGoes, Busy, Undecided
<1>16. ASSUME NEW i \in Ids, Await(i) PROVE Tracks'
  BY <1>16, CalmMeans DEF TypeOK, NoEvents, NotBegun, OneSwitch, AtWork, Replacing, Tracks,
      Fresh, Await, AnswerGoes, Installed, May, Busy, Undecided
<1>17. ASSUME NEW i \in Ids, TakePC(i) PROVE Tracks'
  BY <1>17, CalmMeans DEF TypeOK, NoEvents, NotBegun, OneSwitch, AtWork, Replacing, Tracks,
      Fresh, TakePC, AnswerGoes, Busy, Undecided
<1>18. ASSUME NEW i \in Ids, ApplyOffer(i) PROVE Tracks'
  BY <1>18, CalmMeans DEF TypeOK, NoEvents, NotBegun, OneSwitch, AtWork, Replacing, Tracks,
      Fresh, ApplyOffer, AnswerGoes, Becomes, Busy, Undecided
<1>19. ASSUME NEW i \in Ids, AnswerOk(i) PROVE Tracks'
  BY <1>19, CalmMeans DEF TypeOK, NoEvents, NotBegun, OneSwitch, AtWork, Replacing, Tracks,
      Fresh, AnswerOk, AnswerGoes, Complete, Clear, Tell, Busy, Undecided
<1>20. ASSUME NEW i \in Ids, AnswerError(i) PROVE Tracks'
  BY <1>20, CalmMeans DEF TypeOK, NoEvents, NotBegun, OneSwitch, AtWork, Replacing, Tracks,
      Fresh, AnswerError, AnswerGoes, Fail, Clear, Busy, Undecided
<1>21. ASSUME NEW i \in Ids, Timeout(i) PROVE Tracks'
  BY <1>21, CalmMeans DEF TypeOK, NoEvents, NotBegun, OneSwitch, AtWork, Replacing, Tracks,
      Fresh, Timeout, Timely, Installed, May, Fail, Clear, Tell, Busy, Undecided
<1>22. ASSUME NEW r \in Resumes, StartResume(r) PROVE Tracks'
  BY <1>22, CalmMeans DEF TypeOK, NoEvents, NotBegun, OneSwitch, AtWork, Replacing, Tracks,
      Fresh, StartResume, May, ResumeGoes, Resumable, Busy, Undecided
<1>23. ASSUME NEW r \in Resumes, Swap(r) PROVE Tracks'
  BY <1>23, CalmMeans DEF TypeOK, NoEvents, NotBegun, OneSwitch, AtWork, Replacing, Tracks,
      Fresh, Swap, ResumeGoes, Closes, Becomes, Busy, Undecided
<1>24. ASSUME NEW r \in Resumes, ResumeCreates(r) PROVE Tracks'
  BY <1>24, CalmMeans DEF TypeOK, NoEvents, NotBegun, OneSwitch, AtWork, Replacing, Tracks,
      Fresh, ResumeCreates, ResumeGoes, Create, Becomes, Busy, Undecided
<1>25. ASSUME NEW r \in Resumes, ResumeInstalls(r) PROVE Tracks'
  BY <1>25, CalmMeans DEF TypeOK, NoEvents, NotBegun, OneSwitch, AtWork, Replacing, Tracks,
      Fresh, ResumeInstalls, ResumeGoes, Closes, Becomes, Busy, Undecided
<1>26. ASSUME NEW r \in Resumes, Resumed(r) PROVE Tracks'
  BY <1>26, CalmMeans DEF TypeOK, NoEvents, NotBegun, OneSwitch, AtWork, Replacing, Tracks,
      Fresh, Resumed, ResumeGoes, Busy, Undecided
<1>27. ASSUME NEW p \in PCs, Loses(p) PROVE Tracks'
  BY <1>27, CalmMeans DEF TypeOK, NoEvents, NotBegun, OneSwitch, AtWork, Replacing, Tracks,
      Fresh, Loses, May, Becomes, CleaningUp, Busy, Undecided
<1>28. ASSUME NEW p \in PCs, Connects(p) PROVE Tracks'
  BY <1>28, CalmMeans DEF TypeOK, NoEvents, NotBegun, OneSwitch, AtWork, Replacing, Tracks,
      Fresh, Connects, Becomes, Calls, Busy, Undecided
<1>29. ASSUME NEW p \in PCs, FailsIce(p) PROVE Tracks'
  BY <1>29, CalmMeans DEF TypeOK, NoEvents, NotBegun, OneSwitch, AtWork, Replacing, Tracks,
      Fresh, FailsIce, Becomes, Calls, CleaningUp, Busy, Undecided
<1>30. ASSUME NEW p \in PCs, OnConnected(p) PROVE Tracks'
  BY <1>30, CalmMeans DEF TypeOK, NoEvents, NotBegun, OneSwitch, AtWork, Replacing, Tracks,
      Fresh, OnConnected, Busy, Undecided
<1>31. ASSUME NEW p \in PCs, Commit(p) PROVE Tracks'
  BY <1>31, CalmMeans DEF TypeOK, NoEvents, NotBegun, OneSwitch, AtWork, Replacing, Tracks,
      Fresh, Commit, Closes, Becomes, Busy, Undecided
<1>32. ASSUME NEW p \in PCs, OnFailed(p) PROVE Tracks'
  BY <1>32, CalmMeans DEF TypeOK, NoEvents, NotBegun, OneSwitch, AtWork, Replacing, Tracks,
      Fresh, OnFailed, Restore, Closes, Becomes, Busy, Undecided
<1>33. CASE Abort
  BY <1>33, CalmMeans DEF TypeOK, NoEvents, NotBegun, OneSwitch, AtWork, Replacing, Tracks,
      Fresh, Abort, Restore, Closes, Becomes, Busy, Undecided
<1>34. CASE GraceOver
  BY <1>34, CalmMeans DEF TypeOK, NoEvents, NotBegun, OneSwitch, AtWork, Replacing, Tracks,
      Fresh, GraceOver, Busy, Undecided
<1>35. CASE Answered
  BY <1>35, CalmMeans DEF TypeOK, NoEvents, NotBegun, OneSwitch, AtWork, Replacing, Tracks,
      Fresh, Answered, Busy, Undecided
<1>36. CASE Hangup
  BY <1>36, CalmMeans DEF TypeOK, NoEvents, NotBegun, OneSwitch, AtWork, Replacing, Tracks,
      Fresh, Hangup, Busy, Undecided
<1>37. CASE Ends
  BY <1>37, CalmMeans DEF TypeOK, NoEvents, NotBegun, OneSwitch, AtWork, Replacing, Tracks,
      Fresh, Ends, Busy, Undecided
<1>38. CASE Delete
  BY <1>38, CalmMeans DEF TypeOK, NoEvents, NotBegun, OneSwitch, AtWork, Replacing, Tracks,
      Fresh, Delete, Closes, Becomes, Busy, Undecided
<1>39. CASE UNCHANGED vars
  BY <1>39 DEF vars, TypeOK, Busy, Undecided, NoEvents, NotBegun, OneSwitch, AtWork, Replacing,
      Tracks, Fresh
<1> QED
  BY <1>1, <1>2, <1>3, <1>4, <1>5, <1>6, <1>7, <1>8, <1>9, <1>10, <1>11, <1>12, <1>13, <1>14,
      <1>15, <1>16, <1>17, <1>18, <1>19, <1>20, <1>21, <1>22, <1>23, <1>24, <1>25, <1>26, <1>27,
      <1>28, <1>29, <1>30, <1>31, <1>32, <1>33, <1>34, <1>35, <1>36, <1>37, <1>38,
      <1>39 DEF Next, SwitchStep, SipStep, AnswerStep, ResumeStep, IceStep

(* The connection of the call stays. *)
LEMMA ConnectedStep ==
  ASSUME TypeOK, Calm, NoEvents, OneSwitch, AtWork, Replacing, Known, Connected, Fresh, Applied,
         Reported, [Next]_vars
  PROVE  Connected'
<1> USE Names, NamesAssumption, WorldsAssumption
       DEF signalling, claims, conns, attempts
<1>1. ASSUME NEW g \in Gens, Claim(g) PROVE Connected'
  BY <1>1, CalmMeans DEF TypeOK, NoEvents, OneSwitch, AtWork, Replacing, Known, Connected,
      Fresh, Applied, Reported, Claim, MayBegin, SwitchGoes, NoNegotiation, NoAttempt, May,
      Busy, Undecided
<1>2. ASSUME NEW g \in Gens, Begin(g) PROVE Connected'
  BY <1>2, CalmMeans DEF TypeOK, NoEvents, OneSwitch, AtWork, Replacing, Known, Connected,
      Fresh, Applied, Reported, Begin, SwitchGoes, MayBegin, Busy, Undecided
<1>3. ASSUME NEW g \in Gens, Release(g) PROVE Connected'
  BY <1>3, CalmMeans DEF TypeOK, NoEvents, OneSwitch, AtWork, Replacing, Known, Connected,
      Fresh, Applied, Reported, Release, SwitchGoes, Unclaim, Busy, Undecided
<1>4. ASSUME NEW g \in Gens, Notify(g) PROVE Connected'
  BY <1>4, CalmMeans DEF TypeOK, NoEvents, OneSwitch, AtWork, Replacing, Known, Connected,
      Fresh, Applied, Reported, Notify, SwitchGoes, Ask, Busy, Undecided
<1>5. ASSUME NEW g \in Gens, ReadOld(g) PROVE Connected'
  BY <1>5, CalmMeans DEF TypeOK, NoEvents, OneSwitch, AtWork, Replacing, Known, Connected,
      Fresh, Applied, Reported, ReadOld, SwitchGoes, Busy, Undecided
<1>6. ASSUME NEW g \in Gens, Park(g) PROVE Connected'
  BY <1>6, CalmMeans DEF TypeOK, NoEvents, OneSwitch, AtWork, Replacing, Known, Connected,
      Fresh, Applied, Reported, Park, SwitchGoes, Create, Becomes, Busy, Undecided
<1>7. ASSUME NEW g \in Gens, Install(g) PROVE Connected'
  BY <1>7, CalmMeans DEF TypeOK, NoEvents, OneSwitch, AtWork, Replacing, Known, Connected,
      Fresh, Applied, Reported, Install, SwitchGoes, Busy, Undecided
<1>8. ASSUME NEW g \in Gens, PrepareFails(g) PROVE Connected'
  BY <1>8, CalmMeans DEF TypeOK, NoEvents, OneSwitch, AtWork, Replacing, Known, Connected,
      Fresh, Applied, Reported, PrepareFails, May, SwitchGoes, Fail, Clear, Busy, Undecided
<1>9. ASSUME NEW g \in Gens, Failed(g) PROVE Connected'
  BY <1>9, CalmMeans DEF TypeOK, NoEvents, OneSwitch, AtWork, Replacing, Known, Connected,
      Fresh, Applied, Reported, Failed, SwitchGoes, Unclaim, Busy, Undecided
<1>10. ASSUME NEW r \in Sips, Reinvite(r) PROVE Connected'
  BY <1>10, CalmMeans DEF TypeOK, NoEvents, OneSwitch, AtWork, Replacing, Known, Connected,
      Fresh, Applied, Reported, Reinvite, May, NoAttempt, MayBegin, SipGoes, Busy, Undecided
<1>11. ASSUME NEW r \in Sips, Refuse(r) PROVE Connected'
  BY <1>11, CalmMeans DEF TypeOK, NoEvents, OneSwitch, AtWork, Replacing, Known, Connected,
      Fresh, Applied, Reported, Refuse, Fail, Clear, Busy, Undecided
<1>12. ASSUME NEW r \in Sips, Accept(r) PROVE Connected'
  BY <1>12, CalmMeans DEF TypeOK, NoEvents, OneSwitch, AtWork, Replacing, Known, Connected,
      Fresh, Applied, Reported, Accept, SipGoes, Ask, Busy, Undecided
<1>13. ASSUME NEW r \in Sips, Respond(r) PROVE Connected'
  BY <1>13, CalmMeans DEF TypeOK, NoEvents, OneSwitch, AtWork, Replacing, Known, Connected,
      Fresh, Applied, Reported, Respond, SipGoes, Complete, Clear, Busy, Undecided
<1>14. ASSUME NEW i \in Ids, ClientFails(i) PROVE Connected'
  BY <1>14, CalmMeans DEF TypeOK, NoEvents, OneSwitch, AtWork, Replacing, Known, Connected,
      Fresh, Applied, Reported, ClientFails, Installed, May, AnswerGoes, Fail, Clear, Busy,
      Undecided
<1>15. ASSUME NEW i \in Ids, ClientAnswers(i) PROVE Connected'
  BY <1>15, CalmMeans DEF TypeOK, NoEvents, OneSwitch, AtWork, Replacing, Known, Connected,
      Fresh, Applied, Reported, ClientAnswers, AnswerGoes, Busy, Undecided
<1>16. ASSUME NEW i \in Ids, Await(i) PROVE Connected'
  BY <1>16, CalmMeans DEF TypeOK, NoEvents, OneSwitch, AtWork, Replacing, Known, Connected,
      Fresh, Applied, Reported, Await, AnswerGoes, Installed, May, Busy, Undecided
<1>17. ASSUME NEW i \in Ids, TakePC(i) PROVE Connected'
  BY <1>17, CalmMeans DEF TypeOK, NoEvents, OneSwitch, AtWork, Replacing, Known, Connected,
      Fresh, Applied, Reported, TakePC, AnswerGoes, Busy, Undecided
<1>18. ASSUME NEW i \in Ids, ApplyOffer(i) PROVE Connected'
  BY <1>18, CalmMeans DEF TypeOK, NoEvents, OneSwitch, AtWork, Replacing, Known, Connected,
      Fresh, Applied, Reported, ApplyOffer, AnswerGoes, Becomes, Busy, Undecided
<1>19. ASSUME NEW i \in Ids, AnswerOk(i) PROVE Connected'
  BY <1>19, CalmMeans DEF TypeOK, NoEvents, OneSwitch, AtWork, Replacing, Known, Connected,
      Fresh, Applied, Reported, AnswerOk, AnswerGoes, Complete, Clear, Tell, Busy, Undecided
<1>20. ASSUME NEW i \in Ids, AnswerError(i) PROVE Connected'
  BY <1>20, CalmMeans DEF TypeOK, NoEvents, OneSwitch, AtWork, Replacing, Known, Connected,
      Fresh, Applied, Reported, AnswerError, AnswerGoes, Fail, Clear, Busy, Undecided
<1>21. ASSUME NEW i \in Ids, Timeout(i) PROVE Connected'
  BY <1>21, CalmMeans DEF TypeOK, NoEvents, OneSwitch, AtWork, Replacing, Known, Connected,
      Fresh, Applied, Reported, Timeout, Timely, Installed, May, Fail, Clear, Tell, Busy,
      Undecided
<1>22. ASSUME NEW r \in Resumes, StartResume(r) PROVE Connected'
  BY <1>22, CalmMeans DEF TypeOK, NoEvents, OneSwitch, AtWork, Replacing, Known, Connected,
      Fresh, Applied, Reported, StartResume, May, ResumeGoes, Resumable, Busy, Undecided
<1>23. ASSUME NEW r \in Resumes, Swap(r) PROVE Connected'
  BY <1>23, CalmMeans DEF TypeOK, NoEvents, OneSwitch, AtWork, Replacing, Known, Connected,
      Fresh, Applied, Reported, Swap, ResumeGoes, Closes, Becomes, Busy, Undecided
<1>24. ASSUME NEW r \in Resumes, ResumeCreates(r) PROVE Connected'
  BY <1>24, CalmMeans DEF TypeOK, NoEvents, OneSwitch, AtWork, Replacing, Known, Connected,
      Fresh, Applied, Reported, ResumeCreates, ResumeGoes, Create, Becomes, Busy, Undecided
<1>25. ASSUME NEW r \in Resumes, ResumeInstalls(r) PROVE Connected'
  BY <1>25, CalmMeans DEF TypeOK, NoEvents, OneSwitch, AtWork, Replacing, Known, Connected,
      Fresh, Applied, Reported, ResumeInstalls, ResumeGoes, Closes, Becomes, Busy, Undecided
<1>26. ASSUME NEW r \in Resumes, Resumed(r) PROVE Connected'
  BY <1>26, CalmMeans DEF TypeOK, NoEvents, OneSwitch, AtWork, Replacing, Known, Connected,
      Fresh, Applied, Reported, Resumed, ResumeGoes, Busy, Undecided
<1>27. ASSUME NEW p \in PCs, Loses(p) PROVE Connected'
  BY <1>27, CalmMeans DEF TypeOK, NoEvents, OneSwitch, AtWork, Replacing, Known, Connected,
      Fresh, Applied, Reported, Loses, May, Becomes, CleaningUp, Busy, Undecided
<1>28. ASSUME NEW p \in PCs, Connects(p) PROVE Connected'
  BY <1>28, CalmMeans DEF TypeOK, NoEvents, OneSwitch, AtWork, Replacing, Known, Connected,
      Fresh, Applied, Reported, Connects, Becomes, Calls, Busy, Undecided
<1>29. ASSUME NEW p \in PCs, FailsIce(p) PROVE Connected'
  BY <1>29, CalmMeans DEF TypeOK, NoEvents, OneSwitch, AtWork, Replacing, Known, Connected,
      Fresh, Applied, Reported, FailsIce, Becomes, Calls, CleaningUp, Busy, Undecided
<1>30. ASSUME NEW p \in PCs, OnConnected(p) PROVE Connected'
  BY <1>30, CalmMeans DEF TypeOK, NoEvents, OneSwitch, AtWork, Replacing, Known, Connected,
      Fresh, Applied, Reported, OnConnected, Busy, Undecided
<1>31. ASSUME NEW p \in PCs, Commit(p) PROVE Connected'
  <2>1. callbacks # {} /\ deleted' = deleted /\ pc' = pc
    BY <1>31 DEF Commit
  <2>2. CASE UNCHANGED <<legacy, ice>>
    BY <2>1, <2>2 DEF Connected
  <2>3. CASE legacy # None /\ pc = p /\ legacy' = None /\ Closes({legacy} \ {p}) /\ ~deleted
    <3>1. ice[p] = "connected"
      BY <1>31, <2>3 DEF Commit, Reported, Connected
    <3>2. ice'[p] = ice[p]
      BY <2>3 DEF Closes, Becomes, TypeOK
    <3> QED
      BY <2>1, <2>3, <3>1, <3>2 DEF Connected
  <2> QED
    BY <1>31, <2>1, <2>2, <2>3 DEF Commit, Connected
<1>32. ASSUME NEW p \in PCs, OnFailed(p) PROVE Connected'
  BY <1>32, CalmMeans DEF TypeOK, NoEvents, OneSwitch, AtWork, Replacing, Known, Connected,
      Fresh, Applied, Reported, OnFailed, Restore, Closes, Becomes, Busy, Undecided
<1>33. CASE Abort
  BY <1>33, CalmMeans DEF TypeOK, NoEvents, OneSwitch, AtWork, Replacing, Known, Connected,
      Fresh, Applied, Reported, Abort, Restore, Closes, Becomes, Busy, Undecided
<1>34. CASE GraceOver
  BY <1>34, CalmMeans DEF TypeOK, NoEvents, OneSwitch, AtWork, Replacing, Known, Connected,
      Fresh, Applied, Reported, GraceOver, Busy, Undecided
<1>35. CASE Answered
  BY <1>35, CalmMeans DEF TypeOK, NoEvents, OneSwitch, AtWork, Replacing, Known, Connected,
      Fresh, Applied, Reported, Answered, Busy, Undecided
<1>36. CASE Hangup
  BY <1>36, CalmMeans DEF TypeOK, NoEvents, OneSwitch, AtWork, Replacing, Known, Connected,
      Fresh, Applied, Reported, Hangup, Busy, Undecided
<1>37. CASE Ends
  BY <1>37, CalmMeans DEF TypeOK, NoEvents, OneSwitch, AtWork, Replacing, Known, Connected,
      Fresh, Applied, Reported, Ends, Busy, Undecided
<1>38. CASE Delete
  BY <1>38, CalmMeans DEF TypeOK, NoEvents, OneSwitch, AtWork, Replacing, Known, Connected,
      Fresh, Applied, Reported, Delete, Closes, Becomes, Busy, Undecided
<1>39. CASE UNCHANGED vars
  BY <1>39 DEF vars, TypeOK, Busy, Undecided, NoEvents, OneSwitch, AtWork, Replacing, Known,
      Connected, Fresh, Applied, Reported
<1> QED
  BY <1>1, <1>2, <1>3, <1>4, <1>5, <1>6, <1>7, <1>8, <1>9, <1>10, <1>11, <1>12, <1>13, <1>14,
      <1>15, <1>16, <1>17, <1>18, <1>19, <1>20, <1>21, <1>22, <1>23, <1>24, <1>25, <1>26, <1>27,
      <1>28, <1>29, <1>30, <1>31, <1>32, <1>33, <1>34, <1>35, <1>36, <1>37, <1>38,
      <1>39 DEF Next, SwitchStep, SipStep, AnswerStep, ResumeStep, IceStep

(* An undecided replacement is not touched. *)
LEMMA FreshStep ==
  ASSUME TypeOK, Calm, NoEvents, OverNoMore, SipAnswers, NotBegun, OneSwitch, AtWork, Replacing,
         Known, Connected, Fresh, Applied, [Next]_vars
  PROVE  Fresh'
<1> USE Names, NamesAssumption, WorldsAssumption
       DEF signalling, claims, conns, attempts
<1>1. ASSUME NEW g \in Gens, Claim(g) PROVE Fresh'
  BY <1>1, CalmMeans DEF TypeOK, NoEvents, OverNoMore, SipAnswers, NotBegun, OneSwitch, AtWork,
      Replacing, Known, Connected, Fresh, Applied, Claim, MayBegin, SwitchGoes, NoNegotiation,
      NoAttempt, May, Busy, Undecided
<1>2. ASSUME NEW g \in Gens, Begin(g) PROVE Fresh'
  BY <1>2, CalmMeans DEF TypeOK, NoEvents, OverNoMore, SipAnswers, NotBegun, OneSwitch, AtWork,
      Replacing, Known, Connected, Fresh, Applied, Begin, SwitchGoes, MayBegin, Busy, Undecided
<1>3. ASSUME NEW g \in Gens, Release(g) PROVE Fresh'
  BY <1>3, CalmMeans DEF TypeOK, NoEvents, OverNoMore, SipAnswers, NotBegun, OneSwitch, AtWork,
      Replacing, Known, Connected, Fresh, Applied, Release, SwitchGoes, Unclaim, Busy, Undecided
<1>4. ASSUME NEW g \in Gens, Notify(g) PROVE Fresh'
  BY <1>4, CalmMeans DEF TypeOK, NoEvents, OverNoMore, SipAnswers, NotBegun, OneSwitch, AtWork,
      Replacing, Known, Connected, Fresh, Applied, Notify, SwitchGoes, Ask, Busy, Undecided
<1>5. ASSUME NEW g \in Gens, ReadOld(g) PROVE Fresh'
  BY <1>5, CalmMeans DEF TypeOK, NoEvents, OverNoMore, SipAnswers, NotBegun, OneSwitch, AtWork,
      Replacing, Known, Connected, Fresh, Applied, ReadOld, SwitchGoes, Busy, Undecided
<1>6. ASSUME NEW g \in Gens, Park(g) PROVE Fresh'
  BY <1>6, CalmMeans DEF TypeOK, NoEvents, OverNoMore, SipAnswers, NotBegun, OneSwitch, AtWork,
      Replacing, Known, Connected, Fresh, Applied, Park, SwitchGoes, Create, Becomes, Busy,
      Undecided
<1>7. ASSUME NEW g \in Gens, Install(g) PROVE Fresh'
  BY <1>7, CalmMeans DEF TypeOK, NoEvents, OverNoMore, SipAnswers, NotBegun, OneSwitch, AtWork,
      Replacing, Known, Connected, Fresh, Applied, Install, SwitchGoes, Busy, Undecided
<1>8. ASSUME NEW g \in Gens, PrepareFails(g) PROVE Fresh'
  BY <1>8, CalmMeans DEF TypeOK, NoEvents, OverNoMore, SipAnswers, NotBegun, OneSwitch, AtWork,
      Replacing, Known, Connected, Fresh, Applied, PrepareFails, May, SwitchGoes, Fail, Clear,
      Busy, Undecided
<1>9. ASSUME NEW g \in Gens, Failed(g) PROVE Fresh'
  BY <1>9, CalmMeans DEF TypeOK, NoEvents, OverNoMore, SipAnswers, NotBegun, OneSwitch, AtWork,
      Replacing, Known, Connected, Fresh, Applied, Failed, SwitchGoes, Unclaim, Busy, Undecided
<1>10. ASSUME NEW r \in Sips, Reinvite(r) PROVE Fresh'
  BY <1>10, CalmMeans DEF TypeOK, NoEvents, OverNoMore, SipAnswers, NotBegun, OneSwitch, AtWork,
      Replacing, Known, Connected, Fresh, Applied, Reinvite, May, NoAttempt, MayBegin, SipGoes,
      Busy, Undecided
<1>11. ASSUME NEW r \in Sips, Refuse(r) PROVE Fresh'
  BY <1>11, CalmMeans DEF TypeOK, NoEvents, OverNoMore, SipAnswers, NotBegun, OneSwitch, AtWork,
      Replacing, Known, Connected, Fresh, Applied, Refuse, Fail, Clear, Busy, Undecided
<1>12. ASSUME NEW r \in Sips, Accept(r) PROVE Fresh'
  BY <1>12, CalmMeans DEF TypeOK, NoEvents, OverNoMore, SipAnswers, NotBegun, OneSwitch, AtWork,
      Replacing, Known, Connected, Fresh, Applied, Accept, SipGoes, Ask, Busy, Undecided
<1>13. ASSUME NEW r \in Sips, Respond(r) PROVE Fresh'
  BY <1>13, CalmMeans DEF TypeOK, NoEvents, OverNoMore, SipAnswers, NotBegun, OneSwitch, AtWork,
      Replacing, Known, Connected, Fresh, Applied, Respond, SipGoes, Complete, Clear, Busy,
      Undecided
<1>14. ASSUME NEW i \in Ids, ClientFails(i) PROVE Fresh'
  BY <1>14, CalmMeans DEF TypeOK, NoEvents, OverNoMore, SipAnswers, NotBegun, OneSwitch, AtWork,
      Replacing, Known, Connected, Fresh, Applied, ClientFails, Installed, May, AnswerGoes,
      Fail, Clear, Busy, Undecided
<1>15. ASSUME NEW i \in Ids, ClientAnswers(i) PROVE Fresh'
  BY <1>15, CalmMeans DEF TypeOK, NoEvents, OverNoMore, SipAnswers, NotBegun, OneSwitch, AtWork,
      Replacing, Known, Connected, Fresh, Applied, ClientAnswers, AnswerGoes, Busy, Undecided
<1>16. ASSUME NEW i \in Ids, Await(i) PROVE Fresh'
  BY <1>16, CalmMeans DEF TypeOK, NoEvents, OverNoMore, SipAnswers, NotBegun, OneSwitch, AtWork,
      Replacing, Known, Connected, Fresh, Applied, Await, AnswerGoes, Installed, May, Busy,
      Undecided
<1>17. ASSUME NEW i \in Ids, TakePC(i) PROVE Fresh'
  BY <1>17, CalmMeans DEF TypeOK, NoEvents, OverNoMore, SipAnswers, NotBegun, OneSwitch, AtWork,
      Replacing, Known, Connected, Fresh, Applied, TakePC, AnswerGoes, Busy, Undecided
<1>18. ASSUME NEW i \in Ids, ApplyOffer(i) PROVE Fresh'
  BY <1>18, CalmMeans DEF TypeOK, NoEvents, OverNoMore, SipAnswers, NotBegun, OneSwitch, AtWork,
      Replacing, Known, Connected, Fresh, Applied, ApplyOffer, AnswerGoes, Becomes, Busy,
      Undecided
<1>19. ASSUME NEW i \in Ids, AnswerOk(i) PROVE Fresh'
  BY <1>19, CalmMeans DEF TypeOK, NoEvents, OverNoMore, SipAnswers, NotBegun, OneSwitch, AtWork,
      Replacing, Known, Connected, Fresh, Applied, AnswerOk, AnswerGoes, Complete, Clear, Tell,
      Busy, Undecided
<1>20. ASSUME NEW i \in Ids, AnswerError(i) PROVE Fresh'
  BY <1>20, CalmMeans DEF TypeOK, NoEvents, OverNoMore, SipAnswers, NotBegun, OneSwitch, AtWork,
      Replacing, Known, Connected, Fresh, Applied, AnswerError, AnswerGoes, Fail, Clear, Busy,
      Undecided
<1>21. ASSUME NEW i \in Ids, Timeout(i) PROVE Fresh'
  BY <1>21, CalmMeans DEF TypeOK, NoEvents, OverNoMore, SipAnswers, NotBegun, OneSwitch, AtWork,
      Replacing, Known, Connected, Fresh, Applied, Timeout, Timely, Installed, May, Fail, Clear,
      Tell, Busy, Undecided
<1>22. ASSUME NEW r \in Resumes, StartResume(r) PROVE Fresh'
  BY <1>22, CalmMeans DEF TypeOK, NoEvents, OverNoMore, SipAnswers, NotBegun, OneSwitch, AtWork,
      Replacing, Known, Connected, Fresh, Applied, StartResume, May, ResumeGoes, Resumable,
      Busy, Undecided
<1>23. ASSUME NEW r \in Resumes, Swap(r) PROVE Fresh'
  BY <1>23, CalmMeans DEF TypeOK, NoEvents, OverNoMore, SipAnswers, NotBegun, OneSwitch, AtWork,
      Replacing, Known, Connected, Fresh, Applied, Swap, ResumeGoes, Closes, Becomes, Busy,
      Undecided
<1>24. ASSUME NEW r \in Resumes, ResumeCreates(r) PROVE Fresh'
  BY <1>24, CalmMeans DEF TypeOK, NoEvents, OverNoMore, SipAnswers, NotBegun, OneSwitch, AtWork,
      Replacing, Known, Connected, Fresh, Applied, ResumeCreates, ResumeGoes, Create, Becomes,
      Busy, Undecided
<1>25. ASSUME NEW r \in Resumes, ResumeInstalls(r) PROVE Fresh'
  BY <1>25, CalmMeans DEF TypeOK, NoEvents, OverNoMore, SipAnswers, NotBegun, OneSwitch, AtWork,
      Replacing, Known, Connected, Fresh, Applied, ResumeInstalls, ResumeGoes, Closes, Becomes,
      Busy, Undecided
<1>26. ASSUME NEW r \in Resumes, Resumed(r) PROVE Fresh'
  BY <1>26, CalmMeans DEF TypeOK, NoEvents, OverNoMore, SipAnswers, NotBegun, OneSwitch, AtWork,
      Replacing, Known, Connected, Fresh, Applied, Resumed, ResumeGoes, Busy, Undecided
<1>27. ASSUME NEW p \in PCs, Loses(p) PROVE Fresh'
  BY <1>27, CalmMeans DEF TypeOK, NoEvents, OverNoMore, SipAnswers, NotBegun, OneSwitch, AtWork,
      Replacing, Known, Connected, Fresh, Applied, Loses, May, Becomes, CleaningUp, Busy,
      Undecided
<1>28. ASSUME NEW p \in PCs, Connects(p) PROVE Fresh'
  BY <1>28, CalmMeans DEF TypeOK, NoEvents, OverNoMore, SipAnswers, NotBegun, OneSwitch, AtWork,
      Replacing, Known, Connected, Fresh, Applied, Connects, Becomes, Calls, Busy, Undecided
<1>29. ASSUME NEW p \in PCs, FailsIce(p) PROVE Fresh'
  BY <1>29, CalmMeans DEF TypeOK, NoEvents, OverNoMore, SipAnswers, NotBegun, OneSwitch, AtWork,
      Replacing, Known, Connected, Fresh, Applied, FailsIce, Becomes, Calls, CleaningUp, Busy,
      Undecided
<1>30. ASSUME NEW p \in PCs, OnConnected(p) PROVE Fresh'
  BY <1>30, CalmMeans DEF TypeOK, NoEvents, OverNoMore, SipAnswers, NotBegun, OneSwitch, AtWork,
      Replacing, Known, Connected, Fresh, Applied, OnConnected, Busy, Undecided
<1>31. ASSUME NEW p \in PCs, Commit(p) PROVE Fresh'
  BY <1>31, CalmMeans DEF TypeOK, NoEvents, OverNoMore, SipAnswers, NotBegun, OneSwitch, AtWork,
      Replacing, Known, Connected, Fresh, Applied, Commit, Closes, Becomes, Busy, Undecided
<1>32. ASSUME NEW p \in PCs, OnFailed(p) PROVE Fresh'
  BY <1>32, CalmMeans DEF TypeOK, NoEvents, OverNoMore, SipAnswers, NotBegun, OneSwitch, AtWork,
      Replacing, Known, Connected, Fresh, Applied, OnFailed, Restore, Closes, Becomes, Busy,
      Undecided
<1>33. CASE Abort
  BY <1>33, CalmMeans DEF TypeOK, NoEvents, OverNoMore, SipAnswers, NotBegun, OneSwitch, AtWork,
      Replacing, Known, Connected, Fresh, Applied, Abort, Restore, Closes, Becomes, Busy,
      Undecided
<1>34. CASE GraceOver
  BY <1>34, CalmMeans DEF TypeOK, NoEvents, OverNoMore, SipAnswers, NotBegun, OneSwitch, AtWork,
      Replacing, Known, Connected, Fresh, Applied, GraceOver, Busy, Undecided
<1>35. CASE Answered
  BY <1>35, CalmMeans DEF TypeOK, NoEvents, OverNoMore, SipAnswers, NotBegun, OneSwitch, AtWork,
      Replacing, Known, Connected, Fresh, Applied, Answered, Busy, Undecided
<1>36. CASE Hangup
  BY <1>36, CalmMeans DEF TypeOK, NoEvents, OverNoMore, SipAnswers, NotBegun, OneSwitch, AtWork,
      Replacing, Known, Connected, Fresh, Applied, Hangup, Busy, Undecided
<1>37. CASE Ends
  BY <1>37, CalmMeans DEF TypeOK, NoEvents, OverNoMore, SipAnswers, NotBegun, OneSwitch, AtWork,
      Replacing, Known, Connected, Fresh, Applied, Ends, Busy, Undecided
<1>38. CASE Delete
  BY <1>38, CalmMeans DEF TypeOK, NoEvents, OverNoMore, SipAnswers, NotBegun, OneSwitch, AtWork,
      Replacing, Known, Connected, Fresh, Applied, Delete, Closes, Becomes, Busy, Undecided
<1>39. CASE UNCHANGED vars
  BY <1>39 DEF vars, TypeOK, Busy, Undecided, NoEvents, OverNoMore, SipAnswers, NotBegun,
      OneSwitch, AtWork, Replacing, Known, Connected, Fresh, Applied
<1> QED
  BY <1>1, <1>2, <1>3, <1>4, <1>5, <1>6, <1>7, <1>8, <1>9, <1>10, <1>11, <1>12, <1>13, <1>14,
      <1>15, <1>16, <1>17, <1>18, <1>19, <1>20, <1>21, <1>22, <1>23, <1>24, <1>25, <1>26, <1>27,
      <1>28, <1>29, <1>30, <1>31, <1>32, <1>33, <1>34, <1>35, <1>36, <1>37, <1>38,
      <1>39 DEF Next, SwitchStep, SipStep, AnswerStep, ResumeStep, IceStep

(* An offer is applied to the replacement it was made for. *)
LEMMA AppliedStep ==
  ASSUME TypeOK, Calm, NoEvents, SipAnswers, OneSwitch, AtWork, Replacing, Known, Connected,
         Fresh, Applied, [Next]_vars
  PROVE  Applied'
<1> USE Names, NamesAssumption, WorldsAssumption
       DEF signalling, claims, conns, attempts
<1>1. ASSUME NEW g \in Gens, Claim(g) PROVE Applied'
  BY <1>1, CalmMeans DEF TypeOK, NoEvents, SipAnswers, OneSwitch, AtWork, Replacing, Known,
      Connected, Fresh, Applied, Claim, MayBegin, SwitchGoes, NoNegotiation, NoAttempt, May,
      Busy, Undecided
<1>2. ASSUME NEW g \in Gens, Begin(g) PROVE Applied'
  BY <1>2, CalmMeans DEF TypeOK, NoEvents, SipAnswers, OneSwitch, AtWork, Replacing, Known,
      Connected, Fresh, Applied, Begin, SwitchGoes, MayBegin, Busy, Undecided
<1>3. ASSUME NEW g \in Gens, Release(g) PROVE Applied'
  BY <1>3, CalmMeans DEF TypeOK, NoEvents, SipAnswers, OneSwitch, AtWork, Replacing, Known,
      Connected, Fresh, Applied, Release, SwitchGoes, Unclaim, Busy, Undecided
<1>4. ASSUME NEW g \in Gens, Notify(g) PROVE Applied'
  BY <1>4, CalmMeans DEF TypeOK, NoEvents, SipAnswers, OneSwitch, AtWork, Replacing, Known,
      Connected, Fresh, Applied, Notify, SwitchGoes, Ask, Busy, Undecided
<1>5. ASSUME NEW g \in Gens, ReadOld(g) PROVE Applied'
  BY <1>5, CalmMeans DEF TypeOK, NoEvents, SipAnswers, OneSwitch, AtWork, Replacing, Known,
      Connected, Fresh, Applied, ReadOld, SwitchGoes, Busy, Undecided
<1>6. ASSUME NEW g \in Gens, Park(g) PROVE Applied'
  BY <1>6, CalmMeans DEF TypeOK, NoEvents, SipAnswers, OneSwitch, AtWork, Replacing, Known,
      Connected, Fresh, Applied, Park, SwitchGoes, Create, Becomes, Busy, Undecided
<1>7. ASSUME NEW g \in Gens, Install(g) PROVE Applied'
  BY <1>7, CalmMeans DEF TypeOK, NoEvents, SipAnswers, OneSwitch, AtWork, Replacing, Known,
      Connected, Fresh, Applied, Install, SwitchGoes, Busy, Undecided
<1>8. ASSUME NEW g \in Gens, PrepareFails(g) PROVE Applied'
  BY <1>8, CalmMeans DEF TypeOK, NoEvents, SipAnswers, OneSwitch, AtWork, Replacing, Known,
      Connected, Fresh, Applied, PrepareFails, May, SwitchGoes, Fail, Clear, Busy, Undecided
<1>9. ASSUME NEW g \in Gens, Failed(g) PROVE Applied'
  BY <1>9, CalmMeans DEF TypeOK, NoEvents, SipAnswers, OneSwitch, AtWork, Replacing, Known,
      Connected, Fresh, Applied, Failed, SwitchGoes, Unclaim, Busy, Undecided
<1>10. ASSUME NEW r \in Sips, Reinvite(r) PROVE Applied'
  BY <1>10, CalmMeans DEF TypeOK, NoEvents, SipAnswers, OneSwitch, AtWork, Replacing, Known,
      Connected, Fresh, Applied, Reinvite, May, NoAttempt, MayBegin, SipGoes, Busy, Undecided
<1>11. ASSUME NEW r \in Sips, Refuse(r) PROVE Applied'
  BY <1>11, CalmMeans DEF TypeOK, NoEvents, SipAnswers, OneSwitch, AtWork, Replacing, Known,
      Connected, Fresh, Applied, Refuse, Fail, Clear, Busy, Undecided
<1>12. ASSUME NEW r \in Sips, Accept(r) PROVE Applied'
  BY <1>12, CalmMeans DEF TypeOK, NoEvents, SipAnswers, OneSwitch, AtWork, Replacing, Known,
      Connected, Fresh, Applied, Accept, SipGoes, Ask, Busy, Undecided
<1>13. ASSUME NEW r \in Sips, Respond(r) PROVE Applied'
  BY <1>13, CalmMeans DEF TypeOK, NoEvents, SipAnswers, OneSwitch, AtWork, Replacing, Known,
      Connected, Fresh, Applied, Respond, SipGoes, Complete, Clear, Busy, Undecided
<1>14. ASSUME NEW i \in Ids, ClientFails(i) PROVE Applied'
  BY <1>14, CalmMeans DEF TypeOK, NoEvents, SipAnswers, OneSwitch, AtWork, Replacing, Known,
      Connected, Fresh, Applied, ClientFails, Installed, May, AnswerGoes, Fail, Clear, Busy,
      Undecided
<1>15. ASSUME NEW i \in Ids, ClientAnswers(i) PROVE Applied'
  BY <1>15, CalmMeans DEF TypeOK, NoEvents, SipAnswers, OneSwitch, AtWork, Replacing, Known,
      Connected, Fresh, Applied, ClientAnswers, AnswerGoes, Busy, Undecided
<1>16. ASSUME NEW i \in Ids, Await(i) PROVE Applied'
  BY <1>16, CalmMeans DEF TypeOK, NoEvents, SipAnswers, OneSwitch, AtWork, Replacing, Known,
      Connected, Fresh, Applied, Await, AnswerGoes, Installed, May, Busy, Undecided
<1>17. ASSUME NEW i \in Ids, TakePC(i) PROVE Applied'
  BY <1>17, CalmMeans DEF TypeOK, NoEvents, SipAnswers, OneSwitch, AtWork, Replacing, Known,
      Connected, Fresh, Applied, TakePC, AnswerGoes, Busy, Undecided
<1>18. ASSUME NEW i \in Ids, ApplyOffer(i) PROVE Applied'
  BY <1>18, CalmMeans DEF TypeOK, NoEvents, SipAnswers, OneSwitch, AtWork, Replacing, Known,
      Connected, Fresh, Applied, ApplyOffer, AnswerGoes, Becomes, Busy, Undecided
<1>19. ASSUME NEW i \in Ids, AnswerOk(i) PROVE Applied'
  BY <1>19, CalmMeans DEF TypeOK, NoEvents, SipAnswers, OneSwitch, AtWork, Replacing, Known,
      Connected, Fresh, Applied, AnswerOk, AnswerGoes, Complete, Clear, Tell, Busy, Undecided
<1>20. ASSUME NEW i \in Ids, AnswerError(i) PROVE Applied'
  BY <1>20, CalmMeans DEF TypeOK, NoEvents, SipAnswers, OneSwitch, AtWork, Replacing, Known,
      Connected, Fresh, Applied, AnswerError, AnswerGoes, Fail, Clear, Busy, Undecided
<1>21. ASSUME NEW i \in Ids, Timeout(i) PROVE Applied'
  BY <1>21, CalmMeans DEF TypeOK, NoEvents, SipAnswers, OneSwitch, AtWork, Replacing, Known,
      Connected, Fresh, Applied, Timeout, Timely, Installed, May, Fail, Clear, Tell, Busy,
      Undecided
<1>22. ASSUME NEW r \in Resumes, StartResume(r) PROVE Applied'
  BY <1>22, CalmMeans DEF TypeOK, NoEvents, SipAnswers, OneSwitch, AtWork, Replacing, Known,
      Connected, Fresh, Applied, StartResume, May, ResumeGoes, Resumable, Busy, Undecided
<1>23. ASSUME NEW r \in Resumes, Swap(r) PROVE Applied'
  BY <1>23, CalmMeans DEF TypeOK, NoEvents, SipAnswers, OneSwitch, AtWork, Replacing, Known,
      Connected, Fresh, Applied, Swap, ResumeGoes, Closes, Becomes, Busy, Undecided
<1>24. ASSUME NEW r \in Resumes, ResumeCreates(r) PROVE Applied'
  BY <1>24, CalmMeans DEF TypeOK, NoEvents, SipAnswers, OneSwitch, AtWork, Replacing, Known,
      Connected, Fresh, Applied, ResumeCreates, ResumeGoes, Create, Becomes, Busy, Undecided
<1>25. ASSUME NEW r \in Resumes, ResumeInstalls(r) PROVE Applied'
  BY <1>25, CalmMeans DEF TypeOK, NoEvents, SipAnswers, OneSwitch, AtWork, Replacing, Known,
      Connected, Fresh, Applied, ResumeInstalls, ResumeGoes, Closes, Becomes, Busy, Undecided
<1>26. ASSUME NEW r \in Resumes, Resumed(r) PROVE Applied'
  BY <1>26, CalmMeans DEF TypeOK, NoEvents, SipAnswers, OneSwitch, AtWork, Replacing, Known,
      Connected, Fresh, Applied, Resumed, ResumeGoes, Busy, Undecided
<1>27. ASSUME NEW p \in PCs, Loses(p) PROVE Applied'
  BY <1>27, CalmMeans DEF TypeOK, NoEvents, SipAnswers, OneSwitch, AtWork, Replacing, Known,
      Connected, Fresh, Applied, Loses, May, Becomes, CleaningUp, Busy, Undecided
<1>28. ASSUME NEW p \in PCs, Connects(p) PROVE Applied'
  BY <1>28, CalmMeans DEF TypeOK, NoEvents, SipAnswers, OneSwitch, AtWork, Replacing, Known,
      Connected, Fresh, Applied, Connects, Becomes, Calls, Busy, Undecided
<1>29. ASSUME NEW p \in PCs, FailsIce(p) PROVE Applied'
  BY <1>29, CalmMeans DEF TypeOK, NoEvents, SipAnswers, OneSwitch, AtWork, Replacing, Known,
      Connected, Fresh, Applied, FailsIce, Becomes, Calls, CleaningUp, Busy, Undecided
<1>30. ASSUME NEW p \in PCs, OnConnected(p) PROVE Applied'
  BY <1>30, CalmMeans DEF TypeOK, NoEvents, SipAnswers, OneSwitch, AtWork, Replacing, Known,
      Connected, Fresh, Applied, OnConnected, Busy, Undecided
<1>31. ASSUME NEW p \in PCs, Commit(p) PROVE Applied'
  BY <1>31, CalmMeans DEF TypeOK, NoEvents, SipAnswers, OneSwitch, AtWork, Replacing, Known,
      Connected, Fresh, Applied, Commit, Closes, Becomes, Busy, Undecided
<1>32. ASSUME NEW p \in PCs, OnFailed(p) PROVE Applied'
  BY <1>32, CalmMeans DEF TypeOK, NoEvents, SipAnswers, OneSwitch, AtWork, Replacing, Known,
      Connected, Fresh, Applied, OnFailed, Restore, Closes, Becomes, Busy, Undecided
<1>33. CASE Abort
  BY <1>33, CalmMeans DEF TypeOK, NoEvents, SipAnswers, OneSwitch, AtWork, Replacing, Known,
      Connected, Fresh, Applied, Abort, Restore, Closes, Becomes, Busy, Undecided
<1>34. CASE GraceOver
  BY <1>34, CalmMeans DEF TypeOK, NoEvents, SipAnswers, OneSwitch, AtWork, Replacing, Known,
      Connected, Fresh, Applied, GraceOver, Busy, Undecided
<1>35. CASE Answered
  BY <1>35, CalmMeans DEF TypeOK, NoEvents, SipAnswers, OneSwitch, AtWork, Replacing, Known,
      Connected, Fresh, Applied, Answered, Busy, Undecided
<1>36. CASE Hangup
  BY <1>36, CalmMeans DEF TypeOK, NoEvents, SipAnswers, OneSwitch, AtWork, Replacing, Known,
      Connected, Fresh, Applied, Hangup, Busy, Undecided
<1>37. CASE Ends
  BY <1>37, CalmMeans DEF TypeOK, NoEvents, SipAnswers, OneSwitch, AtWork, Replacing, Known,
      Connected, Fresh, Applied, Ends, Busy, Undecided
<1>38. CASE Delete
  BY <1>38, CalmMeans DEF TypeOK, NoEvents, SipAnswers, OneSwitch, AtWork, Replacing, Known,
      Connected, Fresh, Applied, Delete, Closes, Becomes, Busy, Undecided
<1>39. CASE UNCHANGED vars
  BY <1>39 DEF vars, TypeOK, Busy, Undecided, NoEvents, SipAnswers, OneSwitch, AtWork,
      Replacing, Known, Connected, Fresh, Applied
<1> QED
  BY <1>1, <1>2, <1>3, <1>4, <1>5, <1>6, <1>7, <1>8, <1>9, <1>10, <1>11, <1>12, <1>13, <1>14,
      <1>15, <1>16, <1>17, <1>18, <1>19, <1>20, <1>21, <1>22, <1>23, <1>24, <1>25, <1>26, <1>27,
      <1>28, <1>29, <1>30, <1>31, <1>32, <1>33, <1>34, <1>35, <1>36, <1>37, <1>38,
      <1>39 DEF Next, SwitchStep, SipStep, AnswerStep, ResumeStep, IceStep

(* What was reported connected stays so or is closed. *)
LEMMA ReportedStep ==
  ASSUME TypeOK, Calm, NoEvents, OneSwitch, AtWork, Replacing, Fresh, Applied, Reported,
         [Next]_vars
  PROVE  Reported'
<1> USE Names, NamesAssumption, WorldsAssumption
       DEF signalling, claims, conns, attempts
<1>1. ASSUME NEW g \in Gens, Claim(g) PROVE Reported'
  BY <1>1, CalmMeans DEF TypeOK, NoEvents, OneSwitch, AtWork, Replacing, Fresh, Applied,
      Reported, Claim, MayBegin, SwitchGoes, NoNegotiation, NoAttempt, May, Busy, Undecided
<1>2. ASSUME NEW g \in Gens, Begin(g) PROVE Reported'
  BY <1>2, CalmMeans DEF TypeOK, NoEvents, OneSwitch, AtWork, Replacing, Fresh, Applied,
      Reported, Begin, SwitchGoes, MayBegin, Busy, Undecided
<1>3. ASSUME NEW g \in Gens, Release(g) PROVE Reported'
  BY <1>3, CalmMeans DEF TypeOK, NoEvents, OneSwitch, AtWork, Replacing, Fresh, Applied,
      Reported, Release, SwitchGoes, Unclaim, Busy, Undecided
<1>4. ASSUME NEW g \in Gens, Notify(g) PROVE Reported'
  BY <1>4, CalmMeans DEF TypeOK, NoEvents, OneSwitch, AtWork, Replacing, Fresh, Applied,
      Reported, Notify, SwitchGoes, Ask, Busy, Undecided
<1>5. ASSUME NEW g \in Gens, ReadOld(g) PROVE Reported'
  BY <1>5, CalmMeans DEF TypeOK, NoEvents, OneSwitch, AtWork, Replacing, Fresh, Applied,
      Reported, ReadOld, SwitchGoes, Busy, Undecided
<1>6. ASSUME NEW g \in Gens, Park(g) PROVE Reported'
  BY <1>6, CalmMeans DEF TypeOK, NoEvents, OneSwitch, AtWork, Replacing, Fresh, Applied,
      Reported, Park, SwitchGoes, Create, Becomes, Busy, Undecided
<1>7. ASSUME NEW g \in Gens, Install(g) PROVE Reported'
  BY <1>7, CalmMeans DEF TypeOK, NoEvents, OneSwitch, AtWork, Replacing, Fresh, Applied,
      Reported, Install, SwitchGoes, Busy, Undecided
<1>8. ASSUME NEW g \in Gens, PrepareFails(g) PROVE Reported'
  BY <1>8, CalmMeans DEF TypeOK, NoEvents, OneSwitch, AtWork, Replacing, Fresh, Applied,
      Reported, PrepareFails, May, SwitchGoes, Fail, Clear, Busy, Undecided
<1>9. ASSUME NEW g \in Gens, Failed(g) PROVE Reported'
  BY <1>9, CalmMeans DEF TypeOK, NoEvents, OneSwitch, AtWork, Replacing, Fresh, Applied,
      Reported, Failed, SwitchGoes, Unclaim, Busy, Undecided
<1>10. ASSUME NEW r \in Sips, Reinvite(r) PROVE Reported'
  BY <1>10, CalmMeans DEF TypeOK, NoEvents, OneSwitch, AtWork, Replacing, Fresh, Applied,
      Reported, Reinvite, May, NoAttempt, MayBegin, SipGoes, Busy, Undecided
<1>11. ASSUME NEW r \in Sips, Refuse(r) PROVE Reported'
  BY <1>11, CalmMeans DEF TypeOK, NoEvents, OneSwitch, AtWork, Replacing, Fresh, Applied,
      Reported, Refuse, Fail, Clear, Busy, Undecided
<1>12. ASSUME NEW r \in Sips, Accept(r) PROVE Reported'
  BY <1>12, CalmMeans DEF TypeOK, NoEvents, OneSwitch, AtWork, Replacing, Fresh, Applied,
      Reported, Accept, SipGoes, Ask, Busy, Undecided
<1>13. ASSUME NEW r \in Sips, Respond(r) PROVE Reported'
  BY <1>13, CalmMeans DEF TypeOK, NoEvents, OneSwitch, AtWork, Replacing, Fresh, Applied,
      Reported, Respond, SipGoes, Complete, Clear, Busy, Undecided
<1>14. ASSUME NEW i \in Ids, ClientFails(i) PROVE Reported'
  BY <1>14, CalmMeans DEF TypeOK, NoEvents, OneSwitch, AtWork, Replacing, Fresh, Applied,
      Reported, ClientFails, Installed, May, AnswerGoes, Fail, Clear, Busy, Undecided
<1>15. ASSUME NEW i \in Ids, ClientAnswers(i) PROVE Reported'
  BY <1>15, CalmMeans DEF TypeOK, NoEvents, OneSwitch, AtWork, Replacing, Fresh, Applied,
      Reported, ClientAnswers, AnswerGoes, Busy, Undecided
<1>16. ASSUME NEW i \in Ids, Await(i) PROVE Reported'
  BY <1>16, CalmMeans DEF TypeOK, NoEvents, OneSwitch, AtWork, Replacing, Fresh, Applied,
      Reported, Await, AnswerGoes, Installed, May, Busy, Undecided
<1>17. ASSUME NEW i \in Ids, TakePC(i) PROVE Reported'
  BY <1>17, CalmMeans DEF TypeOK, NoEvents, OneSwitch, AtWork, Replacing, Fresh, Applied,
      Reported, TakePC, AnswerGoes, Busy, Undecided
<1>18. ASSUME NEW i \in Ids, ApplyOffer(i) PROVE Reported'
  BY <1>18, CalmMeans DEF TypeOK, NoEvents, OneSwitch, AtWork, Replacing, Fresh, Applied,
      Reported, ApplyOffer, AnswerGoes, Becomes, Busy, Undecided
<1>19. ASSUME NEW i \in Ids, AnswerOk(i) PROVE Reported'
  BY <1>19, CalmMeans DEF TypeOK, NoEvents, OneSwitch, AtWork, Replacing, Fresh, Applied,
      Reported, AnswerOk, AnswerGoes, Complete, Clear, Tell, Busy, Undecided
<1>20. ASSUME NEW i \in Ids, AnswerError(i) PROVE Reported'
  BY <1>20, CalmMeans DEF TypeOK, NoEvents, OneSwitch, AtWork, Replacing, Fresh, Applied,
      Reported, AnswerError, AnswerGoes, Fail, Clear, Busy, Undecided
<1>21. ASSUME NEW i \in Ids, Timeout(i) PROVE Reported'
  BY <1>21, CalmMeans DEF TypeOK, NoEvents, OneSwitch, AtWork, Replacing, Fresh, Applied,
      Reported, Timeout, Timely, Installed, May, Fail, Clear, Tell, Busy, Undecided
<1>22. ASSUME NEW r \in Resumes, StartResume(r) PROVE Reported'
  BY <1>22, CalmMeans DEF TypeOK, NoEvents, OneSwitch, AtWork, Replacing, Fresh, Applied,
      Reported, StartResume, May, ResumeGoes, Resumable, Busy, Undecided
<1>23. ASSUME NEW r \in Resumes, Swap(r) PROVE Reported'
  BY <1>23, CalmMeans DEF TypeOK, NoEvents, OneSwitch, AtWork, Replacing, Fresh, Applied,
      Reported, Swap, ResumeGoes, Closes, Becomes, Busy, Undecided
<1>24. ASSUME NEW r \in Resumes, ResumeCreates(r) PROVE Reported'
  BY <1>24, CalmMeans DEF TypeOK, NoEvents, OneSwitch, AtWork, Replacing, Fresh, Applied,
      Reported, ResumeCreates, ResumeGoes, Create, Becomes, Busy, Undecided
<1>25. ASSUME NEW r \in Resumes, ResumeInstalls(r) PROVE Reported'
  BY <1>25, CalmMeans DEF TypeOK, NoEvents, OneSwitch, AtWork, Replacing, Fresh, Applied,
      Reported, ResumeInstalls, ResumeGoes, Closes, Becomes, Busy, Undecided
<1>26. ASSUME NEW r \in Resumes, Resumed(r) PROVE Reported'
  BY <1>26, CalmMeans DEF TypeOK, NoEvents, OneSwitch, AtWork, Replacing, Fresh, Applied,
      Reported, Resumed, ResumeGoes, Busy, Undecided
<1>27. ASSUME NEW p \in PCs, Loses(p) PROVE Reported'
  BY <1>27, CalmMeans DEF TypeOK, NoEvents, OneSwitch, AtWork, Replacing, Fresh, Applied,
      Reported, Loses, May, Becomes, CleaningUp, Busy, Undecided
<1>28. ASSUME NEW p \in PCs, Connects(p) PROVE Reported'
  BY <1>28, CalmMeans DEF TypeOK, NoEvents, OneSwitch, AtWork, Replacing, Fresh, Applied,
      Reported, Connects, Becomes, Calls, Busy, Undecided
<1>29. ASSUME NEW p \in PCs, FailsIce(p) PROVE Reported'
  BY <1>29, CalmMeans DEF TypeOK, NoEvents, OneSwitch, AtWork, Replacing, Fresh, Applied,
      Reported, FailsIce, Becomes, Calls, CleaningUp, Busy, Undecided
<1>30. ASSUME NEW p \in PCs, OnConnected(p) PROVE Reported'
  BY <1>30, CalmMeans DEF TypeOK, NoEvents, OneSwitch, AtWork, Replacing, Fresh, Applied,
      Reported, OnConnected, Busy, Undecided
<1>31. ASSUME NEW p \in PCs, Commit(p) PROVE Reported'
  BY <1>31, CalmMeans DEF TypeOK, NoEvents, OneSwitch, AtWork, Replacing, Fresh, Applied,
      Reported, Commit, Closes, Becomes, Busy, Undecided
<1>32. ASSUME NEW p \in PCs, OnFailed(p) PROVE Reported'
  BY <1>32, CalmMeans DEF TypeOK, NoEvents, OneSwitch, AtWork, Replacing, Fresh, Applied,
      Reported, OnFailed, Restore, Closes, Becomes, Busy, Undecided
<1>33. CASE Abort
  BY <1>33, CalmMeans DEF TypeOK, NoEvents, OneSwitch, AtWork, Replacing, Fresh, Applied,
      Reported, Abort, Restore, Closes, Becomes, Busy, Undecided
<1>34. CASE GraceOver
  BY <1>34, CalmMeans DEF TypeOK, NoEvents, OneSwitch, AtWork, Replacing, Fresh, Applied,
      Reported, GraceOver, Busy, Undecided
<1>35. CASE Answered
  BY <1>35, CalmMeans DEF TypeOK, NoEvents, OneSwitch, AtWork, Replacing, Fresh, Applied,
      Reported, Answered, Busy, Undecided
<1>36. CASE Hangup
  BY <1>36, CalmMeans DEF TypeOK, NoEvents, OneSwitch, AtWork, Replacing, Fresh, Applied,
      Reported, Hangup, Busy, Undecided
<1>37. CASE Ends
  BY <1>37, CalmMeans DEF TypeOK, NoEvents, OneSwitch, AtWork, Replacing, Fresh, Applied,
      Reported, Ends, Busy, Undecided
<1>38. CASE Delete
  BY <1>38, CalmMeans DEF TypeOK, NoEvents, OneSwitch, AtWork, Replacing, Fresh, Applied,
      Reported, Delete, Closes, Becomes, Busy, Undecided
<1>39. CASE UNCHANGED vars
  BY <1>39 DEF vars, TypeOK, Busy, Undecided, NoEvents, OneSwitch, AtWork, Replacing, Fresh,
      Applied, Reported
<1> QED
  BY <1>1, <1>2, <1>3, <1>4, <1>5, <1>6, <1>7, <1>8, <1>9, <1>10, <1>11, <1>12, <1>13, <1>14,
      <1>15, <1>16, <1>17, <1>18, <1>19, <1>20, <1>21, <1>22, <1>23, <1>24, <1>25, <1>26, <1>27,
      <1>28, <1>29, <1>30, <1>31, <1>32, <1>33, <1>34, <1>35, <1>36, <1>37, <1>38,
      <1>39 DEF Next, SwitchStep, SipStep, AnswerStep, ResumeStep, IceStep

-----------------------------------------------------------------------------
(* CalmKept is an invariant *)

LEMMA TypeInit == Init => TypeOK /\ Counted
<1> SUFFICES ASSUME Init PROVE TypeOK /\ Counted
  OBVIOUS
<1> USE Names, NamesAssumption, WorldsAssumption DEF Init
<1>1. terminal \in BOOLEAN /\ deleted \in BOOLEAN /\ answered \in BOOLEAN /\ hold \in BOOLEAN /\ ready \in BOOLEAN
  OBVIOUS
<1>2. /\ world \in Worlds /\ state \in States /\ pending \in Ids \cup {None} /\ claim \in Gens \cup {None}
      /\ losses \in 0..MaxLoss /\ graces \in 0..MaxLoss /\ graces <= losses /\ aborts \in Nat
  BY DEF States
<1>3. /\ pc \in PCs \cup {None} /\ legacy \in PCs \cup {None} /\ video \in PCs /\ ice \in [PCs -> IceAt]
      /\ old \in [Gens -> PCs \cup {None}] /\ onto \in [Ids -> PCs \cup {None}]
      /\ new \in [Gens \cup Resumes -> PCs \cup {None}]
  BY DEF IceAt
<1>4. /\ switch \in [Gens -> SwitchAt] /\ sip \in [Sips -> SipAt] /\ resume \in [Resumes -> ResumeAt]
      /\ answer \in [Ids -> AnswerAt]
  BY DEF SwitchAt, SipAt, ResumeAt, AnswerAt
<1>5. /\ was \subseteq Resumes /\ timers \subseteq Ids /\ callbacks \subseteq PCs \X {"connected", "commit", "failed"}
      /\ verdicts \subseteq Ids \X {"ok", "timeout"}
  OBVIOUS
<1> QED
  BY <1>1, <1>2, <1>3, <1>4, <1>5 DEF TypeOK, Counted

(* The types of everything, for every set of attempts and PeerConnections. *)
THEOREM TypeInvariance == Spec => [](TypeOK /\ Counted)
  BY TypeInit, TypeStep, PTL DEF Spec

THEOREM TypeCorrect == Spec => []TypeOK
  BY TypeInvariance, PTL

LEMMA CalmInit == Init => CalmKept
<1> SUFFICES ASSUME Init PROVE HandoverInv
  BY DEF CalmKept
<1> USE Names, NamesAssumption DEF Init
<1>1. NoEvents /\ OverNoMore /\ SipAnswers /\ NotBegun
  BY DEF NoEvents, OverNoMore, SipAnswers, NotBegun
<1>2. OneSwitch /\ AtWork /\ Replacing /\ Fresh
  BY DEF OneSwitch, AtWork, Replacing, Fresh, Busy, Undecided
<1>3. Known /\ Tracks /\ Connected /\ Applied /\ Reported
  BY DEF Known, Tracks, Connected, Applied, Reported
<1> QED
  BY <1>1, <1>2, <1>3 DEF HandoverInv

(* The world does not change. *)
LEMMA CalmStays == ASSUME [Next]_vars PROVE world' = world
  BY DEF Next, vars, SwitchStep, SipStep, AnswerStep, ResumeStep, IceStep, Claim, Begin, Release, Notify, ReadOld, Park, Install, PrepareFails, Failed, Reinvite, Refuse,
         Accept, Respond, ClientFails, ClientAnswers, Await, TakePC, ApplyOffer, AnswerOk,
         AnswerError, Timeout, StartResume, Swap, ResumeCreates, ResumeInstalls, Resumed, Loses,
         Connects, FailsIce, OnConnected, Commit, OnFailed, Abort, GraceOver, Answered, Hangup,
         Ends, Delete

LEMMA CalmStep == TypeOK /\ CalmKept /\ [Next]_vars => CalmKept'
<1> SUFFICES ASSUME TypeOK, CalmKept, [Next]_vars, Calm' PROVE HandoverInv'
  BY DEF CalmKept
<1>1. Calm /\ HandoverInv
  BY CalmStays DEF Calm, CalmKept
<1>2. NoEvents' /\ OverNoMore' /\ SipAnswers' /\ NotBegun' /\ OneSwitch'
  BY <1>1, NoEventsStep, OverStep, SipAnswersStep, NotBegunStep, OneSwitchStep DEF HandoverInv
<1>3. AtWork' /\ Replacing' /\ Known' /\ Tracks'
  BY <1>1, AtWorkStep, ReplacingStep, KnownStep, TracksStep DEF HandoverInv
<1>4. Connected' /\ Fresh' /\ Applied' /\ Reported'
  BY <1>1, ConnectedStep, FreshStep, AppliedStep, ReportedStep DEF HandoverInv
<1> QED
  BY <1>2, <1>3, <1>4 DEF HandoverInv

(* The inductive invariant of a handover that nothing untimely happens to. *)
THEOREM CalmInvariance == Spec => []CalmKept
<1>1. CalmKept /\ [Next]_vars /\ TypeOK => CalmKept'
  BY CalmStep
<1> QED
  BY <1>1, CalmInit, TypeCorrect, PTL DEF Spec

(* A replacement costs the call neither its connection nor its tracks, and no
   PeerConnection is forgotten. *)
THEOREM MediaStays == Spec => []CallKeepsMedia
<1>1. CalmKept => CallKeepsMedia
  <2> SUFFICES ASSUME CalmKept PROVE MediaKept /\ TracksFollow /\ NoLeak
    BY DEF CallKeepsMedia
  <2>1. Calm => HandoverInv
    BY DEF CalmKept
  <2>2. MediaKept
    BY <2>1 DEF MediaKept, HandoverInv, Connected
  <2>3. TracksFollow
    BY <2>1 DEF TracksFollow, HandoverInv, Tracks, Preparing
  <2>4. NoLeak
    BY <2>1 DEF NoLeak, HandoverInv, Known
  <2> QED
    BY <2>2, <2>3, <2>4
<1> QED
  BY <1>1, CalmInvariance, PTL

=============================================================================
