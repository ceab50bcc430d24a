---------------------------- MODULE ChatMessages ----------------------------
(***************************************************************************)
(* Chat within a call (api/ws_notify.go, ws_notify_chat_echo.go,           *)
(* sip/message.go).  An agent's text goes to the PBX as a SIP MESSAGE and  *)
(* is also written to the browser of the session it is bridged with,       *)
(* because the PBX may accept a MESSAGE without forwarding it.  When it    *)
(* does forward it, the copy must be dropped: the gateway remembers what   *)
(* it relays, by session and text, for a short while.  A public user's     *)
(* text goes to the agent's browser and reaches the PBX only if there is   *)
(* none.                                                                   *)
(*                                                                         *)
(* An agent's session is inbound and a public user's outbound: only such   *)
(* are bridged.  What a text says, and the routing of a MESSAGE within the *)
(* PBX, are left out.                                                      *)
(***************************************************************************)
EXTENDS Integers, Sequences, FiniteSets, FiniteSetsExt

CONSTANTS
  Sessions,
  Info,       \* of each: dir ("inbound" to an agent or "outbound"), from, to, user
  Texts,
  Window,     \* bridgedChatEchoTTL, in ticks
  MaxMarks,   \* bridgedChatEchoMaxSize
  MaxMsgs,    \* bound: the messages sent
  None

(* What the constants must be. *)
Given ==
  /\ Window \in Nat \ {0} /\ MaxMarks \in Nat \ {0} /\ MaxMsgs \in Nat /\ None \notin Sessions

VARIABLES
  live,     \* the sessions that have not ended
  bound,    \* the sessions a browser is there for (selectSIPMessageTargets)
  desks,    \* the users with a browser that has resolved a trunk of theirs
  remote,   \* MessageRemoteUser: whom the public user writes to
  marks,    \* bridgedChatEcho.entries, by session and text: gen and the time left
  seq,      \* bridgedChatEcho.seq
  msgs,     \* history: the messages, in the order of their sending
  crossed   \* history: the messages whose mark another message has taken away

vars == <<live, bound, desks, remote, marks, seq, msgs, crossed>>

Keys == Sessions \X Texts
Ids == DOMAIN msgs
Users == {Info[s].user : s \in Sessions} \ {None}   \* any other name finds nobody, as None does

TypeOK ==
  /\ live \subseteq Sessions /\ bound \subseteq Sessions /\ desks \subseteq Users
  /\ remote \in [Sessions -> Users \cup {None}]
  /\ \A k \in Keys : marks[k] # None => marks[k].gen \in 1..seq /\ marks[k].left \in 1..Window
  /\ Cardinality({k \in Keys : marks[k] # None}) <= MaxMarks
  /\ \A i \in Ids :
       /\ msgs[i].state \in {"sending", "relayed", "missed", "sent", "failed"}
       /\ msgs[i].copy \in {"none", "coming", "gone"} /\ msgs[i].age \in 0..Window

Init ==
  /\ live = Sessions /\ bound = Sessions /\ desks \in SUBSET Users
  /\ remote = [s \in Sessions |-> None]
  /\ marks = [k \in Keys |-> None] /\ seq = 0
  /\ msgs = <<>> /\ crossed = {}

-----------------------------------------------------------------------------
(* What is remembered.  The clock drops an entry when its time is over. *)

Marked(m) == {k \in Keys : m[k] # None}

(* evictLocked, after one entry more: the oldest goes. *)
Evicted(m) == IF Cardinality(Marked(m)) > MaxMarks
              THEN {CHOOSE k \in Marked(m) : \A l \in Marked(m) : m[k].gen <= m[l].gen} ELSE {}
Without(m, K) == [k \in Keys |-> IF k \in K THEN None ELSE m[k]]

KeyOf(m) == <<m.to, m.text>>

(* noteBridgedChatRelay *)
Remembered(k) == [marks EXCEPT ![k] = [gen |-> seq + 1, left |-> Window]]
Remember(k) ==
  /\ seq' = seq + 1
  /\ marks' = Without(Remembered(k), Evicted(Remembered(k)))
  /\ crossed' = crossed \cup {i \in Ids : KeyOf(msgs[i]) \in Evicted(Remembered(k))}

(* Mutant: whatever is remembered of the text goes. *)
Forgotten_AnyGen(m) == IF m.gen # 0 /\ marks[KeyOf(m)] # None THEN {KeyOf(m)} ELSE {}

(* forgetBridgedChatRelay: not what a later message has remembered. *)
Forgotten(m) ==
  IF m.gen # 0 /\ marks[KeyOf(m)] # None /\ marks[KeyOf(m)].gen = m.gen THEN {KeyOf(m)} ELSE {}

Forget(m) ==
  /\ marks' = Without(marks, Forgotten(m))
  /\ crossed' = crossed \cup {i \in Ids : KeyOf(msgs[i]) \in Forgotten(m) /\ msgs[i].gen < m.gen}
  /\ UNCHANGED seq

Dropped(s, text) == s \in Sessions /\ marks[<<s, text>>] # None

-----------------------------------------------------------------------------
(* Who is whose peer.  ListSessions has no order: any that fits. *)

(* findBridgedPublicSession *)
BridgedPublics(s) ==
  {p \in live \ {s} : /\ Info[s].dir = "inbound" /\ Info[p].dir = "outbound"
                      /\ Info[p].from = Info[s].from}

(* findBridgedAgentSession: a session of whom the public user writes to, which may
   be this one itself; or else one by the caller. *)
BridgedAgents(p, agent) ==
  LET named == {s \in live : agent # None /\ Info[s].user = agent}
      called == {s \in live \ {p} : Info[s].dir = "inbound" /\ Info[s].from = Info[p].from}
  IN  (named \ {p}) \cup (IF named = {} \/ p \in named THEN called ELSE {})

LocalParty(s) == IF Info[s].dir = "inbound" THEN Info[s].to ELSE Info[s].from

(* findSIPMessageSessionID *)
SessionsOf(to) ==
  LET byUser == {s \in live : Info[s].user = to}
  IN  IF byUser # {} THEN byUser ELSE {s \in live : LocalParty(s) = to}

OneOf(S) == IF S = {} THEN {None} ELSE S

(* sessionMessageParties: the other end of the session's call *)
RemoteParty(s) == IF Info[s].dir = "inbound" THEN Info[s].from ELSE Info[s].to

-----------------------------------------------------------------------------
(* handleWSSendMessage *)

Message(s, text, to, gen, copy) ==
  [by |-> s, text |-> text, to |-> to, gen |-> gen, state |-> "sending", age |-> 0, copy |-> copy, seen |-> 0]

Sends(m) == /\ Len(msgs) < MaxMsgs /\ msgs' = Append(msgs, m)

(* By the agent: what is to be relayed is remembered before the MESSAGE is
   sent.  The PBX may forward it at once. *)
AgentSends(s, text, copy) ==
  /\ Info[s].dir = "inbound"
  /\ \E p \in OneOf(BridgedPublics(s)) :
       IF p \in bound
       THEN Sends(Message(s, text, p, seq + 1, copy)) /\ Remember(<<p, text>>)
       ELSE Sends(Message(s, text, p, 0, copy)) /\ UNCHANGED <<marks, seq, crossed>>
  /\ UNCHANGED <<live, bound, desks, remote>>

(* By the public user, who may name the agent. *)
PublicSends(s, text, dest, copy) ==
  /\ Info[s].dir = "outbound"
  /\ remote' = IF dest = None THEN remote ELSE [remote EXCEPT ![s] = dest]
  /\ \E a \in OneOf(BridgedAgents(s, remote'[s])) :
       IF a \in bound
       THEN /\ Sends([Message(s, text, a, 0, "none") EXCEPT !.state = "relayed", !.seen = 1])
            /\ Remember(<<a, text>>)
       ELSE Sends(Message(s, text, None, 0, copy)) /\ UNCHANGED <<marks, seq, crossed>>
  /\ UNCHANGED <<live, bound, desks>>

Now(i, state, copy, gen, seen) ==
  msgs' = [msgs EXCEPT ![i] =
             [@ EXCEPT !.state = state, !.age = 0, !.copy = copy, !.gen = gen, !.seen = @ + seen]]

(* sendMessageWithParams or sendMessageToSession returns no error: a 2xx, or
   a transaction that ended without a word.  relayChatToSession follows.  The
   PBX may forward the message now, if it has not. *)
Accepted(i, copy) ==
  LET m == msgs[i]
  IN  /\ m.state = "sending" /\ copy \in (IF m.copy = "none" THEN {"none", "coming"} ELSE {m.copy})
      /\ IF m.to = None THEN Now(i, "sent", copy, 0, 0) /\ UNCHANGED <<marks, seq, crossed>>
         ELSE IF m.to \in bound THEN Remember(KeyOf(m)) /\ Now(i, "relayed", copy, IF m.gen = 0 THEN 0 ELSE seq', 1)
         ELSE Now(i, "missed", copy, m.gen, 0) /\ Forget(m)
      /\ UNCHANGED <<live, bound, desks, remote>>

(* It is refused, lost or out of time. *)
Fails(i) ==
  LET m == msgs[i]
  IN  /\ m.state = "sending" /\ Now(i, "failed", m.copy, m.gen, 0)
      /\ IF m.to = None THEN UNCHANGED <<marks, seq, crossed>> ELSE Forget(m)
      /\ UNCHANGED <<live, bound, desks, remote>>

(* NotifySIPMessageOnDialog: the session the PBX's copy is for, if any, by its
   dialog or else by its addressee; ... *)
Addressees(m, onDialog) ==
  IF onDialog /\ m.to \in live THEN {m.to} ELSE OneOf(SessionsOf(RemoteParty(m.by)))

(* ... and who reads it: the session's browser, or without a session every one
   of the user's. *)
Read(m, s) == ~Dropped(s, m.text) /\ (IF s = None THEN RemoteParty(m.by) \in desks ELSE s \in bound)

(* handleMESSAGE *)
CopyArrives(i, onDialog) ==
  /\ msgs[i].copy = "coming"
  /\ \E s \in Addressees(msgs[i], onDialog) :
       msgs' = [msgs EXCEPT ![i].copy = "gone", ![i].seen = @ + (IF Read(msgs[i], s) THEN 1 ELSE 0)]
  /\ UNCHANGED <<live, bound, desks, remote, marks, seq, crossed>>

-----------------------------------------------------------------------------
(* The PBX forwards a message well within the window (the comment on
   bridgedChatEchoTTL): after it was sent or after it was accepted. *)
Timed(m) == m.copy = "coming" \/ m.state \in {"sending", "relayed"}

Tick ==
  /\ \E i \in Ids : Timed(msgs[i]) /\ msgs[i].age < Window
  /\ \A i \in Ids : msgs[i].copy = "coming" => msgs[i].age + 1 < Window
  /\ msgs' = [i \in Ids |-> IF Timed(msgs[i]) THEN [msgs[i] EXCEPT !.age = Min({@ + 1, Window})] ELSE msgs[i]]
  /\ marks' = [k \in Keys |-> IF marks[k] = None \/ marks[k].left = 1 THEN None
                              ELSE [marks[k] EXCEPT !.left = @ - 1]]
  /\ UNCHANGED <<live, bound, desks, remote, seq, crossed>>

(* A browser comes for a session, or leaves it. *)
Joins(s) == s \in live \ bound /\ bound' = bound \cup {s} /\ UNCHANGED <<live, desks, remote, marks, seq, msgs, crossed>>
Leaves(s) == s \in bound /\ bound' = bound \ {s} /\ UNCHANGED <<live, desks, remote, marks, seq, msgs, crossed>>

Ends(s) ==
  /\ s \in live /\ live' = live \ {s} /\ bound' = bound \ {s}
  /\ UNCHANGED <<desks, remote, marks, seq, msgs, crossed>>

Next ==
  \/ \E s \in Sessions, text \in Texts, copy \in {"none", "coming"} :
       \/ AgentSends(s, text, copy)
       \/ \E dest \in Users \cup {None} : PublicSends(s, text, dest, copy)
  \/ \E i \in Ids : \E copy \in {"none", "coming", "gone"} : Accepted(i, copy)
  \/ \E i \in Ids : Fails(i) \/ \E onDialog \in BOOLEAN : CopyArrives(i, onDialog)
  \/ \E s \in Sessions : Joins(s) \/ Leaves(s) \/ Ends(s)
  \/ Tick

Spec == Init /\ [][Next]_vars

-----------------------------------------------------------------------------
(* ChatOnce, in two parts.  The public user does not read a message twice,
   whichever of the relay and the PBX's copy comes first and however messages
   of one text overlap - unless there was no browser when it was sent, or
   another message of the text failed (or the table overflowed) while this one
   was under way. *)
ReadOnce == \A i \in Ids : msgs[i].gen # 0 /\ i \notin crossed => msgs[i].seen <= 1

(* A copy can be dropped only while its text is being sent to that session or
   has been shown there within the window: a message that failed, or found
   no browser, takes no later one with it. *)
DropsAreCopies ==
  \A k \in Keys : marks[k] # None =>
    \E i \in Ids : /\ KeyOf(msgs[i]) = k /\ msgs[i].age < Window
                   /\ msgs[i].state \in {"sending", "relayed"}

ChatOnce == ReadOnce /\ DropsAreCopies
=============================================================================
