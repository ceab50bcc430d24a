-------------------------- MODULE MCAgentPresence --------------------------
(***************************************************************************)
(* What agents depend on, in one run of TLC: which says whether this is    *)
(* the presence of agents on their trunks, the registrations by which      *)
(* INVITEs find their trunk, or the chat of a call.  The others stay as    *)
(* they began.                                                             *)
(***************************************************************************)
EXTENDS AgentPresence, TLC

CONSTANTS
  Parts,    \* what this run considers
  Shared,   \* TRUE if all trunks belong to one SIP account
  Public, Agent, Texts, Window, MaxMarks, MaxMsgs,   \* ChatMessages: its sessions are Public and Agent
  MaxRequests, MaxGen, MaxSent                       \* TrunkMatch

VARIABLES
  which,
  live, there, desks, remote, marks, seq, msgs, crossed,              \* ChatMessages
  row, cached, leased, gen, ident, sent, request, requests, voided    \* TrunkMatch

MCContact == [t \in Trunks |-> IF Shared THEN CHOOSE u \in Trunks : TRUE ELSE t]
MCSubject == [c \in Devices |-> "user"]
AgentSymmetry == Permutations(Agents)

(* A public user x has called the agent a. *)
Chat == INSTANCE ChatMessages WITH
  Sessions <- {Public, Agent}, bound <- there,
  Info <- [s \in {Public, Agent} |->
            IF s = Public THEN [dir |-> "outbound", from |-> "x", to |-> "q", user |-> None]
            ELSE [dir |-> "inbound", from |-> "x", to |-> "a", user |-> "a"]]

(* An agent's trunk and a device's, both of one account or moved apart, at two
   hosts that have one address; the gateway's own Contact. *)
At(host, port) == [host |-> host, port |-> port]
Uri(user, target) == [user |-> user, at |-> target]
First == [user |-> "u", host |-> "a", port |-> 1]
Second == [user |-> "u", host |-> "b", port |-> 2]
Resolved(host) == IF host \in {"a", "b"} THEN "ip" ELSE host

(* INVITEs to the gateway's Contact, from that address, the port of one trunk or
   of none, and from elsewhere; and some whose Request-URI names a trunk. *)
MCInvites ==
  {[ruri |-> Uri("u", At("me", 1)), to |-> Uri("u", At("me", 1)), source |-> s, via |-> v, contact |-> None] :
      s \in {At("ip", 1), At("ip", 3), At("x", 1)}, v \in {At("x", 1), At("b", 2)}} \cup
  {[ruri |-> r, to |-> Uri("u", At("b", 3)), source |-> At("ip", 1), via |-> At("b", 2), contact |-> None] :
      r \in {Uri("u", At("a", 3)), Uri(None, At("a", 1))}}

Routing == INSTANCE TrunkMatch WITH
  Lines <- 1 .. 2, Kind <- <<"agent", "device">>, Configs <- {First, Second}, Home <- <<First, First>>,
  Address <- Resolved, Here <- At("me", 1), Invites <- MCInvites, owned <- leased

ASSUME PartsAssumption == Chat!Given /\ Routing!Given

chatVars == <<live, there, desks, remote, marks, seq, msgs, crossed>>
trunkVars == <<row, cached, leased, gen, ident, sent, request, requests, voided>>

PresenceInit ==
  /\ which \in Parts /\ Init /\ Chat!Init /\ Routing!Init
  /\ which # "chat" => desks = {}
  /\ which # "match" => row = [t \in 1 .. 2 |-> None]

PresenceNext ==
  \/ which = "presence" /\ Next /\ UNCHANGED <<which, chatVars, trunkVars>>
  \/ which = "chat" /\ Chat!Next /\ UNCHANGED <<which, vars, trunkVars>>
  \/ which = "match" /\ Routing!Next /\ UNCHANGED <<which, vars, chatVars>>

PresenceSpec == PresenceInit /\ [][PresenceNext]_<<which, vars, chatVars, trunkVars>>
FairPresenceSpec == PresenceSpec /\ Fairness

-----------------------------------------------------------------------------
(* ChatMessages.ChatOnce: no message is read twice, and none is dropped but as
   the copy of one that was shown. *)
ChatOnce == which = "chat" => Chat!ChatOnce

=============================================================================
