-------------------------- MODULE IncomingOutcome ---------------------------
(***************************************************************************)
(* What the gateway promises about one incoming INVITE, without sessions,  *)
(* sockets or handlers: at any time at most one goroutine holds the right  *)
(* to decide the call; the caller gets one outcome, given by the holder of *)
(* that right or by the caller's own CANCEL; the call is answered only for *)
(* the client that claimed it; and neither an outcome nor a claim is ever  *)
(* taken back.                                                             *)
(***************************************************************************)
CONSTANTS Clients, System, None

VARIABLES outcome, holder, owner

vars == <<outcome, holder, owner>>

Init == outcome = "none" /\ holder = None /\ owner = None

Arrive ==
  /\ outcome = "none" /\ outcome' = "pending"
  /\ UNCHANGED <<holder, owner>>

Take(p) ==
  /\ holder = None /\ holder' = p
  /\ UNCHANGED <<outcome, owner>>

Release ==
  /\ holder # None /\ holder' = None
  /\ UNCHANGED <<outcome, owner>>

(* An offer claims without the right to decide, an accept with it. *)
Claim(c) ==
  /\ owner = None /\ owner' = c
  /\ UNCHANGED <<outcome, holder>>

Answer(c) ==
  /\ holder = c /\ owner = c
  /\ outcome = "pending" /\ outcome' = "answered"
  /\ UNCHANGED <<holder, owner>>

Refuse ==
  /\ holder # None
  /\ outcome = "pending" /\ outcome' \in {"rejected", "cancelled"}
  /\ UNCHANGED <<holder, owner>>

CallerCancel ==
  /\ outcome = "pending" /\ outcome' = "cancelled"
  /\ UNCHANGED <<holder, owner>>

Next ==
  \/ Arrive \/ Release \/ Refuse \/ CallerCancel
  \/ \E p \in Clients \cup System : Take(p)
  \/ \E c \in Clients : Claim(c) \/ Answer(c)

Spec == Init /\ [][Next]_vars
=============================================================================
