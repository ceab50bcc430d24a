--------------------------- MODULE MCRegistrations ---------------------------
(***************************************************************************)
(* Who stays registered, in one run of TLC: which says whether this is a   *)
(* behaviour of the public registry, of two phones that move between two   *)
(* trunks, or of an agent's and a phone's trunk that share one Contact.    *)
(* The other parts stay as they began.                                     *)
(***************************************************************************)
EXTENDS PublicRegistry, TLC

CONSTANTS
  a1, d1, d2, t1, u1, u2  \* connections and trunks

VARIABLES
  which,
  open, ready, boundTo, resolved, opLock, pc, mode, at, next, need, failed, toEnd, stale, sibling,
  owned, lease, auto, workers, refresh, binding, notify, renew, renewed, sess, kept  \* AgentPresence

presenceVars == <<open, ready, boundTo, resolved, opLock, pc, mode, at, next, need, failed, toEnd, stale, sibling,
  owned, lease, auto, workers, refresh, binding, notify, renew, renewed, sess, kept>>

Phones == {d1, d2}

(* Two phones of one identity, each trunk with a Contact of its own. *)
Move == INSTANCE AgentPresence WITH
  Agents <- {}, Devices <- Phones, AgentTrunks <- {}, DeviceTrunks <- {u1, u2},
  Contact <- [t \in {u1, u2} |-> t], Subject <- [d \in Phones |-> "user"], Sids <- {},
  Refresh <- FALSE, Heartbeat <- FALSE, Faults <- FALSE, Peers <- FALSE,
  bound <- boundTo, todo <- toEnd, worker <- workers

(* An agent and a phone of the same SIP account. *)
Keep == INSTANCE AgentPresence WITH
  Agents <- {a1}, Devices <- {d1}, AgentTrunks <- {t1}, DeviceTrunks <- {u1},
  Contact <- [t \in {t1, u1} |-> u1], Subject <- [d \in {d1} |-> "user"], Sids <- {},
  Refresh <- FALSE, Heartbeat <- FALSE, Faults <- TRUE, Peers <- FALSE,
  bound <- boundTo, todo <- toEnd, worker <- workers

RegistrationsInit ==
  /\ which \in {"registry", "move", "keep"} /\ Init
  /\ IF which = "keep" THEN Keep!Init ELSE Move!Init

RegistrationsNext ==
  \/ which = "registry" /\ Next /\ UNCHANGED <<which, presenceVars>>
  \/ which = "move" /\ Move!Next /\ UNCHANGED <<which, vars>>
  \/ which = "keep" /\ Keep!Next /\ UNCHANGED <<which, vars>>

RegistrationsSpec == RegistrationsInit /\ [][RegistrationsNext]_<<which, vars, presenceVars>>

Symmetry == Permutations(Calls) \cup Permutations(Objects)

-----------------------------------------------------------------------------
(* AgentPresence: trunks that phones move between are registered altogether or
   not at all, and the gateway owns the trunk of an agent that was told so,
   though the cleanup of another trunk keeps its Contact. *)
DevicesKept ==
  /\ which = "move" => Move!AllOrNothing
  /\ which = "keep" => Keep!ReadyOwned
=============================================================================
