--------------------------- MODULE AgentPresence ---------------------------
(***************************************************************************)
(* Presence of agents and agent devices on SIP trunks.  A trunk is         *)
(* registered at the SIP registrar while an agent's WebSocket is bound to  *)
(* it; a device's registration outlives its socket.  Every connection has  *)
(* a reader goroutine that runs its handlers one after the other and the   *)
(* cleanup when the socket has closed; REGISTER and UNREGISTER run under   *)
(* one lock per trunk but outside the server's lock, so presence changes   *)
(* while they are on the network.  The trunk manager's refresh workers and *)
(* its lease heartbeat know nothing of that lock.                          *)
(*                                                                         *)
(* A connection is a client here; a reconnect is another client.           *)
(*                                                                         *)
(* Source: api/ws_agent.go, api/ws_agent_device.go, api/ws_unregister.go,  *)
(* sip/trunk_manager.go.                                                   *)
(***************************************************************************)
EXTENDS Naturals, FiniteSets

CONSTANTS
  Agents,       \* connections to /ws-agent
  Devices,      \* connections to /ws-agent-device
  AgentTrunks,  \* trunks agent_register upserts
  DeviceTrunks, \* trunks device_register upserts
  Contact,      \* the Contact a trunk registers: an agent and a device of one SIP account share it
  Subject,      \* the identity a device's pushes go to
  Sids,         \* call sessions
  None,
  Refresh,      \* TRUE if refresh timers expire
  Heartbeat,    \* TRUE if the lease heartbeat ticks
  Faults,       \* TRUE if REGISTER may fail
  Peers         \* TRUE if another gateway may take a lease by force

Clients == Agents \cup Devices
Trunks  == AgentTrunks \cup DeviceTrunks

ASSUME PresenceAssumption ==
  /\ Agents \cap Devices = {} /\ AgentTrunks \cap DeviceTrunks = {}
  /\ None \notin Trunks \cup Clients
  /\ {Refresh, Heartbeat, Faults, Peers} \subseteq BOOLEAN

VARIABLES
  open,      \* the client's socket
  ready,     \* the trunk it was told trunk_resolved for, until it asks for something else
  bound,     \* agentTrunkBindings
  resolved,  \* the client's resolvedTrunkID
  opLock,    \* who holds the trunk's operation lock
  pc,        \* where the client's reader goroutine is
  mode,      \* what it takes the lock for
  at,        \* the trunk it works on
  next,      \* the trunk it registers on after the old one was released
  need,      \* needRegister
  failed,    \* the last RegisterTrunk or UnregisterTrunk failed
  todo,      \* sessions it still has to end
  stale,     \* trunks a device still has to release
  sibling,   \* trunks whose Contact it refreshes instead
  owned,     \* ownedLeases
  lease,     \* lease_owner in the database: nobody, this gateway or another
  auto,      \* sip_auto_register in the database
  worker,    \* refreshWorkers: none, a goroutine, or the entry of one that returned
  refresh,   \* where a refresh worker's REGISTER is
  binding,   \* Contacts the registrar has
  notify,    \* notify_user_id in the database
  renew,     \* trunks the heartbeat still has to renew
  renewed,   \* the one whose lease it has updated or failed to, and not yet ownedLeases
  sess,      \* call sessions: their state, trunk and owner
  kept       \* history: calls made by a client bound to their trunk ever since

connVars == <<open, ready, bound, resolved>>
workVars == <<pc, mode, at, next, need, failed, todo, stale, sibling>>
regVars  == <<owned, lease, auto, worker, binding, notify>>
bgVars   == <<refresh, renew, renewed>>
callVars == <<sess, kept>>
vars == <<connVars, opLock, workVars, regVars, bgVars, callVars>>

NoSession == [st |-> "none", trunk |-> None, owner |-> None]

Init ==
  /\ open = [c \in Clients |-> TRUE] /\ ready = [c \in Clients |-> None]
  /\ bound = [t \in Trunks |-> {}] /\ resolved = [c \in Clients |-> None]
  /\ opLock = [t \in Trunks |-> None]
  /\ pc = [c \in Clients |-> "idle"] /\ mode = [c \in Clients |-> "none"]
  /\ at = [c \in Clients |-> None] /\ next = [c \in Clients |-> None]
  /\ need = [c \in Clients |-> FALSE] /\ failed = [c \in Clients |-> FALSE]
  /\ todo = [c \in Clients |-> {}] /\ stale = [c \in Clients |-> {}]
  /\ sibling = [c \in Clients |-> {}]
  /\ owned = [t \in Trunks |-> FALSE] /\ lease = [t \in Trunks |-> "free"]
  /\ auto = [t \in Trunks |-> FALSE] /\ worker = [t \in Trunks |-> "none"]
  /\ refresh = [t \in Trunks |-> "idle"] /\ binding = {}
  /\ notify = [t \in Trunks |-> None]
  /\ renew = {} /\ renewed = None
  /\ sess = [s \in Sids |-> NoSession] /\ kept = {}

-----------------------------------------------------------------------------
(* Presence: the server's maps, under the server's lock *)

Goto(c, p) == pc' = [pc EXCEPT ![c] = p]

Owned(c)   == {s \in Sids : sess[s].st = "live" /\ sess[s].owner = c}
OnTrunk(t) == {s \in Sids : sess[s].st = "live" /\ sess[s].trunk = t}

(* unbindAgentClient *)
Unbind(c) ==
  /\ bound' = [t \in Trunks |-> IF t = resolved[c] THEN bound[t] \ {c} ELSE bound[t]]
  /\ resolved' = [resolved EXCEPT ![c] = None]
  /\ ready' = [ready EXCEPT ![c] = None]
  /\ kept' = {s \in kept : sess[s].owner # c}

(* Mutant: the count is taken before c is removed. *)
LastOn_CountsItself(c, t) == t # None /\ bound[t] = {}

(* c is the last one bound to t, or was until it moved *)
LastOn(c, t) == t # None /\ bound[t] \subseteq {c}

(* bindAgentClient: the old trunk comes first if c was its last client. *)
Bind(c, t) ==
  LET old == resolved[c]  how == IF c \in Agents THEN "rebind" ELSE "move" IN
  /\ bound' = [u \in Trunks |-> CASE u = t   -> bound[u] \cup {c}
                                  [] u # t /\ u = old -> bound[u] \ {c}
                                  [] OTHER   -> bound[u]]
  /\ resolved' = [resolved EXCEPT ![c] = t]
  /\ ready' = [ready EXCEPT ![c] = None]
  /\ need' = [need EXCEPT ![c] = bound[t] = {}]
  /\ kept' = IF old = t THEN kept ELSE {s \in kept : sess[s].owner # c}
  /\ IF old # t /\ LastOn(c, old)
     THEN /\ at' = [at EXCEPT ![c] = old] /\ next' = [next EXCEPT ![c] = t]
          /\ mode' = [mode EXCEPT ![c] = how]
          /\ Goto(c, IF c \in Agents THEN "clean" ELSE "move")
     ELSE /\ at' = [at EXCEPT ![c] = t] /\ next' = next
          /\ mode' = [mode EXCEPT ![c] = "register"] /\ Goto(c, "lock")
  /\ UNCHANGED <<open, opLock, failed, todo, stale, sibling, regVars, bgVars, sess>>

AgentRegister(c, t) ==
  /\ c \in Agents /\ t \in AgentTrunks /\ open[c] /\ pc[c] = "idle"
  /\ Bind(c, t)

-----------------------------------------------------------------------------
(* The operation lock.  After it the reader goes on with what comes next.  *)

AfterLock(c) ==
  /\ mode' = IF mode[c] \in {"rebind", "move"} THEN [mode EXCEPT ![c] = "register"] ELSE mode
  /\ at' = IF mode[c] \in {"rebind", "move"} THEN [at EXCEPT ![c] = next[c]] ELSE at
  /\ Goto(c, CASE mode[c] = "register" -> IF failed[c] THEN "drop" ELSE "tell"
               [] mode[c] \in {"rebind", "move"} -> "lock"
               [] mode[c] = "leave"    -> "gone"
               [] mode[c] = "stale"    -> "stale"
               [] mode[c] = "logout"   -> "idle")

Unlock(c) ==
  /\ pc[c] = "unlock"
  /\ opLock' = [opLock EXCEPT ![at[c]] = None]
  /\ AfterLock(c)
  /\ UNCHANGED <<connVars, next, need, failed, todo, stale, sibling, regVars, bgVars,
                 callVars>>

(* c takes t's lock and goes on at p. *)
Take(c, t, p) ==
  /\ opLock[t] = None
  /\ opLock' = [opLock EXCEPT ![t] = c]
  /\ Goto(c, p)

-----------------------------------------------------------------------------
(* RegisterTrunk, under the lock *)

(* Mutant: only the first client bound registers. *)
MustRegister_First(c) == need[c]

(* needRegister || !s.agentTrunkOwned(trunk.ID) *)
MustRegister(c) == need[c] \/ ~owned[at[c]]

TakeToRegister(c) ==
  /\ pc[c] = "lock"
  /\ IF MustRegister(c)
     THEN Take(c, at[c], "lease") /\ UNCHANGED <<mode, at, failed>>
     ELSE /\ opLock[at[c]] = None /\ UNCHANGED opLock
          /\ failed' = [failed EXCEPT ![c] = FALSE]
          /\ Goto(c, "tell") /\ UNCHANGED <<mode, at>>
  /\ UNCHANGED <<connVars, next, need, todo, stale, sibling, regVars, bgVars, callVars>>

(* sip_auto_register, then acquireLeaseForce *)
RegLease(c) ==
  /\ pc[c] = "lease"
  /\ auto'  = [auto EXCEPT ![at[c]] = TRUE]
  /\ lease' = [lease EXCEPT ![at[c]] = "here"]
  /\ owned' = [owned EXCEPT ![at[c]] = TRUE]
  /\ failed' = [failed EXCEPT ![c] = FALSE]
  /\ Goto(c, "wire")
  /\ UNCHANGED <<connVars, opLock, mode, at, next, need, todo, stale, sibling,
                 worker, binding, notify, bgVars, callVars>>

(* The registrar gets a REGISTER for k: it is accepted, or refused or its *)
(* answer lost.                                                            *)
Accepted(k) == binding' = binding \cup {k}
Refused(k)  == Faults /\ binding' \in {binding, binding \cup {k}}

RegSend(c) ==
  /\ pc[c] = "wire"
  /\ \/ Accepted(Contact[at[c]]) /\ Goto(c, "worker") /\ UNCHANGED failed
     \/ Refused(Contact[at[c]]) /\ Goto(c, "unlock") /\ failed' = [failed EXCEPT ![c] = TRUE]
  /\ UNCHANGED <<connVars, opLock, mode, at, next, need, todo, stale, sibling, owned,
                 lease, auto, worker, notify, bgVars, callVars>>

(* startRefreshWorker *)
RegDone(c) ==
  /\ pc[c] = "worker"
  /\ worker' = [worker EXCEPT ![at[c]] = "running"]
  /\ Goto(c, "unlock")
  /\ UNCHANGED <<connVars, opLock, mode, at, next, need, failed, todo, stale,
                 sibling, owned, lease, auto, binding, notify, bgVars, callVars>>

(* agent_register and device_register answer trunk_resolved *)
Tell(c) ==
  /\ pc[c] = "tell"
  /\ ready' = [ready EXCEPT ![c] = at[c]]
  /\ Goto(c, "idle")
  /\ UNCHANGED <<open, bound, resolved, opLock, mode, at, next, need, failed, todo,
                 stale, sibling, regVars, bgVars, callVars>>

(* or an error, and unbind the client *)
Drop(c) ==
  /\ pc[c] = "drop"
  /\ Unbind(c)
  /\ Goto(c, "idle")
  /\ UNCHANGED <<open, opLock, mode, at, next, need, failed, todo, stale, sibling,
                 regVars, bgVars, sess>>

-----------------------------------------------------------------------------
(* UnregisterTrunk, under the lock *)

(* sip_auto_register off, the worker's stop channel closed, the lease      *)
(* forgotten; a REGISTER the worker has on the network goes on.            *)
Clear(c) ==
  /\ pc[c] = "clear"
  /\ auto'   = [auto EXCEPT ![at[c]] = FALSE]
  /\ worker' = [worker EXCEPT ![at[c]] = "none"]
  /\ owned'  = [owned EXCEPT ![at[c]] = FALSE]
  /\ failed' = [failed EXCEPT ![c] = FALSE]
  /\ Goto(c, "contact")
  /\ UNCHANGED <<connVars, opLock, mode, at, next, need, todo, stale, sibling, lease,
                 binding, notify, bgVars, callVars>>

(* liveSharedAgentContactSiblingIDs *)
Siblings(t) == {u \in Trunks \ {t} : Contact[u] = Contact[t] /\ owned[u] /\ worker[u] # "none"}

(* releaseTrunkContact: a Contact that siblings use is not removed; each of *)
(* them is registered again, without their locks.                          *)
ChooseContact(c) ==
  /\ pc[c] = "contact"
  /\ sibling' = [sibling EXCEPT ![c] = Siblings(at[c])]
  /\ Goto(c, IF Siblings(at[c]) = {} THEN "expire" ELSE "keep")
  /\ UNCHANGED <<connVars, opLock, mode, at, next, need, failed, todo, stale,
                 regVars, bgVars, callVars>>

KeepNext(c, u) ==
  /\ sibling' = [sibling EXCEPT ![c] = @ \ {u}]
  /\ Goto(c, IF sibling[c] = {u} THEN "release" ELSE "keep")

KeepSend(c) ==
  /\ pc[c] = "keep"
  /\ \/ Accepted(Contact[at[c]]) /\ Goto(c, "keepDone") /\ UNCHANGED sibling
     \/ Refused(Contact[at[c]]) /\ \E u \in sibling[c] : KeepNext(c, u)
  /\ UNCHANGED <<connVars, opLock, mode, at, next, need, failed, todo, stale, owned,
                 lease, auto, worker, notify, bgVars, callVars>>

KeepDone(c) ==
  /\ pc[c] = "keepDone"
  /\ \E u \in sibling[c] : worker' = [worker EXCEPT ![u] = "running"] /\ KeepNext(c, u)
  /\ UNCHANGED <<connVars, opLock, mode, at, next, need, failed, todo, stale, owned,
                 lease, auto, binding, notify, bgVars, callVars>>

(* REGISTER with Expires: 0 *)
Expire(c) ==
  /\ pc[c] = "expire"
  /\ \/ binding' = binding \ {Contact[at[c]]} /\ UNCHANGED failed
     \/ /\ Faults /\ binding' \in {binding, binding \ {Contact[at[c]]}}
        /\ failed' = [failed EXCEPT ![c] = TRUE]
  /\ Goto(c, "release")
  /\ UNCHANGED <<connVars, opLock, mode, at, next, need, todo, stale, sibling, owned,
                 lease, auto, worker, notify, bgVars, callVars>>

(* releaseLeaseForce, whoever owns the lease; then back to the caller *)
Release(c) ==
  /\ pc[c] = "release"
  /\ lease' = [lease EXCEPT ![at[c]] = "free"]
  /\ owned' = [owned EXCEPT ![at[c]] = FALSE]
  /\ Goto(c, CASE mode[c] \in {"rebind", "leave"} /\ ~failed[c] -> "repair"
               [] mode[c] = "logout" /\ ~failed[c] -> "forget"
               [] OTHER -> "unlock")
  /\ UNCHANGED <<connVars, opLock, mode, at, next, need, failed, todo, stale,
                 sibling, auto, worker, binding, notify, bgVars, callVars>>

-----------------------------------------------------------------------------
(* An agent leaves, and the cleanup of a trunk nobody is bound to *)

SocketCloses(c) ==
  /\ open[c]
  /\ open' = [open EXCEPT ![c] = FALSE]
  /\ UNCHANGED <<ready, bound, resolved, opLock, workVars, regVars, bgVars, callVars>>

(* The reader's loop has ended: cleanupAgentPresence, cleanupAgentDevicePresence *)
Leave(c) ==
  /\ ~open[c] /\ pc[c] = "idle"
  /\ todo' = [todo EXCEPT ![c] = Owned(c)]
  /\ Unbind(c)
  /\ at' = [at EXCEPT ![c] = IF c \in Agents /\ LastOn(c, resolved[c]) THEN resolved[c] ELSE None]
  /\ mode' = [mode EXCEPT ![c] = "leave"]
  /\ Goto(c, "hangup")
  /\ UNCHANGED <<open, opLock, next, need, failed, stale, sibling, regVars, bgVars, sess>>

(* forceEndSession *)
EndOne(c) ==
  \E s \in todo[c] :
    /\ sess' = [sess EXCEPT ![s].st = "ended"]
    /\ todo' = [todo EXCEPT ![c] = @ \ {s}]

Hangup(c) ==
  /\ pc[c] = "hangup" /\ EndOne(c)
  /\ UNCHANGED <<connVars, opLock, pc, mode, at, next, need, failed, stale, sibling,
                 regVars, bgVars, kept>>

(* Its own calls are over; the trunk's cleanup if it was the last. *)
HungUp(c) ==
  /\ pc[c] = "hangup" /\ todo[c] = {} /\ mode[c] = "leave"
  /\ Goto(c, IF at[c] = None THEN "gone" ELSE "clean")
  /\ UNCHANGED <<connVars, opLock, mode, at, next, need, failed, todo, stale,
                 sibling, regVars, bgVars, callVars>>

(* Mutant: one client does not count. *)
InUse_OffByOne(t) == Cardinality(bound[t]) > 1

(* agentTrunkRefCount *)
InUse(t) == bound[t] # {}

(* Mutant: the early return keeps the lock. *)
TakeToClean_KeepsLock(c) ==
  /\ pc[c] = "clean" /\ opLock[at[c]] = None
  /\ opLock' = [opLock EXCEPT ![at[c]] = c]
  /\ IF InUse(at[c]) THEN AfterLock(c)
                    ELSE Goto(c, "snapshot") /\ UNCHANGED <<mode, at>>
  /\ UNCHANGED <<connVars, next, need, failed, todo, stale, sibling, regVars, bgVars,
                 callVars>>

(* cleanupUnusedAgentTrunk: the count is looked at when the lock is taken, *)
(* after the snapshot, after the sessions and after the UNREGISTER.        *)
TakeToClean(c) ==
  /\ pc[c] = "clean"
  /\ IF InUse(at[c])
     THEN opLock[at[c]] = None /\ UNCHANGED opLock /\ AfterLock(c)
     ELSE Take(c, at[c], "snapshot") /\ UNCHANGED <<mode, at>>
  /\ UNCHANGED <<connVars, next, need, failed, todo, stale, sibling, regVars, bgVars,
                 callVars>>

Snapshot(c) ==
  /\ pc[c] = "snapshot"
  /\ todo' = [todo EXCEPT ![c] = OnTrunk(at[c])]
  /\ Goto(c, "recheck")
  /\ UNCHANGED <<connVars, opLock, mode, at, next, need, failed, stale, sibling,
                 regVars, bgVars, callVars>>

Recheck(c) ==
  /\ pc[c] = "recheck"
  /\ IF InUse(at[c]) THEN Goto(c, "unlock") /\ todo' = [todo EXCEPT ![c] = {}]
                     ELSE Goto(c, "sweep") /\ UNCHANGED todo
  /\ UNCHANGED <<connVars, opLock, mode, at, next, need, failed, stale, sibling,
                 regVars, bgVars, callVars>>

Sweep(c) ==
  /\ pc[c] = "sweep" /\ EndOne(c)
  /\ UNCHANGED <<connVars, opLock, pc, mode, at, next, need, failed, stale, sibling,
                 regVars, bgVars, kept>>

Swept(c) ==
  /\ pc[c] = "sweep" /\ todo[c] = {}
  /\ Goto(c, IF InUse(at[c]) THEN "unlock" ELSE "clear")
  /\ UNCHANGED <<connVars, opLock, mode, at, next, need, failed, todo, stale,
                 sibling, regVars, bgVars, callVars>>

Repair(c) ==
  /\ pc[c] = "repair"
  /\ Goto(c, IF InUse(at[c]) THEN "lease" ELSE "unlock")
  /\ UNCHANGED <<connVars, opLock, mode, at, next, need, failed, todo, stale,
                 sibling, regVars, bgVars, callVars>>

-----------------------------------------------------------------------------
(* Devices: registered until they say otherwise *)

(* SetTrunkNotifyUserIDAndPlatform: the identity's pushes come from t, and *)
(* from no trunk of another account any more.                              *)
Notify(t, user) ==
  notify' = [u \in Trunks |-> IF u = t THEN user
                              ELSE IF notify[u] = user /\ Contact[u] # Contact[t] THEN None
                              ELSE notify[u]]

(* device_register first takes over the identity's notifications, *)
DeviceRegister(c, t) ==
  /\ c \in Devices /\ t \in DeviceTrunks /\ open[c] /\ pc[c] = "idle"
  /\ ready' = [ready EXCEPT ![c] = None]
  /\ Notify(t, Subject[c])
  /\ next' = [next EXCEPT ![c] = t]
  /\ Goto(c, "list")
  /\ UNCHANGED <<open, bound, resolved, opLock, mode, at, need, failed, todo, stale,
                 sibling, owned, lease, auto, worker, binding, bgVars, callVars>>

(* ListAgentDeviceTrunksByNotifyUserID, without t *)
StaleOf(c, t) == {u \in DeviceTrunks \ {t} : notify[u] = Subject[c]}

(* then releases the trunks that have the identity's notifications besides, *)
ListStale(c) ==
  /\ pc[c] = "list"
  /\ stale' = [stale EXCEPT ![c] = StaleOf(c, next[c])]
  /\ Goto(c, "stale")
  /\ UNCHANGED <<connVars, opLock, mode, at, next, need, failed, todo, sibling,
                 regVars, bgVars, callVars>>

(* Mutant: the release does not take the operation lock. *)
TakeToRelease_NoLock(c, u, how) ==
  /\ opLock' = [opLock EXCEPT ![u] = c] /\ Goto(c, "clear")
  /\ at' = [at EXCEPT ![c] = u]
  /\ mode' = [mode EXCEPT ![c] = how]
  /\ notify' = [notify EXCEPT ![u] = None]
  /\ UNCHANGED <<connVars, next, need, failed, todo, sibling, owned, lease, auto,
                 worker, binding, bgVars, callVars>>

(* releaseAgentDeviceTrunk, whoever else is bound to the trunk *)
TakeToRelease(c, u, how) ==
  /\ Take(c, u, "clear")
  /\ at' = [at EXCEPT ![c] = u]
  /\ mode' = [mode EXCEPT ![c] = how]
  /\ notify' = [notify EXCEPT ![u] = None]
  /\ UNCHANGED <<connVars, next, need, failed, todo, sibling, owned, lease, auto,
                 worker, binding, bgVars, callVars>>

ReleaseStale(c) ==
  /\ pc[c] = "stale"
  /\ \E u \in stale[c] : TakeToRelease(c, u, "stale") /\ stale' = [stale EXCEPT ![c] = @ \ {u}]

(* and binds the client. *)
BindDevice(c) == pc[c] = "stale" /\ stale[c] = {} /\ Bind(c, next[c])

Move(c) == pc[c] = "move" /\ TakeToRelease(c, at[c], "move") /\ UNCHANGED stale

(* releaseRegisteredTrunk is refused while another device is bound. *)
UsedByOthers(t) == Cardinality(bound[t]) > 1

(* unregister, refused while another device is bound *)
Unregister(c) ==
  /\ c \in Devices /\ open[c] /\ pc[c] = "idle" /\ resolved[c] # None
  /\ ready' = [ready EXCEPT ![c] = None]
  /\ at' = [at EXCEPT ![c] = resolved[c]]
  /\ mode' = [mode EXCEPT ![c] = "logout"]
  /\ Goto(c, "logout")
  /\ UNCHANGED <<open, bound, resolved, opLock, next, need, failed, todo, stale,
                 sibling, regVars, bgVars, callVars>>

TakeToLogout(c) ==
  /\ pc[c] = "logout"
  /\ IF UsedByOthers(at[c])
     THEN opLock[at[c]] = None /\ Goto(c, "idle") /\ UNCHANGED opLock
     ELSE Take(c, at[c], "clear")
  /\ UNCHANGED <<connVars, mode, at, next, need, failed, todo, stale, sibling,
                 regVars, bgVars, callVars>>

(* releaseRegisteredTrunk after the UNREGISTER *)
Forget(c) ==
  /\ pc[c] = "forget"
  /\ notify' = [notify EXCEPT ![at[c]] = None]
  /\ todo' = [todo EXCEPT ![c] = Owned(c)]
  /\ Goto(c, "hangup")
  /\ UNCHANGED <<connVars, opLock, mode, at, next, need, failed, stale, sibling,
                 owned, lease, auto, worker, binding, bgVars, callVars>>

LoggedOut(c) ==
  /\ pc[c] = "hangup" /\ todo[c] = {} /\ mode[c] = "logout"
  /\ Unbind(c)
  /\ Goto(c, "unlock")
  /\ UNCHANGED <<open, opLock, mode, at, next, need, failed, todo, stale, sibling,
                 regVars, bgVars, sess>>

-----------------------------------------------------------------------------
(* Calls, as far as presence cares *)

(* call on the client's trunk, if the database says the lease is ours *)
Call(c, s) ==
  /\ open[c] /\ pc[c] = "idle" /\ resolved[c] # None /\ sess[s] = NoSession
  /\ lease[resolved[c]] = "here"
  /\ sess' = [sess EXCEPT ![s] = [st |-> "live", trunk |-> resolved[c], owner |-> c]]
  /\ kept' = kept \cup {s}
  /\ UNCHANGED <<connVars, opLock, workVars, regVars, bgVars>>

(* If not the client is told trunk_not_ready and its trunk forgotten, but *)
(* not its place in agentTrunkBindings.                                    *)
CallNotReady(c) ==
  /\ open[c] /\ pc[c] = "idle" /\ resolved[c] # None
  /\ lease[resolved[c]] # "here"
  /\ resolved' = [resolved EXCEPT ![c] = None]
  /\ ready' = [ready EXCEPT ![c] = None]
  /\ kept' = {s \in kept : sess[s].owner # c}
  /\ UNCHANGED <<open, bound, opLock, workVars, regVars, bgVars, sess>>

(* An INVITE comes in over the Contact. *)
Ring(t, s) ==
  /\ Contact[t] \in binding /\ sess[s] = NoSession
  /\ sess' = [sess EXCEPT ![s] = [st |-> "live", trunk |-> t, owner |-> None]]
  /\ UNCHANGED <<connVars, opLock, workVars, regVars, bgVars, kept>>

CallEnds(s) ==
  /\ sess[s].st = "live"
  /\ sess' = [sess EXCEPT ![s].st = "ended"]
  /\ UNCHANGED <<connVars, opLock, workVars, regVars, bgVars, kept>>

-----------------------------------------------------------------------------
(* Refresh workers: at most one REGISTER per trunk is on the network. *)

RefreshTick(t) ==
  /\ Refresh /\ worker[t] = "running" /\ refresh[t] = "idle"
  /\ IF owned[t] THEN refresh' = [refresh EXCEPT ![t] = "wire"] /\ UNCHANGED worker
                 ELSE worker' = [worker EXCEPT ![t] = "returned"] /\ UNCHANGED refresh
  /\ UNCHANGED <<connVars, opLock, workVars, owned, lease, auto, binding, notify,
                 renew, renewed, callVars>>

RefreshSend(t) ==
  /\ refresh[t] = "wire"
  /\ \/ Accepted(Contact[t]) /\ refresh' = [refresh EXCEPT ![t] = "worker"]
     \/ Refused(Contact[t]) /\ refresh' = [refresh EXCEPT ![t] = "idle"]
  /\ UNCHANGED <<connVars, opLock, workVars, owned, lease, auto, worker, notify,
                 renew, renewed, callVars>>

RefreshDone(t) ==
  /\ refresh[t] = "worker"
  /\ worker' = [worker EXCEPT ![t] = "running"]
  /\ refresh' = [refresh EXCEPT ![t] = "idle"]
  /\ UNCHANGED <<connVars, opLock, workVars, owned, lease, auto, binding, notify,
                 renew, renewed, callVars>>

(* leaseHeartbeatWorker: the trunks owned now, then one after the other *)
HeartbeatTick ==
  /\ Heartbeat /\ renew = {} /\ renewed = None
  /\ renew' = {t \in Trunks : owned[t]}
  /\ UNCHANGED <<connVars, opLock, workVars, regVars, refresh, renewed, callVars>>

(* acquireLease: the database gives it to us unless another gateway has it. *)
RenewLease(t) ==
  /\ t \in renew /\ renewed = None
  /\ renew' = renew \ {t}
  /\ renewed' = <<t, lease[t] # "other">>
  /\ lease' = IF lease[t] # "other" THEN [lease EXCEPT ![t] = "here"] ELSE lease
  /\ UNCHANGED <<connVars, opLock, workVars, owned, auto, worker, binding, notify,
                 refresh, callVars>>

(* ownedLeases, or markLeaseLost *)
Renewed ==
  /\ renewed # None
  /\ owned' = [owned EXCEPT ![renewed[1]] = renewed[2]]
  /\ worker' = IF renewed[2] THEN worker ELSE [worker EXCEPT ![renewed[1]] = "none"]
  /\ renewed' = None
  /\ UNCHANGED <<connVars, opLock, workVars, lease, auto, binding, notify, refresh,
                 renew, callVars>>

(* The other gateway's acquireLeaseForce and releaseLeaseForce *)
PeerTakes(t) ==
  /\ Peers /\ lease[t] # "other"
  /\ lease' = [lease EXCEPT ![t] = "other"]
  /\ UNCHANGED <<connVars, opLock, workVars, owned, auto, worker, binding, notify,
                 bgVars, callVars>>

PeerReleases(t) ==
  /\ lease[t] = "other"
  /\ lease' = [lease EXCEPT ![t] = "free"]
  /\ UNCHANGED <<connVars, opLock, workVars, owned, auto, worker, binding, notify,
                 bgVars, callVars>>

-----------------------------------------------------------------------------
(* What the goroutine of c does by itself, and what waits for a lock *)
(* Trunks that share their Contact with another one. *)
Sharing == {t \in Trunks : \E u \in Trunks \ {t} : Contact[u] = Contact[t]}

Keeps(c) == \E t \in Sharing : at[c] = t /\ (KeepSend(c) \/ KeepDone(c))

(* The device that c is, if it is one. *)
AsDevice(c) == Devices \cap {c}

Works(c) ==
  \/ Unlock(c) \/ RegLease(c) \/ RegSend(c) \/ RegDone(c) \/ Tell(c) \/ Drop(c)
  \/ Clear(c) \/ ChooseContact(c) \/ Keeps(c) \/ Expire(c) \/ Release(c)
  \/ Leave(c) \/ Hangup(c) \/ HungUp(c) \/ Snapshot(c) \/ Recheck(c) \/ Sweep(c) \/ Swept(c) \/ Repair(c)
  \/ \E d \in AsDevice(c) : ListStale(d) \/ BindDevice(d) \/ Forget(d) \/ LoggedOut(d)

Waits(c) ==
  \/ TakeToRegister(c) \/ TakeToClean(c)
  \/ \E d \in AsDevice(c) : ReleaseStale(d) \/ Move(d) \/ TakeToLogout(d)

Asks(c) ==
  \/ \E t \in Trunks : AgentRegister(c, t) \/ \E d \in AsDevice(c) : DeviceRegister(d, t)
  \/ (\E d \in AsDevice(c) : Unregister(d)) \/ CallNotReady(c) \/ SocketCloses(c)
  \/ \E s \in Sids : Call(c, s)

Background ==
  \/ \E t \in Trunks : RefreshTick(t) \/ RefreshSend(t) \/ RefreshDone(t) \/ RenewLease(t)
                       \/ PeerTakes(t) \/ PeerReleases(t)
  \/ HeartbeatTick \/ Renewed
  \/ \E s \in Sids : CallEnds(s) \/ \E t \in Trunks : Ring(t, s)

Next == (\E c \in Clients : Works(c) \/ Waits(c) \/ Asks(c)) \/ Background

Spec == Init /\ [][Next]_vars

(* Every goroutine goes on; a Go mutex is handed to a waiter in the end.   *)
Fairness == \A c \in Clients : WF_vars(Works(c)) /\ SF_vars(Waits(c))
FairSpec == Spec /\ Fairness

-----------------------------------------------------------------------------
Pcs == {"idle", "gone", "lock", "lease", "wire", "worker", "unlock", "tell", "drop",
        "clear", "contact", "keep", "keepDone", "expire", "release", "hangup",
        "clean", "snapshot", "recheck", "sweep", "repair",
        "list", "stale", "move", "logout", "forget"}

(* Every variable stays in its range: the maps of api.Server, the trunk     *)
(* manager and the rows of sip_trunks.                                     *)
TypeOK ==
  /\ open \in [Clients -> BOOLEAN]
  /\ ready \in [Clients -> Trunks \cup {None}] /\ resolved \in [Clients -> Trunks \cup {None}]
  /\ bound \in [Trunks -> SUBSET Clients] /\ opLock \in [Trunks -> Clients \cup {None}]
  /\ pc \in [Clients -> Pcs]
  /\ mode \in [Clients -> {"none", "register", "rebind", "leave", "move", "stale", "logout"}]
  /\ at \in [Clients -> Trunks \cup {None}] /\ next \in [Clients -> Trunks \cup {None}]
  /\ need \in [Clients -> BOOLEAN] /\ failed \in [Clients -> BOOLEAN]
  /\ todo \in [Clients -> SUBSET Sids] /\ stale \in [Clients -> SUBSET Trunks]
  /\ sibling \in [Clients -> SUBSET Trunks]
  /\ owned \in [Trunks -> BOOLEAN] /\ lease \in [Trunks -> {"free", "here", "other"}]
  /\ auto \in [Trunks -> BOOLEAN] /\ worker \in [Trunks -> {"none", "running", "returned"}]
  /\ refresh \in [Trunks -> {"idle", "wire", "worker"}]
  /\ binding \subseteq {Contact[t] : t \in Trunks}
  /\ notify \in [Trunks -> {Subject[c] : c \in Devices} \cup {None}]
  /\ renew \subseteq Trunks /\ renewed \in (Trunks \X BOOLEAN) \cup {None}
  /\ sess \in [Sids -> [st : {"none", "live", "ended"}, trunk : Trunks \cup {None}, owner : Clients \cup {None}]]
  /\ kept \subseteq Sids

(* Somebody still works on t. *)
Busy(t) == \E c \in Clients : at[c] = t /\ pc[c] \notin {"idle", "gone"}

Registered(t) ==
  owned[t] /\ lease[t] = "here" /\ auto[t] /\ worker[t] = "running" /\ Contact[t] \in binding

Released(t) ==
  /\ ~owned[t] /\ lease[t] # "here" /\ ~auto[t] /\ worker[t] = "none"
  /\ Contact[t] \notin binding \/ \E u \in Trunks \ {t} : Contact[u] = Contact[t] /\ (owned[u] \/ Busy(u))

(* A client that was told trunk_resolved, and is still bound, is on a trunk *)
(* that is registered: whatever cleanup of an older socket is under way     *)
(* (handleWSAgentRegister against cleanupUnusedAgentTrunk).                *)
ReadyRegistered == \A c \in Clients : ready[c] # None => Registered(ready[c])

(* Nothing takes leases but this gateway's own clients. *)
Quiet == ~Peers /\ ~Heartbeat

(* The part of it that holds when REGISTERs fail and refreshes interfere    *)
(* (proved; run where a Contact is shared, as MCRegistrations!DevicesKept): *)
(* the gateway owns the trunk of an agent that was told trunk_resolved      *)
(* (agentTrunkOwned), unless another one takes leases by force, and has its *)
(* lease in the database, unless the heartbeat believes an old snapshot.    *)
ReadyOwned ==
  \A c \in Agents : ready[c] # None =>
    (~Peers => owned[ready[c]]) /\ (Quiet => lease[ready[c]] = "here")

(* A trunk nobody is bound to or works on is unregistered, its lease        *)
(* released and its automatic registration off (UnregisterTrunk).          *)
UnusedReleased == \A t \in AgentTrunks : bound[t] = {} /\ ~Busy(t) => Released(t)

(* What clients were told and who is bound agree with the registrations. *)
AgentTrunksTrue == ReadyRegistered /\ UnusedReleased

(* A connection that has gone is not counted any more (unbindAgentClient).  *)
(* Not so when another gateway takes leases: README 7.                     *)
GoneUnbound == \A c \in Clients, t \in Trunks : pc[c] = "gone" => c \notin bound[t]

(* That is so for agents as long as nothing takes their lease away, which   *)
(* is what makes handleWSCall forget the trunk but not the binding.        *)
AgentsUnbound == Quiet => \A c \in Agents, t \in Trunks : pc[c] = "gone" => c \notin bound[t]

(* The cleanup of an older socket never ends a call that a replacement made *)
(* since it is bound (cleanupUnusedAgentTrunk's snapshot and recheck).      *)
SweepSparesReplacement ==
  \A c \in Agents : pc[c] = "sweep" => todo[c] \cap kept = {}

(* A device that was told trunk_resolved stays registered until somebody    *)
(* unregisters its trunk: an agent that leaves a trunk with the same        *)
(* Contact does not unregister it (releaseTrunkContact).  It does: README 7. *)
DeviceStaysRegistered ==
  \A c \in Devices : LET t == ready[c] IN
    t # None /\ ~Busy(t) /\ owned[t] => Contact[t] \in binding

(* A device that was told trunk_resolved, and is bound, gets the pushes of  *)
(* its trunk's calls (SetTrunkNotifyUserIDAndPlatform before the lock,      *)
(* releaseRegisteredTrunk under it).  It may not: README 7.                 *)
DeviceNotified == \A c \in Devices : ready[c] # None /\ ~Busy(ready[c]) => notify[ready[c]] # None

(* A trunk nobody works on is registered altogether or not at all: lease,   *)
(* automatic registration, refresh worker and the registrar's binding agree *)
(* however registrations and releases of several clients interleave         *)
(* (lockAgentTrunkOperation).                                              *)
AllOrNothing == \A t \in Trunks : ~Busy(t) => Registered(t) \/ Released(t)

(* When a device of an identity was told trunk_resolved, the trunk that the *)
(* identity moved away from is not registered any more                      *)
(* (releaseStaleAgentDeviceTrunks).                                        *)
MovedReleased ==
  \A c \in Devices : \A u \in DeviceTrunks \ {ready[c]} :
    ready[c] # None /\ bound[u] = {} /\ ~Busy(u) /\ notify[u] = None => ~owned[u]

(* Whatever a reader goroutine waits for, it gets on: every request is      *)
(* answered and every closed socket cleaned up (lockAgentTrunkOperation).   *)
EverybodyGetsOn ==
  \A c \in Clients : pc[c] \notin {"idle", "gone"} ~> pc[c] \in {"idle", "gone"}

(* The registration of a trunk that nobody is bound to any more goes away,  *)
(* unless somebody comes back (cleanupAgentPresence).                       *)
UnusedGoes ==
  \A t \in AgentTrunks : bound[t] = {} /\ owned[t] ~> bound[t] # {} \/ Released(t)

(* Requests and registrations come to their end. *)
PresenceSettles == EverybodyGetsOn /\ UnusedGoes

-----------------------------------------------------------------------------
(* The invariant the proofs are by induction on *)

HoldPcs == {"lease", "wire", "worker", "unlock", "clear", "contact", "keep", "keepDone",
            "expire", "release", "snapshot", "recheck", "sweep", "repair", "forget"}
Holds(c) == pc[c] \in HoldPcs \/ (pc[c] = "hangup" /\ mode[c] = "logout")
WorkPcs == HoldPcs \cup {"lock", "tell", "drop", "clean", "move", "logout"}

(* Agents work on agent trunks, devices on device trunks. *)
Apart ==
  /\ \A c \in Agents :
       /\ {at[c], next[c], resolved[c]} \subseteq AgentTrunks \cup {None}
       /\ mode[c] \in {"none", "register", "rebind", "leave"}
       /\ pc[c] \notin {"list", "stale", "move", "logout", "forget"}
  /\ \A c \in Devices :
       /\ {at[c], next[c], resolved[c]} \subseteq DeviceTrunks \cup {None}
       /\ stale[c] \subseteq DeviceTrunks
       /\ mode[c] \in {"none", "register", "move", "stale", "leave", "logout"}
       /\ mode[c] = "leave" => pc[c] \in {"hangup", "gone"} /\ at[c] = None
       /\ pc[c] \notin {"clean", "snapshot", "recheck", "sweep", "repair"}

(* Cleaning up and unregistering *)
Undoing == {"clean", "snapshot", "recheck", "sweep", "clear", "contact", "keep", "keepDone",
            "expire", "release", "repair"}

(* Where a goroutine is says what it is there for. *)
OnCourse ==
  \A c \in Clients :
    /\ pc[c] \in WorkPcs => at[c] # None /\ mode[c] # "none"
    /\ pc[c] \in {"lock", "tell", "drop"} => mode[c] = "register"
    /\ pc[c] \in {"forget", "logout"} => mode[c] = "logout"
    /\ pc[c] = "move" => mode[c] = "move"
    /\ pc[c] \in Undoing => mode[c] # "register"
    /\ pc[c] = "hangup" /\ mode[c] = "logout" => at[c] # None
    /\ pc[c] \in WorkPcs /\ mode[c] = "register" => resolved[c] = at[c]
    /\ pc[c] \in WorkPcs /\ mode[c] \in {"rebind", "move"} => next[c] # None /\ resolved[c] = next[c]
    /\ pc[c] \in {"list", "stale"} \/ (pc[c] \in WorkPcs /\ mode[c] = "stale") => next[c] # None
    /\ pc[c] \in {"clean", "hangup", "gone"} => mode[c] \in {"rebind", "leave", "logout"}
    /\ pc[c] \in {"clean", "gone"} => mode[c] # "logout"
    /\ pc[c] = "gone" \/ (mode[c] = "leave" /\ pc[c] # "idle") => resolved[c] = None

(* Operations on one trunk exclude each other. *)
LockHeld == \A c \in Clients : Holds(c) => opLock[at[c]] = c

BoundIsResolved ==
  /\ \A c \in Clients : resolved[c] # None => c \in bound[resolved[c]]
  /\ \A c \in Clients : ready[c] # None => resolved[c] = ready[c]
  /\ Quiet => \A c \in Agents, t \in Trunks : c \in bound[t] => resolved[c] = t
  /\ \A c \in Agents : pc[c] = "idle" => ready[c] = resolved[c]

(* c has been told, or is about to be told, that t is registered. *)
Promised(c, t) == ready[c] = t \/ (pc[c] = "tell" /\ at[c] = t)

(* Nobody takes a trunk's registration away that an agent was promised. *)
NoneDestroyed ==
  \A c \in Clients, a \in Agents :
    pc[c] \in {"clear", "contact", "keep", "keepDone", "expire", "release"} => ~Promised(a, at[c])

(* a was promised t, or is about to be. *)
Entitled(a, t) ==
  \/ Promised(a, t)
  \/ /\ at[a] = t /\ mode[a] = "register"
     /\ pc[a] \in {"wire", "worker"} \/ (pc[a] = "unlock" /\ ~failed[a])

(* The gateway owns what agents are entitled to.  Without the heartbeat it  *)
(* owns no trunk whose lease it has not.                                   *)
HasLease ==
  ~Peers =>
    /\ \A t \in Trunks : lease[t] # "other"
    /\ renewed # None => renewed[2]
    /\ \A a \in Agents, t \in AgentTrunks : Entitled(a, t) => owned[t]
    /\ ~Heartbeat => renewed = None /\ renew = {} /\ \A t \in Trunks : owned[t] => lease[t] = "here"

(* Calls that are kept belong to a client that is bound to their trunk; a   *)
(* sweep has calls of its trunk only, and none that is kept.               *)
Spared ==
  /\ \A s \in kept : sess[s].owner \in Clients /\ sess[s].trunk # None /\ resolved[sess[s].owner] = sess[s].trunk
  /\ \A c \in Clients : \A s \in todo[c] : sess[s].st # "none"
  /\ \A c \in Clients : pc[c] = "recheck" => \A s \in todo[c] : sess[s].trunk = at[c]
  /\ SweepSparesReplacement

IInv ==
  /\ TypeOK /\ Apart /\ OnCourse /\ LockHeld /\ BoundIsResolved
  /\ NoneDestroyed /\ HasLease /\ Spared

=============================================================================
