----------------------------- MODULE TrunkLease -----------------------------
(***************************************************************************)
(* One trunk and the gateway instances that share its row in sip_trunks    *)
(* (sip/trunk_manager.go).  The instance with the lease registers the      *)
(* trunk, keeps it registered with a refresh worker and renews the lease   *)
(* with a heartbeat; a login takes the lease by force, a logout frees it   *)
(* by force, a refresh (and a start) takes it if it may.  Row, memory and  *)
(* registrar change one after the other and never together, and each       *)
(* operation acts on what it read of one of them a while ago.              *)
(***************************************************************************)
EXTENDS Naturals, FiniteSets

CONSTANTS Instances,     \* gateways with an id of their own
          Ops,           \* the operations that may run, each of them once
          Slots,         \* refresh workers, each with its stop channel
          None,
          Worlds,        \* what may coincide: kinds of operations, "faults", "downs"
          MaxDowns       \* how often an instance goes down

Kinds == {"register", "unregister", "disable", "refresh", "start"}

ASSUME NoneAssumption == None \notin Instances \cup Ops \cup Slots \cup Kinds
ASSUME ApartAssumption == Ops \cap Slots = {}
ASSUME BoundAssumption == MaxDowns \in Nat
ASSUME SomeAssumption == Instances # {} /\ Slots # {}
ASSUME WorldsAssumption ==
  Worlds \subseteq SUBSET ((Kinds \ {"start"}) \cup {"faults", "downs"})

VARIABLES
  world,           \* what may coincide in this behaviour
  enabled, auto,   \* the row: enabled, sip_auto_register
  owner, expired,  \* the row: lease_owner, and lease_until has passed
  bound,           \* the instances whose Contact the registrar has
  life,            \* where each instance's process is
  known,           \* tm.trunks: absent, or with what sip_auto_register
  owned,           \* tm.ownedLeases
  entry,           \* tm.refreshWorkers: the worker it names
  beat,            \* where the heartbeat is
  held,            \* the stop channel that Stop has read
  pc,              \* where each operation, or worker, is
  at,              \* the instance it runs in
  kind,            \* what the operation is
  seen,            \* what it read, or that its REGISTER failed
  closed,          \* the workers whose stop channel is closed
  downs,
  alone,           \* history: the operation nobody else has run beside so far
  login, logout    \* history: the last change of intent, if it ran alone

row == <<enabled, auto, owner, expired>>
memory == <<known, owned, entry, closed>>
process == <<life, beat, held, downs>>
ops == <<pc, at, kind, seen>>
history == <<alone, login, logout>>
vars == <<world, row, bound, memory, process, ops, history>>

Actors == Ops \cup Slots
Faults == "faults" \in world            \* the database and the registrar may fail
Asked == world \ {"faults", "downs"}   \* the operations that are asked for
Steps == {"none", "set", "force", "own", "sent", "load", "replace", "lease", "disable", "off", "clear",
          "expire", "free", "status", "tick", "done"}
Cached == {"absent", "auto", "manual"}

TypeOK ==
  /\ world \in Worlds
  /\ enabled \in BOOLEAN /\ auto \in BOOLEAN /\ owner \in Instances \cup {None} /\ expired \in BOOLEAN
  /\ bound \subseteq Instances
  /\ life \in [Instances -> {"down", "starting", "up", "closing", "expiring", "ended"}]
  /\ known \in [Instances -> Cached] /\ owned \in [Instances -> BOOLEAN]
  /\ entry \in [Instances -> Slots \cup {None}] /\ held \in [Instances -> Slots \cup {None}]
  /\ beat \in [Instances -> {"idle", "won", "lost"}]
  /\ pc \in [Actors -> Steps] /\ at \in [Actors -> Instances \cup {None}]
  /\ kind \in [Ops -> Asked \cup {"start", None}] /\ seen \in [Ops -> Cached \cup {None, "failed"}]
  /\ closed \subseteq Slots /\ downs \in 0..MaxDowns
  /\ alone \in Ops \cup {None} /\ login \in Instances \cup {None} /\ logout \in BOOLEAN

(* Nobody has logged in yet, ... *)
NobodyIn ==
  /\ auto = FALSE /\ login = None /\ owner = None /\ bound = {}
  /\ known = [i \in Instances |-> "manual"] /\ owned = [i \in Instances |-> FALSE]
  /\ entry = [i \in Instances |-> None]
  /\ pc = [a \in Actors |-> "none"] /\ at = [a \in Actors |-> None]

(* ... or somebody has a while ago, at j, with the worker w. *)
SomebodyIn(j, w) ==
  /\ auto = TRUE /\ login = j /\ owner = j /\ bound = {j}
  /\ known = [i \in Instances |-> IF i = j THEN "auto" ELSE "manual"]
  /\ owned = [i \in Instances |-> i = j]
  /\ entry = [i \in Instances |-> IF i = j THEN w ELSE None]
  /\ pc = [a \in Actors |-> IF a = w THEN "tick" ELSE "none"]
  /\ at = [a \in Actors |-> IF a = w THEN j ELSE None]

(* The gateways are up. *)
Init ==
  /\ world \in Worlds /\ enabled = TRUE /\ expired = FALSE
  /\ life = [i \in Instances |-> "up"] /\ held = [i \in Instances |-> None]
  /\ beat = [i \in Instances |-> "idle"]
  /\ kind = [o \in Ops |-> None] /\ seen = [o \in Ops |-> None]
  /\ closed = {} /\ downs = 0 /\ alone = None /\ logout = FALSE
  /\ NobodyIn \/ SomebodyIn(CHOOSE i \in Instances : TRUE, CHOOSE s \in Slots : TRUE)

Stopping(i) == life[i] \in {"closing", "expiring", "ended"}

(* Every statement and every request that is bound to the manager's context
   fails once Stop has cancelled it. *)
MayWork(a) == ~Stopping(at[a])
MayFail(a) == Faults \/ Stopping(at[a])

Goto(a, step) ==
  /\ pc' = [pc EXCEPT ![a] = step]
  /\ at' = IF step \in {"none", "done"} THEN [at EXCEPT ![a] = None] ELSE at
  /\ kind' = IF step = "done" THEN [kind EXCEPT ![a] = None] ELSE kind
(* An operation returns; a worker goes back to its loop. *)
Return(a) == Goto(a, IF a \in Slots THEN "tick" ELSE "done")

Idle(o) == pc[o] \in {"none", "done"}

(* The stop channels of these workers are closed. *)
Close(workers) == closed' = closed \cup {s \in workers : pc[s] # "none" \/ \E i \in Instances : held[i] = s}

-----------------------------------------------------------------------------
(* REST or a socket asks for an operation; UpdateTrunk that disables the trunk
   ends in a forced UnregisterTrunk. *)
FirstStep(k) ==
  CASE k = "register" -> "set" [] k = "unregister" -> "off" [] k = "disable" -> "disable"
    [] k \in {"refresh", "start"} -> "load"

Launch(o, i, k) ==
  /\ pc[o] = "none" /\ o = (CHOOSE p \in Ops : pc[p] = "none")
  /\ pc' = [pc EXCEPT ![o] = FirstStep(k)] /\ at' = [at EXCEPT ![o] = i] /\ kind' = [kind EXCEPT ![o] = k]
  /\ alone' = IF \A p \in Ops : Idle(p) THEN o ELSE None

(* RegisterTrunk reads the row first and refuses a disabled trunk. *)
Request(o, i, k) ==
  /\ life[i] = "up" /\ k \in Asked /\ (k = "register" => enabled) /\ Launch(o, i, k)
  /\ login' = IF k = "refresh" THEN login ELSE None
  /\ logout' = (logout /\ k = "refresh")
  /\ UNCHANGED <<world, row, bound, memory, process, seen>>

(* A statement fails.  RegisterTrunk and UnregisterTrunk return at once; a
   refresh gives up; a lease that cannot be freed is forgotten. *)
Fails(o) ==
  /\ \/ pc[o] \in {"set", "force", "load", "lease", "disable", "off", "status"} /\ Goto(o, "done")
     \/ pc[o] = "free" /\ Goto(o, IF seen[o] = "failed" THEN "done" ELSE "status")
  /\ MayFail(o) /\ ~(pc[o] = "load" /\ kind[o] = "start")
  /\ owned' = IF pc[o] = "free" THEN [owned EXCEPT ![at[o]] = FALSE] ELSE owned
  /\ UNCHANGED <<world, row, bound, known, entry, closed, process, seen, history>>

-----------------------------------------------------------------------------
(* RegisterTrunk. *)

(* setSipAutoRegister(true), in the row and in memory. *)
SetAuto(o) ==
  /\ pc[o] = "set" /\ MayWork(o) /\ auto' = TRUE /\ Goto(o, "force")
  /\ known' = [known EXCEPT ![at[o]] = "auto"]
  /\ UNCHANGED <<world, enabled, owner, expired, bound, owned, entry, closed, process, seen, history>>

Takes(i) == owner' = i /\ expired' = FALSE

(* acquireLeaseForce, in the row. *)
ForceLease(o) ==
  /\ pc[o] = "force" /\ MayWork(o)
  /\ IF enabled THEN Takes(at[o]) /\ Goto(o, "own")
                ELSE Goto(o, "done") /\ UNCHANGED <<owner, expired>>
  /\ UNCHANGED <<world, enabled, auto, bound, memory, process, seen, history>>

(* A lease taken in the row is then noted in memory, and registerTrunk begins
   with what memory has of the trunk. *)
Own(o) ==
  /\ pc[o] = "own" /\ owned' = [owned EXCEPT ![at[o]] = TRUE]
  /\ Goto(o, IF known[at[o]] = "absent" THEN "done" ELSE "sent")
  /\ UNCHANGED <<world, row, bound, known, entry, closed, process, seen, history>>

-----------------------------------------------------------------------------
(* registerTrunk, for an operation or a worker. *)

(* Refused, or without an answer, which says nothing of the binding. *)
NotAccepted(a) ==
  /\ pc[a] = "sent" /\ MayFail(a) /\ Return(a) /\ bound' \in {bound, bound \cup {at[a]}}
  /\ UNCHANGED <<world, row, memory, process, seen, history>>

(* A new worker: one whose stop channel nobody can close or wait for any more. *)
Unused == {s \in Slots : pc[s] = "none" /\ \A i \in Instances : s \notin {entry[i], held[i]}}

(* Whether a login has had the trunk to itself: no other operation runs, and
   no heartbeat still has a verdict of before it. *)
Settled(a) ==
  /\ a \in Ops /\ kind[a] = "register" /\ alone = a /\ life[at[a]] = "up"
  /\ owner = at[a] /\ owned[at[a]] /\ beat[at[a]] # "lost"

(* Mutant: the worker it replaces is left to run. *)
Accepted_KeepsWorker(a) ==
  LET i == at[a]
      s == CHOOSE t \in Unused : TRUE IN
  /\ pc[a] = "sent" /\ MayWork(a) /\ Unused # {}
  /\ bound' = bound \cup {i} /\ entry' = [entry EXCEPT ![i] = s] /\ UNCHANGED closed
  /\ pc' = [pc EXCEPT ![s] = "tick", ![a] = IF a \in Slots THEN "tick" ELSE "done"]
  /\ at' = [at EXCEPT ![s] = i, ![a] = IF a \in Slots THEN i ELSE None]
  /\ kind' = IF a \in Ops THEN [kind EXCEPT ![a] = None] ELSE kind
  /\ login' = IF Settled(a) THEN i ELSE login
  /\ UNCHANGED <<world, row, known, owned, process, seen, alone, logout>>

(* Accepted: the binding is there, and startRefreshWorker replaces the worker,
   be it the one that has just registered. *)
Accepted(a) ==
  LET i == at[a]
      s == CHOOSE t \in Unused : TRUE IN
  /\ pc[a] = "sent" /\ MayWork(a) /\ Unused # {}
  /\ bound' = bound \cup {i} /\ entry' = [entry EXCEPT ![i] = s] /\ Close({entry[i]} \ {None})
  /\ pc' = [pc EXCEPT ![s] = "tick", ![a] = IF a \in Slots THEN "tick" ELSE "done"]
  /\ at' = [at EXCEPT ![s] = i, ![a] = IF a \in Slots THEN i ELSE None]
  /\ kind' = IF a \in Ops THEN [kind EXCEPT ![a] = None] ELSE kind
  /\ login' = IF Settled(a) THEN i ELSE login
  /\ UNCHANGED <<world, row, known, owned, process, seen, alone, logout>>

(* A worker returns; the map, or Stop, may still name it. *)
Gone(s) ==
  /\ Goto(s, "none")
  /\ closed' = closed \ {t \in {s} : \A i \in Instances : t \notin {entry[i], held[i]}}

(* The worker's ticker; one that is told to stop may see the tick first. *)
Tick(s) ==
  /\ pc[s] = "tick"
  /\ \/ owned[at[s]] /\ known[at[s]] # "absent" /\ Goto(s, "sent") /\ UNCHANGED closed
     \/ ~owned[at[s]] /\ Gone(s)
  /\ UNCHANGED <<world, row, bound, known, owned, entry, process, seen, history>>

WorkerStops(s) ==
  /\ pc[s] = "tick" /\ (s \in closed \/ Stopping(at[s])) /\ Gone(s)
  /\ UNCHANGED <<world, row, bound, known, owned, entry, process, seen, history>>

-----------------------------------------------------------------------------
(* RefreshTrunks, and Start. *)

(* loadTrunks reads the rows, and replaces the map afterwards. *)
Load(o) ==
  /\ pc[o] = "load" /\ MayWork(o) /\ Goto(o, "replace")
  /\ seen' = [seen EXCEPT ![o] = IF ~enabled THEN "absent" ELSE IF auto THEN "auto" ELSE "manual"]
  /\ UNCHANGED <<world, row, bound, memory, process, history>>

(* Mutant: every trunk in memory is registered. *)
Replace_PicksAll(o) ==
  /\ pc[o] = "replace" /\ known' = [known EXCEPT ![at[o]] = seen[o]]
  /\ Goto(o, IF seen[o] # "absent" THEN "lease" ELSE "done")
  /\ UNCHANGED <<world, row, bound, owned, entry, closed, process, seen, history>>

(* acquireAndRegisterAll goes by what is in memory then. *)
Replace(o) ==
  /\ pc[o] = "replace" /\ known' = [known EXCEPT ![at[o]] = seen[o]]
  /\ Goto(o, IF seen[o] = "auto" THEN "lease" ELSE "done")
  /\ UNCHANGED <<world, row, bound, owned, entry, closed, process, seen, history>>

(* Mutant: a lease that somebody else holds may be taken. *)
Free_Always(i) == enabled

(* What acquireLease asks of the row. *)
Free(i) == enabled /\ (owner \in {None, i} \/ expired)

(* acquireLease. *)
Lease(o) ==
  /\ pc[o] = "lease" /\ MayWork(o)
  /\ IF Free(at[o]) THEN Takes(at[o]) /\ Goto(o, "own")
                    ELSE Goto(o, "done") /\ UNCHANGED <<owner, expired>>
  /\ UNCHANGED <<world, enabled, auto, bound, memory, process, seen, history>>

(* A start ends with the heartbeat, whatever became of the registration. *)
Started(i) ==
  /\ life[i] = "starting" /\ \A o \in Ops : at[o] # i
  /\ life' = [life EXCEPT ![i] = "up"]
  /\ UNCHANGED <<world, row, bound, memory, beat, held, downs, ops, history>>

-----------------------------------------------------------------------------
(* UnregisterTrunk. *)

(* UpdateTrunk, in the row and in memory. *)
Disable(o) ==
  /\ pc[o] = "disable" /\ MayWork(o) /\ enabled' = FALSE
  /\ known' = [known EXCEPT ![at[o]] = "absent"] /\ Goto(o, "off")
  /\ UNCHANGED <<world, auto, owner, expired, bound, owned, entry, closed, process, seen, history>>

(* "Persist logout intent", setSipAutoRegister(false). *)
Off(o) ==
  /\ pc[o] = "off" /\ MayWork(o) /\ auto' = FALSE /\ Goto(o, "clear")
  /\ UNCHANGED <<world, enabled, owner, expired, bound, memory, process, seen, history>>

Manual(i) == [known EXCEPT ![i] = IF @ = "auto" THEN "manual" ELSE @]

(* The worker is told to stop, the lease forgotten. *)
Forget(i) ==
  /\ Close({entry[i]} \ {None}) /\ entry' = [entry EXCEPT ![i] = None]
  /\ owned' = [owned EXCEPT ![i] = FALSE]

Clear(o) ==
  /\ pc[o] = "clear" /\ Forget(at[o]) /\ known' = Manual(at[o]) /\ Goto(o, "expire")
  /\ UNCHANGED <<world, row, bound, process, seen, history>>

(* sendUnregister has a context of its own. *)
Expire(o) ==
  /\ pc[o] = "expire" /\ Goto(o, "free")
  /\ \/ bound' = bound \ {at[o]} /\ UNCHANGED seen
     \/ Faults /\ seen' = [seen EXCEPT ![o] = "failed"] /\ UNCHANGED bound
  /\ UNCHANGED <<world, row, memory, process, history>>

(* releaseLeaseForce, in the row and in memory. *)
Release(o) ==
  /\ pc[o] = "free" /\ MayWork(o) /\ owner' = None /\ expired' = FALSE
  /\ owned' = [owned EXCEPT ![at[o]] = FALSE]
  /\ Goto(o, IF seen[o] = "failed" THEN "done" ELSE "status")
  /\ UNCHANGED <<world, enabled, auto, bound, known, entry, closed, process, seen, history>>

(* updateUnregisteredStatus.  The history notes a logout that had the trunk to
   itself and left no worker anywhere. *)
Status(o) ==
  /\ pc[o] = "status" /\ MayWork(o) /\ auto' = FALSE /\ known' = Manual(at[o]) /\ Goto(o, "done")
  /\ logout' = (alone = o /\ (\A s \in Slots : pc[s] = "none")
                         /\ \A i \in Instances : life[i] = "starting" => known[i] # "auto")
  /\ UNCHANGED <<world, enabled, owner, expired, bound, owned, entry, closed, process, seen, alone, login>>

-----------------------------------------------------------------------------
(* The heartbeat. *)

(* It lists what is owned, and renews one after the other.  A statement that
   fails is tried again with the next beat. *)
Renew(i) ==
  /\ life[i] = "up" /\ beat[i] = "idle" /\ owned[i]
  /\ IF Free(i) THEN Takes(i) /\ beat' = [beat EXCEPT ![i] = "won"]
                ELSE beat' = [beat EXCEPT ![i] = "lost"] /\ UNCHANGED <<owner, expired>>
  /\ UNCHANGED <<world, enabled, auto, bound, memory, life, held, downs, ops, history>>

Renewed(i) ==
  /\ beat[i] = "won" /\ owned' = [owned EXCEPT ![i] = TRUE] /\ beat' = [beat EXCEPT ![i] = "idle"]
  /\ UNCHANGED <<world, row, bound, known, entry, closed, life, held, downs, ops, history>>

(* markLeaseLost. *)
Lost(i) ==
  /\ beat[i] = "lost" /\ Forget(i) /\ beat' = [beat EXCEPT ![i] = "idle"]
  /\ UNCHANGED <<world, row, bound, known, life, held, downs, ops, history>>

-----------------------------------------------------------------------------
(* Stop, a crash, a start. *)

(* The process is gone, and with it all it had in memory. *)
Dies(i) ==
  /\ life' = [life EXCEPT ![i] = "down"] /\ known' = [known EXCEPT ![i] = "absent"]
  /\ owned' = [owned EXCEPT ![i] = FALSE] /\ entry' = [entry EXCEPT ![i] = None]
  /\ held' = [held EXCEPT ![i] = None] /\ beat' = [beat EXCEPT ![i] = "idle"]
  /\ pc' = [a \in Actors |-> IF at[a] # i \/ pc[a] = "none" THEN pc[a] ELSE IF a \in Slots THEN "none" ELSE "done"]
  /\ at' = [a \in Actors |-> IF at[a] = i THEN None ELSE at[a]]
  /\ kind' = [o \in Ops |-> IF at[o] = i THEN None ELSE kind[o]]
  /\ login' = IF login = i THEN None ELSE login
  /\ closed' = {s \in closed : at[s] # i /\ s \notin {entry[i], held[i]}}

(* The context is cancelled first; unregisterTrunk reads the stop channel. *)
Stop(i) ==
  /\ "downs" \in world /\ life[i] = "up" /\ downs < MaxDowns /\ downs' = downs + 1
  /\ life' = [life EXCEPT ![i] = IF owned[i] THEN "closing" ELSE "ended"]
  /\ held' = [held EXCEPT ![i] = IF owned[i] THEN entry[i] ELSE None]
  /\ login' = IF login = i THEN None ELSE login
  /\ UNCHANGED <<world, row, bound, memory, beat, ops, alone, logout>>

(* It closes what it has read, outside the lock: a channel that was closed in
   the meantime is a panic. *)
StopCloses(i) ==
  /\ life[i] = "closing" /\ (held[i] = None \/ held[i] \notin closed)
  /\ Close({held[i]} \ {None})
  /\ entry' = IF held[i] = None THEN entry ELSE [entry EXCEPT ![i] = None]
  /\ life' = [life EXCEPT ![i] = "expiring"]
  /\ UNCHANGED <<world, row, bound, known, owned, beat, held, downs, ops, history>>

StopPanics(i) ==
  /\ life[i] = "closing" /\ held[i] \in closed /\ Dies(i)
  /\ UNCHANGED <<world, row, bound, downs, seen, alone, logout>>

(* releaseTrunkContact, and releaseLease, whose statement fails: its context
   is the cancelled one. *)
StopReleases(i) ==
  /\ life[i] = "expiring" /\ life' = [life EXCEPT ![i] = "ended"]
  /\ \/ bound' = bound \ {i}
     \/ Faults /\ UNCHANGED bound
  /\ owned' = [owned EXCEPT ![i] = FALSE]
  /\ UNCHANGED <<world, row, known, entry, closed, beat, held, downs, ops, history>>

(* It waits for the heartbeat and the workers, and the process ends. *)
Exit(i) ==
  /\ life[i] = "ended" /\ beat[i] = "idle" /\ \A s \in Slots : at[s] = i => pc[s] = "none"
  /\ Dies(i) /\ UNCHANGED <<world, row, bound, downs, seen, alone, logout>>

Crash(i) ==
  /\ "downs" \in world /\ life[i] \in {"starting", "up"} /\ downs < MaxDowns /\ downs' = downs + 1 /\ Dies(i)
  /\ UNCHANGED <<world, row, bound, seen, alone, logout>>

Boot(o, i) ==
  /\ life[i] = "down" /\ Launch(o, i, "start") /\ life' = [life EXCEPT ![i] = "starting"]
  /\ UNCHANGED <<world, row, bound, memory, beat, held, downs, seen, login, logout>>

(* A lease runs out if nobody renews it.  Who has one renews it in time, every
   20 of its 60 seconds. *)
Renews(i) == life[i] = "up" /\ (owned[i] \/ beat[i] = "won" \/ \E o \in Ops : at[o] = i /\ pc[o] = "own")

Expires ==
  /\ owner # None /\ ~expired /\ ~Renews(owner) /\ expired' = TRUE
  /\ UNCHANGED <<world, enabled, auto, owner, bound, memory, process, ops, history>>

-----------------------------------------------------------------------------
OpStep(o) ==
  \/ Fails(o) \/ SetAuto(o) \/ ForceLease(o) \/ Own(o) \/ Load(o) \/ Replace(o) \/ Lease(o)
  \/ Disable(o) \/ Off(o) \/ Clear(o) \/ Expire(o) \/ Release(o) \/ Status(o)
RegisterStep(a) == Accepted(a) \/ NotAccepted(a)
BeatStep(i) == Renew(i) \/ Renewed(i) \/ Lost(i)
StopStep(i) == StopCloses(i) \/ StopPanics(i) \/ StopReleases(i) \/ Exit(i)

Next ==
  \/ \E o \in Ops, i \in Instances : Boot(o, i) \/ \E k \in Asked : Request(o, i, k)
  \/ \E o \in Ops : OpStep(o)
  \/ \E a \in Actors : RegisterStep(a)
  \/ \E s \in Slots : Tick(s) \/ WorkerStops(s)
  \/ \E i \in Instances : BeatStep(i) \/ StopStep(i) \/ Stop(i) \/ Started(i) \/ Crash(i)
  \/ Expires

Spec == Init /\ [][Next]_vars

-----------------------------------------------------------------------------
(* Properties. *)

(* An instance runs one refresh worker at a time, the one it can stop: every
   other one has been told to, and no stop channel is closed twice. *)
OneWorker ==
  \A i \in Instances :
    /\ \A s \in Slots : at[s] = i /\ pc[s] # "none" /\ s \notin closed => entry[i] = s
    /\ entry[i] \notin closed

(* Why it holds.  A worker runs in the instance that started it, and so does
   every operation; ... *)
Located ==
  /\ \A a \in Actors : at[a] = None <=> pc[a] \in {"none", "done"}
  /\ \A s \in Slots : pc[s] \in {"none", "tick", "sent"}

(* ... what replaces the map has been read; ... *)
Loaded == \A o \in Ops : pc[o] = "replace" => seen[o] \in Cached

(* ... an instance names workers of its own, and a stop channel that nobody
   could close or wait for any more is forgotten; ... *)
Names(i, s) == s = entry[i] \/ s = held[i]
NamesApart == \A i, j \in Instances : \A s \in Slots : Names(i, s) /\ Names(j, s) => i = j
NamesHome == \A i \in Instances : \A s \in Slots : Names(i, s) /\ pc[s] # "none" => at[s] = i
ClosedKnown == \A s \in closed : pc[s] # "none" \/ \E i \in Instances : Names(i, s)

(* ... only a Stop waits for a worker, and finds it in the map or none. *)
HeldIsEntry ==
  \A i \in Instances : /\ ~Stopping(i) => held[i] = None
                       /\ life[i] = "closing" => entry[i] \in {held[i], None}

WorkerInv ==
  TypeOK /\ Located /\ Loaded /\ NamesApart /\ NamesHome /\ ClosedKnown /\ HeldIsEntry /\ OneWorker

(* A login that had the trunk to itself lasts: whatever refreshes, starts,
   heartbeats and late workers of all instances do, and though REGISTERs fail,
   its instance keeps the lease, its binding and a worker that refreshes it
   until somebody logs in or out or the instance goes down. *)
LoginLasts ==
  login # None => /\ owner = login /\ owned[login] /\ login \in bound /\ auto
                  /\ entry[login] # None /\ entry[login] \notin closed /\ pc[entry[login]] # "none"

(* "Persist logout intent before releasing SIP so a refresh/restart cannot
   register the trunk again": after a logout that had the trunk to itself no
   instance registers it, until somebody logs in. *)
LogoutLasts == logout => ~auto /\ \A a \in Actors : pc[a] # "sent" /\ (a \in Slots => pc[a] = "none")

(* The last word of an operator who had the trunk to himself counts. *)
IntentLasts == LoginLasts /\ LogoutLasts

(* Why it lasts.  What runs is what was asked for; ... *)
KindSteps ==
  \A o \in Ops :
    /\ kind[o] = None <=> Idle(o)
    /\ kind[o] \in {"refresh", "start"} => pc[o] \in {"load", "replace", "lease", "own", "sent"}
    /\ kind[o] = "register" => /\ pc[o] \in {"set", "force", "own", "sent"}
                              /\ life[at[o]] \in {"up", "closing", "expiring", "ended"}
OnlyOne == alone # None => \A o \in Ops \ {alone} : Idle(o)

(* ... nobody undoes what a login that has the trunk to itself has done so
   far: the lease that it took is renewed in time while it is owned; ... *)
LoneLogin ==
  \A o \in Ops :
    kind[o] = "register" /\ alone = o =>
      /\ pc[o] \in {"force", "own", "sent"} => auto
      /\ pc[o] \in {"own", "sent"} =>
           /\ enabled
           /\ owner = at[o] /\ Renews(at[o]) => ~expired

(* ... then its instance stays up and its heartbeat wins, and only refreshes
   and starts run, which find the lease taken; ... *)
LoginKept ==
  login # None =>
    /\ enabled /\ ~expired /\ life[login] = "up" /\ beat[login] # "lost"
    /\ \A o \in Ops : kind[o] \in {"refresh", "start", None}

(* ... and after a logout they read that nobody wants the trunk registered. *)
LogoutKept ==
  logout =>
    \A o \in Ops : /\ pc[o] \in {"none", "done", "load", "replace"}
                   /\ pc[o] = "replace" => seen[o] \in {"absent", "manual"}

IntentInv ==
  WorkerInv /\ KindSteps /\ OnlyOne /\ LoneLogin /\ LoginLasts /\ LoginKept /\ LogoutLasts /\ LogoutKept

(* The words of the code that a race or the order of its statements breaks. *)

(* trunk_manager.go:2056, without exception. *)
RefreshHeedsLogout == [][\A o \in Ops : kind[o] = "refresh" /\ pc[o] = "lease" /\ pc'[o] = "own" => auto]_vars

(* trunk_manager.go:593, "Stop releases all leases". *)
StopFreesLease == [][\A i \in Instances : life[i] = "ended" /\ life'[i] = "down" => owner # i]_vars
=============================================================================
