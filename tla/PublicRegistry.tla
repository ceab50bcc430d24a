--------------------------- MODULE PublicRegistry ---------------------------
(***************************************************************************)
(* The accounts of public callers (sip/public_registry.go): a call looks   *)
(* its account up or creates it, registers it, counts itself on it, and    *)
(* takes itself off again when it ends; refresh workers register again and *)
(* again; a cleanup removes and unregisters accounts nobody has used for a *)
(* while.  The map has its own lock and so has each account, REGISTERs run *)
(* outside of both, and every count looks the account up by its key again: *)
(* the account a call registered, the one it counted on and the one it     *)
(* takes its count from may be three.                                      *)
(***************************************************************************)
EXTENDS Naturals, FiniteSets

CONSTANTS Keys,          \* user@domain
          Calls,         \* the calls of public sessions
          Objects,       \* PublicAccount objects, each created once
          None,
          MaxAccounts,   \* SIP_PUBLIC_MAX_ACCOUNTS
          MaxRefresh,    \* how often a worker may refresh
          Ends,          \* how many counts the end of a call takes back
          Faults         \* REGISTERs may fail

ASSUME NoneAssumption == None \notin Keys \cup Calls \cup Objects
ASSUME BoundAssumption ==
  MaxAccounts \in Nat /\ MaxRefresh \in Nat /\ Ends \subseteq Nat /\ Faults \in BOOLEAN

VARIABLES
  accounts,    \* r.accounts: the object of each key
  keyOf,       \* the key an object was created for; None: not created
  refs,        \* RefCountActiveCalls
  idle,        \* LastUsedAt is longer ago than the idle TTL
  registered,  \* IsRegistered
  current,     \* RefreshCancel: the worker it stops, named by the call that started it
  call,        \* where each call is
  key,         \* the key it was made with
  obj,         \* the object it registers, and its worker refreshes
  aim,         \* the object it will count on
  decs,        \* how many decrements its end will still make
  worker,      \* the refresh worker each call started
  cancelled,   \* the workers whose context is cancelled
  todo,        \* removed objects the cleanup, or Stop, has yet to unregister
  sweep,       \* where it is with the one it works on
  swept,       \* that one
  stopped,     \* stopCh is closed
  bound,       \* the registrar has a binding for the key
  refreshes,
  counted,     \* history: the object each call is counted on
  missed,      \* history: the calls that counted on an object no longer in the map
  orphans,     \* history: the calls that started a worker for such an object
  surplus      \* history: objects that lost a count to a call not counted on them

account == <<accounts, keyOf, refs, idle, registered, current>>
process == <<call, key, obj, aim, decs, worker, cancelled, refreshes>>
sweeper == <<todo, sweep, swept, stopped>>
history == <<counted, missed, orphans, surplus>>
vars == <<account, process, sweeper, bound, history>>

CallAt == {"new", "look", "register", "answered", "start", "count", "inc", "up", "dec", "done"}
WorkerAt == {"none", "tick", "send", "gone"}
SweepAt == {"rest", "cancel", "send", "mark", "ended"}

AccountOK ==
  /\ accounts \in [Keys -> Objects \cup {None}] /\ keyOf \in [Objects -> Keys \cup {None}]
  /\ refs \in [Objects -> Nat] /\ idle \in [Objects -> BOOLEAN]
  /\ registered \in [Objects -> BOOLEAN] /\ current \in [Objects -> Calls \cup {None}]
ProcessOK ==
  /\ call \in [Calls -> CallAt] /\ key \in [Calls -> Keys \cup {None}]
  /\ obj \in [Calls -> Objects \cup {None}] /\ aim \in [Calls -> Objects \cup {None}]
  /\ decs \in [Calls -> Nat]
  /\ worker \in [Calls -> WorkerAt] /\ cancelled \in SUBSET Calls
  /\ refreshes \in [Calls -> 0..MaxRefresh]
SweeperOK ==
  /\ todo \in SUBSET Objects /\ sweep \in SweepAt /\ swept \in Objects \cup {None}
  /\ stopped \in BOOLEAN /\ bound \in [Keys -> BOOLEAN]
HistoryOK ==
  /\ counted \in [Calls -> Objects \cup {None}] /\ missed \in SUBSET Calls
  /\ orphans \in SUBSET Calls /\ surplus \in SUBSET Objects
TypeOK == AccountOK /\ ProcessOK /\ SweeperOK /\ HistoryOK

Init ==
  /\ accounts = [k \in Keys |-> None] /\ keyOf = [o \in Objects |-> None]
  /\ refs = [o \in Objects |-> 0] /\ idle = [o \in Objects |-> FALSE]
  /\ registered = [o \in Objects |-> FALSE] /\ current = [o \in Objects |-> None]
  /\ call = [c \in Calls |-> "new"] /\ key = [c \in Calls |-> None]
  /\ obj = [c \in Calls |-> None] /\ aim = [c \in Calls |-> None] /\ decs = [c \in Calls |-> 0]
  /\ worker = [c \in Calls |-> "none"] /\ cancelled = {} /\ refreshes = [c \in Calls |-> 0]
  /\ todo = {} /\ sweep = "rest" /\ swept = None /\ stopped = FALSE
  /\ bound = [k \in Keys |-> FALSE]
  /\ counted = [c \in Calls |-> None] /\ missed = {} /\ orphans = {}
  /\ surplus = {}

InMap == {accounts[k] : k \in Keys} \ {None}
Listed(o) == keyOf[o] # None /\ accounts[keyOf[o]] = o

(* A REGISTER names the user and the gateway's address and not the object that
   sends it, so the registrar has one binding for all objects of a key. *)
Binds(k) == bound' = [bound EXCEPT ![k] = TRUE]
Unbinds(k) == bound' = [bound EXCEPT ![k] = FALSE]

At(c, from, to) == call[c] = from /\ call' = [call EXCEPT ![c] = to]

-----------------------------------------------------------------------------
(* AcquireAndRegister, for handleWSCall. *)

(* Under the map's lock: the limit is looked at before the account is, and an
   account that is there keeps its LastUsedAt. *)
Acquire(c, k) ==
  /\ call[c] = "new" /\ key' = [key EXCEPT ![c] = k]
  /\ IF Cardinality(InMap) >= MaxAccounts
     THEN /\ call' = [call EXCEPT ![c] = "done"]
          /\ UNCHANGED <<accounts, keyOf, obj>>
     ELSE /\ call' = [call EXCEPT ![c] = "look"]
          /\ \/ /\ accounts[k] # None /\ obj' = [obj EXCEPT ![c] = accounts[k]]
                /\ UNCHANGED <<accounts, keyOf>>
             \/ /\ accounts[k] = None
                /\ \E o \in Objects : /\ keyOf[o] = None /\ keyOf' = [keyOf EXCEPT ![o] = k]
                                      /\ accounts' = [accounts EXCEPT ![k] = o]
                                      /\ obj' = [obj EXCEPT ![c] = o]
  /\ UNCHANGED <<refs, idle, registered, current, aim, decs, worker, cancelled, refreshes, sweeper,
                 bound, history>>

(* Under the account's lock: registered already, or registerAccount. *)
Look(c) ==
  /\ call[c] = "look"
  /\ call' = [call EXCEPT ![c] = IF registered[obj[c]] THEN "count" ELSE "register"]
  /\ UNCHANGED <<account, key, obj, aim, decs, worker, cancelled, refreshes, sweeper, bound, history>>

(* The registrar accepts the call's REGISTER; its answer may still be lost. *)
Register(c) ==
  /\ At(c, "register", "answered") /\ Binds(key[c])
  /\ UNCHANGED <<account, key, obj, aim, decs, worker, cancelled, refreshes, sweeper, history>>

RegisterFails(c) ==
  /\ Faults /\ call[c] \in {"register", "answered"} /\ call' = [call EXCEPT ![c] = "done"]
  /\ UNCHANGED <<account, key, obj, aim, decs, worker, cancelled, refreshes, sweeper, bound, history>>

Registered(c) ==
  /\ At(c, "answered", "start") /\ registered' = [registered EXCEPT ![obj[c]] = TRUE]
  /\ UNCHANGED <<accounts, keyOf, refs, idle, current, key, obj, aim, decs, worker, cancelled, refreshes,
                 sweeper, bound, history>>

(* Mutant: the worker it replaces is left to run. *)
StartWorker_KeepsOld(c) ==
  /\ At(c, "start", "count") /\ orphans' = IF Listed(obj[c]) THEN orphans ELSE orphans \cup {c}
  /\ current' = [current EXCEPT ![obj[c]] = c] /\ worker' = [worker EXCEPT ![c] = "tick"]
  /\ UNCHANGED <<accounts, keyOf, refs, idle, registered, key, obj, aim, decs, cancelled, refreshes,
                 sweeper, bound, counted, missed, surplus>>

(* Mutant: the new worker is stored before the old one is cancelled. *)
StartWorker_CancelsItself(c) ==
  /\ At(c, "start", "count") /\ orphans' = IF Listed(obj[c]) THEN orphans ELSE orphans \cup {c}
  /\ cancelled' = cancelled \cup {c}
  /\ current' = [current EXCEPT ![obj[c]] = c] /\ worker' = [worker EXCEPT ![c] = "tick"]
  /\ UNCHANGED <<accounts, keyOf, refs, idle, registered, key, obj, aim, decs, refreshes, sweeper, bound,
                 counted, missed, surplus>>

(* A second critical section of the account: cancel the worker there is, and
   start one. *)
StartWorker(c) ==
  /\ At(c, "start", "count") /\ orphans' = IF Listed(obj[c]) THEN orphans ELSE orphans \cup {c}
  /\ cancelled' = cancelled \cup ({current[obj[c]]} \ {None})
  /\ current' = [current EXCEPT ![obj[c]] = c] /\ worker' = [worker EXCEPT ![c] = "tick"]
  /\ UNCHANGED <<accounts, keyOf, refs, idle, registered, key, obj, aim, decs, refreshes, sweeper, bound,
                 counted, missed, surplus>>

(* IncrementRefCount looks the key up, again, and takes the account's lock. *)
LookToCount(c) ==
  /\ call[c] = "count" /\ aim' = [aim EXCEPT ![c] = accounts[key[c]]]
  /\ call' = [call EXCEPT ![c] = IF accounts[key[c]] = None THEN "up" ELSE "inc"]
  /\ UNCHANGED <<account, key, obj, decs, worker, cancelled, refreshes, sweeper, bound, history>>

(* Mutant: a call counts itself each time it looks its account up. *)
Count_Twice(c) ==
  /\ At(c, "inc", "up")
  /\ refs' = [refs EXCEPT ![aim[c]] = @ + 2] /\ idle' = [idle EXCEPT ![aim[c]] = FALSE]
  /\ counted' = [counted EXCEPT ![c] = aim[c]]
  /\ missed' = IF Listed(aim[c]) THEN missed ELSE missed \cup {c}
  /\ UNCHANGED <<accounts, keyOf, registered, current, key, obj, aim, decs, worker, cancelled, refreshes,
                 sweeper, bound, orphans, surplus>>

Count(c) ==
  /\ At(c, "inc", "up")
  /\ refs' = [refs EXCEPT ![aim[c]] = @ + 1] /\ idle' = [idle EXCEPT ![aim[c]] = FALSE]
  /\ counted' = [counted EXCEPT ![c] = aim[c]]
  /\ missed' = IF Listed(aim[c]) THEN missed ELSE missed \cup {c}
  /\ UNCHANGED <<accounts, keyOf, registered, current, key, obj, aim, decs, worker, cancelled, refreshes,
                 sweeper, bound, orphans, surplus>>

(* A call ends: by a hangup, an agent cleanup, a bridged peer or a BYE, which
   take its count back; refused, and hung up by its client afterwards, which
   does so twice; or by ICE, the janitor or a REST hangup, which do not. *)
CallEnds(c) ==
  /\ call[c] = "up"
  /\ \E n \in Ends : /\ decs' = [decs EXCEPT ![c] = n]
                     /\ call' = [call EXCEPT ![c] = IF n = 0 THEN "done" ELSE "dec"]
  /\ UNCHANGED <<account, key, obj, aim, worker, cancelled, refreshes, sweeper, bound, history>>

(* Mutant: nothing keeps a count from falling below zero. *)
Uncount_BelowZero(c) ==
  /\ call[c] = "dec"
  /\ decs' = [decs EXCEPT ![c] = @ - 1]
  /\ call' = [call EXCEPT ![c] = IF decs[c] = 1 THEN "done" ELSE "dec"]
  /\ LET o == accounts[key[c]] IN
     IF o = None THEN UNCHANGED <<refs, idle, counted, surplus>>
     ELSE /\ refs' = [refs EXCEPT ![o] = @ - 1]
          /\ idle' = [idle EXCEPT ![o] = FALSE]
          /\ surplus' = IF counted[c] = o \/ refs[o] = 0 THEN surplus ELSE surplus \cup {o}
          /\ counted' = IF counted[c] = o THEN [counted EXCEPT ![c] = None] ELSE counted
  /\ UNCHANGED <<accounts, keyOf, registered, current, key, obj, aim, worker, cancelled, refreshes,
                 sweeper, bound, missed, orphans>>

(* DecrementRefCount; the lookup and the count are one step here: only the
   cleanup takes an object out of the map, and none with a count.  *)
Uncount(c) ==
  /\ call[c] = "dec"
  /\ decs' = [decs EXCEPT ![c] = @ - 1]
  /\ call' = [call EXCEPT ![c] = IF decs[c] = 1 THEN "done" ELSE "dec"]
  /\ LET o == accounts[key[c]] IN
     IF o = None THEN UNCHANGED <<refs, idle, counted, surplus>>
     ELSE /\ refs' = [refs EXCEPT ![o] = IF @ > 0 THEN @ - 1 ELSE 0]
          /\ idle' = [idle EXCEPT ![o] = FALSE]
          /\ surplus' = IF counted[c] = o \/ refs[o] = 0 THEN surplus ELSE surplus \cup {o}
          /\ counted' = IF counted[c] = o THEN [counted EXCEPT ![c] = None] ELSE counted
  /\ UNCHANGED <<accounts, keyOf, registered, current, key, obj, aim, worker, cancelled, refreshes,
                 sweeper, bound, missed, orphans>>

-----------------------------------------------------------------------------
(* The refresh workers. *)

Halted(c) == c \in cancelled \/ stopped

(* A tick of the worker's timer; the select may take it though the worker's
   context is cancelled as well. *)
Tick(c) ==
  /\ worker[c] = "tick" /\ refreshes[c] < MaxRefresh
  /\ worker' = [worker EXCEPT ![c] = "send"] /\ refreshes' = [refreshes EXCEPT ![c] = @ + 1]
  /\ UNCHANGED <<account, call, key, obj, aim, decs, cancelled, sweeper, bound, history>>

(* Its REGISTER comes to an end: accepted, or not.  A refusal leaves
   IsRegistered as it is. *)
Refreshed(c) ==
  /\ worker[c] = "send" /\ worker' = [worker EXCEPT ![c] = "tick"]
  /\ \/ Binds(key[c])
     \/ Faults /\ UNCHANGED bound
  /\ UNCHANGED <<account, call, key, obj, aim, decs, cancelled, refreshes, sweeper, history>>

WorkerReturns(c) ==
  /\ worker[c] = "tick" /\ Halted(c) /\ worker' = [worker EXCEPT ![c] = "gone"]
  /\ UNCHANGED <<account, call, key, obj, aim, decs, cancelled, refreshes, sweeper, bound, history>>

-----------------------------------------------------------------------------
(* The cleanup worker, and Stop, which waits for it. *)

(* The TTL of an account runs out. *)
Ages(o) ==
  /\ keyOf[o] # None /\ ~idle[o] /\ idle' = [idle EXCEPT ![o] = TRUE]
  /\ UNCHANGED <<accounts, keyOf, refs, registered, current, process, sweeper, bound, history>>

(* Mutant: the count of active calls is not looked at. *)
Unused_AnyCount(o) == Listed(o) /\ idle[o]

Unused(o) == Listed(o) /\ refs[o] = 0 /\ idle[o]

(* Under the map's lock, every account without calls that is idle goes. *)
Cleanup ==
  /\ sweep = "rest" /\ todo = {} /\ ~stopped
  /\ LET gone == {o \in Objects : Unused(o)} IN
     /\ gone # {} /\ todo' = gone
     /\ accounts' = [k \in Keys |-> IF accounts[k] \in gone THEN None ELSE accounts[k]]
  /\ UNCHANGED <<keyOf, refs, idle, registered, current, process, sweep, swept, stopped, bound,
                 history>>

(* unregisterAccount takes the next one. *)
NextSwept ==
  /\ sweep = "rest" /\ \E o \in todo : swept' = o /\ todo' = todo \ {o}
  /\ sweep' = "cancel"
  /\ UNCHANGED <<account, process, stopped, bound, history>>

(* Mutant: the refresh worker runs on. *)
CancelWorker_KeepsWorker ==
  /\ sweep = "cancel"
  /\ current' = [current EXCEPT ![swept] = None]
  /\ sweep' = IF registered[swept] THEN "send" ELSE "rest"
  /\ UNCHANGED <<accounts, keyOf, refs, idle, registered, process, todo, swept, stopped, bound,
                 history>>

(* Under the account's lock: stop its worker; nothing more to do for one that
   is not registered. *)
CancelWorker ==
  /\ sweep = "cancel"
  /\ cancelled' = cancelled \cup ({current[swept]} \ {None})
  /\ current' = [current EXCEPT ![swept] = None]
  /\ sweep' = IF registered[swept] THEN "send" ELSE "rest"
  /\ UNCHANGED <<accounts, keyOf, refs, idle, registered, call, key, obj, aim, decs, worker, refreshes,
                 todo, swept, stopped, bound, history>>

(* REGISTER with Expires: 0, for the key, whoever has it now. *)
SendUnregister ==
  /\ sweep = "send"
  /\ \/ sweep' = "mark" /\ Unbinds(keyOf[swept])
     \/ Faults /\ sweep' = "rest" /\ UNCHANGED bound
  /\ UNCHANGED <<account, process, todo, swept, stopped, history>>

MarkUnregistered ==
  /\ sweep = "mark" /\ sweep' = "rest" /\ registered' = [registered EXCEPT ![swept] = FALSE]
  /\ UNCHANGED <<accounts, keyOf, refs, idle, current, process, todo, swept, stopped, bound, history>>

(* Stop closes stopCh, waits for the cleanup and then unregisters what is left
   in the map, which stays there.  *)
Stop ==
  /\ sweep = "rest" /\ todo = {} /\ ~stopped /\ stopped' = TRUE /\ todo' = InMap
  /\ UNCHANGED <<account, process, sweep, swept, bound, history>>

Stopped ==
  /\ stopped /\ sweep = "rest" /\ todo = {} /\ sweep' = "ended"
  /\ UNCHANGED <<account, process, todo, swept, stopped, bound, history>>

-----------------------------------------------------------------------------
(* A binding that nobody refreshes runs out at the registrar. *)
Lapses(k) ==
  /\ bound[k] /\ Unbinds(k)
  /\ \A c \in Calls : key[c] = k => worker[c] \in {"none", "gone"} /\ call[c] \notin {"answered", "start"}
  /\ UNCHANGED <<account, process, sweeper, history>>

CallStep(c) ==
  \/ \E k \in Keys : Acquire(c, k)
  \/ Look(c) \/ Register(c) \/ RegisterFails(c) \/ Registered(c) \/ StartWorker(c)
  \/ LookToCount(c) \/ Count(c) \/ CallEnds(c) \/ Uncount(c)
WorkerStep(c) == Tick(c) \/ Refreshed(c) \/ WorkerReturns(c)
Unregister == NextSwept \/ CancelWorker \/ SendUnregister \/ MarkUnregistered

Next ==
  \/ sweep # "ended" /\ \E c \in Calls : CallStep(c) \/ WorkerStep(c)
  \/ \E o \in Objects : Ages(o)
  \/ Cleanup \/ Unregister \/ Stop \/ Stopped
  \/ \E k \in Keys : Lapses(k)

Spec == Init /\ [][Next]_vars

-----------------------------------------------------------------------------
(* Properties. *)

(* A call that got its count onto an account in time keeps that account in the
   map, whatever cleanups and other calls of the account do, unless another
   call took one count too many off it (config.go: "Unregister after N seconds
   of no active calls"). *)
CountedKeepsAccount ==
  \A c \in Calls : counted[c] # None /\ c \notin missed /\ counted[c] \notin surplus
                   => Listed(counted[c])

(* No refresh worker outlives its account: one that nobody has cancelled
   belongs to an account in the map or about to be unregistered, unless the
   account was removed while the call that started the worker registered it. *)
WorkersStopped ==
  \A c \in Calls : worker[c] \in {"tick", "send"} /\ c \notin cancelled \cup orphans
                   => \/ Listed(obj[c]) \/ obj[c] \in todo
                      \/ swept = obj[c] /\ sweep = "cancel"

(* An account that counts as registered, so that calls go out without a
   REGISTER of their own, is being refreshed, or is about to be; two calls that
   register it at once leave it one worker, not none. *)
RegisteredRefreshed ==
  ~stopped => \A o \in Objects : Listed(o) /\ registered[o] =>
    \E c \in Calls : obj[c] = o /\ \/ call[c] = "start"
                                   \/ worker[c] \in {"tick", "send"} /\ c \notin cancelled

(* Accounts in use have one refresh worker, the others none. *)
WorkersFollow == WorkersStopped /\ RegisteredRefreshed

(* Why they hold.  An object is made for one key and stays its object, in the
   map or not; what the calls, the map and the cleanup work on are objects. *)
KeysKept ==
  /\ \A k \in Keys : accounts[k] # None => keyOf[accounts[k]] = k
  /\ \A c \in Calls : obj[c] # None => key[c] \in Keys /\ keyOf[obj[c]] = key[c]
  /\ \A o \in todo : keyOf[o] # None
  /\ sweep \in {"cancel", "send", "mark"} => swept \in Objects /\ keyOf[swept] # None
Placed ==
  \A c \in Calls :
    /\ call[c] = "new" => obj[c] = None
    /\ call[c] \notin {"new", "done"} => obj[c] # None
    /\ call[c] = "inc" => aim[c] # None
    /\ call[c] = "dec" => decs[c] # 0

(* The count of an object is the number of calls counted on it, unless one too
   many was taken off; so the cleanup leaves an object that somebody is counted
   on in the map. *)
On(o) == {c \in Calls : counted[c] = o}
NotCounted == \A c \in Calls : call[c] \notin {"up", "dec", "done"} => counted[c] = None
CountsExact ==
  \A o \in Objects : IsFiniteSet(On(o)) /\ (o \notin surplus => refs[o] = Cardinality(On(o)))

(* A worker that nobody cancelled is the one its object names, and an object
   names a worker it started. *)
Before == {"new", "look", "register", "answered", "start"}
WorkersNamed ==
  /\ \A c \in Calls : call[c] \in Before => worker[c] = "none" /\ c \notin cancelled
  /\ \A c \in Calls : worker[c] \in {"tick", "send"} => obj[c] # None
  /\ \A c \in Calls : worker[c] \in {"tick", "send"} /\ c \notin cancelled => current[obj[c]] = c
  /\ \A o \in Objects : current[o] # None => obj[current[o]] = o /\ call[current[o]] \notin Before

(* An object nobody asked for is not registered; those the cleanup works on are
   out of the map for good. *)
Removed ==
  /\ \A o \in Objects : keyOf[o] = None => ~registered[o]
  /\ ~stopped => \A o \in todo : ~Listed(o)
  /\ ~stopped /\ sweep \in {"cancel", "send", "mark"} => ~Listed(swept)

RegistryInv ==
  /\ TypeOK /\ KeysKept /\ Placed /\ NotCounted /\ CountsExact /\ WorkersNamed /\ Removed
  /\ CountedKeepsAccount /\ WorkersStopped /\ RegisteredRefreshed

(* The docs' word for the cleanup, without the exceptions. *)
ActiveKeepsAccount == \A c \in Calls : call[c] = "up" => accounts[key[c]] # None

=============================================================================
