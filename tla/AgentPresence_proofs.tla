------------------------ MODULE AgentPresence_proofs ------------------------
(***************************************************************************)
(* Proofs about AgentPresence for every set of connections, trunks and     *)
(* sessions, and all values of the switches.                               *)
(***************************************************************************)
EXTENDS AgentPresence, TLAPS

-----------------------------------------------------------------------------
(* The inductive step, one lemma per part of IInv *)

(* Ending a call keeps the types. *)
LEMMA EndType ==
  ASSUME TypeOK, NEW s \in Sids, sess' = [sess EXCEPT ![s].st = "ended"]
  PROVE  sess' \in [Sids -> [st : {"none", "live", "ended"}, trunk : Trunks \cup {None}, owner : Clients \cup {None}]]
<1>1. sess[s] \in [st : {"none", "live", "ended"}, trunk : Trunks \cup {None}, owner : Clients \cup {None}]
  BY DEF TypeOK
<1>2. [sess[s] EXCEPT !.st = "ended"] \in [st : {"none", "live", "ended"}, trunk : Trunks \cup {None}, owner : Clients \cup {None}]
  BY <1>1
<1>3. sess' = [sess EXCEPT ![s] = [sess[s] EXCEPT !.st = "ended"]]
  OBVIOUS
<1> QED BY <1>2, <1>3 DEF TypeOK

(* Binding a client to a trunk keeps the types. *)
LEMMA BindType ==
  ASSUME TypeOK, NEW c \in Clients, NEW t \in Trunks, Bind(c, t)
  PROVE  TypeOK'
<1> USE DEF Bind, LastOn, Goto, regVars, bgVars
<1>1. bound' \in [Trunks -> SUBSET Clients] BY DEF TypeOK
<1>2. /\ resolved' \in [Clients -> Trunks \cup {None}] /\ ready' \in [Clients -> Trunks \cup {None}]
      /\ need' \in [Clients -> BOOLEAN]
  BY DEF TypeOK
<1>3. kept' \subseteq Sids BY DEF TypeOK
<1>4. CASE resolved[c] # t /\ LastOn(c, resolved[c])
  <2>1. /\ at' = [at EXCEPT ![c] = resolved[c]] /\ next' = [next EXCEPT ![c] = t]
        /\ mode' = [mode EXCEPT ![c] = IF c \in Agents THEN "rebind" ELSE "move"]
        /\ pc' = [pc EXCEPT ![c] = IF c \in Agents THEN "clean" ELSE "move"]
    BY <1>4
  <2> QED BY <1>1, <1>2, <1>3, <2>1 DEF TypeOK, Pcs
<1>5. CASE ~(resolved[c] # t /\ LastOn(c, resolved[c]))
  <2>1. /\ at' = [at EXCEPT ![c] = t] /\ next' = next
        /\ mode' = [mode EXCEPT ![c] = "register"] /\ pc' = [pc EXCEPT ![c] = "lock"]
    BY <1>5
  <2> QED BY <1>1, <1>2, <1>3, <2>1 DEF TypeOK, Pcs
<1> QED BY <1>4, <1>5

(* Every step keeps the types. *)
LEMMA TypeStep ==
  ASSUME TypeOK, OnCourse, [Next]_vars
  PROVE  TypeOK'
<1> USE PresenceAssumption DEF Goto, connVars, workVars, regVars, bgVars, callVars
<1>1. ASSUME NEW c \in Clients, Unlock(c) PROVE TypeOK'
  <2>1. at[c] \in Trunks
    BY <1>1 DEF TypeOK, OnCourse, WorkPcs, HoldPcs, Unlock, AfterLock
  <2>2. pc' \in [Clients -> Pcs]
    BY <1>1 DEF TypeOK, OnCourse, WorkPcs, HoldPcs, Pcs, Unlock, AfterLock
  <2>3. mode' \in [Clients -> {"none", "register", "rebind", "leave", "move", "stale", "logout"}]
    BY <1>1 DEF TypeOK, Unlock, AfterLock
  <2>4. at' \in [Clients -> Trunks \cup {None}]
    BY <1>1 DEF TypeOK, Unlock, AfterLock
  <2> QED BY <2>1, <2>2, <2>3, <2>4, <1>1 DEF TypeOK, Unlock, AfterLock
<1>2. ASSUME NEW c \in Clients, RegLease(c) PROVE TypeOK'
  BY <1>2 DEF TypeOK, Pcs, RegLease
<1>3. ASSUME NEW c \in Clients, RegSend(c) PROVE TypeOK'
  <2>1. at[c] \in Trunks
    BY <1>3 DEF TypeOK, OnCourse, WorkPcs, HoldPcs, RegSend, Accepted, Refused
  <2>2. binding' \subseteq {Contact[t] : t \in Trunks}
    BY <1>3, <2>1 DEF TypeOK, RegSend, Accepted, Refused
  <2>3. pc' \in [Clients -> Pcs]
    BY <1>3, SMTT(60) DEF TypeOK, Pcs, RegSend, Accepted, Refused
  <2> QED BY <2>1, <2>2, <2>3, <1>3, ZenonT(40) DEF TypeOK, RegSend, Accepted, Refused
<1>4. ASSUME NEW c \in Clients, RegDone(c) PROVE TypeOK'
  BY <1>4 DEF TypeOK, Pcs, RegDone
<1>5. ASSUME NEW c \in Clients, Tell(c) PROVE TypeOK'
  BY <1>5 DEF TypeOK, Pcs, Tell
<1>6. ASSUME NEW c \in Clients, Drop(c) PROVE TypeOK'
  BY <1>6 DEF TypeOK, Pcs, Drop, Unbind
<1>7. ASSUME NEW c \in Clients, Clear(c) PROVE TypeOK'
  BY <1>7 DEF TypeOK, Pcs, Clear
<1>8. ASSUME NEW c \in Clients, ChooseContact(c) PROVE TypeOK'
  BY <1>8 DEF TypeOK, Pcs, ChooseContact, Siblings
<1>9. ASSUME NEW c \in Clients, KeepSend(c) PROVE TypeOK'
  <2>1. at[c] \in Trunks
    BY <1>9 DEF TypeOK, OnCourse, WorkPcs, HoldPcs, KeepSend, Accepted, Refused, KeepNext
  <2>2. binding' \subseteq {Contact[t] : t \in Trunks}
    BY <1>9, <2>1 DEF TypeOK, KeepSend, Accepted, Refused, KeepNext
  <2>3. pc' \in [Clients -> Pcs]
    BY <1>9, SMTT(60) DEF TypeOK, Pcs, KeepSend, Accepted, Refused, KeepNext
  <2>4. sibling' = sibling \/ \E u \in sibling[c] : sibling' = [sibling EXCEPT ![c] = sibling[c] \ {u}]
    BY <1>9 DEF KeepSend, KeepNext
  <2>5. sibling' \in [Clients -> SUBSET Trunks]
    BY <2>4 DEF TypeOK
  <2> QED BY <2>1, <2>2, <2>3, <2>4, <2>5, <1>9 DEF TypeOK, KeepSend, Accepted, Refused, KeepNext
<1>10. ASSUME NEW c \in Clients, KeepDone(c) PROVE TypeOK'
  BY <1>10 DEF TypeOK, Pcs, KeepDone, KeepNext
<1>11. ASSUME NEW c \in Clients, Expire(c) PROVE TypeOK'
  BY <1>11 DEF TypeOK, Pcs, Expire
<1>12. ASSUME NEW c \in Clients, Release(c) PROVE TypeOK'
  BY <1>12 DEF TypeOK, Pcs, Release
<1>13. ASSUME NEW c \in Clients, Leave(c) PROVE TypeOK'
  BY <1>13 DEF TypeOK, Pcs, Leave, Unbind, LastOn, Owned
<1>14. ASSUME NEW c \in Clients, Hangup(c) PROVE TypeOK'
  <2>1. sess' \in [Sids -> [st : {"none", "live", "ended"}, trunk : Trunks \cup {None}, owner : Clients \cup {None}]]
    BY <1>14, EndType DEF TypeOK, Hangup, EndOne
  <2>2. todo' \in [Clients -> SUBSET Sids]
    BY <1>14 DEF TypeOK, Hangup, EndOne
  <2> QED BY <2>1, <2>2, <1>14 DEF TypeOK, Hangup
<1>15. ASSUME NEW c \in Clients, HungUp(c) PROVE TypeOK'
  BY <1>15 DEF TypeOK, Pcs, HungUp
<1>16. ASSUME NEW c \in Clients, Snapshot(c) PROVE TypeOK'
  BY <1>16 DEF TypeOK, Pcs, Snapshot, OnTrunk
<1>17. ASSUME NEW c \in Clients, Recheck(c) PROVE TypeOK'
  <2>1. pc' = [pc EXCEPT ![c] = "unlock"] \/ pc' = [pc EXCEPT ![c] = "sweep"]
    BY <1>17 DEF Recheck
  <2>2. todo' = [todo EXCEPT ![c] = {}] \/ todo' = todo
    BY <1>17 DEF Recheck
  <2>3. pc' \in [Clients -> Pcs]
    BY <2>1 DEF TypeOK, Pcs
  <2>4. todo' \in [Clients -> SUBSET Sids]
    BY <2>2 DEF TypeOK
  <2>5. UNCHANGED <<connVars, opLock, mode, at, next, need, failed, stale, sibling, regVars, bgVars,
                    callVars>>
    BY <1>17 DEF Recheck
  <2> QED BY <2>3, <2>4, <2>5 DEF TypeOK
<1>18. ASSUME NEW c \in Clients, Sweep(c) PROVE TypeOK'
  <2>1. sess' \in [Sids -> [st : {"none", "live", "ended"}, trunk : Trunks \cup {None}, owner : Clients \cup {None}]]
    BY <1>18, EndType DEF TypeOK, Sweep, EndOne
  <2>2. todo' \in [Clients -> SUBSET Sids]
    BY <1>18 DEF TypeOK, Sweep, EndOne
  <2> QED BY <2>1, <2>2, <1>18 DEF TypeOK, Sweep
<1>19. ASSUME NEW c \in Clients, Swept(c) PROVE TypeOK'
  BY <1>19 DEF TypeOK, Pcs, Swept, InUse
<1>20. ASSUME NEW c \in Clients, Repair(c) PROVE TypeOK'
  BY <1>20 DEF TypeOK, Pcs, Repair, InUse
<1>21. ASSUME NEW c \in Clients, ListStale(c) PROVE TypeOK'
  <2>1. pc' \in [Clients -> Pcs]
    BY <1>21 DEF TypeOK, Pcs, ListStale, StaleOf
  <2>2. StaleOf(c, next[c]) \subseteq Trunks
    BY DEF StaleOf, Trunks
  <2>3. stale' \in [Clients -> SUBSET Trunks]
    BY <1>21, <2>2 DEF TypeOK, ListStale
  <2> QED BY <2>1, <2>2, <2>3, <1>21 DEF TypeOK, ListStale
<1>22. ASSUME NEW c \in Clients, BindDevice(c) PROVE TypeOK'
  <2>1. next[c] \in Trunks
    BY <1>22 DEF TypeOK, OnCourse, BindDevice
  <2> QED BY <2>1, <1>22, BindType DEF BindDevice
<1>23. ASSUME NEW c \in Clients, Forget(c) PROVE TypeOK'
  BY <1>23 DEF TypeOK, Pcs, Forget, Owned
<1>24. ASSUME NEW c \in Clients, LoggedOut(c) PROVE TypeOK'
  BY <1>24 DEF TypeOK, Pcs, LoggedOut, Unbind
<1>25. ASSUME NEW c \in Clients, TakeToRegister(c) PROVE TypeOK'
  <2>1. CASE MustRegister(c)
    <3>1. /\ opLock' = [opLock EXCEPT ![at[c]] = c] /\ pc' = [pc EXCEPT ![c] = "lease"]
          /\ UNCHANGED <<mode, at, failed>>
      BY <1>25, <2>1 DEF TakeToRegister, Take
    <3> QED BY <1>25, <3>1 DEF TypeOK, Pcs, TakeToRegister
  <2>2. CASE ~MustRegister(c)
    <3>1. /\ pc' = [pc EXCEPT ![c] = "tell"] /\ failed' = [failed EXCEPT ![c] = FALSE]
          /\ UNCHANGED <<mode, at, opLock>>
      BY <1>25, <2>2 DEF TakeToRegister
    <3>2. pc' \in [Clients -> Pcs] /\ failed' \in [Clients -> BOOLEAN]
      BY <3>1 DEF TypeOK, Pcs
    <3> QED BY <1>25, <3>1, <3>2 DEF TypeOK, TakeToRegister
  <2> QED BY <2>1, <2>2
<1>26. ASSUME NEW c \in Clients, TakeToClean(c) PROVE TypeOK'
  <2>1. at[c] \in Trunks /\ mode[c] \in {"rebind", "leave"}
    BY <1>26 DEF TypeOK, OnCourse, WorkPcs, HoldPcs, TakeToClean
  <2>2. CASE InUse(at[c])
    <3>1. AfterLock(c) /\ UNCHANGED opLock
      BY <1>26, <2>2 DEF TakeToClean
    <3>2. /\ pc' = [pc EXCEPT ![c] = IF mode[c] = "rebind" THEN "lock" ELSE "gone"]
          /\ mode' = mode \/ mode' = [mode EXCEPT ![c] = "register"]
          /\ at' = at \/ at' = [at EXCEPT ![c] = next[c]]
      BY <2>1, <3>1 DEF AfterLock
    <3>3. pc' \in [Clients -> Pcs]
      BY <3>2 DEF TypeOK, Pcs
    <3>4. at' \in [Clients -> Trunks \cup {None}]
      BY <3>2, SMTT(40) DEF TypeOK
    <3>5. mode' \in [Clients -> {"none", "register", "rebind", "leave", "move", "stale", "logout"}]
      BY <3>2 DEF TypeOK
    <3> QED BY <1>26, <3>1, <3>3, <3>4, <3>5 DEF TypeOK, TakeToClean
  <2>3. CASE ~InUse(at[c])
    <3>1. /\ opLock' = [opLock EXCEPT ![at[c]] = c] /\ pc' = [pc EXCEPT ![c] = "snapshot"]
          /\ UNCHANGED <<mode, at>>
      BY <1>26, <2>3 DEF TakeToClean, Take
    <3> QED BY <1>26, <3>1 DEF TypeOK, Pcs, TakeToClean
  <2> QED BY <2>2, <2>3
<1>27. ASSUME NEW c \in Clients, ReleaseStale(c) PROVE TypeOK'
  <2>1. PICK u \in stale[c] : TakeToRelease(c, u, "stale") /\ stale' = [stale EXCEPT ![c] = @ \ {u}]
    BY <1>27 DEF ReleaseStale
  <2>2. u \in Trunks /\ stale' \in [Clients -> SUBSET Trunks]
    BY <2>1 DEF TypeOK
  <2> QED BY <2>1, <2>2 DEF TypeOK, Pcs, TakeToRelease, Take
<1>28. ASSUME NEW c \in Clients, Move(c) PROVE TypeOK'
  BY <1>28 DEF TypeOK, Pcs, Move, TakeToRelease, Take
<1>29. ASSUME NEW c \in Clients, TakeToLogout(c) PROVE TypeOK'
  <2>1. pc' = [pc EXCEPT ![c] = "idle"] \/ pc' = [pc EXCEPT ![c] = "clear"]
    BY <1>29 DEF TakeToLogout, Take
  <2>2. pc' \in [Clients -> Pcs]
    BY <2>1 DEF TypeOK, Pcs
  <2>3. opLock' \in [Trunks -> Clients \cup {None}]
    BY <1>29, SMTT(60) DEF TypeOK, TakeToLogout, UsedByOthers, Take
  <2> QED BY <2>2, <2>3, <1>29 DEF TypeOK, TakeToLogout
<1>30. ASSUME NEW c \in Clients, NEW t \in Trunks, AgentRegister(c, t) PROVE TypeOK'
  BY <1>30, BindType DEF AgentRegister
<1>31. ASSUME NEW c \in Clients, NEW t \in Trunks, DeviceRegister(c, t) PROVE TypeOK'
  BY <1>31 DEF TypeOK, Pcs, DeviceRegister, Notify
<1>32. ASSUME NEW c \in Clients, Unregister(c) PROVE TypeOK'
  BY <1>32 DEF TypeOK, Pcs, Unregister
<1>33. ASSUME NEW c \in Clients, CallNotReady(c) PROVE TypeOK'
  BY <1>33 DEF TypeOK, CallNotReady
<1>34. ASSUME NEW c \in Clients, SocketCloses(c) PROVE TypeOK'
  BY <1>34 DEF TypeOK, SocketCloses
<1>35. ASSUME NEW c \in Clients, NEW s \in Sids, Call(c, s) PROVE TypeOK'
  <2>1. [st |-> "live", trunk |-> resolved[c], owner |-> c]
          \in [st : {"none", "live", "ended"}, trunk : Trunks \cup {None}, owner : Clients \cup {None}]
    BY DEF TypeOK
  <2>2. sess' = [sess EXCEPT ![s] = [st |-> "live", trunk |-> resolved[c], owner |-> c]]
    BY <1>35 DEF Call
  <2> HIDE DEF NoSession
  <2> QED BY <1>35, <2>1, <2>2 DEF TypeOK, Call
<1>36. ASSUME NEW t \in Trunks, RefreshTick(t) PROVE TypeOK'
  BY <1>36, ZenonT(60) DEF TypeOK, RefreshTick
<1>37. ASSUME NEW t \in Trunks, RefreshSend(t) PROVE TypeOK'
  <2>1. binding' \subseteq {Contact[u] : u \in Trunks}
    BY <1>37 DEF TypeOK, RefreshSend, Accepted, Refused
  <2>2. refresh' \in [Trunks -> {"idle", "wire", "worker"}]
    BY <1>37, SMTT(40) DEF TypeOK, RefreshSend, Accepted, Refused
  <2> QED BY <2>1, <2>2, <1>37 DEF TypeOK, RefreshSend, Accepted, Refused
<1>38. ASSUME NEW t \in Trunks, RefreshDone(t) PROVE TypeOK'
  BY <1>38 DEF TypeOK, RefreshDone
<1>39. ASSUME NEW t \in Trunks, RenewLease(t) PROVE TypeOK'
  BY <1>39 DEF TypeOK, RenewLease
<1>40. ASSUME NEW t \in Trunks, PeerTakes(t) PROVE TypeOK'
  BY <1>40 DEF TypeOK, PeerTakes
<1>41. ASSUME NEW t \in Trunks, PeerReleases(t) PROVE TypeOK'
  BY <1>41 DEF TypeOK, PeerReleases
<1>42. CASE HeartbeatTick
  BY <1>42 DEF TypeOK, HeartbeatTick
<1>43. CASE Renewed
  BY <1>43 DEF TypeOK, Renewed
<1>44. ASSUME NEW s \in Sids, CallEnds(s) PROVE TypeOK'
  <2>1. sess' \in [Sids -> [st : {"none", "live", "ended"}, trunk : Trunks \cup {None}, owner : Clients \cup {None}]]
    BY <1>44, EndType DEF TypeOK, CallEnds
  <2> QED BY <2>1, <1>44 DEF TypeOK, CallEnds
<1>45. ASSUME NEW t \in Trunks, NEW s \in Sids, Ring(t, s) PROVE TypeOK'
  BY <1>45 DEF TypeOK, Ring, NoSession
<1>46. CASE UNCHANGED vars
  BY <1>46 DEF TypeOK, vars
<1>47. ASSUME NEW c \in Clients, Works(c) PROVE TypeOK'
  BY <1>1, <1>2, <1>3, <1>4, <1>5, <1>6, <1>7, <1>8, <1>9, <1>10, <1>11, <1>12, <1>13, <1>14, <1>15,
      <1>16, <1>17, <1>18, <1>19, <1>20, <1>21, <1>22, <1>23, <1>24, <1>47 DEF Works, Keeps, AsDevice
<1>48. ASSUME NEW c \in Clients, Waits(c) PROVE TypeOK'
  BY <1>25, <1>26, <1>27, <1>28, <1>29, <1>48 DEF Waits, AsDevice
<1>49. ASSUME NEW c \in Clients, Asks(c) PROVE TypeOK'
  BY <1>30, <1>31, <1>32, <1>33, <1>34, <1>35, <1>49 DEF Asks, AsDevice
<1>50. CASE Background
  BY <1>36, <1>37, <1>38, <1>39, <1>40, <1>41, <1>42, <1>43, <1>44, <1>45, <1>50 DEF Background
<1> QED BY <1>46, <1>47, <1>48, <1>49, <1>50 DEF Next

(* What follows an operation under the lock *)
LEMMA AfterLockEffect ==
  ASSUME NEW c \in Clients, AfterLock(c), mode[c] \in {"register", "rebind", "leave", "move", "stale", "logout"}
  PROVE  \/ /\ mode[c] \in {"rebind", "move"} /\ mode' = [mode EXCEPT ![c] = "register"]
            /\ at' = [at EXCEPT ![c] = next[c]] /\ pc' = [pc EXCEPT ![c] = "lock"]
         \/ /\ mode[c] = "register" /\ UNCHANGED <<mode, at>>
            /\ pc' = [pc EXCEPT ![c] = IF failed[c] THEN "drop" ELSE "tell"]
         \/ mode[c] = "leave" /\ UNCHANGED <<mode, at>> /\ pc' = [pc EXCEPT ![c] = "gone"]
         \/ mode[c] = "stale" /\ UNCHANGED <<mode, at>> /\ pc' = [pc EXCEPT ![c] = "stale"]
         \/ mode[c] = "logout" /\ UNCHANGED <<mode, at>> /\ pc' = [pc EXCEPT ![c] = "idle"]
<1> USE DEF AfterLock, Goto
<1>1. CASE mode[c] \in {"rebind", "move"} BY <1>1
<1>2. CASE mode[c] = "register" BY <1>2
<1>3. CASE mode[c] \in {"leave", "stale", "logout"} BY <1>3
<1> QED BY <1>1, <1>2, <1>3

(* Binding leads an agent to the cleanup of its old trunk, a device to its
   release, or either to the new trunk's lock. *)
LEMMA BindEffect ==
  ASSUME NEW c \in Clients, NEW t \in Trunks, Bind(c, t)
  PROVE  \/ /\ resolved[c] # t /\ resolved[c] # None /\ bound[resolved[c]] \subseteq {c}
            /\ at' = [at EXCEPT ![c] = resolved[c]] /\ next' = [next EXCEPT ![c] = t]
            /\ \/ c \in Agents /\ mode' = [mode EXCEPT ![c] = "rebind"] /\ pc' = [pc EXCEPT ![c] = "clean"]
               \/ c \notin Agents /\ mode' = [mode EXCEPT ![c] = "move"] /\ pc' = [pc EXCEPT ![c] = "move"]
         \/ /\ at' = [at EXCEPT ![c] = t] /\ next' = next
            /\ mode' = [mode EXCEPT ![c] = "register"] /\ pc' = [pc EXCEPT ![c] = "lock"]
<1> USE DEF Bind, LastOn, Goto
<1>1. CASE resolved[c] # t /\ LastOn(c, resolved[c])
  <2>1. CASE c \in Agents BY <1>1, <2>1
  <2>2. CASE c \notin Agents BY <1>1, <2>2
  <2> QED BY <2>1, <2>2
<1>2. CASE ~(resolved[c] # t /\ LastOn(c, resolved[c])) BY <1>2
<1> QED BY <1>1, <1>2

(* A cleanup either goes on under the lock or is over. *)
LEMMA TakeToCleanEffect ==
  ASSUME NEW c \in Clients, TakeToClean(c), OnCourse
  PROVE  \/ /\ opLock[at[c]] = None /\ opLock' = [opLock EXCEPT ![at[c]] = c]
            /\ pc' = [pc EXCEPT ![c] = "snapshot"] /\ UNCHANGED <<mode, at>>
         \/ /\ mode[c] = "rebind" /\ mode' = [mode EXCEPT ![c] = "register"]
            /\ at' = [at EXCEPT ![c] = next[c]] /\ pc' = [pc EXCEPT ![c] = "lock"] /\ UNCHANGED opLock
         \/ mode[c] = "leave" /\ UNCHANGED <<mode, at, opLock>> /\ pc' = [pc EXCEPT ![c] = "gone"]
<1>1. mode[c] \in {"rebind", "leave"}
  BY DEF OnCourse, TakeToClean
<1>2. CASE InUse(at[c])
  BY <1>1, <1>2, AfterLockEffect DEF TakeToClean
<1>3. CASE ~InUse(at[c])
  BY <1>3 DEF TakeToClean, Take, Goto
<1> QED BY <1>2, <1>3

(* A client takes the lock to register, or finds the trunk registered. *)
LEMMA TakeToRegisterEffect ==
  ASSUME NEW c \in Clients, TakeToRegister(c)
  PROVE  \/ /\ opLock[at[c]] = None /\ opLock' = [opLock EXCEPT ![at[c]] = c]
            /\ pc' = [pc EXCEPT ![c] = "lease"] /\ UNCHANGED <<mode, at, failed>>
         \/ /\ opLock[at[c]] = None /\ owned[at[c]] /\ UNCHANGED <<opLock, mode, at>>
            /\ failed' = [failed EXCEPT ![c] = FALSE] /\ pc' = [pc EXCEPT ![c] = "tell"]
<1>1. CASE MustRegister(c)
  BY <1>1 DEF TakeToRegister, Take, Goto
<1>2. CASE ~MustRegister(c)
  BY <1>2 DEF TakeToRegister, MustRegister, Goto
<1> QED BY <1>1, <1>2

(* A device takes the lock to unregister, or is refused. *)
LEMMA TakeToLogoutEffect ==
  ASSUME NEW c \in Clients, TakeToLogout(c)
  PROVE  \/ /\ opLock[at[c]] = None /\ opLock' = [opLock EXCEPT ![at[c]] = c]
            /\ pc' = [pc EXCEPT ![c] = "clear"]
         \/ UNCHANGED opLock /\ pc' = [pc EXCEPT ![c] = "idle"]
<1>1. CASE UsedByOthers(at[c])
  BY <1>1 DEF TakeToLogout, Goto
<1>2. CASE ~UsedByOthers(at[c])
  BY <1>2 DEF TakeToLogout, Take, Goto
<1> QED BY <1>1, <1>2

(* An action that takes nothing and entitles nobody cannot break HasLease. *)
LEMMA LeaseFrame ==
  ASSUME HasLease, UNCHANGED <<owned, lease, renew, renewed>>,
         \A a \in Agents, t \in AgentTrunks : Entitled(a, t)' => Entitled(a, t)
  PROVE  HasLease'
BY DEF HasLease

(* The same for NoneDestroyed *)
LEMMA DestroyedFrame ==
  ASSUME NoneDestroyed, Apart, OnCourse,
         \A a \in Agents, t \in Trunks : Promised(a, t)' => Promised(a, t),
         \A d \in Clients :
           pc'[d] \in {"clear", "contact", "keep", "keepDone", "expire",
               "release"} => pc'[d] = pc[d] /\ at'[d] = at[d]
  PROVE  NoneDestroyed'
<1>1. \A d \in Clients : pc[d] \in {"clear", "contact", "keep", "keepDone", "expire", "release"} => at[d] \in Trunks
  BY DEF OnCourse, WorkPcs, HoldPcs, Apart, Clients, Trunks
<1> QED BY <1>1 DEF NoneDestroyed

(* and for Spared *)
LEMMA SparedFrame ==
  ASSUME Spared, UNCHANGED <<kept, sess, todo, resolved>>,
         \A d \in Clients : pc'[d] \in {"recheck", "sweep"} => pc'[d] = pc[d] /\ at'[d] = at[d]
  PROVE  Spared'
BY DEF Spared, SweepSparesReplacement, Clients

(* Who binds to another trunk does not keep its calls on the old one. *)
LEMMA SparedBind ==
  ASSUME TypeOK, Spared, NEW c \in Clients, NEW t \in Trunks, Bind(c, t), UNCHANGED <<sess, todo>>
  PROVE  Spared'
<1>1. /\ resolved' = [resolved EXCEPT ![c] = t]
      /\ kept' = IF resolved[c] = t THEN kept ELSE {s \in kept : sess[s].owner # c}
  BY DEF Bind
<1>2. \A d \in Clients : pc'[d] \in {"recheck", "sweep"} => pc'[d] = pc[d] /\ at'[d] = at[d]
  <2>1. PICK p \in {"clean", "move", "lock"} : pc' = [pc EXCEPT ![c] = p]
    BY BindEffect
  <2>2. PICK u : at' = [at EXCEPT ![c] = u]
    BY BindEffect
  <2> QED BY <2>1, <2>2 DEF TypeOK
<1>3. \A s \in kept' : /\ s \in kept /\ sess[s].owner \in Clients /\ sess[s].trunk # None
                       /\ resolved'[sess[s].owner] = sess[s].trunk
  BY <1>1 DEF Spared, TypeOK
<1> QED BY <1>2, <1>3 DEF Spared, SweepSparesReplacement, Clients

(* Agents stay on agent trunks and devices on device trunks. *)
LEMMA ApartStep ==
  ASSUME TypeOK, Apart, OnCourse, [Next]_vars
  PROVE  Apart'
<1> USE PresenceAssumption DEF Goto, connVars, workVars, regVars, bgVars, callVars
<1>1. ASSUME NEW c \in Clients, Unlock(c) PROVE Apart'
  <2>1. mode[c] \in {"register", "rebind", "leave", "move", "stale", "logout"} /\ at[c] # None
    BY <1>1 DEF TypeOK, OnCourse, WorkPcs, HoldPcs, Unlock
  <2>2. AfterLock(c) /\ pc[c] = "unlock" /\ UNCHANGED <<next, resolved, stale>>
    BY <1>1 DEF Unlock
  <2>3. CASE mode[c] \in {"rebind", "move"}
    <3>1. /\ mode' = [mode EXCEPT ![c] = "register"] /\ at' = [at EXCEPT ![c] = next[c]]
          /\ pc' = [pc EXCEPT ![c] = "lock"]
      BY <2>1, <2>2, <2>3, AfterLockEffect
    <3> QED BY <2>2, <3>1 DEF Apart, TypeOK, Clients
  <2>4. CASE mode[c] \notin {"rebind", "move"}
    BY <2>1, <2>2, <2>4, AfterLockEffect DEF Apart, TypeOK, Clients
  <2> QED BY <2>3, <2>4
<1>2. ASSUME NEW c \in Clients, RegLease(c) PROVE Apart'
  BY <1>2 DEF Apart, TypeOK, RegLease
<1>3. ASSUME NEW c \in Clients, RegSend(c) PROVE Apart'
  <2>1. pc' = [pc EXCEPT ![c] = "worker"] \/ pc' = [pc EXCEPT ![c] = "unlock"]
    BY <1>3 DEF RegSend
  <2>2. UNCHANGED <<at, next, resolved, mode, stale>>
    BY <1>3 DEF RegSend
  <2>3. c \in Devices => mode[c] # "leave"
    BY <1>3 DEF RegSend, Apart, Clients
  <2>4. \A d \in Clients : pc'[d] = pc[d] \/ (d = c /\ pc'[d] \in {"worker", "unlock"})
    BY <2>1 DEF TypeOK
  <2> QED BY <2>2, <2>3, <2>4 DEF Apart, Clients
<1>4. ASSUME NEW c \in Clients, RegDone(c) PROVE Apart'
  BY <1>4 DEF Apart, TypeOK, RegDone
<1>5. ASSUME NEW c \in Clients, Tell(c) PROVE Apart'
  BY <1>5 DEF Apart, TypeOK, Tell
<1>6. ASSUME NEW c \in Clients, Drop(c) PROVE Apart'
  BY <1>6 DEF Apart, TypeOK, Drop, Unbind
<1>7. ASSUME NEW c \in Clients, Clear(c) PROVE Apart'
  BY <1>7 DEF Apart, TypeOK, Clear
<1>8. ASSUME NEW c \in Clients, ChooseContact(c) PROVE Apart'
  BY <1>8 DEF Apart, TypeOK, ChooseContact, Siblings
<1>9. ASSUME NEW c \in Clients, KeepSend(c) PROVE Apart'
  BY <1>9 DEF Apart, TypeOK, Clients, KeepSend, Accepted, Refused, KeepNext
<1>10. ASSUME NEW c \in Clients, KeepDone(c) PROVE Apart'
  BY <1>10 DEF Apart, TypeOK, KeepDone, KeepNext
<1>11. ASSUME NEW c \in Clients, Expire(c) PROVE Apart'
  BY <1>11 DEF Apart, TypeOK, Expire
<1>12. ASSUME NEW c \in Clients, Release(c) PROVE Apart'
  BY <1>12 DEF Apart, TypeOK, Release
<1>13. ASSUME NEW c \in Clients, Leave(c) PROVE Apart'
  BY <1>13 DEF Apart, TypeOK, Leave, Unbind, LastOn, Owned
<1>14. ASSUME NEW c \in Clients, Hangup(c) PROVE Apart'
  BY <1>14 DEF Apart, TypeOK, Hangup, EndOne
<1>15. ASSUME NEW c \in Clients, HungUp(c) PROVE Apart'
  BY <1>15 DEF Apart, TypeOK, HungUp
<1>16. ASSUME NEW c \in Clients, Snapshot(c) PROVE Apart'
  BY <1>16 DEF Apart, TypeOK, Snapshot, OnTrunk
<1>17. ASSUME NEW c \in Clients, Recheck(c) PROVE Apart'
  <2>1. pc' = [pc EXCEPT ![c] = "unlock"] \/ pc' = [pc EXCEPT ![c] = "sweep"]
    BY <1>17 DEF Recheck
  <2>2. pc[c] = "recheck" /\ UNCHANGED <<at, next, resolved, mode, stale>>
    BY <1>17 DEF Recheck
  <2> QED BY <2>1, <2>2 DEF Apart, TypeOK, Clients
<1>18. ASSUME NEW c \in Clients, Sweep(c) PROVE Apart'
  BY <1>18 DEF Apart, TypeOK, Sweep, EndOne
<1>19. ASSUME NEW c \in Clients, Swept(c) PROVE Apart'
  BY <1>19 DEF Apart, TypeOK, Swept, InUse
<1>20. ASSUME NEW c \in Clients, Repair(c) PROVE Apart'
  BY <1>20 DEF Apart, TypeOK, Repair, InUse
<1>21. ASSUME NEW c \in Clients, ListStale(c) PROVE Apart'
  BY <1>21 DEF Apart, TypeOK, ListStale, StaleOf
<1>22. ASSUME NEW c \in Clients, BindDevice(c) PROVE Apart'
  BY <1>22 DEF Apart, TypeOK, Clients, BindDevice, Bind, LastOn
<1>23. ASSUME NEW c \in Clients, Forget(c) PROVE Apart'
  BY <1>23 DEF Apart, TypeOK, Forget, Owned
<1>24. ASSUME NEW c \in Clients, LoggedOut(c) PROVE Apart'
  BY <1>24 DEF Apart, TypeOK, LoggedOut, Unbind
<1>25. ASSUME NEW c \in Clients, TakeToRegister(c) PROVE Apart'
  BY <1>25 DEF Apart, TypeOK, Clients, TakeToRegister, MustRegister, Take
<1>26. ASSUME NEW c \in Clients, TakeToClean(c) PROVE Apart'
  <2>1. pc[c] = "clean" /\ UNCHANGED <<next, resolved, stale>>
    BY <1>26 DEF TakeToClean
  <2>2. c \in Agents
    BY <2>1 DEF Apart, Clients
  <2>3. CASE pc' = [pc EXCEPT ![c] = "snapshot"] /\ UNCHANGED <<mode, at>>
    BY <2>1, <2>2, <2>3 DEF Apart, TypeOK, Clients
  <2>4. CASE /\ mode[c] = "rebind" /\ mode' = [mode EXCEPT ![c] = "register"]
             /\ at' = [at EXCEPT ![c] = next[c]] /\ pc' = [pc EXCEPT ![c] = "lock"]
    BY <2>1, <2>2, <2>4 DEF Apart, TypeOK, Clients
  <2>5. CASE UNCHANGED <<mode, at>> /\ pc' = [pc EXCEPT ![c] = "gone"]
    BY <2>1, <2>2, <2>5 DEF Apart, TypeOK, Clients
  <2> QED BY <1>26, <2>3, <2>4, <2>5, TakeToCleanEffect
<1>27. ASSUME NEW c \in Clients, ReleaseStale(c) PROVE Apart'
  BY <1>27 DEF Apart, TypeOK, ReleaseStale, TakeToRelease, Take
<1>28. ASSUME NEW c \in Clients, Move(c) PROVE Apart'
  BY <1>28 DEF Apart, TypeOK, Move, TakeToRelease, Take
<1>29. ASSUME NEW c \in Clients, TakeToLogout(c) PROVE Apart'
  BY <1>29 DEF Apart, TypeOK, Clients, TakeToLogout, UsedByOthers, Take
<1>30. ASSUME NEW c \in Clients, NEW t \in Trunks, AgentRegister(c, t) PROVE Apart'
  BY <1>30 DEF Apart, TypeOK, Clients, AgentRegister, Bind, LastOn
<1>31. ASSUME NEW c \in Clients, NEW t \in Trunks, DeviceRegister(c, t) PROVE Apart'
  BY <1>31 DEF Apart, TypeOK, DeviceRegister, Notify
<1>32. ASSUME NEW c \in Clients, Unregister(c) PROVE Apart'
  BY <1>32 DEF Apart, TypeOK, Unregister
<1>33. ASSUME NEW c \in Clients, CallNotReady(c) PROVE Apart'
  BY <1>33 DEF Apart, TypeOK, CallNotReady
<1>34. ASSUME NEW c \in Clients, SocketCloses(c) PROVE Apart'
  BY <1>34 DEF Apart, TypeOK, SocketCloses
<1>35. ASSUME NEW c \in Clients, NEW s \in Sids, Call(c, s) PROVE Apart'
  BY <1>35 DEF Apart, TypeOK, Call, NoSession
<1>36. ASSUME NEW t \in Trunks, RefreshTick(t) PROVE Apart'
  BY <1>36 DEF Apart, TypeOK, RefreshTick
<1>37. ASSUME NEW t \in Trunks, RefreshSend(t) PROVE Apart'
  BY <1>37 DEF Apart, TypeOK, RefreshSend, Accepted, Refused
<1>38. ASSUME NEW t \in Trunks, RefreshDone(t) PROVE Apart'
  BY <1>38 DEF Apart, TypeOK, RefreshDone
<1>39. ASSUME NEW t \in Trunks, RenewLease(t) PROVE Apart'
  BY <1>39 DEF Apart, TypeOK, RenewLease
<1>40. ASSUME NEW t \in Trunks, PeerTakes(t) PROVE Apart'
  BY <1>40 DEF Apart, TypeOK, PeerTakes
<1>41. ASSUME NEW t \in Trunks, PeerReleases(t) PROVE Apart'
  BY <1>41 DEF Apart, TypeOK, PeerReleases
<1>42. CASE HeartbeatTick
  BY <1>42 DEF Apart, TypeOK, HeartbeatTick
<1>43. CASE Renewed
  BY <1>43 DEF Apart, TypeOK, Renewed
<1>44. ASSUME NEW s \in Sids, CallEnds(s) PROVE Apart'
  BY <1>44 DEF Apart, TypeOK, CallEnds
<1>45. ASSUME NEW t \in Trunks, NEW s \in Sids, Ring(t, s) PROVE Apart'
  BY <1>45 DEF Apart, TypeOK, Ring, NoSession
<1>46. CASE UNCHANGED vars
  BY <1>46 DEF Apart, TypeOK, vars
<1>47. ASSUME NEW c \in Clients, Works(c) PROVE Apart'
  BY <1>1, <1>2, <1>3, <1>4, <1>5, <1>6, <1>7, <1>8, <1>9, <1>10, <1>11, <1>12, <1>13, <1>14, <1>15,
      <1>16, <1>17, <1>18, <1>19, <1>20, <1>21, <1>22, <1>23, <1>24, <1>47 DEF Works, Keeps, AsDevice
<1>48. ASSUME NEW c \in Clients, Waits(c) PROVE Apart'
  BY <1>25, <1>26, <1>27, <1>28, <1>29, <1>48 DEF Waits, AsDevice
<1>49. ASSUME NEW c \in Clients, Asks(c) PROVE Apart'
  BY <1>30, <1>31, <1>32, <1>33, <1>34, <1>35, <1>49 DEF Asks, AsDevice
<1>50. CASE Background
  BY <1>36, <1>37, <1>38, <1>39, <1>40, <1>41, <1>42, <1>43, <1>44, <1>45, <1>50 DEF Background
<1> QED BY <1>46, <1>47, <1>48, <1>49, <1>50 DEF Next

(* A goroutine goes from place to place as its handler does. *)
LEMMA OnCourseStep ==
  ASSUME TypeOK, Apart, OnCourse, [Next]_vars
  PROVE  OnCourse'
<1> USE PresenceAssumption DEF Goto, connVars, workVars, regVars, bgVars, callVars
<1>1. ASSUME NEW c \in Clients, Unlock(c) PROVE OnCourse'
  <2>1. mode[c] \in {"register", "rebind", "leave", "move", "stale", "logout"} /\ at[c] # None
    BY <1>1 DEF TypeOK, OnCourse, WorkPcs, HoldPcs, Unlock
  <2> QED BY <1>1, <2>1, AfterLockEffect DEF OnCourse, Undoing, WorkPcs, HoldPcs, TypeOK, Apart, Clients,
      Unlock
<1>2. ASSUME NEW c \in Clients, RegLease(c) PROVE OnCourse'
  BY <1>2 DEF OnCourse, Undoing, WorkPcs, HoldPcs, RegLease
<1>3. ASSUME NEW c \in Clients, RegSend(c) PROVE OnCourse'
  BY <1>3 DEF OnCourse, Undoing, WorkPcs, HoldPcs, TypeOK, RegSend, Accepted, Refused
<1>4. ASSUME NEW c \in Clients, RegDone(c) PROVE OnCourse'
  BY <1>4 DEF OnCourse, Undoing, WorkPcs, HoldPcs, RegDone
<1>5. ASSUME NEW c \in Clients, Tell(c) PROVE OnCourse'
  BY <1>5 DEF OnCourse, Undoing, WorkPcs, HoldPcs, Tell
<1>6. ASSUME NEW c \in Clients, Drop(c) PROVE OnCourse'
  BY <1>6 DEF OnCourse, Undoing, WorkPcs, HoldPcs, TypeOK, Drop, Unbind
<1>7. ASSUME NEW c \in Clients, Clear(c) PROVE OnCourse'
  BY <1>7 DEF OnCourse, Undoing, WorkPcs, HoldPcs, Clear
<1>8. ASSUME NEW c \in Clients, ChooseContact(c) PROVE OnCourse'
  BY <1>8 DEF OnCourse, Undoing, WorkPcs, HoldPcs, ChooseContact, Siblings
<1>9. ASSUME NEW c \in Clients, KeepSend(c) PROVE OnCourse'
  BY <1>9 DEF OnCourse, Undoing, WorkPcs, HoldPcs, TypeOK, KeepSend, Accepted, Refused, KeepNext
<1>10. ASSUME NEW c \in Clients, KeepDone(c) PROVE OnCourse'
  BY <1>10 DEF OnCourse, Undoing, WorkPcs, HoldPcs, KeepDone, KeepNext
<1>11. ASSUME NEW c \in Clients, Expire(c) PROVE OnCourse'
  BY <1>11 DEF OnCourse, Undoing, WorkPcs, HoldPcs, Expire
<1>12. ASSUME NEW c \in Clients, Release(c) PROVE OnCourse'
  BY <1>12 DEF OnCourse, Undoing, WorkPcs, HoldPcs, Release
<1>13. ASSUME NEW c \in Clients, Leave(c) PROVE OnCourse'
  BY <1>13 DEF OnCourse, Undoing, WorkPcs, HoldPcs, TypeOK, Leave, Unbind, LastOn, Owned
<1>14. ASSUME NEW c \in Clients, Hangup(c) PROVE OnCourse'
  BY <1>14 DEF OnCourse, Undoing, WorkPcs, HoldPcs, Hangup, EndOne
<1>15. ASSUME NEW c \in Clients, HungUp(c) PROVE OnCourse'
  BY <1>15 DEF OnCourse, Undoing, WorkPcs, HoldPcs, HungUp
<1>16. ASSUME NEW c \in Clients, Snapshot(c) PROVE OnCourse'
  BY <1>16 DEF OnCourse, Undoing, WorkPcs, HoldPcs, Snapshot, OnTrunk
<1>17. ASSUME NEW c \in Clients, Recheck(c) PROVE OnCourse'
  BY <1>17 DEF OnCourse, Undoing, WorkPcs, HoldPcs, TypeOK, Recheck, InUse
<1>18. ASSUME NEW c \in Clients, Sweep(c) PROVE OnCourse'
  BY <1>18 DEF OnCourse, Undoing, WorkPcs, HoldPcs, Sweep, EndOne
<1>19. ASSUME NEW c \in Clients, Swept(c) PROVE OnCourse'
  BY <1>19 DEF OnCourse, Undoing, WorkPcs, HoldPcs, Swept, InUse
<1>20. ASSUME NEW c \in Clients, Repair(c) PROVE OnCourse'
  BY <1>20 DEF OnCourse, Undoing, WorkPcs, HoldPcs, Repair, InUse
<1>21. ASSUME NEW c \in Clients, ListStale(c) PROVE OnCourse'
  BY <1>21 DEF OnCourse, Undoing, WorkPcs, HoldPcs, ListStale, StaleOf
<1>22. ASSUME NEW c \in Clients, BindDevice(c) PROVE OnCourse'
  BY <1>22 DEF OnCourse, Undoing, WorkPcs, HoldPcs, TypeOK, BindDevice, Bind, LastOn
<1>23. ASSUME NEW c \in Clients, Forget(c) PROVE OnCourse'
  BY <1>23 DEF OnCourse, Undoing, WorkPcs, HoldPcs, Forget, Owned
<1>24. ASSUME NEW c \in Clients, LoggedOut(c) PROVE OnCourse'
  BY <1>24 DEF OnCourse, Undoing, WorkPcs, HoldPcs, LoggedOut, Unbind
<1>25. ASSUME NEW c \in Clients, TakeToRegister(c) PROVE OnCourse'
  BY <1>25 DEF OnCourse, Undoing, WorkPcs, HoldPcs, TypeOK, TakeToRegister, MustRegister, Take
<1>26. ASSUME NEW c \in Clients, TakeToClean(c) PROVE OnCourse'
  BY <1>26, TakeToCleanEffect DEF OnCourse, Undoing, WorkPcs, HoldPcs, TypeOK, Apart, Clients, TakeToClean
<1>27. ASSUME NEW c \in Clients, ReleaseStale(c) PROVE OnCourse'
  BY <1>27 DEF OnCourse, Undoing, WorkPcs, HoldPcs, TypeOK, ReleaseStale, TakeToRelease, Take
<1>28. ASSUME NEW c \in Clients, Move(c) PROVE OnCourse'
  BY <1>28 DEF OnCourse, Undoing, WorkPcs, HoldPcs, Move, TakeToRelease, Take
<1>29. ASSUME NEW c \in Clients, TakeToLogout(c) PROVE OnCourse'
  BY <1>29 DEF OnCourse, Undoing, WorkPcs, HoldPcs, TypeOK, TakeToLogout, UsedByOthers, Take
<1>30. ASSUME NEW c \in Clients, NEW t \in Trunks, AgentRegister(c, t) PROVE OnCourse'
  <2>1. /\ resolved' = [resolved EXCEPT ![c] = t] /\ c \in Agents /\ t # None
        /\ resolved[c] \in Trunks \cup {None}
    BY <1>30 DEF AgentRegister, Bind, TypeOK
  <2>2. \A d \in Clients \ {c} : /\ pc'[d] = pc[d] /\ mode'[d] = mode[d] /\ at'[d] = at[d] /\ next'[d] = next[d]
                               /\ resolved'[d] = resolved[d]
    BY <1>30, <2>1, BindEffect DEF AgentRegister, TypeOK
  <2>3. \/ /\ pc'[c] = "clean" /\ mode'[c] = "rebind" /\ at'[c] # None /\ next'[c] = t /\ resolved'[c] = t
        \/ /\ pc'[c] = "lock" /\ mode'[c] = "register" /\ at'[c] = t /\ resolved'[c] = t
    BY <1>30, <2>1, BindEffect DEF AgentRegister, TypeOK
  <2> QED BY <2>1, <2>2, <2>3 DEF OnCourse, Undoing, WorkPcs, HoldPcs
<1>31. ASSUME NEW c \in Clients, NEW t \in Trunks, DeviceRegister(c, t) PROVE OnCourse'
  BY <1>31 DEF OnCourse, Undoing, WorkPcs, HoldPcs, TypeOK, Apart, Clients, DeviceRegister, Notify
<1>32. ASSUME NEW c \in Clients, Unregister(c) PROVE OnCourse'
  BY <1>32 DEF OnCourse, Undoing, WorkPcs, HoldPcs, TypeOK, Unregister
<1>33. ASSUME NEW c \in Clients, CallNotReady(c) PROVE OnCourse'
  BY <1>33 DEF OnCourse, Undoing, WorkPcs, HoldPcs, CallNotReady
<1>34. ASSUME NEW c \in Clients, SocketCloses(c) PROVE OnCourse'
  BY <1>34 DEF OnCourse, Undoing, WorkPcs, HoldPcs, SocketCloses
<1>35. ASSUME NEW c \in Clients, NEW s \in Sids, Call(c, s) PROVE OnCourse'
  BY <1>35 DEF OnCourse, Undoing, WorkPcs, HoldPcs, Call, NoSession
<1>36. ASSUME NEW t \in Trunks, RefreshTick(t) PROVE OnCourse'
  BY <1>36 DEF OnCourse, Undoing, WorkPcs, HoldPcs, RefreshTick
<1>37. ASSUME NEW t \in Trunks, RefreshSend(t) PROVE OnCourse'
  BY <1>37 DEF OnCourse, Undoing, WorkPcs, HoldPcs, RefreshSend, Accepted, Refused
<1>38. ASSUME NEW t \in Trunks, RefreshDone(t) PROVE OnCourse'
  BY <1>38 DEF OnCourse, Undoing, WorkPcs, HoldPcs, RefreshDone
<1>39. ASSUME NEW t \in Trunks, RenewLease(t) PROVE OnCourse'
  BY <1>39 DEF OnCourse, Undoing, WorkPcs, HoldPcs, RenewLease
<1>40. ASSUME NEW t \in Trunks, PeerTakes(t) PROVE OnCourse'
  BY <1>40 DEF OnCourse, Undoing, WorkPcs, HoldPcs, PeerTakes
<1>41. ASSUME NEW t \in Trunks, PeerReleases(t) PROVE OnCourse'
  BY <1>41 DEF OnCourse, Undoing, WorkPcs, HoldPcs, PeerReleases
<1>42. CASE HeartbeatTick
  BY <1>42 DEF OnCourse, Undoing, WorkPcs, HoldPcs, HeartbeatTick
<1>43. CASE Renewed
  BY <1>43 DEF OnCourse, Undoing, WorkPcs, HoldPcs, Renewed
<1>44. ASSUME NEW s \in Sids, CallEnds(s) PROVE OnCourse'
  BY <1>44 DEF OnCourse, Undoing, WorkPcs, HoldPcs, CallEnds
<1>45. ASSUME NEW t \in Trunks, NEW s \in Sids, Ring(t, s) PROVE OnCourse'
  BY <1>45 DEF OnCourse, Undoing, WorkPcs, HoldPcs, Ring, NoSession
<1>46. CASE UNCHANGED vars
  BY <1>46 DEF OnCourse, Undoing, WorkPcs, HoldPcs, vars
<1>47. ASSUME NEW c \in Clients, Works(c) PROVE OnCourse'
  BY <1>1, <1>2, <1>3, <1>4, <1>5, <1>6, <1>7, <1>8, <1>9, <1>10, <1>11, <1>12, <1>13, <1>14, <1>15,
      <1>16, <1>17, <1>18, <1>19, <1>20, <1>21, <1>22, <1>23, <1>24, <1>47 DEF Works, Keeps, AsDevice
<1>48. ASSUME NEW c \in Clients, Waits(c) PROVE OnCourse'
  BY <1>25, <1>26, <1>27, <1>28, <1>29, <1>48 DEF Waits, AsDevice
<1>49. ASSUME NEW c \in Clients, Asks(c) PROVE OnCourse'
  BY <1>30, <1>31, <1>32, <1>33, <1>34, <1>35, <1>49 DEF Asks, AsDevice
<1>50. CASE Background
  BY <1>36, <1>37, <1>38, <1>39, <1>40, <1>41, <1>42, <1>43, <1>44, <1>45, <1>50 DEF Background
<1> QED BY <1>46, <1>47, <1>48, <1>49, <1>50 DEF Next

(* Only a free operation lock is taken, and only its holder gives it back. *)
LEMMA LockHeldStep ==
  ASSUME TypeOK, OnCourse, LockHeld, [Next]_vars
  PROVE  LockHeld'
<1> USE PresenceAssumption DEF Goto, connVars, workVars, regVars, bgVars, callVars
<1>1. ASSUME NEW c \in Clients, Unlock(c) PROVE LockHeld'
  <2>1. mode[c] \in {"register", "rebind", "leave", "move", "stale", "logout"} /\ at[c] # None
    BY <1>1 DEF TypeOK, OnCourse, WorkPcs, HoldPcs, Unlock
  <2> QED BY <1>1, <2>1, AfterLockEffect DEF LockHeld, Holds, TypeOK, OnCourse, WorkPcs, HoldPcs, Unlock
<1>2. ASSUME NEW c \in Clients, RegLease(c) PROVE LockHeld'
  BY <1>2 DEF LockHeld, Holds, HoldPcs, RegLease
<1>3. ASSUME NEW c \in Clients, RegSend(c) PROVE LockHeld'
  BY <1>3 DEF LockHeld, Holds, HoldPcs, TypeOK, RegSend, Accepted, Refused
<1>4. ASSUME NEW c \in Clients, RegDone(c) PROVE LockHeld'
  BY <1>4 DEF LockHeld, Holds, HoldPcs, RegDone
<1>5. ASSUME NEW c \in Clients, Tell(c) PROVE LockHeld'
  BY <1>5 DEF LockHeld, Holds, HoldPcs, Tell
<1>6. ASSUME NEW c \in Clients, Drop(c) PROVE LockHeld'
  BY <1>6 DEF LockHeld, Holds, HoldPcs, Drop, Unbind
<1>7. ASSUME NEW c \in Clients, Clear(c) PROVE LockHeld'
  BY <1>7 DEF LockHeld, Holds, HoldPcs, Clear
<1>8. ASSUME NEW c \in Clients, ChooseContact(c) PROVE LockHeld'
  BY <1>8 DEF LockHeld, Holds, HoldPcs, ChooseContact, Siblings
<1>9. ASSUME NEW c \in Clients, KeepSend(c) PROVE LockHeld'
  BY <1>9 DEF LockHeld, Holds, HoldPcs, TypeOK, KeepSend, Accepted, Refused, KeepNext
<1>10. ASSUME NEW c \in Clients, KeepDone(c) PROVE LockHeld'
  BY <1>10 DEF LockHeld, Holds, HoldPcs, KeepDone, KeepNext
<1>11. ASSUME NEW c \in Clients, Expire(c) PROVE LockHeld'
  BY <1>11 DEF LockHeld, Holds, HoldPcs, Expire
<1>12. ASSUME NEW c \in Clients, Release(c) PROVE LockHeld'
  BY <1>12 DEF LockHeld, Holds, HoldPcs, Release
<1>13. ASSUME NEW c \in Clients, Leave(c) PROVE LockHeld'
  BY <1>13 DEF LockHeld, Holds, HoldPcs, TypeOK, Leave, Unbind, LastOn, Owned
<1>14. ASSUME NEW c \in Clients, Hangup(c) PROVE LockHeld'
  BY <1>14 DEF LockHeld, Holds, HoldPcs, Hangup, EndOne
<1>15. ASSUME NEW c \in Clients, HungUp(c) PROVE LockHeld'
  BY <1>15 DEF LockHeld, Holds, HoldPcs, HungUp
<1>16. ASSUME NEW c \in Clients, Snapshot(c) PROVE LockHeld'
  BY <1>16 DEF LockHeld, Holds, HoldPcs, Snapshot, OnTrunk
<1>17. ASSUME NEW c \in Clients, Recheck(c) PROVE LockHeld'
  BY <1>17 DEF LockHeld, Holds, HoldPcs, TypeOK, Recheck, InUse
<1>18. ASSUME NEW c \in Clients, Sweep(c) PROVE LockHeld'
  BY <1>18 DEF LockHeld, Holds, HoldPcs, Sweep, EndOne
<1>19. ASSUME NEW c \in Clients, Swept(c) PROVE LockHeld'
  BY <1>19 DEF LockHeld, Holds, HoldPcs, Swept, InUse
<1>20. ASSUME NEW c \in Clients, Repair(c) PROVE LockHeld'
  <2>1. pc[c] = "repair" /\ UNCHANGED <<opLock, at, mode>>
    BY <1>20 DEF Repair
  <2>2. pc' = [pc EXCEPT ![c] = "lease"] \/ pc' = [pc EXCEPT ![c] = "unlock"]
    BY <1>20 DEF Repair
  <2> QED BY <2>1, <2>2 DEF LockHeld, Holds, HoldPcs, TypeOK
<1>21. ASSUME NEW c \in Clients, ListStale(c) PROVE LockHeld'
  BY <1>21 DEF LockHeld, Holds, HoldPcs, ListStale, StaleOf
<1>22. ASSUME NEW c \in Clients, BindDevice(c) PROVE LockHeld'
  <2>1. next[c] \in Trunks /\ Bind(c, next[c]) /\ pc[c] = "stale"
    BY <1>22 DEF TypeOK, OnCourse, BindDevice
  <2>2. opLock' = opLock
    BY <2>1 DEF Bind
  <2>3. \/ pc' = [pc EXCEPT ![c] = "clean"] \/ pc' = [pc EXCEPT ![c] = "move"]
        \/ pc' = [pc EXCEPT ![c] = "lock"]
    BY <2>1, BindEffect
  <2>4. at' = [at EXCEPT ![c] = resolved[c]] \/ at' = [at EXCEPT ![c] = next[c]]
    BY <2>1, BindEffect
  <2>5. ~ Holds(c)'
    BY <2>3 DEF TypeOK, Holds, HoldPcs
  <2>6. \A d \in Clients \ {c} : pc'[d] = pc[d] /\ at'[d] = at[d] /\ mode'[d] = mode[d]
    BY <2>1, <2>3, <2>4, BindEffect DEF TypeOK
  <2> QED BY <2>2, <2>5, <2>6 DEF LockHeld, Holds
<1>23. ASSUME NEW c \in Clients, Forget(c) PROVE LockHeld'
  BY <1>23 DEF LockHeld, Holds, HoldPcs, Forget, Owned
<1>24. ASSUME NEW c \in Clients, LoggedOut(c) PROVE LockHeld'
  BY <1>24 DEF LockHeld, Holds, HoldPcs, LoggedOut, Unbind
<1>25. ASSUME NEW c \in Clients, TakeToRegister(c) PROVE LockHeld'
  BY <1>25, TakeToRegisterEffect DEF LockHeld, Holds, TypeOK, OnCourse, WorkPcs, HoldPcs, TakeToRegister
<1>26. ASSUME NEW c \in Clients, TakeToClean(c) PROVE LockHeld'
  BY <1>26, TakeToCleanEffect DEF LockHeld, Holds, TypeOK, OnCourse, WorkPcs, HoldPcs, TakeToClean
<1>27. ASSUME NEW c \in Clients, ReleaseStale(c) PROVE LockHeld'
  BY <1>27 DEF LockHeld, Holds, HoldPcs, TypeOK, ReleaseStale, TakeToRelease, Take
<1>28. ASSUME NEW c \in Clients, Move(c) PROVE LockHeld'
  BY <1>28 DEF LockHeld, Holds, TypeOK, OnCourse, Undoing, WorkPcs, HoldPcs, Move, TakeToRelease, Take
<1>29. ASSUME NEW c \in Clients, TakeToLogout(c) PROVE LockHeld'
  BY <1>29, TakeToLogoutEffect, SMTT(60) DEF LockHeld, Holds, TypeOK, OnCourse, WorkPcs, HoldPcs, TakeToLogout
<1>30. ASSUME NEW c \in Clients, NEW t \in Trunks, AgentRegister(c, t) PROVE LockHeld'
  BY <1>30, BindEffect DEF LockHeld, Holds, TypeOK, OnCourse, WorkPcs, HoldPcs, AgentRegister, Bind
<1>31. ASSUME NEW c \in Clients, NEW t \in Trunks, DeviceRegister(c, t) PROVE LockHeld'
  BY <1>31 DEF LockHeld, Holds, HoldPcs, DeviceRegister, Notify
<1>32. ASSUME NEW c \in Clients, Unregister(c) PROVE LockHeld'
  BY <1>32 DEF LockHeld, Holds, HoldPcs, Unregister
<1>33. ASSUME NEW c \in Clients, CallNotReady(c) PROVE LockHeld'
  BY <1>33 DEF LockHeld, Holds, HoldPcs, CallNotReady
<1>34. ASSUME NEW c \in Clients, SocketCloses(c) PROVE LockHeld'
  BY <1>34 DEF LockHeld, Holds, HoldPcs, SocketCloses
<1>35. ASSUME NEW c \in Clients, NEW s \in Sids, Call(c, s) PROVE LockHeld'
  BY <1>35 DEF LockHeld, Holds, HoldPcs, Call, NoSession
<1>36. ASSUME NEW t \in Trunks, RefreshTick(t) PROVE LockHeld'
  BY <1>36 DEF LockHeld, Holds, HoldPcs, RefreshTick
<1>37. ASSUME NEW t \in Trunks, RefreshSend(t) PROVE LockHeld'
  BY <1>37 DEF LockHeld, Holds, HoldPcs, RefreshSend, Accepted, Refused
<1>38. ASSUME NEW t \in Trunks, RefreshDone(t) PROVE LockHeld'
  BY <1>38 DEF LockHeld, Holds, HoldPcs, RefreshDone
<1>39. ASSUME NEW t \in Trunks, RenewLease(t) PROVE LockHeld'
  BY <1>39 DEF LockHeld, Holds, HoldPcs, RenewLease
<1>40. ASSUME NEW t \in Trunks, PeerTakes(t) PROVE LockHeld'
  BY <1>40 DEF LockHeld, Holds, HoldPcs, PeerTakes
<1>41. ASSUME NEW t \in Trunks, PeerReleases(t) PROVE LockHeld'
  BY <1>41 DEF LockHeld, Holds, HoldPcs, PeerReleases
<1>42. CASE HeartbeatTick
  BY <1>42 DEF LockHeld, Holds, HoldPcs, HeartbeatTick
<1>43. CASE Renewed
  BY <1>43 DEF LockHeld, Holds, HoldPcs, Renewed
<1>44. ASSUME NEW s \in Sids, CallEnds(s) PROVE LockHeld'
  BY <1>44 DEF LockHeld, Holds, HoldPcs, CallEnds
<1>45. ASSUME NEW t \in Trunks, NEW s \in Sids, Ring(t, s) PROVE LockHeld'
  BY <1>45 DEF LockHeld, Holds, HoldPcs, Ring, NoSession
<1>46. CASE UNCHANGED vars
  BY <1>46 DEF LockHeld, Holds, HoldPcs, vars
<1>47. ASSUME NEW c \in Clients, Works(c) PROVE LockHeld'
  BY <1>1, <1>2, <1>3, <1>4, <1>5, <1>6, <1>7, <1>8, <1>9, <1>10, <1>11, <1>12, <1>13, <1>14, <1>15,
      <1>16, <1>17, <1>18, <1>19, <1>20, <1>21, <1>22, <1>23, <1>24, <1>47 DEF Works, Keeps, AsDevice
<1>48. ASSUME NEW c \in Clients, Waits(c) PROVE LockHeld'
  BY <1>25, <1>26, <1>27, <1>28, <1>29, <1>48 DEF Waits, AsDevice
<1>49. ASSUME NEW c \in Clients, Asks(c) PROVE LockHeld'
  BY <1>30, <1>31, <1>32, <1>33, <1>34, <1>35, <1>49 DEF Asks, AsDevice
<1>50. CASE Background
  BY <1>36, <1>37, <1>38, <1>39, <1>40, <1>41, <1>42, <1>43, <1>44, <1>45, <1>50 DEF Background
<1> QED BY <1>46, <1>47, <1>48, <1>49, <1>50 DEF Next

(* The server's bindings and the client's trunk agree. *)
LEMMA BoundIsResolvedStep ==
  ASSUME TypeOK, Apart, OnCourse, BoundIsResolved, HasLease, [Next]_vars
  PROVE  BoundIsResolved'
<1> USE PresenceAssumption DEF Goto, connVars, workVars, regVars, bgVars, callVars
<1>1. ASSUME NEW c \in Clients, Unlock(c) PROVE BoundIsResolved'
  BY <1>1 DEF BoundIsResolved, Quiet, TypeOK, Apart, Clients, OnCourse, Undoing, WorkPcs, HoldPcs,
      Unlock, AfterLock
<1>2. ASSUME NEW c \in Clients, RegLease(c) PROVE BoundIsResolved'
  BY <1>2 DEF BoundIsResolved, RegLease
<1>3. ASSUME NEW c \in Clients, RegSend(c) PROVE BoundIsResolved'
  BY <1>3 DEF BoundIsResolved, Quiet, TypeOK, Clients, RegSend, Accepted, Refused
<1>4. ASSUME NEW c \in Clients, RegDone(c) PROVE BoundIsResolved'
  BY <1>4 DEF BoundIsResolved, RegDone
<1>5. ASSUME NEW c \in Clients, Tell(c) PROVE BoundIsResolved'
  BY <1>5 DEF BoundIsResolved, Quiet, TypeOK, Apart, Clients, OnCourse, Undoing, WorkPcs, HoldPcs, Tell
<1>6. ASSUME NEW c \in Clients, Drop(c) PROVE BoundIsResolved'
  BY <1>6 DEF BoundIsResolved, TypeOK, Drop, Unbind
<1>7. ASSUME NEW c \in Clients, Clear(c) PROVE BoundIsResolved'
  BY <1>7 DEF BoundIsResolved, Clear
<1>8. ASSUME NEW c \in Clients, ChooseContact(c) PROVE BoundIsResolved'
  BY <1>8 DEF BoundIsResolved, ChooseContact, Siblings
<1>9. ASSUME NEW c \in Clients, KeepSend(c) PROVE BoundIsResolved'
  BY <1>9 DEF BoundIsResolved, Quiet, TypeOK, Clients, KeepSend, Accepted, Refused, KeepNext
<1>10. ASSUME NEW c \in Clients, KeepDone(c) PROVE BoundIsResolved'
  BY <1>10 DEF BoundIsResolved, KeepDone, KeepNext
<1>11. ASSUME NEW c \in Clients, Expire(c) PROVE BoundIsResolved'
  BY <1>11 DEF BoundIsResolved, Expire
<1>12. ASSUME NEW c \in Clients, Release(c) PROVE BoundIsResolved'
  BY <1>12 DEF BoundIsResolved, Release
<1>13. ASSUME NEW c \in Clients, Leave(c) PROVE BoundIsResolved'
  BY <1>13 DEF BoundIsResolved, TypeOK, Leave, Unbind, LastOn, Owned
<1>14. ASSUME NEW c \in Clients, Hangup(c) PROVE BoundIsResolved'
  BY <1>14 DEF BoundIsResolved, Hangup, EndOne
<1>15. ASSUME NEW c \in Clients, HungUp(c) PROVE BoundIsResolved'
  BY <1>15 DEF BoundIsResolved, HungUp
<1>16. ASSUME NEW c \in Clients, Snapshot(c) PROVE BoundIsResolved'
  BY <1>16 DEF BoundIsResolved, Snapshot, OnTrunk
<1>17. ASSUME NEW c \in Clients, Recheck(c) PROVE BoundIsResolved'
  BY <1>17 DEF BoundIsResolved, Quiet, TypeOK, Clients, Recheck, InUse
<1>18. ASSUME NEW c \in Clients, Sweep(c) PROVE BoundIsResolved'
  BY <1>18 DEF BoundIsResolved, Sweep, EndOne
<1>19. ASSUME NEW c \in Clients, Swept(c) PROVE BoundIsResolved'
  BY <1>19 DEF BoundIsResolved, Swept, InUse
<1>20. ASSUME NEW c \in Clients, Repair(c) PROVE BoundIsResolved'
  BY <1>20 DEF BoundIsResolved, Repair, InUse
<1>21. ASSUME NEW c \in Clients, ListStale(c) PROVE BoundIsResolved'
  BY <1>21 DEF BoundIsResolved, ListStale, StaleOf
<1>22. ASSUME NEW c \in Clients, BindDevice(c) PROVE BoundIsResolved'
  BY <1>22 DEF BoundIsResolved, Quiet, TypeOK, Clients, BindDevice, Bind, LastOn
<1>23. ASSUME NEW c \in Clients, Forget(c) PROVE BoundIsResolved'
  BY <1>23 DEF BoundIsResolved, Forget, Owned
<1>24. ASSUME NEW c \in Clients, LoggedOut(c) PROVE BoundIsResolved'
  BY <1>24 DEF BoundIsResolved, TypeOK, LoggedOut, Unbind
<1>25. ASSUME NEW c \in Clients, TakeToRegister(c) PROVE BoundIsResolved'
  BY <1>25 DEF BoundIsResolved, Quiet, TypeOK, Clients, TakeToRegister, MustRegister, Take
<1>26. ASSUME NEW c \in Clients, TakeToClean(c) PROVE BoundIsResolved'
  BY <1>26 DEF BoundIsResolved, Quiet, TypeOK, Apart, Clients, OnCourse, Undoing, WorkPcs, HoldPcs,
      TakeToClean, InUse, Take, AfterLock
<1>27. ASSUME NEW c \in Clients, ReleaseStale(c) PROVE BoundIsResolved'
  BY <1>27 DEF BoundIsResolved, ReleaseStale, TakeToRelease, Take
<1>28. ASSUME NEW c \in Clients, Move(c) PROVE BoundIsResolved'
  BY <1>28 DEF BoundIsResolved, Move, TakeToRelease, Take
<1>29. ASSUME NEW c \in Clients, TakeToLogout(c) PROVE BoundIsResolved'
  BY <1>29 DEF BoundIsResolved, TypeOK, Apart, Clients, TakeToLogout, UsedByOthers, Take
<1>30. ASSUME NEW c \in Clients, NEW t \in Trunks, AgentRegister(c, t) PROVE BoundIsResolved'
  BY <1>30 DEF BoundIsResolved, Quiet, TypeOK, Clients, AgentRegister, Bind, LastOn
<1>31. ASSUME NEW c \in Clients, NEW t \in Trunks, DeviceRegister(c, t) PROVE BoundIsResolved'
  BY <1>31 DEF BoundIsResolved, DeviceRegister, Notify
<1>32. ASSUME NEW c \in Clients, Unregister(c) PROVE BoundIsResolved'
  BY <1>32 DEF BoundIsResolved, Unregister
<1>33. ASSUME NEW c \in Clients, CallNotReady(c) PROVE BoundIsResolved'
  <2>1. ~Quiet \/ c \notin Agents
    BY <1>33 DEF Quiet, HasLease, BoundIsResolved, Entitled, Promised, OnCourse, Apart, TypeOK, CallNotReady
  <2> QED BY <1>33, <2>1 DEF BoundIsResolved, Quiet, TypeOK, Apart, OnCourse, CallNotReady
<1>34. ASSUME NEW c \in Clients, SocketCloses(c) PROVE BoundIsResolved'
  BY <1>34 DEF BoundIsResolved, SocketCloses
<1>35. ASSUME NEW c \in Clients, NEW s \in Sids, Call(c, s) PROVE BoundIsResolved'
  BY <1>35 DEF BoundIsResolved, Call, NoSession
<1>36. ASSUME NEW t \in Trunks, RefreshTick(t) PROVE BoundIsResolved'
  BY <1>36 DEF BoundIsResolved, RefreshTick
<1>37. ASSUME NEW t \in Trunks, RefreshSend(t) PROVE BoundIsResolved'
  BY <1>37 DEF BoundIsResolved, RefreshSend, Accepted, Refused
<1>38. ASSUME NEW t \in Trunks, RefreshDone(t) PROVE BoundIsResolved'
  BY <1>38 DEF BoundIsResolved, RefreshDone
<1>39. ASSUME NEW t \in Trunks, RenewLease(t) PROVE BoundIsResolved'
  BY <1>39 DEF BoundIsResolved, RenewLease
<1>40. ASSUME NEW t \in Trunks, PeerTakes(t) PROVE BoundIsResolved'
  BY <1>40 DEF BoundIsResolved, PeerTakes
<1>41. ASSUME NEW t \in Trunks, PeerReleases(t) PROVE BoundIsResolved'
  BY <1>41 DEF BoundIsResolved, PeerReleases
<1>42. CASE HeartbeatTick
  BY <1>42 DEF BoundIsResolved, HeartbeatTick
<1>43. CASE Renewed
  BY <1>43 DEF BoundIsResolved, Renewed
<1>44. ASSUME NEW s \in Sids, CallEnds(s) PROVE BoundIsResolved'
  BY <1>44 DEF BoundIsResolved, CallEnds
<1>45. ASSUME NEW t \in Trunks, NEW s \in Sids, Ring(t, s) PROVE BoundIsResolved'
  BY <1>45 DEF BoundIsResolved, Ring, NoSession
<1>46. CASE UNCHANGED vars
  BY <1>46 DEF BoundIsResolved, vars
<1>47. ASSUME NEW c \in Clients, Works(c) PROVE BoundIsResolved'
  BY <1>1, <1>2, <1>3, <1>4, <1>5, <1>6, <1>7, <1>8, <1>9, <1>10, <1>11, <1>12, <1>13, <1>14, <1>15,
      <1>16, <1>17, <1>18, <1>19, <1>20, <1>21, <1>22, <1>23, <1>24, <1>47 DEF Works, Keeps, AsDevice
<1>48. ASSUME NEW c \in Clients, Waits(c) PROVE BoundIsResolved'
  BY <1>25, <1>26, <1>27, <1>28, <1>29, <1>48 DEF Waits, AsDevice
<1>49. ASSUME NEW c \in Clients, Asks(c) PROVE BoundIsResolved'
  BY <1>30, <1>31, <1>32, <1>33, <1>34, <1>35, <1>49 DEF Asks, AsDevice
<1>50. CASE Background
  BY <1>36, <1>37, <1>38, <1>39, <1>40, <1>41, <1>42, <1>43, <1>44, <1>45, <1>50 DEF Background
<1> QED BY <1>46, <1>47, <1>48, <1>49, <1>50 DEF Next

(* No handler begins to unregister a trunk that an agent was promised, and  *)
(* no agent is promised a trunk that is being unregistered.                *)
LEMMA NoneDestroyedStep ==
  ASSUME TypeOK, Apart, OnCourse, LockHeld, BoundIsResolved, NoneDestroyed, [Next]_vars
  PROVE  NoneDestroyed'
<1> USE PresenceAssumption DEF Goto, connVars, workVars, regVars, bgVars, callVars
<1>1. ASSUME NEW c \in Clients, Unlock(c) PROVE NoneDestroyed'
  BY <1>1 DEF NoneDestroyed, Promised, Holds, LockHeld, BoundIsResolved, TypeOK, Apart, Clients,
      OnCourse, Undoing, WorkPcs, HoldPcs, Unlock, AfterLock
<1>2. ASSUME NEW c \in Clients, RegLease(c) PROVE NoneDestroyed'
  BY <1>2 DEF NoneDestroyed, Promised, RegLease
<1>3. ASSUME NEW c \in Clients, RegSend(c) PROVE NoneDestroyed'
  BY <1>3 DEF NoneDestroyed, Promised, TypeOK, Clients, RegSend, Accepted, Refused
<1>4. ASSUME NEW c \in Clients, RegDone(c) PROVE NoneDestroyed'
  BY <1>4 DEF NoneDestroyed, Promised, RegDone
<1>5. ASSUME NEW c \in Clients, Tell(c) PROVE NoneDestroyed'
  BY <1>5 DEF NoneDestroyed, Promised, Tell
<1>6. ASSUME NEW c \in Clients, Drop(c) PROVE NoneDestroyed'
  BY <1>6 DEF NoneDestroyed, Promised, TypeOK, Clients, Apart, OnCourse, WorkPcs, HoldPcs, Drop, Unbind
<1>7. ASSUME NEW c \in Clients, Clear(c) PROVE NoneDestroyed'
  BY <1>7 DEF NoneDestroyed, Promised, Clear
<1>8. ASSUME NEW c \in Clients, ChooseContact(c) PROVE NoneDestroyed'
  BY <1>8 DEF NoneDestroyed, Promised, ChooseContact, Siblings
<1>9. ASSUME NEW c \in Clients, KeepSend(c) PROVE NoneDestroyed'
  BY <1>9 DEF NoneDestroyed, Promised, TypeOK, Clients, KeepSend, Accepted, Refused, KeepNext
<1>10. ASSUME NEW c \in Clients, KeepDone(c) PROVE NoneDestroyed'
  BY <1>10 DEF NoneDestroyed, Promised, KeepDone, KeepNext
<1>11. ASSUME NEW c \in Clients, Expire(c) PROVE NoneDestroyed'
  BY <1>11 DEF NoneDestroyed, Promised, Expire
<1>12. ASSUME NEW c \in Clients, Release(c) PROVE NoneDestroyed'
  BY <1>12 DEF NoneDestroyed, Promised, Release
<1>13. ASSUME NEW c \in Clients, Leave(c) PROVE NoneDestroyed'
  BY <1>13 DEF NoneDestroyed, Promised, TypeOK, Clients, Apart, OnCourse, WorkPcs, HoldPcs, Leave,
      Unbind, LastOn, Owned
<1>14. ASSUME NEW c \in Clients, Hangup(c) PROVE NoneDestroyed'
  BY <1>14 DEF NoneDestroyed, Promised, Hangup, EndOne
<1>15. ASSUME NEW c \in Clients, HungUp(c) PROVE NoneDestroyed'
  BY <1>15 DEF NoneDestroyed, Promised, HungUp
<1>16. ASSUME NEW c \in Clients, Snapshot(c) PROVE NoneDestroyed'
  BY <1>16 DEF NoneDestroyed, Promised, Snapshot, OnTrunk
<1>17. ASSUME NEW c \in Clients, Recheck(c) PROVE NoneDestroyed'
  BY <1>17 DEF NoneDestroyed, Promised, TypeOK, Clients, Recheck, InUse
<1>18. ASSUME NEW c \in Clients, Sweep(c) PROVE NoneDestroyed'
  BY <1>18 DEF NoneDestroyed, Promised, Sweep, EndOne
<1>19. ASSUME NEW c \in Clients, Swept(c) PROVE NoneDestroyed'
  BY <1>19 DEF NoneDestroyed, Promised, Holds, LockHeld, BoundIsResolved, TypeOK, Apart, Clients,
      OnCourse, Undoing, WorkPcs, HoldPcs, Swept, InUse
<1>20. ASSUME NEW c \in Clients, Repair(c) PROVE NoneDestroyed'
  BY <1>20 DEF NoneDestroyed, Promised, Repair, InUse
<1>21. ASSUME NEW c \in Clients, ListStale(c) PROVE NoneDestroyed'
  BY <1>21 DEF NoneDestroyed, Promised, ListStale, StaleOf
<1>22. ASSUME NEW c \in Clients, BindDevice(c) PROVE NoneDestroyed'
  BY <1>22 DEF NoneDestroyed, Promised, TypeOK, Clients, Apart, OnCourse, WorkPcs, HoldPcs, BindDevice,
      Bind, LastOn
<1>23. ASSUME NEW c \in Clients, Forget(c) PROVE NoneDestroyed'
  BY <1>23 DEF NoneDestroyed, Promised, Forget, Owned
<1>24. ASSUME NEW c \in Clients, LoggedOut(c) PROVE NoneDestroyed'
  BY <1>24 DEF NoneDestroyed, Promised, TypeOK, Clients, Apart, OnCourse, WorkPcs, HoldPcs, LoggedOut,
      Unbind
<1>25. ASSUME NEW c \in Clients, TakeToRegister(c) PROVE NoneDestroyed'
  BY <1>25 DEF NoneDestroyed, Promised, LockHeld, Holds, HoldPcs, TypeOK, Apart, Clients, TakeToRegister,
      MustRegister, Take
<1>26. ASSUME NEW c \in Clients, TakeToClean(c) PROVE NoneDestroyed'
  BY <1>26, TakeToCleanEffect, SMTT(60) DEF NoneDestroyed, Promised, LockHeld, Holds, BoundIsResolved, TypeOK,
      Apart, Clients, OnCourse, WorkPcs, HoldPcs, TakeToClean
<1>27. ASSUME NEW c \in Clients, ReleaseStale(c) PROVE NoneDestroyed'
  BY <1>27 DEF NoneDestroyed, Promised, Holds, LockHeld, BoundIsResolved, TypeOK, Apart, Clients,
      OnCourse, Undoing, WorkPcs, HoldPcs, ReleaseStale, TakeToRelease, Take
<1>28. ASSUME NEW c \in Clients, Move(c) PROVE NoneDestroyed'
  BY <1>28 DEF NoneDestroyed, Promised, Holds, LockHeld, BoundIsResolved, TypeOK, Apart, Clients,
      OnCourse, Undoing, WorkPcs, HoldPcs, Move, TakeToRelease, Take
<1>29. ASSUME NEW c \in Clients, TakeToLogout(c) PROVE NoneDestroyed'
  BY <1>29 DEF NoneDestroyed, Promised, Holds, LockHeld, BoundIsResolved, TypeOK, Apart, Clients,
      OnCourse, Undoing, WorkPcs, HoldPcs, TakeToLogout, UsedByOthers, Take
<1>30. ASSUME NEW c \in Clients, NEW t \in Trunks, AgentRegister(c, t) PROVE NoneDestroyed'
  <2>1. ready' = [ready EXCEPT ![c] = None]
    BY <1>30 DEF AgentRegister, Bind
  <2>2. \A a \in Agents, u \in Trunks : Promised(a, u)' => Promised(a, u)
    BY <1>30, <2>1, BindEffect DEF AgentRegister, Promised, TypeOK, Clients
  <2>3. \A d \in Clients :
          pc'[d] \in {"clear", "contact", "keep", "keepDone", "expire",
              "release"} => pc'[d] = pc[d] /\ at'[d] = at[d]
    BY <1>30, BindEffect DEF AgentRegister, TypeOK
  <2> QED BY <2>2, <2>3, DestroyedFrame
<1>31. ASSUME NEW c \in Clients, NEW t \in Trunks, DeviceRegister(c, t) PROVE NoneDestroyed'
  BY <1>31 DEF NoneDestroyed, Promised, DeviceRegister, Notify
<1>32. ASSUME NEW c \in Clients, Unregister(c) PROVE NoneDestroyed'
  BY <1>32 DEF NoneDestroyed, Promised, Unregister
<1>33. ASSUME NEW c \in Clients, CallNotReady(c) PROVE NoneDestroyed'
  BY <1>33 DEF NoneDestroyed, Promised, TypeOK, Clients, Apart, OnCourse, WorkPcs, HoldPcs, CallNotReady
<1>34. ASSUME NEW c \in Clients, SocketCloses(c) PROVE NoneDestroyed'
  BY <1>34 DEF NoneDestroyed, Promised, SocketCloses
<1>35. ASSUME NEW c \in Clients, NEW s \in Sids, Call(c, s) PROVE NoneDestroyed'
  BY <1>35 DEF NoneDestroyed, Promised, Call, NoSession
<1>36. ASSUME NEW t \in Trunks, RefreshTick(t) PROVE NoneDestroyed'
  BY <1>36 DEF NoneDestroyed, Promised, RefreshTick
<1>37. ASSUME NEW t \in Trunks, RefreshSend(t) PROVE NoneDestroyed'
  BY <1>37 DEF NoneDestroyed, Promised, RefreshSend, Accepted, Refused
<1>38. ASSUME NEW t \in Trunks, RefreshDone(t) PROVE NoneDestroyed'
  BY <1>38 DEF NoneDestroyed, Promised, RefreshDone
<1>39. ASSUME NEW t \in Trunks, RenewLease(t) PROVE NoneDestroyed'
  BY <1>39 DEF NoneDestroyed, Promised, RenewLease
<1>40. ASSUME NEW t \in Trunks, PeerTakes(t) PROVE NoneDestroyed'
  BY <1>40 DEF NoneDestroyed, Promised, PeerTakes
<1>41. ASSUME NEW t \in Trunks, PeerReleases(t) PROVE NoneDestroyed'
  BY <1>41 DEF NoneDestroyed, Promised, PeerReleases
<1>42. CASE HeartbeatTick
  BY <1>42 DEF NoneDestroyed, Promised, HeartbeatTick
<1>43. CASE Renewed
  BY <1>43 DEF NoneDestroyed, Promised, Renewed
<1>44. ASSUME NEW s \in Sids, CallEnds(s) PROVE NoneDestroyed'
  BY <1>44 DEF NoneDestroyed, Promised, CallEnds
<1>45. ASSUME NEW t \in Trunks, NEW s \in Sids, Ring(t, s) PROVE NoneDestroyed'
  BY <1>45 DEF NoneDestroyed, Promised, Ring, NoSession
<1>46. CASE UNCHANGED vars
  BY <1>46 DEF NoneDestroyed, Promised, vars
<1>47. ASSUME NEW c \in Clients, Works(c) PROVE NoneDestroyed'
  BY <1>1, <1>2, <1>3, <1>4, <1>5, <1>6, <1>7, <1>8, <1>9, <1>10, <1>11, <1>12, <1>13, <1>14, <1>15,
      <1>16, <1>17, <1>18, <1>19, <1>20, <1>21, <1>22, <1>23, <1>24, <1>47 DEF Works, Keeps, AsDevice
<1>48. ASSUME NEW c \in Clients, Waits(c) PROVE NoneDestroyed'
  BY <1>25, <1>26, <1>27, <1>28, <1>29, <1>48 DEF Waits, AsDevice
<1>49. ASSUME NEW c \in Clients, Asks(c) PROVE NoneDestroyed'
  BY <1>30, <1>31, <1>32, <1>33, <1>34, <1>35, <1>49 DEF Asks, AsDevice
<1>50. CASE Background
  BY <1>36, <1>37, <1>38, <1>39, <1>40, <1>41, <1>42, <1>43, <1>44, <1>45, <1>50 DEF Background
<1> QED BY <1>46, <1>47, <1>48, <1>49, <1>50 DEF Next

(* Nobody gives away the lease of a trunk that an agent was promised. *)
LEMMA HasLeaseStep ==
  ASSUME TypeOK, Apart, OnCourse, LockHeld, BoundIsResolved, NoneDestroyed, HasLease, [Next]_vars
  PROVE  HasLease'
<1> USE PresenceAssumption DEF Goto, connVars, workVars, regVars, bgVars, callVars
<1>1. ASSUME NEW c \in Clients, Unlock(c) PROVE HasLease'
  BY <1>1 DEF HasLease, Entitled, Promised, TypeOK, Clients, Trunks, OnCourse, Undoing, WorkPcs, HoldPcs,
      Unlock, AfterLock
<1>2. ASSUME NEW c \in Clients, RegLease(c) PROVE HasLease'
  BY <1>2 DEF HasLease, Entitled, Promised, TypeOK, Clients, Trunks, RegLease
<1>3. ASSUME NEW c \in Clients, RegSend(c) PROVE HasLease'
  BY <1>3 DEF HasLease, Entitled, Promised, TypeOK, Clients, Trunks, RegSend, Accepted, Refused
<1>4. ASSUME NEW c \in Clients, RegDone(c) PROVE HasLease'
  BY <1>4 DEF HasLease, Entitled, Promised, RegDone
<1>5. ASSUME NEW c \in Clients, Tell(c) PROVE HasLease'
  <2>1. \A a \in Agents, u \in AgentTrunks : Entitled(a, u)' => Entitled(a, u)
    BY <1>5 DEF Entitled, Promised, TypeOK, Apart, Clients, Trunks, OnCourse, Undoing, WorkPcs, HoldPcs,
        Tell
  <2> QED BY <1>5, <2>1, LeaseFrame DEF Tell
<1>6. ASSUME NEW c \in Clients, Drop(c) PROVE HasLease'
  <2>1. \A a \in Agents, u \in AgentTrunks : Entitled(a, u)' => Entitled(a, u)
    BY <1>6 DEF Entitled, Promised, TypeOK, Apart, Clients, Trunks, OnCourse, Undoing, WorkPcs, HoldPcs,
        Drop, Unbind
  <2> QED BY <1>6, <2>1, LeaseFrame DEF Drop
<1>7. ASSUME NEW c \in Clients, Clear(c) PROVE HasLease'
  BY <1>7 DEF HasLease, Entitled, Promised, Holds, LockHeld, NoneDestroyed, TypeOK, Apart, Clients,
      OnCourse, Undoing, WorkPcs, HoldPcs, Clear
<1>8. ASSUME NEW c \in Clients, ChooseContact(c) PROVE HasLease'
  BY <1>8 DEF HasLease, Entitled, Promised, ChooseContact, Siblings
<1>9. ASSUME NEW c \in Clients, KeepSend(c) PROVE HasLease'
  BY <1>9 DEF HasLease, Entitled, Promised, TypeOK, Clients, Trunks, KeepSend, Accepted, Refused, KeepNext
<1>10. ASSUME NEW c \in Clients, KeepDone(c) PROVE HasLease'
  BY <1>10 DEF HasLease, Entitled, Promised, KeepDone, KeepNext
<1>11. ASSUME NEW c \in Clients, Expire(c) PROVE HasLease'
  BY <1>11 DEF HasLease, Entitled, Promised, TypeOK, Clients, Trunks, Expire
<1>12. ASSUME NEW c \in Clients, Release(c) PROVE HasLease'
  BY <1>12 DEF HasLease, Entitled, Promised, Holds, LockHeld, NoneDestroyed, TypeOK, Apart, Clients,
      OnCourse, Undoing, WorkPcs, HoldPcs, Release
<1>13. ASSUME NEW c \in Clients, Leave(c) PROVE HasLease'
  <2>1. \A a \in Agents, u \in AgentTrunks : Entitled(a, u)' => Entitled(a, u)
    BY <1>13 DEF Entitled, Promised, TypeOK, Apart, Clients, Trunks, OnCourse, Undoing, WorkPcs, HoldPcs,
        Leave, Unbind, Owned
  <2> QED BY <1>13, <2>1, LeaseFrame DEF Leave
<1>14. ASSUME NEW c \in Clients, Hangup(c) PROVE HasLease'
  BY <1>14 DEF HasLease, Entitled, Promised, Hangup, EndOne
<1>15. ASSUME NEW c \in Clients, HungUp(c) PROVE HasLease'
  BY <1>15 DEF HasLease, Entitled, Promised, HungUp
<1>16. ASSUME NEW c \in Clients, Snapshot(c) PROVE HasLease'
  BY <1>16 DEF HasLease, Entitled, Promised, Snapshot, OnTrunk
<1>17. ASSUME NEW c \in Clients, Recheck(c) PROVE HasLease'
  <2>1. \A a \in Agents, u \in AgentTrunks : Entitled(a, u)' => Entitled(a, u)
    BY <1>17 DEF Entitled, Promised, TypeOK, Apart, Clients, Trunks, OnCourse, Undoing, WorkPcs, HoldPcs,
        Recheck
  <2> QED BY <1>17, <2>1, LeaseFrame DEF Recheck
<1>18. ASSUME NEW c \in Clients, Sweep(c) PROVE HasLease'
  BY <1>18 DEF HasLease, Entitled, Promised, Sweep, EndOne
<1>19. ASSUME NEW c \in Clients, Swept(c) PROVE HasLease'
  <2>1. \A a \in Agents, u \in AgentTrunks : Entitled(a, u)' => Entitled(a, u)
    BY <1>19 DEF Entitled, Promised, TypeOK, Apart, Clients, Trunks, OnCourse, Undoing, WorkPcs, HoldPcs,
        Swept
  <2> QED BY <1>19, <2>1, LeaseFrame DEF Swept
<1>20. ASSUME NEW c \in Clients, Repair(c) PROVE HasLease'
  <2>1. \A a \in Agents, u \in AgentTrunks : Entitled(a, u)' => Entitled(a, u)
    BY <1>20 DEF Entitled, Promised, TypeOK, Apart, Clients, Trunks, OnCourse, Undoing, WorkPcs, HoldPcs,
        Repair
  <2> QED BY <1>20, <2>1, LeaseFrame DEF Repair
<1>21. ASSUME NEW c \in Clients, ListStale(c) PROVE HasLease'
  BY <1>21 DEF HasLease, Entitled, Promised, ListStale, StaleOf
<1>22. ASSUME NEW c \in Clients, BindDevice(c) PROVE HasLease'
  BY <1>22 DEF HasLease, Entitled, Promised, TypeOK, Clients, Trunks, BindDevice, Bind, LastOn
<1>23. ASSUME NEW c \in Clients, Forget(c) PROVE HasLease'
  BY <1>23 DEF HasLease, Entitled, Promised, Forget, Owned
<1>24. ASSUME NEW c \in Clients, LoggedOut(c) PROVE HasLease'
  BY <1>24 DEF HasLease, Entitled, Promised, TypeOK, Clients, Trunks, LoggedOut, Unbind
<1>25. ASSUME NEW c \in Clients, TakeToRegister(c) PROVE HasLease'
  BY <1>25 DEF HasLease, Entitled, Promised, TypeOK, Clients, Trunks, TakeToRegister, MustRegister, Take
<1>26. ASSUME NEW c \in Clients, TakeToClean(c) PROVE HasLease'
  <2>1. \A a \in Agents, u \in AgentTrunks : Entitled(a, u)' => Entitled(a, u)
    BY <1>26, TakeToCleanEffect DEF Entitled, Promised, TypeOK, Apart, Clients, Trunks, OnCourse,
        Undoing, WorkPcs, HoldPcs, TakeToClean
  <2> QED BY <1>26, <2>1, LeaseFrame DEF TakeToClean
<1>27. ASSUME NEW c \in Clients, ReleaseStale(c) PROVE HasLease'
  BY <1>27 DEF HasLease, Entitled, Promised, ReleaseStale, TakeToRelease, Take
<1>28. ASSUME NEW c \in Clients, Move(c) PROVE HasLease'
  BY <1>28 DEF HasLease, Entitled, Promised, Move, TakeToRelease, Take
<1>29. ASSUME NEW c \in Clients, TakeToLogout(c) PROVE HasLease'
  BY <1>29 DEF HasLease, Entitled, Promised, TypeOK, Clients, Trunks, TakeToLogout, UsedByOthers, Take
<1>30. ASSUME NEW c \in Clients, NEW t \in Trunks, AgentRegister(c, t) PROVE HasLease'
  <2>1. ready' = [ready EXCEPT ![c] = None]
    BY <1>30 DEF AgentRegister, Bind
  <2>2. \A a \in Agents, u \in AgentTrunks : Promised(a, u)' => Promised(a, u)
    BY <1>30, <2>1, BindEffect DEF AgentRegister, Promised, TypeOK, Clients, Trunks
  <2>3. \A d \in Clients : pc'[d] \in {"wire", "worker", "unlock"} => pc'[d] = pc[d] /\ at'[d] = at[d] /\ mode'[d] = mode[d]
    BY <1>30, BindEffect DEF AgentRegister, TypeOK
  <2>4. \A a \in Agents, u \in AgentTrunks : Entitled(a, u)' => Entitled(a, u)
    BY <1>30, <2>2, <2>3 DEF Entitled, Clients, AgentRegister, Bind
  <2> QED BY <1>30, <2>4, LeaseFrame DEF AgentRegister, Bind
<1>31. ASSUME NEW c \in Clients, NEW t \in Trunks, DeviceRegister(c, t) PROVE HasLease'
  BY <1>31 DEF HasLease, Entitled, Promised, DeviceRegister, Notify
<1>32. ASSUME NEW c \in Clients, Unregister(c) PROVE HasLease'
  BY <1>32 DEF HasLease, Entitled, Promised, Unregister
<1>33. ASSUME NEW c \in Clients, CallNotReady(c) PROVE HasLease'
  <2>1. \A a \in Agents, u \in AgentTrunks : Entitled(a, u)' => Entitled(a, u)
    BY <1>33 DEF Entitled, Promised, TypeOK, Apart, Clients, Trunks, OnCourse, Undoing, WorkPcs, HoldPcs,
        CallNotReady
  <2> QED BY <1>33, <2>1, LeaseFrame DEF CallNotReady
<1>34. ASSUME NEW c \in Clients, SocketCloses(c) PROVE HasLease'
  BY <1>34 DEF HasLease, Entitled, Promised, SocketCloses
<1>35. ASSUME NEW c \in Clients, NEW s \in Sids, Call(c, s) PROVE HasLease'
  BY <1>35 DEF HasLease, Entitled, Promised, Call, NoSession
<1>36. ASSUME NEW t \in Trunks, RefreshTick(t) PROVE HasLease'
  BY <1>36 DEF HasLease, Entitled, Promised, RefreshTick
<1>37. ASSUME NEW t \in Trunks, RefreshSend(t) PROVE HasLease'
  BY <1>37 DEF HasLease, Entitled, Promised, RefreshSend, Accepted, Refused
<1>38. ASSUME NEW t \in Trunks, RefreshDone(t) PROVE HasLease'
  BY <1>38 DEF HasLease, Entitled, Promised, RefreshDone
<1>39. ASSUME NEW t \in Trunks, RenewLease(t) PROVE HasLease'
  BY <1>39 DEF HasLease, Entitled, Promised, RenewLease
<1>40. ASSUME NEW t \in Trunks, PeerTakes(t) PROVE HasLease'
  BY <1>40 DEF HasLease, TypeOK, PeerTakes
<1>41. ASSUME NEW t \in Trunks, PeerReleases(t) PROVE HasLease'
  BY <1>41 DEF HasLease, TypeOK, PeerReleases
<1>42. CASE HeartbeatTick
  BY <1>42 DEF HasLease, Entitled, Promised, HeartbeatTick
<1>43. CASE Renewed
  BY <1>43 DEF HasLease, Entitled, Promised, Renewed
<1>44. ASSUME NEW s \in Sids, CallEnds(s) PROVE HasLease'
  BY <1>44 DEF HasLease, Entitled, Promised, CallEnds
<1>45. ASSUME NEW t \in Trunks, NEW s \in Sids, Ring(t, s) PROVE HasLease'
  BY <1>45 DEF HasLease, Entitled, Promised, Ring, NoSession
<1>46. CASE UNCHANGED vars
  BY <1>46 DEF HasLease, Entitled, Promised, vars
<1>47. ASSUME NEW c \in Clients, Works(c) PROVE HasLease'
  BY <1>1, <1>2, <1>3, <1>4, <1>5, <1>6, <1>7, <1>8, <1>9, <1>10, <1>11, <1>12, <1>13, <1>14, <1>15,
      <1>16, <1>17, <1>18, <1>19, <1>20, <1>21, <1>22, <1>23, <1>24, <1>47 DEF Works, Keeps, AsDevice
<1>48. ASSUME NEW c \in Clients, Waits(c) PROVE HasLease'
  BY <1>25, <1>26, <1>27, <1>28, <1>29, <1>48 DEF Waits, AsDevice
<1>49. ASSUME NEW c \in Clients, Asks(c) PROVE HasLease'
  BY <1>30, <1>31, <1>32, <1>33, <1>34, <1>35, <1>49 DEF Asks, AsDevice
<1>50. CASE Background
  BY <1>36, <1>37, <1>38, <1>39, <1>40, <1>41, <1>42, <1>43, <1>44, <1>45, <1>50 DEF Background
<1> QED BY <1>46, <1>47, <1>48, <1>49, <1>50 DEF Next

(* A sweep never has a call of a client that is still bound. *)
LEMMA SparedStep ==
  ASSUME TypeOK, Apart, OnCourse, BoundIsResolved, Spared, [Next]_vars
  PROVE  Spared'
<1> USE PresenceAssumption DEF Goto, connVars, workVars, regVars, bgVars, callVars
<1>1. ASSUME NEW c \in Clients, Unlock(c) PROVE Spared'
  BY <1>1 DEF Spared, SweepSparesReplacement, TypeOK, Apart, Clients, OnCourse, WorkPcs, HoldPcs, Unlock,
      AfterLock
<1>2. ASSUME NEW c \in Clients, RegLease(c) PROVE Spared'
  BY <1>2 DEF Spared, SweepSparesReplacement, RegLease
<1>3. ASSUME NEW c \in Clients, RegSend(c) PROVE Spared'
  <2>1. \A d \in Clients : pc'[d] \in {"recheck", "sweep"} => pc'[d] = pc[d] /\ at'[d] = at[d]
    BY <1>3 DEF TypeOK, RegSend
  <2> QED BY <1>3, <2>1, SparedFrame DEF RegSend
<1>4. ASSUME NEW c \in Clients, RegDone(c) PROVE Spared'
  BY <1>4 DEF Spared, SweepSparesReplacement, RegDone
<1>5. ASSUME NEW c \in Clients, Tell(c) PROVE Spared'
  BY <1>5 DEF Spared, SweepSparesReplacement, Tell
<1>6. ASSUME NEW c \in Clients, Drop(c) PROVE Spared'
  BY <1>6 DEF Spared, SweepSparesReplacement, Drop, Unbind
<1>7. ASSUME NEW c \in Clients, Clear(c) PROVE Spared'
  BY <1>7 DEF Spared, SweepSparesReplacement, Clear
<1>8. ASSUME NEW c \in Clients, ChooseContact(c) PROVE Spared'
  BY <1>8 DEF Spared, SweepSparesReplacement, ChooseContact, Siblings
<1>9. ASSUME NEW c \in Clients, KeepSend(c) PROVE Spared'
  <2>1. \A d \in Clients : pc'[d] \in {"recheck", "sweep"} => pc'[d] = pc[d] /\ at'[d] = at[d]
    BY <1>9 DEF TypeOK, KeepSend, KeepNext
  <2> QED BY <1>9, <2>1, SparedFrame DEF KeepSend
<1>10. ASSUME NEW c \in Clients, KeepDone(c) PROVE Spared'
  BY <1>10 DEF Spared, SweepSparesReplacement, KeepDone, KeepNext
<1>11. ASSUME NEW c \in Clients, Expire(c) PROVE Spared'
  BY <1>11 DEF Spared, SweepSparesReplacement, Expire
<1>12. ASSUME NEW c \in Clients, Release(c) PROVE Spared'
  BY <1>12 DEF Spared, SweepSparesReplacement, Release
<1>13. ASSUME NEW c \in Clients, Leave(c) PROVE Spared'
  BY <1>13 DEF Spared, SweepSparesReplacement, Leave, Unbind, LastOn, Owned
<1>14. ASSUME NEW c \in Clients, Hangup(c) PROVE Spared'
  BY <1>14 DEF Spared, SweepSparesReplacement, Hangup, EndOne
<1>15. ASSUME NEW c \in Clients, HungUp(c) PROVE Spared'
  BY <1>15 DEF Spared, SweepSparesReplacement, HungUp
<1>16. ASSUME NEW c \in Clients, Snapshot(c) PROVE Spared'
  BY <1>16 DEF Spared, SweepSparesReplacement, TypeOK, Snapshot, OnTrunk
<1>17. ASSUME NEW c \in Clients, Recheck(c) PROVE Spared'
  <2>1. CASE InUse(at[c])
    <3>1. /\ pc' = [pc EXCEPT ![c] = "unlock"] /\ todo' = [todo EXCEPT ![c] = {}]
          /\ UNCHANGED <<sess, kept, resolved, at>>
      BY <1>17, <2>1 DEF Recheck
    <3> QED BY <3>1 DEF Spared, SweepSparesReplacement, TypeOK, Clients
  <2>2. CASE ~InUse(at[c])
    <3>1. pc' = [pc EXCEPT ![c] = "sweep"] /\ UNCHANGED <<todo, sess, kept, resolved, at>> /\ pc[c] = "recheck"
      BY <1>17, <2>2 DEF Recheck
    <3>2. \A s \in todo[c] : s \notin kept
      BY <2>2, <3>1 DEF InUse, Spared, BoundIsResolved
    <3> QED BY <3>1, <3>2 DEF Spared, SweepSparesReplacement, TypeOK, Clients
  <2> QED BY <2>1, <2>2
<1>18. ASSUME NEW c \in Clients, Sweep(c) PROVE Spared'
  BY <1>18 DEF Spared, SweepSparesReplacement, Sweep, EndOne
<1>19. ASSUME NEW c \in Clients, Swept(c) PROVE Spared'
  BY <1>19 DEF Spared, SweepSparesReplacement, Swept, InUse
<1>20. ASSUME NEW c \in Clients, Repair(c) PROVE Spared'
  BY <1>20 DEF Spared, SweepSparesReplacement, Repair, InUse
<1>21. ASSUME NEW c \in Clients, ListStale(c) PROVE Spared'
  BY <1>21 DEF Spared, SweepSparesReplacement, ListStale, StaleOf
<1>22. ASSUME NEW c \in Clients, BindDevice(c) PROVE Spared'
  <2>1. next[c] \in Trunks
    BY <1>22 DEF TypeOK, OnCourse, BindDevice
  <2> QED BY <1>22, <2>1, SparedBind DEF BindDevice, Bind
<1>23. ASSUME NEW c \in Clients, Forget(c) PROVE Spared'
  BY <1>23 DEF Spared, SweepSparesReplacement, Forget, Owned
<1>24. ASSUME NEW c \in Clients, LoggedOut(c) PROVE Spared'
  BY <1>24 DEF Spared, SweepSparesReplacement, LoggedOut, Unbind
<1>25. ASSUME NEW c \in Clients, TakeToRegister(c) PROVE Spared'
  <2>1. \A d \in Clients : pc'[d] \in {"recheck", "sweep"} => pc'[d] = pc[d] /\ at'[d] = at[d]
    BY <1>25, TakeToRegisterEffect DEF TypeOK, TakeToRegister
  <2> QED BY <1>25, <2>1, SparedFrame DEF TakeToRegister
<1>26. ASSUME NEW c \in Clients, TakeToClean(c) PROVE Spared'
  <2>1. \A d \in Clients : pc'[d] \in {"recheck", "sweep"} => pc'[d] = pc[d] /\ at'[d] = at[d]
    BY <1>26, TakeToCleanEffect DEF TypeOK, TakeToClean
  <2> QED BY <1>26, <2>1, SparedFrame DEF TakeToClean
<1>27. ASSUME NEW c \in Clients, ReleaseStale(c) PROVE Spared'
  BY <1>27 DEF Spared, SweepSparesReplacement, ReleaseStale, TakeToRelease, Take
<1>28. ASSUME NEW c \in Clients, Move(c) PROVE Spared'
  BY <1>28 DEF Spared, SweepSparesReplacement, Move, TakeToRelease, Take
<1>29. ASSUME NEW c \in Clients, TakeToLogout(c) PROVE Spared'
  <2>1. \A d \in Clients : pc'[d] \in {"recheck", "sweep"} => pc'[d] = pc[d] /\ at'[d] = at[d]
    BY <1>29, TakeToLogoutEffect DEF TypeOK, TakeToLogout
  <2> QED BY <1>29, <2>1, SparedFrame DEF TakeToLogout
<1>30. ASSUME NEW c \in Clients, NEW t \in Trunks, AgentRegister(c, t) PROVE Spared'
  BY <1>30, SparedBind DEF AgentRegister, Bind
<1>31. ASSUME NEW c \in Clients, NEW t \in Trunks, DeviceRegister(c, t) PROVE Spared'
  BY <1>31 DEF Spared, SweepSparesReplacement, DeviceRegister, Notify
<1>32. ASSUME NEW c \in Clients, Unregister(c) PROVE Spared'
  BY <1>32 DEF Spared, SweepSparesReplacement, Unregister
<1>33. ASSUME NEW c \in Clients, CallNotReady(c) PROVE Spared'
  BY <1>33 DEF Spared, SweepSparesReplacement, CallNotReady
<1>34. ASSUME NEW c \in Clients, SocketCloses(c) PROVE Spared'
  BY <1>34 DEF Spared, SweepSparesReplacement, SocketCloses
<1>35. ASSUME NEW c \in Clients, NEW s \in Sids, Call(c, s) PROVE Spared'
  BY <1>35 DEF Spared, SweepSparesReplacement, TypeOK, Clients, Call, NoSession
<1>36. ASSUME NEW t \in Trunks, RefreshTick(t) PROVE Spared'
  BY <1>36 DEF Spared, SweepSparesReplacement, RefreshTick
<1>37. ASSUME NEW t \in Trunks, RefreshSend(t) PROVE Spared'
  BY <1>37 DEF Spared, SweepSparesReplacement, RefreshSend, Accepted, Refused
<1>38. ASSUME NEW t \in Trunks, RefreshDone(t) PROVE Spared'
  BY <1>38 DEF Spared, SweepSparesReplacement, RefreshDone
<1>39. ASSUME NEW t \in Trunks, RenewLease(t) PROVE Spared'
  BY <1>39 DEF Spared, SweepSparesReplacement, RenewLease
<1>40. ASSUME NEW t \in Trunks, PeerTakes(t) PROVE Spared'
  BY <1>40 DEF Spared, SweepSparesReplacement, PeerTakes
<1>41. ASSUME NEW t \in Trunks, PeerReleases(t) PROVE Spared'
  BY <1>41 DEF Spared, SweepSparesReplacement, PeerReleases
<1>42. CASE HeartbeatTick
  BY <1>42 DEF Spared, SweepSparesReplacement, HeartbeatTick
<1>43. CASE Renewed
  BY <1>43 DEF Spared, SweepSparesReplacement, Renewed
<1>44. ASSUME NEW s \in Sids, CallEnds(s) PROVE Spared'
  BY <1>44 DEF Spared, SweepSparesReplacement, CallEnds
<1>45. ASSUME NEW t \in Trunks, NEW s \in Sids, Ring(t, s) PROVE Spared'
  BY <1>45 DEF Spared, SweepSparesReplacement, Ring, NoSession
<1>46. CASE UNCHANGED vars
  BY <1>46 DEF Spared, SweepSparesReplacement, vars
<1>47. ASSUME NEW c \in Clients, Works(c) PROVE Spared'
  BY <1>1, <1>2, <1>3, <1>4, <1>5, <1>6, <1>7, <1>8, <1>9, <1>10, <1>11, <1>12, <1>13, <1>14, <1>15,
      <1>16, <1>17, <1>18, <1>19, <1>20, <1>21, <1>22, <1>23, <1>24, <1>47 DEF Works, Keeps, AsDevice
<1>48. ASSUME NEW c \in Clients, Waits(c) PROVE Spared'
  BY <1>25, <1>26, <1>27, <1>28, <1>29, <1>48 DEF Waits, AsDevice
<1>49. ASSUME NEW c \in Clients, Asks(c) PROVE Spared'
  BY <1>30, <1>31, <1>32, <1>33, <1>34, <1>35, <1>49 DEF Asks, AsDevice
<1>50. CASE Background
  BY <1>36, <1>37, <1>38, <1>39, <1>40, <1>41, <1>42, <1>43, <1>44, <1>45, <1>50 DEF Background
<1> QED BY <1>46, <1>47, <1>48, <1>49, <1>50 DEF Next

-----------------------------------------------------------------------------
(* The invariant and the theorems *)

(* At first nobody is bound to anything. *)
LEMMA InitInv == Init => IInv
<1> SUFFICES ASSUME Init PROVE IInv
  OBVIOUS
<1> USE PresenceAssumption DEF Init
<1>1. TypeOK
  <2>1. /\ pc \in [Clients -> Pcs]
        /\ mode \in [Clients -> {"none", "register", "rebind", "leave", "move", "stale", "logout"}]
    BY DEF Pcs
  <2>2. sess \in [Sids -> [st : {"none", "live", "ended"}, trunk : Trunks \cup {None}, owner : Clients \cup {None}]]
    BY DEF NoSession
  <2>3. /\ lease \in [Trunks -> {"free", "here", "other"}] /\ worker \in [Trunks -> {"none", "running", "returned"}]
        /\ refresh \in [Trunks -> {"idle", "wire", "worker"}]
    OBVIOUS
  <2>4. /\ open \in [Clients -> BOOLEAN] /\ need \in [Clients -> BOOLEAN] /\ failed \in [Clients -> BOOLEAN]
        /\ owned \in [Trunks -> BOOLEAN] /\ auto \in [Trunks -> BOOLEAN]
    OBVIOUS
  <2>5. /\ ready \in [Clients -> Trunks \cup {None}] /\ resolved \in [Clients -> Trunks \cup {None}]
        /\ at \in [Clients -> Trunks \cup {None}] /\ next \in [Clients -> Trunks \cup {None}]
        /\ bound \in [Trunks -> SUBSET Clients] /\ opLock \in [Trunks -> Clients \cup {None}]
    OBVIOUS
  <2>6. /\ todo \in [Clients -> SUBSET Sids] /\ stale \in [Clients -> SUBSET Trunks]
        /\ sibling \in [Clients -> SUBSET Trunks]
        /\ binding \subseteq {Contact[t] : t \in Trunks}
        /\ notify \in [Trunks -> {Subject[c] : c \in Devices} \cup {None}]
        /\ renew \subseteq Trunks /\ renewed \in (Trunks \X BOOLEAN) \cup {None} /\ kept \subseteq Sids
    OBVIOUS
  <2> HIDE DEF Init
  <2> QED BY <2>1, <2>2, <2>3, <2>4, <2>5, <2>6 DEF TypeOK
<1>2. Apart BY DEF Apart, Clients
<1>3. OnCourse BY DEF OnCourse, WorkPcs, HoldPcs, Undoing
<1>4. LockHeld BY DEF LockHeld, Holds, HoldPcs
<1>5. BoundIsResolved BY DEF BoundIsResolved, Clients
<1>6. NoneDestroyed BY DEF NoneDestroyed
<1>7. HasLease BY DEF HasLease, Entitled, Promised, Clients, Trunks
<1>8. Spared BY DEF Spared, SweepSparesReplacement, Clients
<1> QED BY <1>1, <1>2, <1>3, <1>4, <1>5, <1>6, <1>7, <1>8 DEF IInv

(* No handler and no background goroutine breaks the invariant. *)
LEMMA StepInv == IInv /\ [Next]_vars => IInv'
<1> SUFFICES ASSUME IInv, [Next]_vars PROVE IInv'
  OBVIOUS
<1>1. /\ TypeOK /\ Apart /\ OnCourse /\ LockHeld /\ BoundIsResolved
      /\ NoneDestroyed /\ HasLease /\ Spared
  BY DEF IInv
<1>2. TypeOK' BY <1>1, TypeStep
<1>3. Apart' BY <1>1, ApartStep
<1>4. OnCourse' BY <1>1, OnCourseStep
<1>5. LockHeld' BY <1>1, LockHeldStep
<1>6. BoundIsResolved' BY <1>1, BoundIsResolvedStep
<1>7. NoneDestroyed' BY <1>1, NoneDestroyedStep
<1>8. HasLease' BY <1>1, HasLeaseStep
<1>9. Spared' BY <1>1, SparedStep
<1> QED BY <1>2, <1>3, <1>4, <1>5, <1>6, <1>7, <1>8, <1>9 DEF IInv

(* The invariant holds whatever sockets, timers, the registrar and other
   gateways do. *)
THEOREM Invariance == Spec => []IInv
BY InitInv, StepInv, PTL DEF Spec

(* Type correctness of the server's maps, the trunk manager's and the table. *)
THEOREM TypeCorrect == Spec => []TypeOK
<1>1. IInv => TypeOK BY DEF IInv
<1> QED BY <1>1, Invariance, PTL

(* An agent that was told trunk_resolved is on a trunk this gateway owns,
   however the cleanup of older sockets, rebinding agents, refused REGISTERs
   and late refreshes interleave with its agent_register. *)
THEOREM ReadyAgentsOwned == Spec => []ReadyOwned
<1>1. IInv => ReadyOwned
  <2> SUFFICES ASSUME IInv, NEW c \in Agents, ready[c] # None
               PROVE  (~Peers => owned[ready[c]]) /\ (Quiet => lease[ready[c]] = "here")
    BY DEF ReadyOwned
  <2>1. ready[c] \in AgentTrunks
    BY PresenceAssumption DEF IInv, TypeOK, Apart, BoundIsResolved, Clients
  <2>2. ~Peers => owned[ready[c]]
    BY <2>1 DEF IInv, HasLease, Entitled, Promised
  <2> QED BY <2>1, <2>2 DEF IInv, HasLease, Quiet, Trunks
<1> QED BY <1>1, Invariance, PTL

(* No cleanup of an older socket ends a call that a replacement made while it
   stayed bound to the trunk, whoever takes leases. *)
THEOREM ReplacementSpared == Spec => []SweepSparesReplacement
<1>1. IInv => SweepSparesReplacement BY DEF IInv, Spared
<1> QED BY <1>1, Invariance, PTL

(* No agent that has gone is counted on a trunk, so its registration can go. *)
THEOREM GoneAgentsUnbound == Spec => []AgentsUnbound
<1>1. IInv => AgentsUnbound
  BY PresenceAssumption DEF IInv, AgentsUnbound, BoundIsResolved, OnCourse, Clients, Trunks
<1> QED BY <1>1, Invariance, PTL

(* Registering and unregistering one trunk exclude each other. *)
THEOREM OperationsExclude == Spec => []LockHeld
<1>1. IInv => LockHeld BY DEF IInv
<1> QED BY <1>1, Invariance, PTL

-----------------------------------------------------------------------------
(* When every REGISTER is accepted, no worker refreshes, no lease is renewed or
   taken and no other trunk has an agent trunk's Contact, an agent trunk is
   registered altogether or not at all once its operation is over. *)

Undisturbed ==
  /\ ~Refresh /\ ~Heartbeat /\ ~Faults /\ ~Peers
  /\ \A t \in AgentTrunks : \A u \in Trunks \ {t} : Contact[u] # Contact[t]

Off(t) == ~owned[t] /\ lease[t] = "free" /\ ~auto[t] /\ worker[t] = "none" /\ Contact[t] \notin binding
Settled(t) == Registered(t) \/ Off(t)

(* What else could touch a trunk does not. *)
Nobody ==
  /\ \A t \in Trunks : refresh[t] = "idle" /\ lease[t] # "other"
  /\ renew = {} /\ renewed = None
  /\ \A c \in Clients : ~failed[c] /\ pc[c] # "drop" /\ sibling[c] \cap AgentTrunks = {}

Whole == \A t \in AgentTrunks : opLock[t] = None => Settled(t)

(* How far an operation on t has come, at each of its steps *)
Phase(p, m, t) ==
  /\ p \in {"lease", "unlock", "clear", "snapshot", "recheck", "sweep"} => Settled(t)
  /\ p = "unlock" /\ m = "register" => Registered(t)
  /\ p = "wire" => /\ owned[t] /\ lease[t] = "here" /\ auto[t]
                   /\ IF Contact[t] \in binding THEN worker[t] = "running" ELSE worker[t] = "none"
  /\ p = "worker" => owned[t] /\ lease[t] = "here" /\ auto[t] /\ Contact[t] \in binding
  /\ p \in {"contact", "expire", "release"} => ~owned[t] /\ ~auto[t] /\ worker[t] = "none"
  /\ p = "release" => Contact[t] \notin binding
  /\ p = "repair" => Off(t)
  /\ p \notin {"keep", "keepDone"}

Phases == \A c \in Agents : Phase(pc[c], mode[c], at[c])

PromisedRegistered == \A a \in Agents, t \in AgentTrunks : Promised(a, t) => Registered(t)

(* c will see to it that t is unregistered if nobody is bound to it. *)
Cleans(c, t) ==
  /\ at[c] = t
  /\ pc[c] \in Undoing \/ (pc[c] = "hangup" /\ mode[c] = "leave")

(* What is not off has somebody bound to it, or somebody who cleans up. *)
Resting(t) == Off(t) /\ \A c \in Agents : at[c] = t => pc[c] # "lease"
Wanted(t) == bound[t] # {} \/ \E c \in Agents : Cleans(c, t)
Attended == \A t \in AgentTrunks : Resting(t) \/ Wanted(t)

TrunkInv == Nobody /\ Whole /\ Phases /\ PromisedRegistered /\ Attended
UndisturbedKept == Undisturbed => TrunkInv


(* Nothing else comes to touch a trunk. *)
LEMMA NobodyStep ==
  ASSUME TypeOK, Apart, OnCourse, LockHeld, BoundIsResolved, NoneDestroyed, Undisturbed, Nobody,
         [Next]_vars
  PROVE  Nobody'
<1> USE PresenceAssumption DEF Goto, connVars, workVars, regVars, bgVars, callVars
<1>1. ASSUME NEW c \in Clients, Unlock(c) PROVE Nobody'
  BY <1>1 DEF Undisturbed, Nobody, TypeOK, OnCourse, Undoing, WorkPcs, HoldPcs, Unlock,
      AfterLock
<1>2. ASSUME NEW c \in Clients, RegLease(c) PROVE Nobody'
  BY <1>2 DEF Undisturbed, Nobody, TypeOK, OnCourse, Undoing, WorkPcs, HoldPcs, RegLease
<1>3. ASSUME NEW c \in Clients, RegSend(c) PROVE Nobody'
  BY <1>3 DEF Undisturbed, Nobody, TypeOK, OnCourse, Undoing, WorkPcs, HoldPcs, RegSend,
      Accepted, Refused
<1>4. ASSUME NEW c \in Clients, RegDone(c) PROVE Nobody'
  BY <1>4 DEF Undisturbed, Nobody, TypeOK, OnCourse, Undoing, WorkPcs, HoldPcs, RegDone
<1>5. ASSUME NEW c \in Clients, Tell(c) PROVE Nobody'
  BY <1>5 DEF Undisturbed, Nobody, TypeOK, OnCourse, Undoing, WorkPcs, HoldPcs, Tell
<1>6. ASSUME NEW c \in Clients, Drop(c) PROVE Nobody'
  BY <1>6 DEF Undisturbed, Nobody, TypeOK, OnCourse, Undoing, WorkPcs, HoldPcs, Drop, Unbind
<1>7. ASSUME NEW c \in Clients, Clear(c) PROVE Nobody'
  BY <1>7 DEF Undisturbed, Nobody, TypeOK, OnCourse, Undoing, WorkPcs, HoldPcs, Clear
<1>8. ASSUME NEW c \in Clients, ChooseContact(c) PROVE Nobody'
  BY <1>8 DEF Undisturbed, Nobody, TypeOK, OnCourse, Undoing, WorkPcs, HoldPcs, ChooseContact,
      Siblings
<1>9. ASSUME NEW c \in Clients, KeepSend(c) PROVE Nobody'
  BY <1>9 DEF Undisturbed, Nobody, TypeOK, OnCourse, Undoing, WorkPcs, HoldPcs, KeepSend,
      Accepted, Refused, KeepNext
<1>10. ASSUME NEW c \in Clients, KeepDone(c) PROVE Nobody'
  BY <1>10 DEF Undisturbed, Nobody, TypeOK, OnCourse, Undoing, WorkPcs, HoldPcs, KeepDone,
      KeepNext
<1>11. ASSUME NEW c \in Clients, Expire(c) PROVE Nobody'
  BY <1>11 DEF Undisturbed, Nobody, TypeOK, OnCourse, Undoing, WorkPcs, HoldPcs, Expire
<1>12. ASSUME NEW c \in Clients, Release(c) PROVE Nobody'
  BY <1>12 DEF Undisturbed, Nobody, TypeOK, OnCourse, Undoing, WorkPcs, HoldPcs, Release
<1>13. ASSUME NEW c \in Clients, Leave(c) PROVE Nobody'
  BY <1>13 DEF Undisturbed, Nobody, TypeOK, OnCourse, Undoing, WorkPcs, HoldPcs, Leave, Unbind,
      LastOn, Owned
<1>14. ASSUME NEW c \in Clients, Hangup(c) PROVE Nobody'
  BY <1>14 DEF Undisturbed, Nobody, TypeOK, OnCourse, Undoing, WorkPcs, HoldPcs, Hangup, EndOne
<1>15. ASSUME NEW c \in Clients, HungUp(c) PROVE Nobody'
  BY <1>15 DEF Undisturbed, Nobody, TypeOK, OnCourse, Undoing, WorkPcs, HoldPcs, HungUp
<1>16. ASSUME NEW c \in Clients, Snapshot(c) PROVE Nobody'
  BY <1>16 DEF Undisturbed, Nobody, TypeOK, OnCourse, Undoing, WorkPcs, HoldPcs, Snapshot,
      OnTrunk
<1>17. ASSUME NEW c \in Clients, Recheck(c) PROVE Nobody'
  BY <1>17 DEF Undisturbed, Nobody, TypeOK, OnCourse, Undoing, WorkPcs, HoldPcs, Recheck, InUse
<1>18. ASSUME NEW c \in Clients, Sweep(c) PROVE Nobody'
  BY <1>18 DEF Undisturbed, Nobody, TypeOK, OnCourse, Undoing, WorkPcs, HoldPcs, Sweep, EndOne
<1>19. ASSUME NEW c \in Clients, Swept(c) PROVE Nobody'
  BY <1>19 DEF Undisturbed, Nobody, TypeOK, OnCourse, Undoing, WorkPcs, HoldPcs, Swept, InUse
<1>20. ASSUME NEW c \in Clients, Repair(c) PROVE Nobody'
  BY <1>20 DEF Undisturbed, Nobody, TypeOK, OnCourse, Undoing, WorkPcs, HoldPcs, Repair, InUse
<1>21. ASSUME NEW c \in Clients, ListStale(c) PROVE Nobody'
  BY <1>21 DEF Undisturbed, Nobody, TypeOK, OnCourse, Undoing, WorkPcs, HoldPcs, ListStale,
      StaleOf
<1>22. ASSUME NEW c \in Clients, BindDevice(c) PROVE Nobody'
  BY <1>22 DEF Undisturbed, Nobody, TypeOK, OnCourse, Undoing, WorkPcs, HoldPcs, BindDevice,
      Bind, LastOn
<1>23. ASSUME NEW c \in Clients, Forget(c) PROVE Nobody'
  BY <1>23 DEF Undisturbed, Nobody, TypeOK, OnCourse, Undoing, WorkPcs, HoldPcs, Forget, Owned
<1>24. ASSUME NEW c \in Clients, LoggedOut(c) PROVE Nobody'
  BY <1>24 DEF Undisturbed, Nobody, TypeOK, OnCourse, Undoing, WorkPcs, HoldPcs, LoggedOut,
      Unbind
<1>25. ASSUME NEW c \in Clients, TakeToRegister(c) PROVE Nobody'
  BY <1>25 DEF Undisturbed, Nobody, TypeOK, OnCourse, Undoing, WorkPcs, HoldPcs, TakeToRegister,
      MustRegister, Take
<1>26. ASSUME NEW c \in Clients, TakeToClean(c) PROVE Nobody'
  BY <1>26 DEF Undisturbed, Nobody, TypeOK, OnCourse, Undoing, WorkPcs, HoldPcs, TakeToClean,
      InUse, Take, AfterLock
<1>27. ASSUME NEW c \in Clients, ReleaseStale(c) PROVE Nobody'
  BY <1>27 DEF Undisturbed, Nobody, TypeOK, OnCourse, Undoing, WorkPcs, HoldPcs, ReleaseStale,
      TakeToRelease, Take
<1>28. ASSUME NEW c \in Clients, Move(c) PROVE Nobody'
  BY <1>28 DEF Undisturbed, Nobody, TypeOK, OnCourse, Undoing, WorkPcs, HoldPcs, Move,
      TakeToRelease, Take
<1>29. ASSUME NEW c \in Clients, TakeToLogout(c) PROVE Nobody'
  BY <1>29 DEF Undisturbed, Nobody, TypeOK, OnCourse, Undoing, WorkPcs, HoldPcs, TakeToLogout,
      UsedByOthers, Take
<1>30. ASSUME NEW c \in Clients, NEW t \in Trunks, AgentRegister(c, t) PROVE Nobody'
  BY <1>30 DEF Undisturbed, Nobody, TypeOK, OnCourse, Undoing, WorkPcs, HoldPcs, AgentRegister,
      Bind, LastOn
<1>31. ASSUME NEW c \in Clients, NEW t \in Trunks, DeviceRegister(c, t) PROVE Nobody'
  BY <1>31 DEF Undisturbed, Nobody, TypeOK, OnCourse, Undoing, WorkPcs, HoldPcs, DeviceRegister,
      Notify
<1>32. ASSUME NEW c \in Clients, Unregister(c) PROVE Nobody'
  BY <1>32 DEF Undisturbed, Nobody, TypeOK, OnCourse, Undoing, WorkPcs, HoldPcs, Unregister
<1>33. ASSUME NEW c \in Clients, CallNotReady(c) PROVE Nobody'
  BY <1>33 DEF Undisturbed, Nobody, TypeOK, OnCourse, Undoing, WorkPcs, HoldPcs, CallNotReady
<1>34. ASSUME NEW c \in Clients, SocketCloses(c) PROVE Nobody'
  BY <1>34 DEF Undisturbed, Nobody, TypeOK, OnCourse, Undoing, WorkPcs, HoldPcs, SocketCloses
<1>35. ASSUME NEW c \in Clients, NEW s \in Sids, Call(c, s) PROVE Nobody'
  BY <1>35 DEF Undisturbed, Nobody, TypeOK, OnCourse, Undoing, WorkPcs, HoldPcs, Call, NoSession
<1>36. ASSUME NEW t \in Trunks, RefreshTick(t) PROVE Nobody'
  BY <1>36 DEF Undisturbed, Nobody, TypeOK, OnCourse, Undoing, WorkPcs, HoldPcs, RefreshTick
<1>37. ASSUME NEW t \in Trunks, RefreshSend(t) PROVE Nobody'
  BY <1>37 DEF Undisturbed, Nobody, TypeOK, OnCourse, Undoing, WorkPcs, HoldPcs, RefreshSend,
      Accepted, Refused
<1>38. ASSUME NEW t \in Trunks, RefreshDone(t) PROVE Nobody'
  BY <1>38 DEF Undisturbed, Nobody, TypeOK, OnCourse, Undoing, WorkPcs, HoldPcs, RefreshDone
<1>39. ASSUME NEW t \in Trunks, RenewLease(t) PROVE Nobody'
  BY <1>39 DEF Undisturbed, Nobody, TypeOK, OnCourse, Undoing, WorkPcs, HoldPcs, RenewLease
<1>40. ASSUME NEW t \in Trunks, PeerTakes(t) PROVE Nobody'
  BY <1>40 DEF Undisturbed, Nobody, TypeOK, OnCourse, Undoing, WorkPcs, HoldPcs, PeerTakes
<1>41. ASSUME NEW t \in Trunks, PeerReleases(t) PROVE Nobody'
  BY <1>41 DEF Undisturbed, Nobody, TypeOK, OnCourse, Undoing, WorkPcs, HoldPcs, PeerReleases
<1>42. CASE HeartbeatTick
  BY <1>42 DEF Undisturbed, Nobody, TypeOK, OnCourse, Undoing, WorkPcs, HoldPcs, HeartbeatTick
<1>43. CASE Renewed
  BY <1>43 DEF Undisturbed, Nobody, TypeOK, OnCourse, Undoing, WorkPcs, HoldPcs, Renewed
<1>44. ASSUME NEW s \in Sids, CallEnds(s) PROVE Nobody'
  BY <1>44 DEF Undisturbed, Nobody, TypeOK, OnCourse, Undoing, WorkPcs, HoldPcs, CallEnds
<1>45. ASSUME NEW t \in Trunks, NEW s \in Sids, Ring(t, s) PROVE Nobody'
  BY <1>45 DEF Undisturbed, Nobody, TypeOK, OnCourse, Undoing, WorkPcs, HoldPcs, Ring, NoSession
<1>46. CASE UNCHANGED vars
  BY <1>46 DEF vars, Nobody
<1> QED
  BY <1>1, <1>2, <1>3, <1>4, <1>5, <1>6, <1>7, <1>8, <1>9, <1>10, <1>11, <1>12, <1>13, <1>14,
      <1>15, <1>16, <1>17, <1>18, <1>19, <1>20, <1>21, <1>22, <1>23, <1>24, <1>25, <1>26, <1>27,
      <1>28, <1>29, <1>30, <1>31, <1>32, <1>33, <1>34, <1>35, <1>36, <1>37, <1>38, <1>39, <1>40,
      <1>41, <1>42, <1>43, <1>44, <1>45, <1>46 DEF Next, Works, Waits, Asks, Background, Keeps,
      AsDevice

(* A trunk whose lock is free is registered or not. *)
LEMMA WholeStep ==
  ASSUME TypeOK, Apart, OnCourse, LockHeld, BoundIsResolved, NoneDestroyed, Undisturbed, Nobody,
         Whole, Phases, [Next]_vars
  PROVE  Whole'
<1> USE PresenceAssumption DEF Goto, connVars, workVars, regVars, bgVars, callVars
<1>1. ASSUME NEW c \in Clients, Unlock(c) PROVE Whole'
  BY <1>1 DEF Undisturbed, Nobody, Whole, Phases, Phase, Settled, Registered, Off, LockHeld,
      Holds, HoldPcs, WorkPcs, TypeOK, Apart, OnCourse, Clients, Trunks, Unlock, AfterLock
<1>2. ASSUME NEW c \in Clients, RegLease(c) PROVE Whole'
  BY <1>2 DEF Undisturbed, Nobody, Whole, Phases, Phase, Settled, Registered, Off, LockHeld,
      Holds, HoldPcs, WorkPcs, TypeOK, Apart, OnCourse, Clients, Trunks, RegLease
<1>3. ASSUME NEW c \in Clients, RegSend(c) PROVE Whole'
  BY <1>3 DEF Undisturbed, Nobody, Whole, Phases, Phase, Settled, Registered, Off, LockHeld,
      Holds, HoldPcs, WorkPcs, TypeOK, Apart, OnCourse, Clients, Trunks, RegSend, Accepted,
      Refused
<1>4. ASSUME NEW c \in Clients, RegDone(c) PROVE Whole'
  BY <1>4 DEF Undisturbed, Nobody, Whole, Phases, Phase, Settled, Registered, Off, LockHeld,
      Holds, HoldPcs, WorkPcs, TypeOK, Apart, OnCourse, Clients, Trunks, RegDone
<1>5. ASSUME NEW c \in Clients, Tell(c) PROVE Whole'
  BY <1>5 DEF Undisturbed, Nobody, Whole, Phases, Phase, Settled, Registered, Off, LockHeld,
      Holds, HoldPcs, WorkPcs, TypeOK, Apart, OnCourse, Clients, Trunks, Tell
<1>6. ASSUME NEW c \in Clients, Drop(c) PROVE Whole'
  BY <1>6 DEF Undisturbed, Nobody, Whole, Phases, Phase, Settled, Registered, Off, LockHeld,
      Holds, HoldPcs, WorkPcs, TypeOK, Apart, OnCourse, Clients, Trunks, Drop, Unbind
<1>7. ASSUME NEW c \in Clients, Clear(c) PROVE Whole'
  BY <1>7 DEF Undisturbed, Nobody, Whole, Phases, Phase, Settled, Registered, Off, LockHeld,
      Holds, HoldPcs, WorkPcs, TypeOK, Apart, OnCourse, Clients, Trunks, Clear
<1>8. ASSUME NEW c \in Clients, ChooseContact(c) PROVE Whole'
  BY <1>8 DEF Undisturbed, Nobody, Whole, Phases, Phase, Settled, Registered, Off, LockHeld,
      Holds, HoldPcs, WorkPcs, TypeOK, Apart, OnCourse, Clients, Trunks, ChooseContact, Siblings
<1>9. ASSUME NEW c \in Clients, KeepSend(c) PROVE Whole'
  <2>1. c \notin Agents
    BY <1>9 DEF Phases, Phase, KeepSend
  <2>2. at[c] \in DeviceTrunks /\ Contact[at[c]] \notin {Contact[t] : t \in AgentTrunks}
    BY <1>9, <2>1 DEF Apart, OnCourse, WorkPcs, HoldPcs, Clients, Trunks, Undisturbed, KeepSend
  <2>3. /\ owned' = owned /\ lease' = lease /\ auto' = auto /\ worker' = worker /\ opLock' = opLock
        /\ \A t \in AgentTrunks : Contact[t] \in binding' <=> Contact[t] \in binding
    BY <1>9, <2>2 DEF KeepSend, Accepted, Refused, Undisturbed
  <2> QED
    BY <2>3 DEF Whole, Settled, Registered, Off
<1>10. ASSUME NEW c \in Clients, KeepDone(c) PROVE Whole'
  <2>1. c \notin Agents
    BY <1>10 DEF Phases, Phase, KeepDone
  <2>2. at[c] \in DeviceTrunks /\ Contact[at[c]] \notin {Contact[t] : t \in AgentTrunks}
    BY <1>10, <2>1 DEF Apart, OnCourse, WorkPcs, HoldPcs, Clients, Trunks, Undisturbed, KeepDone
  <2>3. /\ owned' = owned /\ lease' = lease /\ auto' = auto /\ binding' = binding /\ opLock' = opLock
        /\ \A t \in AgentTrunks : worker'[t] = worker[t]
    BY <1>10 DEF KeepDone, Nobody, TypeOK
  <2> QED
    BY <2>3 DEF Whole, Settled, Registered, Off
<1>11. ASSUME NEW c \in Clients, Expire(c) PROVE Whole'
  BY <1>11 DEF Undisturbed, Nobody, Whole, Phases, Phase, Settled, Registered, Off, LockHeld,
      Holds, HoldPcs, WorkPcs, TypeOK, Apart, OnCourse, Clients, Trunks, Expire
<1>12. ASSUME NEW c \in Clients, Release(c) PROVE Whole'
  BY <1>12 DEF Undisturbed, Nobody, Whole, Phases, Phase, Settled, Registered, Off, LockHeld,
      Holds, HoldPcs, WorkPcs, TypeOK, Apart, OnCourse, Clients, Trunks, Release
<1>13. ASSUME NEW c \in Clients, Leave(c) PROVE Whole'
  BY <1>13 DEF Undisturbed, Nobody, Whole, Phases, Phase, Settled, Registered, Off, LockHeld,
      Holds, HoldPcs, WorkPcs, TypeOK, Apart, OnCourse, Clients, Trunks, Leave, Unbind, LastOn,
      Owned
<1>14. ASSUME NEW c \in Clients, Hangup(c) PROVE Whole'
  BY <1>14 DEF Undisturbed, Nobody, Whole, Phases, Phase, Settled, Registered, Off, LockHeld,
      Holds, HoldPcs, WorkPcs, TypeOK, Apart, OnCourse, Clients, Trunks, Hangup, EndOne
<1>15. ASSUME NEW c \in Clients, HungUp(c) PROVE Whole'
  BY <1>15 DEF Undisturbed, Nobody, Whole, Phases, Phase, Settled, Registered, Off, LockHeld,
      Holds, HoldPcs, WorkPcs, TypeOK, Apart, OnCourse, Clients, Trunks, HungUp
<1>16. ASSUME NEW c \in Clients, Snapshot(c) PROVE Whole'
  BY <1>16 DEF Undisturbed, Nobody, Whole, Phases, Phase, Settled, Registered, Off, LockHeld,
      Holds, HoldPcs, WorkPcs, TypeOK, Apart, OnCourse, Clients, Trunks, Snapshot, OnTrunk
<1>17. ASSUME NEW c \in Clients, Recheck(c) PROVE Whole'
  BY <1>17 DEF Undisturbed, Nobody, Whole, Phases, Phase, Settled, Registered, Off, LockHeld,
      Holds, HoldPcs, WorkPcs, TypeOK, Apart, OnCourse, Clients, Trunks, Recheck, InUse
<1>18. ASSUME NEW c \in Clients, Sweep(c) PROVE Whole'
  BY <1>18 DEF Undisturbed, Nobody, Whole, Phases, Phase, Settled, Registered, Off, LockHeld,
      Holds, HoldPcs, WorkPcs, TypeOK, Apart, OnCourse, Clients, Trunks, Sweep, EndOne
<1>19. ASSUME NEW c \in Clients, Swept(c) PROVE Whole'
  BY <1>19 DEF Undisturbed, Nobody, Whole, Phases, Phase, Settled, Registered, Off, LockHeld,
      Holds, HoldPcs, WorkPcs, TypeOK, Apart, OnCourse, Clients, Trunks, Swept, InUse
<1>20. ASSUME NEW c \in Clients, Repair(c) PROVE Whole'
  BY <1>20 DEF Undisturbed, Nobody, Whole, Phases, Phase, Settled, Registered, Off, LockHeld,
      Holds, HoldPcs, WorkPcs, TypeOK, Apart, OnCourse, Clients, Trunks, Repair, InUse
<1>21. ASSUME NEW c \in Clients, ListStale(c) PROVE Whole'
  BY <1>21 DEF Undisturbed, Nobody, Whole, Phases, Phase, Settled, Registered, Off, LockHeld,
      Holds, HoldPcs, WorkPcs, TypeOK, Apart, OnCourse, Clients, Trunks, ListStale, StaleOf
<1>22. ASSUME NEW c \in Clients, BindDevice(c) PROVE Whole'
  BY <1>22 DEF Undisturbed, Nobody, Whole, Phases, Phase, Settled, Registered, Off, LockHeld,
      Holds, HoldPcs, WorkPcs, TypeOK, Apart, OnCourse, Clients, Trunks, BindDevice, Bind,
      LastOn
<1>23. ASSUME NEW c \in Clients, Forget(c) PROVE Whole'
  BY <1>23 DEF Undisturbed, Nobody, Whole, Phases, Phase, Settled, Registered, Off, LockHeld,
      Holds, HoldPcs, WorkPcs, TypeOK, Apart, OnCourse, Clients, Trunks, Forget, Owned
<1>24. ASSUME NEW c \in Clients, LoggedOut(c) PROVE Whole'
  BY <1>24 DEF Undisturbed, Nobody, Whole, Phases, Phase, Settled, Registered, Off, LockHeld,
      Holds, HoldPcs, WorkPcs, TypeOK, Apart, OnCourse, Clients, Trunks, LoggedOut, Unbind
<1>25. ASSUME NEW c \in Clients, TakeToRegister(c) PROVE Whole'
  BY <1>25 DEF Undisturbed, Nobody, Whole, Phases, Phase, Settled, Registered, Off, LockHeld,
      Holds, HoldPcs, WorkPcs, TypeOK, Apart, OnCourse, Clients, Trunks, TakeToRegister,
      MustRegister, Take
<1>26. ASSUME NEW c \in Clients, TakeToClean(c) PROVE Whole'
  BY <1>26 DEF Undisturbed, Nobody, Whole, Phases, Phase, Settled, Registered, Off, LockHeld,
      Holds, HoldPcs, WorkPcs, TypeOK, Apart, OnCourse, Clients, Trunks, TakeToClean, InUse,
      Take, AfterLock
<1>27. ASSUME NEW c \in Clients, ReleaseStale(c) PROVE Whole'
  BY <1>27 DEF Undisturbed, Nobody, Whole, Phases, Phase, Settled, Registered, Off, LockHeld,
      Holds, HoldPcs, WorkPcs, TypeOK, Apart, OnCourse, Clients, Trunks, ReleaseStale,
      TakeToRelease, Take
<1>28. ASSUME NEW c \in Clients, Move(c) PROVE Whole'
  BY <1>28 DEF Undisturbed, Nobody, Whole, Phases, Phase, Settled, Registered, Off, LockHeld,
      Holds, HoldPcs, WorkPcs, TypeOK, Apart, OnCourse, Clients, Trunks, Move, TakeToRelease,
      Take
<1>29. ASSUME NEW c \in Clients, TakeToLogout(c) PROVE Whole'
  BY <1>29 DEF Undisturbed, Nobody, Whole, Phases, Phase, Settled, Registered, Off, LockHeld,
      Holds, HoldPcs, WorkPcs, TypeOK, Apart, OnCourse, Clients, Trunks, TakeToLogout,
      UsedByOthers, Take
<1>30. ASSUME NEW c \in Clients, NEW t \in Trunks, AgentRegister(c, t) PROVE Whole'
  BY <1>30 DEF Undisturbed, Nobody, Whole, Phases, Phase, Settled, Registered, Off, LockHeld,
      Holds, HoldPcs, WorkPcs, TypeOK, Apart, OnCourse, Clients, Trunks, AgentRegister, Bind,
      LastOn
<1>31. ASSUME NEW c \in Clients, NEW t \in Trunks, DeviceRegister(c, t) PROVE Whole'
  BY <1>31 DEF Undisturbed, Nobody, Whole, Phases, Phase, Settled, Registered, Off, LockHeld,
      Holds, HoldPcs, WorkPcs, TypeOK, Apart, OnCourse, Clients, Trunks, DeviceRegister, Notify
<1>32. ASSUME NEW c \in Clients, Unregister(c) PROVE Whole'
  BY <1>32 DEF Undisturbed, Nobody, Whole, Phases, Phase, Settled, Registered, Off, LockHeld,
      Holds, HoldPcs, WorkPcs, TypeOK, Apart, OnCourse, Clients, Trunks, Unregister
<1>33. ASSUME NEW c \in Clients, CallNotReady(c) PROVE Whole'
  BY <1>33 DEF Undisturbed, Nobody, Whole, Phases, Phase, Settled, Registered, Off, LockHeld,
      Holds, HoldPcs, WorkPcs, TypeOK, Apart, OnCourse, Clients, Trunks, CallNotReady
<1>34. ASSUME NEW c \in Clients, SocketCloses(c) PROVE Whole'
  BY <1>34 DEF Undisturbed, Nobody, Whole, Phases, Phase, Settled, Registered, Off, LockHeld,
      Holds, HoldPcs, WorkPcs, TypeOK, Apart, OnCourse, Clients, Trunks, SocketCloses
<1>35. ASSUME NEW c \in Clients, NEW s \in Sids, Call(c, s) PROVE Whole'
  BY <1>35 DEF Undisturbed, Nobody, Whole, Phases, Phase, Settled, Registered, Off, LockHeld,
      Holds, HoldPcs, WorkPcs, TypeOK, Apart, OnCourse, Clients, Trunks, Call, NoSession
<1>36. ASSUME NEW t \in Trunks, RefreshTick(t) PROVE Whole'
  BY <1>36 DEF Undisturbed, Nobody, Whole, Phases, Phase, Settled, Registered, Off, LockHeld,
      Holds, HoldPcs, WorkPcs, TypeOK, Apart, OnCourse, Clients, Trunks, RefreshTick
<1>37. ASSUME NEW t \in Trunks, RefreshSend(t) PROVE Whole'
  BY <1>37 DEF Undisturbed, Nobody, Whole, Phases, Phase, Settled, Registered, Off, LockHeld,
      Holds, HoldPcs, WorkPcs, TypeOK, Apart, OnCourse, Clients, Trunks, RefreshSend, Accepted,
      Refused
<1>38. ASSUME NEW t \in Trunks, RefreshDone(t) PROVE Whole'
  BY <1>38 DEF Undisturbed, Nobody, Whole, Phases, Phase, Settled, Registered, Off, LockHeld,
      Holds, HoldPcs, WorkPcs, TypeOK, Apart, OnCourse, Clients, Trunks, RefreshDone
<1>39. ASSUME NEW t \in Trunks, RenewLease(t) PROVE Whole'
  BY <1>39 DEF Undisturbed, Nobody, Whole, Phases, Phase, Settled, Registered, Off, LockHeld,
      Holds, HoldPcs, WorkPcs, TypeOK, Apart, OnCourse, Clients, Trunks, RenewLease
<1>40. ASSUME NEW t \in Trunks, PeerTakes(t) PROVE Whole'
  BY <1>40 DEF Undisturbed, Nobody, Whole, Phases, Phase, Settled, Registered, Off, LockHeld,
      Holds, HoldPcs, WorkPcs, TypeOK, Apart, OnCourse, Clients, Trunks, PeerTakes
<1>41. ASSUME NEW t \in Trunks, PeerReleases(t) PROVE Whole'
  BY <1>41 DEF Undisturbed, Nobody, Whole, Phases, Phase, Settled, Registered, Off, LockHeld,
      Holds, HoldPcs, WorkPcs, TypeOK, Apart, OnCourse, Clients, Trunks, PeerReleases
<1>42. CASE HeartbeatTick
  BY <1>42 DEF Undisturbed, Nobody, Whole, Phases, Phase, Settled, Registered, Off, LockHeld,
      Holds, HoldPcs, WorkPcs, TypeOK, Apart, OnCourse, Clients, Trunks, HeartbeatTick
<1>43. CASE Renewed
  BY <1>43 DEF Undisturbed, Nobody, Whole, Phases, Phase, Settled, Registered, Off, LockHeld,
      Holds, HoldPcs, WorkPcs, TypeOK, Apart, OnCourse, Clients, Trunks, Renewed
<1>44. ASSUME NEW s \in Sids, CallEnds(s) PROVE Whole'
  BY <1>44 DEF Undisturbed, Nobody, Whole, Phases, Phase, Settled, Registered, Off, LockHeld,
      Holds, HoldPcs, WorkPcs, TypeOK, Apart, OnCourse, Clients, Trunks, CallEnds
<1>45. ASSUME NEW t \in Trunks, NEW s \in Sids, Ring(t, s) PROVE Whole'
  BY <1>45 DEF Undisturbed, Nobody, Whole, Phases, Phase, Settled, Registered, Off, LockHeld,
      Holds, HoldPcs, WorkPcs, TypeOK, Apart, OnCourse, Clients, Trunks, Ring, NoSession
<1>46. CASE UNCHANGED vars
  BY <1>46 DEF vars, Whole, Settled, Registered, Off
<1> QED
  BY <1>1, <1>2, <1>3, <1>4, <1>5, <1>6, <1>7, <1>8, <1>9, <1>10, <1>11, <1>12, <1>13, <1>14,
      <1>15, <1>16, <1>17, <1>18, <1>19, <1>20, <1>21, <1>22, <1>23, <1>24, <1>25, <1>26, <1>27,
      <1>28, <1>29, <1>30, <1>31, <1>32, <1>33, <1>34, <1>35, <1>36, <1>37, <1>38, <1>39, <1>40,
      <1>41, <1>42, <1>43, <1>44, <1>45, <1>46 DEF Next, Works, Waits, Asks, Background, Keeps,
      AsDevice

(* An operation comes so far. *)
LEMMA PhasesStep ==
  ASSUME TypeOK, Apart, OnCourse, LockHeld, BoundIsResolved, NoneDestroyed, Undisturbed, Nobody,
         Whole, Phases, [Next]_vars
  PROVE  Phases'
<1> USE PresenceAssumption DEF Goto, connVars, workVars, regVars, bgVars, callVars
<1>1. ASSUME NEW c \in Clients, Unlock(c) PROVE Phases'
  BY <1>1, SMTT(60) DEF Undisturbed, Nobody, Whole, Phases, Phase, Settled, Registered, Off, LockHeld,
      Holds, HoldPcs, WorkPcs, Undoing, TypeOK, Apart, OnCourse, Clients, Trunks, Unlock,
      AfterLock
<1>2. ASSUME NEW c \in Clients, RegLease(c) PROVE Phases'
  BY <1>2 DEF Undisturbed, Nobody, Whole, Phases, Phase, Settled, Registered, Off, LockHeld,
      Holds, HoldPcs, WorkPcs, Undoing, TypeOK, Apart, OnCourse, Clients, Trunks, RegLease
<1>3. ASSUME NEW c \in Clients, RegSend(c) PROVE Phases'
  BY <1>3 DEF Undisturbed, Nobody, Whole, Phases, Phase, Settled, Registered, Off, LockHeld,
      Holds, HoldPcs, WorkPcs, Undoing, TypeOK, Apart, OnCourse, Clients, Trunks, RegSend,
      Accepted, Refused
<1>4. ASSUME NEW c \in Clients, RegDone(c) PROVE Phases'
  BY <1>4 DEF Undisturbed, Nobody, Whole, Phases, Phase, Settled, Registered, Off, LockHeld,
      Holds, HoldPcs, WorkPcs, Undoing, TypeOK, Apart, OnCourse, Clients, Trunks, RegDone
<1>5. ASSUME NEW c \in Clients, Tell(c) PROVE Phases'
  BY <1>5 DEF Undisturbed, Nobody, Whole, Phases, Phase, Settled, Registered, Off, LockHeld,
      Holds, HoldPcs, WorkPcs, Undoing, TypeOK, Apart, OnCourse, Clients, Trunks, Tell
<1>6. ASSUME NEW c \in Clients, Drop(c) PROVE Phases'
  BY <1>6 DEF Undisturbed, Nobody, Whole, Phases, Phase, Settled, Registered, Off, LockHeld,
      Holds, HoldPcs, WorkPcs, Undoing, TypeOK, Apart, OnCourse, Clients, Trunks, Drop, Unbind
<1>7. ASSUME NEW c \in Clients, Clear(c) PROVE Phases'
  BY <1>7 DEF Undisturbed, Nobody, Whole, Phases, Phase, Settled, Registered, Off, LockHeld,
      Holds, HoldPcs, WorkPcs, Undoing, TypeOK, Apart, OnCourse, Clients, Trunks, Clear
<1>8. ASSUME NEW c \in Clients, ChooseContact(c) PROVE Phases'
  BY <1>8 DEF Undisturbed, Nobody, Whole, Phases, Phase, Settled, Registered, Off, LockHeld,
      Holds, HoldPcs, WorkPcs, Undoing, TypeOK, Apart, OnCourse, Clients, Trunks, ChooseContact,
      Siblings
<1>9. ASSUME NEW c \in Clients, KeepSend(c) PROVE Phases'
  BY <1>9 DEF Undisturbed, Nobody, Whole, Phases, Phase, Settled, Registered, Off, LockHeld,
      Holds, HoldPcs, WorkPcs, Undoing, TypeOK, Apart, OnCourse, Clients, Trunks, KeepSend,
      Accepted, Refused, KeepNext
<1>10. ASSUME NEW c \in Clients, KeepDone(c) PROVE Phases'
  <2>1. c \notin Agents
    BY <1>10 DEF Phases, Phase, KeepDone
  <2>2. at[c] \in DeviceTrunks /\ Contact[at[c]] \notin {Contact[t] : t \in AgentTrunks}
    BY <1>10, <2>1 DEF Apart, OnCourse, WorkPcs, HoldPcs, Clients, Trunks, Undisturbed, KeepDone
  <2>3. /\ owned' = owned /\ lease' = lease /\ auto' = auto /\ binding' = binding /\ opLock' = opLock
        /\ \A t \in AgentTrunks : worker'[t] = worker[t]
    BY <1>10 DEF KeepDone, Nobody, TypeOK
  <2>4. \A a \in Agents : pc'[a] = pc[a] /\ at'[a] = at[a] /\ mode'[a] = mode[a]
    BY <1>10, <2>1 DEF KeepDone, KeepNext, TypeOK
  <2>5. \A a \in Agents : Phase(pc[a], mode[a], at[a])'
    <3> SUFFICES ASSUME NEW a \in Agents PROVE Phase(pc[a], mode[a], at[a])'
      OBVIOUS
    <3>1. Phase(pc[a], mode[a], at[a])
      BY DEF Phases
    <3>2. CASE pc[a] \in WorkPcs
      <4>1. at[a] \in AgentTrunks
        BY <3>2 DEF Apart, OnCourse, Clients
      <4>2. worker'[at[a]] = worker[at[a]]
        BY <4>1, <2>3
      <4> QED
        BY <3>1, <4>2, <2>3, <2>4 DEF Phase, Settled, Registered, Off
    <3>3. CASE pc[a] \notin WorkPcs
      BY <3>3, <2>4 DEF Phase, WorkPcs, HoldPcs
    <3> QED
      BY <3>2, <3>3
  <2> QED
    BY <2>5 DEF Phases
<1>11. ASSUME NEW c \in Clients, Expire(c) PROVE Phases'
  BY <1>11 DEF Undisturbed, Nobody, Whole, Phases, Phase, Settled, Registered, Off, LockHeld,
      Holds, HoldPcs, WorkPcs, Undoing, TypeOK, Apart, OnCourse, Clients, Trunks, Expire
<1>12. ASSUME NEW c \in Clients, Release(c) PROVE Phases'
  BY <1>12, SMTT(40) DEF Undisturbed, Nobody, Whole, Phases, Phase, Settled, Registered, Off, LockHeld,
      Holds, HoldPcs, WorkPcs, Undoing, TypeOK, Apart, OnCourse, Clients, Trunks, Release
<1>13. ASSUME NEW c \in Clients, Leave(c) PROVE Phases'
  <2>1. /\ \A d \in Agents : d # c => pc'[d] = pc[d] /\ mode'[d] = mode[d] /\ at'[d] = at[d]
        /\ c \in Agents => pc'[c] = "hangup"
    BY <1>13 DEF Leave, TypeOK, Clients
  <2>2. UNCHANGED <<owned, lease, auto, worker, binding>>
    BY <1>13 DEF Leave
  <2> QED
    BY <2>1, <2>2 DEF Phases, Phase, Settled, Registered, Off
<1>14. ASSUME NEW c \in Clients, Hangup(c) PROVE Phases'
  BY <1>14 DEF Undisturbed, Nobody, Whole, Phases, Phase, Settled, Registered, Off, LockHeld,
      Holds, HoldPcs, WorkPcs, Undoing, TypeOK, Apart, OnCourse, Clients, Trunks, Hangup, EndOne
<1>15. ASSUME NEW c \in Clients, HungUp(c) PROVE Phases'
  BY <1>15 DEF Undisturbed, Nobody, Whole, Phases, Phase, Settled, Registered, Off, LockHeld,
      Holds, HoldPcs, WorkPcs, Undoing, TypeOK, Apart, OnCourse, Clients, Trunks, HungUp
<1>16. ASSUME NEW c \in Clients, Snapshot(c) PROVE Phases'
  BY <1>16 DEF Undisturbed, Nobody, Whole, Phases, Phase, Settled, Registered, Off, LockHeld,
      Holds, HoldPcs, WorkPcs, Undoing, TypeOK, Apart, OnCourse, Clients, Trunks, Snapshot,
      OnTrunk
<1>17. ASSUME NEW c \in Clients, Recheck(c) PROVE Phases'
  BY <1>17 DEF Undisturbed, Nobody, Whole, Phases, Phase, Settled, Registered, Off, LockHeld,
      Holds, HoldPcs, WorkPcs, Undoing, TypeOK, Apart, OnCourse, Clients, Trunks, Recheck, InUse
<1>18. ASSUME NEW c \in Clients, Sweep(c) PROVE Phases'
  BY <1>18 DEF Undisturbed, Nobody, Whole, Phases, Phase, Settled, Registered, Off, LockHeld,
      Holds, HoldPcs, WorkPcs, Undoing, TypeOK, Apart, OnCourse, Clients, Trunks, Sweep, EndOne
<1>19. ASSUME NEW c \in Clients, Swept(c) PROVE Phases'
  BY <1>19 DEF Undisturbed, Nobody, Whole, Phases, Phase, Settled, Registered, Off, LockHeld,
      Holds, HoldPcs, WorkPcs, Undoing, TypeOK, Apart, OnCourse, Clients, Trunks, Swept, InUse
<1>20. ASSUME NEW c \in Clients, Repair(c) PROVE Phases'
  BY <1>20 DEF Undisturbed, Nobody, Whole, Phases, Phase, Settled, Registered, Off, LockHeld,
      Holds, HoldPcs, WorkPcs, Undoing, TypeOK, Apart, OnCourse, Clients, Trunks, Repair, InUse
<1>21. ASSUME NEW c \in Clients, ListStale(c) PROVE Phases'
  BY <1>21 DEF Undisturbed, Nobody, Whole, Phases, Phase, Settled, Registered, Off, LockHeld,
      Holds, HoldPcs, WorkPcs, Undoing, TypeOK, Apart, OnCourse, Clients, Trunks, ListStale,
      StaleOf
<1>22. ASSUME NEW c \in Clients, BindDevice(c) PROVE Phases'
  BY <1>22 DEF Undisturbed, Nobody, Whole, Phases, Phase, Settled, Registered, Off, LockHeld,
      Holds, HoldPcs, WorkPcs, Undoing, TypeOK, Apart, OnCourse, Clients, Trunks, BindDevice,
      Bind, LastOn
<1>23. ASSUME NEW c \in Clients, Forget(c) PROVE Phases'
  BY <1>23 DEF Undisturbed, Nobody, Whole, Phases, Phase, Settled, Registered, Off, LockHeld,
      Holds, HoldPcs, WorkPcs, Undoing, TypeOK, Apart, OnCourse, Clients, Trunks, Forget, Owned
<1>24. ASSUME NEW c \in Clients, LoggedOut(c) PROVE Phases'
  BY <1>24 DEF Undisturbed, Nobody, Whole, Phases, Phase, Settled, Registered, Off, LockHeld,
      Holds, HoldPcs, WorkPcs, Undoing, TypeOK, Apart, OnCourse, Clients, Trunks, LoggedOut,
      Unbind
<1>25. ASSUME NEW c \in Clients, TakeToRegister(c) PROVE Phases'
  BY <1>25 DEF Undisturbed, Nobody, Whole, Phases, Phase, Settled, Registered, Off, LockHeld,
      Holds, HoldPcs, WorkPcs, Undoing, TypeOK, Apart, OnCourse, Clients, Trunks,
      TakeToRegister, MustRegister, Take
<1>26. ASSUME NEW c \in Clients, TakeToClean(c) PROVE Phases'
  BY <1>26 DEF Undisturbed, Nobody, Whole, Phases, Phase, Settled, Registered, Off, LockHeld,
      Holds, HoldPcs, WorkPcs, Undoing, TypeOK, Apart, OnCourse, Clients, Trunks, TakeToClean,
      InUse, Take, AfterLock
<1>27. ASSUME NEW c \in Clients, ReleaseStale(c) PROVE Phases'
  BY <1>27 DEF Undisturbed, Nobody, Whole, Phases, Phase, Settled, Registered, Off, LockHeld,
      Holds, HoldPcs, WorkPcs, Undoing, TypeOK, Apart, OnCourse, Clients, Trunks, ReleaseStale,
      TakeToRelease, Take
<1>28. ASSUME NEW c \in Clients, Move(c) PROVE Phases'
  BY <1>28 DEF Undisturbed, Nobody, Whole, Phases, Phase, Settled, Registered, Off, LockHeld,
      Holds, HoldPcs, WorkPcs, Undoing, TypeOK, Apart, OnCourse, Clients, Trunks, Move,
      TakeToRelease, Take
<1>29. ASSUME NEW c \in Clients, TakeToLogout(c) PROVE Phases'
  BY <1>29 DEF Undisturbed, Nobody, Whole, Phases, Phase, Settled, Registered, Off, LockHeld,
      Holds, HoldPcs, WorkPcs, Undoing, TypeOK, Apart, OnCourse, Clients, Trunks, TakeToLogout,
      UsedByOthers, Take
<1>30. ASSUME NEW c \in Clients, NEW t \in Trunks, AgentRegister(c, t) PROVE Phases'
  BY <1>30 DEF Undisturbed, Nobody, Whole, Phases, Phase, Settled, Registered, Off, LockHeld,
      Holds, HoldPcs, WorkPcs, Undoing, TypeOK, Apart, OnCourse, Clients, Trunks, AgentRegister,
      Bind, LastOn
<1>31. ASSUME NEW c \in Clients, NEW t \in Trunks, DeviceRegister(c, t) PROVE Phases'
  BY <1>31 DEF Undisturbed, Nobody, Whole, Phases, Phase, Settled, Registered, Off, LockHeld,
      Holds, HoldPcs, WorkPcs, Undoing, TypeOK, Apart, OnCourse, Clients, Trunks,
      DeviceRegister, Notify
<1>32. ASSUME NEW c \in Clients, Unregister(c) PROVE Phases'
  BY <1>32 DEF Undisturbed, Nobody, Whole, Phases, Phase, Settled, Registered, Off, LockHeld,
      Holds, HoldPcs, WorkPcs, Undoing, TypeOK, Apart, OnCourse, Clients, Trunks, Unregister
<1>33. ASSUME NEW c \in Clients, CallNotReady(c) PROVE Phases'
  BY <1>33 DEF Undisturbed, Nobody, Whole, Phases, Phase, Settled, Registered, Off, LockHeld,
      Holds, HoldPcs, WorkPcs, Undoing, TypeOK, Apart, OnCourse, Clients, Trunks, CallNotReady
<1>34. ASSUME NEW c \in Clients, SocketCloses(c) PROVE Phases'
  BY <1>34 DEF Undisturbed, Nobody, Whole, Phases, Phase, Settled, Registered, Off, LockHeld,
      Holds, HoldPcs, WorkPcs, Undoing, TypeOK, Apart, OnCourse, Clients, Trunks, SocketCloses
<1>35. ASSUME NEW c \in Clients, NEW s \in Sids, Call(c, s) PROVE Phases'
  BY <1>35 DEF Undisturbed, Nobody, Whole, Phases, Phase, Settled, Registered, Off, LockHeld,
      Holds, HoldPcs, WorkPcs, Undoing, TypeOK, Apart, OnCourse, Clients, Trunks, Call,
      NoSession
<1>36. ASSUME NEW t \in Trunks, RefreshTick(t) PROVE Phases'
  BY <1>36 DEF Undisturbed, Nobody, Whole, Phases, Phase, Settled, Registered, Off, LockHeld,
      Holds, HoldPcs, WorkPcs, Undoing, TypeOK, Apart, OnCourse, Clients, Trunks, RefreshTick
<1>37. ASSUME NEW t \in Trunks, RefreshSend(t) PROVE Phases'
  BY <1>37 DEF Undisturbed, Nobody, Whole, Phases, Phase, Settled, Registered, Off, LockHeld,
      Holds, HoldPcs, WorkPcs, Undoing, TypeOK, Apart, OnCourse, Clients, Trunks, RefreshSend,
      Accepted, Refused
<1>38. ASSUME NEW t \in Trunks, RefreshDone(t) PROVE Phases'
  BY <1>38 DEF Undisturbed, Nobody, Whole, Phases, Phase, Settled, Registered, Off, LockHeld,
      Holds, HoldPcs, WorkPcs, Undoing, TypeOK, Apart, OnCourse, Clients, Trunks, RefreshDone
<1>39. ASSUME NEW t \in Trunks, RenewLease(t) PROVE Phases'
  BY <1>39 DEF Undisturbed, Nobody, Whole, Phases, Phase, Settled, Registered, Off, LockHeld,
      Holds, HoldPcs, WorkPcs, Undoing, TypeOK, Apart, OnCourse, Clients, Trunks, RenewLease
<1>40. ASSUME NEW t \in Trunks, PeerTakes(t) PROVE Phases'
  BY <1>40 DEF Undisturbed, Nobody, Whole, Phases, Phase, Settled, Registered, Off, LockHeld,
      Holds, HoldPcs, WorkPcs, Undoing, TypeOK, Apart, OnCourse, Clients, Trunks, PeerTakes
<1>41. ASSUME NEW t \in Trunks, PeerReleases(t) PROVE Phases'
  BY <1>41 DEF Undisturbed, Nobody, Whole, Phases, Phase, Settled, Registered, Off, LockHeld,
      Holds, HoldPcs, WorkPcs, Undoing, TypeOK, Apart, OnCourse, Clients, Trunks, PeerReleases
<1>42. CASE HeartbeatTick
  BY <1>42 DEF Undisturbed, Nobody, Whole, Phases, Phase, Settled, Registered, Off, LockHeld,
      Holds, HoldPcs, WorkPcs, Undoing, TypeOK, Apart, OnCourse, Clients, Trunks, HeartbeatTick
<1>43. CASE Renewed
  BY <1>43 DEF Undisturbed, Nobody, Whole, Phases, Phase, Settled, Registered, Off, LockHeld,
      Holds, HoldPcs, WorkPcs, Undoing, TypeOK, Apart, OnCourse, Clients, Trunks, Renewed
<1>44. ASSUME NEW s \in Sids, CallEnds(s) PROVE Phases'
  BY <1>44 DEF Undisturbed, Nobody, Whole, Phases, Phase, Settled, Registered, Off, LockHeld,
      Holds, HoldPcs, WorkPcs, Undoing, TypeOK, Apart, OnCourse, Clients, Trunks, CallEnds
<1>45. ASSUME NEW t \in Trunks, NEW s \in Sids, Ring(t, s) PROVE Phases'
  BY <1>45 DEF Undisturbed, Nobody, Whole, Phases, Phase, Settled, Registered, Off, LockHeld,
      Holds, HoldPcs, WorkPcs, Undoing, TypeOK, Apart, OnCourse, Clients, Trunks, Ring,
      NoSession
<1>46. CASE UNCHANGED vars
  BY <1>46 DEF vars, Phases, Phase, Settled, Registered, Off
<1> QED
  BY <1>1, <1>2, <1>3, <1>4, <1>5, <1>6, <1>7, <1>8, <1>9, <1>10, <1>11, <1>12, <1>13, <1>14,
      <1>15, <1>16, <1>17, <1>18, <1>19, <1>20, <1>21, <1>22, <1>23, <1>24, <1>25, <1>26, <1>27,
      <1>28, <1>29, <1>30, <1>31, <1>32, <1>33, <1>34, <1>35, <1>36, <1>37, <1>38, <1>39, <1>40,
      <1>41, <1>42, <1>43, <1>44, <1>45, <1>46 DEF Next, Works, Waits, Asks, Background, Keeps,
      AsDevice

(* What was promised is registered. *)
LEMMA PromisedStep ==
  ASSUME TypeOK, Apart, OnCourse, LockHeld, BoundIsResolved, NoneDestroyed, Undisturbed, Nobody,
         Whole, Phases, PromisedRegistered, [Next]_vars
  PROVE  PromisedRegistered'
<1> USE PresenceAssumption DEF Goto, connVars, workVars, regVars, bgVars, callVars
<1>1. ASSUME NEW c \in Clients, Unlock(c) PROVE PromisedRegistered'
  <2>1. mode[c] \in {"register", "rebind", "leave", "move", "stale", "logout"} /\ at[c] # None
    BY <1>1 DEF TypeOK, OnCourse, WorkPcs, HoldPcs, Unlock
  <2>2. /\ ready' = ready /\ pc[c] = "unlock"
        /\ UNCHANGED <<owned, lease, auto, worker, binding>>
    BY <1>1 DEF Unlock
  <2>3. \A a \in Agents, t \in AgentTrunks :
          Promised(a, t)' => Promised(a, t) \/ (a = c /\ mode[c] = "register" /\ at[c] = t)
    BY <1>1, <2>1, <2>2, AfterLockEffect DEF Promised, Unlock, TypeOK, Clients
  <2> QED
    BY <2>2, <2>3 DEF PromisedRegistered, Registered, Phases, Phase
<1>2. ASSUME NEW c \in Clients, RegLease(c) PROVE PromisedRegistered'
  BY <1>2 DEF Undisturbed, Nobody, Phases, Phase, Settled, Registered, PromisedRegistered,
      Promised, NoneDestroyed, TypeOK, Apart, OnCourse, Clients, Trunks, RegLease
<1>3. ASSUME NEW c \in Clients, RegSend(c) PROVE PromisedRegistered'
  BY <1>3 DEF Undisturbed, Nobody, Phases, Phase, Settled, Registered, PromisedRegistered,
      Promised, NoneDestroyed, TypeOK, Apart, OnCourse, Clients, Trunks, RegSend, Accepted,
      Refused
<1>4. ASSUME NEW c \in Clients, RegDone(c) PROVE PromisedRegistered'
  BY <1>4 DEF Undisturbed, Nobody, Phases, Phase, Settled, Registered, PromisedRegistered,
      Promised, NoneDestroyed, TypeOK, Apart, OnCourse, Clients, Trunks, RegDone
<1>5. ASSUME NEW c \in Clients, Tell(c) PROVE PromisedRegistered'
  BY <1>5 DEF Undisturbed, Nobody, Phases, Phase, Settled, Registered, PromisedRegistered,
      Promised, NoneDestroyed, TypeOK, Apart, OnCourse, Clients, Trunks, Tell
<1>6. ASSUME NEW c \in Clients, Drop(c) PROVE PromisedRegistered'
  BY <1>6 DEF Undisturbed, Nobody, Phases, Phase, Settled, Registered, PromisedRegistered,
      Promised, NoneDestroyed, TypeOK, Apart, OnCourse, Clients, Trunks, Drop, Unbind
<1>7. ASSUME NEW c \in Clients, Clear(c) PROVE PromisedRegistered'
  BY <1>7 DEF Undisturbed, Nobody, Phases, Phase, Settled, Registered, PromisedRegistered,
      Promised, NoneDestroyed, TypeOK, Apart, OnCourse, Clients, Trunks, Clear
<1>8. ASSUME NEW c \in Clients, ChooseContact(c) PROVE PromisedRegistered'
  BY <1>8 DEF Undisturbed, Nobody, Phases, Phase, Settled, Registered, PromisedRegistered,
      Promised, NoneDestroyed, TypeOK, Apart, OnCourse, Clients, Trunks, ChooseContact, Siblings
<1>9. ASSUME NEW c \in Clients, KeepSend(c) PROVE PromisedRegistered'
  BY <1>9 DEF Undisturbed, Nobody, Phases, Phase, Settled, Registered, PromisedRegistered,
      Promised, NoneDestroyed, TypeOK, Apart, OnCourse, Clients, Trunks, KeepSend, Accepted,
      Refused, KeepNext
<1>10. ASSUME NEW c \in Clients, KeepDone(c) PROVE PromisedRegistered'
  BY <1>10 DEF Undisturbed, Nobody, Phases, Phase, Settled, Registered, PromisedRegistered,
      Promised, NoneDestroyed, TypeOK, Apart, OnCourse, Clients, Trunks, KeepDone, KeepNext
<1>11. ASSUME NEW c \in Clients, Expire(c) PROVE PromisedRegistered'
  <2>1. pc[c] = "expire" /\ at[c] \in Trunks
    BY <1>11 DEF Expire, OnCourse, WorkPcs, HoldPcs, TypeOK
  <2>2. \A a \in Agents, t \in AgentTrunks : Promised(a, t)' => Promised(a, t) /\ t # at[c]
    BY <1>11, <2>1 DEF Promised, Expire, NoneDestroyed, TypeOK
  <2>3. UNCHANGED <<owned, lease, auto, worker>> /\ binding' \in {binding, binding \ {Contact[at[c]]}}
    BY <1>11 DEF Expire
  <2>4. \A t \in AgentTrunks : t # at[c] => Contact[t] # Contact[at[c]]
    BY <2>1 DEF Undisturbed
  <2> QED
    BY <2>2, <2>3, <2>4 DEF PromisedRegistered, Registered
<1>12. ASSUME NEW c \in Clients, Release(c) PROVE PromisedRegistered'
  BY <1>12 DEF Undisturbed, Nobody, Phases, Phase, Settled, Registered, PromisedRegistered,
      Promised, NoneDestroyed, TypeOK, Apart, OnCourse, Clients, Trunks, Release
<1>13. ASSUME NEW c \in Clients, Leave(c) PROVE PromisedRegistered'
  BY <1>13 DEF Undisturbed, Nobody, Phases, Phase, Settled, Registered, PromisedRegistered,
      Promised, NoneDestroyed, TypeOK, Apart, OnCourse, Clients, Trunks, Leave, Unbind, LastOn,
      Owned
<1>14. ASSUME NEW c \in Clients, Hangup(c) PROVE PromisedRegistered'
  BY <1>14 DEF Undisturbed, Nobody, Phases, Phase, Settled, Registered, PromisedRegistered,
      Promised, NoneDestroyed, TypeOK, Apart, OnCourse, Clients, Trunks, Hangup, EndOne
<1>15. ASSUME NEW c \in Clients, HungUp(c) PROVE PromisedRegistered'
  BY <1>15 DEF Undisturbed, Nobody, Phases, Phase, Settled, Registered, PromisedRegistered,
      Promised, NoneDestroyed, TypeOK, Apart, OnCourse, Clients, Trunks, HungUp
<1>16. ASSUME NEW c \in Clients, Snapshot(c) PROVE PromisedRegistered'
  BY <1>16 DEF Undisturbed, Nobody, Phases, Phase, Settled, Registered, PromisedRegistered,
      Promised, NoneDestroyed, TypeOK, Apart, OnCourse, Clients, Trunks, Snapshot, OnTrunk
<1>17. ASSUME NEW c \in Clients, Recheck(c) PROVE PromisedRegistered'
  BY <1>17 DEF Undisturbed, Nobody, Phases, Phase, Settled, Registered, PromisedRegistered,
      Promised, NoneDestroyed, TypeOK, Apart, OnCourse, Clients, Trunks, Recheck, InUse
<1>18. ASSUME NEW c \in Clients, Sweep(c) PROVE PromisedRegistered'
  BY <1>18 DEF Undisturbed, Nobody, Phases, Phase, Settled, Registered, PromisedRegistered,
      Promised, NoneDestroyed, TypeOK, Apart, OnCourse, Clients, Trunks, Sweep, EndOne
<1>19. ASSUME NEW c \in Clients, Swept(c) PROVE PromisedRegistered'
  BY <1>19 DEF Undisturbed, Nobody, Phases, Phase, Settled, Registered, PromisedRegistered,
      Promised, NoneDestroyed, TypeOK, Apart, OnCourse, Clients, Trunks, Swept, InUse
<1>20. ASSUME NEW c \in Clients, Repair(c) PROVE PromisedRegistered'
  BY <1>20 DEF Undisturbed, Nobody, Phases, Phase, Settled, Registered, PromisedRegistered,
      Promised, NoneDestroyed, TypeOK, Apart, OnCourse, Clients, Trunks, Repair, InUse
<1>21. ASSUME NEW c \in Clients, ListStale(c) PROVE PromisedRegistered'
  BY <1>21 DEF Undisturbed, Nobody, Phases, Phase, Settled, Registered, PromisedRegistered,
      Promised, NoneDestroyed, TypeOK, Apart, OnCourse, Clients, Trunks, ListStale, StaleOf
<1>22. ASSUME NEW c \in Clients, BindDevice(c) PROVE PromisedRegistered'
  BY <1>22 DEF Undisturbed, Nobody, Phases, Phase, Settled, Registered, PromisedRegistered,
      Promised, NoneDestroyed, TypeOK, Apart, OnCourse, Clients, Trunks, BindDevice, Bind,
      LastOn
<1>23. ASSUME NEW c \in Clients, Forget(c) PROVE PromisedRegistered'
  BY <1>23 DEF Undisturbed, Nobody, Phases, Phase, Settled, Registered, PromisedRegistered,
      Promised, NoneDestroyed, TypeOK, Apart, OnCourse, Clients, Trunks, Forget, Owned
<1>24. ASSUME NEW c \in Clients, LoggedOut(c) PROVE PromisedRegistered'
  BY <1>24 DEF Undisturbed, Nobody, Phases, Phase, Settled, Registered, PromisedRegistered,
      Promised, NoneDestroyed, TypeOK, Apart, OnCourse, Clients, Trunks, LoggedOut, Unbind
<1>25. ASSUME NEW c \in Clients, TakeToRegister(c) PROVE PromisedRegistered'
  <2>1. UNCHANGED <<ready, owned, lease, auto, worker, binding>>
    BY <1>25 DEF TakeToRegister
  <2>2. \A a \in Agents, t \in AgentTrunks :
          Promised(a, t)' => Promised(a, t) \/ (at[c] = t /\ opLock[t] = None /\ owned[t])
    BY <1>25, <2>1, TakeToRegisterEffect DEF Promised, TypeOK, Clients
  <2> QED
    BY <2>1, <2>2 DEF PromisedRegistered, Registered, Whole, Settled, Off
<1>26. ASSUME NEW c \in Clients, TakeToClean(c) PROVE PromisedRegistered'
  BY <1>26 DEF Undisturbed, Nobody, Phases, Phase, Settled, Registered, PromisedRegistered,
      Promised, NoneDestroyed, TypeOK, Apart, OnCourse, Clients, Trunks, TakeToClean, InUse,
      Take, AfterLock
<1>27. ASSUME NEW c \in Clients, ReleaseStale(c) PROVE PromisedRegistered'
  BY <1>27 DEF Undisturbed, Nobody, Phases, Phase, Settled, Registered, PromisedRegistered,
      Promised, NoneDestroyed, TypeOK, Apart, OnCourse, Clients, Trunks, ReleaseStale,
      TakeToRelease, Take
<1>28. ASSUME NEW c \in Clients, Move(c) PROVE PromisedRegistered'
  BY <1>28 DEF Undisturbed, Nobody, Phases, Phase, Settled, Registered, PromisedRegistered,
      Promised, NoneDestroyed, TypeOK, Apart, OnCourse, Clients, Trunks, Move, TakeToRelease,
      Take
<1>29. ASSUME NEW c \in Clients, TakeToLogout(c) PROVE PromisedRegistered'
  BY <1>29 DEF Undisturbed, Nobody, Phases, Phase, Settled, Registered, PromisedRegistered,
      Promised, NoneDestroyed, TypeOK, Apart, OnCourse, Clients, Trunks, TakeToLogout,
      UsedByOthers, Take
<1>30. ASSUME NEW c \in Clients, NEW t \in Trunks, AgentRegister(c, t) PROVE PromisedRegistered'
  BY <1>30 DEF Undisturbed, Nobody, Phases, Phase, Settled, Registered, PromisedRegistered,
      Promised, NoneDestroyed, TypeOK, Apart, OnCourse, Clients, Trunks, AgentRegister, Bind,
      LastOn
<1>31. ASSUME NEW c \in Clients, NEW t \in Trunks, DeviceRegister(c, t) PROVE PromisedRegistered'
  BY <1>31 DEF Undisturbed, Nobody, Phases, Phase, Settled, Registered, PromisedRegistered,
      Promised, NoneDestroyed, TypeOK, Apart, OnCourse, Clients, Trunks, DeviceRegister, Notify
<1>32. ASSUME NEW c \in Clients, Unregister(c) PROVE PromisedRegistered'
  BY <1>32 DEF Undisturbed, Nobody, Phases, Phase, Settled, Registered, PromisedRegistered,
      Promised, NoneDestroyed, TypeOK, Apart, OnCourse, Clients, Trunks, Unregister
<1>33. ASSUME NEW c \in Clients, CallNotReady(c) PROVE PromisedRegistered'
  BY <1>33 DEF Undisturbed, Nobody, Phases, Phase, Settled, Registered, PromisedRegistered,
      Promised, NoneDestroyed, TypeOK, Apart, OnCourse, Clients, Trunks, CallNotReady
<1>34. ASSUME NEW c \in Clients, SocketCloses(c) PROVE PromisedRegistered'
  BY <1>34 DEF Undisturbed, Nobody, Phases, Phase, Settled, Registered, PromisedRegistered,
      Promised, NoneDestroyed, TypeOK, Apart, OnCourse, Clients, Trunks, SocketCloses
<1>35. ASSUME NEW c \in Clients, NEW s \in Sids, Call(c, s) PROVE PromisedRegistered'
  BY <1>35 DEF Undisturbed, Nobody, Phases, Phase, Settled, Registered, PromisedRegistered,
      Promised, NoneDestroyed, TypeOK, Apart, OnCourse, Clients, Trunks, Call, NoSession
<1>36. ASSUME NEW t \in Trunks, RefreshTick(t) PROVE PromisedRegistered'
  BY <1>36 DEF Undisturbed, Nobody, Phases, Phase, Settled, Registered, PromisedRegistered,
      Promised, NoneDestroyed, TypeOK, Apart, OnCourse, Clients, Trunks, RefreshTick
<1>37. ASSUME NEW t \in Trunks, RefreshSend(t) PROVE PromisedRegistered'
  BY <1>37 DEF Undisturbed, Nobody, Phases, Phase, Settled, Registered, PromisedRegistered,
      Promised, NoneDestroyed, TypeOK, Apart, OnCourse, Clients, Trunks, RefreshSend, Accepted,
      Refused
<1>38. ASSUME NEW t \in Trunks, RefreshDone(t) PROVE PromisedRegistered'
  BY <1>38 DEF Undisturbed, Nobody, Phases, Phase, Settled, Registered, PromisedRegistered,
      Promised, NoneDestroyed, TypeOK, Apart, OnCourse, Clients, Trunks, RefreshDone
<1>39. ASSUME NEW t \in Trunks, RenewLease(t) PROVE PromisedRegistered'
  BY <1>39 DEF Undisturbed, Nobody, Phases, Phase, Settled, Registered, PromisedRegistered,
      Promised, NoneDestroyed, TypeOK, Apart, OnCourse, Clients, Trunks, RenewLease
<1>40. ASSUME NEW t \in Trunks, PeerTakes(t) PROVE PromisedRegistered'
  BY <1>40 DEF Undisturbed, Nobody, Phases, Phase, Settled, Registered, PromisedRegistered,
      Promised, NoneDestroyed, TypeOK, Apart, OnCourse, Clients, Trunks, PeerTakes
<1>41. ASSUME NEW t \in Trunks, PeerReleases(t) PROVE PromisedRegistered'
  BY <1>41 DEF Undisturbed, Nobody, Phases, Phase, Settled, Registered, PromisedRegistered,
      Promised, NoneDestroyed, TypeOK, Apart, OnCourse, Clients, Trunks, PeerReleases
<1>42. CASE HeartbeatTick
  BY <1>42 DEF Undisturbed, Nobody, Phases, Phase, Settled, Registered, PromisedRegistered,
      Promised, NoneDestroyed, TypeOK, Apart, OnCourse, Clients, Trunks, HeartbeatTick
<1>43. CASE Renewed
  BY <1>43 DEF Undisturbed, Nobody, Phases, Phase, Settled, Registered, PromisedRegistered,
      Promised, NoneDestroyed, TypeOK, Apart, OnCourse, Clients, Trunks, Renewed
<1>44. ASSUME NEW s \in Sids, CallEnds(s) PROVE PromisedRegistered'
  BY <1>44 DEF Undisturbed, Nobody, Phases, Phase, Settled, Registered, PromisedRegistered,
      Promised, NoneDestroyed, TypeOK, Apart, OnCourse, Clients, Trunks, CallEnds
<1>45. ASSUME NEW t \in Trunks, NEW s \in Sids, Ring(t, s) PROVE PromisedRegistered'
  BY <1>45 DEF Undisturbed, Nobody, Phases, Phase, Settled, Registered, PromisedRegistered,
      Promised, NoneDestroyed, TypeOK, Apart, OnCourse, Clients, Trunks, Ring, NoSession
<1>46. CASE UNCHANGED vars
  BY <1>46 DEF vars, PromisedRegistered, Promised, Registered
<1> QED
  BY <1>1, <1>2, <1>3, <1>4, <1>5, <1>6, <1>7, <1>8, <1>9, <1>10, <1>11, <1>12, <1>13, <1>14,
      <1>15, <1>16, <1>17, <1>18, <1>19, <1>20, <1>21, <1>22, <1>23, <1>24, <1>25, <1>26, <1>27,
      <1>28, <1>29, <1>30, <1>31, <1>32, <1>33, <1>34, <1>35, <1>36, <1>37, <1>38, <1>39, <1>40,
      <1>41, <1>42, <1>43, <1>44, <1>45, <1>46 DEF Next, Works, Waits, Asks, Background, Keeps,
      AsDevice

(* Somebody cleans up. *)
LEMMA AttendedStep ==
  ASSUME TypeOK, Apart, OnCourse, LockHeld, BoundIsResolved, NoneDestroyed, Undisturbed, Nobody,
         Whole, Phases, PromisedRegistered, Attended, [Next]_vars
  PROVE  Attended'
<1> USE PresenceAssumption DEF Goto, connVars, workVars, regVars, bgVars, callVars
<1>1. ASSUME NEW c \in Clients, Unlock(c) PROVE Attended'
  BY <1>1 DEF Undisturbed, Nobody, Attended, Resting, Wanted, Cleans, Undoing, Off,
      BoundIsResolved, WorkPcs, HoldPcs, TypeOK, Apart, OnCourse, Clients, Trunks, Unlock,
      AfterLock
<1>2. ASSUME NEW c \in Clients, RegLease(c) PROVE Attended'
  <2>1. bound' = bound /\ pc[c] = "lease" /\ pc' = [pc EXCEPT ![c] = "wire"]
        /\ at' = at /\ mode' = mode /\ binding' = binding /\ worker' = worker
        /\ \A t \in Trunks : t # at[c] => owned'[t] = owned[t] /\ lease'[t] = lease[t] /\ auto'[t] = auto[t]
    BY <1>2 DEF RegLease, TypeOK
  <2>2. \A t \in AgentTrunks : \A d \in Agents : Cleans(d, t) => Cleans(d, t)'
    BY <2>1 DEF Cleans, Undoing, TypeOK, Clients
  <2>3. ASSUME NEW t \in AgentTrunks, Resting(t) PROVE Resting(t)'
    <3>1. at[c] # t
      <4>1. CASE c \in Agents
        BY <4>1, <2>1, <2>3 DEF Resting
      <4>2. CASE c \in Devices
        BY <4>2, <2>1 DEF Apart, OnCourse, WorkPcs, HoldPcs, Clients
      <4> QED
        BY <4>1, <4>2 DEF Clients
    <3>2. Off(t)'
      BY <3>1, <2>1, <2>3 DEF Resting, Off, Trunks
    <3>3. \A d \in Agents : at'[d] = t => pc'[d] # "lease"
      BY <2>1, <2>3 DEF Resting, TypeOK, Clients
    <3> QED
      BY <3>2, <3>3 DEF Resting
  <2> QED
    BY <2>1, <2>2, <2>3 DEF Attended, Wanted
<1>3. ASSUME NEW c \in Clients, RegSend(c) PROVE Attended'
  <2>1. bound' = bound
    BY <1>3 DEF RegSend
  <2>2. \A t \in AgentTrunks : \A d \in Agents : Cleans(d, t) => Cleans(d, t)'
    BY <1>3 DEF RegSend, Cleans, Undoing, TypeOK, Clients
  <2>3. \A t \in AgentTrunks : Resting(t) => Resting(t)' \/ Wanted(t)
    BY <1>3 DEF RegSend, Resting, Wanted, Off, TypeOK, Clients, Trunks, Accepted, Refused, Phases, Phase, Undisturbed, Apart, OnCourse, WorkPcs, HoldPcs
  <2> QED
    BY <2>1, <2>2, <2>3 DEF Attended, Wanted
<1>4. ASSUME NEW c \in Clients, RegDone(c) PROVE Attended'
  <2>1. bound' = bound
    BY <1>4 DEF RegDone
  <2>2. \A t \in AgentTrunks : \A d \in Agents : Cleans(d, t) => Cleans(d, t)'
    BY <1>4 DEF RegDone, Cleans, Undoing, TypeOK, Clients
  <2>3. \A t \in AgentTrunks : Resting(t) => Resting(t)' \/ Wanted(t)
    BY <1>4 DEF RegDone, Resting, Wanted, Off, TypeOK, Clients, Trunks, Phases, Phase, Apart, OnCourse, WorkPcs, HoldPcs
  <2> QED
    BY <2>1, <2>2, <2>3 DEF Attended, Wanted
<1>5. ASSUME NEW c \in Clients, Tell(c) PROVE Attended'
  BY <1>5, SMTT(40) DEF Undisturbed, Nobody, Attended, Resting, Wanted, Cleans, Undoing, Off,
      BoundIsResolved, WorkPcs, HoldPcs, TypeOK, Apart, OnCourse, Clients, Trunks, Tell
<1>6. ASSUME NEW c \in Clients, Drop(c) PROVE Attended'
  BY <1>6 DEF Undisturbed, Nobody, Attended, Resting, Wanted, Cleans, Undoing, Off,
      BoundIsResolved, WorkPcs, HoldPcs, TypeOK, Apart, OnCourse, Clients, Trunks, Drop, Unbind
<1>7. ASSUME NEW c \in Clients, Clear(c) PROVE Attended'
  BY <1>7, SMTT(60) DEF Undisturbed, Nobody, Attended, Resting, Wanted, Cleans, Undoing, Off,
      BoundIsResolved, WorkPcs, HoldPcs, TypeOK, Apart, OnCourse, Clients, Trunks, Clear
<1>8. ASSUME NEW c \in Clients, ChooseContact(c) PROVE Attended'
  BY <1>8 DEF Undisturbed, Nobody, Attended, Resting, Wanted, Cleans, Undoing, Off,
      BoundIsResolved, WorkPcs, HoldPcs, TypeOK, Apart, OnCourse, Clients, Trunks,
      ChooseContact, Siblings
<1>9. ASSUME NEW c \in Clients, KeepSend(c) PROVE Attended'
  <2>1. c \notin Agents
    BY <1>9 DEF Phases, Phase, KeepSend
  <2>2. at[c] \in DeviceTrunks /\ Contact[at[c]] \notin {Contact[t] : t \in AgentTrunks}
    BY <1>9, <2>1 DEF Apart, OnCourse, WorkPcs, HoldPcs, Clients, Trunks, Undisturbed, KeepSend
  <2>3. /\ owned' = owned /\ lease' = lease /\ auto' = auto /\ worker' = worker
        /\ bound' = bound /\ at' = at /\ mode' = mode
        /\ \A t \in AgentTrunks : Contact[t] \in binding' <=> Contact[t] \in binding
    BY <1>9, <2>2 DEF KeepSend, Accepted, Refused, Undisturbed
  <2>4. pc' = [pc EXCEPT ![c] = "keepDone"]
    BY <1>9 DEF KeepSend, Refused, Undisturbed
  <2>5. \A a \in Agents : pc'[a] = pc[a]
    BY <2>1, <2>4 DEF TypeOK
  <2> QED
    BY <2>3, <2>5 DEF Attended, Resting, Wanted, Cleans, Off
<1>10. ASSUME NEW c \in Clients, KeepDone(c) PROVE Attended'
  <2>1. c \notin Agents
    BY <1>10 DEF Phases, Phase, KeepDone
  <2>2. at[c] \in DeviceTrunks /\ Contact[at[c]] \notin {Contact[t] : t \in AgentTrunks}
    BY <1>10, <2>1 DEF Apart, OnCourse, WorkPcs, HoldPcs, Clients, Trunks, Undisturbed, KeepDone
  <2>3. /\ owned' = owned /\ lease' = lease /\ auto' = auto /\ binding' = binding /\ opLock' = opLock
        /\ \A t \in AgentTrunks : worker'[t] = worker[t]
    BY <1>10 DEF KeepDone, Nobody, TypeOK
  <2>4. \A a \in Agents : pc'[a] = pc[a] /\ at'[a] = at[a] /\ mode'[a] = mode[a]
    BY <1>10, <2>1 DEF KeepDone, KeepNext, TypeOK
  <2>5. bound' = bound
    BY <1>10 DEF KeepDone
  <2> QED
    BY <2>3, <2>4, <2>5 DEF Attended, Resting, Wanted, Cleans, Off
<1>11. ASSUME NEW c \in Clients, Expire(c) PROVE Attended'
  BY <1>11 DEF Undisturbed, Nobody, Attended, Resting, Wanted, Cleans, Undoing, Off,
      BoundIsResolved, WorkPcs, HoldPcs, TypeOK, Apart, OnCourse, Clients, Trunks, Expire
<1>12. ASSUME NEW c \in Clients, Release(c) PROVE Attended'
  <2>1. bound' = bound /\ at' = at /\ mode' = mode /\ binding' = binding /\ worker' = worker /\ auto' = auto
        /\ pc[c] = "release"
        /\ pc' \in {[pc EXCEPT ![c] = "repair"], [pc EXCEPT ![c] = "forget"], [pc EXCEPT ![c] = "unlock"]}
        /\ \A t \in Trunks : owned'[t] \in {owned[t], FALSE} /\ lease'[t] \in {lease[t], "free"}
    BY <1>12 DEF Release, TypeOK
  <2>2. c \in Agents => pc' = [pc EXCEPT ![c] = "repair"]
    BY <1>12 DEF Release, Nobody, Apart, OnCourse, Undoing, WorkPcs, HoldPcs
  <2>3. \A t \in AgentTrunks : \A d \in Agents : Cleans(d, t) => Cleans(d, t)'
    BY <2>1, <2>2 DEF Cleans, Undoing, TypeOK, Clients
  <2>4. \A t \in AgentTrunks : Off(t) => Off(t)'
    BY <2>1 DEF Off, TypeOK, Trunks
  <2>5. \A d \in Agents : pc'[d] = "lease" => pc[d] = "lease"
    BY <2>1 DEF TypeOK, Clients
  <2> QED
    BY <2>1, <2>3, <2>4, <2>5 DEF Attended, Wanted, Resting
<1>13. ASSUME NEW c \in Clients, Leave(c) PROVE Attended'
  BY <1>13 DEF Undisturbed, Nobody, Attended, Resting, Wanted, Cleans, Undoing, Off,
      BoundIsResolved, WorkPcs, HoldPcs, TypeOK, Apart, OnCourse, Clients, Trunks, Leave,
      Unbind, LastOn, Owned
<1>14. ASSUME NEW c \in Clients, Hangup(c) PROVE Attended'
  BY <1>14 DEF Undisturbed, Nobody, Attended, Resting, Wanted, Cleans, Undoing, Off,
      BoundIsResolved, WorkPcs, HoldPcs, TypeOK, Apart, OnCourse, Clients, Trunks, Hangup,
      EndOne
<1>15. ASSUME NEW c \in Clients, HungUp(c) PROVE Attended'
  BY <1>15, SMTT(60) DEF Undisturbed, Nobody, Attended, Resting, Wanted, Cleans, Undoing, Off,
      BoundIsResolved, WorkPcs, HoldPcs, TypeOK, Apart, OnCourse, Clients, Trunks, HungUp
<1>16. ASSUME NEW c \in Clients, Snapshot(c) PROVE Attended'
  BY <1>16 DEF Undisturbed, Nobody, Attended, Resting, Wanted, Cleans, Undoing, Off,
      BoundIsResolved, WorkPcs, HoldPcs, TypeOK, Apart, OnCourse, Clients, Trunks, Snapshot,
      OnTrunk
<1>17. ASSUME NEW c \in Clients, Recheck(c) PROVE Attended'
  BY <1>17 DEF Undisturbed, Nobody, Attended, Resting, Wanted, Cleans, Undoing, Off,
      BoundIsResolved, WorkPcs, HoldPcs, TypeOK, Apart, OnCourse, Clients, Trunks, Recheck,
      InUse
<1>18. ASSUME NEW c \in Clients, Sweep(c) PROVE Attended'
  BY <1>18 DEF Undisturbed, Nobody, Attended, Resting, Wanted, Cleans, Undoing, Off,
      BoundIsResolved, WorkPcs, HoldPcs, TypeOK, Apart, OnCourse, Clients, Trunks, Sweep, EndOne
<1>19. ASSUME NEW c \in Clients, Swept(c) PROVE Attended'
  BY <1>19 DEF Undisturbed, Nobody, Attended, Resting, Wanted, Cleans, Undoing, Off,
      BoundIsResolved, WorkPcs, HoldPcs, TypeOK, Apart, OnCourse, Clients, Trunks, Swept, InUse
<1>20. ASSUME NEW c \in Clients, Repair(c) PROVE Attended'
  <2>1. UNCHANGED <<bound, at, mode, binding, worker, auto, owned, lease>> /\ pc[c] = "repair" /\ c \in Agents
    BY <1>20 DEF Repair, Apart, Clients
  <2>2. Off(at[c]) /\ at[c] \in AgentTrunks
    BY <2>1 DEF Phases, Phase, Apart, OnCourse, WorkPcs, HoldPcs, Clients
  <2>3. \A d \in Agents : pc[d] = "lease" => at[d] # at[c]
    BY <2>1 DEF LockHeld, Holds, HoldPcs, Clients
  <2>4. CASE bound[at[c]] # {}
    <3>1. pc' = [pc EXCEPT ![c] = "lease"]
      BY <1>20, <2>4 DEF Repair, InUse
    <3>2. ASSUME NEW t \in AgentTrunks, t # at[c] PROVE (Resting(t) \/ Wanted(t))'
      BY <2>1, <3>1, <3>2 DEF Attended, Resting, Wanted, Cleans, Off, TypeOK, Clients
    <3>3. Wanted(at[c])'
      BY <2>1, <2>4 DEF Wanted
    <3> QED
      BY <3>2, <3>3, <2>1 DEF Attended
  <2>5. CASE bound[at[c]] = {}
    <3>1. pc' = [pc EXCEPT ![c] = "unlock"]
      BY <1>20, <2>5 DEF Repair, InUse
    <3>2. ASSUME NEW t \in AgentTrunks, t # at[c] PROVE (Resting(t) \/ Wanted(t))'
      BY <2>1, <3>1, <3>2 DEF Attended, Resting, Wanted, Cleans, Off, TypeOK, Clients
    <3>3. Off(at[c])'
      BY <2>1, <2>2 DEF Off
    <3>4. \A d \in Agents : at'[d] = at'[c] => pc'[d] # "lease"
      BY <2>1, <2>3, <3>1 DEF TypeOK, Clients
    <3>5. Resting(at[c])'
      BY <3>3, <3>4 DEF Resting
    <3> QED
      BY <3>2, <3>5, <2>1 DEF Attended
  <2> QED
    BY <2>4, <2>5
<1>21. ASSUME NEW c \in Clients, ListStale(c) PROVE Attended'
  BY <1>21, SMTT(60) DEF Undisturbed, Nobody, Attended, Resting, Wanted, Cleans, Undoing, Off,
      BoundIsResolved, WorkPcs, HoldPcs, TypeOK, Apart, OnCourse, Clients, Trunks, ListStale,
      StaleOf
<1>22. ASSUME NEW c \in Clients, BindDevice(c) PROVE Attended'
  BY <1>22, SMTT(60) DEF Undisturbed, Nobody, Attended, Resting, Wanted, Cleans, Undoing, Off,
      BoundIsResolved, WorkPcs, HoldPcs, TypeOK, Apart, OnCourse, Clients, Trunks, BindDevice,
      Bind, LastOn
<1>23. ASSUME NEW c \in Clients, Forget(c) PROVE Attended'
  BY <1>23, SMTT(40) DEF Undisturbed, Nobody, Attended, Resting, Wanted, Cleans, Undoing, Off,
      BoundIsResolved, WorkPcs, HoldPcs, TypeOK, Apart, OnCourse, Clients, Trunks, Forget, Owned
<1>24. ASSUME NEW c \in Clients, LoggedOut(c) PROVE Attended'
  BY <1>24 DEF Undisturbed, Nobody, Attended, Resting, Wanted, Cleans, Undoing, Off,
      BoundIsResolved, WorkPcs, HoldPcs, TypeOK, Apart, OnCourse, Clients, Trunks, LoggedOut,
      Unbind
<1>25. ASSUME NEW c \in Clients, TakeToRegister(c) PROVE Attended'
  BY <1>25, SMTT(40) DEF Undisturbed, Nobody, Attended, Resting, Wanted, Cleans, Undoing, Off,
      BoundIsResolved, WorkPcs, HoldPcs, TypeOK, Apart, OnCourse, Clients, Trunks,
      TakeToRegister, MustRegister, Take
<1>26. ASSUME NEW c \in Clients, TakeToClean(c) PROVE Attended'
  BY <1>26 DEF Undisturbed, Nobody, Attended, Resting, Wanted, Cleans, Undoing, Off,
      BoundIsResolved, WorkPcs, HoldPcs, TypeOK, Apart, OnCourse, Clients, Trunks, TakeToClean,
      InUse, Take, AfterLock
<1>27. ASSUME NEW c \in Clients, ReleaseStale(c) PROVE Attended'
  BY <1>27 DEF Undisturbed, Nobody, Attended, Resting, Wanted, Cleans, Undoing, Off,
      BoundIsResolved, WorkPcs, HoldPcs, TypeOK, Apart, OnCourse, Clients, Trunks, ReleaseStale,
      TakeToRelease, Take
<1>28. ASSUME NEW c \in Clients, Move(c) PROVE Attended'
  BY <1>28, SMTT(60) DEF Undisturbed, Nobody, Attended, Resting, Wanted, Cleans, Undoing, Off,
      BoundIsResolved, WorkPcs, HoldPcs, TypeOK, Apart, OnCourse, Clients, Trunks, Move,
      TakeToRelease, Take
<1>29. ASSUME NEW c \in Clients, TakeToLogout(c) PROVE Attended'
  BY <1>29, SMTT(40) DEF Undisturbed, Nobody, Attended, Resting, Wanted, Cleans, Undoing, Off,
      BoundIsResolved, WorkPcs, HoldPcs, TypeOK, Apart, OnCourse, Clients, Trunks, TakeToLogout,
      UsedByOthers, Take
<1>30. ASSUME NEW c \in Clients, NEW t \in Trunks, AgentRegister(c, t) PROVE Attended'
  BY <1>30, SMTT(60) DEF Undisturbed, Nobody, Attended, Resting, Wanted, Cleans, Undoing, Off,
      BoundIsResolved, WorkPcs, HoldPcs, TypeOK, Apart, OnCourse, Clients, Trunks,
      AgentRegister, Bind, LastOn
<1>31. ASSUME NEW c \in Clients, NEW t \in Trunks, DeviceRegister(c, t) PROVE Attended'
  BY <1>31 DEF Undisturbed, Nobody, Attended, Resting, Wanted, Cleans, Undoing, Off,
      BoundIsResolved, WorkPcs, HoldPcs, TypeOK, Apart, OnCourse, Clients, Trunks,
      DeviceRegister, Notify
<1>32. ASSUME NEW c \in Clients, Unregister(c) PROVE Attended'
  BY <1>32 DEF Undisturbed, Nobody, Attended, Resting, Wanted, Cleans, Undoing, Off,
      BoundIsResolved, WorkPcs, HoldPcs, TypeOK, Apart, OnCourse, Clients, Trunks, Unregister
<1>33. ASSUME NEW c \in Clients, CallNotReady(c) PROVE Attended'
  BY <1>33 DEF Undisturbed, Nobody, Attended, Resting, Wanted, Cleans, Undoing, Off,
      BoundIsResolved, WorkPcs, HoldPcs, TypeOK, Apart, OnCourse, Clients, Trunks, CallNotReady
<1>34. ASSUME NEW c \in Clients, SocketCloses(c) PROVE Attended'
  BY <1>34 DEF Undisturbed, Nobody, Attended, Resting, Wanted, Cleans, Undoing, Off,
      BoundIsResolved, WorkPcs, HoldPcs, TypeOK, Apart, OnCourse, Clients, Trunks, SocketCloses
<1>35. ASSUME NEW c \in Clients, NEW s \in Sids, Call(c, s) PROVE Attended'
  BY <1>35 DEF Undisturbed, Nobody, Attended, Resting, Wanted, Cleans, Undoing, Off,
      BoundIsResolved, WorkPcs, HoldPcs, TypeOK, Apart, OnCourse, Clients, Trunks, Call,
      NoSession
<1>36. ASSUME NEW t \in Trunks, RefreshTick(t) PROVE Attended'
  BY <1>36 DEF Undisturbed, Nobody, Attended, Resting, Wanted, Cleans, Undoing, Off,
      BoundIsResolved, WorkPcs, HoldPcs, TypeOK, Apart, OnCourse, Clients, Trunks, RefreshTick
<1>37. ASSUME NEW t \in Trunks, RefreshSend(t) PROVE Attended'
  BY <1>37 DEF Undisturbed, Nobody, Attended, Resting, Wanted, Cleans, Undoing, Off,
      BoundIsResolved, WorkPcs, HoldPcs, TypeOK, Apart, OnCourse, Clients, Trunks, RefreshSend,
      Accepted, Refused
<1>38. ASSUME NEW t \in Trunks, RefreshDone(t) PROVE Attended'
  BY <1>38 DEF Undisturbed, Nobody, Attended, Resting, Wanted, Cleans, Undoing, Off,
      BoundIsResolved, WorkPcs, HoldPcs, TypeOK, Apart, OnCourse, Clients, Trunks, RefreshDone
<1>39. ASSUME NEW t \in Trunks, RenewLease(t) PROVE Attended'
  BY <1>39 DEF Undisturbed, Nobody, Attended, Resting, Wanted, Cleans, Undoing, Off,
      BoundIsResolved, WorkPcs, HoldPcs, TypeOK, Apart, OnCourse, Clients, Trunks, RenewLease
<1>40. ASSUME NEW t \in Trunks, PeerTakes(t) PROVE Attended'
  BY <1>40 DEF Undisturbed, Nobody, Attended, Resting, Wanted, Cleans, Undoing, Off,
      BoundIsResolved, WorkPcs, HoldPcs, TypeOK, Apart, OnCourse, Clients, Trunks, PeerTakes
<1>41. ASSUME NEW t \in Trunks, PeerReleases(t) PROVE Attended'
  BY <1>41 DEF Undisturbed, Nobody, Attended, Resting, Wanted, Cleans, Undoing, Off,
      BoundIsResolved, WorkPcs, HoldPcs, TypeOK, Apart, OnCourse, Clients, Trunks, PeerReleases
<1>42. CASE HeartbeatTick
  BY <1>42 DEF Undisturbed, Nobody, Attended, Resting, Wanted, Cleans, Undoing, Off,
      BoundIsResolved, WorkPcs, HoldPcs, TypeOK, Apart, OnCourse, Clients, Trunks, HeartbeatTick
<1>43. CASE Renewed
  BY <1>43 DEF Undisturbed, Nobody, Attended, Resting, Wanted, Cleans, Undoing, Off,
      BoundIsResolved, WorkPcs, HoldPcs, TypeOK, Apart, OnCourse, Clients, Trunks, Renewed
<1>44. ASSUME NEW s \in Sids, CallEnds(s) PROVE Attended'
  BY <1>44 DEF Undisturbed, Nobody, Attended, Resting, Wanted, Cleans, Undoing, Off,
      BoundIsResolved, WorkPcs, HoldPcs, TypeOK, Apart, OnCourse, Clients, Trunks, CallEnds
<1>45. ASSUME NEW t \in Trunks, NEW s \in Sids, Ring(t, s) PROVE Attended'
  BY <1>45 DEF Undisturbed, Nobody, Attended, Resting, Wanted, Cleans, Undoing, Off,
      BoundIsResolved, WorkPcs, HoldPcs, TypeOK, Apart, OnCourse, Clients, Trunks, Ring,
      NoSession
<1>46. CASE UNCHANGED vars
  BY <1>46 DEF vars, Attended, Resting, Wanted, Cleans, Off
<1> QED
  BY <1>1, <1>2, <1>3, <1>4, <1>5, <1>6, <1>7, <1>8, <1>9, <1>10, <1>11, <1>12, <1>13, <1>14,
      <1>15, <1>16, <1>17, <1>18, <1>19, <1>20, <1>21, <1>22, <1>23, <1>24, <1>25, <1>26, <1>27,
      <1>28, <1>29, <1>30, <1>31, <1>32, <1>33, <1>34, <1>35, <1>36, <1>37, <1>38, <1>39, <1>40,
      <1>41, <1>42, <1>43, <1>44, <1>45, <1>46 DEF Next, Works, Waits, Asks, Background, Keeps,
      AsDevice

LEMMA UndisturbedInit ==
  ASSUME Init, Undisturbed
  PROVE  TrunkInv
<1> USE PresenceAssumption
<1>1. Nobody
  BY DEF Init, Nobody, Clients, Trunks
<1>2. \A t \in AgentTrunks : Off(t)
  BY DEF Init, Off, Trunks
<1>3. Whole
  BY <1>2 DEF Whole, Settled
<1>4. Phases
  BY DEF Init, Phases, Phase, Clients
<1>5. PromisedRegistered
  BY DEF Init, PromisedRegistered, Promised, Clients, Trunks
<1>6. Attended
  BY <1>2 DEF Init, Attended, Resting, Clients
<1> QED
  BY <1>1, <1>3, <1>4, <1>5, <1>6 DEF TrunkInv

LEMMA UndisturbedStep ==
  ASSUME TypeOK, Apart, OnCourse, LockHeld, BoundIsResolved, NoneDestroyed,
         UndisturbedKept, [Next]_vars
  PROVE  UndisturbedKept'
<1> SUFFICES ASSUME Undisturbed PROVE TrunkInv'
  BY DEF UndisturbedKept, Undisturbed
<1>1. Nobody /\ Whole /\ Phases /\ PromisedRegistered /\ Attended
  BY DEF UndisturbedKept, TrunkInv
<1>2. Nobody'
  BY <1>1, NobodyStep
<1>3. Whole'
  BY <1>1, WholeStep
<1>4. Phases'
  BY <1>1, PhasesStep
<1>5. PromisedRegistered'
  BY <1>1, PromisedStep
<1>6. Attended'
  BY <1>1, AttendedStep
<1> QED
  BY <1>2, <1>3, <1>4, <1>5, <1>6 DEF TrunkInv

(* Undisturbed, the parts of a trunk's registration change together. *)
THEOREM UndisturbedInvariance == Spec => []UndisturbedKept
<1>1. Init => UndisturbedKept
  BY UndisturbedInit DEF UndisturbedKept
<1>2. IInv /\ UndisturbedKept /\ [Next]_vars => UndisturbedKept'
  BY UndisturbedStep DEF IInv
<1> QED
  BY <1>1, <1>2, Invariance, PTL DEF Spec

(* Of an undisturbed gateway: an agent trunk that nobody is bound to or works
   on is unregistered, its lease released and its automatic registration off. *)
LEMMA UnusedIsReleased ==
  ASSUME TypeOK, Undisturbed, UndisturbedKept
  PROVE  UnusedReleased
<1> SUFFICES ASSUME NEW t \in AgentTrunks, bound[t] = {}, ~Busy(t)
             PROVE  Released(t)
  BY DEF UnusedReleased
<1>1. ~Wanted(t)
  BY DEF Wanted, Cleans, Undoing, Busy, Clients
<1>2. Off(t)
  BY <1>1 DEF UndisturbedKept, TrunkInv, Attended, Resting
<1> QED
  BY <1>2 DEF Off, Released

(* Of an undisturbed gateway with agents only: a client that was told
   trunk_resolved, and is still bound, is on a trunk that is registered. *)
LEMMA ReadyIsRegistered ==
  ASSUME TypeOK, Apart, BoundIsResolved, Undisturbed, UndisturbedKept, Devices = {}
  PROVE  ReadyRegistered
<1> SUFFICES ASSUME NEW c \in Clients, ready[c] # None
             PROVE  Registered(ready[c])
  BY DEF ReadyRegistered
<1>1. c \in Agents
  BY DEF Clients
<1>2. ready[c] \in AgentTrunks
  BY <1>1 DEF Apart, BoundIsResolved
<1> QED
  BY <1>1, <1>2 DEF UndisturbedKept, TrunkInv, PromisedRegistered, Promised

(* What agents were told and who is bound agree with the registrations: lease,
   sip_auto_register, refresh worker and the registrar's Contact, for any number
   of agents that register, move, leave and come back, as long as REGISTERs are
   accepted and nothing but the agents touches their trunks
   (handleWSAgentRegister against cleanupUnusedAgentTrunk). *)
THEOREM AgentTrunksStayTrue ==
  Undisturbed /\ Devices = {} => (Spec => []AgentTrunksTrue)
<1> SUFFICES ASSUME Undisturbed, Devices = {} PROVE Spec => []AgentTrunksTrue
  OBVIOUS
<1>1. IInv /\ UndisturbedKept => AgentTrunksTrue
  BY UnusedIsReleased, ReadyIsRegistered DEF IInv, AgentTrunksTrue
<1> QED
  BY <1>1, Invariance, UndisturbedInvariance, PTL

(* The half of it that devices on trunks of their own do not change *)
THEOREM UnusedTrunksReleased == Undisturbed => (Spec => []UnusedReleased)
<1> SUFFICES ASSUME Undisturbed PROVE Spec => []UnusedReleased
  OBVIOUS
<1>1. IInv /\ UndisturbedKept => UnusedReleased
  BY UnusedIsReleased DEF IInv
<1> QED
  BY <1>1, Invariance, UndisturbedInvariance, PTL

-----------------------------------------------------------------------------
(* When moreover no two trunks share a Contact, that goes for every trunk, the
   phones' as well, whoever moves, logs in and logs out. *)

Separate ==
  /\ ~Refresh /\ ~Heartbeat /\ ~Faults /\ ~Peers
  /\ \A t \in Trunks : \A u \in Trunks \ {t} : Contact[u] # Contact[t]

(* A lock that is held is held by a client at work on its trunk. *)
HolderAtWork ==
  \A t \in Trunks : opLock[t] # None => at[opLock[t]] = t /\ Holds(opLock[t])

AllWhole == \A t \in Trunks : opLock[t] = None => Settled(t)

AllPhases ==
  \A c \in Clients :
    /\ Phase(pc[c], mode[c], at[c])
    /\ pc[c] = "forget" \/ (pc[c] = "hangup" /\ mode[c] = "logout") => Off(at[c])

SeparateKept == Separate => HolderAtWork /\ AllWhole /\ AllPhases

(* Who takes a lock works on its trunk until it lets go. *)
LEMMA HolderStep ==
  ASSUME TypeOK, Apart, OnCourse, LockHeld, HolderAtWork, [Next]_vars
  PROVE  HolderAtWork'
<1> USE PresenceAssumption DEF Goto, connVars, workVars, regVars, bgVars, callVars
<1>1. ASSUME NEW c \in Clients, Unlock(c) \/ RegLease(c) \/ RegSend(c) PROVE HolderAtWork'
  BY <1>1 DEF HolderAtWork, Holds, HoldPcs, WorkPcs, Undoing, TypeOK, Apart, OnCourse, Clients,
      Trunks, AfterLock, Accepted, Refused, Unlock, RegLease, RegSend
<1>4. ASSUME NEW c \in Clients, RegDone(c) \/ Tell(c) \/ Drop(c) PROVE HolderAtWork'
  BY <1>4 DEF HolderAtWork, Holds, HoldPcs, WorkPcs, Undoing, TypeOK, Apart, OnCourse, Clients,
      Trunks, Unbind, RegDone, Tell, Drop
<1>7. ASSUME NEW c \in Clients, Clear(c) \/ ChooseContact(c) \/ KeepSend(c) PROVE HolderAtWork'
  BY <1>7 DEF HolderAtWork, Holds, HoldPcs, WorkPcs, Undoing, TypeOK, Apart, OnCourse, Clients,
      Trunks, Siblings, Accepted, Refused, KeepNext, Clear, ChooseContact, KeepSend
<1>10. ASSUME NEW c \in Clients, KeepDone(c) \/ Expire(c) \/ Release(c) PROVE HolderAtWork'
  BY <1>10 DEF HolderAtWork, Holds, HoldPcs, WorkPcs, Undoing, TypeOK, Apart, OnCourse, Clients,
      Trunks, KeepNext, KeepDone, Expire, Release
<1>13. ASSUME NEW c \in Clients, Leave(c) \/ Hangup(c) \/ HungUp(c) PROVE HolderAtWork'
  BY <1>13, SMTT(60) DEF HolderAtWork, Holds, HoldPcs, WorkPcs, Undoing, TypeOK, Apart, OnCourse, Clients,
      Trunks, Unbind, LastOn, Owned, EndOne, Leave, Hangup, HungUp
<1>16. ASSUME NEW c \in Clients, Snapshot(c) \/ Recheck(c) \/ Sweep(c) PROVE HolderAtWork'
  BY <1>16 DEF HolderAtWork, Holds, HoldPcs, WorkPcs, Undoing, TypeOK, Apart, OnCourse, Clients,
      Trunks, OnTrunk, InUse, EndOne, Snapshot, Recheck, Sweep
<1>19. ASSUME NEW c \in Clients, Swept(c) \/ Repair(c) \/ ListStale(c) PROVE HolderAtWork'
  BY <1>19 DEF HolderAtWork, Holds, HoldPcs, WorkPcs, Undoing, TypeOK, Apart, OnCourse, Clients,
      Trunks, InUse, StaleOf, Swept, Repair, ListStale
<1>22. ASSUME NEW c \in Clients, BindDevice(c) PROVE HolderAtWork'
  BY <1>22 DEF HolderAtWork, Holds, HoldPcs, WorkPcs, Undoing, TypeOK, Apart, OnCourse, Clients,
      Trunks, Bind, LastOn, BindDevice
<1>23. ASSUME NEW c \in Clients, Forget(c) PROVE HolderAtWork'
  BY <1>23 DEF HolderAtWork, Holds, HoldPcs, WorkPcs, Undoing, TypeOK, Apart, OnCourse, Clients,
      Trunks, Owned, Forget
<1>24. ASSUME NEW c \in Clients, LoggedOut(c) PROVE HolderAtWork'
  BY <1>24 DEF HolderAtWork, Holds, HoldPcs, WorkPcs, Undoing, TypeOK, Apart, OnCourse, Clients,
      Trunks, Unbind, LoggedOut
<1>25. ASSUME NEW c \in Clients, TakeToRegister(c) PROVE HolderAtWork'
  BY <1>25, SMTT(40) DEF HolderAtWork, Holds, HoldPcs, WorkPcs, Undoing, TypeOK, Apart, OnCourse, Clients,
      Trunks, MustRegister, Take, TakeToRegister
<1>26. ASSUME NEW c \in Clients, TakeToClean(c) PROVE HolderAtWork'
  BY <1>26 DEF HolderAtWork, Holds, HoldPcs, WorkPcs, Undoing, TypeOK, Apart, OnCourse, Clients,
      Trunks, InUse, Take, AfterLock, TakeToClean
<1>27. ASSUME NEW c \in Clients, ReleaseStale(c) PROVE HolderAtWork'
  BY <1>27 DEF HolderAtWork, Holds, HoldPcs, WorkPcs, Undoing, TypeOK, Apart, OnCourse, Clients,
      Trunks, TakeToRelease, Take, ReleaseStale
<1>28. ASSUME NEW c \in Clients, Move(c) \/ TakeToLogout(c) PROVE HolderAtWork'
  BY <1>28 DEF HolderAtWork, Holds, HoldPcs, WorkPcs, Undoing, TypeOK, Apart, OnCourse, Clients,
      Trunks, TakeToRelease, Take, UsedByOthers, Move, TakeToLogout
<1>30. ASSUME NEW c \in Clients, NEW t \in Trunks, AgentRegister(c, t) \/ DeviceRegister(c, t) PROVE HolderAtWork'
  BY <1>30 DEF HolderAtWork, Holds, HoldPcs, WorkPcs, Undoing, TypeOK, Apart, OnCourse, Clients,
      Trunks, Bind, LastOn, Notify, AgentRegister, DeviceRegister
<1>32. ASSUME NEW c \in Clients, Unregister(c) \/ CallNotReady(c) \/ SocketCloses(c) PROVE HolderAtWork'
  BY <1>32 DEF HolderAtWork, Holds, HoldPcs, WorkPcs, Undoing, TypeOK, Apart, OnCourse, Clients,
      Trunks, Unregister, CallNotReady, SocketCloses
<1>35. ASSUME NEW c \in Clients, NEW s \in Sids, Call(c, s) PROVE HolderAtWork'
  BY <1>35 DEF HolderAtWork, Holds, HoldPcs, WorkPcs, Undoing, TypeOK, Apart, OnCourse, Clients,
      Trunks, NoSession, Call
<1>36. ASSUME NEW t \in Trunks, RefreshTick(t) \/ RefreshSend(t) \/ RefreshDone(t) PROVE HolderAtWork'
  BY <1>36 DEF HolderAtWork, Holds, HoldPcs, WorkPcs, Undoing, TypeOK, Apart, OnCourse, Clients,
      Trunks, Accepted, Refused, RefreshTick, RefreshSend, RefreshDone
<1>39. ASSUME NEW t \in Trunks, RenewLease(t) \/ PeerTakes(t) \/ PeerReleases(t) PROVE HolderAtWork'
  BY <1>39 DEF HolderAtWork, Holds, HoldPcs, WorkPcs, Undoing, TypeOK, Apart, OnCourse, Clients,
      Trunks, RenewLease, PeerTakes, PeerReleases
<1>42. CASE HeartbeatTick \/ Renewed
  BY <1>42 DEF HolderAtWork, Holds, HoldPcs, WorkPcs, Undoing, TypeOK, Apart, OnCourse, Clients,
      Trunks, HeartbeatTick, Renewed
<1>44. ASSUME NEW s \in Sids, CallEnds(s) PROVE HolderAtWork'
  BY <1>44 DEF HolderAtWork, Holds, HoldPcs, WorkPcs, Undoing, TypeOK, Apart, OnCourse, Clients,
      Trunks, CallEnds
<1>45. ASSUME NEW t \in Trunks, NEW s \in Sids, Ring(t, s) PROVE HolderAtWork'
  BY <1>45 DEF HolderAtWork, Holds, HoldPcs, WorkPcs, Undoing, TypeOK, Apart, OnCourse, Clients,
      Trunks, NoSession, Ring
<1>46. CASE UNCHANGED vars
  BY <1>46 DEF vars, HolderAtWork, Holds, HoldPcs
<1> QED
  BY <1>1, <1>4, <1>7, <1>10, <1>13, <1>16, <1>19, <1>22, <1>23, <1>24, <1>25, <1>26, <1>27,
      <1>28, <1>30, <1>32, <1>35, <1>36, <1>39, <1>42, <1>44, <1>45, <1>46 DEF Next, Works, Waits,
      Asks, Background, Keeps, AsDevice

(* A trunk whose lock is free is registered or not. *)
LEMMA AllWholeStep ==
  ASSUME TypeOK, Apart, OnCourse, LockHeld, Separate, Nobody, AllWhole, AllPhases,
         [Next]_vars
  PROVE  AllWhole'
<1> USE PresenceAssumption DEF Goto, connVars, workVars, regVars, bgVars, callVars
<1>1. ASSUME NEW c \in Clients, Unlock(c) \/ RegLease(c) \/ RegSend(c) PROVE AllWhole'
  BY <1>1 DEF Separate, Nobody, AllWhole, AllPhases, Phase, Settled, Registered, Off, LockHeld,
      Holds, HoldPcs, WorkPcs, TypeOK, Apart, OnCourse, Clients, Trunks, AfterLock, Accepted,
      Refused, Unlock, RegLease, RegSend
<1>4. ASSUME NEW c \in Clients, RegDone(c) \/ Tell(c) \/ Drop(c) PROVE AllWhole'
  BY <1>4 DEF Separate, Nobody, AllWhole, AllPhases, Phase, Settled, Registered, Off, LockHeld,
      Holds, HoldPcs, WorkPcs, TypeOK, Apart, OnCourse, Clients, Trunks, Unbind, RegDone, Tell,
      Drop
<1>7. ASSUME NEW c \in Clients, Clear(c) \/ ChooseContact(c) \/ KeepSend(c) PROVE AllWhole'
  BY <1>7 DEF Separate, Nobody, AllWhole, AllPhases, Phase, Settled, Registered, Off, LockHeld,
      Holds, HoldPcs, WorkPcs, TypeOK, Apart, OnCourse, Clients, Trunks, Siblings, Accepted,
      Refused, KeepNext, Clear, ChooseContact, KeepSend
<1>10. ASSUME NEW c \in Clients, KeepDone(c) \/ Expire(c) \/ Release(c) PROVE AllWhole'
  BY <1>10, SMTT(40) DEF Separate, Nobody, AllWhole, AllPhases, Phase, Settled, Registered, Off, LockHeld,
      Holds, HoldPcs, WorkPcs, TypeOK, Apart, OnCourse, Clients, Trunks, KeepNext, KeepDone,
      Expire, Release
<1>13. ASSUME NEW c \in Clients, Leave(c) \/ Hangup(c) \/ HungUp(c) PROVE AllWhole'
  BY <1>13 DEF Separate, Nobody, AllWhole, AllPhases, Phase, Settled, Registered, Off, LockHeld,
      Holds, HoldPcs, WorkPcs, TypeOK, Apart, OnCourse, Clients, Trunks, Unbind, LastOn, Owned,
      EndOne, Leave, Hangup, HungUp
<1>16. ASSUME NEW c \in Clients, Snapshot(c) \/ Recheck(c) \/ Sweep(c) PROVE AllWhole'
  BY <1>16 DEF Separate, Nobody, AllWhole, AllPhases, Phase, Settled, Registered, Off, LockHeld,
      Holds, HoldPcs, WorkPcs, TypeOK, Apart, OnCourse, Clients, Trunks, OnTrunk, InUse, EndOne,
      Snapshot, Recheck, Sweep
<1>19. ASSUME NEW c \in Clients, Swept(c) \/ Repair(c) \/ ListStale(c) PROVE AllWhole'
  BY <1>19 DEF Separate, Nobody, AllWhole, AllPhases, Phase, Settled, Registered, Off, LockHeld,
      Holds, HoldPcs, WorkPcs, TypeOK, Apart, OnCourse, Clients, Trunks, InUse, StaleOf, Swept,
      Repair, ListStale
<1>22. ASSUME NEW c \in Clients, BindDevice(c) \/ Forget(c) \/ LoggedOut(c) PROVE AllWhole'
  BY <1>22, SMTT(60) DEF Separate, Nobody, AllWhole, AllPhases, Phase, Settled, Registered, Off, LockHeld,
      Holds, HoldPcs, WorkPcs, TypeOK, Apart, OnCourse, Clients, Trunks, Bind, LastOn, Owned,
      Unbind, BindDevice, Forget, LoggedOut
<1>25. ASSUME NEW c \in Clients, TakeToRegister(c) \/ TakeToClean(c) \/ ReleaseStale(c) PROVE AllWhole'
  BY <1>25, SMTT(60) DEF Separate, Nobody, AllWhole, AllPhases, Phase, Settled, Registered, Off, LockHeld,
      Holds, HoldPcs, WorkPcs, TypeOK, Apart, OnCourse, Clients, Trunks, MustRegister, Take,
      InUse, AfterLock, TakeToRelease, TakeToRegister, TakeToClean, ReleaseStale
<1>28. ASSUME NEW c \in Clients, Move(c) \/ TakeToLogout(c) PROVE AllWhole'
  BY <1>28 DEF Separate, Nobody, AllWhole, AllPhases, Phase, Settled, Registered, Off, LockHeld,
      Holds, HoldPcs, WorkPcs, TypeOK, Apart, OnCourse, Clients, Trunks, TakeToRelease, Take,
      UsedByOthers, Move, TakeToLogout
<1>30. ASSUME NEW c \in Clients, NEW t \in Trunks, AgentRegister(c, t) \/ DeviceRegister(c, t) PROVE AllWhole'
  BY <1>30 DEF Separate, Nobody, AllWhole, AllPhases, Phase, Settled, Registered, Off, LockHeld,
      Holds, HoldPcs, WorkPcs, TypeOK, Apart, OnCourse, Clients, Trunks, Bind, LastOn, Notify,
      AgentRegister, DeviceRegister
<1>32. ASSUME NEW c \in Clients, Unregister(c) \/ CallNotReady(c) \/ SocketCloses(c) PROVE AllWhole'
  BY <1>32 DEF Separate, Nobody, AllWhole, AllPhases, Phase, Settled, Registered, Off, LockHeld,
      Holds, HoldPcs, WorkPcs, TypeOK, Apart, OnCourse, Clients, Trunks, Unregister, CallNotReady,
      SocketCloses
<1>35. ASSUME NEW c \in Clients, NEW s \in Sids, Call(c, s) PROVE AllWhole'
  BY <1>35 DEF Separate, Nobody, AllWhole, AllPhases, Phase, Settled, Registered, Off, LockHeld,
      Holds, HoldPcs, WorkPcs, TypeOK, Apart, OnCourse, Clients, Trunks, NoSession, Call
<1>36. ASSUME NEW t \in Trunks, RefreshTick(t) \/ RefreshSend(t) \/ RefreshDone(t) PROVE AllWhole'
  BY <1>36 DEF Separate, Nobody, AllWhole, AllPhases, Phase, Settled, Registered, Off, LockHeld,
      Holds, HoldPcs, WorkPcs, TypeOK, Apart, OnCourse, Clients, Trunks, Accepted, Refused,
      RefreshTick, RefreshSend, RefreshDone
<1>39. ASSUME NEW t \in Trunks, RenewLease(t) \/ PeerTakes(t) \/ PeerReleases(t) PROVE AllWhole'
  BY <1>39 DEF Separate, Nobody, AllWhole, AllPhases, Phase, Settled, Registered, Off, LockHeld,
      Holds, HoldPcs, WorkPcs, TypeOK, Apart, OnCourse, Clients, Trunks, RenewLease, PeerTakes,
      PeerReleases
<1>42. CASE HeartbeatTick \/ Renewed
  BY <1>42 DEF Separate, Nobody, AllWhole, AllPhases, Phase, Settled, Registered, Off, LockHeld,
      Holds, HoldPcs, WorkPcs, TypeOK, Apart, OnCourse, Clients, Trunks, HeartbeatTick, Renewed
<1>44. ASSUME NEW s \in Sids, CallEnds(s) PROVE AllWhole'
  BY <1>44 DEF Separate, Nobody, AllWhole, AllPhases, Phase, Settled, Registered, Off, LockHeld,
      Holds, HoldPcs, WorkPcs, TypeOK, Apart, OnCourse, Clients, Trunks, CallEnds
<1>45. ASSUME NEW t \in Trunks, NEW s \in Sids, Ring(t, s) PROVE AllWhole'
  BY <1>45 DEF Separate, Nobody, AllWhole, AllPhases, Phase, Settled, Registered, Off, LockHeld,
      Holds, HoldPcs, WorkPcs, TypeOK, Apart, OnCourse, Clients, Trunks, NoSession, Ring
<1>46. CASE UNCHANGED vars
  BY <1>46 DEF vars, AllWhole, Settled, Registered, Off
<1> QED
  BY <1>1, <1>4, <1>7, <1>10, <1>13, <1>16, <1>19, <1>22, <1>25, <1>28, <1>30, <1>32, <1>35,
      <1>36, <1>39, <1>42, <1>44, <1>45, <1>46 DEF Next, Works, Waits, Asks, Background, Keeps,
      AsDevice

(* An operation comes so far. *)
LEMMA AllPhasesStep ==
  ASSUME TypeOK, Apart, OnCourse, LockHeld, Separate, Nobody, AllWhole, AllPhases,
         [Next]_vars
  PROVE  AllPhases'
<1> USE PresenceAssumption DEF Goto, connVars, workVars, regVars, bgVars, callVars
<1>1. ASSUME NEW c \in Clients, Unlock(c) \/ RegLease(c) \/ RegSend(c) PROVE AllPhases'
  BY <1>1, SMTT(60) DEF Separate, Nobody, AllWhole, AllPhases, Phase, Settled, Registered, Off, LockHeld,
      Holds, HoldPcs, WorkPcs, Undoing, TypeOK, Apart, OnCourse, Clients, Trunks, AfterLock,
      Accepted, Refused, Unlock, RegLease, RegSend
<1>4. ASSUME NEW c \in Clients, RegDone(c) \/ Tell(c) \/ Drop(c) PROVE AllPhases'
  BY <1>4 DEF Separate, Nobody, AllWhole, AllPhases, Phase, Settled, Registered, Off, LockHeld,
      Holds, HoldPcs, WorkPcs, Undoing, TypeOK, Apart, OnCourse, Clients, Trunks, Unbind, RegDone,
      Tell, Drop
<1>7. ASSUME NEW c \in Clients, Clear(c) \/ ChooseContact(c) \/ KeepSend(c) PROVE AllPhases'
  BY <1>7, SMTT(40) DEF Separate, Nobody, AllWhole, AllPhases, Phase, Settled, Registered, Off, LockHeld,
      Holds, HoldPcs, WorkPcs, Undoing, TypeOK, Apart, OnCourse, Clients, Trunks, Siblings,
      Accepted, Refused, KeepNext, Clear, ChooseContact, KeepSend
<1>10. ASSUME NEW c \in Clients, KeepDone(c) PROVE AllPhases'
  BY <1>10, SMTT(40) DEF Separate, Nobody, AllWhole, AllPhases, Phase, Settled, Registered, Off, LockHeld,
      Holds, HoldPcs, WorkPcs, Undoing, TypeOK, Apart, OnCourse, Clients, Trunks, KeepNext,
      KeepDone
<1>11. ASSUME NEW c \in Clients, Expire(c) PROVE AllPhases'
  BY <1>11, SMTT(60) DEF Separate, Nobody, AllWhole, AllPhases, Phase, Settled, Registered, Off, LockHeld,
      Holds, HoldPcs, WorkPcs, Undoing, TypeOK, Apart, OnCourse, Clients, Trunks, Expire
<1>12. ASSUME NEW c \in Clients, Release(c) PROVE AllPhases'
  BY <1>12, SMTT(40) DEF Separate, Nobody, AllWhole, AllPhases, Phase, Settled, Registered, Off, LockHeld,
      Holds, HoldPcs, WorkPcs, Undoing, TypeOK, Apart, OnCourse, Clients, Trunks, Release
<1>13. ASSUME NEW c \in Clients, Leave(c) \/ Hangup(c) \/ HungUp(c) PROVE AllPhases'
  BY <1>13 DEF Separate, Nobody, AllWhole, AllPhases, Phase, Settled, Registered, Off, LockHeld,
      Holds, HoldPcs, WorkPcs, Undoing, TypeOK, Apart, OnCourse, Clients, Trunks, Unbind, LastOn,
      Owned, EndOne, Leave, Hangup, HungUp
<1>16. ASSUME NEW c \in Clients, Snapshot(c) \/ Recheck(c) \/ Sweep(c) PROVE AllPhases'
  BY <1>16 DEF Separate, Nobody, AllWhole, AllPhases, Phase, Settled, Registered, Off, LockHeld,
      Holds, HoldPcs, WorkPcs, Undoing, TypeOK, Apart, OnCourse, Clients, Trunks, OnTrunk, InUse,
      EndOne, Snapshot, Recheck, Sweep
<1>19. ASSUME NEW c \in Clients, Swept(c) \/ Repair(c) \/ ListStale(c) PROVE AllPhases'
  BY <1>19, SMTT(40) DEF Separate, Nobody, AllWhole, AllPhases, Phase, Settled, Registered, Off, LockHeld,
      Holds, HoldPcs, WorkPcs, Undoing, TypeOK, Apart, OnCourse, Clients, Trunks, InUse, StaleOf,
      Swept, Repair, ListStale
<1>22. ASSUME NEW c \in Clients, BindDevice(c) PROVE AllPhases'
  BY <1>22 DEF Separate, Nobody, AllWhole, AllPhases, Phase, Settled, Registered, Off, LockHeld,
      Holds, HoldPcs, WorkPcs, Undoing, TypeOK, Apart, OnCourse, Clients, Trunks, Bind, LastOn,
      BindDevice
<1>23. ASSUME NEW c \in Clients, Forget(c) PROVE AllPhases'
  BY <1>23, SMTT(40) DEF Separate, Nobody, AllWhole, AllPhases, Phase, Settled, Registered, Off, LockHeld,
      Holds, HoldPcs, WorkPcs, Undoing, TypeOK, Apart, OnCourse, Clients, Trunks, Owned, Forget
<1>24. ASSUME NEW c \in Clients, LoggedOut(c) PROVE AllPhases'
  BY <1>24, SMTT(40) DEF Separate, Nobody, AllWhole, AllPhases, Phase, Settled, Registered, Off, LockHeld,
      Holds, HoldPcs, WorkPcs, Undoing, TypeOK, Apart, OnCourse, Clients, Trunks, Unbind,
      LoggedOut
<1>25. ASSUME NEW c \in Clients, TakeToRegister(c) \/ TakeToClean(c) \/ ReleaseStale(c) PROVE AllPhases'
  BY <1>25, SMTT(60) DEF Separate, Nobody, AllWhole, AllPhases, Phase, Settled, Registered, Off, LockHeld,
      Holds, HoldPcs, WorkPcs, Undoing, TypeOK, Apart, OnCourse, Clients, Trunks, MustRegister,
      Take, InUse, AfterLock, TakeToRelease, TakeToRegister, TakeToClean, ReleaseStale
<1>28. ASSUME NEW c \in Clients, Move(c) \/ TakeToLogout(c) PROVE AllPhases'
  BY <1>28, SMTT(40) DEF Separate, Nobody, AllWhole, AllPhases, Phase, Settled, Registered, Off, LockHeld,
      Holds, HoldPcs, WorkPcs, Undoing, TypeOK, Apart, OnCourse, Clients, Trunks, TakeToRelease,
      Take, UsedByOthers, Move, TakeToLogout
<1>30. ASSUME NEW c \in Clients, NEW t \in Trunks, AgentRegister(c, t) \/ DeviceRegister(c, t) PROVE AllPhases'
  BY <1>30, SMTT(40) DEF Separate, Nobody, AllWhole, AllPhases, Phase, Settled, Registered, Off, LockHeld,
      Holds, HoldPcs, WorkPcs, Undoing, TypeOK, Apart, OnCourse, Clients, Trunks, Bind, LastOn,
      Notify, AgentRegister, DeviceRegister
<1>32. ASSUME NEW c \in Clients, Unregister(c) \/ CallNotReady(c) \/ SocketCloses(c) PROVE AllPhases'
  BY <1>32 DEF Separate, Nobody, AllWhole, AllPhases, Phase, Settled, Registered, Off, LockHeld,
      Holds, HoldPcs, WorkPcs, Undoing, TypeOK, Apart, OnCourse, Clients, Trunks, Unregister,
      CallNotReady, SocketCloses
<1>35. ASSUME NEW c \in Clients, NEW s \in Sids, Call(c, s) PROVE AllPhases'
  BY <1>35 DEF Separate, Nobody, AllWhole, AllPhases, Phase, Settled, Registered, Off, LockHeld,
      Holds, HoldPcs, WorkPcs, Undoing, TypeOK, Apart, OnCourse, Clients, Trunks, NoSession, Call
<1>36. ASSUME NEW t \in Trunks, RefreshTick(t) \/ RefreshSend(t) \/ RefreshDone(t) PROVE AllPhases'
  BY <1>36 DEF Separate, Nobody, AllWhole, AllPhases, Phase, Settled, Registered, Off, LockHeld,
      Holds, HoldPcs, WorkPcs, Undoing, TypeOK, Apart, OnCourse, Clients, Trunks, Accepted,
      Refused, RefreshTick, RefreshSend, RefreshDone
<1>39. ASSUME NEW t \in Trunks, RenewLease(t) \/ PeerTakes(t) \/ PeerReleases(t) PROVE AllPhases'
  BY <1>39, SMTT(40) DEF Separate, Nobody, AllWhole, AllPhases, Phase, Settled, Registered, Off, LockHeld,
      Holds, HoldPcs, WorkPcs, Undoing, TypeOK, Apart, OnCourse, Clients, Trunks, RenewLease,
      PeerTakes, PeerReleases
<1>42. CASE HeartbeatTick \/ Renewed
  BY <1>42 DEF Separate, Nobody, AllWhole, AllPhases, Phase, Settled, Registered, Off, LockHeld,
      Holds, HoldPcs, WorkPcs, Undoing, TypeOK, Apart, OnCourse, Clients, Trunks, HeartbeatTick,
      Renewed
<1>44. ASSUME NEW s \in Sids, CallEnds(s) PROVE AllPhases'
  BY <1>44 DEF Separate, Nobody, AllWhole, AllPhases, Phase, Settled, Registered, Off, LockHeld,
      Holds, HoldPcs, WorkPcs, Undoing, TypeOK, Apart, OnCourse, Clients, Trunks, CallEnds
<1>45. ASSUME NEW t \in Trunks, NEW s \in Sids, Ring(t, s) PROVE AllPhases'
  BY <1>45 DEF Separate, Nobody, AllWhole, AllPhases, Phase, Settled, Registered, Off, LockHeld,
      Holds, HoldPcs, WorkPcs, Undoing, TypeOK, Apart, OnCourse, Clients, Trunks, NoSession, Ring
<1>46. CASE UNCHANGED vars
  BY <1>46 DEF vars, AllPhases, Phase, Settled, Registered, Off
<1> QED
  BY <1>1, <1>4, <1>7, <1>10, <1>11, <1>12, <1>13, <1>16, <1>19, <1>22, <1>23, <1>24, <1>25,
      <1>28, <1>30, <1>32, <1>35, <1>36, <1>39, <1>42, <1>44, <1>45, <1>46, SMTT(40) DEF Next, Works, Waits,
      Asks, Background, Keeps, AsDevice

LEMMA SeparateInit ==
  ASSUME Init, Separate
  PROVE  HolderAtWork /\ AllWhole /\ AllPhases
<1>1. \A t \in Trunks : Off(t)
  BY DEF Init, Off
<1>2. HolderAtWork
  BY DEF Init, HolderAtWork
<1>3. AllWhole
  BY <1>1 DEF AllWhole, Settled
<1>4. AllPhases
  BY DEF Init, AllPhases, Phase
<1> QED
  BY <1>2, <1>3, <1>4

LEMMA SeparateStep ==
  ASSUME TypeOK, Apart, OnCourse, LockHeld, UndisturbedKept, SeparateKept, [Next]_vars
  PROVE  SeparateKept'
<1> SUFFICES ASSUME Separate PROVE (HolderAtWork /\ AllWhole /\ AllPhases)'
  BY DEF SeparateKept, Separate
<1>1. HolderAtWork /\ AllWhole /\ AllPhases
  BY DEF SeparateKept
<1>2. Undisturbed
  BY PresenceAssumption DEF Separate, Undisturbed, Trunks
<1>3. Nobody
  BY <1>2 DEF UndisturbedKept, TrunkInv
<1> QED
  BY <1>1, <1>3, HolderStep, AllWholeStep, AllPhasesStep

(* Every part of every trunk's registration changes together. *)
THEOREM SeparateInvariance == Spec => []SeparateKept
<1>1. Init => SeparateKept
  BY SeparateInit DEF SeparateKept
<1>2. IInv /\ UndisturbedKept /\ SeparateKept /\ [Next]_vars => SeparateKept'
  BY SeparateStep DEF IInv
<1> QED
  BY <1>1, <1>2, Invariance, UndisturbedInvariance, PTL DEF Spec

(* However agents and phones that register, move, leave, log out and release each
   other's trunks interleave, a trunk nobody works on is registered altogether or
   not at all (lockAgentTrunkOperation, releaseStaleAgentDeviceTrunks): what the
   run registrations checks of two phones, for any number of clients and trunks
   with Contacts of their own. *)
THEOREM TrunksAllOrNothing == Separate => (Spec => []AllOrNothing)
<1> SUFFICES ASSUME Separate PROVE Spec => []AllOrNothing
  OBVIOUS
<1>1. TypeOK /\ SeparateKept => AllOrNothing
  <2> SUFFICES ASSUME TypeOK, SeparateKept, NEW t \in Trunks, ~Busy(t)
               PROVE  Registered(t) \/ Released(t)
    BY DEF AllOrNothing
  <2>1. opLock[t] = None
    BY SMTT(40) DEF SeparateKept, HolderAtWork, Holds, HoldPcs, Busy, TypeOK
  <2> QED
    BY <2>1 DEF SeparateKept, AllWhole, Settled, Off, Released
<1> QED
  BY <1>1, SeparateInvariance, TypeCorrect, PTL

=============================================================================
