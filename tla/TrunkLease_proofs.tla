------------------------- MODULE TrunkLease_proofs --------------------------
(***************************************************************************)
(* Proofs about TrunkLease for every set of instances, operations and      *)
(* workers, and whatever may coincide.                                     *)
(***************************************************************************)
EXTENDS TrunkLease, TLAPS

-----------------------------------------------------------------------------
(* The inductive step, one lemma per part of WorkerInv *)

(* What an accepted REGISTER does to the workers: a new one, which nobody
   names, takes the place of the one of the map. *)
NewWorker(a, s) ==
  /\ s \in Slots /\ a # s /\ pc[s] = "none" /\ at[s] = None /\ \A i \in Instances : ~Names(i, s)
  /\ at[a] \in Instances
  /\ entry' = [entry EXCEPT ![at[a]] = s] /\ Close({entry[at[a]]} \ {None})
  /\ pc' = [pc EXCEPT ![s] = "tick", ![a] = IF a \in Slots THEN "tick" ELSE "done"]
  /\ at' = [at EXCEPT ![s] = at[a], ![a] = IF a \in Slots THEN at[a] ELSE None]

LEMMA AcceptedEffect ==
  ASSUME TypeOK, Located, NEW a \in Actors, Accepted(a)
  PROVE  \E s \in Slots : NewWorker(a, s)
<1> DEFINE t == CHOOSE s \in Unused : TRUE
<1>1. t \in Unused
  BY DEF Accepted
<1>2. t \in Slots /\ pc[t] = "none" /\ \A i \in Instances : ~Names(i, t)
  BY <1>1 DEF Unused, Names
<1>3. pc[a] = "sent" /\ a # t
  BY <1>2 DEF Accepted
<1>4. at[a] \in Instances /\ at[t] = None
  BY <1>2, <1>3 DEF Located, TypeOK, Actors
<1>5. /\ entry' = [entry EXCEPT ![at[a]] = t] /\ Close({entry[at[a]]} \ {None})
      /\ pc' = [pc EXCEPT ![t] = "tick", ![a] = IF a \in Slots THEN "tick" ELSE "done"]
      /\ at' = [at EXCEPT ![t] = at[a], ![a] = IF a \in Slots THEN at[a] ELSE None]
  BY DEF Accepted
<1> HIDE DEF t
<1> QED
  BY <1>2, <1>3, <1>4, <1>5 DEF NewWorker

(* Every step keeps the types. *)
LEMMA TypeStep ==
  ASSUME TypeOK, Located, Loaded, [Next]_vars
  PROVE  TypeOK'
<1> USE NoneAssumption, ApartAssumption, BoundAssumption, WorldsAssumption
       DEF row, memory, process, ops, history, Actors, Asked, Kinds
<1>1. ASSUME NEW o \in Ops, NEW i \in Instances, Boot(o, i) PROVE TypeOK'
  BY <1>1 DEF TypeOK, Located, Steps, Cached, Boot, Launch, FirstStep
<1>2. ASSUME NEW o \in Ops, NEW i \in Instances, NEW k \in Asked, Request(o, i, k) PROVE TypeOK'
  BY <1>2 DEF TypeOK, Located, Steps, Cached, Request, Launch, FirstStep
<1>3. ASSUME NEW o \in Ops, Fails(o) PROVE TypeOK'
  BY <1>3 DEF TypeOK, Located, Steps, Cached, Fails, Goto, MayWork, MayFail
<1>4. ASSUME NEW o \in Ops, SetAuto(o) PROVE TypeOK'
  BY <1>4 DEF TypeOK, Located, Steps, Cached, SetAuto, Goto, MayWork
<1>5. ASSUME NEW o \in Ops, ForceLease(o) PROVE TypeOK'
  <2>0. at[o] \in Instances
    BY <1>5 DEF TypeOK, Located, ForceLease
  <2>7. (owner' = at[o] /\ expired' = FALSE) \/ UNCHANGED <<owner, expired>>
    BY <1>5 DEF ForceLease, Takes
  <2>9. owner' \in Instances \cup {None}
    BY <2>0, <2>7 DEF TypeOK
  <2>10. expired' \in BOOLEAN
    BY <2>7, Zenon DEF TypeOK
  <2>8. UNCHANGED <<world, enabled, auto, bound>>
    BY <1>5 DEF ForceLease
  <2>1. enabled' \in BOOLEAN /\ auto' \in BOOLEAN /\ owner' \in Instances \cup {None} /\ expired' \in BOOLEAN
        /\ bound' \subseteq Instances /\ world' = world
    BY <2>8, <2>9, <2>10 DEF TypeOK
  <2>2. known' \in [Instances -> Cached] /\ owned' \in [Instances -> BOOLEAN]
        /\ entry' \in [Instances -> Slots \cup {None}] /\ closed' \subseteq Slots
    BY <1>5, <2>8, <2>9, <2>10 DEF TypeOK, Cached, ForceLease
  <2>3. held' \in [Instances -> Slots \cup {None}] /\ downs' \in 0..MaxDowns
        /\ life' \in [Instances -> {"down", "starting", "up", "closing", "expiring", "ended"}]
        /\ beat' \in [Instances -> {"idle", "won", "lost"}]
    BY <1>5 DEF TypeOK, Cached, ForceLease
  <2>4. pc' \in [Actors -> Steps] /\ at' \in [Actors -> Instances \cup {None}]
    BY <1>5, <2>8, <2>9, <2>10 DEF TypeOK, Cached, ForceLease, Steps, Goto
  <2>5. kind' \in [Ops -> Asked \cup {"start", None}] /\ seen' \in [Ops -> Cached \cup {None, "failed"}]
    BY <1>5 DEF TypeOK, Cached, ForceLease, Goto
  <2>6. alone' \in Ops \cup {None} /\ login' \in Instances \cup {None} /\ logout' \in BOOLEAN
    BY <1>5, <2>8, <2>9, <2>10 DEF TypeOK, Cached, ForceLease
  <2> QED
    BY <2>1, <2>2, <2>3, <2>4, <2>5, <2>6 DEF TypeOK
<1>6. ASSUME NEW o \in Ops, Own(o) PROVE TypeOK'
  BY <1>6 DEF TypeOK, Located, Steps, Cached, Own, Goto, MayWork
<1>7. ASSUME NEW o \in Ops, Load(o) PROVE TypeOK'
  BY <1>7 DEF TypeOK, Located, Steps, Cached, Load, Goto, MayWork
<1>8. ASSUME NEW o \in Ops, Replace(o) PROVE TypeOK'
  <2>0. at[o] \in Instances
    BY <1>8 DEF TypeOK, Located, Replace
  <2>1. enabled' \in BOOLEAN /\ auto' \in BOOLEAN /\ owner' \in Instances \cup {None} /\ expired' \in BOOLEAN
        /\ bound' \subseteq Instances /\ world' = world
    BY <1>8, <2>0 DEF TypeOK, Cached, Replace
  <2>2. known' \in [Instances -> Cached] /\ owned' \in [Instances -> BOOLEAN]
        /\ entry' \in [Instances -> Slots \cup {None}] /\ closed' \subseteq Slots
    BY <1>8, <2>0 DEF TypeOK, Cached, Replace, Loaded
  <2>3. held' \in [Instances -> Slots \cup {None}] /\ downs' \in 0..MaxDowns
        /\ life' \in [Instances -> {"down", "starting", "up", "closing", "expiring", "ended"}]
        /\ beat' \in [Instances -> {"idle", "won", "lost"}]
    BY <1>8 DEF TypeOK, Cached, Replace
  <2>4. pc' \in [Actors -> Steps] /\ at' \in [Actors -> Instances \cup {None}]
    BY <1>8, <2>0 DEF TypeOK, Cached, Replace, Steps, Goto
  <2>5. kind' \in [Ops -> Asked \cup {"start", None}] /\ seen' \in [Ops -> Cached \cup {None, "failed"}]
    BY <1>8 DEF TypeOK, Cached, Replace, Goto
  <2>6. alone' \in Ops \cup {None} /\ login' \in Instances \cup {None} /\ logout' \in BOOLEAN
    BY <1>8, <2>0 DEF TypeOK, Cached, Replace
  <2> QED
    BY <2>1, <2>2, <2>3, <2>4, <2>5, <2>6 DEF TypeOK
<1>9. ASSUME NEW o \in Ops, Lease(o) PROVE TypeOK'
  <2>0. at[o] \in Instances
    BY <1>9 DEF TypeOK, Located, Lease
  <2>7. (owner' = at[o] /\ expired' = FALSE) \/ UNCHANGED <<owner, expired>>
    BY <1>9 DEF Lease, Takes
  <2>9. owner' \in Instances \cup {None}
    BY <2>0, <2>7 DEF TypeOK
  <2>10. expired' \in BOOLEAN
    BY <2>7, Zenon DEF TypeOK
  <2>8. UNCHANGED <<world, enabled, auto, bound>>
    BY <1>9 DEF Lease
  <2>1. enabled' \in BOOLEAN /\ auto' \in BOOLEAN /\ owner' \in Instances \cup {None} /\ expired' \in BOOLEAN
        /\ bound' \subseteq Instances /\ world' = world
    BY <2>8, <2>9, <2>10 DEF TypeOK
  <2>2. known' \in [Instances -> Cached] /\ owned' \in [Instances -> BOOLEAN]
        /\ entry' \in [Instances -> Slots \cup {None}] /\ closed' \subseteq Slots
    BY <1>9, <2>8, <2>9, <2>10 DEF TypeOK, Cached, Lease
  <2>3. held' \in [Instances -> Slots \cup {None}] /\ downs' \in 0..MaxDowns
        /\ life' \in [Instances -> {"down", "starting", "up", "closing", "expiring", "ended"}]
        /\ beat' \in [Instances -> {"idle", "won", "lost"}]
    BY <1>9 DEF TypeOK, Cached, Lease
  <2>4. pc' \in [Actors -> Steps] /\ at' \in [Actors -> Instances \cup {None}]
    BY <1>9, <2>8, <2>9, <2>10 DEF TypeOK, Cached, Lease, Steps, Goto
  <2>5. kind' \in [Ops -> Asked \cup {"start", None}] /\ seen' \in [Ops -> Cached \cup {None, "failed"}]
    BY <1>9 DEF TypeOK, Cached, Lease, Goto
  <2>6. alone' \in Ops \cup {None} /\ login' \in Instances \cup {None} /\ logout' \in BOOLEAN
    BY <1>9, <2>8, <2>9, <2>10 DEF TypeOK, Cached, Lease
  <2> QED
    BY <2>1, <2>2, <2>3, <2>4, <2>5, <2>6 DEF TypeOK
<1>10. ASSUME NEW o \in Ops, Disable(o) PROVE TypeOK'
  BY <1>10 DEF TypeOK, Located, Steps, Cached, Disable, Goto, MayWork
<1>11. ASSUME NEW o \in Ops, Off(o) PROVE TypeOK'
  BY <1>11 DEF TypeOK, Located, Steps, Cached, Off, Goto, MayWork
<1>12. ASSUME NEW o \in Ops, Clear(o) PROVE TypeOK'
  BY <1>12 DEF TypeOK, Located, Steps, Cached, Clear, Goto, MayWork, Forget, Close, Manual
<1>13. ASSUME NEW o \in Ops, Expire(o) PROVE TypeOK'
  BY <1>13 DEF TypeOK, Located, Steps, Cached, Expire, Goto, MayWork
<1>14. ASSUME NEW o \in Ops, Release(o) PROVE TypeOK'
  BY <1>14 DEF TypeOK, Located, Steps, Cached, Release, Goto, MayWork
<1>15. ASSUME NEW o \in Ops, Status(o) PROVE TypeOK'
  BY <1>15, ZenonT(40) DEF TypeOK, Located, Steps, Cached, Status, Goto, MayWork, Manual
<1>16. ASSUME NEW a \in Actors, Accepted(a) PROVE TypeOK'
  <2>0. at[a] \in Instances
    BY <1>16 DEF TypeOK, Located, Accepted
  <2>1. enabled' \in BOOLEAN /\ auto' \in BOOLEAN /\ owner' \in Instances \cup {None} /\ expired' \in BOOLEAN
        /\ bound' \subseteq Instances /\ world' = world
    BY <1>16, <2>0 DEF TypeOK, Cached, Accepted
  <2>2. known' \in [Instances -> Cached] /\ owned' \in [Instances -> BOOLEAN]
        /\ entry' \in [Instances -> Slots \cup {None}] /\ closed' \subseteq Slots
    BY <1>16, <2>0 DEF TypeOK, Cached, Accepted, Close, Unused
  <2>3. held' \in [Instances -> Slots \cup {None}] /\ downs' \in 0..MaxDowns
        /\ life' \in [Instances -> {"down", "starting", "up", "closing", "expiring", "ended"}]
        /\ beat' \in [Instances -> {"idle", "won", "lost"}]
    BY <1>16 DEF TypeOK, Cached, Accepted
  <2>4. pc' \in [Actors -> Steps] /\ at' \in [Actors -> Instances \cup {None}]
    BY <1>16, <2>0 DEF TypeOK, Cached, Accepted, Steps, Unused
  <2>5. kind' \in [Ops -> Asked \cup {"start", None}] /\ seen' \in [Ops -> Cached \cup {None, "failed"}]
    BY <1>16 DEF TypeOK, Cached, Accepted
  <2>6. alone' \in Ops \cup {None} /\ login' \in Instances \cup {None} /\ logout' \in BOOLEAN
    BY <1>16, <2>0 DEF TypeOK, Cached, Accepted, Settled
  <2> QED
    BY <2>1, <2>2, <2>3, <2>4, <2>5, <2>6 DEF TypeOK
<1>17. ASSUME NEW a \in Actors, NotAccepted(a) PROVE TypeOK'
  BY <1>17 DEF TypeOK, Located, Steps, Cached, NotAccepted, MayFail, Return, Goto
<1>18. ASSUME NEW s \in Slots, Tick(s) PROVE TypeOK'
  BY <1>18 DEF TypeOK, Located, Steps, Cached, Tick, Goto, Gone
<1>19. ASSUME NEW s \in Slots, WorkerStops(s) PROVE TypeOK'
  BY <1>19 DEF TypeOK, Located, Steps, Cached, WorkerStops, Goto, Gone
<1>20. ASSUME NEW i \in Instances, Renew(i) PROVE TypeOK'
  <2>7. (owner' = i /\ expired' = FALSE) \/ UNCHANGED <<owner, expired>>
    BY <1>20 DEF Renew, Takes
  <2>9. owner' \in Instances \cup {None}
    BY <2>7 DEF TypeOK
  <2>10. expired' \in BOOLEAN
    BY <2>7, Zenon DEF TypeOK
  <2>8. UNCHANGED <<world, enabled, auto, bound>>
    BY <1>20 DEF Renew
  <2>1. enabled' \in BOOLEAN /\ auto' \in BOOLEAN /\ owner' \in Instances \cup {None} /\ expired' \in BOOLEAN
        /\ bound' \subseteq Instances /\ world' = world
    BY <2>8, <2>9, <2>10 DEF TypeOK
  <2>2. known' \in [Instances -> Cached] /\ owned' \in [Instances -> BOOLEAN]
        /\ entry' \in [Instances -> Slots \cup {None}] /\ closed' \subseteq Slots
    BY <1>20, <2>8, <2>9, <2>10 DEF TypeOK, Cached, Renew
  <2>3. held' \in [Instances -> Slots \cup {None}] /\ downs' \in 0..MaxDowns
        /\ life' \in [Instances -> {"down", "starting", "up", "closing", "expiring", "ended"}]
        /\ beat' \in [Instances -> {"idle", "won", "lost"}]
    BY <1>20 DEF TypeOK, Cached, Renew
  <2>4. pc' \in [Actors -> Steps] /\ at' \in [Actors -> Instances \cup {None}]
    BY <1>20, <2>8, <2>9, <2>10 DEF TypeOK, Cached, Renew, Steps
  <2>5. kind' \in [Ops -> Asked \cup {"start", None}] /\ seen' \in [Ops -> Cached \cup {None, "failed"}]
    BY <1>20 DEF TypeOK, Cached, Renew
  <2>6. alone' \in Ops \cup {None} /\ login' \in Instances \cup {None} /\ logout' \in BOOLEAN
    BY <1>20, <2>8, <2>9, <2>10 DEF TypeOK, Cached, Renew
  <2> QED
    BY <2>1, <2>2, <2>3, <2>4, <2>5, <2>6 DEF TypeOK
<1>21. ASSUME NEW i \in Instances, Renewed(i) PROVE TypeOK'
  BY <1>21 DEF TypeOK, Located, Steps, Cached, Renewed
<1>22. ASSUME NEW i \in Instances, Lost(i) PROVE TypeOK'
  BY <1>22 DEF TypeOK, Located, Steps, Cached, Lost, Forget, Close
<1>23. ASSUME NEW i \in Instances, StopCloses(i) PROVE TypeOK'
  BY <1>23 DEF TypeOK, Located, Steps, Cached, StopCloses, Close
<1>24. ASSUME NEW i \in Instances, StopPanics(i) PROVE TypeOK'
  BY <1>24 DEF TypeOK, Located, Steps, Cached, StopPanics, Dies
<1>25. ASSUME NEW i \in Instances, StopReleases(i) PROVE TypeOK'
  BY <1>25 DEF TypeOK, Located, Steps, Cached, StopReleases
<1>26. ASSUME NEW i \in Instances, Exit(i) PROVE TypeOK'
  BY <1>26 DEF TypeOK, Located, Steps, Cached, Exit, Dies
<1>27. ASSUME NEW i \in Instances, Stop(i) PROVE TypeOK'
  BY <1>27 DEF TypeOK, Located, Steps, Cached, Stop
<1>28. ASSUME NEW i \in Instances, Started(i) PROVE TypeOK'
  BY <1>28 DEF TypeOK, Located, Steps, Cached, Started
<1>29. ASSUME NEW i \in Instances, Crash(i) PROVE TypeOK'
  BY <1>29 DEF TypeOK, Located, Steps, Cached, Crash, Dies
<1>30. CASE Expires
  BY <1>30 DEF TypeOK, Located, Steps, Cached, Expires
<1>31. CASE UNCHANGED vars
  BY <1>31 DEF vars, TypeOK, Located, Steps, Cached
<1> QED
  BY <1>1, <1>2, <1>3, <1>4, <1>5, <1>6, <1>7, <1>8, <1>9, <1>10, <1>11, <1>12, <1>13, <1>14,
      <1>15, <1>16, <1>17, <1>18, <1>19, <1>20, <1>21, <1>22, <1>23, <1>24, <1>25, <1>26, <1>27,
      <1>28, <1>29, <1>30, <1>31 DEF Next, OpStep, RegisterStep, BeatStep, StopStep

(* Whatever runs, runs in an instance. *)
LEMMA LocatedStep ==
  ASSUME TypeOK, Located, [Next]_vars
  PROVE  Located'
<1> USE NoneAssumption, ApartAssumption, BoundAssumption, WorldsAssumption
       DEF row, memory, process, ops, history, Actors, Asked, Kinds
<1>1. ASSUME NEW o \in Ops, NEW i \in Instances, Boot(o, i) PROVE Located'
  BY <1>1 DEF TypeOK, Located, Boot, Launch, FirstStep
<1>2. ASSUME NEW o \in Ops, NEW i \in Instances, NEW k \in Asked, Request(o, i, k) PROVE Located'
  BY <1>2 DEF TypeOK, Located, Request, Launch, FirstStep
<1>3. ASSUME NEW o \in Ops, Fails(o) PROVE Located'
  BY <1>3 DEF TypeOK, Located, Fails, Goto, MayWork, MayFail
<1>4. ASSUME NEW o \in Ops, SetAuto(o) PROVE Located'
  BY <1>4 DEF TypeOK, Located, SetAuto, Goto, MayWork
<1>5. ASSUME NEW o \in Ops, ForceLease(o) PROVE Located'
  BY <1>5 DEF TypeOK, Located, ForceLease, Goto, MayWork, Takes
<1>6. ASSUME NEW o \in Ops, Own(o) PROVE Located'
  BY <1>6 DEF TypeOK, Located, Own, Goto, MayWork
<1>7. ASSUME NEW o \in Ops, Load(o) PROVE Located'
  BY <1>7 DEF TypeOK, Located, Load, Goto, MayWork
<1>8. ASSUME NEW o \in Ops, Replace(o) PROVE Located'
  BY <1>8 DEF TypeOK, Located, Replace, Goto, MayWork
<1>9. ASSUME NEW o \in Ops, Lease(o) PROVE Located'
  BY <1>9 DEF TypeOK, Located, Lease, Goto, MayWork, Takes, Free
<1>10. ASSUME NEW o \in Ops, Disable(o) PROVE Located'
  BY <1>10 DEF TypeOK, Located, Disable, Goto, MayWork
<1>11. ASSUME NEW o \in Ops, Off(o) PROVE Located'
  BY <1>11 DEF TypeOK, Located, Off, Goto, MayWork
<1>12. ASSUME NEW o \in Ops, Clear(o) PROVE Located'
  BY <1>12 DEF TypeOK, Located, Clear, Goto, MayWork, Forget, Close, Manual
<1>13. ASSUME NEW o \in Ops, Expire(o) PROVE Located'
  BY <1>13 DEF TypeOK, Located, Expire, Goto, MayWork
<1>14. ASSUME NEW o \in Ops, Release(o) PROVE Located'
  BY <1>14 DEF TypeOK, Located, Release, Goto, MayWork
<1>15. ASSUME NEW o \in Ops, Status(o) PROVE Located'
  BY <1>15 DEF TypeOK, Located, Status, Goto, MayWork, Manual
<1>16. ASSUME NEW a \in Actors, Accepted(a) PROVE Located'
  <2>1. PICK s \in Slots : NewWorker(a, s)
    BY <1>16, AcceptedEffect
  <2>2. held' = held
    BY <1>16 DEF Accepted
  <2> QED
    BY <2>1, <2>2 DEF NewWorker, TypeOK, Located
<1>17. ASSUME NEW a \in Actors, NotAccepted(a) PROVE Located'
  BY <1>17 DEF TypeOK, Located, NotAccepted, MayFail, Return, Goto
<1>18. ASSUME NEW s \in Slots, Tick(s) PROVE Located'
  BY <1>18 DEF TypeOK, Located, Tick, Goto, Gone
<1>19. ASSUME NEW s \in Slots, WorkerStops(s) PROVE Located'
  BY <1>19 DEF TypeOK, Located, WorkerStops, Goto, Gone
<1>20. ASSUME NEW i \in Instances, Renew(i) PROVE Located'
  BY <1>20 DEF TypeOK, Located, Renew, Free, Takes
<1>21. ASSUME NEW i \in Instances, Renewed(i) PROVE Located'
  BY <1>21 DEF TypeOK, Located, Renewed
<1>22. ASSUME NEW i \in Instances, Lost(i) PROVE Located'
  BY <1>22 DEF TypeOK, Located, Lost, Forget, Close
<1>23. ASSUME NEW i \in Instances, StopCloses(i) PROVE Located'
  BY <1>23 DEF TypeOK, Located, StopCloses, Close
<1>24. ASSUME NEW i \in Instances, StopPanics(i) PROVE Located'
  BY <1>24 DEF TypeOK, Located, StopPanics, Dies
<1>25. ASSUME NEW i \in Instances, StopReleases(i) PROVE Located'
  BY <1>25 DEF TypeOK, Located, StopReleases
<1>26. ASSUME NEW i \in Instances, Exit(i) PROVE Located'
  BY <1>26 DEF TypeOK, Located, Exit, Dies
<1>27. ASSUME NEW i \in Instances, Stop(i) PROVE Located'
  BY <1>27 DEF TypeOK, Located, Stop
<1>28. ASSUME NEW i \in Instances, Started(i) PROVE Located'
  BY <1>28 DEF TypeOK, Located, Started
<1>29. ASSUME NEW i \in Instances, Crash(i) PROVE Located'
  BY <1>29 DEF TypeOK, Located, Crash, Dies
<1>30. CASE Expires
  BY <1>30 DEF TypeOK, Located, Expires
<1>31. CASE UNCHANGED vars
  BY <1>31 DEF vars, TypeOK, Located
<1> QED
  BY <1>1, <1>2, <1>3, <1>4, <1>5, <1>6, <1>7, <1>8, <1>9, <1>10, <1>11, <1>12, <1>13, <1>14,
      <1>15, <1>16, <1>17, <1>18, <1>19, <1>20, <1>21, <1>22, <1>23, <1>24, <1>25, <1>26, <1>27,
      <1>28, <1>29, <1>30, <1>31 DEF Next, OpStep, RegisterStep, BeatStep, StopStep

(* What replaces the map has been read. *)
LEMMA LoadedStep ==
  ASSUME TypeOK, Loaded, [Next]_vars
  PROVE  Loaded'
<1> USE NoneAssumption, ApartAssumption, BoundAssumption, WorldsAssumption
       DEF row, memory, process, ops, history, Actors, Asked, Kinds
<1>1. ASSUME NEW o \in Ops, NEW i \in Instances, Boot(o, i) PROVE Loaded'
  BY <1>1 DEF TypeOK, Loaded, Cached, Boot, Launch, FirstStep
<1>2. ASSUME NEW o \in Ops, NEW i \in Instances, NEW k \in Asked, Request(o, i, k) PROVE Loaded'
  BY <1>2 DEF TypeOK, Loaded, Cached, Request, Launch, FirstStep
<1>3. ASSUME NEW o \in Ops, Fails(o) PROVE Loaded'
  BY <1>3 DEF TypeOK, Loaded, Cached, Fails, Goto, MayWork, MayFail
<1>4. ASSUME NEW o \in Ops, SetAuto(o) PROVE Loaded'
  BY <1>4 DEF TypeOK, Loaded, Cached, SetAuto, Goto, MayWork
<1>5. ASSUME NEW o \in Ops, ForceLease(o) PROVE Loaded'
  BY <1>5 DEF TypeOK, Loaded, Cached, ForceLease, Goto, MayWork, Takes
<1>6. ASSUME NEW o \in Ops, Own(o) PROVE Loaded'
  BY <1>6 DEF TypeOK, Loaded, Cached, Own, Goto, MayWork
<1>7. ASSUME NEW o \in Ops, Load(o) PROVE Loaded'
  BY <1>7 DEF TypeOK, Loaded, Cached, Load, Goto, MayWork
<1>8. ASSUME NEW o \in Ops, Replace(o) PROVE Loaded'
  BY <1>8 DEF TypeOK, Loaded, Cached, Replace, Goto, MayWork
<1>9. ASSUME NEW o \in Ops, Lease(o) PROVE Loaded'
  BY <1>9 DEF TypeOK, Loaded, Cached, Lease, Goto, MayWork, Takes, Free
<1>10. ASSUME NEW o \in Ops, Disable(o) PROVE Loaded'
  BY <1>10 DEF TypeOK, Loaded, Cached, Disable, Goto, MayWork
<1>11. ASSUME NEW o \in Ops, Off(o) PROVE Loaded'
  BY <1>11 DEF TypeOK, Loaded, Cached, Off, Goto, MayWork
<1>12. ASSUME NEW o \in Ops, Clear(o) PROVE Loaded'
  BY <1>12 DEF TypeOK, Loaded, Cached, Clear, Goto, MayWork, Forget, Close, Manual
<1>13. ASSUME NEW o \in Ops, Expire(o) PROVE Loaded'
  BY <1>13 DEF TypeOK, Loaded, Cached, Expire, Goto, MayWork
<1>14. ASSUME NEW o \in Ops, Release(o) PROVE Loaded'
  BY <1>14 DEF TypeOK, Loaded, Cached, Release, Goto, MayWork
<1>15. ASSUME NEW o \in Ops, Status(o) PROVE Loaded'
  BY <1>15 DEF TypeOK, Loaded, Cached, Status, Goto, MayWork, Manual
<1>16. ASSUME NEW a \in Actors, Accepted(a) PROVE Loaded'
  BY <1>16 DEF TypeOK, Loaded, Cached, Accepted, MayWork, Close, Settled, Unused
<1>17. ASSUME NEW a \in Actors, NotAccepted(a) PROVE Loaded'
  BY <1>17 DEF TypeOK, Loaded, Cached, NotAccepted, MayFail, Return, Goto
<1>18. ASSUME NEW s \in Slots, Tick(s) PROVE Loaded'
  BY <1>18 DEF TypeOK, Loaded, Cached, Tick, Goto, Gone
<1>19. ASSUME NEW s \in Slots, WorkerStops(s) PROVE Loaded'
  BY <1>19 DEF TypeOK, Loaded, Cached, WorkerStops, Goto, Gone
<1>20. ASSUME NEW i \in Instances, Renew(i) PROVE Loaded'
  BY <1>20 DEF TypeOK, Loaded, Cached, Renew, Free, Takes
<1>21. ASSUME NEW i \in Instances, Renewed(i) PROVE Loaded'
  BY <1>21 DEF TypeOK, Loaded, Cached, Renewed
<1>22. ASSUME NEW i \in Instances, Lost(i) PROVE Loaded'
  BY <1>22 DEF TypeOK, Loaded, Cached, Lost, Forget, Close
<1>23. ASSUME NEW i \in Instances, StopCloses(i) PROVE Loaded'
  BY <1>23 DEF TypeOK, Loaded, Cached, StopCloses, Close
<1>24. ASSUME NEW i \in Instances, StopPanics(i) PROVE Loaded'
  BY <1>24 DEF TypeOK, Loaded, Cached, StopPanics, Dies
<1>25. ASSUME NEW i \in Instances, StopReleases(i) PROVE Loaded'
  BY <1>25 DEF TypeOK, Loaded, Cached, StopReleases
<1>26. ASSUME NEW i \in Instances, Exit(i) PROVE Loaded'
  BY <1>26 DEF TypeOK, Loaded, Cached, Exit, Dies
<1>27. ASSUME NEW i \in Instances, Stop(i) PROVE Loaded'
  BY <1>27 DEF TypeOK, Loaded, Cached, Stop
<1>28. ASSUME NEW i \in Instances, Started(i) PROVE Loaded'
  BY <1>28 DEF TypeOK, Loaded, Cached, Started
<1>29. ASSUME NEW i \in Instances, Crash(i) PROVE Loaded'
  BY <1>29 DEF TypeOK, Loaded, Cached, Crash, Dies
<1>30. CASE Expires
  BY <1>30 DEF TypeOK, Loaded, Cached, Expires
<1>31. CASE UNCHANGED vars
  BY <1>31 DEF vars, TypeOK, Loaded, Cached
<1> QED
  BY <1>1, <1>2, <1>3, <1>4, <1>5, <1>6, <1>7, <1>8, <1>9, <1>10, <1>11, <1>12, <1>13, <1>14,
      <1>15, <1>16, <1>17, <1>18, <1>19, <1>20, <1>21, <1>22, <1>23, <1>24, <1>25, <1>26, <1>27,
      <1>28, <1>29, <1>30, <1>31 DEF Next, OpStep, RegisterStep, BeatStep, StopStep

(* An instance names workers of its own, ... *)
LEMMA NamesApartStep ==
  ASSUME TypeOK, Located, NamesApart, NamesHome, [Next]_vars
  PROVE  NamesApart'
<1> USE NoneAssumption, ApartAssumption, BoundAssumption, WorldsAssumption
       DEF row, memory, process, ops, history, Actors, Asked, Kinds
<1>1. ASSUME NEW o \in Ops, NEW i \in Instances, Boot(o, i) PROVE NamesApart'
  BY <1>1 DEF TypeOK, NamesApart, Names, Boot, Launch, FirstStep
<1>2. ASSUME NEW o \in Ops, NEW i \in Instances, NEW k \in Asked, Request(o, i, k) PROVE NamesApart'
  BY <1>2 DEF TypeOK, NamesApart, Names, Request, Launch, FirstStep
<1>3. ASSUME NEW o \in Ops, Fails(o) PROVE NamesApart'
  BY <1>3 DEF TypeOK, NamesApart, Names, Fails, Goto, MayWork, MayFail
<1>4. ASSUME NEW o \in Ops, SetAuto(o) PROVE NamesApart'
  BY <1>4 DEF TypeOK, NamesApart, Names, SetAuto, Goto, MayWork
<1>5. ASSUME NEW o \in Ops, ForceLease(o) PROVE NamesApart'
  BY <1>5 DEF TypeOK, NamesApart, Names, ForceLease, Goto, MayWork, Takes
<1>6. ASSUME NEW o \in Ops, Own(o) PROVE NamesApart'
  BY <1>6 DEF TypeOK, NamesApart, Names, Own, Goto, MayWork
<1>7. ASSUME NEW o \in Ops, Load(o) PROVE NamesApart'
  BY <1>7 DEF TypeOK, NamesApart, Names, Load, Goto, MayWork
<1>8. ASSUME NEW o \in Ops, Replace(o) PROVE NamesApart'
  BY <1>8 DEF TypeOK, NamesApart, Names, Replace, Goto, MayWork
<1>9. ASSUME NEW o \in Ops, Lease(o) PROVE NamesApart'
  BY <1>9 DEF TypeOK, NamesApart, Names, Lease, Goto, MayWork, Takes, Free
<1>10. ASSUME NEW o \in Ops, Disable(o) PROVE NamesApart'
  BY <1>10 DEF TypeOK, NamesApart, Names, Disable, Goto, MayWork
<1>11. ASSUME NEW o \in Ops, Off(o) PROVE NamesApart'
  BY <1>11 DEF TypeOK, NamesApart, Names, Off, Goto, MayWork
<1>12. ASSUME NEW o \in Ops, Clear(o) PROVE NamesApart'
  BY <1>12 DEF TypeOK, NamesApart, Names, Clear, Goto, MayWork, Forget, Close, Manual
<1>13. ASSUME NEW o \in Ops, Expire(o) PROVE NamesApart'
  BY <1>13 DEF TypeOK, NamesApart, Names, Expire, Goto, MayWork
<1>14. ASSUME NEW o \in Ops, Release(o) PROVE NamesApart'
  BY <1>14 DEF TypeOK, NamesApart, Names, Release, Goto, MayWork
<1>15. ASSUME NEW o \in Ops, Status(o) PROVE NamesApart'
  BY <1>15 DEF TypeOK, NamesApart, Names, Status, Goto, MayWork, Manual
<1>16. ASSUME NEW a \in Actors, Accepted(a) PROVE NamesApart'
  BY <1>16 DEF TypeOK, NamesApart, Names, Accepted, MayWork, Close, Settled, Unused
<1>17. ASSUME NEW a \in Actors, NotAccepted(a) PROVE NamesApart'
  BY <1>17 DEF TypeOK, NamesApart, Names, NotAccepted, MayFail, Return, Goto
<1>18. ASSUME NEW s \in Slots, Tick(s) PROVE NamesApart'
  BY <1>18 DEF TypeOK, NamesApart, Names, Tick, Goto, Gone
<1>19. ASSUME NEW s \in Slots, WorkerStops(s) PROVE NamesApart'
  BY <1>19 DEF TypeOK, NamesApart, Names, WorkerStops, Goto, Gone
<1>20. ASSUME NEW i \in Instances, Renew(i) PROVE NamesApart'
  BY <1>20 DEF TypeOK, NamesApart, Names, Renew, Free, Takes
<1>21. ASSUME NEW i \in Instances, Renewed(i) PROVE NamesApart'
  BY <1>21 DEF TypeOK, NamesApart, Names, Renewed
<1>22. ASSUME NEW i \in Instances, Lost(i) PROVE NamesApart'
  BY <1>22 DEF TypeOK, NamesApart, Names, Lost, Forget, Close
<1>23. ASSUME NEW i \in Instances, StopCloses(i) PROVE NamesApart'
  BY <1>23 DEF TypeOK, NamesApart, Names, StopCloses, Close
<1>24. ASSUME NEW i \in Instances, StopPanics(i) PROVE NamesApart'
  BY <1>24 DEF TypeOK, NamesApart, Names, StopPanics, Dies
<1>25. ASSUME NEW i \in Instances, StopReleases(i) PROVE NamesApart'
  BY <1>25 DEF TypeOK, NamesApart, Names, StopReleases
<1>26. ASSUME NEW i \in Instances, Exit(i) PROVE NamesApart'
  BY <1>26 DEF TypeOK, NamesApart, Names, Exit, Dies
<1>27. ASSUME NEW i \in Instances, Stop(i) PROVE NamesApart'
  BY <1>27 DEF TypeOK, NamesApart, Names, Stop
<1>28. ASSUME NEW i \in Instances, Started(i) PROVE NamesApart'
  BY <1>28 DEF TypeOK, NamesApart, Names, Started
<1>29. ASSUME NEW i \in Instances, Crash(i) PROVE NamesApart'
  BY <1>29 DEF TypeOK, NamesApart, Names, Crash, Dies
<1>30. CASE Expires
  BY <1>30 DEF TypeOK, NamesApart, Names, Expires
<1>31. CASE UNCHANGED vars
  BY <1>31 DEF vars, TypeOK, NamesApart, Names
<1> QED
  BY <1>1, <1>2, <1>3, <1>4, <1>5, <1>6, <1>7, <1>8, <1>9, <1>10, <1>11, <1>12, <1>13, <1>14,
      <1>15, <1>16, <1>17, <1>18, <1>19, <1>20, <1>21, <1>22, <1>23, <1>24, <1>25, <1>26, <1>27,
      <1>28, <1>29, <1>30, <1>31 DEF Next, OpStep, RegisterStep, BeatStep, StopStep

(* ... which run in it. *)
LEMMA NamesHomeStep ==
  ASSUME TypeOK, Located, NamesHome, [Next]_vars
  PROVE  NamesHome'
<1> USE NoneAssumption, ApartAssumption, BoundAssumption, WorldsAssumption
       DEF row, memory, process, ops, history, Actors, Asked, Kinds
<1>1. ASSUME NEW o \in Ops, NEW i \in Instances, Boot(o, i) PROVE NamesHome'
  BY <1>1 DEF TypeOK, NamesHome, Names, Boot, Launch, FirstStep
<1>2. ASSUME NEW o \in Ops, NEW i \in Instances, NEW k \in Asked, Request(o, i, k) PROVE NamesHome'
  BY <1>2 DEF TypeOK, NamesHome, Names, Request, Launch, FirstStep
<1>3. ASSUME NEW o \in Ops, Fails(o) PROVE NamesHome'
  BY <1>3 DEF TypeOK, NamesHome, Names, Fails, Goto, MayWork, MayFail
<1>4. ASSUME NEW o \in Ops, SetAuto(o) PROVE NamesHome'
  BY <1>4 DEF TypeOK, NamesHome, Names, SetAuto, Goto, MayWork
<1>5. ASSUME NEW o \in Ops, ForceLease(o) PROVE NamesHome'
  BY <1>5 DEF TypeOK, NamesHome, Names, ForceLease, Goto, MayWork, Takes
<1>6. ASSUME NEW o \in Ops, Own(o) PROVE NamesHome'
  BY <1>6 DEF TypeOK, NamesHome, Names, Own, Goto, MayWork
<1>7. ASSUME NEW o \in Ops, Load(o) PROVE NamesHome'
  BY <1>7 DEF TypeOK, NamesHome, Names, Load, Goto, MayWork
<1>8. ASSUME NEW o \in Ops, Replace(o) PROVE NamesHome'
  BY <1>8 DEF TypeOK, NamesHome, Names, Replace, Goto, MayWork
<1>9. ASSUME NEW o \in Ops, Lease(o) PROVE NamesHome'
  BY <1>9 DEF TypeOK, NamesHome, Names, Lease, Goto, MayWork, Takes, Free
<1>10. ASSUME NEW o \in Ops, Disable(o) PROVE NamesHome'
  BY <1>10 DEF TypeOK, NamesHome, Names, Disable, Goto, MayWork
<1>11. ASSUME NEW o \in Ops, Off(o) PROVE NamesHome'
  BY <1>11 DEF TypeOK, NamesHome, Names, Off, Goto, MayWork
<1>12. ASSUME NEW o \in Ops, Clear(o) PROVE NamesHome'
  BY <1>12 DEF TypeOK, NamesHome, Names, Clear, Goto, MayWork, Forget, Close, Manual
<1>13. ASSUME NEW o \in Ops, Expire(o) PROVE NamesHome'
  BY <1>13 DEF TypeOK, NamesHome, Names, Expire, Goto, MayWork
<1>14. ASSUME NEW o \in Ops, Release(o) PROVE NamesHome'
  BY <1>14 DEF TypeOK, NamesHome, Names, Release, Goto, MayWork
<1>15. ASSUME NEW o \in Ops, Status(o) PROVE NamesHome'
  BY <1>15 DEF TypeOK, NamesHome, Names, Status, Goto, MayWork, Manual
<1>16. ASSUME NEW a \in Actors, Accepted(a) PROVE NamesHome'
  <2>1. PICK s \in Slots : NewWorker(a, s)
    BY <1>16, AcceptedEffect
  <2>2. held' = held
    BY <1>16 DEF Accepted
  <2> QED
    BY <2>1, <2>2 DEF NewWorker, TypeOK, NamesHome, Names, Located
<1>17. ASSUME NEW a \in Actors, NotAccepted(a) PROVE NamesHome'
  BY <1>17 DEF TypeOK, NamesHome, Names, NotAccepted, MayFail, Return, Goto
<1>18. ASSUME NEW s \in Slots, Tick(s) PROVE NamesHome'
  BY <1>18 DEF TypeOK, NamesHome, Names, Tick, Goto, Gone
<1>19. ASSUME NEW s \in Slots, WorkerStops(s) PROVE NamesHome'
  BY <1>19 DEF TypeOK, NamesHome, Names, WorkerStops, Goto, Gone
<1>20. ASSUME NEW i \in Instances, Renew(i) PROVE NamesHome'
  BY <1>20 DEF TypeOK, NamesHome, Names, Renew, Free, Takes
<1>21. ASSUME NEW i \in Instances, Renewed(i) PROVE NamesHome'
  BY <1>21 DEF TypeOK, NamesHome, Names, Renewed
<1>22. ASSUME NEW i \in Instances, Lost(i) PROVE NamesHome'
  BY <1>22 DEF TypeOK, NamesHome, Names, Lost, Forget, Close
<1>23. ASSUME NEW i \in Instances, StopCloses(i) PROVE NamesHome'
  BY <1>23 DEF TypeOK, NamesHome, Names, StopCloses, Close
<1>24. ASSUME NEW i \in Instances, StopPanics(i) PROVE NamesHome'
  BY <1>24 DEF TypeOK, NamesHome, Names, StopPanics, Dies
<1>25. ASSUME NEW i \in Instances, StopReleases(i) PROVE NamesHome'
  BY <1>25 DEF TypeOK, NamesHome, Names, StopReleases
<1>26. ASSUME NEW i \in Instances, Exit(i) PROVE NamesHome'
  BY <1>26 DEF TypeOK, NamesHome, Names, Exit, Dies
<1>27. ASSUME NEW i \in Instances, Stop(i) PROVE NamesHome'
  BY <1>27 DEF TypeOK, NamesHome, Names, Stop
<1>28. ASSUME NEW i \in Instances, Started(i) PROVE NamesHome'
  BY <1>28 DEF TypeOK, NamesHome, Names, Started
<1>29. ASSUME NEW i \in Instances, Crash(i) PROVE NamesHome'
  BY <1>29 DEF TypeOK, NamesHome, Names, Crash, Dies
<1>30. CASE Expires
  BY <1>30 DEF TypeOK, NamesHome, Names, Expires
<1>31. CASE UNCHANGED vars
  BY <1>31 DEF vars, TypeOK, NamesHome, Names
<1> QED
  BY <1>1, <1>2, <1>3, <1>4, <1>5, <1>6, <1>7, <1>8, <1>9, <1>10, <1>11, <1>12, <1>13, <1>14,
      <1>15, <1>16, <1>17, <1>18, <1>19, <1>20, <1>21, <1>22, <1>23, <1>24, <1>25, <1>26, <1>27,
      <1>28, <1>29, <1>30, <1>31 DEF Next, OpStep, RegisterStep, BeatStep, StopStep

(* A stop channel nobody could close any more is forgotten. *)
LEMMA ClosedKnownStep ==
  ASSUME TypeOK, Located, NamesApart, NamesHome, ClosedKnown, HeldIsEntry, OneWorker,
         [Next]_vars
  PROVE  ClosedKnown'
<1> USE NoneAssumption, ApartAssumption, BoundAssumption, WorldsAssumption
       DEF row, memory, process, ops, history, Actors, Asked, Kinds
<1>1. ASSUME NEW o \in Ops, NEW i \in Instances, Boot(o, i) PROVE ClosedKnown'
  BY <1>1 DEF TypeOK, ClosedKnown, Names, Boot, Launch, FirstStep
<1>2. ASSUME NEW o \in Ops, NEW i \in Instances, NEW k \in Asked, Request(o, i, k) PROVE ClosedKnown'
  BY <1>2 DEF TypeOK, ClosedKnown, Names, Request, Launch, FirstStep
<1>3. ASSUME NEW o \in Ops, Fails(o) PROVE ClosedKnown'
  BY <1>3 DEF TypeOK, ClosedKnown, Names, Fails, Goto, MayWork, MayFail
<1>4. ASSUME NEW o \in Ops, SetAuto(o) PROVE ClosedKnown'
  BY <1>4 DEF TypeOK, ClosedKnown, Names, SetAuto, Goto, MayWork
<1>5. ASSUME NEW o \in Ops, ForceLease(o) PROVE ClosedKnown'
  BY <1>5 DEF TypeOK, ClosedKnown, Names, ForceLease, Goto, MayWork, Takes
<1>6. ASSUME NEW o \in Ops, Own(o) PROVE ClosedKnown'
  BY <1>6 DEF TypeOK, ClosedKnown, Names, Own, Goto, MayWork
<1>7. ASSUME NEW o \in Ops, Load(o) PROVE ClosedKnown'
  BY <1>7 DEF TypeOK, ClosedKnown, Names, Load, Goto, MayWork
<1>8. ASSUME NEW o \in Ops, Replace(o) PROVE ClosedKnown'
  BY <1>8 DEF TypeOK, ClosedKnown, Names, Replace, Goto, MayWork
<1>9. ASSUME NEW o \in Ops, Lease(o) PROVE ClosedKnown'
  BY <1>9 DEF TypeOK, ClosedKnown, Names, Lease, Goto, MayWork, Takes, Free
<1>10. ASSUME NEW o \in Ops, Disable(o) PROVE ClosedKnown'
  BY <1>10 DEF TypeOK, ClosedKnown, Names, Disable, Goto, MayWork
<1>11. ASSUME NEW o \in Ops, Off(o) PROVE ClosedKnown'
  BY <1>11 DEF TypeOK, ClosedKnown, Names, Off, Goto, MayWork
<1>12. ASSUME NEW o \in Ops, Clear(o) PROVE ClosedKnown'
  BY <1>12 DEF TypeOK, ClosedKnown, Names, Clear, Goto, MayWork, Forget, Close, Manual,
      OneWorker
<1>13. ASSUME NEW o \in Ops, Expire(o) PROVE ClosedKnown'
  BY <1>13 DEF TypeOK, ClosedKnown, Names, Expire, Goto, MayWork
<1>14. ASSUME NEW o \in Ops, Release(o) PROVE ClosedKnown'
  BY <1>14 DEF TypeOK, ClosedKnown, Names, Release, Goto, MayWork
<1>15. ASSUME NEW o \in Ops, Status(o) PROVE ClosedKnown'
  BY <1>15 DEF TypeOK, ClosedKnown, Names, Status, Goto, MayWork, Manual
<1>16. ASSUME NEW a \in Actors, Accepted(a) PROVE ClosedKnown'
  <2>1. PICK s \in Slots : NewWorker(a, s)
    BY <1>16, AcceptedEffect
  <2>2. held' = held
    BY <1>16 DEF Accepted
  <2> QED
    BY <2>1, <2>2 DEF NewWorker, TypeOK, ClosedKnown, OneWorker, Names, Close
<1>17. ASSUME NEW a \in Actors, NotAccepted(a) PROVE ClosedKnown'
  BY <1>17 DEF TypeOK, ClosedKnown, Names, NotAccepted, MayFail, Return, Goto
<1>18. ASSUME NEW s \in Slots, Tick(s) PROVE ClosedKnown'
  BY <1>18 DEF TypeOK, ClosedKnown, Names, Tick, Goto, Gone
<1>19. ASSUME NEW s \in Slots, WorkerStops(s) PROVE ClosedKnown'
  BY <1>19 DEF TypeOK, ClosedKnown, Names, WorkerStops, Goto, Gone
<1>20. ASSUME NEW i \in Instances, Renew(i) PROVE ClosedKnown'
  BY <1>20 DEF TypeOK, ClosedKnown, Names, Renew, Free, Takes
<1>21. ASSUME NEW i \in Instances, Renewed(i) PROVE ClosedKnown'
  BY <1>21 DEF TypeOK, ClosedKnown, Names, Renewed
<1>22. ASSUME NEW i \in Instances, Lost(i) PROVE ClosedKnown'
  BY <1>22 DEF TypeOK, ClosedKnown, Names, Lost, Forget, Close, OneWorker
<1>23. ASSUME NEW i \in Instances, StopCloses(i) PROVE ClosedKnown'
  BY <1>23 DEF TypeOK, ClosedKnown, Names, StopCloses, Close, HeldIsEntry, OneWorker
<1>24. ASSUME NEW i \in Instances, StopPanics(i) PROVE ClosedKnown'
  BY <1>24 DEF TypeOK, ClosedKnown, Names, StopPanics, Dies, Located
<1>25. ASSUME NEW i \in Instances, StopReleases(i) PROVE ClosedKnown'
  BY <1>25 DEF TypeOK, ClosedKnown, Names, StopReleases
<1>26. ASSUME NEW i \in Instances, Exit(i) PROVE ClosedKnown'
  BY <1>26 DEF TypeOK, ClosedKnown, Names, Exit, Dies, Located
<1>27. ASSUME NEW i \in Instances, Stop(i) PROVE ClosedKnown'
  BY <1>27 DEF TypeOK, ClosedKnown, Names, Stop, HeldIsEntry, Stopping
<1>28. ASSUME NEW i \in Instances, Started(i) PROVE ClosedKnown'
  BY <1>28 DEF TypeOK, ClosedKnown, Names, Started
<1>29. ASSUME NEW i \in Instances, Crash(i) PROVE ClosedKnown'
  BY <1>29 DEF TypeOK, ClosedKnown, Names, Crash, Dies, Located
<1>30. CASE Expires
  BY <1>30 DEF TypeOK, ClosedKnown, Names, Expires
<1>31. CASE UNCHANGED vars
  BY <1>31 DEF vars, TypeOK, ClosedKnown, Names
<1> QED
  BY <1>1, <1>2, <1>3, <1>4, <1>5, <1>6, <1>7, <1>8, <1>9, <1>10, <1>11, <1>12, <1>13, <1>14,
      <1>15, <1>16, <1>17, <1>18, <1>19, <1>20, <1>21, <1>22, <1>23, <1>24, <1>25, <1>26, <1>27,
      <1>28, <1>29, <1>30, <1>31 DEF Next, OpStep, RegisterStep, BeatStep, StopStep

(* Stop finds the worker it has read, or none. *)
LEMMA HeldStep ==
  ASSUME TypeOK, Located, HeldIsEntry, [Next]_vars
  PROVE  HeldIsEntry'
<1> USE NoneAssumption, ApartAssumption, BoundAssumption, WorldsAssumption
       DEF row, memory, process, ops, history, Actors, Asked, Kinds
<1>1. ASSUME NEW o \in Ops, NEW i \in Instances, Boot(o, i) PROVE HeldIsEntry'
  BY <1>1 DEF TypeOK, HeldIsEntry, Stopping, Boot, Launch, FirstStep
<1>2. ASSUME NEW o \in Ops, NEW i \in Instances, NEW k \in Asked, Request(o, i, k) PROVE HeldIsEntry'
  BY <1>2 DEF TypeOK, HeldIsEntry, Stopping, Request, Launch, FirstStep
<1>3. ASSUME NEW o \in Ops, Fails(o) PROVE HeldIsEntry'
  BY <1>3 DEF TypeOK, HeldIsEntry, Stopping, Fails, Goto, MayWork, MayFail
<1>4. ASSUME NEW o \in Ops, SetAuto(o) PROVE HeldIsEntry'
  BY <1>4 DEF TypeOK, HeldIsEntry, Stopping, SetAuto, Goto, MayWork
<1>5. ASSUME NEW o \in Ops, ForceLease(o) PROVE HeldIsEntry'
  BY <1>5 DEF TypeOK, HeldIsEntry, Stopping, ForceLease, Goto, MayWork, Takes
<1>6. ASSUME NEW o \in Ops, Own(o) PROVE HeldIsEntry'
  BY <1>6 DEF TypeOK, HeldIsEntry, Stopping, Own, Goto, MayWork
<1>7. ASSUME NEW o \in Ops, Load(o) PROVE HeldIsEntry'
  BY <1>7 DEF TypeOK, HeldIsEntry, Stopping, Load, Goto, MayWork
<1>8. ASSUME NEW o \in Ops, Replace(o) PROVE HeldIsEntry'
  BY <1>8 DEF TypeOK, HeldIsEntry, Stopping, Replace, Goto, MayWork
<1>9. ASSUME NEW o \in Ops, Lease(o) PROVE HeldIsEntry'
  BY <1>9 DEF TypeOK, HeldIsEntry, Stopping, Lease, Goto, MayWork, Takes, Free
<1>10. ASSUME NEW o \in Ops, Disable(o) PROVE HeldIsEntry'
  BY <1>10 DEF TypeOK, HeldIsEntry, Stopping, Disable, Goto, MayWork
<1>11. ASSUME NEW o \in Ops, Off(o) PROVE HeldIsEntry'
  BY <1>11 DEF TypeOK, HeldIsEntry, Stopping, Off, Goto, MayWork
<1>12. ASSUME NEW o \in Ops, Clear(o) PROVE HeldIsEntry'
  BY <1>12 DEF TypeOK, HeldIsEntry, Stopping, Clear, Goto, MayWork, Forget, Close, Manual
<1>13. ASSUME NEW o \in Ops, Expire(o) PROVE HeldIsEntry'
  BY <1>13 DEF TypeOK, HeldIsEntry, Stopping, Expire, Goto, MayWork
<1>14. ASSUME NEW o \in Ops, Release(o) PROVE HeldIsEntry'
  BY <1>14 DEF TypeOK, HeldIsEntry, Stopping, Release, Goto, MayWork
<1>15. ASSUME NEW o \in Ops, Status(o) PROVE HeldIsEntry'
  BY <1>15 DEF TypeOK, HeldIsEntry, Stopping, Status, Goto, MayWork, Manual
<1>16. ASSUME NEW a \in Actors, Accepted(a) PROVE HeldIsEntry'
  BY <1>16 DEF TypeOK, HeldIsEntry, Stopping, Accepted, MayWork, Close, Settled, Unused
<1>17. ASSUME NEW a \in Actors, NotAccepted(a) PROVE HeldIsEntry'
  BY <1>17 DEF TypeOK, HeldIsEntry, Stopping, NotAccepted, MayFail, Return, Goto
<1>18. ASSUME NEW s \in Slots, Tick(s) PROVE HeldIsEntry'
  BY <1>18 DEF TypeOK, HeldIsEntry, Stopping, Tick, Goto, Gone
<1>19. ASSUME NEW s \in Slots, WorkerStops(s) PROVE HeldIsEntry'
  BY <1>19 DEF TypeOK, HeldIsEntry, Stopping, WorkerStops, Goto, Gone
<1>20. ASSUME NEW i \in Instances, Renew(i) PROVE HeldIsEntry'
  BY <1>20 DEF TypeOK, HeldIsEntry, Stopping, Renew, Free, Takes
<1>21. ASSUME NEW i \in Instances, Renewed(i) PROVE HeldIsEntry'
  BY <1>21 DEF TypeOK, HeldIsEntry, Stopping, Renewed
<1>22. ASSUME NEW i \in Instances, Lost(i) PROVE HeldIsEntry'
  BY <1>22 DEF TypeOK, HeldIsEntry, Stopping, Lost, Forget, Close
<1>23. ASSUME NEW i \in Instances, StopCloses(i) PROVE HeldIsEntry'
  BY <1>23 DEF TypeOK, HeldIsEntry, Stopping, StopCloses, Close
<1>24. ASSUME NEW i \in Instances, StopPanics(i) PROVE HeldIsEntry'
  BY <1>24 DEF TypeOK, HeldIsEntry, Stopping, StopPanics, Dies
<1>25. ASSUME NEW i \in Instances, StopReleases(i) PROVE HeldIsEntry'
  BY <1>25 DEF TypeOK, HeldIsEntry, Stopping, StopReleases
<1>26. ASSUME NEW i \in Instances, Exit(i) PROVE HeldIsEntry'
  BY <1>26 DEF TypeOK, HeldIsEntry, Stopping, Exit, Dies
<1>27. ASSUME NEW i \in Instances, Stop(i) PROVE HeldIsEntry'
  BY <1>27 DEF TypeOK, HeldIsEntry, Stopping, Stop
<1>28. ASSUME NEW i \in Instances, Started(i) PROVE HeldIsEntry'
  BY <1>28 DEF TypeOK, HeldIsEntry, Stopping, Started
<1>29. ASSUME NEW i \in Instances, Crash(i) PROVE HeldIsEntry'
  BY <1>29 DEF TypeOK, HeldIsEntry, Stopping, Crash, Dies
<1>30. CASE Expires
  BY <1>30 DEF TypeOK, HeldIsEntry, Stopping, Expires
<1>31. CASE UNCHANGED vars
  BY <1>31 DEF vars, TypeOK, HeldIsEntry, Stopping
<1> QED
  BY <1>1, <1>2, <1>3, <1>4, <1>5, <1>6, <1>7, <1>8, <1>9, <1>10, <1>11, <1>12, <1>13, <1>14,
      <1>15, <1>16, <1>17, <1>18, <1>19, <1>20, <1>21, <1>22, <1>23, <1>24, <1>25, <1>26, <1>27,
      <1>28, <1>29, <1>30, <1>31 DEF Next, OpStep, RegisterStep, BeatStep, StopStep

(* An instance has one worker that was not told to stop, the one it names. *)
LEMMA OneWorkerStep ==
  ASSUME TypeOK, Located, NamesApart, NamesHome, ClosedKnown, HeldIsEntry, OneWorker,
         [Next]_vars
  PROVE  OneWorker'
<1> USE NoneAssumption, ApartAssumption, BoundAssumption, WorldsAssumption
       DEF row, memory, process, ops, history, Actors, Asked, Kinds
<1>1. ASSUME NEW o \in Ops, NEW i \in Instances, Boot(o, i) PROVE OneWorker'
  BY <1>1 DEF TypeOK, OneWorker, Names, Boot, Launch, FirstStep
<1>2. ASSUME NEW o \in Ops, NEW i \in Instances, NEW k \in Asked, Request(o, i, k) PROVE OneWorker'
  BY <1>2 DEF TypeOK, OneWorker, Names, Request, Launch, FirstStep
<1>3. ASSUME NEW o \in Ops, Fails(o) PROVE OneWorker'
  BY <1>3 DEF TypeOK, OneWorker, Names, Fails, Goto, MayWork, MayFail
<1>4. ASSUME NEW o \in Ops, SetAuto(o) PROVE OneWorker'
  BY <1>4 DEF TypeOK, OneWorker, Names, SetAuto, Goto, MayWork
<1>5. ASSUME NEW o \in Ops, ForceLease(o) PROVE OneWorker'
  BY <1>5 DEF TypeOK, OneWorker, Names, ForceLease, Goto, MayWork, Takes
<1>6. ASSUME NEW o \in Ops, Own(o) PROVE OneWorker'
  BY <1>6 DEF TypeOK, OneWorker, Names, Own, Goto, MayWork
<1>7. ASSUME NEW o \in Ops, Load(o) PROVE OneWorker'
  BY <1>7 DEF TypeOK, OneWorker, Names, Load, Goto, MayWork
<1>8. ASSUME NEW o \in Ops, Replace(o) PROVE OneWorker'
  BY <1>8 DEF TypeOK, OneWorker, Names, Replace, Goto, MayWork
<1>9. ASSUME NEW o \in Ops, Lease(o) PROVE OneWorker'
  BY <1>9 DEF TypeOK, OneWorker, Names, Lease, Goto, MayWork, Takes, Free
<1>10. ASSUME NEW o \in Ops, Disable(o) PROVE OneWorker'
  BY <1>10 DEF TypeOK, OneWorker, Names, Disable, Goto, MayWork
<1>11. ASSUME NEW o \in Ops, Off(o) PROVE OneWorker'
  BY <1>11 DEF TypeOK, OneWorker, Names, Off, Goto, MayWork
<1>12. ASSUME NEW o \in Ops, Clear(o) PROVE OneWorker'
  BY <1>12 DEF TypeOK, OneWorker, Names, Clear, Goto, MayWork, Forget, Close, Manual, Located,
      NamesApart, NamesHome, ClosedKnown, HeldIsEntry
<1>13. ASSUME NEW o \in Ops, Expire(o) PROVE OneWorker'
  BY <1>13 DEF TypeOK, OneWorker, Names, Expire, Goto, MayWork
<1>14. ASSUME NEW o \in Ops, Release(o) PROVE OneWorker'
  BY <1>14 DEF TypeOK, OneWorker, Names, Release, Goto, MayWork
<1>15. ASSUME NEW o \in Ops, Status(o) PROVE OneWorker'
  BY <1>15 DEF TypeOK, OneWorker, Names, Status, Goto, MayWork, Manual
<1>16. ASSUME NEW a \in Actors, Accepted(a) PROVE OneWorker'
  <2>1. PICK s \in Slots : NewWorker(a, s)
    BY <1>16, AcceptedEffect
  <2>2. held' = held
    BY <1>16 DEF Accepted
  <2> QED
    BY <2>1, <2>2 DEF NewWorker, TypeOK, OneWorker, Located, NamesApart, NamesHome, ClosedKnown, Names, Close
<1>17. ASSUME NEW a \in Actors, NotAccepted(a) PROVE OneWorker'
  BY <1>17 DEF TypeOK, OneWorker, Names, NotAccepted, MayFail, Return, Goto
<1>18. ASSUME NEW s \in Slots, Tick(s) PROVE OneWorker'
  BY <1>18 DEF TypeOK, OneWorker, Names, Tick, Goto, Gone
<1>19. ASSUME NEW s \in Slots, WorkerStops(s) PROVE OneWorker'
  BY <1>19 DEF TypeOK, OneWorker, Names, WorkerStops, Goto, Gone
<1>20. ASSUME NEW i \in Instances, Renew(i) PROVE OneWorker'
  BY <1>20 DEF TypeOK, OneWorker, Names, Renew, Free, Takes
<1>21. ASSUME NEW i \in Instances, Renewed(i) PROVE OneWorker'
  BY <1>21 DEF TypeOK, OneWorker, Names, Renewed
<1>22. ASSUME NEW i \in Instances, Lost(i) PROVE OneWorker'
  BY <1>22 DEF TypeOK, OneWorker, Names, Lost, Forget, Close, Located, NamesApart, NamesHome,
      ClosedKnown, HeldIsEntry
<1>23. ASSUME NEW i \in Instances, StopCloses(i) PROVE OneWorker'
  BY <1>23 DEF TypeOK, OneWorker, Names, StopCloses, Close, Located, NamesApart, NamesHome,
      ClosedKnown, HeldIsEntry
<1>24. ASSUME NEW i \in Instances, StopPanics(i) PROVE OneWorker'
  BY <1>24 DEF TypeOK, OneWorker, Names, StopPanics, Dies, Located, NamesApart, NamesHome,
      ClosedKnown, HeldIsEntry
<1>25. ASSUME NEW i \in Instances, StopReleases(i) PROVE OneWorker'
  BY <1>25 DEF TypeOK, OneWorker, Names, StopReleases
<1>26. ASSUME NEW i \in Instances, Exit(i) PROVE OneWorker'
  BY <1>26 DEF TypeOK, OneWorker, Names, Exit, Dies, Located, NamesApart, NamesHome,
      ClosedKnown, HeldIsEntry
<1>27. ASSUME NEW i \in Instances, Stop(i) PROVE OneWorker'
  BY <1>27 DEF TypeOK, OneWorker, Names, Stop
<1>28. ASSUME NEW i \in Instances, Started(i) PROVE OneWorker'
  BY <1>28 DEF TypeOK, OneWorker, Names, Started
<1>29. ASSUME NEW i \in Instances, Crash(i) PROVE OneWorker'
  BY <1>29 DEF TypeOK, OneWorker, Names, Crash, Dies, Located, NamesApart, NamesHome,
      ClosedKnown, HeldIsEntry
<1>30. CASE Expires
  BY <1>30 DEF TypeOK, OneWorker, Names, Expires
<1>31. CASE UNCHANGED vars
  BY <1>31 DEF vars, TypeOK, OneWorker, Names
<1> QED
  BY <1>1, <1>2, <1>3, <1>4, <1>5, <1>6, <1>7, <1>8, <1>9, <1>10, <1>11, <1>12, <1>13, <1>14,
      <1>15, <1>16, <1>17, <1>18, <1>19, <1>20, <1>21, <1>22, <1>23, <1>24, <1>25, <1>26, <1>27,
      <1>28, <1>29, <1>30, <1>31 DEF Next, OpStep, RegisterStep, BeatStep, StopStep

-----------------------------------------------------------------------------
(* The inductive step, one lemma per part of IntentInv *)

(* What keeps KindSteps when an operation returns, ... *)
LEMMA OpEnds ==
  ASSUME TypeOK, KindSteps, NEW o \in Ops, Goto(o, "done"), UNCHANGED life
  PROVE  KindSteps'
<1> USE NoneAssumption DEF Actors, Kinds
<1>1. kind' = [kind EXCEPT ![o] = None] /\ pc' = [pc EXCEPT ![o] = "done"] /\ at' = [at EXCEPT ![o] = None]
  BY DEF Goto
<1> QED
  BY <1>1 DEF KindSteps, Idle, TypeOK

(* ... and when it goes on. *)
LEMMA OpMoves ==
  ASSUME TypeOK, KindSteps, NEW o \in Ops, NEW step, Goto(o, step), step \notin {"none", "done"},
         UNCHANGED life, ~Idle(o),
         kind[o] \in {"refresh", "start"} => step \in {"lease", "replace", "own", "sent"},
         kind[o] = "register" => step \in {"force", "own", "sent"}
  PROVE  KindSteps'
<1> USE DEF Actors
<1>1. kind' = kind /\ pc' = [pc EXCEPT ![o] = step] /\ at' = at
  BY DEF Goto
<1>2. pc'[o] = step /\ \A p \in Ops \ {o} : pc'[p] = pc[p]
  BY <1>1 DEF TypeOK
<1>3. kind[o] # None
  BY DEF KindSteps
<1> QED
  BY <1>1, <1>2, <1>3 DEF KindSteps, Idle

(* An operation takes the steps of its kind. *)
LEMMA KindStepsStep ==
  ASSUME TypeOK, Located, KindSteps, [Next]_vars
  PROVE  KindSteps'
<1> USE NoneAssumption, ApartAssumption, BoundAssumption, WorldsAssumption
       DEF row, memory, process, ops, history, Actors, Asked, Kinds
<1>1. ASSUME NEW o \in Ops, NEW i \in Instances, Boot(o, i) PROVE KindSteps'
  BY <1>1 DEF TypeOK, KindSteps, Idle, Boot, Launch, FirstStep
<1>2. ASSUME NEW o \in Ops, NEW i \in Instances, NEW k \in Asked, Request(o, i, k) PROVE KindSteps'
  BY <1>2 DEF TypeOK, KindSteps, Idle, Request, Launch, FirstStep
<1>3. ASSUME NEW o \in Ops, Fails(o) PROVE KindSteps'
  <2>1. UNCHANGED life /\ ~Idle(o)
    BY <1>3 DEF Fails, Idle
  <2>2. Goto(o, "done") \/ Goto(o, "status")
    BY <1>3 DEF Fails
  <2>3. CASE Goto(o, "done")
    BY <2>1, <2>3, OpEnds
  <2>4. CASE Goto(o, "status")
    <3>1. Goto(o, "done") \/ kind[o] \notin {"refresh", "start", "register"}
      BY <1>3 DEF Fails, KindSteps
    <3> QED
      BY <2>1, <2>3, <2>4, <3>1, OpMoves
  <2> QED
    BY <2>2, <2>3, <2>4
<1>4. ASSUME NEW o \in Ops, SetAuto(o) PROVE KindSteps'
  BY <1>4 DEF TypeOK, KindSteps, Idle, SetAuto, Goto, MayWork
<1>5. ASSUME NEW o \in Ops, ForceLease(o) PROVE KindSteps'
  <2>1. UNCHANGED life /\ ~Idle(o)
    BY <1>5 DEF ForceLease, Idle
  <2>2. Goto(o, "own") \/ Goto(o, "done")
    BY <1>5 DEF ForceLease
  <2>3. CASE Goto(o, "own")
    BY <1>5, <2>1, <2>3, OpMoves DEF ForceLease, KindSteps
  <2>4. CASE Goto(o, "done")
    BY <2>1, <2>4, OpEnds
  <2> QED
    BY <2>2, <2>3, <2>4
<1>6. ASSUME NEW o \in Ops, Own(o) PROVE KindSteps'
  <2>1. UNCHANGED life /\ ~Idle(o)
    BY <1>6 DEF Own, Idle
  <2>2. Goto(o, "sent") \/ Goto(o, "done")
    BY <1>6 DEF Own
  <2>3. CASE Goto(o, "sent")
    BY <1>6, <2>1, <2>3, OpMoves DEF Own, KindSteps
  <2>4. CASE Goto(o, "done")
    BY <2>1, <2>4, OpEnds
  <2> QED
    BY <2>2, <2>3, <2>4
<1>7. ASSUME NEW o \in Ops, Load(o) PROVE KindSteps'
  BY <1>7 DEF TypeOK, KindSteps, Idle, Load, Goto, MayWork
<1>8. ASSUME NEW o \in Ops, Replace(o) PROVE KindSteps'
  <2>1. UNCHANGED life /\ ~Idle(o)
    BY <1>8 DEF Replace, Idle
  <2>2. Goto(o, "lease") \/ Goto(o, "done")
    BY <1>8 DEF Replace
  <2>3. CASE Goto(o, "lease")
    BY <1>8, <2>1, <2>3, OpMoves DEF Replace, KindSteps
  <2>4. CASE Goto(o, "done")
    BY <2>1, <2>4, OpEnds
  <2> QED
    BY <2>2, <2>3, <2>4
<1>9. ASSUME NEW o \in Ops, Lease(o) PROVE KindSteps'
  <2>1. UNCHANGED life /\ ~Idle(o)
    BY <1>9 DEF Lease, Idle
  <2>2. Goto(o, "own") \/ Goto(o, "done")
    BY <1>9 DEF Lease
  <2>3. CASE Goto(o, "own")
    BY <1>9, <2>1, <2>3, OpMoves DEF Lease, KindSteps
  <2>4. CASE Goto(o, "done")
    BY <2>1, <2>4, OpEnds
  <2> QED
    BY <2>2, <2>3, <2>4
<1>10. ASSUME NEW o \in Ops, Disable(o) PROVE KindSteps'
  BY <1>10 DEF TypeOK, KindSteps, Idle, Disable, Goto, MayWork
<1>11. ASSUME NEW o \in Ops, Off(o) PROVE KindSteps'
  BY <1>11 DEF TypeOK, KindSteps, Idle, Off, Goto, MayWork
<1>12. ASSUME NEW o \in Ops, Clear(o) PROVE KindSteps'
  BY <1>12 DEF TypeOK, KindSteps, Idle, Clear, Goto, MayWork, Forget, Close, Manual
<1>13. ASSUME NEW o \in Ops, Expire(o) PROVE KindSteps'
  BY <1>13 DEF TypeOK, KindSteps, Idle, Expire, Goto, MayWork
<1>14. ASSUME NEW o \in Ops, Release(o) PROVE KindSteps'
  <2>1. UNCHANGED life /\ ~Idle(o)
    BY <1>14 DEF Release, Idle
  <2>2. Goto(o, "status") \/ Goto(o, "done")
    BY <1>14 DEF Release
  <2>3. CASE Goto(o, "status")
    BY <1>14, <2>1, <2>3, OpMoves DEF Release, KindSteps
  <2>4. CASE Goto(o, "done")
    BY <2>1, <2>4, OpEnds
  <2> QED
    BY <2>2, <2>3, <2>4
<1>15. ASSUME NEW o \in Ops, Status(o) PROVE KindSteps'
  <2>1. UNCHANGED life /\ ~Idle(o)
    BY <1>15 DEF Status, Idle
  <2>2. Goto(o, "done")
    BY <1>15 DEF Status
  <2> QED
    BY <2>1, <2>2, OpEnds
<1>16. ASSUME NEW a \in Actors, Accepted(a) PROVE KindSteps'
  BY <1>16 DEF TypeOK, KindSteps, Idle, Accepted, MayWork, Close, Settled, Unused, Located
<1>17. ASSUME NEW a \in Actors, NotAccepted(a) PROVE KindSteps'
  BY <1>17 DEF TypeOK, KindSteps, Idle, NotAccepted, MayFail, Return, Goto
<1>18. ASSUME NEW s \in Slots, Tick(s) PROVE KindSteps'
  BY <1>18 DEF TypeOK, KindSteps, Idle, Tick, Goto, Gone
<1>19. ASSUME NEW s \in Slots, WorkerStops(s) PROVE KindSteps'
  BY <1>19 DEF TypeOK, KindSteps, Idle, WorkerStops, Goto, Gone
<1>20. ASSUME NEW i \in Instances, Renew(i) PROVE KindSteps'
  BY <1>20 DEF TypeOK, KindSteps, Idle, Renew, Free, Takes
<1>21. ASSUME NEW i \in Instances, Renewed(i) PROVE KindSteps'
  BY <1>21 DEF TypeOK, KindSteps, Idle, Renewed
<1>22. ASSUME NEW i \in Instances, Lost(i) PROVE KindSteps'
  BY <1>22 DEF TypeOK, KindSteps, Idle, Lost, Forget, Close
<1>23. ASSUME NEW i \in Instances, StopCloses(i) PROVE KindSteps'
  BY <1>23 DEF TypeOK, KindSteps, Idle, StopCloses, Close
<1>24. ASSUME NEW i \in Instances, StopPanics(i) PROVE KindSteps'
  BY <1>24 DEF TypeOK, KindSteps, Idle, StopPanics, Dies, Located
<1>25. ASSUME NEW i \in Instances, StopReleases(i) PROVE KindSteps'
  BY <1>25 DEF TypeOK, KindSteps, Idle, StopReleases
<1>26. ASSUME NEW i \in Instances, Exit(i) PROVE KindSteps'
  BY <1>26 DEF TypeOK, KindSteps, Idle, Exit, Dies, Located
<1>27. ASSUME NEW i \in Instances, Stop(i) PROVE KindSteps'
  BY <1>27 DEF TypeOK, KindSteps, Idle, Stop
<1>28. ASSUME NEW i \in Instances, Started(i) PROVE KindSteps'
  BY <1>28 DEF TypeOK, KindSteps, Idle, Started
<1>29. ASSUME NEW i \in Instances, Crash(i) PROVE KindSteps'
  BY <1>29 DEF TypeOK, KindSteps, Idle, Crash, Dies, Located
<1>30. CASE Expires
  BY <1>30 DEF TypeOK, KindSteps, Idle, Expires
<1>31. CASE UNCHANGED vars
  BY <1>31 DEF vars, TypeOK, KindSteps, Idle
<1> QED
  BY <1>1, <1>2, <1>3, <1>4, <1>5, <1>6, <1>7, <1>8, <1>9, <1>10, <1>11, <1>12, <1>13, <1>14,
      <1>15, <1>16, <1>17, <1>18, <1>19, <1>20, <1>21, <1>22, <1>23, <1>24, <1>25, <1>26, <1>27,
      <1>28, <1>29, <1>30, <1>31 DEF Next, OpStep, RegisterStep, BeatStep, StopStep

(* Nobody runs beside the one that is alone. *)
LEMMA OnlyOneStep ==
  ASSUME TypeOK, Located, OnlyOne, [Next]_vars
  PROVE  OnlyOne'
<1> USE NoneAssumption, ApartAssumption, BoundAssumption, WorldsAssumption
       DEF row, memory, process, ops, history, Actors, Asked, Kinds
<1>1. ASSUME NEW o \in Ops, NEW i \in Instances, Boot(o, i) PROVE OnlyOne'
  BY <1>1 DEF TypeOK, OnlyOne, Idle, Boot, Launch, FirstStep
<1>2. ASSUME NEW o \in Ops, NEW i \in Instances, NEW k \in Asked, Request(o, i, k) PROVE OnlyOne'
  BY <1>2 DEF TypeOK, OnlyOne, Idle, Request, Launch, FirstStep
<1>3. ASSUME NEW o \in Ops, Fails(o) PROVE OnlyOne'
  BY <1>3 DEF TypeOK, OnlyOne, Idle, Fails, Goto, MayWork, MayFail
<1>4. ASSUME NEW o \in Ops, SetAuto(o) PROVE OnlyOne'
  BY <1>4 DEF TypeOK, OnlyOne, Idle, SetAuto, Goto, MayWork
<1>5. ASSUME NEW o \in Ops, ForceLease(o) PROVE OnlyOne'
  BY <1>5 DEF TypeOK, OnlyOne, Idle, ForceLease, Goto, MayWork, Takes
<1>6. ASSUME NEW o \in Ops, Own(o) PROVE OnlyOne'
  BY <1>6 DEF TypeOK, OnlyOne, Idle, Own, Goto, MayWork
<1>7. ASSUME NEW o \in Ops, Load(o) PROVE OnlyOne'
  BY <1>7 DEF TypeOK, OnlyOne, Idle, Load, Goto, MayWork
<1>8. ASSUME NEW o \in Ops, Replace(o) PROVE OnlyOne'
  BY <1>8 DEF TypeOK, OnlyOne, Idle, Replace, Goto, MayWork
<1>9. ASSUME NEW o \in Ops, Lease(o) PROVE OnlyOne'
  BY <1>9 DEF TypeOK, OnlyOne, Idle, Lease, Goto, MayWork, Takes, Free
<1>10. ASSUME NEW o \in Ops, Disable(o) PROVE OnlyOne'
  BY <1>10 DEF TypeOK, OnlyOne, Idle, Disable, Goto, MayWork
<1>11. ASSUME NEW o \in Ops, Off(o) PROVE OnlyOne'
  BY <1>11 DEF TypeOK, OnlyOne, Idle, Off, Goto, MayWork
<1>12. ASSUME NEW o \in Ops, Clear(o) PROVE OnlyOne'
  BY <1>12 DEF TypeOK, OnlyOne, Idle, Clear, Goto, MayWork, Forget, Close, Manual
<1>13. ASSUME NEW o \in Ops, Expire(o) PROVE OnlyOne'
  BY <1>13 DEF TypeOK, OnlyOne, Idle, Expire, Goto, MayWork
<1>14. ASSUME NEW o \in Ops, Release(o) PROVE OnlyOne'
  BY <1>14 DEF TypeOK, OnlyOne, Idle, Release, Goto, MayWork
<1>15. ASSUME NEW o \in Ops, Status(o) PROVE OnlyOne'
  BY <1>15 DEF TypeOK, OnlyOne, Idle, Status, Goto, MayWork, Manual
<1>16. ASSUME NEW a \in Actors, Accepted(a) PROVE OnlyOne'
  BY <1>16 DEF TypeOK, OnlyOne, Idle, Accepted, MayWork, Close, Settled, Unused
<1>17. ASSUME NEW a \in Actors, NotAccepted(a) PROVE OnlyOne'
  BY <1>17 DEF TypeOK, OnlyOne, Idle, NotAccepted, MayFail, Return, Goto
<1>18. ASSUME NEW s \in Slots, Tick(s) PROVE OnlyOne'
  BY <1>18 DEF TypeOK, OnlyOne, Idle, Tick, Goto, Gone
<1>19. ASSUME NEW s \in Slots, WorkerStops(s) PROVE OnlyOne'
  BY <1>19 DEF TypeOK, OnlyOne, Idle, WorkerStops, Goto, Gone
<1>20. ASSUME NEW i \in Instances, Renew(i) PROVE OnlyOne'
  BY <1>20 DEF TypeOK, OnlyOne, Idle, Renew, Free, Takes
<1>21. ASSUME NEW i \in Instances, Renewed(i) PROVE OnlyOne'
  BY <1>21 DEF TypeOK, OnlyOne, Idle, Renewed
<1>22. ASSUME NEW i \in Instances, Lost(i) PROVE OnlyOne'
  BY <1>22 DEF TypeOK, OnlyOne, Idle, Lost, Forget, Close
<1>23. ASSUME NEW i \in Instances, StopCloses(i) PROVE OnlyOne'
  BY <1>23 DEF TypeOK, OnlyOne, Idle, StopCloses, Close
<1>24. ASSUME NEW i \in Instances, StopPanics(i) PROVE OnlyOne'
  BY <1>24 DEF TypeOK, OnlyOne, Idle, StopPanics, Dies
<1>25. ASSUME NEW i \in Instances, StopReleases(i) PROVE OnlyOne'
  BY <1>25 DEF TypeOK, OnlyOne, Idle, StopReleases
<1>26. ASSUME NEW i \in Instances, Exit(i) PROVE OnlyOne'
  BY <1>26 DEF TypeOK, OnlyOne, Idle, Exit, Dies
<1>27. ASSUME NEW i \in Instances, Stop(i) PROVE OnlyOne'
  BY <1>27 DEF TypeOK, OnlyOne, Idle, Stop
<1>28. ASSUME NEW i \in Instances, Started(i) PROVE OnlyOne'
  BY <1>28 DEF TypeOK, OnlyOne, Idle, Started
<1>29. ASSUME NEW i \in Instances, Crash(i) PROVE OnlyOne'
  BY <1>29 DEF TypeOK, OnlyOne, Idle, Crash, Dies
<1>30. CASE Expires
  BY <1>30 DEF TypeOK, OnlyOne, Idle, Expires
<1>31. CASE UNCHANGED vars
  BY <1>31 DEF vars, TypeOK, OnlyOne, Idle
<1> QED
  BY <1>1, <1>2, <1>3, <1>4, <1>5, <1>6, <1>7, <1>8, <1>9, <1>10, <1>11, <1>12, <1>13, <1>14,
      <1>15, <1>16, <1>17, <1>18, <1>19, <1>20, <1>21, <1>22, <1>23, <1>24, <1>25, <1>26, <1>27,
      <1>28, <1>29, <1>30, <1>31 DEF Next, OpStep, RegisterStep, BeatStep, StopStep

(* Nobody undoes what the login that is alone has done. *)
LEMMA LoneLoginStep ==
  ASSUME TypeOK, Located, KindSteps, OnlyOne, LoneLogin, [Next]_vars
  PROVE  LoneLogin'
<1> USE NoneAssumption, ApartAssumption, BoundAssumption, WorldsAssumption
       DEF row, memory, process, ops, history, Actors, Asked, Kinds
<1>1. ASSUME NEW o \in Ops, NEW i \in Instances, Boot(o, i) PROVE LoneLogin'
  BY <1>1 DEF TypeOK, Located, KindSteps, OnlyOne, LoneLogin, Idle, Renews, Boot, Launch,
      FirstStep
<1>2. ASSUME NEW o \in Ops, NEW i \in Instances, NEW k \in Asked, Request(o, i, k) PROVE LoneLogin'
  BY <1>2 DEF TypeOK, Located, KindSteps, OnlyOne, LoneLogin, Idle, Renews, Request, Launch,
      FirstStep
<1>3. ASSUME NEW o \in Ops, Fails(o) PROVE LoneLogin'
  BY <1>3 DEF TypeOK, Located, KindSteps, OnlyOne, LoneLogin, Idle, Renews, Fails, Goto,
      MayWork, MayFail
<1>4. ASSUME NEW o \in Ops, SetAuto(o) PROVE LoneLogin'
  BY <1>4 DEF TypeOK, Located, KindSteps, OnlyOne, LoneLogin, Idle, Renews, SetAuto, Goto,
      MayWork
<1>5. ASSUME NEW o \in Ops, ForceLease(o) PROVE LoneLogin'
  BY <1>5 DEF TypeOK, Located, KindSteps, OnlyOne, LoneLogin, Idle, Renews, ForceLease, Goto,
      MayWork, Takes
<1>6. ASSUME NEW o \in Ops, Own(o) PROVE LoneLogin'
  BY <1>6 DEF TypeOK, Located, KindSteps, OnlyOne, LoneLogin, Idle, Renews, Own, Goto, MayWork
<1>7. ASSUME NEW o \in Ops, Load(o) PROVE LoneLogin'
  BY <1>7 DEF TypeOK, Located, KindSteps, OnlyOne, LoneLogin, Idle, Renews, Load, Goto, MayWork
<1>8. ASSUME NEW o \in Ops, Replace(o) PROVE LoneLogin'
  BY <1>8 DEF TypeOK, Located, KindSteps, OnlyOne, LoneLogin, Idle, Renews, Replace, Goto,
      MayWork
<1>9. ASSUME NEW o \in Ops, Lease(o) PROVE LoneLogin'
  BY <1>9 DEF TypeOK, Located, KindSteps, OnlyOne, LoneLogin, Idle, Renews, Lease, Goto,
      MayWork, Takes, Free
<1>10. ASSUME NEW o \in Ops, Disable(o) PROVE LoneLogin'
  BY <1>10 DEF TypeOK, Located, KindSteps, OnlyOne, LoneLogin, Idle, Renews, Disable, Goto,
      MayWork
<1>11. ASSUME NEW o \in Ops, Off(o) PROVE LoneLogin'
  BY <1>11 DEF TypeOK, Located, KindSteps, OnlyOne, LoneLogin, Idle, Renews, Off, Goto, MayWork
<1>12. ASSUME NEW o \in Ops, Clear(o) PROVE LoneLogin'
  BY <1>12 DEF TypeOK, Located, KindSteps, OnlyOne, LoneLogin, Idle, Renews, Clear, Goto,
      MayWork, Forget, Close, Manual
<1>13. ASSUME NEW o \in Ops, Expire(o) PROVE LoneLogin'
  BY <1>13 DEF TypeOK, Located, KindSteps, OnlyOne, LoneLogin, Idle, Renews, Expire, Goto,
      MayWork
<1>14. ASSUME NEW o \in Ops, Release(o) PROVE LoneLogin'
  BY <1>14 DEF TypeOK, Located, KindSteps, OnlyOne, LoneLogin, Idle, Renews, Release, Goto,
      MayWork
<1>15. ASSUME NEW o \in Ops, Status(o) PROVE LoneLogin'
  BY <1>15 DEF TypeOK, Located, KindSteps, OnlyOne, LoneLogin, Idle, Renews, Status, Goto,
      MayWork, Manual
<1>16. ASSUME NEW a \in Actors, Accepted(a) PROVE LoneLogin'
  <2>1. PICK s \in Slots : NewWorker(a, s)
    BY <1>16, AcceptedEffect
  <2>2. /\ UNCHANGED <<enabled, auto, owner, expired, life, beat, owned, alone>>
        /\ bound' = bound \cup {at[a]} /\ login' = IF Settled(a) THEN at[a] ELSE login
    BY <1>16 DEF Accepted
  <2>3. \A o \in Ops : kind'[o] = IF o = a THEN None ELSE kind[o]
    BY <1>16 DEF Accepted, TypeOK
  <2>4. \A o \in Ops \ {a} : pc'[o] = pc[o] /\ at'[o] = at[o]
    BY <2>1 DEF NewWorker, TypeOK
  <2>5. a \in Ops => pc'[a] # "own"
    BY <2>1 DEF NewWorker, TypeOK
  <2>6. \A i \in Instances : Renews(i)' => Renews(i)
    BY <2>2, <2>4, <2>5 DEF Renews
  <2> SUFFICES ASSUME NEW o \in Ops, kind'[o] = "register", alone' = o
               PROVE  /\ pc'[o] \in {"force", "own", "sent"} => auto'
                      /\ pc'[o] \in {"own", "sent"} =>
                           enabled' /\ (owner' = at'[o] /\ Renews(at[o])' => ~expired')
    BY <2>3, <2>4 DEF LoneLogin
  <2>7. o # a /\ kind[o] = "register" /\ alone = o
    BY <2>2, <2>3
  <2> QED
    BY <2>2, <2>4, <2>6, <2>7 DEF LoneLogin, Located, TypeOK
<1>17. ASSUME NEW a \in Actors, NotAccepted(a) PROVE LoneLogin'
  BY <1>17 DEF TypeOK, Located, KindSteps, OnlyOne, LoneLogin, Idle, Renews, NotAccepted,
      MayFail, Return, Goto
<1>18. ASSUME NEW s \in Slots, Tick(s) PROVE LoneLogin'
  BY <1>18 DEF TypeOK, Located, KindSteps, OnlyOne, LoneLogin, Idle, Renews, Tick, Goto, Gone
<1>19. ASSUME NEW s \in Slots, WorkerStops(s) PROVE LoneLogin'
  BY <1>19 DEF TypeOK, Located, KindSteps, OnlyOne, LoneLogin, Idle, Renews, WorkerStops, Goto,
      Gone
<1>20. ASSUME NEW i \in Instances, Renew(i) PROVE LoneLogin'
  BY <1>20 DEF TypeOK, Located, KindSteps, OnlyOne, LoneLogin, Idle, Renews, Renew, Free, Takes
<1>21. ASSUME NEW i \in Instances, Renewed(i) PROVE LoneLogin'
  BY <1>21 DEF TypeOK, Located, KindSteps, OnlyOne, LoneLogin, Idle, Renews, Renewed
<1>22. ASSUME NEW i \in Instances, Lost(i) PROVE LoneLogin'
  BY <1>22 DEF TypeOK, Located, KindSteps, OnlyOne, LoneLogin, Idle, Renews, Lost, Forget, Close
<1>23. ASSUME NEW i \in Instances, StopCloses(i) PROVE LoneLogin'
  BY <1>23 DEF TypeOK, Located, KindSteps, OnlyOne, LoneLogin, Idle, Renews, StopCloses, Close
<1>24. ASSUME NEW i \in Instances, StopPanics(i) PROVE LoneLogin'
  BY <1>24 DEF TypeOK, Located, KindSteps, OnlyOne, LoneLogin, Idle, Renews, StopPanics, Dies
<1>25. ASSUME NEW i \in Instances, StopReleases(i) PROVE LoneLogin'
  BY <1>25 DEF TypeOK, Located, KindSteps, OnlyOne, LoneLogin, Idle, Renews, StopReleases
<1>26. ASSUME NEW i \in Instances, Exit(i) PROVE LoneLogin'
  BY <1>26 DEF TypeOK, Located, KindSteps, OnlyOne, LoneLogin, Idle, Renews, Exit, Dies
<1>27. ASSUME NEW i \in Instances, Stop(i) PROVE LoneLogin'
  BY <1>27 DEF TypeOK, Located, KindSteps, OnlyOne, LoneLogin, Idle, Renews, Stop
<1>28. ASSUME NEW i \in Instances, Started(i) PROVE LoneLogin'
  BY <1>28 DEF TypeOK, Located, KindSteps, OnlyOne, LoneLogin, Idle, Renews, Started
<1>29. ASSUME NEW i \in Instances, Crash(i) PROVE LoneLogin'
  BY <1>29 DEF TypeOK, Located, KindSteps, OnlyOne, LoneLogin, Idle, Renews, Crash, Dies
<1>30. CASE Expires
  BY <1>30 DEF TypeOK, Located, KindSteps, OnlyOne, LoneLogin, Idle, Renews, Expires
<1>31. CASE UNCHANGED vars
  BY <1>31 DEF vars, TypeOK, Located, KindSteps, OnlyOne, LoneLogin, Idle, Renews
<1> QED
  BY <1>1, <1>2, <1>3, <1>4, <1>5, <1>6, <1>7, <1>8, <1>9, <1>10, <1>11, <1>12, <1>13, <1>14,
      <1>15, <1>16, <1>17, <1>18, <1>19, <1>20, <1>21, <1>22, <1>23, <1>24, <1>25, <1>26, <1>27,
      <1>28, <1>29, <1>30, <1>31 DEF Next, OpStep, RegisterStep, BeatStep, StopStep

(* A login that had the trunk to itself lasts. *)
LEMMA LoginStep ==
  ASSUME TypeOK, Located, NamesApart, NamesHome, ClosedKnown, HeldIsEntry, OneWorker, KindSteps,
         OnlyOne, LoneLogin, LoginLasts, LoginKept, [Next]_vars
  PROVE  LoginLasts' /\ LoginKept'
<1> USE NoneAssumption, ApartAssumption, BoundAssumption, WorldsAssumption
       DEF row, memory, process, ops, history, Actors, Asked, Kinds
<1>1. ASSUME NEW o \in Ops, NEW i \in Instances, Boot(o, i) PROVE LoginLasts' /\ LoginKept'
  BY <1>1 DEF TypeOK, LoginLasts, LoginKept, Boot, Launch, FirstStep
<1>2. ASSUME NEW o \in Ops, NEW i \in Instances, NEW k \in Asked, Request(o, i, k) PROVE LoginLasts' /\ LoginKept'
  BY <1>2 DEF TypeOK, LoginLasts, LoginKept, Request, Launch, FirstStep
<1>3. ASSUME NEW o \in Ops, Fails(o) PROVE LoginLasts' /\ LoginKept'
  <2> SUFFICES ASSUME login # None PROVE LoginLasts' /\ LoginKept'
    BY <1>3 DEF Fails, history, LoginLasts, LoginKept
  <2>1. pc[o] # "free"
    BY DEF LoginKept, KindSteps, Idle
  <2>2. Goto(o, "done") /\ owned' = owned
    BY <1>3, <2>1 DEF Fails
  <2>3. kind' = [kind EXCEPT ![o] = None] /\ pc' = [pc EXCEPT ![o] = "done"]
    BY <2>2 DEF Goto
  <2>4. UNCHANGED <<enabled, auto, owner, expired, bound, entry, closed, life, beat, login>>
    BY <1>3 DEF Fails
  <2> QED
    BY <2>2, <2>3, <2>4 DEF LoginLasts, LoginKept, TypeOK
<1>4. ASSUME NEW o \in Ops, SetAuto(o) PROVE LoginLasts' /\ LoginKept'
  BY <1>4 DEF TypeOK, LoginLasts, LoginKept, SetAuto, Goto, MayWork
<1>5. ASSUME NEW o \in Ops, ForceLease(o) PROVE LoginLasts' /\ LoginKept'
  <2>1. kind[o] \notin {"refresh", "start", None}
    BY <1>5 DEF ForceLease, KindSteps, Idle
  <2>2. login = None
    BY <2>1 DEF LoginKept
  <2>3. login' = None
    BY <1>5, <2>2 DEF ForceLease
  <2> QED
    BY <2>3 DEF LoginLasts, LoginKept
<1>6. ASSUME NEW o \in Ops, Own(o) PROVE LoginLasts' /\ LoginKept'
  BY <1>6 DEF TypeOK, LoginLasts, LoginKept, Own, Goto, MayWork
<1>7. ASSUME NEW o \in Ops, Load(o) PROVE LoginLasts' /\ LoginKept'
  BY <1>7 DEF TypeOK, LoginLasts, LoginKept, Load, Goto, MayWork
<1>8. ASSUME NEW o \in Ops, Replace(o) PROVE LoginLasts' /\ LoginKept'
  BY <1>8 DEF TypeOK, LoginLasts, LoginKept, Replace, Goto, MayWork
<1>9. ASSUME NEW o \in Ops, Lease(o) PROVE LoginLasts' /\ LoginKept'
  BY <1>9 DEF TypeOK, LoginLasts, LoginKept, Lease, Goto, MayWork, Takes, Free
<1>10. ASSUME NEW o \in Ops, Disable(o) PROVE LoginLasts' /\ LoginKept'
  <2>1. kind[o] \notin {"refresh", "start", None}
    BY <1>10 DEF Disable, KindSteps, Idle
  <2>2. login = None
    BY <2>1 DEF LoginKept
  <2>3. login' = None
    BY <1>10, <2>2 DEF Disable
  <2> QED
    BY <2>3 DEF LoginLasts, LoginKept
<1>11. ASSUME NEW o \in Ops, Off(o) PROVE LoginLasts' /\ LoginKept'
  <2>1. kind[o] \notin {"refresh", "start", None}
    BY <1>11 DEF Off, KindSteps, Idle
  <2>2. login = None
    BY <2>1 DEF LoginKept
  <2>3. login' = None
    BY <1>11, <2>2 DEF Off
  <2> QED
    BY <2>3 DEF LoginLasts, LoginKept
<1>12. ASSUME NEW o \in Ops, Clear(o) PROVE LoginLasts' /\ LoginKept'
  <2>1. kind[o] \notin {"refresh", "start", None}
    BY <1>12 DEF Clear, KindSteps, Idle
  <2>2. login = None
    BY <2>1 DEF LoginKept
  <2>3. login' = None
    BY <1>12, <2>2 DEF Clear
  <2> QED
    BY <2>3 DEF LoginLasts, LoginKept
<1>13. ASSUME NEW o \in Ops, Expire(o) PROVE LoginLasts' /\ LoginKept'
  <2>1. kind[o] \notin {"refresh", "start", None}
    BY <1>13 DEF Expire, KindSteps, Idle
  <2>2. login = None
    BY <2>1 DEF LoginKept
  <2>3. login' = None
    BY <1>13, <2>2 DEF Expire
  <2> QED
    BY <2>3 DEF LoginLasts, LoginKept
<1>14. ASSUME NEW o \in Ops, Release(o) PROVE LoginLasts' /\ LoginKept'
  <2>1. kind[o] \notin {"refresh", "start", None}
    BY <1>14 DEF Release, KindSteps, Idle
  <2>2. login = None
    BY <2>1 DEF LoginKept
  <2>3. login' = None
    BY <1>14, <2>2 DEF Release
  <2> QED
    BY <2>3 DEF LoginLasts, LoginKept
<1>15. ASSUME NEW o \in Ops, Status(o) PROVE LoginLasts' /\ LoginKept'
  <2>1. kind[o] \notin {"refresh", "start", None}
    BY <1>15 DEF Status, KindSteps, Idle
  <2>2. login = None
    BY <2>1 DEF LoginKept
  <2>3. login' = None
    BY <1>15, <2>2 DEF Status
  <2> QED
    BY <2>3 DEF LoginLasts, LoginKept
<1>16. ASSUME NEW a \in Actors, Accepted(a) PROVE LoginLasts' /\ LoginKept'
  <2>1. PICK s \in Slots : NewWorker(a, s)
    BY <1>16, AcceptedEffect
  <2>2. /\ UNCHANGED <<enabled, auto, owner, expired, life, beat, owned, alone>>
        /\ bound' = bound \cup {at[a]} /\ login' = IF Settled(a) THEN at[a] ELSE login
    BY <1>16 DEF Accepted
  <2>3. \A o \in Ops : kind'[o] = IF o = a THEN None ELSE kind[o]
    BY <1>16 DEF Accepted, TypeOK
  <2>4. \A o \in Ops \ {a} : pc'[o] = pc[o] /\ at'[o] = at[o]
    BY <2>1 DEF NewWorker, TypeOK
  <2>5. closed' = closed \cup {t \in {entry[at[a]]} \ {None} : pc[t] # "none" \/ \E i \in Instances : held[i] = t}
    BY <2>1 DEF NewWorker, Close
  <2>6. /\ entry'[at[a]] = s /\ pc'[s] # "none" /\ s # None
        /\ s \notin closed'
    BY <2>1, <2>5 DEF NewWorker, TypeOK, Names, ClosedKnown
  <2>7. CASE Settled(a)
    <3>1. /\ login' = at[a] /\ a \in Ops /\ kind[a] = "register" /\ alone = a /\ pc[a] = "sent"
          /\ life[at[a]] = "up" /\ owner = at[a] /\ owned[at[a]] /\ beat[at[a]] # "lost"
      BY <1>16, <2>2, <2>7 DEF Settled, Accepted
    <3>2. auto /\ enabled /\ ~expired
      BY <3>1 DEF LoneLogin, Renews
    <3>3. \A o \in Ops : kind'[o] = None
      BY <2>3, <3>1 DEF OnlyOne, KindSteps
    <3> QED
      BY <2>1, <2>2, <2>6, <3>1, <3>2, <3>3 DEF LoginLasts, LoginKept, NewWorker
  <2>8. CASE ~Settled(a)
    <3> SUFFICES ASSUME login # None PROVE LoginLasts' /\ LoginKept'
      BY <2>2, <2>8 DEF LoginLasts, LoginKept
    <3>1. login' = login /\ login \in Instances
      BY <2>2, <2>8 DEF TypeOK
    <3>2. LoginKept'
      BY <2>2, <2>3, <3>1 DEF LoginKept
    <3>3. entry'[login] # None /\ entry'[login] \notin closed' /\ pc'[entry'[login]] # "none"
      <4>1. CASE at[a] = login
        BY <2>6, <4>1
      <4>2. CASE at[a] # login
        <5>1. entry'[login] = entry[login] /\ entry[login] \in Slots /\ entry[login] # s
          BY <2>1, <3>1, <4>2 DEF NewWorker, LoginLasts, TypeOK, Names
        <5>2. entry[login] # entry[at[a]]
          BY <2>1, <3>1, <4>2, <5>1 DEF NamesApart, Names, NewWorker
        <5>3. pc'[entry[login]] # "none"
          BY <2>1, <5>1 DEF NewWorker, LoginLasts, TypeOK
        <5> QED
          BY <2>5, <5>1, <5>2, <5>3 DEF LoginLasts
      <4> QED
        BY <4>1, <4>2
    <3> QED
      BY <2>2, <3>1, <3>2, <3>3 DEF LoginLasts
  <2> QED
    BY <2>7, <2>8
<1>17. ASSUME NEW a \in Actors, NotAccepted(a) PROVE LoginLasts' /\ LoginKept'
  BY <1>17 DEF TypeOK, LoginLasts, LoginKept, NotAccepted, MayFail, Return, Goto
<1>18. ASSUME NEW s \in Slots, Tick(s) PROVE LoginLasts' /\ LoginKept'
  BY <1>18 DEF TypeOK, LoginLasts, LoginKept, Tick, Goto, Gone, NamesApart, NamesHome,
      OneWorker, HeldIsEntry, Names, Stopping, KindSteps, Located
<1>19. ASSUME NEW s \in Slots, WorkerStops(s) PROVE LoginLasts' /\ LoginKept'
  BY <1>19 DEF TypeOK, LoginLasts, LoginKept, WorkerStops, Goto, Gone, NamesApart, NamesHome,
      OneWorker, HeldIsEntry, Names, Stopping, KindSteps, Located
<1>20. ASSUME NEW i \in Instances, Renew(i) PROVE LoginLasts' /\ LoginKept'
  BY <1>20 DEF TypeOK, LoginLasts, LoginKept, Renew, Free, Takes
<1>21. ASSUME NEW i \in Instances, Renewed(i) PROVE LoginLasts' /\ LoginKept'
  BY <1>21 DEF TypeOK, LoginLasts, LoginKept, Renewed
<1>22. ASSUME NEW i \in Instances, Lost(i) PROVE LoginLasts' /\ LoginKept'
  BY <1>22 DEF TypeOK, LoginLasts, LoginKept, Lost, Forget, Close, NamesApart, NamesHome,
      OneWorker, HeldIsEntry, Names, Stopping, KindSteps, Located
<1>23. ASSUME NEW i \in Instances, StopCloses(i) PROVE LoginLasts' /\ LoginKept'
  BY <1>23 DEF TypeOK, LoginLasts, LoginKept, StopCloses, Close, NamesApart, NamesHome,
      OneWorker, HeldIsEntry, Names, Stopping, KindSteps, Located
<1>24. ASSUME NEW i \in Instances, StopPanics(i) PROVE LoginLasts' /\ LoginKept'
  BY <1>24 DEF TypeOK, LoginLasts, LoginKept, StopPanics, Dies, NamesApart, NamesHome,
      OneWorker, HeldIsEntry, Names, Stopping, KindSteps, Located
<1>25. ASSUME NEW i \in Instances, StopReleases(i) PROVE LoginLasts' /\ LoginKept'
  BY <1>25 DEF TypeOK, LoginLasts, LoginKept, StopReleases, NamesApart, NamesHome, OneWorker,
      HeldIsEntry, Names, Stopping, KindSteps, Located
<1>26. ASSUME NEW i \in Instances, Exit(i) PROVE LoginLasts' /\ LoginKept'
  BY <1>26 DEF TypeOK, LoginLasts, LoginKept, Exit, Dies, NamesApart, NamesHome, OneWorker,
      HeldIsEntry, Names, Stopping, KindSteps, Located
<1>27. ASSUME NEW i \in Instances, Stop(i) PROVE LoginLasts' /\ LoginKept'
  BY <1>27 DEF TypeOK, LoginLasts, LoginKept, Stop, NamesApart, NamesHome, OneWorker,
      HeldIsEntry, Names, Stopping, KindSteps, Located
<1>28. ASSUME NEW i \in Instances, Started(i) PROVE LoginLasts' /\ LoginKept'
  BY <1>28 DEF TypeOK, LoginLasts, LoginKept, Started
<1>29. ASSUME NEW i \in Instances, Crash(i) PROVE LoginLasts' /\ LoginKept'
  BY <1>29 DEF TypeOK, LoginLasts, LoginKept, Crash, Dies, NamesApart, NamesHome, OneWorker,
      HeldIsEntry, Names, Stopping, KindSteps, Located
<1>30. CASE Expires
  BY <1>30 DEF TypeOK, LoginLasts, LoginKept, Expires, NamesApart, NamesHome, OneWorker,
      HeldIsEntry, Names, Stopping, KindSteps, Located, Renews
<1>31. CASE UNCHANGED vars
  BY <1>31 DEF vars, TypeOK, LoginLasts, LoginKept
<1> QED
  BY <1>1, <1>2, <1>3, <1>4, <1>5, <1>6, <1>7, <1>8, <1>9, <1>10, <1>11, <1>12, <1>13, <1>14,
      <1>15, <1>16, <1>17, <1>18, <1>19, <1>20, <1>21, <1>22, <1>23, <1>24, <1>25, <1>26, <1>27,
      <1>28, <1>29, <1>30, <1>31 DEF Next, OpStep, RegisterStep, BeatStep, StopStep

(* A logout that had the trunk to itself lasts. *)
LEMMA LogoutStep ==
  ASSUME TypeOK, Located, KindSteps, OnlyOne, LogoutLasts, LogoutKept, [Next]_vars
  PROVE  LogoutLasts' /\ LogoutKept'
<1> USE NoneAssumption, ApartAssumption, BoundAssumption, WorldsAssumption
       DEF row, memory, process, ops, history, Actors, Asked, Kinds
<1>1. ASSUME NEW o \in Ops, NEW i \in Instances, Boot(o, i) PROVE LogoutLasts' /\ LogoutKept'
  BY <1>1 DEF TypeOK, LogoutLasts, LogoutKept, Idle, Boot, Launch, FirstStep
<1>2. ASSUME NEW o \in Ops, NEW i \in Instances, NEW k \in Asked, Request(o, i, k) PROVE LogoutLasts' /\ LogoutKept'
  BY <1>2 DEF TypeOK, LogoutLasts, LogoutKept, Idle, Request, Launch, FirstStep
<1>3. ASSUME NEW o \in Ops, Fails(o) PROVE LogoutLasts' /\ LogoutKept'
  BY <1>3 DEF TypeOK, LogoutLasts, LogoutKept, Idle, Fails, Goto, MayWork, MayFail
<1>4. ASSUME NEW o \in Ops, SetAuto(o) PROVE LogoutLasts' /\ LogoutKept'
  BY <1>4 DEF TypeOK, LogoutLasts, LogoutKept, Idle, SetAuto, Goto, MayWork
<1>5. ASSUME NEW o \in Ops, ForceLease(o) PROVE LogoutLasts' /\ LogoutKept'
  BY <1>5 DEF TypeOK, LogoutLasts, LogoutKept, Idle, ForceLease, Goto, MayWork, Takes
<1>6. ASSUME NEW o \in Ops, Own(o) PROVE LogoutLasts' /\ LogoutKept'
  BY <1>6 DEF TypeOK, LogoutLasts, LogoutKept, Idle, Own, Goto, MayWork
<1>7. ASSUME NEW o \in Ops, Load(o) PROVE LogoutLasts' /\ LogoutKept'
  BY <1>7 DEF TypeOK, LogoutLasts, LogoutKept, Idle, Load, Goto, MayWork
<1>8. ASSUME NEW o \in Ops, Replace(o) PROVE LogoutLasts' /\ LogoutKept'
  BY <1>8 DEF TypeOK, LogoutLasts, LogoutKept, Idle, Replace, Goto, MayWork
<1>9. ASSUME NEW o \in Ops, Lease(o) PROVE LogoutLasts' /\ LogoutKept'
  BY <1>9 DEF TypeOK, LogoutLasts, LogoutKept, Idle, Lease, Goto, MayWork, Takes, Free
<1>10. ASSUME NEW o \in Ops, Disable(o) PROVE LogoutLasts' /\ LogoutKept'
  BY <1>10 DEF TypeOK, LogoutLasts, LogoutKept, Idle, Disable, Goto, MayWork
<1>11. ASSUME NEW o \in Ops, Off(o) PROVE LogoutLasts' /\ LogoutKept'
  BY <1>11 DEF TypeOK, LogoutLasts, LogoutKept, Idle, Off, Goto, MayWork
<1>12. ASSUME NEW o \in Ops, Clear(o) PROVE LogoutLasts' /\ LogoutKept'
  BY <1>12 DEF TypeOK, LogoutLasts, LogoutKept, Idle, Clear, Goto, MayWork, Forget, Close,
      Manual
<1>13. ASSUME NEW o \in Ops, Expire(o) PROVE LogoutLasts' /\ LogoutKept'
  BY <1>13 DEF TypeOK, LogoutLasts, LogoutKept, Idle, Expire, Goto, MayWork
<1>14. ASSUME NEW o \in Ops, Release(o) PROVE LogoutLasts' /\ LogoutKept'
  BY <1>14 DEF TypeOK, LogoutLasts, LogoutKept, Idle, Release, Goto, MayWork
<1>15. ASSUME NEW o \in Ops, Status(o) PROVE LogoutLasts' /\ LogoutKept'
  BY <1>15 DEF TypeOK, LogoutLasts, LogoutKept, Idle, Status, Goto, MayWork, Manual, OnlyOne,
      Located, KindSteps
<1>16. ASSUME NEW a \in Actors, Accepted(a) PROVE LogoutLasts' /\ LogoutKept'
  BY <1>16 DEF TypeOK, LogoutLasts, LogoutKept, Idle, Accepted, MayWork, Close, Settled, Unused
<1>17. ASSUME NEW a \in Actors, NotAccepted(a) PROVE LogoutLasts' /\ LogoutKept'
  BY <1>17 DEF TypeOK, LogoutLasts, LogoutKept, Idle, NotAccepted, MayFail, Return, Goto
<1>18. ASSUME NEW s \in Slots, Tick(s) PROVE LogoutLasts' /\ LogoutKept'
  BY <1>18 DEF TypeOK, LogoutLasts, LogoutKept, Idle, Tick, Goto, Gone
<1>19. ASSUME NEW s \in Slots, WorkerStops(s) PROVE LogoutLasts' /\ LogoutKept'
  BY <1>19 DEF TypeOK, LogoutLasts, LogoutKept, Idle, WorkerStops, Goto, Gone
<1>20. ASSUME NEW i \in Instances, Renew(i) PROVE LogoutLasts' /\ LogoutKept'
  BY <1>20 DEF TypeOK, LogoutLasts, LogoutKept, Idle, Renew, Free, Takes
<1>21. ASSUME NEW i \in Instances, Renewed(i) PROVE LogoutLasts' /\ LogoutKept'
  BY <1>21 DEF TypeOK, LogoutLasts, LogoutKept, Idle, Renewed
<1>22. ASSUME NEW i \in Instances, Lost(i) PROVE LogoutLasts' /\ LogoutKept'
  BY <1>22 DEF TypeOK, LogoutLasts, LogoutKept, Idle, Lost, Forget, Close
<1>23. ASSUME NEW i \in Instances, StopCloses(i) PROVE LogoutLasts' /\ LogoutKept'
  BY <1>23 DEF TypeOK, LogoutLasts, LogoutKept, Idle, StopCloses, Close
<1>24. ASSUME NEW i \in Instances, StopPanics(i) PROVE LogoutLasts' /\ LogoutKept'
  BY <1>24 DEF TypeOK, LogoutLasts, LogoutKept, Idle, StopPanics, Dies
<1>25. ASSUME NEW i \in Instances, StopReleases(i) PROVE LogoutLasts' /\ LogoutKept'
  BY <1>25 DEF TypeOK, LogoutLasts, LogoutKept, Idle, StopReleases
<1>26. ASSUME NEW i \in Instances, Exit(i) PROVE LogoutLasts' /\ LogoutKept'
  BY <1>26 DEF TypeOK, LogoutLasts, LogoutKept, Idle, Exit, Dies
<1>27. ASSUME NEW i \in Instances, Stop(i) PROVE LogoutLasts' /\ LogoutKept'
  BY <1>27 DEF TypeOK, LogoutLasts, LogoutKept, Idle, Stop
<1>28. ASSUME NEW i \in Instances, Started(i) PROVE LogoutLasts' /\ LogoutKept'
  BY <1>28 DEF TypeOK, LogoutLasts, LogoutKept, Idle, Started
<1>29. ASSUME NEW i \in Instances, Crash(i) PROVE LogoutLasts' /\ LogoutKept'
  BY <1>29 DEF TypeOK, LogoutLasts, LogoutKept, Idle, Crash, Dies
<1>30. CASE Expires
  BY <1>30 DEF TypeOK, LogoutLasts, LogoutKept, Idle, Expires
<1>31. CASE UNCHANGED vars
  BY <1>31 DEF vars, TypeOK, LogoutLasts, LogoutKept, Idle
<1> QED
  BY <1>1, <1>2, <1>3, <1>4, <1>5, <1>6, <1>7, <1>8, <1>9, <1>10, <1>11, <1>12, <1>13, <1>14,
      <1>15, <1>16, <1>17, <1>18, <1>19, <1>20, <1>21, <1>22, <1>23, <1>24, <1>25, <1>26, <1>27,
      <1>28, <1>29, <1>30, <1>31 DEF Next, OpStep, RegisterStep, BeatStep, StopStep

-----------------------------------------------------------------------------
(* WorkerInv is an invariant *)

(* The gateways begin without a worker, or with the one of the last login. *)
LEMMA WorkerInit ==
  Init => WorkerInv
<1> SUFFICES ASSUME Init PROVE WorkerInv
  OBVIOUS
<1> USE NoneAssumption, ApartAssumption, BoundAssumption, SomeAssumption, WorldsAssumption DEF Actors
<1>1. (CHOOSE i \in Instances : TRUE) \in Instances /\ (CHOOSE s \in Slots : TRUE) \in Slots
  OBVIOUS
<1>2. PICK j \in Instances, w \in Slots : NobodyIn \/ SomebodyIn(j, w)
  BY <1>1 DEF Init
<1> USE DEF NobodyIn, SomebodyIn
<1>3. /\ world \in Worlds /\ enabled = TRUE /\ expired = FALSE
      /\ life = [i \in Instances |-> "up"] /\ held = [i \in Instances |-> None]
      /\ beat = [i \in Instances |-> "idle"]
      /\ kind = [o \in Ops |-> None] /\ seen = [o \in Ops |-> None]
      /\ closed = {} /\ downs = 0 /\ alone = None /\ logout = FALSE
  BY DEF Init
<1>4. owner \in Instances \cup {None} /\ login \in Instances \cup {None} /\ bound \subseteq Instances
  BY <1>2
<1>5. auto \in BOOLEAN
  BY <1>2, Zenon
<1>6. known \in [Instances -> Cached] /\ entry \in [Instances -> Slots \cup {None}]
  BY <1>2 DEF Cached
<1>7. owned \in [Instances -> BOOLEAN]
  BY <1>2, ZenonT(60)
<1>8. pc \in [Actors -> Steps] /\ at \in [Actors -> Instances \cup {None}]
  BY <1>2 DEF Steps
<1>12. enabled \in BOOLEAN /\ expired \in BOOLEAN /\ logout \in BOOLEAN
  BY <1>3, Zenon
<1>13. /\ life \in [Instances -> {"down", "starting", "up", "closing", "expiring", "ended"}]
       /\ held \in [Instances -> Slots \cup {None}] /\ beat \in [Instances -> {"idle", "won", "lost"}]
       /\ kind \in [Ops -> Asked \cup {"start", None}] /\ seen \in [Ops -> Cached \cup {None, "failed"}]
       /\ closed \subseteq Slots /\ downs \in 0..MaxDowns /\ alone \in Ops \cup {None} /\ world \in Worlds
  BY <1>3
<1> HIDE DEF NobodyIn, SomebodyIn
<1>9. TypeOK
  BY <1>12, <1>13, <1>4, <1>5, <1>6, <1>7, <1>8 DEF TypeOK
<1> USE DEF NobodyIn, SomebodyIn
<1>10. Located /\ Loaded /\ NamesApart /\ NamesHome
  BY <1>2, <1>3 DEF Located, Loaded, NamesApart, NamesHome, Names
<1>11. ClosedKnown /\ HeldIsEntry /\ OneWorker
  BY <1>2, <1>3 DEF ClosedKnown, HeldIsEntry, OneWorker, Stopping
<1> QED
  BY <1>9, <1>10, <1>11 DEF WorkerInv

(* Every reachable state satisfies WorkerInv: its parts hold of the first
   state, and each is kept by every action that may disturb it. *)
THEOREM Invariance == Spec => []WorkerInv
<1>1. WorkerInv /\ [Next]_vars => WorkerInv'
  BY TypeStep, LocatedStep, LoadedStep, NamesApartStep, NamesHomeStep, ClosedKnownStep, HeldStep,
     OneWorkerStep DEF WorkerInv
<1> QED
  BY WorkerInit, <1>1, PTL DEF Spec

(* The variables keep their types (TrunkLease's TypeOK). *)
THEOREM TypeCorrect == Spec => []TypeOK
<1>1. WorkerInv => TypeOK
  BY DEF WorkerInv
<1> QED
  BY Invariance, <1>1, PTL

(* startRefreshWorker, unregisterTrunk and markLeaseLost: however logins,
   logouts, refreshes, lost leases, stops and crashes of any number of
   instances fall together, an instance runs one refresh worker that was not
   told to stop, the one its map names, and the map never names a worker whose
   stop channel is closed. *)
THEOREM OneWorkerEach == Spec => []OneWorker
<1>1. WorkerInv => OneWorker
  BY DEF WorkerInv
<1> QED
  BY Invariance, <1>1, PTL

-----------------------------------------------------------------------------
(* IntentInv is an invariant *)

LEMMA IntentInit ==
  Init => KindSteps /\ OnlyOne /\ LoneLogin /\ LoginLasts /\ LoginKept /\ LogoutLasts /\ LogoutKept
<1> SUFFICES ASSUME Init
             PROVE  KindSteps /\ OnlyOne /\ LoneLogin /\ LoginLasts /\ LoginKept /\ LogoutLasts /\ LogoutKept
  OBVIOUS
<1> USE NoneAssumption, ApartAssumption, SomeAssumption DEF Actors, Kinds
<1>1. (CHOOSE i \in Instances : TRUE) \in Instances /\ (CHOOSE s \in Slots : TRUE) \in Slots
  OBVIOUS
<1>2. PICK j \in Instances, w \in Slots : NobodyIn \/ SomebodyIn(j, w)
  BY <1>1 DEF Init
<1>3. /\ enabled = TRUE /\ expired = FALSE
      /\ life = [i \in Instances |-> "up"] /\ beat = [i \in Instances |-> "idle"]
      /\ kind = [o \in Ops |-> None] /\ closed = {} /\ alone = None /\ logout = FALSE
  BY DEF Init
<1>4. \A o \in Ops : pc[o] = "none"
  BY <1>2 DEF NobodyIn, SomebodyIn
<1>5. KindSteps /\ OnlyOne /\ LoneLogin /\ LogoutLasts /\ LogoutKept
  BY <1>3, <1>4 DEF KindSteps, OnlyOne, LoneLogin, LogoutLasts, LogoutKept, Idle
<1>6. LoginLasts
  BY <1>2, <1>3, ZenonT(40) DEF LoginLasts, NobodyIn, SomebodyIn
<1>7. LoginKept
  BY <1>2, <1>3 DEF LoginKept, NobodyIn, SomebodyIn
<1> QED
  BY <1>5, <1>6, <1>7

(* Every reachable state satisfies IntentInv. *)
THEOREM IntentInvariance == Spec => []IntentInv
<1>1. Init => IntentInv
  BY WorkerInit, IntentInit DEF IntentInv
<1>2. WorkerInv /\ [Next]_vars => WorkerInv'
  BY TypeStep, LocatedStep, LoadedStep, NamesApartStep, NamesHomeStep, ClosedKnownStep, HeldStep,
     OneWorkerStep DEF WorkerInv
<1>3. IntentInv /\ [Next]_vars => IntentInv'
  BY <1>2, KindStepsStep, OnlyOneStep, LoneLoginStep, LoginStep, LogoutStep DEF IntentInv, WorkerInv
<1> QED
  BY <1>1, <1>3, PTL DEF Spec

(* RegisterTrunk and UnregisterTrunk: what a login or a logout that had the
   trunk to itself leaves behind lasts, for any number of instances that
   refresh, beat, fail, stop, crash and start, and any number of workers: the
   instance of the login keeps lease, binding and worker until the next one,
   and after the logout nobody registers the trunk. *)
THEOREM LastWordCounts == Spec => []IntentLasts
<1>1. IntentInv => IntentLasts
  BY DEF IntentInv, IntentLasts
<1> QED
  BY IntentInvariance, <1>1, PTL
=============================================================================
