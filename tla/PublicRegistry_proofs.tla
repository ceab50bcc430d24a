----------------------- MODULE PublicRegistry_proofs ------------------------
(***************************************************************************)
(* Proofs about PublicRegistry for every set of keys, calls and objects,   *)
(* every limit and every number of counts the end of a call takes back.    *)
(***************************************************************************)
EXTENDS PublicRegistry, FiniteSetTheorems, TLAPS

-----------------------------------------------------------------------------
(* The inductive step, one lemma per part of RegistryInv *)

(* A call takes part in the count of one object. *)
LEMMA OnOthers ==
  ASSUME HistoryOK, NEW c \in Calls, NEW v, counted' = [counted EXCEPT ![c] = v], NEW o
  PROVE  On(o)' = IF v = o THEN On(o) \cup {c} ELSE On(o) \ {c}
BY DEF HistoryOK, On

(* An object stays with its key, and what is worked on are objects. *)
LEMMA KeysStep ==
  ASSUME TypeOK, KeysKept, Placed, [Next]_vars
  PROVE  KeysKept'
<1> USE NoneAssumption, BoundAssumption DEF account, process, sweeper, history
<1>1. ASSUME NEW c \in Calls, NEW k \in Keys, Acquire(c, k) PROVE KeysKept'
  BY <1>1 DEF TypeOK, AccountOK, ProcessOK, SweeperOK, HistoryOK, KeysKept, Placed, Acquire
<1>2. ASSUME NEW c \in Calls, Look(c) PROVE KeysKept'
  BY <1>2 DEF TypeOK, AccountOK, ProcessOK, SweeperOK, HistoryOK, KeysKept, Placed, Look
<1>3. ASSUME NEW c \in Calls, Register(c) PROVE KeysKept'
  BY <1>3 DEF TypeOK, AccountOK, ProcessOK, SweeperOK, HistoryOK, KeysKept, Placed, Register,
      At, Binds
<1>4. ASSUME NEW c \in Calls, RegisterFails(c) PROVE KeysKept'
  BY <1>4 DEF TypeOK, AccountOK, ProcessOK, SweeperOK, HistoryOK, KeysKept, Placed,
      RegisterFails
<1>5. ASSUME NEW c \in Calls, Registered(c) PROVE KeysKept'
  BY <1>5 DEF TypeOK, AccountOK, ProcessOK, SweeperOK, HistoryOK, KeysKept, Placed, Registered,
      At
<1>6. ASSUME NEW c \in Calls, StartWorker(c) PROVE KeysKept'
  BY <1>6 DEF TypeOK, AccountOK, ProcessOK, SweeperOK, HistoryOK, KeysKept, Placed, StartWorker,
      At
<1>7. ASSUME NEW c \in Calls, LookToCount(c) PROVE KeysKept'
  BY <1>7 DEF TypeOK, AccountOK, ProcessOK, SweeperOK, HistoryOK, KeysKept, Placed, LookToCount
<1>8. ASSUME NEW c \in Calls, Count(c) PROVE KeysKept'
  BY <1>8 DEF TypeOK, AccountOK, ProcessOK, SweeperOK, HistoryOK, KeysKept, Placed, Count, At
<1>9. ASSUME NEW c \in Calls, CallEnds(c) PROVE KeysKept'
  BY <1>9 DEF TypeOK, AccountOK, ProcessOK, SweeperOK, HistoryOK, KeysKept, Placed, CallEnds
<1>10. ASSUME NEW c \in Calls, Uncount(c) PROVE KeysKept'
  BY <1>10 DEF TypeOK, AccountOK, ProcessOK, SweeperOK, HistoryOK, KeysKept, Placed, Uncount
<1>11. ASSUME NEW c \in Calls, Tick(c) PROVE KeysKept'
  BY <1>11 DEF TypeOK, AccountOK, ProcessOK, SweeperOK, HistoryOK, KeysKept, Placed, Tick
<1>12. ASSUME NEW c \in Calls, Refreshed(c) PROVE KeysKept'
  BY <1>12 DEF TypeOK, AccountOK, ProcessOK, SweeperOK, HistoryOK, KeysKept, Placed, Refreshed,
      Binds
<1>13. ASSUME NEW c \in Calls, WorkerReturns(c) PROVE KeysKept'
  BY <1>13 DEF TypeOK, AccountOK, ProcessOK, SweeperOK, HistoryOK, KeysKept, Placed,
      WorkerReturns, Halted
<1>14. ASSUME NEW o \in Objects, Ages(o) PROVE KeysKept'
  BY <1>14 DEF TypeOK, AccountOK, ProcessOK, SweeperOK, HistoryOK, KeysKept, Placed, Ages
<1>15. CASE Cleanup
  BY <1>15 DEF TypeOK, AccountOK, ProcessOK, SweeperOK, HistoryOK, KeysKept, Placed, Cleanup,
      Unused, Listed
<1>16. CASE NextSwept
  BY <1>16 DEF TypeOK, AccountOK, ProcessOK, SweeperOK, HistoryOK, KeysKept, Placed, NextSwept
<1>17. CASE CancelWorker
  BY <1>17 DEF TypeOK, AccountOK, ProcessOK, SweeperOK, HistoryOK, KeysKept, Placed,
      CancelWorker
<1>18. CASE SendUnregister
  BY <1>18 DEF TypeOK, AccountOK, ProcessOK, SweeperOK, HistoryOK, KeysKept, Placed,
      SendUnregister, Unbinds
<1>19. CASE MarkUnregistered
  BY <1>19 DEF TypeOK, AccountOK, ProcessOK, SweeperOK, HistoryOK, KeysKept, Placed,
      MarkUnregistered
<1>20. CASE Stop
  BY <1>20 DEF TypeOK, AccountOK, ProcessOK, SweeperOK, HistoryOK, KeysKept, Placed, Stop, InMap
<1>21. CASE Stopped
  BY <1>21 DEF TypeOK, AccountOK, ProcessOK, SweeperOK, HistoryOK, KeysKept, Placed, Stopped
<1>22. ASSUME NEW k \in Keys, Lapses(k) PROVE KeysKept'
  BY <1>22 DEF TypeOK, AccountOK, ProcessOK, SweeperOK, HistoryOK, KeysKept, Placed, Lapses,
      Unbinds
<1>23. CASE UNCHANGED vars
  BY <1>23 DEF vars, TypeOK, AccountOK, ProcessOK, SweeperOK, HistoryOK, KeysKept, Placed
<1> QED
  BY <1>1, <1>2, <1>3, <1>4, <1>5, <1>6, <1>7, <1>8, <1>9, <1>10, <1>11, <1>12, <1>13, <1>14,
      <1>15, <1>16, <1>17, <1>18, <1>19, <1>20, <1>21, <1>22, <1>23 DEF Next, CallStep,
      WorkerStep, Unregister

(* The accounts keep their types, ... *)
LEMMA AccountStep ==
  ASSUME TypeOK, KeysKept, Placed, [Next]_vars
  PROVE  AccountOK'
<1> USE NoneAssumption, BoundAssumption DEF account, process, sweeper, history
<1>1. ASSUME NEW c \in Calls, NEW k \in Keys, Acquire(c, k) PROVE AccountOK'
  BY <1>1 DEF TypeOK, AccountOK, ProcessOK, SweeperOK, HistoryOK, KeysKept, Placed, Acquire
<1>2. ASSUME NEW c \in Calls, Look(c) PROVE AccountOK'
  BY <1>2 DEF TypeOK, AccountOK, ProcessOK, SweeperOK, HistoryOK, KeysKept, Placed, Look
<1>3. ASSUME NEW c \in Calls, Register(c) PROVE AccountOK'
  BY <1>3 DEF TypeOK, AccountOK, ProcessOK, SweeperOK, HistoryOK, KeysKept, Placed, Register,
      At, Binds
<1>4. ASSUME NEW c \in Calls, RegisterFails(c) PROVE AccountOK'
  BY <1>4 DEF TypeOK, AccountOK, ProcessOK, SweeperOK, HistoryOK, KeysKept, Placed,
      RegisterFails
<1>5. ASSUME NEW c \in Calls, Registered(c) PROVE AccountOK'
  BY <1>5 DEF TypeOK, AccountOK, ProcessOK, SweeperOK, HistoryOK, KeysKept, Placed, Registered,
      At
<1>6. ASSUME NEW c \in Calls, StartWorker(c) PROVE AccountOK'
  BY <1>6 DEF TypeOK, AccountOK, ProcessOK, SweeperOK, HistoryOK, KeysKept, Placed, StartWorker,
      At
<1>7. ASSUME NEW c \in Calls, LookToCount(c) PROVE AccountOK'
  BY <1>7 DEF TypeOK, AccountOK, ProcessOK, SweeperOK, HistoryOK, KeysKept, Placed, LookToCount
<1>8. ASSUME NEW c \in Calls, Count(c) PROVE AccountOK'
  BY <1>8 DEF TypeOK, AccountOK, ProcessOK, SweeperOK, HistoryOK, KeysKept, Placed, Count, At
<1>9. ASSUME NEW c \in Calls, CallEnds(c) PROVE AccountOK'
  BY <1>9 DEF TypeOK, AccountOK, ProcessOK, SweeperOK, HistoryOK, KeysKept, Placed, CallEnds
<1>10. ASSUME NEW c \in Calls, Uncount(c) PROVE AccountOK'
  <2>1. call[c] = "dec" /\ obj[c] # None /\ key[c] \in Keys
    BY <1>10 DEF Uncount, Placed, KeysKept
  <2>2. accounts[key[c]] \in Objects \cup {None} BY <2>1 DEF TypeOK, AccountOK
  <2>3. CASE accounts[key[c]] = None BY <1>10, <2>3 DEF Uncount, TypeOK, AccountOK
  <2>4. CASE accounts[key[c]] # None
    <3> DEFINE a == accounts[key[c]]
    <3>1. /\ refs' = [refs EXCEPT ![a] = IF @ > 0 THEN @ - 1 ELSE 0]
          /\ idle' = [idle EXCEPT ![a] = FALSE]
          /\ UNCHANGED <<accounts, keyOf, registered, current>>
      BY <1>10, <2>4 DEF Uncount
    <3>2. (IF refs[a] > 0 THEN refs[a] - 1 ELSE 0) \in Nat BY <2>2, <2>4 DEF TypeOK, AccountOK
    <3> HIDE DEF a
    <3>3. refs' \in [Objects -> Nat] BY <3>1, <3>2 DEF TypeOK, AccountOK
    <3> QED BY <3>1, <3>3 DEF TypeOK, AccountOK
  <2> QED BY <2>3, <2>4
<1>11. ASSUME NEW c \in Calls, Tick(c) PROVE AccountOK'
  BY <1>11 DEF TypeOK, AccountOK, ProcessOK, SweeperOK, HistoryOK, KeysKept, Placed, Tick
<1>12. ASSUME NEW c \in Calls, Refreshed(c) PROVE AccountOK'
  BY <1>12 DEF TypeOK, AccountOK, ProcessOK, SweeperOK, HistoryOK, KeysKept, Placed, Refreshed,
      Binds
<1>13. ASSUME NEW c \in Calls, WorkerReturns(c) PROVE AccountOK'
  BY <1>13 DEF TypeOK, AccountOK, ProcessOK, SweeperOK, HistoryOK, KeysKept, Placed,
      WorkerReturns, Halted
<1>14. ASSUME NEW o \in Objects, Ages(o) PROVE AccountOK'
  BY <1>14 DEF TypeOK, AccountOK, ProcessOK, SweeperOK, HistoryOK, KeysKept, Placed, Ages
<1>15. CASE Cleanup
  BY <1>15 DEF TypeOK, AccountOK, ProcessOK, SweeperOK, HistoryOK, KeysKept, Placed, Cleanup,
      Unused
<1>16. CASE NextSwept
  BY <1>16 DEF TypeOK, AccountOK, ProcessOK, SweeperOK, HistoryOK, KeysKept, Placed, NextSwept
<1>17. CASE CancelWorker
  BY <1>17 DEF TypeOK, AccountOK, ProcessOK, SweeperOK, HistoryOK, KeysKept, Placed,
      CancelWorker
<1>18. CASE SendUnregister
  BY <1>18 DEF TypeOK, AccountOK, ProcessOK, SweeperOK, HistoryOK, KeysKept, Placed,
      SendUnregister, Unbinds
<1>19. CASE MarkUnregistered
  BY <1>19 DEF TypeOK, AccountOK, ProcessOK, SweeperOK, HistoryOK, KeysKept, Placed,
      MarkUnregistered
<1>20. CASE Stop
  BY <1>20 DEF TypeOK, AccountOK, ProcessOK, SweeperOK, HistoryOK, KeysKept, Placed, Stop, InMap
<1>21. CASE Stopped
  BY <1>21 DEF TypeOK, AccountOK, ProcessOK, SweeperOK, HistoryOK, KeysKept, Placed, Stopped
<1>22. ASSUME NEW k \in Keys, Lapses(k) PROVE AccountOK'
  BY <1>22 DEF TypeOK, AccountOK, ProcessOK, SweeperOK, HistoryOK, KeysKept, Placed, Lapses,
      Unbinds
<1>23. CASE UNCHANGED vars
  BY <1>23 DEF vars, TypeOK, AccountOK, ProcessOK, SweeperOK, HistoryOK, KeysKept, Placed
<1> QED
  BY <1>1, <1>2, <1>3, <1>4, <1>5, <1>6, <1>7, <1>8, <1>9, <1>10, <1>11, <1>12, <1>13, <1>14,
      <1>15, <1>16, <1>17, <1>18, <1>19, <1>20, <1>21, <1>22, <1>23 DEF Next, CallStep,
      WorkerStep, Unregister

(* ... the calls and workers, ... *)
LEMMA ProcessStep ==
  ASSUME TypeOK, KeysKept, Placed, [Next]_vars
  PROVE  ProcessOK'
<1> USE NoneAssumption, BoundAssumption DEF account, process, sweeper, history
<1>1. ASSUME NEW c \in Calls, NEW k \in Keys, Acquire(c, k) PROVE ProcessOK'
  BY <1>1 DEF TypeOK, AccountOK, ProcessOK, SweeperOK, HistoryOK, KeysKept, Placed, CallAt,
      WorkerAt, Acquire
<1>2. ASSUME NEW c \in Calls, Look(c) PROVE ProcessOK'
  BY <1>2 DEF TypeOK, AccountOK, ProcessOK, SweeperOK, HistoryOK, KeysKept, Placed, CallAt,
      WorkerAt, Look
<1>3. ASSUME NEW c \in Calls, Register(c) PROVE ProcessOK'
  BY <1>3 DEF TypeOK, AccountOK, ProcessOK, SweeperOK, HistoryOK, KeysKept, Placed, CallAt,
      WorkerAt, Register, At, Binds
<1>4. ASSUME NEW c \in Calls, RegisterFails(c) PROVE ProcessOK'
  BY <1>4 DEF TypeOK, AccountOK, ProcessOK, SweeperOK, HistoryOK, KeysKept, Placed, CallAt,
      WorkerAt, RegisterFails
<1>5. ASSUME NEW c \in Calls, Registered(c) PROVE ProcessOK'
  BY <1>5 DEF TypeOK, AccountOK, ProcessOK, SweeperOK, HistoryOK, KeysKept, Placed, CallAt,
      WorkerAt, Registered, At
<1>6. ASSUME NEW c \in Calls, StartWorker(c) PROVE ProcessOK'
  BY <1>6 DEF TypeOK, AccountOK, ProcessOK, SweeperOK, HistoryOK, KeysKept, Placed, CallAt,
      WorkerAt, StartWorker, At
<1>7. ASSUME NEW c \in Calls, LookToCount(c) PROVE ProcessOK'
  BY <1>7 DEF TypeOK, AccountOK, ProcessOK, SweeperOK, HistoryOK, KeysKept, Placed, CallAt,
      WorkerAt, LookToCount
<1>8. ASSUME NEW c \in Calls, Count(c) PROVE ProcessOK'
  BY <1>8 DEF TypeOK, AccountOK, ProcessOK, SweeperOK, HistoryOK, KeysKept, Placed, CallAt,
      WorkerAt, Count, At
<1>9. ASSUME NEW c \in Calls, CallEnds(c) PROVE ProcessOK'
  BY <1>9 DEF TypeOK, AccountOK, ProcessOK, SweeperOK, HistoryOK, KeysKept, Placed, CallAt,
      WorkerAt, CallEnds
<1>10. ASSUME NEW c \in Calls, Uncount(c) PROVE ProcessOK'
  BY <1>10 DEF TypeOK, AccountOK, ProcessOK, SweeperOK, HistoryOK, KeysKept, Placed, CallAt,
      WorkerAt, Uncount
<1>11. ASSUME NEW c \in Calls, Tick(c) PROVE ProcessOK'
  BY <1>11 DEF TypeOK, AccountOK, ProcessOK, SweeperOK, HistoryOK, KeysKept, Placed, CallAt,
      WorkerAt, Tick
<1>12. ASSUME NEW c \in Calls, Refreshed(c) PROVE ProcessOK'
  BY <1>12 DEF TypeOK, AccountOK, ProcessOK, SweeperOK, HistoryOK, KeysKept, Placed, CallAt,
      WorkerAt, Refreshed, Binds
<1>13. ASSUME NEW c \in Calls, WorkerReturns(c) PROVE ProcessOK'
  BY <1>13 DEF TypeOK, AccountOK, ProcessOK, SweeperOK, HistoryOK, KeysKept, Placed, CallAt,
      WorkerAt, WorkerReturns, Halted
<1>14. ASSUME NEW o \in Objects, Ages(o) PROVE ProcessOK'
  BY <1>14 DEF TypeOK, AccountOK, ProcessOK, SweeperOK, HistoryOK, KeysKept, Placed, CallAt,
      WorkerAt, Ages
<1>15. CASE Cleanup
  BY <1>15 DEF TypeOK, AccountOK, ProcessOK, SweeperOK, HistoryOK, KeysKept, Placed, CallAt,
      WorkerAt, Cleanup, Unused
<1>16. CASE NextSwept
  BY <1>16 DEF TypeOK, AccountOK, ProcessOK, SweeperOK, HistoryOK, KeysKept, Placed, CallAt,
      WorkerAt, NextSwept
<1>17. CASE CancelWorker
  BY <1>17 DEF TypeOK, AccountOK, ProcessOK, SweeperOK, HistoryOK, KeysKept, Placed, CallAt,
      WorkerAt, CancelWorker
<1>18. CASE SendUnregister
  BY <1>18 DEF TypeOK, AccountOK, ProcessOK, SweeperOK, HistoryOK, KeysKept, Placed, CallAt,
      WorkerAt, SendUnregister, Unbinds
<1>19. CASE MarkUnregistered
  BY <1>19 DEF TypeOK, AccountOK, ProcessOK, SweeperOK, HistoryOK, KeysKept, Placed, CallAt,
      WorkerAt, MarkUnregistered
<1>20. CASE Stop
  BY <1>20 DEF TypeOK, AccountOK, ProcessOK, SweeperOK, HistoryOK, KeysKept, Placed, CallAt,
      WorkerAt, Stop, InMap
<1>21. CASE Stopped
  BY <1>21 DEF TypeOK, AccountOK, ProcessOK, SweeperOK, HistoryOK, KeysKept, Placed, CallAt,
      WorkerAt, Stopped
<1>22. ASSUME NEW k \in Keys, Lapses(k) PROVE ProcessOK'
  BY <1>22 DEF TypeOK, AccountOK, ProcessOK, SweeperOK, HistoryOK, KeysKept, Placed, CallAt,
      WorkerAt, Lapses, Unbinds
<1>23. CASE UNCHANGED vars
  BY <1>23 DEF vars, TypeOK, AccountOK, ProcessOK, SweeperOK, HistoryOK, KeysKept, Placed,
      CallAt, WorkerAt
<1> QED
  BY <1>1, <1>2, <1>3, <1>4, <1>5, <1>6, <1>7, <1>8, <1>9, <1>10, <1>11, <1>12, <1>13, <1>14,
      <1>15, <1>16, <1>17, <1>18, <1>19, <1>20, <1>21, <1>22, <1>23 DEF Next, CallStep,
      WorkerStep, Unregister

(* ... the cleanup, ... *)
LEMMA SweeperStep ==
  ASSUME TypeOK, KeysKept, Placed, [Next]_vars
  PROVE  SweeperOK'
<1> USE NoneAssumption, BoundAssumption DEF account, process, sweeper, history
<1>1. ASSUME NEW c \in Calls, NEW k \in Keys, Acquire(c, k) PROVE SweeperOK'
  BY <1>1 DEF TypeOK, AccountOK, ProcessOK, SweeperOK, HistoryOK, KeysKept, Placed, SweepAt,
      Acquire
<1>2. ASSUME NEW c \in Calls, Look(c) PROVE SweeperOK'
  BY <1>2 DEF TypeOK, AccountOK, ProcessOK, SweeperOK, HistoryOK, KeysKept, Placed, SweepAt,
      Look
<1>3. ASSUME NEW c \in Calls, Register(c) PROVE SweeperOK'
  BY <1>3 DEF TypeOK, AccountOK, ProcessOK, SweeperOK, HistoryOK, KeysKept, Placed, SweepAt,
      Register, At, Binds
<1>4. ASSUME NEW c \in Calls, RegisterFails(c) PROVE SweeperOK'
  BY <1>4 DEF TypeOK, AccountOK, ProcessOK, SweeperOK, HistoryOK, KeysKept, Placed, SweepAt,
      RegisterFails
<1>5. ASSUME NEW c \in Calls, Registered(c) PROVE SweeperOK'
  BY <1>5 DEF TypeOK, AccountOK, ProcessOK, SweeperOK, HistoryOK, KeysKept, Placed, SweepAt,
      Registered, At
<1>6. ASSUME NEW c \in Calls, StartWorker(c) PROVE SweeperOK'
  BY <1>6 DEF TypeOK, AccountOK, ProcessOK, SweeperOK, HistoryOK, KeysKept, Placed, SweepAt,
      StartWorker, At
<1>7. ASSUME NEW c \in Calls, LookToCount(c) PROVE SweeperOK'
  BY <1>7 DEF TypeOK, AccountOK, ProcessOK, SweeperOK, HistoryOK, KeysKept, Placed, SweepAt,
      LookToCount
<1>8. ASSUME NEW c \in Calls, Count(c) PROVE SweeperOK'
  BY <1>8 DEF TypeOK, AccountOK, ProcessOK, SweeperOK, HistoryOK, KeysKept, Placed, SweepAt,
      Count, At
<1>9. ASSUME NEW c \in Calls, CallEnds(c) PROVE SweeperOK'
  BY <1>9 DEF TypeOK, AccountOK, ProcessOK, SweeperOK, HistoryOK, KeysKept, Placed, SweepAt,
      CallEnds
<1>10. ASSUME NEW c \in Calls, Uncount(c) PROVE SweeperOK'
  BY <1>10 DEF TypeOK, AccountOK, ProcessOK, SweeperOK, HistoryOK, KeysKept, Placed, SweepAt,
      Uncount
<1>11. ASSUME NEW c \in Calls, Tick(c) PROVE SweeperOK'
  BY <1>11 DEF TypeOK, AccountOK, ProcessOK, SweeperOK, HistoryOK, KeysKept, Placed, SweepAt,
      Tick
<1>12. ASSUME NEW c \in Calls, Refreshed(c) PROVE SweeperOK'
  BY <1>12 DEF TypeOK, AccountOK, ProcessOK, SweeperOK, HistoryOK, KeysKept, Placed, SweepAt,
      Refreshed, Binds
<1>13. ASSUME NEW c \in Calls, WorkerReturns(c) PROVE SweeperOK'
  BY <1>13 DEF TypeOK, AccountOK, ProcessOK, SweeperOK, HistoryOK, KeysKept, Placed, SweepAt,
      WorkerReturns, Halted
<1>14. ASSUME NEW o \in Objects, Ages(o) PROVE SweeperOK'
  BY <1>14 DEF TypeOK, AccountOK, ProcessOK, SweeperOK, HistoryOK, KeysKept, Placed, SweepAt,
      Ages
<1>15. CASE Cleanup
  BY <1>15 DEF TypeOK, AccountOK, ProcessOK, SweeperOK, HistoryOK, KeysKept, Placed, SweepAt,
      Cleanup, Unused, Listed
<1>16. CASE NextSwept
  BY <1>16 DEF TypeOK, AccountOK, ProcessOK, SweeperOK, HistoryOK, KeysKept, Placed, SweepAt,
      NextSwept
<1>17. CASE CancelWorker
  BY <1>17 DEF TypeOK, AccountOK, ProcessOK, SweeperOK, HistoryOK, KeysKept, Placed, SweepAt,
      CancelWorker
<1>18. CASE SendUnregister
  BY <1>18 DEF TypeOK, AccountOK, ProcessOK, SweeperOK, HistoryOK, KeysKept, Placed, SweepAt,
      SendUnregister, Unbinds
<1>19. CASE MarkUnregistered
  BY <1>19 DEF TypeOK, AccountOK, ProcessOK, SweeperOK, HistoryOK, KeysKept, Placed, SweepAt,
      MarkUnregistered
<1>20. CASE Stop
  BY <1>20 DEF TypeOK, AccountOK, ProcessOK, SweeperOK, HistoryOK, KeysKept, Placed, SweepAt,
      Stop, InMap
<1>21. CASE Stopped
  BY <1>21 DEF TypeOK, AccountOK, ProcessOK, SweeperOK, HistoryOK, KeysKept, Placed, SweepAt,
      Stopped
<1>22. ASSUME NEW k \in Keys, Lapses(k) PROVE SweeperOK'
  BY <1>22 DEF TypeOK, AccountOK, ProcessOK, SweeperOK, HistoryOK, KeysKept, Placed, SweepAt,
      Lapses, Unbinds
<1>23. CASE UNCHANGED vars
  BY <1>23 DEF vars, TypeOK, AccountOK, ProcessOK, SweeperOK, HistoryOK, KeysKept, Placed,
      SweepAt
<1> QED
  BY <1>1, <1>2, <1>3, <1>4, <1>5, <1>6, <1>7, <1>8, <1>9, <1>10, <1>11, <1>12, <1>13, <1>14,
      <1>15, <1>16, <1>17, <1>18, <1>19, <1>20, <1>21, <1>22, <1>23 DEF Next, CallStep,
      WorkerStep, Unregister

(* ... and the history. *)
LEMMA HistoryStep ==
  ASSUME TypeOK, KeysKept, Placed, [Next]_vars
  PROVE  HistoryOK'
<1> USE NoneAssumption, BoundAssumption DEF account, process, sweeper, history
<1>1. ASSUME NEW c \in Calls, NEW k \in Keys, Acquire(c, k) PROVE HistoryOK'
  BY <1>1 DEF TypeOK, AccountOK, ProcessOK, SweeperOK, HistoryOK, KeysKept, Placed, Acquire
<1>2. ASSUME NEW c \in Calls, Look(c) PROVE HistoryOK'
  BY <1>2 DEF TypeOK, AccountOK, ProcessOK, SweeperOK, HistoryOK, KeysKept, Placed, Look
<1>3. ASSUME NEW c \in Calls, Register(c) PROVE HistoryOK'
  BY <1>3 DEF TypeOK, AccountOK, ProcessOK, SweeperOK, HistoryOK, KeysKept, Placed, Register,
      At, Binds
<1>4. ASSUME NEW c \in Calls, RegisterFails(c) PROVE HistoryOK'
  BY <1>4 DEF TypeOK, AccountOK, ProcessOK, SweeperOK, HistoryOK, KeysKept, Placed,
      RegisterFails
<1>5. ASSUME NEW c \in Calls, Registered(c) PROVE HistoryOK'
  BY <1>5 DEF TypeOK, AccountOK, ProcessOK, SweeperOK, HistoryOK, KeysKept, Placed, Registered,
      At
<1>6. ASSUME NEW c \in Calls, StartWorker(c) PROVE HistoryOK'
  BY <1>6 DEF TypeOK, AccountOK, ProcessOK, SweeperOK, HistoryOK, KeysKept, Placed, StartWorker,
      At
<1>7. ASSUME NEW c \in Calls, LookToCount(c) PROVE HistoryOK'
  BY <1>7 DEF TypeOK, AccountOK, ProcessOK, SweeperOK, HistoryOK, KeysKept, Placed, LookToCount
<1>8. ASSUME NEW c \in Calls, Count(c) PROVE HistoryOK'
  BY <1>8 DEF TypeOK, AccountOK, ProcessOK, SweeperOK, HistoryOK, KeysKept, Placed, Count, At
<1>9. ASSUME NEW c \in Calls, CallEnds(c) PROVE HistoryOK'
  BY <1>9 DEF TypeOK, AccountOK, ProcessOK, SweeperOK, HistoryOK, KeysKept, Placed, CallEnds
<1>10. ASSUME NEW c \in Calls, Uncount(c) PROVE HistoryOK'
  BY <1>10 DEF TypeOK, AccountOK, ProcessOK, SweeperOK, HistoryOK, KeysKept, Placed, Uncount
<1>11. ASSUME NEW c \in Calls, Tick(c) PROVE HistoryOK'
  BY <1>11 DEF TypeOK, AccountOK, ProcessOK, SweeperOK, HistoryOK, KeysKept, Placed, Tick
<1>12. ASSUME NEW c \in Calls, Refreshed(c) PROVE HistoryOK'
  BY <1>12 DEF TypeOK, AccountOK, ProcessOK, SweeperOK, HistoryOK, KeysKept, Placed, Refreshed,
      Binds
<1>13. ASSUME NEW c \in Calls, WorkerReturns(c) PROVE HistoryOK'
  BY <1>13 DEF TypeOK, AccountOK, ProcessOK, SweeperOK, HistoryOK, KeysKept, Placed,
      WorkerReturns, Halted
<1>14. ASSUME NEW o \in Objects, Ages(o) PROVE HistoryOK'
  BY <1>14 DEF TypeOK, AccountOK, ProcessOK, SweeperOK, HistoryOK, KeysKept, Placed, Ages
<1>15. CASE Cleanup
  BY <1>15 DEF TypeOK, AccountOK, ProcessOK, SweeperOK, HistoryOK, KeysKept, Placed, Cleanup,
      Unused
<1>16. CASE NextSwept
  BY <1>16 DEF TypeOK, AccountOK, ProcessOK, SweeperOK, HistoryOK, KeysKept, Placed, NextSwept
<1>17. CASE CancelWorker
  BY <1>17 DEF TypeOK, AccountOK, ProcessOK, SweeperOK, HistoryOK, KeysKept, Placed,
      CancelWorker
<1>18. CASE SendUnregister
  BY <1>18 DEF TypeOK, AccountOK, ProcessOK, SweeperOK, HistoryOK, KeysKept, Placed,
      SendUnregister, Unbinds
<1>19. CASE MarkUnregistered
  BY <1>19 DEF TypeOK, AccountOK, ProcessOK, SweeperOK, HistoryOK, KeysKept, Placed,
      MarkUnregistered
<1>20. CASE Stop
  BY <1>20 DEF TypeOK, AccountOK, ProcessOK, SweeperOK, HistoryOK, KeysKept, Placed, Stop, InMap
<1>21. CASE Stopped
  BY <1>21 DEF TypeOK, AccountOK, ProcessOK, SweeperOK, HistoryOK, KeysKept, Placed, Stopped
<1>22. ASSUME NEW k \in Keys, Lapses(k) PROVE HistoryOK'
  BY <1>22 DEF TypeOK, AccountOK, ProcessOK, SweeperOK, HistoryOK, KeysKept, Placed, Lapses,
      Unbinds
<1>23. CASE UNCHANGED vars
  BY <1>23 DEF vars, TypeOK, AccountOK, ProcessOK, SweeperOK, HistoryOK, KeysKept, Placed
<1> QED
  BY <1>1, <1>2, <1>3, <1>4, <1>5, <1>6, <1>7, <1>8, <1>9, <1>10, <1>11, <1>12, <1>13, <1>14,
      <1>15, <1>16, <1>17, <1>18, <1>19, <1>20, <1>21, <1>22, <1>23 DEF Next, CallStep,
      WorkerStep, Unregister

(* Every step keeps the types. *)
LEMMA TypeStep ==
  ASSUME TypeOK, KeysKept, Placed, [Next]_vars
  PROVE  TypeOK'
BY AccountStep, ProcessStep, SweeperStep, HistoryStep DEF TypeOK

(* A call has what the place it is at needs. *)
LEMMA PlacedStep ==
  ASSUME TypeOK, KeysKept, Placed, [Next]_vars
  PROVE  Placed'
<1> USE NoneAssumption, BoundAssumption DEF account, process, sweeper, history
<1>1. ASSUME NEW c \in Calls, NEW k \in Keys, Acquire(c, k) PROVE Placed'
  BY <1>1 DEF TypeOK, AccountOK, ProcessOK, SweeperOK, HistoryOK, KeysKept, Placed, Acquire
<1>2. ASSUME NEW c \in Calls, Look(c) PROVE Placed'
  BY <1>2 DEF TypeOK, AccountOK, ProcessOK, SweeperOK, HistoryOK, KeysKept, Placed, Look
<1>3. ASSUME NEW c \in Calls, Register(c) PROVE Placed'
  BY <1>3 DEF TypeOK, AccountOK, ProcessOK, SweeperOK, HistoryOK, KeysKept, Placed, Register,
      At, Binds
<1>4. ASSUME NEW c \in Calls, RegisterFails(c) PROVE Placed'
  BY <1>4 DEF TypeOK, AccountOK, ProcessOK, SweeperOK, HistoryOK, KeysKept, Placed,
      RegisterFails
<1>5. ASSUME NEW c \in Calls, Registered(c) PROVE Placed'
  BY <1>5 DEF TypeOK, AccountOK, ProcessOK, SweeperOK, HistoryOK, KeysKept, Placed, Registered,
      At
<1>6. ASSUME NEW c \in Calls, StartWorker(c) PROVE Placed'
  BY <1>6 DEF TypeOK, AccountOK, ProcessOK, SweeperOK, HistoryOK, KeysKept, Placed, StartWorker,
      At
<1>7. ASSUME NEW c \in Calls, LookToCount(c) PROVE Placed'
  BY <1>7 DEF TypeOK, AccountOK, ProcessOK, SweeperOK, HistoryOK, KeysKept, Placed, LookToCount
<1>8. ASSUME NEW c \in Calls, Count(c) PROVE Placed'
  BY <1>8 DEF TypeOK, AccountOK, ProcessOK, SweeperOK, HistoryOK, KeysKept, Placed, Count, At
<1>9. ASSUME NEW c \in Calls, CallEnds(c) PROVE Placed'
  BY <1>9 DEF TypeOK, AccountOK, ProcessOK, SweeperOK, HistoryOK, KeysKept, Placed, CallEnds
<1>10. ASSUME NEW c \in Calls, Uncount(c) PROVE Placed'
  BY <1>10 DEF TypeOK, AccountOK, ProcessOK, SweeperOK, HistoryOK, KeysKept, Placed, Uncount
<1>11. ASSUME NEW c \in Calls, Tick(c) PROVE Placed'
  BY <1>11 DEF TypeOK, AccountOK, ProcessOK, SweeperOK, HistoryOK, KeysKept, Placed, Tick
<1>12. ASSUME NEW c \in Calls, Refreshed(c) PROVE Placed'
  BY <1>12 DEF TypeOK, AccountOK, ProcessOK, SweeperOK, HistoryOK, KeysKept, Placed, Refreshed,
      Binds
<1>13. ASSUME NEW c \in Calls, WorkerReturns(c) PROVE Placed'
  BY <1>13 DEF TypeOK, AccountOK, ProcessOK, SweeperOK, HistoryOK, KeysKept, Placed,
      WorkerReturns, Halted
<1>14. ASSUME NEW o \in Objects, Ages(o) PROVE Placed'
  BY <1>14 DEF TypeOK, AccountOK, ProcessOK, SweeperOK, HistoryOK, KeysKept, Placed, Ages
<1>15. CASE Cleanup
  BY <1>15 DEF TypeOK, AccountOK, ProcessOK, SweeperOK, HistoryOK, KeysKept, Placed, Cleanup,
      Unused
<1>16. CASE NextSwept
  BY <1>16 DEF TypeOK, AccountOK, ProcessOK, SweeperOK, HistoryOK, KeysKept, Placed, NextSwept
<1>17. CASE CancelWorker
  BY <1>17 DEF TypeOK, AccountOK, ProcessOK, SweeperOK, HistoryOK, KeysKept, Placed,
      CancelWorker
<1>18. CASE SendUnregister
  BY <1>18 DEF TypeOK, AccountOK, ProcessOK, SweeperOK, HistoryOK, KeysKept, Placed,
      SendUnregister, Unbinds
<1>19. CASE MarkUnregistered
  BY <1>19 DEF TypeOK, AccountOK, ProcessOK, SweeperOK, HistoryOK, KeysKept, Placed,
      MarkUnregistered
<1>20. CASE Stop
  BY <1>20 DEF TypeOK, AccountOK, ProcessOK, SweeperOK, HistoryOK, KeysKept, Placed, Stop, InMap
<1>21. CASE Stopped
  BY <1>21 DEF TypeOK, AccountOK, ProcessOK, SweeperOK, HistoryOK, KeysKept, Placed, Stopped
<1>22. ASSUME NEW k \in Keys, Lapses(k) PROVE Placed'
  BY <1>22 DEF TypeOK, AccountOK, ProcessOK, SweeperOK, HistoryOK, KeysKept, Placed, Lapses,
      Unbinds
<1>23. CASE UNCHANGED vars
  BY <1>23 DEF vars, TypeOK, AccountOK, ProcessOK, SweeperOK, HistoryOK, KeysKept, Placed
<1> QED
  BY <1>1, <1>2, <1>3, <1>4, <1>5, <1>6, <1>7, <1>8, <1>9, <1>10, <1>11, <1>12, <1>13, <1>14,
      <1>15, <1>16, <1>17, <1>18, <1>19, <1>20, <1>21, <1>22, <1>23 DEF Next, CallStep,
      WorkerStep, Unregister

(* A call is counted once. *)
LEMMA NotCountedStep ==
  ASSUME TypeOK, NotCounted, [Next]_vars
  PROVE  NotCounted'
<1> USE NoneAssumption, BoundAssumption DEF account, process, sweeper, history
<1>1. ASSUME NEW c \in Calls, NEW k \in Keys, Acquire(c, k) PROVE NotCounted'
  BY <1>1 DEF TypeOK, ProcessOK, HistoryOK, NotCounted, Acquire
<1>2. ASSUME NEW c \in Calls, Look(c) PROVE NotCounted'
  BY <1>2 DEF TypeOK, ProcessOK, HistoryOK, NotCounted, Look
<1>3. ASSUME NEW c \in Calls, Register(c) PROVE NotCounted'
  BY <1>3 DEF TypeOK, ProcessOK, HistoryOK, NotCounted, Register, At, Binds
<1>4. ASSUME NEW c \in Calls, RegisterFails(c) PROVE NotCounted'
  BY <1>4 DEF TypeOK, ProcessOK, HistoryOK, NotCounted, RegisterFails
<1>5. ASSUME NEW c \in Calls, Registered(c) PROVE NotCounted'
  BY <1>5 DEF TypeOK, ProcessOK, HistoryOK, NotCounted, Registered, At
<1>6. ASSUME NEW c \in Calls, StartWorker(c) PROVE NotCounted'
  BY <1>6 DEF TypeOK, ProcessOK, HistoryOK, NotCounted, StartWorker, At
<1>7. ASSUME NEW c \in Calls, LookToCount(c) PROVE NotCounted'
  BY <1>7 DEF TypeOK, ProcessOK, HistoryOK, NotCounted, LookToCount
<1>8. ASSUME NEW c \in Calls, Count(c) PROVE NotCounted'
  BY <1>8 DEF TypeOK, ProcessOK, HistoryOK, NotCounted, Count, At
<1>9. ASSUME NEW c \in Calls, CallEnds(c) PROVE NotCounted'
  BY <1>9 DEF TypeOK, ProcessOK, HistoryOK, NotCounted, CallEnds
<1>10. ASSUME NEW c \in Calls, Uncount(c) PROVE NotCounted'
  BY <1>10 DEF TypeOK, ProcessOK, HistoryOK, NotCounted, Uncount
<1>11. ASSUME NEW c \in Calls, Tick(c) PROVE NotCounted'
  BY <1>11 DEF TypeOK, ProcessOK, HistoryOK, NotCounted, Tick
<1>12. ASSUME NEW c \in Calls, Refreshed(c) PROVE NotCounted'
  BY <1>12 DEF TypeOK, ProcessOK, HistoryOK, NotCounted, Refreshed, Binds
<1>13. ASSUME NEW c \in Calls, WorkerReturns(c) PROVE NotCounted'
  BY <1>13 DEF TypeOK, ProcessOK, HistoryOK, NotCounted, WorkerReturns, Halted
<1>14. ASSUME NEW o \in Objects, Ages(o) PROVE NotCounted'
  BY <1>14 DEF TypeOK, ProcessOK, HistoryOK, NotCounted, Ages
<1>15. CASE Cleanup
  BY <1>15 DEF TypeOK, ProcessOK, HistoryOK, NotCounted, Cleanup, Unused
<1>16. CASE NextSwept
  BY <1>16 DEF TypeOK, ProcessOK, HistoryOK, NotCounted, NextSwept
<1>17. CASE CancelWorker
  BY <1>17 DEF TypeOK, ProcessOK, HistoryOK, NotCounted, CancelWorker
<1>18. CASE SendUnregister
  BY <1>18 DEF TypeOK, ProcessOK, HistoryOK, NotCounted, SendUnregister, Unbinds
<1>19. CASE MarkUnregistered
  BY <1>19 DEF TypeOK, ProcessOK, HistoryOK, NotCounted, MarkUnregistered
<1>20. CASE Stop
  BY <1>20 DEF TypeOK, ProcessOK, HistoryOK, NotCounted, Stop, InMap
<1>21. CASE Stopped
  BY <1>21 DEF TypeOK, ProcessOK, HistoryOK, NotCounted, Stopped
<1>22. ASSUME NEW k \in Keys, Lapses(k) PROVE NotCounted'
  BY <1>22 DEF TypeOK, ProcessOK, HistoryOK, NotCounted, Lapses, Unbinds
<1>23. CASE UNCHANGED vars
  BY <1>23 DEF vars, TypeOK, ProcessOK, HistoryOK, NotCounted
<1> QED
  BY <1>1, <1>2, <1>3, <1>4, <1>5, <1>6, <1>7, <1>8, <1>9, <1>10, <1>11, <1>12, <1>13, <1>14,
      <1>15, <1>16, <1>17, <1>18, <1>19, <1>20, <1>21, <1>22, <1>23 DEF Next, CallStep,
      WorkerStep, Unregister

(* The count of an object is the number of calls counted on it. *)
LEMMA CountsStep ==
  ASSUME TypeOK, KeysKept, Placed, NotCounted, CountsExact, [Next]_vars
  PROVE  CountsExact'
<1> USE NoneAssumption, BoundAssumption DEF account, process, sweeper, history
<1>1. ASSUME NEW c \in Calls, NEW k \in Keys, Acquire(c, k) PROVE CountsExact'
  BY <1>1 DEF CountsExact, On, Acquire
<1>2. ASSUME NEW c \in Calls, Look(c) PROVE CountsExact'
  BY <1>2 DEF CountsExact, On, Look
<1>3. ASSUME NEW c \in Calls, Register(c) PROVE CountsExact'
  BY <1>3 DEF CountsExact, On, Register, At, Binds
<1>4. ASSUME NEW c \in Calls, RegisterFails(c) PROVE CountsExact'
  BY <1>4 DEF CountsExact, On, RegisterFails
<1>5. ASSUME NEW c \in Calls, Registered(c) PROVE CountsExact'
  BY <1>5 DEF CountsExact, On, Registered, At
<1>6. ASSUME NEW c \in Calls, StartWorker(c) PROVE CountsExact'
  BY <1>6 DEF CountsExact, On, StartWorker, At
<1>7. ASSUME NEW c \in Calls, LookToCount(c) PROVE CountsExact'
  BY <1>7 DEF CountsExact, On, LookToCount
<1>8. ASSUME NEW c \in Calls, Count(c) PROVE CountsExact'
  <2> DEFINE a == aim[c]
  <2>1. a \in Objects /\ counted[c] = None /\ refs \in [Objects -> Nat] /\ HistoryOK
    BY <1>8 DEF Count, At, Placed, TypeOK, AccountOK, ProcessOK, NotCounted
  <2>2. /\ refs' = [refs EXCEPT ![a] = @ + 1] /\ UNCHANGED surplus
        /\ counted' = [counted EXCEPT ![c] = a]
    BY <1>8 DEF Count
  <2>3. ASSUME NEW o \in Objects
        PROVE  IsFiniteSet(On(o)') /\ (o \notin surplus' => refs'[o] = Cardinality(On(o)'))
    <3>1. IsFiniteSet(On(o)) /\ (o \notin surplus => refs[o] = Cardinality(On(o)))
      BY DEF CountsExact
    <3>2. c \notin On(o) BY <2>1 DEF On
    <3>3. On(o)' = IF a = o THEN On(o) \cup {c} ELSE On(o)
      BY <2>1, <2>2, <3>2 DEF On, HistoryOK
    <3>4. IsFiniteSet(On(o) \cup {c}) /\ Cardinality(On(o) \cup {c}) = Cardinality(On(o)) + 1
      BY <3>1, <3>2, FS_AddElement
    <3> QED BY <2>1, <2>2, <3>1, <3>3, <3>4
  <2> QED BY <2>3 DEF CountsExact
<1>9. ASSUME NEW c \in Calls, CallEnds(c) PROVE CountsExact'
  BY <1>9 DEF CountsExact, On, CallEnds
<1>10. ASSUME NEW c \in Calls, Uncount(c) PROVE CountsExact'
  <2> DEFINE a == accounts[key[c]]
  <2>1. refs \in [Objects -> Nat] /\ HistoryOK /\ a \in Objects \cup {None}
    BY <1>10 DEF Uncount, Placed, KeysKept, TypeOK, AccountOK
  <2>2. CASE a = None BY <1>10, <2>2 DEF Uncount, CountsExact, On
  <2>3. CASE a # None
    <3>1. /\ refs' = [refs EXCEPT ![a] = IF @ > 0 THEN @ - 1 ELSE 0]
          /\ surplus' = IF counted[c] = a \/ refs[a] = 0 THEN surplus ELSE surplus \cup {a}
          /\ counted' = IF counted[c] = a THEN [counted EXCEPT ![c] = None] ELSE counted
      BY <1>10, <2>3 DEF Uncount
    <3>2. ASSUME NEW o \in Objects
          PROVE  IsFiniteSet(On(o)') /\ (o \notin surplus' => refs'[o] = Cardinality(On(o)'))
      <4>1. IsFiniteSet(On(o)) /\ (o \notin surplus => refs[o] = Cardinality(On(o)))
        BY DEF CountsExact
      <4>2. CASE counted[c] = a
        <5>1. On(o)' = On(o) \ {c} BY <2>1, <3>1, <4>2, OnOthers
        <5>2. c \in On(o) <=> o = a BY <4>2 DEF On
        <5>3. IsFiniteSet(On(o) \ {c})
              /\ Cardinality(On(o) \ {c})
                   = IF o = a THEN Cardinality(On(o)) - 1 ELSE Cardinality(On(o))
          BY <4>1, <5>2, FS_RemoveElement
        <5>4. Cardinality(On(o)) \in Nat /\ (o = a => Cardinality(On(o)) # 0)
          BY <4>1, <5>2, FS_CardinalityType, FS_EmptySet
        <5> QED BY <2>1, <2>3, <3>1, <4>1, <4>2, <5>1, <5>3, <5>4
      <4>3. CASE counted[c] # a
        <5>1. On(o)' = On(o) BY <3>1, <4>3 DEF On
        <5> QED BY <2>1, <2>3, <3>1, <4>1, <4>3, <5>1
      <4> QED BY <4>2, <4>3
    <3> QED BY <3>2 DEF CountsExact
  <2> QED BY <2>2, <2>3
<1>11. ASSUME NEW c \in Calls, Tick(c) PROVE CountsExact'
  BY <1>11 DEF CountsExact, On, Tick
<1>12. ASSUME NEW c \in Calls, Refreshed(c) PROVE CountsExact'
  BY <1>12 DEF CountsExact, On, Refreshed, Binds
<1>13. ASSUME NEW c \in Calls, WorkerReturns(c) PROVE CountsExact'
  BY <1>13 DEF CountsExact, On, WorkerReturns, Halted
<1>14. ASSUME NEW o \in Objects, Ages(o) PROVE CountsExact'
  BY <1>14 DEF CountsExact, On, Ages
<1>15. CASE Cleanup
  BY <1>15 DEF CountsExact, On, Cleanup, Unused
<1>16. CASE NextSwept
  BY <1>16 DEF CountsExact, On, NextSwept
<1>17. CASE CancelWorker
  BY <1>17 DEF CountsExact, On, CancelWorker
<1>18. CASE SendUnregister
  BY <1>18 DEF CountsExact, On, SendUnregister, Unbinds
<1>19. CASE MarkUnregistered
  BY <1>19 DEF CountsExact, On, MarkUnregistered
<1>20. CASE Stop
  BY <1>20 DEF CountsExact, On, Stop, InMap
<1>21. CASE Stopped
  BY <1>21 DEF CountsExact, On, Stopped
<1>22. ASSUME NEW k \in Keys, Lapses(k) PROVE CountsExact'
  BY <1>22 DEF CountsExact, On, Lapses, Unbinds
<1>23. CASE UNCHANGED vars
  BY <1>23 DEF vars, CountsExact, On
<1> QED
  BY <1>1, <1>2, <1>3, <1>4, <1>5, <1>6, <1>7, <1>8, <1>9, <1>10, <1>11, <1>12, <1>13, <1>14,
      <1>15, <1>16, <1>17, <1>18, <1>19, <1>20, <1>21, <1>22, <1>23 DEF Next, CallStep,
      WorkerStep, Unregister

(* Somebody is counted on an object with calls that lost none too many. *)
LEMMA CountedIsUsed ==
  ASSUME CountsExact, NEW c \in Calls, counted[c] \in Objects, counted[c] \notin surplus
  PROVE  ~Unused(counted[c])
<1>1. c \in On(counted[c]) BY DEF On
<1>2. IsFiniteSet(On(counted[c])) /\ refs[counted[c]] = Cardinality(On(counted[c]))
  BY DEF CountsExact
<1>3. Cardinality(On(counted[c])) # 0 BY <1>1, <1>2, FS_EmptySet
<1> QED BY <1>2, <1>3 DEF Unused

(* A worker nobody cancelled is the one its object names. *)
LEMMA WorkersNamedStep ==
  ASSUME TypeOK, KeysKept, Placed, WorkersNamed, [Next]_vars
  PROVE  WorkersNamed'
<1> USE NoneAssumption, BoundAssumption DEF account, process, sweeper, history
<1>1. ASSUME NEW c \in Calls, NEW k \in Keys, Acquire(c, k) PROVE WorkersNamed'
  BY <1>1 DEF TypeOK, AccountOK, ProcessOK, SweeperOK, HistoryOK, WorkersNamed, KeysKept,
      Placed, Before, Acquire
<1>2. ASSUME NEW c \in Calls, Look(c) PROVE WorkersNamed'
  BY <1>2 DEF TypeOK, AccountOK, ProcessOK, SweeperOK, HistoryOK, WorkersNamed, KeysKept,
      Placed, Before, Look
<1>3. ASSUME NEW c \in Calls, Register(c) PROVE WorkersNamed'
  BY <1>3 DEF TypeOK, AccountOK, ProcessOK, SweeperOK, HistoryOK, WorkersNamed, KeysKept,
      Placed, Before, Register, At, Binds
<1>4. ASSUME NEW c \in Calls, RegisterFails(c) PROVE WorkersNamed'
  BY <1>4 DEF TypeOK, AccountOK, ProcessOK, SweeperOK, HistoryOK, WorkersNamed, KeysKept,
      Placed, Before, RegisterFails
<1>5. ASSUME NEW c \in Calls, Registered(c) PROVE WorkersNamed'
  BY <1>5 DEF TypeOK, AccountOK, ProcessOK, SweeperOK, HistoryOK, WorkersNamed, KeysKept,
      Placed, Before, Registered, At
<1>6. ASSUME NEW c \in Calls, StartWorker(c) PROVE WorkersNamed'
  BY <1>6 DEF TypeOK, AccountOK, ProcessOK, SweeperOK, HistoryOK, WorkersNamed, KeysKept,
      Placed, Before, StartWorker, At
<1>7. ASSUME NEW c \in Calls, LookToCount(c) PROVE WorkersNamed'
  BY <1>7 DEF TypeOK, AccountOK, ProcessOK, SweeperOK, HistoryOK, WorkersNamed, KeysKept,
      Placed, Before, LookToCount
<1>8. ASSUME NEW c \in Calls, Count(c) PROVE WorkersNamed'
  BY <1>8 DEF TypeOK, AccountOK, ProcessOK, SweeperOK, HistoryOK, WorkersNamed, KeysKept,
      Placed, Before, Count, At
<1>9. ASSUME NEW c \in Calls, CallEnds(c) PROVE WorkersNamed'
  BY <1>9 DEF TypeOK, AccountOK, ProcessOK, SweeperOK, HistoryOK, WorkersNamed, KeysKept,
      Placed, Before, CallEnds
<1>10. ASSUME NEW c \in Calls, Uncount(c) PROVE WorkersNamed'
  BY <1>10 DEF TypeOK, AccountOK, ProcessOK, SweeperOK, HistoryOK, WorkersNamed, KeysKept,
      Placed, Before, Uncount
<1>11. ASSUME NEW c \in Calls, Tick(c) PROVE WorkersNamed'
  BY <1>11 DEF TypeOK, AccountOK, ProcessOK, SweeperOK, HistoryOK, WorkersNamed, KeysKept,
      Placed, Before, Tick
<1>12. ASSUME NEW c \in Calls, Refreshed(c) PROVE WorkersNamed'
  BY <1>12 DEF TypeOK, AccountOK, ProcessOK, SweeperOK, HistoryOK, WorkersNamed, KeysKept,
      Placed, Before, Refreshed, Binds
<1>13. ASSUME NEW c \in Calls, WorkerReturns(c) PROVE WorkersNamed'
  BY <1>13 DEF TypeOK, AccountOK, ProcessOK, SweeperOK, HistoryOK, WorkersNamed, KeysKept,
      Placed, Before, WorkerReturns, Halted
<1>14. ASSUME NEW o \in Objects, Ages(o) PROVE WorkersNamed'
  BY <1>14 DEF TypeOK, AccountOK, ProcessOK, SweeperOK, HistoryOK, WorkersNamed, KeysKept,
      Placed, Before, Ages
<1>15. CASE Cleanup
  BY <1>15 DEF TypeOK, AccountOK, ProcessOK, SweeperOK, HistoryOK, WorkersNamed, KeysKept,
      Placed, Before, Cleanup, Unused
<1>16. CASE NextSwept
  BY <1>16 DEF TypeOK, AccountOK, ProcessOK, SweeperOK, HistoryOK, WorkersNamed, KeysKept,
      Placed, Before, NextSwept
<1>17. CASE CancelWorker
  BY <1>17 DEF TypeOK, AccountOK, ProcessOK, SweeperOK, HistoryOK, WorkersNamed, KeysKept,
      Placed, Before, CancelWorker
<1>18. CASE SendUnregister
  BY <1>18 DEF TypeOK, AccountOK, ProcessOK, SweeperOK, HistoryOK, WorkersNamed, KeysKept,
      Placed, Before, SendUnregister, Unbinds
<1>19. CASE MarkUnregistered
  BY <1>19 DEF TypeOK, AccountOK, ProcessOK, SweeperOK, HistoryOK, WorkersNamed, KeysKept,
      Placed, Before, MarkUnregistered
<1>20. CASE Stop
  BY <1>20 DEF TypeOK, AccountOK, ProcessOK, SweeperOK, HistoryOK, WorkersNamed, KeysKept,
      Placed, Before, Stop, InMap
<1>21. CASE Stopped
  BY <1>21 DEF TypeOK, AccountOK, ProcessOK, SweeperOK, HistoryOK, WorkersNamed, KeysKept,
      Placed, Before, Stopped
<1>22. ASSUME NEW k \in Keys, Lapses(k) PROVE WorkersNamed'
  BY <1>22 DEF TypeOK, AccountOK, ProcessOK, SweeperOK, HistoryOK, WorkersNamed, KeysKept,
      Placed, Before, Lapses, Unbinds
<1>23. CASE UNCHANGED vars
  BY <1>23 DEF vars, TypeOK, AccountOK, ProcessOK, SweeperOK, HistoryOK, WorkersNamed, KeysKept,
      Placed, Before
<1> QED
  BY <1>1, <1>2, <1>3, <1>4, <1>5, <1>6, <1>7, <1>8, <1>9, <1>10, <1>11, <1>12, <1>13, <1>14,
      <1>15, <1>16, <1>17, <1>18, <1>19, <1>20, <1>21, <1>22, <1>23 DEF Next, CallStep,
      WorkerStep, Unregister

(* What the cleanup works on is out of the map for good. *)
LEMMA RemovedStep ==
  ASSUME TypeOK, KeysKept, Placed, Removed, [Next]_vars
  PROVE  Removed'
<1> USE NoneAssumption, BoundAssumption DEF account, process, sweeper, history
<1>1. ASSUME NEW c \in Calls, NEW k \in Keys, Acquire(c, k) PROVE Removed'
  BY <1>1 DEF TypeOK, AccountOK, ProcessOK, SweeperOK, HistoryOK, Removed, KeysKept, Placed,
      Listed, Acquire
<1>2. ASSUME NEW c \in Calls, Look(c) PROVE Removed'
  BY <1>2 DEF TypeOK, AccountOK, ProcessOK, SweeperOK, HistoryOK, Removed, KeysKept, Placed,
      Listed, Look
<1>3. ASSUME NEW c \in Calls, Register(c) PROVE Removed'
  BY <1>3 DEF TypeOK, AccountOK, ProcessOK, SweeperOK, HistoryOK, Removed, KeysKept, Placed,
      Listed, Register, At, Binds
<1>4. ASSUME NEW c \in Calls, RegisterFails(c) PROVE Removed'
  BY <1>4 DEF TypeOK, AccountOK, ProcessOK, SweeperOK, HistoryOK, Removed, KeysKept, Placed,
      Listed, RegisterFails
<1>5. ASSUME NEW c \in Calls, Registered(c) PROVE Removed'
  BY <1>5 DEF TypeOK, AccountOK, ProcessOK, SweeperOK, HistoryOK, Removed, KeysKept, Placed,
      Listed, Registered, At
<1>6. ASSUME NEW c \in Calls, StartWorker(c) PROVE Removed'
  BY <1>6 DEF TypeOK, AccountOK, ProcessOK, SweeperOK, HistoryOK, Removed, KeysKept, Placed,
      Listed, StartWorker, At
<1>7. ASSUME NEW c \in Calls, LookToCount(c) PROVE Removed'
  BY <1>7 DEF TypeOK, AccountOK, ProcessOK, SweeperOK, HistoryOK, Removed, KeysKept, Placed,
      Listed, LookToCount
<1>8. ASSUME NEW c \in Calls, Count(c) PROVE Removed'
  BY <1>8 DEF TypeOK, AccountOK, ProcessOK, SweeperOK, HistoryOK, Removed, KeysKept, Placed,
      Listed, Count, At
<1>9. ASSUME NEW c \in Calls, CallEnds(c) PROVE Removed'
  BY <1>9 DEF TypeOK, AccountOK, ProcessOK, SweeperOK, HistoryOK, Removed, KeysKept, Placed,
      Listed, CallEnds
<1>10. ASSUME NEW c \in Calls, Uncount(c) PROVE Removed'
  BY <1>10 DEF TypeOK, AccountOK, ProcessOK, SweeperOK, HistoryOK, Removed, KeysKept, Placed,
      Listed, Uncount
<1>11. ASSUME NEW c \in Calls, Tick(c) PROVE Removed'
  BY <1>11 DEF TypeOK, AccountOK, ProcessOK, SweeperOK, HistoryOK, Removed, KeysKept, Placed,
      Listed, Tick
<1>12. ASSUME NEW c \in Calls, Refreshed(c) PROVE Removed'
  BY <1>12 DEF TypeOK, AccountOK, ProcessOK, SweeperOK, HistoryOK, Removed, KeysKept, Placed,
      Listed, Refreshed, Binds
<1>13. ASSUME NEW c \in Calls, WorkerReturns(c) PROVE Removed'
  BY <1>13 DEF TypeOK, AccountOK, ProcessOK, SweeperOK, HistoryOK, Removed, KeysKept, Placed,
      Listed, WorkerReturns, Halted
<1>14. ASSUME NEW o \in Objects, Ages(o) PROVE Removed'
  BY <1>14 DEF TypeOK, AccountOK, ProcessOK, SweeperOK, HistoryOK, Removed, KeysKept, Placed,
      Listed, Ages
<1>15. CASE Cleanup
  BY <1>15 DEF TypeOK, AccountOK, ProcessOK, SweeperOK, HistoryOK, Removed, KeysKept, Placed,
      Listed, Cleanup, Unused
<1>16. CASE NextSwept
  BY <1>16 DEF TypeOK, AccountOK, ProcessOK, SweeperOK, HistoryOK, Removed, KeysKept, Placed,
      Listed, NextSwept
<1>17. CASE CancelWorker
  BY <1>17 DEF TypeOK, AccountOK, ProcessOK, SweeperOK, HistoryOK, Removed, KeysKept, Placed,
      Listed, CancelWorker
<1>18. CASE SendUnregister
  BY <1>18 DEF TypeOK, AccountOK, ProcessOK, SweeperOK, HistoryOK, Removed, KeysKept, Placed,
      Listed, SendUnregister, Unbinds
<1>19. CASE MarkUnregistered
  BY <1>19 DEF TypeOK, AccountOK, ProcessOK, SweeperOK, HistoryOK, Removed, KeysKept, Placed,
      Listed, MarkUnregistered
<1>20. CASE Stop
  BY <1>20 DEF TypeOK, AccountOK, ProcessOK, SweeperOK, HistoryOK, Removed, KeysKept, Placed,
      Listed, Stop, InMap
<1>21. CASE Stopped
  BY <1>21 DEF TypeOK, AccountOK, ProcessOK, SweeperOK, HistoryOK, Removed, KeysKept, Placed,
      Listed, Stopped
<1>22. ASSUME NEW k \in Keys, Lapses(k) PROVE Removed'
  BY <1>22 DEF TypeOK, AccountOK, ProcessOK, SweeperOK, HistoryOK, Removed, KeysKept, Placed,
      Listed, Lapses, Unbinds
<1>23. CASE UNCHANGED vars
  BY <1>23 DEF vars, TypeOK, AccountOK, ProcessOK, SweeperOK, HistoryOK, Removed, KeysKept,
      Placed, Listed
<1> QED
  BY <1>1, <1>2, <1>3, <1>4, <1>5, <1>6, <1>7, <1>8, <1>9, <1>10, <1>11, <1>12, <1>13, <1>14,
      <1>15, <1>16, <1>17, <1>18, <1>19, <1>20, <1>21, <1>22, <1>23 DEF Next, CallStep,
      WorkerStep, Unregister

(* A call counted in time keeps its account. *)
LEMMA CountedStep ==
  ASSUME TypeOK, KeysKept, Placed, CountsExact, CountedKeepsAccount, [Next]_vars
  PROVE  CountedKeepsAccount'
<1> USE NoneAssumption, BoundAssumption DEF account, process, sweeper, history
<1>1. ASSUME NEW c \in Calls, NEW k \in Keys, Acquire(c, k) PROVE CountedKeepsAccount'
  BY <1>1 DEF TypeOK, AccountOK, ProcessOK, SweeperOK, HistoryOK, CountedKeepsAccount, KeysKept,
      Placed, Listed, Acquire
<1>2. ASSUME NEW c \in Calls, Look(c) PROVE CountedKeepsAccount'
  BY <1>2 DEF TypeOK, AccountOK, ProcessOK, SweeperOK, HistoryOK, CountedKeepsAccount, KeysKept,
      Placed, Listed, Look
<1>3. ASSUME NEW c \in Calls, Register(c) PROVE CountedKeepsAccount'
  BY <1>3 DEF TypeOK, AccountOK, ProcessOK, SweeperOK, HistoryOK, CountedKeepsAccount, KeysKept,
      Placed, Listed, Register, At, Binds
<1>4. ASSUME NEW c \in Calls, RegisterFails(c) PROVE CountedKeepsAccount'
  BY <1>4 DEF TypeOK, AccountOK, ProcessOK, SweeperOK, HistoryOK, CountedKeepsAccount, KeysKept,
      Placed, Listed, RegisterFails
<1>5. ASSUME NEW c \in Calls, Registered(c) PROVE CountedKeepsAccount'
  BY <1>5 DEF TypeOK, AccountOK, ProcessOK, SweeperOK, HistoryOK, CountedKeepsAccount, KeysKept,
      Placed, Listed, Registered, At
<1>6. ASSUME NEW c \in Calls, StartWorker(c) PROVE CountedKeepsAccount'
  BY <1>6 DEF TypeOK, AccountOK, ProcessOK, SweeperOK, HistoryOK, CountedKeepsAccount, KeysKept,
      Placed, Listed, StartWorker, At
<1>7. ASSUME NEW c \in Calls, LookToCount(c) PROVE CountedKeepsAccount'
  BY <1>7 DEF TypeOK, AccountOK, ProcessOK, SweeperOK, HistoryOK, CountedKeepsAccount, KeysKept,
      Placed, Listed, LookToCount
<1>8. ASSUME NEW c \in Calls, Count(c) PROVE CountedKeepsAccount'
  BY <1>8 DEF TypeOK, AccountOK, ProcessOK, SweeperOK, HistoryOK, CountedKeepsAccount, KeysKept,
      Placed, Listed, Count, At
<1>9. ASSUME NEW c \in Calls, CallEnds(c) PROVE CountedKeepsAccount'
  BY <1>9 DEF TypeOK, AccountOK, ProcessOK, SweeperOK, HistoryOK, CountedKeepsAccount, KeysKept,
      Placed, Listed, CallEnds
<1>10. ASSUME NEW c \in Calls, Uncount(c) PROVE CountedKeepsAccount'
  BY <1>10 DEF TypeOK, AccountOK, ProcessOK, SweeperOK, HistoryOK, CountedKeepsAccount,
      KeysKept, Placed, Listed, Uncount
<1>11. ASSUME NEW c \in Calls, Tick(c) PROVE CountedKeepsAccount'
  BY <1>11 DEF TypeOK, AccountOK, ProcessOK, SweeperOK, HistoryOK, CountedKeepsAccount,
      KeysKept, Placed, Listed, Tick
<1>12. ASSUME NEW c \in Calls, Refreshed(c) PROVE CountedKeepsAccount'
  BY <1>12 DEF TypeOK, AccountOK, ProcessOK, SweeperOK, HistoryOK, CountedKeepsAccount,
      KeysKept, Placed, Listed, Refreshed, Binds
<1>13. ASSUME NEW c \in Calls, WorkerReturns(c) PROVE CountedKeepsAccount'
  BY <1>13 DEF TypeOK, AccountOK, ProcessOK, SweeperOK, HistoryOK, CountedKeepsAccount,
      KeysKept, Placed, Listed, WorkerReturns, Halted
<1>14. ASSUME NEW o \in Objects, Ages(o) PROVE CountedKeepsAccount'
  BY <1>14 DEF TypeOK, AccountOK, ProcessOK, SweeperOK, HistoryOK, CountedKeepsAccount,
      KeysKept, Placed, Listed, Ages
<1>15. CASE Cleanup
  BY <1>15, CountedIsUsed DEF TypeOK, AccountOK, ProcessOK, SweeperOK, HistoryOK,
      CountedKeepsAccount, KeysKept, Placed, Listed, Cleanup, Unused
<1>16. CASE NextSwept
  BY <1>16 DEF TypeOK, AccountOK, ProcessOK, SweeperOK, HistoryOK, CountedKeepsAccount,
      KeysKept, Placed, Listed, NextSwept
<1>17. CASE CancelWorker
  BY <1>17 DEF TypeOK, AccountOK, ProcessOK, SweeperOK, HistoryOK, CountedKeepsAccount,
      KeysKept, Placed, Listed, CancelWorker
<1>18. CASE SendUnregister
  BY <1>18 DEF TypeOK, AccountOK, ProcessOK, SweeperOK, HistoryOK, CountedKeepsAccount,
      KeysKept, Placed, Listed, SendUnregister, Unbinds
<1>19. CASE MarkUnregistered
  BY <1>19 DEF TypeOK, AccountOK, ProcessOK, SweeperOK, HistoryOK, CountedKeepsAccount,
      KeysKept, Placed, Listed, MarkUnregistered
<1>20. CASE Stop
  BY <1>20 DEF TypeOK, AccountOK, ProcessOK, SweeperOK, HistoryOK, CountedKeepsAccount,
      KeysKept, Placed, Listed, Stop, InMap
<1>21. CASE Stopped
  BY <1>21 DEF TypeOK, AccountOK, ProcessOK, SweeperOK, HistoryOK, CountedKeepsAccount,
      KeysKept, Placed, Listed, Stopped
<1>22. ASSUME NEW k \in Keys, Lapses(k) PROVE CountedKeepsAccount'
  BY <1>22 DEF TypeOK, AccountOK, ProcessOK, SweeperOK, HistoryOK, CountedKeepsAccount,
      KeysKept, Placed, Listed, Lapses, Unbinds
<1>23. CASE UNCHANGED vars
  BY <1>23 DEF vars, TypeOK, AccountOK, ProcessOK, SweeperOK, HistoryOK, CountedKeepsAccount,
      KeysKept, Placed, Listed
<1> QED
  BY <1>1, <1>2, <1>3, <1>4, <1>5, <1>6, <1>7, <1>8, <1>9, <1>10, <1>11, <1>12, <1>13, <1>14,
      <1>15, <1>16, <1>17, <1>18, <1>19, <1>20, <1>21, <1>22, <1>23 DEF Next, CallStep,
      WorkerStep, Unregister

(* A worker nobody cancelled has its account. *)
LEMMA StoppedStep ==
  ASSUME TypeOK, KeysKept, Placed, WorkersNamed, WorkersStopped, [Next]_vars
  PROVE  WorkersStopped'
<1> USE NoneAssumption, BoundAssumption DEF account, process, sweeper, history
<1>1. ASSUME NEW c \in Calls, NEW k \in Keys, Acquire(c, k) PROVE WorkersStopped'
  BY <1>1 DEF TypeOK, AccountOK, ProcessOK, SweeperOK, HistoryOK, WorkersStopped, KeysKept,
      Placed, WorkersNamed, Before, Listed, Acquire
<1>2. ASSUME NEW c \in Calls, Look(c) PROVE WorkersStopped'
  BY <1>2 DEF TypeOK, AccountOK, ProcessOK, SweeperOK, HistoryOK, WorkersStopped, KeysKept,
      Placed, WorkersNamed, Before, Listed, Look
<1>3. ASSUME NEW c \in Calls, Register(c) PROVE WorkersStopped'
  BY <1>3 DEF TypeOK, AccountOK, ProcessOK, SweeperOK, HistoryOK, WorkersStopped, KeysKept,
      Placed, WorkersNamed, Before, Listed, Register, At, Binds
<1>4. ASSUME NEW c \in Calls, RegisterFails(c) PROVE WorkersStopped'
  BY <1>4 DEF TypeOK, AccountOK, ProcessOK, SweeperOK, HistoryOK, WorkersStopped, KeysKept,
      Placed, WorkersNamed, Before, Listed, RegisterFails
<1>5. ASSUME NEW c \in Calls, Registered(c) PROVE WorkersStopped'
  BY <1>5 DEF TypeOK, AccountOK, ProcessOK, SweeperOK, HistoryOK, WorkersStopped, KeysKept,
      Placed, WorkersNamed, Before, Listed, Registered, At
<1>6. ASSUME NEW c \in Calls, StartWorker(c) PROVE WorkersStopped'
  BY <1>6 DEF TypeOK, AccountOK, ProcessOK, SweeperOK, HistoryOK, WorkersStopped, KeysKept,
      Placed, WorkersNamed, Before, Listed, StartWorker, At
<1>7. ASSUME NEW c \in Calls, LookToCount(c) PROVE WorkersStopped'
  BY <1>7 DEF TypeOK, AccountOK, ProcessOK, SweeperOK, HistoryOK, WorkersStopped, KeysKept,
      Placed, WorkersNamed, Before, Listed, LookToCount
<1>8. ASSUME NEW c \in Calls, Count(c) PROVE WorkersStopped'
  BY <1>8 DEF TypeOK, AccountOK, ProcessOK, SweeperOK, HistoryOK, WorkersStopped, KeysKept,
      Placed, WorkersNamed, Before, Listed, Count, At
<1>9. ASSUME NEW c \in Calls, CallEnds(c) PROVE WorkersStopped'
  BY <1>9 DEF TypeOK, AccountOK, ProcessOK, SweeperOK, HistoryOK, WorkersStopped, KeysKept,
      Placed, WorkersNamed, Before, Listed, CallEnds
<1>10. ASSUME NEW c \in Calls, Uncount(c) PROVE WorkersStopped'
  BY <1>10 DEF TypeOK, AccountOK, ProcessOK, SweeperOK, HistoryOK, WorkersStopped, KeysKept,
      Placed, WorkersNamed, Before, Listed, Uncount
<1>11. ASSUME NEW c \in Calls, Tick(c) PROVE WorkersStopped'
  BY <1>11 DEF TypeOK, AccountOK, ProcessOK, SweeperOK, HistoryOK, WorkersStopped, KeysKept,
      Placed, WorkersNamed, Before, Listed, Tick
<1>12. ASSUME NEW c \in Calls, Refreshed(c) PROVE WorkersStopped'
  BY <1>12 DEF TypeOK, AccountOK, ProcessOK, SweeperOK, HistoryOK, WorkersStopped, KeysKept,
      Placed, WorkersNamed, Before, Listed, Refreshed, Binds
<1>13. ASSUME NEW c \in Calls, WorkerReturns(c) PROVE WorkersStopped'
  BY <1>13 DEF TypeOK, AccountOK, ProcessOK, SweeperOK, HistoryOK, WorkersStopped, KeysKept,
      Placed, WorkersNamed, Before, Listed, WorkerReturns, Halted
<1>14. ASSUME NEW o \in Objects, Ages(o) PROVE WorkersStopped'
  BY <1>14 DEF TypeOK, AccountOK, ProcessOK, SweeperOK, HistoryOK, WorkersStopped, KeysKept,
      Placed, WorkersNamed, Before, Listed, Ages
<1>15. CASE Cleanup
  BY <1>15 DEF TypeOK, AccountOK, ProcessOK, SweeperOK, HistoryOK, WorkersStopped, KeysKept,
      Placed, WorkersNamed, Before, Listed, Cleanup, Unused
<1>16. CASE NextSwept
  BY <1>16 DEF TypeOK, AccountOK, ProcessOK, SweeperOK, HistoryOK, WorkersStopped, KeysKept,
      Placed, WorkersNamed, Before, Listed, NextSwept
<1>17. CASE CancelWorker
  BY <1>17 DEF TypeOK, AccountOK, ProcessOK, SweeperOK, HistoryOK, WorkersStopped, KeysKept,
      Placed, WorkersNamed, Before, Listed, CancelWorker
<1>18. CASE SendUnregister
  BY <1>18 DEF TypeOK, AccountOK, ProcessOK, SweeperOK, HistoryOK, WorkersStopped, KeysKept,
      Placed, WorkersNamed, Before, Listed, SendUnregister, Unbinds
<1>19. CASE MarkUnregistered
  BY <1>19 DEF TypeOK, AccountOK, ProcessOK, SweeperOK, HistoryOK, WorkersStopped, KeysKept,
      Placed, WorkersNamed, Before, Listed, MarkUnregistered
<1>20. CASE Stop
  BY <1>20 DEF TypeOK, AccountOK, ProcessOK, SweeperOK, HistoryOK, WorkersStopped, KeysKept,
      Placed, WorkersNamed, Before, Listed, Stop, InMap
<1>21. CASE Stopped
  BY <1>21 DEF TypeOK, AccountOK, ProcessOK, SweeperOK, HistoryOK, WorkersStopped, KeysKept,
      Placed, WorkersNamed, Before, Listed, Stopped
<1>22. ASSUME NEW k \in Keys, Lapses(k) PROVE WorkersStopped'
  BY <1>22 DEF TypeOK, AccountOK, ProcessOK, SweeperOK, HistoryOK, WorkersStopped, KeysKept,
      Placed, WorkersNamed, Before, Listed, Lapses, Unbinds
<1>23. CASE UNCHANGED vars
  BY <1>23 DEF vars, TypeOK, AccountOK, ProcessOK, SweeperOK, HistoryOK, WorkersStopped,
      KeysKept, Placed, WorkersNamed, Before, Listed
<1> QED
  BY <1>1, <1>2, <1>3, <1>4, <1>5, <1>6, <1>7, <1>8, <1>9, <1>10, <1>11, <1>12, <1>13, <1>14,
      <1>15, <1>16, <1>17, <1>18, <1>19, <1>20, <1>21, <1>22, <1>23 DEF Next, CallStep,
      WorkerStep, Unregister

(* A registered account has a worker, or is about to. *)
LEMMA RefreshedStep ==
  ASSUME TypeOK, KeysKept, Placed, WorkersNamed, Removed, RegisteredRefreshed, [Next]_vars
  PROVE  RegisteredRefreshed'
<1> USE NoneAssumption, BoundAssumption DEF account, process, sweeper, history
<1>1. ASSUME NEW c \in Calls, NEW k \in Keys, Acquire(c, k) PROVE RegisteredRefreshed'
  BY <1>1 DEF TypeOK, AccountOK, ProcessOK, SweeperOK, HistoryOK, RegisteredRefreshed, KeysKept,
      Placed, WorkersNamed, Before, Removed, Listed, Acquire
<1>2. ASSUME NEW c \in Calls, Look(c) PROVE RegisteredRefreshed'
  BY <1>2 DEF TypeOK, AccountOK, ProcessOK, SweeperOK, HistoryOK, RegisteredRefreshed, KeysKept,
      Placed, WorkersNamed, Before, Removed, Listed, Look
<1>3. ASSUME NEW c \in Calls, Register(c) PROVE RegisteredRefreshed'
  BY <1>3 DEF TypeOK, AccountOK, ProcessOK, SweeperOK, HistoryOK, RegisteredRefreshed, KeysKept,
      Placed, WorkersNamed, Before, Removed, Listed, Register, At, Binds
<1>4. ASSUME NEW c \in Calls, RegisterFails(c) PROVE RegisteredRefreshed'
  BY <1>4 DEF TypeOK, AccountOK, ProcessOK, SweeperOK, HistoryOK, RegisteredRefreshed, KeysKept,
      Placed, WorkersNamed, Before, Removed, Listed, RegisterFails
<1>5. ASSUME NEW c \in Calls, Registered(c) PROVE RegisteredRefreshed'
  BY <1>5 DEF TypeOK, AccountOK, ProcessOK, SweeperOK, HistoryOK, RegisteredRefreshed, KeysKept,
      Placed, WorkersNamed, Before, Removed, Listed, Registered, At
<1>6. ASSUME NEW c \in Calls, StartWorker(c) PROVE RegisteredRefreshed'
  BY <1>6 DEF TypeOK, AccountOK, ProcessOK, SweeperOK, HistoryOK, RegisteredRefreshed, KeysKept,
      Placed, WorkersNamed, Before, Removed, Listed, StartWorker, At
<1>7. ASSUME NEW c \in Calls, LookToCount(c) PROVE RegisteredRefreshed'
  BY <1>7 DEF TypeOK, AccountOK, ProcessOK, SweeperOK, HistoryOK, RegisteredRefreshed, KeysKept,
      Placed, WorkersNamed, Before, Removed, Listed, LookToCount
<1>8. ASSUME NEW c \in Calls, Count(c) PROVE RegisteredRefreshed'
  BY <1>8 DEF TypeOK, AccountOK, ProcessOK, SweeperOK, HistoryOK, RegisteredRefreshed, KeysKept,
      Placed, WorkersNamed, Before, Removed, Listed, Count, At
<1>9. ASSUME NEW c \in Calls, CallEnds(c) PROVE RegisteredRefreshed'
  BY <1>9 DEF TypeOK, AccountOK, ProcessOK, SweeperOK, HistoryOK, RegisteredRefreshed, KeysKept,
      Placed, WorkersNamed, Before, Removed, Listed, CallEnds
<1>10. ASSUME NEW c \in Calls, Uncount(c) PROVE RegisteredRefreshed'
  BY <1>10 DEF TypeOK, AccountOK, ProcessOK, SweeperOK, HistoryOK, RegisteredRefreshed,
      KeysKept, Placed, WorkersNamed, Before, Removed, Listed, Uncount
<1>11. ASSUME NEW c \in Calls, Tick(c) PROVE RegisteredRefreshed'
  BY <1>11 DEF TypeOK, AccountOK, ProcessOK, SweeperOK, HistoryOK, RegisteredRefreshed,
      KeysKept, Placed, WorkersNamed, Before, Removed, Listed, Tick
<1>12. ASSUME NEW c \in Calls, Refreshed(c) PROVE RegisteredRefreshed'
  BY <1>12 DEF TypeOK, AccountOK, ProcessOK, SweeperOK, HistoryOK, RegisteredRefreshed,
      KeysKept, Placed, WorkersNamed, Before, Removed, Listed, Refreshed, Binds
<1>13. ASSUME NEW c \in Calls, WorkerReturns(c) PROVE RegisteredRefreshed'
  BY <1>13 DEF TypeOK, AccountOK, ProcessOK, SweeperOK, HistoryOK, RegisteredRefreshed,
      KeysKept, Placed, WorkersNamed, Before, Removed, Listed, WorkerReturns, Halted
<1>14. ASSUME NEW o \in Objects, Ages(o) PROVE RegisteredRefreshed'
  BY <1>14 DEF TypeOK, AccountOK, ProcessOK, SweeperOK, HistoryOK, RegisteredRefreshed,
      KeysKept, Placed, WorkersNamed, Before, Removed, Listed, Ages
<1>15. CASE Cleanup
  BY <1>15 DEF TypeOK, AccountOK, ProcessOK, SweeperOK, HistoryOK, RegisteredRefreshed,
      KeysKept, Placed, WorkersNamed, Before, Removed, Listed, Cleanup, Unused
<1>16. CASE NextSwept
  BY <1>16 DEF TypeOK, AccountOK, ProcessOK, SweeperOK, HistoryOK, RegisteredRefreshed,
      KeysKept, Placed, WorkersNamed, Before, Removed, Listed, NextSwept
<1>17. CASE CancelWorker
  BY <1>17 DEF TypeOK, AccountOK, ProcessOK, SweeperOK, HistoryOK, RegisteredRefreshed,
      KeysKept, Placed, WorkersNamed, Before, Removed, Listed, CancelWorker
<1>18. CASE SendUnregister
  BY <1>18 DEF TypeOK, AccountOK, ProcessOK, SweeperOK, HistoryOK, RegisteredRefreshed,
      KeysKept, Placed, WorkersNamed, Before, Removed, Listed, SendUnregister, Unbinds
<1>19. CASE MarkUnregistered
  BY <1>19 DEF TypeOK, AccountOK, ProcessOK, SweeperOK, HistoryOK, RegisteredRefreshed,
      KeysKept, Placed, WorkersNamed, Before, Removed, Listed, MarkUnregistered
<1>20. CASE Stop
  BY <1>20 DEF TypeOK, AccountOK, ProcessOK, SweeperOK, HistoryOK, RegisteredRefreshed,
      KeysKept, Placed, WorkersNamed, Before, Removed, Listed, Stop, InMap
<1>21. CASE Stopped
  BY <1>21 DEF TypeOK, AccountOK, ProcessOK, SweeperOK, HistoryOK, RegisteredRefreshed,
      KeysKept, Placed, WorkersNamed, Before, Removed, Listed, Stopped
<1>22. ASSUME NEW k \in Keys, Lapses(k) PROVE RegisteredRefreshed'
  BY <1>22 DEF TypeOK, AccountOK, ProcessOK, SweeperOK, HistoryOK, RegisteredRefreshed,
      KeysKept, Placed, WorkersNamed, Before, Removed, Listed, Lapses, Unbinds
<1>23. CASE UNCHANGED vars
  BY <1>23 DEF vars, TypeOK, AccountOK, ProcessOK, SweeperOK, HistoryOK, RegisteredRefreshed,
      KeysKept, Placed, WorkersNamed, Before, Removed, Listed
<1> QED
  BY <1>1, <1>2, <1>3, <1>4, <1>5, <1>6, <1>7, <1>8, <1>9, <1>10, <1>11, <1>12, <1>13, <1>14,
      <1>15, <1>16, <1>17, <1>18, <1>19, <1>20, <1>21, <1>22, <1>23 DEF Next, CallStep,
      WorkerStep, Unregister

-----------------------------------------------------------------------------
(* Every part of the invariant holds throughout. *)
THEOREM Invariance == Spec => []RegistryInv
<1>1. Init => RegistryInv
  <2> SUFFICES ASSUME Init PROVE RegistryInv
    OBVIOUS
  <2> USE NoneAssumption, BoundAssumption DEF Init
  <2>1. AccountOK BY DEF AccountOK
  <2>2. ProcessOK BY DEF ProcessOK, CallAt, WorkerAt
  <2>3. SweeperOK /\ HistoryOK BY DEF SweeperOK, HistoryOK, SweepAt
  <2>4. KeysKept /\ Placed /\ NotCounted BY DEF KeysKept, Placed, NotCounted
  <2>5. CountsExact
    <3>1. \A o \in Objects : On(o) = {} BY DEF On
    <3>2. IsFiniteSet({}) /\ Cardinality({}) = 0 BY FS_EmptySet
    <3> QED BY <3>1, <3>2 DEF CountsExact
  <2>6. WorkersNamed /\ Removed BY DEF WorkersNamed, Removed, Before
  <2>7. CountedKeepsAccount /\ WorkersStopped /\ RegisteredRefreshed
    BY DEF CountedKeepsAccount, WorkersStopped, RegisteredRefreshed, Listed
  <2> QED BY <2>1, <2>2, <2>3, <2>4, <2>5, <2>6, <2>7 DEF RegistryInv, TypeOK
<1>2. ASSUME RegistryInv, [Next]_vars PROVE RegistryInv'
  <2>1. /\ TypeOK /\ KeysKept /\ Placed /\ NotCounted /\ CountsExact /\ WorkersNamed /\ Removed
        /\ CountedKeepsAccount /\ WorkersStopped /\ RegisteredRefreshed
    BY <1>2 DEF RegistryInv
  <2>2. TypeOK' BY <1>2, <2>1, TypeStep
  <2>3. KeysKept' /\ Placed' BY <1>2, <2>1, KeysStep, PlacedStep
  <2>4. NotCounted' /\ CountsExact' BY <1>2, <2>1, NotCountedStep, CountsStep
  <2>5. WorkersNamed' /\ Removed' BY <1>2, <2>1, WorkersNamedStep, RemovedStep
  <2>6. CountedKeepsAccount' BY <1>2, <2>1, CountedStep
  <2>7. WorkersStopped' BY <1>2, <2>1, StoppedStep
  <2>8. RegisteredRefreshed' BY <1>2, <2>1, RefreshedStep
  <2> QED BY <2>2, <2>3, <2>4, <2>5, <2>6, <2>7, <2>8 DEF RegistryInv
<1> QED BY <1>1, <1>2, PTL DEF Spec

(* The accounts, calls, workers and the cleanup keep to their types. *)
THEOREM TypeCorrect == Spec => []TypeOK
<1>1. RegistryInv => TypeOK BY DEF RegistryInv
<1> QED BY <1>1, Invariance, PTL

(* A call that got its count onto an account in time keeps that account in the
   map, unless another call took one count too many off it. *)
THEOREM CountedKeeps == Spec => []CountedKeepsAccount
<1>1. RegistryInv => CountedKeepsAccount BY DEF RegistryInv
<1> QED BY <1>1, Invariance, PTL

(* No refresh worker outlives its account, and every account that counts as
   registered has one or is about to. *)
THEOREM OneWorkerEach == Spec => []WorkersFollow
<1>1. RegistryInv => WorkersFollow BY DEF RegistryInv, WorkersFollow
<1> QED BY <1>1, Invariance, PTL
=============================================================================
