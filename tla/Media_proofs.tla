---------------------------- MODULE Media_proofs ----------------------------
(* What ReorderBuffer keeps true for every number of sequence numbers, every
   window, every stream and any number of timer goroutines, nothing assumed of
   the network but where CalmNetwork is named; and what KeyframeRequests keeps
   true for any intervals, any schedule and any number of events. *)
EXTENDS MCMedia, TLAPS

(* After the drain nothing is held and nobody pushes. *)
ClosedIsEmpty == closed => buf = {} /\ pc[Reader] \in {"drained", "done"}

(* The inductive invariant. *)
IInv == TypeOK /\ InWindow /\ NeverStuck /\ ClosedIsEmpty

-----------------------------------------------------------------------------
(* Arithmetic of uint16 *)

(* Differences and sums of numbers are numbers. *)
LEMMA SubType == ASSUME NEW a \in 0 .. M - 1, NEW b \in 0 .. M - 1 PROVE Sub(a, b) \in 0 .. M - 1
  BY SizeAssumption DEF Sub

(* Moving on by at most a window stays a number. *)
LEMMA PlusType == ASSUME NEW a \in 0 .. M - 1, NEW k \in 0 .. W PROVE Plus(a, k) \in 0 .. M - 1
  BY SizeAssumption DEF Plus

(* Half of the numbers, half of the window. *)
LEMMA Halves == /\ Half \in Nat /\ 2 * Half = M /\ W <= Half
                /\ W \div 2 \in 1 .. W - 1
  BY SizeAssumption DEF Half

(* Seen from n, a is as far behind b as the difference of their offsets. *)
LEMMA SubDiff ==
  ASSUME NEW a \in 0 .. M - 1, NEW b \in 0 .. M - 1, NEW n \in 0 .. M - 1, Sub(a, n) >= Sub(b, n)
  PROVE  Sub(a, b) = Sub(a, n) - Sub(b, n)
  BY SizeAssumption DEF Sub

(* Moving nextSeq on by k brings what lies further ahead k nearer. *)
LEMMA SubPlus ==
  ASSUME NEW a \in 0 .. M - 1, NEW n \in 0 .. M - 1, NEW k \in 0 .. W, Sub(a, n) >= k
  PROVE  Sub(a, Plus(n, k)) = Sub(a, n) - k
  BY SizeAssumption DEF Sub, Plus

(* Numbers at the same offset are the same. *)
LEMMA SubInj ==
  ASSUME NEW a \in 0 .. M - 1, NEW b \in 0 .. M - 1, NEW n \in 0 .. M - 1, Sub(a, n) = Sub(b, n)
  PROVE  a = b
  BY SizeAssumption DEF Sub

(* The number half a window behind a. *)
LEMMA SubBase ==
  ASSUME NEW a \in 0 .. M - 1, NEW h \in 1 .. W - 1
  PROVE  Sub(a, h) \in 0 .. M - 1 /\ Sub(a, Sub(a, h)) = h
  BY SizeAssumption DEF Sub

(* Seen from n, a base h behind a packet is h nearer than the packet. *)
LEMMA SubBaseOff ==
  ASSUME NEW a \in 0 .. M - 1, NEW h \in 1 .. W - 1, NEW n \in 0 .. M - 1, Sub(a, n) >= h
  PROVE  Sub(Sub(a, h), n) = Sub(a, n) - h
  BY SizeAssumption DEF Sub

-----------------------------------------------------------------------------
(* What flushConsecutiveLocked leaves lies in the window again, if what it was
   given lies less than a window ahead of the place it starts from. *)
LEMMA FlushInWindow ==
  ASSUME TypeOK, NEW t \in Threads, NEW B \in SUBSET Packets, NEW n \in 0 .. M - 1,
         NEW S, NEW k \in 0 .. W, FlushConsecutive(t, B, n, S, k), hasBase',
         \A q \in B : Sub(SeqNo[q], n) <= W - 1,
         \A p, q \in B : SeqNo[p] = SeqNo[q] => p = q
  PROVE  InWindow'
<1>1. buf' = {q \in B : Sub(SeqNo[q], n) > k} /\ nextSeq' = Plus(n, k)
  BY DEF FlushConsecutive
<1>2. ASSUME NEW p \in buf' PROVE Sub(SeqNo[p], nextSeq') >= 1 /\ Sub(SeqNo[p], nextSeq') <= W - 1
  <2>1. p \in B /\ p \in Packets /\ Sub(SeqNo[p], n) > k /\ Sub(SeqNo[p], n) <= W - 1
    BY <1>1
  <2>2. SeqNo[p] \in 0 .. M - 1
    BY <2>1, StreamAssumption
  <2>3. Sub(SeqNo[p], n) \in 0 .. M - 1
    BY <2>2, SubType
  <2>4. Sub(SeqNo[p], Plus(n, k)) = Sub(SeqNo[p], n) - k
    BY <2>1, <2>2, <2>3, SubPlus
  <2> QED BY <1>1, <2>1, <2>3, <2>4, SizeAssumption
<1>3. \A p, q \in buf' : SeqNo[p] = SeqNo[q] => p = q
  BY <1>1
<1> QED BY <1>2, <1>3 DEF InWindow, Off

(* The types a flush leaves. *)
LEMMA FlushType ==
  ASSUME TypeOK, NEW t \in Threads, NEW B \in SUBSET Packets, NEW n \in 0 .. M - 1,
         NEW S \in SUBSET Packets, NEW k \in 0 .. W, FlushConsecutive(t, B, n, S, k)
  PROVE  /\ buf' \subseteq Packets /\ nextSeq' \in 0 .. M - 1 /\ front' \in Int
         /\ pc' \in [Threads -> {"read", "idle", "fired", "emit", "drained", "done"}]
         /\ batch' \in [Threads -> SUBSET Packets] /\ from' \in [Threads -> 0 .. M - 1]
         /\ \A u \in Threads : u # t => pc'[u] = pc[u]
         /\ (t = Reader => pc'[t] # "fired")
<1>1. nextSeq' \in 0 .. M - 1
  BY PlusType DEF FlushConsecutive
<1>2. front' \in Int
  <2>1. Sub(n, nextSeq) \in 0 .. M - 1
    BY SubType DEF TypeOK
  <2> QED BY <2>1, SizeAssumption DEF FlushConsecutive, TypeOK
<1>3. Decide(t, S \cup {q \in B : Sub(SeqNo[q], n) < k})
  BY DEF FlushConsecutive
<1>4. batch' \in [Threads -> SUBSET Packets] /\ from' \in [Threads -> 0 .. M - 1]
  BY <1>3 DEF Decide, TypeOK
<1>5. /\ pc' \in [Threads -> {"read", "idle", "fired", "emit", "drained", "done"}]
      /\ \A u \in Threads : u # t => pc'[u] = pc[u]
      /\ (t = Reader => pc'[t] # "fired")
  BY <1>3 DEF Decide, TypeOK
<1> QED BY <1>1, <1>2, <1>4, <1>5 DEF FlushConsecutive

-----------------------------------------------------------------------------
(* One lemma per step of the buffer *)

(* The first packet of a source. *)
LEMMA PushFirstInv == ASSUME IInv, NEW p \in Packets, PushFirst(p) PROVE IInv'
<1> USE DEF IInv, PushFirst, Pushing
<1>0. SeqNo[p] \in 0 .. M - 1 /\ p \in Nat
  BY StreamAssumption
<1>1. buf' = {} /\ nextSeq' \in 0 .. M - 1 /\ Reader \in Threads /\ Reader \notin Timers
  BY <1>0, PlusType, SizeAssumption, ThreadAssumption DEF InWindow, Threads
<1>2. Decide(Reader, {p})
  OBVIOUS
<1>3. batch' \in [Threads -> SUBSET Packets] /\ from' \in [Threads -> 0 .. M - 1]
  <2>1. batch' = [batch EXCEPT ![Reader] = {p}] /\ from' = [from EXCEPT ![Reader] = nextSeq]
    BY <1>2 DEF Decide
  <2>2. batch' \in [Threads -> SUBSET Packets]
    BY <2>1 DEF TypeOK
  <2>3. from' \in [Threads -> 0 .. M - 1]
    BY <2>1 DEF TypeOK
  <2> QED BY <2>2, <2>3
<1>4. pc' \in [Threads -> {"read", "idle", "fired", "emit", "drained", "done"}]
  BY <1>2 DEF Decide, TypeOK
<1>5. TypeOK'
  BY <1>0, <1>1, <1>3, <1>4 DEF TypeOK
<1>6. ClosedIsEmpty'
  <2>1. ~closed
    BY DEF ClosedIsEmpty
  <2> QED BY <2>1 DEF ClosedIsEmpty
<1> QED BY <1>1, <1>5, <1>6 DEF InWindow, NeverStuck

(* The packet that was waited for. *)
LEMMA PushNextInv ==
  ASSUME IInv, NEW p \in Packets, NEW k \in 0 .. W, PushNext(p, k) PROVE IInv'
<1> USE DEF IInv, PushNext, Pushing
<1>0. SeqNo[p] \in 0 .. M - 1 /\ p \in Nat /\ nextSeq \in 0 .. M - 1
  BY StreamAssumption DEF TypeOK
<1>1. /\ Reader \in Threads /\ Reader \notin Timers /\ buf \cup {p} \subseteq Packets
      /\ FlushConsecutive(Reader, buf \cup {p}, nextSeq, {}, k)
  BY ThreadAssumption DEF Threads, TypeOK
<1>2. \A q \in buf \cup {p} : Sub(SeqNo[q], nextSeq) <= W - 1
  BY SizeAssumption DEF InWindow, Off
<1>3. \A q \in buf : SeqNo[q] # SeqNo[p]
  BY DEF InWindow, Off
<1>4. \A q, r \in buf \cup {p} : SeqNo[q] = SeqNo[r] => q = r
  BY <1>3 DEF InWindow
<1>5. InWindow'
  BY <1>0, <1>1, <1>2, <1>4, FlushInWindow
<1>6. TypeOK'
  BY <1>0, <1>1, FlushType DEF TypeOK, TimerAfter
<1>7. NeverStuck'
  <2>1. \A q \in buf' : q \in buf
    <3>1. buf' = {q \in buf \cup {p} : Sub(SeqNo[q], nextSeq) > k}
      BY <1>1 DEF FlushConsecutive
    <3>2. ~(Sub(SeqNo[p], nextSeq) > k)
      BY DEF Off
    <3> QED BY <3>1, <3>2
  <2>2. \A u \in Timers : pc'[u] = pc[u]
    BY <1>0, <1>1, FlushType DEF Threads
  <2> QED BY <2>1, <2>2 DEF NeverStuck, TimerAfter
<1>8. ClosedIsEmpty'
  BY DEF ClosedIsEmpty
<1> QED BY <1>5, <1>6, <1>7, <1>8

(* A packet ahead of a gap. *)
LEMMA PushAheadInv == ASSUME IInv, NEW p \in Packets, PushAhead(p) PROVE IInv'
<1> USE DEF IInv, PushAhead, Pushing, ctlVars
<1>0. SeqNo[p] \in 0 .. M - 1 /\ p \in Nat /\ nextSeq \in 0 .. M - 1
  BY StreamAssumption DEF TypeOK
<1>1. Off(p) \in 0 .. M - 1 /\ Off(p) # 0 /\ Off(p) <= W - 1
  <2>1. Off(p) \in 0 .. M - 1
    BY <1>0, SubType DEF Off
  <2>2. Off(p) # 0 /\ Off(p) < W
    BY DEF InReach
  <2> QED BY <2>1, <2>2, SizeAssumption
<1>2. CASE Held(SeqNo[p])
  BY <1>2 DEF TypeOK, InWindow, NeverStuck, ClosedIsEmpty, Off
<1>3. CASE ~Held(SeqNo[p])
  <2>1. buf' = buf \cup {p} /\ armed'
    BY <1>3
  <2>2. \A q \in buf : SeqNo[q] # SeqNo[p]
    BY <1>3 DEF Held
  <2>3. TypeOK'
    BY <2>1 DEF TypeOK
  <2>4. InWindow'
    <3>1. \A q \in buf' : Sub(SeqNo[q], nextSeq') >= 1 /\ Sub(SeqNo[q], nextSeq') <= W - 1
      BY <1>1, <2>1 DEF InWindow, Off
    <3> QED BY <2>1, <2>2, <3>1 DEF InWindow, Off
  <2> QED BY <2>1, <2>3, <2>4 DEF NeverStuck, ClosedIsEmpty
<1> QED BY <1>2, <1>3

(* A packet too far ahead: half a window is kept behind it. *)
LEMMA PushFarInv ==
  ASSUME IInv, NEW p \in Packets, NEW k \in 0 .. W, PushFar(p, k) PROVE IInv'
<1> USE DEF IInv, Pushing
<1> DEFINE h == W \div 2
           base == Sub(SeqNo[p], h)
           far == Sub(base, nextSeq)
           rest == {q \in buf : Off(q) >= far}
           B == IF Held(SeqNo[p]) THEN rest ELSE rest \cup {p}
           S == {q \in buf : Off(q) < far}
<1>0. SeqNo[p] \in 0 .. M - 1 /\ p \in Nat /\ nextSeq \in 0 .. M - 1 /\ h \in 1 .. W - 1
  BY StreamAssumption, Halves DEF TypeOK
<1>1. /\ Reader \in Threads /\ Reader \notin Timers /\ B \subseteq Packets /\ S \subseteq Packets
      /\ FlushConsecutive(Reader, B, base, S, k)
  BY ThreadAssumption DEF Threads, TypeOK, PushFar
<1>2. base \in 0 .. M - 1 /\ Sub(SeqNo[p], base) = h
  BY <1>0, SubBase
<1>3. far = Off(p) - h /\ far \in 0 .. M - 1
  <2>1. Off(p) \in 0 .. M - 1 /\ Off(p) >= h
    BY <1>0, SubType, SizeAssumption DEF Off, InReach, PushFar
  <2> QED BY <1>0, <1>2, <2>1, SubBaseOff, SubType DEF Off
<1>4. \A q \in B : Sub(SeqNo[q], base) <= W - 1
  <2> SUFFICES ASSUME NEW q \in rest PROVE Sub(SeqNo[q], base) <= W - 1
    BY <1>0, <1>2, SizeAssumption
  <2>1. SeqNo[q] \in 0 .. M - 1 /\ Off(q) <= W - 1 /\ Off(q) >= far
    BY StreamAssumption DEF InWindow, TypeOK
  <2>2. Sub(SeqNo[q], base) = Off(q) - far
    BY <1>0, <1>2, <2>1, SubDiff DEF Off
  <2>3. Off(q) \in 0 .. M - 1
    BY <1>0, <2>1, SubType DEF Off
  <2> QED BY <1>3, <2>1, <2>2, <2>3, SizeAssumption
<1>5. \A q, r \in B : SeqNo[q] = SeqNo[r] => q = r
  BY DEF InWindow, Held
<1>6. hasBase'
  BY DEF PushFar
<1>7. InWindow'
  BY <1>1, <1>2, <1>4, <1>5, <1>6, FlushInWindow
<1>8. TypeOK'
  <2>1. closed' = closed /\ armed' = (buf' # {}) /\ newest' \in {p, newest}
    BY DEF PushFar
  <2> HIDE DEF B, S, base, far, rest, h
  <2>2. /\ buf' \subseteq Packets /\ nextSeq' \in 0 .. M - 1 /\ front' \in Int
        /\ pc' \in [Threads -> {"read", "idle", "fired", "emit", "drained", "done"}]
        /\ batch' \in [Threads -> SUBSET Packets] /\ from' \in [Threads -> 0 .. M - 1]
    BY <1>1, <1>2, FlushType
  <2> QED BY <1>6, <2>1, <2>2 DEF TypeOK
<1>9. NeverStuck' /\ ClosedIsEmpty'
  BY DEF NeverStuck, ClosedIsEmpty, PushFar
<1> QED BY <1>7, <1>8, <1>9

(* The flush timer skips to the lowest packet held. *)
LEMMA TimerFlushInv ==
  ASSUME IInv, NEW t \in Timers, NEW p \in Packets, NEW k \in 0 .. W, TimerFlush(t, p, k) PROVE IInv'
<1> USE DEF IInv
<1>0. /\ SeqNo[p] \in 0 .. M - 1 /\ nextSeq \in 0 .. M - 1 /\ t \in Threads /\ t # Reader
      /\ p \in buf /\ FlushConsecutive(t, buf, SeqNo[p], {}, k) /\ buf \subseteq Packets
  BY StreamAssumption, ThreadAssumption DEF TypeOK, TimerFlush, Ahead, Threads
<1>1. \A q \in buf : SeqNo[q] \in 0 .. M - 1 /\ Off(q) \in 1 .. W - 1
  <2> SUFFICES ASSUME NEW q \in buf PROVE SeqNo[q] \in 0 .. M - 1 /\ Off(q) \in 1 .. W - 1
    OBVIOUS
  <2>1. SeqNo[q] \in 0 .. M - 1
    BY <1>0, StreamAssumption
  <2>2. Off(q) \in 0 .. M - 1
    BY <1>0, <2>1, SubType DEF Off
  <2>3. Off(q) >= 1 /\ Off(q) <= W - 1
    BY DEF InWindow
  <2> QED BY <2>1, <2>2, <2>3, SizeAssumption
<1>2. \A q \in buf : Sub(SeqNo[q], SeqNo[p]) <= W - 1
  <2> SUFFICES ASSUME NEW q \in buf PROVE Sub(SeqNo[q], SeqNo[p]) <= W - 1
    OBVIOUS
  <2>1. q \in Ahead
    BY <1>1, Halves, SizeAssumption DEF Ahead
  <2>2. ~Before(SeqNo[q], SeqNo[p])
    BY <2>1 DEF TimerFlush
  <2>3. Off(q) >= Off(p)
    <3> SUFFICES ASSUME Off(q) < Off(p) PROVE FALSE
      BY <1>0, <1>1, SizeAssumption
    <3>1. Sub(SeqNo[p], SeqNo[q]) = Off(p) - Off(q)
      BY <1>0, <1>1, SubDiff, SizeAssumption DEF Off
    <3> QED BY <1>0, <1>1, <2>2, <3>1, Halves, SizeAssumption DEF Before
  <2>4. Sub(SeqNo[q], SeqNo[p]) = Off(q) - Off(p)
    BY <1>0, <1>1, <2>3, SubDiff DEF Off
  <2> QED BY <1>0, <1>1, <2>4, SizeAssumption
<1>3. hasBase'
  BY <1>0 DEF TimerFlush, InWindow
<1>4. InWindow'
  <2>1. \A q, r \in buf : SeqNo[q] = SeqNo[r] => q = r
    BY DEF InWindow
  <2> QED BY <1>0, <1>2, <1>3, <2>1, FlushInWindow
<1>5. TypeOK'
  BY <1>0, <1>3, FlushType DEF TypeOK, TimerFlush
<1>6. NeverStuck' /\ ClosedIsEmpty'
  BY DEF NeverStuck, ClosedIsEmpty, TimerFlush
<1> QED BY <1>4, <1>5, <1>6

(* The timer's goroutine finds nothing to do. *)
LEMMA TimerLateInv == ASSUME IInv, NEW t \in Timers, TimerLate(t) PROVE IInv'
<1> USE DEF IInv, TimerLate, histVars
<1>1. buf' = {} /\ t \in Threads /\ t # Reader
  BY ThreadAssumption DEF ClosedIsEmpty, Threads
<1>2. pc' \in [Threads -> {"read", "idle", "fired", "emit", "drained", "done"}] /\ pc'[Reader] = pc[Reader]
  BY <1>1 DEF TypeOK, Threads
<1>3. TypeOK'
  BY <1>1, <1>2 DEF TypeOK
<1> QED BY <1>1, <1>2, <1>3 DEF InWindow, NeverStuck, ClosedIsEmpty

(* The timer's goroutine starts. *)
LEMMA TimerExpiresInv == ASSUME IInv, NEW t \in Timers, TimerExpires(t) PROVE IInv'
<1> USE DEF IInv, TimerExpires, histVars
<1>1. t \in Threads /\ t # Reader
  BY ThreadAssumption DEF Threads
<1>2. /\ pc' \in [Threads -> {"read", "idle", "fired", "emit", "drained", "done"}]
      /\ pc'[Reader] = pc[Reader] /\ pc'[t] = "fired"
  BY <1>1 DEF TypeOK, Threads
<1>3. TypeOK'
  BY <1>2 DEF TypeOK
<1> QED BY <1>2, <1>3 DEF InWindow, NeverStuck, ClosedIsEmpty, Off

(* A batch is written. *)
LEMMA EmitInv == ASSUME IInv, NEW t \in Threads, Emit(t) PROVE IInv'
<1> USE DEF IInv, Emit, bufVars, histVars
<1>1. /\ pc' \in [Threads -> {"read", "idle", "fired", "emit", "drained", "done"}]
      /\ \A u \in Threads : u # t => pc'[u] = pc[u]
  BY DEF TypeOK
<1>2. pc[Reader] \in {"drained", "done"} => pc'[Reader] \in {"drained", "done"}
  BY DEF TypeOK, Threads
<1>3. batch' \in [Threads -> SUBSET Packets]
  BY DEF TypeOK
<1>4. from' \in [Threads -> 0 .. M - 1]
  BY SizeAssumption DEF TypeOK
<1>5. TypeOK'
  BY <1>1, <1>3, <1>4 DEF TypeOK
<1>6. NeverStuck'
  <2>1. \A u \in Timers : pc[u] = "fired" => pc'[u] = "fired"
    BY <1>1 DEF Threads
  <2> QED BY <2>1 DEF NeverStuck
<1> QED BY <1>2, <1>5, <1>6 DEF InWindow, ClosedIsEmpty, Off

(* The session ends. *)
LEMMA DrainInv == ASSUME IInv, Drain PROVE IInv'
<1> USE DEF IInv, Drain
<1>1. Reader \in Threads /\ Reader \notin Timers
  BY ThreadAssumption DEF Threads
<1>2. nextSeq' \in 0 .. M - 1 /\ front' \in Int
  <2>1. CASE buf = {}
    BY <2>1 DEF TypeOK
  <2>2. CASE buf # {}
    <3>1. PICK p \in buf : nextSeq' = Plus(SeqNo[p], 1) /\ front' = front + Off(p) + 1
      BY <2>2
    <3>2. SeqNo[p] \in 0 .. M - 1
      BY StreamAssumption DEF TypeOK
    <3>3. Off(p) \in 0 .. M - 1
      BY <3>2, SubType DEF Off, TypeOK
    <3>4. nextSeq' \in 0 .. M - 1
      BY <3>1, <3>2, PlusType, SizeAssumption
    <3>5. front' \in Int
      BY <3>1, <3>3, SizeAssumption DEF TypeOK
    <3> QED BY <3>4, <3>5
  <2> QED BY <2>1, <2>2
<1>3. batch' \in [Threads -> SUBSET Packets]
  BY DEF TypeOK
<1>4. from' \in [Threads -> 0 .. M - 1]
  BY DEF TypeOK
<1>5. /\ pc' \in [Threads -> {"read", "idle", "fired", "emit", "drained", "done"}]
      /\ pc'[Reader] = "drained"
  BY <1>1 DEF TypeOK
<1>6. TypeOK'
  BY <1>2, <1>3, <1>4, <1>5 DEF TypeOK
<1> QED BY <1>5, <1>6 DEF InWindow, NeverStuck, ClosedIsEmpty

(* The source changed. *)
LEMMA ResetInv == ASSUME IInv, Reset PROVE IInv'
<1> USE DEF IInv, Reset, ctlVars
<1>1. buf' = {} /\ pc' = pc /\ closed' = closed
  OBVIOUS
<1>2. hasBase' \in BOOLEAN /\ closed' \in BOOLEAN /\ armed' \in BOOLEAN
  BY DEF TypeOK
<1>3. front' \in Int /\ newest' \in Packets \cup {0}
  OBVIOUS
<1>4. TypeOK'
  BY <1>1, <1>2, <1>3 DEF TypeOK
<1>5. InWindow' /\ NeverStuck'
  BY <1>1 DEF InWindow, NeverStuck
<1>6. ClosedIsEmpty'
  BY <1>1 DEF ClosedIsEmpty
<1> QED BY <1>4, <1>5, <1>6

(* A packet behind nextSeq. *)
LEMMA PushOldInv == ASSUME IInv, NEW p \in Packets, PushOld(p) PROVE IInv'
  BY DEF IInv, PushOld, Pushing, TypeOK, InWindow, NeverStuck, ClosedIsEmpty, ctlVars, Off

-----------------------------------------------------------------------------
(* The buffer starts empty. *)
LEMMA InitInv == Init => IInv
<1> SUFFICES ASSUME Init PROVE IInv
  OBVIOUS
<1>1. pc \in [Threads -> {"read", "idle", "fired", "emit", "drained", "done"}]
  BY DEF Init
<1>2. batch \in [Threads -> SUBSET Packets] /\ from \in [Threads -> 0 .. M - 1]
  BY SizeAssumption DEF Init
<1>3. hasBase \in BOOLEAN /\ closed \in BOOLEAN /\ armed \in BOOLEAN
  BY DEF Init
<1>4. buf \subseteq Packets /\ newest \in Packets \cup {0}
  BY DEF Init
<1>5. nextSeq \in 0 .. M - 1 /\ front \in Int
  BY SizeAssumption DEF Init
<1>6. TypeOK
  BY <1>1, <1>2, <1>3, <1>4, <1>5 DEF TypeOK
<1> QED BY <1>6 DEF Init, IInv, InWindow, NeverStuck, ClosedIsEmpty

(* Every step keeps the invariant. *)
LEMMA StepInv == IInv /\ [Next]_vars => IInv'
<1> SUFFICES ASSUME IInv, [Next]_vars PROVE IInv'
  OBVIOUS
<1>1. CASE UNCHANGED vars
  BY <1>1 DEF IInv, vars, bufVars, ctlVars, histVars, TypeOK, InWindow, NeverStuck, ClosedIsEmpty, Off
<1>2. ASSUME NEW p \in Packets, Push(p) PROVE IInv'
  BY <1>2, PushFirstInv, PushNextInv, PushAheadInv, PushFarInv, PushOldInv DEF Push
<1>3. ASSUME NEW t \in Timers, TimerExpires(t) \/ TimerRuns(t) PROVE IInv'
  BY <1>3, TimerExpiresInv, TimerLateInv, TimerFlushInv DEF TimerRuns
<1>4. ASSUME NEW t \in Threads, Emit(t) PROVE IInv'
  BY <1>4, EmitInv
<1> QED BY <1>1, <1>2, <1>3, <1>4, ResetInv, DrainInv DEF Next

(* The invariant holds in every reachable state. *)
THEOREM Invariance == Spec => []IInv
  BY InitInv, StepInv, PTL DEF Spec

(* Type correctness of the reorder buffer. *)
THEOREM TypeCorrect == Spec => []TypeOK
<1>1. IInv => TypeOK
  BY DEF IInv
<1> QED BY <1>1, Invariance, PTL

(* What VideoReorderBuffer holds always lies within one window ahead of
   nextSeq, whatever arrives, in whatever order, wherever the numbers wrap. *)
THEOREM BoundedWindow == Spec => []InWindow
<1>1. IInv => InWindow
  BY DEF IInv
<1> QED BY <1>1, Invariance, PTL

(* No interleaving of pushes with the goroutines of the flush timer leaves a
   packet held with no timer to release it. *)
THEOREM TimerCovers == Spec => []NeverStuck
<1>1. IInv => NeverStuck
  BY DEF IInv
<1> QED BY <1>1, Invariance, PTL

(* So whatever VideoReorderBuffer holds is within reach of nextSeq, and the
   timer or its goroutine will come for it. *)
THEOREM ReachableAndCovered == Spec => []HeldInReach
<1>1. InWindow /\ NeverStuck => HeldInReach
  BY DEF HeldInReach
<1> QED BY <1>1, BoundedWindow, TimerCovers, PTL

-----------------------------------------------------------------------------
(* Numbers and positions *)

(* Division by the number of sequence numbers. *)
LEMMA DivMod ==
  ASSUME NEW x \in Int
  PROVE  x \div M \in Int /\ x % M \in 0 .. M - 1 /\ x = M * (x \div M) + (x % M)
<1>1. M \in Nat /\ M > 0
  BY SizeAssumption
<1>2. x \div M \in Int
  BY <1>1
<1>3. x % M \in 0 .. M - 1
  BY <1>1
<1>4. x = M * (x \div M) + (x % M)
  BY <1>1
<1> QED BY <1>2, <1>3, <1>4

LEMMA ModUnique ==
  ASSUME NEW x \in Int, NEW q \in Int, NEW r \in 0 .. M - 1, x = M * q + r
  PROVE  x % M = r
<1>1. M \in Nat /\ M > 0
  BY SizeAssumption
<1>2. x \div M \in Int /\ x % M \in 0 .. M - 1 /\ x = M * (x \div M) + (x % M)
  BY DivMod
<1> QED BY <1>1, <1>2

(* Counting on by less than a round. *)
LEMMA ModPlus ==
  ASSUME NEW x \in Int, NEW k \in 0 .. M - 1
  PROVE  (x + k) % M = IF (x % M) + k < M THEN (x % M) + k ELSE (x % M) + k - M
<1> DEFINE q == x \div M
           r == x % M
<1>1. q \in Int /\ r \in 0 .. M - 1 /\ x = M * q + r /\ M \in Nat
  BY DivMod, SizeAssumption
<1> HIDE DEF q, r
<1>2. CASE r + k < M
  <2>1. r + k \in 0 .. M - 1 /\ x + k \in Int /\ x + k = M * q + (r + k)
    BY <1>1, <1>2
  <2>2. (x + k) % M = r + k
    BY <1>1, <2>1, ModUnique
  <2> QED BY <1>2, <2>2 DEF r
<1>3. CASE r + k >= M
  <2>1. r + k - M \in 0 .. M - 1 /\ x + k \in Int /\ q + 1 \in Int
    BY <1>1, <1>3
  <2>2. M * (q + 1) = M * q + M
    BY <1>1
  <2>3. x + k = M * (q + 1) + (r + k - M)
    BY <1>1, <2>2
  <2>4. (x + k) % M = r + k - M
    BY <1>1, <2>1, <2>3, ModUnique
  <2> QED BY <1>1, <1>3, <2>4 DEF r
<1>4. k \in Int
  BY SizeAssumption
<1> QED BY <1>1, <1>2, <1>3, <1>4

(* Every packet has the number of its position. *)
LEMMA FirstIsNumber ==
  FirstNumber \in 0 .. M - 1 /\ \A p \in Packets : SeqNo[p] = (p + FirstNumber) % M
  BY CountAssumption DEF FirstNumber

LEMMA PacketNumber == \A p \in Packets : p \in Nat /\ SeqNo[p] = NumberOf(p)
  BY FirstIsNumber, StreamAssumption DEF NumberOf

LEMMA NumberType == ASSUME NEW x \in Int PROVE NumberOf(x) \in 0 .. M - 1
<1> DEFINE s == FirstNumber
<1>1. s \in Int
  BY FirstIsNumber, SizeAssumption
<1> HIDE DEF s
<1>2. x + s \in Int
  BY <1>1
<1>3. (x + s) % M \in 0 .. M - 1
  BY <1>2, DivMod
<1> QED BY <1>3 DEF NumberOf, s

(* The sum of numbers is the number of the sum. *)
LEMMA NumberPlus ==
  ASSUME NEW x \in Int, NEW k \in 0 .. M - 1
  PROVE  NumberOf(x + k) = Plus(NumberOf(x), k)
<1> DEFINE s == FirstNumber
<1>1. s \in Int
  BY FirstIsNumber, SizeAssumption
<1>2. NumberOf(x) = (x + s) % M /\ NumberOf(x + k) = (x + k + s) % M
  BY DEF NumberOf
<1> HIDE DEF s
<1>3. x + s \in Int /\ x + k + s = x + s + k
  BY <1>1, SizeAssumption
<1>4. (x + s + k) % M = IF ((x + s) % M) + k < M THEN ((x + s) % M) + k ELSE ((x + s) % M) + k - M
  BY <1>3, ModPlus
<1> QED BY <1>2, <1>3, <1>4 DEF Plus

(* The difference of two numbers is that of their positions, if these lie
   less than a round apart. *)
LEMMA NumberSub ==
  ASSUME NEW x \in Int, NEW y \in Int, x - y < M, y - x < M
  PROVE  Sub(NumberOf(x), NumberOf(y)) = IF y <= x THEN x - y ELSE x - y + M
<1>1. NumberOf(x) \in 0 .. M - 1 /\ NumberOf(y) \in 0 .. M - 1 /\ M \in Nat
  BY NumberType, SizeAssumption
<1>2. CASE y <= x
  <2>1. x - y \in 0 .. M - 1 /\ x = y + (x - y)
    BY <1>2, SizeAssumption
  <2>2. NumberOf(x) = Plus(NumberOf(y), x - y)
    BY <2>1, NumberPlus
  <2> QED BY <1>1, <1>2, <2>1, <2>2 DEF Plus, Sub
<1>3. CASE x < y
  <2>1. y - x \in 0 .. M - 1 /\ y = x + (y - x)
    BY <1>3, SizeAssumption
  <2>2. NumberOf(y) = Plus(NumberOf(x), y - x)
    BY <2>1, NumberPlus
  <2> QED BY <1>1, <1>3, <2>1, <2>2 DEF Plus, Sub
<1> QED BY <1>2, <1>3

-----------------------------------------------------------------------------
(* Numbers mean positions as long as the network stays calm *)

FInv == IInv /\ Following /\ Fresh /\ Written

(* The types the arithmetic below needs. *)
LEMMA Positions ==
  ASSUME IInv
  PROVE  /\ front \in Int /\ newest \in Nat /\ nextSeq \in 0 .. M - 1 /\ buf \subseteq Packets
         /\ M \in Nat /\ W \in Nat /\ W >= 2 /\ 2 * W <= M
  BY SizeAssumption, StreamAssumption DEF IInv, TypeOK

(* The offset of what is held is its distance from front. *)
LEMMA HeldAt ==
  ASSUME IInv, Following, hasBase, ~closed, NEW p \in buf
  PROVE  Off(p) = p - front /\ p \in Nat /\ 1 <= p - front /\ p - front <= W - 1
<1>1. /\ front \in Int /\ newest \in Nat /\ p \in Packets
      /\ M \in Nat /\ W \in Nat /\ W >= 2 /\ 2 * W <= M
  BY Positions
<1>2. p \in Nat /\ SeqNo[p] = NumberOf(p)
  BY <1>1, PacketNumber
<1>3. nextSeq = NumberOf(front) /\ newest - front <= W - 1 /\ front < p /\ p <= newest
  BY DEF Following
<1>4. Sub(NumberOf(p), NumberOf(front)) = p - front
  BY <1>1, <1>2, <1>3, NumberSub
<1> QED BY <1>1, <1>2, <1>3, <1>4 DEF Off

(* The offset of what a calm network delivers, on either side of front. *)
LEMMA DeliveredAt ==
  ASSUME CalmNetwork, IInv, Following, hasBase, ~closed, NEW p \in Packets, Delivered(p)
  PROVE  /\ p \in Nat /\ SeqNo[p] = NumberOf(p)
         /\ p - front < Half /\ front - p <= Half
         /\ Off(p) = IF front <= p THEN p - front ELSE p - front + M
<1>1. /\ front \in Int /\ newest \in Nat
      /\ M \in Nat /\ W \in Nat /\ W >= 2 /\ 2 * W <= M
  BY Positions
<1>2. p \in Nat /\ SeqNo[p] = NumberOf(p)
  BY PacketNumber
<1>3. nextSeq = NumberOf(front) /\ newest - front <= W - 1 /\ front - 1 <= newest
  BY DEF Following
<1>4. /\ Lag \in Nat /\ Burst \in Nat /\ Lag <= Half /\ W + Burst <= Half
      /\ newest - Lag < p /\ p <= newest + Burst /\ Half \in Nat /\ 2 * Half = M
  BY Halves DEF CalmNetwork, Delivered
<1>5. p - front < Half /\ front - p <= Half
  BY <1>1, <1>2, <1>3, <1>4
<1>6. Sub(NumberOf(p), NumberOf(front)) = IF front <= p THEN p - front ELSE p - front + M
  BY <1>1, <1>2, <1>4, <1>5, NumberSub
<1> QED BY <1>2, <1>3, <1>5, <1>6 DEF Off

(* What lies less than k after the position m, and what lies more. *)
Upto(B, m, k) == {q \in B : q - m < k}
Beyond(B, m, k) == {q \in B : q - m > k}

(* What is held once it has been written from the position m on, with gaps
   only beyond what was written. *)
LEMMA FlushAt ==
  ASSUME IInv, Following, hasBase, ~closed, NEW n \in Nat, newest' = n,
         NEW t \in Threads, NEW B \in SUBSET Packets, NEW m \in Int, NEW S, NEW k \in 0 .. W,
         front <= m, m - front < M, m - 1 <= n, n - m <= W - 1,
         \A q \in B : m <= q /\ q <= n,
         FlushConsecutive(t, B, NumberOf(m), S, k)
  PROVE  /\ Following' /\ front' = m + k
         /\ \A q \in B : Sub(SeqNo[q], NumberOf(m)) = q - m
         /\ \A q \in B : q - m # k
         /\ buf' = Beyond(B, m, k)
         /\ Decide(t, S \cup Upto(B, m, k))
<1>1. /\ front \in Int /\ M \in Nat /\ W \in Nat /\ W >= 2 /\ 2 * W <= M
  BY Positions
<1>2. ASSUME NEW q \in B PROVE q \in Nat /\ SeqNo[q] = NumberOf(q) /\ m <= q /\ q <= n /\ q - m <= W - 1
  <2>1. q \in Nat /\ SeqNo[q] = NumberOf(q)
    BY PacketNumber
  <2>2. m <= q /\ q <= n
    OBVIOUS
  <2> QED BY <1>1, <2>1, <2>2
<1>3. \A q \in B : Sub(SeqNo[q], NumberOf(m)) = q - m
  <2> SUFFICES ASSUME NEW q \in B PROVE Sub(SeqNo[q], NumberOf(m)) = q - m
    OBVIOUS
  <2>1. q \in Int /\ SeqNo[q] = NumberOf(q) /\ q - m < M /\ m - q < M /\ m <= q
    BY <1>1, <1>2
  <2> QED BY <2>1, NumberSub
<1>4. Sub(NumberOf(m), nextSeq) = m - front
  BY <1>1, NumberSub DEF Following
<1>5. front' = m + k
  BY <1>1, <1>4 DEF FlushConsecutive
<1>6. nextSeq' = NumberOf(m + k)
  BY <1>1, NumberPlus DEF FlushConsecutive
<1>7. buf' = Beyond(B, m, k)
  BY <1>3 DEF FlushConsecutive, Beyond
<1>8. \A q \in B : q - m # k
  BY <1>3 DEF FlushConsecutive, GapAt
<1>9. Decide(t, S \cup Upto(B, m, k))
  <2>1. {q \in B : Sub(SeqNo[q], NumberOf(m)) < k} = Upto(B, m, k)
    BY <1>3 DEF Upto
  <2> QED BY <2>1 DEF FlushConsecutive
<1>10. m + k - 1 <= n
  <2>1. CASE k = 0
    BY <2>1
  <2>2. CASE k # 0
    <3>1. PICK q \in B : Sub(SeqNo[q], NumberOf(m)) = k - 1
      BY <1>1, <2>2 DEF FlushConsecutive, GapAt
    <3> QED BY <1>1, <1>2, <1>3, <3>1
  <2> QED BY <2>1, <2>2
<1>11. Following'
  <2>1. nextSeq' = NumberOf(front')
    BY <1>5, <1>6
  <2>2. front' - 1 <= n /\ n - front' <= W - 1
    BY <1>1, <1>5, <1>10
  <2>3. \A q \in buf' : front' < q /\ q <= n
    BY <1>1, <1>2, <1>5, <1>7 DEF Beyond
  <2> QED BY <2>1, <2>2, <2>3 DEF Following
<1> QED BY <1>3, <1>5, <1>7, <1>8, <1>9, <1>11

(* The packet that was waited for stands at front. *)
LEMMA PushNextAt ==
  ASSUME CalmNetwork, FInv, NEW p \in Packets, NEW k \in 0 .. W, PushNext(p, k)
  PROVE  /\ Following' /\ p = front /\ front' = front + k
         /\ k > 0 /\ Decide(Reader, Upto(buf \cup {p}, front, k))
<1>1. pc[Reader] = "read" /\ Delivered(p) /\ hasBase /\ Off(p) = 0
  BY DEF PushNext, Pushing
<1>2. IInv /\ Following /\ ~closed
  BY <1>1 DEF FInv, IInv, ClosedIsEmpty
<1>3. /\ front \in Int /\ newest \in Nat /\ buf \subseteq Packets
      /\ M \in Nat /\ W \in Nat /\ W >= 2 /\ 2 * W <= M
  BY <1>2, Positions
<1>4. p \in Nat /\ p = front
  <2>1. /\ p \in Nat /\ p - front < Half /\ front - p <= Half
        /\ Off(p) = IF front <= p THEN p - front ELSE p - front + M
    BY <1>1, <1>2, DeliveredAt
  <2> QED BY <1>1, <1>3, <2>1, Halves
<1>5. newest' = IF p > newest THEN p ELSE newest
  BY DEF PushNext, Pushing
<1>6. nextSeq = NumberOf(front) /\ front - 1 <= newest /\ newest - front <= W - 1
      /\ \A q \in buf : front < q /\ q <= newest
  BY <1>1, <1>2 DEF Following
<1>7. FlushConsecutive(Reader, buf \cup {p}, NumberOf(front), {}, k)
  BY <1>6 DEF PushNext
<1>8. newest' \in Nat /\ front - 1 <= newest' /\ newest' - front <= W - 1
  BY <1>3, <1>4, <1>5, <1>6
<1>9. \A q \in buf \cup {p} : front <= q /\ q <= newest'
  <2>1. ASSUME NEW q \in buf PROVE front <= q /\ q <= newest'
    BY <1>3, <1>4, <1>5, <1>6, StreamAssumption
  <2> QED BY <1>3, <1>4, <1>5, <2>1
<1>10. Reader \in Threads /\ buf \cup {p} \in SUBSET Packets /\ front - front < M /\ front <= front
  BY <1>3 DEF Threads
<1>11. /\ Following' /\ front' = front + k
       /\ \A q \in buf \cup {p} : q - front # k
       /\ Decide(Reader, {} \cup Upto(buf \cup {p}, front, k))
  <2> DEFINE B == buf \cup {p}
  <2>1. FlushConsecutive(Reader, B, NumberOf(front), {}, k) /\ B \in SUBSET Packets
    BY <1>7, <1>10
  <2>2. PICK n \in Nat : n = newest'
    BY <1>8
  <2>3. front - 1 <= n /\ n - front <= W - 1 /\ \A q \in B : front <= q /\ q <= n
    BY <1>8, <1>9, <2>2
  <2> HIDE DEF B
  <2>4. /\ p \in Int /\ front <= p /\ p - front < M /\ p - 1 <= n /\ n - p <= W - 1 /\ n \in Nat
        /\ \A q \in B : p <= q /\ q <= n
    <3>1. \A q \in B : p <= q /\ q <= n
      BY <1>4, <2>3, Zenon
    <3>2. p - 1 <= n /\ n - p <= W - 1
      BY <1>4, <2>3, Zenon
    <3>3. p \in Int /\ front <= p /\ p - front < M /\ n \in Nat
      BY <1>3, <1>4, <2>2
    <3> QED BY <3>1, <3>2, <3>3
  <2>5. FlushConsecutive(Reader, B, NumberOf(p), {}, k) /\ newest' = n
    BY <1>4, <2>1, <2>2
  <2>6. /\ Following' /\ front' = p + k
        /\ \A q \in B : q - p # k
        /\ Decide(Reader, {} \cup Upto(B, p, k))
    BY <1>1, <1>2, <1>3, <1>10, <2>1, <2>4, <2>5, FlushAt, StreamAssumption
  <2> QED BY <1>4, <2>6 DEF B
<1>12. k > 0
  BY <1>3, <1>4, <1>11
<1> QED BY <1>4, <1>11, <1>12

(* A packet too far ahead: the buffer moves on to half a window behind it. *)
LEMMA PushFarAt ==
  ASSUME CalmNetwork, FInv, NEW p \in Packets, NEW k \in 0 .. W, PushFar(p, k)
  PROVE  \E m \in Int :
           /\ Following' /\ front' = m + k /\ front <= m /\ m < p /\ p \in Nat
           /\ p - front < Half
           /\ LET rest == {q \in buf : q >= m}
                  B == IF Held(SeqNo[p]) THEN rest ELSE rest \cup {p}
              IN /\ buf' = Beyond(B, m, k)
                 /\ \A q \in B : q - m # k
                 /\ Decide(Reader, {q \in buf : q < m} \cup Upto(B, m, k))
<1> DEFINE h == W \div 2
           m == p - h
           rest == {q \in buf : q >= m}
           B == IF Held(SeqNo[p]) THEN rest ELSE rest \cup {p}
<1>1. pc[Reader] = "read" /\ Delivered(p) /\ hasBase /\ Off(p) < Half /\ ~InReach(Off(p))
  BY DEF PushFar, Pushing
<1>2. IInv /\ Following /\ ~closed
  BY <1>1 DEF FInv, IInv, ClosedIsEmpty
<1>3. /\ front \in Int /\ newest \in Nat /\ buf \subseteq Packets
      /\ M \in Nat /\ W \in Nat /\ W >= 2 /\ 2 * W <= M
  BY <1>2, Positions
<1>4. h \in 1 .. W - 1 /\ Half \in Nat /\ 2 * Half = M
  BY Halves
<1> HIDE DEF h
<1>5. p \in Nat /\ SeqNo[p] = NumberOf(p) /\ W <= p - front /\ p - front < Half
  <2>1. /\ p \in Nat /\ SeqNo[p] = NumberOf(p) /\ p - front < Half /\ front - p <= Half
        /\ Off(p) = IF front <= p THEN p - front ELSE p - front + M
    BY <1>1, <1>2, DeliveredAt
  <2> QED BY <1>1, <1>3, <1>4, <2>1 DEF InReach
<1>6. nextSeq = NumberOf(front) /\ front - 1 <= newest /\ newest - front <= W - 1
      /\ \A q \in buf : front < q /\ q <= newest
  BY <1>1, <1>2 DEF Following
<1>7. newest' = p
  BY <1>3, <1>5, <1>6 DEF PushFar, Pushing
<1>8. m \in Int /\ front <= m /\ m < p /\ m - front < M /\ m - 1 <= newest' /\ newest' - m <= W - 1
  BY <1>3, <1>4, <1>5, <1>7
<1>9. Sub(SeqNo[p], h) = NumberOf(m)
  <2>1. p = m + h /\ h \in 0 .. M - 1
    BY <1>3, <1>4, <1>5
  <2>2. SeqNo[p] = Plus(NumberOf(m), h) /\ NumberOf(m) \in 0 .. M - 1
    BY <1>5, <1>8, <2>1, NumberPlus, NumberType
  <2> QED BY <1>3, <1>4, <2>2 DEF Plus, Sub
<1>10. Sub(NumberOf(m), nextSeq) = m - front
  BY <1>3, <1>6, <1>8, NumberSub
<1> HIDE DEF m
<1>11. \A q \in buf : Off(q) = q - front /\ q \in Nat
  BY <1>1, <1>2, HeldAt
<1>12. {q \in buf : Off(q) >= m - front} = rest /\ {q \in buf : Off(q) < m - front} = {q \in buf : q < m}
  BY <1>3, <1>8, <1>11
<1>13. FlushConsecutive(Reader, B, NumberOf(m), {q \in buf : q < m}, k)
  BY <1>9, <1>10, <1>12 DEF PushFar, h
<1>14. \A q \in B : m <= q /\ q <= newest'
  <2>1. ASSUME NEW q \in rest PROVE m <= q /\ q <= newest'
    BY <1>3, <1>5, <1>6, <1>7, <1>8, <1>11
  <2> QED BY <1>5, <1>7, <1>8, <2>1
<1>15. Reader \in Threads /\ B \in SUBSET Packets /\ newest' \in Nat
  BY <1>3, <1>5, <1>7 DEF Threads
<1> HIDE DEF B
<1>16. /\ Following' /\ front' = m + k
       /\ \A q \in B : q - m # k
       /\ buf' = Beyond(B, m, k)
       /\ Decide(Reader, {q \in buf : q < m} \cup Upto(B, m, k))
  <2> DEFINE S == {q \in buf : q < m}
  <2>1. FlushConsecutive(Reader, B, NumberOf(m), S, k)
    BY <1>13
  <2>2. m \in Int /\ front <= m /\ m - front < M /\ m - 1 <= p /\ p - m <= W - 1 /\ p \in Nat
    BY <1>5, <1>7, <1>8
  <2>3. \A q \in B : m <= q /\ q <= p
    BY <1>7, <1>14
  <2> HIDE DEF S
  <2>4. /\ Following' /\ front' = m + k
        /\ \A q \in B : q - m # k
        /\ buf' = Beyond(B, m, k)
        /\ Decide(Reader, S \cup Upto(B, m, k))
    BY <1>1, <1>2, <1>7, <1>15, <2>1, <2>2, <2>3, FlushAt
  <2> QED BY <2>4 DEF S
<1> QED BY <1>5, <1>8, <1>16 DEF B

(* The timer skips to the oldest packet held. *)
LEMMA TimerFlushAt ==
  ASSUME FInv, NEW t \in Timers, NEW p \in Packets, NEW k \in 0 .. W, TimerFlush(t, p, k)
  PROVE  /\ Following' /\ p \in buf /\ front' = p + k /\ front <= p
         /\ \A q \in buf : p <= q
         /\ Decide(t, Upto(buf, p, k))
<1>1. ~closed /\ p \in buf /\ Off(p) < Half /\ \A q \in Ahead : ~Before(SeqNo[q], SeqNo[p])
  BY DEF TimerFlush, Ahead
<1>2. IInv /\ Following /\ hasBase
  BY <1>1 DEF FInv, IInv, InWindow
<1>3. /\ front \in Int /\ newest \in Nat /\ buf \subseteq Packets
      /\ M \in Nat /\ W \in Nat /\ W >= 2 /\ 2 * W <= M
  BY <1>2, Positions
<1>4. \A q \in buf : Off(q) = q - front /\ q \in Nat /\ 1 <= q - front /\ q - front <= W - 1
  BY <1>1, <1>2, HeldAt
<1>5. \A q \in buf : SeqNo[q] = NumberOf(q)
  BY <1>3, PacketNumber
<1>6. \A q \in buf : p <= q
  <2> SUFFICES ASSUME NEW q \in buf, q < p PROVE FALSE
    BY <1>1, <1>4
  <2>1. p \in Nat /\ q \in Nat /\ p - q < W /\ q \in Ahead
    BY <1>1, <1>3, <1>4, Halves DEF Ahead
  <2>2. Sub(SeqNo[p], SeqNo[q]) = p - q
    BY <1>1, <1>3, <1>5, <2>1, NumberSub
  <2> QED BY <1>1, <1>3, <2>1, <2>2, Halves DEF Before
<1>7. nextSeq = NumberOf(front) /\ front - 1 <= newest /\ newest - front <= W - 1
      /\ \A q \in buf : front < q /\ q <= newest
  BY <1>1, <1>2 DEF Following
<1>8. newest' = newest /\ FlushConsecutive(t, buf, NumberOf(p), {}, k)
  BY <1>1, <1>5 DEF TimerFlush
<1>9. p \in Int /\ front <= p /\ p - front < M /\ p - 1 <= newest' /\ newest' - p <= W - 1
  BY <1>1, <1>3, <1>4, <1>7, <1>8
<1>10. \A q \in buf : p <= q /\ q <= newest'
  BY <1>6, <1>7, <1>8
<1>11. t \in Threads /\ buf \in SUBSET Packets /\ newest' \in Nat
  BY <1>3, <1>8 DEF Threads
<1>12. /\ Following' /\ front' = p + k
       /\ Decide(t, {} \cup Upto(buf, p, k))
  BY <1>1, <1>2, <1>8, <1>9, <1>10, <1>11, FlushAt
<1> QED BY <1>1, <1>6, <1>9, <1>12

(* The first packet of a source sets the base. *)
LEMMA PushFirstAt == ASSUME FInv, NEW p \in Packets, PushFirst(p) PROVE Following'
<1>1. ~hasBase /\ newest = 0 /\ buf = {}
  BY DEF FInv, PushFirst, Fresh, IInv, InWindow
<1>2. p \in Nat /\ SeqNo[p] = NumberOf(p) /\ M \in Nat /\ W \in Nat /\ W >= 2 /\ 2 * W <= M
  BY PacketNumber, SizeAssumption
<1>3. newest' = p /\ front' = p + 1 /\ buf' = {}
  BY <1>1, <1>2 DEF PushFirst, Pushing
<1>4. 1 \in 0 .. M - 1 /\ p \in Int
  BY <1>2
<1>5. nextSeq' = NumberOf(p + 1)
  BY <1>2, <1>4, NumberPlus DEF PushFirst
<1> QED BY <1>2, <1>3, <1>5 DEF Following

(* A packet that is held for what is missing. *)
LEMMA PushAheadAt == ASSUME CalmNetwork, FInv, NEW p \in Packets, PushAhead(p) PROVE Following'
<1>1. pc[Reader] = "read" /\ Delivered(p) /\ hasBase /\ Off(p) # 0 /\ Off(p) < Half /\ Off(p) < W
  BY DEF PushAhead, Pushing, InReach
<1>2. IInv /\ Following /\ ~closed
  BY <1>1 DEF FInv, IInv, ClosedIsEmpty
<1>3. /\ front \in Int /\ newest \in Nat /\ buf \subseteq Packets
      /\ M \in Nat /\ W \in Nat /\ W >= 2 /\ 2 * W <= M
  BY <1>2, Positions
<1>4. p \in Nat /\ front < p /\ p - front < W
  <2>1. /\ p \in Nat /\ p - front < Half /\ front - p <= Half
        /\ Off(p) = IF front <= p THEN p - front ELSE p - front + M
    BY <1>1, <1>2, DeliveredAt
  <2> QED BY <1>1, <1>3, <2>1, Halves
<1>5. nextSeq = NumberOf(front) /\ front - 1 <= newest /\ newest - front <= W - 1
      /\ \A q \in buf : front < q /\ q <= newest
  BY <1>1, <1>2 DEF Following
<1>6. /\ newest' = IF p > newest THEN p ELSE newest
      /\ nextSeq' = nextSeq /\ front' = front /\ buf' \subseteq buf \cup {p}
  BY DEF PushAhead, Pushing
<1>7. front' - 1 <= newest' /\ newest' - front' <= W - 1
  BY <1>3, <1>4, <1>5, <1>6
<1>8. ASSUME NEW q \in buf' PROVE front' < q /\ q <= newest'
  <2>1. CASE q = p
    BY <1>3, <1>4, <1>6, <2>1
  <2>2. CASE q \in buf
    BY <1>3, <1>4, <1>5, <1>6, <2>2, StreamAssumption
  <2> QED BY <1>6, <2>1, <2>2
<1> QED BY <1>5, <1>6, <1>7, <1>8 DEF Following

(* A packet that comes too late changes nothing. *)
LEMMA PushOldAt ==
  ASSUME CalmNetwork, FInv, NEW p \in Packets, PushOld(p) PROVE p < front /\ Following'
<1>1. pc[Reader] = "read" /\ Delivered(p) /\ hasBase /\ Off(p) >= Half
  BY DEF PushOld, Pushing
<1>2. IInv /\ Following /\ ~closed
  BY <1>1 DEF FInv, IInv, ClosedIsEmpty
<1>3. front \in Int /\ newest \in Nat /\ M \in Nat
  BY <1>2, Positions
<1>4. p \in Nat /\ p < front
  <2>1. /\ p \in Nat /\ p - front < Half /\ front - p <= Half
        /\ Off(p) = IF front <= p THEN p - front ELSE p - front + M
    BY <1>1, <1>2, DeliveredAt
  <2> QED BY <1>1, <1>3, <2>1, Halves
<1>5. newest' = newest
  BY <1>1, <1>2, <1>3, <1>4 DEF PushOld, Pushing, Following
<1> QED BY <1>1, <1>2, <1>4, <1>5 DEF PushOld, Following

(* Every step keeps front what nextSeq stands for. *)
LEMMA FollowingStep == ASSUME CalmNetwork, FInv, [Next]_vars PROVE Following'
<1>1. CASE UNCHANGED vars
  BY <1>1 DEF vars, bufVars, ctlVars, histVars, FInv, Following
<1>2. ASSUME NEW p \in Packets, Push(p) PROVE Following'
  BY <1>2, PushFirstAt, PushNextAt, PushAheadAt, PushFarAt, PushOldAt DEF Push
<1>3. CASE Reset
  BY <1>3 DEF Reset, Following
<1>4. CASE Drain
  BY <1>4 DEF Drain, Following
<1>5. ASSUME NEW t \in Timers, TimerExpires(t) PROVE Following'
  BY <1>5 DEF TimerExpires, histVars, FInv, Following
<1>6. ASSUME NEW t \in Timers, TimerRuns(t) PROVE Following'
  <2>1. CASE TimerLate(t)
    BY <2>1 DEF TimerLate, histVars, FInv, Following
  <2> QED BY <1>6, <2>1, TimerFlushAt DEF TimerRuns
<1>7. ASSUME NEW t \in Threads, Emit(t) PROVE Following'
  BY <1>7 DEF Emit, bufVars, histVars, FInv, Following
<1> QED BY <1>1, <1>2, <1>3, <1>4, <1>5, <1>6, <1>7 DEF Next

(* A new source begins anew. *)
LEMMA FreshStep == ASSUME FInv, [Next]_vars PROVE Fresh'
<1> USE DEF FInv, Fresh
<1>1. CASE UNCHANGED vars
  BY <1>1 DEF vars, bufVars, histVars
<1>2. ASSUME NEW p \in Packets, Push(p) PROVE Fresh'
  <2>1. hasBase'
    <3>1. PushFirst(p) => hasBase'
      BY DEF PushFirst
    <3>2. PushAhead(p) \/ PushOld(p) => hasBase'
      BY DEF PushAhead, PushOld
    <3>3. ASSUME NEW k \in 0 .. W, PushNext(p, k) \/ PushFar(p, k) PROVE hasBase'
      BY <3>3 DEF PushNext, PushFar
    <3> QED BY <1>2, <3>1, <3>2, <3>3 DEF Push
  <2> QED BY <2>1
<1>3. CASE Reset \/ Drain
  BY <1>3 DEF Reset, Drain
<1>4. ASSUME NEW t \in Timers, TimerExpires(t) \/ TimerRuns(t) PROVE Fresh'
  BY <1>4 DEF TimerExpires, TimerRuns, TimerLate, TimerFlush, histVars
<1>5. ASSUME NEW t \in Threads, Emit(t) PROVE Fresh'
  BY <1>5 DEF Emit, bufVars, histVars
<1> QED BY <1>1, <1>2, <1>3, <1>4, <1>5 DEF Next

LEMMA DecideWritten ==
  ASSUME IInv, Written, NEW t \in Threads, NEW S, Decide(t, S) PROVE Written'
  BY DEF Decide, Written, IInv, TypeOK

(* Who has decided writes before he decides again. *)
LEMMA WrittenStep == ASSUME FInv, [Next]_vars PROVE Written'
<1>0. IInv /\ Written /\ Reader \in Threads /\ Timers \subseteq Threads
  BY DEF FInv, Threads
<1>1. CASE UNCHANGED vars
  BY <1>0, <1>1 DEF vars, ctlVars, Written
<1>2. ASSUME NEW p \in Packets, Push(p) PROVE Written'
  <2>1. CASE PushAhead(p) \/ PushOld(p)
    BY <1>0, <2>1 DEF PushAhead, PushOld, ctlVars, Written
  <2>2. CASE PushFirst(p)
    BY <1>0, <2>2, DecideWritten DEF PushFirst
  <2>3. ASSUME NEW k \in 0 .. W, PushNext(p, k) \/ PushFar(p, k) PROVE Written'
    BY <1>0, <2>3, DecideWritten DEF PushNext, PushFar, FlushConsecutive
  <2> QED BY <1>2, <2>1, <2>2, <2>3 DEF Push
<1>3. CASE Reset
  BY <1>0, <1>3 DEF Reset, ctlVars, Written
<1>4. CASE Drain
  BY <1>0, <1>4 DEF Drain, Written, IInv, TypeOK
<1>5. ASSUME NEW t \in Timers, TimerExpires(t) \/ TimerLate(t) PROVE Written'
  BY <1>0, <1>5 DEF TimerExpires, TimerLate, Written, IInv, TypeOK
<1>6. ASSUME NEW t \in Timers, NEW p \in Packets, NEW k \in 0 .. W, TimerFlush(t, p, k) PROVE Written'
  BY <1>0, <1>6, DecideWritten DEF TimerFlush, FlushConsecutive
<1>7. ASSUME NEW t \in Threads, Emit(t) PROVE Written'
  BY <1>0, <1>7 DEF Emit, Written, IInv, TypeOK
<1> QED BY <1>1, <1>2, <1>3, <1>4, <1>5, <1>6, <1>7 DEF Next, TimerRuns

LEMMA FInvStep == CalmNetwork /\ FInv /\ [Next]_vars => FInv'
<1> SUFFICES ASSUME CalmNetwork, FInv, [Next]_vars PROVE FInv'
  OBVIOUS
<1>1. IInv'
  BY StepInv DEF FInv
<1> QED BY <1>1, FollowingStep, FreshStep, WrittenStep DEF FInv

LEMMA FInvInit == Init => FInv
  BY InitInv DEF Init, FInv, Following, Fresh, Written

THEOREM CalmInvariance == CalmNetwork => (Spec => []FInv)
<1> SUFFICES ASSUME CalmNetwork PROVE Spec => []FInv
  OBVIOUS
<1>1. FInv /\ [Next]_vars => FInv'
  BY FInvStep
<1> QED BY FInvInit, <1>1, PTL DEF Spec

(* uint16 differences in Push, forceFlushToLocked and timeoutFlush mean what
   they would mean if the numbers did not wrap, for every number of numbers,
   window and stream, however long, as long as the network delays a packet by
   at most half the numbers and loses at most so many in a row. *)
THEOREM NumbersMeanPositions == CalmNetwork => (Spec => []WrapFaithful)
<1>1. FInv => WrapFaithful
  BY HeldAt DEF FInv, WrapFaithful
<1> SUFFICES ASSUME CalmNetwork PROVE Spec => []WrapFaithful
  OBVIOUS
<1>2. Spec => []FInv
  BY CalmInvariance
<1> QED BY <1>1, <1>2, PTL

-----------------------------------------------------------------------------
(* What is decided *)

(* S lies between the old front and the new one, and the offsets from nextSeq
   order it as the source did. *)
InOrder(S) ==
  \A p, q \in S :
    /\ hasBase => front <= p
    /\ p < front'
    /\ p < q <=> Sub(SeqNo[p], nextSeq) < Sub(SeqNo[q], nextSeq)

(* Whatever lies from front on, less than half the numbers away, has its
   distance as its offset. *)
LEMMA OffsetsOrder ==
  ASSUME IInv, Following, hasBase, ~closed, NEW S \in SUBSET Packets, NEW n \in Int,
         \A p \in S : front <= p /\ p - front < Half /\ p < n, front' = n
  PROVE  InOrder(S)
<1>1. /\ front \in Int /\ M \in Nat /\ Half \in Nat /\ 2 * Half = M
  BY Positions, Halves
<1>2. ASSUME NEW p \in S PROVE p \in Nat /\ Sub(SeqNo[p], nextSeq) = p - front
  <2>1. p \in Nat /\ SeqNo[p] = NumberOf(p)
    BY PacketNumber
  <2>2. nextSeq = NumberOf(front) /\ front <= p /\ p - front < M
    BY <1>1, <2>1 DEF Following
  <2> QED BY <1>1, <2>1, <2>2, NumberSub
<1> SUFFICES ASSUME NEW p \in S, NEW q \in S
             PROVE  /\ front <= p /\ p < n
                    /\ p < q <=> Sub(SeqNo[p], nextSeq) < Sub(SeqNo[q], nextSeq)
  BY DEF InOrder
<1>3. p \in Nat /\ q \in Nat /\ Sub(SeqNo[p], nextSeq) = p - front /\ Sub(SeqNo[q], nextSeq) = q - front
  BY <1>2
<1> QED BY <1>1, <1>3

(* A decision that is in order keeps DecidedInOrder. *)
LEMMA DecideInOrder ==
  ASSUME IInv, NEW t \in Threads, NEW S, Decide(t, S), InOrder(S)
  PROVE  \A u \in Threads : batch'[u] # {} /\ batch'[u] # batch[u] =>
           \A p, q \in batch'[u] :
              /\ hasBase => front <= p
              /\ p < front'
              /\ p < q <=> Sub(SeqNo[p], from'[u]) < Sub(SeqNo[q], from'[u])
<1> SUFFICES ASSUME NEW u \in Threads, batch'[u] # batch[u]
             PROVE  \A p, q \in batch'[u] :
                      /\ hasBase => front <= p
                      /\ p < front'
                      /\ p < q <=> Sub(SeqNo[p], from'[u]) < Sub(SeqNo[q], from'[u])
  OBVIOUS
<1>1. batch' = [batch EXCEPT ![t] = S] /\ from' = [from EXCEPT ![t] = nextSeq]
  BY DEF Decide
<1>2. u = t /\ batch'[u] = S /\ from'[u] = nextSeq
  BY <1>1 DEF IInv, TypeOK
<1> QED BY <1>2 DEF InOrder

(* Every decision is in order. *)
LEMMA DecisionsInOrder ==
  ASSUME CalmNetwork, FInv, [Next]_vars
  PROVE  \A u \in Threads : batch'[u] # {} /\ batch'[u] # batch[u] =>
           \A p, q \in batch'[u] :
              /\ hasBase => front <= p
              /\ p < front'
              /\ p < q <=> Sub(SeqNo[p], from'[u]) < Sub(SeqNo[q], from'[u])
<1> DEFINE Good == \A u \in Threads : batch'[u] # {} /\ batch'[u] # batch[u] =>
                     \A p, q \in batch'[u] :
                        /\ hasBase => front <= p
                        /\ p < front'
                        /\ p < q <=> Sub(SeqNo[p], from'[u]) < Sub(SeqNo[q], from'[u])
<1>0. /\ IInv /\ Following /\ Reader \in Threads /\ Timers \subseteq Threads
      /\ front \in Int /\ newest \in Nat /\ buf \subseteq Packets
      /\ M \in Nat /\ W \in Nat /\ W >= 2 /\ 2 * W <= M /\ Half \in Nat /\ W <= Half
  BY Positions, Halves DEF FInv, Threads
<1>1. CASE UNCHANGED batch
  BY <1>1
<1>2. ASSUME NEW p \in Packets, PushFirst(p) PROVE Good
  <2>1. p \in Nat /\ SeqNo[p] \in 0 .. M - 1 /\ nextSeq \in 0 .. M - 1
    BY <1>0, StreamAssumption DEF IInv, TypeOK
  <2>2. Sub(SeqNo[p], nextSeq) \in 0 .. M - 1
    BY <2>1, SubType
  <2>3. ~hasBase /\ front' = p + 1
    BY <1>2 DEF PushFirst
  <2>4. InOrder({p})
    BY <1>0, <2>1, <2>2, <2>3 DEF InOrder
  <2> QED BY <1>0, <1>2, <2>4, DecideInOrder DEF PushFirst
<1>3. ASSUME NEW p \in Packets, NEW k \in 0 .. W, PushNext(p, k) PROVE Good
  <2>1. hasBase /\ ~closed
    BY <1>0, <1>3 DEF PushNext, Pushing, IInv, ClosedIsEmpty
  <2>2. p = front /\ front' = front + k /\ k > 0 /\ Decide(Reader, Upto(buf \cup {p}, front, k))
    BY <1>3, PushNextAt
  <2>3. \A q \in buf : q \in Nat /\ 1 <= q - front /\ q - front <= W - 1
    BY <1>0, <2>1, HeldAt
  <2>4. \A q \in Upto(buf \cup {p}, front, k) : front <= q /\ q - front < Half /\ q < front + k
    BY <1>0, <2>2, <2>3 DEF Upto
  <2>5. Upto(buf \cup {p}, front, k) \in SUBSET Packets /\ front + k \in Int
    BY <1>0 DEF Upto
  <2>6. InOrder(Upto(buf \cup {p}, front, k))
    BY <1>0, <2>1, <2>2, <2>4, <2>5, OffsetsOrder
  <2> QED BY <1>0, <2>2, <2>6, DecideInOrder
<1>4. ASSUME NEW p \in Packets, NEW k \in 0 .. W, PushFar(p, k) PROVE Good
  <2>1. hasBase /\ ~closed
    BY <1>0, <1>4 DEF PushFar, Pushing, IInv, ClosedIsEmpty
  <2>2. PICK m \in Int :
          /\ front' = m + k /\ front <= m /\ m < p /\ p \in Nat /\ p - front < Half
          /\ LET rest == {q \in buf : q >= m}
                 B == IF Held(SeqNo[p]) THEN rest ELSE rest \cup {p}
             IN Decide(Reader, {q \in buf : q < m} \cup Upto(B, m, k))
    BY <1>4, PushFarAt
  <2> DEFINE rest == {q \in buf : q >= m}
             B == IF Held(SeqNo[p]) THEN rest ELSE rest \cup {p}
             S == {q \in buf : q < m} \cup Upto(B, m, k)
  <2>3. \A q \in buf : q \in Nat /\ 1 <= q - front /\ q - front <= W - 1
    BY <1>0, <2>1, HeldAt
  <2>4. ASSUME NEW q \in S PROVE front <= q /\ q - front < Half /\ q < m + k
    <3>1. (q \in buf /\ q < m) \/ (q \in B /\ q - m < k)
      BY <2>4 DEF Upto
    <3>2. (q \in buf \/ q = p) /\ (q < m \/ q - m < k)
      BY <3>1
    <3>3. q \in Nat /\ front <= q /\ q - front < Half
      BY <1>0, <2>2, <2>3, <3>2
    <3> QED BY <1>0, <2>2, <3>2, <3>3
  <2>5. S \in SUBSET Packets /\ m + k \in Int
    <3>1. B \in SUBSET Packets
      BY <1>0
    <3>2. {q \in buf : q < m} \subseteq Packets
      BY <1>0
    <3> HIDE DEF B
    <3>3. Upto(B, m, k) \subseteq Packets
      BY <3>1 DEF Upto
    <3>4. m + k \in Int
      BY <1>0, <2>2
    <3> QED BY <3>2, <3>3, <3>4
  <2>6. Decide(Reader, S) /\ front' = m + k
    BY <2>2
  <2> HIDE DEF S
  <2>7. InOrder(S)
    BY <1>0, <2>1, <2>4, <2>5, <2>6, OffsetsOrder
  <2> QED BY <1>0, <2>6, <2>7, DecideInOrder
<1>5. ASSUME NEW t \in Timers, NEW p \in Packets, NEW k \in 0 .. W, TimerFlush(t, p, k) PROVE Good
  <2>1. ~closed /\ p \in buf
    BY <1>5 DEF TimerFlush, Ahead
  <2>2. hasBase
    BY <1>0, <2>1 DEF IInv, InWindow
  <2>3. front' = p + k /\ front <= p /\ (\A q \in buf : p <= q) /\ Decide(t, Upto(buf, p, k))
    BY <1>5, TimerFlushAt DEF FInv
  <2>4. \A q \in buf : q \in Nat /\ 1 <= q - front /\ q - front <= W - 1
    BY <1>0, <2>1, <2>2, HeldAt
  <2>5. \A q \in Upto(buf, p, k) : front <= q /\ q - front < Half /\ q < p + k
    BY <1>0, <2>1, <2>3, <2>4 DEF Upto
  <2>6. Upto(buf, p, k) \in SUBSET Packets /\ p + k \in Int
    BY <1>0, <2>1, <2>4 DEF Upto
  <2>7. InOrder(Upto(buf, p, k))
    BY <1>0, <2>1, <2>2, <2>3, <2>5, <2>6, OffsetsOrder
  <2> QED BY <1>0, <2>3, <2>7, DecideInOrder
<1>6. CASE Drain
  <2>1. ~closed /\ batch' = [batch EXCEPT ![Reader] = buf] /\ from' = [from EXCEPT ![Reader] = nextSeq]
    BY <1>6 DEF Drain
  <2>2. SUFFICES ASSUME buf # {} PROVE Good
    BY <1>0, <2>1 DEF IInv, TypeOK
  <2>3. hasBase
    BY <1>0, <2>2 DEF IInv, InWindow
  <2>4. PICK p \in buf : (\A q \in buf : Off(q) <= Off(p)) /\ front' = front + Off(p) + 1
    BY <1>6, <2>2 DEF Drain
  <2>5. \A q \in buf : Off(q) = q - front /\ q \in Nat /\ 1 <= q - front /\ q - front <= W - 1
    BY <1>0, <2>1, <2>3, HeldAt
  <2>6. front' = p + 1 /\ p + 1 \in Int /\ p \in Nat
    BY <1>0, <2>4, <2>5
  <2>7. \A q \in buf : front <= q /\ q - front < Half /\ q < p + 1
    BY <1>0, <2>4, <2>5
  <2>8. InOrder(buf)
    BY <1>0, <2>1, <2>3, <2>6, <2>7, OffsetsOrder
  <2>9. \A u \in Threads : batch'[u] # batch[u] => u = Reader /\ batch'[u] = buf /\ from'[u] = nextSeq
    BY <1>0, <2>1 DEF IInv, TypeOK
  <2> QED BY <2>8, <2>9 DEF InOrder
<1>7. ASSUME NEW t \in Threads, Emit(t) PROVE Good
  BY <1>0, <1>7 DEF Emit, IInv, TypeOK
<1>8. CASE Reset \/ (\E p \in Packets : PushAhead(p) \/ PushOld(p))
         \/ (\E t \in Timers : TimerExpires(t) \/ TimerLate(t)) \/ UNCHANGED vars
  BY <1>1, <1>8 DEF Reset, PushAhead, PushOld, TimerExpires, TimerLate, vars, ctlVars
<1> QED
  BY <1>2, <1>3, <1>4, <1>5, <1>6, <1>7, <1>8 DEF Next, Push, TimerRuns

(* A packet that the buffer neither keeps nor decides on was passed, or is
   held already. *)
LEMMA OnlyOld ==
  ASSUME CalmNetwork, FInv, hasBase, UNCHANGED <<buf, batch>>, NEW p \in Packets, Push(p)
  PROVE  p < front \/ p \in buf
<1>0. /\ IInv /\ Following /\ Reader \in Threads
      /\ front \in Int /\ newest \in Nat /\ buf \subseteq Packets
      /\ M \in Nat /\ W \in Nat /\ W >= 2 /\ 2 * W <= M /\ Half \in Nat /\ 2 * Half = M /\ W <= Half
  BY Positions, Halves DEF FInv, Threads
<1>1. pc[Reader] = "read" /\ Delivered(p)
  BY DEF Push, Pushing, PushFirst, PushNext, PushAhead, PushFar, PushOld
<1>2. ~closed /\ batch[Reader] = {}
  BY <1>0, <1>1 DEF FInv, Written, IInv, ClosedIsEmpty
<1>3. /\ p \in Nat /\ p - front < Half /\ front - p <= Half
      /\ Off(p) = IF front <= p THEN p - front ELSE p - front + M
  BY <1>0, <1>1, <1>2, DeliveredAt
<1>4. ASSUME Held(SeqNo[p]), Off(p) < Half PROVE p \in buf
  <2>1. PICK q \in buf : SeqNo[q] = SeqNo[p]
    BY <1>4 DEF Held
  <2>2. Off(q) = q - front /\ q \in Nat
    BY <1>0, <1>2, HeldAt
  <2>3. Off(q) = Off(p) /\ front <= p
    BY <1>0, <1>3, <1>4, <2>1 DEF Off
  <2> QED BY <1>0, <1>3, <2>1, <2>2, <2>3
<1>5. ASSUME NEW S, Decide(Reader, S) PROVE S = {}
  BY <1>0, <1>2, <1>5 DEF Decide, IInv, TypeOK
<1>6. CASE PushAhead(p)
  <2>1. Off(p) < Half
    BY <1>6 DEF PushAhead, InReach
  <2>2. CASE Held(SeqNo[p])
    BY <1>4, <2>1, <2>2
  <2>3. CASE ~Held(SeqNo[p])
    BY <1>6, <2>3 DEF PushAhead
  <2> QED BY <2>2, <2>3
<1>7. CASE PushOld(p)
  BY <1>7, PushOldAt
<1>8. ASSUME NEW k \in 0 .. W, PushNext(p, k) PROVE FALSE
  <2>1. p = front /\ k > 0 /\ Decide(Reader, Upto(buf \cup {p}, front, k))
    BY <1>8, PushNextAt
  <2>2. p \in Upto(buf \cup {p}, front, k)
    BY <1>0, <2>1 DEF Upto
  <2> QED BY <1>5, <2>1, <2>2
<1>9. ASSUME NEW k \in 0 .. W, PushFar(p, k), ~Held(SeqNo[p]) PROVE p \in buf
  <2>1. PICK m \in Int :
          LET B == {q \in buf : q >= m} \cup {p}
          IN /\ m < p /\ buf' = Beyond(B, m, k) /\ \A q \in B : q - m # k
             /\ Decide(Reader, {q \in buf : q < m} \cup Upto(B, m, k))
    BY <1>9, PushFarAt
  <2>2. {q \in buf : q < m} \cup Upto({q \in buf : q >= m} \cup {p}, m, k) = {}
    BY <1>5, <2>1
  <2>3. ~(p - m < k) /\ p - m # k
    BY <2>1, <2>2 DEF Upto
  <2>4. p - m > k
    BY <1>0, <1>3, <2>1, <2>3
  <2> QED BY <2>1, <2>4 DEF Beyond
<1>10. ASSUME NEW k \in 0 .. W, PushFar(p, k), Held(SeqNo[p]) PROVE p \in buf
  BY <1>4, <1>10 DEF PushFar
<1> QED BY <1>6, <1>7, <1>8, <1>9, <1>10 DEF Push, PushFirst

(* What VideoReorderBuffer decides to write is new and in the source's order,
   and it refuses a packet only when its place was passed or it is held: for
   every window, number space, stream and set of timers, on a calm network. *)
THEOREM DecidedRight == CalmNetwork => (Spec => DecidedWell)
<1> SUFFICES ASSUME CalmNetwork PROVE Spec => DecidedWell
  OBVIOUS
<1>1. FInv /\ [Next]_vars =>
        [\A t \in Threads : batch'[t] # {} /\ batch'[t] # batch[t] =>
           \A p, q \in batch'[t] :
              /\ hasBase => front <= p
              /\ p < front'
              /\ p < q <=> Sub(SeqNo[p], from'[t]) < Sub(SeqNo[q], from'[t])]_vars
  BY DecisionsInOrder
<1>2. FInv /\ [Next]_vars =>
        [hasBase /\ UNCHANGED <<buf, batch>> => \A p \in Packets : Push(p) => p < front \/ p \in buf]_vars
  BY OnlyOld
<1>3. Spec => []FInv
  BY CalmInvariance
<1> QED BY <1>1, <1>2, <1>3, PTL DEF Spec, DecidedWell, DecidedInOrder, OnlyOldDropped
-----------------------------------------------------------------------------
(* The requests for key frames *)

Clocks == {"slice", "first", "req", "pli", "fir", "info", "sip", "epoch", "mode0", "kick"}

(* No two events have one stamp. *)
Stamps ==
  /\ now \in Nat /\ ts \in Nat /\ pend \in BOOLEAN
  /\ clk \in [Clocks -> {Requests!Never} \cup Nat]
  /\ clk["epoch"] < now \/ clk["epoch"] = Requests!Never
  /\ clk["first"] < now \/ clk["first"] = Requests!Never

(* A switch waits for a picture that has not begun. *)
SwitchWaits ==
  Requests!Set(clk["epoch"]) => pend /\ clk["first"] < clk["epoch"]

(* A burst asks next when its schedule says so. *)
OnSchedule ==
  \A b \in bursts :
    /\ b \in [gen : Nat, start : Nat, i : 1 .. Len(Schedule), at : Nat]
    /\ b.at = b.start + Schedule[b.i]

BurstInv == burstGen \in Nat /\ OnSchedule /\ Requests!SwitchKeepsAsking
RequestInv == Stamps /\ SwitchWaits /\ BurstInv

(* What is written to the browser stamps the requests only. *)
LEMMA SendingStamps ==
  ASSUME Stamps, Requests!SendImmediate \/ Requests!SendSwitchPLI \/ Requests!SendProactive
  PROVE  /\ clk' \in [Clocks -> {Requests!Never} \cup Nat]
         /\ clk'["epoch"] = clk["epoch"] /\ clk'["first"] = clk["first"]
<1>1. CASE Requests!SendImmediate BY <1>1 DEF Stamps, Clocks, Requests!SendImmediate
<1>2. CASE Requests!SendSwitchPLI BY <1>2 DEF Stamps, Clocks, Requests!SendSwitchPLI
<1>3. CASE Requests!SendProactive
  <2>1. CASE Requests!Coalesced BY <1>3, <2>1 DEF Stamps, Requests!SendProactive
  <2>2. CASE ~Requests!Coalesced /\ Requests!Within("pli", Coalesce)
    BY <1>3, <2>2 DEF Stamps, Clocks, Requests!SendProactive
  <2>3. CASE ~Requests!Coalesced /\ ~Requests!Within("pli", Coalesce)
    BY <1>3, <2>3 DEF Stamps, Clocks, Requests!SendProactive
  <2> QED BY <2>1, <2>2, <2>3
<1> QED BY <1>1, <1>2, <1>3

(* The switch, the last picture's start and the bursts are left alone. *)
Aside ==
  /\ now' \in Nat /\ now' >= now /\ ts' = ts /\ pend' \in BOOLEAN /\ (pend => pend')
  /\ clk' \in [Clocks -> {Requests!Never} \cup Nat]
  /\ clk'["epoch"] = clk["epoch"] /\ clk'["first"] = clk["first"]
  /\ UNCHANGED <<burstGen, bursts>>

LEMMA AsideKeeps == ASSUME RequestInv, Aside PROVE RequestInv'
<1> USE DEF Aside
<1>1. Stamps' BY DEF RequestInv, Stamps, Clocks, Requests!Never
<1>2. SwitchWaits' BY DEF RequestInv, SwitchWaits, Requests!Set
<1>3. OnSchedule' BY DEF RequestInv, BurstInv, OnSchedule
<1>4. Requests!SwitchKeepsAsking'
  <2> SUFFICES ASSUME clk["epoch"] # Requests!Never,
                      now' < clk["epoch"] + Schedule[Len(Schedule)]
               PROVE  \E b \in bursts : b.gen = burstGen /\ b.start = clk["epoch"]
    BY DEF Requests!SwitchKeepsAsking, Requests!Set
  <2>1. clk["epoch"] \in Nat /\ Schedule[Len(Schedule)] \in Nat
    BY ScheduleAssumption DEF RequestInv, Stamps, Clocks
  <2>2. now < clk["epoch"] + Schedule[Len(Schedule)]
    BY <2>1 DEF RequestInv, Stamps
  <2> QED BY <2>2 DEF RequestInv, BurstInv, Requests!SwitchKeepsAsking, Requests!Set
<1> QED BY <1>1, <1>2, <1>3, <1>4 DEF RequestInv, BurstInv

(* The page's new picture starts a burst that asks at once. *)
LEMMA PageSwitchKeeps == ASSUME RequestInv, Requests!PageSwitch PROVE RequestInv'
<1> DEFINE b == [gen |-> burstGen + 1, start |-> now, i |-> 1, at |-> now]
<1>1. /\ now \in Nat /\ now' = now + 1 /\ pend' = TRUE /\ ts' = ts /\ ts \in Nat
      /\ clk' = [clk EXCEPT !["epoch"] = now]
      /\ burstGen \in Nat /\ burstGen' = burstGen + 1 /\ bursts' = bursts \cup {b}
  BY DEF RequestInv, Stamps, BurstInv, Requests!PageSwitch, Requests!Event
<1>2. /\ clk'["epoch"] = now /\ clk'["first"] = clk["first"]
      /\ clk' \in [Clocks -> {Requests!Never} \cup Nat]
  BY <1>1 DEF RequestInv, Stamps, Clocks
<1>3. clk["first"] < now /\ clk["first"] \in Int
  BY <1>1 DEF RequestInv, Stamps, Clocks, Requests!Never
<1>4. Stamps' BY <1>1, <1>2, <1>3 DEF Stamps
<1>5. SwitchWaits' BY <1>1, <1>2, <1>3 DEF SwitchWaits
<1>6. OnSchedule'
  <2>1. b \in [gen : Nat, start : Nat, i : 1 .. Len(Schedule), at : Nat] /\ b.at = b.start + Schedule[b.i]
    BY <1>1, ScheduleAssumption
  <2> QED BY <1>1, <2>1 DEF RequestInv, BurstInv, OnSchedule
<1>7. Requests!SwitchKeepsAsking'
  <2>1. b \in bursts' /\ b.gen = burstGen' /\ b.start = clk'["epoch"] BY <1>1, <1>2
  <2> QED BY <2>1 DEF Requests!SwitchKeepsAsking
<1> QED BY <1>1, <1>4, <1>5, <1>6, <1>7 DEF RequestInv, BurstInv

(* A burst whose switch waits goes on until its last request. *)
LEMMA BurstMoves ==
  ASSUME NEW b \in [gen : Nat, start : Nat, i : 1 .. Len(Schedule), at : Nat],
         NEW i \in 1 .. Len(Schedule), NEW t \in Nat
  PROVE  LET n == [b EXCEPT !.i = i, !.at = t] IN
         /\ n \in [gen : Nat, start : Nat, i : 1 .. Len(Schedule), at : Nat]
         /\ n.gen = b.gen /\ n.start = b.start /\ n.i = i /\ n.at = t
<1> DEFINE m == [b EXCEPT !.i = i]
<1>1. /\ m \in [gen : Nat, start : Nat, i : 1 .. Len(Schedule), at : Nat]
      /\ m.gen = b.gen /\ m.start = b.start /\ m.i = i
  OBVIOUS
<1>2. [b EXCEPT !.i = i, !.at = t] = [m EXCEPT !.at = t] OBVIOUS
<1> HIDE DEF m
<1> QED BY <1>1, <1>2

LEMMA BurstKeeps ==
  ASSUME RequestInv, NEW b \in bursts, Requests!BurstAsks(b)
  PROVE  RequestInv'
<1> DEFINE n == [b EXCEPT !.i = @ + 1, !.at = b.start + Schedule[b.i + 1]]
<1>1. /\ b \in [gen : Nat, start : Nat, i : 1 .. Len(Schedule), at : Nat]
      /\ b.at = b.start + Schedule[b.i] /\ b.at <= now
      /\ UNCHANGED <<now, ts, pend, burstGen>> /\ now \in Nat
      /\ Len(Schedule) \in Nat /\ Schedule \in [1 .. Len(Schedule) -> Nat]
  BY ScheduleAssumption DEF RequestInv, Stamps, BurstInv, OnSchedule, Requests!BurstAsks
<1>2. /\ clk' \in [Clocks -> {Requests!Never} \cup Nat]
      /\ clk'["epoch"] = clk["epoch"] /\ clk'["first"] = clk["first"]
  BY SendingStamps DEF RequestInv, Stamps, Requests!BurstAsks
<1>3. CASE Requests!BurstStops(b)
  <2>1. bursts' = bursts \ {b} BY <1>3 DEF Requests!BurstAsks
  <2>2. ~Requests!Set(clk["epoch"]) \/ burstGen # b.gen
    BY <1>3 DEF RequestInv, Stamps, Clocks, SwitchWaits, Requests!BurstStops, Requests!EpochSatisfied, Requests!Set
  <2>3. Requests!SwitchKeepsAsking'
    BY <1>1, <1>2, <2>1, <2>2 DEF RequestInv, BurstInv, Requests!SwitchKeepsAsking, Requests!Set
  <2>4. OnSchedule' BY <2>1 DEF RequestInv, BurstInv, OnSchedule
  <2>5. Stamps' /\ SwitchWaits' BY <1>1, <1>2 DEF RequestInv, Stamps, SwitchWaits, Requests!Set
  <2> QED BY <1>1, <2>3, <2>4, <2>5 DEF RequestInv, BurstInv
<1>4. CASE ~Requests!BurstStops(b)
  <2>1. bursts' = (bursts \ {b}) \cup (IF b.i = Len(Schedule) THEN {} ELSE {n})
    BY <1>4 DEF Requests!BurstAsks
  <2>2. b.i # Len(Schedule) =>
          /\ n \in [gen : Nat, start : Nat, i : 1 .. Len(Schedule), at : Nat]
          /\ n.at = n.start + Schedule[n.i] /\ n.gen = b.gen /\ n.start = b.start
    <3> SUFFICES ASSUME b.i # Len(Schedule) PROVE
          /\ n \in [gen : Nat, start : Nat, i : 1 .. Len(Schedule), at : Nat]
          /\ n.at = n.start + Schedule[n.i] /\ n.gen = b.gen /\ n.start = b.start
      OBVIOUS
    <3>1. b.i + 1 \in 1 .. Len(Schedule) BY <1>1
    <3>2. Schedule[b.i + 1] \in Nat BY <1>1, <3>1
    <3>3. b.start + Schedule[b.i + 1] \in Nat BY <1>1, <3>2
    <3>4. /\ n \in [gen : Nat, start : Nat, i : 1 .. Len(Schedule), at : Nat]
          /\ n.gen = b.gen /\ n.start = b.start /\ n.i = b.i + 1 /\ n.at = b.start + Schedule[b.i + 1]
      BY <1>1, <3>1, <3>3, BurstMoves, Zenon
    <3> HIDE DEF n
    <3> QED BY <3>4
  <2>3. OnSchedule' BY <2>1, <2>2 DEF RequestInv, BurstInv, OnSchedule
  <2>4. Requests!SwitchKeepsAsking'
    <3> SUFFICES ASSUME clk["epoch"] # Requests!Never, now < clk["epoch"] + Schedule[Len(Schedule)]
                 PROVE  \E d \in bursts' : d.gen = burstGen /\ d.start = clk["epoch"]
      BY <1>1, <1>2 DEF Requests!SwitchKeepsAsking, Requests!Set
    <3>1. PICK d \in bursts : d.gen = burstGen /\ d.start = clk["epoch"]
      BY DEF RequestInv, BurstInv, Requests!SwitchKeepsAsking, Requests!Set
    <3>2. CASE d # b BY <2>1, <3>1, <3>2
    <3>3. CASE d = b
      <4>2. /\ now \in Nat /\ b.start \in Nat /\ Schedule[b.i] \in Nat /\ b.start + Schedule[b.i] <= now
            /\ b.start = clk["epoch"]
        BY <1>1, <3>1, <3>3
      <4>3. ASSUME b.i = Len(Schedule) PROVE FALSE
        <5>1. now < b.start + Schedule[b.i] BY <4>2, <4>3
        <5> QED BY <4>2, <5>1
      <4>1. b.i # Len(Schedule) BY <4>3
      <4> QED BY <2>1, <2>2, <3>1, <3>3, <4>1
    <3> QED BY <3>2, <3>3
  <2>5. Stamps' /\ SwitchWaits' BY <1>1, <1>2 DEF RequestInv, Stamps, SwitchWaits, Requests!Set
  <2> QED BY <1>1, <2>3, <2>4, <2>5 DEF RequestInv, BurstInv
<1> QED BY <1>3, <1>4

(* A slice of a picture that began before the switch leaves it waiting, one that
   begins ends the wait. *)
LEMMA SliceKeeps ==
  ASSUME RequestInv, Requests!FirstSlice \/ Requests!NextSlice
  PROVE  RequestInv'
<1>1. PICK t \in {ts, ts + 1}, m \in BOOLEAN : Requests!Observe(t, m)
  BY DEF RequestInv, Stamps, Requests!FirstSlice, Requests!NextSlice
<1>2. now \in Nat /\ now' = now + 1 /\ t \in Nat /\ ts \in Nat
  BY DEF RequestInv, Stamps, Requests!FirstSlice, Requests!NextSlice, Requests!Event
<1>3. /\ clk' \in [Clocks -> {Requests!Never} \cup Nat] /\ ts' = t
      /\ clk'["first"] = IF t # ts THEN now ELSE clk["first"]
      /\ clk'["epoch"] = IF pend /\ (clk["epoch"] # Requests!Never => t # ts) THEN Requests!Never ELSE clk["epoch"]
      /\ pend' = (pend /\ ~(clk["epoch"] # Requests!Never => t # ts))
      /\ burstGen' = IF pend /\ (clk["epoch"] # Requests!Never => t # ts) /\ clk["epoch"] # Requests!Never
                     THEN burstGen + 1 ELSE burstGen
      /\ bursts' = bursts
  BY <1>1, <1>2 DEF RequestInv, Stamps, Clocks, Requests!Observe, Requests!Set
<1>4. Stamps' BY <1>2, <1>3 DEF RequestInv, Stamps, Clocks
<1>5. SwitchWaits' BY <1>2, <1>3 DEF RequestInv, Stamps, Clocks, SwitchWaits, Requests!Set
<1>6. OnSchedule' BY <1>3 DEF RequestInv, BurstInv, OnSchedule
<1>7. Requests!SwitchKeepsAsking'
  <2> SUFFICES ASSUME clk'["epoch"] # Requests!Never, now' < clk'["epoch"] + Schedule[Len(Schedule)]
               PROVE  \E d \in bursts' : d.gen = burstGen' /\ d.start = clk'["epoch"]
    BY DEF Requests!SwitchKeepsAsking, Requests!Set
  <2>1. clk'["epoch"] = clk["epoch"] /\ burstGen' = burstGen /\ bursts' = bursts
    BY <1>3 DEF RequestInv, SwitchWaits, Requests!Set
  <2>2. now < clk["epoch"] + Schedule[Len(Schedule)]
    BY <1>2, <2>1, ScheduleAssumption DEF RequestInv, Stamps, Clocks
  <2> QED BY <2>1, <2>2 DEF RequestInv, BurstInv, Requests!SwitchKeepsAsking, Requests!Set
<1> QED BY <1>3, <1>4, <1>5, <1>6, <1>7 DEF RequestInv, BurstInv

(* Everything but a switch, a slice and a burst leaves those alone. *)
LEMMA RequestKinds ==
  ASSUME RequestInv, [Requests!Next]_requestVars
  PROVE  \/ Aside \/ Requests!PageSwitch \/ Requests!FirstSlice \/ Requests!NextSlice
         \/ \E b \in bursts : Requests!BurstAsks(b)
<1> USE DEF Requests!clocks, Requests!gens, Requests!Event, Aside
<1>1. CASE Requests!Tick BY <1>1 DEF RequestInv, Stamps, Requests!Tick
<1>2. CASE Requests!Vfu
  <2>1. CASE Requests!Within("info", Debounce) BY <1>2, <2>1 DEF RequestInv, Stamps, Requests!Vfu
  <2>2. CASE ~Requests!Within("info", Debounce)
    <3>1. clk' = [clk EXCEPT !["info"] = now, !["sip"] = now]
      BY <1>2, <2>2, Zenon DEF Requests!Vfu
    <3>2. /\ now' = now + 1 /\ pend' = TRUE
          /\ UNCHANGED <<ts, burstGen, bursts>>
      BY <1>2, <2>2, Zenon DEF Requests!Vfu
    <3> QED BY <3>1, <3>2 DEF RequestInv, Stamps, Clocks
  <2> QED BY <2>1, <2>2
<1>3. CASE Requests!Rtcp
  <2>1. \/ clk' = [clk EXCEPT !["sip"] = now, !["pli"] = now]
        \/ clk' = [clk EXCEPT !["sip"] = now]
    BY <1>3, Zenon DEF Requests!Rtcp
  <2>2. now' = now + 1 /\ UNCHANGED <<ts, pend, burstGen, bursts>>
    BY <1>3, Zenon DEF Requests!Rtcp
  <2> QED BY <2>1, <2>2 DEF RequestInv, Stamps, Clocks
<1>4. CASE Requests!Reinvite BY <1>4 DEF RequestInv, Stamps, Requests!Reinvite
<1>6. CASE Requests!Notice
  <2>1. \/ clk' = clk
        \/ clk' = [clk EXCEPT !["kick"] = now, !["fir"] = now, !["pli"] = IF Requests!Within("pli", Coalesce) THEN @ ELSE now]
    BY <1>6, Zenon DEF Requests!Notice
  <2>2. now' = now + 1 /\ UNCHANGED <<ts, pend, burstGen, bursts>>
    BY <1>6, Zenon DEF Requests!Notice
  <2> QED BY <2>1, <2>2 DEF RequestInv, Stamps, Clocks
<1>7. CASE Requests!NoteMode0Drop BY <1>7 DEF RequestInv, Stamps, Clocks, Requests!NoteMode0Drop
<1>9. CASE Requests!PictureCut BY <1>9 DEF RequestInv, Stamps, Requests!PictureCut
<1>10. ASSUME NEW s \in sends, Requests!Send(s) PROVE Aside
  BY <1>10, SendingStamps DEF RequestInv, Stamps, Requests!Send
<1>11. ASSUME NEW r \in retries, Requests!Retry(r) PROVE Aside
  BY <1>11 DEF RequestInv, Stamps, Requests!Retry
<1>13. CASE Requests!Woken BY <1>13 DEF RequestInv, Stamps, Requests!Woken
<1>14. CASE Requests!Loop
  <2>1. Requests!SendProactive \/ UNCHANGED clk BY <1>14 DEF Requests!Loop
  <2>2. /\ clk' \in [Clocks -> {Requests!Never} \cup Nat]
        /\ clk'["epoch"] = clk["epoch"] /\ clk'["first"] = clk["first"]
    BY <2>1, SendingStamps DEF RequestInv, Stamps
  <2> QED BY <1>14, <2>2 DEF RequestInv, Stamps, Requests!Loop
<1>15. CASE UNCHANGED requestVars BY <1>15 DEF RequestInv, Stamps, requestVars
<1>16. CASE Requests!AtHorizon BY <1>15, <1>16 DEF Requests!AtHorizon, Requests!vars, requestVars
<1> QED
  BY <1>1, <1>2, <1>3, <1>4, <1>6, <1>7, <1>9, <1>10, <1>11, <1>13, <1>14,
     <1>15, <1>16 DEF Requests!Next

LEMMA RequestsKeep == ASSUME RequestInv, [Requests!Next]_requestVars PROVE RequestInv'
  BY RequestKinds, AsideKeeps, PageSwitchKeeps, SliceKeeps, BurstKeeps

LEMMA RequestsStart == ASSUME Requests!Init PROVE RequestInv
  BY DEF Requests!Init, RequestInv, Stamps, Clocks, Requests!NoClock, SwitchWaits, Requests!Set,
     BurstInv, OnSchedule, Requests!SwitchKeepsAsking

(* Whichever part moves, the requests make a step of their own or none. *)
LEMMA RequestsMove == [MediaNext]_<<which, vars, switchVars, requestVars>> => [Requests!Next]_requestVars
<1>1. MediaNext => Requests!Next \/ UNCHANGED requestVars BY Zenon DEF MediaNext
<1>2. UNCHANGED <<which, vars, switchVars, requestVars>> => UNCHANGED requestVars BY Zenon
<1> QED BY <1>1, <1>2, Zenon

(* The clocks, the switch that waits and the bursts, for any intervals, any schedule
   and any number of events. *)
THEOREM RequestInvariance == MediaSpec => []RequestInv
<1>1. MediaInit => RequestInv BY RequestsStart DEF MediaInit
<1>2. RequestInv /\ [MediaNext]_<<which, vars, switchVars, requestVars>> => RequestInv'
  BY RequestsKeep, RequestsMove
<1> QED BY <1>1, <1>2, PTL DEF MediaSpec

(* While a switch of the page waits for its picture, the burst that asks for it is
   there until its last request (runSwitchKeyframeBurst): neither another switch's
   burst, nor a slice of the old picture, nor a retry ends it. *)
THEOREM SwitchesKeepAsking == MediaSpec => []Requests!SwitchKeepsAsking
<1>1. RequestInv => Requests!SwitchKeepsAsking BY DEF RequestInv, BurstInv
<1> QED BY <1>1, RequestInvariance, PTL

(* A switch of the page is satisfied by a picture that began after it, and never by
   the rest of an older one (ObserveUplinkVideoForwardMarked). *)
THEOREM NewPicturesSatisfy == MediaSpec => SatisfiedByNewPicture
<1>1. ASSUME RequestInv, [Requests!Next]_requestVars
      PROVE  [Requests!Set(clk.epoch) /\ ~Requests!Set(clk.epoch') => pic'.at >= clk.epoch]_(Requests!vars)
  <2> SUFFICES ASSUME Requests!Next, clk["epoch"] # Requests!Never, clk'["epoch"] = Requests!Never
               PROVE  pic'.at >= clk["epoch"]
    BY <1>1 DEF Requests!Set, Requests!vars, requestVars, Requests!clocks, Requests!gens
  <2>0. clk["epoch"] # Requests!Never /\ clk'["epoch"] = Requests!Never OBVIOUS
  <2>1. pend /\ clk["epoch"] \in Nat /\ clk["epoch"] < now /\ ts \in Nat /\ now \in Nat /\ now # Requests!Never
    BY <1>1 DEF RequestInv, Stamps, Clocks, SwitchWaits, Requests!Set, Requests!Never
  <2>7. "epoch" \in DOMAIN clk /\ DOMAIN clk = Clocks BY <1>1 DEF RequestInv, Stamps, Clocks
  <2>2. ~Aside BY <2>1, <2>0 DEF Aside
  <2>3. ~Requests!PageSwitch
    <3>1. Requests!PageSwitch => clk' = [clk EXCEPT !["epoch"] = now] BY DEF Requests!PageSwitch
    <3> QED BY <2>0, <2>1, <2>7, <3>1
  <2>4. ASSUME NEW b \in bursts PROVE ~Requests!BurstAsks(b)
    <3>1. Requests!BurstAsks(b) => Requests!SendSwitchPLI \/ clk' = clk BY DEF Requests!BurstAsks
    <3>2. Requests!BurstAsks(b) => clk'["epoch"] = clk["epoch"] BY <1>1, <3>1, SendingStamps DEF RequestInv
    <3> QED BY <2>0, <3>2
  <2>5. ~Requests!NextSlice
    <3> SUFFICES ASSUME NEW m \in BOOLEAN, Requests!Observe(ts, m) PROVE FALSE
      BY DEF Requests!NextSlice
    <3>1. clk'["epoch"] = IF pend /\ (clk["epoch"] # Requests!Never => ts # ts) THEN Requests!Never ELSE clk["epoch"]
      BY <2>7 DEF Requests!Observe, Requests!Set, Clocks
    <3> QED BY <2>0, <3>1
  <2>6. Requests!FirstSlice BY <1>1, <2>2, <2>3, <2>4, <2>5, RequestKinds
  <2> QED BY <2>1, <2>6 DEF Requests!FirstSlice
<1> QED BY <1>1, RequestsMove, RequestInvariance, PTL DEF MediaSpec, SatisfiedByNewPicture, Requests!SatisfiedByNewPicture
=============================================================================
