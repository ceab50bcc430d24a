--------------------------- MODULE ReorderBuffer ---------------------------
(***************************************************************************)
(* VideoReorderBuffer: the SIP-to-browser video path puts RTP packets back *)
(* in order by their 16-bit sequence numbers.  The goroutine that reads    *)
(* RTP pushes, resets and finally drains; goroutines of the flush timer    *)
(* skip a gap that was not filled.  What to write is decided under b.mu    *)
(* and written under b.emitMu, after b.mu was released.                    *)
(*                                                                         *)
(* A packet is its position in the stream its source sent; the buffer only *)
(* sees SeqNo[p], which wraps.  front and newest are history: they say     *)
(* what the numbers stand for.                                             *)
(*                                                                         *)
(* Source: session/reorder_buffer.go, driven by sip/rtp.go.                *)
(***************************************************************************)
EXTENDS Integers

CONSTANTS
  Packets,   \* positions in the source's stream
  SeqNo,     \* their sequence numbers
  M,         \* how many sequence numbers there are, 2^16 in the code
  W,         \* reorderWindowSize, 64 in the code
  Lag,       \* the network delivers a packet less than Lag behind the newest
  Burst,     \* and loses fewer than Burst packets in a row
  Reader,    \* the goroutine of the RTP loop
  Timers,    \* goroutines of the flush timer: the bound on how many run at once
  Resets     \* TRUE if the source may change

ASSUME SizeAssumption ==
  /\ M \in Nat /\ W \in Nat /\ W >= 2 /\ 2 * W <= M
  /\ W % 2 = 0 /\ M % 2 = 0
ASSUME StreamAssumption == Packets \subseteq Nat /\ SeqNo \in [Packets -> 0 .. M - 1]
(* The source counts: it numbers one packet after the other. *)
ASSUME CountAssumption == \E s \in 0 .. M - 1 : \A p \in Packets : SeqNo[p] = (p + s) % M
ASSUME ThreadAssumption == Reader \notin Timers /\ Resets \in BOOLEAN

Threads == Timers \cup {Reader}

VARIABLES
  buf,      \* packets held, by position (the code's map is by number)
  nextSeq,  \* the number expected next
  hasBase,  \* nextSeq means something
  closed,
  armed,    \* the flush timer runs
  pc,       \* where each goroutine is
  batch,    \* what it decided to write and has not written yet
  from,     \* nextSeq when it decided: a batch is written in order from there
  front,    \* the position nextSeq stands for
  newest    \* the last position pushed since the source changed

bufVars  == <<buf, nextSeq, hasBase, closed, armed>>
ctlVars  == <<pc, batch, from>>
histVars == <<front, newest>>
vars == <<bufVars, ctlVars, histVars>>

Init ==
  /\ buf = {} /\ nextSeq = 0 /\ hasBase = FALSE /\ closed = FALSE /\ armed = FALSE
  /\ pc = [t \in Threads |-> IF t = Reader THEN "read" ELSE "idle"]
  /\ batch = [t \in Threads |-> {}] /\ from = [t \in Threads |-> 0]
  /\ front = 0 /\ newest = 0

-----------------------------------------------------------------------------
(* uint16 arithmetic *)

(* Mutants: the difference does not wrap; the sum does not. *)
Sub_Signed(a, b) == a - b
Plus_NoWrap(a, k) == a + k

(* a - b and a + k, for a number of at most one round *)
Sub(a, b)  == IF a >= b THEN a - b ELSE a - b + M
Plus(a, k) == IF a + k < M THEN a + k ELSE a + k - M

(* Mutant: a quarter of the numbers is ahead. *)
Half_Quarter == M \div 4

(* 0x8000: the nearer half of the numbers is ahead, the other behind. *)
Half == M \div 2

(* Mutant: numbers are compared as they are. *)
Before_Plain(a, b) == a < b

(* seqBeforeU16 *)
Before(a, b) == Sub(b, a) # 0 /\ Sub(b, a) < Half

Off(p) == Sub(SeqNo[p], nextSeq)

-----------------------------------------------------------------------------
(* What a critical section decides *)

(* k is the first offset from n at which B has nothing. *)
GapAt(B, n, k) ==
  /\ \A q \in B : Sub(SeqNo[q], n) # k
  /\ \A j \in 0 .. k - 1 : \E q \in B : Sub(SeqNo[q], n) = j

(* Mutant: the timer is stopped whatever is left. *)
TimerAfter_Stopped(B) == FALSE

(* The end of flushConsecutiveLocked: nothing left, no timer. *)
TimerAfter(B) == armed /\ B # {}

Decide(t, S) ==
  /\ batch' = [batch EXCEPT ![t] = S]
  /\ from' = [from EXCEPT ![t] = nextSeq]
  /\ pc' = [pc EXCEPT ![t] = IF S # {} THEN "emit" ELSE IF t = Reader THEN "read" ELSE "idle"]

(* flushConsecutiveLocked once nextSeq stands at n, skipped or released up to
   there: B is what is held, S what is to be written already. *)
FlushConsecutive(t, B, n, S, k) ==
  /\ GapAt(B, n, k)
  /\ nextSeq' = Plus(n, k)
  /\ buf' = {q \in B : Sub(SeqNo[q], n) > k}
  /\ front' = front + Sub(n, nextSeq) + k
  /\ Decide(t, S \cup {q \in B : Sub(SeqNo[q], n) < k})

-----------------------------------------------------------------------------
(* The RTP loop.  What the network can deliver next: *)

Delivered(p) == hasBase => newest - Lag < p /\ p <= newest + Burst

Pushing(p) ==
  /\ pc[Reader] = "read"
  /\ Delivered(p)
  /\ newest' = IF p > newest THEN p ELSE newest
  /\ UNCHANGED closed

PushFirst(p) ==
  /\ Pushing(p)
  /\ ~hasBase
  /\ nextSeq' = Plus(SeqNo[p], 1) /\ hasBase' = TRUE /\ front' = p + 1
  /\ Decide(Reader, {p})
  /\ UNCHANGED <<buf, armed>>

PushNext(p, k) ==
  /\ Pushing(p)
  /\ hasBase /\ Off(p) = 0
  /\ FlushConsecutive(Reader, buf \cup {p}, nextSeq, {}, k)
  /\ armed' = TimerAfter(buf')
  /\ UNCHANGED hasBase

Held(s) == \E q \in buf : SeqNo[q] = s

(* Ahead of nextSeq, near enough to wait for what is missing. *)
InReach(o) == o < Half /\ o < W

PushAhead(p) ==
  /\ Pushing(p)
  /\ hasBase /\ Off(p) # 0 /\ InReach(Off(p))
  /\ IF Held(SeqNo[p]) THEN UNCHANGED <<buf, armed>> ELSE buf' = buf \cup {p} /\ armed' = TRUE
  /\ UNCHANGED <<nextSeq, hasBase, ctlVars, front>>

(* forceFlushToLocked moves nextSeq half a window behind the packet, writing
   what it passes; the packet is then held like the others. *)
PushFar(p, k) ==
  /\ Pushing(p)
  /\ hasBase /\ Off(p) < Half /\ ~InReach(Off(p))
  /\ LET base == Sub(SeqNo[p], W \div 2)
         far  == Sub(base, nextSeq)
         rest == {q \in buf : Off(q) >= far}
     IN FlushConsecutive(Reader, IF Held(SeqNo[p]) THEN rest ELSE rest \cup {p}, base,
                         {q \in buf : Off(q) < far}, k)
  /\ armed' = (buf' # {})
  /\ UNCHANGED hasBase

PushOld(p) ==
  /\ Pushing(p)
  /\ hasBase /\ Off(p) >= Half
  /\ UNCHANGED <<buf, nextSeq, hasBase, armed, ctlVars, front>>

(* The SSRC, the timestamps or the switch generation changed. *)
Reset ==
  /\ Resets /\ pc[Reader] = "read" /\ hasBase
  /\ buf' = {} /\ armed' = FALSE /\ hasBase' = FALSE
  /\ newest' = 0 /\ front' = 0
  /\ UNCHANGED <<nextSeq, closed, ctlVars>>

(* The session ends: the loop returns and everything held is written. *)
Drain ==
  /\ pc[Reader] = "read" /\ ~closed
  /\ closed' = TRUE /\ armed' = FALSE /\ buf' = {}
  /\ IF buf = {} THEN UNCHANGED <<nextSeq, front>>
     ELSE \E p \in buf : /\ \A q \in buf : Off(q) <= Off(p)
                         /\ nextSeq' = Plus(SeqNo[p], 1)
                         /\ front' = front + Off(p) + 1
  /\ batch' = [batch EXCEPT ![Reader] = buf]
  /\ from' = [from EXCEPT ![Reader] = nextSeq]
  /\ pc' = [pc EXCEPT ![Reader] = "drained"]
  /\ UNCHANGED <<hasBase, newest>>

-----------------------------------------------------------------------------
(* The flush timer *)

(* Its goroutine starts, and waits for b.mu. *)
TimerExpires(t) ==
  /\ armed /\ pc[t] = "idle"
  /\ armed' = FALSE
  /\ pc' = [pc EXCEPT ![t] = "fired"]
  /\ UNCHANGED <<buf, nextSeq, hasBase, closed, batch, from, histVars>>

Ahead == {q \in buf : Off(q) < Half}

(* timeoutFlush when the buffer was drained or emptied meanwhile *)
TimerLate(t) ==
  /\ pc[t] = "fired" /\ (closed \/ Ahead = {})
  /\ buf' = IF closed THEN buf ELSE {}
  /\ pc' = [pc EXCEPT ![t] = "idle"]
  /\ UNCHANGED <<nextSeq, hasBase, closed, armed, batch, from, histVars>>

(* timeoutFlush: skip to the lowest packet held and write what follows it. *)
TimerFlush(t, p, k) ==
  /\ pc[t] = "fired" /\ ~closed
  /\ p \in Ahead /\ \A q \in Ahead : ~Before(SeqNo[q], SeqNo[p])
  /\ FlushConsecutive(t, buf, SeqNo[p], {}, k)
  /\ armed' = (buf' # {})
  /\ UNCHANGED <<hasBase, closed, newest>>

(* emit: the whole batch under b.emitMu, in the order it was decided. *)
Emit(t) ==
  /\ pc[t] \in {"emit", "drained"}
  /\ batch' = [batch EXCEPT ![t] = {}]
  /\ from' = [from EXCEPT ![t] = 0]
  /\ pc' = [pc EXCEPT ![t] = IF t # Reader THEN "idle"
                             ELSE IF pc[t] = "drained" THEN "done" ELSE "read"]
  /\ UNCHANGED <<bufVars, histVars>>

Push(p) == \/ PushFirst(p) \/ PushAhead(p) \/ PushOld(p)
           \/ \E k \in 0 .. W : PushNext(p, k) \/ PushFar(p, k)

TimerRuns(t) == TimerLate(t) \/ \E p \in Packets, k \in 0 .. W : TimerFlush(t, p, k)

Next ==
  \/ \E p \in Packets : Push(p)
  \/ Reset \/ Drain
  \/ \E t \in Timers : TimerExpires(t) \/ TimerRuns(t)
  \/ \E t \in Threads : Emit(t)

Spec == Init /\ [][Next]_vars

-----------------------------------------------------------------------------
(* Properties *)

(* The fields of VideoReorderBuffer and what its goroutines decided keep to
   their sets, numbers to 0 .. M - 1. *)
TypeOK ==
  /\ buf \subseteq Packets /\ nextSeq \in 0 .. M - 1
  /\ hasBase \in BOOLEAN /\ closed \in BOOLEAN /\ armed \in BOOLEAN
  /\ pc \in [Threads -> {"read", "idle", "fired", "emit", "drained", "done"}]
  /\ batch \in [Threads -> SUBSET Packets] /\ from \in [Threads -> 0 .. M - 1]
  /\ front \in Int /\ newest \in Packets \cup {0}

(* Between two critical sections what is held lies strictly ahead of nextSeq
   and within one window of it, one packet per number: the map stays bounded
   by reorderWindowSize - 1 and nothing in it is ever unreachable, wherever
   the 16-bit numbers wrap. *)
InWindow ==
  /\ \A p \in buf : Off(p) >= 1 /\ Off(p) <= W - 1
  /\ \A p, q \in buf : SeqNo[p] = SeqNo[q] => p = q
  /\ hasBase \/ buf = {}

(* Whatever is held, a flush timer runs or its goroutine is on its way to
   b.mu: no order of pushes, flushes and expiries leaves a packet behind a gap
   that nothing will ever skip. *)
NeverStuck == buf # {} => armed \/ \E t \in Timers : pc[t] = "fired"

(* Both: what is held is within reach of nextSeq, and somebody will come for
   it. *)
HeldInReach == InWindow /\ NeverStuck

(* As long as the network stays within Lag and Burst, a difference of two
   16-bit numbers means what it would mean if they did not wrap. *)
WrapFaithful == hasBase /\ ~closed => \A p \in buf : Off(p) = p - front

(* What the network must keep to for that: half the numbers are enough to tell
   what is late from what is lost. *)
CalmNetwork == Lag \in Nat /\ Burst \in Nat /\ Lag <= Half /\ W + Burst <= Half

(* Why it does.  Of the position that the source gives this number ... *)
FirstNumber == CHOOSE s \in 0 .. M - 1 : \A p \in Packets : SeqNo[p] = (p + s) % M
NumberOf(x) == (x + FirstNumber) % M

(* ... front is what nextSeq stands for, at most one behind the newest packet
   and a window ahead of it at the most; what is held lies between the two; ... *)
Following ==
  hasBase /\ ~closed =>
    /\ nextSeq = NumberOf(front)
    /\ front - 1 <= newest /\ newest - front <= W - 1
    /\ \A p \in buf : front < p /\ p <= newest

(* ... a new source begins anew, and nobody decides before he has written. *)
Fresh == ~hasBase => newest = 0
Written == \A t \in Threads : pc[t] \notin {"emit", "drained"} => batch[t] = {}

(* What is decided is new and in the source's order: front only moves on, a
   batch lies between the old front and the new one, so after everything
   decided before it, and the offsets it is written by order it like the
   source did. *)
DecidedInOrder ==
  [][\A t \in Threads : batch'[t] # {} /\ batch'[t] # batch[t] =>
       \A p, q \in batch'[t] :
          /\ hasBase => front <= p
          /\ p < front'
          /\ p < q <=> Sub(SeqNo[p], from'[t]) < Sub(SeqNo[q], from'[t])]_vars

(* A packet is only refused when its place was passed, or when it is held
   already: the window, the wrap and the forced flush never throw away a
   packet that could still be written. *)
OnlyOldDropped ==
  [][hasBase /\ UNCHANGED <<buf, batch>> =>
       \A p \in Packets : Push(p) => p < front \/ p \in buf]_vars

(* Packets are decided on in order, and none is thrown away in vain. *)
DecidedWell == DecidedInOrder /\ OnlyOldDropped

(* "writeFn is called for each packet in sequence order": packets reach the
   track in the source's order, whichever goroutine writes them. *)
WrittenInOrder ==
  [][\A t, u \in Threads : Emit(t) /\ u # t =>
       \A p \in batch[t], q \in batch[u] : p < q]_vars
=============================================================================
