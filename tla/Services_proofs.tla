--------------------------- MODULE Services_proofs ---------------------------
(* What the services beside the calls keep true, for any bounds: the speech
   pipeline, alone (Spec), the session log and the mobile login, in the
   composition TLC runs (ServicesSpec).  The calendar of the partitions is
   arithmetic over a table of days and stays with TLC. *)
EXTENDS MCServices, Sequences, TLAPS

(* Sequences of numbers: what they hold, and whether they grow. *)
LEMMA AppendFacts ==
  ASSUME NEW s \in Seq(Nat), NEW n \in Nat
  PROVE  /\ Append(s, n) \in Seq(Nat)
         /\ Log!ToSet(Append(s, n)) = Log!ToSet(s) \cup {n}
         /\ (Log!Growing(s) /\ \A a \in Log!ToSet(s) : a < n) => Log!Growing(Append(s, n))
<1>1. /\ Append(s, n) \in Seq(Nat) /\ DOMAIN Append(s, n) = 1 .. Len(s) + 1 /\ DOMAIN s = 1 .. Len(s)
      /\ \A i \in 1 .. Len(s) : Append(s, n)[i] = s[i]
      /\ Append(s, n)[Len(s) + 1] = n /\ Len(s) \in Nat
  OBVIOUS
<1>2. \A i \in DOMAIN Append(s, n) : i \in DOMAIN s \/ i = Len(s) + 1  BY <1>1
<1>3. Log!ToSet(Append(s, n)) = Log!ToSet(s) \cup {n}
  BY <1>1, <1>2 DEF Log!ToSet
<1>4. ASSUME Log!Growing(s), \A a \in Log!ToSet(s) : a < n PROVE Log!Growing(Append(s, n))
  BY <1>1, <1>2, <1>4 DEF Log!Growing, Log!ToSet
<1>. QED BY <1>1, <1>3, <1>4

LEMMA HeadFacts ==
  ASSUME NEW s \in Seq(Nat), s # <<>>
  PROVE  /\ Head(s) \in Nat /\ Tail(s) \in Seq(Nat)
         /\ Log!ToSet(s) = {Head(s)} \cup Log!ToSet(Tail(s))
         /\ Log!Growing(s) => Log!Growing(Tail(s)) /\ \A a \in Log!ToSet(Tail(s)) : Head(s) < a
<1>1. /\ Head(s) \in Nat /\ Tail(s) \in Seq(Nat) /\ Len(s) \in Nat \ {0}
      /\ DOMAIN s = 1 .. Len(s) /\ DOMAIN Tail(s) = 1 .. Len(s) - 1
      /\ Head(s) = s[1] /\ \A i \in 1 .. Len(s) - 1 : Tail(s)[i] = s[i + 1]
  OBVIOUS
<1>2. \A i \in DOMAIN s : i = 1 \/ (i - 1 \in DOMAIN Tail(s) /\ Tail(s)[i - 1] = s[i])
  <2>. SUFFICES ASSUME NEW i \in DOMAIN s, i # 1 PROVE i - 1 \in DOMAIN Tail(s) /\ Tail(s)[i - 1] = s[i]
    OBVIOUS
  <2>1. i - 1 \in 1 .. Len(s) - 1 /\ (i - 1) + 1 = i BY <1>1
  <2>. QED BY <1>1, <2>1
<1>5. \A i \in DOMAIN Tail(s) : i \in Nat /\ i + 1 \in DOMAIN s /\ 1 < i + 1 /\ Tail(s)[i] = s[i + 1]  BY <1>1
<1>6. 1 \in DOMAIN s /\ Head(s) = s[1] BY <1>1
<1>3. Log!ToSet(s) = {Head(s)} \cup Log!ToSet(Tail(s))
  <2>1. \A i \in DOMAIN s : s[i] = Head(s) \/ s[i] \in Log!ToSet(Tail(s)) BY <1>2, <1>6 DEF Log!ToSet
  <2>2. Log!ToSet(Tail(s)) \subseteq Log!ToSet(s) BY <1>5 DEF Log!ToSet
  <2>3. Head(s) \in Log!ToSet(s) BY <1>6 DEF Log!ToSet
  <2>4. Log!ToSet(s) \subseteq {Head(s)} \cup Log!ToSet(Tail(s)) BY <2>1 DEF Log!ToSet
  <2>. QED BY <2>2, <2>3, <2>4
<1>4. ASSUME Log!Growing(s) PROVE Log!Growing(Tail(s)) /\ \A a \in Log!ToSet(Tail(s)) : Head(s) < a
  <2>1. ASSUME NEW i \in DOMAIN Tail(s), NEW j \in DOMAIN Tail(s), i < j PROVE Tail(s)[i] < Tail(s)[j]
    <3>1. i + 1 < j + 1 BY <1>5, <2>1
    <3>. QED BY <1>4, <1>5, <3>1 DEF Log!Growing
  <2>2. \A i \in DOMAIN Tail(s) : Head(s) < Tail(s)[i] BY <1>4, <1>5, <1>6 DEF Log!Growing
  <2>3. \A a \in Log!ToSet(Tail(s)) : Head(s) < a BY <2>2 DEF Log!ToSet
  <2>. QED BY <2>1, <2>3 DEF Log!Growing
<1>. QED BY <1>1, <1>3, <1>4

LEMMA JoinFacts ==
  ASSUME NEW s \in Seq(Nat), NEW t \in Seq(Nat)
  PROVE  /\ s \o t \in Seq(Nat)
         /\ Log!ToSet(s \o t) = Log!ToSet(s) \cup Log!ToSet(t)
         /\ (Log!Growing(s) /\ Log!Growing(t) /\ Log!Before(Log!ToSet(s), Log!ToSet(t)))
              => Log!Growing(s \o t)
<1>1. /\ s \o t \in Seq(Nat) /\ DOMAIN (s \o t) = 1 .. Len(s) + Len(t)
      /\ Len(s) \in Nat /\ Len(t) \in Nat /\ DOMAIN s = 1 .. Len(s) /\ DOMAIN t = 1 .. Len(t)
      /\ \A i \in 1 .. Len(s) : (s \o t)[i] = s[i]
      /\ \A i \in 1 .. Len(t) : (s \o t)[Len(s) + i] = t[i]
  OBVIOUS
<1>2. \A i \in DOMAIN (s \o t) : i \in DOMAIN s \/ (i - Len(s) \in DOMAIN t /\ (s \o t)[i] = t[i - Len(s)])
  <2>. SUFFICES ASSUME NEW i \in DOMAIN (s \o t), i \notin DOMAIN s
       PROVE i - Len(s) \in DOMAIN t /\ (s \o t)[i] = t[i - Len(s)]
    OBVIOUS
  <2>1. i - Len(s) \in 1 .. Len(t) /\ Len(s) + (i - Len(s)) = i BY <1>1
  <2>. QED BY <1>1, <2>1
<1>3. Log!ToSet(s \o t) = Log!ToSet(s) \cup Log!ToSet(t)
  <2>1. \A i \in DOMAIN s : i \in DOMAIN (s \o t) /\ (s \o t)[i] = s[i] BY <1>1
  <2>2. \A i \in DOMAIN t : Len(s) + i \in DOMAIN (s \o t) /\ (s \o t)[Len(s) + i] = t[i] BY <1>1
  <2>3. \A i \in DOMAIN (s \o t) : (i \in DOMAIN s /\ (s \o t)[i] = s[i]) \/ (i - Len(s) \in DOMAIN t /\ (s \o t)[i] = t[i - Len(s)])
    BY <1>2, <2>1
  <2>4. Log!ToSet(s) \subseteq Log!ToSet(s \o t) BY <2>1 DEF Log!ToSet
  <2>5. Log!ToSet(t) \subseteq Log!ToSet(s \o t) BY <2>2 DEF Log!ToSet
  <2>6. Log!ToSet(s \o t) \subseteq Log!ToSet(s) \cup Log!ToSet(t) BY <2>3 DEF Log!ToSet
  <2>. QED BY <2>4, <2>5, <2>6
<1>4. ASSUME Log!Growing(s), Log!Growing(t), Log!Before(Log!ToSet(s), Log!ToSet(t)),
             NEW i \in DOMAIN (s \o t), NEW j \in DOMAIN (s \o t), i < j
      PROVE  (s \o t)[i] < (s \o t)[j]
  <2>1. CASE i \in DOMAIN s /\ j \in DOMAIN s BY <1>1, <1>4, <2>1 DEF Log!Growing
  <2>2. CASE i \notin DOMAIN s
    <3>1. i - Len(s) \in DOMAIN t /\ j - Len(s) \in DOMAIN t /\ i - Len(s) < j - Len(s)
      <4>1. j \notin DOMAIN s BY <2>2, <1>1, <1>4
      <4>. QED BY <1>1, <1>2, <1>4, <2>2, <4>1
    <3>2. (s \o t)[i] = t[i - Len(s)] /\ (s \o t)[j] = t[j - Len(s)]
      BY <1>1, <1>2, <1>4, <2>2
    <3>. QED BY <3>1, <3>2, <1>4 DEF Log!Growing
  <2>3. CASE i \in DOMAIN s /\ j \notin DOMAIN s
    <3>1. (s \o t)[i] = s[i] /\ (s \o t)[j] = t[j - Len(s)] /\ j - Len(s) \in DOMAIN t
      BY <1>1, <1>2, <2>3
    <3>2. s[i] \in Log!ToSet(s) /\ t[j - Len(s)] \in Log!ToSet(t) BY <2>3, <3>1 DEF Log!ToSet
    <3>. QED BY <3>1, <3>2, <1>4 DEF Log!Before
  <2>. QED BY <2>1, <2>2, <2>3
<1>. QED BY <1>1, <1>3, <1>4 DEF Log!Growing

LEMMA EmptyFacts == <<>> \in Seq(Nat) /\ Log!ToSet(<<>>) = {} /\ Log!Growing(<<>>)
  BY DEF Log!ToSet, Log!Growing

LEMMA Members == ASSUME NEW s \in Seq(Nat) PROVE Log!ToSet(s) \subseteq Nat
  BY DEF Log!ToSet

-----------------------------------------------------------------------------
(* One queue of the session log: its share of the invariant. *)
QueueKept(q) ==
  /\ Log!Growing(table[q]) /\ Log!Growing(batch[q]) /\ Log!Growing(queue[q])
  /\ Log!Before(Log!ToSet(table[q]) \cup lost[q], Log!ToSet(batch[q]) \cup Log!ToSet(queue[q]))
  /\ Log!Before(Log!ToSet(batch[q]), Log!ToSet(queue[q]))
  /\ \A a \in Log!ToSet(accepted[q]) : a <= logged[q]
  /\ Log!ToSet(accepted[q]) = Log!ToSet(table[q]) \cup lost[q] \cup Log!ToSet(batch[q]) \cup Log!ToSet(queue[q])
  /\ Log!ToSet(table[q]) \cap lost[q] = {}
  /\ worker[q] = "stopped" => batch[q] = <<>>
  /\ pool = "closed" => worker[q] = "stopped"
QueueTypes ==
  /\ pool \in {"nil", "open", "closed"} /\ fails \in Nat
  /\ worker \in [Queues -> {"off", "idle", "flush", "lastflush", "stopped"}]
  /\ logged \in [Queues -> Nat]
  /\ queue \in [Queues -> Seq(Nat)] /\ batch \in [Queues -> Seq(Nat)]
  /\ accepted \in [Queues -> Seq(Nat)] /\ table \in [Queues -> Seq(Nat)]
  /\ lost \in [Queues -> SUBSET Nat]
RowTypes ==
  /\ sess \in [Sessions -> {"new", "active", "ended"}] /\ taken \in [Sessions -> Nat]
  /\ row \in [Sessions -> [state : {"none", "new", "active", "ended"}, n : Nat]]
  /\ writing \subseteq [id : Sessions, state : {"new", "active", "ended"}, n : Nat]
  /\ raced \subseteq Sessions

LEMMA LogParts ==
  Log!LogInv <=> QueueTypes /\ RowTypes /\ (\A q \in Queues : QueueKept(q)) /\ Log!RowFollows
  BY DEF Log!LogInv, Log!LogTypes, Log!InOrder, Log!Accounted, QueueTypes, RowTypes, QueueKept
LEMMA LogPartsNext ==
  (QueueTypes' /\ RowTypes' /\ (\A q \in Queues : QueueKept(q)') /\ Log!RowFollows') => Log!LogInv'
  BY DEF Log!LogInv, Log!LogTypes, Log!InOrder, Log!Accounted, QueueTypes, RowTypes, QueueKept

(* A queue that a step leaves alone. *)
LEMMA QueueFrame ==
  ASSUME NEW q \in Queues, QueueKept(q), worker'[q] = worker[q], queue'[q] = queue[q], batch'[q] = batch[q],
         logged'[q] = logged[q], accepted'[q] = accepted[q], table'[q] = table[q], lost'[q] = lost[q],
         pool' = "closed" => pool = "closed"
  PROVE  QueueKept(q)'
  BY DEF QueueKept

(* One record goes in at the end of the queue. *)
LEMMA LogStep ==
  ASSUME QueueTypes, \A q \in Queues : QueueKept(q), NEW q \in Queues, Log!Log(q)
  PROVE  QueueTypes' /\ \A r \in Queues : QueueKept(r)'
<1>. USE DEF QueueTypes
<1>1. logged' = [logged EXCEPT ![q] = @ + 1] /\ UNCHANGED <<pool, worker, batch, table, lost, fails>>
  BY DEF Log!Log
<1>2. \A r \in Queues \ {q} : QueueKept(r)'
  <2>. SUFFICES ASSUME NEW r \in Queues \ {q} PROVE QueueKept(r)' OBVIOUS
  <2>1. queue'[r] = queue[r] /\ accepted'[r] = accepted[r] /\ logged'[r] = logged[r] BY <1>1 DEF Log!Log
  <2>. QED BY <1>1, <2>1, QueueFrame
<1>3. CASE UNCHANGED <<queue, accepted>>
  <2>1. logged'[q] = logged[q] + 1 BY <1>1
  <2>2. Log!ToSet(accepted[q]) \subseteq Nat BY Members
  <2>5. \A a \in Log!ToSet(accepted[q]) : a <= logged[q] BY DEF QueueKept
  <2>3. \A a \in Log!ToSet(accepted[q]) : a <= logged'[q] BY <2>1, <2>2, <2>5
  <2>4. QueueKept(q)' BY <1>1, <1>3, <2>3 DEF QueueKept
  <2>. QED BY <1>1, <1>2, <1>3, <2>4
<1>4. CASE /\ queue' = [queue EXCEPT ![q] = Append(@, logged[q] + 1)]
           /\ accepted' = [accepted EXCEPT ![q] = Append(@, logged[q] + 1)]
  <2>. DEFINE n == logged[q] + 1
  <2>1. n \in Nat /\ queue[q] \in Seq(Nat) /\ accepted[q] \in Seq(Nat) OBVIOUS
  <2>2. queue'[q] = Append(queue[q], n) /\ accepted'[q] = Append(accepted[q], n) /\ logged'[q] = n BY <1>1,
      <1>4
  <2>. HIDE DEF n
  <2>3. /\ Log!ToSet(queue'[q]) = Log!ToSet(queue[q]) \cup {n}
        /\ Log!ToSet(accepted'[q]) = Log!ToSet(accepted[q]) \cup {n}
    BY <2>1, <2>2, AppendFacts
  <2>4. \A a \in Log!ToSet(accepted[q]) : a \in Nat /\ a < n
    <3>1. Log!ToSet(accepted[q]) \subseteq Nat BY <2>1, Members
    <3>2. \A a \in Log!ToSet(accepted[q]) : a <= logged[q] BY DEF QueueKept
    <3>. QED BY <3>1, <3>2 DEF n
  <2>5. Log!Growing(queue'[q]) BY <2>1, <2>2, <2>4, AppendFacts, ZenonT(60) DEF QueueKept
  <2>6. QueueKept(q)'
    <3>1. UNCHANGED <<table[q], batch[q], lost[q], worker[q]>> BY <1>1
    <3>2. \A a \in Log!ToSet(table[q]) \cup lost[q] \cup Log!ToSet(batch[q]) : a < n BY <2>4 DEF QueueKept
    <3>3. Log!Growing(table'[q]) /\ Log!Growing(batch'[q]) BY <3>1 DEF QueueKept
    <3>4. /\ Log!ToSet(table'[q]) = Log!ToSet(table[q]) /\ lost'[q] = lost[q]
          /\ Log!ToSet(batch'[q]) = Log!ToSet(batch[q])
      BY <3>1
    <3>5. \A a \in Log!ToSet(accepted'[q]) : a <= logged'[q] BY <2>2, <2>3, <2>4, <2>1
    <3>6. Log!Before(Log!ToSet(table'[q]) \cup lost'[q], Log!ToSet(batch'[q]) \cup Log!ToSet(queue'[q]))
      BY <3>2, <3>4, <2>3 DEF QueueKept, Log!Before
    <3>7. Log!Before(Log!ToSet(batch'[q]), Log!ToSet(queue'[q]))
      BY <3>2, <3>4, <2>3 DEF QueueKept, Log!Before
    <3>. QED BY <1>1, <2>3, <2>5, <3>1, <3>3, <3>4, <3>5, <3>6, <3>7 DEF QueueKept
  <2>7. queue' \in [Queues -> Seq(Nat)] /\ accepted' \in [Queues -> Seq(Nat)]
    <3>1. queue'[q] \in Seq(Nat) /\ accepted'[q] \in Seq(Nat) BY <2>1, <2>2, AppendFacts
    <3>. QED BY <1>4, <3>1
  <2>8. logged' \in [Queues -> Nat] BY <1>1
  <2>. QED BY <1>1, <1>2, <2>6, <2>7, <2>8
<1>. QED BY <1>3, <1>4 DEF Log!Log

(* The worker takes the first record of the queue into its hands. *)
LEMMA TakeStep ==
  ASSUME QueueTypes, \A q \in Queues : QueueKept(q), NEW q \in Queues, Log!Take(q)
  PROVE  QueueTypes' /\ \A r \in Queues : QueueKept(r)'
<1>. USE DEF QueueTypes
<1>1. /\ worker[q] = "idle" /\ queue[q] # <<>> /\ UNCHANGED <<pool, logged, accepted, table, lost, fails>>
      /\ batch' = [batch EXCEPT ![q] = Append(@, Head(queue[q]))] /\ queue' = [queue EXCEPT ![q] = Tail(@)]
  BY DEF Log!Take
<1>2. /\ worker' \in [Queues -> {"off", "idle", "flush", "lastflush", "stopped"}] /\ worker'[q] # "stopped"
      /\ \A r \in Queues \ {q} : worker'[r] = worker[r]
  BY DEF Log!Take
<1>3. \A r \in Queues \ {q} : QueueKept(r)'
  <2>. SUFFICES ASSUME NEW r \in Queues \ {q} PROVE QueueKept(r)' OBVIOUS
  <2>1. queue'[r] = queue[r] /\ batch'[r] = batch[r] BY <1>1
  <2>. QED BY <1>1, <1>2, <2>1, QueueFrame
<1>. DEFINE h == Head(queue[q])
<1>4. /\ queue[q] \in Seq(Nat) /\ batch[q] \in Seq(Nat) /\ queue'[q] = Tail(queue[q]) /\ batch'[q] = Append(batch[q], h)
  BY <1>1
<1>5. /\ h \in Nat /\ queue'[q] \in Seq(Nat) /\ Log!ToSet(queue[q]) = {h} \cup Log!ToSet(queue'[q])
      /\ Log!Growing(queue'[q]) /\ \A a \in Log!ToSet(queue'[q]) : h < a
  <2>1. Log!Growing(queue[q]) BY DEF QueueKept
  <2>. QED BY <1>1, <1>4, <2>1, HeadFacts
<1>. HIDE DEF h
<1>6. \A a \in Log!ToSet(batch[q]) : a < h BY <1>5 DEF QueueKept, Log!Before
<1>7. batch'[q] \in Seq(Nat) /\ Log!ToSet(batch'[q]) = Log!ToSet(batch[q]) \cup {h} /\ Log!Growing(batch'[q])
  <2>1. Log!Growing(batch[q]) BY DEF QueueKept
  <2>. QED BY <1>4, <1>5, <1>6, <2>1, AppendFacts
<1>8. QueueKept(q)'
  <2>1. UNCHANGED <<table[q], lost[q], accepted[q], logged[q]>> BY <1>1
  <2>2. /\ Log!Growing(table'[q]) /\ Log!ToSet(table'[q]) = Log!ToSet(table[q]) /\ lost'[q] = lost[q]
        /\ Log!ToSet(accepted'[q]) = Log!ToSet(accepted[q]) /\ logged'[q] = logged[q]
    BY <2>1 DEF QueueKept
  <2>3. Log!Before(Log!ToSet(table'[q]) \cup lost'[q], Log!ToSet(batch'[q]) \cup Log!ToSet(queue'[q]))
    BY <2>2, <1>5, <1>7 DEF QueueKept, Log!Before
  <2>4. Log!Before(Log!ToSet(batch'[q]), Log!ToSet(queue'[q]))
    BY <1>5, <1>7 DEF QueueKept, Log!Before
  <2>5. pool' # "closed" BY <1>1 DEF QueueKept
  <2>6. Log!ToSet(accepted'[q]) = Log!ToSet(table'[q]) \cup lost'[q] \cup Log!ToSet(batch'[q]) \cup Log!ToSet(queue'[q])
    BY <2>2, <1>5, <1>7 DEF QueueKept
  <2>7. \A a \in Log!ToSet(accepted'[q]) : a <= logged'[q] BY <2>2 DEF QueueKept
  <2>8. Log!ToSet(table'[q]) \cap lost'[q] = {} BY <2>2 DEF QueueKept
  <2>. QED BY <1>2, <1>5, <1>7, <2>2, <2>3, <2>4, <2>5, <2>6, <2>7, <2>8 DEF QueueKept
<1>9. queue' \in [Queues -> Seq(Nat)] /\ batch' \in [Queues -> Seq(Nat)] BY <1>1, <1>4, <1>5, <1>7
<1>. QED BY <1>1, <1>2, <1>3, <1>8, <1>9

(* A flush empties the worker's hands: into the table, or into what is lost. *)
LEMMA FlushStep ==
  ASSUME QueueTypes, \A q \in Queues : QueueKept(q), NEW q \in Queues, Log!Flush(q) \/ Log!FlushFails(q)
  PROVE  QueueTypes' /\ \A r \in Queues : QueueKept(r)'
<1>. USE DEF QueueTypes
<1>1. /\ worker[q] \in {"flush", "lastflush"} /\ UNCHANGED <<pool, queue, logged, accepted>>
      /\ batch' = [batch EXCEPT ![q] = <<>>] /\ fails' \in Nat
  BY DEF Log!Flush, Log!FlushFails, Log!Flushed
<1>2. /\ worker' \in [Queues -> {"off", "idle", "flush", "lastflush", "stopped"}]
      /\ \A r \in Queues \ {q} : worker'[r] = worker[r]
  BY DEF Log!Flush, Log!FlushFails, Log!Flushed
<1>3. \/ table' = [table EXCEPT ![q] = @ \o batch[q]] /\ lost' = lost
      \/ table' = table /\ lost' = [lost EXCEPT ![q] = @ \cup Log!ToSet(batch[q])]
  BY DEF Log!Flush, Log!FlushFails
<1>4. \A r \in Queues \ {q} : QueueKept(r)'
  <2>. SUFFICES ASSUME NEW r \in Queues \ {q} PROVE QueueKept(r)' OBVIOUS
  <2>1. batch'[r] = batch[r] /\ table'[r] = table[r] /\ lost'[r] = lost[r] BY <1>1, <1>3
  <2>. QED BY <1>1, <1>2, <2>1, QueueFrame
<1>5. /\ queue[q] \in Seq(Nat) /\ batch[q] \in Seq(Nat) /\ table[q] \in Seq(Nat) /\ lost[q] \subseteq Nat
      /\ batch'[q] = <<>> /\ queue'[q] = queue[q] /\ accepted'[q] = accepted[q] /\ logged'[q] = logged[q]
  BY <1>1
<1>6. Log!ToSet(batch'[q]) = {} /\ Log!Growing(batch'[q]) BY <1>5, EmptyFacts
<1>7. pool' # "closed" BY <1>1 DEF QueueKept
<1>8. batch' \in [Queues -> Seq(Nat)] BY <1>1, EmptyFacts
<1>9. /\ Log!Growing(queue'[q]) /\ Log!ToSet(queue'[q]) = Log!ToSet(queue[q])
      /\ Log!ToSet(accepted'[q]) = Log!ToSet(accepted[q])
  BY <1>5 DEF QueueKept
<1>10. Log!Before(Log!ToSet(table[q]) \cup lost[q] \cup Log!ToSet(batch[q]), Log!ToSet(queue[q]))
  BY DEF QueueKept, Log!Before
<1>11. CASE table' = [table EXCEPT ![q] = @ \o batch[q]] /\ lost' = lost
  <2>1. table'[q] = table[q] \o batch[q] /\ lost'[q] = lost[q] BY <1>11
  <2>2. Log!Before(Log!ToSet(table[q]), Log!ToSet(batch[q])) BY DEF QueueKept, Log!Before
  <2>3. /\ table'[q] \in Seq(Nat) /\ Log!ToSet(table'[q]) = Log!ToSet(table[q]) \cup Log!ToSet(batch[q])
        /\ Log!Growing(table'[q])
    <3>1. Log!Growing(table[q]) /\ Log!Growing(batch[q]) BY DEF QueueKept
    <3>. QED BY <1>5, <2>1, <2>2, <3>1, JoinFacts
  <2>4. Log!ToSet(batch[q]) \cap lost[q] = {}
    <3>1. \A a \in lost[q], b \in Log!ToSet(batch[q]) : a < b BY DEF QueueKept, Log!Before
    <3>. QED BY <1>5, <3>1
  <2>5. Log!ToSet(accepted'[q]) = Log!ToSet(table'[q]) \cup lost'[q] \cup Log!ToSet(batch'[q]) \cup Log!ToSet(queue'[q])
    BY <2>1, <2>3, <1>6, <1>9 DEF QueueKept
  <2>6. Log!ToSet(table'[q]) \cap lost'[q] = {} BY <2>1, <2>3, <2>4 DEF QueueKept
  <2>7. /\ Log!Before(Log!ToSet(table'[q]) \cup lost'[q], Log!ToSet(batch'[q]) \cup Log!ToSet(queue'[q]))
        /\ Log!Before(Log!ToSet(batch'[q]), Log!ToSet(queue'[q]))
    BY <2>1, <2>3, <1>6, <1>9, <1>10 DEF Log!Before
  <2>8. \A a \in Log!ToSet(accepted'[q]) : a <= logged'[q] BY <1>5, <1>9 DEF QueueKept
  <2>9. QueueKept(q)' BY <1>5, <1>6, <1>7, <1>9, <2>3, <2>5, <2>6, <2>7, <2>8 DEF QueueKept
  <2>10. table' \in [Queues -> Seq(Nat)] BY <1>11, <2>1, <2>3
  <2>. QED BY <1>1, <1>2, <1>4, <1>8, <1>11, <2>9, <2>10
<1>12. CASE table' = table /\ lost' = [lost EXCEPT ![q] = @ \cup Log!ToSet(batch[q])]
  <2>1. table'[q] = table[q] /\ lost'[q] = lost[q] \cup Log!ToSet(batch[q]) BY <1>12
  <2>2. Log!ToSet(table'[q]) = Log!ToSet(table[q]) /\ Log!Growing(table'[q]) BY <2>1 DEF QueueKept
  <2>3. Log!ToSet(table[q]) \subseteq Nat /\ Log!ToSet(batch[q]) \subseteq Nat BY <1>5, Members
  <2>4. Log!ToSet(batch[q]) \cap Log!ToSet(table[q]) = {}
    <3>1. \A a \in Log!ToSet(table[q]), b \in Log!ToSet(batch[q]) : a < b BY DEF QueueKept, Log!Before
    <3>. QED BY <2>3, <3>1
  <2>5. Log!ToSet(accepted'[q]) = Log!ToSet(table'[q]) \cup lost'[q] \cup Log!ToSet(batch'[q]) \cup Log!ToSet(queue'[q])
    BY <2>1, <2>2, <1>6, <1>9 DEF QueueKept
  <2>6. Log!ToSet(table'[q]) \cap lost'[q] = {} BY <2>1, <2>2, <2>4 DEF QueueKept
  <2>7. /\ Log!Before(Log!ToSet(table'[q]) \cup lost'[q], Log!ToSet(batch'[q]) \cup Log!ToSet(queue'[q]))
        /\ Log!Before(Log!ToSet(batch'[q]), Log!ToSet(queue'[q]))
    BY <2>1, <2>2, <1>6, <1>9, <1>10 DEF Log!Before
  <2>8. \A a \in Log!ToSet(accepted'[q]) : a <= logged'[q] BY <1>5, <1>9 DEF QueueKept
  <2>9. QueueKept(q)' BY <1>5, <1>6, <1>7, <1>9, <2>2, <2>5, <2>6, <2>7, <2>8 DEF QueueKept
  <2>10. lost' \in [Queues -> SUBSET Nat] BY <1>12, <2>1, <2>3
  <2>. QED BY <1>1, <1>2, <1>4, <1>8, <1>12, <2>9, <2>10
<1>. QED BY <1>3, <1>11, <1>12

(* The other steps of a queue's worker, of the start and of the stop. *)
LEMMA WorkerStep ==
  ASSUME QueueTypes, \A q \in Queues : QueueKept(q),
         UNCHANGED <<queue, batch, logged, accepted, table, lost, fails>>,
         pool' \in {"nil", "open", "closed"},
         worker' \in [Queues -> {"off", "idle", "flush", "lastflush", "stopped"}],
         \A q \in Queues : worker'[q] = "stopped" => worker[q] = "stopped",
         pool' = "closed" => \A q \in Queues : worker'[q] = "stopped"
  PROVE  QueueTypes' /\ \A r \in Queues : QueueKept(r)'
<1>1. QueueTypes' BY DEF QueueTypes
<1>2. ASSUME NEW r \in Queues PROVE QueueKept(r)'
  BY <1>2 DEF QueueKept
<1>. QED BY <1>1, <1>2

(* The rows of the sessions. *)
LEMMA GoStep ==
  ASSUME RowTypes, Log!RowFollows, NEW s \in Sessions, Log!Go(s)
  PROVE  RowTypes' /\ Log!RowFollows'
<1>1. UNCHANGED <<pool, fails, taken, writing, row, raced>> BY DEF Log!Go
<1>2. sess' \in [Sessions -> {"new", "active", "ended"}] BY DEF Log!Go, RowTypes
<1>. QED BY <1>1, <1>2 DEF RowTypes, Log!RowFollows

LEMMA SnapshotStep ==
  ASSUME RowTypes, Log!RowFollows, NEW s \in Sessions, Log!Snapshot(s)
  PROVE  RowTypes' /\ Log!RowFollows'
<1>. DEFINE w == [id |-> s, state |-> sess[s], n |-> taken[s] + 1]
<1>1. /\ taken' = [taken EXCEPT ![s] = @ + 1] /\ writing' = writing \cup {w}
      /\ raced' = IF \E v \in writing : v.id = s THEN raced \cup {s} ELSE raced
      /\ UNCHANGED <<pool, fails, sess, row>>
  BY DEF Log!Snapshot
<1>2. w \in [id : Sessions, state : {"new", "active", "ended"}, n : Nat] BY DEF RowTypes
<1>3. w.id = s /\ w.n = taken[s] + 1 OBVIOUS
<1>. HIDE DEF w
<1>4. taken' \in [Sessions -> Nat] /\ taken'[s] = taken[s] + 1 /\ \A r \in Sessions \ {s} : taken'[r] = taken[r]
  BY <1>1 DEF RowTypes
<1>5. RowTypes' BY <1>1, <1>2, <1>4 DEF RowTypes
<1>6. raced \subseteq raced' /\ ((\E v \in writing : v.id = s) => s \in raced') BY <1>1
<1>7. ASSUME NEW r \in Sessions \ raced'
      PROVE  /\ \A v \in writing' : v.id = r => v.n = taken'[r]
             /\ (fails' = 0 /\ pool' # "closed") => (\E v \in writing' : v.id = r) \/ row'[r].n = taken'[r]
  <2>1. CASE r = s BY <2>1, <1>1, <1>3, <1>4, <1>6, <1>7
  <2>2. CASE r # s
    <3>1. taken'[r] = taken[r] /\ row'[r] = row[r] /\ r \notin raced BY <2>2, <1>1, <1>4, <1>6, <1>7
    <3>2. \A v \in writing' : v.id = r => v \in writing BY <2>2, <1>1, <1>3
    <3>. QED BY <3>1, <3>2, <1>1 DEF Log!RowFollows
  <2>. QED BY <2>1, <2>2
<1>. QED BY <1>5, <1>7 DEF Log!RowFollows

LEMMA UpsertStep ==
  ASSUME RowTypes, fails \in Nat, Log!RowFollows, NEW w \in writing, Log!Upsert(w)
  PROVE  RowTypes' /\ fails' \in Nat /\ Log!RowFollows'
<1>1. /\ writing' = writing \ {w} /\ UNCHANGED <<pool, sess, taken, raced>>
      /\ \/ pool = "open" /\ row' = [row EXCEPT ![w.id] = [state |-> w.state, n |-> w.n]] /\ fails' = fails
         \/ fails' = fails + 1 /\ row' = row
         \/ pool = "closed" /\ row' = row /\ fails' = fails
  BY DEF Log!Upsert
<1>2. w.id \in Sessions /\ w.state \in {"new", "active", "ended"} /\ w.n \in Nat BY DEF RowTypes
<1>3. fails' \in Nat /\ (fails' = 0 => fails = 0) BY <1>1
<1>4. row' \in [Sessions -> [state : {"none", "new", "active", "ended"}, n : Nat]]
  <2>1. [state |-> w.state, n |-> w.n] \in [state : {"none", "new", "active", "ended"}, n : Nat] BY <1>2
  <2>. QED BY <1>1, <2>1 DEF RowTypes
<1>5. RowTypes' BY <1>1, <1>4 DEF RowTypes
<1>6. ASSUME NEW r \in Sessions \ raced', fails' = 0, pool' # "closed", \A v \in writing' : v.id # r
      PROVE  row'[r].n = taken'[r]
  <2>1. fails = 0 /\ row' = [row EXCEPT ![w.id] = [state |-> w.state, n |-> w.n]] BY <1>1, <1>3, <1>6
  <2>2. CASE r = w.id
    <3>1. w.n = taken[r] BY <2>2, <1>1, <1>6 DEF Log!RowFollows
    <3>2. row'[r] = [state |-> w.state, n |-> w.n] BY <2>1, <2>2, <1>2 DEF RowTypes
    <3>. QED BY <1>1, <3>1, <3>2
  <2>3. CASE r # w.id
    <3>1. \A v \in writing : v.id # r BY <2>3, <1>1, <1>6
    <3>2. row[r].n = taken[r] BY <3>1, <2>1, <1>1, <1>6 DEF Log!RowFollows
    <3>3. row'[r] = row[r] BY <2>1, <2>3 DEF RowTypes
    <3>. QED BY <1>1, <3>2, <3>3
  <2>. QED BY <2>2, <2>3
<1>7. \A r \in Sessions \ raced' : \A v \in writing' : v.id = r => v.n = taken'[r]
  BY <1>1 DEF Log!RowFollows
<1>. QED BY <1>3, <1>5, <1>6, <1>7 DEF Log!RowFollows

LEMMA RowFrame ==
  ASSUME RowTypes, fails \in Nat, Log!RowFollows, UNCHANGED <<sess, taken, writing, row, raced>>,
         fails' = fails \/ fails' = fails + 1, pool' = pool \/ pool # "closed"
  PROVE  RowTypes' /\ Log!RowFollows'
<1>1. fails' = 0 => fails = 0 OBVIOUS
<1>2. RowTypes' BY DEF RowTypes
<1>3. pool' # "closed" => pool # "closed" OBVIOUS
<1>. QED BY <1>1, <1>2, <1>3 DEF Log!RowFollows

LEMMA QueuesFrame ==
  ASSUME QueueTypes, \A q \in Queues : QueueKept(q), UNCHANGED <<pool, worker, queue, batch, logged,
      accepted, table, lost>>,
         fails' \in Nat
  PROVE  QueueTypes' /\ \A r \in Queues : QueueKept(r)'
<1>1. QueueTypes' BY DEF QueueTypes
<1>2. \A r \in Queues : QueueKept(r)' BY DEF QueueKept
<1>. QED BY <1>1, <1>2

(* Every step of the session log keeps its invariant. *)
LEMMA LogKeeps == Log!LogInv /\ [Log!Next]_logVars => Log!LogInv'
<1>. SUFFICES ASSUME QueueTypes, RowTypes, \A q \in Queues : QueueKept(q), Log!RowFollows, [Log!Next]_logVars
     PROVE  QueueTypes' /\ RowTypes' /\ (\A q \in Queues : QueueKept(q)') /\ Log!RowFollows'
  BY LogParts, LogPartsNext
<1>1. fails \in Nat /\ pool \in {"nil", "open", "closed"} BY DEF QueueTypes
<1>2. CASE Log!Start
  <2>1. /\ worker' = [q \in Queues |-> "idle"] /\ pool' = "open" /\ pool = "nil"
        /\ UNCHANGED <<queue, batch, logged, accepted, table, lost, fails, sess, taken, writing, row, raced>>
    BY <1>2 DEF Log!Start, Log!rows
  <2>2. QueueTypes' /\ (\A q \in Queues : QueueKept(q)') BY <2>1, WorkerStep
  <2>. QED BY <1>1, <2>1, <2>2, RowFrame
<1>3. CASE Log!Stop \/ Log!ClosePool
  <2>1. /\ pool \notin {"nil", "closed"}
        /\ (pool' = pool \/ (pool' = "closed" /\ \A q \in Queues : worker[q] = "stopped"))
        /\ UNCHANGED <<worker, queue, batch, logged, accepted, table, lost, fails, sess, taken, writing, row, raced>>
    BY <1>3 DEF Log!Stop, Log!ClosePool, Log!rows, Log!queues
  <2>2. QueueTypes' /\ (\A q \in Queues : QueueKept(q)') BY <1>1, <2>1, WorkerStep DEF QueueTypes
  <2>. QED BY <1>1, <2>1, <2>2, RowFrame
<1>4. ASSUME NEW q \in Queues, Log!Tick(q) \/ Log!HeedStop(q)
      PROVE  QueueTypes' /\ RowTypes' /\ (\A r \in Queues : QueueKept(r)') /\ Log!RowFollows'
  <2>1. /\ \E l \in {"flush", "lastflush"} : worker' = [worker EXCEPT ![q] = l]
        /\ UNCHANGED <<pool, queue, batch, logged, accepted, table, lost, fails, sess, taken, writing, row, raced>>
        /\ worker[q] = "idle"
    BY <1>4 DEF Log!Tick, Log!HeedStop, Log!rows
  <2>2. pool # "closed" BY <2>1 DEF QueueKept
  <2>3. QueueTypes' /\ (\A r \in Queues : QueueKept(r)') BY <1>1, <2>1, <2>2, WorkerStep DEF QueueTypes
  <2>. QED BY <1>1, <2>1, <2>3, RowFrame
<1>5. ASSUME NEW q \in Queues, Log!Log(q) \/ Log!Take(q) \/ Log!Flush(q) \/ Log!FlushFails(q)
      PROVE  QueueTypes' /\ RowTypes' /\ (\A r \in Queues : QueueKept(r)') /\ Log!RowFollows'
  <2>1. QueueTypes' /\ (\A r \in Queues : QueueKept(r)') BY <1>5, LogStep, TakeStep, FlushStep
  <2>2. (fails' = fails \/ fails' = fails + 1) /\ UNCHANGED <<pool, sess, taken, writing, row, raced>>
    BY <1>5 DEF Log!Log, Log!Take, Log!Flush, Log!FlushFails, Log!rows
  <2>. QED BY <1>1, <2>1, <2>2, RowFrame
<1>6. ASSUME NEW s \in Sessions, Log!Go(s) \/ Log!Snapshot(s)
      PROVE  QueueTypes' /\ RowTypes' /\ (\A r \in Queues : QueueKept(r)') /\ Log!RowFollows'
  <2>1. UNCHANGED <<pool, worker, queue, batch, logged, accepted, table, lost, fails>>
    BY <1>6 DEF Log!Go, Log!Snapshot, Log!queues
  <2>. QED BY <1>1, <1>6, <2>1, QueuesFrame, GoStep, SnapshotStep
<1>7. ASSUME NEW w \in writing, Log!Upsert(w)
      PROVE  QueueTypes' /\ RowTypes' /\ (\A r \in Queues : QueueKept(r)') /\ Log!RowFollows'
  <2>1. UNCHANGED <<pool, worker, queue, batch, logged, accepted, table, lost>>
    BY <1>7 DEF Log!Upsert, Log!queues
  <2>. QED BY <1>1, <1>7, <2>1, QueuesFrame, UpsertStep
<1>8. CASE UNCHANGED logVars
  <2>1. UNCHANGED <<pool, worker, queue, batch, logged, accepted, table, lost, fails, sess, taken, writing, row, raced>>
    BY <1>8 DEF logVars
  <2>. QED BY <1>1, <2>1, QueuesFrame, RowFrame
<1>. QED BY <1>2, <1>3, <1>4, <1>5, <1>6, <1>7, <1>8 DEF Log!Next

LEMMA LogStarts == Log!Init => Log!LogInv
<1>. SUFFICES ASSUME Log!Init PROVE Log!LogInv OBVIOUS
<1>1. QueueTypes BY EmptyFacts DEF Log!Init, QueueTypes
<1>2. RowTypes BY DEF Log!Init, RowTypes, Log!NoRow
<1>3. \A q \in Queues : QueueKept(q)
  <2>. SUFFICES ASSUME NEW q \in Queues PROVE QueueKept(q) OBVIOUS
  <2>1. /\ queue[q] = <<>> /\ batch[q] = <<>> /\ accepted[q] = <<>> /\ table[q] = <<>> /\ lost[q] = {}
        /\ pool = "nil" /\ worker[q] = "off"
    BY DEF Log!Init
  <2>. QED BY <2>1, EmptyFacts DEF QueueKept, Log!Before
<1>4. Log!RowFollows BY DEF Log!Init, Log!RowFollows, Log!NoRow
<1>. QED BY <1>1, <1>2, <1>3, <1>4, LogParts

(* What the invariant says of the rows and the stop. *)
LEMMA LogMeans == Log!LogInv => LogKept
<1>. SUFFICES ASSUME QueueTypes, RowTypes, \A q \in Queues : QueueKept(q), Log!RowFollows PROVE LogKept
  BY LogParts
<1>1. Log!WrittenOnceInOrder
  <2>. SUFFICES ASSUME NEW q \in Queues
       PROVE  /\ \A i, j \in DOMAIN table[q] : i < j => table[q][i] < table[q][j]
              /\ Log!ToSet(table[q]) \subseteq Log!ToSet(accepted[q])
    BY DEF Log!WrittenOnceInOrder
  <2>. QED BY DEF QueueKept, Log!Growing
<1>2. Log!NoneCutOff
  <2>. SUFFICES ASSUME pool = "closed", NEW q \in Queues
       PROVE  /\ batch[q] = <<>>
              /\ Log!ToSet(accepted[q]) \ Log!ToSet(table[q]) = lost[q] \cup Log!ToSet(queue[q])
    BY DEF Log!NoneCutOff
  <2>1. batch[q] = <<>> /\ Log!ToSet(batch[q]) = {} BY EmptyFacts DEF QueueKept
  <2>2. \A a \in Log!ToSet(table[q]), b \in Log!ToSet(queue[q]) : a < b BY DEF QueueKept, Log!Before
  <2>3. Log!ToSet(table[q]) \subseteq Nat BY Members DEF QueueTypes
  <2>4. Log!ToSet(table[q]) \cap Log!ToSet(queue[q]) = {} BY <2>2, <2>3
  <2>. QED BY <2>1, <2>4 DEF QueueKept
<1>3. Log!RowIsLatest BY DEF Log!RowIsLatest, Log!RowFollows
<1>. QED BY <1>1, <1>2, <1>3 DEF LogKept, Log!LogKept

-----------------------------------------------------------------------------
(* The mobile login: types first. *)
LEMMA MobileTypes == Mobile!MobileInv /\ [Mobile!Next]_mobileVars => Mobile!TypeOK'
<1>. SUFFICES ASSUME Mobile!MobileInv, [Mobile!Next]_mobileVars PROVE Mobile!TypeOK' OBVIOUS
<1>0. Mobile!TypeOK /\ Mobile!Placed BY DEF Mobile!MobileInv
<1>. USE SocketAssumption, <1>0 DEF Mobile!TypeOK, Mobile!Sockets, Mobile!Goto, Mobile!bounds
<1>11. ASSUME NEW c \in Mobile!Sockets, pc[c] \in Mobile!LoggingIn \cup Mobile!LoggingOut PROVE c \in Phones
  BY <1>11 DEF Mobile!Placed
<1>1. ASSUME NEW c \in Mobile!Sockets, Mobile!Connect(c) PROVE Mobile!TypeOK'
  BY <1>1 DEF Mobile!Connect, Mobile!Reserve, Mobile!LoggingIn
<1>2. ASSUME NEW c \in Mobile!Sockets, Mobile!LoginStep(c) PROVE Mobile!TypeOK'
  <2>1. CASE Mobile!Account(c) BY <2>1 DEF Mobile!Account, Mobile!LoggingIn
  <2>2. CASE Mobile!BindUser(c) BY <2>2, <1>11 DEF Mobile!BindUser, Mobile!LoggingIn
  <2>3. CASE Mobile!LoginRegister(c) BY <2>3 DEF Mobile!LoginRegister, Mobile!RegisterTrunk, Mobile!LoggingIn
  <2>4. CASE Mobile!LoginAnswer(c) BY <2>4 DEF Mobile!LoginAnswer, Mobile!LoggingIn
  <2>5. CASE Mobile!Upgrade(c) BY <2>5 DEF Mobile!Upgrade, Mobile!LoggingIn
  <2>6. CASE Mobile!LoggedIn(c) BY <2>6 DEF Mobile!LoggedIn, Mobile!Release
  <2>. QED BY <1>2, <2>1, <2>2, <2>3, <2>4, <2>5, <2>6 DEF Mobile!LoginStep
<1>3. ASSUME NEW c \in Mobile!Sockets, Mobile!LoginFails(c) PROVE Mobile!TypeOK'
  BY <1>3 DEF Mobile!LoginFails, Mobile!Fail, Mobile!Release
<1>4. ASSUME NEW c \in Mobile!Sockets, Mobile!Unregister(c) \/ Mobile!UnregisterBusy(c) PROVE Mobile!TypeOK'
  BY <1>4 DEF Mobile!Unregister, Mobile!UnregisterBusy, Mobile!May, Mobile!Ask, Mobile!Reserve,
      Mobile!LoggingOut
<1>5. ASSUME NEW c \in Mobile!Sockets, Mobile!LogoutStep(c) PROVE Mobile!TypeOK'
  <2>1. CASE Mobile!Verify(c) BY <2>1 DEF Mobile!Verify, Mobile!LoggingOut
  <2>2. CASE Mobile!CheckShared(c) BY <2>2 DEF Mobile!CheckShared, Mobile!Release, Mobile!LoggingOut
  <2>3. CASE Mobile!LogoutBegin(c) BY <2>3, <1>11 DEF Mobile!LogoutBegin, Mobile!LoggingOut
  <2>4. CASE Mobile!LogoutAnswer(c) BY <2>4 DEF Mobile!LogoutAnswer, Mobile!LoggingOut
  <2>5. CASE Mobile!ClearToken(c) BY <2>5 DEF Mobile!ClearToken, Mobile!LoggingOut
  <2>6. CASE Mobile!ClearNotify(c) BY <2>6 DEF Mobile!ClearNotify, Mobile!LoggingOut
  <2>7. CASE Mobile!LogoutEnd(c) BY <2>7 DEF Mobile!LogoutEnd, Mobile!Release
  <2>. QED BY <1>5, <2>1, <2>2, <2>3, <2>4, <2>5, <2>6, <2>7 DEF Mobile!LogoutStep
<1>6. ASSUME NEW c \in Mobile!Sockets, Mobile!LogoutFails(c) PROVE Mobile!TypeOK'
  <2>1. /\ misses < MaxMobileFails /\ misses' = misses + 1
        /\ pc' = [pc EXCEPT ![c] = "in"] /\ reserved' = NoSocket
        /\ UNCHANGED <<connections, resolved, asked, asks, logins>>
    BY <1>6 DEF Mobile!LogoutFails, Mobile!Fail, Mobile!Release
  <2>2. contact' \in BOOLEAN /\ quiet' \in {"no", "releasing", "yes"}
    BY <1>6 DEF Mobile!LogoutFails
  <2>3. trunk' = [trunk EXCEPT !.lease = FALSE] \/ trunk' = [trunk EXCEPT !.lease = @]
    <3>1. CASE pc[c] = "logout_answer" BY <1>6, <3>1 DEF Mobile!LogoutFails
    <3>2. CASE pc[c] # "logout_answer" BY <1>6, <3>2 DEF Mobile!LogoutFails
    <3>. QED BY <3>1, <3>2
  <2>4. trunk' \in [auto : BOOLEAN, lease : BOOLEAN, notify : Phones \cup Guests \cup {NoSocket}]
    BY <2>3
  <2>. QED BY <2>1, <2>2, <2>4
<1>7. ASSUME NEW c \in Mobile!Sockets, Mobile!Resolve(c) \/ Mobile!PushToken(c) PROVE Mobile!TypeOK'
  BY <1>7 DEF Mobile!Resolve, Mobile!PushToken, Mobile!May, Mobile!Ask, Mobile!Resolving
<1>8. ASSUME NEW c \in Mobile!Sockets, Mobile!ResolveStep(c) PROVE Mobile!TypeOK'
  BY <1>8, ZenonT(60) DEF Mobile!ResolveStep, Mobile!MarkResolved, Mobile!ResolveBind, Mobile!PushStore,
      Mobile!PushRegister,
    Mobile!PushAnswer, Mobile!RegisterTrunk, Mobile!Resolving
<1>9. ASSUME NEW c \in Mobile!Sockets, Mobile!PushFails(c) \/ Mobile!Disconnect(c) PROVE Mobile!TypeOK'
  BY <1>9 DEF Mobile!PushFails, Mobile!Disconnect, Mobile!Fail
<1>10. CASE UNCHANGED mobileVars BY <1>10 DEF mobileVars
<1>. QED BY <1>1, <1>2, <1>3, <1>4, <1>5, <1>6, <1>7, <1>8, <1>9, <1>10 DEF Mobile!Next
(* The account is reserved by the phone that logs in or out. *)
LEMMA KeepsAccountFree == Mobile!MobileInv /\ [Mobile!Next]_mobileVars => Mobile!AccountFree'
<1>. SUFFICES ASSUME Mobile!MobileInv, [Mobile!Next]_mobileVars PROVE Mobile!AccountFree' OBVIOUS
<1>0. Mobile!TypeOK /\ Mobile!AccountFree /\ Mobile!Placed BY DEF Mobile!MobileInv
<1>. USE SocketAssumption, <1>0
      DEF Mobile!TypeOK, Mobile!Sockets, Mobile!Goto, Mobile!AccountFree, Mobile!Placed, Mobile!LoggingIn,
      Mobile!LoggingOut, Mobile!Resolving
<1>1. ASSUME NEW c \in Mobile!Sockets, Mobile!Connect(c) PROVE Mobile!AccountFree'
  BY <1>1 DEF Mobile!Connect, Mobile!Reserve
<1>2. ASSUME NEW c \in Mobile!Sockets, Mobile!Account(c) PROVE Mobile!AccountFree'
  BY <1>2 DEF Mobile!Account
<1>3. ASSUME NEW c \in Mobile!Sockets, Mobile!BindUser(c) PROVE Mobile!AccountFree'
  BY <1>3 DEF Mobile!BindUser
<1>4. ASSUME NEW c \in Mobile!Sockets, Mobile!LoginRegister(c) PROVE Mobile!AccountFree'
  BY <1>4 DEF Mobile!LoginRegister, Mobile!RegisterTrunk
<1>5. ASSUME NEW c \in Mobile!Sockets, Mobile!LoginAnswer(c) PROVE Mobile!AccountFree'
  BY <1>5 DEF Mobile!LoginAnswer
<1>6. ASSUME NEW c \in Mobile!Sockets, Mobile!Upgrade(c) PROVE Mobile!AccountFree'
  BY <1>6 DEF Mobile!Upgrade
<1>7. ASSUME NEW c \in Mobile!Sockets, Mobile!LoggedIn(c) PROVE Mobile!AccountFree'
  BY <1>7 DEF Mobile!LoggedIn, Mobile!Release
<1>8. ASSUME NEW c \in Mobile!Sockets, Mobile!LoginFails(c) PROVE Mobile!AccountFree'
  BY <1>8 DEF Mobile!LoginFails, Mobile!Release
<1>9. ASSUME NEW c \in Mobile!Sockets, Mobile!Unregister(c) PROVE Mobile!AccountFree'
  BY <1>9 DEF Mobile!Unregister, Mobile!May, Mobile!Reserve
<1>10. ASSUME NEW c \in Mobile!Sockets, Mobile!UnregisterBusy(c) PROVE Mobile!AccountFree'
  BY <1>10 DEF Mobile!UnregisterBusy
<1>11. ASSUME NEW c \in Mobile!Sockets, Mobile!Verify(c) PROVE Mobile!AccountFree'
  BY <1>11 DEF Mobile!Verify
<1>12. ASSUME NEW c \in Mobile!Sockets, Mobile!CheckShared(c) PROVE Mobile!AccountFree'
  BY <1>12 DEF Mobile!CheckShared, Mobile!Shared, Mobile!Release
<1>13. ASSUME NEW c \in Mobile!Sockets, Mobile!LogoutBegin(c) PROVE Mobile!AccountFree'
  BY <1>13 DEF Mobile!LogoutBegin
<1>14. ASSUME NEW c \in Mobile!Sockets, Mobile!LogoutAnswer(c) PROVE Mobile!AccountFree'
  BY <1>14 DEF Mobile!LogoutAnswer
<1>15. ASSUME NEW c \in Mobile!Sockets, Mobile!ClearToken(c) PROVE Mobile!AccountFree'
  BY <1>15 DEF Mobile!ClearToken
<1>16. ASSUME NEW c \in Mobile!Sockets, Mobile!ClearNotify(c) PROVE Mobile!AccountFree'
  BY <1>16 DEF Mobile!ClearNotify
<1>17. ASSUME NEW c \in Mobile!Sockets, Mobile!LogoutEnd(c) PROVE Mobile!AccountFree'
  BY <1>17 DEF Mobile!LogoutEnd, Mobile!Release
<1>18. ASSUME NEW c \in Mobile!Sockets, Mobile!LogoutFails(c) PROVE Mobile!AccountFree'
  BY <1>18 DEF Mobile!LogoutFails, Mobile!Release
<1>19. ASSUME NEW c \in Mobile!Sockets, Mobile!Resolve(c) PROVE Mobile!AccountFree'
  BY <1>19 DEF Mobile!Resolve, Mobile!May
<1>20. ASSUME NEW c \in Mobile!Sockets, Mobile!PushToken(c) PROVE Mobile!AccountFree'
  BY <1>20 DEF Mobile!PushToken, Mobile!May
<1>21. ASSUME NEW c \in Mobile!Sockets, Mobile!MarkResolved(c) PROVE Mobile!AccountFree'
  BY <1>21 DEF Mobile!MarkResolved
<1>22. ASSUME NEW c \in Mobile!Sockets, Mobile!ResolveBind(c) PROVE Mobile!AccountFree'
  BY <1>22 DEF Mobile!ResolveBind
<1>23. ASSUME NEW c \in Mobile!Sockets, Mobile!PushStore(c) PROVE Mobile!AccountFree'
  BY <1>23 DEF Mobile!PushStore
<1>24. ASSUME NEW c \in Mobile!Sockets, Mobile!PushRegister(c) PROVE Mobile!AccountFree'
  BY <1>24 DEF Mobile!PushRegister, Mobile!RegisterTrunk
<1>25. ASSUME NEW c \in Mobile!Sockets, Mobile!PushAnswer(c) PROVE Mobile!AccountFree'
  BY <1>25 DEF Mobile!PushAnswer
<1>26. ASSUME NEW c \in Mobile!Sockets, Mobile!PushFails(c) PROVE Mobile!AccountFree'
  BY <1>26 DEF Mobile!PushFails
<1>27. ASSUME NEW c \in Mobile!Sockets, Mobile!Disconnect(c) PROVE Mobile!AccountFree'
  BY <1>27 DEF Mobile!Disconnect
<1>28. CASE UNCHANGED mobileVars BY <1>28 DEF mobileVars, Mobile!Alone
<1>. QED BY <1>1, <1>2, <1>3, <1>4, <1>5, <1>6, <1>7, <1>8, <1>9, <1>10, <1>11, <1>12, <1>13, <1>14, <1>15,
      <1>16, <1>17, <1>18, <1>19, <1>20, <1>21, <1>22, <1>23, <1>24, <1>25, <1>26, <1>27,
      <1>28 DEF Mobile!Next, Mobile!LoginStep, Mobile!LogoutStep, Mobile!ResolveStep

(* A phone that logs in is not connected yet, and a guest neither logs in nor out. *)
LEMMA KeepsPlaced == Mobile!MobileInv /\ [Mobile!Next]_mobileVars => Mobile!Placed'
<1>. SUFFICES ASSUME Mobile!MobileInv, [Mobile!Next]_mobileVars PROVE Mobile!Placed' OBVIOUS
<1>0. Mobile!TypeOK /\ Mobile!Placed BY DEF Mobile!MobileInv
<1>. USE SocketAssumption, <1>0
      DEF Mobile!TypeOK, Mobile!Sockets, Mobile!Goto, Mobile!Placed, Mobile!LoggingIn, Mobile!LoggingOut,
      Mobile!Resolving
<1>1. ASSUME NEW c \in Mobile!Sockets, Mobile!Connect(c) PROVE Mobile!Placed'
  BY <1>1 DEF Mobile!Connect, Mobile!Reserve
<1>2. ASSUME NEW c \in Mobile!Sockets, Mobile!Account(c) PROVE Mobile!Placed'
  BY <1>2 DEF Mobile!Account
<1>3. ASSUME NEW c \in Mobile!Sockets, Mobile!BindUser(c) PROVE Mobile!Placed'
  BY <1>3 DEF Mobile!BindUser
<1>4. ASSUME NEW c \in Mobile!Sockets, Mobile!LoginRegister(c) PROVE Mobile!Placed'
  BY <1>4 DEF Mobile!LoginRegister, Mobile!RegisterTrunk
<1>5. ASSUME NEW c \in Mobile!Sockets, Mobile!LoginAnswer(c) PROVE Mobile!Placed'
  BY <1>5 DEF Mobile!LoginAnswer
<1>6. ASSUME NEW c \in Mobile!Sockets, Mobile!Upgrade(c) PROVE Mobile!Placed'
  BY <1>6 DEF Mobile!Upgrade
<1>7. ASSUME NEW c \in Mobile!Sockets, Mobile!LoggedIn(c) PROVE Mobile!Placed'
  BY <1>7 DEF Mobile!LoggedIn, Mobile!Release
<1>8. ASSUME NEW c \in Mobile!Sockets, Mobile!LoginFails(c) PROVE Mobile!Placed'
  BY <1>8 DEF Mobile!LoginFails, Mobile!Release
<1>9. ASSUME NEW c \in Mobile!Sockets, Mobile!Unregister(c) PROVE Mobile!Placed'
  BY <1>9 DEF Mobile!Unregister, Mobile!May, Mobile!Reserve
<1>10. ASSUME NEW c \in Mobile!Sockets, Mobile!UnregisterBusy(c) PROVE Mobile!Placed'
  BY <1>10 DEF Mobile!UnregisterBusy
<1>11. ASSUME NEW c \in Mobile!Sockets, Mobile!Verify(c) PROVE Mobile!Placed'
  BY <1>11 DEF Mobile!Verify
<1>12. ASSUME NEW c \in Mobile!Sockets, Mobile!CheckShared(c) PROVE Mobile!Placed'
  BY <1>12 DEF Mobile!CheckShared, Mobile!Shared, Mobile!Release
<1>13. ASSUME NEW c \in Mobile!Sockets, Mobile!LogoutBegin(c) PROVE Mobile!Placed'
  BY <1>13 DEF Mobile!LogoutBegin
<1>14. ASSUME NEW c \in Mobile!Sockets, Mobile!LogoutAnswer(c) PROVE Mobile!Placed'
  BY <1>14 DEF Mobile!LogoutAnswer
<1>15. ASSUME NEW c \in Mobile!Sockets, Mobile!ClearToken(c) PROVE Mobile!Placed'
  BY <1>15 DEF Mobile!ClearToken
<1>16. ASSUME NEW c \in Mobile!Sockets, Mobile!ClearNotify(c) PROVE Mobile!Placed'
  BY <1>16 DEF Mobile!ClearNotify
<1>17. ASSUME NEW c \in Mobile!Sockets, Mobile!LogoutEnd(c) PROVE Mobile!Placed'
  BY <1>17 DEF Mobile!LogoutEnd, Mobile!Release
<1>18. ASSUME NEW c \in Mobile!Sockets, Mobile!LogoutFails(c) PROVE Mobile!Placed'
  BY <1>18 DEF Mobile!LogoutFails, Mobile!Release
<1>19. ASSUME NEW c \in Mobile!Sockets, Mobile!Resolve(c) PROVE Mobile!Placed'
  BY <1>19 DEF Mobile!Resolve, Mobile!May
<1>20. ASSUME NEW c \in Mobile!Sockets, Mobile!PushToken(c) PROVE Mobile!Placed'
  BY <1>20 DEF Mobile!PushToken, Mobile!May
<1>21. ASSUME NEW c \in Mobile!Sockets, Mobile!MarkResolved(c) PROVE Mobile!Placed'
  BY <1>21 DEF Mobile!MarkResolved
<1>22. ASSUME NEW c \in Mobile!Sockets, Mobile!ResolveBind(c) PROVE Mobile!Placed'
  BY <1>22 DEF Mobile!ResolveBind
<1>23. ASSUME NEW c \in Mobile!Sockets, Mobile!PushStore(c) PROVE Mobile!Placed'
  BY <1>23 DEF Mobile!PushStore
<1>24. ASSUME NEW c \in Mobile!Sockets, Mobile!PushRegister(c) PROVE Mobile!Placed'
  BY <1>24 DEF Mobile!PushRegister, Mobile!RegisterTrunk
<1>25. ASSUME NEW c \in Mobile!Sockets, Mobile!PushAnswer(c) PROVE Mobile!Placed'
  BY <1>25 DEF Mobile!PushAnswer
<1>26. ASSUME NEW c \in Mobile!Sockets, Mobile!PushFails(c) PROVE Mobile!Placed'
  BY <1>26 DEF Mobile!PushFails
<1>27. ASSUME NEW c \in Mobile!Sockets, Mobile!Disconnect(c) PROVE Mobile!Placed'
  BY <1>27 DEF Mobile!Disconnect
<1>28. CASE UNCHANGED mobileVars BY <1>28 DEF mobileVars, Mobile!Alone
<1>. QED BY <1>1, <1>2, <1>3, <1>4, <1>5, <1>6, <1>7, <1>8, <1>9, <1>10, <1>11, <1>12, <1>13, <1>14, <1>15,
      <1>16, <1>17, <1>18, <1>19, <1>20, <1>21, <1>22, <1>23, <1>24, <1>25, <1>26, <1>27,
      <1>28 DEF Mobile!Next, Mobile!LoginStep, Mobile!LogoutStep, Mobile!ResolveStep

(* A logout past its check is that of the only phone: no other can log in meanwhile. *)
LEMMA KeepsLastPhone == Mobile!MobileInv /\ [Mobile!Next]_mobileVars => Mobile!LastPhone'
<1>. SUFFICES ASSUME Mobile!MobileInv, [Mobile!Next]_mobileVars PROVE Mobile!LastPhone' OBVIOUS
<1>0. Mobile!TypeOK /\ Mobile!LastPhone /\ Mobile!AccountFree /\ Mobile!Placed BY DEF Mobile!MobileInv
<1>. USE SocketAssumption, <1>0
      DEF Mobile!TypeOK, Mobile!Sockets, Mobile!Goto, Mobile!LastPhone, Mobile!AccountFree, Mobile!Placed,
      Mobile!LoggingIn, Mobile!LoggingOut, Mobile!Resolving
<1>1. ASSUME NEW c \in Mobile!Sockets, Mobile!Connect(c) PROVE Mobile!LastPhone'
  BY <1>1 DEF Mobile!Connect, Mobile!Reserve
<1>2. ASSUME NEW c \in Mobile!Sockets, Mobile!Account(c) PROVE Mobile!LastPhone'
  BY <1>2 DEF Mobile!Account
<1>3. ASSUME NEW c \in Mobile!Sockets, Mobile!BindUser(c) PROVE Mobile!LastPhone'
  BY <1>3 DEF Mobile!BindUser
<1>4. ASSUME NEW c \in Mobile!Sockets, Mobile!LoginRegister(c) PROVE Mobile!LastPhone'
  BY <1>4 DEF Mobile!LoginRegister, Mobile!RegisterTrunk
<1>5. ASSUME NEW c \in Mobile!Sockets, Mobile!LoginAnswer(c) PROVE Mobile!LastPhone'
  BY <1>5 DEF Mobile!LoginAnswer
<1>6. ASSUME NEW c \in Mobile!Sockets, Mobile!Upgrade(c) PROVE Mobile!LastPhone'
  BY <1>6 DEF Mobile!Upgrade
<1>7. ASSUME NEW c \in Mobile!Sockets, Mobile!LoggedIn(c) PROVE Mobile!LastPhone'
  BY <1>7 DEF Mobile!LoggedIn, Mobile!Release
<1>8. ASSUME NEW c \in Mobile!Sockets, Mobile!LoginFails(c) PROVE Mobile!LastPhone'
  BY <1>8 DEF Mobile!LoginFails, Mobile!Release
<1>9. ASSUME NEW c \in Mobile!Sockets, Mobile!Unregister(c) PROVE Mobile!LastPhone'
  BY <1>9 DEF Mobile!Unregister, Mobile!May, Mobile!Reserve
<1>10. ASSUME NEW c \in Mobile!Sockets, Mobile!UnregisterBusy(c) PROVE Mobile!LastPhone'
  BY <1>10 DEF Mobile!UnregisterBusy
<1>11. ASSUME NEW c \in Mobile!Sockets, Mobile!Verify(c) PROVE Mobile!LastPhone'
  BY <1>11 DEF Mobile!Verify
<1>12. ASSUME NEW c \in Mobile!Sockets, Mobile!CheckShared(c) PROVE Mobile!LastPhone'
  BY <1>12 DEF Mobile!CheckShared, Mobile!Shared, Mobile!Release
<1>13. ASSUME NEW c \in Mobile!Sockets, Mobile!LogoutBegin(c) PROVE Mobile!LastPhone'
  BY <1>13 DEF Mobile!LogoutBegin
<1>14. ASSUME NEW c \in Mobile!Sockets, Mobile!LogoutAnswer(c) PROVE Mobile!LastPhone'
  BY <1>14 DEF Mobile!LogoutAnswer
<1>15. ASSUME NEW c \in Mobile!Sockets, Mobile!ClearToken(c) PROVE Mobile!LastPhone'
  BY <1>15 DEF Mobile!ClearToken
<1>16. ASSUME NEW c \in Mobile!Sockets, Mobile!ClearNotify(c) PROVE Mobile!LastPhone'
  BY <1>16 DEF Mobile!ClearNotify
<1>17. ASSUME NEW c \in Mobile!Sockets, Mobile!LogoutEnd(c) PROVE Mobile!LastPhone'
  BY <1>17 DEF Mobile!LogoutEnd, Mobile!Release
<1>18. ASSUME NEW c \in Mobile!Sockets, Mobile!LogoutFails(c) PROVE Mobile!LastPhone'
  BY <1>18 DEF Mobile!LogoutFails, Mobile!Release
<1>19. ASSUME NEW c \in Mobile!Sockets, Mobile!Resolve(c) PROVE Mobile!LastPhone'
  BY <1>19 DEF Mobile!Resolve, Mobile!May
<1>20. ASSUME NEW c \in Mobile!Sockets, Mobile!PushToken(c) PROVE Mobile!LastPhone'
  BY <1>20 DEF Mobile!PushToken, Mobile!May
<1>21. ASSUME NEW c \in Mobile!Sockets, Mobile!MarkResolved(c) PROVE Mobile!LastPhone'
  BY <1>21 DEF Mobile!MarkResolved
<1>22. ASSUME NEW c \in Mobile!Sockets, Mobile!ResolveBind(c) PROVE Mobile!LastPhone'
  BY <1>22 DEF Mobile!ResolveBind
<1>23. ASSUME NEW c \in Mobile!Sockets, Mobile!PushStore(c) PROVE Mobile!LastPhone'
  BY <1>23 DEF Mobile!PushStore
<1>24. ASSUME NEW c \in Mobile!Sockets, Mobile!PushRegister(c) PROVE Mobile!LastPhone'
  BY <1>24 DEF Mobile!PushRegister, Mobile!RegisterTrunk
<1>25. ASSUME NEW c \in Mobile!Sockets, Mobile!PushAnswer(c) PROVE Mobile!LastPhone'
  BY <1>25 DEF Mobile!PushAnswer
<1>26. ASSUME NEW c \in Mobile!Sockets, Mobile!PushFails(c) PROVE Mobile!LastPhone'
  BY <1>26 DEF Mobile!PushFails
<1>27. ASSUME NEW c \in Mobile!Sockets, Mobile!Disconnect(c) PROVE Mobile!LastPhone'
  BY <1>27 DEF Mobile!Disconnect
<1>28. CASE UNCHANGED mobileVars BY <1>28 DEF mobileVars, Mobile!Alone
<1>. QED BY <1>1, <1>2, <1>3, <1>4, <1>5, <1>6, <1>7, <1>8, <1>9, <1>10, <1>11, <1>12, <1>13, <1>14, <1>15,
      <1>16, <1>17, <1>18, <1>19, <1>20, <1>21, <1>22, <1>23, <1>24, <1>25, <1>26, <1>27,
      <1>28 DEF Mobile!Next, Mobile!LoginStep, Mobile!LogoutStep, Mobile!ResolveStep

(* Nobody logs the account out while a phone logs in. *)
LEMMA KeepsAnswered == Mobile!MobileInv /\ [Mobile!Next]_mobileVars => Mobile!Answered'
<1>. SUFFICES ASSUME Mobile!MobileInv, [Mobile!Next]_mobileVars PROVE Mobile!Answered' OBVIOUS
<1>0. Mobile!TypeOK /\ Mobile!Answered /\ Mobile!AccountFree /\ Mobile!Placed BY DEF Mobile!MobileInv
<1>. USE SocketAssumption, <1>0
      DEF Mobile!TypeOK, Mobile!Sockets, Mobile!Goto, Mobile!Answered, Mobile!AccountFree, Mobile!Placed,
      Mobile!LoggingIn, Mobile!LoggingOut, Mobile!Resolving
<1>1. ASSUME NEW c \in Mobile!Sockets, Mobile!Connect(c) PROVE Mobile!Answered'
  BY <1>1 DEF Mobile!Connect, Mobile!Reserve
<1>2. ASSUME NEW c \in Mobile!Sockets, Mobile!Account(c) PROVE Mobile!Answered'
  BY <1>2 DEF Mobile!Account
<1>3. ASSUME NEW c \in Mobile!Sockets, Mobile!BindUser(c) PROVE Mobile!Answered'
  BY <1>3 DEF Mobile!BindUser
<1>4. ASSUME NEW c \in Mobile!Sockets, Mobile!LoginRegister(c) PROVE Mobile!Answered'
  BY <1>4 DEF Mobile!LoginRegister, Mobile!RegisterTrunk
<1>5. ASSUME NEW c \in Mobile!Sockets, Mobile!LoginAnswer(c) PROVE Mobile!Answered'
  BY <1>5 DEF Mobile!LoginAnswer
<1>6. ASSUME NEW c \in Mobile!Sockets, Mobile!Upgrade(c) PROVE Mobile!Answered'
  BY <1>6 DEF Mobile!Upgrade
<1>7. ASSUME NEW c \in Mobile!Sockets, Mobile!LoggedIn(c) PROVE Mobile!Answered'
  BY <1>7 DEF Mobile!LoggedIn, Mobile!Release
<1>8. ASSUME NEW c \in Mobile!Sockets, Mobile!LoginFails(c) PROVE Mobile!Answered'
  BY <1>8 DEF Mobile!LoginFails, Mobile!Release
<1>9. ASSUME NEW c \in Mobile!Sockets, Mobile!Unregister(c) PROVE Mobile!Answered'
  BY <1>9 DEF Mobile!Unregister, Mobile!May, Mobile!Reserve
<1>10. ASSUME NEW c \in Mobile!Sockets, Mobile!UnregisterBusy(c) PROVE Mobile!Answered'
  BY <1>10 DEF Mobile!UnregisterBusy
<1>11. ASSUME NEW c \in Mobile!Sockets, Mobile!Verify(c) PROVE Mobile!Answered'
  BY <1>11 DEF Mobile!Verify
<1>12. ASSUME NEW c \in Mobile!Sockets, Mobile!CheckShared(c) PROVE Mobile!Answered'
  BY <1>12 DEF Mobile!CheckShared, Mobile!Shared, Mobile!Release
<1>13. ASSUME NEW c \in Mobile!Sockets, Mobile!LogoutBegin(c) PROVE Mobile!Answered'
  BY <1>13 DEF Mobile!LogoutBegin
<1>14. ASSUME NEW c \in Mobile!Sockets, Mobile!LogoutAnswer(c) PROVE Mobile!Answered'
  BY <1>14 DEF Mobile!LogoutAnswer
<1>15. ASSUME NEW c \in Mobile!Sockets, Mobile!ClearToken(c) PROVE Mobile!Answered'
  BY <1>15 DEF Mobile!ClearToken
<1>16. ASSUME NEW c \in Mobile!Sockets, Mobile!ClearNotify(c) PROVE Mobile!Answered'
  BY <1>16 DEF Mobile!ClearNotify
<1>17. ASSUME NEW c \in Mobile!Sockets, Mobile!LogoutEnd(c) PROVE Mobile!Answered'
  BY <1>17 DEF Mobile!LogoutEnd, Mobile!Release
<1>18. ASSUME NEW c \in Mobile!Sockets, Mobile!LogoutFails(c) PROVE Mobile!Answered'
  BY <1>18 DEF Mobile!LogoutFails, Mobile!Release
<1>19. ASSUME NEW c \in Mobile!Sockets, Mobile!Resolve(c) PROVE Mobile!Answered'
  BY <1>19 DEF Mobile!Resolve, Mobile!May
<1>20. ASSUME NEW c \in Mobile!Sockets, Mobile!PushToken(c) PROVE Mobile!Answered'
  BY <1>20 DEF Mobile!PushToken, Mobile!May
<1>21. ASSUME NEW c \in Mobile!Sockets, Mobile!MarkResolved(c) PROVE Mobile!Answered'
  BY <1>21 DEF Mobile!MarkResolved
<1>22. ASSUME NEW c \in Mobile!Sockets, Mobile!ResolveBind(c) PROVE Mobile!Answered'
  BY <1>22 DEF Mobile!ResolveBind
<1>23. ASSUME NEW c \in Mobile!Sockets, Mobile!PushStore(c) PROVE Mobile!Answered'
  BY <1>23 DEF Mobile!PushStore
<1>24. ASSUME NEW c \in Mobile!Sockets, Mobile!PushRegister(c) PROVE Mobile!Answered'
  BY <1>24 DEF Mobile!PushRegister, Mobile!RegisterTrunk
<1>25. ASSUME NEW c \in Mobile!Sockets, Mobile!PushAnswer(c) PROVE Mobile!Answered'
  BY <1>25 DEF Mobile!PushAnswer
<1>26. ASSUME NEW c \in Mobile!Sockets, Mobile!PushFails(c) PROVE Mobile!Answered'
  BY <1>26 DEF Mobile!PushFails
<1>27. ASSUME NEW c \in Mobile!Sockets, Mobile!Disconnect(c) PROVE Mobile!Answered'
  BY <1>27 DEF Mobile!Disconnect
<1>28. CASE UNCHANGED mobileVars BY <1>28 DEF mobileVars, Mobile!Alone
<1>. QED BY <1>1, <1>2, <1>3, <1>4, <1>5, <1>6, <1>7, <1>8, <1>9, <1>10, <1>11, <1>12, <1>13, <1>14, <1>15,
      <1>16, <1>17, <1>18, <1>19, <1>20, <1>21, <1>22, <1>23, <1>24, <1>25, <1>26, <1>27,
      <1>28 DEF Mobile!Next, Mobile!LoginStep, Mobile!LogoutStep, Mobile!ResolveStep

(* A connected phone that was not logged out by itself stays registered. *)
LEMMA KeepsPhoneReachable == Mobile!MobileInv /\ [Mobile!Next]_mobileVars => Mobile!PhoneReachable'
<1>. SUFFICES ASSUME Mobile!MobileInv, [Mobile!Next]_mobileVars PROVE Mobile!PhoneReachable' OBVIOUS
<1>0. Mobile!TypeOK /\ Mobile!PhoneReachable /\ Mobile!AccountFree /\ Mobile!Placed /\ Mobile!LastPhone /\ Mobile!Answered BY DEF Mobile!MobileInv
<1>. USE SocketAssumption, <1>0
      DEF Mobile!TypeOK, Mobile!Sockets, Mobile!Goto, Mobile!PhoneReachable, Mobile!AccountFree,
      Mobile!Placed, Mobile!LastPhone, Mobile!Answered, Mobile!LoggingIn, Mobile!LoggingOut, Mobile!Resolving
<1>1. ASSUME NEW c \in Mobile!Sockets, Mobile!Connect(c) PROVE Mobile!PhoneReachable'
  BY <1>1 DEF Mobile!Connect, Mobile!Reserve
<1>2. ASSUME NEW c \in Mobile!Sockets, Mobile!Account(c) PROVE Mobile!PhoneReachable'
  BY <1>2 DEF Mobile!Account
<1>3. ASSUME NEW c \in Mobile!Sockets, Mobile!BindUser(c) PROVE Mobile!PhoneReachable'
  BY <1>3 DEF Mobile!BindUser
<1>4. ASSUME NEW c \in Mobile!Sockets, Mobile!LoginRegister(c) PROVE Mobile!PhoneReachable'
  BY <1>4 DEF Mobile!LoginRegister, Mobile!RegisterTrunk
<1>5. ASSUME NEW c \in Mobile!Sockets, Mobile!LoginAnswer(c) PROVE Mobile!PhoneReachable'
  BY <1>5 DEF Mobile!LoginAnswer
<1>6. ASSUME NEW c \in Mobile!Sockets, Mobile!Upgrade(c) PROVE Mobile!PhoneReachable'
  BY <1>6 DEF Mobile!Upgrade
<1>7. ASSUME NEW c \in Mobile!Sockets, Mobile!LoggedIn(c) PROVE Mobile!PhoneReachable'
  BY <1>7 DEF Mobile!LoggedIn, Mobile!Release
<1>8. ASSUME NEW c \in Mobile!Sockets, Mobile!LoginFails(c) PROVE Mobile!PhoneReachable'
  BY <1>8 DEF Mobile!LoginFails, Mobile!Release
<1>9. ASSUME NEW c \in Mobile!Sockets, Mobile!Unregister(c) PROVE Mobile!PhoneReachable'
  BY <1>9 DEF Mobile!Unregister, Mobile!May, Mobile!Reserve
<1>10. ASSUME NEW c \in Mobile!Sockets, Mobile!UnregisterBusy(c) PROVE Mobile!PhoneReachable'
  BY <1>10 DEF Mobile!UnregisterBusy
<1>11. ASSUME NEW c \in Mobile!Sockets, Mobile!Verify(c) PROVE Mobile!PhoneReachable'
  BY <1>11 DEF Mobile!Verify
<1>12. ASSUME NEW c \in Mobile!Sockets, Mobile!CheckShared(c) PROVE Mobile!PhoneReachable'
  BY <1>12 DEF Mobile!CheckShared, Mobile!Shared, Mobile!Release
<1>13. ASSUME NEW c \in Mobile!Sockets, Mobile!LogoutBegin(c) PROVE Mobile!PhoneReachable'
  BY <1>13 DEF Mobile!LogoutBegin
<1>14. ASSUME NEW c \in Mobile!Sockets, Mobile!LogoutAnswer(c) PROVE Mobile!PhoneReachable'
  BY <1>14 DEF Mobile!LogoutAnswer
<1>15. ASSUME NEW c \in Mobile!Sockets, Mobile!ClearToken(c) PROVE Mobile!PhoneReachable'
  BY <1>15 DEF Mobile!ClearToken
<1>16. ASSUME NEW c \in Mobile!Sockets, Mobile!ClearNotify(c) PROVE Mobile!PhoneReachable'
  BY <1>16 DEF Mobile!ClearNotify
<1>17. ASSUME NEW c \in Mobile!Sockets, Mobile!LogoutEnd(c) PROVE Mobile!PhoneReachable'
  BY <1>17 DEF Mobile!LogoutEnd, Mobile!Release
<1>18. ASSUME NEW c \in Mobile!Sockets, Mobile!LogoutFails(c) PROVE Mobile!PhoneReachable'
  <2>1. connections' = connections /\ asked' = asked BY <1>18 DEF Mobile!LogoutFails
  <2>2. CASE pc[c] = "logout_answer"
    <3>1. c \in Phones BY <1>18, <2>2
    <3>2. Phones \cap connections \subseteq {c} /\ c \in asked BY <2>2, <3>1
    <3>. QED BY <2>1, <3>2
  <2>3. CASE pc[c] # "logout_answer"
    <3>1. contact' = contact BY <1>18, <2>3 DEF Mobile!LogoutFails
    <3>. QED BY <2>1, <3>1
  <2>. QED BY <2>2, <2>3
<1>19. ASSUME NEW c \in Mobile!Sockets, Mobile!Resolve(c) PROVE Mobile!PhoneReachable'
  BY <1>19 DEF Mobile!Resolve, Mobile!May
<1>20. ASSUME NEW c \in Mobile!Sockets, Mobile!PushToken(c) PROVE Mobile!PhoneReachable'
  BY <1>20 DEF Mobile!PushToken, Mobile!May
<1>21. ASSUME NEW c \in Mobile!Sockets, Mobile!MarkResolved(c) PROVE Mobile!PhoneReachable'
  BY <1>21 DEF Mobile!MarkResolved
<1>22. ASSUME NEW c \in Mobile!Sockets, Mobile!ResolveBind(c) PROVE Mobile!PhoneReachable'
  BY <1>22 DEF Mobile!ResolveBind
<1>23. ASSUME NEW c \in Mobile!Sockets, Mobile!PushStore(c) PROVE Mobile!PhoneReachable'
  BY <1>23 DEF Mobile!PushStore
<1>24. ASSUME NEW c \in Mobile!Sockets, Mobile!PushRegister(c) PROVE Mobile!PhoneReachable'
  BY <1>24 DEF Mobile!PushRegister, Mobile!RegisterTrunk
<1>25. ASSUME NEW c \in Mobile!Sockets, Mobile!PushAnswer(c) PROVE Mobile!PhoneReachable'
  BY <1>25 DEF Mobile!PushAnswer
<1>26. ASSUME NEW c \in Mobile!Sockets, Mobile!PushFails(c) PROVE Mobile!PhoneReachable'
  BY <1>26 DEF Mobile!PushFails
<1>27. ASSUME NEW c \in Mobile!Sockets, Mobile!Disconnect(c) PROVE Mobile!PhoneReachable'
  BY <1>27 DEF Mobile!Disconnect
<1>28. CASE UNCHANGED mobileVars BY <1>28 DEF mobileVars, Mobile!Alone
<1>. QED BY <1>1, <1>2, <1>3, <1>4, <1>5, <1>6, <1>7, <1>8, <1>9, <1>10, <1>11, <1>12, <1>13, <1>14, <1>15,
      <1>16, <1>17, <1>18, <1>19, <1>20, <1>21, <1>22, <1>23, <1>24, <1>25, <1>26, <1>27,
      <1>28 DEF Mobile!Next, Mobile!LoginStep, Mobile!LogoutStep, Mobile!ResolveStep

(* A logout nobody disturbs takes away what would register the user again, step by step. *)
LEMMA KeepsReleasing == Mobile!MobileInv /\ [Mobile!Next]_mobileVars => Mobile!Releasing'
<1>. SUFFICES ASSUME Mobile!MobileInv, [Mobile!Next]_mobileVars PROVE Mobile!Releasing' OBVIOUS
<1>0. Mobile!TypeOK /\ Mobile!Releasing /\ Mobile!AccountFree /\ Mobile!Placed BY DEF Mobile!MobileInv
<1>. USE SocketAssumption, <1>0
      DEF Mobile!TypeOK, Mobile!Sockets, Mobile!Goto, Mobile!Releasing, Mobile!AccountFree, Mobile!Placed,
      Mobile!LoggingIn, Mobile!LoggingOut, Mobile!Resolving, Mobile!Alone
<1>1. ASSUME NEW c \in Mobile!Sockets, Mobile!Connect(c) PROVE Mobile!Releasing'
  BY <1>1 DEF Mobile!Connect, Mobile!Reserve
<1>2. ASSUME NEW c \in Mobile!Sockets, Mobile!Account(c) PROVE Mobile!Releasing'
  BY <1>2 DEF Mobile!Account
<1>3. ASSUME NEW c \in Mobile!Sockets, Mobile!BindUser(c) PROVE Mobile!Releasing'
  BY <1>3 DEF Mobile!BindUser
<1>4. ASSUME NEW c \in Mobile!Sockets, Mobile!LoginRegister(c) PROVE Mobile!Releasing'
  BY <1>4 DEF Mobile!LoginRegister, Mobile!RegisterTrunk
<1>5. ASSUME NEW c \in Mobile!Sockets, Mobile!LoginAnswer(c) PROVE Mobile!Releasing'
  BY <1>5 DEF Mobile!LoginAnswer
<1>6. ASSUME NEW c \in Mobile!Sockets, Mobile!Upgrade(c) PROVE Mobile!Releasing'
  BY <1>6 DEF Mobile!Upgrade
<1>7. ASSUME NEW c \in Mobile!Sockets, Mobile!LoggedIn(c) PROVE Mobile!Releasing'
  BY <1>7 DEF Mobile!LoggedIn, Mobile!Release
<1>8. ASSUME NEW c \in Mobile!Sockets, Mobile!LoginFails(c) PROVE Mobile!Releasing'
  BY <1>8 DEF Mobile!LoginFails, Mobile!Release
<1>9. ASSUME NEW c \in Mobile!Sockets, Mobile!Unregister(c) PROVE Mobile!Releasing'
  BY <1>9 DEF Mobile!Unregister, Mobile!May, Mobile!Reserve
<1>10. ASSUME NEW c \in Mobile!Sockets, Mobile!UnregisterBusy(c) PROVE Mobile!Releasing'
  BY <1>10 DEF Mobile!UnregisterBusy
<1>11. ASSUME NEW c \in Mobile!Sockets, Mobile!Verify(c) PROVE Mobile!Releasing'
  BY <1>11 DEF Mobile!Verify
<1>12. ASSUME NEW c \in Mobile!Sockets, Mobile!CheckShared(c) PROVE Mobile!Releasing'
  BY <1>12 DEF Mobile!CheckShared, Mobile!Shared, Mobile!Release
<1>13. ASSUME NEW c \in Mobile!Sockets, Mobile!LogoutBegin(c) PROVE Mobile!Releasing'
  BY <1>13 DEF Mobile!LogoutBegin
<1>14. ASSUME NEW c \in Mobile!Sockets, Mobile!LogoutAnswer(c) PROVE Mobile!Releasing'
  BY <1>14 DEF Mobile!LogoutAnswer
<1>15. ASSUME NEW c \in Mobile!Sockets, Mobile!ClearToken(c) PROVE Mobile!Releasing'
  BY <1>15 DEF Mobile!ClearToken
<1>16. ASSUME NEW c \in Mobile!Sockets, Mobile!ClearNotify(c) PROVE Mobile!Releasing'
  BY <1>16 DEF Mobile!ClearNotify
<1>17. ASSUME NEW c \in Mobile!Sockets, Mobile!LogoutEnd(c) PROVE Mobile!Releasing'
  BY <1>17 DEF Mobile!LogoutEnd, Mobile!Release
<1>18. ASSUME NEW c \in Mobile!Sockets, Mobile!LogoutFails(c) PROVE Mobile!Releasing'
  BY <1>18 DEF Mobile!LogoutFails, Mobile!Release
<1>19. ASSUME NEW c \in Mobile!Sockets, Mobile!Resolve(c) PROVE Mobile!Releasing'
  BY <1>19 DEF Mobile!Resolve, Mobile!May
<1>20. ASSUME NEW c \in Mobile!Sockets, Mobile!PushToken(c) PROVE Mobile!Releasing'
  BY <1>20 DEF Mobile!PushToken, Mobile!May
<1>21. ASSUME NEW c \in Mobile!Sockets, Mobile!MarkResolved(c) PROVE Mobile!Releasing'
  BY <1>21 DEF Mobile!MarkResolved
<1>22. ASSUME NEW c \in Mobile!Sockets, Mobile!ResolveBind(c) PROVE Mobile!Releasing'
  BY <1>22 DEF Mobile!ResolveBind
<1>23. ASSUME NEW c \in Mobile!Sockets, Mobile!PushStore(c) PROVE Mobile!Releasing'
  BY <1>23 DEF Mobile!PushStore
<1>24. ASSUME NEW c \in Mobile!Sockets, Mobile!PushRegister(c) PROVE Mobile!Releasing'
  BY <1>24 DEF Mobile!PushRegister, Mobile!RegisterTrunk
<1>25. ASSUME NEW c \in Mobile!Sockets, Mobile!PushAnswer(c) PROVE Mobile!Releasing'
  BY <1>25 DEF Mobile!PushAnswer
<1>26. ASSUME NEW c \in Mobile!Sockets, Mobile!PushFails(c) PROVE Mobile!Releasing'
  BY <1>26 DEF Mobile!PushFails
<1>27. ASSUME NEW c \in Mobile!Sockets, Mobile!Disconnect(c) PROVE Mobile!Releasing'
  BY <1>27 DEF Mobile!Disconnect
<1>28. CASE UNCHANGED mobileVars BY <1>28 DEF mobileVars
<1>. QED BY <1>1, <1>2, <1>3, <1>4, <1>5, <1>6, <1>7, <1>8, <1>9, <1>10, <1>11, <1>12, <1>13, <1>14, <1>15,
      <1>16, <1>17, <1>18, <1>19, <1>20, <1>21, <1>22, <1>23, <1>24, <1>25, <1>26, <1>27,
      <1>28 DEF Mobile!Next, Mobile!LoginStep, Mobile!LogoutStep, Mobile!ResolveStep

(* Logged out, nobody has the trunk or is about to. *)
LEMMA KeepsQuiet == Mobile!MobileInv /\ [Mobile!Next]_mobileVars => Mobile!Quiet'
<1>. SUFFICES ASSUME Mobile!MobileInv, [Mobile!Next]_mobileVars PROVE Mobile!Quiet' OBVIOUS
<1>0. Mobile!TypeOK /\ Mobile!Quiet /\ Mobile!AccountFree /\ Mobile!Placed /\ Mobile!Releasing BY DEF Mobile!MobileInv
<1>. USE SocketAssumption, <1>0
      DEF Mobile!TypeOK, Mobile!Sockets, Mobile!Goto, Mobile!Quiet, Mobile!AccountFree, Mobile!Placed,
      Mobile!Releasing, Mobile!LoggingIn, Mobile!LoggingOut, Mobile!Resolving, Mobile!Alone
<1>1. ASSUME NEW c \in Mobile!Sockets, Mobile!Connect(c) PROVE Mobile!Quiet'
  BY <1>1 DEF Mobile!Connect, Mobile!Reserve
<1>2. ASSUME NEW c \in Mobile!Sockets, Mobile!Account(c) PROVE Mobile!Quiet'
  BY <1>2 DEF Mobile!Account
<1>3. ASSUME NEW c \in Mobile!Sockets, Mobile!BindUser(c) PROVE Mobile!Quiet'
  BY <1>3 DEF Mobile!BindUser
<1>4. ASSUME NEW c \in Mobile!Sockets, Mobile!LoginRegister(c) PROVE Mobile!Quiet'
  BY <1>4 DEF Mobile!LoginRegister, Mobile!RegisterTrunk
<1>5. ASSUME NEW c \in Mobile!Sockets, Mobile!LoginAnswer(c) PROVE Mobile!Quiet'
  BY <1>5 DEF Mobile!LoginAnswer
<1>6. ASSUME NEW c \in Mobile!Sockets, Mobile!Upgrade(c) PROVE Mobile!Quiet'
  BY <1>6 DEF Mobile!Upgrade
<1>7. ASSUME NEW c \in Mobile!Sockets, Mobile!LoggedIn(c) PROVE Mobile!Quiet'
  BY <1>7 DEF Mobile!LoggedIn, Mobile!Release
<1>8. ASSUME NEW c \in Mobile!Sockets, Mobile!LoginFails(c) PROVE Mobile!Quiet'
  BY <1>8 DEF Mobile!LoginFails, Mobile!Release
<1>9. ASSUME NEW c \in Mobile!Sockets, Mobile!Unregister(c) PROVE Mobile!Quiet'
  BY <1>9 DEF Mobile!Unregister, Mobile!May, Mobile!Reserve
<1>10. ASSUME NEW c \in Mobile!Sockets, Mobile!UnregisterBusy(c) PROVE Mobile!Quiet'
  BY <1>10 DEF Mobile!UnregisterBusy
<1>11. ASSUME NEW c \in Mobile!Sockets, Mobile!Verify(c) PROVE Mobile!Quiet'
  BY <1>11 DEF Mobile!Verify
<1>12. ASSUME NEW c \in Mobile!Sockets, Mobile!CheckShared(c) PROVE Mobile!Quiet'
  BY <1>12 DEF Mobile!CheckShared, Mobile!Shared, Mobile!Release
<1>13. ASSUME NEW c \in Mobile!Sockets, Mobile!LogoutBegin(c) PROVE Mobile!Quiet'
  BY <1>13 DEF Mobile!LogoutBegin
<1>14. ASSUME NEW c \in Mobile!Sockets, Mobile!LogoutAnswer(c) PROVE Mobile!Quiet'
  BY <1>14 DEF Mobile!LogoutAnswer
<1>15. ASSUME NEW c \in Mobile!Sockets, Mobile!ClearToken(c) PROVE Mobile!Quiet'
  BY <1>15 DEF Mobile!ClearToken
<1>16. ASSUME NEW c \in Mobile!Sockets, Mobile!ClearNotify(c) PROVE Mobile!Quiet'
  BY <1>16 DEF Mobile!ClearNotify
<1>17. ASSUME NEW c \in Mobile!Sockets, Mobile!LogoutEnd(c) PROVE Mobile!Quiet'
  BY <1>17 DEF Mobile!LogoutEnd, Mobile!Release
<1>18. ASSUME NEW c \in Mobile!Sockets, Mobile!LogoutFails(c) PROVE Mobile!Quiet'
  BY <1>18 DEF Mobile!LogoutFails, Mobile!Release
<1>19. ASSUME NEW c \in Mobile!Sockets, Mobile!Resolve(c) PROVE Mobile!Quiet'
  BY <1>19 DEF Mobile!Resolve, Mobile!May
<1>20. ASSUME NEW c \in Mobile!Sockets, Mobile!PushToken(c) PROVE Mobile!Quiet'
  BY <1>20 DEF Mobile!PushToken, Mobile!May
<1>21. ASSUME NEW c \in Mobile!Sockets, Mobile!MarkResolved(c) PROVE Mobile!Quiet'
  BY <1>21 DEF Mobile!MarkResolved
<1>22. ASSUME NEW c \in Mobile!Sockets, Mobile!ResolveBind(c) PROVE Mobile!Quiet'
  BY <1>22 DEF Mobile!ResolveBind
<1>23. ASSUME NEW c \in Mobile!Sockets, Mobile!PushStore(c) PROVE Mobile!Quiet'
  BY <1>23 DEF Mobile!PushStore
<1>24. ASSUME NEW c \in Mobile!Sockets, Mobile!PushRegister(c) PROVE Mobile!Quiet'
  BY <1>24 DEF Mobile!PushRegister, Mobile!RegisterTrunk
<1>25. ASSUME NEW c \in Mobile!Sockets, Mobile!PushAnswer(c) PROVE Mobile!Quiet'
  BY <1>25 DEF Mobile!PushAnswer
<1>26. ASSUME NEW c \in Mobile!Sockets, Mobile!PushFails(c) PROVE Mobile!Quiet'
  BY <1>26 DEF Mobile!PushFails
<1>27. ASSUME NEW c \in Mobile!Sockets, Mobile!Disconnect(c) PROVE Mobile!Quiet'
  BY <1>27 DEF Mobile!Disconnect
<1>28. CASE UNCHANGED mobileVars BY <1>28 DEF mobileVars
<1>. QED BY <1>1, <1>2, <1>3, <1>4, <1>5, <1>6, <1>7, <1>8, <1>9, <1>10, <1>11, <1>12, <1>13, <1>14, <1>15,
      <1>16, <1>17, <1>18, <1>19, <1>20, <1>21, <1>22, <1>23, <1>24, <1>25, <1>26, <1>27,
      <1>28 DEF Mobile!Next, Mobile!LoginStep, Mobile!LogoutStep, Mobile!ResolveStep

(* And nothing registers the user again. *)
LEMMA KeepsLogoutLasts == Mobile!MobileInv /\ [Mobile!Next]_mobileVars => Mobile!LogoutLasts'
<1>. SUFFICES ASSUME Mobile!MobileInv, [Mobile!Next]_mobileVars PROVE Mobile!LogoutLasts' OBVIOUS
<1>0. Mobile!TypeOK /\ Mobile!LogoutLasts /\ Mobile!AccountFree /\ Mobile!Placed /\ Mobile!Releasing /\ Mobile!Quiet BY DEF Mobile!MobileInv
<1>. USE SocketAssumption, <1>0
      DEF Mobile!TypeOK, Mobile!Sockets, Mobile!Goto, Mobile!LogoutLasts, Mobile!AccountFree, Mobile!Placed,
      Mobile!Releasing, Mobile!Quiet, Mobile!LoggingIn, Mobile!LoggingOut, Mobile!Resolving, Mobile!Alone
<1>1. ASSUME NEW c \in Mobile!Sockets, Mobile!Connect(c) PROVE Mobile!LogoutLasts'
  BY <1>1 DEF Mobile!Connect, Mobile!Reserve
<1>2. ASSUME NEW c \in Mobile!Sockets, Mobile!Account(c) PROVE Mobile!LogoutLasts'
  BY <1>2 DEF Mobile!Account
<1>3. ASSUME NEW c \in Mobile!Sockets, Mobile!BindUser(c) PROVE Mobile!LogoutLasts'
  BY <1>3 DEF Mobile!BindUser
<1>4. ASSUME NEW c \in Mobile!Sockets, Mobile!LoginRegister(c) PROVE Mobile!LogoutLasts'
  BY <1>4 DEF Mobile!LoginRegister, Mobile!RegisterTrunk
<1>5. ASSUME NEW c \in Mobile!Sockets, Mobile!LoginAnswer(c) PROVE Mobile!LogoutLasts'
  BY <1>5 DEF Mobile!LoginAnswer
<1>6. ASSUME NEW c \in Mobile!Sockets, Mobile!Upgrade(c) PROVE Mobile!LogoutLasts'
  BY <1>6 DEF Mobile!Upgrade
<1>7. ASSUME NEW c \in Mobile!Sockets, Mobile!LoggedIn(c) PROVE Mobile!LogoutLasts'
  BY <1>7 DEF Mobile!LoggedIn, Mobile!Release
<1>8. ASSUME NEW c \in Mobile!Sockets, Mobile!LoginFails(c) PROVE Mobile!LogoutLasts'
  BY <1>8 DEF Mobile!LoginFails, Mobile!Release
<1>9. ASSUME NEW c \in Mobile!Sockets, Mobile!Unregister(c) PROVE Mobile!LogoutLasts'
  BY <1>9 DEF Mobile!Unregister, Mobile!May, Mobile!Reserve
<1>10. ASSUME NEW c \in Mobile!Sockets, Mobile!UnregisterBusy(c) PROVE Mobile!LogoutLasts'
  BY <1>10 DEF Mobile!UnregisterBusy
<1>11. ASSUME NEW c \in Mobile!Sockets, Mobile!Verify(c) PROVE Mobile!LogoutLasts'
  BY <1>11 DEF Mobile!Verify
<1>12. ASSUME NEW c \in Mobile!Sockets, Mobile!CheckShared(c) PROVE Mobile!LogoutLasts'
  BY <1>12 DEF Mobile!CheckShared, Mobile!Shared, Mobile!Release
<1>13. ASSUME NEW c \in Mobile!Sockets, Mobile!LogoutBegin(c) PROVE Mobile!LogoutLasts'
  BY <1>13 DEF Mobile!LogoutBegin
<1>14. ASSUME NEW c \in Mobile!Sockets, Mobile!LogoutAnswer(c) PROVE Mobile!LogoutLasts'
  BY <1>14 DEF Mobile!LogoutAnswer
<1>15. ASSUME NEW c \in Mobile!Sockets, Mobile!ClearToken(c) PROVE Mobile!LogoutLasts'
  BY <1>15 DEF Mobile!ClearToken
<1>16. ASSUME NEW c \in Mobile!Sockets, Mobile!ClearNotify(c) PROVE Mobile!LogoutLasts'
  BY <1>16 DEF Mobile!ClearNotify
<1>17. ASSUME NEW c \in Mobile!Sockets, Mobile!LogoutEnd(c) PROVE Mobile!LogoutLasts'
  BY <1>17 DEF Mobile!LogoutEnd, Mobile!Release
<1>18. ASSUME NEW c \in Mobile!Sockets, Mobile!LogoutFails(c) PROVE Mobile!LogoutLasts'
  BY <1>18 DEF Mobile!LogoutFails, Mobile!Release
<1>19. ASSUME NEW c \in Mobile!Sockets, Mobile!Resolve(c) PROVE Mobile!LogoutLasts'
  BY <1>19 DEF Mobile!Resolve, Mobile!May
<1>20. ASSUME NEW c \in Mobile!Sockets, Mobile!PushToken(c) PROVE Mobile!LogoutLasts'
  BY <1>20 DEF Mobile!PushToken, Mobile!May
<1>21. ASSUME NEW c \in Mobile!Sockets, Mobile!MarkResolved(c) PROVE Mobile!LogoutLasts'
  BY <1>21 DEF Mobile!MarkResolved
<1>22. ASSUME NEW c \in Mobile!Sockets, Mobile!ResolveBind(c) PROVE Mobile!LogoutLasts'
  BY <1>22 DEF Mobile!ResolveBind
<1>23. ASSUME NEW c \in Mobile!Sockets, Mobile!PushStore(c) PROVE Mobile!LogoutLasts'
  BY <1>23 DEF Mobile!PushStore
<1>24. ASSUME NEW c \in Mobile!Sockets, Mobile!PushRegister(c) PROVE Mobile!LogoutLasts'
  BY <1>24 DEF Mobile!PushRegister, Mobile!RegisterTrunk
<1>25. ASSUME NEW c \in Mobile!Sockets, Mobile!PushAnswer(c) PROVE Mobile!LogoutLasts'
  BY <1>25 DEF Mobile!PushAnswer
<1>26. ASSUME NEW c \in Mobile!Sockets, Mobile!PushFails(c) PROVE Mobile!LogoutLasts'
  BY <1>26 DEF Mobile!PushFails
<1>27. ASSUME NEW c \in Mobile!Sockets, Mobile!Disconnect(c) PROVE Mobile!LogoutLasts'
  BY <1>27 DEF Mobile!Disconnect
<1>28. CASE UNCHANGED mobileVars BY <1>28 DEF mobileVars
<1>. QED BY <1>1, <1>2, <1>3, <1>4, <1>5, <1>6, <1>7, <1>8, <1>9, <1>10, <1>11, <1>12, <1>13, <1>14, <1>15,
      <1>16, <1>17, <1>18, <1>19, <1>20, <1>21, <1>22, <1>23, <1>24, <1>25, <1>26, <1>27,
      <1>28 DEF Mobile!Next, Mobile!LoginStep, Mobile!LogoutStep, Mobile!ResolveStep

(* Every step of the sockets keeps the mobile login's invariant. *)
LEMMA MobileKeeps == Mobile!MobileInv /\ [Mobile!Next]_mobileVars => Mobile!MobileInv'
  BY MobileTypes, KeepsAccountFree, KeepsPlaced, KeepsLastPhone, KeepsAnswered, KeepsPhoneReachable,
     KeepsReleasing, KeepsQuiet, KeepsLogoutLasts DEF Mobile!MobileInv

LEMMA MobileStarts == Mobile!Init => Mobile!MobileInv
<1>. SUFFICES ASSUME Mobile!Init PROVE Mobile!MobileInv OBVIOUS
<1>. USE SocketAssumption DEF Mobile!Init, Mobile!Sockets
<1>1. Mobile!TypeOK
  <2>1. trunk \in [auto : BOOLEAN, lease : BOOLEAN, notify : Phones \cup Guests \cup {NoSocket}] OBVIOUS
  <2>2. {asks, logins, misses} = {0} /\ pc \in [Phones \cup Guests -> {"out"}] OBVIOUS
  <2>3. contact \in BOOLEAN /\ quiet \in {"no", "releasing", "yes"} OBVIOUS
  <2>. QED BY <2>1, <2>2, <2>3 DEF Mobile!TypeOK
<1>2. Mobile!AccountFree /\ Mobile!Placed BY DEF Mobile!AccountFree, Mobile!Placed, Mobile!LoggingIn,
      Mobile!LoggingOut
<1>3. Mobile!LastPhone /\ Mobile!Answered /\ Mobile!PhoneReachable
  BY DEF Mobile!LastPhone, Mobile!Answered, Mobile!PhoneReachable
<1>4. Mobile!Releasing /\ Mobile!Quiet /\ Mobile!LogoutLasts
  BY DEF Mobile!Releasing, Mobile!Quiet, Mobile!LogoutLasts
<1>. QED BY <1>1, <1>2, <1>3, <1>4 DEF Mobile!MobileInv

-----------------------------------------------------------------------------
(* The services together: whichever is at work, the others stay as they were. *)
ServicesInv == Log!LogInv /\ Mobile!MobileInv

LEMMA ServicesKeep == ServicesInv /\ [ServicesNext]_all => ServicesInv'
<1>. SUFFICES ASSUME ServicesInv, [ServicesNext]_all PROVE ServicesInv' OBVIOUS
<1>1. [Log!Next]_logVars /\ [Mobile!Next]_mobileVars
  <2>1. CASE ServicesNext BY <2>1, Zenon DEF ServicesNext
  <2>2. CASE UNCHANGED all BY <2>2, Zenon DEF all
  <2>. QED BY <2>1, <2>2
<1>. QED BY <1>1, LogKeeps, MobileKeeps DEF ServicesInv

(* The inductive invariant of the session log and of the mobile login, for any
   number of sessions, queues, records, failures, phones and guests. *)
THEOREM ServicesInvariance == ServicesSpec => []ServicesInv
<1>1. ServicesInit => ServicesInv BY LogStarts, MobileStarts DEF ServicesInit, ServicesInv
<1>. QED BY <1>1, ServicesKeep, PTL DEF ServicesSpec

(* The log's table holds accepted records only, each once and in order; the
   stop cuts no batch off; a session's row is its last snapshot unless two
   raced or a call to the database failed: batchWorker, flush and Stop of
   queue.go, UpsertSession of logstore.go. *)
THEOREM RecordsKept == ServicesSpec => []LogKept
<1>1. ServicesInv => LogKept BY LogMeans DEF ServicesInv
<1>. QED BY <1>1, ServicesInvariance, PTL

(* A connected phone that was not logged out stays registered, a logout lasts,
   and the account is reserved by whoever logs in or out and by nobody else:
   reserveMobileAccount and handleWSUnregister against trunk_resolve and
   trunk_push_token. *)
THEOREM LoginsKept == ServicesSpec => []AccountsKept
<1>1. ServicesInv => AccountsKept BY DEF ServicesInv, Mobile!MobileInv, AccountsKept, Mobile!AccountsKept
<1>. QED BY <1>1, ServicesInvariance, PTL

-----------------------------------------------------------------------------
(* The speech pipeline. *)
(* The bounds are numbers. *)
LEMMA Bounds == MaxStreams \in Nat /\ MaxEnables \in Nat /\ MaxPending \in Nat /\ MaxBad \in Nat
  BY BoundAssumption

USE Bounds


(* closeStreamLocked keeps the types of what it touches. *)
StreamTypes ==
  /\ stream \in [Pipes -> 0..MaxStreams] /\ buffered \in [Pipes -> 0..1]
  /\ life \in [Streams -> {"none", "open", "ended", "broken", "closed"}]

LEMMA CloseTypes == ASSUME TypeOK, NEW p \in Pipes, CloseStream(p) PROVE StreamTypes'
<1>1. stream' \in [Pipes -> 0..MaxStreams] /\ buffered' \in [Pipes -> 0..1]
  BY DEF TypeOK, CloseStream, NoStream
<1>2. life' \in [Streams -> {"none", "open", "ended", "broken", "closed"}]
  BY DEF TypeOK, CloseStream
<1>. QED BY <1>1, <1>2 DEF StreamTypes

(* It closes the stream of its pipeline and no other, and that one is forgotten. *)
LEMMA CloseEffect ==
  ASSUME TypeOK, StreamsKnown, StreamsOwned, NEW p \in Pipes, CloseStream(p), UNCHANGED <<owner, opened>>
  PROVE  /\ \A s \in Streams : life'[s] = "open" => life[s] = "open" /\ Current(s)'
         /\ \A s \in Streams : life[s] # "none" => life'[s] # "none"
         /\ \A s \in Streams : life'[s] # "none" => owner'[s] \in Pipes
         /\ \A q \in Pipes : stream'[q] # NoStream => q # p /\ stream'[q] = stream[q]
<1>1. stream' = [stream EXCEPT ![p] = NoStream] BY DEF CloseStream
<1>2. \A q \in Pipes : stream'[q] # NoStream => q # p /\ stream'[q] = stream[q]
  BY <1>1 DEF TypeOK
<1>3. CASE stream[p] = NoStream /\ life' = life
  <2>1. stream' = stream BY <1>1, <1>3 DEF TypeOK
  <2>. QED BY <1>2, <1>3, <2>1 DEF StreamsOwned, StreamsKnown, Current
<1>4. CASE stream[p] # NoStream /\ life' = [life EXCEPT ![stream[p]] = "closed"]
  <2>1. stream[p] \in Streams /\ owner[stream[p]] = p BY <1>4 DEF TypeOK, StreamsKnown, NoStream, Streams
  <2>2. \A s \in Streams : s # stream[p] => life'[s] = life[s] BY <1>4, <2>1 DEF TypeOK
  <2>3. life'[stream[p]] = "closed" BY <1>4, <2>1 DEF TypeOK
  <2>4. ASSUME NEW s \in Streams, life'[s] = "open" PROVE life[s] = "open" /\ Current(s)'
    <3>1. s # stream[p] /\ life[s] = "open" BY <2>2, <2>3, <2>4
    <3>2. Current(s) /\ owner[s] # p /\ owner[s] \in Pipes BY <3>1 DEF StreamsOwned, Current, StreamsKnown
    <3>. QED BY <3>1, <3>2, <1>1 DEF Current, TypeOK
  <2>. QED BY <1>2, <2>1, <2>2, <2>3, <2>4 DEF StreamsKnown
<1>. QED BY <1>3, <1>4 DEF CloseStream

(* Every step keeps the types. *)
LEMMA KeepsType == IInv /\ [Next]_vars => TypeOK'
<1>. SUFFICES ASSUME IInv, [Next]_vars PROVE TypeOK'  OBVIOUS
<1>. USE DEF IInv
<1>1. CASE Enable
  BY <1>1, SMTT(60) DEF TypeOK, Pipes, Enable, session, pipeline, streams
<1>2. CASE Disable
  BY <1>2 DEF TypeOK, Disable, session, pipeline, streams
<1>3. CASE Stop
  <2>1. pipe \in Pipes BY <1>3 DEF Stop, OneRuns, TypeOK, Pipes
  <2>2. StreamTypes' BY <2>1, <1>3, CloseTypes DEF Stop
  <2>3. pending' \in [Pipes -> 0..MaxPending] BY <2>1, <1>3 DEF TypeOK, Stop
  <2>6. late' \subseteq Pipes
    <3>1. late' = late \/ late' = late \cup {pipe} BY <1>3 DEF Stop
    <3>. QED BY <3>1, <2>1 DEF TypeOK
  <2>4. UNCHANGED <<dir, enables, over, crashed, running, partial, opened, reader, owner, caller, has, bad>>
        /\ pipe' = 0 /\ enabled' = FALSE /\ stopping' = FALSE
    BY <1>3 DEF Stop
  <2>5. pipe' \in 0..MaxEnables BY <2>4
  <2>7. enabled' \in BOOLEAN /\ stopping' \in BOOLEAN BY <2>4, Zenon
  <2>. QED BY <2>2, <2>3, <2>4, <2>5, <2>6, <2>7 DEF StreamTypes, TypeOK
<1>4. CASE SessionEnds
  BY <1>4 DEF TypeOK, SessionEnds, session, pipeline, streams
<1>5. CASE PacketOut
  BY <1>5 DEF TypeOK, PacketOut, Goto, callerOnly, session, pipeline, streams
<1>6. CASE CallOut
  BY <1>6 DEF TypeOK, CallOut, Return, Call, callerOnly, session, pipeline, streams
<1>7. CASE PacketIn
  BY <1>7 DEF TypeOK, PacketIn, Call, callerOnly, session, pipeline, streams
<1>8. CASE Check
  <2>1. has \in Pipes BY <1>8 DEF Check, CallerKnows
  <2>2. pending' \in [Pipes -> 0..MaxPending] /\ bad' \in 0..MaxBad BY <2>1, <1>8 DEF Check, TypeOK
  <2>. QED BY <2>2, <1>8 DEF TypeOK, Check, Return, Goto, callerOnly, session, streams
<1>9. CASE Lock
  BY <1>9 DEF TypeOK, Lock, Goto, callerOnly, session, pipeline, streams
<1>10. CASE Open
  <2>1. CASE opened < MaxStreams /\ opened' = opened + 1
    <3>1. opened + 1 \in Streams /\ opened' \in 0..MaxStreams BY <2>1 DEF TypeOK, Streams
    <3>2. has \in Pipes BY <1>10 DEF Open, CallerKnows
    <3>3. /\ life' = [life EXCEPT ![opened + 1] = "open"] /\ reader' = [reader EXCEPT ![opened + 1] = "recv"]
          /\ owner' = [owner EXCEPT ![opened + 1] = has] /\ stream' = [stream EXCEPT ![has] = opened + 1]
          /\ caller' = "append" /\ has' = has
      BY <2>1, <1>10 DEF Open, streams, Goto, TypeOK
    <3>. QED BY <3>1, <3>2, <3>3, <1>10, SMTT(40) DEF TypeOK, Open, callerOnly, session, Pipes
  <2>2. CASE caller' = "idle" /\ UNCHANGED <<streams, stream>>
    BY <2>2, <1>10 DEF TypeOK, Open, Return, Goto, session, pipeline, streams, callerOnly
  <2>. QED BY <2>1, <2>2, <1>10 DEF Open, Return
<1>11. CASE AddPacket
  <2>1. has \in Pipes BY <1>11 DEF AddPacket, CallerKnows
  <2>2. CASE buffered[has] = 0
    <3>1. buffered' = [buffered EXCEPT ![has] = 1] /\ Hear(has) /\ Return BY <2>2, <1>11 DEF AddPacket
    <3>2. buffered' \in [Pipes -> 0..1] /\ pending' \in [Pipes -> 0..MaxPending]
      BY <3>1, <2>1 DEF Hear, TypeOK
    <3>. QED BY <3>1, <3>2, <1>11 DEF TypeOK, AddPacket, Return, callerOnly, session, pipeline, streams
  <2>3. CASE buffered[has] # 0
    BY <2>3, <1>11 DEF TypeOK, AddPacket, Goto, callerOnly, session, pipeline, streams
  <2>. QED BY <2>2, <2>3
<1>12. CASE Sent
  <2>1. has \in Pipes BY <1>12 DEF Sent, CallerKnows
  <2>2. buffered' \in [Pipes -> 0..1] /\ pending' \in [Pipes -> 0..MaxPending]
    BY <2>1, <1>12 DEF Sent, Hear, TypeOK
  <2>. QED BY <2>2, <1>12 DEF TypeOK, Sent, Return, callerOnly, session, pipeline, streams
<1>13. CASE SendFails
  <2>1. has \in Pipes BY <1>13 DEF SendFails, CallerKnows
  <2>2. StreamTypes' BY <2>1, <1>13, CloseTypes DEF SendFails
  <2>. QED BY <2>2, <1>13 DEF StreamTypes, TypeOK, SendFails, Return, callerOnly, session
<1>14. ASSUME NEW s \in Streams, ServerEnds(s) PROVE TypeOK'
  BY <1>14 DEF TypeOK, ServerEnds, readerOnly, session, pipeline, streams
<1>15. ASSUME NEW s \in Streams, ResponseWithSound(s) PROVE TypeOK'
  BY <1>15 DEF TypeOK, StreamsKnown, ResponseWithSound, Queue, MayQueue, readerOnly, session, pipeline,
      streams
<1>16. ASSUME NEW s \in Streams, ResponseFinal(s) PROVE TypeOK'
  BY <1>16 DEF TypeOK, ResponseFinal, readerOnly, session, pipeline, streams
<1>17. ASSUME NEW s \in Streams, ResponsePartial(s) PROVE TypeOK'
  BY <1>17 DEF TypeOK, ResponsePartial, readerOnly, session, pipeline, streams
<1>18. ASSUME NEW s \in Streams, Spoken(s) PROVE TypeOK'
  <2>1. owner[s] \in Pipes BY <1>18 DEF Spoken, StreamsKnown
  <2>2. pending' \in [Pipes -> 0..MaxPending] BY <2>1, <1>18 DEF Spoken, Queue, MayQueue, TypeOK
  <2>. QED BY <2>2, <1>18 DEF TypeOK, Spoken, readerOnly, session
<1>19. ASSUME NEW s \in Streams, RecvEnds(s) PROVE TypeOK'
  BY <1>19 DEF TypeOK, RecvEnds, readerOnly, session, pipeline, streams
<1>20. ASSUME NEW s \in Streams, ReaderCloses(s) PROVE TypeOK'
  <2>1. owner[s] \in Pipes BY <1>20 DEF ReaderCloses, StreamsKnown
  <2>2. StreamTypes' BY <2>1, <1>20, CloseTypes DEF ReaderCloses, StreamTypes, TypeOK
  <2>. QED BY <2>2, <1>20 DEF StreamTypes, TypeOK, ReaderCloses, readerOnly, session
<1>21. ASSUME NEW p \in Pipes, PartialSpoken(p) PROVE TypeOK'
  <2>1. pending' \in [Pipes -> 0..MaxPending] BY <1>21 DEF PartialSpoken, Queue, MayQueue, TypeOK
  <2>. QED BY <2>1, <1>21 DEF TypeOK, PartialSpoken, readerOnly, session
<1>22. CASE UNCHANGED vars
  BY <1>22 DEF TypeOK, vars, session, pipeline, streams
<1>. QED BY <1>1, <1>2, <1>3, <1>4, <1>5, <1>6, <1>7, <1>8, <1>9, <1>10, <1>11, <1>12, <1>13, 
      <1>14, <1>15, <1>16, <1>17, <1>18, <1>19, <1>20, <1>21, <1>22 DEF Next, Process, Talk, Read

(* Every step keeps what is said of the pipelines that run. *)
LEMMA KeepsOne == IInv /\ [Next]_vars => OneRuns'
<1>. SUFFICES ASSUME IInv, [Next]_vars PROVE OneRuns'  OBVIOUS
<1>. USE DEF IInv
<1>1. CASE Enable
  BY <1>1 DEF OneRuns, TypeOK, Pipes, Enable, session, pipeline, streams
<1>2. CASE Disable
  BY <1>2 DEF OneRuns, TypeOK, Disable, session, pipeline, streams
<1>3. CASE Stop
  BY <1>3 DEF OneRuns, Stop, CloseStream, StreamLocked, session, pipeline, streams
<1>4. CASE SessionEnds
  BY <1>4 DEF OneRuns, SessionEnds, session, pipeline, streams
<1>5. CASE PacketOut
  BY <1>5 DEF OneRuns, PacketOut, Goto, callerOnly, session, pipeline, streams
<1>6. CASE CallOut
  BY <1>6 DEF OneRuns, CallOut, Return, Call, callerOnly, session, pipeline, streams
<1>7. CASE PacketIn
  BY <1>7 DEF OneRuns, PacketIn, Call, callerOnly, session, pipeline, streams
<1>8. CASE Check
  BY <1>8 DEF OneRuns, Check, Return, Goto, callerOnly, session, pipeline, streams
<1>9. CASE Lock
  BY <1>9 DEF OneRuns, Lock, Goto, callerOnly, session, pipeline, streams
<1>10. CASE Open
  BY <1>10 DEF OneRuns, Open, Goto, Return, callerOnly, session, pipeline, streams
<1>11. CASE AddPacket
  BY <1>11 DEF OneRuns, AddPacket, Goto, Return, Hear, callerOnly, session, pipeline, streams
<1>12. CASE Sent
  BY <1>12 DEF OneRuns, Sent, Return, Hear, callerOnly, session, pipeline, streams
<1>13. CASE SendFails
  BY <1>13 DEF OneRuns, SendFails, Return, CloseStream, callerOnly, session, pipeline, streams
<1>14. ASSUME NEW s \in Streams, ServerEnds(s) PROVE OneRuns'
  BY <1>14 DEF OneRuns, ServerEnds, readerOnly, session, pipeline, streams
<1>15. ASSUME NEW s \in Streams, ResponseWithSound(s) PROVE OneRuns'
  BY <1>15 DEF OneRuns, ResponseWithSound, Queue, MayQueue, readerOnly, session, pipeline, streams
<1>16. ASSUME NEW s \in Streams, ResponseFinal(s) PROVE OneRuns'
  BY <1>16 DEF OneRuns, ResponseFinal, readerOnly, session, pipeline, streams
<1>17. ASSUME NEW s \in Streams, ResponsePartial(s) PROVE OneRuns'
  BY <1>17 DEF OneRuns, ResponsePartial, readerOnly, session, pipeline, streams
<1>18. ASSUME NEW s \in Streams, Spoken(s) PROVE OneRuns'
  BY <1>18 DEF OneRuns, Spoken, Queue, MayQueue, readerOnly, session, pipeline, streams
<1>19. ASSUME NEW s \in Streams, RecvEnds(s) PROVE OneRuns'
  BY <1>19 DEF OneRuns, RecvEnds, readerOnly, session, pipeline, streams
<1>20. ASSUME NEW s \in Streams, ReaderCloses(s) PROVE OneRuns'
  BY <1>20 DEF OneRuns, ReaderCloses, CloseStream, StreamLocked, Current, readerOnly, session, pipeline,
      streams
<1>21. ASSUME NEW p \in Pipes, PartialSpoken(p) PROVE OneRuns'
  BY <1>21 DEF OneRuns, PartialSpoken, Queue, MayQueue, readerOnly, session, pipeline, streams
<1>22. CASE UNCHANGED vars
  BY <1>22 DEF OneRuns, vars, session, pipeline, streams
<1>. QED BY <1>1, <1>2, <1>3, <1>4, <1>5, <1>6, <1>7, <1>8, <1>9, <1>10, <1>11, <1>12, <1>13, 
      <1>14, <1>15, <1>16, <1>17, <1>18, <1>19, <1>20, <1>21, <1>22 DEF Next, Process, Talk, Read

(* Every step keeps what is said of the packet on its way. *)
LEMMA KeepsCaller == IInv /\ [Next]_vars => CallerKnows'
<1>. SUFFICES ASSUME IInv, [Next]_vars PROVE CallerKnows'  OBVIOUS
<1>. USE DEF IInv
<1>1. CASE Enable
  BY <1>1 DEF CallerKnows, OneRuns, TypeOK, Pipes, Enable, session, pipeline, streams
<1>2. CASE Disable
  BY <1>2 DEF CallerKnows, Disable, session, pipeline, streams
<1>3. CASE Stop
  BY <1>3 DEF CallerKnows, Stop, CloseStream, StreamLocked, session, pipeline, streams
<1>4. CASE SessionEnds
  BY <1>4 DEF CallerKnows, SessionEnds, session, pipeline, streams
<1>5. CASE PacketOut
  BY <1>5 DEF CallerKnows, PacketOut, Goto, callerOnly, session, pipeline, streams
<1>6. CASE CallOut
  BY <1>6 DEF CallerKnows, OneRuns, TypeOK, Pipes, CallOut, Return, Call, callerOnly, session, pipeline,
      streams
<1>7. CASE PacketIn
  BY <1>7 DEF CallerKnows, OneRuns, TypeOK, Pipes, PacketIn, Call, callerOnly, session, pipeline, streams
<1>8. CASE Check
  BY <1>8 DEF CallerKnows, OneRuns, TypeOK, Check, Return, Goto, callerOnly, session, pipeline, streams
<1>9. CASE Lock
  BY <1>9 DEF CallerKnows, Lock, Goto, callerOnly, session, pipeline, streams
<1>10. CASE Open
  BY <1>10, SMTT(60) DEF CallerKnows, OneRuns, TypeOK, Pipes, Streams, NoStream, Open, Goto, Return, callerOnly,
      session, pipeline, streams
<1>11. CASE AddPacket
  BY <1>11 DEF CallerKnows, AddPacket, Goto, Return, Hear, callerOnly, session, pipeline, streams
<1>12. CASE Sent
  BY <1>12 DEF CallerKnows, Sent, Return, Hear, callerOnly, session, pipeline, streams
<1>13. CASE SendFails
  BY <1>13 DEF CallerKnows, SendFails, Return, CloseStream, callerOnly, session, pipeline, streams
<1>14. ASSUME NEW s \in Streams, ServerEnds(s) PROVE CallerKnows'
  BY <1>14 DEF CallerKnows, ServerEnds, readerOnly, session, pipeline, streams
<1>15. ASSUME NEW s \in Streams, ResponseWithSound(s) PROVE CallerKnows'
  BY <1>15 DEF CallerKnows, ResponseWithSound, Queue, MayQueue, readerOnly, session, pipeline, streams
<1>16. ASSUME NEW s \in Streams, ResponseFinal(s) PROVE CallerKnows'
  BY <1>16 DEF CallerKnows, ResponseFinal, readerOnly, session, pipeline, streams
<1>17. ASSUME NEW s \in Streams, ResponsePartial(s) PROVE CallerKnows'
  BY <1>17 DEF CallerKnows, ResponsePartial, readerOnly, session, pipeline, streams
<1>18. ASSUME NEW s \in Streams, Spoken(s) PROVE CallerKnows'
  BY <1>18 DEF CallerKnows, Spoken, Queue, MayQueue, readerOnly, session, pipeline, streams
<1>19. ASSUME NEW s \in Streams, RecvEnds(s) PROVE CallerKnows'
  BY <1>19 DEF CallerKnows, RecvEnds, readerOnly, session, pipeline, streams
<1>20. ASSUME NEW s \in Streams, ReaderCloses(s) PROVE CallerKnows'
  BY <1>20 DEF CallerKnows, OneRuns, TypeOK, ReaderCloses, CloseStream, StreamLocked, Current,
      readerOnly, session, pipeline, streams
<1>21. ASSUME NEW p \in Pipes, PartialSpoken(p) PROVE CallerKnows'
  BY <1>21 DEF CallerKnows, PartialSpoken, Queue, MayQueue, readerOnly, session, pipeline, streams
<1>22. CASE UNCHANGED vars
  BY <1>22 DEF CallerKnows, vars, session, pipeline, streams
<1>. QED BY <1>1, <1>2, <1>3, <1>4, <1>5, <1>6, <1>7, <1>8, <1>9, <1>10, <1>11, <1>12, <1>13, 
      <1>14, <1>15, <1>16, <1>17, <1>18, <1>19, <1>20, <1>21, <1>22 DEF Next, Process, Talk, Read

(* Every step keeps what is said of streams and their readers. *)
LEMMA KeepsStreams == IInv /\ [Next]_vars => StreamsKnown'
<1>. SUFFICES ASSUME IInv, [Next]_vars PROVE StreamsKnown'  OBVIOUS
<1>. USE DEF IInv
<1>1. CASE Enable
  BY <1>1 DEF StreamsKnown, Enable, session, pipeline, streams
<1>2. CASE Disable
  BY <1>2 DEF StreamsKnown, Disable, session, pipeline, streams
<1>3. CASE Stop
  <2>1. pipe \in Pipes BY <1>3 DEF Stop, OneRuns, TypeOK, Pipes
  <2>2. CloseStream(pipe) /\ UNCHANGED <<owner, opened, reader>> BY <1>3 DEF Stop
  <2>. QED BY <2>1, <2>2, CloseEffect DEF StreamsKnown
<1>4. CASE SessionEnds
  BY <1>4 DEF StreamsKnown, SessionEnds, session, pipeline, streams
<1>5. CASE PacketOut
  BY <1>5 DEF StreamsKnown, PacketOut, Goto, callerOnly, session, pipeline, streams
<1>6. CASE CallOut
  BY <1>6 DEF StreamsKnown, CallOut, Return, Call, callerOnly, session, pipeline, streams
<1>7. CASE PacketIn
  BY <1>7 DEF StreamsKnown, PacketIn, Call, callerOnly, session, pipeline, streams
<1>8. CASE Check
  BY <1>8 DEF StreamsKnown, Check, Return, Goto, callerOnly, session, pipeline, streams
<1>9. CASE Lock
  BY <1>9 DEF StreamsKnown, Lock, Goto, callerOnly, session, pipeline, streams
<1>10. CASE Open
  <2>1. CASE opened < MaxStreams /\ opened' = opened + 1
    <3>1. /\ opened + 1 \in Streams /\ has \in Pipes /\ stream[has] = NoStream
          /\ life' = [life EXCEPT ![opened + 1] = "open"] /\ reader' = [reader EXCEPT ![opened + 1] = "recv"]
          /\ owner' = [owner EXCEPT ![opened + 1] = has] /\ stream' = [stream EXCEPT ![has] = opened + 1]
      BY <2>1, <1>10 DEF Open, streams, TypeOK, CallerKnows, Streams
    <3>2. \A p \in Pipes : stream[p] # opened + 1 BY <2>1 DEF StreamsKnown, TypeOK, NoStream
    <3>3. \A s \in Streams : life'[s] # "none" => owner'[s] \in Pipes BY <3>1 DEF StreamsKnown, TypeOK
    <3>4. \A s \in Streams : reader'[s] # "none" => life'[s] # "none" BY <3>1 DEF StreamsKnown, TypeOK
    <3>5. \A s \in Streams : reader'[s] = "failed" => life'[s] # "open" BY <3>1 DEF StreamsKnown, TypeOK
    <3>6. ASSUME NEW p \in Pipes, stream'[p] # NoStream
          PROVE  owner'[stream'[p]] = p /\ stream'[p] <= opened'
      <4>1. CASE p = has BY <4>1, <3>1, <2>1 DEF TypeOK
      <4>2. CASE p # has
        <5>1. stream'[p] = stream[p] /\ stream[p] \in Streams /\ stream[p] # opened + 1
          BY <4>2, <3>1, <3>2, <3>6 DEF TypeOK, NoStream, Streams
        <5>. QED BY <5>1, <3>1, <2>1, <3>6 DEF StreamsKnown, TypeOK, Streams
      <4>. QED BY <4>1, <4>2
    <3>. QED BY <3>3, <3>4, <3>5, <3>6 DEF StreamsKnown
  <2>2. CASE UNCHANGED <<streams, stream>>
    BY <2>2, <1>10 DEF StreamsKnown, Open, callerOnly, session, streams
  <2>. QED BY <2>1, <2>2, <1>10 DEF Open
<1>11. CASE AddPacket
  BY <1>11 DEF StreamsKnown, AddPacket, Goto, Return, Hear, callerOnly, session, pipeline, streams
<1>12. CASE Sent
  BY <1>12 DEF StreamsKnown, Sent, Return, Hear, callerOnly, session, pipeline, streams
<1>13. CASE SendFails
  BY <1>13, SMTT(60) DEF StreamsKnown, CallerKnows, OneRuns, TypeOK, Pipes, Streams, NoStream, SendFails, Return,
      CloseStream, callerOnly, session, pipeline, streams
<1>14. ASSUME NEW s \in Streams, ServerEnds(s) PROVE StreamsKnown'
  BY <1>14 DEF StreamsKnown, ServerEnds, readerOnly, session, pipeline, streams
<1>15. ASSUME NEW s \in Streams, ResponseWithSound(s) PROVE StreamsKnown'
  BY <1>15 DEF StreamsKnown, ResponseWithSound, Queue, MayQueue, readerOnly, session, pipeline, streams
<1>16. ASSUME NEW s \in Streams, ResponseFinal(s) PROVE StreamsKnown'
  BY <1>16 DEF StreamsKnown, ResponseFinal, readerOnly, session, pipeline, streams
<1>17. ASSUME NEW s \in Streams, ResponsePartial(s) PROVE StreamsKnown'
  BY <1>17 DEF StreamsKnown, ResponsePartial, readerOnly, session, pipeline, streams
<1>18. ASSUME NEW s \in Streams, Spoken(s) PROVE StreamsKnown'
  BY <1>18 DEF StreamsKnown, Spoken, Queue, MayQueue, readerOnly, session, pipeline, streams
<1>19. ASSUME NEW s \in Streams, RecvEnds(s) PROVE StreamsKnown'
  BY <1>19 DEF StreamsKnown, RecvEnds, readerOnly, session, pipeline, streams
<1>20. ASSUME NEW s \in Streams, ReaderCloses(s) PROVE StreamsKnown'
  BY <1>20 DEF StreamsKnown, TypeOK, ReaderCloses, CloseStream, StreamLocked, Current, readerOnly,
      session, pipeline, streams
<1>21. ASSUME NEW p \in Pipes, PartialSpoken(p) PROVE StreamsKnown'
  BY <1>21 DEF StreamsKnown, PartialSpoken, Queue, MayQueue, readerOnly, session, pipeline, streams
<1>22. CASE UNCHANGED vars
  BY <1>22 DEF StreamsKnown, vars, session, pipeline, streams
<1>. QED BY <1>1, <1>2, <1>3, <1>4, <1>5, <1>6, <1>7, <1>8, <1>9, <1>10, <1>11, <1>12, <1>13, 
      <1>14, <1>15, <1>16, <1>17, <1>18, <1>19, <1>20, <1>21, <1>22 DEF Next, Process, Talk, Read

(* Every step leaves open streams with their pipelines. *)
LEMMA KeepsOwned == IInv /\ [Next]_vars => StreamsOwned'
<1>. SUFFICES ASSUME IInv, [Next]_vars PROVE StreamsOwned'  OBVIOUS
<1>. USE DEF IInv
<1>1. CASE Enable
  BY <1>1 DEF StreamsOwned, Current, TypeOK, OneRuns, Pipes, Enable, session, pipeline, streams
<1>2. CASE Disable
  BY <1>2 DEF StreamsOwned, Current, Disable, session, pipeline, streams
<1>3. CASE Stop
  <2>1. pipe \in Pipes BY <1>3 DEF Stop, OneRuns, TypeOK, Pipes
  <2>2. CloseStream(pipe) /\ UNCHANGED <<owner, opened>> /\ late \subseteq late' BY <1>3 DEF Stop
  <2>. QED BY <2>1, <2>2, CloseEffect DEF StreamsOwned
<1>4. CASE SessionEnds
  BY <1>4 DEF StreamsOwned, Current, SessionEnds, session, pipeline, streams
<1>5. CASE PacketOut
  BY <1>5 DEF StreamsOwned, Current, PacketOut, Goto, callerOnly, session, pipeline, streams
<1>6. CASE CallOut
  BY <1>6 DEF StreamsOwned, Current, CallOut, Return, Call, callerOnly, session, pipeline, streams
<1>7. CASE PacketIn
  BY <1>7 DEF StreamsOwned, Current, PacketIn, Call, callerOnly, session, pipeline, streams
<1>8. CASE Check
  BY <1>8 DEF StreamsOwned, Current, Check, Return, Goto, callerOnly, session, pipeline, streams
<1>9. CASE Lock
  BY <1>9 DEF StreamsOwned, Current, Lock, Goto, callerOnly, session, pipeline, streams
<1>10. CASE Open
  <2>1. CASE opened < MaxStreams /\ opened' = opened + 1
    <3>1. /\ opened + 1 \in Streams /\ has \in Pipes /\ stream[has] = NoStream
          /\ life' = [life EXCEPT ![opened + 1] = "open"] /\ reader' = [reader EXCEPT ![opened + 1] = "recv"]
          /\ owner' = [owner EXCEPT ![opened + 1] = has] /\ stream' = [stream EXCEPT ![has] = opened + 1]
      BY <2>1, <1>10 DEF Open, streams, TypeOK, CallerKnows, Streams
    <3>2. ASSUME NEW s \in Streams, life'[s] = "open" PROVE Current(s)'
      <4>1. CASE s = opened + 1
        <5>1. owner'[s] = has /\ stream'[has] = s /\ has # 0 BY <4>1, <3>1 DEF TypeOK, Pipes
        <5>. QED BY <5>1 DEF Current
      <4>2. CASE s # opened + 1
        <5>1. owner'[s] = owner[s] /\ Current(s) BY <4>2, <3>1, <3>2 DEF TypeOK, StreamsOwned
        <5>2. owner[s] # has BY <5>1, <3>1 DEF Current, NoStream, Streams
        <5>. QED BY <5>1, <5>2, <3>1, <3>2 DEF Current, TypeOK, StreamsKnown, StreamsOwned
      <4>. QED BY <4>1, <4>2
    <3>3. ASSUME NEW p \in Pipes, stream'[p] # NoStream, p # pipe PROVE p \in late
      BY <3>1, <3>3, <1>10 DEF StreamsOwned, TypeOK, CallerKnows, Open
    <3>. QED BY <3>2, <3>3, <1>10 DEF StreamsOwned, Open, callerOnly, session
  <2>2. CASE UNCHANGED <<streams, stream>>
    BY <2>2, <1>10 DEF StreamsOwned, Current, Open, callerOnly, session, streams
  <2>. QED BY <2>1, <2>2, <1>10 DEF Open
<1>11. CASE AddPacket
  BY <1>11 DEF StreamsOwned, Current, AddPacket, Goto, Return, Hear, callerOnly, session, pipeline, streams
<1>12. CASE Sent
  BY <1>12 DEF StreamsOwned, Current, Sent, Return, Hear, callerOnly, session, pipeline, streams
<1>13. CASE SendFails
  <2>1. has \in Pipes BY <1>13 DEF SendFails, CallerKnows
  <2>2. CloseStream(has) /\ UNCHANGED <<owner, opened, late, pipe>>
    BY <1>13 DEF SendFails, callerOnly, session
  <2>. QED BY <2>1, <2>2, CloseEffect DEF StreamsOwned
<1>14. ASSUME NEW s \in Streams, ServerEnds(s) PROVE StreamsOwned'
  BY <1>14 DEF StreamsOwned, Current, ServerEnds, readerOnly, session, pipeline, streams
<1>15. ASSUME NEW s \in Streams, ResponseWithSound(s) PROVE StreamsOwned'
  BY <1>15 DEF StreamsOwned, Current, ResponseWithSound, Queue, MayQueue, readerOnly, session, pipeline,
      streams
<1>16. ASSUME NEW s \in Streams, ResponseFinal(s) PROVE StreamsOwned'
  BY <1>16 DEF StreamsOwned, Current, ResponseFinal, readerOnly, session, pipeline, streams
<1>17. ASSUME NEW s \in Streams, ResponsePartial(s) PROVE StreamsOwned'
  BY <1>17 DEF StreamsOwned, Current, ResponsePartial, readerOnly, session, pipeline, streams
<1>18. ASSUME NEW s \in Streams, Spoken(s) PROVE StreamsOwned'
  BY <1>18 DEF StreamsOwned, Current, Spoken, Queue, MayQueue, readerOnly, session, pipeline, streams
<1>19. ASSUME NEW s \in Streams, RecvEnds(s) PROVE StreamsOwned'
  BY <1>19 DEF StreamsOwned, Current, RecvEnds, readerOnly, session, pipeline, streams
<1>20. ASSUME NEW s \in Streams, ReaderCloses(s) PROVE StreamsOwned'
  <2>1. UNCHANGED <<owner, opened, pipe, late>> BY <1>20 DEF ReaderCloses, readerOnly, session
  <2>2. owner[s] \in Pipes BY <1>20 DEF ReaderCloses, StreamsKnown
  <2>3. CASE CloseStream(owner[s]) BY <2>1, <2>2, <2>3, CloseEffect DEF StreamsOwned
  <2>4. CASE UNCHANGED <<stream, buffered, life>> BY <2>1, <2>4 DEF StreamsOwned, Current
  <2>. QED BY <2>3, <2>4, <1>20 DEF ReaderCloses
<1>21. ASSUME NEW p \in Pipes, PartialSpoken(p) PROVE StreamsOwned'
  BY <1>21 DEF StreamsOwned, Current, PartialSpoken, Queue, MayQueue, readerOnly, session, pipeline, streams
<1>22. CASE UNCHANGED vars
  BY <1>22 DEF StreamsOwned, Current, vars, session, pipeline, streams
<1>. QED BY <1>1, <1>2, <1>3, <1>4, <1>5, <1>6, <1>7, <1>8, <1>9, <1>10, <1>11, <1>12, <1>13, 
      <1>14, <1>15, <1>16, <1>17, <1>18, <1>19, <1>20, <1>21, <1>22 DEF Next, Process, Talk, Read

(* At the start there is neither a pipeline nor a stream. *)
LEMMA Starts == Init => IInv
<1>. SUFFICES ASSUME Init PROVE IInv  OBVIOUS
<1>1. TypeOK
  <2>1. enabled \in BOOLEAN /\ stopping \in BOOLEAN /\ over \in BOOLEAN /\ crashed \in BOOLEAN
    BY Zenon DEF Init
  <2>. QED BY <2>1 DEF Init, TypeOK, Pipes, Streams, NoStream
<1>2. OneRuns /\ CallerKnows BY DEF Init, OneRuns, CallerKnows, Pipes
<1>3. StreamsKnown /\ StreamsOwned BY DEF Init, StreamsKnown, StreamsOwned, NoStream, Pipes, Streams
<1>. QED BY <1>1, <1>2, <1>3 DEF IInv

(* The inductive invariant: whatever the translator does and whenever
   translation is switched on and off. *)
THEOREM Invariance == Spec => []IInv
<1>1. IInv /\ [Next]_vars => IInv'
  BY KeepsType, KeepsOne, KeepsCaller, KeepsStreams, KeepsOwned DEF IInv
<1>. QED BY Starts, <1>1, PTL DEF Spec

(* Variables keep to their types. *)
THEOREM TypeCorrect == Spec => []TypeOK
<1>1. IInv => TypeOK BY DEF IInv
<1>. QED BY Invariance, <1>1, PTL

(* An open stream is the stream of a pipeline, and only of a stopped one where
   a packet had passed the running check: closeStreamLocked never forgets a
   stream it did not cancel, and ensureStreamLocked never replaces one. *)
THEOREM StreamsHaveOwners == Spec => []StreamsOwned
<1>1. IInv => StreamsOwned BY DEF IInv
<1>. QED BY Invariance, <1>1, PTL

(* One step closes no open stream unless its pipeline is being stopped. *)
LEMMA ClosesOnlyFailed ==
  ASSUME IInv, [Next]_vars, NEW s \in Streams, life[s] = "open", life'[s] = "closed"
  PROVE  stopping
<1>. USE DEF IInv
<1>1. CASE Stop BY <1>1 DEF Stop
<1>2. CASE SendFails
  <2>1. /\ stream[has] # NoStream /\ life[stream[has]] # "open"
        /\ life' = [life EXCEPT ![stream[has]] = "closed"]
    BY <1>2 DEF SendFails, CloseStream, CallerKnows
  <2>. QED BY <2>1 DEF TypeOK
<1>3. ASSUME NEW u \in Streams, ReaderCloses(u) PROVE FALSE
  <2>1. life[u] # "open" BY <1>3 DEF ReaderCloses, StreamsKnown
  <2>2. life' = life \/ life' = [life EXCEPT ![u] = "closed"]
    BY <1>3 DEF ReaderCloses, Current, CloseStream
  <2>. QED BY <2>1, <2>2 DEF TypeOK
<1>4. CASE Open
  <2>1. life' = life \/ life' = [life EXCEPT ![opened + 1] = "open"] BY <1>4 DEF Open, streams
  <2>. QED BY <2>1 DEF TypeOK
<1>5. ASSUME NEW u \in Streams, ServerEnds(u) PROVE FALSE
  <2>1. \E how \in {"ended", "broken"} : life' = [life EXCEPT ![u] = how] BY <1>5 DEF ServerEnds
  <2>. QED BY <2>1 DEF TypeOK
<1>6. CASE Enable \/ Disable \/ SessionEnds
  <2>1. life' = life BY <1>6 DEF Enable, Disable, SessionEnds, streams
  <2>. QED BY <2>1
<1>10. CASE PacketOut \/ CallOut \/ PacketIn
  <2>1. life' = life BY <1>10 DEF PacketOut, CallOut, PacketIn, streams
  <2>. QED BY <2>1
<1>11. CASE Check \/ Lock \/ AddPacket \/ Sent
  <2>1. life' = life BY <1>11 DEF Check, Lock, AddPacket, Sent, streams
  <2>. QED BY <2>1
<1>7. ASSUME NEW u \in Streams, Talk(u) \/ Spoken(u) \/ RecvEnds(u) PROVE FALSE
  BY <1>7 DEF Talk, ResponseWithSound, ResponseFinal, ResponsePartial, Spoken, RecvEnds
<1>8. ASSUME NEW p \in Pipes, PartialSpoken(p) PROVE FALSE BY <1>8 DEF PartialSpoken
<1>9. CASE UNCHANGED vars BY <1>9 DEF vars, streams
<1>. QED BY <1>1, <1>2, <1>3, <1>4, <1>5, <1>6, <1>7, <1>8, <1>9, <1>10, <1>11 DEF Next, Process, Read

(* A working stream ends with its pipeline only: the reader of an earlier
   stream, which looks whether it is still current, never closes it. *)
THEOREM WorkingStreamsKept == Spec => WorkingStreamKept
<1>1. IInv /\ [Next]_vars => [\A s \in Streams : life[s] = "open" /\ life'[s] = "closed" => stopping]_vars
  BY ClosesOnlyFailed
<1>. QED BY Invariance, <1>1, PTL DEF Spec, WorkingStreamKept
=============================================================================
