----------------------------- MODULE SessionLog -----------------------------
(***************************************************************************)
(* The session log of one gateway (internal/logstore: logstore.go and      *)
(* queue.go; the callers in sip/logging.go and api/ws_util.go): the        *)
(* bounded queues of events and of statistics, each with a worker that     *)
(* inserts in batches, the stop at shutdown, and the rows of the sessions, *)
(* written straight from a snapshot by whichever handler took it.          *)
(*                                                                         *)
(* A batch is one transaction.  A call to the database ends in time or is  *)
(* cut off; one that is cut off may have been committed all the same.      *)
(***************************************************************************)
EXTENDS Integers, Sequences, FiniteSets, SequencesExt

CONSTANTS
    Sessions,
    Queues,         \* "events" and "stats"
    QueueCap,       \* the capacity of a queue
    BatchSize,      \* DB_BATCH_SIZE
    MaxRecords,     \* how many records are logged to each queue
    MaxFails,       \* how many calls to the database fail
    MaxSnapshots    \* how many snapshots are taken of each session

VARIABLES
    pool,           \* the connection pool: "nil", "open" or "closed"
    stopping,       \* stopCh is closed
    worker,         \* of each queue: "off", "idle", "flush", "lastflush", "stopped"
    queue, batch,   \* of each queue, the records waiting and in hand
    logged,         \* how many records were logged
    accepted,       \* those the queue took, in order
    table,          \* the rows of the table, in order
    lost,           \* those of a batch that failed
    fails,          \* the failed calls
    sess,           \* the sessions: "new", "active" or "ended"
    taken,          \* how many snapshots were taken of each
    writing,        \* the snapshots on their way to the database
    row,            \* the session's row: a snapshot, or none
    raced           \* ghost: the sessions that had two snapshots on their way
queues == <<worker, queue, batch, logged, accepted, table, lost>>
rows == <<sess, taken, writing, row, raced>>
vars == <<pool, stopping, queues, fails, rows>>

NoRow == [state |-> "none", n |-> 0]

Init ==
    /\ pool = "nil" /\ stopping = FALSE
    /\ worker = [q \in Queues |-> "off"]
    /\ queue = [q \in Queues |-> <<>>] /\ batch = [q \in Queues |-> <<>>]
    /\ logged = [q \in Queues |-> 0]
    /\ accepted = [q \in Queues |-> <<>>] /\ table = [q \in Queues |-> <<>>]
    /\ lost = [q \in Queues |-> {}]
    /\ fails = 0
    /\ sess = [s \in Sessions |-> "new"]
    /\ taken = [s \in Sessions |-> 0]
    /\ writing = {}
    /\ row = [s \in Sessions |-> NoRow]
    /\ raced = {}

(* Start: the workers run before anything is logged.                       *)
Start ==
    /\ pool = "nil"
    /\ pool' = "open"
    /\ worker' = [q \in Queues |-> "idle"]
    /\ UNCHANGED <<stopping, queue, batch, logged, accepted, table, lost, fails, rows>>

(* LogEvent and RecordStats: into the queue, or dropped when it is full.   *)
(* Nothing keeps them from running after Stop.                             *)
Log(q) ==
    /\ pool # "nil" /\ logged[q] < MaxRecords
    /\ logged' = [logged EXCEPT ![q] = @ + 1]
    /\ IF Len(queue[q]) < QueueCap
       THEN /\ queue' = [queue EXCEPT ![q] = Append(@, logged[q] + 1)]
            /\ accepted' = [accepted EXCEPT ![q] = Append(@, logged[q] + 1)]
       ELSE UNCHANGED <<queue, accepted>>
    /\ UNCHANGED <<pool, stopping, worker, batch, table, lost, fails, rows>>

(* The worker's select: a record, the tick, the stop.                      *)
Take(q) ==
    /\ worker[q] = "idle" /\ queue[q] # <<>>
    /\ batch' = [batch EXCEPT ![q] = Append(@, Head(queue[q]))]
    /\ queue' = [queue EXCEPT ![q] = Tail(@)]
    /\ worker' = [worker EXCEPT ![q] = IF Len(batch[q]) + 1 >= BatchSize THEN "flush" ELSE @]
    /\ UNCHANGED <<pool, stopping, logged, accepted, table, lost, fails, rows>>
Tick(q) ==
    /\ worker[q] = "idle" /\ batch[q] # <<>>
    /\ worker' = [worker EXCEPT ![q] = "flush"]
    /\ UNCHANGED <<pool, stopping, queue, batch, logged, accepted, table, lost, fails, rows>>
HeedStop(q) ==
    /\ worker[q] = "idle" /\ stopping
    /\ worker' = [worker EXCEPT ![q] = "lastflush"]
    /\ UNCHANGED <<pool, stopping, queue, batch, logged, accepted, table, lost, fails, rows>>

(* flush: whatever comes of it, the batch is emptied.                      *)
Flushed(q) ==
    /\ batch' = [batch EXCEPT ![q] = <<>>]
    /\ worker' = [worker EXCEPT ![q] = IF @ = "lastflush" THEN "stopped" ELSE "idle"]
(* Mutant: a batch that failed is kept for the next flush.                 *)
FlushFails_KeepsBatch(q) ==
    /\ worker[q] \in {"flush", "lastflush"} /\ batch[q] # <<>> /\ fails < MaxFails
    /\ fails' = fails + 1
    /\ \E committed \in BOOLEAN :
         table' = IF committed THEN [table EXCEPT ![q] = @ \o batch[q]] ELSE table
    /\ worker' = [worker EXCEPT ![q] = IF @ = "lastflush" THEN "stopped" ELSE "idle"]
    /\ UNCHANGED <<pool, stopping, queue, batch, logged, accepted, lost, rows>>
(* Mutant: a worker whose batch failed returns.                            *)
FlushFails_Returns(q) ==
    /\ worker[q] \in {"flush", "lastflush"} /\ batch[q] # <<>> /\ fails < MaxFails
    /\ fails' = fails + 1
    /\ lost' = [lost EXCEPT ![q] = @ \cup ToSet(batch[q])]
    /\ batch' = [batch EXCEPT ![q] = <<>>]
    /\ worker' = [worker EXCEPT ![q] = "stopped"]
    /\ UNCHANGED <<pool, stopping, queue, logged, accepted, table, rows>>
FlushFails(q) ==
    /\ worker[q] \in {"flush", "lastflush"} /\ batch[q] # <<>> /\ fails < MaxFails
    /\ fails' = fails + 1
    /\ \E committed \in BOOLEAN :
         /\ table' = IF committed THEN [table EXCEPT ![q] = @ \o batch[q]] ELSE table
         /\ lost' = IF committed THEN lost ELSE [lost EXCEPT ![q] = @ \cup ToSet(batch[q])]
    /\ Flushed(q)
    /\ UNCHANGED <<pool, stopping, queue, logged, accepted, rows>>
Flush(q) ==
    /\ worker[q] \in {"flush", "lastflush"}
    /\ table' = [table EXCEPT ![q] = @ \o batch[q]]
    /\ Flushed(q)
    /\ UNCHANGED <<pool, stopping, queue, logged, accepted, lost, fails, rows>>

(* Stop: after the call leg is down, and before the handlers are.          *)
Stop ==
    /\ pool = "open" /\ ~stopping
    /\ stopping' = TRUE
    /\ UNCHANGED <<pool, queues, fails, rows>>
(* Mutant: the pool is closed without waiting for the workers.             *)
ClosePool_NoWait ==
    /\ pool = "open" /\ stopping
    /\ pool' = "closed"
    /\ UNCHANGED <<stopping, queues, fails, rows>>
ClosePool ==
    /\ pool = "open" /\ stopping /\ \A q \in Queues : worker[q] = "stopped"
    /\ pool' = "closed"
    /\ UNCHANGED <<stopping, queues, fails, rows>>
-----------------------------------------------------------------------------
(* The sessions go on meanwhile, and their handlers log them.              *)
Go(s) ==
    /\ pool # "nil"
    /\ \/ sess[s] = "new" /\ sess' = [sess EXCEPT ![s] = "active"]
       \/ sess[s] # "ended" /\ sess' = [sess EXCEPT ![s] = "ended"]
    /\ UNCHANGED <<pool, stopping, queues, fails, taken, writing, row, raced>>
(* logSessionSnapshot: the state is read, then the trunk's name is looked  *)
(* up, which may be a query of its own; then the row is written.           *)
Snapshot(s) ==
    /\ pool # "nil" /\ taken[s] < MaxSnapshots
    /\ taken' = [taken EXCEPT ![s] = @ + 1]
    /\ writing' = writing \cup {[id |-> s, state |-> sess[s], n |-> taken[s] + 1]}
    /\ raced' = IF \E w \in writing : w.id = s THEN raced \cup {s} ELSE raced
    /\ UNCHANGED <<pool, stopping, queues, fails, sess, row>>
(* Mutant: the first row of a session stays.                               *)
Upsert_FirstStays(w) ==
    /\ w \in writing
    /\ writing' = writing \ {w}
    /\ pool = "open"
    /\ row' = [row EXCEPT ![w.id] = IF @ = NoRow THEN [state |-> w.state, n |-> w.n] ELSE @]
    /\ UNCHANGED <<pool, stopping, queues, fails, sess, taken, raced>>
Upsert(w) ==
    /\ w \in writing
    /\ writing' = writing \ {w}
    /\ \/ pool = "open"
          /\ row' = [row EXCEPT ![w.id] = [state |-> w.state, n |-> w.n]]
          /\ UNCHANGED fails
       \/ fails < MaxFails /\ fails' = fails + 1 /\ UNCHANGED row
       \/ pool = "closed" /\ UNCHANGED <<row, fails>>
    /\ UNCHANGED <<pool, stopping, queues, sess, taken, raced>>

Next ==
    \/ Start \/ Stop \/ ClosePool
    \/ \E q \in Queues : Log(q) \/ Take(q) \/ Tick(q) \/ HeedStop(q) \/ FlushFails(q) \/ Flush(q)
    \/ \E s \in Sessions : Go(s) \/ Snapshot(s)
    \/ \E w \in writing : Upsert(w)

(* A worker's select takes a ready case at random, so none that is ready   *)
(* time and again is passed over for ever; a call to the database ends.    *)
Fairness ==
    /\ \A q \in Queues :
         /\ WF_vars(Take(q)) /\ WF_vars(Flush(q) \/ FlushFails(q))
         /\ SF_vars(Tick(q)) /\ SF_vars(HeedStop(q))
    /\ WF_vars(ClosePool)
Spec == Init /\ [][Next]_vars
FairSpec == Spec /\ Fairness
-----------------------------------------------------------------------------
(* The table holds accepted records only, each once and in their order,    *)
(* whatever batch failed and whatever call was cut off after its commit.   *)
WrittenOnceInOrder ==
    \A q \in Queues :
        /\ \A i, j \in DOMAIN table[q] : i < j => table[q][i] < table[q][j]
        /\ ToSet(table[q]) \subseteq ToSet(accepted[q])

(* When the pool is closed no worker has a batch in hand, so that what is  *)
(* missing was in a batch that failed or still in the queue at the stop.   *)
NoneCutOff ==
    pool = "closed" =>
        \A q \in Queues :
            /\ batch[q] = <<>>
            /\ ToSet(accepted[q]) \ ToSet(table[q]) = lost[q] \cup ToSet(queue[q])

(* A record that was accepted reaches the table without another to fill    *)
(* its batch, unless its batch fails or the service stops.                 *)
AcceptedLands ==
    \A q \in Queues : \A i \in 1..MaxRecords :
        (i \in ToSet(accepted[q])) ~> (i \in ToSet(table[q]) \cup lost[q] \/ stopping)

(* A stop comes to its end, the database failing or not.                   *)
StopEnds == stopping ~> (pool = "closed")

(* The row of a session is its latest snapshot, unless two were on their   *)
(* way at once (the later may be overwritten by the earlier, and an ended  *)
(* session's row say that it is active) or a call failed.                  *)
RowIsLatest ==
    (fails = 0 /\ pool = "open") =>
        \A s \in Sessions :
            \/ s \in raced \/ \E w \in writing : w.id = s
            \/ row[s].n = taken[s]

(* Why: what a queue accepted is in the table, in the worker's hands,      *)
(* waiting, or lost with its batch - one of them, and in that order.       *)
Growing(s) == \A i, j \in DOMAIN s : i < j => s[i] < s[j]
Before(A, B) == \A a \in A, b \in B : a < b
InOrder ==
    \A q \in Queues :
        /\ Growing(table[q]) /\ Growing(batch[q]) /\ Growing(queue[q])
        /\ Before(ToSet(table[q]) \cup lost[q], ToSet(batch[q]) \cup ToSet(queue[q]))
        /\ Before(ToSet(batch[q]), ToSet(queue[q]))
        /\ \A a \in ToSet(accepted[q]) : a <= logged[q]
Accounted ==
    \A q \in Queues :
        /\ ToSet(accepted[q]) = ToSet(table[q]) \cup lost[q] \cup ToSet(batch[q]) \cup ToSet(queue[q])
        /\ ToSet(table[q]) \cap lost[q] = {}
        /\ worker[q] = "stopped" => batch[q] = <<>>
        /\ pool = "closed" => worker[q] = "stopped"

(* A session whose snapshots did not race has the last one in its row, or  *)
(* on its way there.                                                       *)
RowFollows ==
    \A s \in Sessions \ raced :
        /\ \A w \in writing : w.id = s => w.n = taken[s]
        /\ (fails = 0 /\ pool # "closed") => (\E w \in writing : w.id = s) \/ row[s].n = taken[s]

LogTypes ==
    /\ pool \in {"nil", "open", "closed"} /\ fails \in Nat
    /\ worker \in [Queues -> {"off", "idle", "flush", "lastflush", "stopped"}]
    /\ logged \in [Queues -> Nat]
    /\ queue \in [Queues -> Seq(Nat)] /\ batch \in [Queues -> Seq(Nat)]
    /\ accepted \in [Queues -> Seq(Nat)] /\ table \in [Queues -> Seq(Nat)]
    /\ lost \in [Queues -> SUBSET Nat]
    /\ sess \in [Sessions -> {"new", "active", "ended"}] /\ taken \in [Sessions -> Nat]
    /\ row \in [Sessions -> [state : {"none", "new", "active", "ended"}, n : Nat]]
    /\ writing \subseteq [id : Sessions, state : {"new", "active", "ended"}, n : Nat]
    /\ raced \subseteq Sessions
LogInv == LogTypes /\ InOrder /\ Accounted /\ RowFollows

LogKept == WrittenOnceInOrder /\ NoneCutOff /\ RowIsLatest
LogMovesOn == AcceptedLands /\ StopEnds
=============================================================================
