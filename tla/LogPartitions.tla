--------------------------- MODULE LogPartitions ---------------------------
(***************************************************************************)
(* The monthly partitions of the session log's tables call_events and      *)
(* call_payloads (internal/logstore/partition.go).  A worker runs when the *)
(* service starts and once a day: it creates the partitions of the months  *)
(* ahead and drops those older than the retention.  A row whose month has  *)
(* no partition cannot be inserted, and fails its whole batch.             *)
(*                                                                         *)
(* Days are counted from the first of January of year 0; Go's AddDate      *)
(* normalises a day that its month does not have into the next month.      *)
(***************************************************************************)
EXTENDS Integers, FiniteSets

CONSTANTS
    Years,          \* how many years the calendar has
    LeapYear,       \* which of them is the leap year
    LookaheadDays,  \* DB_PARTITION_LOOKAHEAD_DAYS
    RetentionDays,  \* DB_RETENTION_EVENTS_DAYS
    Starts,         \* the days the service may start on
    Uptime,         \* how many days are looked at
    MaxFails        \* on how many of them the database may fail

VARIABLES
    day,        \* today
    start,      \* the day the service started
    ran,        \* today's maintenance has run
    fails,      \* the days the maintenance failed on
    parts       \* the months that have a partition
vars == <<day, start, ran, fails, parts>>

Months == 0 .. 12 * Years - 1
DaysBefore == <<0, 31, 59, 90, 120, 151, 181, 212, 243, 273, 304, 334>>
FirstDay(m) == 365 * (m \div 12) + DaysBefore[(m % 12) + 1] + (IF m > 12 * LeapYear + 1 THEN 1 ELSE 0)
LastDay(m) == FirstDay(m + 1) - 1
MonthOf(d) == CHOOSE m \in (d \div 31) .. (d \div 28) : FirstDay(m) <= d /\ d <= LastDay(m)

(* now.AddDate(0, i, 0): the same day of the month i months on, or as many *)
(* days past that month's end as it lacks.                                 *)
AddMonths(d, i) ==
    LET m == MonthOf(d) + i
    IN FirstDay(m) + (d - FirstDay(MonthOf(d)))

Lookahead == LET n == LookaheadDays \div 30 IN IF n < 1 THEN 1 ELSE n
Retention == RetentionDays \div 30

(* Mutant: the months ahead are counted without the last one.              *)
Created_OneLess(d) == {MonthOf(AddMonths(d, i)) : i \in 0 .. Lookahead - 1}
Created(d) == {MonthOf(AddMonths(d, i)) : i \in 0 .. Lookahead}

(* Looked for from three years ago on; the cutoff is the first of the      *)
(* month, the date compared with it is not.                                *)
Cutoff(d) == FirstDay(MonthOf(AddMonths(d, -Retention)))
(* Mutant: the cutoff month goes with the older ones.                      *)
Dropped_Cutoff(d) == {MonthOf(AddMonths(d, -i)) : i \in {k \in 1..36 : MonthOf(AddMonths(d, -k)) <= MonthOf(Cutoff(d))}}
Dropped(d) == {MonthOf(AddMonths(d, -i)) : i \in {k \in 1..36 : AddMonths(d, -k) < Cutoff(d)}}

Init ==
    /\ start \in Starts
    /\ day = start /\ ran = FALSE /\ fails = {}
    /\ parts = 0 .. MonthOf(start) - 1      \* what earlier runs of the service left

(* maintainPartitions.  A statement that fails is logged and passed over.  *)
Maintain ==
    /\ ~ran
    /\ ran' = TRUE
    /\ parts' = (parts \cup Created(day)) \ Dropped(day)
    /\ UNCHANGED <<day, start, fails>>
MaintainFails ==
    /\ ~ran
    /\ Cardinality(fails) < MaxFails
    /\ ran' = TRUE
    /\ fails' = fails \cup {day}
    /\ UNCHANGED <<day, start, parts>>
(* The next day begins, and its rows come before its maintenance.          *)
NextDay ==
    /\ ran /\ day < start + Uptime
    /\ day' = day + 1
    /\ ran' = FALSE
    /\ UNCHANGED <<start, fails, parts>>
LastDayReached == ran /\ day = start + Uptime /\ UNCHANGED vars

Next == Maintain \/ MaintainFails \/ NextDay \/ LastDayReached
Spec == Init /\ [][Next]_vars
-----------------------------------------------------------------------------
(* A service that has been up for four days can write today's rows at any  *)
(* hour, if neither the maintenance at its start nor any of the last four  *)
(* days' failed: the month's partition was made before the month began, by *)
(* one of the days that AddDate does not carry past the month.  Nothing is *)
(* said of the first four days, in which a month may be missing.           *)
MonthCovered ==
    (day - start >= 4 /\ \A f \in fails : day - f > 4 /\ f # start) => MonthOf(day) \in parts

(* No partition is dropped while it may hold a row younger than the        *)
(* retention.                                                              *)
RetentionKept ==
    [][\A m \in parts \ parts' : day - LastDay(m) >= RetentionDays]_vars

(* Rows have their partition, and keep it as long as they are to be kept.  *)
PartitionsKept == []MonthCovered /\ RetentionKept

(* What the configuration says of the look-ahead: once today's maintenance *)
(* has run, the partitions of the next days are there.                     *)
DaysAhead ==
    (ran /\ fails = {}) => \A k \in 0 .. LookaheadDays : MonthOf(day + k) \in parts

TypeOK == day \in Nat /\ ran \in BOOLEAN /\ parts \subseteq Months /\ fails \subseteq Nat
=============================================================================
