----------------------------- MODULE MCServices -----------------------------
(***************************************************************************)
(* Four services beside the calls - speech translation, the session log,   *)
(* its partitions and the mobile login - in one run of TLC: which says     *)
(* whose behaviour this is, the others stay as they began.                 *)
(***************************************************************************)
EXTENDS SpeechPipeline

CONSTANTS
  Sessions, Queues, QueueCap, BatchSize, MaxRecords, MaxLogFails, MaxSnapshots,  \* SessionLog
  Phones, Guests, NoSocket, MaxMobileFails, MaxLogins, MaxAsks                   \* MobileLogin

ASSUME SocketAssumption ==
  /\ Phones \cap Guests = {} /\ NoSocket \notin Phones \cup Guests
  /\ {MaxMobileFails, MaxLogins, MaxAsks} \subseteq Nat

VARIABLES
  which,
  pool, stopping_, worker, queue, batch, logged, accepted, table, lost, fails, sess, taken, writing,
  row, raced,                                                            \* SessionLog
  day, start, ran, failed, parts,                                        \* LogPartitions
  pc, reserved, connections, resolved, trunk, contact, asked, quiet, asks, logins, misses  \* MobileLogin

Log == INSTANCE SessionLog WITH
  MaxFails <- MaxLogFails, stopping <- stopping_

(* Starts on any day of the year after the leap year of the calendar. *)
Partitions == INSTANCE LogPartitions WITH
  Years <- 7, LeapYear <- 3, LookaheadDays <- 7, RetentionDays <- 730, Starts <- 1461 .. 1825,
  Uptime <- 9, MaxFails <- 1, fails <- failed

Mobile == INSTANCE MobileLogin WITH
  MaxFails <- MaxMobileFails, row <- trunk, fails <- misses

logVars == <<pool, stopping_, worker, queue, batch, logged, accepted, table, lost, fails, sess, taken,
             writing, row, raced>>
partitionVars == <<day, start, ran, failed, parts>>
mobileVars == <<pc, reserved, connections, resolved, trunk, contact, asked, quiet, asks, logins, misses>>
all == <<which, vars, logVars, partitionVars, mobileVars>>

ServicesInit ==
  /\ which \in {"speech", "log", "partitions", "mobile"}
  /\ Init /\ Log!Init /\ Partitions!Init /\ Mobile!Init
  /\ which # "speech" => dir = "in"
  /\ which # "partitions" => start = 1461

ServicesNext ==
  \/ which = "speech" /\ Next /\ UNCHANGED <<which, logVars, partitionVars, mobileVars>>
  \/ which = "log" /\ Log!Next /\ UNCHANGED <<which, vars, partitionVars, mobileVars>>
  \/ which = "partitions" /\ Partitions!Next /\ UNCHANGED <<which, vars, logVars, mobileVars>>
  \/ which = "mobile" /\ Mobile!Next /\ UNCHANGED <<which, vars, logVars, partitionVars>>

(* The log's workers have nothing to do before the log is started. *)
ServicesSpec == ServicesInit /\ [][ServicesNext]_all /\ Log!Fairness

-----------------------------------------------------------------------------
(* SessionLog.LogKept: rows once and in order, none cut off by the stop. *)
LogKept == Log!LogKept

(* LogPartitions.PartitionsKept: rows find their month's partition and keep it. *)
PartitionsKept == Partitions!PartitionsKept

(* MobileLogin.AccountsKept: neither a login nor a logout is undone by another socket. *)
AccountsKept == Mobile!AccountsKept

(* SessionLog.LogMovesOn: an accepted record lands, and a stop ends. *)
LogMovesOn == Log!LogMovesOn
=============================================================================
