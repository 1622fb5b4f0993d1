------------------------------ MODULE Broadcast ------------------------------
(***************************************************************************)
(* Campaign broadcasts (app/services/workflow/broadcast.py and the routes  *)
(* in main.py): a CSV is submitted under an idempotency key, the key is    *)
(* claimed in Redis, the batch record is saved, and a background task of   *)
(* the same process starts the campaign for one row after the other.  All  *)
(* submissions here carry the same key and the same file.                  *)
(***************************************************************************)
EXTENDS Integers, Sequences, FiniteSets

CONSTANTS
    Phones,         \* recipients
    File,           \* the phones of the file's rows, in order
    Invalid,        \* those that are no valid number
    Submissions,    \* POST /workflow/campaign/broadcast with this key
    Together,       \* whether two submissions may be handled at once
    SnapshotEvery,  \* rows between two saves of the batch: 1 below 20 rows
    MaxRestarts     \* bound: restarts of the workflow service

ASSUME BroadcastConstants == /\ File \in Seq(Phones)
                             /\ File # <<>> /\ Invalid \subseteq Phones
                             /\ Together \in BOOLEAN
                             /\ SnapshotEvery \in Nat \ {0}
                             /\ MaxRestarts \in Nat

\* parse_csv: the rows that are worked through
Csv == SelectSeq(File, LAMBDA p : p \notin Invalid)

\* What is selected from a sequence of phones is one: true of every file, by
\* induction over it.
ASSUME CsvAssumption == Csv \in Seq(Phones)

VARIABLES
    submission,   \* where each request stands and the batch id it works with
    key,          \* the batch id stored under the idempotency key
    batch,        \* the stored batch records
    task,         \* each request's background task: its row and its copy
    starts,       \* how often the campaign was started for each phone
    running,      \* phones whose run is active
    locked,       \* phones claimed in the last 30 seconds
    restarts

castVars == <<submission, key, batch, task, starts, running, locked, restarts>>

NoBatch == "none"
ASSUME NoBatchAssumption == NoBatch \notin Submissions

NoRecord == [status |-> "none", sent |-> 0, failed |-> 0]
Queued == [NoRecord EXCEPT !.status = "queued"]
NoTask == [at |-> "none", row |-> 0, copy |-> NoRecord]

Over == {"idle", "done", "dead"}

CastTypeOK ==
    /\ \A s \in Submissions :
          /\ submission[s].at \in Over \cup {"lookup", "save"}
          /\ submission[s].id \in Submissions \cup {NoBatch}
          /\ batch[s].status \in {"none", "queued", "in_progress", "completed"}
          /\ batch[s].sent + batch[s].failed \in 0..Len(Csv)
          /\ task[s].at \in {"none", "queued", "rows", "finished", "dead"}
          /\ task[s].row \in 0..Len(Csv)
    /\ key \in Submissions \cup {NoBatch}
    /\ starts \in [Phones -> Nat]
    /\ running \subseteq Phones
    /\ locked \subseteq Phones
    /\ restarts \in 0..MaxRestarts

CastInit ==
    /\ submission = [s \in Submissions |-> [at |-> "idle", id |-> NoBatch]]
    /\ key = NoBatch
    /\ batch = [s \in Submissions |-> NoRecord]
    /\ task = [s \in Submissions |-> NoTask]
    /\ starts = [p \in Phones |-> 0]
    /\ running = {}
    /\ locked = {}
    /\ restarts = 0

-----------------------------------------------------------------------------

(***************************************************************************)
(* submit_broadcast.                                                       *)
(***************************************************************************)
\* claim_idempotency: the first submission's proposed id is kept, and the
\* others are told that one.
Claims(s) ==
    /\ submission[s].at = "idle"
    /\ Together \/ \A t \in Submissions : submission[t].at \in Over
    /\ key' = IF key = NoBatch THEN s ELSE key
    /\ submission' = [submission EXCEPT ![s] =
                        [at |-> IF key' = s THEN "save" ELSE "lookup", id |-> key']]
    /\ UNCHANGED <<batch, task, starts, running, locked, restarts>>

\* Faulty: only a batch that has ended is handed back.
FaultyKnown(record) == record.status = "completed"

\* The batch of the key is handed back when its record is found.
Known(record) == record.status # "none"

\* A key without a record is taken for an expired one: a fresh start, under
\* the id that the key names.
LooksUp(s) ==
    /\ submission[s].at = "lookup"
    /\ submission' = [submission EXCEPT
                        ![s].at = IF Known(batch[submission[s].id]) THEN "done" ELSE "save"]
    /\ UNCHANGED <<key, batch, task, starts, running, locked, restarts>>

\* The record is saved QUEUED and the background task is scheduled.
SavesBatch(s) ==
    /\ submission[s].at = "save"
    /\ batch' = [batch EXCEPT ![submission[s].id] = Queued]
    /\ task' = [task EXCEPT ![s] = [at |-> "queued", row |-> 0, copy |-> Queued]]
    /\ submission' = [submission EXCEPT ![s].at = "done"]
    /\ UNCHANGED <<key, starts, running, locked, restarts>>

-----------------------------------------------------------------------------

(***************************************************************************)
(* BroadcastCoordinator.process.                                           *)
(***************************************************************************)
Stores(s, record) == batch' = [batch EXCEPT ![submission[s].id] = record]

\* IN_PROGRESS is saved; a file without a valid row is complete at once.
Begins(s) ==
    LET status == IF Csv = <<>> THEN "completed" ELSE "in_progress"
    IN /\ task[s].at = "queued"
       /\ task' = [task EXCEPT ![s].at = IF Csv = <<>> THEN "finished" ELSE "rows",
                               ![s].copy.status = status]
       /\ Stores(s, task'[s].copy)
       /\ UNCHANGED <<submission, key, starts, running, locked, restarts>>

\* The row is counted in the task's copy; every few rows the copy is saved.
CountsRow(s, ok) ==
    LET copy == [task[s].copy EXCEPT !.sent = @ + (IF ok THEN 1 ELSE 0),
                                     !.failed = @ + (IF ok THEN 0 ELSE 1)]
    IN /\ task' = [task EXCEPT ![s].row = @ + 1, ![s].copy = copy]
       /\ IF task'[s].row % SnapshotEvery = 0 THEN Stores(s, copy) ELSE UNCHANGED batch

\* Faulty: the last row is left out.
FaultyRowsLeft(s) == task[s].row + 1 < Len(Csv)

RowsLeft(s) == task[s].row < Len(Csv)

AtRow(s) == task[s].at = "rows" /\ RowsLeft(s)

\* _start_one_for_broadcast: a phone claimed less than 30 seconds ago and
\* still running is left alone, and counts as sent.
SkipsRow(s) ==
    LET p == Csv[task[s].row + 1]
    IN /\ AtRow(s)
       /\ p \in locked
       /\ p \in running
       /\ CountsRow(s, TRUE)
       /\ UNCHANGED <<submission, key, starts, running, locked, restarts>>

\* Otherwise the phone's active runs are cancelled and one is started.
StartsRow(s) ==
    LET p == Csv[task[s].row + 1]
    IN /\ AtRow(s)
       /\ ~(p \in locked /\ p \in running)
       /\ starts' = [starts EXCEPT ![p] = @ + 1]
       /\ running' = running \cup {p}
       /\ locked' = locked \cup {p}
       /\ CountsRow(s, TRUE)
       /\ UNCHANGED <<submission, key, restarts>>

\* The start raises: the phone stays claimed, its old runs are gone, and the
\* failure is counted.
FailsRow(s) ==
    LET p == Csv[task[s].row + 1]
    IN /\ AtRow(s)
       /\ ~(p \in locked /\ p \in running)
       /\ running' = running \ {p}
       /\ locked' = locked \cup {p}
       /\ CountsRow(s, FALSE)
       /\ UNCHANGED <<submission, key, starts, restarts>>

\* Faulty: a batch with a failed row is not closed.
FaultyFinishes(s) ==
    /\ task[s].at = "rows"
    /\ ~RowsLeft(s)
    /\ task[s].copy.failed = 0
    /\ task' = [task EXCEPT ![s].at = "finished", ![s].copy.status = "completed"]
    /\ Stores(s, task'[s].copy)
    /\ UNCHANGED <<submission, key, starts, running, locked, restarts>>

\* COMPLETED is saved with the final counts.
Finishes(s) ==
    /\ task[s].at = "rows"
    /\ ~RowsLeft(s)
    /\ task' = [task EXCEPT ![s].at = "finished", ![s].copy.status = "completed"]
    /\ Stores(s, task'[s].copy)
    /\ UNCHANGED <<submission, key, starts, running, locked, restarts>>

\* Thirty seconds pass: the claim on a phone expires in Redis.
LockLapses(p) ==
    /\ p \in locked
    /\ locked' = locked \ {p}
    /\ UNCHANGED <<submission, key, batch, task, starts, running, restarts>>

\* The service restarts: requests and tasks are gone, Redis is not.
Restarts ==
    /\ restarts < MaxRestarts
    /\ restarts' = restarts + 1
    /\ submission' = [s \in Submissions |->
                        IF submission[s].at \in Over THEN submission[s]
                        ELSE [submission[s] EXCEPT !.at = "dead"]]
    /\ task' = [s \in Submissions |->
                  IF task[s].at \in {"none", "finished"} THEN task[s]
                  ELSE [NoTask EXCEPT !.at = "dead"]]
    /\ UNCHANGED <<key, batch, starts, running, locked>>

-----------------------------------------------------------------------------

(***************************************************************************)
(* Properties.                                                             *)
(***************************************************************************)
\* Under one idempotency key, one file is worked through at most once,
\* whichever submission is answered, and whenever the service restarts
\* (submit_broadcast: "no new work scheduled").
OneTaskPerKey == Cardinality({s \in Submissions : task[s].at # "none"}) <= 1

\* A batch that says COMPLETED went through the whole file: every phone was
\* started, or is among the failures counted (process: "every row was
\* attempted").
CompletedIsWhole ==
    \A s \in Submissions :
       batch[s].status = "completed" =>
          /\ batch[s].sent + batch[s].failed = Len(Csv)
          /\ Cardinality({i \in DOMAIN Csv : starts[Csv[i]] = 0}) <= batch[s].failed

\* A batch that was saved is worked through to its end, with failed rows or
\* without, unless the service restarts (process).
BatchEnds ==
    \A s \in Submissions :
       batch[s].status = "queued" ~> batch[s].status = "completed" \/ restarts > 0

=============================================================================
