------------------------------- MODULE Nudge -------------------------------
(***************************************************************************)
(* The nudge service: the reminder sequences of one (reason, target_ref),  *)
(* their reminders, and the tasks that write them: the endpoints that      *)
(* start, suppress and cancel sequences, and the run_due ticks.            *)
(*                                                                         *)
(* As in RunLifecycle a store call reads or writes one whole record, a     *)
(* task works on the copies it read, and other tasks run between its       *)
(* calls.  Time is abstracted to whether a reminder's scheduled_for has    *)
(* come; the channels of a step to whether one of them took the message.   *)
(* The schedule in the CMS does not change.                                *)
(***************************************************************************)
EXTENDS Naturals, FiniteSets

CONSTANTS
    Seqs,          \* sequence ids start_sequence can draw
    Rems,          \* reminder ids _schedule_step can draw
    Web,           \* concurrent requests of the nudge service
    Runners,       \* concurrent run_due ticks
    NoSeq, NoRem,
    Steps,         \* len(schedule.steps)
    Escalating,    \* the steps with escalate set
    MaxAttempts,   \* schedule.max_attempts
    MaxRequests,   \* bound: requests served
    MaxCrashes     \* bound: crashes

ASSUME NoneAssumption   == NoSeq \notin Seqs /\ NoRem \notin Rems
ASSUME TasksAssumption  == Web \cap Runners = {}
ASSUME StepsAssumption  == Steps \in Nat /\ Escalating \subseteq 0 .. Steps
ASSUME BoundsAssumption == /\ MaxAttempts \in Nat \ {0}
                           /\ MaxRequests \in Nat /\ MaxCrashes \in Nat

VARIABLES
    seqs,       \* sequence id -> stored status
    rems,       \* reminder id -> stored record
    ripe,       \* the reminders whose scheduled_for has come
    sent,       \* sequence id -> step -> successful dispatches of that step
    task,       \* task -> its program counter and its local copies
    requests,   \* requests served so far
    crashes     \* crashes so far

vars == <<seqs, rems, ripe, sent, task, requests, crashes>>

Tasks == Web \cup Runners

-----------------------------------------------------------------------------
(* Records *)

SEQUENCE_TERMINAL     == {"suppressed", "completed", "escalated", "cancelled"}
REMINDER_DUE_STATUSES == {"scheduled", "retrying"}

SeqStatuses == SEQUENCE_TERMINAL \cup {"active"}
RemStatuses == REMINDER_DUE_STATUSES \cup {"sent", "failed", "suppressed", "cancelled"}

Reminder == [status : RemStatuses, seq : Seqs, step : 0 .. Steps,
             attempts : 0 .. MaxAttempts]
NoCopy   == [status |-> "absent", seq |-> NoSeq, step |-> 0, attempts |-> 0]

\* seq, status: the sequence the task works on and its copy of the status.
\* rem, copy: the reminder it works on.  batch, pend: the copies its queries
\* listed (due reminders; pending ones of a stopped sequence).  todo: sequences
\* to stop.  goal: the status a stop writes.
Copies     == [Rems -> Reminder \cup {NoCopy}]
TaskRecord ==
    [pc : {"idle", "create_seq", "schedule", "save_seq", "next_due", "suppress_rem", "dispatch",
           "save_sent", "save_retry", "save_failed", "escalate", "next_stop", "save_stop",
           "list_pending", "save_pending"},
     seq : Seqs \cup {NoSeq}, status : SeqStatuses \cup {"absent"}, step : 0 .. Steps,
     rem : Rems \cup {NoRem}, copy : Reminder \cup {NoCopy},
     batch : Copies, pend : Copies, todo : SUBSET Seqs, goal : {"none", "suppressed", "cancelled"}]

Nothing == [r \in Rems |-> NoCopy]

\* A task at l with nothing in hand but the rest of its two work lists
Begun(l, batch, todo, goal) ==
    [pc |-> l, seq |-> NoSeq, status |-> "absent", step |-> 0, rem |-> NoRem, copy |-> NoCopy,
     batch |-> batch, pend |-> Nothing, todo |-> todo, goal |-> goal]

Idle == Begun("idle", Nothing, {}, "none")

TypeOK ==
    /\ seqs \in [Seqs -> SeqStatuses \cup {"absent"}]
    /\ rems \in Copies
    /\ ripe \in SUBSET Rems
    /\ sent \in [Seqs -> [0 .. Steps -> Nat]]
    /\ task \in [Tasks -> TaskRecord]
    /\ requests \in 0 .. MaxRequests
    /\ crashes \in 0 .. MaxCrashes

Init ==
    /\ seqs = [s \in Seqs |-> "absent"]
    /\ rems = Nothing
    /\ ripe = {}
    /\ sent = [s \in Seqs |-> [n \in 0 .. Steps |-> 0]]
    /\ task = [t \in Tasks |-> Idle]
    /\ requests = 0
    /\ crashes = 0

-----------------------------------------------------------------------------
(* Steps of a task *)

At(t, l) == task[t].pc = l

Becomes(t, rec) == task' = [task EXCEPT ![t] = rec]
GoesTo(t, l)    == Becomes(t, [task[t] EXCEPT !.pc = l])

\* A tick goes on with its next due reminder, a stop with its next sequence.
Ends(t) ==
    LET k == task[t]
    IN  Becomes(t, IF k.batch # Nothing THEN Begun("next_due", k.batch, {}, "none")
                   ELSE IF k.todo # {} THEN Begun("next_stop", Nothing, k.todo, k.goal)
                   ELSE Idle)

\* The store's queries
Pending(s) == {r \in Rems : rems[r].seq = s /\ rems[r].status \in REMINDER_DUE_STATUSES}
Due        == {r \in ripe : rems[r].status \in REMINDER_DUE_STATUSES}
Active     == {s \in Seqs : seqs[s] = "active"}

CopiesOf(S) == [r \in Rems |-> IF r \in S THEN rems[r] ELSE NoCopy]

\* save_reminder: the task's copy of its reminder, with status st, is stored.
SavesReminder(t, st) == rems' = [rems EXCEPT ![task[t].rem] = [task[t].copy EXCEPT !.status = st]]

-----------------------------------------------------------------------------
(* start_sequence and _schedule_step *)

\* A request is served by an idle task (bound: MaxRequests).
Request(t) ==
    /\ At(t, "idle")
    /\ requests < MaxRequests
    /\ requests' = requests + 1

\* find_active_sequence: an active one is returned as it is.
StartSequence(t) ==
    /\ Request(t)
    /\ IF Active # {} THEN UNCHANGED task
                       ELSE Becomes(t, Begun("create_seq", Nothing, {}, "none"))
    /\ UNCHANGED <<seqs, rems, ripe, sent, crashes>>

\* Ids are drawn at random, so any unused one will do.
Unused(f, none) == {x \in DOMAIN f : f[x] = none}
NewId(f, none)  == CHOOSE x \in DOMAIN f : f[x] = none

CreateSequence(t) ==
    /\ At(t, "create_seq") /\ Unused(seqs, "absent") # {}
    /\ LET s == NewId(seqs, "absent")
       IN  /\ seqs' = [seqs EXCEPT ![s] = "active"]
           /\ Becomes(t, [task[t] EXCEPT !.pc = "schedule", !.seq = s, !.status = "active"])
    /\ UNCHANGED <<rems, ripe, sent, requests, crashes>>

\* _schedule_step: past the last step the sequence is COMPLETED; otherwise the
\* step's reminder is created ...
ScheduleStep(t) ==
    /\ At(t, "schedule")
    /\ LET k == task[t]
       IN  IF k.step >= Steps
           THEN /\ seqs' = [seqs EXCEPT ![k.seq] = "completed"]
                /\ Ends(t)
                /\ UNCHANGED rems
           ELSE /\ Unused(rems, NoCopy) # {}
                /\ rems' = [rems EXCEPT ![NewId(rems, NoCopy)] =
                               [status |-> "scheduled", seq |-> k.seq, step |-> k.step, attempts |-> 0]]
                /\ GoesTo(t, "save_seq")
                /\ UNCHANGED seqs
    /\ UNCHANGED <<ripe, sent, requests, crashes>>

\* ... and the sequence saved, with the status the task read it with.
SaveSequence(t) ==
    /\ At(t, "save_seq")
    /\ seqs' = [seqs EXCEPT ![task[t].seq] = task[t].status]
    /\ Ends(t)
    /\ UNCHANGED <<rems, ripe, sent, requests, crashes>>

-----------------------------------------------------------------------------
(* run_due *)

RunDue(t) ==
    /\ At(t, "idle")
    /\ Due # {}
    /\ Becomes(t, Begun("next_due", CopiesOf(Due), {}, "none"))
    /\ UNCHANGED <<seqs, rems, ripe, sent, requests, crashes>>

\* The sequence of a listed reminder is read; a terminal one is not reminded.
NextDue(t) ==
    /\ At(t, "next_due")
    /\ \E r \in Rems :
         LET c == task[t].batch[r]
         IN  /\ c # NoCopy
             /\ Becomes(t, [task[t] EXCEPT
                    !.rem = r, !.copy = c, !.batch[r] = NoCopy,
                    !.seq = c.seq, !.status = seqs[c.seq],
                    !.pc = IF seqs[c.seq] \in SEQUENCE_TERMINAL THEN "suppress_rem" ELSE "dispatch"])
    /\ UNCHANGED <<seqs, rems, ripe, sent, requests, crashes>>

SuppressReminder(t) ==
    /\ At(t, "suppress_rem")
    /\ SavesReminder(t, "suppressed")
    /\ Ends(t)
    /\ UNCHANGED <<seqs, ripe, sent, requests, crashes>>

\* Some channel took the message, or the sequence has no contact point at all:
\* either way the reminder counts as sent.
DispatchReturns(t) ==
    /\ At(t, "dispatch")
    /\ \E taken \in {0, 1} :
         sent' = [sent EXCEPT ![task[t].seq][task[t].copy.step] = @ + taken]
    /\ GoesTo(t, "save_sent")
    /\ UNCHANGED <<seqs, rems, ripe, requests, crashes>>

\* Faulty: the attempt is not counted.
EndlessDispatchRaises(t) ==
    /\ At(t, "dispatch")
    /\ GoesTo(t, IF task[t].copy.attempts < MaxAttempts THEN "save_retry" ELSE "save_failed")
    /\ UNCHANGED <<seqs, rems, ripe, sent, requests, crashes>>

\* _handle_dispatch_failure: every channel failed.
DispatchRaises(t) ==
    /\ At(t, "dispatch")
    /\ LET n == task[t].copy.attempts + 1
       IN  Becomes(t, [task[t] EXCEPT !.copy.attempts = n,
                       !.pc = IF n < MaxAttempts THEN "save_retry" ELSE "save_failed"])
    /\ UNCHANGED <<seqs, rems, ripe, sent, requests, crashes>>

\* Faulty: the reminder that was sent stays as it was listed.
FaultySaveSent(t) ==
    /\ At(t, "save_sent")
    /\ Becomes(t, [task[t] EXCEPT
            !.pc = IF task[t].copy.step \in Escalating THEN "escalate" ELSE "schedule",
            !.step = task[t].copy.step + 1])
    /\ UNCHANGED <<seqs, rems, ripe, sent, requests, crashes>>

\* SENT, then the escalation or the next step
SaveSent(t) ==
    /\ At(t, "save_sent")
    /\ SavesReminder(t, "sent")
    /\ Becomes(t, [task[t] EXCEPT
            !.pc = IF task[t].copy.step \in Escalating THEN "escalate" ELSE "schedule",
            !.step = task[t].copy.step + 1])
    /\ UNCHANGED <<seqs, ripe, sent, requests, crashes>>

\* RETRYING, at a later scheduled_for
SaveRetry(t) ==
    /\ At(t, "save_retry")
    /\ SavesReminder(t, "retrying")
    /\ ripe' = ripe \ {task[t].rem}
    /\ Ends(t)
    /\ UNCHANGED <<seqs, sent, requests, crashes>>

\* Faulty: the reminder that failed for good is still RETRYING.
FaultySaveFailed(t) ==
    /\ At(t, "save_failed")
    /\ SavesReminder(t, "retrying")
    /\ Becomes(t, [task[t] EXCEPT !.pc = "schedule", !.step = task[t].copy.step + 1])
    /\ UNCHANGED <<seqs, ripe, sent, requests, crashes>>

\* FAILED, and on to the next step
SaveFailed(t) ==
    /\ At(t, "save_failed")
    /\ SavesReminder(t, "failed")
    /\ Becomes(t, [task[t] EXCEPT !.pc = "schedule", !.step = task[t].copy.step + 1])
    /\ UNCHANGED <<seqs, ripe, sent, requests, crashes>>

Escalate(t) ==
    /\ At(t, "escalate")
    /\ seqs' = [seqs EXCEPT ![task[t].seq] = "escalated"]
    /\ Becomes(t, [task[t] EXCEPT !.pc = "list_pending", !.goal = "cancelled"])
    /\ UNCHANGED <<rems, ripe, sent, requests, crashes>>

-----------------------------------------------------------------------------
(* suppress, suppress_matching, cancel *)

\* The sequences of S are stopped one by one, with the status g.
Stop(t, g, S) ==
    /\ Request(t)
    /\ S # {}
    /\ Becomes(t, Begun("next_stop", Nothing, S, g))
    /\ UNCHANGED <<seqs, rems, ripe, sent, crashes>>

Suppress(t)         == \E s \in Seqs : seqs[s] # "absent" /\ Stop(t, "suppressed", {s})
SuppressMatching(t) == Stop(t, "suppressed", Active)
Cancel(t)           == \E s \in Seqs : seqs[s] # "absent" /\ Stop(t, "cancelled", {s})

\* _require_sequence, and the early return for a terminal one
NextStop(t) ==
    /\ At(t, "next_stop")
    /\ \E s \in task[t].todo :
         LET rest == task[t].todo \ {s}
         IN  Becomes(t, IF seqs[s] \notin SEQUENCE_TERMINAL
                        THEN [task[t] EXCEPT !.pc = "save_stop", !.seq = s, !.todo = rest]
                        ELSE IF rest # {} THEN [task[t] EXCEPT !.todo = rest] ELSE Idle)
    /\ UNCHANGED <<seqs, rems, ripe, sent, requests, crashes>>

SaveStop(t) ==
    /\ At(t, "save_stop")
    /\ seqs' = [seqs EXCEPT ![task[t].seq] = task[t].goal]
    /\ GoesTo(t, "list_pending")
    /\ UNCHANGED <<rems, ripe, sent, requests, crashes>>

\* _cancel_pending: the query, and a save per listed reminder
ListPending(t) ==
    /\ At(t, "list_pending")
    /\ LET P == Pending(task[t].seq)
       IN  IF P = {} THEN Ends(t)
                     ELSE Becomes(t, [task[t] EXCEPT !.pc = "save_pending", !.pend = CopiesOf(P)])
    /\ UNCHANGED <<seqs, rems, ripe, sent, requests, crashes>>

SavePending(t) ==
    /\ At(t, "save_pending")
    /\ \E r \in Rems :
         LET pend == task[t].pend
         IN  /\ pend[r] # NoCopy
             /\ rems' = [rems EXCEPT ![r] = [pend[r] EXCEPT !.status = task[t].goal]]
             /\ IF \A q \in Rems \ {r} : pend[q] = NoCopy
                THEN Ends(t)
                ELSE Becomes(t, [task[t] EXCEPT !.pend[r] = NoCopy])
    /\ UNCHANGED <<seqs, ripe, sent, requests, crashes>>

-----------------------------------------------------------------------------
(* Time and crashes *)

\* scheduled_for of a pending reminder comes.
Ripen(r) ==
    /\ rems[r].status \in REMINDER_DUE_STATUSES
    /\ r \notin ripe
    /\ ripe' = ripe \cup {r}
    /\ UNCHANGED <<seqs, rems, sent, task, requests, crashes>>

\* The service dies with its requests, or a worker with its tick.
Crash(S) ==
    /\ crashes < MaxCrashes
    /\ crashes' = crashes + 1
    /\ \E t \in S : ~At(t, "idle")
    /\ task' = [t \in Tasks |-> IF t \in S THEN Idle ELSE task[t]]
    /\ UNCHANGED <<seqs, rems, ripe, sent, requests>>

-----------------------------------------------------------------------------
(* Specification *)

Stops(t)   == NextStop(t) \/ SaveStop(t) \/ ListPending(t) \/ SavePending(t)
WebStep(t) == CreateSequence(t) \/ ScheduleStep(t) \/ SaveSequence(t) \/ Stops(t)

TickStep(t) == \/ NextDue(t) \/ SuppressReminder(t) \/ DispatchReturns(t) \/ DispatchRaises(t)
               \/ SaveSent(t) \/ SaveRetry(t) \/ SaveFailed(t)
               \/ ScheduleStep(t) \/ SaveSequence(t)
               \/ Escalate(t) \/ ListPending(t) \/ SavePending(t)

Next ==
    \/ \E t \in Web : \/ StartSequence(t) \/ Suppress(t) \/ SuppressMatching(t) \/ Cancel(t)
                      \/ WebStep(t)
    \/ \E t \in Runners : RunDue(t) \/ TickStep(t) \/ Crash({t})
    \/ \E r \in Rems : Ripen(r)
    \/ Crash(Web)

Spec == Init /\ [][Next]_vars

\* What has begun is carried on, time passes, and beat calls run_due again and
\* again.  Nothing makes requests come or processes crash.
Fairness ==
    /\ \A t \in Web : WF_vars(WebStep(t))
    /\ \A t \in Runners : WF_vars(RunDue(t)) /\ WF_vars(TickStep(t))
    /\ \A r \in Rems : WF_vars(Ripen(r))

FairSpec == Spec /\ Fairness

-----------------------------------------------------------------------------
(* Properties *)

\* At most one reminder per sequence is pending, whatever is suppressed or
\* cancelled while a tick is at it and wherever the tick crashes (_schedule_step).
\* It takes that ticks do not overlap.
OnePending == \A s \in Seqs : \A q, r \in Pending(s) : q = r

\* With the types of every record and copy: attempts stay within the schedule's
\* (_handle_dispatch_failure).
NudgeInv == TypeOK /\ OnePending

\* A step of a sequence is delivered once, and once more only if a tick died
\* between the dispatch and the save of SENT (_dispatch_reminder).
StepSentOnce == \A s \in Seqs : \A n \in 0 .. Steps : sent[s][n] <= 1 + crashes

\* Every reminder is sent, failed or dropped in the end: retries are bounded and
\* no crash or suppression leaves one pending for ever (run_due).
PendingEnds ==
    \A r \in Rems : rems[r].status \in REMINDER_DUE_STATUSES
                        ~> rems[r].status \notin REMINDER_DUE_STATUSES

=============================================================================
