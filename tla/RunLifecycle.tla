---------------------------- MODULE RunLifecycle ----------------------------
(***************************************************************************)
(* One identity, its session, its workflow runs, and every task that       *)
(* writes them: the inbound dispatcher, the campaign endpoint and the      *)
(* backend webhooks in the web process; the recovery beat, the timeout     *)
(* sweep and the status poller in the Celery workers.                      *)
(*                                                                         *)
(* A store operation reads or writes a whole record.  A task keeps the     *)
(* copy it read, changes it and writes it back (WorkflowRun and Session    *)
(* are saved blind, there is no version check), so a task is a chain of    *)
(* steps, one per store operation, and other tasks run in between.         *)
(*                                                                         *)
(* Abstracted: the workflow graph (its checkpoint is only fresh, parked at *)
(* an interrupt, ready to continue, or at its end), the payloads, events   *)
(* and logs, and the audit trail with them.                                *)
(***************************************************************************)
EXTENDS Naturals, Transitions

CONSTANTS
    Runs,          \* run ids executor.start can draw
    Web,           \* concurrent tasks of the web process
    Workers,       \* Celery worker tasks
    NoRun,         \* session.active_run_id is None
    NoTask,        \* nobody holds the per-identity lock
    Ops,           \* the operations this deployment performs
    MaxArrivals,   \* bound: requests served by the web process
    MaxCrashes,    \* bound: process crashes
    MaxAttempts,   \* settings.retry_max_attempts
    Ttl,           \* settings.session_ttl_seconds, in ticks
    ClaimTtl,      \* the 30 s of the campaign_start key, in ticks
    MaxNow         \* bound: the clock

WebOps    == {"campaign", "inbound", "event"}
WorkerOps == {"recover", "sweep", "poll"}

ASSUME OpsAssumption    == Ops \subseteq WebOps \cup WorkerOps
ASSUME NoneAssumption   == NoRun \notin Runs /\ NoTask \notin Web
ASSUME TasksAssumption  == Web \cap Workers = {}
ASSUME BoundsAssumption == /\ MaxArrivals \in Nat /\ MaxCrashes \in Nat
                           /\ MaxAttempts \in Nat \ {0}
                           /\ Ttl \in Nat \ {0} /\ ClaimTtl \in Nat \ {0}
                           /\ MaxNow \in Nat \ {0}

VARIABLES
    runs,       \* the run store: run id -> stored record
    session,    \* the stored session record
    thread,     \* run id -> state of its LangGraph checkpoint thread
    now,        \* the clock
    lock,       \* web task holding the dispatcher's per-identity lock
    claimed,    \* expiry of the campaign_start key in the dedupe store
    arrivals,   \* requests served so far
    crashes,    \* crashes so far
    task        \* task -> its program counter and its local copies

vars == <<runs, session, thread, now, lock, claimed, arrivals, crashes, task>>
env  == <<now, arrivals, crashes>>

Tasks == Web \cup Workers

-----------------------------------------------------------------------------
(* Records *)

NoTime == 0                              \* expires_at is None
Times  == 0 .. MaxNow + Ttl

\* WorkflowRun: prompt says whether pending_interrupts is non-empty.
RunRecord == [status : Statuses \cup {"absent"}, prompt : BOOLEAN, expires : Times]
Absent    == [status |-> "absent", prompt |-> FALSE, expires |-> NoTime]
NewRun    == [status |-> "pending", prompt |-> FALSE, expires |-> NoTime]

\* Session, with its default values
SessionRecord == [status  : {"absent", "active", "waiting", "completed", "expired"},
                  active  : Runs \cup {NoRun},
                  expires : Times]
NoSession  == [status |-> "absent", active |-> NoRun, expires |-> NoTime]
NewSession == [status |-> "active", active |-> NoRun, expires |-> NoTime]

ThreadStates == {"fresh", "interrupt", "ready", "end"}

\* The kinds of work a task can be on.  An inbound becomes "first" when it starts
\* a run, "revived" when it revived a dead one, "replay" when it is fed again to
\* the upload prompt its own start parked at.
Kinds == WebOps \cup WorkerOps \cup {"first", "revived", "replay"}

Locations ==
    {"idle", "cancel_list", "cancel_save", "resolve", "open_session", "create", "bind",
     "transition_start", "inbound_run", "revive", "resume_session", "resume_run",
     "transition_resume", "mark_active", "invoke", "finalize", "transition_final",
     "complete_session", "mark_waiting", "save_expiry", "fail_save", "transition_fail",
     "next_recover", "transition_recover", "next_sweep", "sweep_session", "sweep_expire",
     "next_poll", "poll_cancel"}

\* run, sess: the copies the task works on.  batch: what its store query listed
\* and it has not handled yet.  goal: the status it is about to write.
TaskRecord ==
    [kind : Kinds \cup {"none"}, pc : Locations, rid : Runs \cup {NoRun},
     run : RunRecord, sess : SessionRecord, batch : [Runs -> RunRecord],
     goal : Statuses \cup {"none"}, tries : 0 .. MaxAttempts - 1]

NoBatch == [r \in Runs |-> Absent]

\* A task that has just begun work of kind k at l.
Begun(k, l, b) == [kind |-> k, pc |-> l, rid |-> NoRun, run |-> Absent, sess |-> NoSession,
                   batch |-> b, goal |-> "none", tries |-> 0]

Idle == Begun("none", "idle", NoBatch)

TypeOK ==
    /\ runs \in [Runs -> RunRecord]
    /\ session \in SessionRecord
    /\ thread \in [Runs -> ThreadStates]
    /\ now \in 1 .. MaxNow
    /\ lock \in Web \cup {NoTask}
    /\ claimed \in 0 .. MaxNow + ClaimTtl
    /\ arrivals \in 0 .. MaxArrivals
    /\ crashes \in 0 .. MaxCrashes
    /\ task \in [Tasks -> TaskRecord]

Init ==
    /\ runs = [r \in Runs |-> Absent]
    /\ session = NoSession
    /\ thread = [r \in Runs |-> "fresh"]
    /\ now = 1
    /\ lock = NoTask
    /\ claimed = 0
    /\ arrivals = 0
    /\ crashes = 0
    /\ task = [t \in Tasks |-> Idle]

-----------------------------------------------------------------------------
(* Steps of a task *)

At(t, l) == task[t].pc = l

\* Task t goes on as record rec.
Becomes(t, rec) == task' = [task EXCEPT ![t] = rec]

GoesTo(t, l) == Becomes(t, [task[t] EXCEPT !.pc = l])

\* run_store.save(run): the caller's whole copy replaces the stored record.
SavesRun(r, rec) == runs' = [runs EXCEPT ![r] = rec]

\* TransitionManager.transition: checked against the status of the caller's own
\* copy, saved whole.  Task t goes on at l.
Transition(t, to, l) ==
    LET r   == task[t].rid
        rec == [task[t].run EXCEPT !.status = to]
    IN  /\ IsAllowed(task[t].run.status, to)
        /\ SavesRun(r, rec)
        /\ Becomes(t, [task[t] EXCEPT !.pc = l, !.run = rec])

\* SessionManager._expiry
Expiry == now + Ttl

\* A worker takes up the next listed run; anything else ends, and a finished
\* inbound leaves the per-identity lock.
NextOf == [recover |-> "next_recover", sweep |-> "next_sweep", poll |-> "next_poll"]

Ends(t) ==
    /\ Becomes(t, IF \A r \in Runs : task[t].batch[r] = Absent
                  THEN Idle
                  ELSE Begun(task[t].kind, NextOf[task[t].kind], task[t].batch))
    /\ lock' = IF lock = t THEN NoTask ELSE lock

\* A task whose store query listed the runs in S, each with its current record.
Lists(t, k, l, S) ==
    Becomes(t, Begun(k, l, [r \in Runs |-> IF r \in S THEN runs[r] ELSE Absent]))

WithStatus(S) == {r \in Runs : runs[r].status \in S}

\* The task takes run r out of its batch as its current run.
TakesUp(t, r) ==
    [task[t] EXCEPT !.rid = r, !.run = task[t].batch[r], !.batch[r] = Absent]

-----------------------------------------------------------------------------
(* executor.start *)

\* SessionManager.resolve: the read, and the save of a new session
Resolve(t) ==
    /\ At(t, "resolve")
    /\ Becomes(t, IF session.status = "absent"
                  THEN [task[t] EXCEPT !.pc = "open_session", !.sess = NewSession]
                  ELSE [task[t] EXCEPT !.pc = "create", !.sess = session])
    /\ UNCHANGED <<runs, session, thread, lock, claimed, env>>

OpenSession(t) ==
    /\ At(t, "open_session")
    /\ session' = task[t].sess
    /\ GoesTo(t, "create")
    /\ UNCHANGED <<runs, thread, lock, claimed, env>>

\* Faulty: the new run is not stored.
FaultyCreateRun(t) ==
    /\ At(t, "create")
    /\ \E r \in Runs :
         /\ runs[r] = Absent
         /\ Becomes(t, [task[t] EXCEPT !.pc = "bind", !.rid = r, !.run = NewRun])
    /\ UNCHANGED <<runs, session, thread, lock, claimed, env>>

\* run_store.create with a new id (bound: the ids in Runs)
CreateRun(t) ==
    /\ At(t, "create")
    /\ \E r \in Runs :
         /\ runs[r] = Absent
         /\ SavesRun(r, NewRun)
         /\ Becomes(t, [task[t] EXCEPT !.pc = "bind", !.rid = r, !.run = NewRun])
    /\ UNCHANGED <<session, thread, lock, claimed, env>>

\* Faulty: the session is touched but not pointed at the new run.
FaultyBindRun(t) ==
    /\ At(t, "bind")
    /\ LET s == [task[t].sess EXCEPT !.status = "active"]
       IN  /\ session' = s
           /\ Becomes(t, [task[t] EXCEPT !.pc = "transition_start", !.sess = s])
    /\ UNCHANGED <<runs, thread, lock, claimed, env>>

BindRun(t) ==
    /\ At(t, "bind")
    /\ LET s == [task[t].sess EXCEPT !.active = task[t].rid, !.status = "active"]
       IN  /\ session' = s
           /\ Becomes(t, [task[t] EXCEPT !.pc = "transition_start", !.sess = s])
    /\ UNCHANGED <<runs, thread, lock, claimed, env>>

TransitionStart(t) ==
    /\ At(t, "transition_start")
    /\ Transition(t, "running", "invoke")
    /\ UNCHANGED <<session, thread, lock, claimed, env>>

-----------------------------------------------------------------------------
(* executor.resume *)

\* Faulty: the dispatcher leaves its lock before it starts afresh.
FaultyResumeRaises(t) ==
    IF task[t].kind = "revived"
    THEN /\ Becomes(t, Begun("first", "resolve", NoBatch))
         /\ lock' = NoTask
    ELSE Ends(t)

\* A resume that raises: an inbound that had revived the run starts afresh
\* (the dispatcher swallows the exception), any other caller gives up.
ResumeRaises(t) ==
    IF task[t].kind = "revived"
    THEN /\ Becomes(t, Begun("first", "resolve", NoBatch))
         /\ UNCHANGED lock
    ELSE Ends(t)

ResumeSession(t) ==
    /\ At(t, "resume_session")
    /\ IF session.active = NoRun
       THEN ResumeRaises(t)
       ELSE /\ Becomes(t, [task[t] EXCEPT !.pc = "resume_run", !.sess = session,
                                          !.rid = session.active])
            /\ UNCHANGED lock
    /\ UNCHANGED <<runs, session, thread, claimed, env>>

\* Faulty: only a finished or failed run is refused.
FaultyResumeRun(t) ==
    /\ At(t, "resume_run")
    /\ LET rec == runs[task[t].rid]
       IN  IF rec.status \in {"completed", "failed"}
           THEN ResumeRaises(t)
           ELSE /\ Becomes(t, [task[t] EXCEPT !.pc = "transition_resume", !.run = rec])
                /\ UNCHANGED lock
    /\ UNCHANGED <<runs, session, thread, claimed, env>>

ResumeRun(t) ==
    /\ At(t, "resume_run")
    /\ LET rec == runs[task[t].rid]
       IN  IF rec.status \in Terminal
           THEN ResumeRaises(t)
           ELSE /\ Becomes(t, [task[t] EXCEPT !.pc = "transition_resume", !.run = rec])
                /\ UNCHANGED lock
    /\ UNCHANGED <<runs, session, thread, claimed, env>>

TransitionResume(t) ==
    /\ At(t, "transition_resume")
    /\ Transition(t, "running", "mark_active")
    /\ UNCHANGED <<session, thread, lock, claimed, env>>

MarkActive(t) ==
    /\ At(t, "mark_active")
    /\ LET s == [task[t].sess EXCEPT !.status = "active"]
       IN  /\ session' = s
           /\ Becomes(t, [task[t] EXCEPT !.pc = "invoke", !.sess = s])
    /\ UNCHANGED <<runs, thread, lock, claimed, env>>

-----------------------------------------------------------------------------
(* executor._drive, _finalize, _handle_failure *)

\* External: the checkpoint states a LangGraph invocation may leave behind.  A
\* finished thread stays finished; a failed one keeps the nodes it got through.
Returned(c) == IF c = "end" THEN {"end"} ELSE {"interrupt", "ready", "end"}
Broken(c)   == IF c = "end" THEN {"end"} ELSE {c, "ready"}

InvokeReturns(t) ==
    /\ At(t, "invoke")
    /\ \E c \in Returned(thread[task[t].rid]) : thread' = [thread EXCEPT ![task[t].rid] = c]
    /\ GoesTo(t, "finalize")
    /\ UNCHANGED <<runs, session, lock, claimed, env>>

\* Faulty: one attempt too many.
FaultyInvokeRaises(t) ==
    /\ At(t, "invoke")
    /\ \E c \in Broken(thread[task[t].rid]) : thread' = [thread EXCEPT ![task[t].rid] = c]
    /\ IF task[t].tries + 1 <= MaxAttempts
       THEN /\ SavesRun(task[t].rid, task[t].run)
            /\ Becomes(t, [task[t] EXCEPT !.tries = @ + 1])
       ELSE /\ \E g \in {"failed", "timed_out"} :
                 Becomes(t, [task[t] EXCEPT !.pc = "fail_save", !.goal = g])
            /\ UNCHANGED runs
    /\ UNCHANGED <<session, lock, claimed, env>>

\* An attempt fails or overruns its budget.  Attempts are left: on_retry saves
\* the run and the loop goes round.  None are: FAILED, or TIMED_OUT when the
\* last exception was the timeout.
InvokeRaises(t) ==
    /\ At(t, "invoke")
    /\ \E c \in Broken(thread[task[t].rid]) : thread' = [thread EXCEPT ![task[t].rid] = c]
    /\ IF task[t].tries + 1 < MaxAttempts
       THEN /\ SavesRun(task[t].rid, task[t].run)
            /\ Becomes(t, [task[t] EXCEPT !.tries = @ + 1])
       ELSE /\ \E g \in {"failed", "timed_out"} :
                 Becomes(t, [task[t] EXCEPT !.pc = "fail_save", !.goal = g])
            /\ UNCHANGED runs
    /\ UNCHANGED <<session, lock, claimed, env>>

\* Faulty: nodes left without an interrupt count as waiting, or as the end.
FaultySettled(c) == IF c = "end" THEN "completed" ELSE "waiting_for_input"
EarlySettled(c)  == IF c = "interrupt" THEN "waiting_for_input" ELSE "completed"

\* The status _finalize reads off the snapshot: no next node, an interrupt, or
\* more work pending.
Settled(c) ==
    CASE c = "end"       -> "completed"
      [] c = "interrupt" -> "waiting_for_input"
      [] OTHER           -> "suspended"

\* The snapshot and the save of the run before its transition (one step).
Finalize(t) ==
    /\ At(t, "finalize")
    /\ LET g   == Settled(thread[task[t].rid])
           rec == [task[t].run EXCEPT !.prompt = (g = "waiting_for_input")]
       IN  /\ SavesRun(task[t].rid, rec)
           /\ Becomes(t, [task[t] EXCEPT !.pc = "transition_final", !.run = rec, !.goal = g])
    /\ UNCHANGED <<session, thread, lock, claimed, env>>

\* SUSPENDED leaves the session alone; the other two go on to it.
TransitionFinal(t) ==
    /\ At(t, "transition_final")
    /\ LET r   == task[t].rid
           g   == task[t].goal
           rec == [task[t].run EXCEPT !.status = g]
       IN  /\ IsAllowed(task[t].run.status, g)
           /\ SavesRun(r, rec)
           /\ IF g = "suspended"
              THEN Ends(t)
              ELSE /\ Becomes(t, [task[t] EXCEPT !.run = rec, !.pc =
                          IF g = "completed" THEN "complete_session" ELSE "mark_waiting"])
                   /\ UNCHANGED lock
    /\ UNCHANGED <<session, thread, claimed, env>>

CompleteSession(t) ==
    /\ At(t, "complete_session")
    /\ session' = [task[t].sess EXCEPT !.status = "completed", !.expires = NoTime]
    /\ Ends(t)
    /\ UNCHANGED <<runs, thread, claimed, env>>

MarkWaiting(t) ==
    /\ At(t, "mark_waiting")
    /\ LET s == [task[t].sess EXCEPT !.status = "waiting", !.expires = Expiry]
       IN  /\ session' = s
           /\ Becomes(t, [task[t] EXCEPT !.pc = "save_expiry", !.sess = s])
    /\ UNCHANGED <<runs, thread, lock, claimed, env>>

\* run.expires_at = session.expires_at and its save.  A first inbound that
\* carried a document and parked at an upload prompt is fed to it again.
SaveExpiry(t) ==
    /\ At(t, "save_expiry")
    /\ SavesRun(task[t].rid, [task[t].run EXCEPT !.expires = task[t].sess.expires])
    /\ \/ Ends(t)
       \/ /\ task[t].kind = "first"
          /\ Becomes(t, Begun("replay", "resume_session", NoBatch))
          /\ UNCHANGED lock
    /\ UNCHANGED <<session, thread, claimed, env>>

\* _handle_failure: the save with the error, then the transition
FailSave(t) ==
    /\ At(t, "fail_save")
    /\ SavesRun(task[t].rid, task[t].run)
    /\ GoesTo(t, "transition_fail")
    /\ UNCHANGED <<session, thread, lock, claimed, env>>

TransitionFail(t) ==
    /\ At(t, "transition_fail")
    /\ LET r == task[t].rid
           g == task[t].goal
       IN  /\ IsAllowed(task[t].run.status, g)
           /\ SavesRun(r, [task[t].run EXCEPT !.status = g])
    /\ Ends(t)
    /\ UNCHANGED <<session, thread, claimed, env>>

-----------------------------------------------------------------------------
(* Requests of the web process *)

\* A request is taken up by an idle web task (bound: MaxArrivals).
Arrives(t, k) ==
    /\ k \in Ops
    /\ At(t, "idle")
    /\ arrivals < MaxArrivals
    /\ arrivals' = arrivals + 1

\* Faulty: no per-identity lock.
FaultyLockFree == TRUE

\* The inbound dispatcher waits for the per-identity lock, then reads the session.
LockFree == lock = NoTask

Inbound(t) ==
    /\ Arrives(t, "inbound")
    /\ LockFree
    /\ lock' = t
    /\ Becomes(t, IF session.active = NoRun
                  THEN Begun("first", "resolve", NoBatch)
                  ELSE [Begun("inbound", "inbound_run", NoBatch) EXCEPT !.rid = session.active])
    /\ UNCHANGED <<runs, session, thread, claimed, now, crashes>>

\* A live run is resumed, a failed one revived first, any other one left behind.
InboundRun(t) ==
    /\ At(t, "inbound_run")
    /\ LET rec == runs[task[t].rid]
       IN  Becomes(t,
             CASE rec.status \in Statuses \ Terminal
                    -> Begun("inbound", "resume_session", NoBatch)
               [] rec.status \in Terminal \cap Revivable
                    -> [task[t] EXCEPT !.kind = "revived", !.pc = "revive", !.run = rec]
               [] OTHER
                    -> Begun("first", "resolve", NoBatch))
    /\ UNCHANGED <<runs, session, thread, lock, claimed, env>>

\* runtime.revive_failed_run
Revive(t) ==
    /\ At(t, "revive")
    /\ Transition(t, "running", "resume_session")
    /\ UNCHANGED <<session, thread, lock, claimed, env>>

\* on_backend_event / resume_external: straight into executor.resume, no lock
BackendEvent(t) ==
    /\ Arrives(t, "event")
    /\ Becomes(t, Begun("event", "resume_session", NoBatch))
    /\ UNCHANGED <<runs, session, thread, lock, claimed, now, crashes>>

\* start_campaign: the claim is SET NX EX.  A second campaign within the window
\* returns the active run if the store has one, and proceeds as a fresh start if
\* it has none.
Claimed == claimed > now

Campaign(t) ==
    /\ Arrives(t, "campaign")
    /\ claimed' = IF Claimed THEN claimed ELSE now + ClaimTtl
    /\ IF Claimed /\ WithStatus(Active) # {}
       THEN UNCHANGED task
       ELSE Becomes(t, Begun("campaign", "cancel_list", NoBatch))
    /\ UNCHANGED <<runs, session, thread, lock, now, crashes>>

\* _cancel_active_runs_for: the query
CancelList(t) ==
    /\ At(t, "cancel_list")
    /\ Lists(t, "campaign", IF WithStatus(Active) = {} THEN "resolve" ELSE "cancel_save",
             WithStatus(Active))
    /\ UNCHANGED <<runs, session, thread, lock, claimed, env>>

\* ... and a direct save per listed run, past the transition manager
CancelSave(t) ==
    /\ At(t, "cancel_save")
    /\ \E r \in Runs :
         /\ task[t].batch[r] # Absent
         /\ SavesRun(r, [task[t].batch[r] EXCEPT !.status = "cancelled"])
         /\ Becomes(t, [task[t] EXCEPT !.batch[r] = Absent, !.pc =
                IF \A q \in Runs \ {r} : task[t].batch[q] = Absent
                THEN "resolve" ELSE "cancel_save"])
    /\ UNCHANGED <<session, thread, lock, claimed, env>>

-----------------------------------------------------------------------------
(* Beat jobs of the Celery workers *)

\* A beat job is taken up by an idle worker and begins with its store query; a
\* query that finds nothing ends the job at once.
Beat(t, k, S) ==
    /\ k \in Ops
    /\ At(t, "idle")
    /\ S # {}
    /\ Lists(t, k, NextOf[k], S)
    /\ UNCHANGED <<runs, session, thread, lock, claimed, env>>

\* recover_pending: whatever is RUNNING or SUSPENDED, whoever is driving it
RecoverList(t) == Beat(t, "recover", WithStatus(Recoverable))

\* executor.continue_run: the session read and, unless the listed copy says
\* RUNNING, a transition first
RecoverNext(t) ==
    /\ At(t, "next_recover")
    /\ \E r \in Runs :
         /\ task[t].batch[r] # Absent
         /\ Becomes(t, [TakesUp(t, r) EXCEPT !.sess = session, !.pc =
                IF task[t].batch[r].status = "running" THEN "invoke" ELSE "transition_recover"])
    /\ UNCHANGED <<runs, session, thread, lock, claimed, env>>

TransitionRecover(t) ==
    /\ At(t, "transition_recover")
    /\ Transition(t, "running", "invoke")
    /\ UNCHANGED <<session, thread, lock, claimed, env>>

\* sweep_timeouts: list_waiting_expired
Lapsed(r) == /\ runs[r].status = "waiting_for_input"
             /\ runs[r].expires # NoTime
             /\ runs[r].expires <= now

SweepList(t) == Beat(t, "sweep", {r \in Runs : Lapsed(r)})

\* Faulty: the timed out run is not saved.
FaultySweepNext(t) ==
    /\ At(t, "next_sweep")
    /\ \E r \in Runs :
         /\ task[t].batch[r] # Absent
         /\ Becomes(t, [TakesUp(t, r) EXCEPT !.pc = "sweep_session"])
    /\ UNCHANGED <<runs, session, thread, lock, claimed, env>>

\* The transition of the listed copy to TIMED_OUT ...
SweepNext(t) ==
    /\ At(t, "next_sweep")
    /\ \E r \in Runs :
         /\ task[t].batch[r] # Absent
         /\ IsAllowed(task[t].batch[r].status, "timed_out")
         /\ SavesRun(r, [task[t].batch[r] EXCEPT !.status = "timed_out"])
         /\ Becomes(t, [TakesUp(t, r) EXCEPT !.pc = "sweep_session"])
    /\ UNCHANGED <<session, thread, lock, claimed, env>>

\* ... the read of the identity's session, and its save as EXPIRED
SweepSession(t) ==
    /\ At(t, "sweep_session")
    /\ IF session.status = "absent"
       THEN Ends(t)
       ELSE /\ Becomes(t, [task[t] EXCEPT !.pc = "sweep_expire", !.sess = session])
            /\ UNCHANGED lock
    /\ UNCHANGED <<runs, session, thread, claimed, env>>

SweepExpire(t) ==
    /\ At(t, "sweep_expire")
    /\ session' = [task[t].sess EXCEPT !.status = "expired"]
    /\ Ends(t)
    /\ UNCHANGED <<runs, thread, claimed, env>>

\* run_status_poller: the waiting runs, of which some are due
PollList(t) == \E S \in SUBSET WithStatus({"waiting_for_input"}) : Beat(t, "poll", S)

\* A run parked on a decision that is not the session's active one is an orphan;
\* one parked at the document upload is resumed without that question.
PollNext(t) ==
    /\ At(t, "next_poll")
    /\ \E r \in Runs :
         /\ task[t].batch[r] # Absent
         /\ \E docs \in BOOLEAN :
              Becomes(t, [TakesUp(t, r) EXCEPT !.pc =
                  IF docs \/ session.active = r THEN "resume_session" ELSE "poll_cancel"])
    /\ UNCHANGED <<runs, session, thread, lock, claimed, env>>

\* The orphan's direct save, past the transition manager
PollCancel(t) ==
    /\ At(t, "poll_cancel")
    /\ SavesRun(task[t].rid, [task[t].run EXCEPT !.status = "cancelled"])
    /\ Ends(t)
    /\ UNCHANGED <<session, thread, claimed, env>>

-----------------------------------------------------------------------------
(* Crashes and the clock *)

\* The web process dies with its tasks and its in-memory locks; the stores, the
\* checkpoints and the dedupe keys survive (bound: MaxCrashes).
CrashWeb ==
    /\ crashes < MaxCrashes
    /\ crashes' = crashes + 1
    /\ \E t \in Web : ~At(t, "idle")
    /\ task' = [t \in Tasks |-> IF t \in Web THEN Idle ELSE task[t]]
    /\ lock' = NoTask
    /\ UNCHANGED <<runs, session, thread, claimed, now, arrivals>>

\* A worker dies; its redelivered task starts over with a new query.
CrashWorker(t) ==
    /\ crashes < MaxCrashes
    /\ crashes' = crashes + 1
    /\ ~At(t, "idle")
    /\ Becomes(t, Idle)
    /\ UNCHANGED <<runs, session, thread, lock, claimed, now, arrivals>>

Tick ==
    /\ now < MaxNow
    /\ now' = now + 1
    /\ UNCHANGED <<runs, session, thread, lock, claimed, arrivals, crashes, task>>

-----------------------------------------------------------------------------
(* Specification *)

Start(t)  == Resolve(t) \/ OpenSession(t) \/ CreateRun(t) \/ BindRun(t) \/ TransitionStart(t)
Resume(t) == ResumeSession(t) \/ ResumeRun(t) \/ TransitionResume(t) \/ MarkActive(t)
Drive(t)  == \/ InvokeReturns(t) \/ InvokeRaises(t)
             \/ Finalize(t) \/ TransitionFinal(t) \/ CompleteSession(t)
             \/ MarkWaiting(t) \/ SaveExpiry(t)
             \/ FailSave(t) \/ TransitionFail(t)

Requests(t) == Inbound(t) \/ BackendEvent(t) \/ Campaign(t)

\* A step of a task that is on something already
WebStep(t)    == \/ InboundRun(t) \/ Revive(t) \/ CancelList(t) \/ CancelSave(t)
                 \/ Start(t) \/ Resume(t) \/ Drive(t)
WorkerStep(t) == \/ RecoverNext(t) \/ TransitionRecover(t)
                 \/ SweepNext(t) \/ SweepSession(t) \/ SweepExpire(t)
                 \/ PollNext(t) \/ PollCancel(t)
                 \/ Resume(t) \/ Drive(t)

Next ==
    \/ \E t \in Web : Requests(t) \/ WebStep(t)
    \/ \E t \in Workers : \/ RecoverList(t) \/ SweepList(t) \/ PollList(t)
                           \/ WorkerStep(t) \/ CrashWorker(t)
    \/ CrashWeb \/ Tick

Spec == Init /\ [][Next]_vars

\* A task that has begun is carried on (the event loop, the Celery worker), time
\* passes, and beat schedules every job again and again.  Nothing makes requests
\* arrive or processes crash.
Fairness ==
    /\ WF_vars(Tick)
    /\ \A t \in Web : WF_vars(WebStep(t))
    /\ \A t \in Workers : /\ WF_vars(WorkerStep(t))
                           /\ SF_vars(RecoverList(t))
                           /\ SF_vars(SweepList(t))

FairSpec == Spec /\ Fairness

-----------------------------------------------------------------------------
(* Properties *)

\* No two tasks drive the checkpoint thread of one run at the same time: with the
\* inbound dispatcher alone its per-identity lock sees to it; the recovery beat
\* goes past that lock.
SingleDriver ==
    \A t, u \in Tasks :
        At(t, "invoke") /\ At(u, "invoke") /\ task[t].rid = task[u].rid => t = u

\* A run the store shows WAITING_FOR_INPUT is parked at an interrupt, with the
\* prompt stored: the next inbound has something to answer (_finalize).
ParkedAtInterrupt ==
    \A r \in Runs : runs[r].status = "waiting_for_input" =>
        thread[r] = "interrupt" /\ runs[r].prompt

\* One identity has at most one run under way, however its requests and crashes
\* fall (_dispatch_locked starts a run only when the session's own is over).
OneUnderWay ==
    \A q, r \in WithStatus({"running", "waiting_for_input", "suspended", "timed_out"}) : q = r

\* Only a finished thread is stored as COMPLETED, whichever tasks wrote the run
\* from whichever copies (_finalize).
CompletedAtEnd == \A r \in Runs : runs[r].status = "completed" => thread[r] = "end"

\* The session never points at a run the store does not have: executor.start
\* creates the run before it binds it, whatever crashes in between.
SessionBound == session.active # NoRun => runs[session.active].status # "absent"

\* The run a task holds and the transition it is about to make never make the
\* transition manager raise: the table is checked against the caller's own copy,
\* so no interleaving is ever refused, however stale the copy is.
NeverRejected ==
    \A t \in Tasks :
        /\ task[t].pc \in {"transition_start", "transition_resume", "transition_recover", "revive"}
              => IsAllowed(task[t].run.status, "running")
        /\ task[t].pc \in {"transition_final", "transition_fail"}
              => IsAllowed(task[t].run.status, task[t].goal)
        /\ task[t].pc = "next_sweep" =>
              \A r \in Runs : task[t].batch[r] # Absent =>
                  IsAllowed(task[t].batch[r].status, "timed_out")

\* The per-identity lock is held by exactly the task that serves an inbound, from
\* its first step to its last, through revivals that fail and replays.
LockedWhileInbound ==
    \A t \in Web : lock = t <=> task[t].kind \in {"inbound", "first", "revived", "replay"}

\* The stored statuses obey the abstract specification: created PENDING, then only
\* along the table, terminal statuses included (transitions.py).
Status == INSTANCE RunStatus WITH status <- [r \in Runs |-> runs[r].status]

ImplementsRunStatus == Status!Spec

\* Whatever a crash leaves RUNNING is settled in the end: the recovery beat picks
\* it up (recover_pending).
RunningEnds == \A r \in Runs : runs[r].status = "running" ~> runs[r].status # "running"

\* A run whose waiting session lapsed does not stay so: it is timed out, or
\* answered and parked anew (sweep_timeouts).
LapsedIsSwept == \A r \in Runs : Lapsed(r) ~> ~Lapsed(r)

=============================================================================
