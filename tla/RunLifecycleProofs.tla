------------------------ MODULE RunLifecycleProofs ------------------------
(***************************************************************************)
(* Proofs about RunLifecycle, for any sets of runs, tasks and operations.  *)
(*                                                                         *)
(* IInv strengthens the invariants to an inductive one.  The stores alone  *)
(* do not determine what a task will write: Sound pins, at every location, *)
(* what the task's own copy of the run says, and Backed ties the copies to *)
(* the stores, where runs never disappear and a finished thread stays so.  *)
(***************************************************************************)
EXTENDS RunLifecycle, TLAPS

\* Locations at which the task works on its copy of run rid.
Holding ==
    {"bind", "transition_start", "revive", "transition_resume", "mark_active", "invoke",
     "finalize", "transition_final", "complete_session", "mark_waiting", "save_expiry",
     "fail_save", "transition_fail", "transition_recover", "poll_cancel"}

\* Locations between the transition to RUNNING and the one out of it.
Driving == {"mark_active", "invoke", "finalize", "transition_final", "fail_save",
            "transition_fail"}

InboundKinds == {"inbound", "first", "revived", "replay"}

Empty(k) == \A r \in Runs : k.batch[r] = Absent

\* What a task record k says by its location and kind, whatever the stores say.
SoundCopy(k) ==
    /\ k.pc \in Holding \cup {"inbound_run", "resume_run"} => k.rid \in Runs
    /\ k.pc \in {"bind", "transition_start"} => k.run.status = "pending"
    /\ k.pc = "transition_resume" => k.run.status \in Statuses \ Terminal
    /\ k.pc = "transition_recover" => k.run.status \in Recoverable
    /\ k.pc = "revive" => k.run.status = "failed"
    /\ k.pc \in Driving => k.run.status = "running"
    /\ k.pc \in {"mark_waiting", "save_expiry"} => k.run.status = "waiting_for_input"
    /\ k.pc = "poll_cancel" => k.run.status = "waiting_for_input"
    /\ k.pc = "transition_final" =>
          k.goal \in {"completed", "waiting_for_input", "suspended"}
    /\ k.pc \in {"fail_save", "transition_fail"} => k.goal \in {"failed", "timed_out"}

SoundKind(k) ==
    /\ k.pc = "idle" <=> k.kind = "none"
    /\ k.pc = "inbound_run" => k.kind = "inbound"
    /\ k.pc = "revive" => k.kind = "revived"
    /\ k.pc \in {"cancel_list", "cancel_save"} => k.kind = "campaign"
    /\ k.pc = "next_recover" => k.kind = "recover"
    /\ k.pc = "next_sweep" => k.kind = "sweep"
    /\ k.pc = "next_poll" => k.kind = "poll"

SoundBatch(k) ==
    \/ Empty(k)
    \/ /\ k.kind = "recover"
       /\ \A r \in Runs : k.batch[r] # Absent => k.batch[r].status \in Recoverable
    \/ /\ k.kind \in {"sweep", "poll"}
       /\ \A r \in Runs : k.batch[r] # Absent => k.batch[r].status = "waiting_for_input"
    \/ k.pc = "cancel_save"

Sound(k) == SoundCopy(k) /\ SoundKind(k) /\ SoundBatch(k)

\* What a task record k relies on in the stores.
Stored(r) == runs[r].status # "absent"

Backed(k) ==
    /\ k.rid # NoRun => Stored(k.rid)
    /\ k.sess.active # NoRun => Stored(k.sess.active)
    /\ \A r \in Runs : k.batch[r] # Absent => Stored(r)
    /\ k.pc = "transition_final" /\ k.goal = "completed" => thread[k.rid] = "end"

\* Worker tasks do worker jobs, web tasks do not.
Housed(t, k) == IF t \in Workers THEN k.kind \in WorkerOps \cup {"none"}
                                 ELSE k.kind \notin WorkerOps

IInv ==
    /\ TypeOK
    /\ \A t \in Tasks : Sound(task[t]) /\ Backed(task[t]) /\ Housed(t, task[t])
    /\ SessionBound
    /\ CompletedAtEnd
    /\ LockedWhileInbound

-----------------------------------------------------------------------------
(* One step of one task *)

\* The stores only grow: no run disappears, no finished thread is reopened.
StoresGrow ==
    \A r \in Runs : /\ Stored(r) => Stored(r)'
                    /\ thread[r] = "end" => thread'[r] = "end"

\* The stores after a step are what the invariant asks of them.
StoresFine ==
    /\ runs' \in [Runs -> RunRecord]
    /\ session' \in SessionRecord
    /\ thread' \in [Runs -> ThreadStates]
    /\ now' \in 1 .. MaxNow
    /\ claimed' \in 0 .. MaxNow + ClaimTtl
    /\ arrivals' \in 0 .. MaxArrivals
    /\ crashes' \in 0 .. MaxCrashes
    /\ StoresGrow
    /\ SessionBound'
    /\ CompletedAtEnd'

\* The lock follows task t, which goes on as record k.
LockFollows(t, k) ==
    \/ /\ lock' = lock
       /\ k.kind \in InboundKinds <=> task[t].kind \in InboundKinds
    \/ /\ lock' = t
       /\ lock = NoTask
       /\ t \in Web
       /\ k.kind \in InboundKinds
    \/ /\ lock' = IF lock = t THEN NoTask ELSE lock
       /\ k.kind \notin InboundKinds

\* A step of one task preserves the invariant if the stores it leaves are fine and
\* its next record is typed, sound, backed by them and housed.
LEMMA TaskStep ==
    ASSUME IInv, NEW t \in Tasks, NEW k \in TaskRecord,
           Becomes(t, k), StoresFine, LockFollows(t, k),
           Sound(k), Backed(k)', Housed(t, k)
    PROVE  IInv'
<1>1. /\ task' \in [Tasks -> TaskRecord]
      /\ task'[t] = k
      /\ \A u \in Tasks \ {t} : task'[u] = task[u]
  BY DEF IInv, TypeOK, Becomes
<1>2. lock' \in Web \cup {NoTask}
  BY DEF IInv, TypeOK, LockFollows
<1>3. TypeOK'
  BY <1>1, <1>2 DEF TypeOK, StoresFine
<1>4. ASSUME NEW u \in Tasks
      PROVE  Sound(task'[u]) /\ Backed(task[u])' /\ Housed(u, task'[u])
  <2>1. CASE u = t
    BY <1>1, <2>1 DEF Backed
  <2>2. CASE u # t
    <3>1. /\ Sound(task[u]) /\ Backed(task[u]) /\ Housed(u, task[u])
          /\ task'[u] = task[u]
          /\ task[u] \in TaskRecord
      BY <1>1, <2>2 DEF IInv, TypeOK
    <3>2. Backed(task[u])'
      <4>1. task[u].pc = "transition_final" => task[u].rid \in Runs
        BY <3>1 DEF Sound, SoundCopy, Holding
      <4>2. task[u].rid \in Runs \cup {NoRun} /\ task[u].sess.active \in Runs \cup {NoRun}
        BY <3>1 DEF TaskRecord, SessionRecord
      <4> QED
        BY <3>1, <4>1, <4>2 DEF Backed, StoresFine, StoresGrow
    <3> QED BY <3>1, <3>2
  <2> QED BY <2>1, <2>2
<1>5. LockedWhileInbound'
  BY <1>1, NoneAssumption DEF IInv, LockedWhileInbound, LockFollows, InboundKinds, Tasks
<1> QED
  BY <1>3, <1>4, <1>5 DEF IInv, StoresFine, Sound, Housed

-----------------------------------------------------------------------------
(* What one store operation leaves *)

\* A step that writes no store leaves them fine.
LEMMA NothingSaved ==
    ASSUME IInv, UNCHANGED <<runs, session, thread, claimed, env>>
    PROVE  StoresFine
BY DEF IInv, TypeOK, StoresFine, StoresGrow, SessionBound, CompletedAtEnd, Stored, env

\* A save of a run leaves them fine when it writes no "absent", and COMPLETED only
\* over a finished thread.
LEMMA RunSaved ==
    ASSUME IInv, NEW r \in Runs, NEW rec \in RunRecord, SavesRun(r, rec),
           rec.status # "absent", rec.status = "completed" => thread[r] = "end",
           UNCHANGED <<session, thread, claimed, env>>
    PROVE  StoresFine /\ Stored(r)'
<1>1. /\ runs' \in [Runs -> RunRecord]
      /\ runs'[r] = rec
      /\ \A q \in Runs \ {r} : runs'[q] = runs[q]
  BY DEF IInv, TypeOK, SavesRun
<1>2. StoresGrow /\ CompletedAtEnd' /\ Stored(r)'
  BY <1>1 DEF IInv, StoresGrow, CompletedAtEnd, Stored
<1>3. SessionBound'
  BY <1>2 DEF IInv, TypeOK, SessionRecord, SessionBound, StoresGrow, Stored
<1> QED
  BY <1>1, <1>2, <1>3 DEF IInv, TypeOK, StoresFine, env

\* A save of the session leaves them fine when its active run exists.
LEMMA SessionSaved ==
    ASSUME IInv, NEW s \in SessionRecord, session' = s,
           s.active # NoRun => Stored(s.active),
           UNCHANGED <<runs, thread, claimed, env>>
    PROVE  StoresFine
BY DEF IInv, TypeOK, StoresFine, StoresGrow, SessionBound, CompletedAtEnd, Stored, env

\* What a change of a field makes of a record.
LEMMA StatusChanged ==
    ASSUME NEW rec \in RunRecord, NEW to \in Statuses
    PROVE  /\ [rec EXCEPT !.status = to] \in RunRecord
           /\ [rec EXCEPT !.status = to].status = to
BY DEF RunRecord

\* Rewriting a run record's prompt (_finalize's pending_interrupts) leaves a run
\* record.
LEMMA PromptChanged ==
    ASSUME NEW rec \in RunRecord, NEW b \in BOOLEAN
    PROVE  /\ [rec EXCEPT !.prompt = b] \in RunRecord
           /\ [rec EXCEPT !.prompt = b].status = rec.status
BY DEF RunRecord

\* Rewriting a run record's expires_at (_finalize, while waiting) leaves a run
\* record.
LEMMA ExpiryChanged ==
    ASSUME NEW rec \in RunRecord, NEW e \in Times
    PROVE  /\ [rec EXCEPT !.expires = e] \in RunRecord
           /\ [rec EXCEPT !.expires = e].status = rec.status
BY DEF RunRecord

\* Rewriting a session's status, active run or expiry (SessionManager) leaves a
\* session record.
LEMMA SessionChanged ==
    ASSUME NEW s \in SessionRecord, NEW e \in Times,
           NEW st \in {"active", "waiting", "completed", "expired"}
    PROVE  /\ [s EXCEPT !.status = st, !.expires = e] \in SessionRecord
           /\ [s EXCEPT !.status = st, !.expires = e].active = s.active
BY DEF SessionRecord

-----------------------------------------------------------------------------
(* Common ways for a task to go on *)

\* Locations at which a piece of work can begin: nothing is held yet.
Beginnings == {"idle", "resolve", "cancel_list", "cancel_save", "resume_session",
               "next_recover", "next_sweep", "next_poll"}

\* A task that has just begun its work is a well-typed task.
LEMMA BegunType ==
    ASSUME NEW kd \in Kinds \cup {"none"}, NEW l \in Locations,
           NEW b \in [Runs -> RunRecord]
    PROVE  Begun(kd, l, b) \in TaskRecord
<1>1. Absent \in RunRecord
  BY BoundsAssumption DEF Absent, RunRecord, NoTime, Times
<1>2. NoSession \in SessionRecord
  BY BoundsAssumption DEF NoSession, SessionRecord, NoTime, Times
<1>3. 0 \in 0 .. MaxAttempts - 1
  BY BoundsAssumption
<1> QED
  BY <1>1, <1>2, <1>3 DEF Begun, TaskRecord

\* The empty batch is a batch.
LEMMA NoBatchType == NoBatch \in [Runs -> RunRecord]
BY BoundsAssumption DEF NoBatch, Absent, RunRecord, NoTime, Times

\* A task begins work of kind kd at l with the runs of b listed.
LEMMA BegunStep ==
    ASSUME IInv, NEW t \in Tasks, NEW kd \in Kinds \cup {"none"}, NEW l \in Beginnings,
           NEW b \in [Runs -> RunRecord],
           Becomes(t, Begun(kd, l, b)), StoresFine, LockFollows(t, Begun(kd, l, b)),
           SoundKind(Begun(kd, l, b)), SoundBatch(Begun(kd, l, b)),
           \A r \in Runs : b[r] # Absent => Stored(r)',
           Housed(t, Begun(kd, l, b))
    PROVE  IInv'
<1>1. PICK k \in TaskRecord : k = Begun(kd, l, b)
  <2>1. l \in Locations
    BY DEF Beginnings, Locations
  <2> QED
    BY <2>1, BegunType
<1>2. /\ k.kind = kd /\ k.pc = l /\ k.batch = b
      /\ k.rid = NoRun /\ k.sess = NoSession
  BY <1>1 DEF Begun
<1>3. SoundCopy(k)
  BY <1>2 DEF SoundCopy, Holding, Driving, Beginnings
<1>4. Backed(k)'
  BY <1>2 DEF Backed, Beginnings, NoSession
<1> QED
  BY <1>1, <1>3, <1>4, TaskStep DEF Sound

\* The end of a piece of work: the next listed run, or nothing more to do.
LEMMA EndsStep ==
    ASSUME IInv, NEW t \in Tasks, Ends(t), StoresFine,
           task[t].pc \notin {"idle", "cancel_list", "cancel_save"}
    PROVE  IInv'
<1>1. lock' = IF lock = t THEN NoTask ELSE lock
  BY DEF Ends
<1>2. /\ task[t] \in TaskRecord /\ Sound(task[t]) /\ Backed(task[t])
      /\ Housed(t, task[t])
  BY DEF IInv, TypeOK
<1>3. CASE Empty(task[t])
  <2>1. Becomes(t, Begun("none", "idle", NoBatch))
    BY <1>3 DEF Ends, Empty, Idle
  <2>2. /\ SoundKind(Begun("none", "idle", NoBatch))
        /\ SoundBatch(Begun("none", "idle", NoBatch))
        /\ Housed(t, Begun("none", "idle", NoBatch))
        /\ LockFollows(t, Begun("none", "idle", NoBatch))
    BY <1>1 DEF Begun, SoundKind, SoundBatch, Empty, NoBatch, Housed, WorkerOps,
                LockFollows, InboundKinds
  <2>3. \A r \in Runs : NoBatch[r] = Absent
    BY DEF NoBatch
  <2> QED
    BY <2>1, <2>2, <2>3, NoBatchType, BegunStep DEF Beginnings
<1>4. CASE ~Empty(task[t])
  <2>1. task[t].kind \in WorkerOps
    BY <1>2, <1>4 DEF Sound, SoundBatch, WorkerOps
  <2>2. PICK kd \in WorkerOps, b \in [Runs -> RunRecord] :
            kd = task[t].kind /\ b = task[t].batch
    BY <1>2, <2>1 DEF TaskRecord
  <2>3. PICK l \in Beginnings : l = NextOf[kd]
    BY <2>2 DEF NextOf, WorkerOps, Beginnings
  <2>4. Becomes(t, Begun(kd, l, b))
    BY <1>4, <2>2, <2>3 DEF Ends, Empty
  <2>5. /\ SoundKind(Begun(kd, l, b))
        /\ SoundBatch(Begun(kd, l, b))
    BY <1>2, <2>2, <2>3 DEF Begun, Sound, SoundKind, SoundBatch, Empty, NextOf, WorkerOps
  <2>6. \A r \in Runs : b[r] # Absent => Stored(r)'
    BY <1>2, <2>2 DEF Backed, StoresFine, StoresGrow
  <2>7. Housed(t, Begun(kd, l, b)) /\ LockFollows(t, Begun(kd, l, b))
    BY <1>1, <1>2, <2>2 DEF Begun, Housed, WorkerOps, LockFollows, InboundKinds
  <2>8. kd \in Kinds
    BY DEF Kinds
  <2> QED
    BY <2>4, <2>5, <2>6, <2>7, <2>8, BegunStep
<1> QED BY <1>3, <1>4

\* What the invariant says of one task, of its record o and of the stores.
LEMMA TaskFacts ==
    ASSUME IInv, NEW t \in Tasks
    PROVE  \E o \in TaskRecord :
               o = task[t] /\ Sound(o) /\ Backed(o) /\ Housed(t, o)
BY DEF IInv, TypeOK

\* A record backed by the stores stays backed when they grow.
LEMMA StillBacked ==
    ASSUME NEW o \in TaskRecord, Sound(o), Backed(o), StoresFine
    PROVE  Backed(o)'
<1>1. o.rid \in Runs \cup {NoRun} /\ o.sess.active \in Runs \cup {NoRun}
  BY DEF TaskRecord, SessionRecord
<1>2. o.pc = "transition_final" => o.rid \in Runs
  BY DEF Sound, SoundCopy, Holding
<1> QED
  BY <1>1, <1>2 DEF Backed, StoresFine, StoresGrow

\* Locations only a task of one kind is at, or none.
Particular == {"idle", "inbound_run", "revive", "cancel_list", "cancel_save",
               "next_recover", "next_sweep", "next_poll"}

\* A task goes on with the work it is on.
LEMMA Proceeds ==
    ASSUME IInv, NEW t \in Tasks, NEW o \in TaskRecord, o = task[t],
           NEW k \in TaskRecord, Becomes(t, k), StoresFine, UNCHANGED lock,
           k.kind = o.kind, k.batch = o.batch,
           o.pc \notin {"idle", "cancel_save"}, k.pc \notin Particular,
           SoundCopy(k),
           k.rid # NoRun => Stored(k.rid)',
           k.sess.active # NoRun => Stored(k.sess.active)',
           k.pc = "transition_final" /\ k.goal = "completed" => thread'[k.rid] = "end"
    PROVE  IInv'
<1>1. Sound(o) /\ Backed(o) /\ Housed(t, o)
  BY TaskFacts
<1>2. Sound(k) /\ Housed(t, k) /\ LockFollows(t, k)
  BY <1>1 DEF Sound, SoundKind, SoundBatch, Empty, Housed, LockFollows, Particular
<1>3. Backed(k)'
  BY <1>1, StillBacked DEF Backed
<1> QED
  BY <1>2, <1>3, TaskStep

-----------------------------------------------------------------------------
(* executor.start *)

\* SessionManager.resolve's read preserves the invariant.
LEMMA ResolveStep == ASSUME IInv, NEW t \in Tasks, Resolve(t) PROVE IInv'
<1>1. PICK o \in TaskRecord : o = task[t] /\ Sound(o) /\ Backed(o)
  BY TaskFacts
<1>2. StoresFine
  BY NothingSaved DEF Resolve
<1>3. PICK s \in SessionRecord, l \in {"open_session", "create"} :
          /\ s.active # NoRun => Stored(s.active)
          /\ Becomes(t, [o EXCEPT !.pc = l, !.sess = s])
  <2>1. NewSession \in SessionRecord /\ NewSession.active = NoRun
    BY BoundsAssumption DEF NewSession, SessionRecord, NoTime, Times
  <2>2. session \in SessionRecord /\ (session.active # NoRun => Stored(session.active))
    BY DEF IInv, TypeOK, SessionBound, Stored
  <2>3. CASE session.status = "absent"
    BY <1>1, <2>1, <2>3 DEF Resolve
  <2>4. CASE session.status # "absent"
    BY <1>1, <2>2, <2>4 DEF Resolve
  <2> QED BY <2>3, <2>4
<1>4. PICK k \in TaskRecord : k = [o EXCEPT !.pc = l, !.sess = s]
  BY DEF TaskRecord, Locations
<1>5. SoundCopy(k)
  BY <1>4 DEF SoundCopy, Holding, Driving, TaskRecord
<1>6. Backed(o)' /\ (s.active # NoRun => Stored(s.active)')
  BY <1>1, <1>2, <1>3, StillBacked DEF StoresFine, StoresGrow, SessionRecord
<1> QED
  BY <1>1, <1>2, <1>3, <1>4, <1>5, <1>6, Proceeds, ZenonT(60)
     DEF Resolve, At, Particular, TaskRecord, Backed

\* The save of a new session preserves the invariant.
LEMMA OpenSessionStep == ASSUME IInv, NEW t \in Tasks, OpenSession(t) PROVE IInv'
<1>1. PICK o \in TaskRecord : o = task[t] /\ Sound(o) /\ Backed(o)
  BY TaskFacts
<1>2. StoresFine
  BY <1>1, SessionSaved DEF OpenSession, Backed, TaskRecord
<1>3. PICK k \in TaskRecord : k = [o EXCEPT !.pc = "create"] /\ Becomes(t, k)
  BY <1>1 DEF TaskRecord, Locations, OpenSession, GoesTo
<1>4. SoundCopy(k)
  BY <1>3 DEF SoundCopy, Holding, Driving, TaskRecord
<1>5. Backed(o)'
  BY <1>1, <1>2, StillBacked
<1> QED
  BY <1>1, <1>2, <1>3, <1>4, <1>5, Proceeds
     DEF OpenSession, At, Particular, TaskRecord, Backed

\* run_store.create preserves the invariant: the new run is PENDING.
LEMMA CreateRunStep == ASSUME IInv, NEW t \in Tasks, CreateRun(t) PROVE IInv'
<1>1. PICK o \in TaskRecord : o = task[t] /\ Sound(o) /\ Backed(o)
  BY TaskFacts
<1>2. PICK r \in Runs : /\ runs[r] = Absent
                        /\ SavesRun(r, NewRun)
                        /\ Becomes(t, [o EXCEPT !.pc = "bind", !.rid = r, !.run = NewRun])
  BY <1>1 DEF CreateRun
<1>3. NewRun \in RunRecord /\ NewRun.status = "pending"
  BY BoundsAssumption DEF NewRun, RunRecord, Statuses, NoTime, Times
<1>4. StoresFine /\ Stored(r)'
  BY <1>2, <1>3, RunSaved DEF CreateRun, IInv, TypeOK
<1>5. PICK k \in TaskRecord : k = [o EXCEPT !.pc = "bind", !.rid = r, !.run = NewRun]
  BY <1>3 DEF TaskRecord, Locations
<1>6. SoundCopy(k)
  BY <1>3, <1>5 DEF SoundCopy, Holding, Driving, TaskRecord
<1>7. Backed(o)'
  BY <1>1, <1>4, StillBacked
<1> QED
  BY <1>1, <1>2, <1>4, <1>5, <1>6, <1>7, Proceeds, ZenonT(60)
     DEF CreateRun, At, Particular, TaskRecord, Backed

\* bind_run preserves the invariant: the run it binds is in the store.
LEMMA BindRunStep == ASSUME IInv, NEW t \in Tasks, BindRun(t) PROVE IInv'
<1>1. PICK o \in TaskRecord : o = task[t] /\ Sound(o) /\ Backed(o)
  BY TaskFacts
<1>2. o.pc = "bind" /\ o.rid \in Runs /\ o.run.status = "pending"
  BY <1>1 DEF BindRun, At, Sound, SoundCopy, Holding
<1>3. PICK s \in SessionRecord : s = [o.sess EXCEPT !.active = o.rid, !.status = "active"]
  BY <1>2 DEF SessionRecord, TaskRecord
<1>4. session' = s /\ Becomes(t, [o EXCEPT !.pc = "transition_start", !.sess = s])
  BY <1>1, <1>3 DEF BindRun
<1>5. s.active = o.rid /\ Stored(o.rid)
  BY <1>1, <1>2, <1>3, NoneAssumption DEF TaskRecord, SessionRecord, Backed
<1>6. StoresFine
  BY <1>4, <1>5, SessionSaved DEF BindRun
<1>7. PICK k \in TaskRecord : k = [o EXCEPT !.pc = "transition_start", !.sess = s]
  BY DEF TaskRecord, Locations
<1>8. SoundCopy(k)
  BY <1>2, <1>7 DEF SoundCopy, Holding, Driving, TaskRecord
<1>9. Stored(o.rid)'
  BY <1>2, <1>5, <1>6 DEF StoresFine, StoresGrow
<1> QED
  BY <1>1, <1>2, <1>4, <1>5, <1>6, <1>7, <1>8, <1>9, Proceeds
     DEF BindRun, Particular, TaskRecord

\* A task transitions its run to RUNNING and goes on with it.
LEMMA ToRunning ==
    ASSUME IInv, NEW t \in Tasks, NEW l \in {"invoke", "mark_active", "resume_session"},
           task[t].pc \in Holding, Transition(t, "running", l),
           UNCHANGED <<session, thread, lock, claimed, env>>
    PROVE  IInv'
<1>1. PICK o \in TaskRecord : o = task[t] /\ Sound(o) /\ Backed(o)
  BY TaskFacts
<1>2. o.rid \in Runs
  BY <1>1 DEF Sound, SoundCopy
<1>3. PICK rec \in RunRecord : rec = [o.run EXCEPT !.status = "running"]
  BY DEF TaskRecord, RunRecord, Statuses
<1>4. rec.status = "running"
  BY <1>3 DEF TaskRecord, RunRecord
<1>5. /\ SavesRun(o.rid, rec)
      /\ Becomes(t, [o EXCEPT !.pc = l, !.run = rec])
  BY <1>1, <1>3 DEF Transition
<1>7. StoresFine /\ Stored(o.rid)'
  BY <1>2, <1>4, <1>5, RunSaved
<1>8. PICK k \in TaskRecord : k = [o EXCEPT !.pc = l, !.run = rec]
  BY DEF TaskRecord, Locations
<1>9. SoundCopy(k)
  BY <1>2, <1>4, <1>8 DEF SoundCopy, Holding, Driving, TaskRecord
<1>10. Backed(o)'
  BY <1>1, <1>7, StillBacked
<1>11. /\ k.kind = o.kind /\ k.batch = o.batch /\ k.pc = l
       /\ k.rid = o.rid /\ k.sess = o.sess
  BY <1>8 DEF TaskRecord
<1>12. o.pc \notin {"idle", "cancel_save"} /\ k.pc \notin Particular
  BY <1>1, <1>11 DEF Particular, Holding
<1> QED
  BY <1>1, <1>5, <1>7, <1>8, <1>9, <1>10, <1>11, <1>12, Proceeds DEF Backed

\* The four transitions to RUNNING (start, resume, recover, revive) preserve the
\* invariant.
LEMMA ToRunningSteps ==
    ASSUME IInv, NEW t \in Tasks,
           TransitionStart(t) \/ TransitionResume(t) \/ TransitionRecover(t) \/ Revive(t)
    PROVE  IInv'
BY ToRunning DEF TransitionStart, TransitionResume, TransitionRecover, Revive, At, Holding

-----------------------------------------------------------------------------
(* executor.resume *)

\* Resumes happen where a task holds no run yet.
LEMMA ResumeRaisesStep ==
    ASSUME IInv, NEW t \in Tasks, ResumeRaises(t), StoresFine,
           task[t].pc \in {"resume_session", "resume_run"}
    PROVE  IInv'
<1>1. PICK o \in TaskRecord : o = task[t] /\ Sound(o) /\ Backed(o) /\ Housed(t, o)
  BY TaskFacts
<1>2. CASE o.kind = "revived"
  <2>1. Becomes(t, Begun("first", "resolve", NoBatch)) /\ UNCHANGED lock
    BY <1>1, <1>2 DEF ResumeRaises
  <2>2. /\ SoundKind(Begun("first", "resolve", NoBatch))
        /\ SoundBatch(Begun("first", "resolve", NoBatch))
        /\ Housed(t, Begun("first", "resolve", NoBatch))
        /\ LockFollows(t, Begun("first", "resolve", NoBatch))
    BY <1>1, <1>2, <2>1 DEF Begun, SoundKind, SoundBatch, Empty, NoBatch, Housed, WorkerOps,
                            LockFollows, InboundKinds
  <2>3. \A r \in Runs : NoBatch[r] = Absent
    BY DEF NoBatch
  <2> QED
    BY <2>1, <2>2, <2>3, NoBatchType, BegunStep DEF Beginnings, Kinds
<1>3. CASE o.kind # "revived"
  BY <1>1, <1>3, EndsStep DEF ResumeRaises
<1> QED BY <1>2, <1>3

\* resume's read of the session preserves the invariant.
LEMMA ResumeSessionStep == ASSUME IInv, NEW t \in Tasks, ResumeSession(t) PROVE IInv'
<1>1. StoresFine
  BY NothingSaved DEF ResumeSession
<1>2. CASE session.active = NoRun
  BY <1>1, <1>2, ResumeRaisesStep DEF ResumeSession, At
<1>3. CASE session.active # NoRun
  <2>1. PICK o \in TaskRecord : o = task[t] /\ Sound(o) /\ Backed(o)
    BY TaskFacts
  <2>2. PICK s \in SessionRecord : s = session /\ s.active \in Runs /\ Stored(s.active)
    BY <1>3 DEF IInv, TypeOK, SessionBound, SessionRecord, Stored
  <2>3. /\ Becomes(t, [o EXCEPT !.pc = "resume_run", !.sess = s, !.rid = s.active])
        /\ UNCHANGED lock
        /\ o.pc = "resume_session"
    BY <1>3, <2>1, <2>2 DEF ResumeSession, At
  <2>4. PICK k \in TaskRecord : k = [o EXCEPT !.pc = "resume_run", !.sess = s, !.rid = s.active]
    BY <2>2 DEF TaskRecord, Locations
  <2>5. /\ k.kind = o.kind /\ k.batch = o.batch /\ k.pc = "resume_run"
        /\ k.rid = s.active /\ k.sess = s
    BY <2>4 DEF TaskRecord
  <2>6. SoundCopy(k)
    BY <2>2, <2>5 DEF SoundCopy, Holding, Driving
  <2>7. Stored(s.active)'
    BY <1>1, <2>2 DEF StoresFine, StoresGrow
  <2> QED
    BY <1>1, <2>1, <2>3, <2>4, <2>5, <2>6, <2>7, Proceeds DEF Particular
<1> QED BY <1>2, <1>3

\* resume's read of the run, and its refusal of a terminal one, preserve the
\* invariant.
LEMMA ResumeRunStep == ASSUME IInv, NEW t \in Tasks, ResumeRun(t) PROVE IInv'
<1>1. StoresFine
  BY NothingSaved DEF ResumeRun
<1>2. PICK o \in TaskRecord : o = task[t] /\ Sound(o) /\ Backed(o)
  BY TaskFacts
<1>3. o.pc = "resume_run" /\ o.rid \in Runs
  BY <1>2 DEF ResumeRun, At, Sound, SoundCopy
<1>4. PICK rec \in RunRecord : rec = runs[o.rid]
  BY <1>3 DEF IInv, TypeOK
<1>5. CASE rec.status \in Terminal
  BY <1>1, <1>2, <1>3, <1>4, <1>5, ResumeRaisesStep DEF ResumeRun
<1>6. CASE rec.status \notin Terminal
  <2>1. /\ Becomes(t, [o EXCEPT !.pc = "transition_resume", !.run = rec])
        /\ UNCHANGED lock
    BY <1>2, <1>4, <1>6 DEF ResumeRun
  <2>2. PICK k \in TaskRecord : k = [o EXCEPT !.pc = "transition_resume", !.run = rec]
    BY DEF TaskRecord, Locations
  <2>3. /\ k.kind = o.kind /\ k.batch = o.batch /\ k.pc = "transition_resume"
        /\ k.rid = o.rid /\ k.sess = o.sess /\ k.run = rec
    BY <2>2 DEF TaskRecord
  <2>4. rec.status \in Statuses \ Terminal
    <3>1. Stored(o.rid)
      BY <1>2, <1>3, NoneAssumption DEF Backed
    <3> QED
      BY <1>4, <1>6, <3>1 DEF Stored, RunRecord
  <2>5. SoundCopy(k)
    BY <1>3, <2>3, <2>4 DEF SoundCopy, Holding, Driving
  <2>6. Backed(o)'
    BY <1>1, <1>2, StillBacked
  <2> QED
    BY <1>1, <1>2, <1>3, <2>1, <2>2, <2>3, <2>5, <2>6, Proceeds DEF Particular, Backed
<1> QED BY <1>5, <1>6

\* mark_active preserves the invariant.
LEMMA MarkActiveStep == ASSUME IInv, NEW t \in Tasks, MarkActive(t) PROVE IInv'
<1>1. PICK o \in TaskRecord : o = task[t] /\ Sound(o) /\ Backed(o)
  BY TaskFacts
<1>2. o.pc = "mark_active" /\ o.rid \in Runs /\ o.run.status = "running"
  BY <1>1 DEF MarkActive, At, Sound, SoundCopy, Holding, Driving
<1>3. PICK s \in SessionRecord :
          s = [o.sess EXCEPT !.status = "active"] /\ s.active = o.sess.active
  <2>1. PICK s \in SessionRecord : s = o.sess
    BY DEF TaskRecord
  <2>2. /\ [s EXCEPT !.status = "active"] \in SessionRecord
        /\ [s EXCEPT !.status = "active"].active = s.active
    BY DEF SessionRecord
  <2> QED
    BY <2>1, <2>2
<1>4. session' = s /\ UNCHANGED lock /\ Becomes(t, [o EXCEPT !.pc = "invoke", !.sess = s])
  BY <1>1, <1>3 DEF MarkActive
<1>5. StoresFine
  BY <1>1, <1>3, <1>4, SessionSaved DEF MarkActive, Backed
<1>6. PICK k \in TaskRecord : k = [o EXCEPT !.pc = "invoke", !.sess = s]
  BY DEF TaskRecord, Locations
<1>7. /\ k.kind = o.kind /\ k.batch = o.batch /\ k.pc = "invoke"
      /\ k.rid = o.rid /\ k.sess = s /\ k.run = o.run
  BY <1>6 DEF TaskRecord
<1>8. SoundCopy(k)
  BY <1>2, <1>7 DEF SoundCopy, Holding, Driving
<1>9. Backed(o)'
  BY <1>1, <1>5, StillBacked
<1> QED
  BY <1>1, <1>2, <1>3, <1>4, <1>5, <1>6, <1>7, <1>8, <1>9, Proceeds, ZenonT(60) DEF Particular, Backed

-----------------------------------------------------------------------------
(* executor._drive *)

\* An invocation moves one thread, and never reopens a finished one.
LEMMA Invoked ==
    ASSUME IInv, NEW r \in Runs, NEW c \in ThreadStates,
           thread[r] = "end" => c = "end",
           thread' = [thread EXCEPT ![r] = c],
           \/ UNCHANGED runs
           \/ \E rec \in RunRecord : /\ rec.status \notin {"absent", "completed"}
                                     /\ SavesRun(r, rec),
           UNCHANGED <<session, claimed, env>>
    PROVE  StoresFine
<1>1. /\ thread' \in [Runs -> ThreadStates]
      /\ \A q \in Runs : thread[q] = "end" => thread'[q] = "end"
  BY DEF IInv, TypeOK
<1>2. /\ runs' \in [Runs -> RunRecord]
      /\ \A q \in Runs : /\ Stored(q) => Stored(q)'
                         /\ runs'[q].status = "completed" => runs[q].status = "completed"
  BY DEF IInv, TypeOK, SavesRun, Stored
<1>3. StoresGrow /\ CompletedAtEnd'
  BY <1>1, <1>2 DEF StoresGrow, IInv, CompletedAtEnd
<1>4. SessionBound'
  BY <1>3 DEF IInv, TypeOK, SessionRecord, SessionBound, StoresGrow, Stored
<1> QED
  BY <1>1, <1>2, <1>3, <1>4 DEF IInv, TypeOK, StoresFine, env

\* A graph invocation that returns preserves the invariant.
LEMMA InvokeReturnsStep == ASSUME IInv, NEW t \in Tasks, InvokeReturns(t) PROVE IInv'
<1>1. PICK o \in TaskRecord : o = task[t] /\ Sound(o) /\ Backed(o)
  BY TaskFacts
<1>2. o.pc = "invoke" /\ o.rid \in Runs /\ o.run.status = "running"
  BY <1>1 DEF InvokeReturns, At, Sound, SoundCopy, Holding, Driving
<1>3. PICK c \in Returned(thread[o.rid]) : thread' = [thread EXCEPT ![o.rid] = c]
  BY <1>1 DEF InvokeReturns
<1>4. c \in ThreadStates /\ (thread[o.rid] = "end" => c = "end")
  BY DEF Returned, ThreadStates
<1>5. StoresFine
  BY <1>2, <1>3, <1>4, Invoked DEF InvokeReturns
<1>6. PICK k \in TaskRecord : k = [o EXCEPT !.pc = "finalize"] /\ Becomes(t, k)
  BY <1>1 DEF TaskRecord, Locations, InvokeReturns, GoesTo
<1>7. /\ k.kind = o.kind /\ k.batch = o.batch /\ k.pc = "finalize"
      /\ k.rid = o.rid /\ k.sess = o.sess /\ k.run = o.run
  BY <1>6 DEF TaskRecord
<1>8. SoundCopy(k)
  BY <1>2, <1>7 DEF SoundCopy, Holding, Driving
<1>9. Backed(o)'
  BY <1>1, <1>5, StillBacked
<1> QED
  BY <1>1, <1>2, <1>5, <1>6, <1>7, <1>8, <1>9, Proceeds
     DEF InvokeReturns, Particular, Backed

\* A graph invocation that raises preserves the invariant, retried or not: the
\* retry loop stays within its attempts.
LEMMA InvokeRaisesStep == ASSUME IInv, NEW t \in Tasks, InvokeRaises(t) PROVE IInv'
<1>1. PICK o \in TaskRecord : o = task[t] /\ Sound(o) /\ Backed(o)
  BY TaskFacts
<1>2. o.pc = "invoke" /\ o.rid \in Runs /\ o.run.status = "running" /\ o.run \in RunRecord
  BY <1>1 DEF InvokeRaises, At, Sound, SoundCopy, Holding, Driving, TaskRecord
<1>3. PICK c \in Broken(thread[o.rid]) : thread' = [thread EXCEPT ![o.rid] = c]
  BY <1>1 DEF InvokeRaises
<1>4. c \in ThreadStates /\ (thread[o.rid] = "end" => c = "end")
  BY <1>2 DEF Broken, ThreadStates, IInv, TypeOK
<1>5. StoresFine
  BY <1>1, <1>2, <1>3, <1>4, Invoked DEF InvokeRaises
<1>6. Backed(o)' /\ UNCHANGED lock
  BY <1>1, <1>5, StillBacked DEF InvokeRaises
<1>7. CASE o.tries + 1 < MaxAttempts
  <2>1. Becomes(t, [o EXCEPT !.tries = o.tries + 1])
    BY <1>1, <1>7 DEF InvokeRaises
  <2>2. o.tries + 1 \in 0 .. MaxAttempts - 1
    BY <1>7, BoundsAssumption DEF TaskRecord
  <2>3. PICK k \in TaskRecord : k = [o EXCEPT !.tries = o.tries + 1]
    BY <2>2 DEF TaskRecord
  <2>4. /\ k.kind = o.kind /\ k.batch = o.batch /\ k.rid = o.rid
        /\ k.sess = o.sess /\ k.run = o.run /\ k.pc = "invoke"
    BY <1>2, <2>3 DEF TaskRecord
  <2>5. SoundCopy(k)
    BY <1>2, <2>4 DEF SoundCopy, Holding, Driving
  <2> QED
    BY <1>1, <1>2, <1>5, <1>6, <2>1, <2>3, <2>4, <2>5, Proceeds DEF Particular, Backed
<1>8. CASE ~(o.tries + 1 < MaxAttempts)
  <2>1. PICK g \in {"failed", "timed_out"} :
            Becomes(t, [o EXCEPT !.pc = "fail_save", !.goal = g])
    BY <1>1, <1>8 DEF InvokeRaises
  <2>2. PICK k \in TaskRecord : k = [o EXCEPT !.pc = "fail_save", !.goal = g]
    BY ZenonT(60) DEF TaskRecord, Locations, Statuses
  <2>3. /\ k.kind = o.kind /\ k.batch = o.batch /\ k.rid = o.rid
        /\ k.sess = o.sess /\ k.run = o.run /\ k.pc = "fail_save" /\ k.goal = g
    BY <2>2 DEF TaskRecord
  <2>4. SoundCopy(k)
    BY <1>2, <2>3 DEF SoundCopy, Holding, Driving
  <2> QED
    BY <1>1, <1>2, <1>5, <1>6, <2>1, <2>2, <2>3, <2>4, Proceeds DEF Particular, Backed
<1> QED BY <1>7, <1>8

-----------------------------------------------------------------------------
(* executor._finalize *)

\* _finalize's save preserves the invariant: COMPLETED is its goal only when the
\* thread is at its end.
LEMMA FinalizeStep == ASSUME IInv, NEW t \in Tasks, Finalize(t) PROVE IInv'
<1>1. PICK o \in TaskRecord : o = task[t] /\ Sound(o) /\ Backed(o)
  BY TaskFacts
<1>2. o.pc = "finalize" /\ o.rid \in Runs /\ o.run.status = "running" /\ o.run \in RunRecord
  BY <1>1 DEF Finalize, At, Sound, SoundCopy, Holding, Driving, TaskRecord
<1>3. PICK g \in {"completed", "waiting_for_input", "suspended"} :
          /\ g = Settled(thread[o.rid])
          /\ g = "completed" => thread[o.rid] = "end"
  BY DEF Settled
<1>4. PICK rec \in RunRecord :
          /\ rec = [o.run EXCEPT !.prompt = (g = "waiting_for_input")]
          /\ rec.status = "running"
  <2>1. (g = "waiting_for_input") \in BOOLEAN
    OBVIOUS
  <2> QED
    BY <1>2, <2>1, PromptChanged
<1>5. /\ SavesRun(o.rid, rec) /\ UNCHANGED lock
      /\ Becomes(t, [o EXCEPT !.pc = "transition_final", !.run = rec, !.goal = g])
  BY <1>1, <1>3, <1>4 DEF Finalize
<1>6. StoresFine
  BY <1>2, <1>4, <1>5, RunSaved DEF Finalize, IInv, TypeOK
<1>7. PICK k \in TaskRecord : k = [o EXCEPT !.pc = "transition_final", !.run = rec, !.goal = g]
  BY ZenonT(60) DEF TaskRecord, Locations, Statuses
<1>8. /\ k.kind = o.kind /\ k.batch = o.batch /\ k.pc = "transition_final"
      /\ k.rid = o.rid /\ k.sess = o.sess /\ k.run = rec /\ k.goal = g
  BY <1>7 DEF TaskRecord
<1>9. SoundCopy(k)
  BY <1>2, <1>4, <1>8 DEF SoundCopy, Holding, Driving
<1>10. Backed(o)' /\ (g = "completed" => thread'[o.rid] = "end")
  BY <1>1, <1>2, <1>3, <1>6, StillBacked DEF StoresFine, StoresGrow
<1> QED
  BY <1>1, <1>2, <1>5, <1>6, <1>7, <1>8, <1>9, <1>10, Proceeds, ZenonT(60) DEF Particular, Backed

\* _finalize's transition preserves the invariant.
LEMMA TransitionFinalStep == ASSUME IInv, NEW t \in Tasks, TransitionFinal(t) PROVE IInv'
<1>1. PICK o \in TaskRecord : o = task[t] /\ Sound(o) /\ Backed(o)
  BY TaskFacts
<1>2. /\ o.pc = "transition_final" /\ o.rid \in Runs /\ o.run \in RunRecord
      /\ o.goal \in {"completed", "waiting_for_input", "suspended"}
      /\ o.goal = "completed" => thread[o.rid] = "end"
  BY <1>1 DEF TransitionFinal, At, Sound, SoundCopy, Holding, TaskRecord, Backed
<1>3. PICK rec \in RunRecord : rec = [o.run EXCEPT !.status = o.goal] /\ rec.status = o.goal
  <2>1. o.goal \in Statuses
    BY <1>2 DEF Statuses
  <2> QED
    BY <1>2, <2>1, StatusChanged
<1>4. SavesRun(o.rid, rec)
  BY <1>1, <1>3 DEF TransitionFinal
<1>5. StoresFine
  BY <1>2, <1>3, <1>4, RunSaved DEF TransitionFinal
<1>6. CASE o.goal = "suspended"
  BY <1>1, <1>2, <1>5, <1>6, EndsStep DEF TransitionFinal
<1>7. CASE o.goal # "suspended"
  <2>1. PICK l \in {"complete_session", "mark_waiting"} :
            /\ l = IF o.goal = "completed" THEN "complete_session" ELSE "mark_waiting"
            /\ Becomes(t, [o EXCEPT !.run = rec, !.pc = l])
            /\ UNCHANGED lock
    BY <1>1, <1>3, <1>7 DEF TransitionFinal
  <2>2. PICK k \in TaskRecord : k = [o EXCEPT !.run = rec, !.pc = l]
    BY DEF TaskRecord, Locations
  <2>3. /\ k.kind = o.kind /\ k.batch = o.batch /\ k.pc = l
        /\ k.rid = o.rid /\ k.sess = o.sess /\ k.run = rec
    BY <2>2 DEF TaskRecord
  <2>4. SoundCopy(k)
    BY <1>2, <1>3, <1>7, <2>1, <2>3 DEF SoundCopy, Holding, Driving
  <2>5. Backed(o)'
    BY <1>1, <1>5, StillBacked
  <2> QED
    BY <1>1, <1>2, <1>5, <2>1, <2>2, <2>3, <2>4, <2>5, Proceeds DEF Particular, Backed
<1> QED BY <1>6, <1>7

\* SessionManager.complete preserves the invariant.
LEMMA CompleteSessionStep == ASSUME IInv, NEW t \in Tasks, CompleteSession(t) PROVE IInv'
<1>1. PICK o \in TaskRecord : o = task[t] /\ Sound(o) /\ Backed(o)
  BY TaskFacts
<1>2. PICK s \in SessionRecord : s = o.sess
  BY DEF TaskRecord
<1>3. /\ [s EXCEPT !.status = "completed", !.expires = NoTime] \in SessionRecord
      /\ [s EXCEPT !.status = "completed", !.expires = NoTime].active = s.active
  <2>1. NoTime \in Times
    BY BoundsAssumption DEF NoTime, Times
  <2> QED
    BY <2>1, SessionChanged
<1>4. StoresFine
  BY <1>1, <1>2, <1>3, SessionSaved DEF CompleteSession, Backed
<1> QED
  BY <1>4, EndsStep DEF CompleteSession, At

\* mark_waiting preserves the invariant.
LEMMA MarkWaitingStep == ASSUME IInv, NEW t \in Tasks, MarkWaiting(t) PROVE IInv'
<1>1. PICK o \in TaskRecord : o = task[t] /\ Sound(o) /\ Backed(o)
  BY TaskFacts
<1>2. o.pc = "mark_waiting" /\ o.rid \in Runs /\ o.run.status = "waiting_for_input"
  BY <1>1 DEF MarkWaiting, At, Sound, SoundCopy, Holding
<1>3. PICK s \in SessionRecord :
          /\ s = [o.sess EXCEPT !.status = "waiting", !.expires = Expiry]
          /\ s.active = o.sess.active
  <2>1. PICK s \in SessionRecord : s = o.sess
    BY DEF TaskRecord
  <2>2. Expiry \in Times
    BY BoundsAssumption DEF Expiry, Times, IInv, TypeOK
  <2>3. /\ [s EXCEPT !.status = "waiting", !.expires = Expiry] \in SessionRecord
        /\ [s EXCEPT !.status = "waiting", !.expires = Expiry].active = s.active
    BY <2>2, SessionChanged
  <2> QED
    BY <2>1, <2>3
<1>4. session' = s /\ UNCHANGED lock /\ Becomes(t, [o EXCEPT !.pc = "save_expiry", !.sess = s])
  BY <1>1, <1>3 DEF MarkWaiting
<1>5. StoresFine
  BY <1>1, <1>3, <1>4, SessionSaved DEF MarkWaiting, Backed
<1>6. PICK k \in TaskRecord : k = [o EXCEPT !.pc = "save_expiry", !.sess = s]
  BY DEF TaskRecord, Locations
<1>7. /\ k.kind = o.kind /\ k.batch = o.batch /\ k.pc = "save_expiry"
      /\ k.rid = o.rid /\ k.sess = s /\ k.run = o.run
  BY <1>6 DEF TaskRecord
<1>8. SoundCopy(k)
  BY <1>2, <1>7 DEF SoundCopy, Holding, Driving
<1>9. Backed(o)'
  BY <1>1, <1>5, StillBacked
<1> QED
  BY <1>1, <1>2, <1>3, <1>4, <1>5, <1>6, <1>7, <1>8, <1>9, Proceeds, ZenonT(60) DEF Particular, Backed

\* The save of the run's expiry, and a document's replay after it, preserve the
\* invariant.
LEMMA SaveExpiryStep == ASSUME IInv, NEW t \in Tasks, SaveExpiry(t) PROVE IInv'
<1>1. PICK o \in TaskRecord : o = task[t] /\ Sound(o) /\ Backed(o) /\ Housed(t, o)
  BY TaskFacts
<1>2. /\ o.pc = "save_expiry" /\ o.rid \in Runs /\ o.run.status = "waiting_for_input"
      /\ o.run \in RunRecord /\ o.sess.expires \in Times
  BY <1>1 DEF SaveExpiry, At, Sound, SoundCopy, Holding, TaskRecord, SessionRecord
<1>3. PICK rec \in RunRecord : /\ rec = [o.run EXCEPT !.expires = o.sess.expires]
                               /\ rec.status = "waiting_for_input"
  BY <1>2, ExpiryChanged, ZenonT(60)
<1>4. SavesRun(o.rid, rec)
  BY <1>1, <1>3 DEF SaveExpiry
<1>5. StoresFine
  BY <1>2, <1>3, <1>4, RunSaved DEF SaveExpiry, IInv, TypeOK
<1>6. CASE Ends(t)
  BY <1>1, <1>2, <1>5, <1>6, EndsStep
<1>7. CASE /\ o.kind = "first"
           /\ Becomes(t, Begun("replay", "resume_session", NoBatch))
           /\ UNCHANGED lock
  <2>1. /\ SoundKind(Begun("replay", "resume_session", NoBatch))
        /\ SoundBatch(Begun("replay", "resume_session", NoBatch))
        /\ Housed(t, Begun("replay", "resume_session", NoBatch))
        /\ LockFollows(t, Begun("replay", "resume_session", NoBatch))
    BY <1>1, <1>7 DEF Begun, SoundKind, SoundBatch, Empty, NoBatch, Housed, WorkerOps,
                      LockFollows, InboundKinds
  <2>2. \A r \in Runs : NoBatch[r] = Absent
    BY DEF NoBatch
  <2> QED
    BY <1>5, <1>7, <2>1, <2>2, NoBatchType, BegunStep DEF Beginnings, Kinds
<1> QED BY <1>1, <1>6, <1>7 DEF SaveExpiry

-----------------------------------------------------------------------------
(* executor._handle_failure *)

\* _handle_failure's save preserves the invariant.
LEMMA FailSaveStep == ASSUME IInv, NEW t \in Tasks, FailSave(t) PROVE IInv'
<1>1. PICK o \in TaskRecord : o = task[t] /\ Sound(o) /\ Backed(o)
  BY TaskFacts
<1>2. /\ o.pc = "fail_save" /\ o.rid \in Runs /\ o.run.status = "running"
      /\ o.run \in RunRecord /\ o.goal \in {"failed", "timed_out"}
  BY <1>1 DEF FailSave, At, Sound, SoundCopy, Holding, Driving, TaskRecord
<1>3. SavesRun(o.rid, o.run) /\ UNCHANGED lock
  BY <1>1 DEF FailSave
<1>4. StoresFine
  BY <1>2, <1>3, RunSaved DEF FailSave, IInv, TypeOK
<1>5. PICK k \in TaskRecord : k = [o EXCEPT !.pc = "transition_fail"] /\ Becomes(t, k)
  BY <1>1 DEF TaskRecord, Locations, FailSave, GoesTo
<1>6. /\ k.kind = o.kind /\ k.batch = o.batch /\ k.pc = "transition_fail"
      /\ k.rid = o.rid /\ k.sess = o.sess /\ k.run = o.run /\ k.goal = o.goal
  BY <1>5 DEF TaskRecord
<1>7. SoundCopy(k)
  BY <1>2, <1>6 DEF SoundCopy, Holding, Driving
<1>8. Backed(o)'
  BY <1>1, <1>4, StillBacked
<1> QED
  BY <1>1, <1>2, <1>3, <1>4, <1>5, <1>6, <1>7, <1>8, Proceeds, ZenonT(60) DEF Particular, Backed

\* _handle_failure's transition preserves the invariant.
LEMMA TransitionFailStep == ASSUME IInv, NEW t \in Tasks, TransitionFail(t) PROVE IInv'
<1>1. PICK o \in TaskRecord : o = task[t] /\ Sound(o) /\ Backed(o)
  BY TaskFacts
<1>2. /\ o.pc = "transition_fail" /\ o.rid \in Runs
      /\ o.run \in RunRecord /\ o.goal \in {"failed", "timed_out"}
  BY <1>1 DEF TransitionFail, At, Sound, SoundCopy, Holding, TaskRecord
<1>3. PICK rec \in RunRecord : rec = [o.run EXCEPT !.status = o.goal] /\ rec.status = o.goal
  <2>1. o.goal \in Statuses
    BY <1>2 DEF Statuses
  <2> QED
    BY <1>2, <2>1, StatusChanged
<1>4. SavesRun(o.rid, rec) /\ Ends(t)
  BY <1>1, <1>3 DEF TransitionFail
<1>6. StoresFine
  BY <1>2, <1>3, <1>4, RunSaved DEF TransitionFail
<1> QED
  BY <1>1, <1>2, <1>4, <1>6, EndsStep

-----------------------------------------------------------------------------
(* Requests of the web process *)

\* A request costs an arrival and maybe the claim; the stores stay as they are.
LEMMA RequestFine ==
    ASSUME IInv, arrivals < MaxArrivals, arrivals' = arrivals + 1,
           claimed' \in 0 .. MaxNow + ClaimTtl,
           UNCHANGED <<runs, session, thread, now, crashes>>
    PROVE  StoresFine
BY BoundsAssumption
   DEF IInv, TypeOK, StoresFine, StoresGrow, SessionBound, CompletedAtEnd, Stored

\* Web work begins with nothing listed.
LEMMA BeginsEmpty ==
    ASSUME IInv, NEW t \in Web, NEW kd \in Kinds \ WorkerOps,
           NEW l \in {"resolve", "resume_session", "cancel_list"},
           l = "cancel_list" => kd = "campaign",
           Becomes(t, Begun(kd, l, NoBatch)), StoresFine,
           LockFollows(t, Begun(kd, l, NoBatch))
    PROVE  IInv'
<1>1. SoundKind(Begun(kd, l, NoBatch)) /\ SoundBatch(Begun(kd, l, NoBatch))
  BY DEF Begun, SoundKind, SoundBatch, Empty, NoBatch, Kinds, WebOps, WorkerOps
<1>2. Housed(t, Begun(kd, l, NoBatch))
  BY TasksAssumption DEF Begun, Housed
<1>3. \A r \in Runs : NoBatch[r] = Absent
  BY DEF NoBatch
<1> QED
  BY <1>1, <1>2, <1>3, NoBatchType, BegunStep DEF Beginnings, Tasks

\* An inbound that takes the per-identity lock preserves the invariant.
LEMMA InboundStep == ASSUME IInv, NEW t \in Web, Inbound(t) PROVE IInv'
<1>1. StoresFine
  BY RequestFine DEF Inbound, Arrives, IInv, TypeOK
<1>2. lock' = t /\ lock = NoTask
  BY DEF Inbound, LockFree
<1>3. CASE session.active = NoRun
  <2>1. Becomes(t, Begun("first", "resolve", NoBatch))
    BY <1>3 DEF Inbound
  <2>2. LockFollows(t, Begun("first", "resolve", NoBatch))
    BY <1>2 DEF LockFollows, Begun, InboundKinds
  <2> QED
    BY <1>1, <2>1, <2>2, BeginsEmpty DEF Kinds, WorkerOps
<1>4. CASE session.active # NoRun
  <2>1. PICK r \in Runs : r = session.active /\ Stored(r)
    BY <1>4 DEF IInv, TypeOK, SessionBound, SessionRecord, Stored
  <2>2. PICK b \in TaskRecord : b = Begun("inbound", "inbound_run", NoBatch)
    BY BegunType, NoBatchType DEF Kinds, WebOps, Locations
  <2>3. b.kind = "inbound" /\ b.pc = "inbound_run" /\ b.batch = NoBatch /\ b.sess = NoSession
    BY <2>2 DEF Begun
  <2>4. PICK k \in TaskRecord : k = [b EXCEPT !.rid = r]
    BY DEF TaskRecord
  <2>5. /\ k.kind = "inbound" /\ k.pc = "inbound_run" /\ k.batch = NoBatch
        /\ k.sess = NoSession /\ k.rid = r
    BY <2>3, <2>4 DEF TaskRecord
  <2>6. Becomes(t, k)
    BY <1>4, <2>1, <2>2, <2>4 DEF Inbound
  <2>7. Sound(k)
    BY <2>5 DEF Sound, SoundCopy, SoundKind, SoundBatch, Empty, NoBatch, Holding, Driving
  <2>8. Backed(k)'
    <3>1. Stored(r)'
      BY <1>1, <2>1 DEF StoresFine, StoresGrow
    <3> QED
      BY <2>5, <3>1 DEF Backed, NoBatch, NoSession
  <2>9. Housed(t, k) /\ LockFollows(t, k)
    BY <1>2, <2>5, TasksAssumption DEF Housed, WorkerOps, LockFollows, InboundKinds
  <2> QED
    BY <1>1, <2>6, <2>7, <2>8, <2>9, TaskStep DEF Tasks
<1> QED BY <1>3, <1>4

\* The dispatcher's look at the session's run preserves the invariant: only a
\* FAILED run is both terminal and revivable.
LEMMA InboundRunStep == ASSUME IInv, NEW t \in Web, InboundRun(t) PROVE IInv'
<1>1. PICK o \in TaskRecord : o = task[t] /\ Sound(o) /\ Backed(o)
  BY TaskFacts DEF Tasks
<1>2. o.pc = "inbound_run" /\ o.kind = "inbound" /\ o.rid \in Runs
  BY <1>1 DEF InboundRun, At, Sound, SoundCopy, SoundKind
<1>3. StoresFine /\ UNCHANGED lock
  BY NothingSaved DEF InboundRun
<1>4. PICK rec \in RunRecord : rec = runs[o.rid]
  BY <1>2 DEF IInv, TypeOK
<1>5. CASE rec.status \in Statuses \ Terminal
  <2>1. Becomes(t, Begun("inbound", "resume_session", NoBatch))
    BY <1>1, <1>4, <1>5 DEF InboundRun
  <2>2. LockFollows(t, Begun("inbound", "resume_session", NoBatch))
    BY <1>1, <1>2, <1>3 DEF LockFollows, Begun, InboundKinds
  <2> QED
    BY <1>3, <2>1, <2>2, BeginsEmpty DEF Kinds, WebOps, WorkerOps
<1>6. CASE rec.status \in Terminal \cap Revivable
  <2>1. Becomes(t, [o EXCEPT !.kind = "revived", !.pc = "revive", !.run = rec])
    BY <1>1, <1>4, <1>6 DEF InboundRun
  <2>2. PICK k \in TaskRecord : k = [o EXCEPT !.kind = "revived", !.pc = "revive", !.run = rec]
    BY DEF TaskRecord, Locations, Kinds
  <2>3. /\ k.kind = "revived" /\ k.batch = o.batch /\ k.pc = "revive"
        /\ k.rid = o.rid /\ k.sess = o.sess /\ k.run = rec
    BY <2>2 DEF TaskRecord
  <2>4. rec.status = "failed"
    BY <1>6 DEF Terminal, Revivable
  <2>5. Sound(k)
    BY <1>1, <1>2, <2>3, <2>4 DEF Sound, SoundCopy, SoundKind, SoundBatch, Empty,
                                  Holding, Driving
  <2>6. Backed(k)'
    BY <1>1, <1>3, <2>3, StillBacked DEF Backed
  <2>7. Housed(t, k) /\ LockFollows(t, k)
    BY <1>1, <1>2, <1>3, <2>3, TasksAssumption DEF Housed, WorkerOps, LockFollows, InboundKinds
  <2> QED
    BY <1>3, <2>1, <2>2, <2>5, <2>6, <2>7, TaskStep DEF Tasks
<1>7. CASE /\ rec.status \notin Statuses \ Terminal
           /\ rec.status \notin Terminal \cap Revivable
  <2>1. Becomes(t, Begun("first", "resolve", NoBatch))
    BY <1>1, <1>4, <1>7 DEF InboundRun
  <2>2. LockFollows(t, Begun("first", "resolve", NoBatch))
    BY <1>1, <1>2, <1>3 DEF LockFollows, Begun, InboundKinds
  <2> QED
    BY <1>3, <2>1, <2>2, BeginsEmpty DEF Kinds, WorkerOps
<1> QED BY <1>5, <1>6, <1>7

\* A backend event preserves the invariant: it never touches the lock.
LEMMA BackendEventStep == ASSUME IInv, NEW t \in Web, BackendEvent(t) PROVE IInv'
<1>1. StoresFine /\ UNCHANGED lock
  BY RequestFine DEF BackendEvent, Arrives, IInv, TypeOK
<1>2. task[t].kind = "none"
  BY DEF BackendEvent, Arrives, At, IInv, Tasks, Sound, SoundKind
<1>3. LockFollows(t, Begun("event", "resume_session", NoBatch))
  BY <1>1, <1>2 DEF LockFollows, Begun, InboundKinds
<1> QED
  BY <1>1, <1>3, BeginsEmpty DEF BackendEvent, Kinds, WebOps, WorkerOps

\* A campaign request preserves the invariant, absorbed or not.
LEMMA CampaignStep == ASSUME IInv, NEW t \in Web, Campaign(t) PROVE IInv'
<1>1. StoresFine /\ UNCHANGED lock
  <2>1. claimed' \in 0 .. MaxNow + ClaimTtl
    BY BoundsAssumption DEF Campaign, Claimed, IInv, TypeOK
  <2> QED
    BY <2>1, RequestFine DEF Campaign, Arrives
<1>2. task[t].kind = "none" /\ task[t].pc = "idle"
  BY DEF Campaign, Arrives, At, IInv, Tasks, Sound, SoundKind
<1>3. CASE Claimed /\ WithStatus(Active) # {}
  <2>1. PICK o \in TaskRecord : o = task[t] /\ Sound(o) /\ Backed(o) /\ Housed(t, o)
    BY TaskFacts DEF Tasks
  <2>2. Becomes(t, o)
    BY <1>3, <2>1 DEF Campaign, Becomes, IInv, TypeOK
  <2>3. Backed(o)' /\ LockFollows(t, o)
    BY <1>1, <2>1, StillBacked DEF LockFollows
  <2> QED
    BY <1>1, <2>1, <2>2, <2>3, TaskStep DEF Tasks
<1>4. CASE ~(Claimed /\ WithStatus(Active) # {})
  <2>1. Becomes(t, Begun("campaign", "cancel_list", NoBatch))
    BY <1>4 DEF Campaign
  <2>2. LockFollows(t, Begun("campaign", "cancel_list", NoBatch))
    BY <1>1, <1>2 DEF LockFollows, Begun, InboundKinds
  <2> QED
    BY <1>1, <2>1, <2>2, BeginsEmpty DEF Kinds, WebOps, WorkerOps
<1> QED BY <1>3, <1>4

-----------------------------------------------------------------------------
(* Store queries and the runs they list *)

\* A query leaves its task with copies of stored runs, of the statuses asked for.
LEMMA ListsStep ==
    ASSUME IInv, NEW t \in Tasks, NEW kd \in Kinds, NEW l \in Beginnings,
           NEW S \in SUBSET Runs, \A r \in S : Stored(r),
           Lists(t, kd, l, S), StoresFine, UNCHANGED lock,
           task[t].kind \notin InboundKinds, kd \notin InboundKinds,
           \/ kd = "recover" /\ l = "next_recover" /\ S \subseteq WithStatus(Recoverable)
           \/ kd = "sweep" /\ l = "next_sweep" /\ S \subseteq WithStatus({"waiting_for_input"})
           \/ kd = "poll" /\ l = "next_poll" /\ S \subseteq WithStatus({"waiting_for_input"})
           \/ kd = "campaign" /\ l = "cancel_save"
           \/ kd = "campaign" /\ l = "resolve" /\ S = {},
           kd = "campaign" <=> t \in Web
    PROVE  IInv'
<1>1. PICK b \in [Runs -> RunRecord] :
          b = [r \in Runs |-> IF r \in S THEN runs[r] ELSE Absent]
  <2>1. Absent \in RunRecord /\ runs \in [Runs -> RunRecord]
    BY NoBatchType, BoundsAssumption DEF Absent, RunRecord, NoTime, Times, IInv, TypeOK
  <2> QED
    BY <2>1
<1>2. Becomes(t, Begun(kd, l, b))
  BY <1>1 DEF Lists
<1>3. \A r \in Runs : b[r] # Absent => r \in S /\ b[r] = runs[r]
  BY <1>1
<1>4. SoundKind(Begun(kd, l, b))
  BY DEF Begun, SoundKind, Kinds, WebOps, WorkerOps
<1>5. SoundBatch(Begun(kd, l, b))
  BY <1>3 DEF Begun, SoundBatch, Empty, WithStatus
<1>6. Housed(t, Begun(kd, l, b)) /\ LockFollows(t, Begun(kd, l, b))
  BY TasksAssumption DEF Begun, Housed, Tasks, WorkerOps, LockFollows
<1>7. \A r \in Runs : b[r] # Absent => Stored(r)'
  BY <1>3 DEF StoresFine, StoresGrow
<1> QED
  BY <1>2, <1>4, <1>5, <1>6, <1>7, BegunStep

\* The store queries of the three beat jobs preserve the invariant.
LEMMA BeatSteps ==
    ASSUME IInv, NEW t \in Workers, RecoverList(t) \/ SweepList(t) \/ PollList(t)
    PROVE  IInv'
<1>1. t \in Tasks /\ t \notin Web
  BY TasksAssumption DEF Tasks
<1>2. ASSUME NEW kd \in WorkerOps, NEW S \in SUBSET Runs, Beat(t, kd, S),
             kd = "recover" => S = WithStatus(Recoverable),
             kd # "recover" => S \subseteq WithStatus({"waiting_for_input"})
      PROVE  IInv'
  <2>1. StoresFine /\ UNCHANGED lock
    BY <1>2, NothingSaved DEF Beat
  <2>2. task[t].kind = "none"
    BY <1>1, <1>2 DEF Beat, At, IInv, Sound, SoundKind
  <2>3. PICK l \in Beginnings : l = NextOf[kd]
    BY DEF NextOf, WorkerOps, Beginnings
  <2>4. Lists(t, kd, l, S)
    BY <1>2, <2>3 DEF Beat
  <2>5. \A r \in S : Stored(r)
    BY <1>2 DEF WithStatus, Stored, Recoverable, WorkerOps
  <2>6. kd \in Kinds /\ kd \notin InboundKinds /\ kd # "campaign"
    BY DEF Kinds, WorkerOps, InboundKinds
  <2>7. \/ kd = "recover" /\ l = "next_recover" /\ S \subseteq WithStatus(Recoverable)
        \/ kd = "sweep" /\ l = "next_sweep" /\ S \subseteq WithStatus({"waiting_for_input"})
        \/ kd = "poll" /\ l = "next_poll" /\ S \subseteq WithStatus({"waiting_for_input"})
    BY <1>2, <2>3 DEF NextOf, WorkerOps
  <2>8. task[t].kind \notin InboundKinds
    BY <2>2 DEF InboundKinds
  <2> QED
    BY <1>1, <2>1, <2>4, <2>5, <2>6, <2>7, <2>8, ListsStep
<1>3. CASE RecoverList(t)
  BY <1>2, <1>3 DEF RecoverList, WithStatus, WorkerOps
<1>4. CASE SweepList(t)
  <2>1. {r \in Runs : Lapsed(r)} \subseteq WithStatus({"waiting_for_input"})
    BY DEF Lapsed, WithStatus
  <2> QED
    BY <1>2, <1>4, <2>1 DEF SweepList, WorkerOps
<1>5. CASE PollList(t)
  <2>1. PICK S \in SUBSET WithStatus({"waiting_for_input"}) : Beat(t, "poll", S)
    BY <1>5 DEF PollList
  <2>2. S \in SUBSET Runs
    BY DEF WithStatus
  <2> QED
    BY <1>2, <2>1, <2>2 DEF WorkerOps
<1> QED BY <1>3, <1>4, <1>5

\* The query of _cancel_active_runs_for preserves the invariant.
LEMMA CancelListStep == ASSUME IInv, NEW t \in Web, CancelList(t) PROVE IInv'
<1>1. StoresFine /\ UNCHANGED lock
  BY NothingSaved DEF CancelList
<1>2. task[t].kind \notin InboundKinds
  BY DEF CancelList, At, IInv, Tasks, Sound, SoundKind, InboundKinds
<1>3. WithStatus(Active) \in SUBSET Runs /\ \A r \in WithStatus(Active) : Stored(r)
  BY DEF WithStatus, Active, Stored
<1>4. "campaign" \in Kinds /\ "campaign" \notin InboundKinds /\ t \in Tasks
  BY DEF Kinds, WebOps, InboundKinds, Tasks
<1>5. CASE WithStatus(Active) = {}
  <2>1. Lists(t, "campaign", "resolve", WithStatus(Active))
    BY <1>5 DEF CancelList
  <2> QED
    BY <1>1, <1>2, <1>3, <1>4, <1>5, <2>1, ListsStep DEF Beginnings
<1>6. CASE WithStatus(Active) # {}
  <2>1. Lists(t, "campaign", "cancel_save", WithStatus(Active))
    BY <1>6 DEF CancelList
  <2> QED
    BY <1>1, <1>2, <1>3, <1>4, <2>1, ListsStep DEF Beginnings
<1> QED BY <1>5, <1>6

\* The direct save of a cancelled run preserves the invariant.
LEMMA CancelSaveStep == ASSUME IInv, NEW t \in Web, CancelSave(t) PROVE IInv'
<1>1. PICK o \in TaskRecord : o = task[t] /\ Sound(o) /\ Backed(o) /\ Housed(t, o)
  BY TaskFacts DEF Tasks
<1>2. o.pc = "cancel_save" /\ o.kind = "campaign"
  BY <1>1 DEF CancelSave, At, Sound, SoundKind
<1>3. PICK r \in Runs :
          /\ o.batch[r] # Absent
          /\ SavesRun(r, [o.batch[r] EXCEPT !.status = "cancelled"])
          /\ Becomes(t, [o EXCEPT !.batch[r] = Absent, !.pc =
                 IF \A q \in Runs \ {r} : o.batch[q] = Absent
                 THEN "resolve" ELSE "cancel_save"])
  BY <1>1 DEF CancelSave
<1>4. PICK rec \in RunRecord : /\ rec = [o.batch[r] EXCEPT !.status = "cancelled"]
                               /\ rec.status = "cancelled"
  <2>1. o.batch[r] \in RunRecord /\ "cancelled" \in Statuses
    BY DEF TaskRecord, Statuses
  <2> QED
    BY <2>1, StatusChanged
<1>5. StoresFine /\ UNCHANGED lock
  BY <1>3, <1>4, RunSaved DEF CancelSave, IInv, TypeOK
<1>6. PICK l \in {"resolve", "cancel_save"} :
          /\ l = IF \A q \in Runs \ {r} : o.batch[q] = Absent THEN "resolve" ELSE "cancel_save"
          /\ Becomes(t, [o EXCEPT !.batch[r] = Absent, !.pc = l])
  BY <1>3
<1>7. Absent \in RunRecord
  BY BoundsAssumption DEF Absent, RunRecord, NoTime, Times
<1>8. PICK k \in TaskRecord : k = [o EXCEPT !.batch[r] = Absent, !.pc = l]
  BY <1>7 DEF TaskRecord, Locations
<1>9. /\ k.kind = o.kind /\ k.batch = [o.batch EXCEPT ![r] = Absent] /\ k.pc = l
      /\ k.rid = o.rid /\ k.sess = o.sess
  BY <1>8 DEF TaskRecord
<1>10. \A q \in Runs : k.batch[q] # Absent => q # r /\ o.batch[q] # Absent
  BY <1>9 DEF TaskRecord
<1>11. Sound(k)
  BY <1>2, <1>6, <1>9, <1>10 DEF Sound, SoundCopy, SoundKind, SoundBatch, Empty, Holding, Driving
<1>12. Backed(k)'
  BY <1>1, <1>5, <1>9, <1>10, StillBacked DEF Backed
<1>13. Housed(t, k) /\ LockFollows(t, k)
  BY <1>1, <1>5, <1>9 DEF Housed, LockFollows
<1> QED
  BY <1>5, <1>6, <1>8, <1>11, <1>12, <1>13, TaskStep DEF Tasks

-----------------------------------------------------------------------------
(* Beat jobs *)

\* A worker that takes up a listed run is a well-typed task.
LEMMA TakesUpType ==
    ASSUME NEW t \in Tasks, NEW o \in TaskRecord, o = task[t], NEW r \in Runs
    PROVE  /\ TakesUp(t, r) \in TaskRecord
           /\ TakesUp(t, r).kind = o.kind
           /\ TakesUp(t, r).rid = r
           /\ TakesUp(t, r).run = o.batch[r]
           /\ TakesUp(t, r).sess = o.sess
           /\ TakesUp(t, r).batch = [o.batch EXCEPT ![r] = Absent]
<1>1. PICK a \in RunRecord : a = Absent
  <2>1. Absent \in RunRecord
    BY BoundsAssumption DEF Absent, RunRecord, NoTime, Times
  <2> QED
    BY <2>1
<1>2. PICK rec \in RunRecord : rec = o.batch[r]
  BY DEF TaskRecord
<1>3. TakesUp(t, r) = [o EXCEPT !.rid = r, !.run = rec, !.batch[r] = a]
  BY <1>1, <1>2 DEF TakesUp
<1>4. PICK j \in TaskRecord : j = [o EXCEPT !.rid = r, !.run = rec, !.batch[r] = a]
  BY DEF TaskRecord
<1>5. /\ j.kind = o.kind /\ j.rid = r /\ j.run = rec /\ j.sess = o.sess
      /\ j.batch = [o.batch EXCEPT ![r] = a]
  BY <1>4 DEF TaskRecord
<1> QED
  BY <1>1, <1>2, <1>3, <1>4, <1>5

\* A worker takes run r out of its batch and goes on with it as record k.
LEMMA TakesUpStep ==
    ASSUME IInv, NEW t \in Tasks, NEW r \in Runs, NEW o \in TaskRecord, o = task[t],
           o.pc \in {"next_recover", "next_sweep", "next_poll"},
           o.batch[r] # Absent,
           NEW k \in TaskRecord, Becomes(t, k), StoresFine, UNCHANGED lock,
           k.kind = o.kind, k.rid = r, k.batch = [o.batch EXCEPT ![r] = Absent],
           k.pc \notin Particular \cup {"transition_final"}, SoundCopy(k),
           k.sess.active # NoRun => Stored(k.sess.active)'
    PROVE  IInv'
<1>1. Sound(o) /\ Backed(o) /\ Housed(t, o)
  BY TaskFacts
<1>2. \A q \in Runs : k.batch[q] # Absent => k.batch[q] = o.batch[q] /\ o.batch[q] # Absent
  BY DEF TaskRecord
<1>3. SoundKind(k)
  BY <1>1 DEF Sound, SoundKind, Particular
<1>4. SoundBatch(k)
  BY <1>1, <1>2 DEF Sound, SoundBatch, Empty
<1>5. Backed(k)'
  BY <1>1, <1>2, StillBacked DEF Backed
<1>6. Housed(t, k) /\ LockFollows(t, k)
  BY <1>1 DEF Housed, LockFollows
<1> QED
  BY <1>3, <1>4, <1>5, <1>6, TaskStep DEF Sound

\* continue_run's first step preserves the invariant.
LEMMA RecoverNextStep == ASSUME IInv, NEW t \in Tasks, RecoverNext(t) PROVE IInv'
<1>1. PICK o \in TaskRecord : o = task[t] /\ Sound(o) /\ Backed(o)
  BY TaskFacts
<1>2. o.pc = "next_recover" /\ o.kind = "recover"
  BY <1>1 DEF RecoverNext, At, Sound, SoundKind
<1>3. StoresFine /\ UNCHANGED lock
  BY NothingSaved DEF RecoverNext
<1>4. PICK s \in SessionRecord : s = session /\ (s.active # NoRun => Stored(s.active)')
  BY <1>3 DEF IInv, TypeOK, SessionBound, SessionRecord, Stored, StoresFine, StoresGrow
<1>5. PICK r \in Runs, l \in {"invoke", "transition_recover"} :
          /\ o.batch[r] # Absent
          /\ l = IF o.batch[r].status = "running" THEN "invoke" ELSE "transition_recover"
          /\ Becomes(t, [TakesUp(t, r) EXCEPT !.sess = s, !.pc = l])
  BY <1>1, <1>4 DEF RecoverNext
<1>6. PICK j \in TaskRecord : j = TakesUp(t, r)
  BY <1>1, TakesUpType
<1>7. /\ j.kind = o.kind /\ j.rid = r /\ j.run = o.batch[r]
      /\ j.batch = [o.batch EXCEPT ![r] = Absent]
  BY <1>1, <1>6, TakesUpType
<1>8. PICK k \in TaskRecord : k = [j EXCEPT !.sess = s, !.pc = l]
  BY ZenonT(60) DEF TaskRecord, Locations
<1>9. /\ k.kind = o.kind /\ k.rid = r /\ k.run = o.batch[r] /\ k.pc = l
      /\ k.batch = [o.batch EXCEPT ![r] = Absent] /\ k.sess = s
  BY <1>7, <1>8 DEF TaskRecord
<1>10. o.batch[r].status \in Recoverable
  BY <1>1, <1>2, <1>5 DEF Sound, SoundBatch, Empty
<1>11. SoundCopy(k)
  BY <1>5, <1>9, <1>10 DEF SoundCopy, Holding, Driving, Recoverable
<1>12. Becomes(t, k)
  BY <1>5, <1>6, <1>8
<1> QED
  BY <1>1, <1>2, <1>3, <1>4, <1>5, <1>9, <1>11, <1>12, TakesUpStep DEF Particular

\* The sweep's transition to TIMED_OUT preserves the invariant.
LEMMA SweepNextStep == ASSUME IInv, NEW t \in Tasks, SweepNext(t) PROVE IInv'
<1>1. PICK o \in TaskRecord : o = task[t] /\ Sound(o) /\ Backed(o)
  BY TaskFacts
<1>2. o.pc = "next_sweep"
  BY <1>1 DEF SweepNext, At
<1>3. PICK r \in Runs :
          /\ o.batch[r] # Absent
          /\ SavesRun(r, [o.batch[r] EXCEPT !.status = "timed_out"])
          /\ Becomes(t, [TakesUp(t, r) EXCEPT !.pc = "sweep_session"])
  BY <1>1 DEF SweepNext
<1>4. PICK rec \in RunRecord : /\ rec = [o.batch[r] EXCEPT !.status = "timed_out"]
                               /\ rec.status = "timed_out"
  <2>1. o.batch[r] \in RunRecord /\ "timed_out" \in Statuses
    BY DEF TaskRecord, Statuses
  <2> QED
    BY <2>1, StatusChanged
<1>6. StoresFine /\ UNCHANGED lock
  BY <1>3, <1>4, RunSaved DEF SweepNext
<1>7. PICK j \in TaskRecord : j = TakesUp(t, r)
  BY <1>1, TakesUpType
<1>8. j.kind = o.kind /\ j.rid = r /\ j.batch = [o.batch EXCEPT ![r] = Absent] /\ j.sess = o.sess
  BY <1>1, <1>7, TakesUpType
<1>9. PICK k \in TaskRecord : k = [j EXCEPT !.pc = "sweep_session"]
  BY ZenonT(60) DEF TaskRecord, Locations
<1>10. /\ k.kind = o.kind /\ k.rid = r /\ k.pc = "sweep_session" /\ k.sess = o.sess
       /\ k.batch = [o.batch EXCEPT ![r] = Absent]
  BY <1>8, <1>9 DEF TaskRecord
<1>11. SoundCopy(k)
  BY <1>10 DEF SoundCopy, Holding, Driving
<1>12. Becomes(t, k) /\ Backed(o)'
  BY <1>1, <1>3, <1>6, <1>7, <1>9, StillBacked
<1> QED
  BY <1>1, <1>2, <1>3, <1>6, <1>10, <1>11, <1>12, TakesUpStep DEF Particular, Backed

\* The sweep's read of the session preserves the invariant.
LEMMA SweepSessionStep == ASSUME IInv, NEW t \in Tasks, SweepSession(t) PROVE IInv'
<1>1. PICK o \in TaskRecord : o = task[t] /\ Sound(o) /\ Backed(o)
  BY TaskFacts
<1>2. StoresFine /\ o.pc = "sweep_session"
  BY <1>1, NothingSaved DEF SweepSession, At
<1>3. CASE session.status = "absent"
  BY <1>1, <1>2, <1>3, EndsStep DEF SweepSession
<1>4. CASE session.status # "absent"
  <2>1. PICK s \in SessionRecord : s = session /\ (s.active # NoRun => Stored(s.active)')
    BY <1>2 DEF IInv, TypeOK, SessionBound, SessionRecord, Stored, StoresFine, StoresGrow
  <2>2. Becomes(t, [o EXCEPT !.pc = "sweep_expire", !.sess = s]) /\ UNCHANGED lock
    BY <1>1, <1>4, <2>1 DEF SweepSession
  <2>3. PICK k \in TaskRecord : k = [o EXCEPT !.pc = "sweep_expire", !.sess = s]
    BY DEF TaskRecord, Locations
  <2>4. /\ k.kind = o.kind /\ k.batch = o.batch /\ k.pc = "sweep_expire"
        /\ k.rid = o.rid /\ k.sess = s
    BY <2>3 DEF TaskRecord
  <2>5. SoundCopy(k)
    BY <2>4 DEF SoundCopy, Holding, Driving
  <2>6. Backed(o)'
    BY <1>1, <1>2, StillBacked
  <2> QED
    BY <1>1, <1>2, <2>1, <2>2, <2>3, <2>4, <2>5, <2>6, Proceeds DEF Particular, Backed
<1> QED BY <1>3, <1>4

\* The sweep's save of the expired session preserves the invariant.
LEMMA SweepExpireStep == ASSUME IInv, NEW t \in Tasks, SweepExpire(t) PROVE IInv'
<1>1. PICK o \in TaskRecord : o = task[t] /\ Sound(o) /\ Backed(o)
  BY TaskFacts
<1>2. PICK s \in SessionRecord : s = o.sess
  BY DEF TaskRecord
<1>3. /\ [s EXCEPT !.status = "expired"] \in SessionRecord
      /\ [s EXCEPT !.status = "expired"].active = s.active
  BY DEF SessionRecord
<1>4. StoresFine
  BY <1>1, <1>2, <1>3, SessionSaved DEF SweepExpire, Backed
<1> QED
  BY <1>4, EndsStep DEF SweepExpire, At

\* The poller's orphan check preserves the invariant.
LEMMA PollNextStep == ASSUME IInv, NEW t \in Tasks, PollNext(t) PROVE IInv'
<1>1. PICK o \in TaskRecord : o = task[t] /\ Sound(o) /\ Backed(o)
  BY TaskFacts
<1>2. o.pc = "next_poll" /\ o.kind = "poll"
  BY <1>1 DEF PollNext, At, Sound, SoundKind
<1>3. StoresFine /\ UNCHANGED lock
  BY NothingSaved DEF PollNext
<1>4. PICK r \in Runs, l \in {"resume_session", "poll_cancel"} :
          /\ o.batch[r] # Absent
          /\ Becomes(t, [TakesUp(t, r) EXCEPT !.pc = l])
  BY <1>1 DEF PollNext
<1>5. PICK j \in TaskRecord : j = TakesUp(t, r)
  BY <1>1, TakesUpType
<1>6. /\ j.kind = o.kind /\ j.rid = r /\ j.run = o.batch[r] /\ j.sess = o.sess
      /\ j.batch = [o.batch EXCEPT ![r] = Absent]
  BY <1>1, <1>5, TakesUpType
<1>7. PICK k \in TaskRecord : k = [j EXCEPT !.pc = l]
  BY ZenonT(60) DEF TaskRecord, Locations
<1>8. /\ k.kind = o.kind /\ k.rid = r /\ k.run = o.batch[r] /\ k.pc = l /\ k.sess = o.sess
      /\ k.batch = [o.batch EXCEPT ![r] = Absent]
  BY <1>6, <1>7 DEF TaskRecord
<1>9. o.batch[r].status = "waiting_for_input"
  BY <1>1, <1>2, <1>4 DEF Sound, SoundBatch, Empty
<1>10. SoundCopy(k)
  BY <1>8, <1>9 DEF SoundCopy, Holding, Driving
<1>11. Becomes(t, k) /\ Backed(o)'
  BY <1>1, <1>3, <1>4, <1>5, <1>7, StillBacked
<1> QED
  BY <1>1, <1>2, <1>3, <1>4, <1>8, <1>10, <1>11, TakesUpStep DEF Particular, Backed

\* The poller's direct save of an orphan preserves the invariant.
LEMMA PollCancelStep == ASSUME IInv, NEW t \in Tasks, PollCancel(t) PROVE IInv'
<1>1. PICK o \in TaskRecord : o = task[t] /\ Sound(o) /\ Backed(o)
  BY TaskFacts
<1>2. o.pc = "poll_cancel" /\ o.rid \in Runs /\ o.run \in RunRecord /\ "cancelled" \in Statuses
  BY <1>1 DEF PollCancel, At, Sound, SoundCopy, Holding, TaskRecord, Statuses
<1>3. PICK rec \in RunRecord : /\ rec = [o.run EXCEPT !.status = "cancelled"]
                               /\ rec.status = "cancelled"
  BY <1>2, StatusChanged
<1>4. SavesRun(o.rid, rec)
  BY <1>1, <1>3 DEF PollCancel
<1>5. StoresFine
  BY <1>2, <1>3, <1>4, RunSaved DEF PollCancel, IInv, TypeOK
<1> QED
  BY <1>1, <1>2, <1>5, EndsStep DEF PollCancel

-----------------------------------------------------------------------------
(* Crashes, the clock, and the whole *)

\* An idle task is well typed, sound, backed by any stores and housed anywhere.
LEMMA IdleFacts ==
    /\ Idle \in TaskRecord /\ Sound(Idle) /\ Backed(Idle)'
    /\ Idle.kind \notin InboundKinds
    /\ \A t \in Tasks : Housed(t, Idle)
<1>1. Idle \in TaskRecord
  BY BegunType, NoBatchType DEF Idle, Locations
<1>2. Idle.kind = "none" /\ Idle.pc = "idle" /\ Idle.batch = NoBatch
      /\ Idle.rid = NoRun /\ Idle.sess = NoSession
  BY DEF Idle, Begun
<1>3. Sound(Idle)
  BY <1>2 DEF Sound, SoundCopy, SoundKind, SoundBatch, Empty, NoBatch, Holding, Driving
<1>4. Backed(Idle)'
  BY <1>2 DEF Backed, NoBatch, NoSession
<1>5. \A t \in Tasks : Housed(t, Idle)
  BY <1>2 DEF Housed, WorkerOps
<1> QED
  BY <1>1, <1>2, <1>3, <1>4, <1>5 DEF InboundKinds

\* A crash leaves the stores, the checkpoints and the clock as they are.
LEMMA CrashFine ==
    ASSUME IInv, crashes < MaxCrashes, crashes' = crashes + 1,
           UNCHANGED <<runs, session, thread, claimed, now, arrivals>>
    PROVE  StoresFine
BY BoundsAssumption
   DEF IInv, TypeOK, StoresFine, StoresGrow, SessionBound, CompletedAtEnd, Stored

\* The death of the web process preserves the invariant: its lock goes with it.
LEMMA CrashWebStep == ASSUME IInv, CrashWeb PROVE IInv'
<1>1. StoresFine
  BY CrashFine DEF CrashWeb
<1>2. task' \in [Tasks -> TaskRecord] /\ lock' = NoTask
  BY IdleFacts DEF CrashWeb, IInv, TypeOK
<1>3. TypeOK'
  BY <1>1, <1>2 DEF TypeOK, StoresFine
<1>4. ASSUME NEW u \in Tasks
      PROVE  Sound(task'[u]) /\ Backed(task[u])' /\ Housed(u, task'[u])
  <2>1. CASE u \in Web
    <3>1. task'[u] = Idle
      BY <2>1 DEF CrashWeb
    <3> QED
      BY <3>1, IdleFacts DEF Backed
  <2>2. CASE u \notin Web
    <3>1. PICK o \in TaskRecord : o = task[u] /\ Sound(o) /\ Backed(o) /\ Housed(u, o)
      BY TaskFacts
    <3>2. task'[u] = o
      BY <2>2, <3>1 DEF CrashWeb
    <3>3. Backed(o)'
      BY <1>1, <3>1, StillBacked
    <3> QED
      BY <3>1, <3>2, <3>3 DEF Backed
  <2> QED BY <2>1, <2>2
<1>5. LockedWhileInbound'
  <2>1. \A t \in Web : task'[t] = Idle
    BY DEF CrashWeb, Tasks
  <2> QED
    BY <1>2, <2>1, IdleFacts, NoneAssumption DEF LockedWhileInbound, InboundKinds
<1> QED
  BY <1>1, <1>3, <1>4, <1>5 DEF IInv, StoresFine, Sound, Housed

\* The death of a worker preserves the invariant.
LEMMA CrashWorkerStep == ASSUME IInv, NEW t \in Workers, CrashWorker(t) PROVE IInv'
<1>1. StoresFine /\ UNCHANGED lock /\ Becomes(t, Idle)
  BY CrashFine DEF CrashWorker
<1>2. t \in Tasks /\ task[t].kind \notin InboundKinds
  BY DEF Tasks, IInv, Housed, WorkerOps, InboundKinds
<1> QED
  BY <1>1, <1>2, IdleFacts, TaskStep DEF LockFollows

\* The passing of time preserves the invariant.
LEMMA TickStep == ASSUME IInv, Tick PROVE IInv'
BY BoundsAssumption
   DEF Tick, IInv, TypeOK, Backed, Stored, SessionBound, CompletedAtEnd, LockedWhileInbound

\* A stuttering step preserves the invariant.
LEMMA StutterStep == ASSUME IInv, UNCHANGED vars PROVE IInv'
BY DEF vars, IInv, TypeOK, Backed, Stored, SessionBound, CompletedAtEnd, LockedWhileInbound

\* The invariant holds initially.
THEOREM InitInv == Init => IInv
<1> SUFFICES ASSUME Init PROVE IInv
  OBVIOUS
<1>1. \A t \in Tasks : task[t] = Idle
  BY DEF Init
<1>2. Absent \in RunRecord /\ NoSession \in SessionRecord
  BY BoundsAssumption DEF Absent, NoSession, RunRecord, SessionRecord, NoTime, Times
<1>3. TypeOK
  BY <1>2, IdleFacts, BoundsAssumption DEF Init, TypeOK, ThreadStates
<1>4. Backed(Idle)
  BY DEF Idle, Begun, Backed, NoBatch, NoSession
<1>5. SessionBound /\ CompletedAtEnd
  BY DEF Init, SessionBound, CompletedAtEnd, NoSession, Absent
<1>6. LockedWhileInbound
  BY <1>1, IdleFacts, NoneAssumption DEF Init, LockedWhileInbound, InboundKinds, Tasks
<1> QED
  BY <1>1, <1>3, <1>4, <1>5, <1>6, IdleFacts DEF IInv

\* Every step preserves it.
THEOREM NextInv == IInv /\ [Next]_vars => IInv'
<1> SUFFICES ASSUME IInv, [Next]_vars PROVE IInv'
  OBVIOUS
<1>1. ASSUME NEW t \in Tasks, Start(t) PROVE IInv'
  BY <1>1, ResolveStep, OpenSessionStep, CreateRunStep, BindRunStep, ToRunningSteps DEF Start
<1>2. ASSUME NEW t \in Tasks, Resume(t) PROVE IInv'
  BY <1>2, ResumeSessionStep, ResumeRunStep, ToRunningSteps, MarkActiveStep DEF Resume
<1>3. ASSUME NEW t \in Tasks, Drive(t) PROVE IInv'
  BY <1>3, InvokeReturnsStep, InvokeRaisesStep, FinalizeStep, TransitionFinalStep,
     CompleteSessionStep, MarkWaitingStep, SaveExpiryStep, FailSaveStep, TransitionFailStep
     DEF Drive
<1>4. ASSUME NEW t \in Web, Requests(t) PROVE IInv'
  BY <1>4, InboundStep, BackendEventStep, CampaignStep DEF Requests
<1>5. ASSUME NEW t \in Web, WebStep(t) PROVE IInv'
  BY <1>1, <1>2, <1>3, <1>5, InboundRunStep, ToRunningSteps, CancelListStep, CancelSaveStep
     DEF WebStep, Tasks
<1>6. ASSUME NEW t \in Workers, WorkerStep(t) PROVE IInv'
  BY <1>2, <1>3, <1>6, RecoverNextStep, ToRunningSteps, SweepNextStep, SweepSessionStep,
     SweepExpireStep, PollNextStep, PollCancelStep DEF WorkerStep, Tasks
<1> QED
  BY <1>4, <1>5, <1>6, BeatSteps, CrashWorkerStep, CrashWebStep, TickStep, StutterStep DEF Next

\* The inductive invariant holds in every behaviour of the handlers.
THEOREM Invariance == Spec => []IInv
BY InitInv, NextInv, PTL DEF Spec

-----------------------------------------------------------------------------
(* What follows, for every value of the constants *)

\* Every variable and every task keeps its type: no chain of copies and saves makes
\* an ill-formed record.
THEOREM TypeCorrect == Spec => []TypeOK
<1>1. IInv => TypeOK
  BY DEF IInv
<1> QED
  BY <1>1, Invariance, PTL

\* A run stored as COMPLETED has a finished thread, whichever tasks raced.
THEOREM CompletedCorrect == Spec => []CompletedAtEnd
<1>1. IInv => CompletedAtEnd
  BY DEF IInv
<1> QED
  BY <1>1, Invariance, PTL

\* The session never points at a run that is not stored.
THEOREM SessionCorrect == Spec => []SessionBound
<1>1. IInv => SessionBound
  BY DEF IInv
<1> QED
  BY <1>1, Invariance, PTL

\* The per-identity lock is held by exactly the task that serves an inbound.
THEOREM LockCorrect == Spec => []LockedWhileInbound
<1>1. IInv => LockedWhileInbound
  BY DEF IInv
<1> QED
  BY <1>1, Invariance, PTL

\* The transition manager never refuses what a task asks of it: a stale copy is
\* always at a status the table lets go on, so the table catches no interleaving.
THEOREM NeverRejectedCorrect == Spec => []NeverRejected
<1>1. IInv => NeverRejected
  <2> SUFFICES ASSUME IInv, NEW t \in Tasks
               PROVE  NeverRejected!(t)
    BY DEF NeverRejected
  <2>1. Sound(task[t])
    BY DEF IInv
  <2> QED
    BY <2>1 DEF Sound, SoundCopy, SoundKind, SoundBatch, Empty, IsAllowed, Allowed, Terminal,
                Statuses, Recoverable, Driving
<1> QED
  BY <1>1, Invariance, PTL

-----------------------------------------------------------------------------
(* The inbound dispatcher alone *)

\* With Ops = {"inbound"} every task is idle or serves an inbound.
OnlyInbound == \A t \in Tasks : task[t].kind \in InboundKinds \cup {"none"}

\* A step after which its task is idle, or serves an inbound, or what it did.
LEMMA KindStep ==
    ASSUME TypeOK, OnlyInbound, NEW t \in Tasks, NEW k, Becomes(t, k),
           k.kind \in InboundKinds \cup {"none", task[t].kind}
    PROVE  OnlyInbound'
BY DEF TypeOK, OnlyInbound, Becomes

\* A task that ends is at work on nothing: with no batch to go on with, it is idle.
LEMMA EndsKind ==
    ASSUME TypeOK, OnlyInbound, NEW t \in Tasks, Ends(t)
    PROVE  OnlyInbound'
<1>1. CASE \A r \in Runs : task[t].batch[r] = Absent
  BY <1>1, KindStep DEF Ends, Idle, Begun
<1>2. CASE ~\A r \in Runs : task[t].batch[r] = Absent
  BY <1>2, KindStep DEF Ends, Begun
<1> QED BY <1>1, <1>2

\* A transition leaves the kind of its task alone.
LEMMA TransitionKind ==
    ASSUME TypeOK, OnlyInbound, NEW t \in Tasks, NEW to, NEW l, Transition(t, to, l)
    PROVE  OnlyInbound'
<1>1. task[t] \in TaskRecord
  BY DEF TypeOK
<1> QED
  BY <1>1, KindStep DEF Transition, TaskRecord

\* A refused resume ends the task, or leaves it with the lock it had.
LEMMA ResumeRaisesKind ==
    ASSUME TypeOK, OnlyInbound, NEW t \in Tasks, ResumeRaises(t)
    PROVE  OnlyInbound'
<1>1. CASE task[t].kind = "revived"
  BY <1>1, KindStep DEF ResumeRaises, Begun, InboundKinds
<1>2. CASE task[t].kind # "revived"
  BY <1>2, EndsKind DEF ResumeRaises
<1> QED BY <1>1, <1>2

\* The steps of executor.start keep a task an inbound.
LEMMA StartKind ==
    ASSUME TypeOK, OnlyInbound, NEW t \in Tasks, Start(t) PROVE OnlyInbound'
<1>1. PICK o \in TaskRecord : o = task[t]
  BY DEF TypeOK
<1>2. CASE Resolve(t)
  BY <1>1, <1>2, KindStep DEF Resolve, TaskRecord
<1>3. CASE OpenSession(t)
  BY <1>1, <1>3, KindStep DEF OpenSession, GoesTo, TaskRecord
<1>4. CASE CreateRun(t)
  BY <1>1, <1>4, KindStep DEF CreateRun, TaskRecord
<1>5. CASE BindRun(t)
  BY <1>1, <1>5, KindStep DEF BindRun, TaskRecord
<1>6. CASE TransitionStart(t)
  BY <1>6, TransitionKind DEF TransitionStart
<1> QED BY <1>2, <1>3, <1>4, <1>5, <1>6 DEF Start

\* The steps of executor.resume keep a task an inbound, or end it.
LEMMA ResumeKind ==
    ASSUME TypeOK, OnlyInbound, NEW t \in Tasks, Resume(t) PROVE OnlyInbound'
<1>1. PICK o \in TaskRecord : o = task[t]
  BY DEF TypeOK
<1>2. CASE ResumeSession(t)
  <2>1. CASE session.active = NoRun
    BY <1>2, <2>1, ResumeRaisesKind DEF ResumeSession
  <2>2. CASE session.active # NoRun
    BY <1>1, <1>2, <2>2, KindStep DEF ResumeSession, TaskRecord
  <2> QED BY <2>1, <2>2
<1>3. CASE ResumeRun(t)
  <2>1. CASE runs[task[t].rid].status \in Terminal
    BY <1>3, <2>1, ResumeRaisesKind DEF ResumeRun
  <2>2. CASE runs[task[t].rid].status \notin Terminal
    BY <1>1, <1>3, <2>2, KindStep DEF ResumeRun, TaskRecord
  <2> QED BY <2>1, <2>2
<1>4. CASE TransitionResume(t)
  BY <1>4, TransitionKind DEF TransitionResume
<1>5. CASE MarkActive(t)
  BY <1>1, <1>5, KindStep DEF MarkActive, TaskRecord
<1> QED BY <1>2, <1>3, <1>4, <1>5 DEF Resume

\* The steps of the drive loop keep a task an inbound, or end it.
LEMMA DriveKind ==
    ASSUME TypeOK, OnlyInbound, NEW t \in Tasks, Drive(t) PROVE OnlyInbound'
<1>1. PICK o \in TaskRecord : o = task[t]
  BY DEF TypeOK
<1>2. CASE InvokeReturns(t)
  BY <1>1, <1>2, KindStep DEF InvokeReturns, GoesTo, TaskRecord
<1>3. CASE InvokeRaises(t)
  <2>1. CASE o.tries + 1 < MaxAttempts
    BY <1>1, <1>3, <2>1, KindStep DEF InvokeRaises, TaskRecord
  <2>2. CASE ~(o.tries + 1 < MaxAttempts)
    BY <1>1, <1>3, <2>2, KindStep DEF InvokeRaises, TaskRecord
  <2> QED BY <2>1, <2>2
<1>4. CASE Finalize(t)
  BY <1>1, <1>4, KindStep DEF Finalize, TaskRecord
<1>5. CASE TransitionFinal(t)
  <2>1. CASE task[t].goal = "suspended"
    BY <1>5, <2>1, EndsKind DEF TransitionFinal
  <2>2. CASE task[t].goal # "suspended"
    BY <1>1, <1>5, <2>2, KindStep DEF TransitionFinal, TaskRecord
  <2> QED BY <2>1, <2>2
<1>6. CASE CompleteSession(t)
  BY <1>6, EndsKind DEF CompleteSession
<1>7. CASE MarkWaiting(t)
  BY <1>1, <1>7, KindStep DEF MarkWaiting, TaskRecord
<1>8. CASE SaveExpiry(t)
  <2>1. CASE Ends(t)
    BY <2>1, EndsKind
  <2>2. CASE Becomes(t, Begun("replay", "resume_session", NoBatch))
    BY <2>2, KindStep DEF Begun, InboundKinds
  <2> QED BY <1>8, <2>1, <2>2 DEF SaveExpiry
<1>9. CASE FailSave(t)
  BY <1>1, <1>9, KindStep DEF FailSave, GoesTo, TaskRecord
<1>10. CASE TransitionFail(t)
  BY <1>10, EndsKind DEF TransitionFail
<1> QED BY <1>2, <1>3, <1>4, <1>5, <1>6, <1>7, <1>8, <1>9, <1>10 DEF Drive

\* Every step of an inbound keeps its task an inbound, or ends it.
LEMMA InboundKindStep ==
    ASSUME IInv, OnlyInbound, NEW t \in Web,
           Inbound(t) \/ InboundRun(t) \/ Revive(t) \/ CancelList(t) \/ CancelSave(t)
    PROVE  OnlyInbound'
<1>1. PICK o \in TaskRecord : o = task[t] /\ Sound(o) /\ t \in Tasks
  BY TaskFacts DEF Tasks
<1>2. TypeOK
  BY DEF IInv
<1>3. CASE Inbound(t)
  <2>1. PICK k : /\ Becomes(t, k)
                 /\ k = IF session.active = NoRun
                        THEN Begun("first", "resolve", NoBatch)
                        ELSE [Begun("inbound", "inbound_run", NoBatch)
                                 EXCEPT !.rid = session.active]
    BY <1>3 DEF Inbound
  <2>2. k.kind \in InboundKinds
    BY <2>1 DEF Begun, InboundKinds
  <2> QED
    BY <1>1, <1>2, <2>1, <2>2, KindStep
<1>4. CASE InboundRun(t)
  <2>1. PICK rec : rec = runs[task[t].rid]
    OBVIOUS
  <2>2. \/ Becomes(t, Begun("inbound", "resume_session", NoBatch))
        \/ Becomes(t, [o EXCEPT !.kind = "revived", !.pc = "revive", !.run = rec])
        \/ Becomes(t, Begun("first", "resolve", NoBatch))
    BY <1>1, <1>4, <2>1 DEF InboundRun
  <2>3. [o EXCEPT !.kind = "revived", !.pc = "revive", !.run = rec].kind = "revived"
    BY DEF TaskRecord
  <2> QED
    BY <1>1, <1>2, <2>2, <2>3, KindStep DEF Begun, InboundKinds
<1>5. CASE Revive(t)
  BY <1>1, <1>2, <1>5, TransitionKind DEF Revive
<1>6. CASE CancelList(t) \/ CancelSave(t)
  BY <1>1, <1>6 DEF CancelList, CancelSave, At, OnlyInbound, InboundKinds, Sound, SoundKind
<1> QED BY <1>3, <1>4, <1>5, <1>6

\* With the inbound dispatcher alone, every busy task serves an inbound.
LEMMA OnlyInboundNext ==
    ASSUME Ops \subseteq {"inbound"}, IInv, OnlyInbound, [Next]_vars
    PROVE  OnlyInbound'
<1>1. TypeOK
  BY DEF IInv
<1>2. ASSUME NEW t \in Web, Requests(t) \/ WebStep(t) PROVE OnlyInbound'
  <2>1. t \in Tasks
    BY DEF Tasks
  <2>2. CASE Requests(t)
    BY <2>2, InboundKindStep DEF Requests, BackendEvent, Campaign, Arrives
  <2>3. CASE WebStep(t)
    BY <1>1, <2>1, <2>3, InboundKindStep, StartKind, ResumeKind, DriveKind DEF WebStep
  <2> QED BY <1>2, <2>2, <2>3
<1>3. ASSUME NEW t \in Workers,
             RecoverList(t) \/ SweepList(t) \/ PollList(t) \/ WorkerStep(t) \/ CrashWorker(t)
      PROVE  FALSE
  <2>1. PICK o \in TaskRecord : o = task[t] /\ Sound(o) /\ Housed(t, o)
    BY TaskFacts DEF Tasks
  <2>2. o.pc = "idle"
    BY <2>1 DEF OnlyInbound, Tasks, Housed, WorkerOps, InboundKinds, Sound, SoundKind
  <2> QED
    BY <1>3, <2>1, <2>2
       DEF RecoverList, SweepList, PollList, Beat, CrashWorker, WorkerStep, RecoverNext,
           TransitionRecover, SweepNext, SweepSession, SweepExpire, PollNext, PollCancel,
           Resume, ResumeSession, ResumeRun, TransitionResume, MarkActive,
           Drive, InvokeReturns, InvokeRaises, Finalize, TransitionFinal, CompleteSession,
           MarkWaiting, SaveExpiry, FailSave, TransitionFail, At
<1>4. CASE CrashWeb
  BY <1>1, <1>4 DEF CrashWeb, OnlyInbound, Idle, Begun
<1>5. CASE Tick \/ UNCHANGED vars
  BY <1>5 DEF Tick, vars, OnlyInbound
<1> QED
  BY <1>2, <1>3, <1>4, <1>5 DEF Next

\* With the inbound dispatcher alone, whatever crashes, its lock leaves one task at
\* most driving a run.
THEOREM SingleDriverCorrect ==
    ASSUME Ops \subseteq {"inbound"}
    PROVE  Spec => []SingleDriver
<1>1. Init => OnlyInbound
  BY DEF Init, OnlyInbound, Idle, Begun
<1>2. IInv /\ OnlyInbound => SingleDriver
  <2> SUFFICES ASSUME IInv, OnlyInbound, NEW t \in Tasks, NEW u \in Tasks,
                      At(t, "invoke"), At(u, "invoke")
               PROVE  t = u
    BY DEF SingleDriver
  <2>1. \A v \in Tasks : At(v, "invoke") => v \in Web /\ lock = v
    BY DEF IInv, OnlyInbound, At, Sound, SoundKind, Housed, WorkerOps, InboundKinds, Tasks,
           LockedWhileInbound
  <2> QED
    BY <2>1
<1> QED
  BY <1>1, <1>2, Invariance, OnlyInboundNext, PTL DEF Spec

-----------------------------------------------------------------------------
(* The inbound dispatcher alone: one run at a time *)

\* The statuses of a run that is under way.
UnderWay == {"running", "waiting_for_input", "suspended", "timed_out"}

\* Locations of executor.start before its run is the session's, and the locations
\* at which a task works on the session's run with its copy of the session.
Starting == {"resolve", "open_session", "create", "bind"}
Bound    == {"transition_start", "resume_run", "transition_resume", "mark_active", "invoke",
             "finalize", "transition_final", "complete_session", "mark_waiting", "save_expiry",
             "fail_save", "transition_fail"}

NoneUnderWay == \A r \in Runs : runs[r].status \notin UnderWay

\* What a task record k of the dispatcher says of the stores: nobody else writes
\* them, so its copies are what is stored.
Steady(k) ==
    /\ k.pc \in {"idle", "inbound_run", "revive", "resume_session"} \cup Starting \cup Bound
    /\ k.pc \in Holding => k.run = runs[k.rid]
    /\ k.pc \in Starting => NoneUnderWay
    /\ k.pc \in Bound \cup {"inbound_run", "revive"} => session.active = k.rid
    /\ k.pc \in Bound => k.sess.active = k.rid
    /\ k.pc = "transition_final" /\ k.goal = "waiting_for_input" =>
          k.run.prompt /\ thread[k.rid] = "interrupt"

\* Only the session's run is under way.
ActiveUnderWay == \A r \in Runs : runs[r].status \in UnderWay => r = session.active

StoresSteady == ActiveUnderWay /\ ParkedAtInterrupt

DInv ==
    /\ IInv
    /\ OnlyInbound
    /\ StoresSteady
    /\ \A t \in Tasks : Steady(task[t])

\* A step of the abstract specification, or one it does not see.
StatusMap  == [r \in Runs |-> runs[r].status]
StatusStep == Status!Next \/ UNCHANGED StatusMap

-----------------------------------------------------------------------------
(* What the invariant says of the task that takes a step, and of the others *)

\* The per-identity lock keeps every other task out.
LEMMA OthersIdle ==
    ASSUME IInv, OnlyInbound, NEW t \in Tasks, lock = t \/ lock = NoTask,
           NEW u \in Tasks, u # t
    PROVE  task[u].pc = "idle"
<1>1. PICK o \in TaskRecord : o = task[u] /\ Sound(o) /\ Housed(u, o)
  BY TaskFacts
<1>2. CASE u \in Web
  <2>1. lock # u
    BY <1>2, NoneAssumption
  <2>2. o.kind = "none"
    BY <1>1, <1>2, <2>1 DEF IInv, LockedWhileInbound, OnlyInbound, InboundKinds
  <2> QED
    BY <1>1, <2>2 DEF Sound, SoundKind
<1>3. CASE u \notin Web
  <2>1. o.kind = "none"
    BY <1>1, <1>3 DEF Housed, Tasks, OnlyInbound, InboundKinds, WorkerOps
  <2> QED
    BY <1>1, <2>1 DEF Sound, SoundKind
<1> QED BY <1>2, <1>3

\* A busy task holds the lock.
LEMMA BusyHoldsLock ==
    ASSUME IInv, OnlyInbound, NEW t \in Tasks, task[t].pc # "idle"
    PROVE  t \in Web /\ lock = t
<1>1. PICK o \in TaskRecord : o = task[t] /\ Sound(o) /\ Housed(t, o)
  BY TaskFacts
<1>2. o.kind \in InboundKinds
  BY <1>1 DEF OnlyInbound, Sound, SoundKind
<1>3. t \in Web
  BY <1>1, <1>2 DEF Housed, Tasks, InboundKinds, WorkerOps
<1> QED
  BY <1>1, <1>2, <1>3 DEF IInv, LockedWhileInbound, InboundKinds

\* The record of a task, and what the invariant says of it.
LEMMA SteadyFacts ==
    ASSUME DInv, NEW t \in Tasks
    PROVE  \E o \in TaskRecord : o = task[t] /\ Sound(o) /\ Backed(o) /\ Steady(o)
BY TaskFacts DEF DInv

\* A step of one task, the others idle, that leaves the stores and its record steady.
LEMMA SteadyStep ==
    ASSUME DInv, NEW t \in Tasks, lock = t \/ lock = NoTask,
           NEW k \in TaskRecord, Becomes(t, k), Steady(k)',
           IInv', OnlyInbound', StoresSteady'
    PROVE  DInv'
<1>1. ASSUME NEW u \in Tasks PROVE Steady(task[u])'
  <2>1. CASE u = t
    BY <2>1 DEF Becomes, DInv, IInv, TypeOK, Steady
  <2>2. CASE u # t
    <3>1. task'[u] = task[u]
      BY <2>2 DEF Becomes, DInv, IInv, TypeOK
    <3>2. task[u].pc = "idle"
      BY <2>2, OthersIdle DEF DInv
    <3> QED
      BY <3>1, <3>2 DEF Steady, Starting, Bound, Holding
  <2> QED BY <2>1, <2>2
<1> QED
  BY <1>1 DEF DInv

\* A task that has begun at a location where nothing is held yet.
LEMMA BegunSteady ==
    ASSUME DInv, NEW t \in Tasks, lock = t \/ lock = NoTask,
           NEW kd \in Kinds \cup {"none"}, NEW l \in {"idle", "resolve", "resume_session"},
           l = "resolve" => NoneUnderWay',
           Becomes(t, Begun(kd, l, NoBatch)), IInv', OnlyInbound', StoresSteady'
    PROVE  DInv'
<1>1. PICK k \in TaskRecord : k = Begun(kd, l, NoBatch)
  BY BegunType, NoBatchType DEF Locations
<1>2. k.pc = l
  BY <1>1 DEF Begun
<1>3. Steady(k)'
  BY <1>2 DEF Steady, Starting, Bound, Holding
<1> QED
  BY <1>1, <1>3, SteadyStep

\* An inbound that ends has nothing listed: its task is idle.
LEMMA EndsSteady ==
    ASSUME DInv, NEW t \in Tasks, task[t].pc # "idle", Ends(t),
           IInv', OnlyInbound', StoresSteady'
    PROVE  DInv'
<1>1. PICK o \in TaskRecord : o = task[t] /\ Sound(o) /\ Steady(o)
  BY SteadyFacts
<1>2. o.kind \in InboundKinds
  BY <1>1 DEF DInv, OnlyInbound, Sound, SoundKind
<1>3. o.pc # "cancel_save"
  BY <1>1 DEF Steady, Starting, Bound
<1>4. Empty(o)
  BY <1>1, <1>2, <1>3 DEF Sound, SoundBatch, InboundKinds
<1>5. Becomes(t, Begun("none", "idle", NoBatch))
  BY <1>1, <1>4 DEF Ends, Empty, Idle
<1>6. lock = t
  BY BusyHoldsLock DEF DInv
<1> QED
  BY <1>5, <1>6, BegunSteady

-----------------------------------------------------------------------------
(* What one store operation leaves *)

\* A step that leaves the stores alone leaves them steady.
LEMMA NothingMoved ==
    ASSUME StoresSteady, UNCHANGED <<runs, session, thread>>
    PROVE  /\ StoresSteady' /\ StatusStep
           /\ NoneUnderWay => NoneUnderWay'
BY DEF StoresSteady, ActiveUnderWay, ParkedAtInterrupt, NoneUnderWay, StatusStep, StatusMap

\* A save of the session leaves them steady when it does not drop the run under way.
LEMMA SessionMoved ==
    ASSUME StoresSteady, UNCHANGED <<runs, thread>>,
           session'.active = session.active \/ NoneUnderWay
    PROVE  StoresSteady' /\ StatusStep
BY DEF StoresSteady, ActiveUnderWay, ParkedAtInterrupt, NoneUnderWay, StatusStep, StatusMap

\* A save of the session's run along the table leaves them steady when a run stored
\* WAITING_FOR_INPUT is parked with its prompt.
LEMMA RunMoved ==
    ASSUME DInv, NEW r \in Runs, NEW rec \in RunRecord, SavesRun(r, rec),
           UNCHANGED <<session, thread>>,
           r = session.active, runs[r].status \in Statuses, rec.status \in Statuses,
           IsAllowed(runs[r].status, rec.status),
           rec.status = "waiting_for_input" => rec.prompt /\ thread[r] = "interrupt"
    PROVE  StoresSteady' /\ StatusStep /\ runs'[r] = rec
<1>1. /\ runs'[r] = rec
      /\ \A q \in Runs \ {r} : runs'[q] = runs[q]
  BY DEF DInv, IInv, TypeOK, SavesRun
<1>2. StoresSteady'
  BY <1>1 DEF DInv, StoresSteady, ActiveUnderWay, ParkedAtInterrupt
<1>3. StatusStep
  <2>1. CASE rec.status = runs[r].status
    <3>1. \A q \in Runs : runs'[q].status = runs[q].status
      BY <1>1, <2>1
    <3> QED
      BY <3>1 DEF StatusStep, StatusMap
  <2>2. CASE rec.status # runs[r].status
    <3>1. rec.status \in Allowed[runs[r].status]
      BY <2>2 DEF IsAllowed
    <3>2. StatusMap' = [StatusMap EXCEPT ![r] = rec.status]
      <4>1. \A q \in Runs : runs'[q].status = IF q = r THEN rec.status ELSE runs[q].status
        BY <1>1
      <4> QED
        BY <4>1 DEF StatusMap
    <3>3. StatusMap[r] = runs[r].status
      BY DEF StatusMap
    <3>4. Status!Allowed = Allowed /\ Status!Statuses = Statuses
      BY DEF Status!Allowed, Allowed, Status!Statuses, Statuses
    <3>5. Status!Move(r)
      BY <3>1, <3>2, <3>3, <3>4 DEF Status!Move, StatusMap
    <3> QED
      BY <3>5 DEF StatusStep, Status!Next
  <2> QED BY <2>1, <2>2
<1> QED BY <1>1, <1>2, <1>3

-----------------------------------------------------------------------------
(* executor.start, by the dispatcher alone *)

\* SessionManager.resolve's read: a new run is started only when none is under way.
LEMMA ResolveSteady ==
    ASSUME DInv, NEW t \in Tasks, Resolve(t), IInv', OnlyInbound'
    PROVE  DInv' /\ StatusStep
<1>1. PICK o \in TaskRecord : o = task[t] /\ Sound(o) /\ Steady(o)
  BY SteadyFacts
<1>2. o.pc = "resolve" /\ lock = t /\ NoneUnderWay
  BY <1>1, BusyHoldsLock DEF Resolve, At, DInv, Steady, Starting
<1>3. StoresSteady' /\ StatusStep /\ NoneUnderWay'
  BY <1>2, NothingMoved DEF Resolve, DInv
<1>4. PICK s \in SessionRecord, l \in {"open_session", "create"} :
          Becomes(t, [o EXCEPT !.pc = l, !.sess = s])
  <2>1. NewSession \in SessionRecord /\ session \in SessionRecord
    BY BoundsAssumption
       DEF NewSession, SessionRecord, NoTime, Times, DInv, IInv, TypeOK
  <2> QED
    BY <1>1, <2>1 DEF Resolve
<1>5. PICK k \in TaskRecord : k = [o EXCEPT !.pc = l, !.sess = s]
  BY DEF TaskRecord, Locations
<1>6. k.pc = l
  BY <1>5 DEF TaskRecord
<1>7. Steady(k)'
  BY <1>3, <1>6 DEF Steady, Starting, Bound, Holding
<1> QED
  BY <1>2, <1>3, <1>4, <1>5, <1>7, SteadyStep

\* The save of a new session drops no run that is under way.
LEMMA OpenSessionSteady ==
    ASSUME DInv, NEW t \in Tasks, OpenSession(t), IInv', OnlyInbound'
    PROVE  DInv' /\ StatusStep
<1>1. PICK o \in TaskRecord : o = task[t] /\ Sound(o) /\ Steady(o)
  BY SteadyFacts
<1>2. o.pc = "open_session" /\ lock = t /\ NoneUnderWay
  BY <1>1, BusyHoldsLock DEF OpenSession, At, DInv, Steady, Starting
<1>3. StoresSteady' /\ StatusStep /\ NoneUnderWay'
  BY <1>2, SessionMoved DEF OpenSession, DInv, NoneUnderWay
<1>4. PICK k \in TaskRecord : k = [o EXCEPT !.pc = "create"]
  BY DEF TaskRecord, Locations
<1>5. Becomes(t, k) /\ k.pc = "create"
  BY <1>1, <1>4 DEF TaskRecord, OpenSession, GoesTo
<1>6. Steady(k)'
  BY <1>3, <1>5 DEF Steady, Starting, Bound, Holding
<1> QED
  BY <1>2, <1>3, <1>5, <1>6, SteadyStep

\* A new run is stored as PENDING.
LEMMA CreateRunSteady ==
    ASSUME DInv, NEW t \in Tasks, CreateRun(t), IInv', OnlyInbound'
    PROVE  DInv' /\ StatusStep
<1>1. PICK o \in TaskRecord : o = task[t] /\ Sound(o) /\ Steady(o)
  BY SteadyFacts
<1>2. o.pc = "create" /\ lock = t /\ NoneUnderWay
  BY <1>1, BusyHoldsLock DEF CreateRun, At, DInv, Steady, Starting
<1>3. PICK r \in Runs : /\ runs[r] = Absent
                        /\ SavesRun(r, NewRun)
                        /\ Becomes(t, [o EXCEPT !.pc = "bind", !.rid = r, !.run = NewRun])
  BY <1>1 DEF CreateRun
<1>4. runs'[r] = NewRun /\ \A q \in Runs \ {r} : runs'[q] = runs[q]
  BY <1>3 DEF DInv, IInv, TypeOK, SavesRun
<1>5. NoneUnderWay' /\ StoresSteady'
  BY <1>2, <1>4 DEF NoneUnderWay, UnderWay, NewRun, CreateRun, StoresSteady, ActiveUnderWay,
                    ParkedAtInterrupt
<1>6. StatusStep
  <2>1. \A q \in Runs : runs'[q].status = IF q = r THEN "pending" ELSE runs[q].status
    BY <1>4 DEF NewRun
  <2>2. StatusMap' = [StatusMap EXCEPT ![r] = "pending"]
    BY <2>1 DEF StatusMap
  <2>3. StatusMap[r] = "absent"
    BY <1>3 DEF StatusMap, Absent
  <2>4. Status!Create(r)
    BY <2>2, <2>3 DEF Status!Create, StatusMap
  <2> QED
    BY <2>4 DEF StatusStep, Status!Next
<1>7. PICK k \in TaskRecord : k = [o EXCEPT !.pc = "bind", !.rid = r, !.run = NewRun]
  <2>1. NewRun \in RunRecord
    BY BoundsAssumption DEF NewRun, RunRecord, Statuses, NoTime, Times
  <2> QED
    BY <2>1 DEF TaskRecord, Locations
<1>8. k.pc = "bind" /\ k.rid = r /\ k.run = NewRun
  BY <1>7 DEF TaskRecord
<1>9. Steady(k)'
  BY <1>4, <1>5, <1>8 DEF Steady, Starting, Bound, Holding
<1> QED
  BY <1>2, <1>3, <1>5, <1>6, <1>7, <1>9, SteadyStep

\* bind_run makes the new run the session's, and drops none that is under way.
LEMMA BindRunSteady ==
    ASSUME DInv, NEW t \in Tasks, BindRun(t), IInv', OnlyInbound'
    PROVE  DInv' /\ StatusStep
<1>1. PICK o \in TaskRecord : o = task[t] /\ Sound(o) /\ Steady(o)
  BY SteadyFacts
<1>2. o.pc = "bind" /\ lock = t /\ NoneUnderWay /\ o.rid \in Runs /\ o.run = runs[o.rid]
  BY <1>1, BusyHoldsLock DEF BindRun, At, DInv, Steady, Starting, Holding, Sound, SoundCopy
<1>3. PICK s \in SessionRecord :
          s = [o.sess EXCEPT !.active = o.rid, !.status = "active"] /\ s.active = o.rid
  <2>1. PICK s \in SessionRecord : s = o.sess
    BY DEF TaskRecord
  <2>2. /\ [s EXCEPT !.active = o.rid, !.status = "active"] \in SessionRecord
        /\ [s EXCEPT !.active = o.rid, !.status = "active"].active = o.rid
    BY <1>2 DEF SessionRecord
  <2> QED
    BY <2>1, <2>2
<1>4. session' = s /\ Becomes(t, [o EXCEPT !.pc = "transition_start", !.sess = s])
  BY <1>1, <1>3 DEF BindRun
<1>5. StoresSteady' /\ StatusStep
  BY <1>2, SessionMoved DEF BindRun, DInv
<1>6. PICK k \in TaskRecord : k = [o EXCEPT !.pc = "transition_start", !.sess = s]
  BY DEF TaskRecord, Locations
<1>7. k.pc = "transition_start" /\ k.rid = o.rid /\ k.run = o.run /\ k.sess = s
  BY <1>6 DEF TaskRecord
<1>8. Steady(k)'
  BY <1>2, <1>3, <1>4, <1>7 DEF Steady, Starting, Bound, Holding, BindRun
<1> QED
  BY <1>2, <1>4, <1>5, <1>6, <1>8, SteadyStep

\* The session's run goes to RUNNING, along the table.
LEMMA ToRunningSteady ==
    ASSUME DInv, NEW t \in Tasks, IInv', OnlyInbound',
           TransitionStart(t) \/ TransitionResume(t) \/ Revive(t)
    PROVE  DInv' /\ StatusStep
<1>1. PICK o \in TaskRecord : o = task[t] /\ Sound(o) /\ Steady(o)
  BY SteadyFacts
<1>2. PICK l \in {"invoke", "mark_active", "resume_session"} :
          /\ Transition(t, "running", l)
          /\ o.pc \in Bound \/ l = "resume_session"
          /\ o.pc \in {"transition_start", "transition_resume", "revive"}
          /\ UNCHANGED <<session, thread>>
  BY <1>1 DEF TransitionStart, TransitionResume, Revive, At, Bound
<1>3. /\ o.rid \in Runs /\ o.rid = session.active
      /\ o.run = runs[o.rid] /\ o.run.status \in Statuses /\ lock = t
      /\ l # "resume_session" => o.sess.active = o.rid
  BY <1>1, <1>2, BusyHoldsLock
     DEF DInv, Steady, Bound, Holding, Sound, SoundCopy, Statuses
<1>4. PICK rec \in RunRecord : rec = [o.run EXCEPT !.status = "running"] /\ rec.status = "running"
  <2>1. o.run \in RunRecord /\ "running" \in Statuses
    BY DEF TaskRecord, Statuses
  <2> QED
    BY <2>1, StatusChanged
<1>5. /\ IsAllowed(o.run.status, "running")
      /\ SavesRun(o.rid, rec)
      /\ Becomes(t, [o EXCEPT !.pc = l, !.run = rec])
  BY <1>1, <1>2, <1>4 DEF Transition
<1>6. StoresSteady' /\ StatusStep /\ runs'[o.rid] = rec
  <2>1. rec.status \in Statuses
    BY <1>4 DEF Statuses
  <2> QED
    BY <1>2, <1>3, <1>4, <1>5, <2>1, RunMoved
<1>7. PICK k \in TaskRecord : k = [o EXCEPT !.pc = l, !.run = rec]
  BY DEF TaskRecord, Locations
<1>8. k.pc = l /\ k.rid = o.rid /\ k.run = rec /\ k.sess = o.sess
  BY <1>7 DEF TaskRecord
<1>9. Steady(k)'
  BY <1>2, <1>3, <1>6, <1>8 DEF Steady, Starting, Bound, Holding
<1> QED
  BY <1>3, <1>5, <1>6, <1>7, <1>9, SteadyStep

-----------------------------------------------------------------------------
(* executor.resume, by the dispatcher alone *)

\* A resume is refused only when no run is under way.
LEMMA ResumeRaisesSteady ==
    ASSUME DInv, NEW t \in Tasks, task[t].pc # "idle", ResumeRaises(t), NoneUnderWay',
           IInv', OnlyInbound', StoresSteady'
    PROVE  DInv'
<1>1. lock = t
  BY BusyHoldsLock DEF DInv
<1>2. CASE task[t].kind = "revived"
  BY <1>1, <1>2, BegunSteady DEF ResumeRaises, Kinds
<1>3. CASE task[t].kind # "revived"
  BY <1>3, EndsSteady DEF ResumeRaises
<1> QED BY <1>2, <1>3

\* resume's read of the session: without an active run none is under way.
LEMMA ResumeSessionSteady ==
    ASSUME DInv, NEW t \in Tasks, ResumeSession(t), IInv', OnlyInbound'
    PROVE  DInv' /\ StatusStep
<1>1. StoresSteady' /\ StatusStep /\ (NoneUnderWay => NoneUnderWay')
  BY NothingMoved DEF ResumeSession, DInv
<1>2. PICK o \in TaskRecord : o = task[t] /\ o.pc = "resume_session" /\ lock = t
  BY SteadyFacts, BusyHoldsLock DEF ResumeSession, At, DInv
<1>3. CASE session.active = NoRun
  <2>1. NoneUnderWay
    BY <1>3, NoneAssumption DEF DInv, StoresSteady, ActiveUnderWay, NoneUnderWay
  <2> QED
    BY <1>1, <1>2, <1>3, <2>1, ResumeRaisesSteady DEF ResumeSession
<1>4. CASE session.active # NoRun
  <2>1. PICK s \in SessionRecord, r \in Runs : s = session /\ r = s.active
    BY <1>4 DEF DInv, IInv, TypeOK, SessionRecord
  <2>2. Becomes(t, [o EXCEPT !.pc = "resume_run", !.sess = s, !.rid = r])
    BY <1>2, <1>4, <2>1 DEF ResumeSession
  <2>3. PICK k \in TaskRecord : k = [o EXCEPT !.pc = "resume_run", !.sess = s, !.rid = r]
    BY DEF TaskRecord, Locations
  <2>4. k.pc = "resume_run" /\ k.rid = r /\ k.sess = s
    BY <2>3 DEF TaskRecord
  <2>5. Steady(k)'
    BY <2>1, <2>4 DEF Steady, Starting, Bound, Holding, ResumeSession
  <2> QED
    BY <1>1, <1>2, <2>2, <2>3, <2>5, SteadyStep
<1> QED BY <1>3, <1>4

\* resume's read of the session's run: when it is over, none is under way.
LEMMA ResumeRunSteady ==
    ASSUME DInv, NEW t \in Tasks, ResumeRun(t), IInv', OnlyInbound'
    PROVE  DInv' /\ StatusStep
<1>1. StoresSteady' /\ StatusStep /\ (NoneUnderWay => NoneUnderWay')
  BY NothingMoved DEF ResumeRun, DInv
<1>2. PICK o \in TaskRecord : o = task[t] /\ Sound(o) /\ Steady(o)
  BY SteadyFacts
<1>3. /\ o.pc = "resume_run" /\ lock = t /\ o.rid \in Runs
      /\ session.active = o.rid /\ o.sess.active = o.rid
  BY <1>2, BusyHoldsLock DEF ResumeRun, At, DInv, Steady, Bound, Sound, SoundCopy
<1>4. PICK rec \in RunRecord : rec = runs[o.rid]
  BY <1>3 DEF DInv, IInv, TypeOK
<1>5. CASE rec.status \in Terminal
  <2>1. NoneUnderWay
    BY <1>3, <1>4, <1>5
       DEF DInv, StoresSteady, ActiveUnderWay, NoneUnderWay, UnderWay, Terminal
  <2> QED
    BY <1>1, <1>2, <1>3, <1>4, <1>5, <2>1, ResumeRaisesSteady DEF ResumeRun
<1>6. CASE rec.status \notin Terminal
  <2>1. Becomes(t, [o EXCEPT !.pc = "transition_resume", !.run = rec])
    BY <1>2, <1>4, <1>6 DEF ResumeRun
  <2>2. PICK k \in TaskRecord : k = [o EXCEPT !.pc = "transition_resume", !.run = rec]
    BY DEF TaskRecord, Locations
  <2>3. k.pc = "transition_resume" /\ k.rid = o.rid /\ k.sess = o.sess /\ k.run = rec
    BY <2>2 DEF TaskRecord
  <2>4. Steady(k)'
    BY <1>3, <1>4, <2>3 DEF Steady, Starting, Bound, Holding, ResumeRun
  <2> QED
    BY <1>1, <1>3, <2>1, <2>2, <2>4, SteadyStep
<1> QED BY <1>5, <1>6

\* mark_active writes the session the task read, with the run it had.
LEMMA MarkActiveSteady ==
    ASSUME DInv, NEW t \in Tasks, MarkActive(t), IInv', OnlyInbound'
    PROVE  DInv' /\ StatusStep
<1>1. PICK o \in TaskRecord : o = task[t] /\ Sound(o) /\ Steady(o)
  BY SteadyFacts
<1>2. /\ o.pc = "mark_active" /\ lock = t /\ o.run = runs[o.rid]
      /\ session.active = o.rid /\ o.sess.active = o.rid
  BY <1>1, BusyHoldsLock DEF MarkActive, At, DInv, Steady, Bound, Holding
<1>3. PICK s \in SessionRecord :
          s = [o.sess EXCEPT !.status = "active"] /\ s.active = o.sess.active
  <2>1. PICK s \in SessionRecord : s = o.sess
    BY DEF TaskRecord
  <2>2. /\ [s EXCEPT !.status = "active"] \in SessionRecord
        /\ [s EXCEPT !.status = "active"].active = s.active
    BY DEF SessionRecord
  <2> QED
    BY <2>1, <2>2
<1>4. session' = s /\ Becomes(t, [o EXCEPT !.pc = "invoke", !.sess = s])
  BY <1>1, <1>3 DEF MarkActive
<1>5. StoresSteady' /\ StatusStep
  BY <1>2, <1>3, <1>4, SessionMoved DEF MarkActive, DInv
<1>6. PICK k \in TaskRecord : k = [o EXCEPT !.pc = "invoke", !.sess = s]
  BY DEF TaskRecord, Locations
<1>7. k.pc = "invoke" /\ k.rid = o.rid /\ k.sess = s /\ k.run = o.run
  BY <1>6 DEF TaskRecord
<1>8. Steady(k)'
  BY <1>2, <1>3, <1>4, <1>7 DEF Steady, Starting, Bound, Holding, MarkActive
<1> QED
  BY <1>2, <1>4, <1>5, <1>6, <1>8, SteadyStep

-----------------------------------------------------------------------------
(* executor._drive, by the dispatcher alone *)

\* Where a task drives the session's run.
LEMMA BoundFacts ==
    ASSUME DInv, NEW t \in Tasks, task[t].pc \in Bound \cap Holding
    PROVE  \E o \in TaskRecord :
              /\ o = task[t] /\ Sound(o) /\ Steady(o) /\ Backed(o)
              /\ o.rid \in Runs /\ o.run \in RunRecord /\ o.sess \in SessionRecord
              /\ o.run = runs[o.rid] /\ o.run.status \in Statuses
              /\ session.active = o.rid /\ o.sess.active = o.rid
              /\ lock = t
<1>1. PICK o \in TaskRecord : o = task[t] /\ Sound(o) /\ Backed(o) /\ Steady(o)
  BY SteadyFacts
<1>2. lock = t
  BY BusyHoldsLock DEF DInv, Holding
<1>3. o.rid \in Runs /\ o.run = runs[o.rid] /\ session.active = o.rid /\ o.sess.active = o.rid
  BY <1>1 DEF Steady, Sound, SoundCopy
<1>4. o.run \in RunRecord /\ o.sess \in SessionRecord
  BY DEF TaskRecord
<1>5. o.run.status # "absent"
  BY <1>1, <1>3, NoneAssumption DEF Backed, Stored
<1>6. o.run.status \in Statuses
  BY <1>4, <1>5 DEF RunRecord
<1> QED
  BY <1>1, <1>2, <1>3, <1>4, <1>6

\* An invocation moves the thread of a run stored RUNNING, no parked one.
LEMMA ThreadMoved ==
    ASSUME DInv, NEW r \in Runs, NEW c, thread' = [thread EXCEPT ![r] = c],
           runs[r].status = "running", UNCHANGED <<runs, session>>
    PROVE  StoresSteady' /\ StatusStep
<1>1. \A q \in Runs \ {r} : thread'[q] = thread[q]
  BY DEF DInv, IInv, TypeOK
<1>2. ParkedAtInterrupt' /\ ActiveUnderWay'
  BY <1>1 DEF DInv, StoresSteady, ActiveUnderWay, ParkedAtInterrupt
<1> QED
  BY <1>2 DEF StoresSteady, StatusStep, StatusMap

\* A graph invocation that returns leaves its run RUNNING.
LEMMA InvokeReturnsSteady ==
    ASSUME DInv, NEW t \in Tasks, InvokeReturns(t), IInv', OnlyInbound'
    PROVE  DInv' /\ StatusStep
<1>1. PICK o \in TaskRecord :
              /\ o = task[t] /\ Sound(o) /\ o.pc = "invoke"
              /\ o.rid \in Runs /\ o.run = runs[o.rid]
              /\ session.active = o.rid /\ o.sess.active = o.rid /\ lock = t
  BY BoundFacts DEF InvokeReturns, At, Bound, Holding
<1>2. o.run.status = "running"
  BY <1>1 DEF Sound, SoundCopy, Driving
<1>3. StoresSteady' /\ StatusStep
  BY <1>1, <1>2, ThreadMoved DEF InvokeReturns
<1>4. PICK k \in TaskRecord : k = [o EXCEPT !.pc = "finalize"]
  BY DEF TaskRecord, Locations
<1>5. /\ Becomes(t, k) /\ k.pc = "finalize" /\ k.rid = o.rid /\ k.run = o.run
      /\ k.sess = o.sess
  BY <1>1, <1>4 DEF TaskRecord, InvokeReturns, GoesTo
<1>6. Steady(k)'
  BY <1>1, <1>5 DEF Steady, Starting, Bound, Holding, InvokeReturns
<1> QED
  BY <1>1, <1>3, <1>5, <1>6, SteadyStep

\* A graph invocation that raises leaves its run RUNNING, retried or not.
LEMMA InvokeRaisesSteady ==
    ASSUME DInv, NEW t \in Tasks, InvokeRaises(t), IInv', OnlyInbound'
    PROVE  DInv' /\ StatusStep
<1>1. PICK o \in TaskRecord :
              /\ o = task[t] /\ Sound(o) /\ o.pc = "invoke"
              /\ o.rid \in Runs /\ o.run = runs[o.rid]
              /\ session.active = o.rid /\ o.sess.active = o.rid /\ lock = t
  BY BoundFacts DEF InvokeRaises, At, Bound, Holding
<1>2. o.run.status = "running"
  BY <1>1 DEF Sound, SoundCopy, Driving
<1>3. UNCHANGED <<runs, session>>
  BY <1>1 DEF InvokeRaises, SavesRun, DInv, IInv, TypeOK
<1>4. StoresSteady' /\ StatusStep
  BY <1>1, <1>2, <1>3, ThreadMoved DEF InvokeRaises
<1>5. PICK l \in {"invoke", "fail_save"}, g \in Statuses \cup {"none"}, n \in 0 .. MaxAttempts - 1 :
          Becomes(t, [o EXCEPT !.pc = l, !.goal = g, !.tries = n])
  <2>1. CASE o.tries + 1 < MaxAttempts
    <3>1. o.tries + 1 \in 0 .. MaxAttempts - 1 /\ o.goal \in Statuses \cup {"none"}
      BY <2>1, BoundsAssumption DEF TaskRecord
    <3>2. [o EXCEPT !.tries = @ + 1]
              = [o EXCEPT !.pc = "invoke", !.goal = o.goal, !.tries = o.tries + 1]
      BY <1>1 DEF TaskRecord
    <3> QED
      BY <1>1, <2>1, <3>1, <3>2 DEF InvokeRaises
  <2>2. CASE ~(o.tries + 1 < MaxAttempts)
    <3>1. PICK g \in {"failed", "timed_out"} : Becomes(t, [o EXCEPT !.pc = "fail_save", !.goal = g])
      BY <1>1, <2>2 DEF InvokeRaises
    <3>2. [o EXCEPT !.pc = "fail_save", !.goal = g]
              = [o EXCEPT !.pc = "fail_save", !.goal = g, !.tries = o.tries]
      BY DEF TaskRecord
    <3>3. o.tries \in 0 .. MaxAttempts - 1 /\ g \in Statuses
      BY DEF TaskRecord, Statuses
    <3> QED
      BY <3>1, <3>2, <3>3
  <2> QED BY <2>1, <2>2
<1>6. PICK k \in TaskRecord : k = [o EXCEPT !.pc = l, !.goal = g, !.tries = n]
  BY DEF TaskRecord, Locations
<1>7. k.pc = l /\ k.rid = o.rid /\ k.run = o.run /\ k.sess = o.sess
  BY <1>6 DEF TaskRecord
<1>8. Steady(k)'
  BY <1>1, <1>3, <1>7 DEF Steady, Starting, Bound, Holding
<1> QED
  BY <1>1, <1>4, <1>5, <1>6, <1>8, SteadyStep

\* _finalize stores the prompt of a run it is about to park, and only of a parked one.
LEMMA FinalizeSteady ==
    ASSUME DInv, NEW t \in Tasks, Finalize(t), IInv', OnlyInbound'
    PROVE  DInv' /\ StatusStep
<1>1. PICK o \in TaskRecord :
              /\ o = task[t] /\ Sound(o) /\ o.pc = "finalize"
              /\ o.rid \in Runs /\ o.run = runs[o.rid] /\ o.run \in RunRecord
              /\ session.active = o.rid /\ o.sess.active = o.rid /\ lock = t
  BY BoundFacts DEF Finalize, At, Bound, Holding
<1>2. o.run.status = "running"
  BY <1>1 DEF Sound, SoundCopy, Driving
<1>3. PICK g \in {"completed", "waiting_for_input", "suspended"} :
          /\ g = Settled(thread[o.rid])
          /\ g = "waiting_for_input" => thread[o.rid] = "interrupt"
  BY DEF Settled
<1>4. PICK rec \in RunRecord :
          /\ rec = [o.run EXCEPT !.prompt = (g = "waiting_for_input")]
          /\ rec.status = "running" /\ (rec.prompt <=> g = "waiting_for_input")
  <2>1. PICK b \in BOOLEAN : b = (g = "waiting_for_input")
    OBVIOUS
  <2>2. [o.run EXCEPT !.prompt = b] \in RunRecord
    BY <1>1, PromptChanged
  <2>3. [o.run EXCEPT !.prompt = b].status = "running"
    BY <1>1, <1>2, PromptChanged
  <2>4. [o.run EXCEPT !.prompt = b].prompt = b
    BY <1>1 DEF RunRecord
  <2> QED
    BY <2>1, <2>2, <2>3, <2>4
<1>5. /\ SavesRun(o.rid, rec) /\ UNCHANGED <<session, thread>>
      /\ Becomes(t, [o EXCEPT !.pc = "transition_final", !.run = rec, !.goal = g])
  BY <1>1, <1>3, <1>4 DEF Finalize
<1>6. StoresSteady' /\ StatusStep /\ runs'[o.rid] = rec
  <2>1. "running" \in Statuses /\ IsAllowed("running", "running")
    BY DEF Statuses, IsAllowed
  <2>2. runs[o.rid].status = "running" /\ rec.status = "running"
    BY <1>1, <1>2, <1>4
  <2> QED
    BY <1>1, <1>5, <2>1, <2>2, RunMoved
<1>7. PICK k \in TaskRecord : k = [o EXCEPT !.pc = "transition_final", !.run = rec, !.goal = g]
  BY ZenonT(60) DEF TaskRecord, Locations, Statuses
<1>8. /\ k.pc = "transition_final" /\ k.rid = o.rid /\ k.sess = o.sess /\ k.run = rec
      /\ k.goal = g
  BY <1>7 DEF TaskRecord
<1>9. Steady(k)'
  BY <1>1, <1>3, <1>4, <1>6, <1>8 DEF Steady, Starting, Bound, Holding, Finalize
<1> QED
  BY <1>1, <1>5, <1>6, <1>7, <1>9, SteadyStep

\* _finalize's transition: WAITING_FOR_INPUT is stored of a parked run with its prompt.
LEMMA TransitionFinalSteady ==
    ASSUME DInv, NEW t \in Tasks, TransitionFinal(t), IInv', OnlyInbound'
    PROVE  DInv' /\ StatusStep
<1>1. PICK o \in TaskRecord :
              /\ o = task[t] /\ Sound(o) /\ Steady(o) /\ o.pc = "transition_final"
              /\ o.rid \in Runs /\ o.run = runs[o.rid] /\ o.run \in RunRecord
              /\ o.run.status \in Statuses
              /\ session.active = o.rid /\ o.sess.active = o.rid /\ lock = t
  BY BoundFacts DEF TransitionFinal, At, Bound, Holding
<1>2. o.goal \in {"completed", "waiting_for_input", "suspended"} /\ o.goal \in Statuses
  BY <1>1 DEF Sound, SoundCopy, Statuses
<1>3. PICK rec \in RunRecord : /\ rec = [o.run EXCEPT !.status = o.goal]
                               /\ rec.status = o.goal /\ rec.prompt = o.run.prompt
  <2>1. [o.run EXCEPT !.status = o.goal].prompt = o.run.prompt
    BY <1>1 DEF RunRecord
  <2> QED
    BY <1>1, <1>2, <2>1, StatusChanged
<1>4. /\ IsAllowed(o.run.status, o.goal)
      /\ SavesRun(o.rid, rec)
  BY <1>1, <1>3 DEF TransitionFinal
<1>5. StoresSteady' /\ StatusStep /\ runs'[o.rid] = rec
  <2>1. o.goal = "waiting_for_input" => o.run.prompt /\ thread[o.rid] = "interrupt"
    BY <1>1 DEF Steady
  <2> QED
    BY <1>1, <1>2, <1>3, <1>4, <2>1, RunMoved DEF TransitionFinal
<1>6. CASE o.goal = "suspended"
  BY <1>1, <1>5, <1>6, EndsSteady DEF TransitionFinal
<1>7. CASE o.goal # "suspended"
  <2>1. PICK l \in {"complete_session", "mark_waiting"} : Becomes(t, [o EXCEPT !.run = rec, !.pc = l])
    BY <1>1, <1>3, <1>7 DEF TransitionFinal
  <2>2. PICK k \in TaskRecord : k = [o EXCEPT !.run = rec, !.pc = l]
    BY DEF TaskRecord, Locations
  <2>3. k.pc = l /\ k.rid = o.rid /\ k.sess = o.sess /\ k.run = rec
    BY <2>2 DEF TaskRecord
  <2>4. Steady(k)'
    BY <1>1, <1>5, <2>3 DEF Steady, Starting, Bound, Holding, TransitionFinal
  <2> QED
    BY <1>1, <1>5, <2>1, <2>2, <2>4, SteadyStep
<1> QED BY <1>6, <1>7

\* SessionManager.complete writes the session the task read, with the run it had.
LEMMA CompleteSessionSteady ==
    ASSUME DInv, NEW t \in Tasks, CompleteSession(t), IInv', OnlyInbound'
    PROVE  DInv' /\ StatusStep
<1>1. PICK o \in TaskRecord :
              /\ o = task[t] /\ o.pc = "complete_session" /\ o.sess \in SessionRecord
              /\ session.active = o.rid /\ o.sess.active = o.rid /\ lock = t
  BY BoundFacts DEF CompleteSession, At, Bound, Holding
<1>2. session'.active = session.active
  BY <1>1 DEF CompleteSession, SessionRecord
<1>3. StoresSteady' /\ StatusStep
  BY <1>2, SessionMoved DEF CompleteSession, DInv
<1> QED
  BY <1>1, <1>3, EndsSteady DEF CompleteSession

\* mark_waiting writes the session the task read, with the run it had.
LEMMA MarkWaitingSteady ==
    ASSUME DInv, NEW t \in Tasks, MarkWaiting(t), IInv', OnlyInbound'
    PROVE  DInv' /\ StatusStep
<1>1. PICK o \in TaskRecord :
              /\ o = task[t] /\ o.pc = "mark_waiting" /\ o.sess \in SessionRecord
              /\ o.run = runs[o.rid]
              /\ session.active = o.rid /\ o.sess.active = o.rid /\ lock = t
  BY BoundFacts DEF MarkWaiting, At, Bound, Holding
<1>2. PICK s \in SessionRecord :
          /\ s = [o.sess EXCEPT !.status = "waiting", !.expires = Expiry]
          /\ s.active = o.sess.active
  <2>1. Expiry \in Times
    BY BoundsAssumption DEF Expiry, Times, DInv, IInv, TypeOK
  <2> QED
    BY <1>1, <2>1, SessionChanged
<1>3. session' = s /\ Becomes(t, [o EXCEPT !.pc = "save_expiry", !.sess = s])
  BY <1>1, <1>2 DEF MarkWaiting
<1>4. StoresSteady' /\ StatusStep
  BY <1>1, <1>2, <1>3, SessionMoved DEF MarkWaiting, DInv
<1>5. PICK k \in TaskRecord : k = [o EXCEPT !.pc = "save_expiry", !.sess = s]
  BY DEF TaskRecord, Locations
<1>6. k.pc = "save_expiry" /\ k.rid = o.rid /\ k.sess = s /\ k.run = o.run
  BY <1>5 DEF TaskRecord
<1>7. Steady(k)'
  BY <1>1, <1>2, <1>3, <1>6 DEF Steady, Starting, Bound, Holding, MarkWaiting
<1> QED
  BY <1>1, <1>3, <1>4, <1>5, <1>7, SteadyStep

\* The save of the run's expiry changes neither its status nor its prompt.
LEMMA SaveExpirySteady ==
    ASSUME DInv, NEW t \in Tasks, SaveExpiry(t), IInv', OnlyInbound'
    PROVE  DInv' /\ StatusStep
<1>1. PICK o \in TaskRecord :
              /\ o = task[t] /\ Sound(o) /\ o.pc = "save_expiry" /\ o.sess \in SessionRecord
              /\ o.rid \in Runs /\ o.run = runs[o.rid] /\ o.run \in RunRecord
              /\ session.active = o.rid /\ lock = t
  BY BoundFacts DEF SaveExpiry, At, Bound, Holding
<1>2. o.run.status = "waiting_for_input"
  BY <1>1 DEF Sound, SoundCopy
<1>3. PICK rec \in RunRecord :
          /\ rec = [o.run EXCEPT !.expires = o.sess.expires]
          /\ rec.status = "waiting_for_input" /\ rec.prompt = o.run.prompt
  <2>1. o.sess.expires \in Times
    BY <1>1 DEF SessionRecord
  <2>2. [o.run EXCEPT !.expires = o.sess.expires].prompt = o.run.prompt
    BY <1>1 DEF RunRecord
  <2> QED
    BY <1>1, <1>2, <2>1, <2>2, ExpiryChanged
<1>4. SavesRun(o.rid, rec)
  BY <1>1, <1>3 DEF SaveExpiry
<1>5. StoresSteady' /\ StatusStep
  <2>1. o.run.prompt /\ thread[o.rid] = "interrupt"
    BY <1>1, <1>2 DEF DInv, StoresSteady, ParkedAtInterrupt
  <2>2. "waiting_for_input" \in Statuses /\ IsAllowed("waiting_for_input", "waiting_for_input")
    BY DEF Statuses, IsAllowed
  <2> QED
    BY <1>1, <1>2, <1>3, <1>4, <2>1, <2>2, RunMoved DEF SaveExpiry
<1>6. CASE Ends(t)
  BY <1>1, <1>5, <1>6, EndsSteady
<1>7. CASE Becomes(t, Begun("replay", "resume_session", NoBatch))
  BY <1>1, <1>5, <1>7, BegunSteady DEF Kinds
<1> QED BY <1>6, <1>7 DEF SaveExpiry

\* _handle_failure's save writes the run as it is stored.
LEMMA FailSaveSteady ==
    ASSUME DInv, NEW t \in Tasks, FailSave(t), IInv', OnlyInbound'
    PROVE  DInv' /\ StatusStep
<1>1. PICK o \in TaskRecord :
              /\ o = task[t] /\ o.pc = "fail_save" /\ o.rid \in Runs /\ o.run = runs[o.rid]
              /\ session.active = o.rid /\ o.sess.active = o.rid /\ lock = t
  BY BoundFacts DEF FailSave, At, Bound, Holding
<1>2. UNCHANGED <<runs, session, thread>>
  BY <1>1 DEF FailSave, SavesRun, DInv, IInv, TypeOK
<1>3. StoresSteady' /\ StatusStep
  BY <1>2, NothingMoved DEF DInv
<1>4. PICK k \in TaskRecord : k = [o EXCEPT !.pc = "transition_fail"]
  BY DEF TaskRecord, Locations
<1>5. /\ Becomes(t, k) /\ k.pc = "transition_fail" /\ k.rid = o.rid /\ k.run = o.run
      /\ k.sess = o.sess
  BY <1>1, <1>4 DEF TaskRecord, FailSave, GoesTo
<1>6. Steady(k)'
  BY <1>1, <1>2, <1>5 DEF Steady, Starting, Bound, Holding
<1> QED
  BY <1>1, <1>3, <1>5, <1>6, SteadyStep

\* _handle_failure's transition is along the table and parks nothing.
LEMMA TransitionFailSteady ==
    ASSUME DInv, NEW t \in Tasks, TransitionFail(t), IInv', OnlyInbound'
    PROVE  DInv' /\ StatusStep
<1>1. PICK o \in TaskRecord :
              /\ o = task[t] /\ Sound(o) /\ o.pc = "transition_fail"
              /\ o.rid \in Runs /\ o.run = runs[o.rid] /\ o.run \in RunRecord
              /\ o.run.status \in Statuses /\ session.active = o.rid
  BY BoundFacts DEF TransitionFail, At, Bound, Holding
<1>2. o.goal \in {"failed", "timed_out"} /\ o.goal \in Statuses
  BY <1>1 DEF Sound, SoundCopy, Statuses
<1>3. PICK rec \in RunRecord : rec = [o.run EXCEPT !.status = o.goal] /\ rec.status = o.goal
  BY <1>1, <1>2, StatusChanged
<1>4. IsAllowed(o.run.status, o.goal) /\ SavesRun(o.rid, rec)
  BY <1>1, <1>3 DEF TransitionFail
<1>5. StoresSteady' /\ StatusStep
  BY <1>1, <1>2, <1>3, <1>4, RunMoved DEF TransitionFail
<1> QED
  BY <1>1, <1>5, EndsSteady DEF TransitionFail

-----------------------------------------------------------------------------
(* The dispatcher's own steps, crashes and the clock *)

\* An inbound that takes the lock starts a run only when the session has none.
LEMMA InboundSteady ==
    ASSUME DInv, NEW t \in Web, Inbound(t), IInv', OnlyInbound'
    PROVE  DInv' /\ StatusStep
<1>1. t \in Tasks /\ lock = NoTask /\ UNCHANGED <<runs, session, thread>>
  BY DEF Tasks, Inbound, LockFree
<1>2. StoresSteady' /\ StatusStep /\ (NoneUnderWay => NoneUnderWay')
  BY <1>1, NothingMoved DEF DInv
<1>3. CASE session.active = NoRun
  <2>1. NoneUnderWay
    BY <1>3, NoneAssumption DEF DInv, StoresSteady, ActiveUnderWay, NoneUnderWay
  <2>2. Becomes(t, Begun("first", "resolve", NoBatch))
    BY <1>3 DEF Inbound
  <2> QED
    BY <1>1, <1>2, <2>1, <2>2, BegunSteady DEF Kinds
<1>4. CASE session.active # NoRun
  <2>1. PICK r \in Runs : r = session.active
    BY <1>4 DEF DInv, IInv, TypeOK, SessionRecord
  <2>2. PICK b \in TaskRecord : b = Begun("inbound", "inbound_run", NoBatch)
    BY BegunType, NoBatchType DEF Kinds, WebOps, Locations
  <2>3. PICK k \in TaskRecord : k = [b EXCEPT !.rid = r]
    BY DEF TaskRecord
  <2>4. k.pc = "inbound_run" /\ k.rid = r
    BY <2>2, <2>3 DEF TaskRecord, Begun
  <2>5. Becomes(t, k)
    BY <1>4, <2>1, <2>2, <2>3 DEF Inbound
  <2>6. Steady(k)'
    BY <1>1, <2>1, <2>4 DEF Steady, Starting, Bound, Holding
  <2> QED
    BY <1>1, <1>2, <2>5, <2>6, SteadyStep
<1> QED BY <1>3, <1>4

\* The dispatcher's look at the session's run: it starts afresh only when that run
\* is over for good.
LEMMA InboundRunSteady ==
    ASSUME DInv, NEW t \in Web, InboundRun(t), IInv', OnlyInbound'
    PROVE  DInv' /\ StatusStep
<1>1. PICK o \in TaskRecord : o = task[t] /\ Sound(o) /\ Backed(o) /\ Steady(o)
  BY SteadyFacts DEF Tasks
<1>2. /\ t \in Tasks /\ o.pc = "inbound_run" /\ lock = t /\ o.rid \in Runs
      /\ session.active = o.rid /\ UNCHANGED <<runs, session, thread>>
  BY <1>1, BusyHoldsLock DEF Tasks, InboundRun, At, DInv, Steady, Sound, SoundCopy
<1>3. StoresSteady' /\ StatusStep /\ (NoneUnderWay => NoneUnderWay')
  BY <1>2, NothingMoved DEF DInv
<1>4. PICK rec \in RunRecord : rec = runs[o.rid] /\ rec.status \in Statuses
  <2>1. runs[o.rid] \in RunRecord
    BY <1>2 DEF DInv, IInv, TypeOK
  <2>2. runs[o.rid].status # "absent"
    BY <1>1, <1>2, NoneAssumption DEF Backed, Stored
  <2> QED
    BY <2>1, <2>2 DEF RunRecord
<1>5. CASE rec.status \in Statuses \ Terminal
  <2>1. Becomes(t, Begun("inbound", "resume_session", NoBatch))
    BY <1>1, <1>4, <1>5 DEF InboundRun
  <2> QED
    BY <1>2, <1>3, <2>1, BegunSteady DEF Kinds, WebOps
<1>6. CASE rec.status \in Terminal \cap Revivable
  <2>1. Becomes(t, [o EXCEPT !.kind = "revived", !.pc = "revive", !.run = rec])
    BY <1>1, <1>4, <1>6 DEF InboundRun
  <2>2. PICK k \in TaskRecord : k = [o EXCEPT !.kind = "revived", !.pc = "revive", !.run = rec]
    BY DEF TaskRecord, Locations, Kinds
  <2>3. k.pc = "revive" /\ k.rid = o.rid /\ k.run = rec
    BY <2>2 DEF TaskRecord
  <2>4. Steady(k)'
    BY <1>2, <1>4, <2>3 DEF Steady, Starting, Bound, Holding
  <2> QED
    BY <1>2, <1>3, <2>1, <2>2, <2>4, SteadyStep
<1>7. CASE rec.status \in Terminal \ Revivable
  <2>1. NoneUnderWay
    BY <1>2, <1>4, <1>7
       DEF DInv, StoresSteady, ActiveUnderWay, NoneUnderWay, UnderWay, Terminal
  <2>2. Becomes(t, Begun("first", "resolve", NoBatch))
    BY <1>1, <1>4, <1>7 DEF InboundRun
  <2> QED
    BY <1>2, <1>3, <2>1, <2>2, BegunSteady DEF Kinds
<1> QED BY <1>4, <1>5, <1>6, <1>7

\* A crash takes the dispatcher's task; what is stored stays steady.
LEMMA CrashWebSteady ==
    ASSUME DInv, CrashWeb, IInv', OnlyInbound'
    PROVE  DInv' /\ StatusStep
<1>1. StoresSteady' /\ StatusStep
  BY NothingMoved DEF CrashWeb, DInv
<1>2. ASSUME NEW t \in Tasks PROVE Steady(task[t])'
  <2>1. task'[t].pc = "idle"
    <3>1. CASE t \in Web
      BY <3>1 DEF CrashWeb, Idle, Begun
    <3>2. CASE t \notin Web
      BY <3>2, BusyHoldsLock DEF CrashWeb, DInv
    <3> QED BY <3>1, <3>2
  <2> QED
    BY <2>1 DEF Steady, Starting, Bound, Holding
<1> QED
  BY <1>1, <1>2 DEF DInv

\* Neither the clock nor a stuttering step touches runs, session, threads or tasks.
LEMMA TickSteady ==
    ASSUME DInv, Tick \/ UNCHANGED vars, IInv', OnlyInbound'
    PROVE  DInv' /\ StatusStep
<1>1. UNCHANGED <<runs, session, thread, task>>
  BY DEF Tick, vars
<1>2. StoresSteady' /\ StatusStep
  BY <1>1, NothingMoved DEF DInv
<1>3. \A t \in Tasks : Steady(task[t])'
  BY <1>1 DEF DInv, Steady, NoneUnderWay
<1> QED
  BY <1>2, <1>3 DEF DInv

-----------------------------------------------------------------------------
(* The dispatcher's invariant *)

\* The dispatcher's invariant holds initially.
LEMMA InitSteady == Init => DInv
<1> SUFFICES ASSUME Init PROVE DInv
  OBVIOUS
<1>1. OnlyInbound /\ \A t \in Tasks : task[t].pc = "idle"
  BY DEF Init, OnlyInbound, Idle, Begun
<1>2. StoresSteady
  BY DEF Init, StoresSteady, ActiveUnderWay, ParkedAtInterrupt, UnderWay, Absent
<1>3. \A t \in Tasks : Steady(task[t])
  BY <1>1 DEF Steady, Starting, Bound, Holding
<1> QED
  BY <1>1, <1>2, <1>3, InitInv DEF DInv

\* Every step of a deployment of the dispatcher alone preserves it, and is a step of
\* the abstract specification or invisible to it.
LEMMA NextSteady ==
    ASSUME Ops \subseteq {"inbound"}, DInv, [Next]_vars
    PROVE  DInv' /\ StatusStep
<1>1. IInv' /\ OnlyInbound'
  BY NextInv, OnlyInboundNext DEF DInv
<1>2. ASSUME NEW t \in Web, Requests(t) PROVE Inbound(t)
  BY <1>2 DEF Requests, BackendEvent, Campaign, Arrives
<1>3. ASSUME NEW t \in Tasks, task[t].pc = "idle"
      PROVE  ~(WebStep(t) \/ WorkerStep(t) \/ CrashWorker(t))
  BY <1>3 DEF WebStep, InboundRun, Revive, CancelList, CancelSave, Start, Resolve, OpenSession,
     CreateRun, BindRun, TransitionStart, WorkerStep, CrashWorker, RecoverNext,
     TransitionRecover, SweepNext, SweepSession, SweepExpire, PollNext, PollCancel,
     Resume, ResumeSession, ResumeRun, TransitionResume, MarkActive,
     Drive, InvokeReturns, InvokeRaises, Finalize, TransitionFinal, CompleteSession,
     MarkWaiting, SaveExpiry, FailSave, TransitionFail, At
<1>4. ASSUME NEW t \in Web, Start(t) \/ Resume(t) \/ Drive(t) \/ Revive(t)
      PROVE  DInv' /\ StatusStep
  <2>1. t \in Tasks
    BY DEF Tasks
  <2>2. CASE Start(t)
    BY <1>1, <2>1, <2>2, ResolveSteady, OpenSessionSteady, CreateRunSteady, BindRunSteady,
       ToRunningSteady DEF Start
  <2>3. CASE Resume(t)
    BY <1>1, <2>1, <2>3, ResumeSessionSteady, ResumeRunSteady, MarkActiveSteady,
       ToRunningSteady DEF Resume
  <2>4. CASE Drive(t)
    BY <1>1, <2>1, <2>4, InvokeReturnsSteady, InvokeRaisesSteady, FinalizeSteady,
       TransitionFinalSteady, CompleteSessionSteady, MarkWaitingSteady, SaveExpirySteady,
       FailSaveSteady, TransitionFailSteady DEF Drive
  <2>5. CASE Revive(t)
    BY <1>1, <2>1, <2>5, ToRunningSteady
  <2> QED BY <1>4, <2>2, <2>3, <2>4, <2>5
<1>5. ASSUME NEW t \in Web, WebStep(t) PROVE DInv' /\ StatusStep
  <2>1. Steady(task[t])
    BY DEF DInv, Tasks
  <2>2. ~CancelList(t) /\ ~CancelSave(t)
    BY <2>1 DEF CancelList, CancelSave, At, Steady, Starting, Bound
  <2> QED
    BY <1>1, <1>4, <1>5, <2>2, InboundRunSteady DEF WebStep
<1>6. ASSUME NEW t \in Workers,
             RecoverList(t) \/ SweepList(t) \/ PollList(t) \/ WorkerStep(t) \/ CrashWorker(t)
      PROVE  FALSE
  <2>1. t \in Tasks /\ t \notin Web
    BY TasksAssumption DEF Tasks
  <2>2. task[t].pc = "idle"
    BY <2>1, BusyHoldsLock DEF DInv
  <2>3. ~(RecoverList(t) \/ SweepList(t) \/ PollList(t))
    BY DEF RecoverList, SweepList, PollList, Beat
  <2> QED
    BY <1>3, <1>6, <2>1, <2>2, <2>3
<1> QED
  BY <1>1, <1>2, <1>5, <1>6, InboundSteady, CrashWebSteady, TickSteady DEF Next

\* It holds in every behaviour of such a deployment.
LEMMA DispatcherInvariance ==
    ASSUME Ops \subseteq {"inbound"}
    PROVE  Spec => []DInv
<1>1. DInv /\ [Next]_vars => DInv'
  BY NextSteady
<1> QED
  BY <1>1, InitSteady, PTL DEF Spec

\* With the inbound dispatcher alone, whatever crashes, a run stored as waiting is
\* parked at an interrupt with its prompt.
THEOREM ParkedCorrect ==
    ASSUME Ops \subseteq {"inbound"}
    PROVE  Spec => []ParkedAtInterrupt
<1>1. DInv => ParkedAtInterrupt
  BY DEF DInv, StoresSteady
<1> QED
  BY <1>1, DispatcherInvariance, PTL

\* With the inbound dispatcher alone, whatever crashes, at most one run is under way.
THEOREM OneUnderWayCorrect ==
    ASSUME Ops \subseteq {"inbound"}
    PROVE  Spec => []OneUnderWay
<1>1. DInv => OneUnderWay
  BY DEF DInv, StoresSteady, ActiveUnderWay, OneUnderWay, UnderWay, WithStatus
<1> QED
  BY <1>1, DispatcherInvariance, PTL

\* With the inbound dispatcher alone, whatever crashes, the stored statuses implement
\* the abstract specification of the table.
THEOREM StatusRefinement ==
    ASSUME Ops \subseteq {"inbound"}
    PROVE  Spec => ImplementsRunStatus
<1>1. Init => Status!Init
  BY DEF Init, Absent, Status!Init
<1>2. DInv /\ [Next]_vars => [Status!Next]_StatusMap
  BY NextSteady DEF StatusStep
<1> QED
  BY <1>1, <1>2, DispatcherInvariance, PTL DEF Spec, ImplementsRunStatus, Status!Spec, StatusMap

=============================================================================
