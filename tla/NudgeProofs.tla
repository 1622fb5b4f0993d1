---------------------------- MODULE NudgeProofs ----------------------------
(***************************************************************************)
(* Proofs about Nudge, for any sets of sequences, reminders and requests,  *)
(* any schedule, and run_due ticks that do not overlap.                    *)
(*                                                                         *)
(* A sequence has one token at most: a reminder that is live (pending in   *)
(* the store, or in the hands of the tick), or a task about to schedule    *)
(* the next one.  Dispatches are counted by where the token stands: no     *)
(* step beyond it was sent, and its own only as often as ticks died on it. *)
(***************************************************************************)
EXTENDS Nudge, TLAPS

\* Locations at which a tick works on its copy of reminder rem.
HeldAt == {"suppress_rem", "dispatch", "save_sent", "save_retry", "save_failed"}

WebAt  == {"idle", "create_seq", "schedule", "save_seq", "next_stop", "save_stop",
           "list_pending", "save_pending"}
TickAt == HeldAt \cup {"idle", "next_due", "schedule", "save_seq", "escalate",
                       "list_pending", "save_pending"}

\* c is a copy of reminder r: its sequence and its step never change.
CopyOf(c, r) == c \in Reminder /\ c.seq = rems[r].seq /\ c.step = rems[r].step

\* An attempt is left.
Fresh(c) == c.attempts < MaxAttempts

\* The reminder a tick works on.
Held(k) ==
    /\ k.rem \in Rems
    /\ k.batch[k.rem] = NoCopy
    /\ CopyOf(k.copy, k.rem)
    /\ k.seq = k.copy.seq
    /\ k.pc \in {"suppress_rem", "dispatch", "save_retry"} => Fresh(k.copy)

\* What a task record says by its location, and relies on in the stores.
Sound(k) ==
    /\ k.pc \in HeldAt => Held(k)
    /\ k.pc \in {"escalate", "schedule", "save_seq", "save_stop", "list_pending",
                 "save_pending"} => k.seq \in Seqs
    /\ k.pc \in HeldAt \cup {"escalate", "schedule", "save_seq"} => k.status # "absent"
    /\ k.pc \in {"next_stop", "save_stop", "list_pending", "save_pending"} => k.goal # "none"
    /\ k.todo # {} => k.goal # "none"
    /\ k.seq \in Seqs => seqs[k.seq] # "absent"
    /\ \A s \in k.todo : seqs[s] # "absent"
    /\ \A r \in Rems : k.batch[r] # NoCopy => CopyOf(k.batch[r], r) /\ Fresh(k.batch[r])
    /\ \A r \in Rems : k.pend[r] # NoCopy => CopyOf(k.pend[r], r)

\* Requests have no due reminders in hand, ticks no sequences to stop.
Housed(t, k) ==
    /\ t \in Web => k.pc \in WebAt /\ k.batch = Nothing
    /\ t \in Runners => k.pc \in TickAt /\ k.todo = {}

Pends(r) == rems[r].status \in REMINDER_DUE_STATUSES

\* What a stored reminder says: its sequence exists, and a pending one has an
\* attempt left.
Kept(r) == rems[r] # NoCopy =>
    /\ seqs[rems[r].seq] # "absent"
    /\ rems[r].step < Steps
    /\ Pends(r) => Fresh(rems[r])

\* The tokens of a sequence.
Carries(k, r)   == k.batch[r] # NoCopy \/ (k.pc \in HeldAt /\ k.rem = r)
Live(r)         == Pends(r) \/ \E t \in Runners : Carries(task[t], r)
Schedules(k, s) == k.pc = "schedule" /\ k.seq = s

OneToken ==
    /\ \A q, r \in Rems : Live(q) /\ Live(r) /\ rems[q].seq = rems[r].seq => q = r
    /\ \A t \in Tasks, r \in Rems : Live(r) => ~Schedules(task[t], rems[r].seq)
    /\ \A t, u \in Tasks, s \in Seqs :
          Schedules(task[t], s) /\ Schedules(task[u], s) => t = u

\* What was sent of sequence s lies before its token.
Saving(r)       == \E t \in Runners : At(t, "save_sent") /\ task[t].rem = r
Unsent(s, from) == \A n \in 0 .. Steps : n >= from => sent[s][n] = 0

SentBehind ==
    /\ \A s \in Seqs : seqs[s] = "absent" => Unsent(s, 0)
    /\ \A r \in Rems : Live(r) =>
          /\ Unsent(rems[r].seq, rems[r].step + 1)
          /\ ~Saving(r) => sent[rems[r].seq][rems[r].step] <= crashes
    /\ \A t \in Tasks : At(t, "schedule") => Unsent(task[t].seq, task[t].step)

Tokens == OneToken /\ SentBehind /\ StepSentOnce

IInv ==
    /\ TypeOK
    /\ \A t \in Tasks : Sound(task[t]) /\ Housed(t, task[t])
    /\ \A r \in Rems : Kept(r)
    /\ Tokens

-----------------------------------------------------------------------------
(* One step of one task *)

\* Nothing is ever deleted, and a reminder stays one of its sequence and step.
Grows ==
    /\ \A s \in Seqs : seqs[s] # "absent" => seqs'[s] # "absent"
    /\ \A r \in Rems : rems[r] # NoCopy => rems'[r].seq = rems[r].seq
                                           /\ rems'[r].step = rems[r].step

\* The stores after a step are what the invariant asks of them.
StoresFine ==
    /\ seqs' \in [Seqs -> SeqStatuses \cup {"absent"}]
    /\ rems' \in Copies
    /\ ripe' \in SUBSET Rems
    /\ sent' \in [Seqs -> [0 .. Steps -> Nat]]
    /\ requests' \in 0 .. MaxRequests
    /\ crashes' \in 0 .. MaxCrashes
    /\ Grows
    /\ \A r \in Rems : Kept(r)'

\* What the invariant says of one task.
LEMMA TaskFacts ==
    ASSUME IInv, NEW t \in Tasks
    PROVE  \E o \in TaskRecord : o = task[t] /\ Sound(o) /\ Housed(t, o)
BY DEF IInv, TypeOK

\* No reminder is a member of no sequence.
LEMMA CopyStored ==
    ASSUME IInv, NEW r \in Rems, NEW c, CopyOf(c, r)
    PROVE  rems[r] # NoCopy /\ rems[r] \in Reminder
BY NoneAssumption DEF IInv, TypeOK, Copies, CopyOf, Reminder, NoCopy

\* A copy of a reminder stays one when the stores grow.
LEMMA StillCopy ==
    ASSUME IInv, Grows, NEW r \in Rems, NEW c, CopyOf(c, r)
    PROVE  CopyOf(c, r)'
BY CopyStored DEF CopyOf, Grows

\* A sound record stays sound when they do.
LEMMA StillSound ==
    ASSUME IInv, Grows, NEW o \in TaskRecord, Sound(o)
    PROVE  Sound(o)'
<1>1. o.pc \in HeldAt => Held(o)'
  BY StillCopy DEF Sound, Held
<1>2. /\ o.seq \in Seqs => seqs'[o.seq] # "absent"
      /\ \A s \in o.todo : seqs'[s] # "absent"
  BY DEF Sound, Grows, TaskRecord
<1>3. \A r \in Rems : /\ o.batch[r] # NoCopy => CopyOf(o.batch[r], r)' /\ Fresh(o.batch[r])
                      /\ o.pend[r] # NoCopy => CopyOf(o.pend[r], r)'
  BY StillCopy DEF Sound
<1> QED
  BY <1>1, <1>2, <1>3 DEF Sound

\* A step of one task preserves the invariant if the stores it leaves are fine, its
\* next record is sound, and the tokens are in order.
LEMMA TaskStep ==
    ASSUME IInv, NEW t \in Tasks, NEW k \in TaskRecord, Becomes(t, k),
           StoresFine, Sound(k)', Housed(t, k), Tokens'
    PROVE  IInv'
<1>1. /\ task' \in [Tasks -> TaskRecord]
      /\ task'[t] = k
      /\ \A u \in Tasks \ {t} : task'[u] = task[u]
  BY DEF IInv, TypeOK, Becomes
<1>2. ASSUME NEW u \in Tasks PROVE Sound(task[u])' /\ Housed(u, task'[u])
  <2>1. CASE u = t
    BY <1>1, <2>1 DEF Sound
  <2>2. CASE u # t
    <3>1. PICK o \in TaskRecord : o = task[u] /\ Sound(o) /\ Housed(u, o)
      BY TaskFacts
    <3>2. Sound(o)' /\ task'[u] = o
      BY <1>1, <2>2, <3>1, StillSound DEF StoresFine
    <3> QED
      BY <3>1, <3>2 DEF Sound
  <2> QED BY <2>1, <2>2
<1>3. TypeOK'
  BY <1>1 DEF TypeOK, StoresFine
<1> QED
  BY <1>2, <1>3 DEF IInv, StoresFine, Housed

\* A live reminder is stored, and its sequence exists.
LEMMA LiveStored ==
    ASSUME IInv, NEW r \in Rems, Live(r)
    PROVE  rems[r] # NoCopy /\ rems[r] \in Reminder
<1>1. CASE Pends(r)
  BY <1>1 DEF Pends, IInv, TypeOK, Copies, NoCopy, REMINDER_DUE_STATUSES
<1>2. ASSUME NEW t \in Runners, Carries(task[t], r)
      PROVE  rems[r] # NoCopy /\ rems[r] \in Reminder
  <2>1. PICK o \in TaskRecord : o = task[t] /\ Sound(o)
    BY TaskFacts DEF Tasks
  <2>2. \E c : CopyOf(c, r)
    BY <1>2, <2>1 DEF Carries, Sound, Held
  <2> QED
    BY <2>2, CopyStored
<1> QED BY <1>1, <1>2 DEF Live

\* Dispatches and crashes are counted.
LEMMA SentNat ==
    ASSUME IInv, NEW s \in Seqs, NEW n \in 0 .. Steps
    PROVE  sent[s][n] \in Nat /\ crashes \in Nat
<1>1. sent[s] \in [0 .. Steps -> Nat]
  BY DEF IInv, TypeOK
<1>2. crashes \in Nat
  BY BoundsAssumption DEF IInv, TypeOK
<1> QED
  BY <1>1, <1>2

\* The tokens stay in order when a step makes no reminder live, sets nobody to
\* schedule and sends nothing; a dispatch is forgotten only by a crash.
LEMMA TokensKept ==
    ASSUME IInv, Grows, sent' = sent, crashes' \in Nat, crashes' >= crashes,
           \A r \in Rems : Live(r)' => Live(r),
           \A u \in Tasks : At(u, "schedule")' => /\ At(u, "schedule")
                                                  /\ task'[u].seq = task[u].seq
                                                  /\ task'[u].step = task[u].step,
           \A r \in Rems : Live(r)' /\ Saving(r) /\ ~Saving(r)' => crashes' = crashes + 1
    PROVE  Tokens'
<1>1. \A r \in Rems : Live(r)' => /\ Live(r)
                                  /\ rems'[r].seq = rems[r].seq
                                  /\ rems'[r].step = rems[r].step
  BY LiveStored DEF Grows
<1>2. OneToken'
  <2>1. \A u \in Tasks : \A s : Schedules(task[u], s)' => Schedules(task[u], s)
    BY DEF Schedules, At
  <2>2. ASSUME NEW q \in Rems, NEW r \in Rems, Live(q)', Live(r)', rems'[q].seq = rems'[r].seq
        PROVE  q = r
    BY <1>1, <2>2 DEF IInv, Tokens, OneToken
  <2>3. ASSUME NEW u \in Tasks, NEW r \in Rems, Live(r)' PROVE ~Schedules(task[u], rems[r].seq)'
    BY <1>1, <2>1, <2>3 DEF IInv, Tokens, OneToken
  <2>4. ASSUME NEW u \in Tasks, NEW v \in Tasks, NEW s \in Seqs,
               Schedules(task[u], s)', Schedules(task[v], s)'
        PROVE  u = v
    BY <2>1, <2>4 DEF IInv, Tokens, OneToken
  <2> QED
    BY <2>2, <2>3, <2>4 DEF OneToken
<1>3. SentBehind'
  <2>1. ASSUME NEW s \in Seqs, seqs'[s] = "absent" PROVE Unsent(s, 0)'
    BY <2>1 DEF Grows, IInv, Tokens, SentBehind, Unsent
  <2>2. ASSUME NEW r \in Rems, Live(r)'
        PROVE  /\ Unsent(rems[r].seq, rems[r].step + 1)'
               /\ ~Saving(r)' => sent'[rems'[r].seq][rems'[r].step] <= crashes'
    <3>1. /\ Unsent(rems[r].seq, rems[r].step + 1)
          /\ ~Saving(r) => sent[rems[r].seq][rems[r].step] <= crashes
          /\ rems[r].seq \in Seqs /\ rems[r].step \in 0 .. Steps
      BY <1>1, <2>2, LiveStored DEF IInv, Tokens, SentBehind, Reminder
    <3>2. /\ sent[rems[r].seq][rems[r].step] \in Nat /\ crashes \in Nat
          /\ sent[rems[r].seq][rems[r].step] <= 1 + crashes
      BY <3>1, SentNat DEF IInv, Tokens, StepSentOnce
    <3>3. ~Saving(r)' => sent[rems[r].seq][rems[r].step] <= crashes'
      BY <2>2, <3>1, <3>2
    <3> QED
      BY <1>1, <2>2, <3>1, <3>3 DEF Unsent
  <2>3. ASSUME NEW u \in Tasks, At(u, "schedule")' PROVE Unsent(task[u].seq, task[u].step)'
    BY <2>3 DEF IInv, Tokens, SentBehind, Unsent
  <2> QED
    BY <2>1, <2>2, <2>3 DEF SentBehind
<1>4. StepSentOnce'
  <2> SUFFICES ASSUME NEW s \in Seqs, NEW n \in 0 .. Steps
               PROVE  sent[s][n] <= 1 + crashes'
    BY DEF StepSentOnce
  <2>1. sent[s][n] \in Nat /\ crashes \in Nat /\ sent[s][n] <= 1 + crashes
    BY SentNat DEF IInv, Tokens, StepSentOnce
  <2> QED
    BY <2>1
<1> QED
  BY <1>2, <1>3, <1>4 DEF Tokens

-----------------------------------------------------------------------------
(* What one store operation leaves *)

\* A step that writes no store leaves them fine.
LEMMA NothingSaved ==
    ASSUME IInv, UNCHANGED <<seqs, rems, ripe, sent, crashes>>,
           requests' \in 0 .. MaxRequests
    PROVE  StoresFine
BY DEF IInv, TypeOK, StoresFine, Grows, Kept, Pends

\* A save of a sequence leaves them fine.
LEMMA SequenceSaved ==
    ASSUME IInv, NEW s \in Seqs, NEW st \in SeqStatuses, seqs' = [seqs EXCEPT ![s] = st],
           UNCHANGED <<rems, ripe, sent, requests, crashes>>
    PROVE  StoresFine /\ seqs'[s] = st /\ \A q \in Seqs \ {s} : seqs'[q] = seqs[q]
<1>1. st # "absent"
  BY DEF SeqStatuses, SEQUENCE_TERMINAL
<1>2. /\ seqs' \in [Seqs -> SeqStatuses \cup {"absent"}]
      /\ seqs'[s] = st
      /\ \A q \in Seqs \ {s} : seqs'[q] = seqs[q]
  BY DEF IInv, TypeOK
<1>3. Grows
  BY <1>1, <1>2 DEF Grows
<1>4. ASSUME NEW r \in Rems PROVE Kept(r)'
  <2>1. rems[r] # NoCopy => rems[r].seq \in Seqs
    BY DEF IInv, TypeOK, Copies, Reminder
  <2> QED
    BY <1>3, <2>1 DEF Grows, IInv, Kept, Pends
<1> QED
  BY <1>2, <1>3, <1>4 DEF IInv, TypeOK, StoresFine

\* A save of a reminder leaves them fine when it keeps its sequence and step, and an
\* attempt for a pending one.
LEMMA ReminderSaved ==
    ASSUME IInv, NEW r \in Rems, NEW rec \in Reminder, rems' = [rems EXCEPT ![r] = rec],
           rems[r] # NoCopy => rec.seq = rems[r].seq /\ rec.step = rems[r].step,
           rec.step < Steps, seqs[rec.seq] # "absent",
           rec.status \in REMINDER_DUE_STATUSES => Fresh(rec),
           ripe' \in SUBSET Rems, UNCHANGED <<seqs, sent, requests, crashes>>
    PROVE  /\ StoresFine
           /\ rems'[r] = rec
           /\ \A q \in Rems \ {r} : rems'[q] = rems[q]
<1>1. /\ rems' \in Copies
      /\ rems'[r] = rec
      /\ \A q \in Rems \ {r} : rems'[q] = rems[q]
  BY DEF IInv, TypeOK, Copies
<1>2. Grows
  BY <1>1 DEF Grows
<1>3. ASSUME NEW q \in Rems PROVE Kept(q)'
  <2>1. CASE q = r
    BY <1>1, <2>1 DEF Kept, Pends, Fresh
  <2>2. CASE q # r
    BY <1>1, <2>2 DEF IInv, Kept, Pends, Fresh
  <2> QED BY <2>1, <2>2
<1> QED
  BY <1>1, <1>2, <1>3 DEF IInv, TypeOK, StoresFine

\* The reminder a tick holds, and what a save of it with another status is.
LEMMA HeldFacts ==
    ASSUME IInv, NEW r \in Rems, NEW c, CopyOf(c, r), NEW st \in RemStatuses
    PROVE  /\ rems[r] # NoCopy /\ Kept(r)
           /\ c.seq \in Seqs /\ c.step \in 0 .. Steps /\ c.step < Steps
           /\ seqs[c.seq] # "absent"
           /\ [c EXCEPT !.status = st] \in Reminder
           /\ [c EXCEPT !.status = st].status = st
           /\ [c EXCEPT !.status = st].seq = rems[r].seq
           /\ [c EXCEPT !.status = st].step = rems[r].step
           /\ [c EXCEPT !.status = st].attempts = c.attempts
<1>1. rems[r] # NoCopy /\ Kept(r)
  BY CopyStored DEF IInv
<1>2. c \in Reminder /\ c.seq = rems[r].seq /\ c.step = rems[r].step
  BY DEF CopyOf
<1>3. /\ [c EXCEPT !.status = st] \in Reminder
      /\ [c EXCEPT !.status = st].status = st
      /\ [c EXCEPT !.status = st].seq = c.seq
      /\ [c EXCEPT !.status = st].step = c.step
      /\ [c EXCEPT !.status = st].attempts = c.attempts
  BY <1>2 DEF Reminder
<1>4. c.seq \in Seqs /\ c.step \in 0 .. Steps
  BY <1>2 DEF Reminder
<1> QED
  BY <1>1, <1>2, <1>3, <1>4 DEF Kept

-----------------------------------------------------------------------------
(* Common ways for a task to go on *)

\* The records of a task that begins a piece of work.
LEMMA BegunType ==
    ASSUME NEW l \in {"idle", "create_seq", "next_due", "next_stop"},
           NEW b \in Copies, NEW S \in SUBSET Seqs,
           NEW g \in {"none", "suppressed", "cancelled"}
    PROVE  \E k \in TaskRecord :
              /\ k = Begun(l, b, S, g)
              /\ k.pc = l /\ k.batch = b /\ k.todo = S /\ k.goal = g
              /\ k.seq = NoSeq /\ k.pend = Nothing
<1>1. Nothing \in Copies
  BY DEF Nothing, Copies
<1>2. 0 \in 0 .. Steps
  BY StepsAssumption
<1>3. Begun(l, b, S, g) \in TaskRecord
  BY <1>1, <1>2 DEF Begun, TaskRecord
<1>4. /\ Begun(l, b, S, g).pc = l /\ Begun(l, b, S, g).batch = b
      /\ Begun(l, b, S, g).todo = S /\ Begun(l, b, S, g).goal = g
      /\ Begun(l, b, S, g).seq = NoSeq /\ Begun(l, b, S, g).pend = Nothing
  BY DEF Begun
<1> QED
  BY <1>3, <1>4

\* A step that makes no reminder live, schedules nothing and sends nothing.
LEMMA PlainStep ==
    ASSUME IInv, NEW t \in Tasks, NEW k \in TaskRecord, Becomes(t, k),
           StoresFine, Sound(k)', Housed(t, k), sent' = sent, crashes' = crashes,
           k.pc # "schedule", task[t].pc # "save_sent",
           \A r \in Rems : Pends(r)' => Live(r),
           t \in Runners => \A r \in Rems : Carries(k, r) => Live(r)
    PROVE  IInv'
<1>1. crashes' \in Nat /\ crashes' >= crashes
  BY BoundsAssumption DEF IInv, TypeOK
<1>2. /\ task'[t] = k
      /\ \A u \in Tasks \ {t} : task'[u] = task[u]
  BY DEF IInv, TypeOK, Becomes
<1>3. \A r \in Rems : Live(r)' => Live(r)
  <2> SUFFICES ASSUME NEW r \in Rems, NEW u \in Runners, Carries(task'[u], r)
               PROVE  Live(r)
    BY DEF Live, Carries
  <2> QED
    BY <1>2 DEF Live, Tasks
<1>4. \A u \in Tasks : At(u, "schedule")' => At(u, "schedule") /\ task'[u] = task[u]
  BY <1>2 DEF At
<1>5. \A r \in Rems : Saving(r) => Saving(r)'
  BY <1>2 DEF Saving, At, Tasks
<1>6. Tokens'
  BY <1>1, <1>3, <1>4, <1>5, TokensKept DEF StoresFine
<1> QED
  BY <1>6, TaskStep

\* A task begins a piece of work with reminders listed that are live, and sequences
\* to stop that exist.
LEMMA BegunStep ==
    ASSUME IInv, NEW t \in Tasks, NEW l \in {"idle", "create_seq", "next_due", "next_stop"},
           NEW b \in Copies, NEW S \in SUBSET Seqs,
           NEW g \in {"none", "suppressed", "cancelled"},
           Becomes(t, Begun(l, b, S, g)), StoresFine, UNCHANGED <<sent, crashes>>,
           task[t].pc # "save_sent",
           \A r \in Rems : Pends(r)' => Live(r),
           \A r \in Rems : b[r] # NoCopy => Live(r) /\ CopyOf(b[r], r)' /\ Fresh(b[r]),
           \A s \in S : seqs[s] # "absent",
           l = "next_stop" \/ S # {} => g # "none",
           t \in Web => l # "next_due" /\ b = Nothing,
           t \in Runners => l \in {"idle", "next_due"} /\ S = {}
    PROVE  IInv'
<1>1. PICK k \in TaskRecord :
              /\ k = Begun(l, b, S, g)
              /\ k.pc = l /\ k.batch = b /\ k.todo = S /\ k.goal = g
              /\ k.seq = NoSeq /\ k.pend = Nothing
  BY BegunType
<1>2. \A s \in S : seqs'[s] # "absent"
  BY DEF StoresFine, Grows
<1>3. \A r \in Rems : k.pend[r] = NoCopy
  BY <1>1 DEF Nothing
<1>4. Sound(k)'
  BY <1>1, <1>2, <1>3, NoneAssumption DEF Sound, HeldAt
<1>5. Housed(t, k)
  BY <1>1 DEF Housed, WebAt, TickAt
<1>6. t \in Runners => \A r \in Rems : Carries(k, r) => Live(r)
  BY <1>1 DEF Carries, HeldAt
<1>7. Becomes(t, k) /\ k.pc # "schedule"
  BY <1>1
<1> QED
  BY <1>1, <1>4, <1>5, <1>6, <1>7, PlainStep

\* The end of a piece of work: the next due reminder, the next sequence to stop, or
\* nothing more to do.
LEMMA EndsStep ==
    ASSUME IInv, NEW t \in Tasks, Ends(t), StoresFine, UNCHANGED <<sent, crashes>>,
           task[t].pc # "save_sent", \A r \in Rems : Pends(r)' => Live(r)
    PROVE  IInv'
<1>1. PICK o \in TaskRecord : o = task[t] /\ Sound(o) /\ Housed(t, o)
  BY TaskFacts
<1>2. /\ o.batch \in Copies /\ o.todo \in SUBSET Seqs
      /\ o.goal \in {"none", "suppressed", "cancelled"}
  BY DEF TaskRecord
<1>3. CASE o.batch # Nothing
  <2>1. t \notin Web /\ t \in Runners /\ o.todo = {}
    BY <1>1, <1>3 DEF Housed, Tasks
  <2>2. Becomes(t, Begun("next_due", o.batch, {}, "none"))
    BY <1>1, <1>3, <2>1 DEF Ends
  <2>3. \A r \in Rems : o.batch[r] # NoCopy =>
            Live(r) /\ CopyOf(o.batch[r], r)' /\ Fresh(o.batch[r])
    BY <1>1, <2>1, StillCopy DEF Live, Carries, Sound, StoresFine
  <2> QED
    BY <1>2, <2>1, <2>2, <2>3, BegunStep
<1>4. ASSUME o.batch = Nothing PROVE \A r \in Rems : Nothing[r] = NoCopy
  BY DEF Nothing
<1>5. CASE o.batch = Nothing /\ o.todo # {}
  <2>1. Becomes(t, Begun("next_stop", Nothing, o.todo, o.goal))
    BY <1>1, <1>5 DEF Ends
  <2>2. t \notin Runners /\ o.goal # "none" /\ \A s \in o.todo : seqs[s] # "absent"
    BY <1>1, <1>5 DEF Housed, Sound
  <2>3. Nothing \in Copies
    BY <1>2, <1>5
  <2> QED
    BY <1>2, <1>4, <1>5, <2>1, <2>2, <2>3, BegunStep
<1>6. CASE o.batch = Nothing /\ o.todo = {}
  <2>1. Becomes(t, Begun("idle", Nothing, {}, "none"))
    BY <1>1, <1>6 DEF Ends, Idle
  <2>2. Nothing \in Copies
    BY <1>2, <1>6
  <2> QED
    BY <1>4, <1>6, <2>1, <2>2, BegunStep
<1> QED BY <1>3, <1>5, <1>6

-----------------------------------------------------------------------------
(* Requests *)

\* A request costs an arrival; the stores stay as they are.
LEMMA RequestFine ==
    ASSUME IInv, NEW t \in Tasks, Request(t), UNCHANGED <<seqs, rems, ripe, sent, crashes>>
    PROVE  StoresFine /\ \A r \in Rems : Pends(r)' => Live(r)
<1>1. requests' \in 0 .. MaxRequests
  BY BoundsAssumption DEF Request, IInv, TypeOK
<1>2. \A r \in Rems : Pends(r)' => Live(r)
  BY DEF Pends, Live
<1> QED
  BY <1>1, <1>2, NothingSaved

\* start_sequence begins with nothing listed, or answers with the active sequence.
LEMMA StartSequenceStep == ASSUME IInv, NEW t \in Web, StartSequence(t) PROVE IInv'
<1>1. t \in Tasks /\ t \notin Runners
  BY TasksAssumption DEF Tasks
<1>2. PICK o \in TaskRecord : o = task[t] /\ Sound(o) /\ Housed(t, o)
  BY <1>1, TaskFacts
<1>3. StoresFine /\ o.pc = "idle" /\ (\A r \in Rems : Pends(r)' => Live(r))
  BY <1>1, <1>2, RequestFine DEF StartSequence, Request, At
<1>4. CASE Active # {}
  <2>1. Becomes(t, o)
    BY <1>2, <1>4 DEF StartSequence, Becomes, IInv, TypeOK
  <2>2. Sound(o)'
    BY <1>2, <1>3, StillSound DEF StoresFine
  <2> QED
    BY <1>1, <1>2, <1>3, <2>1, <2>2, PlainStep DEF StartSequence
<1>5. CASE Active = {}
  <2>1. Becomes(t, Begun("create_seq", Nothing, {}, "none"))
    BY <1>5 DEF StartSequence
  <2>2. Nothing \in Copies /\ \A r \in Rems : Nothing[r] = NoCopy
    BY DEF Nothing, Copies
  <2> QED
    BY <1>1, <1>2, <1>3, <2>1, <2>2, BegunStep DEF StartSequence
<1> QED BY <1>4, <1>5

\* suppress, suppress_matching and cancel begin with sequences that exist.
LEMMA StopStep ==
    ASSUME IInv, NEW t \in Web, NEW g \in {"suppressed", "cancelled"}, NEW S \in SUBSET Seqs,
           \A s \in S : seqs[s] # "absent", Stop(t, g, S)
    PROVE  IInv'
<1>1. t \in Tasks /\ t \notin Runners
  BY TasksAssumption DEF Tasks
<1>2. StoresFine /\ task[t].pc = "idle" /\ (\A r \in Rems : Pends(r)' => Live(r))
  BY <1>1, RequestFine DEF Stop, Request, At
<1>3. Becomes(t, Begun("next_stop", Nothing, S, g))
  BY DEF Stop
<1>4. Nothing \in Copies /\ \A r \in Rems : Nothing[r] = NoCopy
  BY DEF Nothing, Copies
<1> QED
  BY <1>1, <1>2, <1>3, <1>4, BegunStep DEF Stop

\* The three requests that stop sequences preserve the invariant.
LEMMA StopSteps ==
    ASSUME IInv, NEW t \in Web, Suppress(t) \/ SuppressMatching(t) \/ Cancel(t)
    PROVE  IInv'
<1>1. Active \in SUBSET Seqs /\ \A s \in Active : seqs[s] # "absent"
  BY DEF Active
<1>2. CASE Suppress(t)
  BY <1>2, StopStep DEF Suppress
<1>3. CASE SuppressMatching(t)
  BY <1>1, <1>3, StopStep DEF SuppressMatching
<1>4. CASE Cancel(t)
  BY <1>4, StopStep DEF Cancel
<1> QED BY <1>2, <1>3, <1>4

-----------------------------------------------------------------------------
(* Stopping a sequence *)

\* _require_sequence and its early return preserve the invariant.
LEMMA NextStopStep == ASSUME IInv, NEW t \in Tasks, NextStop(t) PROVE IInv'
<1>1. PICK o \in TaskRecord : o = task[t] /\ Sound(o) /\ Housed(t, o)
  BY TaskFacts
<1>2. /\ o.pc = "next_stop" /\ t \in Web /\ t \notin Runners
      /\ o.batch = Nothing /\ o.goal # "none"
  BY <1>1, TasksAssumption DEF NextStop, At, Housed, Tasks, TickAt, HeldAt, Sound
<1>3. StoresFine /\ (\A r \in Rems : Pends(r)' => Live(r))
  BY NothingSaved DEF NextStop, IInv, TypeOK, Pends, Live
<1>4. Sound(o)'
  BY <1>1, <1>3, StillSound DEF StoresFine
<1>5. PICK s \in o.todo :
          Becomes(t, IF seqs[s] \notin SEQUENCE_TERMINAL
                     THEN [o EXCEPT !.pc = "save_stop", !.seq = s, !.todo = o.todo \ {s}]
                     ELSE IF o.todo \ {s} # {} THEN [o EXCEPT !.todo = o.todo \ {s}] ELSE Idle)
  BY <1>1 DEF NextStop
<1>6. s \in Seqs /\ o.todo \in SUBSET Seqs /\ seqs'[s] # "absent"
  BY <1>4 DEF TaskRecord, Sound
<1>7. CASE seqs[s] \notin SEQUENCE_TERMINAL
  <2>1. PICK k \in TaskRecord : k = [o EXCEPT !.pc = "save_stop", !.seq = s, !.todo = o.todo \ {s}]
    BY <1>6 DEF TaskRecord
  <2>2. /\ k.pc = "save_stop" /\ k.seq = s /\ k.todo = o.todo \ {s} /\ k.goal = o.goal
        /\ k.batch = o.batch /\ k.pend = o.pend
    BY <2>1 DEF TaskRecord
  <2>3. Sound(k)' /\ Housed(t, k)
    BY <1>2, <1>4, <1>6, <2>2 DEF Sound, HeldAt, Housed, WebAt
  <2>4. Becomes(t, k) /\ k.pc # "schedule"
    BY <1>5, <1>7, <2>1, <2>2
  <2> QED
    BY <1>1, <1>2, <1>3, <2>3, <2>4, PlainStep DEF NextStop
<1>8. CASE seqs[s] \in SEQUENCE_TERMINAL /\ o.todo \ {s} # {}
  <2>1. PICK k \in TaskRecord : k = [o EXCEPT !.todo = o.todo \ {s}]
    BY <1>6 DEF TaskRecord
  <2>2. /\ k.pc = "next_stop" /\ k.seq = o.seq /\ k.todo = o.todo \ {s} /\ k.goal = o.goal
        /\ k.batch = o.batch /\ k.pend = o.pend
    BY <1>2, <2>1 DEF TaskRecord
  <2>3. Sound(k)' /\ Housed(t, k)
    BY <1>2, <1>4, <2>2 DEF Sound, HeldAt, Housed, WebAt
  <2>4. Becomes(t, k) /\ k.pc # "schedule"
    BY <1>5, <1>8, <2>1, <2>2
  <2> QED
    BY <1>1, <1>2, <1>3, <2>3, <2>4, PlainStep DEF NextStop
<1>9. CASE seqs[s] \in SEQUENCE_TERMINAL /\ o.todo \ {s} = {}
  <2>1. Becomes(t, Begun("idle", Nothing, {}, "none"))
    BY <1>5, <1>9 DEF Idle
  <2>2. Nothing \in Copies /\ \A r \in Rems : Nothing[r] = NoCopy
    BY DEF Nothing, Copies
  <2> QED
    BY <1>1, <1>2, <1>3, <2>1, <2>2, BegunStep DEF NextStop
<1> QED BY <1>7, <1>8, <1>9

\* The save of a stopped sequence preserves the invariant.
LEMMA SaveStopStep == ASSUME IInv, NEW t \in Tasks, SaveStop(t) PROVE IInv'
<1>1. PICK o \in TaskRecord : o = task[t] /\ Sound(o) /\ Housed(t, o)
  BY TaskFacts
<1>2. o.pc = "save_stop" /\ o.seq \in Seqs /\ o.goal \in SeqStatuses /\ o.goal # "none"
  BY <1>1 DEF SaveStop, At, Sound, TaskRecord, SeqStatuses, SEQUENCE_TERMINAL
<1>3. StoresFine /\ (\A r \in Rems : Pends(r)' => Live(r))
  BY <1>1, <1>2, SequenceSaved DEF SaveStop, Pends, Live
<1>4. Sound(o)'
  BY <1>1, <1>3, StillSound DEF StoresFine
<1>5. PICK k \in TaskRecord : k = [o EXCEPT !.pc = "list_pending"]
  BY DEF TaskRecord
<1>6. /\ Becomes(t, k) /\ k.pc = "list_pending" /\ k.seq = o.seq /\ k.todo = o.todo
      /\ k.goal = o.goal /\ k.batch = o.batch /\ k.pend = o.pend
  BY <1>1, <1>5 DEF TaskRecord, SaveStop, GoesTo
<1>7. Sound(k)' /\ Housed(t, k)
  BY <1>1, <1>2, <1>4, <1>6 DEF Sound, HeldAt, Housed, WebAt, TickAt
<1>8. t \in Runners => \A r \in Rems : Carries(k, r) => Live(r)
  BY <1>1, <1>6 DEF Carries, HeldAt, Live
<1> QED
  BY <1>1, <1>2, <1>3, <1>6, <1>7, <1>8, PlainStep DEF SaveStop

\* _cancel_pending's query preserves the invariant.
LEMMA ListPendingStep == ASSUME IInv, NEW t \in Tasks, ListPending(t) PROVE IInv'
<1>1. PICK o \in TaskRecord : o = task[t] /\ Sound(o) /\ Housed(t, o)
  BY TaskFacts
<1>2. o.pc = "list_pending"
  BY <1>1 DEF ListPending, At
<1>3. StoresFine /\ (\A r \in Rems : Pends(r)' => Live(r))
  BY NothingSaved DEF ListPending, IInv, TypeOK, Pends, Live
<1>4. CASE Pending(o.seq) = {}
  BY <1>1, <1>2, <1>3, <1>4, EndsStep DEF ListPending
<1>5. CASE Pending(o.seq) # {}
  <2>1. Sound(o)'
    BY <1>1, <1>3, StillSound DEF StoresFine
  <2>2. PICK p \in Copies : /\ p = CopiesOf(Pending(o.seq))
                            /\ \A r \in Rems : p[r] # NoCopy => p[r] = rems[r]
    BY DEF CopiesOf, Copies, IInv, TypeOK
  <2>3. \A r \in Rems : p[r] # NoCopy => CopyOf(p[r], r)'
    BY <2>2 DEF CopyOf, ListPending, Copies
  <2>4. PICK k \in TaskRecord : k = [o EXCEPT !.pc = "save_pending", !.pend = p]
    BY DEF TaskRecord
  <2>5. /\ k.pc = "save_pending" /\ k.seq = o.seq /\ k.todo = o.todo
        /\ k.goal = o.goal /\ k.batch = o.batch /\ k.pend = p
    BY <2>4 DEF TaskRecord
  <2>6. Becomes(t, k)
    BY <1>1, <1>5, <2>2, <2>4 DEF ListPending
  <2>7. Sound(k)' /\ Housed(t, k)
    BY <1>1, <1>2, <2>1, <2>3, <2>5 DEF Sound, HeldAt, Housed, WebAt, TickAt
  <2>8. t \in Runners => \A r \in Rems : Carries(k, r) => Live(r)
    BY <1>1, <2>5 DEF Carries, HeldAt, Live
  <2> QED
    BY <1>1, <1>2, <1>3, <2>5, <2>6, <2>7, <2>8, PlainStep DEF ListPending
<1> QED BY <1>4, <1>5

\* The save of a listed reminder preserves the invariant: it is no longer pending.
LEMMA SavePendingStep == ASSUME IInv, NEW t \in Tasks, SavePending(t) PROVE IInv'
<1>1. PICK o \in TaskRecord : o = task[t] /\ Sound(o) /\ Housed(t, o)
  BY TaskFacts
<1>2. o.pc = "save_pending" /\ o.goal \in {"suppressed", "cancelled"}
  BY <1>1 DEF SavePending, At, Sound, TaskRecord
<1>3. PICK r \in Rems :
         /\ o.pend[r] # NoCopy
         /\ rems' = [rems EXCEPT ![r] = [o.pend[r] EXCEPT !.status = o.goal]]
         /\ IF \A q \in Rems \ {r} : o.pend[q] = NoCopy
            THEN Ends(t)
            ELSE Becomes(t, [o EXCEPT !.pend[r] = NoCopy])
  BY <1>1 DEF SavePending
<1>4. CopyOf(o.pend[r], r) /\ o.goal \in RemStatuses /\ o.goal \notin REMINDER_DUE_STATUSES
  BY <1>1, <1>2, <1>3 DEF Sound, RemStatuses, REMINDER_DUE_STATUSES
<1>5. PICK rec \in Reminder :
          /\ rec = [o.pend[r] EXCEPT !.status = o.goal]
          /\ rec.status = o.goal /\ rec.seq = rems[r].seq /\ rec.step = rems[r].step
          /\ rec.step < Steps /\ seqs[rec.seq] # "absent"
  <2> DEFINE c == o.pend[r]
  <2>1. CopyOf(c, r) /\ o.goal \in RemStatuses
    BY <1>4
  <2>2. c.seq = rems[r].seq /\ c.step = rems[r].step
    BY <2>1 DEF CopyOf
  <2> HIDE DEF c
  <2>3. /\ c.step < Steps /\ seqs[c.seq] # "absent"
        /\ [c EXCEPT !.status = o.goal] \in Reminder
        /\ [c EXCEPT !.status = o.goal].status = o.goal
        /\ [c EXCEPT !.status = o.goal].seq = rems[r].seq
        /\ [c EXCEPT !.status = o.goal].step = rems[r].step
    BY <2>1, HeldFacts
  <2> QED
    BY <2>2, <2>3 DEF c
<1>6. /\ StoresFine
      /\ rems'[r] = rec
      /\ \A q \in Rems \ {r} : rems'[q] = rems[q]
  BY <1>3, <1>4, <1>5, ReminderSaved DEF SavePending, IInv, TypeOK
<1>7. \A q \in Rems : Pends(q)' => Live(q)
  BY <1>4, <1>5, <1>6 DEF Pends, Live
<1>8. CASE \A q \in Rems \ {r} : o.pend[q] = NoCopy
  BY <1>1, <1>2, <1>3, <1>6, <1>7, <1>8, EndsStep DEF SavePending
<1>9. CASE ~\A q \in Rems \ {r} : o.pend[q] = NoCopy
  <2>1. Sound(o)'
    BY <1>1, <1>6, StillSound DEF StoresFine
  <2>2. PICK p \in Copies : p = [o.pend EXCEPT ![r] = NoCopy]
    BY DEF TaskRecord, Copies
  <2>3. \A q \in Rems : p[q] # NoCopy => p[q] = o.pend[q]
    BY <2>2 DEF TaskRecord, Copies
  <2>4. PICK k \in TaskRecord : k = [o EXCEPT !.pend = p]
    BY DEF TaskRecord
  <2>5. /\ k.pc = "save_pending" /\ k.seq = o.seq /\ k.todo = o.todo
        /\ k.goal = o.goal /\ k.batch = o.batch /\ k.pend = p
    BY <1>2, <2>4 DEF TaskRecord
  <2>6. Becomes(t, k)
    BY <1>3, <1>9, <2>2, <2>4
  <2>7. Sound(k)' /\ Housed(t, k)
    BY <1>1, <1>2, <2>1, <2>3, <2>5 DEF Sound, HeldAt, Housed, WebAt, TickAt
  <2>8. t \in Runners => \A q \in Rems : Carries(k, q) => Live(q)
    BY <1>1, <2>5 DEF Carries, HeldAt, Live
  <2> QED
    BY <1>1, <1>2, <1>6, <1>7, <2>5, <2>6, <2>7, <2>8, PlainStep DEF SavePending
<1> QED BY <1>8, <1>9

-----------------------------------------------------------------------------
(* Starting a sequence *)

\* The token passes to a task that is about to schedule.
LEMMA TokensHanded ==
    ASSUME IInv, Grows, NEW t \in Tasks, NEW k \in TaskRecord, Becomes(t, k),
           k.pc = "schedule", k.seq \in Seqs, sent' = sent, crashes' = crashes,
           \A r \in Rems : Live(r)' => Live(r) /\ rems[r].seq # k.seq,
           \A u \in Tasks \ {t} : ~Schedules(task[u], k.seq),
           Unsent(k.seq, k.step),
           \A r \in Rems : Live(r)' /\ Saving(r) => Saving(r)'
    PROVE  Tokens'
<1>1. \A r \in Rems : Live(r)' => /\ Live(r)
                                  /\ rems'[r].seq = rems[r].seq
                                  /\ rems'[r].step = rems[r].step
  BY LiveStored DEF Grows
<1>2. /\ task'[t] = k
      /\ \A u \in Tasks \ {t} : task'[u] = task[u]
  BY DEF IInv, TypeOK, Becomes
<1>3. OneToken'
  <2>1. \A u \in Tasks : \A s : Schedules(task[u], s)' =>
            \/ u = t /\ s = k.seq
            \/ u # t /\ s # k.seq /\ Schedules(task[u], s)
    BY <1>2 DEF Schedules
  <2>2. ASSUME NEW q \in Rems, NEW r \in Rems, Live(q)', Live(r)', rems'[q].seq = rems'[r].seq
        PROVE  q = r
    BY <1>1, <2>2 DEF IInv, Tokens, OneToken
  <2>3. ASSUME NEW u \in Tasks, NEW r \in Rems, Live(r)' PROVE ~Schedules(task[u], rems[r].seq)'
    BY <1>1, <2>1, <2>3 DEF IInv, Tokens, OneToken
  <2>4. ASSUME NEW u \in Tasks, NEW v \in Tasks, NEW s \in Seqs,
               Schedules(task[u], s)', Schedules(task[v], s)'
        PROVE  u = v
    BY <2>1, <2>4 DEF IInv, Tokens, OneToken
  <2> QED
    BY <2>2, <2>3, <2>4 DEF OneToken
<1>4. SentBehind'
  <2>1. ASSUME NEW s \in Seqs, seqs'[s] = "absent" PROVE Unsent(s, 0)'
    BY <2>1 DEF Grows, IInv, Tokens, SentBehind, Unsent
  <2>2. ASSUME NEW r \in Rems, Live(r)'
        PROVE  /\ Unsent(rems[r].seq, rems[r].step + 1)'
               /\ ~Saving(r)' => sent'[rems'[r].seq][rems'[r].step] <= crashes'
    <3>1. /\ Unsent(rems[r].seq, rems[r].step + 1)
          /\ ~Saving(r) => sent[rems[r].seq][rems[r].step] <= crashes
      BY <1>1, <2>2 DEF IInv, Tokens, SentBehind
    <3> QED
      BY <1>1, <2>2, <3>1 DEF Unsent
  <2>3. ASSUME NEW u \in Tasks, At(u, "schedule")' PROVE Unsent(task[u].seq, task[u].step)'
    BY <1>2, <2>3 DEF At, IInv, Tokens, SentBehind, Unsent
  <2> QED
    BY <2>1, <2>2, <2>3 DEF SentBehind
<1>5. StepSentOnce'
  BY DEF IInv, Tokens, StepSentOnce
<1> QED
  BY <1>3, <1>4, <1>5 DEF Tokens

\* A new sequence preserves the invariant: its token is with the task that created it.
LEMMA CreateSequenceStep == ASSUME IInv, NEW t \in Web, CreateSequence(t) PROVE IInv'
<1>1. t \in Tasks /\ t \notin Runners
  BY TasksAssumption DEF Tasks
<1>2. PICK o \in TaskRecord : o = task[t] /\ Sound(o) /\ Housed(t, o)
  BY <1>1, TaskFacts
<1>3. PICK s \in Seqs : s = NewId(seqs, "absent") /\ seqs[s] = "absent"
  BY DEF CreateSequence, Unused, NewId, IInv, TypeOK
<1>4. seqs' = [seqs EXCEPT ![s] = "active"]
  BY <1>3 DEF CreateSequence
<1>5. StoresFine /\ seqs'[s] = "active"
  BY <1>4, SequenceSaved DEF CreateSequence, SeqStatuses
<1>6. Sound(o)'
  BY <1>2, <1>5, StillSound DEF StoresFine
<1>7. PICK k \in TaskRecord : k = [o EXCEPT !.pc = "schedule", !.seq = s, !.status = "active"]
  BY DEF TaskRecord, SeqStatuses
<1>8. /\ k.pc = "schedule" /\ k.seq = s /\ k.status = "active" /\ k.todo = o.todo
      /\ k.goal = o.goal /\ k.batch = o.batch /\ k.pend = o.pend /\ k.step \in 0 .. Steps
  BY <1>7 DEF TaskRecord
<1>9. Becomes(t, k)
  BY <1>2, <1>3, <1>7 DEF CreateSequence
<1>10. Sound(k)' /\ Housed(t, k)
  BY <1>1, <1>2, <1>5, <1>6, <1>8 DEF Sound, HeldAt, Housed, WebAt
<1>11. \A u \in Tasks \ {t} : task'[u] = task[u]
  BY <1>9 DEF IInv, TypeOK, Becomes
<1>12. \A r \in Rems : Live(r)' => Live(r)
  BY <1>1, <1>11 DEF Live, Pends, CreateSequence, Tasks
<1>13. \A r \in Rems : Live(r) => rems[r].seq # s
  BY <1>3, LiveStored DEF IInv, Kept
<1>14. \A u \in Tasks : ~Schedules(task[u], s)
  BY <1>3, TaskFacts DEF Schedules, Sound
<1>15. Unsent(s, k.step)
  BY <1>3, <1>8 DEF IInv, Tokens, SentBehind, Unsent
<1>16. \A r \in Rems : Saving(r) => Saving(r)'
  BY <1>1, <1>11 DEF Saving, At, Tasks
<1>17. Tokens'
  BY <1>1, <1>5, <1>8, <1>9, <1>12, <1>13, <1>14, <1>15, <1>16, TokensHanded
     DEF CreateSequence, StoresFine
<1> QED
  BY <1>1, <1>5, <1>9, <1>10, <1>17, TaskStep

\* _schedule_step past the last step preserves the invariant: the token is gone.
LEMMA CompleteStep ==
    ASSUME IInv, NEW t \in Tasks, ScheduleStep(t), task[t].step >= Steps
    PROVE  IInv'
<1>1. PICK o \in TaskRecord : o = task[t] /\ Sound(o) /\ Housed(t, o)
  BY TaskFacts
<1>2. o.pc = "schedule" /\ o.seq \in Seqs
  BY <1>1 DEF ScheduleStep, At, Sound
<1>3. seqs' = [seqs EXCEPT ![o.seq] = "completed"] /\ Ends(t) /\ rems' = rems
  BY <1>1 DEF ScheduleStep
<1>4. StoresFine /\ (\A r \in Rems : Pends(r)' => Live(r))
  BY <1>2, <1>3, SequenceSaved
     DEF ScheduleStep, SeqStatuses, SEQUENCE_TERMINAL, Pends, Live
<1> QED
  BY <1>1, <1>2, <1>3, <1>4, EndsStep DEF ScheduleStep

\* _schedule_step's new reminder preserves it: the token is now the reminder.
LEMMA NewReminderStep ==
    ASSUME IInv, NEW t \in Tasks, ScheduleStep(t), ~(task[t].step >= Steps)
    PROVE  IInv'
<1>1. PICK o \in TaskRecord : o = task[t] /\ Sound(o) /\ Housed(t, o)
  BY TaskFacts
<1>2. /\ o.pc = "schedule" /\ o.seq \in Seqs /\ o.step \in 0 .. Steps /\ o.step < Steps
      /\ o.status # "absent" /\ seqs[o.seq] # "absent"
  BY <1>1, StepsAssumption DEF ScheduleStep, At, Sound, TaskRecord
<1>3. PICK n \in Rems : n = NewId(rems, NoCopy) /\ rems[n] = NoCopy
  BY DEF ScheduleStep, Unused, NewId, IInv, TypeOK, Copies
<1>4. PICK rec \in Reminder :
          /\ rec = [status |-> "scheduled", seq |-> o.seq, step |-> o.step, attempts |-> 0]
          /\ rec.status = "scheduled" /\ rec.seq = o.seq /\ rec.step = o.step
          /\ rec.attempts = 0
  <2>1. 0 \in 0 .. MaxAttempts /\ "scheduled" \in RemStatuses
    BY BoundsAssumption DEF RemStatuses, REMINDER_DUE_STATUSES
  <2>2. [status |-> "scheduled", seq |-> o.seq, step |-> o.step, attempts |-> 0] \in Reminder
    BY <1>2, <2>1 DEF Reminder
  <2> QED
    BY <2>2
<1>5. rems' = [rems EXCEPT ![n] = rec] /\ GoesTo(t, "save_seq") /\ seqs' = seqs
  BY <1>1, <1>3, <1>4 DEF ScheduleStep
<1>6. Fresh(rec)
  BY <1>4, BoundsAssumption DEF Fresh
<1>7. /\ StoresFine
      /\ rems'[n] = rec
      /\ \A q \in Rems \ {n} : rems'[q] = rems[q]
  BY <1>2, <1>3, <1>4, <1>5, <1>6, ReminderSaved DEF ScheduleStep, IInv, TypeOK
<1>8. Sound(o)'
  BY <1>1, <1>7, StillSound DEF StoresFine
<1>9. PICK k \in TaskRecord : k = [o EXCEPT !.pc = "save_seq"]
  BY DEF TaskRecord
<1>10. /\ k.pc = "save_seq" /\ k.seq = o.seq /\ k.status = o.status /\ k.todo = o.todo
       /\ k.goal = o.goal /\ k.batch = o.batch /\ k.pend = o.pend
  BY <1>9 DEF TaskRecord
<1>11. Becomes(t, k)
  BY <1>1, <1>5, <1>9 DEF GoesTo
<1>12. Sound(k)' /\ Housed(t, k)
  BY <1>1, <1>2, <1>8, <1>10 DEF Sound, HeldAt, Housed, WebAt, TickAt
<1>13. task'[t] = k /\ \A u \in Tasks \ {t} : task'[u] = task[u]
  BY <1>11 DEF IInv, TypeOK, Becomes
<1>14. \A u \in Tasks : \A s : Schedules(task[u], s)' => u # t /\ Schedules(task[u], s)
  BY <1>10, <1>13 DEF Schedules
<1>15. \A r \in Rems : Live(r)' => r = n \/ Live(r)
  BY <1>1, <1>7, <1>10, <1>13 DEF Live, Pends, Carries, HeldAt, Tasks
<1>16. \A r \in Rems : Live(r) => r # n /\ rems'[r] = rems[r] /\ rems[r].seq # o.seq
  BY <1>1, <1>2, <1>3, <1>7, LiveStored DEF IInv, Tokens, OneToken, Schedules
<1>17. \A u \in Tasks \ {t} : ~Schedules(task[u], o.seq)
  BY <1>1, <1>2 DEF IInv, Tokens, OneToken, Schedules
<1>18. OneToken'
  <2>1. ASSUME NEW q \in Rems, NEW r \in Rems, Live(q)', Live(r)', rems'[q].seq = rems'[r].seq
        PROVE  q = r
    BY <1>4, <1>7, <1>15, <1>16, <2>1 DEF IInv, Tokens, OneToken
  <2>2. ASSUME NEW u \in Tasks, NEW r \in Rems, Live(r)' PROVE ~Schedules(task[u], rems[r].seq)'
    BY <1>4, <1>7, <1>14, <1>15, <1>16, <1>17, <2>2 DEF IInv, Tokens, OneToken
  <2>3. ASSUME NEW u \in Tasks, NEW v \in Tasks, NEW s \in Seqs,
               Schedules(task[u], s)', Schedules(task[v], s)'
        PROVE  u = v
    BY <1>14, <2>3 DEF IInv, Tokens, OneToken
  <2> QED
    BY <2>1, <2>2, <2>3 DEF OneToken
<1>19. SentBehind'
  <2>1. ASSUME NEW s \in Seqs, seqs'[s] = "absent" PROVE Unsent(s, 0)'
    BY <1>5, <2>1 DEF ScheduleStep, IInv, Tokens, SentBehind, Unsent
  <2>2. ASSUME NEW r \in Rems, Live(r)'
        PROVE  /\ Unsent(rems[r].seq, rems[r].step + 1)'
               /\ ~Saving(r)' => sent'[rems'[r].seq][rems'[r].step] <= crashes'
    <3>1. sent' = sent /\ crashes' = crashes
      BY DEF ScheduleStep
    <3>2. CASE r = n
      <4>1. Unsent(o.seq, o.step)
        BY <1>1, <1>2 DEF At, IInv, Tokens, SentBehind
      <4>2. Unsent(o.seq, o.step + 1) /\ sent[o.seq][o.step] = 0
        BY <1>2, <4>1 DEF Unsent
      <4>3. 0 <= crashes
        BY <1>2, SentNat
      <4> QED
        BY <1>4, <1>7, <3>1, <3>2, <4>2, <4>3 DEF Unsent
    <3>3. CASE r # n
      <4>1. Live(r) /\ rems'[r] = rems[r]
        BY <1>15, <1>16, <2>2, <3>3
      <4>2. Saving(r) => Saving(r)'
        BY <1>1, <1>2, <1>13 DEF Saving, At, Tasks
      <4> QED
        BY <3>1, <4>1, <4>2 DEF IInv, Tokens, SentBehind, Unsent
    <3> QED BY <3>2, <3>3
  <2>3. ASSUME NEW u \in Tasks, At(u, "schedule")' PROVE Unsent(task[u].seq, task[u].step)'
    BY <1>10, <1>13, <2>3 DEF At, ScheduleStep, IInv, Tokens, SentBehind, Unsent
  <2> QED
    BY <2>1, <2>2, <2>3 DEF SentBehind
<1>20. StepSentOnce'
  BY DEF ScheduleStep, IInv, Tokens, StepSentOnce
<1> QED
  BY <1>7, <1>11, <1>12, <1>18, <1>19, <1>20, TaskStep DEF Tokens

\* Both ways out of _schedule_step.
LEMMA ScheduleStepStep == ASSUME IInv, NEW t \in Tasks, ScheduleStep(t) PROVE IInv'
BY CompleteStep, NewReminderStep

\* The save of the sequence after it preserves the invariant.
LEMMA SaveSequenceStep == ASSUME IInv, NEW t \in Tasks, SaveSequence(t) PROVE IInv'
<1>1. PICK o \in TaskRecord : o = task[t] /\ Sound(o) /\ Housed(t, o)
  BY TaskFacts
<1>2. o.pc = "save_seq" /\ o.seq \in Seqs /\ o.status \in SeqStatuses
  BY <1>1 DEF SaveSequence, At, Sound, TaskRecord
<1>3. StoresFine /\ (\A r \in Rems : Pends(r)' => Live(r))
  BY <1>1, <1>2, SequenceSaved DEF SaveSequence, Pends, Live
<1> QED
  BY <1>1, <1>2, <1>3, EndsStep DEF SaveSequence

-----------------------------------------------------------------------------
(* A tick *)

\* Ticks do not overlap.
OneRunner == \A b, c \in Runners : b = c

\* A tick begins with live reminders.
LEMMA RunDueStep == ASSUME IInv, NEW t \in Runners, RunDue(t) PROVE IInv'
<1>1. t \in Tasks /\ t \notin Web /\ task[t].pc = "idle"
  BY TasksAssumption DEF Tasks, RunDue, At
<1>2. StoresFine /\ (\A r \in Rems : Pends(r)' => Live(r))
  BY NothingSaved DEF RunDue, IInv, TypeOK, Pends, Live
<1>3. PICK b \in Copies : /\ b = CopiesOf(Due)
                          /\ \A r \in Rems : b[r] # NoCopy => r \in Due /\ b[r] = rems[r]
  <2>1. CopiesOf(Due) \in Copies
    BY DEF CopiesOf, Copies, IInv, TypeOK
  <2>2. \A r \in Rems : CopiesOf(Due)[r] = IF r \in Due THEN rems[r] ELSE NoCopy
    BY DEF CopiesOf
  <2> QED
    BY <2>1, <2>2
<1>4. \A r \in Rems : b[r] # NoCopy => Live(r) /\ CopyOf(b[r], r)' /\ Fresh(b[r])
  <2> SUFFICES ASSUME NEW r \in Rems, b[r] # NoCopy
               PROVE  Live(r) /\ CopyOf(b[r], r)' /\ Fresh(b[r])
    OBVIOUS
  <2>1. Pends(r) /\ b[r] = rems[r] /\ rems[r] # NoCopy
    BY <1>3 DEF Due, Pends
  <2>2. Live(r) /\ Fresh(b[r])
    BY <2>1 DEF IInv, Kept, Live
  <2>3. CopyOf(b[r], r)'
    BY <1>3, <2>1 DEF CopyOf, Copies, RunDue
  <2> QED BY <2>2, <2>3
<1>5. Becomes(t, Begun("next_due", b, {}, "none"))
  BY <1>3 DEF RunDue
<1> QED
  BY <1>1, <1>2, <1>3, <1>4, <1>5, BegunStep DEF RunDue

\* The tick takes up a reminder it listed.
LEMMA NextDueStep == ASSUME IInv, NEW t \in Runners, NextDue(t) PROVE IInv'
<1>1. PICK o \in TaskRecord : o = task[t] /\ Sound(o) /\ Housed(t, o)
  BY TaskFacts DEF Tasks
<1>2. t \in Tasks /\ t \notin Web /\ o.pc = "next_due" /\ o.todo = {}
  BY <1>1, TasksAssumption DEF NextDue, At, Tasks, Housed
<1>3. StoresFine /\ (\A r \in Rems : Pends(r)' => Live(r))
  BY NothingSaved DEF NextDue, IInv, TypeOK, Pends, Live
<1>4. Sound(o)'
  BY <1>1, <1>3, StillSound DEF StoresFine
<1>5. PICK r \in Rems :
        /\ task[t].batch[r] # NoCopy
        /\ Becomes(t, [task[t] EXCEPT
              !.rem = r, !.copy = task[t].batch[r], !.batch[r] = NoCopy,
              !.seq = task[t].batch[r].seq, !.status = seqs[task[t].batch[r].seq],
              !.pc = IF seqs[task[t].batch[r].seq] \in SEQUENCE_TERMINAL
                     THEN "suppress_rem" ELSE "dispatch"])
  BY DEF NextDue
<1> DEFINE c == task[t].batch[r]
           l == IF seqs[c.seq] \in SEQUENCE_TERMINAL THEN "suppress_rem" ELSE "dispatch"
<1>6. CopyOf(o.batch[r], r)' /\ Fresh(o.batch[r]) /\ CopyOf(o.batch[r], r)
  BY <1>1, <1>4, <1>5 DEF Sound
<1>7. c \in Reminder /\ c # NoCopy /\ l \in {"suppress_rem", "dispatch"}
  BY <1>1, <1>5, <1>6 DEF CopyOf
<1>8. Becomes(t, [task[t] EXCEPT !.rem = r, !.copy = c, !.batch[r] = NoCopy,
                                 !.seq = c.seq, !.status = seqs[c.seq], !.pc = l])
  BY <1>5
<1>9. c = o.batch[r]
  BY <1>1
<1> HIDE DEF c, l
<1>10. c.seq \in Seqs /\ seqs[c.seq] \in SeqStatuses /\ seqs[c.seq] # "absent"
  <2>1. "sent" \in RemStatuses
    BY DEF RemStatuses
  <2>2. c.seq \in Seqs /\ seqs[c.seq] # "absent"
    BY <1>6, <1>9, <2>1, HeldFacts
  <2> QED
    BY <2>2 DEF IInv, TypeOK
<1>11. PICK b \in Copies : b = [o.batch EXCEPT ![r] = NoCopy]
  BY DEF TaskRecord, Copies
<1>12. b[r] = NoCopy /\ \A q \in Rems : b[q] # NoCopy => b[q] = o.batch[q]
  BY <1>11 DEF TaskRecord, Copies
<1>13. PICK k1 \in TaskRecord :
          /\ k1 = [o EXCEPT !.rem = r, !.copy = c, !.batch = b]
          /\ k1.rem = r /\ k1.copy = c /\ k1.batch = b
          /\ k1.pend = o.pend /\ k1.todo = o.todo /\ k1.goal = o.goal
  <2>1. PICK k1 \in TaskRecord : k1 = [o EXCEPT !.rem = r, !.copy = c, !.batch = b]
    BY <1>7 DEF TaskRecord
  <2>2. /\ k1.rem = r /\ k1.copy = c /\ k1.batch = b
        /\ k1.pend = o.pend /\ k1.todo = o.todo /\ k1.goal = o.goal
    BY <2>1 DEF TaskRecord
  <2> QED
    BY <2>1, <2>2
<1>14. PICK k \in TaskRecord : k = [k1 EXCEPT !.seq = c.seq, !.status = seqs[c.seq], !.pc = l]
  <2>1. PICK q \in Seqs, st \in SeqStatuses : q = c.seq /\ st = seqs[c.seq]
    BY <1>10
  <2>2. [k1 EXCEPT !.seq = q, !.status = st, !.pc = l] \in TaskRecord
    BY <1>7, ZenonT(60) DEF TaskRecord
  <2> QED
    BY <2>1, <2>2
<1>fields. /\ k.pc = l /\ k.rem = r /\ k.copy = c /\ k.batch = b /\ k.seq = c.seq
           /\ k.status = seqs[c.seq] /\ k.pend = o.pend /\ k.todo = o.todo /\ k.goal = o.goal
  <2>1. /\ k.pc = l /\ k.seq = c.seq /\ k.status = seqs[c.seq] /\ k.rem = k1.rem
        /\ k.copy = k1.copy /\ k.batch = k1.batch /\ k.pend = k1.pend /\ k.todo = k1.todo
        /\ k.goal = k1.goal
    BY <1>14 DEF TaskRecord
  <2>2. /\ k1.rem = r /\ k1.copy = c /\ k1.batch = b
        /\ k1.pend = o.pend /\ k1.todo = o.todo /\ k1.goal = o.goal
    BY <1>13
  <2> QED
    BY <2>1, <2>2
<1>15. Becomes(t, k)
  <2>1. [o EXCEPT !.rem = r, !.copy = c, !.batch[r] = NoCopy, !.seq = c.seq,
                  !.status = seqs[c.seq], !.pc = l]
          = [o EXCEPT !.rem = r, !.copy = c, !.batch = b, !.seq = c.seq,
                      !.status = seqs[c.seq], !.pc = l]
    BY <1>11 DEF TaskRecord
  <2>2. [o EXCEPT !.rem = r, !.copy = c, !.batch = b, !.seq = c.seq,
                  !.status = seqs[c.seq], !.pc = l]
          = k
    BY <1>13, <1>14, <1>fields
  <2> QED
    BY <1>1, <1>8, <2>1, <2>2
<1>16. Held(k)'
  BY <1>6, <1>7, <1>9, <1>12, <1>14, <1>fields DEF Held
<1>17. seqs'[c.seq] # "absent"
  BY <1>3, <1>10 DEF StoresFine, Grows
<1>18. Sound(k)' /\ Housed(t, k)
  BY <1>2, <1>4, <1>7, <1>10, <1>12, <1>14, <1>fields, <1>16, <1>17 DEF Sound, Housed, TickAt, HeldAt
<1>19. \A q \in Rems : Carries(k, q) => Live(q)
  BY <1>1, <1>7, <1>9, <1>12, <1>14, <1>fields DEF Carries, Live
<1> QED
  BY <1>1, <1>2, <1>3, <1>7, <1>14, <1>fields, <1>15, <1>18, <1>19, PlainStep DEF NextDue

\* What a tick that holds a reminder has in hand.
LEMMA InHand ==
    ASSUME IInv, NEW t \in Runners, task[t].pc \in HeldAt
    PROVE  \E o \in TaskRecord, r \in Rems :
              /\ o = task[t] /\ Sound(o) /\ Housed(t, o)
              /\ t \in Tasks /\ t \notin Web /\ o.todo = {}
              /\ r = o.rem /\ CopyOf(o.copy, r) /\ Live(r) /\ o.batch[r] = NoCopy
              /\ o.seq = o.copy.seq /\ o.seq \in Seqs /\ seqs[o.seq] # "absent"
              /\ rems[r].seq = o.seq /\ rems[r].step = o.copy.step
              /\ o.copy.step \in 0 .. Steps /\ o.copy.step < Steps
<1>1. PICK o \in TaskRecord : o = task[t] /\ Sound(o) /\ Housed(t, o)
  BY TaskFacts DEF Tasks
<1>2. t \in Tasks /\ t \notin Web /\ o.todo = {}
  BY <1>1, TasksAssumption DEF Tasks, Housed
<1>3. PICK r \in Rems : r = o.rem /\ CopyOf(o.copy, r) /\ o.batch[r] = NoCopy /\ o.seq = o.copy.seq
  BY <1>1 DEF Sound, Held
<1>4. Live(r)
  BY <1>1, <1>3 DEF Live, Carries
<1>5. "sent" \in RemStatuses
  BY DEF RemStatuses
<1>6. /\ o.copy.seq \in Seqs /\ o.copy.step \in 0 .. Steps /\ o.copy.step < Steps
      /\ seqs[o.copy.seq] # "absent"
  <2> DEFINE c == o.copy
  <2>1. CopyOf(c, r)
    BY <1>3
  <2> HIDE DEF c
  <2>2. c.seq \in Seqs /\ c.step \in 0 .. Steps /\ c.step < Steps /\ seqs[c.seq] # "absent"
    BY <1>5, <2>1, HeldFacts
  <2> QED
    BY <2>2 DEF c
<1> QED
  BY <1>1, <1>2, <1>3, <1>4, <1>6 DEF CopyOf

\* The save of the reminder in hand, with status st.
LEMMA HeldSaved ==
    ASSUME IInv, NEW o \in TaskRecord, NEW r \in Rems, NEW st \in RemStatuses,
           CopyOf(o.copy, r),
           rems' = [rems EXCEPT ![r] = [o.copy EXCEPT !.status = st]],
           st \in REMINDER_DUE_STATUSES => Fresh(o.copy),
           ripe' \in SUBSET Rems, UNCHANGED <<seqs, sent, requests, crashes>>
    PROVE  /\ StoresFine
           /\ st \notin REMINDER_DUE_STATUSES => ~Pends(r)'
           /\ \A q \in Rems \ {r} : rems'[q] = rems[q]
<1> DEFINE c == o.copy
<1>1. CopyOf(c, r) /\ rems' = [rems EXCEPT ![r] = [c EXCEPT !.status = st]]
  OBVIOUS
<1>2. c.seq = rems[r].seq /\ c.step = rems[r].step /\ (st \in REMINDER_DUE_STATUSES => Fresh(c))
  BY <1>1 DEF CopyOf
<1> HIDE DEF c
<1>3. /\ c.step < Steps /\ seqs[c.seq] # "absent"
      /\ [c EXCEPT !.status = st] \in Reminder
      /\ [c EXCEPT !.status = st].status = st
      /\ [c EXCEPT !.status = st].seq = rems[r].seq
      /\ [c EXCEPT !.status = st].step = rems[r].step
      /\ [c EXCEPT !.status = st].attempts = c.attempts
  BY <1>1, HeldFacts
<1>4. PICK rec \in Reminder :
          /\ rec = [c EXCEPT !.status = st] /\ rec.status = st
          /\ rec.seq = rems[r].seq /\ rec.step = rems[r].step /\ rec.attempts = c.attempts
          /\ rec.step < Steps /\ seqs[rec.seq] # "absent"
  BY <1>2, <1>3
<1>5. rec.status \in REMINDER_DUE_STATUSES => Fresh(rec)
  BY <1>2, <1>4 DEF Fresh
<1>6. rems' = [rems EXCEPT ![r] = rec]
  BY <1>1, <1>4
<1>7. /\ StoresFine
      /\ rems'[r] = rec
      /\ \A q \in Rems \ {r} : rems'[q] = rems[q]
  BY <1>4, <1>5, <1>6, ReminderSaved
<1> QED
  BY <1>4, <1>7 DEF Pends

\* A reminder of a terminal sequence is dropped.
LEMMA SuppressReminderStep == ASSUME IInv, NEW t \in Runners, SuppressReminder(t) PROVE IInv'
<1>1. task[t].pc = "suppress_rem"
  BY DEF SuppressReminder, At
<1>2. PICK o \in TaskRecord, r \in Rems :
         /\ o = task[t] /\ t \in Tasks /\ r = o.rem /\ CopyOf(o.copy, r)
  BY <1>1, InHand DEF HeldAt
<1>3. "suppressed" \in RemStatuses /\ "suppressed" \notin REMINDER_DUE_STATUSES
  BY DEF RemStatuses, REMINDER_DUE_STATUSES
<1>4. /\ StoresFine
      /\ ~Pends(r)'
      /\ \A q \in Rems \ {r} : rems'[q] = rems[q]
  <2>1. rems' = [rems EXCEPT ![r] = [o.copy EXCEPT !.status = "suppressed"]]
    BY <1>2 DEF SuppressReminder, SavesReminder
  <2>2. ripe' \in SUBSET Rems /\ UNCHANGED <<seqs, sent, requests, crashes>>
    BY DEF SuppressReminder, IInv, TypeOK
  <2> QED
    BY <1>2, <1>3, <2>1, <2>2, HeldSaved
<1>5. \A q \in Rems : Pends(q)' => Live(q)
  BY <1>4 DEF Pends, Live
<1> QED
  BY <1>1, <1>2, <1>4, <1>5, EndsStep DEF SuppressReminder

\* A failed attempt is stored with the reminder, which the tick had in hand.
LEMMA SaveRetryStep == ASSUME IInv, NEW t \in Runners, SaveRetry(t) PROVE IInv'
<1>1. task[t].pc = "save_retry"
  BY DEF SaveRetry, At
<1>2. PICK o \in TaskRecord, r \in Rems :
         /\ o = task[t] /\ t \in Tasks /\ r = o.rem /\ CopyOf(o.copy, r) /\ Live(r)
         /\ Sound(o)
  BY <1>1, InHand DEF HeldAt
<1>3. "retrying" \in RemStatuses /\ Fresh(o.copy)
  BY <1>1, <1>2 DEF RemStatuses, REMINDER_DUE_STATUSES, Sound, HeldAt, Held
<1>4. /\ StoresFine
      /\ \A q \in Rems \ {r} : rems'[q] = rems[q]
  <2>1. rems' = [rems EXCEPT ![r] = [o.copy EXCEPT !.status = "retrying"]]
    BY <1>2 DEF SaveRetry, SavesReminder
  <2>2. ripe' \in SUBSET Rems /\ UNCHANGED <<seqs, sent, requests, crashes>>
    BY DEF SaveRetry, IInv, TypeOK
  <2> QED
    BY <1>2, <1>3, <2>1, <2>2, HeldSaved
<1>5. \A q \in Rems : Pends(q)' => Live(q)
  BY <1>2, <1>4 DEF Pends, Live
<1> QED
  BY <1>1, <1>2, <1>4, <1>5, EndsStep DEF SaveRetry

\* A dispatch preserves the invariant: the step of the live reminder in hand is sent
\* once more, and whatever tick sent it before has died.
LEMMA DispatchReturnsStep ==
    ASSUME IInv, OneRunner, NEW t \in Runners, DispatchReturns(t)
    PROVE  IInv'
<1>1. task[t].pc = "dispatch"
  BY DEF DispatchReturns, At
<1>2. PICK o \in TaskRecord, r \in Rems :
         /\ o = task[t] /\ Sound(o) /\ Housed(t, o)
         /\ t \in Tasks /\ t \notin Web /\ o.todo = {}
         /\ r = o.rem /\ CopyOf(o.copy, r) /\ Live(r) /\ o.batch[r] = NoCopy
         /\ o.seq = o.copy.seq /\ o.seq \in Seqs /\ seqs[o.seq] # "absent"
         /\ rems[r].seq = o.seq /\ rems[r].step = o.copy.step
         /\ o.copy.step \in 0 .. Steps /\ o.copy.step < Steps
  BY <1>1, InHand DEF HeldAt
<1> DEFINE n == o.copy.step
<1>3. PICK taken \in {0, 1} : sent' = [sent EXCEPT ![o.seq][n] = @ + taken]
  BY <1>2 DEF DispatchReturns
<1>4. /\ sent' \in [Seqs -> [0 .. Steps -> Nat]]
      /\ sent'[o.seq][n] = sent[o.seq][n] + taken
      /\ \A s \in Seqs : s # o.seq => sent'[s] = sent[s]
      /\ \A m \in 0 .. Steps : m # n => sent'[o.seq][m] = sent[o.seq][m]
  <2>1. sent \in [Seqs -> [0 .. Steps -> Nat]] /\ n \in 0 .. Steps /\ o.seq \in Seqs
    BY <1>2 DEF IInv, TypeOK
  <2>2. sent[o.seq] \in [0 .. Steps -> Nat]
    BY <2>1
  <2>3. sent[o.seq][n] + taken \in Nat
    <3>1. sent[o.seq][n] \in Nat
      BY <2>1, <2>2
    <3> QED
      BY <3>1
  <2> HIDE DEF n
  <2> QED
    BY <1>3, <2>1, <2>2, <2>3
<1>5. PICK k \in TaskRecord : k = [o EXCEPT !.pc = "save_sent"]
  BY DEF TaskRecord
<1>6. /\ k.pc = "save_sent" /\ k.rem = o.rem /\ k.copy = o.copy /\ k.batch = o.batch
      /\ k.seq = o.seq /\ k.status = o.status /\ k.pend = o.pend /\ k.todo = o.todo
      /\ k.goal = o.goal
  BY <1>5 DEF TaskRecord
<1>7. Becomes(t, k)
  BY <1>2, <1>5 DEF DispatchReturns, GoesTo
<1>8. StoresFine
  BY <1>4 DEF DispatchReturns, IInv, TypeOK, StoresFine, Grows, Kept, Pends
<1>9. Sound(o)'
  BY <1>2, <1>8, StillSound DEF StoresFine
<1>10. Sound(k)' /\ Housed(t, k)
  BY <1>1, <1>2, <1>6, <1>9 DEF Sound, HeldAt, Held, Housed, TickAt
<1>11. task'[t] = k /\ \A u \in Tasks \ {t} : task'[u] = task[u]
  BY <1>2, <1>7 DEF IInv, TypeOK, Becomes
<1>12. \A q \in Rems : Live(q)' <=> Live(q)
  <2>1. \A u \in Runners, q \in Rems : Carries(task'[u], q) <=> Carries(task[u], q)
    BY <1>1, <1>2, <1>6, <1>11 DEF Carries, HeldAt, Tasks
  <2> QED
    BY <2>1 DEF Live, Pends, Carries, DispatchReturns
<1>13. \A u \in Tasks : \A s : Schedules(task[u], s)' => u # t /\ Schedules(task[u], s)
  BY <1>6, <1>11 DEF Schedules
<1>14. OneToken'
  BY <1>12, <1>13 DEF DispatchReturns, IInv, Tokens, OneToken
<1>15. \A q \in Rems : Live(q) /\ q # r => rems[q].seq # o.seq
  BY <1>2 DEF IInv, Tokens, OneToken
<1>16. ~Saving(r)
  BY <1>1 DEF Saving, At, OneRunner
<1>17. /\ Unsent(o.seq, n + 1)
       /\ sent[o.seq][n] <= crashes
  BY <1>2, <1>16 DEF IInv, Tokens, SentBehind
<1>18. crashes' = crashes /\ rems' = rems /\ seqs' = seqs
  BY DEF DispatchReturns
<1>19. SentBehind'
  <2>1. ASSUME NEW s \in Seqs, seqs'[s] = "absent" PROVE Unsent(s, 0)'
    <3>1. seqs[s] = "absent" /\ Unsent(s, 0)
      BY <1>18, <2>1 DEF IInv, Tokens, SentBehind
    <3>2. sent'[s] = sent[s]
      BY <1>2, <1>4, <3>1
    <3> QED
      BY <3>1, <3>2 DEF Unsent
  <2>2. ASSUME NEW q \in Rems, Live(q)'
        PROVE  /\ Unsent(rems[q].seq, rems[q].step + 1)'
               /\ ~Saving(q)' => sent'[rems'[q].seq][rems'[q].step] <= crashes'
    <3>1. CASE q = r
      <4>1. Saving(r)'
        BY <1>2, <1>6, <1>11 DEF Saving, At
      <4>2. Unsent(o.seq, n + 1)'
        <5>1. \A m \in 0 .. Steps : m >= n + 1 => m # n
          BY <1>2
        <5>2. n' = n /\ o.seq' = o.seq
          OBVIOUS
        <5> QED
          BY <1>4, <1>17, <5>1, <5>2 DEF Unsent
      <4> QED
        BY <1>2, <1>18, <3>1, <4>1, <4>2 DEF Unsent
    <3>2. CASE q # r
      <4>1. Live(q) /\ rems[q].seq # o.seq /\ rems[q].seq \in Seqs
        BY <1>12, <1>15, <2>2, <3>2, LiveStored DEF Reminder
      <4>2. Saving(q) => Saving(q)'
        BY <1>1, <1>11 DEF Saving, At, Tasks
      <4> QED
        BY <1>4, <1>18, <4>1, <4>2 DEF IInv, Tokens, SentBehind, Unsent
    <3> QED BY <3>1, <3>2
  <2>3. ASSUME NEW u \in Tasks, At(u, "schedule")' PROVE Unsent(task[u].seq, task[u].step)'
    <3>1. u # t /\ task'[u] = task[u] /\ At(u, "schedule")
      BY <1>6, <1>11, <2>3 DEF At
    <3>2. PICK v \in TaskRecord : v = task[u] /\ Sound(v)
      BY TaskFacts
    <3>3. v.seq \in Seqs /\ v.seq # o.seq
      BY <1>2, <3>1, <3>2 DEF Sound, At, IInv, Tokens, OneToken, Schedules
    <3> QED
      BY <1>4, <3>1, <3>2, <3>3 DEF IInv, Tokens, SentBehind, Unsent
  <2> QED
    BY <2>1, <2>2, <2>3 DEF SentBehind
<1>20. StepSentOnce'
  <2> SUFFICES ASSUME NEW s \in Seqs, NEW m \in 0 .. Steps
               PROVE  sent'[s][m] <= 1 + crashes
    BY <1>18 DEF StepSentOnce
  <2>1. sent[s][m] \in Nat /\ crashes \in Nat /\ sent[s][m] <= 1 + crashes
    BY SentNat DEF IInv, Tokens, StepSentOnce
  <2>2. CASE s = o.seq /\ m = n
    BY <1>4, <1>17, <2>1, <2>2
  <2>3. CASE ~(s = o.seq /\ m = n)
    BY <1>4, <2>1, <2>3
  <2> QED BY <2>2, <2>3
<1> QED
  BY <1>2, <1>7, <1>8, <1>10, <1>14, <1>19, <1>20, TaskStep DEF Tokens

\* A failed dispatch preserves the invariant.
LEMMA DispatchRaisesStep == ASSUME IInv, NEW t \in Runners, DispatchRaises(t) PROVE IInv'
<1>1. task[t].pc = "dispatch"
  BY DEF DispatchRaises, At
<1>2. PICK o \in TaskRecord, r \in Rems :
         /\ o = task[t] /\ Sound(o) /\ Housed(t, o)
         /\ t \in Tasks /\ t \notin Web /\ o.todo = {}
         /\ r = o.rem /\ CopyOf(o.copy, r) /\ o.batch[r] = NoCopy
         /\ o.seq = o.copy.seq
  BY <1>1, InHand DEF HeldAt
<1>3. Fresh(o.copy) /\ o.copy \in Reminder
  BY <1>1, <1>2 DEF Sound, HeldAt, Held, CopyOf
<1>4. PICK a \in 0 .. MaxAttempts : a = o.copy.attempts + 1
  BY <1>3, BoundsAssumption DEF Fresh, Reminder
<1>5. PICK c \in Reminder : /\ c = [o.copy EXCEPT !.attempts = a]
                            /\ c.seq = o.copy.seq /\ c.step = o.copy.step /\ c.attempts = a
  <2> DEFINE d == o.copy
  <2>1. d \in Reminder
    BY <1>3
  <2> HIDE DEF d
  <2>2. /\ [d EXCEPT !.attempts = a] \in Reminder
        /\ [d EXCEPT !.attempts = a].seq = d.seq
        /\ [d EXCEPT !.attempts = a].step = d.step
        /\ [d EXCEPT !.attempts = a].attempts = a
    BY <2>1 DEF Reminder
  <2> QED
    BY <2>2 DEF d
<1>6. PICK l \in {"save_retry", "save_failed"} :
          l = IF a < MaxAttempts THEN "save_retry" ELSE "save_failed"
  OBVIOUS
<1>7. PICK k \in TaskRecord : k = [o EXCEPT !.copy = c, !.pc = l]
  BY DEF TaskRecord
<1>8. /\ k.pc = l /\ k.rem = o.rem /\ k.copy = c /\ k.batch = o.batch
      /\ k.seq = o.seq /\ k.status = o.status /\ k.pend = o.pend /\ k.todo = o.todo
      /\ k.goal = o.goal
  BY <1>7 DEF TaskRecord
<1>9. Becomes(t, k)
  <2>1. [o EXCEPT !.copy.attempts = a,
                  !.pc = IF a < MaxAttempts THEN "save_retry" ELSE "save_failed"] = k
    BY <1>5, <1>6, <1>7 DEF TaskRecord
  <2>2. Becomes(t, [o EXCEPT !.copy.attempts = a,
                             !.pc = IF a < MaxAttempts THEN "save_retry" ELSE "save_failed"])
    BY <1>2, <1>4 DEF DispatchRaises
  <2> QED
    BY <2>1, <2>2
<1>10. StoresFine /\ (\A q \in Rems : Pends(q)' => Live(q))
  BY NothingSaved DEF DispatchRaises, IInv, TypeOK, Pends, Live
<1>11. Sound(o)'
  BY <1>2, <1>10, StillSound DEF StoresFine
<1>12. CopyOf(c, r)' /\ (l = "save_retry" => Fresh(c))
  BY <1>2, <1>5, <1>6 DEF DispatchRaises, CopyOf, Fresh
<1>13. Sound(k)' /\ Housed(t, k)
  BY <1>1, <1>2, <1>5, <1>8, <1>11, <1>12 DEF Sound, HeldAt, Held, Housed, TickAt
<1>14. \A q \in Rems : Carries(k, q) => Live(q)
  BY <1>1, <1>2, <1>8 DEF Carries, Live, HeldAt
<1> QED
  BY <1>1, <1>2, <1>8, <1>9, <1>10, <1>13, <1>14, PlainStep DEF DispatchRaises

\* The reminder in hand is settled and let go: no reminder of its sequence is live any
\* more, and no tick is at the save of a live one.
LEMMA LetGo ==
    ASSUME IInv, OneRunner, NEW t \in Runners, NEW o \in TaskRecord, o = task[t],
           o.pc \in HeldAt, NEW r \in Rems, r = o.rem, o.batch[r] = NoCopy,
           rems[r].seq = o.seq,
           NEW k \in TaskRecord, Becomes(t, k), k.batch = o.batch, k.pc \notin HeldAt,
           ~Pends(r)', \A q \in Rems \ {r} : rems'[q] = rems[q]
    PROVE  /\ task'[t] = k
           /\ \A u \in Tasks \ {t} : task'[u] = task[u]
           /\ \A q \in Rems : Live(q)' => Live(q) /\ rems[q].seq # o.seq /\ ~Saving(q)
           /\ \A u \in Tasks : ~Schedules(task[u], o.seq)
<1>1. t \in Tasks
  BY DEF Tasks
<1>2. task'[t] = k /\ \A u \in Tasks \ {t} : task'[u] = task[u]
  BY <1>1 DEF IInv, TypeOK, Becomes
<1>3. Live(r)
  BY DEF Live, Carries
<1>4. ~Live(r)'
  <2>1. ~Carries(task'[t], r)
    BY <1>2 DEF Carries
  <2> QED
    BY <2>1 DEF Live, OneRunner, Carries
<1>5. ASSUME NEW q \in Rems, q # r, Live(q)' PROVE Live(q)
  <2>1. Pends(q)' => Pends(q)
    BY <1>5 DEF Pends
  <2>2. \A u \in Runners : Carries(task'[u], q) => Carries(task[u], q)
    BY <1>2 DEF OneRunner, Carries
  <2> QED
    BY <1>5, <2>1, <2>2 DEF Live, Carries
<1>6. \A q \in Rems : Live(q) /\ q # r => rems[q].seq # o.seq
  BY <1>3 DEF IInv, Tokens, OneToken
<1>7. \A q \in Rems : Saving(q) => q = r
  BY DEF Saving, OneRunner
<1>8. \A u \in Tasks : ~Schedules(task[u], o.seq)
  BY <1>3 DEF IInv, Tokens, OneToken
<1> QED
  BY <1>2, <1>4, <1>5, <1>6, <1>7, <1>8

\* The tick moves on to the next step of the sequence.
LEMMA MovesOn ==
    ASSUME IInv, OneRunner, NEW t \in Runners, NEW o \in TaskRecord, o = task[t],
           o.pc \in HeldAt, NEW r \in Rems, r = o.rem, o.batch[r] = NoCopy,
           o.seq \in Seqs, rems[r].seq = o.seq, rems[r].step = o.copy.step,
           NEW n \in 0 .. Steps, n = o.copy.step + 1,
           NEW k \in TaskRecord, Becomes(t, k), k.batch = o.batch,
           k.pc = "schedule", k.seq = o.seq, k.step = n,
           ~Pends(r)', \A q \in Rems \ {r} : rems'[q] = rems[q],
           StoresFine, sent' = sent, crashes' = crashes, Sound(k)', Housed(t, k)
    PROVE  IInv'
<1>1. t \in Tasks /\ k.pc \notin HeldAt
  BY DEF Tasks, HeldAt
<1>2. /\ \A q \in Rems : Live(q)' => Live(q) /\ rems[q].seq # o.seq /\ ~Saving(q)
      /\ \A u \in Tasks : ~Schedules(task[u], o.seq)
  BY <1>1, LetGo
<1>3. Live(r)
  BY DEF Live, Carries
<1>4. Unsent(k.seq, k.step)
  BY <1>3 DEF IInv, Tokens, SentBehind
<1>5. Tokens'
  BY <1>1, <1>2, <1>4, TokensHanded DEF StoresFine
<1> QED
  BY <1>1, <1>5, TaskStep

\* SENT preserves the invariant: the token passes to the next step, or to nobody.
LEMMA SaveSentStep == ASSUME IInv, OneRunner, NEW t \in Runners, SaveSent(t) PROVE IInv'
<1>1. task[t].pc = "save_sent"
  BY DEF SaveSent, At
<1>2. PICK o \in TaskRecord, r \in Rems :
         /\ o = task[t] /\ Sound(o) /\ Housed(t, o)
         /\ t \in Tasks /\ t \notin Web /\ o.todo = {}
         /\ r = o.rem /\ CopyOf(o.copy, r) /\ o.batch[r] = NoCopy
         /\ o.seq \in Seqs /\ rems[r].seq = o.seq /\ rems[r].step = o.copy.step
         /\ o.copy.step \in 0 .. Steps /\ o.copy.step < Steps
  BY <1>1, InHand DEF HeldAt
<1>3. /\ StoresFine
      /\ ~Pends(r)'
      /\ \A q \in Rems \ {r} : rems'[q] = rems[q]
  <2>1. rems' = [rems EXCEPT ![r] = [o.copy EXCEPT !.status = "sent"]]
    BY <1>2 DEF SaveSent, SavesReminder
  <2>2. ripe' \in SUBSET Rems /\ UNCHANGED <<seqs, sent, requests, crashes>>
    BY DEF SaveSent, IInv, TypeOK
  <2>3. "sent" \in RemStatuses /\ "sent" \notin REMINDER_DUE_STATUSES
    BY DEF RemStatuses, REMINDER_DUE_STATUSES
  <2> QED
    BY <1>2, <2>1, <2>2, <2>3, HeldSaved
<1>4. Sound(o)'
  BY <1>2, <1>3, StillSound DEF StoresFine
<1>5. PICK n \in 0 .. Steps : n = o.copy.step + 1
  BY <1>2, StepsAssumption
<1>6. PICK l \in {"escalate", "schedule"} :
          l = IF o.copy.step \in Escalating THEN "escalate" ELSE "schedule"
  OBVIOUS
<1>7. PICK k \in TaskRecord : k = [o EXCEPT !.pc = l, !.step = n]
  BY DEF TaskRecord
<1>8. /\ k.pc = l /\ k.step = n /\ k.batch = o.batch /\ k.seq = o.seq /\ k.status = o.status
      /\ k.pend = o.pend /\ k.todo = o.todo /\ k.goal = o.goal
  BY <1>7 DEF TaskRecord
<1>9. Becomes(t, k)
  BY <1>2, <1>5, <1>6, <1>7 DEF SaveSent
<1>10. Sound(k)' /\ Housed(t, k)
  BY <1>1, <1>2, <1>4, <1>8 DEF Sound, HeldAt, Housed, TickAt
<1>11. sent' = sent /\ crashes' = crashes
  BY DEF SaveSent
<1>12. CASE l = "schedule"
  BY <1>1, <1>2, <1>3, <1>5, <1>8, <1>9, <1>10, <1>11, <1>12, MovesOn DEF HeldAt
<1>13. CASE l = "escalate"
  <2>1. o.pc \in HeldAt /\ k.pc \notin HeldAt
    BY <1>1, <1>2, <1>8, <1>13 DEF HeldAt
  <2>2. /\ task'[t] = k
        /\ \A u \in Tasks \ {t} : task'[u] = task[u]
        /\ \A q \in Rems : Live(q)' => Live(q) /\ ~Saving(q)
    BY <1>2, <1>3, <1>8, <1>9, <2>1, LetGo
  <2>3. \A u \in Tasks : At(u, "schedule")' => At(u, "schedule") /\ task'[u] = task[u]
    BY <1>8, <1>13, <2>2 DEF At
  <2>4. crashes' \in Nat /\ crashes' >= crashes
    BY <1>11, BoundsAssumption DEF IInv, TypeOK
  <2>5. Tokens'
    BY <1>3, <1>11, <2>2, <2>3, <2>4, TokensKept DEF StoresFine
  <2> QED
    BY <1>2, <1>3, <1>9, <1>10, <2>5, TaskStep
<1> QED BY <1>6, <1>12, <1>13

\* FAILED preserves it: the token passes to the next step.
LEMMA SaveFailedStep == ASSUME IInv, OneRunner, NEW t \in Runners, SaveFailed(t) PROVE IInv'
<1>1. task[t].pc = "save_failed"
  BY DEF SaveFailed, At
<1>2. PICK o \in TaskRecord, r \in Rems :
         /\ o = task[t] /\ Sound(o) /\ Housed(t, o)
         /\ t \in Tasks /\ t \notin Web /\ o.todo = {}
         /\ r = o.rem /\ CopyOf(o.copy, r) /\ o.batch[r] = NoCopy
         /\ o.seq \in Seqs /\ rems[r].seq = o.seq /\ rems[r].step = o.copy.step
         /\ o.copy.step \in 0 .. Steps /\ o.copy.step < Steps
  BY <1>1, InHand DEF HeldAt
<1>3. /\ StoresFine
      /\ ~Pends(r)'
      /\ \A q \in Rems \ {r} : rems'[q] = rems[q]
  <2>1. rems' = [rems EXCEPT ![r] = [o.copy EXCEPT !.status = "failed"]]
    BY <1>2 DEF SaveFailed, SavesReminder
  <2>2. ripe' \in SUBSET Rems /\ UNCHANGED <<seqs, sent, requests, crashes>>
    BY DEF SaveFailed, IInv, TypeOK
  <2>3. "failed" \in RemStatuses /\ "failed" \notin REMINDER_DUE_STATUSES
    BY DEF RemStatuses, REMINDER_DUE_STATUSES
  <2> QED
    BY <1>2, <2>1, <2>2, <2>3, HeldSaved
<1>4. Sound(o)'
  BY <1>2, <1>3, StillSound DEF StoresFine
<1>5. PICK n \in 0 .. Steps : n = o.copy.step + 1
  BY <1>2, StepsAssumption
<1>6. PICK k \in TaskRecord : k = [o EXCEPT !.pc = "schedule", !.step = n]
  BY DEF TaskRecord
<1>7. /\ k.pc = "schedule" /\ k.step = n /\ k.batch = o.batch /\ k.seq = o.seq
      /\ k.status = o.status /\ k.pend = o.pend /\ k.todo = o.todo /\ k.goal = o.goal
  BY <1>6 DEF TaskRecord
<1>8. Becomes(t, k)
  BY <1>2, <1>5, <1>6 DEF SaveFailed
<1>9. Sound(k)' /\ Housed(t, k)
  BY <1>1, <1>2, <1>4, <1>7 DEF Sound, HeldAt, Housed, TickAt
<1> QED
  BY <1>1, <1>2, <1>3, <1>5, <1>7, <1>8, <1>9, MovesOn DEF HeldAt, SaveFailed

\* The escalation preserves the invariant.
LEMMA EscalateStep == ASSUME IInv, NEW t \in Runners, Escalate(t) PROVE IInv'
<1>1. PICK o \in TaskRecord : o = task[t] /\ Sound(o) /\ Housed(t, o)
  BY TaskFacts DEF Tasks
<1>2. t \in Tasks /\ t \notin Web /\ o.pc = "escalate" /\ o.seq \in Seqs
  BY <1>1, TasksAssumption DEF Tasks, Escalate, At, Sound
<1>3. StoresFine /\ (\A r \in Rems : Pends(r)' => Live(r))
  BY <1>1, <1>2, SequenceSaved
     DEF Escalate, SeqStatuses, SEQUENCE_TERMINAL, Pends, Live
<1>4. Sound(o)'
  BY <1>1, <1>3, StillSound DEF StoresFine
<1>5. PICK k \in TaskRecord : k = [o EXCEPT !.pc = "list_pending", !.goal = "cancelled"]
  BY DEF TaskRecord
<1>6. /\ k.pc = "list_pending" /\ k.seq = o.seq /\ k.todo = o.todo
      /\ k.goal = "cancelled" /\ k.batch = o.batch /\ k.pend = o.pend
  BY <1>5 DEF TaskRecord
<1>7. Becomes(t, k)
  BY <1>1, <1>5 DEF Escalate
<1>8. Sound(k)' /\ Housed(t, k)
  BY <1>1, <1>2, <1>4, <1>6 DEF Sound, HeldAt, Housed, TickAt
<1>9. \A r \in Rems : Carries(k, r) => Live(r)
  BY <1>1, <1>6 DEF Carries, HeldAt, Live
<1> QED
  BY <1>1, <1>2, <1>3, <1>6, <1>7, <1>8, <1>9, PlainStep DEF Escalate

-----------------------------------------------------------------------------
(* Time, crashes, and the whole *)

\* A step in which no task moves preserves the invariant.
LEMMA NobodyMoves ==
    ASSUME IInv, UNCHANGED <<seqs, rems, sent, task, requests, crashes>>, ripe' \in SUBSET Rems
    PROVE  IInv'
<1>1. Grows /\ \A r \in Rems : Kept(r)'
  BY DEF Grows, IInv, Kept, Pends
<1>2. ASSUME NEW u \in Tasks PROVE Sound(task[u])' /\ Housed(u, task'[u])
  <2>1. PICK o \in TaskRecord : o = task[u] /\ Sound(o) /\ Housed(u, o)
    BY TaskFacts
  <2>2. Sound(o)' /\ task'[u] = o
    BY <1>1, <2>1, StillSound
  <2> QED
    BY <2>1, <2>2 DEF Sound
<1>3. \A r \in Rems : (Live(r)' <=> Live(r)) /\ (Saving(r)' <=> Saving(r))
  BY DEF Live, Pends, Saving, At
<1>4. crashes' \in Nat /\ crashes' >= crashes
  BY BoundsAssumption DEF IInv, TypeOK
<1>5. Tokens'
  BY <1>1, <1>3, <1>4, TokensKept DEF At
<1>6. TypeOK'
  BY DEF IInv, TypeOK
<1> QED
  BY <1>1, <1>2, <1>5, <1>6 DEF IInv, Housed

\* A crash preserves it: what dies with the token was sent once more than it says.
LEMMA CrashStep == ASSUME IInv, NEW S \in SUBSET Tasks, Crash(S) PROVE IInv'
<1>1. PICK i \in TaskRecord :
              /\ i = Idle
              /\ i.pc = "idle" /\ i.batch = Nothing /\ i.todo = {}
              /\ i.seq = NoSeq /\ i.pend = Nothing
  <2>1. Nothing \in Copies
    BY DEF Nothing, Copies
  <2> QED
    BY <2>1, BegunType DEF Idle
<1>2. \A u \in Tasks : task'[u] = IF u \in S THEN i ELSE task[u]
  BY <1>1 DEF Crash
<1>3. /\ crashes' = crashes + 1 /\ crashes' \in 0 .. MaxCrashes
      /\ crashes' \in Nat /\ crashes' >= crashes
  BY BoundsAssumption DEF Crash, IInv, TypeOK
<1>4. Grows /\ \A r \in Rems : Kept(r)'
  BY DEF Crash, Grows, IInv, Kept, Pends
<1>5. \A r \in Rems : Nothing[r] = NoCopy
  BY DEF Nothing
<1>6. Sound(i)' /\ \A u \in Tasks : Housed(u, i)
  BY <1>1, <1>5, NoneAssumption DEF Sound, HeldAt, Housed, WebAt, TickAt
<1>7. ASSUME NEW u \in Tasks PROVE Sound(task[u])' /\ Housed(u, task'[u])
  <2>1. CASE u \in S
    BY <1>2, <1>6, <2>1 DEF Sound
  <2>2. CASE u \notin S
    <3>1. PICK o \in TaskRecord : o = task[u] /\ Sound(o) /\ Housed(u, o)
      BY TaskFacts
    <3>2. Sound(o)' /\ task'[u] = o
      BY <1>2, <1>4, <2>2, <3>1, StillSound
    <3> QED
      BY <3>1, <3>2 DEF Sound
  <2> QED BY <2>1, <2>2
<1>8. \A r \in Rems : ~Carries(i, r)
  BY <1>1, <1>5 DEF Carries, HeldAt
<1>9. \A r \in Rems : Live(r)' => Live(r)
  <2>1. \A u \in Runners, r \in Rems : Carries(task'[u], r) => Carries(task[u], r)
    BY <1>2, <1>8 DEF Carries, Tasks
  <2> QED
    BY <2>1 DEF Live, Pends, Carries, Crash
<1>10. \A u \in Tasks : At(u, "schedule")' => At(u, "schedule") /\ task'[u] = task[u]
  BY <1>1, <1>2 DEF At
<1>11. Tokens'
  BY <1>3, <1>4, <1>9, <1>10, TokensKept DEF Crash
<1>12. TypeOK'
  <2>1. task' \in [Tasks -> TaskRecord]
    BY <1>1 DEF Crash, IInv, TypeOK
  <2> QED
    BY <1>3, <2>1 DEF Crash, IInv, TypeOK
<1> QED
  BY <1>4, <1>7, <1>11, <1>12 DEF IInv, Housed

\* Every step preserves the invariant.
LEMMA NextInv == ASSUME IInv, OneRunner, [Next]_vars PROVE IInv'
<1>1. ASSUME NEW t \in Web,
             StartSequence(t) \/ Suppress(t) \/ SuppressMatching(t) \/ Cancel(t)
      PROVE  IInv'
  BY <1>1, StartSequenceStep, StopSteps
<1>2. ASSUME NEW t \in Tasks, Stops(t) \/ ScheduleStep(t) \/ SaveSequence(t)
      PROVE  IInv'
  BY <1>2, NextStopStep, SaveStopStep, ListPendingStep, SavePendingStep, ScheduleStepStep,
     SaveSequenceStep DEF Stops
<1>3. ASSUME NEW t \in Web, WebStep(t) PROVE IInv'
  BY <1>2, <1>3, CreateSequenceStep DEF WebStep, Tasks
<1>4. ASSUME NEW t \in Runners, RunDue(t) PROVE IInv'
  BY <1>4, RunDueStep
<1>5. ASSUME NEW t \in Runners, TickStep(t) PROVE IInv'
  <2>1. CASE NextDue(t) \/ SuppressReminder(t) \/ DispatchReturns(t) \/ DispatchRaises(t)
    BY <2>1, NextDueStep, SuppressReminderStep, DispatchReturnsStep, DispatchRaisesStep
  <2>2. CASE SaveSent(t) \/ SaveRetry(t) \/ SaveFailed(t) \/ Escalate(t)
    BY <2>2, SaveSentStep, SaveRetryStep, SaveFailedStep, EscalateStep
  <2>3. CASE ScheduleStep(t) \/ SaveSequence(t) \/ ListPending(t) \/ SavePending(t)
    BY <1>2, <2>3 DEF Stops, Tasks
  <2> QED
    BY <1>5, <2>1, <2>2, <2>3 DEF TickStep
<1>6. ASSUME NEW S \in SUBSET Tasks, Crash(S) PROVE IInv'
  BY <1>6, CrashStep
<1>7. ASSUME NEW r \in Rems, Ripen(r) PROVE IInv'
  <2>1. ripe' \in SUBSET Rems
    BY <1>7 DEF Ripen, IInv, TypeOK
  <2> QED
    BY <1>7, <2>1, NobodyMoves DEF Ripen
<1>8. CASE UNCHANGED vars
  BY <1>8, NobodyMoves DEF vars, IInv, TypeOK
<1>9. Web \in SUBSET Tasks /\ \A t \in Runners : {t} \in SUBSET Tasks
  BY DEF Tasks
<1> QED
  BY <1>1, <1>3, <1>4, <1>5, <1>6, <1>7, <1>8, <1>9 DEF Next

\* The initial state satisfies the invariant: there is nothing yet.
LEMMA InitInv == ASSUME Init PROVE IInv
<1>1. Nothing \in Copies /\ \A r \in Rems : Nothing[r] = NoCopy
  BY DEF Nothing, Copies
<1>2. PICK i \in TaskRecord :
              /\ i = Idle
              /\ i.pc = "idle" /\ i.batch = Nothing /\ i.todo = {}
              /\ i.seq = NoSeq /\ i.pend = Nothing
  BY <1>1, BegunType DEF Idle
<1>3. \A t \in Tasks : task[t] = i
  BY <1>2 DEF Init
<1>4. TypeOK
  <2>1. /\ seqs \in [Seqs -> SeqStatuses \cup {"absent"}]
        /\ rems \in Copies
        /\ ripe \in SUBSET Rems
    BY <1>1 DEF Init
  <2>2. sent \in [Seqs -> [0 .. Steps -> Nat]]
    BY DEF Init
  <2>3. task \in [Tasks -> TaskRecord]
    BY <1>2 DEF Init
  <2>4. requests \in 0 .. MaxRequests /\ crashes \in 0 .. MaxCrashes
    BY BoundsAssumption DEF Init
  <2> QED
    BY <2>1, <2>2, <2>3, <2>4 DEF TypeOK
<1>5. \A t \in Tasks : Sound(task[t]) /\ Housed(t, task[t])
  <2>1. Sound(i) /\ \A t \in Tasks : Housed(t, i)
    BY <1>1, <1>2, NoneAssumption DEF Sound, HeldAt, Housed, WebAt, TickAt
  <2> QED
    BY <1>3, <2>1
<1>6. \A r \in Rems : rems[r] = NoCopy
  BY <1>1 DEF Init
<1>7. \A r \in Rems : Kept(r)
  BY <1>6 DEF Kept
<1>8. \A r \in Rems : ~Live(r)
  BY <1>1, <1>2, <1>3, <1>6
     DEF Live, Pends, Carries, HeldAt, NoCopy, REMINDER_DUE_STATUSES, Tasks
<1>9. \A s \in Seqs : \A n \in 0 .. Steps : sent[s][n] = 0
  BY DEF Init
<1>10. \A t \in Tasks : ~At(t, "schedule")
  BY <1>2, <1>3 DEF At
<1>11. Tokens
  <2>1. OneToken
    BY <1>8, <1>10 DEF OneToken, Schedules, At
  <2>2. SentBehind
    BY <1>8, <1>9, <1>10 DEF SentBehind, Unsent
  <2>3. StepSentOnce
    BY <1>9 DEF StepSentOnce, Init
  <2> QED
    BY <2>1, <2>2, <2>3 DEF Tokens
<1> QED
  BY <1>4, <1>5, <1>7, <1>11 DEF IInv

\* IInv is an invariant of the service whose ticks do not overlap.
LEMMA NudgeInvariance == ASSUME OneRunner PROVE Spec => []IInv
<1>1. Init => IInv
  BY InitInv
<1>2. IInv /\ [Next]_vars => IInv'
  BY NextInv
<1> QED
  BY <1>1, <1>2, PTL DEF Spec

\* Every record and copy has its type, and at most one reminder per sequence is
\* pending, whatever requests stop while a tick is at it and wherever it crashes
\* (_schedule_step, run_due).
THEOREM NudgeCorrect == ASSUME OneRunner PROVE Spec => []NudgeInv
<1>1. ASSUME IInv PROVE OnePending
  BY <1>1 DEF IInv, Tokens, OneToken, OnePending, Pending, Live, Pends
<1>2. IInv => NudgeInv
  BY <1>1 DEF IInv, NudgeInv
<1> QED
  BY <1>2, NudgeInvariance, PTL

\* A step of a sequence is dispatched once, and once more for each crash at most
\* (_dispatch_reminder).
THEOREM SentOnceCorrect == ASSUME OneRunner PROVE Spec => []StepSentOnce
<1>1. IInv => StepSentOnce
  BY DEF IInv, Tokens
<1> QED
  BY <1>1, NudgeInvariance, PTL

=============================================================================
