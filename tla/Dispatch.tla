------------------------------ MODULE Dispatch ------------------------------
(***************************************************************************)
(* The dispatcher's locks.  An inbound message holds the lock of its own   *)
(* channel; when the SME's run lives on the other channel it takes that    *)
(* lock as well.  A step is what happens between two awaits.  RunLifecycle *)
(* follows one run through the runtime; here the subject is which inbounds *)
(* drive which run at the same time.                                       *)
(*                                                                         *)
(* The run of an SME and of each stranger is known by its key: the channel *)
(* it was started on.                                                      *)
(***************************************************************************)
EXTENDS Naturals, Sequences, FiniteSets, SequencesExt

CONSTANTS
    Deliveries,    \* inbound deliveries
    Messages,      \* message ids; a redelivery has the id of an earlier one
    Strangers,     \* keys of other SMEs
    LocksMax,      \* entries of the lock table (2048)
    Outside        \* what else touches runs: webhooks, campaigns at any time,
                   \* campaigns that only start while no message is under way

SmeKeys == {"whatsapp", "email"}
Keys    == SmeKeys \cup Strangers
Other(k) == IF k = "whatsapp" THEN "email" ELSE "whatsapp"

ASSUME LocksMaxAssumption == LocksMax \in Nat \ {0}
ASSUME MessagesAssumption == Messages # {}
ASSUME OutsideAssumption  == Outside \subseteq {"webhook", "campaign", "quiet campaign"}

VARIABLES
    task,      \* deliveries being dispatched
    table,     \* the lock table, oldest first: <<key, lock>>
    held,      \* locks that are held
    made,      \* locks made so far
    run,       \* the run of each key's session
    seen,      \* message ids that were claimed
    acked,     \* claimed acknowledgements of a switch
    handled    \* runs that took a message

vars == <<task, table, held, made, run, seen, acked, handled>>

Pcs == {"idle", "table", "lock", "session", "resume", "revived", "resolve", "table2", "lock2", "resume2",
        "ping", "start", "replay", "done"}

Idle == [pc |-> "idle", key |-> "whatsapp", msg |-> CHOOSE m \in Messages : TRUE, lock |-> 0, lock2 |-> 0]

\* The locks that a delivery holds
Holds(d) ==
    (IF task[d].pc \in {"idle", "table", "lock", "done"} THEN {} ELSE {task[d].lock})
    \cup (IF task[d].pc = "resume2" THEN {task[d].lock2} ELSE {})

\* The lock table keeps its bound, and a lock is held only while a delivery is
\* inside its section: none is leaked on any way out of _dispatch_locked.
TypeOK ==
    /\ \A d \in Deliveries : task[d].pc \in Pcs /\ task[d].key \in Keys /\ task[d].msg \in Messages
                             /\ {task[d].lock, task[d].lock2} \subseteq 0 .. made
    /\ Len(table) <= LocksMax
    /\ held \subseteq 1 .. made /\ held \subseteq UNION {Holds(d) : d \in Deliveries}
    /\ \A k \in Keys : run[k] \in {"none", "live", "failed", "over"}
    /\ seen \subseteq Messages

Init ==
    /\ task = [d \in Deliveries |-> Idle]
    /\ table = <<>> /\ held = {} /\ made = 0
    /\ run \in [Keys -> {"none", "live", "over"}]
    /\ ~(run["whatsapp"] = "live" /\ run["email"] = "live")
    /\ seen = {} /\ acked = {}
    /\ handled = [m \in Messages |-> 0]

-----------------------------------------------------------------------------
(* Steps of a delivery *)

\* What a resume makes of a run: it parks again, ends, or fails.
Outcomes(k) == IF run[k] = "live" THEN {"live", "over", "failed"} ELSE {run[k]}

At(d, pc)  == task[d].pc = pc
Goes(d, pc) == task' = [task EXCEPT ![d].pc = pc]

\* The run of key k takes the delivery's message, unless the resume raised.
Drives(d, k) ==
    \E s \in Outcomes(k) :
        /\ run' = [run EXCEPT ![k] = s]
        /\ handled' = IF run[k] = "live" /\ s # "failed" THEN [handled EXCEPT ![task[d].msg] = @ + 1] ELSE handled

\* Faulty: duplicates are let through.
FaultyReceive(d, k, m) ==
    /\ At(d, "idle")
    /\ seen' = seen \cup {m}
    /\ task' = [task EXCEPT ![d] = [Idle EXCEPT !.pc = "table", !.key = k, !.msg = m]]
    /\ UNCHANGED <<table, held, made, run, acked, handled>>

\* _dispatch: a message id is claimed before anything is done for it.
Receive(d, k, m) ==
    /\ At(d, "idle")
    /\ seen' = seen \cup {m}
    /\ task' = [task EXCEPT ![d] = [Idle EXCEPT !.pc = IF m \in seen THEN "done" ELSE "table",
                                                !.key = k, !.msg = m]]
    /\ UNCHANGED <<table, held, made, run, acked, handled>>

\* _identity_lock: the entry moves to the end, or a new one is made and the
\* oldest entries go, whether or not their lock is held.
Trimmed(q) == SubSeq(q, IF Len(q) > LocksMax THEN Len(q) - LocksMax + 1 ELSE 1, Len(q))

IdentityLock(k, l) ==
    \/ /\ \E i \in DOMAIN table :
             table[i] = <<k, l>> /\ table' = Append(RemoveAt(table, i), <<k, l>>)
       /\ UNCHANGED made
    \/ /\ \A i \in DOMAIN table : table[i][1] # k
       /\ l = made + 1 /\ made' = made + 1
       /\ table' = Trimmed(Append(table, <<k, l>>))

LooksUp(d) ==
    /\ At(d, "table")
    /\ \E l \in 1 .. made + 1 :
           IdentityLock(task[d].key, l) /\ task' = [task EXCEPT ![d].pc = "lock", ![d].lock = l]
    /\ UNCHANGED <<held, run, seen, acked, handled>>

Acquires(d) ==
    /\ At(d, "lock") /\ task[d].lock \notin held
    /\ held' = held \cup {task[d].lock}
    /\ Goes(d, "session")
    /\ UNCHANGED <<table, made, run, seen, acked, handled>>

\* _dispatch_locked: resume a live run, revive a failed one, or look further.
Session(d) ==
    /\ At(d, "session")
    /\ Goes(d, CASE run[task[d].key] = "live"   -> "resume"
                 [] run[task[d].key] = "failed" -> "revived"
                 [] OTHER                       -> "resolve")
    /\ run' = IF run[task[d].key] = "failed" THEN [run EXCEPT ![task[d].key] = "live"] ELSE run
    /\ UNCHANGED <<table, held, made, seen, acked, handled>>

Releases(d, locks) == held' = held \ locks

Resumes(d) ==
    /\ At(d, "resume")
    /\ Drives(d, task[d].key)
    /\ Releases(d, {task[d].lock}) /\ Goes(d, "done")
    /\ UNCHANGED <<table, made, seen, acked>>

\* When the revived run fails again a fresh one is started.
ResumesRevived(d) ==
    LET k == task[d].key
    IN  /\ At(d, "revived")
        /\ Drives(d, k)
        /\ IF handled' # handled THEN Releases(d, {task[d].lock}) /\ Goes(d, "done")
                                 ELSE UNCHANGED held /\ Goes(d, "resolve")
        /\ UNCHANGED <<table, made, seen, acked>>

\* _resolve_canonical_run: nothing is found when in doubt.
Resolves(d) ==
    /\ At(d, "resolve")
    /\ \/ task[d].key \in SmeKeys /\ run[Other(task[d].key)] = "live" /\ Goes(d, "table2")
       \/ Goes(d, "start")
    /\ UNCHANGED <<table, held, made, run, seen, acked, handled>>

\* Faulty: the lock of the message's own channel is asked for again.
FaultyLooksUpCanonical(d) ==
    /\ At(d, "table2")
    /\ \E l \in 1 .. made + 1 :
           IdentityLock(task[d].key, l)
           /\ task' = [task EXCEPT ![d].pc = "lock2", ![d].lock2 = l]
    /\ UNCHANGED <<held, run, seen, acked, handled>>

LooksUpCanonical(d) ==
    /\ At(d, "table2")
    /\ \E l \in 1 .. made + 1 :
           IdentityLock(Other(task[d].key), l)
           /\ task' = [task EXCEPT ![d].pc = "lock2", ![d].lock2 = l]
    /\ UNCHANGED <<held, run, seen, acked, handled>>

\* Faulty: the run on the other channel is resumed without its lock.
FaultyAcquiresCanonical(d) ==
    /\ At(d, "lock2") /\ Goes(d, "resume2")
    /\ UNCHANGED <<table, held, made, run, seen, acked, handled>>

\* The other lock, and the acknowledgement on the new channel
AcquiresCanonical(d) ==
    /\ At(d, "lock2") /\ task[d].lock2 \notin held
    /\ held' = held \cup {task[d].lock2}
    /\ acked' = acked \cup {<<"dest_ack", task[d].key>>}
    /\ Goes(d, "resume2")
    /\ UNCHANGED <<table, made, run, seen, handled>>

\* The run may be over by now; then, or when it fails, a fresh one is started.
ResumesCanonical(d) ==
    LET k == Other(task[d].key)
    IN  /\ At(d, "resume2")
        /\ Drives(d, k)
        /\ Releases(d, {task[d].lock2})
        /\ Goes(d, IF handled' # handled THEN "ping" ELSE "start")
        /\ UNCHANGED <<table, made, seen, acked>>

\* _maybe_switch_ping
Pings(d) ==
    /\ At(d, "ping")
    /\ acked' = acked \cup {<<"switch_ping", Other(task[d].key)>>}
    /\ Releases(d, {task[d].lock}) /\ Goes(d, "done")
    /\ UNCHANGED <<table, made, run, seen, handled>>

\* A fresh run; when it parks at an upload and the message has a file, the
\* message is played again.
Starts(d) ==
    /\ At(d, "start")
    /\ run' = [run EXCEPT ![task[d].key] = "live"]
    /\ \/ /\ Goes(d, "done") /\ Releases(d, {task[d].lock})
          /\ handled' = [handled EXCEPT ![task[d].msg] = @ + 1]
       \/ Goes(d, "replay") /\ UNCHANGED <<held, handled>>
    /\ UNCHANGED <<table, made, seen, acked>>

Replays(d) ==
    /\ At(d, "replay")
    /\ Drives(d, task[d].key)
    /\ Releases(d, {task[d].lock}) /\ Goes(d, "done")
    /\ UNCHANGED <<table, made, seen, acked>>

-----------------------------------------------------------------------------
(* Backend webhooks and the poller resume a run, and a campaign starts one,   *)
(* without these locks.                                                       *)

Webhook(k) ==
    /\ "webhook" \in Outside /\ run[k] = "live"
    /\ \E s \in {"over", "failed"} : run' = [run EXCEPT ![k] = s]
    /\ UNCHANGED <<task, table, held, made, seen, acked, handled>>

Campaign(k) ==
    /\ Outside \cap {"campaign", "quiet campaign"} # {} /\ run[k] # "live"
    /\ "campaign" \notin Outside => \A d \in Deliveries : task[d].pc \in {"idle", "done"}
    /\ run' = [run EXCEPT ![k] = "live"]
    /\ UNCHANGED <<task, table, held, made, seen, acked, handled>>

Step(d) ==
    \/ LooksUp(d) \/ Acquires(d) \/ Session(d) \/ Resumes(d) \/ ResumesRevived(d) \/ Resolves(d)
    \/ LooksUpCanonical(d) \/ AcquiresCanonical(d) \/ ResumesCanonical(d) \/ Pings(d)
    \/ Starts(d) \/ Replays(d)

\* The event loop goes on when nothing can move; a delivery that waits for a
\* lock for ever is what InboundEnds is about.
LoopIdles == UNCHANGED vars

Next ==
    \/ \E d \in Deliveries : Step(d) \/ \E k \in Keys, m \in Messages : Receive(d, k, m)
    \/ \E k \in Keys : Webhook(k) \/ Campaign(k)
    \/ LoopIdles

Spec     == Init /\ [][Next]_vars
FairSpec == Spec /\ \A d \in Deliveries : WF_vars(Step(d))

-----------------------------------------------------------------------------
(* Properties *)

\* The run a delivery is driving
Driving(d) ==
    CASE task[d].pc \in {"resume", "revived", "start", "replay"} -> {task[d].key}
      [] task[d].pc = "resume2"                                  -> {Other(task[d].key)}
      [] OTHER                                                   -> {}

\* No two inbounds drive one run at the same time, whichever channels they came
\* in on (the two-lock section of _dispatch_locked).
OneInboundPerRun == \A d, e \in Deliveries : d # e => Driving(d) \cap Driving(e) = {}

\* The lock table keeps its bound, no lock is leaked on any way out of
\* _dispatch_locked, and what the locks are for holds.
LocksInv == TypeOK /\ OneInboundPerRun

\* A message is taken by one run, once: a redelivery is not played through the
\* workflow again, nor is what was resumed also given to a fresh run.
HandledOnce == \A m \in Messages : handled[m] <= 1

\* Every inbound that was let in is dispatched: nobody waits for a lock for ever.
InboundEnds == \A d \in Deliveries : At(d, "table") ~> At(d, "done")

=============================================================================
