------------------------------ MODULE EventStream ------------------------------
(***************************************************************************)
(* The unified event stream (app/shared/events) and the visibility process *)
(* that consumes it (app/services/visibility).  Events are numbered in the *)
(* order they were added; what they say is left out.  The consumer reads   *)
(* only new entries, hands each to the activity log, counts it, and acks.  *)
(***************************************************************************)
EXTENDS Integers, Sequences, SequencesExt

CONSTANTS
    BatchSize,         \* settings.batch_size
    MaxLen,            \* settings.max_len: older entries are trimmed
    MaxEvents,         \* bound: events published
    MaxConsumerFaults  \* bound: crashes, failed appends, publishes that fail

ASSUME StreamConstants == /\ BatchSize \in Nat \ {0}
                          /\ MaxLen \in Nat \ {0}
                          /\ MaxEvents \in Nat
                          /\ MaxConsumerFaults \in Nat

VARIABLES
    published,   \* how many entries were added to the stream
    cursor,      \* the last entry delivered to the consumer group
    inhand,       \* the entries consume_once has still to go through
    noted,       \* whether the first of them was already dispatched
    activities,  \* the activity log
    counted,     \* MetricsProjection._total, in the consumer's memory
    missed,      \* entries that no longer can be recorded
    glitches

streamVars == <<published, cursor, inhand, noted, activities, counted, missed, glitches>>

StreamTypeOK ==
    /\ published \in Nat
    /\ cursor \in 0..published
    /\ \A i \in DOMAIN inhand : inhand[i] \in 1..cursor
    /\ Len(inhand) <= BatchSize
    /\ noted \in BOOLEAN
    /\ counted \in Nat
    /\ missed \subseteq 1..published
    /\ glitches \in 0..MaxConsumerFaults
    /\ ToSet(activities) \cap missed = {}

StreamInit ==
    /\ published = 0
    /\ cursor = 0
    /\ inhand = <<>>
    /\ noted = FALSE
    /\ activities = <<>>
    /\ counted = 0
    /\ missed = {}
    /\ glitches = 0

Glitch == /\ glitches < MaxConsumerFaults
          /\ glitches' = glitches + 1

-----------------------------------------------------------------------------

\* The oldest entry the stream still holds, and the new ones it does not.
Oldest(n) == IF n > MaxLen THEN n - MaxLen + 1 ELSE 1
Trimmed(n) == (cursor + 1)..(Oldest(n) - 1)

\* The forwarder's XADD of one more event, which trims the stream, or its
\* failure, which the in-process bus swallows: the producer never knows.
Publish ==
    \/ /\ published' = published + 1
       /\ missed' = missed \cup Trimmed(published')
       /\ UNCHANGED <<cursor, inhand, noted, activities, counted, glitches>>
    \/ /\ Glitch
       /\ UNCHANGED <<published, cursor, inhand, noted, activities, counted, missed>>

\* read: the next entries that were never delivered.
Read ==
    /\ inhand = <<>>
    /\ cursor < published
    /\ LET from == IF cursor + 1 < Oldest(published) THEN Oldest(published) ELSE cursor + 1
           upto == IF published - from >= BatchSize THEN from + BatchSize - 1 ELSE published
       IN /\ inhand' = [i \in 1..(upto - from + 1) |-> from + i - 1]
          /\ cursor' = upto
    /\ noted' = FALSE
    /\ UNCHANGED <<published, activities, counted, missed, glitches>>

\* record: appended to the store, then counted; an exception of the store
\* skips the counting.
Records(stored) ==
    /\ activities' = IF stored THEN Append(activities, inhand[1]) ELSE activities
    /\ counted' = IF stored THEN counted + 1 ELSE counted

\* _dispatch hands the entry to the handler and swallows what it raises.
Dispatch ==
    /\ inhand # <<>>
    /\ ~noted
    /\ \/ Records(TRUE) /\ UNCHANGED <<missed, glitches>>
       \/ Records(FALSE) /\ Glitch /\ missed' = missed \cup {inhand[1]}
    /\ noted' = TRUE
    /\ UNCHANGED <<published, cursor, inhand>>

\* Faulty: what the handler raised ends the loop over the batch.
FaultyAck ==
    /\ inhand # <<>>
    /\ noted
    /\ inhand[1] \notin missed
    /\ inhand' = Tail(inhand)
    /\ noted' = FALSE
    /\ UNCHANGED <<published, cursor, activities, counted, missed, glitches>>

\* The entry is acked, recorded or not.
Ack ==
    /\ inhand # <<>>
    /\ noted
    /\ inhand' = Tail(inhand)
    /\ noted' = FALSE
    /\ UNCHANGED <<published, cursor, activities, counted, missed, glitches>>

\* Faulty: the restarted consumer begins with its unacked entries.
FaultyCrash ==
    /\ Glitch
    /\ cursor' = cursor - Len(inhand)
    /\ inhand' = <<>>
    /\ noted' = FALSE
    /\ counted' = 0
    /\ UNCHANGED <<published, activities, missed>>

\* The consumer dies and is started again: it reads ">", so what was delivered
\* and not recorded is not seen again, and the projections start from zero.
Crash ==
    /\ Glitch
    /\ missed' = missed \cup (ToSet(inhand) \ ToSet(activities))
    /\ inhand' = <<>>
    /\ noted' = FALSE
    /\ counted' = 0
    /\ UNCHANGED <<published, cursor, activities>>

Consume == Read \/ Dispatch \/ Ack

-----------------------------------------------------------------------------

(***************************************************************************)
(* Properties.                                                             *)
(***************************************************************************)
\* The activity log holds an event at most once and in the order in which
\* the stream has them, through crashes and failed appends (consume_once).
RecordedInOrder ==
    \A i \in 1..(Len(activities) - 1) : activities[i] < activities[i + 1]

\* The dashboard never counts what the activity log does not hold (record).
MetricsBacked == counted <= Len(activities)

\* Every event on the stream is recorded in the end, unless the store refused
\* it, the consumer died with it in hand, or it was trimmed before being read.
EventSeen ==
    \A i \in 1..MaxEvents :
       published >= i ~> i \in ToSet(activities) \cup missed

=============================================================================
