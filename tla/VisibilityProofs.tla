-------------------------- MODULE VisibilityProofs --------------------------
(***************************************************************************)
(* Proofs about Visibility and the two modules it composes: the broadcast  *)
(* of a campaign, for any file, any number of submissions and restarts,    *)
(* and the event stream, for any bounds, batch size and length.            *)
(***************************************************************************)
EXTENDS Visibility, FiniteSetTheorems, SequenceTheorems, TLAPS

-----------------------------------------------------------------------------
(* The event stream *)

\* The last entry the consumer is done with.
Passed == cursor - Len(inhand) + (IF noted THEN 1 ELSE 0)

StreamShape ==
    /\ published \in Nat /\ cursor \in 0..published
    /\ noted \in BOOLEAN /\ counted \in Nat /\ glitches \in 0..MaxConsumerFaults
    /\ inhand \in Seq(Nat) /\ activities \in Seq(Nat)
    /\ missed \subseteq 1..published

\* What is in hand are the last entries delivered, and the one noted is among them.
HandInv ==
    /\ Len(inhand) <= BatchSize /\ Len(inhand) <= cursor
    /\ \A i \in 1..Len(inhand) : inhand[i] = cursor - Len(inhand) + i
    /\ noted => inhand # <<>>

\* The log holds entries the consumer is done with, in order.  What is missed is one
\* of those too, or was trimmed before it was read.
LedgerOfEvents ==
    /\ \A i \in 1..Len(activities) : activities[i] \in 1..Passed /\ activities[i] \notin missed
    /\ RecordedInOrder
    /\ MetricsBacked
    /\ \A m \in missed : m <= Passed \/ (m > cursor /\ m < Oldest(published))

StreamInv == StreamShape /\ HandInv /\ LedgerOfEvents

-----------------------------------------------------------------------------
(* The broadcast *)

Counts(n) == {r \in [status : {"none", "queued", "in_progress", "completed"},
                     sent : Nat, failed : Nat] : r.sent + r.failed = n}

\* The rows up to n whose phone was never started.
Unstarted(n) == {i \in 1..n : starts[Csv[i]] = 0}

BatchRecord == UNION {Counts(n) : n \in 0..Len(Csv)}

TaskRecord == [at : {"none", "queued", "rows", "finished", "dead"},
               row : 0..Len(Csv), copy : BatchRecord]

CastShape ==
    /\ submission \in [Submissions -> [at : Over \cup {"lookup", "save"},
                                       id : Submissions \cup {NoBatch}]]
    /\ key \in Submissions \cup {NoBatch}
    /\ batch \in [Submissions -> BatchRecord]
    /\ task \in [Submissions -> TaskRecord]
    /\ starts \in [Phones -> Nat]
    /\ running \subseteq Phones /\ locked \subseteq Phones
    /\ restarts \in 0..MaxRestarts

\* A task's copy counts the rows it is past, and at least as many failures as there
\* are phones among them that were never started.  Whatever runs was started.
Working(k) ==
    /\ k.copy.status \in {"queued", "in_progress"}
    /\ k.copy.sent + k.copy.failed = k.row
    /\ Cardinality(Unstarted(k.row)) <= k.copy.failed
    /\ k.at = "queued" => k.row = 0

CountsInv ==
    /\ \A s \in Submissions :
          task[s].at \in {"queued", "rows"} =>
             Working(task[s]) /\ submission[s].id \in Submissions
    /\ \A s \in Submissions :
          submission[s].at \in {"lookup", "save"} => submission[s].id \in Submissions
    /\ \A p \in running : starts[p] > 0
    /\ CompletedIsWhole

CastInv == CastShape /\ CountsInv

\* When submissions are handled one at a time: those that came by took the key's
\* batch; the record of it and its task come together, with one of them.
OneAtATime ==
    /\ \A s, t \in Submissions :
          submission[s].at \notin Over /\ submission[t].at \notin Over => s = t
    /\ key \notin Submissions =>
          \A s \in Submissions :
             submission[s].at = "idle" /\ task[s].at = "none" /\ batch[s].status = "none"
    /\ key \in Submissions => submission[key].at # "idle"
    /\ \A s \in Submissions :
          /\ submission[s].at # "idle" => submission[s].id = key
          /\ submission[s].at = "save" => batch[key].status = "none"
          /\ task[s].at # "none" => submission[s].at = "done" /\ batch[key].status # "none"
    /\ \A s, t \in Submissions : task[s].at # "none" /\ task[t].at # "none" => s = t

-----------------------------------------------------------------------------
(* The stream's invariant is inductive. *)

\* The nature of the counters and sequences, for arithmetic.
LEMMA StreamFacts ==
    ASSUME StreamInv
    PROVE  /\ published \in Nat /\ cursor \in Nat /\ cursor <= published
           /\ Len(inhand) \in Nat /\ Len(activities) \in Nat /\ Passed \in Nat
           /\ Passed <= cursor
           /\ inhand # <<>> <=> Len(inhand) > 0
           /\ Oldest(published) \in Nat /\ Oldest(published) >= 1
           /\ MaxLen \in Nat /\ MaxLen >= 1 /\ BatchSize \in Nat /\ BatchSize >= 1
<1>1. published \in Nat /\ cursor \in Nat /\ cursor <= published
  BY DEF StreamInv, StreamShape
<1>2. Len(inhand) \in Nat /\ Len(activities) \in Nat /\ (inhand # <<>> <=> Len(inhand) > 0)
  BY EmptySeq, LenProperties DEF StreamInv, StreamShape
<1>3. MaxLen \in Nat /\ MaxLen >= 1 /\ BatchSize \in Nat /\ BatchSize >= 1
  BY StreamConstants
<1>4. Passed \in Nat /\ Passed <= cursor
  BY <1>1, <1>2 DEF Passed, StreamInv, HandInv, StreamShape
<1>5. Oldest(published) \in Nat /\ Oldest(published) >= 1
  BY <1>1, <1>3 DEF Oldest
<1> QED
  BY <1>1, <1>2, <1>3, <1>4, <1>5

\* An event that is published, or lost, preserves the invariant.
LEMMA PublishStep == ASSUME StreamInv, Publish PROVE StreamInv'
<1>1. CASE /\ published' = published + 1
           /\ missed' = missed \cup Trimmed(published')
           /\ UNCHANGED <<cursor, inhand, noted, activities, counted, glitches>>
  <2>1. /\ Passed' = Passed
        /\ Oldest(published') \in Nat
        /\ Oldest(published) <= Oldest(published') /\ Oldest(published') <= published' + 1
    BY <1>1, StreamFacts DEF Passed, Oldest
  <2>2. \A m \in Trimmed(published') : m > cursor /\ m < Oldest(published') /\ m \in 1..published'
    BY <1>1, <2>1, StreamFacts DEF Trimmed
  <2>3. StreamShape'
    <3>1. published' \in Nat /\ cursor' \in 0..published'
      BY <1>1, StreamFacts
    <3>2. ASSUME NEW m \in missed' PROVE m \in 1..published'
      <4>1. CASE m \in missed
        BY <1>1, <4>1, StreamFacts DEF StreamInv, StreamShape
      <4>2. CASE m \in Trimmed(published')
        BY <2>2, <4>2
      <4> QED
        BY <1>1, <4>1, <4>2
    <3> QED
      BY <1>1, <3>1, <3>2 DEF StreamInv, StreamShape
  <2>4. HandInv'
    BY <1>1 DEF StreamInv, HandInv
  <2>5. \A i \in 1..Len(activities) : activities[i] \in 1..Passed /\ activities[i] \notin missed'
    BY <1>1, <2>2, StreamFacts DEF StreamInv, LedgerOfEvents
  <2>6. \A m \in missed' : m <= Passed' \/ (m > cursor' /\ m < Oldest(published'))
    <3> SUFFICES ASSUME NEW m \in missed'
                 PROVE  m <= Passed \/ (m > cursor /\ m < Oldest(published'))
      BY <1>1, <2>1
    <3>1. CASE m \in missed
      <4>1. m \in Nat
        BY <3>1 DEF StreamInv, StreamShape
      <4> QED
        BY <2>1, <3>1, <4>1, StreamFacts DEF StreamInv, LedgerOfEvents
    <3>2. CASE m \in Trimmed(published')
      BY <2>2, <3>2
    <3> QED BY <1>1, <3>1, <3>2
  <2>7. LedgerOfEvents'
    BY <1>1, <2>1, <2>5, <2>6 DEF StreamInv, LedgerOfEvents, RecordedInOrder, MetricsBacked
  <2> QED
    BY <2>3, <2>4, <2>7 DEF StreamInv
<1>2. CASE Glitch /\ UNCHANGED <<published, cursor, inhand, noted, activities, counted, missed>>
  <2>1. glitches' \in 0..MaxConsumerFaults
    BY <1>2, StreamConstants DEF Glitch, StreamInv, StreamShape
  <2> QED
    BY <1>2, <2>1 DEF StreamInv, StreamShape, HandInv, LedgerOfEvents, RecordedInOrder,
                      MetricsBacked, Passed
<1> QED
  BY <1>1, <1>2 DEF Publish

\* The consumer's next batch preserves it.
LEMMA ReadStep == ASSUME StreamInv, Read PROVE StreamInv'
<1> DEFINE from == IF cursor + 1 < Oldest(published) THEN Oldest(published) ELSE cursor + 1
           upto == IF published - from >= BatchSize THEN from + BatchSize - 1 ELSE published
           n == upto - from + 1
<1>1. /\ inhand = <<>> /\ cursor < published
      /\ inhand' = [i \in 1..n |-> from + i - 1]
      /\ cursor' = upto /\ noted' = FALSE
      /\ UNCHANGED <<published, activities, counted, missed, glitches>>
  BY DEF Read
<1>2. Oldest(published) <= published
  BY <1>1, StreamFacts DEF Oldest
<1>3. from \in Nat /\ from > cursor /\ from >= Oldest(published) /\ from <= published
  BY <1>1, <1>2, StreamFacts
<1> HIDE DEF from
<1>4. upto \in Nat /\ upto >= from /\ upto <= published /\ upto - from + 1 <= BatchSize
  BY <1>3, StreamFacts
<1> HIDE DEF upto
<1>5. n \in Nat /\ n >= 1 /\ n <= BatchSize /\ n <= upto
  BY <1>3, <1>4, StreamFacts
<1>6. upto - n = from - 1
  BY <1>3, <1>4
<1>7. Passed = cursor /\ Len(inhand) = 0
  <2>1. Len(inhand) = 0 /\ ~noted
    BY <1>1, EmptySeq DEF StreamInv, HandInv
  <2> QED
    BY <2>1, StreamFacts DEF Passed, StreamInv, StreamShape
<1>8. \A m \in missed : m < from
  <2> SUFFICES ASSUME NEW m \in missed PROVE m < from
    OBVIOUS
  <2>1. m \in Nat /\ (m <= Passed \/ (m > cursor /\ m < Oldest(published)))
    BY DEF StreamInv, StreamShape, LedgerOfEvents
  <2> QED
    BY <1>3, <1>7, <2>1, StreamFacts
<1>9. inhand' \in Seq(Nat) /\ Len(inhand') = n /\ \A i \in 1..n : inhand'[i] = from + i - 1
  <2>1. \A i \in 1..n : from + i - 1 \in Nat
    BY <1>3
  <2> HIDE DEF n
  <2>2. inhand' \in [1..n -> Nat] /\ \A i \in 1..n : inhand'[i] = from + i - 1
    BY <1>1, <2>1
  <2>3. inhand' \in Seq(Nat) /\ DOMAIN inhand' = 1..n
    BY <1>5, <2>2, SeqDef
  <2>4. Len(inhand') \in Nat /\ DOMAIN inhand' = 1..Len(inhand')
    BY <2>3, LenProperties
  <2>5. Len(inhand') = n
    BY <1>5, <2>3, <2>4
  <2> QED
    BY <2>2, <2>3, <2>5
<1>10. Passed' = from - 1
  <2>1. Passed' = cursor' - Len(inhand') + 0
    BY <1>1 DEF Passed
  <2> QED
    BY <1>1, <1>3, <1>4, <1>6, <1>9, <2>1
<1>11. StreamShape'
  <2>1. cursor' \in 0..published'
    BY <1>1, <1>4
  <2> QED
    BY <1>1, <1>9, <2>1 DEF StreamInv, StreamShape
<1>12. HandInv'
  <2>1. Len(inhand') <= BatchSize /\ Len(inhand') <= cursor'
    BY <1>1, <1>5, <1>9
  <2>2. \A i \in 1..Len(inhand') : inhand'[i] = cursor' - Len(inhand') + i
    BY <1>1, <1>3, <1>4, <1>5, <1>9
  <2> QED
    BY <1>1, <2>1, <2>2 DEF HandInv
<1>13. LedgerOfEvents'
  <2>1. \A i \in 1..Len(activities) : activities[i] \in 1..(from - 1) /\ activities[i] \notin missed
    BY <1>3, <1>7, StreamFacts DEF StreamInv, LedgerOfEvents
  <2>2. \A m \in missed : m <= from - 1
    BY <1>3, <1>8 DEF StreamInv, StreamShape
  <2> QED
    BY <1>1, <1>10, <2>1, <2>2 DEF StreamInv, LedgerOfEvents, RecordedInOrder, MetricsBacked
<1> QED
  BY <1>11, <1>12, <1>13 DEF StreamInv

\* The first entry in hand, and those after it.
LEMMA FirstInHand ==
    ASSUME StreamInv, inhand # <<>>
    PROVE  /\ inhand[1] = cursor - Len(inhand) + 1 /\ inhand[1] \in 1..published
           /\ Tail(inhand) \in Seq(Nat) /\ Len(Tail(inhand)) = Len(inhand) - 1
           /\ \A i \in 1..Len(Tail(inhand)) :
                 Tail(inhand)[i] = cursor - Len(Tail(inhand)) + i
<1>1. Len(inhand) \in Nat /\ Len(inhand) >= 1 /\ inhand \in Seq(Nat)
  BY StreamFacts DEF StreamInv, StreamShape
<1>2. inhand[1] = cursor - Len(inhand) + 1 /\ inhand[1] \in 1..published
  BY <1>1, StreamFacts DEF StreamInv, HandInv
<1>3. /\ Tail(inhand) \in Seq(Nat) /\ Len(Tail(inhand)) = Len(inhand) - 1
      /\ \A i \in 1..Len(Tail(inhand)) : Tail(inhand)[i] = inhand[i + 1]
  BY <1>1, HeadTailProperties
<1>4. \A i \in 1..Len(Tail(inhand)) : Tail(inhand)[i] = cursor - Len(Tail(inhand)) + i
  BY <1>1, <1>3, StreamFacts DEF StreamInv, HandInv
<1> QED
  BY <1>2, <1>3, <1>4

\* The handler's record of an entry, or the store's refusal, preserves it.
LEMMA DispatchStep == ASSUME StreamInv, Dispatch PROVE StreamInv'
<1>1. inhand # <<>> /\ noted = FALSE /\ noted' = TRUE /\ UNCHANGED <<published, cursor, inhand>>
  BY DEF Dispatch, StreamInv, StreamShape
<1> DEFINE e == inhand[1]
<1>2. e = Passed + 1 /\ e \in 1..published /\ e <= cursor /\ Passed' = Passed + 1
  <2>1. Passed = cursor - Len(inhand) /\ Passed' = cursor - Len(inhand) + 1
    BY <1>1, StreamFacts DEF Passed
  <2> QED
    BY <1>1, <2>1, FirstInHand, StreamFacts
<1> HIDE DEF e
<1>3. HandInv'
  BY <1>1 DEF StreamInv, HandInv
<1>4. CASE Records(TRUE) /\ UNCHANGED <<missed, glitches>>
  <2>1. activities' = Append(activities, e) /\ counted' = counted + 1
    BY <1>4 DEF Records, e
  <2>2. activities \in Seq(Nat) /\ e \in Nat
    BY <1>2, StreamFacts DEF StreamInv, StreamShape
  <2>3. /\ activities' \in Seq(Nat) /\ Len(activities') = Len(activities) + 1
        /\ \A i \in 1..Len(activities) : activities'[i] = activities[i]
        /\ activities'[Len(activities) + 1] = e
    BY <2>1, <2>2, AppendProperties
  <2>4. e \notin missed
    BY <1>2, StreamFacts DEF StreamInv, StreamShape, LedgerOfEvents
  <2>5. StreamShape'
    BY <1>1, <1>4, <2>1, <2>3 DEF StreamInv, StreamShape
  <2>6. \A i \in 1..Len(activities') : activities'[i] \in 1..Passed' /\ activities'[i] \notin missed'
    <3> SUFFICES ASSUME NEW i \in 1..Len(activities')
                 PROVE  activities'[i] \in 1..Passed' /\ activities'[i] \notin missed
      BY <1>4
    <3>1. CASE i \in 1..Len(activities)
      <4>1. activities[i] \in 1..Passed /\ activities[i] \notin missed
        BY <3>1 DEF StreamInv, LedgerOfEvents
      <4>2. activities'[i] = activities[i]
        BY <2>3, <3>1
      <4>3. 1..Passed \subseteq 1..Passed'
        BY <1>2, StreamFacts
      <4> QED
        BY <4>1, <4>2, <4>3
    <3>2. CASE i = Len(activities) + 1
      BY <1>2, <2>3, <2>4, <3>2
    <3> QED
      BY <2>3, <3>1, <3>2, StreamFacts
  <2>7. RecordedInOrder'
    <3> SUFFICES ASSUME NEW i \in 1..Len(activities)
                 PROVE  activities'[i] < activities'[i + 1]
      BY <2>3, StreamFacts DEF RecordedInOrder
    <3>1. CASE i = Len(activities)
      BY <1>2, <2>3, <3>1, StreamFacts DEF StreamInv, LedgerOfEvents
    <3>2. CASE i # Len(activities)
      <4>1. i \in 1..(Len(activities) - 1) /\ i + 1 \in 1..Len(activities)
        BY <3>2, StreamFacts
      <4> QED
        BY <2>3, <4>1 DEF StreamInv, LedgerOfEvents, RecordedInOrder
    <3> QED BY <3>1, <3>2
  <2>8. MetricsBacked'
    BY <2>1, <2>3, StreamFacts DEF StreamInv, StreamShape, LedgerOfEvents, MetricsBacked
  <2>9. \A m \in missed' : m <= Passed' \/ (m > cursor' /\ m < Oldest(published'))
    BY <1>1, <1>2, <1>4, StreamFacts DEF StreamInv, StreamShape, LedgerOfEvents
  <2> QED
    BY <1>3, <2>5, <2>6, <2>7, <2>8, <2>9 DEF StreamInv, LedgerOfEvents
<1>5. CASE Records(FALSE) /\ Glitch /\ missed' = missed \cup {e}
  <2>1. activities' = activities /\ counted' = counted
    BY <1>5 DEF Records
  <2>2. glitches' \in 0..MaxConsumerFaults
    BY <1>5, StreamConstants DEF Glitch, StreamInv, StreamShape
  <2>3. StreamShape'
    BY <1>1, <1>2, <1>5, <2>1, <2>2 DEF StreamInv, StreamShape
  <2>4. \A i \in 1..Len(activities) : activities[i] \in 1..Passed' /\ activities[i] \notin missed'
    BY <1>2, <1>5, StreamFacts DEF StreamInv, LedgerOfEvents
  <2>5. \A m \in missed' : m <= Passed' \/ (m > cursor' /\ m < Oldest(published'))
    BY <1>1, <1>2, <1>5, StreamFacts DEF StreamInv, StreamShape, LedgerOfEvents
  <2> QED
    BY <1>3, <2>1, <2>3, <2>4, <2>5
       DEF StreamInv, LedgerOfEvents, RecordedInOrder, MetricsBacked
<1> QED
  BY <1>4, <1>5 DEF Dispatch, e

\* The ack of an entry preserves it.
LEMMA AckStep == ASSUME StreamInv, Ack PROVE StreamInv'
<1>1. /\ inhand # <<>> /\ noted = TRUE /\ inhand' = Tail(inhand) /\ noted' = FALSE
      /\ UNCHANGED <<published, cursor, activities, counted, missed, glitches>>
  BY DEF Ack, StreamInv, StreamShape
<1>2. /\ inhand' \in Seq(Nat) /\ Len(inhand') = Len(inhand) - 1
      /\ \A i \in 1..Len(inhand') : inhand'[i] = cursor' - Len(inhand') + i
  BY <1>1, FirstInHand
<1>3. Passed' = Passed
  BY <1>1, <1>2, StreamFacts DEF Passed
<1>4. StreamShape'
  BY <1>1, <1>2 DEF StreamInv, StreamShape
<1>5. HandInv'
  BY <1>1, <1>2, StreamFacts DEF StreamInv, HandInv
<1>6. LedgerOfEvents'
  BY <1>1, <1>3 DEF StreamInv, LedgerOfEvents, RecordedInOrder, MetricsBacked
<1> QED
  BY <1>4, <1>5, <1>6 DEF StreamInv

\* The death of the consumer preserves it: what it had in hand and had not recorded
\* is missed.
LEMMA CrashStep == ASSUME StreamInv, Crash PROVE StreamInv'
<1>1. /\ missed' = missed \cup (ToSet(inhand) \ ToSet(activities))
      /\ inhand' = <<>> /\ noted' = FALSE /\ counted' = 0
      /\ UNCHANGED <<published, cursor, activities>>
  BY DEF Crash
<1>2. Len(inhand') = 0 /\ inhand' \in Seq(Nat)
  BY <1>1, EmptySeq
<1>3. Passed' = cursor
  BY <1>1, <1>2, StreamFacts DEF Passed
<1>4. glitches' \in 0..MaxConsumerFaults
  BY StreamConstants DEF Crash, Glitch, StreamInv, StreamShape
<1>5. \A m \in ToSet(inhand) : m \in 1..published /\ m <= cursor
  <2>1. DOMAIN inhand = 1..Len(inhand)
    BY LenProperties DEF StreamInv, StreamShape
  <2>2. \A i \in 1..Len(inhand) : inhand[i] \in 1..published /\ inhand[i] <= cursor
    BY StreamFacts DEF StreamInv, HandInv
  <2> QED
    BY <2>1, <2>2 DEF ToSet
<1>6. \A i \in 1..Len(activities) : activities[i] \in ToSet(activities)
  <2>1. DOMAIN activities = 1..Len(activities)
    BY LenProperties DEF StreamInv, StreamShape
  <2> QED
    BY <2>1 DEF ToSet
<1>7. StreamShape'
  BY <1>1, <1>2, <1>4, <1>5 DEF StreamInv, StreamShape
<1>8. HandInv'
  BY <1>1, <1>2, StreamFacts DEF StreamInv, HandInv
<1>9. \A i \in 1..Len(activities) : activities[i] \in 1..Passed' /\ activities[i] \notin missed'
  BY <1>1, <1>3, <1>6, StreamFacts DEF StreamInv, LedgerOfEvents
<1>10. \A m \in missed' : m <= Passed' \/ (m > cursor' /\ m < Oldest(published'))
  <2> SUFFICES ASSUME NEW m \in missed' PROVE m <= cursor \/ (m > cursor /\ m < Oldest(published))
    BY <1>1, <1>3
  <2>1. CASE m \in missed
    BY <2>1, StreamFacts DEF StreamInv, StreamShape, LedgerOfEvents
  <2>2. CASE m \in ToSet(inhand)
    BY <1>5, <2>2
  <2> QED BY <1>1, <2>1, <2>2
<1>11. LedgerOfEvents'
  BY <1>1, <1>9, <1>10, StreamFacts
     DEF StreamInv, LedgerOfEvents, RecordedInOrder, MetricsBacked
<1> QED
  BY <1>7, <1>8, <1>11 DEF StreamInv

\* What the invariant is for.
LEMMA StreamInvImplies ==
    ASSUME StreamInv PROVE StreamTypeOK /\ RecordedInOrder /\ MetricsBacked
<1>1. DOMAIN inhand = 1..Len(inhand) /\ DOMAIN activities = 1..Len(activities)
  BY LenProperties DEF StreamInv, StreamShape
<1>2. \A i \in DOMAIN inhand : inhand[i] \in 1..cursor
  BY <1>1, StreamFacts DEF StreamInv, HandInv
<1>3. ToSet(activities) \cap missed = {}
  BY <1>1 DEF ToSet, StreamInv, LedgerOfEvents
<1> QED
  BY <1>2, <1>3 DEF StreamInv, StreamShape, HandInv, LedgerOfEvents, StreamTypeOK

-----------------------------------------------------------------------------
(* The broadcast's invariant is inductive. *)

\* The rows are a sequence of phones.
LEMMA Rows ==
    /\ Len(Csv) \in Nat /\ DOMAIN Csv = 1..Len(Csv)
    /\ \A i \in 1..Len(Csv) : Csv[i] \in Phones
    /\ Csv = <<>> => Len(Csv) = 0
<1> DEFINE c == Csv
<1>1. c \in Seq(Phones)
  BY CsvAssumption
<1> HIDE DEF c
<1>2. /\ Len(c) \in Nat /\ DOMAIN c = 1..Len(c) /\ \A i \in 1..Len(c) : c[i] \in Phones
      /\ c = <<>> => Len(c) = 0
  BY <1>1, LenProperties, ElementOfSeq, EmptySeq
<1> QED
  BY <1>2 DEF c

\* A record of a batch by its fields.
LEMMA BatchRecords ==
    \A r : r \in BatchRecord <=>
              /\ r \in [status : {"none", "queued", "in_progress", "completed"},
                        sent : Nat, failed : Nat]
              /\ r.sent + r.failed \in 0..Len(Csv)
BY DEF BatchRecord, Counts

\* The first records there are.
LEMMA FirstRecords ==
    /\ NoRecord \in BatchRecord /\ NoRecord.status = "none"
    /\ Queued \in BatchRecord /\ Queued.status = "queued"
    /\ Queued.sent = 0 /\ Queued.failed = 0
<1>1. /\ NoRecord \in [status : {"none", "queued", "in_progress", "completed"},
                       sent : Nat, failed : Nat]
      /\ NoRecord.status = "none" /\ NoRecord.sent = 0 /\ NoRecord.failed = 0
  BY DEF NoRecord
<1>2. /\ Queued \in [status : {"none", "queued", "in_progress", "completed"},
                     sent : Nat, failed : Nat]
      /\ Queued.status = "queued" /\ Queued.sent = 0 /\ Queued.failed = 0
  BY DEF Queued, NoRecord
<1>3. 0 + 0 \in 0..Len(Csv)
  BY Rows
<1> QED
  BY <1>1, <1>2, <1>3, BatchRecords

\* Whatever was started, the rows that were not are finitely many.
LEMMA RowsFinite ==
    ASSUME NEW f, NEW n \in Nat
    PROVE  /\ IsFiniteSet({i \in 1..n : f[Csv[i]] = 0})
           /\ Cardinality({i \in 1..n : f[Csv[i]] = 0}) \in Nat
           /\ n = 0 => Cardinality({i \in 1..n : f[Csv[i]] = 0}) = 0
<1> DEFINE S == {i \in 1..n : f[Csv[i]] = 0}
<1>1. IsFiniteSet(1..n)
  BY FS_Interval
<1>2. S \in SUBSET (1..n)
  OBVIOUS
<1>3. n = 0 => S = {}
  BY <1>2
<1> HIDE DEF S
<1>4. IsFiniteSet(S) /\ Cardinality(S) \in Nat /\ (n = 0 => Cardinality(S) = 0)
  BY <1>1, <1>2, <1>3, FS_Subset, FS_CardinalityType, FS_EmptySet
<1> QED
  BY <1>4 DEF S

\* So are the rows never started before and after a step.
LEMMA UnstartedFinite ==
    ASSUME NEW n \in Nat
    PROVE  /\ IsFiniteSet(Unstarted(n)) /\ Cardinality(Unstarted(n)) \in Nat
           /\ n = 0 => Cardinality(Unstarted(n)) = 0
           /\ Cardinality(Unstarted(n)') \in Nat
           /\ n = 0 => Cardinality(Unstarted(n)') = 0
<1>1. /\ IsFiniteSet(Unstarted(n)) /\ Cardinality(Unstarted(n)) \in Nat
      /\ n = 0 => Cardinality(Unstarted(n)) = 0
  BY RowsFinite DEF Unstarted
<1>2. Unstarted(n)' = {i \in 1..n : starts'[Csv[i]] = 0}
  BY DEF Unstarted
<1>3. /\ Cardinality({i \in 1..n : starts'[Csv[i]] = 0}) \in Nat
      /\ n = 0 => Cardinality({i \in 1..n : starts'[Csv[i]] = 0}) = 0
  BY RowsFinite
<1> QED
  BY <1>1, <1>2, <1>3

\* A row counted as sent whose phone was started adds nothing to them, one that
\* failed adds itself at most; and starts only take away.
LEMMA UnstartedGrows ==
    ASSUME starts \in [Phones -> Nat], starts' \in [Phones -> Nat],
           \A p \in Phones : starts'[p] >= starts[p],
           NEW n \in 0..Len(Csv)
    PROVE  /\ Cardinality(Unstarted(n)') <= Cardinality(Unstarted(n))
           /\ n < Len(Csv) /\ starts'[Csv[n + 1]] > 0 =>
                 Cardinality(Unstarted(n + 1)') <= Cardinality(Unstarted(n))
           /\ n < Len(Csv) =>
                 Cardinality(Unstarted(n + 1)') <= Cardinality(Unstarted(n)) + 1
<1>1. n \in Nat /\ IsFiniteSet(Unstarted(n)) /\ Cardinality(Unstarted(n)) \in Nat
  BY UnstartedFinite, Rows
<1>2. \A i \in 1..Len(Csv) : starts'[Csv[i]] = 0 => starts[Csv[i]] = 0
  BY Rows
<1>3. Unstarted(n)' \subseteq Unstarted(n)
  BY <1>2, Rows DEF Unstarted
<1>4. n < Len(Csv) /\ starts'[Csv[n + 1]] > 0 => Unstarted(n + 1)' \subseteq Unstarted(n)
  <2> SUFFICES ASSUME n < Len(Csv), starts'[Csv[n + 1]] > 0, NEW i \in Unstarted(n + 1)'
               PROVE  i \in Unstarted(n)
    OBVIOUS
  <2>1. i \in 1..(n + 1) /\ starts'[Csv[i]] = 0
    BY DEF Unstarted
  <2>2. i # n + 1
    BY <2>1
  <2>3. i \in 1..n /\ i \in 1..Len(Csv)
    BY <1>1, <2>1, <2>2, Rows
  <2> QED
    BY <1>2, <2>1, <2>3 DEF Unstarted
<1>5. n < Len(Csv) => Unstarted(n + 1)' \subseteq Unstarted(n) \cup {n + 1}
  <2> SUFFICES ASSUME n < Len(Csv), NEW i \in Unstarted(n + 1)', i # n + 1
               PROVE  i \in Unstarted(n)
    OBVIOUS
  <2>1. i \in 1..(n + 1) /\ starts'[Csv[i]] = 0
    BY DEF Unstarted
  <2>2. i \in 1..n /\ i \in 1..Len(Csv)
    BY <1>1, <2>1, Rows
  <2> QED
    BY <1>2, <2>1, <2>2 DEF Unstarted
<1>6. /\ IsFiniteSet(Unstarted(n) \cup {n + 1})
      /\ Cardinality(Unstarted(n) \cup {n + 1}) \in Nat
      /\ Cardinality(Unstarted(n) \cup {n + 1}) <= Cardinality(Unstarted(n)) + 1
  <2> DEFINE S == Unstarted(n)
  <2>1. IsFiniteSet(S) /\ Cardinality(S) \in Nat
    BY <1>1
  <2> HIDE DEF S
  <2>2. /\ IsFiniteSet(S \cup {n + 1})
        /\ Cardinality(S \cup {n + 1})
              = IF n + 1 \in S THEN Cardinality(S) ELSE Cardinality(S) + 1
    BY <2>1, FS_AddElement
  <2>3. Cardinality(S \cup {n + 1}) \in Nat /\ Cardinality(S \cup {n + 1}) <= Cardinality(S) + 1
    BY <2>1, <2>2
  <2> QED
    BY <2>2, <2>3 DEF S
<1>7. n < Len(Csv) => Cardinality(Unstarted(n + 1)') \in Nat
  <2> SUFFICES ASSUME n < Len(Csv) PROVE Cardinality(Unstarted(n + 1)') \in Nat
    OBVIOUS
  <2> QED
    BY <1>5, <1>6, FS_Subset, FS_CardinalityType
<1>8. Cardinality(Unstarted(n)') <= Cardinality(Unstarted(n))
  BY <1>1, <1>3, FS_Subset
<1>9. n < Len(Csv) /\ starts'[Csv[n + 1]] > 0 =>
           Cardinality(Unstarted(n + 1)') <= Cardinality(Unstarted(n))
  BY <1>1, <1>4, FS_Subset
<1>10. n < Len(Csv) => Cardinality(Unstarted(n + 1)') <= Cardinality(Unstarted(n)) + 1
  <2> SUFFICES ASSUME n < Len(Csv)
               PROVE  Cardinality(Unstarted(n + 1)') <= Cardinality(Unstarted(n)) + 1
    OBVIOUS
  <2>1. Cardinality(Unstarted(n + 1)') <= Cardinality(Unstarted(n) \cup {n + 1})
    BY <1>5, <1>6, FS_Subset
  <2> QED
    BY <1>1, <1>6, <1>7, <2>1
<1> QED
  BY <1>8, <1>9, <1>10

\* The completed batches are those whose rows were all counted.
Whole(r) == /\ r.sent + r.failed = Len(Csv)
            /\ Cardinality(Unstarted(Len(Csv))) <= r.failed

LEMMA WholeBatches ==
    /\ CompletedIsWhole <=>
          \A s \in Submissions : batch[s].status = "completed" => Whole(batch[s])
    /\ CompletedIsWhole' <=>
          \A s \in Submissions : batch'[s].status = "completed" => Whole(batch[s])'
<1>1. \A f : {i \in DOMAIN Csv : f[Csv[i]] = 0} = {i \in 1..Len(Csv) : f[Csv[i]] = 0}
  BY Rows
<1>2. CompletedIsWhole <=>
          \A s \in Submissions : batch[s].status = "completed" => Whole(batch[s])
  BY <1>1 DEF CompletedIsWhole, Whole, Unstarted
<1>3. CompletedIsWhole' <=>
          \A s \in Submissions : batch'[s].status = "completed" => Whole(batch[s])'
  BY <1>1 DEF CompletedIsWhole, Whole, Unstarted
<1> QED
  BY <1>2, <1>3

\* A task that goes on, with record k, preserves the invariant; and that there is one
\* task, if there was.
LEMMA WorkStep ==
    ASSUME CastInv, NEW s \in Submissions, task[s].at \in {"queued", "rows"},
           NEW k \in TaskRecord, k.at \in {"rows", "finished"},
           task' = [task EXCEPT ![s] = k],
           starts' \in [Phones -> Nat], \A p \in Phones : starts'[p] >= starts[p],
           running' \subseteq Phones, locked' \subseteq Phones,
           \A p \in running' : starts'[p] > 0,
           UNCHANGED <<submission, key, restarts>>,
           batch' = batch \/ Stores(s, k.copy),
           k.at = "rows" => Working(k)',
           k.at = "finished" => k.copy.status = "completed" /\ Whole(k.copy)'
    PROVE  CastInv' /\ (OneAtATime => OneAtATime')
<1>1. submission[s].id \in Submissions /\ submission' = submission /\ key' = key
  BY DEF CastInv, CountsInv
<1>2. /\ task' \in [Submissions -> TaskRecord] /\ task'[s] = k
      /\ \A t \in Submissions \ {s} : task'[t] = task[t]
  BY DEF CastInv, CastShape
<1>3. k.copy \in BatchRecord /\ k.copy.status # "none"
  BY DEF TaskRecord, Working
<1>4. /\ batch' \in [Submissions -> BatchRecord]
      /\ \A x \in Submissions : batch'[x] = batch[x] \/ batch'[x] = k.copy
  BY <1>1, <1>3 DEF Stores, CastInv, CastShape
<1>5. ASSUME NEW n \in 0..Len(Csv), NEW f \in Nat, Cardinality(Unstarted(n)) <= f
      PROVE  Cardinality(Unstarted(n)') <= f
  <2>1. n \in Nat /\ starts \in [Phones -> Nat]
    BY Rows DEF CastInv, CastShape
  <2>2. Cardinality(Unstarted(n)') <= Cardinality(Unstarted(n))
    BY <2>1, UnstartedGrows
  <2>3. Cardinality(Unstarted(n)) \in Nat
    BY <2>1, UnstartedFinite
  <2>4. Cardinality(Unstarted(n)') \in Nat
    BY <2>1, UnstartedFinite
  <2> QED
    BY <1>5, <2>2, <2>3, <2>4
<1>6. ASSUME NEW t \in Submissions, task'[t].at \in {"queued", "rows"}
      PROVE  Working(task[t])' /\ submission'[t].id \in Submissions
  <2>1. CASE t = s
    BY <1>1, <1>2, <1>6, <2>1 DEF Working
  <2>2. CASE t # s
    <3>1. PICK o \in TaskRecord : o = task[t] /\ o.at \in {"queued", "rows"}
      BY <1>2, <1>6, <2>2 DEF CastInv, CastShape
    <3>2. Working(o) /\ submission[t].id \in Submissions
      BY <3>1 DEF CastInv, CountsInv
    <3>3. o.row \in 0..Len(Csv) /\ o.copy.failed \in Nat
      BY <3>1, BatchRecords DEF TaskRecord
    <3>4. Working(o)'
      BY <1>5, <3>2, <3>3 DEF Working
    <3> QED
      BY <1>1, <1>2, <2>2, <3>1, <3>2, <3>4 DEF Working
  <2> QED BY <2>1, <2>2
<1>7. ASSUME NEW x \in Submissions, batch'[x].status = "completed"
      PROVE  Whole(batch[x])'
  <2>1. PICK b \in BatchRecord : b = batch'[x] /\ b.status = "completed"
    BY <1>4, <1>7
  <2>2. CASE b = k.copy
    BY <2>1, <2>2 DEF Whole, Working
  <2>3. CASE b = batch[x]
    <3>1. b.failed \in Nat /\ Len(Csv) \in 0..Len(Csv)
      BY <2>1, BatchRecords, Rows
    <3>2. Whole(b)
      BY <2>1, <2>3, WholeBatches DEF CastInv, CountsInv
    <3> QED
      BY <1>5, <2>1, <3>1, <3>2 DEF Whole
  <2> QED
    BY <1>4, <2>1, <2>2, <2>3
<1>8. CompletedIsWhole'
  BY <1>7, WholeBatches
<1>9. CastInv'
  BY <1>1, <1>2, <1>4, <1>6, <1>8 DEF CastInv, CastShape, CountsInv
<1>10. ASSUME OneAtATime PROVE OneAtATime'
  <2>1. \A t \in Submissions : task'[t].at # "none" <=> task[t].at # "none"
    BY <1>2
  <2>2. key \in Submissions /\ key = submission[s].id /\ submission[s].at = "done"
    BY <1>10 DEF OneAtATime, Over
  <2>3. batch[key].status # "none" /\ batch'[key].status # "none"
    BY <1>3, <1>4, <1>10, <2>2 DEF OneAtATime
  <2>4. \A t \in Submissions : submission[t].at # "save"
    BY <1>10, <2>3 DEF OneAtATime
  <2> QED
    BY <1>1, <1>10, <2>1, <2>2, <2>3, <2>4 DEF OneAtATime
<1> QED
  BY <1>9, <1>10

\* The start of the file preserves it.
LEMMA BeginsStep ==
    ASSUME CastInv, NEW s \in Submissions, Begins(s)
    PROVE  CastInv' /\ (OneAtATime => OneAtATime')
<1>1. PICK o \in TaskRecord : o = task[s] /\ o.at = "queued" /\ Working(o)
  BY DEF Begins, CastInv, CastShape, CountsInv
<1>2. o.row = 0 /\ o.copy \in BatchRecord /\ o.copy.sent + o.copy.failed = 0
  BY <1>1 DEF Working, TaskRecord
<1> DEFINE status == IF Csv = <<>> THEN "completed" ELSE "in_progress"
           at == IF Csv = <<>> THEN "finished" ELSE "rows"
<1>3. \/ status = "completed" /\ at = "finished" /\ Len(Csv) = 0
      \/ status = "in_progress" /\ at = "rows"
  <2>1. CASE Csv = <<>>
    BY <2>1, Rows
  <2>2. CASE Csv # <<>>
    BY <2>2
  <2> QED BY <2>1, <2>2
<1>4. /\ task' = [task EXCEPT ![s].at = at, ![s].copy.status = status]
       /\ Stores(s, task'[s].copy)
  BY DEF Begins
<1> HIDE DEF status, at
<1>5. PICK c \in BatchRecord : /\ c = [o.copy EXCEPT !.status = status]
                               /\ c.status = status
                               /\ c.sent = o.copy.sent /\ c.failed = o.copy.failed
  <2> DEFINE d == o.copy
  <2>1. d \in BatchRecord
    BY <1>2
  <2> HIDE DEF d
  <2>2. status \in {"completed", "in_progress"}
    BY <1>3
  <2>3. /\ [d EXCEPT !.status = status] \in [status : {"none", "queued", "in_progress", "completed"},
                                             sent : Nat, failed : Nat]
        /\ [d EXCEPT !.status = status].status = status
        /\ [d EXCEPT !.status = status].sent = d.sent
        /\ [d EXCEPT !.status = status].failed = d.failed
    BY <2>1, <2>2, BatchRecords
  <2>4. [d EXCEPT !.status = status] \in BatchRecord
    BY <2>1, <2>3, BatchRecords
  <2> QED
    BY <2>3, <2>4 DEF d
<1>6. PICK k \in TaskRecord : /\ k = [o EXCEPT !.at = at, !.copy = c]
                              /\ k.at = at /\ k.row = 0 /\ k.copy = c
  <2>1. at \in {"finished", "rows"}
    BY <1>3
  <2>2. [o EXCEPT !.at = at, !.copy = c] \in TaskRecord
    BY <2>1 DEF TaskRecord
  <2> QED
    BY <1>2, <2>2 DEF TaskRecord
<1>7. task' = [task EXCEPT ![s] = k]
  <2>1. task \in [Submissions -> TaskRecord]
    BY DEF CastInv, CastShape
  <2>2. [task EXCEPT ![s].at = at, ![s].copy.status = status] = [task EXCEPT ![s] = k]
    BY <1>1, <1>5, <1>6, <2>1 DEF TaskRecord
  <2> QED
    BY <1>4, <2>2
<1>8. Stores(s, k.copy)
  <2>1. task'[s].copy = k.copy
    BY <1>7 DEF CastInv, CastShape
  <2> QED
    BY <1>4, <2>1
<1>9. Cardinality(Unstarted(0)') = 0
  BY UnstartedFinite
<1>10. c.sent \in Nat /\ c.failed \in Nat /\ c.sent + c.failed = 0
  BY <1>2, <1>5, BatchRecords
<1>11. /\ k.at = at /\ k.row = 0 /\ k.copy = c /\ k.copy.status = status
       /\ k.copy.failed \in Nat /\ k.copy.sent + k.copy.failed = 0
  BY <1>5, <1>6, <1>10
<1>12. k.at = "rows" => Working(k)'
  BY <1>9, <1>3, <1>11 DEF Working
<1>13. k.at = "finished" => k.copy.status = "completed" /\ Whole(k.copy)'
  BY <1>9, <1>3, <1>11 DEF Whole
<1>14. /\ starts' = starts /\ running' = running /\ locked' = locked
       /\ UNCHANGED <<submission, key, restarts>>
  BY DEF Begins
<1>15. /\ starts \in [Phones -> Nat] /\ running \subseteq Phones /\ locked \subseteq Phones
       /\ \A p \in running : starts[p] > 0
       /\ \A p \in Phones : starts[p] >= starts[p]
  BY DEF CastInv, CastShape, CountsInv
<1> QED
  BY <1>1, <1>7, <1>8, <1>12, <1>13, <1>14, <1>15, <1>3, <1>11, WorkStep

\* A row that is counted, as one with failures to spare, preserves the invariant.
LEMMA RowStep ==
    ASSUME CastInv, NEW s \in Submissions, AtRow(s), NEW ok \in BOOLEAN, CountsRow(s, ok),
           starts' \in [Phones -> Nat], \A p \in Phones : starts'[p] >= starts[p],
           ok => starts'[Csv[task[s].row + 1]] > 0,
           running' \subseteq Phones, locked' \subseteq Phones,
           \A p \in running' : starts'[p] > 0,
           UNCHANGED <<submission, key, restarts>>
    PROVE  CastInv' /\ (OneAtATime => OneAtATime')
<1>1. PICK o \in TaskRecord : o = task[s] /\ o.at = "rows" /\ o.row < Len(Csv) /\ Working(o)
  BY DEF AtRow, RowsLeft, CastInv, CastShape, CountsInv
<1>2. /\ o.copy \in BatchRecord /\ o.row \in 0..Len(Csv) /\ o.row + 1 \in 0..Len(Csv)
      /\ o.copy.status \in {"queued", "in_progress"}
      /\ o.copy.sent + o.copy.failed = o.row /\ o.copy.sent \in Nat /\ o.copy.failed \in Nat
      /\ Cardinality(Unstarted(o.row)) <= o.copy.failed
  BY <1>1, Rows, BatchRecords DEF Working, TaskRecord
<1> DEFINE d == o.copy
           e == [d EXCEPT !.sent = d.sent + (IF ok THEN 1 ELSE 0),
                          !.failed = d.failed + (IF ok THEN 0 ELSE 1)]
<1>3. /\ task' = [task EXCEPT ![s].row = task[s].row + 1, ![s].copy = e]
      /\ batch' = batch \/ Stores(s, e)
  BY <1>1 DEF CountsRow
<1>4. d \in BatchRecord /\ d.sent \in Nat /\ d.failed \in Nat
  BY <1>2
<1> HIDE DEF d
<1>5. PICK i \in {0, 1}, j \in {0, 1} :
         /\ i = (IF ok THEN 1 ELSE 0) /\ j = (IF ok THEN 0 ELSE 1) /\ i + j = 1
         /\ ok <=> j = 0
  OBVIOUS
<1>6. PICK c \in BatchRecord :
         /\ c = e
         /\ c.status = d.status /\ c.sent = d.sent + i /\ c.failed = d.failed + j
  <2>1. e = [d EXCEPT !.sent = d.sent + i, !.failed = d.failed + j]
    BY <1>5
  <2> HIDE DEF e
  <2>2. PICK a \in Nat, b \in Nat : a = d.sent + i /\ b = d.failed + j
    BY <1>4
  <2>3. a + b \in 0..Len(Csv)
    <3>1. d.sent + d.failed = o.row /\ o.row + 1 \in 0..Len(Csv)
      BY <1>2 DEF d
    <3>2. a + b = d.sent + d.failed + 1
      BY <1>4, <1>5, <2>2
    <3> QED
      BY <3>1, <3>2
  <2>4. e = [d EXCEPT !.sent = a, !.failed = b]
    BY <2>1, <2>2
  <2>5. d \in [status : {"none", "queued", "in_progress", "completed"},
               sent : Nat, failed : Nat]
    BY <1>4, BatchRecords
  <2>6. /\ e \in [status : {"none", "queued", "in_progress", "completed"},
                  sent : Nat, failed : Nat]
        /\ e.status = d.status /\ e.sent = a /\ e.failed = b
    BY <2>4, <2>5
  <2> QED
    BY <2>2, <2>3, <2>6, BatchRecords
<1> HIDE DEF e
<1>7. PICK k \in TaskRecord : /\ k = [o EXCEPT !.row = o.row + 1, !.copy = c]
                              /\ k.at = "rows" /\ k.row = o.row + 1 /\ k.copy = c
  <2>1. [o EXCEPT !.row = o.row + 1, !.copy = c] \in TaskRecord
    BY <1>2 DEF TaskRecord
  <2> QED
    BY <1>1, <2>1 DEF TaskRecord
<1>8. task' = [task EXCEPT ![s] = k]
  <2>1. task \in [Submissions -> TaskRecord]
    BY DEF CastInv, CastShape
  <2>2. [task EXCEPT ![s].row = task[s].row + 1, ![s].copy = c] = [task EXCEPT ![s] = k]
    BY <1>1, <1>7, <2>1 DEF TaskRecord
  <2> QED
    BY <1>3, <1>6, <2>2
<1>9. batch' = batch \/ Stores(s, k.copy)
  BY <1>3, <1>6, <1>7
<1>10. Cardinality(Unstarted(o.row + 1)') <= d.failed + j
  <2>1. starts \in [Phones -> Nat]
    BY DEF CastInv, CastShape
  <2>2. /\ starts'[Csv[o.row + 1]] > 0 =>
                 Cardinality(Unstarted(o.row + 1)') <= Cardinality(Unstarted(o.row))
        /\ Cardinality(Unstarted(o.row + 1)') <= Cardinality(Unstarted(o.row)) + 1
    BY <1>1, <1>2, <2>1, UnstartedGrows
  <2>3. o.row \in Nat /\ o.row + 1 \in Nat
    BY <1>2, Rows
  <2>4. Cardinality(Unstarted(o.row)) \in Nat /\ Cardinality(Unstarted(o.row + 1)') \in Nat
    BY <2>3, UnstartedFinite
  <2>5. ok => starts'[Csv[o.row + 1]] > 0
    BY <1>1
  <2> QED
    BY <1>2, <1>5, <2>2, <2>4, <2>5 DEF d
<1>11. /\ k.copy.status \in {"queued", "in_progress"}
       /\ k.copy.sent + k.copy.failed = k.row
       /\ Cardinality(Unstarted(k.row)') <= k.copy.failed
  BY <1>2, <1>5, <1>6, <1>7, <1>10 DEF d
<1>12. Working(k)' /\ k.at = "rows"
  BY <1>7, <1>11 DEF Working
<1> QED
  BY <1>1, <1>8, <1>9, <1>12, WorkStep

\* The three ways to go through a row.
LEMMA RowSteps ==
    ASSUME CastInv, NEW s \in Submissions, SkipsRow(s) \/ StartsRow(s) \/ FailsRow(s)
    PROVE  CastInv' /\ (OneAtATime => OneAtATime')
<1> DEFINE p == Csv[task[s].row + 1]
<1>1. /\ starts \in [Phones -> Nat] /\ running \subseteq Phones /\ locked \subseteq Phones
      /\ \A q \in running : starts[q] > 0
  BY DEF CastInv, CastShape, CountsInv
<1>2. AtRow(s)
  BY DEF SkipsRow, StartsRow, FailsRow
<1>3. p \in Phones
  <2>1. task[s].row \in 0..Len(Csv) /\ task[s].row < Len(Csv)
    BY <1>2 DEF AtRow, RowsLeft, CastInv, CastShape, TaskRecord
  <2> QED
    BY <2>1, Rows
<1> HIDE DEF p
<1>4. CASE SkipsRow(s)
  <2>1. /\ starts' = starts /\ running' = running /\ locked' = locked /\ p \in running
        /\ CountsRow(s, TRUE) /\ UNCHANGED <<submission, key, restarts>>
    BY <1>4 DEF SkipsRow, p
  <2>2. /\ starts' \in [Phones -> Nat] /\ starts'[p] > 0
        /\ \A q \in Phones : starts'[q] >= starts[q]
    BY <1>1, <2>1
  <2>3. /\ running' \subseteq Phones /\ locked' \subseteq Phones
        /\ \A q \in running' : starts'[q] > 0
    BY <1>1, <2>1
  <2>4. starts'[Csv[task[s].row + 1]] > 0
    BY <2>2 DEF p
  <2> QED
    BY <1>2, <2>1, <2>2, <2>3, <2>4, RowStep
<1>5. CASE StartsRow(s)
  <2>1. /\ starts' = [starts EXCEPT ![p] = @ + 1]
        /\ running' = running \cup {p} /\ locked' = locked \cup {p}
        /\ CountsRow(s, TRUE) /\ UNCHANGED <<submission, key, restarts>>
    BY <1>5 DEF StartsRow, p
  <2>2. /\ starts' \in [Phones -> Nat] /\ starts'[p] > 0
        /\ \A q \in Phones : starts'[q] >= starts[q]
    BY <1>1, <1>3, <2>1
  <2>3. /\ running' \subseteq Phones /\ locked' \subseteq Phones
        /\ \A q \in running' : starts'[q] > 0
    BY <1>1, <1>3, <2>1, <2>2
  <2>4. starts'[Csv[task[s].row + 1]] > 0
    BY <2>2 DEF p
  <2> QED
    BY <1>2, <2>1, <2>2, <2>3, <2>4, RowStep
<1>6. CASE FailsRow(s)
  <2>1. /\ starts' = starts /\ running' = running \ {p} /\ locked' = locked \cup {p}
        /\ CountsRow(s, FALSE) /\ UNCHANGED <<submission, key, restarts>>
    BY <1>6 DEF FailsRow, p
  <2>2. /\ starts' \in [Phones -> Nat]
        /\ \A q \in Phones : starts'[q] >= starts[q]
    BY <1>1, <2>1
  <2>3. /\ running' \subseteq Phones /\ locked' \subseteq Phones
        /\ \A q \in running' : starts'[q] > 0
    BY <1>1, <1>3, <2>1
  <2> QED
    BY <1>2, <2>1, <2>2, <2>3, RowStep
<1> QED
  BY <1>4, <1>5, <1>6

\* The end of the file preserves it.
LEMMA FinishesStep ==
    ASSUME CastInv, NEW s \in Submissions, Finishes(s)
    PROVE  CastInv' /\ (OneAtATime => OneAtATime')
<1>1. PICK o \in TaskRecord : o = task[s] /\ o.at = "rows" /\ ~(o.row < Len(Csv)) /\ Working(o)
  BY DEF Finishes, RowsLeft, CastInv, CastShape, CountsInv
<1>2. /\ o.copy \in BatchRecord /\ o.row = Len(Csv) /\ o.row \in Nat
      /\ o.copy.sent + o.copy.failed = o.row
      /\ Cardinality(Unstarted(Len(Csv))) <= o.copy.failed
  BY <1>1, Rows DEF Working, TaskRecord
<1>3. PICK c \in BatchRecord : /\ c = [o.copy EXCEPT !.status = "completed"]
                               /\ c.status = "completed"
                               /\ c.sent = o.copy.sent /\ c.failed = o.copy.failed
  <2> DEFINE d == o.copy
  <2>1. d \in BatchRecord
    BY <1>2
  <2> HIDE DEF d
  <2>2. /\ [d EXCEPT !.status = "completed"]
              \in [status : {"none", "queued", "in_progress", "completed"},
                   sent : Nat, failed : Nat]
        /\ [d EXCEPT !.status = "completed"].status = "completed"
        /\ [d EXCEPT !.status = "completed"].sent = d.sent
        /\ [d EXCEPT !.status = "completed"].failed = d.failed
    BY <2>1, BatchRecords
  <2>3. [d EXCEPT !.status = "completed"] \in BatchRecord
    BY <2>1, <2>2, BatchRecords
  <2> QED
    BY <2>2, <2>3 DEF d
<1>4. PICK k \in TaskRecord : /\ k = [o EXCEPT !.at = "finished", !.copy = c]
                              /\ k.at = "finished" /\ k.copy = c
  <2>1. [o EXCEPT !.at = "finished", !.copy = c] \in TaskRecord
    BY DEF TaskRecord
  <2> QED
    BY <2>1 DEF TaskRecord
<1>5. task' = [task EXCEPT ![s] = k]
  <2>1. task \in [Submissions -> TaskRecord]
    BY DEF CastInv, CastShape
  <2>2. [task EXCEPT ![s].at = "finished", ![s].copy.status = "completed"]
          = [task EXCEPT ![s] = k]
    BY <1>1, <1>3, <1>4, <2>1 DEF TaskRecord
  <2> QED
    BY <2>2 DEF Finishes
<1>6. Stores(s, k.copy)
  <2>1. task'[s].copy = k.copy
    BY <1>5 DEF CastInv, CastShape
  <2> QED
    BY <2>1 DEF Finishes
<1>7. /\ starts' = starts /\ running' = running /\ locked' = locked
      /\ UNCHANGED <<submission, key, restarts>>
  BY DEF Finishes
<1>8. Unstarted(Len(Csv))' = Unstarted(Len(Csv))
  BY <1>7 DEF Unstarted
<1>9. k.copy.status = "completed" /\ Whole(k.copy)'
  <2>1. k.copy.status = "completed" /\ k.copy.sent = o.copy.sent /\ k.copy.failed = o.copy.failed
    BY <1>3, <1>4
  <2> QED
    BY <1>2, <1>8, <2>1 DEF Whole
<1>10. /\ starts \in [Phones -> Nat] /\ running \subseteq Phones /\ locked \subseteq Phones
       /\ \A p \in running : starts[p] > 0
       /\ \A p \in Phones : starts[p] >= starts[p]
  BY DEF CastInv, CastShape, CountsInv
<1>11. k.at = "finished" /\ task[s].at = "rows"
  BY <1>1, <1>4
<1> QED
  BY <1>5, <1>6, <1>7, <1>9, <1>10, <1>11, WorkStep

\* A claim of the key preserves the invariant; and that submissions go one at a time,
\* when they are not handled together.
LEMMA ClaimsStep ==
    ASSUME CastInv, NEW s \in Submissions, Claims(s)
    PROVE  CastInv' /\ (Together = FALSE => (OneAtATime => OneAtATime'))
<1>1. /\ submission \in [Submissions -> [at : Over \cup {"lookup", "save"},
                                         id : Submissions \cup {NoBatch}]]
      /\ key \in Submissions \cup {NoBatch}
  BY DEF CastInv, CastShape
<1>2. key' \in Submissions /\ (key \in Submissions => key' = key)
      /\ (key \notin Submissions => key' = s)
  BY <1>1, NoBatchAssumption DEF Claims
<1>3. PICK a \in {"save", "lookup"} : a = IF key' = s THEN "save" ELSE "lookup"
  OBVIOUS
<1>4. PICK r \in [at : Over \cup {"lookup", "save"}, id : Submissions \cup {NoBatch}] :
         r = [at |-> a, id |-> key'] /\ r.at = a /\ r.id = key'
  <2>1. PICK x \in Submissions \cup {NoBatch} : x = key'
    BY <1>2
  <2>2. PICK c \in Over \cup {"lookup", "save"} : c = a
    OBVIOUS
  <2>3. [at |-> c, id |-> x] \in [at : Over \cup {"lookup", "save"},
                                 id : Submissions \cup {NoBatch}]
    OBVIOUS
  <2> QED
    BY <2>1, <2>2, <2>3
<1>5. submission' = [submission EXCEPT ![s] = r] /\ submission[s].at = "idle"
  BY <1>3, <1>4 DEF Claims
<1>6. /\ submission' \in [Submissions -> [at : Over \cup {"lookup", "save"},
                                          id : Submissions \cup {NoBatch}]]
      /\ submission'[s] = r
      /\ \A t \in Submissions \ {s} : submission'[t] = submission[t]
  BY <1>1, <1>5
<1>7. /\ batch' = batch /\ task' = task /\ starts' = starts /\ running' = running
      /\ locked' = locked /\ restarts' = restarts
  BY DEF Claims
<1>8. CastShape'
  BY <1>2, <1>6, <1>7 DEF CastInv, CastShape
<1>9. CountsInv'
  <2>1. \A t \in Submissions : submission[t].id \in Submissions => submission'[t].id \in Submissions
    BY <1>2, <1>4, <1>6
  <2>2. \A t \in Submissions :
           submission'[t].at \in {"lookup", "save"} => submission'[t].id \in Submissions
    BY <1>2, <1>4, <1>6 DEF CastInv, CountsInv
  <2>3. CompletedIsWhole'
    BY <1>7 DEF CompletedIsWhole, CastInv, CountsInv
  <2>4. \A t \in Submissions :
           task'[t].at \in {"queued", "rows"} => Working(task[t])'
    BY <1>7 DEF Working, Unstarted, CastInv, CountsInv
  <2>5. \A t \in Submissions :
           task'[t].at \in {"queued", "rows"} => submission'[t].id \in Submissions
    BY <1>7, <2>1 DEF CastInv, CountsInv
  <2> QED
    BY <1>7, <2>2, <2>3, <2>4, <2>5 DEF CastInv, CountsInv
<1>10. ASSUME Together = FALSE, OneAtATime
       PROVE  OneAtATime'
  <2>1. \A t \in Submissions : submission[t].at \in Over
    BY <1>10 DEF Claims
  <2>2. \A t, u \in Submissions :
           submission'[t].at \notin Over /\ submission'[u].at \notin Over => t = u
    BY <1>6, <2>1
  <2>3. key' \in Submissions
    BY <1>2
  <2>4. ASSUME NEW t \in Submissions
        PROVE  /\ submission'[t].at # "idle" => submission'[t].id = key'
               /\ submission'[t].at = "save" => batch'[key'].status = "none"
               /\ task'[t].at # "none" =>
                     submission'[t].at = "done" /\ batch'[key'].status # "none"
    <3>1. CASE key \notin Submissions
      <4>1. /\ \A u \in Submissions : submission[u].at = "idle" /\ task[u].at = "none"
                                      /\ batch[u].status = "none"
        BY <1>10, <3>1 DEF OneAtATime
      <4> QED
        BY <1>2, <1>4, <1>6, <1>7, <3>1, <4>1
    <3>2. CASE key \in Submissions
      <4>1. key' = key /\ key # s /\ r.at = "lookup" /\ r.id = key
        BY <1>2, <1>3, <1>4, <1>5, <1>10, <3>2 DEF OneAtATime
      <4>2. task[s].at = "none"
        BY <1>5, <1>10 DEF OneAtATime
      <4> QED
        BY <1>6, <1>7, <1>10, <4>1, <4>2 DEF OneAtATime
    <3> QED BY <3>1, <3>2
  <2>5. submission'[key'].at # "idle"
    BY <1>2, <1>3, <1>4, <1>6, <1>10 DEF OneAtATime
  <2> QED
    BY <1>7, <1>10, <2>2, <2>3, <2>4, <2>5 DEF OneAtATime
<1> QED
  BY <1>8, <1>9, <1>10 DEF CastInv

\* A look at the key's batch preserves it.
LEMMA LooksUpStep ==
    ASSUME CastInv, NEW s \in Submissions, LooksUp(s)
    PROVE  CastInv' /\ (OneAtATime => OneAtATime')
<1>1. PICK a \in {"done", "save"} :
         a = IF Known(batch[submission[s].id]) THEN "done" ELSE "save"
  OBVIOUS
<1>2. submission' = [submission EXCEPT ![s].at = a] /\ submission[s].at = "lookup"
  BY <1>1 DEF LooksUp
<1>3. /\ submission \in [Submissions -> [at : Over \cup {"lookup", "save"},
                                         id : Submissions \cup {NoBatch}]]
      /\ submission[s].id \in Submissions
  BY <1>2 DEF CastInv, CastShape, CountsInv
<1>4. /\ submission' \in [Submissions -> [at : Over \cup {"lookup", "save"},
                                          id : Submissions \cup {NoBatch}]]
      /\ submission'[s].at = a
      /\ \A t \in Submissions : submission'[t].id = submission[t].id
      /\ \A t \in Submissions \ {s} : submission'[t] = submission[t]
  BY <1>2, <1>3 DEF Over
<1>5. /\ batch' = batch /\ task' = task /\ starts' = starts /\ running' = running
      /\ locked' = locked /\ restarts' = restarts /\ key' = key
  BY DEF LooksUp
<1>6. CastShape'
  BY <1>4, <1>5 DEF CastInv, CastShape
<1>7. CountsInv'
  <2>1. CompletedIsWhole'
    BY <1>5 DEF CompletedIsWhole, CastInv, CountsInv
  <2>2. \A t \in Submissions :
           task'[t].at \in {"queued", "rows"} =>
              Working(task[t])' /\ submission'[t].id \in Submissions
    BY <1>4, <1>5 DEF Working, Unstarted, CastInv, CountsInv
  <2>3. \A t \in Submissions :
           submission'[t].at \in {"lookup", "save"} => submission'[t].id \in Submissions
    BY <1>3, <1>4 DEF CastInv, CountsInv
  <2> QED
    BY <1>5, <2>1, <2>2, <2>3 DEF CastInv, CountsInv
<1>8. ASSUME OneAtATime PROVE OneAtATime'
  <2>1. key \in Submissions /\ submission[s].id = key /\ task[s].at = "none"
    BY <1>2, <1>3, <1>8 DEF OneAtATime
  <2>2. a = "save" => batch[key].status = "none"
    BY <1>1, <2>1 DEF Known
  <2>3. submission[s].at \notin Over
    BY <1>2 DEF Over
  <2>4. \A t \in Submissions : submission'[t].at \notin Over => submission[t].at \notin Over
    BY <1>4, <2>3
  <2>5. submission'[key].at # "idle"
    BY <1>4, <1>8, <2>1 DEF OneAtATime
  <2>6. ASSUME NEW t \in Submissions
        PROVE  /\ submission'[t].at # "idle" => submission'[t].id = key
               /\ submission'[t].at = "save" => batch[key].status = "none"
               /\ task[t].at # "none" => submission'[t].at = "done" /\ batch[key].status # "none"
    BY <1>4, <1>8, <2>1, <2>2 DEF OneAtATime
  <2>7. \A t, u \in Submissions :
           submission'[t].at \notin Over /\ submission'[u].at \notin Over => t = u
    BY <1>8, <2>4 DEF OneAtATime
  <2> QED
    BY <1>5, <1>8, <2>1, <2>5, <2>6, <2>7 DEF OneAtATime
<1> QED
  BY <1>6, <1>7, <1>8 DEF CastInv

\* The save of the batch preserves it.
LEMMA SavesBatchStep ==
    ASSUME CastInv, NEW s \in Submissions, SavesBatch(s)
    PROVE  CastInv' /\ (OneAtATime => OneAtATime')
<1>1. /\ submission \in [Submissions -> [at : Over \cup {"lookup", "save"},
                                         id : Submissions \cup {NoBatch}]]
      /\ batch \in [Submissions -> BatchRecord] /\ task \in [Submissions -> TaskRecord]
      /\ submission[s].at = "save" /\ submission[s].id \in Submissions
  BY DEF SavesBatch, CastInv, CastShape, CountsInv
<1>2. PICK k \in TaskRecord : /\ k = [at |-> "queued", row |-> 0, copy |-> Queued]
                              /\ k.at = "queued" /\ k.row = 0 /\ k.copy = Queued
  <2>1. 0 \in 0..Len(Csv)
    BY Rows
  <2>2. PICK c \in BatchRecord : c = Queued
    BY FirstRecords
  <2>3. [at |-> "queued", row |-> 0, copy |-> c] \in TaskRecord
    BY <2>1 DEF TaskRecord
  <2> QED
    BY <2>2, <2>3
<1>3. PICK x \in Submissions : x = submission[s].id
  BY <1>1
<1>4. /\ batch' = [batch EXCEPT ![x] = Queued] /\ task' = [task EXCEPT ![s] = k]
      /\ submission' = [submission EXCEPT ![s].at = "done"]
      /\ starts' = starts /\ running' = running /\ locked' = locked
      /\ restarts' = restarts /\ key' = key
  BY <1>2, <1>3 DEF SavesBatch
<1>5. /\ submission' \in [Submissions -> [at : Over \cup {"lookup", "save"},
                                          id : Submissions \cup {NoBatch}]]
      /\ submission'[s].at = "done"
      /\ \A t \in Submissions : submission'[t].id = submission[t].id
      /\ \A t \in Submissions \ {s} : submission'[t] = submission[t]
  BY <1>1, <1>4 DEF Over
<1>6. /\ batch' \in [Submissions -> BatchRecord] /\ batch'[x].status = "queued"
      /\ \A t \in Submissions \ {x} : batch'[t] = batch[t]
  BY <1>1, <1>4, FirstRecords
<1>7. /\ task' \in [Submissions -> TaskRecord] /\ task'[s] = k
      /\ \A t \in Submissions \ {s} : task'[t] = task[t]
  BY <1>1, <1>4
<1>8. CastShape'
  BY <1>4, <1>5, <1>6, <1>7 DEF CastInv, CastShape
<1>9. Working(k)'
  <2>1. Cardinality(Unstarted(0)') = 0
    BY UnstartedFinite
  <2> QED
    BY <1>2, <2>1, FirstRecords DEF Working
<1>10. CountsInv'
  <2>1. \A t \in Submissions : batch'[t].status = "completed" => Whole(batch[t])'
    BY <1>4, <1>6, WholeBatches DEF CastInv, CountsInv, Whole, Unstarted
  <2>2. CompletedIsWhole'
    BY <2>1, WholeBatches
  <2>3. ASSUME NEW t \in Submissions, task'[t].at \in {"queued", "rows"}
        PROVE  Working(task[t])'
    <3>1. CASE t = s
      BY <1>7, <1>9, <3>1 DEF Working
    <3>2. CASE t # s
      <4>1. task'[t] = task[t] /\ task[t].at \in {"queued", "rows"}
        BY <1>7, <2>3, <3>2
      <4>2. Working(task[t])
        BY <4>1 DEF CastInv, CountsInv
      <4>3. \A n : Unstarted(n)' = Unstarted(n)
        BY <1>4 DEF Unstarted
      <4> QED
        BY <4>1, <4>2, <4>3 DEF Working
    <3> QED BY <3>1, <3>2
  <2>4. \A t \in Submissions :
           task'[t].at \in {"queued", "rows"} => submission'[t].id \in Submissions
    BY <1>1, <1>5, <1>7 DEF CastInv, CountsInv
  <2>5. \A t \in Submissions :
           submission'[t].at \in {"lookup", "save"} => submission'[t].id \in Submissions
    BY <1>1, <1>5 DEF CastInv, CountsInv
  <2> QED
    BY <1>4, <2>2, <2>3, <2>4, <2>5 DEF CastInv, CountsInv
<1>11. ASSUME OneAtATime PROVE OneAtATime'
  <2>1. key \in Submissions /\ x = key /\ batch[key].status = "none"
    BY <1>1, <1>3, <1>11 DEF OneAtATime
  <2>2. \A t \in Submissions : task[t].at = "none" /\ (t # s => submission[t].at # "save")
    BY <1>1, <1>11, <2>1 DEF OneAtATime, Over
  <2>3. \A t, u \in Submissions :
           submission'[t].at \notin Over /\ submission'[u].at \notin Over => t = u
    BY <1>5, <1>11 DEF OneAtATime, Over
  <2>4. ASSUME NEW t \in Submissions
        PROVE  /\ submission'[t].at # "idle" => submission'[t].id = key
               /\ submission'[t].at # "save"
               /\ task'[t].at # "none" => t = s /\ submission'[t].at = "done"
    BY <1>1, <1>5, <1>7, <1>11, <2>2 DEF OneAtATime
  <2>5. submission'[key].at # "idle"
    BY <1>5, <1>11, <2>1 DEF OneAtATime
  <2> QED
    BY <1>4, <1>6, <2>1, <2>3, <2>4, <2>5 DEF OneAtATime
<1> QED
  BY <1>8, <1>10, <1>11 DEF CastInv

\* A restart of the service preserves it.
LEMMA RestartsStep ==
    ASSUME CastInv, Restarts
    PROVE  CastInv' /\ (OneAtATime => OneAtATime')
<1>1. /\ submission \in [Submissions -> [at : Over \cup {"lookup", "save"},
                                         id : Submissions \cup {NoBatch}]]
      /\ task \in [Submissions -> TaskRecord] /\ restarts \in 0..MaxRestarts
  BY DEF CastInv, CastShape
<1>2. PICK k \in TaskRecord : k = [NoTask EXCEPT !.at = "dead"] /\ k.at = "dead"
  <2>1. 0 \in 0..Len(Csv)
    BY Rows
  <2>2. PICK c \in BatchRecord : c = NoRecord
    BY FirstRecords
  <2>3. [NoTask EXCEPT !.at = "dead"] = [at |-> "dead", row |-> 0, copy |-> c]
    BY <2>2 DEF NoTask
  <2>4. [at |-> "dead", row |-> 0, copy |-> c] \in TaskRecord
    BY <2>1 DEF TaskRecord
  <2> QED
    BY <2>3, <2>4
<1>3. /\ task' = [s \in Submissions |->
                    IF task[s].at \in {"none", "finished"} THEN task[s] ELSE k]
      /\ submission' = [s \in Submissions |->
                          IF submission[s].at \in Over THEN submission[s]
                          ELSE [submission[s] EXCEPT !.at = "dead"]]
      /\ batch' = batch /\ starts' = starts /\ running' = running /\ locked' = locked
      /\ key' = key /\ restarts' = restarts + 1 /\ restarts < MaxRestarts
  BY <1>2 DEF Restarts
<1>4. ASSUME NEW s \in Submissions
      PROVE  /\ submission'[s] \in [at : Over \cup {"lookup", "save"},
                                    id : Submissions \cup {NoBatch}]
             /\ submission'[s].at \in Over /\ submission'[s].id = submission[s].id
             /\ submission[s].at \in Over => submission'[s] = submission[s]
             /\ submission[s].at \notin Over => submission'[s].at = "dead"
  <2>1. CASE submission[s].at \in Over
    BY <1>1, <1>3, <2>1
  <2>2. CASE submission[s].at \notin Over
    <3>1. submission'[s] = [submission[s] EXCEPT !.at = "dead"]
      BY <1>3, <2>2
    <3>2. "dead" \in Over
      BY DEF Over
    <3> QED
      BY <1>1, <2>2, <3>1, <3>2
  <2> QED BY <2>1, <2>2
<1>5. submission' \in [Submissions -> [at : Over \cup {"lookup", "save"},
                                      id : Submissions \cup {NoBatch}]]
  BY <1>3, <1>4
<1>6. /\ task' \in [Submissions -> TaskRecord]
      /\ \A s \in Submissions : /\ task'[s].at \in {"none", "finished", "dead"}
                                /\ task'[s].at = "none" <=> task[s].at = "none"
  BY <1>1, <1>2, <1>3
<1>7. CastShape'
  <2>1. restarts' \in 0..MaxRestarts
    BY <1>1, <1>3, BroadcastConstants
  <2> QED
    BY <1>3, <1>5, <1>6, <2>1 DEF CastInv, CastShape
<1>8. CountsInv'
  <2>1. CompletedIsWhole'
    BY <1>3 DEF CompletedIsWhole, CastInv, CountsInv
  <2>2. \A s \in Submissions : task'[s].at \notin {"queued", "rows"}
    BY <1>6
  <2>3. \A s \in Submissions : submission'[s].at \notin {"lookup", "save"}
    BY <1>4 DEF Over
  <2> QED
    BY <1>3, <2>1, <2>2, <2>3 DEF CastInv, CountsInv
<1>9. ASSUME OneAtATime PROVE OneAtATime'
  <2>1. \A s \in Submissions :
           /\ submission'[s].at = "idle" <=> submission[s].at = "idle"
           /\ submission[s].at = "done" => submission'[s].at = "done"
           /\ submission'[s].at # "save"
    BY <1>4 DEF Over
  <2> QED
    BY <1>3, <1>4, <1>6, <1>9, <2>1 DEF OneAtATime
<1> QED
  BY <1>7, <1>8, <1>9 DEF CastInv

\* A claim on a phone that lapses, and a step that leaves the broadcast alone.
LEMMA CalmStep ==
    ASSUME CastInv, (\E p \in Phones : LockLapses(p)) \/ UNCHANGED castVars
    PROVE  CastInv' /\ (OneAtATime => OneAtATime')
<1>1. /\ submission' = submission /\ key' = key /\ batch' = batch /\ task' = task
      /\ starts' = starts /\ running' = running /\ restarts' = restarts
      /\ locked' \subseteq locked
  BY DEF LockLapses, castVars
<1>2. CastShape'
  BY <1>1 DEF CastInv, CastShape
<1>3. CountsInv'
  <2>1. CompletedIsWhole'
    BY <1>1 DEF CompletedIsWhole, CastInv, CountsInv
  <2>2. \A t \in Submissions :
           task'[t].at \in {"queued", "rows"} =>
              Working(task[t])' /\ submission'[t].id \in Submissions
    BY <1>1 DEF Working, Unstarted, CastInv, CountsInv
  <2> QED
    BY <1>1, <2>1, <2>2 DEF CastInv, CountsInv
<1>4. OneAtATime => OneAtATime'
  BY <1>1 DEF OneAtATime
<1> QED
  BY <1>2, <1>3, <1>4 DEF CastInv

-----------------------------------------------------------------------------
(* The composition. *)

\* The first state has both invariants.
LEMMA InitInvs == ASSUME Init PROVE StreamInv /\ CastInv /\ OneAtATime
<1>1. StreamInv
  <2>1. Len(inhand) = 0 /\ Len(activities) = 0 /\ inhand \in Seq(Nat) /\ activities \in Seq(Nat)
    BY EmptySeq DEF Init, StreamInit
  <2>2. Passed = 0
    BY <2>1 DEF Passed, Init, StreamInit
  <2>3. StreamShape
    <3>1. noted \in BOOLEAN /\ missed \subseteq 1..published
      BY DEF Init, StreamInit
    <3>2. /\ published \in Nat /\ cursor \in 0..published /\ counted \in Nat
          /\ glitches \in 0..MaxConsumerFaults
      BY StreamConstants DEF Init, StreamInit
    <3> QED
      BY <2>1, <3>1, <3>2 DEF StreamShape
  <2>4. HandInv
    BY <2>1, StreamConstants DEF HandInv, Init, StreamInit
  <2>5. RecordedInOrder /\ MetricsBacked
    BY <2>1 DEF RecordedInOrder, MetricsBacked, Init, StreamInit
  <2>6. /\ \A i \in 1..Len(activities) : activities[i] \in 1..Passed /\ activities[i] \notin missed
        /\ missed = {}
    BY <2>1 DEF Init, StreamInit
  <2> QED
    BY <2>3, <2>4, <2>5, <2>6 DEF StreamInv, LedgerOfEvents
<1>2. CastShape
  <2>1. "idle" \in Over /\ 0 \in 0..Len(Csv) /\ restarts \in 0..MaxRestarts
    BY Rows, BroadcastConstants DEF Over, Init, CastInit
  <2>2. NoTask \in TaskRecord
    BY <2>1, FirstRecords DEF NoTask, TaskRecord
  <2> QED
    BY <2>1, <2>2, FirstRecords DEF CastShape, Init, CastInit
<1>3. \A s \in Submissions :
         /\ submission[s].at = "idle" /\ task[s].at = "none" /\ batch[s].status = "none"
  BY FirstRecords DEF Init, CastInit, NoTask
<1>4. CountsInv
  BY <1>3 DEF CountsInv, CompletedIsWhole, Init, CastInit
<1>5. OneAtATime
  BY <1>3, NoBatchAssumption DEF OneAtATime, Over, Init, CastInit
<1> QED
  BY <1>1, <1>2, <1>4, <1>5 DEF CastInv

\* Whoever acts, the stream's part of a step is one of the stream's own.
LEMMA StreamNext == ASSUME StreamInv, [Next]_vars PROVE StreamInv'
<1>1. UNCHANGED streamVars \/ Publish \/ Consume \/ Crash
  BY DEF Next, vars, Submits, Works, Quiet, OtherEvent, Consumes
<1>2. CASE UNCHANGED streamVars
  BY <1>2 DEF streamVars, StreamInv, StreamShape, HandInv, LedgerOfEvents, Passed,
              RecordedInOrder, MetricsBacked, Oldest
<1>3. CASE Publish
  BY <1>3, PublishStep
<1>4. CASE Consume
  BY <1>4, ReadStep, DispatchStep, AckStep DEF Consume
<1>5. CASE Crash
  BY <1>5, CrashStep
<1> QED
  BY <1>1, <1>2, <1>3, <1>4, <1>5

\* Whoever acts, the broadcast's part of a step is one of its own.
LEMMA CastNext ==
    ASSUME CastInv, [Next]_vars
    PROVE  CastInv' /\ (Together = FALSE => (OneAtATime => OneAtATime'))
<1>1. \/ \E s \in Submissions : \/ Claims(s) \/ LooksUp(s) \/ SavesBatch(s)
                                \/ Begins(s) \/ SkipsRow(s) \/ StartsRow(s)
                                \/ FailsRow(s) \/ Finishes(s)
      \/ Restarts
      \/ (\E p \in Phones : LockLapses(p)) \/ UNCHANGED castVars
  BY DEF Next, vars, Submits, Works, OtherEvent, Consumes
<1>2. CASE \E s \in Submissions : \/ Claims(s) \/ LooksUp(s) \/ SavesBatch(s)
                                  \/ Begins(s) \/ SkipsRow(s) \/ StartsRow(s)
                                  \/ FailsRow(s) \/ Finishes(s)
  BY <1>2, ClaimsStep, LooksUpStep, SavesBatchStep, BeginsStep, RowSteps, FinishesStep
<1>3. CASE Restarts
  BY <1>3, RestartsStep
<1>4. CASE (\E p \in Phones : LockLapses(p)) \/ UNCHANGED castVars
  BY <1>4, CalmStep
<1> QED
  BY <1>1, <1>2, <1>3, <1>4

\* Both invariants hold in every state, whether submissions are handled together or not.
LEMMA Invariance == Spec => [](StreamInv /\ CastInv)
<1>1. Init => StreamInv /\ CastInv
  BY InitInvs
<1>2. StreamInv /\ CastInv /\ [Next]_vars => StreamInv' /\ CastInv'
  BY StreamNext, CastNext
<1> QED
  BY <1>1, <1>2, PTL DEF Spec

-----------------------------------------------------------------------------
(* The theorems. *)

\* The fields of the broadcast's records are of their types.
LEMMA CastInvImplies == ASSUME CastInv PROVE CastTypeOK /\ CompletedIsWhole
<1>1. ASSUME NEW s \in Submissions
      PROVE  /\ submission[s].at \in Over \cup {"lookup", "save"}
             /\ submission[s].id \in Submissions \cup {NoBatch}
             /\ batch[s].status \in {"none", "queued", "in_progress", "completed"}
             /\ batch[s].sent + batch[s].failed \in 0..Len(Csv)
             /\ task[s].at \in {"none", "queued", "rows", "finished", "dead"}
             /\ task[s].row \in 0..Len(Csv)
  <2>1. PICK r \in BatchRecord : r = batch[s]
    BY DEF CastInv, CastShape
  <2>2. PICK k \in TaskRecord : k = task[s]
    BY DEF CastInv, CastShape
  <2>3. /\ r.status \in {"none", "queued", "in_progress", "completed"}
        /\ r.sent + r.failed \in 0..Len(Csv)
    BY BatchRecords
  <2>4. /\ k.at \in {"none", "queued", "rows", "finished", "dead"}
        /\ k.row \in 0..Len(Csv)
    BY DEF TaskRecord
  <2>5. /\ submission[s].at \in Over \cup {"lookup", "save"}
        /\ submission[s].id \in Submissions \cup {NoBatch}
    BY DEF CastInv, CastShape
  <2> QED
    BY <2>1, <2>2, <2>3, <2>4, <2>5
<1> QED
  BY <1>1 DEF CastTypeOK, CastInv, CastShape, CountsInv

\* For any file, any number of submissions and restarts, any stream length and batch
\* size: the activity log holds no event twice or out of order, and the dashboard
\* counts none that the log does not hold (consume_once, record).
THEOREM LogCorrect == Spec => []LogInv
<1>1. StreamInv /\ CastInv => LogInv
  BY StreamInvImplies, CastInvImplies DEF LogInv, TypeOK
<1> QED
  BY <1>1, Invariance, PTL

\* A batch that says COMPLETED went through the whole file, and started every phone
\* that its failures do not account for, even when two submissions of one key are
\* worked at once and the service restarts between rows (BroadcastCoordinator.process).
THEOREM WholeCorrect == Spec => []CompletedIsWhole
<1>1. CastInv => CompletedIsWhole
  BY CastInvImplies
<1> QED
  BY <1>1, Invariance, PTL

\* Submissions that do not overlap schedule one task for their key, whichever of them
\* dies in a restart and between which two of its steps (submit_broadcast).
THEOREM OneTaskCorrect ==
    ASSUME Together = FALSE
    PROVE  Spec => []OneTaskPerKey
<1>1. Init => CastInv /\ OneAtATime
  BY InitInvs
<1>2. CastInv /\ OneAtATime /\ [Next]_vars => CastInv' /\ OneAtATime'
  BY CastNext
<1>3. OneAtATime => OneTaskPerKey
  <2> SUFFICES ASSUME OneAtATime PROVE OneTaskPerKey
    OBVIOUS
  <2> DEFINE S == {s \in Submissions : task[s].at # "none"}
  <2>1. S = {} \/ \E s \in Submissions : S = {s}
    BY DEF OneAtATime
  <2>2. \A s : Cardinality({s}) = 1
    BY FS_Singleton
  <2>3. Cardinality({}) = 0
    BY FS_EmptySet
  <2>4. Cardinality(S) = 0 \/ Cardinality(S) = 1
    BY <2>1, <2>2, <2>3
  <2> QED
    BY <2>4 DEF OneTaskPerKey
<1> QED
  BY <1>1, <1>2, <1>3, PTL DEF Spec

=============================================================================
