-------------------------- MODULE DispatchProofs --------------------------
(***************************************************************************)
(* Proofs about Dispatch, for any number of deliveries, messages and other *)
(* SMEs, and whatever webhooks and campaigns do to the runs.               *)
(***************************************************************************)
EXTENDS Dispatch, FunctionTheorems, FiniteSetTheorems, SequenceTheorems, TLAPS

\* The lock table has room for every SME and channel there is: nothing is evicted.
RoomForAll == IsFiniteSet(Keys) /\ Cardinality(Keys) <= LocksMax

-----------------------------------------------------------------------------
(* The inductive invariant *)

TaskRecord == [pc : Pcs, key : Keys, msg : Messages, lock : Nat, lock2 : Nat]

Shape ==
    /\ task \in [Deliveries -> TaskRecord]
    /\ table \in Seq(Keys \X Nat) /\ Len(table) <= LocksMax
    /\ made \in Nat
    /\ \A i \in 1 .. Len(table) : table[i][2] \in 1 .. made
    /\ run \in [Keys -> {"none", "live", "failed", "over"}]
    /\ seen \subseteq Messages
    /\ handled \in [Messages -> Nat]

\* Past its look at the lock table
Sited(d) == task[d].pc \notin {"idle", "table", "done"}
Sited2(d) == task[d].pc \in {"lock2", "resume2"}

Numbered(d) ==
    /\ task[d].lock \in 0 .. made /\ task[d].lock2 \in 0 .. made
    /\ Sited(d) => task[d].lock \in 1 .. made
    /\ Sited2(d) => task[d].lock2 \in 1 .. made
    /\ task[d].pc = "resume2" => task[d].lock # task[d].lock2

\* The locks that are held are those of the deliveries inside their sections, each of
\* them held by one.
HeldInv ==
    /\ \A d \in Deliveries : Holds(d) \subseteq held
    /\ held \subseteq UNION {Holds(d) : d \in Deliveries}
    /\ \A d, e \in Deliveries : d # e => Holds(d) \cap Holds(e) = {}

Busy(d) == task[d].pc \notin {"idle", "done"}

\* A message under way was claimed by its delivery alone, and no run took it before the
\* delivery is through.
Once ==
    /\ \A m \in Messages : handled[m] <= 1
    /\ \A m \in Messages \ seen : handled[m] = 0
    /\ \A d \in Deliveries : Busy(d) => task[d].msg \in seen
    /\ \A d \in Deliveries : Busy(d) /\ task[d].pc # "ping" => handled[task[d].msg] = 0
    /\ \A d, e \in Deliveries : Busy(d) /\ Busy(e) /\ task[d].msg = task[e].msg => d = e

Inv == Shape /\ (\A d \in Deliveries : Numbered(d)) /\ HeldInv /\ Once

Has(k, l) == \E i \in 1 .. Len(table) : table[i] = <<k, l>>

\* One key, one lock
Unique == \A i, j \in 1 .. Len(table) :
             table[i][1] = table[j][1] \/ table[i][2] = table[j][2] => i = j

\* What the table promises while nothing is evicted: one lock for a key, and every
\* delivery past its look has the lock that is in there.
TableInv ==
    /\ Unique
    /\ \A d \in Deliveries :
          /\ Sited(d) => Has(task[d].key, task[d].lock)
          /\ task[d].pc \in {"table2", "lock2", "resume2"} => task[d].key \in SmeKeys
          /\ Sited2(d) => Has(Other(task[d].key), task[d].lock2)

-----------------------------------------------------------------------------
(* The lock table *)

\* A sequence without the element at a place.
LEMMA RemoveAtFacts ==
    ASSUME NEW S, NEW s \in Seq(S), NEW i \in 1 .. Len(s)
    PROVE  /\ RemoveAt(s, i) \in Seq(S) /\ Len(RemoveAt(s, i)) = Len(s) - 1
           /\ \A j \in 1 .. Len(s) - 1 :
                 RemoveAt(s, i)[j] = IF j < i THEN s[j] ELSE s[j + 1]
<1> DEFINE n == Len(s)
           a == SubSeq(s, 1, i - 1)
           b == SubSeq(s, i + 1, n)
<1>1. n \in Nat /\ i \in 1 .. n /\ \A j \in 1 .. n : s[j] \in S
  BY LenProperties, ElementOfSeq
<1>2. /\ a \in Seq(S) /\ Len(a) = i - 1 /\ \A j \in 1 .. i - 1 : a[j] = s[j]
  <2>1. /\ i - 1 \in Int /\ 1 \in Int /\ \A j \in 1 .. i - 1 : s[j] \in S
        /\ (IF 1 <= i - 1 THEN i - 1 - 1 + 1 ELSE 0) = i - 1
        /\ i - 1 - 1 + 1 = i - 1 /\ \A j \in 1 .. i - 1 : 1 + j - 1 = j
    BY <1>1
  <2>2. /\ a \in Seq(S) /\ Len(a) = IF 1 <= i - 1 THEN i - 1 - 1 + 1 ELSE 0
        /\ \A j \in 1 .. i - 1 - 1 + 1 : a[j] = s[1 + j - 1]
    BY <2>1, SubSeqProperties
  <2> HIDE DEF a
  <2> QED
    BY <2>1, <2>2
<1>3. /\ b \in Seq(S) /\ Len(b) = n - i /\ \A j \in 1 .. n - i : b[j] = s[i + j]
  <2>1. PICK m \in Int, h \in Int : m = i + 1 /\ h = n
    BY <1>1
  <2>2. \A j \in m .. h : s[j] \in S
    BY <1>1, <2>1
  <2>3. /\ SubSeq(s, m, h) \in Seq(S)
        /\ Len(SubSeq(s, m, h)) = IF m <= h THEN h - m + 1 ELSE 0
        /\ \A j \in 1 .. h - m + 1 : SubSeq(s, m, h)[j] = s[m + j - 1]
    BY <2>2, SubSeqProperties
  <2>4. b = SubSeq(s, m, h)
    BY <2>1
  <2> HIDE DEF b, n
  <2>5. /\ b \in Seq(S) /\ Len(b) = IF m <= h THEN h - m + 1 ELSE 0
        /\ \A j \in 1 .. h - m + 1 : b[j] = s[m + j - 1]
    BY <2>3, <2>4
  <2>6. /\ (IF m <= h THEN h - m + 1 ELSE 0) = n - i
        /\ h - m + 1 = n - i /\ \A j \in 1 .. n - i : m + j - 1 = i + j
    BY <1>1, <2>1
  <2> QED
    BY <2>5, <2>6
<1>4. RemoveAt(s, i) = a \o b
  BY DEF RemoveAt
<1> HIDE DEF a, b, n
<1>5. /\ a \o b \in Seq(S) /\ Len(a \o b) = Len(a) + Len(b)
      /\ \A j \in 1 .. Len(a) + Len(b) :
            (a \o b)[j] = IF j <= Len(a) THEN a[j] ELSE b[j - Len(a)]
  BY <1>2, <1>3, ConcatProperties
<1>6. Len(a) + Len(b) = n - 1
  BY <1>1, <1>2, <1>3
<1>7. ASSUME NEW j \in 1 .. n - 1
      PROVE  (a \o b)[j] = IF j < i THEN s[j] ELSE s[j + 1]
  <2>1. CASE j < i
    BY <1>1, <1>2, <1>5, <1>6, <2>1
  <2>2. CASE ~(j < i)
    <3>1. ~(j <= Len(a)) /\ j - Len(a) \in 1 .. n - i /\ i + (j - Len(a)) = j + 1
      BY <1>1, <1>2, <2>2
    <3>2. (a \o b)[j] = b[j - Len(a)]
      BY <1>5, <1>6, <3>1
    <3> QED
      BY <1>3, <2>2, <3>1, <3>2
  <2> QED BY <2>1, <2>2
<1> QED
  BY <1>4, <1>5, <1>6, <1>7 DEF n

\* A look at the table for key k, when it has an entry: the entries are the same ones.
LEMMA TouchFacts ==
    ASSUME Shape, NEW k \in Keys, NEW l \in Nat, NEW i \in 1 .. Len(table), table[i] = <<k, l>>,
           table' = Append(RemoveAt(table, i), <<k, l>>)
    PROVE  /\ table' \in Seq(Keys \X Nat) /\ Len(table') = Len(table)
           /\ table'[Len(table)] = <<k, l>>
           /\ \A j \in 1 .. Len(table) - 1 :
                 table'[j] = IF j < i THEN table[j] ELSE table[j + 1]
<1> DEFINE r == RemoveAt(table, i)
           e == <<k, l>>
<1>1. /\ r \in Seq(Keys \X Nat) /\ Len(r) = Len(table) - 1
      /\ \A j \in 1 .. Len(table) - 1 : r[j] = IF j < i THEN table[j] ELSE table[j + 1]
  BY RemoveAtFacts DEF Shape
<1>2. e \in Keys \X Nat
  OBVIOUS
<1>3. table' = Append(r, e) /\ Len(table) \in Nat
  BY LenProperties DEF Shape
<1> HIDE DEF r, e
<1>4. /\ Append(r, e) \in Seq(Keys \X Nat) /\ Len(Append(r, e)) = Len(r) + 1
      /\ \A j \in 1 .. Len(r) : Append(r, e)[j] = r[j]
      /\ Append(r, e)[Len(r) + 1] = e
  BY <1>1, <1>2, AppendProperties
<1>5. Len(r) + 1 = Len(table)
  BY <1>1, <1>3
<1> QED
  BY <1>1, <1>3, <1>4, <1>5 DEF e

\* A look for a key that has no entry: a new last entry, before the oldest ones go.
LEMMA AddFacts ==
    ASSUME Shape, NEW e \in Keys \X Nat
    PROVE  LET q == Append(table, e)
               n == Len(table) + 1
               m == IF n > LocksMax THEN n - LocksMax + 1 ELSE 1
           IN  /\ Trimmed(q) \in Seq(Keys \X Nat) /\ m \in 1 .. n
               /\ Len(Trimmed(q)) = n - m + 1 /\ n - m + 1 <= LocksMax /\ n - m + 1 >= 1
               /\ \A j \in 1 .. n - m + 1 :
                     Trimmed(q)[j] = IF m + j - 1 = n THEN e ELSE table[m + j - 1]
<1> DEFINE q == Append(table, e)
           n == Len(table) + 1
           m == IF n > LocksMax THEN n - LocksMax + 1 ELSE 1
<1>1. /\ q \in Seq(Keys \X Nat) /\ Len(q) = n
      /\ \A j \in 1 .. Len(table) : q[j] = table[j]
      /\ q[n] = e
  BY AppendProperties DEF Shape
<1>2. Len(table) \in Nat /\ Len(table) <= LocksMax /\ LocksMax \in Nat /\ LocksMax >= 1
  BY LenProperties, LocksMaxAssumption DEF Shape
<1>3. n \in Nat /\ m \in 1 .. n /\ n - m + 1 <= LocksMax /\ n - m + 1 >= 1 /\ n - m + 1 \in Nat
  BY <1>2
<1>4. Trimmed(q) = SubSeq(q, m, n)
  BY <1>1 DEF Trimmed
<1>5. \A j \in 1 .. n : q[j] = IF j = n THEN e ELSE table[j]
  BY <1>1, <1>2
<1> HIDE DEF q, n, m
<1>6. \A j \in m .. n : q[j] \in Keys \X Nat
  BY <1>1, <1>3, ElementOfSeq
<1>7. /\ SubSeq(q, m, n) \in Seq(Keys \X Nat)
      /\ Len(SubSeq(q, m, n)) = IF m <= n THEN n - m + 1 ELSE 0
      /\ \A j \in 1 .. n - m + 1 : SubSeq(q, m, n)[j] = q[m + j - 1]
  <2>1. m \in Int /\ n \in Int
    BY <1>3
  <2> QED
    BY <1>6, <2>1, SubSeqProperties
<1>8. \A j \in 1 .. n - m + 1 : m + j - 1 \in 1 .. n
  BY <1>3
<1>9. /\ Trimmed(q) \in Seq(Keys \X Nat) /\ m \in 1 .. n
      /\ Len(Trimmed(q)) = n - m + 1 /\ n - m + 1 <= LocksMax /\ n - m + 1 >= 1
      /\ \A j \in 1 .. n - m + 1 :
            Trimmed(q)[j] = IF m + j - 1 = n THEN e ELSE table[m + j - 1]
  BY <1>3, <1>4, <1>5, <1>7, <1>8
<1> QED
  BY <1>9 DEF q, n, m

\* A look keeps the table's shape and bound, and its lock is one that was made.
LEMMA LookShape ==
    ASSUME Shape, NEW k \in Keys, NEW l \in Nat, IdentityLock(k, l)
    PROVE  /\ table' \in Seq(Keys \X Nat) /\ Len(table') <= LocksMax
           /\ made' \in Nat /\ made' >= made /\ l \in 1 .. made'
           /\ \A i \in 1 .. Len(table') : table'[i][2] \in 1 .. made'
<1>1. /\ made \in Nat /\ Len(table) \in Nat /\ Len(table) <= LocksMax
      /\ \A i \in 1 .. Len(table) : table[i][2] \in 1 .. made
      /\ DOMAIN table = 1 .. Len(table)
  BY LenProperties DEF Shape
<1>2. CASE /\ \E i \in DOMAIN table :
                 table[i] = <<k, l>> /\ table' = Append(RemoveAt(table, i), <<k, l>>)
           /\ UNCHANGED made
  <2>1. PICK i \in 1 .. Len(table) :
           table[i] = <<k, l>> /\ table' = Append(RemoveAt(table, i), <<k, l>>)
    BY <1>1, <1>2
  <2>2. /\ table' \in Seq(Keys \X Nat) /\ Len(table') = Len(table)
        /\ table'[Len(table)] = <<k, l>>
        /\ \A j \in 1 .. Len(table) - 1 : table'[j] = IF j < i THEN table[j] ELSE table[j + 1]
    BY <2>1, TouchFacts
  <2>3. l \in 1 .. made
    BY <1>1, <2>1
  <2>4. \A j \in 1 .. Len(table) - 1 : table'[j][2] \in 1 .. made
    BY <1>1, <2>2
  <2>5. \A j \in 1 .. Len(table) : table'[j][2] \in 1 .. made
    BY <1>1, <2>2, <2>3, <2>4
  <2> QED
    BY <1>1, <1>2, <2>2, <2>3, <2>5
<1>3. CASE /\ l = made + 1 /\ made' = made + 1
           /\ table' = Trimmed(Append(table, <<k, l>>))
  <2> DEFINE e == <<k, l>>
             n == Len(table) + 1
             m == IF n > LocksMax THEN n - LocksMax + 1 ELSE 1
  <2>1. e \in Keys \X Nat /\ e[2] = made + 1
    BY <1>3
  <2>2. /\ table' \in Seq(Keys \X Nat) /\ m \in 1 .. n
        /\ Len(table') = n - m + 1 /\ n - m + 1 <= LocksMax
        /\ \A j \in 1 .. n - m + 1 : table'[j] = IF m + j - 1 = n THEN e ELSE table[m + j - 1]
    BY <1>3, <2>1, AddFacts
  <2> HIDE DEF e, m
  <2>3. ASSUME NEW j \in 1 .. n - m + 1
        PROVE  table'[j][2] \in 1 .. made + 1
    <3>1. m + j - 1 = n \/ m + j - 1 \in 1 .. Len(table)
      BY <1>1, <2>2
    <3>2. made + 1 \in 1 .. made + 1 /\ \A x \in 1 .. made : x \in 1 .. made + 1
      BY <1>1
    <3>3. CASE m + j - 1 = n
      BY <2>1, <2>2, <3>2, <3>3
    <3>4. CASE m + j - 1 # n
      BY <1>1, <2>2, <3>1, <3>2, <3>4
    <3> QED BY <3>3, <3>4
  <2>4. /\ l \in 1 .. made' /\ made' \in Nat /\ made' >= made
    BY <1>1, <1>3
  <2>5. \A j \in 1 .. Len(table') : table'[j][2] \in 1 .. made'
    BY <1>3, <2>2, <2>3
  <2>6. table' \in Seq(Keys \X Nat) /\ Len(table') <= LocksMax
    BY <2>2
  <2> QED
    BY <2>4, <2>5, <2>6
<1> QED
  BY <1>2, <1>3 DEF IdentityLock

\* While there is room a look forgets no entry, and leaves one for its key.
LEMMA LookKeeps ==
    ASSUME RoomForAll, Shape, Unique, NEW k \in Keys, NEW l \in Nat, IdentityLock(k, l)
    PROVE  Unique' /\ Has(k, l)' /\ \A k2, l2 : Has(k2, l2) => Has(k2, l2)'
<1>1. /\ made \in Nat /\ Len(table) \in Nat
      /\ \A i \in 1 .. Len(table) : table[i][2] \in 1 .. made
      /\ \A i \in 1 .. Len(table) : table[i] \in Keys \X Nat
      /\ DOMAIN table = 1 .. Len(table)
  BY LenProperties, ElementOfSeq DEF Shape
<1>2. CASE /\ \E i \in DOMAIN table :
                 table[i] = <<k, l>> /\ table' = Append(RemoveAt(table, i), <<k, l>>)
           /\ UNCHANGED made
  <2>1. PICK i \in 1 .. Len(table) :
           table[i] = <<k, l>> /\ table' = Append(RemoveAt(table, i), <<k, l>>)
    BY <1>1, <1>2
  <2>2. /\ table' \in Seq(Keys \X Nat) /\ Len(table') = Len(table)
        /\ table'[Len(table)] = <<k, l>>
        /\ \A j \in 1 .. Len(table) - 1 : table'[j] = IF j < i THEN table[j] ELSE table[j + 1]
    BY <2>1, TouchFacts
  <2>3. PICK n \in Nat : n = Len(table) /\ i \in 1 .. n
    BY <1>1, <2>1
  <2> DEFINE from(j) == IF j = n THEN i ELSE IF j < i THEN j ELSE j + 1
             to(x) == IF x = i THEN n ELSE IF x < i THEN x ELSE x - 1
  <2>4. ASSUME NEW j \in 1 .. n
        PROVE  from(j) \in 1 .. n /\ table'[j] = table[from(j)]
    <3>1. j = n \/ (j # n /\ j \in 1 .. n - 1 /\ j + 1 \in 1 .. n)
      BY <2>3
    <3>2. CASE j = n
      BY <2>1, <2>2, <2>3, <3>2
    <3>3. CASE j # n
      <4>1. table'[j] = IF j < i THEN table[j] ELSE table[j + 1]
        BY <2>2, <2>3, <3>1, <3>3
      <4> QED
        BY <3>1, <3>3, <4>1
    <3> QED BY <3>2, <3>3
  <2>5. \A j, x \in 1 .. n : from(j) = from(x) => j = x
    BY <2>3
  <2>6. \A x \in 1 .. n : to(x) \in 1 .. n /\ from(to(x)) = x
    BY <2>3
  <2> HIDE DEF from, to
  <2>7. Unique'
    <3>1. ASSUME NEW a \in 1 .. n, NEW b \in 1 .. n,
                 table'[a][1] = table'[b][1] \/ table'[a][2] = table'[b][2]
          PROVE  a = b
      <4>1. /\ from(a) \in 1 .. Len(table) /\ from(b) \in 1 .. Len(table)
            /\ table'[a] = table[from(a)] /\ table'[b] = table[from(b)]
        BY <2>3, <2>4
      <4>2. from(a) = from(b)
        BY <3>1, <4>1 DEF Unique
      <4> QED
        BY <2>5, <4>2
    <3>2. Len(table') = n
      BY <2>2, <2>3
    <3> QED
      BY <3>1, <3>2 DEF Unique
  <2>8. n \in 1 .. Len(table')
    BY <1>1, <2>1, <2>2, <2>3
  <2>9. Has(k, l)'
    BY <2>2, <2>3, <2>8 DEF Has
  <2>10. ASSUME NEW k2, NEW l2, Has(k2, l2) PROVE Has(k2, l2)'
    <3>1. PICK x \in 1 .. n : table[x] = <<k2, l2>>
      BY <2>3, <2>10 DEF Has
    <3>2. to(x) \in 1 .. n /\ table'[to(x)] = table[x]
      BY <2>4, <2>6
    <3> QED
      BY <2>2, <2>3, <3>1, <3>2 DEF Has
  <2> QED
    BY <2>7, <2>9, <2>10
<1>3. CASE /\ \A i \in DOMAIN table : table[i][1] # k
           /\ l = made + 1 /\ made' = made + 1
           /\ table' = Trimmed(Append(table, <<k, l>>))
  <2> DEFINE e == <<k, l>>
             n == Len(table) + 1
             m == IF n > LocksMax THEN n - LocksMax + 1 ELSE 1
             f == [j \in 1 .. n |-> IF j = n THEN k ELSE table[j][1]]
  <2>1. e \in Keys \X Nat /\ e[1] = k /\ e[2] = made + 1 /\ n \in Nat /\ n \in 1 .. n
    BY <1>1, <1>3
  <2>2. /\ Len(table') = n - m + 1
        /\ \A j \in 1 .. n - m + 1 : table'[j] = IF m + j - 1 = n THEN e ELSE table[m + j - 1]
    BY <1>3, <2>1, AddFacts
  <2>3. n <= LocksMax
    <3>1. f \in [1 .. n -> Keys]
      <4>1. \A j \in 1 .. n : j # n => j \in 1 .. Len(table)
        BY <1>1
      <4> QED
        BY <1>1, <4>1
    <3>2. \A a, b \in 1 .. n : f[a] = f[b] => a = b
      <4>1. \A j \in 1 .. n : j = n \/ (j \in 1 .. Len(table) /\ table[j][1] # k)
        BY <1>1, <1>3
      <4>2. \A j \in 1 .. n : j # n => f[j] = table[j][1] /\ j \in 1 .. Len(table)
        BY <4>1
      <4>3. f[n] = k
        BY <2>1
      <4> QED
        BY <4>1, <4>2, <4>3 DEF Unique
    <3> HIDE DEF f, n
    <3>3. f \in Injection(1 .. n, Keys)
      BY <3>1, <3>2, Fun_IsInj
    <3>4. Cardinality(1 .. n) <= Cardinality(Keys)
      BY <3>3, FS_Injection DEF RoomForAll
    <3>5. Cardinality(1 .. n) = n
      <4>1. Cardinality(1 .. n) = IF 1 > n THEN 0 ELSE n - 1 + 1
        BY <2>1, FS_Interval
      <4> QED
        BY <2>1, <4>1
    <3>6. Cardinality(Keys) \in Nat /\ LocksMax \in Nat
      BY FS_CardinalityType, LocksMaxAssumption DEF RoomForAll
    <3> QED
      BY <2>1, <3>4, <3>5, <3>6 DEF RoomForAll
  <2>4. m = 1
    BY <1>1, <2>3, LocksMaxAssumption
  <2> HIDE DEF e, m, f
  <2>5. Len(table') = n /\ \A j \in 1 .. n : table'[j] = IF j = n THEN e ELSE table[j]
    <3>1. /\ Len(table') = n - 1 + 1
          /\ \A j \in 1 .. n - 1 + 1 : table'[j] = IF 1 + j - 1 = n THEN e ELSE table[1 + j - 1]
      BY <2>2, <2>4
    <3>2. n - 1 + 1 = n /\ \A j \in 1 .. n : 1 + j - 1 = j
      BY <2>1
    <3> QED
      BY <3>1, <3>2
  <2>6. \A j \in 1 .. Len(table) : j \in 1 .. n /\ j # n /\ table'[j] = table[j]
    BY <1>1, <2>5
  <2>7. table'[n] = e
    BY <2>1, <2>5
  <2>8. \A j \in 1 .. n : j = n \/ j \in 1 .. Len(table)
    BY <1>1
  <2>9. Unique'
    <3>1. ASSUME NEW a \in 1 .. n, NEW b \in 1 .. n,
                 table'[a][1] = table'[b][1] \/ table'[a][2] = table'[b][2]
          PROVE  a = b
      <4>1. CASE a = n
        <5>1. \A j \in 1 .. Len(table) : table[j][1] # k /\ table[j][2] # made + 1
          BY <1>1, <1>3
        <5> QED
          BY <2>1, <2>6, <2>7, <2>8, <3>1, <4>1, <5>1
      <4>2. CASE b = n
        <5>1. \A j \in 1 .. Len(table) : table[j][1] # k /\ table[j][2] # made + 1
          BY <1>1, <1>3
        <5> QED
          BY <2>1, <2>6, <2>7, <2>8, <3>1, <4>2, <5>1
      <4>3. CASE a # n /\ b # n
        BY <2>6, <2>8, <3>1, <4>3 DEF Unique
      <4> QED BY <4>1, <4>2, <4>3
    <3> QED
      BY <2>5, <3>1 DEF Unique
  <2>10. Has(k, l)'
    BY <2>1, <2>5, <2>7 DEF Has, e
  <2>11. \A k2, l2 : Has(k2, l2) => Has(k2, l2)'
    BY <2>5, <2>6 DEF Has
  <2> QED
    BY <2>9, <2>10, <2>11
<1> QED
  BY <1>2, <1>3 DEF IdentityLock

-----------------------------------------------------------------------------
(* The steps of a delivery, by what they do to its locks and its message *)

\* The delivery goes on to pc; nothing else about it changes.
Moved(d, pc) ==
    /\ task' \in [Deliveries -> TaskRecord]
    /\ task'[d].pc = pc
    /\ task'[d].key = task[d].key /\ task'[d].msg = task[d].msg
    /\ task'[d].lock = task[d].lock /\ task'[d].lock2 = task[d].lock2
    /\ \A e \in Deliveries \ {d} : task'[e] = task[e]

Took(d) == handled' = [handled EXCEPT ![task[d].msg] = @ + 1]

Enters(d, pc) ==
    /\ handled' = handled
    /\ \/ /\ task[d].pc = "lock" /\ pc = "session"
          /\ task[d].lock \notin held /\ held' = held \cup {task[d].lock}
       \/ /\ task[d].pc = "lock2" /\ pc = "resume2"
          /\ task[d].lock2 \notin held /\ held' = held \cup {task[d].lock2}

GoesOn(d, pc) ==
    /\ handled' = handled /\ held' = held
    /\ task[d].pc \in {"session", "revived", "resolve", "start"}
    /\ pc \in {"resume", "revived", "resolve", "table2", "start", "replay"}
    /\ pc = "table2" => task[d].key \in SmeKeys

Leaves(d, pc) ==
    /\ \/ /\ task[d].pc \in {"resume", "revived", "ping", "start", "replay"} /\ pc = "done"
          /\ held' = held \ {task[d].lock}
       \/ /\ task[d].pc = "resume2" /\ pc \in {"ping", "start"}
          /\ held' = held \ {task[d].lock2}
    /\ handled' = handled \/ (Took(d) /\ task[d].pc # "ping" /\ pc # "start")

Inside(d, pc) ==
    /\ Moved(d, pc)
    /\ UNCHANGED <<table, made, seen>>
    /\ run' \in [Keys -> {"none", "live", "failed", "over"}]
    /\ Enters(d, pc) \/ GoesOn(d, pc) \/ Leaves(d, pc)

\* The fields of a task that goes on.
LEMMA GoesFacts ==
    ASSUME Shape, NEW d \in Deliveries, NEW pc \in Pcs, Goes(d, pc)
    PROVE  Moved(d, pc)
<1>1. PICK o \in TaskRecord : o = task[d]
  BY DEF Shape
<1>2. PICK k \in TaskRecord : /\ k = [o EXCEPT !.pc = pc]
                              /\ k.pc = pc /\ k.key = o.key /\ k.msg = o.msg
                              /\ k.lock = o.lock /\ k.lock2 = o.lock2
  <2>1. [o EXCEPT !.pc = pc] \in TaskRecord
    BY DEF TaskRecord
  <2> QED
    BY <2>1 DEF TaskRecord
<1>3. task' = [task EXCEPT ![d] = k]
  BY <1>1, <1>2 DEF Goes
<1> QED
  BY <1>1, <1>2, <1>3 DEF Moved, Shape

\* What a resume does to the run, and to the count of the message.
LEMMA DrivesFacts ==
    ASSUME Shape, NEW d \in Deliveries, NEW k \in Keys, Drives(d, k)
    PROVE  /\ run' \in [Keys -> {"none", "live", "failed", "over"}]
           /\ handled' = handled \/ Took(d)
<1>1. PICK s \in Outcomes(k) :
         /\ run' = [run EXCEPT ![k] = s]
         /\ handled' = IF run[k] = "live" /\ s # "failed"
                       THEN [handled EXCEPT ![task[d].msg] = @ + 1] ELSE handled
  BY DEF Drives
<1>2. s \in {"none", "live", "failed", "over"}
  BY DEF Outcomes, Shape
<1> QED
  BY <1>1, <1>2 DEF Shape, Took

\* Every step of a delivery that is not a look at the lock table.
LEMMA StepKinds ==
    ASSUME Shape, NEW d \in Deliveries, Step(d)
    PROVE  LooksUp(d) \/ LooksUpCanonical(d) \/ \E pc \in Pcs : Inside(d, pc)
<1>1. /\ task[d].key \in Keys /\ Other(task[d].key) \in Keys
      /\ run \in [Keys -> {"none", "live", "failed", "over"}]
  BY DEF Shape, TaskRecord, Other, Keys, SmeKeys
<1>2. \A pc \in {"session", "resume", "revived", "resolve", "table2", "resume2", "ping",
                "start", "replay", "done"} : pc \in Pcs
  BY DEF Pcs
<1>3. CASE Acquires(d)
  <2>1. Goes(d, "session") /\ Enters(d, "session") /\ UNCHANGED <<table, made, seen, run>>
    BY <1>3 DEF Acquires, Enters, At
  <2> QED
    BY <1>1, <1>2, <2>1, GoesFacts DEF Inside
<1>4. CASE Session(d)
  <2>1. PICK pc \in {"resume", "revived", "resolve"} : Goes(d, pc)
    BY <1>4 DEF Session
  <2>2. GoesOn(d, pc) /\ UNCHANGED <<table, made, seen>>
    BY <1>4 DEF Session, GoesOn, At
  <2>3. run' \in [Keys -> {"none", "live", "failed", "over"}]
    BY <1>1, <1>4 DEF Session
  <2> QED
    BY <1>2, <2>1, <2>2, <2>3, GoesFacts DEF Inside
<1>5. CASE Resumes(d)
  <2>1. /\ Goes(d, "done") /\ Drives(d, task[d].key) /\ UNCHANGED <<table, made, seen>>
        /\ task[d].pc = "resume" /\ held' = held \ {task[d].lock}
    BY <1>5 DEF Resumes, Releases, At
  <2>2. Leaves(d, "done") /\ run' \in [Keys -> {"none", "live", "failed", "over"}]
    BY <1>1, <2>1, DrivesFacts DEF Leaves
  <2> QED
    BY <1>2, <2>1, <2>2, GoesFacts DEF Inside
<1>6. CASE ResumesRevived(d)
  <2>1. /\ Drives(d, task[d].key) /\ UNCHANGED <<table, made, seen>> /\ task[d].pc = "revived"
        /\ \/ held' = held \ {task[d].lock} /\ Goes(d, "done")
           \/ handled' = handled /\ held' = held /\ Goes(d, "resolve")
    BY <1>6 DEF ResumesRevived, Releases, At
  <2>2. /\ run' \in [Keys -> {"none", "live", "failed", "over"}]
        /\ \/ Goes(d, "done") /\ Leaves(d, "done")
           \/ Goes(d, "resolve") /\ GoesOn(d, "resolve")
    BY <1>1, <2>1, DrivesFacts DEF Leaves, GoesOn
  <2> QED
    BY <1>2, <2>1, <2>2, GoesFacts DEF Inside
<1>7. CASE Resolves(d)
  <2>1. /\ UNCHANGED <<table, made, seen, run>>
        /\ \/ Goes(d, "table2") /\ GoesOn(d, "table2")
           \/ Goes(d, "start") /\ GoesOn(d, "start")
    BY <1>7 DEF Resolves, GoesOn, At
  <2> QED
    BY <1>1, <1>2, <2>1, GoesFacts DEF Inside
<1>8. CASE AcquiresCanonical(d)
  <2>1. Goes(d, "resume2") /\ Enters(d, "resume2") /\ UNCHANGED <<table, made, seen, run>>
    BY <1>8 DEF AcquiresCanonical, Enters, At
  <2> QED
    BY <1>1, <1>2, <2>1, GoesFacts DEF Inside
<1>9. CASE ResumesCanonical(d)
  <2>1. /\ Drives(d, Other(task[d].key)) /\ UNCHANGED <<table, made, seen>>
        /\ task[d].pc = "resume2" /\ held' = held \ {task[d].lock2}
        /\ Goes(d, "ping") \/ (handled' = handled /\ Goes(d, "start"))
    BY <1>9 DEF ResumesCanonical, Releases, At
  <2>2. /\ run' \in [Keys -> {"none", "live", "failed", "over"}]
        /\ \/ Goes(d, "ping") /\ Leaves(d, "ping")
           \/ Goes(d, "start") /\ Leaves(d, "start")
    BY <1>1, <2>1, DrivesFacts DEF Leaves
  <2> QED
    BY <1>2, <2>1, <2>2, GoesFacts DEF Inside
<1>10. CASE Pings(d)
  <2>1. Goes(d, "done") /\ Leaves(d, "done") /\ UNCHANGED <<table, made, seen, run>>
    BY <1>10 DEF Pings, Leaves, Releases, At
  <2> QED
    BY <1>1, <1>2, <2>1, GoesFacts DEF Inside
<1>11. CASE Starts(d)
  <2>1. /\ UNCHANGED <<table, made, seen>>
        /\ \/ Goes(d, "done") /\ Leaves(d, "done")
           \/ Goes(d, "replay") /\ GoesOn(d, "replay")
    BY <1>11 DEF Starts, Leaves, GoesOn, Releases, At, Took
  <2>2. run' \in [Keys -> {"none", "live", "failed", "over"}]
    BY <1>1, <1>11 DEF Starts
  <2> QED
    BY <1>2, <2>1, <2>2, GoesFacts DEF Inside
<1>12. CASE Replays(d)
  <2>1. /\ Goes(d, "done") /\ Drives(d, task[d].key) /\ UNCHANGED <<table, made, seen>>
        /\ task[d].pc = "replay" /\ held' = held \ {task[d].lock}
    BY <1>12 DEF Replays, Releases, At
  <2>2. Leaves(d, "done") /\ run' \in [Keys -> {"none", "live", "failed", "over"}]
    BY <1>1, <2>1, DrivesFacts DEF Leaves
  <2> QED
    BY <1>2, <2>1, <2>2, GoesFacts DEF Inside
<1> QED
  BY <1>3, <1>4, <1>5, <1>6, <1>7, <1>8, <1>9, <1>10, <1>11, <1>12 DEF Step

\* A look at the table: the delivery has the lock that is there for its key.
LEMMA LooksUpFacts ==
    ASSUME Shape, NEW d \in Deliveries, LooksUp(d)
    PROVE  \E l \in Nat :
              /\ IdentityLock(task[d].key, l)
              /\ task' \in [Deliveries -> TaskRecord]
              /\ task[d].pc = "table" /\ task'[d].pc = "lock"
              /\ task'[d].key = task[d].key /\ task'[d].msg = task[d].msg
              /\ task'[d].lock = l /\ task'[d].lock2 = task[d].lock2
              /\ \A e \in Deliveries \ {d} : task'[e] = task[e]
              /\ UNCHANGED <<held, run, seen, acked, handled>>
<1>1. PICK l \in 1 .. made + 1 :
         /\ IdentityLock(task[d].key, l)
         /\ task' = [task EXCEPT ![d].pc = "lock", ![d].lock = l]
  BY DEF LooksUp
<1>2. l \in Nat
  BY DEF Shape
<1>3. PICK o \in TaskRecord : o = task[d]
  BY DEF Shape
<1>4. "lock" \in Pcs
  BY DEF Pcs
<1>5. PICK k \in TaskRecord : /\ k = [o EXCEPT !.pc = "lock", !.lock = l]
                              /\ k.pc = "lock" /\ k.key = o.key /\ k.msg = o.msg
                              /\ k.lock = l /\ k.lock2 = o.lock2
  <2>1. [o EXCEPT !.pc = "lock", !.lock = l] \in TaskRecord
    BY <1>2, <1>4 DEF TaskRecord
  <2> QED
    BY <2>1 DEF TaskRecord
<1>6. task' = [task EXCEPT ![d] = k]
  BY <1>1, <1>3, <1>5 DEF Shape
<1>7. /\ task' \in [Deliveries -> TaskRecord] /\ task'[d] = k
      /\ \A e \in Deliveries \ {d} : task'[e] = task[e]
  BY <1>6 DEF Shape
<1> QED
  BY <1>1, <1>2, <1>3, <1>5, <1>7 DEF LooksUp, At

\* The same for the channel on which the run lives.
LEMMA LooksUpCanonicalFacts ==
    ASSUME Shape, NEW d \in Deliveries, LooksUpCanonical(d)
    PROVE  \E l \in Nat :
              /\ IdentityLock(Other(task[d].key), l)
              /\ task' \in [Deliveries -> TaskRecord]
              /\ task[d].pc = "table2" /\ task'[d].pc = "lock2"
              /\ task'[d].key = task[d].key /\ task'[d].msg = task[d].msg
              /\ task'[d].lock = task[d].lock /\ task'[d].lock2 = l
              /\ \A e \in Deliveries \ {d} : task'[e] = task[e]
              /\ UNCHANGED <<held, run, seen, acked, handled>>
<1>1. PICK l \in 1 .. made + 1 :
         /\ IdentityLock(Other(task[d].key), l)
         /\ task' = [task EXCEPT ![d].pc = "lock2", ![d].lock2 = l]
  BY DEF LooksUpCanonical
<1>2. l \in Nat
  BY DEF Shape
<1>3. PICK o \in TaskRecord : o = task[d]
  BY DEF Shape
<1>4. "lock2" \in Pcs
  BY DEF Pcs
<1>5. PICK k \in TaskRecord : /\ k = [o EXCEPT !.pc = "lock2", !.lock2 = l]
                              /\ k.pc = "lock2" /\ k.key = o.key /\ k.msg = o.msg
                              /\ k.lock = o.lock /\ k.lock2 = l
  <2>1. [o EXCEPT !.pc = "lock2", !.lock2 = l] \in TaskRecord
    BY <1>2, <1>4 DEF TaskRecord
  <2> QED
    BY <2>1 DEF TaskRecord
<1>6. task' = [task EXCEPT ![d] = k]
  BY <1>1, <1>3, <1>5 DEF Shape
<1>7. /\ task' \in [Deliveries -> TaskRecord] /\ task'[d] = k
      /\ \A e \in Deliveries \ {d} : task'[e] = task[e]
  BY <1>6 DEF Shape
<1> QED
  BY <1>1, <1>2, <1>3, <1>5, <1>7 DEF LooksUpCanonical, At

-----------------------------------------------------------------------------
(* The invariant is inductive *)

\* A delivery keeps its locks, takes one that was free, or gives one up.
LEMMA HeldStep ==
    ASSUME HeldInv, NEW d \in Deliveries,
           \A e \in Deliveries \ {d} : Holds(e)' = Holds(e),
           \/ Holds(d)' = Holds(d) /\ held' = held
           \/ \E x : x \notin held /\ held' = held \cup {x} /\ Holds(d)' = Holds(d) \cup {x}
           \/ \E x : x \in Holds(d) /\ held' = held \ {x} /\ Holds(d)' = Holds(d) \ {x}
    PROVE  HeldInv'
<1>1. CASE Holds(d)' = Holds(d) /\ held' = held
  BY <1>1 DEF HeldInv
<1>2. CASE \E x : x \notin held /\ held' = held \cup {x} /\ Holds(d)' = Holds(d) \cup {x}
  <2>1. PICK x : x \notin held /\ held' = held \cup {x} /\ Holds(d)' = Holds(d) \cup {x}
    BY <1>2
  <2>2. \A e \in Deliveries \ {d} : x \notin Holds(e)
    BY <2>1 DEF HeldInv
  <2> QED
    BY <2>1, <2>2 DEF HeldInv
<1>3. CASE \E x : x \in Holds(d) /\ held' = held \ {x} /\ Holds(d)' = Holds(d) \ {x}
  <2>1. PICK x : x \in Holds(d) /\ held' = held \ {x} /\ Holds(d)' = Holds(d) \ {x}
    BY <1>3
  <2>2. \A e \in Deliveries \ {d} : x \notin Holds(e)
    BY <2>1 DEF HeldInv
  <2> QED
    BY <2>1, <2>2 DEF HeldInv
<1> QED
  BY <1>1, <1>2, <1>3

\* What a step inside does to the locks that its delivery holds.
LEMMA InsideHolds ==
    ASSUME Shape, \A d \in Deliveries : Numbered(d), HeldInv,
           NEW d \in Deliveries, NEW pc \in Pcs, Inside(d, pc)
    PROVE  HeldInv'
<1>1. /\ task'[d].pc = pc /\ task'[d].lock = task[d].lock /\ task'[d].lock2 = task[d].lock2
      /\ \A e \in Deliveries \ {d} : task'[e] = task[e]
  BY DEF Inside, Moved
<1>2. \A e \in Deliveries \ {d} : Holds(e)' = Holds(e)
  BY <1>1 DEF Holds
<1>3. CASE Enters(d, pc)
  <2>1. CASE task[d].pc = "lock"
    <3>1. Holds(d) = {} /\ Holds(d)' = {task[d].lock}
      BY <1>1, <1>3, <2>1 DEF Enters, Holds
    <3>2. task[d].lock \notin held /\ held' = held \cup {task[d].lock}
      BY <1>3, <2>1 DEF Enters
    <3> QED
      BY <1>2, <3>1, <3>2, HeldStep
  <2>2. CASE task[d].pc = "lock2"
    <3>1. Holds(d) = {task[d].lock} /\ Holds(d)' = {task[d].lock} \cup {task[d].lock2}
      BY <1>1, <1>3, <2>2 DEF Enters, Holds
    <3>2. task[d].lock2 \notin held /\ held' = held \cup {task[d].lock2}
      BY <1>3, <2>2 DEF Enters
    <3> QED
      BY <1>2, <3>1, <3>2, HeldStep
  <2> QED
    BY <1>3, <2>1, <2>2 DEF Enters
<1>4. CASE GoesOn(d, pc)
  <2>1. Holds(d) = {task[d].lock} /\ Holds(d)' = {task[d].lock} /\ held' = held
    BY <1>1, <1>4 DEF GoesOn, Holds
  <2> QED
    BY <1>2, <2>1, HeldStep
<1>5. CASE Leaves(d, pc)
  <2>1. CASE pc = "done"
    <3>1. Holds(d) = {task[d].lock} /\ Holds(d)' = {} /\ held' = held \ {task[d].lock}
      BY <1>1, <1>5, <2>1 DEF Leaves, Holds
    <3> QED
      BY <1>2, <3>1, HeldStep
  <2>2. CASE pc # "done"
    <3>1. /\ task[d].pc = "resume2" /\ held' = held \ {task[d].lock2}
          /\ Holds(d)' = {task[d].lock}
      BY <1>1, <1>5, <2>2 DEF Leaves, Holds
    <3>2. Holds(d) = {task[d].lock} \cup {task[d].lock2}
      BY <3>1 DEF Holds
    <3>3. task[d].lock # task[d].lock2
      BY <3>1 DEF Numbered
    <3> QED
      BY <1>2, <3>1, <3>2, <3>3, HeldStep
  <2> QED BY <2>1, <2>2
<1> QED
  BY <1>3, <1>4, <1>5 DEF Inside

\* What a step inside does to the message: the run takes it once, and then the delivery
\* is through, or only has a ping to send.
LEMMA InsideOnce ==
    ASSUME Shape, Once, NEW d \in Deliveries, NEW pc \in Pcs, Inside(d, pc)
    PROVE  Once'
<1>1. /\ task'[d].pc = pc /\ task'[d].msg = task[d].msg /\ task[d].msg \in Messages
      /\ \A e \in Deliveries \ {d} : task'[e] = task[e]
      /\ seen' = seen /\ Busy(d)
  BY DEF Inside, Moved, Shape, TaskRecord, Enters, GoesOn, Leaves, Busy
<1>2. \A e \in Deliveries : (Busy(e))' => Busy(e)
  BY <1>1 DEF Busy
<1>3. \A e \in Deliveries : task'[e].msg = task[e].msg
  BY <1>1
<1>4. CASE handled' = handled
  <2>1. \A e \in Deliveries : task'[e].pc # "ping" => handled'[task'[e].msg] = handled[task[e].msg]
    BY <1>3, <1>4
  <2>2. task'[d].pc # "ping" /\ (Busy(d))' => task[d].pc # "ping"
    BY <1>1 DEF Inside, Enters, GoesOn, Leaves, Busy
  <2>3. \A e \in Deliveries :
           (Busy(e))' /\ task'[e].pc # "ping" => handled'[task'[e].msg] = 0
    BY <1>1, <1>2, <2>1, <2>2 DEF Once
  <2>4. \A e, f \in Deliveries :
           (Busy(e))' /\ (Busy(f))' /\ task'[e].msg = task'[f].msg => e = f
    BY <1>2, <1>3 DEF Once
  <2>5. \A e \in Deliveries : (Busy(e))' => task'[e].msg \in seen'
    BY <1>1, <1>2, <1>3 DEF Once
  <2> QED
    BY <1>1, <1>4, <2>3, <2>4, <2>5 DEF Once
<1>5. CASE handled' # handled
  <2>1. Took(d) /\ task[d].pc # "ping" /\ pc \in {"done", "ping"}
    BY <1>5 DEF Inside, Enters, GoesOn, Leaves
  <2>2. /\ handled[task[d].msg] = 0 /\ task[d].msg \in seen
    BY <1>1, <2>1 DEF Once
  <2>3. /\ handled'[task[d].msg] = 1
        /\ \A m \in Messages \ {task[d].msg} : handled'[m] = handled[m]
    BY <1>1, <2>1, <2>2 DEF Took, Shape
  <2>4. \A e \in Deliveries \ {d} : Busy(e) => task[e].msg # task[d].msg
    BY <1>1 DEF Once
  <2>5. \A e \in Deliveries : task[e].msg \in Messages
    BY DEF Shape, TaskRecord
  <2>6. \A e \in Deliveries :
           (Busy(e))' /\ task'[e].pc # "ping" => handled'[task'[e].msg] = 0
    <3>1. ASSUME NEW e \in Deliveries, (Busy(e))', task'[e].pc # "ping"
          PROVE  handled'[task'[e].msg] = 0
      <4>1. e # d
        BY <1>1, <2>1, <3>1 DEF Busy
      <4>2. Busy(e) /\ task[e].pc # "ping" /\ task[e].msg # task[d].msg
        BY <1>1, <1>2, <2>4, <3>1, <4>1
      <4>3. handled[task[e].msg] = 0
        BY <4>2 DEF Once
      <4> QED
        BY <1>3, <2>3, <2>5, <4>2, <4>3
    <3> QED BY <3>1
  <2>7. \A e, f \in Deliveries :
           (Busy(e))' /\ (Busy(f))' /\ task'[e].msg = task'[f].msg => e = f
    BY <1>2, <1>3 DEF Once
  <2>8. \A e \in Deliveries : (Busy(e))' => task'[e].msg \in seen'
    BY <1>1, <1>2, <1>3 DEF Once
  <2>9. /\ \A m \in Messages : handled'[m] <= 1
        /\ \A m \in Messages \ seen' : handled'[m] = 0
    BY <1>1, <2>2, <2>3 DEF Once
  <2> QED
    BY <2>6, <2>7, <2>8, <2>9 DEF Once
<1> QED
  BY <1>4, <1>5

\* A step inside preserves the invariant, and what the table promises.
LEMMA InsideStep ==
    ASSUME Inv, NEW d \in Deliveries, NEW pc \in Pcs, Inside(d, pc)
    PROVE  Inv' /\ (TableInv => TableInv')
<1>1. /\ task'[d].pc = pc /\ task'[d].key = task[d].key
      /\ task'[d].lock = task[d].lock /\ task'[d].lock2 = task[d].lock2
      /\ task' \in [Deliveries -> TaskRecord]
      /\ \A e \in Deliveries \ {d} : task'[e] = task[e]
      /\ table' = table /\ made' = made /\ seen' = seen
      /\ run' \in [Keys -> {"none", "live", "failed", "over"}]
  BY DEF Inside, Moved
<1>2. /\ task[d].pc \notin {"idle", "table", "done"} /\ (pc \in {"resume2"} => task[d].pc = "lock2")
      /\ pc # "lock2"
      /\ pc = "table2" => task[d].key \in SmeKeys
      /\ pc = "resume2" => task[d].lock2 \notin held
      /\ task[d].pc = "lock2" => task[d].lock \in Holds(d)
  BY DEF Inside, Enters, GoesOn, Leaves, Holds
<1>3. Shape'
  <2>1. handled' \in [Messages -> Nat]
    BY DEF Inside, Enters, GoesOn, Leaves, Took, Inv, Shape
  <2> QED
    BY <1>1, <2>1 DEF Inv, Shape
<1>4. ASSUME NEW e \in Deliveries PROVE Numbered(e)'
  <2>1. CASE e = d
    <3>1. pc = "resume2" => task[d].lock # task[d].lock2
      BY <1>2 DEF Inv, HeldInv
    <3> QED
      BY <1>1, <1>2, <2>1, <3>1 DEF Numbered, Sited, Sited2, Inv
  <2>2. CASE e # d
    BY <1>1, <2>2 DEF Numbered, Sited, Sited2, Inv
  <2> QED BY <2>1, <2>2
<1>5. HeldInv' /\ Once'
  BY InsideHolds, InsideOnce DEF Inv
<1>6. ASSUME TableInv PROVE TableInv'
  <2>1. Unique' /\ \A k, l : Has(k, l) => Has(k, l)'
    BY <1>1, <1>6 DEF TableInv, Unique, Has
  <2>2. ASSUME NEW e \in Deliveries
        PROVE  /\ (Sited(e) => Has(task[e].key, task[e].lock))'
               /\ (task[e].pc \in {"table2", "lock2", "resume2"} => task[e].key \in SmeKeys)'
               /\ (Sited2(e) => Has(Other(task[e].key), task[e].lock2))'
    <3>1. /\ Sited(e)' => Sited(e) /\ task'[e].key = task[e].key /\ task'[e].lock = task[e].lock
          /\ Sited2(e)' => Sited2(e) /\ task'[e].lock2 = task[e].lock2
          /\ task'[e].key = task[e].key
          /\ task'[e].pc \in {"table2", "lock2", "resume2"} =>
                task[e].key \in SmeKeys \/ task[e].pc \in {"table2", "lock2", "resume2"}
      BY <1>1, <1>2 DEF Sited, Sited2
    <3>2. /\ Sited(e) => Has(task[e].key, task[e].lock)
          /\ task[e].pc \in {"table2", "lock2", "resume2"} => task[e].key \in SmeKeys
          /\ Sited2(e) => Has(Other(task[e].key), task[e].lock2)
      BY <1>6 DEF TableInv
    <3>3. Other(task[e].key)' = Other(task[e].key)
      BY <3>1 DEF Other
    <3>4. \A k, l : Has(k, l)' <=> \E i \in 1 .. Len(table) : table[i] = <<k, l>>
      BY <1>1 DEF Has
    <3> QED
      BY <1>1, <3>1, <3>2, <3>3 DEF Has
  <2> QED
    BY <2>1, <2>2 DEF TableInv
<1> QED
  BY <1>3, <1>4, <1>5, <1>6 DEF Inv

\* What a look at the table brings: another lock for one delivery, in a table that holds
\* at least what it held.
LEMMA LookStep ==
    ASSUME Inv, NEW d \in Deliveries, NEW k \in Keys, NEW l \in Nat, IdentityLock(k, l),
           task' \in [Deliveries -> TaskRecord],
           task'[d].key = task[d].key, task'[d].msg = task[d].msg,
           \A e \in Deliveries \ {d} : task'[e] = task[e],
           UNCHANGED <<held, run, seen, acked, handled>>,
           \/ /\ task[d].pc = "table" /\ task'[d].pc = "lock" /\ k = task[d].key
              /\ task'[d].lock = l /\ task'[d].lock2 = task[d].lock2
           \/ /\ task[d].pc = "table2" /\ task'[d].pc = "lock2" /\ k = Other(task[d].key)
              /\ task'[d].lock = task[d].lock /\ task'[d].lock2 = l
    PROVE  Inv' /\ (RoomForAll /\ TableInv => TableInv')
<1>1. /\ table' \in Seq(Keys \X Nat) /\ Len(table') <= LocksMax
      /\ made' \in Nat /\ made' >= made /\ l \in 1 .. made' /\ made \in Nat
      /\ \A i \in 1 .. Len(table') : table'[i][2] \in 1 .. made'
  BY LookShape DEF Inv, Shape
<1>2. held' = held /\ run' = run /\ seen' = seen /\ handled' = handled
  OBVIOUS
<1>3. Shape'
  BY <1>1, <1>2 DEF Inv, Shape
<1>4. ASSUME NEW e \in Deliveries PROVE Numbered(e)'
  <2>1. \A n \in 0 .. made : n \in 0 .. made' /\ (n \in 1 .. made => n \in 1 .. made')
    BY <1>1
  <2>2. l \in 0 .. made'
    BY <1>1
  <2>3. Numbered(e)
    BY DEF Inv
  <2>4. CASE e = d
    <3>1. task[d].lock \in 0 .. made /\ task[d].lock2 \in 0 .. made
      BY <2>3, <2>4 DEF Numbered
    <3>2. task[d].pc = "table2" => task[d].lock \in 1 .. made
      BY <2>3, <2>4 DEF Numbered, Sited
    <3> QED
      BY <1>1, <2>1, <2>2, <2>4, <3>1, <3>2 DEF Numbered, Sited, Sited2
  <2>5. CASE e # d
    <3>1. task'[e] = task[e]
      BY <2>5
    <3> QED
      BY <2>1, <2>3, <3>1 DEF Numbered, Sited, Sited2
  <2> QED BY <2>4, <2>5
<1>5. HeldInv'
  <2>1. Holds(d)' = Holds(d)
    BY DEF Holds
  <2>2. \A e \in Deliveries \ {d} : Holds(e)' = Holds(e)
    BY DEF Holds
  <2> QED
    BY <1>2, <2>1, <2>2, HeldStep DEF Inv
<1>6. Once'
  <2>1. \A e \in Deliveries :
           /\ task'[e].msg = task[e].msg /\ Busy(e)' <=> Busy(e)
           /\ task'[e].pc = "ping" <=> task[e].pc = "ping"
    BY DEF Busy
  <2> QED
    BY <1>2, <2>1 DEF Inv, Once
<1>7. ASSUME RoomForAll, TableInv PROVE TableInv'
  <2>1. Unique' /\ Has(k, l)' /\ \A k2, l2 : Has(k2, l2) => Has(k2, l2)'
    BY <1>7, LookKeeps DEF Inv, TableInv
  <2> DEFINE Now(k2, l2) == \E i \in 1 .. Len(table') : table'[i] = <<k2, l2>>
  <2>2. Now(k, l) /\ \A k2, l2 : Has(k2, l2) => Now(k2, l2)
    BY <2>1 DEF Has
  <2> HIDE DEF Now
  <2>3. ASSUME NEW e \in Deliveries
        PROVE  /\ Sited(e)' => Now(task'[e].key, task'[e].lock)
               /\ task'[e].pc \in {"table2", "lock2", "resume2"} => task'[e].key \in SmeKeys
               /\ Sited2(e)' => Now(Other(task'[e].key), task'[e].lock2)
    <3>1. /\ Sited(e) => Has(task[e].key, task[e].lock)
          /\ task[e].pc \in {"table2", "lock2", "resume2"} => task[e].key \in SmeKeys
          /\ Sited2(e) => Has(Other(task[e].key), task[e].lock2)
      BY <1>7 DEF TableInv
    <3>2. task'[e].key = task[e].key
      OBVIOUS
    <3>3. CASE e # d
      <4>1. task'[e] = task[e]
        BY <3>3
      <4>2. (Sited(e)' <=> Sited(e)) /\ (Sited2(e)' <=> Sited2(e))
        BY <4>1 DEF Sited, Sited2
      <4> QED
        BY <2>2, <3>1, <4>1, <4>2
    <3>4. CASE e = d /\ task[d].pc = "table"
      <4>1. task'[d].pc = "lock" /\ k = task'[d].key /\ task'[d].lock = l
        BY <3>4
      <4>2. ~Sited2(d)'
        BY <4>1 DEF Sited2
      <4> QED
        BY <2>2, <3>4, <4>1, <4>2
    <3>5. CASE e = d /\ task[d].pc = "table2"
      <4>1. /\ k = Other(task'[d].key) /\ task'[d].lock2 = l
            /\ task'[d].lock = task[d].lock /\ Sited(d)
        BY <3>5 DEF Sited
      <4> QED
        BY <2>2, <3>1, <3>2, <3>5, <4>1
    <3> QED
      BY <3>3, <3>4, <3>5
  <2>4. ASSUME NEW e \in Deliveries
        PROVE  (/\ Sited(e) => Has(task[e].key, task[e].lock)
                /\ task[e].pc \in {"table2", "lock2", "resume2"} => task[e].key \in SmeKeys
                /\ Sited2(e) => Has(Other(task[e].key), task[e].lock2))'
    <3>1. Sited(e)' => Has(task[e].key, task[e].lock)'
      BY <2>3 DEF Now, Has
    <3>2. Sited2(e)' => Has(Other(task[e].key), task[e].lock2)'
      BY <2>3 DEF Now, Has, Other
    <3> QED
      BY <2>3, <3>1, <3>2
  <2> QED
    BY <2>1, <2>4 DEF TableInv
<1> QED
  BY <1>3, <1>4, <1>5, <1>6, <1>7 DEF Inv

\* A delivery that comes in: its message is claimed, or it is dropped.
LEMMA ReceiveStep ==
    ASSUME Inv, NEW d \in Deliveries, NEW k \in Keys, NEW m \in Messages, Receive(d, k, m)
    PROVE  Inv' /\ (TableInv => TableInv')
<1>1. PICK pc \in {"done", "table"} : pc = IF m \in seen THEN "done" ELSE "table"
  OBVIOUS
<1>2. PICK r \in TaskRecord : /\ r = [Idle EXCEPT !.pc = pc, !.key = k, !.msg = m]
                              /\ r.pc = pc /\ r.key = k /\ r.msg = m
                              /\ r.lock = 0 /\ r.lock2 = 0
  <2>1. PICK m0 \in Messages : m0 = CHOOSE x \in Messages : TRUE
    BY MessagesAssumption
  <2>2. PICK o \in TaskRecord : o = Idle /\ o.lock = 0 /\ o.lock2 = 0
    <3>1. Idle = [pc |-> "idle", key |-> "whatsapp", msg |-> m0, lock |-> 0, lock2 |-> 0]
      BY <2>1 DEF Idle
    <3>2. "idle" \in Pcs /\ "whatsapp" \in Keys
      BY DEF Pcs, Keys, SmeKeys
    <3> QED
      BY <3>1, <3>2 DEF TaskRecord
  <2>3. pc \in Pcs
    BY DEF Pcs
  <2>4. PICK x \in TaskRecord : x = [o EXCEPT !.pc = pc] /\ x.pc = pc /\ x.lock = 0 /\ x.lock2 = 0
    <3>1. [o EXCEPT !.pc = pc] \in TaskRecord
      BY <2>3 DEF TaskRecord
    <3> QED
      BY <2>2, <3>1 DEF TaskRecord
  <2>5. PICK y \in TaskRecord : /\ y = [x EXCEPT !.key = k] /\ y.pc = pc /\ y.key = k
                                /\ y.lock = 0 /\ y.lock2 = 0
    <3>1. [x EXCEPT !.key = k] \in TaskRecord
      BY DEF TaskRecord
    <3> QED
      BY <2>4, <3>1 DEF TaskRecord
  <2>6. PICK z \in TaskRecord : /\ z = [y EXCEPT !.msg = m]
                                /\ z.pc = pc /\ z.key = k /\ z.msg = m
                                /\ z.lock = 0 /\ z.lock2 = 0
    <3>1. [y EXCEPT !.msg = m] \in TaskRecord
      BY DEF TaskRecord
    <3> QED
      BY <2>5, <3>1 DEF TaskRecord
  <2>7. z = [[[Idle EXCEPT !.pc = pc] EXCEPT !.key = k] EXCEPT !.msg = m]
    BY <2>2, <2>4, <2>5, <2>6
  <2> QED
    BY <2>6, <2>7
<1>3. /\ task' = [task EXCEPT ![d] = r] /\ seen' = seen \cup {m} /\ task[d].pc = "idle"
      /\ UNCHANGED <<table, held, made, run, acked, handled>>
  BY <1>1, <1>2 DEF Receive, At
<1>4. /\ task' \in [Deliveries -> TaskRecord] /\ task'[d] = r
      /\ \A e \in Deliveries \ {d} : task'[e] = task[e]
  BY <1>3 DEF Inv, Shape
<1>5. Shape'
  BY <1>3, <1>4 DEF Inv, Shape
<1>6. ASSUME NEW e \in Deliveries PROVE Numbered(e)'
  <2>1. CASE e = d
    BY <1>2, <1>3, <1>4, <2>1 DEF Numbered, Sited, Sited2, Inv, Shape
  <2>2. CASE e # d
    BY <1>3, <1>4, <2>2 DEF Numbered, Sited, Sited2, Inv
  <2> QED BY <2>1, <2>2
<1>7. HeldInv'
  <2>1. Holds(d)' = Holds(d)
    BY <1>2, <1>3, <1>4 DEF Holds
  <2>2. \A e \in Deliveries \ {d} : Holds(e)' = Holds(e)
    BY <1>4 DEF Holds
  <2> QED
    BY <1>3, <2>1, <2>2, HeldStep DEF Inv
<1>8. Once'
  <2>0. task'[d].pc = pc /\ task'[d].msg = m
    BY <1>2, <1>4
  <2>1. Busy(d)' => m \notin seen /\ pc = "table"
    BY <1>1, <2>0 DEF Busy
  <2>2. \A e \in Deliveries \ {d} : /\ task'[e].msg = task[e].msg /\ task'[e].pc = task[e].pc
                                    /\ Busy(e)' <=> Busy(e)
    BY <1>4 DEF Busy
  <2>3. handled' = handled /\ (m \notin seen => handled[m] = 0)
    BY <1>3 DEF Inv, Once
  <2>4. \A e \in Deliveries : Busy(e)' => task'[e].msg \in seen'
    BY <1>3, <2>0, <2>2 DEF Inv, Once
  <2>5. \A e \in Deliveries : Busy(e)' /\ task'[e].pc # "ping" => handled'[task'[e].msg] = 0
    BY <2>0, <2>1, <2>2, <2>3 DEF Inv, Once
  <2>6. \A e, f \in Deliveries :
           Busy(e)' /\ Busy(f)' /\ task'[e].msg = task'[f].msg => e = f
    BY <2>0, <2>1, <2>2 DEF Inv, Once
  <2>7. /\ \A x \in Messages : handled'[x] <= 1
        /\ \A x \in Messages \ seen' : handled'[x] = 0
    BY <1>3 DEF Inv, Once
  <2> QED
    BY <2>4, <2>5, <2>6, <2>7 DEF Once
<1>9. ASSUME TableInv PROVE TableInv'
  <2>1. Unique' /\ \A k2, l2 : Has(k2, l2)' <=> Has(k2, l2)
    BY <1>3, <1>9 DEF TableInv, Unique, Has
  <2>2. ASSUME NEW e \in Deliveries
        PROVE  /\ (Sited(e) => Has(task[e].key, task[e].lock))'
               /\ (task[e].pc \in {"table2", "lock2", "resume2"} => task[e].key \in SmeKeys)'
               /\ (Sited2(e) => Has(Other(task[e].key), task[e].lock2))'
    <3>1. CASE e = d
      <4>1. task'[e].pc \in {"table", "done"}
        BY <1>2, <1>4, <3>1
      <4> QED
        BY <4>1 DEF Sited, Sited2
    <3>2. CASE e # d
      <4>1. task'[e] = task[e]
        BY <1>4, <3>2
      <4>2. /\ Sited(e) => Has(task[e].key, task[e].lock)
            /\ task[e].pc \in {"table2", "lock2", "resume2"} => task[e].key \in SmeKeys
            /\ Sited2(e) => Has(Other(task[e].key), task[e].lock2)
        BY <1>9 DEF TableInv
      <4> QED
        BY <1>3, <4>1, <4>2 DEF Sited, Sited2, Has, Other
    <3> QED BY <3>1, <3>2
  <2> QED
    BY <2>1, <2>2 DEF TableInv
<1> QED
  BY <1>5, <1>6, <1>7, <1>8, <1>9 DEF Inv

\* Webhooks, campaigns and the idle loop touch runs, and nothing else.
LEMMA OutsideStep ==
    ASSUME Inv, (\E k \in Keys : Webhook(k) \/ Campaign(k)) \/ UNCHANGED vars
    PROVE  Inv' /\ (TableInv => TableInv')
<1>1. /\ task' = task /\ table' = table /\ held' = held /\ made' = made
      /\ seen' = seen /\ handled' = handled
      /\ run' \in [Keys -> {"none", "live", "failed", "over"}]
  BY DEF Webhook, Campaign, vars, Inv, Shape
<1>2. Shape'
  BY <1>1 DEF Inv, Shape
<1>3. \A d \in Deliveries : Numbered(d)'
  BY <1>1 DEF Inv, Numbered, Sited, Sited2
<1>4. HeldInv'
  BY <1>1 DEF Inv, HeldInv, Holds
<1>5. Once'
  BY <1>1 DEF Inv, Once, Busy
<1>6. TableInv => TableInv'
  BY <1>1 DEF TableInv, Unique, Has, Sited, Sited2, Other
<1> QED
  BY <1>2, <1>3, <1>4, <1>5, <1>6 DEF Inv

\* It holds at first.
LEMMA InitInv == ASSUME Init PROVE Inv /\ TableInv
<1>1. PICK m0 \in Messages : m0 = CHOOSE x \in Messages : TRUE
  BY MessagesAssumption
<1>2. /\ Idle \in TaskRecord /\ Idle.pc = "idle" /\ Idle.lock = 0 /\ Idle.lock2 = 0
  <2>1. Idle = [pc |-> "idle", key |-> "whatsapp", msg |-> m0, lock |-> 0, lock2 |-> 0]
    BY <1>1 DEF Idle
  <2>2. "idle" \in Pcs /\ "whatsapp" \in Keys
    BY DEF Pcs, Keys, SmeKeys
  <2>3. [pc |-> "idle", key |-> "whatsapp", msg |-> m0, lock |-> 0, lock2 |-> 0] \in TaskRecord
    BY <2>2 DEF TaskRecord
  <2> QED
    BY <2>1, <2>3
<1>3. \A d \in Deliveries : task[d].pc = "idle" /\ task[d].lock = 0 /\ task[d].lock2 = 0
  BY <1>2 DEF Init
<1>4. Len(table) = 0 /\ table \in Seq(Keys \X Nat) /\ made = 0 /\ held = {} /\ seen = {}
  BY EmptySeq DEF Init
<1>5. Shape
  <2>1. run \in [Keys -> {"none", "live", "failed", "over"}]
    BY DEF Init
  <2>2. handled \in [Messages -> Nat] /\ task \in [Deliveries -> TaskRecord]
    BY <1>2 DEF Init
  <2> QED
    BY <1>4, <2>1, <2>2, LocksMaxAssumption DEF Shape
<1>6. \A d \in Deliveries : Numbered(d)
  BY <1>3, <1>4 DEF Numbered, Sited, Sited2
<1>7. HeldInv
  BY <1>3, <1>4 DEF HeldInv, Holds
<1>8. Once
  BY <1>3 DEF Once, Busy, Init
<1>9. TableInv
  BY <1>3, <1>4 DEF TableInv, Unique, Sited, Sited2
<1> QED
  BY <1>5, <1>6, <1>7, <1>8, <1>9 DEF Inv

\* Every step preserves the invariant, and, while the table has room, what the table
\* promises.
LEMMA NextStep ==
    ASSUME Inv, [Next]_vars PROVE Inv' /\ (RoomForAll /\ TableInv => TableInv')
<1>1. \A d \in Deliveries : task[d].key \in Keys /\ Other(task[d].key) \in Keys
  BY DEF Inv, Shape, TaskRecord, Other, Keys, SmeKeys
<1>2. ASSUME NEW d \in Deliveries, LooksUp(d)
      PROVE  Inv' /\ (RoomForAll /\ TableInv => TableInv')
  <2>1. PICK l \in Nat :
           /\ IdentityLock(task[d].key, l)
           /\ task' \in [Deliveries -> TaskRecord]
           /\ task[d].pc = "table" /\ task'[d].pc = "lock"
           /\ task'[d].key = task[d].key /\ task'[d].msg = task[d].msg
           /\ task'[d].lock = l /\ task'[d].lock2 = task[d].lock2
           /\ \A e \in Deliveries \ {d} : task'[e] = task[e]
           /\ UNCHANGED <<held, run, seen, acked, handled>>
    BY <1>2, LooksUpFacts DEF Inv
  <2> QED
    BY <1>1, <2>1, LookStep
<1>3. ASSUME NEW d \in Deliveries, LooksUpCanonical(d)
      PROVE  Inv' /\ (RoomForAll /\ TableInv => TableInv')
  <2>1. PICK l \in Nat :
           /\ IdentityLock(Other(task[d].key), l)
           /\ task' \in [Deliveries -> TaskRecord]
           /\ task[d].pc = "table2" /\ task'[d].pc = "lock2"
           /\ task'[d].key = task[d].key /\ task'[d].msg = task[d].msg
           /\ task'[d].lock = task[d].lock /\ task'[d].lock2 = l
           /\ \A e \in Deliveries \ {d} : task'[e] = task[e]
           /\ UNCHANGED <<held, run, seen, acked, handled>>
    BY <1>3, LooksUpCanonicalFacts DEF Inv
  <2> QED
    BY <1>1, <2>1, LookStep
<1>4. ASSUME NEW d \in Deliveries, Step(d)
      PROVE  Inv' /\ (RoomForAll /\ TableInv => TableInv')
  BY <1>2, <1>3, <1>4, StepKinds, InsideStep DEF Inv
<1> QED
  BY <1>4, ReceiveStep, OutsideStep DEF Next, LoopIdles

-----------------------------------------------------------------------------
(* The theorems *)

\* A message is taken by one run, once, however often it is delivered and on whichever
\* channel, whatever becomes of the runs meanwhile, and even when the lock table
\* forgets locks that are held (on_inbound, _dispatch_locked).
THEOREM HandledOnceCorrect == Spec => []HandledOnce
<1>1. Init => Inv
  BY InitInv
<1>2. Inv /\ [Next]_vars => Inv'
  BY NextStep
<1>3. Inv => HandledOnce
  BY DEF Inv, Once, HandledOnce
<1> QED
  BY <1>1, <1>2, <1>3, PTL DEF Spec

\* While the lock table has room for every channel of every SME, the locks do what they
\* are for: none is leaked, and no two inbounds drive one run at the same time, on
\* whichever channels they came in (_identity_lock, _dispatch_locked).
THEOREM LocksCorrect ==
    ASSUME RoomForAll
    PROVE  Spec => []LocksInv
<1>1. Init => Inv /\ TableInv
  BY InitInv
<1>2. Inv /\ TableInv /\ [Next]_vars => Inv' /\ TableInv'
  BY NextStep
<1>3. ASSUME Inv PROVE TypeOK
  <2>1. \A d \in Deliveries : task[d].pc \in Pcs /\ task[d].key \in Keys /\ task[d].msg \in Messages
    BY <1>3 DEF Inv, Shape, TaskRecord
  <2>2. \A d \in Deliveries : {task[d].lock, task[d].lock2} \subseteq 0 .. made
    BY <1>3 DEF Inv, Numbered
  <2>3. held \subseteq 1 .. made
    <3>1. \A d \in Deliveries : Holds(d) \subseteq 1 .. made
      BY <1>3 DEF Inv, Numbered, Sited, Sited2, Holds
    <3> QED
      BY <1>3, <3>1 DEF Inv, HeldInv
  <2>4. held \subseteq UNION {Holds(d) : d \in Deliveries}
    BY <1>3 DEF Inv, HeldInv
  <2> QED
    BY <1>3, <2>1, <2>2, <2>3, <2>4 DEF TypeOK, Inv, Shape
<1>4. ASSUME Inv, TableInv PROVE OneInboundPerRun
  <2>1. ASSUME NEW d \in Deliveries, NEW k \in Driving(d)
        PROVE  \E l \in Holds(d) : Has(k, l)
    <3>1. CASE task[d].pc \in {"resume", "revived", "start", "replay"}
      <4>1. k = task[d].key /\ task[d].lock \in Holds(d)
        BY <2>1, <3>1 DEF Driving, Holds
      <4>2. Has(task[d].key, task[d].lock)
        BY <1>4, <3>1 DEF TableInv, Sited
      <4> QED
        BY <4>1, <4>2
    <3>2. CASE task[d].pc = "resume2"
      <4>1. k = Other(task[d].key) /\ task[d].lock2 \in Holds(d)
        BY <2>1, <3>2 DEF Driving, Holds
      <4>2. Has(Other(task[d].key), task[d].lock2)
        BY <1>4, <3>2 DEF TableInv, Sited2
      <4> QED
        BY <4>1, <4>2
    <3> QED
      BY <2>1, <3>1, <3>2 DEF Driving
  <2>2. \A k, l, l2 : Has(k, l) /\ Has(k, l2) => l = l2
    <3>1. ASSUME NEW k, NEW l, NEW l2, Has(k, l), Has(k, l2) PROVE l = l2
      <4>1. PICK i \in 1 .. Len(table) : table[i] = <<k, l>>
        BY <3>1 DEF Has
      <4>2. PICK j \in 1 .. Len(table) : table[j] = <<k, l2>>
        BY <3>1 DEF Has
      <4>3. table[i][1] = k /\ table[j][1] = k /\ table[i][2] = l /\ table[j][2] = l2
        BY <4>1, <4>2
      <4>4. i = j
        BY <1>4, <4>3 DEF TableInv, Unique
      <4> QED
        BY <4>3, <4>4
    <3> QED BY <3>1
  <2>3. \A d, e \in Deliveries : d # e => Holds(d) \cap Holds(e) = {}
    BY <1>4 DEF Inv, HeldInv
  <2> QED
    BY <2>1, <2>2, <2>3 DEF OneInboundPerRun
<1>5. Inv /\ TableInv => LocksInv
  BY <1>3, <1>4 DEF LocksInv
<1> QED
  BY <1>1, <1>2, <1>5, PTL DEF Spec

=============================================================================
