-------------------------- MODULE ServicesProofs --------------------------
(***************************************************************************)
(* Proofs about the two services that keep records of their own, the CMS   *)
(* configuration service (Cms) and the document service (Documents).  They *)
(* share no variable, and no lemma is about both.                          *)
(***************************************************************************)
EXTENDS Cms, Documents, FiniteSetTheorems, TLAPS

-----------------------------------------------------------------------------
(***************************************************************************)
(* How stale the caches of the CMS may be, for every number of instances,  *)
(* requests, versions and faults and every TTL.                            *)
(*                                                                         *)
(* The bounds themselves are not inductive: an entry that is young enough  *)
(* now may be renewed from another.  What is inductive is the sum of the   *)
(* age of a version and the time its entry has left: at most one TTL in    *)
(* Redis, at most two in an instance; time takes from the one what it adds *)
(* to the other.  A read carries a version that was current when the unit  *)
(* of time began, or that Redis held, from where it read it to where it    *)
(* stores it, and no time passes in between.                               *)
(***************************************************************************)

Steps == {"idle"} \cup Reading \cup Writing

Request == [at : Steps, on : Instances \cup {"none"}, version : 0..MaxVersions]

Shape ==
    /\ current \in 0..latest
    /\ latest \in 0..MaxVersions
    /\ age \in [1..MaxVersions -> 0..MaxAge]
    /\ l1 \in [Instances -> Entries]
    /\ l2 \in Entries
    /\ evictions \in [Instances -> 0..MaxPending]
    /\ request \in [Requests -> Request]
    /\ faults \in 0..MaxFaults

\* Only versions that were written are told apart by their age.
AgeOfPast == \A v \in 1..MaxVersions : v = current \/ v > latest => age[v] = 0

Written(v) == v \in 1..latest

RequestsPlaced ==
    \A r \in Requests : /\ request[r].at # "idle" => request[r].on \in Instances
                        /\ request[r].version \in 0..latest

\* What a request carries to a cache is fresh enough for it.
Carried ==
    \A r \in Requests :
        /\ request[r].at \in {"loaded", "kv set"} =>
              Written(request[r].version) /\ age[request[r].version] = 0
        /\ request[r].at = "kv hit" =>
              Written(request[r].version) /\ age[request[r].version] < Ttl

SharedSum == Live(l2) => Written(l2.version) /\ age[l2.version] + l2.left <= Ttl

LocalSum ==
    \A i \in Instances :
        Live(l1[i]) => Written(l1[i].version) /\ age[l1[i].version] + l1[i].left <= 2 * Ttl

IInv == Shape /\ AgeOfPast /\ RequestsPlaced /\ Carried /\ SharedSum /\ LocalSum

-----------------------------------------------------------------------------

\* The invariant is strong enough: it implies the bounds on staleness.
LEMMA InvImplies == IInv => CacheInv
<1> SUFFICES ASSUME IInv PROVE CacheInv
  OBVIOUS
<1> USE DEF IInv
<1>1. TypeOK
  BY DEF TypeOK, Shape, Request, AgeOfPast, RequestsPlaced, Steps
<1>2. StaleAtMostTwoTtl
  <2> SUFFICES ASSUME NEW i \in Instances, Live(l1[i])
               PROVE  age[l1[i].version] < 2 * Ttl
    BY DEF StaleAtMostTwoTtl
  <2>1. l1[i].version \in 1..MaxVersions /\ l1[i].left \in 1..Ttl
    BY CmsConstants DEF Shape, Entries, LocalSum, Written, Live
  <2> QED
    BY <2>1, CmsConstants DEF Shape, LocalSum, MaxAge
<1>3. SharedStaleAtMostTtl
  <2> SUFFICES ASSUME Live(l2) PROVE age[l2.version] < Ttl
    BY DEF SharedStaleAtMostTtl
  <2>1. l2.version \in 1..MaxVersions /\ l2.left \in 1..Ttl
    BY CmsConstants DEF Shape, Entries, SharedSum, Written, Live
  <2> QED
    BY <2>1, CmsConstants DEF Shape, SharedSum, MaxAge
<1> QED
  BY <1>1, <1>2, <1>3 DEF CacheInv

\* The caches start empty.
LEMMA InitInv == Init => IInv
<1> SUFFICES ASSUME Init PROVE IInv
  OBVIOUS
<1> USE CmsConstants DEF Init
<1>1. Shape
  BY DEF Shape, Request, Entries, NoEntry, Idle, Steps, MaxAge
<1>2. AgeOfPast /\ RequestsPlaced
  BY DEF AgeOfPast, RequestsPlaced, Idle
<1>3. Carried
  BY DEF Carried, Idle
<1>4. SharedSum /\ LocalSum
  BY DEF SharedSum, LocalSum, Live, NoEntry
<1> QED
  BY <1>1, <1>2, <1>3, <1>4 DEF IInv

-----------------------------------------------------------------------------

LEMMA NoEntryFacts == NoEntry \in Entries /\ ~Live(NoEntry)
BY CmsConstants DEF NoEntry, Entries, Live

LEMMA IdleFacts == Idle.at = "idle" /\ Idle.version = 0
BY DEF Idle

\* What carries no version to a cache: entries are dropped, requests end or begin.
DropsL1 == l1' \in [Instances -> Entries] /\ \A i \in Instances : l1'[i] \in {l1[i], NoEntry}

Lets(r) ==
    \/ request'[r] = request[r]
    \/ request'[r] = Idle
    \/ /\ request'[r].at \in Steps \ {"loaded", "kv set", "kv hit"}
       /\ request'[r].on \in Instances
       /\ request'[r].version \in 0..latest

LetsAll == request' \in [Requests -> Request] /\ \A r \in Requests : Lets(r)

Counts == evictions' \in [Instances -> 0..MaxPending] /\ faults' \in 0..MaxFaults

\* The parts of the invariant that are about versions and their ages
Ages == current' = current /\ latest' = latest /\ age' = age

LEMMA ShapeKept ==
    ASSUME Shape, Ages, Counts, l1' \in [Instances -> Entries], l2' \in Entries,
           request' \in [Requests -> Request]
    PROVE  Shape'
BY DEF Shape, Ages, Counts, MaxAge

LEMMA AgeKept == ASSUME AgeOfPast, Ages PROVE AgeOfPast'
BY DEF AgeOfPast, Ages

LEMMA RequestsKept ==
    ASSUME Shape, RequestsPlaced, Carried, Ages, LetsAll
    PROVE  RequestsPlaced' /\ Carried'
<1>1. RequestsPlaced'
  <2> SUFFICES ASSUME NEW r \in Requests
               PROVE  (/\ request[r].at # "idle" => request[r].on \in Instances
                       /\ request[r].version \in 0..latest)'
    BY DEF RequestsPlaced
  <2>1. Lets(r) /\ latest' = latest /\ latest \in Nat
    BY CmsConstants DEF LetsAll, Ages, Shape
  <2>2. CASE request'[r] = request[r]
    BY <2>1, <2>2 DEF RequestsPlaced
  <2>3. CASE request'[r] = Idle
    BY <2>1, <2>3, IdleFacts
  <2>4. CASE request'[r] \notin {request[r], Idle}
    BY <2>1, <2>4 DEF Lets
  <2> QED
    BY <2>2, <2>3, <2>4
<1>2. Carried'
  <2> SUFFICES ASSUME NEW r \in Requests
               PROVE  (/\ request[r].at \in {"loaded", "kv set"} =>
                              Written(request[r].version) /\ age[request[r].version] = 0
                       /\ request[r].at = "kv hit" =>
                              Written(request[r].version) /\ age[request[r].version] < Ttl)'
    BY DEF Carried
  <2>1. Lets(r) /\ latest' = latest /\ age' = age
    BY DEF LetsAll, Ages
  <2>2. CASE request'[r] = request[r]
    BY <2>1, <2>2 DEF Carried, Written
  <2>3. CASE request'[r] = Idle
    BY <2>1, <2>3, IdleFacts
  <2>4. CASE request'[r] \notin {request[r], Idle}
    BY <2>1, <2>4 DEF Lets
  <2> QED
    BY <2>2, <2>3, <2>4
<1> QED
  BY <1>1, <1>2

LEMMA SharedKept ==
    ASSUME SharedSum, Ages, l2' \in {l2, NoEntry}
    PROVE  SharedSum'
<1>1. CASE l2' = l2
  BY <1>1 DEF SharedSum, Ages, Live, Written
<1>2. CASE l2' = NoEntry
  BY <1>2, NoEntryFacts DEF SharedSum, Live
<1> QED
  BY <1>1, <1>2

LEMMA LocalKept ==
    ASSUME LocalSum, Ages, DropsL1
    PROVE  LocalSum'
<1> SUFFICES ASSUME NEW i \in Instances, Live(l1[i])'
             PROVE  (Written(l1[i].version) /\ age[l1[i].version] + l1[i].left <= 2 * Ttl)'
  BY DEF LocalSum
<1>1. l1'[i] = l1[i]
  BY NoEntryFacts DEF DropsL1, Live
<1> QED
  BY <1>1 DEF LocalSum, Live, Written, Ages

\* Dropping entries and ending or beginning requests never hurts.
LEMMA DropInv ==
    ASSUME IInv, Ages, DropsL1, l2' \in {l2, NoEntry}, LetsAll, Counts
    PROVE  IInv'
<1>1. Shape'
  BY ShapeKept, NoEntryFacts DEF IInv, Shape, DropsL1, LetsAll
<1>2. AgeOfPast' /\ RequestsPlaced' /\ Carried' /\ SharedSum' /\ LocalSum'
  BY AgeKept, RequestsKept, SharedKept, LocalKept DEF IInv
<1> QED
  BY <1>1, <1>2 DEF IInv

-----------------------------------------------------------------------------
(* The steps that carry no version. *)

\* Requests that a step moves without giving them a version, and the rest
LEMMA MoveLets ==
    ASSUME Shape, RequestsPlaced, NEW r \in Requests, NEW where \in {"load"} \cup Writing,
           request[r].at # "idle", Goes(r, where)
    PROVE  LetsAll
<1>1. where \in Steps \ {"loaded", "kv set", "kv hit"}
  BY DEF Steps, Reading, Writing
<1> QED
  BY <1>1 DEF Shape, RequestsPlaced, Goes, LetsAll, Lets, Request

LEMMA ZeroVersion == ASSUME Shape PROVE 0 \in 0..latest /\ 0 \in 0..MaxVersions
<1>1. latest \in Nat /\ MaxVersions \in Nat
  BY CmsConstants DEF Shape
<1> QED
  BY <1>1

LEMMA BeginLets ==
    ASSUME Shape, NEW r \in Requests, NEW i \in Instances,
           NEW where \in {"kv get"} \cup Writing,
           request' = [request EXCEPT ![r] = [at |-> where, on |-> i, version |-> 0]]
    PROVE  LetsAll
<1>1. where \in Steps \ {"loaded", "kv set", "kv hit"}
  BY DEF Steps, Reading, Writing
<1>2. 0 \in 0..latest /\ 0 \in 0..MaxVersions
  BY ZeroVersion
<1> QED
  BY <1>1, <1>2 DEF Shape, LetsAll, Lets, Request

LEMMA IdleRequest == Idle \in Request
BY CmsConstants DEF Idle, Request, Steps

LEMMA ReturnLets ==
    ASSUME Shape, NEW r \in Requests, Returns(r)
    PROVE  LetsAll
BY IdleRequest DEF Shape, Returns, LetsAll, Lets

LEMMA StayLets == ASSUME Shape, UNCHANGED request PROVE LetsAll
BY DEF Shape, LetsAll, Lets

LEMMA StayL1 == ASSUME Shape, UNCHANGED l1 PROVE DropsL1
BY DEF Shape, DropsL1

LEMMA DropOne ==
    ASSUME Shape, NEW i \in Instances, l1' = [l1 EXCEPT ![i] = NoEntry]
    PROVE  DropsL1
BY NoEntryFacts DEF Shape, DropsL1

LEMMA StayCounts == ASSUME Shape, UNCHANGED <<evictions, faults>> PROVE Counts
BY DEF Shape, Counts

LEMMA GetInv ==
    ASSUME IInv, NEW r \in Requests, NEW i \in Instances, Get(r, i)
    PROVE  IInv'
<1>1. Shape /\ Ages /\ l2' = l2
  BY DEF IInv, Get, Ages
<1>2. DropsL1 /\ Counts
  BY <1>1, StayL1, StayCounts DEF Get, Hit
<1>3. LetsAll
  <2>1. CASE Live(l1[i])
    BY <1>1, <2>1, StayLets DEF Get
  <2>2. CASE ~Live(l1[i])
    BY <1>1, <2>2, BeginLets DEF Get
  <2> QED
    BY <2>1, <2>2
<1> QED
  BY <1>1, <1>2, <1>3, DropInv

LEMMA KvDeleteInv ==
    ASSUME IInv, NEW r \in Requests, KvDelete(r)
    PROVE  IInv'
<1>1. Shape /\ Ages /\ l2' = NoEntry /\ RequestsPlaced
  BY DEF IInv, KvDelete, Ages
<1>2. DropsL1 /\ Counts
  BY <1>1, StayL1, StayCounts DEF KvDelete
<1>3. LetsAll
  BY <1>1, MoveLets DEF KvDelete, Writing
<1> QED
  BY <1>1, <1>2, <1>3, DropInv

LEMMA PublishEvictionInv ==
    ASSUME IInv, NEW r \in Requests, PublishEviction(r)
    PROVE  IInv'
<1>1. Shape /\ Ages /\ l2' = l2
  BY DEF IInv, PublishEviction, Ages
<1>2. DropsL1 /\ LetsAll
  BY <1>1, StayL1, ReturnLets DEF PublishEviction
<1>3. Counts
  BY <1>1, CmsConstants DEF PublishEviction, Counts, Shape
<1> QED
  BY <1>1, <1>2, <1>3, DropInv

LEMMA RefreshInv ==
    ASSUME IInv, NEW r \in Requests, NEW i \in Instances, Refresh(r, i)
    PROVE  IInv'
<1>1. Shape /\ Ages /\ l2' = l2
  BY DEF IInv, Refresh, Ages
<1>2. DropsL1 /\ Counts
  BY <1>1, DropOne, StayCounts DEF Refresh
<1>3. LetsAll
  BY <1>1, BeginLets DEF Refresh, Writing
<1> QED
  BY <1>1, <1>2, <1>3, DropInv

LEMMA EvictionInv ==
    ASSUME IInv, NEW i \in Instances, OnMessage(i) \/ EvictionLost(i)
    PROVE  IInv'
<1>1. Shape /\ Ages /\ l2' = l2
  BY DEF IInv, OnMessage, EvictionLost, Ages
<1>2. DropsL1 /\ LetsAll
  BY <1>1, StayL1, DropOne, StayLets DEF OnMessage, EvictionLost
<1>3. Counts
  <2>1. evictions \in [Instances -> 0..MaxPending] /\ faults \in 0..MaxFaults
    BY <1>1 DEF Shape
  <2>2. evictions[i] - 1 \in 0..MaxPending
    BY <2>1, CmsConstants DEF OnMessage, EvictionLost
  <2>3. evictions' = [evictions EXCEPT ![i] = evictions[i] - 1]
    BY DEF OnMessage, EvictionLost
  <2>4. faults' \in 0..MaxFaults
    BY <2>1, CmsConstants DEF OnMessage, EvictionLost, Fault
  <2> QED
    BY <2>1, <2>2, <2>3, <2>4 DEF Counts
<1> QED
  BY <1>1, <1>2, <1>3, DropInv

LEMMA DiesInv ==
    ASSUME IInv, NEW r \in Requests, Dies(r)
    PROVE  IInv'
<1>1. Shape /\ Ages /\ l2' = l2 /\ request[r].on \in Instances
  BY DEF IInv, Dies, Ages, RequestsPlaced
<1>2. DropsL1
  BY <1>1, DropOne DEF Dies
<1>3. LetsAll
  BY <1>1, IdleRequest DEF Dies, LetsAll, Lets, Shape
<1>4. Counts
  BY <1>1, CmsConstants DEF Dies, Fault, Counts, Shape
<1> QED
  BY <1>1, <1>2, <1>3, <1>4, DropInv

-----------------------------------------------------------------------------
(* The steps that carry one. *)

\* A written version is one whose age is told.
LEMMA WrittenAge ==
    ASSUME Shape, NEW v, Written(v)
    PROVE  v \in 1..MaxVersions /\ v \in 0..MaxVersions /\ v \in 0..latest /\ age[v] \in Nat
<1>1. latest \in Nat /\ MaxVersions \in Nat /\ latest <= MaxVersions
  BY CmsConstants DEF Shape
<1>2. v \in 1..MaxVersions /\ v \in 0..MaxVersions /\ v \in 0..latest
  BY <1>1 DEF Written
<1> QED
  BY <1>2 DEF Shape

LEMMA EntryFacts ==
    ASSUME NEW v \in 0..MaxVersions
    PROVE  Entry(v) \in Entries /\ Entry(v).version = v /\ Entry(v).left = Ttl
BY CmsConstants DEF Entry, Entries

\* An instance gets an entry of a version that Redis could have held.
LEMMA FillLocal ==
    ASSUME IInv, Ages, Counts, l2' = l2, LetsAll, NEW i \in Instances, NEW v,
           Written(v), age[v] < Ttl,
           l1' = [l1 EXCEPT ![i] = Entry(v)]
    PROVE  Shape' /\ AgeOfPast' /\ RequestsPlaced' /\ Carried' /\ SharedSum' /\ LocalSum'
<1>1. v \in 1..MaxVersions /\ v \in 0..latest /\ age[v] \in Nat /\ v \in 0..MaxVersions
  BY WrittenAge DEF IInv
<1>2. Entry(v) \in Entries /\ Entry(v).version = v /\ Entry(v).left = Ttl
  BY <1>1, EntryFacts
<1>3. l1' \in [Instances -> Entries]
  BY <1>2 DEF IInv, Shape
<1>4. Shape'
  BY <1>3, ShapeKept DEF IInv, Shape, LetsAll
<1>5. LocalSum'
  <2> SUFFICES ASSUME NEW j \in Instances, Live(l1[j])'
               PROVE  (Written(l1[j].version) /\ age[l1[j].version] + l1[j].left <= 2 * Ttl)'
    BY DEF LocalSum
  <2>1. CASE j = i
    <3>1. l1'[j] = Entry(v)
      BY <2>1 DEF IInv, Shape
    <3>2. age[v] + Ttl <= 2 * Ttl
      BY <1>1, CmsConstants
    <3> QED
      BY <3>1, <3>2, <1>2 DEF Ages, Written
  <2>2. CASE j # i
    <3>1. l1'[j] = l1[j]
      BY <2>2 DEF IInv, Shape
    <3> QED
      BY <3>1 DEF IInv, LocalSum, Live, Written, Ages
  <2> QED
    BY <2>1, <2>2
<1> QED
  BY <1>4, <1>5, AgeKept, RequestsKept, SharedKept DEF IInv

LEMMA KvHitInv ==
    ASSUME IInv, NEW r \in Requests, KvHit(r)
    PROVE  IInv'
<1>1. Shape /\ Ages /\ l2' = l2 /\ request[r].on \in Instances
  BY DEF IInv, KvHit, Ages, RequestsPlaced
<1>2. Written(request[r].version) /\ age[request[r].version] < Ttl
  BY DEF IInv, Carried, KvHit
<1>3. LetsAll /\ Counts
  BY <1>1, ReturnLets, StayCounts DEF KvHit
<1> QED
  BY <1>1, <1>2, <1>3, FillLocal DEF KvHit, IInv

\* A request that takes a version it may carry
LEMMA TakesInv ==
    ASSUME IInv, Ages, Counts, l1' = l1, l2' = l2, NEW r \in Requests, NEW v, NEW where \in {"kv hit", "loaded"},
           request[r].at # "idle", Written(v),
           where = "loaded" => age[v] = 0,
           where = "kv hit" => age[v] < Ttl,
           request' = [request EXCEPT ![r].at = where, ![r].version = v]
    PROVE  IInv'
<1>1. Shape /\ where \in Steps
  BY DEF IInv, Steps, Reading
<1>2. v \in 0..latest /\ v \in 0..MaxVersions
  BY <1>1, WrittenAge
<1>3. request' \in [Requests -> Request]
  BY <1>1, <1>2 DEF Shape, Request
<1>4. /\ request'[r].at = where /\ request'[r].on = request[r].on /\ request'[r].version = v
      /\ \A q \in Requests \ {r} : request'[q] = request[q]
  BY <1>1 DEF Shape, Request
<1>5. Shape' /\ AgeOfPast' /\ SharedSum' /\ LocalSum'
  BY <1>1, <1>3, ShapeKept, AgeKept, SharedKept, LocalKept, StayL1 DEF IInv, Shape
<1>6. RequestsPlaced'
  <2> SUFFICES ASSUME NEW q \in Requests
               PROVE  (/\ request[q].at # "idle" => request[q].on \in Instances
                       /\ request[q].version \in 0..latest)'
    BY DEF RequestsPlaced
  <2>1. CASE q = r
    <3>1. request'[q].on = request[r].on /\ request'[q].version = v
      BY <2>1, <1>4
    <3> QED
      BY <3>1, <1>2 DEF IInv, RequestsPlaced, Ages
  <2>2. CASE q # r
    <3>1. request'[q] = request[q]
      BY <2>2, <1>4
    <3> QED
      BY <3>1 DEF IInv, RequestsPlaced, Ages
  <2> QED
    BY <2>1, <2>2
<1>7. Carried'
  <2> SUFFICES ASSUME NEW q \in Requests
               PROVE  (/\ request[q].at \in {"loaded", "kv set"} =>
                              Written(request[q].version) /\ age[request[q].version] = 0
                       /\ request[q].at = "kv hit" =>
                              Written(request[q].version) /\ age[request[q].version] < Ttl)'
    BY DEF Carried
  <2>1. CASE q = r
    <3>1. request'[q].at = where /\ request'[q].version = v
      BY <2>1, <1>4
    <3> QED
      BY <3>1 DEF Written, Ages
  <2>2. CASE q # r
    <3>1. request'[q] = request[q]
      BY <2>2, <1>4
    <3> QED
      BY <3>1 DEF IInv, Carried, Written, Ages
  <2> QED
    BY <2>1, <2>2
<1> QED
  BY <1>5, <1>6, <1>7 DEF IInv

LEMMA KvGetInv ==
    ASSUME IInv, NEW r \in Requests, KvGet(r)
    PROVE  IInv'
<1>1. Shape /\ Ages /\ l2' = l2 /\ request[r].on \in Instances /\ RequestsPlaced /\ request[r].at # "idle"
  BY DEF IInv, KvGet, Ages, RequestsPlaced
<1>2. Counts
  BY <1>1, StayCounts DEF KvGet
<1>3. CASE Live(l2)
  <2>1. Written(l2.version) /\ age[l2.version] + l2.left <= Ttl /\ l2.left > 0 /\ l2.left \in Nat
    BY <1>3 DEF IInv, SharedSum, Live, Shape, Entries
  <2>2. age[l2.version] < Ttl
    BY <2>1, <1>1, WrittenAge, CmsConstants
  <2>3. l1' = l1 /\ request' = [request EXCEPT ![r].at = "kv hit", ![r].version = l2.version]
    BY <1>3 DEF KvGet
  <2> QED
    BY <1>1, <1>2, <2>1, <2>2, <2>3, TakesInv
<1>4. CASE ~Live(l2)
  <2>1. DropsL1
    BY <1>1, <1>4, DropOne DEF KvGet
  <2>2. LetsAll
    BY <1>1, <1>4, MoveLets DEF KvGet
  <2> QED
    BY <1>1, <1>2, <2>1, <2>2, DropInv
<1> QED
  BY <1>3, <1>4

LEMMA GetCurrentInv ==
    ASSUME IInv, NEW r \in Requests, GetCurrent(r)
    PROVE  IInv'
<1>1. Shape /\ Ages /\ l1' = l1 /\ l2' = l2 /\ request[r].at # "idle"
  BY DEF IInv, GetCurrent, Ages
<1>2. Counts /\ DropsL1
  BY <1>1, StayCounts, StayL1 DEF GetCurrent
<1>3. CASE current = 0
  BY <1>1, <1>2, <1>3, ReturnLets, DropInv DEF GetCurrent
<1>4. CASE current # 0
  <2>1. current \in Nat /\ latest \in Nat /\ current <= latest
    BY CmsConstants DEF IInv, Shape
  <2>2. Written(current)
    BY <1>4, <2>1 DEF Written
  <2>3. age[current] = 0
    BY <1>1, <2>2, WrittenAge DEF IInv, AgeOfPast
  <2> QED
    BY <1>1, <1>2, <1>4, <2>2, <2>3, TakesInv DEF GetCurrent
<1> QED
  BY <1>3, <1>4

\* cache.set fills the instance with what was read; the request keeps its version.
LEMMA SetInv ==
    ASSUME IInv, NEW r \in Requests, Set(r)
    PROVE  IInv'
<1> DEFINE v == request[r].version
           i == request[r].on
           mid == [request EXCEPT ![r].at = "kv set"]
<1>1. Shape /\ Ages /\ l2' = l2 /\ i \in Instances /\ Written(v) /\ age[v] = 0
  BY DEF IInv, Set, Ages, RequestsPlaced, Carried
<1>2. Counts
  BY <1>1, StayCounts DEF Set
<1>3. v \in 0..MaxVersions /\ age[v] < Ttl
  BY <1>1, WrittenAge, CmsConstants
<1>4. Entry(v) \in Entries /\ Entry(v).version = v /\ Entry(v).left = Ttl
  BY <1>3, EntryFacts
<1>5. /\ request'[r].at = "kv set" /\ request'[r].on = i /\ request'[r].version = v
      /\ \A q \in Requests \ {r} : request'[q] = request[q]
      /\ request' \in [Requests -> Request]
  BY <1>1 DEF Set, Goes, Shape, Request, Steps, Reading
<1>6. l1' = [l1 EXCEPT ![i] = Entry(v)] /\ l1' \in [Instances -> Entries]
  BY <1>1, <1>4 DEF Set, Shape
<1>7. Shape' /\ AgeOfPast' /\ SharedSum'
  BY <1>1, <1>2, <1>5, <1>6, ShapeKept, AgeKept, SharedKept DEF IInv, Shape
<1>8. RequestsPlaced' /\ Carried'
  <2>1. ASSUME NEW q \in Requests
        PROVE  (/\ request[q].at # "idle" => request[q].on \in Instances
                /\ request[q].version \in 0..latest
                /\ request[q].at \in {"loaded", "kv set"} =>
                       Written(request[q].version) /\ age[request[q].version] = 0
                /\ request[q].at = "kv hit" =>
                       Written(request[q].version) /\ age[request[q].version] < Ttl)'
    <3>1. CASE q = r
      BY <3>1, <1>1, <1>5, WrittenAge DEF Written, Ages
    <3>2. CASE q # r
      <4>1. request'[q] = request[q]
        BY <3>2, <1>5
      <4> QED
        BY <4>1, <1>1 DEF IInv, RequestsPlaced, Carried, Written, Ages
    <3> QED
      BY <3>1, <3>2
  <2> QED
    BY <2>1 DEF RequestsPlaced, Carried
<1>9. LocalSum'
  <2> SUFFICES ASSUME NEW j \in Instances, Live(l1[j])'
               PROVE  (Written(l1[j].version) /\ age[l1[j].version] + l1[j].left <= 2 * Ttl)'
    BY DEF LocalSum
  <2>1. CASE j = i
    <3>1. l1'[j] = Entry(v)
      BY <2>1, <1>1, <1>6 DEF Shape
    <3>2. 0 + Ttl <= 2 * Ttl
      BY CmsConstants
    <3> QED
      BY <3>1, <3>2, <1>1, <1>4 DEF Ages, Written
  <2>2. CASE j # i
    <3>1. l1'[j] = l1[j]
      BY <2>2, <1>1, <1>6 DEF Shape
    <3> QED
      BY <3>1, <1>1 DEF IInv, LocalSum, Live, Written, Ages
  <2> QED
    BY <2>1, <2>2
<1> QED
  BY <1>7, <1>8, <1>9 DEF IInv

LEMMA KvSetInv ==
    ASSUME IInv, NEW r \in Requests, KvSet(r)
    PROVE  IInv'
<1> DEFINE v == request[r].version
<1>1. Shape /\ Ages /\ l1' = l1 /\ Written(v) /\ age[v] = 0 /\ l2' = Entry(v)
  BY DEF IInv, KvSet, Ages, Carried
<1>2. Counts /\ DropsL1 /\ LetsAll
  BY <1>1, StayCounts, StayL1, ReturnLets DEF KvSet
<1>3. Entry(v) \in Entries /\ Entry(v).version = v /\ Entry(v).left = Ttl
  BY <1>1, WrittenAge, EntryFacts
<1>4. SharedSum'
  BY <1>1, <1>3, CmsConstants DEF SharedSum, Written, Ages
<1>5. Shape'
  BY <1>1, <1>2, <1>3, ShapeKept DEF LetsAll, Shape
<1> QED
  BY <1>1, <1>2, <1>4, <1>5, AgeKept, RequestsKept, LocalKept DEF IInv

-----------------------------------------------------------------------------
(* The steps that change the versions, and time. *)

\* More may be written, the ages stay.
Grows == /\ latest' \in latest..MaxVersions
         /\ age' = age

LEMMA GrowsInv ==
    ASSUME IInv, Grows, Counts, DropsL1, LetsAll, l2' = l2, current' \in 0..latest',
           \A v \in 1..MaxVersions : v = current' \/ v > latest' => age[v] = 0
    PROVE  IInv'
<1>1. latest \in Nat /\ MaxVersions \in Nat /\ latest' \in Nat /\ latest <= latest' /\ latest' <= MaxVersions
  BY CmsConstants DEF IInv, Shape, Grows
<1>2. \A v : v \in 0..latest => v \in 0..latest'
  BY <1>1
<1>3. \A v : Written(v) => Written(v)'
  BY <1>1 DEF Written
<1>4. Shape'
  BY <1>1 DEF IInv, Shape, Grows, Counts, DropsL1, LetsAll, MaxAge
<1>5. AgeOfPast'
  BY DEF AgeOfPast, Grows
<1>6. RequestsPlaced' /\ Carried'
  <2>1. ASSUME NEW q \in Requests
        PROVE  (/\ request[q].at # "idle" => request[q].on \in Instances
                /\ request[q].version \in 0..latest
                /\ request[q].at \in {"loaded", "kv set"} =>
                       Written(request[q].version) /\ age[request[q].version] = 0
                /\ request[q].at = "kv hit" =>
                       Written(request[q].version) /\ age[request[q].version] < Ttl)'
    <3>1. Lets(q)
      BY DEF LetsAll
    <3>2. CASE request'[q] = request[q]
      <4>1. /\ request[q].at # "idle" => request[q].on \in Instances
            /\ request[q].version \in 0..latest
            /\ request[q].at \in {"loaded", "kv set"} =>
                   Written(request[q].version) /\ age[request[q].version] = 0
            /\ request[q].at = "kv hit" =>
                   Written(request[q].version) /\ age[request[q].version] < Ttl
        BY DEF IInv, RequestsPlaced, Carried
      <4> QED
        BY <4>1, <3>2, <1>2, <1>3 DEF Grows, Written
    <3>3. CASE request'[q] = Idle
      BY <3>3, <1>1, IdleFacts
    <3>4. CASE request'[q] \notin {request[q], Idle}
      BY <3>4, <3>1, <1>2 DEF Lets
    <3> QED
      BY <3>2, <3>3, <3>4
  <2> QED
    BY <2>1 DEF RequestsPlaced, Carried
<1>7. SharedSum'
  BY <1>3 DEF IInv, SharedSum, Grows, Live, Written
<1>8. LocalSum'
  <2> SUFFICES ASSUME NEW j \in Instances, Live(l1[j])'
               PROVE  (Written(l1[j].version) /\ age[l1[j].version] + l1[j].left <= 2 * Ttl)'
    BY DEF LocalSum
  <2>1. l1'[j] = l1[j]
    BY NoEntryFacts DEF DropsL1, Live
  <2>2. Written(l1[j].version) /\ age[l1[j].version] + l1[j].left <= 2 * Ttl
    BY <2>1 DEF IInv, LocalSum, Live
  <2> QED
    BY <2>1, <2>2, <1>3 DEF Grows, Written
<1> QED
  BY <1>4, <1>5, <1>6, <1>7, <1>8 DEF IInv

LEMMA LatestFacts ==
    ASSUME Shape
    PROVE  latest \in Nat /\ MaxVersions \in Nat /\ latest <= MaxVersions
BY CmsConstants DEF Shape

LEMMA SaveNewVersionInv ==
    ASSUME IInv, NEW r \in Requests, NEW i \in Instances, SaveNewVersion(r, i)
    PROVE  IInv'
<1>1. /\ Shape /\ AgeOfPast /\ l2' = l2 /\ age' = age
      /\ latest < MaxVersions /\ latest' = latest + 1 /\ current' = latest'
  BY DEF IInv, SaveNewVersion
<1>2. latest \in Nat /\ MaxVersions \in Nat /\ latest <= MaxVersions
  BY <1>1, LatestFacts
<1>3. DropsL1 /\ Counts /\ LetsAll
  BY <1>1, DropOne, StayCounts, BeginLets DEF SaveNewVersion, Writing
<1>4. Grows /\ current' \in 0..latest'
  BY <1>1, <1>2 DEF Grows
<1>5. \A v \in 1..MaxVersions : v = current' \/ v > latest' => age[v] = 0
  BY <1>1, <1>2 DEF AgeOfPast
<1> QED
  BY <1>1, <1>3, <1>4, <1>5, GrowsInv

LEMMA DeleteCurrentInv ==
    ASSUME IInv, NEW r \in Requests, NEW i \in Instances, DeleteCurrent(r, i)
    PROVE  IInv'
<1>1. /\ Shape /\ AgeOfPast /\ l2' = l2 /\ age' = age
      /\ latest' = latest /\ current' = 0
  BY DEF IInv, DeleteCurrent
<1>2. latest \in Nat /\ MaxVersions \in Nat /\ latest <= MaxVersions
  BY <1>1, LatestFacts
<1>3. DropsL1 /\ Counts /\ LetsAll
  BY <1>1, DropOne, StayCounts, BeginLets DEF DeleteCurrent, Writing
<1>4. Grows /\ current' \in 0..latest'
  BY <1>1, <1>2 DEF Grows
<1>5. \A v \in 1..MaxVersions : v = current' \/ v > latest' => age[v] = 0
  BY <1>1, <1>2 DEF AgeOfPast
<1> QED
  BY <1>1, <1>3, <1>4, <1>5, GrowsInv

\* Time takes from an entry what it adds to the age of its version.
LEMMA OlderFacts ==
    ASSUME NEW e \in Entries
    PROVE  /\ Older(e) \in Entries
           /\ Live(Older(e)) => Live(e) /\ Older(e).version = e.version /\ Older(e).left = e.left - 1
<1>1. e.left \in 0..Ttl /\ e.version \in 0..MaxVersions /\ Ttl \in Nat
  BY CmsConstants DEF Entries
<1>2. CASE e.left > 1
  <2>1. Older(e) = [e EXCEPT !.left = e.left - 1]
    BY <1>2 DEF Older
  <2>2. e.left - 1 \in 0..Ttl
    BY <1>1, <1>2
  <2> QED
    BY <1>1, <1>2, <2>1, <2>2 DEF Entries, Live
<1>3. CASE ~(e.left > 1)
  BY <1>3, NoEntryFacts DEF Older
<1> QED
  BY <1>2, <1>3

LEMMA TickAges ==
    ASSUME IInv, Tick
    PROVE  /\ age' \in [1..MaxVersions -> 0..MaxAge]
           /\ \A v \in 1..MaxVersions :
                 /\ age'[v] \in Nat /\ age[v] \in Nat
                 /\ age'[v] <= age[v] + 1
                 /\ v = current \/ v > latest => age'[v] = age[v]
<1>1. age \in [1..MaxVersions -> 0..MaxAge] /\ MaxAge \in Nat
  BY CmsConstants DEF IInv, Shape, MaxAge
<1>2. age' = [v \in 1..MaxVersions |->
                 IF v = current \/ v > latest \/ age[v] = MaxAge THEN age[v] ELSE age[v] + 1]
  BY DEF Tick
<1>3. ASSUME NEW v \in 1..MaxVersions
      PROVE  /\ age'[v] \in 0..MaxAge /\ age'[v] \in Nat /\ age[v] \in Nat
             /\ age'[v] <= age[v] + 1
             /\ v = current \/ v > latest => age'[v] = age[v]
  <2>1. age[v] \in 0..MaxAge
    BY <1>1
  <2>2. age'[v] = IF v = current \/ v > latest \/ age[v] = MaxAge THEN age[v] ELSE age[v] + 1
    BY <1>2
  <2> QED
    BY <1>1, <2>1, <2>2
<1> QED
  BY <1>2, <1>3

LEMMA TickInv ==
    ASSUME IInv, Tick
    PROVE  IInv'
<1>1. /\ Shape /\ \A r \in Requests : request[r].at = "idle"
      /\ UNCHANGED <<current, latest, evictions, request, faults>>
      /\ l1' = [i \in Instances |-> Older(l1[i])] /\ l2' = Older(l2)
  BY DEF IInv, Tick
<1>2. Shape'
  BY <1>1, OlderFacts, TickAges DEF Shape, MaxAge
<1>3. AgeOfPast'
  <2>1. AgeOfPast /\ current' = current /\ latest' = latest
    BY <1>1 DEF IInv
  <2>2. \A v \in 1..MaxVersions : v = current \/ v > latest => age'[v] = age[v]
    BY TickAges
  <2> QED
    BY <2>1, <2>2 DEF AgeOfPast
<1>4. RequestsPlaced' /\ Carried'
  BY <1>1 DEF IInv, RequestsPlaced, Carried
<1>5. ASSUME NEW e \in Entries, NEW bound \in Nat,
             Live(e) => Written(e.version) /\ age[e.version] + e.left <= bound,
             Live(Older(e))
      PROVE  Written(e.version) /\ Older(e).version = e.version
             /\ age'[e.version] + Older(e).left <= bound
  <2>1. Live(e) /\ Older(e).version = e.version /\ Older(e).left = e.left - 1
    BY <1>5, OlderFacts
  <2>2. Written(e.version) /\ age[e.version] + e.left <= bound
    BY <1>5, <2>1
  <2>3. e.left \in Nat
    BY <1>5, CmsConstants DEF Entries
  <2>4. e.version \in 1..MaxVersions
    BY <1>1, <2>2, WrittenAge
  <2>5. age[e.version] \in Nat /\ age'[e.version] \in Nat /\ age'[e.version] <= age[e.version] + 1
    BY <2>4, TickAges
  <2>6. age'[e.version] + (e.left - 1) <= bound
    BY <2>2, <2>3, <2>5, <1>5
  <2> QED
    BY <2>1, <2>2, <2>6
<1>6. SharedSum'
  BY <1>1, <1>5, CmsConstants DEF IInv, SharedSum, Shape, Written, Live
<1>7. LocalSum'
  <2> SUFFICES ASSUME NEW j \in Instances, Live(l1[j])'
               PROVE  (Written(l1[j].version) /\ age[l1[j].version] + l1[j].left <= 2 * Ttl)'
    BY DEF LocalSum
  <2>1. l1'[j] = Older(l1[j]) /\ l1[j] \in Entries /\ 2 * Ttl \in Nat
    BY <1>1, CmsConstants DEF Shape
  <2>2. Live(l1[j]) => Written(l1[j].version) /\ age[l1[j].version] + l1[j].left <= 2 * Ttl
    BY DEF IInv, LocalSum
  <2>3. Live(Older(l1[j]))
    BY <2>1 DEF Live
  <2> QED
    BY <1>1, <1>5, <2>1, <2>2, <2>3 DEF Written
<1> QED
  BY <1>2, <1>3, <1>4, <1>6, <1>7 DEF IInv

-----------------------------------------------------------------------------

\* Every step preserves the invariant.
LEMMA NextInv == IInv /\ [Next]_vars => IInv'
<1> SUFFICES ASSUME IInv, [Next]_vars PROVE IInv'
  OBVIOUS
<1>1. ASSUME NEW r \in Requests, NEW i \in Instances,
             Get(r, i) \/ Upsert(r, i) \/ Rollback(r, i) \/ DeleteCurrent(r, i) \/ Refresh(r, i)
      PROVE  IInv'
  BY <1>1, GetInv, SaveNewVersionInv, DeleteCurrentInv, RefreshInv DEF Upsert, Rollback
<1>2. ASSUME NEW r \in Requests,
             \/ KvGet(r) \/ KvHit(r) \/ GetCurrent(r) \/ Set(r) \/ KvSet(r)
             \/ KvDelete(r) \/ PublishEviction(r) \/ Dies(r)
      PROVE  IInv'
  BY <1>2, KvGetInv, KvHitInv, GetCurrentInv, SetInv, KvSetInv, KvDeleteInv,
     PublishEvictionInv, DiesInv
<1>3. ASSUME NEW i \in Instances, OnMessage(i) \/ EvictionLost(i) PROVE IInv'
  BY <1>3, EvictionInv
<1>4. CASE Tick
  BY <1>4, TickInv
<1>5. CASE UNCHANGED vars
  <2>1. Shape /\ Ages /\ l2' = l2 /\ l1' = l1 /\ request' = request
        /\ evictions' = evictions /\ faults' = faults
    BY <1>5 DEF IInv, Ages, vars
  <2> QED
    BY <2>1, StayL1, StayLets, StayCounts, DropInv
<1> QED
  BY <1>1, <1>2, <1>3, <1>4, <1>5 DEF Next

\* However many instances read and write, whatever evictions are lost and
\* writers die: an instance answers nothing that stopped being current two TTLs
\* ago, nor Redis anything of one TTL ago (cache_redis.py).
THEOREM CacheCorrect == Spec => []CacheInv
<1>1. Spec => []IInv
  BY InitInv, NextInv, PTL DEF Spec
<1> QED
  BY <1>1, InvImplies, PTL

-----------------------------------------------------------------------------
(***************************************************************************)
(* What a ZIP's batch announces and counts is true of its documents, for   *)
(* every set of files and codes and every number of attempts.              *)
(*                                                                         *)
(* ChecklistInv is not inductive: whether a document without a verdict is  *)
(* counted depends on where the request of the batch is.  The invariant    *)
(* adds that one entry at most is under way (Sequential), that the others  *)
(* have their verdict while the request lives (Unpacking), and that the    *)
(* last announcement is what the settled entries amount to (Announced): an *)
(* entry that failed is not announced, and need not be.                    *)
(***************************************************************************)

Statuses  == {"absent", "received"} \cup Terminal
DocRecord == [status : Statuses, type : Codes \cup {Untyped}, attempts : 0..MaxAttempts, batched : BOOLEAN]
BatchRecord ==
    [status : {"absent", "stored", "unpacked", "over"}, listed : BOOLEAN,
     entries : SUBSET Files, queue : SUBSET Files, count : 0..Cardinality(Files)]

BatchShape ==
    /\ doc \in [Files -> DocRecord]
    /\ route \in [Files -> {"idle", "calling", "judging"}]
    /\ batch \in BatchRecord
    /\ told \in [needs : SUBSET Codes, missing : SUBSET Codes, said : BOOLEAN]

\* Where a request is and what the records say of its document.
Placed(f) ==
    /\ route[f] = "calling" => doc[f].status = "received" /\ doc[f].attempts < MaxAttempts
    /\ route[f] = "judging" => doc[f].status \in Terminal /\ doc[f].batched /\ batch.listed
    /\ doc[f].batched => doc[f].status # "absent" /\ f \in batch.entries \ batch.queue

Sequential ==
    \A f, g \in Files :
        doc[f].batched /\ doc[g].batched /\ route[f] # "idle" /\ route[g] # "idle" => f = g

\* The entries that are through
Settled == {f \in InBatch : route[f] = "idle"}

Whole == batch.status = "unpacked" \/ batch.count > 0

Unpacking ==
    /\ batch.queue \subseteq batch.entries
    /\ batch.status \in {"absent", "stored"} => batch.entries = {} /\ ~told.said
    /\ batch.status # "over" => batch.count = 0
    /\ batch.status # "unpacked" => Settled = InBatch /\ batch.queue = {}
    /\ batch.count > 0 => batch.count = Cardinality(batch.entries)
    /\ Whole => /\ batch.entries \ batch.queue \subseteq InBatch
                /\ \A f \in Settled : doc[f].status \in Terminal

Announced ==
    told.said => /\ batch.listed
                 /\ Whole => told.missing = Missing(told.needs, Settled)

BatchIInv ==
    /\ BatchShape
    /\ \A f \in Files : Placed(f)
    /\ Sequential /\ Unpacking /\ Announced
    /\ CompleteIsBacked

-----------------------------------------------------------------------------
(* Sets of documents, before and after a step *)

LEMMA FilesFinite == \A S \in SUBSET Files : IsFiniteSet(S) /\ Cardinality(S) \in Nat
BY DocumentsConstants, FS_Subset, FS_CardinalityType

UploadedOf(d, D)  == {f \in D : d[f].status \notin {"rejected", "failed"}}
ValidatedOf(d, D) == {e.type : e \in {d[f] : f \in {g \in D : d[g].status = "completed"}}}
MissingOf(d, needs, D) ==
    IF Cardinality(UploadedOf(d, D)) >= Cardinality(needs) THEN {} ELSE needs \ ValidatedOf(d, D)

LEMMA MissingIs ==
    /\ \A needs, D : Missing(needs, D) = MissingOf(doc, needs, D)
    /\ \A needs, D : Missing(needs, D)' = MissingOf(doc', needs, D)
BY DEF Missing, MissingOf, Uploaded, UploadedOf, Validated, ValidatedOf

\* What is missing depends on the uploaded documents only.
LEMMA SameMissing ==
    ASSUME NEW d, NEW e, NEW needs, NEW D, NEW E,
           UploadedOf(d, D) = UploadedOf(e, E),
           \A f \in UploadedOf(d, D) : d[f] = e[f]
    PROVE  MissingOf(d, needs, D) = MissingOf(e, needs, E)
<1>1. \A f : f \in D /\ d[f].status = "completed" <=> f \in E /\ e[f].status = "completed"
  BY DEF UploadedOf
<1>2. \A f \in D : d[f].status = "completed" => d[f] = e[f]
  BY DEF UploadedOf
<1>3. ValidatedOf(d, D) = ValidatedOf(e, E)
  BY <1>1, <1>2 DEF ValidatedOf
<1> QED
  BY <1>3 DEF MissingOf

-----------------------------------------------------------------------------

\* ChecklistInv follows.
LEMMA BatchInvImplies == BatchIInv => ChecklistInv
<1> SUFFICES ASSUME BatchIInv PROVE ChecklistInv
  OBVIOUS
<1> USE DEF BatchIInv
<1>1. DocumentsTypeOK
  BY DEF DocumentsTypeOK, BatchShape, DocRecord, BatchRecord, Statuses, Terminal, Unpacking
<1>2. CountedIsWhole
  <2> SUFFICES ASSUME batch.count > 0
               PROVE  /\ InBatch = batch.entries /\ batch.count = Cardinality(InBatch)
                      /\ \A f \in InBatch : doc[f].status \in Terminal
                      /\ told.said => told.missing = Missing(told.needs, InBatch)
    BY DEF CountedIsWhole
  <2>1. Whole /\ batch.status # "unpacked"
    BY DEF Whole, Unpacking
  <2>2. batch.queue = {} /\ Settled = InBatch
    BY <2>1 DEF Unpacking
  <2>3. InBatch = batch.entries
    BY <2>1, <2>2 DEF Unpacking, Placed, InBatch
  <2> QED
    BY <2>1, <2>2, <2>3 DEF Unpacking, Announced
<1> QED
  BY <1>1, <1>2 DEF ChecklistInv

\* Nothing is stored at first.
LEMMA BatchInitInv == DocumentsInit => BatchIInv
<1> SUFFICES ASSUME DocumentsInit PROVE BatchIInv
  OBVIOUS
<1> USE DEF DocumentsInit
<1>1. BatchShape
  <2>1. 0 \in 0..MaxAttempts /\ 0 \in 0..Cardinality(Files)
    BY DocumentsConstants, FilesFinite
  <2>2. NoDocument \in DocRecord
    BY <2>1 DEF NoDocument, DocRecord, Statuses
  <2> QED
    BY <2>1, <2>2 DEF BatchShape, BatchRecord, NoBatch, NothingTold
<1>2. InBatch = {} /\ ~told.said /\ batch.count = 0 /\ batch.status = "absent"
  BY DEF InBatch, NoDocument, NothingTold, NoBatch
<1>3. (\A f \in Files : Placed(f)) /\ Sequential
  BY DEF Placed, Sequential, NoDocument
<1>4. Unpacking /\ Announced /\ CompleteIsBacked
  BY <1>2 DEF Unpacking, Announced, CompleteIsBacked, Settled, Whole, NoBatch
<1> QED
  BY <1>1, <1>3, <1>4 DEF BatchIInv

-----------------------------------------------------------------------------
(* What the steps have in common *)

\* A completed document of the batch stays what it is.
CompletedStay == \A f \in Files : doc[f].batched /\ doc[f].status = "completed" => doc'[f] = doc[f]

LEMMA BackedKept ==
    ASSUME BatchIInv, told' = told, CompletedStay
    PROVE  CompleteIsBacked'
<1> SUFFICES ASSUME told.said, told.missing = {}
             PROVE  \/ told.needs \subseteq Validated(InBatch)'
                    \/ Cardinality({f \in InBatch : doc[f].status = "completed"})' >= Cardinality(told.needs)
  BY DEF CompleteIsBacked
<1> DEFINE C == {f \in InBatch : doc[f].status = "completed"}
           D == {f \in InBatch' : doc'[f].status = "completed"}
<1>1. C \subseteq D /\ D \subseteq Files /\ \A f \in C : doc'[f] = doc[f]
  BY DEF CompletedStay, InBatch
<1>2. CASE told.needs \subseteq Validated(InBatch)
  <2>1. \A t \in Validated(InBatch) : \E f \in C : doc[f].type = t
    BY DEF Validated
  <2>2. \A f \in D : doc'[f].type \in Validated(InBatch)'
    BY DEF Validated
  <2>3. \A f \in C : f \in D /\ doc'[f].type = doc[f].type
    BY <1>1
  <2> HIDE DEF C, D
  <2> QED
    BY <1>2, <2>1, <2>2, <2>3
<1>3. CASE Cardinality(C) >= Cardinality(told.needs)
  <2>1. IsFiniteSet(told.needs) /\ Cardinality(told.needs) \in Nat
    BY DocumentsConstants, FS_Subset, FS_CardinalityType DEF BatchIInv, BatchShape
  <2>2. IsFiniteSet(D) /\ Cardinality(C) \in Nat /\ Cardinality(D) \in Nat
    BY <1>1, FilesFinite
  <2>3. Cardinality(C) <= Cardinality(D)
    BY <1>1, <2>2, FS_Subset
  <2> HIDE DEF C, D
  <2>4. Cardinality(D) >= Cardinality(told.needs)
    BY <1>3, <2>1, <2>2, <2>3
  <2> QED
    BY <2>4 DEF D
<1> QED
  BY <1>2, <1>3 DEF BatchIInv, CompleteIsBacked

\* The announcement holds while no settled document is added that counts.
LEMMA AnnouncedKept ==
    ASSUME Announced, told' = told, batch'.listed = batch.listed, Whole' => Whole,
           \A f : f \in UploadedOf(doc, Settled) <=> f \in UploadedOf(doc', Settled'),
           \A f \in UploadedOf(doc, Settled) : doc'[f] = doc[f]
    PROVE  Announced'
<1>1. UploadedOf(doc, Settled) = UploadedOf(doc', Settled')
  OBVIOUS
<1>2. MissingOf(doc, told.needs, Settled) = MissingOf(doc', told.needs, Settled')
  BY <1>1, SameMissing
<1>3. Missing(told.needs, Settled) = MissingOf(doc, told.needs, Settled)
  BY MissingIs
<1>4. Missing(told.needs, Settled)' = MissingOf(doc', told.needs, Settled')
  BY DEF Missing, MissingOf, Uploaded, UploadedOf, Validated, ValidatedOf
<1> QED
  BY <1>2, <1>3, <1>4 DEF Announced

\* An entry under way is one of a request that lives, and the only one.
LEMMA EntryUnderWay ==
    ASSUME BatchIInv, NEW f \in Files, doc[f].batched, route[f] # "idle"
    PROVE  /\ batch.status = "unpacked" /\ Whole /\ batch.count = 0
           /\ f \in InBatch /\ f \notin Settled
           /\ InBatch = Settled \cup {f}
           /\ \A g \in InBatch : g # f => route[g] = "idle" /\ doc[g].status \in Terminal
<1>1. f \in InBatch /\ f \notin Settled
  BY DEF InBatch, Settled
<1>2. batch.status = "unpacked" /\ Whole /\ batch.count = 0
  BY <1>1 DEF BatchIInv, Unpacking, Whole
<1>3. \A g \in InBatch : g # f => g \in Settled
  BY DEF BatchIInv, Sequential, InBatch, Settled
<1> QED
  BY <1>1, <1>2, <1>3 DEF BatchIInv, Unpacking, Settled

-----------------------------------------------------------------------------
(* Steps of the batch's request *)

\* A record taken in: RECEIVED, and on its way to Madad.
LEMMA IngestShape ==
    ASSUME BatchShape, NEW f \in Files, NEW b \in BOOLEAN, Ingest(f, b)
    PROVE  /\ doc' \in [Files -> DocRecord] /\ route' \in [Files -> {"idle", "calling", "judging"}]
           /\ doc'[f].status = "received" /\ doc'[f].attempts = 0 /\ doc'[f].batched = b
           /\ route'[f] = "calling"
           /\ \A g \in Files : g # f => doc'[g] = doc[g] /\ route'[g] = route[g]
<1> DEFINE r == [NoDocument EXCEPT !.status = "received", !.batched = b]
<1>1. 0 \in 0..MaxAttempts
  BY DocumentsConstants
<1>2. NoDocument \in DocRecord /\ NoDocument.attempts = 0
  BY <1>1 DEF NoDocument, DocRecord, Statuses
<1>3. r \in DocRecord /\ r.status = "received" /\ r.attempts = 0 /\ r.batched = b
  BY <1>2 DEF DocRecord, Statuses
<1>4. doc' = [doc EXCEPT ![f] = r] /\ route' = [route EXCEPT ![f] = "calling"]
  BY DEF Ingest, Proceeds
<1> HIDE DEF r
<1> QED
  BY <1>3, <1>4 DEF BatchShape

\* A file uploaded alone is none of the batch's.
LEMMA UploadInv == ASSUME BatchIInv, NEW f \in Files, Upload(f) PROVE BatchIInv'
<1>1. ~doc[f].batched /\ doc[f].status = "absent" /\ Ingest(f, FALSE) /\ batch' = batch /\ told' = told
  BY DEF Upload, BatchIInv, Placed, Ingest
<1>2. /\ doc' \in [Files -> DocRecord] /\ route' \in [Files -> {"idle", "calling", "judging"}]
      /\ doc'[f].status = "received" /\ doc'[f].attempts = 0 /\ doc'[f].batched = FALSE
      /\ route'[f] = "calling"
      /\ \A g \in Files : g # f => doc'[g] = doc[g] /\ route'[g] = route[g]
  BY <1>1, IngestShape DEF BatchIInv
<1>3. InBatch' = InBatch /\ Settled' = Settled /\ f \notin InBatch
  BY <1>1, <1>2 DEF InBatch, Settled
<1>4. \A g \in InBatch : doc'[g] = doc[g] /\ route'[g] = route[g]
  BY <1>2, <1>3 DEF InBatch
<1>5. BatchShape'
  BY <1>1, <1>2 DEF BatchIInv, BatchShape
<1>6. \A g \in Files : Placed(g)'
  BY <1>1, <1>2, DocumentsConstants DEF BatchIInv, Placed
<1>7. Sequential'
  BY <1>2 DEF BatchIInv, Sequential
<1>8. Unpacking'
  BY <1>1, <1>3, <1>4 DEF BatchIInv, Unpacking, Whole, Settled
<1>9. Announced'
  BY <1>1, <1>3, <1>4, AnnouncedKept DEF BatchIInv, Whole, UploadedOf, Settled
<1>10. CompleteIsBacked'
  BY <1>1, <1>4, BackedKept DEF CompletedStay, InBatch
<1> QED
  BY <1>5, <1>6, <1>7, <1>8, <1>9, <1>10 DEF BatchIInv

\* The next entry is under way while all those before it are settled.
LEMMA NextEntryInv == ASSUME BatchIInv, NEW f \in Files, NextEntry(f) PROVE BatchIInv'
<1>1. /\ f \in batch.queue /\ Underway = {} /\ Ingest(f, TRUE) /\ told' = told
      /\ batch' = [batch EXCEPT !.queue = @ \ {f}] /\ doc[f].status = "absent" /\ ~doc[f].batched
  BY DEF NextEntry, Ingest, BatchIInv, Placed
<1>2. /\ doc' \in [Files -> DocRecord] /\ route' \in [Files -> {"idle", "calling", "judging"}]
      /\ doc'[f].status = "received" /\ doc'[f].attempts = 0 /\ doc'[f].batched = TRUE
      /\ route'[f] = "calling"
      /\ \A g \in Files : g # f => doc'[g] = doc[g] /\ route'[g] = route[g]
  BY <1>1, IngestShape DEF BatchIInv
<1>3. batch.status = "unpacked" /\ f \in batch.entries
  BY <1>1 DEF BatchIInv, Unpacking
<1>4. /\ batch'.status = batch.status /\ batch'.entries = batch.entries /\ batch'.count = batch.count
      /\ batch'.listed = batch.listed /\ batch'.queue = batch.queue \ {f} /\ batch' \in BatchRecord
  BY <1>1 DEF BatchIInv, BatchShape, BatchRecord
<1>5. Settled' = Settled /\ InBatch' = InBatch \cup {f} /\ f \notin Settled
  BY <1>1, <1>2 DEF InBatch, Settled
<1>6. \A g \in Settled : doc'[g] = doc[g]
  BY <1>2, <1>5 DEF InBatch, Settled
<1>7. BatchShape'
  BY <1>1, <1>2, <1>4 DEF BatchIInv, BatchShape
<1>8. \A g \in Files : Placed(g)'
  BY <1>1, <1>2, <1>3, <1>4, DocumentsConstants DEF BatchIInv, Placed
<1>9. Sequential'
  BY <1>1, <1>2 DEF BatchIInv, Sequential, Underway, Placed
<1>10. Unpacking'
  BY <1>1, <1>3, <1>4, <1>5, <1>6 DEF BatchIInv, Unpacking, Whole
<1>11. Announced'
  BY <1>1, <1>4, <1>5, <1>6, AnnouncedKept DEF BatchIInv, Whole, UploadedOf
<1>12. CompleteIsBacked'
  BY <1>1, <1>2, BackedKept DEF CompletedStay
<1> QED
  BY <1>7, <1>8, <1>9, <1>10, <1>11, <1>12 DEF BatchIInv

\* The steps that change the batch's record alone
LEMMA BatchStep ==
    ASSUME BatchIInv, UNCHANGED <<doc, route, told>>, batch' \in BatchRecord,
           \A f \in InBatch : f \in batch'.entries \ batch'.queue,
           InBatch # {} \/ told.said => batch'.listed = batch.listed,
           Unpacking', Whole' /\ told.said => Whole
    PROVE  BatchIInv'
<1>1. Settled' = Settled /\ InBatch' = InBatch
  BY DEF Settled, InBatch
<1>2. BatchShape'
  BY DEF BatchIInv, BatchShape
<1>3. \A f \in Files : Placed(f)'
  BY DEF BatchIInv, Placed, InBatch
<1>4. Sequential' /\ CompleteIsBacked'
  BY BackedKept DEF BatchIInv, Sequential, CompletedStay
<1>5. Announced'
  <2> SUFFICES ASSUME told.said PROVE Announced'
    BY DEF Announced
  <2> QED
    BY <1>1, AnnouncedKept DEF BatchIInv, UploadedOf
<1> QED
  BY <1>2, <1>3, <1>4, <1>5 DEF BatchIInv

\* No document is of a batch that is stored only.
LEMMA ReceiveZipInv == ASSUME BatchIInv, ReceiveZip PROVE BatchIInv'
<1>1. batch.status = "absent" /\ UNCHANGED <<doc, route, told>> /\ \E listed \in BOOLEAN :
          batch' = [batch EXCEPT !.status = "stored", !.listed = listed]
  BY DEF ReceiveZip
<1>2. /\ batch' \in BatchRecord /\ batch'.status = "stored" /\ batch'.entries = batch.entries
      /\ batch'.queue = batch.queue /\ batch'.count = batch.count
  BY <1>1 DEF BatchIInv, BatchShape, BatchRecord
<1>3. InBatch = {} /\ ~told.said
  BY <1>1 DEF BatchIInv, Unpacking, Placed, InBatch
<1>4. Settled' = Settled /\ InBatch' = InBatch
  BY <1>1 DEF Settled, InBatch
<1>5. Unpacking' /\ ~Whole'
  BY <1>1, <1>2, <1>4 DEF BatchIInv, Unpacking, Whole
<1> QED
  BY <1>1, <1>2, <1>3, <1>5, BatchStep

\* Nor of one whose archive cannot be opened.
LEMMA ZipExtractionErrorInv == ASSUME BatchIInv, ZipExtractionError PROVE BatchIInv'
<1>1. batch.status = "stored" /\ UNCHANGED <<doc, route, told>>
      /\ batch' = [batch EXCEPT !.status = "over", !.queue = {}]
  BY DEF ZipExtractionError, Aborts
<1>2. /\ batch' \in BatchRecord /\ batch'.status = "over" /\ batch'.entries = batch.entries
      /\ batch'.queue = {} /\ batch'.count = batch.count /\ batch'.listed = batch.listed
  BY <1>1 DEF BatchIInv, BatchShape, BatchRecord
<1>3. InBatch = {} /\ ~told.said /\ batch.count = 0
  BY <1>1 DEF BatchIInv, Unpacking, Placed, InBatch
<1>4. Settled' = Settled /\ InBatch' = InBatch
  BY <1>1 DEF Settled, InBatch
<1>5. Unpacking' /\ ~Whole'
  BY <1>1, <1>2, <1>3, <1>4 DEF BatchIInv, Unpacking, Whole
<1> QED
  BY <1>1, <1>2, <1>3, <1>5, BatchStep

\* An unpacked batch has all its entries to come.
LEMMA ExtractZipInv == ASSUME BatchIInv, ExtractZip PROVE BatchIInv'
<1>1. batch.status = "stored" /\ UNCHANGED <<doc, route, told>>
  BY DEF ExtractZip
<1>2. PICK S \in SUBSET {f \in Files : doc[f].status = "absent"} :
          batch' = [batch EXCEPT !.status = "unpacked", !.entries = S, !.queue = S]
  BY DEF ExtractZip
<1>3. /\ batch' \in BatchRecord /\ batch'.status = "unpacked" /\ batch'.entries = S
      /\ batch'.queue = S /\ batch'.count = batch.count /\ batch'.listed = batch.listed
  BY <1>2 DEF BatchIInv, BatchShape, BatchRecord
<1>4. InBatch = {} /\ Settled = {} /\ ~told.said /\ batch.count = 0
  BY <1>1 DEF BatchIInv, Unpacking, Placed, InBatch, Settled
<1>5. Settled' = Settled /\ InBatch' = InBatch
  BY <1>1 DEF Settled, InBatch
<1>6. Unpacking'
  BY <1>1, <1>3, <1>4, <1>5 DEF Unpacking, Whole
<1> QED
  BY <1>1, <1>3, <1>4, <1>6, BatchStep

\* When the count is saved every entry is settled.
LEMMA SaveCountInv == ASSUME BatchIInv, SaveCount PROVE BatchIInv'
<1>1. batch.status = "unpacked" /\ batch.queue = {} /\ Underway = {} /\ UNCHANGED <<doc, route, told>>
      /\ batch' = [batch EXCEPT !.status = "over", !.count = Cardinality(batch.entries)]
  BY DEF SaveCount
<1>2. Cardinality(batch.entries) \in 0..Cardinality(Files)
  BY DocumentsConstants, FilesFinite, FS_Subset DEF BatchIInv, BatchShape, BatchRecord
<1>3. /\ batch' \in BatchRecord /\ batch'.status = "over" /\ batch'.entries = batch.entries
      /\ batch'.queue = {} /\ batch'.count = Cardinality(batch.entries) /\ batch'.listed = batch.listed
  BY <1>1, <1>2 DEF BatchIInv, BatchShape, BatchRecord
<1>4. Settled' = Settled /\ InBatch' = InBatch
  BY <1>1 DEF Settled, InBatch
<1>5. Settled = InBatch
  BY <1>1 DEF Settled, InBatch, Underway, BatchIInv, Placed
<1>6. Unpacking' /\ Whole
  BY <1>1, <1>3, <1>4, <1>5 DEF BatchIInv, Unpacking, Whole
<1>7. \A f \in InBatch : f \in batch'.entries \ batch'.queue
  BY <1>1, <1>3 DEF BatchIInv, Placed, InBatch
<1> QED
  BY <1>1, <1>3, <1>6, <1>7, BatchStep

-----------------------------------------------------------------------------
(* Steps of one document under way *)

\* A document goes from calling to a later attempt, a verdict or the checklist;
\* a batched one that is settled so, after an announcement, is one that failed.
LEMMA FileStep ==
    ASSUME BatchIInv, NEW f \in Files, NEW d \in DocRecord, NEW step \in {"idle", "calling", "judging"},
           route[f] = "calling", batch' = batch, told' = told,
           doc' = [doc EXCEPT ![f] = d], route' = [route EXCEPT ![f] = step],
           d.batched = doc[f].batched, d.status # "absent",
           step = "calling" => d.status = "received" /\ d.attempts < MaxAttempts,
           step = "judging" => d.status \in Terminal /\ d.batched /\ batch.listed,
           d.batched /\ step = "idle" => d.status \in Terminal /\ (told.said => d.status = "failed")
    PROVE  BatchIInv'
<1>1. /\ doc' \in [Files -> DocRecord] /\ route' \in [Files -> {"idle", "calling", "judging"}]
      /\ doc'[f] = d /\ route'[f] = step
      /\ \A g \in Files : g # f => doc'[g] = doc[g] /\ route'[g] = route[g]
  BY DEF BatchIInv, BatchShape
<1>2. doc[f].status = "received"
  BY DEF BatchIInv, Placed
<1>3. InBatch' = InBatch
  BY <1>1 DEF InBatch
<1>4. /\ f \notin Settled /\ f \notin UploadedOf(doc, Settled)
      /\ \A g \in Settled : g \in Settled' /\ g # f /\ doc'[g] = doc[g]
      /\ \A g \in Settled' : g \in Settled \/ (g = f /\ d.batched /\ step = "idle")
  BY <1>1, <1>3 DEF Settled, InBatch, UploadedOf
<1>5. BatchShape'
  BY <1>1 DEF BatchIInv, BatchShape
<1>6. \A g \in Files : Placed(g)'
  BY <1>1 DEF BatchIInv, Placed
<1>7. Sequential'
  BY <1>1 DEF BatchIInv, Sequential
<1>8. Unpacking'
  <2>1. batch.status # "unpacked" => Settled' = InBatch'
    BY <1>3, <1>4 DEF BatchIInv, Unpacking, Settled, InBatch
  <2>2. Whole => \A g \in Settled' : doc'[g].status \in Terminal
    BY <1>1, <1>4 DEF BatchIInv, Unpacking
  <2> QED
    BY <1>3, <1>4, <2>1, <2>2 DEF BatchIInv, Unpacking, Whole
<1>9. Announced'
  <2> SUFFICES ASSUME told.said PROVE Announced'
    BY DEF Announced
  <2>1. \A g : g \in UploadedOf(doc, Settled) <=> g \in UploadedOf(doc', Settled')
    BY <1>1, <1>4 DEF UploadedOf
  <2>2. \A g \in UploadedOf(doc, Settled) : doc'[g] = doc[g]
    BY <1>4 DEF UploadedOf
  <2> QED
    BY <2>1, <2>2, AnnouncedKept DEF BatchIInv, Whole
<1>10. CompleteIsBacked'
  BY <1>1, <1>2, BackedKept DEF CompletedStay
<1> QED
  BY <1>5, <1>6, <1>7, <1>8, <1>9, <1>10 DEF BatchIInv

\* The record of one more attempt
LEMMA AttemptedShape ==
    ASSUME BatchIInv, NEW f \in Files, route[f] = "calling"
    PROVE  /\ Attempted(f) \in DocRecord /\ Attempted(f).attempts = doc[f].attempts + 1
           /\ Attempted(f).status = "received" /\ Attempted(f).batched = doc[f].batched
<1>1. doc[f].status = "received" /\ doc[f].attempts < MaxAttempts /\ doc[f] \in DocRecord
  BY DEF BatchIInv, Placed, BatchShape
<1>2. doc[f].attempts + 1 \in 0..MaxAttempts
  BY <1>1, DocumentsConstants DEF DocRecord
<1> QED
  BY <1>1, <1>2 DEF Attempted, DocRecord

\* A call that fails leaves the document calling, or failed.
LEMMA ProcessFailsInv == ASSUME BatchIInv, NEW f \in Files, ProcessFails(f) PROVE BatchIInv'
<1> DEFINE tried == Attempted(f)
<1>1. route[f] = "calling" /\ batch' = batch /\ told' = told
  BY DEF ProcessFails
<1>2. tried \in DocRecord /\ tried.status = "received" /\ tried.batched = doc[f].batched
  BY <1>1, AttemptedShape
<1>3. CASE tried.attempts < MaxAttempts
  <2>1. doc' = [doc EXCEPT ![f] = tried] /\ route' = route
    BY <1>3 DEF ProcessFails
  <2>2. route' = [route EXCEPT ![f] = "calling"]
    BY <1>1, <2>1 DEF BatchIInv, BatchShape
  <2> HIDE DEF tried
  <2> QED
    BY <1>1, <1>2, <1>3, <2>1, <2>2, FileStep
<1>4. CASE ~(tried.attempts < MaxAttempts)
  <2> DEFINE d == [tried EXCEPT !.status = "failed"]
  <2>1. doc' = [doc EXCEPT ![f] = d] /\ route' = [route EXCEPT ![f] = "idle"]
    BY <1>4 DEF ProcessFails, Proceeds
  <2> HIDE DEF tried
  <2>2. d \in DocRecord /\ d.status = "failed" /\ d.batched = doc[f].batched
    BY <1>2 DEF DocRecord, Statuses, Terminal
  <2> HIDE DEF d
  <2> QED
    BY <1>1, <2>1, <2>2, FileStep DEF Terminal
<1> QED
  BY <1>3, <1>4

\* A verdict on an entry goes to the checklist when there is one, and nothing
\* was announced when there is none.
LEMMA ProcessedInv ==
    ASSUME BatchIInv, NEW f \in Files, NEW valid \in BOOLEAN, NEW type \in Codes \cup {Untyped},
           Processed(f, valid, type)
    PROVE  BatchIInv'
<1> DEFINE tried == Attempted(f)
           verdict == IF valid THEN "completed" ELSE "rejected"
           d == [tried EXCEPT !.type = type, !.status = verdict]
           step == IF doc[f].batched /\ batch.listed THEN "judging" ELSE "idle"
<1>1. /\ route[f] = "calling" /\ batch' = batch /\ told' = told
      /\ doc' = [doc EXCEPT ![f] = d] /\ route' = [route EXCEPT ![f] = step]
  BY DEF Processed, Proceeds
<1>2. tried \in DocRecord /\ tried.batched = doc[f].batched
  BY <1>1, AttemptedShape
<1>3. verdict \in Terminal /\ verdict \in Statuses /\ verdict # "absent"
  BY DEF Terminal, Statuses
<1>4. step \in {"idle", "judging"} /\ (step = "judging" => doc[f].batched /\ batch.listed)
      /\ (doc[f].batched /\ step = "idle" => ~told.said)
  BY DEF BatchIInv, Announced
<1> HIDE DEF tried, verdict, step
<1>5. d \in DocRecord /\ d.status = verdict /\ d.batched = doc[f].batched
  BY <1>2, <1>3 DEF DocRecord
<1> HIDE DEF d
<1> QED
  BY <1>1, <1>3, <1>4, <1>5, FileStep

-----------------------------------------------------------------------------
(* Requests that end, and the checklist *)

\* Requests that end leave no entry under way, and end the batch's if it lives.
LEMMA RequestsEnd ==
    ASSUME BatchIInv, doc' = doc, told' = told, route' \in [Files -> {"idle", "calling", "judging"}],
           \A g \in Files : route'[g] \in {"idle", route[g]},
           \A g \in InBatch : route'[g] = "idle",
           IF batch.status \in {"stored", "unpacked"} THEN Aborts ELSE UNCHANGED batch
    PROVE  BatchIInv'
<1>1. InBatch' = InBatch /\ Settled' = InBatch
  BY DEF InBatch, Settled
<1>2. /\ batch' \in BatchRecord /\ batch'.entries = batch.entries /\ batch'.count = batch.count
      /\ batch'.listed = batch.listed
      /\ batch' = batch \/ (batch'.status = "over" /\ batch'.queue = {} /\ batch.count = 0)
  <2>1. CASE batch.status \in {"stored", "unpacked"}
    <3>1. batch' = [batch EXCEPT !.status = "over", !.queue = {}]
      BY <2>1 DEF Aborts
    <3>2. batch \in BatchRecord
      BY DEF BatchIInv, BatchShape
    <3>3. batch.count = 0
      BY <2>1 DEF BatchIInv, Unpacking
    <3> QED
      BY <3>1, <3>2, <3>3 DEF BatchRecord
  <2>2. CASE batch.status \notin {"stored", "unpacked"}
    <3>1. batch' = batch /\ batch \in BatchRecord
      BY <2>2 DEF BatchIInv, BatchShape
    <3> QED
      BY <3>1
  <2> QED
    BY <2>1, <2>2
<1>3. batch'.queue \subseteq batch.queue /\ batch'.status \notin {"stored", "unpacked"}
  <2>1. batch.status \in {"stored", "unpacked"} => batch' = [batch EXCEPT !.status = "over", !.queue = {}]
    BY DEF Aborts
  <2>2. batch \in BatchRecord
    BY DEF BatchIInv, BatchShape
  <2> QED
    BY <1>2, <2>1, <2>2 DEF BatchRecord
<1>4. BatchShape'
  BY <1>2 DEF BatchIInv, BatchShape
<1>5. \A g \in Files : Placed(g)'
  <2> SUFFICES ASSUME NEW g \in Files PROVE Placed(g)'
    OBVIOUS
  <2>1. Placed(g) /\ route'[g] \in {"idle", route[g]}
    BY DEF BatchIInv
  <2> QED
    BY <1>2, <1>3, <2>1 DEF Placed
<1>6. Sequential'
  BY DEF Sequential, InBatch
<1>7. Whole' => batch' = batch /\ Whole /\ batch.status \notin {"stored", "unpacked"}
  BY <1>2, <1>3 DEF Whole, BatchIInv, BatchShape, Aborts
<1>8. Whole' => Settled' = Settled
  BY <1>1, <1>7 DEF BatchIInv, Unpacking
<1>9. Unpacking'
  <2>1. batch'.status = "absent" => batch' = batch
    BY <1>2
  <2> QED
    BY <1>1, <1>2, <1>3, <1>7, <1>8, <2>1 DEF BatchIInv, Unpacking
<1>10. Announced'
  <2>1. Missing(told.needs, Settled)' = MissingOf(doc, told.needs, Settled')
    BY DEF Missing, MissingOf, Uploaded, UploadedOf, Validated, ValidatedOf
  <2> QED
    BY <1>2, <1>7, <1>8, <2>1, MissingIs DEF BatchIInv, Announced
<1>11. CompleteIsBacked'
  BY BackedKept DEF CompletedStay
<1> QED
  BY <1>4, <1>5, <1>6, <1>9, <1>10, <1>11 DEF BatchIInv

\* The process takes every request with it.
LEMMA DocumentsDiesInv == ASSUME BatchIInv, DocumentsDies PROVE BatchIInv'
<1>1. doc' = doc /\ told' = told /\ route' = [g \in Files |-> "idle"]
      /\ IF batch.status \in {"stored", "unpacked"} THEN Aborts ELSE UNCHANGED batch
  BY DEF DocumentsDies
<1>2. \A g \in Files : route'[g] = "idle"
  BY <1>1
<1>3. \A g \in InBatch : route'[g] = "idle"
  BY <1>2 DEF InBatch
<1> QED
  BY <1>1, <1>2, <1>3, RequestsEnd

\* An entry that raises ends the batch; a file uploaded alone only itself.
LEMMA RaisesInv == ASSUME BatchIInv, NEW f \in Files, Raises(f) PROVE BatchIInv'
<1>1. /\ route[f] # "idle" /\ route' = [route EXCEPT ![f] = "idle"] /\ doc' = doc /\ told' = told
      /\ IF doc[f].batched THEN Aborts ELSE batch' = batch
  BY DEF Raises, Proceeds
<1>2. CASE doc[f].batched
  <2>1. batch.status = "unpacked" /\ \A g \in InBatch : g # f => route[g] = "idle"
    BY <1>1, <1>2, EntryUnderWay
  <2>2. \A g \in Files : route'[g] = IF g = f THEN "idle" ELSE route[g]
    BY <1>1 DEF BatchIInv, BatchShape
  <2>3. route' \in [Files -> {"idle", "calling", "judging"}]
    BY <1>1 DEF BatchIInv, BatchShape
  <2>4. \A g \in InBatch : route'[g] = "idle"
    BY <2>1, <2>2 DEF InBatch
  <2>5. \A g \in Files : route'[g] \in {"idle", route[g]}
    BY <2>2
  <2> QED
    BY <1>1, <1>2, <2>1, <2>3, <2>4, <2>5, RequestsEnd
<1>3. CASE ~doc[f].batched
  <2>1. route[f] = "calling" /\ doc[f] \in DocRecord /\ doc[f].status = "received"
    BY <1>1, <1>3 DEF BatchIInv, BatchShape, Placed
  <2>2. doc' = [doc EXCEPT ![f] = doc[f]]
    BY <1>1 DEF BatchIInv, BatchShape
  <2> QED
    BY <1>1, <1>3, <2>1, <2>2, FileStep
<1> QED
  BY <1>2, <1>3

\* What is announced is judged of all the entries there are, each with its
\* verdict: then what counts as uploaded was completed.
LEMMA JudgesInv == ASSUME BatchIInv, NEW f \in Files, Judges(f) PROVE BatchIInv'
<1>1. /\ route[f] = "judging" /\ route' = [route EXCEPT ![f] = "idle"]
      /\ doc' = doc /\ batch' = batch
  BY DEF Judges, Proceeds
<1>2. PICK needs \in Lists :
          told' = [needs |-> needs, missing |-> Missing(needs, InBatch), said |-> TRUE]
  BY DEF Judges
<1>3. doc[f].batched /\ doc[f].status \in Terminal /\ batch.listed
  BY <1>1 DEF BatchIInv, Placed
<1>4. /\ batch.status = "unpacked" /\ Whole /\ f \in InBatch
      /\ InBatch = Settled \cup {f} /\ \A g \in InBatch : doc[g].status \in Terminal
  BY <1>1, <1>3, EntryUnderWay
<1>5. route' \in [Files -> {"idle", "calling", "judging"}] /\ route'[f] = "idle"
      /\ \A g \in Files : g # f => route'[g] = route[g]
  BY <1>1 DEF BatchIInv, BatchShape
<1>6. InBatch' = InBatch /\ Settled' = InBatch
  BY <1>1, <1>4, <1>5 DEF InBatch, Settled
<1>7. needs \in SUBSET Codes /\ Missing(needs, InBatch) \in SUBSET Codes
  BY DocumentsConstants DEF Missing
<1>8. BatchShape'
  BY <1>1, <1>2, <1>5, <1>7 DEF BatchIInv, BatchShape
<1>9. \A g \in Files : Placed(g)'
  BY <1>1, <1>5 DEF BatchIInv, Placed
<1>10. Sequential'
  BY <1>1, <1>5 DEF BatchIInv, Sequential
<1>11. Unpacking'
  BY <1>1, <1>4, <1>6 DEF BatchIInv, Unpacking, Whole
<1>12. Announced'
  <2>1. Missing(told.needs, Settled)' = MissingOf(doc', told'.needs, Settled')
    BY MissingIs DEF Missing, MissingOf, Uploaded, UploadedOf, Validated, ValidatedOf
  <2>2. told'.missing = MissingOf(doc, needs, InBatch) /\ told'.needs = needs
    BY <1>2, MissingIs
  <2> QED
    BY <1>1, <1>3, <1>6, <2>1, <2>2 DEF Announced
<1>13. CompleteIsBacked'
  <2>1. Validated(InBatch)' = Validated(InBatch)
    BY <1>1, <1>6 DEF Validated
  <2>2. {g \in InBatch : doc[g].status = "completed"}' = Uploaded(InBatch)
    BY <1>1, <1>4, <1>6 DEF Uploaded, Terminal
  <2>3. told'.needs = needs /\ told'.missing = Missing(needs, InBatch)
    BY <1>2
  <2> SUFFICES ASSUME Missing(needs, InBatch) = {}
               PROVE  needs \subseteq Validated(InBatch) \/ Cardinality(Uploaded(InBatch)) >= Cardinality(needs)
    BY <2>1, <2>2, <2>3 DEF CompleteIsBacked
  <2> QED
    BY DEF Missing
<1> QED
  BY <1>8, <1>9, <1>10, <1>11, <1>12, <1>13 DEF BatchIInv

-----------------------------------------------------------------------------
(* The theorem *)

\* Every step keeps the invariant.
LEMMA BatchNextInv == BatchIInv /\ [DocumentsNext]_docVars => BatchIInv'
<1> SUFFICES ASSUME BatchIInv, [DocumentsNext]_docVars PROVE BatchIInv'
  OBVIOUS
<1>1. CASE UNCHANGED docVars
  <2>1. doc' = doc /\ route' = route /\ batch' = batch /\ told' = told
    BY <1>1 DEF docVars
  <2>2. InBatch' = InBatch /\ Settled' = Settled /\ Whole' = Whole
    BY <2>1 DEF InBatch, Settled, Whole
  <2>3. BatchShape' /\ (\A f \in Files : Placed(f)') /\ Sequential' /\ Unpacking'
    BY <2>1, <2>2 DEF BatchIInv, BatchShape, Placed, Sequential, Unpacking
  <2>4. Announced' /\ CompleteIsBacked'
    BY <2>1, <2>2, AnnouncedKept, BackedKept DEF BatchIInv, CompletedStay, UploadedOf
  <2> QED
    BY <2>3, <2>4 DEF BatchIInv
<1>2. CASE ReceiveZip \/ ExtractZip \/ ZipExtractionError \/ SaveCount \/ DocumentsDies
  BY <1>2, ReceiveZipInv, ExtractZipInv, ZipExtractionErrorInv, SaveCountInv, DocumentsDiesInv
<1>3. ASSUME NEW f \in Files, Upload(f) \/ NextEntry(f) \/ ProcessFails(f) \/ Judges(f) \/ Raises(f)
      PROVE  BatchIInv'
  BY <1>3, UploadInv, NextEntryInv, ProcessFailsInv, JudgesInv, RaisesInv
<1>4. ASSUME NEW f \in Files, NEW valid \in BOOLEAN, NEW type \in Codes \cup {Untyped},
             Processed(f, valid, type)
      PROVE  BatchIInv'
  BY <1>4, ProcessedInv
<1> QED
  BY <1>1, <1>2, <1>3, <1>4 DEF DocumentsNext

\* What the batch announces and counts is true of its documents, whatever
\* failed, raised or died on the way (ingest_zip, _refresh_checklist).
THEOREM ChecklistCorrect == DocumentsSpec => []ChecklistInv
<1>1. DocumentsSpec => []BatchIInv
  BY BatchInitInv, BatchNextInv, PTL DEF DocumentsSpec
<1> QED
  BY <1>1, BatchInvImplies, PTL

=============================================================================
