--------------------------------- MODULE Cms ---------------------------------
(***************************************************************************)
(* The CMS configuration service (app/services/cms): one configuration key *)
(* with its versions in the store, a cache in each instance (L1), one in   *)
(* Redis (L2), and the pub/sub channel on which a write tells the other    *)
(* instances to evict.  An action is the code between two awaits.  Time    *)
(* passes in units of which a request takes less than one; an entry keeps  *)
(* the time it has left, of the Ttl both caches give it.                   *)
(***************************************************************************)
EXTENDS Integers

CONSTANTS
    Instances,     \* processes, each with an L1 of its own
    Requests,      \* requests under way at the same time
    Ttl,           \* DEFAULT_TTL_SECONDS
    MaxVersions,   \* bound: versions written
    MaxPending,    \* bound: evictions an instance has not handled
    MaxFaults      \* bound: evictions lost, writers that die

ASSUME CmsConstants == /\ Ttl \in Nat \ {0}
                       /\ MaxVersions \in Nat
                       /\ MaxPending \in Nat \ {0}
                       /\ MaxFaults \in Nat

VARIABLES
    current,    \* the version of the current record, 0 when there is none
    latest,     \* the last version in the history, which is never deleted
    age,        \* how long ago each version stopped being current
    l1,         \* each instance's entry: version and time left
    l2,         \* the entry in Redis
    evictions,  \* pub/sub messages an instance has still to handle
    request,    \* where each request stands
    faults

vars == <<current, latest, age, l1, l2, evictions, request, faults>>

NoEntry == [version |-> 0, left |-> 0]
Entries == [version : 0..MaxVersions, left : 0..Ttl]

\* Ages are not told apart once nothing may be that old.
MaxAge == 2 * Ttl

Idle == [at |-> "idle", on |-> "none", version |-> 0]

Reading == {"kv get", "kv hit", "load", "loaded", "kv set"}
Writing == {"kv delete", "publish"}

TypeOK ==
    /\ current \in 0..latest
    /\ latest \in 0..MaxVersions
    /\ age \in [1..MaxVersions -> 0..MaxAge]
    /\ l1 \in [Instances -> Entries]
    /\ l2 \in Entries
    /\ evictions \in [Instances -> 0..MaxPending]
    /\ \A r \in Requests : /\ request[r].at \in {"idle"} \cup Reading \cup Writing
                           /\ request[r].at # "idle" => request[r].on \in Instances
                           /\ request[r].version \in 0..latest
    /\ faults \in 0..MaxFaults
    /\ \A v \in 1..MaxVersions : v = current \/ v > latest => age[v] = 0

Init ==
    /\ current = 0
    /\ latest = 0
    /\ age = [v \in 1..MaxVersions |-> 0]
    /\ l1 = [i \in Instances |-> NoEntry]
    /\ l2 = NoEntry
    /\ evictions = [i \in Instances |-> 0]
    /\ request = [r \in Requests |-> Idle]
    /\ faults = 0

Live(entry) == entry.left > 0
Entry(v) == [version |-> v, left |-> Ttl]

\* The entry one unit of time later.
Older(entry) == IF entry.left > 1 THEN [entry EXCEPT !.left = @ - 1] ELSE NoEntry

Goes(r, where) == request' = [request EXCEPT ![r].at = where]
Returns(r) == request' = [request EXCEPT ![r] = Idle]

Fault == /\ faults < MaxFaults
         /\ faults' = faults + 1

-----------------------------------------------------------------------------

(***************************************************************************)
(* get.                                                                    *)
(***************************************************************************)
\* Faulty: a hit renews the entry.
FaultyHit(i) == l1' = [l1 EXCEPT ![i] = Entry(@.version)]

\* What a hit does to the entry.
Hit(i) == UNCHANGED l1

\* A live entry of the instance answers at once; otherwise Redis is asked.
Get(r, i) ==
    /\ request[r].at = "idle"
    /\ IF Live(l1[i])
       THEN Hit(i) /\ UNCHANGED request
       ELSE /\ request' = [request EXCEPT ![r] = [at |-> "kv get", on |-> i, version |-> 0]]
            /\ UNCHANGED l1
    /\ UNCHANGED <<current, latest, age, l2, evictions, faults>>

\* get_template, get_checklist and get_variables read through get; one called
\* with use_cache FALSE reads the store and caches nothing.
KvGet(r) ==
    LET i == request[r].on
    IN /\ request[r].at = "kv get"
       /\ IF Live(l2)
          THEN /\ request' = [request EXCEPT ![r].at = "kv hit", ![r].version = l2.version]
               /\ UNCHANGED l1
          ELSE /\ l1' = [l1 EXCEPT ![i] = NoEntry]
               /\ Goes(r, "load")
       /\ UNCHANGED <<current, latest, age, l2, evictions, faults>>

\* What Redis held is the instance's entry for a whole TTL.
KvHit(r) ==
    /\ request[r].at = "kv hit"
    /\ l1' = [l1 EXCEPT ![request[r].on] = Entry(request[r].version)]
    /\ Returns(r)
    /\ UNCHANGED <<current, latest, age, l2, evictions, faults>>

\* store.get_current: the record as it is when the database reads it.
GetCurrent(r) ==
    /\ request[r].at = "load"
    /\ IF current = 0
       THEN Returns(r)
       ELSE request' = [request EXCEPT ![r].at = "loaded", ![r].version = current]
    /\ UNCHANGED <<current, latest, age, l1, l2, evictions, faults>>

\* cache.set: the instance's entry first, then Redis.
Set(r) ==
    /\ request[r].at = "loaded"
    /\ l1' = [l1 EXCEPT ![request[r].on] = Entry(request[r].version)]
    /\ Goes(r, "kv set")
    /\ UNCHANGED <<current, latest, age, l2, evictions, faults>>

\* SET ... EX ttl
KvSet(r) ==
    /\ request[r].at = "kv set"
    /\ l2' = Entry(request[r].version)
    /\ Returns(r)
    /\ UNCHANGED <<current, latest, age, l1, evictions, faults>>

-----------------------------------------------------------------------------

(***************************************************************************)
(* upsert, rollback, delete, refresh.                                      *)
(***************************************************************************)
\* save_new_version, numbered after the history; then the instance's entry is
\* dropped, at the start of invalidate.
SaveNewVersion(r, i) ==
    /\ request[r].at = "idle"
    /\ latest < MaxVersions
    /\ latest' = latest + 1
    /\ current' = latest'
    /\ l1' = [l1 EXCEPT ![i] = NoEntry]
    /\ request' = [request EXCEPT ![r] = [at |-> "kv delete", on |-> i, version |-> 0]]
    /\ UNCHANGED <<age, l2, evictions, faults>>

Upsert(r, i) == SaveNewVersion(r, i)

\* The value of an earlier version, which the history must have
Rollback(r, i) == latest > 0 /\ SaveNewVersion(r, i)

\* delete_current: the history stays.
DeleteCurrent(r, i) ==
    /\ request[r].at = "idle"
    /\ current' = 0
    /\ l1' = [l1 EXCEPT ![i] = NoEntry]
    /\ request' = [request EXCEPT ![r] = [at |-> "kv delete", on |-> i, version |-> 0]]
    /\ UNCHANGED <<latest, age, l2, evictions, faults>>

\* invalidate, continued: the key in Redis, then every instance is told.
KvDelete(r) ==
    /\ request[r].at = "kv delete"
    /\ l2' = NoEntry
    /\ Goes(r, "publish")
    /\ UNCHANGED <<current, latest, age, l1, evictions, faults>>

PublishEviction(r) ==
    /\ request[r].at = "publish"
    /\ \A i \in Instances : evictions[i] < MaxPending
    /\ evictions' = [i \in Instances |-> evictions[i] + 1]
    /\ Returns(r)
    /\ UNCHANGED <<current, latest, age, l1, l2, faults>>

\* refresh: clear drops the instance's cache and tells the others; what Redis
\* holds stays.
Refresh(r, i) ==
    /\ request[r].at = "idle"
    /\ current # 0
    /\ l1' = [l1 EXCEPT ![i] = NoEntry]
    /\ request' = [request EXCEPT ![r] = [at |-> "publish", on |-> i, version |-> 0]]
    /\ UNCHANGED <<current, latest, age, l2, evictions, faults>>

\* _on_message
OnMessage(i) ==
    /\ evictions[i] > 0
    /\ evictions' = [evictions EXCEPT ![i] = @ - 1]
    /\ l1' = [l1 EXCEPT ![i] = NoEntry]
    /\ UNCHANGED <<current, latest, age, l2, request, faults>>

\* Pub/sub keeps nothing for a subscriber that is not connected.
EvictionLost(i) ==
    /\ evictions[i] > 0
    /\ Fault
    /\ evictions' = [evictions EXCEPT ![i] = @ - 1]
    /\ UNCHANGED <<current, latest, age, l1, l2, request>>

\* The process of a request dies, and its L1 with it; a write that was stored
\* is then never announced.
Dies(r) ==
    /\ request[r].at # "idle"
    /\ Fault
    /\ l1' = [l1 EXCEPT ![request[r].on] = NoEntry]
    /\ evictions' = [evictions EXCEPT ![request[r].on] = 0]
    /\ request' = [q \in Requests |-> IF request[q].on = request[r].on THEN Idle ELSE request[q]]
    /\ UNCHANGED <<current, latest, age, l2>>

\* Time passes between requests.
Tick ==
    /\ \A r \in Requests : request[r].at = "idle"
    /\ l1' = [i \in Instances |-> Older(l1[i])]
    /\ l2' = Older(l2)
    /\ age' = [v \in 1..MaxVersions |->
                  IF v = current \/ v > latest \/ age[v] = MaxAge THEN age[v] ELSE age[v] + 1]
    /\ UNCHANGED <<current, latest, evictions, request, faults>>

Next ==
    \/ \E r \in Requests, i \in Instances : \/ Get(r, i)
                                            \/ Upsert(r, i)
                                            \/ Rollback(r, i)
                                            \/ DeleteCurrent(r, i)
                                            \/ Refresh(r, i)
    \/ \E r \in Requests : \/ KvGet(r) \/ KvHit(r) \/ GetCurrent(r) \/ Set(r) \/ KvSet(r)
                           \/ KvDelete(r) \/ PublishEviction(r) \/ Dies(r)
    \/ \E i \in Instances : OnMessage(i) \/ EvictionLost(i)
    \/ Tick

Spec == Init /\ [][Next]_vars

-----------------------------------------------------------------------------

(***************************************************************************)
(* Properties.                                                             *)
(***************************************************************************)
\* What an instance may still answer from its cache was current less than two
\* TTLs ago: through a read that filled the caches behind a write's back, a
\* lost eviction, a writer that died before announcing, and a refresh that
\* leaves Redis as it is.  One TTL in Redis, then one in the instance.
StaleAtMostTwoTtl ==
    \A i \in Instances :
       Live(l1[i]) => age[l1[i].version] < 2 * Ttl

\* Redis itself never serves a record later than one TTL after its end.
SharedStaleAtMostTtl ==
    Live(l2) => age[l2.version] < Ttl

\* Both bounds: what a cache may serve is at most two TTLs old in an instance
\* and one in Redis (cache_redis.py).
CacheInv == TypeOK /\ StaleAtMostTwoTtl /\ SharedStaleAtMostTtl

=============================================================================
