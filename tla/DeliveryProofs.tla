---------------------------- MODULE DeliveryProofs ----------------------------
(***************************************************************************)
(* What is proved of messages on their way, for any number of messages,    *)
(* calls, attempts, connections and faults.                                *)
(*                                                                         *)
(* First, in: a message of a provider that waits for its answer before it  *)
(* delivers again is stored once, for any number of ids and deliveries.    *)
(* InboundOnce is not inductive: it says nothing of a request that has     *)
(* looked for its id and has still to store it.  The invariant says that   *)
(* the request under way is the only one of its id (Alone), and what the   *)
(* store holds for it at each of its awaits (InStep).                      *)
(***************************************************************************)
EXTENDS Delivery, FiniteSetTheorems, TLAPS

Request == [at : Ended \cup {"opening", "resolved", "stored"}, id : Ids \cup {NoId}]

Alone ==
    \A d, e \in Deliveries :
        request[d].at \notin Ended /\ request[e].at \notin Ended /\ request[d].id = request[e].id => d = e

InStep ==
    \A d \in Deliveries :
        LET i == request[d].id
        IN  /\ request[d].at \notin Ended => i \in Ids
            /\ request[d].at \in {"opening", "resolved"} => rows[i] = 0
            /\ request[d].at = "stored" => rows[i] = 1 /\ handed[i] = 0

IInv ==
    /\ request \in [Deliveries -> Request]
    /\ rows \in [Ids -> Nat] /\ handed \in [Ids -> Nat]
    /\ Alone /\ InStep /\ InboundOnce

\* No message is stored at first.
LEMMA InitInv == Init => IInv
<1> SUFFICES ASSUME Init PROVE IInv
  OBVIOUS
<1>1. /\ request = [d \in Deliveries |-> [at |-> "idle", id |-> NoId]]
      /\ rows = [i \in Ids |-> 0] /\ handed = [i \in Ids |-> 0]
  BY DEF Init, InboxInit
<1> QED
  BY <1>1 DEF IInv, Request, Ended, Alone, InStep, InboundOnce

\* The sends, the callbacks and the client leave the inbox alone.
LEMMA OthersInv == ASSUME IInv, UNCHANGED inboxVars PROVE IInv'
<1>1. request' = request /\ rows' = rows /\ handed' = handed
  BY DEF inboxVars
<1> QED
  BY <1>1 DEF IInv, Alone, InStep, InboundOnce

\* A request that moves on or ends keeps its id.
LEMMA MovesShape ==
    ASSUME IInv, NEW d \in Deliveries, NEW where \in Ended \cup {"opening", "resolved", "stored"},
           Moves(d, where)
    PROVE  /\ request' \in [Deliveries -> Request]
           /\ request'[d].at = where /\ request'[d].id = request[d].id
           /\ \A e \in Deliveries : e # d => request'[e] = request[e]
BY DEF IInv, Request, Moves

\* A delivery that goes on is of an id that nobody stored and nobody serves.
LEMMA IngestInboundInv ==
    ASSUME Overlap = FALSE, IInv, NEW d \in Deliveries, NEW i \in Ids, IngestInbound(d, i)
    PROVE  IInv'
<1> DEFINE where == IF Duplicate(i) THEN "done" ELSE Resolves
<1>1. /\ \A e \in Deliveries : request[e].id = i => request[e].at \in Ended
      /\ request' = [request EXCEPT ![d] = [at |-> where, id |-> i]]
      /\ rows' = rows /\ handed' = handed
  BY DEF IngestInbound
<1>2. where \in {"done", "opening", "resolved"} /\ (where # "done" => rows[i] = 0)
  BY DEF Duplicate, Resolves, IInv
<1> HIDE DEF where
<1>3. [at |-> where, id |-> i] \in Request
  BY <1>2 DEF Request, Ended
<1>4. /\ request' \in [Deliveries -> Request] /\ request'[d].at = where /\ request'[d].id = i
      /\ \A e \in Deliveries : e # d => request'[e] = request[e]
  BY <1>1, <1>3 DEF IInv
<1>5. Alone'
  BY <1>1, <1>4 DEF IInv, Alone
<1>6. InStep'
  BY <1>1, <1>2, <1>4 DEF IInv, InStep, Ended
<1> QED
  BY <1>1, <1>4, <1>5, <1>6 DEF IInv, InboundOnce

\* A conversation that is opened, and a death, change no message.
LEMMA OpensOrDiesInv ==
    ASSUME IInv, NEW d \in Deliveries, OpensConversation(d) \/ Dies(d)
    PROVE  IInv'
<1>1. PICK where \in {"resolved", "dead"} :
          /\ Moves(d, where) /\ rows' = rows /\ handed' = handed
          /\ request[d].at \notin Ended
          /\ where = "resolved" => request[d].at = "opening"
  BY DEF OpensConversation, Dies, Ended
<1>2. /\ request' \in [Deliveries -> Request] /\ request'[d].at = where /\ request'[d].id = request[d].id
      /\ \A e \in Deliveries : e # d => request'[e] = request[e]
  BY <1>1, MovesShape DEF Ended
<1>3. Alone'
  BY <1>1, <1>2 DEF IInv, Alone
<1>4. InStep'
  BY <1>1, <1>2 DEF IInv, InStep, Ended
<1> QED
  BY <1>1, <1>2, <1>3, <1>4 DEF IInv, InboundOnce

\* The row is the first of its id.
LEMMA CreatesMessageInv == ASSUME IInv, NEW d \in Deliveries, CreatesMessage(d) PROVE IInv'
<1> DEFINE i == request[d].id
<1>1. request[d].at = "resolved" /\ rows' = [rows EXCEPT ![i] = @ + 1] /\ handed' = handed
      /\ Moves(d, "stored")
  BY DEF CreatesMessage
<1>2. i \in Ids /\ rows[i] = 0 /\ handed[i] = 0
  BY <1>1 DEF IInv, InStep, InboundOnce, Ended
<1>3. /\ request' \in [Deliveries -> Request] /\ request'[d].at = "stored" /\ request'[d].id = i
      /\ \A e \in Deliveries : e # d => request'[e] = request[e]
  BY <1>1, MovesShape
<1>4. \A e \in Deliveries : e # d /\ request[e].at \notin Ended => request[e].id # i
  BY <1>1 DEF IInv, Alone, Ended
<1> HIDE DEF i
<1>5. rows' \in [Ids -> Nat] /\ rows'[i] = 1 /\ \A j \in Ids : j # i => rows'[j] = rows[j]
  BY <1>1, <1>2 DEF IInv
<1>6. Alone'
  BY <1>3, <1>4 DEF IInv, Alone, Ended
<1>7. InStep'
  BY <1>1, <1>2, <1>3, <1>4, <1>5 DEF IInv, InStep, Ended
<1>8. InboundOnce'
  BY <1>1, <1>2, <1>5 DEF IInv, InboundOnce
<1> QED
  BY <1>1, <1>3, <1>5, <1>6, <1>7, <1>8 DEF IInv

\* A message is handed on by the request that stored it.
LEMMA HandsOnInv == ASSUME IInv, NEW d \in Deliveries, HandsOn(d) PROVE IInv'
<1> DEFINE i == request[d].id
<1>1. request[d].at = "stored" /\ handed' = [handed EXCEPT ![i] = @ + 1] /\ rows' = rows
      /\ Moves(d, "done")
  BY DEF HandsOn
<1>2. i \in Ids /\ rows[i] = 1 /\ handed[i] = 0
  BY <1>1 DEF IInv, InStep, Ended
<1>3. /\ request' \in [Deliveries -> Request] /\ request'[d].at = "done" /\ request'[d].id = i
      /\ \A e \in Deliveries : e # d => request'[e] = request[e]
  BY <1>1, MovesShape DEF Ended
<1>4. \A e \in Deliveries : e # d /\ request[e].at \notin Ended => request[e].id # i
  BY <1>1 DEF IInv, Alone, Ended
<1> HIDE DEF i
<1>5. handed' \in [Ids -> Nat] /\ handed'[i] = 1 /\ \A j \in Ids : j # i => handed'[j] = handed[j]
  BY <1>1, <1>2 DEF IInv
<1>6. Alone'
  BY <1>3, <1>4 DEF IInv, Alone, Ended
<1>7. InStep'
  BY <1>1, <1>2, <1>3, <1>4, <1>5 DEF IInv, InStep, Ended
<1>8. InboundOnce'
  BY <1>1, <1>2, <1>5 DEF IInv, InboundOnce
<1> QED
  BY <1>1, <1>3, <1>5, <1>6, <1>7, <1>8 DEF IInv

\* Every step keeps the invariant.
LEMMA NextInv == ASSUME Overlap = FALSE PROVE IInv /\ [Next]_vars => IInv'
<1> SUFFICES ASSUME IInv, [Next]_vars PROVE IInv'
  OBVIOUS
<1>1. CASE UNCHANGED vars
  BY <1>1, OthersInv DEF vars, inboxVars
<1>2. CASE \/ \E c \in Calls : Client(c)
           \/ \E c \in Calls : (McpFault(c) \/ OtherCall(c)) /\ OutsideClient
           \/ \E g \in open : Drops(g) /\ OutsideClient
  BY <1>2, OthersInv DEF Client, OutsideClient, inboxVars
<1>3. ASSUME NEW m \in Msgs, SendStep(m) PROVE IInv'
  BY <1>3, OthersInv DEF SendStep, SendResolves, SendOpens, RenderFails, Queues, GatewaySend,
                         GatewayFailed, Sent, Exhausted, inboxVars
<1>4. ASSUME NEW k \in Callbacks, CallbackFinds(k) \/ CallbackSaves(k) PROVE IInv'
  BY <1>4, OthersInv DEF CallbackFinds, CallbackSaves, inboxVars
<1>5. ASSUME NEW d \in Deliveries, IngestStep(d) PROVE IInv'
  BY <1>5, IngestInboundInv, OpensOrDiesInv, CreatesMessageInv, HandsOnInv DEF IngestStep
<1> QED
  BY <1>1, <1>2, <1>3, <1>4, <1>5 DEF Next

\* With a provider that does not overlap its deliveries, and whatever is sent,
\* called back or dies meanwhile, a message is stored once and handed on at
\* most once (ingest_inbound).
THEOREM InboundOnceCorrect == (Overlap = FALSE) /\ Spec => []InboundOnce
<1>1. ASSUME Overlap = FALSE PROVE IInv /\ [Next]_vars => IInv'
  BY <1>1, NextInv
<1>2. IInv => InboundOnce
  BY DEF IInv
<1>3. ASSUME Overlap = FALSE PROVE Spec => []InboundOnce
  <2>1. IInv /\ [Next]_vars => IInv'
    BY <1>1, <1>3
  <2> QED
    BY InitInv, <2>1, <1>2, PTL DEF Spec
<1> QED
  BY <1>3

-----------------------------------------------------------------------------
(***************************************************************************)
(* Then, out.  SendInv is not inductive: how often the server may still    *)
(* execute a request depends on where its call stands, so the invariant    *)
(* goes through the client's states (Executed), and says what the sender,  *)
(* its copy and its row are at each of them (Sending).  What a client step *)
(* may do is stated once (CallMoves): the connections that it opens,       *)
(* resets and loses do not matter to it.                                   *)
(*                                                                         *)
(* StatusForward needs more: the row that a callback holds is the row that *)
(* is stored (Current), since the row has the provider's id only once its  *)
(* send has ended (Settled).                                               *)
(***************************************************************************)

CallRecord == [at : Awaits \cup {"idle", "connect", "ok", "failed"}, try : 0..MaxTries,
               gen : Gens \cup {0}, current : BOOLEAN, replay : BOOLEAN]

RowRecord == [status : Statuses, attempts : 0..MaxSends, prov : BOOLEAN]

SendRecord == [at : {"idle", "opening", "resolved", "queued", "calling", "exhausted",
                     "done", "unsent"},
               copy : RowRecord]

CallbackRecord == [at : {"idle", "found"}, msg : Msgs \cup {NoCallback.msg},
                   copy : RowRecord, status : Statuses]

ClientShape ==
    /\ client \in Gens \cup {0} /\ stack \subseteq Gens /\ open \subseteq Gens
    /\ call \in [Calls -> CallRecord]
    /\ \A c \in Calls :
          /\ call[c].at \in {"sent", "taken"} => call[c].gen > 0
          /\ call[c].at = "resetting" => call[c].replay = FALSE
    /\ taken \in [Calls -> Nat]
    /\ faults \in 0..MaxFaults

MsgShape ==
    /\ row \in [Msgs -> RowRecord]
    /\ sender \in [Msgs -> SendRecord]
    /\ callback \in [Callbacks -> CallbackRecord]
    /\ updates \in 0..MaxUpdates

\* How often the server may have executed a message, given where its call stands.
Executed(m) ==
    IF call[m].at \in {"connect", "entering", "sent"}
    THEN IF call[m].replay THEN 1 ELSE 0
    ELSE IF call[m].at \in {"taken", "resetting"} /\ ~call[m].replay THEN 1 ELSE 2

Unsent == {"idle", "opening", "resolved", "queued", "unsent"}

\* A message, its sender's copy and its call go together.
Sending(m) ==
    /\ sender[m].at \in Unsent =>
          call[m].at = "idle" /\ taken[m] = 0 /\ sender[m].copy.attempts = 0
    /\ sender[m].at \in Unsent \ {"queued"} => row[m] = NoRow
    /\ sender[m].at = "queued" => row[m].status = "queued"
    /\ sender[m].at \notin Unsent =>
          /\ call[m].at # "idle" /\ call[m].try = 1
          /\ sender[m].copy.attempts \in 1..MaxSends
          /\ taken[m] <= 2 * (sender[m].copy.attempts - 1) + Executed(m)
    /\ call[m].at \in {"taken", "ok"} => taken[m] > 0
    /\ sender[m].at = "exhausted" => call[m].at = "failed"
    /\ sender[m].at = "done" =>
          call[m].at \in {"ok", "failed"} /\ row[m].status \in {"sent", "delivered", "read", "failed"}
    /\ sender[m].at = "calling" => sender[m].copy.status = "sending"
    /\ sender[m].at = "exhausted" => sender[m].copy.status = "sending"
    /\ row[m].status \in {"sent", "delivered", "read"} => taken[m] > 0

Answering(k) ==
    callback[k].at = "found" =>
       /\ callback[k].msg \in Msgs /\ taken[callback[k].msg] > 0
       /\ callback[k].status \in {"delivered", "read", "failed"}

InboxShape ==
    /\ request \in [Deliveries -> Request]
    /\ rows \in [Ids -> Nat] /\ handed \in [Ids -> Nat]
    /\ conv \in Nat /\ deaths \in 0..MaxDeaths

SendsInv ==
    /\ ClientShape /\ MsgShape /\ InboxShape
    /\ \A m \in Msgs : Sending(m)
    /\ \A k \in Callbacks : Answering(k)

\* With callbacks that find a message by the provider's id, one by one.
Settled(m) ==
    /\ row[m].prov => sender[m].at = "done"
    /\ sender[m].at = "queued" => sender[m].copy.prov = FALSE
    /\ sender[m].at \in {"calling", "exhausted"} =>
          row[m].status = "sending" /\ sender[m].copy.prov = FALSE

Current(k) ==
    callback[k].at = "found" =>
       callback[k].copy = row[callback[k].msg] /\ row[callback[k].msg].prov

ForwardInv == (\A m \in Msgs : Settled(m)) /\ (\A k \in Callbacks : Current(k))

-----------------------------------------------------------------------------

\* A call whose record becomes r.
Becomes(c, r) ==
    /\ call' \in [Calls -> CallRecord] /\ call'[c] = r
    /\ \A d \in Calls \ {c} : call'[d] = call[d]

\* To the other calls nothing happens, but that the stack they enter may be an old one.
OthersStay(c) ==
    \A d \in Calls \ {c} :
       /\ call'[d].at = call[d].at /\ call'[d].try = call[d].try /\ call'[d].gen = call[d].gen
       /\ call'[d].replay = call[d].replay /\ taken'[d] = taken[d]

\* What a step of the client does to the call it serves.
Proceeds(c) ==
    /\ call[c].at \in {"connect", "entering"} /\ call'[c].at \in {"entering", "sent"}
    /\ call'[c].try = call[c].try /\ call'[c].replay = call[c].replay /\ taken'[c] = taken[c]

Executes(c) ==
    /\ call[c].at = "sent" /\ call'[c].at = "taken"
    /\ call'[c].try = call[c].try /\ call'[c].replay = call[c].replay
    /\ taken'[c] = taken[c] + 1

Succeeds(c) ==
    /\ call[c].at = "taken" /\ call'[c].at = "ok"
    /\ call'[c].try = call[c].try /\ taken'[c] = taken[c]

Breaks(c) ==
    /\ call[c].at \in Awaits
    /\ taken'[c] = taken[c] \/ (call[c].at = "sent" /\ taken'[c] = taken[c] + 1)
    /\ call'[c].at \in {"connect", "failed"}
    /\ ~(call[c].try < Attempts(c)) => call'[c].at = "failed" /\ call'[c].try = call[c].try
    /\ call[c].try < Attempts(c) =>
          call'[c].at = "connect" /\ call'[c].try = call[c].try + 1 /\ call'[c].replay = FALSE

Closes(c) ==
    /\ call[c].at \in {"sent", "taken"} /\ call'[c].at = "resetting"
    /\ call[c].replay = FALSE /\ call'[c].replay = FALSE
    /\ call'[c].try = call[c].try /\ taken'[c] = taken[c]

Restarts(c) ==
    /\ call[c].at = "resetting" /\ call'[c].at = "connect" /\ call'[c].replay = TRUE
    /\ call'[c].try = call[c].try /\ taken'[c] = taken[c]

CallMoves(c) ==
    /\ OthersStay(c)
    /\ Proceeds(c) \/ Executes(c) \/ Succeeds(c) \/ Breaks(c) \/ Closes(c) \/ Restarts(c)

\* An update of one call.
LEMMA CallBecomes ==
    ASSUME ClientShape, NEW c \in Calls, NEW r \in CallRecord, call' = [call EXCEPT ![c] = r]
    PROVE  Becomes(c, r)
BY DEF ClientShape, Becomes

\* A new call's record.
LEMMA IdleRecord ==
    /\ Idle \in CallRecord /\ Idle.at = "idle" /\ Idle.try = 0 /\ Idle.gen = 0
    /\ Idle.current = TRUE /\ Idle.replay = FALSE
<1>1. 0 \in 0..MaxTries
  BY McpConstants
<1> QED
  BY <1>1 DEF Idle, CallRecord

\* A record with its attempt and its place.
LEMMA FreshRecord ==
    ASSUME NEW at \in {"connect", "ok", "failed"}, NEW try \in 0..MaxTries
    PROVE  \E r \in CallRecord :
              /\ r = [Idle EXCEPT !.at = at, !.try = try]
              /\ r.at = at /\ r.try = try /\ r.gen = 0 /\ r.replay = FALSE
<1>1. PICK o \in CallRecord : o = Idle /\ o.gen = 0 /\ o.replay = FALSE
  BY IdleRecord
<1>2. [o EXCEPT !.at = at, !.try = try] \in CallRecord
  BY DEF CallRecord
<1> QED
  BY <1>1, <1>2 DEF CallRecord

\* A call slot is taken: the attempt is the first.
LEMMA CallToolFacts ==
    ASSUME ClientShape, NEW c \in Calls, CallTool(c)
    PROVE  \E r \in CallRecord : /\ Becomes(c, r)
                                 /\ r.at = "connect" /\ r.try = 1 /\ r.gen = 0 /\ r.replay = FALSE
<1>1. 1 \in 0..MaxTries
  BY McpConstants
<1>2. PICK r \in CallRecord :
         /\ r = [Idle EXCEPT !.at = "connect", !.try = 1]
         /\ r.at = "connect" /\ r.try = 1 /\ r.gen = 0 /\ r.replay = FALSE
  BY <1>1, FreshRecord
<1>3. call' = [call EXCEPT ![c] = r]
  BY <1>2 DEF CallTool
<1> QED
  BY <1>2, <1>3, CallBecomes

\* An attempt that raised.
LEMMA RaisesFacts ==
    ASSUME ClientShape, NEW c \in Calls, Raises(c)
    PROVE  \E r \in CallRecord :
              /\ Becomes(c, r) /\ r.at \in {"connect", "failed"} /\ r.gen = 0 /\ r.replay = FALSE
              /\ ~(call[c].try < Attempts(c)) => r.at = "failed" /\ r.try = call[c].try
              /\ call[c].try < Attempts(c) => r.at = "connect" /\ r.try = call[c].try + 1
<1>1. call[c].try \in 0..MaxTries /\ MaxTries \in Nat /\ MaxTries >= 1
  BY McpConstants DEF ClientShape, CallRecord
<1>2. CASE call[c].try < Attempts(c)
  <2>1. PICK t \in 0..MaxTries : t = call[c].try + 1
    BY <1>1, <1>2 DEF Attempts
  <2>2. PICK r \in CallRecord :
           /\ r = [Idle EXCEPT !.at = "connect", !.try = t]
           /\ r.at = "connect" /\ r.try = t /\ r.gen = 0 /\ r.replay = FALSE
    BY FreshRecord
  <2>3. call' = [call EXCEPT ![c] = r]
    BY <1>2, <2>1, <2>2 DEF Raises
  <2> QED
    BY <1>2, <2>1, <2>2, <2>3, CallBecomes
<1>3. CASE ~(call[c].try < Attempts(c))
  <2>1. PICK r \in CallRecord :
           /\ r = [Idle EXCEPT !.at = "failed", !.try = call[c].try]
           /\ r.at = "failed" /\ r.try = call[c].try /\ r.gen = 0 /\ r.replay = FALSE
    BY <1>1, FreshRecord
  <2>2. call' = [call EXCEPT ![c] = r]
    BY <1>3, <2>1 DEF Raises
  <2> QED
    BY <1>3, <2>1, <2>2, CallBecomes
<1> QED
  BY <1>2, <1>3

\* A fault is counted.
LEMMA FaultFacts == ASSUME ClientShape, Fault PROVE faults' \in 0..MaxFaults
BY McpConstants DEF ClientShape, Fault

\* A call that waits, wherever it does, is counted as one wait less.
LEMMA TakenFacts ==
    ASSUME ClientShape, NEW c \in Calls, NEW n \in {0, 1}, taken' = [taken EXCEPT ![c] = @ + n]
    PROVE  /\ taken' \in [Calls -> Nat] /\ taken'[c] = taken[c] + n
           /\ \A d \in Calls \ {c} : taken'[d] = taken[d]
BY DEF ClientShape

\* A call's record that its new state may have.
Fits(r) == /\ r.at \in {"sent", "taken"} => r.gen > 0
           /\ r.at = "resetting" => r.replay = FALSE

\* The shape of the client after a step that gives one call a new record.
LEMMA BecomesShape ==
    ASSUME ClientShape, NEW c \in Calls, NEW r \in CallRecord, Becomes(c, r), Fits(r),
           client' \in Gens \cup {0}, stack' \subseteq Gens, open' \subseteq Gens,
           taken' \in [Calls -> Nat], \A d \in Calls \ {c} : taken'[d] = taken[d],
           faults' \in 0..MaxFaults
    PROVE  ClientShape' /\ OthersStay(c)
<1>1. \A d \in Calls : Fits(call'[d])
  BY DEF ClientShape, Becomes, Fits
<1>2. OthersStay(c)
  BY DEF Becomes, OthersStay
<1> QED
  BY <1>1, <1>2 DEF ClientShape, Becomes, Fits

\* The client is there, or a connection is entered.
LEMMA EnsureConnectedMoves ==
    ASSUME ClientShape, NEW c \in Calls, EnsureConnected(c)
    PROVE  ClientShape' /\ CallMoves(c)
<1>1. /\ call[c].at = "connect"
      /\ client' = client /\ stack' = stack /\ open' = open /\ taken' = taken /\ faults' = faults
  BY DEF EnsureConnected
<1>2. PICK o \in CallRecord : o = call[c]
  BY DEF ClientShape
<1>3. PICK r \in CallRecord :
         /\ call' = [call EXCEPT ![c] = r]
         /\ Fits(r) /\ r.at \in {"entering", "sent"}
         /\ r.try = call[c].try /\ r.replay = call[c].replay
  <2>1. CASE client = 0
    <3>1. [o EXCEPT !.at = "entering", !.current = TRUE] \in CallRecord
      BY DEF CallRecord, Awaits
    <3>2. call' = [call EXCEPT ![c] = [o EXCEPT !.at = "entering", !.current = TRUE]]
      BY <1>2, <2>1 DEF EnsureConnected, ClientShape
    <3> QED
      BY <1>2, <3>1, <3>2 DEF CallRecord, Fits
  <2>2. CASE client # 0
    <3>1. client \in Gens /\ client > 0
      BY <2>2 DEF ClientShape, Gens
    <3>2. [o EXCEPT !.at = "sent", !.gen = client] \in CallRecord
      BY <3>1 DEF CallRecord, Awaits
    <3>3. call' = [call EXCEPT ![c] = [o EXCEPT !.at = "sent", !.gen = client]]
      BY <1>2, <2>2 DEF EnsureConnected, ClientShape
    <3> QED
      BY <1>2, <3>1, <3>2, <3>3 DEF CallRecord, Fits
  <2> QED
    BY <2>1, <2>2
<1>4. Becomes(c, r)
  BY <1>3, CallBecomes
<1>5. ClientShape' /\ OthersStay(c)
  BY <1>1, <1>3, <1>4, BecomesShape DEF ClientShape
<1> QED
  BY <1>1, <1>3, <1>4, <1>5 DEF CallMoves, Proceeds, Becomes

\* A connection is opened.
LEMMA ConnectedMoves ==
    ASSUME ClientShape, NEW c \in Calls, Connected(c)
    PROVE  ClientShape' /\ CallMoves(c)
<1>1. PICK g \in Gens : g = NewGen
  BY DEF Connected, NewGen, FreeGens
<1> g > 0
  BY DEF Gens
<1>2. /\ call[c].at = "entering" /\ client' = g
      /\ stack' \subseteq stack \cup {g} /\ open' = open \cup {g}
      /\ taken' = taken /\ faults' = faults
  BY <1>1 DEF Connected
<1>3. PICK o \in CallRecord : o = call[c]
  BY DEF ClientShape
<1>4. [o EXCEPT !.at = "sent", !.gen = g, !.current = TRUE] \in CallRecord
  BY DEF CallRecord, Awaits
<1>5. call' = [call EXCEPT ![c] = [o EXCEPT !.at = "sent", !.gen = g, !.current = TRUE]]
  BY <1>1, <1>3 DEF Connected, ClientShape
<1>6. PICK r \in CallRecord :
         /\ call' = [call EXCEPT ![c] = r]
         /\ Fits(r) /\ r.at = "sent"
         /\ r.try = call[c].try /\ r.replay = call[c].replay
  BY <1>3, <1>4, <1>5 DEF CallRecord, Fits
<1>7. Becomes(c, r)
  BY <1>6, CallBecomes
<1>8. /\ client' \in Gens \cup {0} /\ stack' \subseteq Gens /\ open' \subseteq Gens
      /\ taken' \in [Calls -> Nat] /\ faults' \in 0..MaxFaults
  BY <1>2 DEF ClientShape
<1>9. ClientShape' /\ OthersStay(c)
  BY <1>2, <1>6, <1>7, <1>8, BecomesShape
<1> QED
  BY <1>2, <1>6, <1>7, <1>9 DEF CallMoves, Proceeds, Becomes

\* The server executes the request.
LEMMA TakenMoves ==
    ASSUME ClientShape, NEW c \in Calls, Taken(c)
    PROVE  ClientShape' /\ CallMoves(c)
<1>1. /\ call[c].at = "sent" /\ taken' = [taken EXCEPT ![c] = @ + 1]
      /\ client' = client /\ stack' = stack /\ open' = open /\ faults' = faults
  BY DEF Taken
<1>2. PICK o \in CallRecord : o = call[c] /\ o.gen > 0
  BY <1>1 DEF ClientShape
<1>3. [o EXCEPT !.at = "taken"] \in CallRecord
  BY DEF CallRecord, Awaits
<1>4. call' = [call EXCEPT ![c] = [o EXCEPT !.at = "taken"]]
  BY <1>2 DEF Taken, At, ClientShape
<1>5. PICK r \in CallRecord :
         /\ call' = [call EXCEPT ![c] = r]
         /\ Fits(r) /\ r.at = "taken"
         /\ r.try = call[c].try /\ r.replay = call[c].replay
  BY <1>2, <1>3, <1>4 DEF CallRecord, Fits
<1>6. Becomes(c, r)
  BY <1>5, CallBecomes
<1>7. /\ taken' \in [Calls -> Nat] /\ taken'[c] = taken[c] + 1
      /\ \A d \in Calls \ {c} : taken'[d] = taken[d]
  BY <1>1 DEF ClientShape
<1>8. ClientShape' /\ OthersStay(c)
  BY <1>1, <1>5, <1>6, <1>7, BecomesShape DEF ClientShape
<1> QED
  BY <1>1, <1>5, <1>6, <1>7, <1>8 DEF CallMoves, Executes, Becomes

\* The answer arrives.
LEMMA AnsweredMoves ==
    ASSUME ClientShape, NEW c \in Calls, Answered(c)
    PROVE  ClientShape' /\ CallMoves(c)
<1>1. /\ call[c].at = "taken" /\ taken' = taken
      /\ client' = client /\ stack' = stack /\ open' = open /\ faults' = faults
  BY DEF Answered
<1>2. PICK t \in 0..MaxTries : t = call[c].try
  BY DEF ClientShape, CallRecord
<1>3. PICK r \in CallRecord :
         /\ r = [Idle EXCEPT !.at = "ok", !.try = t]
         /\ r.at = "ok" /\ r.try = t /\ r.gen = 0 /\ r.replay = FALSE
  BY FreshRecord
<1>4. call' = [call EXCEPT ![c] = r]
  BY <1>2, <1>3 DEF Answered
<1>5. Becomes(c, r) /\ Fits(r)
  BY <1>3, <1>4, CallBecomes DEF Fits
<1>6. ClientShape' /\ OthersStay(c)
  BY <1>1, <1>5, BecomesShape DEF ClientShape
<1> QED
  BY <1>1, <1>2, <1>3, <1>5, <1>6 DEF CallMoves, Succeeds, Becomes

\* An attempt breaks off, with nothing else of the client changed but the
\* faults, and the count of a request that was executed late.
LEMMA BreaksMoves ==
    ASSUME ClientShape, NEW c \in Calls, Raises(c), call[c].at \in Awaits,
           client' = client, stack' = stack, open' = open, faults' \in 0..MaxFaults,
           NEW n \in {0, 1}, n = 1 => call[c].at = "sent",
           taken' = [taken EXCEPT ![c] = @ + n]
    PROVE  ClientShape' /\ CallMoves(c)
<1>1. PICK r \in CallRecord :
         /\ Becomes(c, r) /\ r.at \in {"connect", "failed"} /\ r.gen = 0 /\ r.replay = FALSE
         /\ ~(call[c].try < Attempts(c)) => r.at = "failed" /\ r.try = call[c].try
         /\ call[c].try < Attempts(c) => r.at = "connect" /\ r.try = call[c].try + 1
  BY RaisesFacts
<1>2. /\ taken' \in [Calls -> Nat] /\ taken'[c] = taken[c] + n
      /\ \A d \in Calls \ {c} : taken'[d] = taken[d]
  BY TakenFacts
<1>3. taken[c] \in Nat
  BY DEF ClientShape
<1>4. Fits(r)
  BY <1>1 DEF Fits
<1>5. ClientShape' /\ OthersStay(c)
  BY <1>1, <1>2, <1>4, BecomesShape DEF ClientShape
<1>6. Breaks(c)
  BY <1>1, <1>2, <1>3 DEF Breaks, Becomes
<1> QED
  BY <1>5, <1>6 DEF CallMoves

\* Nobody's request was executed.
LEMMA NothingTaken ==
    ASSUME ClientShape, NEW c \in Calls, taken' = taken
    PROVE  taken' = [taken EXCEPT ![c] = @ + 0]
BY DEF ClientShape

\* An error, a timeout, or a connection that cannot be entered.
LEMMA McpFaultMoves ==
    ASSUME ClientShape, NEW c \in Calls, McpFault(c)
    PROVE  ClientShape' /\ CallMoves(c)
<1>1. /\ Raises(c) /\ call[c].at \in Awaits /\ Fault
      /\ client' = client /\ stack' = stack /\ open' = open
  BY DEF McpFault, Refused, TimesOut, ConnectFails, Awaits
<1>2. faults' \in 0..MaxFaults
  BY <1>1, FaultFacts
<1>3. PICK n \in {0, 1} : (n = 1 => call[c].at = "sent") /\ taken' = [taken EXCEPT ![c] = @ + n]
  <2>1. CASE TimesOut(c)
    <3> DEFINE Late == IF call[c].at = "sent" /\ call[c].gen \in open THEN {0, 1} ELSE {0}
    <3>1. PICK late \in Late : taken' = [taken EXCEPT ![c] = @ + late]
      BY <2>1 DEF TimesOut
    <3>2. late \in {0, 1} /\ (late = 1 => call[c].at = "sent")
      OBVIOUS
    <3> QED
      BY <3>1, <3>2
  <2>2. CASE Refused(c) \/ ConnectFails(c)
    <3>1. taken' = taken
      BY <2>2 DEF Refused, ConnectFails
    <3>2. taken' = [taken EXCEPT ![c] = @ + 0]
      BY <3>1, NothingTaken
    <3> QED
      BY <3>2
  <2> QED
    BY <2>1, <2>2 DEF McpFault
<1> QED
  BY <1>1, <1>2, <1>3, BreaksMoves

\* The connection is gone: the call resets it, or the replay breaks off too.
LEMMA DisconnectedMoves ==
    ASSUME ClientShape, NEW c \in Calls, Disconnected(c)
    PROVE  ClientShape' /\ CallMoves(c)
<1>1. /\ call[c].at \in {"sent", "taken"}
      /\ client' = client /\ taken' = taken /\ faults' = faults
  BY DEF Disconnected, Severed
<1>2. faults' \in 0..MaxFaults
  BY <1>1 DEF ClientShape
<1>3. CASE call[c].replay
  <2>1. Raises(c) /\ stack' = stack /\ open' = open
    BY <1>3 DEF Disconnected
  <2>2. PICK n \in {0, 1} : n = 0 /\ taken' = [taken EXCEPT ![c] = @ + n]
    BY <1>1, NothingTaken
  <2>3. call[c].at \in Awaits /\ (n = 1 => call[c].at = "sent") /\ client' = client
    BY <1>1, <2>2 DEF Awaits
  <2> QED
    BY <1>2, <2>1, <2>2, <2>3, BreaksMoves
<1>4. CASE ~call[c].replay
  <2>1. PICK o \in CallRecord : o = call[c]
    BY DEF ClientShape
  <2>2. o.replay = FALSE
    BY <1>4, <2>1 DEF CallRecord
  <2>3. [o EXCEPT !.at = "resetting", !.gen = 0] \in CallRecord
    BY DEF CallRecord, Awaits
  <2>4. /\ call' = [call EXCEPT ![c] = [o EXCEPT !.at = "resetting", !.gen = 0]]
        /\ open' = open \ stack /\ stack' = {}
    BY <1>4, <2>1 DEF Disconnected, ClientShape
  <2>5. PICK r \in CallRecord :
           /\ call' = [call EXCEPT ![c] = r]
           /\ r.at = "resetting" /\ r.try = o.try /\ r.replay = o.replay
    BY <2>3, <2>4 DEF CallRecord
  <2>6. Becomes(c, r) /\ Fits(r)
    BY <2>2, <2>5, CallBecomes DEF Fits
  <2>7. client' \in Gens \cup {0} /\ stack' \subseteq Gens /\ open' \subseteq Gens
        /\ taken' \in [Calls -> Nat] /\ \A d \in Calls \ {c} : taken'[d] = taken[d]
    BY <1>1, <2>4 DEF ClientShape
  <2>8. ClientShape' /\ OthersStay(c)
    BY <1>2, <2>6, <2>7, BecomesShape
  <2>9. Closes(c)
    BY <1>1, <2>1, <2>2, <2>5, <2>6 DEF Closes, Becomes
  <2> QED
    BY <2>8, <2>9 DEF CallMoves
<1> QED
  BY <1>3, <1>4

\* The client is forgotten, and what others are entering is on an old stack.
LEMMA ResetConnectionMoves ==
    ASSUME ClientShape, NEW c \in Calls, ResetConnection(c)
    PROVE  ClientShape' /\ CallMoves(c)
<1>1. /\ call[c].at = "resetting" /\ call[c].replay = FALSE
      /\ client' = 0 /\ stack' = {} /\ open' = open /\ taken' = taken /\ faults' = faults
  BY DEF ResetConnection, ForgetClient, ClientShape
<1> DEFINE Next1(d) == IF d = c THEN Replayed(c)
                       ELSE [call[d] EXCEPT !.current = (call[d].at # "entering")]
<1>2. call' = [d \in Calls |-> Next1(d)]
  BY DEF ResetConnection
<1>3. ASSUME NEW d \in Calls
      PROVE  /\ Next1(d) \in CallRecord /\ Fits(Next1(d)) /\ Next1(d).try = call[d].try
             /\ d = c => Next1(d).at = "connect" /\ Next1(d).replay = TRUE
             /\ d # c => /\ Next1(d).at = call[d].at /\ Next1(d).gen = call[d].gen
                         /\ Next1(d).replay = call[d].replay
  <2>1. PICK o \in CallRecord : o = call[d] /\ Fits(o)
    BY DEF ClientShape, Fits
  <2>2. CASE d = c
    <3>1. [o EXCEPT !.at = "connect", !.replay = TRUE] \in CallRecord
      BY DEF CallRecord
    <3> QED
      BY <2>1, <2>2, <3>1 DEF Replayed, CallRecord, Fits
  <2>3. CASE d # c
    <3>1. PICK b \in BOOLEAN : b = (call[d].at # "entering")
      OBVIOUS
    <3>2. [o EXCEPT !.current = b] \in CallRecord
      BY DEF CallRecord
    <3>3. Next1(d) = [o EXCEPT !.current = b]
      BY <2>1, <2>3, <3>1
    <3> QED
      BY <2>1, <2>3, <3>2, <3>3 DEF CallRecord, Fits
  <2> QED
    BY <2>2, <2>3
<1> HIDE DEF Next1
<1>4. call' \in [Calls -> CallRecord] /\ \A d \in Calls : call'[d] = Next1(d)
  BY <1>2, <1>3
<1>5. ClientShape'
  BY <1>1, <1>3, <1>4 DEF ClientShape, Fits
<1>6. OthersStay(c)
  BY <1>1, <1>3, <1>4 DEF OthersStay
<1>7. Restarts(c)
  BY <1>1, <1>3, <1>4 DEF Restarts
<1> QED
  BY <1>5, <1>6, <1>7 DEF CallMoves

\* A step of the client, without a fault or with one.
LEMMA ClientMoves ==
    ASSUME ClientShape, NEW c \in Calls, McpStep(c) \/ McpFault(c)
    PROVE  ClientShape' /\ CallMoves(c)
BY EnsureConnectedMoves, ConnectedMoves, TakenMoves, AnsweredMoves, DisconnectedMoves,
   ResetConnectionMoves, McpFaultMoves DEF McpStep

\* A call begins, of a tool or of a message.
LEMMA CallToolMoves ==
    ASSUME ClientShape, NEW c \in Calls, CallTool(c),
           UNCHANGED <<client, stack, open, taken, faults>>
    PROVE  /\ ClientShape' /\ OthersStay(c) /\ taken'[c] = taken[c]
           /\ call'[c].at = "connect" /\ call'[c].try = 1 /\ call'[c].replay = FALSE
<1>1. PICK r \in CallRecord : /\ Becomes(c, r)
                              /\ r.at = "connect" /\ r.try = 1 /\ r.gen = 0 /\ r.replay = FALSE
  BY CallToolFacts
<1>2. Fits(r)
  BY <1>1 DEF Fits
<1>3. ClientShape' /\ OthersStay(c)
  BY <1>1, <1>2, BecomesShape DEF ClientShape
<1> QED
  BY <1>1, <1>3 DEF Becomes

\* A connection is lost: no call moves.
LEMMA DropsShape ==
    ASSUME ClientShape, NEW g \in open, Drops(g)
    PROVE  ClientShape' /\ call' = call /\ taken' = taken
<1>1. client' = client /\ stack' = stack \ {g} /\ open' = open \ {g} /\ call' = call /\ taken' = taken
  BY DEF Drops
<1>2. faults' \in 0..MaxFaults
  BY FaultFacts DEF Drops
<1> QED
  BY <1>1, <1>2 DEF ClientShape

\* A message whose call, row and sender stay as they are.
CallStays(m) ==
    /\ call'[m].at = call[m].at /\ call'[m].try = call[m].try
    /\ call'[m].replay = call[m].replay /\ taken'[m] = taken[m]

SendStays(m) == row'[m] = row[m] /\ sender'[m] = sender[m]

LEMMA SendingStays ==
    ASSUME NEW m \in Msgs, Sending(m), CallStays(m), SendStays(m)
    PROVE  Sending(m)'
BY DEF Sending, CallStays, SendStays, Executed

\* What is known of a message whose call is under way.
LEMMA UnderWay ==
    ASSUME ClientShape, MsgShape, NEW m \in Msgs, Sending(m),
           call[m].at \in Awaits \cup {"connect"}
    PROVE  /\ sender[m].at = "calling" /\ call[m].try = 1 /\ Attempts(m) = 1
           /\ sender[m].copy.attempts \in 1..MaxSends /\ sender[m].copy.attempts \in Int
           /\ taken[m] \in Nat /\ taken[m] <= 2 * (sender[m].copy.attempts - 1) + Executed(m)
           /\ Executed(m) \in {0, 1, 2}
           /\ sender[m].copy.status = "sending"
           /\ row[m].status \in {"sent", "delivered", "read"} => taken[m] > 0
<1>1. m \in Calls \ Reads
  BY MessageConstants
<1>2. taken[m] \in Nat
  BY <1>1 DEF ClientShape
<1> QED
  BY <1>1, <1>2 DEF Sending, Unsent, Awaits, Attempts, Executed, MsgShape, SendRecord, RowRecord

\* A step of the client keeps count of what the server executed.
LEMMA SendingMoves ==
    ASSUME ClientShape, MsgShape, NEW m \in Msgs, Sending(m), CallMoves(m), SendStays(m)
    PROVE  Sending(m)'
<1>1. call[m].at \in Awaits \cup {"connect"}
  BY DEF CallMoves, Proceeds, Executes, Succeeds, Breaks, Closes, Restarts, Awaits
<1>2. /\ sender[m].at = "calling" /\ call[m].try = 1 /\ Attempts(m) = 1
      /\ sender[m].copy.attempts \in 1..MaxSends /\ sender[m].copy.attempts \in Int
      /\ taken[m] \in Nat /\ taken[m] <= 2 * (sender[m].copy.attempts - 1) + Executed(m)
      /\ Executed(m) \in {0, 1, 2}
      /\ sender[m].copy.status = "sending"
      /\ row[m].status \in {"sent", "delivered", "read"} => taken[m] > 0
  BY <1>1, UnderWay
<1> DEFINE Counts == \E n \in {0, 1} : /\ taken'[m] = taken[m] + n
                                      /\ Executed(m)' \in {0, 1, 2}
                                      /\ Executed(m) + n <= Executed(m)'
           Keeps == /\ call'[m].at # "idle" /\ call'[m].try = 1
                    /\ call'[m].at \in {"taken", "ok"} => taken'[m] > 0
<1>3. ASSUME Proceeds(m) PROVE Counts /\ Keeps
  <2>1. Executed(m)' = Executed(m) /\ taken'[m] = taken[m] + 0
    BY <1>2, <1>3 DEF Proceeds, Executed
  <2>2. Keeps
    BY <1>2, <1>3 DEF Proceeds
  <2> QED
    BY <1>2, <2>1, <2>2
<1>4. ASSUME Executes(m) PROVE Counts /\ Keeps
  <2>1. Executed(m)' = Executed(m) + 1 /\ Executed(m)' \in {1, 2} /\ taken'[m] = taken[m] + 1
    BY <1>4 DEF Executes, Executed
  <2>2. Keeps
    BY <1>2, <1>4 DEF Executes
  <2> QED
    BY <1>2, <2>1, <2>2
<1>5. ASSUME Succeeds(m) PROVE Counts /\ Keeps
  <2>1. taken[m] > 0
    BY <1>5 DEF Succeeds, Sending
  <2>2. Executed(m)' = 2 /\ taken'[m] = taken[m] + 0
    BY <1>2, <1>5 DEF Succeeds, Executed
  <2>3. Keeps
    BY <1>2, <1>5, <2>1 DEF Succeeds
  <2> QED
    BY <1>2, <2>2, <2>3
<1>6. ASSUME Breaks(m) PROVE Counts /\ Keeps
  <2>1. call'[m].at = "failed" /\ call'[m].try = 1
    BY <1>2, <1>6 DEF Breaks
  <2>2. Executed(m)' = 2
    BY <2>1 DEF Executed
  <2>3. taken'[m] = taken[m] + 0 \/ (Executed(m) \in {0, 1} /\ taken'[m] = taken[m] + 1)
    BY <1>2, <1>6 DEF Breaks, Executed
  <2>4. Counts
    BY <1>2, <2>2, <2>3
  <2> QED
    BY <2>1, <2>4
<1>7. ASSUME Closes(m) PROVE Counts /\ Keeps
  <2>1. Executed(m) \in {0, 1} /\ Executed(m)' = 1 /\ taken'[m] = taken[m] + 0
    BY <1>2, <1>7 DEF Closes, Executed
  <2>2. Keeps
    BY <1>2, <1>7 DEF Closes
  <2> QED
    BY <1>2, <2>1, <2>2
<1>8. ASSUME Restarts(m) PROVE Counts /\ Keeps
  <2>1. call[m].replay = FALSE
    BY <1>8, MessageConstants DEF ClientShape, Restarts
  <2>2. Executed(m) = 1 /\ Executed(m)' = 1 /\ taken'[m] = taken[m] + 0
    BY <1>2, <1>8, <2>1 DEF Restarts, Executed
  <2>3. Keeps
    BY <1>2, <1>8 DEF Restarts
  <2> QED
    BY <1>2, <2>2, <2>3
<1>9. Counts /\ Keeps
  BY <1>3, <1>4, <1>5, <1>6, <1>7, <1>8 DEF CallMoves
<1> HIDE DEF Counts, Keeps
<1>10. /\ taken'[m] <= 2 * (sender[m].copy.attempts - 1) + Executed(m)'
       /\ taken'[m] >= taken[m] /\ taken'[m] \in Nat
  <2>1. PICK b \in Int : b = 2 * (sender[m].copy.attempts - 1) /\ taken[m] <= b + Executed(m)
    BY <1>2
  <2> QED
    BY <1>2, <1>9, <2>1 DEF Counts
<1>11. sender'[m] = sender[m] /\ row'[m] = row[m]
  BY DEF SendStays
<1>12. row'[m].status \in {"sent", "delivered", "read"} => taken'[m] > 0
  BY <1>2, <1>10, <1>11
<1> QED
  BY <1>2, <1>9, <1>10, <1>11, <1>12 DEF Sending, Unsent, Keeps

\* The answers of the provider: what the server executed is only ever more.
LEMMA AnsweringStays ==
    ASSUME NEW k \in Callbacks, Answering(k), callback'[k] = callback[k],
           taken \in [Calls -> Nat], taken' \in [Calls -> Nat],
           \A m \in Msgs : taken'[m] >= taken[m]
    PROVE  Answering(k)'
<1>1. CASE callback[k].at = "found"
  <2>1. PICK m \in Msgs : m = callback[k].msg /\ taken[m] > 0
    BY <1>1 DEF Answering
  <2>2. m \in Calls
    BY MessageConstants
  <2>3. taken'[m] > 0
    BY <2>1, <2>2
  <2> QED
    BY <2>1, <2>3 DEF Answering
<1> QED
  BY <1>1 DEF Answering

\* The client's steps, the sends' and the callbacks' left aside.
LEMMA ClientKeepsSends ==
    ASSUME SendsInv, ClientShape', UNCHANGED <<msgVars, inboxVars, conv>>,
           \/ \E c \in Calls : CallMoves(c)
           \/ \E c \in Calls \ Msgs : OthersStay(c) /\ taken'[c] = taken[c]
           \/ call' = call /\ taken' = taken
    PROVE  SendsInv'
<1>1. /\ row' = row /\ sender' = sender /\ callback' = callback /\ updates' = updates
      /\ request' = request /\ rows' = rows /\ handed' = handed /\ conv' = conv /\ deaths' = deaths
  BY DEF msgVars, inboxVars
<1>2. MsgShape' /\ InboxShape'
  BY <1>1 DEF SendsInv, MsgShape, InboxShape
<1>3. Msgs \subseteq Calls
  BY MessageConstants
<1>4. ASSUME NEW m \in Msgs PROVE Sending(m)' /\ taken'[m] >= taken[m]
  <2>1. SendStays(m)
    BY <1>1 DEF SendStays
  <2>2. taken[m] \in Nat
    BY <1>3 DEF SendsInv, ClientShape
  <2>3. CASE CallMoves(m)
    <3>1. Sending(m)'
      BY <2>1, <2>3, SendingMoves DEF SendsInv
    <3>2. taken'[m] = taken[m] \/ taken'[m] = taken[m] + 1
      BY <2>3 DEF CallMoves, Proceeds, Executes, Succeeds, Breaks, Closes, Restarts
    <3> QED
      BY <2>2, <3>1, <3>2
  <2>4. CASE ~CallMoves(m)
    <3>1. CallStays(m)
      BY <1>3, <2>4 DEF CallMoves, OthersStay, CallStays
    <3> QED
      BY <2>1, <2>2, <3>1, SendingStays DEF SendsInv, CallStays
  <2> QED
    BY <2>3, <2>4
<1>5. ASSUME NEW k \in Callbacks PROVE Answering(k)'
  <2>1. taken \in [Calls -> Nat] /\ taken' \in [Calls -> Nat]
    BY DEF SendsInv, ClientShape
  <2> QED
    BY <1>1, <1>4, <2>1, AnsweringStays DEF SendsInv
<1> QED
  BY <1>2, <1>4, <1>5 DEF SendsInv

\* A step of the client, or of another call that begins, or a lost connection.
LEMMA ClientInv ==
    ASSUME SendsInv, OutsideClient,
           \/ \E c \in Calls : McpStep(c) \/ McpFault(c) \/ OtherCall(c)
           \/ \E g \in open : Drops(g)
    PROVE  SendsInv'
<1>1. ClientShape
  BY DEF SendsInv
<1>2. CASE \E c \in Calls : McpStep(c) \/ McpFault(c)
  BY <1>1, <1>2, ClientMoves, ClientKeepsSends DEF OutsideClient
<1>3. ASSUME NEW c \in Calls, OtherCall(c) PROVE SendsInv'
  <2>1. c \in Calls \ Msgs /\ CallTool(c) /\ UNCHANGED <<client, stack, open, taken, faults>>
    BY <1>3 DEF OtherCall
  <2>2. ClientShape' /\ OthersStay(c) /\ taken'[c] = taken[c]
    BY <1>1, <2>1, CallToolMoves
  <2> QED
    BY <2>1, <2>2, ClientKeepsSends DEF OutsideClient
<1>4. ASSUME NEW g \in open, Drops(g) PROVE SendsInv'
  BY <1>1, <1>4, DropsShape, ClientKeepsSends DEF OutsideClient
<1> QED
  BY <1>2, <1>3, <1>4

-----------------------------------------------------------------------------

\* The row and the sender of one message are written.
Writes(m, r, s) ==
    /\ row' \in [Msgs -> RowRecord] /\ sender' \in [Msgs -> SendRecord]
    /\ row'[m] = r /\ sender'[m] = s
    /\ \A n \in Msgs \ {m} : SendStays(n)

LEMMA WritesBoth ==
    ASSUME MsgShape, NEW m \in Msgs, NEW r \in RowRecord, NEW s \in SendRecord,
           row' = [row EXCEPT ![m] = r], sender' = [sender EXCEPT ![m] = s]
    PROVE  Writes(m, r, s)
BY DEF MsgShape, Writes, SendStays

LEMMA WritesSender ==
    ASSUME MsgShape, NEW m \in Msgs, NEW s \in SendRecord,
           row' = row, sender' = [sender EXCEPT ![m] = s]
    PROVE  row[m] \in RowRecord /\ Writes(m, row[m], s)
BY DEF MsgShape, Writes, SendStays

LEMMA NoRowRecord ==
    NoRow \in RowRecord /\ NoRow.status = "none" /\ NoRow.attempts = 0 /\ NoRow.prov = FALSE
<1>1. 0 \in 0..MaxSends
  BY MessageConstants
<1> QED
  BY <1>1 DEF NoRow, RowRecord, Statuses

LEMMA QueuedRecord ==
    \E r \in RowRecord : /\ r = [NoRow EXCEPT !.status = "queued"]
                         /\ r.status = "queued" /\ r.attempts = 0 /\ r.prov = FALSE
<1>1. PICK o \in RowRecord : o = NoRow /\ o.attempts = 0 /\ o.prov = FALSE
  BY NoRowRecord
<1>2. [o EXCEPT !.status = "queued"] \in RowRecord
  BY DEF RowRecord, Statuses
<1> QED
  BY <1>1, <1>2 DEF RowRecord

\* A copy of a row with another status.
LEMMA StatusRecord ==
    ASSUME NEW o \in RowRecord, NEW st \in Statuses
    PROVE  \E r \in RowRecord : /\ r = [o EXCEPT !.status = st]
                                /\ r.status = st /\ r.attempts = o.attempts /\ r.prov = o.prov
<1>1. [o EXCEPT !.status = st] \in RowRecord
  BY DEF RowRecord
<1> QED
  BY <1>1 DEF RowRecord

\* A copy that counts one attempt more.
LEMMA CountedRecord ==
    ASSUME NEW o \in RowRecord, o.attempts < MaxSends
    PROVE  \E r \in RowRecord : /\ r = [o EXCEPT !.attempts = @ + 1]
                                /\ r.status = o.status /\ r.attempts = o.attempts + 1
                                /\ r.prov = o.prov
<1>1. PICK n \in 0..MaxSends : n = o.attempts + 1
  BY MessageConstants DEF RowRecord
<1>2. [o EXCEPT !.attempts = n] \in RowRecord
  BY DEF RowRecord
<1> QED
  BY <1>1, <1>2 DEF RowRecord

\* The steps before anything is stored.
LEMMA WaitsFacts ==
    ASSUME MsgShape, NEW m \in Msgs, SendResolves(m) \/ SendOpens(m) \/ RenderFails(m)
    PROVE  \E s \in SendRecord :
              /\ Writes(m, row[m], s) /\ s.copy = sender[m].copy
              /\ sender[m].at \in {"idle", "opening", "resolved"}
              /\ s.at \in {"opening", "resolved", "unsent"}
<1>1. PICK at \in {"opening", "resolved", "unsent"} :
         /\ Sender(m, at) /\ row' = row /\ sender[m].at \in {"idle", "opening", "resolved"}
  BY DEF SendResolves, SendOpens, RenderFails, Resolves
<1>2. PICK o \in SendRecord : o = sender[m]
  BY DEF MsgShape
<1>3. [o EXCEPT !.at = at] \in SendRecord
  BY DEF SendRecord
<1>4. PICK s \in SendRecord : s = [o EXCEPT !.at = at] /\ s.at = at /\ s.copy = o.copy
  BY <1>3 DEF SendRecord
<1>5. sender' = [sender EXCEPT ![m] = s]
  BY <1>1, <1>2, <1>4 DEF Sender, MsgShape
<1> QED
  BY <1>1, <1>2, <1>4, <1>5, WritesSender

\* The message is stored.
LEMMA QueuesFacts ==
    ASSUME MsgShape, NEW m \in Msgs, Queues(m)
    PROVE  \E r \in RowRecord, s \in SendRecord :
              /\ Writes(m, r, s) /\ s.at = "queued" /\ s.copy = r
              /\ sender[m].at = "resolved"
              /\ r.status = "queued" /\ r.attempts = 0 /\ r.prov = FALSE
<1>1. PICK r \in RowRecord : /\ r = [NoRow EXCEPT !.status = "queued"]
                             /\ r.status = "queued" /\ r.attempts = 0 /\ r.prov = FALSE
  BY QueuedRecord
<1>2. row' = [row EXCEPT ![m] = r] /\ row'[m] = r
  BY <1>1 DEF Queues, Saves, MsgShape
<1>3. sender[m].at = "resolved" /\ sender' = [sender EXCEPT ![m] = [at |-> "queued", copy |-> r]]
  BY <1>2 DEF Queues
<1>4. [at |-> "queued", copy |-> r] \in SendRecord
  BY DEF SendRecord
<1>5. PICK s \in SendRecord : s = [at |-> "queued", copy |-> r] /\ s.at = "queued" /\ s.copy = r
  BY <1>4
<1> QED
  BY <1>1, <1>2, <1>3, <1>5, WritesBoth

\* The gateway is called.
LEMMA GatewaySendFacts ==
    ASSUME MsgShape, NEW m \in Msgs, GatewaySend(m), sender[m].copy.attempts = 0
    PROVE  \E r \in RowRecord, s \in SendRecord :
              /\ Writes(m, r, s) /\ s.at = "calling"
              /\ sender[m].at = "queued"
              /\ r.status = "sending" /\ r.prov = sender[m].copy.prov
              /\ s.copy.status = "sending" /\ s.copy.attempts = 1
              /\ s.copy.prov = sender[m].copy.prov
<1>1. PICK o \in RowRecord : o = sender[m].copy
  BY DEF MsgShape, SendRecord
<1>2. PICK r \in RowRecord : /\ r = [o EXCEPT !.status = "sending"] /\ r.status = "sending"
                             /\ r.attempts = o.attempts /\ r.prov = o.prov
  BY StatusRecord DEF Statuses
<1>3. r.attempts = 0 /\ r.attempts < MaxSends
  BY <1>1, <1>2, MessageConstants
<1>4. PICK q \in RowRecord : /\ q = [r EXCEPT !.attempts = @ + 1] /\ q.status = r.status
                             /\ q.attempts = r.attempts + 1 /\ q.prov = r.prov
  BY <1>3, CountedRecord
<1>5. [at |-> "calling", copy |-> q] \in SendRecord
  BY DEF SendRecord
<1>6. PICK s \in SendRecord : s = [at |-> "calling", copy |-> q] /\ s.at = "calling" /\ s.copy = q
  BY <1>5
<1>7. /\ sender[m].at = "queued" /\ row' = [row EXCEPT ![m] = [o EXCEPT !.status = "sending"]]
      /\ sender' = [sender EXCEPT ![m] =
                      [at |-> "calling",
                       copy |-> [[o EXCEPT !.status = "sending"] EXCEPT !.attempts = @ + 1]]]
  BY <1>1 DEF GatewaySend, Saves
<1> row' = [row EXCEPT ![m] = r]
  BY <1>2, <1>7
<1> DEFINE counted == [[o EXCEPT !.status = "sending"] EXCEPT !.attempts = @ + 1]
<1>8. counted = q
  BY <1>2, <1>4
<1> sender' = [sender EXCEPT ![m] = s]
  <2>1. sender' = [sender EXCEPT ![m] = [at |-> "calling", copy |-> counted]]
    BY <1>7
  <2> HIDE DEF counted
  <2>2. [at |-> "calling", copy |-> counted] = s
    BY <1>6, <1>8
  <2> QED
    BY <2>1, <2>2
<1>9. Writes(m, r, s)
  BY WritesBoth
<1> HIDE DEF counted
<1>10. sender[m].at = "queued" /\ r.status = "sending" /\ r.prov = sender[m].copy.prov
  BY <1>1, <1>2, <1>7
<1>11. /\ s.at = "calling" /\ s.copy.status = "sending" /\ s.copy.attempts = 1
       /\ s.copy.prov = sender[m].copy.prov
  <2>1. q.status = r.status /\ q.attempts = r.attempts + 1 /\ q.prov = r.prov
    BY <1>4
  <2>2. r.status = "sending" /\ r.prov = o.prov /\ r.attempts = 0
    BY <1>2, <1>3
  <2>3. s.at = "calling" /\ s.copy = q
    BY <1>6
  <2>4. o.prov = sender[m].copy.prov
    BY <1>1
  <2> QED
    BY <2>1, <2>2, <2>3, <2>4
<1> QED
  BY <1>9, <1>10, <1>11

\* The attempt failed: the copy is saved, and there is another one or not.
LEMMA GatewayFailedFacts ==
    ASSUME MsgShape, NEW m \in Msgs, GatewayFailed(m)
    PROVE  \E s \in SendRecord :
              /\ sender[m].copy \in RowRecord /\ Writes(m, sender[m].copy, s)
              /\ sender[m].at = "calling" /\ call[m].at = "failed"
              /\ s.copy.status = sender[m].copy.status /\ s.copy.prov = sender[m].copy.prov
              /\ \/ /\ CallTool(m) /\ s.at = "calling" /\ sender[m].copy.attempts < MaxSends
                    /\ s.copy.attempts = sender[m].copy.attempts + 1
                 \/ /\ call' = call /\ s.at = "exhausted"
                    /\ s.copy.attempts = sender[m].copy.attempts
<1>1. PICK o \in SendRecord : o = sender[m]
  BY DEF MsgShape
<1>2. PICK p \in RowRecord : p = o.copy
  BY DEF SendRecord
<1>3. /\ sender[m].at = "calling" /\ call[m].at = "failed"
      /\ row' = [row EXCEPT ![m] = p]
  BY <1>1, <1>2 DEF GatewayFailed, Saves
<1>4. CASE SendsLeft(m)
  <2>1. PICK q \in RowRecord : /\ q = [p EXCEPT !.attempts = @ + 1] /\ q.status = p.status
                               /\ q.attempts = p.attempts + 1 /\ q.prov = p.prov
    BY <1>1, <1>2, <1>4, CountedRecord DEF SendsLeft
  <2>2. [o EXCEPT !.copy = q] \in SendRecord
    BY DEF SendRecord
  <2>3. PICK s \in SendRecord : s = [o EXCEPT !.copy = q] /\ s.at = o.at /\ s.copy = q
    BY <2>2 DEF SendRecord
  <2>4. CallTool(m) /\ sender' = [sender EXCEPT ![m] = s]
    BY <1>1, <1>2, <1>4, <2>1, <2>3 DEF GatewayFailed, MsgShape
  <2>5. Writes(m, p, s)
    BY <1>3, <2>4, WritesBoth
  <2> QED
    BY <1>1, <1>2, <1>3, <1>4, <2>1, <2>3, <2>4, <2>5 DEF SendsLeft
<1>5. CASE ~SendsLeft(m)
  <2>1. [o EXCEPT !.at = "exhausted"] \in SendRecord
    BY DEF SendRecord
  <2>2. PICK s \in SendRecord : s = [o EXCEPT !.at = "exhausted"] /\ s.at = "exhausted" /\ s.copy = o.copy
    BY <2>1 DEF SendRecord
  <2>3. call' = call /\ sender' = [sender EXCEPT ![m] = s]
    BY <1>1, <1>5, <2>2 DEF GatewayFailed, Sender, MsgShape
  <2>4. Writes(m, p, s)
    BY <1>3, <2>3, WritesBoth
  <2> QED
    BY <1>1, <1>2, <1>3, <2>2, <2>3, <2>4
<1> QED
  BY <1>4, <1>5

\* A copy with its last status is saved, and the send has ended.
LEMMA EndsFacts ==
    ASSUME MsgShape, NEW m \in Msgs, Sent(m) \/ Exhausted(m)
    PROVE  \E r \in RowRecord, s \in SendRecord :
              /\ Writes(m, r, s) /\ s.at = "done" /\ s.copy = r
              /\ r.attempts = sender[m].copy.attempts
              /\ \/ sender[m].at = "calling" /\ call[m].at = "ok" /\ r.status = "sent"
                 \/ sender[m].at = "exhausted" /\ r.status = "failed"
                    /\ r.prov = sender[m].copy.prov
<1>1. PICK o \in RowRecord : o = sender[m].copy
  BY DEF MsgShape, SendRecord
<1>2. PICK r \in RowRecord :
         /\ row' = [row EXCEPT ![m] = r] /\ sender' = [sender EXCEPT ![m] = [at |-> "done", copy |-> r]]
         /\ r.attempts = o.attempts
         /\ \/ sender[m].at = "calling" /\ call[m].at = "ok" /\ r.status = "sent"
            \/ sender[m].at = "exhausted" /\ r.status = "failed" /\ r.prov = o.prov
  <2>1. CASE Sent(m)
    <3>1. PICK prov \in BOOLEAN :
             /\ row' = [row EXCEPT ![m] = [o EXCEPT !.status = "sent", !.prov = prov]]
             /\ sender' = [sender EXCEPT ![m] =
                             [at |-> "done", copy |-> [o EXCEPT !.status = "sent", !.prov = prov]]]
      BY <1>1, <2>1 DEF Sent, Saves
    <3>2. [o EXCEPT !.status = "sent", !.prov = prov] \in RowRecord
      BY DEF RowRecord, Statuses
    <3>3. PICK r \in RowRecord : /\ r = [o EXCEPT !.status = "sent", !.prov = prov]
                                 /\ r.status = "sent" /\ r.attempts = o.attempts
      BY <3>2 DEF RowRecord
    <3> QED
      BY <2>1, <3>1, <3>3 DEF Sent, Answers
  <2>2. CASE Exhausted(m)
    <3>1. PICK r \in RowRecord : /\ r = [o EXCEPT !.status = "failed"] /\ r.status = "failed"
                                 /\ r.attempts = o.attempts /\ r.prov = o.prov
      BY StatusRecord DEF Statuses
    <3> QED
      BY <1>1, <2>2, <3>1 DEF Exhausted, Saves
  <2> QED
    BY <2>1, <2>2
<1>3. [at |-> "done", copy |-> r] \in SendRecord
  BY DEF SendRecord
<1>4. PICK s \in SendRecord : s = [at |-> "done", copy |-> r] /\ s.at = "done" /\ s.copy = r
  BY <1>3
<1>5. Writes(m, r, s)
  BY <1>2, <1>4, WritesBoth
<1> QED
  BY <1>1, <1>2, <1>4, <1>5

-----------------------------------------------------------------------------

\* A step that writes one message keeps everything else.
LEMMA SendKeeps ==
    ASSUME SendsInv, NEW m \in Msgs, NEW r \in RowRecord, NEW s \in SendRecord, Writes(m, r, s),
           callback' = callback, updates' = updates, InboxShape', ClientShape', OthersStay(m),
           taken'[m] = taken[m], Sending(m)'
    PROVE  SendsInv'
<1>1. MsgShape'
  BY DEF SendsInv, MsgShape, Writes
<1>2. Msgs \subseteq Calls
  BY MessageConstants
<1>3. ASSUME NEW n \in Msgs PROVE Sending(n)' /\ taken'[n] >= taken[n]
  <2>1. taken[n] \in Nat
    BY <1>2 DEF SendsInv, ClientShape
  <2>2. CASE n = m
    BY <2>1, <2>2
  <2>3. CASE n # m
    <3>1. CallStays(n) /\ SendStays(n)
      BY <1>2, <2>3 DEF OthersStay, CallStays, Writes
    <3> QED
      BY <2>1, <3>1, SendingStays DEF SendsInv, CallStays
  <2> QED
    BY <2>2, <2>3
<1>4. ASSUME NEW k \in Callbacks PROVE Answering(k)'
  <2>1. taken \in [Calls -> Nat] /\ taken' \in [Calls -> Nat]
    BY DEF SendsInv, ClientShape
  <2> QED
    BY <1>3, <2>1, AnsweringStays DEF SendsInv
<1> QED
  BY <1>1, <1>3, <1>4 DEF SendsInv

\* Nothing happens to the client, nor to the calls.
LEMMA ClientRests ==
    ASSUME ClientShape, UNCHANGED mcpVars, NEW m \in Msgs
    PROVE  ClientShape' /\ call' = call /\ taken' = taken /\ OthersStay(m) /\ CallStays(m)
<1>1. /\ client' = client /\ stack' = stack /\ open' = open /\ call' = call
      /\ taken' = taken /\ faults' = faults
  BY DEF mcpVars
<1> QED
  BY <1>1 DEF ClientShape, OthersStay, CallStays

\* The inbox rests, whether or not a conversation was opened.
LEMMA InboxRests ==
    ASSUME InboxShape, UNCHANGED inboxVars, conv' = conv \/ Opens
    PROVE  InboxShape'
<1>1. /\ request' = request /\ rows' = rows /\ handed' = handed /\ deaths' = deaths
      /\ conv' = conv \/ conv' = conv + 1
  BY DEF inboxVars, Opens
<1> QED
  BY <1>1 DEF InboxShape

\* Before anything is stored.
LEMMA WaitsInv ==
    ASSUME SendsInv, NEW m \in Msgs, SendResolves(m) \/ SendOpens(m) \/ RenderFails(m)
    PROVE  SendsInv'
<1>1. PICK s \in SendRecord :
         /\ Writes(m, row[m], s) /\ s.copy = sender[m].copy
         /\ sender[m].at \in {"idle", "opening", "resolved"}
         /\ s.at \in {"opening", "resolved", "unsent"}
  BY WaitsFacts DEF SendsInv
<1>2. /\ UNCHANGED mcpVars /\ UNCHANGED inboxVars /\ (conv' = conv \/ Opens)
      /\ callback' = callback /\ updates' = updates
  BY DEF SendResolves, SendOpens, RenderFails
<1>3. InboxShape' /\ ClientShape' /\ taken' = taken /\ OthersStay(m) /\ CallStays(m)
  BY <1>2, ClientRests, InboxRests DEF SendsInv
<1>4. row[m] \in RowRecord
  BY DEF SendsInv, MsgShape
<1>5. /\ call[m].at = "idle" /\ taken[m] = 0 /\ sender[m].copy.attempts = 0
      /\ row[m] = NoRow /\ row[m].status = "none"
  BY <1>1, NoRowRecord DEF SendsInv, Sending, Unsent
<1>6. Sending(m)'
  <2>1. row'[m] = row[m] /\ sender'[m] = s
    BY <1>1 DEF Writes
  <2> QED
    BY <1>1, <1>3, <1>5, <2>1 DEF Sending, Unsent, CallStays
<1> QED
  BY <1>1, <1>2, <1>3, <1>4, <1>6, SendKeeps

\* The message is stored.
LEMMA QueuesInv == ASSUME SendsInv, NEW m \in Msgs, Queues(m) PROVE SendsInv'
<1>1. PICK r \in RowRecord, s \in SendRecord :
         /\ Writes(m, r, s) /\ s.at = "queued" /\ s.copy = r /\ sender[m].at = "resolved"
         /\ r.status = "queued" /\ r.attempts = 0 /\ r.prov = FALSE
  BY QueuesFacts DEF SendsInv
<1>2. /\ UNCHANGED mcpVars /\ UNCHANGED inboxVars /\ conv' = conv
      /\ callback' = callback /\ updates' = updates
  BY DEF Queues
<1>3. InboxShape' /\ ClientShape' /\ taken' = taken /\ OthersStay(m) /\ CallStays(m)
  BY <1>2, ClientRests, InboxRests DEF SendsInv
<1>4. call[m].at = "idle" /\ taken[m] = 0
  BY <1>1 DEF SendsInv, Sending, Unsent
<1>5. Sending(m)'
  <2>1. row'[m] = r /\ sender'[m] = s
    BY <1>1 DEF Writes
  <2> QED
    BY <1>1, <1>3, <1>4, <2>1 DEF Sending, Unsent, CallStays
<1> QED
  BY <1>1, <1>2, <1>3, <1>5, SendKeeps

\* The first attempt.
LEMMA GatewaySendInv == ASSUME SendsInv, NEW m \in Msgs, GatewaySend(m) PROVE SendsInv'
<1>1. sender[m].at = "queued" /\ CallTool(m)
      /\ UNCHANGED <<client, stack, open, taken, faults>> /\ UNCHANGED inboxVars /\ conv' = conv
      /\ callback' = callback /\ updates' = updates
  BY DEF GatewaySend
<1>2. call[m].at = "idle" /\ taken[m] = 0 /\ sender[m].copy.attempts = 0
  BY <1>1 DEF SendsInv, Sending, Unsent
<1>3. PICK r \in RowRecord, s \in SendRecord :
         /\ Writes(m, r, s) /\ s.at = "calling" /\ r.status = "sending"
         /\ s.copy.status = "sending" /\ s.copy.attempts = 1
  BY <1>2, GatewaySendFacts DEF SendsInv
<1>4. m \in Calls
  BY MessageConstants
<1>5. /\ ClientShape' /\ OthersStay(m) /\ taken'[m] = taken[m]
      /\ call'[m].at = "connect" /\ call'[m].try = 1 /\ call'[m].replay = FALSE
  BY <1>1, <1>4, CallToolMoves DEF SendsInv
<1>6. InboxShape'
  BY <1>1, InboxRests DEF SendsInv
<1>7. Sending(m)'
  <2>1. row'[m] = r /\ sender'[m] = s
    BY <1>3 DEF Writes
  <2>2. 1 \in 1..MaxSends
    BY MessageConstants
  <2>3. Executed(m)' = 0
    BY <1>5 DEF Executed
  <2>4. taken'[m] <= 2 * (sender'[m].copy.attempts - 1) + Executed(m)'
    BY <1>2, <1>3, <1>5, <2>1, <2>3
  <2> QED
    BY <1>2, <1>3, <1>5, <2>1, <2>2, <2>4 DEF Sending, Unsent
<1> QED
  BY <1>1, <1>3, <1>5, <1>6, <1>7, SendKeeps

\* The attempt failed, and there is another one or the send gives up.
LEMMA GatewayFailedInv == ASSUME SendsInv, NEW m \in Msgs, GatewayFailed(m) PROVE SendsInv'
<1>1. PICK s \in SendRecord :
         /\ sender[m].copy \in RowRecord /\ Writes(m, sender[m].copy, s)
         /\ sender[m].at = "calling" /\ call[m].at = "failed"
         /\ s.copy.status = sender[m].copy.status
         /\ \/ /\ CallTool(m) /\ s.at = "calling" /\ sender[m].copy.attempts < MaxSends
               /\ s.copy.attempts = sender[m].copy.attempts + 1
            \/ /\ call' = call /\ s.at = "exhausted"
               /\ s.copy.attempts = sender[m].copy.attempts
  BY GatewayFailedFacts DEF SendsInv
<1>2. UNCHANGED <<client, stack, open, taken, faults>> /\ UNCHANGED inboxVars /\ conv' = conv
      /\ callback' = callback /\ updates' = updates
  BY DEF GatewayFailed
<1>3. m \in Calls
  BY MessageConstants
<1>4. InboxShape'
  BY <1>2, InboxRests DEF SendsInv
<1>5. PICK a \in 1..MaxSends, t \in Nat :
         /\ a = sender[m].copy.attempts /\ t = taken[m] /\ t <= 2 * (a - 1) + 2
         /\ sender[m].copy.status = "sending" /\ call[m].try = 1
  <2>1. Executed(m) = 2
    BY <1>1 DEF Executed
  <2> QED
    BY <1>1, <1>3, <2>1 DEF SendsInv, Sending, Unsent, ClientShape
<1>6. row'[m] = sender[m].copy /\ sender'[m] = s
  BY <1>1 DEF Writes
<1>7. CASE /\ CallTool(m) /\ s.at = "calling" /\ sender[m].copy.attempts < MaxSends
           /\ s.copy.attempts = sender[m].copy.attempts + 1
  <2>1. /\ ClientShape' /\ OthersStay(m) /\ taken'[m] = taken[m]
        /\ call'[m].at = "connect" /\ call'[m].try = 1 /\ call'[m].replay = FALSE
    BY <1>2, <1>3, <1>7, CallToolMoves DEF SendsInv
  <2>2. Executed(m)' = 0
    BY <2>1 DEF Executed
  <2>3. PICK b \in 1..MaxSends : b = a + 1
    BY <1>5, <1>7, MessageConstants
  <2>4. taken'[m] <= 2 * (b - 1) + Executed(m)' /\ sender'[m].copy.attempts = b
    BY <1>5, <1>6, <1>7, <2>1, <2>2, <2>3
  <2>5. Sending(m)'
    BY <1>1, <1>5, <1>6, <1>7, <2>1, <2>4 DEF Sending, Unsent
  <2> QED
    BY <1>1, <1>2, <1>4, <2>1, <2>5, SendKeeps
<1>8. CASE call' = call /\ s.at = "exhausted" /\ s.copy.attempts = sender[m].copy.attempts
  <2>1. UNCHANGED mcpVars
    BY <1>2, <1>8 DEF mcpVars
  <2>2. ClientShape' /\ taken' = taken /\ OthersStay(m)
    BY <2>1, ClientRests DEF SendsInv
  <2>3. Executed(m)' = 2
    BY <1>1, <1>8 DEF Executed
  <2>4. taken'[m] <= 2 * (a - 1) + Executed(m)' /\ sender'[m].copy.attempts = a
    BY <1>5, <1>6, <1>8, <2>2, <2>3
  <2>5. Sending(m)'
    BY <1>1, <1>5, <1>6, <1>8, <2>2, <2>4 DEF Sending, Unsent
  <2> QED
    BY <1>1, <1>2, <1>4, <2>2, <2>5, SendKeeps
<1> QED
  BY <1>1, <1>7, <1>8

\* The tool answered, or every attempt failed.
LEMMA EndsInv == ASSUME SendsInv, NEW m \in Msgs, Sent(m) \/ Exhausted(m) PROVE SendsInv'
<1>1. PICK r \in RowRecord, s \in SendRecord :
         /\ Writes(m, r, s) /\ s.at = "done" /\ s.copy = r
         /\ r.attempts = sender[m].copy.attempts
         /\ \/ sender[m].at = "calling" /\ call[m].at = "ok" /\ r.status = "sent"
            \/ sender[m].at = "exhausted" /\ r.status = "failed"
  BY EndsFacts DEF SendsInv
<1>2. /\ UNCHANGED mcpVars /\ UNCHANGED inboxVars /\ conv' = conv
      /\ callback' = callback /\ updates' = updates
  BY DEF Sent, Exhausted
<1>3. InboxShape' /\ ClientShape' /\ call' = call /\ taken' = taken /\ OthersStay(m)
  BY <1>2, ClientRests, InboxRests DEF SendsInv
<1>4. Executed(m)' = Executed(m)
  BY <1>3 DEF Executed
<1>5. row'[m] = r /\ sender'[m] = s
  BY <1>1 DEF Writes
<1>6. /\ call[m].at \in {"ok", "failed"} /\ call[m].try = 1
      /\ r.attempts \in 1..MaxSends
      /\ taken[m] <= 2 * (r.attempts - 1) + Executed(m)
      /\ r.status = "sent" => taken[m] > 0
      /\ call[m].at = "ok" => taken[m] > 0
  BY <1>1 DEF SendsInv, Sending, Unsent
<1>7. Sending(m)'
  BY <1>1, <1>3, <1>4, <1>5, <1>6 DEF Sending, Unsent
<1> QED
  BY <1>1, <1>2, <1>3, <1>7, SendKeeps

-----------------------------------------------------------------------------

\* A callback takes what it found, with its status.
LEMMA CallbackFindsFacts ==
    ASSUME MsgShape, NEW k \in Callbacks, CallbackFinds(k)
    PROVE  \E q \in CallbackRecord :
              /\ callback' \in [Callbacks -> CallbackRecord] /\ callback'[k] = q
              /\ \A j \in Callbacks \ {k} : callback'[j] = callback[j]
              /\ q.at = "found" /\ q.msg \in Msgs /\ taken[q.msg] > 0 /\ Findable(q.msg)
              /\ q.copy = row[q.msg] /\ q.status \in {"delivered", "read", "failed"}
<1>1. PICK m \in Msgs, st \in {"delivered", "read", "failed"} :
         /\ taken[m] > 0 /\ Findable(m)
         /\ callback' = [callback EXCEPT ![k] = [at |-> "found", msg |-> m,
                                                 copy |-> row[m], status |-> st]]
  BY DEF CallbackFinds
<1>2. PICK r \in RowRecord : r = row[m]
  BY DEF MsgShape
<1>3. [at |-> "found", msg |-> m, copy |-> r, status |-> st] \in CallbackRecord
  BY DEF CallbackRecord, Statuses
<1>4. PICK q \in CallbackRecord :
         /\ q = [at |-> "found", msg |-> m, copy |-> r, status |-> st]
         /\ q.at = "found" /\ q.msg = m /\ q.copy = r /\ q.status = st
  BY <1>3
<1>5. callback' = [callback EXCEPT ![k] = q]
  BY <1>1, <1>2, <1>4
<1>6. /\ callback' \in [Callbacks -> CallbackRecord] /\ callback'[k] = q
      /\ \A j \in Callbacks \ {k} : callback'[j] = callback[j]
  BY <1>5 DEF MsgShape
<1>7. /\ q.at = "found" /\ q.msg \in Msgs /\ taken[q.msg] > 0 /\ Findable(q.msg)
      /\ q.copy = row[q.msg] /\ q.status \in {"delivered", "read", "failed"}
  BY <1>1, <1>2, <1>4
<1> QED
  BY <1>6, <1>7

LEMMA NoCallbackRecord == NoCallback \in CallbackRecord /\ NoCallback.at = "idle"
<1>1. NoRow \in RowRecord
  BY NoRowRecord
<1> QED
  BY <1>1 DEF NoCallback, CallbackRecord, Statuses

\* A callback ends: what it found is saved with the new status, or nothing is.
LEMMA CallbackSavesFacts ==
    ASSUME MsgShape, NEW k \in Callbacks, CallbackSaves(k)
    PROVE  /\ callback[k].at = "found"
           /\ callback' \in [Callbacks -> CallbackRecord] /\ callback'[k].at = "idle"
           /\ \A j \in Callbacks \ {k} : callback'[j] = callback[j]
           /\ \/ row' = row
              \/ /\ CanTransition(callback[k].copy.status, callback[k].status)
                 /\ \E r \in RowRecord :
                       /\ row' = [row EXCEPT ![callback[k].msg] = r]
                       /\ r.status = callback[k].status /\ r.prov = callback[k].copy.prov
<1>1. callback[k].at = "found" /\ callback' = [callback EXCEPT ![k] = NoCallback]
  BY DEF CallbackSaves
<1>2. /\ callback' \in [Callbacks -> CallbackRecord] /\ callback'[k].at = "idle"
      /\ \A j \in Callbacks \ {k} : callback'[j] = callback[j]
  BY <1>1, NoCallbackRecord DEF MsgShape
<1>3. CASE CanTransition(callback[k].copy.status, callback[k].status)
  <2>1. PICK o \in RowRecord, st \in Statuses : o = callback[k].copy /\ st = callback[k].status
    BY DEF MsgShape, CallbackRecord
  <2>2. PICK r \in RowRecord : /\ r = [o EXCEPT !.status = st]
                               /\ r.status = st /\ r.attempts = o.attempts /\ r.prov = o.prov
    BY StatusRecord
  <2>3. row' = [row EXCEPT ![callback[k].msg] = r]
    BY <1>3, <2>1, <2>2 DEF CallbackSaves, Saves
  <2> QED
    BY <1>1, <1>2, <1>3, <2>1, <2>2, <2>3
<1>4. CASE ~CanTransition(callback[k].copy.status, callback[k].status)
  <2>1. row' = row
    BY <1>4 DEF CallbackSaves
  <2> QED
    BY <1>1, <1>2, <2>1
<1> QED
  BY <1>3, <1>4

\* A callback leaves the client, the sends and the inbox alone.
LEMMA CallbackRests ==
    ASSUME SendsInv, NEW k \in Callbacks, CallbackFinds(k) \/ CallbackSaves(k)
    PROVE  /\ ClientShape' /\ call' = call /\ taken' = taken /\ sender' = sender
           /\ InboxShape' /\ updates' \in 0..MaxUpdates
<1>1. /\ UNCHANGED mcpVars /\ sender' = sender /\ UNCHANGED inboxVars /\ conv' = conv
      /\ updates' = updates \/ (updates < MaxUpdates /\ updates' = updates + 1)
  BY DEF CallbackFinds, CallbackSaves
<1>2. /\ client' = client /\ stack' = stack /\ open' = open /\ call' = call
      /\ taken' = taken /\ faults' = faults
  BY <1>1 DEF mcpVars
<1>3. ClientShape'
  BY <1>2 DEF SendsInv, ClientShape
<1>4. InboxShape'
  BY <1>1, InboxRests DEF SendsInv
<1>5. updates' \in 0..MaxUpdates
  BY <1>1, MessageConstants DEF SendsInv, MsgShape
<1> QED
  BY <1>1, <1>2, <1>3, <1>4, <1>5

\* The callback holds a row of a message that the server executed.
LEMMA CallbackFindsInv == ASSUME SendsInv, NEW k \in Callbacks, CallbackFinds(k) PROVE SendsInv'
<1>1. PICK q \in CallbackRecord :
         /\ callback' \in [Callbacks -> CallbackRecord] /\ callback'[k] = q
         /\ \A j \in Callbacks \ {k} : callback'[j] = callback[j]
         /\ q.at = "found" /\ q.msg \in Msgs /\ taken[q.msg] > 0
         /\ q.status \in {"delivered", "read", "failed"}
  BY CallbackFindsFacts DEF SendsInv
<1>2. /\ ClientShape' /\ call' = call /\ taken' = taken /\ sender' = sender
      /\ InboxShape' /\ updates' \in 0..MaxUpdates
  BY CallbackRests
<1>3. row' = row
  BY DEF CallbackFinds
<1>4. MsgShape'
  BY <1>1, <1>2, <1>3 DEF SendsInv, MsgShape
<1>5. ASSUME NEW m \in Msgs PROVE Sending(m)'
  BY <1>2, <1>3, SendingStays DEF SendsInv, CallStays, SendStays
<1>6. ASSUME NEW j \in Callbacks PROVE Answering(j)'
  BY <1>1, <1>2 DEF SendsInv, Answering
<1> QED
  BY <1>2, <1>4, <1>5, <1>6 DEF SendsInv

\* The status it saves is a later one than SENDING.
LEMMA CallbackSavesInv == ASSUME SendsInv, NEW k \in Callbacks, CallbackSaves(k) PROVE SendsInv'
<1>1. /\ callback[k].at = "found"
      /\ callback' \in [Callbacks -> CallbackRecord] /\ callback'[k].at = "idle"
      /\ \A j \in Callbacks \ {k} : callback'[j] = callback[j]
  BY CallbackSavesFacts DEF SendsInv
<1>2. /\ ClientShape' /\ call' = call /\ taken' = taken /\ sender' = sender
      /\ InboxShape' /\ updates' \in 0..MaxUpdates
  BY CallbackRests
<1>3. PICK m \in Msgs : /\ m = callback[k].msg /\ taken[m] > 0
                        /\ callback[k].status \in {"delivered", "read", "failed"}
  BY <1>1 DEF SendsInv, Answering
<1>4. ASSUME NEW j \in Callbacks PROVE Answering(j)'
  BY <1>1, <1>2 DEF SendsInv, Answering
<1>5. CASE row' = row
  <2>1. MsgShape'
    BY <1>1, <1>2, <1>5 DEF SendsInv, MsgShape
  <2>2. ASSUME NEW n \in Msgs PROVE Sending(n)'
    BY <1>2, <1>5, SendingStays DEF SendsInv, CallStays, SendStays
  <2> QED
    BY <1>2, <1>4, <2>1, <2>2 DEF SendsInv
<1>6. ASSUME NEW r \in RowRecord, row' = [row EXCEPT ![m] = r], r.status = callback[k].status
      PROVE  SendsInv'
  <2>1. row' \in [Msgs -> RowRecord] /\ row'[m] = r /\ \A n \in Msgs \ {m} : row'[n] = row[n]
    BY <1>6 DEF SendsInv, MsgShape
  <2>2. MsgShape'
    BY <1>1, <1>2, <2>1 DEF SendsInv, MsgShape
  <2>3. row'[m].status \in {"delivered", "read", "failed"}
    BY <1>3, <1>6, <2>1
  <2>4. sender[m].at \notin Unsent
    BY <1>3 DEF SendsInv, Sending
  <2>5. Executed(m)' = Executed(m)
    BY <1>2 DEF Executed
  <2>6. Sending(m)'
    BY <1>2, <1>3, <2>3, <2>4, <2>5 DEF SendsInv, Sending, Unsent
  <2>7. ASSUME NEW n \in Msgs, n # m PROVE Sending(n)'
    BY <1>2, <2>1, <2>7, SendingStays DEF SendsInv, CallStays, SendStays
  <2> QED
    BY <1>2, <1>4, <2>2, <2>6, <2>7 DEF SendsInv
<1> QED
  BY <1>3, <1>5, <1>6, CallbackSavesFacts DEF SendsInv

\* A counter of ids goes up, or is left alone by what is no id.
LEMMA CountsUp ==
    ASSUME NEW f \in [Ids -> Nat], NEW x
    PROVE  [f EXCEPT ![x] = @ + 1] \in [Ids -> Nat]
<1>1. CASE x \in Ids
  <2>1. f[x] + 1 \in Nat
    BY <1>1
  <2> QED
    BY <2>1
<1>2. CASE x \notin Ids
  BY <1>2
<1> QED
  BY <1>1, <1>2

\* The inbox's steps leave the sends alone.
LEMMA IngestSendsInv ==
    ASSUME SendsInv, NEW d \in Deliveries, IngestStep(d), UNCHANGED <<mcpVars, msgVars>>
    PROVE  SendsInv'
<1>1. InboxShape'
  <2>1. ASSUME NEW i \in Ids, IngestInbound(d, i) PROVE InboxShape'
    <3>1. PICK at \in {"done", "opening", "resolved"} :
             /\ request' = [request EXCEPT ![d] = [at |-> at, id |-> i]]
             /\ rows' = rows /\ handed' = handed /\ conv' = conv /\ deaths' = deaths
      BY <2>1 DEF IngestInbound, Resolves
    <3>2. [at |-> at, id |-> i] \in Request
      BY DEF Request, Ended
    <3> QED
      BY <3>1, <3>2 DEF SendsInv, InboxShape
  <2>2. ASSUME OpensConversation(d) \/ CreatesMessage(d) \/ HandsOn(d) \/ Dies(d) PROVE InboxShape'
    <3>1. PICK at \in {"resolved", "stored", "done", "dead"} :
             request' = [request EXCEPT ![d].at = at]
      BY <2>2 DEF OpensConversation, CreatesMessage, HandsOn, Dies, Moves
    <3>2. PICK q \in Request : q = request[d]
      BY DEF SendsInv, InboxShape
    <3>3. [q EXCEPT !.at = at] \in Request
      BY DEF Request, Ended
    <3>4. request' = [request EXCEPT ![d] = [q EXCEPT !.at = at]]
      BY <3>1, <3>2
    <3>5. request' \in [Deliveries -> Request]
      BY <3>3, <3>4 DEF SendsInv, InboxShape
    <3>6. rows' \in [Ids -> Nat] /\ handed' \in [Ids -> Nat] /\ conv' \in Nat /\ deaths' \in 0..MaxDeaths
      <4>1. CASE OpensConversation(d)
        BY <4>1 DEF OpensConversation, Opens, SendsInv, InboxShape
      <4>2. CASE CreatesMessage(d)
        BY <4>2, CountsUp DEF CreatesMessage, SendsInv, InboxShape
      <4>3. CASE HandsOn(d)
        BY <4>3, CountsUp DEF HandsOn, SendsInv, InboxShape
      <4>4. CASE Dies(d)
        BY <4>4, InboxConstants DEF Dies, SendsInv, InboxShape
      <4> QED
        BY <2>2, <4>1, <4>2, <4>3, <4>4
    <3> QED
      BY <3>5, <3>6 DEF InboxShape
  <2> QED
    BY <2>1, <2>2 DEF IngestStep
<1>2. /\ row' = row /\ sender' = sender /\ callback' = callback /\ updates' = updates
      /\ client' = client /\ stack' = stack /\ open' = open /\ call' = call
      /\ taken' = taken /\ faults' = faults
  BY DEF mcpVars, msgVars
<1>3. ClientShape' /\ MsgShape'
  BY <1>2 DEF SendsInv, ClientShape, MsgShape
<1>4. ASSUME NEW m \in Msgs PROVE Sending(m)'
  BY <1>2, SendingStays DEF SendsInv, CallStays, SendStays
<1>5. ASSUME NEW k \in Callbacks PROVE Answering(k)'
  BY <1>2 DEF SendsInv, Answering
<1> QED
  BY <1>1, <1>3, <1>4, <1>5 DEF SendsInv

\* At first nothing is stored, connected or called.
LEMMA SendsInit == Init => SendsInv
<1> SUFFICES ASSUME Init PROVE SendsInv
  OBVIOUS
<1>1. /\ client = 0 /\ stack = {} /\ open = {} /\ call = [c \in Calls |-> Idle]
      /\ taken = [c \in Calls |-> 0] /\ faults = 0
      /\ row = [m \in Msgs |-> NoRow]
      /\ sender = [m \in Msgs |-> [at |-> "idle", copy |-> NoRow]]
      /\ callback = [k \in Callbacks |-> NoCallback] /\ updates = 0
      /\ request = [d \in Deliveries |-> [at |-> "idle", id |-> NoId]]
      /\ rows = [i \in Ids |-> 0] /\ handed = [i \in Ids |-> 0] /\ conv = 0 /\ deaths = 0
  BY DEF Init, McpInit, MsgInit, InboxInit
<1>2. ClientShape
  BY <1>1, IdleRecord, McpConstants DEF ClientShape
<1>3. MsgShape
  <2>1. [at |-> "idle", copy |-> NoRow] \in SendRecord
    BY NoRowRecord DEF SendRecord
  <2> QED
    BY <1>1, <2>1, NoRowRecord, NoCallbackRecord, MessageConstants DEF MsgShape
<1>4. InboxShape
  <2>1. [at |-> "idle", id |-> NoId] \in Request
    BY DEF Request, Ended
  <2> QED
    BY <1>1, <2>1, InboxConstants DEF InboxShape
<1>5. ASSUME NEW m \in Msgs PROVE Sending(m)
  <2>1. m \in Calls
    BY MessageConstants
  <2>2. call[m].at = "idle" /\ taken[m] = 0
    BY <1>1, <2>1, IdleRecord
  <2>3. /\ sender[m].at = "idle" /\ sender[m].copy.attempts = 0
        /\ row[m] = NoRow /\ row[m].status = "none"
    BY <1>1, NoRowRecord
  <2> QED
    BY <2>2, <2>3 DEF Sending, Unsent
<1>6. ASSUME NEW k \in Callbacks PROVE Answering(k)
  BY <1>1, NoCallbackRecord DEF Answering
<1> QED
  BY <1>2, <1>3, <1>4, <1>5, <1>6 DEF SendsInv

\* Every step keeps the invariant.
LEMMA SendsNext == SendsInv /\ [Next]_vars => SendsInv'
<1> SUFFICES ASSUME SendsInv, [Next]_vars PROVE SendsInv'
  OBVIOUS
<1>1. CASE UNCHANGED vars
  <2>1. /\ row' = row /\ sender' = sender /\ callback' = callback /\ updates' = updates
        /\ client' = client /\ stack' = stack /\ open' = open /\ call' = call
        /\ taken' = taken /\ faults' = faults /\ request' = request /\ rows' = rows
        /\ handed' = handed /\ conv' = conv /\ deaths' = deaths
    BY <1>1 DEF vars, mcpVars, msgVars, inboxVars
  <2>2. ClientShape' /\ MsgShape' /\ InboxShape'
    BY <2>1 DEF SendsInv, ClientShape, MsgShape, InboxShape
  <2>3. ASSUME NEW m \in Msgs PROVE Sending(m)'
    BY <2>1, SendingStays DEF SendsInv, CallStays, SendStays
  <2>4. ASSUME NEW k \in Callbacks PROVE Answering(k)'
    BY <2>1 DEF SendsInv, Answering
  <2> QED
    BY <2>2, <2>3, <2>4 DEF SendsInv
<1>2. CASE \/ \E c \in Calls : Client(c)
           \/ \E c \in Calls : (McpFault(c) \/ OtherCall(c)) /\ OutsideClient
           \/ \E g \in open : Drops(g) /\ OutsideClient
  BY <1>2, ClientInv DEF Client
<1>3. ASSUME NEW m \in Msgs, SendStep(m) PROVE SendsInv'
  BY <1>3, WaitsInv, QueuesInv, GatewaySendInv, GatewayFailedInv, EndsInv DEF SendStep
<1>4. ASSUME NEW k \in Callbacks, CallbackFinds(k) \/ CallbackSaves(k) PROVE SendsInv'
  BY <1>4, CallbackFindsInv, CallbackSavesInv
<1>5. ASSUME NEW d \in Deliveries, IngestStep(d), UNCHANGED <<mcpVars, msgVars>> PROVE SendsInv'
  BY <1>5, IngestSendsInv
<1> QED
  BY <1>1, <1>2, <1>3, <1>4, <1>5 DEF Next

\* What SendInv says follows.
LEMMA SendsCorrect == SendsInv => SendInv
<1> SUFFICES ASSUME SendsInv PROVE SendInv
  OBVIOUS
<1>1. McpTypeOK
  BY DEF SendsInv, ClientShape, CallRecord, McpTypeOK
<1>2. MsgTypeOK
  <2>1. ASSUME NEW m \in Msgs
        PROVE  /\ row[m] \in RowRecord /\ sender[m] \in SendRecord
               /\ sender[m].at = "done" => row[m].status \notin {"none", "queued", "sending"}
               /\ sender[m].at = "unsent" => row[m] = NoRow
    BY DEF SendsInv, MsgShape, Sending, Unsent
  <2>2. ASSUME NEW k \in Callbacks PROVE callback[k] \in CallbackRecord
    BY DEF SendsInv, MsgShape
  <2>3. updates \in 0..MaxUpdates
    BY DEF SendsInv, MsgShape
  <2> QED
    BY <2>1, <2>2, <2>3 DEF MsgTypeOK, RowRecord, SendRecord, CallbackRecord
<1>3. InboxTypeOK
  BY DEF SendsInv, InboxShape, Request, InboxTypeOK
<1>4. SentWasTaken
  BY DEF SendsInv, Sending, SentWasTaken
<1>5. ASSUME NEW m \in Msgs PROVE taken[m] <= 2 * sender[m].copy.attempts * Attempts(m)
  <2>1. m \in Calls \ Reads /\ Attempts(m) = 1
    BY MessageConstants DEF Attempts
  <2>2. PICK t \in Nat, a \in 0..MaxSends : t = taken[m] /\ a = sender[m].copy.attempts
    BY <2>1 DEF SendsInv, ClientShape, MsgShape, SendRecord, RowRecord
  <2>3. t <= 2 * a
    <3>1. CASE sender[m].at \in Unsent
      BY <2>2, <3>1 DEF SendsInv, Sending
    <3>2. CASE sender[m].at \notin Unsent
      <4>1. t <= 2 * (a - 1) + Executed(m) /\ Executed(m) \in {0, 1, 2}
        BY <2>2, <3>2 DEF SendsInv, Sending, Executed
      <4> QED
        BY <4>1
    <3> QED
      BY <3>1, <3>2
  <2> QED
    BY <2>1, <2>2, <2>3
<1>6. SendsBounded
  BY <1>5 DEF SendsBounded
<1> QED
  BY <1>1, <1>2, <1>3, <1>4, <1>6 DEF SendInv, TypeOK

\* However connections break, time out, are reset by another call and are
\* replayed, and whatever callbacks come in, a message that is stored as sent
\* was executed by the server, at most twice for each attempt it counts
\* (_dispatch_with_retry, call_tool, _invoke).
THEOREM SendCorrect == Spec => []SendInv
<1> QED
  BY SendsInit, SendsNext, SendsCorrect, PTL DEF Spec

-----------------------------------------------------------------------------

\* What a row may do in one step (StatusForward).
Forward == \A m \in Msgs : \/ row'[m].status = row[m].status
                           \/ row[m].status = "none"
                           \/ row'[m].status \in Allowed[row[m].status]

LEMMA AllowedIs ==
    /\ "sending" \in Allowed["queued"]
    /\ "sent" \in Allowed["sending"] /\ "failed" \in Allowed["sending"]
BY DEF Allowed

\* Callbacks come one by one, and name their message by the provider's id.
OneByOne == (\A j, k \in Callbacks : j = k) /\ Refs \subseteq {"provider"}

\* Where a row has the provider's id, its send has ended, so the row that a
\* callback holds is not written by a step of a send.
LEMMA SendNotFound ==
    ASSUME ForwardInv, NEW m \in Msgs, sender[m].at # "done", NEW k \in Callbacks,
           callback[k].at = "found"
    PROVE  row[m].prov # TRUE /\ callback[k].msg # m
BY DEF ForwardInv, Settled, Current

\* A step of a send that leaves its row settled, and its status going forward.
LEMMA SendForward ==
    ASSUME SendsInv, ForwardInv, NEW m \in Msgs, sender[m].at # "done",
           NEW r \in RowRecord, NEW s \in SendRecord, Writes(m, r, s), callback' = callback,
           Settled(m)',
           \/ r.status = row[m].status
           \/ row[m].status = "none"
           \/ r.status \in Allowed[row[m].status]
    PROVE  ForwardInv' /\ Forward
<1>1. row'[m] = r /\ \A n \in Msgs \ {m} : row'[n] = row[n] /\ sender'[n] = sender[n]
  BY DEF Writes, SendStays
<1>2. ASSUME NEW n \in Msgs, n # m PROVE Settled(n)'
  BY <1>1, <1>2 DEF ForwardInv, Settled
<1>3. ASSUME NEW k \in Callbacks PROVE Current(k)'
  <2>1. CASE callback[k].at = "found"
    <3>1. callback[k].msg # m /\ callback[k].msg \in Msgs
      BY <2>1, SendNotFound DEF SendsInv, Answering
    <3> QED
      BY <1>1, <3>1 DEF ForwardInv, Current
  <2> QED
    BY <2>1 DEF Current
<1>4. Forward
  BY <1>1 DEF Forward
<1> QED
  BY <1>2, <1>3, <1>4 DEF ForwardInv

LEMMA SendStepForward ==
    ASSUME SendsInv, ForwardInv, NEW m \in Msgs, SendStep(m)
    PROVE  ForwardInv' /\ Forward
<1>1. MsgShape
  BY DEF SendsInv
<1>2. callback' = callback
  BY DEF SendStep, SendResolves, SendOpens, RenderFails, Queues, GatewaySend, GatewayFailed,
         Sent, Exhausted
<1>3. Settled(m) /\ row[m] \in RowRecord
  BY <1>1 DEF ForwardInv, MsgShape
<1>4. CASE SendResolves(m) \/ SendOpens(m) \/ RenderFails(m)
  <2>1. PICK s \in SendRecord :
           /\ Writes(m, row[m], s) /\ sender[m].at \in {"idle", "opening", "resolved"}
           /\ s.at \in {"opening", "resolved", "unsent"}
    BY <1>1, <1>4, WaitsFacts
  <2>2. Settled(m)'
    BY <1>3, <2>1 DEF Writes, Settled
  <2> QED
    BY <1>2, <1>3, <2>1, <2>2, SendForward
<1>5. CASE Queues(m)
  <2>1. PICK r \in RowRecord, s \in SendRecord :
           /\ Writes(m, r, s) /\ s.at = "queued" /\ s.copy = r /\ sender[m].at = "resolved"
           /\ r.prov = FALSE
    BY <1>1, <1>5, QueuesFacts
  <2>2. Settled(m)'
    BY <2>1 DEF Writes, Settled
  <2>3. row[m].status = "none"
    BY <2>1, NoRowRecord DEF SendsInv, Sending, Unsent
  <2> QED
    BY <1>2, <2>1, <2>2, <2>3, SendForward
<1>6. CASE GatewaySend(m)
  <2>1. sender[m].at = "queued"
    BY <1>6 DEF GatewaySend
  <2>2. sender[m].copy.attempts = 0 /\ row[m].status = "queued"
    BY <2>1 DEF SendsInv, Sending, Unsent
  <2>3. PICK r \in RowRecord, s \in SendRecord :
           /\ Writes(m, r, s) /\ s.at = "calling"
           /\ r.status = "sending" /\ r.prov = sender[m].copy.prov
           /\ s.copy.prov = sender[m].copy.prov
    BY <1>1, <1>6, <2>2, GatewaySendFacts
  <2>4. Settled(m)'
    BY <1>3, <2>1, <2>3 DEF Writes, Settled
  <2>5. r.status \in Allowed[row[m].status]
    BY <2>2, <2>3, AllowedIs
  <2> QED
    BY <1>2, <2>1, <2>3, <2>4, <2>5, SendForward
<1>7. CASE GatewayFailed(m)
  <2>1. PICK s \in SendRecord :
           /\ sender[m].copy \in RowRecord /\ Writes(m, sender[m].copy, s)
           /\ sender[m].at = "calling" /\ s.at \in {"calling", "exhausted"}
           /\ s.copy.prov = sender[m].copy.prov
    BY <1>1, <1>7, GatewayFailedFacts
  <2>2. sender[m].copy.status = "sending" /\ sender[m].copy.prov = FALSE /\ row[m].status = "sending"
    BY <1>3, <2>1 DEF SendsInv, Sending, Settled
  <2>3. Settled(m)'
    BY <2>1, <2>2 DEF Writes, Settled
  <2> QED
    BY <1>2, <2>1, <2>2, <2>3, SendForward
<1>8. CASE Sent(m) \/ Exhausted(m)
  <2>1. PICK r \in RowRecord, s \in SendRecord :
           /\ Writes(m, r, s) /\ s.at = "done"
           /\ sender[m].at \in {"calling", "exhausted"} /\ r.status \in {"sent", "failed"}
    BY <1>1, <1>8, EndsFacts
  <2>2. Settled(m)'
    BY <2>1 DEF Writes, Settled
  <2>3. row[m].status = "sending"
    BY <1>3, <2>1 DEF Settled
  <2>4. r.status \in Allowed[row[m].status]
    BY <2>1, <2>3, AllowedIs
  <2> QED
    BY <1>2, <2>1, <2>2, <2>4, SendForward
<1> QED
  BY <1>4, <1>5, <1>6, <1>7, <1>8 DEF SendStep

\* A callback finds a row with the provider's id, and holds it as it is.
LEMMA CallbackFindsForward ==
    ASSUME OneByOne, SendsInv, ForwardInv, NEW k \in Callbacks, CallbackFinds(k)
    PROVE  ForwardInv' /\ Forward
<1>1. PICK q \in CallbackRecord :
         /\ callback'[k] = q /\ q.msg \in Msgs /\ Findable(q.msg) /\ q.copy = row[q.msg]
  BY CallbackFindsFacts DEF SendsInv
<1>2. row' = row /\ sender' = sender
  BY DEF CallbackFinds
<1>3. row[q.msg].prov
  BY <1>1 DEF Findable, OneByOne
<1>4. ASSUME NEW j \in Callbacks PROVE Current(j)'
  <2>1. j = k
    BY DEF OneByOne
  <2> QED
    BY <1>1, <1>2, <1>3, <2>1 DEF Current
<1>5. ASSUME NEW m \in Msgs PROVE Settled(m)'
  BY <1>2 DEF ForwardInv, Settled
<1>6. Forward
  BY <1>2 DEF Forward
<1> QED
  BY <1>4, <1>5, <1>6 DEF ForwardInv

\* A callback checks the row that is stored, and saves it.
LEMMA CallbackSavesForward ==
    ASSUME OneByOne, SendsInv, ForwardInv, NEW k \in Callbacks, CallbackSaves(k)
    PROVE  ForwardInv' /\ Forward
<1>1. callback[k].at = "found" /\ callback'[k].at = "idle"
  BY CallbackSavesFacts DEF SendsInv
<1>2. sender' = sender
  BY DEF CallbackSaves
<1>3. ASSUME NEW j \in Callbacks PROVE Current(j)'
  <2>1. j = k
    BY DEF OneByOne
  <2> QED
    BY <1>1, <2>1 DEF Current
<1>4. CASE row' = row
  BY <1>2, <1>3, <1>4 DEF ForwardInv, Settled, Forward
<1>5. ASSUME CanTransition(callback[k].copy.status, callback[k].status),
             NEW r \in RowRecord, row' = [row EXCEPT ![callback[k].msg] = r],
             r.status = callback[k].status, r.prov = callback[k].copy.prov
      PROVE  ForwardInv' /\ Forward
  <2>1. PICK m \in Msgs : m = callback[k].msg /\ callback[k].copy = row[m] /\ row[m].prov
    BY <1>1 DEF SendsInv, Answering, ForwardInv, Current
  <2>2. row'[m] = r /\ \A n \in Msgs \ {m} : row'[n] = row[n]
    BY <1>5, <2>1 DEF SendsInv, MsgShape
  <2>3. sender[m].at = "done"
    BY <2>1 DEF ForwardInv, Settled
  <2>4. ASSUME NEW n \in Msgs PROVE Settled(n)'
    <3>1. CASE n = m
      BY <1>2, <2>3, <3>1 DEF Settled
    <3>2. CASE n # m
      BY <1>2, <2>2, <3>2 DEF ForwardInv, Settled
    <3> QED
      BY <3>1, <3>2
  <2>5. r.status = row[m].status \/ r.status \in Allowed[row[m].status]
    BY <1>5, <2>1 DEF CanTransition
  <2>6. Forward
    BY <2>2, <2>5 DEF Forward
  <2> QED
    BY <1>3, <2>4, <2>6 DEF ForwardInv
<1> QED
  BY <1>4, <1>5, CallbackSavesFacts DEF SendsInv

LEMMA ForwardInit == Init => ForwardInv
<1> SUFFICES ASSUME Init PROVE ForwardInv
  OBVIOUS
<1>1. /\ row = [m \in Msgs |-> NoRow]
      /\ sender = [m \in Msgs |-> [at |-> "idle", copy |-> NoRow]]
      /\ callback = [k \in Callbacks |-> NoCallback]
  BY DEF Init, MsgInit
<1> QED
  BY <1>1, NoRowRecord, NoCallbackRecord DEF ForwardInv, Settled, Current

LEMMA ForwardNext ==
    ASSUME OneByOne PROVE SendsInv /\ ForwardInv /\ [Next]_vars => ForwardInv' /\ Forward
<1> SUFFICES ASSUME SendsInv, ForwardInv, [Next]_vars PROVE ForwardInv' /\ Forward
  OBVIOUS
<1>1. CASE UNCHANGED msgVars
  <2>1. row' = row /\ sender' = sender /\ callback' = callback
    BY <1>1 DEF msgVars
  <2> QED
    BY <2>1 DEF ForwardInv, Settled, Current, Forward
<1>2. ASSUME NEW m \in Msgs, SendStep(m) PROVE ForwardInv' /\ Forward
  BY <1>2, SendStepForward
<1>3. ASSUME NEW k \in Callbacks, CallbackFinds(k) \/ CallbackSaves(k) PROVE ForwardInv' /\ Forward
  BY <1>3, CallbackFindsForward, CallbackSavesForward
<1>4. \/ UNCHANGED msgVars
      \/ \E m \in Msgs : SendStep(m)
      \/ \E k \in Callbacks : CallbackFinds(k) \/ CallbackSaves(k)
  BY DEF Next, vars, msgVars, Client, OutsideClient
<1> QED
  BY <1>1, <1>2, <1>3, <1>4

\* A row moves only along _ALLOWED_TRANSITIONS, for any number of messages,
\* attempts and faults, while callbacks come one by one and name their message
\* by the provider's id: the row has that id only once its send has ended, so
\* the copy that a callback checks is the row it writes (update_delivery_status).
THEOREM ForwardCorrect == ASSUME OneByOne PROVE Spec => StatusForward
<1>1. SendsInv /\ ForwardInv /\ [Next]_vars => ForwardInv' /\ [Forward]_msgVars
  BY ForwardNext
<1>2. [Forward]_msgVars =>
         [\A m \in Msgs : \/ row'[m].status = row[m].status
                          \/ row[m].status = "none"
                          \/ row'[m].status \in Allowed[row[m].status]]_msgVars
  BY DEF Forward
<1> QED
  BY SendsInit, SendsNext, ForwardInit, <1>1, <1>2, PTL DEF Spec, StatusForward


-----------------------------------------------------------------------------
(***************************************************************************)
(* Why a send is given up.  An attempt of a call closes the connections of *)
(* others at most once, before its replay: then it is spent.  The failed   *)
(* attempts of a message are at most the faults and the spent attempts of  *)
(* other calls, and where its replay has lost its connection again, one of *)
(* these is there already for the failure to come (Stranded).              *)
(***************************************************************************)

\* An attempt that has yet to see its connection gone
Fresh(c) == call[c].at \in {"connect", "entering", "sent", "taken"} /\ call[c].replay = FALSE

Spent(c) == AttemptsOf(c) - (IF Fresh(c) THEN 1 ELSE 0)

Numbers == 1..MaxSends + MaxTries

SpentBeside(m) == {a \in (Calls \ {m}) \X Numbers : a[2] <= Spent(a[1])}

Causes(m) == faults + Cardinality(SpentBeside(m))

\* The replay of a call has lost its connection, or will use one that is lost.
Stranded(m) ==
    /\ call[m].replay = TRUE
    /\ \/ call[m].at = "connect" /\ client # 0 /\ client \notin open
       \/ call[m].at \in {"sent", "taken"} /\ call[m].gen \notin open

Broken(m) == call[m].at = "failed" \/ Stranded(m)

\* The attempts of a message that failed, or will
Failures(m) ==
    IF sender[m].at = "exhausted" THEN MaxSends
    ELSE IF sender[m].at # "calling" THEN 0
    ELSE sender[m].copy.attempts - (IF Broken(m) THEN 0 ELSE 1)

Numbered == \A c \in Calls : call[c].at = "idle" <=> call[c].try = 0

CauseInv ==
    /\ SendsInv
    /\ Numbered
    /\ \A m \in Msgs : Failures(m) <= Causes(m)

\* There are finitely many attempts.
LEMMA AttemptsFinite == ASSUME NEW m PROVE IsFiniteSet((Calls \ {m}) \X Numbers)
<1>1. IsFiniteSet(Calls \ {m})
  BY McpConstants, FS_Subset
<1>2. IsFiniteSet(Numbers)
  BY McpConstants, MessageConstants, FS_Interval DEF Numbers
<1> QED
  BY <1>1, <1>2, FS_Product

\* The attempts of a call are numbered, and one of them at most is not spent.
LEMMA SpentNumber ==
    ASSUME SendsInv, Numbered, NEW c \in Calls
    PROVE  /\ AttemptsOf(c) \in 0..MaxSends + MaxTries
           /\ Fresh(c) => AttemptsOf(c) > 0
           /\ Spent(c) \in 0..MaxSends + MaxTries /\ Spent(c) <= AttemptsOf(c)
           /\ Fresh(c) => Spent(c) + 1 = AttemptsOf(c)
<1>1. MaxSends \in Nat /\ MaxTries \in Nat
  BY McpConstants, MessageConstants
<1>2. AttemptsOf(c) \in 0..MaxSends + MaxTries /\ (Fresh(c) => AttemptsOf(c) > 0)
  <2>1. CASE c \in Msgs
    <3>1. sender[c].copy.attempts \in 0..MaxSends
      BY <2>1 DEF SendsInv, MsgShape, SendRecord, RowRecord
    <3>2. Fresh(c) => sender[c].copy.attempts \in 1..MaxSends
      BY <2>1 DEF SendsInv, Sending, Fresh, Unsent
    <3> QED
      BY <1>1, <2>1, <3>1, <3>2 DEF AttemptsOf
  <2>2. CASE c \notin Msgs
    <3>1. call[c].try \in 0..MaxTries
      BY DEF SendsInv, ClientShape, CallRecord
    <3>2. Fresh(c) => call[c].try # 0
      BY DEF Numbered, Fresh
    <3> QED
      BY <1>1, <2>2, <3>1, <3>2 DEF AttemptsOf
  <2> QED
    BY <2>1, <2>2
<1> QED
  BY <1>1, <1>2 DEF Spent

\* No attempt of a call that was spent is unspent.
Advances(c) == Spent(c)' \in Int /\ Spent(c) <= Spent(c)'

Spends(c) == Fresh(c) /\ Spent(c) < Spent(c)'

\* The causes only grow, and by one when another call spends an attempt.
LEMMA CausesGrow ==
    ASSUME SendsInv, Numbered, ClientShape', NEW m \in Msgs,
           faults <= faults', \A c \in Calls \ {m} : Advances(c)
    PROVE  /\ Causes(m) \in Nat /\ Causes(m)' \in Nat /\ Causes(m) <= Causes(m)'
           /\ faults < faults' \/ (\E c \in Calls \ {m} : Spends(c)) => Causes(m) + 1 <= Causes(m)'
<1> DEFINE All == (Calls \ {m}) \X Numbers
<1>1. PICK S : S = SpentBeside(m)
  OBVIOUS
<1>2. PICK T : T = SpentBeside(m)'
  OBVIOUS
<1>3. \A c \in Calls : Spent(c) \in Int
  BY McpConstants, MessageConstants, SpentNumber
<1>4. \A c \in Calls \ {m} : Spent(c) \in Int /\ Spent(c)' \in Int /\ Spent(c) <= Spent(c)'
  BY <1>3 DEF Advances
<1>5. S \subseteq T /\ T \subseteq All
  <2>1. S = {a \in All : a[2] <= Spent(a[1])} /\ T = {a \in All : a[2] <= Spent(a[1])'}
    BY <1>1, <1>2 DEF SpentBeside
  <2>2. ASSUME NEW a \in All, a[2] <= Spent(a[1]) PROVE a[2] <= Spent(a[1])'
    <3>1. a[1] \in Calls \ {m} /\ a[2] \in Int
      BY McpConstants, MessageConstants DEF Numbers
    <3> QED
      BY <1>4, <2>2, <3>1
  <2> QED
    BY <2>1, <2>2
<1>6. IsFiniteSet(T) /\ Cardinality(S) \in Nat /\ Cardinality(T) \in Nat
      /\ Cardinality(S) <= Cardinality(T)
  BY <1>5, AttemptsFinite, FS_Subset, FS_CardinalityType
<1>7. faults \in Nat /\ faults' \in Nat
  BY McpConstants DEF SendsInv, ClientShape
<1>8. ASSUME NEW c \in Calls \ {m}, Spends(c) PROVE Cardinality(S) < Cardinality(T)
  <2>1. PICK k \in 1..MaxSends + MaxTries : k = Spent(c) + 1
    BY <1>8, SpentNumber, McpConstants, MessageConstants DEF Spends
  <2>2. k \in Numbers /\ ~(k <= Spent(c)) /\ k <= Spent(c)'
    BY <1>4, <1>8, <2>1 DEF Numbers, Spends
  <2>3. <<c, k>> \in T /\ <<c, k>> \notin S
    BY <1>1, <1>2, <2>2 DEF SpentBeside
  <2>4. Cardinality(S) # Cardinality(T)
    BY <1>5, <1>6, <2>3, FS_Subset
  <2> QED
    BY <1>6, <2>4
<1>9. Causes(m) = faults + Cardinality(S) /\ Causes(m)' = faults' + Cardinality(T)
  BY <1>1, <1>2 DEF Causes
<1> QED
  BY <1>6, <1>7, <1>8, <1>9

\* A call that did not move, and whose attempts are what they were
LEMMA RestsAdvance ==
    ASSUME SendsInv, Numbered, NEW c \in Calls,
           call'[c].at = call[c].at, call'[c].try = call[c].try, call'[c].replay = call[c].replay,
           c \in Msgs => sender'[c] = sender[c]
    PROVE  Advances(c) /\ Spent(c)' = Spent(c)
<1>1. Spent(c)' = Spent(c)
  BY DEF Spent, AttemptsOf, Fresh
<1> QED
  BY <1>1, SpentNumber, McpConstants, MessageConstants DEF Advances

\* A step of the client spends an attempt only where it closes the connections.
LEMMA MovesAdvance ==
    ASSUME SendsInv, Numbered, NEW c \in Calls, CallMoves(c), sender' = sender
    PROVE  /\ \A d \in Calls : Advances(d)
           /\ Closes(c) => Spends(c)
           /\ Numbered'
<1>1. ASSUME NEW d \in Calls \ {c} PROVE Advances(d) /\ (call'[d].at = "idle" <=> call'[d].try = 0)
  BY <1>1, RestsAdvance DEF CallMoves, OthersStay, Numbered
<1>2. PICK t \in Nat, a \in Int, s \in Int :
         /\ t = call[c].try /\ a = AttemptsOf(c) /\ s = Spent(c) /\ s <= a
         /\ s = a - (IF Fresh(c) THEN 1 ELSE 0)
  <2>1. call[c].try \in Nat
    BY McpConstants DEF SendsInv, ClientShape, CallRecord
  <2>2. AttemptsOf(c) \in Int /\ Spent(c) \in Int /\ Spent(c) <= AttemptsOf(c)
    BY SpentNumber, McpConstants, MessageConstants
  <2> QED
    BY <2>1, <2>2 DEF Spent
<1>3. call[c].at # "idle" /\ call'[c].at # "idle" /\ t # 0
  BY <1>2 DEF CallMoves, Proceeds, Executes, Succeeds, Breaks, Closes, Restarts, Awaits, Numbered
<1>4. CASE ~Breaks(c)
  <2>1. call'[c].try = t /\ (Fresh(c)' => Fresh(c))
    BY <1>2, <1>4 DEF CallMoves, Proceeds, Executes, Succeeds, Closes, Restarts, Fresh
  <2>2. AttemptsOf(c)' = a
    BY <1>2, <2>1 DEF AttemptsOf
  <2>3. Spent(c)' = a - (IF Fresh(c)' THEN 1 ELSE 0)
    BY <2>2 DEF Spent
  <2>4. Advances(c)
    BY <1>2, <2>1, <2>3 DEF Advances
  <2>5. ASSUME Closes(c) PROVE Fresh(c) /\ ~Fresh(c)'
    BY <2>5 DEF Closes, Fresh
  <2> QED
    BY <1>1, <1>2, <1>3, <2>1, <2>3, <2>4, <2>5 DEF Numbered, Spends
<1>5. CASE Breaks(c)
  <2>1. ~Closes(c)
    BY <1>5 DEF Breaks, Closes
  <2>2. CASE c \in Msgs
    <3>1. call[c].try = 1 /\ Attempts(c) = 1
      BY <1>5, <2>2, UnderWay DEF SendsInv, Breaks
    <3>2. call'[c].at = "failed" /\ call'[c].try = 1
      BY <1>5, <3>1 DEF Breaks
    <3>3. Spent(c)' = a
      BY <1>2, <2>2, <3>2 DEF Spent, AttemptsOf, Fresh
    <3>4. Advances(c)
      BY <1>2, <3>3 DEF Advances
    <3>5. call'[c].at # "idle" /\ call'[c].try # 0
      BY <3>2
    <3> QED
      BY <1>1, <2>1, <3>4, <3>5 DEF Numbered
  <2>3. CASE c \notin Msgs
    <3>1. a = t
      BY <1>2, <2>3 DEF AttemptsOf
    <3>2. \/ call'[c].at = "failed" /\ call'[c].try = t
          \/ call'[c].at = "connect" /\ call'[c].try = t + 1 /\ call'[c].replay = FALSE
      BY <1>2, <1>5 DEF Breaks
    <3>3. Spent(c)' = t /\ call'[c].try # 0
      BY <1>2, <1>3, <2>3, <3>2 DEF Spent, AttemptsOf, Fresh
    <3> QED
      BY <1>1, <1>2, <1>3, <2>1, <3>1, <3>3 DEF Numbered, Advances
  <2> QED
    BY <2>2, <2>3
<1> QED
  BY <1>4, <1>5

\* A fault is one more.
LEMMA FaultMore == ASSUME ClientShape, Fault PROVE faults < faults'
BY McpConstants DEF ClientShape, Fault

\* A message that another call's step leaves alone: while that closes no
\* connection, its replay is as well off as before.
LEMMA BesideBroken ==
    ASSUME ClientShape, NEW m, call'[m].at = call[m].at, call'[m].replay = call[m].replay,
           call'[m].gen = call[m].gen, client' \in {client, 0} \cup open', open \subseteq open', Broken(m)'
    PROVE  Broken(m)
BY DEF Broken, Stranded

\* A message's replay loses its connection only to a fault or to another call
\* that closes it.
LEMMA StepBroken ==
    ASSUME SendsInv, NEW c \in Calls, McpStep(c) \/ McpFault(c), NEW m \in Msgs, Broken(m)'
    PROVE  Broken(m) \/ faults < faults' \/ (m # c /\ Closes(c))
<1>1. ClientShape /\ ClientShape' /\ CallMoves(c) /\ m \in Calls
  BY ClientMoves, MessageConstants DEF SendsInv
<1>2. CASE McpFault(c)
  BY <1>1, <1>2, FaultMore DEF McpFault, Refused, TimesOut, ConnectFails
<1>3. CASE m # c /\ McpStep(c)
  <2>1. call'[m].at = call[m].at /\ call'[m].replay = call[m].replay /\ call'[m].gen = call[m].gen
    BY <1>1, <1>3 DEF CallMoves, OthersStay
  <2>2. CASE Disconnected(c) /\ call[c].replay = FALSE
    <3>1. Closes(c)
      <4>1. call'[c].at = "resetting"
        BY <1>1, <2>2 DEF Disconnected, ClientShape, CallRecord
      <4> QED
        BY <1>1, <4>1 DEF CallMoves, Proceeds, Executes, Succeeds, Breaks, Restarts
    <3> QED
      BY <1>3, <3>1
  <2>3. CASE ~(Disconnected(c) /\ call[c].replay = FALSE)
    <3>1. call[c].replay \in BOOLEAN
      BY <1>1 DEF ClientShape, CallRecord
    <3>2. client' \in {client, 0} \cup open' /\ open \subseteq open'
      BY <1>3, <2>3, <3>1 DEF McpStep, EnsureConnected, Connected, Taken, Answered, Disconnected,
                              ResetConnection, ForgetClient
    <3> QED
      BY <1>1, <2>1, <3>2, BesideBroken
  <2> QED
    BY <2>2, <2>3
<1>4. CASE m = c /\ McpStep(c)
  <2>1. call[m].at \in Awaits \cup {"connect"}
    BY <1>1, <1>4 DEF CallMoves, Proceeds, Executes, Succeeds, Breaks, Closes, Restarts, Awaits
  <2>2. call[m].try = 1 /\ Attempts(m) = 1
    BY <2>1, UnderWay DEF SendsInv
  <2>3. PICK o \in CallRecord : o = call[m]
    BY <1>1 DEF ClientShape
  <2>4. CASE EnsureConnected(m)
    <3>1. CASE client = 0
      <4>1. call'[m].at = "entering"
        BY <1>1, <2>3, <2>4, <3>1 DEF EnsureConnected, ClientShape, CallRecord
      <4> QED
        BY <4>1 DEF Broken, Stranded
    <3>2. CASE client # 0
      <4>1. call'[m].at = "sent" /\ call'[m].gen = client /\ call'[m].replay = call[m].replay
            /\ call[m].at = "connect" /\ open' = open
        BY <1>1, <2>3, <2>4, <3>2 DEF EnsureConnected, ClientShape, CallRecord
      <4> QED
        BY <3>2, <4>1 DEF Broken, Stranded
    <3> QED
      BY <3>1, <3>2
  <2>5. CASE Connected(m)
    <3>1. call'[m].at = "sent" /\ call'[m].gen = client' /\ client' \in open'
      BY <1>1, <2>3, <2>5 DEF Connected, ClientShape, CallRecord
    <3> QED
      BY <3>1 DEF Broken, Stranded
  <2>6. CASE Taken(m)
    <3>1. call'[m].at = "taken" /\ call'[m].gen \in open'
      BY <1>1, <2>3, <2>6 DEF Taken, At, ClientShape, CallRecord
    <3> QED
      BY <3>1 DEF Broken, Stranded
  <2>7. CASE Answered(m)
    <3>1. call'[m].at = "ok"
      BY <1>1, <2>7, IdleRecord DEF Answered, ClientShape, Idle
    <3> QED
      BY <3>1 DEF Broken, Stranded
  <2>8. CASE Disconnected(m)
    <3>1. CASE call[m].replay
      BY <2>8, <3>1 DEF Disconnected, Severed, Broken, Stranded
    <3>2. CASE ~call[m].replay
      <4>1. call'[m].at = "resetting"
        BY <1>1, <2>3, <2>8, <3>2 DEF Disconnected, ClientShape, CallRecord
      <4> QED
        BY <4>1 DEF Broken, Stranded
    <3> QED
      BY <3>1, <3>2
  <2>9. CASE ResetConnection(m)
    <3>1. call'[m].at = "connect" /\ client' = 0
      BY <1>1, <2>3, <2>9 DEF ResetConnection, ForgetClient, Replayed, CallRecord
    <3> QED
      BY <3>1 DEF Broken, Stranded
  <2> QED
    BY <1>4, <2>4, <2>5, <2>6, <2>7, <2>8, <2>9 DEF McpStep
<1> QED
  BY <1>2, <1>3, <1>4

\* The failures of a message are counted in numbers.
LEMMA FailuresNumber ==
    ASSUME SendsInv, NEW m \in Msgs
    PROVE  /\ Failures(m) \in Int
           /\ sender[m].at = "calling" =>
                 sender[m].copy.attempts \in Int /\ sender[m].copy.attempts >= 1
BY MessageConstants DEF Failures, SendsInv, MsgShape, SendRecord, RowRecord, Sending, Unsent

\* Steps that leave the senders alone
LEMMA ClientCharged ==
    ASSUME CauseInv, SendsInv', Numbered', sender' = sender, faults <= faults',
           \A c \in Calls : Advances(c),
           \A m \in Msgs : Broken(m)' => \/ Broken(m) \/ faults < faults'
                                         \/ \E c \in Calls \ {m} : Spends(c)
    PROVE  CauseInv'
<1>1. ASSUME NEW m \in Msgs PROVE Failures(m)' <= Causes(m)'
  <2>1. /\ Causes(m) \in Nat /\ Causes(m)' \in Nat /\ Causes(m) <= Causes(m)'
        /\ faults < faults' \/ (\E c \in Calls \ {m} : Spends(c)) => Causes(m) + 1 <= Causes(m)'
    BY CausesGrow DEF CauseInv, SendsInv
  <2>2. Failures(m) <= Causes(m) /\ Failures(m) \in Int
    BY FailuresNumber DEF CauseInv
  <2>3. CASE sender[m].at # "calling"
    <3>1. Failures(m)' = Failures(m)
      BY <2>3 DEF Failures
    <3> QED
      BY <2>1, <2>2, <3>1
  <2>4. CASE sender[m].at = "calling"
    <3>1. PICK a \in Int : a = sender[m].copy.attempts
      BY <2>4, FailuresNumber DEF CauseInv
    <3>2. /\ Failures(m) = a - (IF Broken(m) THEN 0 ELSE 1)
          /\ Failures(m)' = a - (IF Broken(m)' THEN 0 ELSE 1)
      BY <2>4, <3>1 DEF Failures
    <3>3. Broken(m)' => Broken(m) \/ Causes(m) + 1 <= Causes(m)'
      BY <2>1
    <3> QED
      BY <2>1, <2>2, <3>1, <3>2, <3>3
  <2> QED
    BY <2>3, <2>4
<1> QED
  BY <1>1 DEF CauseInv

\* The client's steps, a call that begins, and a lost connection
LEMMA ClientCauses ==
    ASSUME CauseInv, OutsideClient,
           \/ \E c \in Calls : McpStep(c) \/ McpFault(c) \/ OtherCall(c)
           \/ \E g \in open : Drops(g)
    PROVE  CauseInv'
<1>1. SendsInv /\ ClientShape /\ Numbered /\ SendsInv' /\ ClientShape' /\ sender' = sender
  BY ClientInv DEF CauseInv, SendsInv, OutsideClient, msgVars
<1>2. ASSUME NEW c \in Calls, McpStep(c) \/ McpFault(c) PROVE CauseInv'
  <2>1. CallMoves(c)
    BY <1>1, <1>2, ClientMoves
  <2>2. (\A d \in Calls : Advances(d)) /\ (Closes(c) => Spends(c)) /\ Numbered'
    BY <1>1, <2>1, MovesAdvance
  <2>3. faults <= faults'
    <3>1. faults \in Int
      BY <1>1, McpConstants DEF ClientShape
    <3>2. CASE McpStep(c)
      <4>1. faults' = faults
        BY <3>2 DEF McpStep, EnsureConnected, Connected, Taken, Answered, Disconnected, ResetConnection
      <4> QED
        BY <3>1, <4>1
    <3>3. CASE McpFault(c)
      <4>1. Fault
        BY <3>3 DEF McpFault, Refused, TimesOut, ConnectFails
      <4> QED
        BY <3>1, <4>1 DEF Fault
    <3> QED
      BY <1>2, <3>2, <3>3
  <2>4. ASSUME NEW m \in Msgs, Broken(m)'
        PROVE  Broken(m) \/ faults < faults' \/ \E d \in Calls \ {m} : Spends(d)
    <3>1. Broken(m) \/ faults < faults' \/ (m # c /\ Closes(c))
      BY <1>1, <1>2, <2>4, StepBroken
    <3> QED
      BY <2>2, <3>1
  <2> QED
    BY <1>1, <2>2, <2>3, <2>4, ClientCharged
<1>3. ASSUME NEW c \in Calls, OtherCall(c) PROVE CauseInv'
  <2>1. /\ c \notin Msgs /\ call[c].at = "idle" /\ CallTool(c)
        /\ UNCHANGED <<client, stack, open, taken, faults>>
    BY <1>3 DEF OtherCall
  <2>2. /\ OthersStay(c)
        /\ call'[c].at = "connect" /\ call'[c].try = 1 /\ call'[c].replay = FALSE
    BY <1>1, <2>1, CallToolMoves
  <2>3. Spent(c) = 0 /\ Spent(c)' = 0
    BY <1>1, <2>1, <2>2 DEF Spent, AttemptsOf, Fresh, Numbered
  <2>4. ASSUME NEW d \in Calls PROVE Advances(d) /\ (call'[d].at = "idle" <=> call'[d].try = 0)
    <3>1. CASE d = c
      BY <2>2, <2>3, <3>1 DEF Advances
    <3>2. CASE d # c
      BY <1>1, <2>2, <3>2, RestsAdvance DEF OthersStay, Numbered
    <3> QED
      BY <3>1, <3>2
  <2>5. ASSUME NEW m \in Msgs, Broken(m)' PROVE Broken(m)
    <3>1. m \in Calls \ {c}
      BY <2>1, MessageConstants
    <3> QED
      BY <1>1, <2>1, <2>2, <2>5, <3>1, BesideBroken DEF OthersStay
  <2>6. faults \in Int
    BY <1>1, McpConstants DEF ClientShape
  <2>7. Numbered' /\ faults <= faults'
    BY <2>1, <2>4, <2>6 DEF Numbered
  <2> QED
    BY <1>1, <2>4, <2>5, <2>7, ClientCharged
<1>4. ASSUME NEW g \in open, Drops(g) PROVE CauseInv'
  <2>1. call' = call /\ faults < faults'
    BY <1>1, <1>4, DropsShape, FaultMore DEF Drops
  <2>2. faults \in Int /\ faults' \in Int
    BY <1>1, McpConstants DEF ClientShape
  <2>3. Numbered' /\ \A d \in Calls : Advances(d)
    BY <1>1, <2>1, RestsAdvance DEF Numbered
  <2> QED
    BY <1>1, <2>1, <2>2, <2>3, ClientCharged
<1> QED
  BY <1>2, <1>3, <1>4

\* A step of one send: the others' failures are what they were.
LEMMA SendCharged ==
    ASSUME CauseInv, SendsInv', NEW m \in Msgs, UNCHANGED <<client, open, faults>>, OthersStay(m),
           \A n \in Msgs \ {m} : sender'[n] = sender[n],
           Advances(m), call'[m].at = "idle" <=> call'[m].try = 0,
           Failures(m)' \in {0, Failures(m)}
    PROVE  CauseInv'
<1>1. SendsInv /\ Numbered /\ ClientShape' /\ Msgs \subseteq Calls
  BY MessageConstants DEF CauseInv, SendsInv
<1>2. ASSUME NEW d \in Calls PROVE Advances(d) /\ (call'[d].at = "idle" <=> call'[d].try = 0)
  <2>1. CASE d # m
    BY <1>1, <2>1, RestsAdvance DEF OthersStay, Numbered
  <2> QED
    BY <2>1
<1>3. faults \in Int /\ faults <= faults'
  BY <1>1, McpConstants DEF SendsInv, ClientShape
<1>4. ASSUME NEW n \in Msgs PROVE Failures(n)' <= Causes(n)'
  <2>1. Causes(n) \in Nat /\ Causes(n)' \in Nat /\ Causes(n) <= Causes(n)'
    BY <1>1, <1>2, <1>3, CausesGrow
  <2>2. Failures(n) \in Int /\ Failures(n) <= Causes(n)
    BY <1>1, FailuresNumber DEF CauseInv
  <2>3. Failures(n)' \in {0, Failures(n)}
    <3>1. CASE n # m
      <4>1. Broken(n)' <=> Broken(n)
        BY <1>1, <3>1 DEF Broken, Stranded, OthersStay
      <4> QED
        BY <3>1, <4>1 DEF Failures
    <3> QED
      BY <3>1
  <2> QED
    BY <2>1, <2>2, <2>3
<1>5. Numbered'
  BY <1>2 DEF Numbered
<1> QED
  BY <1>4, <1>5 DEF CauseInv

\* A send that waits, stores its message, or ends: its call rests.
LEMMA RestingSendCauses ==
    ASSUME CauseInv, SendsInv', NEW m \in Msgs,
           \/ SendResolves(m) \/ SendOpens(m) \/ RenderFails(m) \/ Queues(m)
           \/ Sent(m) \/ Exhausted(m)
    PROVE  CauseInv'
<1>1. SendsInv /\ Numbered /\ m \in Calls
  BY MessageConstants DEF CauseInv
<1>2. /\ call' = call /\ client' = client /\ open' = open /\ faults' = faults
  BY DEF SendResolves, SendOpens, RenderFails, Queues, Sent, Exhausted, mcpVars
<1>3. /\ \A n \in Msgs \ {m} : sender'[n] = sender[n]
      /\ sender'[m].copy.attempts = sender[m].copy.attempts
      /\ sender'[m].at \notin {"calling", "exhausted"}
  <2>1. CASE SendResolves(m) \/ SendOpens(m) \/ RenderFails(m)
    <3>1. PICK s \in SendRecord :
             /\ Writes(m, row[m], s) /\ s.copy = sender[m].copy
             /\ s.at \in {"opening", "resolved", "unsent"}
      BY <1>1, <2>1, WaitsFacts DEF SendsInv
    <3> QED
      BY <3>1 DEF Writes, SendStays
  <2>2. CASE Queues(m)
    <3>1. sender[m].at = "resolved" /\ sender[m].copy.attempts = 0
      BY <1>1, <2>2 DEF Queues, SendsInv, Sending, Unsent
    <3>2. PICK r \in RowRecord, s \in SendRecord :
             Writes(m, r, s) /\ s.at = "queued" /\ s.copy = r /\ r.attempts = 0
      BY <1>1, <2>2, QueuesFacts DEF SendsInv
    <3> QED
      BY <3>1, <3>2 DEF Writes, SendStays
  <2>3. CASE Sent(m) \/ Exhausted(m)
    <3>1. PICK r \in RowRecord, s \in SendRecord :
             /\ Writes(m, r, s) /\ s.at = "done" /\ s.copy = r
             /\ r.attempts = sender[m].copy.attempts
      BY <1>1, <2>3, EndsFacts DEF SendsInv
    <3> QED
      BY <3>1 DEF Writes, SendStays
  <2> QED
    BY <2>1, <2>2, <2>3
<1>4. OthersStay(m)
  BY <1>2 DEF OthersStay, SendResolves, SendOpens, RenderFails, Queues, Sent, Exhausted, mcpVars
<1>5. Spent(m)' = Spent(m)
  BY <1>2, <1>3 DEF Spent, AttemptsOf, Fresh
<1>6. Advances(m)
  BY <1>1, <1>5, SpentNumber, McpConstants, MessageConstants DEF Advances
<1>7. Failures(m)' = 0
  BY <1>3 DEF Failures
<1> QED
  BY <1>1, <1>2, <1>3, <1>4, <1>6, <1>7, SendCharged DEF Numbered

\* The first attempt begins.
LEMMA GatewaySendCauses ==
    ASSUME CauseInv, SendsInv', NEW m \in Msgs, GatewaySend(m)
    PROVE  CauseInv'
<1>1. SendsInv /\ ClientShape /\ Numbered /\ m \in Calls
  BY MessageConstants DEF CauseInv, SendsInv
<1>2. CallTool(m) /\ UNCHANGED <<client, stack, open, taken, faults>>
  BY DEF GatewaySend
<1>3. /\ OthersStay(m)
      /\ call'[m].at = "connect" /\ call'[m].try = 1 /\ call'[m].replay = FALSE
  BY <1>1, <1>2, CallToolMoves
<1>4. sender[m].at = "queued" /\ call[m].at = "idle" /\ sender[m].copy.attempts = 0
  BY <1>1 DEF GatewaySend, SendsInv, Sending, Unsent
<1>5. /\ \A n \in Msgs \ {m} : sender'[n] = sender[n]
      /\ sender'[m].at = "calling" /\ sender'[m].copy.attempts = 1
  BY <1>1, <1>4, GatewaySendFacts DEF SendsInv, Writes, SendStays
<1>6. Spent(m) = 0 /\ Spent(m)' = 0
  BY <1>3, <1>4, <1>5 DEF Spent, AttemptsOf, Fresh
<1>7. Failures(m)' = 0
  BY <1>3, <1>5 DEF Failures, Broken, Stranded
<1>8. Advances(m)
  BY <1>6 DEF Advances
<1> QED
  BY <1>1, <1>2, <1>3, <1>5, <1>7, <1>8, SendCharged

\* The attempt failed, which is one of the failures counted.
LEMMA GatewayFailedCauses ==
    ASSUME CauseInv, SendsInv', NEW m \in Msgs, GatewayFailed(m)
    PROVE  CauseInv'
<1>1. SendsInv /\ ClientShape /\ Numbered /\ m \in Calls
  BY MessageConstants DEF CauseInv, SendsInv
<1>2. PICK s \in SendRecord :
         /\ Writes(m, sender[m].copy, s)
         /\ sender[m].at = "calling" /\ call[m].at = "failed"
         /\ \/ /\ CallTool(m) /\ s.at = "calling" /\ sender[m].copy.attempts < MaxSends
               /\ s.copy.attempts = sender[m].copy.attempts + 1
            \/ /\ call' = call /\ s.at = "exhausted"
               /\ s.copy.attempts = sender[m].copy.attempts
  BY <1>1, GatewayFailedFacts DEF SendsInv
<1>3. sender'[m] = s /\ \A n \in Msgs \ {m} : sender'[n] = sender[n]
  BY <1>2 DEF Writes, SendStays
<1>4. UNCHANGED <<client, stack, open, taken, faults>>
  BY DEF GatewayFailed
<1>5. PICK a \in 0..MaxSends : a = sender[m].copy.attempts
  BY <1>1 DEF SendsInv, MsgShape, SendRecord, RowRecord
<1>6. Failures(m) = a /\ Spent(m) = a
  BY <1>2, <1>5, MessageConstants DEF Failures, Broken, Spent, AttemptsOf, Fresh
<1>7. CASE s.at = "calling"
  <2>1. CallTool(m) /\ s.copy.attempts = a + 1
    BY <1>2, <1>5, <1>7
  <2>2. /\ OthersStay(m)
        /\ call'[m].at = "connect" /\ call'[m].try = 1 /\ call'[m].replay = FALSE
    BY <1>1, <1>4, <2>1, CallToolMoves
  <2>3. Failures(m)' = a /\ Spent(m)' = a
    BY <1>3, <1>5, <1>7, <2>1, <2>2, MessageConstants
       DEF Failures, Broken, Stranded, Spent, AttemptsOf, Fresh
  <2>4. Advances(m)
    BY <1>5, <1>6, <2>3, MessageConstants DEF Advances
  <2> QED
    BY <1>1, <1>3, <1>4, <1>6, <2>2, <2>3, <2>4, SendCharged
<1>8. CASE s.at # "calling"
  <2>1. call' = call /\ s.at = "exhausted" /\ s.copy.attempts = a
    BY <1>2, <1>5, <1>8
  <2>2. OthersStay(m)
    BY <1>4, <2>1 DEF OthersStay
  <2>3. a = MaxSends
    <3>1. ~SendsLeft(m)
      <4>1. SendsLeft(m) => sender'[m].at = sender[m].at
        BY <1>1 DEF GatewayFailed, SendsInv, MsgShape, SendRecord
      <4> QED
        BY <1>2, <1>3, <1>8, <4>1
    <3> QED
      BY <1>5, <3>1, MessageConstants DEF SendsLeft
  <2>4. Failures(m)' = a /\ Spent(m)' = a
    BY <1>2, <1>3, <2>1, <2>3 DEF Failures, Spent, AttemptsOf, Fresh
  <2>5. Advances(m)
    BY <1>5, <1>6, <2>4, MessageConstants DEF Advances
  <2> QED
    BY <1>1, <1>3, <1>4, <1>6, <2>1, <2>2, <2>4, <2>5, SendCharged DEF Numbered
<1> QED
  BY <1>7, <1>8

\* Steps that touch neither the client nor a sender
LEMMA QuietCauses ==
    ASSUME CauseInv, SendsInv', UNCHANGED <<mcpVars, sender>>
    PROVE  CauseInv'
<1>1. /\ client' = client /\ open' = open /\ call' = call /\ faults' = faults /\ sender' = sender
  BY DEF mcpVars
<1>2. Numbered'
  BY <1>1 DEF CauseInv, Numbered
<1>3. ASSUME NEW m \in Msgs PROVE Failures(m)' = Failures(m) /\ Causes(m)' = Causes(m)
  BY <1>1 DEF Failures, Broken, Stranded, Causes, SpentBeside, Spent, AttemptsOf, Fresh
<1> QED
  BY <1>2, <1>3 DEF CauseInv

\* No attempt has been made.
LEMMA CausesInit == Init => CauseInv
<1> SUFFICES ASSUME Init PROVE CauseInv
  OBVIOUS
<1>1. SendsInv
  BY SendsInit
<1>2. Numbered
  BY IdleRecord DEF Init, McpInit, Numbered
<1>3. ASSUME NEW m \in Msgs PROVE Failures(m) <= Causes(m)
  <2>1. Failures(m) = 0
    BY DEF Init, MsgInit, Failures
  <2>2. IsFiniteSet(SpentBeside(m))
    <3>1. SpentBeside(m) \subseteq (Calls \ {m}) \X Numbers
      BY DEF SpentBeside
    <3> QED
      BY <3>1, AttemptsFinite, FS_Subset
  <2>3. faults = 0 /\ Cardinality(SpentBeside(m)) \in Nat
    BY <2>2, FS_CardinalityType DEF Init, McpInit
  <2> QED
    BY <2>1, <2>3 DEF Causes
<1> QED
  BY <1>1, <1>2, <1>3 DEF CauseInv

\* Every step keeps the count.
LEMMA CausesNext == CauseInv /\ [Next]_vars => CauseInv'
<1> SUFFICES ASSUME CauseInv, [Next]_vars PROVE CauseInv'
  OBVIOUS
<1>1. SendsInv'
  BY SendsNext DEF CauseInv
<1>2. CASE \/ \E c \in Calls : Client(c)
           \/ \E c \in Calls : (McpFault(c) \/ OtherCall(c)) /\ OutsideClient
           \/ \E g \in open : Drops(g) /\ OutsideClient
  BY <1>2, ClientCauses DEF Client
<1>3. ASSUME NEW m \in Msgs, SendStep(m) PROVE CauseInv'
  BY <1>1, <1>3, RestingSendCauses, GatewaySendCauses, GatewayFailedCauses DEF SendStep
<1>4. CASE UNCHANGED vars
  BY <1>1, <1>4, QuietCauses DEF vars, msgVars
<1>5. ASSUME NEW k \in Callbacks, CallbackFinds(k) \/ CallbackSaves(k) PROVE CauseInv'
  BY <1>1, <1>5, QuietCauses DEF CallbackFinds, CallbackSaves
<1>6. ASSUME NEW d \in Deliveries, IngestStep(d), UNCHANGED <<mcpVars, msgVars>> PROVE CauseInv'
  BY <1>1, <1>6, QuietCauses DEF msgVars
<1> QED
  BY <1>2, <1>3, <1>4, <1>5, <1>6 DEF Next

\* What was given up had its causes: the spent attempts are among those made.
LEMMA CausesEnough == CauseInv => GivenUpForCause
<1> SUFFICES ASSUME CauseInv, NEW m \in Msgs, sender[m].at = "exhausted"
             PROVE  faults + Cardinality(AttemptsBeside(m)) >= MaxSends
  BY DEF GivenUpForCause
<1>1. SendsInv /\ Numbered
  BY DEF CauseInv
<1>2. MaxSends <= faults + Cardinality(SpentBeside(m))
  BY DEF CauseInv, Failures, Causes
<1>3. SpentBeside(m) \subseteq AttemptsBeside(m)
  <2>1. ASSUME NEW a \in (Calls \ {m}) \X Numbers, a[2] <= Spent(a[1]) PROVE a[2] <= AttemptsOf(a[1])
    <3>1. a[1] \in Calls /\ a[2] \in Int
      BY McpConstants, MessageConstants DEF Numbers
    <3>2. Spent(a[1]) \in Int /\ AttemptsOf(a[1]) \in Int /\ Spent(a[1]) <= AttemptsOf(a[1])
      BY <1>1, <3>1, SpentNumber, McpConstants, MessageConstants
    <3> QED
      BY <2>1, <3>1, <3>2
  <2> QED
    BY <2>1 DEF SpentBeside, AttemptsBeside, Numbers
<1>4. IsFiniteSet(AttemptsBeside(m))
  <2>1. AttemptsBeside(m) \subseteq (Calls \ {m}) \X Numbers
    BY DEF AttemptsBeside, Numbers
  <2> QED
    BY <2>1, AttemptsFinite, FS_Subset
<1>5. /\ Cardinality(SpentBeside(m)) \in Nat /\ Cardinality(AttemptsBeside(m)) \in Nat
      /\ Cardinality(SpentBeside(m)) <= Cardinality(AttemptsBeside(m))
  BY <1>3, <1>4, FS_Subset, FS_CardinalityType
<1>6. faults \in Nat /\ MaxSends \in Nat
  BY <1>1, McpConstants, MessageConstants DEF SendsInv, ClientShape
<1> QED
  BY <1>2, <1>5, <1>6

\* A message is given up only after as many faults and attempts of other calls
\* as it had attempts: a connection that is lost, reset by another call or
\* forgotten half-way fails no call that comes after (_invoke, _reset_connection).
THEOREM GivenUpCorrect == Spec => []GivenUpForCause
<1> QED
  BY CausesInit, CausesNext, CausesEnough, PTL DEF Spec

=============================================================================
