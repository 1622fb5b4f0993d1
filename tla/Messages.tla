------------------------------- MODULE Messages -------------------------------
(***************************************************************************)
(* The communication service (app/services/communication): outbound        *)
(* messages sent through the MCP gateway with retries, and the provider's  *)
(* delivery callbacks.  A message's row in the store and the sender's own  *)
(* copy of it are two things: every save writes the whole copy.  The       *)
(* messages go to the sender whose inbound messages Inbox models.          *)
(***************************************************************************)
EXTENDS McpClient, Inbox, FiniteSets

CONSTANTS
    Msgs,         \* outbound messages: each is a call slot of the client
    Callbacks,    \* delivery-status requests under way at the same time
    Refs,         \* how callbacks name their message: "provider", "message"
    MaxSends,     \* CommunicationConfig.retry_max_attempts
    MaxUpdates    \* bound: delivery callbacks received

ASSUME MessageConstants == /\ Msgs \subseteq Calls \ Reads
                           /\ Refs \subseteq {"provider", "message"}
                           /\ MaxSends \in Nat \ {0}
                           /\ MaxUpdates \in Nat

VARIABLES
    row,        \* the stored message: status, attempts, provider id known
    sender,     \* where send stands for each message, with its own copy
    callback,   \* each delivery callback: its copy of the row and new status
    updates     \* how many callbacks came in

msgVars == <<row, sender, callback, updates>>

Statuses == {"none", "queued", "sending", "sent", "delivered", "read", "failed"}

\* _ALLOWED_TRANSITIONS
Allowed == [queued    |-> {"sending", "failed"},
            sending   |-> {"sent", "failed"},
            sent      |-> {"delivered", "read", "failed"},
            delivered |-> {"read"},
            read      |-> {},
            failed    |-> {"queued"}]

\* Faulty: any status the provider reports is accepted.
FaultyCanTransition(src, dst) == TRUE

CanTransition(src, dst) == src = dst \/ dst \in Allowed[src]

NoRow == [status |-> "none", attempts |-> 0, prov |-> FALSE]
NoCallback == [at |-> "idle", msg |-> CHOOSE m \in Msgs : TRUE,
               copy |-> NoRow, status |-> "none"]

MsgTypeOK ==
    /\ \A m \in Msgs :
          /\ row[m].status \in Statuses
          /\ row[m].attempts \in 0..MaxSends
          /\ row[m].prov \in BOOLEAN
          /\ sender[m].at \in {"idle", "opening", "resolved", "queued", "calling",
                               "exhausted", "done", "unsent"}
          /\ sender[m].copy.status \in Statuses
          /\ sender[m].at = "done" => row[m].status \notin {"none", "queued", "sending"}
          /\ sender[m].at = "unsent" => row[m] = NoRow
    /\ \A k \in Callbacks :
          /\ callback[k].at \in {"idle", "found"}
          /\ callback[k].status \in Statuses
    /\ updates \in 0..MaxUpdates

MsgInit ==
    /\ row = [m \in Msgs |-> NoRow]
    /\ sender = [m \in Msgs |-> [at |-> "idle", copy |-> NoRow]]
    /\ callback = [k \in Callbacks |-> NoCallback]
    /\ updates = 0

Sender(m, where) == sender' = [sender EXCEPT ![m].at = where]

\* MessageStore.save writes the caller's copy over the row.
Saves(m, copy) == row' = [row EXCEPT ![m] = copy]

-----------------------------------------------------------------------------

(***************************************************************************)
(* send and _dispatch_with_retry.                                          *)
(***************************************************************************)
SendResolves(m) ==
    /\ sender[m].at = "idle"
    /\ Sender(m, Resolves)
    /\ UNCHANGED <<mcpVars, row, callback, updates, conv, inboxVars>>

SendOpens(m) ==
    /\ sender[m].at = "opening"
    /\ Opens
    /\ Sender(m, "resolved")
    /\ UNCHANGED <<mcpVars, row, callback, updates, inboxVars>>

\* render_with_subject finds no template, or a variable the body needs is not
\* among those given: send raises before anything is stored.
RenderFails(m) ==
    /\ sender[m].at = "resolved"
    /\ Sender(m, "unsent")
    /\ UNCHANGED <<mcpVars, row, callback, updates, conv, inboxVars>>

\* The message is created QUEUED.
Queues(m) ==
    /\ sender[m].at = "resolved"
    /\ Saves(m, [NoRow EXCEPT !.status = "queued"])
    /\ sender' = [sender EXCEPT ![m] = [at |-> "queued", copy |-> row'[m]]]
    /\ UNCHANGED <<mcpVars, callback, updates, conv, inboxVars>>

\* SENDING is saved and the gateway is called: one call_tool per attempt,
\* with the tool and payload of the message's channel and metadata.
GatewaySend(m) ==
    /\ sender[m].at = "queued"
    /\ LET copy == [sender[m].copy EXCEPT !.status = "sending"]
       IN /\ Saves(m, copy)
          /\ sender' = [sender EXCEPT
                          ![m] = [at |-> "calling",
                                  copy |-> [copy EXCEPT !.attempts = @ + 1]]]
    /\ CallTool(m)
    /\ UNCHANGED <<client, stack, open, taken, faults,
                   callback, updates, conv, inboxVars>>

\* Whether the loop goes round again after a GatewayError.
SendsLeft(m) == sender[m].copy.attempts < MaxSends

\* Any failure of the call is a GatewayError: the error is saved and the
\* message is sent again, or the loop ends.
GatewayFailed(m) ==
    /\ sender[m].at = "calling"
    /\ call[m].at = "failed"
    /\ Saves(m, sender[m].copy)
    /\ IF SendsLeft(m)
       THEN /\ CallTool(m)
            /\ sender' = [sender EXCEPT ![m].copy.attempts = @ + 1]
       ELSE Sender(m, "exhausted") /\ UNCHANGED call
    /\ UNCHANGED <<client, stack, open, taken, faults,
                   callback, updates, conv, inboxVars>>

\* gateway.send returned a result.
Answers(m) == call[m].at = "ok"

\* The tool answered: SENT, with the provider's id if the answer carries one.
\* result.accepted is never looked at.
Sent(m) ==
    /\ sender[m].at = "calling"
    /\ Answers(m)
    /\ \E prov \in BOOLEAN :
          LET copy == [sender[m].copy EXCEPT !.status = "sent", !.prov = prov]
          IN /\ Saves(m, copy)
             /\ sender' = [sender EXCEPT ![m] = [at |-> "done", copy |-> copy]]
    /\ UNCHANGED <<mcpVars, callback, updates, conv, inboxVars>>

\* Every attempt failed.
Exhausted(m) ==
    /\ sender[m].at = "exhausted"
    /\ LET copy == [sender[m].copy EXCEPT !.status = "failed"]
       IN /\ Saves(m, copy)
          /\ sender' = [sender EXCEPT ![m] = [at |-> "done", copy |-> copy]]
    /\ UNCHANGED <<mcpVars, callback, updates, conv, inboxVars>>

-----------------------------------------------------------------------------

(***************************************************************************)
(* update_delivery_status.                                                 *)
(***************************************************************************)
\* _find_message: by the provider's id, once the row carries it, or by ours.
Findable(m) == \/ "provider" \in Refs /\ row[m].prov
               \/ "message" \in Refs /\ row[m].status # "none"

\* A callback about a message the provider has seen; one that names no stored
\* message ends in MessageNotFoundError and changes nothing.
CallbackFinds(k) ==
    /\ callback[k].at = "idle"
    /\ updates < MaxUpdates
    /\ \E m \in Msgs, st \in {"delivered", "read", "failed"} :
          /\ taken[m] > 0
          /\ Findable(m)
          /\ callback' = [callback EXCEPT ![k] = [at |-> "found", msg |-> m,
                                                  copy |-> row[m], status |-> st]]
    /\ updates' = updates + 1
    /\ UNCHANGED <<mcpVars, row, sender, conv, inboxVars>>

\* _transition checks the copy; the copy is saved with the new status, or
\* InvalidMessageStatusError leaves everything as it is.
CallbackSaves(k) ==
    /\ callback[k].at = "found"
    /\ IF CanTransition(callback[k].copy.status, callback[k].status)
       THEN Saves(callback[k].msg, [callback[k].copy EXCEPT !.status = callback[k].status])
       ELSE UNCHANGED row
    /\ callback' = [callback EXCEPT ![k] = NoCallback]
    /\ UNCHANGED <<mcpVars, sender, updates, conv, inboxVars>>

-----------------------------------------------------------------------------

(***************************************************************************)
(* Properties.                                                             *)
(***************************************************************************)
\* A stored message that says SENT, DELIVERED or READ was executed by the
\* server, however the connection broke, timed out or was replayed on the way.
SentWasTaken ==
    \A m \in Msgs : row[m].status \in {"sent", "delivered", "read"} => taken[m] > 0

\* The provider's tool runs at most twice for each attempt send counts, the
\* replay on a lost connection included.
SendsBounded ==
    \A m \in Msgs : taken[m] <= 2 * sender[m].copy.attempts * Attempts(m)

\* The attempts that a call has made so far.
AttemptsOf(c) == IF c \in Msgs THEN sender[c].copy.attempts ELSE call[c].try

\* The attempts that calls beside m have made, numbered within each call
AttemptsBeside(m) ==
    {a \in (Calls \ {m}) \X (1..MaxSends + MaxTries) : a[2] <= AttemptsOf(a[1])}

\* A message is given up only for as many causes as it had attempts: a fault,
\* or an attempt of another call that reset the connection under it.  A
\* connection lost once never fails the calls that come after (_invoke).
GivenUpForCause ==
    \A m \in Msgs :
       sender[m].at = "exhausted" =>
          faults + Cardinality(AttemptsBeside(m)) >= MaxSends

\* A row only moves along _ALLOWED_TRANSITIONS: while callbacks come one by one,
\* none is undone by a sender that still holds an older copy.
StatusForward ==
    [][\A m \in Msgs :
          \/ row'[m].status = row[m].status
          \/ row[m].status = "none"
          \/ row'[m].status \in Allowed[row[m].status]]_msgVars

=============================================================================
