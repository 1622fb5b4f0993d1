------------------------------- MODULE Delivery -------------------------------
(***************************************************************************)
(* Messages on their way, in and out: the communication service sends      *)
(* through the shared MCP client, which other calls of the process use at  *)
(* the same time, and takes in what the provider delivers.                 *)
(***************************************************************************)
EXTENDS Messages

vars == <<mcpVars, msgVars, inboxVars, conv>>

TypeOK == McpTypeOK /\ MsgTypeOK /\ InboxTypeOK

Init == McpInit /\ MsgInit /\ InboxInit

\* A call other than a send: a read of the backend.
OtherCall(c) ==
    /\ c \in Calls \ Msgs
    /\ call[c].at = "idle"
    /\ CallTool(c)
    /\ UNCHANGED <<client, stack, open, taken, faults>>

OutsideClient == UNCHANGED <<msgVars, inboxVars, conv>>

Client(c) == McpStep(c) /\ OutsideClient

SendStep(m) == \/ SendResolves(m)
               \/ SendOpens(m)
               \/ RenderFails(m)
               \/ Queues(m)
               \/ GatewaySend(m)
               \/ GatewayFailed(m)
               \/ Sent(m)
               \/ Exhausted(m)

IngestStep(d) == \/ \E i \in Ids : IngestInbound(d, i)
                 \/ OpensConversation(d)
                 \/ CreatesMessage(d)
                 \/ HandsOn(d)
                 \/ Dies(d)

Next ==
    \/ \E c \in Calls : Client(c)
    \/ \E c \in Calls : (McpFault(c) \/ OtherCall(c)) /\ OutsideClient
    \/ \E g \in open : Drops(g) /\ OutsideClient
    \/ \E m \in Msgs : SendStep(m)
    \/ \E k \in Callbacks : CallbackFinds(k) \/ CallbackSaves(k)
    \/ \E d \in Deliveries : IngestStep(d) /\ UNCHANGED <<mcpVars, msgVars>>

Spec == Init /\ [][Next]_vars

\* The event loop runs every task that can go on, and the server answers; that
\* a call is made, fails or times out is never assumed.
FairSpec == /\ Spec
            /\ \A c \in Calls : WF_vars(Client(c))
            /\ \A m \in Msgs : WF_vars(SendStep(m))

\* What the store says was sent is what the server did: executed at least once
\* before a row says so, and at most twice for each attempt the row counts
\* (_dispatch_with_retry over call_tool and _invoke).
SendInv == TypeOK /\ SentWasTaken /\ SendsBounded

\* Every send ends with its message SENT or FAILED, or beyond: no loss of the
\* connection, at whatever await and in whichever call, leaves a message in
\* SENDING while the process lives (_invoke, _dispatch_with_retry).
SendEnds == \A m \in Msgs : row[m].status = "queued" ~> sender[m].at = "done"

=============================================================================
