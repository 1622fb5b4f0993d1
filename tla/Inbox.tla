-------------------------------- MODULE Inbox --------------------------------
(***************************************************************************)
(* Inbound messages of one sender (CommunicationService.ingest_inbound).   *)
(* The provider delivers a message again until it is acknowledged, so a    *)
(* message id has several deliveries, each handled by a request of its     *)
(* own.                                                                    *)
(***************************************************************************)
EXTENDS Integers

CONSTANTS
    Ids,          \* provider message ids of one sender
    Deliveries,   \* requests to POST /comm/inbound
    Overlap,      \* whether two deliveries of one id may be handled at once
    MaxDeaths     \* bound: requests that die with their process

ASSUME InboxConstants == Overlap \in BOOLEAN /\ MaxDeaths \in Nat

VARIABLES
    request,    \* where each delivery stands, and the id it carries
    rows,       \* how many messages are stored with each provider id
    handed,     \* how often each was handed to the conversation dispatcher
    conv,       \* how many conversations with this sender were opened
    deaths

inboxVars == <<request, rows, handed, deaths>>

NoId == "none"
Ended == {"idle", "done", "dead"}

InboxTypeOK ==
    /\ \A d \in Deliveries :
          /\ request[d].at \in Ended \cup {"opening", "resolved", "stored"}
          /\ request[d].id \in Ids \cup {NoId}
    /\ rows \in [Ids -> Nat]
    /\ handed \in [Ids -> Nat]
    /\ conv \in Nat
    /\ deaths \in 0..MaxDeaths

InboxInit ==
    /\ request = [d \in Deliveries |-> [at |-> "idle", id |-> NoId]]
    /\ rows = [i \in Ids |-> 0]
    /\ handed = [i \in Ids |-> 0]
    /\ conv = 0
    /\ deaths = 0

Moves(d, where) == request' = [request EXCEPT ![d].at = where]

\* _resolve_conversation finds the open conversation, or saves a new one: two
\* callers that find none open one each.
Resolves == IF conv = 0 THEN "opening" ELSE "resolved"
Opens == conv' = conv + 1

-----------------------------------------------------------------------------

\* Faulty: a duplicate is looked for by its row only once it was handed on.
FaultyDuplicate(i) == handed[i] > 0

\* get_by_provider_id finds the message already stored.
Duplicate(i) == rows[i] > 0

\* The request arrives and looks for its id; if it is new, it looks for the
\* sender's open conversation.
IngestInbound(d, i) ==
    /\ request[d].at = "idle"
    /\ Overlap \/ \A e \in Deliveries : request[e].id = i => request[e].at \in Ended
    /\ request' = [request EXCEPT ![d] =
                     [at |-> IF Duplicate(i) THEN "done" ELSE Resolves, id |-> i]]
    /\ UNCHANGED <<rows, handed, conv, deaths>>

\* A new conversation is saved.
OpensConversation(d) ==
    /\ request[d].at = "opening"
    /\ Opens
    /\ Moves(d, "resolved")
    /\ UNCHANGED <<rows, handed, deaths>>

\* The message is created RECEIVED and the conversation is saved.
CreatesMessage(d) ==
    /\ request[d].at = "resolved"
    /\ rows' = [rows EXCEPT ![request[d].id] = @ + 1]
    /\ Moves(d, "stored")
    /\ UNCHANGED <<handed, conv, deaths>>

\* MESSAGE_RECEIVED goes out and the dispatcher is called.
HandsOn(d) ==
    /\ request[d].at = "stored"
    /\ handed' = [handed EXCEPT ![request[d].id] = @ + 1]
    /\ Moves(d, "done")
    /\ UNCHANGED <<rows, conv, deaths>>

\* The process dies with the request; the provider will deliver again.
Dies(d) ==
    /\ request[d].at \notin Ended
    /\ deaths < MaxDeaths
    /\ deaths' = deaths + 1
    /\ Moves(d, "dead")
    /\ UNCHANGED <<rows, handed, conv>>

-----------------------------------------------------------------------------

(***************************************************************************)
(* Properties.                                                             *)
(***************************************************************************)
\* However often a message is delivered, one delivery after the other, and
\* whichever of the requests die, it is stored once and handed on at most
\* once (ingest_inbound).
InboundOnce == \A i \in Ids : rows[i] <= 1 /\ handed[i] <= rows[i]

=============================================================================
