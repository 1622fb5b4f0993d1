------------------------------ MODULE McpClient ------------------------------
(***************************************************************************)
(* The shared MCP client (app/shared/mcp/client.py).  One HttpMCPClient    *)
(* object serves every call of the process: it keeps one fastmcp client    *)
(* and the exit stack that closes it, connects on the first use, and when  *)
(* a call sees the connection gone it closes the whole stack, connects     *)
(* again and replays that call once.  An action is the code between two    *)
(* awaits.  Connections are numbered in the order they were opened; the    *)
(* server is modelled by what a call can observe of it.                    *)
(***************************************************************************)
EXTENDS Integers, Sequences, FiniteSets

CONSTANTS
    Calls,      \* the calls under way: one slot per caller
    Reads,      \* those of an idempotent tool (settings.idempotent_tools)
    MaxTries,   \* settings.retry_max_attempts
    MaxFaults   \* bound: drops, timeouts, refusals and failed connects

ASSUME McpConstants == /\ IsFiniteSet(Calls)
                       /\ Reads \subseteq Calls
                       /\ MaxTries \in Nat \ {0}
                       /\ MaxFaults \in Nat

VARIABLES
    client,     \* self._client: the number of a connection, 0 for None
    stack,      \* self._stack: the connections that closing it would close
    open,       \* the connections that work
    call,       \* where each call_tool stands
    taken,      \* how often the server executed each call's request
    faults

mcpVars == <<client, stack, open, call, taken, faults>>

Awaits == {"entering", "sent", "taken", "resetting"}

\* Where a call_tool stands: the attempt, the connection it uses, whether the
\* stack it is entering one on is still the current stack, and whether this is
\* the replay.
Idle == [at |-> "idle", try |-> 0, gen |-> 0, current |-> TRUE, replay |-> FALSE]

\* Bound: a connection that is neither open nor in anybody's hands is
\* forgotten, so each call and the client account for one apiece.
MaxGens == 12
Gens == 1..MaxGens

McpTypeOK ==
    /\ client \in Gens \cup {0}
    /\ stack \subseteq Gens
    /\ open \subseteq Gens
    /\ \A c \in Calls :
          /\ call[c].at \in Awaits \cup {"idle", "connect", "ok", "failed"}
          /\ call[c].try \in 0..MaxTries
          /\ call[c].gen \in Gens \cup {0}
          /\ call[c].at \in {"sent", "taken"} => call[c].gen > 0
    /\ taken \in [Calls -> Nat]
    /\ faults \in 0..MaxFaults

McpInit ==
    /\ client = 0
    /\ stack = {}
    /\ open = {}
    /\ call = [c \in Calls |-> Idle]
    /\ taken = [c \in Calls |-> 0]
    /\ faults = 0

-----------------------------------------------------------------------------

\* The number of attempts call_tool allows itself for this tool.
Attempts(c) == IF c \in Reads THEN MaxTries ELSE 1

At(c, where) == call' = [call EXCEPT ![c].at = where]

\* An attempt raised: sleep and go round again, or give up.
Raises(c) ==
    IF call[c].try < Attempts(c)
    THEN call' = [call EXCEPT ![c] = [Idle EXCEPT !.at = "connect", !.try = call[c].try + 1]]
    ELSE call' = [call EXCEPT ![c] = [Idle EXCEPT !.at = "failed", !.try = call[c].try]]

Fault == /\ faults < MaxFaults
         /\ faults' = faults + 1

\* _ensure_connected, up to the await of the connection.
EnsureConnected(c) ==
    /\ call[c].at = "connect"
    /\ IF client = 0
       THEN call' = [call EXCEPT ![c].at = "entering", ![c].current = TRUE]
       ELSE call' = [call EXCEPT ![c].at = "sent", ![c].gen = client]
    /\ UNCHANGED <<client, stack, open, taken, faults>>

\* The numbers that no connection has, and that of the next one.
FreeGens == {g \in Gens \ (open \cup stack \cup {client}) : \A c \in Calls : call[c].gen # g}
NewGen == CHOOSE g \in FreeGens : TRUE

\* The context was entered, on the stack as it was before the await; whoever
\* finishes last has the client everybody uses.
Connected(c) ==
    /\ call[c].at = "entering"
    /\ FreeGens # {}
    /\ client' = NewGen
    /\ open' = open \cup {client'}
    /\ stack' = IF call[c].current THEN stack \cup {client'} ELSE stack
    /\ call' = [call EXCEPT ![c].at = "sent", ![c].gen = client', ![c].current = TRUE]
    /\ UNCHANGED <<taken, faults>>

\* The server executes the request.
Taken(c) ==
    /\ call[c].at = "sent"
    /\ call[c].gen \in open
    /\ taken' = [taken EXCEPT ![c] = @ + 1]
    /\ At(c, "taken")
    /\ UNCHANGED <<client, stack, open, faults>>

\* Its answer arrives, and it is not an error.
Answered(c) ==
    /\ call[c].at = "taken"
    /\ call[c].gen \in open
    /\ call' = [call EXCEPT ![c] = [Idle EXCEPT !.at = "ok", !.try = call[c].try]]
    /\ UNCHANGED <<client, stack, open, taken, faults>>

\* It is an error (is_error, a 4xx or a 5xx), which is not a disconnect.
Refused(c) ==
    /\ call[c].at = "taken"
    /\ call[c].gen \in open
    /\ Fault
    /\ Raises(c)
    /\ UNCHANGED <<client, stack, open, taken>>

\* Faulty: a connection lost while the answer is awaited goes unnoticed.
FaultySevered(c) == call[c].at = "sent" /\ call[c].gen \notin open

\* The call's connection is gone.
Severed(c) == call[c].at \in {"sent", "taken"} /\ call[c].gen \notin open

\* The call sees its connection gone.  The first time it closes whatever the
\* current stack holds, which need not be the connection it was using, and
\* will replay; the second time the exception leaves _invoke.
Disconnected(c) ==
    /\ Severed(c)
    /\ IF call[c].replay
       THEN Raises(c) /\ UNCHANGED <<open, stack>>
       ELSE /\ open' = open \ stack
            /\ stack' = {}
            /\ call' = [call EXCEPT ![c].at = "resetting", ![c].gen = 0]
    /\ UNCHANGED <<client, taken, faults>>

\* Faulty: the stale client is kept, and the replay uses it again.
FaultyForgetClient == client

\* What _reset_connection leaves in self._client.
ForgetClient == 0

\* Faulty: a replay may be followed by another one.
FaultyReplayed(c) == [call[c] EXCEPT !.at = "connect"]

\* The call as it is replayed.
Replayed(c) == [call[c] EXCEPT !.at = "connect", !.replay = TRUE]

\* _reset_connection after the close: a new stack, no client, then the replay.
\* What was entered on the old stack since is never closed.
ResetConnection(c) ==
    /\ call[c].at = "resetting"
    /\ stack' = {}
    /\ client' = ForgetClient
    /\ call' = [d \in Calls |-> IF d = c THEN Replayed(c)
                               ELSE [call[d] EXCEPT !.current = (call[d].at # "entering")]]
    /\ UNCHANGED <<open, taken, faults>>

\* asyncio.wait_for cancels the attempt wherever it waits.  A request that was
\* on its way may still be executed.  A cancelled reset leaves the closed
\* client in place for the next call to find.
TimesOut(c) ==
    /\ call[c].at \in Awaits
    /\ Fault
    /\ \E late \in IF call[c].at = "sent" /\ call[c].gen \in open THEN {0, 1} ELSE {0} :
          taken' = [taken EXCEPT ![c] = @ + late]
    /\ Raises(c)
    /\ UNCHANGED <<client, stack, open>>

\* Entering the context fails: outside the try, so nothing is replayed.
ConnectFails(c) ==
    /\ call[c].at = "entering"
    /\ Fault
    /\ Raises(c)
    /\ UNCHANGED <<client, stack, open, taken>>

\* A connection is lost.
Drops(g) ==
    /\ g \in open
    /\ Fault
    /\ open' = open \ {g}
    /\ stack' = stack \ {g}
    /\ UNCHANGED <<client, call, taken>>

\* call_tool begins; a slot is used again only when its last call has ended.
CallTool(c) ==
    call' = [call EXCEPT ![c] = [Idle EXCEPT !.at = "connect", !.try = 1]]

\* The steps a call takes without anything going wrong.
McpStep(c) == \/ EnsureConnected(c)
              \/ Connected(c)
              \/ Taken(c)
              \/ Answered(c)
              \/ Disconnected(c)
              \/ ResetConnection(c)

McpFault(c) == Refused(c) \/ TimesOut(c) \/ ConnectFails(c)

=============================================================================
