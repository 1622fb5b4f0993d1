------------------------------ MODULE Visibility ------------------------------
(***************************************************************************)
(* What operators see of a campaign: the runs that a broadcast starts, and *)
(* whatever else happens, cause events, which travel over the unified      *)
(* stream to the visibility log.  The event of an action goes out, or is   *)
(* lost, with that action: the in-process bus lets no publisher fail.      *)
(***************************************************************************)
EXTENDS Broadcast, EventStream

vars == <<castVars, streamVars>>

TypeOK == CastTypeOK /\ StreamTypeOK

Init == CastInit /\ StreamInit

Quiet == UNCHANGED streamVars

\* Starting a run emits workflow.run.started.
Works(s) == \/ Begins(s) /\ Quiet
            \/ SkipsRow(s) /\ Quiet
            \/ StartsRow(s) /\ Publish
            \/ FailsRow(s) /\ Quiet
            \/ Finishes(s) /\ Quiet

Submits(s) == (Claims(s) \/ LooksUp(s) \/ SavesBatch(s)) /\ Quiet

\* Any other service's event, forwarded to the stream.
OtherEvent ==
    /\ published < MaxEvents - Len(Csv)
    /\ Publish
    /\ UNCHANGED castVars

Consumes == Consume /\ UNCHANGED castVars

Next ==
    \/ \E s \in Submissions : Submits(s) \/ Works(s)
    \/ \E p \in Phones : LockLapses(p) /\ Quiet
    \/ Restarts /\ Quiet
    \/ OtherEvent
    \/ Consumes
    \/ Crash /\ UNCHANGED castVars

Spec == Init /\ [][Next]_vars

\* A background task goes on while its process lives, and the consumer loop
\* of the visibility process runs.
FairSpec == /\ Spec
            /\ \A s \in Submissions : WF_vars(Works(s))
            /\ WF_vars(Consumes)

-----------------------------------------------------------------------------

(***************************************************************************)
(* Properties of the composition; the others are with their components.    *)
(***************************************************************************)
\* The log that operators read holds no event twice or out of order, and the
\* dashboard counts nothing the log does not hold, whatever is published,
\* trimmed, refused by the store or lost in a crash (consume_once, record).
LogInv == TypeOK /\ RecordedInOrder /\ MetricsBacked

=============================================================================
