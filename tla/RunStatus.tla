----------------------------- MODULE RunStatus -----------------------------
(***************************************************************************)
(* What transitions.py promises of every run: it is created PENDING and    *)
(* from then on its stored status only ever moves along the table          *)
(* _ALLOWED, one run at a time.  RunLifecycle.tla models the handlers that *)
(* write the stored status; with the inbound handlers alone it implements  *)
(* this module.                                                            *)
(***************************************************************************)
EXTENDS Transitions

CONSTANT Runs
VARIABLE status      \* run id -> its status, "absent" until it is created

Init == status = [r \in Runs |-> "absent"]

Create(r) ==
    /\ status[r] = "absent"
    /\ status' = [status EXCEPT ![r] = "pending"]

Move(r) ==
    /\ status[r] \in Statuses
    /\ \E to \in Allowed[status[r]] : status' = [status EXCEPT ![r] = to]

Next == \E r \in Runs : Create(r) \/ Move(r)

Spec == Init /\ [][Next]_status

=============================================================================
