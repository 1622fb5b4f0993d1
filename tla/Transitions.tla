---------------------------- MODULE Transitions ----------------------------
(***************************************************************************)
(* The run statuses of app/shared/workflow/enums.py and the table of       *)
(* app/shared/workflow/transitions.py.                                     *)
(***************************************************************************)

\* RunStatus(StrEnum)
Statuses == {"pending", "running", "waiting_for_input", "suspended", "completed",
             "failed", "timed_out", "dead_lettered", "cancelled"}

\* TERMINAL_STATUSES: a timed out run is not one of them.
Terminal == {"completed", "failed", "dead_lettered", "cancelled"}

\* Faulty: a run left RUNNING is not recovered.
FaultyRecoverable == {"suspended"}

\* RECOVERABLE_STATUSES: what the crash-recovery sweep re-drives.
Recoverable == {"running", "suspended"}

\* REVIVABLE_TERMINAL_STATUSES of the dispatcher.
Revivable == {"failed", "timed_out"}

\* What _cancel_active_runs_for and _find_active_run take for a live run.
Active == {"waiting_for_input", "running", "pending"}

\* _ALLOWED: the statuses each status may move to.
Allowed ==
    [pending           |-> {"running", "cancelled"},
     running           |-> {"waiting_for_input", "suspended", "completed",
                            "failed", "timed_out", "cancelled"},
     waiting_for_input |-> {"running", "timed_out", "cancelled"},
     suspended         |-> {"running", "failed", "dead_lettered", "cancelled"},
     timed_out         |-> {"running", "dead_lettered", "cancelled"},
     failed            |-> {"running", "dead_lettered", "cancelled"},
     dead_lettered     |-> {"running"},
     completed         |-> {},
     cancelled         |-> {}]

\* TransitionManager.is_allowed: staying put is a no-op, never an error.
IsAllowed(src, dst) == src = dst \/ dst \in Allowed[src]

=============================================================================
