----------------------------- MODULE MCServices -----------------------------
(***************************************************************************)
(* Two services for TLC in one run.  They share no variable, so a step of  *)
(* one while the other is under way adds no state to either: each is       *)
(* followed with the other as it was at first.                             *)
(***************************************************************************)
EXTENDS Cms, Documents, TLC

\* A checklist nobody wrote, one code, and two
Wider == {{}, {CHOOSE c \in Codes : TRUE}, Codes}

ServicesInit == Init /\ DocumentsInit

ServicesNext ==
    \/ Next /\ docVars = <<[f \in Files |-> NoDocument], [f \in Files |-> "idle"], NoBatch, NothingTold>>
            /\ UNCHANGED docVars
    \/ DocumentsNext /\ vars = <<0, 0, [v \in 1..MaxVersions |-> 0], [i \in Instances |-> NoEntry], NoEntry,
                                 [i \in Instances |-> 0], [r \in Requests |-> Idle], 0>>
                     /\ UNCHANGED vars

ServicesSpec == ServicesInit /\ [][ServicesNext]_<<vars, docVars>>

\* Instances, requests and files differ in nothing but their names.
Symmetry == Permutations(Instances) \cup Permutations(Requests) \cup Permutations(Files)

=============================================================================
