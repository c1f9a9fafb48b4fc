---------------------------- MODULE RunContract ----------------------------
(***************************************************************************)
(* What GraphPipeline.run() promises its caller, whatever nodes it visits: *)
(* a description is refused before anything is solved, or it is worked on  *)
(* for at most `budget` solve attempts; a verdict about the flowsheet      *)
(* (PASS, HUMAN) is given by an attempt and by nothing else; giving up     *)
(* (MAX_ITER, STALLED) makes no attempt; the first answer is final.        *)
(***************************************************************************)
EXTENDS Naturals

CONSTANT Budgets   \* a set of natural numbers

VARIABLES phase, budget, attempts, verdict
vars == <<phase, budget, attempts, verdict>>

Init ==
    /\ phase = "preparing"
    /\ budget \in Budgets
    /\ attempts = 0
    /\ verdict = "none"

(* The description cannot be turned into a flowsheet worth solving. *)
Refuse ==
    /\ phase = "preparing"
    /\ phase' = "done" /\ verdict' = "refused"
    /\ UNCHANGED <<budget, attempts>>

Admit ==
    /\ phase = "preparing"
    /\ phase' = "working"
    /\ UNCHANGED <<budget, attempts, verdict>>

(* One call of the solver and the classification of its result. *)
Attempt ==
    /\ phase = "working"
    /\ attempts < budget
    /\ attempts' = attempts + 1
    /\ \/ UNCHANGED <<phase, verdict>>
       \/ phase' = "done" /\ verdict' \in {"PASS", "HUMAN"}
       \/ phase' = "crashed" /\ UNCHANGED verdict
    /\ UNCHANGED budget

GiveUp ==
    /\ phase = "working"
    /\ phase' = "done" /\ verdict' = "gave_up"
    /\ UNCHANGED <<budget, attempts>>

(* run() raises: there is no result. *)
Crash ==
    /\ phase = "preparing"
    /\ phase' = "crashed"
    /\ UNCHANGED <<budget, attempts, verdict>>

Next == Refuse \/ Admit \/ Attempt \/ GiveUp \/ Crash

Spec == Init /\ [][Next]_vars

=============================================================================
