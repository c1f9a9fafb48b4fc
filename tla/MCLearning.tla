----------------------------- MODULE MCLearning -----------------------------
(* Small instances of Learning.                                            *)
EXTENDS Learning

CONSTANTS full, null, k1

(* --runs 2, --runs 2 --accumulate-rules and one uncleared run. *)
MultiRun == {<<[mode |-> full, clear |-> c], [mode |-> full, clear |-> c]>> :
                c \in BOOLEAN}

(* --ablation: an arm per mode, the file is never cleared. *)
Ablation == {<<[mode |-> full, clear |-> FALSE], [mode |-> null, clear |-> FALSE],
               [mode |-> full, clear |-> FALSE]>>}

(* Every driver, one launch after another over the same file. *)
AllPlans == MultiRun \cup Ablation

=============================================================================
