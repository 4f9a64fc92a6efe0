------------------------------ MODULE MCHandStore ------------------------------
(***************************************************************************)
(* The database contract on a small table, cut to two scopes that cover    *)
(* what HandStore's properties are about: two tasks that compete for two   *)
(* attempt rows, and one task whose only attempt is provisioned and        *)
(* settled in full; what its worker reported is kept only until then.      *)
(***************************************************************************)
EXTENDS HandStore, TLC

TaskSymmetry == Permutations(Tasks)

(* What a teardown and the provisioning fill in is left empty.               *)
OwnersOnly ==
    /\ \A t \in Tasks : task[t].repair = ""
    /\ \A a \in Attempts :
          /\ attempt[a].worktree = NoLease /\ attempt[a].herdr = NoPane
          /\ attempt[a].disposition # "completed"
          /\ attempt[a].completion = "" /\ attempt[a].reported = ""
          /\ \A r \in Resources : attempt[a].settle[r] = ""

OneAttempt ==
    /\ \A t, u \in Tasks : t = u \/ "absent" \in {task[t].life, task[u].life}
    /\ \A a \in Attempts : a = 1 \/ attempt[a].life = "absent"
    /\ \A a \in Attempts : attempt[a].reported # "" =>
          \A r \in Resources : attempt[a].settle[r] = ""

(* The state constraint of the run.                                          *)
InScope == OwnersOnly \/ OneAttempt

=============================================================================
