------------------------------- MODULE HandReconcile -------------------------------
(***************************************************************************)
(* reconcile: observe, decide, write or act, observe again.  A turn of the *)
(* loop starts at "observe"; what it observes and the first thing it       *)
(* writes are one step here, since only the holder of the task's lock      *)
(* writes these rows and the write does not look at the world again.  The  *)
(* limit of eight turns and the fingerprint that notices a turn without    *)
(* effect are left out: they only end the command earlier.                 *)
(***************************************************************************)
EXTENDS HandProvision, HandTeardown

Again(t) == Goto(t, "observe")

(* recordRepair: the same diagnosis is not written twice.                    *)
Diagnose(t, code, a) ==
    /\ \/ SetTaskRepair(t, code, a)
       \/ task[t].repair = code /\ task[t].repairAttempt = a /\ UNCHANGED storeVars
    /\ Leave(t)

PaneCodes ==
    {"provisioning-launch-ambiguous", "provisioning-pane-missing",
     "launch-submitted-pane-missing", "launch-agent-mismatch", "running-pane-missing",
     "running-pane-identity-mismatch", "herdr-ownership-incomplete",
     "herdr-ownership-mismatch", "teardown-resource-ambiguous"}
LeaseCodes ==
    {"worktree-dirty", "worktree-ownership-mismatch", "worktree-ownership-unobservable",
     "worktree-local-commits", "worktree-commit-safety-unknown"}

ReconcileCodes == PaneCodes \union LeaseCodes \union {"completion-evidence-mismatch"}

ASSUME ReconcileAssumption == RepairCodes = ReconcileCodes

StartReconcile(t, attest) ==
    /\ "reconcile" \in Commands /\ cmd[t] = Idle
    /\ task[t].life # "absent"
    /\ attest = "none" \/ "attests" \in Events
    /\ cmd' = [cmd EXCEPT ![t] = [Idle EXCEPT !.op = "reconcile", !.pc = "observe",
                                              !.attest = attest]]
    /\ LocalOnly

-----------------------------------------------------------------------------
(* Whose turn it is *)

(* clearHistoricalRepair                                                     *)
Clearable(t, a, codes) ==
    task[t].repair \in codes /\ task[t].repairAttempt \in {NoAttempt, a}

(* pendingHistoricalAttempt looks for the first of these.                    *)
History(t) ==
    {a \in Attempts : /\ attempt[a].owner = t /\ attempt[a].life \in TerminalStates
                      /\ \/ PaneUnsettled(a) \/ LeaseUnsettled(a)
                         \/ attempt[a].completion # ""}

(* Mutant: a record on file is taken for the end of an attempt's story.      *)
InertByRecord(t, a) == attempt[a].completion = "appended" /\ Found(a)

(* Nothing is left to do for an attempt whose record is on file.             *)
Inert(t, a) ==
    /\ ~PaneUnsettled(a) /\ ~LeaseUnsettled(a)
    /\ attempt[a].completion = "appended" /\ Found(a)
    /\ ~Clearable(t, a, {"completion-evidence-mismatch"})
    /\ attempt[a].decided \in {"", attempt[a].life}

(* The first attempt of the history shadows the rest of it, inert or not.    *)
Oldest(t) == {a \in History(t) : \A b \in History(t) : a <= b}
Quiet(t) == \A a \in Oldest(t) : Inert(t, a)

(* clearResolvedTerminalRepair                                               *)
RepairResolved(t) ==
    LET a == task[t].repairAttempt IN
    /\ a # NoAttempt /\ attempt[a].life \in TerminalStates
    /\ \/ task[t].repair \in PaneCodes /\ ~PaneUnsettled(a)
       \/ task[t].repair \in LeaseCodes /\ ~LeaseUnsettled(a)
    /\ attempt[a].decided # "" => attempt[a].completion = "appended" /\ Found(a)

NeverAttested(t, a) == cmd[t].attest = "never" /\ attempt[a].decided = ""

(* The merge evidence comes first: without it nothing else is looked at.     *)
MergeUnseen(t) == Merged(t) /\ Unobservable # {}

Settling(t, a) ==
    /\ At(t, "observe")
    /\ \/ ~Quiet(t) /\ a \in Oldest(t)
       \/ /\ Quiet(t) /\ ~RepairResolved(t)
          /\ a = task[t].active /\ attempt[a].decided # ""

ObserveNothing(t) ==
    /\ At(t, "observe")
    /\ \/ MergeUnseen(t)
       \/ Quiet(t) /\ ~RepairResolved(t) /\ task[t].active = NoAttempt
    /\ Leave(t)
    /\ LocalOnly

ClearResolved(t) ==
    /\ At(t, "observe") /\ Quiet(t) /\ RepairResolved(t)
    /\ ClearTaskRepair(t, task[t].repair)
    /\ Again(t)
    /\ StoreOnly

-----------------------------------------------------------------------------
(* reconcileHistoricalAttempt, which also finishes a decided active attempt: *)
(* its pane, then its worktree, then its completion record.                  *)

ClearOr(t, a, codes, otherwise) ==
    IF Clearable(t, a, codes)
    THEN ClearTaskRepair(t, task[t].repair) /\ Again(t)
    ELSE otherwise

ClaimThen(t, a, r, from, pc) ==
    /\ IF attempt[a].settle[r] \in from
       THEN SetResource(t, a, r, "releasing")
       ELSE UNCHANGED storeVars
    /\ cmd' = [cmd EXCEPT ![t].att = a, ![t].pc = pc]

(* Mutant: a resource the operator gives up is recorded as released.         *)
AbandonAsReleased(t, a, r) ==
    ClaimThen(t, a, r, ResourceFrom["releasing"],
              IF r = "herdr" THEN "pane_closed" ELSE "lease_returned")

(* recordAbandonedResource *)
Abandon(t, a, r) ==
    IF attempt[a].settle[r] = "releasing"
    THEN /\ SetResource(t, a, r, "ambiguous")
         /\ cmd' = [cmd EXCEPT ![t].att = a,
                               ![t].pc = IF r = "herdr" THEN "abandon_herdr"
                                                        ELSE "abandon_worktree"]
    ELSE SetResource(t, a, r, "abandoned") /\ Again(t)

SettlePane(t, a) ==
    LET codes == {"teardown-resource-ambiguous", "herdr-ownership-mismatch"}
        Claim(pc) == ClearOr(t, a, codes, ClaimThen(t, a, "herdr", {""}, pc)) IN
    /\ Settling(t, a) /\ PaneUnsettled(a)
    /\ \E seen \in PaneSeen(attempt[a].herdr) :
          CASE seen = "unknown" -> Leave(t) /\ UNCHANGED storeVars
            [] seen = "mismatch" ->
                  IF cmd[t].attest = "pane" THEN Abandon(t, a, "herdr")
                  ELSE Diagnose(t, "teardown-resource-ambiguous", a)
            [] seen = "absent" -> Claim("pane_closed")
            [] seen \in {"agent", "shell"} -> Claim("close_settled")
    /\ StoreOnly

CloseSettled(t) ==
    LET p == attempt[cmd[t].att].herdr IN
    /\ At(t, "close_settled")
    /\ \/ CloseTab(p, "ok") /\ Goto(t, "pane_closed")
       \/ CloseTab(p, "error") /\ Goto(t, "pane_unclosed")
    /\ WorldOnly

(* A refusal by the store ends the command, with the pane gone all the same. *)
RecordSettled(t) ==
    LET a == cmd[t].att
        Released(r) == \/ SetResource(t, a, r, "released") /\ Again(t)
                       \/ Refused(a, r, "released") /\ UNCHANGED storeVars /\ Leave(t) IN
    /\ \/ At(t, "pane_closed") /\ Released("herdr")
       \/ At(t, "lease_returned") /\ Released("worktree")
       \/ /\ At(t, "pane_unclosed")
          /\ SetResourceOrRepeat(t, a, "herdr", "ambiguous") /\ Leave(t)
    /\ StoreOnly

RecordAbandoned(t) ==
    /\ \/ At(t, "abandon_herdr") /\ SetResource(t, cmd[t].att, "herdr", "abandoned")
       \/ At(t, "abandon_worktree") /\ SetResource(t, cmd[t].att, "worktree", "abandoned")
    /\ Again(t)
    /\ StoreOnly

(* Mutant: a clean worktree is taken for proof that nothing would be lost.   *)
CleanIsSafe(tree) == {"durable"}

(* resolveWorktreeCommitSafety: a commit on no remote is on no pull request. *)
CommitSafety(tree) ==
    Unobservable \union {IF tree.commits = "local" THEN "local" ELSE "durable"}

SettleLease(t, a) ==
    LET tree == WorkIn(attempt[a].worktree)
        Claim(codes, from, pc) ==
            ClearOr(t, a, codes, ClaimThen(t, a, "worktree", from, pc)) IN
    /\ Settling(t, a) /\ ~PaneUnsettled(a) /\ LeaseUnsettled(a)
    /\ \E seen \in LeaseSeen(attempt[a].worktree) :
          \/ /\ seen = "unknown"
             /\ IF cmd[t].attest = "worktree" THEN Abandon(t, a, "worktree")
                ELSE Diagnose(t, "worktree-ownership-unobservable", a)
          \/ /\ seen = "mismatch"
             /\ ClearOr(t, a, {"worktree-ownership-mismatch", "worktree-ownership-unobservable"},
                        Abandon(t, a, "worktree"))
          \/ /\ seen = "absent"
             /\ Claim(LeaseCodes \ {"worktree-dirty"}, {}, "lease_returned")
          \/ /\ seen = "exact" /\ tree.dirt # "clean"
             /\ Diagnose(t, "worktree-dirty", a)
          \/ /\ seen = "exact" /\ tree.dirt = "clean"
             /\ \E safety \in CommitSafety(tree) :
                   CASE safety = "local" -> Diagnose(t, "worktree-local-commits", a)
                     [] safety = "unknown" -> Diagnose(t, "worktree-commit-safety-unknown", a)
                     [] safety = "durable" -> Claim(LeaseCodes, {"", "ambiguous"},
                                                    "return_settled")
    /\ StoreOnly

ReturnSettled(t) ==
    LET l == attempt[cmd[t].att].worktree IN
    /\ At(t, "return_settled")
    /\ \/ ReturnLease(l, FALSE, "ok") /\ Goto(t, "lease_returned")
       \/ \E result \in {"aborted", "error"} : ReturnLease(l, FALSE, result) /\ Leave(t)
    /\ WorldOnly

(* The lifecycle the record names is the decided one, the guess whether the  *)
(* worker was launched is made from the row.                                 *)
SettleCompletion(t, a) ==
    LET launched == \/ attempt[a].submitted \/ attempt[a].confirmed
                    \/ attempt[a].life # "interrupted"
        outcome == OutcomeOf(t, a, task[t].kind, Merged(t), launched) IN
    /\ Settling(t, a) /\ ~PaneUnsettled(a) /\ ~LeaseUnsettled(a)
    /\ \/ /\ attempt[a].completion = ""
          /\ SetAttemptTeardownCompletionState(t, a, attempt[a].life, "pending")
          /\ Again(t) /\ UNCHANGED completions
       \/ /\ attempt[a].completion = "pending" /\ ~Found(a) /\ UNCHANGED storeVars
          /\ \/ /\ AppendRecord(a, outcome, "ok")
                /\ cmd' = [cmd EXCEPT ![t].att = a, ![t].pc = "settled_appended"]
             \/ AppendRecord(a, outcome, "error") /\ Leave(t)
       \/ /\ attempt[a].completion = "pending" /\ Found(a)
          /\ SetAttemptTeardownCompletionState(t, a, attempt[a].life, "appended")
          /\ Again(t) /\ UNCHANGED completions
       \/ /\ attempt[a].completion = "appended" /\ ~Found(a)
          /\ Diagnose(t, "completion-evidence-mismatch", a) /\ UNCHANGED completions
       \/ /\ attempt[a].completion = "appended" /\ Found(a)
          /\ ClearOr(t, a, {"completion-evidence-mismatch"},
                \/ TerminalizeTaskAndAttempt(t, a, attempt[a].life, attempt[a].decided)
                   /\ Again(t)
                \/ ~ValidAttemptTransition(attempt[a].life, attempt[a].decided)
                   /\ UNCHANGED storeVars /\ Leave(t))
          /\ UNCHANGED completions
    /\ UNCHANGED external

RecordSettledCompletion(t) ==
    LET a == cmd[t].att IN
    /\ At(t, "settled_appended")
    /\ SetAttemptTeardownCompletionState(t, a, attempt[a].life, "appended")
    /\ Again(t)
    /\ StoreOnly

-----------------------------------------------------------------------------
(* An active attempt nobody has decided about *)

Undecided(t, a) ==
    /\ At(t, "observe") /\ Quiet(t) /\ ~RepairResolved(t)
    /\ a = task[t].active /\ attempt[a].decided = ""

(* attestAttemptNeverStarted: the operator's word, unless something says     *)
(* otherwise.  Report lines nobody recorded yet refuse it too: it may always  *)
(* be refused.                                                               *)
AttestNeverStarted(t, a) ==
    LET tree == WorkIn(attempt[a].worktree) IN
    /\ Undecided(t, a) /\ NeverAttested(t, a)
    /\ \/ /\ attempt[a].life = "running" /\ ~attempt[a].verified
          /\ attempt[a].reported = ""
          /\ task[t].facts = {} /\ tree.dirt = "clean" /\ tree.commits # "local"
          /\ SetAttemptTeardownDecision(t, a, "interrupted", "worker-never-started")
          /\ Again(t)
       \/ UNCHANGED storeVars /\ Leave(t)
    /\ StoreOnly

(* observeLanding, asked when a running attempt's pane is gone.              *)
Landing(t) ==
    IF "delivered" \in task[t].facts \/ Merged(t) THEN {"landed"}
    ELSE IF task[t].kind = "scout"
    THEN {IF report[t] THEN "landed" ELSE "unlanded"}
    ELSE IF "pr" \notin task[t].facts THEN {"unlanded"}
    ELSE Unobservable \union {IF pr[t] = "merged" THEN "landed" ELSE "unlanded"}

(* decideReconciliation and decideProvisioning: a repair code or an action.  *)
DecideProvisioning(a, seenPane) ==
    IF attempt[a].herdr # NoPane THEN
        CASE ~attempt[a].submitted -> "provisioning-launch-ambiguous"
          [] attempt[a].submitted /\ seenPane = "absent" -> "launch-submitted-pane-missing"
          [] attempt[a].submitted /\ seenPane = "mismatch" -> "herdr-ownership-mismatch"
          [] attempt[a].submitted /\ seenPane = "shell" -> "launch-agent-mismatch"
          [] OTHER -> IF attempt[a].confirmed THEN "mark-running" ELSE "confirm-launch"
    ELSE IF attempt[a].submitted THEN
        IF attempt[a].worktree = NoLease THEN "unwind" ELSE "provisioning-pane-missing"
    ELSE IF WorkIn(attempt[a].worktree).dirt # "clean" THEN "worktree-dirty"
    ELSE "continue-provisioning"

DecideRunning(seenPane) ==
    CASE seenPane = "agent" -> "keep"
      [] seenPane = "absent" -> "running-pane-missing"
      [] seenPane = "mismatch" -> "running-pane-identity-mismatch"
      [] seenPane = "shell" -> "launch-agent-mismatch"

Decide(a, seenLease, seenPane, landing) ==
    IF attempt[a].life = "running" /\ seenPane = "absent" /\ landing # "unknown"
    THEN IF landing = "landed" THEN "converge-landed" ELSE "converge-unlanded"
    ELSE IF attempt[a].worktree # NoLease /\ seenLease # "exact"
    THEN IF seenLease = "unknown" THEN "worktree-ownership-unobservable"
         ELSE "worktree-ownership-mismatch"
    ELSE IF attempt[a].life = "provisioning" THEN DecideProvisioning(a, seenPane)
    ELSE DecideRunning(seenPane)

Endings ==
    [e \in {"converge-landed", "converge-unlanded", "unwind"} |->
        CASE e = "converge-landed" -> <<"completed", "completed">>
          [] e = "converge-unlanded" -> <<"interrupted", "worker-exited-unlanded">>
          [] e = "unwind" -> <<"interrupted", "provisioning-unwound">>]

(* shouldClearRepair *)
Outdated(t, a, seenLease, seenPane) ==
    /\ task[t].repairAttempt \in {NoAttempt, a}
    /\ \/ /\ seenPane = "agent"
          /\ task[t].repair \in PaneCodes \ {"provisioning-launch-ambiguous",
                                             "teardown-resource-ambiguous"}
       \/ /\ seenLease = "exact"
          /\ task[t].repair \in {"worktree-dirty", "worktree-ownership-mismatch",
                                 "worktree-ownership-unobservable"}
          /\ \/ attempt[a].life = "running" /\ task[t].repair # "worktree-dirty"
             \/ WorkIn(attempt[a].worktree).dirt = "clean"

Apply(t, a, verdict) ==
    CASE verdict = "keep" -> Leave(t) /\ UNCHANGED storeVars
      [] verdict = "continue-provisioning" ->
            /\ cmd' = [cmd EXCEPT ![t] = Launch("reconcile", a, attempt[a].worktree)]
            /\ UNCHANGED storeVars
      [] verdict = "confirm-launch" ->
            \/ MarkLaunchConfirmed(t, a) /\ Again(t)
            \/ MayFail /\ UNCHANGED storeVars /\ Leave(t)
      [] verdict = "mark-running" -> MarkAttemptRunning(t, a) /\ Again(t)

(* A pane whose launch was never recorded as submitted is not looked at.     *)
ObserveActive(t, a) ==
    /\ Undecided(t, a) /\ ~NeverAttested(t, a)
    /\ \E seenLease \in IF attempt[a].worktree = NoLease THEN {"none"}
                        ELSE LeaseSeen(attempt[a].worktree),
          seenPane \in IF \/ attempt[a].herdr = NoPane
                          \/ attempt[a].life = "provisioning" /\ ~attempt[a].submitted
                       THEN {"none"} ELSE PaneSeen(attempt[a].herdr),
          landing \in Landing(t) :
          LET verdict == Decide(a, seenLease, seenPane, landing) IN
          IF seenPane = "unknown" THEN Leave(t) /\ UNCHANGED storeVars
          ELSE IF verdict \in ReconcileCodes THEN Diagnose(t, verdict, a)
          ELSE IF verdict \in DOMAIN Endings
          THEN /\ SetAttemptTeardownDecision(t, a, Endings[verdict][1], Endings[verdict][2])
               /\ cmd' = [cmd EXCEPT ![t].att = a, ![t].pc = "end_pending"]
          ELSE IF Outdated(t, a, seenLease, seenPane)
          THEN ClearTaskRepair(t, task[t].repair) /\ Again(t)
          ELSE IF task[t].repair # "" THEN Leave(t) /\ UNCHANGED storeVars
          ELSE Apply(t, a, verdict)
    /\ StoreOnly

-----------------------------------------------------------------------------
(* terminalizeWithoutRelease: the attempt ends before its resources do; the  *)
(* next turn finds it in the history.                                        *)

EndPending(t) ==
    LET a == cmd[t].att IN
    /\ At(t, "end_pending")
    /\ SetAttemptTeardownCompletionState(t, a, attempt[a].life, "pending")
    /\ Goto(t, "end_append")
    /\ StoreOnly

EndAppend(t) ==
    LET a == cmd[t].att
        outcome == OutcomeOf(t, a, task[t].kind, Merged(t), TRUE) IN
    /\ At(t, "end_append")
    /\ \/ AppendRecord(a, outcome, "ok") /\ Goto(t, "end_appended")
       \/ AppendRecord(a, outcome, "error") /\ Leave(t)
    /\ UNCHANGED <<storeVars, external>>

EndAppended(t) ==
    LET a == cmd[t].att IN
    /\ At(t, "end_appended")
    /\ SetAttemptTeardownCompletionState(t, a, attempt[a].life, "appended")
    /\ Goto(t, "end")
    /\ StoreOnly

EndAttempt(t) ==
    LET a == cmd[t].att IN
    /\ At(t, "end")
    /\ TerminalizeTaskAndAttempt(t, a, attempt[a].life, attempt[a].decided)
    /\ Again(t)
    /\ StoreOnly

ReconcileStep(t) ==
    \/ \E attest \in Attestations : StartReconcile(t, attest)
    \/ ObserveNothing(t)
    \/ ClearResolved(t)
    \/ CloseSettled(t)
    \/ RecordSettled(t)
    \/ RecordAbandoned(t)
    \/ ReturnSettled(t)
    \/ RecordSettledCompletion(t)
    \/ EndPending(t)
    \/ EndAppend(t)
    \/ EndAppended(t)
    \/ EndAttempt(t)
    \/ \E a \in Attempts :
          \/ SettlePane(t, a)
          \/ SettleLease(t, a)
          \/ SettleCompletion(t, a)
          \/ AttestNeverStarted(t, a)
          \/ ObserveActive(t, a)

=============================================================================
