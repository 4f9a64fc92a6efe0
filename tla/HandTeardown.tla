------------------------------ MODULE HandTeardown ------------------------------
(***************************************************************************)
(* teardown and promote: the landed-work guard, the decision, the release  *)
(* of pane and worktree under a recorded claim, the completion record, the *)
(* end of the attempt.  The kind and the announced merge a teardown finds  *)
(* out are kept in memory (cmd.kind, cmd.merged) until the resources are   *)
(* released.                                                               *)
(***************************************************************************)
EXTENDS HandWorld

Settled == {"released", "abandoned"}
PaneUnsettled(a) == attempt[a].herdr # NoPane /\ attempt[a].settle["herdr"] \notin Settled
LeaseUnsettled(a) == attempt[a].worktree # NoLease /\ attempt[a].settle["worktree"] \notin Settled

SetResource(t, a, r, next) ==
    SetAttemptTeardownResourceState(t, a, attempt[a].life, r, next)

(* The store refuses: the transition table has no edge, or repeats itself.   *)
Refused(a, r, next) ==
    attempt[a].settle[r] \notin ResourceFrom[next] /\ attempt[a].settle[r] # next

(* The same state recorded again changes nothing and succeeds.               *)
SetResourceOrRepeat(t, a, r, next) ==
    \/ SetResource(t, a, r, next)
    \/ attempt[a].settle[r] = next /\ UNCHANGED storeVars

Launched(a) ==
    attempt[a].life # "provisioning" \/ attempt[a].submitted \/ attempt[a].confirmed

-----------------------------------------------------------------------------
(* completionFor *)

Landings == {"delivered", "done", "merged"}
Outcomes == {"failed", "torn-down", "unlanded"} \union Landings

LandedAs(t, kind, merged) ==
    IF "delivered" \in task[t].facts /\ ~merged THEN "delivered"
    ELSE IF kind = "scout" THEN "done"
    ELSE "merged"

Unworked == {"never-launched", "worker-never-started", "provisioning-unwound"}

(* Mutant: a forced end is told apart from a landing only in its detail.     *)
OutcomeDespiteForce(t, a, kind, merged, launched) ==
    IF attempt[a].reported = "failed" THEN "failed"
    ELSE IF ~launched \/ attempt[a].disposition \in Unworked THEN "torn-down"
    ELSE IF attempt[a].disposition = "worker-exited-unlanded" THEN "unlanded"
    ELSE LandedAs(t, kind, merged)

(* The worker's own word comes first: why hand ends an attempt says nothing  *)
(* of whether the worker succeeded.                                          *)
OutcomeOf(t, a, kind, merged, launched) ==
    IF attempt[a].reported = "failed" THEN "failed"
    ELSE IF ~launched \/ attempt[a].disposition \in Unworked \union {"forced"}
    THEN "torn-down"
    ELSE IF attempt[a].disposition = "worker-exited-unlanded" THEN "unlanded"
    ELSE LandedAs(t, kind, merged)

Merged(t) == task[t].facts \intersect {"merged", "announced"} # {}

-----------------------------------------------------------------------------
(* teardown *)

StartTeardown(t, force) ==
    /\ "teardown" \in Commands /\ cmd[t] = Idle
    /\ task[t].active # NoAttempt
    /\ cmd' = [cmd EXCEPT ![t] = [Idle EXCEPT !.op = "teardown", !.pc = "recover",
                                  !.att = task[t].active, !.force = force,
                                  !.kind = task[t].kind, !.merged = Merged(t)]]
    /\ LocalOnly

(* A completion record that is already on file ends the attempt; one that    *)
(* should be and is not stops the command.                                   *)
RecoverCompletion(t) ==
    LET a == cmd[t].att IN
    /\ At(t, "recover")
    /\ \/ /\ attempt[a].completion # "" /\ Found(a)
          /\ \/ /\ attempt[a].completion = "pending"
                /\ SetAttemptTeardownCompletionState(t, a, attempt[a].life, "appended")
             \/ attempt[a].completion = "appended" /\ UNCHANGED storeVars
          /\ Goto(t, "finish")
       \/ /\ attempt[a].completion = "appended" /\ ~Found(a)
          /\ Leave(t) /\ UNCHANGED storeVars
       \/ /\ \/ attempt[a].completion = ""
             \/ attempt[a].completion = "pending" /\ ~Found(a)
          /\ UNCHANGED storeVars
          /\ IF attempt[a].decided # ""
             THEN cmd' = [cmd EXCEPT ![t].pc = "claim_pane", ![t].safe =
                              attempt[a].disposition = "completed-safe-dirt"]
             ELSE IF cmd[t].force \/ ~Launched(a) THEN Goto(t, "decide")
             ELSE IF attempt[a].life = "provisioning" /\ attempt[a].worktree = NoLease
             THEN Leave(t)
             ELSE Goto(t, "examine")
    /\ StoreOnly

(* checkLandedWork up to the question whether the pull request is merged;    *)
(* safe is what git status says now.  The pull request it finds is recorded  *)
(* at once, the kind and the merge it finds stay in memory.                  *)
ExamineWork(t) ==
    LET tree == WorkIn(attempt[cmd[t].att].worktree)
        known == {"delivered", "pr"} \intersect task[t].facts
        Seen(pc, kind, merged) ==
            cmd' = [cmd EXCEPT ![t].pc = pc, ![t].safe = (tree.dirt = "scratch"),
                               ![t].kind = kind, ![t].merged = merged]
        NoPR == IF ~Merged(t) /\ report[t] /\ tree.commits = "none"
                THEN Seen("decide", "scout", cmd[t].merged)
                ELSE Leave(t)
    IN
    /\ At(t, "examine")
    /\ \/ /\ task[t].kind = "scout" /\ UNCHANGED storeVars
          /\ IF report[t] THEN Goto(t, "decide") ELSE Leave(t)
       \/ /\ task[t].kind = "ship" /\ tree.dirt = "dirty" /\ UNCHANGED storeVars
          /\ Leave(t)
       \/ /\ task[t].kind = "ship" /\ tree.dirt # "dirty"
          /\ \/ /\ "delivered" \in known /\ UNCHANGED storeVars
                /\ Seen("decide", "ship", cmd[t].merged)
             \/ /\ known = {"pr"} /\ UNCHANGED storeVars
                /\ Seen("merge_state", "ship", cmd[t].merged)
             \/ /\ known = {} /\ pr[t] # "none" /\ SetTaskPR(t)
                /\ Seen("merge_state", "ship", cmd[t].merged \/ pr[t] = "merged")
             \/ /\ known = {} /\ (pr[t] = "none" \/ Unobservable # {})
                /\ UNCHANGED storeVars /\ NoPR
    /\ StoreOnly

(* Mutant: a recorded pull request is taken for a merged one.                *)
TakeForMerged(t) ==
    /\ At(t, "merge_state")
    /\ Goto(t, "decide")
    /\ LocalOnly

ObserveMergeState(t) ==
    /\ At(t, "merge_state")
    /\ \/ pr[t] = "merged" /\ Goto(t, "decide")
       \/ (pr[t] # "merged" \/ Unobservable # {}) /\ Leave(t)
    /\ LocalOnly

(* Why an attempt was ended: TeardownDisposition.                            *)
TeardownDispositions ==
    {"completed", "completed-safe-dirt", "forced", "never-launched",
     "launched-provisioning", "worker-exited-unlanded", "provisioning-unwound",
     "worker-never-started"}

ASSUME DispositionAssumption == TeardownDispositions \subseteq Dispositions

(* teardownDecision *)
Decision(a, forced, safe) ==
    CASE forced -> [terminal |-> "interrupted", disposition |-> "forced"]
      [] ~forced /\ ~Launched(a) ->
            [terminal |-> "interrupted", disposition |-> "never-launched"]
      [] ~forced /\ Launched(a) /\ attempt[a].life = "provisioning" ->
            [terminal |-> "interrupted", disposition |-> "launched-provisioning"]
      [] ~forced /\ attempt[a].life = "running" ->
            [terminal |-> "completed",
             disposition |-> IF safe THEN "completed-safe-dirt" ELSE "completed"]

DecideTeardown(t) ==
    LET a == cmd[t].att
        d == Decision(a, cmd[t].force, cmd[t].safe) IN
    /\ At(t, "decide")
    /\ SetAttemptTeardownDecision(t, a, d.terminal, d.disposition)
    /\ Goto(t, "claim_pane")
    /\ StoreOnly

-----------------------------------------------------------------------------
(* releaseHerdr: a pane whose release is already claimed or doubtful is left *)
(* alone and the teardown goes on without it.                                *)

ClaimPane(t) ==
    LET a == cmd[t].att IN
    /\ At(t, "claim_pane")
    /\ IF PaneUnsettled(a) /\ attempt[a].settle["herdr"] \notin {"releasing", "ambiguous"}
       THEN SetResource(t, a, "herdr", "releasing") /\ Goto(t, "close")
       ELSE UNCHANGED storeVars /\ Goto(t, "claim_lease")
    /\ StoreOnly

ClosePane(t) ==
    /\ At(t, "close")
    /\ \/ CloseTab(attempt[cmd[t].att].herdr, "ok") /\ Goto(t, "closed")
       \/ CloseTab(attempt[cmd[t].att].herdr, "error") /\ Goto(t, "close_failed")
    /\ WorldOnly

RecordPaneClosed(t) ==
    /\ At(t, "closed") \/ At(t, "close_failed")
    /\ SetResource(t, cmd[t].att, "herdr",
                   IF At(t, "closed") THEN "released" ELSE "ambiguous")
    /\ Goto(t, "claim_lease")
    /\ StoreOnly

-----------------------------------------------------------------------------
(* releaseWorktree: only a lease that is exactly the recorded one is         *)
(* returned; an answer that is not exact is recorded as ambiguous, no answer *)
(* is not recorded; a return that is claimed is never repeated.              *)

ReturnForce(t) ==
    \/ cmd[t].force \/ cmd[t].safe
    \/ attempt[cmd[t].att].disposition \in {"forced", "completed-safe-dirt"}

ClaimLease(t) ==
    LET a == cmd[t].att
        now == attempt[a].settle["worktree"] IN
    /\ At(t, "claim_lease")
    /\ \/ ~LeaseUnsettled(a) /\ UNCHANGED storeVars /\ Goto(t, "facts")
       \/ /\ LeaseUnsettled(a) /\ UNCHANGED storeVars /\ Leave(t)
          /\ now = "releasing" \/ (now = "retryable" /\ ~ReturnForce(t))
       \/ /\ LeaseUnsettled(a)
          /\ now \in {"", "ambiguous"} \/ (now = "retryable" /\ ReturnForce(t))
          /\ \E seen \in LeaseSeen(attempt[a].worktree) :
                CASE seen = "exact" -> /\ SetResource(t, a, "worktree", "releasing")
                                       /\ Goto(t, "return")
                  [] seen = "unknown" -> UNCHANGED storeVars /\ Leave(t)
                  [] OTHER -> /\ SetResourceOrRepeat(t, a, "worktree", "ambiguous")
                              /\ Leave(t)
    /\ StoreOnly

ReturnWorktree(t) ==
    LET Returns(result) ==
            ReturnLease(attempt[cmd[t].att].worktree, ReturnForce(t), result) IN
    /\ At(t, "return")
    /\ \/ Returns("ok") /\ Goto(t, "return_ok")
       \/ Returns("aborted") /\ Goto(t, "return_aborted")
       \/ Returns("error") /\ Goto(t, "return_error")
    /\ WorldOnly

(* Mutant: an error of a forced return is taken for success.                 *)
RecordReturnedAnyway(t) ==
    /\ At(t, "return_ok") \/ At(t, "return_aborted") \/ At(t, "return_error")
    /\ SetResource(t, cmd[t].att, "worktree", "released")
    /\ Goto(t, "facts")
    /\ StoreOnly

RecordReturned(t) ==
    LET a == cmd[t].att IN
    /\ \/ /\ At(t, "return_ok")
          /\ SetResource(t, a, "worktree", "released") /\ Goto(t, "facts")
       \/ /\ At(t, "return_aborted")
          /\ SetResource(t, a, "worktree", "retryable") /\ Leave(t)
       \/ /\ At(t, "return_error")
          /\ SetResource(t, a, "worktree", "ambiguous") /\ Leave(t)
    /\ StoreOnly

-----------------------------------------------------------------------------
(* What the guard found out, the completion record, the end *)

RecordFacts(t) ==
    /\ At(t, "facts")
    /\ IF cmd[t].kind # task[t].kind
       THEN SetTaskKind(t, cmd[t].kind) /\ UNCHANGED cmd
       ELSE IF cmd[t].merged /\ ~Merged(t) /\ "announced" \in FactNames
       THEN SetTaskMergeAnnounced(t) /\ UNCHANGED cmd
       ELSE /\ \/ SetAttemptTeardownCompletionState(t, cmd[t].att,
                       attempt[cmd[t].att].life, "pending")
               \/ attempt[cmd[t].att].completion = "pending" /\ UNCHANGED storeVars
            /\ Goto(t, "append")
    /\ StoreOnly

(* Mutant: the error of the append is dropped.                               *)
AppendUnchecked(t) ==
    LET a == cmd[t].att
        outcome == OutcomeOf(t, a, cmd[t].kind, cmd[t].merged, Launched(a)) IN
    /\ At(t, "append")
    /\ \E result \in {"ok", "error"} : AppendRecord(a, outcome, result)
    /\ Goto(t, "appended")
    /\ UNCHANGED <<storeVars, external>>

AppendCompletion(t) ==
    LET a == cmd[t].att
        outcome == OutcomeOf(t, a, cmd[t].kind, cmd[t].merged, Launched(a)) IN
    /\ At(t, "append")
    /\ \/ AppendRecord(a, outcome, "ok") /\ Goto(t, "appended")
       \/ AppendRecord(a, outcome, "error") /\ Leave(t)
    /\ UNCHANGED <<storeVars, external>>

RecordAppended(t) ==
    LET a == cmd[t].att IN
    /\ At(t, "appended")
    /\ SetAttemptTeardownCompletionState(t, a, attempt[a].life, "appended")
    /\ Goto(t, "finish")
    /\ StoreOnly

(* Mutant: a retry with --force ends the attempt as forced.                  *)
FinishAsAsked(t) ==
    LET a == cmd[t].att IN
    /\ At(t, "finish")
    /\ TerminalizeTaskAndAttempt(t, a, attempt[a].life,
          IF cmd[t].force THEN "interrupted" ELSE attempt[a].decided)
    /\ Leave(t)
    /\ StoreOnly

FinishTeardown(t) ==
    LET a == cmd[t].att IN
    /\ At(t, "finish")
    /\ TerminalizeTaskAndAttempt(t, a, attempt[a].life, attempt[a].decided)
    /\ Leave(t)
    /\ StoreOnly

-----------------------------------------------------------------------------
TeardownStep(t) ==
    \/ \E force \in BOOLEAN : StartTeardown(t, force)
    \/ RecoverCompletion(t)
    \/ ExamineWork(t)
    \/ ObserveMergeState(t)
    \/ DecideTeardown(t)
    \/ ClaimPane(t)
    \/ ClosePane(t)
    \/ RecordPaneClosed(t)
    \/ ClaimLease(t)
    \/ ReturnWorktree(t)
    \/ RecordReturned(t)
    \/ RecordFacts(t)
    \/ AppendCompletion(t)
    \/ RecordAppended(t)
    \/ FinishTeardown(t)

=============================================================================
