----------------------------- MODULE HandProvision -----------------------------
(***************************************************************************)
(* spawn, reopen and the launch pipeline they share with promote and       *)
(* reconcile (provisionLocked): lease, worktree, pane, launch, handshake,  *)
(* each recorded after it happened, and the unwinding of failProvision.    *)
(* The command's lease and pane are held in memory until they are          *)
(* recorded: a crash forgets them.                                         *)
(***************************************************************************)
EXTENDS HandWorld

(* A launch that starts from what attempt a records; an attempt that has a   *)
(* worktree is resumed and its lease is never returned by this launch.       *)
Launch(op, a, owned) ==
    [Idle EXCEPT !.op = op, !.att = a, !.lease = owned, !.resume = owned # NoLease,
                 !.pc = IF owned = NoLease THEN "get" ELSE "check"]

StartSpawn(t, a, kind) ==
    /\ "spawn" \in Commands /\ cmd[t] = Idle
    /\ CreateTaskWithAttempt(t, a, kind)
    /\ cmd' = [cmd EXCEPT ![t] = Launch("spawn", a, NoLease)]
    /\ StoreOnly

StartReopen(t, a) ==
    /\ "reopen" \in Commands /\ cmd[t] = Idle
    /\ ReopenTask(t, a)
    /\ cmd' = [cmd EXCEPT ![t] = Launch("reopen", a, NoLease)]
    /\ StoreOnly

MayFail == "provision_error" \in Events

(* Where a failed launch goes once no pane is left to close.                 *)
FailWithoutPane(t) == IF cmd[t].resume THEN Leave(t) ELSE Goto(t, "return_lease")

-----------------------------------------------------------------------------
GetLease(t) ==
    /\ At(t, "get")
    /\ \/ \E l \in Leases :
             /\ lease[l] = "unissued"
             /\ lease' = [lease EXCEPT ![l] = "held"]
             /\ cmd' = [cmd EXCEPT ![t].lease = l, ![t].pc = "record"]
       \/ /\ MayFail \/ \A l \in Leases : lease[l] # "unissued"
          /\ Leave(t) /\ UNCHANGED lease
    /\ UNCHANGED <<work, pane, pr, report>>
    /\ WorldOnly

RecordLease(t) ==
    /\ At(t, "record")
    /\ RecordAttemptWorktree(t, cmd[t].att, cmd[t].lease)
    /\ Goto(t, "check")
    /\ StoreOnly

(* A stale mechanical plan, a lease another task records, a harness that     *)
(* cannot be built, or a resumed lease that is not exactly the recorded one. *)
CheckWorktree(t) ==
    /\ At(t, "check")
    /\ \/ /\ cmd[t].resume => "exact" \in LeaseSeen(cmd[t].lease)
          /\ Goto(t, "pane")
       \/ /\ MayFail \/ (cmd[t].resume /\ LeaseSeen(cmd[t].lease) # {"exact"})
          /\ FailWithoutPane(t)
    /\ LocalOnly

OpenPane(t) ==
    /\ At(t, "pane")
    /\ \/ \E p \in Panes :
             /\ pane[p].state = "unissued"
             /\ pane' = [pane EXCEPT ![p] = NewPane(cmd[t].lease)]
             /\ cmd' = [cmd EXCEPT ![t].pane = p, ![t].pc = "herdr"]
       \/ /\ MayFail \/ \A p \in Panes : pane[p].state # "unissued"
          /\ FailWithoutPane(t) /\ UNCHANGED pane
    /\ UNCHANGED <<lease, work, pr, report>>
    /\ WorldOnly

RecordPane(t) ==
    /\ At(t, "herdr")
    /\ RecordAttemptHerdr(t, cmd[t].att, cmd[t].pane)
    /\ Goto(t, "run")
    /\ StoreOnly

(* PaneRunSpec types the launch into the pane's shell; it may fail after it  *)
(* was typed.                                                                *)
RunWorker(t) ==
    /\ At(t, "run")
    /\ \/ /\ pane[cmd[t].pane].state = "shell"
          /\ pane' = [pane EXCEPT ![cmd[t].pane].state = "agent"]
          /\ Goto(t, "submit") \/ (MayFail /\ Goto(t, "close_pane"))
       \/ /\ MayFail \/ pane[cmd[t].pane].state # "shell"
          /\ Goto(t, "close_pane") /\ UNCHANGED pane
    /\ UNCHANGED <<lease, work, pr, report>>
    /\ WorldOnly

RecordSubmitted(t) ==
    /\ At(t, "submit")
    /\ MarkLaunchSubmitted(t, cmd[t].att)
    /\ Goto(t, "confirm")
    /\ StoreOnly

(* Mutant: the worker is there, so it runs; the handshake is not recorded.   *)
ConfirmAndRun(t) ==
    /\ At(t, "confirm")
    /\ pane[cmd[t].pane].state = "agent"
    /\ attempt' = [attempt EXCEPT ![cmd[t].att].life = "running"]
    /\ Leave(t)
    /\ UNCHANGED task /\ StoreOnly

(* confirmLaunch polls until the worker's process is there, or gives up.     *)
ConfirmWorker(t) ==
    /\ At(t, "confirm")
    /\ \/ pane[cmd[t].pane].state = "agent" /\ Goto(t, "confirmed")
       \/ /\ MayFail \/ pane[cmd[t].pane].state # "agent"
          /\ Goto(t, "close_pane")
    /\ LocalOnly

RecordConfirmed(t) ==
    /\ At(t, "confirmed")
    /\ MarkLaunchConfirmed(t, cmd[t].att)
    /\ Goto(t, "running")
    /\ StoreOnly

RecordRunning(t) ==
    /\ At(t, "running")
    /\ MarkAttemptRunning(t, cmd[t].att)
    /\ IF cmd[t].op = "reconcile"
       THEN cmd' = [cmd EXCEPT ![t] = [Idle EXCEPT !.op = "reconcile", !.pc = "observe"]]
       ELSE Leave(t)
    /\ StoreOnly

-----------------------------------------------------------------------------
(* failProvision: the pane first; its record is cleared only if it closed;   *)
(* the lease is returned by force whatever became of the pane.               *)

(* Mutant: the record is cleared although the pane did not close.            *)
RollbackPaneUnchecked(t) ==
    /\ At(t, "close_pane")
    /\ \E result \in {"ok", "error"} : CloseTab(cmd[t].pane, result)
    /\ Goto(t, "clear_pane")
    /\ WorldOnly

RollbackPane(t) ==
    /\ At(t, "close_pane")
    /\ \/ CloseTab(cmd[t].pane, "ok") /\ Goto(t, "clear_pane")
       \/ CloseTab(cmd[t].pane, "error") /\ FailWithoutPane(t)
    /\ WorldOnly

ClearPane(t) ==
    /\ At(t, "clear_pane")
    /\ ClearAttemptHerdr(t, cmd[t].att)
    /\ FailWithoutPane(t)
    /\ StoreOnly

(* Mutant: the lease record is cleared before the lease is returned.         *)
ReturnLeaseUnchecked(t) ==
    /\ At(t, "return_lease")
    /\ \E result \in {"ok", "error"} : ReturnLease(cmd[t].lease, TRUE, result)
    /\ Goto(t, "clear_lease")
    /\ WorldOnly

ReturnProvisioned(t) ==
    /\ At(t, "return_lease")
    /\ \/ ReturnLease(cmd[t].lease, TRUE, "ok") /\ Goto(t, "clear_lease")
       \/ ReturnLease(cmd[t].lease, TRUE, "error") /\ Leave(t)
    /\ WorldOnly

ClearLease(t) ==
    /\ At(t, "clear_lease")
    /\ ClearAttemptWorktree(t, cmd[t].att)
    /\ Leave(t)
    /\ StoreOnly

ProvisionStep(t) ==
    \/ \E a \in Attempts : \/ \E kind \in Kinds : StartSpawn(t, a, kind)
                           \/ StartReopen(t, a)
    \/ GetLease(t)
    \/ RecordLease(t)
    \/ CheckWorktree(t)
    \/ OpenPane(t)
    \/ RecordPane(t)
    \/ RunWorker(t)
    \/ RecordSubmitted(t)
    \/ ConfirmWorker(t)
    \/ RecordConfirmed(t)
    \/ RecordRunning(t)
    \/ RollbackPane(t)
    \/ ClearPane(t)
    \/ ReturnProvisioned(t)
    \/ ClearLease(t)

=============================================================================
