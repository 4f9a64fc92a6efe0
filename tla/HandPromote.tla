------------------------------- MODULE HandPromote -------------------------------
(***************************************************************************)
(* promote: the scout is completed and the ship attempt inserted in one    *)
(* transaction, then the scout's pane and worktree are released as far as  *)
(* they let themselves, and the ship is launched like any other attempt.   *)
(***************************************************************************)
EXTENDS HandProvision, HandTeardown

StartPromote(t, a) ==
    LET scout == task[t].active IN
    /\ "promote" \in Commands /\ cmd[t] = Idle
    /\ scout # NoAttempt /\ report[t]
    /\ PromoteTask(t, scout, attempt[scout].life, a)
    /\ cmd' = [cmd EXCEPT ![t] = [Idle EXCEPT !.op = "promote", !.pc = "scout_pane",
                                              !.att = a, !.scout = scout]]
    /\ StoreOnly

(* cleanupScout: what a teardown left claimed or doubtful is left alone; an  *)
(* abandoned pane is refused by the store, an error only warns.              *)
ClaimScoutPane(t) ==
    LET s == cmd[t].scout IN
    /\ At(t, "scout_pane")
    /\ IF attempt[s].herdr # NoPane /\ attempt[s].settle["herdr"] \in {"", "retryable"}
       THEN SetResource(t, s, "herdr", "releasing") /\ Goto(t, "scout_close")
       ELSE UNCHANGED storeVars /\ Goto(t, "scout_lease")
    /\ StoreOnly

CloseScoutPane(t) ==
    LET p == attempt[cmd[t].scout].herdr IN
    /\ At(t, "scout_close")
    /\ \/ CloseTab(p, "ok") /\ Goto(t, "scout_closed")
       \/ CloseTab(p, "error") /\ Goto(t, "scout_unclosed")
    /\ WorldOnly

(* Mutant: the warning is all that is left of a failed close.                *)
RecordScoutPaneAnyway(t) ==
    /\ At(t, "scout_closed") \/ At(t, "scout_unclosed")
    /\ SetResource(t, cmd[t].scout, "herdr", "released")
    /\ Goto(t, "scout_lease")
    /\ StoreOnly

RecordScoutPane(t) ==
    /\ At(t, "scout_closed") \/ At(t, "scout_unclosed")
    /\ SetResource(t, cmd[t].scout, "herdr",
                   IF At(t, "scout_closed") THEN "released" ELSE "ambiguous")
    /\ Goto(t, "scout_lease")
    /\ StoreOnly

(* No proof of ownership is asked for: the return names the lease id.        *)
ClaimScoutLease(t) ==
    LET s == cmd[t].scout IN
    /\ At(t, "scout_lease")
    /\ IF attempt[s].worktree # NoLease /\ attempt[s].settle["worktree"] \in {"", "retryable"}
       THEN SetResource(t, s, "worktree", "releasing") /\ Goto(t, "scout_return")
       ELSE UNCHANGED storeVars /\ Goto(t, "launch")
    /\ StoreOnly

ReturnScoutLease(t) ==
    LET l == attempt[cmd[t].scout].worktree IN
    /\ At(t, "scout_return")
    /\ \/ ReturnLease(l, TRUE, "ok") /\ Goto(t, "scout_returned")
       \/ ReturnLease(l, TRUE, "error") /\ Goto(t, "scout_unreturned")
    /\ WorldOnly

(* Mutant: the warning is all that is left of a failed return.               *)
RecordScoutLeaseAnyway(t) ==
    /\ At(t, "scout_returned") \/ At(t, "scout_unreturned")
    /\ SetResource(t, cmd[t].scout, "worktree", "released")
    /\ Goto(t, "launch")
    /\ StoreOnly

RecordScoutLease(t) ==
    /\ At(t, "scout_returned") \/ At(t, "scout_unreturned")
    /\ SetResource(t, cmd[t].scout, "worktree",
                   IF At(t, "scout_returned") THEN "released" ELSE "ambiguous")
    /\ Goto(t, "launch")
    /\ StoreOnly

LaunchShip(t) ==
    /\ At(t, "launch")
    /\ cmd' = [cmd EXCEPT ![t] = Launch("promote", cmd[t].att, NoLease)]
    /\ LocalOnly

PromoteStep(t) ==
    \/ \E a \in Attempts : StartPromote(t, a)
    \/ ClaimScoutPane(t)
    \/ CloseScoutPane(t)
    \/ RecordScoutPane(t)
    \/ ClaimScoutLease(t)
    \/ ReturnScoutLease(t)
    \/ RecordScoutLease(t)
    \/ LaunchShip(t)

=============================================================================
