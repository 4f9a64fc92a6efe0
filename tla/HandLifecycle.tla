------------------------------- MODULE HandLifecycle -------------------------------
(***************************************************************************)
(* The life of an attempt: the commands that write the database, the world *)
(* they observe, crashes, and what hand promises about them together.      *)
(* Commands on one task are serialised by the kernel's lock task:<id>, so  *)
(* cmd[t] is one process.                                                  *)
(***************************************************************************)
EXTENDS HandPromote, HandReconcile, Functions

vars == <<task, attempt, lease, work, pane, pr, report, records, torn, cmd>>

(* hand pr, and the watcher's recordAutoPR: the pull request of the branch.  *)
RecordPR(t) ==
    /\ cmd[t] = Idle /\ task[t].life = "open"
    /\ pr[t] # "none" /\ "pr" \notin task[t].facts
    /\ SetTaskPR(t)
    /\ StoreOnly /\ UNCHANGED cmd

(* The watcher records what the worker reported last, under the task's lock, *)
(* for the attempt that still owns the task (syncTaskState).                 *)
RecordReport(t) ==
    LET a == task[t].active IN
    /\ "gives_up" \in Events
    /\ cmd[t] = Idle /\ task[t].life = "open" /\ attempt[a].life = "running"
    /\ \E reported \in ReportStates \ {""} :
          UpdateAttemptObservation(t, a, "running", FALSE, reported)
    /\ StoreOnly /\ UNCHANGED cmd

(* hand deliver *)
Deliver(t) ==
    /\ "deliver" \in Events
    /\ cmd[t] = Idle /\ task[t].life = "open"
    /\ SetTaskDelivery(t)
    /\ StoreOnly /\ UNCHANGED cmd

(* A process dies with everything it had in memory; the kernel drops its     *)
(* lock afterwards.                                                          *)
Dead == [Idle EXCEPT !.pc = "dead"]

Crash(t) ==
    /\ "crash" \in Events /\ cmd[t] \notin {Idle, Dead}
    /\ cmd' = [cmd EXCEPT ![t] = Dead]
    /\ LocalOnly

DropLock(t) ==
    /\ cmd[t] = Dead
    /\ Leave(t)
    /\ LocalOnly

CommandStep(t) ==
    \/ ProvisionStep(t) \/ TeardownStep(t) \/ PromoteStep(t) \/ ReconcileStep(t)
    \/ DropLock(t)

LifecycleInit == StoreInit /\ WorldInit

LifecycleNext ==
    \/ WorldStep
    \/ \E t \in Tasks : CommandStep(t) \/ RecordPR(t) \/ RecordReport(t) \/ Deliver(t) \/ Crash(t)

LifecycleSpec == LifecycleInit /\ [][LifecycleNext]_vars

(* A command that was started is scheduled until it ends, whoever supervises *)
(* the fleet runs teardown and reconcile again and again, and crashes stop   *)
(* at some point.  Nothing is assumed of agents, Treehouse or Herdr.         *)
Supervised ==
    /\ \A t \in Tasks :
          /\ WF_vars(cmd[t] # Idle /\ CommandStep(t))
          /\ SF_vars(StartTeardown(t, FALSE))
          /\ SF_vars(StartReconcile(t, "none"))
    /\ <>[][\A t \in Tasks : ~Crash(t)]_vars

SupervisedSpec == LifecycleSpec /\ Supervised

-----------------------------------------------------------------------------
(* Properties *)

(* The types of the world and of a command; the database has StoreTypeOK.    *)
WorldTypeOK ==
    /\ lease \in [Leases -> {"unissued", "held", "free", "foreign"}]
    /\ work \in [Leases -> Worktree]
    /\ pane \in [Panes -> [state : {"unissued", "shell", "agent", "gone", "foreign"},
                           cwd : Leases \union {NoLease}]]
    /\ pr \in [Tasks -> {"none", "open", "merged"}]
    /\ report \in [Tasks -> BOOLEAN]
    /\ \A a \in Attempts : Range(records[a]) \subseteq Outcomes
    /\ torn \in BOOLEAN
    /\ \A t \in Tasks : /\ DOMAIN cmd[t] = DOMAIN Idle
                        /\ cmd[t].op \in Operations /\ cmd[t].attest \in Attestations
                        /\ cmd[t].pc = "idle" <=> cmd[t] = Idle

Frees(t, l) == cmd'[t].pc # cmd[t].pc /\ lease[l] = "held" /\ lease'[l] # "held"

(* reconcile returns a worktree only when nothing in it would be lost: what  *)
(* it holds may have changed since the attempt ended, its pane may have been *)
(* closed by someone else, its lease may be claimed by a teardown that died. *)
ReconcileKeepsWork ==
    [][\A t \in Tasks, l \in Leases :
          cmd[t].op = "reconcile" /\ Frees(t, l) => ~OnlyCopy(work[l])]_vars

(* A teardown that was never forced does not discard edits, and discards     *)
(* commits only of a scout, of a delivered task, or under a merged pull      *)
(* request: through refusals, retries and half-done releases, the guard that *)
(* ran before the decision still covers what is returned.                    *)
UnlandedWorkStays ==
    [][\A t \in Tasks, l \in Leases :
          LET a == cmd[t].att IN
          cmd[t].op = "teardown" /\ Frees(t, l) /\ ~cmd[t].force
             /\ attempt[a].disposition # "forced" =>
             /\ work[l].dirt # "dirty"
             /\ \/ work[l].commits # "local"
                \/ task[t].kind = "scout" \/ "delivered" \in task[t].facts
                \/ pr[t] = "merged"]_vars

(* A release is recorded only of what is gone: no lease recorded as released *)
(* is still held, no pane recorded as released still runs anything.          *)
ReleasedIsGone ==
    \A a \in Attempts :
        /\ attempt[a].settle["worktree"] = "released" => lease[attempt[a].worktree] # "held"
        /\ attempt[a].settle["herdr"] = "released" =>
              pane[attempt[a].herdr].state \notin {"shell", "agent"}

(* No lease leaks: one that Treehouse holds is recorded by an attempt that   *)
(* still has to settle it, or in the hands of the command that took it.      *)
HeldIsClaimed ==
    \A l \in Leases : lease[l] = "held" =>
        \/ \E a \in Attempts : attempt[a].worktree = l /\ LeaseUnsettled(a)
        \/ \E t \in Tasks : cmd[t].lease = l

(* No worker runs that no attempt records: an agent's pane was recorded      *)
(* before the agent was started in it, and is forgotten only once it is gone.*)
AgentsAreClaimed ==
    \A p \in Panes : pane[p].state = "agent" =>
        \E a \in Attempts : attempt[a].herdr = p /\ PaneUnsettled(a)

(* Two agents never work in one worktree, although a launch that failed or   *)
(* died is resumed in the worktree it had.                                   *)
OneAgentPerWorktree ==
    \A p, q \in Panes :
        pane[p].state = "agent" /\ pane[q].state = "agent" /\ pane[p].cwd = pane[q].cwd
            => p = q

(* Every worker is recorded and has its worktree to itself.                  *)
AgentsInv == AgentsAreClaimed /\ OneAgentPerWorktree

(* The completion log holds at most one record of an attempt, although the   *)
(* append, the note that it was made, and the end are separate steps.        *)
OneRecord == \A a \in Attempts : Len(records[a]) <= 1

(* A task is terminal only with the record of its last attempt readable on   *)
(* disk.                                                                     *)
EndIsOnRecord ==
    \A t \in Tasks : task[t].life = "terminal" =>
        \E a \in Attempts : /\ attempt[a].owner = t /\ Found(a)
                            /\ \A b \in Attempts : attempt[b].owner = t => b <= a

(* What the fleet can prove of its past survives the process that wrote it:  *)
(* one readable record of every attempt that ended its task, never two,      *)
(* although teardown, reopen, rollback and reconcile all append, may be      *)
(* refused the write or die after it, and retry by looking at the file.      *)
RecordInv ==
    /\ WorldTypeOK
    /\ OneRecord
    /\ EndIsOnRecord

(* An attempt ends as it was decided, however many commands with whatever    *)
(* flags it took to finish the decision, and its record agrees: of a         *)
(* completed one it tells a landing, or that the worker said it failed; of   *)
(* one that was forced, never worked or exited with nothing landed it never  *)
(* tells a landing, whatever landed meanwhile and whoever writes the record. *)
DecisionHonoured ==
    \A a \in Attempts :
        attempt[a].life \in TerminalStates /\ attempt[a].decided # "" =>
            /\ attempt[a].life = attempt[a].decided
            /\ attempt[a].decided = "completed" =>
                  Range(records[a]) \subseteq Landings \union {"failed"}
            /\ attempt[a].disposition \in Unworked \union {"forced", "worker-exited-unlanded"} =>
                  Range(records[a]) \intersect Landings = {}

(* The commands use the database as its transactions allow.                  *)
StoreRefined == StoreSpec

(* A decision to end an attempt is carried out: its pane is settled, and the *)
(* attempt ends with its worktree settled too, unless the worktree holds what *)
(* reconcile must not discard.                                               *)
Carried(a) ==
    /\ ~PaneUnsettled(a)
    /\ \/ attempt[a].life \in TerminalStates /\ ~LeaseUnsettled(a)
       \/ LET tree == WorkIn(attempt[a].worktree) IN
          LeaseUnsettled(a) /\ (tree.dirt # "clean" \/ tree.commits = "local")
DecisionCarriedOut ==
    \A a \in Attempts : (attempt[a].decided # "") ~> Carried(a)

(* The same of every attempt but those whose lease was gone, or returned by  *)
(* reconcile, without the claim the store asks for before a release: it      *)
(* never lets anybody settle those.                          *)
Unclaimed(a) ==
    /\ attempt[a].worktree # NoLease /\ lease[attempt[a].worktree] # "held"
    /\ attempt[a].settle["worktree"] \in {"ambiguous", "retryable"}
ClaimedDecisionCarriedOut ==
    \A a \in Attempts : (attempt[a].decided # "") ~> (Carried(a) \/ Unclaimed(a))

=============================================================================
