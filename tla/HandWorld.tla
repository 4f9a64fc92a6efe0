------------------------------- MODULE HandWorld -------------------------------
(***************************************************************************)
(* What hand observes and acts on outside its database: Treehouse leases   *)
(* and the work in their worktrees, Herdr panes and the agents in them,    *)
(* the task's pull request on GitHub, the scout report on disk, the file   *)
(* state/completions.jsonl; and the one hand process that may hold a       *)
(* task's lock at a time (cmd).  Treehouse, Herdr, GitHub and the agents   *)
(* are modelled from what internal/worktree, internal/herdr and            *)
(* internal/runtime rely on; everything they may do to hand that is not    *)
(* ordinary is named in Events.                                            *)
(***************************************************************************)
EXTENDS HandStore, Sequences

CONSTANTS
    Commands,   \* subset of {"spawn", "reopen", "promote", "teardown", "reconcile"}
    Events      \* what an instance lets happen around hand, see EventNames

EventNames ==
    {"works",            \* agents edit, commit and push
     "reports",          \* agents leave a scout report
     "gives_up",         \* agents report that they failed, or report again
     "opens_pr",         \* agents open a pull request, and it is merged
     "attests",          \* the operator attests to what nothing can observe
     "crash",            \* a hand process dies between two steps
     "provision_error",  \* an external call of a launch fails
     "close_error",      \* Herdr fails to close a tab
     "return_error",     \* Treehouse fails to return a worktree
     "append_error",     \* closing completions.jsonl reports a write fault
     "short_write",      \* a completion line is written in part
     "unobservable",     \* an observation cannot be made
     "lease_lost",       \* Treehouse forgets a lease hand still records
     "lease_taken",      \* a returned worktree is leased to someone else
     "pane_taken",       \* a pane identity answers for someone else
     "worker_exit",      \* an agent exits, with or without its pane
     "rescue",           \* the operator saves the work of a worktree
     "deliver",          \* the operator delivers the task
     "late_work"}        \* agents also work while a command is running

ASSUME WorldAssumption ==
    /\ Commands \subseteq {"spawn", "reopen", "promote", "teardown", "reconcile"}
    /\ Events \subseteq EventNames
    /\ Resources = {"herdr", "worktree"}

VARIABLES
    lease,      \* Treehouse: who holds each lease id
    work,       \* what each worktree holds, as git would tell
    pane,       \* Herdr: what runs behind each pane id, and in which worktree
    pr,         \* GitHub: the pull request of the task's branch
    report,     \* data/<id>/report.md exists
    records,    \* the readable lines of completions.jsonl, per attempt
    torn,       \* the file ends in a partial line
    cmd         \* the process that holds the task's lock

external == <<lease, work, pane, pr, report>>
completions == <<records, torn>>

-----------------------------------------------------------------------------
(* Worktrees *)

(* dirt: nothing uncommitted, only what the default branch already holds, or *)
(* edits that exist nowhere else.  commits: of the branch, and whether a     *)
(* remote holds them.                                                        *)
Worktree == [dirt : {"clean", "scratch", "dirty"},
             commits : {"none", "local", "pushed"}]
Fresh == [dirt |-> "clean", commits |-> "none"]
OnlyCopy(w) == w.dirt = "dirty" \/ w.commits = "local"

WorkIn(l) == IF l \in Leases THEN work[l] ELSE Fresh

Unobservable == IF "unobservable" \in Events THEN {"unknown"} ELSE {}

(* ObserveLease against the recorded lease id.                               *)
LeaseSeen(l) ==
    Unobservable \union
    {CASE lease[l] = "held"    -> "exact"
       [] lease[l] = "free"    -> "absent"
       [] lease[l] = "foreign" -> "mismatch"}

(* observeHerdrOwnership, with the harness found in the pane or not.         *)
PaneSeen(p) ==
    Unobservable \union
    {CASE pane[p].state = "agent"   -> "agent"
       [] pane[p].state = "shell"   -> "shell"
       [] pane[p].state = "gone"    -> "absent"
       [] pane[p].state = "foreign" -> "mismatch"}

NewPane(l) == [state |-> "shell", cwd |-> l]

-----------------------------------------------------------------------------
(* External calls a command makes, and how they may end *)

Returned(l) ==
    /\ lease' = [lease EXCEPT ![l] = "free"]
    /\ work' = [work EXCEPT ![l] = Fresh]
    /\ UNCHANGED <<pane, pr, report>>

(* treehouse return --if-lease-id: ok, "Aborted" on a dirty worktree without *)
(* --force, or an error, which may come after the worktree was returned.     *)
ReturnLease(l, force, result) ==
    \/ /\ result = "ok" /\ lease[l] = "held"
       /\ force \/ work[l].dirt = "clean"
       /\ Returned(l)
    \/ /\ result = "aborted" /\ lease[l] = "held"
       /\ ~force /\ work[l].dirt # "clean"
       /\ UNCHANGED external
    \/ /\ result = "error"
       /\ \/ lease[l] # "held" /\ UNCHANGED external
          \/ "return_error" \in Events /\ lease[l] = "held"
             /\ \/ UNCHANGED external
                \/ (force \/ work[l].dirt = "clean") /\ Returned(l)

(* closeTaskTab: a tab that is not there is closed already; nothing asks     *)
(* whose tab it is.                                                          *)
CloseTab(p, result) ==
    \/ /\ result = "ok"
       /\ pane' = [pane EXCEPT ![p].state = "gone"]
       /\ UNCHANGED <<lease, work, pr, report>>
    \/ /\ result = "error" /\ "close_error" \in Events
       /\ UNCHANGED external

(* Mutant: the record of an attempt is looked up under the wrong key.        *)
FoundNothing(a) == FALSE

(* FindAttempt *)
Found(a) == records[a] # <<>>

Written(a, outcome) ==
    /\ records' = IF torn THEN records ELSE [records EXCEPT ![a] = Append(@, outcome)]
    /\ torn' = FALSE

(* completion.Append: one O_APPEND write.  After a short write the next line *)
(* is glued to the partial one and nobody can read either; an error at close *)
(* says nothing about the line.                                              *)
AppendRecord(a, outcome, result) ==
    \/ result = "ok" /\ Written(a, outcome)
    \/ /\ result = "error" /\ "append_error" \in Events
       /\ Written(a, outcome) \/ UNCHANGED completions
    \/ /\ result = "error" /\ "short_write" \in Events
       /\ torn' = TRUE /\ UNCHANGED records

-----------------------------------------------------------------------------
(* The world on its own *)

Calm == "late_work" \in Events \/ \A t \in Tasks : cmd[t].op = "none"

(* Edits, commits, pushes, and edits taken back to what the base holds.      *)
Progress(w) ==
    {[w EXCEPT !.dirt = "dirty"], [w EXCEPT !.dirt = "scratch"]}
    \union (IF w.dirt = "dirty"
            THEN {[dirt |-> "clean", commits |-> "local"]} ELSE {})
    \union (IF w.commits = "local" THEN {[w EXCEPT !.commits = "pushed"]} ELSE {})

AgentWorks(p) ==
    /\ "works" \in Events /\ Calm
    /\ pane[p].state = "agent" /\ lease[pane[p].cwd] = "held"
    /\ \E w \in Progress(work[pane[p].cwd]) : work' = [work EXCEPT ![pane[p].cwd] = w]
    /\ UNCHANGED <<lease, pane, pr, report>>

WorkerOf(t, p) ==
    pane[p].state = "agent" /\ \E a \in Attempts : attempt[a].owner = t /\ attempt[a].herdr = p

AgentReports(t) ==
    /\ "reports" \in Events /\ Calm /\ \E p \in Panes : WorkerOf(t, p)
    /\ report' = [report EXCEPT ![t] = TRUE]
    /\ UNCHANGED <<lease, work, pane, pr>>

AgentOpensPR(t) ==
    /\ "opens_pr" \in Events /\ Calm /\ pr[t] = "none"
    /\ \E p \in Panes : WorkerOf(t, p) /\ work[pane[p].cwd].commits = "pushed"
    /\ pr' = [pr EXCEPT ![t] = "open"]
    /\ UNCHANGED <<lease, work, pane, report>>

PRMerges(t) ==
    /\ pr[t] = "open"
    /\ pr' = [pr EXCEPT ![t] = "merged"]
    /\ UNCHANGED <<lease, work, pane, report>>

WorkerExits(p) ==
    /\ "worker_exit" \in Events /\ pane[p].state = "agent"
    /\ \E s \in {"shell", "gone"} : pane' = [pane EXCEPT ![p].state = s]
    /\ UNCHANGED <<lease, work, pr, report>>

LeaseLost(l) ==
    /\ "lease_lost" \in Events /\ lease[l] = "held"
    /\ lease' = [lease EXCEPT ![l] = "free"]
    /\ UNCHANGED <<work, pane, pr, report>>

LeaseTaken(l) ==
    /\ "lease_taken" \in Events /\ lease[l] = "free"
    /\ lease' = [lease EXCEPT ![l] = "foreign"]
    /\ UNCHANGED <<work, pane, pr, report>>

PaneTaken(p) ==
    /\ "pane_taken" \in Events /\ Calm /\ pane[p].state = "gone"
    /\ pane' = [pane EXCEPT ![p].state = "foreign"]
    /\ UNCHANGED <<lease, work, pr, report>>

OperatorRescues(l) ==
    /\ "rescue" \in Events /\ Calm
    /\ lease[l] = "held" /\ (OnlyCopy(work[l]) \/ work[l].dirt # "clean")
    /\ work' = [work EXCEPT ![l] = [dirt |-> "clean", commits |-> "pushed"]]
    /\ UNCHANGED <<lease, pane, pr, report>>

WorldStep ==
    /\ \/ \E p \in Panes : AgentWorks(p) \/ WorkerExits(p) \/ PaneTaken(p)
       \/ \E t \in Tasks : AgentReports(t) \/ AgentOpensPR(t) \/ PRMerges(t)
       \/ \E l \in Leases : LeaseLost(l) \/ LeaseTaken(l) \/ OperatorRescues(l)
    /\ UNCHANGED <<storeVars, completions, cmd>>

-----------------------------------------------------------------------------
(* The process that holds the lock of a task *)

Operations == {"none", "spawn", "reopen", "promote", "teardown", "reconcile"}
Attestations == {"none", "worktree", "pane", "never"}

Idle == [op |-> "none", pc |-> "idle", att |-> NoAttempt, scout |-> NoAttempt,
         lease |-> NoLease, pane |-> NoPane, resume |-> FALSE, force |-> FALSE, safe |-> FALSE,
         kind |-> "ship", merged |-> FALSE, attest |-> "none"]

At(t, pc) == cmd[t].pc = pc
Goto(t, pc) == cmd' = [cmd EXCEPT ![t].pc = pc]

Leave(t) == cmd' = [cmd EXCEPT ![t] = Idle]

(* A step that only writes the database, or only acts on the world.          *)
StoreOnly == UNCHANGED <<external, completions>>
WorldOnly == UNCHANGED <<storeVars, completions>>
LocalOnly == UNCHANGED <<storeVars, external, completions>>

WorldInit ==
    /\ lease = [l \in Leases |-> "unissued"]
    /\ work = [l \in Leases |-> Fresh]
    /\ pane = [p \in Panes |-> [state |-> "unissued", cwd |-> NoLease]]
    /\ pr = [t \in Tasks |-> "none"]
    /\ report = [t \in Tasks |-> FALSE]
    /\ records = [a \in Attempts |-> <<>>]
    /\ torn = FALSE
    /\ cmd = [t \in Tasks |-> Idle]

=============================================================================
