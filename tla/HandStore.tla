------------------------------- MODULE HandStore -------------------------------
(***************************************************************************)
(* The durable intent of a fleet: the task and attempt tables of           *)
(* state/hand.db, with one action per transaction of internal/store that a *)
(* command of hand runs.  Every hand process is a client of this module:   *)
(* the transactions are the only steps that several processes can          *)
(* interleave, so the guards below are what keeps one worker per task when *)
(* two commands, or a command and the watcher, race.                       *)
(*                                                                         *)
(* A transaction that the code refuses (ErrLifecycleConflict,              *)
(* ErrOwnershipConflict, ErrInvalidTransition) or that repeats what is     *)
(* already recorded changes nothing and is a stuttering step.              *)
(*                                                                         *)
(* An attempt's identity is its AUTOINCREMENT row id, and its ordinal in   *)
(* its task is MAX(ordinal) + 1: both grow together, so the order of ids   *)
(* is the order of ordinals.  Timestamps are kept as "is it recorded".     *)
(***************************************************************************)
EXTENDS Naturals

CONSTANTS
    Tasks,          \* task ids a supervisor may choose
    MaxAttempts,    \* bound: attempt rows the database may hold
    Leases,         \* Treehouse lease ids (a worktree path and its lease)
    Panes,          \* Herdr pane identities
    Resources,      \* subset of {"herdr", "worktree"}: what a teardown settles
    Dispositions,   \* teardown dispositions a caller may record
    RepairCodes,    \* repair codes a caller may record
    FactNames,      \* subset of {"pr", "delivered", "merged", "announced"}
    NoTask, NoAttempt, NoLease, NoPane

ASSUME StoreAssumption ==
    /\ MaxAttempts \in Nat
    /\ Resources \subseteq {"herdr", "worktree"}
    /\ FactNames \subseteq {"pr", "delivered", "merged", "announced"}
    /\ "" \notin Dispositions
    /\ "" \notin RepairCodes
    /\ NoTask \notin Tasks
    /\ NoAttempt \notin 1..MaxAttempts
    /\ NoLease \notin Leases
    /\ NoPane \notin Panes

Attempts == 1..MaxAttempts

VARIABLES
    task,       \* the task table, one row per id
    attempt     \* the attempt table, one row per row id

storeVars == <<task, attempt>>

-----------------------------------------------------------------------------
(* Rows *)

Kinds == {"ship", "scout"}
LiveStates == {"provisioning", "running"}
TerminalStates == {"completed", "failed", "interrupted"}
ResourceStates ==
    {"", "releasing", "released", "ambiguous", "retryable", "abandoned"}
CompletionStates == {"", "pending", "appended"}

(* Nothing was reported, the worker said last that it failed, or anything    *)
(* else.                                                                     *)
ReportStates == {"", "failed", "other"}

TaskRow ==
    [life : {"absent", "open", "terminal"},
     kind : Kinds,
     active : Attempts \union {NoAttempt},
     facts : SUBSET FactNames,               \* pr, delivered_at, merge_executed,
                                             \* merge_announced: those set
     repair : RepairCodes \union {""},
     repairAttempt : Attempts \union {NoAttempt}]

AttemptRow ==
    [owner : Tasks \union {NoTask},
     life : {"absent"} \union LiveStates \union TerminalStates,
     worktree : Leases \union {NoLease},
     herdr : Panes \union {NoPane},
     submitted : BOOLEAN,                    \* launch_submitted_at
     confirmed : BOOLEAN,                    \* launch_confirmed_at
     verified : BOOLEAN,                     \* done_verified
     reported : ReportStates,                \* last_report_state
     decided : {"", "completed", "interrupted"},
     disposition : Dispositions \union {""},
     settle : [Resources -> ResourceStates],
     completion : CompletionStates]

AbsentTask ==
    [life |-> "absent", kind |-> "ship", active |-> NoAttempt,
     facts |-> {}, repair |-> "", repairAttempt |-> NoAttempt]

NewAttempt(t, state) ==
    [owner |-> t, life |-> state, worktree |-> NoLease, herdr |-> NoPane,
     submitted |-> FALSE, confirmed |-> FALSE, verified |-> FALSE,
     reported |-> "", decided |-> "", disposition |-> "",
     settle |-> [r \in Resources |-> ""], completion |-> ""]

StoreInit ==
    /\ task = [t \in Tasks |-> AbsentTask]
    /\ attempt = [a \in Attempts |-> NewAttempt(NoTask, "absent")]

-----------------------------------------------------------------------------
(* Guards shared by the transactions *)

ValidAttemptTransition(from, to) ==
    \/ from = "provisioning" /\ to \in {"running", "failed", "interrupted"}
    \/ from = "running" /\ to \in TerminalStates

(* Mutant: a row id that is free but not the next one, as a primary key      *)
(* without AUTOINCREMENT and an ordinal without MAX would give.              *)
InsertableAnywhere(a, t, without) ==
    /\ attempt[a].life = "absent"
    /\ \A b \in Attempts \ without :
          ~(attempt[b].owner = t /\ attempt[b].life \in LiveStates)

(* insertAttemptTx: the next free row id, under the partial unique index     *)
(* attempt_one_active on (task_id) of provisioning and running attempts.     *)
Insertable(a, t, without) ==
    /\ attempt[a].life = "absent"
    /\ \A b \in 1..(a - 1) : attempt[b].life # "absent"
    /\ \A b \in Attempts \ without :
          ~(attempt[b].owner = t /\ attempt[b].life \in LiveStates)

Owns(t, a) == task[t].life = "open" /\ task[t].active = a

(* What every provisioning write demands in its WHERE clause.                *)
Provisioning(t, a) ==
    /\ attempt[a].owner = t
    /\ attempt[a].life = "provisioning"
    /\ Owns(t, a)

-----------------------------------------------------------------------------
(* Birth: spawn, reopen and promote *)

CreateTaskWithAttempt(t, a, kind) ==
    /\ task[t].life = "absent"
    /\ Insertable(a, t, {})
    /\ task' = [task EXCEPT ![t] = [AbsentTask EXCEPT !.life = "open",
                                                      !.kind = kind,
                                                      !.active = a]]
    /\ attempt' = [attempt EXCEPT ![a] = NewAttempt(t, "provisioning")]

ReopenTask(t, a) ==
    /\ task[t].life = "terminal"
    /\ Insertable(a, t, {})
    /\ task' = [task EXCEPT ![t].life = "open", ![t].active = a]
    /\ attempt' = [attempt EXCEPT ![a] = NewAttempt(t, "provisioning")]

(* The scout is completed, the task becomes a ship and the new attempt takes *)
(* over in one transaction.  scoutFrom is the lifecycle the caller read.     *)
PromoteTask(t, scout, scoutFrom, a) ==
    /\ ValidAttemptTransition(scoutFrom, "completed")
    /\ Owns(t, scout) /\ task[t].kind = "scout"
    /\ attempt[scout].owner = t /\ attempt[scout].life = scoutFrom
    /\ Insertable(a, t, {scout})
    /\ attempt' = [attempt EXCEPT ![scout].life = "completed",
                                  ![a] = NewAttempt(t, "provisioning")]
    /\ task' = [task EXCEPT ![t].kind = "ship",
                            ![t].facts = @ \ {"delivered"},
                            ![t].active = a]

-----------------------------------------------------------------------------
(* Provisioning facts *)

RecordAttemptWorktree(t, a, lease) ==
    /\ Provisioning(t, a)
    /\ attempt' = [attempt EXCEPT ![a].worktree = lease]
    /\ UNCHANGED task

ClearAttemptWorktree(t, a) ==
    /\ Provisioning(t, a)
    /\ attempt' = [attempt EXCEPT ![a].worktree = NoLease]
    /\ UNCHANGED task

RecordAttemptHerdr(t, a, pane) ==
    /\ Provisioning(t, a)
    /\ attempt' = [attempt EXCEPT ![a].herdr = pane]
    /\ UNCHANGED task

(* Mutant: the ownership condition is missing from the WHERE clause.         *)
ClearAnyAttemptHerdr(t, a) ==
    /\ attempt[a].owner = t
    /\ attempt' = [attempt EXCEPT ![a].herdr = NoPane]
    /\ UNCHANGED task

ClearAttemptHerdr(t, a) ==
    /\ Provisioning(t, a)
    /\ attempt' = [attempt EXCEPT ![a].herdr = NoPane]
    /\ UNCHANGED task

MarkLaunchSubmitted(t, a) ==
    /\ Provisioning(t, a)
    /\ attempt' = [attempt EXCEPT ![a].submitted = TRUE]
    /\ UNCHANGED task

MarkLaunchConfirmed(t, a) ==
    /\ Provisioning(t, a)
    /\ attempt[a].submitted
    /\ attempt' = [attempt EXCEPT ![a].confirmed = TRUE]
    /\ UNCHANGED task

(* Mutant: running without asking for a confirmed launch.                    *)
MarkUnconfirmedRunning(t, a) ==
    /\ Provisioning(t, a)
    /\ attempt' = [attempt EXCEPT ![a].life = "running"]
    /\ UNCHANGED task

MarkAttemptRunning(t, a) ==
    /\ Provisioning(t, a)
    /\ attempt[a].confirmed
    /\ attempt' = [attempt EXCEPT ![a].life = "running"]
    /\ UNCHANGED task

(* The watcher's and status's observation of the attempt they last read with *)
(* lifecycle expected; their verdict only ever adds to done_verified, the    *)
(* last report they know of replaces the one on record.                      *)
UpdateAttemptObservation(t, a, expected, verified, reported) ==
    /\ attempt[a].owner = t /\ attempt[a].life = expected
    /\ Owns(t, a)
    /\ attempt' = [attempt EXCEPT ![a].verified = @ \/ verified,
                                  ![a].reported = reported]
    /\ UNCHANGED task

-----------------------------------------------------------------------------
(* Teardown: the decision, its two resources, the completion record, the end *)

(* Mutant: a later decision replaces the first one.                          *)
ReplaceTeardownDecision(t, a, terminal, disposition) ==
    /\ terminal \in {"completed", "interrupted"}
    /\ attempt[a].owner = t /\ attempt[a].life \in LiveStates
    /\ Owns(t, a)
    /\ attempt' = [attempt EXCEPT ![a].decided = terminal,
                                  ![a].disposition = disposition]
    /\ UNCHANGED task

SetAttemptTeardownDecision(t, a, terminal, disposition) ==
    /\ terminal \in {"completed", "interrupted"}
    /\ attempt[a].owner = t /\ attempt[a].life \in LiveStates
    /\ attempt[a].decided = ""
    /\ Owns(t, a)
    /\ attempt' = [attempt EXCEPT ![a].decided = terminal,
                                  ![a].disposition = disposition]
    /\ UNCHANGED task

(* Mutant: a late failure may mark a released resource ambiguous again.      *)
ResourceFromAnything ==
    [releasing |-> {"", "retryable", "ambiguous"},
     released  |-> {"releasing"},
     retryable |-> {"releasing"},
     ambiguous |-> ResourceStates,
     abandoned |-> {"ambiguous", "retryable", ""}]

(* The states a resource may come from when next is recorded.                *)
ResourceFrom ==
    [releasing |-> {"", "retryable", "ambiguous"},
     released  |-> {"releasing"},
     retryable |-> {"releasing"},
     ambiguous |-> {"releasing", "retryable", ""},
     abandoned |-> {"ambiguous", "retryable", ""}]

SetAttemptTeardownResourceState(t, a, expected, r, next) ==
    /\ attempt[a].owner = t /\ attempt[a].life = expected
    /\ attempt[a].settle[r] \in ResourceFrom[next]
    /\ attempt' = [attempt EXCEPT ![a].settle[r] = next]
    /\ UNCHANGED task

CompletionFrom == [pending |-> "", appended |-> "pending"]

SetAttemptTeardownCompletionState(t, a, expected, next) ==
    /\ attempt[a].owner = t /\ attempt[a].life = expected
    /\ attempt[a].completion = CompletionFrom[next]
    /\ attempt' = [attempt EXCEPT ![a].completion = next]
    /\ UNCHANGED task

(* Mutant: the task row keeps pointing at the attempt that ended.            *)
TerminalizeKeepsPointer(t, a, from, to) ==
    /\ ValidAttemptTransition(from, to) /\ to \notin LiveStates
    /\ attempt[a].owner = t /\ attempt[a].life = from
    /\ Owns(t, a)
    /\ attempt' = [attempt EXCEPT ![a].life = to]
    /\ task' = [task EXCEPT ![t].life = "terminal"]

TerminalizeTaskAndAttempt(t, a, from, to) ==
    /\ ValidAttemptTransition(from, to) /\ to \notin LiveStates
    /\ attempt[a].owner = t /\ attempt[a].life = from
    /\ Owns(t, a)
    /\ attempt' = [attempt EXCEPT ![a].life = to]
    /\ task' = [task EXCEPT ![t].life = "terminal", ![t].active = NoAttempt]

-----------------------------------------------------------------------------
(* Facts of the task itself *)

Fact(name) == {name} \cap FactNames

SetTaskPR(t) ==
    /\ task[t].life # "absent"
    /\ task' = [task EXCEPT ![t].facts = @ \union Fact("pr")]
    /\ UNCHANGED attempt

SetTaskKind(t, kind) ==
    /\ task[t].life = "open"
    /\ task' = [task EXCEPT ![t].kind = kind]
    /\ UNCHANGED attempt

SetTaskDelivery(t) ==
    /\ task[t].life = "open"
    /\ task' = [task EXCEPT ![t].facts = @ \union Fact("delivered")]
    /\ UNCHANGED attempt

SetTaskMerge(t) ==
    /\ task[t].life = "open"
    /\ task' = [task EXCEPT ![t].facts = @ \union Fact("merged")]
    /\ UNCHANGED attempt

SetTaskMergeAnnounced(t) ==
    /\ task[t].life # "absent"
    /\ task' = [task EXCEPT ![t].facts = @ \union Fact("announced")]
    /\ UNCHANGED attempt

(* The watcher saves its report cursor with the announcement it believed in  *)
(* when it read the task: announced is {"announced"} or {}.                  *)
SetTaskReportState(t, announced) ==
    /\ task[t].life # "absent"
    /\ task' = [task EXCEPT ![t].facts = @ \union announced]
    /\ UNCHANGED attempt

(* a is the attempt the diagnosis is about, or NoAttempt.                    *)
SetTaskRepair(t, code, a) ==
    /\ task[t].life # "absent"
    /\ task' = [task EXCEPT ![t].repair = code, ![t].repairAttempt = a]
    /\ UNCHANGED attempt

ClearTaskRepair(t, expected) ==
    /\ task[t].life # "absent"
    /\ task[t].repair = expected
    /\ task' = [task EXCEPT ![t].repair = "", ![t].repairAttempt = NoAttempt]
    /\ UNCHANGED attempt

-----------------------------------------------------------------------------
(* Any process may run any transaction at any time, with whatever it read    *)
(* earlier as arguments.                                                     *)

Birth(t, a) ==
    \/ \E kind \in Kinds : CreateTaskWithAttempt(t, a, kind)
    \/ ReopenTask(t, a)
    \/ \E scout \in Attempts, from \in LiveStates : PromoteTask(t, scout, from, a)

Provision(t, a) ==
    \/ \E lease \in Leases : RecordAttemptWorktree(t, a, lease)
    \/ ClearAttemptWorktree(t, a)
    \/ \E pane \in Panes : RecordAttemptHerdr(t, a, pane)
    \/ ClearAttemptHerdr(t, a)
    \/ MarkLaunchSubmitted(t, a)
    \/ MarkLaunchConfirmed(t, a)
    \/ MarkAttemptRunning(t, a)
    \/ \E from \in LiveStates, verified \in BOOLEAN, reported \in ReportStates :
          UpdateAttemptObservation(t, a, from, verified, reported)

Settle(t, a) ==
    \/ \E terminal \in {"completed", "interrupted"}, d \in Dispositions :
          SetAttemptTeardownDecision(t, a, terminal, d)
    \/ \E from \in LiveStates \union TerminalStates, r \in Resources,
          next \in DOMAIN ResourceFrom :
          SetAttemptTeardownResourceState(t, a, from, r, next)
    \/ \E from \in LiveStates \union TerminalStates,
          next \in DOMAIN CompletionFrom :
          SetAttemptTeardownCompletionState(t, a, from, next)
    \/ \E from \in LiveStates, to \in TerminalStates :
          TerminalizeTaskAndAttempt(t, a, from, to)

Facts(t) ==
    \/ SetTaskPR(t)
    \/ \E kind \in Kinds : SetTaskKind(t, kind)
    \/ SetTaskDelivery(t)
    \/ SetTaskMerge(t)
    \/ SetTaskMergeAnnounced(t)
    \/ \E announced \in SUBSET Fact("announced") : SetTaskReportState(t, announced)
    \/ \E code \in RepairCodes :
          \/ \E a \in Attempts \union {NoAttempt} : SetTaskRepair(t, code, a)
          \/ ClearTaskRepair(t, code)

StoreNext ==
    \E t \in Tasks :
        \/ Facts(t)
        \/ \E a \in Attempts : Birth(t, a) \/ Provision(t, a) \/ Settle(t, a)

StoreSpec == StoreInit /\ [][StoreNext]_storeVars

-----------------------------------------------------------------------------
(* Properties *)

(* Every row of the two tables has the columns and values of the schema.     *)
StoreTypeOK ==
    /\ task \in [Tasks -> TaskRow]
    /\ attempt \in [Attempts -> AttemptRow]

(* One worker per task: a task is open exactly when it points at an attempt, *)
(* that attempt is a live one of the task, and no other attempt of the task  *)
(* is live.  Spawn, promote, reopen, teardown and reconcile each move both   *)
(* tables; whatever their order, the pointer and the lifecycles agree.       *)
OneOwner ==
    /\ \A t \in Tasks : task[t].life = "open" <=> task[t].active # NoAttempt
    /\ \A t \in Tasks : task[t].active # NoAttempt =>
          /\ attempt[task[t].active].owner = t
          /\ attempt[task[t].active].life \in LiveStates
    /\ \A a \in Attempts : attempt[a].life \in LiveStates =>
          \E t \in Tasks : attempt[a].owner = t /\ task[t].active = a

(* History is behind the owner: the active attempt of a task is the newest   *)
(* attempt the task ever had, so "the attempts before it" is its history.    *)
OwnerIsNewest ==
    \A t \in Tasks, a \in Attempts :
        task[t].active # NoAttempt /\ attempt[a].owner = t => a <= task[t].active

(* Row ids are handed out in order, and only a row that was created has an   *)
(* owner.                                                                    *)
RowsAscending ==
    /\ \A a, b \in Attempts :
          a < b /\ attempt[b].life # "absent" => attempt[a].life # "absent"
    /\ \A a \in Attempts : attempt[a].life = "absent" <=> attempt[a].owner = NoTask

(* An attempt is running, or was completed, only after its launch was        *)
(* submitted and then confirmed: no path skips the handshake.                *)
LaunchedInOrder ==
    \A a \in Attempts :
        /\ attempt[a].life \in {"running", "completed"} => attempt[a].confirmed
        /\ attempt[a].confirmed => attempt[a].submitted

(* The inductive invariant behind the safety theorems of HandStoreProofs.    *)
StoreInv ==
    /\ StoreTypeOK
    /\ OneOwner
    /\ RowsAscending
    /\ OwnerIsNewest
    /\ LaunchedInOrder

(* What the attempt ended as, and everything it was provisioned with, never  *)
(* changes after it ended, although teardown and reconcile keep writing to   *)
(* its row to settle its resources: history is evidence for the repairs.     *)
StepKeepsHistory ==
    \A a \in Attempts : attempt[a].life \in TerminalStates =>
        \A f \in {"owner", "life", "worktree", "herdr", "submitted",
                  "confirmed", "verified", "reported", "decided", "disposition"} :
            attempt'[a][f] = attempt[a][f]

HistoryFrozen == [][StepKeepsHistory]_storeVars

(* The first teardown decision stands: a retried or concurrent teardown, or  *)
(* reconcile, can only finish the decision that was recorded.                *)
StepKeepsDecisions ==
    \A a \in Attempts : attempt[a].decided # "" =>
        /\ attempt'[a].decided = attempt[a].decided
        /\ attempt'[a].disposition = attempt[a].disposition

DecisionStands == [][StepKeepsDecisions]_storeVars

(* A resource whose release or abandonment is recorded stays settled, and    *)
(* nothing is recorded as released that no process had claimed to release.   *)
StepSettlesOnce ==
    \A a \in Attempts, r \in Resources :
        /\ attempt[a].settle[r] \in {"released", "abandoned"} =>
              attempt'[a].settle[r] = attempt[a].settle[r]
        /\ attempt'[a].settle[r] = "released" =>
              attempt[a].settle[r] \in {"releasing", "released"}

SettledOnce == [][StepSettlesOnce]_storeVars

=============================================================================
