-------------------------- MODULE HandOutcomeProofs --------------------------
(***************************************************************************)
(* What hand can prove of its past, what it never loses sight of, and what *)
(* it never throws away: the completion log against the rows it is about,  *)
(* the decisions against the ends they led to, the leases against the      *)
(* attempts that must settle them, and the worktrees that a reconciliation *)
(* or an unforced teardown gives back, for any number of tasks, attempts,  *)
(* leases and panes.                                                       *)
(***************************************************************************)
EXTENDS HandLifecycleProofs

(* A line of the completion log is written whole or not at all.              *)
Legible == "short_write" \notin Events

(* Nothing ends an attempt behind the back of its decision.                  *)
Unpromoted == "promote" \notin Commands

(* No process dies between a lease and its record, and no operator gives up  *)
(* what nobody can see.                                                      *)
Minded == "crash" \notin Events /\ "attests" \notin Events

(* Nobody dies, no tab refuses to close, no agent works while a command      *)
(* runs, and nobody reconciles: what teardown was told stays true until it   *)
(* acts on it.                                                               *)
Attended ==
    /\ {"crash", "close_error", "late_work"} \intersect Events = {}
    /\ "reconcile" \notin Commands

(* Where a command knows that its attempt is not on record yet, or that it   *)
(* is.                                                                       *)
UnwrittenPcs ==
    {"examine", "merge_state", "decide", "claim_pane", "close", "closed", "close_failed",
     "claim_lease", "return", "return_ok", "return_aborted", "return_error", "facts",
     "append", "end_append"}
WrittenPcs == {"appended", "settled_appended", "end_appended", "finish", "end"}

-----------------------------------------------------------------------------
(* The inductive invariants.                                                 *)

(* A row and the lines about it: no line before the row says that one may be *)
(* there, none while nobody has decided, and what the one line says is what  *)
(* was decided.                                                              *)
Tells(row, o) ==
    /\ (row.decided = "completed" => o \in Landings \union {"failed"})
    /\ (row.disposition \in Unworked \union {"forced", "worker-exited-unlanded"} =>
            o \notin Landings)

RowTold(row, lines) ==
    /\ row.completion = "" => lines = <<>>
    /\ ~Closed(row) => row.completion = ""
    /\ row.decided = "completed" =>
          /\ row.disposition \in {"completed", "completed-safe-dirt"}
          /\ row.life \in {"running", "completed"}
    /\ \/ lines = <<>>
       \/ \E o \in Outcomes : lines = <<o>> /\ Tells(row, o)
    /\ Unpromoted /\ row.life \in TerminalStates /\ row.decided # "" => row.life = row.decided

RowsTold == \A a \in Attempts : RowTold(attempt[a], records[a])

CommandTells(t) ==
    /\ cmd[t].pc \in UnwrittenPcs => ~Found(cmd[t].att)
    /\ cmd[t].pc \in {"append", "end_append"} => attempt[cmd[t].att].completion = "pending"
    /\ Legible /\ cmd[t].pc \in WrittenPcs => Found(cmd[t].att)

CommandsTell == \A t \in Tasks : CommandTells(t)

FileOK ==
    /\ records \in [Attempts -> Seq(Outcomes)]
    /\ torn \in BOOLEAN /\ (Legible => ~torn)

TaleInv == RowsTold /\ CommandsTell /\ FileOK /\ (Legible => EndIsOnRecord)

(* A held lease is in a row that still has to settle it, or about to be      *)
(* recorded there.                                                           *)
Claimed(l) ==
    \/ \E a \in Attempts : attempt[a].worktree = l /\ LeaseUnsettled(a)
    \/ \E t \in Tasks : cmd[t].pc = "record" /\ cmd[t].lease = l

ClaimInv ==
    /\ \A l \in Leases : lease[l] = "held" => Claimed(l)
    /\ \A t \in Tasks :
          /\ cmd[t].attest = "none"
          /\ cmd[t].pc = "abandon_worktree" => Back(attempt[cmd[t].att].worktree)

-----------------------------------------------------------------------------
(* What a step may do to a row.                                              *)

(* The tale of the row is not touched; it may start to run.                  *)
Untold(old, new) ==
    /\ new.owner = old.owner
    /\ new.completion = old.completion
    /\ new.decided = old.decided /\ new.disposition = old.disposition
    /\ new.life = old.life \/ (old.life = "provisioning" /\ new.life = "running")

RowsUntold(t) ==
    /\ \A a \in Attempts : \/ attempt'[a] = attempt[a]
                           \/ attempt[a].owner = t /\ Untold(attempt[a], attempt'[a])
    /\ \A s \in Tasks : task'[s].life = task[s].life

(* Its lease is neither forgotten nor given up.                              *)
Keeping(old, new) ==
    /\ new.worktree = old.worktree
    /\ new.settle["worktree"] = "abandoned" => old.settle["worktree"] = "abandoned"

RowsKeeping == \A a \in Attempts : Keeping(attempt[a], attempt'[a])

(* Or it is, once it is not held any more.                                   *)
RowsMinded ==
    \A a \in Attempts :
        /\ \/ attempt'[a].worktree = attempt[a].worktree
           \/ attempt[a].worktree = NoLease \/ Back(attempt[a].worktree)
        /\ attempt'[a].settle["worktree"] = "abandoned" =>
              attempt[a].settle["worktree"] = "abandoned" \/ Back(attempt[a].worktree)

(* The transactions of a launch that are about its pane and its handshake.   *)
PaneCall(t, a) ==
    \/ \E p \in Panes : RecordAttemptHerdr(t, a, p)
    \/ ClearAttemptHerdr(t, a)
    \/ MarkLaunchSubmitted(t, a) \/ MarkLaunchConfirmed(t, a) \/ MarkAttemptRunning(t, a)

(* One row is written, of a task whose life stays what it is.                *)
LEMMA OneRowUntold ==
    ASSUME NEW t \in Tasks, NEW a \in Attempts, NEW row, attempt' = [attempt EXCEPT ![a] = row],
           StoreInv, attempt[a].owner = t, Untold(attempt[a], row), UNCHANGED task
    PROVE  RowsUntold(t)
<1>1. attempt'[a] = row /\ \A b \in Attempts \ {a} : attempt'[b] = attempt[b]
  BY DEF StoreInv, StoreTypeOK
<1>2. QED
  BY <1>1 DEF RowsUntold

(* One row is written that keeps its lease.                                  *)
LEMMA OneRowKeeping ==
    ASSUME NEW a \in Attempts, NEW row, attempt' = [attempt EXCEPT ![a] = row],
           StoreInv, Keeping(attempt[a], row)
    PROVE  RowsKeeping
<1>1. attempt'[a] = row /\ \A b \in Attempts \ {a} : attempt'[b] = attempt[b]
  BY DEF StoreInv, StoreTypeOK
<1>2. QED
  BY <1>1 DEF RowsKeeping, Keeping

(* Nothing is written.                                                       *)
LEMMA NoRow ==
    ASSUME NEW t \in Tasks, UNCHANGED storeVars
    PROVE  RowsUntold(t) /\ RowsKeeping
BY DEF storeVars, RowsUntold, RowsKeeping, Keeping

(* The pane and the handshake.                                               *)
LEMMA PaneCalls ==
    ASSUME NEW t \in Tasks, NEW a \in Attempts, StoreInv, PaneCall(t, a)
    PROVE  RowsUntold(t) /\ RowsKeeping
<1>1. attempt[a] \in AttemptRow
  BY DEF StoreInv, StoreTypeOK
<1>2. attempt[a].owner = t /\ attempt[a].life = "provisioning" /\ UNCHANGED task
  BY DEF PaneCall, RecordAttemptHerdr, ClearAttemptHerdr, MarkLaunchSubmitted,
     MarkLaunchConfirmed, MarkAttemptRunning, Provisioning
<1>3. ASSUME NEW row, attempt' = [attempt EXCEPT ![a] = row], Untold(attempt[a], row),
             Keeping(attempt[a], row)
      PROVE  RowsUntold(t) /\ RowsKeeping
  BY <1>2, <1>3, OneRowUntold, OneRowKeeping
<1>4. ASSUME NEW p \in Panes \union {NoPane}, attempt' = [attempt EXCEPT ![a].herdr = p]
      PROVE  RowsUntold(t) /\ RowsKeeping
  <2>1. PICK row : row = [attempt[a] EXCEPT !.herdr = p]
    OBVIOUS
  <2>2. Untold(attempt[a], row) /\ Keeping(attempt[a], row)
    BY <1>1, <2>1 DEF AttemptRow, Untold, Keeping
  <2>3. QED
    BY <1>3, <1>4, <2>1, <2>2
<1>5. CASE MarkLaunchSubmitted(t, a)
  <2>1. PICK row : row = [attempt[a] EXCEPT !.submitted = TRUE]
    OBVIOUS
  <2>2. Untold(attempt[a], row) /\ Keeping(attempt[a], row)
    BY <1>1, <2>1 DEF AttemptRow, Untold, Keeping
  <2>3. QED
    BY <1>3, <1>5, <2>1, <2>2 DEF MarkLaunchSubmitted
<1>6. CASE MarkLaunchConfirmed(t, a)
  <2>1. PICK row : row = [attempt[a] EXCEPT !.confirmed = TRUE]
    OBVIOUS
  <2>2. Untold(attempt[a], row) /\ Keeping(attempt[a], row)
    BY <1>1, <2>1 DEF AttemptRow, Untold, Keeping
  <2>3. QED
    BY <1>3, <1>6, <2>1, <2>2 DEF MarkLaunchConfirmed
<1>7. CASE MarkAttemptRunning(t, a)
  <2>1. PICK row : row = [attempt[a] EXCEPT !.life = "running"]
    OBVIOUS
  <2>2. Untold(attempt[a], row) /\ Keeping(attempt[a], row)
    BY <1>1, <1>2, <2>1 DEF AttemptRow, Untold, Keeping
  <2>3. QED
    BY <1>3, <1>7, <2>1, <2>2 DEF MarkAttemptRunning
<1>8. QED
  BY <1>4, <1>5, <1>6, <1>7 DEF PaneCall, RecordAttemptHerdr, ClearAttemptHerdr

(* The lease of a launch.                                                    *)
LEMMA LeaseCalls ==
    ASSUME NEW t \in Tasks, NEW a \in Attempts, NEW l \in Leases \union {NoLease}, StoreInv,
           attempt[a].owner = t, attempt' = [attempt EXCEPT ![a].worktree = l], UNCHANGED task
    PROVE  RowsUntold(t)
<1>1. attempt[a] \in AttemptRow
  BY DEF StoreInv, StoreTypeOK
<1>2. PICK row : row = [attempt[a] EXCEPT !.worktree = l]
  OBVIOUS
<1>3. Untold(attempt[a], row)
  BY <1>1, <1>2 DEF AttemptRow, Untold
<1>4. QED
  BY <1>2, <1>3, OneRowUntold

(* The settlement of a resource.                                             *)
LEMMA ResourceCalls ==
    ASSUME NEW t \in Tasks, NEW a \in Attempts, NEW r \in Resources,
           NEW next \in {"releasing", "released", "retryable", "ambiguous", "abandoned"},
           StoreInv, SetResource(t, a, r, next)
    PROVE  RowsUntold(t) /\ (r = "herdr" \/ next # "abandoned" => RowsKeeping)
<1>1. attempt[a] \in AttemptRow
  BY DEF StoreInv, StoreTypeOK
<1>2. attempt[a].owner = t /\ attempt' = [attempt EXCEPT ![a].settle[r] = next] /\ UNCHANGED task
  BY DEF SetResource, SetAttemptTeardownResourceState
<1>3. PICK settle : settle = [attempt[a].settle EXCEPT ![r] = next]
  OBVIOUS
<1>4. PICK row : row = [attempt[a] EXCEPT !.settle = settle]
  OBVIOUS
<1>5. /\ Untold(attempt[a], row)
      /\ row.worktree = attempt[a].worktree /\ row.settle = settle
  BY <1>1, <1>4 DEF AttemptRow, Untold
<1>6. attempt' = [attempt EXCEPT ![a] = row]
  BY <1>2, <1>3, <1>4
<1>7. ASSUME r = "herdr" \/ next # "abandoned"
      PROVE  Keeping(attempt[a], row)
  <2>1. attempt[a].settle \in [Resources -> ResourceStates] /\ "worktree" \in Resources
    BY <1>1, WorldAssumption DEF AttemptRow
  <2>2. CASE r = "herdr"
    <3>1. settle["worktree"] = attempt[a].settle["worktree"]
      BY <1>3, <2>1, <2>2
    <3>2. QED
      BY <1>5, <3>1 DEF Keeping
  <2>3. CASE r # "herdr"
    <3>1. r = "worktree" /\ next # "abandoned"
      BY <1>7, <2>3, WorldAssumption
    <3>2. settle["worktree"] = next
      BY <1>3, <2>1, <3>1
    <3>3. QED
      BY <1>5, <3>1, <3>2 DEF Keeping
  <2>4. QED
    BY <2>2, <2>3
<1>8. QED
  BY <1>2, <1>5, <1>6, <1>7, OneRowUntold, OneRowKeeping

(* Facts of the task.                                                        *)
LEMMA NoteCalls ==
    ASSUME NEW t \in Tasks, StoreInv, FactCall(t)
    PROVE  RowsUntold(t) /\ RowsKeeping
<1>1. attempt' = attempt
  BY FactCalls
<1>2. task \in [Tasks -> TaskRow] /\ task[t] \in TaskRow
  BY DEF StoreInv, StoreTypeOK
<1>3. CASE SetTaskPR(t) \/ SetTaskDelivery(t) \/ SetTaskMergeAnnounced(t)
  <2>1. \A s \in Tasks : task'[s].life = task[s].life
    BY <1>2, <1>3 DEF SetTaskPR, SetTaskDelivery, SetTaskMergeAnnounced, TaskRow
  <2>2. QED
    BY <1>1, <2>1 DEF RowsUntold, RowsKeeping, Keeping
<1>4. CASE \E kind \in Kinds : SetTaskKind(t, kind)
  <2>1. \A s \in Tasks : task'[s].life = task[s].life
    BY <1>2, <1>4 DEF SetTaskKind, TaskRow
  <2>2. QED
    BY <1>1, <2>1 DEF RowsUntold, RowsKeeping, Keeping
<1>5. ASSUME NEW code, NEW a, SetTaskRepair(t, code, a) \/ ClearTaskRepair(t, code)
      PROVE  RowsUntold(t) /\ RowsKeeping
  <2>1. PICK c, b : task' = [task EXCEPT ![t].repair = c, ![t].repairAttempt = b]
    BY <1>5 DEF SetTaskRepair, ClearTaskRepair
  <2>2. PICK row : row = [task[t] EXCEPT !.repair = c, !.repairAttempt = b]
    OBVIOUS
  <2>3. row.life = task[t].life
    BY <1>2, <2>2 DEF TaskRow
  <2>4. task' = [task EXCEPT ![t] = row]
    BY <1>2, <2>1, <2>2 DEF TaskRow
  <2>5. \A s \in Tasks : task'[s].life = task[s].life
    BY <1>2, <2>3, <2>4
  <2>6. QED
    BY <1>1, <2>5 DEF RowsUntold, RowsKeeping, Keeping
<1>6. QED
  BY <1>3, <1>4, <1>5 DEF FactCall

(* The completion column.                                                    *)
LEMMA CompletionCall ==
    ASSUME NEW t \in Tasks, NEW a \in Attempts, NEW next \in {"pending", "appended"}, StoreInv,
           SetAttemptTeardownCompletionState(t, a, attempt[a].life, next)
    PROVE  /\ RowsKeeping /\ UNCHANGED task /\ attempt[a].owner = t
           /\ attempt[a].completion = CompletionFrom[next]
           /\ \A b \in Attempts \ {a} : attempt'[b] = attempt[b]
           /\ attempt'[a].completion = next
           /\ attempt'[a].owner = t /\ attempt'[a].life = attempt[a].life
           /\ attempt'[a].decided = attempt[a].decided
           /\ attempt'[a].disposition = attempt[a].disposition
<1>1. attempt \in [Attempts -> AttemptRow] /\ attempt[a] \in AttemptRow
  BY DEF StoreInv, StoreTypeOK
<1>2. /\ attempt[a].owner = t /\ attempt[a].completion = CompletionFrom[next] /\ UNCHANGED task
      /\ attempt' = [attempt EXCEPT ![a].completion = next]
  BY DEF SetAttemptTeardownCompletionState
<1>3. PICK row : row = [attempt[a] EXCEPT !.completion = next]
  OBVIOUS
<1>4. /\ Keeping(attempt[a], row)
      /\ row.completion = next /\ row.owner = attempt[a].owner /\ row.life = attempt[a].life
      /\ row.decided = attempt[a].decided /\ row.disposition = attempt[a].disposition
  BY <1>1, <1>3 DEF AttemptRow, Keeping
<1>5. attempt' = [attempt EXCEPT ![a] = row]
  BY <1>2, <1>3
<1>6. attempt'[a] = row /\ \A b \in Attempts \ {a} : attempt'[b] = attempt[b]
  BY <1>1, <1>5
<1>7. RowsKeeping
  BY <1>4, <1>5, OneRowKeeping
<1>8. QED
  BY <1>2, <1>4, <1>6, <1>7

(* The decision.                                                             *)
LEMMA DecisionCall ==
    ASSUME NEW t \in Tasks, NEW a \in Attempts, NEW terminal, NEW d, StoreInv,
           SetAttemptTeardownDecision(t, a, terminal, d)
    PROVE  /\ RowsKeeping /\ UNCHANGED task /\ attempt[a].owner = t
           /\ attempt[a].decided = "" /\ attempt[a].life \in LiveStates
           /\ \A b \in Attempts \ {a} : attempt'[b] = attempt[b]
           /\ attempt'[a].decided = terminal /\ attempt'[a].disposition = d
           /\ attempt'[a].owner = t /\ attempt'[a].life = attempt[a].life
           /\ attempt'[a].completion = attempt[a].completion
<1>1. attempt \in [Attempts -> AttemptRow] /\ attempt[a] \in AttemptRow
  BY DEF StoreInv, StoreTypeOK
<1>2. /\ attempt[a].owner = t /\ attempt[a].decided = "" /\ attempt[a].life \in LiveStates
      /\ UNCHANGED task
      /\ attempt' = [attempt EXCEPT ![a].decided = terminal, ![a].disposition = d]
  BY DEF SetAttemptTeardownDecision
<1>3. PICK row : row = [attempt[a] EXCEPT !.decided = terminal, !.disposition = d]
  OBVIOUS
<1>4. /\ Keeping(attempt[a], row)
      /\ row.decided = terminal /\ row.disposition = d
      /\ row.owner = attempt[a].owner /\ row.life = attempt[a].life
      /\ row.completion = attempt[a].completion
  BY <1>1, <1>3 DEF AttemptRow, Keeping
<1>5. attempt' = [attempt EXCEPT ![a] = row]
  BY <1>1, <1>2, <1>3 DEF AttemptRow
<1>6. attempt'[a] = row /\ \A b \in Attempts \ {a} : attempt'[b] = attempt[b]
  BY <1>1, <1>5
<1>7. RowsKeeping
  BY <1>4, <1>5, OneRowKeeping
<1>8. QED
  BY <1>2, <1>4, <1>6, <1>7

(* The end of an attempt and of its task's turn.                             *)
LEMMA EndCall ==
    ASSUME NEW t \in Tasks, NEW a \in Attempts, NEW to \in TerminalStates, StoreInv,
           TerminalizeTaskAndAttempt(t, a, attempt[a].life, to)
    PROVE  /\ RowsKeeping /\ attempt[a].owner = t
           /\ a = task[t].active /\ attempt[a].life \in LiveStates
           /\ \A s \in Tasks \ {t} : task'[s] = task[s]
           /\ \A b \in Attempts \ {a} : attempt'[b] = attempt[b]
           /\ attempt'[a].life = to /\ attempt'[a].owner = t
           /\ attempt'[a].completion = attempt[a].completion
           /\ attempt'[a].decided = attempt[a].decided
           /\ attempt'[a].disposition = attempt[a].disposition
<1>1. /\ attempt \in [Attempts -> AttemptRow] /\ attempt[a] \in AttemptRow
      /\ task \in [Tasks -> TaskRow]
  BY DEF StoreInv, StoreTypeOK
<1>2. /\ attempt[a].owner = t /\ a = task[t].active
      /\ attempt[a].life \in LiveStates
      /\ attempt' = [attempt EXCEPT ![a].life = to]
      /\ task' = [task EXCEPT ![t].life = "terminal", ![t].active = NoAttempt]
  BY DEF TerminalizeTaskAndAttempt, ValidAttemptTransition, Owns, LiveStates, TerminalStates
<1>3. PICK row : row = [attempt[a] EXCEPT !.life = to]
  OBVIOUS
<1>4. /\ Keeping(attempt[a], row)
      /\ row.life = to /\ row.owner = attempt[a].owner
      /\ row.completion = attempt[a].completion
      /\ row.decided = attempt[a].decided /\ row.disposition = attempt[a].disposition
  BY <1>1, <1>3 DEF AttemptRow, Keeping
<1>5. attempt' = [attempt EXCEPT ![a] = row]
  BY <1>2, <1>3
<1>6. attempt'[a] = row /\ \A b \in Attempts \ {a} : attempt'[b] = attempt[b]
  BY <1>1, <1>5
<1>7. RowsKeeping
  BY <1>4, <1>5, OneRowKeeping
<1>8. \A s \in Tasks \ {t} : task'[s] = task[s]
  BY <1>1, <1>2
<1>9. QED
  BY <1>2, <1>4, <1>6, <1>7, <1>8

-----------------------------------------------------------------------------
(* The tale is kept.                                                         *)

(* The newest attempt of the task is on record.                              *)
OnRecord(t) ==
    \E a \in Attempts : /\ attempt[a].owner = t /\ Found(a)
                        /\ \A b \in Attempts : attempt[b].owner = t => b <= a

(* What one command does to its own task is not seen by the others.          *)
LEMMA TellingKeeps ==
    ASSUME NEW t \in Tasks, LifecycleInv, TaleInv,
           \A s \in Tasks \ {t} : cmd'[s] = cmd[s] /\ task'[s].life = task[s].life,
           \A a \in Attempts :
               /\ attempt[a].owner \in Tasks \ {t} =>
                      attempt'[a] = attempt[a] /\ records'[a] = records[a]
               /\ attempt'[a].owner \in {attempt[a].owner, t},
           RowsTold', CommandTells(t)', FileOK',
           Legible /\ task'[t].life = "terminal" => OnRecord(t)'
    PROVE  TaleInv'
<1>1. ASSUME NEW s \in Tasks \ {t}
      PROVE  CommandTells(s)'
  <2>1. cmd'[s] = cmd[s] /\ CommandTells(s)
    BY DEF TaleInv, CommandsTell
  <2>2. CASE cmd[s].pc \in FreePcs
    BY <2>1, <2>2 DEF CommandTells, FreePcs, UnwrittenPcs, WrittenPcs
  <2>3. CASE cmd[s].pc \notin FreePcs
    <3>1. PICK b \in Attempts : b = cmd[s].att
      BY <2>3 DEF LifecycleInv, CommandsTyped, CommandOK
    <3>2. attempt[b].owner = s
      BY <2>3, <3>1 DEF LifecycleInv, Stages, Stage, ClosingStage
    <3>3. attempt'[b] = attempt[b] /\ records'[b] = records[b]
      BY <3>2
    <3>4. QED
      BY <2>1, <3>1, <3>3 DEF CommandTells, Found
  <2>4. QED
    BY <2>2, <2>3
<1>2. CommandsTell'
  BY <1>1 DEF CommandsTell
<1>3. ASSUME NEW s \in Tasks \ {t}, Legible, task'[s].life = "terminal"
      PROVE  OnRecord(s)'
  <2>1. PICK a \in Attempts : /\ attempt[a].owner = s /\ Found(a)
                              /\ \A b \in Attempts : attempt[b].owner = s => b <= a
    BY <1>3 DEF TaleInv, EndIsOnRecord
  <2>2. attempt'[a] = attempt[a] /\ records'[a] = records[a]
    BY <2>1
  <2>3. \A b \in Attempts : attempt'[b].owner = s => attempt[b].owner = s
    OBVIOUS
  <2>4. QED
    BY <2>1, <2>2, <2>3 DEF OnRecord, Found
<1>4. Legible => EndIsOnRecord'
  BY <1>3 DEF EndIsOnRecord, OnRecord
<1>5. QED
  BY <1>2, <1>4 DEF TaleInv

(* Where a command may go without a word about its attempt.                  *)
Continues(t) ==
    \/ cmd'[t] = cmd[t]
    \/ cmd'[t].pc \notin UnwrittenPcs \union WrittenPcs
    \/ /\ cmd[t].pc \in UnwrittenPcs /\ cmd'[t].att = cmd[t].att
       /\ cmd'[t].pc \in UnwrittenPcs \ {"append", "end_append"}

(* Most steps do not touch it.                                               *)
LEMMA UntoldKeeps ==
    ASSUME NEW t \in Tasks, LifecycleInv, TaleInv, RowsUntold(t), UNCHANGED completions,
           \A s \in Tasks \ {t} : cmd'[s] = cmd[s], Continues(t)
    PROVE  TaleInv'
<1>1. records' = records /\ torn' = torn
  BY DEF completions
<1>2. ASSUME NEW a \in Attempts
      PROVE  /\ Untold(attempt[a], attempt'[a])
             /\ attempt'[a] = attempt[a] \/ attempt[a].owner = t
  BY DEF RowsUntold, Untold
<1>3. ASSUME NEW a \in Attempts
      PROVE  RowTold(attempt'[a], records'[a])
  <2>1. RowTold(attempt[a], records[a])
    BY DEF TaleInv, RowsTold
  <2>2. Closed(attempt'[a]) <=> Closed(attempt[a])
    BY <1>2 DEF Untold, Closed, TerminalStates
  <2>3. attempt'[a].life \in TerminalStates => attempt'[a].life = attempt[a].life
    BY <1>2 DEF Untold, TerminalStates
  <2>4. QED
    BY <1>1, <1>2, <2>1, <2>2, <2>3 DEF Untold, RowTold, Tells
<1>4. RowsTold'
  BY <1>3 DEF RowsTold
<1>5. FileOK'
  BY <1>1 DEF TaleInv, FileOK
<1>6. CommandTells(t)'
  <2>1. CommandTells(t)
    BY DEF TaleInv, CommandsTell
  <2>2. CASE cmd'[t] = cmd[t]
    <3>1. CASE cmd[t].pc \in FreePcs
      BY <2>2, <3>1 DEF CommandTells, FreePcs, UnwrittenPcs, WrittenPcs
    <3>2. CASE cmd[t].pc \notin FreePcs
      <4>1. PICK b \in Attempts : b = cmd[t].att
        BY <3>2 DEF LifecycleInv, CommandsTyped, CommandOK
      <4>2. attempt'[b].completion = attempt[b].completion
        BY <1>2 DEF Untold
      <4>3. QED
        BY <1>1, <2>1, <2>2, <4>1, <4>2 DEF CommandTells, Found
    <3>3. QED
      BY <3>1, <3>2
  <2>3. CASE cmd'[t].pc \notin UnwrittenPcs \union WrittenPcs
    BY <2>3 DEF CommandTells, UnwrittenPcs, WrittenPcs
  <2>4. CASE /\ cmd[t].pc \in UnwrittenPcs /\ cmd'[t].att = cmd[t].att
             /\ cmd'[t].pc \in UnwrittenPcs \ {"append", "end_append"}
    BY <1>1, <2>1, <2>4 DEF CommandTells, Found, UnwrittenPcs, WrittenPcs
  <2>5. QED
    BY <2>2, <2>3, <2>4 DEF Continues
<1>7. Legible /\ task'[t].life = "terminal" => OnRecord(t)'
  <2>1. \A a \in Attempts : attempt'[a].owner = attempt[a].owner
    BY <1>2 DEF Untold
  <2>2. task'[t].life = task[t].life
    BY DEF RowsUntold
  <2>3. QED
    BY <1>1, <2>1, <2>2 DEF TaleInv, EndIsOnRecord, OnRecord, Found
<1>8. \A s \in Tasks \ {t} : task'[s].life = task[s].life
  BY DEF RowsUntold
<1>9. \A a \in Attempts : /\ attempt[a].owner \in Tasks \ {t} =>
                                attempt'[a] = attempt[a] /\ records'[a] = records[a]
                          /\ attempt'[a].owner \in {attempt[a].owner, t}
  BY <1>1, <1>2 DEF Untold
<1>10. QED
  BY <1>4, <1>5, <1>6, <1>7, <1>8, <1>9, TellingKeeps

-----------------------------------------------------------------------------
(* The steps that do not touch the tale.                                     *)

(* A command that was given no word of the operator's gives up no worktree   *)
(* but one that is not there, or is someone else's.                          *)
Minds(t) ==
    "attests" \notin Events /\ cmd[t].attest = "none" =>
        /\ cmd'[t].attest = "none"
        /\ cmd'[t].pc = "abandon_worktree" =>
              lease'[attempt'[cmd'[t].att].worktree] \in {"free", "foreign"}

Walks(t) ==
    /\ Continues(t) /\ Minds(t)
    /\ \A s \in Tasks \ {t} : cmd'[s] = cmd[s]

(* A command goes on, or leaves.                                             *)
LEMMA GotoFacts ==
    ASSUME NEW t \in Tasks, LifecycleInv, NEW pc, Goto(t, pc)
    PROVE  /\ cmd'[t].pc = pc
           /\ cmd'[t].op = cmd[t].op /\ cmd'[t].att = cmd[t].att
           /\ cmd'[t].lease = cmd[t].lease /\ cmd'[t].resume = cmd[t].resume
           /\ cmd'[t].attest = cmd[t].attest
           /\ \A s \in Tasks \ {t} : cmd'[s] = cmd[s]
<1>1. cmd \in [Tasks -> Command] /\ cmd[t] \in Command
  BY DEF LifecycleInv, CommandsTyped
<1>2. PICK c : c = [cmd[t] EXCEPT !.pc = pc]
  OBVIOUS
<1>3. /\ c.pc = pc /\ c.op = cmd[t].op /\ c.att = cmd[t].att /\ c.lease = cmd[t].lease
      /\ c.resume = cmd[t].resume /\ c.attest = cmd[t].attest
  BY <1>1, <1>2 DEF Command
<1>4. cmd' = [cmd EXCEPT ![t] = c]
  BY <1>2 DEF Goto
<1>5. QED
  BY <1>1, <1>3, <1>4

LEMMA LeaveFacts ==
    ASSUME NEW t \in Tasks, LifecycleInv, Leave(t)
    PROVE  /\ cmd'[t].pc = "idle" /\ cmd'[t].op = "none" /\ cmd'[t].attest = "none"
           /\ cmd'[t].lease = NoLease /\ cmd'[t].resume = FALSE
           /\ \A s \in Tasks \ {t} : cmd'[s] = cmd[s]
<1>1. cmd \in [Tasks -> Command]
  BY DEF LifecycleInv, CommandsTyped
<1>2. PICK c : c = Idle
  OBVIOUS
<1>3. c.pc = "idle" /\ c.op = "none" /\ c.attest = "none" /\ c.lease = NoLease /\ c.resume = FALSE
  BY <1>2 DEF Idle
<1>4. cmd' = [cmd EXCEPT ![t] = c]
  BY <1>2 DEF Leave
<1>5. QED
  BY <1>1, <1>3, <1>4

(* It may go anywhere it says nothing about its attempt, or stay where it    *)
(* says that it is not on record.                                            *)
LEMMA Walking ==
    ASSUME NEW t \in Tasks, LifecycleInv,
           \/ Leave(t)
           \/ \E pc \in Pcs \ (UnwrittenPcs \union WrittenPcs \union {"abandon_worktree"}) :
                 Goto(t, pc)
           \/ /\ cmd[t].pc \in UnwrittenPcs
              /\ \E pc \in UnwrittenPcs \ {"append", "end_append"} : Goto(t, pc)
    PROVE  Walks(t)
<1>1. CASE Leave(t)
  BY <1>1, LeaveFacts DEF Walks, Minds, Continues, UnwrittenPcs, WrittenPcs
<1>2. ASSUME NEW pc \in Pcs \ (UnwrittenPcs \union WrittenPcs \union {"abandon_worktree"}), Goto(t, pc)
      PROVE  Walks(t)
  BY <1>2, GotoFacts DEF Walks, Minds, Continues
<1>3. ASSUME cmd[t].pc \in UnwrittenPcs,
             NEW pc \in UnwrittenPcs \ {"append", "end_append"}, Goto(t, pc)
      PROVE  Walks(t)
  <2>1. pc # "abandon_worktree"
    BY DEF UnwrittenPcs
  <2>2. QED
    BY <1>3, <2>1, GotoFacts DEF Walks, Minds, Continues
<1>4. QED
  BY <1>1, <1>2, <1>3

(* An untold step of a command.                                              *)
Plain(t) == RowsUntold(t) /\ UNCHANGED completions /\ Walks(t)

(* Every step of a launch once it has begun.                                 *)
LEMMA LaunchIsPlain ==
    ASSUME NEW t \in Tasks, LifecycleInv,
           \/ CheckWorktree(t) \/ OpenPane(t) \/ RecordPane(t) \/ RunWorker(t)
           \/ RecordSubmitted(t) \/ ConfirmWorker(t) \/ RecordConfirmed(t) \/ RecordRunning(t)
           \/ RollbackPane(t) \/ ClearPane(t) \/ ReturnProvisioned(t)
    PROVE  Plain(t) /\ RowsKeeping /\ cmd[t].pc \in LeasePcs \ {"record"}
<1>1. cmd[t].pc \in LeasePcs \ {"record"} /\ UNCHANGED completions
  BY DEF CheckWorktree, OpenPane, RecordPane, RunWorker, RecordSubmitted, ConfirmWorker,
     RecordConfirmed, RecordRunning, RollbackPane, ClearPane, ReturnProvisioned, At, LeasePcs,
     RunPcs, StoreOnly, WorldOnly, LocalOnly
<1>2. PICK a \in Attempts : a = cmd[t].att
  BY <1>1, LaunchFacts
<1> DEFINE open == {"pane", "herdr", "run", "submit", "close_pane", "confirm", "confirmed", "running",
                    "clear_pane", "return_lease", "clear_lease"}
<1>3. open \subseteq Pcs \ (UnwrittenPcs \union WrittenPcs \union {"abandon_worktree"})
  BY DEF Pcs, ShipPcs, LaunchPcs, LeasePcs, RunPcs, UnwrittenPcs, WrittenPcs
<1>4. ASSUME Leave(t) \/ \E pc \in open : Goto(t, pc)
      PROVE  Walks(t)
  BY <1>3, <1>4, Walking
<1>5. CASE CheckWorktree(t) \/ ConfirmWorker(t) \/ RollbackPane(t) \/ ReturnProvisioned(t)
           \/ RunWorker(t)
  <2>1. UNCHANGED storeVars
    BY <1>5 DEF CheckWorktree, ConfirmWorker, RollbackPane, ReturnProvisioned, RunWorker,
       LocalOnly, WorldOnly
  <2>2. Leave(t) \/ \E pc \in open : Goto(t, pc)
    BY <1>5 DEF CheckWorktree, ConfirmWorker, RollbackPane, ReturnProvisioned, RunWorker,
       FailWithoutPane
  <2>3. QED
    BY <1>1, <1>4, <2>1, <2>2, NoRow DEF Plain
<1>6. CASE RecordPane(t) \/ RecordSubmitted(t) \/ RecordConfirmed(t) \/ ClearPane(t)
  <2>1. PaneCall(t, a)
    <3>1. CASE RecordPane(t)
      <4>1. cmd[t].pane \in Panes
        BY <1>1, <3>1, LaunchFacts DEF RecordPane, At
      <4>2. QED
        BY <1>2, <3>1, <4>1 DEF RecordPane, PaneCall
    <3>2. QED
      BY <1>2, <1>6, <3>1 DEF RecordSubmitted, RecordConfirmed, ClearPane, PaneCall
  <2>2. Leave(t) \/ \E pc \in open : Goto(t, pc)
    BY <1>6 DEF RecordPane, RecordSubmitted, RecordConfirmed, ClearPane, FailWithoutPane
  <2>3. QED
    BY <1>1, <1>4, <2>1, <2>2, PaneCalls DEF Plain, LifecycleInv
<1>7. CASE RecordRunning(t)
  <2>1. PaneCall(t, a)
    BY <1>2, <1>7 DEF RecordRunning, PaneCall
  <2>2. CASE Leave(t)
    BY <1>1, <1>4, <2>1, <2>2, PaneCalls DEF Plain, LifecycleInv
  <2>3. CASE cmd' = [cmd EXCEPT ![t] = [Idle EXCEPT !.op = "reconcile", !.pc = "observe"]]
    <3>1. PICK c : c = [Idle EXCEPT !.op = "reconcile", !.pc = "observe"]
      OBVIOUS
    <3>2. c.pc = "observe" /\ c.attest = "none"
      BY <3>1 DEF Idle
    <3>3. cmd'[t] = c /\ \A s \in Tasks \ {t} : cmd'[s] = cmd[s]
      BY <2>3, <3>1 DEF LifecycleInv, CommandsTyped
    <3>4. Walks(t)
      BY <3>2, <3>3 DEF Walks, Minds, Continues, UnwrittenPcs, WrittenPcs
    <3>5. QED
      BY <1>1, <2>1, <3>4, PaneCalls DEF Plain, LifecycleInv
  <2>4. QED
    BY <1>7, <2>2, <2>3 DEF RecordRunning
<1>8. CASE OpenPane(t)
  <2>1. UNCHANGED storeVars
    BY <1>8 DEF OpenPane, WorldOnly
  <2>2. CASE FailWithoutPane(t)
    BY <1>1, <1>4, <2>1, <2>2, NoRow DEF Plain, FailWithoutPane
  <2>3. ASSUME NEW p \in Panes, cmd' = [cmd EXCEPT ![t].pane = p, ![t].pc = "herdr"]
        PROVE  Walks(t)
    <3>1. PICK c : c = [cmd[t] EXCEPT !.pane = p, !.pc = "herdr"]
      OBVIOUS
    <3>2. cmd \in [Tasks -> Command] /\ cmd[t] \in Command
      BY DEF LifecycleInv, CommandsTyped
    <3>3. c.pc = "herdr" /\ c.attest = cmd[t].attest
      BY <3>1, <3>2 DEF Command
    <3>4. cmd'[t] = c /\ \A s \in Tasks \ {t} : cmd'[s] = cmd[s]
      BY <2>3, <3>1, <3>2 DEF Command
    <3>5. QED
      BY <3>3, <3>4 DEF Walks, Minds, Continues, UnwrittenPcs, WrittenPcs
  <2>4. QED
    BY <1>1, <1>8, <2>1, <2>2, <2>3, NoRow DEF OpenPane, Plain
<1>9. QED
  BY <1>1, <1>5, <1>6, <1>7, <1>8

(* Taking a lease, recording it, and forgetting it.                          *)
LEMMA LeasingIsPlain ==
    ASSUME NEW t \in Tasks, LifecycleInv, GetLease(t) \/ RecordLease(t) \/ ClearLease(t)
    PROVE  Plain(t)
<1>1. UNCHANGED completions
  BY DEF GetLease, RecordLease, ClearLease, StoreOnly, WorldOnly
<1>2. cmd \in [Tasks -> Command] /\ cmd[t] \in Command
  BY DEF LifecycleInv, CommandsTyped
<1>3. CASE GetLease(t)
  <2>1. UNCHANGED storeVars
    BY <1>3 DEF GetLease, WorldOnly
  <2>2. CASE Leave(t)
    BY <1>1, <2>1, <2>2, NoRow, Walking DEF Plain
  <2>3. ASSUME NEW l \in Leases, cmd' = [cmd EXCEPT ![t].lease = l, ![t].pc = "record"]
        PROVE  Walks(t)
    <3>1. PICK c : c = [cmd[t] EXCEPT !.lease = l, !.pc = "record"]
      OBVIOUS
    <3>2. c.pc = "record" /\ c.attest = cmd[t].attest
      BY <1>2, <3>1 DEF Command
    <3>3. cmd'[t] = c /\ \A s \in Tasks \ {t} : cmd'[s] = cmd[s]
      BY <1>2, <2>3, <3>1 DEF Command
    <3>4. QED
      BY <3>2, <3>3 DEF Walks, Minds, Continues, UnwrittenPcs, WrittenPcs
  <2>4. QED
    BY <1>1, <1>3, <2>1, <2>2, <2>3, NoRow DEF GetLease, Plain
<1>4. CASE RecordLease(t)
  <2>1. cmd[t].pc \in LeasePcs
    BY <1>4 DEF RecordLease, At, LeasePcs
  <2>2. PICK a \in Attempts : a = cmd[t].att /\ attempt[a].owner = t
    BY <2>1, LaunchFacts
  <2>3. /\ cmd[t].lease \in Leases /\ UNCHANGED task
        /\ attempt' = [attempt EXCEPT ![a].worktree = cmd[t].lease]
    BY <1>4, <2>1, <2>2, LaunchFacts DEF RecordLease, RecordAttemptWorktree
  <2>4. RowsUntold(t)
    BY <2>2, <2>3, LeaseCalls DEF LifecycleInv
  <2>5. "check" \in Pcs \ (UnwrittenPcs \union WrittenPcs \union {"abandon_worktree"})
    BY DEF Pcs, ShipPcs, LaunchPcs, LeasePcs, UnwrittenPcs, WrittenPcs
  <2>6. Walks(t)
    BY <1>4, <2>5, Walking DEF RecordLease
  <2>7. QED
    BY <1>1, <2>4, <2>6 DEF Plain
<1>5. CASE ClearLease(t)
  <2>1. cmd[t].pc \in LeasePcs
    BY <1>5 DEF ClearLease, At, LeasePcs
  <2>2. PICK a \in Attempts : a = cmd[t].att /\ attempt[a].owner = t
    BY <2>1, LaunchFacts
  <2>3. UNCHANGED task /\ attempt' = [attempt EXCEPT ![a].worktree = NoLease]
    BY <1>5, <2>2 DEF ClearLease, ClearAttemptWorktree
  <2>4. RowsUntold(t)
    BY <2>2, <2>3, LeaseCalls DEF LifecycleInv
  <2>5. Walks(t)
    BY <1>5, Walking DEF ClearLease
  <2>6. QED
    BY <1>1, <2>4, <2>5 DEF Plain
<1>6. QED
  BY <1>3, <1>4, <1>5

(* A resource is settled, or nothing is written, and the command goes on.    *)
LEMMA SettlingIsPlain ==
    ASSUME NEW t \in Tasks, LifecycleInv, NEW a \in Attempts, NEW r \in {"herdr", "worktree"},
           NEW next \in {"releasing", "released", "retryable", "ambiguous", "abandoned"},
           SetResource(t, a, r, next) \/ UNCHANGED storeVars, UNCHANGED completions, Walks(t)
    PROVE  Plain(t) /\ (r = "herdr" \/ next # "abandoned" => RowsKeeping)
<1>1. r \in Resources
  BY WorldAssumption
<1>2. QED
  BY <1>1, ResourceCalls, NoRow DEF Plain, LifecycleInv

(* What a promotion does to its scout, and the launch that follows.          *)
LEMMA PromotionIsPlain ==
    ASSUME NEW t \in Tasks, LifecycleInv,
           \/ ClaimScoutPane(t) \/ CloseScoutPane(t) \/ RecordScoutPane(t)
           \/ ClaimScoutLease(t) \/ ReturnScoutLease(t) \/ RecordScoutLease(t) \/ LaunchShip(t)
    PROVE  Plain(t) /\ RowsKeeping /\ cmd[t].pc \in ScoutPcs \union {"launch"}
<1>1. cmd[t].pc \in ScoutPcs \union {"launch"} /\ UNCHANGED completions
  BY DEF ClaimScoutPane, CloseScoutPane, RecordScoutPane, ClaimScoutLease, ReturnScoutLease,
     RecordScoutLease, LaunchShip, At, ScoutPcs, ScoutPanePcs, ScoutLeasePcs, StoreOnly, WorldOnly,
     LocalOnly
<1>2. CASE LaunchShip(t)
  <2>1. UNCHANGED storeVars /\ cmd' = [cmd EXCEPT ![t] = Launch("promote", cmd[t].att, NoLease)]
    BY <1>2 DEF LaunchShip, LocalOnly
  <2>2. PICK c : c = Launch("promote", cmd[t].att, NoLease)
    OBVIOUS
  <2>3. c.pc = "get" /\ c.attest = "none"
    BY <2>2 DEF Launch, Idle
  <2>4. cmd'[t] = c /\ \A s \in Tasks \ {t} : cmd'[s] = cmd[s]
    BY <2>1, <2>2 DEF LifecycleInv, CommandsTyped
  <2>5. Walks(t)
    BY <2>3, <2>4 DEF Walks, Minds, Continues, UnwrittenPcs, WrittenPcs
  <2>6. QED
    BY <1>1, <2>1, <2>5, NoRow DEF Plain
<1>3. CASE ~LaunchShip(t)
  <2>1. PICK a \in Attempts : a = cmd[t].scout
    <3>1. cmd[t].pc \in ScoutPcs
      BY <1>3 DEF ClaimScoutPane, CloseScoutPane, RecordScoutPane, ClaimScoutLease,
         ReturnScoutLease, RecordScoutLease, At, ScoutPcs, ScoutPanePcs, ScoutLeasePcs
    <3>2. QED
      BY <3>1 DEF LifecycleInv, CommandsTyped, CommandOK
  <2>2. \/ UNCHANGED storeVars
        \/ \E r \in {"herdr", "worktree"}, next \in {"releasing", "released", "ambiguous"} :
              SetResource(t, a, r, next)
    BY <1>3, <2>1 DEF ClaimScoutPane, CloseScoutPane, RecordScoutPane, ClaimScoutLease,
       ReturnScoutLease, RecordScoutLease, WorldOnly
  <2>3. \E pc \in {"scout_close", "scout_lease", "scout_closed", "scout_unclosed", "scout_return",
                   "launch", "scout_returned", "scout_unreturned"} : Goto(t, pc)
    BY <1>3 DEF ClaimScoutPane, CloseScoutPane, RecordScoutPane, ClaimScoutLease,
       ReturnScoutLease, RecordScoutLease
  <2>4. Walks(t)
    BY <2>3, Walking DEF Pcs, ShipPcs, ScoutPcs, ScoutPanePcs, ScoutLeasePcs, UnwrittenPcs,
       WrittenPcs
  <2>5. QED
    BY <1>1, <2>2, <2>4, NoRow, SettlingIsPlain DEF Plain
<1>4. QED
  BY <1>2, <1>3

(* The guard of a teardown, its panes and its worktree.                      *)
LEMMA TeardownIsPlain ==
    ASSUME NEW t \in Tasks, LifecycleInv,
           \/ ObserveMergeState(t) \/ ClaimPane(t) \/ ClosePane(t) \/ RecordPaneClosed(t)
           \/ ClaimLease(t) \/ ReturnWorktree(t) \/ RecordReturned(t)
    PROVE  Plain(t) /\ RowsKeeping /\ cmd[t].pc \in GuardPcs \union ClosingPcs
<1>1. cmd[t].pc \in UnwrittenPcs /\ cmd[t].pc \in GuardPcs \union ClosingPcs /\ UNCHANGED completions
  BY DEF ObserveMergeState, ClaimPane, ClosePane, RecordPaneClosed, ClaimLease, ReturnWorktree,
     RecordReturned, At, UnwrittenPcs, StoreOnly, WorldOnly, LocalOnly, GuardPcs, ClosingPcs,
     PanePcs, WorktreePcs
<1>2. PICK a \in Attempts : a = cmd[t].att
  BY <1>1, ClosingFacts
<1>3. \/ UNCHANGED storeVars
      \/ \E r \in {"herdr", "worktree"},
            next \in {"releasing", "released", "retryable", "ambiguous"} :
            SetResource(t, a, r, next)
  <2>1. CASE ClaimLease(t)
    BY <1>2, <2>1 DEF ClaimLease, SetResourceOrRepeat
  <2>2. QED
    BY <1>2, <2>1 DEF ObserveMergeState, ClaimPane, ClosePane, RecordPaneClosed, ReturnWorktree,
       RecordReturned, WorldOnly, LocalOnly
<1>4. \/ Leave(t)
      \/ \E pc \in {"decide", "close", "claim_lease", "closed", "close_failed", "facts", "return",
                    "return_ok", "return_aborted", "return_error"} : Goto(t, pc)
  <2>1. CASE ClaimLease(t)
    BY <2>1 DEF ClaimLease
  <2>2. QED
    BY <2>1 DEF ObserveMergeState, ClaimPane, ClosePane, RecordPaneClosed, ReturnWorktree,
       RecordReturned
<1>5. Walks(t)
  BY <1>1, <1>4, Walking DEF UnwrittenPcs
<1>6. QED
  BY <1>1, <1>3, <1>5, NoRow, SettlingIsPlain DEF Plain

(* The start of a teardown, and the guard's look at the work.                *)
LEMMA GuardIsPlain ==
    ASSUME NEW t \in Tasks, LifecycleInv,
           (\E force \in BOOLEAN : StartTeardown(t, force)) \/ ExamineWork(t)
    PROVE  Plain(t) /\ RowsKeeping /\ cmd[t].pc \in {"idle"} \union GuardPcs
<1>1. UNCHANGED completions
  BY DEF StartTeardown, ExamineWork, LocalOnly, StoreOnly
<1>2. cmd \in [Tasks -> Command] /\ cmd[t] \in Command
  BY DEF LifecycleInv, CommandsTyped
<1>3. ASSUME NEW force \in BOOLEAN, StartTeardown(t, force)
      PROVE  Plain(t) /\ RowsKeeping /\ cmd[t].pc \in {"idle"} \union GuardPcs
  <2>1. PICK c : c = [Idle EXCEPT !.op = "teardown", !.pc = "recover", !.att = task[t].active,
                                  !.force = force, !.kind = task[t].kind, !.merged = Merged(t)]
    OBVIOUS
  <2>2. c.pc = "recover" /\ c.attest = "none"
    BY <2>1 DEF Idle
  <2>3. cmd' = [cmd EXCEPT ![t] = c] /\ cmd[t] = Idle /\ UNCHANGED storeVars
    BY <1>3, <2>1 DEF StartTeardown, LocalOnly
  <2>4. cmd'[t] = c /\ \A s \in Tasks \ {t} : cmd'[s] = cmd[s]
    BY <1>2, <2>3
  <2>5. Walks(t)
    BY <2>2, <2>4 DEF Walks, Minds, Continues, UnwrittenPcs, WrittenPcs
  <2>6. cmd[t].pc = "idle"
    BY <2>3 DEF Idle
  <2>7. QED
    BY <1>1, <2>3, <2>5, <2>6, NoRow DEF Plain
<1>4. CASE ExamineWork(t)
  <2> DEFINE tree == WorkIn(attempt[cmd[t].att].worktree)
  <2>1. cmd[t].pc = "examine"
    BY <1>4 DEF ExamineWork, At
  <2>2. \/ Leave(t)
        \/ \E pc \in {"decide", "merge_state"} : Goto(t, pc)
        \/ \E pc \in {"decide", "merge_state"}, kind \in Kinds, merged \in BOOLEAN :
              cmd' = [cmd EXCEPT ![t].pc = pc, ![t].safe = (tree.dirt = "scratch"),
                                 ![t].kind = kind, ![t].merged = merged]
    <3>1. cmd[t].merged \in BOOLEAN /\ (pr[t] = "merged") \in BOOLEAN
      BY <1>2 DEF Command
    <3>2. QED
      BY <1>4, <3>1 DEF ExamineWork, Kinds
  <2>3. ASSUME NEW pc \in {"decide", "merge_state"}, NEW kind, NEW merged,
               cmd' = [cmd EXCEPT ![t].pc = pc, ![t].safe = (tree.dirt = "scratch"),
                                  ![t].kind = kind, ![t].merged = merged]
        PROVE  Walks(t)
    <3>1. PICK safe \in BOOLEAN : safe = (tree.dirt = "scratch")
      OBVIOUS
    <3>2. PICK c : c = [cmd[t] EXCEPT !.pc = pc, !.safe = safe, !.kind = kind, !.merged = merged]
      OBVIOUS
    <3>3. c.pc = pc /\ c.att = cmd[t].att /\ c.attest = cmd[t].attest
      BY <1>2, <3>2 DEF Command
    <3>4. cmd' = [cmd EXCEPT ![t] = c]
      BY <1>2, <2>3, <3>1, <3>2
    <3>5. cmd'[t] = c /\ \A s \in Tasks \ {t} : cmd'[s] = cmd[s]
      BY <1>2, <3>4
    <3>6. QED
      BY <2>1, <3>3, <3>5 DEF Walks, Minds, Continues, UnwrittenPcs, WrittenPcs
  <2>4. Walks(t)
    BY <2>1, <2>2, <2>3, Walking DEF UnwrittenPcs
  <2>5. UNCHANGED storeVars \/ FactCall(t)
    BY <1>4 DEF ExamineWork, FactCall
  <2>6. QED
    BY <1>1, <2>1, <2>4, <2>5, NoRow, NoteCalls DEF Plain, LifecycleInv, GuardPcs
<1>5. QED
  BY <1>3, <1>4

-----------------------------------------------------------------------------
(* Reconciliation.                                                           *)

(* A command takes up an attempt.                                            *)
LEMMA TakesUp ==
    ASSUME NEW t \in Tasks, LifecycleInv, NEW a \in Attempts, NEW pc \in Pcs,
           cmd' = [cmd EXCEPT ![t].att = a, ![t].pc = pc]
    PROVE  /\ cmd'[t].pc = pc /\ cmd'[t].att = a
           /\ cmd'[t].attest = cmd[t].attest /\ cmd'[t].op = cmd[t].op
           /\ cmd'[t].lease = cmd[t].lease
           /\ \A s \in Tasks \ {t} : cmd'[s] = cmd[s]
<1>1. cmd \in [Tasks -> Command] /\ cmd[t] \in Command
  BY DEF LifecycleInv, CommandsTyped
<1>2. PICK c : c = [cmd[t] EXCEPT !.att = a, !.pc = pc]
  OBVIOUS
<1>3. /\ c.pc = pc /\ c.att = a /\ c.attest = cmd[t].attest /\ c.op = cmd[t].op
      /\ c.lease = cmd[t].lease
  BY <1>1, <1>2 DEF Command
<1>4. cmd' = [cmd EXCEPT ![t] = c]
  BY <1>1, <1>2 DEF Command
<1>5. QED
  BY <1>1, <1>3, <1>4

(* It says nothing of it where it is about to settle something of it.        *)
LEMMA TakingUp ==
    ASSUME NEW t \in Tasks, LifecycleInv, NEW a \in Attempts,
           NEW pc \in Pcs \ (UnwrittenPcs \union WrittenPcs \union {"abandon_worktree"}),
           cmd' = [cmd EXCEPT ![t].att = a, ![t].pc = pc]
    PROVE  Walks(t)
<1>0. pc \in Pcs
  OBVIOUS
<1>1. /\ cmd'[t].pc = pc /\ cmd'[t].attest = cmd[t].attest
      /\ \A s \in Tasks \ {t} : cmd'[s] = cmd[s]
  BY <1>0, TakesUp, ZenonT(30)
<1>2. Continues(t)
  BY <1>1 DEF Continues
<1>3. pc # "abandon_worktree"
  OBVIOUS
<1>4. Minds(t)
  BY <1>1, <1>3 DEF Minds
<1>5. QED
  BY <1>1, <1>2, <1>4 DEF Walks

(* It looks again, or leaves a diagnosis.                                    *)
LEMMA LooksAgain ==
    ASSUME NEW t \in Tasks, LifecycleInv, Again(t) \/ Leave(t)
    PROVE  Walks(t)
<1>1. "observe" \in Pcs \ (UnwrittenPcs \union WrittenPcs \union {"abandon_worktree"})
  BY DEF Pcs, FreePcs, UnwrittenPcs, WrittenPcs
<1>2. QED
  BY <1>1, Walking DEF Again

LEMMA DiagnosisIsPlain ==
    ASSUME NEW t \in Tasks, LifecycleInv, NEW a \in Attempts, NEW code \in ReconcileCodes,
           Diagnose(t, code, a), UNCHANGED completions
    PROVE  Plain(t) /\ RowsKeeping
<1>1. Walks(t)
  BY LooksAgain DEF Diagnose
<1>2. UNCHANGED storeVars \/ FactCall(t)
  BY ReconcileAssumption DEF Diagnose, FactCall
<1>3. QED
  BY <1>1, <1>2, NoRow, NoteCalls DEF Plain, LifecycleInv

LEMMA ClearingIsPlain ==
    ASSUME NEW t \in Tasks, LifecycleInv, task[t].repair \in ReconcileCodes,
           ClearTaskRepair(t, task[t].repair), Again(t), UNCHANGED completions
    PROVE  Plain(t) /\ RowsKeeping
<1>1. Walks(t)
  BY LooksAgain
<1>2. FactCall(t)
  BY ReconcileAssumption DEF FactCall
<1>3. QED
  BY <1>1, <1>2, NoteCalls DEF Plain, LifecycleInv

(* Looking, and clearing what is resolved.                                   *)
LEMMA LookingIsPlain ==
    ASSUME NEW t \in Tasks, LifecycleInv,
           \/ \E attest \in Attestations : StartReconcile(t, attest)
           \/ ObserveNothing(t) \/ ClearResolved(t)
    PROVE  Plain(t) /\ RowsKeeping /\ cmd[t].pc \in FreePcs /\ UNCHANGED external
<1>1. UNCHANGED completions /\ UNCHANGED external
  BY DEF StartReconcile, ObserveNothing, ClearResolved, LocalOnly, StoreOnly
<1>2. ASSUME NEW attest \in Attestations, StartReconcile(t, attest)
      PROVE  Plain(t) /\ RowsKeeping /\ cmd[t].pc \in FreePcs
  <2>1. PICK c : c = [Idle EXCEPT !.op = "reconcile", !.pc = "observe", !.attest = attest]
    OBVIOUS
  <2>2. c.pc = "observe" /\ c.attest = attest
    BY <2>1 DEF Idle
  <2>3. cmd' = [cmd EXCEPT ![t] = c] /\ cmd[t] = Idle /\ UNCHANGED storeVars
    BY <1>2, <2>1 DEF StartReconcile, LocalOnly
  <2>4. cmd'[t] = c /\ \A s \in Tasks \ {t} : cmd'[s] = cmd[s]
    BY <2>3 DEF LifecycleInv, CommandsTyped
  <2>5. "attests" \notin Events => attest = "none"
    BY <1>2 DEF StartReconcile
  <2>6. Walks(t)
    BY <2>2, <2>4, <2>5 DEF Walks, Minds, Continues, UnwrittenPcs, WrittenPcs
  <2>7. cmd[t].pc = "idle"
    BY <2>3 DEF Idle
  <2>8. QED
    BY <1>1, <2>3, <2>6, <2>7, NoRow DEF Plain, FreePcs
<1>3. CASE ObserveNothing(t)
  <2>1. UNCHANGED storeVars /\ Walks(t) /\ cmd[t].pc = "observe"
    BY <1>3, LooksAgain DEF ObserveNothing, LocalOnly, At
  <2>2. QED
    BY <1>1, <2>1, NoRow DEF Plain, FreePcs
<1>4. CASE ClearResolved(t)
  <2>1. task[t].repair \in ReconcileCodes /\ cmd[t].pc = "observe"
    BY <1>4 DEF ClearResolved, RepairResolved, ReconcileCodes, At
  <2>2. QED
    BY <1>1, <1>4, <2>1, ClearingIsPlain DEF ClearResolved, FreePcs
<1>5. QED
  BY <1>1, <1>2, <1>3, <1>4

(* A worktree is given up that is not there any more.                        *)
LEMMA AbandoningIsMinded ==
    ASSUME NEW t \in Tasks, NEW a \in Attempts, LifecycleInv,
           SetResource(t, a, "worktree", "abandoned"), Back(attempt[a].worktree)
    PROVE  RowsMinded
<1>1. attempt \in [Attempts -> AttemptRow] /\ attempt[a] \in AttemptRow
  BY DEF LifecycleInv, StoreInv, StoreTypeOK
<1>2. attempt' = [attempt EXCEPT ![a].settle["worktree"] = "abandoned"]
  BY DEF SetResource, SetAttemptTeardownResourceState
<1>3. PICK settle : settle = [attempt[a].settle EXCEPT !["worktree"] = "abandoned"]
  OBVIOUS
<1>4. PICK row : row = [attempt[a] EXCEPT !.settle = settle]
  OBVIOUS
<1>5. row.worktree = attempt[a].worktree
  BY <1>1, <1>4 DEF AttemptRow
<1>6. attempt' = [attempt EXCEPT ![a] = row]
  BY <1>2, <1>3, <1>4
<1>7. attempt'[a] = row /\ \A b \in Attempts \ {a} : attempt'[b] = attempt[b]
  BY <1>1, <1>6
<1>8. QED
  BY <1>5, <1>7 DEF RowsMinded

(* The pane of an attempt that is being settled.                             *)
LEMMA SettlingPaneIsPlain ==
    ASSUME NEW t \in Tasks, NEW a \in Attempts, LifecycleInv, SettlePane(t, a)
    PROVE  Plain(t) /\ RowsKeeping /\ cmd[t].pc \in FreePcs /\ UNCHANGED external
<1> DEFINE codes == {"teardown-resource-ambiguous", "herdr-ownership-mismatch"}
<1>1. UNCHANGED completions /\ UNCHANGED external /\ cmd[t].pc \in FreePcs
  BY DEF SettlePane, StoreOnly, Settling, At, FreePcs
<1>2. codes \subseteq ReconcileCodes /\ "teardown-resource-ambiguous" \in ReconcileCodes
  BY DEF ReconcileCodes, PaneCodes
<1>3. CASE Leave(t) /\ UNCHANGED storeVars
  BY <1>1, <1>3, NoRow, LooksAgain DEF Plain
<1>4. CASE Diagnose(t, "teardown-resource-ambiguous", a)
  BY <1>1, <1>2, <1>4, DiagnosisIsPlain
<1>5. CASE Abandon(t, a, "herdr")
  <2>1. CASE /\ SetResource(t, a, "herdr", "ambiguous")
             /\ cmd' = [cmd EXCEPT ![t].att = a, ![t].pc = "abandon_herdr"]
    <3>1. "abandon_herdr" \in Pcs \ (UnwrittenPcs \union WrittenPcs \union {"abandon_worktree"})
      BY DEF Pcs, ClosingPcs, PanePcs, UnwrittenPcs, WrittenPcs
    <3>2. Walks(t)
      BY <2>1, <3>1, TakingUp
    <3>3. QED
      BY <1>1, <2>1, <3>2, SettlingIsPlain
  <2>2. CASE SetResource(t, a, "herdr", "abandoned") /\ Again(t)
    BY <1>1, <2>2, LooksAgain, SettlingIsPlain
  <2>3. QED
    BY <1>5, <2>1, <2>2 DEF Abandon
<1>6. ASSUME NEW pc \in {"pane_closed", "close_settled"},
             ClearOr(t, a, codes, ClaimThen(t, a, "herdr", {""}, pc))
      PROVE  Plain(t) /\ RowsKeeping
  <2>1. CASE Clearable(t, a, codes) /\ ClearTaskRepair(t, task[t].repair) /\ Again(t)
    BY <1>1, <1>2, <2>1, ClearingIsPlain DEF Clearable
  <2>2. CASE ClaimThen(t, a, "herdr", {""}, pc)
    <3>1. SetResource(t, a, "herdr", "releasing") \/ UNCHANGED storeVars
      BY <2>2 DEF ClaimThen
    <3>2. pc \in Pcs \ (UnwrittenPcs \union WrittenPcs \union {"abandon_worktree"})
      BY DEF Pcs, ClosingPcs, PanePcs, UnwrittenPcs, WrittenPcs
    <3>3. Walks(t)
      BY <2>2, <3>2, TakingUp DEF ClaimThen
    <3>4. QED
      BY <1>1, <3>1, <3>3, SettlingIsPlain
  <2>3. QED
    BY <1>6, <2>1, <2>2 DEF ClearOr
<1>7. PICK seen \in PaneSeen(attempt[a].herdr) :
          CASE seen = "unknown" -> Leave(t) /\ UNCHANGED storeVars
            [] seen = "mismatch" ->
                  IF cmd[t].attest = "pane" THEN Abandon(t, a, "herdr")
                  ELSE Diagnose(t, "teardown-resource-ambiguous", a)
            [] seen = "absent" -> ClearOr(t, a, codes, ClaimThen(t, a, "herdr", {""}, "pane_closed"))
            [] seen \in {"agent", "shell"} ->
                  ClearOr(t, a, codes, ClaimThen(t, a, "herdr", {""}, "close_settled"))
  BY DEF SettlePane
<1>8. seen \in {"unknown", "mismatch", "absent", "agent", "shell"}
  <2>1. attempt[a].herdr \in Panes /\ Opened(attempt[a].herdr)
    BY RowFacts DEF SettlePane, PaneUnsettled
  <2>2. WorldTyped
    BY DEF LifecycleInv
  <2>3. seen \in PaneSeen(attempt[a].herdr)
    BY <1>7
  <2>4. QED
    BY <2>1, <2>2, <2>3, PanesSeen
<1>9. CASE seen = "unknown"
  BY <1>1, <1>3, <1>7, <1>9
<1>10. CASE seen = "mismatch"
  BY <1>1, <1>4, <1>5, <1>7, <1>10
<1>11. CASE seen = "absent"
  BY <1>1, <1>6, <1>7, <1>11
<1>12. CASE seen \in {"agent", "shell"}
  BY <1>1, <1>6, <1>7, <1>12
<1>13. QED
  BY <1>8, <1>9, <1>10, <1>11, <1>12

(* Its worktree.                                                             *)
LEMMA SettlingLeaseIsPlain ==
    ASSUME NEW t \in Tasks, NEW a \in Attempts, LifecycleInv, SettleLease(t, a)
    PROVE  /\ Plain(t) /\ cmd[t].pc \in FreePcs /\ UNCHANGED external
           /\ "attests" \notin Events /\ cmd[t].attest = "none" => RowsMinded
<1> DEFINE tree == WorkIn(attempt[a].worktree)
           foreign == {"worktree-ownership-mismatch", "worktree-ownership-unobservable"}
           unseen == LeaseCodes \ {"worktree-dirty"}
           Good == Plain(t) /\ ("attests" \notin Events /\ cmd[t].attest = "none" => RowsMinded)
<1>1. UNCHANGED completions /\ UNCHANGED external /\ cmd[t].pc \in FreePcs
  BY DEF SettleLease, StoreOnly, Settling, At, FreePcs
<1>2. /\ attempt[a].worktree \in Leases /\ Issued(attempt[a].worktree)
  BY RowFacts DEF SettleLease, LeaseUnsettled
<1>3. RowsKeeping => RowsMinded
  BY DEF RowsKeeping, RowsMinded, Keeping
<1>4. /\ foreign \subseteq ReconcileCodes /\ unseen \subseteq ReconcileCodes
      /\ LeaseCodes \subseteq ReconcileCodes
      /\ {"worktree-ownership-unobservable", "worktree-dirty", "worktree-local-commits",
          "worktree-commit-safety-unknown"} \subseteq ReconcileCodes
  BY DEF ReconcileCodes, LeaseCodes
<1>5. ASSUME NEW codes \in SUBSET ReconcileCodes, Clearable(t, a, codes),
             ClearTaskRepair(t, task[t].repair), Again(t)
      PROVE  Good
  BY <1>1, <1>3, <1>5, ClearingIsPlain DEF Clearable
<1>6. ASSUME NEW codes \in SUBSET ReconcileCodes, NEW from,
             NEW pc \in {"lease_returned", "return_settled"},
             ClearOr(t, a, codes, ClaimThen(t, a, "worktree", from, pc))
      PROVE  Good
  <2>1. CASE ClaimThen(t, a, "worktree", from, pc)
    <3>1. SetResource(t, a, "worktree", "releasing") \/ UNCHANGED storeVars
      BY <2>1 DEF ClaimThen
    <3>2. pc \in Pcs \ (UnwrittenPcs \union WrittenPcs \union {"abandon_worktree"})
      BY DEF Pcs, ClosingPcs, WorktreePcs, UnwrittenPcs, WrittenPcs
    <3>3. Walks(t)
      BY <2>1, <3>2, TakingUp DEF ClaimThen
    <3>4. QED
      BY <1>1, <1>3, <3>1, <3>3, SettlingIsPlain
  <2>2. QED
    BY <1>5, <1>6, <2>1 DEF ClearOr
<1>7. ASSUME Abandon(t, a, "worktree"),
             "attests" \notin Events /\ cmd[t].attest = "none" => Back(attempt[a].worktree)
      PROVE  Good
  <2>1. CASE SetResource(t, a, "worktree", "abandoned") /\ Again(t)
    BY <1>1, <1>7, <2>1, LooksAgain, SettlingIsPlain, AbandoningIsMinded
  <2>2. CASE /\ SetResource(t, a, "worktree", "ambiguous")
             /\ cmd' = [cmd EXCEPT ![t].att = a, ![t].pc = "abandon_worktree"]
    <3>1. /\ cmd'[t].pc = "abandon_worktree" /\ cmd'[t].att = a
          /\ cmd'[t].attest = cmd[t].attest /\ \A s \in Tasks \ {t} : cmd'[s] = cmd[s]
      <4>1. "abandon_worktree" \in Pcs
        BY DEF Pcs, ClosingPcs, WorktreePcs
      <4>2. QED
        BY <2>2, <4>1, TakesUp, ZenonT(30)
    <3>2. "worktree" \in Resources
      BY WorldAssumption
    <3>3. RowsKeeping /\ lease' = lease
      BY <1>1, <2>2, <3>2, ResourceCalls DEF LifecycleInv, external
    <3>4. attempt'[a].worktree = attempt[a].worktree
      BY <3>3 DEF RowsKeeping, Keeping
    <3>5. Minds(t)
      BY <1>7, <3>1, <3>3, <3>4 DEF Minds, Back
    <3>6. Walks(t)
      BY <3>1, <3>5 DEF Walks, Continues, UnwrittenPcs, WrittenPcs
    <3>7. QED
      BY <1>1, <1>3, <2>2, <3>3, <3>6, SettlingIsPlain
  <2>3. QED
    BY <1>7, <2>1, <2>2 DEF Abandon
<1>8. ASSUME NEW code \in {"worktree-ownership-unobservable", "worktree-dirty",
                           "worktree-local-commits", "worktree-commit-safety-unknown"},
             Diagnose(t, code, a)
      PROVE  Good
  BY <1>1, <1>3, <1>4, <1>8, DiagnosisIsPlain
<1>9. ASSUME NEW safety \in CommitSafety(tree),
             CASE safety = "local" -> Diagnose(t, "worktree-local-commits", a)
               [] safety = "unknown" -> Diagnose(t, "worktree-commit-safety-unknown", a)
               [] safety = "durable" ->
                    ClearOr(t, a, LeaseCodes,
                            ClaimThen(t, a, "worktree", {"", "ambiguous"}, "return_settled"))
      PROVE  Good
  <2>1. safety \in {"local", "unknown", "durable"}
    BY DEF CommitSafety, Unobservable
  <2>2. CASE safety = "local"
    <3>1. Diagnose(t, "worktree-local-commits", a)
      BY <1>9, <2>2
    <3>2. QED
      BY <1>8, <3>1
  <2>3. CASE safety = "unknown"
    <3>1. Diagnose(t, "worktree-commit-safety-unknown", a)
      BY <1>9, <2>3
    <3>2. QED
      BY <1>8, <3>1
  <2>4. CASE safety = "durable"
    <3>1. ClearOr(t, a, LeaseCodes,
                  ClaimThen(t, a, "worktree", {"", "ambiguous"}, "return_settled"))
      BY <1>9, <2>4
    <3>2. QED
      BY <1>4, <1>6, <3>1
  <2>5. QED
    BY <2>1, <2>2, <2>3, <2>4
<1>10. PICK seen \in LeaseSeen(attempt[a].worktree) :
          \/ /\ seen = "unknown"
             /\ IF cmd[t].attest = "worktree" THEN Abandon(t, a, "worktree")
                ELSE Diagnose(t, "worktree-ownership-unobservable", a)
          \/ /\ seen = "mismatch"
             /\ ClearOr(t, a, foreign, Abandon(t, a, "worktree"))
          \/ /\ seen = "absent"
             /\ ClearOr(t, a, unseen, ClaimThen(t, a, "worktree", {}, "lease_returned"))
          \/ Diagnose(t, "worktree-dirty", a)
          \/ \E safety \in CommitSafety(tree) :
                CASE safety = "local" -> Diagnose(t, "worktree-local-commits", a)
                  [] safety = "unknown" -> Diagnose(t, "worktree-commit-safety-unknown", a)
                  [] safety = "durable" ->
                       ClearOr(t, a, LeaseCodes,
                               ClaimThen(t, a, "worktree", {"", "ambiguous"}, "return_settled"))
  BY DEF SettleLease
<1>11. seen = "mismatch" => Back(attempt[a].worktree)
  <2>1. WorldTyped
    BY DEF LifecycleInv
  <2>2. QED
    BY <1>2, <1>10, <2>1, LeasesSeen
<1> HIDE DEF Good
<1>12. ASSUME seen = "unknown", cmd[t].attest = "worktree", Abandon(t, a, "worktree")
       PROVE  Good
  <2>1. cmd[t].attest # "none"
    BY <1>12
  <2>2. QED
    BY <1>7, <1>12, <2>1
<1>13. ASSUME seen = "mismatch", ClearOr(t, a, foreign, Abandon(t, a, "worktree"))
       PROVE  Good
  <2>1. CASE Clearable(t, a, foreign) /\ ClearTaskRepair(t, task[t].repair) /\ Again(t)
    BY <1>4, <1>5, <2>1
  <2>2. QED
    BY <1>7, <1>11, <1>13, <2>1 DEF ClearOr
<1>14. ASSUME ClearOr(t, a, unseen, ClaimThen(t, a, "worktree", {}, "lease_returned"))
       PROVE  Good
  BY <1>4, <1>6, <1>14
<1>15. Good
  BY <1>8, <1>9, <1>10, <1>12, <1>13, <1>14
<1>16. QED
  BY <1>1, <1>15 DEF Good

(* The calls that release them.                                              *)
LEMMA ClosingSettledIsPlain ==
    ASSUME NEW t \in Tasks, LifecycleInv, CloseSettled(t) \/ ReturnSettled(t)
    PROVE  Plain(t) /\ RowsKeeping /\ cmd[t].pc \in ClosingPcs
<1>1. /\ UNCHANGED completions /\ UNCHANGED storeVars
      /\ cmd[t].pc \in ClosingPcs
  BY DEF CloseSettled, ReturnSettled, WorldOnly, At, ClosingPcs, PanePcs, WorktreePcs
<1>2. {"pane_closed", "pane_unclosed", "lease_returned"} \subseteq
          Pcs \ (UnwrittenPcs \union WrittenPcs \union {"abandon_worktree"})
  BY DEF Pcs, ClosingPcs, PanePcs, WorktreePcs, UnwrittenPcs, WrittenPcs
<1>3. Leave(t) \/ \E pc \in {"pane_closed", "pane_unclosed", "lease_returned"} : Goto(t, pc)
  BY DEF CloseSettled, ReturnSettled
<1>4. Walks(t)
  BY <1>2, <1>3, Walking
<1>5. QED
  BY <1>1, <1>4, NoRow DEF Plain

(* What is recorded of them.                                                 *)
LEMMA RecordingSettledIsPlain ==
    ASSUME NEW t \in Tasks, LifecycleInv, RecordSettled(t) \/ RecordAbandoned(t)
    PROVE  /\ Plain(t) /\ cmd[t].pc \in ClosingPcs /\ UNCHANGED external
           /\ cmd[t].pc = "abandon_worktree" /\ Back(attempt[cmd[t].att].worktree) => RowsMinded
           /\ cmd[t].pc # "abandon_worktree" => RowsMinded
<1>1. /\ UNCHANGED completions /\ UNCHANGED external /\ cmd[t].pc \in ClosingPcs
      /\ cmd[t].pc # "abandon_worktree" \/ RecordAbandoned(t)
  BY DEF RecordSettled, RecordAbandoned, StoreOnly, At, ClosingPcs, PanePcs, WorktreePcs
<1>2. PICK a \in Attempts : a = cmd[t].att
  BY <1>1, ClosingFacts
<1>3. Walks(t)
  BY LooksAgain DEF RecordSettled, RecordAbandoned
<1>4. RowsKeeping => RowsMinded
  BY DEF RowsKeeping, RowsMinded, Keeping
<1>5. CASE RecordSettled(t)
  <2>1. \/ UNCHANGED storeVars
        \/ \E r \in {"herdr", "worktree"}, next \in {"released", "ambiguous"} :
              SetResource(t, a, r, next)
    BY <1>2, <1>5 DEF RecordSettled, SetResourceOrRepeat
  <2>2. Plain(t) /\ RowsKeeping
    BY <1>1, <1>3, <2>1, NoRow, SettlingIsPlain DEF Plain
  <2>3. QED
    BY <1>1, <1>4, <2>2
<1>6. CASE RecordAbandoned(t)
  <2>1. CASE At(t, "abandon_herdr") /\ SetResource(t, a, "herdr", "abandoned")
    <3>1. Plain(t) /\ RowsKeeping
      BY <1>1, <1>3, <2>1, SettlingIsPlain
    <3>2. QED
      BY <1>1, <1>4, <3>1
  <2>2. CASE At(t, "abandon_worktree") /\ SetResource(t, a, "worktree", "abandoned")
    <3>1. Plain(t)
      BY <1>1, <1>3, <2>2, SettlingIsPlain
    <3>2. QED
      BY <1>1, <1>2, <2>2, <3>1, AbandoningIsMinded DEF At
  <2>3. QED
    BY <1>2, <1>6, <2>1, <2>2 DEF RecordAbandoned
<1>7. QED
  BY <1>5, <1>6

-----------------------------------------------------------------------------
(* The steps that tell: the decision, the line, the note of it, the end.     *)

(* One row is told of, and the task goes on as it was.                       *)
LEMMA Telling ==
    ASSUME NEW t \in Tasks, NEW a \in Attempts, LifecycleInv, TaleInv,
           attempt[a].owner = t, attempt'[a].owner = t,
           \A b \in Attempts \ {a} : attempt'[b] = attempt[b] /\ records'[b] = records[b],
           Found(a) => Found(a)', RowTold(attempt'[a], records'[a]),
           FileOK', CommandTells(t)',
           \A s \in Tasks \ {t} : cmd'[s] = cmd[s],
           \A s \in Tasks : task'[s].life = task[s].life
    PROVE  TaleInv'
<1>1. RowsTold'
  <2>1. \A b \in Attempts : RowTold(attempt[b], records[b])
    BY DEF TaleInv, RowsTold
  <2>2. \A b \in Attempts : RowTold(attempt'[b], records'[b])
    BY <2>1
  <2>3. QED
    BY <2>2 DEF RowsTold
<1>2. Legible /\ task'[t].life = "terminal" => OnRecord(t)'
  <2>1. \A b \in Attempts : /\ attempt'[b].owner = attempt[b].owner
                            /\ Found(b) => Found(b)'
    BY DEF Found
  <2>2. Legible /\ task[t].life = "terminal" => OnRecord(t)
    BY DEF TaleInv, EndIsOnRecord, OnRecord
  <2>3. OnRecord(t) => OnRecord(t)'
    BY <2>1 DEF OnRecord
  <2>4. QED
    BY <2>2, <2>3
<1>3. \A b \in Attempts : /\ attempt[b].owner \in Tasks \ {t} =>
                                attempt'[b] = attempt[b] /\ records'[b] = records[b]
                          /\ attempt'[b].owner \in {attempt[b].owner, t}
  OBVIOUS
<1>4. \A s \in Tasks \ {t} : cmd'[s] = cmd[s] /\ task'[s].life = task[s].life
  OBVIOUS
<1>5. QED
  BY <1>1, <1>2, <1>3, <1>4, TellingKeeps

(* The completion column.                                                    *)
LEMMA ColumnTells ==
    ASSUME NEW t \in Tasks, NEW a \in Attempts, NEW next \in {"pending", "appended"},
           LifecycleInv, TaleInv, Closed(attempt[a]),
           SetAttemptTeardownCompletionState(t, a, attempt[a].life, next),
           UNCHANGED completions, CommandTells(t)', \A s \in Tasks \ {t} : cmd'[s] = cmd[s]
    PROVE  TaleInv' /\ RowsKeeping
<1>1. /\ RowsKeeping /\ UNCHANGED task /\ attempt[a].owner = t
      /\ attempt[a].completion = CompletionFrom[next]
      /\ \A b \in Attempts \ {a} : attempt'[b] = attempt[b]
      /\ attempt'[a].completion = next
      /\ attempt'[a].owner = t /\ attempt'[a].life = attempt[a].life
      /\ attempt'[a].decided = attempt[a].decided
      /\ attempt'[a].disposition = attempt[a].disposition
  BY CompletionCall DEF LifecycleInv
<1>2. records' = records /\ torn' = torn
  BY DEF completions
<1>3. RowTold(attempt'[a], records'[a])
  <2>1. RowTold(attempt[a], records[a])
    BY DEF TaleInv, RowsTold
  <2>2. attempt'[a].completion # ""
    BY <1>1
  <2>3. QED
    BY <1>1, <1>2, <2>1, <2>2 DEF RowTold, Tells, Closed
<1>4. FileOK'
  BY <1>2 DEF TaleInv, FileOK
<1>5. TaleInv'
  BY <1>1, <1>2, <1>3, <1>4, Telling DEF Found
<1>6. QED
  BY <1>1, <1>5

(* A line of the log.                                                        *)
LEMMA LineFacts ==
    ASSUME NEW a \in Attempts, NEW o \in Outcomes, NEW result \in {"ok", "error"},
           TaleInv, ~Found(a), AppendRecord(a, o, result)
    PROVE  /\ \A b \in Attempts \ {a} : records'[b] = records[b]
           /\ records'[a] = <<>> \/ records'[a] = <<o>>
           /\ FileOK'
           /\ Legible /\ result = "ok" => Found(a)'
<1>1. /\ records \in [Attempts -> Seq(Outcomes)]
      /\ torn \in BOOLEAN /\ (Legible => ~torn)
  BY DEF TaleInv, FileOK
<1>2. records[a] = <<>>
  BY DEF Found
<1>3. CASE Written(a, o)
  <2>1. CASE torn
    BY <1>1, <1>2, <1>3, <2>1 DEF Written, FileOK
  <2>2. CASE ~torn
    <3>1. records' = [records EXCEPT ![a] = <<o>>] /\ torn' = FALSE
      BY <1>2, <1>3, <2>2 DEF Written
    <3>2. records'[a] = <<o>> /\ \A b \in Attempts \ {a} : records'[b] = records[b]
      BY <1>1, <3>1
    <3>3. <<o>> # <<>> /\ <<o>> \in Seq(Outcomes)
      OBVIOUS
    <3>4. records' \in [Attempts -> Seq(Outcomes)]
      BY <1>1, <3>1, <3>3
    <3>5. QED
      BY <3>1, <3>2, <3>3, <3>4 DEF FileOK, Found
  <2>3. QED
    BY <1>1, <2>1, <2>2
<1>4. CASE UNCHANGED completions /\ result = "error"
  BY <1>1, <1>2, <1>4 DEF completions, FileOK
<1>5. CASE "short_write" \in Events /\ torn' = TRUE /\ UNCHANGED records /\ result = "error"
  BY <1>1, <1>2, <1>5 DEF FileOK, Legible
<1>6. QED
  BY <1>3, <1>4, <1>5 DEF AppendRecord

LEMMA LineTells ==
    ASSUME NEW t \in Tasks, NEW a \in Attempts, NEW o \in Outcomes, NEW result \in {"ok", "error"},
           LifecycleInv, TaleInv, attempt[a].owner = t, ~Found(a), attempt[a].completion # "",
           Tells(attempt[a], o),
           AppendRecord(a, o, result), UNCHANGED storeVars,
           \A s \in Tasks \ {t} : cmd'[s] = cmd[s],
           \/ cmd'[t].pc \notin UnwrittenPcs \union WrittenPcs
           \/ result = "ok" /\ cmd'[t].pc \in WrittenPcs /\ cmd'[t].att = a
    PROVE  TaleInv' /\ RowsKeeping
<1>1. attempt' = attempt /\ task' = task /\ RowsKeeping
  BY NoRow DEF storeVars
<1>2. /\ \A b \in Attempts \ {a} : records'[b] = records[b]
      /\ records'[a] = <<>> \/ records'[a] = <<o>>
      /\ FileOK'
      /\ Legible /\ result = "ok" => Found(a)'
  BY LineFacts
<1>3. RowTold(attempt'[a], records'[a])
  <2>1. RowTold(attempt[a], records[a])
    BY DEF TaleInv, RowsTold
  <2>2. QED
    BY <1>1, <1>2, <2>1 DEF RowTold
<1>4. CommandTells(t)'
  <2>1. CASE cmd'[t].pc \notin UnwrittenPcs \union WrittenPcs
    BY <2>1 DEF CommandTells, UnwrittenPcs, WrittenPcs
  <2>2. CASE result = "ok" /\ cmd'[t].pc \in WrittenPcs /\ cmd'[t].att = a
    BY <1>2, <2>2 DEF CommandTells, UnwrittenPcs, WrittenPcs
  <2>3. QED
    BY <2>1, <2>2
<1>5. TaleInv'
  BY <1>1, <1>2, <1>3, <1>4, Telling
<1>6. QED
  BY <1>1, <1>5

(* What the line says of an attempt that is decided and, where it was        *)
(* decided to be complete, launched.                                         *)
LEMMA OutcomeFacts ==
    ASSUME NEW t \in Tasks, NEW a \in Attempts, NEW kind, NEW merged \in BOOLEAN,
           NEW launched \in BOOLEAN,
           attempt[a].decided = "completed" =>
               launched /\ attempt[a].disposition \in {"completed", "completed-safe-dirt"}
    PROVE  /\ OutcomeOf(t, a, kind, merged, launched) \in Outcomes
           /\ Tells(attempt[a], OutcomeOf(t, a, kind, merged, launched))
<1> DEFINE why == attempt[a].disposition
           unlaunched == ~launched \/ why \in Unworked \union {"forced"}
<1>1. PICK o : o = OutcomeOf(t, a, kind, merged, launched)
  OBVIOUS
<1>2. LandedAs(t, kind, merged) \in Landings
  BY DEF LandedAs, Landings
<1>3. Landings \subseteq Outcomes /\ {"failed", "torn-down", "unlanded"} \subseteq Outcomes
  BY DEF Outcomes
<1>4. "failed" \notin Landings /\ "torn-down" \notin Landings /\ "unlanded" \notin Landings
  BY DEF Landings
<1>5. CASE attempt[a].reported = "failed"
  <2>1. o = "failed"
    BY <1>1, <1>5 DEF OutcomeOf
  <2>2. QED
    BY <1>1, <1>3, <1>4, <2>1 DEF Tells
<1>6. CASE attempt[a].reported # "failed" /\ unlaunched
  <2>1. o = "torn-down"
    BY <1>1, <1>6 DEF OutcomeOf
  <2>2. attempt[a].decided # "completed"
    BY <1>6 DEF Unworked
  <2>3. QED
    BY <1>1, <1>3, <1>4, <2>1, <2>2 DEF Tells
<1>7. CASE attempt[a].reported # "failed" /\ ~unlaunched /\ why = "worker-exited-unlanded"
  <2>1. o = "unlanded"
    BY <1>1, <1>7 DEF OutcomeOf
  <2>2. attempt[a].decided # "completed"
    BY <1>7
  <2>3. QED
    BY <1>1, <1>3, <1>4, <2>1, <2>2 DEF Tells
<1>8. CASE attempt[a].reported # "failed" /\ ~unlaunched /\ why # "worker-exited-unlanded"
  <2>1. o = LandedAs(t, kind, merged)
    BY <1>1, <1>8 DEF OutcomeOf
  <2>2. QED
    BY <1>1, <1>2, <1>3, <1>8, <2>1 DEF Tells
<1>9. QED
  BY <1>5, <1>6, <1>7, <1>8

(* The decision.                                                             *)
LEMMA DecisionTells ==
    ASSUME NEW t \in Tasks, NEW a \in Attempts, NEW terminal, NEW d, LifecycleInv, TaleInv,
           SetAttemptTeardownDecision(t, a, terminal, d),
           terminal = "completed" =>
               d \in {"completed", "completed-safe-dirt"} /\ attempt[a].life = "running",
           UNCHANGED completions, CommandTells(t)', \A s \in Tasks \ {t} : cmd'[s] = cmd[s]
    PROVE  TaleInv' /\ RowsKeeping
<1>1. /\ RowsKeeping /\ UNCHANGED task /\ attempt[a].owner = t
      /\ attempt[a].decided = "" /\ attempt[a].life \in LiveStates
      /\ \A b \in Attempts \ {a} : attempt'[b] = attempt[b]
      /\ attempt'[a].decided = terminal /\ attempt'[a].disposition = d
      /\ attempt'[a].owner = t /\ attempt'[a].life = attempt[a].life
      /\ attempt'[a].completion = attempt[a].completion
  BY DecisionCall DEF LifecycleInv
<1>2. records' = records /\ torn' = torn
  BY DEF completions
<1>3. RowTold(attempt'[a], records'[a])
  <2>1. RowTold(attempt[a], records[a])
    BY DEF TaleInv, RowsTold
  <2>2. attempt[a].completion = "" /\ records[a] = <<>>
    BY <1>1, <2>1 DEF RowTold, Closed, LiveStates, TerminalStates
  <2>3. attempt'[a].life \notin TerminalStates
    BY <1>1 DEF LiveStates, TerminalStates
  <2>4. QED
    BY <1>1, <1>2, <2>2, <2>3 DEF RowTold
<1>4. FileOK'
  BY <1>2 DEF TaleInv, FileOK
<1>5. TaleInv'
  BY <1>1, <1>2, <1>3, <1>4, Telling DEF Found
<1>6. QED
  BY <1>1, <1>5

(* The end.                                                                  *)
LEMMA EndTells ==
    ASSUME NEW t \in Tasks, NEW a \in Attempts, LifecycleInv, TaleInv,
           TerminalizeTaskAndAttempt(t, a, attempt[a].life, attempt[a].decided),
           Legible => Found(a), UNCHANGED completions,
           cmd'[t].pc \notin UnwrittenPcs \union WrittenPcs,
           \A s \in Tasks \ {t} : cmd'[s] = cmd[s]
    PROVE  TaleInv' /\ RowsKeeping
<1>1. /\ RowsKeeping /\ attempt[a].owner = t
      /\ a = task[t].active /\ attempt[a].decided \in TerminalStates
      /\ attempt[a].life \in LiveStates
      /\ \A s \in Tasks \ {t} : task'[s] = task[s]
      /\ \A b \in Attempts \ {a} : attempt'[b] = attempt[b]
      /\ attempt'[a].life = attempt[a].decided /\ attempt'[a].owner = t
      /\ attempt'[a].completion = attempt[a].completion
      /\ attempt'[a].decided = attempt[a].decided
      /\ attempt'[a].disposition = attempt[a].disposition
  <2>1. PICK to \in TerminalStates : to = attempt[a].decided
    BY DEF TerminalizeTaskAndAttempt, ValidAttemptTransition, LiveStates, TerminalStates
  <2>2. TerminalizeTaskAndAttempt(t, a, attempt[a].life, to) /\ StoreInv
    BY <2>1 DEF LifecycleInv
  <2>3. /\ RowsKeeping /\ attempt[a].owner = t
        /\ a = task[t].active /\ attempt[a].life \in LiveStates
        /\ \A s \in Tasks \ {t} : task'[s] = task[s]
        /\ \A b \in Attempts \ {a} : attempt'[b] = attempt[b]
        /\ attempt'[a].life = to /\ attempt'[a].owner = t
        /\ attempt'[a].completion = attempt[a].completion
        /\ attempt'[a].decided = attempt[a].decided
        /\ attempt'[a].disposition = attempt[a].disposition
    BY <2>2, EndCall, ZenonT(30)
  <2>4. QED
    BY <2>1, <2>3
<1>2. records' = records /\ torn' = torn
  BY DEF completions
<1>3. RowTold(attempt'[a], records'[a])
  <2>1. RowTold(attempt[a], records[a])
    BY DEF TaleInv, RowsTold
  <2>2. Closed(attempt'[a])
    BY <1>1 DEF Closed
  <2>3. QED
    BY <1>1, <1>2, <2>1, <2>2 DEF RowTold, Tells
<1>4. RowsTold'
  <2>1. \A b \in Attempts : RowTold(attempt[b], records[b])
    BY DEF TaleInv, RowsTold
  <2>2. \A b \in Attempts : RowTold(attempt'[b], records'[b])
    BY <1>1, <1>2, <1>3, <2>1
  <2>3. QED
    BY <2>2 DEF RowsTold
<1>5. FileOK'
  BY <1>2 DEF TaleInv, FileOK
<1>6. CommandTells(t)'
  BY DEF CommandTells, UnwrittenPcs, WrittenPcs
<1>7. Legible => OnRecord(t)'
  <2>1. a # NoAttempt
    BY StoreAssumption DEF Attempts
  <2>2. \A b \in Attempts : attempt[b].owner = t => b <= a
    BY <1>1, <2>1 DEF LifecycleInv, StoreInv, OwnerIsNewest
  <2>3. \A b \in Attempts : attempt'[b].owner = attempt[b].owner
    BY <1>1
  <2>4. QED
    BY <1>1, <1>2, <2>2, <2>3 DEF OnRecord, Found
<1>8. \A b \in Attempts : /\ attempt[b].owner \in Tasks \ {t} =>
                                attempt'[b] = attempt[b] /\ records'[b] = records[b]
                          /\ attempt'[b].owner \in {attempt[b].owner, t}
  BY <1>1, <1>2
<1>9. \A s \in Tasks \ {t} : cmd'[s] = cmd[s] /\ task'[s].life = task[s].life
  BY <1>1
<1>10. TaleInv'
  BY <1>4, <1>5, <1>6, <1>7, <1>8, <1>9, TellingKeeps
<1>11. QED
  BY <1>1, <1>10

(* Nothing is told; the command goes where what it says is true.             *)
LEMMA SilenceTells ==
    ASSUME NEW t \in Tasks, LifecycleInv, TaleInv, UNCHANGED storeVars, UNCHANGED completions,
           CommandTells(t)', \A s \in Tasks \ {t} : cmd'[s] = cmd[s]
    PROVE  TaleInv' /\ RowsKeeping
<1>1. /\ attempt' = attempt /\ task' = task /\ records' = records /\ torn' = torn
      /\ RowsKeeping
  BY NoRow DEF storeVars, completions
<1>2. RowsTold' /\ FileOK'
  BY <1>1 DEF TaleInv, RowsTold, FileOK
<1>3. Legible /\ task'[t].life = "terminal" => OnRecord(t)'
  BY <1>1 DEF TaleInv, EndIsOnRecord, OnRecord, Found
<1>4. \A a \in Attempts : /\ attempt[a].owner \in Tasks \ {t} =>
                                attempt'[a] = attempt[a] /\ records'[a] = records[a]
                          /\ attempt'[a].owner \in {attempt[a].owner, t}
  BY <1>1
<1>5. \A s \in Tasks \ {t} : cmd'[s] = cmd[s] /\ task'[s].life = task[s].life
  BY <1>1
<1>6. TaleInv'
  BY <1>2, <1>3, <1>4, <1>5, TellingKeeps
<1>7. QED
  BY <1>1, <1>6

(* A command that says nothing says nothing wrong.                           *)
LEMMA Mute ==
    ASSUME NEW t \in Tasks, cmd'[t].pc \notin UnwrittenPcs \union WrittenPcs
    PROVE  CommandTells(t)'
BY DEF CommandTells, UnwrittenPcs, WrittenPcs

(* What a step that tells does otherwise.                                    *)
Heeds(t) == Minds(t) /\ \A s \in Tasks \ {t} : cmd'[s] = cmd[s]
Told(t) == TaleInv' /\ RowsKeeping /\ Heeds(t)

LEMMA Heeding ==
    ASSUME NEW t \in Tasks, LifecycleInv,
           Leave(t) \/ Again(t) \/ \E pc \in Pcs \ {"abandon_worktree"} : Goto(t, pc)
    PROVE  Heeds(t)
<1>1. CASE Leave(t)
  BY <1>1, LeaveFacts DEF Heeds, Minds
<1>2. ASSUME NEW pc, pc # "abandon_worktree", Goto(t, pc)
      PROVE  Heeds(t)
  BY <1>2, GotoFacts DEF Heeds, Minds
<1>3. QED
  BY <1>1, <1>2 DEF Again

LEMMA PlainTold ==
    ASSUME NEW t \in Tasks, LifecycleInv, TaleInv, Plain(t)
    PROVE  TaleInv' /\ Heeds(t)
BY UntoldKeeps DEF Plain, Walks, Heeds

(* A note on file is picked up by a teardown, or the teardown starts anew.   *)
LEMMA RecoveringTells ==
    ASSUME NEW t \in Tasks, LifecycleInv, TaleInv, RecoverCompletion(t)
    PROVE  Told(t)
<1>1. /\ cmd[t].pc = "recover" /\ UNCHANGED completions
      /\ cmd[t].pc \in GuardPcs \union ClosingPcs
  BY DEF RecoverCompletion, At, StoreOnly, GuardPcs
<1>2. PICK a \in Attempts : a = cmd[t].att
  BY <1>1, ClosingFacts
<1>3. RowTold(attempt[a], records[a]) /\ records' = records
  BY <1>1 DEF TaleInv, RowsTold, completions
<1>4. CASE attempt[a].completion # "" /\ Found(a) /\ Goto(t, "finish")
           /\ \/ SetAttemptTeardownCompletionState(t, a, attempt[a].life, "appended")
              \/ UNCHANGED storeVars
  <2>1. cmd'[t].pc = "finish" /\ cmd'[t].att = a
    BY <1>2, <1>4, GotoFacts
  <2>2. CommandTells(t)'
    BY <1>3, <1>4, <2>1 DEF CommandTells, UnwrittenPcs, Found
  <2>3. "finish" \in Pcs \ {"abandon_worktree"}
    BY DEF Pcs, GuardPcs
  <2>4. Heeds(t)
    BY <1>4, <2>3, Heeding
  <2>5. Closed(attempt[a])
    BY <1>3, <1>4 DEF RowTold
  <2>6. QED
    BY <1>1, <1>4, <2>2, <2>4, <2>5, ColumnTells, SilenceTells DEF Heeds, Told
<1>5. CASE Leave(t) /\ UNCHANGED storeVars
  <2>1. cmd'[t].pc \notin UnwrittenPcs \union WrittenPcs
    BY <1>5, LeaveFacts DEF UnwrittenPcs, WrittenPcs
  <2>2. QED
    BY <1>1, <1>5, <2>1, Mute, Heeding, SilenceTells DEF Heeds, Told
<1>6. ASSUME ~Found(a), UNCHANGED storeVars, NEW pc \in {"claim_pane", "decide", "examine"},
             cmd'[t].pc = pc, cmd'[t].att = a, Heeds(t)
      PROVE  Told(t)
  <2>1. CommandTells(t)'
    BY <1>3, <1>6 DEF CommandTells, WrittenPcs, Found
  <2>2. QED
    BY <1>1, <1>6, <2>1, SilenceTells DEF Heeds, Told
<1>7. CASE ~Found(a) /\ UNCHANGED storeVars
           /\ cmd' = [cmd EXCEPT ![t].pc = "claim_pane", ![t].safe =
                            attempt[a].disposition = "completed-safe-dirt"]
  <2>1. PICK safe \in BOOLEAN : safe = (attempt[a].disposition = "completed-safe-dirt")
    OBVIOUS
  <2>2. PICK c : c = [cmd[t] EXCEPT !.pc = "claim_pane", !.safe = safe]
    OBVIOUS
  <2>3. cmd \in [Tasks -> Command] /\ cmd[t] \in Command
    BY DEF LifecycleInv, CommandsTyped
  <2>4. c.pc = "claim_pane" /\ c.att = a /\ c.attest = cmd[t].attest
    BY <1>2, <2>2, <2>3 DEF Command
  <2>5. cmd' = [cmd EXCEPT ![t] = c]
    BY <1>7, <2>1, <2>2, <2>3
  <2>6. cmd'[t] = c /\ \A s \in Tasks \ {t} : cmd'[s] = cmd[s]
    BY <2>3, <2>5
  <2>7. Heeds(t)
    BY <2>4, <2>6 DEF Heeds, Minds
  <2>8. QED
    BY <1>6, <1>7, <2>4, <2>6, <2>7
<1>8. CASE ~Found(a) /\ UNCHANGED storeVars /\ \E pc \in {"decide", "examine"} : Goto(t, pc)
  <2>1. PICK pc \in {"decide", "examine"} : Goto(t, pc)
    BY <1>8
  <2>2. pc \in Pcs \ {"abandon_worktree"}
    BY DEF Pcs, GuardPcs
  <2>3. Heeds(t)
    BY <2>1, <2>2, Heeding
  <2>4. QED
    BY <1>2, <1>6, <1>8, <2>1, <2>3, GotoFacts
<1>9. attempt[a].completion = "" => ~Found(a)
  BY <1>3 DEF RowTold, Found
<1>10. \/ /\ attempt[a].completion # "" /\ Found(a) /\ Goto(t, "finish")
          /\ \/ SetAttemptTeardownCompletionState(t, a, attempt[a].life, "appended")
             \/ UNCHANGED storeVars
       \/ Leave(t) /\ UNCHANGED storeVars
       \/ /\ ~Found(a) /\ UNCHANGED storeVars
          /\ \/ cmd' = [cmd EXCEPT ![t].pc = "claim_pane", ![t].safe =
                            attempt[a].disposition = "completed-safe-dirt"]
             \/ \E pc \in {"decide", "examine"} : Goto(t, pc)
  BY <1>2, <1>9 DEF RecoverCompletion
<1>11. QED
  BY <1>4, <1>5, <1>7, <1>8, <1>10

(* A teardown decides: a running attempt is complete, or it is interrupted.  *)
LEMMA DecidingTells ==
    ASSUME NEW t \in Tasks, LifecycleInv, TaleInv, DecideTeardown(t)
    PROVE  Told(t)
<1>1. /\ cmd[t].pc = "decide" /\ UNCHANGED completions /\ Goto(t, "claim_pane")
      /\ cmd[t].pc \in GuardPcs \union ClosingPcs
  BY DEF DecideTeardown, At, StoreOnly, GuardPcs
<1>2. PICK a \in Attempts : a = cmd[t].att
  BY <1>1, ClosingFacts
<1>3. PICK d : d = Decision(a, cmd[t].force, cmd[t].safe)
  OBVIOUS
<1>4. SetAttemptTeardownDecision(t, a, d.terminal, d.disposition)
  BY <1>2, <1>3 DEF DecideTeardown
<1>5. attempt[a].life \in {"provisioning", "running"}
  BY <1>4 DEF SetAttemptTeardownDecision, LiveStates
<1>6. cmd[t].force \in BOOLEAN
  BY DEF LifecycleInv, CommandsTyped, Command
<1>7. d.terminal = "completed" =>
          /\ d.disposition \in {"completed", "completed-safe-dirt"}
          /\ attempt[a].life = "running"
  <2>1. CASE cmd[t].force
    BY <1>3, <2>1 DEF Decision
  <2>2. CASE ~cmd[t].force /\ ~Launched(a)
    BY <1>3, <2>2 DEF Decision
  <2>3. CASE ~cmd[t].force /\ Launched(a) /\ attempt[a].life = "provisioning"
    BY <1>3, <2>3 DEF Decision
  <2>4. CASE ~cmd[t].force /\ Launched(a) /\ attempt[a].life = "running"
    BY <1>3, <2>4 DEF Decision
  <2>5. Launched(a) \in BOOLEAN
    BY DEF Launched
  <2>6. QED
    BY <1>5, <1>6, <2>1, <2>2, <2>3, <2>4, <2>5
<1>8. CommandTells(t)'
  <2>1. cmd'[t].pc = "claim_pane" /\ cmd'[t].att = a
    BY <1>1, <1>2, GotoFacts
  <2>2. ~Found(a)
    BY <1>1, <1>2 DEF TaleInv, CommandsTell, CommandTells, UnwrittenPcs
  <2>3. records' = records
    BY <1>1 DEF completions
  <2>4. QED
    BY <2>1, <2>2, <2>3 DEF CommandTells, WrittenPcs, Found
<1>9. Heeds(t)
  <2>1. "claim_pane" \in Pcs \ {"abandon_worktree"}
    BY DEF Pcs, ClosingPcs
  <2>2. QED
    BY <1>1, <2>1, Heeding
<1>10. PICK terminal, why : terminal = d.terminal /\ why = d.disposition
  OBVIOUS
<1>11. /\ SetAttemptTeardownDecision(t, a, terminal, why)
       /\ terminal = "completed" =>
             why \in {"completed", "completed-safe-dirt"} /\ attempt[a].life = "running"
  BY <1>4, <1>7, <1>10
<1>12. QED
  BY <1>1, <1>8, <1>9, <1>11, DecisionTells DEF Heeds, Told

(* It notes the facts, and that it is about to write.                        *)
LEMMA FactsTell ==
    ASSUME NEW t \in Tasks, LifecycleInv, TaleInv, RecordFacts(t)
    PROVE  Told(t)
<1>1. /\ cmd[t].pc = "facts" /\ UNCHANGED completions
      /\ cmd[t].pc \in GuardPcs \union ClosingPcs /\ cmd[t].pc \in ClosingPcs
  BY DEF RecordFacts, At, StoreOnly, ClosingPcs, RecordPcs
<1>2. PICK a \in Attempts : a = cmd[t].att /\ Closed(attempt[a])
  BY <1>1, ClosingFacts
<1>3. CASE FactCall(t) /\ UNCHANGED cmd
  <2>1. RowsUntold(t) /\ RowsKeeping
    BY <1>3, NoteCalls DEF LifecycleInv
  <2>2. Continues(t) /\ Heeds(t)
    BY <1>1, <1>3 DEF Continues, Heeds, Minds
  <2>3. QED
    BY <1>1, <2>1, <2>2, UntoldKeeps DEF Heeds, Told
<1>4. CASE Goto(t, "append")
           /\ \/ SetAttemptTeardownCompletionState(t, a, attempt[a].life, "pending")
              \/ attempt[a].completion = "pending" /\ UNCHANGED storeVars
  <2>1. cmd'[t].pc = "append" /\ cmd'[t].att = a
    BY <1>2, <1>4, GotoFacts
  <2>2. ~Found(a) /\ records' = records
    BY <1>1, <1>2 DEF TaleInv, CommandsTell, CommandTells, UnwrittenPcs, completions
  <2>3. attempt'[a].completion = "pending"
    BY <1>4, CompletionCall DEF storeVars, LifecycleInv
  <2>4. CommandTells(t)'
    BY <2>1, <2>2, <2>3 DEF CommandTells, WrittenPcs, Found
  <2>5. Heeds(t)
    <3>1. "append" \in Pcs \ {"abandon_worktree"}
      BY DEF Pcs, ClosingPcs, RecordPcs
    <3>2. QED
      BY <1>4, <3>1, Heeding
  <2>6. QED
    BY <1>1, <1>2, <1>4, <2>4, <2>5, ColumnTells, SilenceTells DEF Heeds, Told
<1>5. CASE SetTaskKind(t, cmd[t].kind) /\ UNCHANGED cmd
  <2>1. cmd[t].kind \in Kinds
    BY DEF LifecycleInv, CommandsTyped, Command
  <2>2. QED
    BY <1>3, <1>5, <2>1 DEF FactCall
<1>6. CASE SetTaskMergeAnnounced(t) /\ UNCHANGED cmd
  BY <1>3, <1>6 DEF FactCall
<1>7. QED
  BY <1>2, <1>4, <1>5, <1>6 DEF RecordFacts

(* It writes, notes it, and ends the attempt.                                *)
LEMMA FinishingTells ==
    ASSUME NEW t \in Tasks, LifecycleInv, TaleInv,
           AppendCompletion(t) \/ RecordAppended(t) \/ FinishTeardown(t)
    PROVE  Told(t)
<1>1. /\ cmd[t].pc \in {"append", "appended", "finish"}
      /\ cmd[t].pc \in GuardPcs \union ClosingPcs
      /\ cmd[t].pc # "finish" => cmd[t].pc \in ClosingPcs
  BY DEF AppendCompletion, RecordAppended, FinishTeardown, At, GuardPcs, ClosingPcs, RecordPcs
<1>2. PICK a \in Attempts : /\ a = cmd[t].att /\ attempt[a].owner = t
                            /\ cmd[t].pc # "finish" => Closed(attempt[a])
  BY <1>1, ClosingFacts
<1>3. RowTold(attempt[a], records[a]) /\ CommandTells(t)
  BY DEF TaleInv, RowsTold, CommandsTell
<1>4. {"appended", "finish"} \subseteq Pcs \ {"abandon_worktree"}
  BY DEF Pcs, GuardPcs, ClosingPcs, RecordPcs
<1>5. CASE AppendCompletion(t)
  <2> DEFINE o == OutcomeOf(t, a, cmd[t].kind, cmd[t].merged, Launched(a))
  <2>1. ~Found(a) /\ attempt[a].completion = "pending" /\ cmd[t].pc = "append"
    BY <1>2, <1>3, <1>5 DEF AppendCompletion, At, CommandTells, UnwrittenPcs
  <2>2. /\ o \in Outcomes
        /\ Tells(attempt[a], o)
    <3>1. Launched(a) \in BOOLEAN /\ cmd[t].merged \in BOOLEAN
      BY DEF Launched, LifecycleInv, CommandsTyped, Command
    <3>2. attempt[a].decided = "completed" => Launched(a)
      BY <1>3 DEF RowTold, Launched
    <3>3. QED
      BY <1>3, <3>1, <3>2, OutcomeFacts DEF RowTold
  <2>3. /\ UNCHANGED storeVars
        /\ \/ AppendRecord(a, o, "ok") /\ Goto(t, "appended")
           \/ AppendRecord(a, o, "error") /\ Leave(t)
    BY <1>2, <1>5 DEF AppendCompletion
  <2>4. PICK out \in Outcomes : out = o
    BY <2>2
  <2>5. CASE AppendRecord(a, out, "ok") /\ Goto(t, "appended")
    <3>1. cmd'[t].pc = "appended" /\ cmd'[t].att = a /\ cmd'[t].pc \in WrittenPcs
      BY <1>2, <2>5, GotoFacts DEF WrittenPcs
    <3>2. Heeds(t)
      BY <1>4, <2>5, Heeding
    <3>3. attempt[a].completion # "" /\ Tells(attempt[a], out)
      BY <2>1, <2>2, <2>4
    <3>4. QED
      BY <1>2, <2>1, <2>3, <2>5, <3>1, <3>2, <3>3, LineTells DEF Heeds, Told
  <2>6. CASE AppendRecord(a, out, "error") /\ Leave(t)
    <3>1. cmd'[t].pc \notin UnwrittenPcs \union WrittenPcs
      BY <2>6, LeaveFacts DEF UnwrittenPcs, WrittenPcs
    <3>2. Heeds(t)
      BY <2>6, Heeding
    <3>3. attempt[a].completion # "" /\ Tells(attempt[a], out)
      BY <2>1, <2>2, <2>4
    <3>4. QED
      BY <1>2, <2>1, <2>3, <2>6, <3>1, <3>2, <3>3, LineTells DEF Heeds, Told
  <2>7. QED
    BY <2>3, <2>4, <2>5, <2>6
<1>6. CASE RecordAppended(t)
  <2>1. /\ cmd[t].pc = "appended" /\ UNCHANGED completions /\ Goto(t, "finish")
        /\ SetAttemptTeardownCompletionState(t, a, attempt[a].life, "appended")
    BY <1>2, <1>6 DEF RecordAppended, At, StoreOnly
  <2>2. cmd'[t].pc = "finish" /\ cmd'[t].att = a /\ records' = records
    BY <1>2, <2>1, GotoFacts DEF completions
  <2>3. Legible => Found(a)
    BY <1>2, <1>3, <2>1 DEF CommandTells, WrittenPcs
  <2>4. CommandTells(t)'
    BY <2>2, <2>3 DEF CommandTells, UnwrittenPcs, Found
  <2>5. Heeds(t)
    BY <1>4, <2>1, Heeding
  <2>6. QED
    BY <1>2, <2>1, <2>4, <2>5, ColumnTells DEF Heeds, Told
<1>7. CASE FinishTeardown(t)
  <2>1. /\ cmd[t].pc = "finish" /\ UNCHANGED completions /\ Leave(t)
        /\ TerminalizeTaskAndAttempt(t, a, attempt[a].life, attempt[a].decided)
    BY <1>2, <1>7 DEF FinishTeardown, At, StoreOnly
  <2>2. Legible => Found(a)
    BY <1>2, <1>3, <2>1 DEF CommandTells, WrittenPcs
  <2>3. cmd'[t].pc \notin UnwrittenPcs \union WrittenPcs
    BY <2>1, LeaveFacts DEF UnwrittenPcs, WrittenPcs
  <2>4. Heeds(t)
    BY <2>1, Heeding
  <2>5. QED
    BY <2>1, <2>2, <2>3, <2>4, EndTells DEF Heeds, Told
<1>8. QED
  BY <1>5, <1>6, <1>7

(* A command that leaves or looks again, and says nothing.                   *)
LEMMA Pausing ==
    ASSUME NEW t \in Tasks, LifecycleInv, Leave(t) \/ Again(t)
    PROVE  /\ CommandTells(t)' /\ Heeds(t)
           /\ cmd'[t].pc \notin UnwrittenPcs \union WrittenPcs
<1>1. cmd'[t].pc \in {"idle", "observe"}
  BY LeaveFacts, GotoFacts DEF Again
<1>2. cmd'[t].pc \notin UnwrittenPcs \union WrittenPcs
  BY <1>1 DEF UnwrittenPcs, WrittenPcs
<1>3. QED
  BY <1>2, Mute, Heeding

(* A settled attempt that a reconciliation ends: note, line, note, end.      *)
LEMMA TerminalizingTells ==
    ASSUME NEW t \in Tasks, LifecycleInv, TaleInv,
           \/ RecordSettledCompletion(t) \/ EndPending(t) \/ EndAppend(t)
           \/ EndAppended(t) \/ EndAttempt(t)
    PROVE  Told(t)
<1>1. cmd[t].pc \in {"settled_appended", "end_pending", "end_append", "end_appended", "end"}
  BY DEF RecordSettledCompletion, EndPending, EndAppend, EndAppended, EndAttempt, At
<1>2. cmd[t].pc \in ClosingPcs
  BY <1>1 DEF ClosingPcs, RecordPcs
<1>3. PICK a \in Attempts : a = cmd[t].att /\ Closed(attempt[a]) /\ attempt[a].owner = t
  BY <1>2, ClosingFacts
<1>4. RowTold(attempt[a], records[a]) /\ CommandTells(t)
  BY DEF TaleInv, RowsTold, CommandsTell
<1>5. {"end_append", "end_appended", "end"} \subseteq Pcs \ {"abandon_worktree"}
  BY DEF Pcs, ClosingPcs, RecordPcs
<1>6. CASE RecordSettledCompletion(t)
  <2>1. /\ SetAttemptTeardownCompletionState(t, a, attempt[a].life, "appended")
        /\ Again(t) /\ UNCHANGED completions
    BY <1>3, <1>6 DEF RecordSettledCompletion, StoreOnly
  <2>2. QED
    BY <1>3, <2>1, Pausing, ColumnTells DEF Heeds, Told
<1>7. CASE EndPending(t)
  <2>1. /\ SetAttemptTeardownCompletionState(t, a, attempt[a].life, "pending")
        /\ Goto(t, "end_append") /\ UNCHANGED completions
    BY <1>3, <1>7 DEF EndPending, StoreOnly
  <2>2. cmd'[t].pc = "end_append" /\ cmd'[t].att = a
    BY <1>3, <2>1, GotoFacts
  <2>3. attempt'[a].completion = "pending" /\ attempt[a].completion = ""
    BY <2>1, CompletionCall DEF LifecycleInv, CompletionFrom
  <2>4. ~Found(a) /\ records' = records
    BY <1>4, <2>1, <2>3 DEF RowTold, Found, completions
  <2>5. CommandTells(t)'
    BY <2>2, <2>3, <2>4 DEF CommandTells, WrittenPcs, Found
  <2>6. Heeds(t)
    BY <1>5, <2>1, Heeding
  <2>7. QED
    BY <1>3, <2>1, <2>5, <2>6, ColumnTells DEF Heeds, Told
<1>8. CASE EndAppend(t)
  <2> DEFINE o == OutcomeOf(t, a, task[t].kind, Merged(t), TRUE)
  <2>1. ~Found(a) /\ attempt[a].completion = "pending"
    BY <1>3, <1>4, <1>8 DEF EndAppend, At, CommandTells, UnwrittenPcs
  <2>2. /\ o \in Outcomes
        /\ Tells(attempt[a], o)
    <3>1. Merged(t) \in BOOLEAN
      BY DEF Merged
    <3>2. QED
      BY <1>4, <3>1, OutcomeFacts DEF RowTold
  <2>3. /\ UNCHANGED storeVars
        /\ \/ AppendRecord(a, o, "ok") /\ Goto(t, "end_appended")
           \/ AppendRecord(a, o, "error") /\ Leave(t)
    BY <1>3, <1>8 DEF EndAppend
  <2>4. PICK out \in Outcomes : out = o
    BY <2>2
  <2>5. Tells(attempt[a], out)
    BY <2>2, <2>4
  <2>6. CASE AppendRecord(a, out, "ok") /\ Goto(t, "end_appended")
    <3>1. cmd'[t].pc = "end_appended" /\ cmd'[t].att = a /\ cmd'[t].pc \in WrittenPcs
      BY <1>3, <2>6, GotoFacts DEF WrittenPcs
    <3>2. Heeds(t)
      BY <1>5, <2>6, Heeding
    <3>3. QED
      BY <1>3, <2>1, <2>3, <2>5, <2>6, <3>1, <3>2, LineTells DEF Heeds, Told
  <2>7. CASE AppendRecord(a, out, "error") /\ Leave(t)
    BY <1>3, <2>1, <2>3, <2>5, <2>7, Pausing, LineTells DEF Heeds, Told
  <2>8. QED
    BY <2>3, <2>4, <2>6, <2>7
<1>9. CASE EndAppended(t)
  <2>1. /\ SetAttemptTeardownCompletionState(t, a, attempt[a].life, "appended")
        /\ Goto(t, "end") /\ UNCHANGED completions /\ cmd[t].pc = "end_appended"
    BY <1>3, <1>9 DEF EndAppended, StoreOnly, At
  <2>2. cmd'[t].pc = "end" /\ cmd'[t].att = a /\ records' = records
    BY <1>3, <2>1, GotoFacts DEF completions
  <2>3. Legible => Found(a)
    BY <1>3, <1>4, <2>1 DEF CommandTells, WrittenPcs
  <2>4. CommandTells(t)'
    BY <2>2, <2>3 DEF CommandTells, UnwrittenPcs, Found
  <2>5. Heeds(t)
    BY <1>5, <2>1, Heeding
  <2>6. QED
    BY <1>3, <2>1, <2>4, <2>5, ColumnTells DEF Heeds, Told
<1>10. CASE EndAttempt(t)
  <2>1. /\ TerminalizeTaskAndAttempt(t, a, attempt[a].life, attempt[a].decided)
        /\ Again(t) /\ UNCHANGED completions /\ cmd[t].pc = "end"
    BY <1>3, <1>10 DEF EndAttempt, StoreOnly, At
  <2>2. Legible => Found(a)
    BY <1>3, <1>4, <2>1 DEF CommandTells, WrittenPcs
  <2>3. QED
    BY <2>1, <2>2, Pausing, EndTells DEF Heeds, Told
<1>11. QED
  BY <1>6, <1>7, <1>8, <1>9, <1>10

(* It settles the record of an attempt.                                      *)
LEMMA SettlingCompletionTells ==
    ASSUME NEW t \in Tasks, NEW a \in Attempts, LifecycleInv, TaleInv, SettleCompletion(t, a)
    PROVE  Told(t)
<1>1. cmd[t].pc = "observe" /\ attempt[a].owner = t /\ Closed(attempt[a])
  BY SettlingFacts DEF SettleCompletion
<1>2. RowTold(attempt[a], records[a])
  BY DEF TaleInv, RowsTold
<1>3. ASSUME NEW next \in {"pending", "appended"},
             SetAttemptTeardownCompletionState(t, a, attempt[a].life, next),
             Again(t), UNCHANGED completions
      PROVE  Told(t)
  BY <1>1, <1>3, Pausing, ColumnTells DEF Heeds, Told
<1>4. ASSUME NEW o \in Outcomes, attempt[a].completion = "pending", ~Found(a), UNCHANGED storeVars,
             Tells(attempt[a], o),
             \/ /\ AppendRecord(a, o, "ok")
                /\ cmd' = [cmd EXCEPT ![t].att = a, ![t].pc = "settled_appended"]
             \/ AppendRecord(a, o, "error") /\ Leave(t)
      PROVE  Told(t)
  <2>1. CASE /\ AppendRecord(a, o, "ok")
             /\ cmd' = [cmd EXCEPT ![t].att = a, ![t].pc = "settled_appended"]
    <3>1. PICK pc \in Pcs : pc = "settled_appended"
      BY DEF Pcs, ClosingPcs, RecordPcs
    <3>2. cmd' = [cmd EXCEPT ![t].att = a, ![t].pc = pc]
      BY <2>1, <3>1
    <3>3. /\ cmd'[t].pc = pc /\ cmd'[t].att = a /\ cmd'[t].attest = cmd[t].attest
          /\ \A s \in Tasks \ {t} : cmd'[s] = cmd[s]
      BY <3>2, TakesUp, ZenonT(30)
    <3>4. cmd'[t].pc \in WrittenPcs /\ Heeds(t)
      BY <3>1, <3>3 DEF WrittenPcs, Heeds, Minds
    <3>5. QED
      BY <1>1, <1>4, <2>1, <3>3, <3>4, LineTells DEF Told
  <2>2. CASE AppendRecord(a, o, "error") /\ Leave(t)
    BY <1>1, <1>4, <2>2, Pausing, LineTells DEF Heeds, Told
  <2>3. QED
    BY <1>4, <2>1, <2>2
<1>5. ASSUME NEW launched \in BOOLEAN, NEW o,
             launched <=> \/ attempt[a].submitted \/ attempt[a].confirmed
                          \/ attempt[a].life # "interrupted",
             o = OutcomeOf(t, a, task[t].kind, Merged(t), launched)
      PROVE  /\ o \in Outcomes
             /\ Tells(attempt[a], o)
  <2>1. Merged(t) \in BOOLEAN
    BY DEF Merged
  <2>2. attempt[a].decided = "completed" =>
            launched /\ attempt[a].disposition \in {"completed", "completed-safe-dirt"}
    BY <1>2, <1>5 DEF RowTold
  <2>3. QED
    BY <1>5, <2>1, <2>2, OutcomeFacts
<1>6. CASE Diagnose(t, "completion-evidence-mismatch", a) /\ UNCHANGED completions
  <2>1. "completion-evidence-mismatch" \in ReconcileCodes
    BY DEF ReconcileCodes
  <2>2. QED
    BY <1>6, <2>1, DiagnosisIsPlain, PlainTold DEF Told
<1>7. CASE /\ ClearTaskRepair(t, task[t].repair) /\ Again(t) /\ UNCHANGED completions
           /\ Clearable(t, a, {"completion-evidence-mismatch"})
  <2>1. task[t].repair \in ReconcileCodes
    BY <1>7 DEF Clearable, ReconcileCodes
  <2>2. QED
    BY <1>7, <2>1, ClearingIsPlain, PlainTold DEF Told
<1>8. CASE /\ Found(a) /\ UNCHANGED completions /\ Again(t)
           /\ TerminalizeTaskAndAttempt(t, a, attempt[a].life, attempt[a].decided)
  BY <1>8, Pausing, EndTells DEF Heeds, Told
<1>9. CASE UNCHANGED storeVars /\ UNCHANGED completions /\ Leave(t)
  BY <1>9, Pausing, SilenceTells DEF Heeds, Told
<1>10. PICK launched \in BOOLEAN :
           launched = (\/ attempt[a].submitted \/ attempt[a].confirmed
                       \/ attempt[a].life # "interrupted")
  BY <1>1, RowFacts DEF AttemptRow
<1>11. PICK o : o = OutcomeOf(t, a, task[t].kind, Merged(t), launched)
  OBVIOUS
<1>12. /\ o \in Outcomes
       /\ Tells(attempt[a], o)
  BY <1>5, <1>10, <1>11
<1>13. \/ /\ SetAttemptTeardownCompletionState(t, a, attempt[a].life, "pending")
          /\ Again(t) /\ UNCHANGED completions
       \/ /\ attempt[a].completion = "pending" /\ ~Found(a) /\ UNCHANGED storeVars
          /\ \/ /\ AppendRecord(a, o, "ok")
                /\ cmd' = [cmd EXCEPT ![t].att = a, ![t].pc = "settled_appended"]
             \/ AppendRecord(a, o, "error") /\ Leave(t)
       \/ /\ SetAttemptTeardownCompletionState(t, a, attempt[a].life, "appended")
          /\ Again(t) /\ UNCHANGED completions
       \/ Diagnose(t, "completion-evidence-mismatch", a) /\ UNCHANGED completions
       \/ /\ ClearTaskRepair(t, task[t].repair) /\ Again(t) /\ UNCHANGED completions
          /\ Clearable(t, a, {"completion-evidence-mismatch"})
       \/ /\ Found(a) /\ UNCHANGED completions /\ Again(t)
          /\ TerminalizeTaskAndAttempt(t, a, attempt[a].life, attempt[a].decided)
       \/ UNCHANGED storeVars /\ UNCHANGED completions /\ Leave(t)
  BY <1>10, <1>11 DEF SettleCompletion, ClearOr
<1>14. QED
  BY <1>3, <1>4, <1>6, <1>7, <1>8, <1>9, <1>12, <1>13

(* The operator's word that a worker never started.                          *)
LEMMA AttestingTells ==
    ASSUME NEW t \in Tasks, NEW a \in Attempts, LifecycleInv, TaleInv, AttestNeverStarted(t, a)
    PROVE  Told(t)
<1>1. UNCHANGED completions
  BY DEF AttestNeverStarted, StoreOnly
<1>2. CASE SetAttemptTeardownDecision(t, a, "interrupted", "worker-never-started") /\ Again(t)
  <2>1. PICK terminal, d : terminal = "interrupted" /\ d = "worker-never-started"
    OBVIOUS
  <2>2. SetAttemptTeardownDecision(t, a, terminal, d) /\ terminal # "completed"
    BY <1>2, <2>1
  <2>3. QED
    BY <1>1, <1>2, <2>2, Pausing, DecisionTells DEF Heeds, Told
<1>3. CASE UNCHANGED storeVars /\ Leave(t)
  BY <1>1, <1>3, Pausing, SilenceTells DEF Heeds, Told
<1>4. QED
  BY <1>2, <1>3 DEF AttestNeverStarted

(* A launch is taken up again where its row says.                            *)
LEMMA ContinuingTells ==
    ASSUME NEW t \in Tasks, NEW a \in Attempts, LifecycleInv, TaleInv, UNCHANGED storeVars,
           UNCHANGED completions,
           cmd' = [cmd EXCEPT ![t] = Launch("reconcile", a, attempt[a].worktree)]
    PROVE  Told(t)
<1>1. PICK l : l = attempt[a].worktree
  OBVIOUS
<1>2. PICK c : c = Launch("reconcile", a, l)
  OBVIOUS
<1>3. c.pc \in {"get", "check"} /\ c.attest = "none"
  BY <1>2 DEF Launch, Idle
<1>4. cmd' = [cmd EXCEPT ![t] = c]
  BY <1>1, <1>2
<1>5. cmd'[t] = c /\ \A s \in Tasks \ {t} : cmd'[s] = cmd[s]
  BY <1>4 DEF LifecycleInv, CommandsTyped
<1>6. CommandTells(t)' /\ Heeds(t)
  <2>1. cmd'[t].pc \notin UnwrittenPcs \union WrittenPcs
    BY <1>3, <1>5 DEF UnwrittenPcs, WrittenPcs
  <2>2. Heeds(t)
    BY <1>3, <1>5 DEF Heeds, Minds
  <2>3. QED
    BY <2>1, <2>2, Mute
<1>7. QED
  BY <1>6, SilenceTells DEF Heeds, Told

(* A command takes up an attempt, of which it says nothing yet.              *)
LEMMA Undertaking ==
    ASSUME NEW t \in Tasks, NEW a \in Attempts, LifecycleInv,
           NEW pc \in Pcs \ (UnwrittenPcs \union WrittenPcs \union {"abandon_worktree"}),
           cmd' = [cmd EXCEPT ![t].att = a, ![t].pc = pc]
    PROVE  CommandTells(t)' /\ Heeds(t)
<1>0. pc \in Pcs
  OBVIOUS
<1>1. /\ cmd'[t].pc = pc /\ cmd'[t].attest = cmd[t].attest
      /\ \A s \in Tasks \ {t} : cmd'[s] = cmd[s]
  BY <1>0, TakesUp, ZenonT(30)
<1>2. cmd'[t].pc \notin UnwrittenPcs \union WrittenPcs /\ cmd'[t].pc # "abandon_worktree"
  BY <1>1
<1>3. QED
  BY <1>1, <1>2, Mute DEF Heeds, Minds

(* An attempt is to be ended at once.                                        *)
LEMMA EndingBegins ==
    ASSUME NEW t \in Tasks, NEW a \in Attempts, LifecycleInv,
           cmd' = [cmd EXCEPT ![t].att = a, ![t].pc = "end_pending"]
    PROVE  CommandTells(t)' /\ Heeds(t)
<1>1. "end_pending" \in Pcs \ (UnwrittenPcs \union WrittenPcs \union {"abandon_worktree"})
  BY DEF Pcs, ClosingPcs, RecordPcs, UnwrittenPcs, WrittenPcs
<1>2. QED
  BY <1>1, Undertaking

(* What it makes of an attempt nobody has decided about.                     *)
LEMMA ObservingActiveTells ==
    ASSUME NEW t \in Tasks, NEW a \in Attempts, LifecycleInv, TaleInv, ObserveActive(t, a)
    PROVE  Told(t)
<1>1. /\ UNCHANGED completions /\ attempt[a].owner = t /\ attempt[a].life \in LiveStates
      /\ attempt[a].decided = ""
  BY UndecidedFacts DEF ObserveActive, StoreOnly
<1>2. PICK seenLease \in (IF attempt[a].worktree = NoLease THEN {"none"}
                          ELSE LeaseSeen(attempt[a].worktree)),
           seenPane \in (IF \/ attempt[a].herdr = NoPane
                            \/ attempt[a].life = "provisioning" /\ ~attempt[a].submitted
                         THEN {"none"} ELSE PaneSeen(attempt[a].herdr)),
           landing \in Landing(t) :
           LET verdict == Decide(a, seenLease, seenPane, landing) IN
           IF seenPane = "unknown" THEN Leave(t) /\ UNCHANGED storeVars
           ELSE IF verdict \in ReconcileCodes THEN Diagnose(t, verdict, a)
           ELSE IF verdict \in DOMAIN Endings
           THEN /\ SetAttemptTeardownDecision(t, a, Endings[verdict][1], Endings[verdict][2])
                /\ cmd' = [cmd EXCEPT ![t].att = a, ![t].pc = "end_pending"]
           ELSE IF Outdated(t, a, seenLease, seenPane)
           THEN ClearTaskRepair(t, task[t].repair) /\ Again(t)
           ELSE IF task[t].repair # "" THEN Leave(t) /\ UNCHANGED storeVars
           ELSE Apply(t, a, verdict)
  BY DEF ObserveActive
<1> DEFINE verdict == Decide(a, seenLease, seenPane, landing)
<1>3. CASE Leave(t) /\ UNCHANGED storeVars
  BY <1>1, <1>3, Pausing, SilenceTells DEF Heeds, Told
<1>4. ASSUME PaneCall(t, a), Again(t)
      PROVE  Told(t)
  <2>1. Plain(t) /\ RowsKeeping
    BY <1>1, <1>4, LooksAgain, PaneCalls DEF Plain, LifecycleInv
  <2>2. QED
    BY <2>1, PlainTold DEF Told
<1>5. CASE seenPane # "unknown"
  <2>1. attempt[a].life = "running" => seenPane \in {"agent", "absent", "mismatch", "shell"}
    <3>1. attempt[a].life = "running" => attempt[a].herdr # NoPane
      BY DEF LifecycleInv, RowsOK, RowOK
    <3>2. attempt[a].herdr # NoPane => attempt[a].herdr \in Panes /\ Opened(attempt[a].herdr)
      BY RowFacts
    <3>3. attempt[a].life = "running" => seenPane \in PaneSeen(attempt[a].herdr)
      BY <1>2, <3>1
    <3>4. WorldTyped
      BY DEF LifecycleInv
    <3>5. QED
      BY <1>5, <3>1, <3>2, <3>3, <3>4, PanesSeen
  <2>2. verdict \in ReconcileCodes \union
            {"converge-landed", "converge-unlanded", "unwind",
             "keep", "confirm-launch", "mark-running", "continue-provisioning"}
    BY <1>1, <2>1, Verdicts
  <2>3. verdict = "converge-landed" => attempt[a].life = "running"
    <3>1. ASSUME attempt[a].life = "provisioning"
          PROVE  verdict # "converge-landed"
      <4>1. DecideProvisioning(a, seenPane) # "converge-landed"
        BY DEF DecideProvisioning
      <4>2. QED
        BY <3>1, <4>1 DEF Decide
    <3>2. QED
      BY <1>1, <3>1 DEF LiveStates
  <2>4. IF verdict \in ReconcileCodes THEN Diagnose(t, verdict, a)
        ELSE IF verdict \in DOMAIN Endings
        THEN /\ SetAttemptTeardownDecision(t, a, Endings[verdict][1], Endings[verdict][2])
             /\ cmd' = [cmd EXCEPT ![t].att = a, ![t].pc = "end_pending"]
        ELSE IF Outdated(t, a, seenLease, seenPane)
        THEN ClearTaskRepair(t, task[t].repair) /\ Again(t)
        ELSE IF task[t].repair # "" THEN Leave(t) /\ UNCHANGED storeVars
        ELSE Apply(t, a, verdict)
    BY <1>2, <1>5
  <2> HIDE DEF verdict
  <2>5. CASE verdict \in ReconcileCodes
    <3>1. PICK code \in ReconcileCodes : code = verdict
      BY <2>5
    <3>2. Diagnose(t, code, a)
      BY <2>4, <3>1
    <3>3. QED
      BY <1>1, <3>2, DiagnosisIsPlain, PlainTold DEF Told
  <2>6. CASE verdict \in DOMAIN Endings /\ verdict \notin ReconcileCodes
    <3>1. PICK terminal, why : terminal = Endings[verdict][1] /\ why = Endings[verdict][2]
      OBVIOUS
    <3>2. terminal = "completed" => why = "completed" /\ attempt[a].life = "running"
      BY <2>3, <2>6, <3>1 DEF Endings
    <3>3. /\ SetAttemptTeardownDecision(t, a, terminal, why)
          /\ cmd' = [cmd EXCEPT ![t].att = a, ![t].pc = "end_pending"]
      BY <2>4, <2>6, <3>1
    <3>4. CommandTells(t)' /\ Heeds(t)
      BY <3>3, EndingBegins
    <3>5. QED
      BY <1>1, <3>2, <3>3, <3>4, DecisionTells DEF Heeds, Told
  <2>7. CASE Outdated(t, a, seenLease, seenPane) /\ ClearTaskRepair(t, task[t].repair) /\ Again(t)
    <3>1. task[t].repair \in ReconcileCodes
      BY <2>7 DEF Outdated, ReconcileCodes, LeaseCodes
    <3>2. QED
      BY <1>1, <2>7, <3>1, ClearingIsPlain, PlainTold DEF Told
  <2>8. CASE Apply(t, a, verdict) /\ verdict \notin ReconcileCodes
             /\ verdict \notin DOMAIN Endings
    <3>1. verdict \in {"keep", "confirm-launch", "mark-running", "continue-provisioning"}
      BY <2>2, <2>8 DEF Endings
    <3>2. CASE verdict = "keep"
      BY <1>3, <2>8, <3>2 DEF Apply
    <3>3. CASE verdict = "confirm-launch"
      <4>1. (MarkLaunchConfirmed(t, a) /\ Again(t)) \/ (UNCHANGED storeVars /\ Leave(t))
        BY <2>8, <3>3 DEF Apply
      <4>2. QED
        BY <1>3, <1>4, <4>1 DEF PaneCall
    <3>4. CASE verdict = "mark-running"
      <4>1. MarkAttemptRunning(t, a) /\ Again(t)
        BY <2>8, <3>4 DEF Apply
      <4>2. QED
        BY <1>4, <4>1 DEF PaneCall
    <3>5. CASE verdict = "continue-provisioning"
      <4>1. /\ cmd' = [cmd EXCEPT ![t] = Launch("reconcile", a, attempt[a].worktree)]
            /\ UNCHANGED storeVars
        BY <2>8, <3>5 DEF Apply
      <4>2. QED
        BY <1>1, <4>1, ContinuingTells
    <3>6. QED
      BY <3>1, <3>2, <3>3, <3>4, <3>5
  <2>9. QED
    BY <1>3, <2>4, <2>5, <2>6, <2>7, <2>8
<1>6. QED
  BY <1>2, <1>3, <1>5

(* Every step of a reconciliation.                                           *)
LEMMA ReconcileTells ==
    ASSUME NEW t \in Tasks, LifecycleInv, TaleInv, ReconcileStep(t)
    PROVE  TaleInv' /\ Heeds(t)
<1>1. CASE \/ RecordSettledCompletion(t) \/ EndPending(t) \/ EndAppend(t)
           \/ EndAppended(t) \/ EndAttempt(t)
  BY <1>1, TerminalizingTells DEF Told
<1>2. CASE \E a \in Attempts :
              SettleCompletion(t, a) \/ AttestNeverStarted(t, a) \/ ObserveActive(t, a)
  BY <1>2, SettlingCompletionTells, AttestingTells, ObservingActiveTells DEF Told
<1>3. CASE \/ \E attest \in Attestations : StartReconcile(t, attest)
           \/ ObserveNothing(t) \/ ClearResolved(t)
           \/ CloseSettled(t) \/ ReturnSettled(t) \/ RecordSettled(t) \/ RecordAbandoned(t)
           \/ \E a \in Attempts : SettlePane(t, a) \/ SettleLease(t, a)
  <2>1. Plain(t)
    BY <1>3, LookingIsPlain, ClosingSettledIsPlain, RecordingSettledIsPlain,
       SettlingPaneIsPlain, SettlingLeaseIsPlain
  <2>2. QED
    BY <2>1, PlainTold
<1>4. QED
  BY <1>1, <1>2, <1>3 DEF ReconcileStep

-----------------------------------------------------------------------------
(* An attempt is born.                                                       *)

(* What is in its row.                                                       *)
LEMMA BlankRow ==
    ASSUME NEW t, NEW row, row = NewAttempt(t, "provisioning")
    PROVE  /\ row.owner = t /\ row.life = "provisioning" /\ row.decided = ""
           /\ row.completion = "" /\ row.worktree = NoLease /\ row.settle["worktree"] = ""
<1>1. row.settle = [r \in Resources |-> ""]
  BY DEF NewAttempt
<1>2. "worktree" \in Resources
  BY WorldAssumption
<1>3. row.settle["worktree"] = ""
  BY <1>1, <1>2
<1>4. QED
  BY <1>3 DEF NewAttempt

LEMMA BlankFacts ==
    ASSUME NEW t \in Tasks, NEW a \in Attempts, attempt'[a] = NewAttempt(t, "provisioning")
    PROVE  /\ attempt'[a].owner = t /\ attempt'[a].life = "provisioning"
           /\ attempt'[a].decided = "" /\ attempt'[a].completion = ""
           /\ attempt'[a].worktree = NoLease /\ attempt'[a].settle["worktree"] = ""
<1> DEFINE row == attempt'[a]
<1>1. row = NewAttempt(t, "provisioning")
  OBVIOUS
<1> HIDE DEF row
<1>2. /\ row.owner = t /\ row.life = "provisioning" /\ row.decided = ""
      /\ row.completion = "" /\ row.worktree = NoLease /\ row.settle["worktree"] = ""
  BY ONLY <1>1, BlankRow, ZenonT(60)
<1>3. QED
  BY <1>2 DEF row

(* Nothing was told of an attempt that was not there; a scout that is        *)
(* promoted is complete, whatever was decided of it.                         *)
LEMMA BirthTells ==
    ASSUME NEW t \in Tasks, NEW a \in Attempts, LifecycleInv, TaleInv,
           attempt[a].life = "absent", attempt'[a] = NewAttempt(t, "provisioning"),
           \A b \in Attempts \ {a} :
               \/ attempt'[b] = attempt[b]
               \/ /\ "promote" \in Commands
                  /\ attempt[b].owner = t /\ attempt'[b].owner = t
                  /\ attempt'[b].life = "completed" /\ Keeping(attempt[b], attempt'[b])
                  /\ attempt'[b].completion = attempt[b].completion
                  /\ attempt'[b].decided = attempt[b].decided
                  /\ attempt'[b].disposition = attempt[b].disposition,
           UNCHANGED completions, \A s \in Tasks \ {t} : task'[s].life = task[s].life,
           task'[t].life # "terminal", Heeds(t), cmd'[t].pc \notin UnwrittenPcs \union WrittenPcs
    PROVE  Told(t)
<1>1. /\ attempt'[a].owner = t /\ attempt'[a].life = "provisioning"
      /\ attempt'[a].decided = "" /\ attempt'[a].completion = ""
      /\ attempt'[a].worktree = NoLease /\ attempt'[a].settle["worktree"] = ""
  BY BlankFacts
<1>2. /\ attempt[a].owner = NoTask /\ attempt[a].decided = "" /\ attempt[a].worktree = NoLease
  BY DEF LifecycleInv, StoreInv, RowsAscending, RowsOK, RowOK
<1>3. records' = records /\ torn' = torn
  BY DEF completions
<1>4. RowTold(attempt'[a], records'[a])
  <2>1. RowTold(attempt[a], records[a])
    BY DEF TaleInv, RowsTold
  <2>2. records[a] = <<>>
    BY <1>2, <2>1 DEF RowTold, Closed, TerminalStates
  <2>3. QED
    BY <1>1, <1>3, <2>2 DEF RowTold, Closed, TerminalStates
<1>5. ASSUME NEW b \in Attempts \ {a}
      PROVE  RowTold(attempt'[b], records'[b])
  <2>1. RowTold(attempt[b], records[b])
    BY DEF TaleInv, RowsTold
  <2>2. CASE attempt'[b] = attempt[b]
    BY <1>3, <2>1, <2>2
  <2>3. CASE /\ "promote" \in Commands /\ attempt'[b].life = "completed"
             /\ attempt'[b].completion = attempt[b].completion
             /\ attempt'[b].decided = attempt[b].decided
             /\ attempt'[b].disposition = attempt[b].disposition
    <3>1. Closed(attempt'[b]) /\ ~Unpromoted
      BY <2>3 DEF Closed, TerminalStates, Unpromoted
    <3>2. QED
      BY <1>3, <2>1, <2>3, <3>1 DEF RowTold, Tells
  <2>4. QED
    BY <2>2, <2>3
<1>6. RowsTold'
  BY <1>4, <1>5 DEF RowsTold
<1>7. FileOK'
  BY <1>3 DEF TaleInv, FileOK
<1>8. CommandTells(t)'
  BY Mute
<1>9. ASSUME NEW b \in Attempts
      PROVE  /\ attempt[b].owner \in Tasks \ {t} =>
                    attempt'[b] = attempt[b] /\ records'[b] = records[b]
             /\ attempt'[b].owner \in {attempt[b].owner, t}
  BY <1>1, <1>2, <1>3, StoreAssumption
<1>10. \A s \in Tasks \ {t} : cmd'[s] = cmd[s] /\ task'[s].life = task[s].life
  BY DEF Heeds
<1>11. Legible /\ task'[t].life = "terminal" => OnRecord(t)'
  OBVIOUS
<1>12. TaleInv'
  BY <1>6, <1>7, <1>8, <1>9, <1>10, <1>11, TellingKeeps
<1>13. RowsKeeping
  <2>1. Keeping(attempt[a], attempt'[a])
    BY <1>1, <1>2 DEF Keeping
  <2>2. \A b \in Attempts \ {a} : Keeping(attempt[b], attempt'[b])
    BY DEF Keeping
  <2>3. QED
    BY <2>1, <2>2 DEF RowsKeeping
<1>14. QED
  BY <1>12, <1>13 DEF Told

(* spawn and reopen.                                                         *)
LEMMA SpawningTells ==
    ASSUME NEW t \in Tasks, NEW a \in Attempts, LifecycleInv, TaleInv,
           \/ \E kind \in Kinds : StartSpawn(t, a, kind)
           \/ StartReopen(t, a)
    PROVE  Told(t)
<1>1. /\ attempt[a].life = "absent" /\ attempt' = [attempt EXCEPT ![a] = NewAttempt(t, "provisioning")]
      /\ UNCHANGED completions
  BY DEF StartSpawn, StartReopen, CreateTaskWithAttempt, ReopenTask, Insertable, StoreOnly
<1>2. /\ attempt'[a] = NewAttempt(t, "provisioning")
      /\ \A b \in Attempts \ {a} : attempt'[b] = attempt[b]
  BY <1>1 DEF LifecycleInv, StoreInv, StoreTypeOK
<1>3. task \in [Tasks -> TaskRow] /\ task[t] \in TaskRow
  BY DEF LifecycleInv, StoreInv, StoreTypeOK
<1>4. (\A s \in Tasks \ {t} : task'[s] = task[s]) /\ task'[t].life = "open"
  <2>1. ASSUME NEW kind \in Kinds, CreateTaskWithAttempt(t, a, kind)
        PROVE  (\A s \in Tasks \ {t} : task'[s] = task[s]) /\ task'[t].life = "open"
    <3>1. PICK row : row = [AbsentTask EXCEPT !.life = "open", !.kind = kind, !.active = a]
      OBVIOUS
    <3>2. row.life = "open"
      BY <3>1 DEF AbsentTask
    <3>3. task' = [task EXCEPT ![t] = row]
      BY <2>1, <3>1 DEF CreateTaskWithAttempt
    <3>4. QED
      BY <1>3, <3>2, <3>3
  <2>2. ASSUME ReopenTask(t, a)
        PROVE  (\A s \in Tasks \ {t} : task'[s] = task[s]) /\ task'[t].life = "open"
    <3>1. PICK row : row = [task[t] EXCEPT !.life = "open", !.active = a]
      OBVIOUS
    <3>2. row.life = "open"
      BY <1>3, <3>1 DEF TaskRow
    <3>3. task' = [task EXCEPT ![t] = row]
      BY <1>3, <2>2, <3>1 DEF ReopenTask, TaskRow
    <3>4. QED
      BY <1>3, <3>2, <3>3
  <2>3. QED
    BY <2>1, <2>2 DEF StartSpawn, StartReopen
<1>5. PICK op : cmd' = [cmd EXCEPT ![t] = Launch(op, a, NoLease)]
  BY DEF StartSpawn, StartReopen
<1>6. PICK c : c = Launch(op, a, NoLease)
  OBVIOUS
<1>7. c.pc = "get" /\ c.attest = "none" /\ cmd' = [cmd EXCEPT ![t] = c]
  BY <1>5, <1>6 DEF Launch, Idle
<1>8. cmd'[t] = c /\ \A s \in Tasks \ {t} : cmd'[s] = cmd[s]
  BY <1>7 DEF LifecycleInv, CommandsTyped
<1>9. Heeds(t) /\ cmd'[t].pc \notin UnwrittenPcs \union WrittenPcs
  BY <1>7, <1>8 DEF Heeds, Minds, UnwrittenPcs, WrittenPcs
<1>10. QED
  BY <1>1, <1>2, <1>4, <1>9, BirthTells

(* promote.                                                                  *)
LEMMA PromotingTells ==
    ASSUME NEW t \in Tasks, NEW a \in Attempts, LifecycleInv, TaleInv, StartPromote(t, a)
    PROVE  Told(t)
<1> DEFINE scout == task[t].active
<1>1. /\ cmd[t] = Idle /\ scout # NoAttempt /\ UNCHANGED completions /\ "promote" \in Commands
      /\ PromoteTask(t, scout, attempt[scout].life, a)
      /\ cmd' = [cmd EXCEPT ![t] = [Idle EXCEPT !.op = "promote", !.pc = "scout_pane",
                                                !.att = a, !.scout = scout]]
  BY DEF StartPromote, StoreOnly
<1>2. PICK s \in Attempts : s = scout
  BY <1>1, ActiveFacts
<1>3. /\ attempt[s].owner = t /\ attempt[s].life \in LiveStates /\ attempt[a].life = "absent"
      /\ s # a /\ attempt[s] \in AttemptRow
  BY <1>1, <1>2, ActiveFacts, RowFacts DEF PromoteTask, Insertable, LiveStates
<1>4. /\ attempt'[a] = NewAttempt(t, "provisioning")
      /\ attempt'[s] = [attempt[s] EXCEPT !.life = "completed"]
      /\ \A b \in Attempts \ {a, s} : attempt'[b] = attempt[b]
  BY <1>1, <1>2, <1>3 DEF PromoteTask, LifecycleInv, StoreInv, StoreTypeOK
<1>5. /\ attempt'[s].owner = t /\ attempt'[s].life = "completed"
      /\ Keeping(attempt[s], attempt'[s])
      /\ attempt'[s].completion = attempt[s].completion
      /\ attempt'[s].decided = attempt[s].decided
      /\ attempt'[s].disposition = attempt[s].disposition
  BY <1>3, <1>4 DEF AttemptRow, Keeping
<1>6. \A b \in Attempts \ {a} :
          \/ attempt'[b] = attempt[b]
          \/ /\ "promote" \in Commands
             /\ attempt[b].owner = t /\ attempt'[b].owner = t
             /\ attempt'[b].life = "completed" /\ Keeping(attempt[b], attempt'[b])
             /\ attempt'[b].completion = attempt[b].completion
             /\ attempt'[b].decided = attempt[b].decided
             /\ attempt'[b].disposition = attempt[b].disposition
  BY <1>1, <1>3, <1>4, <1>5
<1>7. \A r \in Tasks : task'[r].life = task[r].life
  <2>1. task \in [Tasks -> TaskRow] /\ task[t] \in TaskRow
    BY DEF LifecycleInv, StoreInv, StoreTypeOK
  <2>2. PICK facts : facts = task[t].facts \ {"delivered"}
    OBVIOUS
  <2>3. PICK row : row = [task[t] EXCEPT !.kind = "ship", !.facts = facts, !.active = a]
    OBVIOUS
  <2>4. row.life = task[t].life
    BY <2>1, <2>3 DEF TaskRow
  <2>5. task' = [task EXCEPT ![t] = row]
    BY <1>1, <2>1, <2>2, <2>3 DEF PromoteTask, TaskRow
  <2>6. QED
    BY <2>1, <2>4, <2>5
<1>8. task[t].life = "open"
  BY <1>1 DEF PromoteTask, Owns
<1>9. PICK c : c = [Idle EXCEPT !.op = "promote", !.pc = "scout_pane", !.att = a, !.scout = s]
  OBVIOUS
<1>10. c.pc = "scout_pane" /\ c.attest = "none" /\ cmd' = [cmd EXCEPT ![t] = c]
  BY <1>1, <1>2, <1>9 DEF Idle
<1>11. cmd'[t] = c /\ \A r \in Tasks \ {t} : cmd'[r] = cmd[r]
  BY <1>10 DEF LifecycleInv, CommandsTyped
<1>12. Heeds(t) /\ cmd'[t].pc \notin UnwrittenPcs \union WrittenPcs
  BY <1>10, <1>11 DEF Heeds, Minds, UnwrittenPcs, WrittenPcs
<1>13. QED
  BY <1>1, <1>3, <1>4, <1>6, <1>7, <1>8, <1>12, BirthTells

-----------------------------------------------------------------------------
(* Every step keeps the tale.                                                *)

(* The watcher's note of a report touches a column that nothing else of the  *)
(* row depends on.                                                           *)
LEMMA ReportRow ==
    ASSUME NEW t \in Tasks, LifecycleInv, RecordReport(t)
    PROVE  /\ UNCHANGED task
           /\ \E a \in Attempts : \E row :
                 /\ attempt[a].owner = t /\ attempt' = [attempt EXCEPT ![a] = row]
                 /\ row.owner = attempt[a].owner /\ row.worktree = attempt[a].worktree
                 /\ row.herdr = attempt[a].herdr /\ row.submitted = attempt[a].submitted
                 /\ row.life = attempt[a].life /\ row.decided = attempt[a].decided
                 /\ row.disposition = attempt[a].disposition /\ row.settle = attempt[a].settle
                 /\ row.completion = attempt[a].completion
<1>1. PICK a : a = task[t].active
  OBVIOUS
<1>2. PICK reported : UpdateAttemptObservation(t, a, "running", FALSE, reported)
  BY <1>1 DEF RecordReport
<1>3. /\ attempt[a].owner = t /\ task[t].life = "open" /\ UNCHANGED task
      /\ attempt' = [attempt EXCEPT ![a].verified = @ \/ FALSE, ![a].reported = reported]
  BY <1>1, <1>2 DEF UpdateAttemptObservation, RecordReport
<1>4. a \in Attempts
  BY <1>1, <1>3 DEF LifecycleInv, StoreInv, StoreTypeOK, OneOwner, TaskRow
<1>5. attempt \in [Attempts -> AttemptRow] /\ attempt[a] \in AttemptRow
  BY <1>4 DEF LifecycleInv, StoreInv, StoreTypeOK
<1>6. PICK row : row = [attempt[a] EXCEPT !.verified = @ \/ FALSE, !.reported = reported]
  OBVIOUS
<1>7. /\ row.owner = attempt[a].owner /\ row.worktree = attempt[a].worktree
      /\ row.herdr = attempt[a].herdr /\ row.submitted = attempt[a].submitted
      /\ row.life = attempt[a].life /\ row.decided = attempt[a].decided
      /\ row.disposition = attempt[a].disposition /\ row.settle = attempt[a].settle
      /\ row.completion = attempt[a].completion
  BY <1>5, <1>6 DEF AttemptRow
<1>8. attempt' = [attempt EXCEPT ![a] = row]
  BY <1>3, <1>6
<1>9. QED
  BY <1>3, <1>4, <1>7, <1>8

LEMMA ReportUntold ==
    ASSUME NEW t \in Tasks, LifecycleInv, RecordReport(t)
    PROVE  RowsUntold(t) /\ RowsKeeping
<1>1. PICK a \in Attempts : \E next :
          /\ attempt[a].owner = t /\ attempt' = [attempt EXCEPT ![a] = next]
          /\ next.owner = attempt[a].owner /\ next.worktree = attempt[a].worktree
          /\ next.life = attempt[a].life /\ next.decided = attempt[a].decided
          /\ next.disposition = attempt[a].disposition /\ next.settle = attempt[a].settle
          /\ next.completion = attempt[a].completion
  BY ReportRow
<1>2. PICK row :
          /\ attempt[a].owner = t /\ attempt' = [attempt EXCEPT ![a] = row]
          /\ row.owner = attempt[a].owner /\ row.worktree = attempt[a].worktree
          /\ row.life = attempt[a].life /\ row.decided = attempt[a].decided
          /\ row.disposition = attempt[a].disposition /\ row.settle = attempt[a].settle
          /\ row.completion = attempt[a].completion
  BY <1>1
<1>3. Untold(attempt[a], row) /\ Keeping(attempt[a], row)
  BY <1>2 DEF Untold, Keeping
<1>4. UNCHANGED task
  BY ReportRow
<1>5. QED
  BY <1>2, <1>3, <1>4, OneRowUntold, OneRowKeeping DEF LifecycleInv

(* A command dies, its lock is dropped, a pull request, a report or a        *)
(* delivery is noted.                                                        *)
LEMMA AsideIsPlain ==
    ASSUME NEW t \in Tasks, LifecycleInv,
           Crash(t) \/ DropLock(t) \/ RecordPR(t) \/ RecordReport(t) \/ Deliver(t)
    PROVE  Plain(t) /\ RowsKeeping /\ UNCHANGED external
<1>1. UNCHANGED completions /\ UNCHANGED external
  BY DEF Crash, DropLock, RecordPR, RecordReport, Deliver, LocalOnly, StoreOnly
<1>2. CASE Crash(t)
  <2>1. PICK c : c = Dead
    OBVIOUS
  <2>2. c.pc = "dead" /\ c.attest = "none"
    BY <2>1 DEF Dead, Idle
  <2>3. cmd' = [cmd EXCEPT ![t] = c] /\ UNCHANGED storeVars
    BY <1>2, <2>1 DEF Crash, LocalOnly
  <2>4. cmd'[t] = c /\ \A s \in Tasks \ {t} : cmd'[s] = cmd[s]
    BY <2>3 DEF LifecycleInv, CommandsTyped
  <2>5. Walks(t)
    BY <2>2, <2>4 DEF Walks, Minds, Continues, UnwrittenPcs, WrittenPcs
  <2>6. QED
    BY <1>1, <2>3, <2>5, NoRow DEF Plain
<1>3. CASE DropLock(t)
  <2>1. Leave(t) /\ UNCHANGED storeVars
    BY <1>3 DEF DropLock, LocalOnly
  <2>2. QED
    BY <1>1, <2>1, Walking, NoRow DEF Plain
<1>4. CASE RecordPR(t) \/ Deliver(t)
  <2>1. FactCall(t) /\ UNCHANGED cmd
    BY <1>4 DEF RecordPR, Deliver, FactCall
  <2>2. PICK c \in Command : c = cmd[t]
    BY DEF LifecycleInv, CommandsTyped
  <2>3. cmd[t] = Idle
    BY <1>4 DEF RecordPR, Deliver
  <2>4. cmd[t].pc = "idle"
    BY <2>3 DEF Idle
  <2>5. Walks(t)
    BY <2>1, <2>4 DEF Walks, Minds, Continues
  <2>6. QED
    BY <1>1, <2>1, <2>5, NoteCalls DEF Plain, LifecycleInv
<1>5. CASE RecordReport(t)
  <2>1. cmd[t] = Idle /\ UNCHANGED cmd
    BY <1>5 DEF RecordReport
  <2>2. cmd[t].pc = "idle"
    BY <2>1 DEF Idle
  <2>3. Walks(t)
    BY <2>1, <2>2 DEF Walks, Minds, Continues
  <2>4. RowsUntold(t) /\ RowsKeeping
    BY <1>5, ReportUntold
  <2>5. QED
    BY <1>1, <2>3, <2>4 DEF Plain
<1>6. QED
  BY <1>2, <1>3, <1>4, <1>5

(* Every step of a teardown.                                                 *)
LEMMA TeardownTells ==
    ASSUME NEW t \in Tasks, LifecycleInv, TaleInv, TeardownStep(t)
    PROVE  TaleInv' /\ RowsKeeping /\ Heeds(t)
<1>1. CASE \/ \E force \in BOOLEAN : StartTeardown(t, force)
           \/ ExamineWork(t) \/ ObserveMergeState(t) \/ ClaimPane(t) \/ ClosePane(t)
           \/ RecordPaneClosed(t) \/ ClaimLease(t) \/ ReturnWorktree(t) \/ RecordReturned(t)
  <2>1. Plain(t) /\ RowsKeeping
    BY <1>1, TeardownIsPlain, GuardIsPlain
  <2>2. QED
    BY <2>1, PlainTold
<1>2. CASE \/ RecoverCompletion(t) \/ DecideTeardown(t) \/ RecordFacts(t)
           \/ AppendCompletion(t) \/ RecordAppended(t) \/ FinishTeardown(t)
  <2>1. Told(t)
    BY <1>2, RecoveringTells, DecidingTells, FactsTell, FinishingTells
  <2>2. QED
    BY <2>1 DEF Told
<1>3. QED
  BY <1>1, <1>2 DEF TeardownStep

(* Every step of a launch, and of a promotion.                               *)
LEMMA LaunchTells ==
    ASSUME NEW t \in Tasks, LifecycleInv, TaleInv, ProvisionStep(t) \/ PromoteStep(t)
    PROVE  TaleInv' /\ Heeds(t)
<1>1. CASE \E a \in Attempts : \/ \E kind \in Kinds : StartSpawn(t, a, kind)
                               \/ StartReopen(t, a) \/ StartPromote(t, a)
  BY <1>1, SpawningTells, PromotingTells DEF Told
<1>2. CASE \/ CheckWorktree(t) \/ OpenPane(t) \/ RecordPane(t) \/ RunWorker(t)
           \/ RecordSubmitted(t) \/ ConfirmWorker(t) \/ RecordConfirmed(t) \/ RecordRunning(t)
           \/ RollbackPane(t) \/ ClearPane(t) \/ ReturnProvisioned(t)
  BY <1>2, LaunchIsPlain, PlainTold
<1>3. CASE GetLease(t) \/ RecordLease(t) \/ ClearLease(t)
  BY <1>3, LeasingIsPlain, PlainTold
<1>4. CASE \/ ClaimScoutPane(t) \/ CloseScoutPane(t) \/ RecordScoutPane(t)
           \/ ClaimScoutLease(t) \/ ReturnScoutLease(t) \/ RecordScoutLease(t) \/ LaunchShip(t)
  BY <1>4, PromotionIsPlain, PlainTold
<1>5. QED
  BY <1>1, <1>2, <1>3, <1>4 DEF ProvisionStep, PromoteStep

LEMMA StepTells ==
    ASSUME NEW t \in Tasks, LifecycleInv, TaleInv,
           CommandStep(t) \/ RecordPR(t) \/ RecordReport(t) \/ Deliver(t) \/ Crash(t)
    PROVE  TaleInv' /\ Heeds(t)
<1>1. CASE ProvisionStep(t) \/ PromoteStep(t)
  BY <1>1, LaunchTells
<1>2. CASE TeardownStep(t)
  BY <1>2, TeardownTells
<1>3. CASE ReconcileStep(t)
  BY <1>3, ReconcileTells
<1>4. CASE DropLock(t) \/ RecordPR(t) \/ RecordReport(t) \/ Deliver(t) \/ Crash(t)
  BY <1>4, AsideIsPlain, PlainTold
<1>5. QED
  BY <1>1, <1>2, <1>3, <1>4 DEF CommandStep

LEMMA TaleInvInductive ==
    ASSUME LifecycleInv, TaleInv, [LifecycleNext]_vars
    PROVE  TaleInv'
<1>1. ASSUME UNCHANGED <<storeVars, completions, cmd>>
      PROVE  TaleInv'
  <2>1. /\ attempt' = attempt /\ task' = task /\ records' = records /\ torn' = torn
        /\ cmd' = cmd
    BY <1>1 DEF storeVars, completions
  <2>2. RowsTold' /\ FileOK'
    BY <2>1 DEF TaleInv, RowsTold, FileOK
  <2>3. CommandsTell'
    BY <2>1 DEF TaleInv, CommandsTell, CommandTells, Found
  <2>4. Legible => EndIsOnRecord'
    BY <2>1 DEF TaleInv, EndIsOnRecord, Found
  <2>5. QED
    BY <2>2, <2>3, <2>4 DEF TaleInv
<1>2. CASE UNCHANGED vars
  BY <1>1, <1>2 DEF vars, storeVars, completions
<1>3. CASE WorldStep
  BY <1>1, <1>3 DEF WorldStep
<1>4. CASE \E t \in Tasks : CommandStep(t) \/ RecordPR(t) \/ RecordReport(t) \/ Deliver(t) \/ Crash(t)
  BY <1>4, StepTells
<1>5. QED
  BY <1>2, <1>3, <1>4 DEF LifecycleNext

LEMMA TaleInvInitially == LifecycleInit => TaleInv
<1> SUFFICES ASSUME LifecycleInit
             PROVE  TaleInv
  OBVIOUS
<1>1. \A a \in Attempts : /\ attempt[a].life = "absent" /\ attempt[a].decided = ""
                          /\ attempt[a].completion = "" /\ records[a] = <<>>
  BY DEF LifecycleInit, StoreInit, WorldInit, NewAttempt
<1>2. RowsTold
  BY <1>1 DEF RowsTold, RowTold, TerminalStates
<1>3. CommandsTell
  <2>1. Idle.pc = "idle"
    BY DEF Idle
  <2>2. \A t \in Tasks : cmd[t].pc = "idle"
    BY <2>1 DEF LifecycleInit, WorldInit
  <2>3. QED
    BY <2>2 DEF CommandsTell, CommandTells, UnwrittenPcs, WrittenPcs
<1>4. FileOK
  <2>1. <<>> \in Seq(Outcomes)
    OBVIOUS
  <2>2. QED
    BY <2>1 DEF FileOK, LifecycleInit, WorldInit
<1>5. EndIsOnRecord
  <2>1. \A t \in Tasks : task[t].life = "absent"
    BY DEF LifecycleInit, StoreInit, AbsentTask
  <2>2. QED
    BY <2>1 DEF EndIsOnRecord
<1>6. QED
  BY <1>2, <1>3, <1>4, <1>5 DEF TaleInv

LEMMA TaleInvAlways == LifecycleSpec => []TaleInv
<1>1. LifecycleInv /\ TaleInv /\ [LifecycleNext]_vars => TaleInv'
  BY TaleInvInductive
<1>2. QED
  BY <1>1, TaleInvInitially, LifecycleInvAlways, PTL DEF LifecycleSpec

(* No line, nothing said.                                                    *)
LEMMA NoLine == Range(<<>>) = {}
<1>1. DOMAIN <<>> = {}
  OBVIOUS
<1>2. QED
  BY <1>1 DEF Range

LEMMA OneLine ==
    ASSUME NEW S, NEW o \in S
    PROVE  /\ Len(<<>>) <= 1 /\ Len(<<o>>) <= 1
           /\ Range(<<>>) \subseteq S /\ Range(<<o>>) \subseteq S
<1>1. Len(<<>>) = 0 /\ Len(<<o>>) = 1
  OBVIOUS
<1>2. DOMAIN <<o>> = {1} /\ <<o>>[1] = o
  OBVIOUS
<1>3. DOMAIN <<>> = {}
  OBVIOUS
<1>4. Range(<<o>>) \subseteq S
  BY <1>2 DEF Range
<1>5. Range(<<>>) \subseteq S
  BY <1>3 DEF Range
<1>6. QED
  BY <1>1, <1>4, <1>5

(* The completion log holds at most one record of an attempt, although the   *)
(* append, the note that it was made and the end are separate steps, of      *)
(* commands that die and of commands that take over.                         *)
THEOREM OneRecordAlways == LifecycleSpec => []OneRecord
<1>1. TaleInv => OneRecord
  <2> SUFFICES ASSUME TaleInv, NEW a \in Attempts
               PROVE  Len(records[a]) <= 1
    BY DEF OneRecord
  <2>1. records[a] = <<>> \/ \E o \in Outcomes : records[a] = <<o>>
    BY DEF TaleInv, RowsTold, RowTold
  <2>2. CASE records[a] = <<>>
    <3>1. "done" \in Outcomes
      BY DEF Outcomes, Landings
    <3>2. QED
      BY <2>2, <3>1, OneLine
  <2>3. ASSUME NEW o \in Outcomes, records[a] = <<o>>
        PROVE  Len(records[a]) <= 1
    BY <2>3, OneLine
  <2>4. QED
    BY <2>1, <2>2, <2>3
<1>2. QED
  BY <1>1, TaleInvAlways, PTL

(* Where a line of the log is written whole or not at all, a task is         *)
(* terminal only with the one readable record of its last attempt on disk.   *)
THEOREM RecordInvAlways == Legible => (LifecycleSpec => []RecordInv)
<1>1. LifecycleInv /\ TaleInv => WorldTypeOK
  <2> SUFFICES ASSUME LifecycleInv, TaleInv
               PROVE  WorldTypeOK
    OBVIOUS
  <2>1. WorldTyped /\ torn \in BOOLEAN /\ records \in [Attempts -> Seq(Outcomes)]
    BY DEF LifecycleInv, TaleInv, FileOK
  <2>2. \A a \in Attempts : Range(records[a]) \subseteq Outcomes
    BY <2>1 DEF Range
  <2>3. ASSUME NEW t \in Tasks
        PROVE  /\ DOMAIN cmd[t] = DOMAIN Idle
               /\ cmd[t].op \in Operations /\ cmd[t].attest \in Attestations
               /\ cmd[t].pc = "idle" <=> cmd[t] = Idle
    <3>1. cmd[t] \in Command /\ CommandOK(t)
      BY DEF LifecycleInv, CommandsTyped
    <3>2. Idle.pc = "idle"
      BY DEF Idle
    <3>3. cmd[t].pc = "idle" => cmd[t] = Idle
      BY <3>1 DEF CommandOK
    <3>4. DOMAIN cmd[t] = DOMAIN Idle
      BY <3>1 DEF Command, Idle
    <3>5. QED
      BY <3>1, <3>2, <3>3, <3>4 DEF Command
  <2>4. QED
    BY <2>1, <2>2, <2>3 DEF WorldTypeOK, WorldTyped
<1>2. Legible /\ TaleInv => EndIsOnRecord
  BY DEF TaleInv
<1>3. LifecycleSpec => []WorldTypeOK
  BY <1>1, LifecycleInvAlways, TaleInvAlways, PTL
<1>4. ASSUME Legible
      PROVE  LifecycleSpec => []EndIsOnRecord
  <2>1. TaleInv => EndIsOnRecord
    BY <1>2, <1>4
  <2>2. QED
    BY <2>1, TaleInvAlways, PTL
<1>5. ASSUME Legible
      PROVE  LifecycleSpec => []RecordInv
  <2>1. WorldTypeOK /\ OneRecord /\ EndIsOnRecord => RecordInv
    BY DEF RecordInv
  <2>2. LifecycleSpec => []EndIsOnRecord
    BY <1>4, <1>5
  <2>3. QED
    BY <1>3, <2>1, <2>2, OneRecordAlways, PTL
<1>6. QED
  BY <1>5

(* Where nothing is promoted, an attempt ends as it was decided, and its     *)
(* record says the same unless it says that the worker failed, however many  *)
(* commands it took to carry it out.                                         *)
THEOREM DecisionHonouredAlways == Unpromoted => (LifecycleSpec => []DecisionHonoured)
<1>1. ASSUME Unpromoted
      PROVE  LifecycleSpec => []DecisionHonoured
  <2>1. TaleInv => DecisionHonoured
    <3> DEFINE Lost == Unworked \union {"forced", "worker-exited-unlanded"}
    <3> SUFFICES ASSUME TaleInv, NEW a \in Attempts, attempt[a].life \in TerminalStates,
                        attempt[a].decided # ""
                 PROVE  /\ attempt[a].life = attempt[a].decided
                        /\ attempt[a].decided = "completed" =>
                              Range(records[a]) \subseteq Landings \union {"failed"}
                        /\ attempt[a].disposition \in Lost =>
                              Range(records[a]) \intersect Landings = {}
      BY DEF DecisionHonoured
    <3>1. RowTold(attempt[a], records[a])
      BY DEF TaleInv, RowsTold
    <3>2. attempt[a].life = attempt[a].decided
      BY <1>1, <3>1 DEF RowTold
    <3>3. \A o \in Range(records[a]) : Tells(attempt[a], o)
      <4>1. CASE records[a] = <<>>
        BY <4>1, NoLine
      <4>2. ASSUME NEW o \in Outcomes, records[a] = <<o>>, Tells(attempt[a], o)
            PROVE  \A out \in Range(records[a]) : Tells(attempt[a], out)
        <5>1. o \in {o} /\ Range(<<o>>) \subseteq {o}
          BY OneLine
        <5>2. QED
          BY <4>2, <5>1
      <4>3. QED
        BY <3>1, <4>1, <4>2 DEF RowTold
    <3>4. QED
      BY <3>2, <3>3 DEF Tells
  <2>2. QED
    BY <2>1, TaleInvAlways, PTL
<1>2. QED
  BY <1>1

-----------------------------------------------------------------------------
(* No lease is lost from sight.                                              *)

(* A lease is only ever given back.                                          *)
Returning ==
    \A l \in Leases : \/ lease'[l] = lease[l]
                      \/ lease[l] # "unissued" /\ lease'[l] \in {"free", "foreign"}

LEMMA ReturnsOnly ==
    ASSUME LifecycleInv, NEW l, NEW force, NEW result, ReturnLease(l, force, result)
    PROVE  Returning
<1>1. lease \in [Leases -> {"unissued", "held", "free", "foreign"}]
  BY DEF LifecycleInv, WorldTyped
<1>2. CASE Returned(l) /\ lease[l] = "held"
  <2>1. lease' = [lease EXCEPT ![l] = "free"]
    BY <1>2 DEF Returned
  <2>2. ASSUME NEW m \in Leases
        PROVE  \/ lease'[m] = lease[m]
               \/ lease[m] # "unissued" /\ lease'[m] \in {"free", "foreign"}
    <3>1. CASE m = l
      BY <1>1, <1>2, <2>1, <3>1
    <3>2. CASE m # l
      BY <1>1, <2>1, <3>2
    <3>3. QED
      BY <3>1, <3>2
  <2>3. QED
    BY <2>2 DEF Returning
<1>3. CASE UNCHANGED external
  BY <1>3 DEF Returning, external
<1>4. QED
  BY <1>2, <1>3 DEF ReturnLease

LEMMA LeasesStay ==
    ASSUME UNCHANGED external \/ UNCHANGED lease
    PROVE  Returning
BY DEF external, Returning

LEMMA ClosesOnly ==
    ASSUME NEW p, NEW result, CloseTab(p, result)
    PROVE  Returning
<1>1. UNCHANGED lease
  BY DEF CloseTab, external
<1>2. QED
  BY <1>1, LeasesStay

(* Every step but one that takes a lease.                                    *)
LEMMA StepReturns ==
    ASSUME NEW t \in Tasks, LifecycleInv,
           CommandStep(t) \/ RecordPR(t) \/ RecordReport(t) \/ Deliver(t) \/ Crash(t)
    PROVE  Returning \/ GetLease(t)
<1>1. CASE DropLock(t) \/ RecordPR(t) \/ RecordReport(t) \/ Deliver(t) \/ Crash(t)
  <2>1. UNCHANGED external
    BY <1>1 DEF DropLock, RecordPR, RecordReport, Deliver, Crash, StoreOnly, LocalOnly
  <2>2. QED
    BY <2>1, LeasesStay
<1>2. CASE ReconcileStep(t)
  <2>1. CASE CloseSettled(t) \/ ReturnSettled(t)
    BY <2>1, ReturnsOnly, ClosesOnly DEF CloseSettled, ReturnSettled
  <2>2. CASE ~(CloseSettled(t) \/ ReturnSettled(t))
    <3>1. UNCHANGED external
      BY <1>2, <2>2 DEF ReconcileStep, StartReconcile, ObserveNothing, ClearResolved,
         RecordSettled, RecordAbandoned, RecordSettledCompletion, EndPending, EndAppend,
         EndAppended, EndAttempt, SettlePane, SettleLease, SettleCompletion,
         AttestNeverStarted, ObserveActive, StoreOnly, LocalOnly
    <3>2. QED
      BY <3>1, LeasesStay
  <2>3. QED
    BY <2>1, <2>2
<1>3. CASE TeardownStep(t)
  <2>1. CASE ClosePane(t) \/ ReturnWorktree(t)
    BY <2>1, ReturnsOnly, ClosesOnly DEF ClosePane, ReturnWorktree
  <2>2. CASE ~(ClosePane(t) \/ ReturnWorktree(t))
    <3>1. UNCHANGED external
      BY <1>3, <2>2 DEF TeardownStep, StartTeardown, RecoverCompletion, ExamineWork,
         ObserveMergeState, DecideTeardown, ClaimPane, RecordPaneClosed, ClaimLease,
         RecordReturned, RecordFacts, AppendCompletion, RecordAppended, FinishTeardown,
         StoreOnly, LocalOnly
    <3>2. QED
      BY <3>1, LeasesStay
  <2>3. QED
    BY <2>1, <2>2
<1>4. CASE PromoteStep(t)
  <2>1. CASE CloseScoutPane(t) \/ ReturnScoutLease(t)
    BY <2>1, ReturnsOnly, ClosesOnly DEF CloseScoutPane, ReturnScoutLease
  <2>2. CASE ~(CloseScoutPane(t) \/ ReturnScoutLease(t))
    <3>1. UNCHANGED external
      BY <1>4, <2>2 DEF PromoteStep, StartPromote, ClaimScoutPane, RecordScoutPane,
         ClaimScoutLease, RecordScoutLease, LaunchShip, StoreOnly, LocalOnly
    <3>2. QED
      BY <3>1, LeasesStay
  <2>3. QED
    BY <2>1, <2>2
<1>5. CASE ProvisionStep(t)
  <2>1. CASE RollbackPane(t) \/ ReturnProvisioned(t)
    BY <2>1, ReturnsOnly, ClosesOnly DEF RollbackPane, ReturnProvisioned
  <2>2. CASE OpenPane(t) \/ RunWorker(t)
    <3>1. UNCHANGED lease
      BY <2>2 DEF OpenPane, RunWorker
    <3>2. QED
      BY <3>1, LeasesStay
  <2>3. CASE ~(RollbackPane(t) \/ ReturnProvisioned(t) \/ OpenPane(t) \/ RunWorker(t) \/ GetLease(t))
    <3>1. UNCHANGED external
      BY <1>5, <2>3 DEF ProvisionStep, StartSpawn, StartReopen, RecordLease, CheckWorktree,
         RecordPane, RecordSubmitted, ConfirmWorker, RecordConfirmed, RecordRunning,
         ClearPane, ClearLease, StoreOnly, LocalOnly
    <3>2. QED
      BY <3>1, LeasesStay
  <2>4. QED
    BY <2>1, <2>2, <2>3
<1>6. QED
  BY <1>1, <1>2, <1>3, <1>4, <1>5 DEF CommandStep

(* A held lease stays claimed by what claimed it, when no row forgets a      *)
(* lease that is held.                                                       *)
LEMMA ClaimStands ==
    ASSUME LifecycleInv, LifecycleInv', RowsMinded, NEW l \in Leases, lease[l] = "held",
           lease'[l] = "held", NEW a \in Attempts, attempt[a].worktree = l, LeaseUnsettled(a)
    PROVE  attempt'[a].worktree = l /\ LeaseUnsettled(a)'
<1>1. l # NoLease /\ ~Back(l) /\ ~Back(l)'
  BY StoreAssumption DEF Back
<1>2. attempt'[a].worktree = l
  BY <1>1 DEF RowsMinded
<1>3. attempt'[a].settle["worktree"] # "abandoned"
  BY <1>1 DEF RowsMinded, LeaseUnsettled, Settled
<1>4. attempt'[a].settle["worktree"] # "released"
  BY <1>1, <1>2 DEF LifecycleInv, ReleasedForGood, Back
<1>5. QED
  BY <1>1, <1>2, <1>3, <1>4 DEF LeaseUnsettled, Settled

(* What the other commands are about to give up is not there, still.         *)
LEMMA AbandonsStand ==
    ASSUME NEW t \in Tasks, LifecycleInv, ClaimInv, "attests" \notin Events, Heeds(t),
           \A l \in Leases : Back(l) => Back(l)',
           \A a \in Attempts : attempt[a].owner # t =>
               attempt'[a].worktree = attempt[a].worktree,
           NEW s \in Tasks
    PROVE  /\ cmd'[s].attest = "none"
           /\ cmd'[s].pc = "abandon_worktree" => Back(attempt[cmd[s].att].worktree)'
<1>1. /\ cmd[s].attest = "none"
      /\ cmd[s].pc = "abandon_worktree" => Back(attempt[cmd[s].att].worktree)
  BY DEF ClaimInv
<1>2. CASE s = t
  BY <1>1, <1>2 DEF Heeds, Minds, Back
<1>3. CASE s # t
  <2>1. cmd'[s] = cmd[s]
    BY <1>3 DEF Heeds
  <2>2. CASE cmd[s].pc = "abandon_worktree"
    <3>1. cmd[s].pc \in ClosingPcs /\ cmd[s].pc \in WorktreePcs
      BY <2>2 DEF ClosingPcs, WorktreePcs
    <3>2. PICK b \in Attempts : b = cmd[s].att /\ attempt[b].owner = s
      BY <3>1, ClosingFacts
    <3>3. attempt[b].worktree \in Leases
      BY <3>1, <3>2, ClosingFacts
    <3>4. attempt'[b].worktree = attempt[b].worktree
      BY <1>3, <3>2
    <3>5. PICK l \in Leases : l = attempt[b].worktree /\ Back(l) /\ l = attempt'[b].worktree
      BY <1>1, <2>2, <3>2, <3>3, <3>4
    <3>6. Back(l)'
      BY <3>5
    <3>7. QED
      BY <1>1, <2>1, <3>2, <3>5, <3>6 DEF Back
  <2>3. QED
    BY <1>1, <2>1, <2>2
<1>4. QED
  BY <1>2, <1>3

(* A step that takes no lease, and records none.                             *)
LEMMA ClaimKeeps ==
    ASSUME NEW t \in Tasks, LifecycleInv, LifecycleInv', ClaimInv, "attests" \notin Events,
           Returning, RowsMinded, Heeds(t), cmd[t].pc # "record",
           \A a \in Attempts : attempt[a].owner # t =>
               attempt'[a].worktree = attempt[a].worktree
    PROVE  ClaimInv'
<1>1. \A l \in Leases : /\ lease'[l] = "held" => lease[l] = "held"
                        /\ Back(l) => Back(l)'
  BY DEF Returning, Back
<1>2. ASSUME NEW l \in Leases, lease'[l] = "held"
      PROVE  Claimed(l)'
  <2>1. lease[l] = "held" /\ Claimed(l)
    BY <1>1, <1>2 DEF ClaimInv
  <2>2. ASSUME NEW a \in Attempts, attempt[a].worktree = l, LeaseUnsettled(a)
        PROVE  Claimed(l)'
    BY <1>2, <2>1, <2>2, ClaimStands DEF Claimed
  <2>3. ASSUME NEW s \in Tasks, cmd[s].pc = "record", cmd[s].lease = l
        PROVE  Claimed(l)'
    <3>1. cmd'[s] = cmd[s]
      BY <2>3 DEF Heeds
    <3>2. QED
      BY <2>3, <3>1 DEF Claimed
  <2>4. QED
    BY <2>1, <2>2, <2>3 DEF Claimed
<1>3. ASSUME NEW s \in Tasks
      PROVE  /\ cmd'[s].attest = "none"
             /\ cmd'[s].pc = "abandon_worktree" => Back(attempt[cmd[s].att].worktree)'
  BY <1>1, AbandonsStand
<1>4. QED
  BY <1>2, <1>3 DEF ClaimInv

(* A lease is taken.                                                         *)
LEMMA TakingClaims ==
    ASSUME NEW t \in Tasks, LifecycleInv, LifecycleInv', ClaimInv, "attests" \notin Events,
           GetLease(t), Heeds(t)
    PROVE  ClaimInv'
<1>1. attempt' = attempt /\ cmd[t].pc = "get"
  BY DEF GetLease, WorldOnly, storeVars, At
<1>2. RowsMinded
  BY <1>1 DEF RowsMinded
<1>3. lease \in [Leases -> {"unissued", "held", "free", "foreign"}] /\ cmd \in [Tasks -> Command]
      /\ cmd[t] \in Command
  BY DEF LifecycleInv, WorldTyped, CommandsTyped
<1>4. CASE UNCHANGED lease
  BY <1>1, <1>2, <1>4, LeasesStay, ClaimKeeps
<1>5. ASSUME NEW l \in Leases, lease[l] = "unissued", lease' = [lease EXCEPT ![l] = "held"],
             cmd' = [cmd EXCEPT ![t].lease = l, ![t].pc = "record"]
      PROVE  ClaimInv'
  <2>1. \A m \in Leases \ {l} : lease'[m] = lease[m]
    BY <1>3, <1>5
  <2>2. cmd'[t].pc = "record" /\ cmd'[t].lease = l
    <3>1. PICK c : c = [cmd[t] EXCEPT !.lease = l, !.pc = "record"]
      OBVIOUS
    <3>2. c.pc = "record" /\ c.lease = l
      BY <1>3, <3>1 DEF Command
    <3>3. cmd'[t] = c
      BY <1>3, <1>5, <3>1 DEF Command
    <3>4. QED
      BY <3>2, <3>3
  <2>3. \A m \in Leases : Back(m) => Back(m)'
    BY <1>5, <2>1 DEF Back
  <2>4. ASSUME NEW m \in Leases, lease'[m] = "held"
        PROVE  Claimed(m)'
    <3>1. CASE m = l
      BY <2>2, <3>1 DEF Claimed
    <3>2. CASE m # l
      <4>1. lease[m] = "held" /\ Claimed(m)
        BY <2>1, <2>4, <3>2 DEF ClaimInv
      <4>2. ASSUME NEW a \in Attempts, attempt[a].worktree = m, LeaseUnsettled(a)
            PROVE  Claimed(m)'
        BY <1>2, <2>4, <4>1, <4>2, ClaimStands DEF Claimed
      <4>3. ASSUME NEW s \in Tasks, cmd[s].pc = "record", cmd[s].lease = m
            PROVE  Claimed(m)'
        <5>1. cmd'[s] = cmd[s]
          BY <1>1, <4>3 DEF Heeds
        <5>2. QED
          BY <4>3, <5>1 DEF Claimed
      <4>4. QED
        BY <4>1, <4>2, <4>3 DEF Claimed
    <3>3. QED
      BY <3>1, <3>2
  <2>5. ASSUME NEW s \in Tasks
        PROVE  /\ cmd'[s].attest = "none"
               /\ cmd'[s].pc = "abandon_worktree" => Back(attempt[cmd[s].att].worktree)'
    BY <1>1, <2>3, AbandonsStand
  <2>6. QED
    BY <2>4, <2>5 DEF ClaimInv
<1>6. QED
  BY <1>4, <1>5 DEF GetLease

(* A lease is recorded: from the hands of the command into the row.          *)
LEMMA RecordingClaims ==
    ASSUME NEW t \in Tasks, LifecycleInv, LifecycleInv', ClaimInv, "attests" \notin Events,
           RecordLease(t), Heeds(t), RowsUntold(t)
    PROVE  ClaimInv'
<1>1. cmd[t].pc = "record" /\ cmd[t].pc \in LeasePcs /\ lease' = lease
  BY DEF RecordLease, At, LeasePcs, StoreOnly, external
<1>2. PICK a \in Attempts : a = cmd[t].att /\ attempt[a].owner = t /\ attempt[a] \in AttemptRow
  BY <1>1, LaunchFacts, RowFacts
<1>3. /\ attempt[a].worktree = NoLease /\ attempt[a].settle["worktree"] = ""
      /\ cmd[t].lease \in Leases
  BY <1>1, <1>2, LaunchFacts DEF LifecycleInv, Stages, Stage, LaunchStage
<1>4. attempt' = [attempt EXCEPT ![a].worktree = cmd[t].lease]
  BY <1>2 DEF RecordLease, RecordAttemptWorktree
<1>5. PICK row : row = [attempt[a] EXCEPT !.worktree = cmd[t].lease]
  OBVIOUS
<1>6. row.worktree = cmd[t].lease /\ row.settle = attempt[a].settle
  BY <1>2, <1>5 DEF AttemptRow
<1>7. attempt'[a] = row /\ \A b \in Attempts \ {a} : attempt'[b] = attempt[b]
  BY <1>4, <1>5 DEF LifecycleInv, StoreInv, StoreTypeOK
<1>8. RowsMinded
  <2>1. attempt'[a].settle["worktree"] # "abandoned"
    BY <1>3, <1>6, <1>7
  <2>2. QED
    BY <1>3, <1>7, <2>1 DEF RowsMinded
<1>9. ASSUME NEW l \in Leases, lease'[l] = "held"
      PROVE  Claimed(l)'
  <2>1. lease[l] = "held" /\ Claimed(l)
    BY <1>1, <1>9 DEF ClaimInv
  <2>2. CASE l = cmd[t].lease
    <3>1. attempt'[a].worktree = l /\ attempt'[a].settle["worktree"] = "" /\ l # NoLease
      BY <1>3, <1>6, <1>7, <2>2, StoreAssumption
    <3>2. LeaseUnsettled(a)'
      BY <3>1 DEF LeaseUnsettled, Settled
    <3>3. QED
      BY <3>1, <3>2 DEF Claimed
  <2>3. ASSUME NEW b \in Attempts, attempt[b].worktree = l, LeaseUnsettled(b)
        PROVE  Claimed(l)'
    BY <1>8, <1>9, <2>1, <2>3, ClaimStands DEF Claimed
  <2>4. ASSUME NEW s \in Tasks, cmd[s].pc = "record", cmd[s].lease = l, l # cmd[t].lease
        PROVE  Claimed(l)'
    <3>1. cmd'[s] = cmd[s]
      BY <2>4 DEF Heeds
    <3>2. QED
      BY <2>4, <3>1 DEF Claimed
  <2>5. QED
    BY <2>1, <2>2, <2>3, <2>4 DEF Claimed
<1>10. \A l \in Leases : Back(l) => Back(l)'
  BY <1>1 DEF Back
<1>11. \A b \in Attempts : attempt[b].owner # t => attempt'[b].worktree = attempt[b].worktree
  BY <1>2, <1>7
<1>12. ASSUME NEW s \in Tasks
       PROVE  /\ cmd'[s].attest = "none"
              /\ cmd'[s].pc = "abandon_worktree" => Back(attempt[cmd[s].att].worktree)'
  BY <1>10, <1>11, AbandonsStand
<1>13. QED
  BY <1>9, <1>12 DEF ClaimInv

(* Where a lease is to be recorded, recording it is all a command does.      *)
LEMMA RecordsNext ==
    ASSUME NEW t \in Tasks, CommandStep(t) \/ RecordPR(t) \/ RecordReport(t) \/ Deliver(t), cmd[t].pc = "record"
    PROVE  RecordLease(t)
<1>1. cmd[t] # Idle /\ cmd[t] # Dead
  <2>1. Idle.pc = "idle"
    BY DEF Idle
  <2>2. Dead.pc = "dead"
    BY DEF Dead, Idle
  <2>3. QED
    BY <2>1, <2>2
<1>2. ~DropLock(t) /\ ~RecordPR(t) /\ ~RecordReport(t) /\ ~Deliver(t)
  BY <1>1 DEF DropLock, RecordPR, RecordReport, Deliver
<1>3. ~ReconcileStep(t)
  BY <1>1 DEF ReconcileStep, StartReconcile, ObserveNothing, ClearResolved, CloseSettled,
     RecordSettled, RecordAbandoned, ReturnSettled, RecordSettledCompletion, EndPending,
     EndAppend, EndAppended, EndAttempt, SettlePane, SettleLease, SettleCompletion,
     AttestNeverStarted, ObserveActive, Settling, Undecided, At
<1>4. ~TeardownStep(t)
  BY <1>1 DEF TeardownStep, StartTeardown, RecoverCompletion, ExamineWork,
     ObserveMergeState, DecideTeardown, ClaimPane, ClosePane, RecordPaneClosed, ClaimLease,
     ReturnWorktree, RecordReturned, RecordFacts, AppendCompletion, RecordAppended,
     FinishTeardown, At
<1>5. ~PromoteStep(t)
  BY <1>1 DEF PromoteStep, StartPromote, ClaimScoutPane, CloseScoutPane, RecordScoutPane,
     ClaimScoutLease, ReturnScoutLease, RecordScoutLease, LaunchShip, At
<1>6. ProvisionStep(t) => RecordLease(t)
  BY <1>1 DEF ProvisionStep, StartSpawn, StartReopen, GetLease, CheckWorktree, OpenPane,
     RecordPane, RunWorker, RecordSubmitted, ConfirmWorker, RecordConfirmed, RecordRunning,
     RollbackPane, ClearPane, ReturnProvisioned, ClearLease, At
<1>7. QED
  BY <1>2, <1>3, <1>4, <1>5, <1>6 DEF CommandStep

(* A launch forgets its lease after it was returned.                         *)
LEMMA ForgettingIsMinded ==
    ASSUME NEW t \in Tasks, LifecycleInv, ClearLease(t)
    PROVE  RowsMinded
<1>1. cmd[t].pc = "clear_lease" /\ cmd[t].pc \in LeasePcs
  BY DEF ClearLease, At, LeasePcs
<1>2. PICK a \in Attempts : a = cmd[t].att /\ attempt[a].owner = t /\ attempt[a] \in AttemptRow
  BY <1>1, LaunchFacts, RowFacts
<1>3. attempt[a].worktree = cmd[t].lease /\ Back(cmd[t].lease)
  BY <1>1, <1>2, LaunchFacts DEF LifecycleInv, Stages, Stage, LaunchStage
<1>4. attempt' = [attempt EXCEPT ![a].worktree = NoLease]
  BY <1>2 DEF ClearLease, ClearAttemptWorktree
<1>5. PICK row : row = [attempt[a] EXCEPT !.worktree = NoLease]
  OBVIOUS
<1>6. row.settle = attempt[a].settle
  BY <1>2, <1>5 DEF AttemptRow
<1>7. attempt'[a] = row /\ \A b \in Attempts \ {a} : attempt'[b] = attempt[b]
  BY <1>4, <1>5 DEF LifecycleInv, StoreInv, StoreTypeOK
<1>8. QED
  BY <1>3, <1>6, <1>7 DEF RowsMinded

(* A command says nothing of the worktrees of another task's attempts.       *)
LEMMA StepSpares ==
    ASSUME NEW t \in Tasks, LifecycleInv, TaleInv,
           CommandStep(t) \/ RecordPR(t) \/ RecordReport(t) \/ Deliver(t) \/ Crash(t)
    PROVE  \A a \in Attempts : attempt[a].owner # t =>
               attempt'[a].worktree = attempt[a].worktree
<1> DEFINE Others == \A a \in Attempts : attempt[a].owner # t =>
                         attempt'[a].worktree = attempt[a].worktree
<1>1. RowsKeeping => Others
  BY DEF RowsKeeping, Keeping
<1>2. RowsUntold(t) => Others
  BY DEF RowsUntold
<1>3. CASE DropLock(t) \/ RecordPR(t) \/ RecordReport(t) \/ Deliver(t) \/ Crash(t)
  BY <1>2, <1>3, AsideIsPlain DEF Plain
<1>4. CASE TeardownStep(t)
  BY <1>1, <1>4, TeardownTells
<1>5. CASE ReconcileStep(t)
  <2>1. CASE \/ RecordSettled(t) \/ RecordAbandoned(t)
             \/ \E a \in Attempts : SettleLease(t, a)
    <3>1. Plain(t)
      BY <2>1, SettlingLeaseIsPlain, RecordingSettledIsPlain
    <3>2. QED
      BY <1>2, <3>1 DEF Plain
  <2>2. CASE \/ RecordSettledCompletion(t) \/ EndPending(t) \/ EndAppend(t)
             \/ EndAppended(t) \/ EndAttempt(t)
             \/ \E a \in Attempts :
                    SettleCompletion(t, a) \/ AttestNeverStarted(t, a) \/ ObserveActive(t, a)
    <3>1. RowsKeeping
      BY <2>2, TerminalizingTells, SettlingCompletionTells, AttestingTells, ObservingActiveTells
         DEF Told
    <3>2. QED
      BY <1>1, <3>1
  <2>3. CASE \/ \E attest \in Attestations : StartReconcile(t, attest)
             \/ ObserveNothing(t) \/ ClearResolved(t) \/ CloseSettled(t) \/ ReturnSettled(t)
             \/ \E a \in Attempts : SettlePane(t, a)
    <3>1. RowsKeeping
      BY <2>3, LookingIsPlain, ClosingSettledIsPlain, SettlingPaneIsPlain
    <3>2. QED
      BY <1>1, <3>1
  <2>4. QED
    BY <1>5, <2>1, <2>2, <2>3 DEF ReconcileStep
<1>6. CASE ProvisionStep(t) \/ PromoteStep(t)
  <2>1. CASE \E a \in Attempts : \/ \E kind \in Kinds : StartSpawn(t, a, kind)
                                 \/ StartReopen(t, a) \/ StartPromote(t, a)
    <3>1. RowsKeeping
      BY <2>1, SpawningTells, PromotingTells DEF Told
    <3>2. QED
      BY <1>1, <3>1
  <2>2. CASE \/ CheckWorktree(t) \/ OpenPane(t) \/ RecordPane(t) \/ RunWorker(t)
             \/ RecordSubmitted(t) \/ ConfirmWorker(t) \/ RecordConfirmed(t) \/ RecordRunning(t)
             \/ RollbackPane(t) \/ ClearPane(t) \/ ReturnProvisioned(t)
    BY <1>1, <2>2, LaunchIsPlain
  <2>3. CASE GetLease(t) \/ RecordLease(t) \/ ClearLease(t)
    <3>1. Plain(t)
      BY <2>3, LeasingIsPlain
    <3>2. QED
      BY <1>2, <3>1 DEF Plain
  <2>4. CASE \/ ClaimScoutPane(t) \/ CloseScoutPane(t) \/ RecordScoutPane(t)
             \/ ClaimScoutLease(t) \/ ReturnScoutLease(t) \/ RecordScoutLease(t) \/ LaunchShip(t)
    BY <1>1, <2>4, PromotionIsPlain
  <2>5. QED
    BY <1>6, <2>1, <2>2, <2>3, <2>4 DEF ProvisionStep, PromoteStep
<1>7. QED
  BY <1>3, <1>4, <1>5, <1>6 DEF CommandStep

(* No command that was given no word of the operator's forgets a held lease. *)
LEMMA StepMinds ==
    ASSUME NEW t \in Tasks, LifecycleInv, TaleInv, ClaimInv, "attests" \notin Events,
           CommandStep(t) \/ RecordPR(t) \/ RecordReport(t) \/ Deliver(t), ~RecordLease(t)
    PROVE  RowsMinded
<1>1. RowsKeeping => RowsMinded
  BY DEF RowsKeeping, RowsMinded, Keeping
<1>2. CASE DropLock(t) \/ RecordPR(t) \/ RecordReport(t) \/ Deliver(t)
  BY <1>1, <1>2, AsideIsPlain
<1>3. CASE TeardownStep(t)
  BY <1>1, <1>3, TeardownTells
<1>4. CASE ReconcileStep(t)
  <2>1. CASE \E a \in Attempts : SettleLease(t, a)
    <3>1. cmd[t].attest = "none"
      BY DEF ClaimInv
    <3>2. QED
      BY <2>1, <3>1, SettlingLeaseIsPlain
  <2>2. CASE RecordSettled(t) \/ RecordAbandoned(t)
    <3>1. cmd[t].pc = "abandon_worktree" => Back(attempt[cmd[t].att].worktree)
      BY DEF ClaimInv
    <3>2. QED
      BY <2>2, <3>1, RecordingSettledIsPlain
  <2>3. CASE \/ RecordSettledCompletion(t) \/ EndPending(t) \/ EndAppend(t)
             \/ EndAppended(t) \/ EndAttempt(t)
             \/ \E a \in Attempts :
                    SettleCompletion(t, a) \/ AttestNeverStarted(t, a) \/ ObserveActive(t, a)
    BY <1>1, <2>3, TerminalizingTells, SettlingCompletionTells, AttestingTells,
       ObservingActiveTells DEF Told
  <2>4. CASE \/ \E attest \in Attestations : StartReconcile(t, attest)
             \/ ObserveNothing(t) \/ ClearResolved(t) \/ CloseSettled(t) \/ ReturnSettled(t)
             \/ \E a \in Attempts : SettlePane(t, a)
    BY <1>1, <2>4, LookingIsPlain, ClosingSettledIsPlain, SettlingPaneIsPlain
  <2>5. QED
    BY <1>4, <2>1, <2>2, <2>3, <2>4 DEF ReconcileStep
<1>5. CASE ProvisionStep(t) \/ PromoteStep(t)
  <2>1. CASE \E a \in Attempts : \/ \E kind \in Kinds : StartSpawn(t, a, kind)
                                 \/ StartReopen(t, a) \/ StartPromote(t, a)
    BY <1>1, <2>1, SpawningTells, PromotingTells DEF Told
  <2>2. CASE \/ CheckWorktree(t) \/ OpenPane(t) \/ RecordPane(t) \/ RunWorker(t)
             \/ RecordSubmitted(t) \/ ConfirmWorker(t) \/ RecordConfirmed(t) \/ RecordRunning(t)
             \/ RollbackPane(t) \/ ClearPane(t) \/ ReturnProvisioned(t)
    BY <1>1, <2>2, LaunchIsPlain
  <2>3. CASE GetLease(t)
    <3>1. UNCHANGED storeVars
      BY <2>3 DEF GetLease, WorldOnly
    <3>2. QED
      BY <1>1, <3>1, NoRow
  <2>4. CASE ClearLease(t)
    BY <2>4, ForgettingIsMinded
  <2>5. CASE \/ ClaimScoutPane(t) \/ CloseScoutPane(t) \/ RecordScoutPane(t)
             \/ ClaimScoutLease(t) \/ ReturnScoutLease(t) \/ RecordScoutLease(t) \/ LaunchShip(t)
    BY <1>1, <2>5, PromotionIsPlain
  <2>6. QED
    BY <1>5, <2>1, <2>2, <2>3, <2>4, <2>5 DEF ProvisionStep, PromoteStep
<1>6. QED
  BY <1>2, <1>3, <1>4, <1>5 DEF CommandStep

(* The world on its own takes leases away, and gives none.                   *)
LEMMA WorldClaims ==
    ASSUME LifecycleInv, ClaimInv, UNCHANGED <<storeVars, cmd>>,
           \A l \in Leases : /\ lease'[l] = "held" => lease[l] = "held"
                             /\ Back(l) => Back(l)'
    PROVE  ClaimInv'
<1>1. attempt' = attempt /\ cmd' = cmd
  BY DEF storeVars
<1>2. ASSUME NEW l \in Leases, lease'[l] = "held"
      PROVE  Claimed(l)'
  <2>1. Claimed(l)
    BY <1>2 DEF ClaimInv
  <2>2. QED
    BY <1>1, <2>1 DEF Claimed, LeaseUnsettled
<1>3. ASSUME NEW t \in Tasks
      PROVE  /\ cmd'[t].attest = "none"
             /\ cmd'[t].pc = "abandon_worktree" => Back(attempt[cmd[t].att].worktree)'
  <2>1. /\ cmd[t].attest = "none"
        /\ cmd[t].pc = "abandon_worktree" => Back(attempt[cmd[t].att].worktree)
    BY DEF ClaimInv
  <2>2. CASE cmd[t].pc = "abandon_worktree"
    <3>1. cmd[t].pc \in ClosingPcs /\ cmd[t].pc \in WorktreePcs
      BY <2>2 DEF ClosingPcs, WorktreePcs
    <3>2. PICK l \in Leases : l = attempt[cmd[t].att].worktree
      BY <3>1, ClosingFacts
    <3>3. Back(l)'
      BY <2>1, <2>2, <3>2
    <3>4. QED
      BY <1>1, <2>1, <3>2, <3>3 DEF Back
  <2>3. QED
    BY <1>1, <2>1, <2>2
<1>4. QED
  BY <1>2, <1>3 DEF ClaimInv

LEMMA ClaimInvInductive ==
    ASSUME Minded, LifecycleInv, TaleInv, ClaimInv, [LifecycleNext]_vars
    PROVE  ClaimInv'
<1>1. LifecycleInv'
  BY LifecycleInvInductive DEF Kept
<1>2. CASE UNCHANGED vars
  <2>1. UNCHANGED <<storeVars, cmd>> /\ lease' = lease
    BY <1>2 DEF vars, storeVars
  <2>2. QED
    BY <2>1, WorldClaims DEF Back
<1>3. CASE WorldStep
  BY <1>3, WorldFades, WorldClaims DEF WorldStep, Fades, Moves
<1>4. ASSUME NEW t \in Tasks, CommandStep(t) \/ RecordPR(t) \/ RecordReport(t) \/ Deliver(t) \/ Crash(t)
      PROVE  ClaimInv'
  <2>1. "attests" \notin Events /\ ~Crash(t)
    BY DEF Minded, Crash
  <2>2. Heeds(t)
    BY <1>4, StepTells
  <2>3. CASE RecordLease(t)
    <3>1. RowsUntold(t)
      BY <2>3, LeasingIsPlain DEF Plain
    <3>2. QED
      BY <1>1, <2>1, <2>2, <2>3, <3>1, RecordingClaims
  <2>4. CASE GetLease(t)
    BY <1>1, <2>1, <2>2, <2>4, TakingClaims
  <2>5. CASE ~RecordLease(t) /\ ~GetLease(t)
    <3>1. Returning
      BY <1>4, <2>5, StepReturns
    <3>2. cmd[t].pc # "record"
      BY <1>4, <2>1, <2>5, RecordsNext
    <3>3. RowsMinded
      BY <1>4, <2>1, <2>5, StepMinds
    <3>4. \A a \in Attempts : attempt[a].owner # t =>
              attempt'[a].worktree = attempt[a].worktree
      BY <1>4, StepSpares
    <3>5. QED
      BY <1>1, <2>1, <2>2, <3>1, <3>2, <3>3, <3>4, ClaimKeeps
  <2>6. QED
    BY <2>3, <2>4, <2>5
<1>5. QED
  BY <1>2, <1>3, <1>4 DEF LifecycleNext

LEMMA ClaimInvInitially == LifecycleInit => ClaimInv
<1> SUFFICES ASSUME LifecycleInit
             PROVE  ClaimInv
  OBVIOUS
<1>1. \A l \in Leases : lease[l] = "unissued"
  BY DEF LifecycleInit, WorldInit
<1>2. Idle.pc = "idle" /\ Idle.attest = "none"
  BY DEF Idle
<1>3. \A t \in Tasks : cmd[t].pc = "idle" /\ cmd[t].attest = "none"
  BY <1>2 DEF LifecycleInit, WorldInit
<1>4. QED
  BY <1>1, <1>3 DEF ClaimInv

(* Where no process dies between a lease and its record, and nobody gives up *)
(* a lease by word of mouth, every lease that is held is in the hands of a   *)
(* command or in a row that still has to settle it.                          *)
THEOREM HeldIsClaimedAlways == Minded => (LifecycleSpec => []HeldIsClaimed)
<1>1. ASSUME Minded
      PROVE  LifecycleSpec => []HeldIsClaimed
  <2>1. LifecycleInv /\ TaleInv /\ ClaimInv /\ [LifecycleNext]_vars => ClaimInv'
    BY <1>1, ClaimInvInductive
  <2>2. ClaimInv => HeldIsClaimed
    BY DEF ClaimInv, Claimed, HeldIsClaimed
  <2>3. QED
    BY <2>1, <2>2, ClaimInvInitially, LifecycleInvAlways, TaleInvAlways, PTL DEF LifecycleSpec
<1>2. QED
  BY <1>1

-----------------------------------------------------------------------------
(* A reconciliation returns nothing that would be lost.                      *)

(* No agent works, and nobody saves work, while a command runs.              *)
Undisturbed == "late_work" \notin Events

SettlingPcs ==
    {"observe", "close_settled", "pane_closed", "pane_unclosed", "return_settled",
     "lease_returned", "abandon_herdr", "abandon_worktree", "settled_appended",
     "end_pending", "end_append", "end_appended", "end"}
ReconcilePcs == SettlingPcs \union LaunchPcs

Spotless(l) == work[l].dirt = "clean" /\ work[l].commits # "local"

(* What a reconciliation is about to return holds nothing: it was looked at, *)
(* or it was taken by the launch that gives it back.                         *)
Knows(t) ==
    /\ cmd[t].op = "none" => cmd[t].pc \in {"idle", "dead"}
    /\ cmd[t].op = "reconcile" =>
          /\ cmd[t].pc \in ReconcilePcs
          /\ cmd[t].pc \in LeasePcs /\ ~cmd[t].resume => Spotless(cmd[t].lease)
          /\ cmd[t].pc = "return_lease" => ~cmd[t].resume
          /\ cmd[t].pc = "return_settled" /\ lease[attempt[cmd[t].att].worktree] = "held" =>
                Spotless(attempt[cmd[t].att].worktree)

WorkInv ==
    /\ \A l \in Leases : lease[l] = "unissued" => Spotless(l)
    /\ \A t \in Tasks : Knows(t)

(* A command makes worktrees empty, if anything.                             *)
Tidies == \A l \in Leases : Spotless(l) => Spotless(l)'
Loses(l) == lease[l] = "held" /\ lease'[l] # "held"

(* What a step that takes nothing back does.                                 *)
LEMMA NothingLost ==
    ASSUME UNCHANGED work, \A l \in Leases : lease[l] = "held" => lease'[l] = "held"
    PROVE  Tidies /\ \A l \in Leases : ~Loses(l)
BY DEF Tidies, Spotless, Loses

LEMMA ClosingLosesNothing ==
    ASSUME NEW p, NEW result, CloseTab(p, result)
    PROVE  Tidies /\ \A l \in Leases : ~Loses(l)
<1>1. UNCHANGED <<lease, work>>
  BY DEF CloseTab, external
<1>2. QED
  BY <1>1, NothingLost

LEMMA ReturningTidies ==
    ASSUME LifecycleInv, NEW l, NEW force, NEW result, ReturnLease(l, force, result)
    PROVE  Tidies /\ \A m \in Leases : Loses(m) => m = l
<1>1. /\ lease \in [Leases -> {"unissued", "held", "free", "foreign"}]
      /\ work \in [Leases -> Worktree]
  BY DEF LifecycleInv, WorldTyped
<1>2. CASE Returned(l)
  <2>1. lease' = [lease EXCEPT ![l] = "free"] /\ work' = [work EXCEPT ![l] = Fresh]
    BY <1>2 DEF Returned
  <2>2. Fresh.dirt = "clean" /\ Fresh.commits # "local"
    BY DEF Fresh
  <2>3. ASSUME NEW m \in Leases
        PROVE  (Spotless(m) => Spotless(m)') /\ (Loses(m) => m = l)
    <3>1. CASE m = l
      <4>1. work'[m] = Fresh
        BY <1>1, <2>1, <3>1
      <4>2. QED
        BY <2>2, <3>1, <4>1 DEF Spotless
    <3>2. CASE m # l
      <4>1. work'[m] = work[m] /\ lease'[m] = lease[m]
        BY <1>1, <2>1, <3>2
      <4>2. QED
        BY <4>1 DEF Spotless, Loses
    <3>3. QED
      BY <3>1, <3>2
  <2>4. QED
    BY <2>3 DEF Tidies
<1>3. CASE UNCHANGED external
  BY <1>3, NothingLost DEF external
<1>4. QED
  BY <1>2, <1>3 DEF ReturnLease

LEMMA OnlyTidies ==
    ASSUME LifecycleInv, NEW l, NEW force, NEW result, ReturnLease(l, force, result)
    PROVE  Tidies
BY ReturningTidies

(* Most steps leave the world alone.                                         *)
LEMMA ActsOnNothing ==
    ASSUME NEW t \in Tasks,
           \/ ReconcileStep(t) /\ ~(CloseSettled(t) \/ ReturnSettled(t))
           \/ TeardownStep(t) /\ ~(ClosePane(t) \/ ReturnWorktree(t))
           \/ PromoteStep(t) /\ ~(CloseScoutPane(t) \/ ReturnScoutLease(t))
    PROVE  UNCHANGED external
<1>1. CASE ReconcileStep(t) /\ ~(CloseSettled(t) \/ ReturnSettled(t))
  BY <1>1 DEF ReconcileStep, StartReconcile, ObserveNothing, ClearResolved,
     RecordSettled, RecordAbandoned, RecordSettledCompletion, EndPending, EndAppend,
     EndAppended, EndAttempt, SettlePane, SettleLease, SettleCompletion,
     AttestNeverStarted, ObserveActive, StoreOnly, LocalOnly
<1>2. CASE TeardownStep(t) /\ ~(ClosePane(t) \/ ReturnWorktree(t))
  BY <1>2 DEF TeardownStep, StartTeardown, RecoverCompletion, ExamineWork,
     ObserveMergeState, DecideTeardown, ClaimPane, RecordPaneClosed, ClaimLease,
     RecordReturned, RecordFacts, AppendCompletion, RecordAppended, FinishTeardown,
     StoreOnly, LocalOnly
<1>3. CASE PromoteStep(t) /\ ~(CloseScoutPane(t) \/ ReturnScoutLease(t))
  BY <1>3 DEF PromoteStep, StartPromote, ClaimScoutPane, RecordScoutPane,
     ClaimScoutLease, RecordScoutLease, LaunchShip, StoreOnly, LocalOnly
<1>4. QED
  BY <1>1, <1>2, <1>3

(* What a step of a command does to the worktrees, and which of its steps    *)
(* take a lease back.                                                        *)
LEMMA StepTidies ==
    ASSUME NEW t \in Tasks, LifecycleInv,
           CommandStep(t) \/ RecordPR(t) \/ RecordReport(t) \/ Deliver(t) \/ Crash(t)
    PROVE  /\ Tidies
           /\ \A l \in Leases : Loses(l) =>
                 \/ cmd[t].pc \in {"return", "scout_return"}
                 \/ cmd[t].pc = "return_lease" /\ l = cmd[t].lease
                 \/ cmd[t].pc = "return_settled" /\ l = attempt[cmd[t].att].worktree
<1> DEFINE Good == /\ Tidies
                   /\ \A l \in Leases : Loses(l) =>
                         \/ cmd[t].pc \in {"return", "scout_return"}
                         \/ cmd[t].pc = "return_lease" /\ l = cmd[t].lease
                         \/ cmd[t].pc = "return_settled" /\ l = attempt[cmd[t].att].worktree
<1>1. ASSUME UNCHANGED external
      PROVE  Good
  BY <1>1, NothingLost DEF external
<1>2. CASE CloseSettled(t) \/ ClosePane(t) \/ CloseScoutPane(t) \/ RollbackPane(t)
  BY <1>2, ClosingLosesNothing DEF CloseSettled, ClosePane, CloseScoutPane, RollbackPane
<1>3. CASE OpenPane(t) \/ RunWorker(t)
  <2>1. UNCHANGED <<lease, work>>
    BY <1>3 DEF OpenPane, RunWorker
  <2>2. QED
    BY <2>1, NothingLost
<1>4. CASE GetLease(t)
  <2>1. UNCHANGED work /\ \A l \in Leases : lease[l] = "held" => lease'[l] = "held"
    <3>1. lease \in [Leases -> {"unissued", "held", "free", "foreign"}]
      BY DEF LifecycleInv, WorldTyped
    <3>2. QED
      BY <1>4, <3>1 DEF GetLease
  <2>2. QED
    BY <2>1, NothingLost
<1>5. CASE ReturnSettled(t)
  BY <1>5, ReturningTidies DEF ReturnSettled, At
<1>6. CASE ReturnProvisioned(t)
  BY <1>6, ReturningTidies DEF ReturnProvisioned, At
<1>7. CASE ReturnWorktree(t) \/ ReturnScoutLease(t)
  <2>1. cmd[t].pc \in {"return", "scout_return"}
    BY <1>7 DEF ReturnWorktree, ReturnScoutLease, At
  <2>2. Tidies
    BY <1>7, OnlyTidies DEF ReturnWorktree, ReturnScoutLease
  <2>3. QED
    BY <2>1, <2>2
<1>8. CASE ReconcileStep(t)
  <2>1. CASE CloseSettled(t) \/ ReturnSettled(t)
    BY <1>2, <1>5, <2>1
  <2>2. CASE ~(CloseSettled(t) \/ ReturnSettled(t))
    <3>1. UNCHANGED external
      BY <1>8, <2>2, ActsOnNothing
    <3>2. QED
      BY <1>1, <3>1
  <2>3. QED
    BY <2>1, <2>2
<1>9. CASE TeardownStep(t)
  <2>1. CASE ClosePane(t) \/ ReturnWorktree(t)
    BY <1>2, <1>7, <2>1
  <2>2. CASE ~(ClosePane(t) \/ ReturnWorktree(t))
    <3>1. UNCHANGED external
      BY <1>9, <2>2, ActsOnNothing
    <3>2. QED
      BY <1>1, <3>1
  <2>3. QED
    BY <2>1, <2>2
<1>10. CASE PromoteStep(t)
  <2>1. CASE CloseScoutPane(t) \/ ReturnScoutLease(t)
    BY <1>2, <1>7, <2>1
  <2>2. CASE ~(CloseScoutPane(t) \/ ReturnScoutLease(t))
    <3>1. UNCHANGED external
      BY <1>10, <2>2, ActsOnNothing
    <3>2. QED
      BY <1>1, <3>1
  <2>3. QED
    BY <2>1, <2>2
<1>11. CASE ProvisionStep(t)
  <2>1. CASE \/ RollbackPane(t) \/ OpenPane(t) \/ RunWorker(t) \/ GetLease(t)
             \/ ReturnProvisioned(t)
    BY <1>2, <1>3, <1>4, <1>6, <2>1
  <2>2. CASE ~(\/ RollbackPane(t) \/ OpenPane(t) \/ RunWorker(t) \/ GetLease(t)
               \/ ReturnProvisioned(t))
    <3>1. UNCHANGED external
      BY <1>11, <2>2 DEF ProvisionStep, StartSpawn, StartReopen, RecordLease, CheckWorktree,
         RecordPane, RecordSubmitted, ConfirmWorker, RecordConfirmed, RecordRunning,
         ClearPane, ClearLease, StoreOnly, LocalOnly
    <3>2. QED
      BY <1>1, <3>1
  <2>3. QED
    BY <2>1, <2>2
<1>12. CASE DropLock(t) \/ RecordPR(t) \/ RecordReport(t) \/ Deliver(t) \/ Crash(t)
  <2>1. UNCHANGED external
    BY <1>12 DEF DropLock, RecordPR, RecordReport, Deliver, Crash, StoreOnly, LocalOnly
  <2>2. QED
    BY <1>1, <2>1
<1>13. QED
  BY <1>8, <1>9, <1>10, <1>11, <1>12 DEF CommandStep

(* What another command knows stays true.                                    *)
LEMMA OthersKnow ==
    ASSUME NEW t \in Tasks, NEW s \in Tasks \ {t}, LifecycleInv, Knows(s), Tidies,
           cmd'[s] = cmd[s],
           \A l \in Leases : lease'[l] = "held" /\ Issued(l) => lease[l] = "held",
           \A a \in Attempts : attempt[a].owner # t =>
               attempt'[a].worktree = attempt[a].worktree
    PROVE  Knows(s)'
<1>1. ASSUME cmd[s].op = "reconcile", cmd[s].pc \in LeasePcs, ~cmd[s].resume
      PROVE  Spotless(cmd[s].lease)'
  <2>1. PICK l \in Leases : l = cmd[s].lease
    BY <1>1, LaunchFacts
  <2>2. Spotless(l)'
    BY <1>1, <2>1 DEF Knows, Tidies
  <2>3. QED
    BY <2>1, <2>2 DEF Spotless
<1>2. ASSUME cmd[s].op = "reconcile", cmd[s].pc = "return_settled",
             lease'[attempt'[cmd[s].att].worktree] = "held"
      PROVE  Spotless(attempt[cmd[s].att].worktree)'
  <2>1. cmd[s].pc \in WorktreePcs /\ cmd[s].pc \in ClosingPcs
    BY <1>2 DEF WorktreePcs, ClosingPcs
  <2>2. PICK a \in Attempts : a = cmd[s].att /\ attempt[a].owner = s
    BY <2>1, ClosingFacts
  <2>3. PICK l \in Leases : l = attempt[a].worktree /\ Issued(l) /\ attempt'[a].worktree = l
    BY <2>1, <2>2, ClosingFacts
  <2>4. lease[l] = "held"
    BY <1>2, <2>2, <2>3
  <2>5. Spotless(l)
    BY <1>2, <2>2, <2>3, <2>4 DEF Knows
  <2>6. Spotless(l)'
    BY <2>5 DEF Tidies
  <2>7. QED
    BY <2>2, <2>3, <2>6 DEF Spotless
<1>3. QED
  BY <1>1, <1>2 DEF Knows, Spotless

(* A command that has left knows nothing.                                    *)
LEMMA LeavingKnows ==
    ASSUME NEW t \in Tasks, LifecycleInv, Leave(t)
    PROVE  Knows(t)'
BY LeaveFacts DEF Knows

(* One that is no reconciliation need not.                                   *)
LEMMA OtherwiseKnows ==
    ASSUME NEW t \in Tasks, cmd'[t].op \notin {"none", "reconcile"}
    PROVE  Knows(t)'
BY DEF Knows

(* One that goes on in the same state of mind knows what it knew.            *)
LEMMA GoingKnows ==
    ASSUME NEW t \in Tasks, LifecycleInv, Knows(t), Tidies, cmd[t].pc \notin {"idle", "dead"},
           cmd'[t].op = cmd[t].op, cmd'[t].lease = cmd[t].lease, cmd'[t].resume = cmd[t].resume,
           cmd[t].op = "reconcile" =>
              /\ cmd'[t].pc \in ReconcilePcs \ {"return_settled"}
              /\ cmd'[t].pc \in LeasePcs => cmd[t].pc \in LeasePcs
              /\ cmd'[t].pc = "return_lease" => ~cmd[t].resume
    PROVE  Knows(t)'
<1>1. cmd[t].op # "none"
  BY DEF Knows
<1>2. ASSUME cmd[t].op = "reconcile", cmd'[t].pc \in LeasePcs, ~cmd[t].resume
      PROVE  Spotless(cmd[t].lease)'
  <2>1. cmd[t].pc \in LeasePcs
    BY <1>2
  <2>2. PICK l \in Leases : l = cmd[t].lease
    BY <2>1, LaunchFacts
  <2>3. Spotless(l)'
    BY <1>2, <2>1, <2>2 DEF Knows, Tidies
  <2>4. QED
    BY <2>2, <2>3 DEF Spotless
<1>3. cmd[t].op = "reconcile" => Knows(t)'
  BY <1>2 DEF Knows, Spotless
<1>4. CASE cmd[t].op # "reconcile"
  BY <1>1, <1>4, OtherwiseKnows
<1>5. QED
  BY <1>3, <1>4

(* A step of a launch that has its lease, or of a settlement.                *)
Onward(t) ==
    \/ Leave(t)
    \/ \E pc \in SettlingPcs \ {"return_settled"} : cmd[t].pc \in SettlingPcs /\ Goto(t, pc)
    \/ \E pc \in LeasePcs : /\ cmd[t].pc \in LeasePcs /\ Goto(t, pc)
                            /\ pc = "return_lease" => ~cmd[t].resume

LEMMA OnwardKnows ==
    ASSUME NEW t \in Tasks, LifecycleInv, Knows(t), Tidies, Onward(t)
    PROVE  Knows(t)'
<1>1. CASE Leave(t)
  BY <1>1, LeavingKnows
<1>2. ASSUME NEW pc \in SettlingPcs \ {"return_settled"}, cmd[t].pc \in SettlingPcs, Goto(t, pc)
      PROVE  Knows(t)'
  <2>1. /\ cmd'[t].pc = pc /\ cmd'[t].op = cmd[t].op
        /\ cmd'[t].lease = cmd[t].lease /\ cmd'[t].resume = cmd[t].resume
    BY <1>2, GotoFacts
  <2>2. pc \notin LeasePcs /\ pc \in ReconcilePcs /\ cmd[t].pc \notin {"idle", "dead"}
    BY <1>2 DEF SettlingPcs, LeasePcs, RunPcs, ReconcilePcs
  <2>3. pc # "return_lease"
    BY <2>2 DEF LeasePcs
  <2>4. QED
    BY <1>2, <2>1, <2>2, <2>3, GoingKnows
<1>3. ASSUME NEW pc \in LeasePcs, cmd[t].pc \in LeasePcs, Goto(t, pc),
             pc = "return_lease" => ~cmd[t].resume
      PROVE  Knows(t)'
  <2>1. /\ cmd'[t].pc = pc /\ cmd'[t].op = cmd[t].op
        /\ cmd'[t].lease = cmd[t].lease /\ cmd'[t].resume = cmd[t].resume
    BY <1>3, GotoFacts
  <2>2. pc \in ReconcilePcs /\ pc # "return_settled" /\ cmd[t].pc \notin {"idle", "dead"}
    BY <1>3 DEF LaunchPcs, LeasePcs, RunPcs, ReconcilePcs
  <2>3. QED
    BY <1>3, <2>1, <2>2, GoingKnows
<1>4. QED
  BY <1>1, <1>2, <1>3 DEF Onward

(* A launch that has its lease, or takes one.                                *)
LEMMA FailingGoesOn ==
    ASSUME NEW t \in Tasks, cmd[t].pc \in LeasePcs, FailWithoutPane(t)
    PROVE  Onward(t)
<1>1. "return_lease" \in LeasePcs
  BY DEF LeasePcs
<1>2. QED
  BY <1>1 DEF FailWithoutPane, Onward

LEMMA LaunchKnows ==
    ASSUME NEW t \in Tasks, LifecycleInv, Knows(t), Tidies,
           \/ RecordLease(t) \/ CheckWorktree(t) \/ OpenPane(t) \/ RecordPane(t) \/ RunWorker(t)
           \/ RecordSubmitted(t) \/ ConfirmWorker(t) \/ RecordConfirmed(t) \/ RecordRunning(t)
           \/ RollbackPane(t) \/ ClearPane(t) \/ ReturnProvisioned(t) \/ ClearLease(t)
    PROVE  Knows(t)'
<1>1. cmd[t].pc \in LeasePcs
  BY DEF RecordLease, CheckWorktree, OpenPane, RecordPane, RunWorker, RecordSubmitted,
     ConfirmWorker, RecordConfirmed, RecordRunning, RollbackPane, ClearPane,
     ReturnProvisioned, ClearLease, At, LeasePcs, RunPcs
<1>2. cmd[t].pc \notin {"idle", "dead"}
  BY <1>1 DEF LeasePcs, RunPcs
<1>3. cmd \in [Tasks -> Command] /\ cmd[t] \in Command
  BY DEF LifecycleInv, CommandsTyped
<1>4. \A pc \in LeasePcs \ {"return_lease"} : Goto(t, pc) => Onward(t)
  BY <1>1 DEF Onward
<1>5. {"check", "pane", "run", "submit", "confirm", "confirmed", "running", "close_pane",
       "clear_pane", "clear_lease"} \subseteq LeasePcs \ {"return_lease"}
  BY DEF LeasePcs, RunPcs
<1>6. Leave(t) => Onward(t)
  BY DEF Onward
<1>7. FailWithoutPane(t) => Onward(t)
  BY <1>1, FailingGoesOn
<1>8. CASE OpenPane(t) /\ ~FailWithoutPane(t)
  <2>1. PICK p \in Panes : cmd' = [cmd EXCEPT ![t].pane = p, ![t].pc = "herdr"]
    BY <1>8 DEF OpenPane
  <2>2. PICK c : c = [cmd[t] EXCEPT !.pane = p, !.pc = "herdr"]
    OBVIOUS
  <2>3. c.pc = "herdr" /\ c.op = cmd[t].op /\ c.lease = cmd[t].lease /\ c.resume = cmd[t].resume
    BY <1>3, <2>2 DEF Command
  <2>4. cmd'[t] = c
    BY <1>3, <2>1, <2>2
  <2>5. "herdr" \in ReconcilePcs \ {"return_settled"}
    BY DEF ReconcilePcs, LaunchPcs, LeasePcs
  <2>6. QED
    BY <1>1, <1>2, <2>3, <2>4, <2>5, GoingKnows
<1>9. CASE RecordRunning(t) /\ ~Leave(t)
  <2>1. /\ cmd[t].op = "reconcile"
        /\ cmd' = [cmd EXCEPT ![t] = [Idle EXCEPT !.op = "reconcile", !.pc = "observe"]]
    BY <1>9 DEF RecordRunning
  <2>2. PICK c : c = [Idle EXCEPT !.op = "reconcile", !.pc = "observe"]
    OBVIOUS
  <2>3. c.op = "reconcile" /\ c.pc = "observe"
    BY <2>2 DEF Idle
  <2>4. cmd'[t] = c
    BY <1>3, <2>1, <2>2
  <2>5. "observe" \in ReconcilePcs /\ "observe" \notin LeasePcs
    BY DEF ReconcilePcs, SettlingPcs, LeasePcs, RunPcs
  <2>6. QED
    BY <2>3, <2>4, <2>5 DEF Knows
<1>10. CASE Onward(t)
  BY <1>10, OnwardKnows
<1>11. CASE \/ RecordLease(t) \/ CheckWorktree(t) \/ RunWorker(t)
            \/ RecordSubmitted(t) \/ ConfirmWorker(t) \/ RecordConfirmed(t)
            \/ RollbackPane(t) \/ ClearPane(t) \/ ReturnProvisioned(t) \/ ClearLease(t)
            \/ RecordPane(t)
  <2>1. Onward(t)
    BY <1>4, <1>5, <1>6, <1>7, <1>11 DEF RecordLease, CheckWorktree, RunWorker, RecordPane,
       RecordSubmitted, ConfirmWorker, RecordConfirmed, RollbackPane, ClearPane,
       ReturnProvisioned, ClearLease
  <2>2. QED
    BY <2>1, OnwardKnows
<1>12. QED
  BY <1>6, <1>7, <1>8, <1>9, <1>10, <1>11

LEMMA GettingKnows ==
    ASSUME NEW t \in Tasks, LifecycleInv, WorkInv, Tidies, GetLease(t)
    PROVE  Knows(t)'
<1>1. CASE Leave(t)
  BY <1>1, LeavingKnows
<1>2. CASE ~Leave(t)
  <2>1. PICK l \in Leases : /\ lease[l] = "unissued"
                            /\ cmd' = [cmd EXCEPT ![t].lease = l, ![t].pc = "record"]
    BY <1>2 DEF GetLease
  <2>2. cmd \in [Tasks -> Command] /\ cmd[t] \in Command /\ cmd[t].pc = "get"
    BY DEF LifecycleInv, CommandsTyped, GetLease, At
  <2>3. PICK c : c = [cmd[t] EXCEPT !.lease = l, !.pc = "record"]
    OBVIOUS
  <2>4. c.pc = "record" /\ c.op = cmd[t].op /\ c.lease = l
    BY <2>2, <2>3 DEF Command
  <2>5. cmd'[t] = c
    BY <2>1, <2>2, <2>3
  <2>6. Spotless(l) /\ Spotless(l)' /\ Knows(t)
    BY <2>1 DEF WorkInv, Tidies
  <2>7. cmd[t].op # "none"
    BY <2>2, <2>6 DEF Knows
  <2>8. "record" \in ReconcilePcs
    BY DEF ReconcilePcs, LaunchPcs, LeasePcs
  <2>9. QED
    BY <2>4, <2>5, <2>6, <2>7, <2>8 DEF Knows, Spotless
<1>3. QED
  BY <1>1, <1>2

(* A launch, a promotion and a teardown begin, and are no reconciliation.    *)
LEMMA BeginningKnows ==
    ASSUME NEW t \in Tasks, LifecycleInv,
           \/ \E a \in Attempts : \/ \E kind \in Kinds : StartSpawn(t, a, kind)
                                  \/ StartReopen(t, a) \/ StartPromote(t, a)
           \/ \E force \in BOOLEAN : StartTeardown(t, force)
           \/ LaunchShip(t)
    PROVE  Knows(t)'
<1>1. cmd \in [Tasks -> Command]
  BY DEF LifecycleInv, CommandsTyped
<1>2. ASSUME NEW op \in {"spawn", "reopen", "promote"}, NEW a,
             cmd' = [cmd EXCEPT ![t] = Launch(op, a, NoLease)]
      PROVE  Knows(t)'
  <2>1. PICK c : c = Launch(op, a, NoLease)
    OBVIOUS
  <2>2. c.op = op
    BY <2>1 DEF Launch, Idle
  <2>3. cmd'[t] = c
    BY <1>1, <1>2, <2>1
  <2>4. QED
    BY <2>2, <2>3, OtherwiseKnows
<1>3. ASSUME NEW a \in Attempts, StartPromote(t, a)
      PROVE  Knows(t)'
  <2>1. PICK c : c = [Idle EXCEPT !.op = "promote", !.pc = "scout_pane",
                                  !.att = a, !.scout = task[t].active]
    OBVIOUS
  <2>2. c.op = "promote"
    BY <2>1 DEF Idle
  <2>3. cmd'[t] = c
    BY <1>1, <1>3, <2>1 DEF StartPromote
  <2>4. QED
    BY <2>2, <2>3, OtherwiseKnows
<1>4. ASSUME NEW force \in BOOLEAN, StartTeardown(t, force)
      PROVE  Knows(t)'
  <2>1. PICK c : c = [Idle EXCEPT !.op = "teardown", !.pc = "recover",
                                  !.att = task[t].active, !.force = force,
                                  !.kind = task[t].kind, !.merged = Merged(t)]
    OBVIOUS
  <2>2. c.op = "teardown"
    BY <2>1 DEF Idle
  <2>3. cmd'[t] = c
    BY <1>1, <1>4, <2>1 DEF StartTeardown
  <2>4. QED
    BY <2>2, <2>3, OtherwiseKnows
<1>5. CASE LaunchShip(t)
  BY <1>2, <1>5 DEF LaunchShip
<1>6. ASSUME NEW a \in Attempts, NEW kind \in Kinds, StartSpawn(t, a, kind)
      PROVE  Knows(t)'
  BY <1>2, <1>6 DEF StartSpawn
<1>7. ASSUME NEW a \in Attempts, StartReopen(t, a)
      PROVE  Knows(t)'
  BY <1>2, <1>7 DEF StartReopen
<1>8. QED
  BY <1>3, <1>4, <1>5, <1>6, <1>7

(* A promotion and a teardown go on as what they are, or leave.              *)
LEMMA OtherPcs ==
    ASSUME NEW t \in Tasks, Knows(t),
           cmd[t].pc \in GuardPcs \union (ShipPcs \ LaunchPcs)
                         \union {"claim_pane", "close", "closed", "close_failed", "claim_lease",
                                 "return", "return_ok", "return_aborted", "return_error",
                                 "facts", "append", "appended"}
    PROVE  cmd[t].op \notin {"none", "reconcile"}
BY DEF Knows, ReconcilePcs, SettlingPcs, LaunchPcs, LeasePcs, RunPcs, ShipPcs, ScoutPcs,
   ScoutPanePcs, ScoutLeasePcs, GuardPcs

LEMMA PromotionKnows ==
    ASSUME NEW t \in Tasks, LifecycleInv, Knows(t),
           \/ ClaimScoutPane(t) \/ CloseScoutPane(t) \/ RecordScoutPane(t)
           \/ ClaimScoutLease(t) \/ ReturnScoutLease(t) \/ RecordScoutLease(t)
    PROVE  Knows(t)'
<1>1. cmd[t].pc \in ShipPcs \ LaunchPcs
  BY DEF ClaimScoutPane, CloseScoutPane, RecordScoutPane, ClaimScoutLease, ReturnScoutLease,
     RecordScoutLease, At, ShipPcs, ScoutPcs, ScoutPanePcs, ScoutLeasePcs, LaunchPcs, LeasePcs, RunPcs
<1>2. \E pc \in Pcs : Goto(t, pc)
  <2>1. {"scout_close", "scout_lease", "scout_closed", "scout_unclosed", "scout_return",
         "scout_returned", "scout_unreturned", "launch"} \subseteq Pcs
    BY DEF Pcs, ShipPcs, ScoutPcs, ScoutPanePcs, ScoutLeasePcs
  <2>2. QED
    BY <2>1 DEF ClaimScoutPane, CloseScoutPane, RecordScoutPane, ClaimScoutLease,
       ReturnScoutLease, RecordScoutLease
<1>3. cmd'[t].op = cmd[t].op
  BY <1>2, GotoFacts
<1>4. QED
  BY <1>1, <1>3, OtherPcs, OtherwiseKnows

LEMMA TeardownKnows ==
    ASSUME NEW t \in Tasks, LifecycleInv, Knows(t), TeardownStep(t),
           \A force \in BOOLEAN : ~StartTeardown(t, force)
    PROVE  Knows(t)'
<1>1. cmd[t].pc \in GuardPcs \union
                    {"claim_pane", "close", "closed", "close_failed", "claim_lease",
                     "return", "return_ok", "return_aborted", "return_error",
                     "facts", "append", "appended"}
  BY DEF TeardownStep, RecoverCompletion, ExamineWork, ObserveMergeState, DecideTeardown,
     ClaimPane, ClosePane, RecordPaneClosed, ClaimLease, ReturnWorktree, RecordReturned,
     RecordFacts, AppendCompletion, RecordAppended, FinishTeardown, At, GuardPcs
<1>2. cmd \in [Tasks -> Command] /\ cmd[t] \in Command
  BY DEF LifecycleInv, CommandsTyped
<1>3. Leave(t) \/ cmd'[t].op = cmd[t].op
  <2>1. \A pc : Goto(t, pc) => cmd'[t].op = cmd[t].op
    BY GotoFacts
  <2>2. CASE RecoverCompletion(t)
    <3>1. CASE cmd' = [cmd EXCEPT ![t].pc = "claim_pane", ![t].safe =
                              attempt[cmd[t].att].disposition = "completed-safe-dirt"]
      <4>1. PICK b \in BOOLEAN : b = (attempt[cmd[t].att].disposition = "completed-safe-dirt")
        OBVIOUS
      <4>2. PICK c : c = [cmd[t] EXCEPT !.pc = "claim_pane", !.safe = b]
        OBVIOUS
      <4>3. c.op = cmd[t].op
        BY <1>2, <4>2 DEF Command
      <4>4. cmd'[t] = c
        BY <1>2, <3>1, <4>1, <4>2
      <4>5. QED
        BY <4>3, <4>4
    <3>2. QED
      BY <2>1, <2>2, <3>1 DEF RecoverCompletion
  <2>3. CASE ExamineWork(t)
    <3>1. ASSUME NEW pc \in {"decide", "merge_state"}, NEW kind \in Kinds, NEW merged \in BOOLEAN,
                 cmd' = [cmd EXCEPT ![t].pc = pc,
                                    ![t].safe = (WorkIn(attempt[cmd[t].att].worktree).dirt = "scratch"),
                                    ![t].kind = kind, ![t].merged = merged]
          PROVE  cmd'[t].op = cmd[t].op
      <4>1. PICK safe \in BOOLEAN : safe = (WorkIn(attempt[cmd[t].att].worktree).dirt = "scratch")
        OBVIOUS
      <4>2. PICK c : c = [cmd[t] EXCEPT !.pc = pc, !.safe = safe, !.kind = kind, !.merged = merged]
        OBVIOUS
      <4>3. c.op = cmd[t].op
        BY <1>2, <4>2 DEF Command
      <4>4. cmd'[t] = c
        BY <1>2, <3>1, <4>1, <4>2
      <4>5. QED
        BY <4>3, <4>4
    <3>2. Goto(t, "decide") => cmd'[t].op = cmd[t].op
      BY <2>1
    <3>3. cmd[t].merged \in BOOLEAN /\ (cmd[t].merged \/ pr[t] = "merged") \in BOOLEAN
      BY <1>2 DEF Command
    <3>4. "ship" \in Kinds /\ "scout" \in Kinds
      BY DEF Kinds
    <3>5. QED
      BY <2>3, <3>1, <3>2, <3>3, <3>4 DEF ExamineWork
  <2>4. CASE \/ ObserveMergeState(t) \/ DecideTeardown(t) \/ ClaimPane(t) \/ ClosePane(t)
             \/ RecordPaneClosed(t) \/ ClaimLease(t) \/ ReturnWorktree(t) \/ RecordReturned(t)
    BY <2>1, <2>4 DEF ObserveMergeState, DecideTeardown, ClaimPane, ClosePane,
       RecordPaneClosed, ClaimLease, ReturnWorktree, RecordReturned
  <2>5. CASE \/ RecordFacts(t) \/ AppendCompletion(t) \/ RecordAppended(t) \/ FinishTeardown(t)
    BY <2>1, <2>5 DEF RecordFacts, AppendCompletion, RecordAppended, FinishTeardown
  <2>6. QED
    BY <2>2, <2>3, <2>4, <2>5 DEF TeardownStep
<1>4. QED
  BY <1>1, <1>3, OtherPcs, OtherwiseKnows, LeavingKnows

(* A reconciliation turns to an attempt, or looks again.                     *)
TurnsTo(t, a, pc) == cmd' = [cmd EXCEPT ![t].att = a, ![t].pc = pc]

LEMMA TurningFacts ==
    ASSUME NEW t \in Tasks, LifecycleInv, NEW a \in Attempts, NEW pc \in SettlingPcs, TurnsTo(t, a, pc)
    PROVE  /\ cmd'[t].pc = pc /\ cmd'[t].att = a /\ cmd'[t].op = cmd[t].op
           /\ cmd'[t].lease = cmd[t].lease /\ cmd'[t].resume = cmd[t].resume
<1>1. cmd \in [Tasks -> Command] /\ cmd[t] \in Command
  BY DEF LifecycleInv, CommandsTyped
<1>2. PICK c : c = [cmd[t] EXCEPT !.att = a, !.pc = pc]
  OBVIOUS
<1>3. /\ c.pc = pc /\ c.att = a /\ c.op = cmd[t].op
      /\ c.lease = cmd[t].lease /\ c.resume = cmd[t].resume
  BY <1>1, <1>2 DEF Command
<1>4. cmd' = [cmd EXCEPT ![t] = c]
  BY <1>1, <1>2 DEF TurnsTo
<1>5. QED
  BY <1>1, <1>3, <1>4

LEMMA TurningKnows ==
    ASSUME NEW t \in Tasks, LifecycleInv, Knows(t), Tidies, cmd[t].pc = "observe",
           NEW a \in Attempts, NEW pc \in SettlingPcs \ {"return_settled"}, TurnsTo(t, a, pc)
    PROVE  Knows(t)'
<1>1. pc \in SettlingPcs
  OBVIOUS
<1>2. /\ cmd'[t].pc = pc /\ cmd'[t].op = cmd[t].op
      /\ cmd'[t].lease = cmd[t].lease /\ cmd'[t].resume = cmd[t].resume
  BY <1>1, TurningFacts, ZenonT(30)
<1>3. pc \in ReconcilePcs /\ pc \notin LeasePcs /\ pc # "return_lease" /\ pc # "return_settled"
  BY DEF ReconcilePcs, SettlingPcs, LeasePcs, RunPcs
<1>4. QED
  BY <1>2, <1>3, GoingKnows

LEMMA LookingKnows ==
    ASSUME NEW t \in Tasks, LifecycleInv, Knows(t), Tidies, cmd[t].pc \in SettlingPcs,
           Again(t) \/ Leave(t)
    PROVE  Knows(t)'
<1>1. "observe" \in SettlingPcs \ {"return_settled"}
  BY DEF SettlingPcs
<1>2. Onward(t)
  BY <1>1 DEF Again, Onward
<1>3. QED
  BY <1>2, OnwardKnows

LEMMA StartingKnows ==
    ASSUME NEW t \in Tasks, LifecycleInv, NEW attest \in Attestations, StartReconcile(t, attest)
    PROVE  Knows(t)'
<1>1. PICK c : c = [Idle EXCEPT !.op = "reconcile", !.pc = "observe", !.attest = attest]
  OBVIOUS
<1>2. c.op = "reconcile" /\ c.pc = "observe"
  BY <1>1 DEF Idle
<1>3. cmd'[t] = c
  BY <1>1 DEF StartReconcile, LifecycleInv, CommandsTyped
<1>4. "observe" \in ReconcilePcs /\ "observe" \notin LeasePcs
  BY DEF ReconcilePcs, SettlingPcs, LeasePcs, RunPcs
<1>5. QED
  BY <1>2, <1>3, <1>4 DEF Knows

(* Its small steps.                                                          *)
LEMMA WritingKnows ==
    ASSUME NEW t \in Tasks, LifecycleInv, Knows(t), Tidies,
           \/ ObserveNothing(t) \/ ClearResolved(t) \/ CloseSettled(t) \/ RecordSettled(t)
           \/ RecordAbandoned(t) \/ ReturnSettled(t) \/ RecordSettledCompletion(t)
           \/ EndPending(t) \/ EndAppend(t) \/ EndAppended(t) \/ EndAttempt(t)
    PROVE  Knows(t)'
<1>1. {"observe", "pane_closed", "pane_unclosed", "lease_returned", "end_append",
       "end_appended", "end"} \subseteq SettlingPcs \ {"return_settled"}
  BY DEF SettlingPcs
<1>2. cmd[t].pc \in SettlingPcs
  BY DEF ObserveNothing, ClearResolved, CloseSettled, RecordSettled, RecordAbandoned,
     ReturnSettled, RecordSettledCompletion, EndPending, EndAppend, EndAppended, EndAttempt,
     At, SettlingPcs
<1>3. \/ Leave(t) \/ Goto(t, "observe") \/ Goto(t, "pane_closed") \/ Goto(t, "pane_unclosed")
      \/ Goto(t, "lease_returned") \/ Goto(t, "end_append") \/ Goto(t, "end_appended")
      \/ Goto(t, "end")
  <2>1. CASE ObserveNothing(t) \/ ClearResolved(t) \/ CloseSettled(t) \/ RecordAbandoned(t)
    BY <2>1 DEF ObserveNothing, ClearResolved, CloseSettled, RecordAbandoned, Again
  <2>2. CASE RecordSettled(t) \/ ReturnSettled(t)
    BY <2>2 DEF RecordSettled, ReturnSettled, Again
  <2>3. CASE \/ RecordSettledCompletion(t) \/ EndPending(t) \/ EndAppend(t)
             \/ EndAppended(t) \/ EndAttempt(t)
    BY <2>3 DEF RecordSettledCompletion, EndPending, EndAppend, EndAppended, EndAttempt, Again
  <2>4. QED
    BY <2>1, <2>2, <2>3
<1>4. Onward(t)
  BY <1>1, <1>2, <1>3 DEF Onward
<1>5. QED
  BY <1>4, OnwardKnows

LEMMA SettlingPaneKnows ==
    ASSUME NEW t \in Tasks, NEW a \in Attempts, LifecycleInv, Knows(t), Tidies, SettlePane(t, a)
    PROVE  Knows(t)'
<1> DEFINE codes == {"teardown-resource-ambiguous", "herdr-ownership-mismatch"}
<1>1. cmd[t].pc = "observe" /\ cmd[t].pc \in SettlingPcs
  BY DEF SettlePane, Settling, At, SettlingPcs
<1>2. /\ {"abandon_herdr", "pane_closed", "close_settled"} \subseteq SettlingPcs \ {"return_settled"}
  BY DEF SettlingPcs
<1>3. PICK seen \in PaneSeen(attempt[a].herdr) :
          CASE seen = "unknown" -> Leave(t) /\ UNCHANGED storeVars
            [] seen = "mismatch" ->
                  IF cmd[t].attest = "pane" THEN Abandon(t, a, "herdr")
                  ELSE Diagnose(t, "teardown-resource-ambiguous", a)
            [] seen = "absent" -> ClearOr(t, a, codes, ClaimThen(t, a, "herdr", {""}, "pane_closed"))
            [] seen \in {"agent", "shell"} ->
                  ClearOr(t, a, codes, ClaimThen(t, a, "herdr", {""}, "close_settled"))
  BY DEF SettlePane
<1>4. seen \in {"unknown", "mismatch", "absent", "agent", "shell"}
  <2>1. attempt[a].herdr \in Panes /\ Opened(attempt[a].herdr)
    BY RowFacts DEF SettlePane, PaneUnsettled
  <2>2. WorldTyped
    BY DEF LifecycleInv
  <2>3. seen \in PaneSeen(attempt[a].herdr)
    BY <1>3
  <2>4. QED
    BY <2>1, <2>2, <2>3, PanesSeen
<1>5. \/ Leave(t) \/ Again(t) \/ TurnsTo(t, a, "abandon_herdr")
      \/ TurnsTo(t, a, "pane_closed") \/ TurnsTo(t, a, "close_settled")
  <2>1. CASE seen = "unknown"
    BY <1>3, <2>1
  <2>2. CASE seen = "mismatch"
    BY <1>3, <2>2 DEF Abandon, Diagnose, TurnsTo
  <2>3. CASE seen = "absent"
    BY <1>3, <2>3 DEF ClearOr, ClaimThen, TurnsTo
  <2>4. CASE seen \in {"agent", "shell"}
    BY <1>3, <2>4 DEF ClearOr, ClaimThen, TurnsTo
  <2>5. QED
    BY <1>4, <2>1, <2>2, <2>3, <2>4
<1>6. QED
  BY <1>1, <1>2, <1>5, LookingKnows, TurningKnows

LEMMA SettlingLeaseKnows ==
    ASSUME NEW t \in Tasks, NEW a \in Attempts, LifecycleInv, Knows(t), Tidies, SettleLease(t, a)
    PROVE  Knows(t)'
<1> DEFINE tree == WorkIn(attempt[a].worktree)
<1>1. cmd[t].pc = "observe" /\ cmd[t].pc \in SettlingPcs
  BY DEF SettleLease, Settling, At, SettlingPcs
<1>2. {"abandon_worktree", "lease_returned"} \subseteq SettlingPcs \ {"return_settled"}
  BY DEF SettlingPcs
<1>3. PICK l \in Leases : l = attempt[a].worktree
  BY RowFacts DEF SettleLease, LeaseUnsettled
<1>4. CASE Leave(t) \/ Again(t)
  BY <1>1, <1>4, LookingKnows
<1>5. ASSUME NEW pc \in {"abandon_worktree", "lease_returned"}, TurnsTo(t, a, pc)
      PROVE  Knows(t)'
  BY <1>1, <1>2, <1>5, TurningKnows
<1>6. ASSUME tree.dirt = "clean", tree.commits # "local", TurnsTo(t, a, "return_settled"),
             SetResource(t, a, "worktree", "releasing") \/ UNCHANGED storeVars
      PROVE  Knows(t)'
  <2>1. "return_settled" \in SettlingPcs /\ "return_settled" \in ReconcilePcs
        /\ "return_settled" \notin LeasePcs
    BY DEF SettlingPcs, ReconcilePcs, LeasePcs, RunPcs
  <2>2. cmd'[t].pc = "return_settled" /\ cmd'[t].att = a /\ cmd'[t].op = cmd[t].op
    BY <1>6, <2>1, TurningFacts
  <2>3. Spotless(l) /\ Spotless(l)'
    BY <1>3, <1>6 DEF WorkIn, Spotless, Tidies
  <2>4. attempt'[a].worktree = l
    <3>1. "worktree" \in Resources
      BY WorldAssumption
    <3>2. CASE SetResource(t, a, "worktree", "releasing")
      BY <1>3, <3>1, <3>2, ResourceCalls DEF LifecycleInv, RowsKeeping, Keeping
    <3>3. CASE UNCHANGED storeVars
      BY <1>3, <3>3 DEF storeVars
    <3>4. QED
      BY <1>6, <3>2, <3>3
  <2>5. cmd[t].op # "none"
    BY <1>1 DEF Knows
  <2>6. QED
    BY <2>1, <2>2, <2>3, <2>4, <2>5 DEF Knows, Spotless
<1>7. ASSUME NEW codes, NEW from, ClearOr(t, a, codes, ClaimThen(t, a, "worktree", from, "lease_returned"))
      PROVE  Knows(t)'
  <2>1. Again(t) \/ TurnsTo(t, a, "lease_returned")
    BY <1>7 DEF ClearOr, ClaimThen, TurnsTo
  <2>2. QED
    BY <1>4, <1>5, <2>1
<1>8. CASE Abandon(t, a, "worktree")
  <2>1. Again(t) \/ TurnsTo(t, a, "abandon_worktree")
    BY <1>8 DEF Abandon, TurnsTo
  <2>2. QED
    BY <1>4, <1>5, <2>1
<1>9. ASSUME NEW code, Diagnose(t, code, a)
      PROVE  Knows(t)'
  BY <1>4, <1>9 DEF Diagnose
<1>10. ASSUME tree.dirt = "clean", tree.commits # "local",
              ClearOr(t, a, LeaseCodes,
                      ClaimThen(t, a, "worktree", {"", "ambiguous"}, "return_settled"))
       PROVE  Knows(t)'
  <2>1. CASE Again(t)
    BY <1>4, <2>1
  <2>2. CASE ClaimThen(t, a, "worktree", {"", "ambiguous"}, "return_settled")
    BY <1>6, <1>10, <2>2 DEF ClaimThen, TurnsTo
  <2>3. QED
    BY <1>10, <2>1, <2>2 DEF ClearOr
<1>11. ASSUME tree.dirt = "clean", NEW safety \in CommitSafety(tree),
              CASE safety = "local" -> Diagnose(t, "worktree-local-commits", a)
                [] safety = "unknown" -> Diagnose(t, "worktree-commit-safety-unknown", a)
                [] safety = "durable" ->
                     ClearOr(t, a, LeaseCodes,
                             ClaimThen(t, a, "worktree", {"", "ambiguous"}, "return_settled"))
       PROVE  Knows(t)'
  <2>1. safety \in {"local", "unknown", "durable"}
    BY DEF CommitSafety, Unobservable
  <2>2. CASE safety = "local"
    <3>1. Diagnose(t, "worktree-local-commits", a)
      BY <1>11, <2>2
    <3>2. QED
      BY <1>9, <3>1
  <2>3. CASE safety = "unknown"
    <3>1. Diagnose(t, "worktree-commit-safety-unknown", a)
      BY <1>11, <2>3
    <3>2. QED
      BY <1>9, <3>1
  <2>4. CASE safety = "durable"
    <3>1. ClearOr(t, a, LeaseCodes,
                  ClaimThen(t, a, "worktree", {"", "ambiguous"}, "return_settled"))
      BY <1>11, <2>4
    <3>2. tree.commits # "local"
      BY <2>4 DEF CommitSafety, Unobservable
    <3>3. QED
      BY <1>10, <1>11, <3>1, <3>2
  <2>5. QED
    BY <2>1, <2>2, <2>3, <2>4
<1>12. \/ Abandon(t, a, "worktree") \/ Again(t)
       \/ Diagnose(t, "worktree-ownership-unobservable", a) \/ Diagnose(t, "worktree-dirty", a)
       \/ ClearOr(t, a, LeaseCodes \ {"worktree-dirty"},
                  ClaimThen(t, a, "worktree", {}, "lease_returned"))
       \/ /\ tree.dirt = "clean"
          /\ \E safety \in CommitSafety(tree) :
                CASE safety = "local" -> Diagnose(t, "worktree-local-commits", a)
                  [] safety = "unknown" -> Diagnose(t, "worktree-commit-safety-unknown", a)
                  [] safety = "durable" ->
                       ClearOr(t, a, LeaseCodes,
                               ClaimThen(t, a, "worktree", {"", "ambiguous"}, "return_settled"))
  <2>1. ASSUME NEW codes, ClearOr(t, a, codes, Abandon(t, a, "worktree"))
        PROVE  Abandon(t, a, "worktree") \/ Again(t)
    BY <2>1 DEF ClearOr
  <2>2. QED
    BY <2>1 DEF SettleLease
<1> HIDE DEF tree
<1>13. QED
  BY <1>4, <1>7, <1>8, <1>9, <1>11, <1>12

LEMMA SettlingCompletionKnows ==
    ASSUME NEW t \in Tasks, NEW a \in Attempts, LifecycleInv, Knows(t), Tidies,
           SettleCompletion(t, a) \/ AttestNeverStarted(t, a)
    PROVE  Knows(t)'
<1>1. cmd[t].pc = "observe" /\ cmd[t].pc \in SettlingPcs
  BY DEF SettleCompletion, AttestNeverStarted, Settling, Undecided, At, SettlingPcs
<1>2. "settled_appended" \in SettlingPcs \ {"return_settled"}
  BY DEF SettlingPcs
<1>3. Leave(t) \/ Again(t) \/ TurnsTo(t, a, "settled_appended")
  <2>1. CASE AttestNeverStarted(t, a)
    BY <2>1 DEF AttestNeverStarted
  <2>2. CASE SettleCompletion(t, a)
    BY <2>2 DEF SettleCompletion, TurnsTo, ClearOr, Diagnose
  <2>3. QED
    BY <2>1, <2>2
<1>4. QED
  BY <1>1, <1>2, <1>3, LookingKnows, TurningKnows

(* A launch that is taken up again keeps the worktree it finds.              *)
LEMMA ContinuingKnows ==
    ASSUME NEW t \in Tasks, LifecycleInv, NEW a \in Attempts,
           cmd' = [cmd EXCEPT ![t] = Launch("reconcile", a, attempt[a].worktree)]
    PROVE  Knows(t)'
<1>1. PICK l : l = attempt[a].worktree
  OBVIOUS
<1>2. PICK c : c = Launch("reconcile", a, l)
  OBVIOUS
<1>3. PICK b \in BOOLEAN : b = (l # NoLease)
  OBVIOUS
<1>4. PICK pc : pc = IF b THEN "check" ELSE "get"
  OBVIOUS
<1>5. c = [Idle EXCEPT !.op = "reconcile", !.att = a, !.lease = l, !.resume = b, !.pc = pc]
  BY <1>2, <1>3, <1>4 DEF Launch
<1>6. c.op = "reconcile" /\ c.resume = b /\ c.pc = pc
  BY <1>5 DEF Idle
<1>7. cmd'[t] = c
  BY <1>1, <1>2 DEF LifecycleInv, CommandsTyped
<1>8. /\ {"check", "get"} \subseteq ReconcilePcs /\ "get" \notin LeasePcs
  BY DEF ReconcilePcs, LaunchPcs, LeasePcs, RunPcs
<1>9. QED
  BY <1>4, <1>6, <1>7, <1>8 DEF Knows

LEMMA ObservingActiveKnows ==
    ASSUME NEW t \in Tasks, NEW a \in Attempts, LifecycleInv, Knows(t), Tidies, ObserveActive(t, a)
    PROVE  Knows(t)'
<1>1. /\ attempt[a].owner = t /\ attempt[a].life \in LiveStates /\ attempt[a].decided = ""
      /\ cmd[t].pc = "observe" /\ cmd[t].pc \in SettlingPcs
  BY UndecidedFacts DEF ObserveActive, Undecided, At, SettlingPcs
<1>2. CASE Leave(t) \/ Again(t)
  BY <1>1, <1>2, LookingKnows
<1>3. CASE TurnsTo(t, a, "end_pending")
  <2>1. "end_pending" \in SettlingPcs \ {"return_settled"}
    BY DEF SettlingPcs
  <2>2. QED
    BY <1>1, <1>3, <2>1, TurningKnows
<1>4. CASE cmd' = [cmd EXCEPT ![t] = Launch("reconcile", a, attempt[a].worktree)]
  BY <1>4, ContinuingKnows
<1>5. PICK seenLease \in (IF attempt[a].worktree = NoLease THEN {"none"}
                          ELSE LeaseSeen(attempt[a].worktree)),
           seenPane \in (IF \/ attempt[a].herdr = NoPane
                            \/ attempt[a].life = "provisioning" /\ ~attempt[a].submitted
                         THEN {"none"} ELSE PaneSeen(attempt[a].herdr)),
           landing \in Landing(t) :
           LET verdict == Decide(a, seenLease, seenPane, landing) IN
           IF seenPane = "unknown" THEN Leave(t) /\ UNCHANGED storeVars
           ELSE IF verdict \in ReconcileCodes THEN Diagnose(t, verdict, a)
           ELSE IF verdict \in DOMAIN Endings
           THEN /\ SetAttemptTeardownDecision(t, a, Endings[verdict][1], Endings[verdict][2])
                /\ cmd' = [cmd EXCEPT ![t].att = a, ![t].pc = "end_pending"]
           ELSE IF Outdated(t, a, seenLease, seenPane)
           THEN ClearTaskRepair(t, task[t].repair) /\ Again(t)
           ELSE IF task[t].repair # "" THEN Leave(t) /\ UNCHANGED storeVars
           ELSE Apply(t, a, verdict)
  BY DEF ObserveActive
<1> DEFINE verdict == Decide(a, seenLease, seenPane, landing)
<1>6. CASE seenPane # "unknown"
  <2>1. attempt[a].life = "running" => seenPane \in {"agent", "absent", "mismatch", "shell"}
    <3>1. attempt[a].life = "running" => attempt[a].herdr # NoPane
      BY DEF LifecycleInv, RowsOK, RowOK
    <3>2. attempt[a].herdr # NoPane => attempt[a].herdr \in Panes /\ Opened(attempt[a].herdr)
      BY RowFacts
    <3>3. attempt[a].life = "running" => seenPane \in PaneSeen(attempt[a].herdr)
      BY <1>5, <3>1
    <3>4. WorldTyped
      BY DEF LifecycleInv
    <3>5. QED
      BY <1>6, <3>1, <3>2, <3>3, <3>4, PanesSeen
  <2>2. verdict \in ReconcileCodes \union
            {"converge-landed", "converge-unlanded", "unwind",
             "keep", "confirm-launch", "mark-running", "continue-provisioning"}
    BY <1>1, <2>1, Verdicts
  <2>3. \/ Leave(t) \/ Again(t) \/ TurnsTo(t, a, "end_pending")
        \/ /\ Apply(t, a, verdict)
           /\ verdict \notin ReconcileCodes /\ verdict \notin DOMAIN Endings
    BY <1>5, <1>6 DEF Diagnose, TurnsTo
  <2> HIDE DEF verdict
  <2>4. ASSUME Apply(t, a, verdict), verdict \notin ReconcileCodes, verdict \notin DOMAIN Endings
        PROVE  \/ Leave(t) \/ Again(t)
               \/ cmd' = [cmd EXCEPT ![t] = Launch("reconcile", a, attempt[a].worktree)]
    <3>1. verdict \in {"keep", "confirm-launch", "mark-running", "continue-provisioning"}
      BY <2>2, <2>4 DEF Endings
    <3>2. QED
      BY <2>4, <3>1 DEF Apply
  <2>5. QED
    BY <1>2, <1>3, <1>4, <2>3, <2>4
<1>7. QED
  BY <1>2, <1>5, <1>6

(* What a command knows after its step.                                      *)
LEMMA StepKnows ==
    ASSUME NEW t \in Tasks, LifecycleInv, WorkInv, Tidies,
           CommandStep(t) \/ RecordPR(t) \/ RecordReport(t) \/ Deliver(t) \/ Crash(t)
    PROVE  Knows(t)'
<1>1. Knows(t)
  BY DEF WorkInv
<1>2. CASE ReconcileStep(t)
  BY <1>1, <1>2, StartingKnows, WritingKnows, SettlingPaneKnows, SettlingLeaseKnows,
     SettlingCompletionKnows, ObservingActiveKnows DEF ReconcileStep
<1>3. CASE TeardownStep(t)
  BY <1>1, <1>3, BeginningKnows, TeardownKnows
<1>4. CASE PromoteStep(t)
  BY <1>1, <1>4, BeginningKnows, PromotionKnows DEF PromoteStep
<1>5. CASE ProvisionStep(t)
  BY <1>1, <1>5, BeginningKnows, GettingKnows, LaunchKnows DEF ProvisionStep
<1>6. CASE DropLock(t)
  BY <1>6, LeavingKnows DEF DropLock
<1>7. CASE RecordPR(t) \/ RecordReport(t) \/ Deliver(t)
  <2>1. cmd[t] = Idle /\ UNCHANGED cmd
    BY <1>7 DEF RecordPR, RecordReport, Deliver
  <2>2. Idle.op = "none" /\ Idle.pc = "idle"
    BY DEF Idle
  <2>3. QED
    BY <2>1, <2>2 DEF Knows
<1>8. CASE Crash(t)
  <2>1. cmd' = [cmd EXCEPT ![t] = Dead]
    BY <1>8 DEF Crash
  <2>2. PICK c : c = Dead
    OBVIOUS
  <2>3. c.op = "none" /\ c.pc = "dead"
    BY <2>2 DEF Dead, Idle
  <2>4. cmd'[t] = c
    BY <2>1, <2>2 DEF LifecycleInv, CommandsTyped
  <2>5. QED
    BY <2>3, <2>4 DEF Knows
<1>9. QED
  BY <1>2, <1>3, <1>4, <1>5, <1>6, <1>7, <1>8 DEF CommandStep

(* Worktrees change under nobody's hands, while agents rest.                 *)
LEMMA WorldWorks ==
    ASSUME Undisturbed, LifecycleInv, WorldStep
    PROVE  /\ \A l \in Leases : lease[l] # "held" => work'[l] = work[l]
           /\ work' = work \/ \A t \in Tasks : cmd[t].op = "none"
<1> USE DEF LifecycleInv
<1>1. work \in [Leases -> Worktree]
  BY DEF WorldTyped
<1>2. CASE UNCHANGED work
  BY <1>2
<1>3. ASSUME Calm, NEW l \in Leases, lease[l] = "held", NEW w, work' = [work EXCEPT ![l] = w]
      PROVE  /\ \A m \in Leases : lease[m] # "held" => work'[m] = work[m]
             /\ work' = work \/ \A t \in Tasks : cmd[t].op = "none"
  BY <1>1, <1>3 DEF Calm, Undisturbed
<1>4. ASSUME NEW p \in Panes, AgentWorks(p)
      PROVE  /\ \A m \in Leases : lease[m] # "held" => work'[m] = work[m]
             /\ work' = work \/ \A t \in Tasks : cmd[t].op = "none"
  <2>1. pane[p].state = "agent" => Opened(p)
    BY DEF Opened
  <2>2. pane[p].cwd \in Leases
    BY <1>4, <2>1 DEF AgentWorks, Recorded
  <2>3. PICK w : work' = [work EXCEPT ![pane[p].cwd] = w]
    BY <1>4 DEF AgentWorks
  <2>4. Calm /\ lease[pane[p].cwd] = "held"
    BY <1>4 DEF AgentWorks
  <2>5. QED
    BY <1>3, <2>2, <2>3, <2>4
<1>5. ASSUME NEW l \in Leases, OperatorRescues(l)
      PROVE  /\ \A m \in Leases : lease[m] # "held" => work'[m] = work[m]
             /\ work' = work \/ \A t \in Tasks : cmd[t].op = "none"
  BY <1>3, <1>5 DEF OperatorRescues
<1>6. QED
  BY <1>2, <1>4, <1>5 DEF WorldStep, WorkerExits, PaneTaken, AgentReports, AgentOpensPR,
     PRMerges, LeaseLost, LeaseTaken

LEMMA WorldKnows ==
    ASSUME Undisturbed, LifecycleInv, WorkInv, WorldStep
    PROVE  WorkInv'
<1>1. /\ attempt' = attempt /\ cmd' = cmd
      /\ \A l \in Leases : /\ Issued(l) => Issued(l)'
                           /\ lease'[l] = "held" => lease[l] = "held"
  BY WorldFades DEF WorldStep, storeVars, Fades, Moves
<1>2. \A l \in Leases : lease'[l] = "unissued" => Spotless(l)'
  <2>1. ASSUME NEW l \in Leases, lease'[l] = "unissued"
        PROVE  Spotless(l)'
    <3>1. lease[l] = "unissued"
      BY <1>1, <2>1 DEF Issued
    <3>2. work'[l] = work[l]
      BY <3>1, WorldWorks
    <3>3. QED
      BY <3>1, <3>2 DEF WorkInv, Spotless
  <2>2. QED
    BY <2>1
<1>3. ASSUME NEW t \in Tasks
      PROVE  Knows(t)'
  <2>1. Knows(t)
    BY DEF WorkInv
  <2>2. CASE cmd[t].op = "none"
    BY <1>1, <2>1, <2>2 DEF Knows
  <2>3. CASE cmd[t].op # "none"
    <3>1. work' = work
      BY <2>3, WorldWorks
    <3>2. ASSUME cmd[t].op = "reconcile", cmd[t].pc = "return_settled",
                 lease'[attempt[cmd[t].att].worktree] = "held"
          PROVE  lease[attempt[cmd[t].att].worktree] = "held"
      <4>1. cmd[t].pc \in WorktreePcs /\ cmd[t].pc \in ClosingPcs
        BY <3>2 DEF WorktreePcs, ClosingPcs
      <4>2. PICK l \in Leases : l = attempt[cmd[t].att].worktree
        BY <4>1, ClosingFacts
      <4>3. QED
        BY <1>1, <3>2, <4>2
    <3>3. QED
      BY <1>1, <2>1, <3>1, <3>2 DEF Knows, Spotless
  <2>4. QED
    BY <2>2, <2>3
<1>4. QED
  BY <1>2, <1>3 DEF WorkInv

LEMMA WorkInvInductive ==
    ASSUME Undisturbed, LifecycleInv, TaleInv, WorkInv, [LifecycleNext]_vars
    PROVE  WorkInv'
<1>1. LifecycleInv'
  BY LifecycleInvInductive DEF Kept
<1>2. CASE UNCHANGED vars
  <2>1. UNCHANGED <<attempt, lease, work, cmd>>
    BY <1>2 DEF vars
  <2>2. QED
    BY <2>1 DEF WorkInv, Knows, Spotless
<1>3. CASE WorldStep
  BY <1>3, WorldKnows
<1>4. ASSUME NEW t \in Tasks, CommandStep(t) \/ RecordPR(t) \/ RecordReport(t) \/ Deliver(t) \/ Crash(t)
      PROVE  WorkInv'
  <2>1. Tidies
    BY <1>4, StepTidies
  <2>2. Knows(t)'
    BY <1>4, <2>1, StepKnows
  <2>3. \A l \in Leases : /\ lease'[l] = "unissued" => lease[l] = "unissued"
                          /\ lease'[l] = "held" /\ Issued(l) => lease[l] = "held"
    <3>1. CASE GetLease(t)
      <4>1. lease \in [Leases -> {"unissued", "held", "free", "foreign"}]
        BY DEF LifecycleInv, WorldTyped
      <4>2. QED
        BY <3>1, <4>1 DEF GetLease, Issued
    <3>2. CASE Returning
      BY <3>2 DEF Returning
    <3>3. QED
      BY <1>4, <3>1, <3>2, StepReturns
  <2>4. \A l \in Leases : lease'[l] = "unissued" => Spotless(l)'
    BY <2>1, <2>3 DEF WorkInv, Tidies
  <2>5. ASSUME NEW s \in Tasks \ {t}
        PROVE  Knows(s)'
    <3>1. cmd'[s] = cmd[s]
      BY <1>4, StepTells DEF Heeds
    <3>2. \A a \in Attempts : attempt[a].owner # t => attempt'[a].worktree = attempt[a].worktree
      BY <1>4, StepSpares
    <3>3. Knows(s)
      BY DEF WorkInv
    <3>4. QED
      BY <2>1, <2>3, <3>1, <3>2, <3>3, OthersKnow
  <2>6. QED
    BY <2>2, <2>4, <2>5 DEF WorkInv
<1>5. QED
  BY <1>2, <1>3, <1>4 DEF LifecycleNext

LEMMA WorkInvInitially == LifecycleInit => WorkInv
<1> SUFFICES ASSUME LifecycleInit
             PROVE  WorkInv
  OBVIOUS
<1>1. \A l \in Leases : work[l] = Fresh
  BY DEF LifecycleInit, WorldInit
<1>2. Fresh.dirt = "clean" /\ Fresh.commits # "local"
  BY DEF Fresh
<1>3. Idle.pc = "idle" /\ Idle.op = "none"
  BY DEF Idle
<1>4. \A t \in Tasks : cmd[t].pc = "idle" /\ cmd[t].op = "none"
  BY <1>3 DEF LifecycleInit, WorldInit
<1>5. QED
  BY <1>1, <1>2, <1>4 DEF WorkInv, Knows, Spotless

(* A step that takes a worktree back takes back nothing that would be lost.  *)
LEMMA TakesNothing ==
    ASSUME LifecycleInv, TaleInv, WorkInv, [LifecycleNext]_vars,
           NEW t \in Tasks, NEW l \in Leases, cmd[t].op = "reconcile", Frees(t, l)
    PROVE  ~OnlyCopy(work[l])
<1>1. Loses(l) /\ cmd'[t] # cmd[t]
  BY DEF Frees, Loses
<1>2. cmd' # cmd
  BY <1>1
<1>3. PICK s \in Tasks : CommandStep(s) \/ RecordPR(s) \/ RecordReport(s) \/ Deliver(s) \/ Crash(s)
  BY <1>2 DEF LifecycleNext, WorldStep, vars
<1>4. s = t
  BY <1>1, <1>3, StepTells DEF Heeds
<1>5. Knows(t) /\ cmd[t].pc \in ReconcilePcs
  BY DEF WorkInv, Knows
<1>6. cmd[t].pc \notin {"return", "scout_return"}
  BY <1>5 DEF ReconcilePcs, SettlingPcs, LaunchPcs, LeasePcs, RunPcs
<1>7. Spotless(l)
  <2>1. CASE cmd[t].pc = "return_lease" /\ l = cmd[t].lease
    <3>1. cmd[t].pc \in LeasePcs
      BY <2>1 DEF LeasePcs
    <3>2. QED
      BY <1>5, <2>1, <3>1 DEF Knows
  <2>2. CASE cmd[t].pc = "return_settled" /\ l = attempt[cmd[t].att].worktree
    BY <1>1, <1>5, <2>2 DEF Knows, Loses
  <2>3. QED
    BY <1>1, <1>3, <1>4, <1>6, <2>1, <2>2, StepTidies
<1>8. QED
  BY <1>7 DEF Spotless, OnlyCopy

(* While agents rest and nobody rescues anything under a running command, a  *)
(* reconciliation gives back only worktrees that hold nothing: those it took *)
(* itself, and those it has just found clean and published.                  *)
THEOREM ReconcileKeepsWorkAlways == Undisturbed => (LifecycleSpec => ReconcileKeepsWork)
<1>1. ASSUME Undisturbed
      PROVE  LifecycleSpec => ReconcileKeepsWork
  <2>1. LifecycleInv /\ TaleInv /\ WorkInv /\ [LifecycleNext]_vars => WorkInv'
    BY <1>1, WorkInvInductive
  <2>2. LifecycleInv /\ TaleInv /\ WorkInv /\ [LifecycleNext]_vars =>
            [\A t \in Tasks, l \in Leases :
                cmd[t].op = "reconcile" /\ Frees(t, l) => ~OnlyCopy(work[l])]_vars
    BY TakesNothing
  <2>3. QED
    BY <2>1, <2>2, WorkInvInitially, LifecycleInvAlways, TaleInvAlways, PTL
       DEF LifecycleSpec, ReconcileKeepsWork
<1>2. QED
  BY <1>1

-----------------------------------------------------------------------------
(* A teardown takes back nothing that its guard would have kept.             *)

HoldPcs ==
    {"recover", "examine", "merge_state", "decide", "finish", "claim_pane", "close",
     "closed", "claim_lease", "return", "return_ok", "return_aborted", "return_error",
     "facts", "append", "appended"}

Bare(l) == WorkIn(l).commits # "local"
Edited(l) == WorkIn(l).dirt = "dirty"

(* Why commits that exist nowhere else may go.                               *)
Landed(t, l) ==
    \/ Bare(l) \/ task[t].kind = "scout" \/ "delivered" \in task[t].facts
    \/ pr[t] = "merged"

Busy(a, pcs) == \E t \in Tasks : cmd[t].att = a /\ cmd[t].pc \in pcs
Agent(p) == pane[p].state = "agent"
Staffed(a) == attempt[a].herdr # NoPane /\ Agent(attempt[a].herdr)
Ending(a) == attempt[a].life \in LiveStates /\ attempt[a].decided # ""

(* Nobody worked in the worktree of an attempt that was not submitted.       *)
Untouched(a) == ~attempt[a].submitted => Bare(attempt[a].worktree)

(* Its worker is being started, or closed again.                             *)
Starting(a) == ~attempt[a].submitted /\ Staffed(a) => Busy(a, {"submit", "close_pane"})

(* Once it is decided that an attempt ends, the command that decided closes  *)
(* its pane: no worker outlives the decision.                                *)
PartingPcs(a) ==
    IF attempt[a].settle["herdr"] = "" THEN {"claim_pane"} ELSE {"close", "closed"}
Parting(a) == Ending(a) /\ PaneUnsettled(a) => Busy(a, PartingPcs(a))

(* What the guard saw still covers the worktree.                             *)
Covered(a) ==
    Ending(a) /\ attempt[a].disposition # "forced" =>
        /\ Landed(attempt[a].owner, attempt[a].worktree)
        /\ attempt[a].disposition = "completed-safe-dirt" => ~Edited(attempt[a].worktree)

Guarded(a) == Untouched(a) /\ Starting(a) /\ Parting(a) /\ Covered(a)

Launchers == {"spawn", "reopen", "promote"}

(* What a command knows of the work.                                         *)
Sees(t) ==
    /\ cmd[t].op \in {"none", "teardown"} \union Launchers
    /\ cmd[t].op = "none" => cmd[t].pc = "idle"
    /\ cmd[t].op \in Launchers => cmd[t].pc \in ShipPcs
    /\ cmd[t].op = "teardown" =>
          /\ cmd[t].pc \in HoldPcs
          /\ attempt[cmd[t].att].life \in LiveStates
          /\ task[t].kind = "scout" => cmd[t].kind = "scout"
          /\ cmd[t].safe => ~Edited(attempt[cmd[t].att].worktree)
          /\ cmd[t].pc = "decide" /\ ~cmd[t].force => Landed(t, attempt[cmd[t].att].worktree)
    /\ cmd[t].pc = "record" => Bare(cmd[t].lease)

GuardInv ==
    /\ \A a \in Attempts : Guarded(a)
    /\ \A t \in Tasks : Sees(t)
    /\ \A l \in Leases : lease[l] = "unissued" => Bare(l)

-----------------------------------------------------------------------------
(* Worktrees lose commits and edits, and gain none.                          *)
Softens == \A l \in Leases : (Bare(l) => Bare(l)') /\ (Edited(l)' => Edited(l))

(* Nothing that stood for landed work is withdrawn.                          *)
Favours(t) ==
    /\ task[t].kind = "scout" => task'[t].kind = "scout"
    /\ "delivered" \in task[t].facts => "delivered" \in task'[t].facts
    /\ pr[t] = "merged" => pr'[t] = "merged"

LEMMA Softened ==
    ASSUME Softens, NEW l
    PROVE  (Bare(l) => Bare(l)') /\ (Edited(l)' => Edited(l))
<1>1. CASE l \in Leases
  BY <1>1 DEF Softens
<1>2. CASE l \notin Leases
  BY <1>2 DEF Bare, Edited, WorkIn, Fresh
<1>3. QED
  BY <1>1, <1>2

LEMMA LandedStays ==
    ASSUME Softens, NEW t, Favours(t), NEW l, Landed(t, l)
    PROVE  Landed(t, l)'
<1>1. Bare(l) => Bare(l)'
  BY Softened
<1>2. QED
  BY <1>1 DEF Landed, Favours

(* The commands that act on one attempt are one command.                     *)
ActingPcs == {"submit", "close_pane", "claim_pane", "close", "closed"}

LEMMA BusyWho ==
    ASSUME NEW t \in Tasks, LifecycleInv, NEW pcs, pcs \subseteq ActingPcs,
           NEW a \in Attempts, attempt[a].owner = t, Busy(a, pcs)
    PROVE  cmd[t].att = a /\ cmd[t].pc \in pcs
<1>1. PICK s \in Tasks : cmd[s].att = a /\ cmd[s].pc \in pcs
  BY DEF Busy
<1>2. cmd[s].pc \notin FreePcs
  BY <1>1 DEF ActingPcs, FreePcs
<1>3. attempt[cmd[s].att].owner = s
  BY <1>2 DEF LifecycleInv, Stages, Stage, ClosingStage
<1>4. QED
  BY <1>1, <1>3

(* The row of an attempt that the step leaves as it is, or that has ended.   *)
LEMMA RowStays ==
    ASSUME NEW b \in Attempts, LifecycleInv, Guarded(b), Softens,
           attempt'[b].worktree = attempt[b].worktree,
           attempt'[b].herdr = attempt[b].herdr,
           attempt'[b].submitted = attempt[b].submitted,
           attempt[b].herdr # NoPane =>
               (pane'[attempt[b].herdr].state = "agent" => pane[attempt[b].herdr].state = "agent"),
           \/ attempt'[b] = attempt[b] /\ (Ending(b) => Favours(attempt[b].owner))
           \/ attempt'[b].life \notin LiveStates,
           \A s \in Tasks : cmd[s].att = b => cmd'[s] = cmd[s]
    PROVE  Guarded(b)'
<1>1. PICK l : l = attempt[b].worktree
  OBVIOUS
<1>2. (Bare(l) => Bare(l)') /\ (Edited(l)' => Edited(l))
  BY Softened
<1>3. Untouched(b)'
  BY <1>1, <1>2 DEF Guarded, Untouched, Bare, WorkIn
<1>4. Staffed(b)' => Staffed(b)
  BY DEF Staffed, Agent
<1>5. Busy(b, {"submit", "close_pane"}) => Busy(b, {"submit", "close_pane"})'
  BY DEF Busy
<1>6. Starting(b)'
  BY <1>4, <1>5 DEF Guarded, Starting
<1>7. CASE attempt'[b] = attempt[b] /\ (Ending(b) => Favours(attempt[b].owner))
  <2>1. Busy(b, PartingPcs(b)) => Busy(b, PartingPcs(b))'
    BY <1>7 DEF Busy, PartingPcs
  <2>2. Parting(b)'
    BY <1>7, <2>1 DEF Guarded, Parting, Ending, PaneUnsettled
  <2>3. PICK t : t = attempt[b].owner
    OBVIOUS
  <2>4. Ending(b) => (Landed(t, l) => Landed(t, l)')
    BY <1>7, <2>3, LandedStays
  <2>5. Covered(b)'
    BY <1>1, <1>2, <1>7, <2>3, <2>4
       DEF Guarded, Covered, Ending, Landed, Edited, Bare, WorkIn
  <2>6. QED
    BY <1>3, <1>6, <2>2, <2>5 DEF Guarded
<1>8. CASE attempt'[b].life \notin LiveStates
  BY <1>3, <1>6, <1>8 DEF Guarded, Parting, Covered, Ending
<1>9. QED
  BY <1>7, <1>8

(* The row a step changes: what it was provisioned with.                     *)
LEMMA StillUntouched ==
    ASSUME NEW a \in Attempts, Untouched(a), Softens,
           attempt[a].submitted => attempt'[a].submitted,
           attempt'[a].worktree = attempt[a].worktree
    PROVE  Untouched(a)'
<1>1. PICK l : l = attempt[a].worktree
  OBVIOUS
<1>2. Bare(l) => Bare(l)'
  BY Softened
<1>3. QED
  BY <1>1, <1>2 DEF Untouched, Bare, WorkIn

LEMMA StillStarting ==
    ASSUME NEW t \in Tasks, LifecycleInv, NEW a \in Attempts, attempt[a].owner = t, Starting(a),
           cmd[t].pc \notin {"submit", "close_pane"},
           attempt[a].submitted => attempt'[a].submitted,
           attempt'[a].herdr = attempt[a].herdr,
           attempt[a].herdr # NoPane =>
               (pane'[attempt[a].herdr].state = "agent" => pane[attempt[a].herdr].state = "agent")
    PROVE  Starting(a)'
<1>1. ~Busy(a, {"submit", "close_pane"})
  BY BusyWho DEF ActingPcs
<1>2. attempt[a].submitted \/ ~Staffed(a)
  BY <1>1 DEF Starting
<1>3. QED
  BY <1>2 DEF Starting, Staffed, Agent

-----------------------------------------------------------------------------
(* A row that is none of the step's business.                                *)
Aside(t, b) ==
    /\ cmd[t].att # b
    /\ attempt'[b].worktree = attempt[b].worktree
    /\ attempt'[b].herdr = attempt[b].herdr
    /\ attempt'[b].submitted = attempt[b].submitted
    /\ attempt[b].herdr # NoPane =>
          (pane'[attempt[b].herdr].state = "agent" => pane[attempt[b].herdr].state = "agent")
    /\ \/ attempt'[b] = attempt[b] /\ (attempt[b].owner = t /\ Ending(b) => Favours(t))
       \/ attempt'[b].life \notin LiveStates

(* What every step of a command leaves alone.                                *)
Steps(t) ==
    /\ \A s \in Tasks \ {t} : cmd'[s] = cmd[s] /\ task'[s] = task[s]
    /\ pr' = pr /\ Softens
    /\ \A l \in Leases : lease'[l] = "unissued" => lease[l] = "unissued"

LEMMA StepGuards ==
    ASSUME NEW t \in Tasks, LifecycleInv, GuardInv, Steps(t), Sees(t)',
           \A b \in Attempts : attempt[b].owner \in Tasks \ {t} => attempt'[b] = attempt[b],
           \A b \in Attempts : Guarded(b)' \/ Aside(t, b)
    PROVE  GuardInv'
<1>1. Softens
  BY DEF Steps
<1>2. ASSUME NEW b \in Attempts, Aside(t, b)
      PROVE  Guarded(b)'
  <2>1. Guarded(b)
    BY DEF GuardInv
  <2>2. \A s \in Tasks : cmd[s].att = b => cmd'[s] = cmd[s]
    BY <1>2 DEF Aside, Steps
  <2>3. Ending(b) => attempt[b].owner \in Tasks
    BY DEF Ending, LifecycleInv, StoreInv, OneOwner
  <2>4. attempt[b].owner \in Tasks \ {t} => Favours(attempt[b].owner)
    BY DEF Steps, Favours
  <2>5. \/ attempt'[b] = attempt[b] /\ (Ending(b) => Favours(attempt[b].owner))
        \/ attempt'[b].life \notin LiveStates
    BY <1>2, <2>3, <2>4 DEF Aside
  <2>6. /\ attempt'[b].worktree = attempt[b].worktree
        /\ attempt'[b].herdr = attempt[b].herdr
        /\ attempt'[b].submitted = attempt[b].submitted
        /\ attempt[b].herdr # NoPane =>
              (pane'[attempt[b].herdr].state = "agent" => pane[attempt[b].herdr].state = "agent")
    BY <1>2 DEF Aside
  <2>7. QED
    BY <1>1, <2>1, <2>2, <2>5, <2>6, RowStays
<1>3. ASSUME NEW s \in Tasks \ {t}
      PROVE  Sees(s)'
  <2>1. cmd'[s] = cmd[s] /\ task'[s] = task[s] /\ pr' = pr /\ Sees(s)
    BY DEF Steps, GuardInv
  <2>2. Bare(cmd[s].lease) => Bare(cmd[s].lease)'
    <3>1. PICK l : l = cmd[s].lease
      OBVIOUS
    <3>2. QED
      BY <1>1, <2>1, <3>1, Softened DEF Bare, WorkIn
  <2>3. CASE cmd[s].op = "teardown"
    <3>1. cmd[s].pc \in GuardPcs \union ClosingPcs
      BY <2>1, <2>3 DEF Sees, HoldPcs, GuardPcs, ClosingPcs, PanePcs, WorktreePcs, RecordPcs
    <3>2. PICK b \in Attempts : b = cmd[s].att /\ attempt[b].owner = s
      BY <3>1, ClosingFacts
    <3>3. attempt'[b] = attempt[b]
      BY <3>2
    <3>4. PICK l : l = attempt[b].worktree
      OBVIOUS
    <3>5. (Bare(l) => Bare(l)') /\ (Edited(l)' => Edited(l))
      BY <1>1, Softened
    <3>6. Favours(s)
      BY <2>1 DEF Favours
    <3>7. Landed(s, l) => Landed(s, l)'
      BY <1>1, <3>6, LandedStays
    <3>8. cmd[s].pc # "record"
      BY <2>1, <2>3 DEF Sees, HoldPcs
    <3>9. Landed(s, attempt[cmd[s].att].worktree) => Landed(s, attempt[cmd[s].att].worktree)'
      BY <2>1, <3>2, <3>3, <3>4, <3>7 DEF Landed, Bare, WorkIn
    <3>10. ~Edited(attempt[cmd[s].att].worktree) => ~Edited(attempt[cmd[s].att].worktree)'
      BY <2>1, <3>2, <3>3, <3>4, <3>5 DEF Edited, WorkIn
    <3>11. QED
      BY <2>1, <2>3, <3>2, <3>3, <3>8, <3>9, <3>10 DEF Sees
  <2>4. CASE cmd[s].op # "teardown"
    BY <2>1, <2>2, <2>4 DEF Sees
  <2>5. QED
    BY <2>3, <2>4
<1>4. ASSUME NEW l \in Leases, lease'[l] = "unissued"
      PROVE  Bare(l)'
  BY <1>1, <1>4 DEF Steps, GuardInv, Softens
<1>5. QED
  BY <1>2, <1>3, <1>4 DEF GuardInv

(* A step of a command on its own attempt.                                   *)
LEMMA OwnStep ==
    ASSUME NEW t \in Tasks, LifecycleInv, GuardInv, Steps(t), Sees(t)', Favours(t),
           NEW a \in Attempts, a = cmd[t].att, attempt[a].owner = t,
           Guarded(a)',
           \A b \in Attempts \ {a} : attempt'[b] = attempt[b],
           \A b \in Attempts \ {a} : attempt[b].herdr # NoPane =>
               (pane'[attempt[b].herdr].state = "agent" => pane[attempt[b].herdr].state = "agent")
    PROVE  GuardInv'
<1>1. \A b \in Attempts \ {a} : Aside(t, b)
  BY DEF Aside
<1>2. \A b \in Attempts : attempt[b].owner \in Tasks \ {t} => attempt'[b] = attempt[b]
  OBVIOUS
<1>3. QED
  BY <1>1, <1>2, StepGuards

(* Where a command goes, column by column.                                   *)
LEMMA GotoColumns ==
    ASSUME NEW t \in Tasks, LifecycleInv, NEW pc, Goto(t, pc)
    PROVE  /\ cmd'[t].pc = pc
           /\ cmd'[t].op = cmd[t].op /\ cmd'[t].att = cmd[t].att
           /\ cmd'[t].lease = cmd[t].lease /\ cmd'[t].pane = cmd[t].pane
           /\ cmd'[t].force = cmd[t].force /\ cmd'[t].safe = cmd[t].safe
           /\ cmd'[t].kind = cmd[t].kind
           /\ \A s \in Tasks \ {t} : cmd'[s] = cmd[s]
<1>1. cmd \in [Tasks -> Command] /\ cmd[t] \in Command
  BY DEF LifecycleInv, CommandsTyped
<1>2. PICK c : c = [cmd[t] EXCEPT !.pc = pc]
  OBVIOUS
<1>3. /\ c.pc = pc /\ c.op = cmd[t].op /\ c.att = cmd[t].att /\ c.lease = cmd[t].lease
      /\ c.pane = cmd[t].pane /\ c.force = cmd[t].force /\ c.safe = cmd[t].safe
      /\ c.kind = cmd[t].kind
  BY <1>1, <1>2 DEF Command
<1>4. cmd' = [cmd EXCEPT ![t] = c]
  BY <1>2 DEF Goto
<1>5. QED
  BY <1>1, <1>3, <1>4

(* One that has left knows nothing.                                          *)
LEMMA LeavingSees ==
    ASSUME NEW t \in Tasks, LifecycleInv, Leave(t)
    PROVE  Sees(t)'
<1>1. cmd'[t].pc = "idle" /\ cmd'[t].op = "none"
  BY LeaveFacts
<1>2. QED
  BY <1>1 DEF Sees, Launchers

(* A launch goes on.                                                         *)
LEMMA LaunchingSees ==
    ASSUME NEW t \in Tasks, LifecycleInv, cmd[t].op \in Launchers,
           NEW pc \in ShipPcs \ {"record"}, Goto(t, pc)
    PROVE  Sees(t)'
<1>1. cmd'[t].pc = pc /\ cmd'[t].op = cmd[t].op
  BY GotoColumns
<1>2. QED
  BY <1>1 DEF Sees, Launchers

(* A teardown goes on.                                                       *)
LEMMA HoldingSees ==
    ASSUME NEW t \in Tasks, LifecycleInv, Sees(t), Softens, cmd[t].op = "teardown",
           NEW pc \in HoldPcs, Goto(t, pc),
           attempt'[cmd[t].att].worktree = attempt[cmd[t].att].worktree,
           attempt'[cmd[t].att].life \in LiveStates,
           task'[t].kind = "scout" => task[t].kind = "scout",
           pc = "decide" /\ ~cmd[t].force => Landed(t, attempt[cmd[t].att].worktree)'
    PROVE  Sees(t)'
<1>1. /\ cmd'[t].pc = pc /\ cmd'[t].op = cmd[t].op /\ cmd'[t].att = cmd[t].att
      /\ cmd'[t].force = cmd[t].force /\ cmd'[t].safe = cmd[t].safe
      /\ cmd'[t].kind = cmd[t].kind
  BY GotoColumns
<1>2. pc # "record"
  BY DEF HoldPcs
<1>3. PICK l : l = attempt[cmd[t].att].worktree
  OBVIOUS
<1>4. Edited(l)' => Edited(l)
  BY Softened
<1>5. cmd[t].safe => ~Edited(attempt[cmd[t].att].worktree)'
  BY <1>1, <1>3, <1>4 DEF Sees, Edited, WorkIn
<1>6. cmd[t].pc \in HoldPcs /\ (task[t].kind = "scout" => cmd[t].kind = "scout")
  BY DEF Sees
<1>7. QED
  BY <1>1, <1>2, <1>5, <1>6 DEF Sees, Launchers

-----------------------------------------------------------------------------
(* A launch.                                                                 *)

LEMMA LaunchOp ==
    ASSUME NEW t \in Tasks, Sees(t), cmd[t].pc \in ShipPcs
    PROVE  cmd[t].op \in Launchers
BY DEF Sees, HoldPcs, ShipPcs, ScoutPcs, ScoutPanePcs, ScoutLeasePcs, LaunchPcs, LeasePcs, RunPcs

(* An attempt nobody has decided about.                                      *)
LEMMA OpenRow ==
    ASSUME NEW a \in Attempts, attempt'[a].decided = "", Untouched(a)', Starting(a)'
    PROVE  Guarded(a)'
BY DEF Guarded, Parting, Covered, Ending

LEMMA LaunchingRow ==
    ASSUME NEW t \in Tasks, LifecycleInv, cmd[t].pc \in ShipPcs
    PROVE  \E a \in Attempts : /\ a = cmd[t].att /\ attempt[a].owner = t
                               /\ attempt[a].decided = "" /\ attempt[a].life = "provisioning"
                               /\ attempt[a] \in AttemptRow
<1>1. cmd[t].pc \notin FreePcs
  BY DEF ShipPcs, ScoutPcs, ScoutPanePcs, ScoutLeasePcs, LaunchPcs, FreePcs, LeasePcs, RunPcs
<1>2. CommandOK(t) /\ Stage(t)
  BY DEF LifecycleInv, CommandsTyped, Stages
<1>3. cmd[t].att \in Attempts
  BY <1>1, <1>2 DEF CommandOK
<1>4. QED
  BY <1>1, <1>2, <1>3, RowFacts DEF Stage, ClosingStage, LaunchStage

(* The steps of a launch that leave its row, and start nobody.               *)
LEMMA ShippingGuards ==
    ASSUME NEW t \in Tasks, LifecycleInv, GuardInv, Steps(t), Sees(t)',
           cmd[t].pc \in ShipPcs \ {"submit", "close_pane"},
           task' = task, attempt'[cmd[t].att] = attempt[cmd[t].att],
           \A b \in Attempts :
               \/ attempt'[b] = attempt[b]
               \/ /\ attempt[b].owner = t
                  /\ attempt'[b].life \notin LiveStates
                  /\ attempt'[b].worktree = attempt[b].worktree
                  /\ attempt'[b].herdr = attempt[b].herdr
                  /\ attempt'[b].submitted = attempt[b].submitted,
           \A p \in Panes : pane'[p].state = "agent" => pane[p].state = "agent"
    PROVE  GuardInv'
<1>1. PICK a \in Attempts : a = cmd[t].att /\ attempt[a].owner = t /\ attempt[a].decided = ""
  BY LaunchingRow
<1>2. \A b \in Attempts : attempt[b].herdr # NoPane =>
          (pane'[attempt[b].herdr].state = "agent" => pane[attempt[b].herdr].state = "agent")
  BY RowFacts
<1>3. Untouched(a)'
  BY <1>1, StillUntouched DEF GuardInv, Guarded, Steps
<1>4. Starting(a)'
  BY <1>1, <1>2, StillStarting DEF GuardInv, Guarded
<1>5. Guarded(a)'
  BY <1>1, <1>3, <1>4, OpenRow
<1>6. Favours(t)
  BY DEF Favours, Steps
<1>7. \A b \in Attempts \ {a} : Aside(t, b)
  BY <1>1, <1>2, <1>6 DEF Aside
<1>8. \A b \in Attempts : attempt[b].owner \in Tasks \ {t} => attempt'[b] = attempt[b]
  OBVIOUS
<1>9. QED
  BY <1>5, <1>7, <1>8, StepGuards

LEMMA LookingLaunchGuards ==
    ASSUME NEW t \in Tasks, LifecycleInv, GuardInv, Steps(t), Sees(t)',
           cmd[t].pc \in ShipPcs \ {"submit", "close_pane"}, UNCHANGED storeVars,
           \A p \in Panes : pane'[p].state = "agent" => pane[p].state = "agent"
    PROVE  GuardInv'
BY ShippingGuards DEF storeVars

(* What is handed back to Treehouse holds nothing afterwards.                *)
LEMMA ReturnSoftens ==
    ASSUME LifecycleInv, NEW l, NEW force, NEW result, ReturnLease(l, force, result)
    PROVE  /\ Softens /\ UNCHANGED <<pane, pr>>
           /\ \A m \in Leases : lease'[m] = "unissued" => lease[m] = "unissued"
<1>1. work \in [Leases -> Worktree] /\ lease \in [Leases -> {"unissued", "held", "free", "foreign"}]
  BY DEF LifecycleInv, WorldTyped
<1>2. CASE Returned(l)
  <2>1. \A m \in Leases : work'[m] = work[m] \/ work'[m] = Fresh
    BY <1>1, <1>2 DEF Returned
  <2>2. Fresh.commits # "local" /\ Fresh.dirt # "dirty"
    BY DEF Fresh
  <2>3. ASSUME NEW m \in Leases
        PROVE  (Bare(m) => Bare(m)') /\ (Edited(m)' => Edited(m))
    <3>1. CASE work'[m] = work[m]
      BY <3>1 DEF Bare, Edited, WorkIn
    <3>2. CASE work'[m] = Fresh
      BY <2>2, <3>2 DEF Bare, Edited, WorkIn
    <3>3. QED
      BY <2>1, <3>1, <3>2
  <2>4. \A m \in Leases : lease'[m] = "unissued" => lease[m] = "unissued"
    BY <1>1, <1>2 DEF Returned
  <2>5. QED
    BY <1>2, <2>3, <2>4 DEF Returned, Softens
<1>3. CASE UNCHANGED external
  BY <1>3 DEF external, Softens, Bare, Edited, WorkIn
<1>4. QED
  BY <1>2, <1>3 DEF ReturnLease

LEMMA StillSoft ==
    ASSUME UNCHANGED work
    PROVE  Softens
BY DEF Softens, Bare, Edited, WorkIn

(* A launch that fails goes on, or leaves.                                   *)
LEMMA FailingSees ==
    ASSUME NEW t \in Tasks, LifecycleInv, cmd[t].op \in Launchers, FailWithoutPane(t)
    PROVE  Sees(t)' /\ \A s \in Tasks \ {t} : cmd'[s] = cmd[s]
<1>1. CASE Leave(t)
  BY <1>1, LeavingSees, LeaveFacts
<1>2. CASE Goto(t, "return_lease")
  <2>1. "return_lease" \in ShipPcs \ {"record"}
    BY DEF ShipPcs, LaunchPcs, LeasePcs
  <2>2. QED
    BY <1>2, <2>1, LaunchingSees, GotoColumns
<1>3. QED
  BY <1>1, <1>2 DEF FailWithoutPane

LEMMA MovingSees ==
    ASSUME NEW t \in Tasks, LifecycleInv, cmd[t].op \in Launchers,
           NEW pc \in {"check", "pane", "run", "submit", "confirm", "confirmed", "running",
                       "close_pane", "clear_pane", "clear_lease"}, Goto(t, pc)
    PROVE  Sees(t)' /\ \A s \in Tasks \ {t} : cmd'[s] = cmd[s]
<1>1. pc \in ShipPcs \ {"record"}
  BY DEF ShipPcs, LaunchPcs, LeasePcs, RunPcs
<1>2. QED
  BY <1>1, LaunchingSees, GotoColumns

LEMMA CheckGuards ==
    ASSUME NEW t \in Tasks, LifecycleInv, GuardInv,
           CheckWorktree(t) \/ ConfirmWorker(t) \/ ReturnProvisioned(t)
    PROVE  GuardInv'
<1>1. cmd[t].pc \in ShipPcs \ {"submit", "close_pane"} /\ cmd[t].pc \in ShipPcs
  BY DEF CheckWorktree, ConfirmWorker, ReturnProvisioned, At, ShipPcs, LaunchPcs, LeasePcs, RunPcs
<1>2. cmd[t].op \in Launchers
  BY <1>1, LaunchOp DEF GuardInv
<1>3. Sees(t)' /\ \A s \in Tasks \ {t} : cmd'[s] = cmd[s]
  <2>1. Leave(t) => Sees(t)' /\ \A s \in Tasks \ {t} : cmd'[s] = cmd[s]
    BY LeavingSees, LeaveFacts
  <2>2. QED
    BY <1>2, <2>1, FailingSees, MovingSees DEF CheckWorktree, ConfirmWorker, ReturnProvisioned
<1>4. /\ UNCHANGED storeVars /\ Softens /\ UNCHANGED <<pane, pr>>
      /\ \A m \in Leases : lease'[m] = "unissued" => lease[m] = "unissued"
  <2>1. CASE CheckWorktree(t) \/ ConfirmWorker(t)
    <3>1. UNCHANGED storeVars /\ UNCHANGED external
      BY <2>1 DEF CheckWorktree, ConfirmWorker, LocalOnly
    <3>2. QED
      BY <3>1, StillSoft DEF external
  <2>2. CASE ReturnProvisioned(t)
    <3>1. UNCHANGED storeVars /\ \E result : ReturnLease(cmd[t].lease, TRUE, result)
      BY <2>2 DEF ReturnProvisioned, WorldOnly
    <3>2. QED
      BY <3>1, ReturnSoftens
  <2>3. QED
    BY <2>1, <2>2
<1>5. Steps(t)
  BY <1>3, <1>4 DEF Steps, storeVars
<1>6. QED
  BY <1>1, <1>3, <1>4, <1>5, LookingLaunchGuards

LEMMA GetGuards ==
    ASSUME NEW t \in Tasks, LifecycleInv, GuardInv, GetLease(t)
    PROVE  GuardInv'
<1>1. cmd[t].pc = "get" /\ cmd[t].pc \in ShipPcs \ {"submit", "close_pane"} /\ cmd[t].pc \in ShipPcs
  BY DEF GetLease, At, ShipPcs, LaunchPcs
<1>2. cmd[t].op \in Launchers
  BY <1>1, LaunchOp DEF GuardInv
<1>3. UNCHANGED storeVars /\ UNCHANGED <<work, pane, pr>>
  BY DEF GetLease, WorldOnly
<1>4. lease \in [Leases -> {"unissued", "held", "free", "foreign"}]
      /\ cmd \in [Tasks -> Command] /\ cmd[t] \in Command
  BY DEF LifecycleInv, WorldTyped, CommandsTyped
<1>5. /\ Sees(t)' /\ \A s \in Tasks \ {t} : cmd'[s] = cmd[s]
      /\ \A m \in Leases : lease'[m] = "unissued" => lease[m] = "unissued"
  <2>1. CASE Leave(t) /\ UNCHANGED lease
    BY <2>1, LeavingSees, LeaveFacts
  <2>2. ASSUME NEW l \in Leases, lease[l] = "unissued", lease' = [lease EXCEPT ![l] = "held"],
               cmd' = [cmd EXCEPT ![t].lease = l, ![t].pc = "record"]
        PROVE  /\ Sees(t)' /\ \A s \in Tasks \ {t} : cmd'[s] = cmd[s]
               /\ \A m \in Leases : lease'[m] = "unissued" => lease[m] = "unissued"
    <3>1. PICK c : c = [cmd[t] EXCEPT !.lease = l, !.pc = "record"]
      OBVIOUS
    <3>2. c.pc = "record" /\ c.op = cmd[t].op /\ c.lease = l
      BY <1>4, <3>1 DEF Command
    <3>3. cmd' = [cmd EXCEPT ![t] = c]
      BY <1>4, <2>2, <3>1
    <3>4. cmd'[t] = c /\ \A s \in Tasks \ {t} : cmd'[s] = cmd[s]
      BY <1>4, <3>3
    <3>5. Bare(l)'
      BY <1>3, <2>2 DEF GuardInv, Bare, WorkIn
    <3>6. "record" \in ShipPcs
      BY DEF ShipPcs, LaunchPcs, LeasePcs
    <3>7. Sees(t)'
      BY <1>2, <3>2, <3>4, <3>5, <3>6 DEF Sees, Launchers, Bare, WorkIn
    <3>8. QED
      BY <1>4, <2>2, <3>4, <3>7
  <2>3. QED
    BY <2>1, <2>2 DEF GetLease
<1>6. Steps(t)
  BY <1>3, <1>5, StillSoft DEF Steps, storeVars
<1>7. QED
  BY <1>1, <1>3, <1>5, <1>6, LookingLaunchGuards

LEMMA OpenGuards ==
    ASSUME NEW t \in Tasks, LifecycleInv, GuardInv, OpenPane(t)
    PROVE  GuardInv'
<1>1. cmd[t].pc \in ShipPcs \ {"submit", "close_pane"} /\ cmd[t].pc \in ShipPcs
  BY DEF OpenPane, At, ShipPcs, LaunchPcs, LeasePcs
<1>2. cmd[t].op \in Launchers
  BY <1>1, LaunchOp DEF GuardInv
<1>3. UNCHANGED storeVars /\ UNCHANGED <<lease, work, pr>>
  BY DEF OpenPane, WorldOnly
<1>4. /\ pane \in [Panes -> [state : {"unissued", "shell", "agent", "gone", "foreign"},
                             cwd : Leases \union {NoLease}]]
      /\ cmd \in [Tasks -> Command] /\ cmd[t] \in Command
  BY DEF LifecycleInv, WorldTyped, CommandsTyped
<1>5. /\ Sees(t)' /\ \A s \in Tasks \ {t} : cmd'[s] = cmd[s]
      /\ \A q \in Panes : pane'[q].state = "agent" => pane[q].state = "agent"
  <2>1. CASE FailWithoutPane(t) /\ UNCHANGED pane
    BY <1>2, <2>1, FailingSees
  <2>2. ASSUME NEW p \in Panes, pane' = [pane EXCEPT ![p] = NewPane(cmd[t].lease)],
               cmd' = [cmd EXCEPT ![t].pane = p, ![t].pc = "herdr"]
        PROVE  /\ Sees(t)' /\ \A s \in Tasks \ {t} : cmd'[s] = cmd[s]
               /\ \A q \in Panes : pane'[q].state = "agent" => pane[q].state = "agent"
    <3>1. PICK c : c = [cmd[t] EXCEPT !.pane = p, !.pc = "herdr"]
      OBVIOUS
    <3>2. c.pc = "herdr" /\ c.op = cmd[t].op
      BY <1>4, <3>1 DEF Command
    <3>3. cmd' = [cmd EXCEPT ![t] = c]
      BY <1>4, <2>2, <3>1
    <3>4. cmd'[t] = c /\ \A s \in Tasks \ {t} : cmd'[s] = cmd[s]
      BY <1>4, <3>3
    <3>5. "herdr" \in ShipPcs
      BY DEF ShipPcs, LaunchPcs, LeasePcs
    <3>6. Sees(t)'
      BY <1>2, <3>2, <3>4, <3>5 DEF Sees, Launchers
    <3>7. NewPane(cmd[t].lease).state = "shell"
      BY DEF NewPane
    <3>8. \A q \in Panes : pane'[q].state = "agent" => pane[q].state = "agent"
      BY <1>4, <2>2, <3>7
    <3>9. QED
      BY <3>4, <3>6, <3>8
  <2>3. QED
    BY <2>1, <2>2 DEF OpenPane
<1>6. Steps(t)
  BY <1>3, <1>5, StillSoft DEF Steps, storeVars
<1>7. QED
  BY <1>1, <1>3, <1>5, <1>6, LookingLaunchGuards

(* The steps of a launch that write its row, or start and stop its worker.   *)
LEMMA ActingLaunchGuards ==
    ASSUME NEW t \in Tasks, LifecycleInv, GuardInv, Sees(t)',
           \A s \in Tasks \ {t} : cmd'[s] = cmd[s],
           NEW a \in Attempts, a = cmd[t].att, attempt[a].owner = t,
           \A b \in Attempts \ {a} : attempt'[b] = attempt[b],
           \A b \in Attempts \ {a} : attempt[b].herdr # NoPane =>
               (pane'[attempt[b].herdr].state = "agent" => pane[attempt[b].herdr].state = "agent"),
           task' = task, UNCHANGED <<lease, work, pr>>,
           attempt'[a].decided = "", Untouched(a)', Starting(a)'
    PROVE  GuardInv'
<1>1. Steps(t) /\ Favours(t)
  BY StillSoft DEF Steps, Favours
<1>2. Guarded(a)'
  BY OpenRow
<1>3. QED
  BY <1>1, <1>2, OwnStep

(* What a launch records, as one row.                                        *)
LEMMA LaunchWrites ==
    ASSUME NEW t \in Tasks, LifecycleInv, NEW a \in Attempts, a = cmd[t].att,
           attempt[a].decided = "",
           \/ RecordLease(t) \/ RecordPane(t) \/ RecordSubmitted(t) \/ RecordConfirmed(t)
           \/ RecordRunning(t) \/ ClearPane(t) \/ ClearLease(t)
    PROVE  /\ \A b \in Attempts \ {a} : attempt'[b] = attempt[b]
           /\ task' = task /\ UNCHANGED external
           /\ attempt'[a].decided = ""
           /\ attempt[a].submitted => attempt'[a].submitted
           /\ RecordSubmitted(t) => attempt'[a].submitted
           /\ attempt'[a].worktree = IF RecordLease(t) THEN cmd[t].lease
                                     ELSE IF ClearLease(t) THEN NoLease ELSE attempt[a].worktree
           /\ attempt'[a].herdr = IF RecordPane(t) THEN cmd[t].pane
                                  ELSE IF ClearPane(t) THEN NoPane ELSE attempt[a].herdr
<1>1. attempt \in [Attempts -> AttemptRow] /\ attempt[a] \in AttemptRow
  BY DEF LifecycleInv, StoreInv, StoreTypeOK
<1> DEFINE Here(pc) == cmd[t].pc = pc
<1>2. /\ RecordLease(t) => Here("record")
      /\ RecordPane(t) => Here("herdr")
      /\ RecordSubmitted(t) => Here("submit")
      /\ RecordConfirmed(t) => Here("confirmed")
      /\ RecordRunning(t) => Here("running")
      /\ ClearPane(t) => Here("clear_pane")
      /\ ClearLease(t) => Here("clear_lease")
  BY DEF RecordLease, RecordPane, RecordSubmitted, RecordConfirmed, RecordRunning, ClearPane,
     ClearLease, At
<1>3. task' = task /\ UNCHANGED external
  BY DEF RecordLease, RecordPane, RecordSubmitted, RecordConfirmed, RecordRunning, ClearPane,
     ClearLease, RecordAttemptWorktree, RecordAttemptHerdr, MarkLaunchSubmitted,
     MarkLaunchConfirmed, MarkAttemptRunning, ClearAttemptHerdr, ClearAttemptWorktree, StoreOnly
<1>4. CASE RecordLease(t)
  <2>1. attempt' = [attempt EXCEPT ![a].worktree = cmd[t].lease]
    BY <1>4 DEF RecordLease, RecordAttemptWorktree
  <2>2. QED
    BY <1>1, <1>2, <1>3, <1>4, <2>1 DEF AttemptRow
<1>5. CASE RecordPane(t)
  <2>1. attempt' = [attempt EXCEPT ![a].herdr = cmd[t].pane]
    BY <1>5 DEF RecordPane, RecordAttemptHerdr
  <2>2. QED
    BY <1>1, <1>2, <1>3, <1>5, <2>1 DEF AttemptRow
<1>6. CASE RecordSubmitted(t)
  <2>1. attempt' = [attempt EXCEPT ![a].submitted = TRUE]
    BY <1>6 DEF RecordSubmitted, MarkLaunchSubmitted
  <2>2. QED
    BY <1>1, <1>2, <1>3, <1>6, <2>1 DEF AttemptRow
<1>7. CASE RecordConfirmed(t)
  <2>1. attempt' = [attempt EXCEPT ![a].confirmed = TRUE]
    BY <1>7 DEF RecordConfirmed, MarkLaunchConfirmed
  <2>2. QED
    BY <1>1, <1>2, <1>3, <1>7, <2>1 DEF AttemptRow
<1>8. CASE RecordRunning(t)
  <2>1. attempt' = [attempt EXCEPT ![a].life = "running"]
    BY <1>8 DEF RecordRunning, MarkAttemptRunning
  <2>2. QED
    BY <1>1, <1>2, <1>3, <1>8, <2>1 DEF AttemptRow
<1>9. CASE ClearPane(t)
  <2>1. attempt' = [attempt EXCEPT ![a].herdr = NoPane]
    BY <1>9 DEF ClearPane, ClearAttemptHerdr
  <2>2. QED
    BY <1>1, <1>2, <1>3, <1>9, <2>1 DEF AttemptRow
<1>10. CASE ClearLease(t)
  <2>1. attempt' = [attempt EXCEPT ![a].worktree = NoLease]
    BY <1>10 DEF ClearLease, ClearAttemptWorktree
  <2>2. QED
    BY <1>1, <1>2, <1>3, <1>10, <2>1 DEF AttemptRow
<1>11. QED
  BY <1>4, <1>5, <1>6, <1>7, <1>8, <1>9, <1>10

(* Nobody runs in a pane that a launch has opened and not yet recorded.      *)
LEMMA FreshPane ==
    ASSUME NEW t \in Tasks, LifecycleInv, cmd[t].pc = "herdr"
    PROVE  ~Agent(cmd[t].pane)
<1>1. cmd[t].pc \in LeasePcs
  BY DEF LeasePcs
<1>2. PICK a \in Attempts : a = cmd[t].att /\ attempt[a].herdr = NoPane
  BY <1>1, LaunchFacts
<1>3. PICK l \in Leases : l = cmd[t].lease
  BY <1>1, LaunchFacts
<1>4. PICK p \in Panes : p = cmd[t].pane /\ pane[p].cwd = l
  BY <1>1, <1>3, LaunchFacts
<1>5. ASSUME Agent(p)
      PROVE  FALSE
  <2>1. PICK b \in Attempts : attempt[b].herdr = p
    BY <1>5 DEF Agent, LifecycleInv, AgentsAreClaimed
  <2>2. p # NoPane
    BY StoreAssumption
  <2>3. Holds(b, l)
    BY <1>4, <2>1, <2>2 DEF Holds
  <2>4. Holds(a, l)
    BY <1>2, <1>3 DEF Holds
  <2>5. a = b
    BY <2>3, <2>4 DEF LifecycleInv, Apart
  <2>6. QED
    BY <1>2, <2>1, <2>2, <2>5
<1>6. QED
  BY <1>4, <1>5

LEMMA LaunchWriteSees ==
    ASSUME NEW t \in Tasks, LifecycleInv, cmd[t].op \in Launchers,
           \/ RecordLease(t) \/ RecordPane(t) \/ RecordSubmitted(t) \/ RecordConfirmed(t)
           \/ RecordRunning(t) \/ ClearPane(t) \/ ClearLease(t)
    PROVE  Sees(t)' /\ \A s \in Tasks \ {t} : cmd'[s] = cmd[s]
<1>1. Leave(t) => Sees(t)' /\ \A s \in Tasks \ {t} : cmd'[s] = cmd[s]
  BY LeavingSees, LeaveFacts
<1>2. cmd[t].op # "reconcile"
  BY DEF Launchers
<1>3. QED
  BY <1>1, <1>2, FailingSees, MovingSees
     DEF RecordLease, RecordPane, RecordSubmitted, RecordConfirmed, RecordRunning, ClearPane,
         ClearLease

LEMMA LaunchWriteGuards ==
    ASSUME NEW t \in Tasks, LifecycleInv, GuardInv,
           \/ RecordLease(t) \/ RecordPane(t) \/ RecordSubmitted(t) \/ RecordConfirmed(t)
           \/ RecordRunning(t) \/ ClearPane(t) \/ ClearLease(t)
    PROVE  GuardInv'
<1>1. cmd[t].pc \in LaunchPcs /\ cmd[t].pc \in ShipPcs /\ cmd[t].pc # "close_pane"
      /\ (cmd[t].pc = "submit" => RecordSubmitted(t))
  BY DEF RecordLease, RecordPane, RecordSubmitted, RecordConfirmed, RecordRunning, ClearPane,
     ClearLease, At, ShipPcs, LaunchPcs, LeasePcs, RunPcs
<1>2. cmd[t].op \in Launchers
  BY <1>1, LaunchOp DEF GuardInv
<1>3. Sees(t)' /\ \A s \in Tasks \ {t} : cmd'[s] = cmd[s]
  BY <1>2, LaunchWriteSees
<1>4. PICK a \in Attempts : a = cmd[t].att /\ attempt[a].owner = t /\ attempt[a].decided = ""
  BY <1>1, LaunchingRow
<1>5. /\ \A b \in Attempts \ {a} : attempt'[b] = attempt[b]
      /\ task' = task /\ UNCHANGED external
      /\ attempt'[a].decided = ""
      /\ attempt[a].submitted => attempt'[a].submitted
      /\ RecordSubmitted(t) => attempt'[a].submitted
      /\ attempt'[a].worktree = IF RecordLease(t) THEN cmd[t].lease
                                ELSE IF ClearLease(t) THEN NoLease ELSE attempt[a].worktree
      /\ attempt'[a].herdr = IF RecordPane(t) THEN cmd[t].pane
                             ELSE IF ClearPane(t) THEN NoPane ELSE attempt[a].herdr
  BY <1>4, LaunchWrites
<1>6. UNCHANGED <<lease, work, pane, pr>> /\ Softens
  BY <1>5, StillSoft DEF external
<1>7. Untouched(a) /\ Starting(a) /\ Sees(t)
  BY DEF GuardInv, Guarded
<1>8. Untouched(a)'
  <2>1. CASE RecordLease(t)
    <3>1. Bare(cmd[t].lease)
      BY <1>7, <2>1 DEF Sees, RecordLease, At
    <3>2. QED
      BY <1>5, <1>6, <2>1, <3>1 DEF Untouched, Bare, WorkIn
  <2>2. CASE ~RecordLease(t) /\ ClearLease(t)
    <3>1. attempt'[a].worktree = NoLease /\ NoLease \notin Leases
      BY <1>5, <2>2, StoreAssumption
    <3>2. QED
      BY <3>1 DEF Untouched, Bare, WorkIn, Fresh
  <2>3. CASE ~RecordLease(t) /\ ~ClearLease(t)
    BY <1>5, <1>6, <1>7, <2>3, StillUntouched
  <2>4. QED
    BY <2>1, <2>2, <2>3
<1>9. Starting(a)'
  <2>1. CASE RecordSubmitted(t)
    BY <1>5, <2>1 DEF Starting
  <2>2. CASE RecordPane(t)
    <3>1. ~Agent(cmd[t].pane)
      BY <2>2, FreshPane DEF RecordPane, At
    <3>2. QED
      BY <1>5, <1>6, <2>2, <3>1 DEF Starting, Staffed, Agent
  <2>3. CASE ~RecordPane(t) /\ ClearPane(t)
    BY <1>5, <2>3 DEF Starting, Staffed
  <2>4. CASE ~RecordSubmitted(t) /\ ~RecordPane(t) /\ ~ClearPane(t)
    BY <1>1, <1>4, <1>5, <1>6, <1>7, <2>4, StillStarting
  <2>5. QED
    BY <2>1, <2>2, <2>3, <2>4
<1>10. QED
  BY <1>3, <1>4, <1>5, <1>6, <1>8, <1>9, ActingLaunchGuards


(* No two attempts have the same pane.                                       *)
LEMMA OwnPane ==
    ASSUME LifecycleInv, NEW a \in Attempts, NEW b \in Attempts, attempt[a].herdr # NoPane,
           attempt[a].herdr = attempt[b].herdr
    PROVE  a = b
<1>1. PICK p \in Panes : p = attempt[a].herdr /\ Opened(p)
  BY RowFacts
<1>2. PICK l \in Leases : l = pane[p].cwd
  BY <1>1 DEF LifecycleInv, Recorded
<1>3. Holds(a, l) /\ Holds(b, l)
  BY <1>1, <1>2 DEF Holds
<1>4. QED
  BY <1>3 DEF LifecycleInv, Apart

(* Starting the worker, and closing its pane again.                          *)
LEMMA RunGuards ==
    ASSUME Attended, NEW t \in Tasks, LifecycleInv, GuardInv, RunWorker(t) \/ RollbackPane(t)
    PROVE  GuardInv'
<1>1. cmd[t].pc \in RunPcs /\ cmd[t].pc \in LeasePcs /\ cmd[t].pc \in LaunchPcs /\ cmd[t].pc \in ShipPcs
  BY DEF RunWorker, RollbackPane, At, ShipPcs, LaunchPcs, LeasePcs, RunPcs
<1>2. cmd[t].op \in Launchers
  BY <1>1, LaunchOp DEF GuardInv
<1>3. PICK a \in Attempts : a = cmd[t].att /\ attempt[a].owner = t /\ attempt[a].decided = ""
  BY <1>1, LaunchingRow
<1>4. PICK p \in Panes : p = cmd[t].pane /\ attempt[a].herdr = p
  BY <1>1, <1>3, LaunchFacts
<1>5. p # NoPane
  BY StoreAssumption
<1>6. pane \in [Panes -> [state : {"unissued", "shell", "agent", "gone", "foreign"},
                          cwd : Leases \union {NoLease}]]
  BY DEF LifecycleInv, WorldTyped
<1>7. attempt' = attempt /\ task' = task /\ UNCHANGED <<lease, work, pr>>
  BY DEF RunWorker, RollbackPane, WorldOnly, storeVars, CloseTab, external
<1>8. Untouched(a)'
  BY <1>7, StillSoft, StillUntouched DEF GuardInv, Guarded
<1>9. /\ Sees(t)' /\ \A s \in Tasks \ {t} : cmd'[s] = cmd[s]
      /\ Starting(a)'
      /\ \A q \in Panes \ {p} : pane'[q].state = "agent" => pane[q].state = "agent"
  <2>1. CASE RunWorker(t)
    <3>1. Starting(a) /\ cmd[t].pc = "run"
      BY <2>1 DEF GuardInv, Guarded, RunWorker, At
    <3>2. ASSUME NEW pc \in {"submit", "close_pane"}, Goto(t, pc)
          PROVE  Sees(t)' /\ (\A s \in Tasks \ {t} : cmd'[s] = cmd[s]) /\ Starting(a)'
      <4>1. Busy(a, {"submit", "close_pane"})'
        BY <1>3, <3>2, GotoColumns DEF Busy
      <4>2. QED
        BY <1>2, <3>2, <4>1, MovingSees DEF Starting
    <3>3. \E pc \in {"submit", "close_pane"} : Goto(t, pc)
      BY <2>1 DEF RunWorker
    <3>4. \A q \in Panes \ {p} : pane'[q].state = "agent" => pane[q].state = "agent"
      BY <1>4, <1>6, <2>1 DEF RunWorker
    <3>5. QED
      BY <3>2, <3>3, <3>4
  <2>2. CASE RollbackPane(t)
    <3>1. CloseTab(p, "ok") /\ Goto(t, "clear_pane")
      BY <1>4, <2>2 DEF RollbackPane, CloseTab, Attended
    <3>2. pane' = [pane EXCEPT ![p].state = "gone"]
      BY <3>1 DEF CloseTab
    <3>3. pane'[p].state = "gone" /\ \A q \in Panes \ {p} : pane'[q] = pane[q]
      BY <1>6, <3>2
    <3>4. Starting(a)'
      BY <1>4, <1>7, <3>3 DEF Starting, Staffed, Agent
    <3>5. QED
      BY <1>2, <3>1, <3>3, <3>4, MovingSees
  <2>3. QED
    BY <2>1, <2>2
<1>10. \A b \in Attempts \ {a} : attempt[b].herdr # NoPane =>
           (pane'[attempt[b].herdr].state = "agent" => pane[attempt[b].herdr].state = "agent")
  BY <1>4, <1>9, OwnPane, RowFacts
<1>11. QED
  BY <1>3, <1>7, <1>8, <1>9, <1>10, ActingLaunchGuards

-----------------------------------------------------------------------------
(* A launch, or a promotion, begins.                                         *)

Ended(t, b) ==
    /\ attempt[b].owner = t
    /\ attempt'[b].life \notin LiveStates
    /\ attempt'[b].worktree = attempt[b].worktree
    /\ attempt'[b].herdr = attempt[b].herdr
    /\ attempt'[b].submitted = attempt[b].submitted

Born(t, a) ==
    /\ cmd[t] = Idle /\ UNCHANGED external
    /\ cmd'[t].op \in Launchers /\ cmd'[t].pc \in ShipPcs \ {"record"}
    /\ \A s \in Tasks \ {t} : cmd'[s] = cmd[s] /\ task'[s] = task[s]
    /\ attempt[a].life = "absent" /\ attempt'[a] = NewAttempt(t, "provisioning")
    /\ \A b \in Attempts \ {a} : attempt'[b] = attempt[b] \/ Ended(t, b)
    /\ task'[t].active = a

LEMMA BirthGuards ==
    ASSUME NEW t \in Tasks, LifecycleInv, LifecycleInv', GuardInv,
           NEW a \in Attempts, Born(t, a)
    PROVE  GuardInv'
<1>1. /\ cmd[t] = Idle /\ UNCHANGED external
      /\ cmd'[t].op \in Launchers /\ cmd'[t].pc \in ShipPcs \ {"record"}
      /\ \A s \in Tasks \ {t} : cmd'[s] = cmd[s] /\ task'[s] = task[s]
      /\ attempt[a].life = "absent" /\ attempt'[a] = NewAttempt(t, "provisioning")
      /\ \A b \in Attempts \ {a} : attempt'[b] = attempt[b] \/ Ended(t, b)
      /\ task'[t].active = a
  BY DEF Born
<1>2. \A s \in Tasks \ {t} : cmd'[s] = cmd[s] /\ task'[s] = task[s]
  BY <1>1
<1>3. Sees(t)'
  BY <1>1 DEF Sees, Launchers
<1>4. Steps(t)
  BY <1>1, StillSoft DEF Steps, external
<1>5. Guarded(a)'
  <2>1. PICK row : row = NewAttempt(t, "provisioning")
    OBVIOUS
  <2>2. row.worktree = NoLease /\ row.herdr = NoPane /\ row.decided = ""
    BY <2>1 DEF NewAttempt
  <2>3. attempt'[a].worktree = NoLease /\ attempt'[a].herdr = NoPane /\ attempt'[a].decided = ""
    BY <1>1, <2>1, <2>2
  <2>4. NoLease \notin Leases
    BY StoreAssumption
  <2>5. Untouched(a)' /\ Starting(a)'
    BY <2>3, <2>4 DEF Untouched, Starting, Staffed, Bare, WorkIn, Fresh
  <2>6. QED
    BY <2>3, <2>5, OpenRow
<1>6. ASSUME NEW b \in Attempts \ {a}
      PROVE  Aside(t, b)
  <2>1. cmd[t].att # b
    <3>1. Idle.att = NoAttempt
      BY DEF Idle
    <3>2. QED
      BY <1>1, <3>1, StoreAssumption DEF Attempts
  <2>2. UNCHANGED pane
    BY <1>1 DEF external
  <2>3. CASE attempt'[b] = attempt[b]
    <3>1. ~(attempt[b].owner = t /\ Ending(b))
      <4>1. SUFFICES ASSUME attempt[b].owner = t, attempt[b].life \in LiveStates
                     PROVE  FALSE
        BY DEF Ending
      <4>2. OneOwner'
        BY DEF LifecycleInv, StoreInv
      <4>3. attempt'[b].owner = t /\ attempt'[b].life \in LiveStates
        BY <2>3, <4>1
      <4>4. PICK s \in Tasks : attempt'[b].owner = s /\ task'[s].active = b
        BY <4>2, <4>3 DEF OneOwner
      <4>5. QED
        BY <1>1, <4>3, <4>4
    <3>2. QED
      BY <2>1, <2>2, <2>3, <3>1 DEF Aside
  <2>4. CASE attempt'[b] # attempt[b]
    BY <1>1, <2>1, <2>2, <2>4 DEF Aside, Ended
  <2>5. QED
    BY <2>3, <2>4
<1>7. \A b \in Attempts : attempt[b].owner \in Tasks \ {t} => attempt'[b] = attempt[b]
  <2>1. attempt[a].owner = NoTask /\ NoTask \notin Tasks
    BY <1>1, StoreAssumption DEF LifecycleInv, StoreInv, RowsAscending
  <2>2. QED
    BY <1>1, <2>1 DEF Ended
<1>8. QED
  BY <1>3, <1>4, <1>5, <1>6, <1>7, StepGuards

LEMMA SpawnGuards ==
    ASSUME NEW t \in Tasks, NEW a \in Attempts, LifecycleInv, LifecycleInv', GuardInv,
           (\E kind \in Kinds : StartSpawn(t, a, kind)) \/ StartReopen(t, a)
    PROVE  GuardInv'
<1>1. /\ attempt[a].life = "absent" /\ attempt' = [attempt EXCEPT ![a] = NewAttempt(t, "provisioning")]
      /\ UNCHANGED external /\ cmd[t] = Idle
  BY DEF StartSpawn, StartReopen, CreateTaskWithAttempt, ReopenTask, Insertable, StoreOnly
<1>2. /\ attempt'[a] = NewAttempt(t, "provisioning")
      /\ \A b \in Attempts \ {a} : attempt'[b] = attempt[b]
  BY <1>1 DEF LifecycleInv, StoreInv, StoreTypeOK
<1>3. PICK op \in {"spawn", "reopen"} : cmd' = [cmd EXCEPT ![t] = Launch(op, a, NoLease)]
  BY DEF StartSpawn, StartReopen
<1>4. PICK c : c = Launch(op, a, NoLease)
  OBVIOUS
<1>5. c.op = op /\ c.pc = "get"
  BY <1>4 DEF Launch, Idle
<1>6. c.op \in Launchers /\ c.pc \in ShipPcs \ {"record"} /\ cmd' = [cmd EXCEPT ![t] = c]
  BY <1>3, <1>4, <1>5 DEF Launchers, ShipPcs, LaunchPcs
<1>7. task \in [Tasks -> TaskRow] /\ task[t] \in TaskRow
  BY DEF LifecycleInv, StoreInv, StoreTypeOK
<1>8. task'[t].active = a /\ \A s \in Tasks \ {t} : task'[s] = task[s]
  <2>1. ASSUME NEW kind \in Kinds, StartSpawn(t, a, kind)
        PROVE  task'[t].active = a /\ \A s \in Tasks \ {t} : task'[s] = task[s]
    <3>1. PICK row : row = [AbsentTask EXCEPT !.life = "open", !.kind = kind, !.active = a]
      OBVIOUS
    <3>2. row.active = a
      BY <3>1 DEF AbsentTask
    <3>3. task' = [task EXCEPT ![t] = row]
      BY <2>1, <3>1 DEF StartSpawn, CreateTaskWithAttempt
    <3>4. QED
      BY <1>7, <3>2, <3>3
  <2>2. CASE StartReopen(t, a)
    <3>1. task' = [task EXCEPT ![t].life = "open", ![t].active = a]
      BY <2>2 DEF StartReopen, ReopenTask
    <3>2. QED
      BY <1>7, <3>1 DEF TaskRow
  <2>3. QED
    BY <2>1, <2>2
<1>9. cmd'[t] = c /\ \A r \in Tasks \ {t} : cmd'[r] = cmd[r]
  BY <1>6 DEF LifecycleInv, CommandsTyped
<1>10. Born(t, a)
  BY <1>1, <1>2, <1>6, <1>8, <1>9 DEF Born
<1>11. QED
  BY <1>10, BirthGuards

LEMMA PromoteGuards ==
    ASSUME NEW t \in Tasks, NEW a \in Attempts, LifecycleInv, LifecycleInv', GuardInv,
           StartPromote(t, a)
    PROVE  GuardInv'
<1>1. /\ cmd[t] = Idle /\ task[t].active # NoAttempt /\ UNCHANGED external
      /\ PromoteTask(t, task[t].active, attempt[task[t].active].life, a)
      /\ cmd' = [cmd EXCEPT ![t] = [Idle EXCEPT !.op = "promote", !.pc = "scout_pane",
                                                !.att = a, !.scout = task[t].active]]
  BY DEF StartPromote, StoreOnly
<1>2. PICK s \in Attempts : s = task[t].active
  BY <1>1, ActiveFacts
<1>3. /\ attempt[s].owner = t /\ attempt[s].life \in LiveStates /\ attempt[a].life = "absent"
      /\ s # a /\ attempt[s] \in AttemptRow
  BY <1>1, <1>2, ActiveFacts, RowFacts DEF PromoteTask, Insertable, LiveStates
<1>4. /\ attempt'[a] = NewAttempt(t, "provisioning")
      /\ attempt'[s] = [attempt[s] EXCEPT !.life = "completed"]
      /\ \A b \in Attempts \ {a, s} : attempt'[b] = attempt[b]
  BY <1>1, <1>2, <1>3 DEF PromoteTask, LifecycleInv, StoreInv, StoreTypeOK
<1>5. /\ attempt'[s].life \notin LiveStates
      /\ attempt'[s].worktree = attempt[s].worktree /\ attempt'[s].herdr = attempt[s].herdr
      /\ attempt'[s].submitted = attempt[s].submitted
  BY <1>3, <1>4 DEF AttemptRow, LiveStates
<1>6. PICK c : c = [Idle EXCEPT !.op = "promote", !.pc = "scout_pane", !.att = a, !.scout = s]
  OBVIOUS
<1>7. c.op = "promote" /\ c.pc = "scout_pane" /\ cmd' = [cmd EXCEPT ![t] = c]
  BY <1>1, <1>2, <1>6 DEF Idle
<1>8. c.op \in Launchers /\ c.pc \in ShipPcs \ {"record"}
  BY <1>7 DEF Launchers, ShipPcs, ScoutPcs
<1>9. task \in [Tasks -> TaskRow] /\ task[t] \in TaskRow
  BY DEF LifecycleInv, StoreInv, StoreTypeOK
<1>10. task'[t].active = a /\ \A r \in Tasks \ {t} : task'[r] = task[r]
  BY <1>1, <1>9 DEF PromoteTask, TaskRow
<1>11. \A b \in Attempts \ {a} : attempt'[b] = attempt[b] \/ Ended(t, b)
  BY <1>3, <1>4, <1>5 DEF Ended
<1>12. cmd'[t] = c /\ \A r \in Tasks \ {t} : cmd'[r] = cmd[r]
  BY <1>7 DEF LifecycleInv, CommandsTyped
<1>13. Born(t, a)
  BY <1>1, <1>3, <1>4, <1>8, <1>10, <1>11, <1>12 DEF Born
<1>14. QED
  BY <1>13, BirthGuards

(* The release of the scout.                                                 *)
LEMMA ScoutGuards ==
    ASSUME NEW t \in Tasks, LifecycleInv, GuardInv,
           \/ ClaimScoutPane(t) \/ CloseScoutPane(t) \/ RecordScoutPane(t)
           \/ ClaimScoutLease(t) \/ ReturnScoutLease(t) \/ RecordScoutLease(t) \/ LaunchShip(t)
    PROVE  GuardInv'
<1> DEFINE Moved == Sees(t)' /\ \A s \in Tasks \ {t} : cmd'[s] = cmd[s]
           Kin(b) == \/ attempt'[b] = attempt[b]
                     \/ /\ attempt[b].owner = t
                        /\ attempt'[b].life \notin LiveStates
                        /\ attempt'[b].worktree = attempt[b].worktree
                        /\ attempt'[b].herdr = attempt[b].herdr
                        /\ attempt'[b].submitted = attempt[b].submitted
           World == /\ Softens /\ pr' = pr
                    /\ \A m \in Leases : lease'[m] = "unissued" => lease[m] = "unissued"
                    /\ \A p \in Panes : pane'[p].state = "agent" => pane[p].state = "agent"
<1>1. cmd[t].pc \in ScoutPcs \union {"launch"} /\ (cmd[t].pc = "launch" => LaunchShip(t))
  BY DEF ClaimScoutPane, CloseScoutPane, RecordScoutPane, ClaimScoutLease, ReturnScoutLease,
     RecordScoutLease, LaunchShip, At, ScoutPcs, ScoutPanePcs, ScoutLeasePcs
<1>2. cmd[t].pc \in ShipPcs \ {"submit", "close_pane"}
  BY <1>1 DEF ShipPcs, ScoutPcs, ScoutPanePcs, ScoutLeasePcs
<1>3. cmd[t].op \in Launchers
  BY <1>2, LaunchOp DEF GuardInv
<1>4. Moved
  <2>1. ASSUME NEW pc \in ScoutPcs \union {"launch"}, Goto(t, pc)
        PROVE  Moved
    <3>1. pc \in ShipPcs \ {"record"}
      BY DEF ShipPcs, ScoutPcs, ScoutPanePcs, ScoutLeasePcs
    <3>2. QED
      BY <1>3, <2>1, <3>1, LaunchingSees, GotoColumns
  <2>2. CASE LaunchShip(t)
    <3>1. PICK c : c = Launch("promote", cmd[t].att, NoLease)
      OBVIOUS
    <3>2. c.op = "promote" /\ c.pc = "get"
      BY <3>1 DEF Launch, Idle
    <3>3. cmd' = [cmd EXCEPT ![t] = c]
      BY <2>2, <3>1 DEF LaunchShip
    <3>4. cmd'[t] = c /\ \A s \in Tasks \ {t} : cmd'[s] = cmd[s]
      BY <3>3 DEF LifecycleInv, CommandsTyped
    <3>5. "get" \in ShipPcs
      BY DEF ShipPcs, LaunchPcs
    <3>6. QED
      BY <3>2, <3>4, <3>5 DEF Sees, Launchers
  <2>3. {"scout_close", "scout_lease", "scout_closed", "scout_unclosed", "scout_return",
         "scout_returned", "scout_unreturned", "launch"} \subseteq ScoutPcs \union {"launch"}
    BY DEF ScoutPcs, ScoutPanePcs, ScoutLeasePcs
  <2>4. CASE ~LaunchShip(t)
    <3>1. \E pc \in ScoutPcs \union {"launch"} : Goto(t, pc)
      BY <2>3, <2>4 DEF ClaimScoutPane, CloseScoutPane, RecordScoutPane, ClaimScoutLease,
         ReturnScoutLease, RecordScoutLease
    <3>2. QED
      BY <2>1, <3>1
  <2>5. QED
    BY <2>2, <2>4
<1>5. World
  <2>1. CASE CloseScoutPane(t)
    <3>1. pane \in [Panes -> [state : {"unissued", "shell", "agent", "gone", "foreign"},
                              cwd : Leases \union {NoLease}]]
      BY DEF LifecycleInv, WorldTyped
    <3>2. PICK p : \E result : CloseTab(p, result)
      BY <2>1 DEF CloseScoutPane
    <3>3. UNCHANGED <<lease, work, pr>>
      BY <3>2 DEF CloseTab, external
    <3>4. \A q \in Panes : pane'[q].state = "agent" => pane[q].state = "agent"
      BY <3>1, <3>2 DEF CloseTab, external
    <3>5. QED
      BY <3>3, <3>4, StillSoft
  <2>2. CASE ReturnScoutLease(t)
    <3>1. \E l, result : ReturnLease(l, TRUE, result)
      BY <2>2 DEF ReturnScoutLease
    <3>2. QED
      BY <3>1, ReturnSoftens
  <2>3. CASE UNCHANGED external
    BY <2>3, StillSoft DEF external
  <2>4. QED
    BY <2>1, <2>2, <2>3 DEF ClaimScoutPane, RecordScoutPane, ClaimScoutLease, RecordScoutLease,
       LaunchShip, StoreOnly, LocalOnly
<1>6. PICK a \in Attempts : a = cmd[t].att /\ attempt[a].life = "provisioning"
  BY <1>2, LaunchingRow
<1>7. task' = task /\ attempt'[a] = attempt[a] /\ \A b \in Attempts : Kin(b)
  <2>1. CASE UNCHANGED storeVars
    BY <2>1 DEF storeVars
  <2>2. ASSUME NEW r, NEW next, SetResource(t, cmd[t].scout, r, next), cmd[t].pc \in ScoutPcs
        PROVE  task' = task /\ attempt'[a] = attempt[a] /\ \A b \in Attempts : Kin(b)
    <3>1. PICK s \in Attempts : s = cmd[t].scout /\ attempt[s].owner = t /\ attempt[s].life = "completed"
      BY <2>2 DEF LifecycleInv, CommandsTyped, CommandOK, Stages, Stage, ScoutStage
    <3>2. attempt \in [Attempts -> AttemptRow] /\ attempt[s] \in AttemptRow
      BY DEF LifecycleInv, StoreInv, StoreTypeOK
    <3>3. task' = task /\ attempt' = [attempt EXCEPT ![s].settle[r] = next]
      BY <2>2, <3>1 DEF SetResource, SetAttemptTeardownResourceState
    <3>4. attempt'[s] = [attempt[s] EXCEPT !.settle[r] = next]
          /\ \A b \in Attempts \ {s} : attempt'[b] = attempt[b]
      BY <3>2, <3>3
    <3>5. /\ attempt'[s].life = "completed" /\ attempt'[s].worktree = attempt[s].worktree
          /\ attempt'[s].herdr = attempt[s].herdr /\ attempt'[s].submitted = attempt[s].submitted
      BY <3>1, <3>2, <3>4 DEF AttemptRow
    <3>6. Kin(s)
      BY <3>1, <3>5 DEF LiveStates
    <3>7. a # s
      BY <1>6, <3>1
    <3>8. QED
      BY <3>3, <3>4, <3>6, <3>7
  <2>3. UNCHANGED storeVars \/ \E r, next : SetResource(t, cmd[t].scout, r, next)
    BY DEF ClaimScoutPane, CloseScoutPane, RecordScoutPane, ClaimScoutLease, ReturnScoutLease,
       RecordScoutLease, LaunchShip, WorldOnly, LocalOnly
  <2>4. QED
    BY <1>1, <2>1, <2>2, <2>3 DEF LaunchShip, LocalOnly
<1>8. Steps(t)
  BY <1>4, <1>5, <1>7 DEF Steps
<1>9. QED
  BY <1>2, <1>4, <1>5, <1>6, <1>7, <1>8, ShippingGuards

-----------------------------------------------------------------------------
(* A teardown.                                                               *)

LEMMA HoldRow ==
    ASSUME NEW t \in Tasks, LifecycleInv, Sees(t), cmd[t].pc \in HoldPcs
    PROVE  /\ cmd[t].op = "teardown"
           /\ \E a \in Attempts : /\ a = cmd[t].att /\ attempt[a].owner = t
                                  /\ attempt[a].life \in LiveStates /\ attempt[a] \in AttemptRow
<1>1. cmd[t].op = "teardown"
  BY DEF Sees, HoldPcs, ShipPcs, ScoutPcs, ScoutPanePcs, ScoutLeasePcs, LaunchPcs, LeasePcs, RunPcs
<1>2. cmd[t].pc \in GuardPcs \union ClosingPcs
  BY DEF HoldPcs, GuardPcs, ClosingPcs, PanePcs, WorktreePcs, RecordPcs
<1>3. PICK a \in Attempts : a = cmd[t].att /\ attempt[a].owner = t
  BY <1>2, ClosingFacts
<1>4. attempt[a] \in AttemptRow
  BY RowFacts
<1>5. attempt[a].life \in LiveStates
  BY <1>1, <1>3 DEF Sees
<1>6. QED
  BY <1>1, <1>3, <1>4, <1>5

(* What a teardown found out about an attempt stays as it is.                *)
Alike(a) ==
    /\ attempt'[a].owner = attempt[a].owner
    /\ attempt'[a].worktree = attempt[a].worktree
    /\ attempt'[a].herdr = attempt[a].herdr
    /\ attempt'[a].submitted = attempt[a].submitted
    /\ attempt'[a].life = attempt[a].life
    /\ attempt'[a].decided = attempt[a].decided
    /\ attempt'[a].disposition = attempt[a].disposition

LEMMA SettleColumns ==
    ASSUME NEW t \in Tasks, NEW a \in Attempts, NEW r \in Resources, LifecycleInv, NEW next,
           SetResource(t, a, r, next)
    PROVE  /\ Alike(a) /\ task' = task
           /\ \A b \in Attempts \ {a} : attempt'[b] = attempt[b]
           /\ attempt'[a].settle[r] = next
           /\ r # "herdr" => attempt'[a].settle["herdr"] = attempt[a].settle["herdr"]
<1>1. attempt \in [Attempts -> AttemptRow] /\ attempt[a] \in AttemptRow
  BY DEF LifecycleInv, StoreInv, StoreTypeOK
<1>2. attempt' = [attempt EXCEPT ![a].settle[r] = next] /\ task' = task
  BY DEF SetResource, SetAttemptTeardownResourceState
<1>3. PICK settle : settle = [attempt[a].settle EXCEPT ![r] = next]
  OBVIOUS
<1>4. PICK row : row = [attempt[a] EXCEPT !.settle = settle]
  OBVIOUS
<1>5. /\ row.owner = attempt[a].owner /\ row.worktree = attempt[a].worktree
      /\ row.herdr = attempt[a].herdr /\ row.submitted = attempt[a].submitted
      /\ row.life = attempt[a].life /\ row.decided = attempt[a].decided
      /\ row.disposition = attempt[a].disposition /\ row.settle = settle
  BY <1>1, <1>4 DEF AttemptRow
<1>6. attempt' = [attempt EXCEPT ![a] = row]
  BY <1>2, <1>3, <1>4
<1>7. attempt'[a] = row /\ \A b \in Attempts \ {a} : attempt'[b] = attempt[b]
  BY <1>1, <1>6
<1>8. attempt[a].settle \in [Resources -> ResourceStates] /\ "herdr" \in Resources
  BY <1>1, WorldAssumption DEF AttemptRow
<1>9. settle[r] = next /\ (r # "herdr" => settle["herdr"] = attempt[a].settle["herdr"])
  BY <1>3, <1>8
<1>10. Alike(a)
  BY <1>5, <1>7 DEF Alike
<1>11. QED
  BY <1>2, <1>5, <1>7, <1>9, <1>10

LEMMA CompletionColumns ==
    ASSUME NEW t \in Tasks, NEW a \in Attempts, LifecycleInv, NEW from, NEW next,
           SetAttemptTeardownCompletionState(t, a, from, next)
    PROVE  /\ Alike(a) /\ task' = task
           /\ \A b \in Attempts \ {a} : attempt'[b] = attempt[b]
           /\ attempt'[a].settle = attempt[a].settle
<1>1. attempt \in [Attempts -> AttemptRow] /\ attempt[a] \in AttemptRow
  BY DEF LifecycleInv, StoreInv, StoreTypeOK
<1>2. attempt' = [attempt EXCEPT ![a].completion = next] /\ task' = task
  BY DEF SetAttemptTeardownCompletionState
<1>3. PICK row : row = [attempt[a] EXCEPT !.completion = next]
  OBVIOUS
<1>4. /\ row.owner = attempt[a].owner /\ row.worktree = attempt[a].worktree
      /\ row.herdr = attempt[a].herdr /\ row.submitted = attempt[a].submitted
      /\ row.life = attempt[a].life /\ row.decided = attempt[a].decided
      /\ row.disposition = attempt[a].disposition /\ row.settle = attempt[a].settle
  BY <1>1, <1>3 DEF AttemptRow
<1>5. attempt'[a] = row /\ \A b \in Attempts \ {a} : attempt'[b] = attempt[b]
  BY <1>1, <1>2, <1>3
<1>6. QED
  BY <1>2, <1>4, <1>5 DEF Alike

LEMMA DecisionColumns ==
    ASSUME NEW t \in Tasks, NEW a \in Attempts, LifecycleInv, NEW terminal, NEW d,
           SetAttemptTeardownDecision(t, a, terminal, d)
    PROVE  /\ task' = task
           /\ \A b \in Attempts \ {a} : attempt'[b] = attempt[b]
           /\ attempt'[a].owner = attempt[a].owner
           /\ attempt'[a].worktree = attempt[a].worktree
           /\ attempt'[a].herdr = attempt[a].herdr
           /\ attempt'[a].submitted = attempt[a].submitted
           /\ attempt'[a].life = attempt[a].life
           /\ attempt'[a].disposition = d
           /\ attempt'[a].settle["herdr"] = ""
<1>1. attempt \in [Attempts -> AttemptRow] /\ attempt[a] \in AttemptRow
  BY DEF LifecycleInv, StoreInv, StoreTypeOK
<1>2. /\ attempt[a].decided = "" /\ attempt[a].life \in LiveStates /\ task' = task
      /\ attempt' = [attempt EXCEPT ![a].decided = terminal, ![a].disposition = d]
  BY DEF SetAttemptTeardownDecision
<1>3. PICK row : row = [attempt[a] EXCEPT !.decided = terminal, !.disposition = d]
  OBVIOUS
<1>4. /\ row.owner = attempt[a].owner /\ row.worktree = attempt[a].worktree
      /\ row.herdr = attempt[a].herdr /\ row.submitted = attempt[a].submitted
      /\ row.life = attempt[a].life /\ row.disposition = d /\ row.settle = attempt[a].settle
  BY <1>1, <1>3 DEF AttemptRow
<1>5. attempt' = [attempt EXCEPT ![a] = row]
  BY <1>1, <1>2, <1>3 DEF AttemptRow
<1>6. attempt'[a] = row /\ \A b \in Attempts \ {a} : attempt'[b] = attempt[b]
  BY <1>1, <1>5
<1>7. attempt[a].settle["herdr"] = ""
  BY <1>2 DEF LifecycleInv, RowsOK, RowOK, LiveStates, TerminalStates
<1>8. QED
  BY <1>2, <1>4, <1>6, <1>7

(* The pane of an attempt that ends is closed where the command has it       *)
(* closed, and nowhere else.                                                 *)
LEMMA PartingWhere ==
    ASSUME NEW t \in Tasks, LifecycleInv, NEW a \in Attempts, attempt[a].owner = t, Parting(a),
           Ending(a), PaneUnsettled(a)
    PROVE  cmd[t].att = a /\ cmd[t].pc \in PartingPcs(a)
<1>1. PartingPcs(a) \subseteq ActingPcs
  BY DEF PartingPcs, ActingPcs
<1>2. Busy(a, PartingPcs(a))
  BY DEF Parting
<1>3. QED
  BY <1>1, <1>2, BusyWho

LEMMA ApartFromPane ==
    ASSUME NEW t \in Tasks, LifecycleInv, NEW a \in Attempts, attempt[a].owner = t, Parting(a),
           cmd[t].pc \notin {"claim_pane", "close", "closed"},
           Alike(a), attempt'[a].settle["herdr"] = attempt[a].settle["herdr"]
    PROVE  Parting(a)'
<1>1. ~(Ending(a) /\ PaneUnsettled(a))
  BY PartingWhere DEF PartingPcs
<1>2. ~(Ending(a)' /\ PaneUnsettled(a)')
  BY <1>1 DEF Ending, PaneUnsettled, Alike
<1>3. QED
  BY <1>2 DEF Parting

(* A step of a teardown between its decision and its end.                    *)
LEMMA HoldGuards ==
    ASSUME NEW t \in Tasks, LifecycleInv, GuardInv, Steps(t), Sees(t)', Favours(t),
           cmd[t].pc \in HoldPcs, NEW a \in Attempts, a = cmd[t].att, Alike(a), Parting(a)',
           \A b \in Attempts \ {a} : attempt'[b] = attempt[b],
           \A p \in Panes : pane'[p].state = "agent" => pane[p].state = "agent"
    PROVE  GuardInv'
<1>1. Guarded(a) /\ Sees(t)
  BY DEF GuardInv
<1>2. attempt[a].owner = t
  BY <1>1, HoldRow
<1>3. \A b \in Attempts : attempt[b].herdr # NoPane =>
          (pane'[attempt[b].herdr].state = "agent" => pane[attempt[b].herdr].state = "agent")
  BY RowFacts
<1>4. Softens
  BY DEF Steps
<1>5. Untouched(a)'
  BY <1>1, <1>4, StillUntouched DEF Guarded, Alike
<1>6. cmd[t].pc \notin {"submit", "close_pane"}
  BY DEF HoldPcs
<1>7. Starting(a)'
  BY <1>1, <1>2, <1>3, <1>6, StillStarting DEF Guarded, Alike
<1>8. PICK l : l = attempt[a].worktree /\ attempt'[a].worktree = l
  BY DEF Alike
<1>9. (Landed(t, l) => Landed(t, l)') /\ (Edited(l)' => Edited(l))
  BY <1>4, LandedStays, Softened
<1>10. Covered(a)'
  BY <1>1, <1>2, <1>8, <1>9
     DEF Guarded, Covered, Alike, Ending, Landed, Edited, Bare, WorkIn
<1>11. Guarded(a)'
  BY <1>5, <1>7, <1>10 DEF Guarded
<1>12. QED
  BY <1>2, <1>3, <1>11, OwnStep

(* One that only looks, or only leaves.                                      *)
LEMMA LookingHoldGuards ==
    ASSUME NEW t \in Tasks, LifecycleInv, GuardInv, Steps(t), Sees(t)', Favours(t),
           cmd[t].pc \in HoldPcs \ {"claim_pane", "close", "closed"}, attempt' = attempt,
           \A p \in Panes : pane'[p].state = "agent" => pane[p].state = "agent"
    PROVE  GuardInv'
<1>1. PICK a \in Attempts : a = cmd[t].att /\ attempt[a].owner = t
  BY HoldRow DEF GuardInv
<1>2. Alike(a) /\ attempt'[a].settle["herdr"] = attempt[a].settle["herdr"]
  BY DEF Alike
<1>3. Parting(a)'
  BY <1>1, <1>2, ApartFromPane DEF GuardInv, Guarded
<1>4. QED
  BY <1>1, <1>2, <1>3, HoldGuards


(* It goes on, about what it knows already.                                  *)
LEMMA HoldingOn ==
    ASSUME NEW t \in Tasks, LifecycleInv, Sees(t), Softens, cmd[t].pc \in HoldPcs,
           NEW a \in Attempts, a = cmd[t].att, Alike(a), task' = task, pr' = pr,
           NEW pc \in HoldPcs, Goto(t, pc),
           pc = "decide" /\ ~cmd[t].force => Landed(t, attempt[a].worktree)
    PROVE  Sees(t)' /\ \A s \in Tasks \ {t} : cmd'[s] = cmd[s]
<1>1. cmd[t].op = "teardown" /\ attempt[a].life \in LiveStates
  BY HoldRow
<1>2. attempt'[a].worktree = attempt[a].worktree /\ attempt'[a].life \in LiveStates
  BY <1>1 DEF Alike
<1>3. PICK l : l = attempt[a].worktree
  OBVIOUS
<1>4. cmd'[t].att = a /\ \A s \in Tasks \ {t} : cmd'[s] = cmd[s]
  BY GotoColumns
<1>5. Landed(t, l) => Landed(t, l)'
  BY LandedStays DEF Favours
<1>6. pc = "decide" /\ ~cmd[t].force => Landed(t, attempt[cmd[t].att].worktree)'
  BY <1>2, <1>3, <1>4, <1>5 DEF Landed, Bare, WorkIn
<1>7. QED
  BY <1>1, <1>2, <1>4, <1>6, HoldingSees

(* Facts of the task are added, never withdrawn.                             *)
LEMMA FactsFavour ==
    ASSUME NEW t \in Tasks, LifecycleInv, pr' = pr,
           SetTaskPR(t) \/ SetTaskDelivery(t) \/ SetTaskMergeAnnounced(t)
    PROVE  /\ Favours(t) /\ attempt' = attempt /\ task'[t].kind = task[t].kind
           /\ \A s \in Tasks \ {t} : task'[s] = task[s]
<1>1. task \in [Tasks -> TaskRow] /\ task[t] \in TaskRow
  BY DEF LifecycleInv, StoreInv, StoreTypeOK
<1>2. PICK f : task' = [task EXCEPT ![t].facts = @ \union Fact(f)] /\ attempt' = attempt
  BY DEF SetTaskPR, SetTaskDelivery, SetTaskMergeAnnounced
<1>3. PICK row : row = [task[t] EXCEPT !.facts = @ \union Fact(f)]
  OBVIOUS
<1>4. row.facts = task[t].facts \union Fact(f) /\ row.kind = task[t].kind
  BY <1>1, <1>3 DEF TaskRow
<1>5. task'[t] = row /\ \A s \in Tasks \ {t} : task'[s] = task[s]
  BY <1>1, <1>2, <1>3
<1>6. QED
  BY <1>2, <1>4, <1>5 DEF Favours

LEMMA RecoverGuards ==
    ASSUME NEW t \in Tasks, LifecycleInv, GuardInv, RecoverCompletion(t)
    PROVE  GuardInv'
<1>1. cmd[t].pc = "recover" /\ cmd[t].pc \in HoldPcs /\ UNCHANGED external
  BY DEF RecoverCompletion, At, HoldPcs, StoreOnly
<1>2. Sees(t) /\ (\A b \in Attempts : Guarded(b)) /\ Softens /\ pr' = pr
  BY <1>1, StillSoft DEF GuardInv, external
<1>3. PICK a \in Attempts : /\ a = cmd[t].att /\ attempt[a].owner = t
                            /\ attempt[a].life \in LiveStates /\ cmd[t].op = "teardown"
                            /\ attempt[a] \in AttemptRow
  BY <1>1, <1>2, HoldRow
<1>4. /\ Alike(a) /\ task' = task /\ attempt'[a].settle = attempt[a].settle
      /\ \A b \in Attempts \ {a} : attempt'[b] = attempt[b]
  <2>1. CASE UNCHANGED storeVars
    BY <2>1 DEF storeVars, Alike
  <2>2. CASE SetAttemptTeardownCompletionState(t, a, attempt[a].life, "appended")
    BY <2>2, CompletionColumns
  <2>3. QED
    BY <1>3, <2>1, <2>2 DEF RecoverCompletion
<1>5. PICK l : l = attempt[a].worktree
  OBVIOUS
<1>6. Sees(t)' /\ \A s \in Tasks \ {t} : cmd'[s] = cmd[s]
  <2>1. CASE Leave(t)
    BY <2>1, LeavingSees, LeaveFacts
  <2>2. ASSUME NEW pc \in {"finish", "examine"}, Goto(t, pc)
        PROVE  Sees(t)' /\ \A s \in Tasks \ {t} : cmd'[s] = cmd[s]
    <3>1. pc \in HoldPcs /\ pc # "decide"
      BY DEF HoldPcs
    <3>2. QED
      BY <1>1, <1>2, <1>3, <1>4, <2>2, <3>1, HoldingOn
  <2>3. CASE Goto(t, "decide") /\ (cmd[t].force \/ ~Launched(a))
    <3>1. ~cmd[t].force => Landed(t, l)
      BY <1>2, <1>5, <2>3 DEF Guarded, Untouched, Launched, Landed
    <3>2. "decide" \in HoldPcs
      BY DEF HoldPcs
    <3>3. QED
      BY <1>1, <1>2, <1>3, <1>4, <1>5, <2>3, <3>1, <3>2, HoldingOn
  <2>4. CASE /\ attempt[a].decided # ""
             /\ cmd' = [cmd EXCEPT ![t].pc = "claim_pane", ![t].safe =
                              attempt[a].disposition = "completed-safe-dirt"]
    <3>1. cmd \in [Tasks -> Command] /\ cmd[t] \in Command
      BY DEF LifecycleInv, CommandsTyped
    <3>2. PICK safe \in BOOLEAN : safe = (attempt[a].disposition = "completed-safe-dirt")
      OBVIOUS
    <3>3. PICK c : c = [cmd[t] EXCEPT !.pc = "claim_pane", !.safe = safe]
      OBVIOUS
    <3>4. /\ c.pc = "claim_pane" /\ c.op = cmd[t].op /\ c.att = cmd[t].att
          /\ c.kind = cmd[t].kind /\ c.safe = safe
      BY <3>1, <3>3 DEF Command
    <3>5. cmd' = [cmd EXCEPT ![t] = c]
      BY <2>4, <3>1, <3>2, <3>3
    <3>6. cmd'[t] = c /\ \A s \in Tasks \ {t} : cmd'[s] = cmd[s]
      BY <3>1, <3>5
    <3>7. safe => ~Edited(l)
      BY <1>2, <1>3, <1>5, <2>4, <3>2 DEF Guarded, Covered, Ending
    <3>8. Edited(l)' => Edited(l)
      BY <1>2, Softened
    <3>9. attempt'[a].worktree = l /\ attempt'[a].life \in LiveStates
      BY <1>3, <1>4, <1>5 DEF Alike
    <3>10. task[t].kind = "scout" => cmd[t].kind = "scout"
      BY <1>2, <1>3 DEF Sees
    <3>11. "claim_pane" \in HoldPcs
      BY DEF HoldPcs
    <3>12. cmd'[t].safe => ~Edited(attempt[cmd[t].att].worktree)'
      BY <1>3, <3>4, <3>6, <3>7, <3>8, <3>9 DEF Edited, WorkIn
    <3>13. QED
      BY <1>3, <1>4, <3>4, <3>6, <3>9, <3>10, <3>11, <3>12 DEF Sees, Launchers
  <2>5. QED
    BY <1>3, <2>1, <2>2, <2>3, <2>4 DEF RecoverCompletion
<1>7. Steps(t) /\ Favours(t)
  BY <1>1, <1>2, <1>4, <1>6 DEF Steps, Favours, external
<1>8. Parting(a)'
  BY <1>1, <1>2, <1>3, <1>4, ApartFromPane DEF Guarded
<1>9. \A p \in Panes : pane'[p].state = "agent" => pane[p].state = "agent"
  BY <1>1 DEF external
<1>10. QED
  BY <1>1, <1>3, <1>4, <1>6, <1>7, <1>8, <1>9, HoldGuards

(* What the guard saw of the worktree.                                       *)
LEMMA SeenSees ==
    ASSUME NEW t \in Tasks, LifecycleInv, Sees(t), cmd[t].pc \in HoldPcs,
           NEW a \in Attempts, a = cmd[t].att, attempt' = attempt, UNCHANGED <<work, pr>>,
           NEW l, l = attempt[a].worktree,
           NEW pc \in {"decide", "merge_state"}, NEW kind, NEW merged,
           cmd' = [cmd EXCEPT ![t].pc = pc, ![t].safe = (WorkIn(l).dirt = "scratch"),
                              ![t].kind = kind, ![t].merged = merged],
           task'[t].kind # "scout", pc = "decide" => Landed(t, l)'
    PROVE  Sees(t)' /\ \A s \in Tasks \ {t} : cmd'[s] = cmd[s]
<1>1. cmd \in [Tasks -> Command] /\ cmd[t] \in Command
  BY DEF LifecycleInv, CommandsTyped
<1>2. cmd[t].op = "teardown" /\ attempt[a].life \in LiveStates
  BY HoldRow
<1>3. PICK safe \in BOOLEAN : safe = (WorkIn(l).dirt = "scratch")
  OBVIOUS
<1>4. PICK c : c = [cmd[t] EXCEPT !.pc = pc, !.safe = safe, !.kind = kind, !.merged = merged]
  OBVIOUS
<1>5. c.pc = pc /\ c.op = cmd[t].op /\ c.att = cmd[t].att /\ c.safe = safe
  BY <1>1, <1>4 DEF Command
<1>6. cmd' = [cmd EXCEPT ![t] = c]
  BY <1>1, <1>3, <1>4
<1>7. cmd'[t] = c /\ \A s \in Tasks \ {t} : cmd'[s] = cmd[s]
  BY <1>1, <1>6
<1>8. cmd'[t].safe => ~Edited(attempt[cmd[t].att].worktree)'
  BY <1>3, <1>5, <1>7 DEF Edited, WorkIn
<1>9. pc = "decide" => Landed(t, attempt[cmd[t].att].worktree)'
  BY <1>5, <1>7 DEF Landed, Bare, WorkIn
<1>10. pc \in HoldPcs /\ pc # "record"
  BY DEF HoldPcs
<1>11. QED
  BY <1>2, <1>5, <1>7, <1>8, <1>9, <1>10 DEF Sees, Launchers

LEMMA ExamineGuards ==
    ASSUME NEW t \in Tasks, LifecycleInv, GuardInv, ExamineWork(t) \/ ObserveMergeState(t)
    PROVE  GuardInv'
<1>1. cmd[t].pc \in HoldPcs \ {"claim_pane", "close", "closed"} /\ UNCHANGED external
  BY DEF ExamineWork, ObserveMergeState, At, HoldPcs, StoreOnly, LocalOnly
<1>2. Sees(t) /\ Softens /\ UNCHANGED <<work, pr>>
  BY <1>1, StillSoft DEF GuardInv, external
<1>3. PICK a \in Attempts : /\ a = cmd[t].att /\ attempt[a].owner = t
                            /\ attempt[a].life \in LiveStates /\ cmd[t].op = "teardown"
  BY <1>1, <1>2, HoldRow
<1>4. PICK l : l = attempt[a].worktree
  OBVIOUS
<1>5. UNCHANGED storeVars \/ SetTaskPR(t)
  BY DEF ExamineWork, ObserveMergeState, LocalOnly
<1>6. /\ attempt' = attempt /\ Favours(t) /\ task'[t].kind = task[t].kind
      /\ \A s \in Tasks \ {t} : task'[s] = task[s]
  BY <1>2, <1>5, FactsFavour DEF storeVars, Favours
<1>7. Landed(t, l) => Landed(t, l)'
  BY <1>2, <1>6, LandedStays
<1>8. task[t].kind \in Kinds
  BY DEF LifecycleInv, StoreInv, StoreTypeOK, TaskRow
<1>9. Leave(t) => Sees(t)' /\ \A s \in Tasks \ {t} : cmd'[s] = cmd[s]
  BY LeavingSees, LeaveFacts
<1>10. ASSUME UNCHANGED storeVars, Goto(t, "decide"), Landed(t, l)
       PROVE  Sees(t)' /\ \A s \in Tasks \ {t} : cmd'[s] = cmd[s]
  <2>1. "decide" \in HoldPcs
    BY DEF HoldPcs
  <2>2. Alike(a) /\ task' = task
    BY <1>10 DEF Alike, storeVars
  <2>3. QED
    BY <1>1, <1>2, <1>3, <1>4, <1>10, <2>1, <2>2, HoldingOn
<1>11. ASSUME NEW pc \in {"decide", "merge_state"}, NEW kind, NEW merged,
              cmd' = [cmd EXCEPT ![t].pc = pc, ![t].safe = (WorkIn(l).dirt = "scratch"),
                                 ![t].kind = kind, ![t].merged = merged],
              task[t].kind = "ship", pc = "decide" => Landed(t, l)
       PROVE  Sees(t)' /\ \A s \in Tasks \ {t} : cmd'[s] = cmd[s]
  <2>1. task'[t].kind # "scout"
    BY <1>6, <1>11
  <2>2. pc = "decide" => Landed(t, l)'
    BY <1>7, <1>11
  <2>3. cmd[t].pc \in HoldPcs
    BY <1>1
  <2>4. QED
    BY <1>2, <1>3, <1>4, <1>6, <1>11, <2>1, <2>2, <2>3, SeenSees
<1>12. Sees(t)' /\ \A s \in Tasks \ {t} : cmd'[s] = cmd[s]
  <2>1. CASE ObserveMergeState(t)
    <3>1. pr[t] = "merged" => Landed(t, l)
      BY DEF Landed
    <3>2. UNCHANGED storeVars
      BY <2>1 DEF ObserveMergeState, LocalOnly
    <3>3. QED
      BY <1>9, <1>10, <2>1, <3>1, <3>2 DEF ObserveMergeState
  <2>2. CASE ExamineWork(t)
    <3>1. CASE task[t].kind = "scout"
      <4>1. Landed(t, l)
        BY <3>1 DEF Landed
      <4>2. QED
        BY <1>9, <1>10, <2>2, <3>1, <4>1 DEF ExamineWork
    <3>2. CASE task[t].kind = "ship"
      <4>1. "delivered" \in task[t].facts => Landed(t, l)
        BY DEF Landed
      <4>2. WorkIn(l).commits = "none" => Landed(t, l)
        BY DEF Landed, Bare
      <4> DEFINE Saw(pc, kind, merged) ==
                   cmd' = [cmd EXCEPT ![t].pc = pc, ![t].safe = (WorkIn(l).dirt = "scratch"),
                                      ![t].kind = kind, ![t].merged = merged]
      <4>3. CASE WorkIn(l).dirt = "dirty"
        BY <1>3, <1>4, <1>9, <2>2, <3>2, <4>3 DEF ExamineWork
      <4>4. CASE WorkIn(l).dirt # "dirty"
        <5>1. \/ "delivered" \in task[t].facts /\ Saw("decide", "ship", cmd[t].merged)
              \/ Saw("merge_state", "ship", cmd[t].merged)
              \/ Saw("merge_state", "ship", cmd[t].merged \/ pr[t] = "merged")
              \/ WorkIn(l).commits = "none" /\ Saw("decide", "scout", cmd[t].merged)
              \/ Leave(t)
          BY <1>3, <1>4, <2>2, <3>2, <4>4, Zenon DEF ExamineWork
        <5>2. ASSUME NEW pc \in {"decide", "merge_state"}, NEW kind, NEW merged,
                     Saw(pc, kind, merged), pc = "decide" => Landed(t, l)
              PROVE  Sees(t)' /\ \A s \in Tasks \ {t} : cmd'[s] = cmd[s]
          BY <1>11, <3>2, <5>2
        <5> HIDE DEF Saw
        <5>3. QED
          BY <1>9, <4>1, <4>2, <5>1, <5>2
      <4>5. QED
        BY <4>3, <4>4
    <3>3. QED
      BY <1>8, <3>1, <3>2 DEF Kinds
  <2>3. QED
    BY <2>1, <2>2
<1>13. Steps(t)
  BY <1>1, <1>2, <1>6, <1>12 DEF Steps, external
<1>14. \A p \in Panes : pane'[p].state = "agent" => pane[p].state = "agent"
  BY <1>1 DEF external
<1>15. QED
  BY <1>1, <1>6, <1>12, <1>13, <1>14, LookingHoldGuards

(* The decision: what the guard saw becomes what covers the worktree.        *)
LEMMA DecideGuards ==
    ASSUME NEW t \in Tasks, LifecycleInv, GuardInv, DecideTeardown(t)
    PROVE  GuardInv'
<1>1. cmd[t].pc = "decide" /\ cmd[t].pc \in HoldPcs /\ UNCHANGED external
      /\ Goto(t, "claim_pane")
  BY DEF DecideTeardown, At, HoldPcs, StoreOnly
<1>2. Sees(t) /\ (\A b \in Attempts : Guarded(b)) /\ Softens /\ UNCHANGED <<pr, pane>>
  BY <1>1, StillSoft DEF GuardInv, external
<1>3. PICK a \in Attempts : /\ a = cmd[t].att /\ attempt[a].owner = t
                            /\ attempt[a].life \in LiveStates /\ cmd[t].op = "teardown"
  BY <1>1, <1>2, HoldRow
<1>4. PICK d : /\ d = Decision(a, cmd[t].force, cmd[t].safe)
               /\ SetAttemptTeardownDecision(t, a, d.terminal, d.disposition)
  BY <1>3 DEF DecideTeardown
<1>5. /\ task' = task
      /\ \A b \in Attempts \ {a} : attempt'[b] = attempt[b]
      /\ attempt'[a].owner = attempt[a].owner
      /\ attempt'[a].worktree = attempt[a].worktree
      /\ attempt'[a].herdr = attempt[a].herdr
      /\ attempt'[a].submitted = attempt[a].submitted
      /\ attempt'[a].life = attempt[a].life
      /\ attempt'[a].disposition = d.disposition
      /\ attempt'[a].settle["herdr"] = ""
  BY <1>4, DecisionColumns
<1>6. PICK l : l = attempt[a].worktree /\ attempt'[a].worktree = l
  BY <1>5
<1>7. /\ cmd'[t].pc = "claim_pane" /\ cmd'[t].att = a
      /\ \A s \in Tasks \ {t} : cmd'[s] = cmd[s]
  BY <1>1, <1>3, GotoColumns
<1>8. Sees(t)'
  <2>1. "claim_pane" \in HoldPcs
    BY DEF HoldPcs
  <2>2. attempt'[cmd[t].att].worktree = attempt[cmd[t].att].worktree
        /\ attempt'[cmd[t].att].life \in LiveStates
    BY <1>3, <1>5
  <2>3. QED
    BY <1>1, <1>2, <1>3, <1>5, <2>1, <2>2, HoldingSees
<1>9. Steps(t) /\ Favours(t)
  BY <1>1, <1>2, <1>5, <1>7 DEF Steps, Favours, external
<1>10. Untouched(a)'
  BY <1>2, <1>5, StillUntouched DEF Guarded
<1>11. Starting(a)'
  BY <1>1, <1>2, <1>3, <1>5, StillStarting DEF Guarded
<1>12. Parting(a)'
  <2>1. Busy(a, {"claim_pane"})'
    BY <1>7 DEF Busy
  <2>2. QED
    BY <1>5, <2>1 DEF Parting, PartingPcs
<1>13. Covered(a)'
  <2>1. CASE cmd[t].force
    <3>1. d.disposition = "forced"
      BY <1>4, <2>1 DEF Decision
    <3>2. QED
      BY <1>5, <3>1 DEF Covered
  <2>2. CASE ~cmd[t].force
    <3>1. Landed(t, l)
      BY <1>1, <1>2, <1>3, <1>6, <2>2 DEF Sees
    <3>2. Landed(t, l)'
      BY <1>2, <1>9, <3>1, LandedStays
    <3>3. d.disposition = "completed-safe-dirt" => cmd[t].safe
      <4>1. CASE ~Launched(a)
        BY <1>4, <2>2, <4>1 DEF Decision
      <4>2. CASE Launched(a) /\ attempt[a].life = "provisioning"
        BY <1>4, <2>2, <4>2 DEF Decision
      <4>3. CASE Launched(a) /\ attempt[a].life = "running"
        BY <1>4, <2>2, <4>3 DEF Decision
      <4>4. QED
        BY <1>3, <4>1, <4>2, <4>3 DEF LiveStates
    <3>4. d.disposition = "completed-safe-dirt" => ~Edited(l)'
      <4>1. cmd[t].safe => ~Edited(l)
        BY <1>2, <1>3, <1>6 DEF Sees
      <4>2. Edited(l)' => Edited(l)
        BY <1>2, Softened
      <4>3. QED
        BY <3>3, <4>1, <4>2
    <3>5. attempt'[a].owner = t
      BY <1>3, <1>5
    <3>6. QED
      BY <1>5, <1>6, <3>2, <3>4, <3>5 DEF Covered, Landed, Edited, Bare, WorkIn
  <2>3. QED
    BY <2>1, <2>2
<1>14. Guarded(a)'
  BY <1>10, <1>11, <1>12, <1>13 DEF Guarded
<1>15. QED
  BY <1>2, <1>3, <1>5, <1>8, <1>9, <1>14, OwnStep

(* The release of the pane.                                                  *)
LEMMA PaneGuards ==
    ASSUME Attended, NEW t \in Tasks, LifecycleInv, GuardInv,
           ClaimPane(t) \/ ClosePane(t) \/ RecordPaneClosed(t)
    PROVE  GuardInv'
<1>1. Sees(t) /\ \A b \in Attempts : Guarded(b)
  BY DEF GuardInv
<1>2. cmd[t].pc \in {"claim_pane", "close", "closed", "close_failed"}
  BY DEF ClaimPane, ClosePane, RecordPaneClosed, At
<1>3. cmd[t].pc # "close_failed"
  <2>1. "close_failed" \notin HoldPcs /\ "close_failed" \notin ShipPcs /\ "close_failed" # "idle"
    BY DEF HoldPcs, ShipPcs, ScoutPcs, ScoutPanePcs, ScoutLeasePcs, LaunchPcs, LeasePcs, RunPcs
  <2>2. QED
    BY <1>1, <2>1 DEF Sees
<1>4. cmd[t].pc \in HoldPcs
  BY <1>2, <1>3 DEF HoldPcs
<1>5. PICK a \in Attempts : /\ a = cmd[t].att /\ attempt[a].owner = t
                            /\ attempt[a].life \in LiveStates /\ cmd[t].op = "teardown"
                            /\ attempt[a] \in AttemptRow
  BY <1>1, <1>4, HoldRow
<1>6. "herdr" \in Resources
  BY WorldAssumption
<1>7. UNCHANGED <<work, lease, pr>> /\ Softens
  BY StillSoft DEF ClaimPane, ClosePane, RecordPaneClosed, CloseTab, StoreOnly, external
<1>8. ASSUME NEW pc \in {"close", "closed", "claim_lease"}, Goto(t, pc), Alike(a), task' = task,
             \A b \in Attempts \ {a} : attempt'[b] = attempt[b], Parting(a)',
             \A p \in Panes : pane'[p].state = "agent" => pane[p].state = "agent"
      PROVE  GuardInv'
  <2>1. pc \in HoldPcs /\ pc # "decide"
    BY DEF HoldPcs
  <2>2. Sees(t)' /\ \A s \in Tasks \ {t} : cmd'[s] = cmd[s]
    BY <1>1, <1>4, <1>5, <1>7, <1>8, <2>1, HoldingOn
  <2>3. Steps(t) /\ Favours(t)
    BY <1>7, <1>8, <2>2 DEF Steps, Favours
  <2>4. QED
    BY <1>4, <1>5, <1>8, <2>2, <2>3, HoldGuards
<1>9. Ending(a) /\ PaneUnsettled(a) => cmd[t].pc \in PartingPcs(a)
  BY <1>1, <1>5, PartingWhere DEF Guarded
<1>10. CASE ClaimPane(t)
  <2>1. cmd[t].pc = "claim_pane" /\ UNCHANGED pane
    BY <1>10 DEF ClaimPane, At, StoreOnly, external
  <2>2. \A p \in Panes : pane'[p].state = "agent" => pane[p].state = "agent"
    BY <2>1
  <2>3. CASE SetResource(t, a, "herdr", "releasing") /\ Goto(t, "close")
    <3>1. /\ Alike(a) /\ task' = task
          /\ \A b \in Attempts \ {a} : attempt'[b] = attempt[b]
          /\ attempt'[a].settle["herdr"] = "releasing"
      BY <1>6, <2>3, SettleColumns
    <3>2. Busy(a, {"close", "closed"})'
      BY <1>5, <2>3, GotoColumns DEF Busy
    <3>3. Parting(a)'
      BY <3>1, <3>2 DEF Parting, PartingPcs
    <3>4. QED
      BY <1>8, <2>2, <2>3, <3>1, <3>3
  <2>4. CASE /\ ~(PaneUnsettled(a) /\ attempt[a].settle["herdr"] \notin {"releasing", "ambiguous"})
             /\ UNCHANGED storeVars /\ Goto(t, "claim_lease")
    <3>1. ~(Ending(a) /\ PaneUnsettled(a))
      BY <1>9, <2>1, <2>4 DEF PartingPcs
    <3>2. attempt' = attempt /\ task' = task /\ Alike(a)
      BY <2>4 DEF storeVars, Alike
    <3>3. Parting(a)'
      BY <3>1, <3>2 DEF Parting, Ending, PaneUnsettled
    <3>4. QED
      BY <1>8, <2>2, <2>4, <3>2, <3>3
  <2>5. QED
    BY <1>5, <1>10, <2>3, <2>4 DEF ClaimPane
<1>11. CASE ClosePane(t)
  <2>1. cmd[t].pc = "close" /\ UNCHANGED storeVars
    BY <1>11 DEF ClosePane, At, WorldOnly
  <2>2. CloseTab(attempt[a].herdr, "ok") /\ Goto(t, "closed")
    BY <1>5, <1>11 DEF ClosePane, CloseTab, Attended
  <2>3. pane' = [pane EXCEPT ![attempt[a].herdr].state = "gone"]
    BY <2>2 DEF CloseTab
  <2>4. pane \in [Panes -> [state : {"unissued", "shell", "agent", "gone", "foreign"},
                            cwd : Leases \union {NoLease}]]
    BY DEF LifecycleInv, WorldTyped
  <2>5. \A p \in Panes : pane'[p].state = "agent" => pane[p].state = "agent"
    BY <2>3, <2>4
  <2>6. attempt' = attempt /\ task' = task /\ Alike(a)
    BY <2>1 DEF storeVars, Alike
  <2>7. Busy(a, {"close", "closed"})'
    BY <1>5, <2>2, GotoColumns DEF Busy
  <2>8. Ending(a) /\ PaneUnsettled(a) => attempt[a].settle["herdr"] # ""
    BY <1>9, <2>1 DEF PartingPcs
  <2>9. Parting(a)'
    BY <2>6, <2>7, <2>8 DEF Parting, PartingPcs, Ending, PaneUnsettled
  <2>10. QED
    BY <1>8, <2>2, <2>5, <2>6, <2>9
<1>12. CASE RecordPaneClosed(t)
  <2>1. cmd[t].pc = "closed" /\ UNCHANGED pane /\ Goto(t, "claim_lease")
    BY <1>3, <1>12 DEF RecordPaneClosed, At, StoreOnly, external
  <2>2. SetResource(t, a, "herdr", "released")
    BY <1>5, <1>12, <2>1 DEF RecordPaneClosed, At
  <2>3. /\ Alike(a) /\ task' = task
        /\ \A b \in Attempts \ {a} : attempt'[b] = attempt[b]
        /\ attempt'[a].settle["herdr"] = "released"
    BY <1>6, <2>2, SettleColumns
  <2>4. Parting(a)'
    BY <2>3 DEF Parting, PaneUnsettled, Settled
  <2>5. QED
    BY <1>8, <2>1, <2>3, <2>4
<1>13. QED
  BY <1>10, <1>11, <1>12

(* The release of the worktree, and the record of the end.                   *)
LEMMA ReleaseGuards ==
    ASSUME NEW t \in Tasks, LifecycleInv, GuardInv,
           \/ ClaimLease(t) \/ ReturnWorktree(t) \/ RecordReturned(t)
           \/ AppendCompletion(t) \/ RecordAppended(t)
    PROVE  GuardInv'
<1>1. Sees(t) /\ \A b \in Attempts : Guarded(b)
  BY DEF GuardInv
<1>2. cmd[t].pc \in HoldPcs /\ cmd[t].pc \notin {"claim_pane", "close", "closed"}
  BY DEF ClaimLease, ReturnWorktree, RecordReturned, AppendCompletion, RecordAppended, At, HoldPcs
<1>3. PICK a \in Attempts : /\ a = cmd[t].att /\ attempt[a].owner = t
                            /\ attempt[a].life \in LiveStates /\ cmd[t].op = "teardown"
                            /\ attempt[a] \in AttemptRow
  BY <1>1, <1>2, HoldRow
<1>4. "worktree" \in Resources /\ "worktree" # "herdr"
  BY WorldAssumption
<1>5. /\ Softens /\ UNCHANGED <<pane, pr>>
      /\ \A m \in Leases : lease'[m] = "unissued" => lease[m] = "unissued"
  <2>1. CASE ReturnWorktree(t)
    BY <2>1, ReturnSoftens DEF ReturnWorktree
  <2>2. CASE \/ ClaimLease(t) \/ RecordReturned(t) \/ AppendCompletion(t) \/ RecordAppended(t)
    <3>1. UNCHANGED external
      BY <2>2 DEF ClaimLease, RecordReturned, AppendCompletion, RecordAppended, StoreOnly
    <3>2. QED
      BY <3>1, StillSoft DEF external
  <2>3. QED
    BY <2>1, <2>2
<1>6. /\ Alike(a) /\ task' = task /\ attempt'[a].settle["herdr"] = attempt[a].settle["herdr"]
      /\ \A b \in Attempts \ {a} : attempt'[b] = attempt[b]
  <2>1. CASE UNCHANGED storeVars
    BY <2>1 DEF storeVars, Alike
  <2>2. ASSUME NEW next, SetResource(t, a, "worktree", next)
        PROVE  /\ Alike(a) /\ task' = task
               /\ attempt'[a].settle["herdr"] = attempt[a].settle["herdr"]
               /\ \A b \in Attempts \ {a} : attempt'[b] = attempt[b]
    BY <1>4, <2>2, SettleColumns
  <2>3. CASE SetAttemptTeardownCompletionState(t, a, attempt[a].life, "appended")
    BY <2>3, CompletionColumns
  <2>4. CASE ClaimLease(t)
    <3>1. \/ UNCHANGED storeVars
          \/ \E next : SetResource(t, a, "worktree", next)
      BY <1>3, <2>4 DEF ClaimLease, SetResourceOrRepeat
    <3>2. QED
      BY <2>1, <2>2, <3>1
  <2>5. CASE ReturnWorktree(t) \/ AppendCompletion(t)
    BY <2>1, <2>5 DEF ReturnWorktree, AppendCompletion, WorldOnly
  <2>6. CASE RecordReturned(t)
    BY <1>3, <2>2, <2>6 DEF RecordReturned
  <2>7. CASE RecordAppended(t)
    BY <1>3, <2>3, <2>7 DEF RecordAppended
  <2>8. QED
    BY <2>4, <2>5, <2>6, <2>7
<1>7. Sees(t)' /\ \A s \in Tasks \ {t} : cmd'[s] = cmd[s]
  <2>1. CASE Leave(t)
    BY <2>1, LeavingSees, LeaveFacts
  <2>2. ASSUME NEW pc \in {"facts", "return", "return_ok", "return_aborted", "return_error",
                           "appended", "finish"}, Goto(t, pc)
        PROVE  Sees(t)' /\ \A s \in Tasks \ {t} : cmd'[s] = cmd[s]
    <3>1. pc \in HoldPcs /\ pc # "decide"
      BY DEF HoldPcs
    <3>2. QED
      BY <1>1, <1>2, <1>3, <1>5, <1>6, <2>2, <3>1, HoldingOn
  <2>3. CASE ClaimLease(t)
    BY <2>1, <2>2, <2>3 DEF ClaimLease
  <2>4. CASE ReturnWorktree(t) \/ RecordReturned(t) \/ AppendCompletion(t) \/ RecordAppended(t)
    BY <2>1, <2>2, <2>4 DEF ReturnWorktree, RecordReturned, AppendCompletion, RecordAppended
  <2>5. QED
    BY <2>3, <2>4
<1>8. Steps(t) /\ Favours(t)
  BY <1>5, <1>6, <1>7 DEF Steps, Favours
<1>9. Parting(a)'
  BY <1>1, <1>2, <1>3, <1>6, ApartFromPane DEF Guarded
<1>10. \A p \in Panes : pane'[p].state = "agent" => pane[p].state = "agent"
  BY <1>5
<1>11. QED
  BY <1>2, <1>3, <1>6, <1>7, <1>8, <1>9, <1>10, HoldGuards

(* What the guard found out is recorded of the task.                         *)
LEMMA FactsGuards ==
    ASSUME NEW t \in Tasks, LifecycleInv, GuardInv, RecordFacts(t)
    PROVE  GuardInv'
<1>1. cmd[t].pc = "facts" /\ cmd[t].pc \in HoldPcs /\ UNCHANGED external
  BY DEF RecordFacts, At, HoldPcs, StoreOnly
<1>2. Sees(t) /\ (\A b \in Attempts : Guarded(b)) /\ Softens /\ UNCHANGED <<work, pane, pr>>
  BY <1>1, StillSoft DEF GuardInv, external
<1>3. PICK a \in Attempts : /\ a = cmd[t].att /\ attempt[a].owner = t
                            /\ attempt[a].life \in LiveStates /\ cmd[t].op = "teardown"
  BY <1>1, <1>2, HoldRow
<1>4. \A p \in Panes : pane'[p].state = "agent" => pane[p].state = "agent"
  BY <1>2
<1>5. CASE \/ SetAttemptTeardownCompletionState(t, a, attempt[a].life, "pending") /\ Goto(t, "append")
           \/ UNCHANGED storeVars /\ Goto(t, "append")
  <2>1. /\ Alike(a) /\ task' = task /\ attempt'[a].settle["herdr"] = attempt[a].settle["herdr"]
        /\ \A b \in Attempts \ {a} : attempt'[b] = attempt[b]
    <3>1. CASE UNCHANGED storeVars
      BY <3>1 DEF storeVars, Alike
    <3>2. CASE SetAttemptTeardownCompletionState(t, a, attempt[a].life, "pending")
      BY <3>2, CompletionColumns
    <3>3. QED
      BY <1>5, <3>1, <3>2
  <2>2. "append" \in HoldPcs
    BY DEF HoldPcs
  <2>3. Sees(t)' /\ \A s \in Tasks \ {t} : cmd'[s] = cmd[s]
    BY <1>1, <1>2, <1>3, <1>5, <2>1, <2>2, HoldingOn
  <2>4. Steps(t) /\ Favours(t)
    BY <1>1, <1>2, <2>1, <2>3 DEF Steps, Favours, external
  <2>5. Parting(a)'
    BY <1>1, <1>2, <1>3, <2>1, ApartFromPane DEF Guarded
  <2>6. QED
    BY <1>1, <1>3, <1>4, <2>1, <2>3, <2>4, <2>5, HoldGuards
<1>6. CASE UNCHANGED cmd /\ (SetTaskKind(t, cmd[t].kind) \/ SetTaskMergeAnnounced(t))
  <2>1. /\ attempt' = attempt /\ Favours(t)
        /\ task'[t].kind = "scout" => cmd[t].kind = "scout"
        /\ \A s \in Tasks \ {t} : task'[s] = task[s]
    <3>1. task[t].kind = "scout" => cmd[t].kind = "scout"
      BY <1>2, <1>3 DEF Sees
    <3>2. CASE SetTaskMergeAnnounced(t)
      BY <1>2, <3>1, <3>2, FactsFavour
    <3>3. CASE SetTaskKind(t, cmd[t].kind)
      <4>1. task \in [Tasks -> TaskRow] /\ task[t] \in TaskRow
        BY DEF LifecycleInv, StoreInv, StoreTypeOK
      <4>2. task' = [task EXCEPT ![t].kind = cmd[t].kind] /\ attempt' = attempt
        BY <3>3 DEF SetTaskKind
      <4>3. task'[t].kind = cmd[t].kind /\ task'[t].facts = task[t].facts
            /\ \A s \in Tasks \ {t} : task'[s] = task[s]
        BY <4>1, <4>2 DEF TaskRow
      <4>4. QED
        BY <1>2, <3>1, <4>2, <4>3 DEF Favours
    <3>4. QED
      BY <1>6, <3>2, <3>3
  <2>2. cmd' = cmd
    BY <1>6
  <2>3. Sees(t)'
    <3>1. cmd[t].safe => ~Edited(attempt[cmd[t].att].worktree)
      BY <1>2, <1>3 DEF Sees
    <3>2. cmd[t].safe => ~Edited(attempt[cmd[t].att].worktree)'
      BY <1>2, <2>1, <2>2, <3>1 DEF Edited, WorkIn
    <3>3. QED
      BY <1>1, <1>3, <2>1, <2>2, <3>2 DEF Sees, Launchers
  <2>4. Steps(t)
    BY <1>1, <1>2, <2>1, <2>2 DEF Steps, external
  <2>5. QED
    BY <1>1, <1>4, <2>1, <2>3, <2>4, LookingHoldGuards
<1>7. QED
  BY <1>3, <1>5, <1>6 DEF RecordFacts

(* The end.                                                                  *)
LEMMA FinishGuards ==
    ASSUME NEW t \in Tasks, LifecycleInv, GuardInv, FinishTeardown(t)
    PROVE  GuardInv'
<1>1. cmd[t].pc = "finish" /\ cmd[t].pc \in HoldPcs /\ UNCHANGED external /\ Leave(t)
  BY DEF FinishTeardown, At, HoldPcs, StoreOnly
<1>2. Sees(t) /\ (\A b \in Attempts : Guarded(b)) /\ Softens /\ UNCHANGED <<work, pane, pr>>
  BY <1>1, StillSoft DEF GuardInv, external
<1>3. PICK a \in Attempts : a = cmd[t].att /\ attempt[a].owner = t /\ attempt[a] \in AttemptRow
  BY <1>1, <1>2, HoldRow
<1>4. PICK to : TerminalizeTaskAndAttempt(t, a, attempt[a].life, to)
  BY <1>3 DEF FinishTeardown
<1>5. /\ attempt' = [attempt EXCEPT ![a].life = to] /\ to \notin LiveStates
      /\ task' = [task EXCEPT ![t].life = "terminal", ![t].active = NoAttempt]
  BY <1>4 DEF TerminalizeTaskAndAttempt
<1>6. attempt \in [Attempts -> AttemptRow] /\ task \in [Tasks -> TaskRow] /\ task[t] \in TaskRow
  BY DEF LifecycleInv, StoreInv, StoreTypeOK
<1>7. /\ attempt'[a].worktree = attempt[a].worktree /\ attempt'[a].herdr = attempt[a].herdr
      /\ attempt'[a].submitted = attempt[a].submitted /\ attempt'[a].life = to
      /\ \A b \in Attempts \ {a} : attempt'[b] = attempt[b]
  BY <1>3, <1>5, <1>6 DEF AttemptRow
<1>8. /\ task'[t].kind = task[t].kind /\ task'[t].facts = task[t].facts
      /\ \A s \in Tasks \ {t} : task'[s] = task[s]
  BY <1>5, <1>6 DEF TaskRow
<1>9. Sees(t)' /\ \A s \in Tasks \ {t} : cmd'[s] = cmd[s]
  BY <1>1, LeavingSees, LeaveFacts
<1>10. Steps(t) /\ Favours(t)
  BY <1>1, <1>2, <1>8, <1>9 DEF Steps, Favours, external
<1>11. Untouched(a)'
  BY <1>2, <1>7, StillUntouched DEF Guarded
<1>12. Starting(a)'
  BY <1>1, <1>2, <1>3, <1>7, StillStarting DEF Guarded
<1>13. Guarded(a)'
  BY <1>5, <1>7, <1>11, <1>12 DEF Guarded, Parting, Covered, Ending
<1>14. QED
  BY <1>2, <1>3, <1>7, <1>9, <1>10, <1>13, OwnStep

(* Steps of nobody who works on an attempt.                                  *)
LEMMA IdleGuards ==
    ASSUME NEW t \in Tasks, LifecycleInv, GuardInv, cmd[t] = Idle, attempt' = attempt,
           Favours(t), UNCHANGED external, Sees(t)',
           \A s \in Tasks \ {t} : cmd'[s] = cmd[s] /\ task'[s] = task[s]
    PROVE  GuardInv'
<1>1. Idle.att = NoAttempt /\ NoAttempt \notin Attempts
  BY StoreAssumption DEF Idle, Attempts
<1>2. \A b \in Attempts : Aside(t, b)
  BY <1>1 DEF Aside, external
<1>3. Steps(t)
  BY StillSoft DEF Steps, external
<1>4. QED
  BY <1>2, <1>3, StepGuards

LEMMA NotingGuards ==
    ASSUME NEW t \in Tasks, LifecycleInv, GuardInv, RecordPR(t) \/ Deliver(t)
    PROVE  GuardInv'
<1>1. /\ cmd[t] = Idle /\ cmd' = cmd /\ UNCHANGED external /\ pr' = pr
      /\ SetTaskPR(t) \/ SetTaskDelivery(t)
  BY DEF RecordPR, Deliver, StoreOnly, external
<1>2. /\ Favours(t) /\ attempt' = attempt
      /\ \A s \in Tasks \ {t} : cmd'[s] = cmd[s] /\ task'[s] = task[s]
  BY <1>1, FactsFavour
<1>3. cmd'[t].op = "none" /\ cmd'[t].pc = "idle"
  BY <1>1 DEF Idle
<1>4. Sees(t)'
  BY <1>3 DEF Sees, Launchers
<1>5. QED
  BY <1>1, <1>2, <1>4, IdleGuards

LEMMA ReportGuards ==
    ASSUME NEW t \in Tasks, LifecycleInv, GuardInv, RecordReport(t)
    PROVE  GuardInv'
<1>1. UNCHANGED <<task, cmd>> /\ UNCHANGED <<lease, work, pane, pr>>
  BY ReportRow DEF RecordReport, StoreOnly, external
<1>2. ASSUME NEW b \in Attempts
      PROVE  Alike(b) /\ attempt'[b].settle = attempt[b].settle
  <2>1. PICK a \in Attempts : \E next :
            /\ attempt' = [attempt EXCEPT ![a] = next]
            /\ next.owner = attempt[a].owner /\ next.worktree = attempt[a].worktree
            /\ next.herdr = attempt[a].herdr /\ next.submitted = attempt[a].submitted
            /\ next.life = attempt[a].life /\ next.decided = attempt[a].decided
            /\ next.disposition = attempt[a].disposition /\ next.settle = attempt[a].settle
    BY ReportRow
  <2>2. PICK row :
            /\ attempt' = [attempt EXCEPT ![a] = row]
            /\ row.owner = attempt[a].owner /\ row.worktree = attempt[a].worktree
            /\ row.herdr = attempt[a].herdr /\ row.submitted = attempt[a].submitted
            /\ row.life = attempt[a].life /\ row.decided = attempt[a].decided
            /\ row.disposition = attempt[a].disposition /\ row.settle = attempt[a].settle
    BY <2>1
  <2>3. attempt'[b] = attempt[b] \/ (b = a /\ attempt'[b] = row)
    BY <2>2 DEF LifecycleInv, StoreInv, StoreTypeOK
  <2>4. QED
    BY <2>2, <2>3 DEF Alike
<1>3. Softens /\ \A s \in Tasks : Favours(s)
  BY <1>1, StillSoft DEF Favours
<1>4. ASSUME NEW b \in Attempts
      PROVE  Guarded(b)'
  <2>1. Guarded(b) /\ Alike(b) /\ attempt'[b].settle = attempt[b].settle
    BY <1>2 DEF GuardInv
  <2>2. PICK l : l = attempt[b].worktree /\ attempt'[b].worktree = l
    BY <2>1 DEF Alike
  <2>3. Untouched(b)'
    BY <1>3, <2>1, StillUntouched DEF Guarded, Alike
  <2>4. Starting(b)'
    BY <1>1, <2>1 DEF Guarded, Starting, Staffed, Agent, Busy, Alike
  <2>5. Parting(b)'
    BY <1>1, <2>1 DEF Guarded, Parting, PartingPcs, Ending, PaneUnsettled, Busy, Alike
  <2>6. Covered(b)'
    <3>1. Ending(b) => attempt[b].owner \in Tasks
      BY DEF Ending, LifecycleInv, StoreInv, OneOwner
    <3>2. ASSUME Ending(b), Landed(attempt[b].owner, l)
          PROVE  Landed(attempt[b].owner, l)'
      <4>1. PICK s \in Tasks : s = attempt[b].owner
        BY <3>1, <3>2
      <4>2. Landed(s, l)'
        BY <1>3, <3>2, <4>1, LandedStays
      <4>3. attempt'[b].owner = s
        BY <2>1, <4>1 DEF Alike
      <4>4. QED
        BY <4>2, <4>3 DEF Landed, Bare, Edited, WorkIn
    <3>3. Edited(l)' => Edited(l)
      BY <1>3, Softened
    <3>4. QED
      BY <2>1, <2>2, <3>2, <3>3
         DEF Guarded, Covered, Alike, Ending, Landed, Edited, Bare, WorkIn
  <2>7. QED
    BY <2>3, <2>4, <2>5, <2>6 DEF Guarded
<1>5. ASSUME NEW s \in Tasks
      PROVE  Sees(s)'
  <2>1. Sees(s) /\ cmd'[s] = cmd[s] /\ task' = task
    BY <1>1 DEF GuardInv
  <2>2. \A b \in Attempts : /\ attempt'[b].life = attempt[b].life
                            /\ attempt'[b].worktree = attempt[b].worktree
    BY <1>2 DEF Alike
  <2>3. cmd[s].op = "teardown" => cmd[s].att \in Attempts
    BY <2>1, HoldRow DEF Sees
  <2>4. QED
    BY <1>1, <2>1, <2>2, <2>3 DEF Sees, Landed, Edited, Bare, WorkIn
<1>6. \A l \in Leases : lease'[l] = "unissued" => Bare(l)'
  BY <1>1 DEF GuardInv, Bare, WorkIn
<1>7. QED
  BY <1>4, <1>5, <1>6 DEF GuardInv

LEMMA StartGuards ==
    ASSUME NEW t \in Tasks, LifecycleInv, GuardInv, NEW force \in BOOLEAN, StartTeardown(t, force)
    PROVE  GuardInv'
<1>1. /\ cmd[t] = Idle /\ task[t].active # NoAttempt /\ UNCHANGED storeVars /\ UNCHANGED external
      /\ cmd' = [cmd EXCEPT ![t] = [Idle EXCEPT !.op = "teardown", !.pc = "recover",
                                    !.att = task[t].active, !.force = force,
                                    !.kind = task[t].kind, !.merged = Merged(t)]]
  BY DEF StartTeardown, LocalOnly
<1>2. PICK a \in Attempts : a = task[t].active /\ attempt[a].life \in LiveStates
  BY <1>1, ActiveFacts
<1>3. PICK m : m = Merged(t)
  OBVIOUS
<1>4. PICK c : c = [Idle EXCEPT !.op = "teardown", !.pc = "recover", !.att = a, !.force = force,
                                !.kind = task[t].kind, !.merged = m]
  OBVIOUS
<1>5. /\ c.op = "teardown" /\ c.pc = "recover" /\ c.att = a /\ c.safe = FALSE
      /\ c.kind = task[t].kind
  BY <1>4 DEF Idle
<1>6. cmd'[t] = c /\ \A s \in Tasks \ {t} : cmd'[s] = cmd[s]
  BY <1>1, <1>2, <1>3, <1>4 DEF LifecycleInv, CommandsTyped
<1>7. "recover" \in HoldPcs
  BY DEF HoldPcs
<1>8. task' = task /\ attempt' = attempt /\ pr' = pr
  BY <1>1 DEF storeVars, external
<1>9. Sees(t)'
  BY <1>2, <1>5, <1>6, <1>7, <1>8 DEF Sees, Launchers
<1>10. Favours(t)
  BY <1>8 DEF Favours
<1>11. QED
  BY <1>1, <1>6, <1>8, <1>9, <1>10, IdleGuards

LEMMA TeardownGuards ==
    ASSUME Attended, NEW t \in Tasks, LifecycleInv, GuardInv, TeardownStep(t)
    PROVE  GuardInv'
BY StartGuards, RecoverGuards, ExamineGuards, DecideGuards, PaneGuards, ReleaseGuards, FactsGuards,
   FinishGuards DEF TeardownStep

-----------------------------------------------------------------------------
(* The world on its own.                                                     *)

LEMMA MildGuards ==
    ASSUME LifecycleInv, GuardInv, Softens, UNCHANGED <<task, attempt, cmd>>,
           \A t \in Tasks : pr[t] = "merged" => pr'[t] = "merged",
           \A p \in Panes : pane'[p].state = "agent" => pane[p].state = "agent",
           \A l \in Leases : lease'[l] = "unissued" => lease[l] = "unissued"
    PROVE  GuardInv'
<1>1. \A t \in Tasks : Favours(t)
  BY DEF Favours
<1>2. ASSUME NEW b \in Attempts
      PROVE  Guarded(b)'
  <2>1. Guarded(b)
    BY DEF GuardInv
  <2>2. Ending(b) => Favours(attempt[b].owner)
    BY <1>1 DEF Ending, LifecycleInv, StoreInv, OneOwner
  <2>3. attempt[b].herdr # NoPane =>
            (pane'[attempt[b].herdr].state = "agent" => pane[attempt[b].herdr].state = "agent")
    BY RowFacts
  <2>4. attempt'[b] = attempt[b] /\ \A s \in Tasks : cmd[s].att = b => cmd'[s] = cmd[s]
    OBVIOUS
  <2>5. QED
    BY <2>1, <2>2, <2>3, <2>4, RowStays
<1>3. ASSUME NEW s \in Tasks
      PROVE  Sees(s)'
  <2>1. Sees(s)
    BY DEF GuardInv
  <2>2. PICK l : l = attempt[cmd[s].att].worktree
    OBVIOUS
  <2>3. (Landed(s, l) => Landed(s, l)') /\ (Edited(l)' => Edited(l))
    BY <1>1, LandedStays, Softened
  <2>4. PICK m : m = cmd[s].lease
    OBVIOUS
  <2>5. Bare(m) => Bare(m)'
    BY Softened
  <2>6. Bare(cmd[s].lease) => Bare(cmd[s].lease)'
    BY <2>4, <2>5 DEF Bare, WorkIn
  <2>7. Landed(s, attempt[cmd[s].att].worktree) => Landed(s, attempt[cmd[s].att].worktree)'
    BY <2>2, <2>3 DEF Landed, Bare, WorkIn
  <2>8. ~Edited(attempt[cmd[s].att].worktree) => ~Edited(attempt[cmd[s].att].worktree)'
    BY <2>2, <2>3 DEF Edited, WorkIn
  <2>9. QED
    BY <2>1, <2>6, <2>7, <2>8 DEF Sees
<1>4. \A l \in Leases : lease'[l] = "unissued" => Bare(l)'
  BY DEF GuardInv, Softens
<1>5. QED
  BY <1>2, <1>3, <1>4 DEF GuardInv

(* An agent works where its pane is recorded, its launch was submitted, and  *)
(* nobody has decided that it ends.                                          *)
LEMMA WorkingGuards ==
    ASSUME Attended, LifecycleInv, GuardInv, NEW p \in Panes, AgentWorks(p),
           UNCHANGED <<task, attempt, cmd>>
    PROVE  GuardInv'
<1>1. /\ pane[p].state = "agent" /\ lease[pane[p].cwd] = "held"
      /\ UNCHANGED <<lease, pane, pr>>
  BY DEF AgentWorks
<1>2. \A t \in Tasks : cmd[t].op = "none" /\ cmd[t].pc = "idle"
  BY DEF AgentWorks, Calm, Attended, GuardInv, Sees
<1>3. Opened(p)
  BY <1>1 DEF Opened
<1>4. PICK l \in Leases : l = pane[p].cwd
  BY <1>3 DEF LifecycleInv, Recorded
<1>5. \A m \in Leases \ {l} : work'[m] = work[m]
  <2>1. PICK w : work' = [work EXCEPT ![l] = w]
    BY <1>4 DEF AgentWorks
  <2>2. work \in [Leases -> Worktree]
    BY DEF LifecycleInv, WorldTyped
  <2>3. QED
    BY <2>1, <2>2
<1>6. PICK b \in Attempts : attempt[b].herdr = p /\ PaneUnsettled(b)
  BY <1>1 DEF LifecycleInv, AgentsAreClaimed
<1>7. p # NoPane
  BY StoreAssumption
<1>8. Guarded(b)
  BY DEF GuardInv
<1>9. attempt[b].submitted
  <2>1. Staffed(b)
    BY <1>1, <1>6, <1>7 DEF Staffed, Agent
  <2>2. ~Busy(b, {"submit", "close_pane"})
    BY <1>2 DEF Busy
  <2>3. QED
    BY <1>8, <2>1, <2>2 DEF Guarded, Starting
<1>10. ~Ending(b)
  <2>1. ~Busy(b, PartingPcs(b))
    BY <1>2 DEF Busy, PartingPcs
  <2>2. QED
    BY <1>6, <1>8, <2>1 DEF Guarded, Parting
<1>11. ASSUME NEW a \in Attempts
       PROVE  Guarded(a)'
  <2>1. Guarded(a)
    BY DEF GuardInv
  <2>2. Starting(a)'
    BY <1>1, <2>1 DEF Guarded, Starting, Staffed, Agent, Busy
  <2>3. Parting(a)'
    BY <1>1, <2>1 DEF Guarded, Parting, Ending, PaneUnsettled, PartingPcs, Busy
  <2>4. Untouched(a)' /\ Covered(a)'
    <3>1. CASE attempt[a].worktree = l
      <4>1. Holds(a, l) /\ Holds(b, l)
        BY <1>4, <1>6, <1>7, <3>1 DEF Holds
      <4>2. a = b
        BY <4>1 DEF LifecycleInv, Apart
      <4>3. QED
        BY <1>9, <1>10, <4>2 DEF Untouched, Covered, Ending
    <3>2. CASE attempt[a].worktree # l
      <4>1. PICK m : m = attempt[a].worktree /\ m # l
        BY <3>2
      <4>2. WorkIn(m)' = WorkIn(m)
        BY <1>5, <4>1 DEF WorkIn
      <4>3. Untouched(a)'
        BY <2>1, <4>1, <4>2 DEF Guarded, Untouched, Bare, WorkIn
      <4>4. Covered(a)'
        BY <1>1, <2>1, <4>1, <4>2 DEF Guarded, Covered, Ending, Landed, Bare, Edited, WorkIn
      <4>5. QED
        BY <4>3, <4>4
    <3>3. QED
      BY <3>1, <3>2
  <2>5. QED
    BY <2>2, <2>3, <2>4 DEF Guarded
<1>12. ASSUME NEW s \in Tasks
       PROVE  Sees(s)'
  BY <1>2 DEF Sees, Launchers
<1>13. ASSUME NEW m \in Leases, lease'[m] = "unissued"
       PROVE  Bare(m)'
  <2>1. m # l /\ lease[m] = "unissued"
    BY <1>1, <1>4, <1>13
  <2>2. QED
    BY <1>5, <2>1 DEF GuardInv, Bare, WorkIn
<1>14. QED
  BY <1>11, <1>12, <1>13 DEF GuardInv

LEMMA WorldGuards ==
    ASSUME Attended, LifecycleInv, GuardInv, WorldStep
    PROVE  GuardInv'
<1>1. UNCHANGED <<task, attempt, cmd>>
  BY DEF WorldStep, storeVars
<1>2. /\ lease \in [Leases -> {"unissued", "held", "free", "foreign"}]
      /\ work \in [Leases -> Worktree]
      /\ pane \in [Panes -> [state : {"unissued", "shell", "agent", "gone", "foreign"},
                             cwd : Leases \union {NoLease}]]
      /\ pr \in [Tasks -> {"none", "open", "merged"}]
  BY DEF LifecycleInv, WorldTyped
<1>3. ASSUME NEW p \in Panes, AgentWorks(p)
      PROVE  GuardInv'
  BY <1>1, <1>3, WorkingGuards
<1>4. ASSUME NEW p \in Panes, WorkerExits(p) \/ PaneTaken(p)
      PROVE  GuardInv'
  <2>1. PICK s \in {"shell", "gone", "foreign"} : pane' = [pane EXCEPT ![p].state = s]
    BY <1>4 DEF WorkerExits, PaneTaken
  <2>2. \A q \in Panes : pane'[q].state = "agent" => pane[q].state = "agent"
    BY <1>2, <2>1
  <2>3. UNCHANGED <<lease, work, pr>> /\ Softens
    BY <1>4, StillSoft DEF WorkerExits, PaneTaken
  <2>4. QED
    BY <1>1, <2>2, <2>3, MildGuards
<1>5. ASSUME NEW t \in Tasks, AgentReports(t) \/ AgentOpensPR(t) \/ PRMerges(t)
      PROVE  GuardInv'
  <2>1. UNCHANGED <<lease, work, pane>> /\ Softens
    BY <1>5, StillSoft DEF AgentReports, AgentOpensPR, PRMerges
  <2>2. \A s \in Tasks : pr[s] = "merged" => pr'[s] = "merged"
    BY <1>2, <1>5 DEF AgentReports, AgentOpensPR, PRMerges
  <2>3. QED
    BY <1>1, <2>1, <2>2, MildGuards
<1>6. ASSUME NEW l \in Leases, LeaseLost(l) \/ LeaseTaken(l)
      PROVE  GuardInv'
  <2>1. UNCHANGED <<work, pane, pr>> /\ Softens
    BY <1>6, StillSoft DEF LeaseLost, LeaseTaken
  <2>2. \A m \in Leases : lease'[m] = "unissued" => lease[m] = "unissued"
    BY <1>2, <1>6 DEF LeaseLost, LeaseTaken
  <2>3. QED
    BY <1>1, <2>1, <2>2, MildGuards
<1>7. ASSUME NEW l \in Leases, OperatorRescues(l)
      PROVE  GuardInv'
  <2>1. UNCHANGED <<lease, pane, pr>>
        /\ work' = [work EXCEPT ![l] = [dirt |-> "clean", commits |-> "pushed"]]
    BY <1>7 DEF OperatorRescues
  <2>2. PICK w : w = [dirt |-> "clean", commits |-> "pushed"]
    OBVIOUS
  <2>3. w.dirt # "dirty" /\ w.commits # "local"
    BY <2>2
  <2>4. \A m \in Leases : work'[m] = work[m] \/ work'[m] = w
    BY <1>2, <2>1, <2>2
  <2>5. Softens
    BY <2>3, <2>4 DEF Softens, Bare, Edited, WorkIn
  <2>6. QED
    BY <1>1, <2>1, <2>5, MildGuards
<1>8. QED
  BY <1>3, <1>4, <1>5, <1>6, <1>7 DEF WorldStep

-----------------------------------------------------------------------------
(* Nobody reconciles, and nobody dies.                                       *)
LEMMA NobodyReconciles ==
    ASSUME Attended, NEW t \in Tasks, Sees(t)
    PROVE  ~ReconcileStep(t) /\ ~DropLock(t) /\ ~Crash(t)
<1>1. cmd[t].pc \in {"idle"} \union ShipPcs \union HoldPcs
  BY DEF Sees
<1>2. cmd[t].pc \notin {"observe", "dead", "close_settled", "pane_closed", "pane_unclosed",
                        "lease_returned", "abandon_herdr", "abandon_worktree",
                        "return_settled", "settled_appended", "end_pending", "end_append",
                        "end_appended", "end"}
  BY <1>1 DEF HoldPcs, ShipPcs, ScoutPcs, ScoutPanePcs, ScoutLeasePcs, LaunchPcs, LeasePcs, RunPcs
<1>3. ~DropLock(t)
  BY <1>2 DEF DropLock, Dead, Idle
<1>4. ~Crash(t)
  BY DEF Crash, Attended
<1>5. \A attest \in Attestations : ~StartReconcile(t, attest)
  BY DEF StartReconcile, Attended
<1>6. \A a \in Attempts : /\ ~SettlePane(t, a) /\ ~SettleLease(t, a) /\ ~SettleCompletion(t, a)
                          /\ ~AttestNeverStarted(t, a) /\ ~ObserveActive(t, a)
  BY <1>2 DEF SettlePane, SettleLease, SettleCompletion, AttestNeverStarted, ObserveActive,
     Settling, Undecided, At
<1>7. /\ ~ObserveNothing(t) /\ ~ClearResolved(t) /\ ~CloseSettled(t) /\ ~RecordSettled(t)
      /\ ~RecordAbandoned(t) /\ ~ReturnSettled(t) /\ ~RecordSettledCompletion(t)
      /\ ~EndPending(t) /\ ~EndAppend(t) /\ ~EndAppended(t) /\ ~EndAttempt(t)
  BY <1>2 DEF ObserveNothing, ClearResolved, CloseSettled, RecordSettled, RecordAbandoned,
     ReturnSettled, RecordSettledCompletion, EndPending, EndAppend, EndAppended, EndAttempt, At
<1>8. QED
  BY <1>3, <1>4, <1>5, <1>6, <1>7 DEF ReconcileStep

LEMMA LaunchGuards ==
    ASSUME Attended, NEW t \in Tasks, LifecycleInv, LifecycleInv', GuardInv,
           ProvisionStep(t) \/ PromoteStep(t)
    PROVE  GuardInv'
BY SpawnGuards, PromoteGuards, ScoutGuards, GetGuards, OpenGuards, CheckGuards, LaunchWriteGuards,
   RunGuards DEF ProvisionStep, PromoteStep

LEMMA GuardInvInductive ==
    ASSUME Attended, LifecycleInv, GuardInv, [LifecycleNext]_vars
    PROVE  GuardInv'
<1>1. LifecycleInv'
  BY LifecycleInvInductive DEF Kept
<1>2. CASE UNCHANGED vars
  <2>1. /\ UNCHANGED <<task, attempt, cmd>> /\ UNCHANGED <<lease, work, pane, pr>>
    BY <1>2 DEF vars
  <2>2. QED
    BY <2>1, StillSoft, MildGuards
<1>3. CASE WorldStep
  BY <1>3, WorldGuards
<1>4. ASSUME NEW t \in Tasks, CommandStep(t) \/ RecordPR(t) \/ RecordReport(t) \/ Deliver(t) \/ Crash(t)
      PROVE  GuardInv'
  <2>1. Sees(t)
    BY DEF GuardInv
  <2>2. ~ReconcileStep(t) /\ ~DropLock(t) /\ ~Crash(t)
    BY <2>1, NobodyReconciles
  <2>3. QED
    BY <1>1, <1>4, <2>2, LaunchGuards, TeardownGuards, NotingGuards, ReportGuards
       DEF CommandStep
<1>5. QED
  BY <1>2, <1>3, <1>4 DEF LifecycleNext

LEMMA GuardInvInitially == LifecycleInit => GuardInv
<1> SUFFICES ASSUME LifecycleInit
             PROVE  GuardInv
  OBVIOUS
<1>1. \A l \in Leases : work[l] = Fresh
  BY DEF LifecycleInit, WorldInit
<1>2. Fresh.dirt = "clean" /\ Fresh.commits # "local"
  BY DEF Fresh
<1>3. \A l : Bare(l)
  BY <1>1, <1>2 DEF Bare, WorkIn
<1>4. Idle.pc = "idle" /\ Idle.op = "none"
  BY DEF Idle
<1>5. \A t \in Tasks : cmd[t].pc = "idle" /\ cmd[t].op = "none"
  BY <1>4 DEF LifecycleInit, WorldInit
<1>6. ASSUME NEW a \in Attempts
      PROVE  Guarded(a)
  <2>1. PICK row : row = NewAttempt(NoTask, "absent")
    OBVIOUS
  <2>2. row.herdr = NoPane /\ row.life = "absent"
    BY <2>1 DEF NewAttempt
  <2>3. attempt[a].herdr = NoPane /\ attempt[a].life = "absent"
    BY <2>1, <2>2 DEF LifecycleInit, StoreInit
  <2>4. QED
    BY <1>3, <2>3 DEF Guarded, Untouched, Starting, Parting, Covered, Staffed, Ending, LiveStates
<1>7. \A t \in Tasks : Sees(t)
  BY <1>5 DEF Sees, Launchers
<1>8. QED
  BY <1>3, <1>6, <1>7 DEF GuardInv

(* What a teardown gives back is covered by what was seen before it was      *)
(* decided on.                                                               *)
LEMMA TakesOnlyLanded ==
    ASSUME Attended, LifecycleInv, TaleInv, GuardInv, [LifecycleNext]_vars,
           NEW t \in Tasks, NEW l \in Leases, cmd[t].op = "teardown", Frees(t, l),
           ~cmd[t].force, attempt[cmd[t].att].disposition # "forced"
    PROVE  ~Edited(l) /\ Landed(t, l)
<1>1. Loses(l) /\ cmd'[t] # cmd[t]
  BY DEF Frees, Loses
<1>2. PICK s \in Tasks : CommandStep(s) \/ RecordPR(s) \/ RecordReport(s) \/ Deliver(s) \/ Crash(s)
  BY <1>1 DEF LifecycleNext, WorldStep, vars
<1>3. s = t
  BY <1>1, <1>2, StepTells DEF Heeds
<1>4. Sees(t) /\ cmd[t].pc \in HoldPcs
  BY DEF GuardInv, Sees
<1>5. cmd[t].pc \notin {"scout_return", "return_lease", "return_settled"}
  BY <1>4 DEF HoldPcs
<1>6. cmd[t].pc = "return"
  BY <1>1, <1>2, <1>3, <1>5, StepTidies
<1>7. PICK a \in Attempts : a = cmd[t].att /\ attempt[a].owner = t /\ attempt[a].life \in LiveStates
  BY <1>4, HoldRow
<1>8. PICK m : m = attempt[a].worktree
  OBVIOUS
<1>9. Ending(a)
  <2>1. cmd[t].pc \in ClosingPcs
    BY <1>6 DEF ClosingPcs, WorktreePcs
  <2>2. Closed(attempt[a])
    BY <1>7, <2>1, ClosingFacts
  <2>3. QED
    BY <1>7, <2>2 DEF Closed, Ending, LiveStates, TerminalStates
<1>10. Landed(t, m) /\ (attempt[a].disposition = "completed-safe-dirt" => ~Edited(m))
  BY <1>7, <1>8, <1>9 DEF GuardInv, Guarded, Covered
<1>11. ReturnWorktree(t)
  <2>1. ~ReconcileStep(t) /\ ~DropLock(t) /\ ~Crash(t)
    BY <1>4, NobodyReconciles
  <2>2. Idle.pc = "idle" /\ cmd[t] # Idle
    BY <1>6 DEF Idle
  <2>3. TeardownStep(t) \/ ProvisionStep(t) \/ PromoteStep(t)
    BY <1>2, <1>3, <2>1, <2>2 DEF CommandStep, RecordPR, RecordReport, Deliver
  <2>4. ~ProvisionStep(t)
    BY <1>6, <2>2 DEF ProvisionStep, StartSpawn, StartReopen, GetLease, RecordLease, CheckWorktree,
       OpenPane, RecordPane, RunWorker, RecordSubmitted, ConfirmWorker, RecordConfirmed,
       RecordRunning, RollbackPane, ClearPane, ReturnProvisioned, ClearLease, At
  <2>5. ~PromoteStep(t)
    BY <1>6, <2>2 DEF PromoteStep, StartPromote, ClaimScoutPane, CloseScoutPane, RecordScoutPane,
       ClaimScoutLease, ReturnScoutLease, RecordScoutLease, LaunchShip, At
  <2>6. QED
    BY <1>6, <2>2, <2>3, <2>4, <2>5 DEF TeardownStep, StartTeardown, RecoverCompletion,
       ExamineWork, ObserveMergeState, DecideTeardown, ClaimPane, ClosePane, RecordPaneClosed,
       ClaimLease, RecordReturned, RecordFacts, AppendCompletion, RecordAppended,
       FinishTeardown, At
<1>12. PICK result : ReturnLease(m, ReturnForce(t), result)
  BY <1>7, <1>8, <1>11 DEF ReturnWorktree
<1>13. l = m
  BY <1>1, <1>12, ReturningTidies
<1>14. ReturnForce(t) \/ work[m].dirt = "clean"
  BY <1>1, <1>12, <1>13 DEF ReturnLease, Returned, Loses, external
<1>15. ~Edited(l)
  <2>1. CASE ReturnForce(t)
    <3>1. cmd[t].safe \/ attempt[a].disposition = "completed-safe-dirt"
      BY <1>7, <2>1 DEF ReturnForce
    <3>2. cmd[t].safe => ~Edited(m)
      BY <1>4, <1>7, <1>8 DEF Sees
    <3>3. QED
      BY <1>10, <1>13, <3>1, <3>2
  <2>2. CASE work[m].dirt = "clean"
    BY <1>13, <2>2 DEF Edited, WorkIn
  <2>3. QED
    BY <1>14, <2>1, <2>2
<1>16. QED
  BY <1>10, <1>13, <1>15

(* A teardown that nobody forced takes back no edits, and no commits that    *)
(* exist nowhere else, unless they are a scout's, were delivered, or are     *)
(* merged: what the guard saw before the decision (teardown.go:435) still    *)
(* covers what is given back, through refusals, retries and half-done        *)
(* releases, as long as nobody dies between two steps, every tab closes, and *)
(* no agent works under a running command.                                   *)
THEOREM UnlandedWorkStaysAlways == Attended => (LifecycleSpec => UnlandedWorkStays)
<1>1. ASSUME Attended
      PROVE  LifecycleSpec => UnlandedWorkStays
  <2>1. LifecycleInv /\ GuardInv /\ [LifecycleNext]_vars => GuardInv'
    BY <1>1, GuardInvInductive
  <2>2. LifecycleInv /\ TaleInv /\ GuardInv /\ [LifecycleNext]_vars =>
            [\A t \in Tasks, l \in Leases :
                LET a == cmd[t].att IN
                cmd[t].op = "teardown" /\ Frees(t, l) /\ ~cmd[t].force
                   /\ attempt[a].disposition # "forced" =>
                   /\ work[l].dirt # "dirty"
                   /\ \/ work[l].commits # "local"
                      \/ task[t].kind = "scout" \/ "delivered" \in task[t].facts
                      \/ pr[t] = "merged"]_vars
    BY <1>1, TakesOnlyLanded DEF Edited, Landed, Bare, WorkIn
  <2>3. QED
    BY <2>1, <2>2, GuardInvInitially, LifecycleInvAlways, TaleInvAlways, PTL
       DEF LifecycleSpec, UnlandedWorkStays
<1>2. QED
  BY <1>1

=============================================================================
