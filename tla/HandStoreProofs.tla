---------------------------- MODULE HandStoreProofs ----------------------------
(* What the transactions of the store guarantee for any number of tasks,     *)
(* attempts and processes.                                                   *)
EXTENDS HandStore, TLAPS

(***************************************************************************)
(* The row helpers have the types the tables ask for.                      *)
(***************************************************************************)
LEMMA RowTypes ==
    /\ AbsentTask \in TaskRow
    /\ \A t \in Tasks, a \in Attempts, kind \in Kinds :
          [AbsentTask EXCEPT !.life = "open", !.kind = kind, !.active = a]
              \in TaskRow
    /\ \A t \in Tasks : NewAttempt(t, "provisioning") \in AttemptRow
    /\ NewAttempt(NoTask, "absent") \in AttemptRow
<1> USE DEF AbsentTask, TaskRow, Kinds
<1>1. AbsentTask \in TaskRow
  OBVIOUS
<1>2. ASSUME NEW t \in Tasks, NEW a \in Attempts, NEW kind \in Kinds
      PROVE  [AbsentTask EXCEPT !.life = "open", !.kind = kind, !.active = a]
                 \in TaskRow
  OBVIOUS
<1>3. ASSUME NEW t \in Tasks \union {NoTask},
             NEW state \in {"absent", "provisioning"}
      PROVE  NewAttempt(t, state) \in AttemptRow
  <2>1. [r \in Resources |-> ""] \in [Resources -> ResourceStates]
    BY DEF ResourceStates
  <2>2. QED
    BY <2>1 DEF NewAttempt, AttemptRow, LiveStates, CompletionStates, ReportStates
<1>4. QED
  BY <1>1, <1>2, <1>3

(***************************************************************************)
(* Writing one column of a row keeps it a row.                             *)
(***************************************************************************)
LEMMA AttemptColumns ==
    ASSUME NEW row \in AttemptRow
    PROVE  /\ \A v \in LiveStates \union TerminalStates :
                 [row EXCEPT !.life = v] \in AttemptRow
           /\ \A v \in Leases \union {NoLease} :
                 [row EXCEPT !.worktree = v] \in AttemptRow
           /\ \A v \in Panes \union {NoPane} :
                 [row EXCEPT !.herdr = v] \in AttemptRow
           /\ [row EXCEPT !.submitted = TRUE] \in AttemptRow
           /\ [row EXCEPT !.confirmed = TRUE] \in AttemptRow
           /\ \A v \in BOOLEAN, w \in ReportStates :
                 [row EXCEPT !.verified = @ \/ v, !.reported = w] \in AttemptRow
           /\ \A v \in {"completed", "interrupted"}, d \in Dispositions :
                 [row EXCEPT !.decided = v, !.disposition = d] \in AttemptRow
           /\ \A r \in Resources, v \in ResourceStates :
                 [row EXCEPT !.settle[r] = v] \in AttemptRow
           /\ \A v \in CompletionStates :
                 [row EXCEPT !.completion = v] \in AttemptRow
<1>1. \A r \in Resources, v \in ResourceStates :
          [row.settle EXCEPT ![r] = v] \in [Resources -> ResourceStates]
  BY DEF AttemptRow
<1>2. \A v \in LiveStates \union TerminalStates :
          [row EXCEPT !.life = v] \in AttemptRow
  BY DEF AttemptRow
<1>3. \A v \in Leases \union {NoLease} :
          [row EXCEPT !.worktree = v] \in AttemptRow
  BY DEF AttemptRow
<1>4. \A v \in Panes \union {NoPane} :
          [row EXCEPT !.herdr = v] \in AttemptRow
  BY DEF AttemptRow
<1>5. [row EXCEPT !.submitted = TRUE] \in AttemptRow
  BY DEF AttemptRow
<1>6. [row EXCEPT !.confirmed = TRUE] \in AttemptRow
  BY DEF AttemptRow
<1>7. \A v \in BOOLEAN, w \in ReportStates :
          [row EXCEPT !.verified = @ \/ v, !.reported = w] \in AttemptRow
  BY DEF AttemptRow
<1>8. \A v \in {"completed", "interrupted"}, d \in Dispositions :
          [row EXCEPT !.decided = v, !.disposition = d] \in AttemptRow
  BY DEF AttemptRow
<1>9. \A r \in Resources, v \in ResourceStates :
          [row EXCEPT !.settle[r] = v] \in AttemptRow
  BY <1>1 DEF AttemptRow
<1>10. \A v \in CompletionStates :
           [row EXCEPT !.completion = v] \in AttemptRow
  BY DEF AttemptRow
<1>11. QED
  BY <1>2, <1>3, <1>4, <1>5, <1>6, <1>7, <1>8, <1>9, <1>10

(***************************************************************************)
(* Birth, Provision, Settle and Facts each keep the tables typed.          *)
(***************************************************************************)
(* A task's first attempt, a reopened task and a reservation keep the types. *)
LEMMA BirthType ==
    ASSUME NEW t \in Tasks, NEW a \in Attempts, StoreTypeOK, Birth(t, a)
    PROVE  StoreTypeOK'
<1>1. ASSUME NEW kind \in Kinds, CreateTaskWithAttempt(t, a, kind)
      PROVE  StoreTypeOK'
  BY <1>1, RowTypes DEF CreateTaskWithAttempt, StoreTypeOK
<1>2. CASE ReopenTask(t, a)
  <2>1. [task[t] EXCEPT !.life = "open", !.active = a] \in TaskRow
    BY DEF StoreTypeOK, TaskRow
  <2>2. QED
    BY <1>2, <2>1, RowTypes DEF ReopenTask, StoreTypeOK
<1>3. ASSUME NEW scout \in Attempts, NEW from \in LiveStates,
             PromoteTask(t, scout, from, a)
      PROVE  StoreTypeOK'
  <2>1. [task[t] EXCEPT !.kind = "ship", !.facts = @ \ {"delivered"}, !.active = a]
            \in TaskRow
    BY DEF StoreTypeOK, TaskRow, Kinds
  <2>2. task' \in [Tasks -> TaskRow]
    BY <1>3, <2>1 DEF PromoteTask, StoreTypeOK
  <2>3. [attempt[scout] EXCEPT !.life = "completed"] \in AttemptRow
    BY AttemptColumns DEF StoreTypeOK, TerminalStates
  <2>4. attempt' \in [Attempts -> AttemptRow]
    BY <1>3, <2>3, RowTypes DEF PromoteTask, StoreTypeOK
  <2>5. QED
    BY <2>2, <2>4 DEF StoreTypeOK
<1>4. QED
  BY <1>1, <1>2, <1>3 DEF Birth

(* Claims, observations and confirmations of provisioning keep the types.    *)
LEMMA ProvisionType ==
    ASSUME NEW t \in Tasks, NEW a \in Attempts, StoreTypeOK, Provision(t, a)
    PROVE  StoreTypeOK'
<1> DEFINE row == attempt[a]
<1> SUFFICES \E new \in AttemptRow :
                 attempt' = [attempt EXCEPT ![a] = new] /\ task' = task
  BY DEF StoreTypeOK
<1>1. row \in AttemptRow
  BY DEF StoreTypeOK
<1>2. CASE \E lease \in Leases : RecordAttemptWorktree(t, a, lease)
  BY <1>1, <1>2, AttemptColumns DEF RecordAttemptWorktree
<1>3. CASE ClearAttemptWorktree(t, a)
  BY <1>1, <1>3, AttemptColumns DEF ClearAttemptWorktree
<1>4. CASE \E pane \in Panes : RecordAttemptHerdr(t, a, pane)
  BY <1>1, <1>4, AttemptColumns DEF RecordAttemptHerdr
<1>5. CASE ClearAttemptHerdr(t, a)
  BY <1>1, <1>5, AttemptColumns DEF ClearAttemptHerdr
<1>6. CASE MarkLaunchSubmitted(t, a)
  BY <1>1, <1>6, AttemptColumns DEF MarkLaunchSubmitted
<1>7. CASE MarkLaunchConfirmed(t, a)
  BY <1>1, <1>7, AttemptColumns DEF MarkLaunchConfirmed
<1>8. CASE MarkAttemptRunning(t, a)
  BY <1>1, <1>8, AttemptColumns DEF MarkAttemptRunning, LiveStates
<1>9. CASE \E from \in LiveStates, verified \in BOOLEAN, reported \in ReportStates :
               UpdateAttemptObservation(t, a, from, verified, reported)
  <2> PICK from \in LiveStates, verified \in BOOLEAN, reported \in ReportStates :
             UpdateAttemptObservation(t, a, from, verified, reported)
    BY <1>9
  <2> DEFINE seen == [row EXCEPT !.verified = @ \/ verified, !.reported = reported]
  <2>1. seen \in AttemptRow
    BY <1>1, AttemptColumns
  <2>2. attempt' = [attempt EXCEPT ![a] = seen] /\ task' = task
    BY DEF UpdateAttemptObservation
  <2> HIDE DEF seen
  <2> QED
    BY <2>1, <2>2
<1>10. QED
  BY <1>2, <1>3, <1>4, <1>5, <1>6, <1>7, <1>8, <1>9 DEF Provision

(* Closing, abandoning and the teardown columns keep the types.              *)
LEMMA SettleType ==
    ASSUME NEW t \in Tasks, NEW a \in Attempts, StoreTypeOK, Settle(t, a)
    PROVE  StoreTypeOK'
<1>1. attempt[a] \in AttemptRow /\ task[t] \in TaskRow
  BY DEF StoreTypeOK
<1>2. ASSUME NEW terminal \in {"completed", "interrupted"}, NEW d \in Dispositions,
             SetAttemptTeardownDecision(t, a, terminal, d)
      PROVE  StoreTypeOK'
  BY <1>1, <1>2, AttemptColumns DEF SetAttemptTeardownDecision, StoreTypeOK
<1>3. ASSUME NEW from, NEW r \in Resources, NEW next \in DOMAIN ResourceFrom,
             SetAttemptTeardownResourceState(t, a, from, r, next)
      PROVE  StoreTypeOK'
  <2>1. next \in ResourceStates
    BY <1>3 DEF ResourceFrom, ResourceStates
  <2>2. [attempt[a] EXCEPT !.settle[r] = next] \in AttemptRow
    BY <1>1, <2>1, AttemptColumns
  <2>3. QED
    BY <1>3, <2>2 DEF SetAttemptTeardownResourceState, StoreTypeOK
<1>4. ASSUME NEW from, NEW next \in DOMAIN CompletionFrom,
             SetAttemptTeardownCompletionState(t, a, from, next)
      PROVE  StoreTypeOK'
  <2>1. next \in CompletionStates
    BY <1>4 DEF CompletionFrom, CompletionStates
  <2>2. QED
    BY <1>1, <1>4, <2>1, AttemptColumns
    DEF SetAttemptTeardownCompletionState, StoreTypeOK
<1>5. ASSUME NEW from, NEW to \in TerminalStates,
             TerminalizeTaskAndAttempt(t, a, from, to)
      PROVE  StoreTypeOK'
  <2>1. [task[t] EXCEPT !.life = "terminal", !.active = NoAttempt] \in TaskRow
    BY <1>1 DEF TaskRow
  <2>2. QED
    BY <1>1, <1>5, <2>1, AttemptColumns
    DEF TerminalizeTaskAndAttempt, StoreTypeOK
<1>6. QED
  BY <1>2, <1>3, <1>4, <1>5 DEF Settle

(* A transaction on a task's own facts rewrites that task's row and no other. *)
LEMMA FactsRow ==
    ASSUME NEW t \in Tasks, StoreTypeOK, Facts(t)
    PROVE  \E new \in TaskRow :
               /\ task' = [task EXCEPT ![t] = new] /\ attempt' = attempt
               /\ new.life = task[t].life /\ new.active = task[t].active
<1> DEFINE Same(new) == new.life = task[t].life /\ new.active = task[t].active
<1>1. task[t] \in TaskRow
  BY DEF StoreTypeOK
<1>2. ASSUME NEW kind \in Kinds
      PROVE  /\ [task[t] EXCEPT !.kind = kind] \in TaskRow
             /\ Same([task[t] EXCEPT !.kind = kind])
  BY <1>1 DEF TaskRow
<1>3. ASSUME NEW names \in SUBSET FactNames
      PROVE  /\ [task[t] EXCEPT !.facts = @ \union names] \in TaskRow
             /\ Same([task[t] EXCEPT !.facts = @ \union names])
  BY <1>1 DEF TaskRow
<1>4. ASSUME NEW code \in RepairCodes \union {""},
             NEW a \in Attempts \union {NoAttempt}
      PROVE  /\ [task[t] EXCEPT !.repair = code, !.repairAttempt = a] \in TaskRow
             /\ Same([task[t] EXCEPT !.repair = code, !.repairAttempt = a])
  BY <1>1 DEF TaskRow
<1> DEFINE Goal == \E new \in TaskRow :
               /\ task' = [task EXCEPT ![t] = new] /\ attempt' = attempt
               /\ Same(new)
<1> SUFFICES Goal
  OBVIOUS
<1> HIDE DEF Same
<1>5. ASSUME NEW kind \in Kinds, SetTaskKind(t, kind)
      PROVE  Goal
  BY <1>2, <1>5 DEF SetTaskKind
<1>6. CASE SetTaskPR(t) \/ SetTaskDelivery(t)
  BY <1>3, <1>6 DEF SetTaskPR, SetTaskDelivery, Fact
<1>7. CASE SetTaskMerge(t)
  BY <1>3, <1>7 DEF SetTaskMerge, Fact
<1>8. CASE SetTaskMergeAnnounced(t)
  BY <1>3, <1>8 DEF SetTaskMergeAnnounced, Fact
<1>9. ASSUME NEW announced \in SUBSET Fact("announced"),
             SetTaskReportState(t, announced)
      PROVE  Goal
  BY <1>3, <1>9 DEF SetTaskReportState, Fact
<1>10. ASSUME NEW code \in RepairCodes, NEW a \in Attempts \union {NoAttempt},
              SetTaskRepair(t, code, a)
       PROVE  Goal
  BY <1>4, <1>10 DEF SetTaskRepair
<1>11. ASSUME NEW code \in RepairCodes, ClearTaskRepair(t, code)
       PROVE  Goal
  BY <1>4, <1>11 DEF ClearTaskRepair
<1> HIDE DEF Goal
<1>12. QED
  BY <1>5, <1>6, <1>7, <1>8, <1>9, <1>10, <1>11 DEF Facts

(* Transactions on a task's own facts keep the types.                        *)
LEMMA FactsType ==
    ASSUME NEW t \in Tasks, StoreTypeOK, Facts(t)
    PROVE  StoreTypeOK'
BY FactsRow DEF StoreTypeOK

(* The two tables always hold rows of their schema, however many processes   *)
(* run whatever transactions.                                                *)
THEOREM StoreTypeCorrect == StoreSpec => []StoreTypeOK
<1>1. StoreInit => StoreTypeOK
  BY RowTypes DEF StoreInit, StoreTypeOK
<1>2. StoreTypeOK /\ [StoreNext]_storeVars => StoreTypeOK'
  <2>1. StoreTypeOK /\ StoreNext => StoreTypeOK'
    BY BirthType, ProvisionType, SettleType, FactsType DEF StoreNext
  <2>2. StoreTypeOK /\ UNCHANGED storeVars => StoreTypeOK'
    BY DEF StoreTypeOK, storeVars
  <2>3. QED
    BY <2>1, <2>2
<1>3. QED
  BY <1>1, <1>2, PTL DEF StoreSpec

(***************************************************************************)
(* Most transactions do not touch what StoreInv relates.                   *)
(***************************************************************************)
QuietColumns ==
    /\ \A t \in Tasks : /\ task'[t].life = task[t].life
                        /\ task'[t].active = task[t].active
    /\ \A a \in Attempts : /\ attempt'[a].owner = attempt[a].owner
                           /\ attempt'[a].life = attempt[a].life
                           /\ attempt'[a].submitted = attempt[a].submitted
                           /\ attempt'[a].confirmed = attempt[a].confirmed

(* A step that moves no life, owner or launch fact keeps the invariant.      *)
LEMMA QuietKeeps ==
    ASSUME StoreInv, StoreTypeOK', QuietColumns
    PROVE  StoreInv'
<1> USE DEF StoreInv, QuietColumns
<1>1. \A t \in Tasks : task[t].active \in Attempts \union {NoAttempt}
  BY DEF StoreTypeOK, TaskRow
<1>2. OneOwner'
  BY <1>1 DEF OneOwner
<1>3. RowsAscending'
  BY DEF RowsAscending
<1>4. OwnerIsNewest'
  BY DEF OwnerIsNewest
<1>5. LaunchedInOrder'
  BY DEF LaunchedInOrder
<1>6. QED
  BY <1>2, <1>3, <1>4, <1>5

(* Transactions on a task's own facts are such steps.                        *)
LEMMA FactsQuiet ==
    ASSUME NEW t \in Tasks, StoreTypeOK, Facts(t)
    PROVE  QuietColumns
BY FactsRow DEF StoreTypeOK, QuietColumns

(***************************************************************************)
(* Rewriting the row of an attempt that is and stays live keeps StoreInv,  *)
(* as long as the launch handshake is kept in order.                       *)
(***************************************************************************)
LEMMA LiveRowKeeps ==
    ASSUME NEW a \in Attempts, NEW row \in AttemptRow, StoreInv,
           attempt[a].life \in LiveStates,
           task' = task, attempt' = [attempt EXCEPT ![a] = row],
           row.owner = attempt[a].owner, row.life \in LiveStates,
           row.life = "running" => row.confirmed,
           row.confirmed => row.submitted
    PROVE  StoreInv'
<1> USE DEF StoreInv
<1>1. attempt \in [Attempts -> AttemptRow] /\ task \in [Tasks -> TaskRow]
  BY DEF StoreTypeOK
<1>2. attempt'[a] = row /\ \A b \in Attempts \ {a} : attempt'[b] = attempt[b]
  BY <1>1
<1>3. StoreTypeOK'
  BY <1>1 DEF StoreTypeOK
<1>4. OneOwner'
  <2>1. \A s \in Tasks : task[s].active \in Attempts \union {NoAttempt}
    BY <1>1 DEF TaskRow
  <2>2. QED
    BY <1>2, <2>1 DEF OneOwner
<1>5. RowsAscending'
  BY <1>2 DEF RowsAscending, LiveStates
<1>6. OwnerIsNewest'
  BY <1>2 DEF OwnerIsNewest
<1>7. LaunchedInOrder'
  BY <1>2 DEF LaunchedInOrder, LiveStates
<1>8. QED
  BY <1>3, <1>4, <1>5, <1>6, <1>7

(* Every provisioning transaction keeps the invariant.                       *)
LEMMA ProvisionKeeps ==
    ASSUME NEW t \in Tasks, NEW a \in Attempts, StoreInv, Provision(t, a)
    PROVE  StoreInv'
<1> USE DEF StoreInv
<1>1. attempt[a] \in AttemptRow
  BY DEF StoreTypeOK
<1>2. /\ attempt[a].life = "running" => attempt[a].confirmed
      /\ attempt[a].confirmed => attempt[a].submitted
  BY DEF LaunchedInOrder
<1>3. ASSUME NEW lease \in Leases, RecordAttemptWorktree(t, a, lease)
      PROVE  StoreInv'
  <2> DEFINE row == [attempt[a] EXCEPT !.worktree = lease]
  <2>1. row \in AttemptRow
    BY <1>1, AttemptColumns
  <2>2. /\ row.owner = attempt[a].owner /\ row.life \in LiveStates
        /\ row.life = "running" => row.confirmed
        /\ row.confirmed => row.submitted
    BY <1>1, <1>2, <1>3 DEF RecordAttemptWorktree, Provisioning, AttemptRow, LiveStates
  <2>3. /\ attempt[a].life \in LiveStates /\ task' = task
        /\ attempt' = [attempt EXCEPT ![a] = row]
    BY <1>3 DEF RecordAttemptWorktree, Provisioning, LiveStates
  <2> HIDE DEF row
  <2>4. QED
    BY <2>1, <2>2, <2>3, LiveRowKeeps
<1>4. ASSUME ClearAttemptWorktree(t, a)
      PROVE  StoreInv'
  <2> DEFINE row == [attempt[a] EXCEPT !.worktree = NoLease]
  <2>1. row \in AttemptRow
    BY <1>1, AttemptColumns
  <2>2. /\ row.owner = attempt[a].owner /\ row.life \in LiveStates
        /\ row.life = "running" => row.confirmed
        /\ row.confirmed => row.submitted
    BY <1>1, <1>2, <1>4 DEF ClearAttemptWorktree, Provisioning, AttemptRow, LiveStates
  <2>3. /\ attempt[a].life \in LiveStates /\ task' = task
        /\ attempt' = [attempt EXCEPT ![a] = row]
    BY <1>4 DEF ClearAttemptWorktree, Provisioning, LiveStates
  <2> HIDE DEF row
  <2>4. QED
    BY <2>1, <2>2, <2>3, LiveRowKeeps
<1>5. ASSUME NEW pane \in Panes, RecordAttemptHerdr(t, a, pane)
      PROVE  StoreInv'
  <2> DEFINE row == [attempt[a] EXCEPT !.herdr = pane]
  <2>1. row \in AttemptRow
    BY <1>1, AttemptColumns
  <2>2. /\ row.owner = attempt[a].owner /\ row.life \in LiveStates
        /\ row.life = "running" => row.confirmed
        /\ row.confirmed => row.submitted
    BY <1>1, <1>2, <1>5 DEF RecordAttemptHerdr, Provisioning, AttemptRow, LiveStates
  <2>3. /\ attempt[a].life \in LiveStates /\ task' = task
        /\ attempt' = [attempt EXCEPT ![a] = row]
    BY <1>5 DEF RecordAttemptHerdr, Provisioning, LiveStates
  <2> HIDE DEF row
  <2>4. QED
    BY <2>1, <2>2, <2>3, LiveRowKeeps
<1>6. ASSUME ClearAttemptHerdr(t, a)
      PROVE  StoreInv'
  <2> DEFINE row == [attempt[a] EXCEPT !.herdr = NoPane]
  <2>1. row \in AttemptRow
    BY <1>1, AttemptColumns
  <2>2. /\ row.owner = attempt[a].owner /\ row.life \in LiveStates
        /\ row.life = "running" => row.confirmed
        /\ row.confirmed => row.submitted
    BY <1>1, <1>2, <1>6 DEF ClearAttemptHerdr, Provisioning, AttemptRow, LiveStates
  <2>3. /\ attempt[a].life \in LiveStates /\ task' = task
        /\ attempt' = [attempt EXCEPT ![a] = row]
    BY <1>6 DEF ClearAttemptHerdr, Provisioning, LiveStates
  <2> HIDE DEF row
  <2>4. QED
    BY <2>1, <2>2, <2>3, LiveRowKeeps
<1>7. ASSUME MarkLaunchSubmitted(t, a)
      PROVE  StoreInv'
  <2> DEFINE row == [attempt[a] EXCEPT !.submitted = TRUE]
  <2>1. row \in AttemptRow
    BY <1>1, AttemptColumns
  <2>2. /\ row.owner = attempt[a].owner /\ row.life \in LiveStates
        /\ row.life = "running" => row.confirmed
        /\ row.confirmed => row.submitted
    BY <1>1, <1>2, <1>7 DEF MarkLaunchSubmitted, Provisioning, AttemptRow, LiveStates
  <2>3. /\ attempt[a].life \in LiveStates /\ task' = task
        /\ attempt' = [attempt EXCEPT ![a] = row]
    BY <1>7 DEF MarkLaunchSubmitted, Provisioning, LiveStates
  <2> HIDE DEF row
  <2>4. QED
    BY <2>1, <2>2, <2>3, LiveRowKeeps
<1>8. ASSUME MarkLaunchConfirmed(t, a)
      PROVE  StoreInv'
  <2> DEFINE row == [attempt[a] EXCEPT !.confirmed = TRUE]
  <2>1. row \in AttemptRow
    BY <1>1, AttemptColumns
  <2>2. /\ row.owner = attempt[a].owner /\ row.life \in LiveStates
        /\ row.life = "running" => row.confirmed
        /\ row.confirmed => row.submitted
    BY <1>1, <1>2, <1>8 DEF MarkLaunchConfirmed, Provisioning, AttemptRow, LiveStates
  <2>3. /\ attempt[a].life \in LiveStates /\ task' = task
        /\ attempt' = [attempt EXCEPT ![a] = row]
    BY <1>8 DEF MarkLaunchConfirmed, Provisioning, LiveStates
  <2> HIDE DEF row
  <2>4. QED
    BY <2>1, <2>2, <2>3, LiveRowKeeps
<1>9. ASSUME MarkAttemptRunning(t, a)
      PROVE  StoreInv'
  <2> DEFINE row == [attempt[a] EXCEPT !.life = "running"]
  <2>1. row \in AttemptRow
    BY <1>1, AttemptColumns DEF LiveStates
  <2>2. /\ row.owner = attempt[a].owner /\ row.life \in LiveStates
        /\ row.life = "running" => row.confirmed
        /\ row.confirmed => row.submitted
    BY <1>1, <1>2, <1>9 DEF MarkAttemptRunning, Provisioning, AttemptRow, LiveStates
  <2>3. /\ attempt[a].life \in LiveStates /\ task' = task
        /\ attempt' = [attempt EXCEPT ![a] = row]
    BY <1>9 DEF MarkAttemptRunning, Provisioning, LiveStates
  <2> HIDE DEF row
  <2>4. QED
    BY <2>1, <2>2, <2>3, LiveRowKeeps
<1>10. ASSUME NEW from \in LiveStates, NEW verified \in BOOLEAN, NEW reported \in ReportStates,
             UpdateAttemptObservation(t, a, from, verified, reported)
      PROVE  StoreInv'
  <2> DEFINE row == [attempt[a] EXCEPT !.verified = @ \/ verified, !.reported = reported]
  <2>1. row \in AttemptRow
    BY <1>1, AttemptColumns
  <2>2. /\ row.owner = attempt[a].owner /\ row.life \in LiveStates
        /\ row.life = "running" => row.confirmed
        /\ row.confirmed => row.submitted
    BY <1>1, <1>2, <1>10 DEF UpdateAttemptObservation, Provisioning, AttemptRow, LiveStates
  <2>3. /\ attempt[a].life \in LiveStates /\ task' = task
        /\ attempt' = [attempt EXCEPT ![a] = row]
    BY <1>10 DEF UpdateAttemptObservation, Provisioning, LiveStates
  <2> HIDE DEF row
  <2>4. QED
    BY <2>1, <2>2, <2>3, LiveRowKeeps
<1>11. QED
  BY <1>3, <1>4, <1>5, <1>6, <1>7, <1>8, <1>9, <1>10 DEF Provision

(***************************************************************************)
(* Settling writes columns StoreInv does not relate; terminalizing ends    *)
(* the owner and its task together.                                        *)
(***************************************************************************)
LEMMA SettleKeeps ==
    ASSUME NEW t \in Tasks, NEW a \in Attempts, StoreInv, Settle(t, a)
    PROVE  StoreInv'
<1> USE DEF StoreInv
<1>1. attempt[a] \in AttemptRow /\ task[t] \in TaskRow
  BY DEF StoreTypeOK
<1>2. StoreTypeOK'
  BY SettleType
<1>3. ASSUME NEW row, task' = task, attempt' = [attempt EXCEPT ![a] = row],
             row.owner = attempt[a].owner, row.life = attempt[a].life,
             row.submitted = attempt[a].submitted,
             row.confirmed = attempt[a].confirmed
      PROVE  StoreInv'
  <2>1. QuietColumns
    BY <1>3 DEF QuietColumns, StoreTypeOK
  <2>2. QED
    BY <1>2, <2>1, QuietKeeps
<1>4. ASSUME NEW terminal \in {"completed", "interrupted"}, NEW d \in Dispositions,
             SetAttemptTeardownDecision(t, a, terminal, d)
      PROVE  StoreInv'
  <2> DEFINE row == [attempt[a] EXCEPT !.decided = terminal, !.disposition = d]
  <2>1. /\ row.owner = attempt[a].owner /\ row.life = attempt[a].life
        /\ row.submitted = attempt[a].submitted
        /\ row.confirmed = attempt[a].confirmed
    BY <1>1 DEF AttemptRow
  <2>2. task' = task /\ attempt' = [attempt EXCEPT ![a] = row]
    BY <1>4 DEF SetAttemptTeardownDecision
  <2> HIDE DEF row
  <2>3. QED
    BY <1>3, <2>1, <2>2
<1>5. ASSUME NEW from, NEW r \in Resources, NEW next \in DOMAIN ResourceFrom,
             SetAttemptTeardownResourceState(t, a, from, r, next)
      PROVE  StoreInv'
  <2> DEFINE row == [attempt[a] EXCEPT !.settle[r] = next]
  <2>1. /\ row.owner = attempt[a].owner /\ row.life = attempt[a].life
        /\ row.submitted = attempt[a].submitted
        /\ row.confirmed = attempt[a].confirmed
    BY <1>1 DEF AttemptRow
  <2>2. task' = task /\ attempt' = [attempt EXCEPT ![a] = row]
    BY <1>5 DEF SetAttemptTeardownResourceState
  <2> HIDE DEF row
  <2>3. QED
    BY <1>3, <2>1, <2>2
<1>6. ASSUME NEW from, NEW next \in DOMAIN CompletionFrom,
             SetAttemptTeardownCompletionState(t, a, from, next)
      PROVE  StoreInv'
  <2> DEFINE row == [attempt[a] EXCEPT !.completion = next]
  <2>1. /\ row.owner = attempt[a].owner /\ row.life = attempt[a].life
        /\ row.submitted = attempt[a].submitted
        /\ row.confirmed = attempt[a].confirmed
    BY <1>1 DEF AttemptRow
  <2>2. task' = task /\ attempt' = [attempt EXCEPT ![a] = row]
    BY <1>6 DEF SetAttemptTeardownCompletionState
  <2> HIDE DEF row
  <2>3. QED
    BY <1>3, <2>1, <2>2
<1>7. ASSUME NEW from \in LiveStates, NEW to \in TerminalStates,
             TerminalizeTaskAndAttempt(t, a, from, to)
      PROVE  StoreInv'
  <2>1. /\ task[t].life = "open" /\ task[t].active = a
        /\ attempt[a].owner = t /\ attempt[a].life = from
        /\ ValidAttemptTransition(from, to)
    BY <1>7 DEF TerminalizeTaskAndAttempt, Owns
  <2>2. /\ task'[t].life = "terminal" /\ task'[t].active = NoAttempt
        /\ \A s \in Tasks \ {t} : task'[s] = task[s]
    BY <1>1, <1>7 DEF TerminalizeTaskAndAttempt, StoreTypeOK, TaskRow
  <2>3. /\ attempt'[a].life = to /\ attempt'[a].owner = t
        /\ attempt'[a].confirmed = attempt[a].confirmed
        /\ attempt'[a].submitted = attempt[a].submitted
        /\ \A b \in Attempts \ {a} : attempt'[b] = attempt[b]
    BY <1>1, <1>7, <2>1 DEF TerminalizeTaskAndAttempt, StoreTypeOK, AttemptRow
  <2>4. to \notin LiveStates /\ to # "absent" /\ from # "absent" /\ t # NoTask
    BY StoreAssumption DEF LiveStates, TerminalStates
  <2>5. \A s \in Tasks : task[s].active \in Attempts \union {NoAttempt}
    BY DEF StoreTypeOK, TaskRow
  <2>6. OneOwner'
    <3>1. \A s \in Tasks : task[s].active = a => s = t
      BY <2>1, StoreAssumption DEF OneOwner, Attempts
    <3>2. QED
      BY <2>1, <2>2, <2>3, <2>4, <2>5, <3>1 DEF OneOwner
  <2>7. RowsAscending'
    BY <2>1, <2>3, <2>4 DEF RowsAscending
  <2>8. OwnerIsNewest'
    BY <2>1, <2>2, <2>3 DEF OwnerIsNewest
  <2>9. LaunchedInOrder'
    BY <2>1, <2>3 DEF LaunchedInOrder, ValidAttemptTransition, TerminalStates
  <2>10. QED
    BY <1>2, <2>6, <2>7, <2>8, <2>9
<1>8. QED
  BY <1>4, <1>5, <1>6, <1>7 DEF Settle

(***************************************************************************)
(* A new attempt takes over a task none of whose other attempts is live.   *)
(***************************************************************************)
LEMMA BirthKeeps ==
    ASSUME NEW t \in Tasks, NEW a \in Attempts, StoreInv, Birth(t, a)
    PROVE  StoreInv'
<1> USE DEF StoreInv
<1>1. /\ task \in [Tasks -> TaskRow] /\ attempt \in [Attempts -> AttemptRow]
      /\ \A s \in Tasks : task[s].active \in Attempts \union {NoAttempt}
      /\ t # NoTask /\ a # NoAttempt
  BY StoreAssumption DEF StoreTypeOK, TaskRow, Attempts
<1>2. StoreTypeOK'
  BY BirthType
<1>3. /\ NewAttempt(t, "provisioning").owner = t
      /\ NewAttempt(t, "provisioning").life = "provisioning"
      /\ NewAttempt(t, "provisioning").confirmed = FALSE
  BY DEF NewAttempt
<1>4. ASSUME NEW without, Insertable(a, t, without),
             \A b \in Attempts \intersect without : attempt'[b].life = "completed",
             task'[t].life = "open", task'[t].active = a,
             \A s \in Tasks \ {t} : task'[s] = task[s],
             attempt'[a] = NewAttempt(t, "provisioning"),
             \A b \in Attempts \ {a} :
                 /\ attempt'[b].owner = attempt[b].owner
                 /\ attempt'[b].submitted = attempt[b].submitted
                 /\ attempt'[b].confirmed = attempt[b].confirmed
                 /\ \/ attempt'[b].life = attempt[b].life
                    \/ /\ attempt[b].owner = t /\ attempt[b].life = "running"
                       /\ attempt'[b].life = "completed"
      PROVE  StoreInv'
  <2>1. /\ attempt[a].life = "absent" /\ attempt[a].owner = NoTask
        /\ \A b \in Attempts : b > a => attempt[b].owner = NoTask
    BY <1>4 DEF Insertable, RowsAscending, Attempts
  <2>2. \A b \in Attempts : attempt[b].owner = t => b <= a
    BY <1>1, <2>1 DEF Attempts
  <2>3. OneOwner'
    <3>1. \A s \in Tasks : task'[s].life = "open" <=> task'[s].active # NoAttempt
      BY <1>1, <1>4 DEF OneOwner
    <3>2. \A s \in Tasks : task'[s].active # NoAttempt =>
              /\ attempt'[task'[s].active].owner = s
              /\ attempt'[task'[s].active].life \in LiveStates
      BY <1>1, <1>3, <1>4, <2>1 DEF OneOwner, LiveStates
    <3>3. ASSUME NEW b \in Attempts, attempt'[b].life \in LiveStates
          PROVE  \E s \in Tasks : attempt'[b].owner = s /\ task'[s].active = b
      <4>1. CASE b = a
        BY <1>3, <1>4, <4>1
      <4>2. CASE b # a
        <5>1. attempt[b].life \in LiveStates /\ attempt'[b].owner = attempt[b].owner
          BY <1>4, <3>3, <4>2 DEF LiveStates
        <5>2. b \notin without
          BY <1>4, <3>3 DEF LiveStates
        <5>3. attempt[b].owner # t
          BY <1>4, <5>1, <5>2 DEF Insertable
        <5>4. QED
          BY <1>4, <5>1, <5>3 DEF OneOwner
      <4>3. QED
        BY <4>1, <4>2
    <3>4. QED
      BY <3>1, <3>2, <3>3 DEF OneOwner
  <2>4. RowsAscending'
    <3>1. \A b \in Attempts : attempt'[b].life = "absent" <=>
              (b # a /\ attempt[b].life = "absent")
      BY <1>3, <1>4
    <3>2. \A b \in Attempts : b # a /\ attempt[b].life = "absent" => b > a
      BY <1>4 DEF Insertable, Attempts
    <3>3. QED
      BY <1>1, <1>3, <1>4, <3>1, <3>2 DEF RowsAscending, Attempts
  <2>5. OwnerIsNewest'
    <3>1. \A b \in Attempts : attempt'[b].owner = t => b <= a
      BY <1>4, <2>2 DEF Attempts
    <3>2. \A s \in Tasks \ {t}, b \in Attempts :
              attempt'[b].owner = s => attempt[b].owner = s
      BY <1>3, <1>4
    <3>3. QED
      BY <1>4, <3>1, <3>2 DEF OwnerIsNewest
  <2>6. LaunchedInOrder'
    BY <1>3, <1>4 DEF LaunchedInOrder
  <2>7. QED
    BY <1>2, <2>3, <2>4, <2>5, <2>6
<1>5. ASSUME NEW kind \in Kinds, CreateTaskWithAttempt(t, a, kind)
      PROVE  StoreInv'
  <2>1. Insertable(a, t, {})
    BY <1>5 DEF CreateTaskWithAttempt
  <2>2. /\ task'[t].life = "open" /\ task'[t].active = a
        /\ \A s \in Tasks \ {t} : task'[s] = task[s]
    BY <1>1, <1>5 DEF CreateTaskWithAttempt, AbsentTask
  <2>3. /\ attempt'[a] = NewAttempt(t, "provisioning")
        /\ \A b \in Attempts \ {a} : attempt'[b] = attempt[b]
    BY <1>1, <1>5 DEF CreateTaskWithAttempt
  <2>4. QED
    BY <1>4, <2>1, <2>2, <2>3
<1>6. CASE ReopenTask(t, a)
  <2>1. Insertable(a, t, {})
    BY <1>6 DEF ReopenTask
  <2>2. /\ task'[t].life = "open" /\ task'[t].active = a
        /\ \A s \in Tasks \ {t} : task'[s] = task[s]
    BY <1>1, <1>6 DEF ReopenTask, TaskRow
  <2>3. /\ attempt'[a] = NewAttempt(t, "provisioning")
        /\ \A b \in Attempts \ {a} : attempt'[b] = attempt[b]
    BY <1>1, <1>6 DEF ReopenTask
  <2>4. QED
    BY <1>4, <2>1, <2>2, <2>3
<1>7. ASSUME NEW scout \in Attempts, NEW from \in LiveStates,
             PromoteTask(t, scout, from, a)
      PROVE  StoreInv'
  <2>1. /\ Insertable(a, t, {scout})
        /\ from = "running" /\ attempt[scout].owner = t
        /\ attempt[scout].life = "running" /\ task[t].life = "open"
    BY <1>7 DEF PromoteTask, ValidAttemptTransition, Owns
  <2>2. scout # a
    BY <2>1 DEF Insertable
  <2>3. /\ task'[t].life = "open" /\ task'[t].active = a
        /\ \A s \in Tasks \ {t} : task'[s] = task[s]
    BY <1>1, <1>7, <2>1 DEF PromoteTask, TaskRow
  <2>4. /\ attempt'[a] = NewAttempt(t, "provisioning")
        /\ attempt'[scout] = [attempt[scout] EXCEPT !.life = "completed"]
        /\ \A b \in Attempts \ {a, scout} : attempt'[b] = attempt[b]
    BY <1>1, <1>7, <2>2 DEF PromoteTask
  <2>5. /\ attempt'[scout].life = "completed"
        /\ attempt'[scout].owner = attempt[scout].owner
        /\ attempt'[scout].submitted = attempt[scout].submitted
        /\ attempt'[scout].confirmed = attempt[scout].confirmed
    <3>1. attempt[scout] \in AttemptRow
      BY <1>1
    <3>2. attempt'[scout] = [attempt[scout] EXCEPT !.life = "completed"]
      BY <2>4
    <3>3. QED
      BY <3>1, <3>2 DEF AttemptRow
  <2>6. \A b \in Attempts \ {a} :
            /\ attempt'[b].owner = attempt[b].owner
            /\ attempt'[b].submitted = attempt[b].submitted
            /\ attempt'[b].confirmed = attempt[b].confirmed
            /\ \/ attempt'[b].life = attempt[b].life
               \/ /\ attempt[b].owner = t /\ attempt[b].life = "running"
                  /\ attempt'[b].life = "completed"
    <3>1. ASSUME NEW b \in Attempts \ {a, scout}
          PROVE  attempt'[b] = attempt[b]
      BY <2>4
    <3>2. QED
      BY <2>1, <2>5, <3>1
  <2>7. \A b \in Attempts \intersect {scout} : attempt'[b].life = "completed"
    BY <2>5
  <2>8. attempt'[a] = NewAttempt(t, "provisioning")
    BY <2>4
  <2>9. QED
    BY <1>4, <2>1, <2>3, <2>6, <2>7, <2>8
<1>8. QED
  BY <1>5, <1>6, <1>7 DEF Birth

(* The invariant is inductive: one line per family of transactions.          *)
LEMMA StoreInvInductive == StoreInv /\ [StoreNext]_storeVars => StoreInv'
<1>1. StoreInv /\ StoreNext => StoreInv'
  <2>1. ASSUME StoreInv, NEW t \in Tasks, Facts(t)
        PROVE  StoreInv'
    BY <2>1, FactsQuiet, FactsType, QuietKeeps DEF StoreInv
  <2>2. QED
    BY <2>1, BirthKeeps, ProvisionKeeps, SettleKeeps DEF StoreNext
<1>2. StoreInv /\ UNCHANGED storeVars => StoreInv'
  BY DEF StoreInv, storeVars, StoreTypeOK, OneOwner, RowsAscending,
     OwnerIsNewest, LaunchedInOrder
<1>3. QED
  BY <1>1, <1>2

(* An empty database satisfies it.                                           *)
LEMMA StoreInvInitially == StoreInit => StoreInv
<1> SUFFICES ASSUME StoreInit PROVE StoreInv
  OBVIOUS
<1>1. StoreTypeOK
  BY RowTypes DEF StoreInit, StoreTypeOK
<1>2. /\ \A t \in Tasks : task[t].life = "absent" /\ task[t].active = NoAttempt
      /\ \A a \in Attempts : /\ attempt[a].owner = NoTask
                             /\ attempt[a].life = "absent"
                             /\ attempt[a].confirmed = FALSE
  BY DEF StoreInit, AbsentTask, NewAttempt
<1>3. QED
  BY <1>1, <1>2 DEF StoreInv, OneOwner, RowsAscending, OwnerIsNewest,
     LaunchedInOrder, LiveStates

(* What the transactions of the store rely on together: types, one owner per *)
(* open task, attempt rows in order of reservation, the owner the newest of  *)
(* them, and every launch confirmed before it counts as running.             *)
THEOREM StoreInvAlways == StoreSpec => []StoreInv
<1>1. QED
  BY StoreInvInitially, StoreInvInductive, PTL DEF StoreSpec

(* One live attempt per open task, and none elsewhere, whatever commands and *)
(* watchers run.                                                             *)
THEOREM OneOwnerAlways == StoreSpec => []OneOwner
<1>1. StoreInv => OneOwner
  BY DEF StoreInv
<1>2. QED
  BY <1>1, StoreInvAlways, PTL

(* The active attempt is the newest: history is what came before it.         *)
THEOREM OwnerIsNewestAlways == StoreSpec => []OwnerIsNewest
<1>1. StoreInv => OwnerIsNewest
  BY DEF StoreInv
<1>2. QED
  BY <1>1, StoreInvAlways, PTL

(* No attempt runs or completes without a confirmed launch.                  *)
THEOREM LaunchedInOrderAlways == StoreSpec => []LaunchedInOrder
<1>1. StoreInv => LaunchedInOrder
  BY DEF StoreInv
<1>2. QED
  BY <1>1, StoreInvAlways, PTL

-----------------------------------------------------------------------------
(***************************************************************************)
(* What no transaction may do to an attempt's row: the action properties.  *)
(***************************************************************************)
(* A row that was never inserted has nothing decided and nothing settled.    *)
Blank(row) == row.decided = "" /\ \A r \in Resources : row.settle[r] = ""

UnusedIsBlank ==
    \A a \in Attempts : attempt[a].life = "absent" => Blank(attempt[a])

HistoryInv == StoreTypeOK /\ UnusedIsBlank

(* The four things a transaction may do to one row.                          *)
Inserted(a) ==
    /\ attempt[a].life = "absent"
    /\ attempt'[a].life = "provisioning"
    /\ Blank(attempt'[a])

SettledRow(a) ==
    /\ attempt[a].life # "absent"
    /\ \A f \in {"owner", "life", "worktree", "herdr", "submitted",
                 "confirmed", "verified", "reported", "decided", "disposition"} :
          attempt'[a][f] = attempt[a][f]
    /\ \A r \in Resources :
          \/ attempt'[a].settle[r] = attempt[a].settle[r]
          \/ \E next \in DOMAIN ResourceFrom :
                /\ attempt'[a].settle[r] = next
                /\ attempt[a].settle[r] \in ResourceFrom[next]

Worked(a) ==
    /\ attempt[a].life \in LiveStates
    /\ attempt'[a].life # "absent"
    /\ attempt'[a].settle = attempt[a].settle
    /\ attempt[a].decided # "" =>
          /\ attempt'[a].decided = attempt[a].decided
          /\ attempt'[a].disposition = attempt[a].disposition

RowStep(a) ==
    attempt'[a] = attempt[a] \/ Inserted(a) \/ SettledRow(a) \/ Worked(a)

(* What an insertion writes.                                                 *)
LEMMA InsertedRow ==
    ASSUME NEW a \in Attempts, NEW t, attempt[a].life = "absent",
           attempt'[a] = NewAttempt(t, "provisioning")
    PROVE  Inserted(a)
<1>1. /\ NewAttempt(t, "provisioning").life = "provisioning"
      /\ Blank(NewAttempt(t, "provisioning"))
  BY DEF NewAttempt, Blank
<1>2. QED
  BY <1>1 DEF Inserted

(* An insertion writes one unused row, and a promotion also ends the scout.  *)
LEMMA BirthRows ==
    ASSUME NEW t \in Tasks, NEW a \in Attempts, StoreTypeOK, Birth(t, a)
    PROVE  \A b \in Attempts : RowStep(b)
<1>1. attempt \in [Attempts -> AttemptRow]
  BY DEF StoreTypeOK
<1>2. CASE \E kind \in Kinds : CreateTaskWithAttempt(t, a, kind)
  <2>1. attempt[a].life = "absent" /\ attempt'[a] = NewAttempt(t, "provisioning")
    BY <1>1, <1>2 DEF CreateTaskWithAttempt, Insertable
  <2>2. \A b \in Attempts \ {a} : attempt'[b] = attempt[b]
    BY <1>1, <1>2 DEF CreateTaskWithAttempt
  <2>3. QED
    BY <2>1, <2>2, InsertedRow DEF RowStep
<1>3. CASE ReopenTask(t, a)
  <2>1. attempt[a].life = "absent" /\ attempt'[a] = NewAttempt(t, "provisioning")
    BY <1>1, <1>3 DEF ReopenTask, Insertable
  <2>2. \A b \in Attempts \ {a} : attempt'[b] = attempt[b]
    BY <1>1, <1>3 DEF ReopenTask
  <2>3. QED
    BY <2>1, <2>2, InsertedRow DEF RowStep
<1>4. ASSUME NEW scout \in Attempts, NEW from \in LiveStates,
             PromoteTask(t, scout, from, a)
      PROVE  \A b \in Attempts : RowStep(b)
  <2>1. attempt[scout].life = from /\ attempt[a].life = "absent" /\ a # scout
    BY <1>4 DEF PromoteTask, Insertable, LiveStates
  <2>2. attempt'[a] = NewAttempt(t, "provisioning")
    BY <1>1, <1>4 DEF PromoteTask
  <2>3. attempt'[scout] = [attempt[scout] EXCEPT !.life = "completed"]
    BY <1>1, <1>4, <2>1 DEF PromoteTask
  <2>4. Worked(scout)
    <3>1. attempt[scout] \in AttemptRow
      BY <1>1
    <3>2. QED
      BY <2>1, <2>3, <3>1 DEF Worked, AttemptRow
  <2>5. \A b \in Attempts \ {a, scout} : attempt'[b] = attempt[b]
    BY <1>1, <1>4 DEF PromoteTask
  <2>6. QED
    BY <2>1, <2>2, <2>4, <2>5, InsertedRow DEF RowStep
<1>5. QED
  BY <1>2, <1>3, <1>4 DEF Birth

(* Provisioning writes the row of a live attempt and decides nothing.        *)
LEMMA ProvisionRows ==
    ASSUME NEW t \in Tasks, NEW a \in Attempts, StoreTypeOK, Provision(t, a)
    PROVE  \A b \in Attempts : RowStep(b)
<1> USE DEF RowStep, Worked, AttemptRow, Provisioning, LiveStates
<1>1. attempt \in [Attempts -> AttemptRow] /\ attempt[a] \in AttemptRow
  BY DEF StoreTypeOK
<1>2. ASSUME NEW lease \in Leases, RecordAttemptWorktree(t, a, lease)
      PROVE  \A b \in Attempts : RowStep(b)
  BY <1>1, <1>2 DEF RecordAttemptWorktree
<1>3. CASE ClearAttemptWorktree(t, a)
  BY <1>1, <1>3 DEF ClearAttemptWorktree
<1>4. ASSUME NEW pane \in Panes, RecordAttemptHerdr(t, a, pane)
      PROVE  \A b \in Attempts : RowStep(b)
  BY <1>1, <1>4 DEF RecordAttemptHerdr
<1>5. CASE ClearAttemptHerdr(t, a)
  BY <1>1, <1>5 DEF ClearAttemptHerdr
<1>6. CASE MarkLaunchSubmitted(t, a)
  BY <1>1, <1>6 DEF MarkLaunchSubmitted
<1>7. CASE MarkLaunchConfirmed(t, a)
  BY <1>1, <1>7 DEF MarkLaunchConfirmed
<1>8. CASE MarkAttemptRunning(t, a)
  BY <1>1, <1>8 DEF MarkAttemptRunning
<1>9. ASSUME NEW from \in LiveStates, NEW verified \in BOOLEAN, NEW reported \in ReportStates,
             UpdateAttemptObservation(t, a, from, verified, reported)
      PROVE  \A b \in Attempts : RowStep(b)
  BY <1>1, <1>9 DEF UpdateAttemptObservation
<1>10. QED
  BY <1>2, <1>3, <1>4, <1>5, <1>6, <1>7, <1>8, <1>9 DEF Provision

(* A teardown decides once, settles each resource along ResourceFrom, and    *)
(* ends a live attempt.                                                      *)
LEMMA SettleRows ==
    ASSUME NEW t \in Tasks, NEW a \in Attempts, StoreTypeOK, Settle(t, a)
    PROVE  \A b \in Attempts : RowStep(b)
<1>1. attempt \in [Attempts -> AttemptRow] /\ attempt[a] \in AttemptRow
  BY DEF StoreTypeOK
<1>2. ASSUME NEW terminal \in {"completed", "interrupted"}, NEW d \in Dispositions,
             SetAttemptTeardownDecision(t, a, terminal, d)
      PROVE  \A b \in Attempts : RowStep(b)
  BY <1>1, <1>2 DEF SetAttemptTeardownDecision, RowStep, Worked, AttemptRow, LiveStates
<1>3. ASSUME NEW from \in LiveStates \union TerminalStates, NEW r \in Resources,
             NEW next \in DOMAIN ResourceFrom,
             SetAttemptTeardownResourceState(t, a, from, r, next)
      PROVE  \A b \in Attempts : RowStep(b)
  <2>1. attempt'[a] = [attempt[a] EXCEPT !.settle[r] = next]
    BY <1>1, <1>3 DEF SetAttemptTeardownResourceState
  <2>2. attempt[a].settle[r] \in ResourceFrom[next] /\ attempt[a].life # "absent"
    BY <1>3 DEF SetAttemptTeardownResourceState, LiveStates, TerminalStates
  <2>3. /\ attempt'[a].settle[r] = next
        /\ \A s \in Resources \ {r} : attempt'[a].settle[s] = attempt[a].settle[s]
    BY <1>1, <2>1 DEF AttemptRow
  <2>4. SettledRow(a)
    BY <1>1, <2>1, <2>2, <2>3 DEF SettledRow, AttemptRow
  <2>5. \A b \in Attempts \ {a} : attempt'[b] = attempt[b]
    BY <1>1, <1>3 DEF SetAttemptTeardownResourceState
  <2>6. QED
    BY <2>4, <2>5 DEF RowStep
<1>4. ASSUME NEW from \in LiveStates \union TerminalStates,
             NEW next \in DOMAIN CompletionFrom,
             SetAttemptTeardownCompletionState(t, a, from, next)
      PROVE  \A b \in Attempts : RowStep(b)
  <2>1. attempt'[a] = [attempt[a] EXCEPT !.completion = next]
    BY <1>1, <1>4 DEF SetAttemptTeardownCompletionState
  <2>2. attempt[a].life # "absent"
    BY <1>4 DEF SetAttemptTeardownCompletionState, LiveStates, TerminalStates
  <2>3. SettledRow(a)
    BY <1>1, <2>1, <2>2 DEF SettledRow, AttemptRow
  <2>4. \A b \in Attempts \ {a} : attempt'[b] = attempt[b]
    BY <1>1, <1>4 DEF SetAttemptTeardownCompletionState
  <2>5. QED
    BY <2>3, <2>4 DEF RowStep
<1>5. ASSUME NEW from \in LiveStates, NEW to \in TerminalStates,
             TerminalizeTaskAndAttempt(t, a, from, to)
      PROVE  \A b \in Attempts : RowStep(b)
  BY <1>1, <1>5 DEF TerminalizeTaskAndAttempt, RowStep, Worked, AttemptRow, TerminalStates
<1>6. QED
  BY <1>2, <1>3, <1>4, <1>5 DEF Settle

(* Every transaction moves every row in one of the four ways.                *)
LEMMA RowSteps ==
    ASSUME StoreTypeOK, StoreNext
    PROVE  \A b \in Attempts : RowStep(b)
<1>1. ASSUME NEW t \in Tasks, Facts(t)
      PROVE  \A b \in Attempts : RowStep(b)
  BY <1>1 DEF RowStep, Facts, SetTaskPR, SetTaskKind, SetTaskDelivery, SetTaskMerge,
     SetTaskMergeAnnounced, SetTaskReportState, SetTaskRepair, ClearTaskRepair
<1>2. QED
  BY <1>1, BirthRows, ProvisionRows, SettleRows DEF StoreNext

(* Rows are only inserted blank but for their owner and state, and a row     *)
(* nobody inserted is not written.                                           *)
LEMMA HistoryInvInductive == HistoryInv /\ [StoreNext]_storeVars => HistoryInv'
<1>1. ASSUME HistoryInv, StoreNext
      PROVE  HistoryInv'
  <2>1. StoreTypeOK'
    BY <1>1, BirthType, ProvisionType, SettleType, FactsType DEF HistoryInv, StoreNext
  <2>2. ASSUME NEW a \in Attempts, attempt'[a].life = "absent"
        PROVE  Blank(attempt'[a])
    <3>1. RowStep(a) /\ attempt[a] \in AttemptRow
      BY <1>1, RowSteps DEF HistoryInv, StoreTypeOK
    <3>2. ~Inserted(a)
      BY <2>2 DEF Inserted
    <3>4. ~SettledRow(a)
      <4>1. SettledRow(a) => attempt'[a]["life"] = attempt[a]["life"]
        BY DEF SettledRow
      <4>2. QED
        BY <2>2, <4>1 DEF SettledRow
    <3>5. ~Worked(a)
      BY <2>2 DEF Worked
    <3>3. QED
      BY <1>1, <2>2, <3>1, <3>2, <3>4, <3>5 DEF RowStep, HistoryInv, UnusedIsBlank
  <2>3. QED
    BY <2>1, <2>2 DEF HistoryInv, UnusedIsBlank
<1>2. HistoryInv /\ UNCHANGED storeVars => HistoryInv'
  BY DEF HistoryInv, StoreTypeOK, UnusedIsBlank, storeVars
<1>3. QED
  BY <1>1, <1>2

LEMMA HistoryInvAlways == StoreSpec => []HistoryInv
<1>1. StoreInit => HistoryInv
  <2>1. StoreInit => StoreTypeOK
    BY RowTypes DEF StoreInit, StoreTypeOK
  <2>2. StoreInit => UnusedIsBlank
    <3>1. ASSUME StoreInit, NEW a \in Attempts
          PROVE  Blank(attempt[a])
      <4>1. Blank(NewAttempt(NoTask, "absent"))
        BY DEF NewAttempt, Blank
      <4>2. QED
        BY <3>1, <4>1 DEF StoreInit
    <3>2. QED
      BY <3>1 DEF UnusedIsBlank
  <2>3. QED
    BY <2>1, <2>2 DEF HistoryInv
<1>2. QED
  BY <1>1, HistoryInvInductive, PTL DEF StoreSpec

-----------------------------------------------------------------------------

(* What an attempt ended as, and what it was provisioned with, never changes *)
(* after it ended: teardown and reconcile only settle its resources and its  *)
(* completion record.                                                        *)
THEOREM HistoryFrozenAlways == StoreSpec => HistoryFrozen
<1>1. ASSUME HistoryInv, [StoreNext]_storeVars
      PROVE  [StepKeepsHistory]_storeVars
  <2>1. ASSUME StoreNext, NEW a \in Attempts, attempt[a].life \in TerminalStates
        PROVE  \A f \in {"owner", "life", "worktree", "herdr", "submitted",
                         "confirmed", "verified", "reported", "decided", "disposition"} :
                   attempt'[a][f] = attempt[a][f]
    <3>1. RowStep(a)
      BY <1>1, <2>1, RowSteps DEF HistoryInv
    <3>2. ~Inserted(a) /\ ~Worked(a)
      BY <2>1 DEF Inserted, Worked, LiveStates, TerminalStates
    <3>3. QED
      BY <3>1, <3>2 DEF RowStep, SettledRow
  <2>2. QED
    BY <1>1, <2>1 DEF StepKeepsHistory
<1>2. QED
  BY <1>1, HistoryInvAlways, PTL DEF StoreSpec, HistoryFrozen

(* The first teardown decision stands, whoever asks for another one later.   *)
THEOREM DecisionStandsAlways == StoreSpec => DecisionStands
<1>1. ASSUME HistoryInv, [StoreNext]_storeVars
      PROVE  [StepKeepsDecisions]_storeVars
  <2>1. ASSUME StoreNext, NEW a \in Attempts, attempt[a].decided # ""
        PROVE  /\ attempt'[a].decided = attempt[a].decided
               /\ attempt'[a].disposition = attempt[a].disposition
    <3>1. RowStep(a)
      BY <1>1, <2>1, RowSteps DEF HistoryInv
    <3>2. ~Inserted(a)
      <4>1. attempt[a].life = "absent" => attempt[a].decided = ""
        BY <1>1 DEF HistoryInv, UnusedIsBlank, Blank
      <4>2. QED
        BY <2>1, <4>1 DEF Inserted
    <3>3. QED
      BY <2>1, <3>1, <3>2 DEF RowStep, SettledRow, Worked
  <2>2. QED
    BY <1>1, <2>1 DEF StepKeepsDecisions
<1>2. QED
  BY <1>1, HistoryInvAlways, PTL DEF StoreSpec, DecisionStands

(* A resource that is recorded as released or abandoned stays so, and is     *)
(* only recorded as released by way of the claim to release it.              *)
THEOREM SettledOnceAlways == StoreSpec => SettledOnce
<1>1. ASSUME HistoryInv, [StoreNext]_storeVars
      PROVE  [StepSettlesOnce]_storeVars
  <2>1. ASSUME StoreNext, NEW a \in Attempts, NEW r \in Resources
        PROVE  /\ attempt[a].settle[r] \in {"released", "abandoned"} =>
                      attempt'[a].settle[r] = attempt[a].settle[r]
               /\ attempt'[a].settle[r] = "released" =>
                      attempt[a].settle[r] \in {"releasing", "released"}
    <3>1. RowStep(a)
      BY <1>1, <2>1, RowSteps DEF HistoryInv
    <3>2. CASE Inserted(a)
      BY <1>1, <3>2 DEF Inserted, HistoryInv, UnusedIsBlank, Blank
    <3>3. CASE SettledRow(a)
      <4>1. ASSUME NEW next \in DOMAIN ResourceFrom,
                   attempt'[a].settle[r] = next,
                   attempt[a].settle[r] \in ResourceFrom[next]
            PROVE  /\ attempt[a].settle[r] \notin {"released", "abandoned"}
                   /\ next = "released" => attempt[a].settle[r] = "releasing"
        <5>1. next \in {"releasing", "released", "retryable", "ambiguous", "abandoned"}
          BY <4>1 DEF ResourceFrom
        <5>2. /\ ResourceFrom["releasing"] = {"", "retryable", "ambiguous"}
              /\ ResourceFrom["released"] = {"releasing"}
              /\ ResourceFrom["retryable"] = {"releasing"}
              /\ ResourceFrom["ambiguous"] = {"releasing", "retryable", ""}
              /\ ResourceFrom["abandoned"] = {"ambiguous", "retryable", ""}
          BY DEF ResourceFrom
        <5>3. QED
          BY <4>1, <5>1, <5>2
      <4>2. QED
        BY <3>3, <4>1 DEF SettledRow
    <3>4. QED
      BY <3>1, <3>2, <3>3 DEF RowStep, Worked
  <2>2. QED
    BY <1>1, <2>1 DEF StepSettlesOnce
<1>2. QED
  BY <1>1, HistoryInvAlways, PTL DEF StoreSpec, SettledOnce

=============================================================================
