-------------------------- MODULE HandLifecycleProofs --------------------------
(***************************************************************************)
(* What the commands guarantee for any number of tasks, attempts, leases   *)
(* and panes, and whatever the instance lets happen around them.           *)
(***************************************************************************)
EXTENDS HandLifecycle, HandStoreProofs

(* Where a command is.  A free one works on no attempt.                      *)
FreePcs == {"idle", "dead", "observe"}
RunPcs ==
    {"run", "submit", "confirm", "confirmed", "running", "close_pane", "clear_pane"}
LeasePcs == {"record", "check", "pane", "herdr", "return_lease", "clear_lease"} \union RunPcs
LaunchPcs == {"get"} \union LeasePcs
ScoutPanePcs == {"scout_close", "scout_closed", "scout_unclosed"}
ScoutLeasePcs == {"scout_return", "scout_returned", "scout_unreturned"}
ScoutPcs == {"scout_pane", "scout_lease"} \union ScoutPanePcs \union ScoutLeasePcs
ShipPcs == {"launch"} \union ScoutPcs \union LaunchPcs
GuardPcs == {"recover", "examine", "merge_state", "decide", "finish"}
PanePcs ==
    {"close", "closed", "close_failed", "close_settled", "pane_closed", "pane_unclosed",
     "abandon_herdr"}
WorktreePcs ==
    {"return", "return_ok", "return_aborted", "return_error", "return_settled",
     "lease_returned", "abandon_worktree"}
RecordPcs ==
    {"facts", "append", "appended", "settled_appended",
     "end_pending", "end_append", "end_appended", "end"}
ClosingPcs == {"claim_pane", "claim_lease"} \union PanePcs \union WorktreePcs \union RecordPcs
Pcs == FreePcs \union ShipPcs \union GuardPcs \union ClosingPcs

Command ==
    [op : Operations, pc : Pcs,
     att : Attempts \union {NoAttempt}, scout : Attempts \union {NoAttempt},
     lease : Leases \union {NoLease}, pane : Panes \union {NoPane},
     resume : BOOLEAN, force : BOOLEAN, safe : BOOLEAN,
     kind : Kinds, merged : BOOLEAN, attest : Attestations]

(* What a command needs to know of itself to call the store as it may be     *)
(* called.                                                                   *)
CommandOK(t) ==
    /\ cmd[t].pc \notin FreePcs => cmd[t].att \in Attempts
    /\ cmd[t].pc \in ScoutPcs => cmd[t].scout \in Attempts
    /\ cmd[t].pc \in LeasePcs => cmd[t].lease \in Leases
    /\ cmd[t].pc \in RunPcs \union {"herdr"} => cmd[t].pane \in Panes
    /\ cmd[t].pc = "idle" => cmd[t] = Idle

CommandsTyped ==
    /\ cmd \in [Tasks -> Command]
    /\ \A t \in Tasks : CommandOK(t)

-----------------------------------------------------------------------------
(* What a command knows of its rows, and of the world.                       *)

Issued(l) == lease[l] # "unissued"
Back(l) == lease[l] \in {"free", "foreign"}
Opened(p) == pane[p].state # "unissued"
Gone(p) == pane[p].state \in {"gone", "foreign"}

LaunchStage(t) ==
    LET c == cmd[t]
        row == attempt[c.att] IN
    /\ c.pc \in ShipPcs => row.life = "provisioning" /\ row.decided = ""
    /\ c.pc \notin LeasePcs => c.lease = NoLease
    /\ c.pc \in LeasePcs => Issued(c.lease)
    /\ c.pc \in ScoutPcs \union {"launch", "get", "record"} => row.worktree = NoLease
    /\ c.pc \in LeasePcs \ {"record"} => row.worktree = c.lease
    /\ c.pc \in ScoutPcs \union {"launch", "get", "record", "check", "pane", "herdr"}
          => row.herdr = NoPane
    /\ c.pc \in RunPcs \union {"herdr"} => Opened(c.pane) /\ pane[c.pane].cwd = c.lease
    /\ c.pc \in RunPcs => row.herdr = c.pane
    /\ c.pc = "clear_pane" => Gone(c.pane)
    /\ c.pc = "clear_lease" => Back(c.lease)

ScoutStage(t) ==
    LET scout == attempt[cmd[t].scout] IN
    /\ cmd[t].pc \in ScoutPcs => scout.owner = t /\ scout.life = "completed"
    /\ cmd[t].pc \in ScoutPanePcs => scout.herdr # NoPane
    /\ cmd[t].pc \in ScoutLeasePcs => scout.worktree # NoLease
    /\ cmd[t].pc = "scout_closed" => Gone(scout.herdr)
    /\ cmd[t].pc = "scout_returned" => Back(scout.worktree)

ClosingStage(t) ==
    LET row == attempt[cmd[t].att] IN
    /\ cmd[t].pc \notin FreePcs => row.owner = t
    /\ cmd[t].pc \in ClosingPcs => row.decided # "" \/ row.life \in TerminalStates
    /\ cmd[t].pc \in PanePcs => row.herdr # NoPane
    /\ cmd[t].pc \in WorktreePcs => row.worktree # NoLease
    /\ cmd[t].pc \in {"closed", "pane_closed", "abandon_herdr"} => Gone(row.herdr)
    /\ cmd[t].pc \in {"return_ok", "lease_returned"} => Back(row.worktree)

Stage(t) == LaunchStage(t) /\ ScoutStage(t) /\ ClosingStage(t)
Stages == \A t \in Tasks : Stage(t)

RowOK(row) ==
    /\ row.life = "absent" => row.worktree = NoLease /\ row.herdr = NoPane /\ row.decided = ""
    /\ row.life \notin TerminalStates /\ row.decided = "" =>
          row.settle["herdr"] = "" /\ row.settle["worktree"] = ""
    /\ row.life = "running" => row.herdr # NoPane
    /\ row.settle["herdr"] # "" => row.herdr # NoPane
    /\ row.settle["worktree"] # "" => row.worktree # NoLease

RowsOK == \A a \in Attempts : RowOK(attempt[a])

-----------------------------------------------------------------------------
WorldTyped ==
    /\ lease \in [Leases -> {"unissued", "held", "free", "foreign"}]
    /\ work \in [Leases -> Worktree]
    /\ pane \in [Panes -> [state : {"unissued", "shell", "agent", "gone", "foreign"},
                           cwd : Leases \union {NoLease}]]
    /\ pr \in [Tasks -> {"none", "open", "merged"}]
    /\ report \in [Tasks -> BOOLEAN]

Recorded ==
    /\ \A a \in Attempts :
          /\ attempt[a].worktree # NoLease => Issued(attempt[a].worktree)
          /\ attempt[a].herdr # NoPane => Opened(attempt[a].herdr)
    /\ \A p \in Panes : Opened(p) => pane[p].cwd \in Leases /\ Issued(pane[p].cwd)

Holds(a, l) ==
    \/ attempt[a].worktree = l
    \/ attempt[a].herdr # NoPane /\ pane[attempt[a].herdr].cwd = l
    \/ \E t \in Tasks : cmd[t].att = a /\ cmd[t].lease = l

Apart ==
    \A a, b \in Attempts, l \in Leases : Holds(a, l) /\ Holds(b, l) => a = b

(* What is recorded as released is gone for good.                            *)
ReleasedForGood ==
    \A a \in Attempts :
        /\ attempt[a].settle["worktree"] = "released" => Back(attempt[a].worktree)
        /\ attempt[a].settle["herdr"] = "released" => Gone(attempt[a].herdr)

(* The inductive invariant.                                                  *)
LifecycleInv ==
    /\ StoreInv
    /\ CommandsTyped
    /\ WorldTyped
    /\ RowsOK
    /\ Stages
    /\ Recorded
    /\ Apart
    /\ ReleasedForGood
    /\ AgentsAreClaimed

-----------------------------------------------------------------------------
(* The transactions, by what they do to the rows of the task that runs them. *)

Closed(row) == row.decided # "" \/ row.life \in TerminalStates

(* A row whose provisioning does not change, and whose end is not undone.    *)
Stands(old, new) ==
    /\ new.owner = old.owner /\ new.worktree = old.worktree /\ new.herdr = old.herdr
    /\ new.life # "absent"
    /\ new.life = "running" => old.life = "running" \/ old.herdr # NoPane
    /\ old.life \in TerminalStates => new.life = old.life
    /\ old.decided # "" => new.decided # ""

RowsStand(t) ==
    \A a \in Attempts :
        \/ attempt'[a] = attempt[a]
        \/ attempt[a].owner = t /\ Stands(attempt[a], attempt'[a])

RowsQuiet == \A a \in Attempts : attempt'[a].settle = attempt[a].settle

FactCall(t) ==
    \/ SetTaskPR(t) \/ SetTaskDelivery(t) \/ SetTaskMergeAnnounced(t)
    \/ \E kind \in Kinds : SetTaskKind(t, kind)
    \/ \E code \in RepairCodes : \/ \E a \in Attempts : SetTaskRepair(t, code, a)
                                 \/ ClearTaskRepair(t, code)

QuietCall(t, a) ==
    \/ MarkLaunchSubmitted(t, a) \/ MarkLaunchConfirmed(t, a)
    \/ MarkAttemptRunning(t, a) /\ attempt[a].herdr # NoPane
    \/ \E terminal \in {"completed", "interrupted"}, d \in TeardownDispositions :
          SetAttemptTeardownDecision(t, a, terminal, d)
    \/ \E next \in {"pending", "appended"} :
          SetAttemptTeardownCompletionState(t, a, attempt[a].life, next)
    \/ \E to \in {"completed", "interrupted"} :
          TerminalizeTaskAndAttempt(t, a, attempt[a].life, to)
    \/ \E reported \in ReportStates :
          UpdateAttemptObservation(t, a, "running", FALSE, reported)

(* Facts of the task leave the attempts alone.                               *)
LEMMA FactCalls ==
    ASSUME NEW t \in Tasks, FactCall(t)
    PROVE  StoreNext /\ attempt' = attempt
<1>1. Facts(t)
  BY DEF FactCall, Facts
<1>2. attempt' = attempt
  BY DEF FactCall, SetTaskPR, SetTaskDelivery, SetTaskMergeAnnounced, SetTaskKind,
     SetTaskRepair, ClearTaskRepair
<1>3. QED
  BY <1>1, <1>2 DEF StoreNext

(* Launch marks, decisions, completion states, ends and reports leave what   *)
(* the row was provisioned with, and what was settled of it.                 *)
LEMMA QuietCalls ==
    ASSUME NEW t \in Tasks, NEW a \in Attempts, StoreInv, QuietCall(t, a)
    PROVE  StoreNext /\ RowsStand(t) /\ RowsQuiet
<1>1. attempt \in [Attempts -> AttemptRow] /\ attempt[a] \in AttemptRow
  BY DEF StoreInv, StoreTypeOK
<1>2. attempt[a].owner = t
  BY DEF QuietCall, MarkLaunchSubmitted, MarkLaunchConfirmed, MarkAttemptRunning, Provisioning,
     SetAttemptTeardownDecision, SetAttemptTeardownCompletionState, TerminalizeTaskAndAttempt,
     UpdateAttemptObservation
<1>3. attempt[a].life \in LiveStates \union TerminalStates
  <2>1. attempt[a].life # "absent"
    BY <1>2, StoreAssumption DEF StoreInv, RowsAscending
  <2>2. QED
    BY <1>1, <2>1 DEF AttemptRow
<1>4. ASSUME NEW row, attempt' = [attempt EXCEPT ![a] = row], row.settle = attempt[a].settle,
             Stands(attempt[a], row)
      PROVE  RowsStand(t) /\ RowsQuiet
  BY <1>1, <1>2, <1>4 DEF RowsStand, RowsQuiet
<1>5. CASE MarkLaunchSubmitted(t, a)
  <2> DEFINE row == [attempt[a] EXCEPT !.submitted = TRUE]
  <2>1. row.settle = attempt[a].settle /\ Stands(attempt[a], row)
    BY <1>1, <1>3 DEF Stands, AttemptRow, LiveStates, TerminalStates
  <2>2. attempt' = [attempt EXCEPT ![a] = row]
    BY <1>5 DEF MarkLaunchSubmitted
  <2>3. StoreNext
    BY <1>5 DEF StoreNext, Provision
  <2> HIDE DEF row
  <2>4. QED
    BY <1>4, <2>1, <2>2, <2>3
<1>6. CASE MarkLaunchConfirmed(t, a)
  <2> DEFINE row == [attempt[a] EXCEPT !.confirmed = TRUE]
  <2>1. row.settle = attempt[a].settle /\ Stands(attempt[a], row)
    BY <1>1, <1>3 DEF Stands, AttemptRow, LiveStates, TerminalStates
  <2>2. attempt' = [attempt EXCEPT ![a] = row]
    BY <1>6 DEF MarkLaunchConfirmed
  <2>3. StoreNext
    BY <1>6 DEF StoreNext, Provision
  <2> HIDE DEF row
  <2>4. QED
    BY <1>4, <2>1, <2>2, <2>3
<1>7. CASE MarkAttemptRunning(t, a) /\ attempt[a].herdr # NoPane
  <2> DEFINE row == [attempt[a] EXCEPT !.life = "running"]
  <2>1. row.settle = attempt[a].settle /\ Stands(attempt[a], row)
    BY <1>1, <1>7 DEF Stands, AttemptRow, TerminalStates, MarkAttemptRunning, Provisioning
  <2>2. attempt' = [attempt EXCEPT ![a] = row]
    BY <1>7 DEF MarkAttemptRunning
  <2>3. StoreNext
    BY <1>7 DEF StoreNext, Provision
  <2> HIDE DEF row
  <2>4. QED
    BY <1>4, <2>1, <2>2, <2>3
<1>8. ASSUME NEW terminal \in {"completed", "interrupted"}, NEW d \in TeardownDispositions,
             SetAttemptTeardownDecision(t, a, terminal, d)
      PROVE  StoreNext /\ RowsStand(t) /\ RowsQuiet
  <2> DEFINE row == [attempt[a] EXCEPT !.decided = terminal, !.disposition = d]
  <2>1. row.settle = attempt[a].settle /\ Stands(attempt[a], row)
    BY <1>1, <1>3 DEF Stands, AttemptRow, LiveStates, TerminalStates
  <2>2. attempt' = [attempt EXCEPT ![a] = row]
    BY <1>8 DEF SetAttemptTeardownDecision
  <2>3. StoreNext
    BY <1>8, DispositionAssumption DEF StoreNext, Settle
  <2> HIDE DEF row
  <2>4. QED
    BY <1>4, <2>1, <2>2, <2>3
<1>9. ASSUME NEW next \in {"pending", "appended"},
             SetAttemptTeardownCompletionState(t, a, attempt[a].life, next)
      PROVE  StoreNext /\ RowsStand(t) /\ RowsQuiet
  <2> DEFINE row == [attempt[a] EXCEPT !.completion = next]
  <2>1. row.settle = attempt[a].settle /\ Stands(attempt[a], row)
    BY <1>1, <1>3 DEF Stands, AttemptRow, LiveStates, TerminalStates
  <2>2. attempt' = [attempt EXCEPT ![a] = row]
    BY <1>9 DEF SetAttemptTeardownCompletionState
  <2>3. StoreNext
    BY <1>3, <1>9 DEF StoreNext, Settle, CompletionFrom
  <2> HIDE DEF row
  <2>4. QED
    BY <1>4, <2>1, <2>2, <2>3
<1>10. ASSUME NEW to \in {"completed", "interrupted"},
              TerminalizeTaskAndAttempt(t, a, attempt[a].life, to)
       PROVE  StoreNext /\ RowsStand(t) /\ RowsQuiet
  <2> DEFINE row == [attempt[a] EXCEPT !.life = to]
  <2>1. row.settle = attempt[a].settle /\ Stands(attempt[a], row)
    BY <1>1, <1>10 DEF Stands, AttemptRow, LiveStates, TerminalStates,
       TerminalizeTaskAndAttempt, ValidAttemptTransition
  <2>2. attempt' = [attempt EXCEPT ![a] = row]
    BY <1>10 DEF TerminalizeTaskAndAttempt
  <2>3. StoreNext
    BY <1>10 DEF StoreNext, Settle, LiveStates, TerminalStates,
       TerminalizeTaskAndAttempt, ValidAttemptTransition
  <2> HIDE DEF row
  <2>4. QED
    BY <1>4, <2>1, <2>2, <2>3
<1>11. ASSUME NEW reported \in ReportStates,
              UpdateAttemptObservation(t, a, "running", FALSE, reported)
       PROVE  StoreNext /\ RowsStand(t) /\ RowsQuiet
  <2> DEFINE row == [attempt[a] EXCEPT !.verified = @ \/ FALSE, !.reported = reported]
  <2>1. row.settle = attempt[a].settle /\ Stands(attempt[a], row)
    BY <1>1, <1>3 DEF Stands, AttemptRow, LiveStates, TerminalStates
  <2>2. attempt' = [attempt EXCEPT ![a] = row]
    BY <1>11 DEF UpdateAttemptObservation
  <2>3. Provision(t, a)
    BY <1>11 DEF Provision, LiveStates
  <2>4. StoreNext
    BY <2>3 DEF StoreNext
  <2> HIDE DEF row
  <2> QED
    BY <1>4, <2>1, <2>2, <2>4
<1>12. QED
  BY <1>5, <1>6, <1>7, <1>8, <1>9, <1>10, <1>11 DEF QuietCall

(* A settlement writes one resource of one row.                              *)
LEMMA SettleCalls ==
    ASSUME NEW t \in Tasks, NEW a \in Attempts, NEW r \in Resources,
           NEW next \in {"releasing", "released", "retryable", "ambiguous", "abandoned"},
           StoreInv, SetResource(t, a, r, next)
    PROVE  /\ StoreNext /\ RowsStand(t)
           /\ attempt[a].owner = t
           /\ attempt[a].settle[r] \in ResourceFrom[next]
           /\ attempt' = [attempt EXCEPT ![a].settle[r] = next]
           /\ \A b \in Attempts : /\ attempt'[b].life = attempt[b].life
                                  /\ attempt'[b].decided = attempt[b].decided
<1>1. attempt \in [Attempts -> AttemptRow] /\ attempt[a] \in AttemptRow
  BY DEF StoreInv, StoreTypeOK
<1>2. /\ attempt[a].owner = t
      /\ attempt[a].settle[r] \in ResourceFrom[next]
      /\ attempt' = [attempt EXCEPT ![a].settle[r] = next]
  BY DEF SetResource, SetAttemptTeardownResourceState
<1>3. attempt[a].life \in LiveStates \union TerminalStates
  <2>1. attempt[a].life # "absent"
    BY <1>2, StoreAssumption DEF StoreInv, RowsAscending
  <2>2. QED
    BY <1>1, <2>1 DEF AttemptRow
<1>4. StoreNext
  BY <1>3 DEF StoreNext, Settle, SetResource, ResourceFrom
<1>5. RowsStand(t)
  <2> DEFINE row == [attempt[a] EXCEPT !.settle[r] = next]
  <2>1. Stands(attempt[a], row)
    BY <1>1, <1>3 DEF Stands, AttemptRow, LiveStates, TerminalStates
  <2>2. attempt' = [attempt EXCEPT ![a] = row]
    BY <1>2
  <2> HIDE DEF row
  <2>3. QED
    BY <1>1, <1>2, <2>1, <2>2 DEF RowsStand
<1>6. \A b \in Attempts : /\ attempt'[b].life = attempt[b].life
                          /\ attempt'[b].decided = attempt[b].decided
  <2> DEFINE row == [attempt[a] EXCEPT !.settle[r] = next]
  <2>1. row.life = attempt[a].life /\ row.decided = attempt[a].decided
    BY <1>1 DEF AttemptRow
  <2>2. attempt' = [attempt EXCEPT ![a] = row]
    BY <1>2
  <2> HIDE DEF row
  <2>3. QED
    BY <1>1, <2>1, <2>2
<1>7. QED
  BY <1>2, <1>4, <1>5, <1>6

-----------------------------------------------------------------------------
(* The world only moves on: leases are handed out once and come back once,   *)
(* pane ids are used once.                                                   *)

Moves ==
    /\ \A l \in Leases : (Issued(l) => Issued(l)') /\ (Back(l) => Back(l)')
    /\ \A p \in Panes : /\ Opened(p) => Opened(p)' /\ pane'[p].cwd = pane[p].cwd
                        /\ Gone(p) => Gone(p)'

(* It does so without a new lease, a new pane or a new agent.                *)
Fades ==
    /\ Moves
    /\ \A l \in Leases : lease'[l] = "held" => lease[l] = "held"
    /\ \A p \in Panes : /\ Opened(p)' => Opened(p)
                        /\ pane'[p].state = "agent" => pane[p].state = "agent"

(* A world that stands still does.                                           *)
LEMMA StillFades ==
    ASSUME lease' = lease, pane' = pane
    PROVE  Fades
BY DEF Fades, Moves, Issued, Back, Opened, Gone

(* Closing a tab.                                                            *)
LEMMA ClosingFades ==
    ASSUME WorldTyped, NEW p \in Panes, NEW result \in {"ok", "error"}, Opened(p),
           CloseTab(p, result)
    PROVE  Fades /\ WorldTyped' /\ (result = "ok" => pane'[p].state = "gone")
<1>1. pane[p] \in [state : {"unissued", "shell", "agent", "gone", "foreign"},
                   cwd : Leases \union {NoLease}]
  BY DEF WorldTyped
<1>2. CASE result = "ok" /\ pane' = [pane EXCEPT ![p].state = "gone"]
               /\ UNCHANGED <<lease, work, pr, report>>
  <2>1. [pane[p] EXCEPT !.state = "gone"]
            \in [state : {"unissued", "shell", "agent", "gone", "foreign"},
                 cwd : Leases \union {NoLease}]
    BY <1>1
  <2>2. WorldTyped'
    BY <1>2, <2>1 DEF WorldTyped
  <2>3. /\ pane'[p].state = "gone" /\ pane'[p].cwd = pane[p].cwd
        /\ \A q \in Panes \ {p} : pane'[q] = pane[q]
    BY <1>1, <1>2 DEF WorldTyped
  <2>4. Fades
    BY <1>2, <2>3 DEF Fades, Moves, Issued, Back, Opened, Gone
  <2>5. QED
    BY <2>2, <2>3, <2>4
<1>3. CASE result = "error" /\ UNCHANGED external
  BY <1>3, StillFades DEF external, WorldTyped
<1>4. QED
  BY <1>2, <1>3 DEF CloseTab

(* Returning a worktree.                                                     *)
LEMMA ReturningFades ==
    ASSUME WorldTyped, NEW l \in Leases, NEW force, NEW result \in {"ok", "aborted", "error"},
           Issued(l), ReturnLease(l, force, result)
    PROVE  Fades /\ WorldTyped' /\ (result = "ok" => lease'[l] = "free")
<1>1. CASE Returned(l) /\ lease[l] = "held"
  <2>1. /\ lease' = [lease EXCEPT ![l] = "free"]
        /\ work' = [work EXCEPT ![l] = Fresh] /\ UNCHANGED <<pane, pr, report>>
    BY <1>1 DEF Returned
  <2>2. WorldTyped'
    BY <2>1 DEF WorldTyped, Fresh, Worktree
  <2>3. lease'[l] = "free" /\ \A m \in Leases \ {l} : lease'[m] = lease[m]
    BY <2>1 DEF WorldTyped
  <2>4. Fades
    BY <1>1, <2>1, <2>3 DEF Fades, Moves, Issued, Back, Opened, Gone
  <2>5. QED
    BY <2>2, <2>3, <2>4
<1>2. CASE UNCHANGED external /\ result # "ok"
  BY <1>2, StillFades DEF external, WorldTyped
<1>3. QED
  BY <1>1, <1>2 DEF ReturnLease

-----------------------------------------------------------------------------
(* Where a command may go.                                                   *)

(* A command that is done, that is dead, or that went elsewhere.             *)
LEMMA CommandColumns ==
    ASSUME NEW c \in Command
    PROVE  /\ Idle \in Command /\ Dead \in Command
           /\ \A pc \in Pcs : [c EXCEPT !.pc = pc] \in Command
           /\ \A a \in Attempts, pc \in Pcs : [c EXCEPT !.att = a, !.pc = pc] \in Command
<1>1. Idle \in Command
  BY DEF Idle, Command, Operations, Attestations, Kinds, Pcs, FreePcs
<1>2. Dead \in Command
  BY <1>1 DEF Dead, Command, Pcs, FreePcs
<1>3. ASSUME NEW pc \in Pcs
      PROVE  [c EXCEPT !.pc = pc] \in Command
  BY DEF Command
<1>4. ASSUME NEW pc \in Pcs, NEW a \in Attempts
      PROVE  [c EXCEPT !.att = a, !.pc = pc] \in Command
  BY DEF Command
<1>5. QED
  BY <1>1, <1>2, <1>3, <1>4

(* The rows of its attempts.                                                 *)
LEMMA Standing ==
    ASSUME NEW t \in Tasks, NEW a \in Attempts, RowsStand(t)
    PROVE  /\ attempt'[a].owner = attempt[a].owner
           /\ attempt'[a].worktree = attempt[a].worktree
           /\ attempt'[a].herdr = attempt[a].herdr
           /\ attempt[a].life \in TerminalStates => attempt'[a].life = attempt[a].life
           /\ Closed(attempt[a]) => Closed(attempt'[a])
BY DEF RowsStand, Stands, Closed

(* A command that is done, or dead, or about to look again knows nothing.    *)
LEMMA Rests ==
    ASSUME NEW t \in Tasks, CommandsTyped, NEW c \in Command, cmd' = [cmd EXCEPT ![t] = c],
           c.pc \in FreePcs, c.lease = NoLease, c.pc = "idle" => c = Idle
    PROVE  CommandsTyped' /\ Stage(t)'
<1>1. cmd'[t] = c /\ \A s \in Tasks \ {t} : cmd'[s] = cmd[s]
  BY DEF CommandsTyped
<1>2. cmd' \in [Tasks -> Command]
  BY DEF CommandsTyped
<1>3. c.pc \notin ScoutPcs /\ c.pc \notin LeasePcs /\ c.pc \notin RunPcs \union {"herdr"}
      /\ c.pc \notin ShipPcs /\ c.pc \notin ClosingPcs
  BY DEF FreePcs, ScoutPcs, ScoutPanePcs, ScoutLeasePcs, LeasePcs, RunPcs, ShipPcs, LaunchPcs,
     ClosingPcs, PanePcs, WorktreePcs, RecordPcs
<1>4. CommandOK(t)'
  BY <1>1, <1>3 DEF CommandOK
<1>5. \A s \in Tasks \ {t} : CommandOK(s)'
  BY <1>1 DEF CommandsTyped, CommandOK
<1>6. LaunchStage(t)'
  BY <1>1, <1>3 DEF LaunchStage, RunPcs, LeasePcs, LaunchPcs, ShipPcs
<1>7. ScoutStage(t)'
  BY <1>1, <1>3 DEF ScoutStage, ScoutPcs, ScoutPanePcs, ScoutLeasePcs
<1>8. ClosingStage(t)'
  BY <1>1, <1>3 DEF ClosingStage, ClosingPcs, PanePcs, WorktreePcs
<1>9. QED
  BY <1>2, <1>4, <1>5, <1>6, <1>7, <1>8 DEF CommandsTyped, Stage

(* A command that ends an attempt knows whose it is, that it is to end, and  *)
(* what it found of the resource it is about.                                *)
LEMMA Closes ==
    ASSUME NEW t \in Tasks, CommandsTyped, NEW c \in Command, cmd' = [cmd EXCEPT ![t] = c],
           c.pc \in GuardPcs \union ClosingPcs, c.lease = NoLease, c.att \in Attempts,
           attempt'[c.att].owner = t,
           c.pc \in ClosingPcs => Closed(attempt'[c.att]),
           c.pc \in PanePcs => attempt'[c.att].herdr # NoPane,
           c.pc \in WorktreePcs => attempt'[c.att].worktree # NoLease,
           c.pc \in {"closed", "pane_closed", "abandon_herdr"} =>
               pane'[attempt'[c.att].herdr].state \in {"gone", "foreign"},
           c.pc \in {"return_ok", "lease_returned"} =>
               lease'[attempt'[c.att].worktree] \in {"free", "foreign"}
    PROVE  CommandsTyped' /\ Stage(t)'
<1>1. cmd'[t] = c /\ \A s \in Tasks \ {t} : cmd'[s] = cmd[s]
  BY DEF CommandsTyped
<1>2. cmd' \in [Tasks -> Command]
  BY DEF CommandsTyped
<1>3. c.pc \notin ScoutPcs /\ c.pc \notin LeasePcs /\ c.pc \notin RunPcs \union {"herdr"}
      /\ c.pc \notin ShipPcs /\ c.pc # "idle"
  BY DEF FreePcs, ScoutPcs, ScoutPanePcs, ScoutLeasePcs, LeasePcs, RunPcs, ShipPcs, LaunchPcs,
     ClosingPcs, GuardPcs, PanePcs, WorktreePcs, RecordPcs
<1>4. CommandOK(t)'
  BY <1>1, <1>3 DEF CommandOK
<1>5. \A s \in Tasks \ {t} : CommandOK(s)'
  BY <1>1 DEF CommandsTyped, CommandOK
<1>6. LaunchStage(t)'
  BY <1>1, <1>3 DEF LaunchStage, RunPcs, LeasePcs, LaunchPcs, ShipPcs
<1>7. ScoutStage(t)'
  BY <1>1, <1>3 DEF ScoutStage, ScoutPcs, ScoutPanePcs, ScoutLeasePcs
<1>8. ClosingStage(t)'
  BY <1>1 DEF ClosingStage, Closed, Gone, Back
<1>9. QED
  BY <1>2, <1>4, <1>5, <1>6, <1>7, <1>8 DEF CommandsTyped, Stage

(* A launch knows its lease, its pane, and what its row records of them.     *)
LEMMA Launches ==
    ASSUME NEW t \in Tasks, CommandsTyped, NEW c \in Command, cmd' = [cmd EXCEPT ![t] = c],
           c.pc \in {"launch"} \union LaunchPcs, c.att \in Attempts,
           attempt'[c.att].owner = t,
           attempt'[c.att].life = "provisioning" /\ attempt'[c.att].decided = "",
           IF c.pc \in LeasePcs THEN c.lease \in Leases /\ lease'[c.lease] # "unissued"
                                ELSE c.lease = NoLease,
           attempt'[c.att].worktree = IF c.pc = "record" THEN NoLease ELSE c.lease,
           c.pc \in {"launch", "get", "record", "check", "pane", "herdr"} =>
               attempt'[c.att].herdr = NoPane,
           c.pc \in RunPcs \union {"herdr"} =>
               /\ c.pane \in Panes
               /\ pane'[c.pane].state # "unissued" /\ pane'[c.pane].cwd = c.lease,
           c.pc \in RunPcs => attempt'[c.att].herdr = c.pane,
           c.pc = "clear_pane" => pane'[c.pane].state \in {"gone", "foreign"},
           c.pc = "clear_lease" => lease'[c.lease] \in {"free", "foreign"}
    PROVE  CommandsTyped' /\ Stage(t)'
<1>1. cmd'[t] = c /\ \A s \in Tasks \ {t} : cmd'[s] = cmd[s]
  BY DEF CommandsTyped
<1>2. cmd' \in [Tasks -> Command]
  BY DEF CommandsTyped
<1>3. c.pc \notin ScoutPcs /\ c.pc # "idle" /\ c.pc \notin ClosingPcs
  BY DEF FreePcs, ScoutPcs, ScoutPanePcs, ScoutLeasePcs, LeasePcs, RunPcs, LaunchPcs,
     ClosingPcs, PanePcs, WorktreePcs, RecordPcs
<1>4. CommandOK(t)'
  BY <1>1, <1>3 DEF CommandOK
<1>5. \A s \in Tasks \ {t} : CommandOK(s)'
  BY <1>1 DEF CommandsTyped, CommandOK
<1>6. c.pc \in {"launch", "get"} <=> c.pc \notin LeasePcs
  BY DEF LaunchPcs, LeasePcs, RunPcs
<1>7. LaunchStage(t)'
  <2>1. c.pc \in LeasePcs \ {"record"} => attempt'[c.att].worktree = c.lease
    OBVIOUS
  <2>2. c.pc \in {"launch", "get", "record"} => attempt'[c.att].worktree = NoLease
    BY <1>6
  <2>3. QED
    BY <1>1, <1>3, <2>1, <2>2 DEF LaunchStage, Issued, Back, Opened, Gone
<1>8. ScoutStage(t)'
  BY <1>1, <1>3 DEF ScoutStage, ScoutPcs, ScoutPanePcs, ScoutLeasePcs
<1>9. ClosingStage(t)'
  BY <1>1, <1>3 DEF ClosingStage, ClosingPcs, PanePcs, WorktreePcs
<1>10. QED
  BY <1>2, <1>4, <1>5, <1>7, <1>8, <1>9 DEF CommandsTyped, Stage

(* A step of a launch that writes neither the lease nor the pane of its row. *)
LEMMA LaunchesOn ==
    ASSUME NEW t \in Tasks, CommandsTyped, Stage(t), RowsStand(t), Moves,
           NEW c \in Command, cmd' = [cmd EXCEPT ![t] = c],
           c.att = cmd[t].att, c.lease = cmd[t].lease, c.pane = cmd[t].pane,
           cmd[t].pc \in LeasePcs \ {"record"}, c.pc \in LeasePcs \ {"record", "herdr"},
           c.pc = "pane" => cmd[t].pc = "check",
           c.pc # "check",
           c.pc \in RunPcs => cmd[t].pc \in RunPcs,
           attempt'[c.att].life = attempt[c.att].life,
           attempt'[c.att].decided = attempt[c.att].decided,
           c.pc = "clear_pane" => pane'[c.pane].state \in {"gone", "foreign"},
           c.pc = "clear_lease" => lease'[c.lease] \in {"free", "foreign"}
    PROVE  CommandsTyped' /\ Stage(t)'
<1>1. cmd[t].pc \in ShipPcs /\ cmd[t].pc \notin FreePcs
      /\ c.pc \in {"launch"} \union LaunchPcs
  BY DEF ShipPcs, LaunchPcs, FreePcs, LeasePcs, RunPcs
<1>2. CommandOK(t)
  BY DEF CommandsTyped
<1>3. c.att \in Attempts /\ c.lease \in Leases /\ attempt[c.att].owner = t
  BY <1>1, <1>2 DEF CommandOK, Stage, ClosingStage
<1>4. /\ attempt[c.att].life = "provisioning" /\ attempt[c.att].decided = ""
      /\ Issued(c.lease) /\ attempt[c.att].worktree = c.lease
  BY <1>1 DEF Stage, LaunchStage
<1>5. /\ attempt'[c.att].owner = t /\ attempt'[c.att].worktree = c.lease
      /\ attempt'[c.att].herdr = attempt[c.att].herdr
  BY <1>3, <1>4, Standing
<1>6. lease'[c.lease] # "unissued"
  BY <1>3, <1>4 DEF Moves, Issued
<1>7. c.pc = "pane" => attempt'[c.att].herdr = NoPane
  BY <1>5 DEF Stage, LaunchStage
<1>8. c.pc \notin {"launch", "get", "record", "check", "herdr"}
  BY DEF LeasePcs, RunPcs
<1>9. c.pc \in RunPcs =>
          /\ c.pane \in Panes
          /\ pane'[c.pane].state # "unissued" /\ pane'[c.pane].cwd = c.lease
          /\ attempt'[c.att].herdr = c.pane
  BY <1>2, <1>5 DEF CommandOK, Stage, LaunchStage, Moves, Opened
<1>10. QED
  BY <1>1, <1>3, <1>4, <1>5, <1>6, <1>7, <1>8, <1>9, Launches

(* A step of a promotion that cleans up after its scout.                     *)
LEMMA Promotes ==
    ASSUME NEW t \in Tasks, CommandsTyped, Stage(t), RowsStand(t), Moves,
           NEW c \in Command, cmd' = [cmd EXCEPT ![t] = c],
           c.att = cmd[t].att, c.scout = cmd[t].scout, c.lease = cmd[t].lease,
           cmd[t].pc \in ScoutPcs, c.pc \in ScoutPcs,
           attempt'[c.att].life = attempt[c.att].life,
           attempt'[c.att].decided = attempt[c.att].decided,
           c.pc \in ScoutPanePcs =>
               cmd[t].pc \in ScoutPanePcs \/ attempt[c.scout].herdr # NoPane,
           c.pc \in ScoutLeasePcs =>
               cmd[t].pc \in ScoutLeasePcs \/ attempt[c.scout].worktree # NoLease,
           c.pc = "scout_closed" =>
               pane'[attempt[c.scout].herdr].state \in {"gone", "foreign"},
           c.pc = "scout_returned" =>
               lease'[attempt[c.scout].worktree] \in {"free", "foreign"}
    PROVE  CommandsTyped' /\ Stage(t)'
<1>1. cmd'[t] = c /\ \A s \in Tasks \ {t} : cmd'[s] = cmd[s]
  BY DEF CommandsTyped
<1>2. cmd' \in [Tasks -> Command]
  BY DEF CommandsTyped
<1>3. /\ cmd[t].pc \in ShipPcs /\ cmd[t].pc \notin FreePcs /\ cmd[t].pc \notin LeasePcs
      /\ c.pc \notin LeasePcs /\ c.pc \notin RunPcs \union {"herdr"} /\ c.pc # "idle"
      /\ c.pc \notin ClosingPcs
      /\ c.pc \notin {"get", "launch", "record", "check", "pane", "herdr", "clear_pane",
                      "clear_lease"}
  BY DEF FreePcs, ScoutPcs, ScoutPanePcs, ScoutLeasePcs, LeasePcs, RunPcs, LaunchPcs, ShipPcs,
     ClosingPcs, PanePcs, WorktreePcs, RecordPcs
<1>4. CommandOK(t)
  BY DEF CommandsTyped
<1>5. c.att \in Attempts /\ c.scout \in Attempts /\ attempt[c.att].owner = t
  BY <1>3, <1>4 DEF CommandOK, Stage, ClosingStage
<1>6. /\ attempt[c.att].life = "provisioning" /\ attempt[c.att].decided = ""
      /\ attempt[c.att].worktree = NoLease /\ attempt[c.att].herdr = NoPane
      /\ c.lease = NoLease
  BY <1>3 DEF Stage, LaunchStage
<1>7. attempt[c.scout].owner = t /\ attempt[c.scout].life = "completed"
  BY DEF Stage, ScoutStage
<1>8. /\ attempt'[c.att].owner = t /\ attempt'[c.att].worktree = NoLease
      /\ attempt'[c.att].herdr = NoPane
  BY <1>5, <1>6, Standing
<1>9. /\ attempt'[c.scout].owner = t /\ attempt'[c.scout].life = "completed"
      /\ attempt'[c.scout].herdr = attempt[c.scout].herdr
      /\ attempt'[c.scout].worktree = attempt[c.scout].worktree
  BY <1>5, <1>7, Standing DEF TerminalStates
<1>10. CommandOK(t)'
  BY <1>1, <1>3, <1>5 DEF CommandOK
<1>11. \A s \in Tasks \ {t} : CommandOK(s)'
  BY <1>1 DEF CommandsTyped, CommandOK
<1>12. LaunchStage(t)'
  BY <1>1, <1>3, <1>6, <1>8 DEF LaunchStage
<1>13. ScoutStage(t)'
  <2>1. c.pc \in ScoutPanePcs => attempt[c.scout].herdr # NoPane
    BY DEF Stage, ScoutStage
  <2>2. c.pc \in ScoutLeasePcs => attempt[c.scout].worktree # NoLease
    BY DEF Stage, ScoutStage
  <2>3. QED
    BY <1>1, <1>9, <2>1, <2>2 DEF ScoutStage, Gone, Back
<1>14. ClosingStage(t)'
  BY <1>1, <1>3, <1>8 DEF ClosingStage, ClosingPcs, PanePcs, WorktreePcs
<1>15. QED
  BY <1>2, <1>10, <1>11, <1>12, <1>13, <1>14 DEF CommandsTyped, Stage

-----------------------------------------------------------------------------
(* What the ordinary step of a command does to its rows and the world.       *)

LeaseKept(t) ==
    \/ cmd'[t].lease = NoLease
    \/ cmd'[t].lease = cmd[t].lease /\ cmd'[t].att = cmd[t].att
    \/ cmd'[t].lease = attempt[cmd'[t].att].worktree

(* One resource is settled, of an attempt that is to end, and as released    *)
(* only when it is gone.                                                     *)
Settles(a, r, next) ==
    /\ attempt' = [attempt EXCEPT ![a].settle[r] = next]
    /\ lease' = lease /\ pane' = pane
    /\ Closed(attempt[a])
    /\ r = "herdr" =>
          /\ attempt[a].herdr # NoPane
          /\ next \in Settled => Gone(attempt[a].herdr)
    /\ r = "worktree" =>
          /\ attempt[a].worktree # NoLease
          /\ next = "released" => Back(attempt[a].worktree)

Settlement ==
    \E a \in Attempts, r \in Resources, next \in ResourceStates \ {""} : Settles(a, r, next)

Ordinary ==
    /\ Fades
    /\ \A t \in Tasks : LeaseKept(t)
    /\ \A a \in Attempts : attempt'[a] = attempt[a] \/ Stands(attempt[a], attempt'[a])
    /\ RowsQuiet \/ Settlement

(* A command knows what it knew while nobody touches its task.               *)
LEMMA OthersKeep ==
    ASSUME NEW s \in Tasks, StoreInv, CommandsTyped, Stage(s), Moves, cmd'[s] = cmd[s],
           \A a \in Attempts : attempt[a].owner = s => attempt'[a] = attempt[a]
    PROVE  Stage(s)'
<1>1. CASE cmd[s].pc \in FreePcs
  <2>1. /\ cmd[s].pc \notin LeasePcs /\ cmd[s].pc \notin ShipPcs /\ cmd[s].pc \notin ScoutPcs
        /\ cmd[s].pc \notin ClosingPcs
    BY <1>1 DEF FreePcs, ScoutPcs, ScoutPanePcs, ScoutLeasePcs, LeasePcs, RunPcs, ShipPcs,
       LaunchPcs, ClosingPcs, PanePcs, WorktreePcs, RecordPcs
  <2>2. cmd[s].lease = NoLease
    BY <2>1 DEF Stage, LaunchStage
  <2>3. LaunchStage(s)'
    BY <2>1, <2>2 DEF LaunchStage, RunPcs, LeasePcs, LaunchPcs, ShipPcs
  <2>4. ScoutStage(s)'
    BY <2>1 DEF ScoutStage, ScoutPcs, ScoutPanePcs, ScoutLeasePcs
  <2>5. ClosingStage(s)'
    BY <1>1, <2>1 DEF ClosingStage, ClosingPcs, PanePcs, WorktreePcs
  <2>6. QED
    BY <2>3, <2>4, <2>5 DEF Stage
<1>2. CASE cmd[s].pc \notin FreePcs
  <2>1. CommandOK(s)
    BY DEF CommandsTyped
  <2>2. cmd[s].att \in Attempts /\ attempt[cmd[s].att].owner = s
    BY <1>2, <2>1 DEF CommandOK, Stage, ClosingStage
  <2>3. attempt'[cmd[s].att] = attempt[cmd[s].att]
    BY <2>2
  <2>4. cmd[s].pc \in ScoutPcs => attempt'[cmd[s].scout] = attempt[cmd[s].scout]
    BY <2>1 DEF CommandOK, Stage, ScoutStage
  <2>5. cmd[s].pc \in LeasePcs => cmd[s].lease \in Leases
    BY <2>1 DEF CommandOK
  <2>6. cmd[s].pc \in RunPcs \union {"herdr"} => cmd[s].pane \in Panes
    BY <2>1 DEF CommandOK
  <2>7. LaunchStage(s)'
    BY <2>3, <2>5, <2>6 DEF Stage, LaunchStage, Moves, RunPcs, LeasePcs
  <2>8. \A a \in Attempts :
            /\ attempt[a].herdr # NoPane => attempt[a].herdr \in Panes
            /\ attempt[a].worktree # NoLease => attempt[a].worktree \in Leases
    BY DEF StoreInv, StoreTypeOK, AttemptRow
  <2>9. /\ cmd[s].pc \in PanePcs \union WorktreePcs => cmd[s].pc \in ClosingPcs
        /\ cmd[s].pc \in ScoutPanePcs \union ScoutLeasePcs => cmd[s].pc \in ScoutPcs
        /\ cmd[s].pc \in {"closed", "pane_closed", "abandon_herdr"} => cmd[s].pc \in PanePcs
        /\ cmd[s].pc \in {"return_ok", "lease_returned"} => cmd[s].pc \in WorktreePcs
        /\ cmd[s].pc = "scout_closed" => cmd[s].pc \in ScoutPanePcs
        /\ cmd[s].pc = "scout_returned" => cmd[s].pc \in ScoutLeasePcs
    BY DEF ClosingPcs, PanePcs, WorktreePcs, ScoutPcs, ScoutPanePcs, ScoutLeasePcs
  <2>10. ScoutStage(s)'
    <3>1. cmd[s].pc \in ScoutPcs => cmd[s].scout \in Attempts
      BY <2>1 DEF CommandOK
    <3>2. QED
      BY <2>4, <2>8, <2>9, <3>1 DEF Stage, ScoutStage, Moves
  <2>11. ClosingStage(s)'
    BY <2>2, <2>3, <2>8, <2>9 DEF Stage, ClosingStage, Moves
  <2>12. QED
    BY <2>7, <2>10, <2>11 DEF Stage
<1>3. QED
  BY <1>1, <1>2

(* Settlements keep the rows in order, and the rest does not touch them.     *)
LEMMA OrdinaryRows ==
    ASSUME StoreInv, RowsOK, Ordinary
    PROVE  RowsOK'
<1>1. /\ attempt \in [Attempts -> AttemptRow] /\ Resources = {"herdr", "worktree"}
      /\ \A a \in Attempts : attempt[a] \in AttemptRow
  BY WorldAssumption DEF StoreInv, StoreTypeOK
<1>2. CASE RowsQuiet
  BY <1>2 DEF RowsOK, RowOK, Ordinary, Stands, RowsQuiet
<1>3. ASSUME NEW a \in Attempts, NEW r \in Resources, NEW next \in ResourceStates,
             Settles(a, r, next)
      PROVE  RowsOK'
  <2> DEFINE row == [attempt[a] EXCEPT !.settle[r] = next]
  <2>1. attempt' = [attempt EXCEPT ![a] = row]
    BY <1>3 DEF Settles
  <2>2. /\ row.life = attempt[a].life /\ row.decided = attempt[a].decided
        /\ row.worktree = attempt[a].worktree /\ row.herdr = attempt[a].herdr
        /\ row.settle = [attempt[a].settle EXCEPT ![r] = next]
        /\ attempt[a].settle \in [Resources -> ResourceStates]
    BY <1>1 DEF AttemptRow
  <2>3. \A q \in Resources \ {r} : row.settle[q] = attempt[a].settle[q]
    BY <2>2
  <2>4. RowOK(row)
    BY <1>1, <1>3, <2>2, <2>3 DEF RowsOK, RowOK, Settles, Closed
  <2>5. attempt'[a] = row /\ \A b \in Attempts \ {a} : attempt'[b] = attempt[b]
    BY <1>1, <2>1
  <2> HIDE DEF row
  <2>6. QED
    BY <2>4, <2>5 DEF RowsOK
<1>4. QED
  BY <1>2, <1>3 DEF Ordinary, Settlement

(* What is recorded was handed out.                                          *)
LEMMA OrdinaryRecorded ==
    ASSUME StoreInv, Recorded, Ordinary
    PROVE  Recorded'
<1>1. \A a \in Attempts :
          /\ attempt[a].herdr # NoPane => attempt[a].herdr \in Panes
          /\ attempt[a].worktree # NoLease => attempt[a].worktree \in Leases
          /\ attempt'[a].herdr = attempt[a].herdr
          /\ attempt'[a].worktree = attempt[a].worktree
  BY DEF StoreInv, StoreTypeOK, AttemptRow, Ordinary, Stands
<1>2. \A a \in Attempts :
          /\ attempt'[a].worktree # NoLease => lease'[attempt'[a].worktree] # "unissued"
          /\ attempt'[a].herdr # NoPane => pane'[attempt'[a].herdr].state # "unissued"
  BY <1>1 DEF Recorded, Ordinary, Fades, Moves, Issued, Opened
<1>3. \A p \in Panes : pane'[p].state # "unissued" =>
          pane'[p].cwd \in Leases /\ lease'[pane'[p].cwd] # "unissued"
  BY DEF Recorded, Ordinary, Fades, Moves, Issued, Opened
<1>4. QED
  BY <1>2, <1>3 DEF Recorded, Issued, Opened

(* Nobody holds what somebody else holds.                                    *)
LEMMA OrdinaryApart ==
    ASSUME StoreInv, Recorded, Apart, Ordinary
    PROVE  Apart'
<1>1. \A a \in Attempts :
          /\ attempt[a].herdr # NoPane => attempt[a].herdr \in Panes
          /\ attempt'[a].herdr = attempt[a].herdr
          /\ attempt'[a].worktree = attempt[a].worktree
  BY DEF StoreInv, StoreTypeOK, AttemptRow, Ordinary, Stands
<1>2. \A p \in Panes : Opened(p) => pane'[p].cwd = pane[p].cwd
  BY DEF Ordinary, Fades, Moves
<1>3. ASSUME NEW a \in Attempts, NEW l \in Leases, Holds(a, l)'
      PROVE  Holds(a, l)
  <2>1. CASE attempt'[a].worktree = l
    BY <1>1, <2>1 DEF Holds
  <2>2. CASE attempt'[a].herdr # NoPane /\ pane'[attempt'[a].herdr].cwd = l
    BY <1>1, <1>2, <2>2 DEF Holds, Recorded
  <2>3. ASSUME NEW t \in Tasks, cmd'[t].att = a, cmd'[t].lease = l
        PROVE  Holds(a, l)
    BY <2>3, StoreAssumption DEF Holds, Ordinary, LeaseKept
  <2>4. QED
    BY <1>3, <2>1, <2>2, <2>3 DEF Holds
<1>4. QED
  BY <1>3 DEF Apart

(* What was released stays released, and what is released now is gone.       *)
LEMMA OrdinaryReleased ==
    ASSUME StoreInv, RowsOK, ReleasedForGood, Ordinary
    PROVE  ReleasedForGood'
<1>1. \A a \in Attempts :
          /\ attempt[a].herdr # NoPane => attempt[a].herdr \in Panes
          /\ attempt[a].worktree # NoLease => attempt[a].worktree \in Leases
          /\ attempt'[a].herdr = attempt[a].herdr
          /\ attempt'[a].worktree = attempt[a].worktree
          /\ attempt[a].settle["herdr"] = "released" => attempt[a].herdr # NoPane
          /\ attempt[a].settle["worktree"] = "released" => attempt[a].worktree # NoLease
  BY DEF StoreInv, StoreTypeOK, AttemptRow, Ordinary, Stands, RowsOK, RowOK
<1>2. \A a \in Attempts :
          /\ attempt[a].settle["worktree"] = "released" =>
                lease'[attempt[a].worktree] \in {"free", "foreign"}
          /\ attempt[a].settle["herdr"] = "released" =>
                pane'[attempt[a].herdr].state \in {"gone", "foreign"}
  BY <1>1 DEF ReleasedForGood, Ordinary, Fades, Moves, Back, Gone
<1>3. CASE RowsQuiet
  BY <1>1, <1>2, <1>3 DEF RowsQuiet, ReleasedForGood, Back, Gone
<1>4. ASSUME NEW a \in Attempts, NEW r \in Resources, NEW next \in ResourceStates,
             Settles(a, r, next)
      PROVE  ReleasedForGood'
  <2>1. \A b \in Attempts \ {a} : attempt'[b].settle = attempt[b].settle
    BY <1>4 DEF Settles, StoreInv, StoreTypeOK
  <2>2. /\ attempt'[a].settle[r] = next
        /\ \A q \in Resources \ {r} : attempt'[a].settle[q] = attempt[a].settle[q]
    BY <1>4 DEF Settles, StoreInv, StoreTypeOK, AttemptRow
  <2>3. /\ attempt'[a].settle["worktree"] = "released" =>
              lease'[attempt[a].worktree] \in {"free", "foreign"}
        /\ attempt'[a].settle["herdr"] = "released" =>
              pane'[attempt[a].herdr].state \in {"gone", "foreign"}
    BY <1>2, <1>4, <2>2, WorldAssumption DEF Settles, Settled, Back, Gone
  <2>4. QED
    BY <1>1, <1>2, <2>1, <2>3 DEF ReleasedForGood, Back, Gone
<1>5. QED
  BY <1>3, <1>4 DEF Ordinary, Settlement

(* The record of an agent's pane stays until the agent is gone.              *)
LEMMA OrdinaryAgents ==
    ASSUME StoreInv, RowsOK, AgentsAreClaimed, Ordinary
    PROVE  AgentsAreClaimed'
<1> SUFFICES ASSUME NEW p \in Panes, pane'[p].state = "agent"
             PROVE  \E a \in Attempts : attempt'[a].herdr = p /\ PaneUnsettled(a)'
  BY DEF AgentsAreClaimed
<1>1. pane[p].state = "agent"
  BY DEF Ordinary, Fades
<1>2. PICK a \in Attempts : attempt[a].herdr = p /\ attempt[a].settle["herdr"] \notin Settled
  BY <1>1 DEF AgentsAreClaimed, PaneUnsettled
<1>3. attempt'[a].herdr = p
  BY <1>2 DEF Ordinary, Stands
<1>4. ASSUME RowsQuiet
      PROVE  attempt'[a].settle["herdr"] \notin Settled
  BY <1>2, <1>4 DEF RowsQuiet
<1>5. ASSUME NEW b \in Attempts, NEW r \in Resources, NEW next \in ResourceStates,
             Settles(b, r, next)
      PROVE  attempt'[a].settle["herdr"] \notin Settled
  <2>1. CASE b # a
    <3>1. attempt'[a] = attempt[a]
      BY <1>5, <2>1 DEF Settles, StoreInv, StoreTypeOK
    <3>2. QED
      BY <1>2, <3>1
  <2>2. CASE b = a
    <3>1. /\ attempt'[a].settle[r] = next
          /\ \A q \in Resources \ {r} : attempt'[a].settle[q] = attempt[a].settle[q]
      BY <1>5, <2>2 DEF Settles, StoreInv, StoreTypeOK, AttemptRow
    <3>2. r = "herdr" => next \notin Settled
      BY <1>1, <1>2, <1>5, <2>2 DEF Settles, Gone
    <3>3. QED
      BY <1>2, <3>1, <3>2, WorldAssumption
  <2>3. QED
    BY <2>1, <2>2
<1>6. attempt'[a].settle["herdr"] \notin Settled
  BY <1>4, <1>5 DEF Ordinary, Settlement
<1>7. QED
  BY <1>3, <1>6, StoreAssumption DEF PaneUnsettled

(* An ordinary step of a command keeps the invariant.                        *)
OrdinaryStep(t) ==
    /\ [StoreNext]_storeVars
    /\ CommandsTyped' /\ Stage(t)'
    /\ WorldTyped'
    /\ \A s \in Tasks \ {t} : cmd'[s] = cmd[s]
    /\ RowsStand(t) /\ (RowsQuiet \/ Settlement)
    /\ Fades
    /\ LeaseKept(t)

(* A command's step leaves what the other commands know.                     *)
LEMMA StagesKeep ==
    ASSUME NEW t \in Tasks, LifecycleInv, Stage(t)', Moves,
           \A s \in Tasks \ {t} : cmd'[s] = cmd[s],
           \A a \in Attempts : attempt'[a] = attempt[a] \/ attempt[a].owner \in {t, NoTask}
    PROVE  Stages'
<1>1. ASSUME NEW s \in Tasks \ {t}
      PROVE  Stage(s)'
  <2>1. \A a \in Attempts : attempt[a].owner = s => attempt'[a] = attempt[a]
    BY StoreAssumption
  <2>2. QED
    BY <2>1, OthersKeep DEF LifecycleInv, Stages
<1>2. QED
  BY <1>1 DEF Stages

(* An ordinary step keeps the invariant.                                     *)
LEMMA OrdinaryKeeps ==
    ASSUME NEW t \in Tasks, LifecycleInv, OrdinaryStep(t)
    PROVE  LifecycleInv'
<1>1. StoreInv'
  BY StoreInvInductive DEF LifecycleInv, OrdinaryStep
<1>2. Ordinary
  BY DEF OrdinaryStep, Ordinary, RowsStand, LeaseKept
<1>3. Stages'
  BY StagesKeep DEF OrdinaryStep, RowsStand, Fades
<1>4. RowsOK' /\ Recorded' /\ Apart' /\ ReleasedForGood' /\ AgentsAreClaimed'
  BY <1>2, OrdinaryRows, OrdinaryRecorded, OrdinaryApart, OrdinaryReleased, OrdinaryAgents
     DEF LifecycleInv
<1>5. QED
  BY <1>1, <1>3, <1>4 DEF LifecycleInv, OrdinaryStep

-----------------------------------------------------------------------------
(* The steps of a command, by their effect and by where the command goes.    *)

(* It says something to the store, acts on the world, or settles a resource. *)
Says(t) ==
    /\ UNCHANGED external
    /\ UNCHANGED storeVars \/ FactCall(t) \/ \E a \in Attempts : QuietCall(t, a)

Acts == UNCHANGED storeVars /\ Fades /\ WorldTyped'

MaySettle(a, r, next) ==
    /\ Closed(attempt[a])
    /\ r = "herdr" =>
          /\ attempt[a].herdr # NoPane
          /\ next \in Settled => Gone(attempt[a].herdr)
    /\ r = "worktree" =>
          /\ attempt[a].worktree # NoLease
          /\ next = "released" => Back(attempt[a].worktree)

Ends(t) ==
    /\ UNCHANGED external
    /\ \E a \in Attempts, r \in Resources,
          next \in {"releasing", "released", "retryable", "ambiguous", "abandoned"} :
          SetResource(t, a, r, next) /\ MaySettle(a, r, next)

Effect(t) == Says(t) \/ Acts \/ Ends(t)

Turns(t, c) ==
    /\ c \in Command
    /\ cmd' = [cmd EXCEPT ![t] = c]
    /\ \/ c.lease = NoLease
       \/ c.lease = cmd[t].lease /\ c.att = cmd[t].att
       \/ c.lease = attempt[c.att].worktree

Kept == LifecycleInv' /\ [StoreNext]_storeVars

(* All three do to the rows and the world what an ordinary step may do.      *)
LEMMA Effects ==
    ASSUME NEW t \in Tasks, StoreInv, WorldTyped, Effect(t)
    PROVE  /\ [StoreNext]_storeVars /\ WorldTyped'
           /\ RowsStand(t) /\ (RowsQuiet \/ Settlement)
           /\ Fades
<1>1. ASSUME UNCHANGED external
      PROVE  Fades /\ WorldTyped'
  BY <1>1, StillFades DEF external, WorldTyped
<1>2. ASSUME attempt' = attempt
      PROVE  RowsStand(t) /\ RowsQuiet
  BY <1>2 DEF RowsStand, RowsQuiet
<1>3. CASE Says(t)
  BY <1>1, <1>2, <1>3, FactCalls, QuietCalls DEF Says, storeVars
<1>4. CASE Acts
  BY <1>2, <1>4 DEF Acts, storeVars
<1>5. ASSUME NEW a \in Attempts, NEW r \in Resources,
             NEW next \in {"releasing", "released", "retryable", "ambiguous", "abandoned"},
             SetResource(t, a, r, next), MaySettle(a, r, next), UNCHANGED external
      PROVE  StoreNext /\ RowsStand(t) /\ Settlement
  <2>1. StoreNext /\ RowsStand(t) /\ attempt' = [attempt EXCEPT ![a].settle[r] = next]
    BY <1>5, SettleCalls
  <2>2. Settles(a, r, next)
    BY <1>5, <2>1 DEF Settles, MaySettle, external
  <2>3. QED
    BY <2>1, <2>2 DEF Settlement, ResourceStates
<1>6. CASE Ends(t)
  BY <1>1, <1>5, <1>6 DEF Ends
<1>7. QED
  BY <1>3, <1>4, <1>6 DEF Effect

(* A step with such an effect is ordinary, wherever the command goes.        *)
LEMMA Turning ==
    ASSUME NEW t \in Tasks, LifecycleInv, Effect(t), NEW c, Turns(t, c),
           CommandsTyped', Stage(t)'
    PROVE  Kept
<1>1. cmd'[t] = c /\ \A s \in Tasks \ {t} : cmd'[s] = cmd[s]
  BY DEF Turns, LifecycleInv, CommandsTyped
<1>2. LeaseKept(t)
  BY <1>1 DEF Turns, LeaseKept
<1>3. OrdinaryStep(t)
  BY <1>1, <1>2, Effects DEF OrdinaryStep, LifecycleInv
<1>4. QED
  BY <1>3, OrdinaryKeeps DEF Kept, OrdinaryStep

(* The command is done.                                                      *)
LEMMA Leaving ==
    ASSUME NEW t \in Tasks, LifecycleInv, Effect(t), Leave(t)
    PROVE  Kept
<1>1. Idle \in Command /\ Idle.pc = "idle" /\ Idle.lease = NoLease
  BY CommandColumns DEF Idle, LifecycleInv, CommandsTyped
<1>2. Turns(t, Idle)
  BY <1>1 DEF Turns, Leave
<1>3. CommandsTyped' /\ Stage(t)'
  <2>1. PICK c \in Command : c = Idle
    BY <1>1
  <2>2. cmd' = [cmd EXCEPT ![t] = c] /\ c.pc \in FreePcs /\ c.lease = NoLease
    BY <1>1, <2>1 DEF Leave, FreePcs
  <2>3. QED
    BY <2>1, <2>2, Rests DEF LifecycleInv
<1>4. QED
  BY <1>2, <1>3, Turning

(* The command after Goto.                                                   *)
Goes(t, c, pc) ==
    /\ c \in Command
    /\ cmd' = [cmd EXCEPT ![t] = c]
    /\ c.pc = pc
    /\ c.op = cmd[t].op /\ c.att = cmd[t].att /\ c.scout = cmd[t].scout
    /\ c.lease = cmd[t].lease /\ c.pane = cmd[t].pane

(* A command that goes elsewhere keeps all else it knows.                    *)
LEMMA Going ==
    ASSUME NEW t \in Tasks, CommandsTyped, NEW pc \in Pcs, Goto(t, pc)
    PROVE  \E c \in Command : Goes(t, c, pc)
<1> DEFINE c == [cmd[t] EXCEPT !.pc = pc]
<1>1. cmd[t] \in Command
  BY DEF CommandsTyped
<1>2. /\ c \in Command /\ c.pc = pc
      /\ c.op = cmd[t].op /\ c.att = cmd[t].att /\ c.scout = cmd[t].scout
      /\ c.lease = cmd[t].lease /\ c.pane = cmd[t].pane
  BY <1>1 DEF Command
<1>3. cmd' = [cmd EXCEPT ![t] = c]
  BY DEF Goto
<1> HIDE DEF c
<1>4. QED
  BY <1>2, <1>3 DEF Goes

(* A reconciliation looks again.                                             *)
LEMMA LookingAgain ==
    ASSUME NEW t \in Tasks, LifecycleInv, Effect(t), Again(t), cmd[t].pc \notin LeasePcs
    PROVE  Kept
<1>1. "observe" \in Pcs /\ "observe" \in FreePcs
  BY DEF Pcs, FreePcs
<1>2. PICK c \in Command : Goes(t, c, "observe")
  BY <1>1, Going DEF Again, LifecycleInv
<1>3. c.lease = NoLease
  BY <1>2 DEF Goes, LifecycleInv, Stages, Stage, LaunchStage
<1>4. CommandsTyped' /\ Stage(t)'
  BY <1>1, <1>2, <1>3, Rests DEF Goes, LifecycleInv
<1>5. Turns(t, c)
  BY <1>2, <1>3 DEF Turns, Goes
<1>6. QED
  BY <1>4, <1>5, Turning

(* It goes on to end an attempt of its task.                                 *)
LEMMA ClosingOn ==
    ASSUME NEW t \in Tasks, LifecycleInv, Effect(t), NEW c \in Command,
           cmd' = [cmd EXCEPT ![t] = c], cmd[t].pc \notin ShipPcs, c.lease = cmd[t].lease,
           c.pc \in GuardPcs \union ClosingPcs,
           c.att \in Attempts, attempt[c.att].owner = t,
           c.pc \in ClosingPcs => Closed(attempt[c.att]) \/ Closed(attempt'[c.att]),
           c.pc \in PanePcs => attempt[c.att].herdr # NoPane,
           c.pc \in WorktreePcs => attempt[c.att].worktree # NoLease,
           c.pc \in {"closed", "pane_closed", "abandon_herdr"} =>
               \/ Gone(attempt[c.att].herdr)
               \/ pane'[attempt[c.att].herdr].state \in {"gone", "foreign"},
           c.pc \in {"return_ok", "lease_returned"} =>
               \/ Back(attempt[c.att].worktree)
               \/ lease'[attempt[c.att].worktree] \in {"free", "foreign"}
    PROVE  Kept
<1>1. c.lease = NoLease
  <2>1. cmd[t].pc \notin LeasePcs
    BY DEF ShipPcs, LaunchPcs
  <2>2. QED
    BY <2>1 DEF LifecycleInv, Stages, Stage, LaunchStage
<1>2. RowsStand(t) /\ Moves
  BY Effects DEF LifecycleInv, Fades
<1>3. /\ attempt'[c.att].owner = t
      /\ attempt'[c.att].herdr = attempt[c.att].herdr
      /\ attempt'[c.att].worktree = attempt[c.att].worktree
      /\ c.pc \in ClosingPcs => Closed(attempt'[c.att])
  BY <1>2, Standing
<1>4. /\ attempt[c.att].herdr # NoPane => attempt[c.att].herdr \in Panes
      /\ attempt[c.att].worktree # NoLease => attempt[c.att].worktree \in Leases
  BY DEF LifecycleInv, StoreInv, StoreTypeOK, AttemptRow
<1>5. /\ c.pc \in {"closed", "pane_closed", "abandon_herdr"} =>
             pane'[attempt'[c.att].herdr].state \in {"gone", "foreign"}
      /\ c.pc \in {"return_ok", "lease_returned"} =>
             lease'[attempt'[c.att].worktree] \in {"free", "foreign"}
  BY <1>2, <1>3, <1>4 DEF Moves, Gone, Back, PanePcs, WorktreePcs
<1>6. CommandsTyped' /\ Stage(t)'
  BY <1>1, <1>3, <1>5, Closes DEF LifecycleInv
<1>7. Turns(t, c)
  BY <1>1 DEF Turns
<1>8. QED
  BY <1>6, <1>7, Turning

(* It goes on with its launch.                                               *)
LEMMA LaunchingOn ==
    ASSUME NEW t \in Tasks, LifecycleInv, Effect(t), NEW c \in Command, NEW pc, Goes(t, c, pc),
           cmd[t].pc \in LeasePcs \ {"record"}, pc \in LeasePcs \ {"record", "herdr", "check"},
           pc = "pane" => cmd[t].pc = "check",
           pc \in RunPcs => cmd[t].pc \in RunPcs,
           attempt'[cmd[t].att].life = attempt[cmd[t].att].life,
           attempt'[cmd[t].att].decided = attempt[cmd[t].att].decided,
           pc = "clear_pane" => pane'[cmd[t].pane].state \in {"gone", "foreign"},
           pc = "clear_lease" => lease'[cmd[t].lease] \in {"free", "foreign"}
    PROVE  Kept
<1>1. RowsStand(t) /\ Moves
  BY Effects DEF LifecycleInv, Fades
<1>2. CommandsTyped' /\ Stage(t)'
  BY <1>1, LaunchesOn DEF Goes, LifecycleInv, Stages
<1>3. Turns(t, c)
  BY DEF Goes, Turns
<1>4. QED
  BY <1>2, <1>3, Turning

(* It goes on with the scout.                                                *)
LEMMA PromotingOn ==
    ASSUME NEW t \in Tasks, LifecycleInv, Effect(t), NEW c \in Command, NEW pc, Goes(t, c, pc),
           cmd[t].pc \in ScoutPcs, pc \in ScoutPcs,
           attempt'[cmd[t].att].life = attempt[cmd[t].att].life,
           attempt'[cmd[t].att].decided = attempt[cmd[t].att].decided,
           pc \in ScoutPanePcs =>
               cmd[t].pc \in ScoutPanePcs \/ attempt[cmd[t].scout].herdr # NoPane,
           pc \in ScoutLeasePcs =>
               cmd[t].pc \in ScoutLeasePcs \/ attempt[cmd[t].scout].worktree # NoLease,
           pc = "scout_closed" =>
               pane'[attempt[cmd[t].scout].herdr].state \in {"gone", "foreign"},
           pc = "scout_returned" =>
               lease'[attempt[cmd[t].scout].worktree] \in {"free", "foreign"}
    PROVE  Kept
<1>1. RowsStand(t) /\ Moves
  BY Effects DEF LifecycleInv, Fades
<1>2. CommandsTyped' /\ Stage(t)'
  BY <1>1, Promotes DEF Goes, LifecycleInv, Stages
<1>3. Turns(t, c)
  BY DEF Goes, Turns
<1>4. QED
  BY <1>2, <1>3, Turning

-----------------------------------------------------------------------------
(* Launching: the steps that neither take nor record a lease or a pane.      *)

(* What a launch with a lease knows.                                         *)
LEMMA LaunchFacts ==
    ASSUME NEW t \in Tasks, LifecycleInv, cmd[t].pc \in LeasePcs
    PROVE  /\ cmd[t].att \in Attempts /\ attempt[cmd[t].att].owner = t
           /\ attempt[cmd[t].att].life = "provisioning" /\ attempt[cmd[t].att].decided = ""
           /\ cmd[t].lease \in Leases /\ Issued(cmd[t].lease)
           /\ attempt[cmd[t].att].settle["herdr"] = ""
           /\ attempt[cmd[t].att].settle["worktree"] = ""
           /\ cmd[t].pc \in RunPcs \union {"herdr"} =>
                 /\ cmd[t].pane \in Panes /\ Opened(cmd[t].pane)
                 /\ pane[cmd[t].pane].cwd = cmd[t].lease
           /\ cmd[t].pc \in RunPcs => attempt[cmd[t].att].herdr = cmd[t].pane
           /\ cmd[t].pc # "record" => attempt[cmd[t].att].worktree = cmd[t].lease
           /\ cmd[t].pc \in {"check", "pane", "herdr"} => attempt[cmd[t].att].herdr = NoPane
<1>1. cmd[t].pc \in ShipPcs /\ cmd[t].pc \notin FreePcs
  BY DEF ShipPcs, LaunchPcs, FreePcs, LeasePcs, RunPcs
<1>2. CommandOK(t) /\ Stage(t)
  BY DEF LifecycleInv, CommandsTyped, Stages
<1>3. cmd[t].att \in Attempts /\ attempt[cmd[t].att].owner = t /\ cmd[t].lease \in Leases
  BY <1>1, <1>2 DEF CommandOK, Stage, ClosingStage
<1>4. /\ attempt[cmd[t].att].life = "provisioning" /\ attempt[cmd[t].att].decided = ""
      /\ Issued(cmd[t].lease)
      /\ cmd[t].pc \in RunPcs \union {"herdr"} =>
            Opened(cmd[t].pane) /\ pane[cmd[t].pane].cwd = cmd[t].lease
      /\ cmd[t].pc \in RunPcs => attempt[cmd[t].att].herdr = cmd[t].pane
      /\ cmd[t].pc # "record" => attempt[cmd[t].att].worktree = cmd[t].lease
      /\ cmd[t].pc \in {"check", "pane", "herdr"} => attempt[cmd[t].att].herdr = NoPane
  BY <1>1, <1>2 DEF Stage, LaunchStage
<1>5. /\ attempt[cmd[t].att].settle["herdr"] = ""
      /\ attempt[cmd[t].att].settle["worktree"] = ""
  BY <1>3, <1>4 DEF LifecycleInv, RowsOK, RowOK, TerminalStates
<1>6. cmd[t].pc \in RunPcs \union {"herdr"} => cmd[t].pane \in Panes
  BY <1>2 DEF CommandOK
<1>7. QED
  BY <1>3, <1>4, <1>5, <1>6

(* A launch that fails with no pane to close.                                *)
LEMMA Failing ==
    ASSUME NEW t \in Tasks, LifecycleInv, Effect(t), FailWithoutPane(t),
           cmd[t].pc \in LeasePcs \ {"record"},
           attempt'[cmd[t].att].life = attempt[cmd[t].att].life,
           attempt'[cmd[t].att].decided = attempt[cmd[t].att].decided
    PROVE  Kept
<1>1. CASE Leave(t)
  BY <1>1, Leaving
<1>2. CASE Goto(t, "return_lease")
  <2>1. "return_lease" \in Pcs /\ "return_lease" \in LeasePcs
        /\ "return_lease" \notin RunPcs
    BY DEF Pcs, ShipPcs, LaunchPcs, LeasePcs, RunPcs
  <2>2. PICK c \in Command : Goes(t, c, "return_lease")
    BY <1>2, <2>1, Going DEF LifecycleInv
  <2>3. QED
    BY <2>1, <2>2, LaunchingOn
<1>3. QED
  BY <1>1, <1>2 DEF FailWithoutPane

(* A launch that goes on, by name.                                           *)
LEMMA LaunchGoes ==
    ASSUME NEW t \in Tasks, LifecycleInv, Effect(t), NEW pc, Goto(t, pc),
           <<cmd[t].pc, pc>> \in
               {<<"check", "pane">>, <<"run", "close_pane">>, <<"submit", "confirm">>,
                <<"confirm", "confirmed">>, <<"confirm", "close_pane">>,
                <<"confirmed", "running">>, <<"close_pane", "clear_pane">>,
                <<"return_lease", "clear_lease">>},
           attempt'[cmd[t].att].life = attempt[cmd[t].att].life,
           attempt'[cmd[t].att].decided = attempt[cmd[t].att].decided,
           pc = "clear_pane" => pane'[cmd[t].pane].state \in {"gone", "foreign"},
           pc = "clear_lease" => lease'[cmd[t].lease] \in {"free", "foreign"}
    PROVE  Kept
<1>1. /\ cmd[t].pc \in LeasePcs \ {"record"} /\ pc \in LeasePcs \ {"record", "herdr", "check"}
      /\ pc \in Pcs
      /\ pc = "pane" => cmd[t].pc = "check"
      /\ pc \in RunPcs => cmd[t].pc \in RunPcs
  BY DEF Pcs, ShipPcs, LaunchPcs, LeasePcs, RunPcs
<1>2. PICK c \in Command : Goes(t, c, pc)
  BY <1>1, Going DEF LifecycleInv
<1>3. QED
  BY <1>1, <1>2, LaunchingOn

(* A step that only changes what the command knows.                          *)
LEMMA SaysNothing ==
    ASSUME NEW t \in Tasks, UNCHANGED storeVars, UNCHANGED external
    PROVE  Effect(t)
BY DEF Effect, Says

(* The checks of a launch, before the pane is opened and once it runs.       *)
LEMMA CheckingKeeps ==
    ASSUME NEW t \in Tasks, LifecycleInv, CheckWorktree(t) \/ ConfirmWorker(t)
    PROVE  Kept
<1>1. Effect(t) /\ attempt' = attempt
  BY SaysNothing DEF CheckWorktree, ConfirmWorker, LocalOnly, storeVars
<1>2. CASE CheckWorktree(t)
  BY <1>1, <1>2, LaunchGoes, Failing DEF CheckWorktree, At, LeasePcs
<1>3. CASE ConfirmWorker(t)
  BY <1>1, <1>3, LaunchGoes DEF ConfirmWorker, At
<1>4. QED
  BY <1>2, <1>3

(* The marks of a launch.                                                    *)
LEMMA MarkingKeeps ==
    ASSUME NEW t \in Tasks, LifecycleInv,
           RecordSubmitted(t) \/ RecordConfirmed(t) \/ RecordRunning(t)
    PROVE  Kept
<1>1. cmd[t].pc \in LeasePcs /\ cmd[t].pc \in {"submit", "confirmed", "running"}
  BY DEF RecordSubmitted, RecordConfirmed, RecordRunning, At, LeasePcs, RunPcs
<1>2. cmd[t].att \in Attempts
  BY <1>1, LaunchFacts
<1>3. QuietCall(t, cmd[t].att) /\ StoreOnly
  <2>1. attempt[cmd[t].att].herdr # NoPane
    <3>1. cmd[t].pc \in RunPcs
      BY <1>1 DEF RunPcs
    <3>2. attempt[cmd[t].att].herdr = cmd[t].pane /\ cmd[t].pane \in Panes
      BY <1>1, <3>1, LaunchFacts
    <3>3. QED
      BY <3>2, StoreAssumption
  <2>2. QED
    BY <2>1 DEF RecordSubmitted, RecordConfirmed, RecordRunning, QuietCall
<1>4. Effect(t)
  BY <1>2, <1>3 DEF Effect, Says, StoreOnly, completions
<1>5. attempt[cmd[t].att] \in AttemptRow /\ attempt \in [Attempts -> AttemptRow]
  BY <1>2 DEF LifecycleInv, StoreInv, StoreTypeOK
<1>6. CASE RecordSubmitted(t)
  <2>1. /\ attempt'[cmd[t].att].life = attempt[cmd[t].att].life
        /\ attempt'[cmd[t].att].decided = attempt[cmd[t].att].decided
    BY <1>2, <1>5, <1>6 DEF RecordSubmitted, MarkLaunchSubmitted, AttemptRow
  <2>2. QED
    BY <1>4, <1>6, <2>1, LaunchGoes DEF RecordSubmitted, At
<1>7. CASE RecordConfirmed(t)
  <2>1. /\ attempt'[cmd[t].att].life = attempt[cmd[t].att].life
        /\ attempt'[cmd[t].att].decided = attempt[cmd[t].att].decided
    BY <1>2, <1>5, <1>7 DEF RecordConfirmed, MarkLaunchConfirmed, AttemptRow
  <2>2. QED
    BY <1>4, <1>7, <2>1, LaunchGoes DEF RecordConfirmed, At
<1>8. CASE RecordRunning(t)
  <2>1. CASE Leave(t)
    BY <1>4, <2>1, Leaving
  <2>2. CASE cmd' = [cmd EXCEPT ![t] = [Idle EXCEPT !.op = "reconcile", !.pc = "observe"]]
    <3>1. [Idle EXCEPT !.op = "reconcile", !.pc = "observe"] \in Command
      BY CommandColumns DEF LifecycleInv, CommandsTyped, Command, Operations, Pcs, FreePcs
    <3>2. PICK c \in Command : c = [Idle EXCEPT !.op = "reconcile", !.pc = "observe"]
      BY <3>1
    <3>3. c.pc = "observe" /\ c.lease = NoLease
      BY <3>2 DEF Idle
    <3>4. CommandsTyped' /\ Stage(t)'
      BY <2>2, <3>2, <3>3, Rests DEF LifecycleInv, FreePcs
    <3>5. QED
      BY <1>4, <2>2, <3>2, <3>3, <3>4, Turning DEF Turns
  <2>3. QED
    BY <1>8, <2>1, <2>2 DEF RecordRunning
<1>9. QED
  BY <1>6, <1>7, <1>8

(* The unwinding of a launch.                                                *)
LEMMA UnwindingKeeps ==
    ASSUME NEW t \in Tasks, LifecycleInv, RollbackPane(t) \/ ReturnProvisioned(t)
    PROVE  Kept
<1>1. cmd[t].pc \in LeasePcs \ {"record"} /\ attempt' = attempt /\ UNCHANGED storeVars
  BY DEF RollbackPane, ReturnProvisioned, At, LeasePcs, RunPcs, WorldOnly, storeVars
<1>2. CASE RollbackPane(t)
  <2>1. cmd[t].pane \in Panes /\ Opened(cmd[t].pane)
    BY <1>1, <1>2, LaunchFacts DEF RollbackPane, At, RunPcs
  <2>2. CASE CloseTab(cmd[t].pane, "ok") /\ Goto(t, "clear_pane")
    <3>1. Fades /\ WorldTyped' /\ pane'[cmd[t].pane].state = "gone"
      BY <2>1, <2>2, ClosingFades DEF LifecycleInv
    <3>2. Effect(t)
      BY <1>1, <3>1 DEF Effect, Acts
    <3>3. QED
      BY <1>1, <1>2, <2>2, <3>1, <3>2, LaunchGoes DEF RollbackPane, At
  <2>3. CASE CloseTab(cmd[t].pane, "error") /\ FailWithoutPane(t)
    <3>1. Fades /\ WorldTyped'
      BY <2>1, <2>3, ClosingFades DEF LifecycleInv
    <3>2. Effect(t)
      BY <1>1, <3>1 DEF Effect, Acts
    <3>3. QED
      BY <1>1, <2>3, <3>2, Failing
  <2>4. QED
    BY <1>2, <2>2, <2>3 DEF RollbackPane
<1>3. CASE ReturnProvisioned(t)
  <2>1. cmd[t].lease \in Leases /\ Issued(cmd[t].lease)
    BY <1>1, LaunchFacts
  <2>2. CASE ReturnLease(cmd[t].lease, TRUE, "ok") /\ Goto(t, "clear_lease")
    <3>1. Fades /\ WorldTyped' /\ lease'[cmd[t].lease] = "free"
      BY <2>1, <2>2, ReturningFades DEF LifecycleInv
    <3>2. Effect(t)
      BY <1>1, <3>1 DEF Effect, Acts
    <3>3. QED
      BY <1>1, <1>3, <2>2, <3>1, <3>2, LaunchGoes DEF ReturnProvisioned, At
  <2>3. CASE ReturnLease(cmd[t].lease, TRUE, "error") /\ Leave(t)
    <3>1. Fades /\ WorldTyped'
      BY <2>1, <2>3, ReturningFades DEF LifecycleInv
    <3>2. Effect(t)
      BY <1>1, <3>1 DEF Effect, Acts
    <3>3. QED
      BY <2>3, <3>2, Leaving
  <2>4. QED
    BY <1>3, <2>2, <2>3 DEF ReturnProvisioned
<1>4. QED
  BY <1>2, <1>3

-----------------------------------------------------------------------------
(* Promoting: the clean-up of the scout.                                     *)

(* What a promotion knows of its ship and of its scout.                      *)
LEMMA ScoutFacts ==
    ASSUME NEW t \in Tasks, LifecycleInv, cmd[t].pc \in {"launch"} \union ScoutPcs
    PROVE  /\ cmd[t].att \in Attempts /\ attempt[cmd[t].att].owner = t
           /\ attempt[cmd[t].att].life = "provisioning" /\ attempt[cmd[t].att].decided = ""
           /\ attempt[cmd[t].att].worktree = NoLease /\ attempt[cmd[t].att].herdr = NoPane
           /\ cmd[t].lease = NoLease
           /\ cmd[t].pc \in ScoutPcs =>
                 /\ cmd[t].scout \in Attempts /\ attempt[cmd[t].scout].owner = t
                 /\ Closed(attempt[cmd[t].scout])
           /\ cmd[t].pc \in ScoutPanePcs => attempt[cmd[t].scout].herdr # NoPane
           /\ cmd[t].pc \in ScoutLeasePcs => attempt[cmd[t].scout].worktree # NoLease
           /\ cmd[t].pc = "scout_closed" => Gone(attempt[cmd[t].scout].herdr)
           /\ cmd[t].pc = "scout_returned" => Back(attempt[cmd[t].scout].worktree)
<1>1. cmd[t].pc \in ShipPcs /\ cmd[t].pc \notin FreePcs /\ cmd[t].pc \notin LeasePcs
  BY DEF ShipPcs, FreePcs, LeasePcs, RunPcs, ScoutPcs, ScoutPanePcs, ScoutLeasePcs
<1>2. CommandOK(t) /\ Stage(t)
  BY DEF LifecycleInv, CommandsTyped, Stages
<1>3. /\ cmd[t].att \in Attempts /\ attempt[cmd[t].att].owner = t
      /\ cmd[t].pc \in ScoutPcs => cmd[t].scout \in Attempts
  BY <1>1, <1>2 DEF CommandOK, Stage, ClosingStage
<1>4. /\ attempt[cmd[t].att].life = "provisioning" /\ attempt[cmd[t].att].decided = ""
      /\ attempt[cmd[t].att].worktree = NoLease /\ attempt[cmd[t].att].herdr = NoPane
      /\ cmd[t].lease = NoLease
  BY <1>1, <1>2 DEF Stage, LaunchStage
<1>5. /\ cmd[t].pc \in ScoutPcs =>
            attempt[cmd[t].scout].owner = t /\ Closed(attempt[cmd[t].scout])
      /\ cmd[t].pc \in ScoutPanePcs => attempt[cmd[t].scout].herdr # NoPane
      /\ cmd[t].pc \in ScoutLeasePcs => attempt[cmd[t].scout].worktree # NoLease
      /\ cmd[t].pc = "scout_closed" => Gone(attempt[cmd[t].scout].herdr)
      /\ cmd[t].pc = "scout_returned" => Back(attempt[cmd[t].scout].worktree)
  BY <1>2 DEF Stage, ScoutStage, Closed, TerminalStates
<1>6. QED
  BY <1>3, <1>4, <1>5

(* It launches the ship.                                                     *)
LEMMA Shipping ==
    ASSUME NEW t \in Tasks, LifecycleInv, Effect(t), NEW c \in Command,
           cmd' = [cmd EXCEPT ![t] = c], cmd[t].pc \in {"launch"} \union ScoutPcs,
           c.pc \in {"launch", "get"}, c.att = cmd[t].att, c.lease = NoLease,
           attempt'[cmd[t].att].life = attempt[cmd[t].att].life,
           attempt'[cmd[t].att].decided = attempt[cmd[t].att].decided
    PROVE  Kept
<1>1. RowsStand(t)
  BY Effects DEF LifecycleInv
<1>2. /\ c.att \in Attempts /\ attempt'[c.att].owner = t
      /\ attempt'[c.att].life = "provisioning" /\ attempt'[c.att].decided = ""
      /\ attempt'[c.att].worktree = NoLease /\ attempt'[c.att].herdr = NoPane
  <2>1. /\ c.att \in Attempts /\ attempt[c.att].owner = t
        /\ attempt[c.att].life = "provisioning" /\ attempt[c.att].decided = ""
        /\ attempt[c.att].worktree = NoLease /\ attempt[c.att].herdr = NoPane
    BY ScoutFacts
  <2>2. QED
    BY <1>1, <2>1, Standing
<1>3. /\ c.pc \notin LeasePcs /\ c.pc \notin RunPcs \union {"herdr"}
      /\ c.pc \in {"launch"} \union LaunchPcs
      /\ c.pc \notin {"record", "clear_pane", "clear_lease"}
  BY DEF LeasePcs, RunPcs, LaunchPcs
<1>4. CommandsTyped' /\ Stage(t)'
  BY <1>2, <1>3, Launches DEF LifecycleInv
<1>5. QED
  BY <1>4, Turning DEF Turns

(* A promotion that goes on with its scout, by name.                         *)
LEMMA ScoutGoes ==
    ASSUME NEW t \in Tasks, LifecycleInv, Effect(t), NEW pc, Goto(t, pc),
           <<cmd[t].pc, pc>> \in
               {<<"scout_pane", "scout_close">>, <<"scout_pane", "scout_lease">>,
                <<"scout_close", "scout_closed">>, <<"scout_close", "scout_unclosed">>,
                <<"scout_closed", "scout_lease">>, <<"scout_unclosed", "scout_lease">>,
                <<"scout_lease", "scout_return">>, <<"scout_lease", "launch">>,
                <<"scout_return", "scout_returned">>, <<"scout_return", "scout_unreturned">>,
                <<"scout_returned", "launch">>, <<"scout_unreturned", "launch">>},
           attempt'[cmd[t].att].life = attempt[cmd[t].att].life,
           attempt'[cmd[t].att].decided = attempt[cmd[t].att].decided,
           pc = "scout_close" => attempt[cmd[t].scout].herdr # NoPane,
           pc = "scout_return" => attempt[cmd[t].scout].worktree # NoLease,
           pc = "scout_closed" =>
               pane'[attempt[cmd[t].scout].herdr].state \in {"gone", "foreign"},
           pc = "scout_returned" =>
               lease'[attempt[cmd[t].scout].worktree] \in {"free", "foreign"}
    PROVE  Kept
<1>1. pc \in Pcs /\ cmd[t].pc \in ScoutPcs
  BY DEF Pcs, ShipPcs, ScoutPcs, ScoutPanePcs, ScoutLeasePcs
<1>2. PICK c \in Command : Goes(t, c, pc)
  BY <1>1, Going DEF LifecycleInv
<1>3. CASE pc = "launch"
  <2>1. /\ cmd' = [cmd EXCEPT ![t] = c] /\ c.pc = "launch" /\ c.att = cmd[t].att
        /\ c.lease = cmd[t].lease
    BY <1>2, <1>3 DEF Goes
  <2>2. cmd[t].lease = NoLease
    BY <1>1, ScoutFacts
  <2>3. QED
    BY <1>1, <2>1, <2>2, Shipping
<1>4. CASE pc # "launch"
  <2>1. /\ pc \in ScoutPcs
        /\ pc \in ScoutPanePcs => cmd[t].pc \in ScoutPanePcs \/ pc = "scout_close"
        /\ pc \in ScoutLeasePcs => cmd[t].pc \in ScoutLeasePcs \/ pc = "scout_return"
    BY <1>4 DEF ScoutPcs, ScoutPanePcs, ScoutLeasePcs
  <2>2. QED
    BY <1>1, <1>2, <2>1, PromotingOn
<1>5. QED
  BY <1>3, <1>4

(* A settlement that may be made leaves life and decision.                   *)
LEMMA Settling1 ==
    ASSUME NEW t \in Tasks, LifecycleInv, NEW a \in Attempts, NEW r \in Resources,
           NEW next \in {"releasing", "released", "retryable", "ambiguous", "abandoned"},
           SetResource(t, a, r, next), MaySettle(a, r, next), UNCHANGED external
    PROVE  /\ Effect(t)
           /\ \A b \in Attempts : /\ attempt'[b].life = attempt[b].life
                                  /\ attempt'[b].decided = attempt[b].decided
BY SettleCalls DEF Effect, Ends, LifecycleInv

(* The scout's pane and lease are claimed, released and recorded.            *)
LEMMA ScoutKeeps ==
    ASSUME NEW t \in Tasks, LifecycleInv,
           \/ ClaimScoutPane(t) \/ CloseScoutPane(t) \/ RecordScoutPane(t)
           \/ ClaimScoutLease(t) \/ ReturnScoutLease(t) \/ RecordScoutLease(t)
    PROVE  Kept
<1> DEFINE s == cmd[t].scout
<1>1. cmd[t].pc \in ScoutPcs
  BY DEF ClaimScoutPane, CloseScoutPane, RecordScoutPane, ClaimScoutLease, ReturnScoutLease,
     RecordScoutLease, At, ScoutPcs, ScoutPanePcs, ScoutLeasePcs
<1>2. /\ s \in Attempts /\ Closed(attempt[s]) /\ cmd[t].att \in Attempts
      /\ Resources = {"herdr", "worktree"}
      /\ attempt[s].herdr # NoPane => attempt[s].herdr \in Panes /\ Opened(attempt[s].herdr)
      /\ attempt[s].worktree # NoLease =>
            attempt[s].worktree \in Leases /\ Issued(attempt[s].worktree)
  <2>1. s \in Attempts /\ Closed(attempt[s]) /\ cmd[t].att \in Attempts
    BY <1>1, ScoutFacts
  <2>2. attempt[s] \in AttemptRow
    BY <2>1 DEF LifecycleInv, StoreInv, StoreTypeOK
  <2>3. QED
    BY <2>1, <2>2, WorldAssumption DEF LifecycleInv, AttemptRow, Recorded
<1>3. ASSUME UNCHANGED storeVars
      PROVE  attempt' = attempt
  BY <1>3 DEF storeVars
<1>4. CASE ClaimScoutPane(t)
  <2>1. UNCHANGED external /\ cmd[t].pc = "scout_pane"
    BY <1>4 DEF ClaimScoutPane, StoreOnly, At
  <2>2. CASE SetResource(t, s, "herdr", "releasing") /\ Goto(t, "scout_close")
                 /\ attempt[s].herdr # NoPane
    <3>1. MaySettle(s, "herdr", "releasing")
      BY <1>2, <2>2 DEF MaySettle, Settled
    <3>2. Effect(t) /\ \A b \in Attempts : /\ attempt'[b].life = attempt[b].life
                                           /\ attempt'[b].decided = attempt[b].decided
      BY <1>2, <2>1, <2>2, <3>1, Settling1
    <3>3. QED
      BY <1>2, <2>1, <2>2, <3>2, ScoutGoes
  <2>3. CASE UNCHANGED storeVars /\ Goto(t, "scout_lease")
    BY <1>3, <2>1, <2>3, SaysNothing, ScoutGoes
  <2>4. QED
    BY <1>4, <2>2, <2>3 DEF ClaimScoutPane
<1>5. CASE CloseScoutPane(t)
  <2>1. /\ cmd[t].pc = "scout_close" /\ UNCHANGED storeVars /\ attempt' = attempt
        /\ attempt[s].herdr \in Panes /\ Opened(attempt[s].herdr)
    BY <1>2, <1>5, ScoutFacts DEF CloseScoutPane, At, WorldOnly, storeVars, ScoutPanePcs, ScoutPcs
  <2>2. CASE CloseTab(attempt[s].herdr, "ok") /\ Goto(t, "scout_closed")
    <3>1. Fades /\ WorldTyped' /\ pane'[attempt[s].herdr].state = "gone"
      BY <2>1, <2>2, ClosingFades DEF LifecycleInv
    <3>2. QED
      BY <2>1, <2>2, <3>1, ScoutGoes DEF Effect, Acts
  <2>3. CASE CloseTab(attempt[s].herdr, "error") /\ Goto(t, "scout_unclosed")
    <3>1. Fades /\ WorldTyped'
      BY <2>1, <2>3, ClosingFades DEF LifecycleInv
    <3>2. QED
      BY <2>1, <2>3, <3>1, ScoutGoes DEF Effect, Acts
  <2>4. QED
    BY <1>5, <2>2, <2>3 DEF CloseScoutPane
<1>6. CASE RecordScoutPane(t)
  <2> DEFINE next == IF At(t, "scout_closed") THEN "released" ELSE "ambiguous"
  <2>1. /\ UNCHANGED external /\ cmd[t].pc \in {"scout_closed", "scout_unclosed"}
        /\ SetResource(t, s, "herdr", next) /\ Goto(t, "scout_lease")
        /\ next \in {"released", "ambiguous"}
    BY <1>6 DEF RecordScoutPane, StoreOnly, At
  <2>2. MaySettle(s, "herdr", next)
    BY <1>2, <2>1, ScoutFacts DEF MaySettle, Settled, At, ScoutPanePcs, ScoutPcs
  <2> HIDE DEF next
  <2>3. Effect(t) /\ \A b \in Attempts : /\ attempt'[b].life = attempt[b].life
                                         /\ attempt'[b].decided = attempt[b].decided
    BY <1>2, <2>1, <2>2, Settling1
  <2>4. QED
    BY <1>2, <2>1, <2>3, ScoutGoes
<1>7. CASE ClaimScoutLease(t)
  <2>1. UNCHANGED external /\ cmd[t].pc = "scout_lease"
    BY <1>7 DEF ClaimScoutLease, StoreOnly, At
  <2>2. CASE SetResource(t, s, "worktree", "releasing") /\ Goto(t, "scout_return")
                 /\ attempt[s].worktree # NoLease
    <3>1. MaySettle(s, "worktree", "releasing")
      BY <1>2, <2>2 DEF MaySettle
    <3>2. Effect(t) /\ \A b \in Attempts : /\ attempt'[b].life = attempt[b].life
                                           /\ attempt'[b].decided = attempt[b].decided
      BY <1>2, <2>1, <2>2, <3>1, Settling1
    <3>3. QED
      BY <1>2, <2>1, <2>2, <3>2, ScoutGoes
  <2>3. CASE UNCHANGED storeVars /\ Goto(t, "launch")
    BY <1>3, <2>1, <2>3, SaysNothing, ScoutGoes
  <2>4. QED
    BY <1>7, <2>2, <2>3 DEF ClaimScoutLease
<1>8. CASE ReturnScoutLease(t)
  <2>1. /\ cmd[t].pc = "scout_return" /\ UNCHANGED storeVars /\ attempt' = attempt
        /\ attempt[s].worktree \in Leases /\ Issued(attempt[s].worktree)
    BY <1>2, <1>8, ScoutFacts DEF ReturnScoutLease, At, WorldOnly, storeVars, ScoutLeasePcs, ScoutPcs
  <2>2. CASE ReturnLease(attempt[s].worktree, TRUE, "ok") /\ Goto(t, "scout_returned")
    <3>1. Fades /\ WorldTyped' /\ lease'[attempt[s].worktree] = "free"
      BY <2>1, <2>2, ReturningFades DEF LifecycleInv
    <3>2. QED
      BY <2>1, <2>2, <3>1, ScoutGoes DEF Effect, Acts
  <2>3. CASE ReturnLease(attempt[s].worktree, TRUE, "error") /\ Goto(t, "scout_unreturned")
    <3>1. Fades /\ WorldTyped'
      BY <2>1, <2>3, ReturningFades DEF LifecycleInv
    <3>2. QED
      BY <2>1, <2>3, <3>1, ScoutGoes DEF Effect, Acts
  <2>4. QED
    BY <1>8, <2>2, <2>3 DEF ReturnScoutLease
<1>9. CASE RecordScoutLease(t)
  <2> DEFINE next == IF At(t, "scout_returned") THEN "released" ELSE "ambiguous"
  <2>1. /\ UNCHANGED external /\ cmd[t].pc \in {"scout_returned", "scout_unreturned"}
        /\ SetResource(t, s, "worktree", next) /\ Goto(t, "launch")
        /\ next \in {"released", "ambiguous"}
    BY <1>9 DEF RecordScoutLease, StoreOnly, At
  <2>2. MaySettle(s, "worktree", next)
    BY <1>2, <2>1, ScoutFacts DEF MaySettle, Settled, At, ScoutLeasePcs, ScoutPcs
  <2> HIDE DEF next
  <2>3. Effect(t) /\ \A b \in Attempts : /\ attempt'[b].life = attempt[b].life
                                         /\ attempt'[b].decided = attempt[b].decided
    BY <1>2, <2>1, <2>2, Settling1
  <2>4. QED
    BY <1>2, <2>1, <2>3, ScoutGoes
<1>10. QED
  BY <1>4, <1>5, <1>6, <1>7, <1>8, <1>9

(* The ship is launched like any attempt.                                    *)
LEMMA ShipKeeps ==
    ASSUME NEW t \in Tasks, LifecycleInv, LaunchShip(t)
    PROVE  Kept
<1>1. /\ cmd[t].pc = "launch" /\ UNCHANGED storeVars /\ UNCHANGED external /\ attempt' = attempt
      /\ cmd' = [cmd EXCEPT ![t] = Launch("promote", cmd[t].att, NoLease)]
  BY DEF LaunchShip, At, LocalOnly, storeVars
<1>2. cmd[t].att \in Attempts
  BY <1>1, ScoutFacts
<1>3. /\ Launch("promote", cmd[t].att, NoLease) \in Command
      /\ Launch("promote", cmd[t].att, NoLease).pc = "get"
      /\ Launch("promote", cmd[t].att, NoLease).att = cmd[t].att
      /\ Launch("promote", cmd[t].att, NoLease).lease = NoLease
  <2>1. Idle \in Command
    BY CommandColumns DEF LifecycleInv, CommandsTyped
  <2>2. QED
    BY <1>2, <2>1 DEF Launch, Idle, Command, Operations, Pcs, ShipPcs, LaunchPcs
<1>4. QED
  BY <1>1, <1>3, SaysNothing, Shipping

-----------------------------------------------------------------------------
(* Teardown.                                                                 *)

(* What a command that ends an attempt knows.                                *)
LEMMA ClosingFacts ==
    ASSUME NEW t \in Tasks, LifecycleInv, cmd[t].pc \in GuardPcs \union ClosingPcs
    PROVE  /\ cmd[t].pc \notin ShipPcs /\ cmd[t].pc \notin LeasePcs
           /\ cmd[t].att \in Attempts /\ attempt[cmd[t].att].owner = t
           /\ cmd[t].pc \in ClosingPcs => Closed(attempt[cmd[t].att])
           /\ attempt[cmd[t].att].herdr # NoPane =>
                 attempt[cmd[t].att].herdr \in Panes /\ Opened(attempt[cmd[t].att].herdr)
           /\ attempt[cmd[t].att].worktree # NoLease =>
                 attempt[cmd[t].att].worktree \in Leases /\ Issued(attempt[cmd[t].att].worktree)
           /\ cmd[t].pc \in PanePcs => attempt[cmd[t].att].herdr # NoPane
           /\ cmd[t].pc \in WorktreePcs => attempt[cmd[t].att].worktree # NoLease
           /\ cmd[t].pc \in {"closed", "pane_closed", "abandon_herdr"} =>
                 Gone(attempt[cmd[t].att].herdr)
           /\ cmd[t].pc \in {"return_ok", "lease_returned"} =>
                 Back(attempt[cmd[t].att].worktree)
<1>1. cmd[t].pc \notin ShipPcs /\ cmd[t].pc \notin LeasePcs /\ cmd[t].pc \notin FreePcs
  BY DEF ShipPcs, LaunchPcs, FreePcs, LeasePcs, RunPcs, ScoutPcs, ScoutPanePcs, ScoutLeasePcs,
     ClosingPcs, GuardPcs, PanePcs, WorktreePcs, RecordPcs
<1>2. CommandOK(t) /\ Stage(t)
  BY DEF LifecycleInv, CommandsTyped, Stages
<1>3. cmd[t].att \in Attempts /\ attempt[cmd[t].att].owner = t
  BY <1>1, <1>2 DEF CommandOK, Stage, ClosingStage
<1>4. attempt[cmd[t].att] \in AttemptRow
  BY <1>3 DEF LifecycleInv, StoreInv, StoreTypeOK
<1>5. /\ attempt[cmd[t].att].herdr # NoPane =>
            attempt[cmd[t].att].herdr \in Panes /\ Opened(attempt[cmd[t].att].herdr)
      /\ attempt[cmd[t].att].worktree # NoLease =>
            attempt[cmd[t].att].worktree \in Leases /\ Issued(attempt[cmd[t].att].worktree)
  BY <1>3, <1>4 DEF LifecycleInv, AttemptRow, Recorded
<1>6. QED
  BY <1>1, <1>2, <1>3, <1>5 DEF Stage, ClosingStage, Closed

(* Where teardown and reconcile go while they end an attempt.                *)
ClosingEdges ==
    {<<"recover", "claim_pane">>, <<"recover", "examine">>, <<"recover", "decide">>,
     <<"recover", "finish">>, <<"examine", "merge_state">>, <<"examine", "decide">>,
     <<"merge_state", "decide">>, <<"decide", "claim_pane">>,
     <<"claim_pane", "close">>, <<"claim_pane", "claim_lease">>,
     <<"close", "closed">>, <<"close", "close_failed">>,
     <<"closed", "claim_lease">>, <<"close_failed", "claim_lease">>,
     <<"claim_lease", "facts">>, <<"claim_lease", "return">>,
     <<"return", "return_ok">>, <<"return", "return_aborted">>, <<"return", "return_error">>,
     <<"return_ok", "facts">>, <<"facts", "append">>,
     <<"append", "appended">>, <<"appended", "finish">>,
     <<"close_settled", "pane_closed">>, <<"close_settled", "pane_unclosed">>,
     <<"return_settled", "lease_returned">>,
     <<"end_pending", "end_append">>, <<"end_append", "end_appended">>,
     <<"end_appended", "end">>}

(* It goes on, by name, with whatever else it found out.                     *)
LEMMA ClosingGoes ==
    ASSUME NEW t \in Tasks, LifecycleInv, Effect(t), NEW c \in Command,
           cmd' = [cmd EXCEPT ![t] = c], c.att = cmd[t].att, c.lease = cmd[t].lease,
           <<cmd[t].pc, c.pc>> \in ClosingEdges,
           c.pc = "claim_pane" => Closed(attempt[c.att]) \/ Closed(attempt'[c.att]),
           c.pc = "close" => attempt[c.att].herdr # NoPane,
           c.pc = "return" => attempt[c.att].worktree # NoLease,
           c.pc \in {"closed", "pane_closed"} =>
               pane'[attempt[c.att].herdr].state \in {"gone", "foreign"},
           c.pc \in {"return_ok", "lease_returned"} =>
               lease'[attempt[c.att].worktree] \in {"free", "foreign"}
    PROVE  Kept
<1>1. /\ cmd[t].pc \in GuardPcs \union ClosingPcs /\ c.pc \in GuardPcs \union ClosingPcs
      /\ c.pc \in ClosingPcs => cmd[t].pc \in ClosingPcs \/ c.pc = "claim_pane"
      /\ c.pc \in PanePcs => cmd[t].pc \in PanePcs \/ c.pc = "close"
      /\ c.pc \in WorktreePcs => cmd[t].pc \in WorktreePcs \/ c.pc = "return"
      /\ c.pc # "abandon_herdr"
  BY DEF ClosingEdges, GuardPcs, ClosingPcs, PanePcs, WorktreePcs, RecordPcs
<1>2. /\ cmd[t].pc \notin ShipPcs
      /\ c.att \in Attempts /\ attempt[c.att].owner = t
      /\ cmd[t].pc \in ClosingPcs => Closed(attempt[c.att])
      /\ cmd[t].pc \in PanePcs => attempt[c.att].herdr # NoPane
      /\ cmd[t].pc \in WorktreePcs => attempt[c.att].worktree # NoLease
  BY <1>1, ClosingFacts
<1>3. /\ c.pc \in ClosingPcs => Closed(attempt[c.att]) \/ Closed(attempt'[c.att])
      /\ c.pc \in PanePcs => attempt[c.att].herdr # NoPane
      /\ c.pc \in WorktreePcs => attempt[c.att].worktree # NoLease
  BY <1>1, <1>2
<1>4. /\ c.pc \in {"closed", "pane_closed", "abandon_herdr"} =>
            \/ Gone(attempt[c.att].herdr)
            \/ pane'[attempt[c.att].herdr].state \in {"gone", "foreign"}
      /\ c.pc \in {"return_ok", "lease_returned"} =>
            \/ Back(attempt[c.att].worktree)
            \/ lease'[attempt[c.att].worktree] \in {"free", "foreign"}
  BY <1>1
<1>5. QED
  BY <1>1, <1>2, <1>3, <1>4, ClosingOn

(* It goes on and found out nothing else.                                    *)
LEMMA ClosingGoto ==
    ASSUME NEW t \in Tasks, LifecycleInv, Effect(t), NEW pc, Goto(t, pc),
           <<cmd[t].pc, pc>> \in ClosingEdges,
           pc = "claim_pane" =>
               Closed(attempt[cmd[t].att]) \/ Closed(attempt'[cmd[t].att]),
           pc = "close" => attempt[cmd[t].att].herdr # NoPane,
           pc = "return" => attempt[cmd[t].att].worktree # NoLease,
           pc \in {"closed", "pane_closed"} =>
               pane'[attempt[cmd[t].att].herdr].state \in {"gone", "foreign"},
           pc \in {"return_ok", "lease_returned"} =>
               lease'[attempt[cmd[t].att].worktree] \in {"free", "foreign"}
    PROVE  Kept
<1>1. pc \in Pcs
  BY DEF Pcs, ClosingEdges, GuardPcs, ClosingPcs, PanePcs, WorktreePcs, RecordPcs
<1>2. PICK c \in Command : Goes(t, c, pc)
  BY <1>1, Going DEF LifecycleInv
<1>3. QED
  BY <1>2, ClosingGoes DEF Goes

(* What teardown says to the store.                                          *)
LEMMA SaysQuietly ==
    ASSUME NEW t \in Tasks, NEW a \in Attempts, UNCHANGED external, QuietCall(t, a)
    PROVE  Effect(t)
BY DEF Effect, Says

(* A fact of the task is such a step too.                                    *)
LEMMA SaysFacts ==
    ASSUME NEW t \in Tasks, UNCHANGED external, FactCall(t)
    PROVE  Effect(t)
BY DEF Effect, Says

(* A teardown that finds what an earlier one left.                           *)
LEMMA RecoveringKeeps ==
    ASSUME NEW t \in Tasks, LifecycleInv, RecoverCompletion(t)
    PROVE  Kept
<1> DEFINE a == cmd[t].att
<1>1. cmd[t].pc = "recover" /\ UNCHANGED external
  BY DEF RecoverCompletion, At, StoreOnly
<1>2. a \in Attempts
  BY <1>1, ClosingFacts DEF GuardPcs
<1>3. CASE Goto(t, "finish") /\
           \/ SetAttemptTeardownCompletionState(t, a, attempt[a].life, "appended")
           \/ UNCHANGED storeVars
  <2>1. Effect(t)
    BY <1>1, <1>2, <1>3, SaysNothing, SaysQuietly DEF QuietCall
  <2>2. QED
    BY <1>1, <1>3, <2>1, ClosingGoto DEF ClosingEdges
<1>4. CASE UNCHANGED storeVars /\
           \/ Leave(t) \/ Goto(t, "decide") \/ Goto(t, "examine")
  <2>1. Effect(t)
    BY <1>1, <1>4, SaysNothing
  <2>2. QED
    BY <1>1, <1>4, <2>1, Leaving, ClosingGoto DEF ClosingEdges
<1>5. ASSUME NEW safe \in BOOLEAN, attempt[a].decided # "", UNCHANGED storeVars,
             cmd' = [cmd EXCEPT ![t].pc = "claim_pane", ![t].safe = safe]
      PROVE  Kept
  <2> DEFINE c == [cmd[t] EXCEPT !.pc = "claim_pane", !.safe = safe]
  <2>1. cmd[t] \in Command
    BY DEF LifecycleInv, CommandsTyped
  <2>2. c \in Command /\ c.pc = "claim_pane" /\ c.att = a /\ c.lease = cmd[t].lease
    BY <2>1 DEF Command, Pcs, ClosingPcs
  <2>3. cmd' = [cmd EXCEPT ![t] = c]
    BY <1>5
  <2> HIDE DEF c
  <2>4. Closed(attempt[a])
    BY <1>5 DEF Closed
  <2>5. QED
    BY <1>1, <1>5, <2>2, <2>3, <2>4, SaysNothing, ClosingGoes DEF ClosingEdges
<1>6. QED
  <2>1. (attempt[a].disposition = "completed-safe-dirt") \in BOOLEAN
    OBVIOUS
  <2>2. QED
    BY <1>3, <1>4, <1>5, <2>1 DEF RecoverCompletion

(* It stays where it is.                                                     *)
LEMMA Staying ==
    ASSUME NEW t \in Tasks, LifecycleInv, Effect(t), cmd' = cmd, attempt' = attempt
    PROVE  Kept
<1>1. CommandsTyped' /\ \A s \in Tasks : CommandOK(s)'
  BY DEF LifecycleInv, CommandsTyped, CommandOK
<1>2. Moves
  BY Effects DEF LifecycleInv, Fades
<1>3. Stage(t)'
  BY <1>2, OthersKeep DEF LifecycleInv, Stages
<1>4. LeaseKept(t)
  BY DEF LeaseKept
<1>5. OrdinaryStep(t)
  BY <1>1, <1>3, <1>4, Effects DEF OrdinaryStep, LifecycleInv
<1>6. QED
  BY <1>5, OrdinaryKeeps DEF Kept, OrdinaryStep

(* The active attempt of a task is one of its attempts.                      *)
LEMMA ActiveFacts ==
    ASSUME NEW t \in Tasks, LifecycleInv, NEW a, a = task[t].active, a # NoAttempt
    PROVE  a \in Attempts /\ attempt[a].owner = t /\ attempt[a].life \in LiveStates
<1>1. task[t] \in TaskRow
  BY DEF LifecycleInv, StoreInv, StoreTypeOK
<1>2. QED
  BY <1>1 DEF LifecycleInv, StoreInv, OneOwner, TaskRow

(* A teardown starts on the active attempt.                                  *)
LEMMA StartingTeardownKeeps ==
    ASSUME NEW t \in Tasks, LifecycleInv, NEW force \in BOOLEAN, StartTeardown(t, force)
    PROVE  Kept
<1> DEFINE c == [Idle EXCEPT !.op = "teardown", !.pc = "recover",
                             !.att = task[t].active, !.force = force,
                             !.kind = task[t].kind, !.merged = Merged(t)]
<1>1. /\ cmd[t] = Idle /\ task[t].active # NoAttempt /\ cmd' = [cmd EXCEPT ![t] = c]
      /\ UNCHANGED storeVars /\ UNCHANGED external
  BY DEF StartTeardown, LocalOnly
<1>2. task[t].active \in Attempts /\ attempt[task[t].active].owner = t
  BY <1>1, ActiveFacts
<1>3. task[t].kind \in Kinds
  BY DEF LifecycleInv, StoreInv, StoreTypeOK, TaskRow
<1>4. Idle \in Command
  BY CommandColumns DEF LifecycleInv, CommandsTyped
<1>5. Merged(t) \in BOOLEAN
  BY DEF Merged
<1>6. /\ c \in Command /\ c.pc = "recover" /\ c.att = task[t].active /\ c.lease = Idle.lease
  BY <1>2, <1>3, <1>4, <1>5 DEF Command, Operations, Pcs, GuardPcs
<1> HIDE DEF c
<1>7. Effect(t)
  BY <1>1, SaysNothing
<1>8. cmd[t].pc = "idle" /\ cmd[t].pc \notin ShipPcs
  BY <1>1 DEF Idle, ShipPcs, ScoutPcs, ScoutPanePcs, ScoutLeasePcs, LaunchPcs, LeasePcs, RunPcs
<1>9. /\ c.pc \in GuardPcs /\ c.pc \notin ClosingPcs /\ c.pc \notin PanePcs
      /\ c.pc \notin WorktreePcs
  BY <1>6 DEF GuardPcs, ClosingPcs, PanePcs, WorktreePcs, RecordPcs
<1>10. c.att \in Attempts /\ attempt[c.att].owner = t /\ c.lease = cmd[t].lease
  BY <1>1, <1>2, <1>6
<1>11. QED
  BY <1>1, <1>6, <1>7, <1>8, <1>9, <1>10, ClosingOn

(* The guard: what the worktree holds, whether the branch is merged.         *)
LEMMA ExaminingKeeps ==
    ASSUME NEW t \in Tasks, LifecycleInv, ExamineWork(t)
    PROVE  Kept
<1> DEFINE tree == WorkIn(attempt[cmd[t].att].worktree)
<1>1. cmd[t].pc = "examine" /\ UNCHANGED external
  BY DEF ExamineWork, At, StoreOnly
<1>2. cmd[t] \in Command
  BY DEF LifecycleInv, CommandsTyped
<1>3. ASSUME Leave(t) \/ Goto(t, "decide"), UNCHANGED storeVars
      PROVE  Kept
  <2>1. Effect(t)
    BY <1>1, <1>3, SaysNothing
  <2>2. QED
    BY <1>1, <1>3, <2>1, Leaving, ClosingGoto DEF ClosingEdges
<1>4. ASSUME NEW pc \in {"decide", "merge_state"}, NEW kind \in Kinds, NEW merged \in BOOLEAN,
             cmd' = [cmd EXCEPT ![t].pc = pc, ![t].safe = (tree.dirt = "scratch"),
                                ![t].kind = kind, ![t].merged = merged],
             UNCHANGED storeVars \/ SetTaskPR(t)
      PROVE  Kept
  <2>1. PICK safe \in BOOLEAN : safe = (tree.dirt = "scratch")
    OBVIOUS
  <2> DEFINE c == [cmd[t] EXCEPT !.pc = pc, !.safe = safe, !.kind = kind, !.merged = merged]
  <2>2. c \in Command /\ c.pc = pc /\ c.att = cmd[t].att /\ c.lease = cmd[t].lease
    <3>1. pc \in Pcs
      BY DEF Pcs, GuardPcs
    <3>2. QED
      BY <1>2, <3>1 DEF Command
  <2>3. cmd' = [cmd EXCEPT ![t] = c]
    BY <1>4, <2>1
  <2> HIDE DEF c
  <2>4. Effect(t)
    BY <1>1, <1>4, SaysNothing, SaysFacts DEF FactCall
  <2>5. QED
    BY <1>1, <2>2, <2>3, <2>4, ClosingGoes DEF ClosingEdges
<1>5. cmd[t].merged \in BOOLEAN /\ (cmd[t].merged \/ pr[t] = "merged") \in BOOLEAN
  BY <1>2 DEF Command
<1>6. "ship" \in Kinds /\ "scout" \in Kinds
  BY DEF Kinds
<1>7. QED
  BY <1>3, <1>4, <1>5, <1>6 DEF ExamineWork

(* The decision is recorded, or found recorded.                              *)
LEMMA DecidingKeeps ==
    ASSUME NEW t \in Tasks, LifecycleInv, ObserveMergeState(t) \/ DecideTeardown(t)
    PROVE  Kept
<1> DEFINE a == cmd[t].att
<1>1. CASE ObserveMergeState(t)
  <2>1. cmd[t].pc = "merge_state" /\ Effect(t)
    BY <1>1, SaysNothing DEF ObserveMergeState, At, LocalOnly
  <2>2. QED
    BY <1>1, <2>1, Leaving, ClosingGoto DEF ObserveMergeState, ClosingEdges
<1>2. CASE DecideTeardown(t)
  <2> DEFINE d == Decision(a, cmd[t].force, cmd[t].safe)
  <2>1. /\ cmd[t].pc = "decide" /\ UNCHANGED external /\ Goto(t, "claim_pane")
        /\ SetAttemptTeardownDecision(t, a, d.terminal, d.disposition)
    BY <1>2 DEF DecideTeardown, At, StoreOnly
  <2>2. a \in Attempts /\ attempt[a] \in AttemptRow
    <3>1. a \in Attempts
      BY <2>1, ClosingFacts DEF GuardPcs
    <3>2. QED
      BY <3>1 DEF LifecycleInv, StoreInv, StoreTypeOK
  <2>3. attempt[a].life \in {"provisioning", "running"}
    BY <2>1 DEF SetAttemptTeardownDecision, LiveStates
  <2>4. cmd[t].force \in BOOLEAN
    BY DEF LifecycleInv, CommandsTyped, Command
  <2>5. Launched(a) \in BOOLEAN
    BY DEF Launched
  <2>6. /\ d.terminal \in {"completed", "interrupted"}
        /\ d.disposition \in TeardownDispositions
    <3>1. CASE cmd[t].force
      BY <3>1 DEF Decision, TeardownDispositions
    <3>2. CASE ~cmd[t].force /\ ~Launched(a)
      BY <3>2 DEF Decision, TeardownDispositions
    <3>3. CASE ~cmd[t].force /\ Launched(a) /\ attempt[a].life = "provisioning"
      BY <3>3 DEF Decision, TeardownDispositions
    <3>4. CASE ~cmd[t].force /\ Launched(a) /\ attempt[a].life = "running"
      BY <3>4 DEF Decision, TeardownDispositions
    <3>5. QED
      BY <2>3, <2>4, <3>1, <3>2, <3>3, <3>4
  <2> HIDE DEF d
  <2>7. QuietCall(t, a)
    BY <2>1, <2>6 DEF QuietCall
  <2>8. Closed(attempt'[a])
    <3>1. attempt'[a] = [attempt[a] EXCEPT !.decided = d.terminal, !.disposition = d.disposition]
      BY <2>1, <2>2 DEF SetAttemptTeardownDecision, LifecycleInv, StoreInv, StoreTypeOK
    <3>2. attempt'[a].decided = d.terminal
      BY <2>2, <3>1 DEF AttemptRow
    <3>3. QED
      BY <2>6, <3>2 DEF Closed
  <2>9. Effect(t)
    BY <2>1, <2>2, <2>7, SaysQuietly
  <2>10. QED
    BY <2>1, <2>8, <2>9, ClosingGoto DEF ClosingEdges
<1>3. QED
  BY <1>1, <1>2

(* The pane of a decided attempt.                                            *)
LEMMA PaneKeeps ==
    ASSUME NEW t \in Tasks, LifecycleInv, ClaimPane(t) \/ ClosePane(t) \/ RecordPaneClosed(t)
    PROVE  Kept
<1> DEFINE a == cmd[t].att
<1>1. cmd[t].pc \in {"claim_pane", "close", "closed", "close_failed"}
  BY DEF ClaimPane, ClosePane, RecordPaneClosed, At
<1>2. /\ a \in Attempts /\ Closed(attempt[a]) /\ Resources = {"herdr", "worktree"}
      /\ attempt[a].herdr # NoPane => attempt[a].herdr \in Panes /\ Opened(attempt[a].herdr)
      /\ cmd[t].pc # "claim_pane" => attempt[a].herdr # NoPane
      /\ cmd[t].pc = "closed" => Gone(attempt[a].herdr)
  <2>1. cmd[t].pc \in ClosingPcs /\ (cmd[t].pc # "claim_pane" => cmd[t].pc \in PanePcs)
    BY <1>1 DEF ClosingPcs, PanePcs
  <2>2. QED
    BY <2>1, ClosingFacts, WorldAssumption
<1>3. CASE ClaimPane(t)
  <2>1. UNCHANGED external /\ cmd[t].pc = "claim_pane"
    BY <1>3 DEF ClaimPane, StoreOnly, At
  <2>2. CASE SetResource(t, a, "herdr", "releasing") /\ Goto(t, "close") /\ PaneUnsettled(a)
    <3>1. MaySettle(a, "herdr", "releasing") /\ attempt[a].herdr # NoPane
      BY <1>2, <2>2 DEF MaySettle, Settled, PaneUnsettled
    <3>2. Effect(t)
      BY <1>2, <2>1, <2>2, <3>1, Settling1
    <3>3. QED
      BY <2>1, <2>2, <3>1, <3>2, ClosingGoto DEF ClosingEdges
  <2>3. CASE UNCHANGED storeVars /\ Goto(t, "claim_lease")
    <3>1. Effect(t)
      BY <2>1, <2>3, SaysNothing
    <3>2. QED
      BY <2>1, <2>3, <3>1, ClosingGoto DEF ClosingEdges
  <2>4. QED
    BY <1>3, <2>2, <2>3 DEF ClaimPane
<1>4. CASE ClosePane(t)
  <2>1. /\ cmd[t].pc = "close" /\ UNCHANGED storeVars
        /\ attempt[a].herdr \in Panes /\ Opened(attempt[a].herdr)
    BY <1>2, <1>4 DEF ClosePane, At, WorldOnly
  <2>2. ASSUME NEW result \in {"ok", "error"}, CloseTab(attempt[a].herdr, result),
               Goto(t, IF result = "ok" THEN "closed" ELSE "close_failed")
        PROVE  Kept
    <3>1. Fades /\ WorldTyped' /\ (result = "ok" => pane'[attempt[a].herdr].state = "gone")
      BY <2>1, <2>2, ClosingFades DEF LifecycleInv
    <3>2. Effect(t)
      BY <2>1, <3>1 DEF Effect, Acts
    <3>3. QED
      BY <2>1, <2>2, <3>1, <3>2, ClosingGoto DEF ClosingEdges
  <2>3. QED
    BY <1>4, <2>2 DEF ClosePane
<1>5. CASE RecordPaneClosed(t)
  <2> DEFINE next == IF At(t, "closed") THEN "released" ELSE "ambiguous"
  <2>1. /\ UNCHANGED external /\ cmd[t].pc \in {"closed", "close_failed"}
        /\ SetResource(t, a, "herdr", next) /\ Goto(t, "claim_lease")
        /\ next \in {"released", "ambiguous"}
    BY <1>5 DEF RecordPaneClosed, StoreOnly, At
  <2>2. MaySettle(a, "herdr", next)
    BY <1>2, <2>1 DEF MaySettle, Settled, At
  <2> HIDE DEF next
  <2>3. Effect(t)
    BY <1>2, <2>1, <2>2, Settling1
  <2>4. QED
    BY <2>1, <2>3, ClosingGoto DEF ClosingEdges
<1>6. QED
  BY <1>3, <1>4, <1>5

(* Its worktree.                                                             *)
LEMMA ClaimingLeaseKeeps ==
    ASSUME NEW t \in Tasks, LifecycleInv, ClaimLease(t)
    PROVE  Kept
<1> DEFINE a == cmd[t].att
<1>1. cmd[t].pc = "claim_lease" /\ UNCHANGED external
  BY DEF ClaimLease, At, StoreOnly
<1>2. a \in Attempts /\ Closed(attempt[a]) /\ Resources = {"herdr", "worktree"}
  <2>1. cmd[t].pc \in ClosingPcs
    BY <1>1 DEF ClosingPcs
  <2>2. QED
    BY <2>1, ClosingFacts, WorldAssumption
<1>3. ASSUME UNCHANGED storeVars, Goto(t, "facts") \/ Leave(t)
      PROVE  Kept
  <2>1. Effect(t)
    BY <1>1, <1>3, SaysNothing
  <2>2. QED
    BY <1>1, <1>3, <2>1, Leaving, ClosingGoto DEF ClosingEdges
<1>4. ASSUME LeaseUnsettled(a), SetResource(t, a, "worktree", "releasing"), Goto(t, "return")
      PROVE  Kept
  <2>1. MaySettle(a, "worktree", "releasing") /\ attempt[a].worktree # NoLease
    BY <1>2, <1>4 DEF MaySettle, LeaseUnsettled
  <2>2. Effect(t)
    BY <1>1, <1>2, <1>4, <2>1, Settling1
  <2>3. QED
    BY <1>1, <1>4, <2>1, <2>2, ClosingGoto DEF ClosingEdges
<1>5. ASSUME LeaseUnsettled(a), SetResource(t, a, "worktree", "ambiguous"), Leave(t)
      PROVE  Kept
  <2>1. MaySettle(a, "worktree", "ambiguous")
    BY <1>2, <1>5 DEF MaySettle, LeaseUnsettled
  <2>2. Effect(t)
    BY <1>1, <1>2, <1>5, <2>1, Settling1
  <2>3. QED
    BY <1>5, <2>2, Leaving
<1>6. CASE ~LeaseUnsettled(a) /\ UNCHANGED storeVars /\ Goto(t, "facts")
  BY <1>3, <1>6
<1>7. CASE UNCHANGED storeVars /\ Leave(t)
  BY <1>3, <1>7
<1>8. ASSUME LeaseUnsettled(a), NEW seen \in LeaseSeen(attempt[a].worktree),
             CASE seen = "exact" -> /\ SetResource(t, a, "worktree", "releasing")
                                    /\ Goto(t, "return")
               [] seen = "unknown" -> UNCHANGED storeVars /\ Leave(t)
               [] OTHER -> /\ SetResourceOrRepeat(t, a, "worktree", "ambiguous")
                           /\ Leave(t)
      PROVE  Kept
  <2>1. CASE seen = "exact"
    BY <1>4, <1>8, <2>1
  <2>2. CASE seen = "unknown"
    BY <1>3, <1>8, <2>2
  <2>3. CASE seen \notin {"exact", "unknown"}
    <3>1. SetResourceOrRepeat(t, a, "worktree", "ambiguous") /\ Leave(t)
      BY <1>8, <2>3
    <3>2. QED
      BY <1>3, <1>5, <1>8, <3>1 DEF SetResourceOrRepeat
  <2>4. QED
    BY <2>1, <2>2, <2>3
<1>9. QED
  BY <1>6, <1>7, <1>8 DEF ClaimLease

(* The worktree is returned, and what came of it recorded.                   *)
LEMMA ReturningKeeps ==
    ASSUME NEW t \in Tasks, LifecycleInv, ReturnWorktree(t) \/ RecordReturned(t)
    PROVE  Kept
<1> DEFINE a == cmd[t].att
<1>1. cmd[t].pc \in {"return", "return_ok", "return_aborted", "return_error"}
  BY DEF ReturnWorktree, RecordReturned, At
<1>2. /\ a \in Attempts /\ Closed(attempt[a]) /\ Resources = {"herdr", "worktree"}
      /\ attempt[a].worktree # NoLease
      /\ attempt[a].worktree \in Leases /\ Issued(attempt[a].worktree)
      /\ cmd[t].pc = "return_ok" => Back(attempt[a].worktree)
  <2>1. cmd[t].pc \in ClosingPcs /\ cmd[t].pc \in WorktreePcs
    BY <1>1 DEF ClosingPcs, WorktreePcs
  <2>2. QED
    BY <2>1, ClosingFacts, WorldAssumption
<1>3. CASE ReturnWorktree(t)
  <2>1. cmd[t].pc = "return" /\ UNCHANGED storeVars
    BY <1>3 DEF ReturnWorktree, At, WorldOnly
  <2>2. ASSUME NEW result \in {"ok", "aborted", "error"},
               ReturnLease(attempt[a].worktree, ReturnForce(t), result),
               Goto(t, CASE result = "ok" -> "return_ok"
                         [] result = "aborted" -> "return_aborted"
                         [] result = "error" -> "return_error")
        PROVE  Kept
    <3> DEFINE force == ReturnForce(t)
               pc == CASE result = "ok" -> "return_ok"
                       [] result = "aborted" -> "return_aborted"
                       [] result = "error" -> "return_error"
    <3>1. /\ pc \in {"return_ok", "return_aborted", "return_error"}
          /\ pc = "return_ok" => result = "ok"
      OBVIOUS
    <3>2. ReturnLease(attempt[a].worktree, force, result) /\ Goto(t, pc)
      BY <2>2
    <3> HIDE DEF force, pc
    <3>3. Fades /\ WorldTyped' /\ (result = "ok" => lease'[attempt[a].worktree] = "free")
      BY <1>2, <3>2, ReturningFades DEF LifecycleInv
    <3>4. Effect(t)
      BY <2>1, <3>3 DEF Effect, Acts
    <3>5. QED
      BY <2>1, <3>1, <3>2, <3>3, <3>4, ClosingGoto DEF ClosingEdges
  <2>3. CASE ReturnLease(attempt[a].worktree, ReturnForce(t), "ok") /\ Goto(t, "return_ok")
    BY <2>2, <2>3
  <2>4. CASE /\ ReturnLease(attempt[a].worktree, ReturnForce(t), "aborted")
             /\ Goto(t, "return_aborted")
    BY <2>2, <2>4
  <2>5. CASE ReturnLease(attempt[a].worktree, ReturnForce(t), "error") /\ Goto(t, "return_error")
    BY <2>2, <2>5
  <2>6. QED
    BY <1>3, <2>3, <2>4, <2>5 DEF ReturnWorktree
<1>4. CASE RecordReturned(t)
  <2>1. UNCHANGED external
    BY <1>4 DEF RecordReturned, StoreOnly
  <2>2. ASSUME NEW next \in {"released", "retryable", "ambiguous"},
               SetResource(t, a, "worktree", next),
               next = "released" => cmd[t].pc = "return_ok"
        PROVE  Effect(t)
    <3>1. MaySettle(a, "worktree", next)
      BY <1>2, <2>2 DEF MaySettle
    <3>2. QED
      BY <1>2, <2>1, <2>2, <3>1, Settling1
  <2>3. CASE /\ cmd[t].pc = "return_ok" /\ SetResource(t, a, "worktree", "released")
             /\ Goto(t, "facts")
    BY <2>2, <2>3, ClosingGoto DEF ClosingEdges
  <2>4. CASE SetResource(t, a, "worktree", "retryable") /\ Leave(t)
    BY <2>2, <2>4, Leaving
  <2>5. CASE SetResource(t, a, "worktree", "ambiguous") /\ Leave(t)
    BY <2>2, <2>5, Leaving
  <2>6. QED
    BY <1>4, <2>3, <2>4, <2>5 DEF RecordReturned, At
<1>5. QED
  BY <1>3, <1>4

(* What it found out, the record, and the end.                               *)
LEMMA EndingKeeps ==
    ASSUME NEW t \in Tasks, LifecycleInv,
           RecordFacts(t) \/ AppendCompletion(t) \/ RecordAppended(t) \/ FinishTeardown(t)
    PROVE  Kept
<1> DEFINE a == cmd[t].att
<1>1. /\ cmd[t].pc \in {"facts", "append", "appended", "finish"} /\ UNCHANGED external
  BY DEF RecordFacts, AppendCompletion, RecordAppended, FinishTeardown, At, StoreOnly
<1>2. a \in Attempts /\ attempt[a] \in AttemptRow
  <2>1. cmd[t].pc \in GuardPcs \union ClosingPcs
    BY <1>1 DEF GuardPcs, ClosingPcs, RecordPcs
  <2>2. a \in Attempts
    BY <2>1, ClosingFacts
  <2>3. QED
    BY <2>2 DEF LifecycleInv, StoreInv, StoreTypeOK
<1>3. ASSUME NEW next \in {"pending", "appended"},
             SetAttemptTeardownCompletionState(t, a, attempt[a].life, next)
      PROVE  Effect(t)
  <2>1. QuietCall(t, a)
    BY <1>3 DEF QuietCall
  <2>2. QED
    BY <1>1, <1>2, <2>1, SaysQuietly
<1>4. CASE RecordFacts(t)
  <2>1. cmd[t].pc = "facts" /\ cmd[t].kind \in Kinds
    BY <1>4 DEF RecordFacts, At, LifecycleInv, CommandsTyped, Command
  <2>2. CASE SetTaskKind(t, cmd[t].kind) /\ UNCHANGED cmd
    <3>1. FactCall(t) /\ attempt' = attempt
      BY <2>1, <2>2 DEF FactCall, SetTaskKind
    <3>2. QED
      BY <1>1, <2>2, <3>1, SaysFacts, Staying
  <2>3. CASE SetTaskMergeAnnounced(t) /\ UNCHANGED cmd
    <3>1. FactCall(t) /\ attempt' = attempt
      BY <2>3 DEF FactCall, SetTaskMergeAnnounced
    <3>2. QED
      BY <1>1, <2>3, <3>1, SaysFacts, Staying
  <2>4. CASE SetAttemptTeardownCompletionState(t, a, attempt[a].life, "pending")
                 /\ Goto(t, "append")
    BY <1>3, <2>1, <2>4, ClosingGoto DEF ClosingEdges
  <2>5. CASE UNCHANGED storeVars /\ Goto(t, "append")
    BY <1>1, <2>1, <2>5, SaysNothing, ClosingGoto DEF ClosingEdges
  <2>6. QED
    BY <1>4, <2>2, <2>3, <2>4, <2>5 DEF RecordFacts
<1>5. CASE AppendCompletion(t)
  <2>1. cmd[t].pc = "append" /\ Effect(t)
    BY <1>1, <1>5, SaysNothing DEF AppendCompletion, At
  <2>2. Goto(t, "appended") \/ Leave(t)
    BY <1>5 DEF AppendCompletion
  <2>3. QED
    BY <2>1, <2>2, Leaving, ClosingGoto DEF ClosingEdges
<1>6. CASE RecordAppended(t)
  <2>1. /\ cmd[t].pc = "appended" /\ Goto(t, "finish")
        /\ SetAttemptTeardownCompletionState(t, a, attempt[a].life, "appended")
    BY <1>6 DEF RecordAppended, At
  <2>2. QED
    BY <1>3, <2>1, ClosingGoto DEF ClosingEdges
<1>7. CASE FinishTeardown(t)
  <2>1. TerminalizeTaskAndAttempt(t, a, attempt[a].life, attempt[a].decided) /\ Leave(t)
    BY <1>7 DEF FinishTeardown
  <2>2. attempt[a].decided \in {"completed", "interrupted"}
    BY <1>2, <2>1 DEF TerminalizeTaskAndAttempt, ValidAttemptTransition, TerminalStates,
       AttemptRow
  <2>3. QuietCall(t, a)
    BY <2>1, <2>2 DEF QuietCall
  <2>4. QED
    BY <1>1, <1>2, <2>1, <2>3, SaysQuietly, Leaving
<1>8. QED
  BY <1>4, <1>5, <1>6, <1>7

(* Every step of a teardown.                                                 *)
LEMMA TeardownKeeps ==
    ASSUME NEW t \in Tasks, LifecycleInv, TeardownStep(t)
    PROVE  Kept
BY StartingTeardownKeeps, RecoveringKeeps, ExaminingKeeps, DecidingKeeps, PaneKeeps,
   ClaimingLeaseKeeps, ReturningKeeps, EndingKeeps DEF TeardownStep

-----------------------------------------------------------------------------
(* Reconciliation.                                                           *)

(* What an observation says of a pane that was opened, or of a lease that    *)
(* was handed out.                                                           *)
LEMMA PanesSeen ==
    ASSUME NEW p \in Panes, WorldTyped, Opened(p), NEW seen \in PaneSeen(p)
    PROVE  /\ seen \in {"unknown", "agent", "shell", "absent", "mismatch"}
           /\ seen \in {"absent", "mismatch"} => Gone(p)
<1>1. pane[p].state \in {"shell", "agent", "gone", "foreign"}
  BY DEF WorldTyped, Opened
<1>2. QED
  BY <1>1 DEF PaneSeen, Unobservable, Gone

(* The same of a lease.                                                      *)
LEMMA LeasesSeen ==
    ASSUME NEW l \in Leases, WorldTyped, Issued(l), NEW seen \in LeaseSeen(l)
    PROVE  /\ seen \in {"unknown", "exact", "absent", "mismatch"}
           /\ seen \in {"absent", "mismatch"} => Back(l)
<1>1. lease[l] \in {"held", "free", "foreign"}
  BY DEF WorldTyped, Issued
<1>2. QED
  BY <1>1 DEF LeaseSeen, Unobservable, Back

(* An attempt reconcile settles, and one nobody has decided about.           *)
LEMMA RowFacts ==
    ASSUME NEW a \in Attempts, LifecycleInv
    PROVE  /\ attempt[a] \in AttemptRow
           /\ attempt[a].herdr # NoPane => attempt[a].herdr \in Panes /\ Opened(attempt[a].herdr)
           /\ attempt[a].worktree # NoLease =>
                 attempt[a].worktree \in Leases /\ Issued(attempt[a].worktree)
<1>1. attempt[a] \in AttemptRow
  BY DEF LifecycleInv, StoreInv, StoreTypeOK
<1>2. QED
  BY <1>1 DEF LifecycleInv, AttemptRow, Recorded

(* What a reconciliation that settles an attempt knows.                      *)
LEMMA SettlingFacts ==
    ASSUME NEW t \in Tasks, NEW a \in Attempts, LifecycleInv, Settling(t, a)
    PROVE  cmd[t].pc = "observe" /\ attempt[a].owner = t /\ Closed(attempt[a])
<1>1. cmd[t].pc = "observe"
  BY DEF Settling, At
<1>2. CASE a \in Oldest(t)
  BY <1>1, <1>2 DEF Oldest, History, Closed
<1>3. CASE a = task[t].active /\ attempt[a].decided # ""
  <2>1. a # NoAttempt
    BY StoreAssumption DEF Attempts
  <2>2. QED
    BY <1>1, <1>3, <2>1, ActiveFacts DEF Closed
<1>4. QED
  BY <1>2, <1>3 DEF Settling

(* From a look at the task, a command goes on to end an attempt of it.       *)
LEMMA Observing ==
    ASSUME NEW t \in Tasks, NEW a \in Attempts, LifecycleInv, Effect(t), cmd[t].pc = "observe",
           attempt[a].owner = t, Closed(attempt[a]) \/ Closed(attempt'[a]), NEW pc,
           cmd' = [cmd EXCEPT ![t].att = a, ![t].pc = pc],
           \/ /\ pc \in {"pane_closed", "close_settled", "abandon_herdr"}
              /\ attempt[a].herdr # NoPane
              /\ pc # "close_settled" => Gone(attempt[a].herdr)
           \/ /\ pc \in {"lease_returned", "return_settled", "abandon_worktree"}
              /\ attempt[a].worktree # NoLease
              /\ pc = "lease_returned" => Back(attempt[a].worktree)
           \/ pc \in {"settled_appended", "end_pending"}
    PROVE  Kept
<1> DEFINE c == [cmd[t] EXCEPT !.att = a, !.pc = pc]
<1>1. /\ pc \in Pcs /\ pc \in ClosingPcs
      /\ pc \in PanePcs => attempt[a].herdr # NoPane
      /\ pc \in WorktreePcs => attempt[a].worktree # NoLease
      /\ pc \in {"closed", "pane_closed", "abandon_herdr"} => Gone(attempt[a].herdr)
      /\ pc \in {"return_ok", "lease_returned"} => Back(attempt[a].worktree)
  BY DEF Pcs, ClosingPcs, PanePcs, WorktreePcs, RecordPcs
<1>2. cmd[t] \in Command
  BY DEF LifecycleInv, CommandsTyped
<1>3. c \in Command /\ c.pc = pc /\ c.att = a /\ c.lease = cmd[t].lease
  BY <1>1, <1>2 DEF Command
<1>4. cmd' = [cmd EXCEPT ![t] = c]
  OBVIOUS
<1> HIDE DEF c
<1>5. cmd[t].pc \notin ShipPcs
  BY DEF ShipPcs, ScoutPcs, ScoutPanePcs, ScoutLeasePcs, LaunchPcs, LeasePcs, RunPcs
<1>6. QED
  BY <1>1, <1>3, <1>4, <1>5, ClosingOn

(* It leaves, or looks again.                                                *)
LEMMA ObservingAgain ==
    ASSUME NEW t \in Tasks, LifecycleInv, Effect(t), cmd[t].pc \in FreePcs \union ClosingPcs,
           Leave(t) \/ Again(t)
    PROVE  Kept
<1>1. cmd[t].pc \notin LeasePcs
  BY DEF FreePcs, LeasePcs, RunPcs, ClosingPcs, PanePcs, WorktreePcs, RecordPcs
<1>2. QED
  BY <1>1, Leaving, LookingAgain

(* It notes why it cannot go on.                                             *)
LEMMA Diagnosing ==
    ASSUME NEW t \in Tasks, LifecycleInv, NEW code \in ReconcileCodes, NEW a \in Attempts,
           UNCHANGED external, Diagnose(t, code, a)
    PROVE  Kept
<1>1. SetTaskRepair(t, code, a) => FactCall(t)
  BY ReconcileAssumption DEF FactCall
<1>2. Effect(t)
  BY <1>1, SaysFacts, SaysNothing DEF Diagnose
<1>3. QED
  BY <1>2, Leaving DEF Diagnose

(* It takes back such a note.                                                *)
LEMMA Clearing ==
    ASSUME NEW t \in Tasks, LifecycleInv, task[t].repair \in ReconcileCodes,
           cmd[t].pc = "observe",
           UNCHANGED external, ClearTaskRepair(t, task[t].repair), Again(t)
    PROVE  Kept
<1>1. FactCall(t)
  BY ReconcileAssumption DEF FactCall
<1>2. Effect(t)
  BY <1>1, SaysFacts
<1>3. QED
  BY <1>2, ObservingAgain DEF FreePcs

(* A settlement, then a turn.                                                *)
LEMMA Claiming ==
    ASSUME NEW t \in Tasks, NEW a \in Attempts, NEW r \in {"herdr", "worktree"}, NEW from,
           LifecycleInv, cmd[t].pc = "observe", attempt[a].owner = t, Closed(attempt[a]),
           UNCHANGED external, NEW pc, ClaimThen(t, a, r, from, pc),
           \/ /\ r = "herdr" /\ pc \in {"pane_closed", "close_settled"}
              /\ attempt[a].herdr # NoPane
              /\ pc # "close_settled" => Gone(attempt[a].herdr)
           \/ /\ r = "worktree" /\ pc \in {"lease_returned", "return_settled"}
              /\ attempt[a].worktree # NoLease
              /\ pc = "lease_returned" => Back(attempt[a].worktree)
    PROVE  Kept
<1>1. MaySettle(a, r, "releasing") /\ r \in Resources
  BY WorldAssumption DEF MaySettle, Settled
<1>2. SetResource(t, a, r, "releasing") \/ UNCHANGED storeVars
  BY DEF ClaimThen
<1>3. Effect(t)
  BY <1>1, <1>2, Settling1, SaysNothing
<1>4. QED
  BY <1>3, Observing DEF ClaimThen

(* It gives up a resource that is not there any more.                        *)
LEMMA Abandoning ==
    ASSUME NEW t \in Tasks, NEW a \in Attempts, NEW r \in {"herdr", "worktree"},
           LifecycleInv, cmd[t].pc = "observe", attempt[a].owner = t, Closed(attempt[a]),
           UNCHANGED external, Abandon(t, a, r),
           r = "herdr" => attempt[a].herdr # NoPane /\ Gone(attempt[a].herdr),
           r = "worktree" => attempt[a].worktree # NoLease
    PROVE  Kept
<1>1. MaySettle(a, r, "ambiguous") /\ MaySettle(a, r, "abandoned") /\ r \in Resources
  BY WorldAssumption DEF MaySettle, Settled
<1>2. CASE SetResource(t, a, r, "abandoned") /\ Again(t)
  <2>1. Effect(t)
    BY <1>1, <1>2, Settling1
  <2>2. QED
    BY <1>2, <2>1, ObservingAgain DEF FreePcs
<1>3. CASE /\ SetResource(t, a, r, "ambiguous")
           /\ cmd' = [cmd EXCEPT ![t].att = a,
                                 ![t].pc = IF r = "herdr" THEN "abandon_herdr"
                                                          ELSE "abandon_worktree"]
  <2> DEFINE pc == IF r = "herdr" THEN "abandon_herdr" ELSE "abandon_worktree"
  <2>1. \/ r = "herdr" /\ pc = "abandon_herdr"
        \/ r = "worktree" /\ pc = "abandon_worktree"
    OBVIOUS
  <2>2. cmd' = [cmd EXCEPT ![t].att = a, ![t].pc = pc]
    BY <1>3
  <2> HIDE DEF pc
  <2>3. Effect(t)
    BY <1>1, <1>3, Settling1
  <2>4. QED
    BY <2>1, <2>2, <2>3, Observing
<1>4. QED
  BY <1>2, <1>3 DEF Abandon

(* A reconciliation starts.                                                  *)
LEMMA StartingReconcileKeeps ==
    ASSUME NEW t \in Tasks, LifecycleInv, NEW attest \in Attestations, StartReconcile(t, attest)
    PROVE  Kept
<1> DEFINE c == [Idle EXCEPT !.op = "reconcile", !.pc = "observe", !.attest = attest]
<1>1. Effect(t) /\ cmd' = [cmd EXCEPT ![t] = c]
  BY SaysNothing DEF StartReconcile, LocalOnly
<1>2. Idle \in Command /\ Idle.lease = NoLease
  BY CommandColumns DEF LifecycleInv, CommandsTyped, Idle
<1>3. c \in Command /\ c.pc = "observe" /\ c.lease = NoLease
  BY <1>2 DEF Command, Operations, Pcs, FreePcs
<1> HIDE DEF c
<1>4. CommandsTyped' /\ Stage(t)'
  BY <1>1, <1>3, Rests DEF LifecycleInv, FreePcs
<1>5. QED
  BY <1>1, <1>3, <1>4, Turning DEF Turns

(* It finds nothing to do, or a note it can take back.                       *)
LEMMA LookingKeeps ==
    ASSUME NEW t \in Tasks, LifecycleInv, ObserveNothing(t) \/ ClearResolved(t)
    PROVE  Kept
<1>1. CASE ObserveNothing(t)
  BY <1>1, SaysNothing, Leaving DEF ObserveNothing, LocalOnly
<1>2. CASE ClearResolved(t)
  <2>1. task[t].repair \in ReconcileCodes
    BY <1>2 DEF ClearResolved, RepairResolved, ReconcileCodes
  <2>2. QED
    BY <1>2, <2>1, Clearing DEF ClearResolved, At, StoreOnly
<1>3. QED
  BY <1>1, <1>2

(* The pane of the attempt it settles.                                       *)
LEMMA SettlingPaneKeeps ==
    ASSUME NEW t \in Tasks, NEW a \in Attempts, LifecycleInv, SettlePane(t, a)
    PROVE  Kept
<1> DEFINE codes == {"teardown-resource-ambiguous", "herdr-ownership-mismatch"}
<1>1. UNCHANGED external /\ Settling(t, a) /\ PaneUnsettled(a)
  BY DEF SettlePane, StoreOnly
<1>2. cmd[t].pc = "observe" /\ attempt[a].owner = t /\ Closed(attempt[a])
  BY <1>1, SettlingFacts
<1>3. /\ attempt[a].herdr # NoPane
      /\ attempt[a].herdr \in Panes /\ Opened(attempt[a].herdr)
  BY <1>1, RowFacts DEF PaneUnsettled
<1>4. codes \subseteq ReconcileCodes /\ "teardown-resource-ambiguous" \in ReconcileCodes
  BY DEF ReconcileCodes, PaneCodes
<1>5. ASSUME NEW pc \in {"pane_closed", "close_settled"},
             pc = "pane_closed" => Gone(attempt[a].herdr),
             ClearOr(t, a, codes, ClaimThen(t, a, "herdr", {""}, pc))
      PROVE  Kept
  <2>1. CASE Clearable(t, a, codes) /\ ClearTaskRepair(t, task[t].repair) /\ Again(t)
    BY <1>1, <1>2, <1>4, <2>1, Clearing DEF Clearable
  <2>2. CASE ClaimThen(t, a, "herdr", {""}, pc)
    BY <1>1, <1>2, <1>3, <1>5, <2>2, Claiming
  <2>3. QED
    BY <1>5, <2>1, <2>2 DEF ClearOr
<1>6. ASSUME NEW seen \in PaneSeen(attempt[a].herdr),
             CASE seen = "unknown" -> Leave(t) /\ UNCHANGED storeVars
               [] seen = "mismatch" ->
                     IF cmd[t].attest = "pane" THEN Abandon(t, a, "herdr")
                     ELSE Diagnose(t, "teardown-resource-ambiguous", a)
               [] seen = "absent" ->
                     ClearOr(t, a, codes, ClaimThen(t, a, "herdr", {""}, "pane_closed"))
               [] seen \in {"agent", "shell"} ->
                     ClearOr(t, a, codes, ClaimThen(t, a, "herdr", {""}, "close_settled"))
      PROVE  Kept
  <2>1. /\ seen \in {"unknown", "agent", "shell", "absent", "mismatch"}
        /\ seen \in {"absent", "mismatch"} => Gone(attempt[a].herdr)
    BY <1>3, PanesSeen DEF LifecycleInv
  <2>2. CASE seen = "unknown"
    <3>1. Leave(t) /\ UNCHANGED storeVars
      BY <1>6, <2>2
    <3>2. QED
      BY <1>1, <3>1, SaysNothing, Leaving
  <2>3. CASE seen = "mismatch"
    <3>1. Abandon(t, a, "herdr") \/ Diagnose(t, "teardown-resource-ambiguous", a)
      BY <1>6, <2>3
    <3>2. QED
      BY <1>1, <1>2, <1>3, <1>4, <2>1, <2>3, <3>1, Abandoning, Diagnosing
  <2>4. CASE seen = "absent"
    <3>1. ClearOr(t, a, codes, ClaimThen(t, a, "herdr", {""}, "pane_closed"))
      BY <1>6, <2>4
    <3>2. QED
      BY <1>5, <2>1, <2>4, <3>1
  <2>5. CASE seen \in {"agent", "shell"}
    <3>1. ClearOr(t, a, codes, ClaimThen(t, a, "herdr", {""}, "close_settled"))
      BY <1>6, <2>5
    <3>2. QED
      BY <1>5, <3>1
  <2>6. QED
    BY <2>1, <2>2, <2>3, <2>4, <2>5
<1>7. QED
  BY <1>6 DEF SettlePane

(* It closes the pane, or returns the worktree, of an attempt that is over.  *)
LEMMA ClosingSettledKeeps ==
    ASSUME NEW t \in Tasks, LifecycleInv, CloseSettled(t) \/ ReturnSettled(t)
    PROVE  Kept
<1> DEFINE a == cmd[t].att
<1>1. cmd[t].pc \in {"close_settled", "return_settled"} /\ UNCHANGED storeVars
  BY DEF CloseSettled, ReturnSettled, At, WorldOnly
<1>2. CASE CloseSettled(t)
  <2>1. cmd[t].pc = "close_settled" /\ cmd[t].pc \in ClosingPcs /\ cmd[t].pc \in PanePcs
    BY <1>2 DEF CloseSettled, At, ClosingPcs, PanePcs
  <2>2. attempt[a].herdr \in Panes /\ Opened(attempt[a].herdr)
    BY <2>1, ClosingFacts
  <2>3. ASSUME NEW result \in {"ok", "error"}, CloseTab(attempt[a].herdr, result),
               Goto(t, IF result = "ok" THEN "pane_closed" ELSE "pane_unclosed")
        PROVE  Kept
    <3>1. Fades /\ WorldTyped' /\ (result = "ok" => pane'[attempt[a].herdr].state = "gone")
      BY <2>2, <2>3, ClosingFades DEF LifecycleInv
    <3>2. Effect(t)
      BY <1>1, <3>1 DEF Effect, Acts
    <3>3. QED
      BY <2>1, <2>3, <3>1, <3>2, ClosingGoto DEF ClosingEdges
  <2>4. QED
    BY <1>2, <2>3 DEF CloseSettled
<1>3. CASE ReturnSettled(t)
  <2>1. /\ cmd[t].pc = "return_settled" /\ cmd[t].pc \in ClosingPcs
        /\ cmd[t].pc \in WorktreePcs
    BY <1>3 DEF ReturnSettled, At, ClosingPcs, WorktreePcs
  <2>2. attempt[a].worktree \in Leases /\ Issued(attempt[a].worktree)
    BY <2>1, ClosingFacts
  <2>3. ASSUME NEW result \in {"ok", "aborted", "error"},
               ReturnLease(attempt[a].worktree, FALSE, result)
        PROVE  /\ Effect(t)
               /\ result = "ok" => lease'[attempt[a].worktree] = "free"
    <3>1. Fades /\ WorldTyped' /\ (result = "ok" => lease'[attempt[a].worktree] = "free")
      BY <2>2, <2>3, ReturningFades DEF LifecycleInv
    <3>2. QED
      BY <1>1, <3>1 DEF Effect, Acts
  <2>4. CASE ReturnLease(attempt[a].worktree, FALSE, "ok") /\ Goto(t, "lease_returned")
    BY <2>1, <2>3, <2>4, ClosingGoto DEF ClosingEdges
  <2>5. ASSUME NEW result \in {"aborted", "error"},
               ReturnLease(attempt[a].worktree, FALSE, result), Leave(t)
        PROVE  Kept
    BY <2>3, <2>5, Leaving
  <2>6. QED
    BY <1>3, <2>4, <2>5 DEF ReturnSettled
<1>4. QED
  BY <1>2, <1>3

(* It records what came of them.                                             *)
LEMMA RecordingSettledKeeps ==
    ASSUME NEW t \in Tasks, LifecycleInv, RecordSettled(t) \/ RecordAbandoned(t)
    PROVE  Kept
<1> DEFINE a == cmd[t].att
<1>1. /\ cmd[t].pc \in {"pane_closed", "lease_returned", "pane_unclosed", "abandon_herdr",
                        "abandon_worktree"}
      /\ cmd[t].pc \in ClosingPcs /\ UNCHANGED external
      /\ cmd[t].pc \in {"pane_closed", "pane_unclosed", "abandon_herdr"} => cmd[t].pc \in PanePcs
      /\ cmd[t].pc \in {"lease_returned", "abandon_worktree"} => cmd[t].pc \in WorktreePcs
  BY DEF RecordSettled, RecordAbandoned, At, StoreOnly, ClosingPcs, PanePcs, WorktreePcs
<1>2. a \in Attempts /\ Closed(attempt[a]) /\ Resources = {"herdr", "worktree"}
  BY <1>1, ClosingFacts, WorldAssumption
<1>3. ASSUME NEW r \in {"herdr", "worktree"}, NEW next \in {"released", "ambiguous", "abandoned"},
             SetResource(t, a, r, next), Leave(t) \/ Again(t),
             \/ r = "herdr" /\ cmd[t].pc \in {"pane_closed", "abandon_herdr"}
             \/ r = "herdr" /\ cmd[t].pc = "pane_unclosed" /\ next = "ambiguous"
             \/ r = "worktree" /\ cmd[t].pc = "lease_returned"
             \/ r = "worktree" /\ cmd[t].pc = "abandon_worktree" /\ next = "abandoned"
      PROVE  Kept
  <2>1. /\ r = "herdr" => attempt[a].herdr # NoPane
        /\ r = "worktree" => attempt[a].worktree # NoLease
        /\ cmd[t].pc \in {"pane_closed", "abandon_herdr"} => Gone(attempt[a].herdr)
        /\ cmd[t].pc = "lease_returned" => Back(attempt[a].worktree)
    BY <1>1, <1>3, ClosingFacts
  <2>2. MaySettle(a, r, next)
    BY <1>2, <1>3, <2>1 DEF MaySettle, Settled
  <2>3. Effect(t)
    BY <1>1, <1>2, <1>3, <2>2, Settling1
  <2>4. QED
    BY <1>1, <1>3, <2>3, ObservingAgain
<1>4. CASE UNCHANGED storeVars /\ Leave(t)
  BY <1>1, <1>4, SaysNothing, Leaving
<1>5. CASE RecordSettled(t)
  BY <1>3, <1>4, <1>5 DEF RecordSettled, At, SetResourceOrRepeat
<1>6. CASE RecordAbandoned(t)
  BY <1>3, <1>6 DEF RecordAbandoned, At
<1>7. QED
  BY <1>5, <1>6

(* Its worktree.                                                             *)
LEMMA SettlingLeaseKeeps ==
    ASSUME NEW t \in Tasks, NEW a \in Attempts, LifecycleInv, SettleLease(t, a)
    PROVE  Kept
<1> DEFINE tree == WorkIn(attempt[a].worktree)
           foreign == {"worktree-ownership-mismatch", "worktree-ownership-unobservable"}
           unseen == LeaseCodes \ {"worktree-dirty"}
<1>1. UNCHANGED external /\ Settling(t, a) /\ LeaseUnsettled(a)
  BY DEF SettleLease, StoreOnly
<1>2. cmd[t].pc = "observe" /\ attempt[a].owner = t /\ Closed(attempt[a])
  BY <1>1, SettlingFacts
<1>3. /\ attempt[a].worktree # NoLease
      /\ attempt[a].worktree \in Leases /\ Issued(attempt[a].worktree)
  BY <1>1, RowFacts DEF LeaseUnsettled
<1>4. /\ foreign \subseteq ReconcileCodes /\ unseen \subseteq ReconcileCodes
      /\ LeaseCodes \subseteq ReconcileCodes
      /\ {"worktree-ownership-unobservable", "worktree-dirty", "worktree-local-commits",
          "worktree-commit-safety-unknown"} \subseteq ReconcileCodes
  BY DEF ReconcileCodes, LeaseCodes
<1>5. ASSUME NEW codes \in SUBSET ReconcileCodes, NEW from,
             NEW pc \in {"lease_returned", "return_settled"},
             pc = "lease_returned" => Back(attempt[a].worktree),
             ClearOr(t, a, codes, ClaimThen(t, a, "worktree", from, pc))
      PROVE  Kept
  <2>1. CASE Clearable(t, a, codes) /\ ClearTaskRepair(t, task[t].repair) /\ Again(t)
    BY <1>1, <1>2, <2>1, Clearing DEF Clearable
  <2>2. CASE ClaimThen(t, a, "worktree", from, pc)
    BY <1>1, <1>2, <1>3, <1>5, <2>2, Claiming
  <2>3. QED
    BY <1>5, <2>1, <2>2 DEF ClearOr
<1>6. ASSUME Abandon(t, a, "worktree")
      PROVE  Kept
  BY <1>1, <1>2, <1>3, <1>6, Abandoning
<1>7. ASSUME ClearOr(t, a, foreign, Abandon(t, a, "worktree"))
      PROVE  Kept
  <2>1. CASE Clearable(t, a, foreign) /\ ClearTaskRepair(t, task[t].repair) /\ Again(t)
    BY <1>1, <1>2, <1>4, <2>1, Clearing DEF Clearable
  <2>2. QED
    BY <1>6, <1>7, <2>1 DEF ClearOr
<1>8. ASSUME NEW code \in {"worktree-ownership-unobservable", "worktree-dirty",
                           "worktree-local-commits", "worktree-commit-safety-unknown"},
             Diagnose(t, code, a)
      PROVE  Kept
  BY <1>1, <1>4, <1>8, Diagnosing
<1>9. ASSUME NEW seen \in LeaseSeen(attempt[a].worktree)
      PROVE  /\ seen \in {"unknown", "exact", "absent", "mismatch"}
             /\ seen = "absent" => Back(attempt[a].worktree)
  BY <1>3, LeasesSeen DEF LifecycleInv
<1>10. ASSUME NEW safety \in CommitSafety(tree),
              CASE safety = "local" -> Diagnose(t, "worktree-local-commits", a)
                [] safety = "unknown" -> Diagnose(t, "worktree-commit-safety-unknown", a)
                [] safety = "durable" ->
                     ClearOr(t, a, LeaseCodes,
                             ClaimThen(t, a, "worktree", {"", "ambiguous"}, "return_settled"))
       PROVE  Kept
  <2>1. safety \in {"local", "unknown", "durable"}
    BY DEF CommitSafety, Unobservable
  <2>2. CASE safety = "local"
    <3>1. Diagnose(t, "worktree-local-commits", a)
      BY <1>10, <2>2
    <3>2. QED
      BY <1>8, <3>1
  <2>3. CASE safety = "unknown"
    <3>1. Diagnose(t, "worktree-commit-safety-unknown", a)
      BY <1>10, <2>3
    <3>2. QED
      BY <1>8, <3>1
  <2>4. CASE safety = "durable"
    <3>1. ClearOr(t, a, LeaseCodes,
                  ClaimThen(t, a, "worktree", {"", "ambiguous"}, "return_settled"))
      BY <1>10, <2>4
    <3>2. QED
      BY <1>4, <1>5, <3>1
  <2>5. QED
    BY <2>1, <2>2, <2>3, <2>4
<1>11. PICK seen \in LeaseSeen(attempt[a].worktree) :
          \/ /\ seen = "unknown"
             /\ IF cmd[t].attest = "worktree" THEN Abandon(t, a, "worktree")
                ELSE Diagnose(t, "worktree-ownership-unobservable", a)
          \/ /\ seen = "mismatch"
             /\ ClearOr(t, a, foreign, Abandon(t, a, "worktree"))
          \/ /\ seen = "absent"
             /\ ClearOr(t, a, unseen, ClaimThen(t, a, "worktree", {}, "lease_returned"))
          \/ Diagnose(t, "worktree-dirty", a)
          \/ \E safety \in CommitSafety(tree) :
                CASE safety = "local" -> Diagnose(t, "worktree-local-commits", a)
                  [] safety = "unknown" -> Diagnose(t, "worktree-commit-safety-unknown", a)
                  [] safety = "durable" ->
                       ClearOr(t, a, LeaseCodes,
                               ClaimThen(t, a, "worktree", {"", "ambiguous"}, "return_settled"))
  BY DEF SettleLease
<1>12. CASE seen = "absent" /\
            ClearOr(t, a, unseen, ClaimThen(t, a, "worktree", {}, "lease_returned"))
  BY <1>4, <1>5, <1>9, <1>12
<1>13. QED
  BY <1>6, <1>7, <1>8, <1>10, <1>11, <1>12

(* Its completion record, and its end.                                       *)
LEMMA SettlingCompletionKeeps ==
    ASSUME NEW t \in Tasks, NEW a \in Attempts, LifecycleInv, SettleCompletion(t, a)
    PROVE  Kept
<1>1. UNCHANGED external /\ Settling(t, a)
  BY DEF SettleCompletion
<1>2. cmd[t].pc = "observe" /\ attempt[a].owner = t /\ Closed(attempt[a])
  BY <1>1, SettlingFacts
<1>3. ASSUME QuietCall(t, a) \/ UNCHANGED storeVars, Leave(t) \/ Again(t)
      PROVE  Kept
  <2>1. Effect(t)
    BY <1>1, <1>3, SaysQuietly, SaysNothing
  <2>2. QED
    BY <1>2, <1>3, <2>1, ObservingAgain DEF FreePcs
<1>4. ASSUME NEW next \in {"pending", "appended"},
             SetAttemptTeardownCompletionState(t, a, attempt[a].life, next)
      PROVE  QuietCall(t, a)
  BY <1>4 DEF QuietCall
<1>5. CASE /\ UNCHANGED storeVars
           /\ cmd' = [cmd EXCEPT ![t].att = a, ![t].pc = "settled_appended"]
  BY <1>1, <1>2, <1>5, SaysNothing, Observing
<1>6. ASSUME TerminalizeTaskAndAttempt(t, a, attempt[a].life, attempt[a].decided)
      PROVE  QuietCall(t, a)
  <2>1. attempt[a].decided \in {"completed", "interrupted"}
    BY <1>6, RowFacts DEF TerminalizeTaskAndAttempt, ValidAttemptTransition, TerminalStates,
       AttemptRow
  <2>2. QED
    BY <1>6, <2>1 DEF QuietCall
<1>7. CASE ClearTaskRepair(t, task[t].repair) /\ Again(t)
                /\ Clearable(t, a, {"completion-evidence-mismatch"})
  <2>1. task[t].repair \in ReconcileCodes
    BY <1>7 DEF Clearable, ReconcileCodes
  <2>2. QED
    BY <1>1, <1>2, <1>7, <2>1, Clearing
<1>8. CASE Diagnose(t, "completion-evidence-mismatch", a)
  <2>1. "completion-evidence-mismatch" \in ReconcileCodes
    BY DEF ReconcileCodes
  <2>2. QED
    BY <1>1, <1>8, <2>1, Diagnosing
<1>9. \/ /\ SetAttemptTeardownCompletionState(t, a, attempt[a].life, "pending")
         /\ Again(t)
      \/ /\ UNCHANGED storeVars
         /\ \/ cmd' = [cmd EXCEPT ![t].att = a, ![t].pc = "settled_appended"]
            \/ Leave(t)
      \/ /\ SetAttemptTeardownCompletionState(t, a, attempt[a].life, "appended")
         /\ Again(t)
      \/ Diagnose(t, "completion-evidence-mismatch", a)
      \/ ClearTaskRepair(t, task[t].repair) /\ Again(t)
             /\ Clearable(t, a, {"completion-evidence-mismatch"})
      \/ TerminalizeTaskAndAttempt(t, a, attempt[a].life, attempt[a].decided) /\ Again(t)
  BY DEF SettleCompletion, ClearOr
<1>10. QED
  BY <1>3, <1>4, <1>5, <1>6, <1>7, <1>8, <1>9

(* It writes the record of an attempt, and ends it.                          *)
LEMMA TerminalizingKeeps ==
    ASSUME NEW t \in Tasks, LifecycleInv,
           \/ RecordSettledCompletion(t) \/ EndPending(t) \/ EndAppend(t)
           \/ EndAppended(t) \/ EndAttempt(t)
    PROVE  Kept
<1> DEFINE a == cmd[t].att
<1>1. /\ cmd[t].pc \in {"settled_appended", "end_pending", "end_append", "end_appended", "end"}
      /\ cmd[t].pc \in ClosingPcs /\ UNCHANGED external
  BY DEF RecordSettledCompletion, EndPending, EndAppend, EndAppended, EndAttempt, At, StoreOnly,
     ClosingPcs, RecordPcs
<1>2. a \in Attempts
  BY <1>1, ClosingFacts
<1>3. ASSUME NEW next \in {"pending", "appended"},
             SetAttemptTeardownCompletionState(t, a, attempt[a].life, next)
      PROVE  Effect(t)
  <2>1. QuietCall(t, a)
    BY <1>3 DEF QuietCall
  <2>2. QED
    BY <1>1, <1>2, <2>1, SaysQuietly
<1>4. CASE RecordSettledCompletion(t)
  BY <1>1, <1>3, <1>4, ObservingAgain DEF RecordSettledCompletion
<1>5. CASE EndPending(t)
  BY <1>3, <1>5, ClosingGoto DEF EndPending, At, ClosingEdges
<1>6. CASE EndAppend(t)
  <2>1. cmd[t].pc = "end_append" /\ Effect(t) /\ (Goto(t, "end_appended") \/ Leave(t))
    BY <1>1, <1>6, SaysNothing DEF EndAppend, At
  <2>2. QED
    BY <2>1, Leaving, ClosingGoto DEF ClosingEdges
<1>7. CASE EndAppended(t)
  BY <1>3, <1>7, ClosingGoto DEF EndAppended, At, ClosingEdges
<1>8. CASE EndAttempt(t)
  <2>1. TerminalizeTaskAndAttempt(t, a, attempt[a].life, attempt[a].decided) /\ Again(t)
    BY <1>8 DEF EndAttempt
  <2>2. attempt[a].decided \in {"completed", "interrupted"}
    BY <1>2, <2>1, RowFacts DEF TerminalizeTaskAndAttempt, ValidAttemptTransition,
       TerminalStates, AttemptRow
  <2>3. QuietCall(t, a)
    BY <2>1, <2>2 DEF QuietCall
  <2>4. Effect(t)
    BY <1>1, <1>2, <2>3, SaysQuietly
  <2>5. QED
    BY <1>1, <2>1, <2>4, ObservingAgain
<1>9. QED
  BY <1>4, <1>5, <1>6, <1>7, <1>8

(* What reconcile makes of an attempt nobody has decided about.              *)
LEMMA Verdicts ==
    ASSUME NEW a \in Attempts, attempt[a].life \in LiveStates,
           NEW seenLease, NEW seenPane, NEW landing, NEW verdict,
           verdict = Decide(a, seenLease, seenPane, landing),
           attempt[a].life = "running" => seenPane \in {"agent", "absent", "mismatch", "shell"}
    PROVE  /\ verdict \in ReconcileCodes \union
                  {"converge-landed", "converge-unlanded", "unwind",
                   "keep", "confirm-launch", "mark-running", "continue-provisioning"}
           /\ verdict = "continue-provisioning" =>
                 attempt[a].life = "provisioning" /\ attempt[a].herdr = NoPane
           /\ verdict = "mark-running" => attempt[a].herdr # NoPane
<1>1. CASE attempt[a].life = "running"
  <2>1. DecideRunning(seenPane) \in {"keep", "running-pane-missing",
                                     "running-pane-identity-mismatch", "launch-agent-mismatch"}
    BY <1>1 DEF DecideRunning
  <2>2. QED
    BY <1>1, <2>1 DEF Decide, ReconcileCodes, PaneCodes, LeaseCodes
<1>2. CASE attempt[a].life = "provisioning"
  <2>1. /\ DecideProvisioning(a, seenPane) \in
              {"provisioning-launch-ambiguous", "launch-submitted-pane-missing",
               "herdr-ownership-mismatch", "launch-agent-mismatch", "mark-running",
               "confirm-launch", "unwind", "provisioning-pane-missing", "worktree-dirty",
               "continue-provisioning"}
        /\ DecideProvisioning(a, seenPane) = "continue-provisioning" => attempt[a].herdr = NoPane
        /\ DecideProvisioning(a, seenPane) = "mark-running" => attempt[a].herdr # NoPane
    <3>1. CASE attempt[a].herdr = NoPane
      BY <3>1 DEF DecideProvisioning
    <3>2. CASE attempt[a].herdr # NoPane /\ ~attempt[a].submitted
      BY <3>2 DEF DecideProvisioning
    <3>3. CASE attempt[a].herdr # NoPane /\ attempt[a].submitted /\ seenPane = "absent"
      BY <3>3 DEF DecideProvisioning
    <3>4. CASE attempt[a].herdr # NoPane /\ attempt[a].submitted /\ seenPane = "mismatch"
      BY <3>4 DEF DecideProvisioning
    <3>5. CASE attempt[a].herdr # NoPane /\ attempt[a].submitted /\ seenPane = "shell"
      BY <3>5 DEF DecideProvisioning
    <3>6. CASE attempt[a].herdr # NoPane /\ attempt[a].submitted
               /\ seenPane \notin {"absent", "mismatch", "shell"}
      BY <3>6 DEF DecideProvisioning
    <3>7. QED
      BY <3>1, <3>2, <3>3, <3>4, <3>5, <3>6
  <2>2. QED
    BY <1>2, <2>1 DEF Decide, ReconcileCodes, PaneCodes, LeaseCodes
<1>3. QED
  BY <1>1, <1>2 DEF LiveStates

(* What it knows of an attempt nobody decided to end.                        *)
LEMMA UndecidedFacts ==
    ASSUME NEW t \in Tasks, NEW a \in Attempts, LifecycleInv, Undecided(t, a)
    PROVE  /\ cmd[t].pc = "observe" /\ cmd[t].lease = NoLease
           /\ attempt[a].owner = t /\ attempt[a].life \in LiveStates
           /\ attempt[a].decided = ""
<1>1. a # NoAttempt
  BY StoreAssumption DEF Attempts
<1>2. cmd[t].pc = "observe" /\ attempt[a].decided = "" /\ a = task[t].active
  BY DEF Undecided, At
<1>3. cmd[t].pc \notin LeasePcs
  BY <1>2 DEF LeasePcs, RunPcs
<1>4. cmd[t].lease = NoLease
  BY <1>3 DEF LifecycleInv, Stages, Stage, LaunchStage
<1>5. QED
  BY <1>1, <1>2, <1>4, ActiveFacts

(* The operator attests to what cannot be observed.                          *)
LEMMA AttestingKeeps ==
    ASSUME NEW t \in Tasks, NEW a \in Attempts, LifecycleInv, AttestNeverStarted(t, a)
    PROVE  Kept
<1>1. cmd[t].pc = "observe" /\ UNCHANGED external
  BY UndecidedFacts DEF AttestNeverStarted, StoreOnly
<1>2. CASE SetAttemptTeardownDecision(t, a, "interrupted", "worker-never-started") /\ Again(t)
  <2>1. QuietCall(t, a)
    BY <1>2 DEF QuietCall, TeardownDispositions
  <2>2. QED
    BY <1>1, <1>2, <2>1, SaysQuietly, ObservingAgain DEF FreePcs
<1>3. CASE UNCHANGED storeVars /\ Leave(t)
  BY <1>1, <1>3, SaysNothing, Leaving
<1>4. QED
  BY <1>2, <1>3 DEF AttestNeverStarted

(* It goes on with the launch of an attempt, from what the row records.      *)
LEMMA ContinuingKeeps ==
    ASSUME NEW t \in Tasks, NEW a \in Attempts, LifecycleInv, Undecided(t, a),
           attempt[a].life = "provisioning", attempt[a].herdr = NoPane,
           UNCHANGED storeVars, UNCHANGED external,
           cmd' = [cmd EXCEPT ![t] = Launch("reconcile", a, attempt[a].worktree)]
    PROVE  Kept
<1>1. /\ attempt[a].owner = t /\ attempt[a].decided = "" /\ attempt' = attempt /\ lease' = lease
  BY UndecidedFacts DEF storeVars, external
<1>2. PICK l \in Leases \union {NoLease} : l = attempt[a].worktree
  BY RowFacts DEF AttemptRow
<1>3. Idle \in Command
  BY CommandColumns DEF LifecycleInv, CommandsTyped
<1>4. PICK c \in Command : c = Launch("reconcile", a, l)
  <2>1. PICK resume \in BOOLEAN : resume = (l # NoLease)
    OBVIOUS
  <2>2. PICK pc \in {"get", "check"} : pc = IF l = NoLease THEN "get" ELSE "check"
    OBVIOUS
  <2>3. pc \in Pcs /\ "reconcile" \in Operations
    BY <2>2 DEF Operations, Pcs, ShipPcs, LaunchPcs, LeasePcs
  <2>4. [Idle EXCEPT !.op = "reconcile", !.att = a, !.lease = l, !.resume = resume, !.pc = pc]
            \in Command
    BY <1>2, <1>3, <2>1, <2>3 DEF Command
  <2>5. QED
    BY <2>1, <2>2, <2>4 DEF Launch
<1>5. /\ c.att = a /\ c.lease = l
      /\ c.pc = IF l = NoLease THEN "get" ELSE "check"
  BY <1>4 DEF Launch, Idle
<1>6. cmd' = [cmd EXCEPT ![t] = c]
  BY <1>2, <1>4
<1>7. Effect(t)
  BY SaysNothing
<1>8. l # NoLease => l \in Leases /\ lease[l] # "unissued"
  BY <1>2, RowFacts DEF Issued
<1>9. /\ c.pc \in {"launch"} \union LaunchPcs
      /\ c.pc \notin RunPcs \union {"herdr"} /\ c.pc \notin {"record", "clear_pane", "clear_lease"}
      /\ c.pc \in LeasePcs <=> l # NoLease
  BY <1>5 DEF LaunchPcs, LeasePcs, RunPcs
<1>10. CommandsTyped' /\ Stage(t)'
  <2>1. IF c.pc \in LeasePcs THEN c.lease \in Leases /\ lease'[c.lease] # "unissued"
                             ELSE c.lease = NoLease
    BY <1>1, <1>5, <1>8, <1>9
  <2>2. /\ c.att \in Attempts /\ attempt'[c.att].owner = t
        /\ attempt'[c.att].life = "provisioning" /\ attempt'[c.att].decided = ""
        /\ attempt'[c.att].worktree = c.lease /\ attempt'[c.att].herdr = NoPane
    BY <1>1, <1>2, <1>5
  <2>3. QED
    BY <1>6, <1>9, <2>1, <2>2, Launches DEF LifecycleInv
<1>11. QED
  BY <1>2, <1>5, <1>6, <1>7, <1>10, Turning DEF Turns

(* What it makes of an attempt that is alive.                                *)
LEMMA ObservingActiveKeeps ==
    ASSUME NEW t \in Tasks, NEW a \in Attempts, LifecycleInv, ObserveActive(t, a)
    PROVE  Kept
<1>1. /\ UNCHANGED external /\ Undecided(t, a)
      /\ cmd[t].pc = "observe" /\ attempt[a].owner = t /\ attempt[a].life \in LiveStates
      /\ attempt[a].decided = ""
  BY UndecidedFacts DEF ObserveActive, StoreOnly
<1>2. PICK seenLease \in (IF attempt[a].worktree = NoLease THEN {"none"}
                          ELSE LeaseSeen(attempt[a].worktree)),
           seenPane \in (IF \/ attempt[a].herdr = NoPane
                            \/ attempt[a].life = "provisioning" /\ ~attempt[a].submitted
                         THEN {"none"} ELSE PaneSeen(attempt[a].herdr)),
           landing \in Landing(t) :
           LET verdict == Decide(a, seenLease, seenPane, landing) IN
           IF seenPane = "unknown" THEN Leave(t) /\ UNCHANGED storeVars
           ELSE IF verdict \in ReconcileCodes THEN Diagnose(t, verdict, a)
           ELSE IF verdict \in DOMAIN Endings
           THEN /\ SetAttemptTeardownDecision(t, a, Endings[verdict][1], Endings[verdict][2])
                /\ cmd' = [cmd EXCEPT ![t].att = a, ![t].pc = "end_pending"]
           ELSE IF Outdated(t, a, seenLease, seenPane)
           THEN ClearTaskRepair(t, task[t].repair) /\ Again(t)
           ELSE IF task[t].repair # "" THEN Leave(t) /\ UNCHANGED storeVars
           ELSE Apply(t, a, verdict)
  BY DEF ObserveActive
<1> DEFINE verdict == Decide(a, seenLease, seenPane, landing)
<1>3. QuietCall(t, a) \/ UNCHANGED storeVars => Effect(t)
  BY <1>1, SaysQuietly, SaysNothing
<1>4. CASE Leave(t) /\ UNCHANGED storeVars
  BY <1>3, <1>4, Leaving
<1>5. CASE seenPane # "unknown"
  <2>1. attempt[a].life = "running" => seenPane \in {"agent", "absent", "mismatch", "shell"}
    <3>1. attempt[a].life = "running" => attempt[a].herdr # NoPane
      BY DEF LifecycleInv, RowsOK, RowOK
    <3>2. attempt[a].herdr # NoPane => attempt[a].herdr \in Panes /\ Opened(attempt[a].herdr)
      BY RowFacts
    <3>3. attempt[a].life = "running" => seenPane \in PaneSeen(attempt[a].herdr)
      BY <1>2, <3>1
    <3>4. WorldTyped
      BY DEF LifecycleInv
    <3>5. QED
      BY <1>5, <3>1, <3>2, <3>3, <3>4, PanesSeen
  <2>2. /\ verdict \in ReconcileCodes \union
              {"converge-landed", "converge-unlanded", "unwind",
               "keep", "confirm-launch", "mark-running", "continue-provisioning"}
        /\ verdict = "continue-provisioning" =>
              attempt[a].life = "provisioning" /\ attempt[a].herdr = NoPane
        /\ verdict = "mark-running" => attempt[a].herdr # NoPane
    BY <1>1, <2>1, Verdicts
  <2>3. IF verdict \in ReconcileCodes THEN Diagnose(t, verdict, a)
        ELSE IF verdict \in DOMAIN Endings
        THEN /\ SetAttemptTeardownDecision(t, a, Endings[verdict][1], Endings[verdict][2])
             /\ cmd' = [cmd EXCEPT ![t].att = a, ![t].pc = "end_pending"]
        ELSE IF Outdated(t, a, seenLease, seenPane)
        THEN ClearTaskRepair(t, task[t].repair) /\ Again(t)
        ELSE IF task[t].repair # "" THEN Leave(t) /\ UNCHANGED storeVars
        ELSE Apply(t, a, verdict)
    BY <1>2, <1>5
  <2> HIDE DEF verdict
  <2>4. CASE verdict \in ReconcileCodes
    BY <1>1, <2>3, <2>4, Diagnosing
  <2>5. CASE verdict \in DOMAIN Endings /\ verdict \notin ReconcileCodes
    <3> DEFINE terminal == Endings[verdict][1]
               why == Endings[verdict][2]
    <3>1. terminal \in {"completed", "interrupted"} /\ why \in TeardownDispositions
      BY <2>5 DEF Endings, TeardownDispositions
    <3>2. /\ SetAttemptTeardownDecision(t, a, terminal, why)
          /\ cmd' = [cmd EXCEPT ![t].att = a, ![t].pc = "end_pending"]
      BY <2>3, <2>5
    <3> HIDE DEF terminal, why
    <3>3. Effect(t)
      BY <1>3, <3>1, <3>2 DEF QuietCall
    <3>4. Closed(attempt'[a])
      <4>1. attempt'[a] = [attempt[a] EXCEPT !.decided = terminal, !.disposition = why]
        BY <3>2 DEF SetAttemptTeardownDecision, LifecycleInv, StoreInv, StoreTypeOK
      <4>2. attempt'[a].decided = terminal
        BY <4>1, RowFacts DEF AttemptRow
      <4>3. QED
        BY <3>1, <4>2 DEF Closed
    <3>5. QED
      BY <1>1, <3>2, <3>3, <3>4, Observing
  <2>6. CASE Outdated(t, a, seenLease, seenPane) /\ ClearTaskRepair(t, task[t].repair) /\ Again(t)
    <3>1. task[t].repair \in ReconcileCodes
      BY <2>6 DEF Outdated, ReconcileCodes, LeaseCodes
    <3>2. QED
      BY <1>1, <2>6, <3>1, Clearing
  <2>7. CASE Apply(t, a, verdict) /\ verdict \notin ReconcileCodes
             /\ verdict \notin DOMAIN Endings
    <3>1. verdict \in {"keep", "confirm-launch", "mark-running", "continue-provisioning"}
      BY <2>2, <2>7 DEF Endings
    <3>2. CASE verdict = "keep"
      BY <1>4, <2>7, <3>2 DEF Apply
    <3>3. CASE verdict = "confirm-launch"
      <4>1. (MarkLaunchConfirmed(t, a) /\ Again(t)) \/ (UNCHANGED storeVars /\ Leave(t))
        BY <2>7, <3>3 DEF Apply
      <4>2. Effect(t)
        BY <1>3, <4>1 DEF QuietCall
      <4>3. QED
        BY <1>1, <4>1, <4>2, ObservingAgain DEF FreePcs
    <3>4. CASE verdict = "mark-running"
      <4>1. MarkAttemptRunning(t, a) /\ Again(t)
        BY <2>7, <3>4 DEF Apply
      <4>2. Effect(t)
        BY <1>3, <2>2, <3>4, <4>1 DEF QuietCall
      <4>3. QED
        BY <1>1, <4>1, <4>2, ObservingAgain DEF FreePcs
    <3>5. CASE verdict = "continue-provisioning"
      <4>1. /\ cmd' = [cmd EXCEPT ![t] = Launch("reconcile", a, attempt[a].worktree)]
            /\ UNCHANGED storeVars
        BY <2>7, <3>5 DEF Apply
      <4>2. QED
        BY <1>1, <2>2, <3>5, <4>1, ContinuingKeeps
    <3>6. QED
      BY <3>1, <3>2, <3>3, <3>4, <3>5
  <2>8. QED
    BY <1>4, <2>3, <2>4, <2>5, <2>6, <2>7
<1>6. QED
  BY <1>2, <1>4, <1>5

(* Every step of a reconciliation.                                           *)
LEMMA ReconcileKeeps ==
    ASSUME NEW t \in Tasks, LifecycleInv, ReconcileStep(t)
    PROVE  Kept
BY StartingReconcileKeeps, LookingKeeps, SettlingPaneKeeps, ClosingSettledKeeps,
   RecordingSettledKeeps, SettlingLeaseKeeps, SettlingCompletionKeeps, TerminalizingKeeps,
   AttestingKeeps, ObservingActiveKeeps DEF ReconcileStep

-----------------------------------------------------------------------------
(* The steps that bring something new: an attempt, a lease, a pane, a        *)
(* worker, or the record of one.                                             *)

(* They keep the invariant when they keep its parts.                         *)
LEMMA NewsKeep ==
    ASSUME NEW t \in Tasks, LifecycleInv, [StoreNext]_storeVars,
           CommandsTyped', Stage(t)', WorldTyped', Moves,
           \A s \in Tasks \ {t} : cmd'[s] = cmd[s],
           \A a \in Attempts : attempt'[a] = attempt[a] \/ attempt[a].owner \in {t, NoTask},
           RowsOK', Recorded', Apart', ReleasedForGood', AgentsAreClaimed'
    PROVE  Kept
<1>1. StoreInv'
  BY StoreInvInductive DEF LifecycleInv
<1>2. Stages'
  BY StagesKeep
<1>3. QED
  BY <1>1, <1>2 DEF Kept, LifecycleInv

(* The row of a launch is written: what it names was handed out, and was in  *)
(* the hands of its command; what it forgets is gone.                        *)
LEMMA Provisions ==
    ASSUME NEW t \in Tasks, NEW a \in Attempts, LifecycleInv, StoreNext, UNCHANGED external,
           attempt[a].owner = t, NEW row, attempt' = [attempt EXCEPT ![a] = row],
           row.life = "provisioning", row.decided = "",
           row.settle["herdr"] = "", row.settle["worktree"] = "",
           attempt[a].settle["herdr"] = "", attempt[a].settle["worktree"] = "",
           row.worktree # NoLease =>
               /\ row.worktree \in Leases /\ Issued(row.worktree)
               /\ Holds(a, row.worktree),
           row.herdr # NoPane =>
               /\ row.herdr \in Panes /\ Opened(row.herdr)
               /\ Holds(a, pane[row.herdr].cwd),
           \/ row.herdr = attempt[a].herdr
           \/ attempt[a].herdr = NoPane
           \/ Gone(attempt[a].herdr),
           \A s \in Tasks \ {t} : cmd'[s] = cmd[s],
           LeaseKept(t), CommandsTyped', Stage(t)'
    PROVE  Kept
<1>1. attempt'[a] = row /\ \A b \in Attempts \ {a} : attempt'[b] = attempt[b]
  BY DEF LifecycleInv, StoreInv, StoreTypeOK
<1>2. lease' = lease /\ pane' = pane
  BY DEF external
<1>3. Moves /\ WorldTyped'
  BY StillFades DEF Fades, external, LifecycleInv, WorldTyped
<1>4. RowOK(row)
  BY DEF RowOK, TerminalStates
<1>5. RowsOK'
  <2>1. ASSUME NEW b \in Attempts \ {a}
        PROVE  RowOK(attempt'[b])
    BY <1>1 DEF LifecycleInv, RowsOK
  <2>2. RowOK(attempt'[a])
    BY <1>1, <1>4
  <2>3. QED
    BY <2>1, <2>2 DEF RowsOK
<1>6. Recorded'
  <2>1. \A b \in Attempts :
            /\ attempt'[b].worktree # NoLease => Issued(attempt'[b].worktree)
            /\ attempt'[b].herdr # NoPane => Opened(attempt'[b].herdr)
    BY <1>1 DEF LifecycleInv, Recorded
  <2>2. QED
    BY <1>2, <2>1 DEF LifecycleInv, Recorded, Issued, Opened
<1>7. Apart'
  <2>1. ASSUME NEW b \in Attempts, NEW l \in Leases, Holds(b, l)'
        PROVE  Holds(b, l)
    <3>1. ASSUME NEW s \in Tasks, cmd'[s].att = b, cmd'[s].lease = l
          PROVE  Holds(b, l)
      BY <3>1, StoreAssumption DEF Holds, LeaseKept
    <3>2. CASE attempt'[b].worktree = l
      <4>1. CASE b = a
        <5>1. row.worktree = l /\ l # NoLease
          BY <1>1, <3>2, <4>1, StoreAssumption
        <5>2. QED
          BY <4>1, <5>1
      <4>2. CASE b # a
        BY <1>1, <3>2, <4>2 DEF Holds
      <4>3. QED
        BY <4>1, <4>2
    <3>3. CASE attempt'[b].herdr # NoPane /\ pane[attempt'[b].herdr].cwd = l
      BY <1>1, <3>3 DEF Holds
    <3>4. QED
      BY <1>2, <2>1, <3>1, <3>2, <3>3 DEF Holds
  <2>2. QED
    BY <2>1 DEF LifecycleInv, Apart
<1>8. ReleasedForGood'
  <2>1. \A b \in Attempts :
            /\ attempt'[b].settle["worktree"] = "released" => Back(attempt'[b].worktree)
            /\ attempt'[b].settle["herdr"] = "released" => Gone(attempt'[b].herdr)
    BY <1>1 DEF LifecycleInv, ReleasedForGood
  <2>2. QED
    BY <1>2, <2>1 DEF ReleasedForGood, Back, Gone
<1>9. AgentsAreClaimed'
  <2> SUFFICES ASSUME NEW p \in Panes, pane[p].state = "agent"
               PROVE  \E b \in Attempts : attempt'[b].herdr = p /\ PaneUnsettled(b)'
    BY <1>2 DEF AgentsAreClaimed
  <2>1. PICK b \in Attempts : attempt[b].herdr = p /\ PaneUnsettled(b)
    BY DEF LifecycleInv, AgentsAreClaimed
  <2>2. CASE b # a
    BY <1>1, <2>1, <2>2 DEF PaneUnsettled
  <2>3. CASE b = a
    <3>1. row.herdr = p
      BY <2>1, <2>3, StoreAssumption DEF Gone
    <3>2. attempt'[a].herdr = p /\ attempt'[a].settle["herdr"] = ""
      BY <1>1, <3>1
    <3>3. QED
      BY <3>2, StoreAssumption DEF PaneUnsettled, Settled
  <2>4. QED
    BY <2>2, <2>3
<1>10. \A b \in Attempts : attempt'[b] = attempt[b] \/ attempt[b].owner \in {t, NoTask}
  BY <1>1
<1>11. QED
  BY <1>3, <1>5, <1>6, <1>7, <1>8, <1>9, <1>10, NewsKeep

(* A row that was just inserted.                                             *)
LEMMA NewRow ==
    ASSUME NEW t, NEW row, row = NewAttempt(t, "provisioning")
    PROVE  /\ row.owner = t /\ row.life = "provisioning" /\ row.decided = ""
           /\ row.worktree = NoLease /\ row.herdr = NoPane
           /\ row.settle["herdr"] = "" /\ row.settle["worktree"] = ""
<1>1. row.settle = [r \in Resources |-> ""]
  BY DEF NewAttempt
<1>2. "herdr" \in Resources /\ "worktree" \in Resources
  BY WorldAssumption
<1>3. row.settle["herdr"] = "" /\ row.settle["worktree"] = ""
  BY <1>1, <1>2
<1>4. QED
  BY <1>3 DEF NewAttempt

(* An attempt is born, of a task with no other live attempt, or in place of  *)
(* the scout.                                                                *)
LEMMA Births ==
    ASSUME NEW t \in Tasks, NEW a \in Attempts, LifecycleInv, StoreNext, UNCHANGED external,
           attempt[a].life = "absent", attempt'[a] = NewAttempt(t, "provisioning"),
           \A b \in Attempts \ {a} :
               \/ attempt'[b] = attempt[b]
               \/ /\ attempt[b].owner = t /\ attempt'[b].life = "completed"
                  /\ attempt'[b].worktree = attempt[b].worktree
                  /\ attempt'[b].herdr = attempt[b].herdr
                  /\ attempt'[b].settle = attempt[b].settle,
           \A s \in Tasks \ {t} : cmd'[s] = cmd[s],
           cmd'[t].lease = NoLease, CommandsTyped', Stage(t)'
    PROVE  Kept
<1>1. lease' = lease /\ pane' = pane
  BY DEF external
<1>2. Moves /\ WorldTyped'
  BY StillFades DEF Fades, external, LifecycleInv, WorldTyped
<1>3. /\ attempt[a].owner = NoTask /\ attempt[a].worktree = NoLease /\ attempt[a].herdr = NoPane
  BY DEF LifecycleInv, StoreInv, RowsAscending, RowsOK, RowOK
<1>4. /\ attempt'[a].life = "provisioning" /\ attempt'[a].decided = ""
      /\ attempt'[a].worktree = NoLease /\ attempt'[a].herdr = NoPane
      /\ attempt'[a].settle["herdr"] = "" /\ attempt'[a].settle["worktree"] = ""
  <2> DEFINE row == attempt'[a]
  <2>1. row = NewAttempt(t, "provisioning")
    OBVIOUS
  <2> HIDE DEF row
  <2>2. /\ row.life = "provisioning" /\ row.decided = ""
        /\ row.worktree = NoLease /\ row.herdr = NoPane
        /\ row.settle["herdr"] = "" /\ row.settle["worktree"] = ""
    BY ONLY <2>1, NewRow, ZenonT(60)
  <2>3. QED
    BY <2>2 DEF row
<1>5. RowsOK'
  <2>1. RowOK(attempt'[a])
    BY <1>4 DEF RowOK, TerminalStates
  <2>2. ASSUME NEW b \in Attempts \ {a}
        PROVE  RowOK(attempt'[b])
    <3>1. RowOK(attempt[b])
      BY DEF LifecycleInv, RowsOK
    <3>2. CASE attempt'[b] = attempt[b]
      BY <3>1, <3>2
    <3>3. CASE /\ attempt'[b].life = "completed"
               /\ attempt'[b].worktree = attempt[b].worktree
               /\ attempt'[b].herdr = attempt[b].herdr
               /\ attempt'[b].settle = attempt[b].settle
      BY <3>1, <3>3 DEF RowOK, TerminalStates
    <3>4. QED
      BY <3>2, <3>3
  <2>3. QED
    BY <2>1, <2>2 DEF RowsOK, RowOK
<1>6. \A b \in Attempts :
          /\ attempt'[b].worktree = attempt[b].worktree /\ attempt'[b].herdr = attempt[b].herdr
          /\ b # a => attempt'[b].settle = attempt[b].settle
  BY <1>3, <1>4
<1>7. Recorded'
  BY <1>1, <1>6 DEF LifecycleInv, Recorded, Issued, Opened
<1>8. Apart'
  <2>1. ASSUME NEW b \in Attempts, NEW l \in Leases, Holds(b, l)'
        PROVE  Holds(b, l)
    <3>1. ASSUME NEW s \in Tasks, cmd'[s].att = b, cmd'[s].lease = l
          PROVE  Holds(b, l)
      BY <3>1, StoreAssumption DEF Holds
    <3>2. QED
      BY <1>1, <1>6, <2>1, <3>1 DEF Holds
  <2>2. QED
    BY <2>1 DEF LifecycleInv, Apart
<1>9. ReleasedForGood'
  BY <1>1, <1>4, <1>6 DEF LifecycleInv, ReleasedForGood, Back, Gone
<1>10. AgentsAreClaimed'
  <2> SUFFICES ASSUME NEW p \in Panes, pane[p].state = "agent"
               PROVE  \E b \in Attempts : attempt'[b].herdr = p /\ PaneUnsettled(b)'
    BY <1>1 DEF AgentsAreClaimed
  <2>1. PICK b \in Attempts : attempt[b].herdr = p /\ PaneUnsettled(b)
    BY DEF LifecycleInv, AgentsAreClaimed
  <2>2. b # a
    BY <1>3, <2>1 DEF PaneUnsettled
  <2>3. QED
    BY <1>6, <2>1, <2>2 DEF PaneUnsettled
<1>11. \A b \in Attempts : attempt'[b] = attempt[b] \/ attempt[b].owner \in {t, NoTask}
  BY <1>3
<1>12. QED
  BY <1>2, <1>5, <1>7, <1>8, <1>9, <1>10, <1>11, NewsKeep

(* What the birth of an attempt leaves in its row.                           *)
LEMMA BornRow ==
    ASSUME NEW t \in Tasks, NEW a \in Attempts, attempt'[a] = NewAttempt(t, "provisioning")
    PROVE  /\ attempt'[a].owner = t
           /\ attempt'[a].life = "provisioning" /\ attempt'[a].decided = ""
           /\ attempt'[a].worktree = NoLease /\ attempt'[a].herdr = NoPane
<1> DEFINE row == attempt'[a]
<1>1. row = NewAttempt(t, "provisioning")
  OBVIOUS
<1> HIDE DEF row
<1>2. /\ row.owner = t /\ row.life = "provisioning" /\ row.decided = ""
      /\ row.worktree = NoLease /\ row.herdr = NoPane
  BY ONLY <1>1, NewRow, ZenonT(60)
<1>3. QED
  BY <1>2 DEF row

(* spawn and reopen.                                                         *)
LEMMA SpawningKeeps ==
    ASSUME NEW t \in Tasks, NEW a \in Attempts, LifecycleInv,
           \/ \E kind \in Kinds : StartSpawn(t, a, kind)
           \/ StartReopen(t, a)
    PROVE  Kept
<1>1. /\ attempt[a].life = "absent" /\ attempt' = [attempt EXCEPT ![a] = NewAttempt(t, "provisioning")]
      /\ Birth(t, a) /\ UNCHANGED external
  BY DEF StartSpawn, StartReopen, CreateTaskWithAttempt, ReopenTask, Insertable, Birth, StoreOnly
<1>2. /\ attempt'[a] = NewAttempt(t, "provisioning")
      /\ \A b \in Attempts \ {a} : attempt'[b] = attempt[b]
  BY <1>1 DEF LifecycleInv, StoreInv, StoreTypeOK
<1>3. /\ attempt'[a].owner = t
      /\ attempt'[a].life = "provisioning" /\ attempt'[a].decided = ""
      /\ attempt'[a].worktree = NoLease /\ attempt'[a].herdr = NoPane
  BY <1>2, BornRow
<1>4. StoreNext
  BY <1>1 DEF StoreNext
<1>5. PICK op \in {"spawn", "reopen"} : cmd' = [cmd EXCEPT ![t] = Launch(op, a, NoLease)]
  BY DEF StartSpawn, StartReopen
<1>6. PICK c \in Command : c = Launch(op, a, NoLease)
  <2>1. Idle \in Command /\ op \in Operations /\ "get" \in Pcs
    BY <1>5, CommandColumns DEF LifecycleInv, CommandsTyped, Operations, Pcs, ShipPcs, LaunchPcs
  <2>2. [Idle EXCEPT !.op = op, !.att = a, !.lease = NoLease, !.resume = FALSE, !.pc = "get"]
            \in Command
    BY <2>1 DEF Command
  <2>3. QED
    BY <2>2 DEF Launch
<1>7. c.att = a /\ c.lease = NoLease /\ c.pc = "get" /\ cmd' = [cmd EXCEPT ![t] = c]
  BY <1>5, <1>6 DEF Launch, Idle
<1>8. CommandsTyped' /\ Stage(t)'
  <2>1. /\ c.pc \in {"launch"} \union LaunchPcs /\ c.pc \notin LeasePcs
        /\ c.pc \notin RunPcs \union {"herdr"}
    BY <1>7 DEF LaunchPcs, LeasePcs, RunPcs
  <2>2. QED
    BY <1>3, <1>7, <2>1, Launches DEF LifecycleInv
<1>9. cmd'[t].lease = NoLease /\ \A s \in Tasks \ {t} : cmd'[s] = cmd[s]
  BY <1>7 DEF LifecycleInv, CommandsTyped
<1>10. QED
  BY <1>1, <1>2, <1>4, <1>8, <1>9, Births

(* promote.                                                                  *)
LEMMA PromotingKeeps ==
    ASSUME NEW t \in Tasks, NEW a \in Attempts, LifecycleInv, StartPromote(t, a)
    PROVE  Kept
<1> DEFINE scout == task[t].active
<1>1. /\ cmd[t] = Idle /\ scout # NoAttempt /\ UNCHANGED external
      /\ PromoteTask(t, scout, attempt[scout].life, a)
      /\ cmd' = [cmd EXCEPT ![t] = [Idle EXCEPT !.op = "promote", !.pc = "scout_pane",
                                                !.att = a, !.scout = scout]]
  BY DEF StartPromote, StoreOnly
<1>2. PICK s \in Attempts : s = scout
  BY <1>1, ActiveFacts
<1>3. /\ attempt[s].owner = t /\ attempt[s].life \in LiveStates /\ attempt[a].life = "absent"
      /\ s # a /\ attempt[s] \in AttemptRow
  BY <1>1, <1>2, ActiveFacts, RowFacts DEF PromoteTask, Insertable, LiveStates
<1>4. /\ attempt'[a] = NewAttempt(t, "provisioning")
      /\ attempt'[s] = [attempt[s] EXCEPT !.life = "completed"]
      /\ \A b \in Attempts \ {a, s} : attempt'[b] = attempt[b]
  BY <1>1, <1>2, <1>3 DEF PromoteTask, LifecycleInv, StoreInv, StoreTypeOK
<1>5. /\ attempt'[s].owner = t /\ attempt'[s].life = "completed"
      /\ attempt'[s].worktree = attempt[s].worktree /\ attempt'[s].herdr = attempt[s].herdr
      /\ attempt'[s].settle = attempt[s].settle
  BY <1>3, <1>4 DEF AttemptRow
<1>6. /\ attempt'[a].owner = t
      /\ attempt'[a].life = "provisioning" /\ attempt'[a].decided = ""
      /\ attempt'[a].worktree = NoLease /\ attempt'[a].herdr = NoPane
  BY <1>4, BornRow
<1>7. StoreNext
  BY <1>1, <1>2, <1>3 DEF StoreNext, Birth
<1>8. PICK c \in Command : c = [Idle EXCEPT !.op = "promote", !.pc = "scout_pane",
                                            !.att = a, !.scout = s]
  <2>1. Idle \in Command /\ "promote" \in Operations /\ "scout_pane" \in Pcs
    BY CommandColumns DEF LifecycleInv, CommandsTyped, Operations, Pcs, ShipPcs, ScoutPcs
  <2>2. QED
    BY <2>1 DEF Command
<1>9. /\ c.pc = "scout_pane" /\ c.att = a /\ c.scout = s /\ c.lease = NoLease
      /\ cmd' = [cmd EXCEPT ![t] = c]
  BY <1>1, <1>2, <1>8 DEF Idle
<1>10. cmd'[t] = c /\ \A r \in Tasks \ {t} : cmd'[r] = cmd[r]
  BY <1>9 DEF LifecycleInv, CommandsTyped
<1>11. CommandsTyped'
  <2>1. /\ c.pc \in ScoutPcs /\ c.pc \notin FreePcs /\ c.pc \notin LeasePcs
        /\ c.pc \notin RunPcs \union {"herdr"} /\ c.pc # "idle"
    BY <1>9 DEF ScoutPcs, FreePcs, LeasePcs, RunPcs
  <2>2. CommandOK(t)'
    BY <1>9, <1>10, <2>1 DEF CommandOK
  <2>3. \A r \in Tasks \ {t} : CommandOK(r)'
    BY <1>10 DEF LifecycleInv, CommandsTyped, CommandOK
  <2>4. cmd' \in [Tasks -> Command]
    BY <1>9 DEF LifecycleInv, CommandsTyped
  <2>5. QED
    BY <2>2, <2>3, <2>4 DEF CommandsTyped
<1>12. Stage(t)'
  <2>1. /\ c.pc \notin LeasePcs /\ c.pc \notin RunPcs \union {"herdr"} /\ c.pc \notin ClosingPcs
        /\ c.pc \notin ScoutPanePcs /\ c.pc \notin ScoutLeasePcs
    BY <1>9 DEF ScoutPanePcs, ScoutLeasePcs, LeasePcs, RunPcs, ClosingPcs, PanePcs,
       WorktreePcs, RecordPcs
  <2>2. LaunchStage(t)'
    BY <1>6, <1>9, <1>10, <2>1 DEF LaunchStage
  <2>3. ScoutStage(t)'
    BY <1>5, <1>9, <1>10, <2>1 DEF ScoutStage
  <2>4. ClosingStage(t)'
    BY <1>6, <1>9, <1>10, <2>1 DEF ClosingStage, ClosingPcs
  <2>5. QED
    BY <2>2, <2>3, <2>4 DEF Stage
<1>13. \A b \in Attempts \ {a} :
           \/ attempt'[b] = attempt[b]
           \/ /\ attempt[b].owner = t /\ attempt'[b].life = "completed"
              /\ attempt'[b].worktree = attempt[b].worktree
              /\ attempt'[b].herdr = attempt[b].herdr
              /\ attempt'[b].settle = attempt[b].settle
  BY <1>3, <1>4, <1>5
<1>14. cmd'[t].lease = NoLease /\ \A r \in Tasks \ {t} : cmd'[r] = cmd[r]
  BY <1>9, <1>10
<1>15. attempt'[a] = NewAttempt(t, "provisioning") /\ UNCHANGED external
  BY <1>1, <1>4
<1>16. QED
  BY <1>3, <1>7, <1>11, <1>12, <1>13, <1>14, <1>15, Births

-----------------------------------------------------------------------------
(* Launching: the steps that take a lease or a pane, and start the worker.   *)

(* What a launch that takes its lease knows.                                 *)
LEMMA GettingFacts ==
    ASSUME NEW t \in Tasks, LifecycleInv, cmd[t].pc = "get"
    PROVE  /\ cmd[t].att \in Attempts /\ attempt[cmd[t].att].owner = t
           /\ attempt[cmd[t].att].life = "provisioning" /\ attempt[cmd[t].att].decided = ""
           /\ attempt[cmd[t].att].worktree = NoLease /\ attempt[cmd[t].att].herdr = NoPane
           /\ cmd[t] \in Command
<1>1. cmd[t].pc \in ShipPcs /\ cmd[t].pc \notin FreePcs
  BY DEF ShipPcs, LaunchPcs, FreePcs
<1>2. CommandOK(t) /\ Stage(t) /\ cmd[t] \in Command
  BY DEF LifecycleInv, CommandsTyped, Stages
<1>3. QED
  BY <1>1, <1>2 DEF CommandOK, Stage, LaunchStage, ClosingStage

(* A lease that was not handed out is in nobody's hands.                     *)
LEMMA NobodyHolds ==
    ASSUME LifecycleInv, NEW l \in Leases, ~Issued(l), NEW a \in Attempts
    PROVE  ~Holds(a, l)
<1>1. attempt[a].worktree # l
  BY StoreAssumption DEF LifecycleInv, Recorded
<1>2. attempt[a].herdr # NoPane => pane[attempt[a].herdr].cwd # l
  <2>1. attempt[a].herdr # NoPane => attempt[a].herdr \in Panes /\ Opened(attempt[a].herdr)
    BY DEF LifecycleInv, Recorded, StoreInv, StoreTypeOK, AttemptRow
  <2>2. QED
    BY <2>1 DEF LifecycleInv, Recorded
<1>3. \A t \in Tasks : cmd[t].lease # l
  BY StoreAssumption DEF LifecycleInv, Stages, Stage, LaunchStage
<1>4. QED
  BY <1>1, <1>2, <1>3 DEF Holds

(* A new lease is in the hands of the command that took it, and of no other. *)
LEMMA GetLeaseKeeps ==
    ASSUME NEW t \in Tasks, LifecycleInv, GetLease(t)
    PROVE  Kept
<1> USE DEF LifecycleInv
<1>1. UNCHANGED storeVars /\ attempt' = attempt /\ pane' = pane /\ cmd[t].pc = "get"
  BY DEF GetLease, WorldOnly, storeVars, At
<1>2. CASE Leave(t) /\ UNCHANGED lease
  BY <1>1, <1>2, SaysNothing, Leaving DEF GetLease, external
<1>3. ASSUME NEW l \in Leases, lease[l] = "unissued", lease' = [lease EXCEPT ![l] = "held"],
             cmd' = [cmd EXCEPT ![t].lease = l, ![t].pc = "record"]
      PROVE  Kept
  <2>1. /\ lease'[l] = "held" /\ \A k \in Leases \ {l} : lease'[k] = lease[k]
        /\ lease' \in [Leases -> {"unissued", "held", "free", "foreign"}]
    BY <1>3 DEF WorldTyped
  <2>2. Moves
    BY <1>1, <1>3, <2>1 DEF Moves, Issued, Back, Opened, Gone
  <2>3. WorldTyped'
    BY <1>1, <2>1 DEF GetLease, WorldTyped
  <2>4. PICK c \in Command : /\ cmd' = [cmd EXCEPT ![t] = c]
                             /\ c.pc = "record" /\ c.lease = l /\ c.att = cmd[t].att
    <3> DEFINE c == [cmd[t] EXCEPT !.lease = l, !.pc = "record"]
    <3>1. cmd[t] \in Command /\ "record" \in Pcs
      BY <1>1, GettingFacts DEF Pcs, ShipPcs, LaunchPcs, LeasePcs
    <3>2. c \in Command /\ c.pc = "record" /\ c.lease = l /\ c.att = cmd[t].att
      BY <3>1 DEF Command
    <3>3. cmd' = [cmd EXCEPT ![t] = c]
      BY <1>3 DEF CommandsTyped
    <3> HIDE DEF c
    <3>4. QED
      BY <3>2, <3>3
  <2>5. cmd'[t] = c /\ \A s \in Tasks \ {t} : cmd'[s] = cmd[s]
    BY <2>4 DEF CommandsTyped
  <2>6. CommandsTyped' /\ Stage(t)'
    <3>1. /\ c.pc \in LaunchPcs /\ c.pc \in LeasePcs /\ c.pc \notin RunPcs \union {"herdr"}
          /\ c.pc # "clear_pane" /\ c.pc # "clear_lease"
      BY <2>4 DEF LaunchPcs, LeasePcs, RunPcs
    <3>2. /\ c.att \in Attempts /\ attempt'[c.att].owner = t
          /\ attempt'[c.att].life = "provisioning" /\ attempt'[c.att].decided = ""
          /\ attempt'[c.att].worktree = NoLease /\ attempt'[c.att].herdr = NoPane
          /\ c.lease \in Leases /\ lease'[c.lease] # "unissued"
      <4>1. /\ cmd[t].att \in Attempts /\ attempt[cmd[t].att].owner = t
            /\ attempt[cmd[t].att].life = "provisioning" /\ attempt[cmd[t].att].decided = ""
            /\ attempt[cmd[t].att].worktree = NoLease /\ attempt[cmd[t].att].herdr = NoPane
        BY <1>1, GettingFacts
      <4>2. c.att = cmd[t].att /\ c.lease = l /\ attempt' = attempt
        BY <1>1, <2>4
      <4>3. lease'[l] # "unissued"
        BY <2>1
      <4>4. QED
        BY <4>1, <4>2, <4>3
    <3>3. QED
      BY <2>4, <3>1, <3>2, Launches
  <2>7. RowsOK' /\ AgentsAreClaimed'
    BY <1>1 DEF RowsOK, AgentsAreClaimed, PaneUnsettled
  <2>8. Recorded'
    <3>1. \A a \in Attempts : /\ attempt[a].worktree # NoLease => attempt[a].worktree \in Leases
                              /\ attempt[a].herdr # NoPane => attempt[a].herdr \in Panes
      BY DEF StoreInv, StoreTypeOK, AttemptRow
    <3>2. QED
      BY <1>1, <2>2, <3>1 DEF Recorded, Moves, Opened
  <2>9. ReleasedForGood'
    <3>1. \A a \in Attempts :
              attempt[a].settle["worktree"] = "released" => attempt[a].worktree \in Leases
      BY DEF StoreInv, StoreTypeOK, AttemptRow, RowsOK, RowOK
    <3>2. QED
      BY <1>1, <2>2, <3>1 DEF ReleasedForGood, Moves, Gone
  <2>10. Apart'
    <3>1. ASSUME NEW a \in Attempts, NEW k \in Leases, Holds(a, k)'
          PROVE  Holds(a, k) \/ (a = cmd[t].att /\ k = l)
      BY <1>1, <2>4, <2>5, <3>1 DEF Holds
    <3>2. \A a \in Attempts : ~Holds(a, l)
      BY <1>3, NobodyHolds DEF Issued
    <3>3. QED
      BY <3>1, <3>2 DEF Apart
  <2>11. QED
    BY <1>1, <2>2, <2>3, <2>5, <2>6, <2>7, <2>8, <2>9, <2>10, NewsKeep
<1>4. QED
  BY <1>2, <1>3 DEF GetLease

(* A new pane stands in the worktree of the launch that opened it.           *)
LEMMA OpenPaneKeeps ==
    ASSUME NEW t \in Tasks, LifecycleInv, OpenPane(t)
    PROVE  Kept
<1> USE DEF LifecycleInv
<1>1. /\ UNCHANGED storeVars /\ attempt' = attempt /\ lease' = lease
      /\ cmd[t].pc = "pane" /\ cmd[t].pc \in LeasePcs \ {"record"}
  BY DEF OpenPane, WorldOnly, storeVars, At, LeasePcs
<1>2. CASE FailWithoutPane(t) /\ UNCHANGED pane
  BY <1>1, <1>2, SaysNothing, Failing DEF OpenPane, external
<1>3. ASSUME NEW p \in Panes, pane[p].state = "unissued",
             pane' = [pane EXCEPT ![p] = NewPane(cmd[t].lease)],
             cmd' = [cmd EXCEPT ![t].pane = p, ![t].pc = "herdr"]
      PROVE  Kept
  <2>1. cmd[t].lease \in Leases /\ Issued(cmd[t].lease)
    BY <1>1, LaunchFacts
  <2>2. /\ pane'[p].state = "shell" /\ pane'[p].cwd = cmd[t].lease
        /\ \A q \in Panes \ {p} : pane'[q] = pane[q]
    BY <1>3 DEF WorldTyped, NewPane
  <2>3. Moves
    BY <1>1, <1>3, <2>2 DEF Moves, Issued, Back, Opened, Gone
  <2>4. WorldTyped'
    <3>1. NewPane(cmd[t].lease) \in [state : {"unissued", "shell", "agent", "gone", "foreign"},
                                     cwd : Leases \union {NoLease}]
      BY <2>1 DEF NewPane
    <3>2. QED
      BY <1>3, <3>1 DEF OpenPane, WorldTyped
  <2>5. PICK c \in Command : /\ cmd' = [cmd EXCEPT ![t] = c]
                             /\ c.pc = "herdr" /\ c.pane = p
                             /\ c.lease = cmd[t].lease /\ c.att = cmd[t].att
    <3> DEFINE c == [cmd[t] EXCEPT !.pane = p, !.pc = "herdr"]
    <3>1. cmd[t] \in Command /\ "herdr" \in Pcs
      BY DEF CommandsTyped, Pcs, ShipPcs, LaunchPcs, LeasePcs
    <3>2. /\ c \in Command /\ c.pc = "herdr" /\ c.pane = p
          /\ c.lease = cmd[t].lease /\ c.att = cmd[t].att
      BY <3>1 DEF Command
    <3>3. cmd' = [cmd EXCEPT ![t] = c]
      BY <1>3 DEF CommandsTyped
    <3> HIDE DEF c
    <3>4. QED
      BY <3>2, <3>3
  <2>6. cmd'[t] = c /\ \A s \in Tasks \ {t} : cmd'[s] = cmd[s]
    BY <2>5 DEF CommandsTyped
  <2>7. CommandsTyped' /\ Stage(t)'
    <3>1. /\ c.pc \in LaunchPcs /\ c.pc \in LeasePcs /\ c.pc \notin RunPcs
          /\ c.pc # "clear_pane" /\ c.pc # "clear_lease" /\ c.pc # "record"
      BY <2>5 DEF LaunchPcs, LeasePcs, RunPcs
    <3>2. /\ c.att \in Attempts /\ attempt'[c.att].owner = t
          /\ attempt'[c.att].life = "provisioning" /\ attempt'[c.att].decided = ""
          /\ attempt'[c.att].worktree = c.lease /\ attempt'[c.att].herdr = NoPane
      <4>1. /\ cmd[t].att \in Attempts /\ attempt[cmd[t].att].owner = t
            /\ attempt[cmd[t].att].life = "provisioning" /\ attempt[cmd[t].att].decided = ""
            /\ attempt[cmd[t].att].worktree = cmd[t].lease
            /\ attempt[cmd[t].att].herdr = NoPane
        BY <1>1, LaunchFacts
      <4>2. QED
        BY <1>1, <2>5, <4>1
    <3>3. /\ c.lease \in Leases /\ lease'[c.lease] # "unissued"
          /\ c.pane \in Panes /\ pane'[c.pane].state # "unissued" /\ pane'[c.pane].cwd = c.lease
      BY <1>1, <2>1, <2>2, <2>5 DEF Issued
    <3>4. QED
      BY <2>5, <3>1, <3>2, <3>3, Launches
  <2>8. RowsOK'
    BY <1>1 DEF RowsOK
  <2>9. \A a \in Attempts :
            attempt[a].herdr # NoPane => attempt[a].herdr \in Panes /\ attempt[a].herdr # p
    BY <1>3 DEF StoreInv, StoreTypeOK, AttemptRow, Recorded, Opened
  <2>10. Recorded'
    BY <1>1, <2>1, <2>2, <2>9 DEF Recorded, Opened, Issued
  <2>11. ReleasedForGood'
    <3>1. \A a \in Attempts : attempt[a].settle["herdr"] = "released" => attempt[a].herdr # NoPane
      BY DEF RowsOK, RowOK
    <3>2. QED
      BY <1>1, <2>2, <2>9, <3>1 DEF ReleasedForGood, Gone, Back
  <2>12. Apart'
    <3>1. ASSUME NEW a \in Attempts, NEW k \in Leases, Holds(a, k)'
          PROVE  Holds(a, k)
      BY <1>1, <2>2, <2>5, <2>6, <2>9, <3>1 DEF Holds
    <3>2. QED
      BY <3>1 DEF Apart
  <2>13. AgentsAreClaimed'
    BY <1>1, <2>2 DEF AgentsAreClaimed, PaneUnsettled
  <2>14. QED
    BY <1>1, <2>3, <2>4, <2>6, <2>7, <2>8, <2>10, <2>11, <2>12, <2>13, NewsKeep
<1>4. QED
  BY <1>2, <1>3 DEF OpenPane

(* A worker is started in the pane its launch recorded.                      *)
LEMMA RunWorkerKeeps ==
    ASSUME NEW t \in Tasks, LifecycleInv, RunWorker(t)
    PROVE  Kept
<1> USE DEF LifecycleInv
<1>1. /\ UNCHANGED storeVars /\ attempt' = attempt /\ lease' = lease
      /\ cmd[t].pc = "run" /\ cmd[t].pc \in RunPcs /\ cmd[t].pc \in LeasePcs
  BY DEF RunWorker, WorldOnly, storeVars, At, LeasePcs, RunPcs
<1>2. CASE Goto(t, "close_pane") /\ UNCHANGED pane
  BY <1>1, <1>2, SaysNothing, LaunchGoes DEF RunWorker, external
<1>3. ASSUME NEW pc \in {"submit", "close_pane"}, Goto(t, pc),
             pane[cmd[t].pane].state = "shell",
             pane' = [pane EXCEPT ![cmd[t].pane].state = "agent"]
      PROVE  Kept
  <2>1. PICK p \in Panes : p = cmd[t].pane
    BY <1>1, LaunchFacts
  <2>2. PICK a \in Attempts : a = cmd[t].att
    BY <1>1, LaunchFacts
  <2>3. /\ attempt[a].herdr = p /\ attempt[a].settle["herdr"] = ""
        /\ attempt[a].owner = t /\ attempt[a].life = "provisioning" /\ attempt[a].decided = ""
        /\ attempt[a].worktree = cmd[t].lease /\ cmd[t].lease \in Leases
        /\ lease[cmd[t].lease] # "unissued" /\ pane[p].cwd = cmd[t].lease
    BY <1>1, <2>1, <2>2, LaunchFacts DEF Issued
  <2>4. /\ pane'[p].state = "agent" /\ pane'[p].cwd = pane[p].cwd
        /\ \A q \in Panes \ {p} : pane'[q] = pane[q]
        /\ pane' \in [Panes -> [state : {"unissued", "shell", "agent", "gone", "foreign"},
                                cwd : Leases \union {NoLease}]]
    BY <1>3, <2>1 DEF WorldTyped
  <2>5. pane[p].state = "shell"
    BY <1>3, <2>1
  <2>6. Moves
    BY <1>1, <2>4, <2>5 DEF Moves, Issued, Back, Opened, Gone
  <2>7. WorldTyped'
    BY <1>1, <2>4 DEF RunWorker, WorldTyped
  <2>8. PICK c \in Command : Goes(t, c, pc)
    <3>1. pc \in Pcs
      BY DEF Pcs, ShipPcs, LaunchPcs, LeasePcs, RunPcs
    <3>2. QED
      BY <1>3, <3>1, Going
  <2>9. cmd'[t] = c /\ \A s \in Tasks \ {t} : cmd'[s] = cmd[s]
    BY <2>8 DEF Goes, CommandsTyped
  <2>10. CommandsTyped' /\ Stage(t)'
    <3>1. /\ pc \in LaunchPcs /\ pc \in LeasePcs /\ pc \in RunPcs
          /\ pc # "clear_pane" /\ pc # "clear_lease" /\ pc # "record"
          /\ pc \notin {"launch", "get", "check", "pane", "herdr"}
      BY DEF LaunchPcs, LeasePcs, RunPcs
    <3>2. c.pc = pc /\ c.att = a /\ c.lease = cmd[t].lease /\ c.pane = p
          /\ cmd' = [cmd EXCEPT ![t] = c]
      BY <2>1, <2>2, <2>8 DEF Goes
    <3>3. /\ attempt'[a].owner = t /\ attempt'[a].herdr = p
          /\ attempt'[a].life = "provisioning" /\ attempt'[a].decided = ""
          /\ attempt'[a].worktree = c.lease
          /\ c.lease \in Leases /\ lease'[c.lease] # "unissued"
          /\ pane'[p].state # "unissued" /\ pane'[p].cwd = c.lease
      BY <1>1, <2>3, <2>4, <3>2
    <3>4. QED
      BY <3>1, <3>2, <3>3, Launches
  <2>11. RowsOK'
    BY <1>1 DEF RowsOK
  <2>12. \A b \in Attempts : attempt[b].herdr # NoPane => attempt[b].herdr \in Panes
    BY DEF StoreInv, StoreTypeOK, AttemptRow
  <2>13. Recorded'
    BY <1>1, <2>4, <2>5, <2>12 DEF Recorded, Opened, Issued
  <2>14. ReleasedForGood'
    <3>1. \A b \in Attempts :
              attempt[b].settle["herdr"] = "released" =>
                  attempt[b].herdr \in Panes \ {p}
      BY <2>5, <2>12 DEF RowsOK, RowOK, ReleasedForGood, Gone
    <3>2. QED
      BY <1>1, <2>4, <3>1 DEF ReleasedForGood, Gone, Back
  <2>15. Apart'
    <3>1. \A q \in Panes : pane'[q].cwd = pane[q].cwd
      BY <2>4
    <3>2. \A s \in Tasks : cmd'[s].att = cmd[s].att /\ cmd'[s].lease = cmd[s].lease
      BY <2>8, <2>9 DEF Goes
    <3>3. ASSUME NEW b \in Attempts, NEW k \in Leases, Holds(b, k)'
          PROVE  Holds(b, k)
      BY <1>1, <2>12, <3>1, <3>2, <3>3 DEF Holds
    <3>4. QED
      BY <3>3 DEF Apart
  <2>16. AgentsAreClaimed'
    <3>1. PaneUnsettled(a)
      BY <2>3, StoreAssumption DEF PaneUnsettled, Settled
    <3>2. ASSUME NEW q \in Panes, pane'[q].state = "agent"
          PROVE  \E b \in Attempts : attempt[b].herdr = q /\ PaneUnsettled(b)
      <4>1. CASE q = p
        BY <2>3, <3>1, <4>1
      <4>2. CASE q # p
        <5>1. pane[q].state = "agent"
          BY <2>4, <3>2, <4>2
        <5>2. QED
          BY <5>1 DEF AgentsAreClaimed
      <4>3. QED
        BY <4>1, <4>2
    <3>3. QED
      BY <1>1, <3>2 DEF AgentsAreClaimed, PaneUnsettled
  <2>17. QED
    BY <1>1, <2>6, <2>7, <2>9, <2>10, <2>11, <2>13, <2>14, <2>15, <2>16, NewsKeep
<1>4. QED
  BY <1>2, <1>3 DEF RunWorker

(* A launch writes its row and goes on.                                      *)
LEMMA Writing ==
    ASSUME NEW t \in Tasks, LifecycleInv, cmd[t].pc \in LeasePcs, UNCHANGED external,
           NEW a \in Attempts, a = cmd[t].att, Provision(t, a),
           NEW row \in AttemptRow, attempt' = [attempt EXCEPT ![a] = row],
           row.life = attempt[a].life, row.decided = attempt[a].decided,
           row.settle = attempt[a].settle, row.owner = attempt[a].owner,
           row.worktree \in {attempt[a].worktree, cmd[t].lease, NoLease},
           \/ row.herdr = attempt[a].herdr
           \/ /\ cmd[t].pc = "herdr" /\ row.herdr = cmd[t].pane
           \/ /\ cmd[t].pc = "clear_pane" /\ row.herdr = NoPane,
           NEW c \in Command, cmd' = [cmd EXCEPT ![t] = c],
           c.lease = NoLease \/ (c.lease = cmd[t].lease /\ c.att = cmd[t].att),
           CommandsTyped', Stage(t)'
    PROVE  Kept
<1> USE DEF LifecycleInv
<1>1. /\ attempt[a].owner = t /\ attempt[a].life = "provisioning" /\ attempt[a].decided = ""
      /\ attempt[a].settle["herdr"] = "" /\ attempt[a].settle["worktree"] = ""
      /\ cmd[t].lease \in Leases /\ Issued(cmd[t].lease)
  BY LaunchFacts
<1>2. /\ row.life = "provisioning" /\ row.decided = ""
      /\ row.settle["herdr"] = "" /\ row.settle["worktree"] = ""
  BY <1>1
<1>3. StoreNext
  BY DEF StoreNext
<1>4. cmd'[t] = c /\ \A s \in Tasks \ {t} : cmd'[s] = cmd[s]
  BY DEF CommandsTyped
<1>5. LeaseKept(t)
  BY <1>4 DEF LeaseKept
<1>6. /\ attempt[a].worktree # NoLease => attempt[a].worktree \in Leases
      /\ attempt[a].herdr # NoPane => attempt[a].herdr \in Panes
  BY DEF StoreInv, StoreTypeOK, AttemptRow
<1>7. Holds(a, cmd[t].lease)
  BY DEF Holds
<1>8. row.worktree # NoLease =>
          /\ row.worktree \in Leases /\ Issued(row.worktree) /\ Holds(a, row.worktree)
  <2>1. attempt[a].worktree # NoLease =>
            Issued(attempt[a].worktree) /\ Holds(a, attempt[a].worktree)
    BY DEF Recorded, Holds
  <2>2. QED
    BY <1>1, <1>6, <1>7, <2>1
<1>9. row.herdr # NoPane =>
          /\ row.herdr \in Panes /\ Opened(row.herdr)
          /\ Holds(a, pane[row.herdr].cwd)
  <2>1. CASE row.herdr = attempt[a].herdr
    BY <1>6, <2>1 DEF Recorded, Holds
  <2>2. CASE cmd[t].pc = "herdr" /\ row.herdr = cmd[t].pane
    <3>1. /\ cmd[t].pane \in Panes /\ Opened(cmd[t].pane)
          /\ pane[cmd[t].pane].cwd = cmd[t].lease
      BY <2>2, LaunchFacts
    <3>2. Holds(a, pane[cmd[t].pane].cwd)
      BY <1>7, <3>1
    <3>3. QED
      BY <2>2, <3>1, <3>2
  <2>3. QED
    BY <2>1, <2>2
<1>10. \/ row.herdr = attempt[a].herdr
       \/ attempt[a].herdr = NoPane
       \/ Gone(attempt[a].herdr)
  <2>1. CASE cmd[t].pc = "herdr"
    BY <2>1, LaunchFacts
  <2>2. CASE cmd[t].pc = "clear_pane"
    <3>1. cmd[t].pc \in RunPcs
      BY <2>2 DEF RunPcs
    <3>2. attempt[a].herdr = cmd[t].pane
      BY <3>1, LaunchFacts
    <3>3. Gone(cmd[t].pane)
      BY <2>2 DEF Stages, Stage, LaunchStage
    <3>4. QED
      BY <3>2, <3>3
  <2>3. QED
    BY <2>1, <2>2
<1>11. QED
  BY <1>1, <1>2, <1>3, <1>4, <1>5, <1>8, <1>9, <1>10, Provisions

(* It leaves once its row is written.                                        *)
LEMMA LeavingTyped ==
    ASSUME NEW t \in Tasks, CommandsTyped, Leave(t)
    PROVE  /\ CommandsTyped' /\ Stage(t)'
           /\ \E c \in Command : cmd' = [cmd EXCEPT ![t] = c] /\ c.lease = NoLease
<1>1. PICK c \in Command : c = Idle
  BY CommandColumns DEF CommandsTyped
<1>2. cmd' = [cmd EXCEPT ![t] = c] /\ c.pc \in FreePcs /\ c.lease = NoLease
  BY <1>1 DEF Leave, FreePcs, Idle
<1>3. QED
  BY <1>1, <1>2, Rests

(* The lease, and the pane, once they are there.                             *)
LEMMA RecordingKeeps ==
    ASSUME NEW t \in Tasks, LifecycleInv, RecordLease(t) \/ RecordPane(t)
    PROVE  Kept
<1>1. cmd[t].pc \in LeasePcs /\ cmd[t].pc \in {"record", "herdr"} /\ UNCHANGED external
  BY DEF RecordLease, RecordPane, At, LeasePcs, StoreOnly
<1>2. PICK a \in Attempts : a = cmd[t].att
  BY <1>1, LaunchFacts
<1>3. /\ attempt[a] \in AttemptRow /\ attempt \in [Attempts -> AttemptRow]
      /\ cmd[t].lease \in Leases /\ Issued(cmd[t].lease)
      /\ attempt[a].owner = t /\ attempt[a].life = "provisioning" /\ attempt[a].decided = ""
  BY <1>1, <1>2, LaunchFacts DEF LifecycleInv, StoreInv, StoreTypeOK
<1>4. lease' = lease /\ pane' = pane
  BY <1>1 DEF external
<1>5. CASE RecordLease(t)
  <2>1. cmd[t].pc = "record" /\ RecordAttemptWorktree(t, a, cmd[t].lease) /\ Goto(t, "check")
    BY <1>2, <1>5 DEF RecordLease, At
  <2>2. PICK row : row = [attempt[a] EXCEPT !.worktree = cmd[t].lease]
    OBVIOUS
  <2>2a. /\ row \in AttemptRow
        /\ row.owner = attempt[a].owner /\ row.life = attempt[a].life
        /\ row.decided = attempt[a].decided /\ row.settle = attempt[a].settle
        /\ row.herdr = attempt[a].herdr /\ row.worktree = cmd[t].lease
    BY <2>2, <1>3 DEF AttemptRow
  <2>3. attempt' = [attempt EXCEPT ![a] = row]
    BY <2>1, <2>2 DEF RecordAttemptWorktree
  <2>4. Provision(t, a)
    BY <1>3, <2>1 DEF Provision
  <2>5. PICK c \in Command : Goes(t, c, "check")
    BY <2>1, Going DEF LifecycleInv, Pcs, ShipPcs, LaunchPcs, LeasePcs
  <2>6. CommandsTyped' /\ Stage(t)'
    <3>1. attempt'[a] = row
      BY <1>3, <2>3
    <3>2. attempt[a].herdr = NoPane
      BY <1>2, <2>1 DEF LifecycleInv, Stages, Stage, LaunchStage, ShipPcs, LaunchPcs, LeasePcs
    <3>3. /\ "check" \in LaunchPcs /\ "check" \in LeasePcs
          /\ "check" \notin RunPcs \union {"herdr"}
      BY DEF LaunchPcs, LeasePcs, RunPcs
    <3>4. /\ c.pc = "check" /\ c.att = a /\ c.lease = cmd[t].lease
          /\ cmd' = [cmd EXCEPT ![t] = c]
      BY <1>2, <2>5 DEF Goes
    <3>5. /\ attempt'[a].owner = t
          /\ attempt'[a].life = "provisioning" /\ attempt'[a].decided = ""
          /\ attempt'[a].worktree = c.lease /\ attempt'[a].herdr = NoPane
          /\ c.lease \in Leases /\ lease'[c.lease] # "unissued"
      BY <1>3, <1>4, <2>2a, <3>1, <3>2, <3>4 DEF Issued
    <3>6. QED
      BY <3>3, <3>4, <3>5, Launches DEF LifecycleInv
  <2>7. c.lease = cmd[t].lease /\ c.att = cmd[t].att /\ cmd' = [cmd EXCEPT ![t] = c]
    BY <2>5 DEF Goes
  <2>8. QED
    BY <1>1, <1>2, <2>2a, <2>3, <2>4, <2>6, <2>7, Writing
<1>6. CASE RecordPane(t)
  <2>1. cmd[t].pc = "herdr" /\ RecordAttemptHerdr(t, a, cmd[t].pane) /\ Goto(t, "run")
    BY <1>2, <1>6 DEF RecordPane, At
  <2>2. /\ cmd[t].pane \in Panes /\ Opened(cmd[t].pane) /\ pane[cmd[t].pane].cwd = cmd[t].lease
        /\ attempt[a].worktree = cmd[t].lease
    BY <1>1, <1>2, <2>1, LaunchFacts
  <2>3. PICK row : row = [attempt[a] EXCEPT !.herdr = cmd[t].pane]
    OBVIOUS
  <2>3a. /\ row \in AttemptRow
        /\ row.owner = attempt[a].owner /\ row.life = attempt[a].life
        /\ row.decided = attempt[a].decided /\ row.settle = attempt[a].settle
        /\ row.worktree = attempt[a].worktree /\ row.herdr = cmd[t].pane
    BY <2>3, <1>3, <2>2 DEF AttemptRow
  <2>4. attempt' = [attempt EXCEPT ![a] = row]
    BY <2>1, <2>3 DEF RecordAttemptHerdr
  <2>5. Provision(t, a)
    BY <2>1, <2>2 DEF Provision
  <2>6. PICK c \in Command : Goes(t, c, "run")
    BY <2>1, Going DEF LifecycleInv, Pcs, ShipPcs, LaunchPcs, LeasePcs, RunPcs
  <2>7. CommandsTyped' /\ Stage(t)'
    <3>1. attempt'[a] = row
      BY <1>3, <2>4
    <3>2. "run" \in LaunchPcs /\ "run" \in LeasePcs /\ "run" \in RunPcs
      BY DEF LaunchPcs, LeasePcs, RunPcs
    <3>3. /\ c.pc = "run" /\ c.att = a /\ c.lease = cmd[t].lease /\ c.pane = cmd[t].pane
          /\ cmd' = [cmd EXCEPT ![t] = c]
      BY <1>2, <2>6 DEF Goes
    <3>4. /\ attempt'[a].owner = t
          /\ attempt'[a].life = "provisioning" /\ attempt'[a].decided = ""
          /\ attempt'[a].worktree = c.lease /\ attempt'[a].herdr = c.pane
          /\ c.lease \in Leases /\ lease'[c.lease] # "unissued"
          /\ c.pane \in Panes /\ pane'[c.pane].state # "unissued" /\ pane'[c.pane].cwd = c.lease
      <4>1. /\ attempt'[a].owner = t
            /\ attempt'[a].life = "provisioning" /\ attempt'[a].decided = ""
            /\ attempt'[a].worktree = cmd[t].lease /\ attempt'[a].herdr = cmd[t].pane
        BY <1>3, <2>2, <2>3a, <3>1
      <4>2. lease'[cmd[t].lease] # "unissued" /\ pane'[cmd[t].pane].state # "unissued"
            /\ pane'[cmd[t].pane].cwd = cmd[t].lease
        BY <1>3, <1>4, <2>2 DEF Issued, Opened
      <4>3. QED
        BY <1>3, <2>2, <3>3, <4>1, <4>2
    <3>5. QED
      BY <3>2, <3>3, <3>4, Launches DEF LifecycleInv
  <2>8. c.lease = cmd[t].lease /\ c.att = cmd[t].att /\ cmd' = [cmd EXCEPT ![t] = c]
    BY <2>6 DEF Goes
  <2>9. QED
    BY <1>1, <1>2, <2>1, <2>3a, <2>4, <2>5, <2>7, <2>8, Writing
<1>7. QED
  BY <1>5, <1>6

(* The pane, and the lease, once they are gone.                              *)
LEMMA ForgettingKeeps ==
    ASSUME NEW t \in Tasks, LifecycleInv, ClearPane(t) \/ ClearLease(t)
    PROVE  Kept
<1>1. cmd[t].pc \in LeasePcs /\ UNCHANGED external
  BY DEF ClearPane, ClearLease, At, LeasePcs, RunPcs, StoreOnly
<1>2. PICK a \in Attempts : a = cmd[t].att
  BY <1>1, LaunchFacts
<1>3. /\ attempt[a] \in AttemptRow /\ attempt \in [Attempts -> AttemptRow]
      /\ cmd[t].lease \in Leases /\ Issued(cmd[t].lease)
      /\ attempt[a].owner = t /\ attempt[a].life = "provisioning" /\ attempt[a].decided = ""
  BY <1>1, <1>2, LaunchFacts DEF LifecycleInv, StoreInv, StoreTypeOK
<1>4. lease' = lease /\ pane' = pane
  BY <1>1 DEF external
<1>5. CASE ClearLease(t)
  <2>1. ClearAttemptWorktree(t, a) /\ Leave(t)
    BY <1>2, <1>5 DEF ClearLease
  <2>2. PICK row : row = [attempt[a] EXCEPT !.worktree = NoLease]
    OBVIOUS
  <2>2a. /\ row \in AttemptRow
        /\ row.owner = attempt[a].owner /\ row.life = attempt[a].life
        /\ row.decided = attempt[a].decided /\ row.settle = attempt[a].settle
        /\ row.herdr = attempt[a].herdr /\ row.worktree = NoLease
    BY <2>2, <1>3 DEF AttemptRow
  <2>3. attempt' = [attempt EXCEPT ![a] = row] /\ Provision(t, a)
    BY <2>1, <2>2 DEF ClearAttemptWorktree, Provision
  <2>4. /\ CommandsTyped' /\ Stage(t)'
        /\ \E c \in Command : cmd' = [cmd EXCEPT ![t] = c] /\ c.lease = NoLease
    BY <2>1, LeavingTyped DEF LifecycleInv
  <2>5. QED
    BY <1>1, <1>2, <2>2a, <2>3, <2>4, Writing
<1>6. CASE ClearPane(t)
  <2>1. cmd[t].pc = "clear_pane" /\ ClearAttemptHerdr(t, a) /\ FailWithoutPane(t)
    BY <1>2, <1>6 DEF ClearPane, At
  <2>2. PICK row : row = [attempt[a] EXCEPT !.herdr = NoPane]
    OBVIOUS
  <2>2a. /\ row \in AttemptRow
        /\ row.owner = attempt[a].owner /\ row.life = attempt[a].life
        /\ row.decided = attempt[a].decided /\ row.settle = attempt[a].settle
        /\ row.worktree = attempt[a].worktree /\ row.herdr = NoPane
    BY <2>2, <1>3 DEF AttemptRow
  <2>3. attempt' = [attempt EXCEPT ![a] = row] /\ Provision(t, a)
    BY <2>1, <2>2 DEF ClearAttemptHerdr, Provision
  <2>4. CASE Leave(t)
    <3>1. /\ CommandsTyped' /\ Stage(t)'
          /\ \E c \in Command : cmd' = [cmd EXCEPT ![t] = c] /\ c.lease = NoLease
      BY <2>4, LeavingTyped DEF LifecycleInv
    <3>2. QED
      BY <1>1, <1>2, <2>1, <2>2a, <2>3, <3>1, Writing
  <2>5. CASE Goto(t, "return_lease")
    <3>1. PICK c \in Command : Goes(t, c, "return_lease")
      BY <2>5, Going DEF LifecycleInv, Pcs, ShipPcs, LaunchPcs, LeasePcs
    <3>2. /\ c.pc = "return_lease" /\ c.att = a /\ c.lease = cmd[t].lease
          /\ cmd' = [cmd EXCEPT ![t] = c]
      BY <1>2, <3>1 DEF Goes
    <3>3. /\ "return_lease" \in LaunchPcs /\ "return_lease" \in LeasePcs
          /\ "return_lease" \notin RunPcs \union {"herdr"}
      BY DEF LaunchPcs, LeasePcs, RunPcs
    <3>4. attempt[a].worktree = cmd[t].lease
      BY <1>1, <1>2, <2>1, LaunchFacts
    <3>5. /\ attempt'[a].owner = t
          /\ attempt'[a].life = "provisioning" /\ attempt'[a].decided = ""
          /\ attempt'[a].worktree = c.lease
          /\ c.lease \in Leases /\ lease'[c.lease] # "unissued"
      BY <1>3, <1>4, <2>2a, <2>3, <3>2, <3>4 DEF Issued
    <3>6. CommandsTyped' /\ Stage(t)'
      BY <3>2, <3>3, <3>5, Launches DEF LifecycleInv
    <3>7. c.lease = cmd[t].lease /\ c.att = cmd[t].att
      BY <1>2, <3>2
    <3>8. QED
      BY <1>1, <1>2, <2>1, <2>2a, <2>3, <3>2, <3>6, <3>7, Writing
  <2>6. QED
    BY <2>1, <2>4, <2>5 DEF FailWithoutPane
<1>7. QED
  BY <1>5, <1>6

(* Every step of a launch.                                                   *)
LEMMA LaunchKeeps ==
    ASSUME NEW t \in Tasks, LifecycleInv, ProvisionStep(t)
    PROVE  Kept
BY SpawningKeeps, GetLeaseKeeps, RecordingKeeps, CheckingKeeps, OpenPaneKeeps, RunWorkerKeeps,
   MarkingKeeps, UnwindingKeeps, ForgettingKeeps DEF ProvisionStep

(* Every step of a promotion.                                                *)
LEMMA PromoteKeeps ==
    ASSUME NEW t \in Tasks, LifecycleInv, PromoteStep(t)
    PROVE  Kept
BY PromotingKeeps, ScoutKeeps, ShipKeeps DEF PromoteStep

-----------------------------------------------------------------------------
(* The world on its own.                                                     *)

(* No event around hand brings a lease, a pane or an agent.                  *)
LEMMA WorldFades ==
    ASSUME LifecycleInv, WorldStep
    PROVE  Fades /\ WorldTyped'
<1> USE DEF LifecycleInv
<1>1. \A p \in Panes :
          /\ pane[p] \in [state : {"unissued", "shell", "agent", "gone", "foreign"},
                          cwd : Leases \union {NoLease}]
          /\ pane[p].state = "agent" => pane[p].cwd \in Leases
  BY DEF WorldTyped, Recorded, Opened
<1>2. ASSUME NEW p \in Panes, AgentWorks(p)
      PROVE  Fades /\ WorldTyped'
  <2>1. PICK w \in Progress(work[pane[p].cwd]) : work' = [work EXCEPT ![pane[p].cwd] = w]
    BY <1>2 DEF AgentWorks
  <2>2. pane[p].cwd \in Leases /\ work[pane[p].cwd] \in Worktree
    BY <1>1, <1>2 DEF AgentWorks, WorldTyped
  <2>3. w \in Worktree
    BY <2>2 DEF Progress, Worktree
  <2>4. QED
    BY <1>2, <2>1, <2>3, StillFades DEF AgentWorks, WorldTyped
<1>3. ASSUME NEW p \in Panes, NEW from \in {"agent", "gone"}, NEW s \in {"shell", "gone", "foreign"},
             pane[p].state = from, from = "gone" => s = "foreign",
             pane' = [pane EXCEPT ![p].state = s], UNCHANGED <<lease, work, pr, report>>
      PROVE  Fades /\ WorldTyped'
  <2>1. [pane[p] EXCEPT !.state = s]
            \in [state : {"unissued", "shell", "agent", "gone", "foreign"},
                 cwd : Leases \union {NoLease}]
    BY <1>1
  <2>2. /\ pane'[p].state = s /\ pane'[p].cwd = pane[p].cwd
        /\ \A q \in Panes \ {p} : pane'[q] = pane[q]
    BY <1>1, <1>3 DEF WorldTyped
  <2>3. Fades
    BY <1>3, <2>2 DEF Fades, Moves, Issued, Back, Opened, Gone
  <2>4. QED
    BY <1>3, <2>1, <2>3 DEF WorldTyped
<1>4. ASSUME NEW p \in Panes, WorkerExits(p) \/ PaneTaken(p)
      PROVE  Fades /\ WorldTyped'
  BY <1>3, <1>4 DEF WorkerExits, PaneTaken
<1>5. ASSUME NEW t \in Tasks, AgentReports(t) \/ AgentOpensPR(t) \/ PRMerges(t)
      PROVE  Fades /\ WorldTyped'
  BY <1>5, StillFades DEF AgentReports, AgentOpensPR, PRMerges, WorldTyped
<1>6. ASSUME NEW l \in Leases, LeaseLost(l) \/ LeaseTaken(l)
      PROVE  Fades /\ WorldTyped'
  <2>1. PICK s \in {"free", "foreign"} : /\ lease' = [lease EXCEPT ![l] = s]
                                         /\ lease[l] \in {"held", "free"}
    BY <1>6 DEF LeaseLost, LeaseTaken
  <2>2. lease'[l] = s /\ \A k \in Leases \ {l} : lease'[k] = lease[k]
    BY <2>1 DEF WorldTyped
  <2>3. UNCHANGED <<work, pane, pr, report>>
    BY <1>6 DEF LeaseLost, LeaseTaken
  <2>4. Fades
    BY <2>1, <2>2, <2>3 DEF Fades, Moves, Issued, Back, Opened, Gone
  <2>5. QED
    BY <2>1, <2>3, <2>4 DEF WorldTyped
<1>7. ASSUME NEW l \in Leases, OperatorRescues(l)
      PROVE  Fades /\ WorldTyped'
  <2>1. [dirt |-> "clean", commits |-> "pushed"] \in Worktree
    BY DEF Worktree
  <2>2. QED
    BY <1>7, <2>1, StillFades DEF OperatorRescues, WorldTyped
<1>8. QED
  BY <1>2, <1>4, <1>5, <1>6, <1>7 DEF WorldStep

(* An event around hand keeps the invariant.                                 *)
LEMMA WorldKeeps ==
    ASSUME LifecycleInv, WorldStep
    PROVE  Kept
<1>1. /\ UNCHANGED storeVars /\ attempt' = attempt /\ cmd' = cmd
      /\ Fades /\ WorldTyped'
  BY WorldFades DEF WorldStep, storeVars
<1>2. CommandsTyped'
  BY <1>1 DEF LifecycleInv, CommandsTyped, CommandOK
<1>3. Stages'
  <2>1. ASSUME NEW t \in Tasks
        PROVE  Stage(t)'
    BY <1>1, OthersKeep DEF LifecycleInv, Stages, Fades
  <2>2. QED
    BY <2>1 DEF Stages
<1>4. Ordinary
  BY <1>1 DEF Ordinary, LeaseKept, RowsQuiet
<1>5. RowsOK' /\ Recorded' /\ Apart' /\ ReleasedForGood' /\ AgentsAreClaimed'
  BY <1>4, OrdinaryRows, OrdinaryRecorded, OrdinaryApart, OrdinaryReleased, OrdinaryAgents
     DEF LifecycleInv
<1>6. StoreInv'
  BY <1>1, StoreInvInductive DEF LifecycleInv
<1>7. QED
  BY <1>1, <1>2, <1>3, <1>5, <1>6 DEF Kept, LifecycleInv

-----------------------------------------------------------------------------
(* The whole.                                                                *)

(* A process dies, and its lock is dropped: what it knew is forgotten.       *)
LEMMA DyingKeeps ==
    ASSUME NEW t \in Tasks, LifecycleInv, Crash(t) \/ DropLock(t)
    PROVE  Kept
<1>1. Effect(t)
  BY SaysNothing DEF Crash, DropLock, LocalOnly
<1>2. CASE Crash(t)
  <2>1. PICK c \in Command : c = Dead
    BY CommandColumns DEF LifecycleInv, CommandsTyped
  <2>2. cmd' = [cmd EXCEPT ![t] = c] /\ c.pc = "dead" /\ c.lease = NoLease
    BY <1>2, <2>1 DEF Crash, Dead, Idle
  <2>3. CommandsTyped' /\ Stage(t)'
    BY <2>2, Rests DEF LifecycleInv, FreePcs
  <2>4. QED
    BY <1>1, <2>2, <2>3, Turning DEF Turns
<1>3. CASE DropLock(t)
  BY <1>1, <1>3, Leaving DEF DropLock
<1>4. QED
  BY <1>2, <1>3

(* Facts the operator or the watcher notes of a task.                        *)
LEMMA NotingKeeps ==
    ASSUME NEW t \in Tasks, LifecycleInv, RecordPR(t) \/ Deliver(t)
    PROVE  Kept
<1>1. FactCall(t) /\ UNCHANGED external /\ cmd' = cmd
  BY DEF RecordPR, Deliver, FactCall, StoreOnly
<1>2. attempt' = attempt
  BY <1>1, FactCalls
<1>3. QED
  BY <1>1, <1>2, SaysFacts, Staying

(* The watcher notes what the worker reported.                               *)
LEMMA ReportKeeps ==
    ASSUME NEW t \in Tasks, LifecycleInv, RecordReport(t)
    PROVE  Kept
<1> PICK a : a = task[t].active
  OBVIOUS
<1>1. /\ cmd[t] = Idle /\ cmd' = cmd /\ UNCHANGED external /\ task[t].life = "open"
      /\ \E reported \in ReportStates :
            UpdateAttemptObservation(t, a, "running", FALSE, reported)
  BY DEF RecordReport, StoreOnly
<1>2. a \in Attempts
  BY <1>1 DEF LifecycleInv, StoreInv, StoreTypeOK, OneOwner, TaskRow
<1>3. QuietCall(t, a)
  BY <1>1 DEF QuietCall
<1>4. Leave(t)
  BY <1>1 DEF Leave, LifecycleInv, CommandsTyped
<1>5. Effect(t)
  BY <1>1, <1>2, <1>3, SaysQuietly
<1> QED
  BY <1>4, <1>5, Leaving

(* Every step keeps the invariant, and is a step of the store or none.       *)
LEMMA LifecycleInvInductive ==
    ASSUME LifecycleInv, [LifecycleNext]_vars
    PROVE  Kept
<1>1. ASSUME NEW t \in Tasks,
             CommandStep(t) \/ RecordPR(t) \/ RecordReport(t) \/ Deliver(t) \/ Crash(t)
      PROVE  Kept
  BY <1>1, LaunchKeeps, TeardownKeeps, PromoteKeeps, ReconcileKeeps, DyingKeeps, NotingKeeps,
     ReportKeeps DEF CommandStep
<1>2. CASE UNCHANGED vars
  <2>1. UNCHANGED storeVars /\ UNCHANGED external /\ cmd' = cmd /\ attempt' = attempt
    BY <1>2 DEF vars, storeVars, external
  <2>2. CommandsTyped' /\ Fades /\ WorldTyped'
    BY <2>1, StillFades DEF LifecycleInv, CommandsTyped, CommandOK, external, WorldTyped
  <2>3. Stages'
    <3>1. ASSUME NEW t \in Tasks
          PROVE  Stage(t)'
      BY <2>1, <2>2, OthersKeep DEF LifecycleInv, Stages, Fades
    <3>2. QED
      BY <3>1 DEF Stages
  <2>4. Ordinary
    BY <2>1, <2>2 DEF Ordinary, LeaseKept, RowsQuiet
  <2>5. RowsOK' /\ Recorded' /\ Apart' /\ ReleasedForGood' /\ AgentsAreClaimed'
    BY <2>4, OrdinaryRows, OrdinaryRecorded, OrdinaryApart, OrdinaryReleased, OrdinaryAgents
       DEF LifecycleInv
  <2>6. StoreInv'
    BY <2>1, StoreInvInductive DEF LifecycleInv
  <2>7. QED
    BY <2>1, <2>2, <2>3, <2>5, <2>6 DEF Kept, LifecycleInv
<1>3. QED
  BY <1>1, <1>2, WorldKeeps DEF LifecycleNext

(* It holds at first: nothing is recorded, nothing was handed out.           *)
LEMMA LifecycleInvInitially == LifecycleInit => LifecycleInv
<1> SUFFICES ASSUME LifecycleInit
             PROVE  LifecycleInv
  OBVIOUS
<1>1. StoreInv
  BY StoreInvInitially DEF LifecycleInit
<1>2. CommandsTyped /\ \A t \in Tasks : cmd[t] = Idle
  <2>1. Idle \in Command /\ Idle.pc = "idle"
    BY DEF Idle, Command, Operations, Attestations, Kinds, Pcs, FreePcs
  <2>2. "idle" \in FreePcs /\ "idle" \notin ScoutPcs /\ "idle" \notin LeasePcs
        /\ "idle" \notin RunPcs \union {"herdr"}
    BY DEF FreePcs, ScoutPcs, ScoutPanePcs, ScoutLeasePcs, LeasePcs, RunPcs
  <2>3. cmd \in [Tasks -> Command] /\ \A t \in Tasks : cmd[t] = Idle
    BY <2>1 DEF LifecycleInit, WorldInit
  <2>4. QED
    BY <2>1, <2>2, <2>3 DEF CommandsTyped, CommandOK
<1>3. WorldTyped
  BY DEF LifecycleInit, WorldInit, WorldTyped, Worktree, Fresh
<1>4. \A l \in Leases : lease[l] = "unissued"
  BY DEF LifecycleInit, WorldInit
<1>5. \A p \in Panes : pane[p].state = "unissued"
  BY DEF LifecycleInit, WorldInit
<1>6. \A a \in Attempts :
          /\ attempt[a].life = "absent" /\ attempt[a].decided = ""
          /\ attempt[a].worktree = NoLease /\ attempt[a].herdr = NoPane
          /\ attempt[a].settle["herdr"] = "" /\ attempt[a].settle["worktree"] = ""
  <2>1. ASSUME NEW a \in Attempts
        PROVE  /\ attempt[a].life = "absent" /\ attempt[a].decided = ""
               /\ attempt[a].worktree = NoLease /\ attempt[a].herdr = NoPane
               /\ attempt[a].settle = [r \in Resources |-> ""]
    BY DEF LifecycleInit, StoreInit, NewAttempt
  <2>2. "herdr" \in Resources /\ "worktree" \in Resources
    BY WorldAssumption
  <2>3. ASSUME NEW a \in Attempts
        PROVE  attempt[a].settle["herdr"] = "" /\ attempt[a].settle["worktree"] = ""
    BY <2>1, <2>2
  <2>4. QED
    BY <2>1, <2>3
<1>7. RowsOK /\ ReleasedForGood
  BY <1>6 DEF RowsOK, RowOK, ReleasedForGood
<1>8. Recorded /\ AgentsAreClaimed
  BY <1>5, <1>6 DEF Recorded, Opened, AgentsAreClaimed
<1>9. Apart
  <2>1. Idle.lease = NoLease
    BY DEF Idle
  <2>2. ASSUME NEW a \in Attempts, NEW l \in Leases
        PROVE  ~Holds(a, l)
    BY <1>2, <1>6, <2>1, StoreAssumption DEF Holds
  <2>3. QED
    BY <2>2 DEF Apart
<1>10. Stages
  <2>1. \A t \in Tasks : cmd[t].pc = "idle" /\ cmd[t].lease = NoLease
    <3>1. Idle.pc = "idle" /\ Idle.lease = NoLease
      BY DEF Idle
    <3>2. QED
      BY <1>2, <3>1
  <2>2. "idle" \notin ShipPcs /\ "idle" \notin ClosingPcs /\ "idle" \in FreePcs
    BY DEF ShipPcs, LaunchPcs, FreePcs, LeasePcs, RunPcs, ScoutPcs, ScoutPanePcs,
       ScoutLeasePcs, ClosingPcs, PanePcs, WorktreePcs, RecordPcs
  <2>3. ASSUME NEW t \in Tasks
        PROVE  Stage(t)
    <3>1. LaunchStage(t)
      BY <2>1, <2>2 DEF LaunchStage, ShipPcs, LaunchPcs, LeasePcs, RunPcs
    <3>2. ScoutStage(t)
      BY <2>1, <2>2 DEF ScoutStage, ShipPcs, ScoutPcs, ScoutPanePcs, ScoutLeasePcs
    <3>3. ClosingStage(t)
      BY <2>1, <2>2 DEF ClosingStage, ClosingPcs, PanePcs, WorktreePcs
    <3>4. QED
      BY <3>1, <3>2, <3>3 DEF Stage
  <2>4. QED
    BY <2>3 DEF Stages
<1>11. QED
  BY <1>1, <1>2, <1>3, <1>7, <1>8, <1>9, <1>10 DEF LifecycleInv

(* What a command knows in memory and what the database records of the world *)
(* hold of the world, through every launch, promotion, teardown and          *)
(* reconciliation, through crashes and whatever happens around hand.         *)
THEOREM LifecycleInvAlways == LifecycleSpec => []LifecycleInv
<1>1. LifecycleInv /\ [LifecycleNext]_vars => LifecycleInv'
  BY LifecycleInvInductive DEF Kept
<1>2. QED
  BY <1>1, LifecycleInvInitially, PTL DEF LifecycleSpec

(* Every transaction the commands ask for is one the database allows at that *)
(* moment: the commands implement the store.                                 *)
THEOREM StoreRefinedAlways == LifecycleSpec => StoreRefined
<1>1. LifecycleInit => StoreInit
  BY DEF LifecycleInit
<1>2. LifecycleInv /\ [LifecycleNext]_vars => [StoreNext]_storeVars
  BY LifecycleInvInductive DEF Kept
<1>3. QED
  BY <1>1, <1>2, LifecycleInvAlways, PTL DEF LifecycleSpec, StoreRefined, StoreSpec

(* A release is recorded only of what is gone for good.                      *)
THEOREM ReleasedIsGoneAlways == LifecycleSpec => []ReleasedIsGone
<1>1. LifecycleInv => ReleasedIsGone
  BY DEF LifecycleInv, ReleasedForGood, ReleasedIsGone, Back, Gone
<1>2. QED
  BY <1>1, LifecycleInvAlways, PTL

(* Every worker is recorded by an attempt that still has to settle it, and   *)
(* has its worktree to itself.                                               *)
THEOREM AgentsInvAlways == LifecycleSpec => []AgentsInv
<1>1. LifecycleInv => OneAgentPerWorktree
  <2> SUFFICES ASSUME LifecycleInv, NEW p \in Panes, NEW q \in Panes,
                      pane[p].state = "agent", pane[q].state = "agent",
                      pane[p].cwd = pane[q].cwd
               PROVE  p = q
    BY DEF OneAgentPerWorktree
  <2>1. PICK a \in Attempts : attempt[a].herdr = p
    BY DEF LifecycleInv, AgentsAreClaimed
  <2>2. PICK b \in Attempts : attempt[b].herdr = q
    BY DEF LifecycleInv, AgentsAreClaimed
  <2>3. PICK l \in Leases : l = pane[p].cwd
    BY DEF LifecycleInv, Recorded, Opened
  <2>4. Holds(a, l) /\ Holds(b, l)
    BY <2>1, <2>2, <2>3, StoreAssumption DEF Holds
  <2>5. a = b
    BY <2>4 DEF LifecycleInv, Apart
  <2>6. QED
    BY <2>1, <2>2, <2>5
<1>2. LifecycleInv => AgentsInv
  BY <1>1 DEF LifecycleInv, AgentsInv
<1>3. QED
  BY <1>2, LifecycleInvAlways, PTL

=============================================================================
