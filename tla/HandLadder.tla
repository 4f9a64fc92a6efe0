------------------------------- MODULE HandLadder -------------------------------
(***************************************************************************)
(* Reading state/hand.db without opening it for writing: a status or the   *)
(* preflight of a reopen looks at a database of an older version, whose    *)
(* migration must wait, while another process may migrate it.  What such a *)
(* reader selects follows the version it read when it opened the file.     *)
(*                                                                         *)
(* HandSchema shows that a version says which columns are there, so that   *)
(* the database is its version here, and a statement that names a column   *)
(* of a later version fails.  The rows themselves are left out.            *)
(***************************************************************************)
EXTENDS Naturals

CONSTANT Found      \* versions the database may be found at, besides a new one

(* schemaversion.go names them after what they are the last version without, *)
(* or the first one with.                                                    *)
splitVersion                == 8
teardownEvidenceVersion     == 10
repairMetadataVersion       == 12
sendSchemaVersion           == 13
holdInferredVersion         == 14
attemptBranchVersion        == 15
preAcknowledgementVersion   == 16
acknowledgedMetadataVersion == 17
Latest                      == 18

LadderAssumption == Found \subseteq splitVersion..Latest

VARIABLES
    version,    \* of state/hand.db; 0 is a database without tables, and no file at all
    reader      \* [pc, read, current]

ladderVars == <<version, reader>>

(* AddedBy[c]: the version whose migration adds the columns c, which is one  *)
(* more than the version that applyMigration is called with.                 *)
AddedBy == [routing  |-> 11,                               \* attempt: execution_class and so on
            repair   |-> repairMetadataVersion,            \* task
            episode  |-> sendSchemaVersion,                \* attempt: usage_limit_episode, ..._stuck_...
            inferred |-> holdInferredVersion + 1,          \* hold
            branch   |-> attemptBranchVersion + 1,         \* attempt
            acknowledged |-> preAcknowledgementVersion + 1]   \* task

Present(columns) == \A c \in columns : AddedBy[c] <= version

Reads == {"history", "list", "hold", "exact"}
Idle  == [pc |-> "idle", read |-> "exact", current |-> 0]

LadderInit == version \in Found \cup {0} /\ reader = Idle

-----------------------------------------------------------------------------
(* Another process opens the file for writing, one transaction per version;  *)
(* a database without tables is created with the latest layout.              *)
Migrate ==
    /\ version < Latest
    /\ version' = IF version = 0 THEN Latest ELSE version + 1
    /\ UNCHANGED reader

Begin(read) ==
    /\ reader.pc = "idle"
    /\ reader' = [Idle EXCEPT !.pc = "open", !.read = read]
    /\ UNCHANGED version

(* An empty database answers that there is nothing, whatever happens to it   *)
(* later; OpenReadOnly accepts the latest version, openReadOnlyForLifecycle  *)
(* every one since the teardown's evidence.                                  *)
Oldest == IF reader.read = "exact" THEN Latest ELSE teardownEvidenceVersion

OpenReadOnly ==
    /\ reader.pc = "open"
    /\ reader' = [reader EXCEPT !.current = version,
                    !.pc = IF version = 0 THEN "answered"
                           ELSE IF version < Oldest THEN "refused" ELSE "first"]
    /\ UNCHANGED version

-----------------------------------------------------------------------------
(* Column lists: of a task, of an attempt.                                   *)
taskColumns                      == {"repair", "acknowledged"}
taskColumnsBeforeAcknowledgement == {"repair"}
taskColumnsBeforeRepair          == {}
attemptColumns                   == {"routing", "episode", "branch"}
attemptColumnsBeforeSend         == {"routing"}
attemptColumnsBeforeRouting      == {}

Rung(task, attempt) == [first |-> task, second |-> attempt]
Full                == Rung(taskColumns, attemptColumns)
BeforeAcknowledgement == Rung(taskColumnsBeforeAcknowledgement, attemptColumns)
BeforeSend            == Rung(taskColumnsBeforeAcknowledgement, attemptColumnsBeforeSend)

(* ReadTaskHistoryReadOnly.                                                  *)
HistoryRung(v) ==
    IF v >= acknowledgedMetadataVersion THEN Full
    ELSE IF v \in {attemptBranchVersion, preAcknowledgementVersion} THEN BeforeAcknowledgement
    ELSE IF v \in repairMetadataVersion..holdInferredVersion THEN BeforeSend
    ELSE IF v = repairMetadataVersion - 1
         THEN Rung(taskColumnsBeforeRepair, attemptColumnsBeforeSend)
    ELSE Rung(taskColumnsBeforeRepair, attemptColumnsBeforeRouting)

(* ListReconciliationHistoriesReadOnly.                                      *)
ListRung(v) ==
    IF v \in {attemptBranchVersion, preAcknowledgementVersion} THEN BeforeAcknowledgement
    ELSE IF v \in repairMetadataVersion..holdInferredVersion THEN BeforeSend
    ELSE Full

(* Mutant: a hold has the column at the version that is named after it.      *)
HoldRungEarly(v) == Rung(IF v < holdInferredVersion THEN {} ELSE {"inferred"}, {})

(* ReadHoldReadOnly: one statement.                                          *)
HoldRung(v) == Rung(IF v <= holdInferredVersion THEN {} ELSE {"inferred"}, {})

Selected ==
    LET v == reader.current IN
    CASE reader.read = "history" -> HistoryRung(v)
      [] reader.read = "list"    -> ListRung(v)
      [] reader.read = "hold"    -> HoldRung(v)
      [] reader.read = "exact"   -> Full

(* The statement on the task, or the hold, and that on its attempts.         *)
Select(statement, next) ==
    /\ reader.pc = statement
    /\ reader' = [reader EXCEPT !.pc = IF Present(Selected[statement]) THEN next ELSE "failed"]
    /\ UNCHANGED version

Close ==
    /\ reader.pc \in {"answered", "refused", "failed"}
    /\ reader' = Idle
    /\ UNCHANGED version

LadderNext ==
    \/ Migrate
    \/ \E read \in Reads : Begin(read)
    \/ OpenReadOnly
    \/ Select("first", "second") \/ Select("second", "answered")
    \/ Close

LadderSpec == LadderInit /\ [][LadderNext]_ladderVars

-----------------------------------------------------------------------------
(* A reader that did not refuse a database finds the columns it selects      *)
(* (store.go:560), whatever is migrated between its opening and its          *)
(* statements.                                                               *)
AcceptedIsReadable == reader.pc # "failed"

(* Where it does not: at version 15, which names itself after a column that  *)
(* the migration to 16 adds, and in the listing of a database that is older  *)
(* than its oldest rung.                                                     *)
Gaps == {<<"history", 15>>, <<"list", 15>>, <<"list", 10>>, <<"list", 11>>}

(* Everywhere else it does, and who reads only the latest version always.    *)
ReadableBesideGaps == reader.pc = "failed" => <<reader.read, reader.current>> \in Gaps

=============================================================================
