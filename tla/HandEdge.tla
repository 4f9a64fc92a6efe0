-------------------------------- MODULE HandEdge --------------------------------
(***************************************************************************)
(* Publishing the rolling release: one job at a time replaces the assets of*)
(* the release "edge" with those of a newer commit and then moves the tag. *)
(* GitHub renames and deletes one asset per call; a job is killed or a call*)
(* fails between any two of them, and the next job recovers what it finds. *)
(*                                                                         *)
(* An asset is known by the commit it was built from.  The first publication*)
(* (a draft under another tag) is not part of this: the release is there.  *)
(***************************************************************************)
EXTENDS Naturals, FiniteSets

CONSTANTS
    Assets,     \* download names
    MaxCommit,  \* commits are 1..MaxCommit; 1 is published
    FaultSets,  \* which of FaultNames can happen in the same behaviour
    MaxFaults

(* A job is killed; a call of it fails before, or after, it took effect; a   *)
(* call of its rollback fails.                                               *)
FaultNames == {"kill", "callFails", "answerLost", "rollbackFails"}

EdgeAssumption == IsFiniteSet(Assets) /\ FaultSets \subseteq SUBSET FaultNames

VARIABLES
    final,      \* final[a]: the commit of the asset with the download name a, 0 for none
    staged,     \* <<commit, a>> of edge-staging-<commit>-a
    previous,   \* [group, asset, commit] of edge-previous-<group>-<asset>
    tag,        \* what the tag edge names
    job,        \* the running job, and what it remembers
    faults      \* [kinds, count]: those of this behaviour

edgeVars == <<final, staged, previous, tag, job, faults>>

Commits == 1..MaxCommit
NoJob   == [pc |-> "none", commit |-> 0, recovery |-> 0, backedUp |-> {}, promoted |-> {},
            left |-> {}]

EdgeInit ==
    /\ final = [a \in Assets |-> 1]
    /\ staged = {} /\ previous = {}
    /\ tag = 1
    /\ job = NoJob
    /\ faults \in [kinds: FaultSets, count: {0}]

-----------------------------------------------------------------------------
At(pc)      == job.pc = pc
Missing     == {a \in Assets : final[a] = 0}
Group(g)    == {b \in previous : b.group = g}
Backup(g, a) == {b \in previous : b.group = g /\ b.asset = a}
Goto(pc)    == job' = [job EXCEPT !.pc = pc, !.left = Assets]
Done(a, next) ==        \* one asset of a loop is done; the last one ends the loop
    job' = [job EXCEPT !.left = @ \ {a}, !.pc = IF job.left = {a} THEN next ELSE @]
Calm        == UNCHANGED faults
Fault(f)    == /\ f \in faults.kinds /\ faults.count < MaxFaults
               /\ faults' = [faults EXCEPT !.count = @ + 1]

(* Mutant: the tag moves first.                                              *)
StartByTag(c) ==
    /\ At("none") /\ c > tag
    /\ job' = [NoJob EXCEPT !.pc = "inspect", !.commit = c]
    /\ tag' = c
    /\ UNCHANGED <<final, staged, previous>> /\ Calm

(* The workflow's final check: newer than the tag; jobs do not overlap.      *)
Start(c) ==
    /\ At("none") /\ c > tag
    /\ job' = [NoJob EXCEPT !.pc = "inspect", !.commit = c]
    /\ UNCHANGED <<final, staged, previous, tag>> /\ Calm

(* The group of backups that an incomplete set is recovered from: one that is*)
(* whole, or one that has exactly what is missing, if it is the only one.    *)
Groups      == {b.group : b \in previous}
WholeGroups == {g \in Groups : Cardinality(Group(g)) = Cardinality(Assets)}
GapGroups   == {g \in Groups \ WholeGroups : {b.asset : b \in Group(g)} = Missing}

Recovery ==
    IF Cardinality(WholeGroups \cup GapGroups) = 1 THEN WholeGroups \cup GapGroups ELSE {}

(* Mutant: only what is missing is restored, whatever the rest was built from. *)
RestoringGap(g) == Missing

(* A whole group replaces what there is of the set.                          *)
Restoring(g) == IF g \in WholeGroups THEN Assets ELSE Missing

(* Refused without a mutation if there are backups and no single group fits. *)
Inspect ==
    /\ At("inspect")
    /\ \/ Missing = {} /\ Goto("stale")
       \/ Missing # {} /\ Groups = {} /\ Goto("ownStaging")
       \/ Missing # {} /\ Groups # {} /\ Recovery = {} /\ job' = NoJob
       \/ /\ Missing # {}
          /\ \E g \in Recovery :
               job' = [job EXCEPT !.recovery = g, !.left = Restoring(g),
                         !.pc = IF Restoring(g) = Assets THEN "dropPartial" ELSE "restore"]
    /\ UNCHANGED <<final, staged, previous, tag>> /\ Calm

DropPartial(a) ==
    /\ At("dropPartial") /\ a \in job.left
    /\ final' = [final EXCEPT ![a] = 0]
    /\ IF job.left = {a} THEN Goto("restore") ELSE Done(a, "restore")
    /\ UNCHANGED <<staged, previous, tag>> /\ Calm

(* A rename: the asset moves from a backup to the download name.             *)
Restored(g, a) ==
    /\ final' = [final EXCEPT ![a] = (CHOOSE b \in Backup(g, a) : TRUE).commit]
    /\ previous' = previous \ Backup(g, a)

Restore(a) ==
    /\ At("restore") /\ a \in job.left
    /\ Restored(job.recovery, a)
    /\ Done(a, "stale")
    /\ UNCHANGED <<staged, tag>> /\ Calm

DeleteStale ==
    /\ At("stale")
    /\ \/ \E s \in staged : staged' = staged \ {s} /\ UNCHANGED <<previous, job>>
       \/ \E b \in previous : previous' = previous \ {b} /\ UNCHANGED <<staged, job>>
       \/ staged = {} /\ previous = {} /\ Goto("ownStaging") /\ UNCHANGED <<staged, previous>>
    /\ UNCHANGED <<final, tag>> /\ Calm

(* Staging assets of an earlier job of the same commit; from here a failure  *)
(* rolls back.                                                               *)
DeleteOwnStaging(a) ==
    /\ At("ownStaging") /\ a \in job.left
    /\ staged' = staged \ {<<job.commit, a>>}
    /\ IF job.left = {a} THEN Goto("upload") ELSE Done(a, "upload")
    /\ UNCHANGED <<final, previous, tag>> /\ Calm

Upload(a) ==
    /\ At("upload") /\ a \in job.left
    /\ staged' = staged \cup {<<job.commit, a>>}
    /\ IF job.left = {a} THEN Goto("backUp") ELSE Done(a, "backUp")
    /\ UNCHANGED <<final, previous, tag>> /\ Calm

(* A clashing backup is deleted, and the download name renamed to it.        *)
BackedUp(a) ==
    /\ previous' = IF final[a] = 0 THEN previous
                   ELSE (previous \ Backup(job.commit, a))
                          \cup {[group |-> job.commit, asset |-> a, commit |-> final[a]]}
    /\ final' = [final EXCEPT ![a] = 0]

BackUp(a) ==
    /\ At("backUp") /\ a \in job.left
    /\ BackedUp(a)
    /\ job' = [job EXCEPT !.left = IF @ = {a} THEN Assets ELSE @ \ {a},
                          !.pc = IF job.left = {a} THEN "promote" ELSE @,
                          !.backedUp = IF final[a] = 0 THEN @ ELSE @ \cup {a}]
    /\ UNCHANGED <<staged, tag>> /\ Calm

Promoted(a) ==
    /\ final' = [final EXCEPT ![a] = job.commit]
    /\ staged' = staged \ {<<job.commit, a>>}

Promote(a) ==
    /\ At("promote") /\ a \in job.left
    /\ Promoted(a)
    /\ job' = [job EXCEPT !.left = IF @ = {a} THEN Assets ELSE @ \ {a},
                          !.pc = IF job.left = {a} THEN "dropBackups" ELSE @,
                          !.promoted = @ \cup {a}]
    /\ UNCHANGED <<previous, tag>> /\ Calm

DropBackup(a) ==
    /\ At("dropBackups") /\ a \in job.left
    /\ previous' = previous \ Backup(job.commit, a)
    /\ Done(a, "tag")
    /\ UNCHANGED <<final, staged, tag>> /\ Calm

(* The release is edited, and the tag pushed.                                *)
MoveTag ==
    /\ At("tag")
    /\ tag' = job.commit
    /\ job' = NoJob
    /\ UNCHANGED <<final, staged, previous>> /\ Calm

-----------------------------------------------------------------------------
(* A call fails after the trap was set: the job goes on with its rollback.   *)
Trapped == job.pc \in {"upload", "backUp", "promote", "dropBackups"}

CallFails ==
    /\ Trapped /\ Fault("callFails")
    /\ Goto("undoPromote")
    /\ UNCHANGED <<final, staged, previous, tag>>

(* It took effect, and the job does not remember it.                         *)
AnswerLost ==
    /\ Fault("answerLost")
    /\ \E a \in job.left :
         \/ At("backUp") /\ BackedUp(a) /\ UNCHANGED staged
         \/ At("promote") /\ Promoted(a) /\ UNCHANGED previous
         \/ /\ At("dropBackups") /\ previous' = previous \ Backup(job.commit, a)
            /\ UNCHANGED <<final, staged>>
    /\ Goto("undoPromote")
    /\ UNCHANGED tag

(* rollback: what was promoted goes back to its staging name, what was backed*)
(* up to its download name unless that is taken, and the staging assets go.  *)
UndoPromote(a) ==
    /\ At("undoPromote") /\ a \in job.left
    /\ IF a \in job.promoted /\ final[a] # 0
       THEN /\ staged' = staged \cup {<<final[a], a>>}
            /\ final' = [final EXCEPT ![a] = 0]
       ELSE UNCHANGED <<final, staged>>
    /\ IF job.left = {a} THEN Goto("undoBackup") ELSE Done(a, "undoBackup")
    /\ UNCHANGED <<previous, tag>> /\ Calm

UndoBackup(a) ==
    /\ At("undoBackup") /\ a \in job.left
    /\ IF a \in job.backedUp /\ Backup(job.commit, a) # {} /\ final[a] = 0
       THEN Restored(job.commit, a)
       ELSE UNCHANGED <<final, previous>>
    /\ IF job.left = {a} THEN Goto("undoUpload") ELSE Done(a, "undoUpload")
    /\ UNCHANGED <<staged, tag>> /\ Calm

UndoUpload(a) ==
    /\ At("undoUpload") /\ a \in job.left
    /\ staged' = staged \ {<<job.commit, a>>}
    /\ IF job.left = {a} THEN job' = NoJob ELSE Done(a, "none")
    /\ UNCHANGED <<final, previous, tag>> /\ Calm

(* set +e: a rollback call that fails is passed over.                        *)
RollbackFails(a) ==
    /\ Fault("rollbackFails")
    /\ a \in job.left
    /\ \/ At("undoPromote") /\ IF job.left = {a} THEN Goto("undoBackup") ELSE Done(a, "undoBackup")
       \/ At("undoBackup") /\ IF job.left = {a} THEN Goto("undoUpload") ELSE Done(a, "undoUpload")
       \/ At("undoUpload") /\ IF job.left = {a} THEN job' = NoJob ELSE Done(a, "none")
    /\ UNCHANGED <<final, staged, previous, tag>>

(* Also a call that fails before the trap, or after it was taken back.       *)
Kill ==
    /\ ~At("none") /\ Fault("kill")
    /\ job' = NoJob
    /\ UNCHANGED <<final, staged, previous, tag>>

EdgeNext ==
    \/ \E c \in Commits : Start(c)
    \/ Inspect \/ DeleteStale \/ MoveTag
    \/ \E a \in Assets :
          \/ DropPartial(a) \/ Restore(a) \/ DeleteOwnStaging(a) \/ Upload(a)
          \/ BackUp(a) \/ Promote(a) \/ DropBackup(a)
          \/ UndoPromote(a) \/ UndoBackup(a) \/ UndoUpload(a) \/ RollbackFails(a)
    \/ CallFails \/ AnswerLost \/ Kill

EdgeSpec == EdgeInit /\ [][EdgeNext]_edgeVars

-----------------------------------------------------------------------------
(* What stands under the download names between two jobs is never "a mixed   *)
(* one" (docs/adr/edge-is-one-mutable-tag-published-only-by-ci.md), and never*)
(* older than the tag, however many jobs were killed where.                  *)
NeverMixed ==
    At("none") => \A a, b \in Assets \ Missing : final[a] = final[b] /\ final[a] >= tag

=============================================================================
