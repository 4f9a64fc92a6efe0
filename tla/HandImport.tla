------------------------------ MODULE HandImport ------------------------------
(***************************************************************************)
(* The one-way import of state/<id>.json, a task that a hand without a     *)
(* database left running: every Open lists the files, imports each in four *)
(* statements and archives them all, under the lock "migration", while     *)
(* other processes open the same home and, once they have it open, end,    *)
(* delete and reopen its tasks.                                            *)
(***************************************************************************)
EXTENDS Naturals, FiniteSets

CONSTANTS
    Importers,      \* processes that open the home
    Files,          \* ids of the tasks with a JSON file
    Undelivered,    \* those whose file holds a message that was not delivered
    MaxCommands,    \* bound on what is done to the imported tasks
    MaxCrashes

Nobody == "nobody"

ImportAssumption ==
    /\ Nobody \notin Importers
    /\ Undelivered \subseteq Files
    /\ MaxCommands \in Nat /\ MaxCrashes \in Nat

VARIABLES
    there,      \* the files in state/; the others are in state/migrated/
    rows,       \* rows[f]: the task's rows in the database
    importLock, \* holder of the lock "migration"
    at,         \* at[p]: where migrateLegacy is, and its local variables
    commands,
    crashes

importVars == <<there, rows, importLock, at, commands, crashes>>

NoRow == [task |-> "absent", attempts |-> 0, sends |-> 0, imports |-> 0, old |-> FALSE]

Idle == [pc |-> "idle", names |-> {}, todo |-> {}, file |-> Nobody]

ImportInit ==
    /\ there = Files
    /\ rows = [f \in Files |-> NoRow]
    /\ importLock = Nobody
    /\ at = [p \in Importers |-> Idle]
    /\ commands = 0 /\ crashes = 0

-----------------------------------------------------------------------------
Is(p, pc)   == at[p].pc = pc
Goto(p, pc) == at' = [at EXCEPT ![p].pc = pc]
Quiet       == UNCHANGED <<commands, crashes>>

(* The listing before the lock; no file, nothing to do.                      *)
ListFiles(p) ==
    /\ Is(p, "idle")
    /\ Goto(p, IF there = {} THEN "open" ELSE "lock")
    /\ UNCHANGED <<there, rows, importLock>> /\ Quiet

LockImport(p) ==
    /\ Is(p, "lock") /\ importLock = Nobody
    /\ importLock' = p
    /\ Goto(p, "relist")
    /\ UNCHANGED <<there, rows>> /\ Quiet

(* What is listed under the lock is what is imported, and archived.          *)
Relist(p) ==
    /\ Is(p, "relist")
    /\ IF there = {}
       THEN Goto(p, "open") /\ importLock' = Nobody
       ELSE /\ at' = [at EXCEPT ![p] = [pc |-> "next", names |-> there, todo |-> there, file |-> Nobody]]
            /\ UNCHANGED importLock
    /\ UNCHANGED <<there, rows>> /\ Quiet

(* INSERT OR IGNORE: a row the database has wins over the snapshot.          *)
InsertTask(p) ==
    /\ Is(p, "next") /\ at[p].todo # {}
    /\ \E f \in at[p].todo :
         /\ at' = [at EXCEPT ![p].todo = @ \ {f}, ![p].file = f, ![p].pc = "attempt"]
         /\ rows' = [rows EXCEPT ![f].task = IF @ = "absent" THEN "open" ELSE @]
    /\ UNCHANGED <<there, importLock>> /\ Quiet

(* Mutant: an attempt whenever the task is open.                             *)
AlwaysWanted(f) == rows[f].task = "open"

AttemptWanted(f) == rows[f].task = "open" /\ rows[f].attempts = 0

(* legacyAttemptMatches: the one attempt is the snapshot's own.              *)
AttemptMatches(f) == rows[f].task = "open" /\ rows[f].attempts = 1 /\ rows[f].old

(* An attempt for an open task without one; the message of the attempt that  *)
(* was created, or of the one attempt that the snapshot describes, is next.  *)
ImportAttempt(p) ==
    LET f == at[p].file IN
    /\ Is(p, "attempt")
    /\ IF AttemptWanted(f)
       THEN rows' = [rows EXCEPT ![f].attempts = @ + 1, ![f].imports = @ + 1, ![f].old = TRUE]
       ELSE UNCHANGED rows
    /\ Goto(p, IF f \in Undelivered /\ (AttemptWanted(f) \/ AttemptMatches(f))
               THEN "send" ELSE "next")
    /\ UNCHANGED <<there, importLock>> /\ Quiet

(* Mutant: whatever is there.                                                *)
InsertLegacySend(p) ==
    LET f == at[p].file IN
    /\ Is(p, "send")
    /\ rows' = [rows EXCEPT ![f].sends = @ + 1]
    /\ Goto(p, "next")
    /\ UNCHANGED <<there, importLock>> /\ Quiet

(* ImportLegacySend inserts what is not there.                               *)
ImportLegacySend(p) ==
    LET f == at[p].file IN
    /\ Is(p, "send")
    /\ rows' = [rows EXCEPT ![f].sends = IF @ = 0 THEN 1 ELSE @]
    /\ Goto(p, "next")
    /\ UNCHANGED <<there, importLock>> /\ Quiet

Archive(p) ==
    /\ Is(p, "next") /\ at[p].todo = {}
    /\ at[p].names # {}
    /\ \E f \in at[p].names :
         /\ there' = there \ {f}
         /\ at' = [at EXCEPT ![p].names = @ \ {f}]
    /\ UNCHANGED <<rows, importLock>> /\ Quiet

Imported(p) ==
    /\ Is(p, "next") /\ at[p].todo = {} /\ at[p].names = {}
    /\ Goto(p, "open")
    /\ importLock' = Nobody
    /\ UNCHANGED <<there, rows>> /\ Quiet

(* What a command does to a task it finds in the database it has open.       *)
Command(p) ==
    /\ Is(p, "open")
    /\ commands < MaxCommands /\ commands' = commands + 1
    /\ \E f \in Files :
         \/ rows[f].task = "open"                       \* teardown
            /\ rows' = [rows EXCEPT ![f].task = "terminal"]
         \/ rows[f].task = "open" /\ rows[f].attempts > 0    \* promote
            /\ rows' = [rows EXCEPT ![f].attempts = @ + 1]
         \/ rows[f].task = "terminal"                   \* reopen
            /\ rows' = [rows EXCEPT ![f].task = "open", ![f].attempts = @ + 1]
    /\ UNCHANGED <<there, importLock, at, crashes>>

Close(p) ==
    /\ Is(p, "open")
    /\ at' = [at EXCEPT ![p] = Idle]
    /\ UNCHANGED <<there, rows, importLock>> /\ Quiet

Crash(p) ==
    /\ crashes < MaxCrashes /\ crashes' = crashes + 1
    /\ ~Is(p, "idle")
    /\ at' = [at EXCEPT ![p] = Idle]
    /\ importLock' = IF importLock = p THEN Nobody ELSE importLock
    /\ UNCHANGED <<there, rows, commands>>

Import(p) ==
    \/ ListFiles(p) \/ LockImport(p) \/ Relist(p) \/ InsertTask(p)
    \/ ImportAttempt(p) \/ ImportLegacySend(p) \/ Archive(p) \/ Imported(p)

ImportNext == \E p \in Importers : Import(p) \/ Command(p) \/ Close(p) \/ Crash(p)

ImportSpec == ImportInit /\ [][ImportNext]_importVars

-----------------------------------------------------------------------------
(* A task of the old hand enters the database whole and once (migrate.go:40, *)
(* 46, 71, 95): when its file is archived its row, its attempt and the       *)
(* message it did not deliver are there; nothing is imported a second time,  *)
(* however often a dying import is repeated and whatever was done to the     *)
(* task since; and no process has the home open before that.                 *)
ImportedWholeAndOnce ==
    /\ \A f \in Files :
         /\ rows[f].imports <= 1 /\ rows[f].sends <= 1
         /\ f \notin there \/ (\E p \in Importers : Is(p, "open")) =>
               /\ rows[f].task # "absent" /\ rows[f].imports = 1
               /\ f \in Undelivered => rows[f].sends = 1

=============================================================================
