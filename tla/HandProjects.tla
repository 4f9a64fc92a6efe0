----------------------------- MODULE HandProjects -----------------------------
(***************************************************************************)
(* The projects of a fleet: a row per project in the database, a clone     *)
(* with an origin under projects/, and data/projects.md, which lists the   *)
(* rows for people, and which an older hand kept instead of the rows.      *)
(* Commands add, create, repoint, sync and remove projects and spawn tasks *)
(* into them, while clones and writes fail and commands die.               *)
(*                                                                         *)
(* A row is its URL, or Local for a project without an origin; the upstream*)
(* is a second value of the row that nothing here depends on.              *)
(***************************************************************************)
EXTENDS Naturals, FiniteSets

CONSTANTS
    Commands,       \* processes that run one command after another
    Names,          \* names of projects
    Urls,           \* URLs of remote repositories
    Legacy,         \* Names that an older hand listed in projects.md
    MaxCommands,
    MaxFaults       \* bound on clones and writes that fail, and on crashes

Nobody == "nobody"
None   == "none"
Local  == "local"
Home   == CHOOSE u \in Urls : TRUE      \* where the legacy projects are from

ProjectsAssumption ==
    /\ Nobody \notin Commands
    /\ Urls # {} /\ None \notin Urls /\ Local \notin Urls
    /\ Legacy \subseteq Names /\ Names \cap {"registry", "migration"} = {}

VARIABLES
    row,        \* row[n]: the project's URL in the database
    listed,     \* listed[n]: its URL in projects.md
    imported,   \* the mark that projects.md was imported
    clone,      \* clone[n]: projects/n and its origin
    tasks,      \* projects with an open task
    locks,      \* locks[l]: holder, of a project's lock, "registry", "migration"
    command,    \* command[p]: where it is, and its local variables
    behind,     \* a write of projects.md was missed (history)
    torn,       \* projects whose repointing was cut off (history)
    begun, faults

projectVars ==
    <<row, listed, imported, clone, tasks, locks, command, behind, torn, begun, faults>>

NoClone == [at |-> "absent", origin |-> None]
Idle == [pc |-> "idle", kind |-> None, name |-> None, url |-> None, next |-> None,
         old |-> None, origin |-> None, rows |-> {}, failing |-> FALSE]

ProjectsInit ==
    /\ row = [n \in Names |-> None]
    /\ listed = [n \in Names |-> IF n \in Legacy THEN Home ELSE None]
    /\ imported = FALSE
    /\ clone = [n \in Names |-> IF n \in Legacy THEN [at |-> "whole", origin |-> Home] ELSE NoClone]
    /\ tasks = {}
    /\ locks = [l \in Names \cup {"registry", "migration"} |-> Nobody]
    /\ command = [p \in Commands |-> Idle]
    /\ behind = FALSE /\ torn = {}
    /\ begun = 0 /\ faults = 0

-----------------------------------------------------------------------------
Is(p, pc)   == command[p].pc = pc
Kind(p)     == command[p].kind
Name(p)     == command[p].name
Goto(p, pc) == command' = [command EXCEPT ![p].pc = pc]
GotoOpen(p, next) == command' = [command EXCEPT ![p].pc = "open", ![p].next = next]

Fault       == faults < MaxFaults /\ faults' = faults + 1
Calm        == UNCHANGED faults
Records     == <<row, listed, imported>>
Histories   == <<behind, torn>>
Free(l)     == locks[l] = Nobody
Take(p, l)  == Free(l) /\ locks' = [locks EXCEPT ![l] = p]
LeaveAll(p) == locks' = [l \in DOMAIN locks |-> IF locks[l] = p THEN Nobody ELSE locks[l]]
Leave(p, l) == locks' = [locks EXCEPT ![l] = Nobody]
Finish(p)   == command' = [command EXCEPT ![p] = Idle] /\ LeaveAll(p)

(* What a command does first: upstream and remove open the registry right    *)
(* away, sync looks its project up before it locks it, spawn locks nothing.  *)
Begin(p, kind, n, u) ==
    /\ Is(p, "idle")
    /\ begun < MaxCommands /\ begun' = begun + 1
    /\ kind \in {"set-url", "sync"} => u # Local
    /\ LET start == [Idle EXCEPT !.kind = kind, !.name = n, !.url = u]
           first == CASE kind \in {"add", "set-url"}      -> <<"lockProject", None>>
                      [] kind = "remove"                  -> <<"active", None>>
                      [] kind = "upstream"                -> <<"lockRegistry", None>>
                      [] kind = "sync"                    -> <<"open", "target">>
                      [] kind = "spawn"                   -> <<"open", "createTask">>
       IN  command' = [command EXCEPT ![p] = [start EXCEPT !.pc = first[1], !.next = first[2]]]
    /\ UNCHANGED <<row, listed, imported, clone, tasks, locks, behind, torn>> /\ Calm

-----------------------------------------------------------------------------
(* openRegistry: import projects.md unless that was done.                    *)
OpenRegistry(p) ==
    /\ Is(p, "open")
    /\ Goto(p, IF imported THEN command[p].next ELSE "import")
    /\ UNCHANGED <<Records, clone, tasks, locks, Histories, begun>> /\ Calm

(* Mutant: the mark that was read before the lock will do.                   *)
LockImportBlindly(p) ==
    /\ Is(p, "import")
    /\ Take(p, "migration")
    /\ command' = [command EXCEPT ![p].pc = "rows",
                     ![p].rows = {<<n, listed[n]>> : n \in {m \in Names : listed[m] # None}}]
    /\ UNCHANGED <<Records, clone, tasks, Histories, begun>> /\ Calm

(* The mark and the file are read again under the lock; an empty file leaves *)
(* no mark.                                                                  *)
LockImport(p) ==
    /\ Is(p, "import")
    /\ Free("migration")
    /\ LET listing == {n \in Names : listed[n] # None} IN
       IF imported \/ listing = {}
       THEN Goto(p, command[p].next) /\ UNCHANGED locks
       ELSE /\ Take(p, "migration")
            /\ command' = [command EXCEPT ![p].pc = "rows",
                             ![p].rows = {<<n, listed[n]>> : n \in listing}]
    /\ UNCHANGED <<Records, clone, tasks, Histories, begun>> /\ Calm

(* A row that is there wins.                                                 *)
ImportRow(p) ==
    /\ Is(p, "rows")
    /\ \E r \in command[p].rows :
         /\ row' = [row EXCEPT ![r[1]] = IF @ = None THEN r[2] ELSE @]
         /\ command' = [command EXCEPT ![p].rows = @ \ {r}]
    /\ UNCHANGED <<listed, imported, clone, tasks, locks, Histories, begun>> /\ Calm

MarkImported(p) ==
    /\ Is(p, "rows") /\ command[p].rows = {}
    /\ imported' = TRUE
    /\ Leave(p, "migration")
    /\ Goto(p, command[p].next)
    /\ UNCHANGED <<row, listed, clone, tasks, Histories, begun>> /\ Calm

-----------------------------------------------------------------------------
LockProject(p) ==
    /\ Is(p, "lockProject")
    /\ Take(p, Name(p))
    /\ GotoOpen(p, IF Kind(p) = "add" THEN "reserve" ELSE "repoint")
    /\ UNCHANGED <<Records, clone, tasks, Histories, begun>> /\ Calm

(* hand project add and create: not registered, and nothing in its place.    *)
Reserve(p) ==
    LET n == Name(p) IN
    /\ Is(p, "reserve")
    /\ IF row[n] # None \/ clone[n].at # "absent"
       THEN Finish(p) /\ UNCHANGED clone
       ELSE /\ clone' = [clone EXCEPT ![n] = [at |-> "partial", origin |-> None]]
            /\ Goto(p, "clone")
            /\ UNCHANGED locks
    /\ UNCHANGED <<Records, tasks, Histories, begun>> /\ Calm

(* Clone, adopt or create the repository, and initialize its gate and pool.  *)
Clone(p) ==
    /\ Is(p, "clone")
    /\ clone' = [clone EXCEPT ![Name(p)] =
         [at |-> "whole", origin |-> IF command[p].url = Local THEN None ELSE command[p].url]]
    /\ Goto(p, "lockRegistry")
    /\ UNCHANGED <<Records, tasks, locks, Histories, begun>> /\ Calm

CloneFails(p) ==
    /\ Is(p, "clone") /\ Fault
    /\ Goto(p, "cleanUp")
    /\ UNCHANGED <<Records, clone, tasks, locks, Histories, begun>>

(* cleanupCloneAfterFailure.                                                 *)
CleanUp(p) ==
    /\ Is(p, "cleanUp")
    /\ clone' = [clone EXCEPT ![Name(p)] = NoClone]
    /\ Finish(p)
    /\ UNCHANGED <<Records, tasks, Histories, begun>> /\ Calm

(* sync: the project as it is before its lock; one without an origin, and    *)
(* one that GitHub did not rename, is not repointed.                         *)
Target(p) ==
    /\ Is(p, "target")
    /\ IF row[Name(p)] \in {None, Local}
       THEN Finish(p)
       ELSE Goto(p, "lockProject") /\ UNCHANGED locks
    /\ UNCHANGED <<Records, clone, tasks, Histories, begun>> /\ Calm

(* repointProject: of a registered project with an origin, set the origin,   *)
(* and then the URL of the row.                                              *)
Repoint(p) ==
    LET n == Name(p) IN
    /\ Is(p, "repoint")
    /\ IF row[n] \in {None, Local} \/ clone[n].origin = None
       THEN Finish(p) /\ UNCHANGED clone
       ELSE /\ command' = [command EXCEPT ![p].origin = clone[n].origin, ![p].pc = "lockRegistry"]
            /\ clone' = [clone EXCEPT ![n].origin = command[p].url]
            /\ UNCHANGED locks
    /\ UNCHANGED <<Records, tasks, Histories, begun>> /\ Calm

RestoreOrigin(p) ==
    /\ Is(p, "restoreOrigin")
    /\ clone' = [clone EXCEPT ![Name(p)].origin = command[p].origin]
    /\ Finish(p)
    /\ UNCHANGED <<Records, tasks, Histories, begun>> /\ Calm

RestoreOriginFails(p) ==
    /\ Is(p, "restoreOrigin") /\ Fault
    /\ torn' = torn \cup {Name(p)}
    /\ Finish(p)
    /\ UNCHANGED <<Records, clone, tasks, behind, begun>>

(* hand project remove asks for open tasks, and holds no lock of a project.  *)
Active(p) ==
    /\ Is(p, "active")
    /\ IF Name(p) \in tasks THEN Finish(p)
       ELSE Goto(p, "lockRegistry") /\ UNCHANGED locks
    /\ UNCHANGED <<Records, clone, tasks, Histories, begun>> /\ Calm

-----------------------------------------------------------------------------
(* Mutant: every writer renders the file from its own rows.                  *)
LockNothing(p) ==
    /\ Is(p, "lockRegistry")
    /\ GotoOpen(p, "change")
    /\ UNCHANGED <<Records, clone, tasks, locks, Histories, begun>> /\ Calm

(* project.Add, SetURL, SetUpstream and Remove: under the lock of the        *)
(* registry, open it, change the row and render projects.md.                 *)
LockRegistry(p) ==
    /\ Is(p, "lockRegistry")
    /\ Take(p, "registry")
    /\ GotoOpen(p, "change")
    /\ UNCHANGED <<Records, clone, tasks, Histories, begun>> /\ Calm

Registered(p) == row[Name(p)] # None

(* The way out of a change that failed, under the command that asked for it. *)
Undo(p) ==
    CASE Kind(p) = "add" -> "cleanUp"
      [] Kind(p) \in {"set-url", "sync"} -> "restoreOrigin"
      [] OTHER -> "end"

Refused(p) == IF Kind(p) = "add" THEN Registered(p) ELSE ~Registered(p)

ChangeRow(p) ==
    LET n == Name(p) IN
    /\ Is(p, "change")
    /\ IF Refused(p)
       THEN Goto(p, Undo(p)) /\ Leave(p, "registry") /\ UNCHANGED row
       ELSE /\ row' = [row EXCEPT ![n] =
                 CASE Kind(p) = "remove" -> None [] Kind(p) = "upstream" -> @ [] OTHER -> command[p].url]
            /\ command' = [command EXCEPT ![p].old = row[n], ![p].pc = "render"]
            /\ UNCHANGED locks
    /\ UNCHANGED <<listed, imported, clone, tasks, Histories, begun>> /\ Calm

ChangeFails(p) ==
    /\ Is(p, "change") /\ Fault
    /\ Goto(p, Undo(p)) /\ Leave(p, "registry")
    /\ UNCHANGED <<Records, clone, tasks, Histories, begun>>

(* writeProjection: list the rows, and replace the file.                     *)
Render(p) ==
    /\ Is(p, "render")
    /\ command' = [command EXCEPT ![p].rows = {<<n, row[n]>> : n \in Names}, ![p].pc = "project"]
    /\ UNCHANGED <<Records, clone, tasks, locks, Histories, begun>> /\ Calm

WriteProjection(p) ==
    /\ Is(p, "project")
    /\ listed' = [n \in Names |-> (CHOOSE r \in command[p].rows : r[1] = n)[2]]
    /\ behind' = FALSE
    /\ Finish(p)
    /\ UNCHANGED <<row, imported, clone, tasks, torn, begun>> /\ Calm

(* A projection that fails takes an added row, or a new URL, with it.        *)
ProjectionFails(p) ==
    /\ Is(p, "project") /\ Fault
    /\ behind' = (behind \/ Kind(p) \in {"remove", "upstream"})
    /\ Goto(p, IF Kind(p) \in {"remove", "upstream"} THEN "end" ELSE "rollBack")
    /\ UNCHANGED <<Records, clone, tasks, locks, torn, begun>>

RollBack(p) ==
    /\ Is(p, "rollBack")
    /\ row' = [row EXCEPT ![Name(p)] = IF @ = None THEN None ELSE command[p].old]
    /\ Goto(p, Undo(p)) /\ Leave(p, "registry")
    /\ UNCHANGED <<listed, imported, clone, tasks, Histories, begun>> /\ Calm

(* The row stays: an added project keeps its clone for the repair, and a     *)
(* repointed one gets its origin back although its row has the new URL.      *)
RollBackFails(p) ==
    /\ Is(p, "rollBack") /\ Fault
    /\ behind' = TRUE
    /\ torn' = IF Kind(p) = "add" THEN torn ELSE torn \cup {Name(p)}
    /\ Goto(p, IF Kind(p) = "add" THEN "end" ELSE "restoreOrigin") /\ Leave(p, "registry")
    /\ UNCHANGED <<Records, clone, tasks, begun>>

End(p) ==
    /\ Is(p, "end")
    /\ Finish(p)
    /\ UNCHANGED <<Records, clone, tasks, Histories, begun>> /\ Calm

-----------------------------------------------------------------------------
(* Runtime.Spawn: the project is found, the row of the task comes later.     *)
CreateTask(p) ==
    /\ Is(p, "createTask")
    /\ IF Registered(p) THEN Goto(p, "spawn") /\ UNCHANGED locks ELSE Finish(p)
    /\ UNCHANGED <<Records, clone, tasks, Histories, begun>> /\ Calm

Spawn(p) ==
    /\ Is(p, "spawn")
    /\ tasks' = tasks \cup {Name(p)}
    /\ Finish(p)
    /\ UNCHANGED <<Records, clone, Histories, begun>> /\ Calm

Teardown(n) ==
    /\ n \in tasks
    /\ tasks' = tasks \ {n}
    /\ UNCHANGED <<Records, clone, locks, command, Histories, begun>> /\ Calm

(* The clone of a removed project is the operator's to delete.               *)
OperatorDeletes(n) ==
    /\ row[n] = None /\ clone[n].at # "absent" /\ Free(n)
    /\ imported
    /\ clone' = [clone EXCEPT ![n] = NoClone]
    /\ torn' = torn \ {n}
    /\ UNCHANGED <<Records, tasks, locks, command, behind, begun>> /\ Calm

(* The row is changed, the file is not.                                      *)
Writing(p) == command[p].pc \in {"render", "project", "rollBack"}

(* A write that was begun and will not be finished is on record.             *)
Crash(p) ==
    /\ ~Is(p, "idle") /\ Fault
    /\ behind' = (behind \/ Writing(p))
    /\ torn' = IF Kind(p) \in {"set-url", "sync"} THEN torn \cup {Name(p)} ELSE torn
    /\ Finish(p)
    /\ UNCHANGED <<Records, clone, tasks, begun>>

Kinds == {"add", "remove", "upstream", "set-url", "sync", "spawn"}

ProjectStep(p) ==
    \/ OpenRegistry(p) \/ LockImport(p) \/ ImportRow(p) \/ MarkImported(p)
    \/ LockProject(p) \/ Reserve(p) \/ Clone(p) \/ CloneFails(p) \/ CleanUp(p)
    \/ Target(p) \/ Repoint(p) \/ RestoreOrigin(p) \/ RestoreOriginFails(p)
    \/ Active(p) \/ LockRegistry(p) \/ ChangeRow(p) \/ ChangeFails(p)
    \/ Render(p) \/ WriteProjection(p) \/ ProjectionFails(p)
    \/ RollBack(p) \/ RollBackFails(p) \/ End(p)
    \/ CreateTask(p) \/ Spawn(p)

ProjectsNext ==
    \/ \E p \in Commands :
          \/ \E kind \in Kinds, n \in Names, u \in Urls \cup {Local} : Begin(p, kind, n, u)
          \/ ProjectStep(p) \/ Crash(p)
    \/ \E n \in Names : Teardown(n) \/ OperatorDeletes(n)

ProjectsSpec == ProjectsInit /\ [][ProjectsNext]_projectVars

-----------------------------------------------------------------------------
(* A registered project has its repository (cmd/project.go:310): whichever   *)
(* step of a registration fails or is the last, no row is left without a     *)
(* whole clone behind it.                                                    *)
RowHasClone == \A n \in Names : row[n] # None => clone[n].at = "whole"

(* projects.md is kept in step (project.go:480): once it is imported, and    *)
(* unless a writer was cut off since, it lists the rows whenever nobody is   *)
(* writing, however many commands changed them at once.                      *)
ListedIsRegistered ==
    imported /\ ~behind /\ (\A p \in Commands : ~Writing(p))
        => \A n \in Names : listed[n] = row[n]

(* A project's URL and its clone's origin change together (hand project      *)
(* set-url: "updated together"), or, when a step fails, not at all; only two *)
(* failures in a row or a crash take them apart.                             *)
UrlIsOrigin ==
    \A n \in Names \ torn :
        /\ row[n] \notin {None, Local}
        /\ \A p \in Commands : Name(p) = n => Kind(p) \notin {"set-url", "sync"}
        => clone[n].origin = row[n]

ProjectsStand == RowHasClone /\ ListedIsRegistered /\ UrlIsOrigin

(* A project that was removed stays removed (project.go:113): no process     *)
(* that read the old list before the lock brings it back.                    *)
RemovedStaysRemoved ==
    [][\A n \in Names : row[n] = None /\ row'[n] # None =>
          \/ ~imported
          \/ \E p \in Commands : Is(p, "change") /\ Kind(p) = "add" /\ Name(p) = n]_projectVars

(* What the command says when it refuses ("project has active tasks          *)
(* referencing it", cmd/project.go:645): a project with an open task is not  *)
(* removed.                                                                  *)
TaskHasProject == \A n \in tasks : row[n] # None

=============================================================================
