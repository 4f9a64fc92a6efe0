----------------------- MODULE HandProjectsReleaseProofs -----------------------
(***************************************************************************)
(* What the projects of a home promise, for any number of processes, names *)
(* and URLs, whatever fails or dies: every row has a clone, projects.md    *)
(* lists the rows, a URL is its clone's origin, and what is removed stays  *)
(* removed.  Then, of the rolling release and its updates: it is never a   *)
(* mix of two commits, nor an update older than what it resolved.          *)
(*                                                                         *)
(* A command on a project holds the project's lock, one that changes a row *)
(* that of the registry, and an import that of the migration.  Until       *)
(* projects.md is imported it lists whole clones, and the rows are its own;*)
(* afterwards it lists the rows, but for the one that is being written.    *)
(***************************************************************************)
EXTENDS MCHandHome, FiniteSetTheorems, FunctionTheorems, TLAPS

Values == Urls \cup {Projects!None, Projects!Local}

Steps == {"target", "createTask", "reserve", "repoint", "change"}

ProjectPcs ==
    Steps \cup {"idle", "open", "import", "rows", "lockProject", "active", "lockRegistry", "clone",
                "cleanUp", "restoreOrigin", "render", "project", "rollBack", "end", "spawn"}

Orders ==
    [pc : ProjectPcs, kind : Projects!Kinds \cup {Projects!None}, name : Names \cup {Projects!None},
     url : Values, next : Steps \cup {Projects!None}, old : Values, origin : Urls \cup {Projects!None},
     rows : SUBSET (Names \X Values), failing : BOOLEAN]

Locks == Names \cup {"registry", "migration"}

ProjectsTyped ==
    /\ row \in [Names -> Values] /\ listed \in [Names -> Values]
    /\ imported \in BOOLEAN /\ behind \in BOOLEAN
    /\ clone \in [Names -> [at : {"absent", "partial", "whole"}, origin : Urls \cup {Projects!None}]]
    /\ locks \in [Locks -> Processes \cup {Projects!Nobody}]
    /\ project \in [Processes -> Orders]

(* Where a command is, and what it opens the registry for.                   *)
Place(w) == IF w.pc \in {"open", "import", "rows"} THEN w.next ELSE w.pc

Changed   == {"render", "project", "rollBack"}
Changing  == {"change"} \cup Changed
Adding    == {"clone", "cleanUp", "lockRegistry", "change"}
Repointed == {"lockRegistry", "restoreOrigin"} \cup Changing

Route(kind) ==
    CASE kind = "add" -> {"lockProject", "reserve", "end"} \cup Adding \cup Changed
      [] kind = "set-url" -> {"lockProject", "repoint"} \cup Repointed
      [] kind = "sync" -> {"target", "lockProject", "repoint"} \cup Repointed
      [] kind = "remove" -> {"active", "lockRegistry", "change", "render", "project", "end"}
      [] kind = "upstream" -> {"lockRegistry", "change", "render", "project", "end"}
      [] OTHER -> {"createTask", "spawn"}

(* Nothing brings the row back.                                              *)
Unlisted(n) == ~imported => listed[n] = Projects!None

OriginOf(url) == IF url = Projects!Local THEN Projects!None ELSE url

(* What holds of p, whose command is w: where it may be, and which locks it  *)
(* has there,                                                                *)
Ordered(p, w) ==
    /\ w.pc # "idle" => w.kind \in Projects!Kinds /\ w.name \in Names /\ Place(w) \in Route(w.kind)
    /\ w.kind \in {"set-url", "sync"} => w.url \in Urls
    /\ w.kind = "add" => w.url \in Urls \cup {Projects!Local}
    /\ w.kind \in {"add", "set-url", "sync"} /\ Place(w) \notin {"idle", "lockProject", "target"}
         => locks[w.name] = p
    /\ Place(w) \in Changing => locks["registry"] = p
    /\ w.pc \in Changing /\ ~imported => \A n \in Names : listed[n] = Projects!None

(* what it still has to import,                                              *)
Imports(p, w) ==
    w.pc = "rows" =>
        /\ locks["migration"] = p /\ ~imported
        /\ \E n \in Names : listed[n] # Projects!None
        /\ \A r \in w.rows : r[1] \in Names /\ listed[r[1]] = r[2] /\ r[2] # Projects!None
        /\ \A n \in Names : listed[n] # Projects!None /\ row[n] = Projects!None => <<n, listed[n]>> \in w.rows

(* the row that it adds,                                                     *)
Adds(w) ==
    w.kind = "add" =>
        /\ Place(w) \in Adding => row[w.name] = Projects!None /\ Unlisted(w.name)
        /\ Place(w) \in Changed => row[w.name] = w.url /\ w.old = Projects!None
        /\ Place(w) \in {"lockRegistry", "change"} \cup Changed =>
             clone[w.name].at = "whole" /\ clone[w.name].origin = OriginOf(w.url)

(* the row and the origin that it changes,                                   *)
IsRepointing(w) == w.kind \in {"set-url", "sync"} /\ Place(w) \in Repointed

Repoints(w) ==
    IsRepointing(w) =>
        /\ Place(w) \in Changed => /\ row[w.name] = w.url /\ w.old \in Urls
                                   /\ w.name \in torn \/ w.old = w.origin
        /\ Place(w) \notin Changed => \/ row[w.name] = Projects!None /\ Unlisted(w.name)
                                      \/ /\ row[w.name] \in Urls
                                         /\ w.name \in torn \/ row[w.name] = w.origin
        /\ Place(w) # "restoreOrigin" => clone[w.name].origin = w.url

(* and the rows that it lists.                                               *)
Lists(w) == w.pc = "project" => w.rows = {<<n, row[n]>> : n \in Names}

Own(p, w) == Ordered(p, w) /\ Imports(p, w) /\ Adds(w) /\ Repoints(w) /\ Lists(w)

(* Before the import, and after it.                                          *)
Legacies ==
    ~imported =>
        \A n \in Names : listed[n] # Projects!None =>
            /\ clone[n].at = "whole"
            /\ \A m \in Names : row[m] \in {Projects!None, listed[m]}
            /\ row[n] = Projects!None /\ listed[n] \in Urls /\ n \notin torn => clone[n].origin = listed[n]

Rendered ==
    imported /\ ~behind =>
        /\ (\A p \in Processes : project[p].pc \notin Changed) => \A n \in Names : listed[n] = row[n]
        /\ \A p \in Processes : project[p].pc \in Changed =>
             \A n \in Names : listed[n] = IF n = project[p].name THEN project[p].old ELSE row[n]

Origins ==
    \A n \in Names \ torn :
        \/ row[n] \notin Urls
        \/ \E p \in Processes : project[p].name = n /\ IsRepointing(project[p])
        \/ clone[n].origin = row[n]

ProjectsInv ==
    /\ ProjectsTyped
    /\ \A p \in Processes : Own(p, project[p])
    /\ Projects!RowHasClone
    /\ Legacies /\ Rendered /\ Origins

LEMMA ProjectsFacts ==
  /\ Projects!Nobody \notin Processes /\ Urls # {} /\ Projects!None \notin Urls /\ Projects!Local \notin Urls
  /\ Projects!None # Projects!Local /\ Legacy \subseteq Names
  /\ Names \cap {"registry", "migration"} = {} /\ Projects!Home \in Urls
<1>1. Urls # {}
  BY HomeAssumption DEF Projects!ProjectsAssumption
<1>2. Projects!Home \in Urls
  BY <1>1 DEF Projects!Home
<1> QED BY <1>2, HomeAssumption DEF Projects!ProjectsAssumption, Projects!None, Projects!Local

(* A command that is over holds of anybody.                                  *)
LEMMA IdleOrder ==
  /\ Projects!Idle \in Orders /\ Projects!Idle.pc = "idle"
  /\ \A p : Own(p, Projects!Idle)
<1>1. Projects!Idle \in Orders
  BY DEF Projects!Idle, Orders, ProjectPcs, Steps, Values
<1>2. /\ Projects!Idle.pc = "idle" /\ Projects!Idle.kind = Projects!None
      /\ Projects!None \notin {"add", "set-url", "sync"}
  BY DEF Projects!Idle, Projects!None
<1>3. Place(Projects!Idle) = "idle" /\ "idle" \notin Changing
  BY <1>2 DEF Place, Changing, Changed
<1> QED BY <1>1, <1>2, <1>3 DEF Own, Ordered, Imports, Adds, IsRepointing, Repoints, Lists, Changing, Changed

LEMMA IdleOrderLater == ASSUME NEW p PROVE Own(p, Projects!Idle)'
<1>1. /\ Projects!Idle.pc = "idle" /\ Projects!Idle.kind = Projects!None
      /\ Projects!None \notin {"add", "set-url", "sync"}
  BY DEF Projects!Idle, Projects!None
<1>3. Place(Projects!Idle) = "idle" /\ "idle" \notin Changing
  BY <1>1 DEF Place, Changing, Changed
<1> QED BY <1>1, <1>3 DEF Own, Ordered, Imports, Adds, IsRepointing, Repoints, Lists, Changing, Changed

LEMMA ProjectsInitHolds == HomeInit => ProjectsInv
<1> SUFFICES ASSUME HomeInit PROVE ProjectsInv
  OBVIOUS
<1>1. /\ row = [n \in Names |-> Projects!None]
      /\ listed = [n \in Names |-> IF n \in Legacy THEN Projects!Home ELSE Projects!None]
      /\ imported = FALSE /\ behind = FALSE
      /\ clone = [n \in Names |-> IF n \in Legacy THEN [at |-> "whole", origin |-> Projects!Home]
                                  ELSE Projects!NoClone]
      /\ locks = [l \in Locks |-> Projects!Nobody]
      /\ project = [p \in Processes |-> Projects!Idle]
  BY DEF HomeInit, Projects!ProjectsInit, Locks
<1>2. ProjectsTyped
  BY <1>1, ProjectsFacts, IdleOrder DEF ProjectsTyped, Values, Projects!NoClone
<1>3. \A p \in Processes : Own(p, project[p])
  BY <1>1, IdleOrder
<1>4. Projects!RowHasClone /\ Origins
  BY <1>1, ProjectsFacts DEF Projects!RowHasClone, Origins
<1>5. Legacies /\ Rendered
  BY <1>1 DEF Legacies, Rendered
<1> QED BY <1>2, <1>3, <1>4, <1>5 DEF ProjectsInv

(* What a command does with its locks leaves the others theirs.              *)
LEMMA LocksKept ==
  ASSUME ProjectsTyped, NEW p \in Processes,
         \/ UNCHANGED locks
         \/ \E l \in Locks : Projects!Take(p, l)
         \/ \E l \in Locks : locks[l] = p /\ Projects!Leave(p, l)
         \/ Projects!LeaveAll(p)
  PROVE  /\ locks' \in [Locks -> Processes \cup {Projects!Nobody}]
         /\ \A q \in Processes \ {p} : \A l \in Locks : locks[l] = q => locks'[l] = q
BY ProjectsFacts DEF ProjectsTyped, Projects!Take, Projects!Free, Projects!Leave, Projects!LeaveAll

(* A step of one command that leaves rows, files and clones alone.           *)
LEMMA OrderStep ==
  ASSUME ProjectsInv, NEW p \in Processes, UNCHANGED <<row, listed, imported, clone>>,
         NEW m \in Orders, project' = [project EXCEPT ![p] = m],
         \/ UNCHANGED locks
         \/ \E l \in Locks : Projects!Take(p, l)
         \/ \E l \in Locks : locks[l] = p /\ Projects!Leave(p, l)
         \/ Projects!LeaveAll(p),
         torn \subseteq torn', behind' \in BOOLEAN, behind => behind', Own(p, m)',
         \/ ~IsRepointing(project[p]) \/ project[p].name \in torn'
         \/ IsRepointing(m) /\ m.name = project[p].name
         \/ clone[project[p].name].origin = row[project[p].name] \/ row[project[p].name] \notin Urls,
         \/ behind' \/ ~imported
         \/ m.pc \notin Changed /\ project[p].pc \notin Changed
         \/ m.pc \in Changed /\ project[p].pc \in Changed /\ m.name = project[p].name /\ m.old = project[p].old
  PROVE  ProjectsInv'
<1>1. /\ locks' \in [Locks -> Processes \cup {Projects!Nobody}]
      /\ \A q \in Processes \ {p} : \A l \in Locks : locks[l] = q => locks'[l] = q
  BY LocksKept DEF ProjectsInv
<1>2. ProjectsTyped' /\ project'[p] = m /\ \A q \in Processes \ {p} : project'[q] = project[q]
  BY <1>1 DEF ProjectsInv, ProjectsTyped
<1>3. ASSUME NEW q \in Processes, q # p PROVE Own(q, project[q])'
  <2> PICK w : w = project[q]
    OBVIOUS
  <2>1. project'[q] = w /\ Own(q, w)
    BY <1>2, <1>3 DEF ProjectsInv
  <2>2. \A l \in Locks : locks[l] = q => locks'[l] = q
    BY <1>1, <1>3
  <2>3. Ordered(q, w)'
    <3>1. w.pc # "idle" => w.name \in Locks
      BY <2>1 DEF Own, Ordered, Locks
    <3>2. w.pc = "idle" => Place(w) = "idle"
      BY DEF Place
    <3> QED BY <2>1, <2>2, <3>1, <3>2 DEF Own, Ordered, Locks
  <2>4. Imports(q, w)' /\ Lists(w)'
    BY <2>1, <2>2 DEF Own, Imports, Lists, Locks
  <2>5. Adds(w)' /\ Repoints(w)'
    BY <2>1 DEF Own, Adds, Repoints, Unlisted
  <2> QED BY <2>1, <2>3, <2>4, <2>5 DEF Own
<1>4. Own(p, project[p])'
  BY <1>2
<1>5. Projects!RowHasClone' /\ Legacies'
  BY DEF ProjectsInv, Projects!RowHasClone, Legacies
<1>6. Origins'
  <2> SUFFICES ASSUME NEW n \in Names \ torn', row[n] \in Urls,
                      \A q \in Processes : ~(project'[q].name = n /\ IsRepointing(project'[q]))
               PROVE  clone[n].origin = row[n]
    BY DEF Origins
  <2>1. CASE \E q \in Processes : project[q].name = n /\ IsRepointing(project[q])
    <3>1. project[p].name = n /\ IsRepointing(project[p])
      BY <1>2, <2>1
    <3> QED BY <1>2, <3>1
  <2>2. CASE ~\E q \in Processes : project[q].name = n /\ IsRepointing(project[q])
    BY <2>2 DEF ProjectsInv, Origins
  <2> QED BY <2>1, <2>2
<1>7. Rendered'
  <2> SUFFICES ASSUME imported, ~behind' PROVE Rendered'
    BY DEF Rendered
  <2>1. CASE m.pc \notin Changed /\ project[p].pc \notin Changed
    BY <1>2, <2>1 DEF ProjectsInv, Rendered
  <2>2. CASE m.pc \in Changed /\ project[p].pc \in Changed /\ m.name = project[p].name /\ m.old = project[p].old
    BY <1>2, <2>2 DEF ProjectsInv, Rendered
  <2> QED BY <2>1, <2>2
<1> QED BY <1>2, <1>3, <1>4, <1>5, <1>6, <1>7 DEF ProjectsInv

(* The command that w was, at another place.                                 *)
Moved(m, w, pc, next) ==
    /\ m \in Orders /\ m.pc = pc /\ m.next = next
    /\ m.kind = w.kind /\ m.name = w.name /\ m.url = w.url /\ m.old = w.old /\ m.origin = w.origin

LEMMA OrderGoto ==
  ASSUME ProjectsInv, NEW p \in Processes, NEW pc \in ProjectPcs, NEW next \in Steps \cup {Projects!None},
         \/ Projects!Goto(p, pc) /\ next = project[p].next
         \/ pc = "open" /\ Projects!GotoOpen(p, next)
  PROVE  \E m : /\ project' = [project EXCEPT ![p] = m] /\ Moved(m, project[p], pc, next)
                /\ m.rows = project[p].rows
<1>1. project[p] \in Orders
  BY DEF ProjectsInv, ProjectsTyped
<1>2. CASE Projects!Goto(p, pc) /\ next = project[p].next
  <2> PICK m : m = [project[p] EXCEPT !.pc = pc]
    OBVIOUS
  <2>1. project' = [project EXCEPT ![p] = m]
    BY <1>2 DEF Projects!Goto
  <2>2. Moved(m, project[p], pc, next) /\ m.rows = project[p].rows
    BY <1>1, <1>2 DEF Orders, Moved
  <2> QED BY <2>1, <2>2
<1>3. CASE pc = "open" /\ Projects!GotoOpen(p, next)
  <2> PICK m : m = [project[p] EXCEPT !.pc = pc, !.next = next]
    OBVIOUS
  <2>1. project' = [project EXCEPT ![p] = m]
    BY <1>3 DEF Projects!GotoOpen, ProjectsInv, ProjectsTyped
  <2>2. Moved(m, project[p], pc, next) /\ m.rows = project[p].rows
    BY <1>1 DEF Orders, Moved
  <2> QED BY <2>1, <2>2
<1> QED BY <1>2, <1>3

(* What is known of a command that has begun.                                *)
LEMMA AtOrder ==
  ASSUME ProjectsInv, NEW p \in Processes, project[p].pc # "idle"
  PROVE  /\ project[p] \in Orders /\ Own(p, project[p])
         /\ project[p].name \in Names /\ project[p].name \in Locks /\ project[p].kind \in Projects!Kinds
         /\ Place(project[p]) \in Route(project[p].kind)
BY DEF ProjectsInv, ProjectsTyped, Own, Ordered, Locks

LEMMA FinishStep ==
  ASSUME ProjectsInv, NEW p \in Processes, UNCHANGED <<row, listed, imported, clone>>, Projects!Finish(p),
         torn \subseteq torn', behind' \in BOOLEAN, behind => behind',
         ~IsRepointing(project[p]) \/ project[p].name \in torn',
         behind' \/ project[p].pc \notin Changed
  PROVE  ProjectsInv'
<1>1. project' = [project EXCEPT ![p] = Projects!Idle] /\ Projects!LeaveAll(p)
  BY DEF Projects!Finish
<1>2. Projects!Idle.pc \notin Changed
  BY IdleOrder DEF Changed
<1> QED BY <1>1, <1>2, IdleOrder, IdleOrderLater, OrderStep

LEMMA BeginKeeps ==
  ASSUME ProjectsInv, NEW p \in Processes, NEW kind \in Projects!Kinds, NEW n \in Names,
         NEW u \in Urls \cup {Projects!Local}, Projects!Begin(p, kind, n, u)
  PROVE  ProjectsInv'
<1> PICK first : first = CASE kind \in {"add", "set-url"} -> <<"lockProject", Projects!None>>
                           [] kind = "remove"             -> <<"active", Projects!None>>
                           [] kind = "upstream"           -> <<"lockRegistry", Projects!None>>
                           [] kind = "sync"               -> <<"open", "target">>
                           [] kind = "spawn"              -> <<"open", "createTask">>
  OBVIOUS
<1> PICK pc, next : pc = first[1] /\ next = first[2]
  OBVIOUS
<1> PICK start : start = [Projects!Idle EXCEPT !.kind = kind, !.name = n, !.url = u]
  OBVIOUS
<1> PICK m : m = [start EXCEPT !.pc = pc, !.next = next]
  OBVIOUS
<1>1. /\ UNCHANGED <<row, listed, imported, clone, locks, torn, behind>> /\ project[p].pc = "idle"
      /\ kind \in {"set-url", "sync"} => u # Projects!Local
      /\ project' = [project EXCEPT ![p] = m]
  BY DEF Projects!Begin, Projects!Is
<1>2. \/ kind \in {"add", "set-url"} /\ first = <<"lockProject", Projects!None>>
      \/ kind = "remove" /\ first = <<"active", Projects!None>>
      \/ kind = "upstream" /\ first = <<"lockRegistry", Projects!None>>
      \/ kind = "sync" /\ first = <<"open", "target">>
      \/ kind = "spawn" /\ first = <<"open", "createTask">>
  BY DEF Projects!Kinds
<1>3. /\ pc \in {"lockProject", "active", "lockRegistry", "open"} /\ next \in Steps \cup {Projects!None}
      /\ pc = "open" => next \in {"target", "createTask"}
  BY <1>2 DEF Steps
<1>4. m \in Orders /\ m.kind = kind /\ m.name = n /\ m.url = u /\ m.pc = pc /\ m.next = next
  <2>1. start \in Orders /\ start.kind = kind /\ start.name = n /\ start.url = u
    BY IdleOrder DEF Orders, Values
  <2>2. pc \in ProjectPcs /\ next \in Steps \cup {Projects!None}
    BY <1>3 DEF ProjectPcs
  <2>3. m \in Orders
    BY <2>1, <2>2 DEF Orders
  <2> QED BY <2>1, <2>3 DEF Orders
<1>5. /\ Place(m) \in Route(kind) /\ Place(m) \notin Changing
      /\ kind \in {"add", "set-url", "sync"} => Place(m) \in {"lockProject", "target"}
  BY <1>2, <1>4 DEF Place, Route, Changing, Changed
<1>6. m.pc \notin Changing /\ m.pc \notin {"rows", "project"} /\ m.pc \notin Changed
  BY <1>3, <1>4 DEF Changing, Changed
<1>7. Place(m) \in {"lockProject", "target"} =>
        Place(m) \notin Adding /\ Place(m) \notin Changed /\ Place(m) \notin Repointed
  BY DEF Adding, Changed, Repointed, Changing
<1>8. Own(p, m)'
  BY <1>1, <1>4, <1>5, <1>6, <1>7 DEF Own, Ordered, Imports, Adds, IsRepointing, Repoints, Lists
<1>9. ~IsRepointing(project[p]) /\ project[p].pc \notin Changed
  BY <1>1 DEF IsRepointing, Place, Repointed, Changed, Changing
<1>10. behind' \in BOOLEAN
  BY <1>1 DEF ProjectsInv, ProjectsTyped
<1> QED BY <1>1, <1>4, <1>6, <1>8, <1>9, <1>10, OrderStep

(* Opening the registry changes nothing but where the command is.            *)
LEMMA OpeningStep ==
  ASSUME ProjectsInv, NEW p \in Processes, project[p].pc \in {"open", "import"},
         UNCHANGED <<row, listed, imported, clone, torn, behind>>,
         UNCHANGED locks \/ Projects!Take(p, "migration"),
         NEW pc \in {project[p].next, "import", "rows"},
         NEW m, project' = [project EXCEPT ![p] = m], Moved(m, project[p], pc, project[p].next),
         pc = project[p].next => imported \/ \A n \in Names : listed[n] = Projects!None,
         Imports(p, m)'
  PROVE  ProjectsInv'
<1> PICK w : w = project[p]
  OBVIOUS
<1>1. /\ w.pc \in {"open", "import"} /\ w \in Orders /\ Own(p, w) /\ w.name \in Locks /\ w.kind \in Projects!Kinds
      /\ Place(w) \in Route(w.kind) /\ "migration" \in Locks
  BY AtOrder DEF Locks
<1>2. Place(w) = w.next /\ w.next \in Steps
  <2>1. Place(w) = w.next
    BY <1>1 DEF Place
  <2>2. Projects!None \notin Route(w.kind)
    BY DEF Route, Adding, Changed, Repointed, Changing, Projects!None
  <2> QED BY <1>1, <2>1, <2>2 DEF Orders
<1>3. Place(m) = w.next
  BY <1>2 DEF Place, Moved, Steps
<1>4. /\ m.pc = "rows" \/ m.pc = "import" \/ m.pc = w.next
      /\ m.pc # "project" /\ m.pc # "idle" /\ m.pc \notin Changed
      /\ m.pc \in Changing => imported \/ \A n \in Names : listed[n] = Projects!None
  BY <1>2 DEF Moved, Steps, Changed, Changing
<1>5. \A l \in Locks : locks[l] = p => locks'[l] = p
  BY <1>1 DEF Projects!Take, Projects!Free, ProjectsInv, ProjectsTyped
<1>6. Ordered(p, m)'
  BY <1>1, <1>2, <1>3, <1>4, <1>5 DEF Moved, Own, Ordered, Locks
<1>7. Adds(m)' /\ Repoints(m)' /\ Lists(m)'
  BY <1>1, <1>2, <1>3, <1>4 DEF Moved, Own, Adds, Unlisted, IsRepointing, Repoints, Lists
<1>8. IsRepointing(w) <=> IsRepointing(m)
  BY <1>2, <1>3 DEF IsRepointing, Moved
<1>9. w.pc \notin Changed /\ behind' \in BOOLEAN /\ m \in Orders /\ m.name = w.name
  BY <1>1 DEF Changed, ProjectsInv, ProjectsTyped, Moved
<1> QED BY <1>1, <1>4, <1>6, <1>7, <1>8, <1>9, OrderStep DEF Own

LEMMA OpenRegistryKeeps ==
  ASSUME ProjectsInv, NEW p \in Processes, Projects!OpenRegistry(p) \/ Projects!LockImport(p)
  PROVE  ProjectsInv'
<1>1. CASE Projects!OpenRegistry(p)
  <2> PICK pc : pc = IF imported THEN project[p].next ELSE "import"
    OBVIOUS
  <2>1. /\ UNCHANGED <<row, listed, imported, clone, locks, torn, behind>> /\ project[p].pc = "open"
        /\ Projects!Goto(p, pc)
    BY <1>1 DEF Projects!OpenRegistry, Projects!Records, Projects!Histories, Projects!Is
  <2>2. project[p] \in Orders /\ project[p].next \in Steps
    BY <2>1, AtOrder DEF Place, Orders, Route, Adding, Changed, Repointed, Changing, Projects!None
  <2>3. pc \in ProjectPcs /\ pc # "rows"
    BY <2>2 DEF ProjectPcs, Steps
  <2>4. PICK m : project' = [project EXCEPT ![p] = m] /\ Moved(m, project[p], pc, project[p].next)
    BY <2>1, <2>2, <2>3, OrderGoto
  <2>5. Imports(p, m)'
    BY <2>3, <2>4 DEF Imports, Moved
  <2>6. pc = project[p].next => imported
    BY <2>2 DEF Steps
  <2> QED BY <2>1, <2>4, <2>5, <2>6, OpeningStep
<1>2. CASE Projects!LockImport(p)
  <2>1. /\ UNCHANGED <<row, listed, imported, clone, torn, behind>> /\ project[p].pc = "import"
        /\ locks["migration"] = Projects!Nobody
    BY <1>2 DEF Projects!LockImport, Projects!Records, Projects!Histories, Projects!Is, Projects!Free
  <2>2. project[p] \in Orders /\ project[p].next \in Steps
    BY <2>1, AtOrder DEF Place, Orders, Route, Adding, Changed, Repointed, Changing, Projects!None
  <2>3. CASE imported \/ \A n \in Names : listed[n] = Projects!None
    <3>1. Projects!Goto(p, project[p].next) /\ UNCHANGED locks
      BY <1>2, <2>3 DEF Projects!LockImport
    <3>2. project[p].next \in ProjectPcs /\ project[p].next # "rows"
      BY <2>2 DEF ProjectPcs, Steps
    <3>3. PICK m : project' = [project EXCEPT ![p] = m] /\ Moved(m, project[p], project[p].next, project[p].next)
      BY <2>2, <3>1, <3>2, OrderGoto
    <3>4. Imports(p, m)'
      BY <3>2, <3>3 DEF Imports, Moved
    <3> QED BY <2>1, <2>3, <3>1, <3>3, <3>4, OpeningStep
  <2>4. CASE ~imported /\ \E n \in Names : listed[n] # Projects!None
    <3> PICK rs : rs = {<<n, listed[n]>> : n \in {n \in Names : listed[n] # Projects!None}}
      OBVIOUS
    <3> PICK m : m = [project[p] EXCEPT !.pc = "rows", !.rows = rs]
      OBVIOUS
    <3>1. {n \in Names : listed[n] # Projects!None} # {}
      BY <2>4
    <3>2. Projects!Take(p, "migration") /\ project' = [project EXCEPT ![p] = m]
      BY <1>2, <2>4, <3>1 DEF Projects!LockImport, ProjectsInv, ProjectsTyped
    <3>3. rs \in SUBSET (Names \X Values)
      BY DEF ProjectsInv, ProjectsTyped
    <3>4. Moved(m, project[p], "rows", project[p].next) /\ m.rows = rs
      BY <2>2, <3>3 DEF Moved, Orders, ProjectPcs
    <3>5. locks'["migration"] = p
      BY <3>2 DEF Projects!Take, ProjectsInv, ProjectsTyped, Locks
    <3>6. Imports(p, m)'
      BY <2>1, <2>4, <3>4, <3>5 DEF Imports
    <3> QED BY <2>1, <2>2, <3>2, <3>4, <3>6, OpeningStep DEF Steps
  <2> QED BY <2>3, <2>4
<1> QED BY <1>1, <1>2

LEMMA LooksKeep ==
  ASSUME ProjectsInv, NEW p \in Processes,
         Projects!Target(p) \/ Projects!Active(p) \/ Projects!CreateTask(p)
  PROVE  ProjectsInv'
<1>1. /\ UNCHANGED <<row, listed, imported, clone, torn, behind>>
      /\ project[p].pc \in {"target", "active", "createTask"}
      /\ \/ Projects!Finish(p)
         \/ UNCHANGED locks /\ \/ project[p].pc = "target" /\ Projects!Goto(p, "lockProject")
                               \/ project[p].pc = "active" /\ Projects!Goto(p, "lockRegistry")
                               \/ project[p].pc = "createTask" /\ Projects!Goto(p, "spawn")
  BY DEF Projects!Target, Projects!Active, Projects!CreateTask, Projects!Is, Projects!Records, Projects!Histories
<1>2. ~IsRepointing(project[p]) /\ project[p].pc \notin Changed /\ project[p].pc # "idle"
  BY <1>1 DEF IsRepointing, Place, Changed, Repointed, Changing
<1>3. behind' \in BOOLEAN
  BY <1>1 DEF ProjectsInv, ProjectsTyped
<1>4. CASE Projects!Finish(p)
  BY <1>1, <1>2, <1>3, <1>4, FinishStep
<1>5. CASE ~Projects!Finish(p)
  <2> PICK pc \in {"lockProject", "lockRegistry", "spawn"} :
        /\ UNCHANGED locks /\ Projects!Goto(p, pc)
        /\ project[p].pc = "target" => pc = "lockProject"
        /\ project[p].pc = "active" => pc = "lockRegistry"
        /\ project[p].pc = "createTask" => pc = "spawn"
    BY <1>1, <1>5
  <2>1. /\ project[p] \in Orders /\ Own(p, project[p]) /\ project[p].name \in Names
        /\ project[p].kind \in Projects!Kinds /\ Place(project[p]) \in Route(project[p].kind)
    BY <1>2, AtOrder
  <2>2. pc \in ProjectPcs /\ project[p].next \in Steps \cup {Projects!None} /\ Place(project[p]) = project[p].pc
    BY <1>1, <2>1 DEF ProjectPcs, Orders, Place
  <2>3. PICK m : project' = [project EXCEPT ![p] = m] /\ Moved(m, project[p], pc, project[p].next)
    BY <2>2, OrderGoto
  <2>4. Place(m) = pc /\ m.pc = pc
    BY <2>3 DEF Moved, Place
  <2>5. /\ pc \in Route(project[p].kind)
        /\ project[p].kind \in {"add", "set-url", "sync"} => pc = "lockProject"
    BY <1>1, <2>1, <2>2 DEF Route, Adding, Changed, Repointed, Changing, Projects!Kinds
  <2>6. pc \notin Changing /\ pc \notin Changed /\ "lockProject" \notin Adding \cup Repointed
    BY DEF Changing, Changed, Adding, Repointed
  <2>7. Own(p, m)'
    BY <1>1, <2>1, <2>3, <2>4, <2>5, <2>6 DEF Moved, Own, Ordered, Imports, Adds, IsRepointing, Repoints, Lists
  <2>8. m \in Orders
    BY <2>3 DEF Moved
  <2> QED BY <1>1, <1>2, <1>3, <2>3, <2>4, <2>6, <2>7, <2>8, OrderStep
<1> QED BY <1>4, <1>5

LEMMA LockProjectKeeps ==
  ASSUME ProjectsInv, NEW p \in Processes, Projects!LockProject(p)
  PROVE  ProjectsInv'
<1> PICK w : w = project[p]
  OBVIOUS
<1> PICK next : next = IF w.kind = "add" THEN "reserve" ELSE "repoint"
  OBVIOUS
<1>1. /\ UNCHANGED <<row, listed, imported, clone, torn, behind>> /\ w.pc = "lockProject"
      /\ Projects!GotoOpen(p, next) /\ Projects!Take(p, w.name)
  BY DEF Projects!LockProject, Projects!Is, Projects!Records, Projects!Histories, Projects!Kind, Projects!Name
<1>2. /\ w \in Orders /\ Own(p, w) /\ w.name \in Names /\ w.name \in Locks /\ w.kind \in Projects!Kinds
      /\ Place(w) \in Route(w.kind) /\ Place(w) = "lockProject"
  BY <1>1, AtOrder DEF Place
<1>3. w.kind \in {"add", "set-url", "sync"}
  BY <1>2 DEF Route, Projects!Kinds
<1>4. next \in Steps \cup {Projects!None} /\ "open" \in ProjectPcs
  BY DEF Steps, ProjectPcs
<1>5. PICK m : project' = [project EXCEPT ![p] = m] /\ Moved(m, w, "open", next)
  BY <1>1, <1>4, OrderGoto
<1>6. Place(m) = next /\ m.pc = "open"
  BY <1>5 DEF Moved, Place
<1>7. next \in Route(w.kind) /\ next \notin Changing \cup Changed \cup Adding \cup Repointed
  BY <1>3 DEF Route, Adding, Changed, Repointed, Changing
<1>8. locks'[w.name] = p
  BY <1>1, <1>2 DEF Projects!Take, ProjectsInv, ProjectsTyped
<1>9. "open" \notin Changing \cup Changed
  BY DEF Changing, Changed
<1>10. Own(p, m)'
  BY <1>1, <1>2, <1>5, <1>6, <1>7, <1>8, <1>9 DEF Moved, Own, Ordered, Imports, Adds, IsRepointing, Repoints, Lists
<1>11. ~IsRepointing(w) /\ w.pc \notin Changed /\ m \in Orders /\ behind' \in BOOLEAN
  BY <1>1, <1>5 DEF IsRepointing, Place, Changed, Repointed, Changing, Moved, ProjectsInv, ProjectsTyped
<1> QED BY <1>1, <1>2, <1>5, <1>6, <1>9, <1>10, <1>11, OrderStep

LEMMA LockRegistryKeeps ==
  ASSUME ProjectsInv, NEW p \in Processes, Projects!LockRegistry(p)
  PROVE  ProjectsInv'
<1> PICK w : w = project[p]
  OBVIOUS
<1>1. /\ UNCHANGED <<row, listed, imported, clone, torn, behind>> /\ w.pc = "lockRegistry"
      /\ Projects!GotoOpen(p, "change") /\ Projects!Take(p, "registry")
  BY DEF Projects!LockRegistry, Projects!Is, Projects!Records, Projects!Histories
<1>2. /\ w \in Orders /\ Own(p, w) /\ w.name \in Names /\ w.name \in Locks /\ w.kind \in Projects!Kinds
      /\ Place(w) \in Route(w.kind) /\ Place(w) = "lockRegistry" /\ "registry" \in Locks /\ w.name # "registry"
  BY <1>1, AtOrder, ProjectsFacts DEF Place, Locks
<1>3. "change" \in Steps \cup {Projects!None} /\ "open" \in ProjectPcs
  BY DEF Steps, ProjectPcs
<1>4. PICK m : project' = [project EXCEPT ![p] = m] /\ Moved(m, w, "open", "change")
  BY <1>1, <1>3, OrderGoto
<1>5. Place(m) = "change" /\ m.pc = "open"
  BY <1>4 DEF Moved, Place
<1>6. "change" \in Route(w.kind)
  BY <1>2 DEF Route, Adding, Changed, Repointed, Changing, Projects!Kinds
<1>7. /\ locks'["registry"] = p /\ \A l \in Locks : locks[l] = p => locks'[l] = p
  BY <1>1, <1>2 DEF Projects!Take, ProjectsInv, ProjectsTyped
<1>8. /\ "open" \notin Changing \cup Changed /\ "change" \in Adding /\ "change" \in Repointed /\ "change" \notin Changed
      /\ "lockRegistry" \in Adding /\ "lockRegistry" \in Repointed /\ "lockRegistry" \notin Changed
  BY DEF Changing, Changed, Adding, Repointed
<1>9. Ordered(p, m)'
  BY <1>1, <1>2, <1>4, <1>5, <1>6, <1>7, <1>8 DEF Moved, Own, Ordered
<1>10. Adds(m)' /\ Repoints(m)'
  BY <1>1, <1>2, <1>4, <1>5, <1>8 DEF Moved, Own, Adds, Unlisted, IsRepointing, Repoints
<1>11. Own(p, m)'
  BY <1>5, <1>9, <1>10 DEF Own, Imports, Lists
<1>12. /\ IsRepointing(m) \/ ~IsRepointing(w)
       /\ w.pc \notin Changed /\ m \in Orders /\ m.name = w.name /\ behind' \in BOOLEAN
  BY <1>1, <1>4, <1>5, <1>8 DEF IsRepointing, Moved, ProjectsInv, ProjectsTyped
<1> QED BY <1>1, <1>2, <1>4, <1>5, <1>8, <1>11, <1>12, OrderStep

(* The way out of a change or of a rollback, for the command that made it.   *)
LEMMA UndoPlace ==
  ASSUME NEW p, Projects!Kind(p) \in Projects!Kinds \ {"spawn"}, NEW pc, pc = Projects!Undo(p)
  PROVE  /\ pc \in ProjectPcs /\ pc \in Route(Projects!Kind(p))
         /\ Projects!Kind(p) = "add" => pc = "cleanUp"
         /\ Projects!Kind(p) \in {"set-url", "sync"} => pc = "restoreOrigin"
         /\ Projects!Kind(p) \in {"remove", "upstream"} => pc = "end"
         /\ pc \notin Changing \cup Changed \cup {"open", "import", "rows", "idle", "project"}
BY DEF Projects!Undo, ProjectPcs, Steps, Route, Adding, Changed, Repointed, Changing, Projects!Kinds

(* A change that is refused or fails before it is made.                      *)
LEMMA UndoStep ==
  ASSUME ProjectsInv, NEW p \in Processes, project[p].pc = "change",
         UNCHANGED <<row, listed, imported, clone, torn, behind>>,
         Projects!Goto(p, Projects!Undo(p)), Projects!Leave(p, "registry")
  PROVE  ProjectsInv'
<1> PICK w : w = project[p]
  OBVIOUS
<1> PICK pc : pc = Projects!Undo(p)
  OBVIOUS
<1>1. /\ w \in Orders /\ Own(p, w) /\ w.name \in Names /\ w.name \in Locks /\ w.kind \in Projects!Kinds
      /\ Place(w) \in Route(w.kind) /\ Place(w) = "change" /\ "registry" \in Locks /\ w.name # "registry"
  BY AtOrder, ProjectsFacts DEF Place, Locks
<1>2. w.kind # "spawn"
  BY <1>1 DEF Route
<1>3. /\ pc \in ProjectPcs /\ pc \in Route(w.kind)
      /\ w.kind = "add" => pc = "cleanUp"
      /\ w.kind \in {"set-url", "sync"} => pc = "restoreOrigin"
      /\ pc \notin Changing \cup Changed \cup {"open", "import", "rows", "idle", "project"}
  BY <1>1, <1>2, UndoPlace DEF Projects!Kind
<1>4. PICK m : project' = [project EXCEPT ![p] = m] /\ Moved(m, w, pc, w.next)
  BY <1>1, <1>3, OrderGoto DEF Orders
<1>5. Place(m) = pc /\ m.pc = pc
  BY <1>3, <1>4 DEF Moved, Place
<1>6. locks["registry"] = p
  BY <1>1 DEF Own, Ordered, Changing
<1>7. \A l \in Locks \ {"registry"} : locks'[l] = locks[l]
  BY DEF Projects!Leave, ProjectsInv, ProjectsTyped
<1>8. /\ "change" \in Adding /\ "change" \in Repointed /\ "change" \notin Changed
      /\ "cleanUp" \in Adding /\ "cleanUp" \notin Changed
      /\ "restoreOrigin" \in Repointed /\ "restoreOrigin" \notin Changed
  BY DEF Changing, Changed, Adding, Repointed
<1>9. Ordered(p, m)'
  BY <1>1, <1>3, <1>4, <1>5, <1>7 DEF Moved, Own, Ordered
<1>10. Adds(m)' /\ Repoints(m)'
  BY <1>1, <1>3, <1>4, <1>5, <1>8 DEF Moved, Own, Adds, Unlisted, IsRepointing, Repoints
<1>11. Own(p, m)'
  BY <1>3, <1>5, <1>9, <1>10 DEF Own, Imports, Lists
<1>12. /\ IsRepointing(m) \/ ~IsRepointing(w)
       /\ w.pc \notin Changed /\ m \in Orders /\ m.name = w.name /\ behind' \in BOOLEAN
  BY <1>3, <1>4, <1>5, <1>8 DEF IsRepointing, Moved, ProjectsInv, ProjectsTyped
<1> QED BY <1>1, <1>3, <1>4, <1>5, <1>6, <1>11, <1>12, OrderStep

LEMMA ChangeFailsKeeps == ASSUME ProjectsInv, NEW p \in Processes, Projects!ChangeFails(p) PROVE ProjectsInv'
BY UndoStep DEF Projects!ChangeFails, Projects!Is, Projects!Records, Projects!Histories

(* A command that goes on, or is over, at a place of no consequence.         *)
LEMMA EndKeeps ==
  ASSUME ProjectsInv, NEW p \in Processes, Projects!End(p) \/ Projects!Spawn(p)
  PROVE  ProjectsInv'
<1>1. /\ UNCHANGED <<row, listed, imported, clone, torn, behind>> /\ project[p].pc \in {"end", "spawn"}
      /\ Projects!Finish(p)
  BY DEF Projects!End, Projects!Spawn, Projects!Is, Projects!Records, Projects!Histories
<1>2. ~IsRepointing(project[p]) /\ project[p].pc \notin Changed
  BY <1>1 DEF IsRepointing, Place, Changed, Repointed, Changing
<1> QED BY <1>1, <1>2, FinishStep DEF ProjectsInv, ProjectsTyped

LEMMA CrashKeeps ==
  ASSUME ProjectsInv, NEW p \in Processes, Projects!Crash(p) \/ Projects!RestoreOriginFails(p)
  PROVE  ProjectsInv'
<1>1. CASE Projects!Crash(p)
  <2>1. /\ UNCHANGED <<row, listed, imported, clone>> /\ Projects!Finish(p)
        /\ behind' = (behind \/ project[p].pc \in Changed)
        /\ torn' = IF project[p].kind \in {"set-url", "sync"} THEN torn \cup {project[p].name} ELSE torn
    BY <1>1 DEF Projects!Crash, Projects!Records, Projects!Writing, Projects!Kind, Projects!Name, Changed
  <2>2. behind' \in BOOLEAN /\ (behind => behind') /\ (behind' \/ project[p].pc \notin Changed)
    BY <2>1 DEF ProjectsInv, ProjectsTyped
  <2>3. torn \subseteq torn' /\ (~IsRepointing(project[p]) \/ project[p].name \in torn')
    BY <2>1 DEF IsRepointing
  <2> QED BY <2>1, <2>2, <2>3, FinishStep
<1>2. CASE Projects!RestoreOriginFails(p)
  <2>1. /\ UNCHANGED <<row, listed, imported, clone, behind>> /\ Projects!Finish(p)
        /\ project[p].pc = "restoreOrigin" /\ torn' = torn \cup {project[p].name}
    BY <1>2 DEF Projects!RestoreOriginFails, Projects!Records, Projects!Is, Projects!Name
  <2>2. behind' \in BOOLEAN /\ project[p].pc \notin Changed
    BY <2>1 DEF Changed, ProjectsInv, ProjectsTyped
  <2> QED BY <2>1, <2>2, FinishStep
<1> QED BY <1>1, <1>2

LEMMA CloneFailsKeeps == ASSUME ProjectsInv, NEW p \in Processes, Projects!CloneFails(p) PROVE ProjectsInv'
<1> PICK w : w = project[p]
  OBVIOUS
<1>1. /\ UNCHANGED <<row, listed, imported, clone, torn, behind, locks>> /\ w.pc = "clone"
      /\ Projects!Goto(p, "cleanUp")
  BY DEF Projects!CloneFails, Projects!Is, Projects!Records, Projects!Histories
<1>2. /\ w \in Orders /\ Own(p, w) /\ w.name \in Names /\ w.name \in Locks /\ w.kind \in Projects!Kinds
      /\ Place(w) \in Route(w.kind) /\ Place(w) = "clone"
  BY <1>1, AtOrder DEF Place
<1>3. w.kind = "add"
  BY <1>2 DEF Route, Projects!Kinds, Changed, Repointed, Changing
<1>4. PICK m : project' = [project EXCEPT ![p] = m] /\ Moved(m, w, "cleanUp", w.next)
  BY <1>1, <1>2, OrderGoto DEF Orders, ProjectPcs
<1>5. Place(m) = "cleanUp" /\ m.pc = "cleanUp"
  BY <1>4 DEF Moved, Place
<1>6. /\ "cleanUp" \in Route("add") /\ "cleanUp" \in Adding /\ "clone" \in Adding
      /\ "cleanUp" \notin Changing \cup Changed /\ "clone" \notin Changed
  BY DEF Route, Changing, Changed, Adding
<1>7. Own(p, m)'
  BY <1>1, <1>2, <1>3, <1>4, <1>5, <1>6 DEF Moved, Own, Ordered, Imports, Adds, Unlisted, IsRepointing, Repoints, Lists
<1>8. ~IsRepointing(w) /\ m \in Orders /\ behind' \in BOOLEAN
  BY <1>1, <1>3, <1>4 DEF IsRepointing, Moved, ProjectsInv, ProjectsTyped
<1> QED BY <1>1, <1>4, <1>5, <1>6, <1>7, <1>8, OrderStep

LEMMA RenderKeeps == ASSUME ProjectsInv, NEW p \in Processes, Projects!Render(p) PROVE ProjectsInv'
<1> PICK w : w = project[p]
  OBVIOUS
<1> PICK rs : rs = {<<n, row[n]>> : n \in Names}
  OBVIOUS
<1> PICK m : m = [w EXCEPT !.rows = rs, !.pc = "project"]
  OBVIOUS
<1>1. /\ UNCHANGED <<row, listed, imported, clone, torn, behind, locks>> /\ w.pc = "render"
      /\ project' = [project EXCEPT ![p] = m]
  BY DEF Projects!Render, Projects!Is, Projects!Records, Projects!Histories, ProjectsInv, ProjectsTyped
<1>2. /\ w \in Orders /\ Own(p, w) /\ w.name \in Names /\ w.name \in Locks /\ w.kind \in Projects!Kinds
      /\ Place(w) \in Route(w.kind) /\ Place(w) = "render"
  BY <1>1, AtOrder DEF Place
<1>3. rs \in SUBSET (Names \X Values)
  BY DEF ProjectsInv, ProjectsTyped
<1>4. Moved(m, w, "project", w.next) /\ m.rows = rs
  BY <1>2, <1>3 DEF Moved, Orders, ProjectPcs
<1>5. Place(m) = "project" /\ m.pc = "project"
  BY <1>4 DEF Moved, Place
<1>6. /\ "render" \in Changed /\ "project" \in Changed /\ "render" \in Repointed /\ "project" \in Repointed
      /\ "render" \notin Adding /\ "project" \notin Adding /\ "render" \in Changing /\ "project" \in Changing
  BY DEF Changing, Changed, Adding, Repointed
<1>7. "project" \in Route(w.kind)
  BY <1>2 DEF Route, Adding, Changed, Repointed, Changing, Projects!Kinds
<1>8. Ordered(p, m)'
  BY <1>1, <1>2, <1>4, <1>5, <1>6, <1>7 DEF Moved, Own, Ordered
<1>9. Adds(m)' /\ Repoints(m)'
  BY <1>1, <1>2, <1>4, <1>5, <1>6 DEF Moved, Own, Adds, Unlisted, IsRepointing, Repoints
<1>10. Own(p, m)'
  BY <1>1, <1>4, <1>5, <1>8, <1>9 DEF Own, Imports, Lists
<1>11. /\ IsRepointing(m) \/ ~IsRepointing(w)
       /\ m \in Orders /\ m.name = w.name /\ m.old = w.old /\ behind' \in BOOLEAN
  BY <1>1, <1>4, <1>5, <1>6 DEF IsRepointing, Moved, ProjectsInv, ProjectsTyped
<1> QED BY <1>1, <1>4, <1>5, <1>6, <1>10, <1>11, OrderStep

LEMMA ProjectionFailsKeeps ==
  ASSUME ProjectsInv, NEW p \in Processes, Projects!ProjectionFails(p)
  PROVE  ProjectsInv'
<1> PICK w : w = project[p]
  OBVIOUS
<1> PICK pc : pc = IF w.kind \in {"remove", "upstream"} THEN "end" ELSE "rollBack"
  OBVIOUS
<1>1. /\ UNCHANGED <<row, listed, imported, clone, torn, locks>> /\ w.pc = "project"
      /\ Projects!Goto(p, pc) /\ behind' = (behind \/ w.kind \in {"remove", "upstream"})
  BY DEF Projects!ProjectionFails, Projects!Is, Projects!Records, Projects!Kind
<1>2. /\ w \in Orders /\ Own(p, w) /\ w.name \in Names /\ w.name \in Locks /\ w.kind \in Projects!Kinds
      /\ Place(w) \in Route(w.kind) /\ Place(w) = "project"
  BY <1>1, AtOrder DEF Place
<1>3. w.kind # "spawn" /\ pc \in ProjectPcs
  BY <1>2 DEF Route, ProjectPcs
<1>4. PICK m : project' = [project EXCEPT ![p] = m] /\ Moved(m, w, pc, w.next)
  BY <1>1, <1>2, <1>3, OrderGoto DEF Orders
<1>5. Place(m) = pc /\ m.pc = pc
  BY <1>4 DEF Moved, Place
<1>6. /\ "rollBack" \in Changed /\ "project" \in Changed /\ "rollBack" \in Repointed /\ "project" \in Repointed
      /\ "rollBack" \notin Adding /\ "project" \notin Adding /\ "rollBack" \in Changing /\ "project" \in Changing
      /\ "end" \notin Adding \cup Changed \cup Changing
  BY DEF Changing, Changed, Adding, Repointed
<1>7. pc \in Route(w.kind)
  BY <1>2, <1>3 DEF Route, Adding, Changed, Repointed, Changing, Projects!Kinds
<1>8. Ordered(p, m)'
  BY <1>1, <1>2, <1>4, <1>5, <1>6, <1>7 DEF Moved, Own, Ordered
<1>9. Adds(m)' /\ Repoints(m)'
  BY <1>1, <1>2, <1>4, <1>5, <1>6 DEF Moved, Own, Adds, Unlisted, IsRepointing, Repoints
<1>10. Own(p, m)'
  BY <1>4, <1>5, <1>8, <1>9 DEF Own, Imports, Lists
<1>11. /\ IsRepointing(m) \/ ~IsRepointing(w)
       /\ m \in Orders /\ m.name = w.name /\ m.old = w.old
       /\ behind' \/ (m.pc \in Changed /\ w.pc \in Changed)
  BY <1>1, <1>4, <1>5, <1>6 DEF IsRepointing, Moved
<1>12. behind' \in BOOLEAN /\ (behind => behind')
  BY <1>1 DEF ProjectsInv, ProjectsTyped
<1> QED BY <1>1, <1>4, <1>10, <1>11, <1>12, OrderStep

LEMMA RollBackFailsKeeps ==
  ASSUME ProjectsInv, NEW p \in Processes, Projects!RollBackFails(p)
  PROVE  ProjectsInv'
<1> PICK w : w = project[p]
  OBVIOUS
<1> PICK pc : pc = IF w.kind = "add" THEN "end" ELSE "restoreOrigin"
  OBVIOUS
<1>1. /\ UNCHANGED <<row, listed, imported, clone>> /\ w.pc = "rollBack" /\ behind' = TRUE
      /\ torn' = (IF w.kind = "add" THEN torn ELSE torn \cup {w.name})
      /\ Projects!Goto(p, pc) /\ Projects!Leave(p, "registry")
  BY DEF Projects!RollBackFails, Projects!Is, Projects!Records, Projects!Kind, Projects!Name
<1>2. /\ w \in Orders /\ Own(p, w) /\ w.name \in Names /\ w.name \in Locks /\ w.kind \in Projects!Kinds
      /\ Place(w) \in Route(w.kind) /\ Place(w) = "rollBack" /\ "registry" \in Locks /\ w.name # "registry"
  BY <1>1, AtOrder, ProjectsFacts DEF Place, Locks
<1>3. w.kind \in {"add", "set-url", "sync"} /\ pc \in ProjectPcs
  BY <1>2 DEF Route, ProjectPcs, Projects!Kinds
<1>4. PICK m : project' = [project EXCEPT ![p] = m] /\ Moved(m, w, pc, w.next)
  BY <1>1, <1>2, <1>3, OrderGoto DEF Orders
<1>5. Place(m) = pc /\ m.pc = pc
  BY <1>4 DEF Moved, Place
<1>6. /\ "rollBack" \in Changed /\ "rollBack" \in Repointed /\ "rollBack" \in Changing
      /\ "end" \notin Adding \cup Changed \cup Changing
      /\ "restoreOrigin" \in Repointed /\ "restoreOrigin" \notin Changed \cup Changing
  BY DEF Changing, Changed, Adding, Repointed
<1>7. pc \in Route(w.kind)
  BY <1>2, <1>3 DEF Route, Adding, Changed, Repointed, Changing
<1>8. locks["registry"] = p /\ \A l \in Locks \ {"registry"} : locks'[l] = locks[l]
  BY <1>1, <1>2, <1>6 DEF Own, Ordered, Projects!Leave, ProjectsInv, ProjectsTyped
<1>9. Ordered(p, m)'
  BY <1>1, <1>2, <1>3, <1>4, <1>5, <1>6, <1>7, <1>8 DEF Moved, Own, Ordered
<1>10. Adds(m)' /\ Repoints(m)'
  BY <1>1, <1>2, <1>3, <1>4, <1>5, <1>6 DEF Moved, Own, Ordered, Adds, Unlisted, IsRepointing, Repoints
<1>11. Own(p, m)'
  BY <1>4, <1>5, <1>9, <1>10 DEF Own, Imports, Lists
<1>12. /\ IsRepointing(m) \/ ~IsRepointing(w)
       /\ m \in Orders /\ m.name = w.name
  BY <1>1, <1>3, <1>4, <1>5, <1>6 DEF IsRepointing, Moved
<1>13. torn \subseteq torn'
  BY <1>1
<1> QED BY <1>1, <1>2, <1>4, <1>8, <1>11, <1>12, <1>13, OrderStep

(* A step of the holder of a project's lock on its clone.                    *)
LEMMA CloneStep ==
  ASSUME ProjectsInv, NEW p \in Processes, UNCHANGED <<row, listed, imported, torn, behind>>,
         project[p].pc # "idle", project[p].pc \notin Changed, locks[project[p].name] = p,
         project[p].kind \in {"add", "set-url", "sync"},
         NEW d \in [at : {"absent", "partial", "whole"}, origin : Urls \cup {Projects!None}],
         clone' = [clone EXCEPT ![project[p].name] = d],
         NEW m \in Orders, project' = [project EXCEPT ![p] = m], m.pc \notin Changed,
         UNCHANGED locks \/ Projects!LeaveAll(p), Own(p, m)',
         row[project[p].name] # Projects!None => d.at = "whole",
         ~imported /\ listed[project[p].name] # Projects!None => clone[project[p].name].at = d.at,
         row[project[p].name] = Projects!None => Unlisted(project[p].name) \/ clone[project[p].name] = d,
         \/ row[project[p].name] \notin Urls \/ project[p].name \in torn
         \/ IsRepointing(m) /\ m.name = project[p].name
         \/ d.origin = row[project[p].name]
  PROVE  ProjectsInv'
<1> PICK n : n = project[p].name
  OBVIOUS
<1>1. n \in Names /\ n \in Locks
  BY AtOrder
<1>2. /\ locks' \in [Locks -> Processes \cup {Projects!Nobody}]
      /\ \A q \in Processes \ {p} : \A l \in Locks : locks[l] = q => locks'[l] = q
  BY LocksKept DEF ProjectsInv
<1>3. ProjectsTyped' /\ project'[p] = m /\ \A q \in Processes \ {p} : project'[q] = project[q]
  BY <1>2 DEF ProjectsInv, ProjectsTyped
<1>4. clone'[n] = d /\ \A k \in Names \ {n} : clone'[k] = clone[k]
  BY <1>1 DEF ProjectsInv, ProjectsTyped
<1>5. ASSUME NEW q \in Processes, q # p PROVE Own(q, project[q])'
  <2> PICK w : w = project[q]
    OBVIOUS
  <2>1. project'[q] = w /\ Own(q, w)
    BY <1>3, <1>5 DEF ProjectsInv
  <2>2. \A l \in Locks : locks[l] = q => locks'[l] = q
    BY <1>2, <1>5
  <2>3. Ordered(q, w)'
    <3>1. w.pc # "idle" => w.name \in Locks
      BY <2>1 DEF Own, Ordered, Locks
    <3>2. w.pc = "idle" => Place(w) = "idle"
      BY DEF Place
    <3> QED BY <2>1, <2>2, <3>1, <3>2 DEF Own, Ordered, Locks
  <2>4. Imports(q, w)' /\ Lists(w)'
    BY <2>1, <2>2 DEF Own, Imports, Lists, Locks
  <2>5. w.kind \in {"add", "set-url", "sync"} /\ Place(w) \in Adding \cup Changed \cup Repointed
          => w.name # n /\ w.name \in Names
    <3>1. w.pc = "idle" => Place(w) = "idle"
      BY DEF Place
    <3>2. {"idle", "lockProject", "target"} \cap (Adding \cup Changed \cup Repointed) = {}
      BY DEF Adding, Changed, Repointed, Changing
    <3> QED BY <1>5, <2>1, <3>1, <3>2 DEF Own, Ordered
  <2>6. Adds(w)'
    <3>1. {"lockRegistry", "change"} \subseteq Adding
      BY DEF Adding
    <3> QED BY <1>4, <2>1, <2>5, <3>1 DEF Own, Adds, Unlisted
  <2>7. Repoints(w)'
    BY <1>4, <2>1, <2>5 DEF Own, Repoints, IsRepointing, Unlisted
  <2> QED BY <2>1, <2>3, <2>4, <2>6, <2>7 DEF Own
<1>6. Own(p, project[p])'
  BY <1>3
<1>7. Projects!RowHasClone'
  BY <1>4 DEF ProjectsInv, Projects!RowHasClone
<1>8. Legacies'
  <2> SUFFICES ASSUME ~imported, NEW k \in Names, listed[k] # Projects!None
               PROVE  /\ clone'[k].at = "whole"
                      /\ \A j \in Names : row[j] \in {Projects!None, listed[j]}
                      /\ row[k] = Projects!None /\ listed[k] \in Urls /\ k \notin torn
                           => clone'[k].origin = listed[k]
    BY DEF Legacies
  <2>1. /\ clone[k].at = "whole"
        /\ \A j \in Names : row[j] \in {Projects!None, listed[j]}
        /\ row[k] = Projects!None /\ listed[k] \in Urls /\ k \notin torn => clone[k].origin = listed[k]
    BY DEF ProjectsInv, Legacies
  <2>2. CASE k # n
    BY <1>4, <2>1, <2>2
  <2>3. CASE k = n
    BY <1>4, <2>1, <2>3 DEF Unlisted
  <2> QED BY <2>2, <2>3
<1>9. Origins'
  <2> SUFFICES ASSUME NEW k \in Names \ torn, row[k] \in Urls,
                      \A q \in Processes : ~(project'[q].name = k /\ IsRepointing(project'[q]))
               PROVE  clone'[k].origin = row[k]
    BY DEF Origins
  <2>1. CASE k = n
    BY <1>3, <1>4, <2>1
  <2>2. CASE k # n
    <3>1. \A q \in Processes : ~(project[q].name = k /\ IsRepointing(project[q]))
      BY <1>3, <2>2
    <3> QED BY <1>4, <2>2, <3>1 DEF ProjectsInv, Origins
  <2> QED BY <2>1, <2>2
<1>10. Rendered'
  BY <1>3 DEF ProjectsInv, Rendered
<1> QED BY <1>3, <1>5, <1>6, <1>7, <1>8, <1>9, <1>10 DEF ProjectsInv

(* An order that is over after its step on a clone.                          *)
LEMMA ReserveKeeps == ASSUME ProjectsInv, NEW p \in Processes, Projects!Reserve(p) PROVE ProjectsInv'
<1> PICK w : w = project[p]
  OBVIOUS
<1> PICK n : n = w.name
  OBVIOUS
<1>1. /\ UNCHANGED <<row, listed, imported, torn, behind>> /\ w.pc = "reserve"
  BY DEF Projects!Reserve, Projects!Is, Projects!Records, Projects!Histories
<1>2. /\ w \in Orders /\ Own(p, w) /\ n \in Names /\ n \in Locks /\ w.kind \in Projects!Kinds
      /\ Place(w) \in Route(w.kind) /\ Place(w) = "reserve"
  BY <1>1, AtOrder DEF Place
<1>3. w.kind = "add"
  BY <1>2 DEF Route, Projects!Kinds, Changed, Repointed, Changing
<1>4. w.pc \notin Changed /\ ~IsRepointing(w) /\ behind' \in BOOLEAN
  BY <1>1, <1>3 DEF Changed, IsRepointing, ProjectsInv, ProjectsTyped
<1>5. CASE row[n] # Projects!None \/ clone[n].at # "absent"
  <2>1. Projects!Finish(p) /\ clone' = clone
    BY <1>5 DEF Projects!Reserve, Projects!Name
  <2> QED BY <1>1, <1>4, <2>1, FinishStep
<1>6. CASE row[n] = Projects!None /\ clone[n].at = "absent"
  <2> PICK d : d = [at |-> "partial", origin |-> Projects!None]
    OBVIOUS
  <2>1. clone' = [clone EXCEPT ![n] = d] /\ Projects!Goto(p, "clone") /\ UNCHANGED locks
    BY <1>6 DEF Projects!Reserve, Projects!Name
  <2>2. PICK m : project' = [project EXCEPT ![p] = m] /\ Moved(m, w, "clone", w.next)
    BY <1>2, <2>1, OrderGoto DEF Orders, ProjectPcs
  <2>3. Place(m) = "clone" /\ m.pc = "clone"
    BY <2>2 DEF Moved, Place
  <2>4. Unlisted(n)
    BY <1>2, <1>6 DEF Unlisted, ProjectsInv, Legacies
  <2>5. /\ "clone" \in Route("add") /\ "clone" \notin Changing \cup Changed
    BY DEF Route, Adding, Changing, Changed
  <2>6. locks[n] = p
    BY <1>2, <1>3 DEF Own, Ordered
  <2>7. Own(p, m)'
    BY <1>1, <1>2, <1>3, <1>6, <2>1, <2>2, <2>3, <2>4, <2>5, <2>6
       DEF Moved, Own, Ordered, Imports, Adds, Unlisted, IsRepointing, Repoints, Lists
  <2>8. m \in Orders /\ d \in [at : {"absent", "partial", "whole"}, origin : Urls \cup {Projects!None}]
    BY <2>2 DEF Moved
  <2>9. ~imported => listed[n] = Projects!None
    BY <2>4 DEF Unlisted
  <2>10. row[n] \notin Urls
    BY <1>6, ProjectsFacts
  <2> QED BY <1>1, <1>3, <1>4, <1>6, <2>1, <2>2, <2>3, <2>4, <2>5, <2>6, <2>7, <2>8, <2>9, <2>10, CloneStep
<1> QED BY <1>5, <1>6

LEMMA CloneKeeps == ASSUME ProjectsInv, NEW p \in Processes, Projects!Clone(p) PROVE ProjectsInv'
<1> PICK w : w = project[p]
  OBVIOUS
<1> PICK n : n = w.name
  OBVIOUS
<1> PICK d : d = [at |-> "whole", origin |-> OriginOf(w.url)]
  OBVIOUS
<1>1. /\ UNCHANGED <<row, listed, imported, torn, behind, locks>> /\ w.pc = "clone"
      /\ clone' = [clone EXCEPT ![n] = d] /\ Projects!Goto(p, "lockRegistry")
  BY DEF Projects!Clone, Projects!Is, Projects!Records, Projects!Histories, Projects!Name, OriginOf
<1>2. /\ w \in Orders /\ Own(p, w) /\ n \in Names /\ n \in Locks /\ w.kind \in Projects!Kinds
      /\ Place(w) \in Route(w.kind) /\ Place(w) = "clone"
  BY <1>1, AtOrder DEF Place
<1>3. w.kind = "add"
  BY <1>2 DEF Route, Projects!Kinds, Changed, Repointed, Changing
<1>4. PICK m : project' = [project EXCEPT ![p] = m] /\ Moved(m, w, "lockRegistry", w.next)
  BY <1>1, <1>2, OrderGoto DEF Orders, ProjectPcs
<1>5. Place(m) = "lockRegistry" /\ m.pc = "lockRegistry"
  BY <1>4 DEF Moved, Place
<1>6. /\ "lockRegistry" \in Route("add") /\ "lockRegistry" \notin Changing \cup Changed
      /\ "lockRegistry" \in Adding /\ "clone" \in Adding /\ "clone" \notin Changed
  BY DEF Route, Changing, Changed, Adding
<1>7. /\ w.url \in Urls \cup {Projects!Local} /\ locks[n] = p /\ row[n] = Projects!None /\ Unlisted(n)
  BY <1>2, <1>3, <1>6 DEF Own, Ordered, Adds
<1>8. d \in [at : {"absent", "partial", "whole"}, origin : Urls \cup {Projects!None}]
      /\ d.at = "whole" /\ d.origin = OriginOf(w.url)
  BY <1>7 DEF OriginOf
<1>9. clone'[n] = d
  BY <1>1, <1>2 DEF ProjectsInv, ProjectsTyped
<1>10. Ordered(p, m)' /\ Imports(p, m)' /\ Lists(m)'
  BY <1>1, <1>2, <1>3, <1>4, <1>5, <1>6 DEF Moved, Own, Ordered, Imports, Lists
<1>11. Adds(m)' /\ Repoints(m)'
  BY <1>1, <1>3, <1>4, <1>5, <1>6, <1>7, <1>8, <1>9 DEF Moved, Adds, Unlisted, IsRepointing, Repoints
<1>12. m \in Orders /\ row[n] \notin Urls /\ (~imported => listed[n] = Projects!None)
  BY <1>4, <1>7, ProjectsFacts DEF Moved, Unlisted
<1>13. "clone" \notin Changed /\ Own(p, m)'
  BY <1>10, <1>11 DEF Changed, Own
<1> QED BY <1>1, <1>3, <1>4, <1>5, <1>6, <1>7, <1>8, <1>12, <1>13, CloneStep

LEMMA CleanUpKeeps == ASSUME ProjectsInv, NEW p \in Processes, Projects!CleanUp(p) PROVE ProjectsInv'
<1> PICK w : w = project[p]
  OBVIOUS
<1> PICK n : n = w.name
  OBVIOUS
<1> PICK d : d = Projects!NoClone
  OBVIOUS
<1>1. /\ UNCHANGED <<row, listed, imported, torn, behind>> /\ w.pc = "cleanUp"
      /\ clone' = [clone EXCEPT ![n] = d] /\ project' = [project EXCEPT ![p] = Projects!Idle] /\ Projects!LeaveAll(p)
  BY DEF Projects!CleanUp, Projects!Is, Projects!Records, Projects!Histories, Projects!Name, Projects!Finish
<1>2. /\ w \in Orders /\ Own(p, w) /\ n \in Names /\ n \in Locks /\ w.kind \in Projects!Kinds
      /\ Place(w) \in Route(w.kind) /\ Place(w) = "cleanUp"
  BY <1>1, AtOrder DEF Place
<1>3. w.kind = "add" /\ "cleanUp" \in Adding /\ w.pc \notin Changed
  BY <1>1, <1>2 DEF Route, Projects!Kinds, Changed, Repointed, Changing, Adding
<1>4. locks[n] = p /\ row[n] = Projects!None /\ Unlisted(n)
  BY <1>2, <1>3 DEF Own, Ordered, Adds
<1>5. d \in [at : {"absent", "partial", "whole"}, origin : Urls \cup {Projects!None}]
  BY DEF Projects!NoClone
<1>6. row[n] \notin Urls /\ (~imported => listed[n] = Projects!None) /\ Projects!Idle.pc \notin Changed
  BY <1>4, ProjectsFacts, IdleOrder DEF Unlisted, Changed
<1> QED BY <1>1, <1>3, <1>4, <1>5, <1>6, IdleOrder, IdleOrderLater, CloneStep

LEMMA RepointKeeps == ASSUME ProjectsInv, NEW p \in Processes, Projects!Repoint(p) PROVE ProjectsInv'
<1> PICK w : w = project[p]
  OBVIOUS
<1> PICK n : n = w.name
  OBVIOUS
<1>1. /\ UNCHANGED <<row, listed, imported, torn, behind>> /\ w.pc = "repoint"
  BY DEF Projects!Repoint, Projects!Is, Projects!Records, Projects!Histories
<1>2. /\ w \in Orders /\ Own(p, w) /\ n \in Names /\ n \in Locks /\ w.kind \in Projects!Kinds
      /\ Place(w) \in Route(w.kind) /\ Place(w) = "repoint"
  BY <1>1, AtOrder DEF Place
<1>3. w.kind \in {"set-url", "sync"}
  BY <1>2 DEF Route, Projects!Kinds, Changed, Adding, Changing
<1>4. w.pc \notin Changed /\ ~IsRepointing(w) /\ behind' \in BOOLEAN
  BY <1>1, <1>2 DEF Changed, Repointed, Changing, IsRepointing, ProjectsInv, ProjectsTyped
<1>5. CASE row[n] \in {Projects!None, Projects!Local} \/ clone[n].origin = Projects!None
  <2>1. Projects!Finish(p) /\ clone' = clone
    BY <1>5 DEF Projects!Repoint, Projects!Name
  <2> QED BY <1>1, <1>4, <2>1, FinishStep
<1>6. CASE row[n] \notin {Projects!None, Projects!Local} /\ clone[n].origin # Projects!None
  <2> PICK d : d = [clone[n] EXCEPT !.origin = w.url]
    OBVIOUS
  <2> PICK m : m = [w EXCEPT !.origin = clone[n].origin, !.pc = "lockRegistry"]
    OBVIOUS
  <2>1. clone' = [clone EXCEPT ![n] = d] /\ project' = [project EXCEPT ![p] = m] /\ UNCHANGED locks
    BY <1>6 DEF Projects!Repoint, Projects!Name, ProjectsInv, ProjectsTyped
  <2>2. /\ clone[n] \in [at : {"absent", "partial", "whole"}, origin : Urls \cup {Projects!None}]
        /\ row[n] \in Urls /\ w.url \in Urls /\ locks[n] = p
    BY <1>2, <1>3, <1>6 DEF ProjectsInv, ProjectsTyped, Values, Own, Ordered
  <2>3. /\ d \in [at : {"absent", "partial", "whole"}, origin : Urls \cup {Projects!None}]
        /\ d.at = clone[n].at /\ d.origin = w.url
    BY <2>2
  <2>4. /\ m \in Orders /\ m.pc = "lockRegistry" /\ m.kind = w.kind /\ m.name = n /\ m.url = w.url
        /\ m.origin = clone[n].origin
    BY <1>2, <2>2 DEF Orders, ProjectPcs
  <2>5. Place(m) = "lockRegistry"
    BY <2>4 DEF Place
  <2>6. /\ "lockRegistry" \in Route(w.kind) /\ "lockRegistry" \notin Changing \cup Changed
        /\ "lockRegistry" \in Repointed
    BY <1>3 DEF Route, Changing, Changed, Repointed
  <2>7. n \in torn \/ row[n] = clone[n].origin
    <3>1. ASSUME NEW q \in Processes, project[q].name = n, IsRepointing(project[q]) PROVE FALSE
      <4>1. q # p
        BY <1>4, <3>1
      <4>2. project[q].pc = "idle" => Place(project[q]) = "idle"
        BY DEF Place
      <4>3. {"idle", "lockProject", "target"} \cap Repointed = {}
        BY DEF Repointed, Changing, Changed
      <4>4. locks[n] = q
        BY <3>1, <4>2, <4>3 DEF ProjectsInv, Own, Ordered, IsRepointing
      <4> QED BY <2>2, <4>1, <4>4
    <3> QED BY <1>2, <2>2, <3>1 DEF ProjectsInv, Origins
  <2>8. clone'[n] = d
    BY <1>2, <2>1 DEF ProjectsInv, ProjectsTyped
  <2>9. Ordered(p, m)' /\ Imports(p, m)' /\ Lists(m)'
    BY <1>1, <1>2, <1>3, <2>1, <2>2, <2>4, <2>5, <2>6 DEF Own, Ordered, Imports, Lists
  <2>10. Adds(m)' /\ Repoints(m)'
    BY <1>1, <1>3, <2>2, <2>3, <2>4, <2>5, <2>6, <2>7, <2>8 DEF Adds, Repoints
  <2>11. /\ Own(p, m)' /\ IsRepointing(m) /\ "repoint" \notin Changed
         /\ row[n] # Projects!None => d.at = "whole"
    BY <1>2, <1>3, <2>3, <2>4, <2>5, <2>6, <2>9, <2>10
       DEF Own, IsRepointing, Changed, ProjectsInv, Projects!RowHasClone
  <2>12. m.pc \notin Changed /\ w.pc # "idle" /\ w.pc \notin Changed /\ m.name = n /\ m \in Orders
    BY <1>1, <2>4, <2>6, <2>11
  <2>13. row[n] # Projects!None /\ d.at = clone[n].at
    BY <1>6, <2>3
  <2> HIDE DEF IsRepointing
  <2> QED BY <1>1, <1>3, <2>1, <2>2, <2>3, <2>11, <2>12, <2>13, CloneStep
<1> QED BY <1>5, <1>6

LEMMA RestoreOriginKeeps ==
  ASSUME ProjectsInv, NEW p \in Processes, Projects!RestoreOrigin(p)
  PROVE  ProjectsInv'
<1> PICK w : w = project[p]
  OBVIOUS
<1> PICK n : n = w.name
  OBVIOUS
<1> PICK d : d = [clone[n] EXCEPT !.origin = w.origin]
  OBVIOUS
<1>1. /\ UNCHANGED <<row, listed, imported, torn, behind>> /\ w.pc = "restoreOrigin"
      /\ clone' = [clone EXCEPT ![n] = d] /\ project' = [project EXCEPT ![p] = Projects!Idle] /\ Projects!LeaveAll(p)
  BY DEF Projects!RestoreOrigin, Projects!Is, Projects!Records, Projects!Histories, Projects!Name, Projects!Finish,
     ProjectsInv, ProjectsTyped
<1>2. /\ w \in Orders /\ Own(p, w) /\ n \in Names /\ n \in Locks /\ w.kind \in Projects!Kinds
      /\ Place(w) \in Route(w.kind) /\ Place(w) = "restoreOrigin"
  BY <1>1, AtOrder DEF Place
<1>3. w.kind \in {"set-url", "sync"} /\ "restoreOrigin" \in Repointed /\ w.pc \notin Changed
  BY <1>1, <1>2 DEF Route, Projects!Kinds, Changed, Adding, Changing, Repointed
<1>4. /\ locks[n] = p
      /\ \/ row[n] = Projects!None /\ Unlisted(n)
         \/ row[n] \in Urls /\ (n \in torn \/ row[n] = w.origin)
  BY <1>1, <1>2, <1>3 DEF Own, Ordered, Repoints, IsRepointing
<1>5. /\ clone[n] \in [at : {"absent", "partial", "whole"}, origin : Urls \cup {Projects!None}]
      /\ w.origin \in Urls \cup {Projects!None}
  BY <1>2 DEF ProjectsInv, ProjectsTyped, Orders
<1>6. /\ d \in [at : {"absent", "partial", "whole"}, origin : Urls \cup {Projects!None}]
      /\ d.at = clone[n].at /\ d.origin = w.origin
  BY <1>5
<1>7. /\ row[n] # Projects!None => d.at = "whole"
      /\ row[n] = Projects!None => Unlisted(n)
      /\ row[n] \notin Urls \/ n \in torn \/ d.origin = row[n]
      /\ Projects!Idle.pc \notin Changed
  BY <1>2, <1>4, <1>6, ProjectsFacts, IdleOrder DEF ProjectsInv, Projects!RowHasClone, Changed
<1> QED BY <1>1, <1>3, <1>4, <1>6, <1>7, IdleOrder, IdleOrderLater, CloneStep

(* What the operator, and the rest of the system, do.                        *)
LEMMA OperatorKeeps ==
  ASSUME ProjectsInv, NEW n \in Names, Projects!Teardown(n) \/ Projects!OperatorDeletes(n)
  PROVE  ProjectsInv'
<1>1. CASE Projects!Teardown(n)
  <2>1. UNCHANGED <<row, listed, imported, clone, locks, project, behind, torn>>
    BY <1>1 DEF Projects!Teardown, Projects!Records, Projects!Histories
  <2>2. \A q : Own(q, project[q]) => Own(q, project[q])'
    BY <2>1 DEF Own, Ordered, Imports, Adds, IsRepointing, Repoints, Lists, Unlisted
  <2> QED BY <2>1, <2>2 DEF ProjectsInv, ProjectsTyped, Projects!RowHasClone, Legacies, Rendered, Origins
<1>2. CASE Projects!OperatorDeletes(n)
  <2>1. /\ UNCHANGED <<row, listed, imported, locks, project, behind>> /\ row[n] = Projects!None /\ imported
        /\ locks[n] = Projects!Nobody /\ torn' = torn \ {n}
        /\ clone' = [clone EXCEPT ![n] = Projects!NoClone]
    BY <1>2 DEF Projects!OperatorDeletes, Projects!Records, Projects!Free
  <2>2. ProjectsTyped' /\ \A k \in Names \ {n} : clone'[k] = clone[k]
    BY <2>1 DEF ProjectsInv, ProjectsTyped, Projects!NoClone
  <2>3. ASSUME NEW q \in Processes PROVE Own(q, project[q])'
    <3> PICK w : w = project[q]
      OBVIOUS
    <3>1. project'[q] = w /\ Own(q, w)
      BY <2>1 DEF ProjectsInv
    <3>2. Ordered(q, w)' /\ Imports(q, w)' /\ Lists(w)'
      BY <2>1, <3>1 DEF Own, Ordered, Imports, Lists
    <3>3. w.kind \in {"add", "set-url", "sync"} /\ Place(w) \in Adding \cup Changed \cup Repointed
            => w.name # n /\ w.name \in Names
      <4>1. w.pc = "idle" => Place(w) = "idle"
        BY DEF Place
      <4>2. {"idle", "lockProject", "target"} \cap (Adding \cup Changed \cup Repointed) = {}
        BY DEF Adding, Changed, Repointed, Changing
      <4> QED BY <2>1, <3>1, <4>1, <4>2, ProjectsFacts DEF Own, Ordered
    <3>4. {"lockRegistry", "change"} \subseteq Adding
      BY DEF Adding
    <3>5. Adds(w)'
      BY <2>1, <2>2, <3>1, <3>3, <3>4 DEF Own, Adds, Unlisted
    <3>6. Repoints(w)'
      BY <2>1, <2>2, <3>1, <3>3 DEF Own, Repoints, IsRepointing, Unlisted
    <3> QED BY <3>1, <3>2, <3>5, <3>6 DEF Own
  <2>4. Projects!RowHasClone' /\ Legacies' /\ Rendered'
    BY <2>1, <2>2 DEF ProjectsInv, Projects!RowHasClone, Legacies, Rendered
  <2>5. Origins'
    BY <2>1, <2>2, ProjectsFacts DEF ProjectsInv, Origins
  <2> QED BY <2>2, <2>3, <2>4, <2>5 DEF ProjectsInv
<1> QED BY <1>1, <1>2

(* Whoever imports is the only one, and nobody changes a row meanwhile.      *)
LEMMA ImportingAlone ==
  ASSUME ProjectsInv, NEW p \in Processes, project[p].pc = "rows"
  PROVE  /\ ~imported
         /\ \A q \in Processes : project[q].pc \notin Changing \cup Changed \cup {"project"}
         /\ \A q \in Processes \ {p} : project[q].pc # "rows"
<1>1. Own(p, project[p]) /\ ~imported /\ locks["migration"] = p
      /\ \E n \in Names : listed[n] # Projects!None
  BY DEF ProjectsInv, Own, Imports
<1>2. ASSUME NEW q \in Processes PROVE project[q].pc \notin Changing
  BY <1>1 DEF ProjectsInv, Own, Ordered
<1>3. Changed \subseteq Changing /\ "project" \in Changing
  BY DEF Changed, Changing
<1> QED BY <1>1, <1>2, <1>3 DEF ProjectsInv, Own, Imports

LEMMA ImportRowKeeps == ASSUME ProjectsInv, NEW p \in Processes, Projects!ImportRow(p) PROVE ProjectsInv'
<1> PICK w : w = project[p]
  OBVIOUS
<1>1. /\ UNCHANGED <<listed, imported, clone, locks, torn, behind>> /\ w.pc = "rows"
  BY DEF Projects!ImportRow, Projects!Is, Projects!Histories
<1>2. PICK r \in w.rows : /\ row' = [row EXCEPT ![r[1]] = IF row[r[1]] = Projects!None THEN r[2] ELSE row[r[1]]]
                          /\ project' = [project EXCEPT ![p] = [w EXCEPT !.rows = w.rows \ {r}]]
  BY DEF Projects!ImportRow, ProjectsInv, ProjectsTyped
<1> PICK k, m : k = r[1] /\ m = [w EXCEPT !.rows = w.rows \ {r}]
  OBVIOUS
<1>3. /\ w \in Orders /\ Own(p, w) /\ w.name \in Names /\ w.kind \in Projects!Kinds
  BY <1>1, AtOrder
<1>4. /\ k \in Names /\ listed[k] = r[2] /\ listed[k] # Projects!None /\ ~imported
      /\ \A n \in Names : listed[n] # Projects!None /\ row[n] = Projects!None => <<n, listed[n]>> \in w.rows
  BY <1>1, <1>3 DEF Own, Imports
<1>5. /\ row' = [row EXCEPT ![k] = IF row[k] = Projects!None THEN listed[k] ELSE row[k]]
      /\ row'[k] # Projects!None /\ \A n \in Names : n # k \/ row[k] # Projects!None => row'[n] = row[n]
      /\ row' \in [Names -> Values]
  BY <1>2, <1>4 DEF ProjectsInv, ProjectsTyped
<1>6. /\ m \in Orders /\ m.pc = w.pc /\ m.kind = w.kind /\ m.name = w.name /\ m.url = w.url /\ m.old = w.old
      /\ m.origin = w.origin /\ m.next = w.next /\ m.rows = w.rows \ {r}
  BY <1>3 DEF Orders
<1>7. Place(m) = Place(w) /\ (IsRepointing(m) <=> IsRepointing(w))
  BY <1>6 DEF Place, IsRepointing
<1>8. /\ project'[p] = m /\ \A q \in Processes \ {p} : project'[q] = project[q]
      /\ ProjectsTyped'
  BY <1>1, <1>2, <1>5, <1>6 DEF ProjectsInv, ProjectsTyped
<1>9. ASSUME NEW q \in Processes, NEW o, o = project[q] PROVE Adds(o)' /\ Repoints(o)'
  <2>1. Own(q, o)
    BY <1>9 DEF ProjectsInv
  <2>2. o.kind = "add" /\ Place(o) \in Adding \cup Changed => row'[o.name] = row[o.name]
    <3> SUFFICES ASSUME o.kind = "add", Place(o) \in Adding \cup Changed, o.name = k PROVE row[k] # Projects!None
      <4>1. o.name \in Names \/ Place(o) \notin Adding \cup Changed
        BY <2>1 DEF Own, Ordered, Place, Adding, Changed
      <4> QED BY <1>5, <4>1
    <3>1. Place(o) \notin Adding
      BY <1>4, <2>1 DEF Own, Adds, Unlisted
    <3>2. row[k] = o.url /\ o.url \in Urls \cup {Projects!Local}
      BY <2>1, <3>1 DEF Own, Adds, Ordered
    <3> QED BY <3>2, ProjectsFacts
  <2>3. IsRepointing(o) => o.name # k \/ row[k] # Projects!None
    <3> SUFFICES ASSUME IsRepointing(o), o.name = k PROVE row[k] # Projects!None
      BY <1>4, <1>5
    <3>1. o.url \in Urls
      BY <2>1 DEF Own, Ordered, IsRepointing
    <3> QED BY <1>4, <2>1, <3>1, ProjectsFacts DEF Own, Repoints, Unlisted
  <2>4. IsRepointing(o) => o.name \in Names
    BY <2>1 DEF Own, Ordered, IsRepointing, Place, Repointed, Changing, Changed
  <2>5. IsRepointing(o) => row'[o.name] = row[o.name]
    BY <1>5, <2>3, <2>4
  <2>6. Adds(o)'
    <3>1. {"lockRegistry", "change"} \subseteq Adding
      BY DEF Adding
    <3> QED BY <1>1, <2>1, <2>2, <3>1 DEF Own, Adds, Unlisted
  <2>7. Repoints(o)'
    <3>1. IsRepointing(o)' <=> IsRepointing(o)
      BY DEF IsRepointing
    <3> QED BY <1>1, <2>1, <2>5, <3>1 DEF Own, Repoints, Unlisted
  <2> QED BY <2>6, <2>7
<1>10. ASSUME NEW q \in Processes, q # p PROVE Own(q, project[q])'
  <2> PICK o : o = project[q]
    OBVIOUS
  <2>1. project'[q] = o /\ Own(q, o) /\ o.pc # "rows" /\ o.pc # "project"
    BY <1>1, <1>8, <1>10, ImportingAlone DEF ProjectsInv
  <2>2. Ordered(q, o)' /\ Imports(q, o)' /\ Lists(o)'
    BY <1>1, <2>1 DEF Own, Ordered, Imports, Lists
  <2> QED BY <1>9, <2>1, <2>2 DEF Own
<1>11. Own(p, m)'
  <2>1. Adds(w)' /\ Repoints(w)'
    BY <1>9
  <2>2. Adds(m)' /\ Repoints(m)'
    BY <1>6, <1>7, <2>1 DEF Adds, Repoints, Unlisted
  <2>3. Ordered(p, m)' /\ Lists(m)'
    BY <1>1, <1>3, <1>6, <1>7 DEF Own, Ordered, Lists
  <2>4. Imports(p, m)'
    <3>1. ASSUME NEW n \in Names, listed[n] # Projects!None, row'[n] = Projects!None
          PROVE  <<n, listed[n]>> \in m.rows
      <4>1. n # k /\ row[n] = Projects!None
        BY <1>5, <3>1
      <4> QED BY <1>4, <1>6, <3>1, <4>1
    <3> QED BY <1>1, <1>3, <1>6, <3>1 DEF Own, Imports
  <2> QED BY <2>2, <2>3, <2>4 DEF Own
<1>12. Projects!RowHasClone'
  BY <1>1, <1>4, <1>5 DEF ProjectsInv, Projects!RowHasClone, Legacies
<1>13. Legacies' /\ Rendered'
  <2>1. \A n \in Names : row'[n] \in {Projects!None, listed[n]}
    BY <1>4, <1>5 DEF ProjectsInv, Legacies
  <2>2. \A n \in Names : row'[n] = Projects!None => row[n] = Projects!None
    BY <1>5
  <2> QED BY <1>1, <1>4, <2>1, <2>2 DEF ProjectsInv, Legacies, Rendered
<1>14. Origins'
  <2> SUFFICES ASSUME NEW n \in Names \ torn, row'[n] \in Urls,
                      \A q \in Processes : ~(project'[q].name = n /\ IsRepointing(project'[q]))
               PROVE  clone[n].origin = row'[n]
    BY <1>1 DEF Origins, IsRepointing
  <2>1. ASSUME NEW q \in Processes PROVE ~(project[q].name = n /\ IsRepointing(project[q]))
    <3>1. CASE q = p
      <4>1. ~(m.name = n /\ IsRepointing(m))
        BY <1>8
      <4> QED BY <1>6, <1>7, <3>1, <4>1
    <3>2. CASE q # p
      BY <1>8, <3>2
    <3> QED BY <3>1, <3>2
  <2>2. CASE row'[n] = row[n]
    BY <2>1, <2>2 DEF ProjectsInv, Origins
  <2>3. CASE row'[n] # row[n]
    <3>1. n = k /\ row[k] = Projects!None /\ row'[k] = listed[k]
      BY <1>4, <1>5, <2>3 DEF ProjectsInv, ProjectsTyped
    <3> QED BY <1>4, <3>1 DEF ProjectsInv, Legacies
  <2> QED BY <2>2, <2>3
<1> QED BY <1>8, <1>10, <1>11, <1>12, <1>13, <1>14 DEF ProjectsInv

LEMMA MarkImportedKeeps == ASSUME ProjectsInv, NEW p \in Processes, Projects!MarkImported(p) PROVE ProjectsInv'
<1> PICK w : w = project[p]
  OBVIOUS
<1>1. /\ UNCHANGED <<row, listed, clone, torn, behind>> /\ w.pc = "rows" /\ w.rows = {} /\ imported' = TRUE
      /\ Projects!Leave(p, "migration") /\ Projects!Goto(p, w.next)
  BY DEF Projects!MarkImported, Projects!Is, Projects!Histories
<1>2. /\ w \in Orders /\ Own(p, w) /\ w.name \in Names /\ w.name \in Locks /\ w.kind \in Projects!Kinds
      /\ Place(w) \in Route(w.kind) /\ "migration" \in Locks /\ "registry" \in Locks
      /\ w.name # "migration"
  BY <1>1, AtOrder, ProjectsFacts DEF Locks
<1>3. Place(w) = w.next /\ w.next \in Steps
  <2>1. Place(w) = w.next
    BY <1>1 DEF Place
  <2>2. Projects!None \notin Route(w.kind)
    BY DEF Route, Adding, Changed, Repointed, Changing, Projects!None
  <2> QED BY <1>2, <2>1, <2>2 DEF Orders
<1>4. w.next \in ProjectPcs /\ w.next \notin Changed \cup {"rows", "project", "idle"}
  BY <1>3 DEF ProjectPcs, Steps, Changed
<1>5. PICK m : project' = [project EXCEPT ![p] = m] /\ Moved(m, w, w.next, w.next)
  BY <1>1, <1>3, <1>4, OrderGoto
<1>6. Place(m) = Place(w) /\ m.pc = w.next
  BY <1>3, <1>5 DEF Moved, Place, Steps
<1>7. /\ locks["migration"] = p /\ ~imported
      /\ \A n \in Names : listed[n] # Projects!None => row[n] # Projects!None
      /\ \E n \in Names : listed[n] # Projects!None
  BY <1>1, <1>2 DEF Own, Imports
<1>8. /\ \A l \in Locks \ {"migration"} : locks'[l] = locks[l]
      /\ project'[p] = m /\ \A q \in Processes \ {p} : project'[q] = project[q]
  BY <1>1, <1>5 DEF Projects!Leave, ProjectsInv, ProjectsTyped
<1>9. ProjectsTyped'
  <2>1. m \in Orders
    BY <1>5 DEF Moved
  <2> QED BY <1>1, <1>5, <2>1 DEF Projects!Leave, ProjectsInv, ProjectsTyped
<1>10. ASSUME NEW q \in Processes, q # p PROVE Own(q, project[q])'
  <2> PICK o : o = project[q]
    OBVIOUS
  <2>1. project'[q] = o /\ Own(q, o) /\ o.pc # "rows"
    BY <1>1, <1>8, <1>10, ImportingAlone DEF ProjectsInv
  <2>2. Ordered(q, o)'
    <3>1. o.pc # "idle" => o.name \in Locks \ {"migration"}
      BY <2>1, ProjectsFacts DEF Own, Ordered, Locks
    <3>2. o.pc = "idle" => Place(o) = "idle"
      BY DEF Place
    <3> QED BY <1>1, <1>2, <1>8, <2>1, <3>1, <3>2 DEF Own, Ordered
  <2>3. Imports(q, o)' /\ Lists(o)'
    BY <1>1, <2>1 DEF Own, Imports, Lists
  <2>4. Adds(o)' /\ Repoints(o)'
    BY <1>1, <2>1 DEF Own, Adds, Repoints, IsRepointing, Unlisted
  <2> QED BY <2>1, <2>2, <2>3, <2>4 DEF Own
<1>11. Own(p, m)'
  <2>1. Ordered(p, m)'
    BY <1>1, <1>2, <1>3, <1>4, <1>5, <1>6, <1>8 DEF Moved, Own, Ordered
  <2>2. Imports(p, m)' /\ Lists(m)'
    BY <1>4, <1>6 DEF Imports, Lists
  <2>3. Adds(m)' /\ Repoints(m)'
    BY <1>1, <1>2, <1>5, <1>6 DEF Moved, Own, Adds, Repoints, IsRepointing, Unlisted
  <2> QED BY <2>1, <2>2, <2>3 DEF Own
<1>12. Projects!RowHasClone' /\ Legacies'
  BY <1>1 DEF ProjectsInv, Projects!RowHasClone, Legacies
<1>13. Rendered'
  <2>1. \A q \in Processes : project'[q].pc \notin Changed
    BY <1>1, <1>4, <1>6, <1>8, ImportingAlone
  <2>2. \A n \in Names : listed[n] = row[n]
    BY <1>7 DEF ProjectsInv, Legacies
  <2> QED BY <1>1, <2>1, <2>2 DEF Rendered
<1>14. Origins'
  <2> SUFFICES ASSUME NEW n \in Names \ torn, row[n] \in Urls,
                      \A q \in Processes : ~(project'[q].name = n /\ IsRepointing(project'[q]))
               PROVE  clone[n].origin = row[n]
    BY <1>1 DEF Origins, IsRepointing
  <2>1. ASSUME NEW q \in Processes PROVE ~(project[q].name = n /\ IsRepointing(project[q]))
    <3>1. CASE q = p
      <4>1. ~(m.name = n /\ IsRepointing(m))
        BY <1>8
      <4> QED BY <1>5, <1>6, <3>1, <4>1 DEF Moved, IsRepointing
    <3>2. CASE q # p
      BY <1>8, <3>2
    <3> QED BY <3>1, <3>2
  <2> QED BY <2>1 DEF ProjectsInv, Origins
<1> QED BY <1>8, <1>9, <1>10, <1>11, <1>12, <1>13, <1>14 DEF ProjectsInv

(* Whoever changes a row is the only one, and nobody imports meanwhile.      *)
LEMMA ChangingAlone ==
  ASSUME ProjectsInv, NEW p \in Processes, project[p].pc \in Changing
  PROVE  /\ locks["registry"] = p
         /\ ~imported => \A n \in Names : listed[n] = Projects!None
         /\ \A q \in Processes : project[q].pc # "rows"
         /\ \A q \in Processes \ {p} : /\ Place(project[q]) \notin Changing \cup Changed
                                       /\ project[q].pc \notin Changing \cup Changed \cup {"project"}
<1>1. Changed \subseteq Changing /\ "project" \in Changing /\ Changing \cap {"open", "import", "rows"} = {}
  BY DEF Changed, Changing
<1>2. ASSUME NEW q \in Processes PROVE project[q].pc \in Changing => Place(project[q]) \in Changing
  BY <1>1 DEF Place
<1>3. ASSUME NEW q \in Processes, Place(project[q]) \in Changing PROVE locks["registry"] = q
  BY <1>3 DEF ProjectsInv, Own, Ordered
<1>4. locks["registry"] = p /\ (~imported => \A n \in Names : listed[n] = Projects!None)
  BY <1>2, <1>3 DEF ProjectsInv, Own, Ordered
<1>5. \A q \in Processes : project[q].pc # "rows"
  BY <1>4 DEF ProjectsInv, Own, Imports
<1> QED BY <1>1, <1>2, <1>3, <1>4, <1>5

(* A change of a row under the lock of the registry.                         *)
LEMMA RowStep ==
  ASSUME ProjectsInv, NEW p \in Processes, project[p].pc \in Changing,
         UNCHANGED <<listed, imported, clone, torn, behind>>,
         NEW v \in Values, row' = [row EXCEPT ![project[p].name] = v],
         NEW m \in Orders, project' = [project EXCEPT ![p] = m], m.pc # "idle", m.name = project[p].name,
         UNCHANGED locks \/ Projects!Leave(p, "registry"), Own(p, m)',
         v \in {Projects!None, row[project[p].name]} \/ project[p].kind \in {"add", "set-url", "sync"},
         v # Projects!None => clone[project[p].name].at = "whole",
         \/ v \notin Urls \/ project[p].name \in torn \/ IsRepointing(m)
         \/ clone[project[p].name].origin = v
         \/ v = row[project[p].name] /\ ~IsRepointing(project[p]),
         ~behind /\ imported =>
           IF m.pc \in Changed THEN project[p].pc \notin Changed /\ m.old = row[project[p].name]
           ELSE project[p].pc \in Changed /\ v = project[p].old
  PROVE  ProjectsInv'
<1> PICK n : n = project[p].name
  OBVIOUS
<1>1. /\ n \in Names /\ n \in Locks /\ Own(p, project[p]) /\ "registry" \in Locks
      /\ locks["registry"] = p
      /\ ~imported => \A k \in Names : listed[k] = Projects!None
  BY AtOrder, ChangingAlone DEF Locks, Changing, Changed
<1>2. /\ locks' \in [Locks -> Processes \cup {Projects!Nobody}]
      /\ \A q \in Processes \ {p} : \A l \in Locks : locks[l] = q => locks'[l] = q
  BY <1>1, LocksKept DEF ProjectsInv
<1>3. /\ ProjectsTyped' /\ project'[p] = m /\ \A q \in Processes \ {p} : project'[q] = project[q]
      /\ row'[n] = v /\ \A k \in Names \ {n} : row'[k] = row[k]
  BY <1>1, <1>2 DEF ProjectsInv, ProjectsTyped
<1>4. ASSUME NEW q \in Processes, q # p PROVE Own(q, project[q])'
  <2> PICK o : o = project[q]
    OBVIOUS
  <2>1. /\ project'[q] = o /\ Own(q, o) /\ o.pc # "rows" /\ o.pc # "project" /\ Place(o) \notin Changing
        /\ Place(o) \notin Changed
    BY <1>3, <1>4, ChangingAlone DEF ProjectsInv
  <2>2. \A l \in Locks : locks[l] = q => locks'[l] = q
    BY <1>2, <1>4
  <2>3. o.pc = "idle" => Place(o) = "idle"
    BY DEF Place
  <2>4. Ordered(q, o)'
    <3>1. o.pc # "idle" => o.name \in Locks
      BY <2>1 DEF Own, Ordered, Locks
    <3> QED BY <2>1, <2>2, <2>3, <3>1 DEF Own, Ordered, Locks
  <2>5. Imports(q, o)' /\ Lists(o)'
    BY <2>1 DEF Imports, Lists
  <2>6. o.kind \in {"add", "set-url", "sync"} /\ Place(o) \in Adding \cup Repointed /\ o.name = n
          => row'[n] \in {Projects!None, row[n]}
    <3> SUFFICES ASSUME o.kind \in {"add", "set-url", "sync"}, Place(o) \in Adding \cup Repointed, o.name = n,
                        project[p].kind \in {"add", "set-url", "sync"}
                 PROVE  FALSE
      BY <1>3
    <3>1. {"idle", "lockProject", "target"} \cap (Adding \cup Repointed \cup Changing) = {}
      BY DEF Adding, Changed, Repointed, Changing
    <3>2. Place(project[p]) = project[p].pc
      BY DEF Changing, Changed, Place
    <3>3. locks[n] = p
      BY <1>1, <3>1, <3>2 DEF Own, Ordered
    <3>4. locks[n] = q
      BY <2>1, <2>3, <3>1 DEF Own, Ordered
    <3> QED BY <1>4, <3>3, <3>4
  <2>7. Place(o) \in Adding \cup Repointed => o.name \in Names
    BY <2>1, <2>3 DEF Own, Ordered, Adding, Repointed, Changing, Changed
  <2>8. Adds(o)'
    <3>1. {"lockRegistry", "change"} \subseteq Adding /\ "change" \in Changing
      BY DEF Adding, Changing
    <3> QED BY <1>3, <2>1, <2>6, <2>7, <3>1 DEF Own, Adds, Unlisted
  <2>9. Repoints(o)'
    <3> SUFFICES ASSUME IsRepointing(o) PROVE Repoints(o)'
      BY DEF Repoints, IsRepointing
    <3>1. o.name \in Names /\ (o.name = n => row'[n] \in {Projects!None, row[n]})
      BY <2>6, <2>7 DEF IsRepointing
    <3>2. Unlisted(o.name) \/ ~(o.name = n)
      BY <1>1 DEF Unlisted
    <3>3. \/ row[o.name] = Projects!None /\ Unlisted(o.name)
          \/ row[o.name] \in Urls /\ (o.name \in torn \/ row[o.name] = o.origin)
      BY <2>1 DEF Own, Repoints
    <3>4. \/ row'[o.name] = Projects!None /\ Unlisted(o.name)
          \/ row'[o.name] \in Urls /\ (o.name \in torn \/ row'[o.name] = o.origin)
      BY <1>3, <3>1, <3>2, <3>3
    <3>5. Place(o) # "restoreOrigin" => clone[o.name].origin = o.url
      BY <2>1 DEF Own, Repoints
    <3> QED BY <2>1, <3>4, <3>5 DEF Repoints, Unlisted
  <2> QED BY <2>1, <2>4, <2>5, <2>8, <2>9 DEF Own
<1>5. Own(p, project[p])'
  BY <1>3
<1>6. Projects!RowHasClone' /\ Legacies'
  BY <1>1, <1>3 DEF ProjectsInv, Projects!RowHasClone, Legacies
<1>7. Rendered'
  <2> SUFFICES ASSUME imported, ~behind PROVE Rendered'
    BY DEF Rendered
  <2>1. \A q \in Processes \ {p} : project[q].pc \notin Changed
    BY ChangingAlone
  <2>2. CASE m.pc \in Changed
    <3>1. \A k \in Names : listed[k] = row[k]
      BY <2>1, <2>2 DEF ProjectsInv, Rendered
    <3> QED BY <1>3, <2>1, <2>2, <3>1 DEF Rendered
  <2>3. CASE m.pc \notin Changed
    <3>1. \A k \in Names : listed[k] = IF k = n THEN project[p].old ELSE row[k]
      BY <2>3 DEF ProjectsInv, Rendered
    <3> QED BY <1>3, <2>1, <2>3, <3>1 DEF Rendered
  <2> QED BY <2>2, <2>3
<1>8. Origins'
  <2> SUFFICES ASSUME NEW k \in Names \ torn, row'[k] \in Urls,
                      \A q \in Processes : ~(project'[q].name = k /\ IsRepointing(project'[q]))
               PROVE  clone[k].origin = row'[k]
    BY DEF Origins, IsRepointing
  <2>1. \A q \in Processes \ {p} : ~(project[q].name = k /\ IsRepointing(project[q]))
    BY <1>3
  <2>2. CASE k # n
    <3>1. row'[k] = row[k] /\ \A q \in Processes : ~(project[q].name = k /\ IsRepointing(project[q]))
      BY <1>3, <2>1, <2>2
    <3> QED BY <3>1 DEF ProjectsInv, Origins
  <2>3. CASE k = n
    <3>1. ~IsRepointing(m) /\ row'[k] = v
      BY <1>3, <2>3
    <3>2. CASE clone[n].origin = v
      BY <2>3, <3>1, <3>2
    <3>3. CASE v = row[n] /\ ~IsRepointing(project[p])
      <4>1. \A q \in Processes : ~(project[q].name = k /\ IsRepointing(project[q]))
        BY <2>1, <3>3
      <4> QED BY <2>3, <3>1, <3>3, <4>1 DEF ProjectsInv, Origins
    <3> QED BY <2>3, <3>1, <3>2, <3>3
  <2> QED BY <2>2, <2>3
<1> QED BY <1>3, <1>4, <1>5, <1>6, <1>7, <1>8 DEF ProjectsInv

LEMMA ChangeRowKeeps == ASSUME ProjectsInv, NEW p \in Processes, Projects!ChangeRow(p) PROVE ProjectsInv'
<1> PICK w : w = project[p]
  OBVIOUS
<1> PICK n : n = w.name
  OBVIOUS
<1>1. /\ UNCHANGED <<listed, imported, clone, torn, behind>> /\ w.pc = "change"
      /\ Projects!Refused(p) => /\ UNCHANGED row /\ Projects!Leave(p, "registry")
                                /\ Projects!Goto(p, Projects!Undo(p))
  BY DEF Projects!ChangeRow, Projects!Is, Projects!Histories
<1>2. /\ w \in Orders /\ Own(p, w) /\ n \in Names /\ w.kind \in Projects!Kinds
      /\ Place(w) \in Route(w.kind) /\ Place(w) = "change"
  BY <1>1, AtOrder DEF Place
<1>3. CASE Projects!Refused(p)
  BY <1>1, <1>3, UndoStep
<1>4. CASE ~Projects!Refused(p)
  <2> PICK v : v = CASE w.kind = "remove" -> Projects!None [] w.kind = "upstream" -> row[n] [] OTHER -> w.url
    OBVIOUS
  <2> PICK m : m = [w EXCEPT !.old = row[n], !.pc = "render"]
    OBVIOUS
  <2>1. /\ row' = [row EXCEPT ![n] = v] /\ project' = [project EXCEPT ![p] = m] /\ UNCHANGED locks
        /\ IF w.kind = "add" THEN row[n] = Projects!None ELSE row[n] # Projects!None
    BY <1>2, <1>4 DEF Projects!ChangeRow, Projects!Refused, Projects!Registered, Projects!Kind, Projects!Name,
                      ProjectsInv, ProjectsTyped
  <2>2. row[n] \in Values /\ w.url \in Values
    BY <1>2 DEF ProjectsInv, ProjectsTyped, Orders
  <2>3. v \in Values
    BY <2>2 DEF Values
  <2>4. /\ m \in Orders /\ m.pc = "render" /\ m.kind = w.kind /\ m.name = n /\ m.url = w.url
        /\ m.old = row[n] /\ m.origin = w.origin /\ m.next = w.next
    BY <1>2, <2>2 DEF Orders, ProjectPcs
  <2>5. Place(m) = "render"
    BY <2>4 DEF Place
  <2>6. /\ "change" \in Adding /\ "change" \in Repointed /\ "change" \notin Changed /\ "change" \in Changing
        /\ "render" \notin Adding /\ "render" \in Repointed /\ "render" \in Changed /\ "render" \in Changing
    BY DEF Changing, Changed, Adding, Repointed
  <2>7. "render" \in Route(w.kind) /\ w.kind # "spawn"
    BY <1>2 DEF Route, Adding, Changed, Repointed, Changing, Projects!Kinds
  <2>8. Ordered(p, m)'
    BY <1>1, <1>2, <2>1, <2>4, <2>5, <2>6, <2>7 DEF Own, Ordered
  <2>9. row'[n] = v
    BY <1>2, <2>1 DEF ProjectsInv, ProjectsTyped
  <2>10. /\ w.kind = "add" => /\ v = w.url /\ clone[n].at = "whole" /\ clone[n].origin = OriginOf(w.url)
         /\ IsRepointing(w) => /\ v = w.url /\ row[n] \in Urls /\ (n \in torn \/ row[n] = w.origin)
                               /\ clone[n].origin = w.url
    BY <1>2, <2>1, <2>6 DEF Own, Adds, Repoints, IsRepointing
  <2>11. IsRepointing(w) <=> w.kind \in {"set-url", "sync"}
    BY <1>2, <2>6 DEF IsRepointing
  <2>12. IsRepointing(m) <=> w.kind \in {"set-url", "sync"}
    BY <2>4, <2>5, <2>6 DEF IsRepointing
  <2>13. Adds(m)'
    BY <1>1, <2>1, <2>4, <2>5, <2>6, <2>9, <2>10 DEF Adds
  <2>14. Repoints(m)'
    BY <1>1, <2>1, <2>4, <2>5, <2>6, <2>9, <2>10, <2>11 DEF Repoints, IsRepointing
  <2>15. Own(p, m)'
    BY <2>4, <2>8, <2>13, <2>14 DEF Own, Imports, Lists
  <2>16. v \in {Projects!None, row[n]} \/ w.kind \in {"add", "set-url", "sync"}
    BY <1>2, <2>7 DEF Projects!Kinds
  <2>17. v # Projects!None => clone[n].at = "whole"
    <3>1. w.kind # "add" => clone[n].at = "whole"
      BY <1>2, <2>1 DEF ProjectsInv, Projects!RowHasClone
    <3> QED BY <2>10, <3>1
  <2>18. \/ v \notin Urls \/ IsRepointing(m) \/ clone[n].origin = v
         \/ v = row[n] /\ ~IsRepointing(w)
    <3>1. CASE w.kind = "add"
      BY <2>10, <3>1, ProjectsFacts DEF OriginOf
    <3>2. CASE w.kind \in {"remove", "upstream"}
      BY <2>11, <3>2, ProjectsFacts
    <3> QED BY <1>2, <2>7, <2>12, <3>1, <3>2 DEF Projects!Kinds
  <2>19. project[p].pc \in Changing /\ project[p].pc \notin Changed /\ m.pc \in Changed /\ m.pc # "idle"
    BY <1>1, <2>4, <2>6
  <2> QED BY <1>1, <2>1, <2>3, <2>4, <2>15, <2>16, <2>17, <2>18, <2>19, RowStep
<1> QED BY <1>3, <1>4

(* What is rolled back is what was there.                                    *)
LEMMA RollBackKeeps == ASSUME ProjectsInv, NEW p \in Processes, Projects!RollBack(p) PROVE ProjectsInv'
<1> PICK w : w = project[p]
  OBVIOUS
<1> PICK n : n = w.name
  OBVIOUS
<1> PICK pc : pc = Projects!Undo(p)
  OBVIOUS
<1>1. /\ UNCHANGED <<listed, imported, clone, torn, behind>> /\ w.pc = "rollBack"
      /\ Projects!Goto(p, pc) /\ Projects!Leave(p, "registry")
      /\ row' = [row EXCEPT ![n] = IF @ = Projects!None THEN Projects!None ELSE w.old]
  BY DEF Projects!RollBack, Projects!Is, Projects!Histories, Projects!Name
<1>2. /\ w \in Orders /\ Own(p, w) /\ n \in Names /\ n \in Locks /\ w.kind \in Projects!Kinds
      /\ Place(w) \in Route(w.kind) /\ Place(w) = "rollBack" /\ "registry" \in Locks /\ n # "registry"
  BY <1>1, AtOrder, ProjectsFacts DEF Place, Locks
<1>3. /\ "rollBack" \in Repointed /\ "rollBack" \in Changed /\ "rollBack" \in Changing /\ "rollBack" \notin Adding
      /\ "cleanUp" \in Adding /\ "cleanUp" \notin Changed /\ "cleanUp" \notin Repointed
      /\ "restoreOrigin" \in Repointed /\ "restoreOrigin" \notin Changed
  BY DEF Changing, Changed, Adding, Repointed
<1>4. w.kind \in {"add", "set-url", "sync"}
  BY <1>2 DEF Route, Adding, Changed, Repointed, Changing, Projects!Kinds
<1>5. /\ pc \in ProjectPcs /\ pc \in Route(w.kind)
      /\ IF w.kind = "add" THEN pc = "cleanUp" ELSE pc = "restoreOrigin"
      /\ pc \notin Changing \cup Changed \cup {"open", "import", "rows", "idle", "project"}
  BY <1>2, <1>4, UndoPlace DEF Projects!Kind, Projects!Kinds
<1>6. PICK m : project' = [project EXCEPT ![p] = m] /\ Moved(m, w, pc, w.next)
  BY <1>1, <1>2, <1>5, OrderGoto DEF Orders
<1>7. Place(m) = pc /\ m.pc = pc
  BY <1>5, <1>6 DEF Moved, Place
<1>8. /\ row[n] = w.url /\ w.url # Projects!None
      /\ IF w.kind = "add" THEN w.old = Projects!None
         ELSE w.old \in Urls /\ (n \in torn \/ w.old = w.origin)
  BY <1>2, <1>3, <1>4, ProjectsFacts DEF Own, Ordered, Adds, Repoints, IsRepointing
<1>9. row' = [row EXCEPT ![n] = w.old] /\ row'[n] = w.old /\ w.old \in Values
  BY <1>1, <1>2, <1>8 DEF Orders, ProjectsInv, ProjectsTyped
<1>10. \A l \in Locks \ {"registry"} : locks'[l] = locks[l]
  BY <1>1 DEF Projects!Leave, ProjectsInv, ProjectsTyped
<1>11. locks[n] = p /\ (~imported => listed[n] = Projects!None)
  BY <1>1, <1>2, <1>3, <1>4 DEF Own, Ordered
<1>12. Ordered(p, m)'
  BY <1>2, <1>5, <1>6, <1>7, <1>10, <1>11 DEF Moved, Own, Ordered
<1>13. Adds(m)'
  BY <1>1, <1>3, <1>5, <1>6, <1>7, <1>8, <1>9, <1>11 DEF Moved, Adds, Unlisted
<1>14. Repoints(m)'
  BY <1>1, <1>3, <1>5, <1>6, <1>7, <1>8, <1>9 DEF Moved, Repoints, IsRepointing
<1>15. Own(p, m)'
  BY <1>5, <1>7, <1>12, <1>13, <1>14 DEF Own, Imports, Lists
<1>16. w.old # Projects!None => clone[n].at = "whole"
  BY <1>2, <1>8 DEF ProjectsInv, Projects!RowHasClone
<1>17. w.old \notin Urls \/ IsRepointing(m)
  BY <1>3, <1>4, <1>5, <1>6, <1>7, <1>8, ProjectsFacts DEF Moved, IsRepointing
<1>18. /\ project[p].pc \in Changing /\ project[p].pc \in Changed /\ m.pc \notin Changed /\ m.pc # "idle"
       /\ m \in Orders /\ m.name = n
  BY <1>1, <1>3, <1>5, <1>6, <1>7 DEF Moved
<1> QED BY <1>1, <1>4, <1>6, <1>9, <1>15, <1>16, <1>17, <1>18, RowStep

(* What is written is what the rows are: nobody changed one meanwhile.       *)
LEMMA WriteProjectionKeeps ==
  ASSUME ProjectsInv, NEW p \in Processes, Projects!WriteProjection(p)
  PROVE  ProjectsInv'
<1> PICK w : w = project[p]
  OBVIOUS
<1>1. /\ UNCHANGED <<row, imported, clone, torn>> /\ behind' = FALSE /\ w.pc = "project"
      /\ listed' = [n \in Names |-> (CHOOSE r \in w.rows : r[1] = n)[2]]
      /\ project' = [project EXCEPT ![p] = Projects!Idle] /\ Projects!LeaveAll(p)
  BY DEF Projects!WriteProjection, Projects!Is, Projects!Finish
<1>2. /\ w \in Orders /\ Own(p, w) /\ w.name \in Names /\ w.kind \in Projects!Kinds
      /\ Place(w) = "project" /\ "project" \in Changed /\ "project" \in Changing
  BY <1>1, AtOrder DEF Place, Changed, Changing
<1>3. listed' = row
  <2>1. w.rows = {<<n, row[n]>> : n \in Names}
    BY <1>1, <1>2 DEF Own, Lists
  <2>2. \A n \in Names : \A r \in w.rows : r[1] = n => r = <<n, row[n]>>
    BY <2>1
  <2>3. ASSUME NEW n \in Names PROVE listed'[n] = row[n]
    <3> PICK c : c = CHOOSE r \in w.rows : r[1] = n
      OBVIOUS
    <3>1. listed'[n] = c[2]
      BY <1>1
    <3>2. <<n, row[n]>> \in w.rows /\ <<n, row[n]>>[1] = n
      BY <2>1
    <3>3. c \in w.rows /\ c[1] = n
      BY <3>2
    <3>4. c = <<n, row[n]>>
      BY <2>2, <3>3
    <3>5. <<n, row[n]>>[2] = row[n]
      OBVIOUS
    <3> QED BY <3>1, <3>4, <3>5, Zenon
  <2>4. listed' = [n \in Names |-> listed'[n]]
    BY <1>1
  <2>5. row = [n \in Names |-> row[n]]
    BY DEF ProjectsInv, ProjectsTyped
  <2> QED BY <2>3, <2>4, <2>5
<1>4. /\ locks' \in [Locks -> Processes \cup {Projects!Nobody}]
      /\ \A q \in Processes \ {p} : \A l \in Locks : locks[l] = q => locks'[l] = q
  BY <1>1, LocksKept DEF ProjectsInv
<1>5. /\ ProjectsTyped' /\ project'[p] = Projects!Idle
      /\ \A q \in Processes \ {p} : project'[q] = project[q]
  BY <1>1, <1>3, <1>4, IdleOrder DEF ProjectsInv, ProjectsTyped
<1>6. ASSUME NEW q \in Processes, q # p PROVE Own(q, project[q])'
  <2> PICK o : o = project[q]
    OBVIOUS
  <2>1. /\ project'[q] = o /\ Own(q, o) /\ o.pc # "rows" /\ o.pc # "project" /\ Place(o) \notin Changing
        /\ Place(o) \notin Changed /\ o.pc \notin Changing
    BY <1>1, <1>2, <1>5, <1>6, ChangingAlone DEF ProjectsInv
  <2>2. \A l \in Locks : locks[l] = q => locks'[l] = q
    BY <1>4, <1>6
  <2>3. o.pc = "idle" => Place(o) = "idle"
    BY DEF Place
  <2>4. Ordered(q, o)'
    <3>1. o.pc # "idle" => o.name \in Locks
      BY <2>1 DEF Own, Ordered, Locks
    <3> QED BY <2>1, <2>2, <2>3, <3>1 DEF Own, Ordered
  <2>5. Imports(q, o)' /\ Lists(o)'
    BY <2>1 DEF Imports, Lists
  <2>6. Adds(o)'
    BY <1>1, <1>3, <2>1 DEF Own, Adds, Unlisted
  <2>7. Repoints(o)'
    BY <1>1, <1>3, <2>1 DEF Own, Repoints, IsRepointing, Unlisted
  <2> QED BY <2>1, <2>4, <2>5, <2>6, <2>7 DEF Own
<1>7. Own(p, project[p])'
  BY <1>5, IdleOrderLater
<1>8. Projects!RowHasClone' /\ Legacies'
  BY <1>1, <1>3 DEF ProjectsInv, Projects!RowHasClone, Legacies
<1>9. Rendered'
  <2>1. \A q \in Processes : project'[q].pc \notin Changed
    <3>1. Projects!Idle.pc \notin Changed
      BY IdleOrder DEF Changed
    <3> QED BY <1>1, <1>2, <1>5, <3>1, ChangingAlone
  <2> QED BY <1>1, <1>3, <2>1 DEF Rendered
<1>10. Origins'
  <2> SUFFICES ASSUME NEW n \in Names \ torn, row[n] \in Urls,
                      \A q \in Processes : ~(project'[q].name = n /\ IsRepointing(project'[q]))
               PROVE  clone[n].origin = row[n]
    BY <1>1 DEF Origins, IsRepointing
  <2>1. CASE w.name = n /\ IsRepointing(w)
    BY <1>2, <2>1 DEF Own, Repoints
  <2>2. CASE ~(w.name = n /\ IsRepointing(w))
    <3>1. \A q \in Processes : ~(project[q].name = n /\ IsRepointing(project[q]))
      BY <1>5, <2>2
    <3> QED BY <3>1 DEF ProjectsInv, Origins
  <2> QED BY <2>1, <2>2
<1> QED BY <1>5, <1>6, <1>7, <1>8, <1>9, <1>10 DEF ProjectsInv

LEMMA ProjectsStepKeeps == ASSUME ProjectsInv, [Projects!ProjectsNext]_projectVars PROVE ProjectsInv'
<1>1. CASE UNCHANGED projectVars
  <2>1. UNCHANGED <<row, listed, imported, clone, locks, project, behind, torn>>
    BY <1>1 DEF projectVars
  <2>2. ProjectsTyped' /\ Projects!RowHasClone' /\ Legacies' /\ Rendered' /\ Origins'
    BY <2>1 DEF ProjectsInv, ProjectsTyped, Projects!RowHasClone, Legacies, Rendered, Origins, IsRepointing
  <2>3. ASSUME NEW q \in Processes PROVE Own(q, project[q])'
    BY <2>1 DEF ProjectsInv, Own, Ordered, Imports, Adds, Repoints, IsRepointing, Lists, Unlisted
  <2> QED BY <2>2, <2>3 DEF ProjectsInv
<1>2. CASE Projects!ProjectsNext
  <2>1. CASE \E n \in Names : Projects!Teardown(n) \/ Projects!OperatorDeletes(n)
    BY <2>1, OperatorKeeps
  <2>2. CASE \E p \in Processes, kind \in Projects!Kinds, n \in Names, u \in Urls \cup {Projects!Local} :
               Projects!Begin(p, kind, n, u)
    BY <2>2, BeginKeeps
  <2>3. CASE \E p \in Processes : Projects!ProjectStep(p)
    <3>1. PICK p \in Processes : Projects!ProjectStep(p)
      BY <2>3
    <3>2. CASE Projects!OpenRegistry(p) \/ Projects!LockImport(p)
      BY <3>2, OpenRegistryKeeps
    <3>3. CASE Projects!Target(p) \/ Projects!Active(p) \/ Projects!CreateTask(p)
      BY <3>3, LooksKeep
    <3>4. CASE Projects!End(p) \/ Projects!Spawn(p)
      BY <3>4, EndKeeps
    <3>5. CASE Projects!RestoreOriginFails(p)
      BY <3>5, CrashKeeps
    <3> QED BY <3>1, <3>2, <3>3, <3>4, <3>5, ImportRowKeeps, MarkImportedKeeps, LockProjectKeeps, ReserveKeeps,
               CloneKeeps, CloneFailsKeeps, CleanUpKeeps, RepointKeeps, RestoreOriginKeeps, LockRegistryKeeps,
               ChangeRowKeeps, ChangeFailsKeeps, RenderKeeps, WriteProjectionKeeps, ProjectionFailsKeeps,
               RollBackKeeps, RollBackFailsKeeps DEF Projects!ProjectStep
  <2>4. CASE \E p \in Processes : Projects!Crash(p)
    BY <2>4, CrashKeeps
  <2> QED BY <1>2, <2>1, <2>2, <2>3, <2>4 DEF Projects!ProjectsNext
<1> QED BY <1>1, <1>2

(* What a project that is to stay removed needs of a step.                   *)
Removal(n) ==
    row[n] = Projects!None /\ row'[n] # Projects!None =>
        \/ ~imported
        \/ \E p \in Processes : project[p].pc = "change" /\ project[p].kind = "add" /\ project[p].name = n

LEMMA RowsComeBack ==
  ASSUME ProjectsInv, Projects!ProjectsNext, NEW n \in Names, row[n] = Projects!None, row'[n] # Projects!None
  PROVE  Removal(n)
<1>1. PICK p \in Processes : Projects!ImportRow(p) \/ Projects!ChangeRow(p) \/ Projects!RollBack(p)
  BY DEF Projects!ProjectsNext, Projects!ProjectStep, Projects!Begin, Projects!Teardown, Projects!OperatorDeletes,
         Projects!Crash, Projects!OpenRegistry, Projects!LockImport, Projects!MarkImported, Projects!LockProject,
         Projects!Reserve, Projects!Clone, Projects!CloneFails, Projects!CleanUp, Projects!Target, Projects!Repoint,
         Projects!RestoreOrigin, Projects!RestoreOriginFails, Projects!Active, Projects!LockRegistry,
         Projects!ChangeFails, Projects!Render, Projects!WriteProjection, Projects!ProjectionFails,
         Projects!RollBackFails, Projects!End, Projects!CreateTask, Projects!Spawn, Projects!Records
<1>2. CASE Projects!ImportRow(p)
  BY <1>2 DEF Projects!ImportRow, Projects!Is, ProjectsInv, Own, Imports, Removal
<1>3. CASE Projects!ChangeRow(p)
  <2>1. /\ project[p].pc = "change" /\ ~Projects!Refused(p)
        /\ row' = [row EXCEPT ![project[p].name] = row'[project[p].name]]
    BY <1>3 DEF Projects!ChangeRow, Projects!Is, Projects!Name, ProjectsInv, ProjectsTyped
  <2>2. project[p].name = n
    BY <2>1 DEF ProjectsInv, ProjectsTyped
  <2>3. project[p].kind = "add"
    BY <2>1, <2>2 DEF Projects!Refused, Projects!Registered, Projects!Name, Projects!Kind
  <2> QED BY <2>1, <2>2, <2>3 DEF Removal
<1>4. CASE Projects!RollBack(p)
  <2>1. \A k \in Names : row[k] = Projects!None => row'[k] = Projects!None
    BY <1>4 DEF Projects!RollBack, ProjectsInv, ProjectsTyped
  <2> QED BY <2>1
<1> QED BY <1>1, <1>2, <1>3, <1>4

(* A step of a home is one of its projects, or leaves them alone.            *)
LEMMA ProjectsApart ==
  ASSUME [HomeNext]_homeVars
  PROVE  /\ part' = part
         /\ part = "projects" => [Projects!ProjectsNext]_projectVars
         /\ part # "projects" => UNCHANGED projectVars
<1>1. CASE UNCHANGED homeVars
  BY <1>1 DEF homeVars, projectVars
<1>2. CASE HomeNext
  <2>1. \E p \in Parts : Of(p)
    BY <1>2 DEF HomeNext, Parts
  <2>2. part' = part
    BY <2>1 DEF Of
  <2>3. IF part = "projects" THEN Projects!ProjectsNext ELSE UNCHANGED projectVars
    BY <1>2, <2>1 DEF HomeNext, Of
  <2> QED BY <2>2, <2>3
<1> QED BY <1>1, <1>2

LEMMA ProjectsInvAlways == HomeSpec => [](part = "projects" => ProjectsInv)
<1> DEFINE Inv == part = "projects" => ProjectsInv
<1>1. HomeInit => Inv
  BY ProjectsInitHolds
<1>2. Inv /\ [HomeNext]_homeVars => Inv'
  BY ProjectsApart, ProjectsStepKeeps
<1> QED BY <1>1, <1>2, PTL DEF HomeSpec

(* ProjectsStand (HandProjects): every row has a whole clone, projects.md    *)
(* lists the rows when nobody writes, unless a writer was cut off, and a     *)
(* project's URL is the origin of its clone unless its repointing was cut    *)
(* off, however many commands run at once, fail and die.                     *)
THEOREM ProjectsStandAlways == HomeSpec => []ProjectsStand
<1>1. (part = "projects" => ProjectsInv) => ProjectsStand
  <2> SUFFICES ASSUME ProjectsInv PROVE Projects!ProjectsStand
    BY DEF ProjectsStand
  <2>1. Projects!ListedIsRegistered
    BY DEF ProjectsInv, Rendered, Changed, Projects!ListedIsRegistered, Projects!Writing
  <2>2. Projects!UrlIsOrigin
    <3> SUFFICES ASSUME NEW n \in Names \ torn, row[n] \notin {Projects!None, Projects!Local},
                        \A p \in Processes : project[p].name = n => project[p].kind \notin {"set-url", "sync"}
                 PROVE  clone[n].origin = row[n]
      BY DEF Projects!UrlIsOrigin, Projects!Name, Projects!Kind
    <3>1. row[n] \in Urls
      BY DEF ProjectsInv, ProjectsTyped, Values
    <3> QED BY <3>1 DEF ProjectsInv, Origins, IsRepointing
  <2> QED BY <2>1, <2>2 DEF ProjectsInv, Projects!ProjectsStand
<1> QED BY <1>1, ProjectsInvAlways, PTL

(* RemovedStaysRemoved (HandProjects): no step gives a project that has no   *)
(* row one again but the one that adds it, or the import of projects.md.     *)
THEOREM RemovedStaysRemovedAlways == HomeSpec => RemovedStaysRemoved
<1>1. (part = "projects" => ProjectsInv) /\ [HomeNext]_homeVars => [\A n \in Names : Removal(n)]_projectVars
  <2> SUFFICES ASSUME part = "projects" => ProjectsInv, [HomeNext]_homeVars, ~UNCHANGED projectVars,
                      NEW n \in Names
               PROVE  Removal(n)
    OBVIOUS
  <2>1. ProjectsInv /\ Projects!ProjectsNext
    BY ProjectsApart
  <2> QED BY <2>1, RowsComeBack DEF Removal
<1> QED BY <1>1, ProjectsInvAlways, PTL
        DEF HomeSpec, RemovedStaysRemoved, Projects!RemovedStaysRemoved, Removal, Projects!Is, Projects!Kind,
            Projects!Name, projectVars, Projects!projectVars

-----------------------------------------------------------------------------
(* HandEdge.  Under one kind of fault: what is missing is in the backups of  *)
(* one group, if jobs are killed; there are no backups between two jobs, if  *)
(* calls fail.                                                               *)

(* One kind of fault in a behaviour: after a failed call of one job, a kill  *)
(* of the next leaves a mixed set.                                           *)
OneKind == \A kinds \in FaultSets : kinds \subseteq {"kill"} \/ kinds \subseteq {"callFails"}

JobPcs ==
    {"none", "inspect", "dropPartial", "restore", "stale", "ownStaging", "upload", "backUp", "promote",
     "dropBackups", "tag", "undoPromote", "undoBackup", "undoUpload"}

Jobs ==
    [pc : JobPcs, commit : Nat, recovery : Nat, backedUp : SUBSET Assets, promoted : SUBSET Assets,
     left : SUBSET Assets]

ReleaseTyped ==
    /\ final \in [Assets -> Nat] /\ tag \in Nat \ {0}
    /\ previous \subseteq [group : Nat, asset : Assets, commit : Nat]
    /\ job \in Jobs
    /\ releaseFaults \in [kinds : SUBSET Release!FaultNames, count : Nat]
    /\ releaseFaults.kinds \subseteq {"kill"} \/ releaseFaults.kinds \subseteq {"callFails"}

Kept(a)  == \E b \in previous : b.asset = a
Full     == \A a \in Assets : final[a] # 0
AllAre(c) == \A a \in Assets : final[a] = c

(* What stands is of one commit, and not older than the tag,                 *)
Uniform  == \A a, b \in Assets : final[a] # 0 /\ final[b] # 0 => final[a] = final[b]
Recent   == \A a \in Assets : final[a] # 0 => final[a] >= tag

(* and so are the backups, which are of the group g.                         *)
Single   == \A b, c \in previous : b.group = c.group /\ b.commit = c.commit /\ b.commit >= tag
OfGroup(g) == \A b \in previous : b.group = g

(* What stands is what the backups are.                                      *)
Gap      == /\ \A a \in Assets : Kept(a) <=> final[a] = 0
            /\ \A b \in previous, a \in Assets : final[a] # 0 => final[a] = b.commit

(* With kills.                                                               *)
Killable(j) ==
    /\ Uniform
    /\ Full \/ (Single /\ ((\A a \in Assets : Kept(a)) \/ Gap))
    /\ j.pc \notin {"undoPromote", "undoBackup", "undoUpload"}
    /\ j.pc = "dropPartial" =>
         Single /\ OfGroup(j.recovery) /\ \A a \in Assets : Kept(a) /\ (a \in j.left \/ final[a] = 0)
    /\ j.pc = "restore" =>
         Single /\ OfGroup(j.recovery) /\ Gap /\ \A a \in Assets : a \in j.left <=> final[a] = 0
    /\ j.pc = "stale" => Full
    /\ j.pc \in {"ownStaging", "upload"} => Full /\ previous = {}
    /\ j.pc = "backUp" =>
         Single /\ OfGroup(j.commit) /\ Gap /\ \A a \in Assets : a \notin j.left <=> final[a] = 0
    /\ j.pc = "promote" =>
         /\ Single /\ \A a \in Assets : Kept(a)
         /\ \A a \in Assets : final[a] = IF a \in j.left THEN 0 ELSE j.commit
    /\ j.pc \in {"dropBackups", "tag"} => AllAre(j.commit)

(* With calls that fail: what a job has yet to undo.                         *)
Undoable(j) ==
    /\ OfGroup(j.commit)
    /\ \A b, c \in previous : b.commit = c.commit /\ b.commit >= tag
    /\ \A b \in previous : b.asset \in j.backedUp
    /\ \A a, b \in Assets \ j.promoted : final[a] # 0 /\ final[b] # 0 => final[a] = final[b]
    /\ \A b \in previous, a \in Assets \ j.promoted : final[a] # 0 => final[a] = b.commit
    /\ \A a \in j.backedUp \ j.promoted : final[a] = 0
    /\ \A a \in j.promoted : final[a] \in {0, j.commit}

Failing(j) ==
    /\ j.pc \notin {"dropPartial", "restore"}
    /\ j.pc \in {"none", "inspect", "stale", "ownStaging", "upload", "undoUpload", "tag"} => previous = {} /\ Uniform
    /\ j.pc \in {"inspect", "stale", "ownStaging", "upload"} => j.backedUp = {} /\ j.promoted = {}
    /\ j.pc \in {"backUp", "promote", "dropBackups", "undoPromote"} => Undoable(j)
    /\ j.pc = "backUp" => /\ j.promoted = {} /\ j.backedUp \cap j.left = {}
                          /\ \A a \in Assets \ j.left : final[a] = 0
    /\ j.pc = "promote" => /\ j.promoted = Assets \ j.left
                           /\ \A a \in Assets : final[a] = IF a \in j.left THEN 0 ELSE j.commit
    /\ j.pc = "dropBackups" => j.promoted = Assets /\ \A b \in previous : b.asset \in j.left
    /\ j.pc \in {"dropBackups", "tag"} => AllAre(j.commit)
    /\ j.pc = "undoPromote" => \A a \in j.promoted \ j.left : final[a] = 0
    /\ j.pc = "undoBackup" =>
         /\ Uniform /\ OfGroup(j.commit)
         /\ \A b, c \in previous : b.commit = c.commit /\ b.commit >= tag
         /\ \A b \in previous : b.asset \in j.left \cap j.backedUp
         /\ \A b \in previous, a \in Assets : final[a] # 0 => final[a] = b.commit
         /\ \A a \in j.left \cap j.backedUp : final[a] = 0

ReleaseInv ==
    /\ ReleaseTyped /\ Recent
    /\ job.pc # "none" => job.commit > tag
    /\ releaseFaults.kinds \subseteq {"kill"} => Killable(job)
    /\ releaseFaults.kinds \subseteq {"callFails"} => Failing(job)

(* A command's target is not newer than the tag, and what it downloaded is   *)
(* not older than its target.                                                *)
Updating(p) ==
    /\ client[p].target <= tag
    /\ client[p].pc \in {"checksums", "replace"} => client[p].archive >= client[p].target

ClientOrders ==
    [pc : {"none", "check", "note", "resolve", "reconcile", "assets", "archive", "checksums", "replace"},
     build : Nat, target : Nat, archive : Nat]

UpdateInv ==
    /\ client \in [Clients -> ClientOrders] /\ installed \in Nat
    /\ \A p \in Clients : Updating(p)

LEMMA SameSizeOfRelease ==
  ASSUME NEW S
  PROVE  /\ Release!IsFiniteSet(S) <=> IsFiniteSet(S)
         /\ Release!Cardinality(S) = Cardinality(S)
<1>1. Release!IsFiniteSet(S) <=> IsFiniteSet(S)
  BY DEF Release!IsFiniteSet, IsFiniteSet
<1>2. Release!Cardinality(S) = Cardinality(S)
  BY DEF Release!Cardinality, Cardinality
<1> QED BY <1>1, <1>2

(* A group that has as many backups as there are assets has one of each.     *)
LEMMA WholeIsFull ==
  ASSUME ReleaseTyped, Single, NEW g, OfGroup(g), Release!Cardinality(Release!Group(g)) = Release!Cardinality(Assets)
  PROVE  \A a \in Assets : Kept(a)
<1>1. IsFiniteSet(Assets)
  BY HomeAssumption, SameSizeOfRelease DEF Release!UpdateAssumption, Release!EdgeAssumption
<1> PICK kept : kept = {a \in Assets : Kept(a)}
  OBVIOUS
<1> PICK f : f = [b \in Release!Group(g) |-> b.asset]
  OBVIOUS
<1>2. Release!Group(g) = previous
  BY DEF Release!Group, OfGroup
<1>3. f \in Bijection(previous, kept)
  <2>1. \A b \in previous : f[b] = b.asset /\ b.asset \in kept
    BY <1>2 DEF ReleaseTyped, Kept
  <2>2. f \in [previous -> kept]
    BY <1>2, <2>1
  <2>3. \A b, c \in previous : f[b] = f[c] => b = c
    BY <2>1 DEF Single, ReleaseTyped
  <2>4. \A a \in kept : \E b \in previous : f[b] = a
    BY <2>1 DEF Kept
  <2> QED BY <2>2, <2>3, <2>4 DEF Bijection, Injection, Surjection, IsInjective
<1>4. kept \subseteq Assets /\ IsFiniteSet(kept)
  BY <1>1, FS_Subset
<1>5. ExistsBijection(kept, previous)
  BY <1>3, Fun_ExistsBijSymmetric DEF ExistsBijection
<1>6. Cardinality(previous) = Cardinality(kept)
  BY <1>4, <1>5, FS_Bijection
<1>7. kept = Assets
  BY <1>1, <1>2, <1>4, <1>6, SameSizeOfRelease, FS_Subset
<1> QED BY <1>7

(* What stays of a job that goes on.                                         *)
Same(m, j) == m.commit = j.commit /\ m.recovery = j.recovery /\ m.backedUp = j.backedUp /\ m.promoted = j.promoted

LEMMA JobGoes ==
  ASSUME ReleaseTyped, NEW pc \in JobPcs, Release!Goto(pc)
  PROVE  job' \in Jobs /\ job'.pc = pc /\ job'.left = Assets /\ Same(job', job)
BY DEF ReleaseTyped, Jobs, Release!Goto, Same

LEMMA JobDoes ==
  ASSUME ReleaseTyped, NEW a, NEW next \in JobPcs, Release!Done(a, next)
  PROVE  /\ job' \in Jobs /\ Same(job', job) /\ job'.left = job.left \ {a}
         /\ job'.pc = IF job.left = {a} THEN next ELSE job.pc
BY DEF ReleaseTyped, Jobs, Release!Done, Same

LEMMA JobEnds == Release!NoJob \in Jobs /\ Release!NoJob.pc = "none"
BY DEF Release!NoJob, Jobs, JobPcs

LEMMA StaysFaults ==
  ASSUME ReleaseTyped, NEW f, Release!Calm \/ Release!Fault(f)
  PROVE  releaseFaults' \in [kinds : SUBSET Release!FaultNames, count : Nat] /\ releaseFaults'.kinds = releaseFaults.kinds
BY DEF ReleaseTyped, Release!Calm, Release!Fault

(* What a step has to keep.                                                  *)
LEMMA ReleaseStep ==
  ASSUME ReleaseInv, NEW f, Release!Calm \/ Release!Fault(f),
         final' \in [Assets -> Nat], tag' \in Nat \ {0},
         previous' \subseteq [group : Nat, asset : Assets, commit : Nat], job' \in Jobs,
         Recent', job'.pc # "none" => job'.commit > tag',
         releaseFaults.kinds \subseteq {"kill"} => Killable(job)',
         releaseFaults.kinds \subseteq {"callFails"} => Failing(job)'
  PROVE  ReleaseInv'
<1>1. /\ releaseFaults' \in [kinds : SUBSET Release!FaultNames, count : Nat]
      /\ releaseFaults'.kinds = releaseFaults.kinds
  BY StaysFaults DEF ReleaseInv
<1>2. ReleaseTyped'
  BY <1>1 DEF ReleaseInv, ReleaseTyped
<1> QED BY <1>1, <1>2 DEF ReleaseInv

LEMMA StartKeeps ==
  ASSUME ReleaseInv, NEW c \in Release!Commits, Release!Start(c)
  PROVE  ReleaseInv'
<1> PICK m : m = [Release!NoJob EXCEPT !.pc = "inspect", !.commit = c]
  OBVIOUS
<1>1. /\ job' = m /\ job.pc = "none" /\ c > tag /\ UNCHANGED <<final, previous, tag>> /\ Release!Calm
  BY DEF Release!Start, Release!At
<1>2. /\ m \in Jobs /\ m.pc = "inspect" /\ m.commit = c /\ m.backedUp = {} /\ m.promoted = {}
  <2>1. c \in Nat
    BY HomeAssumption DEF Release!Commits
  <2> QED BY <2>1 DEF Release!NoJob, Jobs, JobPcs
<1>3. releaseFaults.kinds \subseteq {"kill"} => Killable(job)'
  BY <1>1, <1>2 DEF ReleaseInv, Killable, Uniform, Full, Single, Kept, Gap
<1>4. releaseFaults.kinds \subseteq {"callFails"} => Failing(job)'
  BY <1>1, <1>2 DEF ReleaseInv, Failing, Uniform
<1>5. Recent' /\ job'.commit > tag'
  BY <1>1, <1>2 DEF ReleaseInv, Recent
<1> QED BY <1>1, <1>2, <1>3, <1>4, <1>5, ReleaseStep DEF ReleaseInv, ReleaseTyped

LEMMA InspectKeeps ==
  ASSUME ReleaseInv, Release!Inspect
  PROVE  ReleaseInv'
<1>1. /\ job.pc = "inspect" /\ UNCHANGED <<final, previous, tag>> /\ Release!Calm /\ job \in Jobs
      /\ job.commit > tag
  BY DEF Release!Inspect, Release!At, ReleaseInv, ReleaseTyped
<1>2. Recent' /\ final' \in [Assets -> Nat] /\ tag' \in Nat \ {0}
      /\ previous' \subseteq [group : Nat, asset : Assets, commit : Nat]
  BY <1>1 DEF ReleaseInv, ReleaseTyped, Recent
<1>3. Uniform' <=> Uniform
  BY <1>1 DEF Uniform
<1>4. Full' = Full /\ Single' = Single /\ Gap' = Gap /\ (\A a \in Assets : Kept(a)' <=> Kept(a))
  BY <1>1 DEF Full, Single, Gap, Kept
<1>5. CASE Release!Missing = {} /\ Release!Goto("stale")
  <2>1. job' \in Jobs /\ job'.pc = "stale" /\ Same(job', job)
    BY <1>5, JobGoes DEF ReleaseInv, JobPcs
  <2>2. Full
    BY <1>5 DEF Release!Missing, Full
  <2>3. releaseFaults.kinds \subseteq {"kill"} => Killable(job)'
    BY <1>3, <1>4, <2>1, <2>2 DEF ReleaseInv, Killable
  <2>4. releaseFaults.kinds \subseteq {"callFails"} => Failing(job)'
    BY <1>1, <1>3, <2>1 DEF ReleaseInv, Failing, Same
  <2> QED BY <1>1, <1>2, <2>1, <2>3, <2>4, ReleaseStep DEF Same
<1>6. CASE Release!Missing # {} /\ Release!Groups = {} /\ Release!Goto("ownStaging")
  <2>1. job' \in Jobs /\ job'.pc = "ownStaging" /\ Same(job', job)
    BY <1>6, JobGoes DEF ReleaseInv, JobPcs
  <2>2. previous = {} /\ ~Full
    BY <1>6 DEF Release!Missing, Release!Groups, Full
  <2>3. ~(releaseFaults.kinds \subseteq {"kill"})
    BY <2>2 DEF ReleaseInv, Killable, Full, Kept, Gap
  <2>4. releaseFaults.kinds \subseteq {"callFails"} => Failing(job)'
    BY <1>1, <1>3, <2>1 DEF ReleaseInv, Failing, Same
  <2> QED BY <1>1, <1>2, <2>1, <2>3, <2>4, ReleaseStep DEF Same
<1>7. CASE job' = Release!NoJob
  <2>1. releaseFaults.kinds \subseteq {"kill"} => Killable(job)'
    BY <1>1, <1>3, <1>4, <1>7, JobEnds DEF ReleaseInv, Killable
  <2>2. releaseFaults.kinds \subseteq {"callFails"} => Failing(job)'
    BY <1>1, <1>3, <1>7, JobEnds DEF ReleaseInv, Failing
  <2> QED BY <1>1, <1>2, <1>7, <2>1, <2>2, JobEnds, ReleaseStep
<1>8. ASSUME NEW g \in Release!Recovery, Release!Missing # {},
             job' = [job EXCEPT !.recovery = g, !.left = Release!Restoring(g),
                       !.pc = IF Release!Restoring(g) = Assets THEN "dropPartial" ELSE "restore"]
      PROVE  ReleaseInv'
  <2>1. g \in Release!WholeGroups \cup Release!GapGroups
    BY <1>8 DEF Release!Recovery
  <2>2. g \in Release!Groups
    BY <2>1 DEF Release!WholeGroups, Release!GapGroups
  <2>3. g \in Nat /\ Release!Restoring(g) \subseteq Assets
    BY <2>2 DEF Release!Groups, ReleaseInv, ReleaseTyped, Release!Restoring, Release!Missing
  <2>4. /\ job' \in Jobs /\ job'.commit = job.commit /\ job'.recovery = g /\ job'.left = Release!Restoring(g)
        /\ job'.pc = IF Release!Restoring(g) = Assets THEN "dropPartial" ELSE "restore"
    BY <1>1, <1>8, <2>3 DEF Jobs, JobPcs
  <2>5. previous # {} /\ ~Full
    BY <1>8, <2>2 DEF Release!Groups, Release!Missing, Full
  <2>6. ~(releaseFaults.kinds \subseteq {"callFails"})
    BY <1>1, <2>5 DEF ReleaseInv, Failing
  <2>7. releaseFaults.kinds \subseteq {"kill"} /\ Killable(job)
    BY <2>6 DEF ReleaseInv, ReleaseTyped
  <2>8. Single /\ OfGroup(g)
    BY <2>2, <2>5, <2>7 DEF Killable, Single, OfGroup, Release!Groups
  <2>9. Release!Group(g) = previous
    BY <2>8 DEF OfGroup, Release!Group
  <2>10. g \in Release!WholeGroups => \A a \in Assets : Kept(a)
    BY <2>8, WholeIsFull DEF ReleaseInv, Release!WholeGroups
  <2>11. g \notin Release!WholeGroups => {b.asset : b \in previous} = Release!Missing /\ Release!Restoring(g) = Release!Missing
    BY <2>1, <2>9 DEF Release!GapGroups, Release!Restoring
  <2>12. CASE Release!Restoring(g) = Assets
    <3>1. \A a \in Assets : Kept(a)
      BY <2>10, <2>11, <2>12 DEF Kept
    <3> QED BY <1>1, <1>2, <1>3, <1>4, <2>4, <2>6, <2>7, <2>8, <2>12, <3>1, ReleaseStep DEF Killable, OfGroup
  <2>13. CASE Release!Restoring(g) # Assets
    <3>1. g \notin Release!WholeGroups
      BY <2>13 DEF Release!Restoring
    <3>2. ~\A a \in Assets : Kept(a)
      BY <2>11, <2>13, <3>1 DEF Kept, Release!Missing
    <3>3. Gap /\ \A a \in Assets : a \in Release!Restoring(g) <=> final[a] = 0
      BY <2>5, <2>7, <2>11, <3>1, <3>2 DEF Killable, Release!Missing
    <3> QED BY <1>1, <1>2, <1>3, <1>4, <2>4, <2>6, <2>7, <2>8, <2>13, <3>3, ReleaseStep DEF Killable, OfGroup
  <2> QED BY <2>12, <2>13
<1> QED BY <1>5, <1>6, <1>7, <1>8 DEF Release!Inspect

LEMMA DropPartialKeeps ==
  ASSUME ReleaseInv, NEW a \in Assets, Release!DropPartial(a)
  PROVE  ReleaseInv'
<1>1. /\ job.pc = "dropPartial" /\ a \in job.left /\ final' = [final EXCEPT ![a] = 0]
      /\ UNCHANGED <<previous, tag>> /\ Release!Calm /\ job \in Jobs /\ job.commit > tag
  BY DEF Release!DropPartial, Release!At, ReleaseInv, ReleaseTyped
<1>2. /\ ~(releaseFaults.kinds \subseteq {"callFails"}) /\ releaseFaults.kinds \subseteq {"kill"} /\ Killable(job)
  BY <1>1 DEF ReleaseInv, ReleaseTyped, Failing
<1>3. /\ job' \in Jobs /\ Same(job', job)
      /\ \/ job'.pc = "dropPartial" /\ job'.left = job.left \ {a}
         \/ job.left = {a} /\ job'.pc = "restore" /\ job'.left = Assets
  <2>1. "restore" \in JobPcs
    BY DEF JobPcs
  <2>2. CASE job.left = {a}
    BY <2>1, <2>2, JobGoes DEF ReleaseInv, Release!DropPartial
  <2>3. CASE job.left # {a}
    BY <1>1, <2>1, <2>3, JobDoes DEF ReleaseInv, Release!DropPartial
  <2> QED BY <2>2, <2>3
<1>4. final \in [Assets -> Nat] /\ final'[a] = 0 /\ \A x \in Assets \ {a} : final'[x] = final[x]
  BY <1>1 DEF ReleaseInv, ReleaseTyped
<1>5. Single' /\ OfGroup(job.recovery)' /\ Uniform' /\ \A x \in Assets : Kept(x)'
  BY <1>1, <1>2, <1>3, <1>4 DEF Killable, Single, OfGroup, Kept, Uniform, Same
<1>6. Killable(job)'
  <2>1. CASE job'.pc = "dropPartial" /\ job'.left = job.left \ {a}
    BY <1>1, <1>2, <1>3, <1>4, <1>5, <2>1 DEF Killable, OfGroup, Same
  <2>2. CASE job.left = {a} /\ job'.pc = "restore" /\ job'.left = Assets
    <3>1. \A x \in Assets : final'[x] = 0
      BY <1>1, <1>2, <1>4, <2>2 DEF Killable
    <3>2. Gap'
      BY <1>5, <3>1 DEF Gap
    <3> QED BY <1>1, <1>3, <1>5, <2>2, <3>1, <3>2 DEF Killable, OfGroup, Same
  <2> QED BY <1>3, <2>1, <2>2
<1>7. Recent' /\ final' \in [Assets -> Nat] /\ job'.commit > tag'
  BY <1>1, <1>3, <1>4 DEF ReleaseInv, Recent, Same
<1> QED BY <1>1, <1>2, <1>3, <1>6, <1>7, ReleaseStep DEF ReleaseInv, ReleaseTyped

(* The backup that becomes the asset again.                                  *)
LEMMA RestoredAsset ==
  ASSUME ReleaseInv, NEW g, NEW a \in Assets, Release!Restored(g, a), Release!Backup(g, a) # {}, OfGroup(g)
  PROVE  \E b \in previous : /\ b.asset = a /\ final' = [final EXCEPT ![a] = b.commit]
                             /\ previous' = {x \in previous : x.asset # a}
<1>1. \E b \in Release!Backup(g, a) : TRUE
  OBVIOUS
<1> PICK b : b = CHOOSE x \in Release!Backup(g, a) : TRUE
  OBVIOUS
<1>2. b \in Release!Backup(g, a)
  BY <1>1
<1>3. Release!Backup(g, a) = {x \in previous : x.asset = a}
  BY DEF Release!Backup, OfGroup
<1>4. final' = [final EXCEPT ![a] = b.commit]
  BY DEF Release!Restored
<1> QED BY <1>2, <1>3, <1>4 DEF Release!Restored

LEMMA RestoreKeeps ==
  ASSUME ReleaseInv, NEW a \in Assets, Release!Restore(a)
  PROVE  ReleaseInv'
<1>1. /\ job.pc = "restore" /\ a \in job.left /\ Release!Restored(job.recovery, a)
      /\ UNCHANGED tag /\ Release!Calm /\ job \in Jobs /\ job.commit > tag
  BY DEF Release!Restore, Release!At, ReleaseInv, ReleaseTyped
<1>2. /\ ~(releaseFaults.kinds \subseteq {"callFails"}) /\ releaseFaults.kinds \subseteq {"kill"} /\ Killable(job)
  BY <1>1 DEF ReleaseInv, ReleaseTyped, Failing
<1>3. /\ job' \in Jobs /\ Same(job', job) /\ job'.left = job.left \ {a}
      /\ job'.pc = IF job.left = {a} THEN "stale" ELSE "restore"
  BY <1>1, JobDoes DEF ReleaseInv, Release!Restore, JobPcs
<1>4. /\ Single /\ OfGroup(job.recovery) /\ Gap /\ \A x \in Assets : x \in job.left <=> final[x] = 0
  BY <1>1, <1>2 DEF Killable
<1>5. PICK b \in previous : /\ b.asset = a /\ final' = [final EXCEPT ![a] = b.commit]
                            /\ previous' = {x \in previous : x.asset # a}
  <2>1. Release!Backup(job.recovery, a) # {}
    BY <1>1, <1>4 DEF Gap, Kept, OfGroup, Release!Backup
  <2> QED BY <1>1, <1>4, <2>1, RestoredAsset
<1>6. /\ final \in [Assets -> Nat] /\ final'[a] = b.commit /\ \A x \in Assets \ {a} : final'[x] = final[x]
      /\ b.commit \in Nat /\ b.commit >= tag /\ b.commit # 0 /\ final' \in [Assets -> Nat]
  BY <1>4, <1>5 DEF ReleaseInv, ReleaseTyped, Single
<1>7. Single' /\ OfGroup(job.recovery)'
  BY <1>1, <1>3, <1>4, <1>5 DEF Single, OfGroup, Same
<1>8. \A x \in Assets : final[x] # 0 => final[x] = b.commit
  BY <1>4 DEF Gap
<1>9. Uniform' /\ Recent'
  BY <1>1, <1>6, <1>8 DEF Uniform, Recent
<1>10. Gap'
  <2>1. \A x \in Assets : Kept(x)' <=> final'[x] = 0
    BY <1>4, <1>5, <1>6 DEF Gap, Kept
  <2>2. \A c \in previous' : c.commit = b.commit
    BY <1>4, <1>5 DEF Single
  <2> QED BY <1>6, <1>8, <2>1, <2>2 DEF Gap
<1>11. \A x \in Assets : x \in job'.left <=> final'[x] = 0
  BY <1>3, <1>4, <1>6
<1>12. job.left = {a} => Full'
  BY <1>3, <1>11 DEF Full
<1>13. Killable(job)'
  BY <1>3, <1>7, <1>9, <1>10, <1>11, <1>12 DEF Killable, OfGroup, Same
<1> QED BY <1>1, <1>2, <1>3, <1>5, <1>6, <1>9, <1>13, ReleaseStep DEF ReleaseInv, ReleaseTyped, Same

LEMMA DeleteStaleKeeps ==
  ASSUME ReleaseInv, Release!DeleteStale
  PROVE  ReleaseInv'
<1>1. /\ job.pc = "stale" /\ UNCHANGED <<final, tag>> /\ Release!Calm /\ job \in Jobs /\ job.commit > tag
      /\ previous' \subseteq previous
      /\ \/ UNCHANGED job
         \/ previous' = {} /\ Release!Goto("ownStaging")
  BY DEF Release!DeleteStale, Release!At, ReleaseInv, ReleaseTyped
<1>2. /\ job' \in Jobs /\ Same(job', job)
      /\ \/ job'.pc = "stale"
         \/ previous' = {} /\ job'.pc = "ownStaging"
  BY <1>1, JobGoes DEF ReleaseInv, Same, JobPcs
<1>3. Uniform' = Uniform /\ Full' = Full /\ Recent'
  BY <1>1 DEF Uniform, Full, ReleaseInv, Recent
<1>4. releaseFaults.kinds \subseteq {"kill"} => Killable(job)'
  BY <1>1, <1>2, <1>3 DEF ReleaseInv, Killable
<1>5. releaseFaults.kinds \subseteq {"callFails"} => Failing(job)'
  BY <1>1, <1>2, <1>3 DEF ReleaseInv, Failing, Same
<1> QED BY <1>1, <1>2, <1>3, <1>4, <1>5, ReleaseStep DEF ReleaseInv, ReleaseTyped, Same

LEMMA StageKeeps ==
  ASSUME ReleaseInv, NEW a \in Assets, Release!DeleteOwnStaging(a) \/ Release!Upload(a)
  PROVE  ReleaseInv'
<1>1. /\ job.pc \in {"ownStaging", "upload"} /\ UNCHANGED <<final, previous, tag>> /\ Release!Calm
      /\ job \in Jobs /\ job.commit > tag
  BY DEF Release!DeleteOwnStaging, Release!Upload, Release!At, ReleaseInv, ReleaseTyped
<1>2. /\ job' \in Jobs /\ Same(job', job)
      /\ \/ job'.pc \in {"ownStaging", "upload"}
         \/ job'.pc = "backUp" /\ job'.left = Assets
  <2>1. {"upload", "backUp"} \subseteq JobPcs
    BY DEF JobPcs
  <2>2. CASE job.left = {a}
    <3>1. Release!Goto("upload") \/ Release!Goto("backUp")
      BY <2>2 DEF Release!DeleteOwnStaging, Release!Upload
    <3> QED BY <2>1, <3>1, JobGoes DEF ReleaseInv
  <2>3. CASE job.left # {a}
    <3>1. Release!Done(a, "upload") \/ Release!Done(a, "backUp")
      BY <2>3 DEF Release!DeleteOwnStaging, Release!Upload
    <3> QED BY <1>1, <2>1, <2>3, <3>1, JobDoes DEF ReleaseInv
  <2> QED BY <2>2, <2>3
<1>3. /\ Uniform' = Uniform /\ Full' = Full /\ Recent'
  BY <1>1 DEF Uniform, Full, ReleaseInv, Recent
<1>4. releaseFaults.kinds \subseteq {"kill"} => Killable(job)'
  <2> SUFFICES ASSUME Killable(job) PROVE Killable(job)'
    BY DEF ReleaseInv
  <2>1. Full /\ previous = {} /\ Uniform
    BY <1>1 DEF Killable
  <2>2. Single' /\ Gap' /\ OfGroup(job.commit)'
    BY <1>1, <2>1 DEF Single, Gap, OfGroup, Full, Kept
  <2> QED BY <1>1, <1>2, <1>3, <2>1, <2>2 DEF Killable, Full, OfGroup
<1>5. releaseFaults.kinds \subseteq {"callFails"} => Failing(job)'
  <2> SUFFICES ASSUME Failing(job) PROVE Failing(job)'
    BY DEF ReleaseInv
  <2>1. previous = {} /\ Uniform /\ job.backedUp = {} /\ job.promoted = {}
    BY <1>1 DEF Failing
  <2>2. Undoable(job)'
    BY <1>1, <1>2, <1>3, <2>1 DEF Undoable, OfGroup, Same, Uniform
  <2> QED BY <1>1, <1>2, <1>3, <2>1, <2>2 DEF Failing, Same
<1> QED BY <1>1, <1>2, <1>3, <1>4, <1>5, ReleaseStep DEF ReleaseInv, ReleaseTyped, Same

LEMMA BackUpKeeps ==
  ASSUME ReleaseInv, NEW a \in Assets, Release!BackUp(a)
  PROVE  ReleaseInv'
<1> PICK d : d = [group |-> job.commit, asset |-> a, commit |-> final[a]]
  OBVIOUS
<1>1. /\ job.pc = "backUp" /\ a \in job.left /\ UNCHANGED tag /\ Release!Calm /\ job \in Jobs
      /\ job.commit > tag /\ job.commit \in Nat /\ tag \in Nat \ {0} /\ final \in [Assets -> Nat]
      /\ previous \subseteq [group : Nat, asset : Assets, commit : Nat]
  BY DEF Release!BackUp, Release!At, ReleaseInv, ReleaseTyped, Jobs
<1>2. /\ previous' = IF final[a] = 0 THEN previous ELSE (previous \ Release!Backup(job.commit, a)) \cup {d}
      /\ final' = [final EXCEPT ![a] = 0]
  BY DEF Release!BackUp, Release!BackedUp
<1>3. final' \in [Assets -> Nat] /\ final'[a] = 0 /\ \A x \in Assets \ {a} : final'[x] = final[x]
  BY <1>1, <1>2
<1>4. d \in [group : Nat, asset : Assets, commit : Nat] /\ d.group = job.commit /\ d.asset = a /\ d.commit = final[a]
  BY <1>1
<1>5. previous' \subseteq [group : Nat, asset : Assets, commit : Nat]
  BY <1>1, <1>2, <1>4
<1>6. \A b \in previous' : b \in previous \/ (b = d /\ final[a] # 0)
  BY <1>2
<1>7. /\ job' \in Jobs /\ job'.commit = job.commit /\ job'.recovery = job.recovery /\ job'.promoted = job.promoted
      /\ job'.backedUp = IF final[a] = 0 THEN job.backedUp ELSE job.backedUp \cup {a}
      /\ \/ job'.pc = "backUp" /\ job.left # {a} /\ job'.left = job.left \ {a}
         \/ job'.pc = "promote" /\ job.left = {a} /\ job'.left = Assets
  <2>1. "promote" \in JobPcs
    BY DEF JobPcs
  <2>2. CASE job.left = {a}
    BY <1>1, <2>1, <2>2 DEF Jobs, Release!BackUp
  <2>3. CASE job.left # {a}
    BY <1>1, <2>1, <2>3 DEF Jobs, Release!BackUp
  <2> QED BY <2>2, <2>3
<1>8. Recent'
  BY <1>1, <1>3 DEF ReleaseInv, Recent
<1>9. final[a] # 0 => final[a] >= tag
  BY DEF ReleaseInv, Recent
<1>10. releaseFaults.kinds \subseteq {"kill"} => Killable(job)'
  <2> SUFFICES ASSUME Killable(job) PROVE Killable(job)'
    BY DEF ReleaseInv
  <2>1. /\ Uniform /\ Single /\ OfGroup(job.commit) /\ Gap
        /\ \A x \in Assets : x \notin job.left <=> final[x] = 0
    BY <1>1 DEF Killable
  <2>2. final[a] # 0 /\ ~Kept(a)
    BY <1>1, <2>1 DEF Gap
  <2>3. previous' = previous \cup {d}
    BY <1>2, <2>2 DEF Kept, Release!Backup
  <2>4. \A b \in previous : b.commit = d.commit /\ b.group = d.group
    BY <1>4, <2>1, <2>2 DEF Gap, OfGroup
  <2>5. Single' /\ OfGroup(job.commit)'
    BY <1>1, <1>4, <1>7, <1>9, <2>1, <2>2, <2>3, <2>4 DEF Single, OfGroup
  <2>6. Uniform'
    BY <1>3, <2>1 DEF Uniform
  <2>7. Gap'
    <3>1. \A x \in Assets : Kept(x)' <=> final'[x] = 0
      BY <1>3, <1>4, <2>1, <2>3 DEF Gap, Kept
    <3>2. \A x \in Assets : final'[x] # 0 => final'[x] = d.commit
      BY <1>3, <1>4, <2>1, <2>2 DEF Uniform
    <3> QED BY <2>3, <2>4, <3>1, <3>2 DEF Gap
  <2>8. CASE job'.pc = "backUp" /\ job'.left = job.left \ {a}
    BY <1>3, <2>1, <2>5, <2>6, <2>7, <2>8 DEF Killable, OfGroup
  <2>9. CASE job'.pc = "promote" /\ job.left = {a} /\ job'.left = Assets
    <3>1. \A x \in Assets : final'[x] = 0
      BY <1>3, <2>1, <2>9
    <3>2. \A x \in Assets : Kept(x)'
      BY <2>7, <3>1 DEF Gap
    <3> QED BY <2>5, <2>6, <2>9, <3>1, <3>2 DEF Killable
  <2> QED BY <1>7, <2>8, <2>9
<1>11. releaseFaults.kinds \subseteq {"callFails"} => Failing(job)'
  <2> SUFFICES ASSUME Failing(job) PROVE Failing(job)'
    BY DEF ReleaseInv
  <2>1. /\ Undoable(job) /\ job.promoted = {} /\ job.backedUp \cap job.left = {}
        /\ \A x \in Assets \ job.left : final[x] = 0
    BY <1>1 DEF Failing
  <2>2. /\ \A b \in previous : b.group = job.commit /\ b.asset \in job.backedUp /\ b.commit >= tag
        /\ \A b, c \in previous : b.commit = c.commit
        /\ \A x, y \in Assets : final[x] # 0 /\ final[y] # 0 => final[x] = final[y]
        /\ \A b \in previous, x \in Assets : final[x] # 0 => final[x] = b.commit
        /\ \A x \in job.backedUp : final[x] = 0
    BY <2>1 DEF Undoable, OfGroup
  <2>3. job.backedUp \subseteq Assets
    BY <1>1 DEF Jobs
  <2>4. \A b \in previous' : b.group = job.commit /\ b.asset \in job'.backedUp /\ b.commit >= tag
    BY <1>4, <1>6, <1>7, <1>9, <2>2
  <2>5. \A b, c \in previous' : b.commit = c.commit
    BY <1>4, <1>6, <2>2
  <2>6. \A x, y \in Assets : final'[x] # 0 /\ final'[y] # 0 => final'[x] = final'[y]
    BY <1>3, <2>2
  <2>7. \A b \in previous', x \in Assets : final'[x] # 0 => final'[x] = b.commit
    BY <1>3, <1>4, <1>6, <2>2
  <2>8. \A x \in job'.backedUp : final'[x] = 0
    BY <1>3, <1>7, <2>2, <2>3
  <2>9. Undoable(job)'
    BY <1>1, <1>7, <2>1, <2>4, <2>5, <2>6, <2>7, <2>8 DEF Undoable, OfGroup
  <2>10. CASE job'.pc = "backUp" /\ job'.left = job.left \ {a}
    <3>1. job'.backedUp \cap job'.left = {} /\ \A x \in Assets \ job'.left : final'[x] = 0
      BY <1>3, <1>7, <2>1, <2>10
    <3> QED BY <1>7, <2>1, <2>9, <2>10, <3>1 DEF Failing
  <2>11. CASE job'.pc = "promote" /\ job.left = {a} /\ job'.left = Assets
    <3>1. \A x \in Assets : final'[x] = 0
      BY <1>3, <2>1, <2>11
    <3> QED BY <1>7, <2>1, <2>9, <2>11, <3>1 DEF Failing
  <2> QED BY <1>7, <2>10, <2>11
<1> QED BY <1>1, <1>3, <1>5, <1>7, <1>8, <1>10, <1>11, ReleaseStep

LEMMA PromoteKeeps ==
  ASSUME ReleaseInv, NEW a \in Assets, Release!Promote(a)
  PROVE  ReleaseInv'
<1>1. /\ job.pc = "promote" /\ a \in job.left /\ UNCHANGED <<previous, tag>> /\ Release!Calm /\ job \in Jobs
      /\ job.commit > tag /\ job.commit \in Nat /\ tag \in Nat \ {0} /\ final \in [Assets -> Nat]
      /\ job.left \subseteq Assets /\ job.promoted \subseteq Assets
  BY DEF Release!Promote, Release!At, ReleaseInv, ReleaseTyped, Jobs
<1>2. final' = [final EXCEPT ![a] = job.commit]
  BY DEF Release!Promote, Release!Promoted
<1>3. final' \in [Assets -> Nat] /\ final'[a] = job.commit /\ \A x \in Assets \ {a} : final'[x] = final[x]
  BY <1>1, <1>2
<1>4. /\ job' \in Jobs /\ job'.commit = job.commit /\ job'.recovery = job.recovery
      /\ job'.promoted = job.promoted \cup {a} /\ job'.backedUp = job.backedUp
      /\ \/ job'.pc = "promote" /\ job.left # {a} /\ job'.left = job.left \ {a}
         \/ job'.pc = "dropBackups" /\ job.left = {a} /\ job'.left = Assets
  <2>1. "dropBackups" \in JobPcs
    BY DEF JobPcs
  <2>2. CASE job.left = {a}
    BY <1>1, <2>1, <2>2 DEF Jobs, Release!Promote
  <2>3. CASE job.left # {a}
    BY <1>1, <2>1, <2>3 DEF Jobs, Release!Promote
  <2> QED BY <2>2, <2>3
<1>5. Recent'
  BY <1>1, <1>3 DEF ReleaseInv, Recent
<1>6. ASSUME \A x \in Assets : final[x] = IF x \in job.left THEN 0 ELSE job.commit
      PROVE  /\ \A x \in Assets : final'[x] = IF x \in job.left \ {a} THEN 0 ELSE job.commit
             /\ Uniform' /\ (job.left = {a} => AllAre(job.commit)')
  <2>1. \A x \in Assets : final'[x] = IF x \in job.left \ {a} THEN 0 ELSE job.commit
    BY <1>3, <1>6
  <2> QED BY <1>4, <2>1 DEF Uniform, AllAre
<1>7. releaseFaults.kinds \subseteq {"kill"} => Killable(job)'
  <2> SUFFICES ASSUME Killable(job) PROVE Killable(job)'
    BY DEF ReleaseInv
  <2>1. /\ Single /\ \A x \in Assets : Kept(x)
        /\ \A x \in Assets : final[x] = IF x \in job.left THEN 0 ELSE job.commit
    BY <1>1 DEF Killable
  <2>2. Single' /\ \A x \in Assets : Kept(x)'
    BY <1>1, <2>1 DEF Single, Kept
  <2> QED BY <1>4, <1>6, <2>1, <2>2 DEF Killable, AllAre
<1>8. releaseFaults.kinds \subseteq {"callFails"} => Failing(job)'
  <2> SUFFICES ASSUME Failing(job) PROVE Failing(job)'
    BY DEF ReleaseInv
  <2>1. /\ Undoable(job) /\ job.promoted = Assets \ job.left
        /\ \A x \in Assets : final[x] = IF x \in job.left THEN 0 ELSE job.commit
    BY <1>1 DEF Failing
  <2>2. Undoable(job)'
    <3>1. \A x \in Assets \ job'.promoted : final'[x] = 0
      BY <1>3, <1>4, <2>1
    <3>2. \A x \in job'.promoted : final'[x] = job'.commit
      BY <1>1, <1>3, <1>4, <2>1
    <3>3. /\ \A b \in previous : b.group = job.commit /\ b.asset \in job.backedUp
          /\ \A b, c \in previous : b.commit = c.commit /\ b.commit >= tag
      BY <2>1 DEF Undoable, OfGroup
    <3>4. job'.backedUp \subseteq Assets
      BY <1>4 DEF Jobs
    <3> QED BY <1>1, <1>4, <3>1, <3>2, <3>3, <3>4 DEF Undoable, OfGroup
  <2>3. CASE job'.pc = "promote" /\ job'.left = job.left \ {a}
    <3>1. job'.promoted = Assets \ job'.left
      BY <1>1, <1>4, <2>1, <2>3
    <3> QED BY <1>4, <1>6, <2>1, <2>2, <2>3, <3>1 DEF Failing
  <2>4. CASE job'.pc = "dropBackups" /\ job.left = {a} /\ job'.left = Assets
    <3>1. job'.promoted = Assets
      BY <1>1, <1>4, <2>1, <2>4
    <3>2. \A b \in previous : b.asset \in Assets
      BY DEF ReleaseInv, ReleaseTyped
    <3> QED BY <1>1, <1>4, <1>6, <2>1, <2>2, <2>4, <3>1, <3>2 DEF Failing, AllAre
  <2> QED BY <1>4, <2>3, <2>4
<1> QED BY <1>1, <1>3, <1>4, <1>5, <1>7, <1>8, ReleaseStep DEF ReleaseInv, ReleaseTyped

LEMMA DropBackupKeeps ==
  ASSUME ReleaseInv, NEW a \in Assets, Release!DropBackup(a)
  PROVE  ReleaseInv'
<1>1. /\ job.pc = "dropBackups" /\ a \in job.left /\ previous' = previous \ Release!Backup(job.commit, a)
      /\ UNCHANGED <<final, tag>> /\ Release!Calm /\ job \in Jobs /\ job.commit > tag /\ tag \in Nat \ {0}
      /\ job.commit \in Nat
  BY DEF Release!DropBackup, Release!At, ReleaseInv, ReleaseTyped, Jobs
<1>2. /\ job' \in Jobs /\ Same(job', job) /\ job'.left = job.left \ {a}
      /\ job'.pc = IF job.left = {a} THEN "tag" ELSE "dropBackups"
  BY <1>1, JobDoes DEF ReleaseInv, Release!DropBackup, JobPcs
<1>3. Recent' /\ Uniform' = Uniform /\ (AllAre(job.commit) => AllAre(job.commit)')
  BY <1>1, <1>2 DEF ReleaseInv, Recent, Uniform, AllAre, Same
<1>4. AllAre(job.commit) => Full' /\ Uniform'
  BY <1>1 DEF AllAre, Full, Uniform
<1>5. releaseFaults.kinds \subseteq {"kill"} => Killable(job)'
  <2> SUFFICES ASSUME Killable(job) PROVE Killable(job)'
    BY DEF ReleaseInv
  <2>1. AllAre(job.commit)
    BY <1>1 DEF Killable
  <2> QED BY <1>2, <1>3, <1>4, <2>1 DEF Killable
<1>6. releaseFaults.kinds \subseteq {"callFails"} => Failing(job)'
  <2> SUFFICES ASSUME Failing(job) PROVE Failing(job)'
    BY DEF ReleaseInv
  <2>1. Undoable(job) /\ AllAre(job.commit) /\ job.promoted = Assets /\ \A b \in previous : b.asset \in job.left
    BY <1>1 DEF Failing
  <2>2. \A b \in previous' : b \in previous /\ b.asset \in job.left \ {a}
    BY <1>1, <2>1 DEF Undoable, OfGroup, Release!Backup
  <2>3. Undoable(job)'
    BY <1>1, <1>2, <2>1, <2>2 DEF Undoable, OfGroup, Same
  <2>4. job.left = {a} => previous' = {}
    BY <2>2
  <2> QED BY <1>2, <1>3, <1>4, <2>1, <2>2, <2>3, <2>4 DEF Failing, Same
<1> QED BY <1>1, <1>2, <1>3, <1>5, <1>6, ReleaseStep DEF ReleaseInv, ReleaseTyped, Same

LEMMA MoveTagKeeps ==
  ASSUME ReleaseInv, Release!MoveTag
  PROVE  ReleaseInv' /\ tag' >= tag
<1>1. /\ job.pc = "tag" /\ tag' = job.commit /\ job' = Release!NoJob
      /\ UNCHANGED <<final, previous>> /\ Release!Calm /\ job.commit > tag /\ tag \in Nat \ {0}
      /\ job.commit \in Nat
  BY DEF Release!MoveTag, Release!At, ReleaseInv, ReleaseTyped, Jobs
<1>2. AllAre(job.commit)
  BY <1>1 DEF ReleaseInv, ReleaseTyped, Killable, Failing
<1>3. Recent' /\ Uniform' /\ Full'
  BY <1>1, <1>2 DEF AllAre, Recent, Uniform, Full
<1>4. releaseFaults.kinds \subseteq {"kill"} => Killable(job)'
  BY <1>1, <1>3, JobEnds DEF Killable
<1>5. releaseFaults.kinds \subseteq {"callFails"} => Failing(job)'
  BY <1>1, <1>3, JobEnds DEF ReleaseInv, Failing
<1> QED BY <1>1, <1>3, <1>4, <1>5, JobEnds, ReleaseStep DEF ReleaseInv, ReleaseTyped

LEMMA CallFailsKeeps ==
  ASSUME ReleaseInv, Release!CallFails
  PROVE  ReleaseInv'
<1>1. /\ job.pc \in {"upload", "backUp", "promote", "dropBackups"}
      /\ UNCHANGED <<final, previous, tag>> /\ Release!Fault("callFails") /\ job \in Jobs /\ job.commit > tag
      /\ ~(releaseFaults.kinds \subseteq {"kill"}) /\ releaseFaults.kinds \subseteq {"callFails"}
  BY DEF Release!CallFails, Release!Trapped, Release!Fault, ReleaseInv, ReleaseTyped
<1>2. job' \in Jobs /\ Same(job', job) /\ job'.pc = "undoPromote" /\ job'.left = Assets
  BY JobGoes DEF ReleaseInv, Release!CallFails, JobPcs
<1>3. Failing(job) /\ Recent'
  BY <1>1 DEF ReleaseInv, Recent
<1>4. Undoable(job)
  BY <1>1, <1>3 DEF Failing, Undoable, OfGroup, Uniform
<1>5. Undoable(job)'
  BY <1>1, <1>2, <1>4 DEF Undoable, OfGroup, Same
<1>6. job'.promoted \ job'.left = {}
  BY <1>2 DEF Jobs
<1>7. Failing(job)'
  BY <1>2, <1>5, <1>6 DEF Failing
<1> QED BY <1>1, <1>2, <1>3, <1>7, ReleaseStep DEF ReleaseInv, ReleaseTyped, Same

LEMMA UndoPromoteKeeps ==
  ASSUME ReleaseInv, NEW a \in Assets, Release!UndoPromote(a)
  PROVE  ReleaseInv'
<1>1. /\ job.pc = "undoPromote" /\ a \in job.left /\ UNCHANGED <<previous, tag>> /\ Release!Calm /\ job \in Jobs
      /\ job.commit > tag /\ job.commit \in Nat /\ tag \in Nat \ {0} /\ final \in [Assets -> Nat]
      /\ job.left \subseteq Assets /\ job.promoted \subseteq Assets /\ job.backedUp \subseteq Assets
  BY DEF Release!UndoPromote, Release!At, ReleaseInv, ReleaseTyped, Jobs
<1>2. /\ ~(releaseFaults.kinds \subseteq {"kill"}) /\ releaseFaults.kinds \subseteq {"callFails"} /\ Failing(job)
  BY <1>1 DEF ReleaseInv, ReleaseTyped, Killable
<1>3. /\ final' \in [Assets -> Nat] /\ \A x \in Assets \ {a} : final'[x] = final[x]
      /\ final'[a] = IF a \in job.promoted THEN 0 ELSE final[a]
  BY <1>1 DEF Release!UndoPromote
<1>4. /\ job' \in Jobs /\ Same(job', job)
      /\ \/ job'.pc = "undoPromote" /\ job'.left = job.left \ {a}
         \/ job.left = {a} /\ job'.pc = "undoBackup" /\ job'.left = Assets
  <2>1. "undoBackup" \in JobPcs
    BY DEF JobPcs
  <2>2. CASE job.left = {a}
    BY <2>1, <2>2, JobGoes DEF ReleaseInv, Release!UndoPromote
  <2>3. CASE job.left # {a}
    BY <1>1, <2>1, <2>3, JobDoes DEF ReleaseInv, Release!UndoPromote
  <2> QED BY <2>2, <2>3
<1>5. Recent'
  BY <1>1, <1>3 DEF ReleaseInv, Recent
<1>6. Undoable(job) /\ \A x \in job.promoted \ job.left : final[x] = 0
  BY <1>1, <1>2 DEF Failing
<1>7. Undoable(job)'
  BY <1>1, <1>3, <1>4, <1>6 DEF Undoable, OfGroup, Same
<1>8. CASE job'.pc = "undoPromote" /\ job'.left = job.left \ {a}
  <2>1. \A x \in job'.promoted \ job'.left : final'[x] = 0
    BY <1>1, <1>3, <1>4, <1>6, <1>8 DEF Same
  <2>2. Failing(job)'
    BY <1>7, <1>8, <2>1 DEF Failing
  <2> QED BY <1>1, <1>2, <1>3, <1>4, <1>5, <2>2, ReleaseStep DEF ReleaseInv, ReleaseTyped, Same
<1>9. CASE job.left = {a} /\ job'.pc = "undoBackup" /\ job'.left = Assets
  <2>1. \A x \in job'.promoted : final'[x] = 0
    BY <1>1, <1>3, <1>4, <1>6, <1>9 DEF Same
  <2>2. /\ OfGroup(job.commit)' /\ \A b, c \in previous' : b.commit = c.commit /\ b.commit >= tag'
        /\ \A b \in previous' : b.asset \in job'.left \cap job'.backedUp
    BY <1>1, <1>4, <1>7, <1>9 DEF Undoable, OfGroup, Same, ReleaseInv, ReleaseTyped
  <2>3. Uniform'
    BY <1>7, <2>1 DEF Undoable, Uniform
  <2>4. /\ \A b \in previous', x \in Assets : final'[x] # 0 => final'[x] = b.commit
        /\ \A x \in job'.left \cap job'.backedUp : final'[x] = 0
    BY <1>7, <2>1 DEF Undoable
  <2>5. Failing(job)'
    BY <1>9, <2>2, <2>3, <2>4 DEF Failing
  <2> QED BY <1>1, <1>2, <1>3, <1>4, <1>5, <2>5, ReleaseStep DEF ReleaseInv, ReleaseTyped, Same
<1> QED BY <1>4, <1>8, <1>9

LEMMA UndoBackupKeeps ==
  ASSUME ReleaseInv, NEW a \in Assets, Release!UndoBackup(a)
  PROVE  ReleaseInv'
<1>1. /\ job.pc = "undoBackup" /\ a \in job.left /\ UNCHANGED tag /\ Release!Calm /\ job \in Jobs
      /\ job.commit > tag /\ job.commit \in Nat /\ tag \in Nat \ {0} /\ final \in [Assets -> Nat]
      /\ previous \subseteq [group : Nat, asset : Assets, commit : Nat]
  BY DEF Release!UndoBackup, Release!At, ReleaseInv, ReleaseTyped, Jobs
<1>2. /\ ~(releaseFaults.kinds \subseteq {"kill"}) /\ releaseFaults.kinds \subseteq {"callFails"} /\ Failing(job)
  BY <1>1 DEF ReleaseInv, ReleaseTyped, Killable
<1>3. /\ Uniform /\ OfGroup(job.commit)
      /\ \A b, c \in previous : b.commit = c.commit /\ b.commit >= tag
      /\ \A b \in previous : b.asset \in job.left \cap job.backedUp
      /\ \A b \in previous, x \in Assets : final[x] # 0 => final[x] = b.commit
      /\ \A x \in job.left \cap job.backedUp : final[x] = 0
  BY <1>1, <1>2 DEF Failing
<1>4. \/ UNCHANGED <<final, previous>> /\ \A b \in previous : b.asset # a
      \/ \E b \in previous : /\ b.asset = a /\ final' = [final EXCEPT ![a] = b.commit]
                             /\ previous' = {x \in previous : x.asset # a}
  <2>1. CASE \E b \in previous : b.asset = a
    <3>1. Release!Backup(job.commit, a) # {} /\ a \in job.backedUp /\ final[a] = 0
      BY <1>3, <2>1 DEF Release!Backup, OfGroup
    <3>2. Release!Restored(job.commit, a)
      BY <3>1 DEF Release!UndoBackup
    <3> QED BY <1>3, <3>1, <3>2, RestoredAsset
  <2>2. CASE ~\E b \in previous : b.asset = a
    <3>1. Release!Backup(job.commit, a) = {}
      BY <2>2 DEF Release!Backup
    <3> QED BY <2>2, <3>1 DEF Release!UndoBackup
  <2> QED BY <2>1, <2>2
<1>5. /\ final' \in [Assets -> Nat] /\ \A x \in Assets \ {a} : final'[x] = final[x]
      /\ final'[a] = final[a] \/ \E b \in previous : final'[a] = b.commit
      /\ \A b \in previous' : b \in previous /\ b.asset # a
  BY <1>1, <1>4
<1>6. /\ job' \in Jobs /\ Same(job', job)
      /\ \/ job'.pc = "undoBackup" /\ job'.left = job.left \ {a}
         \/ job.left = {a} /\ job'.pc = "undoUpload"
  <2>1. "undoUpload" \in JobPcs
    BY DEF JobPcs
  <2>2. CASE job.left = {a}
    BY <2>1, <2>2, JobGoes DEF ReleaseInv, Release!UndoBackup
  <2>3. CASE job.left # {a}
    BY <1>1, <2>1, <2>3, JobDoes DEF ReleaseInv, Release!UndoBackup
  <2> QED BY <2>2, <2>3
<1>7. Recent'
  BY <1>1, <1>3, <1>5 DEF ReleaseInv, Recent
<1>8. Uniform'
  BY <1>3, <1>5 DEF Uniform
<1>9. CASE job'.pc = "undoBackup" /\ job'.left = job.left \ {a}
  <2>1. OfGroup(job.commit)' /\ \A b, c \in previous' : b.commit = c.commit /\ b.commit >= tag'
    BY <1>1, <1>3, <1>5, <1>6 DEF OfGroup, Same
  <2>2. \A b \in previous' : b.asset \in job'.left \cap job'.backedUp
    BY <1>3, <1>5, <1>6, <1>9 DEF Same
  <2>3. \A b \in previous', x \in Assets : final'[x] # 0 => final'[x] = b.commit
    BY <1>3, <1>5
  <2>4. \A x \in job'.left \cap job'.backedUp : final'[x] = 0
    BY <1>3, <1>5, <1>6, <1>9 DEF Same, Jobs
  <2>5. Failing(job)'
    BY <1>8, <1>9, <2>1, <2>2, <2>3, <2>4 DEF Failing
  <2> QED BY <1>1, <1>2, <1>5, <1>6, <1>7, <2>5, ReleaseStep DEF Same
<1>10. CASE job.left = {a} /\ job'.pc = "undoUpload"
  <2>1. previous' = {}
    BY <1>3, <1>5, <1>10
  <2>2. Failing(job)'
    BY <1>8, <1>10, <2>1 DEF Failing
  <2> QED BY <1>1, <1>2, <1>5, <1>6, <1>7, <2>1, <2>2, ReleaseStep DEF Same
<1> QED BY <1>6, <1>9, <1>10

LEMMA UndoUploadKeeps ==
  ASSUME ReleaseInv, NEW a \in Assets, Release!UndoUpload(a)
  PROVE  ReleaseInv'
<1>1. /\ job.pc = "undoUpload" /\ UNCHANGED <<final, previous, tag>> /\ Release!Calm /\ job \in Jobs
      /\ job.commit > tag
  BY DEF Release!UndoUpload, Release!At, ReleaseInv, ReleaseTyped
<1>2. /\ ~(releaseFaults.kinds \subseteq {"kill"}) /\ releaseFaults.kinds \subseteq {"callFails"} /\ Failing(job)
  BY <1>1 DEF ReleaseInv, ReleaseTyped, Killable
<1>3. job' \in Jobs /\ (job' = Release!NoJob \/ (job'.pc = "undoUpload" /\ Same(job', job)))
  <2>1. CASE job.left = {a}
    BY <2>1, JobEnds DEF Release!UndoUpload
  <2>2. CASE job.left # {a}
    BY <1>1, <2>2, JobDoes DEF ReleaseInv, Release!UndoUpload, JobPcs
  <2> QED BY <2>1, <2>2
<1>4. Recent' /\ Uniform' = Uniform
  BY <1>1 DEF ReleaseInv, Recent, Uniform
<1>5. Failing(job)'
  BY <1>1, <1>2, <1>3, <1>4, JobEnds DEF Failing
<1> QED BY <1>1, <1>2, <1>3, <1>4, <1>5, JobEnds, ReleaseStep DEF ReleaseInv, ReleaseTyped, Same

LEMMA KillKeeps ==
  ASSUME ReleaseInv, Release!Kill
  PROVE  ReleaseInv'
<1>1. /\ UNCHANGED <<final, previous, tag>> /\ Release!Fault("kill") /\ job' = Release!NoJob
      /\ ~(releaseFaults.kinds \subseteq {"callFails"}) /\ releaseFaults.kinds \subseteq {"kill"}
  BY DEF Release!Kill, Release!Fault, ReleaseInv, ReleaseTyped
<1>2. Killable(job) /\ Recent'
  BY <1>1 DEF ReleaseInv, Recent
<1>3. Killable(job)'
  BY <1>1, <1>2, JobEnds DEF Killable, Uniform, Full, Single, Gap, Kept
<1> QED BY <1>1, <1>2, <1>3, JobEnds, ReleaseStep DEF ReleaseInv, ReleaseTyped

(* A step of the jobs: the invariant holds on, and the tag never goes back.  *)
LEMMA EdgeStepKeeps ==
  ASSUME OneKind, ReleaseInv, Release!EdgeNext
  PROVE  ReleaseInv' /\ tag' \in Nat /\ tag' >= tag
<1>1. ASSUME NEW c \in Release!Commits, Release!Start(c) PROVE ReleaseInv' /\ tag' = tag
  BY <1>1, StartKeeps DEF Release!Start
<1>2. ASSUME NEW a \in Assets,
             \/ Release!DropPartial(a) \/ Release!Restore(a) \/ Release!DeleteOwnStaging(a) \/ Release!Upload(a)
             \/ Release!BackUp(a) \/ Release!Promote(a) \/ Release!DropBackup(a)
      PROVE  ReleaseInv' /\ tag' = tag
  <2>1. ReleaseInv'
    BY <1>2, DropPartialKeeps, RestoreKeeps, StageKeeps, BackUpKeeps, PromoteKeeps, DropBackupKeeps
  <2>2. tag' = tag
    BY <1>2 DEF Release!DropPartial, Release!Restore, Release!DeleteOwnStaging, Release!Upload, Release!BackUp,
                Release!Promote, Release!DropBackup
  <2> QED BY <2>1, <2>2
<1>3. ASSUME NEW a \in Assets, Release!UndoPromote(a) \/ Release!UndoBackup(a) \/ Release!UndoUpload(a)
      PROVE  ReleaseInv' /\ tag' = tag
  BY <1>3, UndoPromoteKeeps, UndoBackupKeeps, UndoUploadKeeps
     DEF Release!UndoPromote, Release!UndoBackup, Release!UndoUpload
<1>4. ASSUME Release!Inspect \/ Release!DeleteStale PROVE ReleaseInv' /\ tag' = tag
  BY <1>4, InspectKeeps, DeleteStaleKeeps DEF Release!Inspect, Release!DeleteStale
<1>5. ASSUME Release!CallFails \/ Release!Kill PROVE ReleaseInv' /\ tag' = tag
  BY <1>5, CallFailsKeeps, KillKeeps DEF Release!CallFails, Release!Kill
<1>6. ~Release!AnswerLost /\ \A a \in Assets : ~Release!RollbackFails(a)
  BY DEF ReleaseInv, ReleaseTyped, Release!AnswerLost, Release!RollbackFails, Release!Fault
<1>7. tag \in Nat
  BY DEF ReleaseInv, ReleaseTyped
<1>8. ASSUME Release!MoveTag PROVE ReleaseInv' /\ tag' \in Nat /\ tag' >= tag
  BY <1>8, MoveTagKeeps DEF ReleaseInv, ReleaseTyped
<1>9. (ReleaseInv' /\ tag' = tag) => (ReleaseInv' /\ tag' \in Nat /\ tag' >= tag)
  BY <1>7
<1> QED BY <1>1, <1>2, <1>3, <1>4, <1>5, <1>6, <1>8, <1>9 DEF Release!EdgeNext

LEMMA PublishedKeeps == ASSUME ReleaseInv, Release!Published PROVE ReleaseInv' /\ tag' = tag
<1>1. UNCHANGED <<final, previous, tag, job, releaseFaults>>
  BY DEF Release!Published, Release!edgeVars
<1>2. ReleaseTyped' /\ Recent'
  BY <1>1 DEF ReleaseInv, ReleaseTyped, Recent
<1>3. Killable(job)' <=> Killable(job)
  BY <1>1 DEF Killable, Uniform, Full, Single, Kept, Gap, OfGroup, AllAre
<1>4. Failing(job)' <=> Failing(job)
  BY <1>1 DEF Failing, Undoable, Uniform, OfGroup, AllAre
<1> QED BY <1>1, <1>2, <1>3, <1>4 DEF ReleaseInv

(* One command takes a step of its own.                                      *)
LEMMA ClientStep ==
  ASSUME ReleaseInv, UpdateInv, NEW p \in Clients, NEW c \in ClientOrders, Release!Step(p, c), Release!Published,
         installed' \in Nat, c.target <= tag, c.pc \in {"checksums", "replace"} => c.archive >= c.target
  PROVE  ReleaseInv' /\ UpdateInv'
<1>1. ReleaseInv' /\ tag' = tag
  BY PublishedKeeps
<1>2. client' = [client EXCEPT ![p] = c]
  BY DEF Release!Step
<1>3. client' \in [Clients -> ClientOrders] /\ client'[p] = c /\ \A q \in Clients \ {p} : client'[q] = client[q]
  BY <1>2 DEF UpdateInv
<1>4. \A q \in Clients : Updating(q)'
  BY <1>1, <1>3 DEF UpdateInv, Updating
<1> QED BY <1>1, <1>3, <1>4 DEF UpdateInv

LEMMA LeaveKeeps ==
  ASSUME ReleaseInv, UpdateInv, NEW p \in Clients, Release!Leave(p), Release!Published, installed' \in Nat
  PROVE  ReleaseInv' /\ UpdateInv'
<1>1. Release!NoClient \in ClientOrders /\ Release!NoClient.target = 0 /\ Release!NoClient.pc = "none"
  BY DEF Release!NoClient, ClientOrders
<1>2. 0 <= tag
  BY DEF ReleaseInv, ReleaseTyped
<1> QED BY <1>1, <1>2, ClientStep DEF Release!Leave

(* A command that goes on with what it has.                                  *)
LEMMA ClientGoes ==
  ASSUME ReleaseInv, UpdateInv, NEW p \in Clients,
         NEW pc \in {"none", "check", "note", "resolve", "reconcile", "assets", "archive", "checksums", "replace"},
         Release!Step(p, [client[p] EXCEPT !.pc = pc]), Release!Published, installed' \in Nat,
         pc \in {"checksums", "replace"} => client[p].archive >= client[p].target
  PROVE  ReleaseInv' /\ UpdateInv'
<1> PICK c : c = [client[p] EXCEPT !.pc = pc]
  OBVIOUS
<1>1. client[p] \in ClientOrders /\ client[p].target <= tag
  BY DEF UpdateInv, Updating
<1>2. c \in ClientOrders /\ c.pc = pc /\ c.target = client[p].target /\ c.archive = client[p].archive
  BY <1>1 DEF ClientOrders
<1> QED BY <1>1, <1>2, ClientStep

LEMMA ClientKeeps ==
  ASSUME ReleaseInv, UpdateInv, NEW p \in Clients,
         \/ \E pc \in {"check", "resolve"} : Release!RunCommand(p, pc)
         \/ Release!CheckNotice(p) \/ Release!NoteCheck(p) \/ Release!ResolveTarget(p) \/ Release!ReconcileNotice(p)
         \/ Release!ListAssets(p) \/ Release!DownloadArchive(p) \/ Release!VerifyChecksum(p) \/ Release!Replace(p)
         \/ Release!Fails(p)
  PROVE  ReleaseInv' /\ UpdateInv'
<1>0. /\ client[p] \in ClientOrders /\ Updating(p) /\ installed \in Nat /\ tag \in Nat \ {0}
      /\ final \in [Assets -> Nat] /\ ArchiveName \in Assets /\ ChecksumsName \in Assets
  BY HomeAssumption DEF UpdateInv, ReleaseInv, ReleaseTyped, Release!UpdateAssumption
<1>1. ASSUME NEW pc \in {"check", "resolve"}, Release!RunCommand(p, pc) PROVE ReleaseInv' /\ UpdateInv'
  <2> PICK c : c = [Release!NoClient EXCEPT !.pc = pc, !.build = installed]
    OBVIOUS
  <2>1. c \in ClientOrders /\ c.pc = pc /\ c.target = 0
    BY <1>0, <1>1 DEF Release!NoClient, ClientOrders
  <2>2. Release!Step(p, c) /\ installed' \in Nat /\ Release!Published
    BY <1>0, <1>1 DEF Release!RunCommand
  <2>3. c.target <= tag /\ c.pc \notin {"checksums", "replace"}
    BY <1>0, <2>1
  <2> QED BY <2>1, <2>2, <2>3, ClientStep
<1>2. ASSUME Release!CheckNotice(p), ~Release!Leave(p) PROVE ReleaseInv' /\ UpdateInv'
  <2>1. PICK found : /\ found = 0 \/ found = tag
                     /\ Release!Step(p, [client[p] EXCEPT !.pc = "note", !.target = found])
    BY <1>2 DEF Release!CheckNotice
  <2> PICK c : c = [client[p] EXCEPT !.pc = "note", !.target = found]
    OBVIOUS
  <2>0. found \in Nat /\ found <= tag
    BY <1>0, <2>1
  <2>2. c \in ClientOrders /\ c.pc = "note" /\ c.target = found /\ found <= tag
    BY <1>0, <2>0 DEF ClientOrders
  <2>3. installed' \in Nat /\ Release!Published
    BY <1>0, <1>2 DEF Release!CheckNotice
  <2>4. c.target <= tag /\ c.pc \notin {"checksums", "replace"}
    BY <2>2
  <2> QED BY <2>1, <2>2, <2>3, <2>4, ClientStep
<1>3. ASSUME Release!ResolveTarget(p) PROVE ReleaseInv' /\ UpdateInv'
  <2> PICK c : c = [client[p] EXCEPT !.pc = "reconcile", !.target = tag]
    OBVIOUS
  <2>1. c \in ClientOrders /\ c.pc = "reconcile" /\ c.target = tag
    BY <1>0 DEF ClientOrders
  <2>2. Release!Step(p, c) /\ installed' \in Nat /\ Release!Published
    BY <1>0, <1>3 DEF Release!ResolveTarget
  <2>3. c.target <= tag /\ c.pc \notin {"checksums", "replace"}
    BY <1>0, <2>1
  <2> QED BY <2>1, <2>2, <2>3, ClientStep
<1>4. ASSUME NEW pc \in {"none", "assets"}, Release!WriteCache(p, pc) PROVE ReleaseInv' /\ UpdateInv'
  BY <1>0, <1>4, ClientGoes DEF Release!WriteCache
<1>5. ASSUME Release!NoteCheck(p) \/ Release!ReconcileNotice(p) PROVE ReleaseInv' /\ UpdateInv'
  BY <1>4, <1>5 DEF Release!NoteCheck, Release!ReconcileNotice
<1>6. ASSUME Release!ListAssets(p), ~Release!Leave(p) PROVE ReleaseInv' /\ UpdateInv'
  BY <1>0, <1>6, ClientGoes DEF Release!ListAssets
<1>7. ASSUME Release!DownloadArchive(p), ~Release!Leave(p) PROVE ReleaseInv' /\ UpdateInv'
  <2> PICK c : c = [client[p] EXCEPT !.pc = "checksums", !.archive = final[ArchiveName]]
    OBVIOUS
  <2>1. /\ Release!Step(p, c) /\ final[ArchiveName] # 0 /\ UNCHANGED installed /\ Release!Published
    BY <1>7 DEF Release!DownloadArchive
  <2>2. c \in ClientOrders /\ c.pc = "checksums" /\ c.target = client[p].target /\ c.archive = final[ArchiveName]
    BY <1>0 DEF ClientOrders
  <2>3. final[ArchiveName] >= tag /\ client[p].target <= tag /\ client[p].target \in Nat /\ final[ArchiveName] \in Nat
    BY <1>0, <2>1 DEF ReleaseInv, Recent, Updating, ClientOrders
  <2>4. c.target <= tag /\ c.archive >= c.target
    BY <1>0, <2>2, <2>3
  <2>5. installed' \in Nat
    BY <1>0, <2>1
  <2> QED BY <2>1, <2>2, <2>4, <2>5, ClientStep
<1>8. ASSUME Release!VerifyChecksum(p), ~Release!Leave(p) PROVE ReleaseInv' /\ UpdateInv'
  <2>1. client[p].archive >= client[p].target
    BY <1>0, <1>8 DEF Release!VerifyChecksum, Release!ClientAt, Updating
  <2> QED BY <1>0, <1>8, <2>1, ClientGoes DEF Release!VerifyChecksum
<1>9. ASSUME Release!Replace(p) PROVE ReleaseInv' /\ UpdateInv'
  <2>1. installed' \in Nat /\ Release!Leave(p) /\ Release!Published
    BY <1>0, <1>9 DEF Release!Replace, ClientOrders
  <2> QED BY <2>1, LeaveKeeps
<1>10. ASSUME Release!Leave(p), UNCHANGED installed, Release!Published PROVE ReleaseInv' /\ UpdateInv'
  BY <1>0, <1>10, LeaveKeeps
<1>11. ASSUME Release!CheckNotice(p) \/ Release!ListAssets(p) \/ Release!DownloadArchive(p)
                \/ Release!VerifyChecksum(p) \/ Release!Fails(p)
       PROVE  UNCHANGED installed /\ Release!Published
  BY <1>11 DEF Release!CheckNotice, Release!ListAssets, Release!DownloadArchive, Release!VerifyChecksum, Release!Fails
<1>12. Release!Fails(p) => Release!Leave(p)
  BY DEF Release!Fails
<1> QED BY <1>1, <1>2, <1>3, <1>5, <1>6, <1>7, <1>8, <1>9, <1>10, <1>11, <1>12

(* The home as a whole takes a step of the release, or leaves it alone.      *)
LEMMA ReleaseApart == ASSUME [HomeNext]_homeVars PROVE [Release!UpdateNext]_releaseVars
<1>1. CASE UNCHANGED homeVars
  BY <1>1 DEF homeVars, releaseVars
<1>2. CASE HomeNext
  <2>1. \E p \in Parts : Of(p)
    BY <1>2 DEF HomeNext, Parts
  <2>2. IF part = "release" THEN Release!UpdateNext ELSE UNCHANGED releaseVars
    BY <1>2, <2>1 DEF HomeNext, Of
  <2> QED BY <2>2
<1> QED BY <1>1, <1>2

LEMMA ReleaseInitHolds == ASSUME OneKind, HomeInit PROVE ReleaseInv /\ UpdateInv
<1>1. /\ final = [a \in Assets |-> 1] /\ previous = {} /\ tag = 1 /\ job = Release!NoJob
      /\ releaseFaults \in [kinds : FaultSets, count : {0}]
      /\ installed = 1 /\ client = [p \in Clients |-> Release!NoClient]
  BY DEF HomeInit, Release!UpdateInit, Release!EdgeInit
<1>2. /\ releaseFaults \in [kinds : SUBSET Release!FaultNames, count : Nat]
      /\ releaseFaults.kinds \subseteq {"kill"} \/ releaseFaults.kinds \subseteq {"callFails"}
  BY <1>1, HomeAssumption DEF OneKind, Release!UpdateAssumption, Release!EdgeAssumption
<1>3. ReleaseTyped /\ Recent
  BY <1>1, <1>2, JobEnds DEF ReleaseTyped, Recent
<1>4. Uniform /\ Full
  BY <1>1 DEF Uniform, Full
<1>5. Killable(job) /\ Failing(job)
  BY <1>1, <1>4, JobEnds DEF Killable, Failing
<1>6. Release!NoClient \in ClientOrders /\ Release!NoClient.target = 0 /\ Release!NoClient.pc = "none"
  BY DEF Release!NoClient, ClientOrders
<1>7. UpdateInv
  BY <1>1, <1>6 DEF UpdateInv, Updating
<1> QED BY <1>1, <1>3, <1>5, <1>7, JobEnds DEF ReleaseInv

LEMMA ReleaseStepKeeps ==
  ASSUME OneKind, ReleaseInv, UpdateInv, [Release!UpdateNext]_releaseVars
  PROVE  ReleaseInv' /\ UpdateInv'
<1>1. ASSUME ReleaseInv', tag' \in Nat, tag' >= tag, UNCHANGED <<client, installed>> PROVE ReleaseInv' /\ UpdateInv'
  <2>1. \A p \in Clients : Updating(p)'
    BY <1>1 DEF UpdateInv, Updating, ClientOrders, ReleaseInv, ReleaseTyped
  <2> QED BY <1>1, <2>1 DEF UpdateInv
<1>2. ASSUME Release!Published, UNCHANGED <<client, installed>> PROVE ReleaseInv' /\ UpdateInv'
  <2>1. tag \in Nat
    BY DEF ReleaseInv, ReleaseTyped
  <2> QED BY <1>1, <1>2, <2>1, PublishedKeeps
<1>3. CASE UNCHANGED releaseVars
  BY <1>2, <1>3 DEF releaseVars, Release!Published, Release!edgeVars
<1>4. CASE Release!EdgeNext /\ UNCHANGED <<installed, cache, client>>
  BY <1>1, <1>4, EdgeStepKeeps
<1>5. CASE Release!Age
  BY <1>2, <1>5 DEF Release!Age
<1> QED BY <1>3, <1>4, <1>5, ClientKeeps DEF Release!UpdateNext

LEMMA ReleaseInvAlways == ASSUME OneKind PROVE HomeSpec => [](ReleaseInv /\ UpdateInv)
<1>1. HomeInit => ReleaseInv /\ UpdateInv
  BY ReleaseInitHolds
<1>2. (ReleaseInv /\ UpdateInv) /\ [HomeNext]_homeVars => (ReleaseInv /\ UpdateInv)'
  BY ReleaseApart, ReleaseStepKeeps
<1> QED BY <1>1, <1>2, PTL DEF HomeSpec

(* NeverMixed (HandEdge): what stands under the download names between two   *)
(* jobs is of one commit, and not older than the tag, in a behaviour in which*)
(* jobs are only killed, or only have calls that fail, however often, for any*)
(* number of assets and of commits.                                          *)
THEOREM NeverMixedAlways == ASSUME OneKind PROVE HomeSpec => []NeverMixed
<1>1. ReleaseInv => NeverMixed
  <2> SUFFICES ASSUME ReleaseInv, job.pc = "none", NEW a \in Assets \ Release!Missing, NEW b \in Assets \ Release!Missing
               PROVE  final[a] = final[b] /\ final[a] >= tag
    BY DEF NeverMixed, Release!NeverMixed, Release!At
  <2>1. final[a] # 0 /\ final[b] # 0
    BY DEF Release!Missing
  <2>2. Uniform
    BY DEF ReleaseInv, ReleaseTyped, Killable, Failing
  <2> QED BY <2>1, <2>2 DEF Uniform, ReleaseInv, Recent
<1> QED BY <1>1, ReleaseInvAlways, PTL

(* InstallsWhatItResolved (HandUpdate): what an update installs is never     *)
(* older than the commit that its command resolved, whatever is published    *)
(* meanwhile, and wherever jobs are killed, or their calls fail.             *)
THEOREM InstallsWhatItResolvedAlways == ASSUME OneKind PROVE HomeSpec => InstallsWhatItResolved
<1> DEFINE Installs(p) == Release!Replace(p) => client[p].archive >= client[p].target
<1>1. (ReleaseInv /\ UpdateInv) /\ [HomeNext]_homeVars => [\A p \in Clients : Installs(p)]_(Release!updateVars)
  BY DEF UpdateInv, Updating, Release!Replace, Release!ClientAt
<1> QED BY <1>1, ReleaseInvAlways, PTL
        DEF HomeSpec, InstallsWhatItResolved, Release!InstallsWhatItResolved

=============================================================================
