------------------------------- MODULE MCHandHome -------------------------------
(***************************************************************************)
(* What a home and its installation keep outside the fleet's tasks: the    *)
(* layout of the database, the files an older hand left, the search index, *)
(* the tools, the projects, the routing, the registry of homes, the release*)
(* and its updates; and what a status shows of one attempt.  They share no *)
(* state, so that a behaviour is one of one part, the others keep their    *)
(* first state, and the state spaces add up.                               *)
(***************************************************************************)
EXTENDS Naturals, Sequences

CONSTANTS
    Processes,
    Plan, Builds, MaxCrashes,                               \* schema
    Files, Undelivered, MaxCommands,                        \* import
    Docs, MaxWrites, MaxRebuilds,                           \* index
    Components, RuntimeIDs, MaxBundles, MaxFaults,          \* runtime
    Names, Urls, Legacy,                                    \* projects
    Profiles, Cells, Harnesses, Capable, OldHomes, MaxSettings, \* routing
    Homes, Ids, Older, MaxChanges,                          \* registry
    Assets, MaxCommit, FaultSets, Clients, ArchiveName, ChecksumsName,  \* release
    Found,                                                  \* ladder
    WordKinds, MaxWords, MaxTroubles                            \* attention

VARIABLES
    part,
    db, schemaLock, opener, schemaCrashes,
    there, rows, importLock, at, commands, importCrashes,
    corpus, index, live, search, writes,
    bundle, current, selection, proc, runtimeFaults,
    row, listed, imported, clone, tasks, locks, project, behind, torn, projectBegun,
    projectFaults,
    profile, routes, chosen, unkeyed, keyed, routingLock, routing, launched, asked, removing,
    routingBegun,
    dir, file, locators, minted, runner, changes,
    final, staged, previous, tag, job, releaseFaults, installed, cache, client,
    version, reader,
    report, tail, words, task, pane, quiet, send, acker, view, troubles, handled, standing

Schema   == INSTANCE HandSchema WITH Openers <- Processes, crashes <- schemaCrashes
Import   == INSTANCE HandImport WITH Importers <- Processes, crashes <- importCrashes
Index    == INSTANCE HandIndex WITH Searches <- Processes
Runtime  == INSTANCE HandRuntime WITH faults <- runtimeFaults
Projects == INSTANCE HandProjects WITH Commands <- Processes, command <- project,
                begun <- projectBegun, faults <- projectFaults
Routing  == INSTANCE HandRouting WITH Commands <- Processes, MaxCommands <- MaxSettings,
                lock <- routingLock, command <- routing, begun <- routingBegun
Registry == INSTANCE HandRegistry WITH Commands <- Processes
Release  == INSTANCE HandUpdate WITH faults <- releaseFaults,
                Archive <- ArchiveName, Checksums <- ChecksumsName
Ladder   == INSTANCE HandLadder
Attention == INSTANCE HandAttention WITH row <- task, changes <- troubles,
                MaxChanges <- MaxTroubles, Kinds <- WordKinds

(* Files and Undelivered, for one, are of the import only: each part says    *)
(* what it takes.                                                            *)
ASSUME HomeAssumption ==
    /\ Schema!SchemaAssumption /\ Import!ImportAssumption
    /\ Index!IndexAssumption /\ Runtime!RuntimeAssumption
    /\ Projects!ProjectsAssumption /\ Routing!RoutingAssumption /\ Registry!RegistryAssumption
    /\ Release!UpdateAssumption
    /\ Ladder!LadderAssumption /\ Attention!AttentionAssumption

MCPlan == <<"split", "column", "sends", "guarded", "identity">>

Parts == {"schema", "import", "index", "runtime", "projects", "routing", "registry", "release",
          "ladder", "attention"}

schemaVars   == <<db, schemaLock, opener, schemaCrashes>>
importVars   == <<there, rows, importLock, at, commands, importCrashes>>
indexVars    == <<corpus, index, live, search, writes>>
runtimeVars  == <<bundle, current, selection, proc, runtimeFaults>>
projectVars  == <<row, listed, imported, clone, tasks, locks, project, behind, torn,
                  projectBegun, projectFaults>>
routingVars  == <<profile, routes, chosen, unkeyed, keyed, routingLock, routing, launched,
                  asked, removing, routingBegun>>
registryVars == <<dir, file, locators, minted, runner, changes>>
releaseVars  == <<final, staged, previous, tag, job, releaseFaults, installed, cache, client>>
ladderVars   == <<version, reader>>
attentionVars == <<report, tail, words, task, pane, quiet, send, acker, view, troubles, handled,
                   standing>>
homeVars     == <<part, schemaVars, importVars, indexVars, runtimeVars, projectVars,
                  routingVars, registryVars, releaseVars, ladderVars, attentionVars>>

HomeInit ==
    /\ part \in Parts
    /\ Schema!SchemaInit /\ Import!ImportInit /\ Index!IndexInit /\ Runtime!RuntimeInit
    /\ Projects!ProjectsInit /\ Routing!RoutingInit /\ Registry!RegistryInit
    /\ Release!UpdateInit /\ Ladder!LadderInit /\ Attention!AttentionInit
    /\ part # "schema" => db = Schema!NoDatabase
    /\ part # "routing" => /\ profile = [n \in Profiles |-> Routing!NoProfile]
                           /\ chosen = Routing!None /\ unkeyed = Routing!None
    /\ part # "ladder" => version = 0
    /\ part # "registry" => dir = [h \in Homes |-> Registry!Absent]
    /\ part # "release" => releaseFaults.kinds = CHOOSE k \in FaultSets : TRUE

(* It is a behaviour of this part.                                           *)
Of(p) ==
    /\ part = p /\ UNCHANGED part
    /\ IF p = "schema" THEN TRUE ELSE UNCHANGED schemaVars
    /\ IF p = "import" THEN TRUE ELSE UNCHANGED importVars
    /\ IF p = "index" THEN TRUE ELSE UNCHANGED indexVars
    /\ IF p = "runtime" THEN TRUE ELSE UNCHANGED runtimeVars
    /\ IF p = "projects" THEN TRUE ELSE UNCHANGED projectVars
    /\ IF p = "routing" THEN TRUE ELSE UNCHANGED routingVars
    /\ IF p = "registry" THEN TRUE ELSE UNCHANGED registryVars
    /\ IF p = "release" THEN TRUE ELSE UNCHANGED releaseVars
    /\ IF p = "ladder" THEN TRUE ELSE UNCHANGED ladderVars
    /\ IF p = "attention" THEN TRUE ELSE UNCHANGED attentionVars

HomeNext ==
    \/ Of("schema") /\ Schema!SchemaNext
    \/ Of("import") /\ Import!ImportNext
    \/ Of("index") /\ Index!IndexNext
    \/ Of("runtime") /\ Runtime!RuntimeNext
    \/ Of("projects") /\ Projects!ProjectsNext
    \/ Of("routing") /\ Routing!RoutingNext
    \/ Of("registry") /\ Registry!RegistryNext
    \/ Of("release") /\ Release!UpdateNext
    \/ Of("ladder") /\ Ladder!LadderNext
    \/ Of("attention") /\ Attention!AttentionNext

HomeSpec == HomeInit /\ [][HomeNext]_homeVars

-----------------------------------------------------------------------------
(* HandSchema: a database's version says which layout it has; HandLadder: so *)
(* that a reader of an older version finds what it selects, beside its gaps. *)
VersionIsLayout ==
    /\ part = "schema" => Schema!VersionIsLayout
    /\ part = "ladder" => Ladder!ReadableBesideGaps

(* HandImport: an old task is imported whole, and once.                      *)
ImportedWholeAndOnce == part = "import" => Import!ImportedWholeAndOnce

(* HandIndex: a row's stamp is that of the text it was made from.            *)
StampMeansText == part = "index" => Index!StampMeansText

(* HandRuntime: what current.json names is a whole bundle.                   *)
SelectedIsWhole == part = "runtime" => Runtime!SelectedIsWhole

(* HandRuntime: a command keeps the tools it resolved.                       *)
ToolsStay == Runtime!ToolsStay

(* HandProjects: the registry, its projection and the clones agree.          *)
ProjectsStand == part = "projects" => Projects!ProjectsStand

(* HandProjects: a project that was removed does not come back.              *)
RemovedStaysRemoved == Projects!RemovedStaysRemoved

(* HandRouting: no route dangles, profiles are whole, and a default is of its*)
(* harness.                                                                  *)
RoutingStands ==
    part = "routing" => Routing!RoutesStand /\ Routing!DefaultIsOfItsHarness

(* HandRegistry: of two inits of copies of a home one at least is told of the*)
(* other, who was told is refused, and beside a checked command at a         *)
(* registered home a readable registry lets no other of its fleet in.        *)
FleetsAreTold == part = "registry" => Registry!FleetsAreTold

(* HandEdge: the release is never a mix of two commits.                      *)
NeverMixed == part = "release" => Release!NeverMixed

(* HandUpdate: an update is never older than what it resolved.               *)
InstallsWhatItResolved == Release!InstallsWhatItResolved

(* HandAttention: a status hides nothing that calls for attention.           *)
StatusTells ==
    part = "attention" => Attention!NothingOwedIsHidden /\ Attention!ObligationsOutrank

=============================================================================
