---------------------------- MODULE HandHomeProofs ----------------------------
(* What the parts of a home guarantee for any number of processes, files,    *)
(* bundles and homes: those of MCHandHome, each from its own steps.          *)
EXTENDS MCHandHome, FiniteSetTheorems, WellFoundedInduction, TLAPS

(* A step of a home is a step of its part.                                   *)
LEMMA StepsApart ==
  ASSUME [HomeNext]_homeVars
  PROVE  /\ part' = part
         /\ part = "import" => [Import!ImportNext]_importVars
         /\ part = "index" => [Index!IndexNext]_indexVars
         /\ part = "runtime" => [Runtime!RuntimeNext]_runtimeVars
         /\ part # "runtime" => UNCHANGED runtimeVars
         /\ part = "routing" => [Routing!RoutingNext]_routingVars
         /\ part = "registry" => [Registry!RegistryNext]_registryVars
         /\ part = "schema" => [Schema!SchemaNext]_schemaVars
         /\ part = "ladder" => [Ladder!LadderNext]_ladderVars
<1>1. CASE UNCHANGED homeVars
  BY <1>1 DEF homeVars, importVars, indexVars, runtimeVars, routingVars, registryVars, schemaVars, ladderVars
<1>2. CASE HomeNext
  <2>1. \E p \in Parts : Of(p)
    BY <1>2 DEF HomeNext, Parts
  <2>2. part' = part
    BY <2>1 DEF Of
  <2>3. part = "import" => Import!ImportNext
    BY <1>2 DEF HomeNext, Of
  <2>4. part = "index" => Index!IndexNext
    BY <1>2 DEF HomeNext, Of
  <2>5. IF part = "runtime" THEN Runtime!RuntimeNext ELSE UNCHANGED runtimeVars
    BY <1>2, <2>1 DEF HomeNext, Of
  <2>6. part = "routing" => Routing!RoutingNext
    BY <1>2 DEF HomeNext, Of
  <2>7. part = "registry" => Registry!RegistryNext
    BY <1>2 DEF HomeNext, Of
  <2>8. part = "schema" => Schema!SchemaNext
    BY <1>2 DEF HomeNext, Of
  <2>9. part = "ladder" => Ladder!LadderNext
    BY <1>2 DEF HomeNext, Of
  <2> QED BY <2>2, <2>3, <2>4, <2>5, <2>6, <2>7, <2>8, <2>9
<1> QED BY <1>1, <1>2

-----------------------------------------------------------------------------
(* HandImport.  Only the holder of the lock imports, what it imports is what *)
(* is there, and nobody has the home open while a file is.                   *)
OldRow ==
    [task : {"absent", "open", "terminal"}, attempts : Nat, sends : {0, 1}, imports : {0, 1},
     old : BOOLEAN]

ImportingPcs == {"next", "attempt", "send"}

Migrating ==
    [pc : {"idle", "lock", "relist", "open"} \cup ImportingPcs, names : SUBSET Files,
     todo : SUBSET Files, file : Files \cup {Import!Nobody}]

ImportTyped ==
    /\ there \subseteq Files
    /\ rows \in [Files -> OldRow]
    /\ importLock \in Processes \cup {Import!Nobody}
    /\ at \in [Processes -> Migrating]

Entered(f) ==
    /\ rows[f].task # "absent" /\ rows[f].imports = 1
    /\ f \in Undelivered => rows[f].sends = 1

(* What a file's task is while the file is there.                            *)
Untouched(f) ==
    /\ rows[f].task # "terminal"
    /\ rows[f].attempts = rows[f].imports
    /\ rows[f].old <=> rows[f].imports = 1

Importer(p) ==
    /\ at[p].pc \in {"relist"} \cup ImportingPcs => importLock = p
    /\ at[p].pc \in ImportingPcs =>
         /\ at[p].names = there /\ at[p].todo \subseteq there
         /\ \A f \in there \ at[p].todo : at[p].pc = "next" \/ f # at[p].file => Entered(f)
    /\ at[p].pc \in {"attempt", "send"} =>
         /\ at[p].file \in there \ at[p].todo
         /\ rows[at[p].file].task = "open"
    /\ at[p].pc = "send" => rows[at[p].file].imports = 1
    /\ at[p].pc = "open" => there = {}

ImportInv ==
    /\ ImportTyped
    /\ \A f \in there : Untouched(f)
    /\ \A f \in Files \ there : Entered(f)
    /\ \A p \in Processes : Importer(p)

LEMMA ImportInitHolds == HomeInit => ImportInv
<1> SUFFICES ASSUME HomeInit PROVE ImportInv
  OBVIOUS
<1>1. there = Files /\ rows = [f \in Files |-> Import!NoRow] /\ importLock = Import!Nobody
      /\ at = [p \in Processes |-> Import!Idle]
  BY DEF HomeInit, Import!ImportInit
<1>2. ImportTyped
  BY <1>1 DEF ImportTyped, OldRow, Migrating, Import!NoRow, Import!Idle
<1>3. \A f \in there : Untouched(f)
  BY <1>1 DEF Untouched, Import!NoRow
<1>4. \A p \in Processes : Importer(p)
  BY <1>1 DEF Importer, Import!Idle, ImportingPcs
<1> QED BY <1>1, <1>2, <1>3, <1>4 DEF ImportInv

(* What moves one process only, and no row, no file.                         *)
LEMMA MindStep ==
  ASSUME ImportInv, NEW p \in Processes, UNCHANGED <<there, rows>>,
         NEW m \in Migrating, at' = [at EXCEPT ![p] = m],
         importLock' \in Processes \cup {Import!Nobody},
         \A q \in Processes \ {p} : importLock = q => importLock' = q,
         Importer(p)'
  PROVE  ImportInv'
<1>1. ImportTyped'
  BY DEF ImportInv, ImportTyped
<1>2. \A f \in there' : Untouched(f)'
  BY DEF ImportInv, Untouched
<1>3. \A f \in Files \ there' : Entered(f)'
  BY DEF ImportInv, Entered
<1>4. ASSUME NEW q \in Processes PROVE Importer(q)'
  <2>1. CASE q = p
    BY <2>1
  <2>2. CASE q # p
    <3>1. at'[q] = at[q]
      BY <2>2 DEF ImportInv, ImportTyped
    <3>2. \A f : Entered(f)' <=> Entered(f)
      BY DEF Entered
    <3>3. Importer(q)
      BY DEF ImportInv
    <3> QED BY <3>1, <3>2, <3>3, <2>2 DEF Importer, ImportingPcs
  <2> QED BY <2>1, <2>2
<1> QED BY <1>1, <1>2, <1>3, <1>4 DEF ImportInv

LEMMA ListFilesKeeps == ASSUME ImportInv, NEW p \in Processes, Import!ListFiles(p) PROVE ImportInv'
<1> DEFINE m == [at[p] EXCEPT !.pc = IF there = {} THEN "open" ELSE "lock"]
<1>1. at' = [at EXCEPT ![p] = m] /\ UNCHANGED <<there, rows, importLock>>
  BY DEF Import!ListFiles, Import!Goto, ImportInv, ImportTyped
<1>2. m \in Migrating /\ at'[p] = m
  BY <1>1 DEF ImportInv, ImportTyped, Migrating
<1>3. Importer(p)'
  BY <1>1, <1>2 DEF Importer, ImportingPcs, ImportInv, ImportTyped, Migrating
<1> HIDE DEF m
<1> QED BY <1>1, <1>2, <1>3, MindStep DEF ImportInv, ImportTyped

LEMMA LockImportKeeps == ASSUME ImportInv, NEW p \in Processes, Import!LockImport(p) PROVE ImportInv'
<1> DEFINE m == [at[p] EXCEPT !.pc = "relist"]
<1>0. Import!Nobody \notin Processes
  BY HomeAssumption DEF Import!ImportAssumption
<1>1. at' = [at EXCEPT ![p] = m] /\ UNCHANGED <<there, rows>> /\ importLock = Import!Nobody /\ importLock' = p
  BY DEF Import!LockImport, Import!Goto, ImportInv, ImportTyped
<1>2. m \in Migrating /\ at'[p] = m
  BY <1>1 DEF ImportInv, ImportTyped, Migrating
<1>3. Importer(p)'
  BY <1>1, <1>2 DEF Importer, ImportingPcs, ImportInv, ImportTyped, Migrating
<1> HIDE DEF m
<1> QED BY <1>0, <1>1, <1>2, <1>3, MindStep

LEMMA RelistKeeps == ASSUME ImportInv, NEW p \in Processes, Import!Relist(p) PROVE ImportInv'
<1>0. importLock = p /\ there \subseteq Files /\ at \in [Processes -> Migrating] /\ at[p].pc = "relist"
  BY DEF ImportInv, ImportTyped, Importer, Import!Relist, Import!Is
<1>1. CASE there = {}
  <2> DEFINE m == [at[p] EXCEPT !.pc = "open"]
  <2>1. at' = [at EXCEPT ![p] = m] /\ UNCHANGED <<there, rows>> /\ importLock' = Import!Nobody
    BY <1>0, <1>1 DEF Import!Relist, Import!Goto
  <2>2. m \in Migrating /\ at'[p] = m
    BY <1>0, <2>1 DEF Migrating
  <2>3. Importer(p)'
    BY <1>0, <1>1, <2>1, <2>2 DEF Importer, ImportingPcs, Migrating
  <2> HIDE DEF m
  <2> QED BY <1>0, <2>1, <2>2, <2>3, MindStep
<1>2. CASE there # {}
  <2> DEFINE m == [pc |-> "next", names |-> there, todo |-> there, file |-> Import!Nobody]
  <2>1. at' = [at EXCEPT ![p] = m] /\ UNCHANGED <<there, rows, importLock>>
    BY <1>2 DEF Import!Relist
  <2>2. m \in Migrating /\ at'[p] = m
    BY <1>0, <2>1 DEF Migrating, ImportingPcs
  <2>3. Importer(p)'
    BY <1>0, <2>1, <2>2 DEF Importer, ImportingPcs
  <2> QED BY <1>0, <2>1, <2>2, <2>3, MindStep
<1> QED BY <1>1, <1>2

LEMMA InsertTaskKeeps == ASSUME ImportInv, NEW p \in Processes, Import!InsertTask(p) PROVE ImportInv'
<1>0. at[p].pc = "next" /\ Importer(p) /\ importLock = p /\ ImportTyped /\ at[p].names = there
  BY DEF ImportInv, Importer, Import!InsertTask, Import!Is, ImportingPcs
<1>1. PICK f \in at[p].todo :
        /\ at' = [at EXCEPT ![p].todo = @ \ {f}, ![p].file = f, ![p].pc = "attempt"]
        /\ rows' = [rows EXCEPT ![f].task = IF @ = "absent" THEN "open" ELSE @]
  BY DEF Import!InsertTask
<1>2. f \in there /\ f \in Files /\ Untouched(f)
  BY <1>0 DEF Importer, ImportInv, ImportingPcs, ImportTyped
<1>3. /\ UNCHANGED <<there, importLock>>
      /\ at'[p] = [pc |-> "attempt", names |-> at[p].names, todo |-> at[p].todo \ {f}, file |-> f]
      /\ \A q \in Processes \ {p} : at'[q] = at[q] /\ importLock # q
      /\ rows'[f] = [rows[f] EXCEPT !.task = "open"]
      /\ \A g \in Files \ {f} : rows'[g] = rows[g]
  BY <1>0, <1>1, <1>2 DEF Import!InsertTask, ImportTyped, Migrating, OldRow, Untouched
<1>4. ImportTyped'
  BY <1>0, <1>1, <1>2, <1>3 DEF ImportTyped, Migrating, OldRow, ImportingPcs
<1>5. \A g \in there' : Untouched(g)'
  BY <1>2, <1>3, <1>0 DEF Untouched, ImportInv, OldRow, ImportTyped
<1>6. \A g \in Files : Entered(g) => Entered(g)'
  BY <1>2, <1>3, <1>0 DEF Entered, OldRow, ImportTyped
<1>7. Importer(p)'
  BY <1>0, <1>2, <1>3, <1>6 DEF Importer, ImportingPcs, ImportTyped, OldRow
<1>8. \A q \in Processes \ {p} : Importer(q)'
  BY <1>3 DEF Importer, ImportingPcs, ImportInv
<1> QED BY <1>3, <1>4, <1>5, <1>6, <1>7, <1>8 DEF ImportInv

LEMMA ImportAttemptKeeps == ASSUME ImportInv, NEW p \in Processes, Import!ImportAttempt(p) PROVE ImportInv'
<1> PICK f : f = at[p].file
  OBVIOUS
<1> DEFINE pc == IF f \in Undelivered THEN "send" ELSE "next"
<1>0. at[p].pc = "attempt" /\ Importer(p) /\ importLock = p /\ ImportTyped /\ at[p].names = there
      /\ UNCHANGED <<there, importLock>>
  BY DEF ImportInv, Importer, Import!ImportAttempt, Import!Is, ImportingPcs
<1>1. f \in there \ at[p].todo /\ f \in Files /\ Untouched(f) /\ rows[f].task = "open" /\ rows[f] \in OldRow
  BY <1>0 DEF Importer, ImportInv, ImportTyped
<1>2. /\ Import!AttemptWanted(f) <=> rows[f].imports = 0
      /\ Import!AttemptMatches(f) <=> rows[f].imports = 1
  BY <1>1 DEF Import!AttemptWanted, Import!AttemptMatches, Untouched, OldRow
<1>3. /\ rows' \in [Files -> OldRow]
      /\ rows'[f].attempts = 1 /\ rows'[f].imports = 1 /\ rows'[f].old
      /\ rows'[f].task = "open" /\ rows'[f].sends = rows[f].sends
      /\ \A g \in Files \ {f} : rows'[g] = rows[g]
  <2>1. CASE rows[f].imports = 0
    <3>1. rows' = [rows EXCEPT ![f].attempts = @ + 1, ![f].imports = @ + 1, ![f].old = TRUE]
      BY <1>2, <2>1 DEF Import!ImportAttempt
    <3> QED BY <1>0, <1>1, <2>1, <3>1 DEF OldRow, ImportTyped, Untouched
  <2>2. CASE rows[f].imports = 1
    <3>1. rows' = rows
      BY <1>2, <2>2 DEF Import!ImportAttempt
    <3> QED BY <1>0, <1>1, <2>2, <3>1 DEF OldRow, ImportTyped, Untouched
  <2> QED BY <1>1, <2>1, <2>2 DEF OldRow
<1>4. /\ at' = [at EXCEPT ![p] = [@ EXCEPT !.pc = pc]]
      /\ \A q \in Processes \ {p} : at'[q] = at[q] /\ importLock # q
  BY <1>0, <1>1, <1>2 DEF Import!ImportAttempt, Import!Goto, ImportTyped, OldRow
<1>5. ImportTyped'
  BY <1>0, <1>1, <1>3, <1>4 DEF ImportTyped, Migrating, OldRow, ImportingPcs
<1>6. \A g \in there' : Untouched(g)'
  BY <1>1, <1>3, <1>0 DEF Untouched, ImportInv, OldRow, ImportTyped
<1>7. \A g \in Files : Entered(g) => Entered(g)'
  BY <1>1, <1>3, <1>0 DEF Entered, OldRow, ImportTyped
<1>8. Importer(p)'
  <2>1. at'[p] = [at[p] EXCEPT !.pc = pc] /\ at[p] \in Migrating
    BY <1>0, <1>4 DEF ImportTyped
  <2>2. pc = "next" => Entered(f)'
    BY <1>1, <1>3 DEF Entered, OldRow
  <2> QED BY <1>0, <1>1, <1>3, <1>7, <2>1, <2>2 DEF Importer, ImportingPcs, ImportTyped, OldRow, Migrating
<1>9. \A q \in Processes \ {p} : Importer(q)'
  BY <1>0, <1>4 DEF Importer, ImportingPcs, ImportInv
<1> QED BY <1>0, <1>5, <1>6, <1>7, <1>8, <1>9 DEF ImportInv

LEMMA ImportSendKeeps == ASSUME ImportInv, NEW p \in Processes, Import!ImportLegacySend(p) PROVE ImportInv'
<1> PICK f : f = at[p].file
  OBVIOUS
<1>0. at[p].pc = "send" /\ Importer(p) /\ importLock = p /\ ImportTyped /\ at[p].names = there
      /\ UNCHANGED <<there, importLock>>
  BY DEF ImportInv, Importer, Import!ImportLegacySend, Import!Is, ImportingPcs
<1>1. f \in there \ at[p].todo /\ f \in Files /\ Untouched(f) /\ rows[f].task = "open" /\ rows[f] \in OldRow
      /\ rows[f].imports = 1
  BY <1>0 DEF Importer, ImportInv, ImportTyped
<1>3. /\ rows'[f] = [rows[f] EXCEPT !.sends = 1]
      /\ \A g \in Files \ {f} : rows'[g] = rows[g]
      /\ rows' \in [Files -> OldRow]
  BY <1>0, <1>1 DEF Import!ImportLegacySend, OldRow, ImportTyped
<1>4. /\ at' = [at EXCEPT ![p] = [@ EXCEPT !.pc = "next"]]
      /\ \A q \in Processes \ {p} : at'[q] = at[q] /\ importLock # q
  BY <1>0 DEF Import!ImportLegacySend, Import!Goto, ImportTyped
<1>5. ImportTyped'
  BY <1>0, <1>1, <1>3, <1>4 DEF ImportTyped, Migrating, ImportingPcs
<1>6. \A g \in there' : Untouched(g)'
  BY <1>1, <1>3, <1>0 DEF Untouched, ImportInv, OldRow, ImportTyped
<1>7. \A g \in Files : Entered(g) => Entered(g)'
  BY <1>1, <1>3, <1>0 DEF Entered, OldRow, ImportTyped
<1>8. Importer(p)'
  <2>1. at'[p] = [at[p] EXCEPT !.pc = "next"] /\ at[p] \in Migrating
    BY <1>0, <1>4 DEF ImportTyped
  <2>2. Entered(f)'
    BY <1>1, <1>3 DEF Entered, OldRow
  <2> QED BY <1>0, <1>1, <1>7, <2>1, <2>2 DEF Importer, ImportingPcs, ImportTyped, Migrating
<1>9. \A q \in Processes \ {p} : Importer(q)'
  BY <1>0, <1>4 DEF Importer, ImportingPcs, ImportInv
<1> QED BY <1>0, <1>5, <1>6, <1>7, <1>8, <1>9 DEF ImportInv

LEMMA ArchiveKeeps == ASSUME ImportInv, NEW p \in Processes, Import!Archive(p) PROVE ImportInv'
<1>0. /\ at[p].pc = "next" /\ Importer(p) /\ importLock = p /\ ImportTyped
      /\ at[p].names = there /\ at[p].todo = {} /\ UNCHANGED <<rows, importLock>>
  BY DEF ImportInv, Importer, Import!Archive, Import!Is, ImportingPcs
<1>1. PICK f \in at[p].names : there' = there \ {f} /\ at' = [at EXCEPT ![p].names = @ \ {f}]
  BY DEF Import!Archive
<1>2. Entered(f) /\ f \in Files
  BY <1>0, <1>1 DEF Importer, ImportingPcs, ImportTyped
<1>3. /\ at'[p] = [at[p] EXCEPT !.names = there'] /\ at[p] \in Migrating /\ at' \in [Processes -> Migrating]
      /\ \A q \in Processes \ {p} : at'[q] = at[q] /\ importLock # q
  BY <1>0, <1>1 DEF ImportTyped, Migrating
<1>4. ImportTyped'
  BY <1>0, <1>1, <1>3 DEF ImportTyped
<1>5. \A g : (Entered(g) <=> Entered(g)') /\ (Untouched(g) <=> Untouched(g)')
  BY <1>0 DEF Entered, Untouched
<1>6. Importer(p)'
  BY <1>0, <1>1, <1>3, <1>5 DEF Importer, ImportingPcs, Migrating
<1>7. \A q \in Processes \ {p} : Importer(q)'
  BY <1>0, <1>1, <1>3 DEF Importer, ImportingPcs, ImportInv
<1> QED BY <1>1, <1>2, <1>4, <1>5, <1>6, <1>7 DEF ImportInv

LEMMA ImportedKeeps == ASSUME ImportInv, NEW p \in Processes, Import!Imported(p) PROVE ImportInv'
<1> DEFINE m == [at[p] EXCEPT !.pc = "open"]
<1>0. at[p].pc = "next" /\ Importer(p) /\ importLock = p /\ at \in [Processes -> Migrating] /\ there = {}
  BY DEF ImportInv, Importer, Import!Imported, Import!Is, ImportTyped, ImportingPcs
<1>1. at' = [at EXCEPT ![p] = m] /\ UNCHANGED <<there, rows>> /\ importLock' = Import!Nobody
  BY <1>0 DEF Import!Imported, Import!Goto
<1>2. m \in Migrating /\ at'[p] = m
  BY <1>0, <1>1 DEF Migrating
<1>3. Importer(p)'
  BY <1>0, <1>1, <1>2 DEF Importer, ImportingPcs
<1> QED BY <1>0, <1>1, <1>2, <1>3, MindStep

LEMMA ImportLeavesKeeps ==
  ASSUME ImportInv, NEW p \in Processes, Import!Close(p) \/ Import!Crash(p) PROVE ImportInv'
<1>1. /\ at' = [at EXCEPT ![p] = Import!Idle] /\ UNCHANGED <<there, rows>>
      /\ \/ importLock' = importLock
         \/ importLock = p /\ importLock' = Import!Nobody
  BY DEF Import!Close, Import!Crash
<1>2. Import!Idle \in Migrating /\ at'[p] = Import!Idle
  BY <1>1 DEF Migrating, Import!Idle, ImportInv, ImportTyped
<1>3. Importer(p)'
  BY <1>2 DEF Importer, ImportingPcs, Import!Idle
<1> QED BY <1>1, <1>2, <1>3, MindStep DEF ImportInv, ImportTyped

LEMMA ImportCommandKeeps == ASSUME ImportInv, NEW p \in Processes, Import!Command(p) PROVE ImportInv'
<1>0. there = {} /\ ImportTyped /\ UNCHANGED <<there, importLock, at>>
  BY DEF ImportInv, Importer, Import!Command, Import!Is
<1>1. PICK f \in Files :
        \/ rows[f].task = "open" /\ rows' = [rows EXCEPT ![f].task = "terminal"]
        \/ rows' = [rows EXCEPT ![f].attempts = @ + 1]
        \/ rows' = [rows EXCEPT ![f].task = "open", ![f].attempts = @ + 1]
  BY DEF Import!Command
<1>2. rows' \in [Files -> OldRow]
  BY <1>0, <1>1 DEF ImportTyped, OldRow
<1>3. \A g \in Files : /\ rows'[g].imports = rows[g].imports /\ rows'[g].sends = rows[g].sends
                       /\ rows[g].task # "absent" => rows'[g].task # "absent"
  BY <1>0, <1>1 DEF ImportTyped, OldRow
<1>4. \A g \in Files : Entered(g)'
  BY <1>0, <1>3 DEF Entered, ImportInv
<1>5. \A q \in Processes : Importer(q)'
  BY <1>0 DEF Importer, ImportInv, ImportingPcs
<1> QED BY <1>0, <1>2, <1>4, <1>5 DEF ImportInv, ImportTyped

LEMMA ImportStepKeeps == ASSUME ImportInv, [Import!ImportNext]_importVars PROVE ImportInv'
<1>1. CASE UNCHANGED importVars
  BY <1>1 DEF importVars, ImportInv, ImportTyped, Importer, Untouched, Entered, ImportingPcs
<1>2. CASE Import!ImportNext
  BY <1>2, ListFilesKeeps, LockImportKeeps, RelistKeeps, InsertTaskKeeps, ImportAttemptKeeps, ImportSendKeeps,
     ArchiveKeeps, ImportedKeeps, ImportLeavesKeeps, ImportCommandKeeps
     DEF Import!ImportNext, Import!Import
<1> QED BY <1>1, <1>2 DEF Import!importVars, importVars

(* A task of the old hand enters the database whole and once, however many   *)
(* processes import it, are killed, and command it since (migrate.go:40).    *)
THEOREM ImportedWholeAndOnceAlways == HomeSpec => []ImportedWholeAndOnce
<1> DEFINE Inv == part = "import" => ImportInv
<1>1. HomeInit => Inv
  BY ImportInitHolds
<1>2. Inv /\ [HomeNext]_homeVars => Inv'
  BY StepsApart, ImportStepKeeps
<1>3. Inv => ImportedWholeAndOnce
  <2> SUFFICES ASSUME ImportInv PROVE Import!ImportedWholeAndOnce
    BY DEF ImportedWholeAndOnce
  <2>1. \A f \in Files : rows[f].imports <= 1 /\ rows[f].sends <= 1
    BY DEF ImportInv, ImportTyped, OldRow
  <2> QED BY <2>1 DEF ImportInv, Importer, Entered, Import!ImportedWholeAndOnce, Import!Is
<1> QED BY <1>1, <1>2, <1>3, PTL DEF HomeSpec

-----------------------------------------------------------------------------
(* HandIndex.  No stamp is of a write to come, and what a query has read is  *)
(* what its stamp says, or the file was written since.                       *)
Entry == [stamp : Nat, text : Nat]

Seeking ==
    [pc : {"idle", "scan", "known", "refresh", "index"}, of : Nat, rebuild : BOOLEAN,
     found : [Docs -> Nat], todo : SUBSET Docs, gone : SUBSET Docs,
     doc : Entry \cup [path : Docs, stamp : Nat, text : Nat]]

IndexTyped ==
    /\ corpus \in [Docs -> Nat]
    /\ index \in [Index!Indexes -> [Docs -> Entry]]
    /\ live \in Index!Indexes
    /\ search \in [Processes -> Seeking]
    /\ writes \in Nat

Meant(d, doc) ==
    /\ doc.stamp <= writes
    /\ doc.stamp # 0 /\ doc.stamp = corpus[d] => doc.text = corpus[d]

Searcher(p) ==
    /\ search[p].pc # "idle" => search[p].of \in Index!Indexes
    /\ \A d \in Docs : search[p].found[d] <= writes
    /\ search[p].pc = "index" =>
         /\ search[p].doc \in [path : Docs, stamp : Nat, text : Nat]
         /\ Meant(search[p].doc.path, search[p].doc)

IndexInv ==
    /\ IndexTyped
    /\ \A d \in Docs : corpus[d] <= writes
    /\ \A n \in Index!Indexes, d \in Docs : Meant(d, index[n][d])
    /\ \A p \in Processes : Searcher(p)

LEMMA IndexInitHolds == HomeInit => IndexInv
<1> SUFFICES ASSUME HomeInit PROVE IndexInv
  OBVIOUS
<1>1. /\ corpus = [d \in Docs |-> 0] /\ index = [n \in Index!Indexes |-> [d \in Docs |-> Index!NoDoc]]
      /\ live = 1 /\ search = [p \in Processes |-> Index!Idle] /\ writes = 0
  BY DEF HomeInit, Index!IndexInit
<1>2. Index!NoDoc = [stamp |-> 0, text |-> 0] /\ Index!NoDoc \in Entry /\ Index!Idle \in Seeking
  BY DEF Index!NoDoc, Index!Idle, Entry, Seeking
<1>3. IndexTyped /\ 1 \in Index!Indexes
  BY <1>1, <1>2, HomeAssumption DEF IndexTyped, Index!Indexes, Index!IndexAssumption
<1>4. \A n \in Index!Indexes, d \in Docs : Meant(d, index[n][d])
  BY <1>1, <1>2 DEF Meant
<1>5. \A p \in Processes : Searcher(p)
  <2>1. \A p \in Processes : search[p].pc = "idle" /\ \A d \in Docs : search[p].found[d] = 0
    BY <1>1 DEF Index!Idle
  <2> SUFFICES ASSUME NEW p \in Processes PROVE Searcher(p)
    OBVIOUS
  <2>2. \A d \in Docs : search[p].found[d] <= writes
    BY <1>1, <2>1
  <2> QED BY <2>1, <2>2 DEF Searcher
<1> QED BY <1>1, <1>3, <1>4, <1>5 DEF IndexInv

(* A step of one process that writes no file and no row.                     *)
LEMMA SeekStep ==
  ASSUME IndexInv, NEW p \in Processes, UNCHANGED <<corpus, index, writes>>,
         live' \in Index!Indexes, NEW m \in Seeking, search' = [search EXCEPT ![p] = m], Searcher(p)'
  PROVE  IndexInv'
<1>1. IndexTyped'
  BY DEF IndexInv, IndexTyped
<1>2. \A d, doc : Meant(d, doc)' <=> Meant(d, doc)
  BY DEF Meant
<1>3. ASSUME NEW q \in Processes, q # p PROVE Searcher(q)'
  <2>1. search'[q] = search[q] /\ Searcher(q)
    BY <1>3 DEF IndexInv, IndexTyped
  <2> QED BY <1>2, <2>1 DEF Searcher, Meant
<1>4. \A n \in Index!Indexes, d \in Docs : Meant(d, index[n][d])'
  BY DEF IndexInv, Meant
<1> QED BY <1>1, <1>3, <1>4 DEF IndexInv

LEMMA OpenIndexKeeps ==
  ASSUME IndexInv, NEW p \in Processes, Index!OpenIndex(p) \/ Index!Rebuild(p) \/ Index!Reopen(p)
  PROVE  IndexInv'
<1>1. PICK n \in Index!Indexes, b \in BOOLEAN, pc \in {"scan", "refresh"} :
        search' = [search EXCEPT ![p] = [@ EXCEPT !.pc = pc, !.of = n, !.rebuild = b]] /\ live' \in Index!Indexes
  <2>1. search \in [Processes -> Seeking] /\ live \in Index!Indexes /\ search[p].rebuild \in BOOLEAN
    BY DEF IndexInv, IndexTyped, Seeking
  <2>2. live < MaxRebuilds + 1 => live + 1 \in Index!Indexes
    BY <2>1, HomeAssumption DEF Index!Indexes, Index!IndexAssumption
  <2>3. CASE Index!OpenIndex(p)
    <3>1. search' = [search EXCEPT ![p] = [@ EXCEPT !.pc = "scan", !.of = live, !.rebuild = search[p].rebuild]]
      BY <2>1, <2>3 DEF Index!OpenIndex, Seeking
    <3> QED BY <2>1, <2>3, <3>1 DEF Index!OpenIndex, Index!SearchOnly
  <2>4. CASE Index!Rebuild(p)
    <3>1. search' = [search EXCEPT ![p] = [@ EXCEPT !.pc = "scan", !.of = live + 1, !.rebuild = TRUE]]
      BY <2>1, <2>4 DEF Index!Rebuild
    <3> QED BY <2>1, <2>2, <2>4, <3>1 DEF Index!Rebuild
  <2>5. CASE Index!Reopen(p)
    <3>1. search' = [search EXCEPT ![p] = [@ EXCEPT !.pc = "refresh", !.of = live, !.rebuild = FALSE]]
      BY <2>1, <2>5 DEF Index!Reopen, Index!Refreshed, Index!Is, Seeking
    <3> QED BY <2>1, <2>5, <3>1 DEF Index!Reopen, Index!SearchOnly
  <2> QED BY <2>3, <2>4, <2>5
<1> DEFINE m == [search[p] EXCEPT !.pc = pc, !.of = n, !.rebuild = b]
<1>2. m \in Seeking /\ search'[p] = m /\ m.found = search[p].found /\ m.of = n /\ m.pc = pc
  <2>1. n \in Nat /\ search[p] \in Seeking
    BY HomeAssumption DEF IndexInv, IndexTyped, Index!Indexes, Index!IndexAssumption
  <2> QED BY <1>1, <2>1 DEF IndexInv, IndexTyped, Seeking
<1>3. UNCHANGED <<corpus, index, writes>>
  BY DEF Index!OpenIndex, Index!Rebuild, Index!Reopen, Index!SearchOnly
<1>4. Searcher(p)'
  <2> HIDE DEF m
  <2> QED BY <1>1, <1>2, <1>3 DEF Searcher, IndexInv
<1>5. search' = [search EXCEPT ![p] = m]
  BY <1>1
<1> HIDE DEF m
<1> QED BY <1>1, <1>2, <1>3, <1>4, <1>5, SeekStep

LEMMA ScanKeeps == ASSUME IndexInv, NEW p \in Processes, Index!Scan(p) PROVE IndexInv'
<1> DEFINE m == [search[p] EXCEPT !.found = corpus, !.pc = "known"]
<1>1. UNCHANGED <<corpus, index, live, writes>> /\ search' = [search EXCEPT ![p] = m] /\ search[p].pc = "scan"
  BY DEF Index!Scan, Index!SearchOnly, Index!Is, IndexInv, IndexTyped
<1>2. m \in Seeking /\ search'[p] = m /\ m.found = corpus /\ m.of = search[p].of /\ m.pc = "known"
  BY <1>1 DEF IndexInv, IndexTyped, Seeking
<1> HIDE DEF m
<1>3. Searcher(p)'
  BY <1>1, <1>2 DEF Searcher, IndexInv
<1> QED BY <1>1, <1>2, <1>3, SeekStep DEF IndexInv, IndexTyped

LEMMA KnownKeeps == ASSUME IndexInv, NEW p \in Processes, Index!Known(p) PROVE IndexInv'
<1> DEFINE todo == {d \in Docs : search[p].found[d] \notin {0, Index!Rows(p)[d].stamp}}
           gone == {d \in Docs : search[p].found[d] = 0 /\ Index!Rows(p)[d] # Index!NoDoc}
           m == [search[p] EXCEPT !.todo = todo, !.gone = gone, !.pc = "refresh"]
<1>1. UNCHANGED <<corpus, index, live, writes>> /\ search' = [search EXCEPT ![p] = m] /\ search[p].pc = "known"
  BY DEF Index!Known, Index!SearchOnly, Index!Is, IndexInv, IndexTyped
<1>2. todo \in SUBSET Docs /\ gone \in SUBSET Docs
  OBVIOUS
<1> HIDE DEF todo, gone
<1>3. m \in Seeking /\ search'[p] = m /\ m.found = search[p].found /\ m.of = search[p].of /\ m.pc = "refresh"
  BY <1>1, <1>2 DEF IndexInv, IndexTyped, Seeking
<1> HIDE DEF m
<1>4. Searcher(p)'
  BY <1>1, <1>3 DEF Searcher, IndexInv
<1> QED BY <1>1, <1>3, <1>4, SeekStep DEF IndexInv, IndexTyped

(* A command that is over.                                                   *)
LEMMA SearchEnds ==
  ASSUME IndexInv, NEW p \in Processes, UNCHANGED <<corpus, index, live, writes>>,
         search' = [search EXCEPT ![p] = Index!Idle]
  PROVE  IndexInv'
<1>1. Index!Idle \in Seeking /\ search'[p] = Index!Idle
  BY DEF IndexInv, IndexTyped, Index!Idle, Index!NoDoc, Seeking, Entry
<1>2. Searcher(p)'
  BY <1>1 DEF Searcher, Index!Idle, IndexInv, IndexTyped
<1> QED BY <1>1, <1>2, SeekStep DEF IndexInv, IndexTyped

LEMMA ReadFileKeeps == ASSUME IndexInv, NEW p \in Processes, Index!ReadFile(p) PROVE IndexInv'
<1>0. UNCHANGED <<corpus, index, live, writes>> /\ search[p].pc = "refresh"
  BY DEF Index!ReadFile, Index!SearchOnly, Index!Is
<1>1. PICK d \in search[p].todo :
        IF corpus[d] = 0
        THEN search' = [search EXCEPT ![p] = Index!Idle]
        ELSE search' = [search EXCEPT
               ![p].pc = "index", ![p].todo = @ \ {d},
               ![p].doc = [path |-> d, stamp |-> search[p].found[d], text |-> corpus[d]]]
  BY DEF Index!ReadFile
<1>2. CASE corpus[d] = 0
  BY <1>0, <1>1, <1>2, SearchEnds
<1>3. CASE corpus[d] # 0
  <2> DEFINE doc == [path |-> d, stamp |-> search[p].found[d], text |-> corpus[d]]
             m == [search[p] EXCEPT !.pc = "index", !.todo = search[p].todo \ {d}, !.doc = doc]
  <2>0. d \in Docs /\ search[p] \in Seeking
    BY DEF IndexInv, IndexTyped, Seeking
  <2>1. doc \in [path : Docs, stamp : Nat, text : Nat] /\ Meant(d, doc) /\ doc.path = d
    BY <1>1, <2>0 DEF IndexInv, IndexTyped, Seeking, Meant, Searcher
  <2>2. search' = [search EXCEPT ![p] = m]
    BY <1>1, <1>3 DEF IndexInv, IndexTyped
  <2> HIDE DEF doc
  <2>3. m \in Seeking /\ search'[p] = m /\ m.found = search[p].found /\ m.of = search[p].of /\ m.doc = doc
        /\ m.pc = "index"
    BY <2>0, <2>1, <2>2 DEF IndexInv, IndexTyped, Seeking
  <2> HIDE DEF m
  <2>4. Searcher(p)'
    BY <1>0, <2>1, <2>3 DEF Searcher, IndexInv, Meant
  <2> QED BY <1>0, <2>2, <2>3, <2>4, SeekStep DEF IndexInv, IndexTyped
<1> QED BY <1>2, <1>3

LEMMA RowStep ==
  ASSUME IndexInv, NEW p \in Processes, UNCHANGED <<corpus, live, writes>>,
         NEW n \in Index!Indexes, NEW d \in Docs, NEW e \in Entry, Meant(d, e),
         index' = [index EXCEPT ![n][d] = e], NEW m \in Seeking, search' = [search EXCEPT ![p] = m], Searcher(p)'
  PROVE  IndexInv'
<1>1. IndexTyped'
  BY DEF IndexInv, IndexTyped
<1>2. ASSUME NEW q \in Processes, q # p PROVE Searcher(q)'
  <2>1. search'[q] = search[q] /\ Searcher(q)
    BY <1>2 DEF IndexInv, IndexTyped
  <2> QED BY <2>1 DEF Searcher, Meant
<1>3. ASSUME NEW k \in Index!Indexes, NEW c \in Docs PROVE Meant(c, index[k][c])'
  <2>1. index'[k][c] = IF k = n /\ c = d THEN e ELSE index[k][c]
    BY DEF IndexInv, IndexTyped
  <2> QED BY <2>1 DEF IndexInv, Meant
<1> QED BY <1>1, <1>2, <1>3 DEF IndexInv

LEMMA IndexFileKeeps == ASSUME IndexInv, NEW p \in Processes, Index!IndexFile(p) PROVE IndexInv'
<1> DEFINE doc == search[p].doc
           e == [stamp |-> doc.stamp, text |-> doc.text]
           m == [search[p] EXCEPT !.pc = "refresh", !.doc = Index!NoDoc]
<1>1. /\ UNCHANGED <<corpus, live, writes>> /\ search[p].pc = "index"
      /\ index' = [index EXCEPT ![search[p].of][doc.path] = e] /\ search' = [search EXCEPT ![p] = m]
  BY DEF Index!IndexFile, Index!Is, IndexInv, IndexTyped
<1>2. search[p].of \in Index!Indexes /\ doc.path \in Docs /\ e \in Entry /\ Meant(doc.path, e)
  BY <1>1 DEF IndexInv, Searcher, Entry, Meant
<1>3. m \in Seeking /\ search'[p] = m /\ m.found = search[p].found /\ m.of = search[p].of /\ m.pc = "refresh"
  BY <1>1 DEF IndexInv, IndexTyped, Seeking, Entry, Index!NoDoc
<1> HIDE DEF m, e
<1>4. Searcher(p)'
  BY <1>1, <1>3 DEF Searcher, IndexInv
<1> QED BY <1>1, <1>2, <1>3, <1>4, RowStep

LEMMA DeleteDocKeeps == ASSUME IndexInv, NEW p \in Processes, Index!DeleteDoc(p) PROVE IndexInv'
<1>1. PICK d \in search[p].gone :
        /\ index' = [index EXCEPT ![search[p].of][d] = Index!NoDoc]
        /\ search' = [search EXCEPT ![p].gone = @ \ {d}]
  BY DEF Index!DeleteDoc
<1> DEFINE m == [search[p] EXCEPT !.gone = search[p].gone \ {d}]
<1>2. UNCHANGED <<corpus, live, writes>> /\ search[p].pc = "refresh" /\ search' = [search EXCEPT ![p] = m]
  BY <1>1 DEF Index!DeleteDoc, Index!Is, IndexInv, IndexTyped
<1>3. search[p].of \in Index!Indexes /\ d \in Docs /\ Index!NoDoc \in Entry /\ Meant(d, Index!NoDoc)
  BY <1>1, <1>2 DEF IndexInv, IndexTyped, Seeking, Searcher, Entry, Meant, Index!NoDoc
<1>4. m \in Seeking /\ search'[p] = m /\ m.found = search[p].found /\ m.of = search[p].of /\ m.pc = "refresh"
  BY <1>2 DEF IndexInv, IndexTyped, Seeking
<1> HIDE DEF m
<1>5. Searcher(p)'
  BY <1>2, <1>4 DEF Searcher, IndexInv
<1> QED BY <1>1, <1>2, <1>3, <1>4, <1>5, RowStep

LEMMA WriteKeeps == ASSUME IndexInv, Index!Write PROVE IndexInv'
<1>1. UNCHANGED <<index, live, search>> /\ writes' = writes + 1 /\ writes \in Nat
  BY DEF Index!Write, IndexInv, IndexTyped
<1>2. PICK d \in Docs : \E v \in {0, writes + 1} : corpus' = [corpus EXCEPT ![d] = v]
  BY DEF Index!Write
<1>3. \A c \in Docs : corpus'[c] \in {0, writes + 1, corpus[c]} /\ corpus'[c] \in Nat /\ corpus'[c] <= writes'
  BY <1>1, <1>2 DEF IndexInv, IndexTyped
<1>4. IndexTyped'
  BY <1>1, <1>2 DEF IndexInv, IndexTyped
<1>5. ASSUME NEW c \in Docs, NEW doc, doc.stamp \in Nat, Meant(c, doc) PROVE Meant(c, doc)'
  BY <1>1, <1>3, <1>5 DEF Meant
<1>6. ASSUME NEW p \in Processes PROVE Searcher(p)'
  <2>1. Searcher(p) /\ search[p] \in Seeking /\ search'[p] = search[p]
    BY <1>1 DEF IndexInv, IndexTyped
  <2>2. \A c \in Docs : search[p].found[c] <= writes'
    BY <1>1, <2>1 DEF Searcher, Seeking
  <2> QED BY <1>5, <2>1, <2>2 DEF Searcher
<1>7. \A n \in Index!Indexes, c \in Docs : Meant(c, index[n][c])'
  BY <1>1, <1>5 DEF IndexInv, IndexTyped, Entry
<1> QED BY <1>3, <1>4, <1>6, <1>7 DEF IndexInv

LEMMA IndexStepKeeps == ASSUME IndexInv, [Index!IndexNext]_indexVars PROVE IndexInv'
<1>1. CASE UNCHANGED indexVars
  BY <1>1 DEF indexVars, IndexInv, IndexTyped, Searcher, Meant
<1>2. ASSUME NEW p \in Processes, Index!Answer(p) \/ Index!Crash(p) PROVE IndexInv'
  BY <1>2, SearchEnds DEF Index!Answer, Index!Crash, Index!SearchOnly
<1>3. CASE Index!IndexNext
  BY <1>2, <1>3, WriteKeeps, OpenIndexKeeps, ScanKeeps, KnownKeeps, ReadFileKeeps, IndexFileKeeps, DeleteDocKeeps
     DEF Index!IndexNext
<1> QED BY <1>1, <1>3

(* No row of the search index hides a file, however many queries bring it up *)
(* to date at the same time and whenever its files are written               *)
(* (index.go:146).                                                           *)
THEOREM StampMeansTextAlways == HomeSpec => []StampMeansText
<1> DEFINE Inv == part = "index" => IndexInv
<1>1. HomeInit => Inv
  BY IndexInitHolds
<1>2. Inv /\ [HomeNext]_homeVars => Inv'
  BY StepsApart, IndexStepKeeps
<1>3. Inv => StampMeansText
  BY DEF IndexInv, Meant, StampMeansText, Index!StampMeansText
<1> QED BY <1>1, <1>2, <1>3, PTL DEF HomeSpec

-----------------------------------------------------------------------------
(* HandRuntime.  An installation has the lock and a directory of its own,    *)
(* and what is selected, or in use, was published.                           *)
Bundled ==
    [at : {"none", "staging", "published", "removed"}, of : RuntimeIDs \cup {Runtime!Nobody},
     has : [Components -> {"absent", "good", "bad"}], manifest : BOOLEAN]

PublishingPcs == {"manifest", "validate", "select"}
InstallingPcs == {"recheck", "install", "discard"} \cup PublishingPcs

Installing ==
    [pc : {"idle", "lock", "using"} \cup InstallingPcs, id : RuntimeIDs \cup {Runtime!Nobody},
     bundle : Runtime!Bundles \cup {0}]

RuntimeTyped ==
    /\ bundle \in [Runtime!Bundles -> Bundled]
    /\ current \in [id : RuntimeIDs \cup {Runtime!Nobody}, bundle : Runtime!Bundles \cup {0}]
    /\ selection \in Processes \cup {Runtime!Nobody}
    /\ proc \in [Processes -> Installing]

Complete(n) ==
    /\ n \in Runtime!Bundles
    /\ bundle[n].at = "published"
    /\ \A c \in Components : bundle[n].has[c] # "absent"

Installer(p) ==
    LET n == proc[p].bundle IN
    /\ proc[p].pc \in InstallingPcs => selection = p
    /\ proc[p].pc \in {"install", "discard"} => n \in Runtime!Bundles /\ bundle[n].at = "staging"
    /\ proc[p].pc \in {"install"} \cup PublishingPcs => bundle[n].of = proc[p].id
    /\ proc[p].pc \in {"using"} \cup PublishingPcs => Complete(n)
    /\ proc[p].pc \in {"using", "validate", "select"} => bundle[n].manifest

RuntimeInv ==
    /\ RuntimeTyped
    /\ \A p \in Processes : Installer(p)
    /\ current # Runtime!NoCurrent =>
         Complete(current.bundle) /\ bundle[current.bundle].manifest
           /\ bundle[current.bundle].of = current.id

LEMMA RuntimeInitHolds == HomeInit => RuntimeInv
<1> SUFFICES ASSUME HomeInit PROVE RuntimeInv
  OBVIOUS
<1>1. /\ bundle = [n \in Runtime!Bundles |-> Runtime!NoBundle] /\ current = Runtime!NoCurrent
      /\ selection = Runtime!Nobody /\ proc = [p \in Processes |-> Runtime!Idle]
  BY DEF HomeInit, Runtime!RuntimeInit
<1>2. Runtime!NoBundle \in Bundled /\ Runtime!Idle \in Installing
  BY DEF Bundled, Installing, Runtime!NoBundle, Runtime!Idle
<1>3. RuntimeTyped
  BY <1>1, <1>2 DEF RuntimeTyped, Runtime!NoCurrent
<1>4. \A p \in Processes : Installer(p)
  BY <1>1 DEF Installer, InstallingPcs, PublishingPcs, Runtime!Idle
<1> QED BY <1>1, <1>3, <1>4 DEF RuntimeInv

(* A step of one process that leaves the bundles alone.                      *)
LEMMA ProcStep ==
  ASSUME RuntimeInv, NEW p \in Processes, UNCHANGED <<bundle, current>>,
         NEW m \in Installing, proc' = [proc EXCEPT ![p] = m],
         selection' \in Processes \cup {Runtime!Nobody},
         \A q \in Processes \ {p} : selection = q => selection' = q,
         Installer(p)'
  PROVE  RuntimeInv'
<1>1. RuntimeTyped'
  BY DEF RuntimeInv, RuntimeTyped
<1>2. \A n : Complete(n)' <=> Complete(n)
  BY DEF Complete
<1>3. ASSUME NEW q \in Processes, q # p PROVE Installer(q)'
  <2>1. proc'[q] = proc[q] /\ Installer(q)
    BY <1>3 DEF RuntimeInv, RuntimeTyped
  <2> QED BY <1>2, <1>3, <2>1 DEF Installer
<1> QED BY <1>1, <1>2, <1>3 DEF RuntimeInv

(* A step of the process that installs, in its own directory.                *)
LEMMA BundleStep ==
  ASSUME RuntimeInv, NEW p \in Processes, selection = p, UNCHANGED current,
         NEW n \in Runtime!Bundles,
         Complete(n) => /\ Complete(n)' /\ bundle'[n].of = bundle[n].of
                        /\ bundle[n].manifest => bundle'[n].manifest,
         NEW b \in Bundled, bundle' = [bundle EXCEPT ![n] = b],
         NEW m \in Installing, proc' = [proc EXCEPT ![p] = m],
         selection' \in {p, Runtime!Nobody},
         Installer(p)'
  PROVE  RuntimeInv'
<1>1. RuntimeTyped'
  BY DEF RuntimeInv, RuntimeTyped
<1>2. \A k : Complete(k) => Complete(k)' /\ bundle'[k].of = bundle[k].of
                              /\ (bundle[k].manifest => bundle'[k].manifest)
  BY DEF Complete, RuntimeInv, RuntimeTyped
<1>3. ASSUME NEW q \in Processes, q # p PROVE Installer(q)'
  <2>1. proc'[q] = proc[q] /\ Installer(q)
    BY <1>3 DEF RuntimeInv, RuntimeTyped
  <2>2. proc[q].pc \notin InstallingPcs
    BY <1>3, <2>1 DEF Installer
  <2> QED BY <1>2, <2>1, <2>2 DEF Installer, InstallingPcs, PublishingPcs
<1> QED BY <1>1, <1>2, <1>3 DEF RuntimeInv

LEMMA ResolvedIsComplete ==
  ASSUME RuntimeInv, NEW id, Runtime!RuntimeFrom(current, id)
  PROVE  Complete(current.bundle) /\ current.bundle \in Runtime!Bundles
           /\ bundle[current.bundle].of = id /\ Runtime!Verified(current.bundle)
           /\ bundle[current.bundle].manifest
BY DEF RuntimeInv, Complete, Runtime!RuntimeFrom, Runtime!Verified

LEMMA SelectedKeeps ==
  ASSUME RuntimeInv, NEW p \in Processes, NEW id \in RuntimeIDs, Runtime!Selected(p, id)
  PROVE  RuntimeInv'
<1> DEFINE m == [pc |-> "using", id |-> id, bundle |-> current.bundle]
<1>1. proc' = [proc EXCEPT ![p] = m] /\ UNCHANGED <<bundle, current, selection>>
      /\ Runtime!RuntimeFrom(current, id)
  BY DEF Runtime!Selected
<1>2. m \in Installing /\ proc'[p] = m
  BY <1>1, ResolvedIsComplete DEF Installing, RuntimeInv, RuntimeTyped
<1>3. Installer(p)'
  BY <1>1, <1>2, ResolvedIsComplete DEF Installer, InstallingPcs, PublishingPcs, Complete
<1> HIDE DEF m
<1> QED BY <1>1, <1>2, <1>3, ProcStep DEF RuntimeInv, RuntimeTyped

LEMMA EnsureKeeps ==
  ASSUME RuntimeInv, NEW p \in Processes, NEW id \in RuntimeIDs, Runtime!Ensure(p, id)
  PROVE  RuntimeInv'
<1> DEFINE m == [pc |-> "lock", id |-> id, bundle |-> 0]
<1>1. proc' = [proc EXCEPT ![p] = m] /\ UNCHANGED <<bundle, current, selection>>
  BY DEF Runtime!Ensure
<1>2. m \in Installing /\ proc'[p] = m
  BY <1>1 DEF Installing, RuntimeInv, RuntimeTyped
<1>3. Installer(p)'
  BY <1>1, <1>2 DEF Installer, InstallingPcs, PublishingPcs
<1> HIDE DEF m
<1> QED BY <1>1, <1>2, <1>3, ProcStep DEF RuntimeInv, RuntimeTyped

LEMMA LockSelectionKeeps == ASSUME RuntimeInv, NEW p \in Processes, Runtime!LockSelection(p) PROVE RuntimeInv'
<1> DEFINE m == [proc[p] EXCEPT !.pc = "recheck"]
<1>0. Runtime!Nobody \notin Processes
  BY HomeAssumption DEF Runtime!RuntimeAssumption
<1>1. proc' = [proc EXCEPT ![p] = m] /\ UNCHANGED <<bundle, current>> /\ selection = Runtime!Nobody
      /\ selection' = p
  BY DEF Runtime!LockSelection, RuntimeInv, RuntimeTyped
<1>2. m \in Installing /\ proc'[p] = m /\ m.pc = "recheck"
  BY <1>1 DEF Installing, InstallingPcs, RuntimeInv, RuntimeTyped
<1> HIDE DEF m
<1>3. Installer(p)'
  BY <1>1, <1>2 DEF Installer, InstallingPcs, PublishingPcs
<1> QED BY <1>0, <1>1, <1>2, <1>3, ProcStep

(* What every step of an installation starts from.                           *)
LEMMA InstallerHas ==
  ASSUME RuntimeInv, NEW p \in Processes, proc[p].pc \in InstallingPcs
  PROVE  /\ selection = p /\ Installer(p) /\ RuntimeTyped /\ proc[p] \in Installing
         /\ proc[p].pc # "recheck" => proc[p].bundle \in Runtime!Bundles /\ bundle[proc[p].bundle] \in Bundled
BY DEF RuntimeInv, RuntimeTyped, Installer, InstallingPcs, Complete

LEMMA RecheckKeeps == ASSUME RuntimeInv, NEW p \in Processes, Runtime!Recheck(p) PROVE RuntimeInv'
<1>0. /\ proc[p].pc = "recheck" /\ selection = p /\ RuntimeTyped /\ UNCHANGED current
      /\ proc[p] \in Installing
  BY InstallerHas DEF Runtime!Recheck, Runtime!Is, InstallingPcs
<1>1. CASE Runtime!RuntimeFrom(current, proc[p].id)
  <2> DEFINE m == [proc[p] EXCEPT !.pc = "using", !.bundle = current.bundle]
  <2>1. proc' = [proc EXCEPT ![p] = m] /\ UNCHANGED bundle /\ selection' = Runtime!Nobody
    BY <1>0, <1>1 DEF Runtime!Recheck, RuntimeTyped
  <2>2. m \in Installing /\ proc'[p] = m /\ m.pc = "using" /\ m.bundle = current.bundle
    BY <1>0, <2>1 DEF Installing, RuntimeTyped
  <2> HIDE DEF m
  <2>3. Installer(p)'
    BY <1>0, <1>1, <2>1, <2>2, ResolvedIsComplete DEF Installer, InstallingPcs, PublishingPcs, Complete
  <2> QED BY <1>0, <2>1, <2>2, <2>3, ProcStep
<1>2. CASE ~Runtime!RuntimeFrom(current, proc[p].id)
  <2> DEFINE b == [Runtime!NoBundle EXCEPT !.at = "staging", !.of = proc[p].id]
  <2>1. PICK n \in Runtime!Bundles :
          /\ bundle[n].at = "none" /\ bundle' = [bundle EXCEPT ![n] = b]
          /\ proc' = [proc EXCEPT ![p].pc = "install", ![p].bundle = n]
    BY <1>2 DEF Runtime!Recheck
  <2> DEFINE m == [proc[p] EXCEPT !.pc = "install", !.bundle = n]
  <2>2. proc' = [proc EXCEPT ![p] = m] /\ selection' = selection
    BY <1>0, <1>2, <2>1 DEF Runtime!Recheck, RuntimeTyped
  <2>3. m \in Installing /\ proc'[p] = m /\ m.pc = "install" /\ m.bundle = n /\ m.id = proc[p].id
    BY <1>0, <2>2 DEF Installing, RuntimeTyped, InstallingPcs
  <2>4. b \in Bundled /\ b.at = "staging" /\ b.of = proc[p].id
    BY <1>0 DEF Bundled, Runtime!NoBundle, Installing
  <2>5. bundle'[n] = b
    BY <1>0, <2>1 DEF RuntimeTyped
  <2> HIDE DEF m, b
  <2>6. Installer(p)'
    BY <1>0, <2>2, <2>3, <2>4, <2>5 DEF Installer, InstallingPcs, PublishingPcs
  <2>7. ~Complete(n)
    BY <2>1 DEF Complete
  <2> QED BY <1>0, <2>1, <2>2, <2>3, <2>4, <2>6, <2>7, BundleStep
<1> QED BY <1>1, <1>2

(* The files of a component, whole or in part.                               *)
LEMMA ComponentKeeps ==
  ASSUME RuntimeInv, NEW p \in Processes, Runtime!InstallComponent(p) \/ Runtime!InstallFails(p) PROVE RuntimeInv'
<1> PICK n : n = proc[p].bundle
  OBVIOUS
<1>0. /\ proc[p].pc = "install" /\ selection = p /\ RuntimeTyped /\ UNCHANGED <<current, selection>>
      /\ proc[p] \in Installing /\ n \in Runtime!Bundles /\ bundle[n] \in Bundled /\ Installer(p)
  BY InstallerHas DEF Runtime!InstallComponent, Runtime!InstallFails, Runtime!Is, InstallingPcs
<1>1. PICK c \in Components, s \in {"good", "bad"} : bundle' = [bundle EXCEPT ![n].has[c] = s]
  BY DEF Runtime!InstallComponent, Runtime!InstallFails
<1> DEFINE b == [bundle[n] EXCEPT !.has[c] = s]
<1>2. bundle' = [bundle EXCEPT ![n] = b] /\ bundle'[n] = b
  BY <1>0, <1>1 DEF RuntimeTyped
<1>3. b \in Bundled /\ b.at = bundle[n].at /\ b.of = bundle[n].of
  BY <1>0 DEF Bundled
<1>4. PICK pc \in {"install", "discard"} : proc' = [proc EXCEPT ![p] = [@ EXCEPT !.pc = pc]]
  <2>1. CASE Runtime!InstallComponent(p)
    <3>1. proc' = [proc EXCEPT ![p] = [@ EXCEPT !.pc = "install"]]
      BY <1>0, <2>1 DEF Runtime!InstallComponent, RuntimeTyped, Installing
    <3> QED BY <3>1
  <2>2. CASE Runtime!InstallFails(p)
    BY <1>0, <2>2 DEF Runtime!InstallFails, RuntimeTyped
  <2> QED BY <2>1, <2>2
<1> DEFINE m == [proc[p] EXCEPT !.pc = pc]
<1>5. proc' = [proc EXCEPT ![p] = m] /\ m \in Installing /\ proc'[p] = m /\ m.pc = pc /\ m.bundle = n
      /\ m.id = proc[p].id
  BY <1>0, <1>4 DEF RuntimeTyped, Installing, InstallingPcs
<1> HIDE DEF m, b
<1>6. Installer(p)'
  BY <1>0, <1>2, <1>3, <1>5 DEF Installer, InstallingPcs, PublishingPcs
<1>7. ~Complete(n)
  BY <1>0 DEF Installer, Complete
<1> QED BY <1>0, <1>2, <1>3, <1>5, <1>6, <1>7, BundleStep

LEMMA DiscardKeeps == ASSUME RuntimeInv, NEW p \in Processes, Runtime!Discard(p) PROVE RuntimeInv'
<1> PICK n : n = proc[p].bundle
  OBVIOUS
<1>0. /\ proc[p].pc = "discard" /\ selection = p /\ RuntimeTyped /\ UNCHANGED current
      /\ n \in Runtime!Bundles /\ bundle[n] \in Bundled /\ Installer(p)
  BY InstallerHas DEF Runtime!Discard, Runtime!Is, InstallingPcs
<1> DEFINE b == [bundle[n] EXCEPT !.at = "removed"]
<1>1. bundle' = [bundle EXCEPT ![n] = b] /\ b \in Bundled
  BY <1>0 DEF Runtime!Discard, RuntimeTyped, Bundled
<1>2. proc' = [proc EXCEPT ![p] = Runtime!Idle] /\ selection' = Runtime!Nobody
  BY DEF Runtime!Discard
<1>3. Runtime!Idle \in Installing /\ proc'[p] = Runtime!Idle
  BY <1>0, <1>2 DEF Runtime!Idle, Installing, RuntimeTyped
<1>4. Installer(p)'
  BY <1>3 DEF Installer, InstallingPcs, PublishingPcs, Runtime!Idle
<1>5. ~Complete(n)
  BY <1>0 DEF Installer, Complete
<1> HIDE DEF b
<1> QED BY <1>0, <1>1, <1>2, <1>3, <1>4, <1>5, BundleStep

LEMMA PublishBundleKeeps == ASSUME RuntimeInv, NEW p \in Processes, Runtime!PublishBundle(p) PROVE RuntimeInv'
<1> PICK n : n = proc[p].bundle
  OBVIOUS
<1>0. /\ proc[p].pc = "install" /\ selection = p /\ RuntimeTyped /\ UNCHANGED <<current, selection>>
      /\ proc[p] \in Installing /\ n \in Runtime!Bundles /\ bundle[n] \in Bundled /\ Installer(p)
      /\ \A c \in Components : bundle[n].has[c] # "absent"
  BY InstallerHas DEF Runtime!PublishBundle, Runtime!Is, Runtime!Mine, InstallingPcs
<1> DEFINE b == [bundle[n] EXCEPT !.at = "published"]
           m == [proc[p] EXCEPT !.pc = "manifest"]
<1>1. bundle' = [bundle EXCEPT ![n] = b] /\ b \in Bundled /\ bundle'[n] = b /\ b.at = "published"
      /\ b.has = bundle[n].has /\ b.of = bundle[n].of
  BY <1>0 DEF Runtime!PublishBundle, RuntimeTyped, Bundled
<1>2. proc' = [proc EXCEPT ![p] = m] /\ m \in Installing /\ proc'[p] = m /\ m.pc = "manifest" /\ m.bundle = n
      /\ m.id = proc[p].id
  BY <1>0 DEF Runtime!PublishBundle, RuntimeTyped, Installing, InstallingPcs, PublishingPcs
<1> HIDE DEF m, b
<1>3. Installer(p)'
  BY <1>0, <1>1, <1>2 DEF Installer, InstallingPcs, PublishingPcs, Complete
<1>4. ~Complete(n)
  BY <1>0 DEF Installer, Complete
<1> QED BY <1>0, <1>1, <1>2, <1>3, <1>4, BundleStep

LEMMA PublishManifestKeeps == ASSUME RuntimeInv, NEW p \in Processes, Runtime!PublishManifest(p) PROVE RuntimeInv'
<1> PICK n : n = proc[p].bundle
  OBVIOUS
<1>0. /\ proc[p].pc = "manifest" /\ selection = p /\ RuntimeTyped /\ UNCHANGED <<current, selection>>
      /\ proc[p] \in Installing /\ n \in Runtime!Bundles /\ bundle[n] \in Bundled /\ Installer(p)
  BY InstallerHas DEF Runtime!PublishManifest, Runtime!Is, InstallingPcs, PublishingPcs
<1> DEFINE b == [bundle[n] EXCEPT !.manifest = TRUE]
           m == [proc[p] EXCEPT !.pc = "validate"]
<1>1. bundle' = [bundle EXCEPT ![n] = b] /\ b \in Bundled /\ bundle'[n] = b /\ b.at = bundle[n].at
      /\ b.has = bundle[n].has /\ b.of = bundle[n].of /\ b.manifest
  BY <1>0 DEF Runtime!PublishManifest, RuntimeTyped, Bundled
<1>2. proc' = [proc EXCEPT ![p] = m] /\ m \in Installing /\ proc'[p] = m /\ m.pc = "validate" /\ m.bundle = n
      /\ m.id = proc[p].id
  BY <1>0 DEF Runtime!PublishManifest, RuntimeTyped, Installing, InstallingPcs, PublishingPcs
<1> HIDE DEF m, b
<1>3. Complete(n)'
  BY <1>0, <1>1 DEF Installer, PublishingPcs, Complete
<1>4. Installer(p)'
  BY <1>0, <1>1, <1>2, <1>3 DEF Installer, InstallingPcs, PublishingPcs
<1> QED BY <1>0, <1>1, <1>2, <1>3, <1>4, BundleStep

LEMMA ValidateKeeps == ASSUME RuntimeInv, NEW p \in Processes, Runtime!Validate(p) PROVE RuntimeInv'
<1>0. /\ proc[p].pc = "validate" /\ selection = p /\ RuntimeTyped /\ UNCHANGED <<bundle, current>>
      /\ proc[p] \in Installing /\ Installer(p)
  BY InstallerHas DEF Runtime!Validate, Runtime!Is, InstallingPcs, PublishingPcs
<1>1. CASE Runtime!Verified(proc[p].bundle)
  <2> DEFINE m == [proc[p] EXCEPT !.pc = "select"]
  <2>1. proc' = [proc EXCEPT ![p] = m] /\ m \in Installing /\ proc'[p] = m /\ m.pc = "select"
        /\ m.bundle = proc[p].bundle /\ m.id = proc[p].id /\ selection' = selection
    BY <1>0, <1>1 DEF Runtime!Validate, RuntimeTyped, Installing, InstallingPcs, PublishingPcs
  <2> HIDE DEF m
  <2>2. Installer(p)'
    BY <1>0, <2>1 DEF Installer, InstallingPcs, PublishingPcs, Complete
  <2> QED BY <1>0, <2>1, <2>2, ProcStep
<1>2. CASE ~Runtime!Verified(proc[p].bundle)
  <2>1. proc' = [proc EXCEPT ![p] = Runtime!Idle] /\ selection' = Runtime!Nobody
    BY <1>2 DEF Runtime!Validate
  <2>2. Runtime!Idle \in Installing /\ proc'[p] = Runtime!Idle
    BY <1>0, <2>1 DEF Runtime!Idle, Installing, RuntimeTyped
  <2>3. Installer(p)'
    BY <2>2 DEF Installer, InstallingPcs, PublishingPcs, Runtime!Idle
  <2> QED BY <1>0, <2>1, <2>2, <2>3, ProcStep
<1> QED BY <1>1, <1>2

LEMMA SelectKeeps == ASSUME RuntimeInv, NEW p \in Processes, Runtime!Select(p) PROVE RuntimeInv'
<1> PICK n : n = proc[p].bundle
  OBVIOUS
<1>0. /\ proc[p].pc = "select" /\ selection = p /\ RuntimeTyped /\ UNCHANGED bundle
      /\ proc[p] \in Installing /\ Installer(p) /\ n \in Runtime!Bundles
  BY InstallerHas DEF Runtime!Select, Runtime!Is, InstallingPcs, PublishingPcs
<1> DEFINE m == [proc[p] EXCEPT !.pc = "using"]
<1>1. proc' = [proc EXCEPT ![p] = m] /\ m \in Installing /\ proc'[p] = m /\ m.pc = "using" /\ m.bundle = n
      /\ selection' = Runtime!Nobody
  BY <1>0 DEF Runtime!Select, RuntimeTyped, Installing
<1> HIDE DEF m
<1>2. Complete(n) /\ bundle[n].of = proc[p].id /\ bundle[n].manifest
  BY <1>0 DEF Installer, PublishingPcs
<1>3. current' = [id |-> proc[p].id, bundle |-> n]
  BY DEF Runtime!Select
<1>4. \A k : Complete(k)' <=> Complete(k)
  BY <1>0 DEF Complete
<1>5. RuntimeTyped'
  BY <1>0, <1>1, <1>3 DEF RuntimeTyped, Installing
<1>6. ASSUME NEW q \in Processes PROVE Installer(q)'
  <2>1. CASE q = p
    BY <1>0, <1>1, <1>2, <1>4, <2>1 DEF Installer, InstallingPcs, PublishingPcs
  <2>2. CASE q # p
    <3>1. proc'[q] = proc[q] /\ Installer(q)
      BY <1>0, <1>1, <2>2 DEF RuntimeInv, RuntimeTyped
    <3>2. proc[q].pc \notin InstallingPcs
      BY <1>0, <2>2, <3>1 DEF Installer
    <3> QED BY <1>0, <1>4, <3>1, <3>2 DEF Installer, InstallingPcs
  <2> QED BY <2>1, <2>2
<1> QED BY <1>0, <1>2, <1>3, <1>4, <1>5, <1>6 DEF RuntimeInv

LEMMA RuntimeLeavesKeeps ==
  ASSUME RuntimeInv, NEW p \in Processes, Runtime!Done(p) \/ Runtime!Crash(p) PROVE RuntimeInv'
<1>1. /\ proc' = [proc EXCEPT ![p] = Runtime!Idle] /\ UNCHANGED <<bundle, current>>
      /\ \/ selection' = selection
         \/ selection = p /\ selection' = Runtime!Nobody
  BY DEF Runtime!Done, Runtime!Crash
<1>2. Runtime!Idle \in Installing /\ proc'[p] = Runtime!Idle
  BY <1>1 DEF Runtime!Idle, Installing, RuntimeInv, RuntimeTyped
<1>3. Installer(p)'
  BY <1>2 DEF Installer, InstallingPcs, PublishingPcs, Runtime!Idle
<1> QED BY <1>1, <1>2, <1>3, ProcStep DEF RuntimeInv, RuntimeTyped

LEMMA DecayKeeps == ASSUME RuntimeInv, Runtime!Decay PROVE RuntimeInv'
<1>1. PICK n \in Runtime!Bundles, c \in Components : bundle' = [bundle EXCEPT ![n].has[c] = "bad"]
  BY DEF Runtime!Decay
<1>2. UNCHANGED <<current, selection, proc>> /\ RuntimeTyped
  BY DEF Runtime!Decay, RuntimeInv
<1>3. bundle' \in [Runtime!Bundles -> Bundled]
  BY <1>1, <1>2 DEF RuntimeTyped, Bundled
<1>4. \A k \in Runtime!Bundles :
        /\ bundle'[k].at = bundle[k].at /\ bundle'[k].of = bundle[k].of
        /\ bundle'[k].manifest = bundle[k].manifest
        /\ \A d \in Components : bundle'[k].has[d] \in {"bad", bundle[k].has[d]}
  BY <1>1, <1>2 DEF RuntimeTyped, Bundled
<1>5. \A k : Complete(k) => Complete(k)'
  BY <1>4 DEF Complete
<1>6. ASSUME NEW q \in Processes PROVE Installer(q)'
  <2>1. Installer(q) /\ proc[q] \in Installing
    BY <1>2 DEF RuntimeInv, RuntimeTyped
  <2>2. proc[q].pc \in {"install", "discard", "using"} \cup PublishingPcs => proc[q].bundle \in Runtime!Bundles
    BY <2>1 DEF Installer, Complete
  <2> QED BY <1>2, <1>4, <1>5, <2>1, <2>2 DEF Installer, PublishingPcs
<1> QED BY <1>2, <1>3, <1>4, <1>5, <1>6 DEF RuntimeInv, RuntimeTyped, Complete

LEMMA RuntimeStepKeeps == ASSUME RuntimeInv, [Runtime!RuntimeNext]_runtimeVars PROVE RuntimeInv'
<1>1. CASE UNCHANGED runtimeVars
  BY <1>1 DEF runtimeVars, RuntimeInv, RuntimeTyped, Installer, Complete
<1>2. CASE Runtime!RuntimeNext
  BY <1>2, SelectedKeeps, EnsureKeeps, LockSelectionKeeps, RecheckKeeps, ComponentKeeps, DiscardKeeps,
     PublishBundleKeeps, PublishManifestKeeps, ValidateKeeps, SelectKeeps, RuntimeLeavesKeeps, DecayKeeps
     DEF Runtime!RuntimeNext, Runtime!Installs
<1> QED BY <1>1, <1>2

LEMMA RuntimeInvAlways == HomeSpec => [](part = "runtime" => RuntimeInv)
<1> DEFINE Inv == part = "runtime" => RuntimeInv
<1>1. HomeInit => Inv
  BY RuntimeInitHolds
<1>2. Inv /\ [HomeNext]_homeVars => Inv'
  BY StepsApart, RuntimeStepKeeps
<1> QED BY <1>1, <1>2, PTL DEF HomeSpec

(* The selection never names what is not a whole bundle of its own runtime,  *)
(* wherever an installation fails or dies, and whichever builds install      *)
(* (store.go:198).                                                           *)
THEOREM SelectedIsWholeAlways == HomeSpec => []SelectedIsWhole
<1>1. (part = "runtime" => RuntimeInv) => SelectedIsWhole
  BY DEF SelectedIsWhole, Runtime!SelectedIsWhole, RuntimeInv, Complete
<1> QED BY <1>1, RuntimeInvAlways, PTL

(* Only decay touches a bundle that is in use.                               *)
LEMMA UsedStays ==
  ASSUME RuntimeInv, runtimeFaults \in Nat, Runtime!RuntimeNext, NEW n, Complete(n), bundle[n].manifest
  PROVE  bundle'[n].at = "published" /\ (runtimeFaults' = runtimeFaults => bundle'[n] = bundle[n])
<1>0. RuntimeTyped /\ n \in Runtime!Bundles /\ bundle[n].at = "published" /\ bundle[n] \in Bundled
  BY DEF RuntimeInv, RuntimeTyped, Complete
<1>1. CASE Runtime!Decay
  <2>1. runtimeFaults' # runtimeFaults
    BY <1>1 DEF Runtime!Decay, Runtime!Fault
  <2> QED BY <1>0, <1>1, <2>1 DEF Runtime!Decay, RuntimeTyped, Bundled
<1>2. ASSUME NEW p \in Processes, Runtime!Recheck(p) PROVE bundle'[n] = bundle[n]
  BY <1>0, <1>2 DEF Runtime!Recheck, RuntimeTyped
<1>3. ASSUME NEW p \in Processes,
             \/ Runtime!InstallComponent(p) \/ Runtime!InstallFails(p)
             \/ Runtime!Discard(p) \/ Runtime!PublishBundle(p)
      PROVE  bundle'[n] = bundle[n]
  <2>1. bundle[proc[p].bundle].at = "staging"
    BY <1>3 DEF Runtime!InstallComponent, Runtime!InstallFails, Runtime!Discard, Runtime!PublishBundle, Runtime!Is,
       RuntimeInv, Installer
  <2> QED BY <1>0, <1>3, <2>1 DEF Runtime!InstallComponent, Runtime!InstallFails, Runtime!Discard,
          Runtime!PublishBundle, RuntimeTyped
<1>4. ASSUME NEW p \in Processes, Runtime!PublishManifest(p) PROVE bundle'[n] = bundle[n]
  <2>1. [bundle[n] EXCEPT !.manifest = TRUE] = bundle[n]
    BY <1>0 DEF Bundled
  <2> QED BY <1>0, <1>4, <2>1 DEF Runtime!PublishManifest, RuntimeTyped
<1>5. ASSUME NEW p \in Processes,
             \/ \E id \in RuntimeIDs : Runtime!Selected(p, id) \/ Runtime!Ensure(p, id)
             \/ Runtime!LockSelection(p) \/ Runtime!Validate(p) \/ Runtime!Select(p)
             \/ Runtime!Done(p) \/ Runtime!Crash(p)
      PROVE  bundle' = bundle
  BY <1>5 DEF Runtime!Selected, Runtime!Ensure, Runtime!LockSelection, Runtime!Validate, Runtime!Select,
     Runtime!Done, Runtime!Crash
<1> QED BY <1>0, <1>1, <1>2, <1>3, <1>4, <1>5 DEF Runtime!RuntimeNext, Runtime!Installs

(* What a command starts to use is whole, and its own.                       *)
LEMMA FoundWhole ==
  ASSUME RuntimeInv, Runtime!RuntimeNext, NEW p \in Processes, proc[p].pc # "using", proc'[p].pc = "using"
  PROVE  /\ bundle[proc'[p].bundle].of = proc'[p].id
         /\ proc[p].pc = "select" \/ Runtime!Verified(proc'[p].bundle)
<1>0. RuntimeTyped
  BY DEF RuntimeInv
<1>1. ASSUME NEW q \in Processes, q # p,
             \/ \E id \in RuntimeIDs : Runtime!Selected(q, id) \/ Runtime!Ensure(q, id)
             \/ Runtime!Installs(q) \/ Runtime!InstallFails(q) \/ Runtime!Done(q) \/ Runtime!Crash(q)
      PROVE  proc'[p] = proc[p]
  BY <1>0, <1>1 DEF Runtime!Selected, Runtime!Ensure, Runtime!Installs, Runtime!InstallFails, Runtime!Done,
     Runtime!Crash, Runtime!LockSelection, Runtime!Recheck, Runtime!InstallComponent, Runtime!Discard,
     Runtime!PublishBundle, Runtime!PublishManifest, Runtime!Validate, Runtime!Select, RuntimeTyped
<1>2. ASSUME NEW id \in RuntimeIDs, Runtime!Selected(p, id)
      PROVE  bundle[proc'[p].bundle].of = proc'[p].id /\ Runtime!Verified(proc'[p].bundle)
  <2>1. proc'[p].id = id /\ proc'[p].bundle = current.bundle /\ Runtime!RuntimeFrom(current, id)
    BY <1>0, <1>2 DEF Runtime!Selected, RuntimeTyped
  <2> QED BY <2>1, ResolvedIsComplete
<1>3. ASSUME Runtime!Recheck(p)
      PROVE  bundle[proc'[p].bundle].of = proc'[p].id /\ Runtime!Verified(proc'[p].bundle)
  <2>1. Runtime!RuntimeFrom(current, proc[p].id)
    BY <1>0, <1>3 DEF Runtime!Recheck, RuntimeTyped, Installing
  <2>2. proc'[p].id = proc[p].id /\ proc'[p].bundle = current.bundle
    BY <1>0, <1>3, <2>1 DEF Runtime!Recheck, RuntimeTyped, Installing
  <2> QED BY <2>1, <2>2, ResolvedIsComplete
<1>4. ASSUME Runtime!Select(p)
      PROVE  bundle[proc'[p].bundle].of = proc'[p].id /\ proc[p].pc = "select"
  <2>1. proc[p].pc = "select" /\ proc'[p].id = proc[p].id /\ proc'[p].bundle = proc[p].bundle
    BY <1>0, <1>4 DEF Runtime!Select, Runtime!Is, RuntimeTyped, Installing
  <2> QED BY <2>1 DEF RuntimeInv, Installer, PublishingPcs
<1>5. ASSUME \/ \E id \in RuntimeIDs : Runtime!Ensure(p, id)
             \/ Runtime!LockSelection(p) \/ Runtime!InstallComponent(p) \/ Runtime!InstallFails(p)
             \/ Runtime!Discard(p) \/ Runtime!PublishBundle(p) \/ Runtime!PublishManifest(p)
             \/ Runtime!Validate(p) \/ Runtime!Done(p) \/ Runtime!Crash(p)
      PROVE  proc'[p].pc # "using"
  BY <1>0, <1>5 DEF Runtime!Ensure, Runtime!LockSelection, Runtime!InstallComponent, Runtime!InstallFails,
     Runtime!Discard, Runtime!PublishBundle, Runtime!PublishManifest, Runtime!Validate, Runtime!Done, Runtime!Crash,
     Runtime!Idle, RuntimeTyped, Installing
<1>6. CASE Runtime!Decay
  BY <1>6 DEF Runtime!Decay
<1> QED BY <1>1, <1>2, <1>3, <1>4, <1>5, <1>6 DEF Runtime!RuntimeNext, Runtime!Installs

LEMMA FaultsCounted == HomeSpec => [](runtimeFaults \in Nat)
<1>1. HomeInit => runtimeFaults \in Nat
  BY DEF HomeInit, Runtime!RuntimeInit
<1>2. runtimeFaults \in Nat /\ [HomeNext]_homeVars => (runtimeFaults \in Nat)'
  <2> SUFFICES ASSUME runtimeFaults \in Nat, [HomeNext]_homeVars PROVE runtimeFaults' \in Nat
    OBVIOUS
  <2>1. CASE UNCHANGED runtimeVars
    BY <2>1 DEF runtimeVars
  <2>2. CASE Runtime!RuntimeNext
    <3>1. runtimeFaults' \in {runtimeFaults, runtimeFaults + 1}
      BY <2>2 DEF Runtime!RuntimeNext, Runtime!Installs, Runtime!Selected, Runtime!Ensure, Runtime!LockSelection,
         Runtime!Recheck, Runtime!InstallComponent, Runtime!InstallFails, Runtime!Discard, Runtime!PublishBundle,
         Runtime!PublishManifest, Runtime!Validate, Runtime!Select, Runtime!Done, Runtime!Crash, Runtime!Decay,
         Runtime!Calm, Runtime!Fault
    <3> QED BY <3>1
  <2> QED BY <2>1, <2>2, StepsApart
<1> QED BY <1>1, <1>2, PTL DEF HomeSpec

(* A command that resolved its tools keeps them, whatever other builds       *)
(* install and select meanwhile, and what it starts to use was whole and of  *)
(* its own build (store.go:198).                                             *)
THEOREM ToolsStayAlways == HomeSpec => ToolsStay
<1> DEFINE Stay(p) ==
      proc'[p].pc = "using" =>
         IF proc[p].pc = "using"
         THEN /\ bundle'[proc[p].bundle].at = "published"
              /\ runtimeFaults' = runtimeFaults => bundle'[proc[p].bundle] = bundle[proc[p].bundle]
         ELSE /\ bundle[proc'[p].bundle].of = proc'[p].id
              /\ proc[p].pc = "select" \/ Runtime!Verified(proc'[p].bundle)
<1>1. (part = "runtime" => RuntimeInv) /\ runtimeFaults \in Nat /\ [HomeNext]_homeVars => [\A p \in Processes : Stay(p)]_runtimeVars
  <2> SUFFICES ASSUME part = "runtime" => RuntimeInv, runtimeFaults \in Nat, [HomeNext]_homeVars, ~UNCHANGED runtimeVars,
                      NEW p \in Processes
               PROVE  Stay(p)
    OBVIOUS
  <2>1. RuntimeInv /\ Runtime!RuntimeNext
    BY StepsApart
  <2>2. proc[p].pc = "using" => Complete(proc[p].bundle) /\ bundle[proc[p].bundle].manifest
    BY <2>1 DEF RuntimeInv, Installer
  <2> QED BY <2>1, <2>2, UsedStays, FoundWhole
<1> QED BY <1>1, RuntimeInvAlways, FaultsCounted, PTL DEF HomeSpec, ToolsStay, Runtime!ToolsStay, Runtime!Is, runtimeVars, Runtime!runtimeVars

-----------------------------------------------------------------------------
(* HandRegistry.  A process whose home nobody touched is at a home of its    *)
(* fleet; once it has registered it, or was let in at a registered one, its  *)
(* locator is on record; and who was told of another home of the fleet can   *)
(* still find one.                                                           *)
Listed(c) ==
    /\ runner[c].steady
    /\ \/ runner[c].pc = "list"
       \/ runner[c].pc = "told" /\ runner[c].word \in {"registered", "duplicate"}
       \/ runner[c].pc = "running" /\ runner[c].word = "recorded"

HomeOf(c) == [at |-> "home", id |-> runner[c].id]

RunnerOK(c) ==
    /\ runner[c].pc \notin {"idle", "running"} => runner[c].id \in Ids /\ runner[c].home \in Homes
    /\ runner[c].steady /\ runner[c].id \in Ids =>
          runner[c].home \in Homes /\ dir[runner[c].home] = HomeOf(c)
    /\ Listed(c) =>
          /\ runner[c].id \in Ids /\ file = "ok"
          /\ <<runner[c].id, runner[c].home>> \in locators
    /\ Registry!Is(c, "told", "duplicate") =>
          Registry!Seen(runner[c].id, "valid") \ {runner[c].home} # {}

(* Of two commands at registered homes of one fleet one was refused.         *)
OneIsRecorded ==
    \A c, d \in Processes :
        Registry!OfOneFleet(c, d) /\ Registry!Is(c, "running", "recorded") =>
            ~Registry!Is(d, "running", "recorded")

Place == [at : {"absent", "home", "unreadable"}, id : Ids \cup {Registry!None}]

Placed ==
    /\ dir \in [Homes -> Place]
    /\ \A h \in Homes : dir[h].at = "absent" => dir[h].id = Registry!None

RegistryInv ==
    /\ Placed
    /\ runner \in [Processes -> Registry!Runner]
    /\ \A c \in Processes : RunnerOK(c)
    /\ Registry!OneIsTold
    /\ OneIsRecorded

LEMMA RegistryInitHolds == HomeInit => RegistryInv
<1> SUFFICES ASSUME HomeInit PROVE RegistryInv
  OBVIOUS
<1>1. /\ \E old \in SUBSET Older :
            dir = [h \in Homes |-> IF h \in old THEN Registry!Unnamed ELSE Registry!Absent]
      /\ runner = [c \in Processes |-> Registry!Idle]
  BY DEF HomeInit, Registry!RegistryInit
<1>2. Placed
  BY <1>1 DEF Placed, Place, Registry!Unnamed, Registry!Absent
<1>3. /\ Registry!Idle \in Registry!Runner /\ ~Registry!Idle.steady /\ Registry!Idle.pc = "idle"
  BY DEF Registry!Idle, Registry!Runner, Registry!Words
<1>4. \A c \in Processes : runner[c] = Registry!Idle
  BY <1>1
<1>5. \A c \in Processes : ~runner[c].steady /\ runner[c].pc = "idle"
  BY <1>3, <1>4
<1>6. \A c \in Processes : RunnerOK(c)
  BY <1>5 DEF RunnerOK, Listed, Registry!Is
<1>7. Registry!OneIsTold /\ OneIsRecorded
  BY <1>5 DEF Registry!OneIsTold, OneIsRecorded, Registry!Is
<1> QED BY <1>1, <1>2, <1>3, <1>6, <1>7 DEF RegistryInv

(* What a process that is still settled depends on is still there.           *)
Stands(c) ==
    /\ file = "ok" => file' = "ok"
    /\ locators \subseteq locators'
    /\ \A h \in Homes : dir[h].at = "home" /\ dir[h].id = runner[c].id => dir'[h] = dir[h]

(* It goes on as it was, or somebody unsettled it.                           *)
Rests(c) ==
    /\ runner'[c].pc = runner[c].pc /\ runner'[c].word = runner[c].word
    /\ runner'[c].id = runner[c].id /\ runner'[c].home = runner[c].home
    /\ runner'[c].steady => runner[c].steady /\ (runner[c].id \in Ids => Stands(c))

LEMMA SeenStays ==
  ASSUME Placed, Placed', NEW i \in Ids, NEW h \in Registry!Seen(i, "valid"),
         locators \subseteq locators', dir'[h] = dir[h]
  PROVE  h \in Registry!Seen(i, "valid")'
<1>1. h \in Homes /\ <<i, h>> \in locators /\ Registry!Observed(i, h) = "valid"
  BY DEF Registry!Seen, Registry!Locations
<1>2. Registry!Observed(i, h)' = "valid"
  BY <1>1 DEF Registry!Observed
<1> QED BY <1>1, <1>2 DEF Registry!Seen, Registry!Locations

LEMMA ValidMeans ==
  ASSUME Placed, NEW i \in Ids, NEW h \in Homes
  PROVE  h \in Registry!Seen(i, "valid") <=>
             <<i, h>> \in locators /\ dir[h].at = "home" /\ dir[h].id = i
<1>1. dir[h].at \in {"absent", "home", "unreadable"}
  BY DEF Placed, Place
<1>2. Registry!Observed(i, h) = "valid" <=> dir[h].at = "home" /\ dir[h].id = i
  BY <1>1 DEF Registry!Observed
<1> QED BY <1>2 DEF Registry!Seen, Registry!Locations

LEMMA RestingIsOK ==
  ASSUME Placed, Placed', NEW c \in Processes, RunnerOK(c), Rests(c)
  PROVE  RunnerOK(c)'
<1>1. ASSUME runner'[c].steady, runner[c].id \in Ids
      PROVE  runner'[c].home \in Homes /\ dir'[runner'[c].home] = HomeOf(c)'
  <2>1. runner[c].home \in Homes /\ dir[runner[c].home] = HomeOf(c)
    BY <1>1 DEF RunnerOK, Rests
  <2>2. dir'[runner[c].home] = dir[runner[c].home]
    BY <1>1, <2>1 DEF Rests, Stands, HomeOf
  <2> QED BY <2>1, <2>2 DEF Rests, HomeOf
<1>2. Listed(c)' => Listed(c)
  BY DEF Listed, Rests
<1>3. ASSUME Listed(c)'
      PROVE  /\ runner'[c].id \in Ids /\ file' = "ok"
             /\ <<runner'[c].id, runner'[c].home>> \in locators'
  <2>1. runner[c].id \in Ids /\ file = "ok" /\ <<runner[c].id, runner[c].home>> \in locators
    BY <1>2, <1>3 DEF RunnerOK
  <2>2. Stands(c)
    BY <1>3, <2>1 DEF Rests, Listed
  <2> QED BY <2>1, <2>2 DEF Stands, Rests
<1>4. ASSUME Registry!Is(c, "told", "duplicate")'
      PROVE  (Registry!Seen(runner[c].id, "valid") \ {runner[c].home} # {})'
  <2>1. Registry!Is(c, "told", "duplicate") /\ Listed(c) /\ runner'[c].steady
    BY <1>4 DEF Registry!Is, Rests, Listed
  <2>2. runner[c].id \in Ids
    BY <2>1 DEF RunnerOK
  <2>3. PICK i \in Ids : i = runner[c].id
    BY <2>2
  <2>4. PICK h \in Registry!Seen(i, "valid") : h # runner[c].home
    BY <2>1, <2>3 DEF RunnerOK
  <2>5. Stands(c)
    BY <2>1, <2>2 DEF Rests
  <2>6. h \in Homes
    BY DEF Registry!Seen, Registry!Locations
  <2>7. dir'[h] = dir[h]
    BY <2>3, <2>5, <2>6, ValidMeans DEF Stands
  <2>8. h \in Registry!Seen(i, "valid")'
    BY <2>5, <2>7, SeenStays DEF Stands
  <2>9. runner'[c].id = i /\ runner'[c].home = runner[c].home
    BY <2>3 DEF Rests
  <2>10. h \in Registry!Seen(runner[c].id, "valid")'
    BY <2>8, <2>9 DEF Registry!Seen, Registry!Locations, Registry!Observed
  <2> QED BY <2>4, <2>9, <2>10
<1>5. runner'[c].pc \notin {"idle", "running"} => runner'[c].id \in Ids /\ runner'[c].home \in Homes
  BY DEF RunnerOK, Rests
<1> QED BY <1>1, <1>3, <1>4, <1>5 DEF RunnerOK, Rests

(* Two of a finite set, or no second one.                                    *)
LEMMA MoreThanOne ==
  ASSUME NEW S, IsFiniteSet(S), NEW x \in S
  PROVE  Cardinality(S) > 1 <=> S \ {x} # {}
<1>1. IsFiniteSet(S \ {x}) /\ Cardinality(S \ {x}) = Cardinality(S) - 1 /\ Cardinality(S) \in Nat
  BY FS_RemoveElement, FS_CardinalityType
<1>2. Cardinality(S \ {x}) \in Nat /\ (Cardinality(S \ {x}) = 0 <=> S \ {x} = {})
  BY <1>1, FS_CardinalityType, FS_EmptySet
<1> QED BY <1>1, <1>2

(* The sizes that HandRegistry speaks of are these.                          *)
LEMMA SameSize ==
  ASSUME NEW S
  PROVE  /\ Registry!IsFiniteSet(S) <=> IsFiniteSet(S)
         /\ Registry!Cardinality(S) = Cardinality(S)
<1>1. Registry!IsFiniteSet(S) <=> IsFiniteSet(S)
  BY DEF Registry!IsFiniteSet, IsFiniteSet
<1>2. Registry!Cardinality(S) = Cardinality(S)
  BY DEF Registry!Cardinality, Cardinality
<1> QED BY <1>1, <1>2

(* Two processes do not both pass for the only one at a registered home.     *)
Alone(c) ==
    \A d \in Processes : Registry!OfOneFleet(c, d) =>
        /\ ~(Registry!Is(c, "told", "registered") /\ Registry!Is(d, "told", "registered"))
        /\ ~(Registry!Is(c, "running", "recorded") /\ Registry!Is(d, "running", "recorded"))

Typed == runner \in [Processes -> Registry!Runner]

LEMMA RegistryStepKeeps ==
  ASSUME RegistryInv, Placed', Typed',
         \A c \in Processes : Rests(c) \/ (RunnerOK(c) /\ Alone(c))'
  PROVE  RegistryInv'
<1>1. ASSUME NEW c \in Processes
      PROVE  RunnerOK(c)'
  BY <1>1, RestingIsOK DEF RegistryInv
<1>2. ASSUME NEW c \in Processes
      PROVE  Alone(c)'
  <2>1. CASE Alone(c)'
    BY <2>1
  <2>2. CASE Rests(c)
    <3>1. ASSUME NEW d \in Processes, Registry!OfOneFleet(c, d)'
          PROVE  /\ ~(Registry!Is(c, "told", "registered") /\ Registry!Is(d, "told", "registered"))'
                 /\ ~(Registry!Is(c, "running", "recorded") /\ Registry!Is(d, "running", "recorded"))'
      <4>1. CASE Rests(d)
        BY <2>2, <3>1, <4>1
           DEF Rests, RegistryInv, Registry!OneIsTold, OneIsRecorded, Registry!Is, Registry!OfOneFleet
      <4>2. CASE Alone(d)'
        <5>1. Registry!OfOneFleet(d, c)'
          BY <3>1 DEF Registry!OfOneFleet
        <5> QED BY <4>2, <5>1 DEF Alone
      <4> QED BY <4>1, <4>2
    <3> QED BY <3>1 DEF Alone
  <2> QED BY <2>1, <2>2
<1>3. Registry!OneIsTold' /\ OneIsRecorded'
  BY <1>2 DEF Alone, Registry!OneIsTold, OneIsRecorded
<1> QED BY <1>1, <1>3 DEF RegistryInv, Typed

(* A step of one process; the registry and the homes with an identity stay.  *)
Moves(c) ==
    /\ \A d \in Processes \ {c} : runner'[d] = runner[d]
    /\ file = "ok" => file' = "ok"
    /\ locators \subseteq locators'
    /\ \A h \in Homes : dir[h].at = "home" /\ dir[h].id \in Ids => dir'[h] = dir[h]

LEMMA OneMoves ==
  ASSUME RegistryInv, Placed', Typed', NEW c \in Processes, Moves(c), (RunnerOK(c) /\ Alone(c))'
  PROVE  RegistryInv'
<1>1. ASSUME NEW d \in Processes \ {c}
      PROVE  Rests(d)
  BY DEF Moves, Rests, Stands
<1> QED BY <1>1, RegistryStepKeeps

(* What is at a path where an identity was asked for.                        *)
LEMMA Opened ==
  ASSUME Placed, NEW h \in Homes, NEW i \in Ids, dir[h].at # "unreadable", Registry!OpenHome(h, i)
  PROVE  /\ Placed' /\ dir'[h] = [at |-> "home", id |-> i]
         /\ \A g \in Homes : dir[g].at = "home" /\ dir[g].id \in Ids => dir'[g] = dir[g]
<1>1. Registry!None \notin Ids
  BY HomeAssumption DEF Registry!RegistryAssumption, Registry!None
<1>2. dir' = [dir EXCEPT ![h] = [at |-> "home", id |-> i]]
  BY DEF Registry!OpenHome
<1>3. dir'[h] = [at |-> "home", id |-> i] /\ \A g \in Homes \ {h} : dir'[g] = dir[g]
  BY <1>2 DEF Placed
<1>4. [at |-> "home", id |-> i] \in Place
  BY DEF Place
<1>5. Placed'
  BY <1>2, <1>3, <1>4 DEF Placed
<1>6. ASSUME dir[h].at = "home", dir[h].id \in Ids
      PROVE  dir'[h] = dir[h]
  <2>1. dir[h].id = i
    BY <1>1, <1>6 DEF Registry!OpenHome
  <2>2. dir[h] \in Place
    BY DEF Placed
  <2> QED BY <1>3, <1>6, <2>1, <2>2 DEF Place
<1> QED BY <1>3, <1>5, <1>6

LEMMA SeenIsFinite ==
  ASSUME NEW i
  PROVE  IsFiniteSet(Registry!Seen(i, "valid"))
<1>1. Registry!Seen(i, "valid") \subseteq Homes
  BY DEF Registry!Seen, Registry!Locations
<1>2. IsFiniteSet(Homes)
  BY HomeAssumption, SameSize DEF Registry!RegistryAssumption
<1> QED BY <1>1, <1>2, FS_Subset

(* A process whose locator is on record is at a valid location.              *)
LEMMA ListedIsSeen ==
  ASSUME RegistryInv, NEW c \in Processes, Listed(c)
  PROVE  runner[c].id \in Ids /\ runner[c].home \in Registry!Seen(runner[c].id, "valid")
<1>1. /\ runner[c].steady /\ runner[c].id \in Ids /\ runner[c].home \in Homes
      /\ dir[runner[c].home] = HomeOf(c) /\ <<runner[c].id, runner[c].home>> \in locators
  BY DEF RegistryInv, RunnerOK, Listed
<1>2. PICK i \in Ids, h \in Homes : i = runner[c].id /\ h = runner[c].home
  BY <1>1
<1>3. dir[h].at = "home" /\ dir[h].id = i
  BY <1>1, <1>2 DEF HomeOf
<1>4. h \in Registry!Seen(i, "valid")
  BY <1>1, <1>2, <1>3, ValidMeans DEF RegistryInv
<1> QED BY <1>1, <1>2, <1>4

(* Only another home of the fleet, or another fleet's claim, is in the way.  *)
LEMMA OtherIsRefused ==
  ASSUME NEW i, NEW h, NEW g \in Registry!Seen(i, "valid"), g # h
  PROVE  Registry!Check(h, i) # "pass"
BY DEF Registry!Check

(* A process that goes on, in a home and of a fleet that are what they were. *)
LEMMA Goes ==
  ASSUME RegistryInv, NEW c \in Processes, NEW pc \in {"list", "told", "running"},
         NEW word \in Registry!Words, Registry!Goto(c, pc, word)
  PROVE  /\ Typed' /\ \A d \in Processes \ {c} : runner'[d] = runner[d]
         /\ runner'[c].home = runner[c].home /\ runner'[c].id = runner[c].id
         /\ runner'[c].steady = runner[c].steady
         /\ runner'[c].pc = pc /\ runner'[c].word = word
<1>1. PICK next : next = [runner[c] EXCEPT !.pc = pc, !.word = word]
  OBVIOUS
<1>2. runner[c] \in Registry!Runner
  BY DEF RegistryInv
<1>3. /\ next \in Registry!Runner /\ next.pc = pc /\ next.word = word
      /\ next.home = runner[c].home /\ next.id = runner[c].id /\ next.steady = runner[c].steady
  BY <1>1, <1>2 DEF Registry!Runner
<1>4. runner' = [runner EXCEPT ![c] = next]
  <2>1. runner' = [runner EXCEPT ![c] = [runner[c] EXCEPT !.pc = pc, !.word = word]]
    BY <1>2 DEF Registry!Goto, RegistryInv
  <2> QED BY <1>1, <2>1
<1> QED BY <1>3, <1>4 DEF RegistryInv, Typed

LEMMA RegisterKeeps ==
  ASSUME RegistryInv, NEW c \in Processes, Registry!Register(c) \/ Registry!FailToRegister(c)
  PROVE  RegistryInv'
<1>1. /\ dir' = dir /\ runner[c].pc = "register"
      /\ Registry!Goto(c, "list", "") \/ Registry!Goto(c, "told", "failed")
  BY DEF Registry!Register, Registry!FailToRegister
<1>2. Moves(c)
  BY <1>1 DEF Moves, Registry!Register, Registry!FailToRegister, Registry!Goto, RegistryInv
<1>3. /\ runner'[c].home = runner[c].home /\ runner'[c].id = runner[c].id
      /\ runner'[c].steady = runner[c].steady /\ Typed'
      /\ \/ runner'[c].pc = "list" /\ runner'[c].word = ""
         \/ runner'[c].pc = "told" /\ runner'[c].word = "failed"
  <2>1. "" \in Registry!Words /\ "failed" \in Registry!Words
    BY DEF Registry!Words
  <2> QED BY <1>1, <2>1, Goes
<1>4. Placed'
  BY <1>1 DEF RegistryInv, Placed
<1>5. runner[c].id \in Ids /\ runner[c].home \in Homes
  BY <1>1 DEF RegistryInv, RunnerOK
<1>6. runner'[c].pc = "list" => file' = "ok" /\ <<runner[c].id, runner[c].home>> \in locators'
  BY <1>1 DEF Registry!Register, Registry!FailToRegister, Registry!Goto, RegistryInv, Registry!Runner
<1>7. runner[c].steady => dir[runner[c].home] = HomeOf(c)
  BY <1>5 DEF RegistryInv, RunnerOK
<1>8. RunnerOK(c)'
  BY <1>1, <1>3, <1>5, <1>6, <1>7 DEF RunnerOK, Listed, HomeOf, Registry!Is
<1>9. Alone(c)'
  BY <1>3 DEF Alone, Registry!Is
<1> QED BY <1>2, <1>3, <1>4, <1>8, <1>9, OneMoves

LEMMA AnswerKeeps ==
  ASSUME RegistryInv, NEW c \in Processes, Registry!Answer(c)
  PROVE  RegistryInv'
<1>1. PICK word \in {"registered", "duplicate", "failed"} :
         /\ Registry!Goto(c, "told", word)
         /\ word = "registered" => Registry!FleetState(runner[c].id) # "duplicate"
         /\ word = "duplicate" => Registry!FleetState(runner[c].id) = "duplicate"
  BY DEF Registry!Answer
<1>2. UNCHANGED <<dir, file, locators>> /\ runner[c].pc = "list"
  BY DEF Registry!Answer
<1>3. /\ runner'[c].home = runner[c].home /\ runner'[c].id = runner[c].id
      /\ runner'[c].steady = runner[c].steady /\ runner'[c].pc = "told" /\ runner'[c].word = word
      /\ \A d \in Processes \ {c} : runner'[d] = runner[d]
      /\ Typed'
  <2>1. word \in Registry!Words
    BY DEF Registry!Words
  <2> QED BY <1>1, <2>1, Goes
<1>4. Moves(c) /\ Placed'
  BY <1>2, <1>3 DEF Moves, RegistryInv, Placed
<1>5. PICK i \in Ids, h \in Homes : i = runner[c].id /\ h = runner[c].home
  BY <1>2 DEF RegistryInv, RunnerOK
<1>6. Registry!FleetState(i) = "duplicate" <=> Cardinality(Registry!Seen(i, "valid")) > 1
  <2>1. Registry!Single(i) # "duplicate"
    BY DEF Registry!Single
  <2> QED BY <2>1, SameSize DEF Registry!FleetState
<1>7. ASSUME runner[c].steady
      PROVE  Listed(c) /\ h \in Registry!Seen(i, "valid")
  <2>1. Listed(c)
    BY <1>2, <1>7 DEF Listed
  <2> QED BY <1>5, <2>1, ListedIsSeen
<1>8. runner[c].steady => (Registry!FleetState(i) = "duplicate" <=> Registry!Seen(i, "valid") \ {h} # {})
  BY <1>6, <1>7, SeenIsFinite, MoreThanOne
<1>9. RunnerOK(c)'
  <2>1. Registry!Is(c, "told", "duplicate")' => Registry!Seen(i, "valid") \ {h} # {}
    BY <1>1, <1>3, <1>5, <1>8 DEF Registry!Is
  <2>2. (Registry!Seen(runner[c].id, "valid") \ {runner[c].home})' = Registry!Seen(i, "valid") \ {h}
    BY <1>2, <1>3, <1>5 DEF Registry!Seen, Registry!Locations, Registry!Observed
  <2>3. runner[c].steady => /\ dir[h] = HomeOf(c) /\ file = "ok" /\ <<i, h>> \in locators
    BY <1>5, <1>7 DEF RegistryInv, RunnerOK
  <2> QED BY <1>2, <1>3, <1>5, <2>1, <2>2, <2>3 DEF RunnerOK, Listed, HomeOf, Registry!Is
<1>10. Alone(c)'
  <2> SUFFICES ASSUME NEW d \in Processes, Registry!OfOneFleet(c, d)',
                      Registry!Is(c, "told", "registered")', Registry!Is(d, "told", "registered")'
               PROVE  FALSE
    BY <1>3 DEF Alone, Registry!Is
  <2>1. d # c /\ runner'[d] = runner[d]
    BY <1>3 DEF Registry!OfOneFleet
  <2>2. Listed(d) /\ runner[d].id = i /\ runner[d].home # h /\ runner[c].steady /\ word = "registered"
    BY <1>3, <1>5, <2>1 DEF Registry!OfOneFleet, Registry!Is, Listed
  <2>3. runner[d].home \in Registry!Seen(i, "valid")
    BY <2>2, ListedIsSeen
  <2> QED BY <1>1, <1>5, <1>8, <2>2, <2>3
<1> QED BY <1>3, <1>4, <1>9, <1>10, OneMoves

LEMMA StartKeeps ==
  ASSUME RegistryInv, NEW c \in Processes, NEW h \in Homes,
         Registry!StartInit(c, h) \/ Registry!StartUnnamed(c, h) \/ Registry!StartCommand(c, h)
  PROVE  RegistryInv'
<1>1. CASE Registry!StartUnnamed(c, h)
  <2>1. Registry!None \notin Ids
    BY HomeAssumption DEF Registry!RegistryAssumption, Registry!None
  <2>2. runner' = [runner EXCEPT ![c] = [pc |-> "running", home |-> h, id |-> Registry!None,
                                         word |-> "unchecked", steady |-> TRUE]]
    BY <1>1 DEF Registry!StartUnnamed
  <2>3. Moves(c) /\ Placed'
    BY <1>1, <2>2 DEF Registry!StartUnnamed, Moves, RegistryInv, Placed
  <2>4. Typed'
    BY <2>2 DEF RegistryInv, Typed, Registry!Runner, Registry!Words
  <2>5. runner'[c].pc = "running" /\ runner'[c].id = Registry!None /\ runner'[c].word = "unchecked"
    BY <2>2 DEF RegistryInv
  <2>6. RunnerOK(c)' /\ Alone(c)'
    BY <2>1, <2>5 DEF RunnerOK, Listed, Alone, Registry!Is
  <2> QED BY <2>3, <2>4, <2>6, OneMoves
<1>2. CASE Registry!StartInit(c, h) \/ Registry!StartCommand(c, h)
  <2>1. PICK i \in Ids, next \in {"register", "check"}, word \in Registry!Words :
          /\ Registry!OpenHome(h, i)
          /\ runner' = [runner EXCEPT ![c] = [pc |-> next, home |-> h, id |-> i, word |-> word, steady |-> TRUE]]
    BY <1>2 DEF Registry!StartInit, Registry!StartCommand, Registry!Words
  <2>2. dir[h].at # "unreadable" /\ UNCHANGED <<file, locators>>
    BY <1>2 DEF Registry!StartInit, Registry!StartCommand
  <2>3. /\ Placed' /\ dir'[h] = [at |-> "home", id |-> i]
        /\ \A g \in Homes : dir[g].at = "home" /\ dir[g].id \in Ids => dir'[g] = dir[g]
    BY <2>1, <2>2, Opened DEF RegistryInv
  <2>4. Moves(c) /\ Typed'
    BY <2>1, <2>2, <2>3 DEF Moves, RegistryInv, Typed, Registry!Runner
  <2>5. runner'[c] = [pc |-> next, home |-> h, id |-> i, word |-> word, steady |-> TRUE]
    BY <2>1 DEF RegistryInv
  <2>6. runner'[c].pc = next /\ runner'[c].home = h /\ runner'[c].id = i
    BY <2>5
  <2>7. RunnerOK(c)'
    BY <2>3, <2>6 DEF RunnerOK, Listed, Registry!Is, HomeOf
  <2>8. Alone(c)'
    BY <2>6 DEF Alone, Registry!Is
  <2> QED BY <2>3, <2>4, <2>7, <2>8, OneMoves
<1> QED BY <1>1, <1>2

LEMMA LeaveKeeps ==
  ASSUME RegistryInv, NEW c \in Processes, Registry!Leave(c), UNCHANGED <<dir, file, locators>>
  PROVE  RegistryInv'
<1>1. runner' = [runner EXCEPT ![c] = Registry!Idle]
  BY DEF Registry!Leave
<1>2. Registry!Idle \in Registry!Runner /\ Registry!Idle.pc = "idle" /\ ~Registry!Idle.steady
  BY DEF Registry!Idle, Registry!Runner, Registry!Words
<1>3. /\ Typed' /\ runner'[c] = Registry!Idle
      /\ \A d \in Processes \ {c} : runner'[d] = runner[d]
  BY <1>1, <1>2 DEF RegistryInv, Typed
<1>4. Moves(c) /\ Placed'
  BY <1>3 DEF Moves, RegistryInv, Placed
<1>5. RunnerOK(c)' /\ Alone(c)'
  BY <1>2, <1>3 DEF RunnerOK, Listed, Alone, Registry!Is
<1> QED BY <1>3, <1>4, <1>5, OneMoves

LEMMA MeetKeeps ==
  ASSUME RegistryInv, NEW c \in Processes, Registry!MeetRegistry(c)
  PROVE  RegistryInv'
<1>1. UNCHANGED <<dir, file, locators>> /\ runner[c].pc = "check"
  BY DEF Registry!MeetRegistry
<1>2. PICK i \in Ids, h \in Homes : i = runner[c].id /\ h = runner[c].home
  BY <1>1 DEF RegistryInv, RunnerOK
<1>3. CASE Registry!Leave(c)
  BY <1>1, <1>3, LeaveKeeps
<1>4. ASSUME NEW word \in {"unchecked", "unrecorded", "recorded"}, Registry!Goto(c, "running", word),
             word = "recorded" => /\ file = "ok" /\ Registry!Check(h, i) = "pass"
                                  /\ h \in Registry!Locations(i)
      PROVE  RegistryInv'
  <2>1. /\ runner'[c].home = h /\ runner'[c].id = i
        /\ runner'[c].steady = runner[c].steady /\ runner'[c].pc = "running" /\ runner'[c].word = word
        /\ \A d \in Processes \ {c} : runner'[d] = runner[d]
        /\ Typed'
    <3>1. word \in Registry!Words
      BY DEF Registry!Words
    <3> QED BY <1>2, <1>4, <3>1, Goes
  <2>2. Moves(c) /\ Placed'
    BY <1>1, <2>1 DEF Moves, RegistryInv, Placed
  <2>3. runner[c].steady => dir[h] = HomeOf(c)
    BY <1>2 DEF RegistryInv, RunnerOK
  <2>4. RunnerOK(c)'
    BY <1>1, <1>2, <1>4, <2>1, <2>3 DEF RunnerOK, Listed, HomeOf, Registry!Is, Registry!Locations
  <2>5. Alone(c)'
    <3> SUFFICES ASSUME NEW d \in Processes, Registry!OfOneFleet(c, d)',
                        Registry!Is(c, "running", "recorded")', Registry!Is(d, "running", "recorded")'
                 PROVE  FALSE
      BY <2>1 DEF Alone, Registry!Is
    <3>1. d # c /\ runner'[d] = runner[d]
      BY <2>1 DEF Registry!OfOneFleet
    <3>2. Listed(d) /\ runner[d].id = i /\ runner[d].home # h /\ word = "recorded"
      BY <2>1, <3>1 DEF Registry!OfOneFleet, Registry!Is, Listed
    <3>3. runner[d].home \in Registry!Seen(i, "valid")
      BY <3>2, ListedIsSeen
    <3> QED BY <1>4, <3>2, <3>3, OtherIsRefused
  <2> QED BY <2>1, <2>2, <2>4, <2>5, OneMoves
<1>5. \/ Registry!Leave(c)
      \/ Registry!Goto(c, "running", "unchecked")
      \/ Registry!Goto(c, "running", "unrecorded")
      \/ /\ file = "ok" /\ Registry!Check(h, i) = "pass" /\ h \in Registry!Locations(i)
         /\ Registry!Goto(c, "running", "recorded")
  BY <1>2 DEF Registry!MeetRegistry
<1> QED BY <1>3, <1>4, <1>5

(* Directories and the registry change under the processes: whose fleet it   *)
(* concerns is not settled any more.                                         *)
LEMMA UnsettledOnes ==
  ASSUME RegistryInv, NEW homes, NEW ids, Registry!Unsettled(homes, ids)
  PROVE  /\ Typed'
         /\ \A c \in Processes :
               /\ runner'[c].pc = runner[c].pc /\ runner'[c].word = runner[c].word
               /\ runner'[c].id = runner[c].id /\ runner'[c].home = runner[c].home
               /\ runner'[c].steady => /\ runner[c].steady /\ runner[c].home \notin homes
                                       /\ runner[c].id \notin ids \ {Registry!None}
<1>1. ASSUME NEW c \in Processes
      PROVE  /\ runner'[c] \in Registry!Runner
             /\ runner'[c].pc = runner[c].pc /\ runner'[c].word = runner[c].word
             /\ runner'[c].id = runner[c].id /\ runner'[c].home = runner[c].home
             /\ runner'[c].steady => /\ runner[c].steady /\ runner[c].home \notin homes
                                     /\ runner[c].id \notin ids \ {Registry!None}
  <2>1. PICK s \in BOOLEAN : s <=> /\ runner[c].steady /\ runner[c].home \notin homes
                                   /\ runner[c].id \notin ids \ {Registry!None}
    OBVIOUS
  <2>2. runner[c] \in Registry!Runner
    BY DEF RegistryInv
  <2>3. runner[c].steady \in BOOLEAN
    BY <2>2 DEF Registry!Runner
  <2>4. runner'[c] = [runner[c] EXCEPT !.steady = s]
    BY <2>1, <2>2, <2>3 DEF Registry!Unsettled, Registry!Runner
  <2> QED BY <2>1, <2>2, <2>4 DEF Registry!Runner
<1>2. runner' = [c \in Processes |-> runner'[c]]
  BY DEF Registry!Unsettled
<1> QED BY <1>1, <1>2 DEF Typed

LEMMA NoIdentity == Registry!None \notin Ids
BY HomeAssumption DEF Registry!RegistryAssumption, Registry!None

LEMMA ChangeKeeps ==
  ASSUME RegistryInv, NEW h \in Homes, NEW content \in Place,
         content.at = "absent" => content.id = Registry!None, Registry!ChangeDir(h, content)
  PROVE  RegistryInv'
<1>1. dir' = [dir EXCEPT ![h] = content] /\ UNCHANGED <<file, locators>>
  BY DEF Registry!ChangeDir
<1>2. dir'[h] = content /\ \A g \in Homes \ {h} : dir'[g] = dir[g]
  BY <1>1 DEF RegistryInv, Placed
<1>3. Placed'
  BY <1>1, <1>2 DEF RegistryInv, Placed
<1>4. Registry!Unsettled({h}, {dir[h].id})
  BY DEF Registry!ChangeDir
<1>5. ASSUME NEW c \in Processes
      PROVE  Rests(c)
  <2>1. ASSUME runner'[c].steady, runner[c].id \in Ids
        PROVE  Stands(c)
    BY <1>1, <1>2, <1>4, <2>1, UnsettledOnes, NoIdentity DEF Stands
  <2> QED BY <1>4, <2>1, UnsettledOnes DEF Rests
<1> QED BY <1>3, <1>4, <1>5, UnsettledOnes, RegistryStepKeeps

LEMMA CopyKeeps ==
  ASSUME RegistryInv, NEW h \in Homes, NEW to \in Homes, Registry!Copy(h, to) \/ Registry!Move(h, to)
  PROVE  RegistryInv'
<1>1. dir[to].at = "absent" /\ dir[h].at # "absent" /\ UNCHANGED <<file, locators>>
  BY DEF Registry!Copy, Registry!Move
<1>2. dir[h] \in Place /\ dir[to] \in Place /\ Registry!Absent \in Place
  BY DEF RegistryInv, Placed, Place, Registry!Absent
<1>3. CASE Registry!Copy(h, to)
  <2>1. dir' = [dir EXCEPT ![to] = dir[h]] /\ runner' = runner
    BY <1>3 DEF Registry!Copy
  <2>2. dir'[to] = dir[h] /\ \A g \in Homes \ {to} : dir'[g] = dir[g]
    BY <2>1 DEF RegistryInv, Placed
  <2>3. Placed' /\ Typed'
    BY <1>1, <1>2, <2>1, <2>2 DEF RegistryInv, Placed, Typed
  <2>4. ASSUME NEW c \in Processes
        PROVE  Rests(c)
    BY <1>1, <2>1, <2>2 DEF Rests, Stands
  <2> QED BY <2>3, <2>4, RegistryStepKeeps
<1>4. CASE Registry!Move(h, to)
  <2>1. dir' = [dir EXCEPT ![to] = dir[h], ![h] = Registry!Absent]
    BY <1>4 DEF Registry!Move
  <2>2. /\ dir'[to] = dir[h] /\ dir'[h] = Registry!Absent
        /\ \A g \in Homes \ {h, to} : dir'[g] = dir[g]
    BY <1>1, <2>1 DEF RegistryInv, Placed
  <2>3. Placed'
    <3>1. dir' \in [Homes -> Place]
      BY <1>2, <2>1 DEF RegistryInv, Placed
    <3> QED BY <2>2, <3>1 DEF RegistryInv, Placed, Registry!Absent
  <2>4. Registry!Unsettled({h}, {dir[h].id})
    BY <1>4 DEF Registry!Move
  <2>5. ASSUME NEW c \in Processes
        PROVE  Rests(c)
    <3>1. ASSUME runner'[c].steady, runner[c].id \in Ids
          PROVE  Stands(c)
      BY <1>1, <2>2, <2>4, <3>1, UnsettledOnes, NoIdentity DEF Stands
    <3> QED BY <2>4, <3>1, UnsettledOnes DEF Rests
  <2> QED BY <2>3, <2>4, <2>5, UnsettledOnes, RegistryStepKeeps
<1> QED BY <1>3, <1>4

LEMMA ChangeRegistryKeeps ==
  ASSUME RegistryInv, NEW to, Registry!ChangeRegistry(to)
  PROVE  RegistryInv'
<1>1. dir' = dir /\ Registry!Unsettled(Homes, Ids)
  BY DEF Registry!ChangeRegistry
<1>2. Placed'
  BY <1>1 DEF RegistryInv, Placed
<1>3. ASSUME NEW c \in Processes
      PROVE  Rests(c)
  <2>1. ~(runner'[c].steady /\ runner[c].id \in Ids)
    BY <1>1, UnsettledOnes, NoIdentity
  <2> QED BY <1>1, <2>1, UnsettledOnes DEF Rests
<1> QED BY <1>1, <1>2, <1>3, UnsettledOnes, RegistryStepKeeps

LEMMA RegistryKeeps ==
  ASSUME RegistryInv, [Registry!RegistryNext]_registryVars
  PROVE  RegistryInv'
<1>1. CASE UNCHANGED registryVars
  <2>1. UNCHANGED <<dir, file, locators, runner>>
    BY <1>1 DEF registryVars
  <2>2. Placed' /\ Typed' /\ \A c \in Processes : Rests(c)
    BY <2>1 DEF RegistryInv, Placed, Typed, Rests, Stands
  <2> QED BY <2>2, RegistryStepKeeps
<1>2. ASSUME NEW c \in Processes,
             \/ Registry!Register(c) \/ Registry!FailToRegister(c)
             \/ Registry!Answer(c) \/ Registry!MeetRegistry(c)
             \/ Registry!Leave(c) /\ UNCHANGED <<dir, file, locators>>
             \/ \E h \in Homes : \/ Registry!StartInit(c, h) \/ Registry!StartUnnamed(c, h)
                                 \/ Registry!StartCommand(c, h)
      PROVE  RegistryInv'
  BY <1>2, RegisterKeeps, AnswerKeeps, MeetKeeps, LeaveKeeps, StartKeeps
<1>3. ASSUME NEW h \in Homes, Registry!Delete(h) \/ Registry!Damage(h) \/ Registry!Repair(h)
      PROVE  RegistryInv'
  <2>1. PICK content \in Place :
           /\ Registry!ChangeDir(h, content)
           /\ content.at = "absent" => content.id = Registry!None
    BY <1>3 DEF Registry!Delete, Registry!Damage, Registry!Repair, Registry!Absent, RegistryInv, Placed, Place
  <2> QED BY <2>1, ChangeKeeps
<1>4. ASSUME NEW h \in Homes, NEW to \in Homes, Registry!Copy(h, to) \/ Registry!Move(h, to)
      PROVE  RegistryInv'
  BY <1>4, CopyKeeps
<1>5. ASSUME Registry!LoseRegistry \/ Registry!DamageRegistry \/ Registry!RepairRegistry
      PROVE  RegistryInv'
  BY <1>5, ChangeRegistryKeeps
     DEF Registry!LoseRegistry, Registry!DamageRegistry, Registry!RepairRegistry
<1> QED BY <1>1, <1>2, <1>3, <1>4, <1>5 DEF Registry!RegistryNext

(* The processes that are told or let in are those of the invariant.         *)
LEMMA FleetsToldOf == ASSUME RegistryInv PROVE Registry!FleetsAreTold
<1>1. Registry!ToldIsRefused
  <2> SUFFICES ASSUME NEW c \in Processes, Registry!Is(c, "told", "duplicate")
               PROVE  file = "ok" /\ Registry!Check(runner[c].home, runner[c].id) # "pass"
    BY DEF Registry!ToldIsRefused
  <2>1. RunnerOK(c) /\ Listed(c)
    BY DEF RegistryInv, Registry!Is, Listed
  <2>2. PICK g \in Registry!Seen(runner[c].id, "valid") : g # runner[c].home
    BY <2>1 DEF RunnerOK
  <2> QED BY <2>1, <2>2, OtherIsRefused DEF RunnerOK
<1>2. ASSUME NEW c \in Processes, Registry!Is(c, "running", "recorded"),
             NEW h \in Homes \ {runner[c].home}
      PROVE  Registry!Check(h, runner[c].id) # "pass"
  <2>1. runner[c].home \in Registry!Seen(runner[c].id, "valid")
    BY <1>2, ListedIsSeen DEF Registry!Is, Listed
  <2> QED BY <2>1, OtherIsRefused
<1>3. Registry!OneHomeOperates
  BY <1>2 DEF RegistryInv, OneIsRecorded, Registry!OneHomeOperates
<1> QED BY <1>1, <1>3 DEF RegistryInv, Registry!FleetsAreTold

(* Of two homes that were registered for one fleet at least one was told of  *)
(* the other, however the two inits interleave; who was told is refused; and *)
(* a readable registry lets a second registered home of a fleet in no more,  *)
(* whatever was copied before (registry.go:397, cmd/init.go:172).            *)
THEOREM FleetsAreToldAlways == HomeSpec => []FleetsAreTold
<1> DEFINE Inv == part = "registry" => RegistryInv
<1>1. HomeInit => Inv
  BY RegistryInitHolds
<1>2. Inv /\ [HomeNext]_homeVars => Inv'
  BY StepsApart, RegistryKeeps
<1>3. Inv => FleetsAreTold
  BY FleetsToldOf DEF FleetsAreTold
<1> QED BY <1>1, <1>2, <1>3, PTL DEF HomeSpec

-----------------------------------------------------------------------------
(* HandLadder.  A version is never lower than the one a reader has seen, and *)
(* a reader goes on with one it accepts only.                                *)
LadderInv ==
    /\ version \in Nat
    /\ reader \in [pc : {"idle", "open", "first", "second", "answered", "refused", "failed"},
                   read : Ladder!Reads, current : Nat]
    /\ reader.pc \in {"first", "second"} =>
         /\ reader.current \in Ladder!Oldest..version
         /\ reader.current <= Ladder!Latest
    /\ version <= Ladder!Latest
    /\ Ladder!ReadableBesideGaps

LEMMA Columns ==
  ASSUME version \in Nat
  PROVE  /\ Ladder!Present({})
         /\ Ladder!Present(Ladder!taskColumns) <=> version >= 17
         /\ Ladder!Present(Ladder!taskColumnsBeforeAcknowledgement) <=> version >= 12
         /\ Ladder!Present(Ladder!taskColumnsBeforeRepair)
         /\ Ladder!Present(Ladder!attemptColumns) <=> version >= 16
         /\ Ladder!Present(Ladder!attemptColumnsBeforeSend) <=> version >= 11
         /\ Ladder!Present(Ladder!attemptColumnsBeforeRouting)
         /\ Ladder!Present({"inferred"}) <=> version >= 15
<1>1. /\ Ladder!AddedBy["routing"] = 11 /\ Ladder!AddedBy["repair"] = 12 /\ Ladder!AddedBy["episode"] = 13
      /\ Ladder!AddedBy["inferred"] = 15 /\ Ladder!AddedBy["branch"] = 16
      /\ Ladder!AddedBy["acknowledged"] = 17
  BY DEF Ladder!AddedBy, Ladder!repairMetadataVersion, Ladder!sendSchemaVersion, Ladder!holdInferredVersion,
     Ladder!attemptBranchVersion, Ladder!preAcknowledgementVersion
<1> QED BY <1>1 DEF Ladder!Present, Ladder!taskColumns, Ladder!taskColumnsBeforeAcknowledgement,
     Ladder!taskColumnsBeforeRepair, Ladder!attemptColumns, Ladder!attemptColumnsBeforeSend,
     Ladder!attemptColumnsBeforeRouting

(* A statement that fails is in a gap.                                       *)
LEMMA SelectedIsThere ==
  ASSUME LadderInv, NEW s \in {"first", "second"}, reader.pc = s, ~Ladder!Present(Ladder!Selected[s])
  PROVE  <<reader.read, reader.current>> \in Ladder!Gaps
<1> DEFINE v == reader.current
<1>0. /\ version \in Nat /\ v \in Nat /\ v >= 10 /\ v <= version /\ v <= 18 /\ reader.read \in Ladder!Reads
      /\ reader.read = "exact" => v = 18
  BY DEF LadderInv, Ladder!Oldest, Ladder!Latest, Ladder!teardownEvidenceVersion
<1> USE DEF Ladder!Rung, Ladder!Full, Ladder!BeforeAcknowledgement, Ladder!BeforeSend,
      Ladder!acknowledgedMetadataVersion, Ladder!attemptBranchVersion, Ladder!preAcknowledgementVersion,
      Ladder!repairMetadataVersion, Ladder!holdInferredVersion
<1>1. CASE reader.read = "history"
  <2>1. Ladder!Selected = Ladder!HistoryRung(v)
    BY <1>1 DEF Ladder!Selected
  <2>2. v = 15 \/ Ladder!Present(Ladder!HistoryRung(v)[s])
    <3>1. CASE v \in {10, 11}
      BY <1>0, <3>1, Columns DEF Ladder!HistoryRung
    <3>2. CASE v \in {12, 13, 14}
      BY <1>0, <3>2, Columns DEF Ladder!HistoryRung
    <3>3. CASE v \in {16, 17, 18}
      BY <1>0, <3>3, Columns DEF Ladder!HistoryRung
    <3> QED BY <1>0, <3>1, <3>2, <3>3
  <2> QED BY <1>1, <2>1, <2>2 DEF Ladder!Gaps
<1>2. CASE reader.read = "list"
  <2>1. Ladder!Selected = Ladder!ListRung(v)
    BY <1>2 DEF Ladder!Selected
  <2>2. v \in {10, 11, 15} \/ Ladder!Present(Ladder!ListRung(v)[s])
    <3>1. CASE v \in {12, 13, 14}
      BY <1>0, <3>1, Columns DEF Ladder!ListRung
    <3>2. CASE v \in {16, 17, 18}
      BY <1>0, <3>2, Columns DEF Ladder!ListRung
    <3> QED BY <1>0, <3>1, <3>2
  <2> QED BY <1>2, <2>1, <2>2 DEF Ladder!Gaps
<1>3. CASE reader.read = "hold"
  <2>1. Ladder!Selected = Ladder!HoldRung(v)
    BY <1>3 DEF Ladder!Selected
  <2>2. Ladder!Present(Ladder!HoldRung(v)[s])
    BY <1>0, Columns DEF Ladder!HoldRung
  <2> QED BY <2>1, <2>2
<1>4. CASE reader.read = "exact"
  <2>1. Ladder!Selected = Ladder!Full
    BY <1>4 DEF Ladder!Selected
  <2> QED BY <1>0, <1>4, <2>1, Columns
<1> QED BY <1>0, <1>1, <1>2, <1>3, <1>4 DEF Ladder!Reads

LEMMA LadderStepKeeps == ASSUME LadderInv, [Ladder!LadderNext]_ladderVars PROVE LadderInv'
<1> USE DEF Ladder!Latest
<1>1. CASE UNCHANGED ladderVars
  BY <1>1 DEF ladderVars, LadderInv, Ladder!Oldest, Ladder!ReadableBesideGaps
<1>2. CASE Ladder!Migrate
  BY <1>2 DEF Ladder!Migrate, LadderInv, Ladder!Oldest, Ladder!ReadableBesideGaps, Ladder!teardownEvidenceVersion
<1>3. ASSUME NEW read \in Ladder!Reads, Ladder!Begin(read) PROVE LadderInv'
  BY <1>3 DEF Ladder!Begin, Ladder!Idle, LadderInv, Ladder!ReadableBesideGaps
<1>4. CASE Ladder!OpenReadOnly
  <2>1. PICK pc \in {"answered", "refused", "first"} :
          /\ reader' = [reader EXCEPT !.current = version, !.pc = pc]
          /\ pc = "first" => version >= Ladder!Oldest
    <3>1. version \in Nat /\ Ladder!Oldest \in Nat
      BY DEF LadderInv, Ladder!Oldest, Ladder!teardownEvidenceVersion
    <3>2. CASE version = 0
      <4>1. reader' = [reader EXCEPT !.current = version, !.pc = "answered"]
        BY <1>4, <3>2 DEF Ladder!OpenReadOnly
      <4> QED BY <4>1
    <3>3. CASE version # 0 /\ version < Ladder!Oldest
      <4>1. reader' = [reader EXCEPT !.current = version, !.pc = "refused"]
        BY <1>4, <3>3 DEF Ladder!OpenReadOnly
      <4> QED BY <4>1
    <3>4. CASE version # 0 /\ version >= Ladder!Oldest
      <4>1. ~(version < Ladder!Oldest)
        BY <3>1, <3>4
      <4>2. reader' = [reader EXCEPT !.current = version, !.pc = "first"]
        BY <1>4, <3>4, <4>1 DEF Ladder!OpenReadOnly
      <4> QED BY <3>4, <4>2
    <3> QED BY <3>1, <3>2, <3>3, <3>4
  <2>2. version' = version /\ Ladder!Oldest' = Ladder!Oldest
    BY <1>4, <2>1 DEF Ladder!OpenReadOnly, LadderInv, Ladder!Oldest
  <2>3. /\ reader'.pc = pc /\ reader'.current = version /\ reader'.read = reader.read
        /\ reader' \in [pc : {"idle", "open", "first", "second", "answered", "refused", "failed"},
                        read : Ladder!Reads, current : Nat]
    BY <2>1 DEF LadderInv
  <2>4. Ladder!Oldest \in Nat
    BY DEF Ladder!Oldest, Ladder!teardownEvidenceVersion
  <2> QED BY <2>1, <2>2, <2>3, <2>4 DEF LadderInv, Ladder!ReadableBesideGaps
<1>5. ASSUME NEW s \in {"first", "second"}, NEW next \in {"second", "answered"}, Ladder!Select(s, next)
      PROVE  LadderInv'
  <2>1. reader.pc = s /\ version' = version
    BY <1>5 DEF Ladder!Select
  <2>2. CASE Ladder!Present(Ladder!Selected[s])
    <3>1. reader' = [reader EXCEPT !.pc = next]
      BY <1>5, <2>2 DEF Ladder!Select
    <3> QED BY <2>1, <3>1 DEF LadderInv, Ladder!Oldest, Ladder!ReadableBesideGaps
  <2>3. CASE ~Ladder!Present(Ladder!Selected[s])
    <3>1. reader' = [reader EXCEPT !.pc = "failed"]
      BY <1>5, <2>3 DEF Ladder!Select
    <3>2. <<reader.read, reader.current>> \in Ladder!Gaps
      BY <2>1, <2>3, SelectedIsThere
    <3>3. Ladder!Gaps' = Ladder!Gaps
      BY DEF Ladder!Gaps
    <3> QED BY <2>1, <3>1, <3>2, <3>3 DEF LadderInv, Ladder!Oldest, Ladder!ReadableBesideGaps
  <2> QED BY <2>2, <2>3
<1>6. CASE Ladder!Close
  BY <1>6 DEF Ladder!Close, Ladder!Idle, LadderInv, Ladder!ReadableBesideGaps, Ladder!Reads
<1> QED BY <1>1, <1>2, <1>3, <1>4, <1>5, <1>6 DEF Ladder!LadderNext

LEMMA LadderInitHolds == HomeInit => LadderInv
BY HomeAssumption DEF HomeInit, Ladder!LadderInit, Ladder!LadderAssumption, LadderInv, Ladder!Idle, Ladder!Reads,
   Ladder!ReadableBesideGaps, Ladder!Latest, Ladder!splitVersion

-----------------------------------------------------------------------------
(* HandSchema.  What a database is migrated to is what its version says, and *)
(* whoever is at work on one without the lock has nothing left to migrate.   *)

(* The plan has a split, one send table and an identity, and no build in use *)
(* is older than a migration that fails on what it finds: an unstamped layout*)
(* gets the version that the build which opens it knows.                     *)
PlanInOrder ==
    /\ \A kind \in {"split", "sends", "identity"} : \E n \in 1..Len(Plan) : Plan[n] = kind
    /\ \A m, n \in 1..Len(Plan) : Plan[m] = "sends" /\ Plan[n] = "sends" => m = n
    /\ \A n \in 1..Len(Plan) : Plan[n] \in {"split", "column"} => \A b \in Builds : n <= b

Layout ==
    [exists : BOOLEAN, version : Schema!Versions, cols : SUBSET (1..Len(Plan)), undelivered : BOOLEAN,
     backfilled : {0, 1}, identity : Processes \cup {Schema!Nobody, "init"}]

WorkingPcs == {"exists", "create", "stamp", "migrate"}

Opening ==
    [pc : {"closed", "version", "lock", "reread", "identity", "open", "refused"} \cup WorkingPcs,
     latest : Builds \cup {0}, current : Schema!Versions, isNew : BOOLEAN]

Strict(n) == Plan[n] \in {"split", "column"}

LaidOut ==
    /\ Schema!UpTo(db.version) \subseteq db.cols
    /\ db.version > 0 => \A n \in db.cols : n <= db.version \/ ~Strict(n)
    /\ db.backfilled = IF db.undelivered /\ db.version >= Schema!VersionOf("sends") THEN 1 ELSE 0
    /\ db.version >= Schema!VersionOf("identity") => db.identity # Schema!Nobody
    /\ db.version = 0 =>
         /\ \E k \in Schema!Versions : k < Schema!VersionOf("identity") /\ db.cols = Schema!UpTo(k)
         /\ db.undelivered => db.cols = {}
    /\ ~db.exists => db.version = 0

Opener(p) ==
    LET o == opener[p] IN
    /\ o.pc # "closed" => o.latest \in Builds
    /\ o.pc = "reread" => schemaLock = p
    /\ o.pc \in WorkingPcs =>
         \/ schemaLock = p /\ o.current = db.version
         \/ db.exists /\ o.current >= o.latest /\ db.version >= o.current
    /\ o.pc = "create" => (o.isNew <=> ~db.exists)
    /\ o.pc \in {"stamp", "migrate"} => db.exists
    /\ o.pc = "migrate" /\ o.current = 0 => \A n \in db.cols : ~Strict(n)
    /\ o.pc = "identity" => db.version >= o.latest

SchemaInv ==
    /\ db \in Layout /\ opener \in [Processes -> Opening]
    /\ schemaLock \in Processes \cup {Schema!Nobody}
    /\ LaidOut
    /\ \A p \in Processes : Opener(p)

(* The versions of a plan in order.                                          *)
LEMMA PlanVersions ==
  ASSUME PlanInOrder
  PROVE  /\ Len(Plan) \in Nat /\ Builds \subseteq 1..Len(Plan)
         /\ \A kind \in {"split", "sends", "identity"} :
              Schema!VersionOf(kind) \in 1..Len(Plan) /\ Plan[Schema!VersionOf(kind)] = kind
         /\ \A n \in 1..Len(Plan) : Plan[n] = "sends" => n = Schema!VersionOf("sends")
         /\ \A n \in 1..Len(Plan) : Plan[n] \in Schema!MigrationKinds
         /\ Schema!Nobody \notin Processes \cup {"init"}
<1>1. Plan \in Seq(Schema!MigrationKinds) /\ Builds \subseteq 1..Len(Plan)
  BY HomeAssumption DEF Schema!SchemaAssumption
<1>2. Len(Plan) \in Nat /\ \A n \in 1..Len(Plan) : Plan[n] \in Schema!MigrationKinds
  BY <1>1
<1>3. ASSUME NEW kind \in {"split", "sends", "identity"}
      PROVE  Schema!VersionOf(kind) \in 1..Len(Plan) /\ Plan[Schema!VersionOf(kind)] = kind
  BY <1>3 DEF PlanInOrder, Schema!VersionOf
<1>4. \A n \in 1..Len(Plan) : Plan[n] = "sends" => n = Schema!VersionOf("sends")
  BY <1>3 DEF PlanInOrder
<1>5. Schema!Nobody \notin Processes \cup {"init"}
  BY HomeAssumption DEF Schema!Nobody, Import!ImportAssumption, Import!Nobody
<1> QED BY <1>1, <1>2, <1>3, <1>4, <1>5

LEMMA SchemaInitHolds == ASSUME PlanInOrder PROVE HomeInit => SchemaInv
<1> SUFFICES ASSUME HomeInit PROVE SchemaInv
  OBVIOUS
<1> DEFINE S == Schema!VersionOf("sends")
           I == Schema!VersionOf("identity")
           F == Schema!VersionOf("split")
<1>0. S \in 1..Len(Plan) /\ I \in 1..Len(Plan) /\ F \in 1..Len(Plan) /\ Len(Plan) \in Nat
      /\ "init" # Schema!Nobody
  BY PlanVersions
<1>1. /\ db \in Schema!InitialDatabases /\ (db.undelivered => db.version < S)
      /\ schemaLock = Schema!Nobody /\ opener = [p \in Processes |-> Schema!Closed]
  BY DEF HomeInit, Schema!SchemaInit
<1> HIDE DEF S, I, F
<1>2. PICK v \in Schema!Versions, k \in Schema!Versions :
        /\ db.version = v /\ db.cols = Schema!UpTo(k) /\ db.backfilled = 0
        /\ db.identity = IF v >= I THEN "init" ELSE Schema!Nobody
        /\ v = k \/ (v = 0 /\ ~db.undelivered /\ k < I)
        /\ ~db.exists => v = 0
        /\ db \in Layout
  <2>1. 0 \in Schema!Versions /\ Schema!UpTo(0) = {} /\ ~(0 >= I)
        /\ \A v \in Schema!Versions : Schema!UpTo(v) \subseteq 1..Len(Plan)
    BY <1>0 DEF Schema!Versions, Schema!UpTo
  <2>2. CASE db = Schema!NoDatabase
    <3>1. db = [exists |-> FALSE, version |-> 0, cols |-> Schema!UpTo(0), undelivered |-> FALSE,
                backfilled |-> 0, identity |-> Schema!Nobody]
      BY <2>1, <2>2 DEF Schema!NoDatabase, Schema!Database
    <3> QED BY <2>1, <3>1 DEF Layout
  <2>3. CASE db \in Schema!Stamped
    <3>1. PICK v \in Schema!Versions : \E u \in BOOLEAN :
            db = [exists |-> TRUE, version |-> v, cols |-> Schema!UpTo(v), undelivered |-> u,
                  backfilled |-> 0, identity |-> IF v >= I THEN "init" ELSE Schema!Nobody]
      BY <2>3 DEF Schema!Database, Schema!Stamped, I
    <3>2. /\ db.version = v /\ db.cols = Schema!UpTo(v) /\ db.backfilled = 0 /\ db.exists
          /\ db.identity = IF v >= I THEN "init" ELSE Schema!Nobody
      BY <3>1
    <3>3. db \in Layout
      BY <2>1, <3>1 DEF Layout
    <3> QED BY <3>2, <3>3
  <2>4. CASE db \in Schema!Unstamped
    <3>1. PICK k \in F..(I - 1) :
            db = [exists |-> TRUE, version |-> 0, cols |-> Schema!UpTo(k), undelivered |-> FALSE,
                  backfilled |-> 0, identity |-> Schema!Nobody]
      BY <2>4 DEF Schema!Database, Schema!Unstamped, F, I
    <3>2. k \in Schema!Versions /\ k < I
      BY <1>0 DEF Schema!Versions
    <3> QED BY <2>1, <3>1, <3>2 DEF Layout
  <2> QED BY <1>1, <2>2, <2>3, <2>4 DEF Schema!InitialDatabases
<1>3. v \in 0..Len(Plan) /\ k \in 0..Len(Plan) /\ Schema!UpTo(v) = 1..v /\ Schema!UpTo(k) = 1..k
  BY <1>0 DEF Schema!Versions, Schema!UpTo
<1>4. db \in Layout
  BY <1>2
<1>5. LaidOut
  <2>1. Schema!UpTo(db.version) \subseteq db.cols
    BY <1>0, <1>2, <1>3
  <2>2. db.version > 0 => \A n \in db.cols : n <= db.version
    BY <1>0, <1>2, <1>3
  <2>3. db.backfilled = IF db.undelivered /\ db.version >= S THEN 1 ELSE 0
    BY <1>0, <1>1, <1>2, <1>3
  <2>4. db.version >= I => db.identity # Schema!Nobody
    BY <1>0, <1>2
  <2>5. db.version = 0 => k < I /\ (db.undelivered => db.cols = {})
    BY <1>0, <1>2, <1>3
  <2> QED BY <1>2, <2>1, <2>2, <2>3, <2>4, <2>5 DEF LaidOut, S, I
<1>6. Schema!Closed \in Opening
  BY <1>0 DEF Opening, Schema!Closed, Schema!Versions
<1>7. \A p \in Processes : Opener(p)
  BY <1>1 DEF Opener, WorkingPcs, Schema!Closed
<1> QED BY <1>1, <1>4, <1>5, <1>6, <1>7 DEF SchemaInv

(* A step of one process that leaves the database alone.                     *)
LEMMA OpenerStep ==
  ASSUME SchemaInv, NEW p \in Processes, db' = db, NEW m \in Opening, opener' = [opener EXCEPT ![p] = m],
         schemaLock' \in Processes \cup {Schema!Nobody},
         \A q \in Processes \ {p} : schemaLock = q => schemaLock' = q,
         Opener(p)'
  PROVE  SchemaInv'
<1>1. db' \in Layout /\ opener' \in [Processes -> Opening] /\ LaidOut'
  BY DEF SchemaInv, LaidOut
<1>2. ASSUME NEW q \in Processes, q # p PROVE Opener(q)'
  <2>1. opener'[q] = opener[q] /\ Opener(q)
    BY <1>2 DEF SchemaInv
  <2> QED BY <1>2, <2>1 DEF Opener
<1> QED BY <1>1, <1>2 DEF SchemaInv

(* A step of the holder of the lock that changes the database.               *)
LEMMA LayoutStep ==
  ASSUME PlanInOrder, SchemaInv, NEW p \in Processes, schemaLock = p, schemaLock' \in {p, Schema!Nobody},
         db' \in Layout, LaidOut', db'.exists, db'.version >= db.version,
         NEW m \in Opening, opener' = [opener EXCEPT ![p] = m], Opener(p)'
  PROVE  SchemaInv'
<1>1. opener' \in [Processes -> Opening]
  BY DEF SchemaInv
<1>2. ASSUME NEW q \in Processes, q # p PROVE Opener(q)'
  <2>1. opener'[q] = opener[q] /\ Opener(q) /\ schemaLock # q /\ opener[q] \in Opening
    BY <1>2 DEF SchemaInv
  <2>2. db.version \in Nat /\ db'.version \in Nat /\ opener[q].current \in Nat
        /\ opener[q].latest \in Builds \cup {0} /\ \A b \in Builds : b \in Nat /\ b > 0
    BY <2>1, PlanVersions DEF SchemaInv, Layout, Opening, Schema!Versions
  <2>3. opener[q].pc \in WorkingPcs =>
          db.exists /\ opener[q].current >= opener[q].latest /\ db.version >= opener[q].current
            /\ opener[q].latest \in Builds /\ opener[q].current # 0
    BY <2>1, <2>2 DEF Opener, WorkingPcs
  <2>4. opener[q].latest \in Nat
    BY <2>2
  <2> QED BY <2>1, <2>2, <2>3, <2>4 DEF Opener, WorkingPcs
<1> QED BY <1>1, <1>2 DEF SchemaInv

LEMMA OpenKeeps ==
  ASSUME PlanInOrder, SchemaInv, NEW p \in Processes, NEW latest \in Builds, Schema!Open(p, latest)
  PROVE  SchemaInv'
<1> PICK m : m = [Schema!Closed EXCEPT !.pc = "version", !.latest = latest]
  OBVIOUS
<1>1. db' = db /\ schemaLock' = schemaLock /\ opener' = [opener EXCEPT ![p] = m]
  BY DEF Schema!Open, Schema!OpenerOnly
<1>2. m \in Opening /\ m.pc = "version" /\ m.latest = latest
  <2>1. Schema!Closed \in Opening
    BY PlanVersions DEF Opening, Schema!Closed, Schema!Versions
  <2> QED BY <2>1 DEF Opening
<1>3. Opener(p)'
  BY <1>1, <1>2 DEF Opener, WorkingPcs, SchemaInv
<1> QED BY <1>1, <1>2, <1>3, OpenerStep DEF SchemaInv

LEMMA ReadVersionKeeps ==
  ASSUME PlanInOrder, SchemaInv, NEW p \in Processes, Schema!ReadVersion(p)
  PROVE  SchemaInv'
<1> PICK pc : pc = IF Schema!Newer(p) THEN "refused"
                   ELSE IF db.version < opener[p].latest THEN "lock" ELSE "exists"
  OBVIOUS
<1> PICK m : m = [opener[p] EXCEPT !.current = db.version, !.pc = pc]
  OBVIOUS
<1>1. /\ db' = db /\ schemaLock' = schemaLock /\ opener' = [opener EXCEPT ![p] = m]
      /\ opener[p].pc = "version" /\ opener[p] \in Opening /\ db \in Layout /\ Opener(p)
  BY DEF Schema!ReadVersion, Schema!OpenerOnly, Schema!Is, SchemaInv
<1>2. pc \in {"refused", "lock", "exists"} /\ db.version \in Schema!Versions /\ opener[p].latest \in Builds
  BY <1>1 DEF Opener, Layout
<1>3. m \in Opening /\ m.pc = pc /\ m.current = db.version /\ m.latest = opener[p].latest
  BY <1>1, <1>2 DEF Opening, WorkingPcs
<1>4. pc = "exists" => db.version >= opener[p].latest /\ db.exists
  <2>1. db.version \in Nat /\ opener[p].latest \in Nat /\ opener[p].latest > 0
    BY <1>2, PlanVersions DEF Schema!Versions
  <2> QED BY <2>1 DEF SchemaInv, LaidOut
<1>5. Opener(p)'
  <2>1. opener'[p] = m
    BY <1>1 DEF SchemaInv
  <2>2. db.version >= db.version
    BY <1>2, PlanVersions DEF Schema!Versions
  <2> QED BY <1>1, <1>2, <1>3, <1>4, <2>1, <2>2 DEF Opener, WorkingPcs
<1> QED BY <1>1, <1>3, <1>5, OpenerStep DEF SchemaInv

(* What changes where an opener is, and its lock.                            *)
LEMMA SchemaGoto ==
  ASSUME SchemaInv, NEW p \in Processes, NEW pc, Schema!Goto(p, pc), opener[p].pc # "closed",
         pc \in {"closed", "version", "lock", "reread", "identity", "open", "refused"} \cup WorkingPcs
  PROVE  \E m \in Opening :
           /\ opener' = [opener EXCEPT ![p] = m] /\ opener'[p] = m
           /\ m.pc = pc /\ m.latest = opener[p].latest /\ m.current = opener[p].current
           /\ m.isNew = opener[p].isNew /\ m.latest \in Builds
<1> PICK m : m = [opener[p] EXCEPT !.pc = pc]
  OBVIOUS
<1>1. opener' = [opener EXCEPT ![p] = m] /\ opener[p] \in Opening /\ opener[p].latest \in Builds /\ opener'[p] = m
  BY DEF Schema!Goto, SchemaInv, Opener
<1>2. /\ m \in Opening /\ m.pc = pc /\ m.latest = opener[p].latest /\ m.current = opener[p].current
      /\ m.isNew = opener[p].isNew
  BY <1>1 DEF Opening
<1> QED BY <1>1, <1>2

LEMMA LockSchemaKeeps ==
  ASSUME PlanInOrder, SchemaInv, NEW p \in Processes, Schema!LockSchema(p)
  PROVE  SchemaInv'
<1>1. /\ db' = db /\ schemaLock = Schema!Nobody /\ schemaLock' = p /\ Schema!Goto(p, "reread")
      /\ opener[p].pc = "lock"
  BY DEF Schema!LockSchema, Schema!Is
<1>2. PICK m \in Opening :
        opener' = [opener EXCEPT ![p] = m] /\ opener'[p] = m /\ m.pc = "reread" /\ m.latest \in Builds
  BY <1>1, SchemaGoto
<1>3. Opener(p)'
  BY <1>1, <1>2 DEF Opener, WorkingPcs
<1>4. Schema!Nobody \notin Processes
  BY PlanVersions
<1> QED BY <1>1, <1>2, <1>3, <1>4, OpenerStep

LEMMA RereadKeeps ==
  ASSUME PlanInOrder, SchemaInv, NEW p \in Processes, Schema!Reread(p)
  PROVE  SchemaInv'
<1>1. db' = db /\ opener[p].pc = "reread" /\ opener[p] \in Opening /\ schemaLock = p /\ Opener(p) /\ db \in Layout
      /\ opener[p].latest \in Builds
  BY DEF Schema!Reread, Schema!Is, SchemaInv, Opener
<1>2. CASE Schema!Newer(p)
  <2>1. Schema!Goto(p, "refused") /\ schemaLock' = Schema!Nobody
    BY <1>1, <1>2 DEF Schema!Reread, Schema!Release
  <2>2. PICK m \in Opening :
          opener' = [opener EXCEPT ![p] = m] /\ opener'[p] = m /\ m.pc = "refused" /\ m.latest \in Builds
    BY <1>1, <2>1, SchemaGoto
  <2>3. Opener(p)'
    BY <2>2 DEF Opener, WorkingPcs
  <2> QED BY <1>1, <2>1, <2>2, <2>3, OpenerStep
<1>3. CASE ~Schema!Newer(p)
  <2> PICK m : m = [opener[p] EXCEPT !.current = db.version, !.pc = "exists"]
    OBVIOUS
  <2>1. opener' = [opener EXCEPT ![p] = m] /\ schemaLock' = schemaLock
    BY <1>1, <1>3 DEF Schema!Reread, SchemaInv
  <2>2. m \in Opening /\ m.pc = "exists" /\ m.current = db.version /\ m.latest = opener[p].latest
    BY <1>1 DEF Opening, WorkingPcs, Layout
  <2>3. opener'[p] = m
    BY <2>1 DEF SchemaInv
  <2>4. Opener(p)'
    BY <1>1, <2>1, <2>2, <2>3 DEF Opener, WorkingPcs
  <2> QED BY <1>1, <2>1, <2>2, <2>4, OpenerStep
<1> QED BY <1>2, <1>3

LEMMA IsNewKeeps ==
  ASSUME PlanInOrder, SchemaInv, NEW p \in Processes, Schema!IsNewDatabase(p)
  PROVE  SchemaInv'
<1> PICK b \in BOOLEAN : b = ~db.exists
  OBVIOUS
<1> PICK m : m = [opener[p] EXCEPT !.isNew = ~db.exists, !.pc = "create"]
  OBVIOUS
<1>1. /\ db' = db /\ schemaLock' = schemaLock /\ opener[p].pc = "exists" /\ opener[p] \in Opening /\ Opener(p)
      /\ opener' = [opener EXCEPT ![p] = m]
  BY DEF Schema!IsNewDatabase, Schema!OpenerOnly, Schema!Is, SchemaInv
<1>2. /\ m \in Opening /\ m.pc = "create" /\ m.current = opener[p].current /\ m.latest = opener[p].latest
      /\ (m.isNew <=> ~db.exists)
  BY <1>1 DEF Opening, WorkingPcs
<1>3. opener'[p] = m
  BY <1>1 DEF SchemaInv
<1>4. Opener(p)'
  BY <1>1, <1>2, <1>3 DEF Opener, WorkingPcs
<1> QED BY <1>1, <1>2, <1>4, OpenerStep DEF SchemaInv

LEMMA CreateSchemaKeeps ==
  ASSUME PlanInOrder, SchemaInv, NEW p \in Processes, Schema!CreateSchema(p)
  PROVE  SchemaInv'
<1>1. /\ opener[p].pc = "create" /\ opener[p] \in Opening /\ Opener(p) /\ db \in Layout /\ LaidOut
      /\ opener[p].latest \in Builds
  BY DEF Schema!CreateSchema, Schema!Is, SchemaInv, Opener
<1>2. CASE opener[p].isNew
  <2> PICK v : v = opener[p].latest
    OBVIOUS
  <2> DEFINE I == Schema!VersionOf("identity")
  <2>1. schemaLock = p /\ ~db.exists /\ db.version = 0
    BY <1>1, <1>2 DEF Opener, WorkingPcs, LaidOut
  <2>2. /\ db' = Schema!Database(v, Schema!UpTo(v), FALSE, IF v >= I THEN p ELSE Schema!Nobody)
        /\ Schema!Goto(p, "identity") /\ schemaLock' = Schema!Nobody
    BY <1>2, <2>1 DEF Schema!CreateSchema, Schema!Finish, Schema!Release
  <2>3. /\ v \in 1..Len(Plan) /\ Len(Plan) \in Nat /\ v \in Schema!Versions /\ Schema!UpTo(v) = 1..v
        /\ p # Schema!Nobody /\ Schema!VersionOf("sends") \in Nat /\ I \in Nat
    BY <1>1, PlanVersions DEF Schema!Versions, Schema!UpTo
  <2> HIDE DEF I
  <2>4. db' = [exists |-> TRUE, version |-> v, cols |-> Schema!UpTo(v), undelivered |-> FALSE, backfilled |-> 0,
               identity |-> IF v >= I THEN p ELSE Schema!Nobody]
    BY <2>2 DEF Schema!Database
  <2>5. db' \in Layout
    BY <2>3, <2>4 DEF Layout
  <2>6. /\ db'.exists /\ db'.version = v /\ db'.cols = 1..v /\ ~db'.undelivered /\ db'.backfilled = 0
        /\ db'.identity = IF v >= I THEN p ELSE Schema!Nobody
    BY <2>3, <2>4
  <2>7. LaidOut'
    <3>1. Schema!UpTo(db'.version) \subseteq db'.cols /\ db'.version # 0 /\ \A n \in db'.cols : n <= db'.version
      BY <2>3, <2>6
    <3> QED BY <2>3, <2>6, <3>1 DEF LaidOut, I
  <2>8. PICK m \in Opening : /\ opener' = [opener EXCEPT ![p] = m] /\ opener'[p] = m /\ m.pc = "identity"
                             /\ m.latest = v /\ m.latest \in Builds
    BY <1>1, <2>2, SchemaGoto
  <2>9. Opener(p)'
    BY <2>3, <2>6, <2>8 DEF Opener, WorkingPcs
  <2>10. db'.version >= db.version
    BY <2>1, <2>3, <2>6
  <2> QED BY <2>1, <2>2, <2>5, <2>6, <2>7, <2>8, <2>9, <2>10, LayoutStep
<1>3. CASE ~opener[p].isNew
  <2>1. db' = db /\ schemaLock' = schemaLock /\ Schema!Goto(p, "stamp") /\ db.exists
    BY <1>1, <1>3 DEF Schema!CreateSchema, Opener
  <2>2. PICK m \in Opening : /\ opener' = [opener EXCEPT ![p] = m] /\ opener'[p] = m /\ m.pc = "stamp"
                             /\ m.latest = opener[p].latest /\ m.latest \in Builds /\ m.current = opener[p].current
    BY <1>1, <2>1, SchemaGoto DEF WorkingPcs
  <2>3. Opener(p)'
    BY <1>1, <2>1, <2>2 DEF Opener, WorkingPcs
  <2> QED BY <2>1, <2>2, <2>3, OpenerStep DEF SchemaInv
<1> QED BY <1>2, <1>3

(* Of numbers with a bound one is the greatest.                              *)
LEMMA GreatestOf ==
  ASSUME NEW k \in Nat, NEW S, S \subseteq 1..k, S # {}
  PROVE  \E n \in S : \A m \in S : m <= n
<1> DEFINE R == {ss \in Nat \X Nat : ss[1] < ss[2]}
           T == {k - n : n \in S}
<1>1. IsWellFoundedOn(R, Nat)
  BY NatLessThanWellFounded DEF OpToRel
<1>2. T \subseteq Nat /\ T # {}
  <2>1. \A n \in S : n \in 1..k
    OBVIOUS
  <2>2. \A n \in S : k - n \in Nat
    BY <2>1
  <2> QED BY <2>2
<1>3. PICK t \in T : \A u \in T : ~(<<u, t>> \in R)
  <2> HIDE DEF R, T
  <2> QED BY <1>1, <1>2, WFMin
<1>4. \A u \in T : ~(u < t)
  BY <1>2, <1>3
<1>5. PICK n \in S : t = k - n
  BY <1>3
<1>6. ASSUME NEW m \in S PROVE m <= n
  <2>1. k - m \in T
    OBVIOUS
  <2>2. ~(k - m < k - n)
    BY <1>4, <1>5, <2>1
  <2>3. m \in 1..k /\ n \in 1..k
    OBVIOUS
  <2> QED BY <2>2, <2>3
<1> QED BY <1>6

(* A stamp is one of the migrations whose columns are there, and no column of*)
(* a strict migration is above it.                                           *)
LEMMA Evidence ==
  ASSUME PlanInOrder, SchemaInv, NEW latest \in Builds, NEW k \in Schema!Versions,
         db.cols = Schema!UpTo(k)
  PROVE  /\ Schema!LayoutEvidence(latest) \in 0..k
         /\ \A n \in db.cols : Strict(n) => n <= Schema!LayoutEvidence(latest)
<1> DEFINE complete == {n \in Schema!UpTo(latest) : /\ Schema!Probed(n)
                          /\ \A m \in Schema!UpTo(n) : Schema!Probed(m) => m \in db.cols}
<1>0. k \in Nat /\ k <= Len(Plan) /\ Len(Plan) \in Nat /\ latest \in 1..Len(Plan)
  BY PlanVersions DEF Schema!Versions
<1>1. complete \subseteq 1..k
  BY <1>0 DEF Schema!UpTo
<1>2. ASSUME NEW n \in db.cols, Strict(n) PROVE n \in complete
  <2>1. n \in 1..k /\ n \in 1..Len(Plan)
    BY <1>0 DEF Schema!UpTo
  <2>2. n <= latest /\ Schema!Probed(n)
    BY <1>2, <2>1 DEF PlanInOrder, Strict, Schema!Probed
  <2> QED BY <1>0, <2>1, <2>2 DEF Schema!UpTo
<1>3. CASE complete = {}
  <2>1. Schema!LayoutEvidence(latest) = 0
    BY <1>3 DEF Schema!LayoutEvidence
  <2> QED BY <1>0, <1>2, <1>3, <2>1
<1>4. CASE complete # {}
  <2>1. \E n \in complete : \A m \in complete : m <= n
    <3> HIDE DEF complete
    <3> QED BY <1>0, <1>1, <1>4, GreatestOf
  <2>2. Schema!LayoutEvidence(latest) = CHOOSE n \in complete : \A m \in complete : m <= n
    BY <1>4 DEF Schema!LayoutEvidence
  <2> HIDE DEF complete
  <2>3. /\ Schema!LayoutEvidence(latest) \in complete
        /\ \A m \in complete : m <= Schema!LayoutEvidence(latest)
    BY <2>1, <2>2
  <2>4. Schema!LayoutEvidence(latest) \in 0..k
    <3>1. Schema!LayoutEvidence(latest) \in 1..k
      BY <1>1, <2>3
    <3> QED BY <1>0, <3>1
  <2>5. \A n \in db.cols : Strict(n) => n <= Schema!LayoutEvidence(latest)
    BY <1>2, <2>3
  <2> QED BY <2>4, <2>5
<1> QED BY <1>3, <1>4

LEMMA StampKeeps ==
  ASSUME PlanInOrder, SchemaInv, NEW p \in Processes, Schema!Stamp(p)
  PROVE  SchemaInv'
<1> PICK stamp : stamp = Schema!LayoutEvidence(opener[p].latest)
  OBVIOUS
<1> DEFINE I == Schema!VersionOf("identity")
           S == Schema!VersionOf("sends")
<1>1. /\ opener[p].pc = "stamp" /\ opener[p] \in Opening /\ Opener(p) /\ db \in Layout /\ LaidOut
      /\ schemaLock' = schemaLock /\ db.exists
  BY DEF Schema!Stamp, Schema!Is, SchemaInv, Opener
<1>2. /\ opener[p].latest \in Builds /\ opener[p].latest \in Nat \ {0} /\ opener[p].current \in Nat
      /\ db.version \in Nat /\ I \in Nat /\ S \in Nat \ {0} /\ Len(Plan) \in Nat /\ I <= Len(Plan)
  BY <1>1, PlanVersions DEF Opener, Opening, Layout, Schema!Versions
<1> HIDE DEF I, S
<1>3. opener[p].current = 0 =>
        /\ schemaLock = p /\ db.version = 0
        /\ stamp \in Nat /\ stamp < I
        /\ \A n \in db.cols : Strict(n) => n <= stamp
        /\ Schema!UpTo(stamp) \subseteq db.cols
        /\ stamp > 0 => ~db.undelivered
  <2> SUFFICES ASSUME opener[p].current = 0
               PROVE  /\ schemaLock = p /\ db.version = 0
                      /\ stamp \in Nat /\ stamp < I
                      /\ \A n \in db.cols : Strict(n) => n <= stamp
                      /\ Schema!UpTo(stamp) \subseteq db.cols
                      /\ stamp > 0 => ~db.undelivered
    OBVIOUS
  <2>1. schemaLock = p /\ db.version = 0
    BY <1>1, <1>2 DEF Opener, WorkingPcs
  <2>2. PICK k \in Schema!Versions : k < I /\ db.cols = Schema!UpTo(k)
    BY <1>1, <2>1 DEF LaidOut, I
  <2>3. stamp \in 0..k /\ \A n \in db.cols : Strict(n) => n <= stamp
    BY <1>2, <2>2, Evidence
  <2>4. k \in Nat /\ Schema!UpTo(stamp) \subseteq db.cols
    BY <1>2, <2>2, <2>3 DEF Schema!Versions, Schema!UpTo
  <2>5. stamp > 0 => 1 \in db.cols
    BY <2>2, <2>3, <2>4 DEF Schema!UpTo
  <2> QED BY <1>1, <1>2, <2>1, <2>2, <2>3, <2>4, <2>5 DEF LaidOut
<1>4. CASE opener[p].current = 0 /\ stamp > 0
  <2> PICK m : m = [opener[p] EXCEPT !.current = stamp, !.pc = "migrate"]
    OBVIOUS
  <2>1. db' = [db EXCEPT !.version = stamp] /\ opener' = [opener EXCEPT ![p] = m]
    BY <1>1, <1>4 DEF Schema!Stamp, SchemaInv
  <2>2. stamp \in Schema!Versions
    BY <1>2, <1>3, <1>4 DEF Schema!Versions
  <2>3. /\ db' \in Layout /\ db'.version = stamp /\ db'.cols = db.cols /\ db'.exists = db.exists
        /\ db'.undelivered = db.undelivered /\ db'.backfilled = db.backfilled /\ db'.identity = db.identity
    BY <1>1, <2>1, <2>2 DEF Layout
  <2>4. LaidOut'
    <3>1. db.backfilled = 0
      BY <1>1, <1>2, <1>3, <1>4 DEF LaidOut, S
    <3>2. \A n \in db.cols : n <= stamp \/ ~Strict(n)
      BY <1>3, <1>4
    <3>3. ~(stamp >= I) /\ stamp # 0
      BY <1>2, <1>3, <1>4
    <3> QED BY <1>1, <1>3, <1>4, <2>3, <3>1, <3>2, <3>3 DEF LaidOut, I, Strict
  <2>5. m \in Opening /\ m.pc = "migrate" /\ m.current = stamp /\ m.latest = opener[p].latest
    BY <1>1, <2>2 DEF Opening, WorkingPcs
  <2>6. opener'[p] = m
    BY <2>1 DEF SchemaInv
  <2>7. Opener(p)'
    BY <1>1, <1>2, <1>3, <1>4, <2>3, <2>5, <2>6 DEF Opener, WorkingPcs
  <2>8. db'.version >= db.version
    BY <1>3, <1>4, <2>3
  <2> QED BY <1>1, <1>3, <1>4, <2>1, <2>3, <2>4, <2>5, <2>7, <2>8, LayoutStep
<1>5. CASE ~(opener[p].current = 0 /\ stamp > 0)
  <2>1. db' = db /\ Schema!Goto(p, "migrate")
    BY <1>5 DEF Schema!Stamp
  <2>2. PICK m \in Opening : /\ opener' = [opener EXCEPT ![p] = m] /\ opener'[p] = m /\ m.pc = "migrate"
                             /\ m.latest = opener[p].latest /\ m.latest \in Builds /\ m.current = opener[p].current
    BY <1>1, <2>1, SchemaGoto DEF WorkingPcs
  <2>3. opener[p].current = 0 => \A n \in db.cols : ~Strict(n)
    <3> SUFFICES ASSUME opener[p].current = 0, NEW n \in db.cols PROVE ~Strict(n)
      OBVIOUS
    <3>1. n \in Nat \ {0}
      BY <1>1 DEF Layout
    <3> QED BY <1>3, <1>5, <3>1
  <2>4. Opener(p)'
    BY <1>1, <2>1, <2>2, <2>3 DEF Opener, WorkingPcs, Strict
  <2> QED BY <1>1, <2>1, <2>2, <2>4, OpenerStep DEF SchemaInv
<1> QED BY <1>4, <1>5

(* Nobody finds the columns of a strict migration before it makes it.        *)
LEMMA NothingTwice ==
  ASSUME PlanInOrder, SchemaInv, NEW p \in Processes, opener[p].pc = "migrate",
         opener[p].current < opener[p].latest
  PROVE  /\ schemaLock = p /\ opener[p].current = db.version /\ db.exists
         /\ opener[p].latest \in Builds
         /\ opener[p].current + 1 \in 1..Len(Plan)
         /\ \A n \in db.cols : n <= opener[p].current \/ ~Strict(n)
         /\ ~Schema!Duplicate(opener[p].current + 1)
<1>1. Opener(p) /\ opener[p] \in Opening /\ db \in Layout /\ LaidOut
  BY DEF SchemaInv
<1>2. /\ opener[p].latest \in Builds /\ opener[p].latest \in 1..Len(Plan) /\ opener[p].current \in Nat
      /\ Len(Plan) \in Nat
  BY <1>1, PlanVersions DEF Opener, Opening, Schema!Versions
<1>3. schemaLock = p /\ opener[p].current = db.version /\ db.exists
  BY <1>1, <1>2 DEF Opener, WorkingPcs
<1>4. \A n \in db.cols : n <= opener[p].current \/ ~Strict(n)
  BY <1>1, <1>2, <1>3 DEF Opener, LaidOut
<1>5. ~Schema!Duplicate(opener[p].current + 1)
  BY <1>2, <1>4 DEF Schema!Duplicate, Strict
<1> QED BY <1>2, <1>3, <1>4, <1>5

LEMMA ApplyMigrationKeeps ==
  ASSUME PlanInOrder, SchemaInv, NEW p \in Processes, Schema!ApplyMigration(p)
  PROVE  SchemaInv'
<1> DEFINE c == opener[p].current
           I == Schema!VersionOf("identity")
           S == Schema!VersionOf("sends")
<1> PICK v : v = c + 1
  OBVIOUS
<1>1. /\ opener[p].pc = "migrate" /\ opener[p] \in Opening /\ Opener(p) /\ db \in Layout /\ LaidOut
      /\ schemaLock' = schemaLock /\ v <= opener[p].latest /\ opener[p].latest \in Builds
  BY DEF Schema!ApplyMigration, Schema!Is, SchemaInv, Opener
<1>2. /\ opener[p].latest \in Nat /\ c \in Nat /\ c < opener[p].latest
      /\ I \in 1..Len(Plan) /\ S \in 1..Len(Plan) /\ Plan[I] = "identity" /\ Plan[S] = "sends"
      /\ \A n \in 1..Len(Plan) : Plan[n] = "sends" => n = S
      /\ Len(Plan) \in Nat /\ p # Schema!Nobody
  BY <1>1, PlanVersions DEF Opening, Schema!Versions
<1>3. /\ schemaLock = p /\ db.version = c /\ db.exists /\ v \in 1..Len(Plan)
      /\ \A n \in db.cols : n <= c \/ ~Strict(n)
  BY <1>1, <1>2, NothingTwice
<1> DEFINE filled == IF Plan[v] = "sends" /\ db.undelivered THEN db.backfilled + 1 ELSE db.backfilled
           identity == IF Plan[v] = "identity" /\ db.identity = Schema!Nobody THEN p ELSE db.identity
           m == [opener[p] EXCEPT !.current = v]
<1>4. /\ db' = [db EXCEPT !.version = v, !.cols = db.cols \cup {v}, !.backfilled = filled, !.identity = identity]
      /\ opener' = [opener EXCEPT ![p] = m]
  BY <1>1 DEF Schema!ApplyMigration, SchemaInv, Layout
<1>5. filled = IF db.undelivered /\ v >= S THEN 1 ELSE 0
  <2>1. db.backfilled = IF db.undelivered /\ c >= S THEN 1 ELSE 0
    BY <1>1, <1>3 DEF LaidOut
  <2>2. v \in Nat /\ v = c + 1 /\ c \in Nat /\ S \in Nat
    BY <1>2, <1>3
  <2>3. Plan[v] = "sends" <=> v = S
    BY <1>2, <1>3
  <2> HIDE DEF S, c
  <2>4. CASE v = S
    BY <2>1, <2>2, <2>3, <2>4
  <2>5. CASE v # S
    BY <2>1, <2>2, <2>3, <2>5
  <2> QED BY <2>4, <2>5
<1>6. v >= I => identity # Schema!Nobody
  BY <1>1, <1>2, <1>3 DEF LaidOut
<1>7. filled \in {0, 1} /\ identity \in Processes \cup {Schema!Nobody, "init"} /\ v \in Schema!Versions
  BY <1>1, <1>2, <1>3, <1>5 DEF Layout, Schema!Versions
<1>8. m \in Opening /\ m.pc = "migrate" /\ m.current = v /\ m.latest = opener[p].latest
  BY <1>1, <1>7 DEF Opening, WorkingPcs
<1> HIDE DEF filled, identity, m
<1>9. /\ db' \in Layout /\ db'.version = v /\ db'.cols = db.cols \cup {v} /\ db'.exists = db.exists
      /\ db'.undelivered = db.undelivered /\ db'.backfilled = filled /\ db'.identity = identity
  BY <1>1, <1>3, <1>4, <1>7 DEF Layout
<1>10. LaidOut'
  <2>1. Schema!UpTo(v) \subseteq db.cols \cup {v}
    BY <1>1, <1>2, <1>3 DEF LaidOut, Schema!UpTo
  <2>2. \A n \in db.cols \cup {v} : n <= v \/ ~Strict(n)
    <3>1. \A n \in db.cols : n \in Nat
      BY <1>1, <1>2 DEF Layout
    <3> QED BY <1>2, <1>3, <3>1
  <2>3. v # 0 /\ v \in Nat
    BY <1>2
  <2> QED BY <1>3, <1>5, <1>6, <1>9, <2>1, <2>2, <2>3 DEF LaidOut, Strict
<1>11. opener'[p] = m
  BY <1>4 DEF SchemaInv
<1>12. Opener(p)'
  BY <1>1, <1>2, <1>3, <1>8, <1>9, <1>11 DEF Opener, WorkingPcs
<1>13. db'.version >= db.version
  BY <1>2, <1>3, <1>9
<1> QED BY <1>1, <1>3, <1>4, <1>8, <1>9, <1>10, <1>12, <1>13, LayoutStep

LEMMA MigratedKeeps ==
  ASSUME PlanInOrder, SchemaInv, NEW p \in Processes, Schema!Migrated(p)
  PROVE  SchemaInv'
<1>1. /\ opener[p].pc = "migrate" /\ db' = db /\ Schema!Goto(p, "identity") /\ Opener(p)
      /\ schemaLock' = IF schemaLock = p THEN Schema!Nobody ELSE schemaLock
      /\ opener[p].current >= opener[p].latest
  BY DEF Schema!Migrated, Schema!Finish, Schema!Release, Schema!Is, SchemaInv
<1>2. PICK m \in Opening : /\ opener' = [opener EXCEPT ![p] = m] /\ opener'[p] = m /\ m.pc = "identity"
                           /\ m.latest = opener[p].latest /\ m.latest \in Builds
  BY <1>1, SchemaGoto
<1>3. db.version \in Nat /\ opener[p].current \in Nat /\ opener[p].latest \in Nat
  BY <1>2, PlanVersions DEF SchemaInv, Layout, Opening, Schema!Versions
<1>4. db.version >= opener[p].latest
  BY <1>1, <1>3 DEF Opener, WorkingPcs
<1>5. Opener(p)'
  BY <1>1, <1>2, <1>4 DEF Opener, WorkingPcs
<1> QED BY <1>1, <1>2, <1>5, OpenerStep DEF SchemaInv

LEMMA FleetIDKeeps ==
  ASSUME PlanInOrder, SchemaInv, NEW p \in Processes, Schema!FleetID(p)
  PROVE  SchemaInv'
<1>1. opener[p].pc = "identity" /\ db' = db /\ schemaLock' = schemaLock /\ Opener(p) /\ LaidOut
      /\ opener[p].latest \in Builds
  BY DEF Schema!FleetID, Schema!Is, Schema!OpenerOnly, SchemaInv, Opener
<1>2. db.version \in Nat /\ opener[p].latest \in Nat /\ Schema!VersionOf("identity") \in Nat
  BY <1>1, PlanVersions DEF SchemaInv, Layout, Schema!Versions
<1>3. ~(opener[p].latest >= Schema!VersionOf("identity") /\ db.identity = Schema!Nobody)
  BY <1>1, <1>2 DEF Opener, LaidOut
<1>4. Schema!Goto(p, "open")
  BY <1>3 DEF Schema!FleetID
<1>5. PICK m \in Opening :
        opener' = [opener EXCEPT ![p] = m] /\ opener'[p] = m /\ m.pc = "open" /\ m.latest \in Builds
  BY <1>1, <1>4, SchemaGoto
<1>6. Opener(p)'
  BY <1>5 DEF Opener, WorkingPcs
<1> QED BY <1>1, <1>5, <1>6, OpenerStep DEF SchemaInv

LEMMA CloseKeeps ==
  ASSUME PlanInOrder, SchemaInv, NEW p \in Processes, Schema!Close(p) \/ Schema!Crash(p)
  PROVE  SchemaInv'
<1>1. /\ db' = db /\ opener' = [opener EXCEPT ![p] = Schema!Closed]
      /\ schemaLock' = schemaLock \/ schemaLock' = IF schemaLock = p THEN Schema!Nobody ELSE schemaLock
  BY DEF Schema!Close, Schema!Crash, Schema!OpenerOnly, Schema!Release
<1>2. Schema!Closed \in Opening /\ Schema!Closed.pc = "closed"
  BY PlanVersions DEF Opening, Schema!Closed, Schema!Versions
<1>3. Opener(p)'
  BY <1>1, <1>2 DEF Opener, WorkingPcs, SchemaInv
<1> QED BY <1>1, <1>2, <1>3, OpenerStep DEF SchemaInv

LEMMA SchemaStepKeeps == ASSUME PlanInOrder, SchemaInv, [Schema!SchemaNext]_schemaVars PROVE SchemaInv'
<1>1. CASE UNCHANGED schemaVars
  BY <1>1 DEF schemaVars, SchemaInv, LaidOut, Opener
<1>2. ASSUME NEW p \in Processes PROVE ~Schema!MigrationFails(p)
  BY NothingTwice DEF Schema!MigrationFails, Schema!Is
<1>3. CASE Schema!SchemaNext
  BY <1>2, <1>3, OpenKeeps, ReadVersionKeeps, LockSchemaKeeps, RereadKeeps, IsNewKeeps, CreateSchemaKeeps, StampKeeps,
     ApplyMigrationKeeps, MigratedKeeps, FleetIDKeeps, CloseKeeps DEF Schema!SchemaNext, Schema!Step
<1> QED BY <1>1, <1>3

(* A version never promises a column that is not there, no migration fails,  *)
(* and the backfill of the undelivered messages runs once, whichever builds  *)
(* open the home at the same time and whoever dies (schemaversion.go:440);   *)
(* and a read-only reader finds what it selects, beside the gaps             *)
(* (schemaversion.go:275).                                                   *)
THEOREM VersionIsLayoutAlways == ASSUME PlanInOrder PROVE HomeSpec => []VersionIsLayout
<1> DEFINE Inv == (part = "schema" => SchemaInv) /\ (part = "ladder" => LadderInv)
<1>1. HomeInit => Inv
  BY SchemaInitHolds, LadderInitHolds
<1>2. Inv /\ [HomeNext]_homeVars => Inv'
  BY StepsApart, SchemaStepKeeps, LadderStepKeeps
<1>3. SchemaInv => Schema!VersionIsLayout
  <2> SUFFICES ASSUME SchemaInv PROVE Schema!VersionIsLayout
    OBVIOUS
  <2>1. LaidOut /\ \A p \in Processes : ~Schema!Is(p, "failed")
    BY DEF SchemaInv, Opening, WorkingPcs, Schema!Is
  <2>2. db.version > 0 => \A n \in db.cols : n <= db.version \/ Plan[n] \notin {"split", "column"}
    BY <2>1 DEF LaidOut, Strict
  <2>3. db.backfilled = 1 <=> db.undelivered /\ db.version >= Schema!VersionOf("sends")
    BY <2>1 DEF LaidOut
  <2> QED BY <2>1, <2>2, <2>3 DEF LaidOut, Schema!VersionIsLayout
<1>4. Inv => VersionIsLayout
  BY <1>3 DEF LadderInv, VersionIsLayout
<1> QED BY <1>1, <1>2, <1>4, PTL DEF HomeSpec

-----------------------------------------------------------------------------
(* HandRouting.  A profile's pointer names a generation that is there, only  *)
(* the holder of the lock is at work on one, and a default that has no       *)
(* harness in its name is gone with the first command.                       *)
Directory ==
    [there : BOOLEAN, current : Routing!Settings \cup {Routing!Nothing},
     generations : SUBSET Routing!Settings, harness : Harnesses \cup {Routing!None},
     effort : {Routing!None, "high"}]

WritePcs  == {"generation", "pointer", "mirrorHarness", "mirrorEffort", "cleanUp"}
RemovePcs == {"removeCurrent", "removeEffort", "removeGenerations", "removeHarness",
              "removeDirectory"}

Commanding ==
    [pc : {"idle", "ready"} \cup WritePcs \cup RemovePcs, name : Profiles \cup {Routing!None},
     setting : Routing!Settings \cup {Routing!Nothing}]

RoutingTyped ==
    /\ profile \in [Profiles -> Directory]
    /\ routes \in [Cells -> Profiles \cup {Routing!None}]
    /\ chosen \in Harnesses \cup {Routing!None}
    /\ keyed \in [Harnesses -> Harnesses \cup {Routing!None}]
    /\ routingLock \in Processes \cup {Routing!Nobody}
    /\ routing \in [Processes -> Commanding]
    /\ asked \in [Profiles -> SUBSET (Routing!Settings \cup {Routing!Nothing})]

Sound(n) ==
    LET d == profile[n] IN
    /\ d.current # Routing!Nothing => d.current \in d.generations
    /\ ~d.there => d.current = Routing!Nothing /\ d.harness = Routing!None /\ d.effort = Routing!None

Worker(p) ==
    LET w == routing[p]
        d == profile[w.name]
    IN  /\ w.pc \in WritePcs \cup RemovePcs => routingLock = p /\ w.name \in Profiles /\ d.there
        /\ w.pc \in WritePcs => w.setting \in Routing!Settings
        /\ w.pc \in WritePcs \ {"generation"} => w.setting \in d.generations
        /\ w.pc \in WritePcs \ {"generation", "pointer"} => d.current = w.setting
        /\ w.pc \in RemovePcs => w.name \in removing /\ ~Routing!Referenced(w.name)
        /\ w.pc \in RemovePcs \ {"removeCurrent"} => d.current = Routing!Nothing

DefaultsOwned ==
    /\ \A h \in Harnesses : keyed[h] \in {Routing!None, h}
    /\ unkeyed # Routing!None =>
         /\ chosen = unkeyed /\ chosen \in Harnesses /\ keyed[chosen] = Routing!None
         /\ \A p \in Processes : routing[p].pc = "idle"
    /\ Routing!DefaultIsOfItsHarness

RoutingInv ==
    /\ RoutingTyped
    /\ \A n \in Profiles : Sound(n)
    /\ \A c \in Cells : routes[c] # Routing!None => Routing!Loaded(routes[c]) # Routing!Nothing
    /\ \A n \in Profiles \ removing : Routing!Loaded(n) \in asked[n]
    /\ \A p \in Processes : Worker(p)
    /\ DefaultsOwned

(* The home is new, or its older hand had a harness on record: without one   *)
(* the default of no harness may become that of another.                     *)
HarnessOnRecord == OldHomes \subseteq {"new", "recorded"}

LEMMA RoutingFacts ==
  /\ Routing!Nobody \notin Processes /\ Routing!None \notin Harnesses \cup Profiles
  /\ Capable \subseteq Harnesses /\ Capable # {}
  /\ Routing!Nothing \notin Routing!Settings
  /\ Routing!Nothing = [harness |-> Routing!None, effort |-> Routing!None]
BY HomeAssumption DEF Routing!RoutingAssumption, Routing!Nothing, Routing!Settings

LEMMA RoutingInitHolds == ASSUME HarnessOnRecord PROVE HomeInit => RoutingInv
<1> SUFFICES ASSUME HomeInit PROVE RoutingInv
  OBVIOUS
<1>1. /\ routes = [c \in Cells |-> Routing!None] /\ keyed = [h \in Harnesses |-> Routing!None]
      /\ routingLock = Routing!Nobody /\ routing = [p \in Processes |-> Routing!Idle]
      /\ launched = Routing!NoLaunch /\ removing = {}
      /\ asked = [n \in Profiles |-> {[harness |-> profile[n].harness, effort |-> profile[n].effort]}]
  BY DEF HomeInit, Routing!RoutingInit
<1>2. PICK first : /\ profile = [n \in Profiles |-> first]
                   /\ \/ first = Routing!NoProfile
                      \/ first = [Routing!NoProfile EXCEPT !.there = TRUE,
                                    !.harness = CHOOSE h \in Capable : TRUE, !.effort = "high"]
  BY DEF HomeInit, Routing!RoutingInit
<1>3. Routing!NoProfile \in Directory
  BY RoutingFacts DEF Directory, Routing!NoProfile
<1>4. /\ first \in Directory /\ first.current = Routing!Nothing
      /\ first.there \/ (first.harness = Routing!None /\ first.effort = Routing!None)
      /\ first.there => [harness |-> first.harness, effort |-> first.effort] \in Routing!Settings
  <2>1. CASE first = Routing!NoProfile
    BY <1>3, <2>1 DEF Routing!NoProfile
  <2>2. CASE first = [Routing!NoProfile EXCEPT !.there = TRUE,
                        !.harness = CHOOSE h \in Capable : TRUE, !.effort = "high"]
    <3>1. PICK h : h = CHOOSE k \in Capable : TRUE
      OBVIOUS
    <3>2. h \in Capable /\ h \in Harnesses
      BY <3>1, RoutingFacts
    <3>3. first = [Routing!NoProfile EXCEPT !.there = TRUE, !.harness = h, !.effort = "high"]
      BY <2>2, <3>1
    <3>4. first \in Directory /\ first.there /\ first.harness = h /\ first.effort = "high"
          /\ first.current = Routing!Nothing
      <4>1. Routing!NoProfile.current = Routing!Nothing
        BY DEF Routing!NoProfile
      <4> QED BY <1>3, <3>2, <3>3, <4>1 DEF Directory
    <3> QED BY <3>2, <3>4 DEF Routing!Settings
  <2> QED BY <1>2, <2>1, <2>2
<1>5. ASSUME NEW n \in Profiles
      PROVE  /\ Sound(n) /\ asked[n] \in SUBSET (Routing!Settings \cup {Routing!Nothing})
             /\ Routing!Loaded(n) \in asked[n]
  <2>1. profile[n] = first /\ asked[n] = {[harness |-> first.harness, effort |-> first.effort]}
    BY <1>1, <1>2
  <2>2. Routing!Said(first) = [harness |-> first.harness, effort |-> first.effort]
    BY <1>4 DEF Routing!Said
  <2>3. ~first.there => Routing!Said(first) = Routing!Nothing
    BY <1>4, <2>2, RoutingFacts
  <2>4. Routing!Loaded(n) = Routing!Said(first)
    BY <1>4, <2>1, <2>2, <2>3 DEF Routing!Loaded
  <2> QED BY <1>4, <2>1, <2>2, <2>3, <2>4 DEF Sound
<1>6. Routing!Idle \in Commanding /\ Routing!Idle.pc = "idle"
  BY DEF Commanding, Routing!Idle
<1>7. RoutingTyped
  <2>1. chosen \in Harnesses \cup {Routing!None}
    BY RoutingFacts DEF HomeInit, Routing!RoutingInit
  <2> QED BY <1>1, <1>2, <1>4, <1>5, <1>6, <2>1 DEF RoutingTyped
<1>8. \A p \in Processes : Worker(p)
  BY <1>1, <1>6 DEF Worker, WritePcs, RemovePcs
<1>9. DefaultsOwned
  <2>1. PICK old \in OldHomes, h \in Capable :
          /\ chosen = IF old = "recorded" THEN h ELSE Routing!None
          /\ unkeyed = IF old = "new" THEN Routing!None ELSE h
    BY DEF HomeInit, Routing!RoutingInit
  <2>2. unkeyed # Routing!None => chosen = unkeyed /\ chosen \in Harnesses
    BY <2>1, RoutingFacts DEF HarnessOnRecord
  <2>3. Routing!DefaultIsOfItsHarness
    BY <1>1 DEF Routing!DefaultIsOfItsHarness, Routing!NoLaunch
  <2> QED BY <1>1, <1>6, <2>2, <2>3 DEF DefaultsOwned
<1> QED BY <1>1, <1>5, <1>7, <1>8, <1>9 DEF RoutingInv

(* A step of one command that leaves profiles and routes alone; what it may  *)
(* change of the defaults stays its harness's.                               *)
LEMMA CommandStep ==
  ASSUME RoutingInv, NEW p \in Processes, UNCHANGED <<profile, routes, asked, removing>>,
         NEW m \in Commanding, routing' = [routing EXCEPT ![p] = m],
         routingLock' \in Processes \cup {Routing!Nobody},
         \A q \in Processes \ {p} : routingLock = q => routingLock' = q,
         Worker(p)', DefaultsOwned', chosen' \in Harnesses \cup {Routing!None},
         keyed' \in [Harnesses -> Harnesses \cup {Routing!None}]
  PROVE  RoutingInv'
<1>1. RoutingTyped'
  BY DEF RoutingInv, RoutingTyped
<1>2. \A n : Routing!Loaded(n)' = Routing!Loaded(n) /\ Routing!Referenced(n)' = Routing!Referenced(n)
  BY DEF Routing!Loaded, Routing!Said, Routing!Referenced
<1>3. \A n \in Profiles : Sound(n)'
  BY DEF RoutingInv, Sound
<1>4. ASSUME NEW q \in Processes, q # p PROVE Worker(q)'
  <2>1. routing'[q] = routing[q] /\ Worker(q)
    BY <1>4 DEF RoutingInv, RoutingTyped
  <2> PICK w : w = routing[q]
    OBVIOUS
  <2>2. routing[q] = w /\ routing'[q] = w /\ profile'[w.name] = profile[w.name] /\ routes' = routes
        /\ removing' = removing
    BY <2>1
  <2>3. routingLock = q => routingLock' = q
    BY <1>4
  <2> QED BY <2>1, <2>2, <2>3 DEF Worker, Routing!Referenced
<1> QED BY <1>1, <1>2, <1>3, <1>4 DEF RoutingInv

(* Nobody has begun while there is an unkeyed default.                       *)
LEMMA NoneUnkeyed ==
  ASSUME RoutingInv, NEW p \in Processes, routing[p].pc # "idle"
  PROVE  unkeyed = Routing!None
BY DEF RoutingInv, DefaultsOwned

(* What leaves the defaults and the last launch as they are.                 *)
LEMMA DefaultsStay ==
  ASSUME RoutingInv, UNCHANGED <<chosen, unkeyed, keyed, launched>>, unkeyed = Routing!None
  PROVE  DefaultsOwned'
BY DEF RoutingInv, DefaultsOwned, Routing!DefaultIsOfItsHarness

(* A step of the holder of the lock on the profile it is at work on.         *)
LEMMA DirectoryStep ==
  ASSUME RoutingInv, NEW p \in Processes, UNCHANGED <<routes, chosen, unkeyed, keyed, launched>>,
         routing[p].pc # "idle", routingLock \in {p, Routing!Nobody}, routingLock' \in {p, Routing!Nobody},
         NEW n \in Profiles, NEW d \in Directory, profile' = [profile EXCEPT ![n] = d],
         NEW a \in SUBSET (Routing!Settings \cup {Routing!Nothing}), asked' = [asked EXCEPT ![n] = a],
         removing' \cup {n} = removing \cup {n},
         NEW m \in Commanding, routing' = [routing EXCEPT ![p] = m],
         Sound(n)', Worker(p)',
         Routing!Referenced(n) => Routing!Loaded(n)' # Routing!Nothing,
         n \notin removing' => Routing!Loaded(n)' \in a
  PROVE  RoutingInv'
<1>1. RoutingTyped'
  BY DEF RoutingInv, RoutingTyped
<1>2. \A k \in Profiles \ {n} : profile'[k] = profile[k] /\ asked'[k] = asked[k]
  BY DEF RoutingInv, RoutingTyped
<1>3. \A k \in Profiles \ {n} : Routing!Loaded(k)' = Routing!Loaded(k) /\ (Sound(k) => Sound(k)')
  BY <1>2 DEF Routing!Loaded, Routing!Said, Sound
<1>4. (\A c \in Cells : routes[c] # Routing!None => Routing!Loaded(routes[c]) # Routing!Nothing)'
  <2> SUFFICES ASSUME NEW c \in Cells, routes[c] # Routing!None
               PROVE  (Routing!Loaded(routes[c]) # Routing!Nothing)'
    OBVIOUS
  <2>1. routes[c] \in Profiles /\ Routing!Loaded(routes[c]) # Routing!Nothing
    BY DEF RoutingInv, RoutingTyped
  <2>2. CASE routes[c] = n
    BY <2>2 DEF Routing!Referenced
  <2>3. CASE routes[c] # n
    <3>1. PICK k \in Profiles \ {n} : k = routes[c]
      BY <2>1, <2>3
    <3> QED BY <1>3, <2>1, <3>1
  <2> QED BY <2>2, <2>3
<1>5. \A k \in Profiles \ removing' : Routing!Loaded(k)' \in asked'[k]
  <2> SUFFICES ASSUME NEW k \in Profiles \ removing' PROVE Routing!Loaded(k)' \in asked'[k]
    OBVIOUS
  <2>1. CASE k = n
    BY <2>1 DEF RoutingInv, RoutingTyped
  <2>2. CASE k # n
    BY <1>2, <1>3, <2>2 DEF RoutingInv
  <2> QED BY <2>1, <2>2
<1>6. ASSUME NEW q \in Processes, q # p PROVE Worker(q)'
  <2>1. routing'[q] = routing[q] /\ Worker(q) /\ routingLock # q
    BY <1>6, RoutingFacts DEF RoutingInv, RoutingTyped
  <2> QED BY <2>1 DEF Worker, WritePcs, RemovePcs
<1>7. \A k \in Profiles : Sound(k)'
  BY <1>3 DEF RoutingInv
<1>8. DefaultsOwned'
  <2>1. unkeyed = Routing!None
    BY NoneUnkeyed
  <2> QED BY <2>1, DefaultsStay
<1> QED BY <1>1, <1>4, <1>5, <1>6, <1>7, <1>8 DEF RoutingInv

(* A command that is over, or has not begun its own work.                    *)
LEMMA RoutingEnds ==
  ASSUME RoutingInv, NEW p \in Processes, UNCHANGED <<profile, routes, asked, removing>>,
         NEW m \in Commanding, routing' = [routing EXCEPT ![p] = m], m.pc \in {"idle", "ready"},
         routingLock' \in Processes \cup {Routing!Nobody},
         \A q \in Processes \ {p} : routingLock = q => routingLock' = q,
         DefaultsOwned', chosen' \in Harnesses \cup {Routing!None},
         keyed' \in [Harnesses -> Harnesses \cup {Routing!None}]
  PROVE  RoutingInv'
<1>1. routing'[p] = m
  BY DEF RoutingInv, RoutingTyped
<1>2. Worker(p)'
  BY <1>1 DEF Worker, WritePcs, RemovePcs
<1> QED BY <1>2, CommandStep

LEMMA IdleCommand == Routing!Idle \in Commanding /\ Routing!Idle.pc = "idle"
BY DEF Commanding, Routing!Idle

LEMMA MigrateKeeps == ASSUME RoutingInv, NEW p \in Processes, Routing!MigrateWorkerSettings(p) PROVE RoutingInv'
<1> PICK m : m = [routing[p] EXCEPT !.pc = "ready"]
  OBVIOUS
<1>1. /\ UNCHANGED <<profile, routes, asked, removing, routingLock, chosen, launched>>
      /\ routing' = [routing EXCEPT ![p] = m]
  BY DEF Routing!MigrateWorkerSettings, Routing!Goto, RoutingInv, RoutingTyped
<1>2. m \in Commanding /\ m.pc = "ready"
  BY DEF RoutingInv, RoutingTyped, Commanding
<1>3. unkeyed' = Routing!None /\ keyed' \in [Harnesses -> Harnesses \cup {Routing!None}]
      /\ \A h \in Harnesses : keyed'[h] \in {Routing!None, h}
  <2>1. CASE unkeyed = Routing!None
    BY <2>1 DEF Routing!MigrateWorkerSettings, RoutingInv, RoutingTyped, DefaultsOwned
  <2>2. CASE unkeyed # Routing!None
    <3>1. chosen = unkeyed /\ chosen \in Harnesses /\ keyed[chosen] = Routing!None
      BY <2>2 DEF RoutingInv, DefaultsOwned
    <3>2. keyed' = [keyed EXCEPT ![chosen] = unkeyed] /\ unkeyed' = Routing!None
      BY <2>2, <3>1 DEF Routing!MigrateWorkerSettings
    <3> QED BY <3>1, <3>2 DEF RoutingInv, RoutingTyped, DefaultsOwned
  <2> QED BY <2>1, <2>2
<1>4. DefaultsOwned'
  BY <1>1, <1>3 DEF RoutingInv, DefaultsOwned, Routing!DefaultIsOfItsHarness
<1> QED BY <1>1, <1>2, <1>3, <1>4, RoutingEnds DEF RoutingInv, RoutingTyped

(* A command of one step that changes a default, and the last launch.        *)
LEMMA SettingsKeep ==
  ASSUME RoutingInv, NEW p \in Processes, routing[p].pc = "ready", Routing!Free, Routing!Finish(p),
         UNCHANGED <<profile, routes, asked, removing, unkeyed>>,
         chosen' \in Harnesses \cup {Routing!None}, keyed' \in [Harnesses -> Harnesses \cup {Routing!None}],
         \A h \in Harnesses : keyed'[h] \in {Routing!None, h},
         Routing!DefaultIsOfItsHarness'
  PROVE  RoutingInv'
<1>1. unkeyed' = Routing!None
  BY NoneUnkeyed
<1>2. DefaultsOwned'
  BY <1>1 DEF DefaultsOwned
<1> QED BY <1>2, IdleCommand, RoutingEnds, RoutingFacts DEF Routing!Finish, Routing!Free

LEMMA SetHarnessKeeps ==
  ASSUME RoutingInv, NEW p \in Processes, NEW h \in Harnesses, Routing!SetHarness(p, h)
  PROVE  RoutingInv'
BY SettingsKeep DEF Routing!SetHarness, Routing!History, Routing!Is, RoutingInv, RoutingTyped, DefaultsOwned,
   Routing!DefaultIsOfItsHarness

LEMMA SetEffortKeeps ==
  ASSUME RoutingInv, NEW p \in Processes, NEW detected \in Harnesses \cup {Routing!None},
         Routing!SetEffort(p, detected)
  PROVE  RoutingInv'
<1> PICK h : h = IF chosen # Routing!None THEN chosen ELSE detected
  OBVIOUS
<1>1. keyed' = IF h \in Capable THEN [keyed EXCEPT ![h] = h] ELSE keyed
  BY DEF Routing!SetEffort
<1>2. keyed' \in [Harnesses -> Harnesses \cup {Routing!None}] /\ \A k \in Harnesses : keyed'[k] \in {Routing!None, k}
  BY <1>1, RoutingFacts DEF RoutingInv, RoutingTyped, DefaultsOwned
<1>3. Routing!DefaultIsOfItsHarness'
  <2>1. launched' = launched
    BY DEF Routing!SetEffort, Routing!History
  <2> QED BY <2>1 DEF RoutingInv, DefaultsOwned, Routing!DefaultIsOfItsHarness
<1> QED BY <1>2, <1>3, SettingsKeep DEF Routing!SetEffort, Routing!History, Routing!Is, RoutingInv, RoutingTyped

(* What is launched with a default of h is launched with h.                  *)
LEMMA LaunchFits ==
  ASSUME NEW h \in Harnesses, NEW default \in {Routing!None, h}, NEW given, NEW said,
         NEW l, l = Routing!Launch(h, Routing!Effort(given, said, default)), l.from = "default"
  PROVE  l.effort = l.harness
<1> PICK e : e = Routing!Effort(given, said, default)
  OBVIOUS
<1>1. l = [harness |-> h, effort |-> e.effort, from |-> e.from]
  BY DEF Routing!Launch
<1>2. e.from = "default"
  BY <1>1
<1>3. given = Routing!None /\ said = Routing!None /\ default # Routing!None
  <2>1. CASE given # Routing!None
    BY <1>2, <2>1 DEF Routing!Effort
  <2>2. CASE given = Routing!None /\ said # Routing!None
    BY <1>2, <2>2 DEF Routing!Effort
  <2>3. CASE given = Routing!None /\ said = Routing!None /\ default = Routing!None
    BY <1>2, <2>3 DEF Routing!Effort
  <2> QED BY <2>1, <2>2, <2>3
<1>4. e = [effort |-> default, from |-> "default"]
  BY <1>3 DEF Routing!Effort
<1> QED BY <1>1, <1>3, <1>4

LEMMA SpawnKeeps == ASSUME RoutingInv, NEW p \in Processes, Routing!Spawn(p) PROVE RoutingInv'
<1>1. PICK flag \in Harnesses \cup {Routing!None}, given \in {Routing!None, "given"},
           detected \in Harnesses \cup {Routing!None} :
        launched' \in Routing!ResolveLegacy(flag, given, detected)
                      \cup UNION {Routing!ResolveProfiled(n, flag, given) :
                                   n \in Profiles \cup {routes[c] : c \in Cells}}
  BY DEF Routing!Spawn
<1>2. \A h \in Harnesses : keyed[h] \in {Routing!None, h}
  BY DEF RoutingInv, DefaultsOwned
<1>3. ASSUME launched' \in Routing!ResolveLegacy(flag, given, detected)
      PROVE  Routing!DefaultIsOfItsHarness'
  <2> PICK h : h = IF flag # Routing!None THEN flag ELSE IF chosen # Routing!None THEN chosen ELSE detected
    OBVIOUS
  <2>1. h # Routing!None /\ launched' = Routing!Launch(h, Routing!Effort(given, Routing!None, keyed[h]))
    BY <1>3 DEF Routing!ResolveLegacy
  <2>2. h \in Harnesses
    BY <2>1 DEF RoutingInv, RoutingTyped
  <2> QED BY <1>2, <2>1, <2>2, LaunchFits DEF Routing!DefaultIsOfItsHarness
<1>4. ASSUME NEW STATE n, launched' \in Routing!ResolveProfiled(n, flag, given)
      PROVE  Routing!DefaultIsOfItsHarness'
  <2> PICK h : h = IF flag # Routing!None THEN flag ELSE Routing!Loaded(n).harness
    OBVIOUS
  <2>1. Routing!Loaded(n) # Routing!Nothing
        /\ launched' = Routing!Launch(h, Routing!Effort(given, Routing!Loaded(n).effort, keyed[h]))
    BY <1>4 DEF Routing!ResolveProfiled
  <2>2. h \in Harnesses
    BY <2>1 DEF Routing!Loaded, Routing!Settings
  <2> QED BY <1>2, <2>1, <2>2, LaunchFits DEF Routing!DefaultIsOfItsHarness
<1>5. Routing!DefaultIsOfItsHarness'
  <2>1. \/ launched' \in Routing!ResolveLegacy(flag, given, detected)
        \/ \E n : launched' \in Routing!ResolveProfiled(n, flag, given)
    BY <1>1
  <2> QED BY <2>1, <1>3, <1>4
<1>6. /\ routing[p].pc = "ready" /\ Routing!Free /\ Routing!Finish(p)
      /\ UNCHANGED <<profile, routes, chosen, unkeyed, keyed, asked, removing>>
  BY DEF Routing!Spawn, Routing!Is, Routing!Defaults
<1>7. chosen \in Harnesses \cup {Routing!None} /\ keyed \in [Harnesses -> Harnesses \cup {Routing!None}]
  BY DEF RoutingInv, RoutingTyped
<1> QED BY <1>2, <1>5, <1>6, <1>7, SettingsKeep

LEMMA EndsKeeps == ASSUME RoutingInv, NEW p \in Processes, Routing!Ends(p) PROVE RoutingInv'
<1>1. /\ UNCHANGED <<profile, routes, asked, removing, chosen, unkeyed, keyed, launched>>
      /\ routing' = [routing EXCEPT ![p] = Routing!Idle] /\ routing[p].pc # "idle"
      /\ routingLock' = IF routingLock = p THEN Routing!Nobody ELSE routingLock
  BY DEF Routing!Ends, Routing!Defaults, Routing!History, Routing!Is
<1>2. DefaultsOwned'
  BY <1>1, NoneUnkeyed, DefaultsStay
<1> QED BY <1>1, <1>2, IdleCommand, RoutingEnds DEF RoutingInv, RoutingTyped

(* What the holder of the lock is at work on.                                *)
LEMMA AtWork ==
  ASSUME RoutingInv, NEW p \in Processes, routing[p].pc \in WritePcs \cup RemovePcs
  PROVE  /\ routingLock = p /\ routing[p].pc # "idle"
         /\ routing[p].name \in Profiles /\ routing[p] \in Commanding
         /\ profile[routing[p].name] \in Directory
         /\ asked[routing[p].name] \in SUBSET (Routing!Settings \cup {Routing!Nothing})
         /\ Sound(routing[p].name) /\ Worker(p)
         /\ Routing!Referenced(routing[p].name) => Routing!Loaded(routing[p].name) # Routing!Nothing
         /\ routing[p].name \notin removing =>
              Routing!Loaded(routing[p].name) \in asked[routing[p].name]
<1>1. Worker(p) /\ RoutingTyped
  BY DEF RoutingInv
<1>2. routingLock = p /\ routing[p].name \in Profiles
  BY <1>1 DEF Worker
<1>3. Routing!Referenced(routing[p].name) => Routing!Loaded(routing[p].name) # Routing!Nothing
  <2> SUFFICES ASSUME NEW c \in Cells, routes[c] = routing[p].name
               PROVE  Routing!Loaded(routing[p].name) # Routing!Nothing
    BY DEF Routing!Referenced
  <2> QED BY <1>2, RoutingFacts DEF RoutingInv
<1> QED BY <1>1, <1>2, <1>3 DEF RoutingInv, RoutingTyped, WritePcs, RemovePcs

(* What becomes of a command at work that goes on.                           *)
LEMMA RoutingGoto ==
  ASSUME RoutingInv, NEW p \in Processes, NEW pc \in {"idle", "ready"} \cup WritePcs \cup RemovePcs,
         Routing!Goto(p, pc)
  PROVE  \E m \in Commanding :
           /\ routing' = [routing EXCEPT ![p] = m] /\ routing'[p] = m
           /\ m.pc = pc /\ m.name = routing[p].name /\ m.setting = routing[p].setting
<1> PICK m : m = [routing[p] EXCEPT !.pc = pc]
  OBVIOUS
<1>1. routing' = [routing EXCEPT ![p] = m] /\ routing'[p] = m
  BY DEF Routing!Goto, RoutingInv, RoutingTyped
<1>2. m \in Commanding /\ m.pc = pc /\ m.name = routing[p].name /\ m.setting = routing[p].setting
  BY DEF RoutingInv, RoutingTyped, Commanding
<1> QED BY <1>1, <1>2

(* A command at work, after its step.                                        *)
LEMMA WorkerAfter ==
  ASSUME NEW p \in Processes, NEW m \in Commanding, routing'[p] = m, NEW n \in Profiles, m.name = n,
         NEW d \in Directory, profile'[n] = d, routingLock' = p, d.there,
         m.pc \in WritePcs => /\ m.setting \in Routing!Settings
                              /\ m.pc = "generation" \/ m.setting \in d.generations
                              /\ m.pc \in {"generation", "pointer"} \/ d.current = m.setting,
         m.pc \in RemovePcs => /\ n \in removing' /\ ~Routing!Referenced(n)'
                               /\ m.pc = "removeCurrent" \/ d.current = Routing!Nothing
  PROVE  Worker(p)'
BY DEF Worker, Routing!Referenced

LEMMA WriteProfileKeeps ==
  ASSUME RoutingInv, NEW p \in Processes, NEW n \in Profiles, NEW s \in Routing!Settings,
         Routing!WriteProfile(p, n, s)
  PROVE  RoutingInv'
<1> PICK m : m = [pc |-> "generation", name |-> n, setting |-> s]
  OBVIOUS
<1> PICK d : d = [profile[n] EXCEPT !.there = TRUE]
  OBVIOUS
<1> PICK a : a = asked[n] \cup {s}
  OBVIOUS
<1>1. /\ UNCHANGED <<routes, chosen, unkeyed, keyed, launched, removing>>
      /\ routing[p].pc = "ready" /\ routingLock = Routing!Nobody /\ routingLock' = p
      /\ routing' = [routing EXCEPT ![p] = m] /\ profile' = [profile EXCEPT ![n] = d]
      /\ asked' = [asked EXCEPT ![n] = a]
  BY DEF Routing!WriteProfile, Routing!Defaults, Routing!Is, Routing!Free, RoutingInv, RoutingTyped
<1>2. /\ profile[n] \in Directory /\ Sound(n) /\ asked[n] \in SUBSET (Routing!Settings \cup {Routing!Nothing})
      /\ n \notin removing => Routing!Loaded(n) \in asked[n]
  BY DEF RoutingInv, RoutingTyped
<1>3. /\ d \in Directory /\ d.there /\ d.current = profile[n].current /\ d.generations = profile[n].generations
      /\ d.harness = profile[n].harness /\ d.effort = profile[n].effort
  BY <1>2 DEF Directory
<1>4. m \in Commanding /\ m.pc = "generation" /\ m.name = n /\ m.setting = s
  BY DEF Commanding, WritePcs
<1>5. profile'[n] = d /\ routing'[p] = m
  BY <1>1 DEF RoutingInv, RoutingTyped
<1>6. Sound(n)'
  BY <1>2, <1>3, <1>5 DEF Sound
<1>7. Worker(p)'
  BY <1>1, <1>3, <1>4, <1>5, WorkerAfter DEF WritePcs, RemovePcs
<1>8. Routing!Loaded(n)' = Routing!Loaded(n)
  <2>1. Routing!Said(d) = Routing!Said(profile[n])
    BY <1>3 DEF Routing!Said
  <2>2. CASE profile[n].there
    BY <1>3, <1>5, <2>1, <2>2 DEF Routing!Loaded
  <2>3. CASE ~profile[n].there
    <3>1. Routing!Said(d) = Routing!Nothing
      BY <1>2, <1>3, <2>3, RoutingFacts DEF Sound, Routing!Said
    <3>2. Routing!Loaded(n) = Routing!Nothing /\ Routing!Loaded(n)' = Routing!Nothing
      BY <1>5, <2>3, <3>1, RoutingFacts DEF Routing!Loaded
    <3> QED BY <3>2
  <2> QED BY <2>2, <2>3
<1>9. Routing!Referenced(n) => Routing!Loaded(n)' # Routing!Nothing
  BY <1>8, RoutingFacts DEF RoutingInv, Routing!Referenced
<1>10. a \in SUBSET (Routing!Settings \cup {Routing!Nothing}) /\ (n \notin removing' => Routing!Loaded(n)' \in a)
  BY <1>1, <1>2, <1>8
<1>11. /\ routing[p].pc # "idle" /\ routingLock \in {p, Routing!Nobody} /\ routingLock' \in {p, Routing!Nobody}
       /\ removing' \cup {n} = removing \cup {n}
  BY <1>1
<1> QED BY <1>1, <1>3, <1>4, <1>6, <1>7, <1>9, <1>10, <1>11, DirectoryStep

LEMMA PublishGenerationKeeps ==
  ASSUME RoutingInv, NEW p \in Processes, Routing!PublishGeneration(p)
  PROVE  RoutingInv'
<1> PICK n : n = routing[p].name
  OBVIOUS
<1> PICK s : s = routing[p].setting
  OBVIOUS
<1> PICK d : d = [profile[n] EXCEPT !.generations = profile[n].generations \cup {s}]
  OBVIOUS
<1>1. /\ UNCHANGED <<routes, chosen, unkeyed, keyed, launched, removing, asked, routingLock>>
      /\ routing[p].pc = "generation" /\ Routing!Goto(p, "pointer") /\ profile' = [profile EXCEPT ![n] = d]
  BY DEF Routing!PublishGeneration, Routing!Published, Routing!Defaults, Routing!History, Routing!Is,
     RoutingInv, RoutingTyped
<1>2. /\ routingLock = p /\ n \in Profiles /\ profile[n] \in Directory
      /\ asked[n] \in SUBSET (Routing!Settings \cup {Routing!Nothing}) /\ Sound(n) /\ Worker(p)
      /\ Routing!Referenced(n) => Routing!Loaded(n) # Routing!Nothing
      /\ n \notin removing => Routing!Loaded(n) \in asked[n]
  BY <1>1, AtWork DEF WritePcs
<1>3. s \in Routing!Settings /\ profile[n].there
  BY <1>1, <1>2 DEF Worker, WritePcs
<1>4. /\ d \in Directory /\ d.there /\ d.current = profile[n].current
      /\ d.generations = profile[n].generations \cup {s}
      /\ d.harness = profile[n].harness /\ d.effort = profile[n].effort
  BY <1>2, <1>3 DEF Directory
<1> "pointer" \in {"idle", "ready"} \cup WritePcs \cup RemovePcs
  BY DEF WritePcs
<1>5. PICK m \in Commanding : /\ routing' = [routing EXCEPT ![p] = m] /\ routing'[p] = m
                             /\ m.pc = "pointer" /\ m.name = n /\ m.setting = s
  BY <1>1, RoutingGoto
<1>6. profile'[n] = d
  BY <1>1, <1>2 DEF RoutingInv, RoutingTyped
<1>7. Sound(n)'
  BY <1>2, <1>4, <1>6 DEF Sound
<1>8. Worker(p)'
  BY <1>1, <1>2, <1>3, <1>4, <1>5, <1>6, WorkerAfter DEF WritePcs, RemovePcs
<1>9. Routing!Loaded(n)' = Routing!Loaded(n)
  <2>1. Routing!Said(d) = Routing!Said(profile[n])
    BY <1>2, <1>4 DEF Routing!Said, Sound
  <2> QED BY <1>3, <1>4, <1>6, <2>1 DEF Routing!Loaded
<1>10. asked' = [asked EXCEPT ![n] = asked[n]]
  BY <1>1 DEF RoutingInv, RoutingTyped
<1>11. /\ routing[p].pc # "idle" /\ routingLock \in {p, Routing!Nobody} /\ routingLock' \in {p, Routing!Nobody}
       /\ removing' \cup {n} = removing \cup {n}
  BY <1>1, <1>2
<1>12. n \notin removing' => Routing!Loaded(n)' \in asked[n]
  BY <1>1, <1>2, <1>9
<1>13. Routing!Referenced(n) => Routing!Loaded(n)' # Routing!Nothing
  BY <1>2, <1>9
<1> QED BY <1>1, <1>2, <1>4, <1>5, <1>7, <1>8, <1>10, <1>11, <1>12, <1>13, DirectoryStep

(* A step at work that goes on with the same command, under the lock.        *)
LEMMA PublishedStep ==
  ASSUME RoutingInv, NEW p \in Processes, routing[p].pc \in WritePcs \cup RemovePcs,
         NEW n \in Profiles, n = routing[p].name,
         UNCHANGED <<routes, chosen, unkeyed, keyed, launched, asked, removing, routingLock>>,
         NEW d \in Directory, profile' = [profile EXCEPT ![n] = d], d.there,
         d.current # Routing!Nothing => d.current \in d.generations,
         NEW pc \in WritePcs \cup RemovePcs, Routing!Goto(p, pc),
         pc \in WritePcs => /\ routing[p].setting \in Routing!Settings
                            /\ pc = "generation" \/ routing[p].setting \in d.generations
                            /\ pc \in {"generation", "pointer"} \/ d.current = routing[p].setting,
         pc \in RemovePcs => /\ n \in removing /\ ~Routing!Referenced(n)
                             /\ pc = "removeCurrent" \/ d.current = Routing!Nothing,
         Routing!Referenced(n) => Routing!Loaded(n)' # Routing!Nothing,
         n \notin removing => Routing!Loaded(n)' \in asked[n]
  PROVE  RoutingInv'
<1>1. /\ routingLock = p /\ routing[p].pc # "idle"
      /\ asked[n] \in SUBSET (Routing!Settings \cup {Routing!Nothing})
  BY AtWork
<1>2. PICK m \in Commanding : /\ routing' = [routing EXCEPT ![p] = m] /\ routing'[p] = m
                             /\ m.pc = pc /\ m.name = n /\ m.setting = routing[p].setting
  <2>1. pc \in {"idle", "ready"} \cup WritePcs \cup RemovePcs
    OBVIOUS
  <2> QED BY <2>1, RoutingGoto
<1>3. profile'[n] = d /\ asked' = [asked EXCEPT ![n] = asked[n]]
  BY DEF RoutingInv, RoutingTyped
<1>4. Sound(n)'
  BY <1>3 DEF Sound
<1>5. ~Routing!Referenced(n)' \/ Routing!Referenced(n)
  BY DEF Routing!Referenced
<1>6. Worker(p)'
  BY <1>1, <1>2, <1>3, <1>5, WorkerAfter
<1>7. /\ routingLock \in {p, Routing!Nobody} /\ routingLock' \in {p, Routing!Nobody}
      /\ removing' \cup {n} = removing \cup {n}
      /\ n \notin removing' => Routing!Loaded(n)' \in asked[n]
  BY <1>1
<1> QED BY <1>1, <1>2, <1>3, <1>4, <1>6, <1>7, DirectoryStep

LEMMA MirrorKeeps ==
  ASSUME RoutingInv, NEW p \in Processes, Routing!MirrorHarness(p) \/ Routing!MirrorEffort(p)
  PROVE  RoutingInv'
<1> PICK n : n = routing[p].name
  OBVIOUS
<1> PICK s : s = routing[p].setting
  OBVIOUS
<1>1. routing[p].pc \in {"mirrorHarness", "mirrorEffort"}
  BY DEF Routing!MirrorHarness, Routing!MirrorEffort, Routing!Is
<1>2. /\ n \in Profiles /\ profile[n] \in Directory /\ Sound(n) /\ Worker(p)
      /\ Routing!Referenced(n) => Routing!Loaded(n) # Routing!Nothing
      /\ n \notin removing => Routing!Loaded(n) \in asked[n]
  BY <1>1, AtWork DEF WritePcs
<1>3. /\ s \in Routing!Settings /\ s \in profile[n].generations /\ profile[n].current = s /\ profile[n].there
  BY <1>1, <1>2 DEF Worker, WritePcs
<1>4. s.harness \in Harnesses /\ s.effort \in {Routing!None, "high"}
  BY <1>3 DEF Routing!Settings
<1>5. UNCHANGED <<routes, chosen, unkeyed, keyed, launched, asked, removing, routingLock>>
  BY DEF Routing!MirrorHarness, Routing!MirrorEffort, Routing!Defaults, Routing!History
<1>6. PICK d \in Directory, pc \in {"mirrorEffort", "cleanUp"} :
        /\ profile' = [profile EXCEPT ![n] = d] /\ Routing!Goto(p, pc) /\ d.there
        /\ d.current = s /\ d.generations = profile[n].generations
  <2>1. CASE Routing!MirrorHarness(p)
    <3> PICK d : d = [profile[n] EXCEPT !.harness = s.harness]
      OBVIOUS
    <3>1. profile' = [profile EXCEPT ![n] = d] /\ Routing!Goto(p, "mirrorEffort")
      BY <1>2, <2>1 DEF Routing!MirrorHarness, Routing!Published, RoutingInv, RoutingTyped
    <3>2. d \in Directory /\ d.there /\ d.current = s /\ d.generations = profile[n].generations
      BY <1>2, <1>3, <1>4 DEF Directory
    <3> QED BY <3>1, <3>2
  <2>2. CASE Routing!MirrorEffort(p)
    <3> PICK d : d = [profile[n] EXCEPT !.effort = s.effort]
      OBVIOUS
    <3>1. profile' = [profile EXCEPT ![n] = d] /\ Routing!Goto(p, "cleanUp")
      BY <1>2, <2>2 DEF Routing!MirrorEffort, Routing!Published, RoutingInv, RoutingTyped
    <3>2. d \in Directory /\ d.there /\ d.current = s /\ d.generations = profile[n].generations
      BY <1>2, <1>3, <1>4 DEF Directory
    <3> QED BY <3>1, <3>2
  <2> QED BY <2>1, <2>2
<1>7. profile'[n] = d
  BY <1>2, <1>6 DEF RoutingInv, RoutingTyped
<1>8. Routing!Loaded(n) = s /\ Routing!Loaded(n)' = s
  BY <1>2, <1>3, <1>6, <1>7, RoutingFacts DEF Routing!Said, Routing!Loaded
<1>9. /\ pc \in WritePcs \cup RemovePcs /\ pc \notin RemovePcs /\ routing[p].pc \in WritePcs \cup RemovePcs
      /\ pc \notin {"generation", "pointer"}
  BY <1>1 DEF WritePcs, RemovePcs
<1>10. /\ Routing!Referenced(n) => Routing!Loaded(n)' # Routing!Nothing
       /\ n \notin removing => Routing!Loaded(n)' \in asked[n]
  BY <1>2, <1>8
<1> QED BY <1>2, <1>3, <1>5, <1>6, <1>9, <1>10, PublishedStep

LEMMA MirrorFailsKeeps ==
  ASSUME RoutingInv, NEW p \in Processes, Routing!MirrorFails(p)
  PROVE  RoutingInv'
<1>1. /\ UNCHANGED <<profile, routes, chosen, unkeyed, keyed, launched, asked, removing, routingLock>>
      /\ routing[p].pc \in {"mirrorHarness", "mirrorEffort"} /\ Routing!Goto(p, "cleanUp")
  BY DEF Routing!MirrorFails, Routing!Defaults, Routing!History
<1>2. routingLock = p /\ routing[p].pc # "idle" /\ routing[p].name \in Profiles /\ Worker(p)
      /\ profile[routing[p].name] \in Directory
  BY <1>1, AtWork DEF WritePcs
<1>3. "cleanUp" \in {"idle", "ready"} \cup WritePcs \cup RemovePcs
  BY DEF WritePcs
<1>4. PICK m \in Commanding : /\ routing' = [routing EXCEPT ![p] = m] /\ routing'[p] = m /\ m.pc = "cleanUp"
                              /\ m.name = routing[p].name /\ m.setting = routing[p].setting
  BY <1>1, <1>3, RoutingGoto
<1>5. Worker(p)'
  BY <1>1, <1>2, <1>4 DEF Worker, WritePcs, RemovePcs
<1>6. DefaultsOwned'
  BY <1>1, <1>2, NoneUnkeyed, DefaultsStay
<1> QED BY <1>1, <1>2, <1>4, <1>5, <1>6, CommandStep DEF RoutingInv, RoutingTyped

LEMMA WriteCurrentKeeps ==
  ASSUME RoutingInv, NEW p \in Processes, Routing!WriteCurrent(p)
  PROVE  RoutingInv'
<1> PICK n : n = routing[p].name
  OBVIOUS
<1> PICK s : s = routing[p].setting
  OBVIOUS
<1> PICK d : d = [profile[n] EXCEPT !.current = s]
  OBVIOUS
<1> PICK a : a = {s}
  OBVIOUS
<1>1. /\ UNCHANGED <<routes, chosen, unkeyed, keyed, launched, routingLock>>
      /\ routing[p].pc = "pointer" /\ Routing!Goto(p, "mirrorHarness")
      /\ profile' = [profile EXCEPT ![n] = d] /\ asked' = [asked EXCEPT ![n] = a]
      /\ removing' = removing \ {n}
  BY DEF Routing!WriteCurrent, Routing!Published, Routing!Defaults, Routing!Is, RoutingInv, RoutingTyped
<1>2. /\ routingLock = p /\ routing[p].pc # "idle" /\ n \in Profiles /\ profile[n] \in Directory
      /\ Sound(n) /\ Worker(p)
  BY <1>1, AtWork DEF WritePcs
<1>3. s \in Routing!Settings /\ s \in profile[n].generations /\ profile[n].there
  BY <1>1, <1>2 DEF Worker, WritePcs
<1>4. d \in Directory /\ d.there /\ d.current = s /\ d.generations = profile[n].generations
  BY <1>2, <1>3 DEF Directory
<1>5. PICK m \in Commanding : /\ routing' = [routing EXCEPT ![p] = m] /\ routing'[p] = m
                             /\ m.pc = "mirrorHarness" /\ m.name = n /\ m.setting = s
  <2>1. "mirrorHarness" \in {"idle", "ready"} \cup WritePcs \cup RemovePcs
    BY DEF WritePcs
  <2> QED BY <1>1, <2>1, RoutingGoto
<1>6. profile'[n] = d
  BY <1>1, <1>2 DEF RoutingInv, RoutingTyped
<1>7. Sound(n)'
  BY <1>3, <1>4, <1>6 DEF Sound
<1>8. m.pc \notin RemovePcs
  BY <1>5 DEF RemovePcs
<1>9. Worker(p)'
  BY <1>1, <1>2, <1>3, <1>4, <1>5, <1>6, <1>8, WorkerAfter
<1>10. Routing!Loaded(n)' = s /\ s # Routing!Nothing
  BY <1>3, <1>4, <1>6, RoutingFacts DEF Routing!Said, Routing!Loaded
<1>11. /\ routingLock \in {p, Routing!Nobody} /\ routingLock' \in {p, Routing!Nobody}
       /\ removing' \cup {n} = removing \cup {n}
       /\ a \in SUBSET (Routing!Settings \cup {Routing!Nothing})
       /\ n \notin removing' => Routing!Loaded(n)' \in a
       /\ Routing!Referenced(n) => Routing!Loaded(n)' # Routing!Nothing
  BY <1>1, <1>2, <1>3, <1>10
<1> QED BY <1>1, <1>2, <1>4, <1>5, <1>7, <1>9, <1>11, DirectoryStep

LEMMA CleanupKeeps ==
  ASSUME RoutingInv, NEW p \in Processes, Routing!CleanupProfileGenerations(p)
  PROVE  RoutingInv'
<1> PICK n : n = routing[p].name
  OBVIOUS
<1> PICK s : s = routing[p].setting
  OBVIOUS
<1> PICK d : d = [profile[n] EXCEPT !.generations = {s}]
  OBVIOUS
<1>1. /\ UNCHANGED <<routes, chosen, unkeyed, keyed, launched, asked, removing>>
      /\ routing[p].pc = "cleanUp" /\ routing' = [routing EXCEPT ![p] = Routing!Idle]
      /\ routingLock' = Routing!Nobody /\ profile' = [profile EXCEPT ![n] = d]
  BY DEF Routing!CleanupProfileGenerations, Routing!Published, Routing!Defaults, Routing!History,
         Routing!Finish, Routing!Is, RoutingInv, RoutingTyped
<1>2. /\ routingLock = p /\ routing[p].pc # "idle" /\ n \in Profiles /\ profile[n] \in Directory
      /\ asked[n] \in SUBSET (Routing!Settings \cup {Routing!Nothing}) /\ Sound(n) /\ Worker(p)
      /\ Routing!Referenced(n) => Routing!Loaded(n) # Routing!Nothing
      /\ n \notin removing => Routing!Loaded(n) \in asked[n]
  BY <1>1, AtWork DEF WritePcs
<1>3. s \in Routing!Settings /\ s \in profile[n].generations /\ profile[n].current = s /\ profile[n].there
  BY <1>1, <1>2 DEF Worker, WritePcs
<1>4. d \in Directory /\ d.there /\ d.current = s /\ d.generations = {s}
  BY <1>2, <1>3 DEF Directory
<1>5. profile'[n] = d /\ routing'[p] = Routing!Idle
  BY <1>1, <1>2 DEF RoutingInv, RoutingTyped
<1>6. Sound(n)'
  BY <1>4, <1>5 DEF Sound
<1>7. Worker(p)'
  BY <1>5, IdleCommand DEF Worker, WritePcs, RemovePcs
<1>8. Routing!Loaded(n) = s /\ Routing!Loaded(n)' = s
  BY <1>2, <1>3, <1>4, <1>5, RoutingFacts DEF Routing!Said, Routing!Loaded
<1>9. /\ routingLock \in {p, Routing!Nobody} /\ routingLock' \in {p, Routing!Nobody}
      /\ removing' \cup {n} = removing \cup {n}
      /\ n \notin removing' => Routing!Loaded(n)' \in asked[n]
      /\ Routing!Referenced(n) => Routing!Loaded(n)' # Routing!Nothing
  BY <1>1, <1>2, <1>8
<1>10. asked' = [asked EXCEPT ![n] = asked[n]]
  BY <1>1 DEF RoutingInv, RoutingTyped
<1> QED BY <1>1, <1>2, <1>4, <1>6, <1>7, <1>9, <1>10, IdleCommand, DirectoryStep

LEMMA RemoveProfileKeeps ==
  ASSUME RoutingInv, NEW p \in Processes, NEW n \in Profiles, Routing!RemoveProfile(p, n)
  PROVE  RoutingInv'
<1> PICK d : d = profile[n]
  OBVIOUS
<1> PICK a : a = asked[n]
  OBVIOUS
<1> PICK m : m = [routing[p] EXCEPT !.pc = "removeCurrent", !.name = n]
  OBVIOUS
<1>1. /\ UNCHANGED <<profile, routes, chosen, unkeyed, keyed, launched, asked>>
      /\ routing[p].pc = "ready" /\ routingLock = Routing!Nobody /\ routingLock' = p
      /\ routing' = [routing EXCEPT ![p] = m] /\ removing' = removing \cup {n}
      /\ d.there /\ ~Routing!Referenced(n)
  BY DEF Routing!RemoveProfile, Routing!Defaults, Routing!Is, Routing!Free, RoutingInv, RoutingTyped
<1>2. d \in Directory /\ Sound(n) /\ a \in SUBSET (Routing!Settings \cup {Routing!Nothing})
  BY DEF RoutingInv, RoutingTyped
<1>3. m \in Commanding /\ m.pc = "removeCurrent" /\ m.name = n
  BY DEF RoutingInv, RoutingTyped, Commanding, RemovePcs
<1>4. /\ profile' = [profile EXCEPT ![n] = d] /\ asked' = [asked EXCEPT ![n] = a]
      /\ profile'[n] = d /\ routing'[p] = m
  BY <1>1 DEF RoutingInv, RoutingTyped
<1>5. Sound(n)'
  BY <1>1, <1>2 DEF Sound
<1>6. m.pc \notin WritePcs
  BY <1>3 DEF WritePcs
<1>7. ~Routing!Referenced(n)'
  BY <1>1 DEF Routing!Referenced
<1>8. Worker(p)'
  BY <1>1, <1>2, <1>3, <1>4, <1>6, <1>7, WorkerAfter
<1>9. /\ routing[p].pc # "idle" /\ routingLock \in {p, Routing!Nobody} /\ routingLock' \in {p, Routing!Nobody}
      /\ removing' \cup {n} = removing \cup {n} /\ n \in removing'
  BY <1>1
<1> QED BY <1>1, <1>2, <1>3, <1>4, <1>5, <1>8, <1>9, DirectoryStep

(* A file of a profile goes, of one that no route names.                     *)
LEMMA RemoveFileKeeps ==
  ASSUME RoutingInv, NEW p \in Processes, Routing!RemoveFile(p)
  PROVE  RoutingInv'
<1> PICK n : n = routing[p].name
  OBVIOUS
<1>1. /\ UNCHANGED <<routes, chosen, unkeyed, keyed, launched, asked, removing, routingLock>>
      /\ routing[p].pc \in RemovePcs
  BY DEF Routing!RemoveFile, Routing!Defaults, Routing!History, Routing!Is, RemovePcs
<1>2. /\ n \in Profiles /\ profile[n] \in Directory /\ Sound(n) /\ Worker(p)
  BY <1>1, AtWork
<1>3. /\ profile[n].there /\ n \in removing /\ ~Routing!Referenced(n)
      /\ routing[p].pc = "removeCurrent" \/ profile[n].current = Routing!Nothing
  BY <1>1, <1>2 DEF Worker
<1>4. PICK d \in Directory, pc \in RemovePcs \ {"removeCurrent"} :
        /\ profile' = [profile EXCEPT ![n] = d] /\ Routing!Goto(p, pc) /\ d.there
        /\ d.current = Routing!Nothing
  <2>1. CASE /\ routing[p].pc = "removeCurrent" /\ Routing!Published(p, "current", Routing!Nothing)
             /\ Routing!Goto(p, "removeEffort")
    <3> PICK d : d = [profile[n] EXCEPT !.current = Routing!Nothing]
      OBVIOUS
    <3>1. profile' = [profile EXCEPT ![n] = d]
      BY <1>2, <2>1 DEF Routing!Published, RoutingInv, RoutingTyped
    <3>2. d \in Directory /\ d.there /\ d.current = Routing!Nothing
      BY <1>2, <1>3 DEF Directory
    <3> QED BY <2>1, <3>1, <3>2 DEF RemovePcs
  <2>2. CASE /\ routing[p].pc = "removeEffort" /\ Routing!Published(p, "effort", Routing!None)
             /\ Routing!Goto(p, "removeGenerations")
    <3> PICK d : d = [profile[n] EXCEPT !.effort = Routing!None]
      OBVIOUS
    <3>1. profile' = [profile EXCEPT ![n] = d]
      BY <1>2, <2>2 DEF Routing!Published, RoutingInv, RoutingTyped
    <3>2. d \in Directory /\ d.there /\ d.current = Routing!Nothing
      BY <1>2, <1>3, <2>2 DEF Directory
    <3> QED BY <2>2, <3>1, <3>2 DEF RemovePcs
  <2>3. CASE /\ routing[p].pc = "removeGenerations" /\ Routing!Published(p, "generations", {})
             /\ Routing!Goto(p, "removeHarness")
    <3> PICK d : d = [profile[n] EXCEPT !.generations = {}]
      OBVIOUS
    <3>1. profile' = [profile EXCEPT ![n] = d]
      BY <1>2, <2>3 DEF Routing!Published, RoutingInv, RoutingTyped
    <3>2. d \in Directory /\ d.there /\ d.current = Routing!Nothing
      BY <1>2, <1>3, <2>3 DEF Directory
    <3> QED BY <2>3, <3>1, <3>2 DEF RemovePcs
  <2>4. CASE /\ routing[p].pc = "removeHarness" /\ Routing!Published(p, "harness", Routing!None)
             /\ Routing!Goto(p, "removeDirectory")
    <3> PICK d : d = [profile[n] EXCEPT !.harness = Routing!None]
      OBVIOUS
    <3>1. profile' = [profile EXCEPT ![n] = d]
      BY <1>2, <2>4 DEF Routing!Published, RoutingInv, RoutingTyped
    <3>2. d \in Directory /\ d.there /\ d.current = Routing!Nothing
      BY <1>2, <1>3, <2>4 DEF Directory
    <3> QED BY <2>4, <3>1, <3>2 DEF RemovePcs
  <2> QED BY <2>1, <2>2, <2>3, <2>4 DEF Routing!RemoveFile, Routing!Is
<1>5. pc \notin WritePcs
  BY <1>4 DEF WritePcs, RemovePcs
<1> QED BY <1>1, <1>2, <1>3, <1>4, <1>5, PublishedStep

LEMMA RemoveDirectoryKeeps ==
  ASSUME RoutingInv, NEW p \in Processes, Routing!RemoveDirectory(p)
  PROVE  RoutingInv'
<1> PICK n : n = routing[p].name
  OBVIOUS
<1> PICK d : d = Routing!NoProfile
  OBVIOUS
<1> PICK a : a = {Routing!Nothing}
  OBVIOUS
<1>1. /\ UNCHANGED <<routes, chosen, unkeyed, keyed, launched>>
      /\ routing[p].pc = "removeDirectory" /\ routing' = [routing EXCEPT ![p] = Routing!Idle]
      /\ routingLock' = Routing!Nobody /\ profile' = [profile EXCEPT ![n] = d]
      /\ asked' = [asked EXCEPT ![n] = a] /\ removing' = removing \ {n}
  BY DEF Routing!RemoveDirectory, Routing!Defaults, Routing!Finish, Routing!Is
<1>2. /\ routingLock = p /\ routing[p].pc # "idle" /\ n \in Profiles /\ Worker(p)
  BY <1>1, AtWork DEF RemovePcs
<1>3. ~Routing!Referenced(n)
  BY <1>1, <1>2 DEF Worker, RemovePcs
<1>4. /\ d \in Directory /\ ~d.there /\ d.current = Routing!Nothing
      /\ d.harness = Routing!None /\ d.effort = Routing!None
  BY RoutingFacts DEF Directory, Routing!NoProfile
<1>5. profile'[n] = d /\ routing'[p] = Routing!Idle
  BY <1>1, <1>2 DEF RoutingInv, RoutingTyped
<1>6. Sound(n)' /\ Routing!Loaded(n)' = Routing!Nothing
  BY <1>4, <1>5 DEF Sound, Routing!Loaded
<1>7. Worker(p)'
  BY <1>5, IdleCommand DEF Worker, WritePcs, RemovePcs
<1>8. /\ routingLock \in {p, Routing!Nobody} /\ routingLock' \in {p, Routing!Nobody}
      /\ removing' \cup {n} = removing \cup {n} /\ Routing!Loaded(n)' \in a
      /\ a \in SUBSET (Routing!Settings \cup {Routing!Nothing})
  BY <1>1, <1>2, <1>6
<1> QED BY <1>1, <1>2, <1>3, <1>4, <1>6, <1>7, <1>8, IdleCommand, DirectoryStep

(* A route is changed while nobody is at work.                               *)
LEMMA RouteStep ==
  ASSUME RoutingInv, NEW p \in Processes, NEW c \in Cells, NEW n \in Profiles \cup {Routing!None},
         routing[p].pc = "ready", Routing!Free, Routing!Finish(p), routes' = [routes EXCEPT ![c] = n],
         UNCHANGED <<profile, chosen, unkeyed, keyed, launched, asked, removing>>,
         n # Routing!None => Routing!Loaded(n) # Routing!Nothing
  PROVE  RoutingInv'
<1>1. /\ routing' = [routing EXCEPT ![p] = Routing!Idle] /\ routingLock = Routing!Nobody
      /\ routingLock' = Routing!Nobody
  BY DEF Routing!Free, Routing!Finish
<1>2. RoutingTyped'
  BY <1>1, IdleCommand DEF RoutingInv, RoutingTyped
<1>3. \A k : Routing!Loaded(k)' = Routing!Loaded(k)
  BY DEF Routing!Loaded, Routing!Said
<1>4. (\A k \in Cells : routes[k] # Routing!None => Routing!Loaded(routes[k]) # Routing!Nothing)'
  <2> SUFFICES ASSUME NEW k \in Cells, routes'[k] # Routing!None
               PROVE  (Routing!Loaded(routes[k]) # Routing!Nothing)'
    OBVIOUS
  <2>1. CASE k = c
    <3>1. routes'[k] = n
      BY <2>1 DEF RoutingInv, RoutingTyped
    <3> QED BY <1>3, <3>1
  <2>2. CASE k # c
    <3>1. routes'[k] = routes[k]
      BY <2>2 DEF RoutingInv, RoutingTyped
    <3>2. Routing!Loaded(routes[k]) # Routing!Nothing
      BY <3>1 DEF RoutingInv
    <3>3. PICK l : l = routes[k]
      OBVIOUS
    <3> QED BY <1>3, <3>1, <3>2, <3>3
  <2> QED BY <2>1, <2>2
<1>5. (\A k \in Profiles : Sound(k)) /\ \A k \in Profiles \ removing : Routing!Loaded(k) \in asked[k]
  BY DEF RoutingInv
<1>6. (\A k \in Profiles : Sound(k)') /\ \A k \in Profiles \ removing' : Routing!Loaded(k)' \in asked'[k]
  BY <1>3, <1>5 DEF Sound
<1>7. ASSUME NEW q \in Processes PROVE Worker(q)'
  <2>1. routing[q].pc \notin WritePcs \cup RemovePcs
    BY <1>1, RoutingFacts DEF RoutingInv, Worker
  <2>2. routing'[q].pc \notin WritePcs \cup RemovePcs
    <3>1. routing'[q] = IF q = p THEN Routing!Idle ELSE routing[q]
      BY <1>1 DEF RoutingInv, RoutingTyped
    <3>2. "idle" \notin WritePcs \cup RemovePcs
      BY DEF WritePcs, RemovePcs
    <3> QED BY <2>1, <3>1, <3>2, IdleCommand
  <2> QED BY <2>2 DEF Worker
<1>8. DefaultsOwned'
  BY NoneUnkeyed, DefaultsStay
<1> QED BY <1>2, <1>4, <1>6, <1>7, <1>8 DEF RoutingInv

LEMMA RoutesKeep ==
  ASSUME RoutingInv, NEW p \in Processes, NEW c \in Cells,
         Routing!RemoveRoute(p, c) \/ \E n \in Profiles : Routing!WriteRoute(p, c, n)
  PROVE  RoutingInv'
<1>1. CASE Routing!RemoveRoute(p, c)
  BY <1>1, RouteStep DEF Routing!RemoveRoute, Routing!Is, Routing!Defaults, Routing!History
<1>2. ASSUME NEW n \in Profiles, Routing!WriteRoute(p, c, n) PROVE RoutingInv'
  BY <1>2, RouteStep DEF Routing!WriteRoute, Routing!Is, Routing!Defaults, Routing!History
<1> QED BY <1>1, <1>2

LEMMA RoutingStepKeeps == ASSUME RoutingInv, [Routing!RoutingNext]_routingVars PROVE RoutingInv'
<1>1. CASE UNCHANGED routingVars
  <2>1. \A n : Routing!Loaded(n)' = Routing!Loaded(n) /\ Routing!Referenced(n)' = Routing!Referenced(n)
    BY <1>1 DEF routingVars, Routing!Loaded, Routing!Said, Routing!Referenced
  <2>2. RoutingTyped' /\ (\A n \in Profiles : Sound(n)') /\ DefaultsOwned'
    BY <1>1 DEF routingVars, RoutingInv, RoutingTyped, Sound, DefaultsOwned, Routing!DefaultIsOfItsHarness
  <2>3. ASSUME NEW p \in Processes PROVE Worker(p)'
    BY <1>1 DEF routingVars, RoutingInv, Worker, Routing!Referenced
  <2>4. (\A c \in Cells : routes[c] # Routing!None => Routing!Loaded(routes[c]) # Routing!Nothing)'
    BY <1>1 DEF routingVars, RoutingInv, Routing!Loaded, Routing!Said
  <2> QED BY <1>1, <2>1, <2>2, <2>3, <2>4 DEF routingVars, RoutingInv
<1>2. CASE Routing!RoutingNext
  <2>1. PICK p \in Processes :
          \/ Routing!RoutingStep(p)
          \/ \E h \in Harnesses : Routing!SetHarness(p, h)
          \/ \E h \in Harnesses \cup {Routing!None} : Routing!SetEffort(p, h)
          \/ \E n \in Profiles : Routing!RemoveProfile(p, n)
          \/ \E n \in Profiles, s \in Routing!Settings : Routing!WriteProfile(p, n, s)
          \/ \E c \in Cells, n \in Profiles : Routing!WriteRoute(p, c, n)
          \/ \E c \in Cells : Routing!RemoveRoute(p, c)
    BY <1>2 DEF Routing!RoutingNext
  <2>2. CASE Routing!RoutingStep(p)
    BY <2>2, MigrateKeeps, PublishGenerationKeeps, WriteCurrentKeeps, MirrorKeeps, MirrorFailsKeeps, CleanupKeeps,
       RemoveFileKeeps, RemoveDirectoryKeeps, SpawnKeeps, EndsKeeps DEF Routing!RoutingStep
  <2> QED BY <2>1, <2>2, SetHarnessKeeps, SetEffortKeeps, RemoveProfileKeeps, WriteProfileKeeps, RoutesKeep
<1> QED BY <1>1, <1>2

(* No route ever names a profile that does not load, a profile says what one *)
(* command set, and no worker is launched with a default that was chosen for *)
(* another harness, whichever command was cut off between which two files    *)
(* (config.go:255, config.go:521).                                           *)
THEOREM RoutingStandsAlways == ASSUME HarnessOnRecord PROVE HomeSpec => []RoutingStands
<1> DEFINE Inv == part = "routing" => RoutingInv
<1>1. HomeInit => Inv
  BY RoutingInitHolds
<1>2. Inv /\ [HomeNext]_homeVars => Inv'
  BY StepsApart, RoutingStepKeeps
<1>3. Inv => RoutingStands
  BY DEF RoutingStands, RoutingInv, DefaultsOwned, Routing!RoutesStand, Routing!NoDanglingRoute, Routing!ProfileIsWhole
<1> QED BY <1>1, <1>2, <1>3, PTL DEF HomeSpec

=============================================================================
