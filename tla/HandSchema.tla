------------------------------ MODULE HandSchema ------------------------------
(***************************************************************************)
(* Opening state/hand.db: builds of hand of different versions open one    *)
(* database at the same time, migrate it one transaction per version under *)
(* the lock "schema", and die between any two statements.                  *)
(*                                                                         *)
(* A version is what its migration does, so Plan is the list of kinds: the *)
(* split of task and attempt, a plain ALTER TABLE, the send table with the *)
(* backfill of the messages that were not delivered, a column that is only *)
(* added where it is missing, and the fleet identity.  A statement outside *)
(* a transaction, and a transaction, is one step.                          *)
(***************************************************************************)
EXTENDS Naturals, Sequences, FiniteSets, SequencesExt

CONSTANTS
    Openers,    \* processes that open the database
    Plan,       \* migrations: what every version since 0 changes
    Builds,     \* latest versions of the builds that are in use
    MaxCrashes

MigrationKinds == {"split", "column", "sends", "guarded", "identity"}

SchemaAssumption ==
    /\ Plan \in Seq(MigrationKinds)
    /\ Builds \subseteq 1..Len(Plan)
    /\ MaxCrashes \in Nat

Nobody == "nobody"

VARIABLES
    db,         \* state/hand.db
    schemaLock, \* holder of the lock "schema"
    opener,     \* opener[p]: where Open is, and its local variables
    crashes

schemaVars == <<db, schemaLock, opener, crashes>>

Versions == 0..Len(Plan)
UpTo(n)  == 1..n

(* The version whose migration is the first of a kind.                       *)
VersionOf(kind) == CHOOSE n \in 1..Len(Plan) : Plan[n] = kind

(* cols: the versions whose columns and tables are there.  backfilled counts *)
(* what the backfill made of one message; identity is who minted it.         *)
Database(version, cols, undelivered, identity) ==
    [exists |-> TRUE, version |-> version, cols |-> cols, undelivered |-> undelivered,
     backfilled |-> 0, identity |-> identity]

NoDatabase == [Database(0, {}, FALSE, Nobody) EXCEPT !.exists = FALSE]

Closed == [pc |-> "closed", latest |-> 0, current |-> 0, isNew |-> FALSE]

(* A home may be new, or from any version since the baseline; or one that an *)
(* older build created and could not stamp.  Only a build that knows the     *)
(* identity mints one, and only rows older than the send table carry the     *)
(* message of a send that was not delivered.                                 *)
Stamped ==
    {Database(v, UpTo(v), u, IF v >= VersionOf("identity") THEN "init" ELSE Nobody) :
        v \in Versions, u \in BOOLEAN}

Unstamped ==
    {Database(0, UpTo(v), FALSE, Nobody) : v \in VersionOf("split")..(VersionOf("identity") - 1)}

InitialDatabases == {NoDatabase} \cup Stamped \cup Unstamped

SchemaInit ==
    /\ db \in {d \in InitialDatabases : d.undelivered => d.version < VersionOf("sends")}
    /\ schemaLock = Nobody
    /\ opener = [p \in Openers |-> Closed]
    /\ crashes = 0

-----------------------------------------------------------------------------
Goto(p, pc)   == opener' = [opener EXCEPT ![p].pc = pc]
Is(p, pc)     == opener[p].pc = pc
DbOnly        == UNCHANGED <<schemaLock, opener, crashes>>
OpenerOnly    == UNCHANGED <<db, schemaLock, crashes>>

(* Open, by a build whose migrations end at latest.                          *)
Open(p, latest) ==
    /\ Is(p, "closed")
    /\ opener' = [opener EXCEPT ![p] = [Closed EXCEPT !.pc = "version", !.latest = latest]]
    /\ OpenerOnly

Newer(p) == db.version > opener[p].latest

(* migrateSchema: refuse what is newer; nothing to migrate takes no lock.    *)
ReadVersion(p) ==
    /\ Is(p, "version")
    /\ opener' = [opener EXCEPT
         ![p].current = db.version,
         ![p].pc = IF Newer(p) THEN "refused"
                   ELSE IF db.version < opener[p].latest THEN "lock" ELSE "exists"]
    /\ OpenerOnly

LockSchema(p) ==
    /\ Is(p, "lock")
    /\ schemaLock = Nobody
    /\ schemaLock' = p
    /\ Goto(p, "reread")
    /\ UNCHANGED <<db, crashes>>

Release(p) == schemaLock' = IF schemaLock = p THEN Nobody ELSE schemaLock

(* Mutant: what was read before the lock still holds.                        *)
RereadNothing(p) ==
    /\ Is(p, "reread")
    /\ Goto(p, "exists")
    /\ OpenerOnly

(* Another process may have migrated while this one waited.                  *)
Reread(p) ==
    /\ Is(p, "reread")
    /\ IF Newer(p)
       THEN Goto(p, "refused") /\ Release(p)
       ELSE /\ opener' = [opener EXCEPT ![p].current = db.version, ![p].pc = "exists"]
            /\ UNCHANGED schemaLock
    /\ UNCHANGED <<db, crashes>>

IsNewDatabase(p) ==
    /\ Is(p, "exists")
    /\ opener' = [opener EXCEPT ![p].isNew = ~db.exists, ![p].pc = "create"]
    /\ OpenerOnly

Finish(p, next) == Goto(p, next) /\ Release(p)

(* createSchema: a new database gets the layout, an identity and the stamp   *)
(* in one transaction.  In another, the script adds the tables that are      *)
(* missing; that of the identity is the only one a migration adds too.       *)
CreateSchema(p) ==
    /\ Is(p, "create")
    /\ IF opener[p].isNew
       THEN /\ db' = Database(opener[p].latest, UpTo(opener[p].latest), FALSE,
                              IF opener[p].latest >= VersionOf("identity") THEN p ELSE Nobody)
            /\ Finish(p, "identity")
       ELSE /\ UNCHANGED <<db, schemaLock>>
            /\ Goto(p, "stamp")
    /\ UNCHANGED crashes

(* The ladder: which columns show how far an unstamped layout has come.  The *)
(* send table and the identity are not asked for.                            *)
Probed(n) == Plan[n] \in {"split", "column", "guarded"}

LayoutEvidence(latest) ==
    LET complete == {n \in UpTo(latest) : /\ Probed(n)
                                          /\ \A m \in UpTo(n) : Probed(m) => m \in db.cols}
    IN  IF complete = {} THEN 0 ELSE CHOOSE n \in complete : \A m \in complete : m <= n

(* stampSchemaVersion.                                                       *)
Stamp(p) ==
    /\ Is(p, "stamp")
    /\ LET stamp == LayoutEvidence(opener[p].latest) IN
       IF opener[p].current = 0 /\ stamp > 0
       THEN /\ db' = [db EXCEPT !.version = stamp]
            /\ opener' = [opener EXCEPT ![p].current = stamp, ![p].pc = "migrate"]
       ELSE UNCHANGED db /\ Goto(p, "migrate")
    /\ UNCHANGED <<schemaLock, crashes>>

(* A migration that finds its own columns: a duplicate column, or a table of *)
(* the old layout that is gone, fails it; the others look before they add.   *)
Duplicate(v) == Plan[v] \in {"split", "column"} /\ v \in db.cols

(* applyMigration, to the version after current.                             *)
ApplyMigration(p) ==
    LET v == opener[p].current + 1 IN
    /\ Is(p, "migrate") /\ v <= opener[p].latest
    /\ ~Duplicate(v)
    /\ db' = [db EXCEPT
         !.version = v,
         !.cols = @ \cup {v},
         !.backfilled = IF Plan[v] = "sends" /\ db.undelivered THEN @ + 1 ELSE @,
         !.identity = IF Plan[v] = "identity" /\ @ = Nobody THEN p ELSE @]
    /\ opener' = [opener EXCEPT ![p].current = v]
    /\ UNCHANGED <<schemaLock, crashes>>

MigrationFails(p) ==
    /\ Is(p, "migrate") /\ opener[p].current < opener[p].latest
    /\ Duplicate(opener[p].current + 1)
    /\ Finish(p, "failed")
    /\ UNCHANGED <<db, crashes>>

Migrated(p) ==
    /\ Is(p, "migrate") /\ opener[p].current >= opener[p].latest
    /\ Finish(p, "identity")
    /\ UNCHANGED <<db, crashes>>

(* The last statement of Open, FleetID, of the builds that know it.          *)
FleetID(p) ==
    /\ Is(p, "identity")
    /\ Goto(p, IF opener[p].latest >= VersionOf("identity") /\ db.identity = Nobody
               THEN "failed" ELSE "open")
    /\ OpenerOnly

(* Every command opens the database for itself, and may be the next build.   *)
Close(p) ==
    /\ opener[p].pc \in {"open", "refused"}
    /\ opener' = [opener EXCEPT ![p] = Closed]
    /\ OpenerOnly

(* sqlite rolls its open transaction back and the kernel frees its lock.     *)
Crash(p) ==
    /\ crashes < MaxCrashes /\ crashes' = crashes + 1
    /\ ~Is(p, "closed")
    /\ opener' = [opener EXCEPT ![p] = Closed]
    /\ Release(p)
    /\ UNCHANGED db

Step(p) ==
    \/ ReadVersion(p) \/ LockSchema(p) \/ Reread(p) \/ IsNewDatabase(p)
    \/ CreateSchema(p) \/ Stamp(p) \/ ApplyMigration(p) \/ MigrationFails(p)
    \/ Migrated(p) \/ FleetID(p)

SchemaNext ==
    \E p \in Openers :
        \/ \E latest \in Builds : Open(p, latest)
        \/ Step(p)
        \/ Close(p)
        \/ Crash(p)

SchemaSpec == SchemaInit /\ [][SchemaNext]_schemaVars

-----------------------------------------------------------------------------
(* The version is what was done (schemaversion.go:440): it never promises a  *)
(* column that is not there, and what is there ahead of it (in a home that   *)
(* an old build left without a stamp) is only what a migration tolerates to  *)
(* find; so no migration fails, and the backfill ran once if it ran, whoever *)
(* died or raced before it.                                                  *)
VersionIsLayout ==
    /\ UpTo(db.version) \subseteq db.cols
    /\ db.version > 0 => \A n \in db.cols : n <= db.version \/ Plan[n] \notin {"split", "column"}
    /\ db.backfilled = 1 <=> db.undelivered /\ db.version >= VersionOf("sends")
    /\ \A p \in Openers : ~Is(p, "failed")

(* What the decision record says (the-schema-version-lives-in-pragma-user-   *)
(* version.md, "Decision"): a database newer than the build is refused       *)
(* before other statements run.                                              *)
NewerIsRefused ==
    [][\A p \in Openers : Is(p, "create") /\ ~Is(p, "create")' => db.version <= opener[p].latest]_schemaVars

=============================================================================
