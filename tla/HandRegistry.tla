------------------------------ MODULE HandRegistry ------------------------------
(***************************************************************************)
(* The registry of a user's fleet homes: hand init gives a home its        *)
(* identity, registers it and says whether the fleet is at another place   *)
(* too; every other command reads the identity of its home and is checked  *)
(* against the registry before it runs.  Homes are copied, moved, deleted  *)
(* and damaged without hand being told, and so is the registry, which is   *)
(* no authority: where it is missing, or its directory is closed to the    *)
(* user, commands run without a check.                                     *)
(***************************************************************************)
EXTENDS Naturals, FiniteSets

CONSTANTS
    Homes,      \* canonical paths
    Ids,        \* fleet identities
    Commands,   \* processes of the user
    Older,      \* where an older hand may have left a home
    MaxChanges  \* bound on what happens to directories and to the registry

RegistryAssumption ==
    IsFiniteSet(Homes) /\ IsFiniteSet(Ids) /\ "none" \notin Ids \union Homes /\ Older \subseteq Homes

None == "none"

VARIABLES
    dir,        \* dir[h]: what is at the path
    file,       \* registry.db: as a read-only open finds it
    locators,   \* <<id, home>> in fleet_locator
    minted,     \* identities that exist
    runner,     \* runner[c]: the process
    changes

registryVars == <<dir, file, locators, minted, runner, changes>>

(* A directory without a database that can be opened is unreadable; whose    *)
(* identity it would have is its own business.  An older hand's home has no  *)
(* identity yet.                                                             *)
Absent  == [at |-> "absent", id |-> None]
Unnamed == [at |-> "home", id |-> None]

(* "bare": created, its tables not yet; "closed": it cannot be looked at, or *)
(* the user has no home directory; "corrupt": it can, but not be read.       *)
FileStates == {"missing", "bare", "ok", "closed", "corrupt"}

Words == {"", "failed", "registered", "duplicate", "unchecked", "unrecorded", "recorded"}

(* steady is history: nobody has touched the process's home, another place   *)
(* of its fleet or the registry since it started.                            *)
Idle == [pc |-> "idle", home |-> None, id |-> None, word |-> "", steady |-> FALSE]

Runner ==
    [pc : {"idle", "register", "list", "told", "check", "running"},
     home : Homes \union {None}, id : Ids \union {None}, word : Words, steady : BOOLEAN]

RegistryInit ==
    /\ \E old \in SUBSET Older : dir = [h \in Homes |-> IF h \in old THEN Unnamed ELSE Absent]
    /\ file = "missing"
    /\ locators = {}
    /\ minted = {}
    /\ runner = [c \in Commands |-> Idle]
    /\ changes = 0

Goto(c, pc, word) == runner' = [runner EXCEPT ![c].pc = pc, ![c].word = word]

(* It ends, is refused or dies.                                              *)
Leave(c) ==
    /\ runner[c] # Idle
    /\ runner' = [runner EXCEPT ![c] = Idle]

-----------------------------------------------------------------------------
(* observe: what is at a home that was registered for an identity.           *)
Observed(i, h) ==
    CASE dir[h].at = "absent"     -> "missing"
      [] dir[h].at = "unreadable" -> "unreadable"
      [] dir[h].at = "home"       -> IF dir[h].id = i THEN "valid" ELSE "identity-mismatch"

Locations(i)    == {h \in Homes : <<i, h>> \in locators}
Claims(h)       == {i \in Ids : <<i, h>> \in locators}
Seen(i, status) == {h \in Locations(i) : Observed(i, h) = status}

SharedHome == \E h \in Homes : Cardinality(Claims(h)) > 1

Single(i) ==
    IF Seen(i, "identity-mismatch") # {} THEN "identity-mismatch"
    ELSE IF Seen(i, "valid") # {} THEN "ready"
    ELSE IF Seen(i, "unreadable") # {} THEN "unreadable"
    ELSE "missing"

(* classify, of an identity that is listed.                                  *)
FleetState(i) ==
    IF Cardinality(Seen(i, "valid")) > 1 THEN "duplicate"
    ELSE IF SharedHome THEN "ambiguous"
    ELSE Single(i)

-----------------------------------------------------------------------------
(* hand init, in a new place or again.                                       *)

(* A new identity is random: which of those that are not in use is all one.  *)
NewId == CHOOSE i \in Ids : i \notin minted

(* The identity of the home, minted by whoever opens it to write first.      *)
OpenHome(h, i) ==
    /\ \/ dir[h].id = i
       \/ dir[h].id = None /\ Ids \ minted # {} /\ i = NewId
    /\ dir' = [dir EXCEPT ![h] = [at |-> "home", id |-> i]]
    /\ minted' = minted \union {i}

StartInit(c, h) ==
    /\ runner[c] = Idle /\ dir[h].at # "unreadable"
    /\ \E i \in Ids :
          /\ OpenHome(h, i)
          /\ runner' = [runner EXCEPT ![c] =
                           [pc |-> "register", home |-> h, id |-> i, word |-> "", steady |-> TRUE]]
    /\ UNCHANGED <<file, locators, changes>>

(* Mutant: a fleet has one locator, the one seen last.                       *)
RegisterLastHome(c) ==
    /\ runner[c].pc = "register" /\ file \notin {"closed", "corrupt"}
    /\ file' = "ok"
    /\ locators' = {l \in locators : l[1] # runner[c].id} \union {<<runner[c].id, runner[c].home>>}
    /\ Goto(c, "list", "")
    /\ UNCHANGED <<dir, minted, changes>>

(* The file and its tables where they are not there yet, then the locator, in*)
(* one transaction with the display's last known home; no locator is ever    *)
(* deleted.                                                                  *)
Register(c) ==
    /\ runner[c].pc = "register" /\ file \notin {"closed", "corrupt"}
    /\ file' = "ok"
    /\ locators' = locators \union {<<runner[c].id, runner[c].home>>}
    /\ Goto(c, "list", "")
    /\ UNCHANGED <<dir, minted, changes>>

(* It cannot be opened, locked or written, at whichever statement: the home  *)
(* is initialized all the same.                                              *)
FailToRegister(c) ==
    /\ runner[c].pc = "register"
    /\ \/ UNCHANGED file
       \/ file \in {"missing", "bare"} /\ file' \in {"bare", "ok"}
    /\ Goto(c, "told", "failed")
    /\ UNCHANGED <<dir, locators, minted, changes>>

(* registerFleet's answer, from the list it reads after it registered.       *)
Answer(c) ==
    /\ runner[c].pc = "list"
    /\ \/ Goto(c, "told", IF FleetState(runner[c].id) = "duplicate" THEN "duplicate"
                          ELSE "registered")
       \/ Goto(c, "told", "failed")
    /\ UNCHANGED <<dir, file, locators, minted, changes>>

-----------------------------------------------------------------------------
(* Every other command: Preflight.                                           *)

Check(h, i) ==
    IF Claims(h) \ {i} # {} THEN "ambiguous"
    ELSE IF Seen(i, "valid") \ {h} # {} THEN "duplicate"
    ELSE "pass"

(* A command that only reads is let into a home without an identity.         *)
StartUnnamed(c, h) ==
    /\ runner[c] = Idle /\ dir[h] = Unnamed
    /\ runner' = [runner EXCEPT ![c] = [pc |-> "running", home |-> h, id |-> None,
                                        word |-> "unchecked", steady |-> TRUE]]
    /\ UNCHANGED <<dir, file, locators, minted, changes>>

StartCommand(c, h) ==
    /\ runner[c] = Idle /\ dir[h].at = "home"
    /\ \E i \in Ids :
          /\ OpenHome(h, i)
          /\ runner' = [runner EXCEPT ![c] =
                           [pc |-> "check", home |-> h, id |-> i, word |-> "", steady |-> TRUE]]
    /\ UNCHANGED <<file, locators, changes>>

(* Without a registry there is no check; one that is there but cannot be     *)
(* read refuses the command.  The locators are one query; of the homes that  *)
(* are looked at after it only an identity that was just minted can be new,  *)
(* which is nobody else's.                                                   *)
MeetRegistry(c) ==
    LET h == runner[c].home
        i == runner[c].id IN
    /\ runner[c].pc = "check"
    /\ \/ file \in {"missing", "closed"} /\ Goto(c, "running", "unchecked")
       \/ /\ file = "ok" /\ Check(h, i) = "pass"
          /\ Goto(c, "running", IF h \in Locations(i) THEN "recorded" ELSE "unrecorded")
       \/ (file = "ok" => Check(h, i) # "pass") /\ file \notin {"missing", "closed"} /\ Leave(c)
    /\ UNCHANGED <<dir, file, locators, minted, changes>>

-----------------------------------------------------------------------------
(* What happens to directories and to the registry.                          *)

(* Who is at one of these homes, or of one of these fleets, is unsettled.    *)
Unsettled(homes, ids) ==
    runner' = [c \in Commands |->
                  [runner[c] EXCEPT !.steady = @ /\ runner[c].home \notin homes
                                                 /\ runner[c].id \notin ids \ {None}]]

Happens ==
    /\ changes < MaxChanges /\ changes' = changes + 1
    /\ UNCHANGED minted

ChangeDir(h, content) ==
    /\ Happens
    /\ dir' = [dir EXCEPT ![h] = content]
    /\ Unsettled({h}, {dir[h].id})
    /\ UNCHANGED <<file, locators>>

(* The source of a copy stays what it is.                                    *)
Copy(h, to) ==
    /\ dir[h].at # "absent" /\ dir[to].at = "absent"
    /\ Happens
    /\ dir' = [dir EXCEPT ![to] = dir[h]]
    /\ UNCHANGED <<file, locators, runner>>

Move(h, to) ==
    /\ dir[h].at # "absent" /\ dir[to].at = "absent"
    /\ Happens
    /\ dir' = [dir EXCEPT ![to] = dir[h], ![h] = Absent]
    /\ Unsettled({h}, {dir[h].id})
    /\ UNCHANGED <<file, locators>>

Delete(h) == dir[h].at # "absent" /\ ChangeDir(h, Absent)
Damage(h) == dir[h].at = "home" /\ ChangeDir(h, [dir[h] EXCEPT !.at = "unreadable"])
Repair(h) == dir[h].at = "unreadable" /\ ChangeDir(h, [dir[h] EXCEPT !.at = "home"])

(* Nobody takes the file away while an init has it open.                     *)
ChangeRegistry(to) ==
    /\ Happens
    /\ \A c \in Commands : runner[c].pc # "list"
    /\ file' = to
    /\ locators' = IF to = "missing" THEN {} ELSE locators
    /\ Unsettled(Homes, Ids)
    /\ UNCHANGED dir

LoseRegistry   == file # "missing" /\ ChangeRegistry("missing")
DamageRegistry == file = "ok" /\ \E to \in {"closed", "corrupt"} : ChangeRegistry(to)
RepairRegistry == file \in {"closed", "corrupt"} /\ ChangeRegistry("ok")

RegistryNext ==
    \/ \E c \in Commands :
          \/ Register(c) \/ FailToRegister(c) \/ Answer(c) \/ MeetRegistry(c)
          \/ Leave(c) /\ UNCHANGED <<dir, file, locators, minted, changes>>
          \/ \E h \in Homes : StartInit(c, h) \/ StartUnnamed(c, h) \/ StartCommand(c, h)
    \/ \E h \in Homes : Delete(h) \/ Damage(h) \/ Repair(h)
    \/ \E h, to \in Homes : Copy(h, to) \/ Move(h, to)
    \/ LoseRegistry \/ DamageRegistry \/ RepairRegistry

RegistrySpec == RegistryInit /\ [][RegistryNext]_registryVars

-----------------------------------------------------------------------------
Is(c, pc, word) == runner[c].pc = pc /\ runner[c].word = word /\ runner[c].steady

(* Two processes at two homes of one fleet.                                  *)
OfOneFleet(c, d) ==
    runner[c].home # runner[d].home /\ runner[c].id = runner[d].id /\ runner[c].id # None

(* Of two homes that were registered for one fleet, however the two inits    *)
(* interleave, at least one was told of the other.                           *)
OneIsTold ==
    \A c, d \in Commands :
        OfOneFleet(c, d) /\ Is(c, "told", "registered") => ~Is(d, "told", "registered")

(* Who was told so is let in nowhere: the homes of the fleet refuse commands *)
(* until a directory of it or the registry is touched.                       *)
ToldIsRefused ==
    \A c \in Commands :
        Is(c, "told", "duplicate") => file = "ok" /\ Check(runner[c].home, runner[c].id) # "pass"

(* While a checked command runs at a registered home, a readable registry    *)
(* lets no other home of its fleet in, registered or not; so that no two     *)
(* registered ones operate, unless the registry was missing or closed.       *)
OneHomeOperates ==
    /\ \A c \in Commands : Is(c, "running", "recorded") =>
          \A h \in Homes \ {runner[c].home} : Check(h, runner[c].id) # "pass"
    /\ \A c, d \in Commands :
          OfOneFleet(c, d) /\ Is(c, "running", "recorded") => ~Is(d, "running", "recorded")

(* What the registry is for: a fleet at two places is told, refused, and     *)
(* operates at one.                                                          *)
FleetsAreTold == OneIsTold /\ ToldIsRefused /\ OneHomeOperates

(* What the list says of a fleet is about that fleet ("one home is registered*)
(* for multiple Fleet identities", registry.go:373): an ambiguous fleet has  *)
(* such a home.                                                              *)
AmbiguousIsOwn ==
    \A i \in Ids : Locations(i) # {} /\ FleetState(i) = "ambiguous"
        => \E h \in Locations(i) : Cardinality(Claims(h)) > 1

=============================================================================
