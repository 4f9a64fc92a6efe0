------------------------------ MODULE HandRouting ------------------------------
(***************************************************************************)
(* Which harness, and which effort, a worker is launched with: profiles,   *)
(* routes from a cell (kind of task and execution class) to a profile, and *)
(* the defaults of the home, kept as small files under config/ and changed *)
(* under the lock "config:routing" by commands that fail and die between   *)
(* two files.                                                              *)
(*                                                                         *)
(* Model and effort are alike to all of this; the model has the effort. The*)
(* value of a default is the harness that it was chosen for.               *)
(***************************************************************************)
EXTENDS Naturals, FiniteSets

CONSTANTS
    Commands,   \* processes that run one command after another
    Profiles,   \* names of profiles
    Cells,      \* <<kind, class>> of a route
    Harnesses,  \* supported harnesses
    Capable,    \* Harnesses that take an effort
    OldHomes,   \* what an older hand may have left, see RoutingInit
    MaxCommands

Nobody  == "nobody"
None    == "none"

RoutingAssumption ==
    /\ Nobody \notin Commands
    /\ None \notin Harnesses \cup Profiles
    /\ Capable \subseteq Harnesses /\ Capable # {}

Nothing == [harness |-> None, effort |-> None]

(* What a profile says.  ValidateProfile.                                    *)
Settings == {s \in [harness : Harnesses, effort : {None, "high"}] :
                s.effort # None => s.harness \in Capable}

VARIABLES
    profile,    \* profile[n]: the directory config/profiles/n
    routes,     \* routes[c]: name of a profile
    chosen,     \* config/harness
    unkeyed,    \* config/effort of an older hand
    keyed,      \* keyed[h]: config/effort.h
    lock,       \* holder of "config:routing"
    command,    \* command[p]: where it is, and what it sets or removes
    launched,   \* how the last worker was launched
    asked,      \* asked[n]: what n may say (history)
    removing,   \* profiles whose removal has begun (history)
    begun

routingVars == <<profile, routes, chosen, unkeyed, keyed, lock, command, launched,
                 asked, removing, begun>>

NoProfile == [there |-> FALSE, current |-> Nothing, generations |-> {},
              harness |-> None, effort |-> None]
Idle      == [pc |-> "idle", name |-> None, setting |-> Nothing]
NoLaunch  == [harness |-> None, effort |-> None, from |-> "nothing"]

(* A profile of an older hand has its fields directly in its directory; an   *)
(* older default has no harness in its name, and its home may or may not have*)
(* had one on record ("recorded", "unrecorded").                             *)
RoutingInit ==
    /\ profile \in {[n \in Profiles |-> NoProfile],
                    [n \in Profiles |-> [NoProfile EXCEPT !.there = TRUE,
                        !.harness = CHOOSE h \in Capable : TRUE, !.effort = "high"]]}
    /\ routes = [c \in Cells |-> None]
    /\ keyed = [h \in Harnesses |-> None]
    /\ \E old \in OldHomes, h \in Capable :
         /\ chosen = IF old = "recorded" THEN h ELSE None
         /\ unkeyed = IF old = "new" THEN None ELSE h
    /\ lock = Nobody
    /\ command = [p \in Commands |-> Idle]
    /\ launched = NoLaunch
    /\ asked = [n \in Profiles |->
                  {[harness |-> profile[n].harness, effort |-> profile[n].effort]}]
    /\ removing = {}
    /\ begun = 0

-----------------------------------------------------------------------------
(* loadProfile: through the pointer, or the fields of a profile without one. *)
Said(d) == IF d.current = Nothing THEN [harness |-> d.harness, effort |-> d.effort]
           ELSE IF d.current \in d.generations THEN d.current
           ELSE Nothing

Loaded(n) == IF profile[n].there /\ Said(profile[n]) \in Settings THEN Said(profile[n]) ELSE Nothing

Referenced(n) == \E c \in Cells : routes[c] = n

Is(p, pc)   == command[p].pc = pc
Goto(p, pc) == command' = [command EXCEPT ![p].pc = pc]
Finish(p)   == command' = [command EXCEPT ![p] = Idle] /\ lock' = Nobody
Free        == lock = Nobody
Defaults    == <<chosen, unkeyed, keyed>>
History     == <<launched, asked, removing, begun>>

(* What a command does before its own work, root.go:39: an unkeyed default   *)
(* moves under the configured harness, unless that has one.                  *)
MigrateWorkerSettings(p) ==
    /\ Is(p, "idle") /\ Free
    /\ begun < MaxCommands /\ begun' = begun + 1
    /\ IF chosen # None /\ unkeyed # None /\ keyed[chosen] = None
       THEN keyed' = [keyed EXCEPT ![chosen] = unkeyed] /\ unkeyed' = None
       ELSE UNCHANGED <<unkeyed, keyed>>
    /\ Goto(p, "ready")
    /\ UNCHANGED <<profile, routes, chosen, lock, launched, asked, removing>>

(* hand config set harness.                                                  *)
SetHarness(p, h) ==
    /\ Is(p, "ready") /\ Free
    /\ chosen' = h
    /\ Finish(p)
    /\ UNCHANGED <<profile, routes, unkeyed, keyed, History>>

(* Mutant: the default is written as an older hand wrote it.                 *)
SetEffortUnkeyed(p, detected) ==
    /\ Is(p, "ready") /\ Free
    /\ LET h == IF chosen # None THEN chosen ELSE detected IN
       unkeyed' = IF h \in Capable THEN h ELSE unkeyed
    /\ Finish(p)
    /\ UNCHANGED <<profile, routes, chosen, keyed, History>>

(* hand config set effort, for the harness workers are launched with now.    *)
SetEffort(p, detected) ==
    /\ Is(p, "ready") /\ Free
    /\ LET h == IF chosen # None THEN chosen ELSE detected IN
       keyed' = IF h \in Capable THEN [keyed EXCEPT ![h] = h] ELSE keyed
    /\ Finish(p)
    /\ UNCHANGED <<profile, routes, chosen, unkeyed, History>>

-----------------------------------------------------------------------------
(* writeProfile: a complete generation, the pointer to it, and then what an  *)
(* older hand reads and what nobody reads, as far as it goes.                *)
WriteProfile(p, n, s) ==
    /\ Is(p, "ready") /\ Free
    /\ lock' = p
    /\ command' = [command EXCEPT ![p] = [pc |-> "generation", name |-> n, setting |-> s]]
    /\ profile' = [profile EXCEPT ![n].there = TRUE]
    /\ asked' = [asked EXCEPT ![n] = @ \cup {s}]
    /\ UNCHANGED <<routes, Defaults, launched, removing, begun>>

Published(p, field, value) ==
    profile' = [profile EXCEPT ![command[p].name][field] = value]

PublishGeneration(p) ==
    /\ Is(p, "generation")
    /\ Published(p, "generations", profile[command[p].name].generations \cup {command[p].setting})
    /\ Goto(p, "pointer")
    /\ UNCHANGED <<routes, Defaults, lock, History>>

(* The publication point.                                                    *)
WriteCurrent(p) ==
    /\ Is(p, "pointer")
    /\ Published(p, "current", command[p].setting)
    /\ asked' = [asked EXCEPT ![command[p].name] = {command[p].setting}]
    /\ removing' = removing \ {command[p].name}
    /\ Goto(p, "mirrorHarness")
    /\ UNCHANGED <<routes, Defaults, lock, launched, begun>>

MirrorHarness(p) ==
    /\ Is(p, "mirrorHarness")
    /\ Published(p, "harness", command[p].setting.harness)
    /\ Goto(p, "mirrorEffort")
    /\ UNCHANGED <<routes, Defaults, lock, History>>

MirrorEffort(p) ==
    /\ Is(p, "mirrorEffort")
    /\ Published(p, "effort", command[p].setting.effort)
    /\ Goto(p, "cleanUp")
    /\ UNCHANGED <<routes, Defaults, lock, History>>

(* A mirror that fails is not reported, and the clean-up still runs.         *)
MirrorFails(p) ==
    /\ command[p].pc \in {"mirrorHarness", "mirrorEffort"}
    /\ Goto(p, "cleanUp")
    /\ UNCHANGED <<profile, routes, Defaults, lock, History>>

CleanupProfileGenerations(p) ==
    /\ Is(p, "cleanUp")
    /\ Published(p, "generations", {command[p].setting})
    /\ Finish(p)
    /\ UNCHANGED <<routes, Defaults, History>>

-----------------------------------------------------------------------------
(* Mutant: the references are checked without the lock.                      *)
RemoveProfileUnlocked(p, n) ==
    /\ Is(p, "ready")
    /\ profile[n].there /\ ~Referenced(n)
    /\ command' = [command EXCEPT ![p].pc = "removeCurrent", ![p].name = n]
    /\ removing' = removing \cup {n}
    /\ UNCHANGED <<profile, routes, Defaults, lock, launched, asked, begun>>

(* removeProfile: refused while a route names it; the directory goes one file*)
(* after the other, in the order of their names.                             *)
RemoveProfile(p, n) ==
    /\ Is(p, "ready") /\ Free
    /\ profile[n].there /\ ~Referenced(n)
    /\ lock' = p
    /\ command' = [command EXCEPT ![p].pc = "removeCurrent", ![p].name = n]
    /\ removing' = removing \cup {n}
    /\ UNCHANGED <<profile, routes, Defaults, launched, asked, begun>>

RemoveFile(p) ==
    LET Removing(pc, field, value, next) ==
            Is(p, pc) /\ Published(p, field, value) /\ Goto(p, next)
    IN  /\ \/ Removing("removeCurrent", "current", Nothing, "removeEffort")
           \/ Removing("removeEffort", "effort", None, "removeGenerations")
           \/ Removing("removeGenerations", "generations", {}, "removeHarness")
           \/ Removing("removeHarness", "harness", None, "removeDirectory")
        /\ UNCHANGED <<routes, Defaults, lock, History>>

RemoveDirectory(p) ==
    /\ Is(p, "removeDirectory")
    /\ profile' = [profile EXCEPT ![command[p].name] = NoProfile]
    /\ asked' = [asked EXCEPT ![command[p].name] = {Nothing}]
    /\ removing' = removing \ {command[p].name}
    /\ Finish(p)
    /\ UNCHANGED <<routes, Defaults, launched, begun>>

WriteRoute(p, c, n) ==
    /\ Is(p, "ready") /\ Free
    /\ Loaded(n) # Nothing
    /\ routes' = [routes EXCEPT ![c] = n]
    /\ Finish(p)
    /\ UNCHANGED <<profile, Defaults, History>>

RemoveRoute(p, c) ==
    /\ Is(p, "ready") /\ Free
    /\ routes' = [routes EXCEPT ![c] = None]
    /\ Finish(p)
    /\ UNCHANGED <<profile, Defaults, History>>

(* A refusal, an error or a death: what was written stays, the lock goes.    *)
Ends(p) ==
    /\ ~Is(p, "idle")
    /\ command' = [command EXCEPT ![p] = Idle]
    /\ lock' = IF lock = p THEN Nobody ELSE lock
    /\ UNCHANGED <<profile, routes, Defaults, History>>

-----------------------------------------------------------------------------
(* firstNonEmpty, with where the value is from.                              *)
Effort(given, said, default) ==
    CASE given # None   -> [effort |-> given, from |-> "given"]
      [] given = None /\ said # None -> [effort |-> said, from |-> "profile"]
      [] given = None /\ said = None /\ default # None -> [effort |-> default, from |-> "default"]
      [] OTHER -> [effort |-> None, from |-> "nothing"]

Launch(h, e) == [harness |-> h, effort |-> e.effort, from |-> e.from]

(* resolveLegacy: by the configured harness, or the supervisor's own.  What  *)
(* the harness cannot carry is dropped with a warning.                       *)
ResolveLegacy(flag, given, detected) ==
    LET h == IF flag # None THEN flag ELSE IF chosen # None THEN chosen ELSE detected
    IN  IF h = None THEN {} ELSE {Launch(h, Effort(given, None, keyed[h]))}

(* resolveProfiled: nothing is launched that does not fit.                   *)
ResolveProfiled(n, flag, given) ==
    LET h == IF flag # None THEN flag ELSE Loaded(n).harness
    IN  IF n = None \/ Loaded(n) = Nothing THEN {}
        ELSE {l \in {Launch(h, Effort(given, Loaded(n).effort, keyed[h]))} :
                l.effort # None => h \in Capable}

(* resolveExecution: the settings are read under the lock, and resolved when *)
(* it is free again; a request without a result is refused.                  *)
Spawn(p) ==
    /\ Is(p, "ready") /\ Free
    /\ \E flag \in Harnesses \cup {None}, given \in {None, "given"}, detected \in Harnesses \cup {None} :
         launched' \in ResolveLegacy(flag, given, detected)
                       \cup UNION {ResolveProfiled(n, flag, given) :
                                    n \in Profiles \cup {routes[c] : c \in Cells}}
    /\ Finish(p)
    /\ UNCHANGED <<profile, routes, Defaults, asked, removing, begun>>

RoutingStep(p) ==
    \/ MigrateWorkerSettings(p)
    \/ PublishGeneration(p) \/ WriteCurrent(p) \/ MirrorHarness(p) \/ MirrorEffort(p)
    \/ MirrorFails(p) \/ CleanupProfileGenerations(p)
    \/ RemoveFile(p) \/ RemoveDirectory(p)
    \/ Spawn(p) \/ Ends(p)

RoutingNext ==
    \E p \in Commands :
        \/ RoutingStep(p)
        \/ \E h \in Harnesses : SetHarness(p, h)
        \/ \E h \in Harnesses \cup {None} : SetEffort(p, h)
        \/ \E n \in Profiles : RemoveProfile(p, n)
        \/ \E n \in Profiles, s \in Settings : WriteProfile(p, n, s)
        \/ \E c \in Cells, n \in Profiles : WriteRoute(p, c, n)
        \/ \E c \in Cells : RemoveRoute(p, c)

RoutingSpec == RoutingInit /\ [][RoutingNext]_routingVars

-----------------------------------------------------------------------------
(* A route is set to a profile that loads (config.go:255), and a profile that*)
(* a route names is not removed: no route ever names one that does not load, *)
(* whichever command was cut off where.                                      *)
NoDanglingRoute == \A c \in Cells : routes[c] # None => Loaded(routes[c]) # Nothing

(* A profile says what one command set, all of it, before and after the      *)
(* publication point of the next; only a removal that was cut off leaves the *)
(* remains of the mirror.                                                    *)
ProfileIsWhole == \A n \in Profiles \ removing : Loaded(n) \in asked[n]

RoutesStand == NoDanglingRoute /\ ProfileIsWhole

(* "A value chosen for one harness is not a default for the next one"        *)
(* (config.go:521): no worker is launched with a default that was chosen for *)
(* another harness.                                                          *)
DefaultIsOfItsHarness == launched.from = "default" => launched.effort = launched.harness

=============================================================================
