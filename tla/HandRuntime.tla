------------------------------ MODULE HandRuntime ------------------------------
(***************************************************************************)
(* The private toolchain under ~/.secondhand: builds of hand, each with    *)
(* the runtime it was built for locked into it, select and install bundles *)
(* of Git, Treehouse and Herdr in one store, while downloads fail, bundles *)
(* on the disk decay, and installers die.                                  *)
(*                                                                         *)
(* A component is absent, good (the files of the locked artifact), or bad. *)
(***************************************************************************)
EXTENDS Naturals, FiniteSets

CONSTANTS
    Processes,      \* commands of hand
    Components,
    RuntimeIDs,     \* one per build of hand: the digest of its lock
    MaxBundles,     \* bound on the installations that are tried
    MaxFaults       \* bound on crashes, failed downloads and decay

Nobody == "nobody"

RuntimeAssumption ==
    /\ Nobody \notin Processes
    /\ Components # {} /\ RuntimeIDs # {}
    /\ MaxBundles \in Nat /\ MaxFaults \in Nat

Bundles == 1..MaxBundles

VARIABLES
    bundle,     \* bundle[n]: the n-th directory that was made for a bundle
    current,    \* runtime/current.json
    selection,  \* holder of locks/selection.lock
    proc,       \* proc[p]: where the command is, its runtime, its bundle
    faults

runtimeVars == <<bundle, current, selection, proc, faults>>

NoBundle == [at |-> "none", of |-> Nobody, has |-> [c \in Components |-> "absent"],
             manifest |-> FALSE]
NoCurrent == [id |-> Nobody, bundle |-> 0]
Idle == [pc |-> "idle", id |-> Nobody, bundle |-> 0]

RuntimeInit ==
    /\ bundle = [n \in Bundles |-> NoBundle]
    /\ current = NoCurrent
    /\ selection = Nobody
    /\ proc = [p \in Processes |-> Idle]
    /\ faults = 0

-----------------------------------------------------------------------------
Is(p, pc)   == proc[p].pc = pc
Mine(p)     == bundle[proc[p].bundle]
Calm        == UNCHANGED faults
Fault       == faults < MaxFaults /\ faults' = faults + 1

(* verifyInstalledComponentAgainstArtifact, verifyComponent and the digests  *)
(* of the manifest: every component is what the lock's artifact holds.       *)
Verified(n) ==
    /\ bundle[n].at = "published" /\ bundle[n].manifest
    /\ \A c \in Components : bundle[n].has[c] = "good"

(* runtimeFromCurrent.                                                       *)
RuntimeFrom(cur, id) == cur # NoCurrent /\ cur.id = id /\ Verified(cur.bundle)

(* Selected: a command that runs Git, Treehouse or Herdr resolves them       *)
(* first, and keeps their paths; it installs nothing.                        *)
Selected(p, id) ==
    /\ Is(p, "idle")
    /\ RuntimeFrom(current, id)
    /\ proc' = [proc EXCEPT ![p] = [pc |-> "using", id |-> id, bundle |-> current.bundle]]
    /\ UNCHANGED <<bundle, current, selection>> /\ Calm

(* hand runtime ensure: what is selected already is used without the lock.   *)
Ensure(p, id) ==
    /\ Is(p, "idle")
    /\ ~RuntimeFrom(current, id)
    /\ proc' = [proc EXCEPT ![p] = [pc |-> "lock", id |-> id, bundle |-> 0]]
    /\ UNCHANGED <<bundle, current, selection>> /\ Calm

LockSelection(p) ==
    /\ Is(p, "lock") /\ selection = Nobody
    /\ selection' = p
    /\ proc' = [proc EXCEPT ![p].pc = "recheck"]
    /\ UNCHANGED <<bundle, current>> /\ Calm

(* Another process may have installed it while this one waited; or a         *)
(* staging directory is made.                                                *)
Recheck(p) ==
    /\ Is(p, "recheck")
    /\ IF RuntimeFrom(current, proc[p].id)
       THEN /\ proc' = [proc EXCEPT ![p].pc = "using", ![p].bundle = current.bundle]
            /\ selection' = Nobody
            /\ UNCHANGED bundle
       ELSE \E n \in Bundles :
            /\ bundle[n].at = "none" /\ \A m \in 1..(n - 1) : bundle[m].at # "none"
            /\ bundle' = [bundle EXCEPT ![n] = [NoBundle EXCEPT !.at = "staging", !.of = proc[p].id]]
            /\ proc' = [proc EXCEPT ![p].pc = "install", ![p].bundle = n]
            /\ UNCHANGED selection
    /\ UNCHANGED current /\ Calm

(* Mutant: it is selected before it is installed, so that it is found.       *)
SelectStaged(p) ==
    /\ Is(p, "install")
    /\ current' = [id |-> proc[p].id, bundle |-> proc[p].bundle]
    /\ UNCHANGED <<bundle, selection, proc>> /\ Calm

(* installComponent: download, digest, extract, verify; the files are there, *)
(* whole or in part, before the verdict.                                     *)
InstallComponent(p) ==
    /\ Is(p, "install")
    /\ \E c \in Components :
         /\ Mine(p).has[c] = "absent"
         /\ bundle' = [bundle EXCEPT ![proc[p].bundle].has[c] = "good"]
    /\ UNCHANGED <<current, selection, proc>> /\ Calm

InstallFails(p) ==
    /\ Is(p, "install")
    /\ Fault
    /\ \E c \in Components :
         /\ Mine(p).has[c] = "absent"
         /\ bundle' = [bundle EXCEPT ![proc[p].bundle].has[c] = "bad"]
    /\ proc' = [proc EXCEPT ![p].pc = "discard"]
    /\ UNCHANGED <<current, selection>>

(* The staging directory goes with the error.                                *)
Discard(p) ==
    /\ Is(p, "discard")
    /\ bundle' = [bundle EXCEPT ![proc[p].bundle].at = "removed"]
    /\ proc' = [proc EXCEPT ![p] = Idle]
    /\ selection' = Nobody
    /\ UNCHANGED current /\ Calm

(* The rename of the staging directory.                                      *)
PublishBundle(p) ==
    /\ Is(p, "install")
    /\ \A c \in Components : Mine(p).has[c] # "absent"
    /\ bundle' = [bundle EXCEPT ![proc[p].bundle].at = "published"]
    /\ proc' = [proc EXCEPT ![p].pc = "manifest"]
    /\ UNCHANGED <<current, selection>> /\ Calm

PublishManifest(p) ==
    /\ Is(p, "manifest")
    /\ bundle' = [bundle EXCEPT ![proc[p].bundle].manifest = TRUE]
    /\ proc' = [proc EXCEPT ![p].pc = "validate"]
    /\ UNCHANGED <<current, selection>> /\ Calm

(* What is about to be selected is verified like what is selected.           *)
Validate(p) ==
    /\ Is(p, "validate")
    /\ proc' = IF Verified(proc[p].bundle)
               THEN [proc EXCEPT ![p].pc = "select"] ELSE [proc EXCEPT ![p] = Idle]
    /\ selection' = IF Verified(proc[p].bundle) THEN selection ELSE Nobody
    /\ UNCHANGED <<bundle, current>> /\ Calm

(* Mutant: what was selected before is removed.                              *)
SelectAndPrune(p) ==
    /\ Is(p, "select")
    /\ bundle' = IF current = NoCurrent THEN bundle
                 ELSE [bundle EXCEPT ![current.bundle] = NoBundle]
    /\ current' = [id |-> proc[p].id, bundle |-> proc[p].bundle]
    /\ proc' = [proc EXCEPT ![p].pc = "using"]
    /\ selection' = Nobody
    /\ Calm

Select(p) ==
    /\ Is(p, "select")
    /\ current' = [id |-> proc[p].id, bundle |-> proc[p].bundle]
    /\ proc' = [proc EXCEPT ![p].pc = "using"]
    /\ selection' = Nobody
    /\ UNCHANGED bundle /\ Calm

Done(p) ==
    /\ Is(p, "using")
    /\ proc' = [proc EXCEPT ![p] = Idle]
    /\ UNCHANGED <<bundle, current, selection>> /\ Calm

(* The kernel frees the lock; a staging directory stays behind.              *)
Crash(p) ==
    /\ ~Is(p, "idle") /\ Fault
    /\ proc' = [proc EXCEPT ![p] = Idle]
    /\ selection' = IF selection = p THEN Nobody ELSE selection
    /\ UNCHANGED <<bundle, current>>

(* Somebody or something damages a file under ~/.secondhand.                 *)
Decay ==
    /\ Fault
    /\ \E n \in Bundles, c \in Components :
         /\ bundle[n].has[c] = "good"
         /\ bundle' = [bundle EXCEPT ![n].has[c] = "bad"]
    /\ UNCHANGED <<current, selection, proc>>

Installs(p) ==
    \/ LockSelection(p) \/ Recheck(p) \/ InstallComponent(p) \/ Discard(p)
    \/ PublishBundle(p) \/ PublishManifest(p) \/ Validate(p) \/ Select(p)

RuntimeNext ==
    \/ \E p \in Processes :
         \/ \E id \in RuntimeIDs : Selected(p, id) \/ Ensure(p, id)
         \/ Installs(p) \/ InstallFails(p) \/ Done(p) \/ Crash(p)
    \/ Decay

RuntimeSpec == RuntimeInit /\ [][RuntimeNext]_runtimeVars

-----------------------------------------------------------------------------
(* The selection never names what is not a whole bundle of its own runtime   *)
(* (store.go:198): not after a failed download, a crash between any two      *)
(* steps, or an installation by another build; only decay can break it.      *)
SelectedIsWhole ==
    current # NoCurrent =>
        /\ bundle[current.bundle].at = "published"
        /\ bundle[current.bundle].manifest
        /\ bundle[current.bundle].of = current.id
        /\ \A c \in Components : bundle[current.bundle].has[c] # "absent"

(* A command that resolved its tools keeps them: other builds select and     *)
(* install other bundles, and none touches one that is published; and what a *)
(* command starts to use was whole, of its own build, when it started.       *)
ToolsStay ==
    [][\A p \in Processes :
         proc'[p].pc = "using" =>
            IF Is(p, "using")
            THEN /\ bundle'[proc[p].bundle].at = "published"
                 /\ faults' = faults => bundle'[proc[p].bundle] = bundle[proc[p].bundle]
            ELSE /\ bundle[proc'[p].bundle].of = proc'[p].id
                 /\ Is(p, "select") \/ Verified(proc'[p].bundle)]_runtimeVars

=============================================================================
