------------------------------- MODULE HandUpdate -------------------------------
(***************************************************************************)
(* hand update, next to the jobs that publish what it installs: a command  *)
(* resolves the commit that the tag edge names, records it in the home's   *)
(* notice cache, downloads the archive and the checksums by name, one after*)
(* the other, and renames what it unpacked over the executable.  Any other *)
(* command looks at the cache when it starts, and resolves the tag itself  *)
(* when the cache is too old.                                              *)
(*                                                                         *)
(* The stable channel differs in that its releases never change; channels, *)
(* distributions that may not replace themselves and release notes are left*)
(* out.  A build is known by its commit.                                   *)
(***************************************************************************)
EXTENDS HandEdge

CONSTANTS
    Clients,            \* processes
    Archive, Checksums  \* the two Assets a client needs

UpdateAssumption == EdgeAssumption /\ {Archive, Checksums} \subseteq Assets

VARIABLES
    installed,  \* the commit of the executable
    cache,      \* state/.version-check: [commit, fresh], 0 for a failed check or none
    client      \* client[p]: [pc, build, target, archive]

updateVars == <<edgeVars, installed, cache, client>>
NoClient   == [pc |-> "none", build |-> 0, target |-> 0, archive |-> 0]

UpdateInit ==
    /\ EdgeInit
    /\ installed = 1
    /\ cache = [commit |-> 0, fresh |-> FALSE]
    /\ client = [p \in Clients |-> NoClient]

-----------------------------------------------------------------------------
ClientAt(p, pc) == client[p].pc = pc
Step(p, c)      == client' = [client EXCEPT ![p] = c]
Leave(p)        == Step(p, NoClient)
Published       == UNCHANGED edgeVars

(* It runs the build that is installed when it starts.                       *)
RunCommand(p, pc) ==
    /\ ClientAt(p, "none")
    /\ Step(p, [NoClient EXCEPT !.pc = pc, !.build = installed])
    /\ UNCHANGED <<installed, cache>> /\ Published

(* A day passes.                                                             *)
Age == cache.fresh /\ cache' = [cache EXCEPT !.fresh = FALSE]
       /\ UNCHANGED <<installed, client>> /\ Published

(* CheckNoticeForBuild: a failed check is remembered like any other.         *)
CheckNotice(p) ==
    /\ ClientAt(p, "check")
    /\ \/ cache.fresh /\ Leave(p)
       \/ /\ ~cache.fresh
          /\ \E found \in {0, tag} : Step(p, [client[p] EXCEPT !.pc = "note", !.target = found])
    /\ UNCHANGED <<installed, cache>> /\ Published

WriteCache(p, pc) ==
    /\ cache' = [commit |-> client[p].target, fresh |-> TRUE]
    /\ Step(p, [client[p] EXCEPT !.pc = pc])
    /\ UNCHANGED installed /\ Published

NoteCheck(p) == ClientAt(p, "note") /\ WriteCache(p, "none")

ResolveTarget(p) ==
    /\ ClientAt(p, "resolve")
    /\ Step(p, [client[p] EXCEPT !.pc = "reconcile", !.target = tag])
    /\ UNCHANGED <<installed, cache>> /\ Published

(* Any other commit than the build's own counts as newer.                    *)
ReconcileNotice(p) ==
    /\ ClientAt(p, "reconcile")
    /\ WriteCache(p, IF client[p].target = client[p].build THEN "none" ELSE "assets")

(* The release must list both names; they are downloaded by name.            *)
ListAssets(p) ==
    /\ ClientAt(p, "assets")
    /\ IF 0 \in {final[Archive], final[Checksums]}
       THEN Leave(p) ELSE Step(p, [client[p] EXCEPT !.pc = "archive"])
    /\ UNCHANGED <<installed, cache>> /\ Published

DownloadArchive(p) ==
    /\ ClientAt(p, "archive")
    /\ IF final[Archive] = 0 THEN Leave(p)
       ELSE Step(p, [client[p] EXCEPT !.pc = "checksums", !.archive = final[Archive]])
    /\ UNCHANGED <<installed, cache>> /\ Published

(* verifyChecksum: the checksums of a commit match the archive of that commit.*)
VerifyChecksum(p) ==
    /\ ClientAt(p, "checksums")
    /\ IF final[Checksums] # client[p].archive THEN Leave(p)
       ELSE Step(p, [client[p] EXCEPT !.pc = "replace"])
    /\ UNCHANGED <<installed, cache>> /\ Published

(* replaceExecutable, from a staged file of its own.                         *)
Replace(p) ==
    /\ ClientAt(p, "replace")
    /\ installed' = client[p].archive
    /\ Leave(p)
    /\ UNCHANGED cache /\ Published

(* A request fails, or the command is killed.                                *)
Fails(p) ==
    /\ client[p].pc \in {"check", "note", "resolve", "reconcile", "assets", "archive",
                         "checksums", "replace"}
    /\ Leave(p)
    /\ UNCHANGED <<installed, cache>> /\ Published

UpdateNext ==
    \/ EdgeNext /\ UNCHANGED <<installed, cache, client>>
    \/ Age
    \/ \E p \in Clients :
          \/ \E pc \in {"check", "resolve"} : RunCommand(p, pc)
          \/ CheckNotice(p) \/ NoteCheck(p) \/ ResolveTarget(p) \/ ReconcileNotice(p)
          \/ ListAssets(p) \/ DownloadArchive(p) \/ VerifyChecksum(p) \/ Replace(p) \/ Fails(p)

UpdateSpec == UpdateInit /\ [][UpdateNext]_updateVars

-----------------------------------------------------------------------------
(* What an update installs is never older than what its command resolved: the*)
(* assets are in place "before the tag moves", so edge never names "a commit *)
(* whose complete asset set is not yet available"                            *)
(* (.github/scripts/edge-publish.sh:242), whatever is published meanwhile.    *)
InstallsWhatItResolved ==
    [][\A p \in Clients : Replace(p) => client[p].archive >= client[p].target]_updateVars

(* "a startup notice can never keep advertising a target a live check has    *)
(* already superseded" (notice.go:75): a check that began before the live one*)
(* and writes after it does.                                                 *)
NoticeIsNotSuperseded ==
    [][cache.fresh /\ cache'.fresh /\ cache'.commit # 0 => cache'.commit >= cache.commit]_updateVars

=============================================================================
