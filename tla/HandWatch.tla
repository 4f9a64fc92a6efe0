------------------------------- MODULE HandWatch -------------------------------
(***************************************************************************)
(* The observation loop of hand watch over one task: the report channel    *)
(* that a worker appends to and rewrites, the pane Herdr reports, the pull *)
(* request GitHub knows, the commands that take the lock task:<id>, and    *)
(* the markers by which a later watcher knows what was announced already.  *)
(* HandTakeover shows that one watcher at a time runs it; the next one     *)
(* starts with nothing in memory.                                          *)
(*                                                                         *)
(* A cursor is the content it covers: offset and digest tell exactly when  *)
(* that is still a prefix of the file.  Announcements that no marker       *)
(* suppresses (failed, idle-unreported, stale, gate) change nothing here   *)
(* and are left out, and so is parked; the usage limit is HandLimits.      *)
(***************************************************************************)
EXTENDS Naturals, SequencesExt

CONSTANTS
    Kinds,          \* kinds of report lines
    MaxLines,       \* bound on the lines of a report file
    MaxAttempts,
    MaxTroubles,    \* bound on all that happens besides appended lines, hand pr and hand merge
    UntilEvent,     \* announcements wait for the exit of the watcher
    Statuses,       \* statuses of a pane
    Commands,       \* subset of {"pr", "merge", "replace", "reconcile"}
    Faults          \* subset of {"crash", "gh", "unreachable"}

(* link is a working line that carries one pull request URL.                 *)
ReportKinds == {"working", "link", "done", "failed", "blocked", "malformed"}

ASSUME WatchAssumption ==
    /\ Kinds \subseteq ReportKinds
    /\ Statuses \subseteq {"working", "idle", "blocked"} /\ "working" \in Statuses
    /\ MaxLines \in Nat \ {0} /\ MaxAttempts \in Nat \ {0} /\ MaxTroubles \in Nat
    /\ UntilEvent \in BOOLEAN

VARIABLES
    report,     \* state/<id>.report: its complete lines
    pane,       \* the status of the active attempt's pane
    merged,     \* GitHub: the task's pull request is merged
    row,        \* the task's row and its active attempt's
    busy,       \* who holds the kernel's lock task:<id>
    pc,         \* where the watcher's tick is; "off" is no watcher
    snap,       \* what the tick listed and probed
    ts,         \* the watcher's TaskState
    todo,       \* report lines it has consumed and not classified yet
    buffer,     \* announcements that wait for its exit
    said,       \* announcements that reached whoever reads the watcher
    troubles    \* how much of that has happened

channelVars == <<report, pane>>
tickVars    == <<pc, snap, ts, todo, buffer, said>>
watchVars   == <<channelVars, merged, row, busy, tickVars, troubles>>

Gone == "gone"    \* the probe of the pane fails

NewRow ==
    [att |-> 1, changedFor |-> "", verified |-> FALSE, last |-> "",
     cursor |-> <<>>, announced |-> FALSE, pr |-> FALSE, executed |-> FALSE]

NoSnap == [att |-> 0, pr |-> FALSE, executed |-> FALSE, changedFor |-> "", status |-> Gone]

(* saved mirrors what the watcher knows to be durable.                       *)
Untracked ==
    [att |-> 0, status |-> "unknown", blocked |-> FALSE, caughtUp |-> FALSE,
     cursor |-> <<>>, merged |-> FALSE, verified |-> FALSE, last |-> "",
     saved |-> [cursor |-> <<>>, merged |-> FALSE, verified |-> FALSE, changedFor |-> ""]]

WatchInit ==
    /\ report = <<>>
    /\ pane = "working"
    /\ merged = FALSE
    /\ row = NewRow
    /\ busy = "none"
    /\ pc = "off"
    /\ snap = NoSnap
    /\ ts = Untracked
    /\ todo = <<>>
    /\ buffer = {}
    /\ said = {}
    /\ troubles = 0

-----------------------------------------------------------------------------
(* Announcements: of the report up to a line, that a link's pull request is  *)
(* not recorded, that it is merged, that attempt att is done or blocked.     *)
Line(prefix)    == [of |-> "line", prefix |-> prefix]
Unrecorded      == [of |-> "pr-not-recorded"]
PRMerged        == [of |-> "pr-merged"]
Done(att)       == [of |-> "done", att |-> att]
Blocked(att)    == [of |-> "blocked", att |-> att]

handleEvent(facts) ==
    IF UntilEvent
    THEN buffer' = buffer \cup facts /\ UNCHANGED said
    ELSE said' = said \cup facts /\ UNCHANGED buffer

Silent == UNCHANGED <<buffer, said>>

Trouble ==
    /\ troubles < MaxTroubles
    /\ troubles' = troubles + 1

Calm == UNCHANGED troubles

-----------------------------------------------------------------------------
(* The worker appends a line, which is one with its newline, or rewrites the *)
(* file; the same text again is no new report.  Only a tick's read of the    *)
(* file and of the pane can tell when they change, so they change before it. *)
Report ==
    /\ pc \in {"off", "tail"}
    /\ \E k \in Kinds :
         \/ /\ Len(report) < MaxLines
            /\ report' = Append(report, k)
            /\ Calm
         \/ /\ report # <<>>
            /\ report' = <<k>>
            /\ Trouble
    /\ UNCHANGED <<pane, merged, row, busy, tickVars>>

PaneChanges ==
    /\ pc \in {"off", "list"}
    /\ \E s \in Statuses : s # pane /\ pane' = s
    /\ Trouble
    /\ UNCHANGED <<report, merged, row, busy, tickVars>>

-----------------------------------------------------------------------------
(* Commands under the lock task:<id>, one at a time.                         *)
CommandOnly == UNCHANGED <<channelVars, tickVars, troubles>>

Take(command) ==
    /\ busy = "none" /\ busy' = command
    /\ UNCHANGED <<merged, row>> /\ CommandOnly

Done_(command) == busy = command /\ busy' = "none"

HandPR ==
    \/ "pr" \in Commands /\ ~row.pr /\ Take("pr")
    \/ /\ Done_("pr")
       /\ row' = [row EXCEPT !.pr = TRUE]
       /\ UNCHANGED merged /\ CommandOnly

(* hand merge: at GitHub first, in the database after.                       *)
HandMerge ==
    \/ "merge" \in Commands /\ row.pr /\ ~merged /\ Take("merge")
    \/ /\ busy = "merge" /\ busy' = "merged"
       /\ merged' = TRUE
       /\ UNCHANGED row /\ CommandOnly
    \/ /\ Done_("merged")
       /\ row' = [row EXCEPT !.executed = TRUE]
       /\ UNCHANGED merged /\ CommandOnly

(* A command fails or dies.                                                  *)
CommandEnds ==
    /\ "crash" \in Faults /\ Trouble
    /\ \E command \in {"pr", "merge", "merged"} : Done_(command)
    /\ UNCHANGED <<channelVars, tickVars, merged, row>>

(* promote and reopen: a new attempt under the same task, its columns fresh. *)
Replace ==
    /\ "replace" \in Commands /\ busy = "none" /\ row.att < MaxAttempts
    /\ Trouble
    /\ row' = [row EXCEPT !.att = @ + 1, !.changedFor = "", !.verified = FALSE, !.last = ""]
    /\ pane' = "working"
    /\ UNCHANGED <<report, merged, busy, tickVars>>

(* recordAttemptLiveness: reconcile stamps the status it observed.           *)
Reconcile ==
    /\ "reconcile" \in Commands /\ busy = "none"
    /\ row.changedFor # pane
    /\ row' = [row EXCEPT !.changedFor = pane]
    /\ Trouble
    /\ UNCHANGED <<channelVars, tickVars, merged, busy>>

-----------------------------------------------------------------------------
(* A watcher comes and goes.                                                 *)
Start ==
    /\ pc = "off" /\ pc' = "list"
    /\ UNCHANGED <<channelVars, merged, row, busy, snap, ts, todo, buffer, said, troubles>>

Forget ==
    /\ pc' = "off" /\ snap' = NoSnap /\ ts' = Untracked /\ todo' = <<>> /\ buffer' = {}

(* It dies, is interrupted, or is replaced and then answers for nothing; in  *)
(* the middle of a listing as after it.                                      *)
WatcherEnds ==
    /\ "crash" \in Faults /\ pc \notin {"off", "tail"}
    /\ Trouble
    /\ Forget
    /\ busy' = IF busy = "watcher" THEN "none" ELSE busy
    /\ UNCHANGED <<channelVars, merged, row, said>>

(* The boundary of a tick; the delivery is the exit.                         *)
Boundary ==
    /\ pc = "edge"
    /\ said' = said \cup buffer
    /\ IF buffer # {} THEN Forget
       ELSE pc' = "list" /\ UNCHANGED <<snap, ts, todo, buffer>>
    /\ UNCHANGED <<channelVars, merged, row, busy, troubles>>

-----------------------------------------------------------------------------
(* One tick.                                                                 *)
InTick == UNCHANGED <<channelVars, merged>>
TickOnly == InTick /\ Calm

(* resumeTaskState: what the markers say, and the status as it is now.       *)
resumeTaskState(status) ==
    [Untracked EXCEPT
       !.att = row.att, !.status = IF status = Gone THEN "unknown" ELSE status,
       !.cursor = row.cursor, !.merged = row.announced,
       !.verified = row.verified, !.last = row.last,
       !.saved = [cursor |-> row.cursor, merged |-> row.announced,
                  verified |-> row.verified, changedFor |-> row.changedFor]]

(* The listing and the probe.  Tracking is by execution identity: another    *)
(* attempt than the tracked one starts from its own row, and the tick that   *)
(* seeds does no more.                                                       *)
Observe ==
    /\ pc = "list"
    /\ \E status \in {pane, Gone} :
         /\ IF status = Gone THEN "unreachable" \in Faults /\ Trouble ELSE Calm
         /\ IF ts.att = row.att
            THEN /\ snap' = [att |-> row.att, pr |-> row.pr, executed |-> row.executed,
                             changedFor |-> row.changedFor, status |-> status]
                 /\ pc' = "tail"
                 /\ UNCHANGED ts
            ELSE /\ ts' = resumeTaskState(status)
                 /\ pc' = "edge"
                 /\ UNCHANGED snap
    /\ UNCHANGED <<row, busy, todo>> /\ Silent /\ InTick

(* Mutant: the offset alone, whatever the bytes before it are by now.        *)
coversOffset(cursor, lines) == Len(cursor) <= Len(lines)

covers(cursor, lines) == IsPrefix(cursor, lines)

(* What is new since the cursor, or everything where the file was replaced.  *)
TailReport ==
    LET base == IF covers(ts.cursor, report) THEN Len(ts.cursor) ELSE 0
    IN  [lines |-> SubSeq(report, base + 1, Len(report)),
         cursor |-> report]

tailReport ==
    /\ pc = "tail"
    /\ todo' = TailReport.lines
    /\ ts' = [ts EXCEPT !.cursor = TailReport.cursor]
    /\ pc' = "report"
    /\ UNCHANGED <<row, busy, snap>> /\ Silent /\ TickOnly

(* Evidence that is not the worker's own word: hand merged it, or the pull   *)
(* request on record was seen merged.                                        *)
doneVerified(s) == snap.executed \/ (snap.pr /\ s.merged)

ReportState(k) == IF k = "link" THEN "working" ELSE k

(* A link of a task without a pull request is recorded next.                 *)
ClassifyReportLine ==
    /\ pc = "report" /\ todo # <<>>
    /\ LET k    == Head(todo)
           upto == SubSeq(ts.cursor, 1, Len(ts.cursor) - Len(todo) + 1)
           sure == k = "done" /\ doneVerified(ts)
       IN  /\ handleEvent({Line(upto)} \cup (IF sure THEN {Done(ts.att)} ELSE {}))
           /\ ts' = [ts EXCEPT !.last = IF k = "malformed" THEN @ ELSE ReportState(k),
                               !.verified = @ \/ sure]
           /\ IF k = "link" /\ ~snap.pr
              THEN pc' = "link" /\ UNCHANGED todo
              ELSE todo' = Tail(todo) /\ UNCHANGED pc
    /\ UNCHANGED <<row, busy, snap>> /\ TickOnly

(* Mutant: a lock that is taken is a pull request that is being recorded.    *)
recordedByAnyHolder == TRUE

(* What a lost race to the lock means: nothing, if it is on record by now.   *)
recordedByLockHolder == row.pr

(* autoRecordPR: refused, or not to be had from GitHub; or recorded under    *)
(* the task's lock; or the lock is another's.                                *)
autoRecordPR ==
    /\ pc = "link"
    /\ \/ /\ "gh" \in Faults /\ Trouble
          /\ handleEvent({Unrecorded})
          /\ UNCHANGED <<row, snap>>
       \/ /\ busy = "none" /\ Calm
          /\ row' = [row EXCEPT !.pr = TRUE]
          /\ snap' = [snap EXCEPT !.pr = TRUE]
          /\ Silent
       \/ /\ busy # "none" /\ Calm
          /\ IF recordedByLockHolder
             THEN snap' = [snap EXCEPT !.pr = TRUE] /\ Silent
             ELSE handleEvent({Unrecorded}) /\ UNCHANGED snap
          /\ UNCHANGED row
    /\ todo' = Tail(todo)
    /\ pc' = "report"
    /\ UNCHANGED <<busy, ts>> /\ InTick

(* The one look at the condition a watcher finds: one that the marker names  *)
(* was announced before.                                                     *)
ClassifyCatchUp(s) ==
    [s EXCEPT !.caughtUp = @ \/ snap.status # Gone,
              !.blocked  = @ \/ /\ ~s.caughtUp
                                /\ snap.status = "blocked" /\ s.status = "blocked"
                                /\ snap.changedFor # "blocked"]

(* A transition; one into blocked is announced unless it was just caught up  *)
(* on.                                                                       *)
ClassifyStatus(s) ==
    IF snap.status \in {Gone, s.status} THEN s
    ELSE [s EXCEPT !.status  = snap.status,
                   !.blocked = IF snap.status = "idle" /\ s.status = "unknown" THEN @
                               ELSE snap.status = "blocked"]

(* The pane, then ClassifyPRMerged and ClassifyDeferredDone.  A poll that    *)
(* GitHub does not answer is one that comes a tick later.                    *)
Classify ==
    /\ pc = "report" /\ todo = <<>>
    /\ LET status == ClassifyStatus(ClassifyCatchUp(ts))
           seen   == snap.pr /\ merged /\ ~ts.merged
           now    == [status EXCEPT !.merged = @ \/ seen]
           sure   == ~now.verified /\ now.last = "done" /\ doneVerified(now)
       IN  /\ ts' = [now EXCEPT !.verified = @ \/ sure]
           /\ handleEvent((IF now.blocked /\ ~ts.blocked THEN {Blocked(ts.att)} ELSE {})
                            \cup (IF seen THEN {PRMerged} ELSE {})
                            \cup (IF sure THEN {Done(ts.att)} ELSE {}))
    /\ pc' = "sync"
    /\ UNCHANGED <<row, busy, snap, todo>> /\ TickOnly

-----------------------------------------------------------------------------
(* syncTaskState, after everything the tick announced; a lock that is taken  *)
(* is tried again by the next tick.                                          *)
Marks(s) == [cursor |-> s.cursor, merged |-> s.merged, verified |-> s.verified,
             changedFor |-> s.status]

(* Mutant: the marks count as written when the lock was taken.               *)
SyncGivenUp ==
    /\ pc = "sync"
    /\ Marks(ts) = ts.saved \/ busy # "none"
    /\ ts' = [ts EXCEPT !.saved = Marks(ts)]
    /\ pc' = "edge" /\ snap' = NoSnap
    /\ UNCHANGED <<row, busy, todo>> /\ Silent /\ TickOnly

SyncSkipped ==
    /\ pc = "sync"
    /\ Marks(ts) = ts.saved \/ busy # "none"
    /\ pc' = "edge" /\ snap' = NoSnap
    /\ UNCHANGED <<row, busy, ts, todo>> /\ Silent /\ TickOnly

(* The task's own columns, whichever attempt is active by now.               *)
SyncTask ==
    /\ pc = "sync"
    /\ Marks(ts) # ts.saved /\ busy = "none"
    /\ busy' = "watcher"
    /\ row' = [row EXCEPT !.cursor = ts.cursor, !.announced = @ \/ ts.merged]
    /\ ts' = [ts EXCEPT !.saved.cursor = ts.cursor, !.saved.merged = ts.merged]
    /\ pc' = "attempt" /\ snap' = NoSnap
    /\ UNCHANGED todo /\ Silent /\ TickOnly

(* Mutant: the row of whatever attempt is active.                            *)
OwnsTask == row.att # 0

(* The attempt's columns, of the attempt that was observed and no other.     *)
OwnsAttempt == row.att = ts.att

SyncAttempt ==
    /\ pc = "attempt"
    /\ IF OwnsAttempt
       THEN /\ row' = [row EXCEPT !.changedFor = ts.status, !.last = ts.last,
                                  !.verified = @ \/ ts.verified]
            /\ ts' = [ts EXCEPT !.saved = Marks(ts)]
       ELSE UNCHANGED <<row, ts>>
    /\ busy' = "none"
    /\ pc' = "edge"
    /\ UNCHANGED <<snap, todo>> /\ Silent /\ TickOnly

-----------------------------------------------------------------------------
Tick ==
    \/ Observe \/ tailReport \/ ClassifyReportLine \/ autoRecordPR \/ Classify
    \/ SyncSkipped \/ SyncTask \/ SyncAttempt \/ Boundary

WatchNext ==
    \/ Start
    \/ Tick
    \/ WatcherEnds
    \/ Report
    \/ PaneChanges
    \/ HandPR
    \/ HandMerge
    \/ CommandEnds
    \/ Replace
    \/ Reconcile

(* Whoever supervises the fleet starts hand watch again, and a tick and a    *)
(* command that were started go on.  Nothing is assumed of the worker, or of *)
(* when commands are given.                                                  *)
WatchSpec ==
    /\ WatchInit
    /\ [][WatchNext]_watchVars
    /\ WF_watchVars(Start)
    /\ WF_watchVars(Tick)
    /\ WF_watchVars(busy # "none" /\ (HandPR \/ HandMerge))

-----------------------------------------------------------------------------
(* Type correctness.                                                         *)
Facts ==
    {Unrecorded, PRMerged}
      \cup (UNION {{Done(a), Blocked(a)} : a \in 1..MaxAttempts})
      \cup {Line(s) : s \in UNION {[1..n -> Kinds] : n \in 1..MaxLines}}

WatchTypeOK ==
    /\ Len(report) <= MaxLines /\ troubles \in 0..MaxTroubles
    /\ pane \in Statuses /\ merged \in BOOLEAN
    /\ row.att \in 1..MaxAttempts
    /\ row.changedFor \in Statuses \cup {"", "unknown"}
    /\ busy \in {"none", "pr", "merge", "merged", "watcher"}
    /\ ts.att \in 0..row.att
    /\ said \cup buffer \subseteq Facts
    /\ pc = "off" => busy # "watcher" /\ buffer = {}

(* A restart skips no report line (watcher.go:930): every report that the    *)
(* durable cursor covers was announced, or is about to be by the watcher     *)
(* that lives, each line in its place, although the file may be rewritten to *)
(* the same length and a watcher die between two lines.                      *)
CursorIsAnnounced ==
    \A n \in 1..Len(row.cursor) : Line(SubSeq(row.cursor, 1, n)) \in said \cup buffer

(* A durable marker that keeps later watchers quiet was earned: the merge    *)
(* was announced, and the verified completion was, of this very attempt and  *)
(* not of the one it replaced (watcher.go:489, 986).                         *)
SuppressionIsEarned ==
    /\ row.announced => PRMerged \in said
    /\ row.verified => Done(row.att) \in said

(* A link that a report carried is not lost with its line: the pull request  *)
(* is on record or its absence was announced, whoever held the task's lock   *)
(* when the watcher wanted it (watcher.go:802).                              *)
LinkIsAccounted ==
    \A n \in 1..Len(row.cursor) :
        row.cursor[n] = "link" => row.pr \/ Unrecorded \in said

(* What the watcher keeps in the database about an attempt is backed by what *)
(* it did: every marker by an announcement, every link by a pull request on  *)
(* record or the news that there is none, over the attempts that replace one *)
(* another while a tick is under way and the watchers that die within one.   *)
WatchInv ==
    /\ WatchTypeOK
    /\ SuppressionIsEarned
    /\ LinkIsAccounted

(* A skipped sync is made up for (watcher.go:945): once the worker is done   *)
(* with its file, the cursor covers all of it for good.                      *)
MarkersCatchUp == <>[](row.cursor = report)

(* A merge does not escape the fleet: hand merge may die between GitHub and  *)
(* the database, and somebody else may have merged; it is on record or       *)
(* announced in the end.                                                     *)
MergeIsSeen == merged ~> (row.announced \/ row.executed)

(* What events.go:304 says of the marker: that it names the status shows     *)
(* that some watcher announced the episode.                                  *)
EpisodeIsAnnounced ==
    row.changedFor = "blocked" => Blocked(row.att) \in said

=============================================================================
