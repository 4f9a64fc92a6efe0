# A formal model of hand

`hand` (this repository) lets one supervisor run a fleet of coding agents. Every
command is a short process; there is no server. What the fleet intends is in an
SQLite database (`state/hand.db`); what is real is somewhere else: worktrees leased
from Treehouse, panes and agents in Herdr, branches in Git, pull requests on GitHub,
lines of `state/completions.jsonl`. A process may die between any two of its steps,
an external call may fail, succeed and report failure, or find that somebody changed
what it is about. Commands on one task exclude each other by a kernel file lock
(`task:<id>`), which goes away with its process.

The TLA+ modules here describe that machinery and what it promises. They are written
from the code; the prose of the repository is used only as the source of what the
code should do, and quoted where the code does something else.

## 1. Inventory

| component (source) | state it keeps | operations | what makes it correct |
|---|---|---|---|
| Durable store (`internal/store/store.go`, `internal/state`) | rows of `task`, `attempt`, `send`, holds, projects | one transaction per lifecycle operation, with compare-and-set guards on lifecycle, owner and resource state | one live attempt per open task; history is frozen; decisions and releases are recorded once; latched facts are not lost to stale writers |
| Launch pipeline (`runtime/provision.go`, `spawn.go`, `reopen.go`) | none of its own: lease and pane in hand until recorded | get a lease, record, open a pane, record, type the launch, record, confirm, record, run; roll back on failure | no agent that no row names; no leaked lease; one agent per worktree |
| Teardown (`runtime/teardown.go`) | decision and settlement columns of the attempt | guard, decide, close pane, return lease, append record, end | unlanded work stays; recorded releases happened; the first decision is the one carried out |
| Promotion (`runtime/promote.go`) | as above, of two attempts | complete the scout and insert the ship, clean the scout up, launch | never two owners; the scout's leftovers are settled truthfully |
| Reconciliation (`runtime/reconcile.go`, `repair.go`) | repair diagnosis of the task | observe, decide, apply, one step per turn; attestations | discards no work; converges; settles what commands left behind |
| Completion log (`internal/completion`) | `completions.jsonl` | append, find | one readable record per attempt, before the end of the task |
| Pull request, delivery (`runtime/pr.go`, `cmd/pr.go`, `cmd/deliver.go`) | facts of the task | record | a fact that teardown's guard relies on is true |
| Merge, acknowledgement (`cmd/merge.go`, `cmd/ack.go`) | facts of the task, ack cursor | check, merge at GitHub, record; acknowledge what was read | a merge is noted; an acknowledgement covers complete lines only |
| Steering (`internal/steering/send.go`) | `send` rows | wait for the composer, record pending, type, observe, finalise | a message is never typed twice; an unknown outcome stays unknown |
| Watcher ownership (`watcher/ownership.go`, `takeover_*.go`) | kernel lock, owner record, endpoint | acquire, publish, request, release | one watcher; a request stops only the generation it names; waits end |
| Watcher loop (`watcher/watcher.go`, `events.go`) | report cursor, markers of the attempt, announcements | tick: observe, tail reports, detect pull requests and merges, announce, synchronise | no report, link or merge is lost between a durable marker and its announcement |
| Usage limits, holds (`watcher/usagelimit.go`, `state/hold.go`) | hold rows of three kinds | detect, back off, resume, clear | no resume of a worker that is not limited; a hold of another kind survives |
| Liveness (`runtime/liveness.go`) | observation columns | observe, record | no observation is recorded of another attempt |
| Attention, next action (`internal/attention`, `cmd/nextaction.go`, `cmd/status*.go`) | none | derive from a view that is read piece by piece | what needs the supervisor is shown |
| Routing (`internal/routing`, `cmd/config.go`) | profiles, routes, defaults: small files under `config/` | set, remove, publish generations, migrate, resolve | no dangling route; a default belongs to its harness |
| Schema and migration (`store/schemaversion.go`, `migrate.go`) | `user_version`, tables, old files | one transaction per version; read at an older version; import | the version says which columns exist; old tasks enter once |
| Registry (`internal/registry`) | registered homes | register, list, check | a copy of a fleet is refused, and told so |
| Projects (`internal/project`, `cmd/project.go`) | rows, clones, `projects.md` | add, set-url, sync, remove, import | a row has its clone; URL and origin agree; the list follows the rows |
| Search (`internal/store/index.go`) | `state/index.db` | refresh, query | no row hides a newer file |
| Toolchain (`internal/toolchain`) | bundles, `current.json` | stage, verify, publish, select, repair | `current` names a complete bundle; a tool in use stays |
| Release and self-update (`.github/scripts/edge-publish.sh`, `internal/selfupdate`) | assets, tag; executable, notice cache | publish, recover; resolve, download, replace | never a mixed release; an update is not older than what it resolved |
| Locks, atomic files | files | lock, try-lock, write-and-rename | one holder; old or new content, never a mixture |
| Clients (`herdr`, `worktree`, `ghutil`, `git`, `harness`) | none | command lines and parsing | – |
| Views, contracts, hooks, notifications, test doubles | text | render | – |

How they meet: commands, the watcher and `status` share nothing but the database, the
completion log and the outside world. `spawn`, `reopen`, `promote`, `teardown`,
`reconcile`, `pr`, `deliver` and the sending of text hold `task:<id>`; the watcher
takes it with a try-lock for one write and otherwise writes without it, relying on
the guards of the transactions. `reconcile` and `teardown` settle each other's
half-done work; `reconcile` finishes launches that died, with the launch pipeline's
own code. Everything that is hard here follows from that: a step taken on what was
read earlier, a process that dies between the outside call and its record, a call
that fails after it worked, a retry by another command with other flags, and a
settlement that must come to an end.

The rest of a home - its layout, projects, routing, search index - and what a user has
besides homes - the registry, the tools, the executable - share nothing with a task's
life but the home's directory. They are hard for the same reasons: several short
processes, several files, and a death or a failure between two of them.

`PROJECT.json` lists the hazards one by one, each at its line, with the properties
that cover it, or the reason why none does.

## 2. Modules

    HandStore                 the database contract (task and attempt tables)
      HandStoreProofs         its invariant and its action properties, proved
      MCHandStore             instance: store
      HandWorld               EXTENDS HandStore: leases, worktrees, panes, agents,
        |                     pull request, report, completion log, the running command
        HandProvision         launch pipeline, spawn, reopen, resume, rollback
        HandTeardown          hand teardown
          HandPromote         EXTENDS HandProvision, HandTeardown
        HandReconcile         EXTENDS HandProvision, HandTeardown: hand reconcile
          HandLifecycle       all commands, crashes, fairness, and the properties
            HandLifecycleProofs  EXTENDS HandStoreProofs too: its invariant, and that it
              |               implements HandStore, proved
              HandOutcomeProofs  completion log, decisions, leases, work: proved
            MCHandLifecycle   instances: launch, teardown, settle, supervised
    HandSteering              sends to a worker: hand send, and whoever else sends
      MCHandSteering          instance: steering
      HandLimits              EXTENDS HandSteering: the watcher's resumes, holds, liveness
        HandLimitsProofs      the safety of HandSteering and of HandLimits, proved
        MCHandLimits          instance: limits
    HandOwner                 what the ownership of a home promises
      HandTakeover            lock, record, endpoint, contenders: implements HandOwner
        HandTakeoverProofs    its safety and the refinement, proved
        MCHandTakeover        instance: takeover
    HandWatch                 the watcher's tick, hand pr, hand merge, replaced attempts
      HandWatchProofs         its safety, proved
      MCHandWatch             instance: watch
    HandSchema                builds that open and migrate one database
    HandLadder                readers of a database of an older version (run ladder)
    HandImport                the tasks an older hand left in files
    HandIndex                 the search index
    HandRuntime               the private toolchain
    HandProjects              projects: rows, clones, projects.md
    HandRouting               profiles, routes, defaults (run unkeyed)
    HandRegistry              the registry of homes
    HandEdge                  the rolling release
      HandUpdate              EXTENDS HandEdge: hand update and the update notice
    HandAttention             a status view, the next action, hand ack
      MCHandHome              HandSchema to HandAttention, side by side: home
        HandHomeProofs        schema, ladder, import, index, toolchain, routing, registry:
                              proved of any instance
        HandProjectsReleaseProofs  projects, release and update: proved of any instance

`HandStore` has two readings. Alone (`StoreSpec`) any process runs any transaction
at any time with any arguments: this is the contract, and what holds of it holds
whatever the commands do. In `HandLifecycle` the commands call the same operators,
each under the control flow of its command; `StoreRefined` says that the composed
system implements the contract (the identity is the refinement mapping: `task` and
`attempt` are shared).

### HandStore and the code

A row of `task` keeps `life` (absent, open, terminal), `kind`, the active attempt, the
facts that latch (pull request, delivery, merge executed, merge announced) and the
repair marker. A row of `attempt` keeps owner, lifecycle, lease, pane, launch
handshake, verified completion, teardown decision and disposition, settlement of both
resources and of the completion. Names of actions are the names of the functions of
`store.go`. A transaction that returns an error, or that repeats what is recorded,
changes nothing and is a stuttering step. Row ids are AUTOINCREMENT and ordinals are
`MAX(ordinal) + 1`, so the order of ids is the order of ordinals within a task.
Timestamps are reduced to "recorded or not". `SetTaskKind`, `Facts` and the others
are guarded exactly as their SQL is. Administrative transactions that no command of
`hand` runs (`TransitionTask`, `TransitionAttempt`, `SetActiveAttempt`,
`UpdateAttempt`, `DeleteTask`) are not part of the contract.

### HandWorld and the code

`lease`, `work`, `pane`, `pr`, `report` are the truth; `LeaseSeen`, `PaneSeen`,
`Found` are what the code's observations make of it (`internal/runtime/resources.go`,
`internal/worktree`, `internal/completion`). A call that may fail is an operator with
a result (`ReturnLease`, `CloseTab`, `AppendRecord`); an error may come before or
after the effect, as the tool allows. What is out of the ordinary - a lost lease, a
pane id that answers for someone else, a fault at the close of the log - is named in
`EventNames` and happens only in instances that list it in `Events`. `cmd[t]` is the
process that holds the lock of `t`: operation, program counter, the values it keeps
in memory. A crash is `cmd[t]` becoming `Idle`.

Each outside call and each transaction is a step of its own; a crash, an agent, the
operator, Treehouse or Herdr can come between any two. One deliberate merge: an
observation and the first transaction that follows it are one step, since nothing
but the lock's holder writes those columns and a change of the world between the two
has the same effect as a change right before the next outside call, which is a step
of its own.

### Commands and the code

* `HandProvision`: `provisionAttempt` and its callers. `Launch` starts it for a new
  attempt; `reconcile` enters it with `resume`. `failProvision` is the chain
  `RollbackPane`, `ReturnProvisioned` and what they record.
* `HandTeardown`: `Teardown`, `checkLandedWork`, `observeMergeState`,
  `releaseHerdr`, `releaseWorktree`, `finishTeardown`, and the recovery of a
  completion record by a second teardown.
* `HandPromote`: the transaction, `cleanupScout`, the launch. Promotion reads the
  history without the lock, resolves routes and gates, and re-checks under the lock
  by the transaction's own compare-and-set; it is one step at the transaction.
* `HandReconcile`: one turn observes, and applies one decision: settlement of a
  historical attempt (`pendingHistoricalAttempt`), confirmation or resumption of a
  launch, convergence of an exited worker, unwinding, attestations, repair markers.
  The code repeats turns up to a limit and stops at an unchanged fingerprint; the
  model leaves after a turn and lets the supervisor start another.
* `HandLifecycle`: `RecordPR` (`hand pr` and the watcher's `recordAutoPR`), `Deliver`,
  `Crash`, and the composition.

### HandSteering, HandLimits and the code

`sends` is the table `send_attempt`; `pane[a]` is what Herdr knows of the pane of
attempt `a`: the rows whose text stands in the input line (`composer`) and the lines that
an Enter has submitted (`turns`, each the rows that were in the line). That is how a
message typed twice, or glued to the leftovers of another, becomes visible. `screen` is
what the newest pane shows: whether the agent works, and whether the last thing it
printed is its harness's usage limit. `sender[s]` is a process in `steering.Execute`: where
it is, the attempt and the row it has read, the verdict it is about to write, and, at
rest, what its last call told its caller. `StartSend` is everything up to the first
look at the composer (the lock `send:<id>`, the attempt, a pending row, the pane),
`VerifyLocked` everything from the lock `task:<id>` to the row, and the two Herdr calls
and the two transactions are steps of their own. An error of Herdr is either a refusal
before the side effect or an error that says nothing (`herdr.IsPreSideEffectRejection`).
`hand send` waits for `send:<id>` and gives up on `task:<id>`; the watcher gives up on both.
An operator repeats a message only if told that nothing was typed (`RetrySafe`, a timeout
of the composer, a precondition): that is the assumption of `MessageOnce`.

Commands that own the lifecycle are one process here, `Command`: it takes the task's lock,
ends or launches attempts, normalises pending rows (`reconcileTask`'s first act), and lets
go. What they do in between is `HandLifecycle`'s matter.

`HandLimits` has one tick of the watcher in four steps: it reads the attempt and the
pane, looks (`classifyUsageLimit`, with its hold writes), perhaps sends, and synchronises
(`syncTaskState`, first the hold and then the row). `watch` is its `TaskState`; `limit` the
columns of the newest attempt, where the next watcher finds the schedule. A watcher
forgets everything in `WatcherRestarts`, between two ticks (`hand watch --until-event`
exits after every event) or, with crashes, anywhere. When a resume is due is left open,
with one restriction: its schedule is on record by then, since the shortest back-off
(`limitFloor`, ten minutes) spans many ticks and every tick tries to record it. `status` is
reduced to working, idle and unreachable (`blocked` is treated as working by this
code).

Abstracted on purpose: the lines of the report in the never-started attestation are a
nondeterministic refusal; `verified` is written only in `HandStore` and `HandWatch`, where
its writers are; `NormalizePendingSends` at the start of `reconcile` is in `HandSteering`;
local-only projects, attempts of older versions without a lease id and an incomplete Herdr
identity are left out. What the worker reported last is `reported` in the row, failed or
anything else: the watcher records it under the task's lock while the attempt runs
(`RecordReport`, the event `gives_up`), and `OutcomeOf` puts it before every other fact, as
`completionFor` does. The record tells the report that was on the row when the line was
appended: one that the watcher records after a failed append still counts, one it records
after a command that died between the line and the end does not, and row and record then
differ. `hand merge` is in `HandWatch` and no command of the lifecycle, so the repair code
for a mismatch of merge facts cannot arise.

### HandOwner, HandTakeover and the code

`lock` is the kernel lock on `watch.pid.lock`, `record` the file `watch.owner` (generation
and pid), `handlers` the connections an endpoint serves, `w[p]` a process: where it is,
the generation it published, whether it listens, whether it was asked. `Contend` has one
step per call of a contender, from `TryLock` over the record, the dial, the line and the
reply to `Poll` and `GiveUp`; `Publish` the steps from the lock to the published record;
`Release` the order of the release: record, endpoint, drain, lock; `Serve` the handlers.
Anything may fail that touches a file, a process may be killed or interrupted anywhere.
`HandOwner` is the promise: an owner or none, asked or not; asked owners go. The refinement
mapping reads `owner` from `lock` and `asked` from the owner.

### HandWatch and the code

One task: `report` is what the worker has written to its channel, a sequence of kinds that
is appended to or rewritten; `row` the columns of the task and attempt that the watcher
reads and writes (cursor, the status it last announced, verified, announced, recorded
pull request, executed merge); `merged` GitHub's truth; `ts` the watcher's `TaskState`,
`buffer` the announcements of the tick under way, `said` those that were delivered;
`busy` who holds the task's lock. `Start` loads; `Observe`, `TailReport`, `Classify`,
`SyncTask` and `SyncAttempt` are the parts of a tick in the order of `runTick`. `HandPR`,
`HandMerge`, `Replace` and `Reconcile` are commands that take the lock; the first two may
die between their steps. `--until-event` is a constant.

### The parts of a home and the code

* `HandSchema`: `Open` and its migrations, from the look at the file to the last stamp, a
  statement outside a transaction and a transaction each a step. `Plan` names what the
  migration to each version does; `Builds` how many of them a build knows; the database a
  home starts with may be absent, or from before the versions, or unstamped.
* `HandLadder`: `OpenReadOnly` and `OpenReadOnlyCompatible` and the statements
  behind them, which are chosen by the version that was read; here with the real version
  numbers, 8 to 18.
* `HandImport`: the files listed before and under the lock, the statements per file and the
  archive that follows.
* `HandIndex`: the refresh before a query (scan, read, write, delete) of several queries,
  writers of the corpus, and the replacement of an index that does not open.
* `HandRuntime`: `Ensure`: what is selected, verification, staging, one component after the
  other, publication, manifest, selection and pruning; repair of a decayed bundle.
* `HandProjects`: `hand project add, remove, set-url, sync`, the upstream, `hand spawn`'s
  reference, the import of `projects.md` and its projection, each with its undoing.
* `HandRouting`: generations of profiles with a pointer and a mirror for older builds, routes,
  defaults with the key beside them, the migration of an unkeyed default, the resolution
  that a launch uses.
* `HandRegistry`: locators under the user's directory against homes that are copied, moved,
  deleted and damaged, and a file that is lost, closed or corrupt. `hand init` is `StartInit`
  (the identity), `Register` and `Answer` (what it says, from the list it reads afterwards);
  `Preflight` of every other command is `StartCommand` or `StartUnnamed` and `MeetRegistry`,
  with all its ways in: checked, at a registered home or not, and unchecked, where the
  registry is missing or its directory closed. `steady` of a process is history: nobody has
  touched its home, another place of its fleet or the registry since it started.
* `HandEdge`: the publishing script, step for step, with its recovery and its trap. It is
  run by `.github/workflows/edge.yaml`, whose concurrency group lets one job at a time in.
* `HandUpdate`: the tag is resolved, the cache written, the archive and the checksums
  downloaded, the executable replaced; the startup notice reads the cache meanwhile.
* `HandAttention`: the reads a view is put together from, one step each, `Derive` and
  `classifyNextAction` as operators over the view, `hand ack`'s read and write.

## 3. Runs

Every run is one configuration. Symmetry (of lease and pane identities, of tasks, of
operators) is used only in runs without liveness. Every bound is a constant of the module
or a set in the `.cfg`, or one counter of troubles, and nothing else is cut; only `store`
has a state constraint.

| run | question | bounds, and what is let in |
|---|---|---|
| `store` | what can processes with stale copies do to the two tables? | any transaction with any arguments, cut by `InScope` to two tasks and two attempt rows without settlement, or one task and one attempt with all of it |
| `launch` | is every agent recorded, alone in its worktree, through failed, dead, resumed launches and promotions? does the composed system implement the store's contract? | 2 attempts, leases and panes; crash, failing calls, exits, pane ids reused |
| `teardown` | do teardown, and the reopened attempt after it, keep their promises through refusals, retries with and without force, half-done releases? | 2 attempts, leases and panes; work, reports, workers that report failure, pull requests, delivery, failing calls and observations; no crash |
| `settle` | do teardown and reconcile finish each other's work, with one record and no work lost? | 1 attempt, lease and pane; crash, work, workers that report failure, failing return and append, failing observations, identities lost or taken over, attestations |
| `supervised` | is a decision carried out in the end? | 1 attempt; crash, exit, work, the operator rescuing work, failing launches; fairness |
| `steering` | is what a row says of a send true, and is no message typed twice, to the wrong worker, or unseen behind another? | 2 operators and the watcher, 2 attempts, 2 rows; senders die, Herdr refuses or does not answer, outcomes cannot be written, panes go away |
| `limits` | is an episode of a usage limit resumed at most once across watchers, and is the hold put up for the right attempt only? | 2 attempts, 2 resumes, 1 episode; watchers die or restart, panes go away, operator's holds |
| `watch` | is every durable marker backed by an announcement, every link and merge accounted for, and do the markers catch up? | 2 report lines, 2 attempts, any 2 troubles (a rewritten report, a replaced attempt, a death, a refusal by GitHub, a change of status); fairness |
| `takeover` | do lock, record and endpoint implement one owner that goes when asked, and does a contender's wait end? | 2 watchers, 3 generations; deaths, interrupts, failing files; fairness |
| `home` | does each of the other parts of a home keep what it promises? | below |
| `unkeyed` | (violation) does a default belong to the harness it was chosen for? | a home from before the key, 3 commands |
| `ladder` | (violation) does a reader that accepted a database find what it selects? | a database at version 15 |

One task is enough for the lifecycle because commands on different tasks share only the
allocation of leases, panes and row ids, which `store` and the freshness of issued
identities cover; two attempts are needed where history matters. Two rows of `send` are
enough for a message that is repeated and for one that is glued to another, three senders
for a recovery that races a third party. With two episodes and one attempt the properties
of `limits` hold as well. Three generations in `takeover` are an owner, its successor, and
one more that a stale request could hit. Two lines in `watch` make a cursor that can lie
in the middle, and two troubles the pairs of which the comments of the code speak (a
rewrite and a death, a replacement and a death).

`home` puts ten parts side by side. A behaviour belongs to one part (`part`), the others keep
their first state, so that the state spaces add up instead of multiplying; the parts
share nothing in the code either, except the directory. Two processes each, where
processes compete, and one death or two faults:
`HandSchema` five kinds of migrations and builds that know 2, 4 and 5 of them;
`HandImport` two files, one with an undelivered message, two later commands; `HandIndex`
two documents, two writes, one replaced index; `HandRuntime` two components, two runtimes,
two bundles; `HandProjects` two names, one of them in the old list, two URLs; `HandRouting`
one profile, one cell, three harnesses of which one has no effort; `HandRegistry` two homes,
one of them perhaps from an older hand, two identities, two processes, three changes; `HandUpdate` two assets, three commits, one client, one kind
of fault at a time; `HandLadder` every version from 8 to 18; `HandAttention` two words and
one trouble. A fourth home, a third document or a second profile repeats what the first
ones do, since the code treats one at a time, and no more than two processes meet at one
lock.

Deadlock is checked in every passing run but `teardown` and `home`, and both stop by
design: `teardown` without `reconcile` and with its attempts used up has no command left,
and the parts of `home` have a bounded number of commands. A command without an enabled
step would be hidden by `crash` (it can always die); `supervised` finds it, since crashes
stop there and the decision would not be carried out. `HeldIsClaimed` is checked without
crashes: a process that dies between `treehouse get` and the record leaks its lease, and
nothing in the code finds it again. `UnlandedWorkStays` and `ReconcileKeepsWork` are checked
with agents that rest while a command runs (`late_work` is not in their `Events`); with
`late_work` added to `teardown`, TLC finds the commit made between the guard and the return
lost, because the guard runs before the pane is closed and is not repeated.
`MigrationFails` is there and never fires in `home`: that is what `VersionIsLayout` says.
`AnswerLost` and `RollbackFails` of `HandEdge` happen in no run; see below.

Runs that TLC must find violated, each a sentence of the repository that the code does
not keep (quoted in `PROJECT.json` under `findings`):

| run | property | what happens |
|---|---|---|
| `unkeyed` | `DefaultIsOfItsHarness` | an effort written before the key existed moves to the harness configured next |
| `ladder` | `AcceptedIsReadable` | a reader takes a database of version 15 and selects `attempt.branch`, which version 16 adds |

### More disagreements

These came up as counterexamples of the modules and have no run of their own; a
configuration with the constants named reproduces each.

* Completion log: the line after a short write is glued to the fragment and unreadable
  (`completion.go:54`; `EndIsOnRecord` with `Commands = {"spawn", "teardown"}` and
  `Events = {"short_write"}`).
* Limits: the second watcher after an uncertain resume types it again, behind the text that
  is still in the input line (`watcher.go:514`; `ResumeTypedOnce` with one attempt, two
  episodes and `Faults = {"ambiguous"}`).
* Settlement: the store refuses reconcile's settlement of a lease that nobody claimed, at
  every turn (`reconcile.go:946`; `DecisionCarriedOut` in the configuration of `supervised`).
* Watcher: the marker of a status can name an episode that no watcher announced
  (`events.go:304`; `EpisodeIsAnnounced` with one line, one attempt, `Commands = {}` and
  `Faults = {"unreachable"}`), and a watcher of `--until-event` that dies between marker and
  delivery drops the event (`CursorIsAnnounced` with `UntilEvent = TRUE`, one trouble and
  `Faults = {"crash"}`).
* Registry: the list calls a fleet ambiguous for another fleet's home (`registry.go:373`;
  `AmbiguousIsOwn` with three identities). "Registry absence or degradation is reported as a
  warning", says `docs/adr/fleet-identity-and-user-registry.md:23`: of a missing file the code
  says nothing (`registry.go:83`), and a file that is there and cannot be read refuses the
  command, since `Check` returns the error. While the file is missing or its directory closed,
  two registered homes of one fleet both run; `OneHomeOperates` speaks of checked commands
  for that reason.
* Update: a check that began before a live one may write the cache after it
  (`notice.go:75`; `NoticeIsNotSuperseded` with two clients). Two updates at a time may leave the
  older build, and `edge` may install something newer than what was reported.
* Schema: a build checks for a newer database before it takes the lock and not again before
  it creates the tables (`NewerIsRefused` with `Builds = {4, 5}` and no crash).
* Index: a query may answer from rows that another, slower query wrote after its own refresh
  (`index.go:88`; `AnswersFromTheCorpus`).
* Projects: spawn's reference can be added between a removal's look at the tasks and its row
  (`cmd/project.go:645`; `TaskHasProject`).
* Teardown and promote: a scout that a teardown decided to interrupt can still be promoted,
  and then completes (`DecisionHonoured` with `promote` added to `teardown`).
* Edge: after one rename whose answer is lost, the rollback does not know of it and leaves
  a mixed set (`NeverMixed` with `FaultSets = {{"answerLost"}}`); so do a failed call in a
  job and a kill in the next, and a failed rollback, where the decision record says that
  publication "stops until a maintainer reassembles the set by hand rather than shipping a
  mixed one" (`docs/adr/edge-is-one-mutable-tag-published-only-by-ci.md:56`). A rollback
  after a failed deletion of a backup loses assets.
* Attention: a send in flight counts as attention (`attention.go:98`) and no next action is
  about it, although `nextaction.go:38` says that "every predicate below is the same one
  needsAttention calls" (the comment at `nextaction.go:134` says the opposite).
  `hand ack` acknowledges lines that its supervisor has not read.
* Ladder: `hand status` of a whole fleet accepts an older version for its histories and then
  lists the holds with a reader that refuses it (`state/hold.go:103`); versions 10 and 11 fall
  to the reader of the latest. These are `Gaps` in `HandLadder`.
* A crash after the decision makes teardown forget that its guard took a ship for a
  completed scout (`teardown.go:435`, written only at `teardown.go:121`); the next teardown
  appends the outcome "merged" for a task that never had a pull request, which
  `teardown.go:326` says must not happen.
* A rollback that could not close the pane still returns the lease (`provision.go:255`);
  reconcile later finds the agent and marks the attempt running without a worktree.
* `pendingHistoricalAttempt` (`reconcile.go:866`) returns the first ended attempt with a
  completion state, settled or not, and hides an unsettled one behind it.
* After reconcile has normalised a send whose text stands in the input line, the next send
  submits that text together with its own; `GluedTextIsReported` is what remains of "refuse
  a pending send".

Smaller observations: an explicit harness with a profile takes the profile's effort; an
interrupted removal of a profile leaves remains of its mirror; a stale locator keeps
refusing a home that was initialised anew; `DeleteTask` has no caller.

### Properties

The store. `StoreInv` joins what different transactions write: the pointer of a task, the
lifecycles of its attempts, the order of rows and the launch handshake. `HistoryFrozen`,
`DecisionStands`, `SettledOnce` are action properties: what no transaction may do to a row.

The lifecycle. `AgentsInv` (every agent is claimed by a row, and alone in its worktree),
`ReleasedIsGone` and `HeldIsClaimed` relate the database to the world in both directions.
`UnlandedWorkStays` and `ReconcileKeepsWork` say what the two commands that destroy worktrees
must not destroy; the first exempts commits under a merged pull request, because
`checkLandedWork` asks for the merge only and does not compare the branch. `RecordInv` (one
record per attempt, before the end of its task) and `DecisionHonoured` (of a completed
attempt the record tells a landing or the worker's failure, of a forced, unworked or
unlanded one never a landing) relate the completion log to the database. `StoreRefined` says that the commands use the store as its contract
allows. `ClaimedDecisionCarriedOut` is the liveness of a settlement; it exempts leases that
nobody can claim any more.

Steering. `SteeringInv` compares each row with what was typed (`VerdictIsTrue`) and says that
no recovery declares a send stale whose process lives (`VerdictIsOwn`); `TypedToOwner` that
the last look at the attempt is good enough for the keystrokes after it; `MessageOnce` and
`LimitsInv` that retries and restarts type nothing twice; `GluedTextIsReported` that text
which was submitted by accident has a row that asks for attention. `MessageOnce` assumes that
an operator repeats a message only if told that nothing was typed. `OperatorHoldKept` is
about the one row of `hold` that three parties write, and `NoHoldForTheEnded` about the
watcher, whose schedule may be of an attempt that was replaced since: it touches the row
only while the attempt it waits for is the one that owns the task.

Watching. `TakeoverInv`: a request is routed to the lock's holder or to nobody, and only the
generation that was named is asked. `OwnershipKept` is the refinement of `HandOwner`, its
liveness included. `ContenderSettles`: nobody waits for ever, except for a contender that
is itself stopped before it writes its line. `CursorIsAnnounced` and `WatchInv` are about a
crash between a marker and its announcement and about attempts that are replaced in
the middle of a tick; `MarkersCatchUp` and `MergeIsSeen` are the liveness of the same.

The home. `VersionIsLayout` (a stamped version never promises a column that is not there, and
a reader finds what it selects beside the `Gaps`), `ImportedWholeAndOnce`, `StampMeansText`,
`SelectedIsWhole`, `ToolsStay`, `ProjectsStand`, `RemovedStaysRemoved`, `RoutingStands`,
`FleetsAreTold` (of two inits of copies of a home at least one is told, who was told is
refused, and beside a checked command no other home of its fleet is let in), `NeverMixed`, `InstallsWhatItResolved`, `StatusTells`: each says what
several small files or rows amount to after any two processes raced, failed and died.

For each property of a passing run `PROJECT.json` names at least one mutant, a definition of
the module changed the way a slip in the code would change it, under which TLC finds the
property violated.

### Fairness

`SupervisedSpec` assumes: a started command is scheduled until it ends (weak fairness of
its steps; it is a process of an operating system, and every outside call has a
timeout); the supervisor keeps running `hand teardown <id>` and `hand reconcile <id>`
(strong fairness, because other commands hold the lock now and then; README and the
repair texts tell the operator to run exactly these); crashes stop at some point.
A crash is a step of its own kind (the process is dead, its lock not yet dropped), so that
"no more crashes" does not also exclude a command that ends without effect; the kernel's
dropping of the lock is weakly fair. Calls that may fail without end (closing a tab,
returning a lease, appending a line) are left out of `supervised`: nothing in the code
makes them succeed. Nothing is assumed of agents, of Treehouse or of Herdr. `teardown` is
only assumed unforced, so the property has to exempt a worktree whose work reconcile must
not discard.

`TakeoverSpec` assumes that a live process is scheduled (weak fairness of the steps of
contending, publishing and releasing), that its wait has a deadline (strong fairness of
`GiveUp`, which is disabled while the lock happens to be free), and that a handler has its own
deadline (the connection's, set in the code). Nobody is made to start, to be interrupted
or to write the line of a request.

`WatchSpec` assumes that a watcher is started again when none runs (the supervisor's
loop, or a service), that it ticks, and that a command which holds the task's lock goes on.
The troubles are bounded, so that crashes stop.

## 4. Proofs

Every theorem holds for any numbers of tasks, attempts, leases, panes, senders, watchers
and so on: the only hypotheses are the assumptions of the modules about their constants
(`StoreAssumption`, `WorldAssumption`, ...) and, where one is named below, a hypothesis about
what the instance lets happen. Such a hypothesis is true of the run that checks the
property, and without it the property is false of the code; the counterexample is given.

| theorem | property | hypothesis |
|---|---|---|
| `StoreInvAlways`, `StoreTypeCorrect`, `OneOwnerAlways`, `OwnerIsNewestAlways`, `LaunchedInOrderAlways` | `StoreInv` and its parts | |
| `HistoryFrozenAlways`, `DecisionStandsAlways`, `SettledOnceAlways` | the action properties of the store | |
| `LifecycleInvAlways`, `ReleasedIsGoneAlways`, `AgentsInvAlways` | `ReleasedIsGone`, `AgentsInv` | |
| `StoreRefinedAlways` | `StoreRefined` | |
| `OneRecordAlways`, `RecordInvAlways` | `RecordInv` | the second: `Legible` |
| `DecisionHonouredAlways` | `DecisionHonoured` | `Unpromoted` |
| `HeldIsClaimedAlways` | `HeldIsClaimed` | `Minded` |
| `ReconcileKeepsWorkAlways` | `ReconcileKeepsWork` | `Undisturbed` |
| `UnlandedWorkStaysAlways` | `UnlandedWorkStays` | `Attended` |
| `SteeringInvAlways`, `GluedTextAlways`, `MessageOnceAlways`, `TypedToOwnerAlways` | the properties of `steering` | |
| `LimitsInvAlways`, `OperatorHoldAlways`, `NoHoldForTheEndedAlways` | the properties of `limits` | |
| `TakeoverInvAlways`, `TakeoverImplementsOwner` | `TakeoverInv`, the safety of `OwnershipKept` | |
| `CursorIsAnnouncedAlways`, `WatchInvAlways`, `WatchTypeCorrect` | `CursorIsAnnounced`, `WatchInv`, its types | the first: `Keeps`, the second: `UntilEvent = FALSE` |
| `VersionIsLayoutAlways` | `VersionIsLayout` | `PlanInOrder` |
| `ImportedWholeAndOnceAlways`, `StampMeansTextAlways` | `ImportedWholeAndOnce`, `StampMeansText` | |
| `SelectedIsWholeAlways`, `ToolsStayAlways` | `SelectedIsWhole`, `ToolsStay` | |
| `FleetsAreToldAlways` | `FleetsAreTold` | |
| `RoutingStandsAlways` | `RoutingStands` | `HarnessOnRecord` |
| `ProjectsStandAlways`, `RemovedStaysRemovedAlways` | `ProjectsStand`, `RemovedStaysRemoved` | |
| `NeverMixedAlways`, `InstallsWhatItResolvedAlways` | `NeverMixed`, `InstallsWhatItResolved` | `OneKind` |

### The store

`OneOwner` is not inductive alone. A promotion or a reopening inserts a row and makes it
the owner: that the row was nobody's needs `RowsAscending` (a row has an owner exactly
when it exists, and rows are handed out in order), and that the new owner is the
newest needs it too. `LaunchedInOrder` is needed by the completion of a scout. The
conjunction `StoreInv` of the five is inductive. The proof has one lemma per family of
transactions (`BirthKeeps`, `ProvisionKeeps`, `SettleKeeps`, `FactsQuiet`), and two
lemmas carry most of it: `QuietKeeps` (a step that moves no life, owner or launch
fact) and `LiveRowKeeps` (a step that rewrites the row of an attempt that stays
live).

The action properties follow from what a transaction may do to one row (`RowStep`): leave
it, insert it (`Inserted`), write it while its attempt is live without deciding again
(`Worked`), or settle it (`Settled`). `BirthRows`, `ProvisionRows` and `SettleRows` show that
there is nothing else. `DecisionStands` and `SettledOnce` then need that a row nobody
inserted has nothing decided and nothing settled, or an insertion would replace it; that
is `UnusedIsBlank`, which is inductive together with the types (`HistoryInv`).

### The commands and their world

`LifecycleInv` is what a command may rely on at each of its program counters while every
other task's command, Treehouse, Herdr and the operator move: the store's invariant; types;
`Stages` (where a launch, a promotion of a scout and a settlement are, and what the rows and the
world must say there, such as that a pane which is about to be recorded as closed is gone);
`RowsOK` (which columns may be set in which life); `Recorded` (what a row names was issued);
`Apart` (no lease is held by two attempts, be it in the row, behind the pane or in the memory
of the command: this makes `OneAgentPerWorktree` true and is what a resumed launch leans on);
`ReleasedForGood` (identities are never issued twice, so that "gone" stays true) and
`AgentsAreClaimed`. `ReleasedIsGone` alone says nothing of the command between the external call
and its record, which is why the stages are needed. Most steps are ordinary (they give
nothing new out, `Fades`, and let the rows stand, `RowsStand`); `OrdinaryKeeps` does those,
and the rest are the births, `GetLease`, `OpenPane`, `RunWorker`, and the four steps that write or
forget an identity in a row.

`StoreRefined` follows step by step: `FactCalls`, `QuietCalls`, `SettleCalls`, `Births`,
`Provisions` show of each call that its arguments are ones the store's contract allows, given
the stage. So every theorem of the store is one of the commands as well.

`TaleInv` is the inductive invariant of the completion log: a row and the lines about it
(`RowTold`: no line before the row says that one may be there, no column before somebody
decided, at most one line, and an outcome that suits the decision); where a command is
between append and record (`CommandTells`: in `UnwrittenPcs` its attempt is not on file, in
`WrittenPcs` it is); a file whose last line is whole if appends are not cut short; and
`EndIsOnRecord`. The lemmas split the steps into those that leave the tale alone (`Plain`) and
the few that tell it (`LineTells`, `DecisionTells`, `EndTells`, `BirthTells`).

* `Legible` (no `short_write`): after a short write the next line is glued to it and readers
  skip both (`completion.go:54`), so that an end may have no readable record. That there are
  never two records (`OneRecordAlways`) needs no hypothesis.
* `Unpromoted` (no `promote`): a promotion completes a scout that a teardown has decided to
  interrupt (`promote.go:127`), and the decision is not honoured.
* `Minded` (no crash, no attestation): a process that dies between `treehouse get` and
  the record leaks the lease (`provision.go:114`), and an operator may attest a worktree away
  that nobody could observe. `ClaimInv` adds to `HeldIsClaimed` that the lease in a
  command's hand is about to be recorded, and that whoever abandons a worktree without the
  operator's word knows that it is not there.
* `Undisturbed` (no `late_work`): what reconcile has seen of a worktree may be stale when it
  returns it. `WorkInv` says what a reconciliation knows of what it is about to give back: that it
  found it clean and published in the very turn that returns it, or that this launch took it
  itself (`Knows`), and that a worktree nobody was given yet is empty. The proof needs nothing
  about the agents but that they rest while a command holds a lock; `StepTidies` lists the four
  steps that give a lease back, and `StepSpares` says that no command moves the worktree of
  another task's attempt.
* `Attended` (no crash, no `close_error`, no `late_work`, no `reconcile`): the guard of teardown
  runs once, before the decision, and whoever finds a decision on the row does not ask again
  (`teardown.go:77`). `UnlandedWorkStays` is false of the model as soon as one of the four is let
  in; TLC finds each in `teardown` within seconds. A spawn that dies between the start of
  its worker and the record of it leaves a worker on an attempt that counts as never
  launched, for which there is no guard; a launch that fails and cannot close its tab does the
  same; a reconciliation decides that a worker has exited with its work unlanded, and the
  teardown that carries out this decision returns the worktree; and `late_work` is the commit
  between the guard and the return. These are the hypotheses of the run `teardown` too.
  `GuardInv` says attempt by attempt what holds then. `Untouched`: in the worktree of an attempt
  that was not submitted nobody worked; `Starting`: its worker runs only while the command
  that started it does. `Parting`: of an attempt that is decided and not ended, a pane that
  runs belongs to the command that decided, which is about to close it, so that no worker
  outlives the decision. `Covered`: so what the guard saw (no commits, a scout's, delivered,
  merged; no edits if only scratch was to be discarded) is still true of the worktree. `Sees`
  carries the same through the memory of the command between the guard and the decision.
  `OwnStep` says that a step of a command moves only its own task, attempt and lease;
  `HoldGuards`, `LaunchGuards`, `TeardownGuards` and `WorldGuards` do the steps.

### Steering, limits, watching, ownership

The `IndInv` of steering (first part of `HandLimitsProofs`) is `TypesOK`, `LocksOK` (a process that is not at rest holds the
send's lock, one that writes or types holds the task's as well, the attempt runs on and its
row is pending), `RowsOK` (nothing was typed for an attempt to come, and what was typed has a
row), `TruthOK` (what a row says, and what a process is about to write on it, is true of the
pane), `OnceOK` (an operator who may repeat a message has none of its text on any line) and
`GlueOK` (what stays in front of another message has a row that asks for attention).
`SteeringInv` and `MessageOnce` are not inductive alone: between the typed text and its row
the truth is in the memory of the process, and only the locks keep others from moving it.
`LimitsIndInv` adds the watcher: `TickOK` (it types in one step of its tick only, with a
schedule that is recorded), `ResumesOK` (no resume follows one of its episode that may have
arrived), `RecordedOK` (the row of the newest attempt knows of every resume) and `ScheduleOK`
(a watcher that may send has nothing of this episode out). `HandLimits` runs the same
steps of a send, and its proofs cite the lemmas of steering for them.

`HandWatchProofs`: `BaseInv` (`ChannelOK`, `LockOK`, `RowsOK`, `TodoOK`, `FactsOK`) says what
the tick carries in memory about the rows it read; `CursorInv`, `MarksInv` and `LinksInv` then
say of each durable marker that what it suppresses was announced. A watcher that leaves at
the first event (`UntilEvent`) prints on its way out, so that its markers may be ahead of its
announcements: `WatchInv` is proved for the daemon, and the cursor (announced, or waiting to
be printed) for a watcher of either mode that is not killed with events unprinted (`Keeps`:
`UntilEvent => "crash" \notin Faults`).

`HandTakeoverProofs!IndInv` is `TakeoverTypeOK`, `LockIsHeld` (the lock is held by the process
that is between taking and releasing it), `GenIsOwners` (a generation is had from the endpoint
on, and the endpoint is closed before the handlers are waited for), `RecordIsCurrent` (what a
process publishes or runs with is its own record or none) and `RequestsAreNamed` (a request on
its way was read off the record by whoever makes it). `TakeoverInit` implies `OwnerInit` of
`HandOwner`, and one lemma per action says which step of `HandOwner` it is, or that it is
none.

### The parts of a home

A behaviour of `MCHandHome` is one of one part (`StepsApart`, `ProjectsApart`), so that each part
has an invariant of its own. The theorems are about `MCHandHome` with any values of its
constants, not about the instance `home`.

* `SchemaInv`: an opener that works on a database holds its lock and has read its version
  under it, or has read, before the lock, a version that leaves it nothing to do (`Opener`);
  versions only grow, so that the second kind stays harmless. `LaidOut` says what the columns
  may be ahead of the version: only those whose migrations pass over what is there.
  `PlanInOrder`: the plan has one send table, a split and an identity, and no build in use is
  older than a migration that fails on what it finds. Without it `VersionIsLayout` fails of the
  model: with `Builds = {1, 5}` the build of version 1 stamps an unstamped layout of version 2
  as its own, and the next build's plain `ALTER` fails on the column.
  `LadderInv` adds that a reader's version is not above the database's.
* `ImportInv`: a file that is there was entered by the holder of the lock only, as far as its
  program counter says (`Untouched`, `Importer`); of one that was archived the row is whole
  (`Entered`).
* `IndexInv`: a stamp that equals the file's means the file's text, in the rows of the index and in
  what a query has read and not yet written (`Meant`); a write makes a new stamp.
* `RuntimeInv`: who installs holds the lock and has a directory of its own that is still being
  staged; what is being published, selected or in use is complete (`Installer`).
* `RegistryInv`: a process whose home nobody touched is at a home of its fleet, and once it has
  registered there, or was let in at a registered one, its locator is on record and the file
  readable (`Listed`), so that whoever lists or checks later sees it; one that was told of
  another place of its fleet can still find one (`RunnerOK`). Of two inits the second to read
  the list therefore sees both, and of two commands the second to be checked sees the first.
  What happens to directories keeps this because it ends `steady` of those it concerns
  (`Rests`); an identity that is minted is nobody else's (`Opened`).
* `RoutingInv`: a profile loads as one command asked for it, or is being removed by the holder of
  the lock, who has seen no route to it (`Worker`); a route's profile loads; a default that
  counts is of its harness (`DefaultsOwned`). `HarnessOnRecord`: an older home has a harness on
  record. Without it the default of no harness becomes that of the next one: that is what the
  run `unkeyed` shows.
* `ProjectsInv`: `Own` says for each command where it may be and which locks it has there, what
  it still has to import, what stands in the database and in the clone between its steps, and
  which rows it is about to list; `Legacies` and `Rendered` say what `projects.md` is before and
  after the import; `Origins` that a project whose URL is not its clone's origin is being
  repointed. `UrlIsOrigin` alone forgets the old origin that a rollback restores, and
  `ListedIsRegistered` the row that is written and not listed. The lock of the registry makes
  a change of a row the only one (`ChangingAlone`), that of the project keeps row and origin
  together.
* `ReleaseInv`: nothing that stands or is kept aside is older than the tag, and a job's commit is
  newer. If jobs are killed (`Killable`), what stands is of one commit, and as long as it is not
  complete the backups are of one group and one commit, and either there is one of every
  asset or exactly of those that are missing, of the same commit as what stands (`Gap`): the
  two cases that `Inspect` tells apart by counting, which is why the proof needs that a group
  with as many backups as there are assets has one of each (`WholeIsFull`). If calls fail
  (`Failing`), there are no backups between two jobs, and within one `Undoable` says that what
  the job remembers of its backups and promotions suffices to go back. `OneKind`: the faults of a
  behaviour are kills only or failing calls only. Without it `NeverMixed` is false: a failed
  call of one job and a kill of the next, or an answer that is lost, leave a mixed set
  (section 3). `UpdateInv`: what a client has downloaded is not older than its target, which
  is not newer than the tag.

### What is not proved

* Liveness under fairness and `ENABLED` are out of the proof system's reach: `supervised`,
  `MarkersCatchUp`, `MergeIsSeen`, `ContenderSettles`, the liveness half of `OwnershipKept`.
* Induction over data is, too: the library's induction theorems take an operator as a
  parameter, which the installed provers cannot instantiate. No module needs it: none
  declares a RECURSIVE operator.
* Of `home`, `StatusTells` is only model-checked: it is about what `SelectSeq` leaves of a report,
  which is induction over data.

## 5. Plan

Done: all modules and runs; the store, its refinement by the commands, the life of an
attempt, steering, limits, watching, ownership and the parts of a home but for attention
proved. Next:

1. `HandPromise`: what a supervisor is told about an attempt (intended, working, ended,
   settled), with the lifecycle shown to implement it.
2. What a weaker hypothesis than `Attended` leaves of `UnlandedWorkStays`: with crashes, for the
   attempts whose worker was recorded as submitted and whose release nobody interrupted.

## 6. Not modelled

`PROJECT.json` lists every component with its status. Outside the models are command
lines and parsing of other programs' output (`herdr`, `worktree`, `ghutil`, `git`, `harness`),
text contracts, skills and hooks, rendering, notifications, the format of the diagnosis of
`hand doctor`, and the test tools: they keep no state that several actors share. Of the
modelled components these parts are left out: the Windows named pipe; the rotation of the
event log and its catch-up filter, and announcements that no marker suppresses; the
token budget of an orientation and the gate of a pull request in attention; stable
releases and unmanaged distributions in the update; pull request metadata and the
ambiguity of branches; transactions that no command runs.
