------------------------------- MODULE HandLimits -------------------------------
(***************************************************************************)
(* Usage limits: the watcher notices a worker that stopped on its          *)
(* harness's limit, schedules a resume, sends it, and shows the wait as a  *)
(* hold on the task; reconcile records the same stop when no watcher runs. *)
(* The schedule lives in the memory of the watcher and, from the end of a  *)
(* tick on, in the attempt's row, where the next watcher finds it.         *)
(*                                                                         *)
(* A worker here has reported neither done nor failed, and its harness     *)
(* knows usage limits: otherwise the watcher leaves it alone.  When a      *)
(* resume is due is left open, so the backoff is not modelled.             *)
(***************************************************************************)
EXTENDS HandSteering

CONSTANT MaxEpisodes    \* bound on the limit episodes of an attempt

ASSUME LimitsAssumption == MaxEpisodes \in Nat

VARIABLES
    limit,    \* the newest attempt's columns usage_limit_* and status_changed_for
    hold,     \* the hold on the task
    watch     \* hand watch: where its tick is, and what it remembers

limitVars == <<active, pane, screen, sends, locks, sender, limit, hold, watch>>

(* retry: a resume is scheduled; tried: at least one was attempted.          *)
NoLimit == [retry |-> FALSE, tried |-> FALSE, episode |-> 0, status |-> "none"]

(* attempt 0: the task is not tracked yet.  seen is what the tick read at    *)
(* its start, saved what the row is known to hold.                           *)
Untracked ==
    [pc |-> "rest", attempt |-> 0, status |-> "unknown", retry |-> FALSE, tried |-> FALSE,
     blocked |-> FALSE, episode |-> 0, probed |-> FALSE,
     saved |-> NoLimit, seen |-> [status |-> "unknown", episode |-> 0]]

LimitsInit ==
    /\ SteeringInit
    /\ limit = NoLimit
    /\ hold = "none"
    /\ watch = Untracked

Status == IF ~pane[active.id].open THEN "unreachable"
          ELSE IF screen.busy THEN "working" ELSE "idle"

Current(a) == active = [id |-> a, running |-> TRUE]

-----------------------------------------------------------------------------
(* Holds.  The machine never touches a hold of another kind.                 *)

(* Mutant: the limit's hold replaces any other.                              *)
LimitHoldAnyway == "limit"

LimitHold == IF hold = "operator" THEN hold ELSE "limit"
NoLimitHold == IF hold = "limit" THEN "none" ELSE hold

(* Mutant: the lock is taken, the owner is not looked at again.              *)
MayProjectUnowned == locks.task = Nobody

(* The watcher writes under the task's lock, if it gets it, and only for an  *)
(* attempt that still owns the task.                                         *)
MayProject == locks.task = Nobody /\ Current(watch.attempt)

ProjectHold == hold' = IF MayProject THEN LimitHold ELSE hold

-----------------------------------------------------------------------------
(* A tick of the watcher *)

LastResume(a) ==
    LET rows == {i \in DOMAIN sends : sends[i].attempt = a /\ sends[i].origin = Watcher} IN
    IF rows = {} THEN 0 ELSE CHOOSE i \in rows : \A j \in rows : j <= i

(* Mutant: only a resume that was submitted keeps the next watcher quiet.    *)
RestoredBySuccess(a) ==
    /\ LastResume(a) # 0
    /\ limit.retry
    /\ sends[LastResume(a)].episode = limit.episode
    /\ sends[LastResume(a)].state = "submitted"

(* A resume of the episode the row describes keeps the next watcher quiet.   *)
RestoredBlocked(a) ==
    /\ LastResume(a) # 0
    /\ limit.retry
    /\ sends[LastResume(a)].episode = limit.episode
    /\ ~SendRetrySafe(sends[LastResume(a)])

(* A pending resume found without its sender becomes uncertain, if both      *)
(* locks are free.                                                           *)
ResumeRecovered(a) ==
    LET stale == {i \in Pending(a) : sends[i].origin = Watcher} IN
    IF locks.send = Nobody /\ locks.task = Nobody /\ Current(a) THEN Normalized(stale) ELSE sends

(* The first tick that sees an attempt only takes over what its row says.    *)
TickSights ==
    LET a == active.id IN
    /\ watch.pc = "rest" /\ active.running /\ watch.attempt # a
    /\ watch' = [Untracked EXCEPT
            !.attempt = a, !.episode = limit.episode, !.saved = limit,
            !.tried = limit.tried,
            !.status = IF Status = "unreachable" THEN "unknown" ELSE Status,
            !.blocked = RestoredBlocked(a),
            !.retry = limit.retry /\ ~RestoredBlocked(a)]
    /\ sends' = IF RestoredBlocked(a) THEN ResumeRecovered(a) ELSE sends
    /\ UNCHANGED <<active, pane, screen, locks, sender, limit, hold>>

TickForgets ==
    /\ watch.pc = "rest" /\ ~active.running /\ watch.attempt # 0
    /\ watch' = Untracked
    /\ UNCHANGED <<steering, limit, hold>>

TickReads ==
    LET a == active.id IN
    /\ watch.pc = "rest" /\ active.running /\ watch.attempt = a
    /\ watch' = [watch EXCEPT !.pc = "look",
                              !.seen = [status |-> Status, episode |-> limit.episode]]
    /\ UNCHANGED <<steering, limit, hold>>

(* ClassifyStatus remembers the new status of a pane that answers.           *)
Looked == [watch EXCEPT !.pc = "sync", !.seen = Untracked.seen,
               !.status = IF watch.seen.status = "unreachable" THEN @ ELSE watch.seen.status]

(* The worker runs again: the schedule and the hold go together or not at    *)
(* all.                                                                      *)
ClearUsageLimit ==
    /\ watch.retry \/ watch.blocked
    /\ watch.seen.status = "working"
    /\ IF MayProject
       THEN /\ hold' = NoLimitHold
            /\ watch' = [Looked EXCEPT !.retry = FALSE, !.tried = FALSE,
                                     !.blocked = FALSE, !.probed = FALSE]
       ELSE watch' = Looked /\ UNCHANGED hold
    /\ sends' = IF watch.retry THEN sends ELSE ResumeRecovered(watch.attempt)

(* A resume that may have arrived is waited for, never repeated.             *)
ObserveBlocked ==
    /\ watch.blocked
    /\ watch.seen.status = "idle"
    /\ watch' = [Looked EXCEPT !.tried = @ \/ MayProject]
    /\ ProjectHold
    /\ sends' = IF watch.retry THEN sends ELSE ResumeRecovered(watch.attempt)

NotDue ==
    /\ watch.retry /\ ~watch.blocked
    /\ watch.seen.status = "idle"
    /\ watch' = Looked
    /\ UNCHANGED <<sends, hold>>

(* The screen is read on the edge of a stop, or once by a new watcher; the   *)
(* read may fail, and is not repeated then.                                  *)
DetectUsageLimit ==
    LET stopped == watch.status # "idle"
        newer == IF watch.episode < watch.seen.episode THEN watch.seen.episode ELSE watch.episode
    IN
    /\ ~watch.retry /\ ~watch.blocked
    /\ watch.seen.status = "idle" /\ (stopped \/ ~watch.probed)
    /\ \/ /\ watch.attempt = active.id /\ pane[active.id].open /\ screen.refused
          /\ newer < MaxEpisodes
          /\ watch' = [Looked EXCEPT !.probed = TRUE, !.episode = newer + 1,
                                     !.retry = TRUE, !.tried = FALSE]
          /\ ProjectHold
       \/ watch' = [Looked EXCEPT !.probed = TRUE] /\ UNCHANGED hold
    /\ UNCHANGED sends

NothingToDo ==
    /\ \/ watch.seen.status = "unreachable"
       \/ /\ ~watch.retry /\ ~watch.blocked
          /\ watch.seen.status = "working" \/ (watch.status = "idle" /\ watch.probed)
    /\ watch' = Looked
    /\ UNCHANGED <<sends, hold>>

TickLooks ==
    /\ watch.pc = "look"
    /\ ClearUsageLimit \/ ObserveBlocked \/ NotDue \/ DetectUsageLimit \/ NothingToDo
    /\ UNCHANGED <<active, pane, screen, locks, sender, limit>>

(* The resume is due: the watcher sends it if the attempt it read is still   *)
(* the one to steer, and tries its locks instead of waiting for them.  The   *)
(* schedule was made many ticks ago, and one of them has recorded it.        *)
ResumeDue ==
    /\ watch.pc = "look" /\ watch.retry /\ ~watch.blocked /\ watch.seen.status = "idle"
    /\ watch.saved.retry /\ watch.saved.episode = watch.episode

TickResumes ==
    /\ ResumeDue
    /\ Current(watch.attempt)
    /\ StartSend(Watcher)
    /\ watch' = [Looked EXCEPT !.pc = "steer"]
    /\ UNCHANGED <<limit, hold>>

TickCannotResume ==
    /\ ResumeDue
    /\ \/ /\ locks.send # Nobody \/ ~Current(watch.attempt)
          /\ watch' = Looked /\ UNCHANGED hold
       \/ /\ locks.send = Nobody /\ Current(watch.attempt)
          /\ Pending(watch.attempt) = {} /\ ~pane[watch.attempt].open
          /\ watch' = [Looked EXCEPT !.tried = TRUE] /\ ProjectHold
    /\ UNCHANGED <<steering, limit>>

TickSteers ==
    /\ watch.pc = "steer"
    /\ SendStep(Watcher, watch.episode)
    /\ UNCHANGED <<limit, hold, watch>>

(* Only a send that began nothing, or whose text was refused, is due again.  *)
TickSteered ==
    /\ watch.pc = "steer" /\ sender[Watcher].pc = "rest"
    /\ watch' = [watch EXCEPT !.pc = "sync",
                     !.tried = @ \/ sender[Watcher].learnt # "precondition",
                     !.blocked = sender[Watcher].learnt \notin {"precondition", "retry"}]
    /\ IF sender[Watcher].learnt = "precondition" THEN UNCHANGED hold ELSE ProjectHold
    /\ Return(Watcher, "nothing")
    /\ UNCHANGED <<active, pane, screen, sends, limit>>

Memory == [retry |-> watch.retry, tried |-> watch.tried,
           episode |-> watch.episode, status |-> watch.status]

(* Other facts may be due for writing as well, so a tick may synchronise     *)
(* even when the limit's own facts have not changed.                         *)
TickSkipsSync ==
    /\ watch.pc = "sync"
    /\ \/ Memory = watch.saved
       \/ locks.task # Nobody
       \/ ~Current(watch.attempt)
    /\ watch' = [watch EXCEPT !.pc = "rest"]
    /\ UNCHANGED <<steering, limit, hold>>

TickSyncs ==
    /\ watch.pc = "sync"
    /\ locks.task = Nobody /\ Current(watch.attempt)
    /\ locks' = [locks EXCEPT !.task = Watcher]
    /\ hold' = IF watch.retry \/ watch.blocked THEN LimitHold
               ELSE IF watch.saved.retry \/ watch.saved.tried THEN NoLimitHold ELSE hold
    /\ watch' = [watch EXCEPT !.pc = "record"]
    /\ UNCHANGED <<active, pane, screen, sends, sender, limit>>

TickRecords ==
    /\ watch.pc = "record"
    /\ limit' = Memory
    /\ locks' = [locks EXCEPT !.task = Nobody]
    /\ watch' = [watch EXCEPT !.pc = "rest", !.saved = Memory]
    /\ UNCHANGED <<active, pane, screen, sends, sender, hold>>

(* A watcher ends between two ticks, as hand watch --until-event does after  *)
(* every event, and another one starts; or it dies anywhere.                 *)
WatcherRestarts ==
    /\ watch # Untracked
    /\ watch.pc = "rest" \/ "crash" \in Faults
    /\ watch' = Untracked
    /\ Return(Watcher, "nothing")
    /\ UNCHANGED <<active, pane, screen, sends, limit, hold>>

WatcherStep ==
    \/ TickSights \/ TickForgets \/ TickReads \/ TickLooks \/ TickResumes
    \/ TickCannotResume \/ TickSteers \/ TickSteered \/ TickSkipsSync \/ TickSyncs
    \/ TickRecords

-----------------------------------------------------------------------------
(* Everyone else *)

(* reconcile looks at a pane that is its worker's, once a launch has settled *)
RecordAttemptLiveness ==
    LET running == Status = "working"
        resumed == running /\ hold = "limit"
        limited == /\ screen.refused
                   /\ limit.status # "idle" /\ ~limit.retry
                   /\ limit.episode < MaxEpisodes
    IN
    /\ locks.task = Command
    /\ active.running /\ pane[active.id].open
    /\ \E scheduled \in BOOLEAN :
          limit' = [retry |-> IF limited THEN scheduled ELSE limit.retry /\ ~resumed,
                    tried |-> limit.tried /\ ~limited /\ ~resumed,
                    episode |-> IF limited THEN limit.episode + 1 ELSE limit.episode,
                    status |-> Status]
    /\ hold' = IF running THEN NoLimitHold ELSE IF limited THEN LimitHold ELSE hold
    /\ UNCHANGED <<steering, watch>>

(* hand hold set and clear take no lock.                                     *)
OperatorHolds ==
    /\ hold' \in {"operator", "none"} \ {hold}
    /\ UNCHANGED <<steering, limit, watch>>

(* What ends an attempt clears the limit hold last, or dies before.          *)
LifecycleStep ==
    /\ CommandStep
    /\ hold' \in IF active'.running # active.running /\ active.running
                 THEN {NoLimitHold} \union (IF "crash" \in Faults THEN {hold} ELSE {})
                 ELSE {hold}
    /\ limit' = IF active'.id # active.id THEN NoLimit ELSE limit
    /\ UNCHANGED watch

OperatorStep(o) ==
    /\ Sends(o, 0)
    /\ UNCHANGED <<limit, hold, watch>>

WorkerActs == WorkerStep /\ UNCHANGED <<limit, hold, watch>>

LimitsNext ==
    \/ WatcherStep \/ WatcherRestarts \/ RecordAttemptLiveness \/ OperatorHolds
    \/ LifecycleStep \/ WorkerActs
    \/ \E o \in Operators : OperatorStep(o)

LimitsSpec == LimitsInit /\ [][LimitsNext]_limitVars

-----------------------------------------------------------------------------
(* Properties *)

LimitsTypeOK ==
    /\ SteeringTypeOK
    /\ limit \in [retry : BOOLEAN, tried : BOOLEAN, episode : 0..MaxEpisodes,
                               status : {"none", "unknown", "working", "idle"}]
    /\ hold \in {"none", "limit", "operator"}
    /\ watch.pc \in {"rest", "look", "steer", "sync", "record"}
    /\ watch.attempt \in Attempts \union {0}
    /\ watch.episode \in 0..MaxEpisodes
    /\ watch.status \in {"unknown", "working", "idle"}

(* Only the operator sets and clears the operator's hold: neither the limit  *)
(* machinery nor a command that ends the attempt touches it.                 *)
OperatorHoldKept ==
    [][hold # hold' /\ "operator" \in {hold, hold'} => UNCHANGED <<steering, limit, watch>>]_limitVars

(* A limit hold goes up only while the task's attempt runs; and the watcher,  *)
(* whose schedule is many ticks old by then, puts one up or takes one down    *)
(* only while the attempt it waits for is the one that runs and owns the      *)
(* task, not one that replaced it.  (Only the watcher's steps change watch.)  *)
NoHoldForTheEnded ==
    [][/\ (hold # "limit" /\ hold' = "limit") => active.running
       /\ (hold' # hold /\ watch' # watch) => Current(watch.attempt)]_limitVars

(* An automatic resume is typed once for an episode of an attempt, across    *)
(* restarts of the watcher and its crashes.                                  *)
OneResumePerEpisode ==
    \A a \in Attempts : \A e \in 1..MaxEpisodes :
       Cardinality({i \in DOMAIN sends :
            /\ sends[i].origin = Watcher /\ sends[i].attempt = a /\ sends[i].episode = e
            /\ \E l \in Lines(a) : Within(i, l)}) <= 1

(* The resumes of a limit are accounted for between the watcher's memory and *)
(* the row it leaves to its successor: however ticks, sends, restarts and    *)
(* deaths interleave, one resume per episode reaches the worker.             *)
LimitsInv == LimitsTypeOK /\ OneResumePerEpisode

(* "A submitted automatic resume is observed rather than repeated on later   *)
(* watcher restarts" (usagelimit_test.go), and an uncertain one is never     *)
(* automatically resent: no input line ever holds the resume message twice.  *)
ResumeTypedOnce ==
    \A a \in Attempts : \A l \in Lines(a) :
       Cardinality({k \in DOMAIN l : sends[l[k]].origin = Watcher}) <= 1

=============================================================================
