------------------------------ MODULE HandSteering ------------------------------
(***************************************************************************)
(* Steering: the text that hand types into the pane of a task's running    *)
(* attempt, for an operator (hand send) or for the watcher that resumes a  *)
(* worker after a usage limit.  A send holds the lock send:<id> from start *)
(* to end and the lock task:<id> from its second look at the attempt on;   *)
(* its row of table send_attempt is there before the first keystroke.      *)
(*                                                                         *)
(* One task.  Attempts are numbered as they are created, a pane goes by    *)
(* the number of its attempt, a row of send_attempt by its position.       *)
(* Commands that own the lifecycle are one process here: what they do to   *)
(* attempts, panes and rows while they hold the task's lock.  An attempt   *)
(* that is still provisioning refuses sends as an ended one does.          *)
(***************************************************************************)
EXTENDS Naturals, Sequences, FiniteSets

CONSTANTS
    Operators,     \* hand send processes, each with a message of its own
    Watcher,       \* the process of hand watch
    Command,       \* whoever else holds the task's lock
    Nobody,
    MaxAttempts,   \* bound on the attempts of the task
    MaxSends,      \* bound on the rows of send_attempt
    Faults         \* what an instance lets happen, see FaultNames

FaultNames ==
    {"crash",       \* a sender dies between two steps
     "rejected",    \* Herdr refuses a call before anything happens
     "ambiguous",   \* Herdr fails and nobody knows what it did
     "unrecorded",  \* the outcome of a send cannot be written
     "exit"}        \* the worker's pane goes away

Senders == Operators \union {Watcher}

ASSUME SteeringAssumption ==
    /\ Watcher \notin Operators /\ Command \notin Senders
    /\ Nobody \notin Senders \union {Command}
    /\ MaxAttempts \in Nat \ {0} /\ MaxSends \in Nat
    /\ Faults \subseteq FaultNames

VARIABLES
    active,    \* the newest attempt, and whether it runs
    pane,      \* Herdr: the pane of each attempt and what was typed into it
    screen,    \* Herdr: what the newest attempt's pane shows
    sends,     \* table send_attempt
    locks,     \* who holds send:<id> and task:<id>
    sender     \* the memory of each sending process

steering == <<active, pane, screen, sends, locks, sender>>

Attempts == 1..MaxAttempts

Finals == {"submitted", "not-submitted", "uncertain"}

(* What a row gives as the reason; a code of Herdr's behind it left out.     *)
Reasons ==
    {"none", "accepted", "text-rejected", "enter-rejected", "ambiguous", "stale"}

(* composer: rows whose text is in the input line; turns: what Enter has     *)
(* submitted, each turn the rows that were in the line.                      *)
NoPane == [open |-> FALSE, composer |-> <<>>, turns |-> {}]
NewPane == [NoPane EXCEPT !.open = TRUE]

(* busy: the agent works.  refused: the last thing it printed is its         *)
(* harness's usage limit message.  Nobody looks at an ended attempt's pane.  *)
NewScreen == [busy |-> TRUE, refused |-> FALSE]

(* learnt: what the last call told its caller                                *)
Resting(learnt) == [pc |-> "rest", attempt |-> 0, row |-> 0, verdict |-> <<>>, learnt |-> learnt]

SteeringInit ==
    /\ active = [id |-> 1, running |-> TRUE]
    /\ pane = [a \in Attempts |-> IF a = 1 THEN NewPane ELSE NoPane]
    /\ screen = NewScreen
    /\ sends = <<>>
    /\ locks = [send |-> Nobody, task |-> Nobody]
    /\ sender = [s \in Senders |-> Resting("nothing")]

-----------------------------------------------------------------------------
(* Rows *)

Pending(a) == {i \in DOMAIN sends : sends[i].attempt = a /\ sends[i].state = "pending"}

(* Text was rejected before acceptance: nothing was typed.                   *)
SendRetrySafe(row) == row.state = "not-submitted" /\ row.reason = "text-rejected"

SendNeedsAttention(row) ==
    \/ row.state \in {"pending", "uncertain"}
    \/ row.state = "not-submitted" /\ row.reason = "enter-rejected"

(* Mutant: a stale send is taken for one that never typed anything.          *)
NormalizedAsUnsent(rows) ==
    [i \in DOMAIN sends |->
        IF i \in rows THEN [sends[i] EXCEPT !.state = "not-submitted", !.reason = "text-rejected"]
        ELSE sends[i]]

Normalized(rows) ==
    [i \in DOMAIN sends |->
        IF i \in rows THEN [sends[i] EXCEPT !.state = "uncertain", !.reason = "stale"]
        ELSE sends[i]]

-----------------------------------------------------------------------------
(* One send *)

Free(s) == [send |-> IF locks.send = s THEN Nobody ELSE locks.send,
            task |-> IF locks.task = s THEN Nobody ELSE locks.task]

(* An operator who was told neither of these is where it was before.         *)
Return(s, learnt) ==
    /\ sender' = [sender EXCEPT ![s] = Resting(
            IF s \in Operators /\ learnt \notin {"done", "unresolved"} THEN "nothing" ELSE learnt)]
    /\ locks' = Free(s)

Goto(s, pc) == sender' = [sender EXCEPT ![s].pc = pc]

(* An operator repeats a message only when told that nothing was typed; the  *)
(* watcher decides for itself.                                               *)
MayStart(s) == s = Watcher \/ sender[s].learnt \notin {"done", "unresolved"}

(* Only hand send waits for a busy composer.                                 *)
FirstStep(s) ==
    IF Pending(active.id) # {} THEN "recover"
    ELSE IF s \in Operators /\ screen.busy THEN "wait"
    ELSE "lock"

StartSend(s) ==
    /\ sender[s].pc = "rest" /\ MayStart(s)
    /\ Len(sends) < MaxSends
    /\ locks.send = Nobody
    /\ active.running
    /\ Pending(active.id) # {} \/ pane[active.id].open
    /\ locks' = [locks EXCEPT !.send = s]
    /\ sender' = [sender EXCEPT ![s] =
            [Resting("nothing") EXCEPT
                !.pc = FirstStep(s), !.attempt = active.id,
                !.row = IF Pending(active.id) = {} THEN 0
                        ELSE CHOOSE i \in Pending(active.id) : TRUE]]
    /\ UNCHANGED <<active, pane, screen, sends>>

WaitComposer(s) ==
    /\ sender[s].pc = "wait"
    /\ \/ /\ pane[sender[s].attempt].open
          /\ sender[s].attempt = active.id => ~screen.busy
          /\ Goto(s, "lock") /\ UNCHANGED locks
       \/ Return(s, "retry")
    /\ UNCHANGED <<active, pane, screen, sends>>

(* The task's lock is only tried.                                            *)
LockBusy(s) ==
    /\ sender[s].pc \in {"recover", "lock"}
    /\ locks.task # Nobody
    /\ Return(s, "precondition")
    /\ UNCHANGED <<active, pane, screen, sends>>

(* A pending row found at the start is some dead sender's; whether or not    *)
(* reconcile was faster, its send is what the caller is told about.          *)
RecoverPending(s) ==
    /\ sender[s].pc = "recover"
    /\ locks.task = Nobody
    /\ sends' = Normalized({sender[s].row} \intersect Pending(sender[s].attempt))
    /\ Return(s, "refused")
    /\ UNCHANGED <<active, pane, screen>>

(* Mutant: the task's lock is given back once everything has been looked at. *)
VerifyAndUnlock(s) ==
    /\ sender[s].pc = "lock"
    /\ locks.task = Nobody
    /\ active = [id |-> sender[s].attempt, running |-> TRUE]
    /\ pane[sender[s].attempt].open
    /\ Pending(sender[s].attempt) = {}
    /\ Goto(s, "begin")
    /\ UNCHANGED <<active, pane, screen, sends, locks>>

(* Under the task's lock everything is looked at again.                      *)
VerifyLocked(s) ==
    LET a == sender[s].attempt IN
    /\ sender[s].pc = "lock"
    /\ locks.task = Nobody
    /\ \/ /\ active # [id |-> a, running |-> TRUE]
          /\ Return(s, "precondition") /\ UNCHANGED sends
       \/ /\ active = [id |-> a, running |-> TRUE]
          /\ ~pane[a].open
          /\ Return(s, "retry") /\ UNCHANGED sends
       \/ /\ active = [id |-> a, running |-> TRUE]
          /\ pane[a].open
          /\ Pending(a) # {}
          /\ sends' = Normalized(Pending(a))
          /\ Return(s, "refused")
       \/ /\ active = [id |-> a, running |-> TRUE]
          /\ pane[a].open
          /\ Pending(a) = {}
          /\ locks' = [locks EXCEPT !.task = s]
          /\ Goto(s, "begin") /\ UNCHANGED sends
    /\ UNCHANGED <<active, pane, screen>>

(* The transaction checks the owner itself, and one pending row per attempt  *)
(* is a unique index.  episode is 0 for an operator.                         *)
BeginSend(s, episode) ==
    LET a == sender[s].attempt IN
    /\ sender[s].pc = "begin"
    /\ IF active = [id |-> a, running |-> TRUE] /\ Pending(a) = {}
       THEN /\ sends' = Append(sends,
                    [attempt |-> a, origin |-> s, episode |-> episode,
                     state |-> "pending", reason |-> "none"])
            /\ sender' = [sender EXCEPT ![s].pc = "text", ![s].row = Len(sends) + 1]
            /\ UNCHANGED locks
       ELSE Return(s, "precondition") /\ UNCHANGED sends
    /\ UNCHANGED <<active, pane, screen>>

Conclude(s, state, reason) ==
    sender' = [sender EXCEPT ![s].pc = "finalize", ![s].verdict = <<state, reason>>]

Typed(s) == [pane EXCEPT ![sender[s].attempt].composer = Append(@, sender[s].row)]

(* Mutant: every error of Herdr passes for a refusal before the side effect. *)
SendTextOptimistic(s) ==
    /\ sender[s].pc = "text"
    /\ \/ pane' = Typed(s) /\ Goto(s, "enter")
       \/ Conclude(s, "not-submitted", "text-rejected") /\ pane' \in {pane, Typed(s)}
    /\ UNCHANGED <<active, screen, sends, locks>>

SendText(s) ==
    LET open == pane[sender[s].attempt].open IN
    /\ sender[s].pc = "text"
    /\ \/ open /\ pane' = Typed(s) /\ Goto(s, "enter")
       \/ /\ ~open \/ "rejected" \in Faults
          /\ Conclude(s, "not-submitted", "text-rejected") /\ UNCHANGED pane
       \/ /\ "ambiguous" \in Faults
          /\ Conclude(s, "uncertain", "ambiguous")
          /\ pane' \in {pane} \union (IF open THEN {Typed(s)} ELSE {})
    /\ UNCHANGED <<active, screen, sends, locks>>

(* Enter submits whatever the input line holds.  The agent starts working or *)
(* answers at once, a limited one with another refusal.                      *)
Submit(s) ==
    LET a == sender[s].attempt IN
    /\ pane[a].open
    /\ pane' = [pane EXCEPT ![a].turns = @ \union {pane[a].composer}, ![a].composer = <<>>]
    /\ screen' \in {[busy |-> TRUE, refused |-> FALSE]} \union
                   (IF screen.refused THEN {[screen EXCEPT !.busy = FALSE]} ELSE {})

SendEnter(s) ==
    /\ sender[s].pc = "enter"
    /\ \/ Submit(s) /\ Conclude(s, "submitted", "accepted")
       \/ /\ ~pane[sender[s].attempt].open \/ "rejected" \in Faults
          /\ Conclude(s, "not-submitted", "enter-rejected") /\ UNCHANGED <<pane, screen>>
       \/ /\ "ambiguous" \in Faults
          /\ Conclude(s, "uncertain", "ambiguous")
          /\ Submit(s) \/ UNCHANGED <<pane, screen>>
    /\ UNCHANGED <<active, sends, locks>>

(* Mutant: what is uncertain is taken for safe to retry.                     *)
LearntHopefully(verdict) == IF verdict[1] = "submitted" THEN "done" ELSE "retry"

Learnt(verdict) ==
    CASE verdict[1] = "submitted" -> "done"
      [] verdict = <<"not-submitted", "text-rejected">> -> "retry"
      [] OTHER -> "unresolved"

FinalizeSend(s) ==
    LET row == sender[s].row
        verdict == sender[s].verdict IN
    /\ sender[s].pc = "finalize"
    /\ \/ /\ sends[row].state = "pending"
          /\ sends' = [sends EXCEPT ![row].state = verdict[1], ![row].reason = verdict[2]]
          /\ Return(s, Learnt(verdict))
       \/ /\ sends[row].state # "pending" /\ UNCHANGED sends
          /\ Return(s, IF sends[row].state = verdict[1] THEN Learnt(verdict) ELSE "unresolved")
       \/ /\ "unrecorded" \in Faults /\ UNCHANGED sends
          /\ Return(s, "unresolved")
    /\ UNCHANGED <<active, pane, screen>>

(* The kernel drops the locks of a dead process.                             *)
SenderDies(s) ==
    /\ "crash" \in Faults
    /\ sender[s].pc # "rest"
    /\ Return(s, "unresolved")
    /\ UNCHANGED <<active, pane, screen, sends>>

SendStep(s, episode) ==
    \/ WaitComposer(s) \/ LockBusy(s) \/ RecoverPending(s) \/ VerifyLocked(s)
    \/ BeginSend(s, episode) \/ SendText(s) \/ SendEnter(s) \/ FinalizeSend(s)

-----------------------------------------------------------------------------
(* Everyone else *)

CommandTakes ==
    /\ locks.task = Nobody
    /\ locks' = [locks EXCEPT !.task = Command]
    /\ UNCHANGED <<active, pane, screen, sends, sender>>

CommandLeaves ==
    /\ locks.task = Command
    /\ locks' = [locks EXCEPT !.task = Nobody]
    /\ UNCHANGED <<active, pane, screen, sends, sender>>

(* Mutant: reconcile does not wait for the task's lock.                      *)
NormalizeUnlocked ==
    /\ UNION {Pending(a) : a \in Attempts} # {}
    /\ sends' = Normalized(UNION {Pending(a) : a \in Attempts})
    /\ UNCHANGED <<active, pane, screen, locks, sender>>

(* hand reconcile does this first, without the lock send:<id>.               *)
NormalizePendingSends ==
    /\ locks.task = Command
    /\ UNION {Pending(a) : a \in Attempts} # {}
    /\ sends' = Normalized(UNION {Pending(a) : a \in Attempts})
    /\ UNCHANGED <<active, pane, screen, locks, sender>>

(* teardown, promote or reconcile ends the attempt; its pane may stay.       *)
EndAttempt ==
    /\ locks.task = Command
    /\ active.running
    /\ active' = [active EXCEPT !.running = FALSE]
    /\ pane' \in {pane, [pane EXCEPT ![active.id].open = FALSE]}
    /\ UNCHANGED <<screen, sends, locks, sender>>

(* promote or reopen                                                         *)
LaunchAttempt ==
    /\ locks.task = Command
    /\ ~active.running
    /\ active.id < MaxAttempts
    /\ active' = [id |-> active.id + 1, running |-> TRUE]
    /\ pane' = [pane EXCEPT ![active.id + 1] = NewPane]
    /\ screen' = NewScreen
    /\ UNCHANGED <<sends, locks, sender>>

(* A worker ends its turn, perhaps on a usage limit, or its pane goes away.  *)
WorkerStops ==
    /\ pane[active.id].open /\ screen.busy
    /\ screen' \in [busy : {FALSE}, refused : BOOLEAN]
    /\ UNCHANGED <<active, pane, sends, locks, sender>>

WorkerLeaves ==
    /\ "exit" \in Faults
    /\ pane[active.id].open
    /\ pane' = [pane EXCEPT ![active.id].open = FALSE]
    /\ UNCHANGED <<active, screen, sends, locks, sender>>

CommandStep ==
    \/ CommandTakes \/ CommandLeaves \/ NormalizePendingSends
    \/ EndAttempt \/ LaunchAttempt

WorkerStep == WorkerStops \/ WorkerLeaves

Sends(s, episode) == StartSend(s) \/ SendStep(s, episode) \/ SenderDies(s)

SteeringNext == (\E s \in Senders : Sends(s, 0)) \/ CommandStep \/ WorkerStep

SteeringSpec == SteeringInit /\ [][SteeringNext]_steering

-----------------------------------------------------------------------------
(* Properties *)

SteeringTypeOK ==
    /\ active \in [id : Attempts, running : BOOLEAN]
    /\ DOMAIN pane = Attempts
    /\ \A a \in Attempts :
          /\ pane[a].open \in BOOLEAN
          /\ \A turn \in pane[a].turns \union {pane[a].composer} :
                turn \in Seq(DOMAIN sends)
    /\ screen \in [busy : BOOLEAN, refused : BOOLEAN]
    /\ sends \in Seq([attempt : Attempts, origin : Senders, episode : Nat,
                      state : Finals \union {"pending"}, reason : Reasons])
    /\ locks \in [send : Senders \union {Nobody}, task : Senders \union {Command, Nobody}]
    /\ DOMAIN sender = Senders

Lines(a) == pane[a].turns \union {pane[a].composer}

Within(row, line) == \E k \in DOMAIN line : line[k] = row

(* The verdict of every send is the truth about its pane: what was submitted *)
(* is in a turn of the right attempt, what is safe to retry was never typed, *)
(* and text whose Enter was refused was typed (finalize, rejectionReason).   *)
VerdictIsTrue ==
    \A i \in DOMAIN sends :
       LET a == sends[i].attempt IN
       /\ sends[i].state = "submitted" => \E turn \in pane[a].turns : Within(i, turn)
       /\ SendRetrySafe(sends[i]) => \A b \in Attempts : \A l \in Lines(b) : ~Within(i, l)
       /\ sends[i].reason = "enter-rejected" => \E l \in Lines(a) : Within(i, l)

(* When text is glued in front of a message, somebody can see it: every row  *)
(* of a turn but its last one needs attention (SendNeedsAttention feeds hand *)
(* status), unless that row is being typed now.                              *)
GluedTextIsReported ==
    \A a \in Attempts : \A turn \in pane[a].turns :
       \A k \in 1..(Len(turn) - 1) : SendNeedsAttention(sends[turn[k]])

(* Text is typed only into the pane of the attempt that owns the task, while *)
(* it runs: no late message reaches the pane of an ended attempt.            *)
TypedToOwner ==
    [][\A a \in Attempts :
          Len(pane'[a].composer) > Len(pane[a].composer) =>
             active = [id |-> a, running |-> TRUE]]_steering

(* No message of an operator is typed twice, whoever dies, refuses or loses  *)
(* an answer in between.                                                     *)
MessageOnce ==
    \A o \in Operators :
       LET mine == {i \in DOMAIN sends : sends[i].origin = o}
       IN  Cardinality({i \in mine : \E a \in Attempts : \E l \in Lines(a) : Within(i, l)}) <= 1

(* A process that is typing has the pending row that says so: no recovery    *)
(* declares it stale under its hands.                                        *)
VerdictIsOwn ==
    \A s \in Senders :
       sender[s].pc \in {"text", "enter", "finalize"} =>
          sends[sender[s].row].state = "pending" /\ locks.task = s /\ locks.send = s

(* What hand send tells its operator, and what hand status reports of a      *)
(* send, is what happened in the pane: the verdict is true when it is given, *)
(* it is given by the process that typed, and it stays true whoever dies,    *)
(* and whatever reconcile or the next sender clears up after it.             *)
SteeringInv ==
    /\ SteeringTypeOK
    /\ VerdictIsOwn
    /\ VerdictIsTrue

=============================================================================
