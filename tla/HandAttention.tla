----------------------------- MODULE HandAttention -----------------------------
(***************************************************************************)
(* What hand status and hand session tell a supervisor about one running   *)
(* attempt, and hand ack: a view is put together from the task's row, the  *)
(* pane, the report channel and the latest send, one read after the other, *)
(* while the worker writes, the sender sends and another supervisor        *)
(* acknowledges.                                                           *)
(*                                                                         *)
(* A cursor is the lines it covers: offset and digest tell exactly when    *)
(* these are still a prefix of the file (HandWatch).  The announcement that*)
(* a watcher makes, which asks nothing of a supervisor, and the gate of a  *)
(* pull request are left out.                                              *)
(***************************************************************************)
EXTENDS Naturals, SequencesExt

CONSTANTS
    Kinds,          \* kinds of report lines
    MaxWords,       \* bound on the lines a worker writes
    MaxChanges      \* bound on what else changes

(* text is a line that does not parse.                                       *)
AttentionAssumption ==
    Kinds \subseteq {"working", "done", "failed", "blocked", "paused", "needs-decision", "text"}

VARIABLES
    report,     \* complete lines of state/<id>.status: [k, n], the n-th that was written
    tail,       \* the line that has no newline yet; torn: nor all of its text
    words,      \* lines written so far
    row,        \* the task: [acked, repair]
    pane,       \* what Herdr knows of the worker's pane
    quiet,      \* the worker has been silent for longer than its bound
    send,       \* the attempt's latest send
    acker,      \* hand ack, under the lock task:<id>: [pc, cursor, upTo]
    view,       \* the status being put together
    changes,
    handled,    \* history: the last line that an acknowledgement covers
    standing    \* history: what has called for attention ever since the view was begun

attentionVars == <<report, tail, words, row, pane, quiet, send, acker, view, changes, handled,
                   standing>>

NoTail  == [k |-> "none", n |-> 0, torn |-> FALSE]
NoWord  == [k |-> "none", n |-> 0]
Panes   == {"working", "idle", "unknown", "gone"}
Sends   == {"none", "pending", "uncertain", "partial", "submitted"}
NoView  == [pc |-> "none", acked |-> <<>>, repair |-> FALSE, held |-> FALSE, pane |-> "unknown",
            lines |-> <<>>, readable |-> TRUE, parked |-> FALSE, send |-> "none"]
NoAcker == [pc |-> "none", cursor |-> <<>>, upTo |-> 0]

AttentionInit ==
    /\ report = <<>> /\ tail = NoTail /\ words = 0
    /\ row = [acked |-> <<>>, repair |-> FALSE]
    /\ pane = "working" /\ quiet = FALSE /\ send = "none"
    /\ acker = NoAcker /\ view = NoView
    /\ changes = 0 /\ handled = 0 /\ standing = {}

-----------------------------------------------------------------------------
(* Reading a report: every line there is, the incomplete one included.       *)
classifyReportBytes ==
    report \o (IF tail = NoTail THEN <<>>
               ELSE <<[k |-> IF tail.torn THEN "text" ELSE tail.k, n |-> tail.n]>>)

(* Trailing text does not erase the last word.                               *)
LastReportedState(lines) ==
    LET classified == SelectSeq(lines, LAMBDA l : l.k # "text") IN
    IF classified = <<>> THEN NoWord ELSE Last(classified)

TerminalReport(k) == k \in {"done", "failed"}

(* Mutant: a cursor is a length.                                             *)
coversLength(cursor, lines) == Len(cursor) <= Len(lines)

covers(cursor, lines) == IsPrefix(cursor, lines)

TerminalReportInData(lines, cursor) ==
    LET base == IF covers(cursor, lines) THEN Len(cursor) ELSE 0
    IN  TerminalReport(LastReportedState(SubSeq(lines, base + 1, Len(lines))).k)

(* TerminalReport of the last word too, or the flag would qualify another.   *)
unacknowledged(v) ==
    TerminalReport(LastReportedState(v.lines).k) /\ TerminalReportInData(v.lines, v.acked)

NotBusy(status) == status = "idle"

(* attention.Derive on taskAttentionEvidence: the subjects that call for     *)
(* somebody to act.                                                          *)
Claims == {"paused", "blocked", "needs-decision", "failed"}

Derive(v) ==
    LET word == LastReportedState(v.lines).k IN
    {k \in {word} : k \in Claims}
      \cup (IF ~v.readable THEN {"report-unreadable"} ELSE {})
      \cup (IF unacknowledged(v) THEN {"unacknowledged"} ELSE {})
      \cup (IF v.readable /\ word \in {"none", "working"} /\ NotBusy(v.pane)
            THEN {"unreported"} ELSE {})
      \cup (IF v.pane = "gone" THEN {"unreachable"} ELSE {})
      \cup (IF v.pane = "unknown" THEN {"runtime-unknown"} ELSE {})
      \cup (IF v.parked THEN {"parked"} ELSE {})
      \cup (IF v.repair THEN {"needs-repair"} ELSE {})
      \cup (IF v.send \in {"pending", "uncertain", "partial"} THEN {"send-" \o v.send} ELSE {})

(* Mutant: a condition is added to the definition and not to the ranking.    *)
RankingBefore ==
    <<"needs-repair", "send-uncertain", "send-partial", "needs-decision", "failed",
      "report-unreadable", "unreported", "runtime-unknown", "unreachable", "blocked", "paused",
      "unacknowledged", "hold">>

(* classifyNextAction asks in this order; then the registry and the backlog  *)
(* are looked at, and a fleet that is only running is to be watched.         *)
Ranking ==
    <<"needs-repair", "send-uncertain", "send-partial", "needs-decision", "failed",
      "report-unreadable", "unreported", "runtime-unknown", "unreachable", "parked", "blocked",
      "paused", "unacknowledged", "hold">>

classifyNextAction(v) ==
    LET asked == SelectSeq(Ranking, LAMBDA k : k \in Derive(v) \cup IF v.held THEN {"hold"} ELSE {})
    IN  IF asked = <<>> THEN "monitor" ELSE Head(asked)

-----------------------------------------------------------------------------
(* What calls for attention, whoever looks: an owed report is a terminal last*)
(* word that no acknowledgement covers.                                      *)
Concerns ==
    LET word == LastReportedState(classifyReportBytes) IN
    {k \in {word.k} : k \in Claims}
      \cup (IF TerminalReport(word.k) /\ word.n > handled THEN {"unacknowledged"} ELSE {})
      \cup (IF word.k \in {"none", "working"} /\ pane = "idle" THEN {"unreported"} ELSE {})
      \cup (IF pane = "gone" THEN {"unreachable"} ELSE {})
      \cup (IF pane = "unknown" THEN {"runtime-unknown"} ELSE {})
      \cup (IF quiet THEN {"parked"} ELSE {})
      \cup (IF row.repair THEN {"needs-repair"} ELSE {})
      \cup (IF send \in {"pending", "uncertain", "partial"} THEN {"send-" \o send} ELSE {})

-----------------------------------------------------------------------------
ReportKept == UNCHANGED <<report, tail, words, quiet>>
WorldKept  == UNCHANGED <<pane, send, changes>>
TaskKept   == UNCHANGED <<row, acker, handled>>

(* The worker appends: a read may find the line without its newline, or only *)
(* the beginning of its text.                                                *)
BeginLine ==
    /\ tail = NoTail /\ words < MaxWords
    /\ words' = words + 1
    /\ \E k \in Kinds, torn \in BOOLEAN : tail' = [k |-> k, n |-> words + 1, torn |-> torn]
    /\ quiet' = FALSE
    /\ UNCHANGED <<report, view>> /\ WorldKept /\ TaskKept

EndLine ==
    /\ tail # NoTail
    /\ report' = Append(report, [k |-> tail.k, n |-> tail.n])
    /\ tail' = NoTail
    /\ quiet' = FALSE
    /\ UNCHANGED <<words, view>> /\ WorldKept /\ TaskKept

(* Or it rewrites the file; the same text again would be no new report.      *)
Rewrite ==
    /\ tail = NoTail /\ words < MaxWords
    /\ words' = words + 1
    /\ \E k \in Kinds : report' = <<[k |-> k, n |-> words + 1]>>
    /\ quiet' = FALSE
    /\ UNCHANGED <<tail, view>> /\ WorldKept /\ TaskKept

(* The rest of the system, as HandWatch, HandSteering and HandReconcile have *)
(* it: only that a send begins before it ends matters here.                  *)
Changes ==
    /\ changes < MaxChanges /\ changes' = changes + 1
    /\ \/ pane' \in Panes \ {pane} /\ UNCHANGED <<quiet, send, row>>
       \/ quiet' = TRUE /\ UNCHANGED <<pane, send, row>>
       \/ /\ send' \in IF send = "pending" THEN Sends \ {"none", "pending"} ELSE {"pending"}
          /\ UNCHANGED <<pane, quiet, row>>
       \/ row' = [row EXCEPT !.repair = ~@] /\ UNCHANGED <<pane, quiet, send>>
    /\ UNCHANGED <<report, tail, words, acker, view, handled>>

-----------------------------------------------------------------------------
(* Mutant: the line that is still being appended is acknowledged too.        *)
CurrentReportTail == classifyReportBytes

(* Every complete line, and no other.                                        *)
CurrentReportCursor == report

AckReads ==
    /\ acker.pc = "none"
    /\ acker' = [pc |-> "write", cursor |-> CurrentReportCursor,
                 upTo |-> IF report = <<>> THEN 0 ELSE Last(report).n]
    /\ UNCHANGED <<row, handled, view>> /\ ReportKept /\ WorldKept

SetTaskAcknowledgement ==
    /\ acker.pc = "write"
    /\ row' = [row EXCEPT !.acked = acker.cursor]
    /\ handled' = acker.upTo
    /\ acker' = NoAcker
    /\ UNCHANGED view /\ ReportKept /\ WorldKept

-----------------------------------------------------------------------------
(* fleetViews and buildTaskView, in the order of their reads.                *)
Read(from, v) ==
    /\ view.pc = from
    /\ view' = v
    /\ ReportKept /\ WorldKept /\ TaskKept

ListHistories ==
    Read("none", [NoView EXCEPT !.pc = "holds", !.acked = row.acked, !.repair = row.repair])

(* Whether it is held is up to other commands.                               *)
ListHolds == \E held \in BOOLEAN : Read("holds", [view EXCEPT !.pc = "pane", !.held = held])

probePaneStatus == Read("pane", [view EXCEPT !.pc = "report", !.pane = pane])

(* A file that cannot be read is told from one that is empty.                *)
ReadReportData ==
    \/ Read("report", [view EXCEPT !.pc = "silence", !.lines = classifyReportBytes])
    \/ Read("report", [view EXCEPT !.pc = "silence", !.readable = FALSE])

taskParked == Read("silence", [view EXCEPT !.pc = "send", !.parked = quiet])

LatestSendMetadata == Read("send", [view EXCEPT !.pc = "shown", !.send = send])

Forget == Read("shown", NoView)

AttentionNext ==
    /\ \/ BeginLine \/ EndLine \/ Rewrite \/ Changes
       \/ AckReads \/ SetTaskAcknowledgement
       \/ ListHistories \/ ListHolds \/ probePaneStatus \/ ReadReportData \/ taskParked
       \/ LatestSendMetadata \/ Forget
    /\ standing' = IF view'.pc = "none" THEN {}
                   ELSE IF view.pc = "none" THEN Concerns' ELSE standing \cap Concerns'

AttentionSpec == AttentionInit /\ [][AttentionNext]_attentionVars

-----------------------------------------------------------------------------
(* A view that was put together while the worker wrote and another           *)
(* supervisor acknowledged shows everything that called for attention all the*)
(* while, "cannot observe" included                                          *)
(* (docs/adr/attention-is-one-derivation-over-three-channels.md:117); an     *)
(* acknowledgement hides no line that was not complete when it was made.     *)
NothingOwedIsHidden ==
    view.pc = "shown" =>
        \/ standing \subseteq Derive(view)
        \/ ~view.readable /\ "report-unreadable" \in Derive(view)

(* "an existing unresolved obligation always outranks fresh queued work"     *)
(* (cmd/nextaction.go:44), unless it is that of a send in flight: that one is*)
(* counted as attention, and no next action is about it.                     *)
ObligationsOutrank ==
    view.pc = "shown" /\ Derive(view) \ {"send-pending"} # {}
        => classifyNextAction(view) \in Derive(view)

=============================================================================
