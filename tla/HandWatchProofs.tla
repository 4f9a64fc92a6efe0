----------------------------- MODULE HandWatchProofs -----------------------------
(***************************************************************************)
(* What the observation loop promises about the markers it keeps in the    *)
(* database, for any bounds, kinds of lines, statuses, commands and        *)
(* faults: no restart skips a report line, a marker that suppresses an     *)
(* announcement was earned, and no link is lost with its line.             *)
(***************************************************************************)
EXTENDS HandWatch, SequenceTheorems, TLAPS

Known  == Statuses \cup {"unknown"}
Words  == ReportKinds \cup {""}

Row ==
    [att : 1..MaxAttempts, changedFor : Known \cup {""}, verified : BOOLEAN, last : Words,
     cursor : Seq(Kinds), announced : BOOLEAN, pr : BOOLEAN, executed : BOOLEAN]

Saved ==
    [cursor : Seq(Kinds), merged : BOOLEAN, verified : BOOLEAN, changedFor : Known \cup {""}]

TaskState ==
    [att : 0..MaxAttempts, status : Known, blocked : BOOLEAN, caughtUp : BOOLEAN,
     cursor : Seq(Kinds), merged : BOOLEAN, verified : BOOLEAN, last : Words, saved : Saved]

Snap ==
    [att : 0..MaxAttempts, pr : BOOLEAN, executed : BOOLEAN, changedFor : Known \cup {""},
     status : Statuses \cup {Gone}]

ChannelOK ==
    /\ report \in Seq(Kinds) /\ Len(report) <= MaxLines
    /\ pane \in Statuses /\ merged \in BOOLEAN /\ troubles \in 0..MaxTroubles

(* The lock task:<id> is the watcher's exactly between its two writes.       *)
LockOK ==
    /\ busy \in {"none", "pr", "merge", "merged", "watcher"}
    /\ pc \in {"off", "list", "tail", "report", "link", "sync", "attempt", "edge"}
    /\ busy = "watcher" <=> pc = "attempt"

RowsOK ==
    /\ row \in Row /\ snap \in Snap /\ ts \in TaskState
    /\ ts.att <= row.att
    /\ pc \in {"tail", "report", "link", "sync", "attempt"} => ts.att # 0

(* What is consumed and not classified yet is the end of what the cursor     *)
(* covers.                                                                   *)
TodoOK ==
    /\ todo \in Seq(Kinds)
    /\ Len(todo) <= Len(ts.cursor) /\ Len(ts.cursor) <= MaxLines
    /\ Len(row.cursor) <= MaxLines
    /\ \A n \in 1..Len(todo) : todo[n] = ts.cursor[Len(ts.cursor) - Len(todo) + n]
    /\ pc \notin {"report", "link"} => todo = <<>>
    /\ pc = "link" => todo # <<>>

FactsOK ==
    /\ said \subseteq Facts /\ buffer \subseteq Facts
    /\ pc = "off" => buffer = {}
    /\ ~UntilEvent => buffer = {}

BaseInv == ChannelOK /\ LockOK /\ RowsOK /\ TodoOK /\ FactsOK

(* How many lines of the cursor are classified.                              *)
Classified ==
    IF pc = "link" THEN Len(ts.cursor) - Len(todo) + 1 ELSE Len(ts.cursor) - Len(todo)

Announced(lines, k) == \A n \in 1..k : Line(SubSeq(lines, 1, n)) \in said \cup buffer

CursorInv ==
    /\ Announced(row.cursor, Len(row.cursor))
    /\ Announced(ts.cursor, Classified)

(* What is durable and what the watcher is about to make durable.            *)
MarksInv ==
    /\ row.announced => PRMerged \in said
    /\ ts.merged => PRMerged \in said
    /\ row.verified => Done(row.att) \in said
    /\ ts.verified => Done(ts.att) \in said

Accounted(lines, k) ==
    \A n \in 1..k : lines[n] = "link" => row.pr \/ Unrecorded \in said

LinksInv ==
    /\ snap.pr => row.pr
    /\ Accounted(row.cursor, Len(row.cursor))
    /\ Accounted(ts.cursor, Len(ts.cursor) - Len(todo))

AllInv == BaseInv /\ CursorInv /\ MarksInv /\ LinksInv

-----------------------------------------------------------------------------
LEMMA Least ==
  /\ 0 \in 0..MaxAttempts /\ 1 \in 1..MaxAttempts /\ 0 \in 0..MaxTroubles /\ 0 <= MaxLines
  /\ <<>> \in Seq(Kinds) /\ Len(<<>>) = 0
BY WatchAssumption

LEMMA NoSnapTyped == NoSnap \in Snap
BY Least DEF NoSnap, Snap, Gone

LEMMA UntrackedTyped ==
  /\ Untracked \in TaskState
  /\ Untracked.att = 0 /\ Untracked.cursor = <<>> /\ ~Untracked.merged /\ ~Untracked.verified
<1>1. <<>> \in Seq(Kinds)
  OBVIOUS
<1>2. Untracked.saved \in Saved
  BY <1>1 DEF Untracked, Saved
<1>3. 0 \in 0..MaxAttempts
  BY WatchAssumption
<1> QED BY <1>1, <1>2, <1>3 DEF Untracked, TaskState, Known, Words

LEMMA AttemptNumbers ==
  /\ row \in Row => row.att \in 1..MaxAttempts /\ row.att \in Nat \ {0} /\ row.att \in 0..MaxAttempts
  /\ ts \in TaskState => ts.att \in 0..MaxAttempts /\ ts.att \in Nat
                        /\ (ts.att # 0 => ts.att \in 1..MaxAttempts)
<1>1. row \in Row => row.att \in 1..MaxAttempts
  BY DEF Row
<1>2. ts \in TaskState => ts.att \in 0..MaxAttempts
  BY DEF TaskState
<1>3. MaxAttempts \in Nat
  BY WatchAssumption
<1> QED BY <1>1, <1>2, <1>3

LEMMA InitKeepsBase == WatchInit => BaseInv
<1> SUFFICES ASSUME WatchInit PROVE BaseInv
  OBVIOUS
<1>1. row \in Row /\ row.att = 1 /\ row.cursor = <<>>
  <2>1. row = NewRow
    BY DEF WatchInit
  <2> QED BY <2>1, Least DEF NewRow, Row, Known, Words
<1>2. ts = Untracked /\ snap = NoSnap
  BY DEF WatchInit
<1>3. RowsOK
  BY <1>1, <1>2, NoSnapTyped, UntrackedTyped DEF RowsOK, WatchInit
<1>4. ChannelOK /\ LockOK
  BY Least, WatchAssumption DEF WatchInit, ChannelOK, LockOK
<1>5. TodoOK /\ FactsOK
  BY <1>1, <1>2, UntrackedTyped, WatchAssumption DEF WatchInit, TodoOK, FactsOK
<1> QED BY <1>3, <1>4, <1>5 DEF BaseInv

LEMMA StartKeepsBase == BaseInv /\ Start => BaseInv'
<1> SUFFICES ASSUME BaseInv, Start PROVE BaseInv'
  OBVIOUS
<1>b. ChannelOK /\ LockOK /\ RowsOK /\ TodoOK /\ FactsOK
  BY DEF BaseInv
<1>1. ChannelOK'
  BY <1>b, WatchAssumption DEF ChannelOK, Start, channelVars
<1>2. LockOK'
  BY <1>b DEF LockOK, Start, channelVars
<1>3. RowsOK'
  BY <1>b DEF RowsOK, Start, channelVars
<1>4. TodoOK'
  BY <1>b, WatchAssumption, UntrackedTyped DEF TodoOK, RowsOK, ChannelOK, Row, TaskState, Start, channelVars
<1>5. FactsOK'
  BY <1>b DEF FactsOK, RowsOK, Start, channelVars
<1> QED BY <1>1, <1>2, <1>3, <1>4, <1>5 DEF BaseInv

LEMMA ResumedTyped ==
  ASSUME BaseInv, NEW status \in {pane, Gone}
  PROVE  /\ resumeTaskState(status) \in TaskState
         /\ resumeTaskState(status).att = row.att
         /\ resumeTaskState(status).cursor = row.cursor
         /\ resumeTaskState(status).merged = row.announced
         /\ resumeTaskState(status).verified = row.verified
<1>1. row \in Row /\ pane \in Statuses
  BY DEF BaseInv, RowsOK, ChannelOK
<1>2. [cursor |-> row.cursor, merged |-> row.announced,
       verified |-> row.verified, changedFor |-> row.changedFor] \in Saved
  BY <1>1 DEF Row, Saved
<1>3. (IF status = Gone THEN "unknown" ELSE status) \in Known
  BY <1>1 DEF Known
<1>4. row.att \in 0..MaxAttempts /\ row.last \in Words
  BY <1>1, AttemptNumbers DEF Row
<1> QED BY <1>1, <1>2, <1>3, <1>4, UntrackedTyped DEF resumeTaskState, TaskState, Row

LEMMA ObserveKeepsBase == BaseInv /\ Observe => BaseInv'
<1> SUFFICES ASSUME BaseInv, Observe PROVE BaseInv'
  OBVIOUS
<1>b. ChannelOK /\ LockOK /\ RowsOK /\ TodoOK /\ FactsOK
  BY DEF BaseInv
<1>1. ChannelOK'
  BY <1>b, WatchAssumption DEF ChannelOK, Observe, resumeTaskState, Untracked, Silent, InTick, Calm, Trouble, channelVars
<1>2. LockOK'
  BY <1>b DEF LockOK, Observe, resumeTaskState, Untracked, Silent, InTick, Calm, Trouble, channelVars
<1>3. RowsOK'
  <2>row. row' = row
    BY DEF Observe, resumeTaskState, Silent, InTick, Calm, Trouble, channelVars
  <2>s. PICK status \in {pane, Gone} :
          IF ts.att = row.att
          THEN /\ snap' = [att |-> row.att, pr |-> row.pr, executed |-> row.executed,
                           changedFor |-> row.changedFor, status |-> status]
               /\ pc' = "tail"
               /\ UNCHANGED ts
          ELSE /\ ts' = resumeTaskState(status)
               /\ pc' = "edge"
               /\ UNCHANGED snap
    BY DEF Observe
  <2>r. row.att \in 1..MaxAttempts /\ row.att # 0 /\ row.att \in 0..MaxAttempts
    BY <1>b, AttemptNumbers DEF RowsOK
  <2>snap. snap' \in Snap
    <3>1. row \in Row /\ snap \in Snap /\ status \in Statuses \cup {Gone}
      BY <1>b DEF RowsOK, ChannelOK
    <3>2. /\ row.pr \in BOOLEAN /\ row.executed \in BOOLEAN
          /\ row.changedFor \in Known \cup {""}
      BY <3>1 DEF Row
    <3>3. [att |-> row.att, pr |-> row.pr, executed |-> row.executed,
           changedFor |-> row.changedFor, status |-> status] \in Snap
      BY <2>r, <3>1, <3>2 DEF Snap
    <3> QED BY <2>s, <3>1, <3>3
  <2>ts. ts' \in TaskState
    BY <1>b, <2>s, ResumedTyped DEF RowsOK
  <2>att. ts'.att <= row'.att /\ (pc' \in {"tail", "report", "link", "sync", "attempt"} => ts'.att # 0)
    BY <1>b, <2>row, <2>s, <2>r, ResumedTyped DEF RowsOK
  <2> QED BY <1>b, <2>row, <2>snap, <2>ts, <2>att DEF RowsOK
<1>4. TodoOK'
  <2>1. row' = row /\ todo' = todo /\ todo = <<>> /\ pc' \in {"tail", "edge"}
    BY <1>b DEF Observe, TodoOK
  <2>2. ts'.cursor = ts.cursor \/ ts'.cursor = row.cursor
    BY ResumedTyped DEF Observe
  <2>3. row.cursor \in Seq(Kinds) /\ ts.cursor \in Seq(Kinds)
    BY <1>b DEF RowsOK, Row, TaskState
  <2>4. Len(ts'.cursor) \in Nat /\ Len(ts'.cursor) <= MaxLines
    BY <2>2, <2>3, <1>b DEF TodoOK
  <2> QED BY <1>b, <2>1, <2>4 DEF TodoOK
<1>5. FactsOK'
  BY <1>b DEF FactsOK, RowsOK, Observe, resumeTaskState, Silent, InTick, Calm, Trouble, channelVars
<1> QED BY <1>1, <1>2, <1>3, <1>4, <1>5 DEF BaseInv

LEMMA tailReportKeepsBase == BaseInv /\ tailReport => BaseInv'
<1> SUFFICES ASSUME BaseInv, tailReport PROVE BaseInv'
  OBVIOUS
<1>b. ChannelOK /\ LockOK /\ RowsOK /\ TodoOK /\ FactsOK
  BY DEF BaseInv
<1>1. ChannelOK'
  BY <1>b, WatchAssumption DEF ChannelOK, tailReport, TailReport, covers, IsPrefix, Silent, TickOnly, InTick, Calm, channelVars
<1>2. LockOK'
  BY <1>b DEF LockOK, tailReport, TailReport, covers, IsPrefix, Silent, TickOnly, InTick, Calm, channelVars
<1>3. RowsOK'
  <2>row. row' = row
    BY DEF tailReport, TailReport, covers, IsPrefix, Silent, TickOnly, InTick, Calm, channelVars
  <2>snap. snap' = snap
    BY DEF tailReport, TailReport, covers, IsPrefix, Silent, TickOnly, InTick, Calm, channelVars
  <2>ts. ts' \in TaskState
    BY <1>b, WatchAssumption, NoSnapTyped, UntrackedTyped DEF RowsOK, ChannelOK, LockOK, TaskState, Saved, Row, Known, Words, tailReport, TailReport, covers, IsPrefix, Silent, TickOnly, InTick, Calm, channelVars
  <2>att. ts'.att <= row'.att /\ (pc' \in {"tail", "report", "link", "sync", "attempt"} => ts'.att # 0)
    BY <1>b, UntrackedTyped, WatchAssumption DEF RowsOK, TaskState, Row, tailReport, TailReport, covers, IsPrefix, Silent, TickOnly, InTick, Calm, channelVars
  <2> QED BY <1>b, <2>row, <2>snap, <2>ts, <2>att DEF RowsOK
<1>4. TodoOK'
  <2> DEFINE base == IF covers(ts.cursor, report) THEN Len(ts.cursor) ELSE 0
  <2>1. base \in 0..Len(report) /\ report \in Seq(Kinds)
    BY <1>b DEF RowsOK, TaskState, ChannelOK, covers, IsPrefix
  <2>2. todo' = SubSeq(report, base + 1, Len(report)) /\ ts'.cursor = report
    BY <1>b DEF RowsOK, TaskState, tailReport, TailReport
  <2> HIDE DEF base
  <2>3. todo' \in Seq(Kinds) /\ Len(todo') = Len(report) - base
    BY <2>1, <2>2
  <2>4. \A n \in 1..Len(todo') : todo'[n] = report[base + n]
    BY <2>1, <2>2
  <2>5. pc' = "report" /\ row' = row
    BY DEF tailReport
  <2>6. \A n \in 1..Len(todo') : todo'[n] = ts'.cursor[Len(ts'.cursor) - Len(todo') + n]
    <3>1. Len(ts'.cursor) - Len(todo') = base
      BY <2>1, <2>2, <2>3
    <3> QED BY <2>2, <2>4, <3>1
  <2>7. Len(todo') <= Len(ts'.cursor) /\ Len(ts'.cursor) <= MaxLines
    BY <1>b, <2>1, <2>2, <2>3 DEF ChannelOK
  <2> QED BY <1>b, <2>3, <2>5, <2>6, <2>7 DEF TodoOK
<1>5. FactsOK'
  BY <1>b DEF FactsOK, RowsOK, tailReport, TailReport, covers, IsPrefix, Silent, TickOnly, InTick, Calm, channelVars
<1> QED BY <1>1, <1>2, <1>3, <1>4, <1>5 DEF BaseInv

LEMMA AttemptIsFact ==
  ASSUME NEW a \in 1..MaxAttempts
  PROVE  Done(a) \in Facts /\ Blocked(a) \in Facts
<1>1. Done(a) \in {Done(a), Blocked(a)} /\ Blocked(a) \in {Done(a), Blocked(a)}
  OBVIOUS
<1> QED BY <1>1, Zenon DEF Facts

LEMMA LineIsFact ==
  ASSUME NEW lines \in Seq(Kinds), NEW n \in 1..MaxLines, n <= Len(lines)
  PROVE  Line(SubSeq(lines, 1, n)) \in Facts
<1>1. SubSeq(lines, 1, n) \in [1..n -> Kinds]
  <2>1. Len(SubSeq(lines, 1, n)) = n /\ SubSeq(lines, 1, n) \in Seq(Kinds)
    OBVIOUS
  <2> QED BY <2>1, LenProperties
<1>2. SubSeq(lines, 1, n) \in UNION {[1..m -> Kinds] : m \in 1..MaxLines}
  BY <1>1
<1>3. Line(SubSeq(lines, 1, n)) \in {Line(s) : s \in UNION {[1..m -> Kinds] : m \in 1..MaxLines}}
  BY <1>2
<1> QED BY <1>3 DEF Facts

LEMMA ClassifyReportLineKeepsBase == BaseInv /\ ClassifyReportLine => BaseInv'
<1> SUFFICES ASSUME BaseInv, ClassifyReportLine PROVE BaseInv'
  OBVIOUS
<1>b. ChannelOK /\ LockOK /\ RowsOK /\ TodoOK /\ FactsOK
  BY DEF BaseInv
<1>1. ChannelOK'
  BY <1>b, WatchAssumption DEF ChannelOK, ClassifyReportLine, doneVerified, ReportState, handleEvent, TickOnly, InTick, Calm, channelVars
<1>2. LockOK'
  BY <1>b DEF LockOK, ClassifyReportLine, doneVerified, ReportState, handleEvent, TickOnly, InTick, Calm, channelVars
<1>3. RowsOK'
  <2>row. row' = row
    BY DEF ClassifyReportLine, doneVerified, ReportState, handleEvent, TickOnly, InTick, Calm, channelVars
  <2>snap. snap' = snap
    BY DEF ClassifyReportLine, doneVerified, ReportState, handleEvent, TickOnly, InTick, Calm, channelVars
  <2>ts. ts' \in TaskState
    <3>1. Head(todo) \in Kinds
      BY <1>b DEF TodoOK, ClassifyReportLine
    <3>2. ReportState(Head(todo)) \in Words
      BY <3>1, WatchAssumption DEF ReportState, Words, ReportKinds
    <3>3. ts \in TaskState
      BY <1>b DEF RowsOK
    <3>4. doneVerified(ts) \in BOOLEAN
      BY <3>3, <1>b DEF doneVerified, RowsOK, TaskState, Snap
    <3>5. PICK last \in Words, verified \in BOOLEAN : ts' = [ts EXCEPT !.last = last, !.verified = verified]
      BY <3>2, <3>3, <3>4 DEF ClassifyReportLine, TaskState
    <3> QED BY <3>3, <3>5 DEF TaskState
  <2>att. ts'.att <= row'.att /\ (pc' \in {"tail", "report", "link", "sync", "attempt"} => ts'.att # 0)
    BY <1>b, UntrackedTyped, WatchAssumption DEF RowsOK, TaskState, Row, ClassifyReportLine, doneVerified, ReportState, handleEvent, TickOnly, InTick, Calm, channelVars
  <2> QED BY <1>b, <2>row, <2>snap, <2>ts, <2>att DEF RowsOK
<1>4. TodoOK'
  <2>1. ts'.cursor = ts.cursor /\ row' = row
    BY <1>b DEF ClassifyReportLine, RowsOK, TaskState
  <2>2. todo # <<>> /\ ((pc' = "link" /\ todo' = todo) \/ (pc' = "report" /\ todo' = Tail(todo)))
    BY DEF ClassifyReportLine
  <2>3. ts.cursor \in Seq(Kinds)
    BY <1>b DEF RowsOK, TaskState
  <2>4. CASE pc' = "link" /\ todo' = todo
    BY <1>b, <2>1, <2>2, <2>3, <2>4 DEF TodoOK
  <2>5. CASE pc' = "report" /\ todo' = Tail(todo)
    <3>1. /\ Tail(todo) \in Seq(Kinds) /\ Len(Tail(todo)) = Len(todo) - 1
          /\ \A n \in 1..Len(Tail(todo)) : Tail(todo)[n] = todo[n + 1] /\ n + 1 \in 1..Len(todo)
      BY <1>b, <2>2 DEF TodoOK
    <3>2. Len(ts.cursor) \in Nat /\ Len(todo) \in Nat
      BY <1>b, <2>3 DEF TodoOK
    <3> QED BY <1>b, <2>1, <2>5, <3>1, <3>2 DEF TodoOK
  <2> QED BY <2>2, <2>4, <2>5
<1>5. FactsOK'
  <2>1. ts \in TaskState /\ ts.att \in 1..MaxAttempts
    BY <1>b, WatchAssumption DEF RowsOK, TaskState, ClassifyReportLine
  <2>2. Done(ts.att) \in Facts
    BY <2>1, AttemptIsFact
  <2> DEFINE m == Len(ts.cursor) - Len(todo) + 1
  <2>3. m \in 1..Len(ts.cursor) /\ m \in 1..MaxLines
    BY <2>1, <1>b, WatchAssumption DEF TodoOK, TaskState, ClassifyReportLine
  <2>4. Line(SubSeq(ts.cursor, 1, m)) \in Facts
    BY <2>1, <2>3, LineIsFact DEF TaskState
  <2>6. \E facts \in SUBSET Facts : handleEvent(facts)
    BY <2>2, <2>4 DEF ClassifyReportLine
  <2>7. pc' # "off"
    BY DEF ClassifyReportLine
  <2> QED BY <1>b, <2>6, <2>7 DEF FactsOK, handleEvent
<1> QED BY <1>1, <1>2, <1>3, <1>4, <1>5 DEF BaseInv

LEMMA autoRecordPRKeepsBase == BaseInv /\ autoRecordPR => BaseInv'
<1> SUFFICES ASSUME BaseInv, autoRecordPR PROVE BaseInv'
  OBVIOUS
<1>b. ChannelOK /\ LockOK /\ RowsOK /\ TodoOK /\ FactsOK
  BY DEF BaseInv
<1>1. ChannelOK'
  BY <1>b, WatchAssumption DEF ChannelOK, autoRecordPR, handleEvent, recordedByLockHolder, Trouble, Calm, Silent, InTick, channelVars
<1>2. LockOK'
  BY <1>b DEF LockOK, autoRecordPR, handleEvent, recordedByLockHolder, Trouble, Calm, Silent, InTick, channelVars
<1>3. RowsOK'
  <2>row. row' \in Row
    BY <1>b, WatchAssumption, NoSnapTyped, UntrackedTyped DEF RowsOK, ChannelOK, LockOK, Row, Known, Words, TaskState, autoRecordPR, handleEvent, recordedByLockHolder, Trouble, Calm, Silent, InTick, channelVars
  <2>snap. snap' \in Snap
    BY <1>b, WatchAssumption, NoSnapTyped, UntrackedTyped DEF RowsOK, ChannelOK, LockOK, Snap, Row, Known, autoRecordPR, handleEvent, recordedByLockHolder, Trouble, Calm, Silent, InTick, channelVars
  <2>ts. ts' = ts
    BY DEF autoRecordPR, handleEvent, recordedByLockHolder, Trouble, Calm, Silent, InTick, channelVars
  <2>att. ts'.att <= row'.att /\ (pc' \in {"tail", "report", "link", "sync", "attempt"} => ts'.att # 0)
    BY <1>b, UntrackedTyped, WatchAssumption DEF RowsOK, TaskState, Row, autoRecordPR, handleEvent, recordedByLockHolder, Trouble, Calm, Silent, InTick, channelVars
  <2> QED BY <1>b, <2>row, <2>snap, <2>ts, <2>att DEF RowsOK
<1>4. TodoOK'
  <2>1. ts' = ts /\ todo # <<>> /\ todo' = Tail(todo) /\ pc' = "report"
    BY <1>b DEF autoRecordPR, TodoOK
  <2>2. row'.cursor = row.cursor
    BY <1>b DEF autoRecordPR, RowsOK, Row
  <2>3. ts.cursor \in Seq(Kinds)
    BY <1>b DEF RowsOK, TaskState
  <2> QED BY <1>b, <2>1, <2>2, <2>3 DEF TodoOK
<1>5. FactsOK'
  <2>1. Unrecorded \in Facts
    BY DEF Facts
  <2>2. UNCHANGED <<said, buffer>> \/ handleEvent({Unrecorded})
    BY DEF autoRecordPR, Silent
  <2>3. pc' # "off"
    BY DEF autoRecordPR
  <2> QED BY <1>b, <2>1, <2>2, <2>3 DEF FactsOK, handleEvent
<1> QED BY <1>1, <1>2, <1>3, <1>4, <1>5 DEF BaseInv

LEMMA ClassifyKeepsBase == BaseInv /\ Classify => BaseInv'
<1> SUFFICES ASSUME BaseInv, Classify PROVE BaseInv'
  OBVIOUS
<1>b. ChannelOK /\ LockOK /\ RowsOK /\ TodoOK /\ FactsOK
  BY DEF BaseInv
<1>1. ChannelOK'
  BY <1>b, WatchAssumption DEF ChannelOK, Classify, ClassifyStatus, ClassifyCatchUp, doneVerified, handleEvent, TickOnly, InTick, Calm, channelVars
<1>2. LockOK'
  BY <1>b DEF LockOK, Classify, ClassifyStatus, ClassifyCatchUp, doneVerified, handleEvent, TickOnly, InTick, Calm, channelVars
<1>3. RowsOK'
  <2>row. row' = row
    BY DEF Classify, ClassifyStatus, ClassifyCatchUp, doneVerified, handleEvent, TickOnly, InTick, Calm, channelVars
  <2>snap. snap' = snap
    BY DEF Classify, ClassifyStatus, ClassifyCatchUp, doneVerified, handleEvent, TickOnly, InTick, Calm, channelVars
  <2> DEFINE caught == ClassifyCatchUp(ts)
             status == ClassifyStatus(caught)
             seen   == snap.pr /\ merged /\ ~ts.merged
             now    == [status EXCEPT !.merged = @ \/ seen]
             sure   == ~now.verified /\ now.last = "done" /\ doneVerified(now)
  <2>0. ts \in TaskState /\ snap \in Snap /\ merged \in BOOLEAN
    BY <1>b DEF RowsOK, ChannelOK
  <2>1. caught \in TaskState
    BY <2>0 DEF ClassifyCatchUp, TaskState
  <2>2. status \in TaskState
    BY <2>0, <2>1 DEF ClassifyStatus, TaskState, Snap, Known
  <2>3. now \in TaskState
    BY <2>0, <2>2 DEF TaskState, Snap
  <2>4. ts' = [now EXCEPT !.verified = @ \/ sure]
    BY DEF Classify
  <2>ts. ts' \in TaskState
    BY <2>3, <2>4 DEF TaskState
  <2>att. ts'.att <= row'.att /\ (pc' \in {"tail", "report", "link", "sync", "attempt"} => ts'.att # 0)
    BY <1>b, UntrackedTyped, WatchAssumption DEF RowsOK, TaskState, Row, Classify, ClassifyStatus, ClassifyCatchUp, doneVerified, handleEvent, TickOnly, InTick, Calm, channelVars
  <2> QED BY <1>b, <2>row, <2>snap, <2>ts, <2>att DEF RowsOK
<1>4. TodoOK'
  BY <1>b, WatchAssumption, UntrackedTyped DEF TodoOK, RowsOK, ChannelOK, Row, TaskState, Classify, ClassifyStatus, ClassifyCatchUp, doneVerified, handleEvent, TickOnly, InTick, Calm, channelVars
<1>5. FactsOK'
  <2>1. ts.att \in 1..MaxAttempts
    BY <1>b, WatchAssumption DEF RowsOK, TaskState, Classify
  <2>2. {Done(ts.att), Blocked(ts.att), PRMerged} \subseteq Facts
    <3>1. PRMerged \in Facts
      BY DEF Facts
    <3> QED BY <2>1, <3>1, AttemptIsFact
  <2>3. \E facts \in SUBSET Facts : handleEvent(facts)
    BY <2>2 DEF Classify
  <2>4. pc' # "off"
    BY DEF Classify
  <2> QED BY <1>b, <2>3, <2>4 DEF FactsOK, handleEvent
<1> QED BY <1>1, <1>2, <1>3, <1>4, <1>5 DEF BaseInv

LEMMA SyncSkippedKeepsBase == BaseInv /\ SyncSkipped => BaseInv'
<1> SUFFICES ASSUME BaseInv, SyncSkipped PROVE BaseInv'
  OBVIOUS
<1>b. ChannelOK /\ LockOK /\ RowsOK /\ TodoOK /\ FactsOK
  BY DEF BaseInv
<1>1. ChannelOK'
  BY <1>b, WatchAssumption DEF ChannelOK, SyncSkipped, Silent, TickOnly, InTick, Calm, NoSnap, channelVars
<1>2. LockOK'
  BY <1>b DEF LockOK, SyncSkipped, Silent, TickOnly, InTick, Calm, NoSnap, channelVars
<1>3. RowsOK'
  <2>row. row' = row
    BY DEF SyncSkipped, Silent, TickOnly, InTick, Calm, channelVars
  <2>snap. snap' \in Snap
    BY <1>b, WatchAssumption, NoSnapTyped, UntrackedTyped DEF RowsOK, ChannelOK, LockOK, Snap, Row, Known, SyncSkipped, Silent, TickOnly, InTick, Calm, channelVars
  <2>ts. ts' = ts
    BY DEF SyncSkipped, Silent, TickOnly, InTick, Calm, channelVars
  <2>att. ts'.att <= row'.att /\ (pc' \in {"tail", "report", "link", "sync", "attempt"} => ts'.att # 0)
    BY <1>b, UntrackedTyped, WatchAssumption DEF RowsOK, TaskState, Row, SyncSkipped, Silent, TickOnly, InTick, Calm, channelVars
  <2> QED BY <1>b, <2>row, <2>snap, <2>ts, <2>att DEF RowsOK
<1>4. TodoOK'
  BY <1>b, WatchAssumption, UntrackedTyped DEF TodoOK, RowsOK, ChannelOK, Row, TaskState, SyncSkipped, Silent, TickOnly, InTick, Calm, channelVars
<1>5. FactsOK'
  BY <1>b DEF FactsOK, RowsOK, SyncSkipped, Silent, TickOnly, InTick, Calm, channelVars
<1> QED BY <1>1, <1>2, <1>3, <1>4, <1>5 DEF BaseInv

LEMMA SyncTaskKeepsBase == BaseInv /\ SyncTask => BaseInv'
<1> SUFFICES ASSUME BaseInv, SyncTask PROVE BaseInv'
  OBVIOUS
<1>b. ChannelOK /\ LockOK /\ RowsOK /\ TodoOK /\ FactsOK
  BY DEF BaseInv
<1>1. ChannelOK'
  BY <1>b, WatchAssumption DEF ChannelOK, SyncTask, Silent, TickOnly, InTick, Calm, NoSnap, channelVars
<1>2. LockOK'
  BY <1>b DEF LockOK, SyncTask, Silent, TickOnly, InTick, Calm, NoSnap, channelVars
<1>3. RowsOK'
  <2>row. row' \in Row
    BY <1>b, WatchAssumption, NoSnapTyped, UntrackedTyped DEF RowsOK, ChannelOK, LockOK, Row, Known, Words, TaskState, SyncTask, Silent, TickOnly, InTick, Calm, channelVars
  <2>snap. snap' \in Snap
    BY <1>b, WatchAssumption, NoSnapTyped, UntrackedTyped DEF RowsOK, ChannelOK, LockOK, Snap, Row, Known, SyncTask, Silent, TickOnly, InTick, Calm, channelVars
  <2>ts. ts' \in TaskState
    BY <1>b, WatchAssumption, NoSnapTyped, UntrackedTyped DEF RowsOK, ChannelOK, LockOK, TaskState, Saved, Row, Known, Words, SyncTask, Silent, TickOnly, InTick, Calm, channelVars
  <2>att. ts'.att <= row'.att /\ (pc' \in {"tail", "report", "link", "sync", "attempt"} => ts'.att # 0)
    BY <1>b, UntrackedTyped, WatchAssumption DEF RowsOK, TaskState, Row, SyncTask, Silent, TickOnly, InTick, Calm, channelVars
  <2> QED BY <1>b, <2>row, <2>snap, <2>ts, <2>att DEF RowsOK
<1>4. TodoOK'
  BY <1>b, WatchAssumption, UntrackedTyped DEF TodoOK, RowsOK, ChannelOK, Row, TaskState, SyncTask, Silent, TickOnly, InTick, Calm, channelVars
<1>5. FactsOK'
  BY <1>b DEF FactsOK, RowsOK, SyncTask, Silent, TickOnly, InTick, Calm, channelVars
<1> QED BY <1>1, <1>2, <1>3, <1>4, <1>5 DEF BaseInv

LEMMA SyncAttemptKeepsBase == BaseInv /\ SyncAttempt => BaseInv'
<1> SUFFICES ASSUME BaseInv, SyncAttempt PROVE BaseInv'
  OBVIOUS
<1>b. ChannelOK /\ LockOK /\ RowsOK /\ TodoOK /\ FactsOK
  BY DEF BaseInv
<1>1. ChannelOK'
  BY <1>b, WatchAssumption DEF ChannelOK, SyncAttempt, OwnsAttempt, Marks, Silent, TickOnly, InTick, Calm, channelVars
<1>2. LockOK'
  BY <1>b DEF LockOK, SyncAttempt, OwnsAttempt, Marks, Silent, TickOnly, InTick, Calm, channelVars
<1>3. RowsOK'
  <2>0. ts \in TaskState /\ row \in Row
    BY <1>b DEF RowsOK
  <2>m. Marks(ts) \in Saved
    BY <2>0 DEF Marks, Saved, TaskState
  <2>row. row' \in Row
    <3>1. CASE OwnsAttempt
      <4>1. row' = [row EXCEPT !.changedFor = ts.status, !.last = ts.last, !.verified = @ \/ ts.verified]
        BY <3>1 DEF SyncAttempt
      <4> QED BY <2>0, <4>1 DEF Row, TaskState
    <3> QED BY <2>0, <3>1 DEF SyncAttempt
  <2>snap. snap' = snap
    BY DEF SyncAttempt, OwnsAttempt, Marks, Silent, TickOnly, InTick, Calm, channelVars
  <2>ts. ts' \in TaskState
    <3>1. ts' = ts \/ ts' = [ts EXCEPT !.saved = Marks(ts)]
      BY DEF SyncAttempt
    <3> QED BY <2>0, <2>m, <3>1 DEF TaskState
  <2>att. ts'.att <= row'.att /\ (pc' \in {"tail", "report", "link", "sync", "attempt"} => ts'.att # 0)
    BY <1>b, UntrackedTyped, WatchAssumption DEF RowsOK, TaskState, Row, SyncAttempt, OwnsAttempt, Marks, Silent, TickOnly, InTick, Calm, channelVars
  <2> QED BY <1>b, <2>row, <2>snap, <2>ts, <2>att DEF RowsOK
<1>4. TodoOK'
  <2>1. ts'.cursor = ts.cursor /\ row'.cursor = row.cursor
    BY <1>b DEF SyncAttempt, RowsOK, TaskState, Row
  <2> QED BY <1>b, <2>1 DEF TodoOK, SyncAttempt
<1>5. FactsOK'
  BY <1>b DEF FactsOK, RowsOK, SyncAttempt, OwnsAttempt, Marks, Silent, TickOnly, InTick, Calm, channelVars
<1> QED BY <1>1, <1>2, <1>3, <1>4, <1>5 DEF BaseInv

LEMMA BoundaryKeepsBase == BaseInv /\ Boundary => BaseInv'
<1> SUFFICES ASSUME BaseInv, Boundary PROVE BaseInv'
  OBVIOUS
<1>b. ChannelOK /\ LockOK /\ RowsOK /\ TodoOK /\ FactsOK
  BY DEF BaseInv
<1>1. ChannelOK'
  BY <1>b, WatchAssumption DEF ChannelOK, Boundary, Forget, Untracked, NoSnap, channelVars
<1>2. LockOK'
  BY <1>b DEF LockOK, Boundary, Forget, Untracked, NoSnap, channelVars
<1>3. RowsOK'
  <2>row. row' = row
    BY DEF Boundary, Forget, channelVars
  <2>snap. snap' \in Snap
    BY <1>b, WatchAssumption, NoSnapTyped, UntrackedTyped DEF RowsOK, ChannelOK, LockOK, Snap, Row, Known, Boundary, Forget, channelVars
  <2>ts. ts' \in TaskState
    BY <1>b, WatchAssumption, NoSnapTyped, UntrackedTyped DEF RowsOK, ChannelOK, LockOK, TaskState, Saved, Row, Known, Words, Boundary, Forget, channelVars
  <2>att. ts'.att <= row'.att /\ (pc' \in {"tail", "report", "link", "sync", "attempt"} => ts'.att # 0)
    <3>1. ts' = ts \/ ts'.att = 0
      BY UntrackedTyped DEF Boundary, Forget
    <3>2. pc' \in {"off", "list"}
      BY DEF Boundary, Forget
    <3>3. 0 <= row.att
      BY <1>b, AttemptNumbers DEF RowsOK
    <3> QED BY <1>b, <2>row, <3>1, <3>2, <3>3 DEF RowsOK
  <2> QED BY <1>b, <2>row, <2>snap, <2>ts, <2>att DEF RowsOK
<1>4. TodoOK'
  <2>1. (ts' = ts /\ todo' = todo) \/ (ts'.cursor = <<>> /\ todo' = <<>>)
    <3>1. CASE buffer # {}
      BY <3>1, UntrackedTyped DEF Boundary, Forget
    <3>2. CASE buffer = {}
      BY <3>2 DEF Boundary
    <3> QED BY <3>1, <3>2
  <2>2. pc = "edge" /\ pc' \in {"off", "list"} /\ row' = row
    BY DEF Boundary, Forget
  <2>3. todo = <<>> /\ todo' = <<>>
    BY <1>b, <2>1, <2>2 DEF TodoOK
  <2>4. Len(ts'.cursor) \in Nat /\ Len(ts'.cursor) <= MaxLines
    BY <1>b, <2>1, Least DEF TodoOK, RowsOK, TaskState
  <2> QED BY <1>b, <2>2, <2>3, <2>4, Least DEF TodoOK
<1>5. FactsOK'
  BY <1>b DEF FactsOK, RowsOK, Boundary, Forget, channelVars
<1> QED BY <1>1, <1>2, <1>3, <1>4, <1>5 DEF BaseInv

LEMMA WatcherEndsKeepsBase == BaseInv /\ WatcherEnds => BaseInv'
<1> SUFFICES ASSUME BaseInv, WatcherEnds PROVE BaseInv'
  OBVIOUS
<1>b. ChannelOK /\ LockOK /\ RowsOK /\ TodoOK /\ FactsOK
  BY DEF BaseInv
<1>1. ChannelOK'
  BY <1>b, WatchAssumption DEF ChannelOK, WatcherEnds, Trouble, channelVars
<1>2. LockOK'
  BY <1>b DEF LockOK, WatcherEnds, Forget, Untracked, NoSnap, Trouble, channelVars
<1>3. RowsOK'
  <2>row. row' = row
    BY DEF WatcherEnds, Forget, Trouble, channelVars
  <2>snap. snap' \in Snap
    BY <1>b, WatchAssumption, NoSnapTyped, UntrackedTyped DEF RowsOK, ChannelOK, LockOK, Snap, Row, Known, WatcherEnds, Forget, Trouble, channelVars
  <2>ts. ts' \in TaskState
    BY <1>b, WatchAssumption, NoSnapTyped, UntrackedTyped DEF RowsOK, ChannelOK, LockOK, TaskState, Saved, Row, Known, Words, WatcherEnds, Forget, Trouble, channelVars
  <2>att. ts'.att <= row'.att /\ (pc' \in {"tail", "report", "link", "sync", "attempt"} => ts'.att # 0)
    <3>1. ts'.att = 0 /\ pc' = "off"
      BY UntrackedTyped DEF WatcherEnds, Forget
    <3>2. 0 <= row.att
      BY <1>b, AttemptNumbers DEF RowsOK
    <3> QED BY <2>row, <3>1, <3>2
  <2> QED BY <1>b, <2>row, <2>snap, <2>ts, <2>att DEF RowsOK
<1>4. TodoOK'
  <2>1. ts'.cursor = <<>> /\ todo' = <<>>
    BY UntrackedTyped DEF WatcherEnds, Forget
  <2>2. pc' = "off" /\ row' = row
    BY DEF WatcherEnds, Forget
  <2> QED BY <1>b, <2>1, <2>2, Least DEF TodoOK
<1>5. FactsOK'
  BY <1>b DEF FactsOK, RowsOK, WatcherEnds, Forget, Trouble, channelVars
<1> QED BY <1>1, <1>2, <1>3, <1>4, <1>5 DEF BaseInv

LEMMA ReportKeepsBase == BaseInv /\ Report => BaseInv'
<1> SUFFICES ASSUME BaseInv, Report PROVE BaseInv'
  OBVIOUS
<1>b. ChannelOK /\ LockOK /\ RowsOK /\ TodoOK /\ FactsOK
  BY DEF BaseInv
<1>1. ChannelOK'
  <2>1. PICK k \in Kinds :
          \/ Len(report) < MaxLines /\ report' = Append(report, k) /\ troubles' = troubles
          \/ report' = <<k>> /\ Trouble
    BY DEF Report, Calm
  <2>2. report' \in Seq(Kinds) /\ Len(report') <= MaxLines
    <3>1. report \in Seq(Kinds) /\ MaxLines \in Nat \ {0}
      BY <1>b, WatchAssumption DEF ChannelOK
    <3>2. CASE Len(report) < MaxLines /\ report' = Append(report, k)
      BY <3>1, <3>2
    <3>3. CASE report' = <<k>>
      <4>1. <<k>> \in Seq(Kinds) /\ Len(<<k>>) = 1
        OBVIOUS
      <4> QED BY <3>1, <3>3, <4>1
    <3> QED BY <2>1, <3>2, <3>3
  <2>3. troubles' \in 0..MaxTroubles
    BY <1>b, <2>1, WatchAssumption DEF ChannelOK, Trouble
  <2> QED BY <1>b, <2>2, <2>3 DEF ChannelOK, Report
<1>2. LockOK'
  BY <1>b DEF LockOK, Report, Trouble, Calm, tickVars, channelVars
<1>3. RowsOK'
  BY <1>b DEF RowsOK, Report, Trouble, Calm, tickVars, channelVars
<1>4. TodoOK'
  BY <1>b, WatchAssumption, UntrackedTyped DEF TodoOK, RowsOK, ChannelOK, Row, TaskState, Report, Trouble, Calm, tickVars, channelVars
<1>5. FactsOK'
  BY <1>b DEF FactsOK, RowsOK, Report, Trouble, Calm, tickVars, channelVars
<1> QED BY <1>1, <1>2, <1>3, <1>4, <1>5 DEF BaseInv

LEMMA PaneChangesKeepsBase == BaseInv /\ PaneChanges => BaseInv'
<1> SUFFICES ASSUME BaseInv, PaneChanges PROVE BaseInv'
  OBVIOUS
<1>b. ChannelOK /\ LockOK /\ RowsOK /\ TodoOK /\ FactsOK
  BY DEF BaseInv
<1>1. ChannelOK'
  BY <1>b, WatchAssumption DEF ChannelOK, PaneChanges, Trouble, tickVars, channelVars
<1>2. LockOK'
  BY <1>b DEF LockOK, PaneChanges, Trouble, tickVars, channelVars
<1>3. RowsOK'
  BY <1>b DEF RowsOK, PaneChanges, Trouble, tickVars, channelVars
<1>4. TodoOK'
  BY <1>b, WatchAssumption, UntrackedTyped DEF TodoOK, RowsOK, ChannelOK, Row, TaskState, PaneChanges, Trouble, tickVars, channelVars
<1>5. FactsOK'
  BY <1>b DEF FactsOK, RowsOK, PaneChanges, Trouble, tickVars, channelVars
<1> QED BY <1>1, <1>2, <1>3, <1>4, <1>5 DEF BaseInv

LEMMA HandPRKeepsBase == BaseInv /\ HandPR => BaseInv'
<1> SUFFICES ASSUME BaseInv, HandPR PROVE BaseInv'
  OBVIOUS
<1>b. ChannelOK /\ LockOK /\ RowsOK /\ TodoOK /\ FactsOK
  BY DEF BaseInv
<1>1. ChannelOK'
  BY <1>b, WatchAssumption DEF ChannelOK, HandPR, Take, Done_, CommandOnly, channelVars, tickVars
<1>2. LockOK'
  BY <1>b DEF LockOK, HandPR, Take, Done_, CommandOnly, channelVars, tickVars
<1>3. RowsOK'
  <2>row. row' \in Row
    BY <1>b, WatchAssumption, NoSnapTyped, UntrackedTyped DEF RowsOK, ChannelOK, LockOK, Row, Known, Words, TaskState, HandPR, Take, Done_, CommandOnly, channelVars, tickVars
  <2>snap. snap' = snap
    BY DEF HandPR, Take, Done_, CommandOnly, channelVars, tickVars
  <2>ts. ts' = ts
    BY DEF HandPR, Take, Done_, CommandOnly, channelVars, tickVars
  <2>att. ts'.att <= row'.att /\ (pc' \in {"tail", "report", "link", "sync", "attempt"} => ts'.att # 0)
    BY <1>b, UntrackedTyped, WatchAssumption DEF RowsOK, TaskState, Row, HandPR, Take, Done_, CommandOnly, channelVars, tickVars
  <2> QED BY <1>b, <2>row, <2>snap, <2>ts, <2>att DEF RowsOK
<1>4. TodoOK'
  <2>1. UNCHANGED <<ts, todo, pc>> /\ row'.cursor = row.cursor
    BY <1>b DEF HandPR, Take, CommandOnly, tickVars, RowsOK, Row
  <2> QED BY <1>b, <2>1 DEF TodoOK
<1>5. FactsOK'
  BY <1>b DEF FactsOK, RowsOK, HandPR, Take, Done_, CommandOnly, channelVars, tickVars
<1> QED BY <1>1, <1>2, <1>3, <1>4, <1>5 DEF BaseInv

LEMMA HandMergeKeepsBase == BaseInv /\ HandMerge => BaseInv'
<1> SUFFICES ASSUME BaseInv, HandMerge PROVE BaseInv'
  OBVIOUS
<1>b. ChannelOK /\ LockOK /\ RowsOK /\ TodoOK /\ FactsOK
  BY DEF BaseInv
<1>1. ChannelOK'
  BY <1>b, WatchAssumption DEF ChannelOK, HandMerge, Take, Done_, CommandOnly, channelVars, tickVars
<1>2. LockOK'
  BY <1>b DEF LockOK, HandMerge, Take, Done_, CommandOnly, channelVars, tickVars
<1>3. RowsOK'
  <2>row. row' \in Row
    BY <1>b, WatchAssumption, NoSnapTyped, UntrackedTyped DEF RowsOK, ChannelOK, LockOK, Row, Known, Words, TaskState, HandMerge, Take, Done_, CommandOnly, channelVars, tickVars
  <2>snap. snap' = snap
    BY DEF HandMerge, Take, Done_, CommandOnly, channelVars, tickVars
  <2>ts. ts' = ts
    BY DEF HandMerge, Take, Done_, CommandOnly, channelVars, tickVars
  <2>att. ts'.att <= row'.att /\ (pc' \in {"tail", "report", "link", "sync", "attempt"} => ts'.att # 0)
    BY <1>b, UntrackedTyped, WatchAssumption DEF RowsOK, TaskState, Row, HandMerge, Take, Done_, CommandOnly, channelVars, tickVars
  <2> QED BY <1>b, <2>row, <2>snap, <2>ts, <2>att DEF RowsOK
<1>4. TodoOK'
  <2>1. UNCHANGED <<ts, todo, pc>> /\ row'.cursor = row.cursor
    BY <1>b DEF HandMerge, Take, CommandOnly, tickVars, RowsOK, Row
  <2> QED BY <1>b, <2>1 DEF TodoOK
<1>5. FactsOK'
  BY <1>b DEF FactsOK, RowsOK, HandMerge, Take, Done_, CommandOnly, channelVars, tickVars
<1> QED BY <1>1, <1>2, <1>3, <1>4, <1>5 DEF BaseInv

LEMMA CommandEndsKeepsBase == BaseInv /\ CommandEnds => BaseInv'
<1> SUFFICES ASSUME BaseInv, CommandEnds PROVE BaseInv'
  OBVIOUS
<1>b. ChannelOK /\ LockOK /\ RowsOK /\ TodoOK /\ FactsOK
  BY DEF BaseInv
<1>1. ChannelOK'
  BY <1>b, WatchAssumption DEF ChannelOK, CommandEnds, Trouble, Done_, channelVars, tickVars
<1>2. LockOK'
  BY <1>b DEF LockOK, CommandEnds, Trouble, Done_, channelVars, tickVars
<1>3. RowsOK'
  BY <1>b DEF RowsOK, CommandEnds, Trouble, Done_, channelVars, tickVars
<1>4. TodoOK'
  BY <1>b, WatchAssumption, UntrackedTyped DEF TodoOK, RowsOK, ChannelOK, Row, TaskState, CommandEnds, Trouble, Done_, channelVars, tickVars
<1>5. FactsOK'
  BY <1>b DEF FactsOK, RowsOK, CommandEnds, Trouble, Done_, channelVars, tickVars
<1> QED BY <1>1, <1>2, <1>3, <1>4, <1>5 DEF BaseInv

LEMMA ReplaceKeepsBase == BaseInv /\ Replace => BaseInv'
<1> SUFFICES ASSUME BaseInv, Replace PROVE BaseInv'
  OBVIOUS
<1>b. ChannelOK /\ LockOK /\ RowsOK /\ TodoOK /\ FactsOK
  BY DEF BaseInv
<1>1. ChannelOK'
  BY <1>b, WatchAssumption DEF ChannelOK, Replace, Trouble, tickVars, channelVars
<1>2. LockOK'
  BY <1>b DEF LockOK, Replace, Trouble, tickVars, channelVars
<1>3. RowsOK'
  <2>0. row \in Row /\ row.att < MaxAttempts
    BY <1>b DEF RowsOK, Replace
  <2>1. row.att + 1 \in 1..MaxAttempts
    BY <2>0, AttemptNumbers, WatchAssumption
  <2>2. row' = [row EXCEPT !.att = row.att + 1, !.changedFor = "", !.verified = FALSE, !.last = ""]
    BY DEF Replace
  <2>row. row' \in Row /\ row'.att = row.att + 1
    BY <2>0, <2>1, <2>2 DEF Row, Known, Words
  <2>snap. snap' = snap
    BY DEF Replace, Trouble, tickVars, channelVars
  <2>ts. ts' = ts
    BY DEF Replace, Trouble, tickVars, channelVars
  <2>att. ts'.att <= row'.att /\ (pc' \in {"tail", "report", "link", "sync", "attempt"} => ts'.att # 0)
    <3>1. row.att \in Nat /\ ts.att \in Nat
      BY <1>b, AttemptNumbers DEF RowsOK
    <3> QED BY <1>b, <2>row, <3>1 DEF RowsOK, Replace, tickVars
  <2> QED BY <1>b, <2>row, <2>snap, <2>ts, <2>att DEF RowsOK
<1>4. TodoOK'
  BY <1>b, WatchAssumption, UntrackedTyped DEF TodoOK, RowsOK, ChannelOK, Row, TaskState, Replace, Trouble, tickVars, channelVars
<1>5. FactsOK'
  BY <1>b DEF FactsOK, RowsOK, Replace, Trouble, tickVars, channelVars
<1> QED BY <1>1, <1>2, <1>3, <1>4, <1>5 DEF BaseInv

LEMMA ReconcileKeepsBase == BaseInv /\ Reconcile => BaseInv'
<1> SUFFICES ASSUME BaseInv, Reconcile PROVE BaseInv'
  OBVIOUS
<1>b. ChannelOK /\ LockOK /\ RowsOK /\ TodoOK /\ FactsOK
  BY DEF BaseInv
<1>1. ChannelOK'
  BY <1>b, WatchAssumption DEF ChannelOK, Reconcile, Trouble, channelVars, tickVars
<1>2. LockOK'
  BY <1>b DEF LockOK, Reconcile, Trouble, channelVars, tickVars
<1>3. RowsOK'
  <2>row. row' \in Row
    BY <1>b, WatchAssumption, NoSnapTyped, UntrackedTyped DEF RowsOK, ChannelOK, LockOK, Row, Known, Words, TaskState, Reconcile, Trouble, channelVars, tickVars
  <2>snap. snap' = snap
    BY DEF Reconcile, Trouble, channelVars, tickVars
  <2>ts. ts' = ts
    BY DEF Reconcile, Trouble, channelVars, tickVars
  <2>att. ts'.att <= row'.att /\ (pc' \in {"tail", "report", "link", "sync", "attempt"} => ts'.att # 0)
    BY <1>b, UntrackedTyped, WatchAssumption DEF RowsOK, TaskState, Row, Reconcile, Trouble, channelVars, tickVars
  <2> QED BY <1>b, <2>row, <2>snap, <2>ts, <2>att DEF RowsOK
<1>4. TodoOK'
  BY <1>b, WatchAssumption, UntrackedTyped DEF TodoOK, RowsOK, ChannelOK, Row, TaskState, Reconcile, Trouble, channelVars, tickVars
<1>5. FactsOK'
  BY <1>b DEF FactsOK, RowsOK, Reconcile, Trouble, channelVars, tickVars
<1> QED BY <1>1, <1>2, <1>3, <1>4, <1>5 DEF BaseInv

LEMMA StepKeepsBase == BaseInv /\ [WatchNext]_watchVars => BaseInv'
<1> SUFFICES ASSUME BaseInv, [WatchNext]_watchVars PROVE BaseInv'
  OBVIOUS
<1>1. CASE UNCHANGED watchVars
  BY <1>1 DEF watchVars, channelVars, tickVars, BaseInv, ChannelOK, LockOK, RowsOK, TodoOK, FactsOK
<1>2. CASE Tick
  BY <1>2, ObserveKeepsBase, tailReportKeepsBase, ClassifyReportLineKeepsBase, autoRecordPRKeepsBase,
     ClassifyKeepsBase, SyncSkippedKeepsBase, SyncTaskKeepsBase, SyncAttemptKeepsBase,
     BoundaryKeepsBase DEF Tick
<1>3. CASE Start \/ WatcherEnds \/ Report \/ PaneChanges \/ HandPR \/ HandMerge \/ CommandEnds \/ Replace
           \/ Reconcile
  BY <1>3, StartKeepsBase, WatcherEndsKeepsBase, ReportKeepsBase, PaneChangesKeepsBase, HandPRKeepsBase,
     HandMergeKeepsBase, CommandEndsKeepsBase, ReplaceKeepsBase, ReconcileKeepsBase
<1> QED BY <1>1, <1>2, <1>3 DEF WatchNext

LEMMA BaseInvAlways == WatchSpec => []BaseInv
<1>1. WatchInit => BaseInv
  BY InitKeepsBase
<1>2. BaseInv /\ [WatchNext]_watchVars => BaseInv'
  BY StepKeepsBase
<1> QED BY <1>1, <1>2, PTL DEF WatchSpec

-----------------------------------------------------------------------------
(* Nothing said is unsaid, and nothing that waits is dropped where events    *)
(* are printed at once or no watcher dies.                                   *)

Keeps == UntilEvent => "crash" \notin Faults

LEMMA NothingIsUnsaid == ASSUME BaseInv, [WatchNext]_watchVars PROVE said \subseteq said'
BY DEF WatchNext, Tick, Start, Observe, tailReport, ClassifyReportLine, autoRecordPR, Classify, SyncSkipped,
   SyncTask, SyncAttempt, Boundary, WatcherEnds, Report, PaneChanges, HandPR, HandMerge, CommandEnds, Replace,
   Reconcile, handleEvent, Silent, Take, Done_, CommandOnly, tickVars, watchVars, Forget

LEMMA NothingIsDropped ==
  ASSUME BaseInv, [WatchNext]_watchVars, Keeps
  PROVE  said \cup buffer \subseteq said' \cup buffer'
<1>1. CASE WatcherEnds
  BY <1>1 DEF WatcherEnds, Keeps, BaseInv, FactsOK
<1>2. CASE ClassifyReportLine \/ autoRecordPR \/ Classify
  <2>1. \/ \E facts : handleEvent(facts)
        \/ UNCHANGED <<said, buffer>>
    BY <1>2, Zenon DEF ClassifyReportLine, autoRecordPR, Classify, Silent
  <2> QED BY <2>1 DEF handleEvent
<1>3. CASE Boundary
  <2>1. said' = said \cup buffer
    BY <1>3 DEF Boundary
  <2> QED BY <2>1
<1>4. CASE \/ Start \/ Observe \/ tailReport \/ SyncSkipped \/ SyncTask \/ SyncAttempt \/ Report \/ PaneChanges
           \/ HandPR \/ HandMerge \/ CommandEnds \/ Replace \/ Reconcile
           \/ UNCHANGED watchVars
  BY <1>4 DEF Start, Observe, tailReport, SyncSkipped, SyncTask, SyncAttempt, Report, PaneChanges,
     HandPR, HandMerge, CommandEnds, Replace, Reconcile, Silent, Take, CommandOnly, tickVars, watchVars
<1> QED BY <1>1, <1>2, <1>3, <1>4 DEF WatchNext, Tick

-----------------------------------------------------------------------------
(* The cursor.  What a tick consumes begins where the cursor still covers    *)
(* the file, so that the lines before it are the ones announced before.      *)

LEMMA PrefixLines ==
  ASSUME NEW s \in Seq(Kinds), NEW t \in Seq(Kinds), covers(s, t), NEW n \in 1..Len(s)
  PROVE  SubSeq(t, 1, n) = SubSeq(s, 1, n) /\ t[n] = s[n] /\ n <= Len(t)
<1>1. Len(s) <= Len(t) /\ SubSeq(s, 1, Len(s)) = SubSeq(t, 1, Len(s))
  BY DEF covers, IsPrefix
<1>2. ASSUME NEW i \in 1..Len(s) PROVE t[i] = s[i]
  <2>1. SubSeq(s, 1, Len(s))[i] = s[i] /\ SubSeq(t, 1, Len(s))[i] = t[i]
    BY <1>1
  <2> QED BY <1>1, <2>1
<1>3. SubSeq(t, 1, n) = SubSeq(s, 1, n)
  <2>1. SubSeq(t, 1, n) \in Seq(Kinds) /\ SubSeq(s, 1, n) \in Seq(Kinds)
    BY <1>1
  <2>2. Len(SubSeq(t, 1, n)) = n /\ Len(SubSeq(s, 1, n)) = n
    BY <1>1
  <2>3. \A i \in 1..n : SubSeq(t, 1, n)[i] = SubSeq(s, 1, n)[i]
    BY <1>1, <1>2
  <2> QED BY <2>1, <2>2, <2>3, SeqEqual
<1> QED BY <1>1, <1>2, <1>3

(* A tick that reads the file: the part of the new cursor that is classified *)
(* is a part of the old one.                                                 *)
LEMMA TailMeets ==
  ASSUME BaseInv, BaseInv', tailReport
  PROVE  /\ todo = <<>>
         /\ Len(ts'.cursor) - Len(todo') \in 0..Len(ts.cursor)
         /\ \A n \in 1..(Len(ts'.cursor) - Len(todo')) :
              SubSeq(ts'.cursor, 1, n) = SubSeq(ts.cursor, 1, n) /\ ts'.cursor[n] = ts.cursor[n]
<1>1. ts \in TaskState /\ report \in Seq(Kinds) /\ ts.cursor \in Seq(Kinds)
  BY DEF BaseInv, RowsOK, ChannelOK, TaskState
<1>2. todo = <<>>
  BY DEF tailReport, BaseInv, TodoOK
<1>3. ts'.cursor = report
  BY <1>1 DEF tailReport, TailReport, TaskState
<1>4. CASE covers(ts.cursor, report)
  <2>1. todo' = SubSeq(report, Len(ts.cursor) + 1, Len(report)) /\ Len(ts.cursor) <= Len(report)
    BY <1>4 DEF tailReport, TailReport, covers, IsPrefix
  <2>2. Len(todo') = Len(report) - Len(ts.cursor)
    <3>1. Len(ts.cursor) \in Nat /\ Len(report) \in Nat
      BY <1>1
    <3> DEFINE m == Len(ts.cursor) + 1
    <3>2. m \in Int /\ m >= 1 /\ m <= Len(report) + 1 /\ Len(report) - m + 1 = Len(report) - Len(ts.cursor)
      BY <2>1, <3>1
    <3>3. todo' = SubSeq(report, m, Len(report))
      BY <2>1
    <3> HIDE DEF m
    <3>4. CASE m <= Len(report)
      <4>1. \A i \in m..Len(report) : report[i] \in Kinds
        BY <1>1, <3>1, <3>2
      <4>2. Len(SubSeq(report, m, Len(report))) = Len(report) - m + 1
        BY <4>1, <3>1, <3>2, <3>4, SubSeqProperties
      <4> QED BY <4>2, <3>1, <3>2, <3>3
    <3>5. CASE m = Len(report) + 1
      <4>1. todo' = <<>>
        BY <3>1, <3>2, <3>3, <3>5, SubSeqEmpty
      <4> QED BY <4>1, <3>1, <3>2, <3>5, Least
    <3> QED BY <3>1, <3>2, <3>4, <3>5
  <2>3. Len(ts'.cursor) - Len(todo') = Len(ts.cursor) /\ Len(ts.cursor) \in Nat
    BY <1>1, <1>3, <2>2
  <2> QED BY <1>1, <1>2, <1>3, <1>4, <2>3, PrefixLines
<1>5. CASE ~covers(ts.cursor, report)
  <2>1. todo' = SubSeq(report, 1, Len(report))
    BY <1>5 DEF tailReport, TailReport
  <2>2. Len(ts'.cursor) - Len(todo') = 0 /\ 0 \in 0..Len(ts.cursor)
    BY <1>1, <1>3, <2>1
  <2> QED BY <1>2, <2>2
<1> QED BY <1>4, <1>5

(* Every other step leaves the two cursors and what is classified of them    *)
(* alone, starts from a durable one, or makes one durable.                   *)
Cursors == <<row.cursor, ts.cursor, Classified>>

LEMMA CursorMoves ==
  ASSUME BaseInv, BaseInv', [WatchNext]_watchVars
  PROVE  \/ UNCHANGED Cursors /\ (todo' = todo \/ autoRecordPR)
         \/ tailReport
         \/ ClassifyReportLine
         \/ /\ row'.cursor = row.cursor /\ todo' = <<>> /\ Classified' = Len(ts'.cursor)
            /\ ts'.cursor \in {row.cursor, <<>>}
         \/ /\ row'.cursor = ts.cursor /\ ts'.cursor = ts.cursor
            /\ todo = <<>> /\ todo' = <<>>
            /\ Classified = Len(ts.cursor) /\ Classified' = Len(ts'.cursor)
<1>t. /\ row \in Row /\ ts \in TaskState /\ ts.cursor \in Seq(Kinds) /\ row.cursor \in Seq(Kinds)
      /\ todo \in Seq(Kinds) /\ todo' \in Seq(Kinds) /\ ts'.cursor \in Seq(Kinds)
      /\ pc \notin {"report", "link"} => todo = <<>> /\ Classified = Len(ts.cursor)
      /\ pc' \notin {"report", "link"} => todo' = <<>> /\ Classified' = Len(ts'.cursor)
  <2>1. row \in Row /\ ts \in TaskState /\ ts' \in TaskState /\ todo \in Seq(Kinds) /\ todo' \in Seq(Kinds)
    BY DEF BaseInv, RowsOK, TodoOK
  <2>2. ts.cursor \in Seq(Kinds) /\ row.cursor \in Seq(Kinds) /\ ts'.cursor \in Seq(Kinds)
    BY <2>1 DEF Row, TaskState
  <2>3. pc \notin {"report", "link"} => (todo = <<>> /\ Classified = Len(ts.cursor))
    <3>1. Len(ts.cursor) \in Nat /\ (pc \notin {"report", "link"} => todo = <<>>)
      BY <2>2 DEF BaseInv, TodoOK
    <3> QED BY <3>1 DEF Classified
  <2>4. pc' \notin {"report", "link"} => (todo' = <<>> /\ Classified' = Len(ts'.cursor))
    <3>1. Len(ts'.cursor) \in Nat /\ (pc' \notin {"report", "link"} => todo' = <<>>)
      BY <2>2 DEF BaseInv, TodoOK
    <3> QED BY <3>1 DEF Classified
  <2> QED BY <2>1, <2>2, <2>3, <2>4
<1>1. CASE Start \/ Report \/ PaneChanges \/ CommandEnds \/ UNCHANGED watchVars
  <2>1. UNCHANGED <<row, ts, todo>>
    BY <1>1 DEF Start, Report, PaneChanges, CommandEnds, watchVars, tickVars
  <2>2. (pc = "link") = (pc' = "link")
    BY <1>1 DEF Start, Report, PaneChanges, CommandEnds, watchVars, tickVars
  <2> QED BY <2>1, <2>2 DEF Cursors, Classified
<1>2. CASE HandPR \/ HandMerge \/ Replace \/ Reconcile
  <2>1. UNCHANGED <<ts, todo, pc>>
    BY <1>2 DEF HandPR, HandMerge, Replace, Reconcile, Take, CommandOnly, tickVars
  <2>2. row'.cursor = row.cursor
    BY <1>2, <1>t DEF HandPR, HandMerge, Replace, Reconcile, Take, Row
  <2> QED BY <2>1, <2>2 DEF Cursors, Classified
<1>3. CASE Observe
  <2>1. ts' = ts \/ ts'.cursor = row.cursor
    BY <1>3, ResumedTyped DEF Observe
  <2>2. row' = row /\ pc = "list" /\ pc' \in {"tail", "edge"}
    BY <1>3 DEF Observe
  <2> QED BY <2>1, <2>2, <1>t DEF Cursors
<1>4. CASE autoRecordPR
  <2>1. ts' = ts /\ todo # <<>> /\ todo' = Tail(todo) /\ pc = "link" /\ pc' = "report"
    BY <1>4 DEF autoRecordPR, BaseInv, TodoOK
  <2>2. row'.cursor = row.cursor
    BY <1>4, <1>t DEF autoRecordPR, Row
  <2>3. Len(todo') = Len(todo) - 1 /\ Len(todo) \in Nat /\ Len(ts.cursor) \in Nat
    BY <1>t, <2>1
  <2>4. Classified = Len(ts.cursor) - Len(todo) + 1
    BY <2>1 DEF Classified
  <2>5. Classified' = Len(ts.cursor) - Len(todo')
    BY <2>1 DEF Classified
  <2>6. Classified' = Classified
    BY <2>3, <2>4, <2>5
  <2> QED BY <1>4, <2>1, <2>2, <2>6 DEF Cursors
<1>5. CASE Classify
  <2>1. pc = "report" /\ todo = <<>> /\ pc' = "sync" /\ row' = row
    BY <1>5 DEF Classify
  <2>2. ts'.cursor = ts.cursor
    BY <1>5, <1>t DEF Classify, ClassifyStatus, ClassifyCatchUp, TaskState
  <2>3. Classified = Len(ts.cursor)
    BY <2>1, <1>t DEF Classified
  <2> QED BY <2>1, <2>2, <2>3, <1>t DEF Cursors
<1>6. CASE SyncSkipped \/ SyncAttempt
  <2>1. row'.cursor = row.cursor /\ ts'.cursor = ts.cursor
    BY <1>6, <1>t DEF SyncSkipped, SyncAttempt, Row, TaskState
  <2>2. pc \in {"sync", "attempt"} /\ pc' = "edge"
    BY <1>6 DEF SyncSkipped, SyncAttempt
  <2> QED BY <2>1, <2>2, <1>t DEF Cursors
<1>7. CASE SyncTask
  <2>1. row'.cursor = ts.cursor /\ ts'.cursor = ts.cursor /\ pc = "sync" /\ pc' = "attempt"
    BY <1>7, <1>t DEF SyncTask, Row, TaskState
  <2> QED BY <2>1, <1>t
<1>8. CASE Boundary
  <2>1. row' = row /\ pc = "edge" /\ pc' \in {"off", "list"}
    BY <1>8 DEF Boundary, Forget
  <2>2. ts' = ts \/ ts'.cursor = <<>>
    BY <1>8, UntrackedTyped DEF Boundary, Forget
  <2> QED BY <2>1, <2>2, <1>t DEF Cursors
<1>9. CASE WatcherEnds
  <2>1. row' = row /\ pc' = "off" /\ ts'.cursor = <<>>
    BY <1>9, UntrackedTyped DEF WatcherEnds, Forget
  <2> QED BY <2>1, <1>t
<1> QED BY <1>1, <1>2, <1>3, <1>4, <1>5, <1>6, <1>7, <1>8, <1>9 DEF WatchNext, Tick

LEMMA StepKeepsCursor ==
  ASSUME BaseInv, BaseInv', CursorInv, Keeps, [WatchNext]_watchVars
  PROVE  CursorInv'
<1>m. said \cup buffer \subseteq said' \cup buffer'
  BY NothingIsDropped
<1>a. /\ \A n \in 1..Len(row.cursor) : Line(SubSeq(row.cursor, 1, n)) \in said' \cup buffer'
      /\ \A n \in 1..Classified : Line(SubSeq(ts.cursor, 1, n)) \in said' \cup buffer'
  BY <1>m DEF CursorInv, Announced
<1>1. CASE UNCHANGED Cursors
  BY <1>1, <1>a DEF Cursors, CursorInv, Announced
<1>2. CASE tailReport
  <2>1. row'.cursor = row.cursor /\ pc = "tail" /\ pc' = "report"
    BY <1>2 DEF tailReport
  <2>2. Classified' = Len(ts'.cursor) - Len(todo') /\ Classified = Len(ts.cursor)
    BY <1>2, <2>1, TailMeets DEF Classified, BaseInv, RowsOK, TodoOK, TaskState
  <2>3. \A n \in 1..Classified' : n \in 1..Classified /\ SubSeq(ts'.cursor, 1, n) = SubSeq(ts.cursor, 1, n)
    BY <1>2, <2>2, TailMeets
  <2> QED BY <1>a, <2>1, <2>3 DEF CursorInv, Announced
<1>3. CASE ClassifyReportLine
  <2>1. row' = row /\ pc = "report" /\ todo # <<>>
    BY <1>3 DEF ClassifyReportLine
  <2>2. ts'.cursor = ts.cursor
    BY <1>3 DEF ClassifyReportLine, BaseInv, RowsOK, TaskState
  <2>3. (pc' = "link" /\ todo' = todo) \/ (pc' = "report" /\ todo' = Tail(todo))
    BY <1>3 DEF ClassifyReportLine
  <2>4. /\ Len(todo) \in Nat /\ Len(ts.cursor) \in Nat /\ Len(Tail(todo)) = Len(todo) - 1
    BY <2>1 DEF BaseInv, RowsOK, TodoOK, TaskState
  <2>5. Classified = Len(ts.cursor) - Len(todo) /\ Classified' = Classified + 1 /\ Classified \in Int
    <3>1. Classified = Len(ts.cursor) - Len(todo)
      BY <2>1, <2>4 DEF Classified
    <3>2. CASE pc' = "link" /\ todo' = todo
      BY <3>1, <3>2, <2>2, <2>4 DEF Classified
    <3>3. CASE pc' = "report" /\ todo' = Tail(todo)
      <4>1. Len(todo') = Len(todo) - 1 /\ pc' # "link"
        BY <3>3, <2>4
      <4>2. Classified' = Len(ts.cursor) - Len(todo')
        BY <2>2, <4>1 DEF Classified
      <4> QED BY <2>4, <3>1, <4>1, <4>2
    <3> QED BY <2>3, <2>4, <3>1, <3>2, <3>3
  <2>6. Line(SubSeq(ts.cursor, 1, Classified + 1)) \in said' \cup buffer'
    <3>1. \E facts : /\ Line(SubSeq(ts.cursor, 1, Len(ts.cursor) - Len(todo) + 1)) \in facts
                     /\ handleEvent(facts)
      BY <1>3 DEF ClassifyReportLine
    <3> QED BY <2>5, <3>1 DEF handleEvent
  <2>7. \A n \in 1..Classified' : n \in 1..Classified \/ n = Classified + 1
    BY <2>5
  <2> QED BY <1>a, <2>1, <2>2, <2>6, <2>7 DEF CursorInv, Announced
<1>4. CASE /\ row'.cursor = row.cursor /\ Classified' = Len(ts'.cursor)
           /\ ts'.cursor \in {row.cursor, <<>>}
  <2>1. Len(<<>>) = 0
    OBVIOUS
  <2> QED BY <1>4, <1>a, <2>1 DEF CursorInv, Announced
<1>5. CASE /\ row'.cursor = ts.cursor /\ ts'.cursor = ts.cursor
           /\ Classified = Len(ts.cursor) /\ Classified' = Len(ts'.cursor)
  BY <1>5, <1>a DEF CursorInv, Announced
<1> QED BY <1>1, <1>2, <1>3, <1>4, <1>5, CursorMoves

(* A restart skips no report line (watcher.go:930), whatever the kinds of    *)
(* lines, the bounds and the faults, where events are printed at once; where *)
(* they wait for the exit of the watcher it holds of watchers that do not    *)
(* die.                                                                      *)
THEOREM CursorIsAnnouncedAlways == Keeps => (WatchSpec => []CursorIsAnnounced)
<1> SUFFICES ASSUME Keeps PROVE WatchSpec => []CursorIsAnnounced
  OBVIOUS
<1>1. WatchInit => CursorInv
  <2> SUFFICES ASSUME WatchInit PROVE CursorInv
    OBVIOUS
  <2>1. row.cursor = <<>> /\ ts.cursor = <<>> /\ todo = <<>> /\ pc = "off"
    BY UntrackedTyped DEF WatchInit, NewRow
  <2> QED BY <2>1, Least DEF CursorInv, Announced, Classified
<1>2. BaseInv /\ BaseInv' /\ CursorInv /\ [WatchNext]_watchVars => CursorInv'
  BY StepKeepsCursor
<1>3. CursorInv => CursorIsAnnounced
  BY DEF CursorInv, Announced, CursorIsAnnounced
<1> QED BY <1>1, <1>2, <1>3, BaseInvAlways, PTL DEF WatchSpec

-----------------------------------------------------------------------------
(* The markers, where events are printed at once.                            *)

LEMMA SaidAtOnce == ASSUME ~UntilEvent, NEW facts, handleEvent(facts) PROVE said' = said \cup facts
BY DEF handleEvent

LEMMA StepKeepsMarks ==
  ASSUME BaseInv, BaseInv', MarksInv, ~UntilEvent, [WatchNext]_watchVars
  PROVE  MarksInv'
<1>s. said \subseteq said'
  BY NothingIsUnsaid
<1>t. row \in Row /\ ts \in TaskState
  BY DEF BaseInv, RowsOK
<1>same. ASSUME row'.announced = row.announced, row'.verified = row.verified, row'.att = row.att,
                ts'.merged = ts.merged, ts'.verified = ts.verified, ts'.att = ts.att
         PROVE  MarksInv'
  BY <1>s, <1>same DEF MarksInv, Done
<1>none. ASSUME row' = row, ts' = Untracked PROVE MarksInv'
  BY <1>s, <1>none, UntrackedTyped DEF MarksInv, Done
<1>1. CASE \/ Start \/ Report \/ PaneChanges \/ CommandEnds \/ SyncSkipped \/ UNCHANGED watchVars
  <2>1. UNCHANGED <<row, ts>>
    BY <1>1 DEF Start, Report, PaneChanges, CommandEnds, SyncSkipped, watchVars, tickVars
  <2> QED BY <2>1, <1>same
<1>2. CASE HandPR \/ HandMerge \/ Reconcile \/ tailReport \/ autoRecordPR
  <2>1. /\ row'.announced = row.announced /\ row'.verified = row.verified /\ row'.att = row.att
    BY <1>2, <1>t DEF HandPR, HandMerge, Reconcile, tailReport, autoRecordPR, Take, Row
  <2>2. /\ ts'.merged = ts.merged /\ ts'.verified = ts.verified /\ ts'.att = ts.att
    BY <1>2, <1>t DEF HandPR, HandMerge, Reconcile, tailReport, autoRecordPR, Take, CommandOnly, tickVars, TaskState
  <2> QED BY <2>1, <2>2, <1>same
<1>3. CASE Replace
  <2>1. row'.announced = row.announced /\ row'.verified = FALSE /\ ts' = ts
    BY <1>3, <1>t DEF Replace, tickVars, Row
  <2> QED BY <2>1, <1>s DEF MarksInv, Done
<1>4. CASE Observe
  <2>1. row' = row /\ said \subseteq said'
    BY <1>4, <1>s DEF Observe
  <2>2. CASE ts' = ts
    BY <2>1, <2>2, <1>same
  <2>3. CASE ts'.att = row.att /\ ts'.merged = row.announced /\ ts'.verified = row.verified
    BY <2>1, <2>3 DEF MarksInv, Done
  <2> QED BY <1>4, <2>2, <2>3, ResumedTyped DEF Observe
<1>5. CASE ClassifyReportLine
  <2>1. row' = row /\ ts'.merged = ts.merged /\ ts'.att = ts.att
    BY <1>5, <1>t DEF ClassifyReportLine, TaskState
  <2>2. ts'.verified => ts.verified \/ Done(ts.att) \in said'
    <3> DEFINE sure == Head(todo) = "done" /\ doneVerified(ts)
    <3>1. ts'.verified = (ts.verified \/ sure)
      BY <1>5, <1>t DEF ClassifyReportLine, TaskState
    <3>2. \E facts : (sure => Done(ts.att) \in facts) /\ handleEvent(facts)
      BY <1>5 DEF ClassifyReportLine
    <3>3. sure => Done(ts.att) \in said'
      BY <3>2, SaidAtOnce
    <3> QED BY <3>1, <3>3
  <2> QED BY <2>1, <2>2, <1>s DEF MarksInv, Done
<1>6. CASE Classify
  <2> DEFINE status == ClassifyStatus(ClassifyCatchUp(ts))
             seen   == snap.pr /\ merged /\ ~ts.merged
             now    == [status EXCEPT !.merged = @ \/ seen]
             sure   == ~now.verified /\ now.last = "done" /\ doneVerified(now)
  <2>1. row' = row
    BY <1>6 DEF Classify
  <2>2. status.merged = ts.merged /\ status.verified = ts.verified /\ status.att = ts.att /\ status \in TaskState
    <3>1. snap \in Snap
      BY DEF BaseInv, RowsOK
    <3>2. ClassifyCatchUp(ts) \in TaskState
      BY <1>t, <3>1 DEF ClassifyCatchUp, TaskState
    <3>3. /\ ClassifyCatchUp(ts).merged = ts.merged /\ ClassifyCatchUp(ts).verified = ts.verified
          /\ ClassifyCatchUp(ts).att = ts.att
      BY <1>t DEF ClassifyCatchUp, TaskState
    <3> QED BY <3>1, <3>2, <3>3 DEF ClassifyStatus, TaskState, Snap, Known
  <2>3. now.merged = (ts.merged \/ seen) /\ now.verified = ts.verified /\ now.att = ts.att /\ now \in TaskState
    BY <2>2, <1>t DEF TaskState, BaseInv, RowsOK, Snap, ChannelOK
  <2>4. ts' = [now EXCEPT !.verified = @ \/ sure]
    BY <1>6 DEF Classify
  <2>5. \E facts : /\ seen => PRMerged \in facts
                   /\ sure => Done(ts.att) \in facts
                   /\ handleEvent(facts)
    BY <1>6 DEF Classify
  <2>6. (seen => PRMerged \in said') /\ (sure => Done(ts.att) \in said')
    BY <2>5, SaidAtOnce
  <2> HIDE DEF now, sure, seen
  <2>7. ts'.merged = now.merged /\ ts'.att = now.att /\ ts'.verified = (now.verified \/ sure)
    BY <2>3, <2>4 DEF TaskState
  <2> QED BY <2>1, <2>3, <2>6, <2>7, <1>s DEF MarksInv, Done
<1>7. CASE SyncTask
  <2>1. /\ row'.announced = (row.announced \/ ts.merged) /\ row'.verified = row.verified /\ row'.att = row.att
        /\ ts'.merged = ts.merged /\ ts'.verified = ts.verified /\ ts'.att = ts.att
    BY <1>7, <1>t DEF SyncTask, Row, TaskState
  <2> QED BY <2>1, <1>s DEF MarksInv, Done
<1>8. CASE SyncAttempt
  <2>1. CASE OwnsAttempt
    <3>1. /\ row'.announced = row.announced /\ row'.verified = (row.verified \/ ts.verified) /\ row'.att = row.att
          /\ ts'.merged = ts.merged /\ ts'.verified = ts.verified /\ ts'.att = ts.att
      BY <1>8, <2>1, <1>t DEF SyncAttempt, Row, TaskState
    <3>2. row.att = ts.att
      BY <2>1 DEF OwnsAttempt
    <3> QED BY <3>1, <3>2, <1>s DEF MarksInv, Done
  <2>2. CASE ~OwnsAttempt
    BY <1>8, <2>2, <1>same DEF SyncAttempt
  <2> QED BY <2>1, <2>2
<1>9. CASE Boundary
  <2>1. row' = row /\ (ts' = ts \/ ts' = Untracked)
    BY <1>9 DEF Boundary, Forget
  <2> QED BY <2>1, <1>same, <1>none
<1>10. CASE WatcherEnds
  BY <1>10, <1>none DEF WatcherEnds, Forget
<1> QED BY <1>1, <1>2, <1>3, <1>4, <1>5, <1>6, <1>7, <1>8, <1>9, <1>10 DEF WatchNext, Tick

(* A step of the tick's row and the pull request on record.                  *)
LEMMA PullRequestStays ==
  ASSUME BaseInv, [WatchNext]_watchVars
  PROVE  row.pr => row'.pr
<1>t. row \in Row
  BY DEF BaseInv, RowsOK
<1> QED
  BY <1>t DEF WatchNext, Tick, Start, Observe, tailReport, ClassifyReportLine, autoRecordPR, Classify, SyncSkipped,
     SyncTask, SyncAttempt, Boundary, WatcherEnds, Report, PaneChanges, HandPR, HandMerge, CommandEnds, Replace,
     Reconcile, Take, watchVars, Row

LEMMA StepKeepsLinks ==
  ASSUME BaseInv, BaseInv', LinksInv, ~UntilEvent, [WatchNext]_watchVars
  PROVE  LinksInv'
<1>t. /\ row \in Row /\ ts \in TaskState /\ snap \in Snap /\ todo \in Seq(Kinds) /\ ts.cursor \in Seq(Kinds)
      /\ Len(ts.cursor) \in Nat /\ Len(todo) \in Nat
  BY DEF BaseInv, RowsOK, TodoOK, TaskState
<1>s. snap'.pr => row'.pr
  <2>1. row.pr => row'.pr
    BY PullRequestStays
  <2>2. CASE Observe
    BY <2>1, <2>2 DEF Observe, LinksInv
  <2>3. CASE autoRecordPR
    <3>1. snap'.pr => snap.pr \/ row'.pr
      BY <2>3, <1>t DEF autoRecordPR, Silent, recordedByLockHolder, Snap, Row
    <3> QED BY <2>1, <3>1 DEF LinksInv
  <2>4. CASE snap' = snap \/ snap' = NoSnap
    <3>1. ~NoSnap.pr
      BY DEF NoSnap
    <3> QED BY <2>1, <2>4, <3>1 DEF LinksInv
  <2> QED
    BY <2>2, <2>3, <2>4 DEF WatchNext, Tick, Start, tailReport, ClassifyReportLine, Classify, SyncSkipped,
       SyncTask, SyncAttempt, Boundary, WatcherEnds, Report, PaneChanges, HandPR, HandMerge, CommandEnds, Replace,
       Reconcile, Take, CommandOnly, tickVars, watchVars, Forget
<1> DEFINE free == row'.pr \/ Unrecorded \in said'
           done == Len(ts.cursor) - Len(todo)
<1>m. (row.pr \/ Unrecorded \in said) => free
  BY NothingIsUnsaid, PullRequestStays
<1>a. /\ \A n \in 1..Len(row.cursor) : row.cursor[n] = "link" => free
      /\ \A n \in 1..done : ts.cursor[n] = "link" => free
  BY <1>m DEF LinksInv, Accounted
<1> HIDE DEF free
<1>f. ASSUME \A n \in 1..Len(row'.cursor) : row'.cursor[n] = "link" => free,
             \A n \in 1..(Len(ts'.cursor) - Len(todo')) : ts'.cursor[n] = "link" => free
      PROVE  LinksInv'
  BY <1>f, <1>s DEF LinksInv, Accounted, free
<1>1. CASE UNCHANGED Cursors /\ todo' = todo
  BY <1>1, <1>a, <1>f DEF Cursors
<1>2. CASE tailReport
  <2>1. row'.cursor = row.cursor
    BY <1>2 DEF tailReport
  <2>2. done = Len(ts.cursor)
    BY <1>2, <1>t, TailMeets, Least
  <2>3. \A n \in 1..(Len(ts'.cursor) - Len(todo')) : n \in 1..done /\ ts'.cursor[n] = ts.cursor[n]
    BY <1>2, <1>t, <2>2, TailMeets
  <2> QED BY <1>a, <1>f, <2>1, <2>3
<1>3. CASE ClassifyReportLine \/ autoRecordPR
  <2>1. row'.cursor = row.cursor /\ ts'.cursor = ts.cursor /\ todo # <<>> /\ (todo' = todo \/ todo' = Tail(todo))
    BY <1>3, <1>t DEF ClassifyReportLine, autoRecordPR, Row, TaskState, BaseInv, TodoOK
  <2>2. CASE todo' = todo
    BY <1>a, <1>f, <2>1, <2>2
  <2>3. CASE todo' = Tail(todo)
    <3>1. Len(todo') = Len(todo) - 1 /\ 1 \in 1..Len(todo)
      BY <2>1, <2>3, <1>t
    <3>2. ts.cursor[done + 1] = todo[1] /\ Head(todo) = todo[1]
      BY <3>1, <1>t, <2>1 DEF BaseInv, TodoOK
    <3>3. todo[1] = "link" => free
      <4>1. CASE ClassifyReportLine
        <5>1. todo[1] = "link" => snap.pr \/ todo' = todo
          BY <3>2, <4>1 DEF ClassifyReportLine
        <5>2. todo' # todo
          BY <3>1, <1>t
        <5> QED BY <1>m, <5>1, <5>2 DEF LinksInv
      <4>2. CASE autoRecordPR
        <5>1. row'.pr \/ row.pr \/ handleEvent({Unrecorded})
          BY <4>2, <1>t DEF autoRecordPR, recordedByLockHolder, Row
        <5>2. handleEvent({Unrecorded}) => Unrecorded \in said'
          BY SaidAtOnce
        <5> QED BY <1>m, <5>1, <5>2 DEF free
      <4> QED BY <1>3, <4>1, <4>2
    <3>4. Len(ts'.cursor) - Len(todo') = done + 1 /\ done \in Int
      BY <2>1, <3>1, <1>t
    <3>5. \A n \in 1..(done + 1) : n \in 1..done \/ n = done + 1
      BY <3>4
    <3> QED BY <1>a, <1>f, <2>1, <3>2, <3>3, <3>4, <3>5
  <2> QED BY <2>1, <2>2, <2>3
<1>4. CASE /\ row'.cursor = row.cursor /\ todo' = <<>>
           /\ ts'.cursor \in {row.cursor, <<>>}
  <2>1. row.cursor \in Seq(Kinds) /\ Len(row.cursor) \in Nat
    <3>1. row \in Row
      BY <1>t
    <3>2. row.cursor \in Seq(Kinds)
      BY <3>1 DEF Row
    <3> QED BY <3>2
  <2>2. Len(ts'.cursor) - Len(todo') = Len(ts'.cursor)
    BY <1>4, <2>1, Least
  <2> QED BY <1>4, <1>a, <1>f, <2>2, Least
<1>5. CASE /\ row'.cursor = ts.cursor /\ ts'.cursor = ts.cursor
           /\ todo = <<>> /\ todo' = <<>>
  <2>1. done = Len(ts.cursor)
    BY <1>5, <1>t, Least
  <2> QED BY <1>5, <1>a, <1>f, <2>1
<1> QED BY <1>1, <1>2, <1>3, <1>4, <1>5, CursorMoves

LEMMA WatchInvInductive ==
  ASSUME ~UntilEvent
  PROVE  WatchSpec => [](BaseInv /\ MarksInv /\ LinksInv)
<1>1. WatchInit => MarksInv /\ LinksInv
  <2> SUFFICES ASSUME WatchInit PROVE MarksInv /\ LinksInv
    OBVIOUS
  <2>1. ~row.announced /\ ~row.verified /\ row.cursor = <<>>
    BY DEF WatchInit, NewRow
  <2>2. ~ts.merged /\ ~ts.verified /\ ts.cursor = <<>> /\ todo = <<>>
    BY UntrackedTyped DEF WatchInit
  <2>3. ~snap.pr
    BY DEF WatchInit, NoSnap
  <2> QED BY <2>1, <2>2, <2>3, Least DEF MarksInv, LinksInv, Accounted
<1>2. BaseInv /\ BaseInv' /\ MarksInv /\ [WatchNext]_watchVars => MarksInv'
  BY StepKeepsMarks
<1>3. BaseInv /\ BaseInv' /\ LinksInv /\ [WatchNext]_watchVars => LinksInv'
  BY StepKeepsLinks
<1> QED BY <1>1, <1>2, <1>3, BaseInvAlways, PTL DEF WatchSpec

LEMMA BaseGivesTypeOK == BaseInv => WatchTypeOK
<1> SUFFICES ASSUME BaseInv PROVE WatchTypeOK
  OBVIOUS
<1>1. row \in Row /\ row.att \in 1..MaxAttempts
  BY AttemptNumbers DEF BaseInv, RowsOK
<1>2. row.changedFor \in Statuses \cup {"", "unknown"}
  BY <1>1 DEF Row, Known
<1>3. ts.att \in 0..row.att
  BY <1>1, AttemptNumbers DEF BaseInv, RowsOK
<1>4. pc = "off" => busy # "watcher" /\ buffer = {}
  BY DEF BaseInv, LockOK, FactsOK
<1> QED BY <1>1, <1>2, <1>3, <1>4 DEF WatchTypeOK, BaseInv, ChannelOK, LockOK, FactsOK

(* The state of the watcher, its rows and its announcements stay what they   *)
(* are declared to be, in both modes of printing.                            *)
THEOREM WatchTypeCorrect == WatchSpec => []WatchTypeOK
BY BaseInvAlways, BaseGivesTypeOK, PTL

(* What the watcher keeps in the database about an attempt is backed by what *)
(* it did (watcher.go:489, 802, 986): every marker by an announcement of     *)
(* this very attempt, every link by a pull request on record or the news     *)
(* that there is none; where events are printed at once.                     *)
THEOREM WatchInvAlways == UntilEvent = FALSE => (WatchSpec => []WatchInv)
<1> SUFFICES ASSUME ~UntilEvent PROVE WatchSpec => []WatchInv
  OBVIOUS
<1>1. BaseInv /\ MarksInv /\ LinksInv => WatchInv
  BY BaseGivesTypeOK DEF MarksInv, LinksInv, Accounted, WatchInv, SuppressionIsEarned, LinkIsAccounted
<1> QED BY <1>1, WatchInvInductive, PTL

=============================================================================
