---------------------------- MODULE HandLimitsProofs ----------------------------
(***************************************************************************)
(* What steering and usage limits promise, for any number of operators,    *)
(* attempts, episodes and sends, whatever dies, refuses or loses an answer.*)
(*                                                                         *)
(* Steering: what a row says of a send is the truth about the pane, text is*)
(* typed to the owner only, no message is typed twice, and glued text is   *)
(* reported.                                                               *)
(*                                                                         *)
(* Limits: one automatic resume per episode reaches a worker, however the  *)
(* watcher's ticks, its deaths and its successors interleave with reconcile*)
(* and the commands, and the operator's hold is left alone.                *)
(***************************************************************************)
EXTENDS HandLimits, FiniteSetTheorems, SequenceTheorems, TLAPS

(* HandSteering.                                                             *)
Verdicts ==
    {<<"submitted", "accepted">>, <<"not-submitted", "text-rejected">>,
     <<"not-submitted", "enter-rejected">>, <<"uncertain", "ambiguous">>}

SendRow ==
    [attempt : Attempts, origin : Senders, episode : Nat,
     state : Finals \cup {"pending"}, reason : Reasons]

Pane == [open : BOOLEAN, composer : Seq(Nat), turns : SUBSET Seq(Nat)]

Looking == {"wait", "recover", "lock"}
Typing  == {"text", "enter", "finalize"}

Answers == {"nothing", "retry", "precondition", "refused", "done", "unresolved"}

Mind ==
    [pc : {"rest", "begin"} \cup Looking \cup Typing, attempt : {0} \cup Attempts, row : Nat,
     verdict : {<<>>} \cup Verdicts, learnt : Answers]

TypesOK ==
    /\ active \in [id : Attempts, running : BOOLEAN]
    /\ pane \in [Attempts -> Pane]
    /\ screen \in [busy : BOOLEAN, refused : BOOLEAN]
    /\ sends \in Seq(SendRow)
    /\ locks \in [send : Senders \cup {Nobody}, task : Senders \cup {Command, Nobody}]
    /\ sender \in [Senders -> Mind]

(* A process that is not at rest holds the lock send:<id>, one that writes   *)
(* and types holds the task's as well, and nobody else moves the attempt or  *)
(* the row under its hands.                                                  *)
LocksOK ==
    \A s \in Senders :
      /\ sender[s].pc # "rest" => locks.send = s /\ sender[s].attempt \in Attempts
      /\ sender[s].pc \in {"begin"} \cup Typing =>
           locks.task = s /\ active = [id |-> sender[s].attempt, running |-> TRUE]
      /\ sender[s].pc \in Typing =>
           /\ sender[s].row \in 1..Len(sends)
           /\ sends[sender[s].row].state = "pending"
           /\ sends[sender[s].row].attempt = sender[s].attempt
           /\ sends[sender[s].row].origin = s
      /\ sender[s].pc = "finalize" => sender[s].verdict \in Verdicts

(* Nothing was typed for an attempt to come, and what was typed has a row.   *)
RowsOK ==
    /\ \A a \in Attempts : a > active.id => pane[a].composer = <<>> /\ pane[a].turns = {}
    /\ \A a \in Attempts : \A l \in Lines(a) : \A k \in 1..Len(l) : l[k] \in 1..Len(sends)

(* Where the text of a row is.                                               *)
InTurns(i, a) == \E turn \in pane[a].turns : Within(i, turn)
OnLine(i, a)  == \E l \in Lines(a) : Within(i, l)
Unseen(i)     == \A a \in Attempts : ~OnLine(i, a)

(* What a row says is true, and what a process is about to write.            *)
RowTrue(i) ==
    /\ sends[i].state = "submitted" => InTurns(i, sends[i].attempt)
    /\ SendRetrySafe(sends[i]) => Unseen(i)
    /\ sends[i].reason = "enter-rejected" => OnLine(i, sends[i].attempt)

MindTrue(s) ==
    LET i == sender[s].row
        a == sender[s].attempt IN
    /\ sender[s].pc = "text" => Unseen(i)
    /\ sender[s].pc = "enter" => Within(i, pane[a].composer)
    /\ sender[s].pc = "finalize" =>
         /\ sender[s].verdict[1] = "submitted" => InTurns(i, a)
         /\ sender[s].verdict[2] = "text-rejected" => Unseen(i)
         /\ sender[s].verdict[2] = "enter-rejected" => OnLine(i, a)

TruthOK ==
    /\ \A i \in 1..Len(sends) : RowTrue(i)
    /\ \A s \in Senders : MindTrue(s)

(* The text of an operator's message is on a line once at most, and it is    *)
(* not there when the operator may repeat it.                                *)
Repeats(o) ==
    \/ sender[o].pc = "rest" /\ sender[o].learnt \notin {"done", "unresolved"}
    \/ sender[o].pc \in Looking \cup {"begin", "text"}
    \/ sender[o].pc = "finalize" /\ sender[o].verdict[2] = "text-rejected"

Seen(o) == {i \in 1..Len(sends) : sends[i].origin = o /\ ~Unseen(i)}

OnceOK ==
    \A o \in Operators :
      /\ Repeats(o) => Seen(o) = {}
      /\ \A i, j \in Seen(o) : i = j
      /\ sender[o].pc \in {"enter", "finalize"} => Seen(o) \subseteq {sender[o].row}

(* What stays in front of a message needs attention; a row that is about to  *)
(* lose it stands at the end of its turn.                                    *)
EndsWith(i, line) == \A k \in 1..Len(line) : line[k] = i => k = Len(line)

LinesNoticed(a) ==
    /\ \A k \in 1..Len(pane[a].composer) : SendNeedsAttention(sends[pane[a].composer[k]])
    /\ \A turn \in pane[a].turns : \A k \in 1..(Len(turn) - 1) : SendNeedsAttention(sends[turn[k]])

MindNoticed(s) ==
    LET i == sender[s].row IN
    /\ sender[s].pc = "enter" =>
         \A a \in Attempts : /\ ~InTurns(i, a)
                             /\ a # sender[s].attempt => ~OnLine(i, a)
                             /\ EndsWith(i, pane[a].composer)
    /\ sender[s].pc = "finalize" /\ sender[s].verdict[1] = "submitted" =>
         \A a \in Attempts : /\ ~Within(i, pane[a].composer)
                             /\ \A turn \in pane[a].turns : EndsWith(i, turn)

GlueOK ==
    /\ \A a \in Attempts : LinesNoticed(a)
    /\ \A s \in Senders : MindNoticed(s)

IndInv == TypesOK /\ LocksOK /\ RowsOK /\ TruthOK /\ OnceOK /\ GlueOK

-----------------------------------------------------------------------------
(* Who is there when a process moves.                                        *)

LEMMA OthersRest ==
  ASSUME LocksOK, NEW s \in Senders, sender[s].pc # "rest"
  PROVE  locks.send = s /\ \A r \in Senders \ {s} : sender[r].pc = "rest"
BY DEF LocksOK

LEMMA NobodyTypes ==
  ASSUME LocksOK, NEW s \in Senders, locks.task # s
  PROVE  sender[s].pc \notin {"begin"} \cup Typing
BY DEF LocksOK

(* A step that types nothing, takes nothing off a line, and moves rows from  *)
(* pending to stale at most.                                                 *)
SameLines ==
    \A a \in Attempts : pane'[a].composer = pane[a].composer /\ pane'[a].turns = pane[a].turns

SameRow(i) ==
    /\ sends'[i].attempt = sends[i].attempt /\ sends'[i].origin = sends[i].origin
    /\ sends'[i].episode = sends[i].episode
    /\ \/ sends'[i].state = sends[i].state /\ sends'[i].reason = sends[i].reason
       \/ sends[i].state = "pending" /\ sends'[i].state = "uncertain" /\ sends'[i].reason = "stale"

SameRows == Len(sends') = Len(sends) /\ \A i \in 1..Len(sends) : SameRow(i)

SameMinds == \A s \in Senders : sender'[s].pc \in Typing => sender'[s] = sender[s]

NoNewRepeats == \A o \in Operators : Repeats(o)' => Repeats(o)

Quiet ==
    /\ SameLines /\ SameRows /\ SameMinds /\ NoNewRepeats
    /\ active'.id >= active.id

LEMMA LinesStay ==
  ASSUME SameLines, NEW a \in Attempts, NEW i
  PROVE  /\ InTurns(i, a)' = InTurns(i, a)
         /\ OnLine(i, a)' = OnLine(i, a)
         /\ Lines(a)' = Lines(a)
BY DEF SameLines, InTurns, OnLine, Lines

LEMMA SeenStays ==
  ASSUME SameLines, NEW i
  PROVE  Unseen(i)' = Unseen(i)
BY LinesStay DEF Unseen

LEMMA RowTyped ==
  ASSUME sends \in Seq(SendRow), NEW i \in 1..Len(sends)
  PROVE  /\ sends[i] \in SendRow
         /\ sends[i].attempt \in Attempts /\ sends[i].origin \in Senders
<1>1. sends[i] \in SendRow
  BY ElementOfSeq
<1> QED BY <1>1 DEF SendRow

LEMMA RowStaysTrue ==
  ASSUME SameLines, NEW i \in 1..Len(sends), sends \in Seq(SendRow), SameRow(i), RowTrue(i)
  PROVE  RowTrue(i)'
<1> DEFINE a == sends[i].attempt
<1>1. a \in Attempts /\ a' = a
  BY RowTyped DEF SameRow
<1>2. InTurns(i, sends[i].attempt)' = InTurns(i, sends[i].attempt)
  BY <1>1 DEF InTurns, SameLines
<1>3. OnLine(i, sends[i].attempt)' = OnLine(i, sends[i].attempt)
  BY <1>1 DEF OnLine, SameLines, Lines
<1>4. Unseen(i)' = Unseen(i)
  BY SeenStays
<1> QED BY <1>2, <1>3, <1>4 DEF RowTrue, SameRow, SendRetrySafe

LEMMA QuietTruth ==
  ASSUME TruthOK, Quiet, sends \in Seq(SendRow), LocksOK'
  PROVE  TruthOK'
<1>1. ASSUME NEW i \in 1..Len(sends) PROVE RowTrue(i)'
  BY RowStaysTrue DEF TruthOK, SameRows, Quiet
<1>2. ASSUME NEW s \in Senders PROVE MindTrue(s)'
  <2>1. CASE sender'[s].pc \in Typing
    <3>1. sender'[s] = sender[s] /\ sender'[s].attempt \in Attempts /\ MindTrue(s)
      BY <2>1 DEF Quiet, SameMinds, LocksOK, TruthOK, Typing
    <3> DEFINE i == sender[s].row
               a == sender[s].attempt
    <3>2. InTurns(i, a)' = InTurns(i, a) /\ OnLine(i, a)' = OnLine(i, a)
      BY <3>1 DEF InTurns, OnLine, SameLines, Lines, Quiet
    <3>3. Unseen(i)' = Unseen(i)
      BY <3>1 DEF Unseen, OnLine, SameLines, Lines, Quiet
    <3>4. Within(i, pane[a].composer)' = Within(i, pane[a].composer)
      BY <3>1 DEF SameLines, Quiet, Within
    <3> QED BY <3>1, <3>2, <3>3, <3>4 DEF MindTrue
  <2>2. CASE sender'[s].pc \notin Typing
    BY <2>2 DEF MindTrue, Typing
  <2> QED BY <2>1, <2>2
<1> QED BY <1>1, <1>2 DEF TruthOK, SameRows, Quiet

LEMMA QuietOnce ==
  ASSUME OnceOK, Quiet
  PROVE  OnceOK'
<1>1. \A o : Seen(o)' = Seen(o)
  BY SeenStays DEF Seen, Quiet, SameRows, SameRow
<1>2. \A o \in Operators : sender'[o].pc \in {"enter", "finalize"} => sender'[o] = sender[o]
  BY DEF Quiet, SameMinds, Typing, Senders
<1> QED BY <1>1, <1>2 DEF OnceOK, Quiet, NoNewRepeats

LEMMA NoticedStays ==
  ASSUME NEW i, SameRow(i), SendNeedsAttention(sends[i])
  PROVE  SendNeedsAttention(sends[i])'
BY DEF SameRow, SendNeedsAttention

LEMMA QuietGlue ==
  ASSUME GlueOK, RowsOK, Quiet, TypesOK, LocksOK'
  PROVE  GlueOK'
<1>1. ASSUME NEW a \in Attempts PROVE LinesNoticed(a)'
  <2>1. \A k \in 1..Len(pane[a].composer) : pane[a].composer[k] \in 1..Len(sends)
    BY DEF RowsOK, Lines
  <2>2. \A turn \in pane[a].turns : /\ Len(turn) \in Nat
                                    /\ \A k \in 1..Len(turn) : turn[k] \in 1..Len(sends)
    <3>1. pane[a].turns \in SUBSET Seq(Nat)
      BY DEF TypesOK, Pane
    <3> QED BY <3>1, LenProperties DEF RowsOK, Lines
  <2>3. \A turn \in pane[a].turns : \A k \in 1..(Len(turn) - 1) : turn[k] \in 1..Len(sends)
    BY <2>2
  <2>4. \A i \in 1..Len(sends) : SameRow(i)
    BY DEF Quiet, SameRows
  <2>5. \A k \in 1..Len(pane[a].composer) : SendNeedsAttention(sends'[pane[a].composer[k]])
    <3>1. ASSUME NEW i \in 1..Len(sends), SendNeedsAttention(sends[i])
          PROVE  SendNeedsAttention(sends'[i])
      BY <2>4, <3>1, NoticedStays DEF SendNeedsAttention
    <3> QED BY <2>1, <3>1 DEF GlueOK, LinesNoticed
  <2>6. \A turn \in pane[a].turns : \A k \in 1..(Len(turn) - 1) :
           SendNeedsAttention(sends[turn[k]])'
    BY <2>3, <2>4, NoticedStays DEF GlueOK, LinesNoticed
  <2> QED BY <2>5, <2>6 DEF LinesNoticed, Quiet, SameLines
<1>2. ASSUME NEW s \in Senders PROVE MindNoticed(s)'
  <2>1. CASE sender'[s].pc \in Typing
    <3>1. sender'[s] = sender[s] /\ MindNoticed(s)
      BY <2>1 DEF Quiet, SameMinds, GlueOK
    <3>2. \A a \in Attempts : /\ InTurns(sender[s].row, a)' = InTurns(sender[s].row, a)
                              /\ OnLine(sender[s].row, a)' = OnLine(sender[s].row, a)
      BY <3>1 DEF InTurns, OnLine, SameLines, Lines, Quiet
    <3> QED BY <3>1, <3>2 DEF MindNoticed, Quiet, SameLines
  <2>2. CASE sender'[s].pc \notin Typing
    BY <2>2 DEF MindNoticed, Typing
  <2> QED BY <2>1, <2>2
<1> QED BY <1>1, <1>2 DEF GlueOK

LEMMA QuietKeeps ==
  ASSUME IndInv, Quiet, TypesOK', LocksOK'
  PROVE  IndInv'
<1>1. RowsOK'
  <2>1. active.id \in Nat /\ active'.id \in Nat /\ Attempts \subseteq Nat
    BY DEF IndInv, TypesOK, Attempts
  <2>2. \A a \in Attempts : a > active'.id => a > active.id
    BY <2>1 DEF Quiet
  <2>3. \A a \in Attempts : a > active'.id => pane'[a].composer = <<>> /\ pane'[a].turns = {}
    BY <2>2 DEF IndInv, RowsOK, Quiet, SameLines
  <2>4. \A a \in Attempts : Lines(a)' = Lines(a)
    BY DEF Quiet, SameLines, Lines
  <2> QED BY <2>3, <2>4 DEF IndInv, RowsOK, Quiet, SameRows
<1>2. TruthOK'
  BY QuietTruth DEF IndInv, TypesOK
<1> QED BY <1>1, <1>2, QuietOnce, QuietGlue DEF IndInv

-----------------------------------------------------------------------------
(* What the steps do to the memory of a process and to the locks.            *)

LEMMA RestingTyped ==
  ASSUME NEW learnt \in Answers
  PROVE  /\ Resting(learnt) \in Mind
         /\ Resting(learnt).pc = "rest" /\ Resting(learnt).learnt = learnt
BY DEF Resting, Mind

LEMMA ReturnDoes ==
  ASSUME TypesOK, NEW s \in Senders, NEW learnt \in Answers, Return(s, learnt)
  PROVE  /\ sender' \in [Senders -> Mind]
         /\ locks' \in [send : Senders \cup {Nobody}, task : Senders \cup {Command, Nobody}]
         /\ sender'[s].pc = "rest"
         /\ s \in Operators /\ learnt \in {"done", "unresolved"} => sender'[s].learnt = learnt
         /\ s \notin Operators => sender'[s].learnt = learnt
         /\ \A r \in Senders \ {s} : sender'[r] = sender[r]
<1> DEFINE told == IF s \in Operators /\ learnt \notin {"done", "unresolved"} THEN "nothing"
                   ELSE learnt
<1>1. told \in Answers
  <2>1. "nothing" \in Answers
    BY DEF Answers
  <2>2. told = "nothing" \/ told = learnt
    OBVIOUS
  <2> QED BY <2>1, <2>2
<1>2. /\ Resting(told) \in Mind
      /\ Resting(told).pc = "rest" /\ Resting(told).learnt = told
  BY <1>1, RestingTyped
<1>3. sender' = [sender EXCEPT ![s] = Resting(told)]
  BY DEF Return
<1>4. sender \in [Senders -> Mind]
  BY DEF TypesOK
<1>5. locks' = [send |-> IF locks.send = s THEN Nobody ELSE locks.send,
                task |-> IF locks.task = s THEN Nobody ELSE locks.task]
  BY DEF Return, Free
<1>6. locks' \in [send : Senders \cup {Nobody}, task : Senders \cup {Command, Nobody}]
  BY <1>5 DEF TypesOK
<1> HIDE DEF told
<1>7. sender'[s] = Resting(told) /\ \A r \in Senders \ {s} : sender'[r] = sender[r]
  BY <1>3, <1>4
<1>8. sender' \in [Senders -> Mind]
  BY <1>2, <1>3, <1>4
<1> QED BY <1>2, <1>6, <1>7, <1>8 DEF told

(* A process that gives up or is done leaves everybody at rest.              *)
LEMMA ReturnRests ==
  ASSUME TypesOK, LocksOK, NEW s \in Senders, sender[s].pc # "rest",
         NEW learnt \in Answers, Return(s, learnt)
  PROVE  /\ \A r \in Senders : sender'[r].pc = "rest"
         /\ LocksOK' /\ SameMinds
<1>1. \A r \in Senders : sender'[r].pc = "rest"
  BY ReturnDoes, OthersRest
<1> QED BY <1>1 DEF LocksOK, SameMinds, Typing

LEMMA GotoDoes ==
  ASSUME TypesOK, NEW s \in Senders,
         NEW pc \in {"rest", "begin"} \cup Looking \cup Typing, Goto(s, pc)
  PROVE  /\ sender' \in [Senders -> Mind]
         /\ sender'[s].pc = pc /\ sender'[s].attempt = sender[s].attempt
         /\ sender'[s].row = sender[s].row /\ sender'[s].learnt = sender[s].learnt
         /\ \A r \in Senders \ {s} : sender'[r] = sender[r]
<1>1. sender \in [Senders -> Mind] /\ sender[s] \in Mind
  BY DEF TypesOK
<1>2. sender' = [sender EXCEPT ![s] = [sender[s] EXCEPT !.pc = pc]]
  BY DEF Goto
<1>3. [sender[s] EXCEPT !.pc = pc] \in Mind
  BY <1>1 DEF Mind
<1>4. sender'[s] = [sender[s] EXCEPT !.pc = pc]
  BY <1>1, <1>2
<1> QED BY <1>1, <1>2, <1>3, <1>4 DEF Mind

LEMMA ConcludeDoes ==
  ASSUME TypesOK, NEW s \in Senders, NEW state, NEW reason, <<state, reason>> \in Verdicts,
         Conclude(s, state, reason)
  PROVE  /\ sender' \in [Senders -> Mind]
         /\ sender'[s].pc = "finalize" /\ sender'[s].attempt = sender[s].attempt
         /\ sender'[s].row = sender[s].row /\ sender'[s].learnt = sender[s].learnt
         /\ sender'[s].verdict = <<state, reason>>
         /\ \A r \in Senders \ {s} : sender'[r] = sender[r]
<1> DEFINE v == <<state, reason>>
<1>0. v \in Verdicts
  OBVIOUS
<1>1. sender \in [Senders -> Mind] /\ sender[s] \in Mind
  BY DEF TypesOK
<1>2. sender' = [sender EXCEPT ![s] = [sender[s] EXCEPT !.pc = "finalize", !.verdict = v]]
  BY DEF Conclude
<1> HIDE DEF v
<1>3. [sender[s] EXCEPT !.pc = "finalize", !.verdict = v] \in Mind
  BY <1>0, <1>1 DEF Mind, Typing
<1>4. sender'[s] = [sender[s] EXCEPT !.pc = "finalize", !.verdict = v]
  BY <1>1, <1>2
<1>5. /\ sender'[s].pc = "finalize" /\ sender'[s].attempt = sender[s].attempt
      /\ sender'[s].row = sender[s].row /\ sender'[s].learnt = sender[s].learnt
      /\ sender'[s].verdict = v
  BY <1>1, <1>4 DEF Mind
<1>6. sender' \in [Senders -> Mind] /\ \A r \in Senders \ {s} : sender'[r] = sender[r]
  BY <1>1, <1>2, <1>3
<1> QED BY <1>5, <1>6 DEF v

(* Rows that are declared stale.                                             *)
LEMMA NormalizedDoes ==
  ASSUME TypesOK, NEW rows, \A i \in rows : sends[i].state = "pending",
         sends' = Normalized(rows)
  PROVE  sends' \in Seq(SendRow) /\ SameRows
<1>1. sends \in Seq(SendRow)
  BY DEF TypesOK
<1>2. /\ DOMAIN sends = 1..Len(sends) /\ Len(sends) \in Nat
      /\ \A i \in 1..Len(sends) : sends[i] \in SendRow
  BY <1>1, LenProperties, ElementOfSeq
<1> DEFINE e(i) == IF i \in rows THEN [sends[i] EXCEPT !.state = "uncertain", !.reason = "stale"]
                   ELSE sends[i]
<1>3. ASSUME NEW i \in 1..Len(sends)
      PROVE  /\ e(i) \in SendRow
             /\ e(i).attempt = sends[i].attempt /\ e(i).origin = sends[i].origin
             /\ e(i).episode = sends[i].episode
             /\ \/ e(i).state = sends[i].state /\ e(i).reason = sends[i].reason
                \/ /\ sends[i].state = "pending" /\ e(i).state = "uncertain"
                   /\ e(i).reason = "stale"
  <2>1. sends[i] \in SendRow
    BY <1>2
  <2>2. CASE i \notin rows
    BY <2>1, <2>2
  <2>3. CASE i \in rows
    <3>1. e(i) = [sends[i] EXCEPT !.state = "uncertain", !.reason = "stale"]
      BY <2>3
    <3> HIDE DEF e
    <3>2. sends[i].state = "pending"
      BY <2>3
    <3>3. /\ e(i) \in SendRow
          /\ e(i).attempt = sends[i].attempt /\ e(i).origin = sends[i].origin
          /\ e(i).episode = sends[i].episode
          /\ e(i).state = "uncertain" /\ e(i).reason = "stale"
      BY <2>1, <3>1 DEF SendRow, Finals, Reasons
    <3> QED BY <3>2, <3>3
  <2> QED BY <2>2, <2>3
<1>4. sends' = [i \in 1..Len(sends) |-> e(i)]
  BY <1>2 DEF Normalized
<1> HIDE DEF e
<1>5. sends' \in Seq(SendRow)
  BY <1>2, <1>3, <1>4, IsASeq
<1>6. Len(sends') = Len(sends)
  BY <1>2, <1>4
<1>7. \A i \in 1..Len(sends) : sends'[i] = e(i)
  BY <1>4
<1> QED BY <1>3, <1>5, <1>6, <1>7 DEF SameRows, SameRow

LEMMA RowsUnchanged ==
  ASSUME sends' = sends
  PROVE  SameRows
BY DEF SameRows, SameRow

LEMMA LinesUnchanged ==
  ASSUME pane' = pane
  PROVE  SameLines
BY DEF SameLines

-----------------------------------------------------------------------------
(* The steps that type nothing.                                              *)

(* A process that ends its send without writing a verdict of its own.        *)
LEMMA EndsQuietly ==
  ASSUME IndInv, NEW s \in Senders, sender[s].pc # "rest", NEW learnt \in Answers,
         Return(s, learnt), SameRows, sends' \in Seq(SendRow),
         sender[s].pc \in Looking \cup {"begin"} \/ learnt = "unresolved",
         UNCHANGED <<active, pane, screen>>
  PROVE  IndInv'
<1>1. TypesOK /\ LocksOK
  BY DEF IndInv
<1>2. TypesOK'
  BY <1>1, ReturnDoes DEF TypesOK
<1>3. LocksOK' /\ SameMinds
  BY <1>1, ReturnRests
<1>4. NoNewRepeats
  <2>1. \A o \in Operators : o # s => sender'[o] = sender[o]
    BY <1>1, ReturnDoes DEF Senders
  <2>2. sender'[s].pc = "rest"
    BY <1>1, ReturnDoes
  <2>3. s \in Operators /\ learnt = "unresolved" => sender'[s].learnt = "unresolved"
    BY <1>1, ReturnDoes
  <2> QED BY <2>1, <2>2, <2>3 DEF NoNewRepeats, Repeats, Looking
<1>5. SameLines
  BY LinesUnchanged
<1>6. active'.id >= active.id
  BY <1>1 DEF TypesOK, Attempts
<1> QED BY <1>2, <1>3, <1>4, <1>5, <1>6, QuietKeeps DEF Quiet

(* A process that goes on without having written anything yet.               *)
LEMMA LooksOn ==
  ASSUME IndInv, NEW s \in Senders, sender[s].pc \in Looking, NEW pc \in Looking \cup {"begin"},
         Goto(s, pc), UNCHANGED <<active, pane, screen, sends>>,
         locks' \in [send : Senders \cup {Nobody}, task : Senders \cup {Command, Nobody}],
         locks'.send = s,
         pc = "begin" => locks'.task = s /\ active = [id |-> sender[s].attempt, running |-> TRUE]
  PROVE  IndInv'
<1>1. TypesOK /\ LocksOK
  BY DEF IndInv
<1>2. pc \in {"rest", "begin"} \cup Looking \cup Typing /\ pc # "rest" /\ pc \notin Typing
  BY DEF Looking, Typing
<1>3. /\ sender' \in [Senders -> Mind]
      /\ sender'[s].pc = pc /\ sender'[s].attempt = sender[s].attempt
      /\ \A r \in Senders \ {s} : sender'[r] = sender[r]
  BY <1>1, <1>2, GotoDoes
<1>4. sender[s].pc # "rest"
  BY DEF Looking
<1>5. \A r \in Senders \ {s} : sender'[r].pc = "rest"
  BY <1>1, <1>3, <1>4, OthersRest
<1>6. TypesOK'
  BY <1>1, <1>3 DEF TypesOK
<1>7. LocksOK'
  <2>1. sender'[s].attempt \in Attempts /\ sender'[s].pc \notin Typing
    BY <1>1, <1>2, <1>3, <1>4 DEF LocksOK
  <2>2. pc = "begin" => locks'.task = s /\ active' = [id |-> sender'[s].attempt, running |-> TRUE]
    BY <1>3
  <2> QED BY <1>3, <1>5, <2>1, <2>2 DEF LocksOK, Typing
<1>8. SameMinds /\ SameLines /\ SameRows
  BY <1>2, <1>3, <1>5, LinesUnchanged, RowsUnchanged DEF SameMinds, Typing
<1>9. NoNewRepeats
  BY <1>3 DEF NoNewRepeats, Repeats, Looking, Senders
<1>10. active'.id >= active.id
  BY <1>1 DEF TypesOK, Attempts
<1> QED BY <1>6, <1>7, <1>8, <1>9, <1>10, QuietKeeps DEF Quiet

LEMMA StartSendKeeps ==
  ASSUME IndInv, SteeringAssumption, NEW s \in Senders, StartSend(s)
  PROVE  IndInv'
<1> DEFINE row == IF Pending(active.id) = {} THEN 0 ELSE CHOOSE i \in Pending(active.id) : TRUE
           next == [Resting("nothing") EXCEPT !.pc = FirstStep(s), !.attempt = active.id,
                                              !.row = row]
<1>1. TypesOK /\ LocksOK
  BY DEF IndInv
<1>2. \A r \in Senders : sender[r].pc = "rest"
  BY <1>1 DEF StartSend, LocksOK, SteeringAssumption
<1>3. row \in Nat
  <2>1. DOMAIN sends \subseteq Nat
    BY <1>1, LenProperties DEF TypesOK
  <2> QED BY <2>1 DEF Pending
<1>4. FirstStep(s) \in Looking
  BY DEF FirstStep, Looking
<1>5. active.id \in Attempts
  BY <1>1 DEF TypesOK
<1>6. sender' = [sender EXCEPT ![s] = next]
  BY DEF StartSend
<1> HIDE DEF row
<1>7. next \in Mind /\ next.pc \in Looking /\ next.attempt = active.id
  <2>1. FirstStep(s) \in {"rest", "begin"} \cup Looking \cup Typing
    BY <1>4
  <2>2. Resting("nothing") \in Mind
    BY RestingTyped DEF Answers
  <2>3. next = [Resting("nothing") EXCEPT !.pc = FirstStep(s), !.attempt = active.id, !.row = row]
    OBVIOUS
  <2> HIDE DEF next
  <2> QED BY <1>3, <1>4, <1>5, <2>1, <2>2, <2>3 DEF Mind
<1> HIDE DEF next
<1>8. /\ sender' \in [Senders -> Mind]
      /\ sender'[s] = next
      /\ \A r \in Senders \ {s} : sender'[r] = sender[r]
  BY <1>1, <1>6, <1>7 DEF TypesOK
<1>9. locks' \in [send : Senders \cup {Nobody}, task : Senders \cup {Command, Nobody}]
      /\ locks'.send = s
  BY <1>1 DEF TypesOK, StartSend
<1>10. TypesOK'
  BY <1>1, <1>8, <1>9 DEF TypesOK, StartSend
<1>11. \A r \in Senders : sender'[r].pc \notin Typing \cup {"begin"}
  BY <1>2, <1>7, <1>8 DEF Typing, Looking
<1>12. LocksOK'
  BY <1>2, <1>5, <1>7, <1>8, <1>9, <1>11 DEF LocksOK, Typing
<1>13. SameMinds /\ SameLines /\ SameRows
  BY <1>11, LinesUnchanged, RowsUnchanged DEF SameMinds, StartSend
<1>14. NoNewRepeats
  <2>1. s \in Operators => Repeats(s)
    BY DEF StartSend, MayStart, Repeats, SteeringAssumption
  <2> QED BY <1>8, <2>1 DEF NoNewRepeats, Repeats, Senders
<1>15. active'.id >= active.id
  BY <1>1 DEF TypesOK, Attempts, StartSend
<1> QED BY <1>10, <1>12, <1>13, <1>14, <1>15, QuietKeeps DEF Quiet

LEMMA WaitComposerKeeps ==
  ASSUME IndInv, NEW s \in Senders, WaitComposer(s)
  PROVE  IndInv'
<1>1. sender[s].pc \in Looking /\ sender[s].pc # "rest"
  BY DEF WaitComposer, Looking
<1>2. CASE Goto(s, "lock") /\ UNCHANGED locks
  <2>1. locks' \in [send : Senders \cup {Nobody}, task : Senders \cup {Command, Nobody}]
        /\ locks'.send = s
    BY <1>1, <1>2 DEF IndInv, TypesOK, LocksOK
  <2> QED BY <1>1, <1>2, <2>1, LooksOn DEF WaitComposer, Looking
<1>3. CASE Return(s, "retry")
  <2>1. SameRows /\ sends' \in Seq(SendRow)
    BY RowsUnchanged DEF WaitComposer, IndInv, TypesOK
  <2>2. "retry" \in Answers
    BY DEF Answers
  <2> QED BY <1>1, <1>3, <2>1, <2>2, EndsQuietly DEF WaitComposer
<1> QED BY <1>2, <1>3 DEF WaitComposer

LEMMA LockBusyKeeps ==
  ASSUME IndInv, NEW s \in Senders, LockBusy(s)
  PROVE  IndInv'
<1>1. sender[s].pc \in Looking /\ sender[s].pc # "rest"
  BY DEF LockBusy, Looking
<1>2. SameRows /\ sends' \in Seq(SendRow)
  BY RowsUnchanged DEF LockBusy, IndInv, TypesOK
<1>3. "precondition" \in Answers
  BY DEF Answers
<1> QED BY <1>1, <1>2, <1>3, EndsQuietly DEF LockBusy

LEMMA RecoverPendingKeeps ==
  ASSUME IndInv, NEW s \in Senders, RecoverPending(s)
  PROVE  IndInv'
<1>1. sender[s].pc \in Looking /\ sender[s].pc # "rest"
  BY DEF RecoverPending, Looking
<1> DEFINE rows == {sender[s].row} \intersect Pending(sender[s].attempt)
<1>2. \A i \in rows : sends[i].state = "pending"
  BY DEF Pending
<1>3. sends' = Normalized(rows) /\ TypesOK
  BY DEF RecoverPending, IndInv
<1> HIDE DEF rows
<1>4. SameRows /\ sends' \in Seq(SendRow)
  BY <1>2, <1>3, NormalizedDoes
<1>5. "refused" \in Answers
  BY DEF Answers
<1> QED BY <1>1, <1>4, <1>5, EndsQuietly DEF RecoverPending

LEMMA VerifyLockedKeeps ==
  ASSUME IndInv, NEW s \in Senders, VerifyLocked(s)
  PROVE  IndInv'
<1> DEFINE a == sender[s].attempt
<1>1. sender[s].pc \in Looking /\ sender[s].pc # "rest"
  BY DEF VerifyLocked, Looking
<1>2. UNCHANGED <<active, pane, screen>>
  BY DEF VerifyLocked
<1>3. {"precondition", "retry", "refused"} \subseteq Answers
  BY DEF Answers
<1>4. CASE (Return(s, "precondition") \/ Return(s, "retry")) /\ UNCHANGED sends
  <2>1. SameRows /\ sends' \in Seq(SendRow)
    BY <1>4, RowsUnchanged DEF IndInv, TypesOK
  <2> QED BY <1>1, <1>2, <1>3, <1>4, <2>1, EndsQuietly
<1>5. CASE sends' = Normalized(Pending(a)) /\ Return(s, "refused")
  <2>1. \A i \in Pending(a) : sends[i].state = "pending"
    BY DEF Pending
  <2>2. SameRows /\ sends' \in Seq(SendRow)
    BY <1>5, <2>1, NormalizedDoes DEF IndInv
  <2> QED BY <1>1, <1>2, <1>3, <1>5, <2>2, EndsQuietly
<1>6. CASE /\ active = [id |-> a, running |-> TRUE]
           /\ locks' = [locks EXCEPT !.task = s]
           /\ Goto(s, "begin") /\ UNCHANGED sends
  <2>1. /\ locks' \in [send : Senders \cup {Nobody}, task : Senders \cup {Command, Nobody}]
        /\ locks'.send = locks.send /\ locks'.task = s
    BY <1>6 DEF IndInv, TypesOK
  <2>2. locks.send = s
    BY <1>1 DEF IndInv, LocksOK
  <2> QED BY <1>1, <1>2, <1>6, <2>1, <2>2, LooksOn
<1> QED BY <1>4, <1>5, <1>6 DEF VerifyLocked

LEMMA SenderDiesKeeps ==
  ASSUME IndInv, NEW s \in Senders, SenderDies(s)
  PROVE  IndInv'
<1>1. SameRows /\ sends' \in Seq(SendRow)
  BY RowsUnchanged DEF SenderDies, IndInv, TypesOK
<1>2. "unresolved" \in Answers
  BY DEF Answers
<1> QED BY <1>1, <1>2, EndsQuietly DEF SenderDies

(* The steps of everybody else.                                              *)
LEMMA QuietRest ==
  ASSUME IndInv, sender' = sender, TypesOK', SameLines, SameRows, active'.id >= active.id,
         \A r \in Senders : sender[r].pc \in Typing =>
            UNCHANGED <<active, locks>> /\ sends'[sender[r].row] = sends[sender[r].row],
         \A r \in Senders : sender[r].pc = "begin" => UNCHANGED <<active, locks>>,
         \A r \in Senders : sender[r].pc # "rest" => locks'.send = locks.send
  PROVE  IndInv'
<1>1. LocksOK'
  <2>1. LocksOK /\ Len(sends') = Len(sends)
    BY DEF IndInv, SameRows
  <2> QED BY <2>1 DEF LocksOK
<1>2. Quiet
  BY DEF Quiet, SameMinds, NoNewRepeats, Repeats
<1> QED BY <1>1, <1>2, QuietKeeps

LEMMA CommandTakesKeeps ==
  ASSUME IndInv, SteeringAssumption, CommandTakes
  PROVE  IndInv'
<1>1. TypesOK /\ LocksOK
  BY DEF IndInv
<1>2. \A r \in Senders : sender[r].pc \notin {"begin"} \cup Typing
  BY <1>1 DEF CommandTakes, LocksOK, SteeringAssumption
<1>3. TypesOK' /\ locks'.send = locks.send
  BY <1>1 DEF TypesOK, CommandTakes
<1>4. SameLines /\ SameRows /\ active'.id >= active.id
  BY <1>1, LinesUnchanged, RowsUnchanged DEF CommandTakes, TypesOK, Attempts
<1> QED BY <1>2, <1>3, <1>4, QuietRest DEF CommandTakes

LEMMA CommandLeavesKeeps ==
  ASSUME IndInv, SteeringAssumption, CommandLeaves
  PROVE  IndInv'
<1>1. TypesOK /\ LocksOK
  BY DEF IndInv
<1>2. \A r \in Senders : sender[r].pc \notin {"begin"} \cup Typing
  BY <1>1 DEF CommandLeaves, LocksOK, SteeringAssumption
<1>3. TypesOK' /\ locks'.send = locks.send
  BY <1>1 DEF TypesOK, CommandLeaves
<1>4. SameLines /\ SameRows /\ active'.id >= active.id
  BY <1>1, LinesUnchanged, RowsUnchanged DEF CommandLeaves, TypesOK, Attempts
<1> QED BY <1>2, <1>3, <1>4, QuietRest DEF CommandLeaves

LEMMA NormalizePendingSendsKeeps ==
  ASSUME IndInv, SteeringAssumption, NormalizePendingSends
  PROVE  IndInv'
<1> DEFINE rows == UNION {Pending(a) : a \in Attempts}
<1>1. TypesOK /\ LocksOK
  BY DEF IndInv
<1>2. \A r \in Senders : sender[r].pc \notin {"begin"} \cup Typing
  BY <1>1 DEF NormalizePendingSends, LocksOK, SteeringAssumption
<1>3. \A i \in rows : sends[i].state = "pending"
  BY DEF Pending
<1>4. sends' = Normalized(rows)
  BY DEF NormalizePendingSends
<1> HIDE DEF rows
<1>5. SameRows /\ sends' \in Seq(SendRow)
  BY <1>1, <1>3, <1>4, NormalizedDoes
<1>6. TypesOK'
  BY <1>1, <1>5 DEF TypesOK, NormalizePendingSends
<1>7. SameLines /\ active'.id >= active.id
  BY <1>1, LinesUnchanged DEF NormalizePendingSends, TypesOK, Attempts
<1> QED BY <1>2, <1>5, <1>6, <1>7, QuietRest DEF NormalizePendingSends

(* A pane that closes keeps what was typed into it.                          *)
LEMMA ClosingStays ==
  ASSUME TypesOK, NEW a \in Attempts, pane' \in {pane, [pane EXCEPT ![a].open = FALSE]}
  PROVE  pane' \in [Attempts -> Pane] /\ SameLines
<1>1. pane \in [Attempts -> Pane]
  BY DEF TypesOK
<1>2. CASE pane' = pane
  BY <1>1, <1>2, LinesUnchanged
<1>3. CASE pane' = [pane EXCEPT ![a] = [pane[a] EXCEPT !.open = FALSE]]
  <2>1. pane[a] \in Pane
    BY <1>1
  <2>2. /\ [pane[a] EXCEPT !.open = FALSE] \in Pane
        /\ [pane[a] EXCEPT !.open = FALSE].composer = pane[a].composer
        /\ [pane[a] EXCEPT !.open = FALSE].turns = pane[a].turns
    BY <2>1 DEF Pane
  <2> QED BY <1>1, <1>3, <2>2 DEF SameLines
<1> QED BY <1>2, <1>3

LEMMA EndAttemptKeeps ==
  ASSUME IndInv, SteeringAssumption, EndAttempt
  PROVE  IndInv'
<1>1. TypesOK /\ LocksOK
  BY DEF IndInv
<1>2. \A r \in Senders : sender[r].pc \notin {"begin"} \cup Typing
  BY <1>1 DEF EndAttempt, LocksOK, SteeringAssumption
<1>3. active.id \in Attempts
  BY <1>1 DEF TypesOK
<1>4. pane' \in [Attempts -> Pane] /\ SameLines
  BY <1>1, <1>3, ClosingStays DEF EndAttempt
<1>5. active' \in [id : Attempts, running : BOOLEAN] /\ active'.id = active.id
  BY <1>1 DEF TypesOK, EndAttempt
<1>6. TypesOK'
  BY <1>1, <1>4, <1>5 DEF TypesOK, EndAttempt
<1>7. SameRows /\ active'.id >= active.id
  BY <1>3, <1>5, RowsUnchanged DEF EndAttempt, Attempts
<1> QED BY <1>2, <1>4, <1>6, <1>7, QuietRest DEF EndAttempt

LEMMA LaunchAttemptKeeps ==
  ASSUME IndInv, SteeringAssumption, LaunchAttempt
  PROVE  IndInv'
<1> DEFINE next == active.id + 1
<1>1. TypesOK /\ LocksOK
  BY DEF IndInv
<1>2. \A r \in Senders : sender[r].pc \notin {"begin"} \cup Typing
  BY <1>1 DEF LaunchAttempt, LocksOK, SteeringAssumption
<1>3. active.id \in Nat /\ next \in Attempts /\ next > active.id
  BY <1>1 DEF TypesOK, LaunchAttempt, Attempts, SteeringAssumption
<1>4. active' \in [id : Attempts, running : BOOLEAN] /\ active'.id = next
  BY <1>3 DEF LaunchAttempt
<1>5. <<>> \in Seq(Nat)
  BY EmptySeq
<1>6. NoPane \in Pane /\ NoPane.composer = <<>> /\ NoPane.turns = {}
  BY <1>5 DEF NoPane, Pane
<1>7. NewPane \in Pane /\ NewPane.composer = <<>> /\ NewPane.turns = {}
  <2>1. NewPane = [NoPane EXCEPT !.open = TRUE]
    BY DEF NewPane
  <2> QED BY <1>6, <2>1 DEF Pane
<1>8. pane' = [pane EXCEPT ![next] = NewPane] /\ pane \in [Attempts -> Pane]
  BY <1>1 DEF LaunchAttempt, TypesOK
<1>9. pane' \in [Attempts -> Pane]
  BY <1>3, <1>7, <1>8
<1>10. pane[next].composer = <<>> /\ pane[next].turns = {}
  BY <1>3 DEF IndInv, RowsOK
<1>11. SameLines
  BY <1>3, <1>7, <1>8, <1>10 DEF SameLines
<1>12. screen' \in [busy : BOOLEAN, refused : BOOLEAN]
  BY DEF LaunchAttempt, NewScreen
<1>13. TypesOK'
  BY <1>1, <1>4, <1>9, <1>12 DEF TypesOK, LaunchAttempt
<1>14. SameRows /\ active'.id >= active.id
  BY <1>3, <1>4, RowsUnchanged DEF LaunchAttempt
<1> QED BY <1>2, <1>11, <1>13, <1>14, QuietRest DEF LaunchAttempt

LEMMA WorkerStepKeeps ==
  ASSUME IndInv, WorkerStep
  PROVE  IndInv'
<1>1. TypesOK /\ active.id \in Attempts
  BY DEF IndInv, TypesOK
<1>2. UNCHANGED <<active, sends, locks, sender>>
  BY DEF WorkerStep, WorkerStops, WorkerLeaves
<1>3. pane' \in [Attempts -> Pane] /\ SameLines
  BY <1>1, ClosingStays DEF WorkerStep, WorkerStops, WorkerLeaves
<1>4. screen' \in [busy : BOOLEAN, refused : BOOLEAN]
  BY <1>1 DEF WorkerStep, WorkerStops, WorkerLeaves, TypesOK
<1>5. TypesOK'
  BY <1>1, <1>2, <1>3, <1>4 DEF TypesOK
<1>6. SameRows /\ active'.id >= active.id
  BY <1>1, <1>2, RowsUnchanged DEF Attempts
<1> QED BY <1>2, <1>3, <1>5, <1>6, QuietRest

-----------------------------------------------------------------------------
(* The step that writes the row.                                             *)

LEMMA InLines ==
  ASSUME TypesOK, NEW a \in Attempts, NEW l \in Lines(a)
  PROVE  l \in Seq(Nat) /\ DOMAIN l = 1..Len(l) /\ Len(l) \in Nat
<1>1. pane[a] \in Pane
  BY DEF TypesOK
<1>2. l \in Seq(Nat)
  BY <1>1 DEF Pane, Lines
<1> QED BY <1>2, LenProperties

(* A row that is not there yet was typed nowhere.                            *)
LEMMA FreshIsUnseen ==
  ASSUME TypesOK, RowsOK, NEW i, i \notin 1..Len(sends)
  PROVE  Unseen(i)
<1>1. ASSUME NEW a \in Attempts, NEW l \in Lines(a) PROVE ~Within(i, l)
  BY <1>1, InLines DEF RowsOK, Within
<1> QED BY <1>1 DEF Unseen, OnLine

LEMMA RestIsQuiet ==
  ASSUME NEW r \in Senders, sender'[r].pc = "rest"
  PROVE  MindTrue(r)' /\ MindNoticed(r)'
BY DEF MindTrue, MindNoticed

LEMMA BeginsKeeps ==
  ASSUME IndInv, NEW s \in Senders, NEW episode \in Nat, BeginSend(s, episode),
         active = [id |-> sender[s].attempt, running |-> TRUE], Pending(sender[s].attempt) = {}
  PROVE  IndInv'
<1>0. TypesOK /\ Len(sends) \in Nat
  BY LenProperties DEF IndInv, TypesOK
<1> PICK n \in Nat : n = Len(sends) + 1
  BY <1>0
<1> DEFINE row == [attempt |-> sender[s].attempt, origin |-> s, episode |-> episode,
                   state |-> "pending", reason |-> "none"]
<1>1. TypesOK /\ LocksOK /\ RowsOK
  BY DEF IndInv
<1>2. sender[s].pc = "begin" /\ sender[s] \in Mind /\ sender \in [Senders -> Mind]
  BY <1>1 DEF BeginSend, TypesOK
<1>3. /\ sends' = Append(sends, row)
      /\ sender' = [sender EXCEPT ![s] = [sender[s] EXCEPT !.pc = "text", !.row = n]]
      /\ UNCHANGED <<active, pane, screen, locks>>
  BY DEF BeginSend
<1>4. sender[s].attempt \in Attempts /\ locks.send = s /\ locks.task = s
  BY <1>1, <1>2 DEF LocksOK
<1>5. row \in SendRow /\ row.state = "pending" /\ row.reason = "none"
      /\ row.attempt = sender[s].attempt /\ row.origin = s
  BY <1>4 DEF SendRow, Reasons
<1> HIDE DEF row
<1>6. sends \in Seq(SendRow) /\ Len(sends) \in Nat
  BY <1>1, LenProperties DEF TypesOK
<1>7. /\ sends' \in Seq(SendRow) /\ Len(sends') = n
      /\ \A i \in 1..Len(sends) : sends'[i] = sends[i]
      /\ sends'[n] = row
  BY <1>3, <1>5, <1>6
<1>8. /\ sender' \in [Senders -> Mind]
      /\ sender'[s].pc = "text" /\ sender'[s].row = n
      /\ sender'[s].attempt = sender[s].attempt
      /\ \A r \in Senders \ {s} : sender'[r] = sender[r]
  <2>1. [sender[s] EXCEPT !.pc = "text", !.row = n] \in Mind
    BY <1>2 DEF Mind, Typing
  <2>2. sender'[s] = [sender[s] EXCEPT !.pc = "text", !.row = n]
    BY <1>2, <1>3
  <2>3. sender'[s].pc = "text" /\ sender'[s].row = n /\ sender'[s].attempt = sender[s].attempt
    BY <1>2, <2>2 DEF Mind
  <2> QED BY <1>2, <1>3, <2>1, <2>3
<1>9. \A r \in Senders \ {s} : sender'[r].pc = "rest"
  BY <1>1, <1>2, <1>8, OthersRest
<1>10. TypesOK'
  BY <1>1, <1>3, <1>7, <1>8 DEF TypesOK
<1>11. LocksOK'
  <2>1. n \in 1..Len(sends')
    BY <1>6, <1>7
  <2>2. active' = [id |-> sender'[s].attempt, running |-> TRUE]
    BY <1>3, <1>8
  <2> QED BY <1>3, <1>4, <1>5, <1>7, <1>8, <1>9, <2>1, <2>2 DEF LocksOK, Typing
<1>12. SameLines /\ 1..Len(sends) \subseteq 1..Len(sends') /\ 1..Len(sends') = 1..Len(sends) \cup {n}
  BY <1>3, <1>6, <1>7, LinesUnchanged
<1>13. RowsOK'
  BY <1>1, <1>3, <1>12 DEF RowsOK, Lines
<1>14. Unseen(n) /\ Unseen(n)'
  <2>1. n \notin 1..Len(sends)
    BY <1>6
  <2> QED BY <1>1, <1>12, <2>1, FreshIsUnseen, SeenStays
<1>15. TruthOK'
  <2>1. ASSUME NEW i \in 1..Len(sends) PROVE RowTrue(i)'
    BY <1>6, <1>7, <1>12, RowStaysTrue DEF SameRow, IndInv, TruthOK
  <2>2. RowTrue(n)'
    <3>1. sends'[n].state = "pending" /\ sends'[n].reason = "none"
      BY <1>5, <1>7
    <3> QED BY <3>1 DEF RowTrue, SendRetrySafe
  <2>3. MindTrue(s)'
    BY <1>8, <1>14 DEF MindTrue
  <2>4. \A r \in Senders \ {s} : MindTrue(r)'
    BY <1>9, RestIsQuiet
  <2> QED BY <1>12, <2>1, <2>2, <2>3, <2>4 DEF TruthOK
<1>16. OnceOK'
  <2>1. \A o \in Operators : Seen(o)' = Seen(o)
    BY <1>7, <1>12, <1>14, SeenStays DEF Seen
  <2>2. \A o \in Operators : Repeats(o)' => Repeats(o)
    BY <1>2, <1>8 DEF Repeats, Looking, Senders
  <2>3. \A o \in Operators : sender'[o].pc \notin {"enter", "finalize"}
    BY <1>8, <1>9 DEF Senders
  <2> QED BY <2>1, <2>2, <2>3 DEF OnceOK, IndInv
<1>17. GlueOK'
  <2>1. ASSUME NEW a \in Attempts PROVE LinesNoticed(a)'
    <3>1. ASSUME NEW l \in Lines(a), NEW k \in 1..Len(l)
          PROVE  SendNeedsAttention(sends[l[k]])' = SendNeedsAttention(sends[l[k]])
      BY <1>1, <1>7 DEF RowsOK, SendNeedsAttention
    <3>2. \A l \in Lines(a) : 1..(Len(l) - 1) \subseteq 1..Len(l)
      BY <1>1, InLines
    <3>3. LinesNoticed(a)
      BY DEF IndInv, GlueOK
    <3>4. \A k \in 1..Len(pane[a].composer) : SendNeedsAttention(sends[pane[a].composer[k]])'
      <4>1. pane[a].composer \in Lines(a)
        BY DEF Lines
      <4>2. ASSUME NEW k \in 1..Len(pane[a].composer)
            PROVE  SendNeedsAttention(sends[pane[a].composer[k]])'
        <5>1. pane[a].composer[k] \in 1..Len(sends)
          BY <1>1, <4>1 DEF RowsOK
        <5>2. sends'[pane'[a].composer[k]] = sends[pane[a].composer[k]]
          BY <1>3, <1>7, <5>1
        <5> QED BY <3>3, <5>2 DEF LinesNoticed, SendNeedsAttention
      <4> QED BY <4>2
    <3>5. \A turn \in pane[a].turns : \A k \in 1..(Len(turn) - 1) :
             SendNeedsAttention(sends[turn[k]])'
      BY <3>1, <3>2, <3>3 DEF LinesNoticed, Lines
    <3> QED BY <1>3, <3>4, <3>5 DEF LinesNoticed
  <2>2. \A r \in Senders \ {s} : MindNoticed(r)'
    BY <1>9, RestIsQuiet
  <2>3. MindNoticed(s)'
    BY <1>8 DEF MindNoticed
  <2> QED BY <2>1, <2>2, <2>3 DEF GlueOK
<1> QED BY <1>10, <1>11, <1>13, <1>15, <1>16, <1>17 DEF IndInv

LEMMA BeginSendKeeps ==
  ASSUME IndInv, NEW s \in Senders, NEW episode \in Nat, BeginSend(s, episode)
  PROVE  IndInv'
<1>1. CASE active = [id |-> sender[s].attempt, running |-> TRUE] /\ Pending(sender[s].attempt) = {}
  BY <1>1, BeginsKeeps
<1>2. CASE ~(active = [id |-> sender[s].attempt, running |-> TRUE] /\ Pending(sender[s].attempt) = {})
  <2>1. sender[s].pc = "begin" /\ Return(s, "precondition")
        /\ UNCHANGED <<active, pane, screen, sends>>
    BY <1>2 DEF BeginSend
  <2>2. SameRows /\ sends' \in Seq(SendRow)
    BY <2>1, RowsUnchanged DEF IndInv, TypesOK
  <2>3. "precondition" \in Answers
    BY DEF Answers
  <2> QED BY <2>1, <2>2, <2>3, EndsQuietly
<1> QED BY <1>1, <1>2

-----------------------------------------------------------------------------
(* The steps at the pane.                                                    *)

LEMMA TypingKnows ==
  ASSUME IndInv, NEW s \in Senders, sender[s].pc \in Typing
  PROVE  /\ sender[s].row \in 1..Len(sends)
         /\ sender[s].attempt \in Attempts /\ active.id = sender[s].attempt
         /\ active = [id |-> sender[s].attempt, running |-> TRUE]
         /\ sends[sender[s].row].state = "pending"
         /\ sends[sender[s].row].attempt = sender[s].attempt
         /\ sends[sender[s].row].origin = s
         /\ pane[sender[s].attempt] \in Pane
<1>1. sender[s].pc # "rest" /\ LocksOK /\ TypesOK
  BY DEF Typing, IndInv
<1>2. sender[s].attempt \in Attempts
  BY <1>1 DEF LocksOK
<1> QED BY <1>1, <1>2 DEF LocksOK, TypesOK

(* A process between its keystrokes: the memory moves, and the pane.         *)
GoesOn(s) ==
    /\ sender[s].pc \in {"text", "enter"}
    /\ sender' \in [Senders -> Mind]
    /\ sender'[s].pc \in {"enter", "finalize"}
    /\ sender'[s].attempt = sender[s].attempt /\ sender'[s].row = sender[s].row
    /\ sender'[s].pc = "finalize" => sender'[s].verdict \in Verdicts
    /\ \A r \in Senders \ {s} : sender'[r] = sender[r]
    /\ UNCHANGED <<active, sends, locks>>

LEMMA GoesOnKeeps ==
  ASSUME IndInv, NEW s \in Senders, GoesOn(s), pane' \in [Attempts -> Pane],
         screen' \in [busy : BOOLEAN, refused : BOOLEAN]
  PROVE  /\ TypesOK' /\ LocksOK'
         /\ \A r \in Senders \ {s} : sender'[r].pc = "rest" /\ MindTrue(r)' /\ MindNoticed(r)'
         /\ Len(sends') = Len(sends)
<1>1. TypesOK /\ LocksOK
  BY DEF IndInv
<1>2. sender[s].pc # "rest" /\ sender[s].pc \in Typing /\ sender'[s].pc \in Typing
  BY DEF GoesOn, Typing
<1>3. \A r \in Senders \ {s} : sender'[r].pc = "rest"
  BY <1>1, <1>2, OthersRest DEF GoesOn
<1>4. TypesOK'
  BY <1>1 DEF TypesOK, GoesOn
<1>5. LocksOK'
  <2>1. sender'[s].pc # "rest" => locks'.send = s /\ sender'[s].attempt \in Attempts
    BY <1>1, <1>2 DEF LocksOK, GoesOn
  <2>2. locks'.task = s /\ active' = [id |-> sender'[s].attempt, running |-> TRUE]
    BY <1>1, <1>2 DEF LocksOK, GoesOn
  <2>3. /\ sender'[s].row \in 1..Len(sends')
        /\ sends'[sender'[s].row].state = "pending"
        /\ sends'[sender'[s].row].attempt = sender'[s].attempt
        /\ sends'[sender'[s].row].origin = s
    BY <1>1, <1>2 DEF LocksOK, GoesOn
  <2>4. sender'[s].pc = "finalize" => sender'[s].verdict \in Verdicts
    BY DEF GoesOn
  <2>5. \A r \in Senders \ {s} : sender'[r].pc \notin {"begin", "finalize"} \cup Typing
    BY <1>3 DEF Typing
  <2> QED BY <1>3, <2>1, <2>2, <2>3, <2>4, <2>5 DEF LocksOK
<1> QED BY <1>3, <1>4, <1>5, RestIsQuiet DEF GoesOn

(* Nothing happens in the pane, and the process knows it or does not.        *)
LEMMA RefusedKeeps ==
  ASSUME IndInv, NEW s \in Senders, GoesOn(s), sender'[s].pc = "finalize",
         UNCHANGED <<pane, screen>>,
         \/ sender'[s].verdict = <<"uncertain", "ambiguous">>
         \/ sender[s].pc = "text" /\ sender'[s].verdict = <<"not-submitted", "text-rejected">>
         \/ sender[s].pc = "enter" /\ sender'[s].verdict = <<"not-submitted", "enter-rejected">>
  PROVE  IndInv'
<1>1. /\ TypesOK' /\ LocksOK'
      /\ \A r \in Senders \ {s} : sender'[r].pc = "rest" /\ MindTrue(r)' /\ MindNoticed(r)'
      /\ Len(sends') = Len(sends)
  BY GoesOnKeeps DEF IndInv, TypesOK
<1>2. TypesOK /\ LocksOK /\ RowsOK /\ SameLines /\ sends' = sends /\ sends \in Seq(SendRow)
      /\ UNCHANGED <<active, pane>>
  BY LinesUnchanged DEF IndInv, TypesOK, GoesOn
<1>3. RowsOK'
  BY <1>2 DEF RowsOK, Lines
<1>4. sender[s].pc \in Typing /\ sender[s].attempt \in Attempts
  BY TypingKnows DEF GoesOn, Typing
<1>5. TruthOK'
  <2>1. ASSUME NEW i \in 1..Len(sends) PROVE RowTrue(i)'
    BY <1>2, RowStaysTrue DEF SameRow, IndInv, TruthOK
  <2>2. MindTrue(s)'
    <3> PICK i \in Nat, a \in Attempts : i = sender[s].row /\ a = sender[s].attempt
      BY <1>4, TypingKnows DEF IndInv
    <3>1. MindTrue(s)
      BY DEF IndInv, TruthOK
    <3>2. Unseen(i)' = Unseen(i) /\ OnLine(i, a)' = OnLine(i, a)
      BY <1>2, SeenStays, LinesStay
    <3>3. sender[s].pc = "text" => Unseen(i)'
      BY <3>1, <3>2 DEF MindTrue
    <3>4. sender[s].pc = "enter" => OnLine(i, a)'
      BY <3>1, <3>2 DEF MindTrue, OnLine, Lines
    <3>5. sender'[s].verdict[1] # "submitted"
      OBVIOUS
    <3>6. /\ sender'[s].verdict[2] = "text-rejected" => sender[s].pc = "text"
          /\ sender'[s].verdict[2] = "enter-rejected" => sender[s].pc = "enter"
      OBVIOUS
    <3>7. sender'[s].row = i /\ sender'[s].attempt = a /\ sender'[s].pc = "finalize"
      BY DEF GoesOn
    <3> QED BY <3>3, <3>4, <3>5, <3>6, <3>7 DEF MindTrue
  <2> QED BY <1>1, <2>1, <2>2 DEF TruthOK
<1>6. OnceOK'
  <2>1. \A o \in Operators : Seen(o)' = Seen(o)
    BY <1>2, SeenStays DEF Seen
  <2>2. \A o \in Operators : Repeats(o)' => Repeats(o)
    BY <1>1 DEF Repeats, GoesOn, Senders, Looking
  <2>3. ASSUME NEW o \in Operators, sender'[o].pc \in {"enter", "finalize"}
        PROVE  Seen(o) \subseteq {sender'[o].row}
    <3>1. o = s
      BY <1>1, <2>3 DEF Senders
    <3>2. CASE sender[s].pc = "text"
      BY <2>3, <3>1, <3>2 DEF IndInv, OnceOK, Repeats
    <3>3. CASE sender[s].pc = "enter"
      BY <2>3, <3>1, <3>3 DEF IndInv, OnceOK, GoesOn
    <3> QED BY <3>2, <3>3 DEF GoesOn
  <2> QED BY <2>1, <2>2, <2>3 DEF OnceOK, IndInv
<1>7. GlueOK'
  <2>1. \A a \in Attempts : LinesNoticed(a)'
    BY <1>2 DEF IndInv, GlueOK, LinesNoticed, SendNeedsAttention
  <2>2. MindNoticed(s)'
    <3>1. sender'[s].verdict[1] # "submitted"
      OBVIOUS
    <3> QED BY <3>1 DEF MindNoticed
  <2> QED BY <1>1, <2>1, <2>2 DEF GlueOK
<1> QED BY <1>1, <1>3, <1>5, <1>6, <1>7 DEF IndInv

LEMMA OneMore == \A n \in Nat : 1..(n + 1) = 1..n \cup {n + 1}
OBVIOUS

(* The text appears on the input line.                                       *)
TypedAt(i, a) ==
    /\ pane' \in [Attempts -> Pane]
    /\ pane'[a].turns = pane[a].turns
    /\ Len(pane'[a].composer) = Len(pane[a].composer) + 1
    /\ \A k \in 1..Len(pane[a].composer) : pane'[a].composer[k] = pane[a].composer[k]
    /\ pane'[a].composer[Len(pane[a].composer) + 1] = i
    /\ \A b \in Attempts \ {a} : pane'[b] = pane[b]
    /\ \A j : Within(j, pane'[a].composer) <=> Within(j, pane[a].composer) \/ j = i

LEMMA TypedDoes ==
  ASSUME IndInv, NEW s \in Senders, sender[s].pc \in Typing,
         NEW i, NEW a \in Attempts, i = sender[s].row, a = sender[s].attempt,
         pane' = Typed(s)
  PROVE  TypedAt(i, a)
<1>1. pane \in [Attempts -> Pane] /\ pane[a] \in Pane /\ i \in Nat
  BY TypingKnows DEF IndInv, TypesOK, Mind
<1> PICK line \in Seq(Nat) : line = pane[a].composer
  BY <1>1 DEF Pane
<1>2. pane' = [pane EXCEPT ![a] = [pane[a] EXCEPT !.composer = Append(line, i)]]
  BY DEF Typed
<1>3. Len(line) \in Nat
  BY LenProperties
<1>0. Append(line, i) \in Seq(Nat)
  BY <1>1
<1>4. PICK longer \in Seq(Nat) : longer = Append(line, i)
  BY <1>0
<1>5. /\ Len(longer) = Len(line) + 1
      /\ \A k \in 1..Len(line) : longer[k] = line[k]
      /\ longer[Len(line) + 1] = i
  BY <1>1, <1>3, <1>4
<1>6. [pane[a] EXCEPT !.composer = longer] \in Pane
  BY <1>1 DEF Pane
<1>7. pane' \in [Attempts -> Pane] /\ \A b \in Attempts \ {a} : pane'[b] = pane[b]
  BY <1>1, <1>2, <1>4, <1>6
<1>8. pane'[a].turns = pane[a].turns /\ pane'[a].composer = longer
  BY <1>1, <1>2, <1>4 DEF Pane
<1>9. ASSUME NEW j PROVE Within(j, longer) <=> Within(j, line) \/ j = i
  <2>1. DOMAIN longer = 1..(Len(line) + 1) /\ DOMAIN line = 1..Len(line)
    BY <1>3, <1>5, LenProperties
  <2>2. 1..(Len(line) + 1) = 1..Len(line) \cup {Len(line) + 1}
    BY <1>3, OneMore
  <2> QED BY <1>5, <2>1, <2>2 DEF Within
<1> QED BY <1>5, <1>7, <1>8, <1>9 DEF TypedAt

LEMMA TypedKeeps ==
  ASSUME IndInv, NEW s \in Senders, GoesOn(s), sender[s].pc = "text", pane' = Typed(s),
         screen' = screen,
         sender'[s].pc = "finalize" => sender'[s].verdict = <<"uncertain", "ambiguous">>
  PROVE  IndInv'
<1>1. sender[s].pc \in Typing
  BY DEF Typing
<1> PICK i \in Nat, a \in Attempts : i = sender[s].row /\ a = sender[s].attempt
  BY <1>1, TypingKnows DEF IndInv, TypesOK, Mind
<1>2. /\ i \in 1..Len(sends) /\ sends[i].state = "pending" /\ sends[i].origin = s
      /\ active.id = a
  BY <1>1, TypingKnows
<1>0. TypedAt(i, a)
  BY <1>1, TypedDoes
<1>3. /\ pane' \in [Attempts -> Pane]
      /\ pane'[a].turns = pane[a].turns
      /\ Len(pane'[a].composer) = Len(pane[a].composer) + 1
      /\ \A k \in 1..Len(pane[a].composer) : pane'[a].composer[k] = pane[a].composer[k]
      /\ pane'[a].composer[Len(pane[a].composer) + 1] = i
      /\ \A b \in Attempts \ {a} : pane'[b] = pane[b]
      /\ \A j : Within(j, pane'[a].composer) <=> Within(j, pane[a].composer) \/ j = i
  BY <1>0 DEF TypedAt
<1>4. /\ TypesOK' /\ LocksOK'
      /\ \A r \in Senders \ {s} : sender'[r].pc = "rest" /\ MindTrue(r)' /\ MindNoticed(r)'
      /\ Len(sends') = Len(sends)
  BY <1>3, GoesOnKeeps DEF IndInv, TypesOK
<1>5. TypesOK /\ RowsOK /\ UNCHANGED <<active, sends>> /\ sends \in Seq(SendRow)
      /\ active.id \in Nat /\ Attempts \subseteq Nat
  BY DEF IndInv, TypesOK, GoesOn, Attempts
<1>6. Len(pane[a].composer) \in Nat
  BY <1>5, InLines DEF Lines
<1>7. 1..(Len(pane[a].composer) + 1) = 1..Len(pane[a].composer) \cup {Len(pane[a].composer) + 1}
  BY <1>6
<1>8. RowsOK'
  <2>1. ASSUME NEW b \in Attempts, b > active'.id
        PROVE  pane'[b].composer = <<>> /\ pane'[b].turns = {}
    <3>1. b # a /\ b > active.id
      BY <1>2, <1>5, <2>1
    <3> QED BY <1>3, <1>5, <3>1 DEF RowsOK
  <2>2. ASSUME NEW b \in Attempts, NEW l \in Lines(b)', NEW k \in 1..Len(l)
        PROVE  l[k] \in 1..Len(sends)
    <3>1. CASE l \in Lines(b)
      BY <1>5, <2>2, <3>1 DEF RowsOK
    <3>2. CASE l \notin Lines(b)
      <4>1. b = a /\ l = pane'[a].composer
        BY <1>3, <2>2, <3>2 DEF Lines
      <4>2. k \in 1..Len(pane[a].composer) \/ k = Len(pane[a].composer) + 1
        BY <1>3, <1>7, <2>2, <4>1
      <4>3. pane[a].composer \in Lines(a)
        BY DEF Lines
      <4>4. \A m \in 1..Len(pane[a].composer) : pane[a].composer[m] \in 1..Len(sends)
        BY <1>5, <4>3 DEF RowsOK
      <4> QED BY <1>2, <1>3, <4>1, <4>2, <4>4
    <3> QED BY <3>1, <3>2
  <2> QED BY <1>4, <2>1, <2>2 DEF RowsOK
<1>9. \A j : \A b \in Attempts : OnLine(j, b)' <=> OnLine(j, b) \/ (j = i /\ b = a)
  <2>1. ASSUME NEW j, NEW b \in Attempts
        PROVE  OnLine(j, b)' <=> (\E l \in pane'[b].turns : Within(j, l)) \/ Within(j, pane'[b].composer)
    BY DEF OnLine, Lines
  <2>2. ASSUME NEW j, NEW b \in Attempts
        PROVE  OnLine(j, b) <=> (\E l \in pane[b].turns : Within(j, l)) \/ Within(j, pane[b].composer)
    BY DEF OnLine, Lines
  <2> QED BY <1>3, <2>1, <2>2
<1>10. \A j : \A b \in Attempts : InTurns(j, b)' <=> InTurns(j, b)
  BY <1>3 DEF InTurns
<1>11. \A j : j # i => (Unseen(j)' <=> Unseen(j))
  BY <1>9 DEF Unseen
<1>12. Unseen(i)
  BY DEF IndInv, TruthOK, MindTrue
<1>13. TruthOK'
  <2>1. ASSUME NEW j \in 1..Len(sends) PROVE RowTrue(j)'
    <3> PICK b \in Attempts : b = sends[j].attempt
      BY <1>5, RowTyped
    <3>1. RowTrue(j)
      BY DEF IndInv, TruthOK
    <3>2. sends' = sends /\ sends'[j].attempt = b
      BY <1>5
    <3>3. (InTurns(j, b) => InTurns(j, b)') /\ (OnLine(j, b) => OnLine(j, b)')
      BY <1>9, <1>10
    <3>4. SendRetrySafe(sends[j])' = SendRetrySafe(sends[j])
      BY <3>2 DEF SendRetrySafe
    <3>5. SendRetrySafe(sends[j]) => j # i
      BY <1>2 DEF SendRetrySafe
    <3> QED BY <1>11, <3>1, <3>2, <3>3, <3>4, <3>5 DEF RowTrue
  <2>2. MindTrue(s)'
    <3>1. sender'[s].row = i /\ sender'[s].attempt = a /\ sender'[s].pc \in {"enter", "finalize"}
      BY DEF GoesOn
    <3>2. CASE sender'[s].pc = "enter"
      BY <1>3, <3>1, <3>2 DEF MindTrue
    <3>3. CASE sender'[s].pc = "finalize"
      <4>1. sender'[s].verdict[1] = "uncertain" /\ sender'[s].verdict[2] = "ambiguous"
        BY <3>3
      <4> QED BY <3>3, <4>1 DEF MindTrue
    <3> QED BY <3>1, <3>2, <3>3
  <2> QED BY <1>4, <2>1, <2>2 DEF TruthOK
<1>14. OnceOK'
  <2>1. \A o \in Operators : o # s => Seen(o)' = Seen(o)
    BY <1>2, <1>5, <1>11 DEF Seen
  <2>2. s \in Operators => Seen(s) = {}
    BY DEF IndInv, OnceOK, Repeats
  <2>3. s \in Operators => Seen(s)' \subseteq {i}
    BY <1>5, <1>11, <2>2 DEF Seen
  <2>4. s \in Operators => ~Repeats(s)'
    BY DEF Repeats, GoesOn, Looking
  <2>5. sender'[s].row = i /\ \A r \in Senders \ {s} : sender'[r] = sender[r]
    BY DEF GoesOn
  <2>6. ASSUME NEW o \in Operators, o # s
        PROVE  /\ Repeats(o)' => Seen(o)' = {}
               /\ \A j, k \in Seen(o)' : j = k
               /\ sender'[o].pc \in {"enter", "finalize"} => Seen(o)' \subseteq {sender'[o].row}
    <3>1. sender'[o] = sender[o] /\ Seen(o)' = Seen(o)
      BY <2>1, <2>5, <2>6 DEF Senders
    <3> QED BY <3>1 DEF IndInv, OnceOK, Repeats
  <2>7. s \in Operators =>
          /\ Repeats(s)' => Seen(s)' = {}
          /\ \A j, k \in Seen(s)' : j = k
          /\ sender'[s].pc \in {"enter", "finalize"} => Seen(s)' \subseteq {sender'[s].row}
    BY <2>3, <2>4, <2>5
  <2> QED BY <2>6, <2>7 DEF OnceOK
<1>15. GlueOK'
  <2>1. ASSUME NEW b \in Attempts PROVE LinesNoticed(b)'
    <3>1. LinesNoticed(b)
      BY DEF IndInv, GlueOK
    <3>2. CASE b # a
      <4>1. pane'[b] = pane[b] /\ sends' = sends
        BY <1>3, <1>5, <3>2
      <4> QED BY <3>1, <4>1 DEF LinesNoticed, SendNeedsAttention
    <3>3. CASE b = a
      <4>1. SendNeedsAttention(sends[i])
        BY <1>2 DEF SendNeedsAttention
      <4>2. ASSUME NEW k \in 1..Len(pane'[a].composer)
            PROVE  SendNeedsAttention(sends[pane'[a].composer[k]])
        <5>1. k \in 1..Len(pane[a].composer) \/ k = Len(pane[a].composer) + 1
          BY <1>3, <1>7
        <5> QED BY <1>3, <3>1, <3>3, <4>1, <5>1 DEF LinesNoticed
      <4>3. pane'[a].turns = pane[a].turns /\ sends' = sends
        BY <1>3, <1>5
      <4>4. \A turn \in pane[a].turns : \A k \in 1..(Len(turn) - 1) :
               SendNeedsAttention(sends[turn[k]])
        BY <3>1, <3>3 DEF LinesNoticed
      <4>5. LinesNoticed(a)'
        BY <4>2, <4>3, <4>4 DEF LinesNoticed
      <4> QED BY <3>3, <4>5
    <3> QED BY <3>2, <3>3
  <2>2. MindNoticed(s)'
    <3>1. sender'[s].row = i /\ sender'[s].attempt = a
      BY DEF GoesOn
    <3>2. ASSUME NEW b \in Attempts PROVE ~InTurns(i, b)' /\ (b # a => ~OnLine(i, b)')
      <4>1. ~OnLine(i, b) /\ (InTurns(i, b) => OnLine(i, b))
        BY <1>12 DEF Unseen, InTurns, OnLine, Lines
      <4> QED BY <1>9, <1>10, <4>1
    <3>3. ASSUME NEW b \in Attempts PROVE EndsWith(i, pane'[b].composer)
      <4>1. \A k \in 1..Len(pane[b].composer) : pane[b].composer[k] # i
        <5>1. pane[b].composer \in Lines(b)
          BY DEF Lines
        <5>2. DOMAIN pane[b].composer = 1..Len(pane[b].composer)
          BY <1>5, <5>1, InLines
        <5> QED BY <1>12, <5>1, <5>2 DEF Unseen, OnLine, Within
      <4>2. CASE b # a
        BY <1>3, <4>1, <4>2 DEF EndsWith
      <4>3. CASE b = a
        BY <1>3, <1>7, <4>1, <4>3 DEF EndsWith
      <4> QED BY <4>2, <4>3
    <3>4. sender'[s].pc = "finalize" => sender'[s].verdict[1] = "uncertain"
      OBVIOUS
    <3> QED BY <3>1, <3>2, <3>3, <3>4 DEF MindNoticed
  <2> QED BY <1>4, <2>1, <2>2 DEF GlueOK
<1> QED BY <1>4, <1>8, <1>13, <1>14, <1>15 DEF IndInv

(* Enter empties the input line into a turn.                                 *)
SubmittedAt(a) ==
    /\ pane' \in [Attempts -> Pane]
    /\ pane'[a].composer = <<>>
    /\ pane'[a].turns = pane[a].turns \cup {pane[a].composer}
    /\ \A b \in Attempts \ {a} : pane'[b] = pane[b]

LEMMA SubmitDoes ==
  ASSUME IndInv, NEW s \in Senders, sender[s].pc \in Typing, NEW a, a = sender[s].attempt,
         Submit(s)
  PROVE  SubmittedAt(a) /\ screen' \in [busy : BOOLEAN, refused : BOOLEAN]
<1>1. pane \in [Attempts -> Pane] /\ a \in Attempts /\ pane[a] \in Pane
  BY TypingKnows DEF IndInv, TypesOK
<1>2. pane' = [pane EXCEPT ![a] = [pane[a] EXCEPT !.turns = pane[a].turns \cup {pane[a].composer},
                                                  !.composer = <<>>]]
  BY DEF Submit
<1> DEFINE next == [pane[a] EXCEPT !.turns = pane[a].turns \cup {pane[a].composer},
                                   !.composer = <<>>]
<1>3. pane[a].composer \in Seq(Nat) /\ pane[a].turns \subseteq Seq(Nat)
  BY <1>1 DEF Pane
<1>4. <<>> \in Seq(Nat)
  BY EmptySeq
<1>5. next.composer = <<>> /\ next.turns = pane[a].turns \cup {pane[a].composer}
  BY <1>1 DEF Pane
<1>6. next \in Pane
  BY <1>1, <1>3, <1>4 DEF Pane
<1> HIDE DEF next
<1>7. pane' = [pane EXCEPT ![a] = next]
  BY <1>2 DEF next
<1>8. SubmittedAt(a)
  BY <1>1, <1>5, <1>6, <1>7 DEF SubmittedAt
<1>9. screen' \in [busy : BOOLEAN, refused : BOOLEAN]
  <2>1. screen \in [busy : BOOLEAN, refused : BOOLEAN]
    BY DEF IndInv, TypesOK
  <2>2. screen' = [busy |-> TRUE, refused |-> FALSE] \/ screen' = [screen EXCEPT !.busy = FALSE]
    BY DEF Submit
  <2>3. [busy |-> TRUE, refused |-> FALSE] \in [busy : BOOLEAN, refused : BOOLEAN]
    OBVIOUS
  <2>4. [screen EXCEPT !.busy = FALSE] \in [busy : BOOLEAN, refused : BOOLEAN]
    BY <2>1
  <2> QED BY <2>2, <2>3, <2>4
<1> QED BY <1>8, <1>9

LEMMA NothingOnEmpty == \A j : ~Within(j, <<>>)
BY DEF Within

LEMMA SubmittedKeeps ==
  ASSUME IndInv, NEW s \in Senders, GoesOn(s), sender[s].pc = "enter", Submit(s),
         sender'[s].pc = "finalize",
         sender'[s].verdict \in {<<"submitted", "accepted">>, <<"uncertain", "ambiguous">>}
  PROVE  IndInv'
<1>1. sender[s].pc \in Typing
  BY DEF Typing
<1> PICK i \in Nat, a \in Attempts : i = sender[s].row /\ a = sender[s].attempt
  BY <1>1, TypingKnows DEF IndInv, TypesOK, Mind
<1>2. /\ i \in 1..Len(sends) /\ sends[i].state = "pending" /\ sends[i].origin = s
      /\ active.id = a
  BY <1>1, TypingKnows
<1>0. SubmittedAt(a) /\ screen' \in [busy : BOOLEAN, refused : BOOLEAN]
  BY <1>1, SubmitDoes
<1>3. /\ pane' \in [Attempts -> Pane]
      /\ pane'[a].composer = <<>>
      /\ pane'[a].turns = pane[a].turns \cup {pane[a].composer}
      /\ \A b \in Attempts \ {a} : pane'[b] = pane[b]
  BY <1>0 DEF SubmittedAt
<1>4. /\ TypesOK' /\ LocksOK'
      /\ \A r \in Senders \ {s} : sender'[r].pc = "rest" /\ MindTrue(r)' /\ MindNoticed(r)'
      /\ Len(sends') = Len(sends)
  BY <1>0, <1>3, GoesOnKeeps
<1>5. TypesOK /\ RowsOK /\ UNCHANGED <<active, sends>> /\ sends \in Seq(SendRow)
      /\ active.id \in Nat /\ Attempts \subseteq Nat
  BY DEF IndInv, TypesOK, GoesOn, Attempts
<1>6. MindTrue(s) /\ MindNoticed(s)
  BY DEF IndInv, TruthOK, GlueOK
<1>7. /\ Within(i, pane[a].composer) /\ EndsWith(i, pane[a].composer)
      /\ \A b \in Attempts : ~InTurns(i, b) /\ (b # a => ~OnLine(i, b))
  BY <1>6 DEF MindTrue, MindNoticed
<1>8. RowsOK'
  <2>1. ASSUME NEW b \in Attempts, b > active'.id
        PROVE  pane'[b].composer = <<>> /\ pane'[b].turns = {}
    <3>1. b # a /\ b > active.id
      BY <1>2, <1>5, <2>1
    <3> QED BY <1>3, <1>5, <3>1 DEF RowsOK
  <2>2. ASSUME NEW b \in Attempts, NEW l \in Lines(b)', NEW k \in 1..Len(l)
        PROVE  l[k] \in 1..Len(sends)
    <3>1. l \in Lines(b) \/ l = <<>>
      BY <1>3, <2>2 DEF Lines
    <3>2. l # <<>>
      BY <2>2
    <3> QED BY <1>5, <2>2, <3>1, <3>2 DEF RowsOK
  <2> QED BY <1>4, <2>1, <2>2 DEF RowsOK
<1>9. \A j : \A b \in Attempts : OnLine(j, b)' <=> OnLine(j, b)
  <2>1. ASSUME NEW j, NEW b \in Attempts
        PROVE  OnLine(j, b)' <=> (\E l \in pane'[b].turns : Within(j, l)) \/ Within(j, pane'[b].composer)
    BY DEF OnLine, Lines
  <2>2. ASSUME NEW j, NEW b \in Attempts
        PROVE  OnLine(j, b) <=> (\E l \in pane[b].turns : Within(j, l)) \/ Within(j, pane[b].composer)
    BY DEF OnLine, Lines
  <2> QED BY <1>3, <2>1, <2>2, NothingOnEmpty
<1>10. \A j : \A b \in Attempts : InTurns(j, b) => InTurns(j, b)'
  BY <1>3 DEF InTurns
<1>11. \A j : Unseen(j)' <=> Unseen(j)
  BY <1>9 DEF Unseen
<1>12. InTurns(i, a)'
  BY <1>3, <1>7 DEF InTurns
<1>13. TruthOK'
  <2>1. ASSUME NEW j \in 1..Len(sends) PROVE RowTrue(j)'
    <3> PICK b \in Attempts : b = sends[j].attempt
      BY <1>5, RowTyped
    <3>1. RowTrue(j)
      BY DEF IndInv, TruthOK
    <3>2. sends' = sends /\ sends'[j].attempt = b
      BY <1>5
    <3>3. (InTurns(j, b) => InTurns(j, b)') /\ (OnLine(j, b) => OnLine(j, b)')
      BY <1>9, <1>10
    <3>4. SendRetrySafe(sends[j])' = SendRetrySafe(sends[j])
      BY <3>2 DEF SendRetrySafe
    <3> QED BY <1>11, <3>1, <3>2, <3>3, <3>4 DEF RowTrue
  <2>2. MindTrue(s)'
    <3>1. sender'[s].row = i /\ sender'[s].attempt = a
      BY DEF GoesOn
    <3>2. sender'[s].verdict[2] \in {"accepted", "ambiguous"}
      OBVIOUS
    <3> QED BY <1>12, <3>1, <3>2 DEF MindTrue
  <2> QED BY <1>4, <2>1, <2>2 DEF TruthOK
<1>14. OnceOK'
  <2>1. \A o \in Operators : Seen(o)' = Seen(o)
    BY <1>5, <1>11 DEF Seen
  <2>2. sender'[s].verdict[2] # "text-rejected"
    OBVIOUS
  <2>3. \A o \in Operators : Repeats(o)' => Repeats(o)
    BY <2>2 DEF Repeats, GoesOn, Senders, Looking
  <2>4. ASSUME NEW o \in Operators, sender'[o].pc \in {"enter", "finalize"}
        PROVE  Seen(o) \subseteq {sender'[o].row}
    <3>1. o = s
      BY <1>4, <2>4 DEF Senders
    <3> QED BY <2>4, <3>1 DEF IndInv, OnceOK, GoesOn
  <2> QED BY <2>1, <2>3, <2>4 DEF OnceOK, IndInv
<1>15. GlueOK'
  <2>1. ASSUME NEW b \in Attempts PROVE LinesNoticed(b)'
    <3>1. LinesNoticed(b)
      BY DEF IndInv, GlueOK
    <3>2. CASE b # a
      <4>1. pane'[b] = pane[b] /\ sends' = sends
        BY <1>3, <1>5, <3>2
      <4> QED BY <3>1, <4>1 DEF LinesNoticed, SendNeedsAttention
    <3>3. CASE b = a
      <4>1. Len(pane[a].composer) \in Nat
        BY <1>5, InLines DEF Lines
      <4>2. \A k \in 1..(Len(pane[a].composer) - 1) : SendNeedsAttention(sends[pane[a].composer[k]])
        BY <3>1, <3>3, <4>1 DEF LinesNoticed
      <4>3. \A turn \in pane'[a].turns : \A k \in 1..(Len(turn) - 1) :
               SendNeedsAttention(sends[turn[k]])
        BY <1>3, <3>1, <3>3, <4>2 DEF LinesNoticed
      <4>4. sends' = sends /\ \A k \in 1..Len(pane'[a].composer) : FALSE
        BY <1>3, <1>5, EmptySeq
      <4>5. LinesNoticed(a)'
        BY <4>3, <4>4 DEF LinesNoticed
      <4> QED BY <3>3, <4>5
    <3> QED BY <3>2, <3>3
  <2>2. MindNoticed(s)'
    <3>1. sender'[s].row = i
      BY DEF GoesOn
    <3>2. ASSUME NEW b \in Attempts PROVE ~Within(i, pane'[b].composer)
      <4>1. CASE b # a
        BY <1>3, <1>7, <4>1 DEF OnLine, Lines
      <4>2. CASE b = a
        BY <1>3, <4>2, NothingOnEmpty
      <4> QED BY <4>1, <4>2
    <3>3. ASSUME NEW b \in Attempts, NEW turn \in pane'[b].turns PROVE EndsWith(i, turn)
      <4>1. CASE turn \in pane[b].turns
        <5>1. ~Within(i, turn) /\ DOMAIN turn = 1..Len(turn)
          BY <1>5, <1>7, <4>1, InLines DEF InTurns, Lines
        <5> QED BY <5>1 DEF Within, EndsWith
      <4>2. CASE turn \notin pane[b].turns
        BY <1>3, <1>7, <3>3, <4>2
      <4> QED BY <4>1, <4>2
    <3> QED BY <3>1, <3>2, <3>3 DEF MindNoticed
  <2> QED BY <1>4, <2>1, <2>2 DEF GlueOK
<1> QED BY <1>4, <1>8, <1>13, <1>14, <1>15 DEF IndInv

LEMMA SendTextKeeps ==
  ASSUME IndInv, NEW s \in Senders, SendText(s)
  PROVE  IndInv'
<1>1. /\ sender[s].pc = "text" /\ sender[s].pc \in Typing /\ TypesOK
      /\ UNCHANGED <<active, screen, sends, locks>>
  BY DEF SendText, Typing, IndInv
<1>2. CASE pane' = Typed(s) /\ Goto(s, "enter")
  <2>1. "enter" \in {"rest", "begin"} \cup Looking \cup Typing
    BY DEF Typing
  <2>2. GoesOn(s) /\ sender'[s].pc = "enter"
    BY <1>1, <1>2, <2>1, GotoDoes DEF GoesOn
  <2> QED BY <1>1, <1>2, <2>2, TypedKeeps
<1>3. CASE Conclude(s, "not-submitted", "text-rejected") /\ UNCHANGED pane
  <2>1. <<"not-submitted", "text-rejected">> \in Verdicts
    BY DEF Verdicts
  <2>2. GoesOn(s) /\ sender'[s].pc = "finalize"
        /\ sender'[s].verdict = <<"not-submitted", "text-rejected">>
    BY <1>1, <1>3, <2>1, ConcludeDoes DEF GoesOn
  <2> QED BY <1>1, <1>3, <2>2, RefusedKeeps
<1>4. CASE Conclude(s, "uncertain", "ambiguous") /\ (UNCHANGED pane \/ pane' = Typed(s))
  <2>1. <<"uncertain", "ambiguous">> \in Verdicts
    BY DEF Verdicts
  <2>2. GoesOn(s) /\ sender'[s].pc = "finalize"
        /\ sender'[s].verdict = <<"uncertain", "ambiguous">>
    BY <1>1, <1>4, <2>1, ConcludeDoes DEF GoesOn
  <2> QED BY <1>1, <1>4, <2>2, RefusedKeeps, TypedKeeps
<1> QED BY <1>2, <1>3, <1>4 DEF SendText

LEMMA SendEnterKeeps ==
  ASSUME IndInv, NEW s \in Senders, SendEnter(s)
  PROVE  IndInv'
<1>1. /\ sender[s].pc = "enter" /\ sender[s].pc \in Typing /\ TypesOK
      /\ UNCHANGED <<active, sends, locks>>
  BY DEF SendEnter, Typing, IndInv
<1>2. CASE Submit(s) /\ Conclude(s, "submitted", "accepted")
  <2>1. <<"submitted", "accepted">> \in Verdicts
    BY DEF Verdicts
  <2>2. GoesOn(s) /\ sender'[s].pc = "finalize"
        /\ sender'[s].verdict = <<"submitted", "accepted">>
    BY <1>1, <1>2, <2>1, ConcludeDoes DEF GoesOn
  <2> QED BY <1>1, <1>2, <2>2, SubmittedKeeps
<1>3. CASE Conclude(s, "not-submitted", "enter-rejected") /\ UNCHANGED <<pane, screen>>
  <2>1. <<"not-submitted", "enter-rejected">> \in Verdicts
    BY DEF Verdicts
  <2>2. GoesOn(s) /\ sender'[s].pc = "finalize"
        /\ sender'[s].verdict = <<"not-submitted", "enter-rejected">>
    BY <1>1, <1>3, <2>1, ConcludeDoes DEF GoesOn
  <2> QED BY <1>1, <1>3, <2>2, RefusedKeeps
<1>4. CASE Conclude(s, "uncertain", "ambiguous") /\ (Submit(s) \/ UNCHANGED <<pane, screen>>)
  <2>1. <<"uncertain", "ambiguous">> \in Verdicts
    BY DEF Verdicts
  <2>2. GoesOn(s) /\ sender'[s].pc = "finalize"
        /\ sender'[s].verdict = <<"uncertain", "ambiguous">>
    BY <1>1, <1>4, <2>1, ConcludeDoes DEF GoesOn
  <2> QED BY <1>1, <1>4, <2>2, RefusedKeeps, SubmittedKeeps
<1> QED BY <1>2, <1>3, <1>4 DEF SendEnter

(* The verdict is written, by the process that typed.                        *)
LEMMA LearntAnswers ==
  ASSUME NEW verdict \in Verdicts
  PROVE  /\ Learnt(verdict) \in Answers
         /\ verdict[2] = "text-rejected" \/ Learnt(verdict) \in {"done", "unresolved"}
         /\ verdict[1] \in Finals /\ verdict[2] \in Reasons
BY DEF Verdicts, Learnt, Answers, Finals, Reasons

LEMMA WritesKeeps ==
  ASSUME IndInv, NEW s \in Senders, FinalizeSend(s),
         sends' = [sends EXCEPT ![sender[s].row].state = sender[s].verdict[1],
                                ![sender[s].row].reason = sender[s].verdict[2]],
         Return(s, Learnt(sender[s].verdict))
  PROVE  IndInv'
<1>0. TypesOK /\ LocksOK /\ RowsOK /\ sender[s].pc = "finalize" /\ sender[s].pc \in Typing
      /\ UNCHANGED <<active, pane, screen>>
  BY DEF IndInv, FinalizeSend, Typing
<1> PICK i \in Nat, a \in Attempts : i = sender[s].row /\ a = sender[s].attempt
  BY <1>0, TypingKnows DEF TypesOK, Mind
<1>1. i \in 1..Len(sends) /\ sends[i].origin = s /\ sends[i].attempt = a
  BY <1>0, TypingKnows
<1> PICK v \in Verdicts : v = sender[s].verdict
  BY <1>0 DEF LocksOK
<1>2. /\ Learnt(v) \in Answers
      /\ v[2] = "text-rejected" \/ Learnt(v) \in {"done", "unresolved"}
      /\ v[1] \in Finals /\ v[2] \in Reasons
  BY LearntAnswers
<1>3. sends \in Seq(SendRow) /\ sends[i] \in SendRow
  BY <1>0, <1>1, RowTyped DEF TypesOK
<1> PICK row \in SendRow : row = [sends[i] EXCEPT !.state = v[1], !.reason = v[2]]
  BY <1>2, <1>3 DEF SendRow
<1>4. /\ row.attempt = a /\ row.origin = s /\ row.state = v[1] /\ row.reason = v[2]
  BY <1>1, <1>3 DEF SendRow
<1>5. sends' = [sends EXCEPT ![i] = row]
  OBVIOUS
<1>6. /\ sends' \in Seq(SendRow) /\ Len(sends') = Len(sends) /\ sends'[i] = row
      /\ \A j \in 1..Len(sends) : j # i => sends'[j] = sends[j]
  <2>1. \A x \in SendRow : /\ [sends EXCEPT ![i] = x] \in Seq(SendRow)
                           /\ Len([sends EXCEPT ![i] = x]) = Len(sends)
    BY <1>1, <1>3, ExceptSeq
  <2>2. sends \in [1..Len(sends) -> SendRow]
    BY <1>3, LenProperties
  <2>3. sends'[i] = row /\ \A j \in 1..Len(sends) : j # i => sends'[j] = sends[j]
    BY <1>1, <1>5, <2>2
  <2> QED BY <1>5, <2>1, <2>3
<1>7. Return(s, Learnt(v))
  OBVIOUS
<1>8. /\ \A r \in Senders : sender'[r].pc = "rest"
      /\ LocksOK'
      /\ sender' \in [Senders -> Mind]
      /\ locks' \in [send : Senders \cup {Nobody}, task : Senders \cup {Command, Nobody}]
      /\ s \in Operators /\ Learnt(v) \in {"done", "unresolved"} => sender'[s].learnt = Learnt(v)
      /\ \A r \in Senders \ {s} : sender'[r] = sender[r]
  BY <1>0, <1>2, <1>7, ReturnDoes, ReturnRests
<1>9. TypesOK'
  BY <1>0, <1>6, <1>8 DEF TypesOK
<1>10. RowsOK' /\ SameLines
  BY <1>0, <1>6, LinesUnchanged DEF RowsOK, Lines
<1>11. \A r \in Senders : MindTrue(r)' /\ MindNoticed(r)'
  BY <1>8, RestIsQuiet
<1>12. MindTrue(s) /\ MindNoticed(s)
  BY DEF IndInv, TruthOK, GlueOK
<1>13. TruthOK'
  <2>1. ASSUME NEW j \in 1..Len(sends), j # i PROVE RowTrue(j)'
    BY <1>3, <1>6, <1>10, <2>1, RowStaysTrue DEF SameRow, IndInv, TruthOK
  <2>2. /\ v[1] = "submitted" => InTurns(i, a)
        /\ v[2] = "text-rejected" => Unseen(i)
        /\ v[2] = "enter-rejected" => OnLine(i, a)
    BY <1>0, <1>12 DEF MindTrue
  <2>3. InTurns(i, a)' = InTurns(i, a) /\ OnLine(i, a)' = OnLine(i, a) /\ Unseen(i)' = Unseen(i)
    BY <1>10, LinesStay, SeenStays
  <2>4. RowTrue(i)'
    <3>1. /\ sends'[i].attempt = a /\ sends'[i].state = v[1] /\ sends'[i].reason = v[2]
      BY <1>4, <1>6
    <3> QED BY <2>2, <2>3, <3>1 DEF RowTrue, SendRetrySafe
  <2> QED BY <1>6, <1>11, <2>1, <2>4 DEF TruthOK
<1>14. OnceOK'
  <2>1. \A j \in 1..Len(sends) : sends'[j].origin = sends[j].origin
    BY <1>1, <1>4, <1>6
  <2>2. \A o \in Operators : Seen(o)' = Seen(o)
    BY <1>6, <1>10, <2>1, SeenStays DEF Seen
  <2>3. ASSUME NEW o \in Operators, Repeats(o)' PROVE Repeats(o)
    <3>1. CASE o # s
      BY <1>8, <2>3, <3>1 DEF Repeats, Senders
    <3>2. CASE o = s
      BY <1>0, <1>2, <1>8, <2>3, <3>2 DEF Repeats, Looking
    <3> QED BY <3>1, <3>2
  <2>4. \A o \in Operators : sender'[o].pc \notin {"enter", "finalize"}
    BY <1>8 DEF Senders
  <2> QED BY <2>2, <2>3, <2>4 DEF OnceOK, IndInv
<1>15. GlueOK'
  <2>1. \A j \in 1..Len(sends) : j # i => sends'[j] = sends[j]
    BY <1>6
  <2>2. v \in {<<"not-submitted", "enter-rejected">>, <<"uncertain", "ambiguous">>} =>
           SendNeedsAttention(sends'[i])
    BY <1>4, <1>6 DEF SendNeedsAttention
  <2>3. ASSUME NEW b \in Attempts PROVE LinesNoticed(b)'
    <3>1. LinesNoticed(b)
      BY DEF IndInv, GlueOK
    <3>2. /\ pane[b].composer \in Lines(b) /\ pane[b].turns \subseteq Lines(b)
      BY DEF Lines
    <3>3. \A l \in Lines(b) : /\ DOMAIN l = 1..Len(l) /\ Len(l) \in Nat
                              /\ \A k \in 1..Len(l) : l[k] \in 1..Len(sends)
      BY <1>0, InLines DEF RowsOK
    <3>4. v[2] = "text-rejected" => \A l \in Lines(b) : ~Within(i, l)
      BY <1>0, <1>12 DEF MindTrue, Unseen, OnLine
    <3>5. v[1] = "submitted" => /\ ~Within(i, pane[b].composer)
                                /\ \A turn \in pane[b].turns : EndsWith(i, turn)
      BY <1>0, <1>12 DEF MindNoticed
    <3>6. v[1] = "submitted" \/ v[2] = "text-rejected" \/ SendNeedsAttention(sends'[i])
      BY <2>2 DEF Verdicts
    <3>7. ASSUME NEW k \in 1..Len(pane[b].composer)
          PROVE  SendNeedsAttention(sends'[pane[b].composer[k]])
      <4>1. CASE pane[b].composer[k] # i
        BY <2>1, <3>1, <3>2, <3>3, <4>1 DEF LinesNoticed
      <4>2. CASE pane[b].composer[k] = i
        <5>1. Within(i, pane[b].composer)
          BY <3>2, <3>3, <4>2 DEF Within
        <5> QED BY <3>2, <3>4, <3>5, <3>6, <4>2, <5>1
      <4> QED BY <4>1, <4>2
    <3>8. ASSUME NEW turn \in pane[b].turns, NEW k \in 1..(Len(turn) - 1)
          PROVE  SendNeedsAttention(sends'[turn[k]])
      <4>0. k \in 1..Len(turn) /\ k # Len(turn)
        BY <3>2, <3>3
      <4>1. CASE turn[k] # i
        BY <2>1, <3>1, <3>2, <3>3, <4>0, <4>1 DEF LinesNoticed
      <4>2. CASE turn[k] = i
        <5>1. Within(i, turn) /\ ~EndsWith(i, turn)
          BY <3>2, <3>3, <4>0, <4>2 DEF Within, EndsWith
        <5> QED BY <3>2, <3>4, <3>5, <3>6, <4>2, <5>1
      <4> QED BY <4>1, <4>2
    <3> QED BY <1>0, <3>7, <3>8 DEF LinesNoticed
  <2> QED BY <1>11, <2>3 DEF GlueOK
<1> QED BY <1>8, <1>9, <1>10, <1>13, <1>14, <1>15 DEF IndInv

LEMMA FinalizeSendKeeps ==
  ASSUME IndInv, NEW s \in Senders, FinalizeSend(s)
  PROVE  IndInv'
<1>1. sender[s].pc = "finalize" /\ sender[s].pc \in Typing /\ sender[s].pc # "rest"
  BY DEF FinalizeSend, Typing
<1>2. sends[sender[s].row].state = "pending"
  BY <1>1, TypingKnows
<1>3. CASE /\ sends' = [sends EXCEPT ![sender[s].row].state = sender[s].verdict[1],
                                     ![sender[s].row].reason = sender[s].verdict[2]]
           /\ Return(s, Learnt(sender[s].verdict))
  BY <1>3, WritesKeeps
<1>4. CASE UNCHANGED sends /\ Return(s, "unresolved")
  <2>1. SameRows /\ sends' \in Seq(SendRow)
    BY <1>4, RowsUnchanged DEF IndInv, TypesOK
  <2>2. "unresolved" \in Answers /\ UNCHANGED <<active, pane, screen>>
    BY DEF Answers, FinalizeSend
  <2> QED BY <1>1, <1>4, <2>1, <2>2, EndsQuietly
<1> QED BY <1>2, <1>3, <1>4 DEF FinalizeSend

-----------------------------------------------------------------------------
(* From the first state on.                                                  *)

LEMMA InitHolds ==
  ASSUME SteeringInit, SteeringAssumption
  PROVE  IndInv
<1>1. <<>> \in Seq(Nat) /\ <<>> \in Seq(SendRow) /\ Len(sends) = 0
  BY EmptySeq DEF SteeringInit
<1>2. NoPane \in Pane /\ NoPane.composer = <<>> /\ NoPane.turns = {}
  BY <1>1 DEF NoPane, Pane
<1>3. NewPane \in Pane /\ NewPane.composer = <<>> /\ NewPane.turns = {}
  <2>1. NewPane = [NoPane EXCEPT !.open = TRUE]
    BY DEF NewPane
  <2> QED BY <1>2, <2>1 DEF Pane
<1>4. 1 \in Attempts /\ Attempts \subseteq Nat
  BY DEF Attempts, SteeringAssumption
<1>5. /\ pane \in [Attempts -> Pane]
      /\ \A a \in Attempts : pane[a].composer = <<>> /\ pane[a].turns = {}
  BY <1>2, <1>3 DEF SteeringInit
<1>6. /\ sender \in [Senders -> Mind]
      /\ \A s \in Senders : sender[s].pc = "rest"
  <2>1. Resting("nothing") \in Mind /\ Resting("nothing").pc = "rest"
    BY RestingTyped DEF Answers
  <2> QED BY <2>1 DEF SteeringInit
<1>7. active \in [id : Attempts, running : BOOLEAN]
  BY <1>4 DEF SteeringInit
<1>8. screen \in [busy : BOOLEAN, refused : BOOLEAN]
  BY DEF SteeringInit, NewScreen
<1>9. TypesOK
  BY <1>1, <1>5, <1>6, <1>7, <1>8 DEF TypesOK, SteeringInit
<1>10. LocksOK
  BY <1>6 DEF LocksOK, Typing
<1>11. \A a \in Attempts : Lines(a) = {<<>>}
  BY <1>5 DEF Lines
<1>12. 1..Len(sends) = {} /\ \A k \in 1..Len(<<>>) : FALSE
  BY <1>1, EmptySeq
<1>13. RowsOK
  BY <1>5, <1>11, <1>12 DEF RowsOK
<1>14. TruthOK
  BY <1>6, <1>12 DEF TruthOK, MindTrue
<1>15. OnceOK
  BY <1>6, <1>12 DEF OnceOK, Seen, Senders
<1>16. GlueOK
  <2>1. ASSUME NEW a \in Attempts PROVE LinesNoticed(a)
    BY <1>5, <1>12 DEF LinesNoticed
  <2> QED BY <1>6, <2>1 DEF GlueOK, MindNoticed
<1> QED BY <1>9, <1>10, <1>13, <1>14, <1>15, <1>16 DEF IndInv

LEMMA SendsKeep ==
  ASSUME IndInv, SteeringAssumption, NEW s \in Senders, NEW episode \in Nat, Sends(s, episode)
  PROVE  IndInv'
BY StartSendKeeps, WaitComposerKeeps, LockBusyKeeps, RecoverPendingKeeps,
   VerifyLockedKeeps, BeginSendKeeps, SendTextKeeps, SendEnterKeeps, FinalizeSendKeeps,
   SenderDiesKeeps DEF Sends, SendStep

LEMMA CommandStepKeeps ==
  ASSUME IndInv, SteeringAssumption, CommandStep
  PROVE  IndInv'
BY CommandTakesKeeps, CommandLeavesKeeps, NormalizePendingSendsKeeps, EndAttemptKeeps,
   LaunchAttemptKeeps DEF CommandStep

LEMMA StutterKeeps ==
  ASSUME IndInv, UNCHANGED steering
  PROVE  IndInv'
<1>1. TypesOK' /\ SameLines /\ SameRows /\ active'.id >= active.id
  BY LinesUnchanged, RowsUnchanged DEF steering, IndInv, TypesOK, Attempts
<1> QED BY <1>1, QuietRest DEF steering

LEMMA StepKeepsInv ==
  ASSUME IndInv, SteeringAssumption, [SteeringNext]_steering
  PROVE  IndInv'
BY SendsKeep, CommandStepKeeps, WorkerStepKeeps, StutterKeeps DEF SteeringNext

(* Every state of every instance: the inductive invariant of steering.       *)
THEOREM IndInvAlways == SteeringSpec => []IndInv
<1>1. SteeringInit => IndInv
  BY InitHolds, SteeringAssumption
<1>2. IndInv /\ [SteeringNext]_steering => IndInv'
  BY StepKeepsInv, SteeringAssumption
<1> QED BY <1>1, <1>2, PTL DEF SteeringSpec

LEMMA LinesHoldRows ==
  ASSUME IndInv, NEW a \in Attempts, NEW l \in Lines(a)
  PROVE  l \in Seq(DOMAIN sends)
<1>1. DOMAIN sends = 1..Len(sends)
  BY LenProperties DEF IndInv, TypesOK
<1>2. l \in Seq(Nat) /\ DOMAIN l = 1..Len(l) /\ Len(l) \in Nat
  BY InLines DEF IndInv
<1>3. \A k \in 1..Len(l) : l[k] \in DOMAIN sends
  BY <1>1 DEF IndInv, RowsOK
<1>4. l \in [1..Len(l) -> Nat]
  BY <1>2, LenProperties
<1>5. [k \in 1..Len(l) |-> l[k]] \in Seq(DOMAIN sends)
  BY <1>2, <1>3, IsASeq
<1>6. l = [k \in 1..Len(l) |-> l[k]]
  BY <1>4
<1> QED BY <1>5, <1>6

LEMMA SteeringTyped ==
  ASSUME IndInv
  PROVE  SteeringTypeOK
<1>1. \A a \in Attempts : pane[a] \in Pane
  BY DEF IndInv, TypesOK
<1>2. \A a \in Attempts : pane[a].open \in BOOLEAN
  BY <1>1 DEF Pane
<1>3. \A a \in Attempts : \A turn \in pane[a].turns \union {pane[a].composer} :
         turn \in Seq(DOMAIN sends)
  BY LinesHoldRows DEF Lines
<1>4. sends \in Seq([attempt : Attempts, origin : Senders, episode : Nat,
                     state : Finals \union {"pending"}, reason : Reasons])
  BY DEF IndInv, TypesOK, SendRow
<1> QED BY <1>2, <1>3, <1>4 DEF IndInv, TypesOK, SteeringTypeOK

(* What a row of send_attempt says of a send is true of the pane, from the   *)
(* verdict on, and it is the typing process that says it: finalize and the   *)
(* recovery of stale sends, for any number of operators and attempts.        *)
THEOREM SteeringInvAlways == SteeringSpec => []SteeringInv
<1>1. IndInv => SteeringInv
  <2> SUFFICES ASSUME IndInv PROVE SteeringInv
    OBVIOUS
  <2>1. DOMAIN sends = 1..Len(sends)
    BY LenProperties DEF IndInv, TypesOK
  <2>2. SteeringTypeOK
    BY SteeringTyped
  <2>3. VerdictIsOwn
    BY DEF VerdictIsOwn, IndInv, LocksOK, Typing
  <2>4. VerdictIsTrue
    <3>1. \A i \in DOMAIN sends : RowTrue(i)
      BY <2>1 DEF IndInv, TruthOK
    <3> QED BY <3>1 DEF VerdictIsTrue, RowTrue, InTurns, OnLine, Unseen
  <2> QED BY <2>2, <2>3, <2>4 DEF SteeringInv
<1> QED BY <1>1, IndInvAlways, PTL

(* Whatever stands in front of a message in a turn needs attention, so that  *)
(* hand status shows it (SendNeedsAttention).                                *)
THEOREM GluedTextAlways == SteeringSpec => []GluedTextIsReported
<1>1. IndInv => GluedTextIsReported
  BY DEF IndInv, GlueOK, LinesNoticed, GluedTextIsReported
<1> QED BY <1>1, IndInvAlways, PTL

(* An operator who repeats a message only when told that nothing was typed   *)
(* (Error.RetrySafe) has it typed once at most.                              *)
THEOREM MessageOnceAlways == SteeringSpec => []MessageOnce
<1>1. IndInv => MessageOnce
  <2> SUFFICES ASSUME IndInv, NEW o \in Operators
               PROVE  Cardinality({i \in {j \in DOMAIN sends : sends[j].origin = o} :
                         \E a \in Attempts : \E l \in Lines(a) : Within(i, l)}) <= 1
    BY DEF MessageOnce
  <2> DEFINE typed == {i \in {j \in DOMAIN sends : sends[j].origin = o} :
                          \E a \in Attempts : \E l \in Lines(a) : Within(i, l)}
  <2>1. DOMAIN sends = 1..Len(sends)
    BY LenProperties DEF IndInv, TypesOK
  <2>2. typed = Seen(o)
    BY <2>1 DEF Seen, Unseen, OnLine
  <2>3. \A i, j \in typed : i = j
    BY <2>2 DEF IndInv, OnceOK
  <2> HIDE DEF typed
  <2>4. typed = {} \/ \E i \in typed : typed = {i}
    BY <2>3
  <2>5. Cardinality(typed) <= 1
    <3>1. Cardinality({}) = 0
      BY FS_EmptySet
    <3>2. \A i : Cardinality({i}) = 1
      BY FS_Singleton
    <3>3. Cardinality(typed) = 0 \/ Cardinality(typed) = 1
      BY <2>4, <3>1, <3>2, Zenon
    <3> QED BY <3>3
  <2> QED BY <2>5 DEF typed
<1> QED BY <1>1, IndInvAlways, PTL

LEMMA TypesToOwner ==
  ASSUME IndInv, SteeringAssumption, [SteeringNext]_steering, NEW a \in Attempts,
         Len(pane'[a].composer) > Len(pane[a].composer)
  PROVE  active = [id |-> a, running |-> TRUE]
<1>1. Len(pane[a].composer) \in Nat /\ TypesOK
  BY InLines DEF IndInv, Lines
<1>2. pane'[a].composer # pane[a].composer
  BY <1>1
<1>3. \/ \E s \in Senders : SendText(s) \/ SendEnter(s)
      \/ EndAttempt \/ LaunchAttempt \/ WorkerLeaves
  BY <1>2 DEF SteeringNext, steering, Sends, SendStep, StartSend, WaitComposer, LockBusy,
     RecoverPending, VerifyLocked, BeginSend, FinalizeSend, SenderDies, CommandStep,
     CommandTakes, CommandLeaves, NormalizePendingSends, WorkerStep, WorkerStops
<1>4. ASSUME NEW s \in Senders, SendText(s) PROVE active = [id |-> a, running |-> TRUE]
  <2>1. pane' = Typed(s) /\ sender[s].pc \in Typing
    BY <1>2, <1>4 DEF SendText, Typing
  <2> PICK b \in Attempts : b = sender[s].attempt
    BY <2>1, TypingKnows
  <2>2. TypedAt(sender[s].row, b)
    BY <2>1, TypedDoes
  <2>3. a = b
    BY <1>2, <2>2 DEF TypedAt
  <2> QED BY <2>1, <2>3, TypingKnows
<1>5. ASSUME NEW s \in Senders, SendEnter(s) PROVE FALSE
  <2>1. Submit(s) /\ sender[s].pc \in Typing
    BY <1>2, <1>5 DEF SendEnter, Typing
  <2> PICK b \in Attempts : b = sender[s].attempt
    BY <2>1, TypingKnows
  <2>2. SubmittedAt(b)
    BY <2>1, SubmitDoes
  <2>3. pane'[a].composer = <<>>
    BY <1>2, <2>2 DEF SubmittedAt
  <2> QED BY <1>1, <2>3, EmptySeq
<1>6. active.id \in Attempts
  BY <1>1 DEF TypesOK
<1>7. ASSUME EndAttempt \/ WorkerLeaves PROVE FALSE
  <2>1. SameLines
    BY <1>1, <1>6, <1>7, ClosingStays DEF EndAttempt, WorkerLeaves
  <2> QED BY <1>2, <2>1 DEF SameLines
<1>8. ASSUME LaunchAttempt PROVE FALSE
  <2>1. NewPane.composer = <<>>
    BY DEF NewPane, NoPane
  <2>2. pane' = [pane EXCEPT ![active.id + 1] = NewPane] /\ pane \in [Attempts -> Pane]
    BY <1>1, <1>8 DEF LaunchAttempt, TypesOK
  <2>3. pane'[a].composer = <<>>
    BY <1>2, <2>1, <2>2
  <2> QED BY <1>1, <2>3, EmptySeq
<1> QED BY <1>3, <1>4, <1>5, <1>7, <1>8

(* Text is typed into the pane of the running owner only: what the second    *)
(* look under the task's lock is for (Send, verifyAttempt).                  *)
THEOREM TypedToOwnerAlways == SteeringSpec => TypedToOwner
<1> DEFINE ToOwner == \A a \in Attempts :
                         Len(pane'[a].composer) > Len(pane[a].composer) =>
                            active = [id |-> a, running |-> TRUE]
<1>1. IndInv /\ [SteeringNext]_steering => [ToOwner]_steering
  BY TypesToOwner, SteeringAssumption
<1> QED BY <1>1, IndInvAlways, PTL DEF SteeringSpec, TypedToOwner

-----------------------------------------------------------------------------
(* HandLimits.                                                               *)
LimitRow ==
    [retry : BOOLEAN, tried : BOOLEAN, episode : 0..MaxEpisodes,
     status : {"none", "unknown", "working", "idle"}]

Sight == [status : {"unknown", "working", "idle", "unreachable"}, episode : 0..MaxEpisodes]

Watching ==
    [pc : {"rest", "look", "steer", "sync", "record"}, attempt : {0} \cup Attempts,
     status : {"unknown", "working", "idle"}, retry : BOOLEAN, tried : BOOLEAN,
     blocked : BOOLEAN, episode : 0..MaxEpisodes, probed : BOOLEAN,
     saved : LimitRow, seen : Sight]

LimitTypesOK ==
    /\ limit \in LimitRow
    /\ hold \in {"none", "limit", "operator"}
    /\ watch \in Watching

(* The watcher types in one step of its tick only, for the attempt it reads, *)
(* with a schedule it knows to be recorded.                                  *)
TickOK ==
    /\ watch.pc # "steer" => sender[Watcher].pc = "rest"
    /\ watch.pc = "steer" =>
         /\ watch.retry /\ ~watch.blocked
         /\ watch.attempt \in Attempts
         /\ watch.saved.episode = watch.episode
         /\ sender[Watcher].pc # "rest" => sender[Watcher].attempt = watch.attempt
    /\ watch.pc = "record" =>
         locks.task = Watcher /\ active = [id |-> watch.attempt, running |-> TRUE]

Resumes(a) == {i \in 1..Len(sends) : sends[i].attempt = a /\ sends[i].origin = Watcher}

(* A resume of an earlier episode, or one that is known to have typed        *)
(* nothing: another one for episode e may follow.                            *)
Spent(i, e) ==
    /\ sends[i].episode <= e
    /\ ~SendRetrySafe(sends[i]) => sends[i].episode < e

(* No resume follows one of its episode that may have arrived.               *)
ResumesOK ==
    \A a \in Attempts : \A i, j \in Resumes(a) : i < j => Spent(i, sends[j].episode)

(* The row of the newest attempt knows of every resume sent to it.           *)
RecordedOK ==
    /\ \A i \in 1..Len(sends) : sends[i].attempt <= active.id
    /\ \A i \in Resumes(active.id) : sends[i].episode <= limit.episode
    /\ watch.attempt <= active.id
    /\ watch.attempt = active.id => watch.saved.episode <= limit.episode

(* The row the watcher writes right now, and the sends whose outcome it has  *)
(* not read yet.                                                             *)
Writing == IF sender[Watcher].pc \in Typing THEN {sender[Watcher].row} ELSE {}

Unread ==
    /\ watch.pc = "steer" /\ sender[Watcher].pc = "rest"
    /\ sender[Watcher].learnt \notin {"precondition", "retry"}

(* A watcher with a schedule and nothing to wait for may send.               *)
ScheduleOK ==
    /\ \A i \in Resumes(watch.attempt) : sends[i].episode <= watch.episode
    /\ watch.retry /\ ~watch.blocked /\ ~Unread =>
         \A i \in Resumes(watch.attempt) \ Writing : Spent(i, watch.episode)

LimitsIndInv == IndInv /\ LimitTypesOK /\ TickOK /\ ResumesOK /\ RecordedOK /\ ScheduleOK

-----------------------------------------------------------------------------
(* The steering of a limited worker is steering.                             *)

LEMMA LimitsAreNumbers ==
  ASSUME LimitsAssumption
  PROVE  0 \in 0..MaxEpisodes /\ 0..MaxEpisodes \subseteq Nat
BY DEF LimitsAssumption

LEMMA RecoveredKeeps ==
  ASSUME IndInv, SteeringAssumption, NEW a, sends' = sends \/ sends' = ResumeRecovered(a),
         UNCHANGED <<active, pane, screen, locks, sender>>
  PROVE  IndInv' /\ SameRows
<1>1. TypesOK /\ LocksOK
  BY DEF IndInv
<1>2. CASE sends' = sends
  BY <1>2, StutterKeeps, RowsUnchanged DEF steering
<1>3. CASE sends' # sends
  <2> DEFINE stale == {i \in Pending(a) : sends[i].origin = Watcher}
  <2>1. locks.send = Nobody /\ sends' = Normalized(stale)
    BY <1>3 DEF ResumeRecovered
  <2>2. \A i \in stale : sends[i].state = "pending"
    BY DEF Pending
  <2> HIDE DEF stale
  <2>3. SameRows /\ sends' \in Seq(SendRow)
    BY <1>1, <2>1, <2>2, NormalizedDoes
  <2>4. \A r \in Senders : sender[r].pc = "rest"
    BY <1>1, <2>1 DEF LocksOK, SteeringAssumption
  <2>5. TypesOK'
    BY <1>1, <2>3 DEF TypesOK
  <2>6. SameLines /\ active'.id >= active.id
    BY <1>1, LinesUnchanged DEF TypesOK, Attempts
  <2>7. \A r \in Senders : sender[r].pc \notin {"begin"} \cup Typing
    BY <2>4 DEF Typing
  <2> QED BY <2>3, <2>5, <2>6, <2>7, QuietRest
<1> QED BY <1>2, <1>3

LEMMA TaskLockKeeps ==
  ASSUME IndInv, UNCHANGED <<active, pane, screen, sends, sender>>,
         NEW holder \in Senders \cup {Command, Nobody}, locks' = [locks EXCEPT !.task = holder],
         \A r \in Senders : sender[r].pc \notin {"begin"} \cup Typing
  PROVE  IndInv'
<1>1. TypesOK /\ LocksOK
  BY DEF IndInv
<1>2. TypesOK' /\ locks'.send = locks.send
  BY <1>1 DEF TypesOK
<1>3. SameLines /\ SameRows /\ active'.id >= active.id
  BY <1>1, LinesUnchanged, RowsUnchanged DEF TypesOK, Attempts
<1> QED BY <1>2, <1>3, QuietRest

(* The watcher stops steering, wherever it is.                               *)
LEMMA WatcherReturns ==
  ASSUME IndInv, SteeringAssumption, Return(Watcher, "nothing"),
         UNCHANGED <<active, pane, screen, sends>>
  PROVE  IndInv'
<1>1. TypesOK /\ LocksOK /\ Watcher \in Senders /\ "nothing" \in Answers
  BY DEF IndInv, Senders, Answers
<1>2. /\ sender' \in [Senders -> Mind]
      /\ locks' \in [send : Senders \cup {Nobody}, task : Senders \cup {Command, Nobody}]
      /\ sender'[Watcher].pc = "rest"
      /\ \A r \in Senders \ {Watcher} : sender'[r] = sender[r]
  BY <1>1, ReturnDoes
<1>3. TypesOK'
  BY <1>1, <1>2 DEF TypesOK
<1>4. /\ locks.send # Watcher => locks'.send = locks.send
      /\ locks.task # Watcher => locks'.task = locks.task
  BY DEF Return, Free
<1>5. LocksOK'
  BY <1>1, <1>2, <1>4 DEF LocksOK, Typing
<1>6. SameMinds /\ SameLines /\ SameRows
  BY <1>2, LinesUnchanged, RowsUnchanged DEF SameMinds, Typing
<1>7. NoNewRepeats
  BY <1>2 DEF NoNewRepeats, Repeats, Senders, SteeringAssumption
<1>8. active'.id >= active.id
  BY <1>1 DEF TypesOK, Attempts
<1> QED BY <1>3, <1>5, <1>6, <1>7, <1>8, QuietKeeps DEF Quiet

(* What one process does leaves the others and the attempt alone.            *)
LEMMA OthersStay ==
  ASSUME TypesOK, NEW s \in Senders, NEW episode, Sends(s, episode)
  PROVE  /\ \A r \in Senders \ {s} : sender'[r] = sender[r]
         /\ active' = active
<1>1. sender \in [Senders -> Mind]
  BY DEF TypesOK
<1>2. \E next : sender' = [sender EXCEPT ![s] = next]
  BY DEF Sends, SendStep, StartSend, WaitComposer, LockBusy, RecoverPending, VerifyLocked,
     BeginSend, SendText, SendEnter, FinalizeSend, SenderDies, Return, Goto, Conclude
<1>3. active' = active
  BY DEF Sends, SendStep, StartSend, WaitComposer, LockBusy, RecoverPending, VerifyLocked,
     BeginSend, SendText, SendEnter, FinalizeSend, SenderDies
<1> QED BY <1>1, <1>2, <1>3

(* A task's lock that somebody else holds stays with its holder.             *)
LEMMA HolderStays ==
  ASSUME NEW s \in Senders, NEW episode, Sends(s, episode), locks.task \notin {Nobody, s},
         locks \in [send : Senders \cup {Nobody}, task : Senders \cup {Command, Nobody}]
  PROVE  locks'.task = locks.task
<1>1. \/ locks' = locks \/ locks' = Free(s) \/ locks' = [locks EXCEPT !.send = s]
  BY DEF Sends, SendStep, StartSend, WaitComposer, LockBusy, RecoverPending, VerifyLocked,
     BeginSend, SendText, SendEnter, FinalizeSend, SenderDies, Return
<1> QED BY <1>1 DEF Free

-----------------------------------------------------------------------------
(* The resumes among the rows.                                               *)

AttemptsKnown == \A i \in 1..Len(sends) : sends[i].attempt <= active.id

SameResumes ==
    \A a : /\ Resumes(a)' = Resumes(a)
           /\ \A i \in Resumes(a) : /\ sends'[i].episode = sends[i].episode
                                    /\ SendRetrySafe(sends'[i]) = SendRetrySafe(sends[i])

LEMMA SpentStays ==
  ASSUME SameResumes, NEW a, NEW i \in Resumes(a), NEW e
  PROVE  Spent(i, e)' = Spent(i, e)
<1>1. /\ sends'[i].episode = sends[i].episode
      /\ SendRetrySafe(sends'[i]) = SendRetrySafe(sends[i])
  BY DEF SameResumes
<1> QED BY <1>1 DEF Spent, SendRetrySafe

LEMMA OrderStays ==
  ASSUME SameResumes, ResumesOK
  PROVE  ResumesOK'
<1> SUFFICES ASSUME NEW a \in Attempts, NEW i \in Resumes(a), NEW j \in Resumes(a), i < j
             PROVE  Spent(i, sends[j].episode)'
  BY DEF ResumesOK, SameResumes
<1>1. sends'[i].episode = sends[i].episode /\ sends'[j].episode = sends[j].episode
      /\ SendRetrySafe(sends'[i]) = SendRetrySafe(sends[i])
  BY DEF SameResumes
<1>2. Spent(i, sends[j].episode)
  BY DEF ResumesOK
<1> QED BY <1>1, <1>2 DEF Spent, SendRetrySafe

LEMMA SameRowsSameResumes ==
  ASSUME SameRows, active'.id >= active.id, AttemptsKnown,
         active.id \in Nat, active'.id \in Nat, sends \in Seq(SendRow)
  PROVE  SameResumes /\ AttemptsKnown'
<1>1. Len(sends') = Len(sends) /\ \A i \in 1..Len(sends) : SameRow(i)
  BY DEF SameRows
<1>2. \A a : Resumes(a)' = Resumes(a) /\ Resumes(a) \subseteq 1..Len(sends)
  BY <1>1 DEF Resumes, SameRow
<1>3. ASSUME NEW i \in 1..Len(sends)
      PROVE  /\ sends'[i].episode = sends[i].episode
             /\ SendRetrySafe(sends'[i]) = SendRetrySafe(sends[i])
             /\ sends'[i].attempt = sends[i].attempt
             /\ sends[i].attempt \in Nat
  <2>1. SameRow(i) /\ sends[i].attempt \in Attempts
    BY <1>1, RowTyped
  <2> QED BY <2>1 DEF SameRow, SendRetrySafe, Attempts
<1>4. AttemptsKnown'
  BY <1>1, <1>3 DEF AttemptsKnown
<1> QED BY <1>2, <1>3, <1>4 DEF SameResumes

(* What a step of one process does to the rows.                              *)
Begins(s, episode) ==
    /\ sender[s].pc = "begin" /\ sender'[s].pc = "text" /\ sender'[s].row = Len(sends) + 1
    /\ sends' = Append(sends, [attempt |-> sender[s].attempt, origin |-> s, episode |-> episode,
                               state |-> "pending", reason |-> "none"])

Writes(s) ==
    /\ sender[s].pc = "finalize"
    /\ Return(s, Learnt(sender[s].verdict))
    /\ sends' = [sends EXCEPT ![sender[s].row].state = sender[s].verdict[1],
                              ![sender[s].row].reason = sender[s].verdict[2]]

LEMMA RowsOfStep ==
  ASSUME IndInv, NEW s \in Senders, NEW episode, Sends(s, episode)
  PROVE  SameRows \/ Begins(s, episode) \/ Writes(s)
<1>1. TypesOK /\ sender \in [Senders -> Mind] /\ sender[s] \in Mind
  BY DEF IndInv, TypesOK
<1>2. CASE sends' = sends
  BY <1>2, RowsUnchanged
<1>3. CASE RecoverPending(s)
  <2> DEFINE rows == {sender[s].row} \intersect Pending(sender[s].attempt)
  <2>1. sends' = Normalized(rows) /\ \A i \in rows : sends[i].state = "pending"
    BY <1>3 DEF RecoverPending, Pending
  <2> HIDE DEF rows
  <2> QED BY <1>1, <2>1, NormalizedDoes
<1>4. CASE VerifyLocked(s) /\ sends' # sends
  <2>1. sends' = Normalized(Pending(sender[s].attempt))
    BY <1>4 DEF VerifyLocked
  <2>2. \A i \in Pending(sender[s].attempt) : sends[i].state = "pending"
    BY DEF Pending
  <2> QED BY <1>1, <2>1, <2>2, NormalizedDoes
<1>5. CASE BeginSend(s, episode) /\ sends' # sends
  <2>1. sender[s].pc = "begin"
        /\ sends' = Append(sends, [attempt |-> sender[s].attempt, origin |-> s,
                                   episode |-> episode, state |-> "pending", reason |-> "none"])
        /\ sender' = [sender EXCEPT ![s] = [sender[s] EXCEPT !.pc = "text", !.row = Len(sends) + 1]]
    BY <1>5 DEF BeginSend
  <2>2. sender'[s] = [sender[s] EXCEPT !.pc = "text", !.row = Len(sends) + 1]
    BY <1>1, <2>1
  <2>3. sender'[s].pc = "text" /\ sender'[s].row = Len(sends) + 1
    BY <1>1, <2>2 DEF Mind
  <2> QED BY <2>1, <2>3 DEF Begins
<1>6. CASE FinalizeSend(s) /\ sends' # sends
  BY <1>6 DEF FinalizeSend, Writes
<1> QED BY <1>2, <1>3, <1>4, <1>5, <1>6
  DEF Sends, SendStep, StartSend, WaitComposer, LockBusy, SendText, SendEnter, SenderDies

(* A new row stands behind the others.                                       *)
LEMMA BeginsDoes ==
  ASSUME IndInv, NEW s \in Senders, NEW episode \in Nat, Begins(s, episode)
  PROVE  /\ Len(sends') = Len(sends) + 1 /\ Len(sends) \in Nat
         /\ \A i \in 1..Len(sends) : sends'[i] = sends[i]
         /\ sends'[Len(sends) + 1].attempt = sender[s].attempt
         /\ sends'[Len(sends) + 1].origin = s
         /\ sends'[Len(sends) + 1].episode = episode
         /\ active = [id |-> sender[s].attempt, running |-> TRUE]
<1> DEFINE row == [attempt |-> sender[s].attempt, origin |-> s, episode |-> episode,
                   state |-> "pending", reason |-> "none"]
<1>1. /\ active = [id |-> sender[s].attempt, running |-> TRUE]
      /\ sender[s].attempt \in Attempts
  BY DEF IndInv, LocksOK, Begins
<1>2. row \in SendRow
  BY <1>1 DEF SendRow, Reasons
<1>3. row.attempt = sender[s].attempt /\ row.origin = s /\ row.episode = episode
  OBVIOUS
<1>4. sends' = Append(sends, row)
  BY DEF Begins
<1> HIDE DEF row
<1>5. sends \in Seq(SendRow) /\ Len(sends) \in Nat
  BY LenProperties DEF IndInv, TypesOK
<1>6. /\ Len(sends') = Len(sends) + 1
      /\ \A i \in 1..Len(sends) : sends'[i] = sends[i]
      /\ sends'[Len(sends) + 1] = row
  BY <1>2, <1>4, <1>5
<1> QED BY <1>1, <1>3, <1>5, <1>6

(* The verdict changes the row of its send only.                             *)
LEMMA WritesDoes ==
  ASSUME IndInv, NEW s \in Senders, Writes(s)
  PROVE  /\ Len(sends') = Len(sends)
         /\ \A i \in 1..Len(sends) : i # sender[s].row => sends'[i] = sends[i]
         /\ sender[s].row \in 1..Len(sends)
         /\ sends'[sender[s].row].attempt = sends[sender[s].row].attempt
         /\ sends'[sender[s].row].origin = sends[sender[s].row].origin
         /\ sends'[sender[s].row].episode = sends[sender[s].row].episode
         /\ sends'[sender[s].row].state = sender[s].verdict[1]
         /\ sends'[sender[s].row].reason = sender[s].verdict[2]
<1>1. sender[s].pc \in Typing
  BY DEF Writes, Typing
<1> PICK i \in 1..Len(sends) : i = sender[s].row
  BY <1>1, TypingKnows
<1> PICK v \in Verdicts : v = sender[s].verdict
  BY DEF Writes, IndInv, LocksOK
<1>2. sends \in Seq(SendRow) /\ sends[i] \in SendRow /\ DOMAIN sends = 1..Len(sends)
  BY RowTyped, LenProperties DEF IndInv, TypesOK
<1>3. v[1] \in Finals /\ v[2] \in Reasons
  BY LearntAnswers
<1> PICK row \in SendRow : row = [sends[i] EXCEPT !.state = v[1], !.reason = v[2]]
  BY <1>2, <1>3 DEF SendRow
<1>4. /\ row.attempt = sends[i].attempt /\ row.origin = sends[i].origin
      /\ row.episode = sends[i].episode /\ row.state = v[1] /\ row.reason = v[2]
  BY <1>2 DEF SendRow
<1>5. sends' = [sends EXCEPT ![i] = row]
  BY DEF Writes
<1>6. \A x \in SendRow : Len([sends EXCEPT ![i] = x]) = Len(sends)
  BY <1>2, ExceptSeq
<1>7. sends \in [1..Len(sends) -> SendRow]
  BY <1>2, LenProperties
<1>8. sends'[i] = row /\ \A j \in 1..Len(sends) : j # i => sends'[j] = sends[j]
  BY <1>5, <1>7
<1>9. Len(sends') = Len(sends)
  BY <1>5, <1>6
<1> QED BY <1>4, <1>8, <1>9

(* An operator writes rows of its own.                                       *)
LEMMA OperatorsRows ==
  ASSUME IndInv, SteeringAssumption, NEW o \in Operators, Sends(o, 0), AttemptsKnown
  PROVE  SameResumes /\ AttemptsKnown'
<1>1. o \in Senders /\ o # Watcher /\ TypesOK
  BY DEF Senders, SteeringAssumption, IndInv
<1>2. active' = active /\ active.id \in Nat /\ sends \in Seq(SendRow)
  BY <1>1, OthersStay DEF TypesOK, Attempts
<1>3. CASE SameRows
  BY <1>2, <1>3, SameRowsSameResumes
<1>4. CASE Begins(o, 0)
  <2>1. /\ Len(sends') = Len(sends) + 1 /\ Len(sends) \in Nat
        /\ \A i \in 1..Len(sends) : sends'[i] = sends[i]
        /\ sends'[Len(sends) + 1].attempt = sender[o].attempt
        /\ sends'[Len(sends) + 1].origin = o
        /\ active = [id |-> sender[o].attempt, running |-> TRUE]
    BY <1>1, <1>4, BeginsDoes
  <2>2. 1..Len(sends') = 1..Len(sends) \cup {Len(sends) + 1}
    BY <2>1, OneMore
  <2>3. \A a : Resumes(a)' = Resumes(a)
    BY <1>1, <2>1, <2>2 DEF Resumes
  <2>4. \A a : \A i \in Resumes(a) : sends'[i] = sends[i]
    BY <2>1 DEF Resumes
  <2>5. SameResumes
    BY <2>3, <2>4 DEF SameResumes
  <2>6. AttemptsKnown'
    BY <1>2, <2>1, <2>2 DEF AttemptsKnown
  <2> QED BY <2>5, <2>6
<1>5. CASE Writes(o)
  <2>0. sender[o].pc \in Typing
    BY <1>5 DEF Writes, Typing
  <2> PICK n \in 1..Len(sends) : n = sender[o].row
    BY <1>1, <2>0, TypingKnows
  <2>1. /\ Len(sends') = Len(sends)
        /\ \A i \in 1..Len(sends) : i # n => sends'[i] = sends[i]
        /\ sends'[n].attempt = sends[n].attempt
        /\ sends'[n].origin = sends[n].origin
        /\ sends[n].origin = o
    BY <1>1, <1>5, <2>0, WritesDoes, TypingKnows
  <2>2. \A a : Resumes(a)' = Resumes(a)
    BY <1>1, <2>1 DEF Resumes
  <2>3. \A a : \A i \in Resumes(a) : sends'[i] = sends[i]
    BY <1>1, <2>1 DEF Resumes
  <2>4. SameResumes
    BY <2>2, <2>3 DEF SameResumes
  <2>5. AttemptsKnown'
    BY <1>2, <2>1 DEF AttemptsKnown
  <2> QED BY <2>4, <2>5
<1> QED BY <1>1, <1>3, <1>4, <1>5, RowsOfStep

-----------------------------------------------------------------------------
(* The steps of a tick that steer nobody.                                    *)

LEMMA LookedDoes ==
  ASSUME watch \in Watching, LimitsAssumption
  PROVE  /\ Looked \in Watching /\ Looked.pc = "sync"
         /\ Looked.attempt = watch.attempt /\ Looked.saved = watch.saved
         /\ Looked.retry = watch.retry /\ Looked.blocked = watch.blocked
         /\ Looked.episode = watch.episode
<1> DEFINE status == IF watch.seen.status = "unreachable" THEN watch.status ELSE watch.seen.status
           seen == Untracked.seen
<1>1. seen = [status |-> "unknown", episode |-> 0]
  BY DEF Untracked
<1>2. seen \in Sight
  BY <1>1, LimitsAreNumbers DEF Sight
<1>3. status \in {"unknown", "working", "idle"}
  BY DEF Watching, Sight
<1>4. Looked = [watch EXCEPT !.pc = "sync", !.seen = seen, !.status = status]
  BY DEF Looked
<1> HIDE DEF status, seen
<1> QED BY <1>2, <1>3, <1>4 DEF Watching

LEMMA UntrackedDoes ==
  ASSUME LimitsAssumption
  PROVE  /\ Untracked \in Watching /\ Untracked.pc = "rest" /\ Untracked.attempt = 0
         /\ ~Untracked.retry /\ ~Untracked.blocked /\ NoLimit \in LimitRow
         /\ NoLimit.episode = 0
<1>1. NoLimit \in LimitRow /\ NoLimit.episode = 0
  BY LimitsAreNumbers DEF NoLimit, LimitRow
<1>2. [status |-> "unknown", episode |-> 0] \in Sight
  BY LimitsAreNumbers DEF Sight
<1>3. Untracked \in Watching
  BY <1>1, <1>2, LimitsAreNumbers DEF Untracked, Watching
<1> QED BY <1>1, <1>3 DEF Untracked

LEMMA StatusTyped ==
  ASSUME TypesOK
  PROVE  Status \in {"unreachable", "working", "idle"}
BY DEF Status

(* What the watcher's new memory must know.                                  *)
Knows ==
    /\ watch'.attempt <= active.id
    /\ watch'.attempt = active.id => watch'.saved.episode <= limit'.episode
    /\ \A i \in Resumes(active.id) : sends[i].episode <= limit'.episode
    /\ \A i \in Resumes(watch'.attempt) :
          /\ sends[i].episode <= watch'.episode
          /\ watch'.retry /\ ~watch'.blocked => Spent(i, watch'.episode)

LEMMA RestKeeps ==
  ASSUME LimitsIndInv, IndInv', SameRows, active' = active, LimitTypesOK',
         sender'[Watcher].pc = "rest", watch'.pc # "steer",
         watch'.pc = "record" =>
            locks'.task = Watcher /\ active = [id |-> watch'.attempt, running |-> TRUE],
         Knows
  PROVE  LimitsIndInv'
<1>1. active.id \in Nat /\ sends \in Seq(SendRow)
  BY DEF LimitsIndInv, IndInv, TypesOK, Attempts
<1>2. SameResumes /\ AttemptsKnown'
  BY <1>1, SameRowsSameResumes DEF LimitsIndInv, RecordedOK, AttemptsKnown
<1>4. TickOK'
  BY DEF TickOK
<1>5. ResumesOK'
  BY <1>2, OrderStays DEF LimitsIndInv
<1>6. RecordedOK'
  <2>1. ASSUME NEW i \in Resumes(active.id)' PROVE sends'[i].episode <= limit'.episode
    <3>1. i \in Resumes(active.id)
      BY <1>2, <2>1 DEF SameResumes, Resumes
    <3>2. sends'[i].episode = sends[i].episode
      BY <1>2, <3>1 DEF SameResumes
    <3> QED BY <3>1, <3>2 DEF Knows
  <2> QED BY <1>2, <2>1 DEF RecordedOK, Knows, AttemptsKnown
<1>7. ScheduleOK'
  <2> SUFFICES ASSUME NEW i \in Resumes(watch.attempt)'
               PROVE  /\ sends'[i].episode <= watch'.episode
                      /\ watch'.retry /\ ~watch'.blocked => Spent(i, watch.episode)'
    BY DEF ScheduleOK
  <2>1. i \in Resumes(watch'.attempt)
    BY <1>2 DEF SameResumes
  <2>2. /\ sends'[i].episode = sends[i].episode
        /\ SendRetrySafe(sends'[i]) = SendRetrySafe(sends[i])
    BY <1>2, <2>1 DEF SameResumes
  <2>3. /\ sends[i].episode <= watch'.episode
        /\ watch'.retry /\ ~watch'.blocked => Spent(i, watch'.episode)
    BY <2>1 DEF Knows
  <2> QED BY <2>2, <2>3 DEF Spent, SendRetrySafe
<1> QED BY <1>4, <1>5, <1>6, <1>7 DEF LimitsIndInv

LEMMA TickKeeps ==
  ASSUME LimitsIndInv, IndInv', SameRows, UNCHANGED <<active, sender>>, LimitTypesOK',
         watch.pc # "steer", watch'.pc # "steer",
         watch'.pc = "record" =>
            locks'.task = Watcher /\ active = [id |-> watch'.attempt, running |-> TRUE],
         Knows
  PROVE  LimitsIndInv'
<1>1. sender'[Watcher].pc = "rest"
  BY DEF LimitsIndInv, TickOK
<1> QED BY <1>1, RestKeeps

(* Nothing is scheduled that was not, or it is a later episode.              *)
LEMMA ScheduleGoesOn ==
  ASSUME LimitsIndInv, watch.pc # "steer", LimitTypesOK', LimitsAssumption,
         watch'.attempt = watch.attempt,
         \/ /\ watch'.episode = watch.episode
            /\ watch'.retry /\ ~watch'.blocked => watch.retry /\ ~watch.blocked
         \/ watch'.episode > watch.episode
  PROVE  \A i \in Resumes(watch'.attempt) :
            /\ sends[i].episode <= watch'.episode
            /\ watch'.retry /\ ~watch'.blocked => Spent(i, watch'.episode)
<1> TAKE i \in Resumes(watch'.attempt)
<1>1. i \in Resumes(watch.attempt) /\ i \in 1..Len(sends)
  BY DEF Resumes
<1>2. watch.episode \in Nat /\ watch'.episode \in Nat
  BY LimitsAreNumbers DEF LimitsIndInv, LimitTypesOK, Watching
<1>3. sends[i].episode \in Nat
  BY <1>1, RowTyped DEF LimitsIndInv, IndInv, TypesOK, SendRow
<1>4. sends[i].episode <= watch.episode
  BY <1>1 DEF LimitsIndInv, ScheduleOK
<1>5. Writing = {} /\ ~Unread
  BY DEF LimitsIndInv, TickOK, Writing, Unread, Typing
<1>6. watch.retry /\ ~watch.blocked => Spent(i, watch.episode)
  BY <1>1, <1>5 DEF LimitsIndInv, ScheduleOK
<1>7. CASE watch'.episode = watch.episode
  <2>1. watch'.retry /\ ~watch'.blocked => watch.retry /\ ~watch.blocked
    BY <1>2, <1>7
  <2> QED BY <1>4, <1>6, <1>7, <2>1 DEF Spent
<1>8. CASE watch'.episode > watch.episode
  BY <1>2, <1>3, <1>4, <1>8 DEF Spent
<1> QED BY <1>7, <1>8

LEMMA TickForgetsKeeps ==
  ASSUME LimitsIndInv, LimitsAssumption, TickForgets
  PROVE  LimitsIndInv'
<1>1. IndInv' /\ SameRows /\ UNCHANGED <<active, sender, limit, hold>>
  BY StutterKeeps, RowsUnchanged DEF TickForgets, steering, LimitsIndInv
<1>2. watch' = Untracked /\ watch.pc # "steer"
  BY DEF TickForgets
<1>3. LimitTypesOK' /\ watch'.pc = "rest" /\ watch'.attempt = 0
  BY <1>1, <1>2, UntrackedDoes DEF LimitsIndInv, LimitTypesOK
<1>4. Knows
  <2>1. active.id \in Nat /\ active.id # 0 /\ 0 \notin Attempts
    BY DEF LimitsIndInv, IndInv, TypesOK, Attempts
  <2>2. Resumes(0) = {}
    BY <2>1, RowTyped DEF Resumes, LimitsIndInv, IndInv, TypesOK
  <2> QED BY <1>1, <1>3, <2>1, <2>2 DEF Knows, LimitsIndInv, RecordedOK
<1> QED BY <1>1, <1>2, <1>3, <1>4, TickKeeps

LEMMA TickReadsKeeps ==
  ASSUME LimitsIndInv, LimitsAssumption, TickReads
  PROVE  LimitsIndInv'
<1>1. IndInv' /\ SameRows /\ UNCHANGED <<active, sender, limit, hold>> /\ watch \in Watching
  BY StutterKeeps, RowsUnchanged DEF TickReads, steering, LimitsIndInv, LimitTypesOK
<1> DEFINE seen == [status |-> Status, episode |-> limit.episode]
<1>2. watch' = [watch EXCEPT !.pc = "look", !.seen = seen] /\ watch.pc = "rest"
  BY DEF TickReads
<1>3. limit.episode \in 0..MaxEpisodes
  BY DEF LimitsIndInv, LimitTypesOK, LimitRow
<1>4. seen \in Sight
  BY <1>3, StatusTyped DEF Sight, LimitsIndInv, IndInv
<1> HIDE DEF seen
<1>5. /\ watch' \in Watching /\ watch'.pc = "look"
      /\ watch'.attempt = watch.attempt /\ watch'.saved = watch.saved
      /\ watch'.retry = watch.retry /\ watch'.blocked = watch.blocked
      /\ watch'.episode = watch.episode
  BY <1>1, <1>2, <1>4 DEF Watching
<1>6. LimitTypesOK'
  BY <1>1, <1>5 DEF LimitsIndInv, LimitTypesOK
<1>7. Knows
  BY <1>1, <1>2, <1>5, <1>6, ScheduleGoesOn DEF Knows, LimitsIndInv, RecordedOK
<1> QED BY <1>1, <1>2, <1>5, <1>6, <1>7, TickKeeps

LEMMA TickSkipsSyncKeeps ==
  ASSUME LimitsIndInv, LimitsAssumption, TickSkipsSync
  PROVE  LimitsIndInv'
<1>1. IndInv' /\ SameRows /\ UNCHANGED <<active, sender, limit, hold>> /\ watch \in Watching
  BY StutterKeeps, RowsUnchanged DEF TickSkipsSync, steering, LimitsIndInv, LimitTypesOK
<1>2. watch' = [watch EXCEPT !.pc = "rest"] /\ watch.pc = "sync"
  BY DEF TickSkipsSync
<1>3. /\ watch' \in Watching /\ watch'.pc = "rest"
      /\ watch'.attempt = watch.attempt /\ watch'.saved = watch.saved
      /\ watch'.retry = watch.retry /\ watch'.blocked = watch.blocked
      /\ watch'.episode = watch.episode
  BY <1>1, <1>2 DEF Watching
<1>4. LimitTypesOK'
  BY <1>1, <1>3 DEF LimitsIndInv, LimitTypesOK
<1>5. Knows
  BY <1>1, <1>2, <1>3, <1>4, ScheduleGoesOn DEF Knows, LimitsIndInv, RecordedOK
<1> QED BY <1>1, <1>2, <1>3, <1>4, <1>5, TickKeeps

(* A set of positions has a last one.                                        *)
LEMMA LastOne ==
  ASSUME NEW S, NEW n \in Nat, S \subseteq 1..n, S # {}
  PROVE  \E i \in S : \A j \in S : j <= i
<1> DEFINE T == {k \in 0..n : n - k \in S}
<1>0. T \subseteq Nat
  OBVIOUS
<1>1. T # {}
  <2> PICK i \in S : TRUE
    OBVIOUS
  <2>1. i \in Nat /\ n - i \in 0..n /\ n - (n - i) = i
    OBVIOUS
  <2> QED BY <2>1
<1>2. PICK x \in T : \A y \in T : ~ (<<y, x>> \in OpToRel(<, Nat))
  BY <1>0, <1>1, NatLessThanWellFounded, WFMin
<1>3. \A y \in T : ~(y < x)
  BY <1>0, <1>2 DEF OpToRel
<1>4. x \in 0..n /\ n - x \in S
  OBVIOUS
<1>5. ASSUME NEW j \in S PROVE j <= n - x
  <2>1. j \in Nat /\ n - j \in 0..n /\ n - (n - j) = j
    OBVIOUS
  <2>2. n - j \in T
    BY <2>1
  <2>3. ~(n - j < x)
    BY <1>3, <2>2
  <2> QED BY <1>4, <2>1, <2>3
<1> QED BY <1>4, <1>5

LEMMA LastResumeDoes ==
  ASSUME TypesOK, NEW a
  PROVE  /\ Resumes(a) = {} <=> LastResume(a) = 0
         /\ LastResume(a) # 0 =>
              LastResume(a) \in Resumes(a) /\ \A j \in Resumes(a) : j <= LastResume(a)
<1>1. DOMAIN sends = 1..Len(sends) /\ Len(sends) \in Nat
  BY LenProperties DEF TypesOK
<1>2. Resumes(a) = {i \in DOMAIN sends : sends[i].attempt = a /\ sends[i].origin = Watcher}
  BY <1>1 DEF Resumes
<1>3. LastResume(a) = IF Resumes(a) = {} THEN 0
                      ELSE CHOOSE i \in Resumes(a) : \A j \in Resumes(a) : j <= i
  BY <1>2 DEF LastResume
<1>4. Resumes(a) \subseteq 1..Len(sends) /\ 0 \notin Resumes(a)
  BY <1>1 DEF Resumes
<1>5. Resumes(a) # {} => \E i \in Resumes(a) : \A j \in Resumes(a) : j <= i
  BY <1>1, <1>4, LastOne
<1> QED BY <1>3, <1>4, <1>5

(* A watcher that takes over a schedule and is not told to wait may send.    *)
LEMMA RestoredKnows ==
  ASSUME LimitsIndInv, LimitsAssumption, NEW a \in Attempts, a = active.id,
         limit.retry, ~RestoredBlocked(a)
  PROVE  \A i \in Resumes(a) : Spent(i, limit.episode)
<1> DEFINE j == LastResume(a)
<1> TAKE i \in Resumes(a)
<1>1. TypesOK /\ sends \in Seq(SendRow)
  BY DEF LimitsIndInv, IndInv, TypesOK
<1>2. j \in Resumes(a) /\ i <= j /\ j # 0
  BY <1>1, LastResumeDoes
<1>3. i \in 1..Len(sends) /\ j \in 1..Len(sends)
  BY <1>2 DEF Resumes
<1>4. sends[i].episode \in Nat /\ sends[j].episode \in Nat /\ limit.episode \in Nat
  BY <1>1, <1>3, RowTyped, LimitsAreNumbers DEF SendRow, LimitsIndInv, LimitTypesOK, LimitRow
<1>5. sends[j].episode <= limit.episode
  BY <1>2 DEF LimitsIndInv, RecordedOK
<1>6. SendRetrySafe(sends[j]) \/ sends[j].episode < limit.episode
  BY <1>2, <1>4, <1>5 DEF RestoredBlocked
<1>7. CASE i = j
  BY <1>5, <1>6, <1>7 DEF Spent
<1>8. CASE i < j
  <2>1. Spent(i, sends[j].episode)
    BY <1>2, <1>8 DEF LimitsIndInv, ResumesOK
  <2> QED BY <1>4, <1>5, <2>1 DEF Spent
<1> QED BY <1>2, <1>3, <1>7, <1>8

LEMMA TickSightsKeeps ==
  ASSUME LimitsIndInv, LimitsAssumption, SteeringAssumption, TickSights
  PROVE  LimitsIndInv'
<1> PICK a \in Attempts : a = active.id
  BY DEF LimitsIndInv, IndInv, TypesOK
<1>1. IndInv' /\ SameRows
  BY RecoveredKeeps DEF TickSights, LimitsIndInv
<1>2. UNCHANGED <<active, sender, limit, hold>> /\ watch.pc = "rest" /\ limit \in LimitRow
  BY DEF TickSights, LimitsIndInv, LimitTypesOK
<1> DEFINE blocked == RestoredBlocked(a)
           retry == limit.retry /\ ~RestoredBlocked(a)
           status == IF Status = "unreachable" THEN "unknown" ELSE Status
<1>3. watch' = [Untracked EXCEPT
            !.attempt = a, !.episode = limit.episode, !.saved = limit,
            !.tried = limit.tried, !.status = status, !.blocked = blocked, !.retry = retry]
  BY DEF TickSights
<1>4. blocked \in BOOLEAN /\ retry \in BOOLEAN
  BY <1>2 DEF RestoredBlocked, LimitRow
<1>5. status \in {"unknown", "working", "idle"}
  BY StatusTyped DEF LimitsIndInv, IndInv
<1>6. retry => \A i \in Resumes(a) : Spent(i, limit.episode)
  BY RestoredKnows
<1> HIDE DEF blocked, retry, status
<1>7. limit.episode \in 0..MaxEpisodes /\ limit.tried \in BOOLEAN
  BY <1>2 DEF LimitRow
<1>8. /\ watch' \in Watching /\ watch'.pc = "rest" /\ watch'.attempt = a
      /\ watch'.episode = limit.episode /\ watch'.saved = limit /\ watch'.retry = retry
  <2>1. Untracked \in Watching /\ Untracked.pc = "rest"
    BY UntrackedDoes
  <2> QED BY <1>2, <1>3, <1>4, <1>5, <1>7, <2>1 DEF Watching
<1>9. LimitTypesOK'
  BY <1>2, <1>8 DEF LimitsIndInv, LimitTypesOK
<1>10. Knows
  <2>1. a \in Nat /\ limit.episode \in Nat
    BY <1>7, LimitsAreNumbers DEF Attempts
  <2>2. \A i \in Resumes(a) : sends[i].episode <= limit.episode
    BY DEF LimitsIndInv, RecordedOK
  <2>3. a <= a /\ limit.episode <= limit.episode
    BY <2>1
  <2> QED BY <1>2, <1>6, <1>8, <2>2, <2>3 DEF Knows
<1> QED BY <1>1, <1>2, <1>8, <1>9, <1>10, TickKeeps

LEMMA HoldTyped ==
  ASSUME LimitTypesOK
  PROVE  {hold, LimitHold, NoLimitHold} \subseteq {"none", "limit", "operator"}
BY DEF LimitTypesOK, LimitHold, NoLimitHold

(* A look that schedules nothing new, or the resume of a later episode.      *)
LEMMA LooksKeeps ==
  ASSUME LimitsIndInv, LimitsAssumption, IndInv', SameRows,
         UNCHANGED <<active, sender, limit>>, watch.pc = "look",
         hold' \in {hold, LimitHold, NoLimitHold},
         watch' \in Watching, watch'.pc = "sync",
         watch'.attempt = watch.attempt, watch'.saved = watch.saved,
         \/ /\ watch'.episode = watch.episode
            /\ watch'.retry /\ ~watch'.blocked => watch.retry /\ ~watch.blocked
         \/ watch'.episode > watch.episode
  PROVE  LimitsIndInv'
<1>1. LimitTypesOK'
  BY HoldTyped DEF LimitsIndInv, LimitTypesOK
<1>2. Knows
  BY <1>1, ScheduleGoesOn DEF Knows, LimitsIndInv, RecordedOK
<1> QED BY <1>1, <1>2, TickKeeps

LEMMA TickLooksKeeps ==
  ASSUME LimitsIndInv, LimitsAssumption, SteeringAssumption, TickLooks
  PROVE  LimitsIndInv'
<1>0. watch \in Watching /\ watch.pc = "look" /\ UNCHANGED <<active, sender, limit>>
  BY DEF TickLooks, LimitsIndInv, LimitTypesOK
<1>1. IndInv' /\ SameRows
  <2>1. sends' = sends \/ sends' = ResumeRecovered(watch.attempt)
    BY DEF TickLooks, ClearUsageLimit, ObserveBlocked, NotDue, DetectUsageLimit, NothingToDo
  <2> QED BY <2>1, RecoveredKeeps DEF TickLooks, LimitsIndInv
<1>2. hold' \in {hold, LimitHold, NoLimitHold}
  BY DEF TickLooks, ClearUsageLimit, ObserveBlocked, NotDue, DetectUsageLimit, NothingToDo,
     ProjectHold
<1>3. /\ Looked \in Watching /\ Looked.pc = "sync"
      /\ Looked.attempt = watch.attempt /\ Looked.saved = watch.saved
      /\ Looked.retry = watch.retry /\ Looked.blocked = watch.blocked
      /\ Looked.episode = watch.episode
  BY <1>0, LookedDoes
<1>4. CASE watch' = Looked
  BY <1>0, <1>1, <1>2, <1>3, <1>4, LooksKeeps
<1>5. CASE watch' = [Looked EXCEPT !.retry = FALSE, !.tried = FALSE, !.blocked = FALSE,
                                   !.probed = FALSE]
  <2>1. /\ watch' \in Watching /\ watch'.pc = "sync" /\ ~watch'.retry
        /\ watch'.attempt = watch.attempt /\ watch'.saved = watch.saved
        /\ watch'.episode = watch.episode
    BY <1>3, <1>5 DEF Watching
  <2> QED BY <1>0, <1>1, <1>2, <2>1, LooksKeeps
<1>6. ASSUME NEW tried \in BOOLEAN, watch' = [Looked EXCEPT !.tried = tried]
      PROVE  LimitsIndInv'
  <2>1. /\ watch' \in Watching /\ watch'.pc = "sync"
        /\ watch'.attempt = watch.attempt /\ watch'.saved = watch.saved
        /\ watch'.retry = watch.retry /\ watch'.blocked = watch.blocked
        /\ watch'.episode = watch.episode
    BY <1>3, <1>6 DEF Watching
  <2> QED BY <1>0, <1>1, <1>2, <2>1, LooksKeeps
<1>7. CASE watch' = [Looked EXCEPT !.probed = TRUE]
  <2>1. /\ watch' \in Watching /\ watch'.pc = "sync"
        /\ watch'.attempt = watch.attempt /\ watch'.saved = watch.saved
        /\ watch'.retry = watch.retry /\ watch'.blocked = watch.blocked
        /\ watch'.episode = watch.episode
    BY <1>3, <1>7 DEF Watching
  <2> QED BY <1>0, <1>1, <1>2, <2>1, LooksKeeps
<1>8. ASSUME NEW newer \in Nat, newer >= watch.episode, newer < MaxEpisodes,
             watch' = [Looked EXCEPT !.probed = TRUE, !.episode = newer + 1,
                                     !.retry = TRUE, !.tried = FALSE]
      PROVE  LimitsIndInv'
  <2>1. newer + 1 \in 0..MaxEpisodes /\ watch.episode \in Nat
    BY <1>0, <1>8, LimitsAreNumbers DEF Watching, LimitsAssumption
  <2>2. /\ watch' \in Watching /\ watch'.pc = "sync"
        /\ watch'.attempt = watch.attempt /\ watch'.saved = watch.saved
        /\ watch'.episode = newer + 1
    BY <1>3, <1>8, <2>1 DEF Watching
  <2>3. watch'.episode > watch.episode
    BY <1>8, <2>1, <2>2
  <2> QED BY <1>0, <1>1, <1>2, <2>2, <2>3, LooksKeeps
<1>9. CASE DetectUsageLimit
  <2> DEFINE newer == IF watch.episode < watch.seen.episode THEN watch.seen.episode
                      ELSE watch.episode
  <2>1. watch.episode \in Nat /\ watch.seen.episode \in Nat
    BY <1>0, LimitsAreNumbers DEF Watching, Sight
  <2>2. newer \in Nat /\ newer >= watch.episode
    BY <2>1
  <2>3. \/ newer < MaxEpisodes /\ watch' = [Looked EXCEPT !.probed = TRUE, !.episode = newer + 1,
                                                          !.retry = TRUE, !.tried = FALSE]
        \/ watch' = [Looked EXCEPT !.probed = TRUE]
    BY <1>9 DEF DetectUsageLimit
  <2> HIDE DEF newer
  <2> QED BY <1>7, <1>8, <2>2, <2>3
<1>10. CASE ObserveBlocked
  <2>1. watch' = [Looked EXCEPT !.tried = Looked.tried \/ MayProject]
    BY <1>10 DEF ObserveBlocked
  <2>2. (Looked.tried \/ MayProject) \in BOOLEAN
    BY <1>3 DEF Watching
  <2> QED BY <1>6, <2>1, <2>2
<1>11. CASE ClearUsageLimit \/ NotDue \/ NothingToDo
  BY <1>4, <1>5, <1>11 DEF ClearUsageLimit, NotDue, NothingToDo
<1> QED BY <1>9, <1>10, <1>11 DEF TickLooks

LEMMA TickCannotResumeKeeps ==
  ASSUME LimitsIndInv, LimitsAssumption, TickCannotResume
  PROVE  LimitsIndInv'
<1>1. watch \in Watching /\ watch.pc = "look" /\ UNCHANGED <<active, sender, limit>>
  BY DEF TickCannotResume, ResumeDue, steering, LimitsIndInv, LimitTypesOK
<1>2. IndInv' /\ SameRows
  BY StutterKeeps, RowsUnchanged DEF TickCannotResume, steering, LimitsIndInv
<1>3. /\ Looked \in Watching /\ Looked.pc = "sync"
      /\ Looked.attempt = watch.attempt /\ Looked.saved = watch.saved
      /\ Looked.retry = watch.retry /\ Looked.blocked = watch.blocked
      /\ Looked.episode = watch.episode
  BY <1>1, LookedDoes
<1>4. hold' \in {hold, LimitHold, NoLimitHold}
  BY DEF TickCannotResume, ProjectHold
<1>5. watch' = Looked \/ watch' = [Looked EXCEPT !.tried = TRUE]
  BY DEF TickCannotResume
<1>6. /\ watch' \in Watching /\ watch'.pc = "sync"
      /\ watch'.attempt = watch.attempt /\ watch'.saved = watch.saved
      /\ watch'.retry = watch.retry /\ watch'.blocked = watch.blocked
      /\ watch'.episode = watch.episode
  BY <1>3, <1>5 DEF Watching
<1> QED BY <1>1, <1>2, <1>4, <1>6, LooksKeeps

LEMMA TickSyncsKeeps ==
  ASSUME LimitsIndInv, LimitsAssumption, SteeringAssumption, TickSyncs
  PROVE  LimitsIndInv'
<1>1. watch \in Watching /\ watch.pc = "sync" /\ UNCHANGED <<active, pane, screen, sends, sender, limit>>
  BY DEF TickSyncs, LimitsIndInv, LimitTypesOK
<1>2. /\ TypesOK /\ LocksOK
      /\ locks.task = Nobody /\ active = [id |-> watch.attempt, running |-> TRUE]
      /\ locks' = [locks EXCEPT !.task = Watcher]
  BY DEF TickSyncs, Current, LimitsIndInv, IndInv
<1>3. \A r \in Senders : sender[r].pc \notin {"begin"} \cup Typing
  BY <1>2, NobodyTypes DEF SteeringAssumption
<1>4. IndInv' /\ SameRows
  <2>1. Watcher \in Senders \cup {Command, Nobody} /\ IndInv
    BY DEF Senders, LimitsIndInv
  <2> QED BY <1>1, <1>2, <1>3, <2>1, TaskLockKeeps, RowsUnchanged
<1>5. locks'.task = Watcher
  BY <1>2 DEF TypesOK
<1>6. /\ watch' \in Watching /\ watch'.pc = "record"
      /\ watch'.attempt = watch.attempt /\ watch'.saved = watch.saved
      /\ watch'.retry = watch.retry /\ watch'.blocked = watch.blocked
      /\ watch'.episode = watch.episode
  BY <1>1 DEF TickSyncs, Watching
<1>7. LimitTypesOK'
  BY <1>1, <1>6, HoldTyped DEF TickSyncs, LimitsIndInv, LimitTypesOK
<1>8. Knows
  BY <1>1, <1>6, <1>7, ScheduleGoesOn DEF Knows, LimitsIndInv, RecordedOK
<1> QED BY <1>1, <1>2, <1>4, <1>5, <1>6, <1>7, <1>8, TickKeeps

LEMMA TickRecordsKeeps ==
  ASSUME LimitsIndInv, LimitsAssumption, SteeringAssumption, TickRecords
  PROVE  LimitsIndInv'
<1>1. watch \in Watching /\ watch.pc = "record" /\ UNCHANGED <<active, pane, screen, sends, sender, hold>>
  BY DEF TickRecords, LimitsIndInv, LimitTypesOK
<1>2. /\ TypesOK /\ LocksOK /\ sender[Watcher].pc = "rest"
      /\ locks.task = Watcher /\ active = [id |-> watch.attempt, running |-> TRUE]
      /\ locks' = [locks EXCEPT !.task = Nobody]
  BY <1>1 DEF TickRecords, TickOK, LimitsIndInv, IndInv
<1>3. \A r \in Senders : sender[r].pc \notin {"begin"} \cup Typing
  <2> TAKE r \in Senders
  <2>1. CASE r = Watcher
    BY <1>2, <2>1 DEF Typing
  <2>2. CASE r # Watcher
    BY <1>2, <2>2, NobodyTypes
  <2> QED BY <2>1, <2>2
<1>4. IndInv' /\ SameRows
  <2>1. Nobody \in Senders \cup {Command, Nobody} /\ IndInv
    BY DEF LimitsIndInv
  <2> QED BY <1>1, <1>2, <1>3, <2>1, TaskLockKeeps, RowsUnchanged
<1>5. /\ Memory \in LimitRow /\ Memory.episode = watch.episode
  BY <1>1 DEF Memory, LimitRow, Watching
<1>6. limit' = Memory /\ watch' = [watch EXCEPT !.pc = "rest", !.saved = Memory]
  BY DEF TickRecords
<1>7. /\ watch' \in Watching /\ watch'.pc = "rest"
      /\ watch'.attempt = watch.attempt /\ watch'.saved = Memory
      /\ watch'.retry = watch.retry /\ watch'.blocked = watch.blocked
      /\ watch'.episode = watch.episode
  BY <1>1, <1>5, <1>6 DEF Watching
<1>8. LimitTypesOK'
  BY <1>1, <1>5, <1>6, <1>7 DEF LimitsIndInv, LimitTypesOK
<1>9. Knows
  <2>1. /\ active.id = watch.attempt /\ active.id \in Nat /\ watch.episode \in Nat
        /\ limit'.episode = watch.episode
    BY <1>1, <1>2, <1>5, <1>6, LimitsAreNumbers DEF TypesOK, Attempts, Watching
  <2>2. watch'.attempt <= active.id /\ watch'.saved.episode <= limit'.episode
    BY <1>5, <1>7, <2>1
  <2>3. \A i \in Resumes(active.id) : sends[i].episode <= limit'.episode
    BY <2>1 DEF LimitsIndInv, ScheduleOK
  <2> QED BY <1>1, <1>7, <1>8, <2>2, <2>3, ScheduleGoesOn DEF Knows
<1> QED BY <1>1, <1>4, <1>7, <1>8, <1>9, TickKeeps

-----------------------------------------------------------------------------
(* The steps of a tick that steer, and those of everybody else.              *)

LEMMA TickSteeredKeeps ==
  ASSUME LimitsIndInv, LimitsAssumption, SteeringAssumption, TickSteered
  PROVE  LimitsIndInv'
<1>1. /\ watch \in Watching /\ watch.pc = "steer" /\ sender[Watcher].pc = "rest"
      /\ UNCHANGED <<active, pane, screen, sends, limit>> /\ Return(Watcher, "nothing")
      /\ IndInv /\ TypesOK
  BY DEF TickSteered, LimitsIndInv, LimitTypesOK, IndInv
<1>2. IndInv' /\ SameRows
  BY <1>1, WatcherReturns, RowsUnchanged
<1>3. sender'[Watcher].pc = "rest"
  BY <1>1, ReturnDoes DEF Senders, Answers
<1> DEFINE tried == watch.tried \/ sender[Watcher].learnt # "precondition"
           blocked == sender[Watcher].learnt \notin {"precondition", "retry"}
<1>4. watch' = [watch EXCEPT !.pc = "sync", !.tried = tried, !.blocked = blocked]
  BY <1>1 DEF TickSteered, Watching
<1>5. tried \in BOOLEAN /\ blocked \in BOOLEAN
  BY <1>1 DEF Watching
<1>6. ~blocked => ~Unread
  BY DEF Unread
<1> HIDE DEF tried, blocked
<1>7. /\ watch' \in Watching /\ watch'.pc = "sync"
      /\ watch'.attempt = watch.attempt /\ watch'.saved = watch.saved
      /\ watch'.retry = watch.retry /\ watch'.blocked = blocked
      /\ watch'.episode = watch.episode
  BY <1>1, <1>4, <1>5 DEF Watching
<1>8. LimitTypesOK'
  BY <1>1, <1>7, HoldTyped DEF TickSteered, ProjectHold, LimitsIndInv, LimitTypesOK
<1>9. Knows
  <2>1. Writing = {} /\ watch.retry /\ ~watch.blocked
    BY <1>1 DEF Writing, Typing, LimitsIndInv, TickOK
  <2>2. ~blocked => \A i \in Resumes(watch.attempt) : Spent(i, watch.episode)
    BY <1>6, <2>1 DEF LimitsIndInv, ScheduleOK
  <2>3. \A i \in Resumes(watch.attempt) : sends[i].episode <= watch.episode
    BY DEF LimitsIndInv, ScheduleOK
  <2> QED BY <1>1, <1>7, <2>2, <2>3 DEF Knows, LimitsIndInv, RecordedOK
<1> QED BY <1>1, <1>2, <1>3, <1>7, <1>8, <1>9, RestKeeps

LEMMA WatcherRestartsKeeps ==
  ASSUME LimitsIndInv, LimitsAssumption, SteeringAssumption, WatcherRestarts
  PROVE  LimitsIndInv'
<1>1. /\ UNCHANGED <<active, pane, screen, sends, limit, hold>> /\ Return(Watcher, "nothing")
      /\ watch' = Untracked /\ IndInv /\ TypesOK
  BY DEF WatcherRestarts, LimitsIndInv, IndInv
<1>2. IndInv' /\ SameRows
  BY <1>1, WatcherReturns, RowsUnchanged
<1>3. sender'[Watcher].pc = "rest"
  BY <1>1, ReturnDoes DEF Senders, Answers
<1>4. LimitTypesOK' /\ watch'.pc = "rest" /\ watch'.attempt = 0
  BY <1>1, UntrackedDoes DEF LimitsIndInv, LimitTypesOK
<1>5. Knows
  <2>1. active.id \in Nat /\ active.id # 0 /\ 0 \notin Attempts
    BY <1>1 DEF TypesOK, Attempts
  <2>2. Resumes(0) = {}
    BY <1>1, <2>1, RowTyped DEF Resumes, TypesOK
  <2> QED BY <1>1, <1>4, <2>1, <2>2 DEF Knows, LimitsIndInv, RecordedOK
<1> QED BY <1>1, <1>2, <1>3, <1>4, <1>5, RestKeeps

LEMMA TickResumesKeeps ==
  ASSUME LimitsIndInv, LimitsAssumption, SteeringAssumption, TickResumes
  PROVE  LimitsIndInv'
<1> DEFINE row == IF Pending(active.id) = {} THEN 0 ELSE CHOOSE i \in Pending(active.id) : TRUE
           next == [Resting("nothing") EXCEPT !.pc = FirstStep(Watcher), !.attempt = active.id,
                                              !.row = row]
<1>1. /\ watch \in Watching /\ watch.pc = "look" /\ watch.retry /\ ~watch.blocked
      /\ watch.saved.episode = watch.episode
      /\ active = [id |-> watch.attempt, running |-> TRUE]
      /\ StartSend(Watcher) /\ UNCHANGED <<active, sends, limit, hold>>
      /\ IndInv /\ TypesOK /\ Watcher \in Senders
  BY DEF TickResumes, ResumeDue, Current, StartSend, LimitsIndInv, LimitTypesOK, IndInv, Senders
<1>2. IndInv' /\ SameRows
  BY <1>1, StartSendKeeps, RowsUnchanged
<1>3. active.id = watch.attempt /\ watch.attempt \in Attempts
  BY <1>1 DEF TypesOK
<1>4. sender'[Watcher].pc \in Looking /\ sender'[Watcher].attempt = watch.attempt
  <2>1. sender' = [sender EXCEPT ![Watcher] = next]
    BY <1>1 DEF StartSend
  <2>2. sender'[Watcher] = next
    BY <1>1, <2>1 DEF TypesOK
  <2>3. FirstStep(Watcher) \in Looking
    BY DEF FirstStep, Looking
  <2>4. next.pc = FirstStep(Watcher) /\ next.attempt = active.id
    BY DEF Resting
  <2> HIDE DEF next
  <2> QED BY <1>3, <2>2, <2>3, <2>4
<1>5. /\ Looked \in Watching
      /\ Looked.attempt = watch.attempt /\ Looked.saved = watch.saved
      /\ Looked.retry = watch.retry /\ Looked.blocked = watch.blocked
      /\ Looked.episode = watch.episode
  BY <1>1, LookedDoes
<1>6. /\ watch' \in Watching /\ watch'.pc = "steer"
      /\ watch'.attempt = watch.attempt /\ watch'.saved = watch.saved
      /\ watch'.retry = watch.retry /\ watch'.blocked = watch.blocked
      /\ watch'.episode = watch.episode
  BY <1>5 DEF TickResumes, Watching
<1>7. LimitTypesOK'
  BY <1>1, <1>6 DEF LimitsIndInv, LimitTypesOK
<1>8. TickOK'
  BY <1>1, <1>3, <1>4, <1>6 DEF TickOK, Looking
<1>9. SameResumes /\ AttemptsKnown'
  BY <1>1, <1>2, SameRowsSameResumes DEF TypesOK, Attempts, LimitsIndInv, RecordedOK, AttemptsKnown
<1>10. ResumesOK'
  BY <1>9, OrderStays DEF LimitsIndInv
<1>11. RecordedOK'
  BY <1>1, <1>6, <1>9 DEF LimitsIndInv, RecordedOK, AttemptsKnown, SameResumes, Resumes
<1>12. Writing = {} /\ ~Unread
  BY <1>1 DEF LimitsIndInv, TickOK, Writing, Unread, Typing
<1>13. \A i \in Resumes(watch.attempt) : sends[i].episode <= watch.episode /\ Spent(i, watch.episode)
  BY <1>1, <1>12 DEF LimitsIndInv, ScheduleOK
<1>14. ScheduleOK'
  <2>1. sends' = sends /\ \A i : i \in Resumes(watch.attempt)' => i \in Resumes(watch.attempt)
    BY <1>1, <1>6 DEF Resumes
  <2> QED BY <1>6, <1>13, <2>1 DEF ScheduleOK, Spent, SendRetrySafe
<1> QED BY <1>2, <1>7, <1>8, <1>10, <1>11, <1>14 DEF LimitsIndInv

(* A step of the resume that is on its way.                                  *)
Stays(s) == sender'[s].pc = "rest" \/ sender'[s].attempt = sender[s].attempt

LEMMA WatcherMoves ==
  ASSUME IndInv, SteeringAssumption, NEW episode \in Nat, SendStep(Watcher, episode)
  PROVE  /\ sender[Watcher].pc # "rest" /\ Stays(Watcher)
         /\ \/ SameRows /\ Writing \subseteq Writing'
            \/ SameRows /\ sender'[Watcher].pc = "rest" /\ sender'[Watcher].learnt = "unresolved"
            \/ Begins(Watcher, episode) /\ Writing = {}
            \/ Writes(Watcher)
<1> DEFINE s == Watcher
<1>1. /\ TypesOK /\ LocksOK /\ sender \in [Senders -> Mind] /\ s \in Senders /\ s \notin Operators
      /\ sender[s] \in Mind
  BY DEF IndInv, TypesOK, Senders, SteeringAssumption
<1>2. sender[s].pc # "rest"
  BY DEF SendStep, WaitComposer, LockBusy, RecoverPending, VerifyLocked, BeginSend, SendText,
     SendEnter, FinalizeSend
<1>3. \A learnt \in Answers : Return(s, learnt) =>
         sender'[s].pc = "rest" /\ sender'[s].learnt = learnt
  BY <1>1, ReturnDoes
<1>4. {"nothing", "retry", "precondition", "refused", "done", "unresolved"} = Answers
  BY DEF Answers
<1>5. \A pc \in {"lock", "begin", "enter"} : Goto(s, pc) =>
         /\ sender'[s].attempt = sender[s].attempt
         /\ sender'[s].row = sender[s].row /\ sender'[s].pc = pc
  <2> TAKE pc \in {"lock", "begin", "enter"}
  <2>1. pc \in {"rest", "begin"} \cup Looking \cup Typing
    BY DEF Looking, Typing
  <2> QED BY <1>1, <2>1, GotoDoes
<1>6. \A state, reason : Conclude(s, state, reason) =>
         /\ sender'[s].attempt = sender[s].attempt
         /\ sender'[s].row = sender[s].row /\ sender'[s].pc = "finalize"
  <2> TAKE state, reason
  <2> HAVE Conclude(s, state, reason)
  <2>1. sender' = [sender EXCEPT ![s] = [sender[s] EXCEPT !.pc = "finalize",
                                                         !.verdict = <<state, reason>>]]
    BY DEF Conclude
  <2>2. sender'[s] = [sender[s] EXCEPT !.pc = "finalize", !.verdict = <<state, reason>>]
    BY <1>1, <2>1
  <2> QED BY <1>1, <2>2 DEF Mind
<1>7. sends' = sends => SameRows
  BY <1>1, RowsUnchanged
<1>8. sender[s].pc \notin Typing => Writing = {} /\ Writing \subseteq Writing'
  BY DEF Writing
<1>9. CASE WaitComposer(s)
  <2>1. sends' = sends /\ sender[s].pc \notin Typing
    BY <1>9 DEF WaitComposer, Typing
  <2>2. Stays(s)
    BY <1>3, <1>4, <1>5, <1>9 DEF WaitComposer, Stays
  <2> QED BY <1>2, <1>7, <1>8, <2>1, <2>2
<1>10. CASE LockBusy(s)
  <2>1. sends' = sends /\ sender[s].pc \notin Typing
    BY <1>10 DEF LockBusy, Typing
  <2>2. Stays(s)
    BY <1>3, <1>4, <1>10 DEF LockBusy, Stays
  <2> QED BY <1>2, <1>7, <1>8, <2>1, <2>2
<1>11. CASE RecoverPending(s)
  <2>1. sender[s].pc \notin Typing /\ ~Begins(s, episode) /\ ~Writes(s)
    BY <1>11 DEF RecoverPending, Typing, Begins, Writes
  <2>2. Stays(s)
    BY <1>3, <1>4, <1>11 DEF RecoverPending, Stays
  <2>3. Sends(s, episode)
    BY DEF Sends
  <2>4. SameRows
    BY <1>1, <2>1, <2>3, RowsOfStep
  <2> QED BY <1>2, <1>8, <2>1, <2>2, <2>4
<1>12. CASE VerifyLocked(s)
  <2>1. sender[s].pc \notin Typing /\ ~Begins(s, episode) /\ ~Writes(s)
    BY <1>12 DEF VerifyLocked, Typing, Begins, Writes
  <2>2. Stays(s)
    BY <1>3, <1>4, <1>5, <1>12 DEF VerifyLocked, Stays
  <2>3. Sends(s, episode)
    BY DEF Sends
  <2>4. SameRows
    BY <1>1, <2>1, <2>3, RowsOfStep
  <2> QED BY <1>2, <1>8, <2>1, <2>2, <2>4
<1>13. CASE BeginSend(s, episode)
  <2>1. sender[s].pc = "begin" /\ sender[s].pc \notin Typing
    BY <1>13 DEF BeginSend, Typing
  <2>2. CASE Return(s, "precondition") /\ UNCHANGED sends
    <3>1. Stays(s)
      BY <1>3, <1>4, <2>2 DEF Stays
    <3> QED BY <1>2, <1>7, <1>8, <2>1, <2>2, <3>1
  <2>3. CASE /\ sends' = Append(sends, [attempt |-> sender[s].attempt, origin |-> s,
                              episode |-> episode, state |-> "pending", reason |-> "none"])
             /\ sender' = [sender EXCEPT ![s].pc = "text", ![s].row = Len(sends) + 1]
    <3>1. sender' = [sender EXCEPT ![s] = [sender[s] EXCEPT !.pc = "text", !.row = Len(sends) + 1]]
      BY <2>3
    <3>2. sender'[s] = [sender[s] EXCEPT !.pc = "text", !.row = Len(sends) + 1]
      BY <1>1, <3>1
    <3>3. /\ sender'[s].pc = "text" /\ sender'[s].row = Len(sends) + 1
          /\ sender'[s].attempt = sender[s].attempt
      BY <1>1, <3>2 DEF Mind
    <3>4. Begins(s, episode) /\ Stays(s)
      BY <2>1, <2>3, <3>3 DEF Begins, Stays
    <3> QED BY <1>2, <1>8, <2>1, <3>4
  <2> QED BY <1>13, <2>2, <2>3 DEF BeginSend
<1>14. CASE SendText(s) \/ SendEnter(s)
  <2>1. sends' = sends /\ sender[s].pc \in Typing
    BY <1>14 DEF SendText, SendEnter, Typing
  <2>2. /\ sender'[s].pc \in {"enter", "finalize"}
        /\ sender'[s].attempt = sender[s].attempt /\ sender'[s].row = sender[s].row
    BY <1>5, <1>6, <1>14 DEF SendText, SendEnter
  <2>3. Writing \subseteq Writing' /\ Stays(s)
    BY <2>2 DEF Writing, Stays, Typing
  <2> QED BY <1>2, <1>7, <2>1, <2>3
<1>15. CASE FinalizeSend(s)
  <2>1. sender[s].pc = "finalize" /\ sender[s].verdict \in Verdicts
    BY <1>1, <1>15 DEF FinalizeSend, LocksOK
  <2>2. sends[sender[s].row].state = "pending" /\ Learnt(sender[s].verdict) \in Answers
    BY <1>1, <2>1, LearntAnswers DEF LocksOK, Typing
  <2>3. \/ Writes(s) /\ Return(s, Learnt(sender[s].verdict))
        \/ sends' = sends /\ Return(s, "unresolved")
    BY <1>15, <2>2 DEF FinalizeSend, Writes
  <2>4. \/ Writes(s) /\ sender'[s].pc = "rest"
        \/ sends' = sends /\ sender'[s].pc = "rest" /\ sender'[s].learnt = "unresolved"
    BY <1>3, <1>4, <2>2, <2>3
  <2>5. Stays(s)
    BY <2>4 DEF Stays
  <2> QED BY <1>2, <1>7, <2>4, <2>5
<1> QED BY <1>9, <1>10, <1>11, <1>12, <1>13, <1>14, <1>15 DEF SendStep

(* The schedule's resume is written behind the earlier ones.                 *)
LEMMA ResumeBeginsKeeps ==
  ASSUME LimitsIndInv, LimitsAssumption, SteeringAssumption, IndInv',
         watch.pc = "steer", UNCHANGED <<active, limit, hold, watch>>,
         Begins(Watcher, watch.episode), Writing = {}, Stays(Watcher),
         sender[Watcher].pc # "rest"
  PROVE  LimitsIndInv'
<1> DEFINE a == watch.attempt
           e == watch.episode
<1>1. /\ watch \in Watching /\ watch.retry /\ ~watch.blocked /\ watch.saved.episode = e
      /\ a \in Attempts /\ sender[Watcher].attempt = a /\ Watcher \in Senders /\ IndInv
      /\ sends \in Seq(SendRow)
  BY DEF LimitsIndInv, LimitTypesOK, TickOK, Senders, IndInv, TypesOK
<1>2. e \in Nat /\ limit.episode \in Nat /\ a \in Nat
  BY <1>1, LimitsAreNumbers DEF Watching, Attempts, LimitsIndInv, LimitTypesOK, LimitRow
<1> PICK n \in Nat : n = Len(sends) + 1
  BY <1>1, LenProperties
<1>3. /\ Len(sends') = n /\ n = Len(sends) + 1 /\ Len(sends) \in Nat
      /\ \A i \in 1..Len(sends) : sends'[i] = sends[i]
      /\ sends'[n].attempt = a /\ sends'[n].origin = Watcher /\ sends'[n].episode = e
      /\ active = [id |-> a, running |-> TRUE]
  BY <1>1, <1>2, BeginsDoes
<1>4. 1..Len(sends') = 1..Len(sends) \cup {n} /\ n \notin 1..Len(sends)
  BY <1>3, OneMore
<1>5. \A b : \A i \in Resumes(b)' : i \in Resumes(b) \/ (i = n /\ b = a)
  BY <1>3, <1>4 DEF Resumes
<1>6. \A b : \A i \in Resumes(b) : i \in 1..Len(sends) /\ i < n /\ sends'[i] = sends[i]
  BY <1>3 DEF Resumes
<1>7. \A i \in Resumes(a) : sends[i].episode <= e /\ Spent(i, e)
  BY <1>1 DEF LimitsIndInv, ScheduleOK, Unread
<1>8. LimitTypesOK'
  BY DEF LimitsIndInv, LimitTypesOK
<1>9. TickOK'
  BY <1>1 DEF LimitsIndInv, TickOK, Stays
<1>10. ResumesOK'
  <2> SUFFICES ASSUME NEW b \in Attempts, NEW i \in Resumes(b)', NEW j \in Resumes(b)', i < j
               PROVE  Spent(i, sends[j].episode)'
    BY DEF ResumesOK
  <2>1. CASE j = n
    <3>0. sends'[j].attempt = b /\ i \in 1..Len(sends')
      BY DEF Resumes
    <3>a. b = a /\ sends'[j].episode = e /\ i # n
      BY <1>3, <2>1, <3>0
    <3>1. b = a /\ i \in Resumes(a) /\ sends'[j].episode = e
      BY <1>5, <3>a
    <3>2. Spent(i, e) /\ sends'[i] = sends[i]
      BY <1>6, <1>7, <3>1
    <3> QED BY <3>1, <3>2 DEF Spent, SendRetrySafe
  <2>2. CASE j # n
    <3>1. j \in Resumes(b) /\ j \in 1..Len(sends) /\ i \in 1..Len(sends')
      BY <1>5, <1>6, <2>2 DEF Resumes
    <3>2. i \in Resumes(b)
      BY <1>3, <1>5, <3>1
    <3>3. Spent(i, sends[j].episode) /\ sends'[i] = sends[i] /\ sends'[j] = sends[j]
      BY <1>6, <3>1, <3>2 DEF LimitsIndInv, ResumesOK
    <3> QED BY <3>3 DEF Spent, SendRetrySafe
  <2> QED BY <2>1, <2>2
<1>11. RecordedOK'
  <2>1. active.id = a /\ e <= limit.episode
    BY <1>1, <1>3 DEF LimitsIndInv, RecordedOK
  <2>2. \A i \in 1..Len(sends') : sends'[i].attempt <= active.id
    BY <1>2, <1>3, <1>4, <2>1 DEF LimitsIndInv, RecordedOK
  <2>3. \A i \in Resumes(active.id)' : sends'[i].episode <= limit.episode
    <3> TAKE i \in Resumes(active.id)'
    <3>1. CASE i = n
      BY <1>3, <2>1, <3>1
    <3>2. CASE i # n
      <4>1. i \in Resumes(active.id) /\ sends'[i] = sends[i]
        BY <1>5, <1>6, <3>2, Zenon
      <4> QED BY <4>1 DEF LimitsIndInv, RecordedOK
    <3> QED BY <3>1, <3>2
  <2> QED BY <2>2, <2>3 DEF LimitsIndInv, RecordedOK
<1>12. ScheduleOK'
  <2>1. Writing' = {n} /\ ~Unread'
    BY <1>3 DEF Begins, Writing, Unread, Typing
  <2>2. \A i \in Resumes(a)' : sends'[i].episode <= e
    BY <1>2, <1>3, <1>5, <1>6, <1>7
  <2>3. \A i \in Resumes(a)' : i # n => Spent(i, e) /\ sends'[i] = sends[i]
    BY <1>5, <1>6, <1>7
  <2> QED BY <2>1, <2>2, <2>3 DEF ScheduleOK, Spent, SendRetrySafe
<1> QED BY <1>8, <1>9, <1>10, <1>11, <1>12 DEF LimitsIndInv

(* The verdict of the resume is written: it is due again only if its text    *)
(* was refused.                                                              *)
LEMMA ResumeWritesKeeps ==
  ASSUME LimitsIndInv, LimitsAssumption, SteeringAssumption, IndInv',
         watch.pc = "steer", UNCHANGED <<active, limit, hold, watch>>,
         Writes(Watcher), Stays(Watcher), sender[Watcher].pc # "rest"
  PROVE  LimitsIndInv'
<1> DEFINE a == watch.attempt
           e == watch.episode
<1>0. Watcher \in Senders /\ Watcher \notin Operators
  BY DEF Senders, SteeringAssumption
<1>1. /\ watch \in Watching /\ watch.retry /\ ~watch.blocked
      /\ a \in Attempts /\ sender[Watcher].attempt = a /\ IndInv /\ TypesOK
      /\ sender[Watcher].pc \in Typing /\ sender[Watcher].verdict \in Verdicts
  BY <1>0 DEF LimitsIndInv, LimitTypesOK, TickOK, Writes, Typing, IndInv, LocksOK
<1> PICK n \in 1..Len(sends) : n = sender[Watcher].row
  BY <1>0, <1>1, TypingKnows
<1> PICK v \in Verdicts : v = sender[Watcher].verdict
  BY <1>1
<1>2. /\ Len(sends') = Len(sends)
      /\ \A i \in 1..Len(sends) : i # n => sends'[i] = sends[i]
      /\ sends'[n].attempt = sends[n].attempt
      /\ sends'[n].origin = sends[n].origin
      /\ sends'[n].episode = sends[n].episode
      /\ sends'[n].state = v[1] /\ sends'[n].reason = v[2]
      /\ sends[n].state = "pending"
  BY <1>0, <1>1, WritesDoes, TypingKnows
<1>3. \A b : Resumes(b)' = Resumes(b) /\ Resumes(b) \subseteq 1..Len(sends)
  <2>1. \A i \in 1..Len(sends) : sends'[i].attempt = sends[i].attempt
                              /\ sends'[i].origin = sends[i].origin
    BY <1>2
  <2> QED BY <1>2, <2>1 DEF Resumes
<1>4. \A i \in 1..Len(sends) : sends'[i].episode = sends[i].episode
                            /\ (SendRetrySafe(sends[i]) => SendRetrySafe(sends'[i]))
  BY <1>2 DEF SendRetrySafe
<1>5. /\ sender'[Watcher].pc = "rest" /\ sender'[Watcher].learnt = Learnt(v)
      /\ Writing' = {} /\ Writing = {n}
  <2>1. Learnt(v) \in Answers
    BY LearntAnswers
  <2>2. sender'[Watcher].pc = "rest" /\ sender'[Watcher].learnt = Learnt(v)
    BY <1>0, <1>1, <2>1, ReturnDoes DEF Writes
  <2> QED BY <1>1, <2>2 DEF Writing, Typing
<1>6. LimitTypesOK'
  BY DEF LimitsIndInv, LimitTypesOK
<1>7. TickOK'
  BY <1>1, <1>5 DEF LimitsIndInv, TickOK
<1>8. ResumesOK'
  <2> SUFFICES ASSUME NEW b \in Attempts, NEW i \in Resumes(b), NEW j \in Resumes(b), i < j
               PROVE  Spent(i, sends[j].episode)'
    BY <1>3 DEF ResumesOK
  <2>1. Spent(i, sends[j].episode)
    BY DEF LimitsIndInv, ResumesOK
  <2>2. /\ sends'[i].episode = sends[i].episode /\ sends'[j].episode = sends[j].episode
        /\ SendRetrySafe(sends[i]) => SendRetrySafe(sends'[i])
    BY <1>3, <1>4
  <2> QED BY <2>1, <2>2 DEF Spent, SendRetrySafe
<1>9. RecordedOK'
  <2>1. \A i \in 1..Len(sends) : sends'[i].attempt = sends[i].attempt
    BY <1>2
  <2> QED BY <1>2, <1>3, <1>4, <2>1 DEF LimitsIndInv, RecordedOK
<1>10. ScheduleOK'
  <2>1. \A i \in Resumes(a) : sends'[i].episode <= e
    BY <1>3, <1>4 DEF LimitsIndInv, ScheduleOK
  <2>2. ASSUME ~Unread', NEW i \in Resumes(a) PROVE Spent(i, watch.episode)'
    <3>1. CASE i = n
      <4>1. Learnt(v) \in {"precondition", "retry"}
        BY <1>5, <2>2 DEF Unread
      <4>2. v = <<"not-submitted", "text-rejected">>
        BY <4>1 DEF Learnt, Verdicts
      <4>3. SendRetrySafe(sends'[i])
        BY <1>2, <3>1, <4>2 DEF SendRetrySafe
      <4> QED BY <2>1, <4>3 DEF Spent, SendRetrySafe
    <3>2. CASE i # n
      <4>1. Spent(i, watch.episode) /\ sends'[i] = sends[i]
        <5>1. i \in Resumes(watch.attempt) \ Writing /\ ~Unread
          BY <1>5, <3>2, <1>1 DEF Unread, Typing
        <5> QED BY <1>1, <1>2, <1>3, <3>2, <5>1 DEF LimitsIndInv, ScheduleOK
      <4> QED BY <4>1 DEF Spent, SendRetrySafe
    <3> QED BY <3>1, <3>2
  <2> QED BY <1>3, <2>1, <2>2 DEF ScheduleOK
<1> QED BY <1>6, <1>7, <1>8, <1>9, <1>10 DEF LimitsIndInv

LEMMA TickSteersKeeps ==
  ASSUME LimitsIndInv, LimitsAssumption, SteeringAssumption, TickSteers
  PROVE  LimitsIndInv'
<1>0. Watcher \in Senders /\ IndInv /\ TypesOK /\ watch \in Watching
  BY DEF Senders, LimitsIndInv, IndInv, LimitTypesOK
<1>1. /\ watch.pc = "steer" /\ UNCHANGED <<limit, hold, watch>>
      /\ SendStep(Watcher, watch.episode)
  BY DEF TickSteers
<1>2. watch.episode \in Nat
  BY <1>0, LimitsAreNumbers DEF Watching
<1>3. Sends(Watcher, watch.episode)
  BY <1>1 DEF Sends
<1>4. IndInv' /\ active' = active
  BY <1>0, <1>2, <1>3, SendsKeep, OthersStay
<1>5. /\ sender[Watcher].pc # "rest" /\ Stays(Watcher)
      /\ \/ SameRows /\ Writing \subseteq Writing'
         \/ SameRows /\ sender'[Watcher].pc = "rest" /\ sender'[Watcher].learnt = "unresolved"
         \/ Begins(Watcher, watch.episode) /\ Writing = {}
         \/ Writes(Watcher)
  BY <1>0, <1>1, <1>2, WatcherMoves
<1>6. CASE /\ SameRows
           /\ \/ Writing \subseteq Writing'
              \/ sender'[Watcher].pc = "rest" /\ sender'[Watcher].learnt = "unresolved"
  <2>1. SameResumes /\ AttemptsKnown'
    BY <1>0, <1>4, <1>6, SameRowsSameResumes
    DEF TypesOK, Attempts, LimitsIndInv, RecordedOK, AttemptsKnown
  <2>2. LimitTypesOK'
    BY <1>1 DEF LimitsIndInv, LimitTypesOK
  <2>3. TickOK'
    BY <1>1, <1>5 DEF LimitsIndInv, TickOK, Stays
  <2>4. ResumesOK'
    BY <2>1, OrderStays DEF LimitsIndInv
  <2>5. RecordedOK'
    BY <1>1, <1>4, <2>1 DEF LimitsIndInv, RecordedOK, AttemptsKnown, SameResumes
  <2>6. ScheduleOK'
    <3>1. \A i \in Resumes(watch.attempt)' : sends'[i].episode <= watch.episode
      BY <1>1, <2>1 DEF SameResumes, LimitsIndInv, ScheduleOK
    <3>2. ASSUME watch.retry, ~watch.blocked, ~Unread', NEW i \in Resumes(watch.attempt)',
                 i \notin Writing'
          PROVE  Spent(i, watch.episode)'
      <4>1. i \in Resumes(watch.attempt) \ Writing /\ ~Unread
        BY <1>1, <1>5, <1>6, <2>1, <3>2 DEF SameResumes, Unread
      <4>2. Spent(i, watch.episode)
        BY <3>2, <4>1 DEF LimitsIndInv, ScheduleOK
      <4>3. /\ sends'[i].episode = sends[i].episode
            /\ SendRetrySafe(sends'[i]) = SendRetrySafe(sends[i])
        BY <2>1, <4>1 DEF SameResumes
      <4> QED BY <1>1, <4>2, <4>3 DEF Spent, SendRetrySafe
    <3> QED BY <1>1, <3>1, <3>2 DEF ScheduleOK
  <2> QED BY <1>4, <2>2, <2>3, <2>4, <2>5, <2>6 DEF LimitsIndInv
<1> QED BY <1>1, <1>4, <1>5, <1>6, ResumeBeginsKeeps, ResumeWritesKeeps

(* What is neither the watcher's step nor a resume of its own.               *)
LEMMA ElseKeeps ==
  ASSUME LimitsIndInv, LimitsAssumption, SteeringAssumption, IndInv', LimitTypesOK',
         SameResumes, AttemptsKnown', watch' = watch, sender'[Watcher] = sender[Watcher],
         watch.pc = "record" => locks'.task = Watcher /\ active' = active,
         \/ active'.id = active.id /\ limit'.episode >= limit.episode
         \/ active'.id = active.id + 1
  PROVE  LimitsIndInv'
<1>1. /\ watch.attempt \in Nat /\ active.id \in Nat /\ active'.id \in Nat
      /\ limit.episode \in Nat /\ limit'.episode \in Nat /\ watch.saved.episode \in Nat
  <2>1. /\ watch.attempt \in {0} \cup Attempts /\ active.id \in Attempts /\ active'.id \in Attempts
        /\ limit \in LimitRow /\ limit' \in LimitRow /\ watch.saved \in LimitRow
    BY DEF LimitsIndInv, LimitTypesOK, Watching, IndInv, TypesOK
  <2> QED BY <2>1, LimitsAreNumbers DEF Attempts, LimitRow
<1>2. TickOK'
  BY DEF LimitsIndInv, TickOK
<1>3. ResumesOK'
  BY OrderStays DEF LimitsIndInv
<1>4. ScheduleOK'
  <2>1. Writing' = Writing /\ Unread' = Unread
    BY DEF Writing, Unread
  <2>2. Resumes(watch.attempt)' = Resumes(watch.attempt)
    BY DEF SameResumes
  <2>3. \A i \in Resumes(watch.attempt) :
           /\ sends'[i].episode = sends[i].episode
           /\ SendRetrySafe(sends'[i]) = SendRetrySafe(sends[i])
    BY DEF SameResumes
  <2> QED BY <2>1, <2>2, <2>3 DEF LimitsIndInv, ScheduleOK, Spent, SendRetrySafe
<1>5. RecordedOK'
  <2>0. \A i \in Resumes(active'.id) : sends'[i].episode = sends[i].episode
    BY DEF SameResumes
  <2>1. CASE active'.id = active.id /\ limit'.episode >= limit.episode
    <3>1. Resumes(active.id)' = Resumes(active.id)
      BY <2>1 DEF SameResumes, Resumes
    <3>2. ASSUME NEW i \in Resumes(active.id) PROVE sends'[i].episode <= limit'.episode
      <4>1. sends[i].episode <= limit.episode /\ i \in 1..Len(sends)
        BY DEF LimitsIndInv, RecordedOK, Resumes
      <4>2. sends[i].episode \in Nat
        BY <4>1, RowTyped DEF SendRow, LimitsIndInv, IndInv, TypesOK
      <4> QED BY <1>1, <2>0, <2>1, <4>1, <4>2
    <3>3. watch.attempt <= active'.id /\ (watch.attempt = active'.id =>
             watch.saved.episode <= limit'.episode)
      BY <1>1, <2>1 DEF LimitsIndInv, RecordedOK
    <3> QED BY <3>1, <3>2, <3>3 DEF RecordedOK, AttemptsKnown
  <2>2. CASE active'.id = active.id + 1
    <3>1. watch.attempt < active'.id
      BY <1>1, <2>2 DEF LimitsIndInv, RecordedOK
    <3>2. Resumes(active'.id) = {}
      <4> SUFFICES ASSUME NEW i \in Resumes(active'.id) PROVE FALSE
        OBVIOUS
      <4>1. i \in 1..Len(sends) /\ sends[i].attempt = active'.id
        BY DEF Resumes
      <4>2. sends[i].attempt <= active.id
        BY <4>1 DEF LimitsIndInv, RecordedOK
      <4> QED BY <1>1, <2>2, <4>1, <4>2
    <3>3. Resumes(active.id)' = {}
      <4>1. \A a : Resumes(a)' = {} \/ Resumes(a) # {}
        BY DEF SameResumes
      <4> PICK b \in Nat : b = active'.id
        BY <1>1
      <4>2. Resumes(b)' = {}
        BY <3>2, <4>1
      <4> QED BY <4>2 DEF Resumes
    <3> QED BY <1>1, <3>1, <3>3 DEF RecordedOK, AttemptsKnown
  <2> QED BY <2>1, <2>2
<1> QED BY <1>2, <1>3, <1>4, <1>5 DEF LimitsIndInv

LEMMA RowsStay ==
  ASSUME LimitsIndInv, UNCHANGED <<active, sends>>
  PROVE  SameResumes /\ AttemptsKnown'
<1>1. SameRows
  BY RowsUnchanged DEF LimitsIndInv, IndInv, TypesOK
<1> QED BY <1>1, SameRowsSameResumes
  DEF LimitsIndInv, IndInv, TypesOK, Attempts, RecordedOK, AttemptsKnown

LEMMA RecordAttemptLivenessKeeps ==
  ASSUME LimitsIndInv, LimitsAssumption, SteeringAssumption, RecordAttemptLiveness
  PROVE  LimitsIndInv'
<1>1. /\ UNCHANGED <<active, pane, screen, sends, locks, sender, watch>> /\ IndInv /\ TypesOK
      /\ limit \in LimitRow /\ UNCHANGED steering
  BY DEF RecordAttemptLiveness, steering, LimitsIndInv, IndInv, LimitTypesOK
<1>2. IndInv' /\ SameResumes /\ AttemptsKnown'
  BY <1>1, StutterKeeps, RowsStay
<1>3. Status \in {"working", "idle"}
  BY DEF RecordAttemptLiveness, Status
<1> DEFINE running == Status = "working"
           resumed == running /\ hold = "limit"
           limited == /\ screen.refused
                      /\ limit.status # "idle" /\ ~limit.retry
                      /\ limit.episode < MaxEpisodes
           episode == IF limited THEN limit.episode + 1 ELSE limit.episode
<1>4. episode \in 0..MaxEpisodes /\ episode >= limit.episode
  <2>1. limit.episode \in Nat /\ limit.episode <= MaxEpisodes /\ MaxEpisodes \in Nat
    BY <1>1 DEF LimitRow, LimitsAssumption
  <2>2. limited => limit.episode < MaxEpisodes
    OBVIOUS
  <2> HIDE DEF limited
  <2> QED BY <2>1, <2>2
<1> PICK scheduled \in BOOLEAN :
      limit' = [retry |-> IF limited THEN scheduled ELSE limit.retry /\ ~resumed,
                tried |-> limit.tried /\ ~limited /\ ~resumed,
                episode |-> episode, status |-> Status]
  BY DEF RecordAttemptLiveness
<1>5. limit' \in LimitRow /\ limit'.episode = episode
  <2>1. /\ (IF limited THEN scheduled ELSE limit.retry /\ ~resumed) \in BOOLEAN
        /\ (limit.tried /\ ~limited /\ ~resumed) \in BOOLEAN
    BY <1>1 DEF LimitRow
  <2> HIDE DEF limited, resumed, episode
  <2> QED BY <1>3, <1>4, <2>1 DEF LimitRow
<1>6. LimitTypesOK'
  BY <1>1, <1>5, HoldTyped DEF RecordAttemptLiveness, LimitsIndInv, LimitTypesOK
<1>7. watch.pc = "record" => locks'.task = Watcher
  BY <1>1 DEF LimitsIndInv, TickOK
<1> QED BY <1>1, <1>2, <1>4, <1>5, <1>6, <1>7, ElseKeeps

LEMMA OperatorHoldsKeeps ==
  ASSUME LimitsIndInv, LimitsAssumption, SteeringAssumption, OperatorHolds
  PROVE  LimitsIndInv'
<1>1. /\ UNCHANGED <<active, sends, locks, sender, watch, limit>> /\ IndInv
      /\ UNCHANGED steering /\ limit \in LimitRow
  BY DEF OperatorHolds, steering, LimitsIndInv, LimitTypesOK
<1>2. IndInv' /\ SameResumes /\ AttemptsKnown'
  BY <1>1, StutterKeeps, RowsStay
<1>3. LimitTypesOK'
  BY <1>1 DEF OperatorHolds, LimitsIndInv, LimitTypesOK
<1>4. watch.pc = "record" => locks'.task = Watcher
  BY <1>1 DEF LimitsIndInv, TickOK
<1>5. limit'.episode >= limit.episode
  BY <1>1, LimitsAreNumbers DEF LimitRow
<1> QED BY <1>1, <1>2, <1>3, <1>4, <1>5, ElseKeeps

LEMMA StutterKeepsLimits ==
  ASSUME LimitsIndInv, LimitsAssumption, SteeringAssumption, UNCHANGED limitVars
  PROVE  LimitsIndInv'
<1>1. /\ UNCHANGED <<active, sends, locks, sender, watch, limit, hold>> /\ IndInv
      /\ UNCHANGED steering /\ limit \in LimitRow
  BY DEF limitVars, steering, LimitsIndInv, LimitTypesOK
<1>2. IndInv' /\ SameResumes /\ AttemptsKnown'
  BY <1>1, StutterKeeps, RowsStay
<1>3. LimitTypesOK'
  BY <1>1 DEF LimitsIndInv, LimitTypesOK
<1>4. watch.pc = "record" => locks'.task = Watcher
  BY <1>1 DEF LimitsIndInv, TickOK
<1>5. limit'.episode >= limit.episode
  BY <1>1, LimitsAreNumbers DEF LimitRow
<1> QED BY <1>1, <1>2, <1>3, <1>4, <1>5, ElseKeeps

LEMMA OperatorStepKeeps ==
  ASSUME LimitsIndInv, LimitsAssumption, SteeringAssumption, NEW o \in Operators,
         OperatorStep(o)
  PROVE  LimitsIndInv'
<1>1. /\ Sends(o, 0) /\ UNCHANGED <<limit, hold, watch>> /\ IndInv /\ TypesOK
      /\ o \in Senders /\ o # Watcher /\ Watcher \in Senders /\ Watcher # Nobody
      /\ limit \in LimitRow /\ AttemptsKnown
  BY DEF OperatorStep, LimitsIndInv, IndInv, LimitTypesOK, Senders, SteeringAssumption,
     RecordedOK, AttemptsKnown
<1>2. IndInv' /\ active' = active /\ sender'[Watcher] = sender[Watcher]
  BY <1>1, SendsKeep, OthersStay
<1>3. SameResumes /\ AttemptsKnown'
  BY <1>1, OperatorsRows
<1>4. LimitTypesOK'
  BY <1>1 DEF LimitsIndInv, LimitTypesOK
<1>5. watch.pc = "record" => locks'.task = Watcher
  <2> SUFFICES ASSUME watch.pc = "record" PROVE locks'.task = Watcher
    OBVIOUS
  <2>1. locks.task = Watcher
    BY DEF LimitsIndInv, TickOK
  <2> QED BY <1>1, <2>1, HolderStays DEF TypesOK
<1>6. limit'.episode >= limit.episode
  BY <1>1, LimitsAreNumbers DEF LimitRow
<1> QED BY <1>1, <1>2, <1>3, <1>4, <1>5, <1>6, ElseKeeps

LEMMA LifecycleStepKeeps ==
  ASSUME LimitsIndInv, LimitsAssumption, SteeringAssumption, LifecycleStep
  PROVE  LimitsIndInv'
<1>1. /\ CommandStep /\ UNCHANGED watch /\ IndInv /\ TypesOK
      /\ limit \in LimitRow /\ AttemptsKnown /\ sends \in Seq(SendRow)
      /\ active \in [id : Attempts, running : BOOLEAN] /\ active.id \in Nat
  BY DEF LifecycleStep, LimitsIndInv, IndInv, LimitTypesOK, RecordedOK, AttemptsKnown, TypesOK,
     Attempts
<1>2. IndInv' /\ sender' = sender
  BY <1>1, CommandStepKeeps DEF CommandStep, CommandTakes, CommandLeaves, NormalizePendingSends,
     EndAttempt, LaunchAttempt
<1>3. \/ active'.id = active.id
      \/ active'.id = active.id + 1
  BY <1>1 DEF CommandStep, CommandTakes, CommandLeaves, NormalizePendingSends,
     EndAttempt, LaunchAttempt
<1>4. SameRows
  <2>1. CASE NormalizePendingSends
    <3>1. \A i \in UNION {Pending(a) : a \in Attempts} : sends[i].state = "pending"
      BY DEF Pending
    <3>2. sends' = Normalized(UNION {Pending(a) : a \in Attempts})
      BY <2>1 DEF NormalizePendingSends
    <3> QED BY <1>1, <3>1, <3>2, NormalizedDoes
  <2>2. CASE ~NormalizePendingSends
    <3>1. sends' = sends
      BY <1>1, <2>2 DEF CommandStep, CommandTakes, CommandLeaves, EndAttempt, LaunchAttempt
    <3> QED BY <1>1, <3>1, RowsUnchanged
  <2> QED BY <2>1, <2>2
<1>5. SameResumes /\ AttemptsKnown'
  <2>1. active'.id >= active.id /\ active'.id \in Nat
    BY <1>1, <1>3
  <2> QED BY <1>1, <1>4, <2>1, SameRowsSameResumes
<1>6. limit' \in LimitRow /\ hold' \in {hold, NoLimitHold}
  BY <1>1, UntrackedDoes DEF LifecycleStep
<1>7. LimitTypesOK'
  BY <1>1, <1>6, HoldTyped DEF LimitsIndInv, LimitTypesOK
<1>8. watch.pc # "record"
  <2>1. locks.task # Watcher
    BY <1>1 DEF CommandStep, CommandTakes, CommandLeaves, NormalizePendingSends, EndAttempt,
       LaunchAttempt, SteeringAssumption, Senders
  <2> QED BY <2>1 DEF LimitsIndInv, TickOK
<1>9. active'.id = active.id => limit'.episode >= limit.episode
  BY <1>1, LimitsAreNumbers DEF LifecycleStep, LimitRow
<1> QED BY <1>1, <1>2, <1>3, <1>5, <1>7, <1>8, <1>9, ElseKeeps

LEMMA WorkerActsKeeps ==
  ASSUME LimitsIndInv, LimitsAssumption, SteeringAssumption, WorkerActs
  PROVE  LimitsIndInv'
<1>1. /\ UNCHANGED <<active, sends, locks, sender, watch, limit, hold>> /\ IndInv
      /\ WorkerStep /\ limit \in LimitRow
  BY DEF WorkerActs, WorkerStep, WorkerStops, WorkerLeaves, LimitsIndInv, LimitTypesOK
<1>2. IndInv' /\ SameResumes /\ AttemptsKnown'
  BY <1>1, WorkerStepKeeps, RowsStay
<1>3. LimitTypesOK'
  BY <1>1 DEF LimitsIndInv, LimitTypesOK
<1>4. watch.pc = "record" => locks'.task = Watcher
  BY <1>1 DEF LimitsIndInv, TickOK
<1>5. limit'.episode >= limit.episode
  BY <1>1, LimitsAreNumbers DEF LimitRow
<1> QED BY <1>1, <1>2, <1>3, <1>4, <1>5, ElseKeeps

-----------------------------------------------------------------------------
(* The theorems.                                                             *)

LEMMA LimitsInitHolds ==
  ASSUME LimitsInit, LimitsAssumption, SteeringAssumption
  PROVE  LimitsIndInv
<1>1. IndInv /\ TypesOK
  BY InitHolds DEF LimitsInit, IndInv
<1>2. LimitTypesOK /\ watch.pc = "rest" /\ watch.attempt = 0 /\ watch.saved.episode = 0
      /\ limit.episode = 0
  BY UntrackedDoes DEF LimitsInit, LimitTypesOK, Untracked
<1>3. sender[Watcher].pc = "rest"
  BY DEF LimitsInit, SteeringInit, Resting, Senders
<1>4. Len(sends) = 0 /\ 1..Len(sends) = {}
  BY EmptySeq DEF LimitsInit, SteeringInit
<1>5. \A a : Resumes(a) = {}
  BY <1>4 DEF Resumes
<1>6. active.id \in Nat /\ 0 <= active.id /\ 0 # active.id
  BY <1>1 DEF TypesOK, Attempts
<1>7. TickOK /\ ResumesOK /\ ScheduleOK
  BY <1>2, <1>3, <1>5 DEF TickOK, ResumesOK, ScheduleOK
<1>8. RecordedOK
  BY <1>2, <1>4, <1>5, <1>6 DEF RecordedOK
<1> QED BY <1>1, <1>2, <1>7, <1>8 DEF LimitsIndInv

LEMMA LimitsStepKeeps ==
  ASSUME LimitsIndInv, LimitsAssumption, SteeringAssumption, [LimitsNext]_limitVars
  PROVE  LimitsIndInv'
BY TickSightsKeeps, TickForgetsKeeps, TickReadsKeeps, TickLooksKeeps, TickResumesKeeps,
   TickCannotResumeKeeps, TickSteersKeeps, TickSteeredKeeps, TickSkipsSyncKeeps,
   TickSyncsKeeps, TickRecordsKeeps, WatcherRestartsKeeps, RecordAttemptLivenessKeeps,
   OperatorHoldsKeeps, LifecycleStepKeeps, WorkerActsKeeps, OperatorStepKeeps,
   StutterKeepsLimits DEF LimitsNext, WatcherStep

(* Every state of every instance: the inductive invariant of the limits.     *)
THEOREM LimitsIndInvAlways == LimitsSpec => []LimitsIndInv
<1>1. LimitsInit => LimitsIndInv
  BY LimitsInitHolds, LimitsAssumption, SteeringAssumption
<1>2. LimitsIndInv /\ [LimitsNext]_limitVars => LimitsIndInv'
  BY LimitsStepKeeps, LimitsAssumption, SteeringAssumption
<1> QED BY <1>1, <1>2, PTL DEF LimitsSpec

(* A resume that reached the worker is not known to have typed nothing, and  *)
(* of two of them the earlier one is of an earlier episode.                  *)
LEMMA OneResume ==
  ASSUME LimitsIndInv, NEW a \in Attempts, NEW e \in 1..MaxEpisodes
  PROVE  Cardinality({i \in DOMAIN sends :
            /\ sends[i].origin = Watcher /\ sends[i].attempt = a /\ sends[i].episode = e
            /\ \E l \in Lines(a) : Within(i, l)}) <= 1
<1> DEFINE typed == {i \in DOMAIN sends :
              /\ sends[i].origin = Watcher /\ sends[i].attempt = a /\ sends[i].episode = e
              /\ \E l \in Lines(a) : Within(i, l)}
<1>1. DOMAIN sends = 1..Len(sends) /\ Len(sends) \in Nat
  BY LenProperties DEF LimitsIndInv, IndInv, TypesOK
<1>2. \A i \in typed : /\ i \in Resumes(a) /\ i \in 1..Len(sends) /\ sends[i].episode = e
                       /\ ~SendRetrySafe(sends[i])
  <2> TAKE i \in typed
  <2>1. i \in Resumes(a) /\ i \in 1..Len(sends) /\ sends[i].episode = e /\ OnLine(i, a)
    BY <1>1 DEF Resumes, OnLine
  <2>2. RowTrue(i)
    BY <2>1 DEF LimitsIndInv, IndInv, TruthOK
  <2> QED BY <2>1, <2>2 DEF RowTrue, Unseen
<1>3. e \in Nat
  OBVIOUS
<1> HIDE DEF typed
<1>4. \A i, j \in typed : ~(i < j)
  <2> SUFFICES ASSUME NEW i \in typed, NEW j \in typed, i < j PROVE FALSE
    OBVIOUS
  <2>1. Spent(i, sends[j].episode)
    BY <1>2 DEF LimitsIndInv, ResumesOK
  <2> QED BY <1>2, <1>3, <2>1 DEF Spent
<1>5. \A i, j \in typed : i = j
  <2> TAKE i \in typed, j \in typed
  <2>1. i \in 1..Len(sends) /\ j \in 1..Len(sends) /\ ~(i < j) /\ ~(j < i)
    BY <1>2, <1>4
  <2> QED BY <1>1, <2>1
<1>6. typed = {} \/ \E i \in typed : typed = {i}
  BY <1>5
<1>7. Cardinality(typed) <= 1
  <2>1. Cardinality({}) = 0
    BY FS_EmptySet
  <2>2. \A i : Cardinality({i}) = 1
    BY FS_Singleton
  <2>3. Cardinality(typed) = 0 \/ Cardinality(typed) = 1
    BY <1>6, <2>1, <2>2, Zenon
  <2> QED BY <2>3
<1> QED BY <1>7 DEF typed

(* One automatic resume per usage-limit episode is typed, whatever the       *)
(* watcher, its successors, reconcile and the commands do in between         *)
(* (attemptUsageLimitResume, restoreUsageLimitState, BlocksRetry).           *)
THEOREM LimitsInvAlways == LimitsSpec => []LimitsInv
<1>1. LimitsIndInv => LimitsInv
  <2> SUFFICES ASSUME LimitsIndInv PROVE LimitsInv
    OBVIOUS
  <2>1. SteeringTypeOK
    BY SteeringTyped DEF LimitsIndInv
  <2>2. LimitsTypeOK
    BY <2>1 DEF LimitsTypeOK, LimitsIndInv, LimitTypesOK, LimitRow, Watching
  <2>3. OneResumePerEpisode
    BY OneResume DEF OneResumePerEpisode
  <2> QED BY <2>2, <2>3 DEF LimitsInv
<1> QED BY <1>1, LimitsIndInvAlways, PTL

(* Neither the limit machinery nor a command that ends the attempt takes the *)
(* operator's hold away or puts one up (SetLimitHold, ClearLimitHold).       *)
THEOREM OperatorHoldAlways == LimitsSpec => OperatorHoldKept
<1>1. [LimitsNext]_limitVars =>
        [hold # hold' /\ "operator" \in {hold, hold'} => UNCHANGED <<steering, limit, watch>>]_limitVars
  <2> SUFFICES ASSUME LimitsNext, hold # hold', "operator" \in {hold, hold'}
               PROVE  UNCHANGED <<steering, limit, watch>>
    BY DEF limitVars
  <2>1. hold' \notin {LimitHold, NoLimitHold}
    BY DEF LimitHold, NoLimitHold
  <2>2. ~WatcherStep
    BY <2>1 DEF WatcherStep, TickSights, TickForgets, TickReads, TickLooks, TickResumes,
       TickCannotResume, TickSteers, TickSteered, TickSkipsSync, TickSyncs, TickRecords,
       ClearUsageLimit, ObserveBlocked, NotDue, DetectUsageLimit, NothingToDo, ProjectHold
  <2>3. ~WatcherRestarts /\ ~RecordAttemptLiveness /\ ~LifecycleStep
    BY <2>1 DEF WatcherRestarts, RecordAttemptLiveness, LifecycleStep
  <2>4. ~WorkerActs /\ \A o \in Operators : ~OperatorStep(o)
    BY DEF WorkerActs, OperatorStep
  <2> QED BY <2>2, <2>3, <2>4 DEF LimitsNext, OperatorHolds
<1> QED BY <1>1, PTL DEF LimitsSpec, OperatorHoldKept

(* A limit hold goes up while the task's attempt runs, and the watcher moves *)
(* one only for the attempt it waits for, while that one runs and owns the   *)
(* task: it looks at the owner again under the task's lock                   *)
(* (projectUsageLimitHold, syncUsageLimitHold).                              *)
THEOREM NoHoldForTheEndedAlways == LimitsSpec => NoHoldForTheEnded
<1>1. [LimitsNext]_limitVars =>
        [/\ (hold # "limit" /\ hold' = "limit") => active.running
         /\ (hold' # hold /\ watch' # watch) => Current(watch.attempt)]_limitVars
  <2> SUFFICES ASSUME LimitsNext, hold' # hold
               PROVE  /\ (hold # "limit" /\ hold' = "limit") => active.running
                      /\ (hold' # hold /\ watch' # watch) => Current(watch.attempt)
    BY DEF limitVars
  <2>1. Current(watch.attempt) => active.running
    BY DEF Current
  <2>2. CASE WatcherStep
    <3>1. MayProject => Current(watch.attempt)
      BY DEF MayProject
    <3>2. Current(watch.attempt)
      BY <2>2, <3>1 DEF WatcherStep, TickSights, TickForgets, TickReads, TickLooks, TickResumes,
         TickCannotResume, TickSteers, TickSteered, TickSkipsSync, TickSyncs, TickRecords,
         ClearUsageLimit, ObserveBlocked, NotDue, DetectUsageLimit, NothingToDo, ProjectHold
    <3> QED BY <2>1, <3>2
  <2>3. CASE RecordAttemptLiveness
    BY <2>3 DEF RecordAttemptLiveness
  <2>4. CASE OperatorHolds
    BY <2>4 DEF OperatorHolds
  <2>5. CASE LifecycleStep
    <3>1. hold' = NoLimitHold /\ UNCHANGED watch
      BY <2>5 DEF LifecycleStep
    <3> QED BY <3>1 DEF NoLimitHold
  <2>6. ~WatcherRestarts /\ ~WorkerActs /\ \A o \in Operators : ~OperatorStep(o)
    BY DEF WatcherRestarts, WorkerActs, OperatorStep
  <2> QED BY <2>2, <2>3, <2>4, <2>5, <2>6 DEF LimitsNext
<1> QED BY <1>1, PTL DEF LimitsSpec, NoHoldForTheEnded

=============================================================================
