------------------------------ MODULE HandTakeover ------------------------------
(***************************************************************************)
(* hand watch as the owner of a fleet home.  The authority is the kernel   *)
(* lock on watch.pid.lock and nothing else; it goes away with its process. *)
(* Around it an owner publishes a routing record with a fresh generation   *)
(* and listens on an endpoint whose name is derived from that generation.  *)
(* A contender with --takeover reads the record, asks at the endpoint, and *)
(* waits for the lock.                                                     *)
(*                                                                         *)
(* Every file operation, every call on the endpoint and every look at the  *)
(* lock is a step of its own; a process may die at any of them.  The       *)
(* advisory pid file has no reader and appears only as a step that may     *)
(* fail.  A connection is the handler that serves it: it is accepted when  *)
(* it is made.                                                             *)
(***************************************************************************)
EXTENDS Naturals, FiniteSets

CONSTANTS
    Watchers,      \* process slots; a slot is also the pid of whoever runs in it
    Nobody,
    MaxGen,        \* bound on the generations issued
    Faults         \* subset of {"crash", "file", "signal"}

ASSUME TakeoverAssumption ==
    /\ Nobody \notin Watchers
    /\ MaxGen \in Nat

VARIABLES
    lock,        \* the holder of the kernel lock
    record,      \* watch.owner: [gen, pid]; generation 0 is no record
    issued,      \* generations issued so far (they are random and never repeat)
    named,       \* generations that a contender has read from the record
    w,           \* the processes
    handlers     \* connections at endpoints: who asks which generation, line arrived?

takeoverVars == <<lock, record, issued, named, w, handlers>>

NoRecord == [gen |-> 0, pid |-> Nobody]

(* Where an owner is: everything from the lock taken to the lock released.   *)
Publishing == {"clear", "listen", "record", "check"}
Releasing  == {"unpublish", "close", "drain"}
Contending == {"read", "dial", "write", "wait", "poll"}

(* gen: own generation; target: the generation being asked; done: those that *)
(* answered; reply: what came back; end: why an owner releases.              *)
Off ==
    [pc |-> "off", takeover |-> FALSE, gen |-> 0, listening |-> FALSE, asked |-> FALSE,
     signal |-> FALSE, target |-> 0, done |-> {}, reply |-> "none", end |-> "none"]

Ends == {"none", "interrupted", "replaced", "finished", "fault"}

TakeoverInit ==
    /\ lock = Nobody
    /\ record = NoRecord
    /\ issued = 0
    /\ named = {}
    /\ w = [p \in Watchers |-> Off]
    /\ handlers = {}

At(p, pc) == w[p].pc = pc
Goto(p, pc) == w' = [w EXCEPT ![p].pc = pc]
Fault(f) == f \in Faults

(* The process is gone and with it the connections it has open; a line that  *)
(* is already written stays in the owner's socket.                           *)
Exit(p) ==
    /\ w' = [w EXCEPT ![p] = Off]
    /\ handlers' = {h \in handlers : ~(h.from = p /\ ~h.line)}

(* The context of a process before it owns: an interruption, never a         *)
(* takeover.                                                                 *)
Interrupted(p) == w[p].signal

-----------------------------------------------------------------------------
(* Acquire.                                                                  *)

Start(p, takeover) ==
    /\ At(p, "off")
    /\ w' = [w EXCEPT ![p] = [Off EXCEPT !.pc = "try", !.takeover = takeover]]
    /\ UNCHANGED <<lock, record, issued, named, handlers>>

TakeLock(p) ==
    /\ lock = Nobody
    /\ lock' = p
    /\ w' = [w EXCEPT ![p] = [Off EXCEPT !.pc = "clear", !.signal = w[p].signal]]
    /\ UNCHANGED <<record, issued, named, handlers>>

TryLock(p) ==
    /\ At(p, "try")
    /\ \/ TakeLock(p)
       \/ /\ lock # Nobody
          /\ IF w[p].takeover /\ ~Interrupted(p)
             THEN Goto(p, "read") /\ UNCHANGED handlers
             ELSE Exit(p)
          /\ UNCHANGED <<lock, record, issued, named>>

(* requestCurrent: a record of its own pid, or of a generation that has      *)
(* answered, is not asked (again).                                           *)
ReadRecord(p) ==
    /\ At(p, "read")
    /\ IF record = NoRecord \/ record.pid = p \/ record.gen \in w[p].done
       THEN Goto(p, "poll") /\ UNCHANGED named
       ELSE /\ w' = [w EXCEPT ![p].pc = "dial", ![p].target = record.gen]
            /\ named' = named \cup {record.gen}
    /\ UNCHANGED <<lock, record, issued, handlers>>

(* The endpoint's name is derived from the generation.                       *)
(* Mutant: the endpoint of whoever owns the home.                            *)
AnyEndpoint(g) == {q \in Watchers : w[q].listening}

Endpoint(g) == {q \in Watchers : w[q].listening /\ w[q].gen = g}

Dial(p) ==
    /\ At(p, "dial")
    /\ IF Endpoint(w[p].target) = {}
       THEN w' = [w EXCEPT ![p].pc = "poll", ![p].target = 0] /\ UNCHANGED handlers
       ELSE \E q \in Endpoint(w[p].target) :
              /\ handlers' = handlers \cup {[from |-> p, gen |-> w[q].gen, line |-> FALSE]}
              /\ w' = [w EXCEPT ![p].pc = "write", ![p].reply = "none"]
    /\ UNCHANGED <<lock, record, issued, named>>

Mine(p) == {h \in handlers : h.from = p /\ ~h.line}

WriteLine(p) ==
    /\ At(p, "write")
    /\ handlers' = (handlers \ Mine(p)) \cup {[h EXCEPT !.line = TRUE] : h \in Mine(p)}
    /\ w' = IF Mine(p) = {} THEN [w EXCEPT ![p].pc = "poll", ![p].target = 0]
                            ELSE [w EXCEPT ![p].pc = "wait"]
    /\ UNCHANGED <<lock, record, issued, named>>

(* The reply, the end of the connection, or the deadline of one second: only *)
(* an "ok" counts the generation as asked.  A handler may still find a line  *)
(* whose writer has given up.                                                *)
ReadReply(p) ==
    /\ At(p, "wait")
    /\ \E heard \in {w[p].reply, "late"} \ {"none"} :
         w' = [w EXCEPT ![p].pc = "poll", ![p].reply = "none", ![p].target = 0,
                        ![p].done = IF heard = "ok" THEN @ \cup {w[p].target} ELSE @]
    /\ UNCHANGED <<lock, record, issued, named, handlers>>

(* The loop of contend: the interruption, the lock, one more request.        *)
Poll(p) ==
    /\ At(p, "poll")
    /\ \/ ~Interrupted(p) /\ TakeLock(p)
       \/ /\ Interrupted(p)
          /\ Exit(p)
          /\ UNCHANGED <<lock, record, issued, named>>
       \/ /\ lock # Nobody /\ ~Interrupted(p)
          /\ Goto(p, "read")
          /\ UNCHANGED <<lock, record, issued, named, handlers>>

(* Mutant: the wait for the lock has no deadline.                            *)
WaitForever(p) == FALSE /\ UNCHANGED takeoverVars

(* The grace is over and the lock is still taken: ErrAttached.               *)
GiveUp(p) ==
    /\ At(p, "poll")
    /\ lock # Nobody /\ ~Interrupted(p)
    /\ Exit(p)
    /\ UNCHANGED <<lock, record, issued, named>>

-----------------------------------------------------------------------------
(* publishNewOwner, in its order: the stale record out, a fresh generation   *)
(* with its endpoint, the pid, the record last.                              *)

Unlock(p) ==
    /\ lock' = Nobody
    /\ Exit(p)

(* Mutant: whatever record a dead owner left stays.                          *)
KeepRecord(p) ==
    /\ At(p, "clear")
    /\ Goto(p, "listen")
    /\ UNCHANGED <<lock, record, issued, named, handlers>>

ClearRecord(p) ==
    /\ At(p, "clear")
    /\ \/ /\ record' = NoRecord
          /\ Goto(p, "listen")
          /\ UNCHANGED <<lock, issued, named, handlers>>
       \/ /\ Fault("file") /\ record # NoRecord
          /\ Unlock(p)
          /\ UNCHANGED <<record, issued, named>>

Listen(p) ==
    /\ At(p, "listen")
    /\ issued < MaxGen
    /\ issued' = issued + 1
    /\ w' = [w EXCEPT ![p].pc = "record", ![p].gen = issued + 1, ![p].listening = TRUE]
    /\ UNCHANGED <<lock, record, named, handlers>>

(* At the bound no generation can be had, which newGeneration reports.       *)
ListenFails(p) ==
    /\ At(p, "listen")
    /\ Fault("file") \/ issued = MaxGen
    /\ Unlock(p)
    /\ UNCHANGED <<record, issued, named>>

(* The pid and then the record; a failure at either closes the endpoint      *)
(* again.                                                                    *)
PublishRecord(p) ==
    /\ At(p, "record")
    /\ \/ /\ record' = [gen |-> w[p].gen, pid |-> p]
          /\ Goto(p, "check")
       \/ /\ Fault("file")
          /\ w' = [w EXCEPT ![p].pc = "close", ![p].end = "fault"]
          /\ UNCHANGED record
    /\ UNCHANGED <<lock, issued, named, handlers>>

(* AcquireContext looks at the interruption once more before it returns.     *)
Acquired(p) ==
    /\ At(p, "check")
    /\ w' = IF Interrupted(p)
            THEN [w EXCEPT ![p].pc = "unpublish", ![p].end = "interrupted"]
            ELSE [w EXCEPT ![p].pc = "run"]
    /\ UNCHANGED <<lock, record, issued, named, handlers>>

-----------------------------------------------------------------------------
(* The endpoint.                                                             *)

(* handle: the line names the generation; the request is passed on once,     *)
(* however many ask.                                                         *)
Handle(h) ==
    /\ h.line
    /\ handlers' = handlers \ {h}
    /\ w' = [q \in Watchers |->
               IF w[q].gen = h.gen
               THEN [w[q] EXCEPT !.asked = TRUE]
               ELSE IF q = h.from /\ w[q].pc = "wait" /\ w[q].target = h.gen
               THEN [w[q] EXCEPT !.reply = "ok"] ELSE w[q]]
    /\ UNCHANGED <<lock, record, issued, named>>

(* Mutant: a handler waits for its line for good.                            *)
NoDeadline(h) == FALSE /\ UNCHANGED takeoverVars

(* One second without a line, or the writer is gone.                         *)
HandlerDeadline(h) ==
    /\ ~h.line
    /\ handlers' = handlers \ {h}
    /\ UNCHANGED <<lock, record, issued, named, w>>

(* A connection whose owner has died is reset.                               *)
Reset(dead) ==
    [q \in Watchers |->
       IF w[q].pc \in {"write", "wait"} /\ w[q].target = w[dead].gen
       THEN [w[q] EXCEPT !.pc = "poll", !.target = 0, !.reply = "none"] ELSE w[q]]

-----------------------------------------------------------------------------
(* The running watcher, and its end: replaced is exit code 9, interrupted 8, *)
(* and 0, 4, 5 what RunUntilEvent comes to.                                  *)

(* SIGINT, SIGTERM, or the parent's cancellation.                            *)
Signal(p) ==
    /\ Fault("signal")
    /\ w[p].pc \in Contending \cup Publishing \cup {"try", "run"}
    /\ ~w[p].signal
    /\ w' = [w EXCEPT ![p].signal = TRUE]
    /\ UNCHANGED <<lock, record, issued, named, handlers>>

(* watchContext and cancelWithTakeoverPriority: a request that is observable *)
(* at the cancellation wins over the interruption.                           *)
Cancel(p) ==
    /\ At(p, "run")
    /\ w[p].asked \/ w[p].signal
    /\ w' = [w EXCEPT ![p].pc = "unpublish",
                      ![p].end = IF w[p].asked THEN "replaced" ELSE "interrupted"]
    /\ UNCHANGED <<lock, record, issued, named, handlers>>

(* RunUntilEvent comes to its own end: an event, no event in time, a task    *)
(* that cannot be armed.                                                     *)
Finish(p) ==
    /\ At(p, "run")
    /\ w' = [w EXCEPT ![p].pc = "unpublish", ![p].end = "finished"]
    /\ UNCHANGED <<lock, record, issued, named, handlers>>

(* Release: record, endpoint, pid, lock; what cannot be removed is left.     *)
Unpublish(p) ==
    /\ At(p, "unpublish")
    /\ record' \in {NoRecord} \cup (IF Fault("file") THEN {record} ELSE {})
    /\ Goto(p, "close")
    /\ UNCHANGED <<lock, issued, named, handlers>>

CloseEndpoint(p) ==
    /\ At(p, "close")
    /\ w' = [w EXCEPT ![p].pc = "drain", ![p].listening = FALSE]
    /\ UNCHANGED <<lock, record, issued, named, handlers>>

(* takeoverEndpoint.Close waits for the handlers it has accepted.            *)
Drained(p) == \A h \in handlers : h.gen # w[p].gen

DrainAndUnlock(p) ==
    /\ At(p, "drain")
    /\ Drained(p)
    /\ Unlock(p)
    /\ UNCHANGED <<record, issued, named>>

(* A process dies: the kernel drops its lock and its sockets.                *)
Crash(p) ==
    /\ Fault("crash")
    /\ w[p].pc # "off"
    /\ lock' = IF lock = p THEN Nobody ELSE lock
    /\ w' = [Reset(p) EXCEPT ![p] = Off]
    /\ handlers' = {h \in handlers : ~(h.from = p /\ ~h.line)
                                     /\ ~(w[p].gen # 0 /\ h.gen = w[p].gen)}
    /\ UNCHANGED <<record, issued, named>>

-----------------------------------------------------------------------------
Contend(p) ==
    TryLock(p) \/ ReadRecord(p) \/ Dial(p) \/ WriteLine(p) \/ ReadReply(p) \/ Poll(p)

Publish(p) ==
    ClearRecord(p) \/ Listen(p) \/ ListenFails(p) \/ PublishRecord(p) \/ Acquired(p)

Release(p) == Unpublish(p) \/ CloseEndpoint(p) \/ DrainAndUnlock(p)

Serve == \E h \in handlers : Handle(h) \/ HandlerDeadline(h)

TakeoverNext ==
    \/ \E p \in Watchers :
         \/ \E takeover \in BOOLEAN : Start(p, takeover)
         \/ Contend(p)
         \/ Publish(p)
         \/ Release(p)
         \/ GiveUp(p)
         \/ Signal(p)
         \/ Cancel(p)
         \/ Finish(p)
         \/ Crash(p)
    \/ Serve

(* Processes run, handlers have their deadline, and a contender that looks   *)
(* again and again runs out of grace.  Nothing is assumed of a contender     *)
(* between its dial and its line, of signals, or of when a watcher that      *)
(* nobody asks comes to its end.                                             *)
TakeoverSpec ==
    /\ TakeoverInit
    /\ [][TakeoverNext]_takeoverVars
    /\ \A p \in Watchers :
         /\ WF_takeoverVars(TryLock(p) \/ ReadRecord(p) \/ Dial(p) \/ ReadReply(p) \/ Poll(p))
         /\ WF_takeoverVars(Publish(p))
         /\ WF_takeoverVars(Release(p))
         /\ WF_takeoverVars(Cancel(p))
         /\ SF_takeoverVars(GiveUp(p))
    /\ \A p \in Watchers, g \in 1..MaxGen :
         WF_takeoverVars(\E line \in BOOLEAN :
            LET h == [from |-> p, gen |-> g, line |-> line]
            IN  h \in handlers /\ (Handle(h) \/ HandlerDeadline(h)))

-----------------------------------------------------------------------------
(* Type correctness.                                                         *)
TakeoverTypeOK ==
    /\ lock \in Watchers \cup {Nobody}
    /\ record \in [gen : 0..MaxGen, pid : Watchers \cup {Nobody}]
    /\ issued \in 0..MaxGen
    /\ named \subseteq 1..MaxGen
    /\ handlers \subseteq [from : Watchers, gen : 1..MaxGen, line : BOOLEAN]
    /\ w \in [Watchers ->
         [pc : {"off", "try", "run"} \cup Contending \cup Publishing \cup Releasing,
          takeover : BOOLEAN, gen : 0..MaxGen, listening : BOOLEAN, asked : BOOLEAN,
          signal : BOOLEAN, target : 0..MaxGen, done : SUBSET (1..MaxGen),
          reply : {"none", "ok"}, end : Ends]]

(* watch.owner never routes a request past the owner: while a watcher is     *)
(* published or publishes itself, the record is its own or absent, whatever  *)
(* crashes and failed removals have left behind (ownership.go:174, "a stale  *)
(* generation cannot route a takeover at a stale incumbent"), and the record *)
(* of a watcher that runs has its endpoint behind it (owner_record.go:99).   *)
RecordIsOwners ==
    \A p \in Watchers :
      /\ w[p].pc \in {"listen", "record", "check", "run"} =>
           record.gen \in {0, w[p].gen}
      /\ w[p].gen # 0 /\ record.gen = w[p].gen /\ w[p].pc \notin {"drain"} =>
           lock = p /\ w[p].listening

(* A request stops only the generation it names: a watcher that is asked to  *)
(* go was named by a contender that read its record, however owners came and *)
(* went between the contender's read and its dial (requestCurrent).          *)
OnlyTheNamedIsAsked ==
    \A p \in Watchers : w[p].asked => w[p].gen \in named

(* A watcher that takes over reaches the incumbent it read about or nobody:  *)
(* the record is the lock holder's or nobody's, and only the generation that *)
(* a contender named is ever asked to step aside.                            *)
TakeoverInv ==
    /\ TakeoverTypeOK
    /\ RecordIsOwners
    /\ OnlyTheNamedIsAsked

(* The ownership promised by HandOwner is what lock, record and endpoint     *)
(* implement: one owner, and an owner that was asked goes, although Close    *)
(* waits for handlers whose contenders may never write their line.           *)
Owner == INSTANCE HandOwner WITH
    owner <- lock,
    asked <- lock # Nobody /\ w[lock].asked

OwnershipKept == Owner!OwnerSpec

(* A contender comes to an end of its wait: it owns the home, or it is told  *)
(* that it does not get it, unless it is itself stopped between its dial and *)
(* its line (contend waits for a lock whose holder waits for handlers).      *)
ContenderSettles ==
    \A p \in Watchers :
      \/ w[p].pc \in Contending ~> w[p].pc \notin Contending
      \/ <>[](w[p].pc = "write")

=============================================================================
